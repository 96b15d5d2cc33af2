----------------------------- MODULE BufferPool -----------------------------
(***************************************************************************)
(* What the two threads of apps/vtx.c promise together about the camera's  *)
(* buffers, without the ring of indices, the threads and the ioctls: a     *)
(* buffer is in one place at a time, the encoder is given only buffers the *)
(* camera has handed out, and what goes back to the camera is the buffer   *)
(* of the oldest frame in the encoder, after its last packet.              *)
(***************************************************************************)
EXTENDS Sequences, Naturals

CONSTANT Buffers

VARIABLES
    stage,  \* "idle", "camera", "captured", "encoding" or "sent"
    order   \* the buffers being encoded, oldest first

Init == stage = [b \in Buffers |-> "idle"] /\ order = <<>>

\* The application queues some buffers to the camera.
Lend(S) ==
    /\ S # {}
    /\ \A b \in S : stage[b] = "idle"
    /\ stage' = [b \in Buffers |-> IF b \in S THEN "camera" ELSE stage[b]]
    /\ UNCHANGED order

Captured(b) ==
    /\ stage[b] = "camera"
    /\ stage' = [stage EXCEPT ![b] = "captured"]
    /\ UNCHANGED order

Submit(b) ==
    /\ stage[b] = "captured"
    /\ stage' = [stage EXCEPT ![b] = "encoding"]
    /\ order' = Append(order, b)

\* The oldest frame's last packet has come out.
Encoded ==
    /\ order # <<>>
    /\ stage' = [stage EXCEPT ![Head(order)] = "sent"]
    /\ order' = Tail(order)

\* A captured buffer the encoder refused, or one whose frame is sent, goes back
\* to the camera, or to nobody when queueing it fails.
GiveBack(b) ==
    /\ stage[b] \in {"captured", "sent"}
    /\ \E s \in {"camera", "idle"} : stage' = [stage EXCEPT ![b] = s]
    /\ UNCHANGED order

\* The camera is stopped and returns all it had.
Withdraw ==
    /\ stage' = [b \in Buffers |-> IF stage[b] = "camera" THEN "idle" ELSE stage[b]]
    /\ UNCHANGED order

\* The encoder is destroyed, once the camera holds nothing.
Abandon ==
    /\ \A b \in Buffers : stage[b] \in {"idle", "encoding"}
    /\ stage' = [b \in Buffers |-> "idle"]
    /\ order' = <<>>

Next ==
    \/ \E S \in SUBSET Buffers : Lend(S)
    \/ \E b \in Buffers : Captured(b) \/ Submit(b) \/ GiveBack(b)
    \/ Encoded \/ Withdraw \/ Abandon

Spec == Init /\ [][Next]_<<stage, order>>

=============================================================================
