---------------------------- MODULE VtxPipeline ----------------------------
(***************************************************************************)
(* The video pipeline of apps/vtx.c: the main thread that starts and stops *)
(* it, the capture thread, the transmit thread, and the camera, encoder    *)
(* and USB host they drive.  Frame contents are abstracted: what is kept   *)
(* is which buffer is where, which ctx field holds what, and the order in  *)
(* which the three threads touch them.                                     *)
(***************************************************************************)
EXTENDS Integers, Sequences, FiniteSets

CONSTANTS
    NumBuffers,     \* MAX_V4L2_BUFFERS, the value of ctx->buf_count
    FifoSize,       \* FIFO_SIZE
    SplitOutput,    \* may the encoder emit a frame as several packets?
    WriteMayBlock   \* may write() on the bulk endpoint block until the host reads?

ASSUME SizeAssumption ==
    /\ NumBuffers \in Nat \ {0}
    /\ FifoSize \in Nat
    /\ FifoSize >= NumBuffers
ASSUME ModeAssumption == SplitOutput \in BOOLEAN /\ WriteMayBlock \in BOOLEAN

Buffer == 0 .. NumBuffers - 1
Slot   == 0 .. FifoSize - 1

\* An index into the ring.
Index(n) == n % FifoSize

VARIABLES
    quit,       \* set by SIGINT and SIGTERM
    streaming,  \* ctx->streaming
    fifo, head, tail,   \* the ring of buffer indices between the two threads
    where,      \* who may touch the memory of each buffer
    enc,        \* buffers submitted to the encoder and not finished, oldest first
    camOn,      \* between STREAMON and STREAMOFF
    cpc, cidx,              \* capture thread: program counter, buf.index
    tpc, pkt, complete, ridx, \* transmit thread: pc, frame of packet, frame_complete, return_idx
    mpc, step,              \* main thread: program counter, position in start_pipeline
    held,       \* ctx fields that hold a live resource
    queueOwner, \* which file handle owns the camera's buffer queue
    result      \* what the last start_pipeline came to

capVars  == <<cpc, cidx>>
txVars   == <<tpc, pkt, complete, ridx>>
ringVars == <<fifo, head, tail>>
mainVars == <<mpc, step, held, queueOwner, result>>
vars == <<quit, streaming, ringVars, where, enc, camOn, capVars, txVars, mainVars>>

Place == {"user", "queued", "filled", "cap", "enc", "tx"}
CapPC == {"none", "check", "dequeue", "push", "put", "rollback", "requeue", "done"}
TxPC  == {"none", "check", "get", "wcheck", "write", "blocked", "finish", "requeue", "done"}
MainPC == {"idle", "trigger", "leave", "start", "kill", "join", "camera", "encoder", "release", "reset", "exited"}
Resource == {"v4l2_fd", "buf_group", "buffers", "mpp_ctx", "enc_cfg", "ref_cfg"}

\* The calls of start_pipeline that can make it return -1, in order.
StartSteps == <<"open", "querycap", "s_fmt", "group", "buffers", "reqbufs", "qbuf",
                "streamon", "mpp_create", "timeout", "mpp_init", "enc_cfg", "set_cfg",
                "ref_check", "set_ref_cfg", "packet", "threads">>

\* The ctx field each of them assigns.
Acquires(s) ==
    CASE s = "open"       -> {"v4l2_fd"}
      [] s = "group"      -> {"buf_group"}
      [] s = "buffers"    -> {"buffers"}
      [] s = "mpp_create" -> {"mpp_ctx"}
      [] s = "enc_cfg"    -> {"enc_cfg"}
      [] s = "ref_check"  -> {"ref_cfg"}
      [] OTHER            -> {}

Init ==
    /\ quit = FALSE /\ streaming = FALSE /\ camOn = FALSE
    /\ fifo = [s \in Slot |-> 0] /\ head = 0 /\ tail = 0
    /\ where = [b \in Buffer |-> "user"] /\ enc = <<>>
    /\ cpc = "none" /\ cidx = 0
    /\ tpc = "none" /\ pkt = 0 /\ complete = FALSE /\ ridx = 0
    /\ mpc \in {"idle", "start"} /\ step = 1   \* "start" when autostart is set
    /\ held = {} /\ queueOwner = "none" /\ result = "none"

----------------------------------------------------------------------------
(* The camera (external): it writes frames into queued buffers.            *)

CamFill(b) ==
    /\ camOn /\ where[b] = "queued"
    /\ where' = [where EXCEPT ![b] = "filled"]
    /\ UNCHANGED <<quit, streaming, ringVars, enc, camOn, capVars, txVars, mainVars>>

----------------------------------------------------------------------------
(* camera_capture_thread                                                   *)

CapCheck ==
    /\ cpc = "check"
    /\ cpc' = IF ~quit /\ streaming THEN "dequeue" ELSE "done"
    /\ UNCHANGED <<quit, streaming, ringVars, where, enc, camOn, cidx, txVars, mainVars>>

\* poll times out or is interrupted, or VIDIOC_DQBUF fails.
CapIdle ==
    /\ cpc = "dequeue"
    /\ cpc' = "check"
    /\ UNCHANGED <<quit, streaming, ringVars, where, enc, camOn, cidx, txVars, mainVars>>

CapDequeue ==
    /\ cpc = "dequeue"
    /\ \E b \in Buffer :
        /\ where[b] = "filled"
        /\ where' = [where EXCEPT ![b] = "cap"]
        /\ cidx' = b
    /\ cpc' = "push"
    /\ UNCHANGED <<quit, streaming, ringVars, enc, camOn, txVars, mainVars>>

CapPush ==
    /\ cpc = "push"
    /\ fifo' = [fifo EXCEPT ![head] = cidx]
    /\ head' = Index(head + 1)
    /\ cpc' = "put"
    /\ UNCHANGED <<quit, streaming, tail, where, enc, camOn, cidx, txVars, mainVars>>

CapPutOk ==
    /\ cpc = "put"
    /\ enc' = Append(enc, cidx)
    /\ where' = [where EXCEPT ![cidx] = "enc"]
    /\ cpc' = "check"
    /\ UNCHANGED <<quit, streaming, ringVars, camOn, cidx, txVars, mainVars>>

\* Mutant: the entry of a rejected frame stays in the ring.
CapPutRejectedNoRollback ==
    /\ cpc = "put"
    /\ cpc' = "requeue"
    /\ UNCHANGED <<quit, streaming, ringVars, where, enc, camOn, cidx, txVars, mainVars>>

CapPutRejected ==
    /\ cpc = "put"
    /\ cpc' = "rollback"
    /\ UNCHANGED <<quit, streaming, ringVars, where, enc, camOn, cidx, txVars, mainVars>>

\* Mutant: a rejected buffer is not queued again.
CapRollbackOnly ==
    /\ cpc = "rollback"
    /\ head' = Index(head + FifoSize - 1)
    /\ cpc' = "check"
    /\ UNCHANGED <<quit, streaming, fifo, tail, where, enc, camOn, cidx, txVars, mainVars>>

CapRollback ==
    /\ cpc = "rollback"
    /\ head' = Index(head + FifoSize - 1)
    /\ cpc' = "requeue"
    /\ UNCHANGED <<quit, streaming, fifo, tail, where, enc, camOn, cidx, txVars, mainVars>>

\* VIDIOC_QBUF; its result is ignored, so a failure leaves the buffer with nobody.
CapRequeue ==
    /\ cpc = "requeue"
    /\ \E p \in {"queued", "user"} : where' = [where EXCEPT ![cidx] = p]
    /\ cpc' = "check"
    /\ UNCHANGED <<quit, streaming, ringVars, enc, camOn, cidx, txVars, mainVars>>

Capture == CapCheck \/ CapIdle \/ CapDequeue \/ CapPush \/ CapPutOk
           \/ CapPutRejected \/ CapRollback \/ CapRequeue

----------------------------------------------------------------------------
(* venc_tx_thread                                                          *)

\* Mutant: the loop tests quit only.
TxCheckIgnoresStop ==
    /\ tpc = "check"
    /\ tpc' = IF ~quit THEN "get" ELSE "done"
    /\ UNCHANGED <<quit, streaming, ringVars, where, enc, camOn, capVars,
                   pkt, complete, ridx, mainVars>>

TxCheck ==
    /\ tpc = "check"
    /\ tpc' = IF ~quit /\ streaming THEN "get" ELSE "done"
    /\ UNCHANGED <<quit, streaming, ringVars, where, enc, camOn, capVars,
                   pkt, complete, ridx, mainVars>>

\* encode_get_packet fails or times out after 20 ms.
TxIdle ==
    /\ tpc = "get"
    /\ tpc' = "check"
    /\ UNCHANGED <<quit, streaming, ringVars, where, enc, camOn, capVars,
                   pkt, complete, ridx, mainVars>>

\* A packet of the oldest frame: its last one or, with split output, an earlier
\* one.  Handing out the last one the encoder is done with the frame's buffer.
\* An empty packet is not written.
TxGet(last) ==
    /\ tpc = "get" /\ enc # <<>>
    /\ last \/ SplitOutput
    /\ pkt' = Head(enc)
    /\ complete' = last
    /\ enc' = IF last THEN Tail(enc) ELSE enc
    /\ where' = IF last THEN [where EXCEPT ![Head(enc)] = "tx"] ELSE where
    /\ tpc' \in {"wcheck", "finish"}
    /\ UNCHANGED <<quit, streaming, ringVars, camOn, capVars, ridx, mainVars>>

TxWriteCheck ==
    /\ tpc = "wcheck"
    /\ tpc' = IF ~quit /\ streaming THEN "write" ELSE "finish"
    /\ UNCHANGED <<quit, streaming, ringVars, where, enc, camOn, capVars,
                   pkt, complete, ridx, mainVars>>

\* write() takes part of the frame, is interrupted, or is told EAGAIN and poll
\* finds the endpoint writable again within 25 ms.
TxWriteMore ==
    /\ tpc = "write"
    /\ tpc' = "wcheck"
    /\ UNCHANGED <<quit, streaming, ringVars, where, enc, camOn, capVars,
                   pkt, complete, ridx, mainVars>>

\* write() takes the rest of the frame, fails, or the poll times out.
TxWriteEnds ==
    /\ tpc = "write"
    /\ tpc' = "finish"
    /\ UNCHANGED <<quit, streaming, ringVars, where, enc, camOn, capVars,
                   pkt, complete, ridx, mainVars>>

TxBlock ==
    /\ tpc = "write" /\ WriteMayBlock
    /\ tpc' = "blocked"
    /\ UNCHANGED <<quit, streaming, ringVars, where, enc, camOn, capVars,
                   pkt, complete, ridx, mainVars>>

\* The host (external) reads, and the blocked write() returns.
HostRead ==
    /\ tpc = "blocked"
    /\ tpc' \in {"wcheck", "finish"}
    /\ UNCHANGED <<quit, streaming, ringVars, where, enc, camOn, capVars,
                   pkt, complete, ridx, mainVars>>

\* Mutant: every packet counts as its frame's last.
TxFinishAnyPacket ==
    /\ tpc = "finish"
    /\ ridx' = fifo[tail]
    /\ tail' = Index(tail + 1)
    /\ tpc' = "requeue"
    /\ UNCHANGED <<quit, streaming, fifo, head, where, enc, camOn, capVars,
                   pkt, complete, mainVars>>

TxFinish ==
    /\ tpc = "finish"
    /\ IF complete
       THEN /\ ridx' = fifo[tail]
            /\ tail' = Index(tail + 1)
            /\ tpc' = "requeue"
       ELSE /\ tpc' = "check"
            /\ UNCHANGED <<ridx, tail>>
    /\ UNCHANGED <<quit, streaming, fifo, head, where, enc, camOn, capVars,
                   pkt, complete, mainVars>>

\* VIDIOC_QBUF, result ignored.
TxRequeue ==
    /\ tpc = "requeue"
    /\ \E p \in {"queued", "user"} : where' = [where EXCEPT ![ridx] = p]
    /\ tpc' = "check"
    /\ UNCHANGED <<quit, streaming, ringVars, enc, camOn, capVars,
                   pkt, complete, ridx, mainVars>>

Transmit == TxCheck \/ TxIdle \/ TxGet(TRUE) \/ TxGet(FALSE) \/ TxWriteCheck
            \/ TxWriteMore \/ TxWriteEnds \/ TxBlock \/ TxFinish \/ TxRequeue

----------------------------------------------------------------------------
(* start_pipeline, called by main when a trigger finds it not streaming    *)

StartBegin ==
    /\ mpc = "trigger" /\ ~streaming
    /\ mpc' = "start" /\ step' = 1
    /\ UNCHANGED <<quit, streaming, ringVars, where, enc, camOn, capVars, txVars,
                   held, queueOwner, result>>

\* open() stores its result in ctx->v4l2_fd whatever was there: a descriptor an
\* earlier failed start left behind is lost, and the camera queue it owns with it.
StartOpen ==
    /\ mpc = "start" /\ StartSteps[step] = "open"
    /\ queueOwner' = IF queueOwner = "ctx" THEN "orphan" ELSE queueOwner
    /\ \/ /\ held' = held \cup {"v4l2_fd"}
          /\ step' = step + 1
          /\ UNCHANGED <<mpc, result>>
       \/ /\ held' = held \ {"v4l2_fd"}
          /\ mpc' = "idle" /\ result' = "fault"
          /\ UNCHANGED step
    /\ UNCHANGED <<quit, streaming, ringVars, where, enc, camOn, capVars, txVars>>

\* REQBUFS makes this handle the queue's owner; it fails while another one is.
StartReqbufs ==
    /\ mpc = "start" /\ StartSteps[step] = "reqbufs"
    /\ \/ /\ queueOwner # "orphan"
          /\ queueOwner' = "ctx" /\ step' = step + 1
          /\ UNCHANGED <<mpc, result>>
       \/ /\ mpc' = "idle"
          /\ result' = IF queueOwner = "orphan" THEN "busy" ELSE "fault"
          /\ UNCHANGED <<queueOwner, step>>
    /\ UNCHANGED <<quit, streaming, ringVars, where, enc, camOn, capVars, txVars,
                   held>>

\* The QBUF loop queues all buffers, or the ones before the first failure.
StartQbuf ==
    /\ mpc = "start" /\ StartSteps[step] = "qbuf"
    /\ \E n \in 0 .. NumBuffers :
        /\ where' = [b \in Buffer |-> IF b < n THEN "queued" ELSE where[b]]
        /\ IF n = NumBuffers
           THEN step' = step + 1 /\ UNCHANGED <<mpc, result>>
           ELSE mpc' = "idle" /\ result' = "fault" /\ UNCHANGED step
    /\ UNCHANGED <<quit, streaming, ringVars, enc, camOn, capVars, txVars,
                   held, queueOwner>>

\* Every other fallible call.  It assigns its ctx field on success; the buffer
\* loop and the reference configuration may leave theirs set on failure too.
StartCall ==
    /\ mpc = "start"
    /\ StartSteps[step] \notin {"open", "reqbufs", "qbuf", "threads"}
    /\ LET s == StartSteps[step] IN
        \/ /\ held' = held \cup Acquires(s)
           /\ camOn' = (camOn \/ s = "streamon")
           /\ step' = step + 1
           /\ UNCHANGED <<mpc, result>>
        \/ /\ \/ held' = held /\ s # "ref_check"
              \/ held' = held \cup Acquires(s) /\ s \in {"buffers", "ref_check"}
           /\ mpc' = "idle" /\ result' = "fault"
           /\ UNCHANGED <<camOn, step>>
    /\ UNCHANGED <<quit, streaming, ringVars, where, enc, capVars, txVars, queueOwner>>

StartThreads ==
    /\ mpc = "start" /\ StartSteps[step] = "threads"
    /\ streaming' = TRUE
    /\ tpc' = "check" /\ cpc' = "check"
    /\ mpc' = "idle" /\ result' = "ok"
    /\ UNCHANGED <<quit, ringVars, where, enc, camOn, cidx, pkt, complete, ridx,
                   step, held, queueOwner>>

Start == StartOpen \/ StartReqbufs \/ StartQbuf \/ StartCall \/ StartThreads

----------------------------------------------------------------------------
(* stop_pipeline, called by main on a trigger or once the loop has ended   *)

StopBegin ==
    /\ mpc \in {"trigger", "leave"} /\ streaming
    /\ streaming' = FALSE /\ mpc' = "kill"
    /\ UNCHANGED <<quit, ringVars, where, enc, camOn, capVars, txVars,
                   step, held, queueOwner, result>>

\* SIGUSR1 makes a blocked write() return EINTR; a running thread ignores it.
StopKill ==
    /\ mpc = "kill"
    /\ mpc' = "join"
    /\ tpc' = IF tpc = "blocked" THEN "wcheck" ELSE tpc
    /\ UNCHANGED <<quit, streaming, ringVars, where, enc, camOn, capVars,
                   pkt, complete, ridx, step, held, queueOwner, result>>

\* Mutant: only the capture thread is joined.
StopJoinOne ==
    /\ mpc = "join" /\ cpc = "done"
    /\ mpc' = "camera"
    /\ UNCHANGED <<quit, streaming, ringVars, where, enc, camOn, capVars, txVars,
                   step, held, queueOwner, result>>

StopJoin ==
    /\ mpc = "join" /\ cpc = "done" /\ tpc = "done"
    /\ mpc' = "camera"
    /\ UNCHANGED <<quit, streaming, ringVars, where, enc, camOn, capVars, txVars,
                   step, held, queueOwner, result>>

\* STREAMOFF returns every buffer of the camera; close() frees its queue.
StopCamera ==
    /\ mpc = "camera"
    /\ where' = [b \in Buffer |-> IF where[b] \in {"queued", "filled"}
                                  THEN "user" ELSE where[b]]
    /\ camOn' = FALSE
    /\ queueOwner' = IF queueOwner = "ctx" THEN "none" ELSE queueOwner
    /\ held' = held \ {"v4l2_fd"}
    /\ mpc' = "encoder"
    /\ UNCHANGED <<quit, streaming, ringVars, enc, capVars, txVars, step, result>>

\* Mutant: the encoder configuration is not released.
StopEncoderKeepsCfg ==
    /\ mpc = "encoder"
    /\ enc' = <<>>
    /\ where' = [b \in Buffer |-> IF where[b] = "enc" THEN "user" ELSE where[b]]
    /\ held' = held \ {"ref_cfg", "mpp_ctx"}
    /\ mpc' = "release"
    /\ UNCHANGED <<quit, streaming, ringVars, camOn, capVars, txVars,
                   step, queueOwner, result>>

\* mpp_destroy abandons the frames still in the encoder.
StopEncoder ==
    /\ mpc = "encoder"
    /\ enc' = <<>>
    /\ where' = [b \in Buffer |-> IF where[b] = "enc" THEN "user" ELSE where[b]]
    /\ held' = held \ {"ref_cfg", "enc_cfg", "mpp_ctx"}
    /\ mpc' = "release"
    /\ UNCHANGED <<quit, streaming, ringVars, camOn, capVars, txVars,
                   step, queueOwner, result>>

StopRelease ==
    /\ mpc = "release"
    /\ held' = held \ {"buffers", "buf_group"}
    /\ mpc' = "reset"
    /\ UNCHANGED <<quit, streaming, ringVars, where, enc, camOn, capVars, txVars,
                   step, queueOwner, result>>

\* Mutant: only the head is reset.
StopResetHead ==
    /\ mpc = "reset"
    /\ head' = 0
    /\ mpc' = "idle"
    /\ UNCHANGED <<quit, streaming, fifo, tail, where, enc, camOn, capVars, txVars,
                   step, held, queueOwner, result>>

StopReset ==
    /\ mpc = "reset"
    /\ head' = 0 /\ tail' = 0
    /\ mpc' = "idle"
    /\ UNCHANGED <<quit, streaming, fifo, where, enc, camOn, capVars, txVars,
                   step, held, queueOwner, result>>

Stop == StopKill \/ StopJoin \/ StopCamera \/ StopEncoder \/ StopRelease \/ StopReset

----------------------------------------------------------------------------
(* main and its signals                                                    *)

\* The loop test; what triggers the toggle is modelled in VtxTrigger.
MainLoop ==
    /\ mpc = "idle"
    /\ mpc' = IF quit THEN "leave" ELSE "trigger"
    /\ UNCHANGED <<quit, streaming, ringVars, where, enc, camOn, capVars, txVars,
                   step, held, queueOwner, result>>

NoTrigger ==
    /\ mpc = "trigger"
    /\ mpc' = "idle"
    /\ UNCHANGED <<quit, streaming, ringVars, where, enc, camOn, capVars, txVars,
                   step, held, queueOwner, result>>

\* Any thread may run the handler; a blocked write() it interrupts is retried.
Sigterm ==
    /\ ~quit
    /\ quit' = TRUE
    /\ tpc' \in {tpc, IF tpc = "blocked" THEN "wcheck" ELSE tpc}
    /\ UNCHANGED <<streaming, ringVars, where, enc, camOn, capVars,
                   pkt, complete, ridx, mainVars>>

Exit ==
    /\ mpc = "leave" /\ ~streaming
    /\ mpc' = "exited"
    /\ UNCHANGED <<quit, streaming, ringVars, where, enc, camOn, capVars, txVars,
                   step, held, queueOwner, result>>

Exited == mpc = "exited" /\ UNCHANGED vars

Main == MainLoop \/ NoTrigger \/ StartBegin \/ Start \/ StopBegin \/ Stop \/ Exit

Next ==
    \/ \E b \in Buffer : CamFill(b)
    \/ Capture \/ Transmit \/ HostRead
    \/ Main \/ Sigterm \/ Exited

Spec == Init /\ [][Next]_vars

\* The threads run on (the workers are SCHED_FIFO), their calls return, the
\* encoder finishes what it has, and a frame is finite.
ThreadFairness ==
    /\ WF_vars(Capture) /\ WF_vars(Transmit) /\ WF_vars(Main)
    /\ SF_vars(TxGet(TRUE)) /\ SF_vars(TxWriteEnds)

\* The host keeps reading the endpoint.
HostFairness == WF_vars(HostRead)

LiveSpec     == Spec /\ ThreadFairness
LiveHostSpec == LiveSpec /\ HostFairness

----------------------------------------------------------------------------
(* Safety                                                                  *)

\* Every variable has its type.
TypeOK ==
    /\ quit \in BOOLEAN /\ streaming \in BOOLEAN /\ camOn \in BOOLEAN
    /\ fifo \in [Slot -> Buffer] /\ head \in Slot /\ tail \in Slot
    /\ where \in [Buffer -> Place] /\ enc \in Seq(Buffer)
    /\ cpc \in CapPC /\ cidx \in Buffer
    /\ tpc \in TxPC /\ pkt \in Buffer /\ complete \in BOOLEAN /\ ridx \in Buffer
    /\ mpc \in MainPC /\ step \in 1 .. Len(StartSteps)
    /\ held \in SUBSET Resource
    /\ queueOwner \in {"none", "ctx", "orphan"}
    /\ result \in {"none", "ok", "fault", "busy"}

\* A packet being sent, and whether capture has pushed a buffer it still holds.
Sending == tpc \in {"wcheck", "write", "blocked", "finish"}
Pushed  == cpc \in {"put", "rollback"}

\* The buffers the ring must hold, oldest first: that of the packet being sent
\* when it is its frame's last, those in the encoder, and the one being put.
Sent   == IF complete /\ Sending THEN <<pkt>> ELSE <<>>
Put    == IF Pushed THEN <<cidx>> ELSE <<>>
InRing == Sent \o enc \o Put

\* The ring with contents f, head h and tail t holds the sequence q.
RingHolds(f, h, t, q) ==
    /\ \A k \in 1 .. Len(q) : f[Index(t + k - 1)] = q[k]
    /\ h = Index(t + Len(q))

\* The ring agrees with the encoder: slot by slot it holds the frames in flight
\* in the order their packets come out, through rollbacks and wrap-around.
RingMatches == mpc \notin {"release", "reset"} => RingHolds(fifo, head, tail, InRing)

\* The buffer venc_tx_thread returns to the camera is the one whose frame it has
\* just sent, never one the encoder still reads or the camera already has.
ReturnsFinishedBuffer == tpc = "requeue" => ridx = pkt /\ where[ridx] = "tx"

\* The threads live from the end of start_pipeline to the joins of stop_pipeline,
\* and the encoder has frames no longer than until it is destroyed.
ControlInv ==
    /\ streaming => mpc \in {"idle", "trigger", "leave"}
    /\ ~streaming /\ mpc \notin {"kill", "join"} =>
        cpc \in {"none", "done"} /\ tpc \in {"none", "done"}
    /\ ~streaming /\ mpc \notin {"kill", "join", "camera", "encoder"} => enc = <<>>

\* A thread owns the buffer it handles, and the encoder each of its own, once.
OwnershipInv ==
    /\ cpc \in {"push", "put", "rollback", "requeue"} => where[cidx] = "cap"
    /\ complete /\ (Sending \/ tpc = "requeue") => where[pkt] = "tx"
    /\ tpc = "requeue" => complete
    /\ \A i \in 1 .. Len(enc) : where[enc[i]] = "enc"
    /\ \A i, j \in 1 .. Len(enc) : enc[i] = enc[j] => i = j

\* The inductive invariant behind RingMatches and ReturnsFinishedBuffer.
RingIInv ==
    TypeOK /\ ControlInv /\ OwnershipInv /\ RingMatches
    /\ (tpc = "requeue" => ridx = pkt)

\* No thread touches the camera or the encoder unless every ctx field it needs
\* is live, and the buffers are not released while the camera or the encoder may
\* still write or read one.
NoUseAfterRelease ==
    /\ (cpc \notin {"none", "done"} \/ tpc \notin {"none", "done"}) => held = Resource
    /\ (\E b \in Buffer : where[b] # "user") => "buffers" \in held

\* After a session that started, stop_pipeline leaves nothing behind: the ctx is
\* as it was before, and a restart overwrites no field that still holds something.
CleanStart ==
    result = "ok" /\ ~streaming /\ mpc \in {"idle", "trigger", "leave", "start", "exited"} =>
        /\ held = IF mpc = "start"
                  THEN UNION {Acquires(StartSteps[i]) : i \in 1 .. step - 1} ELSE {}
        /\ queueOwner = "ctx" => mpc = "start"
        /\ mpc # "start" => \A b \in Buffer : where[b] = "user"
        /\ enc = <<>> /\ head = 0 /\ tail = 0

\* A start that failed once it owned the camera's queue is final: as soon as
\* main tries again the descriptor is lost, and nothing ever streams again.
OrphanIsFinal ==
    queueOwner = "orphan" => queueOwner' = "orphan" /\ ~streaming'

\* Sessions do not mix: whatever one leaves, the next starts as the first did, or,
\* when a failed start holds on to the camera, there is no next one.  (Init, with no
\* result yet, is a CleanStart.)
SessionsApart == [][CleanStart' /\ OrphanIsFinal]_vars

\* start_pipeline never fails just because of an earlier start: the standby
\* message of main promises that a press starts the stream (vtx.c:734).
NeverBusy == result # "busy"

----------------------------------------------------------------------------
(* Liveness                                                                *)

\* stop_pipeline returns: no thread is left waiting when main joins it.
StopCompletes == (mpc = "kill") ~> (mpc = "idle" \/ mpc = "exited")

\* SIGINT or SIGTERM ends the program.
QuitExits == quit ~> (mpc = "exited")

\* main is never stuck in a join: every stop returns, and a signal to quit
\* ends the program with the pipeline down.
MainGetsOn == StopCompletes /\ QuitExits

\* A captured buffer goes round: it is queued to the camera again or the session
\* ends; none stays with a thread or in the encoder.
BufferReturns == \A b \in Buffer :
    (where[b] \in {"cap", "enc", "tx"}) ~> (where[b] \in {"queued", "user"})

----------------------------------------------------------------------------
(* The ring, the threads and the ioctls implement the buffer pool          *)

Stage(p) ==
    CASE p = "user" -> "idle"
      [] p \in {"queued", "filled"} -> "camera"
      [] p = "cap" -> "captured"
      [] p = "enc" -> "encoding"
      [] p = "tx" -> "sent"

Pool == INSTANCE BufferPool WITH
    Buffers <- Buffer,
    stage <- [b \in Buffer |-> Stage(where[b])],
    order <- enc

\* Every step of the program is a step of the pool or leaves it alone.
ImplementsPool == Pool!Spec

=============================================================================
