------------------------- MODULE ReaderWriterLock -------------------------
(***************************************************************************)
(* What bb.utils.lockfile() promises to the processes of a build: a lock   *)
(* that one process holds exclusively, or several hold shared.             *)
(***************************************************************************)
CONSTANT Procs

VARIABLE holding  \* how each process holds the lock: "no", "shared", "exclusive"

\* May p come to hold the lock in this way?
Compatible(p, how) ==
  \A q \in Procs \ {p} : IF how = "exclusive" THEN holding[q] = "no"
                                              ELSE holding[q] # "exclusive"

Init == holding = [p \in Procs |-> "no"]

Acquire(p, how) ==
  /\ holding[p] = "no" /\ Compatible(p, how)
  /\ holding' = [holding EXCEPT ![p] = how]

Release(p) ==
  /\ holding[p] # "no"
  /\ holding' = [holding EXCEPT ![p] = "no"]

Next ==
  \E p \in Procs :
    \/ \E how \in {"shared", "exclusive"} : Acquire(p, how)
    \/ Release(p)

Spec == Init /\ [][Next]_holding
=============================================================================
