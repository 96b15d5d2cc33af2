------------------------------ MODULE FileLock ------------------------------
(***************************************************************************)
(* The lock files of BitBake (bitbake/lib/bb/utils.py, lockfile() and      *)
(* unlockfile()): flock() on a file that the last holder removes.          *)
(*                                                                         *)
(* The name of the lock file leads to an inode or to nothing.  Whoever     *)
(* opens the name and waits for the flock may get the lock of a file that  *)
(* was removed meanwhile, while another process made the file again and    *)
(* locked that; the code compares inode numbers and starts over.  A number *)
(* is used again as soon as nobody has the old file open.                  *)
(***************************************************************************)
EXTENDS Naturals, FiniteSets

CONSTANTS
  Procs,   \* the processes that use the lock
  Inodes,  \* inode numbers
  None,    \* no inode
  Modes    \* how lockfile() is called: [shared, retry, block]

ASSUME NoneAssumption == None \notin Inodes
ASSUME ModesAssumption == Modes \subseteq [shared : BOOLEAN, retry : BOOLEAN, block : BOOLEAN]

VARIABLES
  pc,      \* place of each process in lockfile() or unlockfile()
  mode,    \* the arguments of its call
  fd,      \* inode of its open file, None when it has none
  flock,   \* the flock of that open file: "no", "shared", "exclusive"
  name,    \* inode the lock file's name leads to
  killed   \* some process was killed before it could unlock

vars == <<pc, mode, fd, flock, name, killed>>

Wanted(p) == IF mode[p].shared THEN "shared" ELSE "exclusive"

\* LOCK_NB: neither retry nor block.
NonBlocking(p) == ~mode[p].retry /\ ~mode[p].block

\* The kernel's rule for the open files of one inode.
CanFlock(p, how) ==
  \A q \in Procs \ {p} : fd[q] = fd[p] =>
    IF how = "exclusive" THEN flock[q] = "no" ELSE flock[q] # "exclusive"

Init ==
  /\ pc = [p \in Procs |-> "idle"] /\ mode \in [Procs -> Modes]
  /\ fd = [p \in Procs |-> None] /\ flock = [p \in Procs |-> "no"]
  /\ name = None /\ killed = FALSE

Goto(p, place) == pc' = [pc EXCEPT ![p] = place]

\* lf.close(), by the code or by the kernel when the process ends: the flock
\* goes with it.
CloseFile(p) ==
  /\ fd' = [fd EXCEPT ![p] = None]
  /\ flock' = [flock EXCEPT ![p] = "no"]

-----------------------------------------------------------------------------
(* lockfile().                                                             *)

Call(p) ==
  /\ pc[p] = "idle"
  /\ \E m \in Modes : mode' = [mode EXCEPT ![p] = m]
  /\ Goto(p, "open")
  /\ UNCHANGED <<fd, flock, name, killed>>

\* open(name, 'a+') makes the file when it is not there.
Open(p) ==
  /\ pc[p] = "open"
  /\ IF name # None THEN UNCHANGED name
     ELSE name' \in {i \in Inodes : \A q \in Procs : fd[q] # i}
  /\ fd' = [fd EXCEPT ![p] = name']
  /\ Goto(p, "flock")
  /\ UNCHANGED <<mode, flock, killed>>

\* fcntl.flock(): waits, or fails when asked not to.
Flock(p) ==
  /\ pc[p] = "flock" /\ CanFlock(p, Wanted(p))
  /\ flock' = [flock EXCEPT ![p] = Wanted(p)]
  /\ Goto(p, "stat")
  /\ UNCHANGED <<mode, fd, name, killed>>

WouldBlock(p) ==
  /\ pc[p] = "flock" /\ NonBlocking(p) /\ ~CanFlock(p, Wanted(p))
  /\ Goto(p, "giveup")
  /\ UNCHANGED <<mode, fd, flock, name, killed>>

\* Mutant: the inode numbers are not compared.
StatNever(p) ==
  /\ pc[p] = "stat"
  /\ Goto(p, "held")
  /\ UNCHANGED <<mode, fd, flock, name, killed>>

\* fstat() against stat(): is the locked file still the lock file?
Stat(p) ==
  /\ pc[p] = "stat"
  /\ Goto(p, IF fd[p] = name THEN "held" ELSE "giveup")
  /\ UNCHANGED <<mode, fd, flock, name, killed>>

\* lf.close() and, without retry, return None.
GiveUp(p) ==
  /\ pc[p] = "giveup"
  /\ CloseFile(p)
  /\ Goto(p, IF mode[p].retry THEN "open" ELSE "idle")
  /\ UNCHANGED <<mode, name, killed>>

-----------------------------------------------------------------------------
(* unlockfile().                                                           *)

\* flock(LOCK_EX | LOCK_NB): the only holder may remove the file.  The
\* kernel drops the old lock before it sees that it cannot give the new one.
Promote(p) ==
  /\ pc[p] = "held"
  /\ IF CanFlock(p, "exclusive")
     THEN flock' = [flock EXCEPT ![p] = "exclusive"] /\ Goto(p, "unlink")
     ELSE flock' = [flock EXCEPT ![p] = "no"] /\ Goto(p, "unlock")
  /\ UNCHANGED <<mode, fd, name, killed>>

\* Mutant: the lock file stays.
UnlinkNot(p) ==
  /\ pc[p] = "unlink"
  /\ Goto(p, "unlock")
  /\ UNCHANGED <<mode, fd, flock, name, killed>>

\* os.unlink(lf.name).
Unlink(p) ==
  /\ pc[p] = "unlink"
  /\ name' = None
  /\ Goto(p, "unlock")
  /\ UNCHANGED <<mode, fd, flock, killed>>

\* Mutant: the lock goes with the process only.
UnlockNot(p) ==
  /\ pc[p] = "unlock"
  /\ Goto(p, "idle")
  /\ UNCHANGED <<mode, fd, flock, name, killed>>

\* flock(LOCK_UN) and lf.close().
Unlock(p) ==
  /\ pc[p] = "unlock"
  /\ CloseFile(p)
  /\ Goto(p, "idle")
  /\ UNCHANGED <<mode, name, killed>>

\* The process is killed, or an exception leaves lockfile(): the kernel
\* closes its file and the lock file stays.
Kill(p) ==
  /\ pc[p] # "idle"
  /\ killed' = TRUE
  /\ CloseFile(p)
  /\ Goto(p, "idle")
  /\ UNCHANGED <<mode, name>>

-----------------------------------------------------------------------------
\* What a process does once it has called lockfile(), to the end of
\* unlockfile().
Step(p) ==
  \/ Open(p) \/ Flock(p) \/ WouldBlock(p) \/ Stat(p) \/ GiveUp(p)
  \/ Promote(p) \/ Unlink(p) \/ Unlock(p)

Next == \E p \in Procs : Call(p) \/ Step(p) \/ Kill(p)

\* A process that may go on does, and what is done under a lock ends.
Spec == Init /\ [][Next]_vars /\ \A p \in Procs : WF_vars(Step(p))

-----------------------------------------------------------------------------
(* Properties.                                                             *)

\* Types.
TypeOK ==
  /\ pc \in [Procs -> {"idle", "open", "flock", "stat", "giveup", "held", "unlink", "unlock"}]
  /\ mode \in [Procs -> Modes]
  /\ fd \in [Procs -> Inodes \union {None}]
  /\ flock \in [Procs -> {"no", "shared", "exclusive"}]
  /\ name \in Inodes \union {None}
  /\ killed \in BOOLEAN

\* How a process holds the lock between the return of lockfile() and the
\* call of unlockfile().
Holding == [p \in Procs |-> IF pc[p] = "held" THEN Wanted(p) ELSE "no"]

\* lockfile() and unlockfile() are a reader-writer lock, whatever the order
\* in which files are removed, made again and waited for.
Lock == INSTANCE ReaderWriterLock WITH holding <- Holding
ImplementsLock == Lock!Spec

\* While a process holds the lock or is about to remove the file, the name
\* leads to the file it has locked: nobody removes another's lock file.
OwnsName ==
  \A p \in Procs : pc[p] \in {"held", "unlink"} => fd[p] = name /\ flock[p] # "no"

\* The kernel's locks of one file agree.
FlocksAgree ==
  \A p, q \in Procs :
    p # q /\ fd[p] = fd[q] /\ flock[p] = "exclusive" => flock[q] = "no"

\* A lock belongs to an open file.
FlockNeedsFile ==
  \A p \in Procs :
    /\ flock[p] # "no" => fd[p] # None
    /\ pc[p] \in {"idle", "open"} <=> fd[p] = None
    /\ pc[p] \in {"stat", "held"} => flock[p] = Wanted(p)
    /\ pc[p] = "unlink" => flock[p] = "exclusive"

\* What the proofs need: the name is safe because flocks are, and a flock is
\* where the place in the code says.
IInv == TypeOK /\ OwnsName /\ FlocksAgree /\ FlockNeedsFile

\* "we should clean up after ourselves": when nobody uses the lock any more
\* its file is gone, unless a process was killed.
CleanedUp == (\A p \in Procs : pc[p] = "idle") /\ ~killed => name = None

\* Lock, file and name agree at every step, and when all is over nothing is left.
LockFileInv == IInv /\ CleanedUp

\* The lock itself is never lost: when processes wait for it and, from some
\* time on, nobody is killed, one of them, not always the same ("This
\* implementation is unfair"), comes to hold it or all of them give up.
Waits(p) == pc[p] \in {"open", "flock", "stat", "giveup"}
NobodyKilled == <>[][\A p \in Procs : ~Kill(p)]_vars
SomebodyGetsIt ==
  NobodyKilled =>
    ((\E p \in Procs : Waits(p)) ~>
       ((\E p \in Procs : pc[p] = "held") \/ \A p \in Procs : ~Waits(p)))
=============================================================================
