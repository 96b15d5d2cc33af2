-------------------------- MODULE FileLockProofs --------------------------
(***************************************************************************)
(* Proofs about the lock files, for any set of processes and of inodes and *)
(* any ways of calling lockfile().                                         *)
(***************************************************************************)
EXTENDS FileLock, TLAPS

\* The invariant holds before anything is opened.
LEMMA InvInit == Init => IInv
BY NoneAssumption DEF Init, IInv, TypeOK, OwnsName, FlocksAgree, FlockNeedsFile

\* No step of lockfile() or unlockfile(), and no kill, breaks it.
LEMMA InvNext == IInv /\ [Next]_vars => IInv'
<1> SUFFICES ASSUME IInv, [Next]_vars
             PROVE  IInv'
  OBVIOUS
<1> USE NoneAssumption, ModesAssumption DEF IInv, TypeOK, Goto
<1>1. ASSUME NEW p \in Procs, Call(p)
      PROVE  IInv'
  BY <1>1 DEF Call, OwnsName, FlocksAgree, FlockNeedsFile, Wanted
<1>2. ASSUME NEW p \in Procs, Open(p)
      PROVE  IInv'
  BY <1>2 DEF Open, OwnsName, FlocksAgree, FlockNeedsFile, Wanted
<1>3. ASSUME NEW p \in Procs, Flock(p)
      PROVE  IInv'
  BY <1>3 DEF Flock, CanFlock, OwnsName, FlocksAgree, FlockNeedsFile, Wanted
<1>4. ASSUME NEW p \in Procs, WouldBlock(p) \/ Stat(p)
      PROVE  IInv'
  BY <1>4 DEF WouldBlock, Stat, OwnsName, FlocksAgree, FlockNeedsFile, Wanted
<1>5. ASSUME NEW p \in Procs, GiveUp(p)
      PROVE  IInv'
  BY <1>5 DEF GiveUp, CloseFile, OwnsName, FlocksAgree, FlockNeedsFile, Wanted
<1>6. ASSUME NEW p \in Procs, Promote(p)
      PROVE  IInv'
  <2>1. TypeOK'
    BY <1>6 DEF Promote, CanFlock
  <2>2. OwnsName'
    BY <1>6 DEF Promote, CanFlock, OwnsName, FlocksAgree, FlockNeedsFile
  <2>3. FlocksAgree'
    BY <1>6 DEF Promote, CanFlock, FlocksAgree, FlockNeedsFile
  <2>4. FlockNeedsFile'
    BY <1>6 DEF Promote, CanFlock, FlockNeedsFile, Wanted
  <2>5. QED
    BY <2>1, <2>2, <2>3, <2>4
<1>7. ASSUME NEW p \in Procs, Unlink(p)
      PROVE  IInv'
  BY <1>7 DEF Unlink, OwnsName, FlocksAgree, FlockNeedsFile, Wanted
<1>8. ASSUME NEW p \in Procs, Unlock(p)
      PROVE  IInv'
  <2>1. TypeOK'
    BY <1>8 DEF Unlock, CloseFile
  <2>2. OwnsName'
    BY <1>8 DEF Unlock, CloseFile, OwnsName, FlocksAgree, FlockNeedsFile
  <2>3. FlocksAgree'
    BY <1>8 DEF Unlock, CloseFile, FlocksAgree, FlockNeedsFile
  <2>4. FlockNeedsFile'
    BY <1>8 DEF Unlock, CloseFile, FlockNeedsFile, Wanted
  <2>5. QED
    BY <2>1, <2>2, <2>3, <2>4
<1>9. ASSUME NEW p \in Procs, Kill(p)
      PROVE  IInv'
  <2>1. TypeOK'
    BY <1>9 DEF Kill, CloseFile
  <2>2. OwnsName'
    BY <1>9 DEF Kill, CloseFile, OwnsName, FlocksAgree, FlockNeedsFile
  <2>3. FlocksAgree'
    BY <1>9 DEF Kill, CloseFile, FlocksAgree, FlockNeedsFile
  <2>4. FlockNeedsFile'
    BY <1>9 DEF Kill, CloseFile, FlockNeedsFile, Wanted
  <2>5. QED
    BY <2>1, <2>2, <2>3, <2>4
<1>10. CASE UNCHANGED vars
  BY <1>10 DEF vars, OwnsName, FlocksAgree, FlockNeedsFile, Wanted
<1>11. QED
  BY <1>1, <1>2, <1>3, <1>4, <1>5, <1>6, <1>7, <1>8, <1>9, <1>10 DEF Next, Step

\* At all times the lock file's name leads to the file a holder has locked,
\* and the flocks of one file agree.
THEOREM FileLockInvariant == Spec => []IInv
BY InvInit, InvNext, PTL DEF Spec

\* A step changes how the lock is held only where lockfile() returns and
\* where unlockfile() begins or the process ends.
LEMMA LockStep == IInv /\ IInv' /\ [Next]_vars => [Lock!Next]_Holding
<1> SUFFICES ASSUME IInv, IInv', [Next]_vars
             PROVE  Lock!Next \/ UNCHANGED Holding
  OBVIOUS
<1> USE DEF IInv, TypeOK, Goto
<1>1. ASSUME NEW p \in Procs,
             Call(p) \/ Open(p) \/ Flock(p) \/ WouldBlock(p) \/ GiveUp(p) \/ Unlink(p) \/ Unlock(p)
      PROVE  UNCHANGED Holding
  BY <1>1 DEF Call, Open, Flock, WouldBlock, GiveUp, Unlink, Unlock, Holding, Wanted
<1>2. ASSUME NEW p \in Procs, Stat(p)
      PROVE  Lock!Next \/ UNCHANGED Holding
  <2>1. CASE fd[p] # name
    BY <1>2, <2>1 DEF Stat, Holding, Wanted
  <2>2. CASE fd[p] = name
    <3>1. Holding' = [Holding EXCEPT ![p] = Wanted(p)]
      BY <1>2, <2>2 DEF Stat, Holding, Wanted
    <3>2. Holding[p] = "no" /\ Wanted(p) \in {"shared", "exclusive"}
      BY <1>2 DEF Stat, Holding, Wanted
    <3>3. Lock!Compatible(p, Wanted(p))
      <4>1. ASSUME NEW q \in Procs \ {p}, Holding[q] # "no"
            PROVE  Holding[q] = "shared" /\ Wanted(p) = "shared"
        <5>1. pc[q] = "held" /\ Holding[q] = Wanted(q)
          BY <4>1 DEF Holding
        <5>2. fd[q] = fd[p] /\ flock[q] = Wanted(q) /\ flock[p] = Wanted(p)
          BY <1>2, <2>2, <5>1 DEF Stat, OwnsName, FlockNeedsFile
        <5>3. flock[q] # "exclusive" /\ flock[p] # "exclusive"
          BY <5>1, <5>2 DEF FlocksAgree, Wanted
        <5>4. QED
          BY <5>1, <5>2, <5>3 DEF Wanted
      <4>2. QED
        BY <3>2, <4>1 DEF Lock!Compatible
    <3>4. QED
      BY <3>1, <3>2, <3>3 DEF Lock!Next, Lock!Acquire
  <2>3. QED
    BY <2>1, <2>2
<1>3. ASSUME NEW p \in Procs, Promote(p) \/ Kill(p)
      PROVE  Lock!Next \/ UNCHANGED Holding
  <2>1. CASE pc[p] = "held"
    <3>1. Holding' = [Holding EXCEPT ![p] = "no"]
      BY <1>3, <2>1 DEF Promote, Kill, Holding, Wanted
    <3>2. Holding[p] # "no"
      BY <2>1 DEF Holding, Wanted
    <3>3. QED
      BY <3>1, <3>2 DEF Lock!Next, Lock!Release
  <2>2. CASE pc[p] # "held"
    BY <1>3, <2>2 DEF Promote, Kill, Holding, Wanted
  <2>3. QED
    BY <2>1, <2>2
<1>4. CASE UNCHANGED vars
  BY <1>4 DEF vars, Holding, Wanted
<1>5. QED
  BY <1>1, <1>2, <1>3, <1>4 DEF Next, Step

\* lockfile() and unlockfile() implement the reader-writer lock: an
\* exclusive holder is alone, for any number of processes.
THEOREM FileLockIsLock == Spec => ImplementsLock
<1>1. Init => Lock!Init
  BY DEF Init, Lock!Init, Holding
<1>2. QED
  BY <1>1, InvInit, InvNext, LockStep, PTL DEF Spec, ImplementsLock, Lock!Spec

\* Who will see to the file that is there: someone who waits for it or has
\* locked it.  Who let go of its flock, or holds one no longer needed, has
\* another file open.
Minded ==
  name # None /\ ~killed =>
    \E p \in Procs : fd[p] = name /\ pc[p] \in {"flock", "stat", "held", "unlink"}
LeftBehind ==
  \A p \in Procs :
    /\ pc[p] = "flock" => flock[p] = "no"
    /\ pc[p] \in {"giveup", "unlock"} /\ flock[p] # "no" => fd[p] # name
TidyInv == Minded /\ LeftBehind

LEMMA LeftBehindNext == IInv /\ LeftBehind /\ [Next]_vars => LeftBehind'
<1> SUFFICES ASSUME IInv, LeftBehind, [Next]_vars
             PROVE  LeftBehind'
  OBVIOUS
<1> USE NoneAssumption DEF IInv, TypeOK, LeftBehind, Goto
<1>1. ASSUME NEW p \in Procs, Call(p) \/ Flock(p) \/ WouldBlock(p) \/ Stat(p)
      PROVE  LeftBehind'
  BY <1>1 DEF Call, Flock, WouldBlock, Stat
<1>2. ASSUME NEW p \in Procs, Open(p)
      PROVE  LeftBehind'
  BY <1>2 DEF Open, FlockNeedsFile
<1>3. ASSUME NEW p \in Procs, GiveUp(p) \/ Unlock(p) \/ Kill(p)
      PROVE  LeftBehind'
  BY <1>3 DEF GiveUp, Unlock, Kill, CloseFile
<1>4. ASSUME NEW p \in Procs, Promote(p)
      PROVE  LeftBehind'
  BY <1>4 DEF Promote
<1>5. ASSUME NEW p \in Procs, Unlink(p)
      PROVE  LeftBehind'
  BY <1>5 DEF Unlink, FlockNeedsFile
<1>6. CASE UNCHANGED vars
  BY <1>6 DEF vars
<1> QED
  BY <1>1, <1>2, <1>3, <1>4, <1>5, <1>6 DEF Next, Step

\* A process that fails to get or to raise its flock leaves the file to the
\* one that is in its way.
LEMMA InTheWay ==
  ASSUME IInv, LeftBehind, NEW p \in Procs, fd[p] = name, name # None,
         ~CanFlock(p, Wanted(p)) \/ ~CanFlock(p, "exclusive")
  PROVE  \E q \in Procs \ {p} : fd[q] = name /\ pc[q] \in {"flock", "stat", "held", "unlink"}
<1>1. PICK q \in Procs \ {p} : fd[q] = fd[p] /\ flock[q] # "no"
  BY DEF CanFlock, Wanted, IInv, TypeOK
<1>2. pc[q] \in {"flock", "stat", "held", "unlink"}
  BY <1>1 DEF LeftBehind, IInv, TypeOK, FlockNeedsFile
<1> QED
  BY <1>1, <1>2

LEMMA MindedNext == IInv /\ TidyInv /\ [Next]_vars => Minded'
<1> SUFFICES ASSUME IInv, LeftBehind, Minded, [Next]_vars, name' # None, ~killed'
             PROVE  \E p \in Procs : fd'[p] = name' /\ pc'[p] \in {"flock", "stat", "held", "unlink"}
  BY DEF TidyInv, Minded
<1> USE NoneAssumption DEF IInv, TypeOK, Goto
<1>1. ASSUME NEW p \in Procs, Call(p)
      PROVE  \E q \in Procs : fd'[q] = name' /\ pc'[q] \in {"flock", "stat", "held", "unlink"}
  BY <1>1 DEF Call, Minded
<1>2. ASSUME NEW p \in Procs, Open(p)
      PROVE  \E q \in Procs : fd'[q] = name' /\ pc'[q] \in {"flock", "stat", "held", "unlink"}
  BY <1>2 DEF Open
<1>3. ASSUME NEW p \in Procs, Flock(p) \/ Stat(p)
      PROVE  \E q \in Procs : fd'[q] = name' /\ pc'[q] \in {"flock", "stat", "held", "unlink"}
  BY <1>3 DEF Flock, Stat, Minded
<1>4. ASSUME NEW p \in Procs, WouldBlock(p)
      PROVE  \E q \in Procs : fd'[q] = name' /\ pc'[q] \in {"flock", "stat", "held", "unlink"}
  <2>1. CASE fd[p] = name
    BY <1>4, <2>1, InTheWay DEF WouldBlock
  <2>2. CASE fd[p] # name
    BY <1>4, <2>2 DEF WouldBlock, Minded
  <2> QED
    BY <2>1, <2>2
<1>5. ASSUME NEW p \in Procs, GiveUp(p) \/ Unlock(p)
      PROVE  \E q \in Procs : fd'[q] = name' /\ pc'[q] \in {"flock", "stat", "held", "unlink"}
  BY <1>5 DEF GiveUp, Unlock, CloseFile, Minded
<1>6. ASSUME NEW p \in Procs, Promote(p)
      PROVE  \E q \in Procs : fd'[q] = name' /\ pc'[q] \in {"flock", "stat", "held", "unlink"}
  <2>1. CASE CanFlock(p, "exclusive")
    BY <1>6, <2>1 DEF Promote, Minded
  <2>2. CASE ~CanFlock(p, "exclusive")
    <3>1. fd[p] = name
      BY <1>6 DEF Promote, OwnsName
    <3> QED
      BY <1>6, <2>2, <3>1, InTheWay DEF Promote
  <2> QED
    BY <2>1, <2>2
<1>7. ASSUME NEW p \in Procs, Unlink(p)
      PROVE  FALSE
  BY <1>7 DEF Unlink
<1>8. ASSUME NEW p \in Procs, Kill(p)
      PROVE  FALSE
  BY <1>8 DEF Kill
<1>9. CASE UNCHANGED vars
  BY <1>9 DEF vars, Minded
<1> QED
  BY <1>1, <1>2, <1>3, <1>4, <1>5, <1>6, <1>7, <1>8, <1>9 DEF Next, Step

\* Whoever closes the file last removes it: when nobody uses the lock any more
\* there is no lock file, unless somebody was killed.  With the invariant above
\* this is all the run checks of the states.
THEOREM LockFileLeft == Spec => []LockFileInv
<1>1. Init => TidyInv
  BY DEF Init, TidyInv, Minded, LeftBehind
<1>2. IInv /\ TidyInv /\ [Next]_vars => TidyInv'
  BY LeftBehindNext, MindedNext DEF TidyInv
<1>3. Spec => []TidyInv
  BY <1>1, <1>2, FileLockInvariant, PTL DEF Spec
<1>4. TidyInv => CleanedUp
  BY DEF TidyInv, Minded, CleanedUp
<1> QED
  BY <1>3, <1>4, FileLockInvariant, PTL DEF LockFileInv
=============================================================================
