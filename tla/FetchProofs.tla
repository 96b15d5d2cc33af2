---------------------------- MODULE FetchProofs ----------------------------
(***************************************************************************)
(* Proofs about Fetch for any number of tasks, sources and contents, any   *)
(* lists of mirrors and any number of faults: a done stamp with checksums  *)
(* is the file's own, a task unpacks the file its recipe has the checksum  *)
(* of, and no fetch takes away a file its own recipe accepts.              *)
(***************************************************************************)
EXTENDS Fetch, TLAPS

-----------------------------------------------------------------------------
\* Nothing is there when the first task begins.
LEMMA InvInit == Init => IInv
BY FetchAssumption
   DEF Init, IInv, TypeOK, Temporaries, Working, Stages, StampIsOfTheFile,
       UnpacksWhatItFetched, AtStep, NewComer, HasSource, InPlace

\* The lists of sources.
LEMMA SourcesType == \A t \in Tasks, s \in Stages : SourcesOf(t, s) \in Seq(Sources)
<1>1. /\ Premirrors \in Seq(Sources)
      /\ Mirrors \in Seq(Sources)
      /\ \A t \in Tasks : <<UpstreamOf[t]>> \in Seq(Sources)
  BY FetchAssumption DEF Sources
<1>2. QED
  BY <1>1 DEF SourcesOf, Stages

\* Where a step sends its own task.
LEMMA Sent ==
  ASSUME TypeOK, NEW t \in Tasks,
         \/ \E s \in Stages : GoTo(t, s)
         \/ GiveUpStage(t)
         \/ \E r \in {"idle", "fetched", "failed"} : End(t, r)
         \/ todo[t] # <<>> /\ NextSource(t)
         \/ \E step \in Working : Go(t, step) /\ Stay
  PROVE  /\ stage' \in [Tasks -> Stages]
         /\ todo' \in [Tasks -> Seq(Sources)]
         /\ \E step \in Working \union {"idle", "fetched", "failed"} :
              /\ pc' = [pc EXCEPT ![t] = step]
              /\ lock' = IF step \in Working THEN lock ELSE None
<1> USE DEF TypeOK, Working, Go
<1>1. CASE \E s \in Stages : GoTo(t, s)
  BY <1>1, SourcesType DEF GoTo
<1>2. CASE \E r \in {"idle", "fetched", "failed"} : End(t, r)
  <2>1. PICK r \in {"idle", "fetched", "failed"} : End(t, r)
    BY <1>2
  <2>2. /\ stage' \in [Tasks -> Stages]
        /\ todo' \in [Tasks -> Seq(Sources)]
    BY <2>1 DEF End, Stages
  <2>3. r \notin Working /\ pc' = [pc EXCEPT ![t] = r] /\ lock' = None
    BY <2>1 DEF End
  <2>4. QED
    BY <2>2, <2>3
<1>3. CASE GiveUpStage(t)
  <2>1. CASE stage[t] = "pre"
    BY <1>1, <1>3, <2>1 DEF GiveUpStage, Stages
  <2>2. CASE stage[t] = "up"
    BY <1>1, <1>3, <2>2 DEF GiveUpStage, Stages
  <2>3. CASE stage[t] = "post"
    BY <1>2, <1>3, <2>3 DEF GiveUpStage, Fail
  <2>4. QED
    BY <2>1, <2>2, <2>3 DEF Stages
<1>4. CASE todo[t] # <<>> /\ NextSource(t)
  BY <1>4 DEF NextSource
<1>5. CASE \E step \in Working : Go(t, step) /\ Stay
  BY <1>5 DEF Stay
<1>6. QED
  BY <1>1, <1>2, <1>3, <1>4, <1>5

\* The steps of a task that has the lock.
Move(t) == Step(t) \/ GetBreaks(t) \/ Crash(t)

LEMMA MoveSends ==
  ASSUME IInv, NEW t \in Tasks, Move(t)
  PROVE  /\ pc[t] \in Working
         /\ \/ \E s \in Stages : GoTo(t, s)
            \/ GiveUpStage(t)
            \/ \E r \in {"idle", "fetched", "failed"} : End(t, r)
            \/ todo[t] # <<>> /\ NextSource(t)
            \/ \E step \in Working : Go(t, step) /\ Stay
<1> USE DEF Working, Stages
<1>1. CASE VerifyMissing(t) \/ VerifyRight(t) \/ VerifyWrong(t) \/ DropStamp(t)
  BY <1>1 DEF VerifyMissing, VerifyRight, VerifyWrong, DropStamp
<1>2. CASE NoMore(t) \/ TryHttp(t) \/ TryFileMissing(t) \/ TryFile(t)
  BY <1>2 DEF NoMore, TryHttp, TryFileMissing, TryFile
<1>3. CASE GetNothing(t) \/ GetBreaks(t)
  BY <1>3 DEF IInv, HasSource, GetNothing, GetBreaks, Cleaned
<1>4. CASE GetWhole(t) \/ Place(t) \/ Refuse(t)
  BY <1>4 DEF GetWhole, Place, Refuse
<1>5. CASE Touch(t) \/ CheckRight(t) \/ CheckWrong(t) \/ Write(t)
  BY <1>5 DEF Touch, CheckRight, CheckWrong, Write
<1>6. CASE DropMirror(t) \/ CleanStamp(t) \/ Crash(t)
  BY <1>6 DEF IInv, HasSource, DropMirror, CleanStamp, Crash
<1>7. QED
  BY <1>1, <1>2, <1>3, <1>4, <1>5, <1>6 DEF Move, Step, Verify, Try, Check

\* What wget makes of the ".tmp" is some file.
LEMMA Downloads ==
  ASSUME IInv, NEW t \in Tasks, pc[t] = "get"
  PROVE  serves[Current(t)] # None => Continued(serves[Current(t)]) \subseteq Files
<1>1. Current(t) \in Sources
  BY DEF IInv, TypeOK, HasSource, Current
<1>2. QED
  BY <1>1 DEF IInv, TypeOK, Continued, Temporaries, Files

LEMMA MoveTypes ==
  ASSUME IInv, NEW t \in Tasks, Move(t)
  PROVE  /\ file' \in Files \union FileMirrors \union {None}
         /\ tmp' \in Temporaries
         /\ stamp' \in Files \union {None, Empty}
         /\ serves' \in [Sources -> Contents \union {None}]
         /\ gone' \subseteq Tasks
         /\ faults' \in 0 .. MaxFaults
<1> USE FetchAssumption DEF IInv, TypeOK
<1>0. InPlace \in Files \union {None}
  BY DEF InPlace, Sources, Files
<1>1. CASE VerifyMissing(t) \/ VerifyRight(t) \/ VerifyWrong(t) \/ DropStamp(t)
  BY <1>1 DEF VerifyMissing, VerifyRight, VerifyWrong, DropStamp, Disagreeing
<1>2. CASE NoMore(t) \/ TryHttp(t) \/ TryFileMissing(t) \/ TryFile(t)
  BY <1>2 DEF NoMore, TryHttp, TryFileMissing, TryFile
<1>3. CASE GetNothing(t) \/ GetBreaks(t) \/ GetWhole(t)
  <2>2. serves[Current(t)] # None => Continued(serves[Current(t)]) \subseteq Files
    BY <1>3, Downloads DEF GetNothing, GetBreaks, GetWhole
  <2> HIDE DEF Temporaries
  <2>0. \A w \in BOOLEAN, c \in Files : [whole |-> w, of |-> c] \in Temporaries
    BY DEF Temporaries
  <2>3. tmp' \in Temporaries
    <3>1. CASE GetNothing(t)
      BY <3>1 DEF GetNothing
    <3>2. CASE GetBreaks(t)
      <4>1. \/ tmp' = tmp
            \/ \E c \in Files : tmp' = [whole |-> FALSE, of |-> c]
        BY <3>2, <2>2 DEF GetBreaks
      <4>2. QED
        BY <4>1, <2>0, ZenonT(60)
    <3>3. CASE GetWhole(t)
      <4>1. PICK c \in Continued(serves[Current(t)]) :
                    tmp' = [whole |-> TRUE, of |-> c]
        BY <3>3, Zenon DEF GetWhole
      <4>2. c \in Files
        BY <3>3, <4>1, <2>2 DEF GetWhole
      <4>3. QED
        BY <4>1, <4>2, <2>0
    <3>4. QED
      BY <1>3, <3>1, <3>2, <3>3
  <2>4. faults' \in 0 .. MaxFaults
    BY <1>3 DEF GetNothing, GetBreaks, GetWhole
  <2>5. file' \in Files \union FileMirrors \union {None}
    BY <1>3 DEF GetNothing, GetBreaks, GetWhole, Cleaned
  <2>6. UNCHANGED <<stamp, serves, gone>>
    BY <1>3 DEF GetNothing, GetBreaks, GetWhole
  <2>7. QED
    BY <2>3, <2>4, <2>5, <2>6
<1>4. CASE Place(t) \/ Refuse(t)
  BY <1>4 DEF AtStep, Place, Refuse, Temporaries
<1>5. CASE Touch(t) \/ CheckRight(t) \/ CheckWrong(t)
  BY <1>5 DEF Touch, CheckRight, CheckWrong
<1>6. CASE Write(t)
  BY <1>0, <1>6 DEF Write
<1>7. CASE DropMirror(t) \/ CleanStamp(t)
  BY <1>7 DEF DropMirror, CleanStamp
<1>8. CASE Crash(t)
  BY <1>8 DEF Crash
<1>9. QED
  BY <1>1, <1>2, <1>3, <1>4, <1>5, <1>6, <1>7, <1>8
     DEF Move, Step, Verify, Try, Check

\* The types of what the files hold are kept by every step.
LEMMA TypeNext == IInv /\ [Next]_vars => TypeOK'
<1> SUFFICES ASSUME IInv, [Next]_vars
             PROVE  TypeOK'
  OBVIOUS
<1> USE FetchAssumption DEF IInv, TypeOK, Working, Go
<1>1. ASSUME NEW t \in Tasks, Begin(t)
      PROVE  TypeOK'
  BY <1>1 DEF Begin
<1>2. ASSUME NEW t \in Tasks, CleanFile(t)
      PROVE  TypeOK'
  BY <1>2 DEF CleanFile
<1>3. ASSUME NEW t \in Tasks, Unpack(t)
      PROVE  TypeOK'
  BY <1>3 DEF Unpack
<1>4. ASSUME NEW t \in Tasks, Move(t)
      PROVE  TypeOK'
  <2>1. /\ stage' \in [Tasks -> Stages]
        /\ todo' \in [Tasks -> Seq(Sources)]
        /\ \E step \in Working \union {"idle", "fetched", "failed"} :
             /\ pc' = [pc EXCEPT ![t] = step]
             /\ lock' = IF step \in Working THEN lock ELSE None
    BY <1>4, MoveSends, Sent
  <2>2. lock = t
    BY <1>4, MoveSends
  <2>3. /\ lock' \in Tasks \union {None}
        /\ pc' \in [Tasks -> Working \union {"idle", "fetched", "failed"}]
        /\ \A u \in Tasks : pc'[u] \in Working => lock' = u
    BY <2>1, <2>2
  <2>4. QED
    BY <1>4, <2>1, <2>3, MoveTypes
<1>5. ASSUME NEW s \in Changing, Republish(s)
      PROVE  TypeOK'
  <2>1. PICK c \in Contents : serves' = [serves EXCEPT ![s] = c]
    BY <1>5 DEF Republish
  <2>2. serves' \in [Sources -> Contents \union {None}]
    BY <2>1
  <2>3. faults' \in 0 .. MaxFaults
    BY <1>5 DEF Republish
  <2>4. QED
    BY <1>5, <2>2, <2>3 DEF Republish
<1>6. CASE UNCHANGED vars
  BY <1>6 DEF vars
<1>7. QED
  BY <1>1, <1>2, <1>3, <1>4, <1>5, <1>6 DEF Next, Move

-----------------------------------------------------------------------------
\* What a move of t leaves behind, as far as it is about t's own step.
Kept(t) == StampIsOfTheFile /\ UnpacksWhatItFetched
             /\ AtStep(t) /\ NewComer(t) /\ HasSource(t)

LEMMA MoveKeeps ==
  ASSUME IInv, TypeOK', NEW t \in Tasks, Move(t)
  PROVE  Kept(t)'
<1>a. /\ pc \in [Tasks -> Working \union {"idle", "fetched", "failed"}]
      /\ todo \in [Tasks -> Seq(Sources)]
      /\ stage \in [Tasks -> Stages]
      /\ \A u \in Tasks : Wants[u] \in Files
      /\ None \notin Files /\ Empty \notin Files /\ None # Empty
      /\ stamp \in Files \union {None, Empty}
  BY FetchAssumption DEF IInv, TypeOK, Files
<1>b. InPlace \in Files \union {None}
  BY FetchAssumption DEF IInv, TypeOK, InPlace, Sources, Files
<1>c. Kept(t)
  BY DEF IInv, Kept
<1>d. UNCHANGED <<file, serves>> => InPlace' = InPlace
  BY DEF InPlace
<1>e. file = None => InPlace = None
  BY FetchAssumption DEF InPlace, Sources
<1>f. /\ file' = None => InPlace' = None
      /\ file' \in Files => InPlace' = file'
      /\ file' \in FileMirrors => InPlace' = serves'[file']
  BY FetchAssumption DEF InPlace, Sources
<1>g. pc[t] = "place" => tmp.of \in Files
  BY DEF IInv, AtStep
<1> USE <1>a, <1>b, <1>c, <1>d, <1>e, <1>f, <1>g
    DEF Kept, StampIsOfTheFile, UnpacksWhatItFetched, AtStep,
        NewComer, HasSource, Accepts, Go, GoTo, End, NextSource, Stay, Working
<1>1. CASE VerifyMissing(t)
  BY <1>1 DEF VerifyMissing
<1>2. CASE VerifyRight(t)
  BY <1>2 DEF VerifyRight, Recorded
<1>3. CASE VerifyWrong(t)
  BY <1>3 DEF VerifyWrong, Recorded, Disagreeing
<1>4. CASE DropStamp(t)
  BY <1>4 DEF DropStamp
<1>5. CASE NoMore(t)
  BY <1>5, ZenonT(60) DEF NoMore, GiveUpStage, Fail, Stages
<1>6. CASE TryHttp(t)
  BY <1>6 DEF TryHttp
<1>7. CASE TryFileMissing(t)
  BY <1>7 DEF TryFileMissing
<1>8. CASE TryFile(t)
  BY <1>8 DEF TryFile, Current
<1>9. CASE GetNothing(t)
  BY <1>9 DEF GetNothing, Cleaned
<1>10. CASE GetBreaks(t)
  BY <1>10 DEF GetBreaks, Cleaned
<1>11. CASE GetWhole(t)
  <2>1. tmp'.of \in Files
    BY <1>11, Downloads DEF GetWhole
  <2>2. QED
    BY <1>11, <2>1 DEF GetWhole
<1>12. CASE Place(t)
  BY <1>12 DEF Place
<1>13. CASE Refuse(t)
  BY <1>13 DEF Refuse
<1>14. CASE Touch(t)
  BY <1>14 DEF Touch
<1>15. CASE CheckRight(t)
  BY <1>15 DEF CheckRight
<1>16. CASE CheckWrong(t)
  BY <1>16, ZenonT(60) DEF CheckWrong, GiveUpStage, Fail, Stages
<1>17. CASE Write(t)
  BY <1>17 DEF Write
<1>18. CASE DropMirror(t)
  BY <1>18 DEF DropMirror
<1>19. CASE CleanStamp(t)
  BY <1>19 DEF CleanStamp
<1>20. CASE Crash(t)
  BY <1>20 DEF Crash
<1>21. QED
  BY <1>1, <1>2, <1>3, <1>4, <1>5, <1>6, <1>7, <1>8, <1>9, <1>10, <1>11,
     <1>12, <1>13, <1>14, <1>15, <1>16, <1>17, <1>18, <1>19, <1>20
     DEF Move, Step, Verify, Try, Check

\* What is in place is not on a server that may change.
LEMMA RepublishSpares ==
  ASSUME NEW s \in Changing, Republish(s)
  PROVE  InPlace' = InPlace
<1>1. s \notin FileMirrors
  BY FetchAssumption
<1>2. QED
  BY <1>1 DEF Republish, InPlace

\* The other tasks are not under the lock.
LEMMA InvNext == IInv /\ [Next]_vars => IInv'
<1> SUFFICES ASSUME IInv, [Next]_vars
             PROVE  IInv'
  OBVIOUS
<1>1. TypeOK'
  BY TypeNext
<1>2. ASSUME NEW t \in Tasks, Move(t)
      PROVE  IInv'
  <2>1. Kept(t)'
    BY <1>1, <1>2, MoveKeeps
  <2>2. ASSUME NEW u \in Tasks, u # t
        PROVE  (AtStep(u) /\ NewComer(u) /\ HasSource(u))'
    <3>1. pc'[u] \notin Working
      <4>1. PICK step : pc' = [pc EXCEPT ![t] = step]
        BY <1>2, MoveSends, Sent DEF IInv
      <4>2. lock = t
        BY <1>2, MoveSends DEF IInv, TypeOK
      <4>3. QED
        BY <4>1, <4>2, <2>2 DEF IInv, TypeOK
    <3>2. QED
      BY <3>1 DEF AtStep, NewComer, HasSource, Working
  <2>3. QED
    BY <1>1, <2>1, <2>2 DEF IInv, Kept
<1>3. ASSUME lock = None
      PROVE  \A u \in Tasks : pc[u] \notin Working
  BY <1>3, FetchAssumption DEF IInv, TypeOK
<1>4. ASSUME NEW t \in Tasks, Begin(t) \/ Unpack(t)
      PROVE  IInv'
  <2>1. InPlace' = InPlace
    BY <1>4 DEF Begin, Unpack, InPlace
  <2>2. \A u \in Tasks : pc'[u] \notin Working \/ pc'[u] = "verify"
    BY <1>3, <1>4 DEF IInv, TypeOK, Begin, Unpack, Go, Working
  <2>3. \A u \in Tasks : (AtStep(u) /\ NewComer(u) /\ HasSource(u))'
    BY <2>2 DEF AtStep, NewComer, HasSource, Working
  <2>4. \A u \in Tasks : pc'[u] = "fetched" => pc[u] = "fetched"
    BY <1>4 DEF IInv, TypeOK, Begin, Unpack, Go
  <2>5. (StampIsOfTheFile /\ UnpacksWhatItFetched)'
    BY <1>4, <2>1, <2>4
       DEF IInv, StampIsOfTheFile, UnpacksWhatItFetched, Accepts, Begin, Unpack
  <2>6. QED
    BY <1>1, <2>3, <2>5 DEF IInv
<1>5. ASSUME NEW t \in Tasks, CleanFile(t)
      PROVE  IInv'
  <2>1. file' = None /\ InPlace' = None
    BY <1>5, FetchAssumption DEF CleanFile, InPlace, Sources
  <2>2. \A u \in Tasks : pc'[u] \notin Working \/ pc'[u] = "cleanStamp"
    BY <1>3, <1>5 DEF IInv, TypeOK, CleanFile, Go, Working
  <2>3. \A u \in Tasks : (AtStep(u) /\ NewComer(u) /\ HasSource(u))'
    BY <2>1, <2>2 DEF AtStep, NewComer, HasSource, Working
  <2>4. \A u \in Tasks : pc'[u] = "fetched" => u \in gone'
    BY <1>5 DEF IInv, TypeOK, CleanFile, Go
  <2>5. QED
    BY <1>1, <2>1, <2>3, <2>4 DEF IInv, StampIsOfTheFile, UnpacksWhatItFetched
<1>6. ASSUME NEW s \in Changing, Republish(s)
      PROVE  IInv'
  <2>1. InPlace' = InPlace
    BY <1>6, RepublishSpares
  <2>2. UNCHANGED <<lock, file, tmp, stamp, pc, stage, todo, gone>>
    BY <1>6 DEF Republish
  <2>3. QED
    BY <1>1, <2>1, <2>2
       DEF IInv, StampIsOfTheFile, UnpacksWhatItFetched, AtStep, NewComer,
           HasSource, Accepts
<1>7. CASE UNCHANGED vars
  BY <1>7, <1>1
     DEF vars, IInv, StampIsOfTheFile, UnpacksWhatItFetched, AtStep,
         NewComer, HasSource, InPlace, Accepts
<1>8. QED
  BY <1>2, <1>4, <1>5, <1>6, <1>7 DEF Next, Move

-----------------------------------------------------------------------------
THEOREM FetchInvariant == Spec => []IInv
BY InvInit, InvNext, PTL DEF Spec

\* Wherever a task is killed, the checksums in a done stamp are those of the
\* file it stands for.
THEOREM StampsAreTrue == Spec => []StampIsOfTheFile
BY FetchInvariant, PTL DEF IInv

\* A task that fetched unpacks the file its recipe has the checksum of.
THEOREM UnpackIsChecked == Spec => []UnpacksWhatItFetched
BY FetchInvariant, PTL DEF IInv

\* No fetch takes away a file that its own recipe accepts.
LEMMA StepSparesGood ==
  ASSUME IInv, [Next]_vars, NEW t \in Tasks,
         pc[t] \in Working, Accepts(t, InPlace)
  PROVE  InPlace' = InPlace
<1>1. InPlace = Wants[t] /\ InPlace # None /\ InPlace \in Files /\ file # None
  BY FetchAssumption DEF Accepts, Files, InPlace, Sources
<1>2. lock = t
  BY DEF IInv, TypeOK
<1>3. UNCHANGED <<file, serves>> => InPlace' = InPlace
  BY DEF InPlace
<1>4. CASE Move(t)
  <2>1. pc[t] \notin {"dropStamp", "try", "get", "place", "dropMirror", "cleanStamp"}
    BY <1>1 DEF IInv, AtStep
  <2>2. Recorded = InPlace
    BY <1>1 DEF IInv, StampIsOfTheFile, Recorded
  <2>3. UNCHANGED <<file, serves>>
    BY <1>1, <1>4, <2>1, <2>2
       DEF Move, Step, Verify, Try, Check, VerifyMissing, VerifyRight,
           VerifyWrong, DropStamp, NoMore, TryHttp, TryFileMissing, TryFile,
           GetNothing, GetBreaks, GetWhole, Place, Refuse, Touch, CheckRight,
           CheckWrong, Write, DropMirror, CleanStamp, Crash
  <2>4. QED
    BY <1>3, <2>3
<1>5. ASSUME NEW u \in Tasks, Begin(u) \/ Unpack(u) \/ CleanFile(u)
      PROVE  InPlace' = InPlace
  BY <1>2, <1>3, <1>5, FetchAssumption DEF Begin, Unpack, CleanFile
<1>6. ASSUME NEW u \in Tasks, Move(u)
      PROVE  InPlace' = InPlace
  <2>1. lock = u
    BY <1>6, MoveSends DEF IInv, TypeOK
  <2>2. QED
    BY <1>2, <1>4, <1>6, <2>1
<1>7. ASSUME NEW s \in Changing, Republish(s)
      PROVE  InPlace' = InPlace
  BY <1>7, RepublishSpares
<1>8. CASE UNCHANGED vars
  BY <1>3, <1>8 DEF vars
<1>9. QED
  BY <1>5, <1>6, <1>7, <1>8 DEF Next, Move

THEOREM GoodFilesStay == Spec => GoodFileStays
<1>1. IInv /\ [Next]_vars
        => [\A t \in Tasks :
              pc[t] \in Working /\ Accepts(t, InPlace) => InPlace' = InPlace]_vars
  BY StepSparesGood
<1>2. QED
  BY <1>1, FetchInvariant, PTL DEF Spec, GoodFileStays
=============================================================================
