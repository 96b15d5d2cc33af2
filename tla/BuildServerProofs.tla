------------------------- MODULE BuildServerProofs -------------------------
(***************************************************************************)
(* Proofs about BuildServer for any number of clients, servers and tries   *)
(* and any number of kills: one server at a time has the build directory,  *)
(* the socket of a server that is up keeps its name, and a client gives up *)
(* only for a reason.                                                      *)
(***************************************************************************)
EXTENDS BuildServer, TLAPS

\* Where a process has the locked file open.
HasLock(p) ==
  \/ p \in Clients /\ pc[p] \in {"fork", "gotLock"}
  \/ p \in Servers /\ server[p] \in Alive \union {"unlock"}

\* One process at a time has it.
LockHeld ==
  /\ \A p \in Clients \union Servers : HasLock(p) => p \in holders
  /\ \A p, q \in holders : p = q

\* From bind to unlink the name is the server's own socket's.
OwnSocket ==
  \A s \in Servers :
    server[s] \in {"init", "serving", "quit", "unlink"} => sock = s

\* Who has no try left has failed.
TriesLeft == \A c \in Clients : tries[c] = 0 => pc[c] = "failed"

IInv == TypeOK /\ LockHeld /\ OwnSocket /\ TriesLeft

LEMMA InvInit == Init => IInv
BY BuildServerAssumption
   DEF Init, IInv, TypeOK, LockHeld, HasLock, OwnSocket, TriesLeft, Alive,
       Listening, Asking

\* What a retry leaves of a client: a try less, and no server it asks.
LEMMA RetryTypes ==
  ASSUME TypeOK, NEW c \in Clients, Retry(c), tries[c] # 0
  PROVE  /\ tries' = [tries EXCEPT ![c] = @ - 1]
         /\ tries[c] - 1 \in 0 .. Retries
         /\ on' = [on EXCEPT ![c] = None]
         /\ \E step \in {"try", "sleep", "failed"} :
              /\ pc' = [pc EXCEPT ![c] = step]
              /\ tries[c] - 1 = 0 => step = "failed"
<1>1. tries[c] \in 0 .. Retries /\ Retries \in Nat
  BY BuildServerAssumption DEF TypeOK
<1>2. tries[c] - 1 \in 0 .. Retries
  BY <1>1
<1>3. CASE tries[c] = 1
  BY <1>2, <1>3 DEF Retry, GoTo
<1>4. CASE tries[c] \in 2 .. 5
  <2>1. pc' = [pc EXCEPT ![c] = "sleep"]
    BY <1>4 DEF Retry, GoTo
  <2>2. tries[c] - 1 # 0
    BY <1>1, <1>4
  <2> QED  BY <1>2, <2>1, <2>2 DEF Retry
<1>5. CASE tries[c] > 5
  <2>1. pc' = [pc EXCEPT ![c] = "try"]
    BY <1>5 DEF Retry, GoTo
  <2>2. tries[c] - 1 # 0
    BY <1>1, <1>5
  <2> QED  BY <1>2, <2>1, <2>2 DEF Retry
<1> QED  BY <1>1, <1>3, <1>4, <1>5

\* A client that tries again keeps the invariant, if it had no lock or has
\* just given it back.
LEMMA RetryKeeps ==
  ASSUME IInv, NEW c \in Clients, Retry(c), pc[c] # "failed",
         \/ holders' = holders /\ pc[c] \notin {"fork", "gotLock"}
         \/ holders' = holders \ {c},
         UNCHANGED <<orphans, sock, server, ready, quits>>,
         faults' \in 0 .. MaxFaults
  PROVE  IInv'
<1>1. tries[c] # 0
  BY DEF IInv, TriesLeft
<1>2. PICK step \in {"try", "sleep", "failed"} :
        /\ pc' = [pc EXCEPT ![c] = step]
        /\ tries[c] - 1 = 0 => step = "failed"
  BY <1>1, RetryTypes DEF IInv
<1>3. /\ tries' = [tries EXCEPT ![c] = @ - 1]
      /\ tries[c] - 1 \in 0 .. Retries
      /\ on' = [on EXCEPT ![c] = None]
  BY <1>1, RetryTypes DEF IInv
<1>4. TypeOK'
  BY <1>2, <1>3 DEF IInv, TypeOK, Alive, Asking, Listening
<1>5. LockHeld'
  BY <1>2, BuildServerAssumption DEF IInv, TypeOK, LockHeld, HasLock
<1>6. OwnSocket'
  BY DEF IInv, OwnSocket
<1>7. TriesLeft'
  BY <1>2, <1>3 DEF IInv, TypeOK, TriesLeft
<1> QED  BY <1>4, <1>5, <1>6, <1>7 DEF IInv

LEMMA FaultTypes ==
  ASSUME TypeOK, Fault
  PROVE  faults' \in 0 .. MaxFaults
BY BuildServerAssumption DEF TypeOK, Fault

LEMMA FiveSecondsTypes ==
  ASSUME TypeOK, FiveSeconds
  PROVE  faults' \in 0 .. MaxFaults
BY FaultTypes DEF TypeOK, FiveSeconds

LEMMA StartKeeps ==
  ASSUME IInv, NEW c \in Clients, Start(c)
  PROVE  IInv'
<1> USE DEF Start
<1>1. TypeOK'
  BY BuildServerAssumption DEF IInv, TypeOK, Alive, Asking, Listening, GoTo, clientVars
<1>2. LockHeld'
  BY BuildServerAssumption DEF IInv, TypeOK, LockHeld, HasLock, Alive, Listening, GoTo, LockFree, clientVars
<1>3. OwnSocket'
  BY BuildServerAssumption DEF IInv, TypeOK, LockHeld, HasLock, OwnSocket, Alive, Listening, GoTo, clientVars
<1>4. TriesLeft'
  BY BuildServerAssumption DEF IInv, TypeOK, TriesLeft, GoTo, clientVars
<1> QED  BY <1>1, <1>2, <1>3, <1>4 DEF IInv

LEMMA TryLockKeeps ==
  ASSUME IInv, NEW c \in Clients, TryLock(c)
  PROVE  IInv'
<1> USE DEF TryLock
<1>1. TypeOK'
  BY BuildServerAssumption DEF IInv, TypeOK, Alive, Asking, Listening, GoTo, clientVars
<1>2. LockHeld'
  BY BuildServerAssumption DEF IInv, TypeOK, LockHeld, HasLock, Alive, Listening, GoTo, LockFree, clientVars
<1>3. OwnSocket'
  BY BuildServerAssumption DEF IInv, TypeOK, LockHeld, HasLock, OwnSocket, Alive, Listening, GoTo, clientVars
<1>4. TriesLeft'
  BY BuildServerAssumption DEF IInv, TypeOK, TriesLeft, GoTo, clientVars
<1> QED  BY <1>1, <1>2, <1>3, <1>4 DEF IInv

LEMMA TryBusyKeeps ==
  ASSUME IInv, NEW c \in Clients, TryBusy(c)
  PROVE  IInv'
<1> USE DEF TryBusy
<1>1. TypeOK'
  BY BuildServerAssumption DEF IInv, TypeOK, Alive, Asking, Listening, GoTo, clientVars
<1>2. LockHeld'
  BY BuildServerAssumption DEF IInv, TypeOK, LockHeld, HasLock, Alive, Listening, GoTo, LockFree, clientVars
<1>3. OwnSocket'
  BY BuildServerAssumption DEF IInv, TypeOK, LockHeld, HasLock, OwnSocket, Alive, Listening, GoTo, clientVars
<1>4. TriesLeft'
  BY BuildServerAssumption DEF IInv, TypeOK, TriesLeft, GoTo, clientVars
<1> QED  BY <1>1, <1>2, <1>3, <1>4 DEF IInv

LEMMA ForkKeeps ==
  ASSUME IInv, NEW c \in Clients, Fork(c)
  PROVE  IInv'
<1> USE DEF Fork
<1>1. TypeOK'
  BY BuildServerAssumption DEF IInv, TypeOK, Alive, Asking, Listening, GoTo, Become, clientVars
<1>2. LockHeld'
  BY BuildServerAssumption DEF IInv, TypeOK, LockHeld, HasLock, Alive, Listening, GoTo, Become, LockFree, clientVars
<1>3. OwnSocket'
  BY BuildServerAssumption DEF IInv, TypeOK, LockHeld, HasLock, OwnSocket, Alive, Listening, GoTo, Become, clientVars
<1>4. TriesLeft'
  BY BuildServerAssumption DEF IInv, TypeOK, TriesLeft, GoTo, Become, clientVars
<1> QED  BY <1>1, <1>2, <1>3, <1>4 DEF IInv

LEMMA ReadReadyKeeps ==
  ASSUME IInv, NEW c \in Clients, ReadReady(c)
  PROVE  IInv'
<1> USE DEF ReadReady
<1>1. TypeOK'
  BY BuildServerAssumption DEF IInv, TypeOK, Alive, Asking, Listening, GoTo, clientVars
<1>2. LockHeld'
  BY BuildServerAssumption DEF IInv, TypeOK, LockHeld, HasLock, Alive, Listening, GoTo, LockFree, clientVars
<1>3. OwnSocket'
  BY BuildServerAssumption DEF IInv, TypeOK, LockHeld, HasLock, OwnSocket, Alive, Listening, GoTo, clientVars
<1>4. TriesLeft'
  BY BuildServerAssumption DEF IInv, TypeOK, TriesLeft, GoTo, clientVars
<1> QED  BY <1>1, <1>2, <1>3, <1>4 DEF IInv

LEMMA AnswerKeeps ==
  ASSUME IInv, NEW c \in Clients, Answer(c)
  PROVE  IInv'
<1> USE DEF Answer
<1>1. TypeOK'
  BY BuildServerAssumption DEF IInv, TypeOK, Alive, Asking, Listening, GoTo, clientVars
<1>2. LockHeld'
  BY BuildServerAssumption DEF IInv, TypeOK, LockHeld, HasLock, Alive, Listening, GoTo, LockFree, clientVars
<1>3. OwnSocket'
  BY BuildServerAssumption DEF IInv, TypeOK, LockHeld, HasLock, OwnSocket, Alive, Listening, GoTo, clientVars
<1>4. TriesLeft'
  BY BuildServerAssumption DEF IInv, TypeOK, TriesLeft, GoTo, clientVars
<1> QED  BY <1>1, <1>2, <1>3, <1>4 DEF IInv

LEMMA WaitGotKeeps ==
  ASSUME IInv, NEW c \in Clients, WaitGot(c)
  PROVE  IInv'
<1> USE DEF WaitGot
<1>1. TypeOK'
  BY BuildServerAssumption DEF IInv, TypeOK, Alive, Asking, Listening, GoTo, clientVars
<1>2. LockHeld'
  BY BuildServerAssumption DEF IInv, TypeOK, LockHeld, HasLock, Alive, Listening, GoTo, LockFree, clientVars
<1>3. OwnSocket'
  BY BuildServerAssumption DEF IInv, TypeOK, LockHeld, HasLock, OwnSocket, Alive, Listening, GoTo, clientVars
<1>4. TriesLeft'
  BY BuildServerAssumption DEF IInv, TypeOK, TriesLeft, GoTo, clientVars
<1> QED  BY <1>1, <1>2, <1>3, <1>4 DEF IInv

LEMMA LeaveKeeps ==
  ASSUME IInv, NEW c \in Clients, Leave(c)
  PROVE  IInv'
<1> USE DEF Leave
<1>1. TypeOK'
  BY BuildServerAssumption DEF IInv, TypeOK, Alive, Asking, Listening, GoTo, clientVars
<1>2. LockHeld'
  BY BuildServerAssumption DEF IInv, TypeOK, LockHeld, HasLock, Alive, Listening, GoTo, LockFree, clientVars
<1>3. OwnSocket'
  BY BuildServerAssumption DEF IInv, TypeOK, LockHeld, HasLock, OwnSocket, Alive, Listening, GoTo, clientVars
<1>4. TriesLeft'
  BY BuildServerAssumption DEF IInv, TypeOK, TriesLeft, GoTo, clientVars
<1> QED  BY <1>1, <1>2, <1>3, <1>4 DEF IInv

LEMMA LostKeeps ==
  ASSUME IInv, NEW c \in Clients, Lost(c)
  PROVE  IInv'
<1> USE DEF Lost
<1>1. TypeOK'
  BY BuildServerAssumption DEF IInv, TypeOK, Alive, Asking, Listening, GoTo, clientVars
<1>2. LockHeld'
  BY BuildServerAssumption DEF IInv, TypeOK, LockHeld, HasLock, Alive, Listening, GoTo, LockFree, clientVars
<1>3. OwnSocket'
  BY BuildServerAssumption DEF IInv, TypeOK, LockHeld, HasLock, OwnSocket, Alive, Listening, GoTo, clientVars
<1>4. TriesLeft'
  BY BuildServerAssumption DEF IInv, TypeOK, TriesLeft, GoTo, clientVars
<1> QED  BY <1>1, <1>2, <1>3, <1>4 DEF IInv

LEMMA WakeKeeps ==
  ASSUME IInv, NEW c \in Clients, Wake(c)
  PROVE  IInv'
<1> USE DEF Wake
<1>1. TypeOK'
  BY BuildServerAssumption, FiveSecondsTypes DEF IInv, TypeOK, Alive, Asking, Listening, GoTo, clientVars
<1>2. LockHeld'
  BY BuildServerAssumption DEF IInv, TypeOK, LockHeld, HasLock, Alive, Listening, GoTo, LockFree, clientVars
<1>3. OwnSocket'
  BY BuildServerAssumption DEF IInv, TypeOK, LockHeld, HasLock, OwnSocket, Alive, Listening, GoTo, clientVars
<1>4. TriesLeft'
  BY BuildServerAssumption DEF IInv, TypeOK, TriesLeft, GoTo, clientVars
<1> QED  BY <1>1, <1>2, <1>3, <1>4 DEF IInv

LEMMA AgainKeeps ==
  ASSUME IInv, NEW c \in Clients, Again(c)
  PROVE  IInv'
<1> USE DEF Again
<1>1. TypeOK'
  BY BuildServerAssumption DEF IInv, TypeOK, Alive, Asking, Listening, GoTo, clientVars
<1>2. LockHeld'
  BY BuildServerAssumption DEF IInv, TypeOK, LockHeld, HasLock, Alive, Listening, GoTo, LockFree, clientVars
<1>3. OwnSocket'
  BY BuildServerAssumption DEF IInv, TypeOK, LockHeld, HasLock, OwnSocket, Alive, Listening, GoTo, clientVars
<1>4. TriesLeft'
  BY BuildServerAssumption DEF IInv, TypeOK, TriesLeft, GoTo, clientVars
<1> QED  BY <1>1, <1>2, <1>3, <1>4 DEF IInv

LEMMA BindKeeps ==
  ASSUME IInv, NEW s \in Servers, Bind(s)
  PROVE  IInv'
<1> USE DEF Bind
<1>1. TypeOK'
  BY BuildServerAssumption DEF IInv, TypeOK, Alive, Asking, Listening, Become, clientVars
<1>2. LockHeld'
  BY BuildServerAssumption DEF IInv, TypeOK, LockHeld, HasLock, Alive, Listening, Become, LockFree, clientVars
<1>3. OwnSocket'
  BY BuildServerAssumption DEF IInv, TypeOK, LockHeld, HasLock, OwnSocket, Alive, Listening, Become, clientVars
<1>4. TriesLeft'
  BY BuildServerAssumption DEF IInv, TypeOK, TriesLeft, Become, clientVars
<1> QED  BY <1>1, <1>2, <1>3, <1>4 DEF IInv

LEMMA CookerUpKeeps ==
  ASSUME IInv, NEW s \in Servers, CookerUp(s)
  PROVE  IInv'
<1> USE DEF CookerUp
<1>1. TypeOK'
  BY BuildServerAssumption DEF IInv, TypeOK, Alive, Asking, Listening, Become, clientVars
<1>2. LockHeld'
  BY BuildServerAssumption DEF IInv, TypeOK, LockHeld, HasLock, Alive, Listening, Become, LockFree, clientVars
<1>3. OwnSocket'
  BY BuildServerAssumption DEF IInv, TypeOK, LockHeld, HasLock, OwnSocket, Alive, Listening, Become, clientVars
<1>4. TriesLeft'
  BY BuildServerAssumption DEF IInv, TypeOK, TriesLeft, Become, clientVars
<1> QED  BY <1>1, <1>2, <1>3, <1>4 DEF IInv

LEMMA CookerFailsKeeps ==
  ASSUME IInv, NEW s \in Servers, CookerFails(s)
  PROVE  IInv'
<1> USE DEF CookerFails
<1>1. TypeOK'
  BY BuildServerAssumption, FaultTypes DEF IInv, TypeOK, Alive, Asking, Listening, Become, clientVars
<1>2. LockHeld'
  BY BuildServerAssumption DEF IInv, TypeOK, LockHeld, HasLock, Alive, Listening, Become, LockFree, clientVars
<1>3. OwnSocket'
  BY BuildServerAssumption DEF IInv, TypeOK, LockHeld, HasLock, OwnSocket, Alive, Listening, Become, clientVars
<1>4. TriesLeft'
  BY BuildServerAssumption DEF IInv, TypeOK, TriesLeft, Become, clientVars
<1> QED  BY <1>1, <1>2, <1>3, <1>4 DEF IInv

LEMMA StatSocketKeeps ==
  ASSUME IInv, NEW s \in Servers, StatSocket(s)
  PROVE  IInv'
<1> USE DEF StatSocket
<1>1. TypeOK'
  BY BuildServerAssumption DEF IInv, TypeOK, Alive, Asking, Listening, Become, clientVars
<1>2. LockHeld'
  BY BuildServerAssumption DEF IInv, TypeOK, LockHeld, HasLock, Alive, Listening, Become, LockFree, clientVars
<1>3. OwnSocket'
  BY BuildServerAssumption DEF IInv, TypeOK, LockHeld, HasLock, OwnSocket, Alive, Listening, Become, clientVars
<1>4. TriesLeft'
  BY BuildServerAssumption DEF IInv, TypeOK, TriesLeft, Become, clientVars
<1> QED  BY <1>1, <1>2, <1>3, <1>4 DEF IInv

LEMMA UnlinkSocketKeeps ==
  ASSUME IInv, NEW s \in Servers, UnlinkSocket(s)
  PROVE  IInv'
<1> USE DEF UnlinkSocket
<1>1. TypeOK'
  BY BuildServerAssumption DEF IInv, TypeOK, Alive, Asking, Listening, Become, clientVars
<1>2. LockHeld'
  BY BuildServerAssumption DEF IInv, TypeOK, LockHeld, HasLock, Alive, Listening, Become, LockFree, clientVars
<1>3. OwnSocket'
  BY BuildServerAssumption DEF IInv, TypeOK, LockHeld, HasLock, OwnSocket, Alive, Listening, Become, clientVars
<1>4. TriesLeft'
  BY BuildServerAssumption DEF IInv, TypeOK, TriesLeft, Become, clientVars
<1> QED  BY <1>1, <1>2, <1>3, <1>4 DEF IInv

LEMMA CloseSocketKeeps ==
  ASSUME IInv, NEW s \in Servers, CloseSocket(s)
  PROVE  IInv'
<1> USE DEF CloseSocket
<1>1. TypeOK'
  BY BuildServerAssumption DEF IInv, TypeOK, Alive, Asking, Listening, Become, clientVars
<1>2. LockHeld'
  BY BuildServerAssumption DEF IInv, TypeOK, LockHeld, HasLock, Alive, Listening, Become, LockFree, clientVars
<1>3. OwnSocket'
  BY BuildServerAssumption DEF IInv, TypeOK, LockHeld, HasLock, OwnSocket, Alive, Listening, Become, clientVars
<1>4. TriesLeft'
  BY BuildServerAssumption DEF IInv, TypeOK, TriesLeft, Become, clientVars
<1> QED  BY <1>1, <1>2, <1>3, <1>4 DEF IInv

LEMMA PostServeKeeps ==
  ASSUME IInv, NEW s \in Servers, PostServe(s)
  PROVE  IInv'
<1> USE DEF PostServe
<1>1. TypeOK'
  BY BuildServerAssumption DEF IInv, TypeOK, Alive, Asking, Listening, Become, clientVars
<1>2. LockHeld'
  BY BuildServerAssumption DEF IInv, TypeOK, LockHeld, HasLock, Alive, Listening, Become, LockFree, clientVars
<1>3. OwnSocket'
  BY BuildServerAssumption DEF IInv, TypeOK, LockHeld, HasLock, OwnSocket, Alive, Listening, Become, clientVars
<1>4. TriesLeft'
  BY BuildServerAssumption DEF IInv, TypeOK, TriesLeft, Become, clientVars
<1> QED  BY <1>1, <1>2, <1>3, <1>4 DEF IInv

LEMMA ReleaseKeeps ==
  ASSUME IInv, NEW s \in Servers, Release(s)
  PROVE  IInv'
<1> USE DEF Release
<1>1. TypeOK'
  BY BuildServerAssumption DEF IInv, TypeOK, Alive, Asking, Listening, Become, clientVars
<1>2. LockHeld'
  BY BuildServerAssumption DEF IInv, TypeOK, LockHeld, HasLock, Alive, Listening, Become, LockFree, clientVars
<1>3. OwnSocket'
  BY BuildServerAssumption DEF IInv, TypeOK, LockHeld, HasLock, OwnSocket, Alive, Listening, Become, clientVars
<1>4. TriesLeft'
  BY BuildServerAssumption DEF IInv, TypeOK, TriesLeft, Become, clientVars
<1> QED  BY <1>1, <1>2, <1>3, <1>4 DEF IInv

LEMMA RelockKeeps ==
  ASSUME IInv, NEW s \in Servers, Relock(s)
  PROVE  IInv'
<1> USE DEF Relock
<1>1. TypeOK'
  BY BuildServerAssumption DEF IInv, TypeOK, Alive, Asking, Listening, Become, clientVars
<1>2. LockHeld'
  BY BuildServerAssumption DEF IInv, TypeOK, LockHeld, HasLock, Alive, Listening, Become, LockFree, clientVars
<1>3. OwnSocket'
  BY BuildServerAssumption DEF IInv, TypeOK, LockHeld, HasLock, OwnSocket, Alive, Listening, Become, clientVars
<1>4. TriesLeft'
  BY BuildServerAssumption DEF IInv, TypeOK, TriesLeft, Become, clientVars
<1> QED  BY <1>1, <1>2, <1>3, <1>4 DEF IInv

LEMMA RelockBusyKeeps ==
  ASSUME IInv, NEW s \in Servers, RelockBusy(s)
  PROVE  IInv'
<1> USE DEF RelockBusy
<1>1. TypeOK'
  BY BuildServerAssumption DEF IInv, TypeOK, Alive, Asking, Listening, Become, clientVars
<1>2. LockHeld'
  BY BuildServerAssumption DEF IInv, TypeOK, LockHeld, HasLock, Alive, Listening, Become, LockFree, clientVars
<1>3. OwnSocket'
  BY BuildServerAssumption DEF IInv, TypeOK, LockHeld, HasLock, OwnSocket, Alive, Listening, Become, clientVars
<1>4. TriesLeft'
  BY BuildServerAssumption DEF IInv, TypeOK, TriesLeft, Become, clientVars
<1> QED  BY <1>1, <1>2, <1>3, <1>4 DEF IInv

LEMMA UnlockKeeps ==
  ASSUME IInv, NEW s \in Servers, Unlock(s)
  PROVE  IInv'
<1> USE DEF Unlock
<1>1. TypeOK'
  BY BuildServerAssumption DEF IInv, TypeOK, Alive, Asking, Listening, Become, clientVars
<1>2. LockHeld'
  BY BuildServerAssumption DEF IInv, TypeOK, LockHeld, HasLock, Alive, Listening, Become, LockFree, clientVars
<1>3. OwnSocket'
  BY BuildServerAssumption DEF IInv, TypeOK, LockHeld, HasLock, OwnSocket, Alive, Listening, Become, clientVars
<1>4. TriesLeft'
  BY BuildServerAssumption DEF IInv, TypeOK, TriesLeft, Become, clientVars
<1> QED  BY <1>1, <1>2, <1>3, <1>4 DEF IInv

LEMMA QuitKeeps ==
  ASSUME IInv, NEW s \in Servers, Quit(s)
  PROVE  IInv'
<1> USE DEF Quit
<1>1. TypeOK'
  BY BuildServerAssumption DEF IInv, TypeOK, Alive, Asking, Listening, Become, clientVars
<1>2. LockHeld'
  BY BuildServerAssumption DEF IInv, TypeOK, LockHeld, HasLock, Alive, Listening, Become, LockFree, clientVars
<1>3. OwnSocket'
  BY BuildServerAssumption DEF IInv, TypeOK, LockHeld, HasLock, OwnSocket, Alive, Listening, Become, clientVars
<1>4. TriesLeft'
  BY BuildServerAssumption DEF IInv, TypeOK, TriesLeft, Become, clientVars
<1> QED  BY <1>1, <1>2, <1>3, <1>4 DEF IInv

LEMMA KillKeeps ==
  ASSUME IInv, NEW s \in Servers, Kill(s)
  PROVE  IInv'
<1> USE DEF Kill
<1>1. TypeOK'
  BY BuildServerAssumption, FaultTypes DEF IInv, TypeOK, Alive, Asking, Listening, Become, clientVars
<1>2. LockHeld'
  BY BuildServerAssumption DEF IInv, TypeOK, LockHeld, HasLock, Alive, Listening, Become, LockFree, clientVars
<1>3. OwnSocket'
  BY BuildServerAssumption DEF IInv, TypeOK, LockHeld, HasLock, OwnSocket, Alive, Listening, Become, clientVars
<1>4. TriesLeft'
  BY BuildServerAssumption DEF IInv, TypeOK, TriesLeft, Become, clientVars
<1> QED  BY <1>1, <1>2, <1>3, <1>4 DEF IInv

LEMMA ChildExitsKeeps ==
  ASSUME IInv, NEW s \in Servers, ChildExits(s)
  PROVE  IInv'
<1> USE DEF ChildExits
<1>1. TypeOK'
  BY BuildServerAssumption DEF IInv, TypeOK, Alive, Asking, Listening, Become, clientVars
<1>2. LockHeld'
  BY BuildServerAssumption DEF IInv, TypeOK, LockHeld, HasLock, Alive, Listening, Become, LockFree, clientVars
<1>3. OwnSocket'
  BY BuildServerAssumption DEF IInv, TypeOK, LockHeld, HasLock, OwnSocket, Alive, Listening, Become, clientVars
<1>4. TriesLeft'
  BY BuildServerAssumption DEF IInv, TypeOK, TriesLeft, Become, clientVars
<1> QED  BY <1>1, <1>2, <1>3, <1>4 DEF IInv

\* The steps of a client that end in a retry.
LEMMA RetryStepKeeps ==
  ASSUME IInv, NEW c \in Clients,
         \/ StartFailed(c) \/ StartTimeout(c) \/ Connect(c) \/ AskLost(c)
         \/ AskTimeout(c) \/ GiveBack(c) \/ WaitTimeout(c)
  PROVE  IInv'
<1> USE DEF IInv
<1>0. faults \in 0 .. MaxFaults
  BY DEF TypeOK
<1>1. CASE StartFailed(c)
  BY <1>0, <1>1, RetryKeeps DEF StartFailed
<1>2. CASE StartTimeout(c)
  BY <1>2, RetryKeeps, FaultTypes DEF StartTimeout
<1>3. CASE Connect(c) /\ ~(sock # None /\ server[sock] \in Listening)
  BY <1>0, <1>3, RetryKeeps DEF Connect
<1>4. CASE Connect(c) /\ sock # None /\ server[sock] \in Listening
  <2> USE DEF Connect
  <2>1. TypeOK'
    BY <1>4, BuildServerAssumption DEF TypeOK, Alive, Asking, Listening, GoTo
  <2>2. LockHeld'
    BY <1>4, BuildServerAssumption DEF TypeOK, LockHeld, HasLock, GoTo
  <2>3. OwnSocket'
    BY <1>4 DEF OwnSocket
  <2>4. TriesLeft'
    BY <1>4 DEF TypeOK, TriesLeft, GoTo
  <2> QED  BY <2>1, <2>2, <2>3, <2>4
<1>5. CASE AskLost(c)
  BY <1>0, <1>5, RetryKeeps DEF AskLost
<1>6. CASE AskTimeout(c)
  BY <1>6, RetryKeeps, FaultTypes DEF AskTimeout
<1>7. CASE GiveBack(c)
  BY <1>0, <1>7, RetryKeeps DEF GiveBack
<1>8. CASE WaitTimeout(c)
  BY <1>8, RetryKeeps, FiveSecondsTypes DEF WaitTimeout
<1> QED  BY <1>1, <1>2, <1>3, <1>4, <1>5, <1>6, <1>7, <1>8

LEMMA InvNext == IInv /\ [Next]_vars => IInv'
<1> SUFFICES ASSUME IInv, [Next]_vars PROVE IInv'
  OBVIOUS
<1>1. CASE UNCHANGED vars
  BY <1>1 DEF vars, IInv, TypeOK, LockHeld, HasLock, OwnSocket, TriesLeft
<1>2. ASSUME NEW c \in Clients, Start(c) \/ ClientStep(c)
      PROVE  IInv'
  BY <1>2, RetryStepKeeps,
     StartKeeps, TryLockKeeps, TryBusyKeeps, ForkKeeps, ReadReadyKeeps, AnswerKeeps,
     WaitGotKeeps, LeaveKeeps, LostKeeps, WakeKeeps, AgainKeeps
     DEF ClientStep
<1>3. ASSUME NEW s \in Servers,
             ServerStep(s) \/ Quit(s) \/ Kill(s) \/ ChildExits(s)
      PROVE  IInv'
  BY <1>3, BindKeeps, CookerUpKeeps, CookerFailsKeeps, StatSocketKeeps,
     UnlinkSocketKeeps, CloseSocketKeeps, PostServeKeeps, ReleaseKeeps, RelockKeeps,
     RelockBusyKeeps, UnlockKeeps, QuitKeeps, KillKeeps, ChildExitsKeeps
     DEF ServerStep
<1> QED  BY <1>1, <1>2, <1>3 DEF Next

LEMMA InvHolds == Spec => []IInv
BY InvInit, InvNext, PTL DEF Spec

\* The socket of a server that is up keeps its name, whatever the servers
\* before it still do on their way out (setup and end of ProcessServer).
THEOREM SocketIsKept == Spec => []SocketKept
<1>1. IInv => SocketKept
  BY DEF IInv, OwnSocket, SocketKept
<1> QED  BY <1>1, InvHolds, PTL

\* One server at a time has the build directory: the lock's file goes from
\* the client to the server it forks, and the server closes it last.
THEOREM OneServerAtATime == Spec => []OneServer
<1>1. IInv => OneServer
  BY DEF IInv, LockHeld, HasLock, OneServer
<1> QED  BY <1>1, InvHolds, PTL

\* Both together, with the types: what the run checks on two clients and two
\* servers holds for every number of them, of tries and of faults.
THEOREM ServerInvariant == Spec => []ServerInv
<1>1. IInv => TypeOK
  BY DEF IInv
<1>2. Spec => []TypeOK
  BY <1>1, InvHolds, PTL
<1> QED  BY <1>2, SocketIsKept, OneServerAtATime, PTL DEF ServerInv
-----------------------------------------------------------------------------
(* Why the tries of setup_bitbake's loop are enough, however many clients   *)
(* race.  As long as nothing is killed, fails to start or takes too long, a *)
(* stop of a server costs a client two tries at the most: one that met the  *)
(* server on its way out, and one that, after the sleep, waited for the     *)
(* lock while another client's server was starting.                         *)

Leaving(s) == server[s] \in {"quit", "unlink", "close", "post", "release",
                             "relock", "unlock"}

Up == \E s \in Servers : server[s] \in {"init", "serving"}

\* Nobody has the lock's file open elsewhere, who failed has used up the
\* tries, and a server that is starting has not said that it is ready.
HoldersOnly == \A p \in holders : HasLock(p)
FailedLast == \A c \in Clients : pc[c] = "failed" => tries[c] = 0
NotReadyYet == \A s \in Servers : server[s] \in {"forked", "init"} => s \notin ready

\* No server has died.
Calm ==
  /\ orphans = {}
  /\ sock # None => server[sock] \in {"init", "serving", "quit", "unlink"}

\* Nothing is left of a server that stopped, and who gets the lock forks.
Settled ==
  /\ \A s \in Servers : ~Leaving(s)
  /\ \A c \in Clients : pc[c] # "gotLock"
  /\ LockFree => \A c \in Clients : pc[c] # "waitLock"

\* Loses no try until another server stops ...
Safe(c) ==
  \/ pc[c] \in {"fork", "connected", "done", "failed"}
  \/ pc[c] = "waitReady" /\ server[on[c]] \in {"forked", "init", "serving"}
  \/ pc[c] = "ask" /\ server[on[c]] \in {"init", "serving"}
  \/ pc[c] \in {"idle", "try", "sleep", "connect"} /\ Up

\* ... or one at the most; nobody loses more than two.
OneMore(c) ==
  \/ pc[c] = "sleep"
  \/ pc[c] \in {"idle", "try", "waitLock"} /\ Settled

MayLose(c) == IF Safe(c) THEN 0 ELSE IF OneMore(c) THEN 1 ELSE 2

\* Of the tries with a sleep after them, two for each stop.
Pays(c) ==
  IF quits = 0 THEN Retries + MayLose(c) <= tries[c] + 1
               ELSE 5 + MayLose(c) <= tries[c] + 2 * quits

BInv ==
  /\ HoldersOnly /\ FailedLast /\ NotReadyYet
  /\ faults = 0 => /\ Calm
                   /\ quits = 0 => Settled
                   /\ \A c \in Clients : Pays(c)

LEMMA BInvInit == Init => BInv
<1> SUFFICES ASSUME Init PROVE BInv
  OBVIOUS
<1>1. HoldersOnly /\ FailedLast /\ NotReadyYet /\ Calm /\ Settled
  BY DEF Init, HoldersOnly, FailedLast, NotReadyYet, Calm, Settled, Leaving
<1>2. ASSUME NEW c \in Clients PROVE Pays(c)
  <2>1. OneMore(c) /\ quits = 0 /\ tries[c] = Retries
    BY <1>1 DEF OneMore, Init
  <2> QED  BY <2>1, BuildServerAssumption DEF Pays, MayLose
<1> QED  BY <1>1, <1>2 DEF BInv

\* What takes a fault does not happen meanwhile.
LEMMA NoFault == TypeOK /\ faults' = faults => ~Fault
BY DEF TypeOK, Fault

\* There is no fault now, so there was none before.
LEMMA NoFaultBefore ==
  ASSUME TypeOK, Next, faults' = 0
  PROVE  faults' = faults
<1>1. faults \in Nat /\ MaxFaults \in Nat
  BY BuildServerAssumption DEF TypeOK
<1>2. Fault => faults' # 0
  BY <1>1 DEF Fault
<1>3. FiveSeconds => faults' = faults \/ faults' # 0
  BY <1>2 DEF FiveSeconds
<1>4. ASSUME NEW d \in Clients, ClientStep(d) \/ Start(d)
      PROVE  faults' = faults \/ faults' # 0
  BY <1>2, <1>3, <1>4
     DEF ClientStep, Start, TryLock, TryBusy, Fork, ReadReady, StartFailed,
         StartTimeout, Connect, Answer, AskLost, AskTimeout, WaitGot, GiveBack,
         WaitTimeout, Wake, Again, Leave, Lost
<1>5. ASSUME NEW s \in Servers,
             ServerStep(s) \/ Quit(s) \/ Kill(s) \/ ChildExits(s)
      PROVE  faults' = faults \/ faults' # 0
  BY <1>2, <1>5
     DEF ServerStep, Bind, CookerUp, CookerFails, StatSocket, UnlinkSocket,
         CloseSocket, PostServe, Release, Relock, RelockBusy, Unlock, Quit,
         Kill, ChildExits
<1> QED  BY <1>4, <1>5 DEF Next

\* A step after which nobody has more to lose than before.
Eases ==
  /\ Calm'
  /\ Settled => Settled'
  /\ \A d \in Clients : /\ Safe(d) => Safe(d)'
                        /\ OneMore(d) => OneMore(d)' \/ Safe(d)'

LEMMA EasesPays ==
  ASSUME TypeOK, Eases, NEW c \in Clients, Pays(c), tries'[c] = tries[c],
         quits' = quits
  PROVE  Pays(c)'
<1>1. MayLose(c) \in 0 .. 2 /\ MayLose(c)' \in 0 .. 2 /\ MayLose(c)' <= MayLose(c)
  BY DEF Eases, MayLose
<1>2. tries[c] \in Nat /\ quits \in Nat /\ Retries \in Nat
  BY BuildServerAssumption DEF TypeOK
<1> HIDE DEF MayLose
<1> QED  BY <1>1, <1>2 DEF Pays

LEMMA StartEases ==
  ASSUME IInv, NotReadyYet, Calm, NEW c \in Clients, Start(c)
  PROVE  Eases
<1> USE DEF Start, GoTo
<1>1. Calm'
  BY DEF Calm
<1>2. Settled => Settled'
  BY BuildServerAssumption DEF Settled, LockFree, Leaving, IInv, TypeOK
<1>3. ASSUME NEW d \in Clients, Safe(d) PROVE Safe(d)'
  BY <1>3, BuildServerAssumption
     DEF Safe, Up, LockFree, IInv, TypeOK, LockHeld, HasLock, OwnSocket,
         NotReadyYet, Alive, Listening, Asking
<1>4. ASSUME NEW d \in Clients, OneMore(d), ~Safe(d) PROVE OneMore(d)' \/ Safe(d)'
  BY <1>2, <1>4, BuildServerAssumption
     DEF OneMore, Safe, Up, Settled, Leaving, LockFree, Calm, IInv, TypeOK,
         Asking
<1> QED  BY <1>1, <1>2, <1>3, <1>4 DEF Eases

LEMMA TryLockEases ==
  ASSUME IInv, NotReadyYet, Calm, NEW c \in Clients, TryLock(c)
  PROVE  Eases
<1> USE DEF TryLock, GoTo
<1>1. Calm'
  BY DEF Calm
<1>2. Settled => Settled'
  BY BuildServerAssumption DEF Settled, LockFree, Leaving, IInv, TypeOK
<1>3. ASSUME NEW d \in Clients, Safe(d) PROVE Safe(d)'
  BY <1>3, BuildServerAssumption
     DEF Safe, Up, LockFree, IInv, TypeOK, LockHeld, HasLock, OwnSocket,
         NotReadyYet, Alive, Listening, Asking
<1>4. ASSUME NEW d \in Clients, OneMore(d), ~Safe(d) PROVE OneMore(d)' \/ Safe(d)'
  BY <1>2, <1>4, BuildServerAssumption
     DEF OneMore, Safe, Up, Settled, Leaving, LockFree, Calm, IInv, TypeOK,
         Asking
<1> QED  BY <1>1, <1>2, <1>3, <1>4 DEF Eases

LEMMA TryBusyEases ==
  ASSUME IInv, NotReadyYet, Calm, NEW c \in Clients, TryBusy(c)
  PROVE  Eases
<1> USE DEF TryBusy, GoTo
<1>1. Calm'
  BY DEF Calm
<1>2. Settled => Settled'
  BY BuildServerAssumption DEF Settled, LockFree, Leaving, IInv, TypeOK
<1>3. ASSUME NEW d \in Clients, Safe(d) PROVE Safe(d)'
  BY <1>3, BuildServerAssumption
     DEF Safe, Up, LockFree, IInv, TypeOK, LockHeld, HasLock, OwnSocket,
         NotReadyYet, Alive, Listening, Asking
<1>4. ASSUME NEW d \in Clients, OneMore(d), ~Safe(d) PROVE OneMore(d)' \/ Safe(d)'
  BY <1>2, <1>4, BuildServerAssumption
     DEF OneMore, Safe, Up, Settled, Leaving, LockFree, Calm, IInv, TypeOK,
         Asking
<1> QED  BY <1>1, <1>2, <1>3, <1>4 DEF Eases

LEMMA ReadReadyEases ==
  ASSUME IInv, NotReadyYet, Calm, NEW c \in Clients, ReadReady(c)
  PROVE  Eases
<1> USE DEF ReadReady, GoTo
<1>1. Calm'
  BY DEF Calm
<1>2. Settled => Settled'
  BY BuildServerAssumption DEF Settled, LockFree, Leaving, IInv, TypeOK
<1>3. ASSUME NEW d \in Clients, Safe(d) PROVE Safe(d)'
  BY <1>3, BuildServerAssumption
     DEF Safe, Up, LockFree, IInv, TypeOK, LockHeld, HasLock, OwnSocket,
         NotReadyYet, Alive, Listening, Asking
<1>4. ASSUME NEW d \in Clients, OneMore(d), ~Safe(d) PROVE OneMore(d)' \/ Safe(d)'
  BY <1>2, <1>4, BuildServerAssumption
     DEF OneMore, Safe, Up, Settled, Leaving, LockFree, Calm, IInv, TypeOK,
         Asking
<1> QED  BY <1>1, <1>2, <1>3, <1>4 DEF Eases

LEMMA AnswerEases ==
  ASSUME IInv, NotReadyYet, Calm, NEW c \in Clients, Answer(c)
  PROVE  Eases
<1> USE DEF Answer, GoTo
<1>1. Calm'
  BY DEF Calm
<1>2. Settled => Settled'
  BY BuildServerAssumption DEF Settled, LockFree, Leaving, IInv, TypeOK
<1>3. ASSUME NEW d \in Clients, Safe(d) PROVE Safe(d)'
  BY <1>3, BuildServerAssumption
     DEF Safe, Up, LockFree, IInv, TypeOK, LockHeld, HasLock, OwnSocket,
         NotReadyYet, Alive, Listening, Asking
<1>4. ASSUME NEW d \in Clients, OneMore(d), ~Safe(d) PROVE OneMore(d)' \/ Safe(d)'
  BY <1>2, <1>4, BuildServerAssumption
     DEF OneMore, Safe, Up, Settled, Leaving, LockFree, Calm, IInv, TypeOK,
         Asking
<1> QED  BY <1>1, <1>2, <1>3, <1>4 DEF Eases

LEMMA WaitGotEases ==
  ASSUME IInv, NotReadyYet, Calm, NEW c \in Clients, WaitGot(c)
  PROVE  Eases
<1> USE DEF WaitGot, GoTo
<1>1. Calm'
  BY DEF Calm
<1>2. Settled => Settled'
  BY BuildServerAssumption DEF Settled, LockFree, Leaving, IInv, TypeOK
<1>3. ASSUME NEW d \in Clients, Safe(d) PROVE Safe(d)'
  BY <1>3, BuildServerAssumption
     DEF Safe, Up, LockFree, IInv, TypeOK, LockHeld, HasLock, OwnSocket,
         NotReadyYet, Alive, Listening, Asking
<1>4. ASSUME NEW d \in Clients, OneMore(d), ~Safe(d) PROVE OneMore(d)' \/ Safe(d)'
  BY <1>2, <1>4, BuildServerAssumption
     DEF OneMore, Safe, Up, Settled, Leaving, LockFree, Calm, IInv, TypeOK,
         Asking
<1> QED  BY <1>1, <1>2, <1>3, <1>4 DEF Eases

LEMMA LeaveEases ==
  ASSUME IInv, NotReadyYet, Calm, NEW c \in Clients, Leave(c)
  PROVE  Eases
<1> USE DEF Leave, GoTo
<1>1. Calm'
  BY DEF Calm
<1>2. Settled => Settled'
  BY BuildServerAssumption DEF Settled, LockFree, Leaving, IInv, TypeOK
<1>3. ASSUME NEW d \in Clients, Safe(d) PROVE Safe(d)'
  BY <1>3, BuildServerAssumption
     DEF Safe, Up, LockFree, IInv, TypeOK, LockHeld, HasLock, OwnSocket,
         NotReadyYet, Alive, Listening, Asking
<1>4. ASSUME NEW d \in Clients, OneMore(d), ~Safe(d) PROVE OneMore(d)' \/ Safe(d)'
  BY <1>2, <1>4, BuildServerAssumption
     DEF OneMore, Safe, Up, Settled, Leaving, LockFree, Calm, IInv, TypeOK,
         Asking
<1> QED  BY <1>1, <1>2, <1>3, <1>4 DEF Eases

LEMMA LostEases ==
  ASSUME IInv, NotReadyYet, Calm, NEW c \in Clients, Lost(c)
  PROVE  Eases
<1> USE DEF Lost, GoTo
<1>1. Calm'
  BY DEF Calm
<1>2. Settled => Settled'
  BY BuildServerAssumption DEF Settled, LockFree, Leaving, IInv, TypeOK
<1>3. ASSUME NEW d \in Clients, Safe(d) PROVE Safe(d)'
  BY <1>3, BuildServerAssumption
     DEF Safe, Up, LockFree, IInv, TypeOK, LockHeld, HasLock, OwnSocket,
         NotReadyYet, Alive, Listening, Asking
<1>4. ASSUME NEW d \in Clients, OneMore(d), ~Safe(d) PROVE OneMore(d)' \/ Safe(d)'
  BY <1>2, <1>4, BuildServerAssumption
     DEF OneMore, Safe, Up, Settled, Leaving, LockFree, Calm, IInv, TypeOK,
         Asking
<1> QED  BY <1>1, <1>2, <1>3, <1>4 DEF Eases

LEMMA BindEases ==
  ASSUME IInv, Calm, NEW s \in Servers, Bind(s)
  PROVE  Eases
<1> USE DEF Bind, Become, clientVars
<1>1. Calm'
  BY BuildServerAssumption DEF Calm, IInv, TypeOK, LockHeld, HasLock, OwnSocket, Alive, Listening
<1>2. Settled => Settled'
  BY DEF Settled, LockFree, Leaving, IInv, TypeOK
<1>3. ASSUME NEW d \in Clients, Safe(d) PROVE Safe(d)'
  BY <1>3 DEF Safe, Up, IInv, TypeOK, Asking
<1>4. ASSUME NEW d \in Clients, OneMore(d) PROVE OneMore(d)' \/ Safe(d)'
  BY <1>2, <1>4 DEF OneMore
<1> QED  BY <1>1, <1>2, <1>3, <1>4 DEF Eases

LEMMA CookerUpEases ==
  ASSUME IInv, Calm, NEW s \in Servers, CookerUp(s)
  PROVE  Eases
<1> USE DEF CookerUp, Become, clientVars
<1>1. Calm'
  BY BuildServerAssumption DEF Calm, IInv, TypeOK, LockHeld, HasLock, OwnSocket, Alive, Listening
<1>2. Settled => Settled'
  BY DEF Settled, LockFree, Leaving, IInv, TypeOK
<1>3. ASSUME NEW d \in Clients, Safe(d) PROVE Safe(d)'
  BY <1>3 DEF Safe, Up, IInv, TypeOK, Asking
<1>4. ASSUME NEW d \in Clients, OneMore(d) PROVE OneMore(d)' \/ Safe(d)'
  BY <1>2, <1>4 DEF OneMore
<1> QED  BY <1>1, <1>2, <1>3, <1>4 DEF Eases

LEMMA StatSocketEases ==
  ASSUME IInv, Calm, NEW s \in Servers, StatSocket(s)
  PROVE  Eases
<1> USE DEF StatSocket, Become, clientVars
<1>1. Calm'
  BY BuildServerAssumption DEF Calm, IInv, TypeOK, LockHeld, HasLock, OwnSocket, Alive, Listening
<1>2. Settled => Settled'
  BY DEF Settled, LockFree, Leaving, IInv, TypeOK
<1>3. ASSUME NEW d \in Clients, Safe(d) PROVE Safe(d)'
  BY <1>3 DEF Safe, Up, IInv, TypeOK, Asking
<1>4. ASSUME NEW d \in Clients, OneMore(d) PROVE OneMore(d)' \/ Safe(d)'
  BY <1>2, <1>4 DEF OneMore
<1> QED  BY <1>1, <1>2, <1>3, <1>4 DEF Eases

LEMMA UnlinkSocketEases ==
  ASSUME IInv, Calm, NEW s \in Servers, UnlinkSocket(s)
  PROVE  Eases
<1> USE DEF UnlinkSocket, Become, clientVars
<1>1. Calm'
  BY BuildServerAssumption DEF Calm, IInv, TypeOK, LockHeld, HasLock, OwnSocket, Alive, Listening
<1>2. Settled => Settled'
  BY DEF Settled, LockFree, Leaving, IInv, TypeOK
<1>3. ASSUME NEW d \in Clients, Safe(d) PROVE Safe(d)'
  BY <1>3 DEF Safe, Up, IInv, TypeOK, Asking
<1>4. ASSUME NEW d \in Clients, OneMore(d) PROVE OneMore(d)' \/ Safe(d)'
  BY <1>2, <1>4 DEF OneMore
<1> QED  BY <1>1, <1>2, <1>3, <1>4 DEF Eases

LEMMA CloseSocketEases ==
  ASSUME IInv, Calm, NEW s \in Servers, CloseSocket(s)
  PROVE  Eases
<1> USE DEF CloseSocket, Become, clientVars
<1>1. Calm'
  BY BuildServerAssumption DEF Calm, IInv, TypeOK, LockHeld, HasLock, OwnSocket, Alive, Listening
<1>2. Settled => Settled'
  BY DEF Settled, LockFree, Leaving, IInv, TypeOK
<1>3. ASSUME NEW d \in Clients, Safe(d) PROVE Safe(d)'
  BY <1>3 DEF Safe, Up, IInv, TypeOK, Asking
<1>4. ASSUME NEW d \in Clients, OneMore(d) PROVE OneMore(d)' \/ Safe(d)'
  BY <1>2, <1>4 DEF OneMore
<1> QED  BY <1>1, <1>2, <1>3, <1>4 DEF Eases

LEMMA PostServeEases ==
  ASSUME IInv, Calm, NEW s \in Servers, PostServe(s)
  PROVE  Eases
<1> USE DEF PostServe, Become, clientVars
<1>1. Calm'
  BY BuildServerAssumption DEF Calm, IInv, TypeOK, LockHeld, HasLock, OwnSocket, Alive, Listening
<1>2. Settled => Settled'
  BY DEF Settled, LockFree, Leaving, IInv, TypeOK
<1>3. ASSUME NEW d \in Clients, Safe(d) PROVE Safe(d)'
  BY <1>3 DEF Safe, Up, IInv, TypeOK, Asking
<1>4. ASSUME NEW d \in Clients, OneMore(d) PROVE OneMore(d)' \/ Safe(d)'
  BY <1>2, <1>4 DEF OneMore
<1> QED  BY <1>1, <1>2, <1>3, <1>4 DEF Eases

LEMMA ReleaseEases ==
  ASSUME IInv, Calm, NEW s \in Servers, Release(s)
  PROVE  Eases
<1> USE DEF Release, Become, clientVars
<1>1. Calm'
  BY BuildServerAssumption DEF Calm, IInv, TypeOK, LockHeld, HasLock, OwnSocket, Alive, Listening
<1>2. Settled => Settled'
  BY DEF Settled, LockFree, Leaving, IInv, TypeOK
<1>3. ASSUME NEW d \in Clients, Safe(d) PROVE Safe(d)'
  BY <1>3 DEF Safe, Up, IInv, TypeOK, Asking
<1>4. ASSUME NEW d \in Clients, OneMore(d) PROVE OneMore(d)' \/ Safe(d)'
  BY <1>2, <1>4 DEF OneMore
<1> QED  BY <1>1, <1>2, <1>3, <1>4 DEF Eases

LEMMA RelockEases ==
  ASSUME IInv, Calm, NEW s \in Servers, Relock(s)
  PROVE  Eases
<1> USE DEF Relock, Become, clientVars
<1>1. Calm'
  BY BuildServerAssumption DEF Calm, IInv, TypeOK, LockHeld, HasLock, OwnSocket, Alive, Listening
<1>2. Settled => Settled'
  BY DEF Settled, LockFree, Leaving, IInv, TypeOK
<1>3. ASSUME NEW d \in Clients, Safe(d) PROVE Safe(d)'
  BY <1>3 DEF Safe, Up, IInv, TypeOK, Asking
<1>4. ASSUME NEW d \in Clients, OneMore(d) PROVE OneMore(d)' \/ Safe(d)'
  BY <1>2, <1>4 DEF OneMore
<1> QED  BY <1>1, <1>2, <1>3, <1>4 DEF Eases

LEMMA RelockBusyEases ==
  ASSUME IInv, Calm, NEW s \in Servers, RelockBusy(s)
  PROVE  Eases
<1> USE DEF RelockBusy, Become, clientVars
<1>1. Calm'
  BY BuildServerAssumption DEF Calm, IInv, TypeOK, LockHeld, HasLock, OwnSocket, Alive, Listening
<1>2. Settled => Settled'
  BY DEF Settled, LockFree, Leaving, IInv, TypeOK
<1>3. ASSUME NEW d \in Clients, Safe(d) PROVE Safe(d)'
  BY <1>3 DEF Safe, Up, IInv, TypeOK, Asking
<1>4. ASSUME NEW d \in Clients, OneMore(d) PROVE OneMore(d)' \/ Safe(d)'
  BY <1>2, <1>4 DEF OneMore
<1> QED  BY <1>1, <1>2, <1>3, <1>4 DEF Eases

LEMMA UnlockEases ==
  ASSUME IInv, Calm, NEW s \in Servers, Unlock(s)
  PROVE  Eases
<1> USE DEF Unlock, Become, clientVars
<1>1. Calm'
  BY BuildServerAssumption DEF Calm, IInv, TypeOK, LockHeld, HasLock, OwnSocket, Alive, Listening
<1>2. Settled => Settled'
  BY DEF Settled, LockFree, Leaving, IInv, TypeOK
<1>3. ASSUME NEW d \in Clients, Safe(d) PROVE Safe(d)'
  BY <1>3 DEF Safe, Up, IInv, TypeOK, Asking
<1>4. ASSUME NEW d \in Clients, OneMore(d) PROVE OneMore(d)' \/ Safe(d)'
  BY <1>2, <1>4 DEF OneMore
<1> QED  BY <1>1, <1>2, <1>3, <1>4 DEF Eases

LEMMA ForkEases ==
  ASSUME IInv, Calm, NEW c \in Clients, Fork(c)
  PROVE  Eases
<1>1. PICK s \in Servers :
        /\ server[s] = "none" /\ \A d \in Clients : on[d] # s
        /\ server' = [server EXCEPT ![s] = "forked"]
        /\ holders' = (holders \ {c}) \union {s}
        /\ on' = [on EXCEPT ![c] = s]
  BY DEF Fork, Become
<1>2. /\ pc[c] = "fork" /\ pc' = [pc EXCEPT ![c] = "waitReady"]
      /\ UNCHANGED <<orphans, sock>>
  BY DEF Fork, GoTo
<1>3. Calm'
  BY <1>1, <1>2 DEF Calm, IInv, TypeOK
<1>4. Settled => Settled'
  BY <1>1, <1>2 DEF Settled, Leaving, LockFree, IInv, TypeOK
<1>5. Up => Up'
  BY <1>1, <1>2 DEF Up, IInv, TypeOK
<1>6. Safe(c)'
  BY <1>1, <1>2 DEF Safe, IInv, TypeOK
<1>7. ASSUME NEW d \in Clients \ {c}, Safe(d) PROVE Safe(d)'
  BY <1>1, <1>2, <1>5, <1>7 DEF Safe, IInv, TypeOK
<1>8. ASSUME NEW d \in Clients \ {c}, OneMore(d) PROVE OneMore(d)'
  BY <1>1, <1>2, <1>4, <1>8 DEF OneMore, IInv, TypeOK
<1> QED  BY <1>3, <1>4, <1>6, <1>7, <1>8 DEF Eases

\* After 5 s of sleep nothing is left of the servers that stopped.
LEMMA WakeEases ==
  ASSUME IInv, Calm, NEW c \in Clients, Wake(c), faults' = faults
  PROVE  Eases
<1>1. /\ ~Brief /\ ~Slow /\ pc[c] = "sleep" /\ pc' = [pc EXCEPT ![c] = "try"]
      /\ UNCHANGED <<holders, orphans, sock, server, on>>
  BY NoFault DEF Wake, FiveSeconds, IInv, GoTo
<1>2. Calm'
  BY <1>1 DEF Calm
<1>3. Settled'
  BY <1>1 DEF Settled, Leaving, Brief, Slow, LockFree, IInv, TypeOK
<1>4. ASSUME NEW d \in Clients, Safe(d) PROVE Safe(d)'
  BY <1>1, <1>4 DEF Safe, Up, IInv, TypeOK
<1>5. ASSUME NEW d \in Clients, OneMore(d) PROVE OneMore(d)'
  BY <1>1, <1>3, <1>5 DEF OneMore, IInv, TypeOK
<1> QED  BY <1>2, <1>3, <1>4, <1>5 DEF Eases

\* To connect to a server that is listening costs nothing.
LEMMA ConnectEases ==
  ASSUME IInv, Calm, NEW c \in Clients, Connect(c),
         sock # None, server[sock] \in Listening
  PROVE  Eases
<1>1. /\ pc[c] = "connect" /\ pc' = [pc EXCEPT ![c] = "ask"]
      /\ on' = [on EXCEPT ![c] = sock]
      /\ UNCHANGED <<holders, orphans, sock, server>>
  BY DEF Connect, GoTo
<1>2. Calm'
  BY <1>1 DEF Calm
<1>3. Settled => Settled'
  BY <1>1 DEF Settled, Leaving, LockFree, IInv, TypeOK
<1>4. Up => server[sock] \in {"init", "serving"}
  BY DEF Up, IInv, OwnSocket
<1>5. ASSUME NEW d \in Clients, Safe(d) PROVE Safe(d)'
  BY <1>1, <1>4, <1>5 DEF Safe, Up, IInv, TypeOK
<1>6. ASSUME NEW d \in Clients, OneMore(d) PROVE OneMore(d)' \/ Safe(d)'
  BY <1>1, <1>3, <1>6 DEF OneMore, IInv, TypeOK
<1> QED  BY <1>2, <1>3, <1>5, <1>6 DEF Eases

\* A wait of 5 s for the lock ends with it: a server that is up has it.
LEMMA HolderIsUp ==
  ASSUME IInv, HoldersOnly, Calm, NEW c \in Clients, WaitTimeout(c),
         faults' = faults
  PROVE  Up
<1>1. ~Brief /\ ~Slow
  BY NoFault DEF WaitTimeout, FiveSeconds, IInv
<1>2. PICK p \in holders : TRUE
  BY DEF WaitTimeout, LockFree, Calm
<1>3. HasLock(p)
  BY DEF HoldersOnly
<1>4. p \notin Clients
  BY <1>1, <1>3, BuildServerAssumption DEF HasLock, Brief, Alive, Listening
<1>5. p \in Servers /\ server[p] \in {"init", "serving"}
  BY <1>1, <1>3, <1>4 DEF HasLock, Brief, Slow, Alive, Listening
<1> QED  BY <1>5 DEF Up

\* Who loses a try was not safe, is up to one more at the most if it sleeps,
\* and is safe if that was the one.
LoseOne(c) ==
  /\ Retry(c) /\ ~Safe(c)
  /\ OneMore(c) => Up
  /\ pc[c] \notin {"idle", "failed"}
  /\ \/ holders' = holders
     \/ pc[c] = "gotLock"
  /\ UNCHANGED <<orphans, sock, server, quits>>

LEMMA RetryLosesOne ==
  ASSUME IInv, HoldersOnly, Calm, NEW c \in Clients, faults' = faults,
         \/ StartFailed(c) \/ AskLost(c) \/ GiveBack(c) \/ WaitTimeout(c)
         \/ Connect(c) /\ ~(sock # None /\ server[sock] \in Listening)
  PROVE  LoseOne(c)
<1> USE DEF LoseOne
<1>1. CASE StartFailed(c)
  BY <1>1 DEF StartFailed, Safe, OneMore
<1>2. CASE AskLost(c)
  BY <1>2 DEF AskLost, Safe, OneMore, Listening
<1>3. CASE GiveBack(c)
  BY <1>3 DEF GiveBack, Safe, OneMore
<1>4. CASE WaitTimeout(c)
  BY <1>4, HolderIsUp DEF WaitTimeout, Safe
<1>5. CASE Connect(c) /\ ~(sock # None /\ server[sock] \in Listening)
  <2>1. pc[c] = "connect" /\ Retry(c)
        /\ UNCHANGED <<holders, orphans, sock, server, quits>>
    BY <1>5 DEF Connect
  <2>2. ~Up
    BY <1>5, BuildServerAssumption DEF Up, IInv, OwnSocket, Listening
  <2> QED  BY <2>1, <2>2 DEF Safe, OneMore
<1> QED  BY <1>1, <1>2, <1>3, <1>4, <1>5

\* To the others a lost try is nothing, and the loser can pay for it.
LEMMA LoseOnePays ==
  ASSUME Retries > 5, IInv, Calm, quits = 0 => Settled, NEW c \in Clients,
         LoseOne(c), \A d \in Clients : Pays(d)
  PROVE  Calm' /\ (Settled => Settled') /\ \A d \in Clients : Pays(d)'
<1>1. tries[c] # 0
  BY DEF IInv, TriesLeft, LoseOne
<1>2. PICK step \in {"try", "sleep", "failed"} : pc' = [pc EXCEPT ![c] = step]
  BY <1>1, RetryTypes DEF IInv, LoseOne
<1>3. /\ tries' = [tries EXCEPT ![c] = @ - 1] /\ on' = [on EXCEPT ![c] = None]
      /\ tries[c] <= 5 => step \in {"sleep", "failed"}
      /\ UNCHANGED <<orphans, sock, server, quits>>
  <2>1. tries[c] <= 5 => tries[c] = 1 \/ tries[c] \in 2 .. 5
    BY <1>1, BuildServerAssumption DEF IInv, TypeOK
  <2>2. tries[c] <= 5 => pc'[c] \in {"sleep", "failed"}
    BY <2>1 DEF LoseOne, Retry, GoTo, IInv, TypeOK
  <2> QED  BY <1>2, <2>2 DEF LoseOne, Retry, IInv, TypeOK
<1>4. Calm'
  BY <1>3 DEF Calm
<1>5. Settled => Settled'
  BY <1>2, <1>3 DEF Settled, Leaving, LockFree, LoseOne, IInv, TypeOK
<1>6. ASSUME NEW d \in Clients \ {c} PROVE Pays(d)'
  <2>1. Safe(d) => Safe(d)'
    BY <1>2, <1>3 DEF Safe, Up, IInv, TypeOK
  <2>2. OneMore(d) => OneMore(d)'
    BY <1>2, <1>3, <1>5 DEF OneMore, IInv, TypeOK
  <2>3. /\ MayLose(d) \in 0 .. 2 /\ MayLose(d)' \in 0 .. 2
        /\ MayLose(d)' <= MayLose(d)
    BY <2>1, <2>2 DEF MayLose
  <2>4. tries'[d] = tries[d] /\ quits' = quits /\ Pays(d)
        /\ tries[d] \in Nat /\ quits \in Nat /\ Retries \in Nat
    BY <1>3, BuildServerAssumption DEF IInv, TypeOK
  <2> QED  BY <2>3, <2>4 DEF Pays
<1>7. Pays(c)'
  <2>1. MayLose(c) = IF OneMore(c) THEN 1 ELSE 2
    BY DEF MayLose, LoseOne
  <2>2. OneMore(c) => MayLose(c)' = 0
    BY <1>2, <1>3 DEF LoseOne, MayLose, Safe, Up, IInv, TypeOK
  <2>3. MayLose(c)' \in 0 .. 2 /\ (tries[c] <= 5 => MayLose(c)' \in 0 .. 1)
    BY <1>2, <1>3 DEF MayLose, Safe, OneMore, IInv, TypeOK
  <2>4. tries'[c] = tries[c] - 1 /\ quits' = quits /\ Pays(c)
        /\ tries[c] \in 1 .. Retries /\ quits \in Nat /\ Retries \in Nat
    BY <1>1, <1>3, BuildServerAssumption DEF IInv, TypeOK
  <2>5. CASE OneMore(c)
    BY <2>1, <2>2, <2>4, <2>5 DEF Pays
  <2>6. CASE ~OneMore(c) /\ quits = 0
    BY <2>1, <2>4, <2>6 DEF Pays
  <2>7. CASE ~OneMore(c) /\ quits # 0
    BY <2>1, <2>3, <2>4, <2>7 DEF Pays
  <2> QED  BY <2>5, <2>6, <2>7
<1> QED  BY <1>4, <1>5, <1>6, <1>7

\* Run again, it has all its tries.
LEMMA AgainPays ==
  ASSUME Retries > 5, IInv, FailedLast, Calm, NEW c \in Clients, Again(c),
         \A d \in Clients : Pays(d)
  PROVE  Calm' /\ (Settled => Settled') /\ \A d \in Clients : Pays(d)'
<1>1. /\ pc[c] = "failed" /\ pc' = [pc EXCEPT ![c] = "try"]
      /\ tries' = [tries EXCEPT ![c] = Retries]
      /\ UNCHANGED <<holders, orphans, sock, server, on, quits>>
  BY DEF Again, GoTo
<1>2. Calm'
  BY <1>1 DEF Calm
<1>3. Settled => Settled'
  BY <1>1 DEF Settled, Leaving, LockFree, IInv, TypeOK
<1>4. ASSUME NEW d \in Clients \ {c} PROVE Pays(d)'
  <2>1. Safe(d) => Safe(d)'
    BY <1>1 DEF Safe, Up, IInv, TypeOK
  <2>2. OneMore(d) => OneMore(d)'
    BY <1>1, <1>3 DEF OneMore, IInv, TypeOK
  <2>3. /\ MayLose(d) \in 0 .. 2 /\ MayLose(d)' \in 0 .. 2
        /\ MayLose(d)' <= MayLose(d)
    BY <2>1, <2>2 DEF MayLose
  <2>4. tries'[d] = tries[d] /\ quits' = quits /\ Pays(d)
        /\ tries[d] \in Nat /\ quits \in Nat /\ Retries \in Nat
    BY <1>1, BuildServerAssumption DEF IInv, TypeOK
  <2> QED  BY <2>3, <2>4 DEF Pays
<1>5. Pays(c)'
  <2>1. MayLose(c)' \in 0 .. 2 /\ MayLose(c) \in 0 .. 2
    BY DEF MayLose
  <2>2. tries[c] = 0 /\ tries'[c] = Retries /\ quits' = quits /\ Pays(c)
        /\ quits \in Nat /\ Retries \in Nat
    BY <1>1, BuildServerAssumption DEF FailedLast, IInv, TypeOK
  <2> QED  BY <2>1, <2>2 DEF Pays
<1> QED  BY <1>2, <1>3, <1>4, <1>5

\* One more server stops: the two tries this may cost are accounted for.
LEMMA QuitPays ==
  ASSUME Retries > 5, IInv, Calm, NEW s \in Servers, Quit(s),
         \A d \in Clients : Pays(d)
  PROVE  Calm' /\ quits' # 0 /\ \A d \in Clients : Pays(d)'
<1>1. quits \in Nat /\ quits' = quits + 1 /\ tries' = tries /\ Retries \in Nat
  BY BuildServerAssumption DEF Quit, IInv, TypeOK, clientVars
<1>2. Calm'
  BY DEF Calm, Quit, Become, IInv, TypeOK
<1>3. ASSUME NEW d \in Clients PROVE Pays(d)'
  <2>1. MayLose(d) \in 0 .. 2 /\ MayLose(d)' \in 0 .. 2 /\ tries[d] \in Nat
        /\ Pays(d)
    BY BuildServerAssumption DEF MayLose, IInv, TypeOK
  <2> QED  BY <1>1, <2>1 DEF Pays
<1> QED  BY <1>1, <1>2, <1>3

LEMMA BudgetNext ==
  ASSUME Retries > 5, IInv, BInv, Next, faults' = 0
  PROVE  Calm' /\ (quits' = 0 => Settled') /\ \A d \in Clients : Pays(d)'
<1>1. faults' = faults /\ faults = 0 /\ ~Fault
  BY NoFaultBefore, NoFault DEF IInv
<1>2. /\ HoldersOnly /\ FailedLast /\ NotReadyYet
      /\ Calm /\ (quits = 0 => Settled) /\ \A d \in Clients : Pays(d)
  BY <1>1 DEF BInv
<1>3. ASSUME Eases, UNCHANGED <<tries, quits>>
      PROVE  Calm' /\ (quits' = 0 => Settled') /\ \A d \in Clients : Pays(d)'
  BY <1>2, <1>3, EasesPays DEF Eases, IInv
<1>4. CASE \E c \in Clients : Start(c) \/ ClientStep(c)
  <2>1. PICK c \in Clients : Start(c) \/ ClientStep(c)
    BY <1>4
  <2>2. ~StartTimeout(c) /\ ~AskTimeout(c)
    BY <1>1 DEF StartTimeout, AskTimeout
  <2>3. CASE Start(c) \/ TryLock(c) \/ TryBusy(c) \/ ReadReady(c) \/ Answer(c)
             \/ WaitGot(c) \/ Leave(c) \/ Lost(c)
    <3>1. UNCHANGED <<tries, quits>>
      BY <2>3 DEF Start, TryLock, TryBusy, ReadReady, Answer, WaitGot, Leave, Lost
    <3> QED  BY <1>2, <1>3, <2>3, <3>1, StartEases, TryLockEases, TryBusyEases,
                ReadReadyEases, AnswerEases, WaitGotEases, LeaveEases, LostEases
  <2>4. CASE Fork(c)
    BY <1>2, <1>3, <2>4, ForkEases DEF Fork
  <2>5. CASE Wake(c)
    BY <1>1, <1>2, <1>3, <2>5, WakeEases DEF Wake
  <2>6. CASE Connect(c) /\ sock # None /\ server[sock] \in Listening
    BY <1>2, <1>3, <2>6, ConnectEases DEF Connect
  <2>7. CASE \/ StartFailed(c) \/ AskLost(c) \/ GiveBack(c) \/ WaitTimeout(c)
             \/ Connect(c) /\ ~(sock # None /\ server[sock] \in Listening)
    <3>1. LoseOne(c)
      BY <1>1, <1>2, <2>7, RetryLosesOne
    <3> QED  BY <1>2, <3>1, LoseOnePays DEF LoseOne
  <2>8. CASE Again(c)
    BY <1>2, <2>8, AgainPays DEF Again
  <2> QED  BY <2>1, <2>2, <2>3, <2>4, <2>5, <2>6, <2>7, <2>8 DEF ClientStep
<1>5. CASE \E s \in Servers : ServerStep(s) \/ Quit(s) \/ Kill(s) \/ ChildExits(s)
  <2>1. PICK s \in Servers : ServerStep(s) \/ Quit(s) \/ Kill(s) \/ ChildExits(s)
    BY <1>5
  <2>2. ~CookerFails(s) /\ ~Kill(s) /\ ~ChildExits(s)
    BY <1>1, <1>2 DEF CookerFails, Kill, ChildExits, Calm
  <2>3. CASE Quit(s)
    BY <1>2, <2>3, QuitPays
  <2>4. CASE ServerStep(s)
    <3>1. UNCHANGED <<tries, quits>>
      BY <2>2, <2>4
         DEF ServerStep, Bind, CookerUp, StatSocket, UnlinkSocket, CloseSocket,
             PostServe, Release, Relock, RelockBusy, Unlock, clientVars
    <3> QED
      BY <1>2, <1>3, <2>2, <2>4, <3>1, BindEases, CookerUpEases,
         StatSocketEases, UnlinkSocketEases, CloseSocketEases, PostServeEases,
         ReleaseEases, RelockEases, RelockBusyEases, UnlockEases
         DEF ServerStep
  <2> QED  BY <2>1, <2>2, <2>3, <2>4
<1> QED  BY <1>4, <1>5 DEF Next

\* Nobody else has the lock's file open.
LEMMA HoldersOnlyNext == ASSUME IInv, BInv, Next PROVE HoldersOnly'
<1> USE BuildServerAssumption DEF HoldersOnly, HasLock, GoTo, Become, clientVars
<1>1. HoldersOnly /\ TypeOK
  BY DEF BInv, IInv
<1>2. ASSUME NEW c \in Clients, Retry(c), pc[c] \notin {"fork", "failed"},
             UNCHANGED server,
             \/ holders' = holders /\ pc[c] # "gotLock"
             \/ holders' = holders \ {c}
      PROVE  HoldersOnly'
  <2>1. PICK step \in {"try", "sleep", "failed"} : pc' = [pc EXCEPT ![c] = step]
    BY <1>1, <1>2, RetryTypes DEF IInv, TriesLeft
  <2> QED  BY <1>1, <1>2, <2>1 DEF TypeOK
<1>3. ASSUME NEW c \in Clients, Start(c) \/ ClientStep(c)
      PROVE  HoldersOnly'
  <2>1. CASE StartFailed(c) \/ StartTimeout(c) \/ AskLost(c) \/ AskTimeout(c)
             \/ GiveBack(c) \/ WaitTimeout(c)
    BY <1>2, <2>1 DEF StartFailed, StartTimeout, AskLost, AskTimeout, GiveBack, WaitTimeout
  <2>2. CASE Connect(c)
    BY <1>1, <1>2, <2>2 DEF Connect, TypeOK
  <2>3. CASE TryLock(c) \/ WaitGot(c)
    BY <1>1, <2>3 DEF TryLock, WaitGot, TypeOK
  <2>4. CASE Fork(c)
    BY <1>1, <2>4 DEF Fork, TypeOK, Alive
  <2>5. CASE Start(c) \/ TryBusy(c) \/ ReadReady(c) \/ Answer(c) \/ Wake(c)
             \/ Again(c) \/ Leave(c) \/ Lost(c)
    BY <1>1, <2>5 DEF Start, TryBusy, ReadReady, Answer, Wake, Again, Leave,
                      Lost, TypeOK
  <2> QED  BY <1>3, <2>1, <2>2, <2>3, <2>4, <2>5 DEF ClientStep
<1>4. ASSUME NEW s \in Servers,
             ServerStep(s) \/ Quit(s) \/ Kill(s) \/ ChildExits(s)
      PROVE  HoldersOnly'
  BY <1>1, <1>4
     DEF ServerStep, Bind, CookerUp, CookerFails, StatSocket, UnlinkSocket,
         CloseSocket, PostServe, Release, Relock, RelockBusy, Unlock, Quit,
         Kill, ChildExits, TypeOK, Alive, Listening
<1> QED  BY <1>3, <1>4 DEF Next

\* A client fails with its last try.
LEMMA FailedLastNext == ASSUME IInv, BInv, Next PROVE FailedLast'
<1> USE DEF FailedLast, GoTo
<1>1. FailedLast /\ TypeOK
  BY DEF BInv, IInv
<1>2. ASSUME NEW c \in Clients, Retry(c)
      PROVE  FailedLast'
  BY <1>1, <1>2, BuildServerAssumption DEF Retry, TypeOK
<1>3. ASSUME NEW c \in Clients, Start(c) \/ ClientStep(c)
      PROVE  FailedLast'
  BY <1>1, <1>2, <1>3
     DEF ClientStep, Start, TryLock, TryBusy, Fork, ReadReady, StartFailed,
         StartTimeout, Connect, Answer, AskLost, AskTimeout, WaitGot, GiveBack,
         WaitTimeout, Wake, Again, Leave, Lost, TypeOK
<1>4. ASSUME NEW s \in Servers,
             ServerStep(s) \/ Quit(s) \/ Kill(s) \/ ChildExits(s)
      PROVE  FailedLast'
  BY <1>1, <1>4
     DEF ServerStep, Bind, CookerUp, CookerFails, StatSocket, UnlinkSocket,
         CloseSocket, PostServe, Release, Relock, RelockBusy, Unlock, Quit,
         Kill, ChildExits, clientVars
<1> QED  BY <1>3, <1>4 DEF Next

\* The pipe to the client that forked is a new one.
LEMMA NotReadyYetNext == ASSUME IInv, BInv, Next PROVE NotReadyYet'
<1> USE DEF NotReadyYet, Become
<1>1. NotReadyYet /\ TypeOK
  BY DEF BInv, IInv
<1>2. ASSUME NEW c \in Clients, Start(c) \/ ClientStep(c)
      PROVE  NotReadyYet'
  BY <1>1, <1>2
     DEF ClientStep, Start, TryLock, TryBusy, Fork, ReadReady, StartFailed,
         StartTimeout, Connect, Answer, AskLost, AskTimeout, WaitGot, GiveBack,
         WaitTimeout, Wake, Again, Leave, Lost, TypeOK
<1>3. ASSUME NEW s \in Servers,
             ServerStep(s) \/ Quit(s) \/ Kill(s) \/ ChildExits(s)
      PROVE  NotReadyYet'
  BY <1>1, <1>3
     DEF ServerStep, Bind, CookerUp, CookerFails, StatSocket, UnlinkSocket,
         CloseSocket, PostServe, Release, Relock, RelockBusy, Unlock, Quit,
         Kill, ChildExits, TypeOK
<1> QED  BY <1>2, <1>3 DEF Next

LEMMA BInvNext == Retries > 5 /\ IInv /\ BInv /\ [Next]_vars => BInv'
<1>1. ASSUME Retries > 5, IInv, BInv, Next PROVE BInv'
  BY <1>1, BudgetNext, HoldersOnlyNext, FailedLastNext, NotReadyYetNext DEF BInv
<1>2. ASSUME BInv, UNCHANGED vars PROVE BInv'
  BY <1>2
     DEF vars, BInv, HoldersOnly, HasLock, FailedLast, NotReadyYet, Calm,
         Settled, Leaving, LockFree, Pays, MayLose, Safe, OneMore, Up
<1> QED  BY <1>1, <1>2

\* The loop of setup_bitbake, with its 8 tries (any number from six on): for
\* any number of clients that race for the lock and for each other's servers,
\* up to two servers that stop in order meanwhile make none of them give up.
\* It takes a kill, a start that failed, an overlong wait or a third stop.
THEOREM TriesAreEnough ==
  ASSUME Retries > 5
  PROVE  Spec => []GivesUpForAReason
<1>1. IInv /\ BInv => GivesUpForAReason
  <2> SUFFICES ASSUME IInv, BInv, NEW c \in Clients, pc[c] = "failed",
                      ~(faults > 0)
               PROVE  quits > 2
    BY DEF GivesUpForAReason
  <2>1. faults = 0
    BY BuildServerAssumption DEF IInv, TypeOK
  <2>2. tries[c] = 0 /\ Pays(c)
    BY <2>1 DEF BInv, FailedLast
  <2>3. MayLose(c) \in 0 .. 2 /\ quits \in Nat /\ Retries \in Nat
    BY BuildServerAssumption DEF MayLose, IInv, TypeOK
  <2> QED  BY <2>2, <2>3 DEF Pays
<1>2. Retries > 5 /\ IInv /\ BInv /\ [Next]_vars => BInv'
  BY BInvNext
<1>3. IInv /\ BInv /\ [Next]_vars => BInv'
  BY <1>2
<1> QED  BY <1>1, <1>3, InvHolds, BInvInit, PTL DEF Spec

=============================================================================
