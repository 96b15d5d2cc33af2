---------------------------- MODULE BuildServer ----------------------------
(***************************************************************************)
(* How bitbake finds, starts and loses its server: the client's retry loop *)
(* (setup_bitbake in bitbake/lib/bb/main.py) and the server's way from the *)
(* fork to its exit (bitbake/lib/bb/server/process.py).                    *)
(*                                                                         *)
(* Two names in the build directory hold it together.  bitbake.lock is     *)
(* locked without waiting (module FileLock); the client that gets it hands *)
(* the open file to the server it forks, and the server closes it last.    *)
(* bitbake.sock is bound by the server and removed by it before it lets go *)
(* of the lock.  A killed server leaves its socket behind, and a child of  *)
(* it that inherited the lock's file keeps the lock.                       *)
(***************************************************************************)
EXTENDS Naturals

CONSTANTS Clients, Servers, None,
          Retries,      \* main.py: retries = 8
          MaxQuits,     \* bound: servers that decide to stop
          MaxFaults     \* bound: kills, failed starts and overlong waits

ASSUME BuildServerAssumption ==
  /\ None \notin Clients \union Servers
  /\ Clients \intersect Servers = {}
  /\ Retries \in Nat \ {0}
  /\ MaxQuits \in Nat
  /\ MaxFaults \in Nat

VARIABLES
  holders,   \* processes that have bitbake.lock's locked file open
  orphans,   \* killed servers with a child that has it open
  sock,      \* the server whose socket has the name bitbake.sock
  server,    \* per server: where it is in its life
  ready,     \* servers whose "r" is in the pipe to the client that forked
  pc, on, tries,   \* per client: step, the server it deals with, tries left
  quits, faults

vars == <<holders, orphans, sock, server, ready, pc, on, tries, quits, faults>>

Listening == {"init", "serving", "quit", "unlink", "close"}
Alive     == Listening \union {"forked", "post", "release"}
Asking    == {"waitReady", "ask", "connected"}

TypeOK ==
  /\ holders \subseteq Clients \union Servers
  /\ orphans \subseteq Servers
  /\ sock \in Servers \union {None}
  /\ server \in [Servers -> Alive \union {"none", "relock", "unlock"}]
  /\ ready \subseteq Servers
  /\ pc \in [Clients -> Asking \union {"idle", "try", "fork", "connect",
                                       "waitLock", "gotLock", "sleep",
                                       "done", "failed"}]
  /\ on \in [Clients -> Servers \union {None}]
  /\ tries \in [Clients -> 0 .. Retries]
  /\ quits \in 0 .. MaxQuits
  /\ faults \in 0 .. MaxFaults
  /\ \A c \in Clients : pc[c] \in Asking => on[c] # None

LockFree == holders = {} /\ orphans = {}

Init ==
  /\ holders = {}
  /\ orphans = {}
  /\ sock = None
  /\ server = [s \in Servers |-> "none"]
  /\ ready = {}
  /\ pc = [c \in Clients |-> "idle"]
  /\ on = [c \in Clients |-> None]
  /\ tries = [c \in Clients |-> Retries]
  /\ quits = 0
  /\ faults = 0

GoTo(c, step) == pc' = [pc EXCEPT ![c] = step]
Become(s, state) == server' = [server EXCEPT ![s] = state]

Fault == faults < MaxFaults /\ faults' = faults + 1

clientVars == <<pc, on, tries>>

-----------------------------------------------------------------------------
(* The client: setup_bitbake and connectProcessServer.                     *)

\* The except clause: one try less, after the last one bb.fatal, and a sleep
\* of 5 s before each of the last four.
Retry(c) ==
  /\ tries' = [tries EXCEPT ![c] = @ - 1]
  /\ on' = [on EXCEPT ![c] = None]
  /\ \/ tries[c] = 1 /\ GoTo(c, "failed")
     \/ tries[c] \in 2 .. 5 /\ GoTo(c, "sleep")
     \/ tries[c] > 5 /\ GoTo(c, "try")

\* What takes no 5 s: a step of a process that waits for nobody.  The lock is
\* polled for every 100 ms.
Brief ==
  \/ \E s \in Servers : server[s] \in {"forked", "quit", "unlink", "close",
                                      "release", "relock", "unlock"}
  \/ \E c \in Clients : pc[c] \in {"try", "fork", "connect", "gotLock"}
  \/ LockFree /\ \E c \in Clients : pc[c] = "waitLock"

\* What may take longer once in a while.
Slow == orphans # {} \/ \E s \in Servers : server[s] = "post"

FiveSeconds == IF Brief \/ Slow THEN Fault ELSE faults' = faults

Wake(c) ==
  /\ pc[c] = "sleep"
  /\ FiveSeconds
  /\ GoTo(c, "try")
  /\ UNCHANGED <<holders, orphans, sock, server, ready, on, tries, quits>>

Start(c) ==
  /\ pc[c] = "idle"
  /\ GoTo(c, "try")
  /\ UNCHANGED <<holders, orphans, sock, server, ready, on, tries, quits, faults>>

\* bitbake has failed and is run again.
Again(c) ==
  /\ pc[c] = "failed"
  /\ GoTo(c, "try")
  /\ tries' = [tries EXCEPT ![c] = Retries]
  /\ UNCHANGED <<holders, orphans, sock, server, ready, on, quits, faults>>

TryLock(c) ==
  /\ pc[c] = "try"
  /\ LockFree
  /\ holders' = {c}
  /\ GoTo(c, "fork")
  /\ UNCHANGED <<orphans, sock, server, ready, on, tries, quits, faults>>

\* Somebody has the lock: a server to connect to, or one on its way out.
TryBusy(c) ==
  /\ pc[c] = "try"
  /\ ~LockFree
  /\ GoTo(c, IF sock = None THEN "waitLock" ELSE "connect")
  /\ UNCHANGED <<holders, orphans, sock, server, ready, on, tries, quits, faults>>

\* BitBakeServer: the daemon inherits the locked file, the client closes it.
Fork(c) ==
  /\ pc[c] = "fork"
  /\ \E s \in Servers :
       /\ server[s] = "none"
       /\ s \notin orphans
       /\ \A d \in Clients : on[d] # s
       /\ Become(s, "forked")
       /\ holders' = (holders \ {c}) \union {s}
       /\ ready' = ready \ {s}
       /\ on' = [on EXCEPT ![c] = s]
  /\ GoTo(c, "waitReady")
  /\ UNCHANGED <<orphans, sock, tries, quits, faults>>

ReadReady(c) ==
  /\ pc[c] = "waitReady"
  /\ on[c] \in ready
  /\ GoTo(c, "connect")
  /\ on' = [on EXCEPT ![c] = None]
  /\ UNCHANGED <<holders, orphans, sock, server, ready, tries, quits, faults>>

\* The pipe was closed with nothing in it: SystemExit.
StartFailed(c) ==
  /\ pc[c] = "waitReady"
  /\ on[c] \notin ready
  /\ server[on[c]] = "none"
  /\ Retry(c)
  /\ UNCHANGED <<holders, orphans, sock, server, ready, quits, faults>>

\* Nothing in the pipe for 95 s.
StartTimeout(c) ==
  /\ pc[c] = "waitReady"
  /\ on[c] \notin ready
  /\ server[on[c]] = "init"
  /\ Fault
  /\ Retry(c)
  /\ UNCHANGED <<holders, orphans, sock, server, ready, quits>>

\* Whoever is listening under the name; a stale socket refuses.
Connect(c) ==
  /\ pc[c] = "connect"
  /\ IF sock # None /\ server[sock] \in Listening
       THEN /\ GoTo(c, "ask")
            /\ on' = [on EXCEPT ![c] = sock]
            /\ UNCHANGED tries
       ELSE Retry(c)
  /\ UNCHANGED <<holders, orphans, sock, server, ready, quits, faults>>

\* setFeatures is answered: the server has taken this client on.
Answer(c) ==
  /\ pc[c] = "ask"
  /\ server[on[c]] = "serving"
  /\ \A d \in Clients : pc[d] = "connected" => on[d] # on[c]
  /\ GoTo(c, "connected")
  /\ UNCHANGED <<holders, orphans, sock, server, ready, on, tries, quits, faults>>

\* The server ended before it answered: EOFError or BrokenPipeError.
AskLost(c) ==
  /\ pc[c] = "ask"
  /\ server[on[c]] \notin Listening
  /\ Retry(c)
  /\ UNCHANGED <<holders, orphans, sock, server, ready, quits, faults>>

\* No answer for 60 s: the cooker is starting or another client is served.
AskTimeout(c) ==
  /\ pc[c] = "ask"
  /\ \/ server[on[c]] = "init"
     \/ \E d \in Clients : pc[d] = "connected" /\ on[d] = on[c]
  /\ Fault
  /\ Retry(c)
  /\ UNCHANGED <<holders, orphans, sock, server, ready, quits>>

\* The lock came free within the 5 s: it is taken and given back.
WaitGot(c) ==
  /\ pc[c] = "waitLock"
  /\ LockFree
  /\ holders' = {c}
  /\ GoTo(c, "gotLock")
  /\ UNCHANGED <<orphans, sock, server, ready, on, tries, quits, faults>>

\* mutant: the lock is not given back before the next try.
GiveBackNot(c) ==
  /\ pc[c] = "gotLock"
  /\ Retry(c)
  /\ UNCHANGED <<holders, orphans, sock, server, ready, quits, faults>>

\* unlockfile, and on to the next try.
GiveBack(c) ==
  /\ pc[c] = "gotLock"
  /\ holders' = holders \ {c}
  /\ Retry(c)
  /\ UNCHANGED <<orphans, sock, server, ready, quits, faults>>

\* The 5 s are over: the holder is a server that came up, or a slow one.
WaitTimeout(c) ==
  /\ pc[c] = "waitLock"
  /\ ~LockFree
  /\ FiveSeconds
  /\ Retry(c)
  /\ UNCHANGED <<holders, orphans, sock, server, ready, quits>>

Leave(c) ==
  /\ pc[c] = "connected"
  /\ GoTo(c, "done")
  /\ on' = [on EXCEPT ![c] = None]
  /\ UNCHANGED <<holders, orphans, sock, server, ready, tries, quits, faults>>

\* The session ends with its server.
Lost(c) ==
  /\ pc[c] = "connected"
  /\ server[on[c]] = "none"
  /\ GoTo(c, "done")
  /\ on' = [on EXCEPT ![c] = None]
  /\ UNCHANGED <<holders, orphans, sock, server, ready, tries, quits, faults>>

-----------------------------------------------------------------------------
(* The server: execServer and the end of ProcessServer.main.               *)

\* mutant: the old socket is not removed, and bind() raises.
BindOnly(s) ==
  /\ server[s] = "forked"
  /\ IF sock = None
       THEN sock' = s /\ Become(s, "init") /\ UNCHANGED holders
       ELSE sock' = sock /\ Become(s, "none") /\ holders' = holders \ {s}
  /\ UNCHANGED <<orphans, ready, clientVars, quits, faults>>

\* An old socket is removed, the server's own is bound and listened on.
Bind(s) ==
  /\ server[s] = "forked"
  /\ sock' = s
  /\ Become(s, "init")
  /\ UNCHANGED <<holders, orphans, ready, clientVars, quits, faults>>

CookerUp(s) ==
  /\ server[s] = "init"
  /\ ready' = ready \union {s}
  /\ Become(s, "serving")
  /\ UNCHANGED <<holders, orphans, sock, clientVars, quits, faults>>

\* BBCooker raises: the process ends and its socket stays.
CookerFails(s) ==
  /\ server[s] = "init"
  /\ Fault
  /\ Become(s, "none")
  /\ holders' = holders \ {s}
  /\ UNCHANGED <<orphans, sock, ready, clientVars, quits>>

\* mutant: the lock is let go before the socket is removed.
QuitUnlocks(s) ==
  /\ server[s] = "serving"
  /\ \A c \in Clients : ~(pc[c] = "connected" /\ on[c] = s)
  /\ quits < MaxQuits
  /\ quits' = quits + 1
  /\ Become(s, "quit")
  /\ holders' = holders \ {s}
  /\ UNCHANGED <<orphans, sock, ready, clientVars, faults>>

\* No client, and none wanted any longer.
Quit(s) ==
  /\ server[s] = "serving"
  /\ \A c \in Clients : ~(pc[c] = "connected" /\ on[c] = s)
  /\ quits < MaxQuits
  /\ quits' = quits + 1
  /\ Become(s, "quit")
  /\ UNCHANGED <<holders, orphans, sock, ready, clientVars, faults>>

\* os.stat: is the name still that of the server's own socket?
StatSocket(s) ==
  /\ server[s] = "quit"
  /\ Become(s, IF sock = s THEN "unlink" ELSE "close")
  /\ UNCHANGED <<holders, orphans, sock, ready, clientVars, quits, faults>>

\* os.unlink takes away whatever has the name now.
UnlinkSocket(s) ==
  /\ server[s] = "unlink"
  /\ sock' = None
  /\ Become(s, "close")
  /\ UNCHANGED <<holders, orphans, ready, clientVars, quits, faults>>

CloseSocket(s) ==
  /\ server[s] = "close"
  /\ Become(s, "post")
  /\ UNCHANGED <<holders, orphans, sock, ready, clientVars, quits, faults>>

\* cooker.post_serve
PostServe(s) ==
  /\ server[s] = "post"
  /\ Become(s, "release")
  /\ UNCHANGED <<holders, orphans, sock, ready, clientVars, quits, faults>>

\* lock.close()
Release(s) ==
  /\ server[s] = "release"
  /\ holders' = holders \ {s}
  /\ Become(s, "relock")
  /\ UNCHANGED <<orphans, sock, ready, clientVars, quits, faults>>

\* The lock file is locked once more, to remove it ...
Relock(s) ==
  /\ server[s] = "relock"
  /\ LockFree
  /\ holders' = {s}
  /\ Become(s, "unlock")
  /\ UNCHANGED <<orphans, sock, ready, clientVars, quits, faults>>

\* ... or somebody has it: the look at its contents raises TypeError.
RelockBusy(s) ==
  /\ server[s] = "relock"
  /\ ~LockFree
  /\ Become(s, "none")
  /\ UNCHANGED <<holders, orphans, sock, ready, clientVars, quits, faults>>

Unlock(s) ==
  /\ server[s] = "unlock"
  /\ holders' = holders \ {s}
  /\ Become(s, "none")
  /\ UNCHANGED <<orphans, sock, ready, clientVars, quits, faults>>

\* A server is killed.  A child may live on with the lock's file open.
Kill(s) ==
  /\ server[s] \in Alive
  /\ Fault
  /\ Become(s, "none")
  /\ holders' = holders \ {s}
  /\ orphans' \in {orphans, orphans \union {s}}
  /\ UNCHANGED <<sock, ready, clientVars, quits>>

ChildExits(s) ==
  /\ s \in orphans
  /\ orphans' = orphans \ {s}
  /\ UNCHANGED <<holders, sock, server, ready, clientVars, quits, faults>>

-----------------------------------------------------------------------------
ClientStep(c) ==
  \/ TryLock(c) \/ TryBusy(c) \/ Fork(c) \/ ReadReady(c) \/ StartFailed(c)
  \/ StartTimeout(c) \/ Connect(c) \/ Answer(c) \/ AskLost(c) \/ AskTimeout(c)
  \/ WaitGot(c) \/ GiveBack(c) \/ WaitTimeout(c) \/ Wake(c) \/ Again(c)
  \/ Leave(c) \/ Lost(c)

\* What a server does without being asked to stop.
ServerStep(s) ==
  \/ Bind(s) \/ CookerUp(s) \/ CookerFails(s)
  \/ StatSocket(s) \/ UnlinkSocket(s) \/ CloseSocket(s) \/ PostServe(s)
  \/ Release(s) \/ Relock(s) \/ RelockBusy(s) \/ Unlock(s)

Next ==
  \/ \E c \in Clients : Start(c) \/ ClientStep(c)
  \/ \E s \in Servers : ServerStep(s) \/ Quit(s) \/ Kill(s) \/ ChildExits(s)

Spec == Init /\ [][Next]_vars

\* Processes go on, a session ends, what a dead server left running ends,
\* and a client that again and again finds the lock free does take it once.
Fairness ==
  /\ \A c \in Clients : WF_vars(ClientStep(c)) /\ SF_vars(TryLock(c))
  /\ \A s \in Servers : WF_vars(ServerStep(s)) /\ WF_vars(ChildExits(s))

FairSpec == Spec /\ Fairness

-----------------------------------------------------------------------------
(* What must hold.                                                         *)

\* The socket of a server that is up is the one clients find, whatever older
\* server is still on its way out, and there is one such server at a time.
SocketKept ==
  \A s \in Servers : server[s] \in {"init", "serving"} => sock = s

\* A server that has not let go of the lock has the build directory to
\* itself: no second one is forked meanwhile.
OneServer ==
  \A s, t \in Servers : server[s] \in Alive /\ server[t] \in Alive => s = t

\* One server, and under its name.
ServerInv == TypeOK /\ SocketKept /\ OneServer

\* The tries are enough, however many clients race for the lock and for the new
\* server: with up to two servers that stop in order meanwhile, a client gives up
\* only after a kill, a failed start or an overlong wait.
GivesUpForAReason ==
  \A c \in Clients : pc[c] = "failed" => faults > 0 \/ quits > 2

\* Who runs bitbake, again if need be, gets to a server, whatever sockets
\* and children dead servers left and whatever other clients do.
EventuallyConnected ==
  \A c \in Clients : pc[c] = "try" ~> pc[c] = "connected"
=============================================================================
