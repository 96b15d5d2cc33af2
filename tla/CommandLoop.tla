----------------------------- MODULE CommandLoop -----------------------------
(***************************************************************************)
(* The two threads of the BitBake server and the user interfaces that      *)
(* connect to it (bitbake/lib/bb/server/process.py, command.py and the     *)
(* state of cooker.py).                                                    *)
(*                                                                         *)
(* The main thread serves one client at a time and answers its commands.   *)
(* A command that takes long is only noted there, as currentAsyncCommand   *)
(* and an idle function; the idle thread runs it while the main thread     *)
(* goes on taking commands, stop requests above all.  The lock             *)
(* _idlefuncsLock covers the idle functions and currentAsyncCommand;       *)
(* cooker.state and the interrupt flag are written by both threads         *)
(* without it.                                                             *)
(*                                                                         *)
(* An action is a section under the lock, or what a thread does between    *)
(* two places where the other can see or change what it works with.        *)
(***************************************************************************)
EXTENDS Integers, Sequences, FiniteSets

CONSTANTS
  Clients,       \* bound: user interfaces 1, 2, ... , each connects once
  Commands,      \* bound: kinds of asynchronous command sent
  None,          \* no client, no command
  MaxCommands,   \* bound: asynchronous commands accepted
  MaxStops,      \* bound: stop requests of one client
  HandlersFail   \* an event handler of the metadata may raise on an end event

ASSUME CommandAssumption ==
  /\ Clients \subseteq Nat /\ Commands \subseteq {"find", "graph", "build"}
  /\ MaxCommands \in Nat \ {0} /\ MaxStops \in Nat
  /\ HandlersFail \in BOOLEAN
  /\ None \notin Clients /\ None \notin [id : 1..MaxCommands, kind : Commands]
  /\ None \notin Commands \cup {"stateShutdown", "stateForceShutdown",
                               "setFeatures", "terminateServer"}

Ids == 1..MaxCommands

\* findConfigFiles and its like end in their method and need no cache,
\* generateDotGraph and its like need it, buildTargets needs it and leaves an
\* idle function that ends later.
NeedCache == {"graph", "build"}

Stops == {"stateShutdown", "stateForceShutdown"}
Stopped == {"shutdown", "force"}   \* State.SHUTDOWN, State.FORCE_SHUTDOWN

VARIABLES
  client,      \* each user interface's own view
  backlog,     \* connections waiting in the listening socket
  newconnections, \* connections accepted while another client was served
  controllersock, \* the client whose connection is served
  ui,          \* the client whose channels and event handler are attached
  request,     \* the command in its command channel, None if there is none
  asked,       \* stop requests it sent
  main,        \* place of the main thread
  idle,        \* [at, fn, id, inside]: place of the idle thread, function it
               \* runs, command that is for, whether inside its method
  quit,
  idlefuns,
  async,       \* currentAsyncCommand: [id, kind] or None
  state,       \* cooker.state
  shouldExit,  \* bb.event._should_exit
  parser,      \* cooker.parser: none, live, cut (shut down), error, done
  parsecache,  \* parsecache_valid
  accepted,    \* asynchronous commands accepted so far
  before,      \* of these, accepted for earlier clients
  due,         \* accepted for the attached client, end event not yet there
  builder,     \* the command that registered the build
  stop,        \* the strongest stop answered under the current command
  failing,     \* an event handler raised
  unanswered   \* the attached client's command never gets its reply

clientVars == <<client, backlog>>
served == <<newconnections, controllersock, ui, asked>>
cooker == <<state, shouldExit, parser, parsecache>>
ghosts == <<before, due, builder, stop, failing, unanswered>>
vars == <<clientVars, served, request, main, idle, quit, idlefuns, async, cooker, accepted, ghosts>>

Init ==
  /\ client = [c \in Clients |-> "out"] /\ backlog = {}
  /\ newconnections = <<>> /\ controllersock = None /\ ui = None
  /\ request = None /\ asked = 0
  /\ main = "select" /\ quit = FALSE /\ idlefuns = {} /\ async = None
  /\ idle = [at |-> "pass", fn |-> "none", id |-> 0, inside |-> FALSE]
  /\ state = "initial" /\ shouldExit = FALSE /\ parser = "none" /\ parsecache = FALSE
  /\ accepted = 0 /\ before = 0 /\ due = {} /\ builder = 0 /\ stop = "no"
  /\ failing = FALSE /\ unanswered = FALSE

\* The command the idle thread works for; when it was lost (see FireFails),
\* whoever waits for the last one takes the end event for that.
CurrentId == IF async = None THEN accepted ELSE async.id

-----------------------------------------------------------------------------
(* The clients.                                                            *)

\* connectProcessServer(): the connection, the three file descriptors and
\* the first command go out without waiting for the server, unless the
\* client ends in between.  Clients are alike, so they come in their order.
Connect(c) ==
  /\ client[c] = "out" /\ main # "gone"
  /\ \A d \in Clients : d < c => client[d] # "out"
  /\ \E how \in {"calling", "dropped"} : client' = [client EXCEPT ![c] = how]
  /\ backlog' = backlog \cup {c}
  /\ UNCHANGED <<served, request, main, idle, quit, idlefuns, async, cooker, accepted, ghosts>>

\* ServerCommunicator.runCommand(): one command at a time.  Stop requests
\* come from the keyboard, whatever the server is at; terminateServer is sent
\* by bitbake --kill-server, which does nothing else.
Send(c, what) ==
  /\ client[c] = "ready" /\ ui = c
  /\ what \in Stops => asked < MaxStops
  /\ what \in Commands => accepted < MaxCommands
  /\ what = "terminateServer" => asked = 0 /\ accepted = before
  /\ client' = [client EXCEPT ![c] = "calling"]
  /\ request' = what
  /\ asked' = asked + (IF what \in Stops THEN 1 ELSE 0)
  /\ UNCHANGED <<backlog, newconnections, controllersock, ui, main, idle, quit,
                 idlefuns, async, cooker, accepted, ghosts>>

\* The user interface ends, is killed, or gives up waiting for a reply.
Close(c) ==
  /\ client[c] \in {"ready", "calling"}
  /\ client' = [client EXCEPT ![c] = "closed"]
  /\ UNCHANGED <<backlog, served, request, main, idle, quit, idlefuns, async, cooker,
                 accepted, ghosts>>

\* The command is taken and the reply reaches the client, if it is there.
Reply ==
  /\ request' = None
  /\ client' = [client EXCEPT ![ui] = IF @ = "calling" THEN "ready" ELSE @]

-----------------------------------------------------------------------------
(* ProcessServer.main().                                                   *)

Selecting == main = "select" /\ ~quit

Accept(c) ==
  /\ Selecting /\ c \in backlog
  /\ backlog' = backlog \ {c}
  /\ IF controllersock = None
     THEN controllersock' = c /\ UNCHANGED newconnections
     ELSE newconnections' = Append(newconnections, c) /\ UNCHANGED controllersock
  /\ UNCHANGED <<client, ui, asked, request, main, idle, quit, idlefuns, async, cooker,
                 accepted, ghosts>>

Attach ==
  /\ Selecting /\ controllersock # None /\ ui = None
  /\ client[controllersock] # "dropped"
  /\ ui' = controllersock
  /\ request' = "setFeatures" /\ before' = accepted
  /\ UNCHANGED <<clientVars, newconnections, controllersock, asked, main, idle, quit,
                 idlefuns, async, cooker, accepted, due, builder, stop, failing, unanswered>>

\* The end of disconnect_client(): the connection that came last is next.
NextClient ==
  IF newconnections # <<>> /\ ~quit'
  THEN /\ controllersock' = newconnections[Len(newconnections)]
       /\ newconnections' = SubSeq(newconnections, 1, Len(newconnections) - 1)
  ELSE controllersock' = None /\ UNCHANGED newconnections

\* With nobody waiting, a server without BB_SERVER_TIMEOUT quits.
MayBeLast == {FALSE, newconnections = <<>> /\ backlog = {}}

\* disconnect_client(), before a client was attached.
DropClient ==
  /\ Selecting /\ controllersock # None /\ ui = None
  /\ client[controllersock] = "dropped"
  /\ quit' \in MayBeLast
  /\ NextClient
  /\ UNCHANGED <<clientVars, ui, asked, request, main, idle, idlefuns, async, cooker, accepted, ghosts>>

\* disconnect_client(), first part.  The connection is looked at before the
\* command channel: a command in that is lost.
Disconnect ==
  /\ Selecting /\ ui # None /\ client[ui] = "closed"
  /\ controllersock' = None /\ main' = "waitidle"
  /\ request' = None
  /\ UNCHANGED <<clientVars, newconnections, ui, asked, idle, quit, idlefuns,
                 async, cooker, accepted, ghosts>>

IdleCheck == idlefuns = {} /\ async = None

\* parser.shutdown(clean=False): it does nothing a second time.
CutParser == parser' = IF parser = "live" THEN "cut" ELSE parser

\* Mutant of FinishCommand: the state is left.
FinishCommandKeepsState == UNCHANGED state /\ shouldExit' = FALSE /\ CutParser

\* BBCooker.finishcommand()
FinishCommand == state' = "initial" /\ shouldExit' = FALSE /\ CutParser

\* The rest of disconnect_client(), with BBCooker.clientComplete() ...
Detach ==
  /\ main = "waitidle" /\ main' = "select"
  /\ ui' = None /\ asked' = 0 /\ due' = {} /\ unanswered' = FALSE
  /\ FinishCommand /\ parsecache' = FALSE
  /\ NextClient
  /\ UNCHANGED <<clientVars, request, idle, idlefuns, async, accepted, before,
                 builder, stop, failing>>

\* ... when the idle functions and the command are gone or 30 s are over.
ClientComplete == IdleCheck /\ (\E last \in MayBeLast : quit' = (quit \/ last)) /\ Detach

\* Mutant of NotIdleIn30s: the wait has no limit.
NotIdleEver == FALSE /\ Detach

NotIdleIn30s == ~IdleCheck /\ quit' = TRUE /\ Detach

\* Without a user interface for BB_SERVER_TIMEOUT, or for 30 s from the start
\* where that is not set.
ServerTimeout ==
  /\ Selecting /\ ui = None
  /\ quit' = TRUE
  /\ UNCHANGED <<clientVars, served, request, main, idle, idlefuns, async, cooker, accepted, ghosts>>

IdleThreadDied ==
  /\ Selecting /\ idle.at = "dead"
  /\ quit' = TRUE
  /\ UNCHANGED <<clientVars, served, request, main, idle, idlefuns, async, cooker, accepted, ghosts>>

\* idle.join(), then the socket is closed, post_serve() fires CookerExit and
\* the clients find their connections closed.
Exit ==
  /\ main = "select" /\ quit /\ idle.at = "dead"
  /\ main' = "gone"
  /\ client' = [c \in Clients |-> "closed"]
  /\ state' = "force" /\ shouldExit' = TRUE /\ CutParser
  /\ UNCHANGED <<backlog, served, request, idle, quit, idlefuns, async, parsecache, accepted, ghosts>>

\* A synchronous command that only reads, setFeatures of a new client.
SyncCommand ==
  /\ Selecting /\ ui # None /\ request = "setFeatures"
  /\ Reply
  /\ UNCHANGED <<backlog, served, main, idle, quit, idlefuns, async, cooker, accepted, ghosts>>

\* BBCooker.shutdown(), first the state ...
ShutdownState ==
  /\ Selecting /\ ui # None /\ request \in Stops
  /\ main' = "shutdown"
  /\ state' = IF request = "stateForceShutdown" THEN "force" ELSE "shutdown"
  /\ UNCHANGED <<clientVars, served, request, idle, quit, idlefuns, async, shouldExit, parser, parsecache,
                 accepted, ghosts>>

\* Mutant of ShutdownRest: a forced stop only sets the state.
ShutdownRestNoFlag ==
  /\ main = "shutdown"
  /\ main' = "select"
  /\ CutParser
  /\ Reply
  /\ stop' = IF request = "stateForceShutdown" THEN "force"
             ELSE IF stop = "no" THEN "stop" ELSE stop
  /\ UNCHANGED <<backlog, served, idle, quit, idlefuns, async, state, shouldExit, parsecache,
                 accepted, before, due, builder, failing, unanswered>>

\* ... then the flag and the parser.
ShutdownRest ==
  /\ main = "shutdown"
  /\ main' = "select"
  /\ shouldExit' = (shouldExit \/ request = "stateForceShutdown")
  /\ CutParser
  /\ Reply
  /\ stop' = IF request = "stateForceShutdown" THEN "force"
             ELSE IF stop = "no" THEN "stop" ELSE stop
  /\ UNCHANGED <<backlog, served, idle, quit, idlefuns, async, state, parsecache, accepted,
                 before, due, builder, failing, unanswered>>

TerminateServer ==
  /\ Selecting /\ ui # None /\ request = "terminateServer"
  /\ request' = None /\ quit' = TRUE
  /\ UNCHANGED <<clientVars, served, main, idle, idlefuns, async, cooker, accepted, ghosts>>

AsyncCommand ==
  /\ Selecting /\ ui # None /\ request \in Commands
  /\ main' = "setasync"
  /\ UNCHANGED <<clientVars, served, request, idle, quit, idlefuns, async, cooker, accepted, ghosts>>

\* Mutant of SetAsync: it does not wait for the command before.
SetAsyncAtOnce ==
  /\ main = "setasync"
  /\ async' = [id |-> accepted + 1, kind |-> request]
  /\ idlefuns' = idlefuns \cup {"runAsyncCommand"}
  /\ accepted' = accepted + 1
  /\ main' = "select"
  /\ Reply
  /\ due' = due \cup {accepted + 1} /\ stop' = "no"
  /\ UNCHANGED <<backlog, served, idle, quit, cooker, before, builder, failing, unanswered>>

\* set_async_cmd(), when the command before has ended, and the idle function.
SetAsync ==
  /\ main = "setasync" /\ IdleCheck
  /\ async' = [id |-> accepted + 1, kind |-> request]
  /\ idlefuns' = idlefuns \cup {"runAsyncCommand"}
  /\ accepted' = accepted + 1
  /\ main' = "select"
  /\ Reply
  /\ due' = due \cup {accepted + 1} /\ stop' = "no"
  /\ UNCHANGED <<backlog, served, idle, quit, cooker, before, builder, failing, unanswered>>

NotFreeIn30s ==
  /\ main = "setasync" /\ ~IdleCheck
  /\ main' = "busy"
  /\ UNCHANGED <<clientVars, served, request, idle, quit, idlefuns, async, cooker, accepted, ghosts>>

\* The reply names the command in progress.  When that ended meanwhile there
\* is none: the TypeError is logged by main() and no reply is sent.
Busy ==
  /\ main = "busy" /\ main' = "select"
  /\ IF async = None
     THEN request' = None /\ unanswered' = TRUE /\ UNCHANGED client
     ELSE Reply /\ UNCHANGED unanswered
  /\ UNCHANGED <<backlog, served, idle, quit, idlefuns, async, cooker, accepted, before, due,
                 builder, stop, failing>>

MainThread ==
  \/ \E c \in Clients : Accept(c)
  \/ Attach \/ DropClient \/ Disconnect \/ ClientComplete
  \/ IdleThreadDied \/ Exit
  \/ SyncCommand \/ ShutdownState \/ ShutdownRest \/ TerminateServer
  \/ AsyncCommand \/ SetAsync \/ Busy

-----------------------------------------------------------------------------
(* idle_thread_internal(), runAsyncCommand() and buildTargetsIdle().       *)

IdleGo(place) == idle' = [idle EXCEPT !.at = place]

IdleOnly == UNCHANGED <<clientVars, served, request, main, accepted>>

\* One pass: while not self.quit, the functions registered at this moment.
Calls(fn) == idle.at = "pass" /\ ~quit /\ fn \in idlefuns

\* What the thread works on until its next pass.
Doing(place, fn, id, inside) == idle' = [at |-> place, fn |-> fn, id |-> id, inside |-> inside]

NextPass == Doing("pass", "none", 0, FALSE)

IdleQuits ==
  /\ idle.at = "pass" /\ quit
  /\ IdleGo("dead")
  /\ IdleOnly /\ UNCHANGED <<quit, idlefuns, async, cooker, ghosts>>

\* runAsyncCommand(): in an error state the command ends without a run.
RunRefused ==
  /\ Calls("runAsyncCommand") /\ state \in Stopped
  /\ CutParser /\ Doing("remove", "runAsyncCommand", CurrentId, FALSE)
  /\ IdleOnly /\ UNCHANGED <<quit, idlefuns, async, state, shouldExit, parsecache, ghosts>>

\* "Nothing to do, no async command?"
RunNothing ==
  /\ Calls("runAsyncCommand") /\ state \notin Stopped /\ async = None
  /\ Doing("remove", "runAsyncCommand", CurrentId, FALSE)
  /\ IdleOnly /\ UNCHANGED <<quit, idlefuns, async, cooker, ghosts>>

Runs == Calls("runAsyncCommand") /\ state \notin Stopped /\ async # None

\* updateCache(): the state is good, the configuration is parsed and a parser
\* started, which takes a while ...
NewCache ==
  /\ Runs /\ async.kind \in NeedCache /\ state # "running"
  /\ Doing("configure", "runAsyncCommand", async.id, FALSE)
  /\ IdleOnly /\ UNCHANGED <<quit, idlefuns, async, cooker, ghosts>>

Configure ==
  /\ idle.at = "configure"
  /\ IF state # "parsing" /\ ~parsecache
     THEN parser' = "live" /\ parsecache' = TRUE
     ELSE UNCHANGED <<parser, parsecache>>
  /\ IdleGo("parse")
  /\ IdleOnly /\ UNCHANGED <<quit, idlefuns, async, state, shouldExit, ghosts>>

\* ... then the state is set, whatever it has become, and parse_next() takes
\* a recipe more, finds the end, or fails.  A parser that was shut down has
\* lost recipes, unless it had them all.
ParseMore ==
  /\ idle.at = "parse" /\ parser = "live"
  /\ state' = "parsing" /\ NextPass
  /\ IdleOnly /\ UNCHANGED <<quit, idlefuns, async, shouldExit, parser, parsecache, ghosts>>

ParseDone ==
  /\ idle.at = "parse" /\ parser \in {"live", "cut", "done"}
  /\ state' = "parsing" /\ parser' = "done" /\ IdleGo("parsed")
  /\ IdleOnly /\ UNCHANGED <<quit, idlefuns, async, shouldExit, parsecache, ghosts>>

ParseError ==
  /\ idle.at = "parse" /\ parser \in {"live", "cut", "error"}
  /\ state' = "parsing" /\ parser' = "error" /\ IdleGo("remove")
  /\ IdleOnly /\ UNCHANGED <<quit, idlefuns, async, shouldExit, parsecache, ghosts>>

SetRunning ==
  /\ idle.at = "parsed"
  /\ state' = "running" /\ NextPass
  /\ IdleOnly /\ UNCHANGED <<quit, idlefuns, async, shouldExit, parser, parsecache, ghosts>>

\* The command's method.  buildTargets registers its idle function, the
\* others call finishAsyncCommand() at their end; any may raise before.
Method == Runs /\ (async.kind \in NeedCache => state = "running")

MethodBuilds ==
  /\ Method /\ async.kind = "build"
  /\ idlefuns' = idlefuns \cup {"build"} /\ builder' = async.id
  /\ Doing("drop", "runAsyncCommand", async.id, FALSE)
  /\ IdleOnly /\ UNCHANGED <<quit, async, cooker, before, due, stop, failing, unanswered>>

MethodFinishes ==
  /\ Method /\ async.kind # "build"
  /\ Doing("finish", "runAsyncCommand", async.id, TRUE)
  /\ IdleOnly /\ UNCHANGED <<quit, idlefuns, async, cooker, ghosts>>

MethodRaises ==
  /\ Method
  /\ Doing("remove", "runAsyncCommand", async.id, FALSE)
  /\ IdleOnly /\ UNCHANGED <<quit, idlefuns, async, cooker, ghosts>>

\* buildTargetsIdle(): the state is read ...
BuildLooks ==
  /\ Calls("build")
  /\ Doing(CASE state = "force" -> "forced" [] state = "shutdown" -> "finishing"
             [] OTHER -> "going", "build", builder, FALSE)
  /\ shouldExit' = (shouldExit \/ state = "force")
  /\ IdleOnly /\ UNCHANGED <<quit, idlefuns, async, state, parser, parsecache, ghosts>>

\* ... and execute_runqueue() makes a step: tasks are started or waited for
\* and the build stays, or it has ended.  Told to finish it starts none.
\* The look at the flag and the rest of the pass are one step: a task started
\* by a pass that was past the look when the flag was set is no different
\* from one started just before, and the next pass ends both.
BuildGoesOn ==
  /\ idle.at \in {"going", "finishing"} /\ ~shouldExit
  /\ NextPass
  /\ IdleOnly /\ UNCHANGED <<quit, idlefuns, async, cooker, ghosts>>

BuildEnds ==
  /\ idle.at \in {"going", "finishing"} /\ ~shouldExit
  /\ IdleGo("remove")
  /\ IdleOnly /\ UNCHANGED <<quit, idlefuns, async, cooker, ghosts>>

\* With the flag set check_for_interrupts() raises what buildTargetsIdle()
\* does not catch; so may anything that goes wrong in it.  The idle thread
\* removes the function and ends the server.
BuildBreaks ==
  /\ idle.at \in {"going", "finishing", "forced"}
  /\ idlefuns' = idlefuns \ {"build"} /\ quit' = TRUE
  /\ NextPass
  /\ IdleOnly /\ UNCHANGED <<async, cooker, ghosts>>

\* idleFinish: the function is removed under the lock ...
Remove ==
  /\ idle.at = "remove"
  /\ idlefuns' = idlefuns \ {idle.fn}
  /\ idle' = [idle EXCEPT !.at = "finish", !.inside = FALSE]
  /\ IdleOnly /\ UNCHANGED <<quit, async, cooker, ghosts>>

\* ... and finishAsyncCommand() resets the cooker, clears the command under
\* the lock and fires the event.
FinishAsync ==
  /\ idle.at = "finish"
  /\ FinishCommand /\ IdleGo("clear")
  /\ IdleOnly /\ UNCHANGED <<quit, idlefuns, async, parsecache, ghosts>>

ClearAsync ==
  /\ idle.at = "clear"
  /\ async' = None /\ IdleGo("fire")
  /\ IdleOnly /\ UNCHANGED <<quit, idlefuns, cooker, ghosts>>

Fire ==
  /\ idle.at = "fire"
  /\ due' = due \ {idle.id}
  /\ IF idle.inside THEN IdleGo("drop") ELSE NextPass
  /\ IdleOnly /\ UNCHANGED <<quit, idlefuns, async, cooker, before, builder, stop, failing,
                             unanswered>>

\* A handler of the metadata raises before the event reaches the client.
\* Inside a method runAsyncCommand() catches it and ends the command again;
\* outside, the function is removed a second time: the KeyError ends the
\* thread, unless the next command has registered the function meanwhile.
FireFailsInside ==
  /\ HandlersFail /\ idle.at = "fire" /\ idle.inside
  /\ failing' = TRUE
  /\ IdleGo("remove")
  /\ IdleOnly /\ UNCHANGED <<quit, idlefuns, async, cooker, before, due, builder, stop, unanswered>>

FireFails ==
  /\ HandlersFail /\ idle.at = "fire" /\ ~idle.inside
  /\ failing' = TRUE
  /\ idlefuns' = idlefuns \ {idle.fn}
  /\ quit' = (quit \/ idle.fn \in idlefuns)
  /\ IF idle.fn \in idlefuns THEN NextPass ELSE IdleGo("dead")
  /\ IdleOnly /\ UNCHANGED <<async, cooker, before, due, builder, stop, unanswered>>

\* Mutant of Drop: a command that ended in its method is ended again.
DropFinishes ==
  /\ idle.at = "drop"
  /\ IdleGo("remove")
  /\ IdleOnly /\ UNCHANGED <<quit, idlefuns, async, cooker, ghosts>>

\* The function returned False.
Drop ==
  /\ idle.at = "drop"
  /\ idlefuns' = idlefuns \ {idle.fn}
  /\ NextPass
  /\ IdleOnly /\ UNCHANGED <<quit, async, cooker, ghosts>>

IdleThread ==
  \/ IdleQuits \/ RunRefused \/ RunNothing
  \/ NewCache \/ Configure \/ ParseMore \/ ParseDone \/ ParseError \/ SetRunning
  \/ MethodBuilds \/ MethodFinishes \/ MethodRaises
  \/ BuildLooks \/ BuildGoesOn \/ BuildEnds \/ BuildBreaks
  \/ Remove \/ FinishAsync \/ ClearAsync \/ Fire \/ FireFailsInside \/ FireFails \/ Drop

-----------------------------------------------------------------------------

Next ==
  \/ \E c \in Clients :
       \/ Connect(c) \/ Close(c)
       \/ \E what \in Commands \cup Stops \cup {"terminateServer"} : Send(c, what)
  \/ MainThread \/ NotIdleIn30s \/ NotFreeIn30s \/ ServerTimeout
  \/ IdleThread

\* The threads go on and a wait of 30 s ends; a parse has so many recipes, a
\* build so many tasks.  Clients may stay for ever.
Fairness ==
  /\ WF_vars(MainThread) /\ WF_vars(IdleThread)
  /\ WF_vars(NotIdleIn30s) /\ WF_vars(NotFreeIn30s)
  /\ SF_vars(ParseDone \/ ParseError) /\ SF_vars(BuildEnds \/ BuildBreaks)

Spec == Init /\ [][Next]_vars /\ Fairness

-----------------------------------------------------------------------------
(* Properties.                                                             *)

\* Types of the state.
TypeOK ==
  /\ client \in [Clients -> {"out", "calling", "ready", "dropped", "closed"}]
  /\ backlog \subseteq Clients /\ newconnections \in Seq(Clients)
  /\ {controllersock, ui} \subseteq Clients \cup {None}
  /\ request \in Commands \cup Stops \cup {"setFeatures", "terminateServer", None}
  /\ asked \in 0..MaxStops
  /\ {quit, shouldExit, parsecache, failing, unanswered} \subseteq BOOLEAN
  /\ main \in {"select", "waitidle", "shutdown", "setasync", "busy", "gone"}
  /\ idlefuns \subseteq {"runAsyncCommand", "build"}
  /\ async \in [id : Ids, kind : Commands] \cup {None}
  /\ state \in {"initial", "parsing", "running"} \cup Stopped
  /\ parser \in {"none", "live", "cut", "error", "done"}
  /\ {accepted, before, builder} \subseteq 0..MaxCommands /\ due \subseteq Ids
  /\ stop \in {"no", "stop", "force"}

\* A build that is registered is the current command's: no command is
\* accepted over it, and nothing ends its command while it goes on.
BuildOwned == "build" \in idlefuns => async # None /\ async.id = builder

\* The two threads agree on what they share.
CommandInv == TypeOK /\ BuildOwned

\* A client gets one end event (CommandCompleted, CommandFailed, CommandExit)
\* for a command, whether that ended in its method, by idleFinish, after an
\* event handler raised or by another command's end.
EndsOnce == Fire /\ ui # None /\ idle.id > before => idle.id \in due

\* currentAsyncCommand is cleared only by the end of the command it holds: no
\* accepted command is lost.  The exception is again a handler that raised.
OwnClear == async # None /\ async' = None => failing \/ idle.id = async.id

\* Each accepted command has one end and it is its own.
OneEndEach == [][EndsOnce /\ OwnClear]_vars

\* A client starts on a clean cooker: no idle function, command, stop or cache
\* is left of the client before.  It would be refused its setFeatures
\* otherwise ("Illegal state for feature set change").  No command is just
\* being ended, but for its event, unless that is the second end of one whose
\* event handler raised in finishAsyncCommand().
CleanStart ==
  ui = None /\ ui' # None =>
    /\ IdleCheck /\ state = "initial" /\ ~shouldExit /\ ~parsecache
    /\ idle.at \in {"pass", "fire", "dead"} \/ failing

\* A command is refused as "Cooker in error state" only to a client that has
\* asked for a stop itself.
RefusedForAReason == RunRefused => asked > 0

\* A client meets nothing of the client before it.
ClientsApart == [][CleanStart /\ RefusedForAReason]_vars

\* After a forced stop was answered the command's build makes no further
\* step, though updateCache() may have overwritten the state meanwhile: the
\* flag is what counts.  The step under way when disconnect_client() gives up
\* waiting, and resets the flag, is the last one all the same.
ForceKept == [][BuildGoesOn /\ stop = "force" => quit]_vars

\* After a stop was answered the command's build starts no task.
StopIsKept == [][BuildLooks /\ idle'.at = "going" => stop = "no"]_vars

\* The client hears of the end of its command, or the server ends.
CommandEnds == due # {} ~> due = {} \/ quit

\* A command is answered, but for the one that timed out as busy in the
\* moment the command before ended (see Busy).
Waiting == ui # None /\ client[ui] = "calling"
Answered == Waiting ~> ~Waiting \/ unanswered \/ main = "gone"

\* A server told to end, by a client, a timeout or a broken idle thread, does.
ServerEnds == quit ~> main = "gone"

\* Nobody waits for ever: for the end of a command, for an answer, for the server.
NobodyHangs == CommandEnds /\ Answered /\ ServerEnds
=============================================================================
