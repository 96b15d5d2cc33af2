-------------------------- MODULE CommandLoopProofs --------------------------
(***************************************************************************)
(* Proofs about CommandLoop, for any clients, commands and numbers of      *)
(* both, with event handlers that raise and without: whatever the two      *)
(* threads do, a build is the current command's, a command ends once, a    *)
(* client starts on a clean cooker and a forced stop is not forgotten.     *)
(*                                                                         *)
(* The invariant has a part for each thread and for each thing they share. *)
(* MainInv says what the main thread knows at each of its waits.  WorkInv  *)
(* says, for each place of the idle thread, which idle functions and which *)
(* current command it may find there; it is what a command that is ended a *)
(* second time, after an event handler raised, makes hard.  OwedInv,       *)
(* ForceInv and CleanInv carry the end events, the interrupt flag and the  *)
(* state left to the next client.                                          *)
(***************************************************************************)
EXTENDS CommandLoop, TLAPS

Run == "runAsyncCommand"

\* The places of the idle thread, those inside a parse and inside a build.
Places == {"pass", "configure", "parse", "parsed", "remove", "finish", "clear",
           "fire", "drop", "going", "finishing", "forced", "dead"}
Parsing == {"configure", "parse", "parsed"}
Building == {"going", "finishing", "forced"}

\* The type of the idle thread's record.
IdleOK ==
  idle \in [at : Places, fn : {"none", Run, "build"}, id : 0 .. MaxCommands,
            inside : BOOLEAN]

\* TypeOK, in the parts the two threads write and the flags.
ClientTypes ==
  /\ client \in [Clients -> {"out", "calling", "ready", "dropped", "closed"}]
  /\ backlog \subseteq Clients /\ newconnections \in Seq(Clients)
  /\ controllersock \in Clients \cup {None} /\ ui \in Clients \cup {None}
  /\ request \in Commands \cup Stops \cup {"setFeatures", "terminateServer", None}
  /\ asked \in 0..MaxStops
  /\ main \in {"select", "waitidle", "shutdown", "setasync", "busy", "gone"}

TaskTypes ==
  /\ IdleOK
  /\ idlefuns \subseteq {Run, "build"}
  /\ async \in [id : Ids, kind : Commands] \cup {None}
  /\ accepted \in 0..MaxCommands /\ before \in 0..MaxCommands
  /\ builder \in 0..MaxCommands /\ due \subseteq Ids

FlagTypes ==
  /\ quit \in BOOLEAN /\ shouldExit \in BOOLEAN /\ parsecache \in BOOLEAN
  /\ failing \in BOOLEAN /\ unanswered \in BOOLEAN
  /\ state \in {"initial", "parsing", "running"} \cup Stopped
  /\ parser \in {"none", "live", "cut", "error", "done"}
  /\ stop \in {"no", "stop", "force"}

TypeInv == ClientTypes /\ TaskTypes /\ FlagTypes

\* What the main thread knows: which client and request it serves at each of
\* its waits, and that nobody's state is a stop but that of one who asked.
MainInv ==
  /\ main = "waitidle" => ui # None /\ client[ui] = "closed" /\ request = None
  /\ main = "shutdown" => ui # None /\ request \in Stops
  /\ main \in {"setasync", "busy"} => ui # None /\ request \in Commands
  /\ main = "gone" => quit
  /\ request # None => ui # None
  /\ \A c \in Clients : client[c] = "ready" => ui = c /\ request = None
  /\ request \in Commands => accepted < MaxCommands
  /\ request \in Stops => asked > 0
  /\ state \in Stopped => asked > 0 \/ main = "gone"
  /\ before <= accepted

\* The current command has registered the build.
Registered == async # None /\ builder = accepted

\* What the idle thread finds at each of its places.
WorkInv ==
  /\ async # None => async.id = accepted
  /\ idle.id <= accepted
  /\ idle.at \in Parsing =>
       /\ idlefuns = {Run} /\ async # None
       /\ idle.fn = Run /\ ~idle.inside /\ idle.id = accepted
  /\ idle.at \in Building =>
       /\ idlefuns = {"build"} /\ Registered
       /\ idle.fn = "build" /\ ~idle.inside /\ idle.id = accepted
  /\ idle.at = "remove" =>
       /\ idle.fn # "none" /\ idlefuns = {idle.fn} /\ idle.id = accepted
       /\ async = None => failing
       /\ idle.fn = "build" => Registered
  /\ idle.at \in {"finish", "clear"} =>
       /\ idle.fn # "none"
       /\ \/ /\ idle.inside /\ idle.fn = Run /\ idle.id = accepted
             /\ idlefuns = {Run} /\ async # None
          \/ ~idle.inside /\ idlefuns = {} /\ async # None /\ idle.id = accepted
          \/ ~idle.inside /\ failing /\ idlefuns = {} /\ async = None
          \/ /\ ~idle.inside /\ failing /\ idle.id < accepted
             /\ idlefuns = {Run} /\ async # None
  /\ idle.at = "fire" =>
       /\ idle.fn # "none"
       /\ \/ /\ idle.inside /\ idle.fn = Run /\ idle.id = accepted
             /\ idlefuns = {Run} /\ async = None
          \/ ~idle.inside /\ idlefuns = {} /\ async = None
          \/ /\ ~idle.inside /\ idlefuns = {Run} /\ idle.id < accepted
             /\ async = None => failing
  /\ idle.at = "drop" =>
       /\ idle.fn = Run
       /\ \/ idlefuns = {Run} /\ async = None
          \/ idlefuns = {Run, "build"} /\ Registered
  /\ idle.at = "pass" =>
       \/ idlefuns = {} /\ async = None
       \/ idlefuns = {Run} /\ (async = None => failing)
       \/ idlefuns = {"build"} /\ Registered
       \/ quit /\ "build" \notin idlefuns
  /\ idle.at = "dead" =>
       \/ quit /\ idlefuns = {"build"} /\ Registered
       \/ "build" \notin idlefuns /\ (quit \/ failing)

\* The attached client still waits for the end event of its command i.
Owed(i) == ui # None /\ i > before => i \in due

\* Whoever may still end a command finds its end event owed.
OwedInv ==
  /\ async # None \/ (Run \in idlefuns /\ idle.at # "drop") => Owed(accepted)
  /\ idle.at \notin {"pass", "drop", "dead"} => Owed(idle.id)

\* The interrupt flag of a forced stop is set as long as there is a command.
ForceInv == stop = "force" /\ ~quit => shouldExit \/ async = None \/ idle.at = "clear"

\* Between two clients nothing runs and nothing is left of the first.
CleanInv ==
  ui = None /\ ~quit =>
    /\ IdleCheck /\ state = "initial" /\ ~shouldExit /\ ~parsecache
    /\ idle.at \in {"finish", "clear"} => failing

\* The inductive invariant.
IInv == TypeInv /\ MainInv /\ WorkInv /\ OwedInv /\ ForceInv /\ CleanInv

-----------------------------------------------------------------------------

\* The parts are TypeOK.
LEMMA TypeParts == TypeInv => TypeOK
<1> SUFFICES ASSUME TypeInv PROVE TypeOK
  OBVIOUS
<1>1. {controllersock, ui} \subseteq Clients \cup {None}
  BY DEF TypeInv, ClientTypes
<1>2. {quit, shouldExit, parsecache, failing, unanswered} \subseteq BOOLEAN
  BY DEF TypeInv, FlagTypes
<1>3. {accepted, before, builder} \subseteq 0..MaxCommands
  BY DEF TypeInv, TaskTypes
<1> QED  BY <1>1, <1>2, <1>3 DEF TypeOK, TypeInv, ClientTypes, TaskTypes, FlagTypes,
      Run

\* Init has the types.
LEMMA TypeInit == Init => TypeInv
<1> SUFFICES ASSUME Init PROVE TypeInv
  OBVIOUS
<1>1. ClientTypes
  BY CommandAssumption DEF Init, ClientTypes
<1>2. TaskTypes
  BY CommandAssumption DEF Init, TaskTypes, IdleOK, Places
<1>3. FlagTypes
  BY DEF Init, FlagTypes
<1> QED  BY <1>1, <1>2, <1>3 DEF TypeInv

\* The last element of a sequence, and what is left without it.
LEMMA LastTaken ==
  ASSUME NEW S, NEW s \in Seq(S), s # <<>>
  PROVE  s[Len(s)] \in S /\ SubSeq(s, 1, Len(s) - 1) \in Seq(S)
<1>1. Len(s) \in Nat /\ Len(s) # 0
  OBVIOUS
<1>2. Len(s) \in 1 .. Len(s)
  BY <1>1
<1>3. s[Len(s)] \in S
  BY <1>2
<1>4. \A i \in 1 .. Len(s) - 1 : i \in 1 .. Len(s) /\ s[i] \in S
  BY <1>1
<1>5. SubSeq(s, 1, Len(s) - 1) = [i \in 1 .. (Len(s) - 1) |-> s[i]]
  BY <1>1
<1>6. SubSeq(s, 1, Len(s) - 1) \in Seq(S)
  BY <1>1, <1>4
<1> QED  BY <1>3, <1>6

\* NextClient takes a client, or none, and leaves clients.
LEMMA NextClientTypes ==
  ASSUME ClientTypes, NextClient
  PROVE  newconnections' \in Seq(Clients) /\ controllersock' \in Clients \cup {None}
<1>1. newconnections # <<>> =>
        /\ newconnections[Len(newconnections)] \in Clients
        /\ SubSeq(newconnections, 1, Len(newconnections) - 1) \in Seq(Clients)
  BY LastTaken DEF ClientTypes
<1> QED  BY <1>1 DEF ClientTypes, NextClient

\* A step keeps the types of what clients and the main thread write.
LEMMA ClientTypesNext == ASSUME TypeInv, MainInv, Next PROVE ClientTypes'
<1> USE CommandAssumption DEF ClientTypes, clientVars, served, Stops, Selecting,
       Reply, MainInv
<1>0. ClientTypes
  BY DEF TypeInv
<1>1. ASSUME NEW c \in Clients, Connect(c) PROVE ClientTypes'
  BY <1>0, <1>1 DEF Connect
<1>2. ASSUME NEW c \in Clients, Close(c) PROVE ClientTypes'
  BY <1>0, <1>2 DEF Close
<1>3. ASSUME NEW c \in Clients, Accept(c) PROVE ClientTypes'
  <2>1. Append(newconnections, c) \in Seq(Clients)
    BY <1>0
  <2> QED  BY <1>0, <1>3, <2>1 DEF Accept
<1>4. ASSUME NEW c \in Clients, NEW what \in Commands \cup Stops \cup
            {"terminateServer"}, Send(c, what)
      PROVE ClientTypes'
  BY <1>0, <1>4 DEF Send
<1>5. CASE Attach  BY <1>0, <1>5 DEF Attach
<1>6. CASE DropClient  BY <1>0, <1>6, NextClientTypes DEF DropClient
<1>7. CASE Disconnect  BY <1>0, <1>7 DEF Disconnect
<1>8. CASE ClientComplete  BY <1>0, <1>8, NextClientTypes DEF ClientComplete, Detach
<1>9. CASE NotIdleIn30s  BY <1>0, <1>9, NextClientTypes DEF NotIdleIn30s, Detach
<1>10. CASE ServerTimeout  BY <1>0, <1>10 DEF ServerTimeout
<1>11. CASE IdleThreadDied  BY <1>0, <1>11 DEF IdleThreadDied
<1>12. CASE Exit  BY <1>0, <1>12 DEF Exit
<1>13. CASE SyncCommand  BY <1>0, <1>13 DEF SyncCommand
<1>14. CASE ShutdownState  BY <1>0, <1>14 DEF ShutdownState
<1>15. CASE ShutdownRest  BY <1>0, <1>15 DEF ShutdownRest
<1>16. CASE TerminateServer  BY <1>0, <1>16 DEF TerminateServer
<1>17. CASE AsyncCommand  BY <1>0, <1>17 DEF AsyncCommand
<1>18. CASE SetAsync  BY <1>0, <1>18 DEF SetAsync
<1>19. CASE NotFreeIn30s  BY <1>0, <1>19 DEF NotFreeIn30s
<1>20. CASE Busy  BY <1>0, <1>20 DEF Busy
<1>21. CASE IdleThread
  BY <1>0, <1>21 DEF IdleThread, IdleOnly, IdleQuits, RunRefused, RunNothing,
     NewCache, Configure, ParseMore, ParseDone, ParseError, SetRunning,
     MethodBuilds, MethodFinishes, MethodRaises, BuildLooks, BuildGoesOn, BuildEnds,
     BuildBreaks, Remove, FinishAsync, ClearAsync, Fire, FireFailsInside, FireFails,
     Drop
<1> QED
  BY <1>1, <1>2, <1>3, <1>4, <1>5, <1>6, <1>7, <1>8, <1>9, <1>10, <1>11, <1>12,
     <1>13, <1>14, <1>15, <1>16, <1>17, <1>18, <1>19, <1>20, <1>21 DEF Next,
     MainThread

\* What the main thread and the clients leave to the idle thread.
OtherThanIdle ==
  \/ \E c \in Clients :
       \/ Connect(c) \/ Close(c) \/ Accept(c)
       \/ \E what \in Commands \cup Stops \cup {"terminateServer"} : Send(c, what)
  \/ Attach \/ DropClient \/ Disconnect \/ ClientComplete \/ NotIdleIn30s \/
        ServerTimeout \/ IdleThreadDied \/ Exit \/ SyncCommand \/ ShutdownState \/
        ShutdownRest \/ TerminateServer \/ AsyncCommand \/ NotFreeIn30s \/ Busy

\* Only SetAsync, of the main thread, gives the idle thread work.
LEMMA MainFrame ==
  ASSUME OtherThanIdle
  PROVE  /\ UNCHANGED <<idle, idlefuns, async, accepted, builder, failing>>
         /\ before' \in {before, accepted} /\ due' \in {due, {}}
BY DEF OtherThanIdle, clientVars, served, cooker, ghosts, Connect, Close, Accept,
   Send, Detach, Attach, DropClient, Disconnect, ClientComplete, NotIdleIn30s,
   ServerTimeout, IdleThreadDied, Exit, SyncCommand, ShutdownState, ShutdownRest,
   TerminateServer, AsyncCommand, NotFreeIn30s, Busy

\* A step keeps the types of what the threads share.
LEMMA TaskTypesNext == ASSUME TypeInv, MainInv, WorkInv, Next PROVE TaskTypes'
<1> USE CommandAssumption DEF TaskTypes, IdleOK, Places, Run, Ids
<1>0. TaskTypes
  BY DEF TypeInv
<1>1. CASE OtherThanIdle  BY <1>0, <1>1, MainFrame
<1> USE DEF WorkInv, Registered, IdleOnly, IdleGo, Doing, NextPass, Calls,
       CurrentId, Runs, Method, clientVars, served, cooker, ghosts
<1>2. CASE SetAsync
  <2>1. request \in Commands /\ accepted + 1 \in Ids
    BY <1>0, <1>2 DEF SetAsync, MainInv
  <2>2. async' \in [id : Ids, kind : Commands]
    BY <1>2, <2>1 DEF SetAsync
  <2>3. UNCHANGED <<idle, before, builder>>
    BY <1>2 DEF SetAsync
  <2>4. /\ idlefuns' = idlefuns \cup {Run} /\ accepted' = accepted + 1
        /\ due' = due \cup {accepted + 1}
    BY <1>2 DEF SetAsync
  <2> QED  BY <1>0, <2>1, <2>2, <2>3, <2>4
<1>3. CASE IdleQuits  BY <1>0, <1>3 DEF IdleQuits
<1>4. CASE RunRefused  BY <1>0, <1>4 DEF RunRefused
<1>5. CASE RunNothing  BY <1>0, <1>5 DEF RunNothing
<1>6. CASE NewCache  BY <1>0, <1>6 DEF NewCache
<1>7. CASE Configure  BY <1>0, <1>7 DEF Configure
<1>8. CASE ParseMore  BY <1>0, <1>8 DEF ParseMore
<1>9. CASE ParseDone  BY <1>0, <1>9 DEF ParseDone
<1>10. CASE ParseError  BY <1>0, <1>10 DEF ParseError
<1>11. CASE SetRunning  BY <1>0, <1>11 DEF SetRunning
<1>12. CASE MethodBuilds  BY <1>0, <1>12 DEF MethodBuilds
<1>13. CASE MethodFinishes  BY <1>0, <1>13 DEF MethodFinishes
<1>14. CASE MethodRaises  BY <1>0, <1>14 DEF MethodRaises
<1>15. CASE BuildLooks  BY <1>0, <1>15 DEF BuildLooks
<1>16. CASE BuildGoesOn  BY <1>0, <1>16 DEF BuildGoesOn
<1>17. CASE BuildEnds  BY <1>0, <1>17 DEF BuildEnds
<1>18. CASE BuildBreaks  BY <1>0, <1>18 DEF BuildBreaks
<1>19. CASE Remove  BY <1>0, <1>19 DEF Remove
<1>20. CASE FinishAsync  BY <1>0, <1>20 DEF FinishAsync
<1>21. CASE ClearAsync  BY <1>0, <1>21 DEF ClearAsync
<1>22. CASE Fire
  <2>1. IdleOK'
    <3>1. \/ idle' = [idle EXCEPT !.at = "drop"]
          \/ idle' = [at |-> "pass", fn |-> "none", id |-> 0, inside |-> FALSE]
      BY <1>22 DEF Fire, IdleGo, NextPass, Doing
    <3>2. CASE idle' = [idle EXCEPT !.at = "drop"]  BY <1>0, <3>2
    <3>3. CASE idle' = [at |-> "pass", fn |-> "none", id |-> 0, inside |-> FALSE]
      BY <1>0, <3>3
    <3> QED  BY <3>1, <3>2, <3>3
  <2> QED  BY <1>0, <1>22, <2>1 DEF Fire, IdleOnly
<1>23. CASE FireFailsInside  BY <1>0, <1>23 DEF FireFailsInside
<1>24. CASE FireFails
  <2>1. IdleOK'
    <3>1. \/ idle' = [idle EXCEPT !.at = "dead"]
          \/ idle' = [at |-> "pass", fn |-> "none", id |-> 0, inside |-> FALSE]
      BY <1>24 DEF FireFails, IdleGo, NextPass, Doing
    <3>2. CASE idle' = [idle EXCEPT !.at = "dead"]  BY <1>0, <3>2
    <3>3. CASE idle' = [at |-> "pass", fn |-> "none", id |-> 0, inside |-> FALSE]
      BY <1>0, <3>3
    <3> QED  BY <3>1, <3>2, <3>3
  <2> QED  BY <1>0, <1>24, <2>1 DEF FireFails, IdleOnly
<1>25. CASE Drop  BY <1>0, <1>25 DEF Drop
<1> QED
  BY <1>1, <1>2, <1>3, <1>4, <1>5, <1>6, <1>7, <1>8, <1>9, <1>10, <1>11, <1>12,
     <1>13, <1>14, <1>15, <1>16, <1>17, <1>18, <1>19, <1>20, <1>21, <1>22, <1>23,
     <1>24, <1>25 DEF Next, MainThread, IdleThread, OtherThanIdle

\* A step keeps the types of the flags.
LEMMA FlagTypesNext == ASSUME TypeInv, Next PROVE FlagTypes'
<1> USE DEF FlagTypes, Stopped, CutParser, FinishCommand, clientVars, served,
       cooker, ghosts, Detach
<1>0. FlagTypes
  BY DEF TypeInv
<1>1. ASSUME NEW c \in Clients, Connect(c) \/ Close(c) \/ Accept(c) PROVE FlagTypes'
  BY <1>0, <1>1 DEF Connect, Close, Accept
<1>2. ASSUME NEW c \in Clients, NEW what \in Commands \cup Stops \cup
            {"terminateServer"}, Send(c, what)
      PROVE FlagTypes'
  BY <1>0, <1>2 DEF Send
<1>3. MayBeLast \subseteq BOOLEAN
  BY DEF MayBeLast
<1>4. CASE Attach  BY <1>0, <1>4 DEF Attach
<1>5. CASE DropClient  BY <1>0, <1>3, <1>5 DEF DropClient
<1>6. CASE Disconnect  BY <1>0, <1>6 DEF Disconnect
<1>7. CASE ClientComplete  BY <1>0, <1>3, <1>7 DEF ClientComplete
<1>8. CASE NotIdleIn30s  BY <1>0, <1>3, <1>8 DEF NotIdleIn30s
<1>9. CASE ServerTimeout  BY <1>0, <1>9 DEF ServerTimeout
<1>10. CASE IdleThreadDied  BY <1>0, <1>10 DEF IdleThreadDied
<1>11. CASE Exit  BY <1>0, <1>11 DEF Exit
<1>12. CASE SyncCommand  BY <1>0, <1>12 DEF SyncCommand
<1>13. CASE ShutdownState  BY <1>0, <1>13 DEF ShutdownState
<1>14. CASE ShutdownRest  BY <1>0, <1>14 DEF ShutdownRest
<1>15. CASE TerminateServer  BY <1>0, <1>15 DEF TerminateServer
<1>16. CASE AsyncCommand  BY <1>0, <1>16 DEF AsyncCommand
<1>17. CASE SetAsync  BY <1>0, <1>17 DEF SetAsync
<1>18. CASE NotFreeIn30s  BY <1>0, <1>18 DEF NotFreeIn30s
<1>19. CASE Busy
  <2>1. unanswered' \in BOOLEAN
    BY <1>0, <1>19 DEF Busy
  <2>2. UNCHANGED <<quit, shouldExit, parsecache, failing, state, parser, stop>>
    BY <1>19 DEF Busy
  <2> QED  BY <1>0, <2>1, <2>2
<1>20. CASE IdleQuits  BY <1>0, <1>20 DEF IdleQuits
<1>21. CASE RunRefused  BY <1>0, <1>21 DEF RunRefused
<1>22. CASE RunNothing  BY <1>0, <1>22 DEF RunNothing
<1>23. CASE NewCache  BY <1>0, <1>23 DEF NewCache
<1>24. CASE Configure
  <2>1. parser' \in {parser, "live"}
    BY <1>24 DEF Configure
  <2>2. parsecache' \in BOOLEAN
    BY <1>0, <1>24 DEF Configure
  <2>3. UNCHANGED <<quit, shouldExit, failing, unanswered, state, stop>>
    BY <1>24 DEF Configure
  <2> QED  BY <1>0, <2>1, <2>2, <2>3
<1>25. CASE ParseMore  BY <1>0, <1>25 DEF ParseMore
<1>26. CASE ParseDone  BY <1>0, <1>26 DEF ParseDone
<1>27. CASE ParseError  BY <1>0, <1>27 DEF ParseError
<1>28. CASE SetRunning  BY <1>0, <1>28 DEF SetRunning
<1>29. CASE MethodBuilds  BY <1>0, <1>29 DEF MethodBuilds
<1>30. CASE MethodFinishes  BY <1>0, <1>30 DEF MethodFinishes
<1>31. CASE MethodRaises  BY <1>0, <1>31 DEF MethodRaises
<1>32. CASE BuildLooks  BY <1>0, <1>32 DEF BuildLooks
<1>33. CASE BuildGoesOn  BY <1>0, <1>33 DEF BuildGoesOn
<1>34. CASE BuildEnds  BY <1>0, <1>34 DEF BuildEnds
<1>35. CASE BuildBreaks  BY <1>0, <1>35 DEF BuildBreaks
<1>36. CASE Remove  BY <1>0, <1>36 DEF Remove
<1>37. CASE FinishAsync  BY <1>0, <1>37 DEF FinishAsync
<1>38. CASE ClearAsync  BY <1>0, <1>38 DEF ClearAsync
<1>39. CASE Fire  BY <1>0, <1>39 DEF Fire
<1>40. CASE FireFailsInside  BY <1>0, <1>40 DEF FireFailsInside
<1>41. CASE FireFails  BY <1>0, <1>41 DEF FireFails
<1>42. CASE Drop  BY <1>0, <1>42 DEF Drop
<1> QED
  BY <1>1, <1>2, <1>3, <1>4, <1>5, <1>6, <1>7, <1>8, <1>9, <1>10, <1>11, <1>12,
     <1>13, <1>14, <1>15, <1>16, <1>17, <1>18, <1>19, <1>20, <1>21, <1>22, <1>23,
     <1>24, <1>25, <1>26, <1>27, <1>28, <1>29, <1>30, <1>31, <1>32, <1>33, <1>34,
     <1>35, <1>36, <1>37, <1>38, <1>39, <1>40, <1>41, <1>42 DEF Next, MainThread,
     IdleThread

\* What the idle thread leaves to the main thread.
LEMMA IdleFrame ==
  ASSUME IdleThread
  PROVE  /\ UNCHANGED <<client, backlog, newconnections, controllersock, ui, asked,
                        request, main, accepted, before>>
         /\ state' = state \/ state' \in {"initial", "parsing", "running"}
BY DEF IdleThread, IdleOnly, FinishCommand, clientVars, served, cooker, ghosts,
   IdleQuits, RunRefused, RunNothing, NewCache, Configure, ParseMore, ParseDone,
   ParseError, SetRunning, MethodBuilds, MethodFinishes, MethodRaises, BuildLooks,
   BuildGoesOn, BuildEnds, BuildBreaks, Remove, FinishAsync, ClearAsync, Fire,
   FireFailsInside, FireFails, Drop

\* A server told to end stays told.
LEMMA QuitStays ==
  ASSUME FlagTypes, quit, Next
  PROVE  quit'
BY DEF FlagTypes, Next, MainThread, IdleThread, IdleOnly, FinishCommand, clientVars,
   served, cooker, ghosts, Connect, Close, Send, Accept, Attach, DropClient,
   Disconnect, ClientComplete, NotIdleIn30s, ServerTimeout, IdleThreadDied, Exit,
   SyncCommand, ShutdownState, ShutdownRest, TerminateServer, AsyncCommand,
   SetAsync, NotFreeIn30s, Busy, Selecting, IdleQuits, RunRefused, RunNothing,
   NewCache, Configure, ParseMore, ParseDone, ParseError, SetRunning, MethodBuilds,
   MethodFinishes, MethodRaises, BuildLooks, BuildGoesOn, BuildEnds, BuildBreaks,
   Remove, FinishAsync, ClearAsync, Fire, FireFailsInside, FireFails, Drop

\* A step keeps what the main thread knows.
LEMMA MainInvNext == ASSUME TypeInv, MainInv, Next PROVE MainInv'
<1> USE CommandAssumption
    DEF MainInv, Stops, Stopped, clientVars, served, cooker, ghosts, Detach,
          FinishCommand, Reply, Selecting, ClientTypes
<1>0. /\ MainInv /\ ClientTypes /\ FlagTypes
      /\ accepted \in 0..MaxCommands /\ before \in 0..MaxCommands
  BY DEF TypeInv, TaskTypes
<1>1. ASSUME NEW c \in Clients, Connect(c) PROVE MainInv'
  BY <1>0, <1>1 DEF Connect, ClientTypes, Selecting
<1>2. ASSUME NEW c \in Clients, Close(c) PROVE MainInv'
  BY <1>0, <1>2 DEF Close, ClientTypes, Selecting
<1>3. ASSUME NEW c \in Clients, Accept(c) PROVE MainInv'
  BY <1>0, <1>3 DEF Accept, ClientTypes, Selecting
<1>4. ASSUME NEW c \in Clients, NEW what \in Commands \cup Stops \cup
            {"terminateServer"}, Send(c, what)
      PROVE MainInv'
  BY <1>0, <1>4 DEF Send, ClientTypes
<1>5. CASE Attach  BY <1>0, <1>5 DEF Attach
<1>6. CASE DropClient  BY <1>0, <1>6 DEF DropClient
<1>7. CASE Disconnect  BY <1>0, <1>7 DEF Disconnect
<1>8. CASE ClientComplete  BY <1>0, <1>8 DEF ClientComplete
<1>9. CASE NotIdleIn30s  BY <1>0, <1>9 DEF NotIdleIn30s
<1>10. CASE ServerTimeout  BY <1>0, <1>10 DEF ServerTimeout
<1>11. CASE IdleThreadDied  BY <1>0, <1>11 DEF IdleThreadDied
<1>12. CASE Exit  BY <1>0, <1>12 DEF Exit
<1>13. CASE SyncCommand  BY <1>0, <1>13 DEF SyncCommand
<1>14. CASE ShutdownState  BY <1>0, <1>14 DEF ShutdownState
<1>15. CASE ShutdownRest  BY <1>0, <1>15 DEF ShutdownRest
<1>16. CASE TerminateServer  BY <1>0, <1>16 DEF TerminateServer
<1>17. CASE AsyncCommand  BY <1>0, <1>17 DEF AsyncCommand
<1>18. CASE SetAsync  BY <1>0, <1>18 DEF SetAsync
<1>19. CASE NotFreeIn30s  BY <1>0, <1>19 DEF NotFreeIn30s
<1>20. CASE Busy  BY <1>0, <1>20 DEF Busy
<1>21. CASE IdleThread  BY <1>0, <1>21, IdleFrame, QuitStays
<1> QED
  BY <1>1, <1>2, <1>3, <1>4, <1>5, <1>6, <1>7, <1>8, <1>9, <1>10, <1>11, <1>12,
     <1>13, <1>14, <1>15, <1>16, <1>17, <1>18, <1>19, <1>20, <1>21 DEF Next,
     MainThread

\* A step keeps what the idle thread finds.
LEMMA WorkInvNext == ASSUME TypeInv, MainInv, WorkInv, Next PROVE WorkInv'
<1> USE CommandAssumption DEF WorkInv, Registered, Run, Parsing, Building,
       IdleOnly, IdleGo,
       Doing, NextPass, Calls, CurrentId, Runs, Method, TaskTypes, IdleOK, Places,
       ghosts
<1>0. WorkInv /\ TaskTypes /\ FlagTypes /\ IdleOK
  BY DEF TypeInv, TaskTypes
<1>1. CASE OtherThanIdle  BY <1>0, <1>1, MainFrame, QuitStays
<1>2. CASE SetAsync
  <2>1. request \in Commands /\ accepted + 1 \in Ids /\ accepted \in Nat
    BY <1>0, <1>2 DEF SetAsync, MainInv, TaskTypes, Ids
  <2>2. async' \in [id : Ids, kind : Commands] /\ async'.id = accepted + 1
    BY <1>2, <2>1 DEF SetAsync
  <2>3. async' # None
    BY <2>2 DEF Ids
  <2>4. /\ idlefuns = {} /\ async = None /\ idlefuns' = {Run}
        /\ accepted' = accepted + 1
        /\ UNCHANGED <<idle, builder, failing, quit>>
    BY <1>2 DEF SetAsync, IdleCheck, ghosts
  <2>5. idle.id \in Nat
    BY <1>0 DEF IdleOK
  <2> QED  BY <1>0, <2>1, <2>2, <2>3, <2>4, <2>5
<1>3. CASE IdleQuits  BY <1>0, <1>3, QuitStays DEF IdleQuits
<1>4. CASE RunRefused  BY <1>0, <1>4, QuitStays DEF RunRefused
<1>5. CASE RunNothing  BY <1>0, <1>5, QuitStays DEF RunNothing
<1>6. CASE NewCache  BY <1>0, <1>6, QuitStays DEF NewCache
<1>7. CASE Configure  BY <1>0, <1>7, QuitStays DEF Configure
<1>8. CASE ParseMore  BY <1>0, <1>8, QuitStays DEF ParseMore
<1>9. CASE ParseDone  BY <1>0, <1>9, QuitStays DEF ParseDone
<1>10. CASE ParseError  BY <1>0, <1>10, QuitStays DEF ParseError
<1>11. CASE SetRunning  BY <1>0, <1>11, QuitStays DEF SetRunning
<1>12. CASE MethodBuilds  BY <1>0, <1>12, QuitStays DEF MethodBuilds
<1>13. CASE MethodFinishes  BY <1>0, <1>13, QuitStays DEF MethodFinishes
<1>14. CASE MethodRaises  BY <1>0, <1>14, QuitStays DEF MethodRaises
<1>15. CASE BuildLooks  BY <1>0, <1>15, QuitStays DEF BuildLooks
<1>16. CASE BuildGoesOn  BY <1>0, <1>16, QuitStays DEF BuildGoesOn
<1>17. CASE BuildEnds  BY <1>0, <1>17, QuitStays DEF BuildEnds
<1>18. CASE BuildBreaks  BY <1>0, <1>18, QuitStays DEF BuildBreaks
<1>19. CASE Remove  BY <1>0, <1>19, QuitStays DEF Remove
<1>20. CASE FinishAsync  BY <1>0, <1>20, QuitStays DEF FinishAsync
<1>21. CASE ClearAsync  BY <1>0, <1>21, QuitStays DEF ClearAsync
<1>22. CASE Fire  BY <1>0, <1>22, QuitStays DEF Fire
<1>23. CASE FireFailsInside  BY <1>0, <1>23, QuitStays DEF FireFailsInside
<1>24. CASE FireFails
  <2>1. /\ idlefuns \subseteq {Run} /\ failing' = TRUE
        /\ idlefuns' = idlefuns \ {idle.fn}
        /\ UNCHANGED <<async, accepted, builder>>
    BY <1>0, <1>24 DEF FireFails, IdleOnly, ghosts
  <2>2. CASE idle.fn \in idlefuns
    <3>0. NextPass /\ quit'
      BY <1>24, <2>2 DEF FireFails
    <3>1. idle'.at = "pass" /\ idle'.id = 0
      BY <3>0 DEF NextPass, Doing
    <3>2. "build" \notin idlefuns'
      BY <2>1
    <3>3. idle'.id <= accepted'
      BY <1>0, <2>1, <3>1 DEF TaskTypes
    <3>4. async' # None => async'.id = accepted'
      BY <1>0, <2>1
    <3> QED  BY <3>0, <3>1, <3>2, <3>3, <3>4
  <2>3. CASE idle.fn \notin idlefuns
    <3>1. idle'.at = "dead" /\ idle'.id = idle.id
      BY <1>0, <1>24, <2>3 DEF FireFails, IdleGo, IdleOK
    <3> QED  BY <1>0, <2>1, <3>1 DEF TaskTypes
  <2> QED  BY <2>2, <2>3
<1>25. CASE Drop  BY <1>0, <1>25, QuitStays DEF Drop
<1> QED
  BY <1>1, <1>2, <1>3, <1>4, <1>5, <1>6, <1>7, <1>8, <1>9, <1>10, <1>11, <1>12,
     <1>13, <1>14, <1>15, <1>16, <1>17, <1>18, <1>19, <1>20, <1>21, <1>22, <1>23,
     <1>24, <1>25 DEF Next, MainThread, IdleThread, OtherThanIdle

\* A step keeps every end event owed that somebody may still send.
LEMMA OwedInvNext == ASSUME TypeInv, MainInv, WorkInv, OwedInv, Next PROVE OwedInv'
<1> USE CommandAssumption DEF OwedInv, Owed, Run, WorkInv, Registered, Parsing,
       Building,
       IdleOnly, IdleGo, Doing, NextPass, Calls, CurrentId, Runs, Method, TaskTypes,
       IdleOK, Places, ghosts, served
<1>0. OwedInv /\ WorkInv /\ TaskTypes /\ IdleOK
  BY DEF TypeInv, TaskTypes
<1>1. CASE OtherThanIdle
  <2>1. UNCHANGED <<idle, idlefuns, async, accepted>>
    BY <1>1, MainFrame
  <2>2. \/ UNCHANGED <<ui, before, due>>
        \/ ui' = None
        \/ before' = accepted
    BY <1>1 DEF OtherThanIdle, clientVars, served, cooker, ghosts, Connect, Close,
       Accept, Send, Detach, Attach, DropClient, Disconnect, ClientComplete,
       NotIdleIn30s, ServerTimeout, IdleThreadDied, Exit, SyncCommand,
       ShutdownState, ShutdownRest, TerminateServer, AsyncCommand, NotFreeIn30s,
       Busy
  <2>3. idle.id <= accepted /\ idle.id \in Nat /\ accepted \in Nat
    BY <1>0 DEF WorkInv, TaskTypes, IdleOK
  <2> QED  BY <1>0, <2>1, <2>2, <2>3
<1>2. CASE SetAsync  BY <1>0, <1>2 DEF SetAsync, IdleCheck
<1>3. CASE IdleQuits  BY <1>0, <1>3 DEF IdleQuits
<1>4. CASE RunRefused  BY <1>0, <1>4 DEF RunRefused
<1>5. CASE RunNothing  BY <1>0, <1>5 DEF RunNothing
<1>6. CASE NewCache  BY <1>0, <1>6 DEF NewCache
<1>7. CASE Configure  BY <1>0, <1>7 DEF Configure
<1>8. CASE ParseMore  BY <1>0, <1>8 DEF ParseMore
<1>9. CASE ParseDone  BY <1>0, <1>9 DEF ParseDone
<1>10. CASE ParseError  BY <1>0, <1>10 DEF ParseError
<1>11. CASE SetRunning  BY <1>0, <1>11 DEF SetRunning
<1>12. CASE MethodBuilds  BY <1>0, <1>12 DEF MethodBuilds
<1>13. CASE MethodFinishes  BY <1>0, <1>13 DEF MethodFinishes
<1>14. CASE MethodRaises  BY <1>0, <1>14 DEF MethodRaises
<1>15. CASE BuildLooks  BY <1>0, <1>15 DEF BuildLooks
<1>16. CASE BuildGoesOn  BY <1>0, <1>16 DEF BuildGoesOn
<1>17. CASE BuildEnds  BY <1>0, <1>17 DEF BuildEnds
<1>18. CASE BuildBreaks  BY <1>0, <1>18 DEF BuildBreaks
<1>19. CASE Remove  BY <1>0, <1>19 DEF Remove
<1>20. CASE FinishAsync  BY <1>0, <1>20 DEF FinishAsync
<1>21. CASE ClearAsync  BY <1>0, <1>21 DEF ClearAsync
<1>22. CASE Fire  BY <1>0, <1>22 DEF Fire
<1>23. CASE FireFailsInside  BY <1>0, <1>23 DEF FireFailsInside
<1>24. CASE FireFails  BY <1>0, <1>24 DEF FireFails
<1>25. CASE Drop  BY <1>0, <1>25 DEF Drop
<1> QED
  BY <1>1, <1>2, <1>3, <1>4, <1>5, <1>6, <1>7, <1>8, <1>9, <1>10, <1>11, <1>12,
     <1>13, <1>14, <1>15, <1>16, <1>17, <1>18, <1>19, <1>20, <1>21, <1>22, <1>23,
     <1>24, <1>25 DEF Next, MainThread, IdleThread, OtherThanIdle

\* A step keeps the interrupt flag of a forced stop.
LEMMA ForceInvNext ==
  ASSUME TypeInv, MainInv, WorkInv, ForceInv, Next
  PROVE ForceInv'
<1> USE DEF ForceInv, WorkInv, Registered, FinishCommand, IdleOnly, IdleGo, Doing,
       NextPass,
       Calls, CurrentId, Runs, Method, IdleOK, ghosts, cooker, FlagTypes
<1>0. ForceInv /\ FlagTypes /\ IdleOK /\ WorkInv
  BY DEF TypeInv, TaskTypes
<1>1. CASE OtherThanIdle
  <2>1. UNCHANGED <<idle, async>>
    BY <1>1, MainFrame
  <2>2. CASE ShutdownRest
    <3>1. shouldExit' = (shouldExit \/ request = "stateForceShutdown")
          /\ quit' = quit
      BY <2>2 DEF ShutdownRest
    <3>2. stop' = "force" => stop = "force" \/ request = "stateForceShutdown"
      BY <2>2 DEF ShutdownRest
    <3> QED  BY <1>0, <2>1, <3>1, <3>2
  <2>3. CASE ~ShutdownRest
    <3>1. \/ UNCHANGED <<stop, shouldExit>>
          \/ shouldExit'
          \/ async = None
          \/ quit'
      BY <1>1, <2>3 DEF OtherThanIdle, clientVars, served, cooker, ghosts, Connect,
         Close, Accept, Send, Detach, IdleCheck, Attach, DropClient, Disconnect,
               ClientComplete, NotIdleIn30s, ServerTimeout, IdleThreadDied, Exit,
               SyncCommand, ShutdownState, TerminateServer, AsyncCommand,
               NotFreeIn30s, Busy
    <3> QED  BY <1>0, <2>1, <3>1, QuitStays
  <2> QED  BY <2>2, <2>3
<1>2. CASE SetAsync  BY <1>0, <1>2 DEF SetAsync
<1>3. CASE IdleQuits  BY <1>0, <1>3, QuitStays DEF IdleQuits
<1>4. CASE RunRefused  BY <1>0, <1>4, QuitStays DEF RunRefused
<1>5. CASE RunNothing  BY <1>0, <1>5, QuitStays DEF RunNothing
<1>6. CASE NewCache  BY <1>0, <1>6, QuitStays DEF NewCache
<1>7. CASE Configure  BY <1>0, <1>7, QuitStays DEF Configure
<1>8. CASE ParseMore  BY <1>0, <1>8, QuitStays DEF ParseMore
<1>9. CASE ParseDone  BY <1>0, <1>9, QuitStays DEF ParseDone
<1>10. CASE ParseError  BY <1>0, <1>10, QuitStays DEF ParseError
<1>11. CASE SetRunning  BY <1>0, <1>11, QuitStays DEF SetRunning
<1>12. CASE MethodBuilds  BY <1>0, <1>12, QuitStays DEF MethodBuilds
<1>13. CASE MethodFinishes  BY <1>0, <1>13, QuitStays DEF MethodFinishes
<1>14. CASE MethodRaises  BY <1>0, <1>14, QuitStays DEF MethodRaises
<1>15. CASE BuildLooks  BY <1>0, <1>15, QuitStays DEF BuildLooks
<1>16. CASE BuildGoesOn  BY <1>0, <1>16, QuitStays DEF BuildGoesOn
<1>17. CASE BuildEnds  BY <1>0, <1>17, QuitStays DEF BuildEnds
<1>18. CASE BuildBreaks  BY <1>0, <1>18, QuitStays DEF BuildBreaks
<1>19. CASE Remove  BY <1>0, <1>19, QuitStays DEF Remove
<1>20. CASE FinishAsync  BY <1>0, <1>20, QuitStays DEF FinishAsync
<1>21. CASE ClearAsync  BY <1>0, <1>21, QuitStays DEF ClearAsync
<1>22. CASE Fire  BY <1>0, <1>22, QuitStays DEF Fire
<1>23. CASE FireFailsInside  BY <1>0, <1>23, QuitStays DEF FireFailsInside
<1>24. CASE FireFails  BY <1>0, <1>24, QuitStays DEF FireFails
<1>25. CASE Drop  BY <1>0, <1>25, QuitStays DEF Drop
<1> QED
  BY <1>1, <1>2, <1>3, <1>4, <1>5, <1>6, <1>7, <1>8, <1>9, <1>10, <1>11, <1>12,
     <1>13, <1>14, <1>15, <1>16, <1>17, <1>18, <1>19, <1>20, <1>21, <1>22, <1>23,
     <1>24, <1>25 DEF Next, MainThread, IdleThread, OtherThanIdle

\* A step keeps the cooker clean between two clients.
LEMMA CleanInvNext ==
  ASSUME TypeInv, MainInv, WorkInv, CleanInv, Next
  PROVE CleanInv'
<1> USE CommandAssumption DEF CleanInv, IdleCheck, WorkInv, Registered, Parsing,
       Building,
       FinishCommand, IdleOnly, IdleGo, Doing, NextPass, Calls, CurrentId, Runs,
       Method, IdleOK, ghosts, served, cooker, FlagTypes
<1>0. CleanInv /\ FlagTypes /\ IdleOK /\ WorkInv /\ TaskTypes
  BY DEF TypeInv, TaskTypes
<1>1. CASE OtherThanIdle
  <2>1. UNCHANGED <<idle, async, idlefuns, failing>>
    BY <1>1, MainFrame
  <2>2. CASE ui' = None /\ ui # None
    <3>1. ClientComplete \/ NotIdleIn30s
      BY <1>1, <2>2 DEF OtherThanIdle, clientVars, served, cooker, ghosts, Connect,
         Close, Accept, Send, Selecting, Attach, DropClient, Disconnect,
         ClientComplete, NotIdleIn30s, ServerTimeout, IdleThreadDied, Exit,
         SyncCommand, ShutdownState, ShutdownRest, TerminateServer, AsyncCommand,
         NotFreeIn30s, Busy
    <3>2. ~quit' => IdleCheck
      BY <3>1 DEF ClientComplete, NotIdleIn30s
    <3>3. state' = "initial" /\ ~shouldExit' /\ ~parsecache'
      BY <3>1 DEF ClientComplete, NotIdleIn30s, Detach, FinishCommand
    <3>4. ~quit' /\ idle.at \in {"finish", "clear"} => failing
      BY <1>0, <3>2 DEF WorkInv
    <3> QED  BY <2>1, <3>2, <3>3, <3>4
  <2>3. CASE ui = None /\ ui' = None
    <3>1. quit' \/ UNCHANGED <<state, shouldExit, parsecache>>
      BY <1>0, <1>1, <2>3 DEF OtherThanIdle, clientVars, served, cooker, ghosts,
         Connect, Close, Accept, Send, Selecting, MainInv, Detach, FlagTypes,
         Attach, DropClient, Disconnect, ClientComplete, NotIdleIn30s,
         ServerTimeout, IdleThreadDied, Exit, SyncCommand, ShutdownState,
         ShutdownRest, TerminateServer, AsyncCommand, NotFreeIn30s, Busy
    <3> QED  BY <1>0, <2>1, <2>3, <3>1, QuitStays
  <2> QED  BY <2>2, <2>3
<1>2. CASE SetAsync  BY <1>0, <1>2 DEF SetAsync, MainInv
<1>3. CASE IdleQuits  BY <1>0, <1>3, QuitStays DEF IdleQuits
<1>4. CASE RunRefused  BY <1>0, <1>4, QuitStays DEF RunRefused
<1>5. CASE RunNothing  BY <1>0, <1>5, QuitStays DEF RunNothing
<1>6. CASE NewCache  BY <1>0, <1>6, QuitStays DEF NewCache
<1>7. CASE Configure  BY <1>0, <1>7, QuitStays DEF Configure
<1>8. CASE ParseMore  BY <1>0, <1>8, QuitStays DEF ParseMore
<1>9. CASE ParseDone  BY <1>0, <1>9, QuitStays DEF ParseDone
<1>10. CASE ParseError  BY <1>0, <1>10, QuitStays DEF ParseError
<1>11. CASE SetRunning  BY <1>0, <1>11, QuitStays DEF SetRunning
<1>12. CASE MethodBuilds  BY <1>0, <1>12, QuitStays DEF MethodBuilds
<1>13. CASE MethodFinishes  BY <1>0, <1>13, QuitStays DEF MethodFinishes
<1>14. CASE MethodRaises  BY <1>0, <1>14, QuitStays DEF MethodRaises
<1>15. CASE BuildLooks  BY <1>0, <1>15, QuitStays DEF BuildLooks
<1>16. CASE BuildGoesOn  BY <1>0, <1>16, QuitStays DEF BuildGoesOn
<1>17. CASE BuildEnds  BY <1>0, <1>17, QuitStays DEF BuildEnds
<1>18. CASE BuildBreaks  BY <1>0, <1>18, QuitStays DEF BuildBreaks
<1>19. CASE Remove  BY <1>0, <1>19, QuitStays DEF Remove
<1>20. CASE FinishAsync  BY <1>0, <1>20, QuitStays DEF FinishAsync
<1>21. CASE ClearAsync  BY <1>0, <1>21, QuitStays DEF ClearAsync
<1>22. CASE Fire  BY <1>0, <1>22, QuitStays DEF Fire
<1>23. CASE FireFailsInside  BY <1>0, <1>23, QuitStays DEF FireFailsInside
<1>24. CASE FireFails  BY <1>0, <1>24, QuitStays DEF FireFails
<1>25. CASE Drop  BY <1>0, <1>25, QuitStays DEF Drop
<1> QED
  BY <1>1, <1>2, <1>3, <1>4, <1>5, <1>6, <1>7, <1>8, <1>9, <1>10, <1>11, <1>12,
     <1>13, <1>14, <1>15, <1>16, <1>17, <1>18, <1>19, <1>20, <1>21, <1>22, <1>23,
     <1>24, <1>25 DEF Next, MainThread, IdleThread, OtherThanIdle

\* The invariant holds initially.
LEMMA InvInit == Init => IInv
<1> SUFFICES ASSUME Init PROVE IInv
  OBVIOUS
<1>1. TypeInv
  BY TypeInit
<1>2. MainInv
  BY CommandAssumption DEF Init, MainInv, Stops, Stopped
<1>3. WorkInv /\ OwedInv
  BY DEF Init, WorkInv, Registered, OwedInv, Owed, Parsing, Building, Run
<1>4. ForceInv /\ CleanInv
  BY DEF Init, ForceInv, CleanInv, IdleCheck
<1> QED  BY <1>1, <1>2, <1>3, <1>4 DEF IInv

\* Every step of the two threads and of the clients preserves it.
LEMMA InvNext == IInv /\ [Next]_vars => IInv'
<1>1. ASSUME IInv, Next PROVE IInv'
  BY <1>1, ClientTypesNext, TaskTypesNext, FlagTypesNext, MainInvNext, WorkInvNext,
     OwedInvNext, ForceInvNext, CleanInvNext DEF IInv, TypeInv
<1>2. ASSUME IInv, UNCHANGED vars PROVE IInv'
  <2> USE DEF vars, clientVars, served, cooker, ghosts
  <2>1. TypeInv'
    BY <1>2 DEF IInv, TypeInv, ClientTypes, TaskTypes, FlagTypes, IdleOK
  <2>2. MainInv' /\ WorkInv'
    BY <1>2 DEF IInv, MainInv, WorkInv, Registered
  <2>3. OwedInv' /\ ForceInv' /\ CleanInv'
    BY <1>2 DEF IInv, OwedInv, Owed, ForceInv, CleanInv, IdleCheck
  <2> QED  BY <2>1, <2>2, <2>3 DEF IInv
<1> QED  BY <1>1, <1>2

\* The invariant holds of the two threads at every step.
LEMMA InvHolds == Spec => []IInv
BY InvInit, InvNext, PTL DEF Spec

\* The types hold, and a build that is registered is always the current
\* command's: no command is accepted over it, nothing ends its command.
THEOREM ThreadsAgree == Spec => []CommandInv
<1>1. IInv => TypeOK
  BY TypeParts DEF IInv
<1>2. IInv => BuildOwned
  <2> SUFFICES ASSUME IInv, "build" \in idlefuns PROVE async # None /\ builder =
        accepted
    BY DEF IInv, WorkInv, Registered, BuildOwned
  <2> QED  BY DEF IInv, TypeInv, TaskTypes, IdleOK, Places, WorkInv, Registered,
           Parsing,
        Building, Run
<1> QED  BY <1>1, <1>2, InvHolds, PTL DEF CommandInv

\* A client gets one end event for a command, and a command is cleared by its
\* own end, whichever of the ways to end it comes first.
THEOREM EndedOnce == Spec => OneEndEach
<1>1. ASSUME IInv, Next PROVE EndsOnce
  BY <1>1 DEF EndsOnce, Fire, IInv, OwedInv, Owed
<1>2. ASSUME IInv, Next, async # None, async' = None
      PROVE  failing \/ idle.id = async.id
  <2>1. ~OtherThanIdle
    BY <1>2, MainFrame
  <2>2. ~SetAsync
    BY <1>2 DEF SetAsync, IdleCheck
  <2>3. ClearAsync
    BY <1>2, <2>1, <2>2 DEF Next, MainThread, IdleThread, OtherThanIdle, IdleQuits,
       RunRefused, RunNothing, NewCache, Configure, ParseMore, ParseDone,
       ParseError, SetRunning, MethodBuilds, MethodFinishes, MethodRaises,
       BuildLooks, BuildGoesOn, BuildEnds, BuildBreaks, Remove, FinishAsync,
       ClearAsync, Fire, FireFailsInside, FireFails, Drop
  <2> QED  BY <1>2, <2>3 DEF IInv, WorkInv, ClearAsync
<1>3. IInv /\ [Next]_vars => [EndsOnce /\ OwnClear]_vars
  BY <1>1, <1>2 DEF OwnClear
<1> QED  BY <1>3, InvHolds, PTL DEF Spec, OneEndEach

\* A client starts on a clean cooker, and is refused a command only if it has
\* asked for a stop itself.
THEOREM NothingLeftOver == Spec => ClientsApart
<1>1. ASSUME IInv, Next PROVE CleanStart
  <2> SUFFICES ASSUME ui = None, ui' # None
               PROVE  /\ IdleCheck /\ state = "initial" /\ ~shouldExit /\ ~parsecache
                      /\ idle.at \in {"pass", "fire", "dead"} \/ failing
    BY DEF CleanStart
  <2>1. Attach
    BY <1>1, IdleFrame DEF Next, MainThread, served, Connect, Close, Send, Accept,
       Detach, SetAsync, Attach, DropClient, Disconnect, ClientComplete,
       NotIdleIn30s, ServerTimeout, IdleThreadDied, Exit, SyncCommand,
       ShutdownState, ShutdownRest, TerminateServer, AsyncCommand, NotFreeIn30s,
       Busy
  <2>2. CleanInv /\ ~quit
    BY <1>1, <2>1 DEF IInv, Attach, Selecting
  <2>3. idle.at \in {"pass", "fire", "dead"} \/ failing
    BY <1>1, <2>2 DEF CleanInv, IdleCheck, IInv, TypeInv, TaskTypes, IdleOK, Places,
       WorkInv, Registered, Parsing, Building, Run
  <2> QED  BY <2>2, <2>3 DEF CleanInv
<1>2. ASSUME IInv, RunRefused PROVE asked > 0
  BY <1>2 DEF RunRefused, Calls, IInv, MainInv
<1>3. IInv /\ [Next]_vars => [CleanStart /\ RefusedForAReason]_vars
  BY <1>1, <1>2 DEF RefusedForAReason
<1> QED  BY <1>3, InvHolds, PTL DEF Spec, ClientsApart

\* After a forced stop was answered the command's build makes no further step.
THEOREM ForcedStopIsKept == Spec => ForceKept
<1>1. ASSUME IInv, BuildGoesOn, stop = "force" PROVE quit
  BY <1>1 DEF IInv, ForceInv, WorkInv, Registered, Building, BuildGoesOn
<1>2. IInv /\ [Next]_vars => [BuildGoesOn /\ stop = "force" => quit]_vars
  BY <1>1
<1> QED  BY <1>2, InvHolds, PTL DEF Spec, ForceKept

=============================================================================
