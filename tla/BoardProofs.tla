----------------------------- MODULE BoardProofs -----------------------------
(***************************************************************************)
(* Proofs about what runs on the board beside the video pipeline, each for *)
(* all of its constants:                                                   *)
(*   - UsbGadget: for any number of runs of the script, any start limit,   *)
(*     and daemons that may be killed or not, at most one daemon gets its  *)
(*     descriptors accepted and serves;                                    *)
(*   - RootfsResize: for media of every size, and whatever step the power  *)
(*     fails at, the file system fits its partition and the marker is      *)
(*     there only if nothing is left to grow;                              *)
(*   - VtxTrigger: for any number of presses and lines typed, the stream   *)
(*     is toggled only on request, and main forgets no request it can see. *)
(* The three share no state.                                               *)
(***************************************************************************)
EXTENDS UsbGadget, RootfsResize, VtxTrigger, FiniteSetTheorems, TLAPS

(* UsbGadget                                                               *)

\* The daemon has written its descriptors and has not ended.
Holds(d) == pc[d] \in {"strings", "bind", "serve"}

\* Who runs the script, and for which run there is a daemon.
RunsInv ==
  /\ unit = "boot" => runs = 0 /\ script = "idle"
  /\ unit = "stopping" => runs < MaxRuns /\ script = "idle"
  /\ script # "idle" => runs >= 1 /\ unit \in {"starting", "active"}
  /\ \A d \in Daemon : pc[d] # "none" => d < runs \/ (d = runs /\ script = "idle")

\* A daemon that holds the instance keeps it from forgetting the descriptors.
InstanceInv ==
  /\ \A d \in Daemon : d \in opened <=> pc[d] = "descs" \/ Holds(d)
  /\ \A d \in Daemon : Holds(d) => ffs \in {"strings", "active"}
  /\ \A d \in Daemon : pc[d] \in {"bind", "serve"} => ffs = "active"
  /\ \A d, e \in Daemon : Holds(d) /\ Holds(e) => d = e

GadgetIInv == TypeOK /\ RunsInv /\ InstanceInv

\* vtx is none of the daemons.
LEMMA ClientApart == Client \notin Daemon
  BY DEF Client, Daemon

\* The initial states satisfy the invariant.
LEMMA InvInit == Init => GadgetIInv
<1> SUFFICES ASSUME Init PROVE GadgetIInv
  OBVIOUS
<1>1. \A d \in Daemon : pc[d] = "none"
  BY DEF Init
<1>2. TypeOK
  <2>1. 0 \in 0 .. MaxRuns /\ 0 \in 0 .. StartLimit
    BY GadgetAssumption
  <2>2. pc \in [Daemon -> {"none", "open", "descs", "strings", "bind", "serve", "gone",
     "dead"}]
    BY DEF Init
  <2>3. term \in [Daemon -> BOOLEAN]
    BY DEF Init
  <2> QED
    BY <2>1, <2>2, <2>3 DEF Init, TypeOK
<1>3. RunsInv
  BY <1>1, GadgetAssumption DEF Init, RunsInv
<1>4. InstanceInv
  BY <1>1 DEF Init, InstanceInv, Holds
<1> QED
  BY <1>2, <1>3, <1>4 DEF GadgetIInv

\* The types.
LEMMA NextType == GadgetIInv /\ [Next]_vars => TypeOK'
<1> SUFFICES ASSUME GadgetIInv, [Next]_vars PROVE TypeOK'
  OBVIOUS
<1> USE GadgetAssumption DEF GadgetIInv, TypeOK, scriptVars, kernelVars, daemonVars, vtxVars
<1>1. CASE RunByHand \/ Boot \/ UnitStopped
  <2>1. runs < MaxRuns
    BY <1>1 DEF RunByHand, Boot, UnitStopped, RunsInv
  <2>2. runs + 1 \in 0 .. MaxRuns /\ runs + 1 \in Daemon
    BY <2>1 DEF Daemon
  <2> QED
    BY <1>1, <2>2 DEF RunByHand, Boot, UnitStopped
<1>2. CASE Script
  <2>1. CASE ScriptLaunch
    <3>1. runs \in Daemon
      BY <2>1 DEF ScriptLaunch, RunsInv, Daemon
    <3> QED
      BY <2>1, <3>1 DEF ScriptLaunch
  <2>2. CASE ScriptKill
    BY <2>2 DEF ScriptKill
  <2>3. CASE ScriptUnbind \/ ScriptAbort \/ ScriptMount \/ ScriptLink
    BY <2>3, ZenonT(60) DEF ScriptUnbind, ScriptAbort, ScriptMount, ScriptLink
  <2> QED
    BY <1>2, <2>1, <2>2, <2>3 DEF Script
<1>3. ASSUME NEW d \in Daemon, DaemonStep(d) \/ DaemonDies(d)
      PROVE  TypeOK'
  <2>1. CASE DaemonOpen(d) \/ DaemonStrings(d) \/ DaemonBind(d)
    BY <2>1 DEF DaemonOpen, DaemonStrings, DaemonBind
  <2>2. CASE DaemonDescs(d)
    <3>1. CASE ffs = "descs"
      BY <2>2, <3>1 DEF DaemonDescs
    <3>2. CASE ffs # "descs"
      <4>1. Close(d) /\ pc' = [pc EXCEPT ![d] = "gone"] /\ UNCHANGED <<scriptVars, term,
         vtxVars>>
        BY <2>2, <3>2 DEF DaemonDescs
      <4> QED
        BY <4>1, ZenonT(60) DEF Close
    <3> QED
      BY <3>1, <3>2
  <2>3. CASE DaemonQuit(d) \/ DaemonDies(d)
    <3>1. /\ Close(d) /\ UNCHANGED <<scriptVars, term, vtxVars>>
      BY <2>3 DEF DaemonQuit, DaemonDies
    <3>2. CASE pc' = [pc EXCEPT ![d] = "gone"]
      BY <3>1, <3>2, ZenonT(60) DEF Close
    <3>3. CASE pc' = [pc EXCEPT ![d] = "dead"]
      BY <3>1, <3>3, ZenonT(60) DEF Close
    <3> QED
      BY <2>3, <3>2, <3>3 DEF DaemonQuit, DaemonDies
  <2> QED
    BY <1>3, <2>1, <2>2, <2>3 DEF DaemonStep
<1>4. CASE VtxOpen \/ VtxEnds
  BY <1>4, ZenonT(60) DEF VtxOpen, VtxEnds, Close
<1>5. CASE StartVtx \/ RestartVtx \/ ForgetStarts
  <2>1. starts' \in 0 .. StartLimit
    BY <1>5 DEF StartVtx, RestartVtx, ForgetStarts, Start
  <2>2. vtx' \in {"waiting", "starting", "running", "backoff", "failed"}
    BY <1>5 DEF StartVtx, RestartVtx, ForgetStarts, Start
  <2> QED
    BY <1>5, <2>1, <2>2 DEF StartVtx, RestartVtx, ForgetStarts
<1>6. CASE RestartUnit
  BY <1>6 DEF RestartUnit, Close
<1>7. CASE Done \/ UNCHANGED vars
  BY <1>7 DEF Done, vars
<1> QED
  BY <1>1, <1>2, <1>3, <1>4, <1>5, <1>6, <1>7 DEF Next, Systemd

\* Only the script moves on to the next run, and a daemon belongs to one of them.
LEMMA NextRuns == GadgetIInv /\ [Next]_vars => RunsInv'
<1> SUFFICES ASSUME GadgetIInv, [Next]_vars PROVE RunsInv'
  OBVIOUS
<1> USE GadgetAssumption DEF GadgetIInv, TypeOK, RunsInv, scriptVars, kernelVars, daemonVars,
   vtxVars
<1>1. CASE RunByHand \/ Boot \/ UnitStopped
  <2>1. runs' = runs + 1 /\ script' = "unbind" /\ unit' \in {"starting", "active"} /\ pc'
     = pc
    BY <1>1 DEF RunByHand, Boot, UnitStopped
  <2>2. \A d \in Daemon : pc[d] # "none" => d < runs + 1
    BY DEF Daemon
  <2> QED
    BY <2>1, <2>2
<1>2. CASE Script
  BY <1>2 DEF Script, ScriptUnbind, ScriptAbort, ScriptMount, ScriptLink, ScriptKill,
              ScriptLaunch, Daemon
<1>3. ASSUME NEW d \in Daemon, DaemonStep(d) \/ DaemonDies(d)
      PROVE  RunsInv'
  <2>1. pc[d] # "none" /\ UNCHANGED scriptVars
    BY <1>3 DEF DaemonStep, DaemonOpen, DaemonDescs, DaemonStrings, DaemonBind, DaemonQuit,
                DaemonDies, Running
  <2>2. \A e \in Daemon : e # d => pc'[e] = pc[e]
    BY <1>3 DEF DaemonStep, DaemonOpen, DaemonDescs, DaemonStrings, DaemonBind, DaemonQuit,
                DaemonDies
  <2> QED
    BY <2>1, <2>2
<1>4. CASE VtxOpen \/ VtxEnds \/ StartVtx \/ RestartVtx \/ ForgetStarts
  BY <1>4 DEF VtxOpen, VtxEnds, StartVtx, RestartVtx, ForgetStarts
<1>5. CASE RestartUnit
  BY <1>5 DEF RestartUnit
<1>6. CASE Done \/ UNCHANGED vars
  BY <1>6 DEF Done, vars
<1> QED
  BY <1>1, <1>2, <1>3, <1>4, <1>5, <1>6 DEF Next, Systemd

\* Who closes its file as the last one leaves no daemon that holds the instance.
LEMMA CloseKeeps ==
  ASSUME TypeOK, InstanceInv, NEW who \in Daemon \cup {Client}, Close(who),
         \A d \in Daemon : d # who => pc'[d] = pc[d],
         who \in Daemon => pc'[who] \in {"gone", "dead"}
  PROVE  InstanceInv'
<1> USE DEF TypeOK, InstanceInv, Holds, Close
<1>1. \A d \in Daemon : d \in opened' <=> pc'[d] = "descs" \/ Holds(d)'
  OBVIOUS
<1>2. \A d \in Daemon : Holds(d)' => Holds(d) /\ d # who
  OBVIOUS
<1>3. \A d \in Daemon : Holds(d)' => ffs' = ffs
  BY <1>2
<1> QED
  BY <1>1, <1>2, <1>3

\* Descriptors are accepted from nobody while somebody holds the instance.
LEMMA NextInstance == GadgetIInv /\ [Next]_vars => InstanceInv'
<1> SUFFICES ASSUME GadgetIInv, [Next]_vars PROVE InstanceInv'
  OBVIOUS
<1> USE DEF GadgetIInv, scriptVars, kernelVars, daemonVars, vtxVars
<1>1. CASE RunByHand \/ Boot \/ UnitStopped \/ StartVtx \/ RestartVtx \/ ForgetStarts
           \/ Done \/ UNCHANGED vars
  BY <1>1 DEF RunByHand, Boot, UnitStopped, StartVtx, RestartVtx, ForgetStarts, Done, vars,
              InstanceInv, Holds
<1>2. CASE Script
  <2>1. CASE ScriptLaunch
    <3>1. runs \in Daemon /\ pc[runs] = "none"
      BY <2>1, GadgetAssumption DEF ScriptLaunch, RunsInv, Daemon, TypeOK
    <3> QED
      BY <2>1, <3>1 DEF ScriptLaunch, InstanceInv, Holds, TypeOK
  <2>2. CASE ScriptUnbind \/ ScriptAbort \/ ScriptMount \/ ScriptLink \/ ScriptKill
    BY <2>2 DEF ScriptUnbind, ScriptAbort, ScriptMount, ScriptLink, ScriptKill,
       InstanceInv, Holds
  <2> QED
    BY <1>2, <2>1, <2>2 DEF Script
<1>3. ASSUME NEW d \in Daemon, DaemonStep(d) \/ DaemonDies(d)
      PROVE  InstanceInv'
  <2>1. CASE DaemonOpen(d) \/ DaemonStrings(d) \/ DaemonBind(d)
    BY <2>1 DEF DaemonOpen, DaemonStrings, DaemonBind, InstanceInv, Holds, TypeOK
  <2>2. CASE DaemonDescs(d) /\ ffs = "descs"
    BY <2>2 DEF DaemonDescs, InstanceInv, Holds, TypeOK
  <2>3. CASE (DaemonDescs(d) /\ ffs # "descs") \/ DaemonQuit(d) \/ DaemonDies(d)
    <3>1. Close(d) /\ pc'[d] \in {"gone", "dead"} /\ \A e \in Daemon : e # d => pc'[e] =
       pc[e]
      BY <2>3 DEF DaemonDescs, DaemonQuit, DaemonDies, TypeOK
    <3> QED
      BY <3>1, CloseKeeps
  <2> QED
    BY <1>3, <2>1, <2>2, <2>3 DEF DaemonStep
<1>4. CASE VtxOpen
  BY <1>4, ClientApart DEF VtxOpen, InstanceInv, Holds
<1>5. CASE VtxEnds
  BY <1>5, ClientApart, CloseKeeps DEF VtxEnds
<1>6. CASE RestartUnit
  <2>1. CASE vtx = "running"
    BY <1>6, <2>1, ClientApart, CloseKeeps DEF RestartUnit
  <2>2. CASE vtx # "running"
    BY <1>6, <2>2 DEF RestartUnit, InstanceInv, Holds
  <2> QED
    BY <2>1, <2>2
<1> QED
  BY <1>1, <1>2, <1>3, <1>4, <1>5, <1>6 DEF Next, Systemd

\* One at most has a cardinality of one at most.
LEMMA AtMostOne ==
  ASSUME NEW S, \A x, y \in S : x = y
  PROVE  Cardinality(S) <= 1
<1>1. CASE S = {}
  BY <1>1, FS_EmptySet
<1>2. CASE S # {}
  <2>1. PICK x \in S : TRUE
    BY <1>2
  <2>2. S = {x}
    BY <2>1
  <2> QED
    BY <2>2, FS_Singleton
<1> QED
  BY <1>1, <1>2

\* The invariant always holds.
LEMMA InvAlways == Spec => []GadgetIInv
<1>1. GadgetIInv /\ [Next]_vars => GadgetIInv'
  BY NextType, NextRuns, NextInstance DEF GadgetIInv
<1> QED
  BY <1>1, InvInit, PTL DEF Spec

\* However often the script runs, by systemd or by hand, and whoever dies, the
\* kernel's one set of descriptors has one daemon.
THEOREM GadgetInvariant == Spec => []GadgetInv
<1>1. Spec => []GadgetIInv
  BY InvAlways
<1>2. GadgetIInv => GadgetInv
  <2> SUFFICES ASSUME GadgetIInv PROVE OneDaemon
    BY DEF GadgetIInv, GadgetInv
  <2> QED
    BY AtMostOne DEF GadgetIInv, InstanceInv, Holds, OneDaemon
<1> QED
  BY <1>1, <1>2, PTL

\* A close that is not a serving daemon's own takes nothing from it.
LEMMA CloseLeaves ==
  ASSUME GadgetIInv, NEW s \in Serving, NEW who \in Daemon \cup {Client}, who # s, Close(who)
  PROVE  (udc => udc') /\ ffs' = "active"
<1>1. s \in opened /\ ffs = "active"
  BY DEF GadgetIInv, InstanceInv, Holds, Serving
<1> QED
  BY <1>1 DEF Close

\* No step but the script's takes the interfaces or the endpoint from the host while
\* a daemon serves and goes on serving.
LEMMA StepKeeps ==
  ASSUME GadgetIInv, [Next]_vars, NEW s \in Serving, pc'[s] = "serve", script' = script
  PROVE  (udc => udc') /\ ffs' = "active"
<1> USE DEF scriptVars, kernelVars, daemonVars, vtxVars
<1>1. ffs = "active" /\ pc[s] = "serve" /\ s \in Daemon /\ s # Client
  BY ClientApart DEF GadgetIInv, InstanceInv, Serving
<1>2. CASE RunByHand \/ Boot \/ UnitStopped \/ StartVtx \/ RestartVtx \/ ForgetStarts
           \/ Done \/ UNCHANGED vars \/ VtxOpen
  BY <1>1, <1>2 DEF RunByHand, Boot, UnitStopped, StartVtx, RestartVtx, ForgetStarts,
     Done, vars, VtxOpen
<1>3. CASE Script
  BY <1>3 DEF Script, ScriptUnbind, ScriptAbort, ScriptMount, ScriptLink, ScriptKill,
     ScriptLaunch
<1>4. ASSUME NEW d \in Daemon, DaemonStep(d) \/ DaemonDies(d)
      PROVE  (udc => udc') /\ ffs' = "active"
  <2>1. CASE DaemonOpen(d) \/ DaemonStrings(d) \/ DaemonBind(d)
    BY <1>1, <2>1 DEF DaemonOpen, DaemonStrings, DaemonBind, GadgetIInv, TypeOK
  <2>2. CASE DaemonDescs(d) \/ DaemonQuit(d) \/ DaemonDies(d)
    <3>1. Close(d) /\ d # s
      BY <1>1, <2>2 DEF DaemonDescs, DaemonQuit, DaemonDies, GadgetIInv, TypeOK
    <3> QED
      BY <3>1, CloseLeaves
  <2> QED
    BY <1>4, <2>1, <2>2 DEF DaemonStep
<1>5. CASE VtxEnds
  BY <1>1, <1>5, CloseLeaves DEF VtxEnds
<1>6. CASE RestartUnit
  <2>1. CASE vtx = "running"
    BY <1>1, <1>6, <2>1, CloseLeaves DEF RestartUnit
  <2>2. CASE vtx # "running"
    BY <1>1, <1>6, <2>2 DEF RestartUnit
  <2> QED
    BY <2>1, <2>2
<1> QED
  BY <1>2, <1>3, <1>4, <1>5, <1>6 DEF Next, Systemd

\* The composite interfaces never drop because vtx ends or a daemon comes too late.
THEOREM InterfacesStay == Spec => KeepsInterfaces
<1>1. GadgetIInv /\ [Next]_vars =>
        ((\E d \in Serving : pc'[d] = "serve") /\ script' = script => (udc => udc') /\
           ffs' = "active")
  BY StepKeeps
<1> QED
  BY <1>1, InvAlways, PTL DEF Spec, KeepsInterfaces

-----------------------------------------------------------------------------
(* RootfsResize.  Progress says how far the table has come at each step of *)
(* the script, which is what the invariants about the marker need to be    *)
(* inductive.                                                              *)

\* Whatever medium the image is flashed to, it fits.
LEMMA ResizeImageFits ==
    ASSUME NEW size \in Media
    PROVE  /\ Image \in Nat /\ size \in Nat /\ Image <= size /\ 0 \in 0 .. MaxTrouble
           /\ Image \in Image .. size
           /\ [fs |-> Image, marker |-> FALSE] \in [fs : Image .. size, marker : BOOLEAN]
<1>1. Image \in Nat /\ size \in Nat /\ Image <= size /\ 0 \in 0 .. MaxTrouble
    BY ResizeAssumption
<1>2. Image \in Image .. size
    BY <1>1
<1> QED
    BY <1>1, <1>2

\* A freshly flashed medium satisfies the invariant.
LEMMA ResizeStarts == ResizeInit => IInv
<1> SUFFICES ASSUME ResizeInit PROVE IInv
    OBVIOUS
<1> USE DEF ResizeInit
<1>1. ResizeTypeOK
    BY ResizeImageFits, Zenon DEF ResizeTypeOK
<1>2. Fits /\ Progress /\ MarkerMeansGrown /\ OnceOnly
    BY ResizeImageFits DEF Fits, Progress, MarkerMeansGrown, OnceOnly
<1> QED
    BY <1>1, <1>2 DEF IInv

\* Every step of the script preserves it.
LEMMA ResizeScriptKeeps == IInv /\ ScriptStep => IInv'
<1> SUFFICES ASSUME IInv, ScriptStep PROVE IInv'
    OBVIOUS
<1> USE ResizeAssumption DEF IInv, ResizeTypeOK, Fits, Progress, MarkerMeansGrown,
       OnceOnly, table, medium
<1>1. CASE ProbeUnsuited
    BY <1>1 DEF ProbeUnsuited
<1>2. CASE Probe
    BY <1>2 DEF Probe
<1>3. CASE Sgdisk
    BY <1>3 DEF Sgdisk
<1>4. CASE Parted
    BY <1>4 DEF Parted
<1>5. CASE Partx
    BY <1>5 DEF Partx
<1>6. CASE Resize2fs
    BY <1>6 DEF Resize2fs
<1>7. CASE Resized
    BY <1>7 DEF Resized
<1>8. CASE Settle
    BY <1>8 DEF Settle
<1> QED
    BY <1>1, <1>2, <1>3, <1>4, <1>5, <1>6, <1>7, <1>8 DEF ScriptStep

\* Every other step preserves it.
LEMMA ResizeKeeps == IInv /\ [ResizeNext]_resizeVars => IInv'
<1> SUFFICES ASSUME IInv, [ResizeNext]_resizeVars PROVE IInv'
    OBVIOUS
<1> USE ResizeAssumption DEF IInv, ResizeTypeOK, Fits, Progress, MarkerMeansGrown,
       OnceOnly, table, medium
<1>1. CASE ScriptStep
    BY <1>1, ResizeScriptKeeps
<1>2. CASE Fail
    BY <1>2 DEF Fail
<1>3. CASE PowerOn
    BY <1>3 DEF PowerOn
<1>4. CASE Commit
    BY <1>4 DEF Commit
<1>5. CASE Shutdown
    BY <1>5 DEF Shutdown
<1>6. CASE PowerFails
    BY <1>6 DEF PowerFails
<1>7. CASE Flash
  <2> USE <1>7 DEF Flash
  <2>1. ResizeTypeOK'
    BY ResizeImageFits, Zenon DEF ResizeTypeOK
  <2>2. Fits' /\ Progress' /\ MarkerMeansGrown' /\ OnceOnly'
    BY ResizeImageFits DEF Fits, Progress, MarkerMeansGrown, OnceOnly
  <2> QED
    BY <2>1, <2>2 DEF IInv
<1>8. CASE UNCHANGED resizeVars
    BY <1>8 DEF resizeVars
<1> QED
    BY <1>1, <1>2, <1>3, <1>4, <1>5, <1>6, <1>7, <1>8 DEF ResizeNext

\* The invariant holds of rootfs-resize.sh at every step, for every image and medium.
THEOREM ResizeInvariant == ResizeSpec => []IInv
BY ResizeStarts, ResizeKeeps, PTL DEF ResizeSpec

\* The file system always fits its partition, at a loss of power too.
THEOREM ResizeFits == ResizeSpec => []Fits
<1>1. IInv => Fits
    BY DEF IInv
<1> QED
    BY <1>1, ResizeInvariant, PTL

\* The marker is never there, and never on the medium, before all is grown that can be.
THEOREM ResizeMarker == ResizeSpec => []MarkerMeansGrown
<1>1. IInv => MarkerMeansGrown
    BY DEF IInv
<1> QED
    BY <1>1, ResizeInvariant, PTL

-----------------------------------------------------------------------------
(* VtxTrigger.                                                             *)

\* Main's places between poll() and the end of the pass, and all of them.
InPass == {"poll", "adc", "stdin", "act"}
MainPlaces == InPass \cup {"loop", "start", "stop", "leave", "exited"}

TriggerTypes ==
  /\ button \in BOOLEAN /\ btn_last_pressed \in BOOLEAN /\ toggle \in BOOLEAN
  /\ ret \in BOOLEAN /\ mpc \in MainPlaces
  /\ tty \in {"none", "quiet", "input", "gone"}
  /\ requests \in Nat /\ toggles \in Nat

\* A request that is not a toggle yet was noticed in this pass, or is still to be
\* read from the button or from the terminal.
Noticed == mpc \in {"stdin", "act"} /\ toggle
Pressed == button /\ ~btn_last_pressed
Typed   == tty = "input"

\* Every toggle, and every request pending, has a request of its own.  What
\* poll() saw is still there when it is read.
RequestInv ==
  /\ tty # "gone" =>
       /\ toggles <= requests
       /\ Noticed \/ Pressed \/ Typed => toggles + 1 <= requests
       /\ Noticed /\ Pressed => toggles + 2 <= requests
       /\ Noticed /\ Typed => toggles + 2 <= requests
       /\ Pressed /\ Typed => toggles + 2 <= requests
       /\ Noticed /\ Pressed /\ Typed => toggles + 3 <= requests
  /\ ret /\ mpc \in {"adc", "stdin"} => tty \in {"input", "gone"}
  /\ mpc = "adc" => ~toggle

\* The pass after quit was set is the last one.
LateInv ==
  /\ lateToggles \in {0, 1}
  /\ lateToggles = 1 => quit /\ mpc \notin InPass

TriggerInv == TriggerTypes /\ RequestInv /\ LateInv

\* The loop starts with the invariant.
LEMMA TriggerStarts == TriggerInit => TriggerInv
<1> SUFFICES ASSUME TriggerInit PROVE TriggerInv
  OBVIOUS
<1> USE DEF TriggerInit
<1>1. TriggerTypes
  BY DEF TriggerTypes, MainPlaces, InPass
<1>2. ~Noticed /\ ~Typed /\ (Pressed <=> button) /\ toggles = 0
  BY DEF Noticed, Typed, Pressed
<1>3. requests \in Nat /\ (button => requests = 1)
  OBVIOUS
<1>4. RequestInv
  BY <1>2, <1>3 DEF RequestInv
<1>5. LateInv
  BY DEF LateInv
<1> QED
  BY <1>1, <1>4, <1>5 DEF TriggerInv

\* The operator, a signal and every step of main preserve the types, and that the
\* pass after quit was set is the last.
LEMMA TriggerTypesNext ==
  TriggerTypes /\ LateInv /\ [TriggerNext]_triggerVars => TriggerTypes' /\ LateInv'
<1> SUFFICES ASSUME TriggerTypes, LateInv, [TriggerNext]_triggerVars
             PROVE  TriggerTypes' /\ LateInv'
  OBVIOUS
<1> USE DEF TriggerTypes, LateInv, MainPlaces, InPass, worldVars,
       countVars, loopVars
<1>1. CASE Press
  BY <1>1 DEF Press
<1>2. CASE Release
  BY <1>2 DEF Release
<1>3. CASE Enter
  BY <1>3 DEF Enter
<1>4. CASE HangUp
  BY <1>4 DEF HangUp
<1>5. CASE Sigterm
  BY <1>5 DEF Sigterm
<1>6. CASE Loop
  BY <1>6 DEF Loop
<1>7. CASE Poll
  <2> DEFINE readable == tty \in {"input", "gone"}
  <2>1. ret' = readable \/ ret' = FALSE
    BY <1>7 DEF Poll
  <2>2. readable \in BOOLEAN
    OBVIOUS
  <2>3. ret' \in BOOLEAN
    <3> HIDE DEF readable
    <3> QED
      BY <2>1, <2>2
  <2>4. mpc = "poll" /\ toggle' = FALSE /\ mpc' = "adc"
    BY <1>7 DEF Poll
  <2>5. UNCHANGED <<quit, lateToggles, toggles, requests, tty, button, btn_last_pressed>>
    BY <1>7 DEF Poll
  <2>6. toggle' \in BOOLEAN
    BY <2>4
  <2> QED
    BY <2>3, <2>4, <2>5, <2>6
<1>8. CASE AdcRead
  BY <1>8 DEF AdcRead
<1>9. CASE AdcSkip
  BY <1>9 DEF AdcSkip
<1>10. CASE Stdin
  BY <1>10 DEF Stdin
<1>11. CASE Act
  BY <1>11 DEF Act
<1>12. CASE Started
  BY <1>12 DEF Started
<1>13. CASE Stopped
  BY <1>13 DEF Stopped
<1>14. CASE Leave
  BY <1>14 DEF Leave
<1>15. CASE Exited
  BY <1>15 DEF Exited, triggerVars
<1>16. CASE UNCHANGED triggerVars
  BY <1>16 DEF triggerVars
<1> QED
  BY <1>1, <1>2, <1>3, <1>4, <1>5, <1>6, <1>7, <1>8, <1>9, <1>10, <1>11, <1>12, <1>13,
     <1>14, <1>15, <1>16 DEF TriggerNext, Main

\* They preserve that every toggle, done or pending, has a request of its own.
LEMMA TriggerRequestsNext ==
  TriggerTypes /\ RequestInv /\ [TriggerNext]_triggerVars => RequestInv'
<1> SUFFICES ASSUME TriggerTypes, RequestInv, [TriggerNext]_triggerVars
             PROVE  RequestInv'
  OBVIOUS
<1> USE DEF RequestInv, worldVars, countVars, loopVars
<1>0. /\ requests \in Nat /\ toggles \in Nat /\ button \in BOOLEAN
      /\ btn_last_pressed \in BOOLEAN /\ toggle \in BOOLEAN
  BY DEF TriggerTypes
<1>1. CASE Press
  <2>1. (Noticed' <=> Noticed) /\ (Typed' <=> Typed)
    BY <1>0, <1>1 DEF Press, Noticed, Pressed, Typed
  <2>2. requests' = requests + 1 /\ UNCHANGED <<tty, toggles, ret, mpc, toggle>>
    BY <1>1 DEF Press
  <2> QED
    BY <1>0, <2>1, <2>2
<1>2. CASE Release
  <2>1. (Noticed' <=> Noticed) /\ (Pressed' => Pressed) /\ (Typed' => Typed)
    BY <1>0, <1>2 DEF Release, Noticed, Pressed, Typed
  <2>2. /\ UNCHANGED <<requests, toggles, ret>> /\ tty' \in {tty, "gone"}
        /\ mpc' \in {"adc", "stdin"} => mpc' = mpc /\ toggle' = toggle
    BY <1>2 DEF Release
  <2> QED
    BY <1>0, <2>1, <2>2
<1>3. CASE Enter
  <2>1. (Noticed' <=> Noticed) /\ (Pressed' <=> Pressed)
    BY <1>0, <1>3 DEF Enter, Noticed, Pressed, Typed
  <2>2. /\ requests' = requests + 1 /\ UNCHANGED <<toggles, ret, mpc, toggle>>
        /\ tty # "gone" /\ tty' = "input"
    BY <1>3 DEF Enter
  <2> QED
    BY <1>0, <2>1, <2>2
<1>4. CASE HangUp
  <2>1. (Noticed' <=> Noticed) /\ (Pressed' => Pressed) /\ (Typed' => Typed)
    BY <1>0, <1>4 DEF HangUp, Noticed, Pressed, Typed
  <2>2. /\ UNCHANGED <<requests, toggles, ret>> /\ tty' \in {tty, "gone"}
        /\ mpc' \in {"adc", "stdin"} => mpc' = mpc /\ toggle' = toggle
    BY <1>4 DEF HangUp
  <2> QED
    BY <1>0, <2>1, <2>2
<1>5. CASE Sigterm
  <2>1. (Noticed' <=> Noticed) /\ (Pressed' => Pressed) /\ (Typed' => Typed)
    BY <1>0, <1>5 DEF Sigterm, Noticed, Pressed, Typed
  <2>2. /\ UNCHANGED <<requests, toggles, ret>> /\ tty' \in {tty, "gone"}
        /\ mpc' \in {"adc", "stdin"} => mpc' = mpc /\ toggle' = toggle
    BY <1>5 DEF Sigterm
  <2> QED
    BY <1>0, <2>1, <2>2
<1>6. CASE Loop
  <2>1. (Noticed' <=> Noticed) /\ (Pressed' => Pressed) /\ (Typed' => Typed)
    BY <1>0, <1>6 DEF Loop, Noticed, Pressed, Typed
  <2>2. /\ UNCHANGED <<requests, toggles, ret>> /\ tty' \in {tty, "gone"}
        /\ mpc' \in {"adc", "stdin"} => mpc' = mpc /\ toggle' = toggle
    BY <1>6 DEF Loop
  <2> QED
    BY <1>0, <2>1, <2>2
<1>7. CASE Poll
  <2>1. ~Noticed' /\ (Pressed' <=> Pressed) /\ (Typed' <=> Typed)
    BY <1>0, <1>7 DEF Poll, Noticed, Pressed, Typed
  <2>2. /\ ~toggle' /\ (ret' => tty' \in {"input", "gone"})
        /\ UNCHANGED <<requests, toggles, tty>>
    BY <1>7 DEF Poll
  <2> QED
    BY <1>0, <2>1, <2>2
<1>8. CASE AdcRead
  <2>1. ~Pressed' /\ (Noticed' <=> Pressed) /\ (Typed' <=> Typed)
    BY <1>0, <1>8 DEF AdcRead, Noticed, Pressed, Typed
  <2>2. mpc' = "stdin" /\ UNCHANGED <<requests, toggles, tty, ret>> /\ mpc = "adc"
    BY <1>8 DEF AdcRead
  <2> QED
    BY <1>0, <2>1, <2>2
<1>9. CASE AdcSkip
  <2>1. ~Noticed' /\ (Pressed' <=> Pressed) /\ (Typed' <=> Typed)
    BY <1>0, <1>9 DEF AdcSkip, Noticed, Pressed, Typed
  <2>2. mpc' = "stdin" /\ UNCHANGED <<requests, toggles, tty, ret>> /\ mpc = "adc"
    BY <1>9 DEF AdcSkip
  <2> QED
    BY <1>0, <2>1, <2>2
<1>10. CASE Stdin
  <2>1. Pressed' <=> Pressed
    BY <1>10 DEF Stdin, Pressed
  <2>2. tty' # "gone" => ~Typed' \/ (~ret /\ Typed)
    BY <1>10 DEF Stdin, Typed
  <2>3. tty' # "gone" /\ Noticed' => Noticed \/ (Typed /\ ~Typed')
    BY <1>10 DEF Stdin, Typed, Noticed
  <2>4. mpc' = "act" /\ (tty # "gone" <=> tty' # "gone")
    BY <1>10 DEF Stdin
  <2>5. UNCHANGED <<requests, toggles>>
    BY <1>10 DEF Stdin
  <2> QED
    BY <1>0, <2>1, <2>2, <2>3, <2>4, <2>5
<1>11. CASE Act
  <2>1. ~Noticed' /\ (Pressed' <=> Pressed) /\ (Typed' <=> Typed)
    BY <1>11 DEF Act, Noticed, Typed, Pressed
  <2>2. mpc' \notin {"adc", "stdin"} /\ UNCHANGED <<requests, tty>>
    BY <1>11 DEF Act
  <2>3. toggles' = toggles \/ (Noticed /\ toggles' = toggles + 1)
    BY <1>11 DEF Act, Noticed
  <2> QED
    BY <1>0, <2>1, <2>2, <2>3
<1>12. CASE Started
  <2>1. (Noticed' <=> Noticed) /\ (Pressed' => Pressed) /\ (Typed' => Typed)
    BY <1>0, <1>12 DEF Started, Noticed, Pressed, Typed
  <2>2. /\ UNCHANGED <<requests, toggles, ret>> /\ tty' \in {tty, "gone"}
        /\ mpc' \in {"adc", "stdin"} => mpc' = mpc /\ toggle' = toggle
    BY <1>12 DEF Started
  <2> QED
    BY <1>0, <2>1, <2>2
<1>13. CASE Stopped
  <2>1. (Noticed' <=> Noticed) /\ (Pressed' => Pressed) /\ (Typed' => Typed)
    BY <1>0, <1>13 DEF Stopped, Noticed, Pressed, Typed
  <2>2. /\ UNCHANGED <<requests, toggles, ret>> /\ tty' \in {tty, "gone"}
        /\ mpc' \in {"adc", "stdin"} => mpc' = mpc /\ toggle' = toggle
    BY <1>13 DEF Stopped
  <2> QED
    BY <1>0, <2>1, <2>2
<1>14. CASE Leave
  <2>1. (Noticed' <=> Noticed) /\ (Pressed' => Pressed) /\ (Typed' => Typed)
    BY <1>0, <1>14 DEF Leave, Noticed, Pressed, Typed
  <2>2. /\ UNCHANGED <<requests, toggles, ret>> /\ tty' \in {tty, "gone"}
        /\ mpc' \in {"adc", "stdin"} => mpc' = mpc /\ toggle' = toggle
    BY <1>14 DEF Leave
  <2> QED
    BY <1>0, <2>1, <2>2
<1>15. CASE Exited
  <2>1. (Noticed' <=> Noticed) /\ (Pressed' => Pressed) /\ (Typed' => Typed)
    BY <1>0, <1>15 DEF Exited, triggerVars, Noticed, Pressed, Typed
  <2>2. /\ UNCHANGED <<requests, toggles, ret>> /\ tty' \in {tty, "gone"}
        /\ mpc' \in {"adc", "stdin"} => mpc' = mpc /\ toggle' = toggle
    BY <1>15 DEF Exited, triggerVars
  <2> QED
    BY <1>0, <2>1, <2>2
<1>16. CASE UNCHANGED triggerVars
  <2>1. (Noticed' <=> Noticed) /\ (Pressed' => Pressed) /\ (Typed' => Typed)
    BY <1>0, <1>16 DEF triggerVars, Noticed, Pressed, Typed
  <2>2. /\ UNCHANGED <<requests, toggles, ret>> /\ tty' \in {tty, "gone"}
        /\ mpc' \in {"adc", "stdin"} => mpc' = mpc /\ toggle' = toggle
    BY <1>16 DEF triggerVars
  <2> QED
    BY <1>0, <2>1, <2>2
<1> QED
  BY <1>1, <1>2, <1>3, <1>4, <1>5, <1>6, <1>7, <1>8, <1>9, <1>10, <1>11, <1>12, <1>13,
     <1>14, <1>15, <1>16 DEF TriggerNext, Main

\* Until a toggle answers it, a press that is owed is in the level of the button or in
\* the flag main acts on, a line in the terminal's input or in that flag.
NothingForgotten ==
  /\ "press" \in owed => adc /\ IF btn_last_pressed THEN Noticed ELSE button
  /\ "line" \in owed => tty \in {"input", "gone"} \/ Noticed

\* Every step preserves that nothing owed is forgotten.
LEMMA TriggerOwedNext ==
  TriggerTypes /\ NothingForgotten /\ [TriggerNext]_triggerVars => NothingForgotten'
<1> SUFFICES ASSUME TriggerTypes, NothingForgotten, [TriggerNext]_triggerVars
             PROVE  NothingForgotten'
  OBVIOUS
<1> USE DEF TriggerTypes, NothingForgotten, Noticed, worldVars, countVars, loopVars
<1>1. CASE Press
  BY <1>1 DEF Press, Distinct
<1>2. CASE Release
  BY <1>2 DEF Release, Distinct
<1>3. CASE Enter \/ HangUp \/ Sigterm
  BY <1>3 DEF Enter, HangUp, Sigterm
<1>4. CASE Loop \/ Poll
  BY <1>4 DEF Loop, Poll
<1>5. CASE AdcRead \/ AdcSkip
  BY <1>5 DEF AdcRead, AdcSkip
<1>6. CASE Stdin
  BY <1>6 DEF Stdin
<1>7. CASE Act
  BY <1>7 DEF Act, Read
<1>8. CASE Started \/ Stopped \/ Leave
  BY <1>8 DEF Started, Stopped, Leave
<1>9. CASE Exited \/ UNCHANGED triggerVars
  BY <1>9 DEF Exited, triggerVars
<1> QED
  BY <1>1, <1>2, <1>3, <1>4, <1>5, <1>6, <1>7, <1>8, <1>9 DEF TriggerNext, Main

\* Nothing main does while it is busy, and no ADC error, makes it forget a request.
THEOREM RequestsAreKept == TriggerSpec => []NothingForgotten
<1>1. TriggerInit => NothingForgotten
  BY DEF TriggerInit, NothingForgotten
<1>2. TriggerInv => TriggerTypes
  BY DEF TriggerInv
<1>3. TriggerInv /\ [TriggerNext]_triggerVars => TriggerInv'
  BY TriggerTypesNext, TriggerRequestsNext DEF TriggerInv
<1> QED
  BY <1>1, <1>2, <1>3, TriggerStarts, TriggerOwedNext, PTL DEF TriggerSpec

\* Whatever the operator does, there is a request of its own for every toggle while
\* the terminal is there, and at most one toggle after SIGTERM.
THEOREM TogglesAreRequested == TriggerSpec => []ToggleNeedsRequest
<1>1. TriggerInv => ToggleNeedsRequest
  BY DEF TriggerInv, RequestInv, LateInv, ToggleNeedsRequest
<1>2. TriggerInv /\ [TriggerNext]_triggerVars => TriggerInv'
  BY TriggerTypesNext, TriggerRequestsNext DEF TriggerInv
<1> QED
  BY <1>1, <1>2, TriggerStarts, PTL DEF TriggerSpec

=============================================================================
