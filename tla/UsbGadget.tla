------------------------------ MODULE UsbGadget ------------------------------
(***************************************************************************)
(* How the composite USB gadget comes up and stays up: the script          *)
(* luckfox-usb-gadget.sh, the daemon luckfox-usb-daemon.c it launches,     *)
(* vtx as a client of the daemon's endpoint, and systemd, which runs the   *)
(* script at boot and restarts vtx.  The FunctionFS instance and the       *)
(* binding to the USB controller (UDC) are the kernel's and external; CDC  *)
(* network and serial port are there as long as the gadget is bound.       *)
(***************************************************************************)
EXTENDS Naturals, FiniteSets

CONSTANTS
    MaxRuns,        \* bound on the runs of the script
    StartLimit,     \* systemd's start limit, DefaultStartLimitBurst
    DaemonMayDie    \* may a daemon be killed by something other than SIGTERM?

ASSUME GadgetAssumption ==
    MaxRuns \in Nat \ {0} /\ StartLimit \in Nat \ {0} /\ DaemonMayDie \in BOOLEAN

Daemon == 1 .. MaxRuns      \* the daemon launched by each run
Client == 0                 \* vtx, among those that have files open

VARIABLES
    unit,       \* luckfox-usb-gadget.service: "boot", "starting", "active", "stopping", "failed"
    script,     \* the script: "idle", "unbind", "mount", "link", "kill", "launch"
    runs,       \* runs of the script so far
    hand,       \* the daemons launched by a run by hand, which are not systemd's
    links,      \* are the functions linked into the configuration?
    ffs,        \* the FunctionFS instance: "unmounted", "descs", "strings", "active"
    opened,     \* who has one of its files open
    udc,        \* is the gadget bound?
    pc, term,   \* of each daemon: program counter, and whether SIGTERM reached it
    vtx,        \* luckfox-vtx.service: "waiting", "starting", "running", "backoff", "failed"
    starts      \* starts of vtx that systemd counts against its limit

kernelVars == <<ffs, opened, udc>>
scriptVars == <<unit, script, runs, hand, links>>
daemonVars == <<pc, term>>
vtxVars    == <<vtx, starts>>
vars == <<scriptVars, kernelVars, daemonVars, vtxVars>>

Init ==
    /\ unit = "boot" /\ script = "idle" /\ runs = 0 /\ hand = {} /\ links = FALSE
    /\ ffs = "unmounted" /\ opened = {} /\ udc = FALSE
    /\ pc = [d \in Daemon |-> "none"] /\ term = [d \in Daemon |-> FALSE]
    /\ vtx = "waiting" /\ starts = 0

Running == {d \in Daemon : pc[d] \notin {"none", "gone", "dead"}}

\* The kernel's part of close(): with its last open file the instance forgets the
\* descriptors, and a gadget that has it is unbound.
Close(who) ==
    /\ opened' = opened \ {who}
    /\ IF opened \subseteq {who} /\ who \in opened
       THEN ffs' = "descs" /\ udc' = FALSE
       ELSE UNCHANGED <<ffs, udc>>

----------------------------------------------------------------------------
(* luckfox-usb-gadget.sh                                                   *)

\* A run by hand finds the daemon of the run before.
RunByHand ==
    /\ unit = "active" /\ script = "idle" /\ runs < MaxRuns
    /\ script' = "unbind" /\ runs' = runs + 1 /\ hand' = hand \cup {runs + 1}
    /\ UNCHANGED <<unit, links, kernelVars, daemonVars, vtxVars>>

ScriptUnbind ==
    /\ script = "unbind"
    /\ udc' = FALSE
    /\ script' = "mount"
    /\ UNCHANGED <<unit, runs, hand, links, ffs, opened, daemonVars, vtxVars>>

\* "cd $GADGET_DIR || exit 1"
ScriptAbort ==
    /\ script = "unbind" /\ ~links
    /\ script' = "idle"
    /\ unit' = IF unit = "starting" THEN "failed" ELSE unit
    /\ UNCHANGED <<runs, hand, links, kernelVars, daemonVars, vtxVars>>

ScriptMount ==
    /\ script = "mount"
    /\ ffs' = IF ffs = "unmounted" THEN "descs" ELSE ffs
    /\ script' = "link"
    /\ UNCHANGED <<unit, runs, hand, links, opened, udc, daemonVars, vtxVars>>

\* Replacing a link that is there already unbinds the gadget; not every ln does.
ScriptLink ==
    /\ script = "link"
    /\ links' = TRUE
    /\ \/ UNCHANGED udc
       \/ udc' = FALSE /\ links
    /\ script' = "kill"
    /\ UNCHANGED <<unit, runs, hand, ffs, opened, daemonVars, vtxVars>>

\* Mutant: killall comes after the launch and finds the new daemon too.
ScriptKillLate ==
    /\ script = "kill"
    /\ term' = [d \in Daemon |-> term[d] \/ d \in Running \cup {runs}]
    /\ script' = "launch"
    /\ UNCHANGED <<unit, runs, hand, links, kernelVars, pc, vtxVars>>

\* killall does not wait for the daemons to end.
ScriptKill ==
    /\ script = "kill"
    /\ term' = [d \in Daemon |-> term[d] \/ d \in Running]
    /\ script' = "launch"
    /\ UNCHANGED <<unit, runs, hand, links, kernelVars, pc, vtxVars>>

\* The daemon runs in the background: the script ends, and the unit is active.
ScriptLaunch ==
    /\ script = "launch"
    /\ pc' = [pc EXCEPT ![runs] = "open"]
    /\ script' = "idle"
    /\ unit' = "active"
    /\ UNCHANGED <<runs, hand, links, kernelVars, term, vtxVars>>

Script == ScriptUnbind \/ ScriptAbort \/ ScriptMount \/ ScriptLink \/ ScriptKill \/ ScriptLaunch

----------------------------------------------------------------------------
(* luckfox-usb-daemon                                                      *)

DaemonOpen(d) ==
    /\ pc[d] = "open"
    /\ opened' = opened \cup {d}
    /\ pc' = [pc EXCEPT ![d] = "descs"]
    /\ UNCHANGED <<scriptVars, ffs, udc, term, vtxVars>>

\* Mutant: an error is reported and nothing else.
DaemonDescsUnchecked(d) ==
    /\ pc[d] = "descs"
    /\ ffs' = IF ffs = "descs" THEN "strings" ELSE ffs
    /\ pc' = [pc EXCEPT ![d] = "strings"]
    /\ UNCHANGED <<scriptVars, opened, udc, term, vtxVars>>

\* FunctionFS takes descriptors once; a daemon that comes too late gives up.
DaemonDescs(d) ==
    /\ pc[d] = "descs"
    /\ IF ffs = "descs"
       THEN ffs' = "strings" /\ pc' = [pc EXCEPT ![d] = "strings"] /\ UNCHANGED <<opened, udc>>
       ELSE Close(d) /\ pc' = [pc EXCEPT ![d] = "gone"]
    /\ UNCHANGED <<scriptVars, term, vtxVars>>

DaemonStrings(d) ==
    /\ pc[d] = "strings"
    /\ ffs' = "active"
    /\ pc' = [pc EXCEPT ![d] = "bind"]
    /\ UNCHANGED <<scriptVars, opened, udc, term, vtxVars>>

\* Mutant: ep0 is closed once the gadget is bound.
DaemonBindCloses(d) ==
    /\ pc[d] = "bind"
    /\ udc' = links
    /\ opened' = opened \ {d} /\ UNCHANGED ffs
    /\ pc' = [pc EXCEPT ![d] = "serve"]
    /\ UNCHANGED <<scriptVars, term, vtxVars>>

\* The result is ignored; the kernel refuses while the gadget is bound already.
DaemonBind(d) ==
    /\ pc[d] = "bind"
    /\ udc' = (udc \/ links)
    /\ pc' = [pc EXCEPT ![d] = "serve"]
    /\ UNCHANGED <<scriptVars, ffs, opened, term, vtxVars>>

\* The event loop has seen quit, which SIGTERM sets at any time before.
DaemonQuit(d) ==
    /\ pc[d] = "serve" /\ term[d]
    /\ Close(d)
    /\ pc' = [pc EXCEPT ![d] = "gone"]
    /\ UNCHANGED <<scriptVars, term, vtxVars>>

\* SIGKILL or a crash: the kernel closes its files.
DaemonDies(d) ==
    /\ DaemonMayDie /\ d \in Running
    /\ Close(d)
    /\ pc' = [pc EXCEPT ![d] = "dead"]
    /\ UNCHANGED <<scriptVars, term, vtxVars>>

DaemonStep(d) == DaemonOpen(d) \/ DaemonDescs(d) \/ DaemonStrings(d) \/ DaemonBind(d) \/ DaemonQuit(d)

----------------------------------------------------------------------------
(* vtx, as far as the gadget sees it                                       *)

\* open_vtx_endpoint; the endpoint's file is there once the strings are written.
VtxOpen ==
    /\ vtx = "starting"
    /\ IF ffs = "active"
       THEN vtx' = "running" /\ opened' = opened \cup {Client}
       ELSE vtx' = "backoff" /\ UNCHANGED opened
    /\ UNCHANGED <<scriptVars, ffs, udc, daemonVars, starts>>

\* It ends, for whatever reason.
VtxEnds ==
    /\ vtx = "running"
    /\ Close(Client)
    /\ vtx' = "backoff"
    /\ UNCHANGED <<scriptVars, daemonVars, starts>>

----------------------------------------------------------------------------
(* systemd                                                                 *)

Boot ==
    /\ unit = "boot"
    /\ unit' = "starting" /\ script' = "unbind" /\ runs' = runs + 1
    /\ UNCHANGED <<hand, links, kernelVars, daemonVars, vtxVars>>

\* systemctl restart: vtx, which requires the unit, is stopped first, and the daemons
\* that are left in the unit get SIGTERM.
RestartUnit ==
    /\ unit = "active" /\ script = "idle" /\ runs < MaxRuns
    /\ unit' = "stopping"
    /\ IF vtx = "running" THEN Close(Client) ELSE UNCHANGED kernelVars
    /\ vtx' = IF vtx = "failed" THEN "failed" ELSE "waiting"
    /\ term' = [d \in Daemon |-> term[d] \/ d \in Running \ hand]
    /\ UNCHANGED <<script, runs, hand, links, pc, starts>>

\* None of them is left, and the unit is started again.
UnitStopped ==
    /\ unit = "stopping" /\ Running \subseteq hand
    /\ unit' = "starting" /\ script' = "unbind" /\ runs' = runs + 1
    /\ UNCHANGED <<hand, links, kernelVars, daemonVars, vtxVars>>

\* A start of vtx, unless there were too many lately.
Start ==
    IF starts < StartLimit
    THEN vtx' = "starting" /\ starts' = starts + 1
    ELSE vtx' = "failed" /\ UNCHANGED starts

\* After=luckfox-usb-gadget.service: when the script has ended, not when the daemon
\* is ready.
StartVtx ==
    /\ vtx = "waiting" /\ unit = "active"
    /\ Start
    /\ UNCHANGED <<scriptVars, kernelVars, daemonVars>>

\* Restart=always, after RestartSec=1.
RestartVtx ==
    /\ vtx = "backoff"
    /\ Start
    /\ UNCHANGED <<scriptVars, kernelVars, daemonVars>>

\* vtx has been running for longer than the interval of the start limit.
ForgetStarts ==
    /\ vtx = "running" /\ starts > 0
    /\ starts' = 0
    /\ UNCHANGED <<scriptVars, kernelVars, daemonVars, vtx>>

Systemd == Boot \/ UnitStopped \/ StartVtx \/ RestartVtx

Done ==
    /\ unit \in {"active", "failed"} /\ script = "idle" /\ vtx \in {"failed", "waiting"}
    /\ UNCHANGED vars

Next ==
    \/ Script \/ RunByHand
    \/ \E d \in Daemon : DaemonStep(d) \/ DaemonDies(d)
    \/ VtxOpen \/ VtxEnds
    \/ Systemd \/ RestartUnit \/ ForgetStarts \/ Done

\* Processes run on; nothing makes the operator act, vtx end or a daemon die.
Fairness ==
    /\ WF_vars(Script) /\ WF_vars(Systemd) /\ WF_vars(VtxOpen)
    /\ \A d \in Daemon : WF_vars(DaemonStep(d))

Spec == Init /\ [][Next]_vars /\ Fairness

----------------------------------------------------------------------------
(* Properties                                                              *)

\* Every variable has its type.
TypeOK ==
    /\ unit \in {"boot", "starting", "active", "stopping", "failed"}
    /\ script \in {"idle", "unbind", "mount", "link", "kill", "launch"}
    /\ runs \in 0 .. MaxRuns /\ hand \subseteq Daemon /\ links \in BOOLEAN
    /\ ffs \in {"unmounted", "descs", "strings", "active"}
    /\ opened \subseteq Daemon \cup {Client} /\ udc \in BOOLEAN
    /\ pc \in [Daemon -> {"none", "open", "descs", "strings", "bind", "serve", "gone", "dead"}]
    /\ term \in [Daemon -> BOOLEAN]
    /\ vtx \in {"waiting", "starting", "running", "backoff", "failed"}
    /\ starts \in 0 .. StartLimit

Serving == {d \in Daemon : pc[d] = "serve"}

\* At most one daemon has written descriptors and serves or is about to: two would
\* both answer the host's requests on ep0.
OneDaemon == Cardinality({d \in Daemon : pc[d] \in {"strings", "bind", "serve"}}) <= 1

\* The set-up is in a state the script, the daemons and systemd can account for.
GadgetInv == TypeOK /\ OneDaemon

\* While a daemon serves, the network and serial interfaces stay bound and the
\* endpoint stays there, whatever vtx and other daemons do: only the script unbinds.
KeepsInterfaces ==
    [][(\E d \in Serving : pc'[d] = "serve") /\ script' = script =>
        (udc => udc') /\ ffs' = "active"]_vars

\* However often the unit is started again, in the end the gadget is bound for good,
\* unless the script is run by hand, finds no configfs or its last daemon is killed.
ComesUp ==
    <>[](udc \/ hand # {} \/ unit = "failed" \/ \E d \in Daemon : d = runs /\ pc[d] = "dead")

\* Every run of the script ends with a daemon that serves a bound gadget: it "launch[es]
\* the persistent USB daemon" (luckfox-usb-gadget.sh:52), which "keeps USB descriptors
\* active 24/7 so composite interfaces ... never drop" (luckfox-usb-daemon.c:3-4).
PersistentDaemon == (script = "launch") ~> (Serving # {} /\ udc)

\* vtx gets its endpoint: while a daemon serves, a vtx that is started, found no
\* endpoint or ended is running again, unless it met systemd's start limit.
VtxConnects ==
    (vtx = "backoff" /\ Serving # {}) ~> (vtx = "running" \/ starts = StartLimit \/ Serving = {})

\* Started by systemd in any order, the gadget and its client both end up working.
DeviceComesUp == ComesUp /\ VtxConnects

=============================================================================
