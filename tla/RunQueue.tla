------------------------------ MODULE RunQueue ------------------------------
(***************************************************************************)
(* BitBake's run queue: the scheduler of one build                         *)
(* (bitbake/lib/bb/runqueue.py, RunQueue and RunQueueExecute).             *)
(*                                                                         *)
(* A task is done for real, or a "setscene" variant of it puts in place    *)
(* what an earlier build left in the shared state cache, which covers the  *)
(* task and what only it needed.  One thread of the server calls           *)
(* _execute_runqueue() again and again; workers run the tasks and report   *)
(* their ends, and the new output hashes they find, through pipes that are *)
(* read at two places of a call.  `pc' is the place inside a call, so that *)
(* a report is seen where the code looks at it and nowhere else.           *)
(***************************************************************************)
EXTENDS Integers, FiniteSets, SequencesExt

CONSTANTS
  Tasks,         \* task ids, numbers: sorted() of the code is <
  Builds,        \* descriptions of builds, see BuildsAssumption
  Hashes,        \* unihashes
  number_tasks,  \* BB_NUMBER_THREADS
  MaxRehash,     \* bound: hash updates reported by the tasks of a build
  MaxFailures    \* bound: real tasks that fail in a build

\* What rqdata.prepare() hands over.  depends: the tasks a task needs;
\* setscene: the tasks with a setscene variant; hard: the setscene tasks a
\* setscene variant itself needs; pn and hash: the recipe's name, equal in
\* several multiconfigs, and the unihash; targets: what was asked for.
BuildsAssumption ==
  \A b \in Builds :
    /\ b.depends \in [Tasks -> SUBSET Tasks]
    /\ \A t \in Tasks : \A d \in b.depends[t] : d < t
    /\ b.setscene \subseteq Tasks
    /\ b.hard \in [b.setscene -> SUBSET b.setscene]
    /\ b.targets \subseteq Tasks /\ b.noexec \subseteq Tasks
    /\ b.hash \in [Tasks -> Hashes]
    /\ b.limited \subseteq Tasks /\ b.halt \in BOOLEAN
    /\ b.stamp \subseteq Tasks /\ b.sstamp \subseteq b.setscene \ b.stamp

ASSUME TasksAssumption == Tasks \subseteq Nat /\ IsFiniteSet(Tasks)
ASSUME NumberAssumption == number_tasks \in Nat \ {0}
ASSUME BoundsAssumption == MaxRehash \in Nat /\ MaxFailures \in Nat
ASSUME BuildAssumption == BuildsAssumption

VARIABLES
  rqdata,        \* the build, one of Builds
  hash,          \* runtaskentries[tid].unihash
  stamp,         \* tasks whose own stamp is on disk and not out of date
  sstamp,        \* tasks whose _setscene stamp is on disk
  sqdata,        \* the collapsed graph of the setscene tasks
  state,         \* RunQueueState
  pc,            \* place in _execute_runqueue() and execute()
  active,        \* real tasks the workers run, stats.active of them
  sq_live,       \* setscene tasks the workers run
  runq_buildable, runq_running, runq_complete, runq_tasksrun, failed_tids,
  sq_buildable, sq_running, sq_deferred, sq_needed_harddeps, sq_harddep_deferred,
  scenequeue_covered, scenequeue_notcovered, scenequeue_notneeded,
  tasks_covered, tasks_notcovered, tasks_scenequeue_done,
  valid, outrightfail,
  holdoff_tasks, holdoff_need_update, sqdone,
  updated_taskhash_queue, pending_migrations,
  rehashes,      \* hash updates reported so far, at most MaxRehash
  interrupted    \* the user asked to stop

diskVars == <<stamp, sstamp>>
workVars == <<active, sq_live>>
runqVars == <<runq_buildable, runq_running, runq_complete, runq_tasksrun, failed_tids>>
sqVars == <<sq_buildable, sq_running, scenequeue_covered, scenequeue_notcovered,
            tasks_scenequeue_done, sq_harddep_deferred, holdoff_need_update>>
hardVars == <<sq_needed_harddeps, scenequeue_notneeded>>
validVars == <<valid, outrightfail>>
coverVars == <<tasks_covered, tasks_notcovered, holdoff_tasks, sqdone>>
hashVars == <<hash, updated_taskhash_queue, pending_migrations, rehashes>>
vars == <<rqdata, sqdata, state, pc, interrupted, sq_deferred, diskVars, workVars, runqVars,
          sqVars, hardVars, validVars, coverVars, hashVars>>

Setscene == rqdata.setscene
Depends(t) == rqdata.depends[t]
Revdeps(t) == {r \in Tasks : t \in Depends(r)}

-----------------------------------------------------------------------------
(* Stamps: which work of earlier builds, and of this one, is current.      *)

\* check_stamp_task(tid) without recursion: the stamp is there, and no
\* dependency of the same recipe is missing or newer, unless the dependency
\* came from its setscene variant.
StampCurrent(t) ==
  /\ t \in stamp
  /\ \A d \in Depends(t) : rqdata.pn[d] = rqdata.pn[t] => d \in stamp \/ d \in sstamp

\* check_stamp_task(tid, recurse = True).
StampCurrentDeep ==
  LET cur[t \in Tasks] ==
        /\ StampCurrent(t)
        /\ \A d \in Depends(t) :
             rqdata.pn[d] = rqdata.pn[t] => cur[d] \/ d \in sstamp \ stamp
  IN cur

\* check_setscene_stamps(): noexec, or its own or the task's stamp is current.
SceneStamped ==
  {t \in Setscene : t \in rqdata.noexec \/ t \in sstamp \/ StampCurrentDeep[t]}

-----------------------------------------------------------------------------
(* build_scenequeue_data(): the graph of all tasks collapsed to the        *)
(* setscene tasks.                                                         *)

\* Mutant: the new points of a round start without what is above them.
ProcessPointBare(g, point) ==
  LET tasks == {s \in Setscene : <<point, s>> \in g.endpoints}
      left == g.revdeps \ {<<d, point>> : d \in Depends(point)}
  IN IF point \in Setscene
     THEN [g EXCEPT !.squash = @ \union ({point} \X tasks)]
     ELSE [g EXCEPT
            !.collated = @ \union (tasks \X {point}),
            !.squash = (@ \ ({point} \X Setscene)) \union (Depends(point) \X tasks),
            !.revdeps = left,
            !.newpoints = @ \union (Depends(point) \ Setscene)]

\* One point of process_endpoints(): a setscene task collects the setscene
\* tasks above it, any other task hands them down to what it depends on.
\* The dictionaries are relations: point to setscene task.
ProcessPoint(g, point) ==
  LET tasks == {s \in Setscene : <<point, s>> \in g.endpoints \union g.squash}
      left == g.revdeps \ {<<d, point>> : d \in Depends(point)}
      fresh == {d \in Depends(point) \ Setscene : ~\E r \in Tasks : <<d, r>> \in left}
  IN IF point \in Setscene
     THEN [g EXCEPT !.squash = @ \union ({point} \X tasks)]
     ELSE [g EXCEPT
            !.collated = @ \union (tasks \X {point}),
            !.squash = (@ \ ({point} \X Setscene)) \union (Depends(point) \X tasks),
            !.revdeps = left,
            !.newpoints = @ \union fresh,
            !.newendpoints = (@ \ (fresh \X Setscene)) \union
               (fresh \X {s \in Setscene : <<point, s>> \in g.endpoints})]

\* process_endpoints(): point after point, then the points found on the way.
ProcessEndpoints(g) ==
  IF g.points = {}
  THEN [g EXCEPT !.points = g.newpoints, !.endpoints = g.newendpoints,
                 !.newpoints = {}, !.newendpoints = {}]
  ELSE LET point == CHOOSE p \in g.points : \A q \in g.points : p <= q
       IN ProcessPoint([g EXCEPT !.points = @ \ {point}], point)

CollapsedGraph ==
  LET above == {e \in Tasks \X Setscene : e[1] \in Depends(e[2])}
      start == [points |-> {t \in Tasks : \/ Revdeps(t) \intersect Setscene # {}
                                          \/ Revdeps(t) = {} /\ t \notin Setscene},
                endpoints |-> above, newpoints |-> {}, newendpoints |-> {},
                collated |-> {}, squash |-> {},
                revdeps |-> {e \in Tasks \X (Tasks \ Setscene) : e[1] \in Depends(e[2])}]
      round[n \in Nat] ==
        IF n = 0 THEN start ELSE LET g == round[n - 1] IN ProcessEndpoints(g)
  IN round[(Cardinality(Tasks) + 1) * (Cardinality(Tasks) + 1)]

\* The requested tasks that have no setscene variant.
CantSkip == rqdata.targets \ Setscene

\* Unskippable: the end points of the build and the targets, and what they
\* need down to the first setscene tasks.
Unskippable ==
  LET grow[n \in Nat] ==
        IF n = 0 THEN {t \in Tasks : Revdeps(t) = {}} \union CantSkip
        ELSE LET g == grow[n - 1] IN g \union UNION {Depends(t) : t \in g \ Setscene}
  IN grow[Cardinality(Tasks)]

\* pending_hash_index(): the recipe's name and the unihash.
HashIndex(t, h) == <<rqdata.pn[t], h[t]>>

\* sqdata.hashes: the first setscene task with each index.
FirstWithHash ==
  [x \in {HashIndex(t, hash) : t \in Setscene} |->
     CHOOSE t \in Setscene : HashIndex(t, hash) = x /\
        \A u \in Setscene : HashIndex(u, hash) = x => t <= u]

SqRevdeps(s) == sqdata.sq_revdeps[s]
SqCovered(s) == sqdata.sq_covered_tasks[s]
SqDeps(s) == {d \in Setscene : s \in SqRevdeps(d)}
\* sqdata.sq_harddeps: the setscene tasks that cannot do without s.
HardDependents(s) == {d \in Setscene : s \in rqdata.hard[d]}

-----------------------------------------------------------------------------
(* The setscene bookkeeping as one record: what the sq_task_* functions    *)
(* change, alone or several of them in a row.                              *)

Scene == [buildable |-> sq_buildable, running |-> sq_running,
          covered |-> scenequeue_covered, notcovered |-> scenequeue_notcovered,
          done |-> tasks_scenequeue_done, harddeferred |-> sq_harddep_deferred]

SceneBecomes(q) ==
  /\ sq_buildable' = q.buildable /\ sq_running' = q.running
  /\ scenequeue_covered' = q.covered /\ scenequeue_notcovered' = q.notcovered
  /\ tasks_scenequeue_done' = q.done /\ sq_harddep_deferred' = q.harddeferred

\* The walk of scenequeue_updatecounters() down from ts: a task without a
\* setscene variant is done when everything that needs it is.
DoneWalk(done, ts) ==
  LET walk[n \in Nat] ==
        IF n = 0 THEN [done |-> done \union ts, next |-> ts]
        ELSE LET w == walk[n - 1]
                 new == {d \in UNION {Depends(t) : t \in w.next} :
                           d \notin Setscene \union w.done /\ Revdeps(d) \subseteq w.done}
             IN [done |-> w.done \union new, next |-> new]
  IN walk[Cardinality(Tasks)].done

\* Mutant: looks at the dependencies in the graph of all tasks.
CountedAllTasks(q, ts) ==
  LET handled == q.covered \union q.notcovered
  IN [q EXCEPT
       !.buildable = @ \union UNION {Depends(t) : t \in ts},
       !.done = DoneWalk(@, ts),
       !.harddeferred = IF \E t \in ts : HardDependents(t) # {}
                        THEN {d \in @ : ~(rqdata.hard[d] \subseteq handled)} ELSE @]

\* scenequeue_updatecounters() for each of ts, once all are marked.
Counted(q, ts) ==
  LET handled == q.covered \union q.notcovered
  IN [q EXCEPT
       !.buildable = @ \union {d \in UNION {SqDeps(t) : t \in ts} : SqRevdeps(d) \subseteq handled},
       !.done = DoneWalk(@, ts),
       !.harddeferred = IF \E t \in ts : HardDependents(t) # {}
                        THEN {d \in @ : ~(rqdata.hard[d] \subseteq handled)} ELSE @]

\* sq_task_completeoutright().
CompletedScene(q, ts) == Counted([q EXCEPT !.covered = @ \union ts], ts)

\* sq_task_skip() of each of ts.
SkippedScene(q, ts) ==
  CompletedScene([q EXCEPT !.running = @ \union ts, !.buildable = @ \union ts], ts)

\* The setscene tasks that fail with ts: those that have a hard dependency
\* on one of them and are neither handled nor among the ones with a stamp.
FailsWith(q, ts, stamped) ==
  LET fails[n \in Nat] ==
        IF n = 0 THEN ts
        ELSE LET f == fails[n - 1]
             IN f \union ((UNION {HardDependents(t) : t \in f})
                             \ (q.covered \union q.notcovered \union stamped))
  IN fails[Cardinality(Tasks)]

\* sq_task_fail() of a task that ran.
FailedScene(q, t, stamped) ==
  LET all == FailsWith(q, {t}, stamped)
  IN Counted([q EXCEPT !.notcovered = @ \union all,
                       !.running = @ \union (all \ {t}), !.buildable = @ \union (all \ {t})], all)

\* sq_task_failoutright() of each of ts.
FailedOutright(q, ts, stamped) ==
  LET all == FailsWith(q, ts, stamped)
  IN Counted([q EXCEPT !.notcovered = @ \union all,
                       !.running = @ \union all, !.buildable = @ \union all], all)

\* update_scenequeue_data(): the tids with a stamp are skipped, q is the
\* bookkeeping after that; of the others the state cache says which it has
\* (any answer), and what it does not have, and is not deferred, is to fail
\* outright when its turn comes.
UpdateValid(tids, stamped, q, deferred) ==
  \E v \in SUBSET (tids \ stamped) :
    /\ valid' = (valid \ tids) \union v
    /\ outrightfail' = (outrightfail \ tids) \union
         (tids \ (stamped \union v \union q.covered \union q.notcovered \union deferred))

-----------------------------------------------------------------------------
(* Preparation.                                                            *)

Init ==
  /\ rqdata \in Builds
  /\ hash = rqdata.hash
  /\ stamp = rqdata.stamp /\ sstamp = rqdata.sstamp
  /\ sqdata = <<>>
  /\ state = "SCENE_INIT" /\ pc = "loop" /\ interrupted = 0
  /\ active = {} /\ sq_live = {}
  /\ runq_buildable = {} /\ runq_running = {} /\ runq_complete = {} /\ runq_tasksrun = {}
  /\ failed_tids = {}
  /\ sq_buildable = {} /\ sq_running = {} /\ sq_deferred = <<>>
  /\ sq_needed_harddeps = {} /\ sq_harddep_deferred = {}
  /\ scenequeue_covered = {} /\ scenequeue_notcovered = {} /\ scenequeue_notneeded = {}
  /\ tasks_covered = {} /\ tasks_notcovered = {} /\ tasks_scenequeue_done = {}
  /\ valid = {} /\ outrightfail = {}
  /\ holdoff_tasks = {} /\ holdoff_need_update = TRUE /\ sqdone = FALSE
  /\ updated_taskhash_queue = {} /\ pending_migrations = {} /\ rehashes = 0

\* SCENE_INIT: build_scenequeue_data() makes the collapsed graph and the
\* deferred twins, update_scenequeue_data() looks at stamps and cache.
\* Without setscene tasks all of that is skipped.
SceneQueue ==
  LET g == CollapsedGraph
  IN /\ sqdata' = [sq_revdeps |-> [s \in Setscene |-> {r \in Setscene : <<s, r>> \in g.squash}],
                   sq_covered_tasks |-> [s \in Setscene |-> {t \in Tasks : <<s, t>> \in g.collated}],
                   unskippable |-> Unskippable,
                   hashes |-> FirstWithHash]
     /\ sq_deferred' = LET first == FirstWithHash
                           second == {t \in Setscene : first[HashIndex(t, hash)] # t}
                       IN [t \in second |-> first[HashIndex(t, hash)]]

SceneInit ==
  /\ pc = "loop" /\ state = "SCENE_INIT"
  /\ sqdata = <<>>
  /\ SceneQueue
  /\ UNCHANGED <<rqdata, state, pc, interrupted, diskVars, workVars, runqVars, sqVars,
                 hardVars, validVars, coverVars, hashVars>>

SceneStart ==
  /\ pc = "loop" /\ state = "SCENE_INIT"
  /\ sqdata # <<>>
  /\ state' = "RUNNING"
  /\ LET roots == {t \in Tasks : Depends(t) = {}}
         q == [Scene EXCEPT !.buildable = {s \in Setscene : SqRevdeps(s) = {}},
                            !.done = sqdata.unskippable \ Setscene]
         skipped == SkippedScene(q, SceneStamped)
     IN /\ UpdateValid(Setscene, SceneStamped, skipped, DOMAIN sq_deferred)
        /\ SceneBecomes(skipped)
        /\ runq_buildable' = runq_buildable \union
             (IF Setscene = {} THEN roots ELSE roots \intersect (sqdata.unskippable \ Setscene))
        /\ tasks_notcovered' = IF Setscene = {} THEN Tasks ELSE {}
        /\ sqdone' = (Setscene = {})
  /\ holdoff_need_update' = TRUE
  /\ UNCHANGED <<rqdata, sqdata, pc, interrupted, sq_deferred, diskVars, workVars,
                 runq_running, runq_complete, runq_tasksrun, failed_tids, hardVars,
                 tasks_covered, holdoff_tasks, hashVars>>

-----------------------------------------------------------------------------
(* _execute_runqueue() and finish().                                       *)

Quiet == UNCHANGED <<rqdata, sqdata, interrupted>>

Finished == IF failed_tids # {} THEN "FAILED" ELSE "COMPLETE"

\* finish(): the build ends when the last task of the workers has.
Finish ==
  /\ pc = "loop" /\ state = "CLEAN_UP"
  /\ IF active \union sq_live # {}
     THEN pc' = "wait" /\ UNCHANGED state
     ELSE pc' = "loop" /\ state' = Finished
  /\ Quiet
  /\ UNCHANGED <<sq_deferred, diskVars, workVars, runqVars, sqVars, hardVars, validVars,
                 coverVars, hashVars>>

\* The end of the build: the workers are torn down.
BuildDone ==
  /\ pc = "loop" /\ state \in {"COMPLETE", "FAILED"}
  /\ pc' = "done"
  /\ active' = {} /\ sq_live' = {}
  /\ Quiet
  /\ UNCHANGED <<state, sq_deferred, diskVars, runqVars, sqVars, hardVars, validVars,
                 coverVars, hashVars>>

\* buildTargetsIdle() of the cooker sees the first interrupt of the user:
\* finish(); or a second one: finish_now().
Shutdown ==
  /\ pc = "loop" /\ state = "RUNNING" /\ interrupted = 0
  /\ interrupted' = 1 /\ state' = "CLEAN_UP"
  /\ UNCHANGED <<rqdata, sqdata, pc, sq_deferred, diskVars, workVars, runqVars, sqVars,
                 hardVars, validVars, coverVars, hashVars>>

ForceShutdown ==
  /\ pc = "loop" /\ state \in {"RUNNING", "CLEAN_UP"}
  /\ interrupted' = 2 /\ state' = Finished
  /\ UNCHANGED <<rqdata, sqdata, pc, sq_deferred, diskVars, workVars, runqVars, sqVars,
                 hardVars, validVars, coverVars, hashVars>>

-----------------------------------------------------------------------------
(* read_workers(): reports of the workers, at the start of execute() and   *)
(* where a call has nothing left to start.                                 *)

PassStarts == pc = "loop" /\ state = "RUNNING"
Reading == pc \in {"read", "wait"} \/ PassStarts
AfterRead == pc' = IF pc = "wait" THEN "loop" ELSE "read"

\* Mutant: one complete dependency makes a task buildable.
CompleteOutrightEarly(t, buildable) ==
  /\ runq_complete' = runq_complete \union {t}
  /\ runq_buildable' = buildable \union (Revdeps(t) \ runq_running)
  /\ UNCHANGED <<sq_deferred, validVars, sqVars>>

\* task_completeoutright(): what waited for the last dependency becomes
\* buildable; of the setscene tasks deferred on this one the first is
\* released, and the others wait for that one.
CompleteOutright(t, buildable) ==
  LET waiting == {u \in DOMAIN sq_deferred : sq_deferred[u] = t}
      first == CHOOSE u \in waiting : \A w \in waiting : u <= w
      deferred == [u \in DOMAIN sq_deferred \ {first} |->
                     IF u \in waiting THEN first ELSE sq_deferred[u]]
      present == {first} \intersect SceneStamped
      skipped == SkippedScene(Scene, present)
  IN /\ runq_complete' = runq_complete \union {t}
     /\ runq_buildable' = buildable \union
          {r \in Revdeps(t) : r \notin runq_running /\ Depends(r) \subseteq runq_complete'}
     /\ IF waiting = {}
        THEN UNCHANGED <<sq_deferred, validVars, sqVars>>
        ELSE /\ sq_deferred' = deferred
             /\ UpdateValid({first}, present, skipped, DOMAIN deferred)
             /\ SceneBecomes(skipped)
             /\ holdoff_need_update' = (holdoff_need_update \/ present # {})

\* make_stamp() of a task: stamps of the same recipe that build on it are
\* older than it from now on.
Stamped(t) == (stamp \ {r \in Revdeps(t) : rqdata.pn[r] = rqdata.pn[t]}) \union {t}

\* runqueue_process_waitpid() of a real task.
TaskComplete(t) ==
  /\ Reading /\ t \in active
  /\ active' = active \ {t}
  /\ CompleteOutright(t, runq_buildable)
  /\ runq_tasksrun' = runq_tasksrun \union {t}
  /\ stamp' = Stamped(t) /\ sstamp' = sstamp \ {t}
  /\ AfterRead /\ Quiet
  /\ UNCHANGED <<state, sq_live, runq_running, failed_tids, hardVars, coverVars, hashVars>>

\* Mutant: the first failure ends every build.
TaskFailHalts(t) ==
  /\ Reading /\ t \in active
  /\ Cardinality(failed_tids) < MaxFailures
  /\ active' = active \ {t}
  /\ failed_tids' = failed_tids \union {t}
  /\ state' = "CLEAN_UP"
  /\ AfterRead /\ Quiet
  /\ UNCHANGED <<sq_live, sq_deferred, diskVars, runq_buildable, runq_running, runq_complete,
                 runq_tasksrun, sqVars, hardVars, validVars, coverVars, hashVars>>

TaskFail(t) ==
  /\ Reading /\ t \in active
  /\ Cardinality(failed_tids) < MaxFailures
  /\ active' = active \ {t}
  /\ failed_tids' = failed_tids \union {t}
  /\ state' = IF rqdata.halt THEN "CLEAN_UP" ELSE state
  /\ AfterRead /\ Quiet
  /\ UNCHANGED <<sq_live, sq_deferred, diskVars, runq_buildable, runq_running, runq_complete,
                 runq_tasksrun, sqVars, hardVars, validVars, coverVars, hashVars>>

\* runqueue_process_waitpid() of a setscene task.
SceneComplete(t) ==
  /\ Reading /\ t \in sq_live
  /\ sq_live' = sq_live \ {t}
  /\ SceneBecomes(CompletedScene(Scene, {t}))
  /\ holdoff_need_update' = TRUE
  /\ sstamp' = sstamp \union {t} /\ stamp' = stamp \ {t}
  /\ AfterRead /\ Quiet
  /\ UNCHANGED <<state, sq_deferred, active, runqVars, hardVars, validVars, coverVars, hashVars>>

SceneFail(t) ==
  /\ Reading /\ t \in sq_live
  /\ sq_live' = sq_live \ {t}
  /\ SceneBecomes(FailedScene(Scene, t, SceneStamped))
  /\ holdoff_need_update' = TRUE
  /\ AfterRead /\ Quiet
  /\ UNCHANGED <<state, sq_deferred, diskVars, active, runqVars, hardVars, validVars,
                 coverVars, hashVars>>

\* A running task found its output equal to that of another hash and the
\* hash equivalence server gave it a new unihash: a taskUniHashUpdate event.
HashReport(t, h) ==
  /\ Reading /\ t \in active \intersect Setscene /\ h # hash[t]
  /\ rehashes < MaxRehash
  /\ rehashes' = rehashes + 1
  /\ updated_taskhash_queue' = updated_taskhash_queue \union {<<t, h>>}
  /\ AfterRead /\ Quiet
  /\ UNCHANGED <<state, sq_deferred, diskVars, workVars, runqVars, sqVars, hardVars,
                 validVars, coverVars, hash, pending_migrations>>

ReadEnd ==
  /\ pc = "read" \/ PassStarts
  /\ pc' = IF updated_taskhash_queue # {} \/ pending_migrations # {} THEN "migrate" ELSE "setscene"
  /\ Quiet
  /\ UNCHANGED <<state, sq_deferred, diskVars, workVars, runqVars, sqVars, hardVars,
                 validVars, coverVars, hashVars>>

-----------------------------------------------------------------------------
(* process_possible_migrations(): a new unihash of a task changes the      *)
(* hashes of all tasks above it, and the state cache may now have them.    *)

Unfinished(t) == t \in runq_running \ runq_complete

\* Everything that depends on one of ts.
Above(ts) ==
  LET up[n \in Nat] == IF n = 0 THEN UNION {Revdeps(t) : t \in ts}
                       ELSE LET u == up[n - 1] IN u \union UNION {Revdeps(t) : t \in u}
  IN up[Cardinality(Tasks)]

\* Reports of tasks that still run stay in the queue; the others are taken,
\* for the task and for the setscene tasks deferred on it.
TakenReports == {r \in updated_taskhash_queue : ~Unfinished(r[1]) /\ r[2] # hash[r[1]]}
ReportedHash ==
  [t \in {u \in Tasks : \E r \in TakenReports :
                          u = r[1] \/ (u \in DOMAIN sq_deferred /\ sq_deferred[u] = r[1])} |->
     LET r == CHOOSE r \in TakenReports :
                t = r[1] \/ (t \in DOMAIN sq_deferred /\ sq_deferred[t] = r[1])
     IN r[2]]

\* The rehash of the tasks above, in dependency order: the new hash of each
\* is what the server says, and stays as it was when nothing below changed.
\* A setscene task that is covered or runs keeps its hash.
MayChange(changed, given) ==
  \A t \in changed : /\ t \notin scenequeue_covered \union sq_live
                     /\ Depends(t) \intersect (changed \union DOMAIN given) # {}

\* "Too late, task already running, not much we can do now".
TooLate(t) == t \in runq_running \union sq_live

\* Mutant: what the task covers may be running.
BlockedNever(t) == FALSE

\* "Check no tasks this covers are running".
Blocked(t) == \E d \in SqCovered(t) : Unfinished(d)

\* The covered tasks of t that completed without having run.
SkippedUnder(t) == {d \in SqCovered(t) : d \in runq_complete \ runq_tasksrun}

\* The reset of the setscene tasks in ts, whose hash changed in time.
Reset(ts) ==
  LET undone == ts \union {d \in UNION {SqCovered(t) : t \in ts} :
                             d \notin runq_complete \union sqdata.unskippable}
  IN [Scene EXCEPT !.done = @ \ undone, !.running = @ \ ts, !.covered = @ \ ts,
                   !.notcovered = @ \ ts, !.buildable = @ \ ts]

MigrateStep(given, changed, new) ==
  LET pending == pending_migrations \union (changed \intersect Setscene)
      late == {t \in pending : TooLate(t)}
      blocked == {t \in pending \ late : Blocked(t)}
      moved == pending \ (late \union blocked)
      wrong == {t \in moved : SkippedUnder(t) # {}}
      q == Reset(moved)
      hardfail == {t \in moved : rqdata.hard[t] \intersect q.notcovered # {}}
      ready == {t \in moved : SqRevdeps(t) = {} \/
                  (t \notin hardfail /\ SqRevdeps(t) \subseteq q.covered \union q.notcovered)}
      twin(t) == LET x == HashIndex(t, new)
                 IN IF x \in DOMAIN sqdata.hashes THEN sqdata.hashes[x] ELSE t
      again == {t \in moved : twin(t) # t}
      deferred == [t \in DOMAIN sq_deferred \union again |->
                     IF t \in again THEN twin(t) ELSE sq_deferred[t]]
  IN /\ hash' = new
     /\ updated_taskhash_queue' = {r \in updated_taskhash_queue : Unfinished(r[1])}
     /\ stamp' = stamp \ (changed \union DOMAIN given)
     /\ sstamp' = sstamp \ (changed \union DOMAIN given)
     /\ IF wrong # {}
        THEN \* bb.error(): completed but now needing to rerun
             \E t \in wrong, before \in SUBSET (moved \ wrong) :
               /\ failed_tids' = failed_tids \union {t}
               /\ state' = "CLEAN_UP"
               /\ SceneBecomes([Reset(before) EXCEPT !.done = @ \ {t}])
               /\ pending_migrations' = blocked \union (moved \ (before \union {t}))
               /\ scenequeue_notneeded' = scenequeue_notneeded \ before
               /\ outrightfail' = outrightfail \ before
               /\ UNCHANGED <<sq_deferred, sq_needed_harddeps, valid, sqdone, holdoff_need_update>>
        ELSE LET stamped == moved \intersect SceneStamped'
                 skipped == SkippedScene([q EXCEPT !.buildable = @ \union ready], stamped)
                 failed == FailedOutright(skipped, hardfail, SceneStamped')
                 touched == changed \union moved # {}
             IN /\ pending_migrations' = blocked
                /\ scenequeue_notneeded' = scenequeue_notneeded \ moved
                /\ sq_deferred' = deferred
                /\ UpdateValid(moved, stamped, skipped, DOMAIN deferred)
                /\ SceneBecomes([failed EXCEPT !.harddeferred = IF touched THEN {} ELSE @])
                /\ sq_needed_harddeps' = IF touched THEN {} ELSE sq_needed_harddeps
                /\ sqdone' = (sqdone /\ moved = {})
                /\ holdoff_need_update' = (holdoff_need_update \/ touched)
                /\ UNCHANGED <<state, failed_tids>>

Migrate ==
  /\ pc = "migrate"
  /\ pc' = "setscene"
  /\ Quiet
  /\ LET given == ReportedHash
     IN \E changed \in SUBSET Above(DOMAIN given) :
          /\ MayChange(changed, given)
          /\ \E to \in [changed -> Hashes] :
               /\ \A t \in changed : to[t] # hash[t]
               /\ MigrateStep(given, changed,
                    [t \in Tasks |-> IF t \in changed THEN to[t]
                                     ELSE IF t \in DOMAIN given THEN given[t] ELSE hash[t]])
  /\ UNCHANGED <<workVars, runq_buildable, runq_running, runq_complete, runq_tasksrun,
                 tasks_covered, tasks_notcovered, holdoff_tasks, rehashes>>

-----------------------------------------------------------------------------
(* execute(), the setscene part: one candidate after the other.            *)

\* can_start_task(), once n more tasks have been started.
RoomAfter(n) == Cardinality(active) + Cardinality(sq_live) + n < number_tasks
CanStart == RoomAfter(0)

SceneCandidates ==
  IF sqdone \/ ~CanStart THEN {}
  ELSE {n \in (Setscene \intersect sq_buildable) \ (sq_running \union active \union sq_harddep_deferred) :
          n \in DOMAIN sq_deferred => sq_deferred[n] \in runq_complete}

Undeferred(n) == [u \in DOMAIN sq_deferred \ {n} |-> sq_deferred[u]]

\* Everything that needs it is covered already: check_dependencies() may
\* find that nobody needs the setscene task itself either.
SceneNotNeeded(n) ==
  /\ pc = "setscene" /\ n \in SceneCandidates
  /\ n \notin sqdata.unskippable \union sq_needed_harddeps \union rqdata.targets
  /\ SqRevdeps(n) # {} /\ SqRevdeps(n) \subseteq scenequeue_covered
  /\ SceneBecomes(SkippedScene(Scene, {n}))
  /\ holdoff_need_update' = TRUE
  /\ scenequeue_notneeded' = scenequeue_notneeded \union {n}
  /\ sq_deferred' = Undeferred(n)
  /\ pc' = "loop" /\ Quiet
  /\ UNCHANGED <<state, diskVars, workVars, runqVars, sq_needed_harddeps, validVars,
                 coverVars, hashVars>>

HardDepsHandled(n) == rqdata.hard[n] \subseteq scenequeue_covered \union scenequeue_notcovered

\* Put off until the setscene tasks it cannot do without are handled.
SceneHardDefer(n) ==
  /\ pc = "setscene" /\ n \in SceneCandidates /\ ~HardDepsHandled(n)
  /\ sq_buildable' = sq_buildable \union (rqdata.hard[n] \ sq_needed_harddeps)
  /\ sq_needed_harddeps' = sq_needed_harddeps \union rqdata.hard[n]
  /\ sq_harddep_deferred' = sq_harddep_deferred \union {n}
  /\ pc' = IF rqdata.hard[n] \subseteq sq_needed_harddeps THEN "setscene" ELSE "loop"
  /\ Quiet
  /\ UNCHANGED <<state, sq_deferred, diskVars, workVars, runqVars, sq_running,
                 scenequeue_covered, scenequeue_notcovered, tasks_scenequeue_done,
                 holdoff_need_update, scenequeue_notneeded, validVars, coverVars, hashVars>>

\* The state cache does not have it (asked again after a deferral), or the
\* task itself is current: it is not covered.
SceneReject(n) ==
  /\ pc = "setscene" /\ n \in SceneCandidates /\ HardDepsHandled(n)
  /\ n \in DOMAIN sq_deferred \/ n \in outrightfail \/ StampCurrentDeep[n]
  /\ SceneBecomes(FailedOutright(Scene, {n}, SceneStamped))
  /\ holdoff_need_update' = TRUE
  /\ sq_deferred' = Undeferred(n)
  /\ pc' = "loop" /\ Quiet
  /\ UNCHANGED <<state, diskVars, workVars, runqVars, hardVars, validVars, coverVars, hashVars>>

\* (A setscene stamp that is current is not met here: every place that makes
\* a setscene task a candidate skips the ones with a stamp.)
SceneRun(n) ==
  /\ pc = "setscene" /\ n \in SceneCandidates /\ HardDepsHandled(n)
  /\ n \notin outrightfail /\ ~StampCurrentDeep[n]
  /\ sq_running' = sq_running \union {n}
  /\ sq_live' = sq_live \union {n}
  /\ sq_deferred' = Undeferred(n)
  /\ pc' = IF RoomAfter(1) THEN "loop" ELSE "holdoff"
  /\ Quiet
  /\ UNCHANGED <<state, diskVars, active, runqVars, sq_buildable, scenequeue_covered,
                 scenequeue_notcovered, tasks_scenequeue_done, sq_harddep_deferred,
                 holdoff_need_update, hardVars, validVars, coverVars, hashVars>>

-----------------------------------------------------------------------------
(* update_holdofftasks() and the end of the setscene part.                 *)

NotCovered ==
  (scenequeue_notcovered \union CantSkip \union (UNION {SqCovered(t) : t \in scenequeue_notcovered})
     \union (sqdata.unskippable \ Setscene)) \intersect tasks_scenequeue_done

\* Mutant: a task below a covered setscene task counts as covered, needed by
\* others or not.
CoveredAll == scenequeue_covered \union UNION {SqCovered(t) : t \in scenequeue_covered}

Covered ==
  ((scenequeue_covered \union UNION {SqCovered(t) : t \in scenequeue_covered}) \ NotCovered)
     \intersect tasks_scenequeue_done

\* Neither covered nor not covered yet, and what such a task may cover.
HoldOff ==
  LET open == Setscene \ (scenequeue_covered \union scenequeue_notcovered)
  IN open \union ((UNION {SqCovered(t) : t \in open}) \ runq_complete)

\* summarise_scenequeue_errors().
SceneErrors(tcovered, tnotcovered, buildable, holdoff) ==
  \/ sq_deferred # <<>> \/ updated_taskhash_queue # {} \/ holdoff # {}
  \/ ~(Setscene \subseteq scenequeue_covered \union scenequeue_notcovered)
  \/ ~(Setscene \subseteq sq_buildable \intersect sq_running)
  \/ ~(Tasks \subseteq (tcovered \union tnotcovered) \intersect tasks_scenequeue_done)
  \/ ~({t \in Tasks : Depends(t) = {}} \subseteq buildable)

UpdateHoldOff ==
  IF holdoff_need_update
  THEN /\ tasks_covered' = Covered /\ tasks_notcovered' = NotCovered
       /\ runq_buildable' = runq_buildable \union
            {t \in Covered \union NotCovered : Depends(t) \subseteq runq_complete}
       /\ holdoff_tasks' = HoldOff
       /\ holdoff_need_update' = FALSE
  ELSE UNCHANGED <<tasks_covered, tasks_notcovered, runq_buildable, holdoff_tasks,
                   holdoff_need_update>>

HoldOffStep ==
  /\ pc = "holdoff" \/ (pc = "setscene" /\ SceneCandidates = {})
  /\ UpdateHoldOff
  /\ IF /\ sq_live = {} /\ ~sqdone /\ sq_deferred = <<>>
        /\ updated_taskhash_queue = {} /\ holdoff_tasks' = {}
     THEN IF SceneErrors(tasks_covered', tasks_notcovered', runq_buildable', holdoff_tasks')
          THEN state' = "FAILED" /\ pc' = "loop" /\ UNCHANGED sqdone
          ELSE sqdone' = TRUE /\ pc' = "task" /\ UNCHANGED state
     ELSE pc' = "task" /\ UNCHANGED <<sqdone, state>>
  /\ Quiet
  /\ UNCHANGED <<sq_deferred, diskVars, workVars, runq_running, runq_complete, runq_tasksrun,
                 failed_tids, sq_buildable, sq_running, scenequeue_covered,
                 scenequeue_notcovered, tasks_scenequeue_done, sq_harddep_deferred, hardVars,
                 validVars, hashVars>>

-----------------------------------------------------------------------------
(* The scheduler and the real tasks.                                       *)

\* next_buildable_task(): at most one unfinished task of the limited name;
\* the priority among the candidates is left open.  Every task has a stamp
\* of its own here: of tasks that share one the code starts the second when
\* the first has ended (build_stamps).
NextTasks ==
  IF ~CanStart THEN {}
  ELSE {t \in (runq_buildable \ (runq_running \union holdoff_tasks))
                \intersect (tasks_covered \union tasks_notcovered) :
          t \in rqdata.limited => ~\E u \in rqdata.limited : Unfinished(u)}

\* Nothing to do for it: covered by a setscene task, or its stamp is current.
TaskSkip(t) ==
  /\ pc = "task" /\ t \in NextTasks
  /\ t \in tasks_covered \/ StampCurrent(t)
  /\ runq_running' = runq_running \union {t}
  /\ CompleteOutright(t, runq_buildable \union {t})
  /\ runq_tasksrun' = IF t \in tasks_covered THEN runq_tasksrun ELSE runq_tasksrun \union {t}
  /\ pc' = "loop" /\ Quiet
  /\ UNCHANGED <<state, diskVars, workVars, failed_tids, hardVars, coverVars, hashVars>>

TaskNoExec(t) ==
  /\ pc = "task" /\ t \in NextTasks \intersect rqdata.noexec
  /\ t \notin tasks_covered /\ ~StampCurrent(t)
  /\ runq_running' = runq_running \union {t}
  /\ CompleteOutright(t, runq_buildable)
  /\ runq_tasksrun' = runq_tasksrun \union {t}
  /\ stamp' = Stamped(t) /\ sstamp' = sstamp \ {t}
  /\ pc' = "loop" /\ Quiet
  /\ UNCHANGED <<state, workVars, failed_tids, hardVars, coverVars, hashVars>>

TaskRun(t) ==
  /\ pc = "task" /\ t \in NextTasks \ rqdata.noexec
  /\ t \notin tasks_covered /\ ~StampCurrent(t)
  /\ runq_running' = runq_running \union {t}
  /\ active' = active \union {t}
  /\ pc' = IF RoomAfter(1) THEN "loop" ELSE "wait"
  /\ Quiet
  /\ UNCHANGED <<state, sq_deferred, diskVars, sq_live, runq_buildable, runq_complete,
                 runq_tasksrun, failed_tids, sqVars, hardVars, validVars, coverVars, hashVars>>

\* Nothing to start, or the machine is under pressure while a task runs.
TaskWait ==
  /\ pc = "task" /\ active \union sq_live # {}
  /\ NextTasks = {} \/ active # {}
  /\ pc' = "wait"
  /\ Quiet
  /\ UNCHANGED <<state, sq_deferred, diskVars, workVars, runqVars, sqVars, hardVars,
                 validVars, coverVars, hashVars>>

\* Mutant: the deadlock is reported and nothing is let go.
ForceDeferredNot ==
  /\ pc = "task" /\ NextTasks = {} /\ active \union sq_live = {}
  /\ sq_deferred # <<>>
  /\ pc' = "loop" /\ Quiet
  /\ UNCHANGED <<state, sq_deferred, diskVars, workVars, runqVars, sqVars, hardVars, validVars,
                 coverVars, hashVars>>

\* "Runqueue deadlocked on deferred tasks": one of them is let go.
ForceDeferred ==
  /\ pc = "task" /\ NextTasks = {} /\ active \union sq_live = {}
  /\ \E t \in DOMAIN sq_deferred : sq_deferred' = Undeferred(t)
  /\ pc' = "loop" /\ Quiet
  /\ UNCHANGED <<state, diskVars, workVars, runqVars, sqVars, hardVars, validVars,
                 coverVars, hashVars>>

\* The end, after the sanity checks.
QueueEmpty ==
  /\ pc = "task" /\ NextTasks = {} /\ active \union sq_live = {} /\ sq_deferred = <<>>
  /\ state' = IF \/ failed_tids # {}
                 \/ SceneErrors(tasks_covered, tasks_notcovered, runq_buildable, holdoff_tasks)
                 \/ ~(Tasks \subseteq runq_buildable \intersect runq_running \intersect runq_complete)
              THEN "FAILED" ELSE "COMPLETE"
  /\ pc' = "loop" /\ Quiet
  /\ UNCHANGED <<sq_deferred, diskVars, workVars, runqVars, sqVars, hardVars, validVars,
                 coverVars, hashVars>>

Ended == pc = "done" /\ UNCHANGED vars

-----------------------------------------------------------------------------
SceneStep(n) ==
  \/ SceneNotNeeded(n) \/ SceneHardDefer(n) \/ SceneReject(n) \/ SceneRun(n)
TaskStep(t) == TaskSkip(t) \/ TaskNoExec(t) \/ TaskRun(t)
WorkerReport(t) ==
  \/ TaskComplete(t) \/ TaskFail(t) \/ SceneComplete(t) \/ SceneFail(t)
  \/ \E h \in Hashes : HashReport(t, h)

Next ==
  \/ SceneInit \/ SceneStart \/ Finish \/ BuildDone \/ Shutdown \/ ForceShutdown
  \/ ReadEnd \/ Migrate \/ HoldOffStep \/ TaskWait \/ ForceDeferred \/ QueueEmpty
  \/ \E t \in Tasks : WorkerReport(t) \/ SceneStep(t) \/ TaskStep(t)
  \/ Ended

\* The server's thread calls _execute_runqueue() again as long as it is not
\* done, and every task a worker runs ends.  A step other than Ended is
\* possible in every state before "done" (the runs check for deadlock), so
\* this is weak fairness of Next, written without its ENABLED.
GoesOn == <>[](pc = "done") \/ []<><<Next>>_vars

Spec == Init /\ [][Next]_vars /\ GoesOn

-----------------------------------------------------------------------------
(* Properties.                                                             *)

\* Types.
TypeOK ==
  /\ rqdata \in Builds /\ hash \in [Tasks -> Hashes]
  /\ stamp \in SUBSET Tasks /\ sstamp \in SUBSET Setscene
  /\ state \in {"SCENE_INIT", "RUNNING", "CLEAN_UP", "COMPLETE", "FAILED"}
  /\ pc \in {"loop", "read", "migrate", "setscene", "holdoff", "task", "wait", "done"}
  /\ active \in SUBSET Tasks /\ runq_buildable \in SUBSET Tasks
  /\ runq_running \in SUBSET Tasks /\ runq_complete \in SUBSET Tasks
  /\ runq_tasksrun \in SUBSET Tasks /\ failed_tids \in SUBSET Tasks
  /\ tasks_covered \in SUBSET Tasks /\ tasks_notcovered \in SUBSET Tasks
  /\ tasks_scenequeue_done \in SUBSET Tasks /\ holdoff_tasks \in SUBSET Tasks
  /\ sq_live \in SUBSET Setscene /\ sq_buildable \in SUBSET Setscene
  /\ sq_running \in SUBSET Setscene /\ sq_harddep_deferred \in SUBSET Setscene
  /\ sq_needed_harddeps \in SUBSET Setscene /\ pending_migrations \in SUBSET Setscene
  /\ DOMAIN sq_deferred \in SUBSET Setscene
  /\ \A t \in DOMAIN sq_deferred : sq_deferred[t] \in Setscene
  /\ scenequeue_covered \in SUBSET Setscene /\ scenequeue_notcovered \in SUBSET Setscene
  /\ scenequeue_notneeded \in SUBSET Setscene
  /\ valid \in SUBSET Setscene /\ outrightfail \in SUBSET Setscene
  /\ holdoff_need_update \in BOOLEAN /\ sqdone \in BOOLEAN
  /\ updated_taskhash_queue \in SUBSET (Tasks \X Hashes)
  /\ rehashes \in 0..MaxRehash /\ interrupted \in 0..2

\* What is reached from a task without passing through a setscene task.
Below(s) ==
  LET down[n \in Nat] ==
        IF n = 0 THEN Depends(s)
        ELSE LET d == down[n - 1] IN d \union UNION {Depends(t) : t \in d \ Setscene}
  IN down[Cardinality(Tasks)]

\* The graph that build_scenequeue_data() collapses task by task is the
\* reachability relation: below a setscene task are the setscene tasks, and
\* covered by it the other tasks, that paths without a setscene task in
\* between lead to.
CollapsedIsReachable ==
  state = "SCENE_INIT" /\ sqdata # <<>> =>
    \A s \in Setscene : /\ SqDeps(s) = Below(s) \intersect Setscene
                        /\ SqCovered(s) = Below(s) \ Setscene

\* A task starts only after the tasks it depends on: whatever is buildable
\* has dependencies that are all complete, and nothing starts that is not
\* buildable.
DependenciesFirst ==
  /\ runq_running \subseteq runq_buildable
  /\ \A t \in runq_buildable : Depends(t) \subseteq runq_complete

\* What a task that runs for real needs is really there: each dependency
\* ran (or its stamp is current), or a setscene task put its output in
\* place; one that was only marked complete, because a setscene task above
\* it covered it or because nobody seemed to need it, will not do.
InputsThere ==
  \A t \in active :
    Depends(t) \subseteq runq_tasksrun \union (scenequeue_covered \ scenequeue_notneeded)

\* A task and its setscene variant never run at the same time, though
\* migrations send tasks back to the setscene queue while tasks run.
NotBothWays == active \intersect sq_live = {}

\* While a setscene task runs, no task that it covers runs for real: both
\* would write the same output ("If covered tasks are running, need to wait
\* for them to complete", where the code's `continue' ends the inner loop
\* only).
CoveredIdle == \A n \in sq_live : SqCovered(n) \intersect active = {}

\* A task and what stands for it are never at work together.
NoDoubleWork == NotBothWays /\ CoveredIdle

\* The errors of the code's own sanity checks ("was never marked as ...",
\* "never buildable!", "never completed!") never happen: a build fails only
\* when a task of it has failed.
FailureHasCause == state = "FAILED" => failed_tids # {}

\* A build that nobody interrupted and that reports success has finished
\* every task, and what was asked for was run or taken from the cache and
\* not left out as unneeded.
CompleteIsComplete ==
  state = "COMPLETE" /\ interrupted = 0 =>
    /\ Tasks \subseteq runq_complete
    /\ rqdata.targets \subseteq runq_tasksrun \union (scenequeue_covered \ scenequeue_notneeded)

\* With -k a failed task keeps only what depends on it from being built
\* ("as much as possible will be built before stopping").
AsMuchAsPossible ==
  state = "FAILED" /\ ~rqdata.halt /\ interrupted = 0 =>
    Tasks = runq_complete \union failed_tids \union Above(failed_tids)

\* What a build reports is so: a failure has a failed task, success is the whole
\* build, and a failure with -k stopped at nothing that could be built.
VerdictIsTrue == FailureHasCause /\ CompleteIsComplete /\ AsMuchAsPossible

\* Of the setscene tasks of one recipe and hash in several multiconfigs one
\* runs at a time ("We shouldn't allow all to run at once as it is prone to
\* races").
TwinsApart ==
  \A s, t \in sq_live : s # t => HashIndex(s, hash) # HashIndex(t, hash)

\* "No task should end up in both covered and uncovered, that is a bug."
CoveredOrNot == scenequeue_covered \intersect scenequeue_notcovered = {}

\* Every build ends: no deferred, held off or hard dependency wait is for
\* ever, and no migration repeats without end.
Terminates == <>(pc = "done")
=============================================================================
