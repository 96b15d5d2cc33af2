# Verification of the Luckfox Pico Zero video transmitter and the build tool beside it

The repository builds a Linux image for a Luckfox Pico Zero (RV1106) that sends
camera video over USB with low latency. It has two kinds of code. On the device:
`src/apps/vtx.c`, a USB gadget daemon and script, boot scripts, a sensor driver.
On the build host: BitBake, which is in the tree as a copy (`src/bitbake`) and is
by far its largest concurrent program. OpenEmbedded-Core, meta-openembedded and
the libraries bundled with BitBake are vendored recipes and third-party code.

The models follow both: what runs on the device is modelled nearly in full, and of
BitBake the parts where processes and threads meet: the run queue, the lock files,
the server's two threads, the fetcher, and the way clients find and lose a server.

## Inventory

### On the device

| Part | Source | State it keeps | Operations |
|---|---|---|---|
| video pipeline | `apps/vtx.c` 245-425, 451-684 | `ctx->streaming`, the ring `fifo`/`fifo_head`/`fifo_tail`, the handles in `VtxContext`, four camera buffers | capture thread, transmit thread, `start_pipeline`, `stop_pipeline` |
| bulk stream | `apps/vtx.c` 148-191, 364-376 | `written`, `frame_cnt`, `s_tx_buf`; the transfer the host is receiving | `bulk_write_frame`, header injection |
| trigger loop | `apps/vtx.c` 686-795 | `quit`, `btn_last_pressed`, `toggle` | poll, ADC read, terminal read, toggle, leave |
| USB gadget set-up | `luckfox-usb-gadget.sh`, `luckfox-usb-daemon.c`, units | configfs tree, FunctionFS state, UDC binding | script, daemon, restarts of `vtx.service` |
| root growth | `rootfs-resize.sh`, unit | partition size, file system size, marker file | one pass per boot until settled |
| sensor driver | `imx290.c` | runtime PM count, stream state, exposure and blanking controls | s_stream, s_ctrl, suspend, resume, probe, remove |
| camera start-up | `rkcamera-load-modules.sh` | loaded modules, udev queue | one pass at boot |
| patch refresh | `sync-mpp.sh` | working tree, commits, patch file | one pass by a developer |
| small scripts | `fix-cma-heap.sh`, `rkaiq_daemons.sh`, `aic8800dc-wifi.init`, `save.sh` | none of their own | a few commands |
| patches, recipes, device trees | `meta-luckfox` | declarative | - |

How they interact:

* The **capture thread** takes a filled buffer from the camera (`DQBUF`), pushes
  its index into the ring under `fifo_lock`, and submits it to the encoder. If
  the encoder refuses it, it takes the push back and queues the buffer again.
* The **transmit thread** takes packets from the encoder, writes them to the
  bulk endpoint, and after a frame's last packet pops the ring and queues the
  buffer it found there. *Nothing in the packet says which buffer it came from*;
  the two threads agree through the order of the ring only.
* The **main thread** starts both threads at the end of `start_pipeline` and ends
  them in `stop_pipeline`: clear `streaming`, send `SIGUSR1`, join, stop the camera,
  destroy the encoder, release the buffers, reset the ring. It holds no lock while it does.
* `quit` and `streaming` are volatile flags that all three threads read.
* The **daemon** keeps the FunctionFS instance alive whose endpoint `vtx` opens;
  the sensor driver and the boot scripts provide the `/dev/video11` it captures from.

### On the build host (`bitbake/lib/bb`)

| Part | Source | State it keeps | Operations |
|---|---|---|---|
| run queue | `runqueue.py` | some twenty-five sets of tasks: buildable, running, complete, covered, not covered, deferred, held off ... | passes of `_execute_runqueue`, workers' reports, hash updates, failures, stops |
| lock files | `utils.py` 512-605 | a file, its inode, the kernel's flocks | `lockfile`, `unlockfile` |
| command loop | `server/process.py`, `command.py`, `cooker.py`, `event.py` | `currentAsyncCommand`, idle functions, `cooker.state`, the interrupt flag, the parser, connections | accept, commands, idle functions, disconnect, quit |
| server life cycle | `main.py` 440-527, `server/process.py` 322-391, 529-709 | `bitbake.lock`, `bitbake.sock`, the ready pipe | lock, fork, connect, retry, bind, stop, unlink, release |
| fetcher | `fetch2/__init__.py`, `wget.py`, `local.py` | the file, its `.tmp`, its done stamp, the lock | verify, mirrors, download, check, unpack, clean |
| hash equivalence | `siggen.py`, `hashserv/` | unihashes, data base, upstream | report, query, back-fill |
| PR service | `prserv/` | package revisions | get, export, import |
| worker | `bin/bitbake-worker`, `build.py` | child processes, stamps | run, kill, report |
| parsing | `parse/`, `data_smart.py`, `cache.py`, `codeparser.py` | the data store, caches | parse, expand |
| the rest | `providers.py`, `taskdata.py`, `ui/`, `toaster/`, `bblayers/` | - | choices, presentation |

How they interact: a client finds or starts a **server** through `bitbake.lock` and
`bitbake.sock`; the server's **main thread** takes its commands and its **idle thread**
carries them out, and one of those, `buildTargets`, calls the **run queue** again and
again. The run queue has tasks run by workers; some of these **fetch**, under a
**lock file** that other builds use too.

What is hard: on the device, three threads without a common lock except around single
ring operations, blocking calls that signals must interrupt, a `start_pipeline` with
seventeen exits that undo nothing, framing that lives in the lengths of USB packets. On
the host, two threads that write one state without a lock, sets that are kept in step by
hand on five paths, hashes that change under tasks that already ran, and files that are
created, removed and taken over by processes that may be killed at any line. Line by
line the list is in `PROJECT.json` under `hazards`; it names those that a property is
about. Exposed as well, and without one: a failing `pthread_create` (vtx.c:628), a frame
without a packet (vtx.c:355), presses shorter than a pass (vtx.c:750), failures half-way
in the sensor driver (imx290.c:210, 277, 301), in the module script
(rkcamera-load-modules.sh:92) and in `sync-mpp.sh:30`, a marker copied to a larger medium
(rootfs-resize.sh:38), and the places listed under findings.

## Modules

### VtxPipeline

All three threads, at the grain of one action for each access to shared state
or system call that another thread can come between.

| Model | Code |
|---|---|
| `fifo`, `head`, `tail` | `ctx->fifo`, `fifo_head`, `fifo_tail` |
| `where[b]` | who may touch buffer `b`: nobody (`user`), camera (`queued`, `filled`), capture thread, encoder, transmit thread |
| `enc` | buffers accepted by `encode_put_frame` whose last packet has not come out |
| `cpc`, `cidx` | capture thread: position in the loop 260-332, `buf.index` |
| `tpc`, `pkt`, `complete`, `ridx` | transmit thread: position in the loop 351-423 and in `bulk_write_frame`, the packet's frame (a ghost, the code does not know it), `frame_complete`, `return_idx` |
| `mpc`, `step` | main thread: in the loop, in `stop_pipeline`, or before call number `step` of `start_pipeline` |
| `held` | fields of the ctx that hold a live resource |
| `queueOwner` | whether the camera's queue belongs to `ctx->v4l2_fd`, to a descriptor that was overwritten (`orphan`), or to nobody |
| `result` | how the last `start_pipeline` ended (a ghost; `main` ignores it) |

Each fallible call of `start_pipeline` succeeds or returns -1 and leaves
everything as it is at that point; each `QBUF` of the threads may fail, since
its result is ignored. `CamFill` (camera), `HostRead` (USB host) and the order
in which the encoder finishes frames are the environment. Two constants choose
what may happen there: `SplitOutput`, frames in several packets (the code
handles them, 361-380, though split output is switched off at 581), and
`WriteMayBlock`, whether `write()` waits for the host.

Properties:

* `RingIInv`, the inductive invariant; its core is `RingMatches`: from the oldest
  on, the slots of the ring hold exactly the buffer of the packet being sent if it
  is its frame's last, those in the encoder in order, and the one being submitted;
  `head` is right behind.
* `ReturnsFinishedBuffer`: what goes back to the camera is the buffer whose
  frame has just been sent.
* `NoUseAfterRelease`: threads run only while all resources live; buffers live
  as long as camera or encoder may touch one.
* `SessionsApart`: `CleanStart`, after a session that started, stop leaves nothing
  behind and the next start overwrites no live field; and `OrphanIsFinal`, the reach
  of the failed start of finding 2: once the queue's descriptor is lost, no session
  ever streams.
* `ImplementsPool`: the module refines **BufferPool**, which states without
  threads, ring or ioctls what happens to a buffer.
* `MainGetsOn` (`StopCompletes`, `QuitExits`) and `BufferReturns`: liveness, with a host that
  reads on. With one that stops, the lost signal of finding 1 blocks main.

### VtxUsbStream

`bulk_write_frame` with bytes counted: a frame is its number, its header flag
and its length; the wire is a list of pieces (runs of consecutive bytes of a
frame) grouped into transfers by short packets. `written`, `frame_cnt`,
`total`, the tests at 155, 166, 172 and 369 are the code's. The constants are
scaled down: packets of 3 bytes stand for 512, a buffer of 10 for 256 KiB.

* `StreamInv`: until a frame is given up transfers are frames one to one
  (`TransferIsFrame`), and of any `HeaderPeriod` of them one brings the parameter sets.
* `FrameEndsTransfer`, `NothingSentTwice`: what holds after stalls, signals and restarts.

### VtxTrigger

The loop of `main` with the operator around it. Starts and stops are single
steps that take time. `toggles` counts toggles and `requests` presses and lines,
so that "only on request" is a relation between the two. This module and `RootfsResize`
share no name with `UsbGadget` (hence `TriggerSpec`, `ResizeSpec`), so that `BoardProofs`
can extend the three.

* `ToggleNeedsRequest`: no toggle without a press or a line, and after SIGTERM at
  most the one of the pass it came in.
* `RequestsAnswered`: a toggle that begins after the request answers it, also when main was
  busy with a start or a stop then. `owed` has the requests main can tell apart: a line
  always; a press only if the last reading that succeeded found the button up, and until it
  is let go unread. More the code does not give: it compares levels (vtx.c:763), so of two
  presses within one start the second is not seen though it is held, a press made and let go
  within a start is not either, and lines typed within one start share a toggle.
* `QuitStops`: SIGTERM ends the program with the pipeline down.

### UsbGadget

The script, one daemon for each of its runs, `vtx` as a client, and systemd. The
script's steps that can meet another process are actions of their own (unbind,
mount, link, kill, launch), as are the daemon's (open, descriptors, strings, bind, quit).

| Model | Code |
|---|---|
| `unit`, `vtx`, `starts` | state of the two units in systemd, and its start counter |
| `script`, `runs`, `hand` | position in `luckfox-usb-gadget.sh`; which runs were by hand, whose daemons systemd does not know |
| `ffs`, `opened` | the FunctionFS instance: what it waits for on `ep0`, and which processes have it open |
| `udc` | whether the gadget is bound, by script or daemon |
| `pc[d]`, `term[d]` | position in the daemon's `main`, and whether it got `SIGTERM` (`quit`) |

What the kernel does is external: an instance forgets its descriptors, and unbinds the
gadget, when its last file is closed (`Close`); it takes descriptors once; its endpoint's file
exists once the strings are written. systemd stops a unit by terminating its processes and
waiting for them, and stops `vtx` before the unit it requires.

* `GadgetInv`: types, and `OneDaemon`, no two daemons pass the descriptor write.
* `KeepsInterfaces`: while a daemon serves only the script takes interfaces away.
* `DeviceComesUp`: in the end the gadget stays bound (`ComesUp`), and `vtx` gets its
  endpoint (`VtxConnects`), as long as systemd still restarts the unit: at its start limit
  `vtx` stays down. A new daemon that gives up is not this property's matter but finding 6.

### RootfsResize

`rootfs-resize.sh` with a power supply that fails and tools that fail. `gpt`, `part`, `kpart`
and `fs` are four views of one size: the table's idea of the disk, the partition in
the table, the partition in the kernel, the file system. Each tool copies one to the next;
the order makes the script right. `saved` is what of `fs` and the marker
is committed; both are in one journal, so a commit saves them together, and a loss of power
takes both back. That the table is on the medium when its tool returns and that the journal
is atomic is assumed of the tools and the file system.

* `IInv`, of which: `Fits`, file system within partition within medium, in all views,
  committed or not; `MarkerMeansGrown` and `OnceOnly`, the marker stops the script for
  good and never early; `Progress`, what the script has established where it is.
* `EventuallyGrown`: half-way states are no dead end.

### RunQueue

One build, from the collapsed graph of the setscene tasks to the verdict. One thread
runs `_execute_runqueue`; what comes from elsewhere, the workers' reports and new hashes,
is seen at the two places where the code reads the pipes. `pc` is the place inside a call.

| Model | Code |
|---|---|
| `sqdata`, `Depends`, `Revdeps` | `sqdata` and `rqdata.runtaskentries` |
| `stamp`, `sstamp` | stamps on disk, of tasks and of setscene tasks |
| `runq_*`, `failed_tids`, `sq_*`, `scenequeue_*`, `tasks_*` | the sets of `RunQueueExecute` of these names |
| `sq_deferred`, `sq_harddep_deferred` | twins that wait for a task with the same hash, tasks that wait for a hard dependency |
| `holdoff_tasks`, `holdoff_need_update`, `sqdone` | the same |
| `updated_taskhash_queue`, `pending_migrations`, `hash` | hashes reported, tasks to go back to the setscene queue, current unihashes |
| `active`, `sq_live` | what the workers run |
| `ProcessEndpoints`, `CollapsedGraph` | `build_scenequeue_data`, point by point as the code does it |
| `Migrate` | `process_possible_migrations` |
| `UpdateHoldOff` | `update_holdofftasks` |
| `SceneStep`, `TaskStep` | the setscene and the task half of `execute` |

A build (`Builds`) is a record of everything `RunQueueData.prepare` hands over.

* `CollapsedIsReachable`: the code's graph is the reachability relation it stands for.
* `DependenciesFirst`: a task starts after its dependencies.
* `InputsThere`: and finds their *output*. A task marked complete because something
  covers it has none, so this relates the marks to what really ran.
* `NoDoubleWork`: a task and what stands for it (its setscene variant, or one above
  that covers it) do not run together, whatever hash updates do (`NotBothWays`, `CoveredIdle`).
* `VerdictIsTrue`: a failure has a failed task (`FailureHasCause`: the code's own sanity
  checks never fire), success is complete (`CompleteIsComplete`), and `-k` builds all it
  can (`AsMuchAsPossible`).
* `Terminates`: no wait between deferred, held-off and hard-dependent tasks is for ever.

### FileLock and ReaderWriterLock

`lockfile` and `unlockfile` against the kernel's rules: `name` is the inode the file's name
leads to, `fd` and `flock` what each process has open and locked, and a number is free
for use again once nobody has the inode open. Processes are killed at any step.

* `ImplementsLock`: the module refines **ReaderWriterLock**.
* `LockFileInv`: who holds the lock has locked the file of that name, and when all are done
  the file is gone unless somebody was killed (`CleanedUp`).
* `SomebodyGetsIt`: the lock is not lost in the races around removal.

### CommandLoop

The server's main and idle thread. An action is a section under `_idlefuncsLock`, or what
a thread does between two places where the other can interfere.

| Model | Code |
|---|---|
| `main`, `idle` | place of the two threads; for the idle thread also the function and command it works for |
| `async`, `idlefuns` | `currentAsyncCommand`, `_idlefuns` |
| `state`, `shouldExit`, `parser`, `parsecache` | `cooker.state`, `bb.event._should_exit`, `cooker.parser`, `parsecache_valid` |
| `backlog`, `newconnections`, `controllersock`, `ui` | connections, waiting, accepted, served, and the one with an event handler |
| `client`, `request`, `asked` | the clients' side |
| `due`, `before`, `builder`, `stop`, `failing`, `unanswered` | ghosts: what the attached client is owed, and what voids it |

* `CommandInv`: types, and `BuildOwned`: a build that is registered is the current command's.
* `OneEndEach`: a client gets one end event for each command, and only the end of a
  command clears it (`EndsOnce`, `OwnClear`).
* `ClientsApart`: a client starts on a clean cooker (`CleanStart`) and is refused only for
  its own stop (`RefusedForAReason`).
* `ForceKept`: after a forced stop the build makes no further step, though the state that
  says so is overwritten.
* `NobodyHangs`: commands end, are answered, and a server told to end does
  (`CommandEnds`, `Answered`, `ServerEnds`); `Answered` exempts the client whose busy reply is
  lost (`unanswered`, see the findings).

### Fetch

One file name in the download directory, tasks that fetch, unpack and clean it, sources
that hold anything. `tmp` is the `.tmp` of `wget --continue`: nothing, or a part or the
whole of some file. `stamp` is the done stamp: none, empty (cut short), or with the
checksums of a file. A task's recipe has the checksum of `Wants[t]` and its own upstream,
`UpstreamOf[t]`; two recipes may disagree about one name. The servers in `Changing` may come
to hold another file at any time (`Republish`), so what a broken or refused download left
may be of another recipe's file or of one that upstream has replaced since.

* `IInv`: the inductive invariant; its core is `StampIsOfTheFile`: a stamp with checksums has
  those of the file in place, wherever a task was killed.
* `UnpacksWhatItFetched`: unpack looks at no checksum; what it finds is right all the same,
  unless the file was cleaned or put aside for a recipe that disagrees.
* `GoodFileStays`: a fetch never removes a file its own recipe accepts.
* `FetchSucceeds` (in `FetchMC`): a file mirror asked first that has the file prevents a
  failure (`FailsForAReason`), and a recipe whose upstream has come to hold its file for good
  fetches it in the end (`EventuallyFetched`), with one exception: a whole `.tmp` of another
  file. `wget --continue` does not replace it, and upstream's checksum error comes before
  the rename, so it stays. A server among the mirrors that holds anything under the name
  clears it away, as what comes from a mirror is renamed first and put aside when it is bad
  (`MirrorClearsTmp`); without one every later build fails the same way (finding 7). The
  property asks for one or the other, such a server or a `.tmp` that is the recipe's own
  (`TmpIsClear`), from some moment on.

### BuildServer

Clients in `setup_bitbake`'s retry loop, servers from the fork to the exit, the lock
(`holders`, `orphans`: children of killed servers that inherited the file), the socket's name
(`sock`), and the ready pipe.

* `ServerInv`: one server at a time has the build directory, and its socket has the name
  (`OneServer`, `SocketKept`).
* `GivesUpForAReason`: eight tries are enough for any clients that race, for the lock and
  for the server one of them starts, while up to two servers stop in order; who gives up has
  met a kill, a failed start, an overlong wait or a third stop. A wait of 5 s outlasts what
  takes no time (`Brief`: a step of a process that waits for nobody, a poll of a free lock);
  that it does not is a fault of the bound `MaxFaults`, like a slow clean-up (`Slow`).
* `EventuallyConnected`: who runs bitbake again and again gets to a server.

### How the modules fit together

`VtxPipeline` takes a frame's write as a few steps that may block; `VtxUsbStream` has the
bytes; `VtxTrigger` the loop around both. `UsbGadget` has `vtx` as a client of its
endpoint. `Fetch` and `BuildServer` rest on what `FileLock` shows: the lock is one, and a
killed process gives it back. `CommandLoop` has a build as an idle function that goes on
or ends; `RunQueue` is that function; its states `Shutdown` and `ForceShutdown` are the two stops
`CommandLoop` delivers. `BuildServer` has a server as one process; `CommandLoop` is its inside, and
`ServerEnds` is what lets `Quit` be followed by the release of the lock.

## Runs

| Run | Expect | Properties | What it shows |
|---|---|---|---|
| `pipeline_safety` | pass | `RingIInv`, `ReturnsFinishedBuffer`, `NoUseAfterRelease`, `SessionsApart` | 3 buffers, 3 slots, `write()` may block, starts that fail anywhere |
| `pipeline_live` | pass | `ImplementsPool`, `MainGetsOn`, `BufferReturns` | several packets to a frame; liveness with a host that reads on; 2 buffers, 2 slots |
| `stream_framing` | pass | `StreamInv`, `FrameEndsTransfer`, `NothingSentTwice` | transfers are frames until one is given up, and framing recovers |
| `trigger_loop` | pass | `ToggleNeedsRequest`, `RequestsAnswered`, `QuitStops` | presses, lines, slow starts, ADC errors, SIGTERM, hang-up |
| `gadget_up` | pass | `GadgetInv`, `KeepsInterfaces`, `DeviceComesUp` | starts, restarts and deaths in every order |
| `root_growth` | pass | `IInv`, `EventuallyGrown` | power loss and failing tools at every step |
| `run_queue` | pass | `TypeOK`, `CollapsedIsReachable`, `DependenciesFirst`, `InputsThere`, `NoDoubleWork`, `VerdictIsTrue`, `Terminates` | 35 builds of four tasks, two threads, a failure, a hash update, two interrupts |
| `file_lock` | pass | `LockFileInv`, `ImplementsLock`, `SomebodyGetsIt` | three processes, shared, exclusive, non-blocking, killed |
| `command_loop` | pass | `CommandInv`, `OneEndEach`, `ClientsApart`, `ForceKept`, `NobodyHangs` | two clients, two commands, stops, handlers that raise |
| `fetch` | pass | `IInv`, `UnpacksWhatItFetched`, `GoodFileStays`, `FetchSucceeds` | three tasks, two upstreams of which one changes, two mirrors, two faults |
| `build_server` | pass | `ServerInv`, `GivesUpForAReason`, `EventuallyConnected` | two clients that race, two servers, two stops, one fault |
| `fetch_mirror` | violation | `GoodMirrorIsTaken` | finding 7 |

Further configurations, each with the one property that what the code says would imply
and TLC refutes. They belong to the findings below and are not part of the regular runs:

| Configuration | Module | Property | Finding |
|---|---|---|---|
| `VtxPipelineBlocked.cfg` | `VtxPipeline` | `StopCompletes` | 1 |
| `VtxPipelineBusy.cfg` | `VtxPipeline` | `NeverBusy` | 2 |
| `VtxUsbStreamMerged.cfg` | `VtxUsbStream` | `NoTransferMerged` | 3 |
| `VtxUsbStreamResync.cfg` | `VtxUsbStream` | `MidStreamResync` | 4 |
| `VtxTriggerHangUp.cfg` | `VtxTrigger` | `NoIdleToggle` | 5 |
| `UsbGadgetRerun.cfg` | `UsbGadget` | `PersistentDaemon` | 6 |
| `RunQueueLateTwin.cfg` | `RunQueueMC` | `CoveredOrNot` | 8 |
| `RunQueueMovedTwins.cfg` | `RunQueueMC` | `TwinsApart` | 9 |
| `RunQueueLimited.cfg` | `RunQueueMC` | `AsMuchAsPossible` | 10 |
| `CommandLoopStop.cfg` | `CommandLoop` | `StopIsKept` | 11 |
| `FetchStuck.cfg` | `FetchMC` | `UpstreamIsEnough` | 7 |

### Bounds

*Device.* The pipeline needs none besides the number of buffers: its state is
finite. Three buffers in three slots, as the code's four in four, wrap the ring
and fill it, and let capture, encoder, transmit thread and camera each hold one;
starts and stops repeat without limit. Liveness needs two buffers: one on its way
while the other is stuck. In `VtxUsbStream` `MaxFrames` and `MaxStops` bound the run; frame
lengths are chosen below, at, and above a multiple of the packet size, and one that does
not fit. In `VtxTrigger` `MaxRequests` bounds presses and lines. `UsbGadget` bounds the runs
of the script (`MaxRuns`): with three, a daemon launched by hand, its successor and a
restart by systemd meet. `StartLimit` is 3 instead of 5. In `RootfsResize` `MaxTrouble`
bounds failures; three reach every half-way state twice in one installation, and safety is
proved without a bound. Media are as large as the image, one and two groups larger, so
that an online resize can stop in between.

*Run queue.* Four tasks make a chain, a diamond, a join and a fork, the smallest graphs in
which one setscene task covers others, two share what they cover, and one covered task has a
user outside. `RunQueueMC` has a family of builds for each mechanism: every choice of
setscene tasks, moved hashes, twins in two multiconfigs, hard dependencies, stamps left
behind. One hash update, one failure and two threads are the bounds of a run; the larger
graphs are for the proof of `DependenciesFirst`. *Locks.* Three processes: a holder, one that
waits on its removed file, one that has made a new file. Three inode numbers, so that a number
can be used again. *Command loop.* Two clients one after the other, two commands, one of a kind
that ends in its method and one that builds, one stop each. *Fetch.* Two tasks that agree and one
that does not, with an upstream of its own; a server that is both premirror and mirror and a file
mirror between, each holding the right file, another or none; two faults (kills, broken connections,
changes of an upstream's file), so that a task can be killed over what a killed task left and an
upstream be put right after it has failed one. *Server.* The code's eight tries, two clients, two
servers, two orderly stops, one kill, failed start or overlong wait; safety is proved without these
bounds, and with three clients and no fault TLC finds `GivesUpForAReason` true as well, and refuted
as soon as the third stop is no excuse.

### Fairness

`ThreadFairness` (pipeline) is weak fairness of each thread: they are real
threads (the workers `SCHED_FIFO`), and every call in their loops has a time
limit except `write()`, `pthread_join` and `pthread_mutex_lock`, of which the
first two are modelled with their guards and the third protects two
assignments. Strong fairness of `TxGet(TRUE)` says the encoder eventually hands out
the last packet of a frame it has, and of `TxWriteEnds` that a frame is finite. The
camera is under no fairness: it may stop delivering. `HostFairness`, the
host reads on, is a separate conjunct and only `pipeline_live` assumes it. In
`VtxTrigger` strong fairness of `AdcRead` says the ADC does not fail for ever.
In `UsbGadget` the script, the daemons, systemd and a starting `vtx` run on; nothing makes the
operator act or a process die. In `RootfsResize` the script runs on, and the operator boots
the device and shuts it down now and then: "retry next boot" helps only if there is one.

`RunQueue`: the server's thread calls again and the workers' tasks end (`GoesOn`, weak fairness of
`Next` written without `ENABLED`). `FileLock`: a process that may go on does, and what is done under
a lock ends; nothing is said of who gets a flock first. `CommandLoop`: weak fairness of the two
threads and of the two waits of 30 s, strong fairness of the ends of a parse and of a build, which
have finitely many recipes and tasks; clients may stay for ever. `Fetch`: the task under the lock
goes on, and a task that finds the lock free again and again gets it. `BuildServer`: processes
go on, a dead server's children end, and a client that finds the lock free again and again takes it.

## Findings

Each is a disagreement between what the source does and what a comment, a document
or a message of it says. Those with a property are shown by TLC.

1. `SIGUSR1` delivered between the loop test and `write()` (vtx.c:172-173) is lost, and the
   join of `stop_pipeline` (vtx.c:637-643) waits for the host.
2. A start that fails after `REQBUFS` keeps the camera's queue in a descriptor the next start
   overwrites; only a restart of the program helps (against the standby message, vtx.c:734).
3. A 25 ms stall loses the rest of a frame (in spite of the "guaranteed delivery" of vtx.c:170),
   and if it hits on a packet boundary the next frame is glued to it (against vtx.c:163-165). The
   damage ends there: `FrameEndsTransfer`.
4. With `rc:refresh_en` 0 and a GOP of 65536 a decoder that joins late waits for up to 18
   minutes (against vtx.c:4-5).
5. `SIGHUP` is ignored and the terminal stays in the poll set: hung up, it toggles for ever
   (vtx.c:771).
6. `killall` does not wait, so the descriptors of the new daemon are refused while the old
   one, or a `vtx` with the endpoint open, holds the instance. It exits, and the gadget stays
   unbound (luckfox-usb-gadget.sh:52-54). Restarted by systemd the same script works (`ComesUp`).
7. `fetch_mirror`: a whole download with a wrong checksum stays in the `.tmp`; the next server's
   `wget --continue` adds nothing to it, and the right file of a mirror is not taken
   (wget.py:126-147, against fetch2/\_\_init\_\_.py:1938-1939). With no server among the mirrors
   nothing ever removes it, `clean` does not either, and the fetch fails in every later build,
   also once upstream has the right file (`UpstreamIsEnough`).
8. `CoveredOrNot`: a deferred twin whose hard dependency fails is failed with it and covered
   later; it is in both sets, which the code's own check calls a bug (runqueue.py:2175).
9. `TwinsApart`: tasks of one recipe and hash in several multiconfigs run at the same time when
   their hashes came to be equal during the build and neither of them moved (runqueue.py:2106).
   So it is where each has its own stamp, as with a TMPDIR for each multiconfig; tasks with one
   stamp file are kept apart by the test at runqueue.py:2224.
10. `AsMuchAsPossible`: with `-k`, failed tasks count as running towards a task's `number_threads`
    (runqueue.py:264-274); when they have used it up, what is left of that name is never
    built, "as much as possible" (main.py:207-209) or not. `VerdictIsTrue` has it for builds without
    such a limit.
11. `StopIsKept`: `updateCache` in the idle thread overwrites a stop the main thread has set
    (cooker.py:1678, 1689); the client was told that it stops (knotty.py:734), and the build
    starts tasks. A forced stop has a flag as well: `ForceKept`.

Read while modelling, each at its place in the models, without a run:

* runqueue.py:2252-2255: `continue` ends the inner loop only. The hold-off of the covered tasks
  keeps `CoveredIdle` true. runqueue.py:83-87: `pending_hash_index` has the literal "taskname".
* An end event fired after `clear_async_cmd` (command.py:146-153) may reach the next client. A busy
  reply for a command that has just ended raises TypeError, and no reply is sent (command.py:106). A
  raising handler in `finishAsyncCommand` ends the command twice or kills the idle thread. A parser
  error stays until the client is gone. A pending request is lost when its client closes at once.
* A forced stop in `RunQueue` breaks the idle thread (runqueue.py:1563), so "Forced shutdown" is never
  reached. Of several waiting connections the last is served first (process.py:207). `shutdown(True,
  idle=False)` raises a TypeError that is swallowed (process.py:340).
* `clean` leaves the `.tmp`. `verify_donestamp` puts aside another recipe's file (compare the
  comment at wget.py:138-140). `try_mirror_url` (1158-1163) renames a `file://` mirror's own file.
  A first http mirror that "succeeds" with a bad file ends the list.
* Clients that take the lock and give it back use up each other's tries, as `TriesAreEnough` counts; a stale socket with
  a child holding the lock uses up four at once. `startswith` with a list (process.py:380) raises
  TypeError before "Delaying shutdown" is said. A cooker that fails to start leaves its socket.

## Proofs

| Module | Theorems | For every |
|---|---|---|
| `VtxPipelineProofs` | `TypeCorrect`, `RingInvariant`, `RingCorrect`, `ReturnCorrect`, `NothingUsedAfterRelease`, `SessionsStayApart`, `PipelineIsPool` | number of buffers and ring at least as large (`SizeAssumption`) |
| `VtxUsbStreamProofs` | `FramesEndTransfers`, `NothingTwice`, `StreamIsFaithful` (for a header that is not empty) | packet and buffer size, frame sizes, header period, frames, stops |
| `BoardProofs` | `ResizeInvariant`, `ResizeFits`, `ResizeMarker` of the root file system; `GadgetInvariant`, `InterfacesStay` of the gadget; `TogglesAreRequested`, `RequestsAreKept` of the trigger loop | image, media, failures; runs, start limit, with or without killed daemons; requests |
| `RunQueueProofs` | `RunQueueTypes`, `DependenciesComeFirst`, `CollapsedGraphIsReachability`, `SuccessIsComplete` | set of builds, tasks, threads, failures, hash updates |
| `RunQueueProofs` | `WorkIsNotDoubled`, `InputsAreThere`, `NothingToRerun` | the same, if no setscene task with a hard dependency has a stamp of an earlier build |
| `RunQueueProofs` | `VerdictsAreTrue` | the same, if besides no setscene task hard-depends on itself through others, and with `-k` one task at most has the limited name |
| `CommandLoopProofs` | `ThreadsAgree`, `EndedOnce`, `NothingLeftOver`, `ForcedStopIsKept` | set of clients, commands and their bounds |
| `FileLockProofs` | `FileLockInvariant`, `FileLockIsLock`, `LockFileLeft` | set of processes, inodes, ways of calling |
| `FetchProofs` | `FetchInvariant`, `StampsAreTrue`, `UnpackIsChecked`, `GoodFilesStay` | set of tasks, sources, contents, mirror lists, faults |
| `BuildServerProofs` | `ServerInvariant`, `SocketIsKept`, `OneServerAtATime`; `TriesAreEnough` for six tries or more | set of clients, servers, tries, stops, faults |

**Ring.** `RingMatches` is not inductive: that the ring does not overflow depends on who
owns which buffer. The invariant is `RingIInv`: `ControlInv`, where the threads may be, given
where main is (a reset of the ring is harmless only because both threads are done and the
encoder is empty); `OwnershipInv`, a buffer a thread handles, or one in the encoder, is
marked as such in `where`, and the encoder holds none twice, hence the buffers in the ring
are pairwise distinct and, while capture holds one, fewer than `NumBuffers` (`RoomToPush`, by
cardinality); `RingMatches`, and that `return_idx` is the frame just sent. One lemma per kind
of ring step deals with the modular arithmetic, `RingFrame` covers every action that leaves
the ring alone, `RingStep` puts them together.

**Resources and pool.** `HeldInv` says which fields of `ctx` are live where main is: those the steps of
`start_pipeline` before it assigned, all of them while a thread may run, the buffers as long as any is
not with user space. It needs `WhereInv`, that a buffer marked as a thread's is the one the thread
handles and what is still out while main stops camera and encoder, and `SessionInv`, what a session that
went well leaves. With these, and the ring, every step is one of the pool's or none (`PipelineIsPool`): a
buffer goes back to the camera only when its frame, the oldest, is sent.

**Bulk stream.** What is out of the frame being sent is `written` bytes (`At`), all in full packets since
`written` is a multiple of the packet size (`SendInv`, `ModAdd`). A padded frame is no multiple
(`PaddedShort`), so exactly the last write of a frame ends a transfer (`OpenInv`, `TransferInv`, `Ended`). After
a signal `At` may fail, packets being out that `written` does not count; it is harmless because `quit` or
`~streaming` (`ControlInv`) then ends the call: this is why `stop_pipeline` must clear `streaming` before it
signals. Until a frame is given up the number of transfers is that of the frame (`FramedInv`), and as many
transfers back as a frame's count is past a multiple of the period there is one with a header (`HeaderInv`,
`ModNext`). The header must not be empty: with `hdr_len` 0 the code sends none.

**Root growth.** `MarkerMeansGrown` alone is not inductive: `Progress` says which of the sizes
agree at each step, so that `fs = kpart` at the script's end means `fs = disk`.

**Run queue.** `DependenciesFirst` is inductive as it stands, in spite of five paths with five
tests: `OnlyReady` says what a step must keep to, complete and buildable sets that only grow,
tasks made buildable only when what they need is complete, tasks started only from the buildable
ones; `CompleteOutrightReady` shows it of `task_completeoutright`, which four of the paths end in,
and one step per action of the rest.

*The collapsed graph.* `build_scenequeue_data` takes point after point out of the graph and
hands what it collected to the tasks above. Its loop invariant is `GraphInv`: what a task has
collected lies below it (`GraphSound`), what lies below is collected or on its way (`GraphComplete`),
and a task that is no point waits for one or has nothing new (`GraphGoesOn`). What is processed in a
round has a task more above it than in the round before (`Bounded`), so the number of steps the
model's loop takes, the square of the number of tasks and one, is enough.

*No work is doubled* (`WorkInv`). While an open setscene task may start, nothing it stands for has
begun (`OpenUntouched`). The action in between is `update_holdofftasks`: until it runs nothing of the other
half starts, and once it has, all those are held off (`OpenHeldOff`). A migration reopens a task only when
nothing it covers is at work. With hard dependencies, `FreshInv`: what a setscene task that runs needs is
covered.

*Inputs are there* (`InputsInv`). A task that was completed without having run is given: nothing needs it but
what a setscene task covers (`UnrunIsGiven`, `CoveredIsGiven`). So whatever starts finds each dependency run
or covered. A migration would take a cover away, but a task that waits to be moved is not a covered one
(`WaitingLost`), so nothing rests on it; `NothingToRerun` follows too.

*Verdicts.* Success needs no more than `KeptInv` and `EndInv`: no requested task is left out. Failure
needs progress. `QueueInv`: the setscene bookkeeping is in order (`Orderly`), so the greatest
setscene task that is open may start; `CurrentInv`: what `update_holdofftasks` saw still holds; `PassInv`, where
the call is; `RunInv`: what was started runs, is complete or has failed. When the queue is empty
and nothing runs, every setscene task is handled: of the open ones that may start, the lowest in the order
of the hard dependencies would be a candidate, since what a task was put off for may start too
(`NeededInv`), and none is put off with nothing left to wait for (`Orderly`). So every task is covered
or not, so the least that is not complete could be started: there is none but for those above a
failure. Hence the sanity checks of the end find nothing, and `-k` has built all it could.

*Hypotheses.* Hard dependencies and stamps of earlier builds together are in none of the runs' builds.
With a hard dependency the proofs need that a setscene task with a stamp has been started already (`FreshInv`),
so that a migration does not skip to success what others have been promised; a stamp of an earlier build
on that very task breaks this (stamps on others do not). It is the proof that needs the hypothesis: of 760
builds of four tasks with hard dependencies and stamps, TLC finds none that violates `NoDoubleWork`,
`InputsThere` or `VerdictIsTrue`. `VerdictsAreTrue` also needs the hard dependencies to have no cycle, and that
one is no artefact: the code looks for none, and two tasks in a cycle are put off for each other, after which
the sanity checks end a build in which no task has failed.

**Lock files.** Who holds the lock has the flock of the inode of that name (`OwnsName`), which
survives the others' steps because flocks of an inode agree and each place in the code has the
flock it should (`FlocksAgree`, `FlockNeedsFile`). From it each step is one of the reader-writer lock
or none: with `LockStep` the refinement is proved, not only checked. `LockFileLeft` adds `TidyInv`: for a file
that is there somebody waits or holds, since a process fails to get or raise its flock only
when another, which is in its way, will do the cleaning.

**Fetcher.** `AtStep` says what each step of a task has made sure of, `NewComer` that a file which
came in without a stamp has no earlier owner, `HasSource` that the list in use is not empty. A
stamp is written only between a check and the release of the lock, under which nobody else changes the file.

**Server.** The lock's file is with one process (`LockHeld`), from the client's lock through the fork
to the server's release, and from bind to unlink the name is that server's (`OwnSocket`).

**Gadget.** `OneDaemon` rests on the kernel's `Close`: a daemon whose descriptors were accepted keeps
a file open (`InstanceInv`), so no other's close makes the instance forget them and a second daemon is
refused (`CloseKeeps`); so the gadget stays bound too (`InterfacesStay`). `RunsInv` says that a run launches its daemon once, before the next run begins.

**Trigger loop.** A request is a press or a line that no toggle has answered. `RequestInv` counts: the toggles, plus
one for each place where a request may be on its way at this moment (noticed in this pass, pressed, typed), are
no more than the requests; it needs that what `poll` reported is still there when it is read.
`RequestsAreKept` is the safety half of `RequestsAnswered`: what is owed is, until the toggle, in the
button's level, in the terminal's input or in the flag of this pass (`NothingForgotten`).

**Command loop.** `WorkInv` says, for each of the idle thread's places, which idle functions and which command it may
find there; the cases that are hard are those of a command ended a second time, after an event handler
raised. `MainInv` says whom the main thread serves at each wait, `OwedInv` that whoever may still end a command
finds its end owed, `ForceInv` that the flag of a forced stop is set as long as there is a command, `CleanInv` that
between two clients nothing runs. The lock round each section is what makes one step per action enough.

**Tries.** As long as there is no fault, one stop of a server costs a client two tries at the most: one that
met the server on its way out, and one spent waiting for the lock while another client's server started. `Safe`
says which clients lose none until the next stop (those with a server of their own or with one that is up to go to),
`OneMore` which lose one at most, `MayLose` adds it up, and `Pays` is the invariant: what was lost of the last five tries
and what may still be lost is no more than twice the stops (before the first stop, one of all the tries). A
step that loses no try leaves nobody with more to lose (`Eases`); a client that loses one was not safe, and it sleeps, after which
nothing is left of the servers that stopped (`WakeEases`), or it waited for a server that is up now (`HolderIsUp`);
a stop pays for two. The bound is met: with a third stop TLC has a client give up.

What a recursive function computes is proved by induction over a set of naturals (`Induct` of `RunQueueProofs`),
since the library's induction theorems take an operator the provers cannot instantiate.
Out of the prover's reach, and with TLC only: all liveness (`MainGetsOn`, `BufferReturns`, `RequestsAnswered`, `QuitStops`,
`DeviceComesUp`, `EventuallyGrown`, `Terminates`, `SomebodyGetsIt`, `NobodyHangs`, `FetchSucceeds`,
`EventuallyConnected`). Every invariant and action property of the passing runs is proved; with TLC only are the
run queue's, the bulk stream's and the server's for what the hypotheses of their theorems leave out.

## Not modelled

* `bulk_write_all` (vtx.c:197-224): nothing calls it. `configure_sensor_exposure`: two ioctls
  whose results are ignored. A failing `pthread_create`: what follows is undefined. An encoder that
  accepts a frame and never hands out its last packet: the code counts on one for each. Frame contents,
  statistics, log output; the poll timeouts of the threads as times.
* Of the run queue: `RunQueueData.prepare` (its result is a constant), the order of the schedulers
  (any order is possible in the model), tasks that share a stamp file, of which the second is started
  when the first has ended (`build_stamps`, runqueue.py:279, 296, 2224), a `number_threads` above one, the workers' protocol and restart, `printdiff`, mcdepends.
* Of the server: the synchronous getters and setters, XMLRPC, heartbeat and disk monitor, inotify.
* Of the fetcher: the version control methods, mirror tarballs, network policy, archive formats.
* Parser, data store, caches, providers: a language and its evaluation over strings.
* Hash equivalence server, PR service, worker: see the plan.
* Vendored recipes and tests, bundled libraries, patches, recipes, device trees, build output. They are
  most of the tree, so the part of it that is mapped is small: some 3700 lines, which are most of
  what in it has concurrent state.

## Plan

1. `Imx290`: runtime PM count against stream state, a start that fails half-way; exposure
   against frame length. `CameraModules` and `SyncMpp`: what each failure of a script leaves.
2. `HashServ` and `PrServ`: an upstream behind a server, back-fill, revisions that do not go back.
3. Proofs: `NoDoubleWork`, `InputsThere` and `VerdictIsTrue` with a stamp of an earlier build on a setscene
   task with a hard dependency.
