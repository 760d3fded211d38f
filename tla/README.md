# A TLA+ development of comfyui-docker-helper

`comfyui-docker-helper` (cdh) plans and builds ComfyUI images on a host, and
inside the container it is the process that owns ComfyUI: it downloads model
files, runs hooks and sshd, starts ComfyUI, restarts it on request and brings
everything down when Docker stops the container.  This directory models how it
starts, restarts and stops, moves files, keeps logs, publishes a build context,
builds an image and merges its configuration, checks the models with TLC and
proves the core of them with TLAPS.

Source paths below are relative to `src/src/comfyui_docker_helper/`.
`PROJECT.json` maps every definition to the lines it models.

## The system

### Components

| component | state it keeps | operations | hard behaviours |
|---|---|---|---|
| runtime controller (`container/runtime/controller.py`) | state, phase, generation and operation counters, the single restart slot, the committed result, the latched signal and failure | submit, withdraw, accept, allocate successor, publish, release, mark terminal, observe signal, observe failure | listener threads, drain threads, the main thread and a signal handler that may raise inside a publication |
| service owner (`serve.py`) | the generation being run, the admission lease, the exit status | boot, admit, run, success checkpoint, endings, teardown | which of shutdown, failure, restart and exit wins, at every point |
| lifecycle (`lifecycle.py`) | one generation: its signals, its timeline, its owned work | startup phases, wait, shutdown on six paths | signals between any two steps; deadlines; repeated signals |
| hooks (`hooks.py`), process control (`container/process/control.py`) | one process group at a time | run, poll, cancel, kill, reap | deadline against exit, kill without reap |
| control server and client (`control/`) | peers, one worker each | restart, status, logs; bounded close | disconnects, acknowledgements, a limit of peers |
| runtime downloads (`downloads.py`, `files/`), state (`state.py`, `download_state.py`) | two queue handles, backends, the persisted state | activate, hand over, stop, force, persist | a stop during the handover, crashes between write and rename |
| log broker (`logging.py`, `log_*.py`) | history, followers, file writer | publish, configure, query, replay, close | publication against configuration, slow followers, storage failures |
| event delivery (`event_delivery.py`) | bounded queues and counters | emit, drain, close | saturation, final drain against a deadline |
| ssh service (`ssh/service.py`) | startup thread, sshd, monitor | start, stop, force, observe | a stop that meets the startup thread |
| file transfer and its coordinator (`container/transfer/`) | staging files, resume authority, attempts | transfer, retry, preserve, place | crashes, foreign changes, retries that must not resume |
| image build (`container/build/`) | the image being assembled, observation epochs | install, run hooks, observe, verify, write the manifest | executed code that changes anything, observations that are skipped |
| configuration (`config/merge.py`, `config/authored/`, `config/runtime/`) | none: functions of documents | merge layers, locate diagnostics, admit log settings | keyed lists, two merges of the same layers |
| planning (`config/planning/`, `host/planning/`) | the lock | build the request graph, reconcile, construct the plan | identities that move while they are resolved |
| host (`host/context/`, `filesystem/`, `rendering/`) | the published build context, private stages, backups | admit, copy, compare, publish | concurrent commands, interrupts and kills, edits of the sources |

The controller is shared by all threads of the runtime.  Control peers submit
and withdraw proposals, the log broker's drain threads report failures, signal
handlers latch signals, and the main thread (service owner, then lifecycle)
accepts, finalizes and publishes.  The lifecycle calls the download, ssh and
hook owners; everybody writes through the log broker, background owners
through the event delivery.  A download worker runs the transfer core under the
attempt coordinator, for the runtime's queues and for the image build alike, and
the runtime's own persist after each step what they may resume.  The host's
commands merge the configuration, reconcile it with the lock, and publish a
context; the image build executes it.

### What makes each component correct

* Controller: one restart at a time; a proposal is answered exactly once;
  shutdown is irreversible and outranks a restart; what `status` reports is
  what the client was told.
* Service owner and lifecycle: a successor only after everything of its
  predecessor has ended; events in order; every latched shutdown and failure
  ends the process, wherever the code bounds what it waits for.
* Shutdown: nothing is killed early, nothing is left alive but what two paths
  give up on, one budget.
* File transfer: the final path only ever shows whole content, a crash takes
  nothing back that was reported, and nothing is resumed or removed without
  authority.
* Downloads, sshd and hooks: a stop reaches what is running and leaves nothing.
* Logs and events: a reader that succeeds has read everything up to its last
  look at the queue once, in order; what is dropped is counted.
* Host: a published context is the one its lock describes; none is lost.
* Image build: nothing is executed on an image that is not proved to be the
  planned one, and the manifest is true.
* Configuration: later layers overlay earlier ones, and each diagnostic points
  at the layer that wrote what it is about.

## The plan

1. `RuntimeController`: the controller, with its proofs.  Done.
2. `RuntimeServe`, which extends it: service owner and lifecycle arbitration;
   the controller's most general specification as the abstract one it
   implements.  Done; refinement, both action properties and the order of
   events proved.
3. `GenerationShutdown`: shutdown of one generation in time.  Done, its safety
   properties proved.
4. `RuntimeControlPeers`: restart clients, accept thread, workers and bounded
   close over the controller.  Done; refinement and all safety properties
   proved.
5. `FileTransfer` and `AtomicTarget`, the promise it implements;
   `RuntimeDownloads` over `Aria2Daemon`.  Done; refinement and all safety
   properties of the runs proved.
6. `RuntimeLogs` over `LogStorage`.  Done, the safety properties of the run
   proved.
7. `RuntimeSupervision` over `RuntimeSsh`, `ChildProcess` and `EventDelivery`.
   Done; all safety properties of the run proved.
8. `HostContext` over `HostPlanning`, `ImageBuild` over `ImageObservers`,
   `ConfigMerge`.  Done; the safety properties of `HostContext` and of
   `ImageBuild` proved.

Every safety property that a run checks is proved, but for those of
`ConfigMerge`.  What these would need is said at the end of "The proofs".

## The modules

### RuntimeController

`RuntimeController.tla` has one variable per field of `RuntimeController` and
one record per client's `RuntimeRestartTicket`, and one action per method.  A
method holds `_lock` from start to end, so it is one step, with two exceptions:
`_publish_restart_terminal_unlocked` and `_reject_pending_unlocked` change the
slot first and notify the ticket afterwards, on the main thread, and the
program's signal handlers may raise in between.  `InterruptPublication` and
`InterruptRejection` are those torn executions; after them the lock is free, the
slot changed and the ticket not told.  The `unpublished` variable is the
ticket that a publication in progress is about to notify, and `LockFree` keeps
other threads out meanwhile.  `ControllerSpec` closes the module with the most
general caller that respects the methods' preconditions.

A ticket is used once: its number bounds operations and generations, so the
counters need no bound.  Exceptions that a method raises on a wrong call are
disabled actions; `CallsAreLegal` (below) checks that the service owner never
makes such a call.

| property | meaning |
|---|---|
| `PendingHoldsSlot` | a waiting proposal holds the slot, in the running state, with the wakeup set |
| `AcceptedKeepsSlot` | an accepted restart keeps the slot until its result is shown |
| `ResultsAgree` | the client and `status` see the same result, no operation is told twice |
| `ShutdownIrreversible` | nothing returns to running after a signal or failure |
| `TicketForward` | a ticket is answered once and never changes its mind |
| `OperationsSerial` | operations are numbered one after the other |

### RuntimeServe

`RuntimeServe.tla` extends the controller with the main thread.  `pc` is where
it is: before a generation (the serve handlers are installed), inside a
generation (the lifecycle's handlers are), in its shutdown, in one of the four
endings, or gone.  `step` is the startup phase, `owned` the live work,
`localSignal` and `admission` the generation's own record of signals,
`stopPath` the shutdown path, `lease` the serve-owned part of a generation's
life, `events` the generation events announced so far.  How owned work is
brought down is "each owner ends" here, one at a time, and `MayLeave` is what a
path finalizes without: after ComfyUI has ended by itself an sshd that cannot be
signalled or reaped, and where a signal finds that (`lifecycle.py:1000-1013`)
also a cancelled startup hook that was handed over.

Signals arrive at every point.  `LifecycleSignal`, `FrozenSignal`,
`ServeSignal` and `TeardownSignal` are the handler that is installed there, and
the handler raises exactly where `raise_on_signal` is set or the serve handler
is.  Not modelled: the handlers of SIGTERM and SIGINT are exchanged one at a
time; a failure message that is read and a generation that is marked terminal a
few lines later are one step; after an exception a signal may find the teardown
flag not yet set, which is modelled as raising.

`ControllerSpec` as a property of this module says that the composition
implements the controller's specification: the service owner, the lifecycle and
the signals make no step of the controller that its own module does not have.

| property | meaning |
|---|---|
| `SerialReplacement` | at a successor's allocation the predecessor has no work, has been announced stopped, none of its stop hooks failed, and no signal or failure is latched |
| `ShutdownOutranksRestart` | after a signal no generation is admitted or becomes ready |
| `EventsInOrder` | admitted, ready, stopping, stopped, each once, no generation mixed with the next |
| `NothingLeftPending` | a process that exits has answered all proposals, and exits nonzero after a failed restart |
| `CallsAreLegal` | no controller call of the main thread raises |
| `ShutdownCompletes`, `FailureCompletes` | a latched signal or failure ends the process, unless a shutdown waits without a bound |
| `AcceptedEnds` | whoever waits for an accepted restart is answered or sees the process end, unless a shutdown or a startup phase waits without a bound |

Fairness: the main thread runs (it is a single thread that polls), and owned work
that has been told to stop ends, as `GenerationShutdown` shows in detail, down to
the kill.  ComfyUI is not assumed to end by itself, and no client is assumed to
do anything.  Two waits of the main thread have no bound in the code, and there
no fairness is assumed:

* `StopHangs`: with `shutdown_timeout = -1` there is no deadline
  (`lifecycle.py:777`), so neither a stop hook nor a ComfyUI that ignores SIGTERM
  is forced before the signal is repeated.  `UnlimitedGenerations` are the
  generations that were configured so (the setting is read again by each).
* `PhaseHangs`: synchronous downloads (`downloads.py:320-328`), startup hooks
  (`hooks.py:621-643`) and the commands that prepare sshd (`ssh/config.py`) are
  waited for without a bound until the startup is cancelled.

The liveness properties say what follows if the main thread is, again and again,
in no such wait: `[]<>~StopHangs => ...`, and for `AcceptedEnds`
`[]<>(~StopHangs /\ ~PhaseHangs) => ...`.  A signal cancels a startup, so that
`ShutdownCompletes` needs nothing of the phases.

### GenerationShutdown

`GenerationShutdown.tla` has a clock.  `owner` gives each of the five owners
(downloads, sshd, an uncancelled startup hook, a stop hook, ComfyUI) a state
from running through asked and forced to ended; `timeline` is
`_ShutdownTimeline`; `pc` follows `_finish_signal_shutdown`,
`_run_stop_hooks_before_signal`, `run_runtime_stop_hooks`,
`_wait_for_stop_hook_process`, `_wait_for_managed_shutdown`,
`_wait_for_auxiliary_shutdown` and `_force_managed_shutdown` on the three
parallel paths (external signal, restart, failure), and
`cleanup_startup_failure`, the natural-exit cleanup and the cleanup after a late
signal on the three serial ones.

One poll is one step: what it observes only changes in one direction, so
observing the owners one after the other adds nothing.  Time passes only while
the main thread sleeps, and before it notices a recorded signal.  Between two
polls it does no work that takes time; a killed hook whose cancellation is
being waited for is reaped at once.  Not modelled: a process group that cannot
be signalled at all (`EPERM`), which raises out of the shutdown.

| property | meaning |
|---|---|
| `QuiescentReturn` | the lifecycle returns only when everything has ended, but for sshd and a handed-over startup hook where the code gives up on them |
| `HooksBeforeSignal` | ComfyUI is untouched while a stop hook runs that could still need it |
| `ForceIsJustified` | nobody is killed before its bound, the budget or a repeated signal |
| `BudgetKept` | once the budget is spent or the signal repeated, nothing is left to escalate |
| `AuxiliaryBoundKept` | the same of the auxiliary bound, except while stop hooks run |
| `TimelineKept` | an accepted timeline never changes |
| `CleanupEnds` | cleanup ends whenever something bounds it |

Fairness: the main thread runs, time passes, and what has been *forced* ends;
what has only been asked may ignore it for ever.

The exceptions of `QuiescentReturn`: `ssh.stop` after a natural or late exit of
ComfyUI gives up on an sshd that cannot be signalled or reaped, and the late path
neither ends nor waits for `active_hook_process`.  That one is set when the group
of a cancelled startup hook refused a signal (`lifecycle.py:744`), and it may
still be running when the next look finds that ComfyUI has ended.

Noted on the way: with a budget of at most the reserve (two seconds) the
pre-stop deadline is the moment of acceptance and stop hooks never run, as
`docs/user/runtime.md` says.

### RuntimeControlPeers

`RuntimeControlPeers.tla` extends the controller with the endpoint.  Each
element of `Tickets` is a client, its connection and the proposal it may make:
`client` is where `restart_runtime` is or what it reports, `socket` the server's
end, `requests` and `responses` the frames under way, `worker` the thread that
runs `_handle_peer` and `_serve_restart`, and `seen` the ticket snapshot it acts
on, which may be old.  The accept thread holds a peer in `accepting` between
`accept` and the registration under `_peers_lock`.  Status and log peers only
count (`others`).  The main thread may make any legal call of the controller
until it stops the server, so everything here holds for `RuntimeServe` too;
`NothingLeftPending` is where that module shows the guard of `StopAccepting`.

A client may be interrupted or killed at any time.  A Unix stream delivers what
was sent before a close, so the acknowledgement only delays the worker.  Not
modelled: clients of another user and malformed frames, which the server turns
away before they reach the controller, and a send that blocks (a restart answer
is a few bytes).

| property | meaning |
|---|---|
| `AnswerIsTruth` | success, failure, busy, unavailable: what a client reports is what became of its proposal |
| `AnsweredNotLost` | a client that stays is answered unless the budget of the final close is spent |
| `PeerAccounting` | no slot of the limit leaks, none is exceeded, and a closed endpoint has no open peer |
| `AbandonedIsWithdrawn` | a proposal whose client is gone leaves the slot |
| `TeardownEnds` | the final close ends with all threads of the endpoint and all its clients |

Fairness: the threads and clients that are not killed run, time passes, and a
log follower ends once the log broker or the server is closed.  The owner's
calls are not assumed.

### FileTransfer and AtomicTarget

`FileTransfer.tla` is one desired file over several starts of the worker.  `fs`
gives each name (the target, the staging file, aria2's control file) a leaf: its
inode, what it contains and whether that was flushed; `disk` is what a crash
leaves; `saved` and `savedDisk` are the same of the state file.  `run` holds the
worker's place and local variables: the attempt of
`coordinate_transfer_attempts`, the authority to resume, the inodes of the
descriptors it holds.  The actions follow `reconcile` and `download_file`
(`Start`, `SkipExisting`, `RejectExisting`), the persisted entry (`WriteState`,
`SyncState`, `StateWriteFails`), the transport (`Admit`, `SaveControl`,
`Answers`, `TransportBreaks`, `Waited`), `_verify_and_place` (`Verify`,
`CheckTarget`, `Rename`, `SyncPlaced`) and the exact cleanup (`CleanSync`,
`Settle`).  `Crash`, failing calls, and a user who changes the target or the
staging name may come between any two of them.

`AtomicTarget.tla` is what a transfer promises of the final path; the module
implements it with the target's visible and durable contents as the mapping.

| property | meaning |
|---|---|
| `ImplementsAtomicTarget` | no reader, and no reader after a crash, finds anything but whole content, replaced only where overwriting is configured |
| `DownloadedIsDurable` | a file reported as downloaded survives a crash |
| `StateStaysValid` | one identity per namespace, resume authority only for unfinished aria2 transfers |
| `NothingOrphaned` | without a fault, a worker leaves no partial file the next start could neither resume nor clean |

Abstracted: contents are absent, partial, whole and right, or somebody else's;
the walk to the parent directory is one admission; delays only order attempts.
An inode number is not given out again while something refers to it: eighteen
places can refer to one and an action takes up to two more, so that
`InodesSuffice` asks for twenty.

### RuntimeDownloads and Aria2Daemon

`RuntimeDownloads.tla` has the threads of a generation's two queues: `main` (the
lifecycle: activation, `start_async`, `stop`, force), `worker` (`_run_queue` and
its backends), `canc` (the thread that cancels the backends it was given once).
`queue` is the handle with its flags, summary and state file, `httpx` the cancel
flag of that backend.  `Aria2Daemon.tla` is the lifecycle of the aria2 process:
each section under its lock is a step, so that `_ensure_started` and the two
callers of `_close_until` meet in every order; a deadline may pass at any wait
and the daemon may fail to start, not answer, or exit.

| property | meaning |
|---|---|
| `StopReachesTransport` | a cancelling thread that is done has cancelled every backend the worker can be using, although it read the list once |
| `StoppedLeavesNothing` | when the lifecycle calls the queues stopped, no thread, no live daemon and no open state file is left |
| `StopEnds` | a stop ends, also when a transfer hangs and the daemon does not answer |

Fairness: threads run, deadlines pass, and a transfer that is asked to end does.

### RuntimeLogs and LogStorage

A chunk is one byte, known by its position.  `LogStorage.tla` has directory
(`names`, inodes that are reused), the catalog and the rotation in progress
(`store`), the queue and thread of `AsyncLogWriter` (`writer`) and one reader
(`rd`) that captures a range, opens the file and checks what it opened.
`RuntimeLogs.tla` adds the broker: `Publish` under its lock, the history, the
admission of the settings in its three stretches (`Configure`, `OpenStore`,
`Attach`), a query with replay and a follower (`Subscribe` to `LookReason`), and
the close in its order (`BeginClose`, `CloseWriter`, `CloseFollowers`).

| property | meaning |
|---|---|
| `WrittenIsTheLog` | what a client writes is the log, in order, each byte once |
| `SuccessIsComplete` | a client that succeeds missed nothing that was retained when it asked and, following, nothing published before the sender last found its queue empty |
| `RecordingHasNoHole` | the files and their queue hold every byte from the first they were handed |

The sender takes a chunk (`ReceiveLive`, `server.py:271`) and, when there was
none, reads the close reason (`LookReason`, `server.py:275`): two sections under
the follower's lock.  What is published between them, with the broker closing
right after, stays in the queue of a client that is told "end".  The property
therefore speaks of the last look, and says that exactly what came after it is
still queued.

Abstracted: language streams, text framing and the pipes' reader threads; two
drains are one publisher, since publication is one section.

### HostContext and HostPlanning

`HostPlanning.tla` is pure: the request graph of a configuration, the stability
of a selector, reconciliation under the three policies (default, `--locked`,
`--upgrade-lock`), what a plan is constructed from and when that is a defect.  A
request stands for its own digest.  `IsLock` and `BuildPlans` are the forms of a
lock and of a plan the code reads back: a lock that misses an entry an image
needs, or knows one too many, does not load.  `HostContext.tla` runs host
commands on one output: identities resolved first, admission of the local tree,
reconciliation, construction, the private stage that is copied member by member,
revalidation, and the publication that moves the old context aside, installs the
new one and drops the backup; or, for `--check`, the comparison.  Versions move
upstream, the tree is edited, calls fail, the user interrupts (`Abort`) and the
process is killed in between.  Nothing serialises two commands.

| property | meaning |
|---|---|
| `PlanIsConstructed` | a lock that reconciliation accepts is one a plan can be made from, although versions move between the identities resolved first and the rest |
| `LatestKept` | the context published last is at the output or in a backup |
| `PublishedMatchesLock` | a context a command published last holds what its own lock promises, although the sources change while they are copied |

### RuntimeSupervision, RuntimeSsh, ChildProcess, EventDelivery

`ChildProcess.tla` is `process/control.py`: poll, reap, a cooperative signal,
force; a thread that blocks in `wait` hides an exit from other threads' polls.
`RuntimeSsh.tla` has the startup thread of sshd (authorized keys, two password
commands, host keys, configuration, preflight, sshd), the publication of each
command, the stop request and the monitor.  `EventDelivery.tla` has the bounded
queues, the counters of what did not fit, progress, and the worker that drains
under the lock and delivers outside of it.  The queues of warnings and of
transitions are sets of numbered events: the code sorts both by that number when
it drains them, and the worker hands over the lowest number first.
`RuntimeSupervision.tla` is the main thread over them: start-phase hooks, the
start of sshd, its watch, the endings (`way`: parallel, serial, `exit` after
ComfyUI ended by itself, `gone` when a signal or a cancelled hook finds it
ended), and the close of the delivery.

| property | meaning |
|---|---|
| `PublishedIsSignalled` | a command published while the stop is being requested is signalled by one of the two threads |
| `StoppedIsClean` | a generation that is over has no child, no startup thread and no generated configuration left; only a handed-over hook may live on where ComfyUI was found ended |
| `AlarmIsGenuine` | an exit is reported as unexpected only if nobody asked for it |
| `WarningsAccounted` | a warning is delivered or counted, in the order it was offered, unless the close was cut |
| `StopEnds` | a shutdown or a cleanup ends, whatever children do with SIGTERM |

Fairness: the threads run, deadlines pass, the worker drains, a killed child
ends, and ComfyUI, which is not part of the module, ends once the shutdown has
begun.  Not modelled: descendants that outlive a group's leader, a refused signal
to a direct child, a second refused group signal, a `wait` that raises in the
monitor, and the latch that silences a failing sink.

### ImageBuild and ImageObservers

`ImageObservers.tla` gives each fact an observer reads (the checkout, its
submodules, the application's and the nodes' distributions, trees, downloads,
the manager's requirements) one of four states, and has one operator per
observer.  `ImageBuild.tla` is the program that `final_renderer.py` writes, and
what its RUN steps do: `at` is the operation that comes next, and one action per
kind of operation says what it checks, changes and executes, and which comes
after it.  In install-custom-nodes `turn` is the node, its phase (hooks before
the clone, preparation, and so on) and which of the phase's boundaries is next,
and `context` is what `_verify_mixed_state` is told: the nodes admitted, prepared
and to come.  `file` is the download that is next.  What is executed (hooks,
install scripts, package builds) may change any fact, and may leave a process
that changes one later, until its RUN step ends.  `epoch` is
`_ObservationEpoch`: an observer may be skipped when nothing was executed since.

| property | meaning |
|---|---|
| `MutatesProvedState` | nothing is executed for a custom node unless application, manager and nodes are proved to be the plan's, skipped observations included |
| `InstalledIsExact` | what install-custom-nodes admitted is as planned when it ends |
| `ManifestIsTrue` | an image with a final manifest is the planned one, fact by fact |

The first holds only while no left process has changed anything: nobody
observes between two steps.  The second tolerates such a change up to the forced
last verification, the third at any time.  `TypeOK`, `HookRunsLocked` (a hook
that is executed has the content the plan locked) and `CopyMeetsNoLink` (no COPY
of a tree meets a link) hold on the same instance.

### ConfigMerge

A pure algorithm, run layer by layer.  A value is a leaf, a table or an array, a
node a value with its origin.  `MergeTables`, `MergeLists` and `MergeValue` are
`_merge_mapping`, `_merge_keyed_sequence` and `_merge_value`; `OriginIndex` and
`EffectiveIndex` are the two indexes the code keeps apart.  `Projection` and
`LogLayers` are the second, earlier merge that admits the log settings, and
`LogsOf` what an admission makes of a merged document: the settings, the defaults,
or a refusal where "cdh" is no table.  The document made from the environment
(`environment`: the last layer is one) is a layer of the whole merge in any case,
and of the early one only when it sets the logs.

| property | meaning |
|---|---|
| `OriginsAreTrue` | every value with a location stands there in that layer; one without was put together from several |
| `MissingIsBlamed` | an absent field is blamed on the layer that wrote the whole table, or on none |
| `LayersOverlay` | a keyed list is the entries of all layers since it was last cleared, each at the place it first had; a duplicate stays visible |
| `LogsAgree` | both merges come to the same log settings or the same refusal; only a "cdh" that is no table, replaced by other variables of the environment, is refused early and accepted later |

Recursive operators make this module one for TLC only.

## The runs

| run | instance | what it shows |
|---|---|---|
| `serve` | two clients (hence up to three generations), two signals, the second generation without a shutdown budget | service owner and lifecycle implement `ControllerSpec`; replacement, precedence and order of events; shutdowns and accepted restarts end |
| `peers` | two clients, one other peer, a limit of two | the controller's slot and results under any legal owner, and that clients are told the truth and are not lost |
| `peers_live` | one client, one other peer, a limit of one | an abandoned proposal is withdrawn, the close ends |
| `shutdown` | all paths, budgets 0, 1, 3, 5 and unlimited ticks, two stop hooks | quiescence, the budget, and that cleanup ends |
| `transfer` | every request, two attempts, three starts, two faults of any kind | the file on disk, through crashes, errors and outside changes |
| `downloads` | twelve plans of up to one synchronous and two asynchronous items | stop and force of both queues |
| `logs` | four bytes, two files of two bytes, small queues, all three modes | rotation, hand-over, replay, follower and close |
| `host` | two commands out of five, one new version, one edit, one fault | planning and publication on one output |
| `supervision` | eight scenarios of ssh settings, hooks and producers, one refused signal, queues of one | startup, stop, alarms and delivery |
| `image` | three plans, two changes by what is executed | boundaries, final verification, manifest |
| `config` | every sequence of three layers of one of four families, and the defaults, two files and an environment | merge, origins, log settings |
| `serve_torn_result` | one client, one signal | one claim the code does not keep |

Why the bounds are enough.  Two tickets in `serve` give a first generation, a
successor that is itself replaced, and a last one; two clients in `peers` meet in
the slot, one after the other or at once, and with the other peer the limit turns
one of them away.  They are symmetric in `peers` only; runs with liveness use no
symmetry.  In `shutdown` the program's bounds of 5 s (auxiliaries, component
stops), 4 s (child) and 2 s (reserve) are 2, 1 and 1 ticks: each order of budget,
reserve and auxiliary bound occurs, and `Horizon` ends time only where nothing
but forced owners is left to wait for.  In `transfer` a second attempt meets what
the first left, a third start what a failed second one left, and two faults are
an outside change followed by a crash.  In `downloads` the second item is one
that is reached, or not, after a stop.  Four bytes in `logs` rotate twice and
evict once, three inodes are reused, and an earlier controller has left one byte
(`MaxOld`) or none.  In `host` both commands publish, one
of them over the other, with a fault at any step.  In `supervision` each queue
holds one and two are offered.  Two changes in `image` are one that hides
another.  A third layer in `config` overlays what two have already put together.
Runs that may end in a state without successors say so in their configuration;
only `serve` and `serve_torn_result` check for deadlock, and there the exit
stutters.

Each property has a mutant: a definition changed the way a plausible bug would,
kept beside the original and marked `mutant`, which TLC finds to violate it.

The modules define more than the runs check: type invariants, and
`AcceptedKeepsSlot`, `ShutdownIrreversible`, `TicketForward`,
`OperationsSerial` (controller), `NothingLeftPending`, `CallsAreLegal`,
`FailureCompletes` (serve), `PeerAccounting` (peers), `HooksBeforeSignal`,
`ForceIsJustified`, `AuxiliaryBoundKept`, `TimelineKept` (shutdown),
`ForeignKept` (transfer), `CancelledIsQuiescent`, `CompletionKept` (downloads),
`DefaultReproduces` (host), `HookRunsLocked` and `CopyMeetsNoLink` (image) hold
on the same instances and can be added to the configuration.  They are proved
too, but for `FailureCompletes`, which is liveness.

## Where the code and its documentation disagree

`serve_torn_result` is a run that TLC finds violated: a signal between committing
a restart's result and notifying its ticket leaves the client unanswered
(`AcceptedIsAnswered`); later attempts return early because a result is
committed.  `docs/dev/contracts.md` says that both failure paths publish a
result.

Other claims of the documents that the models refute.  Each is a definition;
checked in the place of the properties of the named configuration, TLC finds the
counterexample.

* `DrainFailureExitsNonzero` (`MCRuntimeServe`): a signal during the cleanup of a
  failed drain turns the failure into an external shutdown, and cdh exits with
  ComfyUI's status.
* `RestartDeadlineKept` (`MCRuntimeServe`): a signal during the successor's
  startup starts a second, later timeline.
* `SuccessorAfterAllHooks` (`MCGenerationShutdown`): a stop hook that ends just
  at the pre-stop deadline makes the loop end silently; the restart goes on
  although later stop hooks never ran.
* `LateSignalKeepsDeadline` (`MCGenerationShutdown`): a signal that finds ComfyUI
  ended gives downloads and sshd five fresh seconds each, and a repeated signal
  changes nothing.
* `LateSignalEndsHook` (`MCGenerationShutdown`): the same path returns while a
  startup hook that was handed over is alive and unreaped.
  `docs/dev/contracts.md:459` says that a hook's leader and group are owned
  "through cancellation or deadline escalation, terminal result, and leader
  reap".  It is the hook that `StoppedIsClean` excepts.
* `NeverRefused` (`MCFileTransfer`, with `FaultKinds = {"user"}`): a target that
  changes between two starts may refuse the start, where `docs/user/runtime.md`
  makes it an ordinary failure of that file.
* `SuccessIsComplete` (`MCRuntimeLogs`, with one file in the place of two).  The
  run has captured the memory `[0, 2)`, and the only file begins at 1.  Memory
  loses byte 0 before the replay is planned.  `expected_start`
  (`logging.py:717`) is the start of the oldest captured file where there is
  one, so nothing is found missing and the client succeeds without byte 0.
  `docs/dev/contracts.md:380` says "Gaps or eviction during replay make results
  incomplete"; `max_files` may be one (`config/logs.py`).  With two files
  or more the oldest file is never younger than memory, which is proved below.
* `ReadSurvivesRotation` (`MCRuntimeLogs`): a reader looks a file up in the
  catalog and in the rename in progress in two sections
  (`log_storage.py:433`); a rename that ends between them makes a retained file
  unavailable, and a query that could succeed fails.
* `EndAfterQueue` (`MCRuntimeLogs`): a chunk published between the sender's look
  at its queue and its look at the close reason is dropped when the broker closes
  in between, and the client is told "end".  `docs/dev/contracts.md:385` says
  "Sole sender emits explicit live-end after final queued delivery".
* `EarlyAdmissionIsNarrower` (`MCConfigMerge`): with `cdh = "x"` in a file and
  only `CDH_DEFAULT_DOWNLOADER` set, the whole configuration is accepted, since
  the environment's table replaces the string, but the admission of the log
  settings, which drops that layer, refuses it first.
  `config/runtime/config.py:288` says "Admit only recording settings so later
  generation errors can be captured".

Observations without a definition of their own.

* `host/context/service.py:427`: whether the output may be replaced is decided
  before the stage is written; line 457 moves away whatever is there by then.
* No plan fixes the manager's requirements file, local nodes are verified again
  by their root directory only, and the boundaries of an installation skip the
  registry scan when the plan has no registry node although the manifest never
  does.
* `lifecycle.py:842`: the signal handler sets an `Event` whose lock the
  interrupted thread may hold; the modules treat `set` and `wait` as one step.

The same kind of tear as in the run: `_reject_pending_unlocked`
clears the slot before it notifies the ticket (`InterruptRejection`), so a signal
in between leaves the proposal pending for ever; and a signal inside the close of
the admission lease leaves an admitted generation without its final event.  A
repeated signal during the cleanup of a failed startup forces one owner at a
time, as `cleanup_startup_failure` stops them one after the other.

## The proofs

Each proof module extends the module it is about; `RuntimeController_proofs` is
about the controller and the two systems that implement it, `RuntimeServe` and
`RuntimeControlPeers`.  All theorems hold for every
value of the constants that satisfies the named assumptions, hence for any number
of clients, peers, generations, attempts, queue items, commands and faults;
bounds such as `MaxStarts` only stop TLC.

| assumption | why it holds of the code |
|---|---|
| `NoTicketAssumption`, `NoSignalAssumption`, `UnlimitedAssumption` | a value that stands for "none" is not one of the others |
| `MaxPeersAssumption`, `MaxOthersAssumption`, `TransferBounds`, `TimeoutsAssumption`, `BoundsAssumption`, `PathsAssumption` | limits and budgets are numbers, and at least one peer and one attempt are allowed |
| `InodesSuffice` | a file system gives no inode away that something still refers to; the model needs twenty for that |
| `PlansAreQueues` | a plan is two queues of items of a known kind |
| `ScenariosAreCounts`, `ProcsAreChildren`, `CapacitiesPositive` | what a scenario produces is a number, the children are those commands, sshd and the hook, and a queue holds at least one event |
| `CategoriesAreWarnings`, `CategoriesAreNamed` | the value that stands for an event that is not a warning is no category of warnings, and the categories the owner and the hooks warn in are among them |
| `MembersAssumption`, `ContentsAssumption`, `InvocationsAssumption` | a tree has members, a file a content, an invocation is one the command line has |
| `PlansAssumption`, `MaxChangesAssumption` | a plan of an image is two sequences, of nodes and of downloads, as `_validate_inputs` admits them: node names are distinct, a registry node needs the manager, only git nodes have hooks before the clone; what it names is none of the image's own facts.  How often something is changed is a number |
| `StorageBounds`, `LogBounds` | sizes, capacities and the number of files are positive (`config/logs.py`), there are more inodes than files, and the file an earlier controller left is no longer than a file may be |
| `OutputsAssumption` | what is at the output before the first command is a whole context, a foreign directory or nothing; a lock that is not whole is rejected as it is loaded |

**RuntimeController.**  `ControllerSpec` implies `TypeOK`, `PendingHoldsSlot`,
`AcceptedKeepsSlot`, `ResultsAgree`, `ShutdownIrreversible`, `TicketForward` and
`OperationsSerial`.  The state predicates are not inductive.  They say nothing of
a free slot, and not that the operation in progress is the newest one, so a
result could be written into an old operation.  `SlotInv` adds that slot,
operation and result are taken and given back together (`SlotConsistent`), that
only a committed result makes the operation in progress the last restart
(`LastRestartConsistent`), that a publication in progress concerns the active
ticket (`PublicationConsistent`) and what each ticket's state says of its
operation (`TicketOperations`).  One lemma per action shows that it preserves
`SlotInv`; the action properties follow from the invariant in the state before
the step.

**RuntimeServe.**  `Spec` of the serve loop implements `ControllerSpec`
(`ServeImplementsController`): every step of the main thread, of a listener or
of a signal handler is one of the controller's actions or leaves the controller
alone, so the theorems above hold of the running system (`ServeSlotInvariant`).
`ShutdownOutranksRestart` and `SerialReplacement` follow from `ServeInv`.  To know
that no generation is admitted or becomes ready after a signal one must know
where the main thread can be by then (`LatchedWhere`: nowhere before a lifecycle,
nowhere its handler raises, and elsewhere only with the signal on the
generation's own record), and to know what a successor finds one must know what
`FinalizeGeneration` leaves behind (`FinalizedComplete`).  `EventsInOrder` speaks
of a whole sequence, and an event can only be appended in order by somebody who
knows the last one: `OrderInv` says where the main thread is when each event is
the last (`EventsTold`, `PredecessorEnded`) and whether the lease or the lifecycle
owes the end of the generation (`LeaseHeld`); with that, one lemma about
appending to an ordered sequence does for all announcements.
`CallsAreLegal` and `NothingLeftPending` ask of every place of the main thread
what the controller has latched by then, which signals and listeners change at
any moment.  `CallInv` says what the start of a generation
(`StartsInStep`), the path of a shutdown (`PathJustified`), the result of a
lifecycle (`ResultJustified`, `FailureJustified`) and a committed success
(`ShownAtOnce`) claim of the slot, and `LeftInStep` what is left of it at the
exit.  It stands because the latches only ever move one way
(`MarksStand`, `FailedMarks`).  `ServeTypeOK` (`ServeTypes`) needs `PhaseRuns`, that
the checkpoint is reached and never run as a phase, and `StopPathTaken`, since a
lifecycle without a path would have no result.

**RuntimeControlPeers.**  The endpoint implements `ControllerSpec` too, and
`PeerAccounting` holds for every set of clients and every limit.
`EndpointInv` adds to it which sockets belong to registered peers and that
nothing is accepted once the endpoint stops.  `AnswerIsTruth` and
`AnsweredNotLost` relate what a client reports to what became of its ticket, with
up to two frames, a worker and an old copy of the ticket in between.
`Conversation(c)` follows them one client at a time: where the client is and what
it has been sent (`ClientConsistent`), what the worker has seen and what it still
has to do (`WorkerConsistent`), that a terminal frame says what the ticket says
(`ToldConsistent`), and when a connection may have been cut (`CutConsistent`).  A
step of one client leaves the conversations of the others alone, and a step of
the owner moves tickets only forward, so that each action needs the lemma about
its own client only.

**GenerationShutdown.**  Every safety property of the shutdown, for every set of
admitted timeouts, every reserve and bound, and any number of stop hooks;
the proofs use nothing of `Horizon` but its type.  `TypeOK` itself is not
inductive: the count of completed hooks stays in range only because a hook that
runs is one of those left (`HookCounted`).  The properties follow from
`ShutdownInv`, which says which points belong to which path, that the hooks'
share ends no later than the deadline (so that a main thread that sleeps for a
hook has not passed the deadline), why the main thread has gone on from the
hooks, that what was forced as a whole stays forced, and how far a serial path
has come.  No owner but a stop hook ever comes to life again (`OwnersStep`), which
carries most of it.  `QuiescentReturn` names which owner which path may leave;
the proof shows that no path returns with any other alive.

**FileTransfer.**  `PathIsAtomic` is the refinement: under the mapping of the
module, every step is a step of `AtomicTarget` or leaves the visible and the
durable content of the target alone.  Only `Rename` and a crash are not plain
stutters.  `Rename` is one because the staged leaf is whole and flushed by then
(`StagedIsProven`, `HoldsStaging`) and replaces somebody else's file only where
that was asked for (`ReplacesOnlyIfAsked`); a crash, because what is visible
differs from what is durable only by a name whose content is on disk already
(`TargetIsWhole`).  `ReportedIsDurable` adds that nothing is reported before the
directory is flushed (`PlacedIsDurable`, `ResultComesLast`).  `EntriesStayValid`
needs who may write an entry (`SoleEntry`) and that authority to resume comes
from aria2 only (`AuthorityIsAria`).  `NothingOrphaned` holds of a worker that
met no fault; `FaultlessIsAccounted` says for each of its places which
artifacts exist and which entry accounts for them.
`ForeignKept` is about the steps, and an authority is acted on long after it was
granted, by another worker even.  `ForeignInv` therefore says of every authority
that the worker, the state file or its durable copy holds, that it does not name
a file of somebody else, that such a file is durable as it is visible, so that a
crash cannot bring back another, and that a worker holds no staging name next to
it.  Each step grants only what was granted before, or names a leaf that the
worker has just made or held (`GrantsNoMore`, `FileGrantsNoMore`).

**RuntimeDownloads.**  `StopReachesTransport`, `StoppedLeavesNothing`,
`CancelledIsQuiescent` and `CompletionKept`, for every plan of the two queues.
The canceller reads the list of backends once, so one must know that the worker
registers a backend before it uses it and that the flag is raised before the list
is read (`StopComesFirst`, `CancelReaches`).  That no daemon is left depends on
three threads that may each close it: `DaemonInStep`, `AdapterInStep` and
`ProcessIsOwned` say who owns it at each place, and `MainInStep` and
`WorkerInStep` who waits for whom; `WorkerLeavesNothing` is what the last one
leaves.

**RuntimeSupervision.**  `PublishedIsSignalled`, `StoppedIsClean` and
`AlarmIsGenuine`, for every scenario.  The stop raises its flag and then looks at
what is published, the startup thread publishes and then looks at the flag;
`FlagFirst` and `SignalOnItsWay` say that one of them sees the other.
`StarterConsistent`, `ServiceConsistent`, `ConfigConsistent` and `HookOwned` give
each child, and sshd's configuration, one thread that will see to it
(`ChildrenOwned`), and `ServiceGone` what remains of none.  `HookOwned` also says
when nobody does: the hook was handed over and the generation left by way of
`gone`.  `WarningsAccounted`,
for queues of any size: it adds up what the queue, the counters and the worker
hold.  Events are numbered from zero again in each round, so the order of the
numbers is the order of the offers only within a queue and within what the worker
carries; `Numbered` says this of both, that the queue holds later offers than the
worker, and the worker later ones than it has handed over.  That a worker which
ends has nothing left needs `ClosedInOrder`: the queues refuse offers before the
worker is told to finish, so its last round finds all there will be.  That no
queue outgrows its capacity (`QueueLimits`, part of `TypeOK`, theorem
`QueuesAreBounded`) is proved for all capacities: progress of a transfer that has
a slot takes the old one out first (`WithoutScopeIsShorter`), and one that has
none takes the oldest slot of a full queue.

**HostContext.**  `PlanIsConstructed`, `LatestKept`, `PublishedMatchesLock` and
`DefaultReproduces`, for any number of commands on one output.  The requests
are made from two identities that are resolved first, while versions move.
`Resolved` says where each came from: an identity that was kept then is kept again
when the lock is reconciled, and one that was acquired is answered from the cache
(`CacheSound`), so that the lock answers the requests (`LockSound`).
`LatestInv` follows the context published last through the backup of whoever
moves it aside.  A stage is filled from the tree that its own lock was made from
(`Filled`), which gives `PublishedMatchesLock`.  `TypesHold` is by induction with
these: what is at the output was a complete stage, and a stage is complete only
with a lock that was reconciled and a plan that was made from it.
`DefaultReproduces` needs both: a lock that answers every request of its
configuration has the identities the command resolves first, so the requests are
those it was made for, every entry is kept, and a lock is no more than its
entries (`IsLock`).

**ImageBuild.**  `MutatesProvedState`, `InstalledIsExact`, `ManifestIsTrue`,
`HookRunsLocked` and `CopyMeetsNoLink`, for plans of any number of nodes, hooks,
submodules and downloads, and any number of changes.  `MutatesProvedState` is
about observations that are skipped: `Observed` says that what an observer has
seen in the current epoch still holds, that both observers have seen it when
something is about to be executed, and neither once it is.  The other halves are
where the program is: `Turns` (what is executed belongs to a node of the plan,
and the final verification is a boundary that comes after the last one),
`Admitting` (which nodes are in the context at each phase; a sequence of nodes is
extended in one place only, and `FollowingIsLater` shows that no phase is
skipped that would) and `FinallyExact` (the forced verification looks at
everything, whatever was seen before).  For `ManifestIsTrue` no process may be
left while evidence is gathered (`NothingRuns`), and a tree that is not a
directory must have no member (`TreeIsDirectory`).

**RuntimeLogs.**  `RecordingHasNoHole` and `WrittenIsTheLog`, for files,
histories and queues of any size, and any number of files; `SuccessIsComplete`
where more than one file is kept.  The first is about the lock: `Admitted` says
that the memory history ends where the publication does until a writer takes
over, so that `Attach` hands on just what the writer has not seen.  For the
second, `Catalog` says what the directory and the catalog agree on between any
two steps of the writer: ranges follow one another (`InOrder`), no inode is
catalogued twice (`Distinct`), an inode has the bytes its entry claims
(`Contents`) and stands under its name, or under that of the rotation in progress
(`Catalogued`).  The exception to both is the file that is being dropped.  A
query outlives all that: what it captured may be renamed, dropped, and its inode
written again.  `Traced` is what remains true of a captured range, that wherever
the catalog still has its inode for a range beginning no later, it is that one;
`Reading` says that a reader, once it has seen the range retained, holds the
byte it is for.  With the pieces of a plan in order (`PiecesInOrder`) the
client only moves forward (`Written`).

`SuccessIsComplete` needs in addition that something is there to be read.
`Retention` says of the writer that a file is full before the next one begins and
of the oldest file that it is no younger than what memory has lost; dropping a
file keeps this because the next one is complete behind it, which is where
`MaxFiles > 1` is used.  A query therefore captures files that begin no later than
memory does (`Asked`), so that a plan which begins with something else begins
with a piece marked missing (`PlanFromOldest`).  From there on `Covered` says that
a replay which still calls itself complete has written all it has passed, and
`Followed` that a follower has queued all that came since, or has been closed for
a reason that is not the end of the log; between the sender's two looks, that it
has taken all there was at the first of them.  `Told` is the property together
with what a client that was told the end knows of the broker.

`LogsTypeOK` (`LimitsHold`) is the bounds the code promises: `Limits` for the
files, of which there are at most `MaxFiles` of at most `FileSize` bytes, each
going on where the one before it ends, but for what an earlier controller
left, and `Buffers` for the memory history, before and after its capacity is
known, and for the queue of a follower.

Only model-checked:

* all liveness, which under fairness is outside the prover's reach
  (`ShutdownCompletes`, `FailureCompletes`, `AcceptedEnds`,
  `AbandonedIsWithdrawn`, `TeardownEnds`, `CleanupEnds` and both `StopEnds`);
* `ConfigMerge` (`OriginsAreTrue`, `MissingIsBlamed`, `LayersOverlay`,
  `LogsAgree`): the merge is recursive, and what it computes needs induction over
  the nesting of a document.

## Not modelled

* The readiness probe (one poll that succeeds, fails or is cancelled), the
  runtime's secret session and the host's credential helpers (a private directory
  or a process that answers from values read once, on one thread), and the
  container's terminal presentation.
* Text, encodings, schema validation, parsing of settings, HTTP and the
  platform's file system calls as such: each is an outcome of the step that makes
  it.
* Discovery of hook files, descendants of process groups, several desired files
  that meet in one path, status conversations beyond their place among the
  peers, and docker itself.
