---------------------------- MODULE RuntimeServe ----------------------------
(***************************************************************************)
(* The serve loop and the lifecycle of its generations, as one main thread *)
(* (container/runtime/serve.py and lifecycle.py) that drives the           *)
(* RuntimeController while listener threads submit restarts, drain threads *)
(* report output failures, the ComfyUI child exits by itself and SIGTERM   *)
(* and SIGINT arrive at any moment.                                        *)
(*                                                                         *)
(* A signal runs the handler installed at that point.  The serve handler   *)
(* raises out of the serve loop on the first signal.  The lifecycle        *)
(* handler records the signal for its generation and raises only where     *)
(* raise_on_signal is set.  How owned work is brought down (deadlines,     *)
(* forcing) is abstracted here: an owner that something bounds ends        *)
(* eventually.  The module GenerationShutdown has the detail.              *)
(***************************************************************************)
EXTENDS RuntimeController, Sequences

CONSTANT
    UnlimitedGenerations  \* generations with shutdown_timeout = -1; the
                          \* configuration is read anew for each

ASSUME UnlimitedGenerationsAssumption == UnlimitedGenerations \subseteq Nat

VARIABLES
    pc,                \* where the main thread is
    step,              \* the startup phase the lifecycle is in
    owned,             \* live work of the current generation
    childCode,         \* how ComfyUI ended: "none", "zero", "nonzero"
    localSignal,       \* the generation's own record of signals
    admission,         \* the generation still records signals
    stopPath,          \* which shutdown path the lifecycle has taken
    hookFailed,        \* a stop hook of this generation has failed
    cause,             \* stop cause its owner (lease or lifecycle) recorded
    lease,             \* _ServeGenerationLease.state, "none" without a lease
    result,            \* cause of the RuntimeGenerationResult, or "ERROR"
    shutdownDeadline,  \* generation whose shutdown timeline is projected
    events,            \* generation events in the order they were emitted
    exit               \* exit status: "none" while running, then zero or not

serveVars == <<pc, step, owned, childCode, localSignal, admission, stopPath,
               hookFailed, cause, lease, result, shutdownDeadline, events,
               exit>>
vars == <<controllerVars, serveVars>>

Owners == {"downloads", "ssh", "hook", "child"}
Steps == {"files", "prestart", "ssh", "async", "spawn", "readiness",
          "poststart", "checkpoint"}
Causes == {"NATURAL_EXIT", "EXTERNAL_SHUTDOWN", "OPERATOR_RESTART",
           "CONTROLLER_FAILURE", "STARTUP_FAILURE"}

\* Points at which the lifecycle's handlers are installed.
LifecyclePoints ==
    {"check", "run", "checkpoint", "mark", "show_success", "release", "ready",
     "wait", "accept", "stop_hooks", "quiesce", "finalized"}

Init ==
    /\ ControllerInit
    /\ pc = "boot"
    /\ step = "files"
    /\ owned = {}
    /\ childCode = "none"
    /\ localSignal = "none"
    /\ admission = FALSE
    /\ stopPath = "none"
    /\ hookFailed = FALSE
    /\ cause = "none"
    /\ lease = "none"
    /\ result = "none"
    /\ shutdownDeadline = 0
    /\ events = <<>>
    /\ exit = "none"

At(l) == pc = l
Goto(l) == pc' = l

Event(g, e) == [generation |-> g, event |-> e]
Emit(e) == events' = Append(events, Event(generation, e))

-----------------------------------------------------------------------------
(* Before a generation: the serve handlers are installed.                  *)

\* Logging broker, configuration sources and control endpoint.
Boot ==
    /\ At("boot")
    /\ \/ Goto("admit") /\ UNCHANGED exit
       \/ Goto("leave") /\ exit' = "nonzero"
    /\ UNCHANGED <<controllerVars, step, owned, childCode, localSignal,
                   admission, stopPath, hookFailed, cause, lease, result,
                   shutdownDeadline, events>>

AdmitInitial ==
    /\ At("admit")
    /\ IF runtimeFailure
         THEN /\ Goto("leave")
              /\ exit' = "nonzero"
              /\ UNCHANGED controllerVars
         ELSE /\ BeginInitialAdmission
              /\ Goto("lease")
              /\ UNCHANGED exit
    /\ UNCHANGED <<step, owned, childCode, localSignal, admission, stopPath,
                   hookFailed, cause, lease, result, shutdownDeadline,
                   events>>

TakeLease ==
    /\ At("lease")
    /\ lease' = "owned"
    /\ cause' = "none"
    /\ result' = "none"
    /\ Goto("announce")
    /\ UNCHANGED <<controllerVars, step, owned, childCode, localSignal,
                   admission, stopPath, hookFailed, shutdownDeadline, events,
                   exit>>

AnnounceAdmitted ==
    /\ At("announce")
    /\ Emit("admitted")
    /\ Goto("top")
    /\ UNCHANGED <<controllerVars, step, owned, childCode, localSignal,
                   admission, stopPath, hookFailed, cause, lease, result,
                   shutdownDeadline, exit>>

\* The failure check at the top of the loop.
CheckFailure ==
    /\ At("top")
    /\ IF runtimeFailure
         THEN Goto("close_lease") /\ cause' = "CONTROLLER_FAILURE"
         ELSE Goto("create") /\ UNCHANGED cause
    /\ UNCHANGED <<controllerVars, step, owned, childCode, localSignal,
                   admission, stopPath, hookFailed, lease, result,
                   shutdownDeadline, events, exit>>

\* claim_lifecycle_ownership: the lifecycle announces the end from here on.
OwnershipUnclaimed == lease' = lease                               \* mutant
ClaimOwnership == lease' = "none"

\* create_generation either fails, or the lifecycle installs its handlers and
\* takes the generation over with a fresh signal state and fresh owners.
CreateGeneration ==
    /\ At("create")
    /\ \/ /\ Goto("close_lease")
          /\ cause' = "STARTUP_FAILURE"
          /\ UNCHANGED <<step, childCode, localSignal, admission, stopPath,
                         hookFailed, lease>>
       \/ /\ Goto("check")
          /\ step' = "files"
          /\ childCode' = "none"
          /\ localSignal' = "none"
          /\ admission' = TRUE
          /\ stopPath' = "none"
          /\ hookFailed' = FALSE
          /\ ClaimOwnership
          /\ UNCHANGED cause
    /\ UNCHANGED <<controllerVars, owned, result, shutdownDeadline, events,
                   exit>>

\* _ServeGenerationLease.close, one assignment or emission at a time: the
\* serve handler may raise between any two of them.
CloseLease ==
    /\ \/ /\ At("close_lease")
          /\ lease' = "stopping"
          /\ Goto("emit_stopping")
          /\ UNCHANGED events
       \/ /\ At("emit_stopping")
          /\ Emit("stopping")
          /\ Goto("stop_lease")
          /\ UNCHANGED lease
       \/ /\ At("stop_lease")
          /\ lease' = "stopped"
          /\ Goto("emit_stopped")
          /\ UNCHANGED events
       \/ /\ At("emit_stopped")
          /\ Emit("stopped")
          /\ lease' = "none"
          /\ Goto("start_failure")
    /\ UNCHANGED <<controllerVars, step, owned, childCode, localSignal,
                   admission, stopPath, hookFailed, cause, result,
                   shutdownDeadline, exit>>

LeasePoints == {"close_lease", "emit_stopping", "stop_lease", "emit_stopped"}

-----------------------------------------------------------------------------
(* Shutdown paths of the lifecycle.                                        *)

\* _RuntimeLifecycleEvents.begin_stopping: announced once; an external
\* shutdown takes the cause over.
BeginStopping(c) ==
    IF cause = "none"
      THEN cause' = c /\ Emit("stopping")
      ELSE /\ cause' = IF c = "EXTERNAL_SHUTDOWN" THEN c ELSE cause
           /\ UNCHANGED events

\* The first timeline of a generation stays; accepting it projects it on the
\* controller.
AcceptTimeline == shutdownDeadline' = generation

StopWithChild == IF "child" \in owned THEN "stop_hooks" ELSE "quiesce"

\* finish_startup_signal_shutdown, on the signal's own timeline.  A child
\* found terminal already ends the generation without stop hooks.
FinishSignalShutdown ==
    /\ BeginStopping("EXTERNAL_SHUTDOWN")
    /\ IF childCode = "none"
         THEN stopPath' = "external" /\ Goto(StopWithChild)
         ELSE stopPath' = "late" /\ Goto("quiesce")

\* cleanup_startup_failure: no stop hooks.
CleanupStartupFailure(c) ==
    /\ BeginStopping(c)
    /\ AcceptTimeline
    /\ stopPath' = "startup"
    /\ Goto("quiesce")

\* prioritize_runtime_health, then the cleanup.
CleanupPrioritized ==
    CleanupStartupFailure(
        IF runtimeFailure THEN "CONTROLLER_FAILURE" ELSE "STARTUP_FAILURE")

NaturalExit ==
    /\ BeginStopping("NATURAL_EXIT")
    /\ admission' = FALSE
    /\ stopPath' = "natural"
    /\ Goto("quiesce")

-----------------------------------------------------------------------------
(* Startup.                                                                *)

\* requested_signal of the generation.
SignalRecordedOnlyRepeated == localSignal = "repeated"             \* mutant
SignalRecorded == localSignal # "none"

\* The controller's latched failure, whatever woke the thread.
Unhealthy == runtimeFailure

\* Before each phase: a recorded signal first, then the runtime's health.
StartupCheck ==
    /\ At("check")
    /\ \/ /\ SignalRecorded
          /\ FinishSignalShutdown
          /\ UNCHANGED shutdownDeadline
       \/ /\ ~SignalRecorded
          /\ Unhealthy
          /\ CleanupStartupFailure("CONTROLLER_FAILURE")
       \/ /\ ~SignalRecorded
          /\ ~Unhealthy
          /\ Goto(IF step = "checkpoint" THEN "checkpoint" ELSE "run")
          /\ UNCHANGED <<stopPath, cause, events, shutdownDeadline>>
    /\ UNCHANGED <<controllerVars, step, owned, childCode, localSignal,
                   admission, hookFailed, lease, result, exit>>

Following(s) ==
    CASE s = "files" -> {"prestart"}
      [] s = "prestart" -> {"ssh"}
      [] s = "ssh" -> {"async"}
      [] s = "async" -> {"spawn"}
      [] s = "spawn" -> {"readiness", "checkpoint"}   \* with post-start hooks
      [] s = "readiness" -> {"poststart"}
      [] s = "poststart" -> {"checkpoint"}

StartupCancelled == SignalRecorded \/ Unhealthy

\* What a phase may leave running when it succeeds: synchronous downloads
\* only when they were cancelled, a hook never.
LeftBySuccess(s) ==
    CASE s = "files" -> IF StartupCancelled THEN {{}, {"downloads"}} ELSE {{}}
      [] s = "ssh" -> {{}, {"ssh"}}
      [] s = "async" -> {{}, {"downloads"}}
      [] s = "spawn" -> {{"child"}}
      [] OTHER -> {{}}

LeftByFailure(s) ==
    CASE s \in {"files", "async"} -> {{}, {"downloads"}}
      [] s = "ssh" -> {{}, {"ssh"}}
      [] s \in {"prestart", "poststart"} -> {{}, {"hook"}}
      [] OTHER -> {{}}

RunPhase ==
    /\ At("run")
    /\ \E left \in LeftBySuccess(step) : owned' = owned \cup left
    /\ \E next \in Following(step) : step' = next
    /\ Goto("check")
    /\ UNCHANGED <<controllerVars, childCode, localSignal, admission,
                   stopPath, hookFailed, cause, lease, result,
                   shutdownDeadline, events, exit>>

\* A failed hook or spawn under a recorded signal is the signal's doing.
FailPhase ==
    /\ At("run")
    /\ \E left \in LeftByFailure(step) : owned' = owned \cup left
    /\ IF step \in {"prestart", "spawn", "poststart"} /\ SignalRecorded
         THEN FinishSignalShutdown /\ UNCHANGED shutdownDeadline
         ELSE \/ step # "spawn" /\ CleanupPrioritized
              \/ /\ step \in {"ssh", "spawn"}
                 /\ CleanupStartupFailure("STARTUP_FAILURE")
    /\ UNCHANGED <<controllerVars, step, childCode, localSignal, admission,
                   hookFailed, lease, result, exit>>

-----------------------------------------------------------------------------
(* publish_running_checkpoint, with raise_on_signal set throughout.        *)

CheckpointHealth ==
    /\ At("checkpoint")
    /\ IF runtimeFailure
         THEN CleanupStartupFailure("CONTROLLER_FAILURE")
         ELSE /\ Goto("mark")
              /\ UNCHANGED <<stopPath, cause, events, shutdownDeadline>>
    /\ UNCHANGED <<controllerVars, step, owned, childCode, localSignal,
                   admission, hookFailed, lease, result, exit>>

\* A failure latched since the check makes the transition itself raise.
MarkInitialRunning ==
    /\ At("mark")
    /\ generation = 1
    /\ IF runtimeFailure
         THEN /\ CleanupStartupFailure("CONTROLLER_FAILURE")
              /\ UNCHANGED controllerVars
         ELSE /\ MarkInitialGenerationRunning
              /\ Goto("ready")
              /\ UNCHANGED <<stopPath, cause, events, shutdownDeadline>>
    /\ UNCHANGED <<step, owned, childCode, localSignal, admission, hookFailed,
                   lease, result, exit>>

CommitSuccess ==
    /\ At("mark")
    /\ generation # 1
    /\ CommitRestartTerminal("succeeded")
    /\ Goto("show_success")
    /\ UNCHANGED <<step, owned, childCode, localSignal, admission, stopPath,
                   hookFailed, cause, lease, result, shutdownDeadline, events,
                   exit>>

ShowSuccess ==
    /\ At("show_success")
    /\ PublishCommitted
    /\ Goto("release")
    /\ UNCHANGED <<step, owned, childCode, localSignal, admission, stopPath,
                   hookFailed, cause, lease, result, shutdownDeadline, events,
                   exit>>

\* Success committed as failure cannot be released: the generation is
\* cleaned up as a controller failure.
Release ==
    /\ At("release")
    /\ IF terminal = "succeeded"
         THEN /\ ReleaseSuccessfulRestart
              /\ Goto("ready")
              /\ UNCHANGED <<stopPath, cause, events, shutdownDeadline>>
         ELSE /\ runtimeFailure
              /\ CleanupStartupFailure("CONTROLLER_FAILURE")
              /\ UNCHANGED controllerVars
    /\ UNCHANGED <<step, owned, childCode, localSignal, admission, hookFailed,
                   lease, result, exit>>

AnnounceReady ==
    /\ At("ready")
    /\ shutdownDeadline' = 0
    /\ Emit("ready")
    /\ Goto("wait")
    /\ UNCHANGED <<controllerVars, step, owned, childCode, localSignal,
                   admission, stopPath, hookFailed, cause, lease, result,
                   exit>>

-----------------------------------------------------------------------------
(* The wait loop: child first, then signal, then failure, then restart.    *)

ChildEnded == childCode # "none"

\* The checks both at the head of the loop and inside its masked section.
LeaveWait ==
    /\ pc \in {"wait", "accept"}
    /\ \/ ChildEnded /\ NaturalExit /\ UNCHANGED shutdownDeadline
       \/ /\ ~ChildEnded
          /\ SignalRecorded
          /\ FinishSignalShutdown
          /\ UNCHANGED <<admission, shutdownDeadline>>
       \/ /\ ~ChildEnded
          /\ ~SignalRecorded
          /\ Unhealthy
          /\ BeginStopping("CONTROLLER_FAILURE")
          /\ AcceptTimeline
          /\ stopPath' = "failure"
          /\ Goto("stop_hooks")
          /\ UNCHANGED admission
    /\ UNCHANGED <<controllerVars, step, owned, childCode, localSignal,
                   hookFailed, lease, result, exit>>

StayWaiting == ~ChildEnded /\ ~SignalRecorded /\ ~Unhealthy

EnterMaskedSection ==
    /\ At("wait")
    /\ StayWaiting
    /\ Goto("accept")
    /\ UNCHANGED <<controllerVars, step, owned, childCode, localSignal,
                   admission, stopPath, hookFailed, cause, lease, result,
                   shutdownDeadline, events, exit>>

\* The checks have passed but the child may have ended and
\* a signal or a failure may be latched since.
AcceptRestart ==
    /\ At("accept")
    /\ AcceptPending
    /\ BeginStopping("OPERATOR_RESTART")
    /\ AcceptTimeline
    /\ stopPath' = "restart"
    /\ Goto("stop_hooks")
    /\ UNCHANGED <<step, owned, childCode, localSignal, admission, hookFailed,
                   lease, result, exit>>

DeclineRestart ==
    /\ At("accept")
    /\ DeclinePending
    /\ Goto("wait")
    /\ UNCHANGED <<step, owned, childCode, localSignal, admission, stopPath,
                   hookFailed, cause, lease, result, shutdownDeadline, events,
                   exit>>

-----------------------------------------------------------------------------
(* Bringing a generation down.                                             *)

\* A repeated signal skips the hooks.
RunStopHooks ==
    /\ At("stop_hooks")
    /\ \/ UNCHANGED <<owned, hookFailed>>
       \/ /\ localSignal # "repeated"
          /\ hookFailed' = TRUE
          /\ \E left \in {{}, {"hook"}} : owned' = owned \cup left
    /\ Goto("quiesce")
    /\ UNCHANGED <<controllerVars, step, childCode, localSignal, admission,
                   stopPath, cause, lease, result, shutdownDeadline, events,
                   exit>>

Ended(o) == o = "child" => ChildEnded

ReapOwner(o) ==
    /\ At("quiesce")
    /\ o \in owned
    /\ Ended(o)
    /\ owned' = owned \ {o}
    /\ UNCHANGED <<controllerVars, pc, step, childCode, localSignal,
                   admission, stopPath, hookFailed, cause, lease, result,
                   shutdownDeadline, events, exit>>

\* Every path goes on until all of its work has ended, except that after a
\* natural or late exit of ComfyUI ssh.stop gives up on an sshd that cannot be
\* signalled or reaped, and that a late exit passes over a cancelled hook that
\* was handed over alive.
MayLeave ==
    CASE stopPath = "natural" -> {"ssh"}
      [] stopPath = "late" -> {"ssh", "hook"}
      [] OTHER -> {}

MayFinalizeAfterChild == "child" \notin owned                      \* mutant
MayFinalize == owned \subseteq MayLeave

ResultOfPath ==
    CASE stopPath = "natural" -> "NATURAL_EXIT"
      [] stopPath = "startup" -> "ERROR"
      [] stopPath \in {"external", "late"} -> "EXTERNAL_SHUTDOWN"
      [] stopPath = "failure" ->
           IF SignalRecorded THEN "EXTERNAL_SHUTDOWN"
                                   ELSE "CONTROLLER_FAILURE"
      [] stopPath = "restart" ->
           IF SignalRecorded THEN "EXTERNAL_SHUTDOWN"
           ELSE IF hookFailed THEN "ERROR"
                              ELSE "OPERATOR_RESTART"

\* _finalize_runtime_generation: freeze the signal record, let a recorded
\* signal take the cause over, publish the end.
FinalizeGeneration ==
    /\ At("quiesce")
    /\ MayFinalize
    /\ admission' = FALSE
    /\ cause' = IF SignalRecorded THEN "EXTERNAL_SHUTDOWN" ELSE cause
    /\ Emit("stopped")
    /\ result' = ResultOfPath
    /\ Goto("finalized")
    /\ UNCHANGED <<controllerVars, step, owned, childCode, localSignal,
                   stopPath, hookFailed, lease, shutdownDeadline, exit>>

\* The serve handlers are back; until here signals were only latched.
RestoreHandlers ==
    /\ At("finalized")
    /\ Goto("result")
    /\ UNCHANGED <<controllerVars, step, owned, childCode, localSignal,
                   admission, stopPath, hookFailed, cause, lease, result,
                   shutdownDeadline, events, exit>>

-----------------------------------------------------------------------------
(* What the serve loop makes of a lifecycle's result.                      *)

ChildExit == IF childCode = "none" THEN "nonzero" ELSE childCode

AfterNaturalExit ==
    /\ At("result")
    /\ result = "NATURAL_EXIT"
    /\ IF runtimeFailure
         THEN Goto("start_failure") /\ UNCHANGED <<controllerVars, exit>>
         ELSE /\ MarkGenerationTerminal
              /\ exit' = ChildExit
              /\ Goto("leave")
    /\ UNCHANGED <<step, owned, childCode, localSignal, admission, stopPath,
                   hookFailed, cause, lease, result, shutdownDeadline,
                   events>>

AfterExternalShutdown ==
    /\ At("result")
    /\ result = "EXTERNAL_SHUTDOWN"
    /\ MarkExternalShutdown
    /\ exit' = ChildExit
    /\ Goto("leave")
    /\ UNCHANGED <<step, owned, childCode, localSignal, admission, stopPath,
                   hookFailed, cause, lease, result, shutdownDeadline,
                   events>>

\* A RuntimeExecutionError under a latched signal is a shutdown; otherwise it
\* is, like a controller failure, a failed start.
AfterFailure ==
    /\ At("result")
    /\ result \in {"ERROR", "CONTROLLER_FAILURE"}
    /\ IF result = "ERROR" /\ SignalLatched
         THEN /\ MarkExternalShutdown
              /\ exit' = "nonzero"
              /\ Goto("leave")
         ELSE Goto("start_failure") /\ UNCHANGED <<controllerVars, exit>>
    /\ UNCHANGED <<step, owned, childCode, localSignal, admission, stopPath,
                   hookFailed, cause, lease, result, shutdownDeadline,
                   events>>

AfterOperatorRestart ==
    /\ At("result")
    /\ result = "OPERATOR_RESTART"
    /\ \/ AllocateRestartSuccessor /\ Goto("lease")
       \/ DenyRestartSuccessor /\ Goto("show_failure")
    /\ UNCHANGED <<step, owned, childCode, localSignal, admission, stopPath,
                   hookFailed, cause, lease, result, shutdownDeadline, events,
                   exit>>

\* publish_start_failure: nothing to tell, told already, or a failed restart.
PublishStartFailure ==
    /\ At("start_failure")
    /\ \/ /\ operation = 0
          /\ MarkGenerationTerminal
          /\ exit' = "nonzero"
          /\ Goto("leave")
       \/ /\ operation # 0
          /\ lastRestart.id = operation
          /\ exit' = "nonzero"
          /\ Goto("leave")
          /\ UNCHANGED controllerVars
       \/ /\ operation # 0
          /\ lastRestart.id # operation
          /\ CommitRestartTerminal("failed")
          /\ Goto("show_failure")
          /\ UNCHANGED exit
    /\ UNCHANGED <<step, owned, childCode, localSignal, admission, stopPath,
                   hookFailed, cause, lease, result, shutdownDeadline,
                   events>>

\* A successor denied for a signal alone leaves as an external shutdown.
ShowFailure ==
    /\ At("show_failure")
    /\ PublishCommitted
    /\ IF result = "OPERATOR_RESTART" /\ ~runtimeFailure
         THEN Goto("shutdown") /\ UNCHANGED exit
         ELSE Goto("leave") /\ exit' = "nonzero"
    /\ UNCHANGED <<step, owned, childCode, localSignal, admission, stopPath,
                   hookFailed, cause, lease, result, shutdownDeadline,
                   events>>

\* except _RuntimeControllerShutdownRequested: the lease, if any, is closed
\* without further interruption.
ServeShutdown ==
    /\ At("shutdown")
    /\ MarkExternalShutdown
    /\ lease' = "none"
    /\ IF lease = "none"
         THEN UNCHANGED <<cause, events>>
         ELSE /\ cause' = "EXTERNAL_SHUTDOWN"
              /\ events' = events
                   \o (IF lease = "owned" THEN <<Event(generation, "stopping")>>
                                          ELSE <<>>)
                   \o <<Event(generation, "stopped")>>
    /\ exit' = "nonzero"
    /\ Goto("leave")
    /\ UNCHANGED <<step, owned, childCode, localSignal, admission, stopPath,
                   hookFailed, result, shutdownDeadline>>

\* Teardown: from here a signal is only latched.
Leave ==
    /\ At("leave")
    /\ Goto("exited")
    /\ UNCHANGED <<controllerVars, step, owned, childCode, localSignal,
                   admission, stopPath, hookFailed, cause, lease, result,
                   shutdownDeadline, events, exit>>

MainThread ==
    \/ Boot \/ AdmitInitial \/ TakeLease \/ AnnounceAdmitted \/ CheckFailure
    \/ CreateGeneration \/ CloseLease
    \/ StartupCheck \/ RunPhase \/ FailPhase
    \/ CheckpointHealth \/ MarkInitialRunning \/ CommitSuccess \/ ShowSuccess
    \/ Release \/ AnnounceReady
    \/ LeaveWait \/ EnterMaskedSection \/ AcceptRestart \/ DeclineRestart
    \/ RunStopHooks \/ FinalizeGeneration \/ RestoreHandlers
    \/ AfterNaturalExit \/ AfterExternalShutdown \/ AfterFailure
    \/ AfterOperatorRestart \/ PublishStartFailure \/ ShowFailure
    \/ ServeShutdown \/ Leave

-----------------------------------------------------------------------------
(* Signals.                                                                *)

\* Points where the lifecycle's raise_on_signal is set.
LifecycleRaises ==
    \/ pc \in {"checkpoint", "mark", "show_success", "release", "ready",
               "wait"}
    \/ pc = "run" /\ step = "readiness"

\* Points from which the serve loop calls mark_generation_terminal.
MarksTerminal ==
    \/ At("result") /\ result = "NATURAL_EXIT" /\ ~runtimeFailure
    \/ At("start_failure") /\ operation = 0

\* A handler that raises does so before the step at hand, in the middle of a
\* publication, or in the middle of the rejection of a proposal.
LatchSignal(s) ==
    IF unpublished # NoTicket
      THEN InterruptPublication(s)
      ELSE \/ ObserveExternalSignal(s)
           \/ MarksTerminal /\ InterruptRejection(s)

\* The lifecycle's handler, while the generation records signals.
LifecycleSignal(s) ==
    /\ pc \in LifecyclePoints
    /\ admission
    /\ IF localSignal = "none"
         THEN localSignal' = "once" /\ AcceptTimeline
         ELSE localSignal' = "repeated" /\ UNCHANGED shutdownDeadline
    /\ IF ~LifecycleRaises
         THEN /\ ObserveExternalSignal(s)
              /\ UNCHANGED <<pc, stopPath, cause, events, admission>>
         ELSE /\ LatchSignal(s)
              /\ IF pc = "wait" /\ ChildEnded
                   THEN NaturalExit
                   ELSE FinishSignalShutdown /\ UNCHANGED admission
    /\ UNCHANGED <<step, owned, childCode, hookFailed, lease, result, exit>>

\* A generation that is being finalized only passes the signal on.
FrozenSignal(s) ==
    /\ pc \in LifecyclePoints
    /\ ~admission
    /\ ObserveExternalSignal(s)
    /\ UNCHANGED serveVars

\* The serve handler: the first signal raises out of the loop, and a lease
\* that is past its last event is dropped on the way.
ServeSignal(s) ==
    /\ pc \notin LifecyclePoints \cup {"exited"}
    /\ IF SignalLatched
         THEN ObserveExternalSignal(s) /\ UNCHANGED <<pc, lease>>
         ELSE /\ LatchSignal(s)
              /\ Goto("shutdown")
              /\ lease' = IF lease = "stopped" THEN "none" ELSE lease
    /\ UNCHANGED <<step, owned, childCode, localSignal, admission, stopPath,
                   hookFailed, cause, result, shutdownDeadline, events, exit>>

TeardownSignal(s) ==
    /\ At("exited")
    /\ ObserveExternalSignal(s)
    /\ UNCHANGED serveVars

-----------------------------------------------------------------------------
(* The rest of the world.                                                  *)

ChildExits ==
    /\ "child" \in owned
    /\ childCode = "none"
    /\ childCode' \in {"zero", "nonzero"}
    /\ UNCHANGED <<controllerVars, pc, step, owned, localSignal, admission,
                   stopPath, hookFailed, cause, lease, result,
                   shutdownDeadline, events, exit>>

ListenersWithoutWakeup ==                                          \* mutant
    /\ ~At("exited")
    /\ LockFree
    /\ runtimeFailure' = TRUE
    /\ UNCHANGED <<state, phase, generation, opCounter, operation,
                   lastRestart, pending, active, terminal, ticket,
                   unpublished, wakeup, externalSignal, serveVars>>

\* The control endpoint and the broker are closed before the process exits.
Listeners ==
    /\ ~At("exited")
    /\ \/ \E t \in Tickets : SubmitRestart(t) \/ WithdrawRestart(t)
       \/ ObserveRuntimeFailure
    /\ UNCHANGED serveVars

SignalArrives ==
    \E s \in Signals : LifecycleSignal(s) \/ FrozenSignal(s) \/ ServeSignal(s)
                         \/ TeardownSignal(s)

Exited == At("exited") /\ UNCHANGED vars

Next == MainThread \/ (\E o \in Owners : ReapOwner(o)) \/ ChildExits
          \/ Listeners \/ SignalArrives \/ Exited

Spec == Init /\ [][Next]_vars

\* Nothing bounds the wait for a stop hook, or for a ComfyUI that has been
\* signalled, when there is no shutdown budget and no repeated signal.
StopHangs ==
    /\ generation \in UnlimitedGenerations
    /\ localSignal # "repeated"
    /\ \/ At("stop_hooks")
       \/ /\ At("quiesce")
          /\ stopPath \in {"external", "restart", "failure"}
          /\ "child" \in owned /\ ~ChildEnded

\* Nor the wait for synchronous downloads, for a startup hook or for the
\* commands that prepare sshd, until the startup is cancelled.
PhaseHangs ==
    /\ At("run")
    /\ step \in {"files", "prestart", "ssh", "poststart"}
    /\ ~StartupCancelled

\* The main thread runs, and a child that is being brought down ends (it is
\* killed at the latest when the shutdown budget is spent), wherever something
\* bounds the wait.  Every other owner that has been told to stop ends: it is
\* killed at the auxiliary bound.
Fairness ==
    /\ WF_vars(~StopHangs /\ ~PhaseHangs /\ MainThread)
    /\ WF_vars(At("quiesce") /\ ~StopHangs /\ ChildExits)
    /\ \A o \in Owners : WF_vars(ReapOwner(o))

FairSpec == Spec /\ Fairness

-----------------------------------------------------------------------------
(* Properties.                                                             *)

\* The types of the main thread's state.
ServeTypeOK ==
    /\ TypeOK
    /\ pc \in LifecyclePoints \cup LeasePoints \cup
              {"boot", "admit", "lease", "announce", "top", "create",
               "result", "start_failure", "show_failure", "shutdown", "leave",
               "exited"}
    /\ step \in Steps
    /\ owned \subseteq Owners
    /\ childCode \in {"none", "zero", "nonzero"}
    /\ localSignal \in {"none", "once", "repeated"}
    /\ admission \in BOOLEAN
    /\ stopPath \in {"none", "external", "late", "startup", "natural",
                     "failure", "restart"}
    /\ hookFailed \in BOOLEAN
    /\ cause \in Causes \cup {"none"}
    /\ lease \in {"none", "owned", "stopping", "stopped"}
    /\ result \in (Causes \ {"STARTUP_FAILURE"}) \cup {"none", "ERROR"}
    /\ shutdownDeadline \in Nat
    /\ events \in Seq([generation : Nat,
                       event : {"admitted", "ready", "stopping", "stopped"}])
    /\ exit \in {"none", "zero", "nonzero"}

\* A restart is a complete serial replacement: when a successor is allocated,
\* all owned work of the old generation has ended and its end has been
\* announced, none of its stop hooks failed, and no signal or failure is
\* latched.
SerialReplacement ==
    [][generation' # generation /\ generation # 0 =>
          /\ owned = {}
          /\ events # <<>>
          /\ events[Len(events)] = Event(generation, "stopped")
          /\ ~hookFailed
          /\ ~SignalLatched
          /\ ~runtimeFailure]_vars

\* Docker's shutdown wins over a restart: once a signal is latched no
\* successor is admitted and no generation becomes ready.
ShutdownOutranksRestart ==
    [][SignalLatched =>
          /\ generation' = generation
          /\ Len(events') > Len(events) =>
               events'[Len(events')].event \in {"stopping", "stopped"}]_vars

Rank(e) == CASE e = "admitted" -> 1 [] e = "ready" -> 2
             [] e = "stopping" -> 3 [] e = "stopped" -> 4

\* Generation events come in order, each at most once, and nothing of a
\* generation is announced after its successor has appeared.
EventsInOrder ==
    \A i, j \in 1..Len(events) : i < j =>
        \/ events[i].generation < events[j].generation
             /\ \E k \in i..j : events[k] =
                    Event(events[i].generation, "stopped")
        \/ events[i].generation = events[j].generation
             /\ Rank(events[i].event) < Rank(events[j].event)

\* A process that exits leaves no proposal in the slot and takes none any more
\* (the teardown of the control endpoint relies on both), and a restart that
\* failed without an external shutdown ends in a nonzero exit status.
NothingLeftPending ==
    pc = "exited" =>
        /\ pending = NoTicket /\ unpublished = NoTicket
        /\ state # "running"
        /\ (\E t \in Tickets : ticket[t].state = "failed") /\ ~SignalLatched =>
             exit = "nonzero"

\* The serve loop never makes a controller call that raises: where it calls
\* one that may, the slot is in the state the call requires.
CallsAreLegal ==
    /\ pc = "mark" => IF generation = 1
                        THEN state = "starting" /\ phase = "admitting"
                        ELSE MayPublishTerminal("succeeded")
    /\ pc = "result" /\ result = "OPERATOR_RESTART" => MayAllocate
    /\ pc = "result" /\ result = "NATURAL_EXIT" /\ ~runtimeFailure =>
         active = NoTicket /\ terminal = "none"
    /\ pc = "result" /\ result = "CONTROLLER_FAILURE" => runtimeFailure
    /\ pc = "result" /\ result = "EXTERNAL_SHUTDOWN" => SignalLatched
    /\ pc = "shutdown" => SignalLatched
    /\ pc = "start_failure" /\ operation = 0 => active = NoTicket
    /\ pc = "release" => terminal = "succeeded" \/ runtimeFailure

\* A latched shutdown signal ends the process, whatever startup phase it finds
\* running, unless a shutdown without a budget waits forever for a stop hook or
\* a ComfyUI that does not end.
ShutdownCompletes ==
    []<>~StopHangs => (SignalLatched ~> pc = "exited")

\* A latched failure of an output drain ends the process in the same way.
FailureCompletes ==
    []<>~StopHangs => (runtimeFailure ~> pc = "exited")

\* Whoever waits for an accepted restart gets its result, or sees the process
\* end, unless the old generation is never brought down (no budget) or the
\* successor stays forever in a startup phase that nothing bounds.
AcceptedEnds ==
    []<>(~StopHangs /\ ~PhaseHangs) =>
        \A t \in Tickets :
            ticket[t].state = "accepted" ~>
                ticket[t].state \in Results \/ pc = "exited"

\* Claims of the documentation that the code does not keep (see README).

\* contracts.md: failure of a primary drain "ends cdh nonzero".
DrainFailureExitsNonzero ==
    pc = "exited" /\ stopPath = "failure" => exit = "nonzero"

\* contracts.md: a shutdown that meets an active restart "cannot create a
\* later deadline".
RestartDeadlineKept ==
    [][~SignalLatched /\ active # NoTicket /\ terminal = "none"
         /\ shutdownDeadline # 0 /\ SignalLatched'
       => shutdownDeadline' = shutdownDeadline]_vars

\* contracts.md: both failure paths of a restart "publish a failed operation
\* result".
AcceptedIsAnswered ==
    pc = "exited" => \A t \in Tickets : ticket[t].state # "accepted"

=============================================================================
