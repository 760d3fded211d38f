-------------------------- MODULE GenerationShutdown --------------------------
(***************************************************************************)
(* How the lifecycle brings the work of one generation down, in time       *)
(* (container/runtime/lifecycle.py: _ShutdownTimeline,                     *)
(* _finish_signal_shutdown and the functions it calls,                     *)
(* cleanup_startup_failure, the natural-exit cleanup).                     *)
(*                                                                         *)
(* Five owners may be alive: the download operation, sshd, a startup hook  *)
(* that could not be cancelled, a stop hook, and ComfyUI.  Three paths (an *)
(* external signal, an accepted restart, a latched failure) ask the        *)
(* auxiliaries to stop, run the stop hooks, signal ComfyUI and wait for    *)
(* everything at once, against one timeline.  The other three (a failed    *)
(* startup, a natural exit, a signal that finds ComfyUI ended) stop one    *)
(* owner after the other; the last two know downloads and sshd alone.      *)
(*                                                                         *)
(* Time is discrete.  The main thread polls, and time passes only while it *)
(* sleeps: its bookkeeping between two polls takes no time, and `polled'   *)
(* says that it has seen this instant and found nothing to do.             *)
(***************************************************************************)
EXTENDS Integers

CONSTANTS
    ShutdownTimeouts,  \* admitted values of shutdown_timeout
    Unlimited,         \* shutdown_timeout = -1, and the deadline None
    Reserve,           \* COMFYUI_SHUTDOWN_RESERVE_SECONDS
    AuxBound,          \* AUXILIARY_SHUTDOWN_BOUND_SECONDS
    StopBound,         \* default timeout of downloads.stop and ssh.stop
    ChildGrace,        \* twice CHILD_TERMINATION_REAP_GRACE_SECONDS
    StopHooks,         \* number of stop hooks
    Paths,             \* paths to consider
    Horizon            \* bound of the model: the last instant at which time
                       \* passes with nothing but forced owners to wait for

ParallelPaths == {"external", "restart", "failure"}
SerialPaths == {"startup", "natural", "late"}

ASSUME UnlimitedAssumption == Unlimited \notin Nat
ASSUME TimeoutsAssumption == ShutdownTimeouts \subseteq Nat \cup {Unlimited}
ASSUME BoundsAssumption ==
    /\ Reserve \in Nat
    /\ AuxBound \in Nat
    /\ StopBound \in Nat
    /\ ChildGrace \in Nat
    /\ StopHooks \in Nat
    /\ Horizon \in Nat
ASSUME PathsAssumption == Paths \subseteq ParallelPaths \cup SerialPaths

VARIABLES
    now,         \* monotonic()
    polled,      \* the main thread sleeps, having seen this instant
    pc,          \* where the main thread is
    path,        \* why the generation is brought down
    timeout,     \* the generation's shutdown_timeout
    timeline,    \* _ShutdownTimeline, accepted or not
    request,     \* the generation's signals: "none", "once", "repeated"
    owner,       \* state of each owner
    sync,        \* the download operation is the synchronous one
    hooksRun,    \* stop hooks that have completed
    hookFailed,  \* _StopHookAttempt.failure
    auxReached,  \* auxiliary_bound_reached
    limit        \* deadline of the owner being stopped on a serial path

vars == <<now, polled, pc, path, timeout, timeline, request, owner, sync,
          hooksRun, hookFailed, auxReached, limit>>

Auxiliaries == {"downloads", "ssh"}
Hooks == {"startHook", "hook"}
Owners == Auxiliaries \cup Hooks \cup {"child"}

\* "asked" is the cooperative request (a stop flag, SIGTERM), "forced" is
\* force_cancel or SIGKILL, "ended" is terminal evidence of the owner.
OwnerStates == {"absent", "running", "asked", "forced", "ended"}
Live(o) == owner[o] \in {"running", "asked", "forced"}
AllEnded == \A o \in Owners : ~Live(o)

Asked(S) == [o \in Owners |-> IF o \in S /\ owner[o] = "running"
                              THEN "asked" ELSE owner[o]]
Forced(S) == [o \in Owners |-> IF o \in S /\ Live(o)
                                THEN "forced" ELSE owner[o]]

MinOf(a, b) == IF a < b THEN a ELSE b
MaxOf(a, b) == IF a < b THEN b ELSE a

-----------------------------------------------------------------------------
(* The timeline.                                                           *)

NoTimeline == [accepted |-> FALSE, deadline |-> Unlimited,
               preStop |-> Unlimited, aux |-> 0]

TimelineFrom(t, at) ==
    IF t = Unlimited
      THEN [accepted |-> TRUE, deadline |-> Unlimited,
            preStop |-> Unlimited, aux |-> at + AuxBound]
      ELSE [accepted |-> TRUE, deadline |-> at + t,
            preStop |-> MaxOf(at, at + t - Reserve),
            aux |-> at + MinOf(AuxBound, t)]

TimelineAccepted ==
    IF timeline.accepted THEN timeline ELSE TimelineFrom(timeout, now)

Passed(d) == d # Unlimited /\ now >= d
DeadlinePassed == Passed(timeline.deadline)
AuxBoundPassed == now >= timeline.aux

ForceRequested == request = "repeated"

\* The owners that may be present when each path begins.  A startup hook is
\* one when its cancellation could not signal it and handed it over: a
\* pre-start hook without a child, a post-start hook beside a ComfyUI that
\* runs or has ended meanwhile.
Present == {"absent", "running"}
InitialOwners(p) ==
    {f \in [Owners -> {"absent", "running", "ended"}] :
        /\ f["downloads"] \in Present
        /\ f["ssh"] \in Present
        /\ f["startHook"] \in IF p \in {"external", "startup", "late"}
                                 THEN Present ELSE {"absent"}
        /\ f["hook"] = "absent"
        /\ f["child"] \in CASE p = "external" -> {"absent", "running"}
                            [] p = "startup" -> {"absent", "running", "ended"}
                            [] p \in {"restart", "failure"} -> {"running"}
                            [] OTHER -> {"ended"}}

Init ==
    /\ now = 0
    /\ polled = FALSE
    /\ pc = "begin"
    /\ path \in Paths
    /\ timeout \in ShutdownTimeouts
    /\ request \in CASE path \in {"external", "late"} -> {"once"}
                     [] path = "startup" -> {"none", "once"}
                     [] OTHER -> {"none"}
    /\ timeline = IF request = "none" THEN NoTimeline
                                      ELSE TimelineFrom(timeout, 0)
    /\ owner \in InitialOwners(path)
    /\ sync \in IF owner["downloads"] = "running"
                     /\ owner["child"] = "absent"
                  THEN BOOLEAN ELSE {FALSE}
    /\ hooksRun = 0
    /\ hookFailed = FALSE
    /\ auxReached = FALSE
    /\ limit = 0

\* What every step of the main thread but a sleep has in common.
Step(l) == pc' = l /\ polled' = FALSE /\ UNCHANGED <<now, path, timeout,
                                                     request, sync>>
Sleep == polled' = TRUE /\ UNCHANGED <<now, pc, path, timeout, timeline,
                                       request, owner, sync, hooksRun,
                                       hookFailed, auxReached, limit>>

-----------------------------------------------------------------------------
(* Signal, restart and failure: _finish_signal_shutdown.                   *)

BeginParallel ==
    /\ pc = "begin"
    /\ path \in ParallelPaths
    /\ timeline' = TimelineAccepted
    /\ owner' = Asked(Auxiliaries)
    /\ Step(IF ForceRequested THEN "force"
            ELSE IF owner["child"] = "absent" THEN "aux_wait" ELSE "hooks")
    /\ UNCHANGED <<hooksRun, hookFailed, auxReached, limit>>

\* The decision to run stop hooks at all.
StartHooks ==
    /\ pc = "hooks"
    /\ \/ /\ ForceRequested \/ StopHooks = 0
          /\ Step("cleanup")
          /\ UNCHANGED hookFailed
       \/ /\ ~ForceRequested
          /\ StopHooks > 0
          /\ Passed(timeline.preStop)
          /\ hookFailed' = TRUE
          /\ Step("cleanup")
       \/ /\ ~ForceRequested
          /\ StopHooks > 0
          /\ ~Passed(timeline.preStop)
          /\ Step("next_hook")
          /\ UNCHANGED hookFailed
    /\ UNCHANGED <<timeline, owner, hooksRun, auxReached, limit>>

HooksLeft == hooksRun < StopHooks

\* The loop of run_runtime_stop_hooks.  A deadline that passed while an
\* earlier hook was running ends the loop without an error.
NextHook ==
    /\ pc = "next_hook"
    /\ \/ /\ ~HooksLeft \/ Passed(timeline.preStop)
          /\ Step("cleanup")
          /\ UNCHANGED <<owner, hookFailed>>
       \/ /\ HooksLeft
          /\ ~Passed(timeline.preStop)
          /\ \/ /\ hookFailed' = TRUE       \* cancelled, or not started
                /\ Step("cleanup")
                /\ UNCHANGED owner
             \/ /\ ~ForceRequested
                /\ owner' = [owner EXCEPT !["hook"] = "running"]
                /\ Step("hook_wait")
                /\ UNCHANGED hookFailed
    /\ UNCHANGED <<timeline, hooksRun, auxReached, limit>>

\* A poll of _wait_for_stop_hook_process: the repeated signal first, then the
\* hook's exit, then the deadline.
HookCancelled ==
    /\ pc = "hook_wait"
    /\ ForceRequested
    /\ owner' = Forced({"hook"})
    /\ Step("hook_kill")
    /\ UNCHANGED <<timeline, hooksRun, hookFailed, auxReached, limit>>

HookExited ==
    /\ pc = "hook_wait"
    /\ ~ForceRequested
    /\ ~Live("hook")
    /\ owner' = [owner EXCEPT !["hook"] = "absent"]
    /\ \/ /\ hooksRun' = hooksRun + 1
          /\ Step("next_hook")
          /\ UNCHANGED hookFailed
       \/ /\ hookFailed' = TRUE
          /\ Step("cleanup")
          /\ UNCHANGED hooksRun
    /\ UNCHANGED <<timeline, auxReached, limit>>

OverrunHookKilled == Forced({"hook"})

\* A hook killed at the deadline is not waited for: it stays an owner.
HookOverran ==
    /\ pc = "hook_wait"
    /\ ~ForceRequested
    /\ Live("hook")
    /\ Passed(timeline.preStop)
    /\ owner' = OverrunHookKilled
    /\ hookFailed' = TRUE
    /\ Step("cleanup")
    /\ UNCHANGED <<timeline, hooksRun, auxReached, limit>>

HookSleeps ==
    /\ pc = "hook_wait"
    /\ ~ForceRequested
    /\ Live("hook")
    /\ ~Passed(timeline.preStop)
    /\ Sleep

\* A cancelled hook is waited for, whatever the deadline.
HookKilled ==
    /\ pc = "hook_kill"
    /\ ~Live("hook")
    /\ owner' = [owner EXCEPT !["hook"] = "absent"]
    /\ hookFailed' = TRUE
    /\ Step("cleanup")
    /\ UNCHANGED <<timeline, hooksRun, auxReached, limit>>

\* cleanup_child: force, or the ordinary signal to ComfyUI.
SignalChild ==
    /\ pc = "cleanup"
    /\ \/ /\ ForceRequested
          /\ Step("force")
          /\ UNCHANGED owner
       \/ /\ ~ForceRequested
          /\ owner' = [o \in Owners |->
                         IF o = "child" THEN Asked({"child"})[o]
                         ELSE IF o \in Auxiliaries /\ AuxBoundPassed
                           THEN Forced(Auxiliaries)[o] ELSE owner[o]]
          /\ Step("wait")
    /\ UNCHANGED <<timeline, hooksRun, hookFailed, auxReached, limit>>

-----------------------------------------------------------------------------
(* _wait_for_managed_shutdown, one poll.                                   *)

Waiting == pc = "wait" /\ ~ForceRequested

WaitInterrupted ==
    /\ pc \in {"wait", "aux_wait"}
    /\ ForceRequested
    /\ Step("force")
    /\ UNCHANGED <<timeline, owner, hooksRun, hookFailed, auxReached, limit>>

WaitDone ==
    /\ Waiting
    /\ AllEnded
    /\ Step("done")
    /\ UNCHANGED <<timeline, owner, hooksRun, hookFailed, auxReached, limit>>

\* What the auxiliary bound covers: everything but ComfyUI.
BoundedOwners == Auxiliaries \cup Hooks

ForcedWithoutChild == Forced(BoundedOwners)                         \* mutant
ForcedAtDeadline == Forced(Owners)

\* The total deadline: everything that is left is forced.
WaitDeadline ==
    /\ Waiting
    /\ ~AllEnded
    /\ DeadlinePassed
    /\ owner' = ForcedAtDeadline
    /\ Step("force_wait")
    /\ UNCHANGED <<timeline, hooksRun, hookFailed, auxReached, limit>>

\* The auxiliary bound, once.  Without a total deadline, an ended ComfyUI
\* leaves nothing to wait for but what has just been forced.
WaitAuxBound ==
    /\ Waiting
    /\ ~AllEnded
    /\ ~DeadlinePassed
    /\ ~auxReached
    /\ AuxBoundPassed
    /\ owner' = Forced(BoundedOwners)
    /\ auxReached' = TRUE
    /\ Step(IF timeline.deadline = Unlimited /\ ~Live("child")
              THEN "force_wait" ELSE "wait")
    /\ UNCHANGED <<timeline, hooksRun, hookFailed, limit>>

WaitSleeps ==
    /\ Waiting
    /\ ~AllEnded
    /\ ~DeadlinePassed
    /\ auxReached \/ ~AuxBoundPassed
    /\ Sleep

-----------------------------------------------------------------------------
(* _wait_for_auxiliary_shutdown, without a child.                          *)

AuxDone ==
    /\ pc = "aux_wait"
    /\ ~ForceRequested
    /\ AllEnded
    /\ Step("done")
    /\ UNCHANGED <<timeline, owner, hooksRun, hookFailed, auxReached, limit>>

AuxBounded ==
    /\ pc = "aux_wait"
    /\ ~ForceRequested
    /\ ~AllEnded
    /\ AuxBoundPassed \/ DeadlinePassed
    /\ owner' = Forced(Owners)
    /\ Step("force_wait")
    /\ UNCHANGED <<timeline, hooksRun, hookFailed, auxReached, limit>>

AuxSleeps ==
    /\ pc = "aux_wait"
    /\ ~ForceRequested
    /\ ~AllEnded
    /\ ~AuxBoundPassed
    /\ ~DeadlinePassed
    /\ Sleep

-----------------------------------------------------------------------------
(* _force_managed_shutdown.                                                *)

ForceAll ==
    /\ pc = "force"
    /\ owner' = Forced(Owners)
    /\ Step("force_wait")
    /\ UNCHANGED <<timeline, hooksRun, hookFailed, auxReached, limit>>

\* Fail closed: it never returns with an owner alive.
ReturnWithAuxiliariesAlive == ~Live("child")                       \* mutant
Quiescent == AllEnded

ForceDone ==
    /\ pc = "force_wait"
    /\ Quiescent
    /\ Step("done")
    /\ UNCHANGED <<timeline, owner, hooksRun, hookFailed, auxReached, limit>>

ForceSleeps ==
    /\ pc = "force_wait"
    /\ ~Quiescent
    /\ Sleep

-----------------------------------------------------------------------------
(* One owner after the other: cleanup_startup_failure, and the cleanup of  *)
(* an ended ComfyUI, which is the first two stages with fixed bounds.      *)

Stages == {"stop_downloads", "stop_ssh", "auxiliaries", "stop_child",
           "stop_hook"}

\* downloads.stop knows the asynchronous queue alone.
StageOwners(s) ==
    CASE s = "stop_downloads" -> IF sync THEN {} ELSE {"downloads"}
      [] s = "stop_ssh" -> {"ssh"}
      [] s = "auxiliaries" -> Auxiliaries
      [] s = "stop_child" -> {"child"}
      [] s = "stop_hook" -> {"startHook"}

StageAfter(s) ==
    CASE s = "stop_downloads" -> "stop_ssh"
      [] s = "stop_ssh" -> IF path = "startup" THEN "auxiliaries" ELSE "done"
      [] s = "auxiliaries" -> "stop_child"
      [] s = "stop_child" -> "stop_hook"
      [] s = "stop_hook" -> "done"

\* component_timeout, counted from now.
ComponentTimeout ==
    IF path # "startup" THEN StopBound
    ELSE IF timeline.deadline = Unlimited THEN AuxBound
    ELSE MinOf(AuxBound, MaxOf(0, timeline.deadline - now))

StageLimit(s) ==
    CASE s = "stop_child" -> now + MinOf(ComponentTimeout, ChildGrace)
      [] s = "stop_hook" -> IF timeline.deadline = Unlimited
                              THEN now + AuxBound ELSE timeline.deadline
      [] OTHER -> now + ComponentTimeout

\* Each stage but the wait for both auxiliaries begins with a request.
Enter(s) ==
    /\ Step(s)
    /\ limit' = IF s = "done" THEN limit ELSE StageLimit(s)
    /\ owner' = IF s \in {"done", "auxiliaries"} THEN owner
                                                 ELSE Asked(StageOwners(s))
    /\ UNCHANGED <<timeline, hooksRun, hookFailed, auxReached>>

BeginSerial ==
    /\ pc = "begin"
    /\ path \in SerialPaths
    /\ timeline' = IF path = "startup" THEN TimelineAccepted ELSE timeline
    /\ Step("accepted")
    /\ UNCHANGED <<owner, hooksRun, hookFailed, auxReached, limit>>

EnterFirstStage == pc = "accepted" /\ Enter("stop_downloads")

StageDone == \A o \in StageOwners(pc) : ~Live(o)

LeaveStage == pc \in Stages /\ StageDone /\ Enter(StageAfter(pc))

\* terminate_direct_process_until raises: ssh.stop reports and returns.
SshStopFails ==
    pc = "stop_ssh" /\ Live("ssh") /\ Enter(StageAfter("stop_ssh"))

StageOverWithoutLimit ==                                           \* mutant
    \/ (path = "startup" /\ ForceRequested)
    \/ (pc = "auxiliaries" /\ DeadlinePassed)

\* Only the cleanup of a failed startup listens to a repeated signal.
StageOver ==
    \/ now >= limit
    \/ (path = "startup" /\ ForceRequested)
    \/ (pc = "auxiliaries" /\ DeadlinePassed)

StageForced == \A o \in StageOwners(pc) : Live(o) => owner[o] = "forced"

ForceStage ==
    /\ pc \in Stages
    /\ ~StageDone
    /\ StageOver
    /\ ~StageForced
    /\ owner' = Forced(StageOwners(pc))
    /\ Step(pc)
    /\ UNCHANGED <<timeline, hooksRun, hookFailed, auxReached, limit>>

StageSleeps ==
    /\ pc \in Stages
    /\ ~StageDone
    /\ ~StageOver \/ StageForced
    /\ Sleep

MainThread ==
    \/ BeginParallel \/ StartHooks \/ NextHook
    \/ HookCancelled \/ HookExited \/ HookOverran \/ HookSleeps \/ HookKilled
    \/ SignalChild
    \/ WaitInterrupted \/ WaitDone \/ WaitDeadline \/ WaitAuxBound
    \/ WaitSleeps
    \/ AuxDone \/ AuxBounded \/ AuxSleeps
    \/ ForceAll \/ ForceDone \/ ForceSleeps
    \/ BeginSerial \/ EnterFirstStage \/ LeaveStage \/ SshStopFails
    \/ ForceStage \/ StageSleeps

-----------------------------------------------------------------------------
(* The rest of the world.                                                  *)

OwnerEnds(o) ==
    /\ Live(o)
    /\ owner' = [owner EXCEPT ![o] = "ended"]
    /\ UNCHANGED <<now, polled, pc, path, timeout, timeline, request, sync,
                   hooksRun, hookFailed, auxReached, limit>>

\* A natural exit no longer records signals.  The handler interrupts the
\* sleep at the latest at the next poll.
SignalArrives ==
    /\ pc # "done"
    /\ path # "natural"
    /\ request # "repeated"
    /\ request' = IF request = "none" THEN "once" ELSE "repeated"
    /\ timeline' = IF request = "none" THEN TimelineAccepted ELSE timeline
    /\ polled' = FALSE
    /\ UNCHANGED <<now, pc, path, timeout, owner, sync, hooksRun, hookFailed,
                   auxReached, limit>>

\* A stage still has its bound to reach: its time passes after Horizon too.
BoundAhead == pc \in Stages /\ ~StageForced /\ now < limit

\* Time passes while the main thread sleeps, and, before a recorded signal is
\* acted on, while a startup phase notices it.
Tick ==
    /\ now < Horizon \/ BoundAhead
    /\ polled \/ (pc = "begin" /\ path = "external")
    /\ now' = now + 1
    /\ polled' = FALSE
    /\ UNCHANGED <<pc, path, timeout, timeline, request, owner, sync,
                   hooksRun, hookFailed, auxReached, limit>>

Done == pc = "done" /\ UNCHANGED vars

Next == MainThread \/ (\E o \in Owners : OwnerEnds(o)) \/ SignalArrives
          \/ Tick \/ Done

Spec == Init /\ [][Next]_vars

\* The main thread runs and time passes.  What has been forced ends; what has
\* only been asked need not.
Fairness ==
    /\ WF_vars(MainThread)
    /\ WF_vars(Tick)
    /\ \A o \in Owners : WF_vars(owner[o] = "forced" /\ OwnerEnds(o))

FairSpec == Spec /\ Fairness

-----------------------------------------------------------------------------
(* Properties.                                                             *)

Instants == Nat \cup {Unlimited}
Timelines == [accepted : BOOLEAN, deadline : Instants, preStop : Instants,
              aux : Nat]

Points == {"begin", "hooks", "next_hook", "hook_wait", "hook_kill", "cleanup",
           "wait", "aux_wait", "force", "force_wait", "accepted", "done"}
          \cup Stages

\* The types of the variables.
TypeOK ==
    /\ now \in Nat
    /\ polled \in BOOLEAN
    /\ pc \in Points
    /\ path \in Paths
    /\ timeout \in ShutdownTimeouts
    /\ timeline \in Timelines
    /\ request \in {"none", "once", "repeated"}
    /\ owner \in [Owners -> OwnerStates]
    /\ sync \in BOOLEAN
    /\ hooksRun \in 0..StopHooks
    /\ hookFailed \in BOOLEAN
    /\ auxReached \in BOOLEAN
    /\ limit \in Instants

\* The lifecycle returns only when everything it owned has ended.  Two
\* exceptions, both after ComfyUI has ended: an sshd that cannot be signalled
\* or reaped does not keep the cleanup waiting, and a late signal's cleanup
\* neither ends nor awaits a startup hook that was handed over alive.
QuiescentReturn ==
    pc = "done" =>
        \A o \in Owners :
            Live(o) => \/ o = "ssh" /\ path \in {"natural", "late"}
                       \/ o = "startHook" /\ path = "late"

\* ComfyUI stays untouched while stop hooks run: it is signalled only after
\* the last hook, after a hook failed, after the hooks' share of the budget is
\* spent, or at a repeated signal, and never while a stop hook is running that
\* has not itself been killed.
HooksBeforeSignal ==
    [][owner'["child"] # owner["child"]
         /\ owner'["child"] \in {"asked", "forced"}
         /\ path \in ParallelPaths =>
          /\ \/ hooksRun = StopHooks
             \/ hookFailed
             \/ Passed(timeline.preStop)
             \/ ForceRequested
          /\ owner["hook"] \notin {"running", "asked"}]_vars

\* Nobody is killed early: force takes a repeated signal, the spent budget,
\* the bound of the owner at hand or, for anything but ComfyUI, the auxiliary
\* bound or the end of the hooks' share.
ForceIsJustified ==
    [][\A o \in Owners : owner'[o] = "forced" /\ owner[o] # "forced" =>
          \/ ForceRequested
          \/ DeadlinePassed
          \/ (path \in SerialPaths /\ now >= limit)
          \/ (o # "child" /\ AuxBoundPassed)
          \/ (o = "hook" /\ Passed(timeline.preStop))]_vars

\* The budget is kept: when the main thread sleeps although the total deadline
\* has passed or the signal was repeated, there is nothing left to escalate.
BudgetKept ==
    path \in ParallelPaths /\ polled /\ (DeadlinePassed \/ ForceRequested) =>
        \A o \in Owners : Live(o) => owner[o] = "forced"

\* The narrower auxiliary bound is kept too, except that the stop hooks are
\* not interrupted to enforce it.
AuxiliaryBoundKept ==
    path \in ParallelPaths /\ polled /\ AuxBoundPassed /\ pc # "hook_wait" =>
        \A o \in Owners \ {"child"} : Live(o) => owner[o] = "forced"

\* One timeline: what has been accepted is neither extended nor restarted,
\* whatever arrives later.
TimelineKept ==
    [][timeline.accepted => timeline' = timeline]_vars

\* Cleanup ends: always when ComfyUI was not being waited for, and otherwise
\* when there is a budget or the signal is repeated.
CleanupEnds ==
    path \in SerialPaths \/ timeout # Unlimited \/ ForceRequested
        ~> pc = "done"

\* Claims of the documentation that the code does not keep (see README).

\* contracts.md: components "must not mint fresh deadlines that extend" the
\* timeline, also when the signal finds ComfyUI ended.
LateSignalKeepsDeadline ==
    path = "late" /\ polled /\ DeadlinePassed =>
        \A o \in Owners : Live(o) => owner[o] = "forced"

\* contracts.md: a hook's leader and group are owned "through cancellation or
\* deadline escalation, terminal result, and leader reap".
LateSignalEndsHook ==
    path = "late" /\ pc = "done" => ~Live("startHook")

\* contracts.md: the old generation "runs ordered stop hooks" before a
\* successor can be admitted.
SuccessorAfterAllHooks ==
    pc = "done" /\ path = "restart" /\ request = "none" /\ ~hookFailed =>
        hooksRun = StopHooks

=============================================================================
