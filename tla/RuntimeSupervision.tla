------------------------- MODULE RuntimeSupervision -------------------------
(***************************************************************************)
(* The main thread of one runtime generation as the owner of processes:    *)
(* startup hooks in their own process groups (src/comfyui_docker_helper/   *)
(* container/runtime/hooks.py), the ssh service it starts, watches and     *)
(* stops (RuntimeSsh), and the delivery of what is reported meanwhile      *)
(* (EventDelivery), in the order of container/runtime/lifecycle.py.        *)
(* Download queues and the ComfyUI child are in RuntimeDownloads and       *)
(* GenerationShutdown.                                                     *)
(***************************************************************************)
EXTENDS RuntimeSsh

CONSTANTS Scenarios,        \* ssh settings, hooks per startup phase, quiet
                            \* output, and bound: the other producers' offers
          MaxSignalFaults   \* bound: group signals the kernel refuses

ASSUME ScenariosAreCounts ==
  \A s \in Scenarios : {s.hooks.pre, s.hooks.post, s.offers} \subseteq Nat

(* What this generation warns of has a category of its own. *)
ASSUME CategoriesAreNamed == {"ssh", "download"} \subseteq Categories

(* The short commands of the ssh preparation, sshd, and the running hook. *)
ASSUME ProcsAreChildren == Procs = Commands \cup {"sshd", "hook"}

VARIABLES main,    \* place, process seen in the slot, force sent, branch
          hooks,   \* hooks left in the current and in the later phase
          active,  \* active_hook_process: a hook handed over after a fault
          cancel,  \* a shutdown signal, or the controller has failed
          force,   \* the signal was repeated
          late,    \* the deadline that bounds the current wait has passed
          faults,  \* bound: signals refused so far
          room     \* bound: offers left to the other producers

mainVars == <<main, hooks, active>>
envVars == <<cancel, force, late, faults, room>>
vars == <<mainVars, envVars, sshVars, deliveryVars>>

Init ==
  /\ main = [at |-> "hook", phase |-> "pre", seen |-> "none",
             forced |-> FALSE, way |-> "none"]
  /\ active = FALSE
  /\ cancel = FALSE /\ force = FALSE /\ late = FALSE /\ faults = 0
  /\ SshInit
  /\ DeliveryInit
  /\ \E s \in Scenarios :
       /\ ssh = s.ssh /\ hooks = s.hooks
       /\ room = s.offers /\ bg.information = ~s.quiet

At(at) == main.at = at
Go(at) == main' = [main EXCEPT !.at = at]
onlySsh == <<ssh, starter, slot, shutdown, handle, reaped, monitor, config>>
StillSsh == UNCHANGED <<onlySsh, proc>>
StillHooks == UNCHANGED <<hooks, active>>
StillElse == UNCHANGED <<envVars, deliveryVars>>

(* A generation leaves its startup or its run: it stops its services side  *)
(* by side after a signal, one after the other after a failure, and it     *)
(* only calls stop once ComfyUI has ended: by itself ("exit"), or found so *)
(* by a signal that would have ended it ("gone"), which from the start of  *)
(* ComfyUI on is any signal.                                               *)
Leave(way) == main' = [main EXCEPT !.way = way, !.forced = FALSE,
                 !.at = IF way = "parallel" THEN "flag" ELSE "stop"]
LeaveCancelled ==
  \/ Leave("parallel")
  \/ Leave("serial")
  \/ (main.phase = "post" \/ At("started")) /\ Leave("gone")

-----------------------------------------------------------------------------
(* Startup hooks.                                                          *)

HooksDone == Go(IF main.phase = "pre" THEN "ssh" ELSE "up")

(* Cancellation is looked at before each hook; a hook that cannot be *)
(* started fails the startup.                                        *)
RunHook ==
  /\ At("hook")
  /\ IF hooks[main.phase] = 0 THEN HooksDone /\ UNCHANGED <<hooks, proc>>
     ELSE IF cancel THEN LeaveCancelled /\ UNCHANGED <<hooks, proc>>
     ELSE \/ /\ proc' = Spawned("hook")
             /\ hooks' = [hooks EXCEPT ![main.phase] = @ - 1]
             /\ Go("hookwait")
          \/ Leave("serial") /\ UNCHANGED <<hooks, proc>>
  /\ UNCHANGED <<onlySsh, active>> /\ StillElse

(* _wait_for_startup_hook_process: cancellation wins over the result. *)
HookResult ==
  /\ At("hookwait") /\ ~cancel /\ Terminal("hook", FALSE)
  /\ proc' = Forgotten("hook")
  /\ IF proc["hook"].bad THEN Leave("serial") ELSE Go("hook")
  /\ UNCHANGED onlySsh /\ StillHooks /\ StillElse

(* A group signal: ESRCH is no error, any other refusal hands the hook    *)
(* over to the cleanup.                                                   *)
GroupSignal(sig) ==
  \/ /\ proc' = [proc EXCEPT !["hook"].asked =
                   IF Live("hook") /\ @ # "kill" THEN sig ELSE @]
     /\ main' = [main EXCEPT !.at = "hookstop", !.forced = (sig = "kill")]
     /\ UNCHANGED <<active, faults>>
  \/ /\ faults < MaxSignalFaults /\ Live("hook")
     /\ faults' = faults + 1
     /\ active' = TRUE
     /\ LeaveCancelled
     /\ UNCHANGED proc

CancelHook ==
  /\ At("hookwait") /\ cancel
  /\ GroupSignal(IF force THEN "kill" ELSE "term")
  /\ UNCHANGED <<onlySsh, hooks, cancel, force, late, room,
                 deliveryVars>>

(* terminate_process_group_until: no return before the leader is reaped. *)
HookEscalates ==
  /\ At("hookstop") /\ ~Terminal("hook", FALSE)
  /\ ~main.forced /\ (force \/ late)
  /\ GroupSignal("kill")
  /\ UNCHANGED <<onlySsh, hooks, cancel, force, late, room,
                 deliveryVars>>

HookEnded ==
  /\ At("hookstop") /\ Terminal("hook", FALSE)
  /\ proc' = Forgotten("hook")
  /\ LeaveCancelled
  /\ UNCHANGED onlySsh /\ StillHooks /\ StillElse

HookStep == \/ RunHook \/ HookResult \/ CancelHook
            \/ HookEscalates \/ HookEnded

-----------------------------------------------------------------------------
(* RuntimeSshService.start: poll the startup thread, and while the startup *)
(* is cancelled request the stop again on every round.                     *)

StartSsh ==
  /\ At("ssh")
  /\ IF ssh.enable
     THEN GoStarter("next") /\ Go("poll")
     ELSE Go("started") /\ UNCHANGED starter
  /\ UNCHANGED <<ssh, slot, shutdown, handle, reaped, monitor, config, proc>>
  /\ StillHooks /\ StillElse

(* request_stop and request_force_stop begin with the flag ... *)
PollCancelled ==
  /\ At("poll") /\ cancel /\ starter.at # "dead"
  /\ shutdown' = TRUE
  /\ main' = [main EXCEPT !.at = "look", !.forced = FALSE]
  /\ UNCHANGED <<ssh, starter, slot, handle, reaped, monitor, config, proc>>
  /\ StillHooks /\ StillElse

(* ... then read the published process under the lock ... *)
LookAtSlot ==
  /\ At("look")
  /\ main' = [main EXCEPT !.at = "signal", !.seen = slot]
  /\ StillSsh /\ StillHooks /\ StillElse

(* ... and signal it after the lock: SIGTERM first, and SIGKILL in the *)
(* same round once force is requested or the deadline has passed.      *)
SignalSlot ==
  /\ At("signal")
  /\ SignalSeen(main.seen, IF main.forced THEN "kill" ELSE "term")
  /\ main' = IF ~main.forced /\ (force \/ late)
             THEN [main EXCEPT !.at = "look", !.seen = "none", !.forced = TRUE]
             ELSE [main EXCEPT !.at = "poll", !.seen = "none"]
  /\ UNCHANGED <<ssh, starter, slot, shutdown, handle, reaped, monitor>>
  /\ StillHooks /\ StillElse

JoinedUnowned ==                                                    \* mutant
  /\ At("poll") /\ starter.at = "dead"
  /\ IF cancel THEN UNCHANGED <<handle, shutdown>> /\ LeaveCancelled
     ELSE /\ handle' = (starter.result = "handle")
          /\ IF starter.result = "error" THEN Leave("serial") ELSE Go("started")
          /\ UNCHANGED shutdown
  /\ UNCHANGED <<ssh, starter, slot, reaped, monitor, config, proc>>
  /\ StillHooks /\ StillElse

(* The thread has ended.  A handle that was won although the startup is   *)
(* cancelled is owned, forced and reaped before start returns.            *)
Joined ==
  /\ At("poll") /\ starter.at = "dead"
  /\ IF cancel
     THEN IF starter.result = "handle"
          THEN /\ handle' = TRUE /\ shutdown' = TRUE
               /\ Go("abandon")
          ELSE UNCHANGED <<handle, shutdown>> /\ LeaveCancelled
     ELSE /\ handle' = (starter.result = "handle")
          /\ IF starter.result = "error" THEN Leave("serial") ELSE Go("started")
          /\ UNCHANGED shutdown
  /\ UNCHANGED <<ssh, starter, slot, reaped, monitor, config, proc>>
  /\ StillHooks /\ StillElse

Abandon ==
  /\ At("abandon")
  /\ SignalHandle("kill")
  /\ Go("abandoned")
  /\ UNCHANGED <<ssh, starter, slot, shutdown, handle, reaped, monitor>>
  /\ StillHooks /\ StillElse

Abandoned ==
  /\ At("abandoned") /\ IsStopped
  /\ ReapOnLook
  /\ LeaveCancelled
  /\ UNCHANGED <<ssh, starter, slot, shutdown, handle, monitor>>
  /\ StillHooks /\ StillElse

(* ensure_running_before_comfyui, the ComfyUI child, the monitor. *)
StartComfyui ==
  /\ At("started")
  /\ IF cancel THEN LeaveCancelled /\ UNCHANGED <<proc, config, monitor>>
     ELSE IF handle /\ SshdPolled
     THEN Leave("serial") /\ proc' = Reaped("sshd") /\ config' = FALSE
          /\ UNCHANGED monitor
     ELSE /\ UNCHANGED <<proc, config>>
          /\ \/ Leave("serial") /\ UNCHANGED monitor
             \/ /\ main' = [main EXCEPT !.at = "hook", !.phase = "post"]
                /\ monitor' = IF handle THEN [monitor EXCEPT !.at = "wait"]
                              ELSE monitor
  /\ UNCHANGED <<ssh, starter, slot, shutdown, handle, reaped>>
  /\ StillHooks /\ StillElse

(* The run ends with a signal or a controller failure, or ComfyUI ends: a *)
(* round of the wait looks at the child before it looks at either.        *)
EndRun ==
  /\ At("up")
  /\ \/ cancel /\ LeaveCancelled
     \/ Leave("exit")
  /\ StillSsh /\ StillHooks /\ StillElse

StartStep == \/ StartSsh \/ PollCancelled \/ LookAtSlot \/ SignalSlot \/ Joined
             \/ Abandon \/ Abandoned \/ StartComfyui

-----------------------------------------------------------------------------
(* Stopping.                                                               *)

(* request_stop of a generation that stops everything side by side. *)
RequestStop ==
  /\ At("flag")
  /\ shutdown' = TRUE
  /\ Go("request")
  /\ UNCHANGED <<ssh, starter, slot, handle, reaped, monitor, config, proc>>
  /\ StillHooks /\ StillElse

RequestSignals ==
  /\ At("request")
  /\ SignalHandle("term")
  /\ Go("aux")
  /\ UNCHANGED <<ssh, starter, slot, shutdown, handle, reaped, monitor>>
  /\ StillHooks /\ StillElse

OnlyStops == main.way \in {"exit", "gone"}
AfterStop == IF OnlyStops THEN "close" ELSE "aux"

StopUnflagged ==                                                    \* mutant
  /\ At("stop")
  /\ IF ~handle THEN Go(AfterStop) /\ UNCHANGED <<proc, config, reaped, shutdown>>
     ELSE IF SshdPolled
     THEN /\ Go(AfterStop)
          /\ proc' = Reaped("sshd") /\ config' = FALSE /\ reaped' = TRUE
          /\ UNCHANGED shutdown
     ELSE Go("terminate") /\ UNCHANGED <<proc, config, reaped, shutdown>>
  /\ UNCHANGED <<ssh, starter, slot, handle, monitor>>
  /\ StillHooks /\ StillElse

(* stop: an sshd that has ended already is reaped and the flag stays; *)
(* a live one is told to end after the flag is set.                   *)
Stop ==
  /\ At("stop")
  /\ IF ~handle THEN Go(AfterStop) /\ UNCHANGED <<proc, config, reaped, shutdown>>
     ELSE IF SshdPolled
     THEN /\ Go(AfterStop)
          /\ proc' = Reaped("sshd") /\ config' = FALSE /\ reaped' = TRUE
          /\ UNCHANGED shutdown
     ELSE /\ shutdown' = TRUE /\ Go("terminate")
          /\ UNCHANGED <<proc, config, reaped>>
  /\ UNCHANGED <<ssh, starter, slot, handle, monitor>>
  /\ StillHooks /\ StillElse

(* The cleanup of a ComfyUI found ended does not ask for force. *)
ForceNow == main.way # "gone" /\ force

(* terminate_direct_process_until. *)
Terminate ==
  /\ At("terminate")
  /\ SignalHandle(IF ForceNow THEN "kill" ELSE "term")
  /\ main' = [main EXCEPT !.at = "ending", !.forced = ForceNow]
  /\ UNCHANGED <<ssh, starter, slot, shutdown, handle, reaped, monitor>>
  /\ StillHooks /\ StillElse

NeverEscalate ==                                                    \* mutant
  /\ FALSE
  /\ UNCHANGED vars

Escalate ==
  /\ At("ending") /\ ~SshdPolled /\ ~main.forced /\ (ForceNow \/ late)
  /\ SignalHandle("kill")
  /\ main' = [main EXCEPT !.forced = TRUE]
  /\ UNCHANGED <<ssh, starter, slot, shutdown, handle, reaped, monitor>>
  /\ StillHooks /\ StillElse

(* sshd was reaped; a forced one is not yet marked as such. *)
Terminated ==
  /\ At("ending") /\ SshdPolled
  /\ proc' = Reaped("sshd") /\ config' = FALSE
  /\ reaped' = (reaped \/ ~main.forced)
  /\ Go(AfterStop)
  /\ UNCHANGED <<ssh, starter, slot, shutdown, handle, monitor>>
  /\ StillHooks /\ StillElse

(* The wait for the auxiliary services: until they are stopped, with force *)
(* once it is requested or their deadline has passed.                      *)
AuxForces ==
  /\ At("aux") /\ ~IsStopped /\ (force \/ late) /\ ~main.forced
  /\ shutdown' = TRUE
  /\ SignalHandle("kill")
  /\ main' = [main EXCEPT !.forced = TRUE]
  /\ UNCHANGED <<ssh, starter, slot, handle, reaped, monitor>>
  /\ StillHooks /\ StillElse

AuxStopped ==
  /\ At("aux") /\ IsStopped
  /\ ReapOnLook
  /\ Go(IF active THEN "hookleft" ELSE "close")
  /\ UNCHANGED <<ssh, starter, slot, shutdown, handle, monitor>>
  /\ StillHooks /\ StillElse

(* A hook that was handed over is ended after the services. *)
EndActiveHook ==
  /\ At("hookleft")
  /\ proc' = [proc EXCEPT !["hook"].asked =
                IF Live("hook") THEN (IF force \/ late THEN "kill" ELSE "term")
                ELSE @]
  /\ main' = [main EXCEPT !.at = "hookend", !.forced = (force \/ late)]
  /\ UNCHANGED onlySsh /\ StillHooks /\ StillElse

ForceActiveHook ==
  /\ At("hookend") /\ ~Terminal("hook", FALSE) /\ ~main.forced /\ (force \/ late)
  /\ proc' = [proc EXCEPT !["hook"].asked = "kill"]
  /\ main' = [main EXCEPT !.forced = TRUE]
  /\ UNCHANGED onlySsh /\ StillHooks /\ StillElse

ActiveHookEnded ==
  /\ At("hookend") /\ Terminal("hook", FALSE)
  /\ proc' = Forgotten("hook")
  /\ Go("close")
  /\ UNCHANGED onlySsh /\ StillHooks /\ StillElse

(* The delivery is closed after the generation, by the service owner. *)
CloseDelivery ==
  /\ At("close")
  /\ CloseQueues
  /\ Go("closing")
  /\ StillSsh /\ StillHooks /\ UNCHANGED envVars

TellWorker ==
  /\ At("closing")
  /\ CloseWorker
  /\ Go("closed")
  /\ StillSsh /\ StillHooks /\ UNCHANGED envVars

Closed ==
  /\ At("closed")
  /\ dworker.at = "exit" \/ cut
  /\ Go("done")
  /\ StillSsh /\ StillHooks /\ StillElse

StopStep == \/ RequestStop \/ RequestSignals \/ Stop \/ Terminate \/ Escalate
            \/ Terminated \/ AuxForces \/ AuxStopped \/ EndActiveHook
            \/ ForceActiveHook \/ ActiveHookEnded \/ CloseDelivery
            \/ TellWorker \/ Closed

MainStep == HookStep \/ StartStep \/ StopStep

-----------------------------------------------------------------------------
(* The environment.                                                        *)
Cancelled ==
  /\ ~cancel /\ cancel' = TRUE
  /\ UNCHANGED <<force, late, faults, room, mainVars, deliveryVars>> /\ StillSsh

(* A natural exit freezes the admission of signals. *)
Repeated ==
  /\ cancel /\ main.way # "exit" /\ ~force /\ force' = TRUE
  /\ UNCHANGED <<cancel, late, faults, room, mainVars, deliveryVars>> /\ StillSsh

DeadlinePasses ==
  /\ cancel \/ main.way # "none"
  /\ ~late /\ late' = TRUE
  /\ UNCHANGED <<cancel, force, faults, room, mainVars, deliveryVars>> /\ StillSsh

Background(A) == A /\ UNCHANGED <<mainVars, envVars>>

ProcEnds(p) == /\ ChildEnds(p)
               /\ UNCHANGED <<onlySsh, mainVars, envVars, deliveryVars>>
ProcKilled(p) == proc[p].asked = "kill" /\ ProcEnds(p)

Starter == Background(StarterStep) /\ UNCHANGED deliveryVars
Monitor == Background(MonitorStep)
Worker == Background(WorkerStep) /\ StillSsh
Producers ==
  /\ UNCHANGED <<mainVars, cancel, force, late, faults>> /\ StillSsh
  /\ \/ /\ room > 0 /\ room' = room - 1
        /\ Warn("download") \/ Announce \/ \E s \in Scopes : Progress(s)
     \/ UNCHANGED room /\ \E s \in Scopes : CloseProgress(s)
DeliveryDeadline == CutPasses /\ StillSsh /\ UNCHANGED <<mainVars, envVars>>

Next == \/ MainStep \/ EndRun \/ Starter \/ Monitor \/ Worker \/ Producers
        \/ Cancelled \/ Repeated \/ DeadlinePasses \/ DeliveryDeadline
        \/ \E p \in Procs : ProcEnds(p)

(* The threads run, deadlines pass, and SIGKILL works.  Nothing says that *)
(* ComfyUI ends, that a child heeds SIGTERM or that a shutdown comes.     *)
Fairness ==
  /\ WF_vars(MainStep) /\ WF_vars(Starter) /\ WF_vars(Monitor)
  /\ WF_vars(Worker) /\ WF_vars(DeadlinePasses)
  /\ WF_vars(EndRun /\ cancel)
  /\ \A p \in Procs : WF_vars(ProcKilled(p))

Spec == Init /\ [][Next]_vars /\ Fairness

-----------------------------------------------------------------------------
TypeOK ==
  /\ SshTypeOK
  /\ DeliveryTypeOK
  /\ main.seen \in {"none"} \cup Procs
  /\ main.way \in {"none", "parallel", "serial", "exit", "gone"}
  /\ {active, cancel, force, late, main.forced} \subseteq BOOLEAN

(* Between the publication of a preparation process and the stop request, *)
(* one of the two sees the other: while start sleeps with the stop        *)
(* requested, a published live process has had its signal or is about to  *)
(* get it from the thread that published it (ssh/service.py               *)
(* observe_preparation_process and request_stop).                         *)
PublishedIsSignalled ==
  At("poll") /\ shutdown /\ slot # "none" /\ proc[slot].is = "running"
    => proc[slot].asked # "none" \/ AtStarter("notify") \/ AtStarter("publish")

(* When the generation is over no startup thread, published process or    *)
(* sshd configuration is left, and no child running or unreaped but one:  *)
(* a hook that refused the signal of its group, when the cleanup then     *)
(* finds ComfyUI ended, which looks at no hook (ssh/service.py stop,      *)
(* is_stopped; ssh/config.py start_sshd_if_enabled; hooks.py              *)
(* _terminate_hook_process_group; lifecycle.py cleanup_terminal_child).   *)
StoppedIsClean ==
  main.at \in {"close", "closing", "closed", "done"} =>
    /\ \A p \in Procs : Live(p) => p = "hook" /\ active /\ main.way = "gone"
    /\ ~StarterAlive /\ slot = "none" /\ ~config

(* Only an exit nobody caused is reported as unexpected (ssh/service.py    *)
(* monitor_after_comfyui_start, stop_runtime_ssh_service).                 *)
AlarmIsGenuine == monitor.warned => proc["sshd"].asked = "none"

(* A shutdown request, or the start of a cleanup, ends the generation,    *)
(* whatever its children do with SIGTERM.                                 *)
StopEnds == (cancel \/ main.way # "none") ~> At("done")
=============================================================================
