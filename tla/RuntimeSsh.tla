----------------------------- MODULE RuntimeSsh -----------------------------
(***************************************************************************)
(* sshd inside one runtime generation: the startup thread that prepares    *)
(* credentials, host keys and configuration with short commands and then   *)
(* starts sshd (src/comfyui_docker_helper/container/runtime/ssh/           *)
(* config.py), and the service that publishes those processes, monitors    *)
(* sshd and answers stop requests (ssh/service.py).  RuntimeSupervision    *)
(* adds the main thread that drives it.                                    *)
(***************************************************************************)
EXTENDS ChildProcess, EventDelivery

VARIABLES ssh,       \* the settings
          starter,   \* the startup thread: place, step, result
          slot,      \* _startup_process: the published process
          shutdown,  \* _shutdown_requested
          handle,    \* sshd is owned by the service
          reaped,    \* _handle_reaped
          monitor,   \* the monitor thread: place, and whether it warned
          config     \* the generated sshd configuration is in place

serviceVars == <<ssh, slot, shutdown, handle, reaped, monitor>>
sshVars == <<serviceVars, starter, config, proc>>

Commands == {"chpasswd", "unlock", "keygen", "preflight"}
Steps == <<"keys", "chpasswd", "unlock", "status", "keygen", "config",
           "preflight", "sshd">>

SshInit ==
  /\ starter = [at |-> "off", step |-> 1, result |-> "none"]
  /\ slot = "none"
  /\ shutdown = FALSE
  /\ handle = FALSE
  /\ reaped = FALSE
  /\ monitor = [at |-> "none", warned |-> FALSE]
  /\ config = FALSE
  /\ ProcInit

-----------------------------------------------------------------------------
(* The startup thread.                                                     *)

Step == Steps[starter.step]
AtStarter(at) == starter.at = at
GoStarter(at) == starter' = [starter EXCEPT !.at = at]
StarterAlive == starter.at \notin {"off", "dead"}

(* Who blocks in wait for a child, holding its lock. *)
HeldByStarter(p) == AtStarter("wait") /\ Step = p
HeldByMonitor == monitor.at = "wait"
IsHeld(p) == IF p = "sshd" THEN HeldByMonitor ELSE HeldByStarter(p)

(* A poll of sshd that sees its end also removes its configuration. *)
SshdPolled == Terminal("sshd", HeldByMonitor)

Fails == starter' = [starter EXCEPT !.at = "clear", !.result = "error"]
Continues == starter' = [starter EXCEPT !.at = "next", !.step = @ + 1]

(* The steps without a child: the authorized keys, the outcome of the   *)
(* credentials, and the published configuration.                        *)
PrepareKeys ==
  /\ AtStarter("next") /\ Step = "keys"
  /\ IF ssh.keys THEN Continues \/ Fails ELSE Continues
  /\ UNCHANGED <<serviceVars, config, proc>>

JudgeCredentials ==
  /\ AtStarter("next") /\ Step = "status"
  /\ IF ssh.keys \/ ssh.password THEN Continues
     ELSE starter' = [starter EXCEPT !.at = "clear", !.result = "nothing"]
  /\ UNCHANGED <<serviceVars, config, proc>>

PublishConfig ==
  /\ AtStarter("next") /\ Step = "config"
  /\ \/ Continues /\ config' = TRUE
     \/ Fails /\ UNCHANGED config
  /\ UNCHANGED <<serviceVars, proc>>

SkipPassword ==
  /\ AtStarter("next") /\ Step \in {"chpasswd", "unlock"} /\ ~ssh.password
  /\ Continues
  /\ UNCHANGED <<serviceVars, config, proc>>

Spawn ==
  /\ AtStarter("next")
  /\ Step \in Commands \cup {"sshd"}
  /\ Step \in {"chpasswd", "unlock"} => ssh.password
  /\ \/ proc' = Spawned(Step) /\ GoStarter("publish") /\ UNCHANGED config
     \/ Fails /\ UNCHANGED proc /\ config' = FALSE
  /\ UNCHANGED serviceVars

PublishUnchecked ==                                                 \* mutant
  /\ AtStarter("publish")
  /\ slot' = Step
  /\ GoStarter(IF Step = "sshd" THEN "probe" ELSE "wait")
  /\ UNCHANGED <<ssh, shutdown, handle, reaped, monitor, config, proc>>

(* observe_preparation_process with a process: under the lock it is made  *)
(* known and the flag is read; the signal is sent after the lock.         *)
Publish ==
  /\ AtStarter("publish")
  /\ slot' = Step
  /\ GoStarter(IF shutdown THEN "notify"
               ELSE IF Step = "sshd" THEN "probe" ELSE "wait")
  /\ UNCHANGED <<ssh, shutdown, handle, reaped, monitor, config, proc>>

Notify ==
  /\ AtStarter("notify")
  /\ proc' = Asked(Step, FALSE, "term")
  /\ GoStarter(IF Step = "sshd" THEN "probe" ELSE "wait")
  /\ config' = (config /\ ~(Step = "sshd" /\ SshdPolled))
  /\ UNCHANGED serviceVars

(* wait for a command, then observe_preparation_process(None); a preflight *)
(* that fails takes the configuration with it.                             *)
CommandEnds ==
  /\ AtStarter("wait") /\ proc[Step].is \in {"ended", "reaped"}
  /\ proc' = Reaped(Step)
  /\ GoStarter("unpublish")
  /\ UNCHANGED <<serviceVars, config>>

Unpublish ==
  /\ AtStarter("unpublish")
  /\ slot' = "none"
  /\ IF proc[Step].bad THEN Fails /\ config' = FALSE
     ELSE Continues /\ UNCHANGED config
  /\ proc' = Forgotten(Step)
  /\ UNCHANGED <<ssh, shutdown, handle, reaped, monitor>>

(* _wait_for_sshd_readiness: cancellation is looked at before each probe  *)
(* and after one that answered; then the child must still be running.     *)
ProbeFails ==
  /\ AtStarter("probe") \/ AtStarter("answered")
  /\ GoStarter("cleanup")
  /\ proc' = IF SshdPolled THEN Reaped("sshd") ELSE proc
  /\ config' = (config /\ ~SshdPolled)
  /\ UNCHANGED serviceVars

ProbeAnswers ==
  /\ AtStarter("probe") /\ ~shutdown /\ ~SshdPolled
  /\ GoStarter("answered")
  /\ UNCHANGED <<serviceVars, config, proc>>

Ready ==
  /\ AtStarter("answered") /\ ~SshdPolled
  /\ starter' = [starter EXCEPT !.at = "clear", !.result = "handle"]
  /\ UNCHANGED <<serviceVars, config, proc>>

(* A readiness failure ends sshd before it is reported: SIGTERM, SIGKILL  *)
(* after a second, and no return before the child is reaped.              *)
CleanUp ==
  /\ AtStarter("cleanup")
  /\ proc' = Asked("sshd", FALSE, "term")
  /\ config' = (config /\ ~SshdPolled)
  /\ GoStarter("ending")
  /\ UNCHANGED serviceVars

CleanUpEscalates ==
  /\ AtStarter("ending") /\ ~SshdPolled /\ proc["sshd"].asked # "kill"
  /\ proc' = Asked("sshd", FALSE, "kill")
  /\ UNCHANGED <<serviceVars, starter, config>>

CleanedUp ==
  /\ AtStarter("ending") /\ SshdPolled
  /\ proc' = Reaped("sshd")
  /\ config' = FALSE
  /\ Fails
  /\ UNCHANGED serviceVars

(* The observer is told None on every way out of the thread. *)
StarterDies ==
  /\ AtStarter("clear")
  /\ slot' = "none"
  /\ GoStarter("dead")
  /\ UNCHANGED <<ssh, shutdown, handle, reaped, monitor, config, proc>>

StarterStep ==
  \/ PrepareKeys \/ JudgeCredentials \/ PublishConfig \/ SkipPassword
  \/ Spawn \/ Publish \/ Notify \/ CommandEnds \/ Unpublish
  \/ ProbeFails \/ ProbeAnswers \/ Ready
  \/ CleanUp \/ CleanUpEscalates \/ CleanedUp \/ StarterDies

-----------------------------------------------------------------------------
(* The monitor thread: wait, remove the configuration, then read the flag. *)
onlyMonitor == <<ssh, slot, shutdown, handle, starter>>

MonitorReaps ==
  /\ monitor.at = "wait" /\ proc["sshd"].is \in {"ended", "reaped"}
  /\ proc' = Reaped("sshd")
  /\ monitor' = [monitor EXCEPT !.at = "clean"]
  /\ UNCHANGED <<onlyMonitor, reaped, config, deliveryVars>>

MonitorCleans ==
  /\ monitor.at = "clean"
  /\ config' = FALSE
  /\ monitor' = [monitor EXCEPT !.at = "flag"]
  /\ UNCHANGED <<onlyMonitor, reaped, proc, deliveryVars>>

(* Only an exit nobody asked for is reported. *)
MonitorJudges ==
  /\ monitor.at = "flag"
  /\ monitor' = [monitor EXCEPT !.at = IF shutdown THEN "mark" ELSE "warn"]
  /\ UNCHANGED <<onlyMonitor, reaped, config, proc, deliveryVars>>

MonitorWarns ==
  /\ monitor.at = "warn"
  /\ Warn("ssh")
  /\ monitor' = [at |-> "mark", warned |-> TRUE]
  /\ UNCHANGED <<onlyMonitor, reaped, config, proc>>

MonitorEnds ==
  /\ monitor.at = "mark"
  /\ reaped' = TRUE
  /\ monitor' = [monitor EXCEPT !.at = "done"]
  /\ UNCHANGED <<onlyMonitor, config, proc, deliveryVars>>

MonitorStep == \/ MonitorReaps \/ MonitorCleans \/ MonitorJudges
               \/ MonitorWarns \/ MonitorEnds

MonitorStopped == monitor.at \in {"none", "done"}

-----------------------------------------------------------------------------
(* What the main thread's calls do to the service.                         *)

(* One signal to a process that was read from the slot before. *)
SignalSeen(p, sig) ==
  IF p = "none" THEN UNCHANGED <<proc, config>>
  ELSE /\ proc' = Asked(p, IsHeld(p), sig)
       /\ config' = (config /\ ~(p = "sshd" /\ SshdPolled))

(* One signal to the owned sshd. *)
SignalHandle(sig) ==
  IF ~handle THEN UNCHANGED <<proc, config>> ELSE SignalSeen("sshd", sig)

(* is_stopped: true once nothing the service owns is left, and what it  *)
(* reaps on the way.                                                    *)
SshdAccounted == ~handle \/ reaped \/ SshdPolled
IsStopped == ~StarterAlive /\ SshdAccounted /\ MonitorStopped
ReapOnLook ==
  IF handle /\ ~StarterAlive /\ ~reaped /\ SshdPolled
  THEN proc' = Reaped("sshd") /\ reaped' = TRUE /\ config' = FALSE
  ELSE UNCHANGED <<proc, reaped, config>>

SshTypeOK ==
  /\ proc \in ProcType
  /\ starter.step \in DOMAIN Steps
  /\ starter.result \in {"none", "handle", "nothing", "error"}
  /\ slot \in {"none"} \cup Procs
  /\ {shutdown, handle, reaped, monitor.warned, config} \subseteq BOOLEAN
=============================================================================
