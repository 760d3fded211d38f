----------------------------- MODULE Aria2Daemon -----------------------------
(***************************************************************************)
(* The daemon of one aria2 backend (src/comfyui_docker_helper/container/   *)
(* transfer/aria2.py): its start by the thread that downloads, and its     *)
(* close, which that thread and a cancelling thread may call at once.      *)
(* Each action is one section under the lifecycle lock, or the work that   *)
(* is done between two of them.  A deadline may pass at any wait.          *)
(***************************************************************************)
EXTENDS Integers

VARIABLES aria,     \* the fields of Aria2Downloader
          child,    \* the aria2c process
          starter,  \* the thread inside _ensure_started
          closer    \* the threads inside _close_until

daemonVars == <<aria, child, starter, closer>>

Closers == {"worker", "canceller"}
LifecycleStates == {"new", "starting", "ready", "closing", "cleanup_failed",
                    "closed"}
NotClosing == [pc |-> "idle", gen |-> 0, ok |-> TRUE]

NewAria == [state |-> "new", owned |-> FALSE, cancel |-> FALSE,
            close |-> FALSE, gen |-> 0, done |-> 0, failed |-> FALSE]

DaemonInit ==
  /\ aria = NewAria /\ child = "none" /\ starter = "idle"
  /\ closer = [t \in Closers |-> NotClosing]

StarterPlaces == {"idle", "call", "spawning", "spawned", "polling", "failed",
                  "failed_cancelled", "up", "error", "cancelled"}
CloserPlaces == {"idle", "enter", "starting", "closing", "shutdown", "publish",
                 "returned"}

ChildStates == {"none", "alive", "exited", "killed", "reaped"}

Adapters == [state : LifecycleStates, owned : BOOLEAN, cancel : BOOLEAN,
             close : BOOLEAN, gen : Nat, done : Nat, failed : BOOLEAN]
Closings == [pc : CloserPlaces, gen : Nat, ok : BOOLEAN]

DaemonTypeOK ==
  /\ aria \in Adapters /\ child \in ChildStates
  /\ starter \in StarterPlaces /\ closer \in [Closers -> Closings]

(* poll() reaps a process that has exited. *)
Polled == IF child = "exited" THEN "reaped" ELSE child
Running == child \in {"alive", "killed"}

-----------------------------------------------------------------------------
(* Closing.                                                                *)

(* One turn of the loop of _close_until, for a caller t. *)
CloseLoop(t) ==
  LET closing == [aria EXCEPT !.close = TRUE] IN
  \/ /\ aria.state = "starting"
     /\ aria' = closing
     /\ closer' = [closer EXCEPT ![t].pc = "starting"]
  \/ /\ aria.state = "closing"
     /\ aria' = closing
     /\ closer' = [closer EXCEPT ![t] = [@ EXCEPT !.pc = "closing",
                                                  !.gen = aria.gen]]
  \/ /\ aria.state \notin {"starting", "closing"} /\ ~aria.owned
     /\ aria' = [closing EXCEPT !.state = "closed", !.failed = FALSE]
     /\ closer' = [closer EXCEPT ![t] = [@ EXCEPT !.pc = "returned",
                                                  !.ok = TRUE]]
  \/ /\ aria.state \notin {"starting", "closing"} /\ aria.owned
     /\ aria' = [closing EXCEPT !.state = "closing", !.gen = @ + 1,
                                !.failed = FALSE]
     /\ closer' = [closer EXCEPT ![t] = [@ EXCEPT !.pc = "shutdown",
                                                  !.gen = aria.gen + 1]]

(* A caller enters the loop, or is woken by a change it waits for. *)
CloseWakes(t) ==
  /\ UNCHANGED <<child, starter>>
  /\ \/ closer[t].pc = "enter" /\ CloseLoop(t)
     \/ /\ closer[t].pc = "starting" /\ aria.state # "starting"
        /\ CloseLoop(t)
     \/ /\ closer[t].pc = "closing" /\ aria.state # "closing"
        /\ aria.done = closer[t].gen
        /\ closer' = [closer EXCEPT ![t] = [@ EXCEPT !.pc = "returned",
                                                     !.ok = ~aria.failed]]
        /\ UNCHANGED aria
     \/ /\ closer[t].pc = "closing"
        /\ aria.gen # closer[t].gen \/ aria.state # "closing"
        /\ ~(aria.state # "closing" /\ aria.done = closer[t].gen)
        /\ CloseLoop(t)

(* The deadline of the caller passes while it waits for another thread. *)
CloseGivesUp(t) ==
  /\ closer[t].pc \in {"starting", "closing"}
  /\ closer' = [closer EXCEPT ![t] = [@ EXCEPT !.pc = "returned",
                                               !.ok = FALSE]]
  /\ UNCHANGED <<aria, child, starter>>

(* RPC shutdown, SIGTERM and SIGKILL, each given its share of the time: *)
(* the process is reaped, or still there when the deadline passes.      *)
ShutdownProcess(t) ==
  /\ closer[t].pc = "shutdown"
  /\ \/ /\ child' = "reaped"
        /\ closer' = [closer EXCEPT ![t] = [@ EXCEPT !.pc = "publish",
                                                     !.ok = TRUE]]
     \/ /\ Running /\ child' = "killed"
        /\ closer' = [closer EXCEPT ![t] = [@ EXCEPT !.pc = "publish",
                                                     !.ok = FALSE]]
  /\ UNCHANGED <<aria, starter>>

(* A failed teardown keeps the process, for a later close to reap. *)
PublishTeardown(t) ==
  /\ closer[t].pc = "publish"
  /\ aria' = [aria EXCEPT !.owned = @ /\ ~closer[t].ok,
                          !.state = IF closer[t].ok THEN "closed"
                                    ELSE "cleanup_failed",
                          !.done = closer[t].gen,
                          !.failed = ~closer[t].ok]
  /\ closer' = [closer EXCEPT ![t].pc = "returned"]
  /\ UNCHANGED <<child, starter>>

CloseStep(t) == \/ CloseWakes(t) \/ CloseGivesUp(t)
                \/ ShutdownProcess(t) \/ PublishTeardown(t)

-----------------------------------------------------------------------------
(* Starting, by the worker.                                                *)

(* _ensure_started up to the decision to start a process.  Only this       *)
(* thread starts one, and a teardown has closing set, so the waits of the  *)
(* loop are behind the tests before them.                                  *)
EnsureStarted ==
  /\ starter = "call"
  /\ \/ aria.cancel /\ starter' = "cancelled" /\ UNCHANGED <<aria, child>>
     \/ /\ ~aria.cancel /\ aria.close
        /\ starter' = "error" /\ UNCHANGED <<aria, child>>
     \/ /\ ~aria.cancel /\ ~aria.close /\ aria.state = "ready"
        /\ starter' = IF Polled = "alive" THEN "up" ELSE "error"
        /\ child' = Polled /\ UNCHANGED aria
     \/ /\ ~aria.cancel /\ ~aria.close /\ aria.state = "new"
        /\ starter' = "spawning"
        /\ aria' = [aria EXCEPT !.state = "starting"]
        /\ UNCHANGED child
  /\ UNCHANGED closer

(* The process is created outside the lock, and may fail to be. *)
SpawnFails ==
  /\ starter = "spawning"
  /\ aria' = [aria EXCEPT !.state = IF aria.close THEN "closed" ELSE "new"]
  /\ starter' = "error"
  /\ UNCHANGED <<child, closer>>

Spawn ==
  /\ starter = "spawning"
  /\ child' = "alive" /\ starter' = "spawned"
  /\ UNCHANGED <<aria, closer>>

PublishChild ==
  /\ starter = "spawned"
  /\ aria' = [aria EXCEPT !.owned = TRUE] /\ starter' = "polling"
  /\ UNCHANGED <<child, closer>>

(* The RPC answers, and nobody asked to stop in the meantime. *)
BecomeReady ==
  /\ starter = "polling" /\ child = "alive" /\ ~aria.cancel /\ ~aria.close
  /\ aria' = [aria EXCEPT !.state = "ready"] /\ starter' = "up"
  /\ UNCHANGED <<child, closer>>

(* A cancellation, an exit of the daemon, or no answer in time. *)
StartFails ==
  /\ starter = "polling"
  /\ child' = Polled
  /\ starter' \in {"failed"} \cup
       (IF aria.cancel \/ aria.close THEN {"failed_cancelled"} ELSE {})
  /\ UNCHANGED <<aria, closer>>

(* The failed start is published as ready, so that a close can take it, *)
(* and the starter closes it itself.                                    *)
PublishFailedStart ==
  /\ starter \in {"failed", "failed_cancelled"}
  /\ closer["worker"].pc = "idle"
  /\ aria' = [aria EXCEPT !.close = TRUE,
                          !.state = IF @ = "starting" THEN "ready" ELSE @]
  /\ closer' = [closer EXCEPT !["worker"].pc = "enter"]
  /\ UNCHANGED <<child, starter>>

CloseFailedStart ==
  /\ starter \in {"failed", "failed_cancelled"}
  /\ closer["worker"].pc = "returned"
  /\ closer' = [closer EXCEPT !["worker"] = NotClosing]
  /\ starter' = IF starter = "failed" THEN "error" ELSE "cancelled"
  /\ UNCHANGED <<aria, child>>

StartStep == \/ EnsureStarted \/ SpawnFails \/ Spawn \/ PublishChild
             \/ BecomeReady \/ StartFails \/ PublishFailedStart
             \/ CloseFailedStart

(* The daemon exits: by itself, or because it was killed. *)
ChildExits ==
  /\ Running /\ child' = "exited"
  /\ UNCHANGED <<aria, starter, closer>>
=============================================================================
