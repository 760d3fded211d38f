-------------------------- MODULE RuntimeDownloads --------------------------
(***************************************************************************)
(* The download queues of one runtime generation                           *)
(* (src/comfyui_docker_helper/container/runtime/downloads.py): the         *)
(* synchronous queue that activation waits for, then the asynchronous one  *)
(* that runs beside ComfyUI, each with a worker thread (runtime/files/     *)
(* download.py), a cancelling thread, and its httpx and aria2 backends     *)
(* (transfer/httpx.py, Aria2Daemon).  The main thread starts, watches,     *)
(* stops and forces them.  What one file does on disk is FileTransfer.     *)
(***************************************************************************)
EXTENDS Aria2Daemon, Sequences, FiniteSets

CONSTANT Plans   \* plans to try: the downloaders of the items, per queue

Backends == {"httpx", "aria2"}

ASSUME PlansAreQueues ==
  Plans \subseteq [sync : Seq(Backends), async : Seq(Backends)]

VARIABLES plan,    \* what is to be downloaded
          signal,  \* a shutdown signal was received
          main,    \* the main thread: place, reason to stop, forced once
          queue,   \* the operation: which, its flags, summary and store
          worker,  \* the worker thread: place, item, failure
          canc,    \* the cancelling thread: place and what is left of its list
          httpx    \* its cancel flag

vars == <<plan, signal, main, queue, worker, canc, httpx, daemonVars>>

NoQueue == [op |-> "none", stop |-> FALSE, backends |-> {}, accepted |-> FALSE,
            cancelled |-> FALSE, summary |-> "none", store |-> "none"]
NoWorker == [pc |-> "none", item |-> 0, error |-> FALSE, why |-> "none",
             quiet |-> FALSE]
NoCanceller == [pc |-> "none", todo |-> {}]

Init ==
  /\ plan \in Plans
  /\ signal = FALSE
  /\ main = [pc |-> "activate", why |-> "none", forced |-> FALSE]
  /\ queue = NoQueue
  /\ worker = NoWorker
  /\ canc = NoCanceller
  /\ httpx = FALSE
  /\ DaemonInit

Items == IF queue.op = "sync" THEN plan.sync ELSE plan.async
NeedsAria == \E i \in DOMAIN Items : Items[i] = "aria2"
WorkerAlive == worker.pc \notin {"none", "done"}
CancellerAlive == canc.pc \notin {"none", "done"}

AtWorker(pc) == worker.pc = pc
GoWorker(pc) == worker' = [worker EXCEPT !.pc = pc]
mainVars == <<plan, signal, main>>

-----------------------------------------------------------------------------
(* The worker.                                                             *)

(* Reconciliation rewrites the state before anything is downloaded. *)
Reconcile ==
  /\ AtWorker("reconcile")
  /\ \/ GoWorker(IF Items = <<>> THEN "finish" ELSE "register")
     \/ worker' = [worker EXCEPT !.pc = "finish", !.error = TRUE]
  /\ UNCHANGED <<mainVars, queue, canc, httpx, daemonVars>>

(* Both backends are made known before the first item; only the *)
(* asynchronous queue prepares them before it is accepted.      *)
Register ==
  /\ AtWorker("register")
  /\ queue' = [queue EXCEPT !.backends =
                 IF NeedsAria THEN Backends ELSE {"httpx"}]
  /\ IF queue.op = "async" /\ NeedsAria
     THEN starter' = "call" /\ GoWorker("prepare")
     ELSE GoWorker("accept") /\ UNCHANGED starter
  /\ UNCHANGED <<mainVars, canc, httpx, aria, child, closer>>

Prepared ==
  /\ AtWorker("prepare") /\ starter \in {"up", "error", "cancelled"}
  /\ starter' = "idle"
  /\ worker' = IF starter = "up" THEN [worker EXCEPT !.pc = "accept"]
               ELSE [worker EXCEPT !.pc = "exit", !.error = TRUE]
  /\ UNCHANGED <<mainVars, queue, canc, httpx, aria, child, closer>>

Accept ==
  /\ AtWorker("accept")
  /\ queue' = [queue EXCEPT !.accepted = TRUE]
  /\ GoWorker("next")
  /\ UNCHANGED <<mainVars, canc, httpx, daemonVars>>

Leave == IF NeedsAria THEN "exit" ELSE "finish"

(* The cancellation check of the loop over the items, or the end of it. *)
NextItem ==
  /\ AtWorker("next")
  /\ IF worker.item = Len(Items)
     THEN GoWorker(Leave) /\ UNCHANGED queue
     ELSE IF queue.stop
          THEN GoWorker(Leave) /\ queue' = [queue EXCEPT !.cancelled = TRUE]
          ELSE /\ worker' = [worker EXCEPT !.pc = "attempt", !.item = @ + 1]
               /\ UNCHANGED queue
  /\ UNCHANGED <<mainVars, canc, httpx, daemonVars>>

(* The check before each attempt. *)
Attempt ==
  /\ AtWorker("attempt")
  /\ IF queue.stop
     THEN GoWorker(Leave) /\ queue' = [queue EXCEPT !.cancelled = TRUE]
     ELSE GoWorker(Items[worker.item]) /\ UNCHANGED queue
  /\ UNCHANGED <<mainVars, canc, httpx, daemonVars>>

(* An item that ends: done; cancelled, which ends the queue; or failed, *)
(* which the policy lets pass or not, and a retryable one tries again.  *)
Concluded(outcome) ==
  CASE outcome = "success"   -> GoWorker("next") /\ UNCHANGED queue
    [] outcome = "cancelled" ->
         /\ worker' = [worker EXCEPT !.pc = Leave,
                                     !.quiet = AtWorker("quiesce")]
         /\ queue' = [queue EXCEPT !.cancelled = TRUE]
    [] outcome = "retryable" -> GoWorker("attempt") /\ UNCHANGED queue
    [] OTHER -> /\ \/ GoWorker("next")
                   \/ worker' = [worker EXCEPT !.pc = Leave, !.error = TRUE]
                /\ UNCHANGED queue

(* HttpxDownloader.download: a request that was cancelled before it was  *)
(* published is not sent, the task is cancelled while it runs, and a     *)
(* cancellation seen before the end wins over the outcome.               *)
HttpxEnters ==
  /\ AtWorker("httpx")
  /\ IF httpx THEN Concluded("cancelled") ELSE GoWorker("h_run") /\ UNCHANGED queue
  /\ UNCHANGED <<mainVars, canc, httpx, daemonVars>>

HttpxRuns ==
  /\ AtWorker("h_run")
  /\ \/ httpx /\ Concluded("cancelled")
     \/ /\ \E o \in {"success", "failed", "retryable"} :
             worker' = [worker EXCEPT !.pc = "h_end", !.why = o]
        /\ UNCHANGED queue
  /\ UNCHANGED <<mainVars, canc, httpx, daemonVars>>

HttpxEnds ==
  /\ AtWorker("h_end")
  /\ Concluded(IF httpx THEN "cancelled" ELSE worker.why)
  /\ UNCHANGED <<mainVars, canc, httpx, daemonVars>>

(* Aria2Downloader.download. *)
AriaEnters ==
  /\ AtWorker("aria2")
  /\ IF aria.cancel THEN GoWorker("quiesce") /\ UNCHANGED starter
     ELSE GoWorker("ensure") /\ starter' = "call"
  /\ UNCHANGED <<mainVars, queue, canc, httpx, aria, child, closer>>

AriaEnsured ==
  /\ AtWorker("ensure")
  /\ \/ starter = "up" /\ GoWorker("a_run") /\ UNCHANGED queue
     \/ starter = "cancelled" /\ GoWorker("quiesce") /\ UNCHANGED queue
     \/ starter = "error" /\ Concluded("failed")
  /\ starter' = "idle"
  /\ UNCHANGED <<mainVars, canc, httpx, aria, child, closer>>

(* Submission and the polling loop: the cancellation is looked at before *)
(* the status is believed, and an error of the adapter closes it.        *)
AriaRuns ==
  /\ AtWorker("a_run")
  /\ \/ aria.cancel /\ GoWorker("quiesce") /\ UNCHANGED <<queue, closer, child>>
     \/ /\ ~aria.cancel /\ aria.owned /\ child = "alive"
        /\ \E o \in {"success", "failed", "retryable"} : Concluded(o)
        /\ UNCHANGED <<closer, child>>
     \/ /\ ~aria.cancel
        /\ child' = Polled
        /\ closer' = [closer EXCEPT !["worker"].pc = "enter"]
        /\ GoWorker("reap") /\ UNCHANGED queue
  /\ UNCHANGED <<mainVars, canc, httpx, aria, starter>>

(* _require_cancelled_daemon_quiescence: "cancelled" is only said of a  *)
(* daemon that is gone.                                                 *)
Quiesce ==
  /\ AtWorker("quiesce")
  /\ \/ ~aria.owned /\ Concluded("cancelled")
     \/ aria.owned /\ Concluded("failed")    \* teardown failed, or too late
  /\ UNCHANGED <<mainVars, canc, httpx, daemonVars>>

(* _reap_unquiescent_item: the item failed either way. *)
Reaped ==
  /\ AtWorker("reap") /\ closer["worker"].pc = "returned"
  /\ closer' = [closer EXCEPT !["worker"] = NotClosing]
  /\ Concluded("failed")
  /\ UNCHANGED <<mainVars, canc, httpx, aria, child, starter>>

ExitForgets ==   \* mutant
  /\ AtWorker("exit") /\ GoWorker("finish")
  /\ UNCHANGED <<mainVars, queue, canc, httpx, daemonVars>>

(* The end of the "with" block closes the daemon. *)
Exit ==
  /\ AtWorker("exit")
  /\ \/ /\ closer["worker"].pc = "idle"
        /\ closer' = [closer EXCEPT !["worker"].pc = "enter"]
        /\ UNCHANGED worker
     \/ /\ closer["worker"].pc = "returned"
        /\ closer' = [closer EXCEPT !["worker"] = NotClosing]
        /\ worker' = [worker EXCEPT !.pc = "finish",
                                    !.error = @ \/ ~closer["worker"].ok]
  /\ UNCHANGED <<mainVars, queue, canc, httpx, aria, child, starter>>

(* Only a cancellation the queue itself met suppresses its completion: *)
(* a stop requested after the last item does not.                      *)
Finish ==
  /\ AtWorker("finish") /\ GoWorker("done")
  /\ queue' = [queue EXCEPT
       !.store = "closed",
       !.summary = IF worker.error THEN "failed"
                   ELSE IF queue.cancelled THEN "none" ELSE "completed"]
  /\ UNCHANGED <<mainVars, canc, httpx, daemonVars>>

StartDaemon == StartStep /\ UNCHANGED <<mainVars, queue, worker, canc, httpx>>
CloseDaemon(t) == /\ CloseStep(t)
                  /\ UNCHANGED <<mainVars, queue, worker, canc, httpx>>

Work == \/ Reconcile \/ Register \/ Prepared \/ Accept \/ NextItem \/ Attempt
        \/ HttpxEnters \/ HttpxEnds \/ AriaEnters \/ AriaEnsured
        \/ Quiesce \/ Reaped \/ Exit \/ Finish \/ StartDaemon
        \/ CloseDaemon("worker")

-----------------------------------------------------------------------------
(* The cancelling thread: each backend of the list it was given.           *)

CancelHttpx ==
  /\ canc.pc = "run" /\ "httpx" \in canc.todo
  /\ httpx' = TRUE
  /\ canc' = [canc EXCEPT !.todo = @ \ {"httpx"}]
  /\ UNCHANGED <<mainVars, queue, worker, daemonVars>>

CancelAria ==
  /\ canc.pc = "run" /\ canc.todo = {"aria2"}
  /\ aria' = [aria EXCEPT !.cancel = TRUE]
  /\ closer' = [closer EXCEPT !["canceller"].pc = "enter"]
  /\ canc' = [pc |-> "close", todo |-> {}]
  /\ UNCHANGED <<mainVars, queue, worker, httpx, child, starter>>

CancellerEnds ==
  /\ \/ canc.pc = "run" /\ canc.todo = {}
     \/ canc.pc = "close" /\ closer["canceller"].pc = "returned"
  /\ canc' = [pc |-> "done", todo |-> {}]
  /\ UNCHANGED <<mainVars, queue, worker, httpx, daemonVars>>

Cancel == CancelHttpx \/ CancelAria \/ CancellerEnds \/ CloseDaemon("canceller")

-----------------------------------------------------------------------------
(* The main thread.                                                        *)

GoMain(pc) == main' = [main EXCEPT !.pc = pc]
Inputs == <<plan, signal>>
Backs == <<httpx, daemonVars>>

(* activate: the handle is owned before its thread starts. *)
Activate ==
  /\ main.pc = "activate"
  /\ queue' = [NoQueue EXCEPT !.op = "sync", !.store = "open"]
  /\ worker' = [NoWorker EXCEPT !.pc = "reconcile"]
  /\ GoMain("activating")
  /\ UNCHANGED <<Inputs, canc, Backs>>

Activated ==
  /\ main.pc = "activating"
  /\ \/ signal /\ main' = [main EXCEPT !.pc = "flag", !.why = "sync"]
     \/ /\ ~signal /\ ~WorkerAlive
        /\ GoMain(IF worker.error THEN "stopped"
                  ELSE IF plan.async = <<>> THEN "running" ELSE "start_async")
  /\ UNCHANGED <<Inputs, queue, worker, canc, Backs>>

(* start_async: the state is read again, and the plan must still be the *)
(* pending one of this start; then the handle, then the thread.         *)
StartAsync ==
  /\ main.pc = "start_async"
  /\ \/ /\ GoMain("stopped")      \* not admitted, or no thread
        /\ UNCHANGED <<queue, worker, canc, Backs>>
     \/ /\ queue' = [NoQueue EXCEPT !.op = "async", !.store = "open"]
        /\ worker' = [NoWorker EXCEPT !.pc = "register"]
        /\ canc' = NoCanceller
        /\ httpx' = FALSE
        /\ aria' = NewAria /\ child' = "none" /\ starter' = "idle"
        /\ closer' = [t \in Closers |-> NotClosing]
        /\ GoMain("admitting")
  /\ UNCHANGED Inputs

Admitted ==
  /\ main.pc = "admitting"
  /\ \/ (queue.accepted \/ signal) /\ GoMain("running")
     \/ ~queue.accepted /\ ~WorkerAlive /\ GoMain("stopped")
  /\ UNCHANGED <<Inputs, queue, worker, canc, Backs>>

(* A signal asks for request_stop, an exit of ComfyUI for stop. *)
BeginStop ==
  /\ main.pc = "running"
  /\ \E why \in {"signal", "exit"} :
       /\ why = "signal" => signal
       /\ main' = [main EXCEPT !.pc = IF WorkerAlive THEN "flag" ELSE
                                      IF why = "exit" THEN "stopped" ELSE "wait",
                               !.why = why]
  /\ UNCHANGED <<Inputs, queue, worker, canc, Backs>>

SetStop == queue' = [queue EXCEPT !.stop = TRUE]

(* The thread is started once, with the backends known at that moment. *)
Snapshot ==
  canc' = IF canc.pc # "none" THEN canc
          ELSE [pc |-> "run", todo |-> queue.backends]

SnapshotFirst ==   \* mutant
  /\ \/ /\ main.pc = "flag" /\ main.why # "exit"
        /\ Snapshot /\ GoMain("snap") /\ UNCHANGED queue
     \/ main.pc = "flag" /\ main.why = "exit" /\ SetStop /\ GoMain("wait")
        /\ UNCHANGED canc
     \/ /\ main.pc = "snap" /\ SetStop
        /\ GoMain(IF main.forced THEN "force" ELSE "wait") /\ UNCHANGED canc
  /\ UNCHANGED <<Inputs, worker, Backs>>

(* request_stop, then request_backend_termination, which stop leaves for *)
(* when it forces.                                                       *)
RequestStop ==
  /\ \/ /\ main.pc = "flag"
        /\ SetStop /\ GoMain(IF main.why = "exit" THEN "wait" ELSE "snap")
        /\ UNCHANGED canc
     \/ /\ main.pc = "snap"
        /\ Snapshot /\ GoMain(IF main.forced THEN "force" ELSE "wait")
        /\ UNCHANGED queue
  /\ UNCHANGED <<Inputs, worker, Backs>>

WaitNeverForces ==   \* mutant
  /\ main.pc = "wait" /\ ~WorkerAlive /\ ~CancellerAlive
  /\ GoMain("stopped")
  /\ UNCHANGED <<Inputs, queue, worker, canc, Backs>>

(* Nothing is left, or the deadline passes or a second signal arrives; *)
(* stop forces once, the others again and again.                       *)
Wait ==
  /\ main.pc = "wait"
  /\ \/ ~WorkerAlive /\ ~CancellerAlive /\ GoMain("stopped")
     \/ /\ WorkerAlive \/ CancellerAlive
        /\ main.why = "exit" => ~main.forced
        /\ main' = [main EXCEPT !.pc = "snap", !.forced = TRUE]
  /\ UNCHANGED <<Inputs, queue, worker, canc, Backs>>

(* terminate_backends: cancel what is registered now, without waiting. *)
ForceCancel ==
  /\ main.pc = "force"
  /\ httpx' = (httpx \/ "httpx" \in queue.backends)
  /\ IF "aria2" \in queue.backends
     THEN /\ aria' = [aria EXCEPT !.cancel = TRUE, !.close = TRUE]
          /\ GoMain(IF aria.owned THEN "kill" ELSE "wait")
     ELSE UNCHANGED aria /\ GoMain("wait")
  /\ UNCHANGED <<Inputs, queue, worker, canc, child, starter, closer>>

(* The process that was owned then is polled and killed. *)
Kill ==
  /\ main.pc = "kill"
  /\ child' = IF Polled = "alive" THEN "killed" ELSE Polled
  /\ GoMain("wait")
  /\ UNCHANGED <<Inputs, queue, worker, canc, httpx, aria, starter, closer>>

Manage == \/ Activate \/ Activated \/ StartAsync \/ Admitted \/ RequestStop
          \/ Wait \/ ForceCancel \/ Kill

-----------------------------------------------------------------------------

ReceiveSignal ==
  /\ ~signal /\ signal' = TRUE
  /\ UNCHANGED <<plan, main, queue, worker, canc, Backs>>

DaemonExits ==
  ChildExits /\ UNCHANGED <<mainVars, queue, worker, canc, httpx>>

(* The network goes on or not: nothing makes a transfer end by itself. *)
Next == \/ Work \/ HttpxRuns \/ AriaRuns \/ Cancel \/ Manage \/ BeginStop
        \/ ReceiveSignal \/ DaemonExits

(* Threads run, deadlines pass, and a transfer that is asked to end does. *)
Fairness ==
  /\ WF_vars(Work) /\ WF_vars(Cancel) /\ WF_vars(Manage)
  /\ WF_vars(httpx /\ HttpxRuns) /\ WF_vars(aria.cancel /\ AriaRuns)

Spec == Init /\ [][Next]_vars /\ Fairness

-----------------------------------------------------------------------------

MainPlaces == {"activate", "activating", "start_async", "admitting",
               "running", "flag", "snap", "wait", "force", "kill", "stopped"}
WorkerPlaces == {"none", "reconcile", "register", "prepare", "accept", "next",
                 "attempt", "httpx", "h_run", "h_end", "aria2", "ensure",
                 "a_run", "quiesce", "reap", "exit", "finish", "done"}

Reasons == {"none", "sync", "signal", "exit"}
Outcomes == {"none", "success", "failed", "retryable"}
Summaries == {"none", "failed", "completed"}

Mains == [pc : MainPlaces, why : Reasons, forced : BOOLEAN]
Queues == [op : {"none", "sync", "async"}, stop : BOOLEAN,
           backends : SUBSET Backends, accepted : BOOLEAN,
           cancelled : BOOLEAN, summary : Summaries,
           store : {"none", "open", "closed"}]
Workers == [pc : WorkerPlaces, item : Nat, error : BOOLEAN, why : Outcomes,
            quiet : BOOLEAN]
Cancellers == [pc : {"none", "run", "close", "done"}, todo : SUBSET Backends]

TypeOK ==
  /\ plan \in Plans /\ signal \in BOOLEAN /\ httpx \in BOOLEAN
  /\ main \in Mains /\ queue \in Queues
  /\ worker \in Workers /\ canc \in Cancellers
  /\ DaemonTypeOK

(* A thread that was given the backends once cancels every one the worker  *)
(* can be using: a stop is noticed before the first transfer, or the       *)
(* backend of that transfer was in the list (downloads.py:175, files/      *)
(* download.py:104).                                                       *)
StopReachesTransport ==
  canc.pc = "done" =>
    /\ worker.pc \in {"httpx", "h_run", "h_end"} => httpx
    /\ worker.pc \in {"aria2", "a_run"} => aria.cancel

(* A queue that met its cancellation in aria2, and kept the partial file   *)
(* for a later start, left no daemon that still writes it                  *)
(* (aria2.py:557).                                                         *)
CancelledIsQuiescent ==
  worker.quiet => child \in {"none", "reaped"}

(* When the main thread calls the queues stopped, no thread of theirs      *)
(* runs, no daemon is left that was not at least killed, and the state     *)
(* file is released (downloads.py:407).                                    *)
StoppedLeavesNothing ==
  main.pc = "stopped" =>
    /\ ~WorkerAlive /\ ~CancellerAlive
    /\ child # "alive"
    /\ queue.store # "open"

(* A stop that comes after the last item does not take back that the queue *)
(* completed (downloads.py:512, 648).                                      *)
CompletionKept ==
  /\ worker.pc = "done" /\ ~worker.error /\ ~queue.cancelled
  => queue.summary = "completed" /\ worker.item = Len(Items)

(* A stop ends, also when a transfer hangs and the daemon does not answer. *)
StopEnds == main.pc = "flag" ~> main.pc = "stopped"
=============================================================================
