----------------------- MODULE RuntimeDownloads_proofs -----------------------
(***************************************************************************)
(* The download queues of a generation, for every plan: the safety         *)
(* properties of RuntimeDownloads.                                         *)
(*                                                                         *)
(* None of them is inductive.  DownloadsInv adds which thread may be where *)
(* at which time, that what the worker uses was registered before it is    *)
(* used, that the daemon has one owner at a time in each phase of its      *)
(* life, and that whoever leaves the daemon alive leaves it to a thread    *)
(* that is ending it.                                                      *)
(***************************************************************************)
EXTENDS RuntimeDownloads, TLAPS

-----------------------------------------------------------------------------
(* The invariant.                                                          *)

\* The generation and its threads: the worker lives from the activation on,
\* the canceller from the first snapshot on, and both ended at "stopped".
MainInStep ==
  /\ main.pc = "activate" => worker.pc = "none"
  /\ worker.pc = "none" => main.pc = "activate"
  /\ main.pc = "start_async" => worker.pc = "done"
  /\ main.pc \in {"activate", "activating", "start_async", "admitting",
                  "running", "flag"} => canc.pc = "none"
  /\ main.pc = "stopped" => worker.pc = "done" /\ canc.pc \in {"none", "done"}
  /\ worker.pc = "done" => queue.store = "closed"

\* No thread cancels before the queue was told to stop; a wait without that
\* has nothing to wait for.
StopComesFirst ==
  /\ main.pc \in {"snap", "force", "kill"} => queue.stop
  /\ canc.pc # "none" => queue.stop
  /\ main.pc = "wait" => queue.stop \/ (worker.pc = "done" /\ canc.pc = "none")

Unregistered == {"none", "reconcile", "register"}
InItem == {"attempt", "httpx", "h_run", "h_end", "aria2", "ensure", "a_run",
           "quiesce", "reap"}
UsesHttpx == {"httpx", "h_run", "h_end"}
UsesAria == {"aria2", "ensure", "a_run"}

\* What is registered, and where in its list the worker is.
WorkerInStep ==
  /\ worker.item <= Len(Items)
  /\ worker.pc \in InItem => worker.item > 0
  /\ worker.pc \in Unregistered => queue.backends = {}
  /\ worker.pc \notin Unregistered \cup {"finish", "done"}
     => queue.backends = IF NeedsAria THEN Backends ELSE {"httpx"}
  /\ worker.pc \in UsesAria \cup {"prepare", "quiesce", "reap", "exit"}
     => NeedsAria
  /\ worker.pc \in {"exit", "finish", "done"} /\ ~worker.error
     /\ ~queue.cancelled => worker.item = Len(Items)
  /\ worker.pc = "done" /\ ~worker.error /\ ~queue.cancelled
     => queue.summary = "completed"

\* The canceller has cancelled what the worker uses, or is about to.
CancelReaches ==
  /\ canc.pc \in {"none", "close", "done"} => canc.todo = {}
  /\ canc.todo \subseteq queue.backends
  /\ canc.pc # "none" /\ worker.pc \in UsesHttpx
     => httpx \/ "httpx" \in canc.todo
  /\ canc.pc # "none" /\ worker.pc \in UsesAria
     => aria.cancel \/ "aria2" \in canc.todo

TearingDown == {"shutdown", "publish"}
Failing == {"failed", "failed_cancelled"}

\* Who is inside the adapter.
AdapterInStep ==
  /\ starter # "idle" => worker.pc \in {"prepare", "ensure"}
  /\ closer["worker"].pc # "idle"
     => worker.pc \in {"exit", "reap"} \/ starter \in Failing
  /\ closer["canceller"].pc # "idle" => canc.pc \in {"close", "done"}
  /\ canc.pc = "done" => closer["canceller"].pc \in {"idle", "returned"}

\* The life of the daemon: one start, and at most one teardown at a time.
DaemonInStep ==
  /\ starter \in {"spawning", "spawned"}
     => aria.state = "starting" /\ ~aria.owned
  /\ starter = "polling" => aria.state = "starting" /\ aria.owned
  /\ aria.state = "new" => ~aria.owned
  /\ aria.state = "starting"
     => /\ starter \in {"spawning", "spawned", "polling"} \cup Failing
        /\ closer["worker"].pc = "idle"
  /\ aria.state = "closing"
     => aria.owned /\ \E t \in Closers : closer[t].pc \in TearingDown
  /\ \A t \in Closers :
       closer[t].pc \in TearingDown => aria.state = "closing"
  /\ ~(/\ closer["worker"].pc \in TearingDown
       /\ closer["canceller"].pc \in TearingDown)
  /\ aria.done <= aria.gen
  /\ \A t \in Closers : closer[t].gen <= aria.gen

\* The process: owned from its publication until a teardown reaped it.
ProcessIsOwned ==
  /\ aria.owned => child # "none"
  /\ starter = "spawned" => child # "none"
  /\ ~aria.owned => child \in {"none", "reaped"} \/ starter = "spawned"
  /\ child # "none" => NeedsAria
  /\ worker.pc \in Unregistered => child = "none"
  /\ aria.state \in {"closed", "cleanup_failed"} => child # "alive"
  /\ \A t \in Closers :
       /\ closer[t].pc = "publish" => child # "alive"
       /\ closer[t].pc = "publish" /\ closer[t].ok => child = "reaped"
       /\ closer[t].pc = "closing"
          => aria.state \in {"closing", "closed", "cleanup_failed"}

\* A daemon the worker leaves alive is the canceller's to end.
LeftToCanceller == child = "alive" => closer["canceller"].pc = "shutdown"

WorkerLeavesNothing ==
  /\ closer["worker"].pc # "starting"
  /\ closer["worker"].pc = "returned" => LeftToCanceller
  /\ worker.pc \in {"finish", "done"} => LeftToCanceller
  /\ worker.quiet => /\ worker.pc \in {"exit", "finish", "done"}
                     /\ child \in {"none", "reaped"}

DownloadsInv ==
  /\ TypeOK /\ MainInStep /\ StopComesFirst /\ WorkerInStep /\ CancelReaches
  /\ AdapterInStep /\ DaemonInStep /\ ProcessIsOwned /\ WorkerLeavesNothing

-----------------------------------------------------------------------------
(* Lemmas about the operators.                                             *)

\* The list the worker goes through, and where it leaves it to.
LEMMA ItemsTypes ==
    ASSUME TypeOK
    PROVE  /\ Items \in Seq(Backends) /\ Len(Items) \in Nat
           /\ \A i \in 1..Len(Items) :
                Items[i] \in Backends /\ (Items[i] = "aria2" => NeedsAria)
           /\ NeedsAria => Leave = "exit"
           /\ ~NeedsAria => Leave = "finish"
<1>1. plan \in [sync : Seq(Backends), async : Seq(Backends)]
  BY PlansAreQueues DEF TypeOK
<1>2. Items \in Seq(Backends)
  BY <1>1 DEF Items
<1>3. Len(Items) \in Nat /\ \A i \in 1..Len(Items) :
        i \in DOMAIN Items /\ Items[i] \in Backends
  BY <1>2
<1>4. QED
  BY <1>2, <1>3 DEF NeedsAria, Leave

\* They depend on the plan and the operation alone.
LEMMA ItemsStay ==
    ASSUME plan' = plan, queue'.op = queue.op
    PROVE  Items' = Items /\ (NeedsAria' <=> NeedsAria)
BY DEF Items, NeedsAria

\* How an item may end.
LEMMA ConcludedEffect ==
    ASSUME TypeOK, NEW o, Concluded(o)
    PROVE  \/ /\ \E pc \in {"next", "attempt"} :
                   worker' = [worker EXCEPT !.pc = pc]
              /\ queue' = queue
           \/ /\ worker' = [worker EXCEPT !.pc = Leave,
                                          !.quiet = AtWorker("quiesce")]
              /\ queue' = [queue EXCEPT !.cancelled = TRUE]
              /\ o = "cancelled"
           \/ /\ worker' = [worker EXCEPT !.pc = Leave, !.error = TRUE]
              /\ queue' = queue
BY DEF Concluded, GoWorker

\* The fields it may change.
LEMMA ConcludedFields ==
    ASSUME TypeOK, NEW o, Concluded(o)
    PROVE  /\ worker' \in Workers /\ queue' \in Queues
           /\ worker'.item = worker.item /\ worker'.why = worker.why
           /\ worker'.pc \in {"next", "attempt", "exit", "finish"}
           /\ worker'.pc = "exit" => NeedsAria
           /\ worker'.pc = "finish" => ~NeedsAria
           /\ worker'.pc \in {"exit", "finish"}
              => worker'.error \/ queue'.cancelled
           /\ worker'.quiet
              => \/ worker.quiet
                 \/ /\ AtWorker("quiesce") /\ o = "cancelled"
                    /\ worker'.pc \in {"exit", "finish"}
           /\ queue' = [queue EXCEPT !.cancelled = queue'.cancelled]
           /\ queue'.op = queue.op /\ queue'.stop = queue.stop
           /\ queue'.backends = queue.backends /\ queue'.store = queue.store
           /\ queue'.accepted = queue.accepted
           /\ queue'.summary = queue.summary
<1>1. worker \in Workers /\ queue \in Queues
  BY DEF TypeOK
<1>2. {"next", "attempt", "exit", "finish"} \subseteq WorkerPlaces
  BY DEF WorkerPlaces
<1>3. /\ Leave \in {"exit", "finish"}
      /\ Leave = "exit" => NeedsAria
      /\ Leave = "finish" => ~NeedsAria
  BY DEF Leave
<1>4. AtWorker("quiesce") \in BOOLEAN
  BY DEF AtWorker
<1>5. CASE /\ \E pc \in {"next", "attempt"} :
                worker' = [worker EXCEPT !.pc = pc]
           /\ queue' = queue
  BY <1>1, <1>2, <1>5 DEF Workers, Queues
<1>6. CASE /\ worker' = [worker EXCEPT !.pc = Leave,
                                       !.quiet = AtWorker("quiesce")]
           /\ queue' = [queue EXCEPT !.cancelled = TRUE]
           /\ o = "cancelled"
  BY <1>1, <1>2, <1>3, <1>4, <1>6 DEF Workers, Queues
<1>7. CASE /\ worker' = [worker EXCEPT !.pc = Leave, !.error = TRUE]
           /\ queue' = queue
  BY <1>1, <1>2, <1>3, <1>7 DEF Workers, Queues
<1>8. QED
  BY <1>5, <1>6, <1>7, ConcludedEffect

\* The places are places.
LEMMA PlacesAre ==
    /\ {"none", "reconcile", "register", "prepare", "accept", "next",
        "attempt", "httpx", "h_run", "h_end", "aria2", "ensure", "a_run",
        "quiesce", "reap", "exit", "finish", "done"} \subseteq WorkerPlaces
    /\ {"activate", "activating", "start_async", "admitting", "running",
        "flag", "snap", "wait", "force", "kill", "stopped"}
       \subseteq MainPlaces
    /\ {"none", "sync", "signal", "exit"} \subseteq Reasons
    /\ {"none", "success", "failed", "retryable"} \subseteq Outcomes
    /\ {"none", "failed", "completed"} \subseteq Summaries
    /\ {{}, {"httpx"}, Backends} \subseteq SUBSET Backends
BY DEF WorkerPlaces, MainPlaces, Reasons, Outcomes, Summaries, Backends

LEMMA AdapterPlaces ==
    /\ {"idle", "call", "spawning", "spawned", "polling", "failed",
        "failed_cancelled", "up", "error", "cancelled"}
       \subseteq StarterPlaces
    /\ {"idle", "enter", "starting", "closing", "shutdown", "publish",
        "returned"} \subseteq CloserPlaces
    /\ {"new", "starting", "ready", "closing", "cleanup_failed", "closed"}
       \subseteq LifecycleStates
    /\ {"none", "alive", "exited", "killed", "reaped"} \subseteq ChildStates
    /\ {"worker", "canceller"} \subseteq Closers
BY DEF StarterPlaces, CloserPlaces, LifecycleStates, ChildStates, Closers

\* One caller of _close_until goes on.
LEMMA CloserSteps ==
    ASSUME NEW c \in [Closers -> Closings], NEW t \in Closers
    PROVE  /\ c[t].gen \in Nat /\ c[t].ok \in BOOLEAN
           /\ \A p \in CloserPlaces, n \in Nat, b \in BOOLEAN :
                /\ [c EXCEPT ![t].pc = p] \in [Closers -> Closings]
                /\ [c EXCEPT ![t] = [@ EXCEPT !.pc = p, !.gen = n]]
                     \in [Closers -> Closings]
                /\ [c EXCEPT ![t] = [@ EXCEPT !.pc = p, !.ok = b]]
                     \in [Closers -> Closings]
           /\ [c EXCEPT ![t] = NotClosing] \in [Closers -> Closings]
<1>1. c[t] \in Closings
  OBVIOUS
<1>2. /\ c[t].gen \in Nat /\ c[t].ok \in BOOLEAN
      /\ \A p \in CloserPlaces, n \in Nat, b \in BOOLEAN :
           /\ [c[t] EXCEPT !.pc = p] \in Closings
           /\ [c[t] EXCEPT !.pc = p, !.gen = n] \in Closings
           /\ [c[t] EXCEPT !.pc = p, !.ok = b] \in Closings
  BY <1>1 DEF Closings
<1>3. NotClosing \in Closings
  BY AdapterPlaces DEF NotClosing, Closings
<1>4. QED
  BY <1>2, <1>3

\* The types of a turn of the loop.
LEMMA CloseLoopTypes ==
    ASSUME TypeOK, NEW t \in Closers, CloseLoop(t)
    PROVE  aria' \in Adapters /\ closer' \in [Closers -> Closings]
<1>1. aria \in Adapters /\ closer \in [Closers -> Closings]
  BY DEF TypeOK, DaemonTypeOK
<1>2. aria.gen \in Nat /\ aria.gen + 1 \in Nat
  BY <1>1 DEF Adapters
<1>3. aria' \in Adapters
  BY <1>1, <1>2, AdapterPlaces DEF CloseLoop, Adapters
<1>4. closer' \in [Closers -> Closings]
  <2>1. CASE closer' = [closer EXCEPT ![t].pc = "starting"]
    BY <1>1, <2>1, CloserSteps, AdapterPlaces
  <2>2. CASE closer' = [closer EXCEPT ![t] =
                          [@ EXCEPT !.pc = "closing", !.gen = aria.gen]]
    BY <1>1, <1>2, <2>2, CloserSteps, AdapterPlaces
  <2>3. CASE closer' = [closer EXCEPT ![t] =
                          [@ EXCEPT !.pc = "returned", !.ok = TRUE]]
    BY <1>1, <2>3, CloserSteps, AdapterPlaces
  <2>4. CASE closer' = [closer EXCEPT ![t] =
                          [@ EXCEPT !.pc = "shutdown", !.gen = aria.gen + 1]]
    BY <1>1, <1>2, <2>4, CloserSteps, AdapterPlaces
  <2>5. QED
    BY <2>1, <2>2, <2>3, <2>4 DEF CloseLoop
<1>5. QED
  BY <1>3, <1>4

-----------------------------------------------------------------------------
(* What the branching steps do to the fields.                              *)

\* The check before an attempt.
LEMMA AttemptEffect ==
    ASSUME DownloadsInv, Attempt
    PROVE  /\ worker.pc = "attempt"
           /\ worker'.pc \in {"exit", "finish", "httpx", "aria2"}
           /\ worker'.pc \in {"exit", "aria2"} => NeedsAria
           /\ worker'.pc = "finish" => ~NeedsAria
           /\ worker'.pc \in {"httpx", "aria2"} => ~queue.stop
           /\ worker'.pc \in {"exit", "finish"} => queue'.cancelled
           /\ worker'.item = worker.item /\ worker'.error = worker.error
           /\ worker'.quiet = worker.quiet
           /\ queue'.op = queue.op /\ queue'.stop = queue.stop
           /\ queue'.backends = queue.backends /\ queue'.store = queue.store
           /\ queue'.summary = queue.summary
           /\ UNCHANGED <<plan, main, canc, httpx, aria, child, starter,
                          closer>>
<1>0. UNCHANGED <<plan, main, canc, httpx, aria, child, starter, closer>>
  BY DEF Attempt, mainVars, daemonVars
<1>1. worker.pc = "attempt" /\ worker \in Workers /\ queue \in Queues
  BY DEF Attempt, AtWorker, DownloadsInv, TypeOK
<1>2. worker.item \in 1..Len(Items)
  BY <1>1, ItemsTypes DEF DownloadsInv, WorkerInStep, InItem, Workers
<1>3. /\ Items[worker.item] \in {"httpx", "aria2"}
      /\ Items[worker.item] = "aria2" => NeedsAria
  BY <1>2, ItemsTypes DEF DownloadsInv, Backends
<1>4. Leave \in {"exit", "finish"} /\ (Leave = "exit" <=> NeedsAria)
  BY DEF Leave
<1>5. CASE queue.stop
  <2>1. /\ worker' = [worker EXCEPT !.pc = Leave]
        /\ queue' = [queue EXCEPT !.cancelled = TRUE]
    BY <1>5 DEF Attempt, GoWorker
  <2>2. QED
    BY <1>0, <1>1, <1>4, <1>5, <2>1 DEF Workers, Queues
<1>6. CASE ~queue.stop
  <2>1. worker' = [worker EXCEPT !.pc = Items[worker.item]] /\ queue' = queue
    BY <1>6 DEF Attempt, GoWorker
  <2>2. QED
    BY <1>0, <1>1, <1>3, <1>6, <2>1 DEF Workers, Queues
<1>7. QED
  BY <1>5, <1>6

\* The head of the loop over the items.
LEMMA NextItemEffect ==
    ASSUME DownloadsInv, NextItem
    PROVE  /\ worker.pc = "next"
           /\ worker'.pc \in {"exit", "finish", "attempt"}
           /\ worker'.pc = "exit" => NeedsAria
           /\ worker'.pc = "finish" => ~NeedsAria
           /\ worker'.pc \in {"exit", "finish"}
              => /\ queue'.cancelled \/ worker'.item = Len(Items)
                 /\ worker'.item = worker.item
           /\ worker'.pc = "attempt"
              => /\ worker'.item = worker.item + 1
                 /\ worker'.item <= Len(Items)
           /\ worker'.error = worker.error /\ worker'.quiet = worker.quiet
           /\ queue.cancelled => queue'.cancelled
           /\ queue'.op = queue.op /\ queue'.stop = queue.stop
           /\ queue'.backends = queue.backends /\ queue'.store = queue.store
           /\ queue'.summary = queue.summary
           /\ UNCHANGED <<plan, main, canc, httpx, aria, child, starter,
                          closer>>
<1>0. UNCHANGED <<plan, main, canc, httpx, aria, child, starter, closer>>
  BY DEF NextItem, mainVars, daemonVars
<1>1. worker.pc = "next" /\ worker \in Workers /\ queue \in Queues
  BY DEF NextItem, AtWorker, DownloadsInv, TypeOK
<1>2. /\ worker.item \in Nat /\ Len(Items) \in Nat
      /\ worker.item <= Len(Items)
  BY <1>1, ItemsTypes DEF DownloadsInv, WorkerInStep, Workers
<1>3. Leave \in {"exit", "finish"} /\ (Leave = "exit" <=> NeedsAria)
  BY DEF Leave
<1>4. CASE worker.item = Len(Items)
  <2>1. worker' = [worker EXCEPT !.pc = Leave] /\ queue' = queue
    BY <1>4 DEF NextItem, GoWorker
  <2>2. QED
    BY <1>0, <1>1, <1>3, <1>4, <2>1 DEF Workers
<1>5. CASE worker.item # Len(Items) /\ queue.stop
  <2>1. /\ worker' = [worker EXCEPT !.pc = Leave]
        /\ queue' = [queue EXCEPT !.cancelled = TRUE]
    BY <1>5 DEF NextItem, GoWorker
  <2>2. QED
    BY <1>0, <1>1, <1>3, <2>1 DEF Workers, Queues
<1>6. CASE worker.item # Len(Items) /\ ~queue.stop
  <2>1. /\ worker' = [worker EXCEPT !.pc = "attempt",
                                    !.item = worker.item + 1]
        /\ queue' = queue
    BY <1>6 DEF NextItem
  <2>2. QED
    BY <1>0, <1>1, <1>2, <1>6, <2>1 DEF Workers
<1>7. QED
  BY <1>4, <1>5, <1>6

\* A caller of _close_until that is woken, or enters.
LEMMA CloseWakesEffect ==
    ASSUME TypeOK, NEW t \in Closers, CloseWakes(t)
    PROVE  /\ child' = child /\ starter' = starter
           /\ \A s \in Closers \ {t} : closer'[s] = closer[s]
           /\ closer[t].pc \in {"enter", "starting", "closing"}
           /\ aria'.owned = aria.owned /\ aria'.cancel = aria.cancel
           /\ aria'.done = aria.done
           /\ \/ /\ closer'[t].pc = "starting" /\ aria.state = "starting"
                 /\ aria'.state = "starting" /\ aria'.gen = aria.gen
                 /\ closer'[t].gen = closer[t].gen
              \/ /\ closer'[t].pc = "closing" /\ aria.state = "closing"
                 /\ aria'.state = "closing" /\ aria'.gen = aria.gen
                 /\ closer'[t].gen = aria.gen
              \/ /\ closer'[t].pc = "returned" /\ ~aria.owned
                 /\ aria.state \notin {"starting", "closing"}
                 /\ aria'.state = "closed" /\ aria'.gen = aria.gen
                 /\ closer'[t].gen = closer[t].gen
              \/ /\ closer'[t].pc = "shutdown" /\ aria.owned
                 /\ aria.state \notin {"starting", "closing"}
                 /\ aria'.state = "closing" /\ aria'.gen = aria.gen + 1
                 /\ closer'[t].gen = aria.gen + 1
              \/ /\ closer[t].pc = "closing" /\ closer'[t].pc = "returned"
                 /\ aria.state # "closing"
                 /\ aria'.state = aria.state /\ aria'.gen = aria.gen
                 /\ closer'[t].gen = closer[t].gen
<1>0. child' = child /\ starter' = starter
  BY DEF CloseWakes
<1>1. /\ aria \in Adapters /\ closer \in [Closers -> Closings]
      /\ closer[t] \in Closings
  BY DEF TypeOK, DaemonTypeOK
<1>2. CASE CloseLoop(t)
  <2>1. closer[t].pc \in {"enter", "starting", "closing"}
    BY <1>2 DEF CloseWakes
  <2>2. CASE /\ aria.state = "starting"
             /\ aria' = [aria EXCEPT !.close = TRUE]
             /\ closer' = [closer EXCEPT ![t].pc = "starting"]
    BY <1>0, <1>1, <2>1, <2>2 DEF Adapters, Closings
  <2>3. CASE /\ aria.state = "closing"
             /\ aria' = [aria EXCEPT !.close = TRUE]
             /\ closer' = [closer EXCEPT ![t] =
                             [@ EXCEPT !.pc = "closing", !.gen = aria.gen]]
    BY <1>0, <1>1, <2>1, <2>3 DEF Adapters, Closings
  <2>4. CASE /\ aria.state \notin {"starting", "closing"} /\ ~aria.owned
             /\ aria' = [aria EXCEPT !.close = TRUE, !.state = "closed",
                                     !.failed = FALSE]
             /\ closer' = [closer EXCEPT ![t] =
                             [@ EXCEPT !.pc = "returned", !.ok = TRUE]]
    BY <1>0, <1>1, <2>1, <2>4 DEF Adapters, Closings
  <2>5. CASE /\ aria.state \notin {"starting", "closing"} /\ aria.owned
             /\ aria' = [aria EXCEPT !.close = TRUE, !.state = "closing",
                                     !.gen = aria.gen + 1, !.failed = FALSE]
             /\ closer' = [closer EXCEPT ![t] =
                       [@ EXCEPT !.pc = "shutdown", !.gen = aria.gen + 1]]
    BY <1>0, <1>1, <2>1, <2>5 DEF Adapters, Closings
  <2>6. QED
    BY <1>1, <1>2, <2>2, <2>3, <2>4, <2>5 DEF CloseLoop, Adapters
<1>3. CASE /\ closer[t].pc = "closing" /\ aria.state # "closing"
           /\ closer' = [closer EXCEPT ![t] =
                           [@ EXCEPT !.pc = "returned", !.ok = ~aria.failed]]
           /\ aria' = aria
  BY <1>0, <1>1, <1>3 DEF Adapters, Closings
<1>4. QED
  BY <1>2, <1>3 DEF CloseWakes

\* The process is ended, or outlives the attempt.
LEMMA ShutdownEffect ==
    ASSUME TypeOK, NEW t \in Closers, ShutdownProcess(t)
    PROVE  /\ aria' = aria /\ starter' = starter
           /\ \A s \in Closers \ {t} : closer'[s] = closer[s]
           /\ closer[t].pc = "shutdown" /\ closer'[t].pc = "publish"
           /\ closer'[t].gen = closer[t].gen
           /\ \/ child' = "reaped"
              \/ /\ child' = "killed" /\ child # "none" /\ ~closer'[t].ok
                 /\ child # "reaped"
<1>1. closer \in [Closers -> Closings] /\ closer[t] \in Closings
  BY DEF TypeOK, DaemonTypeOK
<1>2. CASE /\ child' = "reaped"
           /\ closer' = [closer EXCEPT ![t] =
                           [@ EXCEPT !.pc = "publish", !.ok = TRUE]]
  BY <1>1, <1>2 DEF ShutdownProcess, Closings
<1>3. CASE /\ Running /\ child' = "killed"
           /\ closer' = [closer EXCEPT ![t] =
                           [@ EXCEPT !.pc = "publish", !.ok = FALSE]]
  BY <1>1, <1>3 DEF ShutdownProcess, Closings, Running
<1>4. aria' = aria /\ starter' = starter
  BY DEF ShutdownProcess
<1>5. QED
  BY <1>2, <1>3, <1>4 DEF ShutdownProcess

\* A forced cancellation leaves the state of the daemon as it is.
LEMMA ForceCancelEffect ==
    ASSUME TypeOK, ForceCancel
    PROVE  /\ aria'.state = aria.state /\ aria'.owned = aria.owned
           /\ aria'.gen = aria.gen /\ aria'.done = aria.done
           /\ aria.cancel => aria'.cancel
           /\ child' = child /\ starter' = starter /\ closer' = closer
           /\ worker' = worker /\ queue' = queue /\ plan' = plan
           /\ canc' = canc
<1>1. aria \in Adapters
  BY DEF TypeOK, DaemonTypeOK
<1>2. aria' = aria \/ aria' = [aria EXCEPT !.cancel = TRUE, !.close = TRUE]
  BY DEF ForceCancel
<1>3. aria.cancel => aria'.cancel
  BY <1>1, <1>2 DEF Adapters
<1>4. QED
  BY <1>1, <1>2, <1>3 DEF ForceCancel, Adapters, Inputs

-----------------------------------------------------------------------------
(* Every step keeps the invariant, part by part.                            *)

\* The types are kept.
LEMMA TypesStep == DownloadsInv /\ [Next]_vars => TypeOK'
<1> SUFFICES ASSUME DownloadsInv, TypeOK, [Next]_vars PROVE TypeOK'
  BY DEF DownloadsInv
<1>1. /\ plan \in Plans /\ signal \in BOOLEAN /\ httpx \in BOOLEAN
      /\ main \in Mains /\ queue \in Queues
      /\ worker \in Workers /\ canc \in Cancellers
  BY DEF TypeOK
<1>2. /\ aria \in Adapters /\ child \in ChildStates
      /\ starter \in StarterPlaces /\ closer \in [Closers -> Closings]
  BY DEF TypeOK, DaemonTypeOK
<1>3. CASE Reconcile
  <2>1. worker' \in Workers
    BY <1>3, <1>1, PlacesAre
    DEF Reconcile, GoWorker, AtWorker, GoMain, Workers
  <2>2. QED
    BY <1>3, <1>1, <1>2, <2>1
    DEF TypeOK, DaemonTypeOK, Reconcile, mainVars, daemonVars
<1>4. CASE Register
  <2>1. worker' \in Workers
    BY <1>4, <1>1, PlacesAre
    DEF Register, GoWorker, AtWorker, GoMain, Workers
  <2>2. queue' \in Queues
    BY <1>4, <1>1, PlacesAre
    DEF Register, GoWorker, AtWorker, GoMain, Queues
  <2>3. starter' \in StarterPlaces
    BY <1>4, <1>2, AdapterPlaces
    DEF Register, GoWorker, AtWorker, GoMain
  <2>4. QED
    BY <1>4, <1>1, <1>2, <2>1, <2>2, <2>3
    DEF TypeOK, DaemonTypeOK, Register, mainVars, daemonVars
<1>5. CASE Prepared
  <2>1. worker' \in Workers
    BY <1>5, <1>1, PlacesAre
    DEF Prepared, GoWorker, AtWorker, GoMain, Workers
  <2>2. starter' \in StarterPlaces
    BY <1>5, <1>2, AdapterPlaces
    DEF Prepared, GoWorker, AtWorker, GoMain
  <2>3. QED
    BY <1>5, <1>1, <1>2, <2>1, <2>2
    DEF TypeOK, DaemonTypeOK, Prepared, mainVars, daemonVars
<1>6. CASE Accept
  <2>1. worker' \in Workers
    BY <1>6, <1>1, PlacesAre
    DEF Accept, GoWorker, AtWorker, GoMain, Workers
  <2>2. queue' \in Queues
    BY <1>6, <1>1, PlacesAre
    DEF Accept, GoWorker, AtWorker, GoMain, Queues
  <2>3. QED
    BY <1>6, <1>1, <1>2, <2>1, <2>2
    DEF TypeOK, DaemonTypeOK, Accept, mainVars, daemonVars
<1>7. CASE NextItem
  <2>1. worker' \in Workers
    <3>1. worker.item \in Nat /\ worker.item + 1 \in Nat
      BY <1>1 DEF Workers
    <3>2. worker' = [worker EXCEPT !.pc = Leave]
          \/ worker' = [worker EXCEPT !.pc = "attempt",
                                      !.item = worker.item + 1]
      BY <1>7 DEF NextItem, GoWorker
    <3>3. Leave \in WorkerPlaces
      BY PlacesAre DEF Leave
    <3>4. QED
      BY <1>1, <3>1, <3>2, <3>3, PlacesAre DEF Workers
  <2>2. queue' \in Queues
    BY <1>7, <1>1, PlacesAre
    DEF NextItem, Leave, GoWorker, AtWorker, GoMain, Queues
  <2>3. QED
    BY <1>7, <1>1, <1>2, <2>1, <2>2
    DEF TypeOK, DaemonTypeOK, NextItem, Leave, mainVars, daemonVars
<1>8. CASE Attempt
  <2>1. worker' \in Workers
    <3>1. worker' = [worker EXCEPT !.pc = Leave]
          \/ worker' = [worker EXCEPT !.pc = Items[worker.item]]
      BY <1>8 DEF Attempt, GoWorker
    <3>2. Leave \in WorkerPlaces /\ Items[worker.item] \in WorkerPlaces
      <4>1. worker.item \in 1..Len(Items)
        BY <1>8, ItemsTypes DEF DownloadsInv, WorkerInStep, InItem, Attempt,
             AtWorker, TypeOK, Workers
      <4>2. QED
        BY <4>1, ItemsTypes, PlacesAre DEF Leave, Backends
    <3>3. QED
      BY <1>1, <3>1, <3>2 DEF Workers
  <2>2. queue' \in Queues
    BY <1>8, <1>1, PlacesAre
    DEF Attempt, Leave, GoWorker, AtWorker, GoMain, Queues
  <2>3. QED
    BY <1>8, <1>1, <1>2, <2>1, <2>2
    DEF TypeOK, DaemonTypeOK, Attempt, Leave, mainVars, daemonVars
<1>9. CASE HttpxEnters
  <2>1. worker' \in Workers
    BY <1>9, <1>1, PlacesAre, ConcludedFields
    DEF HttpxEnters, GoWorker, AtWorker, GoMain, Workers
  <2>2. queue' \in Queues
    BY <1>9, <1>1, PlacesAre, ConcludedFields
    DEF HttpxEnters, GoWorker, AtWorker, GoMain, Queues
  <2>3. QED
    BY <1>9, <1>1, <1>2, <2>1, <2>2
    DEF TypeOK, DaemonTypeOK, HttpxEnters, mainVars, daemonVars
<1>10. CASE HttpxRuns
  <2>1. worker' \in Workers
    <3>1. CASE Concluded("cancelled")
      BY <3>1, ConcludedFields
    <3>2. ASSUME NEW o \in {"success", "failed", "retryable"},
                 worker' = [worker EXCEPT !.pc = "h_end", !.why = o]
          PROVE  worker' \in Workers
      <4>1. "h_end" \in WorkerPlaces /\ o \in Outcomes
        BY PlacesAre
      <4>2. QED
        BY <1>1, <3>2, <4>1 DEF Workers
    <3>3. QED
      BY <1>10, <3>1, <3>2 DEF HttpxRuns
  <2>2. queue' \in Queues
    BY <1>10, <1>1, PlacesAre, ConcludedFields
    DEF HttpxRuns, GoWorker, AtWorker, GoMain, Queues
  <2>3. QED
    BY <1>10, <1>1, <1>2, <2>1, <2>2
    DEF TypeOK, DaemonTypeOK, HttpxRuns, mainVars, daemonVars
<1>11. CASE HttpxEnds
  <2>1. worker' \in Workers
    BY <1>11, <1>1, PlacesAre, ConcludedFields
    DEF HttpxEnds, GoWorker, AtWorker, GoMain, Workers
  <2>2. queue' \in Queues
    BY <1>11, <1>1, PlacesAre, ConcludedFields
    DEF HttpxEnds, GoWorker, AtWorker, GoMain, Queues
  <2>3. QED
    BY <1>11, <1>1, <1>2, <2>1, <2>2
    DEF TypeOK, DaemonTypeOK, HttpxEnds, mainVars, daemonVars
<1>12. CASE AriaEnters
  <2>1. worker' \in Workers
    BY <1>12, <1>1, PlacesAre
    DEF AriaEnters, GoWorker, AtWorker, GoMain, Workers
  <2>2. starter' \in StarterPlaces
    BY <1>12, <1>2, AdapterPlaces
    DEF AriaEnters, GoWorker, AtWorker, GoMain
  <2>3. QED
    BY <1>12, <1>1, <1>2, <2>1, <2>2
    DEF TypeOK, DaemonTypeOK, AriaEnters, mainVars, daemonVars
<1>13. CASE AriaEnsured
  <2>1. worker' \in Workers
    BY <1>13, <1>1, PlacesAre, ConcludedFields
    DEF AriaEnsured, GoWorker, AtWorker, GoMain, Workers
  <2>2. queue' \in Queues
    BY <1>13, <1>1, PlacesAre, ConcludedFields
    DEF AriaEnsured, GoWorker, AtWorker, GoMain, Queues
  <2>3. starter' \in StarterPlaces
    BY <1>13, <1>2, AdapterPlaces
    DEF AriaEnsured, GoWorker, AtWorker, GoMain
  <2>4. QED
    BY <1>13, <1>1, <1>2, <2>1, <2>2, <2>3
    DEF TypeOK, DaemonTypeOK, AriaEnsured, mainVars, daemonVars
<1>14. CASE AriaRuns
  <2>1. worker' \in Workers
    BY <1>14, <1>1, PlacesAre, ConcludedFields
    DEF AriaRuns, Polled, GoWorker, AtWorker, GoMain, Workers
  <2>2. queue' \in Queues
    BY <1>14, <1>1, PlacesAre, ConcludedFields
    DEF AriaRuns, Polled, GoWorker, AtWorker, GoMain, Queues
  <2>3. child' \in ChildStates
    BY <1>14, <1>2, AdapterPlaces
    DEF AriaRuns, Polled, GoWorker, AtWorker, GoMain
  <2>4. closer' \in [Closers -> Closings]
    <3>1. closer' = closer
          \/ closer' = [closer EXCEPT !["worker"].pc = "enter"]
      BY <1>14 DEF AriaRuns
    <3>2. CASE closer' = [closer EXCEPT !["worker"].pc = "enter"]
      BY <1>2, <3>2, CloserSteps, AdapterPlaces
    <3>3. QED
      BY <1>2, <3>1, <3>2
  <2>5. QED
    BY <1>14, <1>1, <1>2, <2>1, <2>2, <2>3, <2>4
    DEF TypeOK, DaemonTypeOK, AriaRuns, Polled, mainVars, daemonVars
<1>15. CASE Quiesce
  <2>1. worker' \in Workers
    BY <1>15, <1>1, PlacesAre, ConcludedFields
    DEF Quiesce, GoWorker, AtWorker, GoMain, Workers
  <2>2. queue' \in Queues
    BY <1>15, <1>1, PlacesAre, ConcludedFields
    DEF Quiesce, GoWorker, AtWorker, GoMain, Queues
  <2>3. QED
    BY <1>15, <1>1, <1>2, <2>1, <2>2
    DEF TypeOK, DaemonTypeOK, Quiesce, mainVars, daemonVars
<1>16. CASE Reaped
  <2>1. worker' \in Workers
    BY <1>16, <1>1, PlacesAre, ConcludedFields
    DEF Reaped, NotClosing, GoWorker, AtWorker, GoMain, Workers
  <2>2. queue' \in Queues
    BY <1>16, <1>1, PlacesAre, ConcludedFields
    DEF Reaped, NotClosing, GoWorker, AtWorker, GoMain, Queues
  <2>3. closer' \in [Closers -> Closings]
    BY <1>16, <1>2, AdapterPlaces, CloserSteps
    DEF Reaped, NotClosing, GoWorker, AtWorker, GoMain
  <2>4. QED
    BY <1>16, <1>1, <1>2, <2>1, <2>2, <2>3
    DEF TypeOK, DaemonTypeOK, Reaped, NotClosing, mainVars, daemonVars
<1>17. CASE Exit
  <2>1. worker' \in Workers
    BY <1>17, <1>1, PlacesAre
    DEF Exit, NotClosing, GoWorker, AtWorker, GoMain, Workers
  <2>2. closer' \in [Closers -> Closings]
    <3>1. closer' = [closer EXCEPT !["worker"] = NotClosing]
          \/ closer' = [closer EXCEPT !["worker"].pc = "enter"]
      BY <1>17 DEF Exit
    <3>2. CASE closer' = [closer EXCEPT !["worker"].pc = "enter"]
      BY <1>2, <3>2, CloserSteps, AdapterPlaces
    <3>3. CASE closer' = [closer EXCEPT !["worker"] = NotClosing]
      BY <1>2, <3>3, CloserSteps, AdapterPlaces
    <3>4. QED
      BY <3>1, <3>2, <3>3
  <2>3. QED
    BY <1>17, <1>1, <1>2, <2>1, <2>2
    DEF TypeOK, DaemonTypeOK, Exit, NotClosing, mainVars, daemonVars
<1>18. CASE Finish
  <2>1. worker' \in Workers
    BY <1>18, <1>1, PlacesAre
    DEF Finish, GoWorker, AtWorker, GoMain, Workers
  <2>2. queue' \in Queues
    BY <1>18, <1>1, PlacesAre
    DEF Finish, GoWorker, AtWorker, GoMain, Queues
  <2>3. QED
    BY <1>18, <1>1, <1>2, <2>1, <2>2
    DEF TypeOK, DaemonTypeOK, Finish, mainVars, daemonVars
<1>19. ASSUME EnsureStarted,
             UNCHANGED <<mainVars, queue, worker, canc, httpx>>
      PROVE  TypeOK'
  <2>1. starter' \in StarterPlaces
    BY <1>19, <1>2, AdapterPlaces
    DEF EnsureStarted, Polled
  <2>2. aria' \in Adapters
    BY <1>19, <1>2, AdapterPlaces
    DEF EnsureStarted, Polled, Adapters
  <2>3. child' \in ChildStates
    BY <1>19, <1>2, AdapterPlaces
    DEF EnsureStarted, Polled
  <2>4. QED
    BY <1>19, <1>1, <1>2, <2>1, <2>2, <2>3
    DEF TypeOK, DaemonTypeOK, EnsureStarted, Polled, mainVars
<1>20. ASSUME SpawnFails,
             UNCHANGED <<mainVars, queue, worker, canc, httpx>>
      PROVE  TypeOK'
  <2>1. aria' \in Adapters
    BY <1>20, <1>2, AdapterPlaces
    DEF SpawnFails, Adapters
  <2>2. starter' \in StarterPlaces
    BY <1>20, <1>2, AdapterPlaces
    DEF SpawnFails
  <2>3. QED
    BY <1>20, <1>1, <1>2, <2>1, <2>2
    DEF TypeOK, DaemonTypeOK, SpawnFails, mainVars
<1>21. ASSUME Spawn,
             UNCHANGED <<mainVars, queue, worker, canc, httpx>>
      PROVE  TypeOK'
  <2>1. child' \in ChildStates
    BY <1>21, <1>2, AdapterPlaces
    DEF Spawn
  <2>2. starter' \in StarterPlaces
    BY <1>21, <1>2, AdapterPlaces
    DEF Spawn
  <2>3. QED
    BY <1>21, <1>1, <1>2, <2>1, <2>2
    DEF TypeOK, DaemonTypeOK, Spawn, mainVars
<1>22. ASSUME PublishChild,
             UNCHANGED <<mainVars, queue, worker, canc, httpx>>
      PROVE  TypeOK'
  <2>1. aria' \in Adapters
    BY <1>22, <1>2, AdapterPlaces
    DEF PublishChild, Adapters
  <2>2. starter' \in StarterPlaces
    BY <1>22, <1>2, AdapterPlaces
    DEF PublishChild
  <2>3. QED
    BY <1>22, <1>1, <1>2, <2>1, <2>2
    DEF TypeOK, DaemonTypeOK, PublishChild, mainVars
<1>23. ASSUME BecomeReady,
             UNCHANGED <<mainVars, queue, worker, canc, httpx>>
      PROVE  TypeOK'
  <2>1. aria' \in Adapters
    BY <1>23, <1>2, AdapterPlaces
    DEF BecomeReady, Adapters
  <2>2. starter' \in StarterPlaces
    BY <1>23, <1>2, AdapterPlaces
    DEF BecomeReady
  <2>3. QED
    BY <1>23, <1>1, <1>2, <2>1, <2>2
    DEF TypeOK, DaemonTypeOK, BecomeReady, mainVars
<1>24. ASSUME StartFails,
             UNCHANGED <<mainVars, queue, worker, canc, httpx>>
      PROVE  TypeOK'
  <2>1. child' \in ChildStates
    BY <1>24, <1>2, AdapterPlaces
    DEF StartFails, Polled
  <2>2. starter' \in StarterPlaces
    BY <1>24, <1>2, AdapterPlaces
    DEF StartFails, Polled
  <2>3. QED
    BY <1>24, <1>1, <1>2, <2>1, <2>2
    DEF TypeOK, DaemonTypeOK, StartFails, Polled, mainVars
<1>25. ASSUME PublishFailedStart,
             UNCHANGED <<mainVars, queue, worker, canc, httpx>>
      PROVE  TypeOK'
  <2>1. aria' \in Adapters
    BY <1>25, <1>2, AdapterPlaces
    DEF PublishFailedStart, Adapters
  <2>2. closer' \in [Closers -> Closings]
    BY <1>25, <1>2, AdapterPlaces, CloserSteps
    DEF PublishFailedStart
  <2>3. QED
    BY <1>25, <1>1, <1>2, <2>1, <2>2
    DEF TypeOK, DaemonTypeOK, PublishFailedStart, mainVars
<1>26. ASSUME CloseFailedStart,
             UNCHANGED <<mainVars, queue, worker, canc, httpx>>
      PROVE  TypeOK'
  <2>1. closer' \in [Closers -> Closings]
    BY <1>26, <1>2, AdapterPlaces, CloserSteps
    DEF CloseFailedStart, NotClosing
  <2>2. starter' \in StarterPlaces
    BY <1>26, <1>2, AdapterPlaces
    DEF CloseFailedStart, NotClosing
  <2>3. QED
    BY <1>26, <1>1, <1>2, <2>1, <2>2
    DEF TypeOK, DaemonTypeOK, CloseFailedStart, NotClosing, mainVars
<1>27. ASSUME NEW t \in Closers, CloseWakes(t),
             UNCHANGED <<mainVars, queue, worker, canc, httpx>>
      PROVE  TypeOK'
  <2>1. aria' \in Adapters
    BY <1>27, <1>2, AdapterPlaces, CloseLoopTypes
    DEF CloseWakes
  <2>2. closer' \in [Closers -> Closings]
    <3>1. CASE CloseLoop(t)
      BY <1>1, <1>2, <3>1, CloseLoopTypes DEF TypeOK, DaemonTypeOK
    <3>2. CASE closer' = [closer EXCEPT ![t] =
                 [@ EXCEPT !.pc = "returned", !.ok = ~aria.failed]]
      <4>1. PICK b \in BOOLEAN : b = ~aria.failed
        OBVIOUS
      <4>2. closer' = [closer EXCEPT ![t] =
                         [@ EXCEPT !.pc = "returned", !.ok = b]]
        BY <3>2, <4>1
      <4>3. QED
        BY <1>2, <4>2, CloserSteps, AdapterPlaces
    <3>3. QED
      BY <1>27, <3>1, <3>2 DEF CloseWakes
  <2>3. QED
    BY <1>27, <1>1, <1>2, <2>1, <2>2
    DEF TypeOK, DaemonTypeOK, CloseWakes, CloseLoop, mainVars
<1>28. ASSUME NEW t \in Closers, CloseGivesUp(t),
             UNCHANGED <<mainVars, queue, worker, canc, httpx>>
      PROVE  TypeOK'
  <2>1. closer' \in [Closers -> Closings]
    BY <1>28, <1>2, AdapterPlaces, CloserSteps
    DEF CloseGivesUp
  <2>2. QED
    BY <1>28, <1>1, <1>2, <2>1
    DEF TypeOK, DaemonTypeOK, CloseGivesUp, mainVars
<1>29. ASSUME NEW t \in Closers, ShutdownProcess(t),
             UNCHANGED <<mainVars, queue, worker, canc, httpx>>
      PROVE  TypeOK'
  <2>1. child' \in ChildStates
    BY <1>29, <1>2, AdapterPlaces
    DEF ShutdownProcess, Running
  <2>2. closer' \in [Closers -> Closings]
    <3>1. CASE closer' = [closer EXCEPT ![t] =
                            [@ EXCEPT !.pc = "publish", !.ok = TRUE]]
      BY <1>2, <3>1, CloserSteps, AdapterPlaces
    <3>2. CASE closer' = [closer EXCEPT ![t] =
                            [@ EXCEPT !.pc = "publish", !.ok = FALSE]]
      BY <1>2, <3>2, CloserSteps, AdapterPlaces
    <3>3. QED
      BY <1>29, <3>1, <3>2 DEF ShutdownProcess
  <2>3. QED
    BY <1>29, <1>1, <1>2, <2>1, <2>2
    DEF TypeOK, DaemonTypeOK, ShutdownProcess, Running, mainVars
<1>30. ASSUME NEW t \in Closers, PublishTeardown(t),
             UNCHANGED <<mainVars, queue, worker, canc, httpx>>
      PROVE  TypeOK'
  <2>1. aria' \in Adapters
    <3>1. closer[t].gen \in Nat /\ closer[t].ok \in BOOLEAN
      BY <1>2, CloserSteps
    <3>2. QED
      BY <1>2, <1>30, <3>1, AdapterPlaces DEF PublishTeardown, Adapters
  <2>2. closer' \in [Closers -> Closings]
    BY <1>30, <1>2, AdapterPlaces, CloserSteps
    DEF PublishTeardown
  <2>3. QED
    BY <1>30, <1>1, <1>2, <2>1, <2>2
    DEF TypeOK, DaemonTypeOK, PublishTeardown, mainVars
<1>31. CASE CancelHttpx
  <2>1. httpx' \in BOOLEAN
    BY <1>31, <1>1, PlacesAre
    DEF CancelHttpx
  <2>2. canc' \in Cancellers
    BY <1>31, <1>1, PlacesAre
    DEF CancelHttpx, Cancellers
  <2>3. QED
    BY <1>31, <1>1, <1>2, <2>1, <2>2
    DEF TypeOK, DaemonTypeOK, CancelHttpx, Inputs, Backs, mainVars,
         daemonVars
<1>32. CASE CancelAria
  <2>1. aria' \in Adapters
    BY <1>32, <1>2, AdapterPlaces
    DEF CancelAria, Adapters
  <2>2. closer' \in [Closers -> Closings]
    BY <1>32, <1>2, AdapterPlaces, CloserSteps
    DEF CancelAria
  <2>3. canc' \in Cancellers
    BY <1>32, <1>1, PlacesAre
    DEF CancelAria, Cancellers
  <2>4. QED
    BY <1>32, <1>1, <1>2, <2>1, <2>2, <2>3
    DEF TypeOK, DaemonTypeOK, CancelAria, Inputs, Backs, mainVars,
         daemonVars
<1>33. CASE CancellerEnds
  <2>1. canc' \in Cancellers
    BY <1>33, <1>1, PlacesAre
    DEF CancellerEnds, Cancellers
  <2>2. QED
    BY <1>33, <1>1, <1>2, <2>1
    DEF TypeOK, DaemonTypeOK, CancellerEnds, Inputs, Backs, mainVars,
         daemonVars
<1>34. CASE Activate
  <2>1. queue' \in Queues
    BY <1>34, <1>1, PlacesAre
    DEF Activate, NoQueue, NoWorker, Queues
  <2>2. worker' \in Workers
    BY <1>34, <1>1, PlacesAre
    DEF Activate, NoQueue, NoWorker, Workers
  <2>3. main' \in Mains
    BY <1>34, <1>1, PlacesAre
    DEF Activate, NoQueue, NoWorker, GoWorker, AtWorker, GoMain, Mains
  <2>4. QED
    BY <1>34, <1>1, <1>2, <2>1, <2>2, <2>3
    DEF TypeOK, DaemonTypeOK, Activate, NoQueue, NoWorker, Inputs, Backs,
         mainVars, daemonVars
<1>35. CASE Activated
  <2>1. main' \in Mains
    BY <1>35, <1>1, PlacesAre
    DEF Activated, GoWorker, AtWorker, GoMain, Mains
  <2>2. QED
    BY <1>35, <1>1, <1>2, <2>1
    DEF TypeOK, DaemonTypeOK, Activated, Inputs, Backs, mainVars, daemonVars
<1>36. CASE StartAsync
  <2>1. main' \in Mains
    BY <1>36, <1>1, PlacesAre
    DEF StartAsync, NoQueue, NoWorker, NoCanceller, NewAria, NotClosing,
        GoWorker, AtWorker, GoMain, Mains, Backs, daemonVars
  <2>2. queue' \in Queues
    BY <1>36, <1>1, PlacesAre
    DEF StartAsync, NoQueue, NoWorker, NoCanceller, NewAria, NotClosing,
        Queues, Backs, daemonVars
  <2>3. worker' \in Workers
    <3>1. worker' = worker
          \/ worker' = [pc |-> "register", item |-> 0, error |-> FALSE,
                        why |-> "none", quiet |-> FALSE]
      BY <1>36 DEF StartAsync, NoWorker
    <3>2. [pc |-> "register", item |-> 0, error |-> FALSE,
           why |-> "none", quiet |-> FALSE] \in Workers
      BY PlacesAre DEF Workers
    <3>3. QED
      BY <1>1, <3>1, <3>2
  <2>4. canc' \in Cancellers
    BY <1>36, <1>1, PlacesAre
    DEF StartAsync, NoQueue, NoWorker, NoCanceller, NewAria, NotClosing,
        Cancellers, Backs, daemonVars
  <2>5. httpx' \in BOOLEAN
    BY <1>36, <1>1, PlacesAre
    DEF StartAsync, NoQueue, NoWorker, NoCanceller, NewAria, NotClosing,
        Backs, daemonVars
  <2>6. aria' \in Adapters
    <3>1. NewAria \in Adapters
      BY AdapterPlaces DEF NewAria, Adapters
    <3>2. QED
      BY <1>36, <1>2, <3>1 DEF StartAsync, Backs, daemonVars
  <2>7. child' \in ChildStates
    BY <1>36, <1>2, AdapterPlaces
    DEF StartAsync, NoQueue, NoWorker, NoCanceller, NewAria, NotClosing,
        Backs, daemonVars
  <2>8. starter' \in StarterPlaces
    BY <1>36, <1>2, AdapterPlaces
    DEF StartAsync, NoQueue, NoWorker, NoCanceller, NewAria, NotClosing,
        Backs, daemonVars
  <2>9. closer' \in [Closers -> Closings]
    <3>1. NotClosing \in Closings
      BY AdapterPlaces DEF NotClosing, Closings
    <3>2. QED
      BY <1>36, <1>2, <3>1 DEF StartAsync, Backs, daemonVars
  <2>10. QED
    BY <1>36, <1>1, <1>2, <2>1, <2>2, <2>3, <2>4, <2>5, <2>6, <2>7, <2>8, <2>9
    DEF TypeOK, DaemonTypeOK, StartAsync, NoQueue, NoWorker, NoCanceller,
         NewAria, NotClosing, Inputs, Backs, mainVars, daemonVars
<1>37. CASE Admitted
  <2>1. main' \in Mains
    BY <1>37, <1>1, PlacesAre
    DEF Admitted, GoWorker, AtWorker, GoMain, Mains
  <2>2. QED
    BY <1>37, <1>1, <1>2, <2>1
    DEF TypeOK, DaemonTypeOK, Admitted, Inputs, Backs, mainVars, daemonVars
<1>38. CASE RequestStop
  <2>1. queue' \in Queues
    BY <1>38, <1>1, PlacesAre
    DEF RequestStop, SetStop, Snapshot, Queues
  <2>2. main' \in Mains
    BY <1>38, <1>1, PlacesAre
    DEF RequestStop, SetStop, Snapshot, GoWorker, AtWorker, GoMain, Mains
  <2>3. canc' \in Cancellers
    <3>1. queue.backends \subseteq Backends
      BY <1>1 DEF Queues
    <3>2. canc' = canc \/ canc' = [pc |-> "run", todo |-> queue.backends]
      BY <1>38 DEF RequestStop, Snapshot
    <3>3. QED
      BY <1>1, <3>1, <3>2 DEF Cancellers
  <2>4. QED
    BY <1>38, <1>1, <1>2, <2>1, <2>2, <2>3
    DEF TypeOK, DaemonTypeOK, RequestStop, SetStop, Snapshot, Inputs, Backs,
         mainVars, daemonVars
<1>39. CASE Wait
  <2>1. main' \in Mains
    BY <1>39, <1>1, PlacesAre
    DEF Wait, GoWorker, AtWorker, GoMain, Mains
  <2>2. QED
    BY <1>39, <1>1, <1>2, <2>1
    DEF TypeOK, DaemonTypeOK, Wait, Inputs, Backs, mainVars, daemonVars
<1>40. CASE ForceCancel
  <2>1. httpx' \in BOOLEAN
    BY <1>40, <1>1, PlacesAre
    DEF ForceCancel
  <2>2. aria' \in Adapters
    BY <1>40, <1>2, AdapterPlaces
    DEF ForceCancel, Adapters
  <2>3. main' \in Mains
    BY <1>40, <1>1, PlacesAre
    DEF ForceCancel, GoWorker, AtWorker, GoMain, Mains
  <2>4. QED
    BY <1>40, <1>1, <1>2, <2>1, <2>2, <2>3
    DEF TypeOK, DaemonTypeOK, ForceCancel, Inputs, Backs, mainVars,
         daemonVars
<1>41. CASE Kill
  <2>1. child' \in ChildStates
    BY <1>41, <1>2, AdapterPlaces
    DEF Kill, Polled
  <2>2. main' \in Mains
    BY <1>41, <1>1, PlacesAre
    DEF Kill, Polled, GoWorker, AtWorker, GoMain, Mains
  <2>3. QED
    BY <1>41, <1>1, <1>2, <2>1, <2>2
    DEF TypeOK, DaemonTypeOK, Kill, Polled, Inputs, Backs, mainVars,
         daemonVars
<1>42. CASE BeginStop
  <2>1. main' \in Mains
    BY <1>42, <1>1, PlacesAre
    DEF BeginStop, GoWorker, AtWorker, GoMain, Mains
  <2>2. QED
    BY <1>42, <1>1, <1>2, <2>1
    DEF TypeOK, DaemonTypeOK, BeginStop, Inputs, Backs, mainVars, daemonVars
<1>43. CASE ReceiveSignal
  <2>1. signal' \in BOOLEAN
    BY <1>43, <1>1, PlacesAre
    DEF ReceiveSignal
  <2>2. QED
    BY <1>43, <1>1, <1>2, <2>1
    DEF TypeOK, DaemonTypeOK, ReceiveSignal, Inputs, Backs, mainVars,
         daemonVars
<1>44. CASE DaemonExits
  <2>1. child' \in ChildStates
    BY <1>44, <1>2, AdapterPlaces
    DEF DaemonExits, ChildExits, Running
  <2>2. QED
    BY <1>44, <1>1, <1>2, <2>1
    DEF TypeOK, DaemonTypeOK, DaemonExits, ChildExits, Running, Inputs,
         Backs, mainVars, daemonVars
<1>45. CASE UNCHANGED vars
  BY <1>45 DEF TypeOK, DaemonTypeOK, vars, daemonVars
<1>46. QED
  BY <1>3, <1>4, <1>5, <1>6, <1>7, <1>8, <1>9, <1>10, <1>11, <1>12, <1>13,
     <1>14, <1>15, <1>16, <1>17, <1>18, <1>19, <1>20, <1>21, <1>22, <1>23,
     <1>24, <1>25, <1>26, <1>27, <1>28, <1>29, <1>30, <1>31, <1>32, <1>33,
     <1>34, <1>35, <1>36, <1>37, <1>38, <1>39, <1>40, <1>41, <1>42, <1>43,
     <1>44, <1>45
  DEF Next, Work, Cancel, Manage, StartDaemon, StartStep, CloseDaemon,
      CloseStep, Closers

\* The main thread and its threads keep step.
LEMMA MainInStepKept == DownloadsInv /\ [Next]_vars => MainInStep'
<1> SUFFICES ASSUME DownloadsInv, [Next]_vars PROVE MainInStep'
  OBVIOUS
<1> USE DEF DownloadsInv, TypeOK, DaemonTypeOK, Workers, Queues, Mains,
            Cancellers, Adapters, Closings, MainInStep, WorkerAlive,
            CancellerAlive, GoWorker, AtWorker, GoMain, mainVars, daemonVars,
            Inputs, Backs
<1>1. CASE Reconcile
  BY <1>1, ItemsTypes DEF Reconcile
<1>2. CASE Register
  BY <1>2, ItemsTypes DEF Register
<1>3. CASE Prepared
  BY <1>3, ItemsTypes DEF Prepared
<1>4. CASE Accept
  BY <1>4, ItemsTypes DEF Accept
<1>5. CASE NextItem
  BY <1>5, ItemsTypes, NextItemEffect
<1>6. CASE Attempt
  BY <1>6, ItemsTypes, AttemptEffect
<1>7. CASE HttpxEnters
  BY <1>7, ItemsTypes, ConcludedFields DEF HttpxEnters
<1>8. CASE HttpxRuns
  BY <1>8, ItemsTypes, ConcludedFields DEF HttpxRuns
<1>9. CASE HttpxEnds
  BY <1>9, ItemsTypes, ConcludedFields DEF HttpxEnds
<1>10. CASE AriaEnters
  BY <1>10, ItemsTypes DEF AriaEnters
<1>11. CASE AriaEnsured
  BY <1>11, ItemsTypes, ConcludedFields DEF AriaEnsured
<1>12. CASE AriaRuns
  BY <1>12, ItemsTypes, ConcludedFields DEF AriaRuns, Polled
<1>13. CASE Quiesce
  BY <1>13, ItemsTypes, ConcludedFields DEF Quiesce
<1>14. CASE Reaped
  BY <1>14, ItemsTypes, ConcludedFields DEF Reaped, NotClosing
<1>15. CASE Exit
  BY <1>15, ItemsTypes DEF Exit, NotClosing
<1>16. CASE Finish
  BY <1>16, ItemsTypes DEF Finish
<1>17. CASE StartDaemon
  BY <1>17, ItemsTypes DEF StartDaemon
<1>18. ASSUME NEW t \in Closers, CloseDaemon(t)
      PROVE  MainInStep'
  BY <1>18, ItemsTypes DEF CloseDaemon
<1>19. CASE CancelHttpx
  BY <1>19, ItemsTypes DEF CancelHttpx
<1>20. CASE CancelAria
  BY <1>20, ItemsTypes DEF CancelAria
<1>21. CASE CancellerEnds
  BY <1>21, ItemsTypes DEF CancellerEnds
<1>22. CASE Activate
  BY <1>22, ItemsTypes DEF Activate, NoQueue, NoWorker
<1>23. CASE Activated
  BY <1>23, ItemsTypes DEF Activated
<1>24. CASE StartAsync
  BY <1>24, ItemsTypes
  DEF StartAsync, NoQueue, NoWorker, NoCanceller, NewAria, NotClosing
<1>25. CASE Admitted
  BY <1>25, ItemsTypes DEF Admitted
<1>26. CASE RequestStop
  BY <1>26, ItemsTypes DEF RequestStop, SetStop, Snapshot
<1>27. CASE Wait
  BY <1>27, ItemsTypes DEF Wait
<1>28. CASE ForceCancel
  BY <1>28, ItemsTypes, ForceCancelEffect DEF ForceCancel
<1>29. CASE Kill
  BY <1>29, ItemsTypes DEF Kill, Polled
<1>30. CASE BeginStop
  BY <1>30, ItemsTypes DEF BeginStop
<1>31. CASE ReceiveSignal
  BY <1>31, ItemsTypes DEF ReceiveSignal
<1>32. CASE DaemonExits
  BY <1>32, ItemsTypes DEF DaemonExits, ChildExits, Running
<1>33. CASE UNCHANGED vars
  BY <1>33, ItemsTypes DEF vars
<1>34. QED
  BY <1>1, <1>2, <1>3, <1>4, <1>5, <1>6, <1>7, <1>8, <1>9, <1>10, <1>11,
     <1>12, <1>13, <1>14, <1>15, <1>16, <1>17, <1>18, <1>19, <1>20, <1>21,
     <1>22, <1>23, <1>24, <1>25, <1>26, <1>27, <1>28, <1>29, <1>30, <1>31,
     <1>32, <1>33
  DEF Next, Work, Cancel, Manage, Closers

\* The stop is requested before anything is cancelled.
LEMMA StopComesFirstKept == DownloadsInv /\ [Next]_vars => StopComesFirst'
<1> SUFFICES ASSUME DownloadsInv, [Next]_vars PROVE StopComesFirst'
  OBVIOUS
<1> USE DEF DownloadsInv, TypeOK, DaemonTypeOK, Workers, Queues, Mains,
            Cancellers, Adapters, Closings, StopComesFirst, MainInStep,
            WorkerAlive, CancellerAlive, GoWorker, AtWorker, GoMain,
            mainVars, daemonVars, Inputs, Backs
<1>1. CASE Reconcile
  BY <1>1 DEF Reconcile
<1>2. CASE Register
  BY <1>2 DEF Register
<1>3. CASE Prepared
  BY <1>3 DEF Prepared
<1>4. CASE Accept
  BY <1>4 DEF Accept
<1>5. CASE NextItem
  BY <1>5, NextItemEffect
<1>6. CASE Attempt
  BY <1>6, AttemptEffect
<1>7. CASE HttpxEnters
  BY <1>7, ConcludedFields DEF HttpxEnters
<1>8. CASE HttpxRuns
  BY <1>8, ConcludedFields DEF HttpxRuns
<1>9. CASE HttpxEnds
  BY <1>9, ConcludedFields DEF HttpxEnds
<1>10. CASE AriaEnters
  BY <1>10 DEF AriaEnters
<1>11. CASE AriaEnsured
  BY <1>11, ConcludedFields DEF AriaEnsured
<1>12. CASE AriaRuns
  BY <1>12, ConcludedFields DEF AriaRuns, Polled
<1>13. CASE Quiesce
  BY <1>13, ConcludedFields DEF Quiesce
<1>14. CASE Reaped
  BY <1>14, ConcludedFields DEF Reaped, NotClosing
<1>15. CASE Exit
  BY <1>15 DEF Exit, NotClosing
<1>16. CASE Finish
  BY <1>16 DEF Finish
<1>17. CASE StartDaemon
  BY <1>17 DEF StartDaemon
<1>18. ASSUME NEW t \in Closers, CloseDaemon(t)
      PROVE  StopComesFirst'
  BY <1>18 DEF CloseDaemon
<1>19. CASE CancelHttpx
  BY <1>19 DEF CancelHttpx
<1>20. CASE CancelAria
  BY <1>20 DEF CancelAria
<1>21. CASE CancellerEnds
  BY <1>21 DEF CancellerEnds
<1>22. CASE Activate
  BY <1>22 DEF Activate, NoQueue, NoWorker
<1>23. CASE Activated
  BY <1>23 DEF Activated
<1>24. CASE StartAsync
  BY <1>24 DEF StartAsync, NoQueue, NoWorker, NoCanceller, NewAria, NotClosing
<1>25. CASE Admitted
  BY <1>25 DEF Admitted
<1>26. CASE RequestStop
  BY <1>26 DEF RequestStop, SetStop, Snapshot
<1>27. CASE Wait
  BY <1>27 DEF Wait
<1>28. CASE ForceCancel
  BY <1>28, ForceCancelEffect DEF ForceCancel
<1>29. CASE Kill
  BY <1>29 DEF Kill, Polled
<1>30. CASE BeginStop
  BY <1>30 DEF BeginStop
<1>31. CASE ReceiveSignal
  BY <1>31 DEF ReceiveSignal
<1>32. CASE DaemonExits
  BY <1>32 DEF DaemonExits, ChildExits, Running
<1>33. CASE UNCHANGED vars
  BY <1>33 DEF vars
<1>34. QED
  BY <1>1, <1>2, <1>3, <1>4, <1>5, <1>6, <1>7, <1>8, <1>9, <1>10, <1>11,
     <1>12, <1>13, <1>14, <1>15, <1>16, <1>17, <1>18, <1>19, <1>20, <1>21,
     <1>22, <1>23, <1>24, <1>25, <1>26, <1>27, <1>28, <1>29, <1>30, <1>31,
     <1>32, <1>33
  DEF Next, Work, Cancel, Manage, Closers

\* The worker keeps its place, and what it uses is registered.
LEMMA WorkerInStepKept == DownloadsInv /\ [Next]_vars => WorkerInStep'
<1> SUFFICES ASSUME DownloadsInv, [Next]_vars PROVE WorkerInStep'
  OBVIOUS
<1> USE DEF DownloadsInv, TypeOK, DaemonTypeOK, Workers, Queues, Mains,
            Cancellers, Adapters, Closings, WorkerInStep, MainInStep, InItem,
            UsesAria, Unregistered, GoWorker, AtWorker, GoMain, mainVars,
            daemonVars, Inputs, Backs
<1>1. CASE Reconcile
  <2>1. /\ Items' = Items /\ (NeedsAria' <=> NeedsAria)
        /\ worker.pc = "reconcile" /\ queue' = queue
        /\ worker'.item = worker.item
        /\ \/ worker'.pc = "finish" /\ (worker'.error \/ Items = <<>>)
           \/ worker'.pc = "register"
    BY <1>1, ItemsStay
    DEF Reconcile, GoWorker, AtWorker, mainVars, daemonVars, DownloadsInv,
        TypeOK, Workers, Queues
  <2>2. Items = <<>> => Len(Items) = 0
    OBVIOUS
  <2>3. QED
    BY <2>1, <2>2, ItemsTypes
    DEF DownloadsInv, WorkerInStep, Unregistered, InItem, UsesAria,
        TypeOK, Workers, Queues
<1>2. CASE Register
  <2>1. /\ Items' = Items /\ (NeedsAria' <=> NeedsAria)
        /\ worker.pc = "register" /\ worker'.pc \in {"prepare", "accept"}
        /\ worker'.pc = "prepare" => NeedsAria
        /\ worker'.item = worker.item
        /\ queue'.backends = IF NeedsAria THEN Backends ELSE {"httpx"}
    BY <1>2, ItemsStay
    DEF Register, GoWorker, AtWorker, mainVars, daemonVars, DownloadsInv,
        TypeOK, Workers, Queues
  <2>2. QED
    BY <2>1, ItemsTypes
    DEF DownloadsInv, WorkerInStep, Unregistered, InItem, UsesAria,
        TypeOK, Workers, Queues
<1>3. CASE Prepared
  BY <1>3, ItemsTypes, ItemsStay DEF Prepared
<1>4. CASE Accept
  BY <1>4, ItemsTypes, ItemsStay DEF Accept
<1>5. CASE NextItem
  <2>1. Items' = Items /\ (NeedsAria' <=> NeedsAria)
    BY <1>5, NextItemEffect, ItemsStay
  <2>2. /\ worker.item \in Nat /\ Len(Items) \in Nat
        /\ worker.item <= Len(Items)
    BY ItemsTypes DEF DownloadsInv, TypeOK, Workers, WorkerInStep
  <2>3. queue'.backends = IF NeedsAria THEN Backends ELSE {"httpx"}
    BY <1>5, NextItemEffect DEF DownloadsInv, WorkerInStep, Unregistered
  <2>4. CASE worker'.pc = "attempt"
    BY <1>5, <2>1, <2>2, <2>3, <2>4, NextItemEffect
    DEF WorkerInStep, Unregistered, InItem, UsesAria
  <2>5. CASE worker'.pc \in {"exit", "finish"}
    BY <1>5, <2>1, <2>2, <2>3, <2>5, NextItemEffect
    DEF WorkerInStep, Unregistered, InItem, UsesAria
  <2>6. QED
    BY <1>5, <2>4, <2>5, NextItemEffect
<1>6. CASE Attempt
  BY <1>6, ItemsTypes, ItemsStay, AttemptEffect
<1>7. CASE HttpxEnters
  <2>1. /\ Items' = Items /\ (NeedsAria' <=> NeedsAria)
        /\ worker.pc = "httpx" /\ queue'.backends = queue.backends
        /\ worker'.item = worker.item
        /\ worker'.pc \in {"h_run", "next", "attempt", "exit", "finish"}
        /\ worker'.pc = "exit" => NeedsAria
        /\ worker'.pc \in {"exit", "finish"}
           => worker'.error \/ queue'.cancelled
    BY <1>7, ItemsStay, ConcludedFields
    DEF HttpxEnters, GoWorker, AtWorker, mainVars, daemonVars, DownloadsInv,
        TypeOK, Workers, Queues
  <2>2. QED
    BY <2>1, ItemsTypes
    DEF DownloadsInv, WorkerInStep, Unregistered, InItem, UsesAria,
        TypeOK, Workers, Queues
<1>8. CASE HttpxRuns
  <2>1. /\ Items' = Items /\ (NeedsAria' <=> NeedsAria)
        /\ worker.pc = "h_run" /\ queue'.backends = queue.backends
        /\ worker'.item = worker.item
        /\ worker'.pc \in {"h_end", "next", "attempt", "exit", "finish"}
        /\ worker'.pc = "exit" => NeedsAria
        /\ worker'.pc \in {"exit", "finish"}
           => worker'.error \/ queue'.cancelled
    BY <1>8, ItemsStay, ConcludedFields
    DEF HttpxRuns, GoWorker, AtWorker, mainVars, daemonVars, DownloadsInv,
        TypeOK, Workers, Queues
  <2>2. QED
    BY <2>1, ItemsTypes
    DEF DownloadsInv, WorkerInStep, Unregistered, InItem, UsesAria,
        TypeOK, Workers, Queues
<1>9. CASE HttpxEnds
  BY <1>9, ItemsTypes, ItemsStay, ConcludedFields DEF HttpxEnds
<1>10. CASE AriaEnters
  <2>1. /\ Items' = Items /\ (NeedsAria' <=> NeedsAria)
        /\ worker.pc = "aria2" /\ queue' = queue
        /\ worker'.item = worker.item
        /\ worker'.pc \in {"quiesce", "ensure"}
    BY <1>10, ItemsStay
    DEF AriaEnters, GoWorker, AtWorker, mainVars, daemonVars, DownloadsInv,
        TypeOK, Workers, Queues
  <2>2. QED
    BY <2>1, ItemsTypes
    DEF DownloadsInv, WorkerInStep, Unregistered, InItem, UsesAria,
        TypeOK, Workers, Queues
<1>11. CASE AriaEnsured
  BY <1>11, ItemsTypes, ItemsStay, ConcludedFields DEF AriaEnsured
<1>12. CASE AriaRuns
  <2>1. /\ Items' = Items /\ (NeedsAria' <=> NeedsAria)
        /\ worker.pc = "a_run" /\ queue'.backends = queue.backends
        /\ worker'.item = worker.item
        /\ worker'.pc \in {"quiesce", "reap", "next", "attempt", "exit",
                           "finish"}
        /\ worker'.pc = "exit" => NeedsAria
        /\ worker'.pc \in {"exit", "finish"}
           => worker'.error \/ queue'.cancelled
    BY <1>12, ItemsStay, ConcludedFields
    DEF AriaRuns, GoWorker, AtWorker, mainVars, daemonVars, DownloadsInv,
        TypeOK, Workers, Queues
  <2>2. QED
    BY <2>1, ItemsTypes
    DEF DownloadsInv, WorkerInStep, Unregistered, InItem, UsesAria,
        TypeOK, Workers, Queues
<1>13. CASE Quiesce
  BY <1>13, ItemsTypes, ItemsStay, ConcludedFields DEF Quiesce
<1>14. CASE Reaped
  BY <1>14, ItemsTypes, ItemsStay, ConcludedFields DEF Reaped, NotClosing
<1>15. CASE Exit
  <2>1. /\ Items' = Items /\ (NeedsAria' <=> NeedsAria)
        /\ worker.pc = "exit" /\ queue' = queue
        /\ worker'.item = worker.item
        /\ worker'.pc \in {"exit", "finish"}
        /\ worker.error => worker'.error
    BY <1>15, ItemsStay
    DEF Exit, GoWorker, AtWorker, mainVars, daemonVars, DownloadsInv,
        TypeOK, Workers, Queues
  <2>2. QED
    BY <2>1, ItemsTypes
    DEF DownloadsInv, WorkerInStep, Unregistered, InItem, UsesAria,
        TypeOK, Workers, Queues
<1>16. CASE Finish
  BY <1>16, ItemsTypes, ItemsStay DEF Finish
<1>17. CASE StartDaemon
  BY <1>17, ItemsTypes, ItemsStay DEF StartDaemon
<1>18. ASSUME NEW t \in Closers, CloseDaemon(t)
      PROVE  WorkerInStep'
  BY <1>18, ItemsTypes, ItemsStay DEF CloseDaemon
<1>19. CASE CancelHttpx
  BY <1>19, ItemsTypes, ItemsStay DEF CancelHttpx
<1>20. CASE CancelAria
  BY <1>20, ItemsTypes, ItemsStay DEF CancelAria
<1>21. CASE CancellerEnds
  BY <1>21, ItemsTypes, ItemsStay DEF CancellerEnds
<1>22. CASE Activate
  BY <1>22, ItemsTypes, ItemsStay DEF Activate, NoQueue, NoWorker
<1>23. CASE Activated
  BY <1>23, ItemsTypes, ItemsStay DEF Activated
<1>24. CASE StartAsync
  <2>1. CASE UNCHANGED <<queue, worker, plan>>
    <3>1. Items' = Items /\ (NeedsAria' <=> NeedsAria)
      BY <2>1, ItemsStay
    <3>2. QED
      BY <2>1, <3>1 DEF DownloadsInv, WorkerInStep
  <2>2. CASE /\ worker' = [NoWorker EXCEPT !.pc = "register"]
             /\ queue' = [NoQueue EXCEPT !.op = "async", !.store = "open"]
    <3>1. /\ worker'.pc = "register" /\ worker'.item = 0
          /\ queue'.backends = {}
      BY <2>2 DEF NoWorker, NoQueue
    <3>2. Len(Items)' \in Nat
      <4>1. Items' = plan.async
        BY <1>24, <2>2 DEF Items, NoQueue, StartAsync, Inputs
      <4>2. plan.async \in Seq(Backends)
        BY PlansAreQueues DEF DownloadsInv, TypeOK
      <4>3. QED
        BY <4>1, <4>2
    <3>3. QED
      BY <3>1, <3>2 DEF WorkerInStep, Unregistered, InItem, UsesAria
  <2>3. QED
    BY <1>24, <2>1, <2>2 DEF StartAsync, Inputs, Backs
<1>25. CASE Admitted
  BY <1>25, ItemsTypes, ItemsStay DEF Admitted
<1>26. CASE RequestStop
  <2>1. /\ Items' = Items /\ (NeedsAria' <=> NeedsAria)
        /\ worker' = worker /\ queue'.backends = queue.backends
        /\ queue'.cancelled = queue.cancelled
        /\ queue'.summary = queue.summary
    BY <1>26, ItemsStay
    DEF RequestStop, SetStop, Snapshot, GoMain, Inputs, DownloadsInv,
        TypeOK, Queues
  <2>2. QED
    BY <2>1, ItemsTypes DEF DownloadsInv, WorkerInStep
<1>27. CASE Wait
  BY <1>27, ItemsTypes, ItemsStay DEF Wait
<1>28. CASE ForceCancel
  BY <1>28, ItemsTypes, ItemsStay, ForceCancelEffect DEF ForceCancel
<1>29. CASE Kill
  BY <1>29, ItemsTypes, ItemsStay DEF Kill
<1>30. CASE BeginStop
  BY <1>30, ItemsTypes, ItemsStay DEF BeginStop
<1>31. CASE ReceiveSignal
  BY <1>31, ItemsTypes, ItemsStay DEF ReceiveSignal
<1>32. CASE DaemonExits
  BY <1>32, ItemsTypes, ItemsStay DEF DaemonExits, ChildExits, Running
<1>33. CASE UNCHANGED vars
  BY <1>33, ItemsTypes, ItemsStay DEF vars
<1>34. QED
  BY <1>1, <1>2, <1>3, <1>4, <1>5, <1>6, <1>7, <1>8, <1>9, <1>10, <1>11,
     <1>12, <1>13, <1>14, <1>15, <1>16, <1>17, <1>18, <1>19, <1>20, <1>21,
     <1>22, <1>23, <1>24, <1>25, <1>26, <1>27, <1>28, <1>29, <1>30, <1>31,
     <1>32, <1>33
  DEF Next, Work, Cancel, Manage, Closers

\* What the worker uses is cancelled, or about to be.
LEMMA CancelReachesKept == DownloadsInv /\ [Next]_vars => CancelReaches'
<1> SUFFICES ASSUME DownloadsInv, [Next]_vars PROVE CancelReaches'
  OBVIOUS
<1> USE DEF DownloadsInv, TypeOK, DaemonTypeOK, Workers, Queues, Mains,
            Cancellers, Adapters, Closings, CancelReaches, StopComesFirst,
            MainInStep, WorkerInStep, UsesHttpx, UsesAria, Unregistered,
            Backends, InItem, GoWorker, AtWorker, GoMain, mainVars,
            daemonVars, Inputs, Backs
<1>1. CASE Reconcile
  <2>1. /\ canc' = canc /\ queue' = queue /\ httpx' = httpx /\ aria' = aria
        /\ worker'.pc \in {"finish", "register"}
    BY <1>1
    DEF Reconcile, GoWorker, mainVars, daemonVars, DownloadsInv, TypeOK,
        Workers
  <2>2. QED
    BY <2>1 DEF DownloadsInv, CancelReaches, UsesHttpx, UsesAria
<1>2. CASE Register
  BY <1>2 DEF Register
<1>3. CASE Prepared
  BY <1>3 DEF Prepared
<1>4. CASE Accept
  BY <1>4 DEF Accept
<1>5. CASE NextItem
  BY <1>5, NextItemEffect
<1>6. CASE Attempt
  BY <1>6, AttemptEffect
<1>7. CASE HttpxEnters
  BY <1>7, ConcludedFields DEF HttpxEnters
<1>8. CASE HttpxRuns
  BY <1>8, ConcludedFields DEF HttpxRuns
<1>9. CASE HttpxEnds
  BY <1>9, ConcludedFields DEF HttpxEnds
<1>10. CASE AriaEnters
  BY <1>10 DEF AriaEnters
<1>11. CASE AriaEnsured
  BY <1>11, ConcludedFields DEF AriaEnsured
<1>12. CASE AriaRuns
  BY <1>12, ConcludedFields DEF AriaRuns, Polled
<1>13. CASE Quiesce
  BY <1>13, ConcludedFields DEF Quiesce
<1>14. CASE Reaped
  BY <1>14, ConcludedFields DEF Reaped, NotClosing
<1>15. CASE Exit
  BY <1>15 DEF Exit, NotClosing
<1>16. CASE Finish
  BY <1>16 DEF Finish
<1>17. ASSUME EnsureStarted,
             UNCHANGED <<mainVars, queue, worker, canc, httpx>>
      PROVE  CancelReaches'
  BY <1>17 DEF EnsureStarted, Polled
<1>18. ASSUME SpawnFails,
             UNCHANGED <<mainVars, queue, worker, canc, httpx>>
      PROVE  CancelReaches'
  BY <1>18 DEF SpawnFails
<1>19. ASSUME Spawn,
             UNCHANGED <<mainVars, queue, worker, canc, httpx>>
      PROVE  CancelReaches'
  BY <1>19 DEF Spawn
<1>20. ASSUME PublishChild,
             UNCHANGED <<mainVars, queue, worker, canc, httpx>>
      PROVE  CancelReaches'
  BY <1>20 DEF PublishChild
<1>21. ASSUME BecomeReady,
             UNCHANGED <<mainVars, queue, worker, canc, httpx>>
      PROVE  CancelReaches'
  BY <1>21 DEF BecomeReady
<1>22. ASSUME StartFails,
             UNCHANGED <<mainVars, queue, worker, canc, httpx>>
      PROVE  CancelReaches'
  BY <1>22 DEF StartFails
<1>23. ASSUME PublishFailedStart,
             UNCHANGED <<mainVars, queue, worker, canc, httpx>>
      PROVE  CancelReaches'
  BY <1>23 DEF PublishFailedStart
<1>24. ASSUME CloseFailedStart,
             UNCHANGED <<mainVars, queue, worker, canc, httpx>>
      PROVE  CancelReaches'
  BY <1>24 DEF CloseFailedStart
<1>25. ASSUME NEW t \in Closers, CloseWakes(t),
             UNCHANGED <<mainVars, queue, worker, canc, httpx>>
      PROVE  CancelReaches'
  BY <1>25, CloseWakesEffect DEF Closers
<1>26. ASSUME NEW t \in Closers, CloseGivesUp(t),
             UNCHANGED <<mainVars, queue, worker, canc, httpx>>
      PROVE  CancelReaches'
  BY <1>26 DEF CloseGivesUp
<1>27. ASSUME NEW t \in Closers, ShutdownProcess(t),
             UNCHANGED <<mainVars, queue, worker, canc, httpx>>
      PROVE  CancelReaches'
  BY <1>27, ShutdownEffect DEF ShutdownProcess
<1>28. ASSUME NEW t \in Closers, PublishTeardown(t),
             UNCHANGED <<mainVars, queue, worker, canc, httpx>>
      PROVE  CancelReaches'
  BY <1>28 DEF PublishTeardown, Closers
<1>29. CASE CancelHttpx
  BY <1>29 DEF CancelHttpx
<1>30. CASE CancelAria
  BY <1>30 DEF CancelAria
<1>31. CASE CancellerEnds
  BY <1>31 DEF CancellerEnds
<1>32. CASE Activate
  BY <1>32 DEF Activate, NoQueue, NoWorker
<1>33. CASE Activated
  BY <1>33 DEF Activated
<1>34. CASE StartAsync
  BY <1>34 DEF StartAsync, NoQueue, NoWorker, NoCanceller, NewAria, NotClosing
<1>35. CASE Admitted
  BY <1>35 DEF Admitted
<1>36. CASE RequestStop
  BY <1>36 DEF RequestStop, SetStop, Snapshot
<1>37. CASE Wait
  BY <1>37 DEF Wait
<1>38. CASE ForceCancel
  BY <1>38, ForceCancelEffect DEF ForceCancel
<1>39. CASE Kill
  BY <1>39 DEF Kill
<1>40. CASE BeginStop
  BY <1>40 DEF BeginStop
<1>41. CASE ReceiveSignal
  BY <1>41 DEF ReceiveSignal
<1>42. CASE DaemonExits
  BY <1>42 DEF DaemonExits, ChildExits, Running
<1>43. CASE UNCHANGED vars
  BY <1>43 DEF vars
<1>44. QED
  BY <1>1, <1>2, <1>3, <1>4, <1>5, <1>6, <1>7, <1>8, <1>9, <1>10, <1>11,
     <1>12, <1>13, <1>14, <1>15, <1>16, <1>17, <1>18, <1>19, <1>20, <1>21,
     <1>22, <1>23, <1>24, <1>25, <1>26, <1>27, <1>28, <1>29, <1>30, <1>31,
     <1>32, <1>33, <1>34, <1>35, <1>36, <1>37, <1>38, <1>39, <1>40, <1>41,
     <1>42, <1>43
  DEF Next, Work, Cancel, Manage, StartDaemon, StartStep, CloseDaemon,
      CloseStep, Closers

\* The callers of the adapter keep step.
LEMMA AdapterInStepKept == DownloadsInv /\ [Next]_vars => AdapterInStep'
<1> SUFFICES ASSUME DownloadsInv, [Next]_vars PROVE AdapterInStep'
  OBVIOUS
<1> USE DEF DownloadsInv, TypeOK, DaemonTypeOK, Workers, Queues, Mains,
            Cancellers, Adapters, Closings, AdapterInStep, DaemonInStep,
            Failing, TearingDown, MainInStep, Closers, GoWorker, AtWorker,
            GoMain, mainVars, daemonVars, Inputs, Backs
<1>1. CASE Reconcile
  BY <1>1 DEF Reconcile
<1>2. CASE Register
  BY <1>2 DEF Register
<1>3. CASE Prepared
  BY <1>3 DEF Prepared
<1>4. CASE Accept
  BY <1>4 DEF Accept
<1>5. CASE NextItem
  BY <1>5, NextItemEffect
<1>6. CASE Attempt
  BY <1>6, AttemptEffect
<1>7. CASE HttpxEnters
  BY <1>7, ConcludedFields DEF HttpxEnters
<1>8. CASE HttpxRuns
  BY <1>8, ConcludedFields DEF HttpxRuns
<1>9. CASE HttpxEnds
  BY <1>9, ConcludedFields DEF HttpxEnds
<1>10. CASE AriaEnters
  BY <1>10 DEF AriaEnters
<1>11. CASE AriaEnsured
  BY <1>11, ConcludedFields DEF AriaEnsured
<1>12. CASE AriaRuns
  BY <1>12, ConcludedFields DEF AriaRuns, Polled
<1>13. CASE Quiesce
  BY <1>13, ConcludedFields DEF Quiesce
<1>14. CASE Reaped
  BY <1>14, ConcludedFields DEF Reaped, NotClosing
<1>15. CASE Exit
  BY <1>15 DEF Exit, NotClosing
<1>16. CASE Finish
  BY <1>16 DEF Finish
<1>17. ASSUME EnsureStarted,
             UNCHANGED <<mainVars, queue, worker, canc, httpx>>
      PROVE  AdapterInStep'
  BY <1>17 DEF EnsureStarted, Polled
<1>18. ASSUME SpawnFails,
             UNCHANGED <<mainVars, queue, worker, canc, httpx>>
      PROVE  AdapterInStep'
  BY <1>18 DEF SpawnFails
<1>19. ASSUME Spawn,
             UNCHANGED <<mainVars, queue, worker, canc, httpx>>
      PROVE  AdapterInStep'
  BY <1>19 DEF Spawn
<1>20. ASSUME PublishChild,
             UNCHANGED <<mainVars, queue, worker, canc, httpx>>
      PROVE  AdapterInStep'
  BY <1>20 DEF PublishChild
<1>21. ASSUME BecomeReady,
             UNCHANGED <<mainVars, queue, worker, canc, httpx>>
      PROVE  AdapterInStep'
  BY <1>21 DEF BecomeReady
<1>22. ASSUME StartFails,
             UNCHANGED <<mainVars, queue, worker, canc, httpx>>
      PROVE  AdapterInStep'
  BY <1>22 DEF StartFails, Polled
<1>23. ASSUME PublishFailedStart,
             UNCHANGED <<mainVars, queue, worker, canc, httpx>>
      PROVE  AdapterInStep'
  BY <1>23 DEF PublishFailedStart
<1>24. ASSUME CloseFailedStart,
             UNCHANGED <<mainVars, queue, worker, canc, httpx>>
      PROVE  AdapterInStep'
  BY <1>24 DEF CloseFailedStart, NotClosing
<1>25. ASSUME NEW t \in Closers, CloseWakes(t),
             UNCHANGED <<mainVars, queue, worker, canc, httpx>>
      PROVE  AdapterInStep'
  BY <1>25, CloseWakesEffect DEF Closers
<1>26. ASSUME NEW t \in Closers, CloseGivesUp(t),
             UNCHANGED <<mainVars, queue, worker, canc, httpx>>
      PROVE  AdapterInStep'
  BY <1>26 DEF CloseGivesUp, Closers
<1>27. ASSUME NEW t \in Closers, ShutdownProcess(t),
             UNCHANGED <<mainVars, queue, worker, canc, httpx>>
      PROVE  AdapterInStep'
  BY <1>27, ShutdownEffect DEF Closers
<1>28. ASSUME NEW t \in Closers, PublishTeardown(t),
             UNCHANGED <<mainVars, queue, worker, canc, httpx>>
      PROVE  AdapterInStep'
  BY <1>28 DEF PublishTeardown, Closers
<1>29. CASE CancelHttpx
  BY <1>29 DEF CancelHttpx
<1>30. CASE CancelAria
  BY <1>30 DEF CancelAria
<1>31. CASE CancellerEnds
  BY <1>31 DEF CancellerEnds
<1>32. CASE Activate
  BY <1>32 DEF Activate, NoQueue, NoWorker
<1>33. CASE Activated
  BY <1>33 DEF Activated
<1>34. CASE StartAsync
  BY <1>34 DEF StartAsync, NoQueue, NoWorker, NoCanceller, NewAria, NotClosing
<1>35. CASE Admitted
  BY <1>35 DEF Admitted
<1>36. CASE RequestStop
  BY <1>36 DEF RequestStop, SetStop, Snapshot
<1>37. CASE Wait
  BY <1>37 DEF Wait
<1>38. CASE ForceCancel
  BY <1>38, ForceCancelEffect DEF ForceCancel
<1>39. CASE Kill
  BY <1>39 DEF Kill
<1>40. CASE BeginStop
  BY <1>40 DEF BeginStop
<1>41. CASE ReceiveSignal
  BY <1>41 DEF ReceiveSignal
<1>42. CASE DaemonExits
  BY <1>42 DEF DaemonExits, ChildExits, Running
<1>43. CASE UNCHANGED vars
  BY <1>43 DEF vars
<1>44. QED
  BY <1>1, <1>2, <1>3, <1>4, <1>5, <1>6, <1>7, <1>8, <1>9, <1>10, <1>11,
     <1>12, <1>13, <1>14, <1>15, <1>16, <1>17, <1>18, <1>19, <1>20, <1>21,
     <1>22, <1>23, <1>24, <1>25, <1>26, <1>27, <1>28, <1>29, <1>30, <1>31,
     <1>32, <1>33, <1>34, <1>35, <1>36, <1>37, <1>38, <1>39, <1>40, <1>41,
     <1>42, <1>43
  DEF Next, Work, Cancel, Manage, StartDaemon, StartStep, CloseDaemon,
      CloseStep, Closers

\* The daemon keeps to one start and one teardown at a time.
LEMMA DaemonInStepKept == DownloadsInv /\ [Next]_vars => DaemonInStep'
<1> SUFFICES ASSUME DownloadsInv, [Next]_vars PROVE DaemonInStep'
  OBVIOUS
<1> USE DEF DownloadsInv, TypeOK, DaemonTypeOK, Workers, Queues, Mains,
            Cancellers, Adapters, Closings, DaemonInStep, AdapterInStep,
            Failing, TearingDown, Closers, ProcessIsOwned, GoWorker,
            AtWorker, GoMain, mainVars, daemonVars, Inputs, Backs
<1>1. CASE Reconcile
  BY <1>1 DEF Reconcile
<1>2. CASE Register
  BY <1>2 DEF Register
<1>3. CASE Prepared
  BY <1>3 DEF Prepared
<1>4. CASE Accept
  BY <1>4 DEF Accept
<1>5. CASE NextItem
  BY <1>5, NextItemEffect DEF NextItem
<1>6. CASE Attempt
  BY <1>6, AttemptEffect DEF Attempt
<1>7. CASE HttpxEnters
  BY <1>7, ConcludedFields DEF HttpxEnters
<1>8. CASE HttpxRuns
  BY <1>8, ConcludedFields DEF HttpxRuns
<1>9. CASE HttpxEnds
  BY <1>9, ConcludedFields DEF HttpxEnds
<1>10. CASE AriaEnters
  BY <1>10 DEF AriaEnters
<1>11. CASE AriaEnsured
  BY <1>11, ConcludedFields DEF AriaEnsured
<1>12. CASE AriaRuns
  BY <1>12, ConcludedFields DEF AriaRuns, Polled
<1>13. CASE Quiesce
  BY <1>13, ConcludedFields DEF Quiesce
<1>14. CASE Reaped
  BY <1>14, ConcludedFields DEF Reaped, NotClosing
<1>15. CASE Exit
  BY <1>15 DEF Exit, NotClosing
<1>16. CASE Finish
  BY <1>16 DEF Finish
<1>17. ASSUME EnsureStarted,
             UNCHANGED <<mainVars, queue, worker, canc, httpx>>
      PROVE  DaemonInStep'
  <2>1. /\ aria \in Adapters /\ starter = "call" /\ closer' = closer
        /\ \/ starter' \in {"cancelled", "error", "up"} /\ aria' = aria
           \/ /\ starter' = "spawning" /\ aria.state = "new"
              /\ aria' = [aria EXCEPT !.state = "starting"]
    BY <1>17 DEF EnsureStarted, DownloadsInv, TypeOK, DaemonTypeOK
  <2>2. aria.state \notin {"starting", "closing"} \/ starter' # "spawning"
    BY <2>1
  <2>3. starter' = "spawning"
        => ~aria.owned /\ closer["worker"].pc = "idle"
    BY <2>1 DEF DownloadsInv, AdapterInStep, DaemonInStep, Failing
  <2>4. QED
    BY <2>1, <2>2, <2>3
    DEF DownloadsInv, Adapters, DaemonInStep, AdapterInStep, Failing,
        TearingDown, Closers
<1>18. ASSUME SpawnFails,
             UNCHANGED <<mainVars, queue, worker, canc, httpx>>
      PROVE  DaemonInStep'
  BY <1>18 DEF SpawnFails
<1>19. ASSUME Spawn,
             UNCHANGED <<mainVars, queue, worker, canc, httpx>>
      PROVE  DaemonInStep'
  BY <1>19 DEF Spawn
<1>20. ASSUME PublishChild,
             UNCHANGED <<mainVars, queue, worker, canc, httpx>>
      PROVE  DaemonInStep'
  BY <1>20 DEF PublishChild
<1>21. ASSUME BecomeReady,
             UNCHANGED <<mainVars, queue, worker, canc, httpx>>
      PROVE  DaemonInStep'
  BY <1>21 DEF BecomeReady
<1>22. ASSUME StartFails,
             UNCHANGED <<mainVars, queue, worker, canc, httpx>>
      PROVE  DaemonInStep'
  BY <1>22 DEF StartFails, Polled
<1>23. ASSUME PublishFailedStart,
             UNCHANGED <<mainVars, queue, worker, canc, httpx>>
      PROVE  DaemonInStep'
  BY <1>23 DEF PublishFailedStart
<1>24. ASSUME CloseFailedStart,
             UNCHANGED <<mainVars, queue, worker, canc, httpx>>
      PROVE  DaemonInStep'
  BY <1>24 DEF CloseFailedStart, NotClosing
<1>25. ASSUME NEW t \in Closers, CloseWakes(t),
             UNCHANGED <<mainVars, queue, worker, canc, httpx>>
      PROVE  DaemonInStep'
  BY <1>25, CloseWakesEffect DEF Closers
<1>26. ASSUME NEW t \in Closers, CloseGivesUp(t),
             UNCHANGED <<mainVars, queue, worker, canc, httpx>>
      PROVE  DaemonInStep'
  BY <1>26 DEF CloseGivesUp, Closers
<1>27. ASSUME NEW t \in Closers, ShutdownProcess(t),
             UNCHANGED <<mainVars, queue, worker, canc, httpx>>
      PROVE  DaemonInStep'
  BY <1>27, ShutdownEffect DEF Closers
<1>28. ASSUME NEW t \in Closers, PublishTeardown(t),
             UNCHANGED <<mainVars, queue, worker, canc, httpx>>
      PROVE  DaemonInStep'
  BY <1>28 DEF PublishTeardown, Closers
<1>29. CASE CancelHttpx
  BY <1>29 DEF CancelHttpx
<1>30. CASE CancelAria
  BY <1>30 DEF CancelAria
<1>31. CASE CancellerEnds
  BY <1>31 DEF CancellerEnds
<1>32. CASE Activate
  BY <1>32 DEF Activate
<1>33. CASE Activated
  BY <1>33 DEF Activated
<1>34. CASE StartAsync
  BY <1>34 DEF StartAsync, NoQueue, NoWorker, NoCanceller, NewAria, NotClosing
<1>35. CASE Admitted
  BY <1>35 DEF Admitted
<1>36. CASE RequestStop
  BY <1>36 DEF RequestStop
<1>37. CASE Wait
  BY <1>37 DEF Wait
<1>38. CASE ForceCancel
  BY <1>38, ForceCancelEffect DEF ForceCancel
<1>39. CASE Kill
  BY <1>39 DEF Kill
<1>40. CASE BeginStop
  BY <1>40 DEF BeginStop
<1>41. CASE ReceiveSignal
  BY <1>41 DEF ReceiveSignal
<1>42. CASE DaemonExits
  BY <1>42 DEF DaemonExits, ChildExits, Running
<1>43. CASE UNCHANGED vars
  BY <1>43 DEF vars
<1>44. QED
  BY <1>1, <1>2, <1>3, <1>4, <1>5, <1>6, <1>7, <1>8, <1>9, <1>10, <1>11,
     <1>12, <1>13, <1>14, <1>15, <1>16, <1>17, <1>18, <1>19, <1>20, <1>21,
     <1>22, <1>23, <1>24, <1>25, <1>26, <1>27, <1>28, <1>29, <1>30, <1>31,
     <1>32, <1>33, <1>34, <1>35, <1>36, <1>37, <1>38, <1>39, <1>40, <1>41,
     <1>42, <1>43
  DEF Next, Work, Cancel, Manage, StartDaemon, StartStep, CloseDaemon,
      CloseStep, Closers

\* The process is owned until it is reaped.
LEMMA ProcessIsOwnedKept == DownloadsInv /\ [Next]_vars => ProcessIsOwned'
<1> SUFFICES ASSUME DownloadsInv, [Next]_vars PROVE ProcessIsOwned'
  OBVIOUS
<1> USE DEF DownloadsInv, TypeOK, DaemonTypeOK, Workers, Queues, Mains,
            Cancellers, Adapters, Closings, ProcessIsOwned, DaemonInStep,
            AdapterInStep, WorkerInStep, UsesAria, Unregistered, Failing,
            TearingDown, Closers, GoWorker, AtWorker, GoMain, mainVars,
            daemonVars, Inputs, Backs
<1>1. CASE Reconcile
  BY <1>1, ItemsTypes, ItemsStay DEF Reconcile
<1>2. CASE Register
  BY <1>2, ItemsTypes, ItemsStay DEF Register
<1>3. CASE Prepared
  BY <1>3, ItemsTypes, ItemsStay DEF Prepared
<1>4. CASE Accept
  BY <1>4, ItemsTypes, ItemsStay DEF Accept
<1>5. CASE NextItem
  BY <1>5, ItemsTypes, ItemsStay, NextItemEffect
<1>6. CASE Attempt
  BY <1>6, ItemsTypes, ItemsStay, AttemptEffect
<1>7. CASE HttpxEnters
  BY SMTT(20), <1>7, ItemsTypes, ItemsStay, ConcludedFields DEF HttpxEnters
<1>8. CASE HttpxRuns
  <2>1. /\ Items' = Items /\ (NeedsAria' <=> NeedsAria)
        /\ worker.pc = "h_run" /\ worker'.pc \in 
             {"h_end", "next", "attempt", "exit", "finish"}
        /\ aria' = aria /\ child' = child /\ starter' = starter
    BY <1>8, ItemsStay, ConcludedFields
    DEF HttpxRuns, GoWorker, AtWorker, mainVars, daemonVars,
        DownloadsInv, TypeOK, Workers
  <2>2. closer' = closer
    BY <1>8 DEF HttpxRuns, daemonVars
  <2>3. QED
    BY <2>1, <2>2 DEF DownloadsInv, ProcessIsOwned, Unregistered
<1>9. CASE HttpxEnds
  BY <1>9, ItemsTypes, ItemsStay, ConcludedFields DEF HttpxEnds
<1>10. CASE AriaEnters
  BY <1>10, ItemsTypes, ItemsStay DEF AriaEnters
<1>11. CASE AriaEnsured
  BY <1>11, ItemsTypes, ItemsStay, ConcludedFields DEF AriaEnsured
<1>12. CASE AriaRuns
  <2>1. /\ Items' = Items /\ (NeedsAria' <=> NeedsAria)
        /\ worker.pc = "a_run" /\ worker'.pc \notin Unregistered
    BY <1>12, ItemsStay, ConcludedFields
    DEF AriaRuns, GoWorker, AtWorker, mainVars, DownloadsInv, TypeOK,
        Workers, Unregistered
  <2>2. /\ aria' = aria /\ starter' = starter
        /\ child' = child \/ (child = "exited" /\ child' = "reaped")
    BY <1>12 DEF AriaRuns, Polled
  <2>3. \A t \in Closers : closer'[t] = closer[t] \/ closer'[t].pc = "enter"
    BY <1>12 DEF AriaRuns, DownloadsInv, TypeOK, DaemonTypeOK, Closings,
                Closers
  <2>4. QED
    BY <2>1, <2>2, <2>3 DEF DownloadsInv, ProcessIsOwned
<1>13. CASE Quiesce
  BY <1>13, ItemsTypes, ItemsStay, ConcludedFields DEF Quiesce
<1>14. CASE Reaped
  BY <1>14, ItemsTypes, ItemsStay, ConcludedFields DEF Reaped, NotClosing
<1>15. CASE Exit
  <2>1. /\ Items' = Items /\ (NeedsAria' <=> NeedsAria)
        /\ worker.pc = "exit" /\ worker'.pc \in {"exit", "finish"}
        /\ aria' = aria /\ child' = child /\ starter' = starter
    BY <1>15, ItemsStay
    DEF Exit, GoWorker, AtWorker, mainVars, daemonVars,
        DownloadsInv, TypeOK, Workers
  <2>2. \A t \in Closers : closer'[t] = closer[t]
                             \/ closer'[t].pc \in {"enter", "idle"}
    BY <1>15 DEF Exit, DownloadsInv, TypeOK, DaemonTypeOK, Closings,
                NotClosing, Closers
  <2>3. QED
    BY <2>1, <2>2 DEF DownloadsInv, ProcessIsOwned, Unregistered
<1>16. CASE Finish
  BY <1>16, ItemsTypes, ItemsStay DEF Finish
<1>17. ASSUME EnsureStarted,
             UNCHANGED <<mainVars, queue, worker, canc, httpx>>
      PROVE  ProcessIsOwned'
  BY <1>17, ItemsTypes, ItemsStay DEF EnsureStarted, Polled
<1>18. ASSUME SpawnFails,
             UNCHANGED <<mainVars, queue, worker, canc, httpx>>
      PROVE  ProcessIsOwned'
  BY <1>18, ItemsTypes, ItemsStay DEF SpawnFails
<1>19. ASSUME Spawn,
             UNCHANGED <<mainVars, queue, worker, canc, httpx>>
      PROVE  ProcessIsOwned'
  BY <1>19, ItemsTypes, ItemsStay DEF Spawn
<1>20. ASSUME PublishChild,
             UNCHANGED <<mainVars, queue, worker, canc, httpx>>
      PROVE  ProcessIsOwned'
  BY <1>20, ItemsTypes, ItemsStay DEF PublishChild
<1>21. ASSUME BecomeReady,
             UNCHANGED <<mainVars, queue, worker, canc, httpx>>
      PROVE  ProcessIsOwned'
  BY <1>21, ItemsTypes, ItemsStay DEF BecomeReady
<1>22. ASSUME StartFails,
             UNCHANGED <<mainVars, queue, worker, canc, httpx>>
      PROVE  ProcessIsOwned'
  BY <1>22, ItemsTypes, ItemsStay DEF StartFails, Polled
<1>23. ASSUME PublishFailedStart,
             UNCHANGED <<mainVars, queue, worker, canc, httpx>>
      PROVE  ProcessIsOwned'
  BY <1>23, ItemsTypes, ItemsStay DEF PublishFailedStart
<1>24. ASSUME CloseFailedStart,
             UNCHANGED <<mainVars, queue, worker, canc, httpx>>
      PROVE  ProcessIsOwned'
  BY <1>24, ItemsTypes, ItemsStay DEF CloseFailedStart, NotClosing
<1>25. ASSUME NEW t \in Closers, CloseWakes(t),
             UNCHANGED <<mainVars, queue, worker, canc, httpx>>
      PROVE  ProcessIsOwned'
  <2>1. /\ Items' = Items /\ (NeedsAria' <=> NeedsAria)
        /\ worker' = worker
    BY <1>25, ItemsStay DEF mainVars
  <2>2. /\ DaemonInStep /\ ProcessIsOwned /\ AdapterInStep
        /\ TypeOK /\ DaemonTypeOK
    BY DEF DownloadsInv, TypeOK
  <2>3. QED
    BY <1>25, <2>1, <2>2, CloseWakesEffect
    DEF ProcessIsOwned, DaemonInStep, TearingDown, Closers, DaemonTypeOK,
        ChildStates
<1>26. ASSUME NEW t \in Closers, CloseGivesUp(t),
             UNCHANGED <<mainVars, queue, worker, canc, httpx>>
      PROVE  ProcessIsOwned'
  BY <1>26, ItemsTypes, ItemsStay DEF CloseGivesUp, Closers
<1>27. ASSUME NEW t \in Closers, ShutdownProcess(t),
             UNCHANGED <<mainVars, queue, worker, canc, httpx>>
      PROVE  ProcessIsOwned'
  <2>1. /\ Items' = Items /\ (NeedsAria' <=> NeedsAria)
        /\ worker' = worker
    BY <1>27, ItemsStay DEF mainVars
  <2>2. /\ aria.state = "closing" /\ aria.owned
        /\ \A s \in Closers \ {t} : closer[s].pc # "publish"
    BY <1>27, ShutdownEffect
    DEF DownloadsInv, DaemonInStep, TearingDown, Closers
  <2>3. child # "none" /\ child' \notin {"none", "alive"}
    BY <1>27, <2>2, ShutdownEffect DEF DownloadsInv, ProcessIsOwned
  <2>4. QED
    BY <1>27, <2>1, <2>2, <2>3, ShutdownEffect
    DEF DownloadsInv, ProcessIsOwned
<1>28. ASSUME NEW t \in Closers, PublishTeardown(t),
             UNCHANGED <<mainVars, queue, worker, canc, httpx>>
      PROVE  ProcessIsOwned'
  BY <1>28, ItemsTypes, ItemsStay DEF PublishTeardown, Closers
<1>29. CASE CancelHttpx
  BY <1>29, ItemsTypes, ItemsStay DEF CancelHttpx
<1>30. CASE CancelAria
  BY <1>30, ItemsTypes, ItemsStay DEF CancelAria
<1>31. CASE CancellerEnds
  BY <1>31, ItemsTypes, ItemsStay DEF CancellerEnds
<1>32. CASE Activate
  <2>1. worker.pc = "none" /\ worker'.pc = "reconcile"
    BY <1>32 DEF Activate, DownloadsInv, MainInStep, NoWorker
  <2>2. child' = "none" /\ UNCHANGED <<aria, starter, closer>>
    BY <1>32, <2>1
    DEF Activate, DownloadsInv, ProcessIsOwned, Unregistered, Backs,
        daemonVars
  <2>3. QED
    BY <2>1, <2>2 DEF DownloadsInv, ProcessIsOwned, Unregistered
<1>33. CASE Activated
  BY <1>33, ItemsTypes, ItemsStay DEF Activated
<1>34. CASE StartAsync
  BY <1>34, ItemsTypes, ItemsStay
  DEF StartAsync, NoQueue, NoWorker, NoCanceller, NewAria, NotClosing
<1>35. CASE Admitted
  BY <1>35, ItemsTypes, ItemsStay DEF Admitted
<1>36. CASE RequestStop
  BY <1>36, ItemsTypes, ItemsStay DEF RequestStop, SetStop, Snapshot
<1>37. CASE Wait
  BY <1>37, ItemsTypes, ItemsStay DEF Wait
<1>38. CASE ForceCancel
  BY <1>38, ItemsTypes, ItemsStay, ForceCancelEffect DEF ForceCancel
<1>39. CASE Kill
  BY <1>39, ItemsTypes, ItemsStay DEF Kill, Polled
<1>40. CASE BeginStop
  BY <1>40, ItemsTypes, ItemsStay DEF BeginStop
<1>41. CASE ReceiveSignal
  BY <1>41, ItemsTypes, ItemsStay DEF ReceiveSignal
<1>42. CASE DaemonExits
  BY <1>42, ItemsTypes, ItemsStay DEF DaemonExits, ChildExits, Running
<1>43. CASE UNCHANGED vars
  BY <1>43, ItemsTypes, ItemsStay DEF vars
<1>44. QED
  BY <1>1, <1>2, <1>3, <1>4, <1>5, <1>6, <1>7, <1>8, <1>9, <1>10, <1>11,
     <1>12, <1>13, <1>14, <1>15, <1>16, <1>17, <1>18, <1>19, <1>20, <1>21,
     <1>22, <1>23, <1>24, <1>25, <1>26, <1>27, <1>28, <1>29, <1>30, <1>31,
     <1>32, <1>33, <1>34, <1>35, <1>36, <1>37, <1>38, <1>39, <1>40, <1>41,
     <1>42, <1>43
  DEF Next, Work, Cancel, Manage, StartDaemon, StartStep, CloseDaemon,
      CloseStep, Closers

\* The worker leaves a live daemon to the canceller alone.
LEMMA WorkerLeavesNothingKept ==
    DownloadsInv /\ [Next]_vars => WorkerLeavesNothing'
<1> SUFFICES ASSUME DownloadsInv, [Next]_vars PROVE WorkerLeavesNothing'
  OBVIOUS
<1> USE DEF DownloadsInv, TypeOK, DaemonTypeOK, Workers, Queues, Mains,
            Cancellers, Adapters, Closings, WorkerLeavesNothing,
            LeftToCanceller, ProcessIsOwned, DaemonInStep, AdapterInStep,
            WorkerInStep, MainInStep, Failing, TearingDown, Closers,
            UsesAria, Unregistered, GoWorker, AtWorker, GoMain, mainVars,
            daemonVars, Inputs, Backs
<1>1. CASE Reconcile
  BY <1>1, ItemsTypes DEF Reconcile
<1>2. CASE Register
  <2>1. /\ worker.pc = "register" /\ worker'.pc \in {"prepare", "accept"}
        /\ worker'.quiet = worker.quiet /\ UNCHANGED <<child, closer>>
    BY <1>2 DEF Register, AtWorker, GoWorker, DownloadsInv, TypeOK, Workers
  <2>2. QED
    BY <2>1 DEF DownloadsInv, WorkerLeavesNothing, LeftToCanceller
<1>3. CASE Prepared
  BY <1>3, ItemsTypes DEF Prepared
<1>4. CASE Accept
  BY <1>4, ItemsTypes DEF Accept
<1>5. CASE NextItem
  BY <1>5, ItemsTypes, NextItemEffect
<1>6. CASE Attempt
  BY <1>6, ItemsTypes, AttemptEffect
<1>7. CASE HttpxEnters
  BY SMTT(20), <1>7, ItemsTypes, ConcludedFields DEF HttpxEnters
<1>8. CASE HttpxRuns
  BY <1>8, ItemsTypes, ConcludedFields DEF HttpxRuns
<1>9. CASE HttpxEnds
  BY <1>9, ItemsTypes, ConcludedFields DEF HttpxEnds
<1>10. CASE AriaEnters
  BY <1>10, ItemsTypes DEF AriaEnters
<1>11. CASE AriaEnsured
  BY <1>11, ItemsTypes, ConcludedFields DEF AriaEnsured
<1>12. CASE AriaRuns
  BY <1>12, ItemsTypes, ConcludedFields DEF AriaRuns, Polled
<1>13. CASE Quiesce
  BY <1>13, ItemsTypes, ConcludedFields DEF Quiesce
<1>14. CASE Reaped
  BY <1>14, ItemsTypes, ConcludedFields DEF Reaped, NotClosing
<1>15. CASE Exit
  <2>1. /\ worker.pc = "exit" /\ child' = child /\ worker \in Workers
        /\ closer \in [Closers -> Closings] /\ "worker" # "canceller"
    BY <1>15
    DEF Exit, AtWorker, DownloadsInv, TypeOK, DaemonTypeOK
  <2>2. CASE /\ closer' = [closer EXCEPT !["worker"].pc = "enter"]
             /\ worker' = worker
    BY <2>1, <2>2
    DEF DownloadsInv, WorkerLeavesNothing, LeftToCanceller, Closings, Closers
  <2>3. CASE /\ closer["worker"].pc = "returned"
             /\ closer' = [closer EXCEPT !["worker"] = NotClosing]
             /\ worker' = [worker EXCEPT !.pc = "finish",
                             !.error = @ \/ ~closer["worker"].ok]
    BY <2>1, <2>3
    DEF DownloadsInv, WorkerLeavesNothing, LeftToCanceller, Workers, Closings,
        Closers, NotClosing
  <2>4. QED
    BY <1>15, <2>2, <2>3 DEF Exit
<1>16. CASE Finish
  BY <1>16, ItemsTypes DEF Finish
<1>17. ASSUME EnsureStarted,
             UNCHANGED <<mainVars, queue, worker, canc, httpx>>
      PROVE  WorkerLeavesNothing'
  BY <1>17, ItemsTypes DEF EnsureStarted, Polled
<1>18. ASSUME SpawnFails,
             UNCHANGED <<mainVars, queue, worker, canc, httpx>>
      PROVE  WorkerLeavesNothing'
  BY <1>18, ItemsTypes DEF SpawnFails
<1>19. ASSUME Spawn,
             UNCHANGED <<mainVars, queue, worker, canc, httpx>>
      PROVE  WorkerLeavesNothing'
  BY <1>19, ItemsTypes DEF Spawn
<1>20. ASSUME PublishChild,
             UNCHANGED <<mainVars, queue, worker, canc, httpx>>
      PROVE  WorkerLeavesNothing'
  BY <1>20, ItemsTypes DEF PublishChild
<1>21. ASSUME BecomeReady,
             UNCHANGED <<mainVars, queue, worker, canc, httpx>>
      PROVE  WorkerLeavesNothing'
  BY <1>21, ItemsTypes DEF BecomeReady
<1>22. ASSUME StartFails,
             UNCHANGED <<mainVars, queue, worker, canc, httpx>>
      PROVE  WorkerLeavesNothing'
  BY <1>22, ItemsTypes DEF StartFails, Polled
<1>23. ASSUME PublishFailedStart,
             UNCHANGED <<mainVars, queue, worker, canc, httpx>>
      PROVE  WorkerLeavesNothing'
  BY <1>23, ItemsTypes DEF PublishFailedStart
<1>24. ASSUME CloseFailedStart,
             UNCHANGED <<mainVars, queue, worker, canc, httpx>>
      PROVE  WorkerLeavesNothing'
  BY <1>24, ItemsTypes DEF CloseFailedStart, NotClosing
<1>25. ASSUME NEW t \in Closers, CloseWakes(t),
             UNCHANGED <<mainVars, queue, worker, canc, httpx>>
      PROVE  WorkerLeavesNothing'
  BY <1>25, ItemsTypes, CloseWakesEffect DEF Closers
<1>26. ASSUME NEW t \in Closers, CloseGivesUp(t),
             UNCHANGED <<mainVars, queue, worker, canc, httpx>>
      PROVE  WorkerLeavesNothing'
  BY <1>26, ItemsTypes DEF CloseGivesUp, Closers
<1>27. ASSUME NEW t \in Closers, ShutdownProcess(t),
             UNCHANGED <<mainVars, queue, worker, canc, httpx>>
      PROVE  WorkerLeavesNothing'
  BY <1>27, ItemsTypes, ShutdownEffect DEF Closers
<1>28. ASSUME NEW t \in Closers, PublishTeardown(t),
             UNCHANGED <<mainVars, queue, worker, canc, httpx>>
      PROVE  WorkerLeavesNothing'
  BY <1>28, ItemsTypes DEF PublishTeardown, Closers
<1>29. CASE CancelHttpx
  BY <1>29, ItemsTypes DEF CancelHttpx
<1>30. CASE CancelAria
  BY <1>30, ItemsTypes DEF CancelAria
<1>31. CASE CancellerEnds
  BY <1>31, ItemsTypes DEF CancellerEnds
<1>32. CASE Activate
  BY <1>32, ItemsTypes DEF Activate, NoQueue, NoWorker
<1>33. CASE Activated
  BY <1>33, ItemsTypes DEF Activated
<1>34. CASE StartAsync
  BY <1>34, ItemsTypes
  DEF StartAsync, NoQueue, NoWorker, NoCanceller, NewAria, NotClosing
<1>35. CASE Admitted
  BY <1>35, ItemsTypes DEF Admitted
<1>36. CASE RequestStop
  BY <1>36, ItemsTypes DEF RequestStop
<1>37. CASE Wait
  BY <1>37, ItemsTypes DEF Wait
<1>38. CASE ForceCancel
  BY <1>38, ItemsTypes, ForceCancelEffect DEF ForceCancel
<1>39. CASE Kill
  BY <1>39, ItemsTypes DEF Kill, Polled
<1>40. CASE BeginStop
  BY <1>40, ItemsTypes DEF BeginStop
<1>41. CASE ReceiveSignal
  BY <1>41, ItemsTypes DEF ReceiveSignal
<1>42. CASE DaemonExits
  BY <1>42, ItemsTypes DEF DaemonExits, ChildExits, Running
<1>43. CASE UNCHANGED vars
  BY <1>43, ItemsTypes DEF vars
<1>44. QED
  BY <1>1, <1>2, <1>3, <1>4, <1>5, <1>6, <1>7, <1>8, <1>9, <1>10, <1>11,
     <1>12, <1>13, <1>14, <1>15, <1>16, <1>17, <1>18, <1>19, <1>20, <1>21,
     <1>22, <1>23, <1>24, <1>25, <1>26, <1>27, <1>28, <1>29, <1>30, <1>31,
     <1>32, <1>33, <1>34, <1>35, <1>36, <1>37, <1>38, <1>39, <1>40, <1>41,
     <1>42, <1>43
  DEF Next, Work, Cancel, Manage, StartDaemon, StartStep, CloseDaemon,
      CloseStep, Closers

-----------------------------------------------------------------------------
(* The theorems.                                                           *)

\* A generation starts without threads and without a daemon.
LEMMA InvariantInit == Init => DownloadsInv
<1> SUFFICES ASSUME Init PROVE DownloadsInv
  OBVIOUS
<1>1. /\ plan \in Plans /\ signal = FALSE /\ httpx = FALSE
      /\ main = [pc |-> "activate", why |-> "none", forced |-> FALSE]
      /\ queue = NoQueue /\ worker = NoWorker /\ canc = NoCanceller
      /\ aria = NewAria /\ child = "none" /\ starter = "idle"
      /\ closer = [t \in Closers |-> NotClosing]
  BY DEF Init, DaemonInit
<1>2. TypeOK
  <2>1. main \in Mains /\ queue \in Queues /\ worker \in Workers
        /\ canc \in Cancellers
    BY <1>1, PlacesAre
    DEF Mains, Queues, Workers, Cancellers, NoQueue, NoWorker, NoCanceller
  <2>2. aria \in Adapters /\ NotClosing \in Closings
    BY <1>1, AdapterPlaces DEF Adapters, Closings, NewAria, NotClosing
  <2>3. QED
    BY <1>1, <2>1, <2>2, AdapterPlaces DEF TypeOK, DaemonTypeOK
<1>3. MainInStep /\ StopComesFirst
  BY <1>1 DEF MainInStep, StopComesFirst, NoWorker, NoCanceller, NoQueue
<1>4. WorkerInStep
  BY <1>1, <1>2, ItemsTypes
  DEF WorkerInStep, NoWorker, NoQueue, Unregistered, InItem, UsesAria
<1>5. CancelReaches /\ AdapterInStep
  BY <1>1 DEF CancelReaches, AdapterInStep, NoCanceller, NoQueue, NotClosing,
              Closers
<1>6. DaemonInStep /\ ProcessIsOwned /\ WorkerLeavesNothing
  BY <1>1 DEF DaemonInStep, ProcessIsOwned, WorkerLeavesNothing, NoWorker,
              NotClosing, NewAria, Closers, TearingDown, LeftToCanceller
<1>7. QED
  BY <1>2, <1>3, <1>4, <1>5, <1>6 DEF DownloadsInv

\* The invariant holds for every plan.
THEOREM InvariantHolds == Spec => []DownloadsInv
<1>1. DownloadsInv /\ [Next]_vars => DownloadsInv'
  BY TypesStep, MainInStepKept, StopComesFirstKept, WorkerInStepKept,
     CancelReachesKept, AdapterInStepKept, DaemonInStepKept,
     ProcessIsOwnedKept, WorkerLeavesNothingKept DEF DownloadsInv
<1>2. QED
  BY InvariantInit, <1>1, PTL DEF Spec

\* Every variable keeps its type.
THEOREM TypesHold == Spec => []TypeOK
<1>1. DownloadsInv => TypeOK
  BY DEF DownloadsInv
<1>2. QED
  BY InvariantHolds, <1>1, PTL

\* A cancelling thread that ended has cancelled what the worker still uses.
THEOREM CancelReachesTransport == Spec => []StopReachesTransport
<1>1. DownloadsInv => StopReachesTransport
  BY DEF DownloadsInv, CancelReaches, StopReachesTransport, UsesHttpx, UsesAria
<1>2. QED
  BY InvariantHolds, <1>1, PTL

\* A generation that stopped has left no thread, no live daemon and no open
\* state file.
THEOREM StoppedIsClean == Spec => []StoppedLeavesNothing
<1>1. DownloadsInv => StoppedLeavesNothing
  BY DEF DownloadsInv, MainInStep, AdapterInStep, WorkerLeavesNothing,
         LeftToCanceller, StoppedLeavesNothing, WorkerAlive, CancellerAlive
<1>2. QED
  BY InvariantHolds, <1>1, PTL

\* A cancelled aria2 queue left no daemon that writes its partial file.
THEOREM CancelledHasNoDaemon == Spec => []CancelledIsQuiescent
<1>1. DownloadsInv => CancelledIsQuiescent
  BY DEF DownloadsInv, WorkerLeavesNothing, CancelledIsQuiescent
<1>2. QED
  BY InvariantHolds, <1>1, PTL

\* A late stop does not take a completion back.
THEOREM CompletionIsKept == Spec => []CompletionKept
<1>1. DownloadsInv => CompletionKept
  BY DEF DownloadsInv, WorkerInStep, CompletionKept
<1>2. QED
  BY InvariantHolds, <1>1, PTL
=============================================================================
