--------------------------- MODULE EventDelivery ---------------------------
(***************************************************************************)
(* The bounded, failure-isolated delivery of background facts to the       *)
(* presentation (src/comfyui_docker_helper/container/runtime/              *)
(* event_delivery.py): producers offer warnings, transitions and progress  *)
(* without waiting; one worker drains everything under the lock and hands  *)
(* it to the sink outside of it; close lets the worker finish within a     *)
(* deadline that a force request cuts short.                               *)
(*                                                                         *)
(* The queues of warnings and transitions are sets of numbered events: the *)
(* code sorts both together by that number when it drains them, so their   *)
(* place in a list says nothing more.                                      *)
(***************************************************************************)
EXTENDS Naturals, Sequences, FiniteSets

CONSTANTS WarningCapacity,     \* warnings kept one by one
          TransitionCapacity,  \* transitions kept one by one
          ProgressCapacity,    \* transfers whose progress is kept
          Categories,          \* the warning categories
          Scopes               \* transfers that report progress

ASSUME CapacitiesPositive ==
  /\ WarningCapacity \in Nat \ {0} /\ TransitionCapacity \in Nat \ {0}
  /\ ProgressCapacity \in Nat \ {0}

(* A transition has no warning category. *)
ASSUME CategoriesAreWarnings == "none" \notin Categories

VARIABLES bg,      \* what the lock guards: queues, counts, slots, closed
          dworker, \* the worker: place, its view of closed, what it carries
          dclosed, \* the worker was told to finish
          awake,   \* the worker's revision moved since it last looked
          cut,     \* the close deadline passed, or force was requested
          offers,  \* history: offers made
          offered, \* history: warnings accepted, per category
          told,    \* history: warnings handed to the sink or counted there
          last,    \* history: the latest offer handed over by itself
          dropped  \* history: warnings a cut kept from the sink

deliveryVars == <<bg, dworker, dclosed, awake, cut, offers, offered, told,
                  last, dropped>>

NoCounts == [c \in Categories |-> 0]

DeliveryInit ==
  /\ \E information \in BOOLEAN :
       bg = [warnings |-> {}, transitions |-> {}, counts |-> NoCounts,
             omitted |-> 0, progress |-> <<>>, next |-> 0, closed |-> FALSE,
             information |-> information]
  /\ dworker = [at |-> "top", final |-> FALSE, out |-> {},
                counts |-> NoCounts]
  /\ dclosed = FALSE
  /\ awake = FALSE
  /\ cut = FALSE
  /\ offers = 0
  /\ offered = NoCounts
  /\ told = NoCounts
  /\ last = 0
  /\ dropped = NoCounts

OnlyOffers == UNCHANGED <<dworker, dclosed, cut, told, last, dropped>>

Queued(id, c) == [seq |-> bg.next, id |-> id, category |-> c]

(* An event finds room in its queue. *)
RoomFor(queue, capacity) == Cardinality(queue) < capacity

WarnedQuietly(id, c) ==                                             \* mutant
  IF RoomFor(bg.warnings, WarningCapacity)
  THEN [bg EXCEPT !.warnings = @ \cup {Queued(id, c)}, !.next = @ + 1]
  ELSE bg

(* emit of a warning: the event itself while there is room, else a count. *)
Warned(id, c) ==
  IF RoomFor(bg.warnings, WarningCapacity)
  THEN [bg EXCEPT !.warnings = @ \cup {Queued(id, c)}, !.next = @ + 1]
  ELSE [bg EXCEPT !.counts[c] = @ + 1]

Warn(c) ==
  /\ IF bg.closed THEN UNCHANGED <<bg, awake, offered>>
     ELSE /\ bg' = Warned(offers + 1, c)
          /\ awake' = TRUE
          /\ offered' = [offered EXCEPT ![c] = @ + 1]
  /\ offers' = offers + 1
  /\ OnlyOffers

(* emit of a transition. *)
Announce ==
  /\ offers' = offers + 1
  /\ IF bg.closed \/ ~bg.information THEN UNCHANGED <<bg, awake>>
     ELSE /\ awake' = TRUE
          /\ bg' = IF RoomFor(bg.transitions, TransitionCapacity)
                   THEN [bg EXCEPT !.next = @ + 1, !.transitions =
                           @ \cup {Queued(offers + 1, "none")}]
                   ELSE [bg EXCEPT !.omitted = @ + 1]
  /\ UNCHANGED offered
  /\ OnlyOffers

(* The place of a transfer, which has one at most. *)
PlacesOf(s) == {i \in DOMAIN bg.progress : bg.progress[i].scope = s}

WithoutScope(s) ==
  IF PlacesOf(s) = {} THEN bg.progress
  ELSE LET i == CHOOSE i \in PlacesOf(s) : TRUE
       IN SubSeq(bg.progress, 1, i - 1)
            \o SubSeq(bg.progress, i + 1, Len(bg.progress))

(* emit_progress: the newest scope is last and the oldest makes room; the *)
(* cadence decides what becomes due (transfer/cadence.py).                *)
Progress(s) ==
  /\ offers' = offers + 1
  /\ IF bg.closed \/ ~bg.information THEN UNCHANGED <<bg, awake>>
     ELSE /\ awake' = TRUE
          /\ \E due \in BOOLEAN :
               LET held == \E i \in PlacesOf(s) : bg.progress[i].due
                   full == /\ PlacesOf(s) = {}
                           /\ Len(bg.progress) >= ProgressCapacity
                   rest == IF full THEN Tail(bg.progress) ELSE WithoutScope(s)
               IN bg' = [bg EXCEPT
                     !.omitted = IF full THEN @ + 1 ELSE @,
                     !.progress = Append(rest, [scope |-> s,
                                                due |-> due \/ held])]
  /\ UNCHANGED offered
  /\ OnlyOffers

CloseProgress(s) ==
  /\ PlacesOf(s) # {}
  /\ bg' = [bg EXCEPT !.progress = WithoutScope(s)]
  /\ awake' = TRUE
  /\ UNCHANGED <<offers, offered>>
  /\ OnlyOffers

-----------------------------------------------------------------------------
(* The worker.                                                             *)

OnlyWorker == UNCHANGED <<dclosed, cut, offers, offered>>

Look ==
  /\ dworker.at = "top"
  /\ dworker' = [dworker EXCEPT !.at = "drain", !.final = dclosed]
  /\ awake' = FALSE
  /\ UNCHANGED <<bg, told, last, dropped>>
  /\ OnlyWorker

(* _drain_once under the lock takes all there is: the events one by one,  *)
(* and the counts; what is due of progress and the count of omissions need *)
(* no later trace.                                                         *)
Drained ==
  [bg EXCEPT !.warnings = {}, !.transitions = {}, !.counts = NoCounts,
             !.omitted = 0, !.next = 0,
             !.progress = IF dworker.final \/ bg.closed THEN <<>>
                          ELSE [i \in DOMAIN @ |-> [@[i] EXCEPT !.due = FALSE]]]

Drain ==
  /\ dworker.at = "drain"
  /\ dworker' = [dworker EXCEPT !.at = "deliver",
                   !.out = bg.warnings \cup bg.transitions,
                   !.counts = bg.counts]
  /\ bg' = Drained
  /\ UNCHANGED <<awake, told, last, dropped>>
  /\ OnlyWorker

Of(c, events) == Cardinality({e \in events : e.category = c})
CarriesNothing == dworker.out = {} /\ dworker.counts = NoCounts

(* The events are handed over in the order of their numbers ... *)
IsNext(e) == \A f \in dworker.out : e.seq <= f.seq

DeliverEvent ==
  /\ dworker.at = "deliver" /\ ~(bg.closed /\ cut)
  /\ \E e \in dworker.out :
       /\ IsNext(e)
       /\ told' = [c \in Categories |-> told[c] + Of(c, {e})]
       /\ last' = e.id
       /\ dworker' = [dworker EXCEPT !.out = @ \ {e}]
  /\ UNCHANGED <<bg, awake, dropped>>
  /\ OnlyWorker

(* ... and then one aggregate for every category with a count. *)
DeliverCount ==
  /\ dworker.at = "deliver" /\ dworker.out = {} /\ ~(bg.closed /\ cut)
  /\ \E c \in Categories :
       /\ dworker.counts[c] > 0
       /\ told' = [told EXCEPT ![c] = @ + dworker.counts[c]]
       /\ dworker' = [dworker EXCEPT !.counts[c] = 0]
  /\ UNCHANGED <<bg, awake, last, dropped>>
  /\ OnlyWorker

(* Once closed, the deadline or a force request ends the hand-over. *)
CutOff ==
  /\ dworker.at = "deliver" /\ ~CarriesNothing
  /\ bg.closed /\ cut
  /\ dropped' = [c \in Categories |->
                    dropped[c] + dworker.counts[c] + Of(c, dworker.out)]
  /\ dworker' = [dworker EXCEPT !.out = {}, !.counts = NoCounts]
  /\ UNCHANGED <<bg, awake, told, last>>
  /\ OnlyWorker

Finish ==
  /\ dworker.at = "deliver" /\ CarriesNothing
  /\ dworker' = [dworker EXCEPT !.at = IF dworker.final THEN "exit" ELSE "idle"]
  /\ UNCHANGED <<bg, awake, told, last, dropped>>
  /\ OnlyWorker

(* Woken, told to finish, or by the time at which progress is due. *)
Wake ==
  /\ dworker.at = "idle"
  /\ dclosed \/ awake \/ bg.progress # <<>>
  /\ dworker' = [dworker EXCEPT !.at = "top"]
  /\ UNCHANGED <<bg, awake, told, last, dropped>>
  /\ OnlyWorker

WorkerStep == \/ Look \/ Drain \/ DeliverEvent \/ DeliverCount
              \/ CutOff \/ Finish \/ Wake

-----------------------------------------------------------------------------
(* close: first the queues, then the worker.                               *)
CloseQueues ==
  /\ bg' = [bg EXCEPT !.closed = TRUE]
  /\ UNCHANGED <<awake, offers, offered>> /\ OnlyOffers

CloseWorker ==
  /\ dclosed' = TRUE
  /\ UNCHANGED <<bg, dworker, awake, cut, offers, offered, told, last, dropped>>

CutPasses ==
  /\ dclosed /\ ~cut
  /\ cut' = TRUE
  /\ UNCHANGED <<bg, dworker, dclosed, awake, offers, offered, told, last,
                 dropped>>

DeliveryTypeOK ==
  /\ Cardinality(bg.warnings) \in 0..WarningCapacity
  /\ Cardinality(bg.transitions) \in 0..TransitionCapacity
  /\ Len(bg.progress) \in 0..ProgressCapacity
  /\ dworker.at \in {"top", "drain", "deliver", "idle", "exit"}
  /\ {dclosed, awake, cut, bg.closed, bg.information} \subseteq BOOLEAN

(* Warnings in the queue, in the counters, or carried by the worker. *)
Held(c) == bg.counts[c] + Of(c, bg.warnings)
             + dworker.counts[c] + Of(c, dworker.out)

(* Every accepted warning reaches the presentation, itself or in a count, *)
(* unless the close was cut; and what is handed over by itself arrives in *)
(* the order it was offered (event_delivery.py emit and _drain_once).     *)
WarningsAccounted ==
  /\ \A c \in Categories : offered[c] = told[c] + Held(c) + dropped[c]
  /\ dworker.at = "exit" /\ ~cut => told = offered
  /\ \A e \in dworker.out : last < e.id
=============================================================================
