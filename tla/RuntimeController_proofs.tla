---------------------- MODULE RuntimeController_proofs ----------------------
(***************************************************************************)
(* The controller, and the two systems that implement it: the serve loop   *)
(* with its main thread and its listeners, and the control endpoint with   *)
(* its clients and workers.  Everything here is for every set of tickets   *)
(* and signals, for every set of clients and for every limit.              *)
(*                                                                         *)
(* 1. The controller.  PendingHoldsSlot and AcceptedKeepsSlot are not      *)
(* inductive: they do not say that a free slot has no operation and no     *)
(* result, that an operation in progress is the latest one, nor that a     *)
(* ticket on its way to be published is the active one.  SlotInv adds      *)
(* that.                                                                   *)
(*                                                                         *)
(* 2. The serve loop.  The main thread and the listeners make only legal   *)
(* steps of the controller, so every theorem about the controller holds in *)
(* the running system; shutdown outranks restarts; a successor replaces    *)
(* its predecessor completely; the events of the generations come in       *)
(* order; no call of the controller ever raises; and a process that exits  *)
(* leaves nothing pending.  The two action properties need to know where   *)
(* the main thread can be once a signal is latched (LatchedWhere), and     *)
(* what stands at the end of a finalization (FinalizedComplete).  The      *)
(* order of the events needs what was announced last where the main thread *)
(* is (EventsTold), and in whose hands the end of the generation is: the   *)
(* lease's or the lifecycle's (LeaseHeld).  The calls need what a start, a *)
(* result, a shutdown path and an exit claim of the controller's latches   *)
(* (CallInv).  The types of its own state (MainLimits) rest on one more    *)
(* fact: no phase runs that the lifecycle does not have (PhaseRuns).       *)
(*                                                                         *)
(* 3. The control endpoint.  Its worker threads make only legal steps of   *)
(* the controller, and its books about peers are right.  PeerAccounting is *)
(* not inductive: it does not say which sockets belong to registered       *)
(* peers, nor that nothing is accepted after the stop.  EndpointInv adds   *)
(* that.  Nor are AnswerIsTruth and AnsweredNotLost: they say what a       *)
(* client has heard, and nothing of the frames still on their way, of how  *)
(* far its worker is, or of the copy of the ticket the worker acts on.     *)
(* Conversation(c) relates those, one client at a time, and PeersInv       *)
(* collects everything that is known of the endpoint.                      *)
(***************************************************************************)
EXTENDS RuntimeServe, RuntimeControlPeers, SequenceTheorems,
        FiniteSetTheorems, TLAPS

-----------------------------------------------------------------------------
(***************************************************************************)
(* Part 1: the controller.                                                 *)
(***************************************************************************)

\* The slot and its operation are taken and given back together.
SlotConsistent ==
    /\ active = NoTicket <=> operation = 0
    /\ active = NoTicket => terminal = "none"
    /\ active # NoTicket =>
         state \in {"restarting", "stopping"} /\ operation = opCounter

\* Only a committed result makes the operation in progress the last restart.
LastRestartConsistent ==
    /\ lastRestart.id <= opCounter
    /\ active # NoTicket /\ terminal = "none" => lastRestart.id < operation
    /\ terminal # "none" =>
         lastRestart.id = operation /\ lastRestart.result = terminal

\* The ticket whose publication is in progress is the active one.
PublicationConsistent ==
    unpublished # NoTicket =>
        /\ unpublished = active
        /\ terminal # "none"
        /\ ticket[unpublished].state = "accepted"

\* Operations on tickets: none before acceptance, the slot's own while a
\* ticket is active, and afterwards the one it was answered for.
TicketOperations ==
    \A t \in Tickets :
        /\ ticket[t].state \in {"idle", "pending", "rejected"} =>
             ticket[t].operation = 0
        /\ ticket[t].state \in {"accepted"} \cup Results =>
             ticket[t].operation \in 1..opCounter
        /\ active = t =>
             /\ ticket[t].operation = operation
             /\ ticket[t].state \in {"accepted"} \cup Results
             /\ ticket[t].state \in Results => terminal = ticket[t].state
        /\ ticket[t].state = "accepted" => active = t

\* The inductive invariant: what the runs check, and what makes it inductive.
SlotInv ==
    /\ TypeOK
    /\ PendingHoldsSlot
    /\ AcceptedKeepsSlot
    /\ ResultsAgree
    /\ SlotConsistent
    /\ LastRestartConsistent
    /\ PublicationConsistent
    /\ TicketOperations

-----------------------------------------------------------------------------
USE NoTicketAssumption, NoSignalAssumption

\* What a ticket shows its observers.
TicketRecord == [state : TicketStates, operation : Nat]

\* Publishing on one ticket changes that ticket alone.
LEMMA PublishedOne ==
    ASSUME NEW shown \in [Tickets -> TicketRecord], NEW t \in Tickets,
           NEW newState \in TicketStates, NEW op \in Nat
    PROVE  /\ Published(shown, t, newState, op)
                \in [Tickets -> TicketRecord]
           /\ Published(shown, t, newState, op)[t].state = newState
           /\ Published(shown, t, newState, op)[t].operation =
                IF op = 0 THEN shown[t].operation ELSE op
           /\ \A u \in Tickets \ {t} :
                Published(shown, t, newState, op)[u] = shown[u]
<1>1. shown[t] \in TicketRecord /\ shown[t].operation \in Nat
  BY DEF TicketRecord
<1> DEFINE rec == [state |-> newState,
                   operation |-> IF op = 0 THEN shown[t].operation ELSE op]
<1>2. rec \in TicketRecord
  BY <1>1 DEF TicketRecord
<1>3. Published(shown, t, newState, op) = [shown EXCEPT ![t] = rec]
  BY DEF Published
<1> HIDE DEF rec
<1>4. /\ [shown EXCEPT ![t] = rec] \in [Tickets -> TicketRecord]
      /\ [shown EXCEPT ![t] = rec][t] = rec
      /\ \A u \in Tickets \ {t} : [shown EXCEPT ![t] = rec][u] = shown[u]
  BY <1>2
<1>5. rec.state = newState
      /\ rec.operation = IF op = 0 THEN shown[t].operation ELSE op
  BY DEF rec
<1>6. QED
  BY <1>3, <1>4, <1>5

\* Turning the pending proposal away changes that proposal alone.
LEMMA RejectedOne ==
    ASSUME TypeOK
    PROVE  /\ PendingRejected \in [Tickets -> TicketRecord]
           /\ pending # NoTicket =>
                /\ PendingRejected[pending].state = "rejected"
                /\ PendingRejected[pending].operation =
                     ticket[pending].operation
           /\ \A u \in Tickets \ {pending} : PendingRejected[u] = ticket[u]
<1>1. ticket \in [Tickets -> TicketRecord]
  BY DEF TypeOK, TicketRecord
<1>2. CASE pending = NoTicket
  BY <1>1, <1>2 DEF PendingRejected
<1>3. CASE pending # NoTicket
  <2>1. pending \in Tickets /\ "rejected" \in TicketStates /\ 0 \in Nat
    BY <1>3 DEF TypeOK, TicketStates
  <2>2. PendingRejected = Published(ticket, pending, "rejected", 0)
    BY <1>3 DEF PendingRejected
  <2>3. QED
    BY <1>1, <2>1, <2>2, PublishedOne
<1>4. QED
  BY <1>2, <1>3

\* A new RuntimeController is well typed.
LEMMA TypeInit == ControllerInit => TypeOK
<1> SUFFICES ASSUME ControllerInit PROVE TypeOK
  OBVIOUS
<1>1. ticket \in [Tickets -> [state : TicketStates, operation : Nat]]
  BY DEF ControllerInit, TicketStates
<1>2. lastRestart \in [id : Nat, result : Results \cup {"none"}]
  BY DEF ControllerInit, NoRestart
<1>3. externalSignal \in [signal : Signals \cup {NoSignal},
                          repeated : BOOLEAN]
  BY DEF ControllerInit
<1>4. QED
  BY <1>1, <1>2, <1>3 DEF ControllerInit, TypeOK, States, Phases

\* The latch keeps the first signal and at most one bit of repetition.
LEMMA LatchedType ==
    ASSUME TypeOK, NEW s \in Signals
    PROVE  Latched(s) \in [signal : Signals \cup {NoSignal},
                           repeated : BOOLEAN]
<1>1. CASE externalSignal.signal = NoSignal
  BY <1>1 DEF Latched
<1>2. CASE externalSignal.signal # NoSignal
  BY <1>2 DEF Latched, TypeOK
<1>3. QED
  BY <1>1, <1>2

\* Every method keeps the types.  Showing a result needs PublicationConsistent:
\* only then is what _publish writes a result.
LEMMA TypeStep ==
    TypeOK /\ PublicationConsistent /\ [ControllerNext]_controllerVars
      => TypeOK'
<1> SUFFICES ASSUME TypeOK, PublicationConsistent,
                    [ControllerNext]_controllerVars
             PROVE  TypeOK'
  OBVIOUS
<1> DEFINE TicketType == [Tickets -> TicketRecord]
<1>0. ticket \in TicketType
  BY DEF TypeOK, TicketRecord
<1>1. ASSUME NEW t \in Tickets, SubmitRestart(t)
      PROVE  TypeOK'
  <2>1. ticket' = [ticket EXCEPT ![t].state = "pending"]
    BY <1>1 DEF SubmitRestart
  <2>2. ticket' \in TicketType
    BY <1>0, <2>1 DEF TicketRecord, TicketStates
  <2>3. QED
    BY <1>1, <2>2 DEF SubmitRestart, TypeOK, TicketStates
<1>2. ASSUME NEW t \in Tickets, WithdrawRestart(t)
      PROVE  TypeOK'
  <2>1. ticket' = Published(ticket, t, "rejected", 0)
    BY <1>2 DEF WithdrawRestart
  <2>2. ticket' \in TicketType
    BY <1>0, <2>1, PublishedOne DEF TicketStates
  <2>3. /\ pending' = NoTicket /\ wakeup' = FALSE
        /\ UNCHANGED <<state, phase, generation, opCounter, operation,
                       lastRestart, active, terminal, unpublished,
                       externalSignal, runtimeFailure>>
    BY <1>2 DEF WithdrawRestart
  <2>4. QED
    BY <2>2, <2>3 DEF TicketRecord, TypeOK
<1>3. ASSUME ObserveRuntimeFailure
      PROVE  TypeOK'
  BY <1>3 DEF ObserveRuntimeFailure, TypeOK
<1>4. ASSUME NEW s \in Signals, ObserveExternalSignal(s)
      PROVE  TypeOK'
  <2>1. /\ externalSignal' = Latched(s)
        /\ UNCHANGED <<state, phase, generation, opCounter, operation,
                       lastRestart, pending, active, terminal, ticket,
                       unpublished, wakeup, runtimeFailure>>
    BY <1>4 DEF ObserveExternalSignal
  <2>2. QED
    BY <2>1, LatchedType DEF TypeOK
<1>5. ASSUME NEW s \in Signals, InterruptPublication(s)
      PROVE  TypeOK'
  <2>1. /\ externalSignal' = Latched(s) /\ unpublished' = NoTicket
        /\ UNCHANGED <<state, phase, generation, opCounter, operation,
                       lastRestart, pending, active, terminal, ticket,
                       wakeup, runtimeFailure>>
    BY <1>5 DEF InterruptPublication
  <2>2. QED
    BY <2>1, LatchedType DEF TypeOK
<1>6. ASSUME BeginInitialAdmission
      PROVE  TypeOK'
  BY <1>6 DEF BeginInitialAdmission, TypeOK
<1>7. ASSUME MarkInitialGenerationRunning
      PROVE  TypeOK'
  BY <1>7 DEF MarkInitialGenerationRunning, TypeOK, States, Phases
<1>8. ASSUME AcceptPending
      PROVE  TypeOK'
  <2>1. /\ ticket' = Published(ticket, pending, "accepted", NextOperation)
        /\ pending \in Tickets
        /\ NextOperation \in Nat
    BY <1>8 DEF AcceptPending, MayAccept, NextOperation, TypeOK
  <2>2. ticket' \in TicketType
    BY <1>0, <2>1, PublishedOne DEF TicketStates
  <2>3. /\ opCounter' = NextOperation /\ operation' = NextOperation
        /\ pending' = NoTicket /\ active' = pending
        /\ state' = "restarting" /\ phase' = "stopping_generation"
        /\ wakeup' = FALSE
        /\ UNCHANGED <<generation, lastRestart, terminal, unpublished,
                       externalSignal, runtimeFailure>>
    BY <1>8 DEF AcceptPending
  <2>4. QED
    BY <2>1, <2>2, <2>3 DEF TicketRecord, TypeOK, States, Phases
<1>9. ASSUME DeclinePending
      PROVE  TypeOK'
  <2>1. ticket' = PendingRejected \/ ticket' = ticket
    BY <1>9 DEF DeclinePending
  <2>2. ticket' \in TicketType
    BY <1>0, <2>1, RejectedOne
  <2>3. pending' \in {pending, NoTicket} /\ wakeup' \in {wakeup, FALSE}
    <3>1. CASE SignalLatched \/ runtimeFailure
      <4>1. pending' = NoTicket /\ wakeup' = (wakeup /\ pending = NoTicket)
        BY <1>9, <3>1 DEF DeclinePending, EmptySlot
      <4>2. QED
        BY <4>1, Zenon DEF TypeOK
    <3>2. CASE ~(SignalLatched \/ runtimeFailure)
      BY <1>9, <3>2 DEF DeclinePending
    <3>3. QED
      BY <3>1, <3>2
  <2>4. UNCHANGED <<state, phase, generation, opCounter, operation,
                       lastRestart, active, terminal, unpublished,
                       externalSignal, runtimeFailure>>
    BY <1>9 DEF DeclinePending
  <2>5. QED
    BY <2>2, <2>3, <2>4 DEF TicketRecord, TypeOK
<1>10. ASSUME AllocateRestartSuccessor
      PROVE  TypeOK'
  BY <1>10 DEF AllocateRestartSuccessor, TypeOK, Phases
<1>11. ASSUME DenyRestartSuccessor
      PROVE  TypeOK'
  BY <1>11
     DEF DenyRestartSuccessor, CommitRestartTerminal, EffectiveResult,
     CommitTerminal, TypeOK, States, Phases, Results
<1>12. ASSUME NEW outcome \in Results, CommitRestartTerminal(outcome)
      PROVE  TypeOK'
  BY <1>12
     DEF CommitRestartTerminal, EffectiveResult, CommitTerminal, TypeOK,
     States, Phases, Results
<1>13. ASSUME PublishCommitted
      PROVE  TypeOK'
  <2>1. /\ ticket' = Published(ticket, unpublished, terminal, operation)
        /\ unpublished \in Tickets
        /\ operation \in Nat
        /\ terminal \in Results
    BY <1>13 DEF PublishCommitted, TypeOK, PublicationConsistent
  <2>2. ticket' \in TicketType
    BY <1>0, <2>1, PublishedOne DEF Results, TicketStates
  <2>3. /\ unpublished' = NoTicket
        /\ UNCHANGED <<state, phase, generation, opCounter, operation,
                       lastRestart, pending, active, terminal, wakeup,
                       externalSignal, runtimeFailure>>
    BY <1>13 DEF PublishCommitted
  <2>4. QED
    BY <2>2, <2>3 DEF TicketRecord, TypeOK
<1>14. ASSUME ReleaseSuccessfulRestart
      PROVE  TypeOK'
  BY <1>14
     DEF ReleaseSuccessfulRestart, EnterFinalization, TypeOK, States, Phases
<1>15. ASSUME MarkGenerationTerminal
      PROVE  TypeOK'
  <2>1. ticket' = PendingRejected
    BY <1>15 DEF MarkGenerationTerminal
  <2>2. ticket' \in TicketType
    BY <2>1, RejectedOne
  <2>3. QED
    BY <1>15, <2>2
       DEF MarkGenerationTerminal, EmptySlot, EnterFinalization, TicketRecord,
       TypeOK, States, Phases
<1>16. ASSUME MarkExternalShutdown
      PROVE  TypeOK'
  <2>1. \/ ticket' = PendingRejected
        \/ /\ ticket' = Published(PendingRejected, active, "failed", operation)
           /\ active \in Tickets
           /\ operation \in Nat
    BY <1>16 DEF MarkExternalShutdown, TypeOK
  <2>2. ticket' \in TicketType
    BY <2>1, PublishedOne, RejectedOne DEF TicketStates
  <2>3. QED
    BY <1>16, <2>2
       DEF MarkExternalShutdown, EmptySlot, EnterFinalization, TicketRecord,
       TypeOK, States, Phases, Results
<1>17. ASSUME NEW s \in Signals, InterruptRejection(s)
      PROVE  TypeOK'
  <2>1. /\ externalSignal' = Latched(s) /\ pending' = NoTicket
        /\ wakeup' \in {wakeup, FALSE}
        /\ UNCHANGED <<state, phase, generation, opCounter, operation,
                       lastRestart, active, terminal, ticket, unpublished,
                       runtimeFailure>>
    BY <1>17 DEF InterruptRejection
  <2>2. QED
    BY <2>1, LatchedType DEF TypeOK
<1>18. CASE UNCHANGED controllerVars
  BY <1>18 DEF controllerVars, TypeOK
<1>19. QED
  BY <1>1, <1>2, <1>3, <1>4, <1>5, <1>6, <1>7, <1>8, <1>9, <1>10, <1>11,
     <1>12, <1>13, <1>14, <1>15, <1>16, <1>17, <1>18
     DEF ControllerNext

-----------------------------------------------------------------------------
(* What each action does to the tickets: to one of them, or to none.       *)

\* Ticket t moves to the given state and operation and no other one moves.
MovesOne(t, newState, op) ==
    /\ t \in Tickets
    /\ ticket'[t].state = newState
    /\ ticket'[t].operation = op
    /\ \A u \in Tickets \ {t} : ticket'[u] = ticket[u]

\* _publish moves the one ticket it is called on.
LEMMA PublishedMovesOne ==
    ASSUME TypeOK, NEW t \in Tickets, NEW newState \in TicketStates,
           NEW op \in Nat, ticket' = Published(ticket, t, newState, op)
    PROVE  MovesOne(t, newState, IF op = 0 THEN ticket[t].operation ELSE op)
<1>1. ticket \in [Tickets -> TicketRecord]
  BY DEF TypeOK, TicketRecord
<1>2. QED
  BY <1>1, PublishedOne DEF MovesOne

\* submit_restart moves the new proposal.
LEMMA SubmitMovesOne ==
    ASSUME TypeOK, NEW t \in Tickets, SubmitRestart(t)
    PROVE  MovesOne(t, "pending", ticket[t].operation)
BY DEF TypeOK, SubmitRestart, MovesOne

\* withdraw_restart moves the proposal that leaves.
LEMMA WithdrawMovesOne ==
    ASSUME TypeOK, NEW t \in Tickets, WithdrawRestart(t)
    PROVE  MovesOne(t, "rejected", ticket[t].operation)
<1>1. ticket' = Published(ticket, t, "rejected", 0)
  BY DEF WithdrawRestart
<1>2. "rejected" \in TicketStates /\ 0 \in Nat
  BY DEF TicketStates
<1>3. QED
  BY <1>1, <1>2, PublishedMovesOne

\* accept_if_requested moves the proposal it accepts, to the next operation.
LEMMA AcceptMovesOne ==
    ASSUME TypeOK, AcceptPending
    PROVE  MovesOne(pending, "accepted", opCounter + 1)
<1>1. /\ pending \in Tickets
      /\ opCounter + 1 \in Nat
      /\ opCounter + 1 # 0
      /\ "accepted" \in TicketStates
  BY DEF AcceptPending, MayAccept, TypeOK, TicketStates
<1>2. ticket' = Published(ticket, pending, "accepted", opCounter + 1)
  BY DEF AcceptPending, NextOperation
<1>3. QED
  BY <1>1, <1>2, PublishedMovesOne

\* Showing a committed result moves the active ticket and keeps its operation.
LEMMA PublishMovesOne ==
    ASSUME SlotInv, PublishCommitted
    PROVE  MovesOne(unpublished, terminal, ticket[unpublished].operation)
<1>1. /\ unpublished \in Tickets
      /\ terminal \in Results
      /\ operation \in Nat
      /\ ticket[unpublished].operation = operation
  BY DEF PublishCommitted, SlotInv, TypeOK, PublicationConsistent,
     TicketOperations
<1>2. ticket' = Published(ticket, unpublished, terminal, operation)
  BY DEF PublishCommitted
<1>3. terminal \in TicketStates /\ TypeOK
  BY <1>1 DEF Results, TicketStates, SlotInv
<1>4. QED
  BY <1>1, <1>2, <1>3, PublishedMovesOne

\* _reject_pending_unlocked moves the pending proposal, if there is one.
LEMMA RejectMovesOne ==
    ASSUME TypeOK, ticket' = PendingRejected
    PROVE  \/ pending = NoTicket /\ ticket' = ticket
           \/ /\ pending # NoTicket
              /\ MovesOne(pending, "rejected", ticket[pending].operation)
<1>1. CASE pending = NoTicket
  BY <1>1 DEF PendingRejected
<1>2. CASE pending # NoTicket
  BY <1>2, RejectedOne DEF MovesOne, TypeOK
<1>3. QED
  BY <1>1, <1>2

\* accept_if_requested that declines moves the pending proposal or nothing.
LEMMA DeclineMovesOne ==
    ASSUME TypeOK, DeclinePending
    PROVE  \/ UNCHANGED <<pending, wakeup, ticket>>
           \/ pending = NoTicket /\ pending' = NoTicket /\ ticket' = ticket
           \/ /\ pending # NoTicket /\ pending' = NoTicket
              /\ MovesOne(pending, "rejected", ticket[pending].operation)
<1>1. CASE SignalLatched \/ runtimeFailure
  BY <1>1, RejectMovesOne DEF DeclinePending, EmptySlot
<1>2. CASE ~(SignalLatched \/ runtimeFailure)
  BY <1>2 DEF DeclinePending
<1>3. QED
  BY <1>1, <1>2

\* A proposal is never pending beside an active one, so external shutdown
\* answers at most one ticket.
LEMMA ExternalMovesOne ==
    ASSUME SlotInv, MarkExternalShutdown
    PROVE  \/ ticket' = ticket /\ pending = NoTicket
                /\ UNCHANGED <<lastRestart, terminal>>
           \/ /\ pending # NoTicket /\ active = NoTicket
              /\ UNCHANGED <<lastRestart, terminal>>
              /\ MovesOne(pending, "rejected", ticket[pending].operation)
           \/ /\ active # NoTicket /\ pending = NoTicket /\ terminal = "none"
              /\ terminal' = "failed"
              /\ lastRestart' = [id |-> operation, result |-> "failed"]
              /\ MovesOne(active, "failed", operation)
<1>1. TypeOK /\ (pending # NoTicket => active = NoTicket)
  BY DEF SlotInv, PendingHoldsSlot
<1>2. CASE active # NoTicket /\ terminal = "none"
  <2>1. /\ active \in Tickets
        /\ "failed" \in TicketStates
        /\ operation \in Nat
        /\ operation # 0
    BY <1>1, <1>2 DEF TypeOK, TicketStates, SlotInv, SlotConsistent
  <2>2. pending = NoTicket /\ PendingRejected = ticket
    BY <1>1, <1>2 DEF PendingRejected
  <2>3. /\ ticket' = Published(ticket, active, "failed", operation)
        /\ terminal' = "failed"
        /\ lastRestart' = [id |-> operation, result |-> "failed"]
    BY <1>2, <2>2 DEF MarkExternalShutdown
  <2>4. MovesOne(active, "failed", operation)
    BY <1>1, <2>1, <2>3, PublishedMovesOne
  <2>5. QED
    BY <1>2, <2>2, <2>3, <2>4
<1>3. CASE ~(active # NoTicket /\ terminal = "none")
  <2>1. ticket' = PendingRejected /\ UNCHANGED <<lastRestart, terminal>>
    BY <1>3 DEF MarkExternalShutdown
  <2>2. QED
    BY <1>1, <2>1, RejectMovesOne
<1>4. QED
  BY <1>2, <1>3

\* Every method, torn or not, preserves the slot's invariant.
LEMMA SlotStep ==
    SlotInv /\ [ControllerNext]_controllerVars => SlotInv'
<1> SUFFICES ASSUME SlotInv, [ControllerNext]_controllerVars
             PROVE  SlotInv'
  OBVIOUS
<1>0. TypeOK /\ TypeOK'
  BY TypeStep DEF SlotInv
<1>1. ASSUME NEW t \in Tickets, SubmitRestart(t)
      PROVE  SlotInv'
  <2>1. MovesOne(t, "pending", ticket[t].operation)
    BY <1>0, <1>1, SubmitMovesOne DEF SubmitRestart
  <2>2. PendingHoldsSlot'
    BY <1>0, <1>1, <2>1
       DEF SubmitRestart, SlotInv, TypeOK, PendingHoldsSlot, SignalLatched
  <2>3. AcceptedKeepsSlot'
    BY <1>0, <1>1, <2>1 DEF SubmitRestart, SlotInv, AcceptedKeepsSlot
  <2>4. ResultsAgree'
    BY <1>0, <1>1, <2>1 DEF SubmitRestart, SlotInv, ResultsAgree, Results
  <2>5. SlotConsistent'
    BY <1>0, <1>1, <2>1 DEF SubmitRestart, SlotInv, SlotConsistent
  <2>6. LastRestartConsistent'
    BY <1>0, <1>1, <2>1 DEF SubmitRestart, SlotInv, LastRestartConsistent
  <2>7. PublicationConsistent'
    BY <1>0, <1>1, <2>1 DEF SubmitRestart, PublicationConsistent, LockFree
  <2>8. TicketOperations'
    BY <1>0, <1>1, <2>1 DEF SubmitRestart, SlotInv, TicketOperations, Results
  <2>9. QED
    BY <1>0, <2>2, <2>3, <2>4, <2>5, <2>6, <2>7, <2>8 DEF SlotInv
<1>2. ASSUME NEW t \in Tickets, WithdrawRestart(t)
      PROVE  SlotInv'
  <2>1. MovesOne(t, "rejected", ticket[t].operation)
    BY <1>0, <1>2, WithdrawMovesOne DEF WithdrawRestart
  <2>2. PendingHoldsSlot'
    BY <1>0, <1>2, <2>1
       DEF WithdrawRestart, MovesOne, SlotInv, PendingHoldsSlot, SignalLatched
  <2>3. AcceptedKeepsSlot'
    BY <1>0, <1>2, <2>1
       DEF WithdrawRestart, MovesOne, SlotInv, PendingHoldsSlot,
       AcceptedKeepsSlot
  <2>4. ResultsAgree'
    BY <1>0, <1>2, <2>1
       DEF WithdrawRestart, MovesOne, SlotInv, ResultsAgree, Results
  <2>5. SlotConsistent'
    BY <1>0, <1>2, <2>1 DEF WithdrawRestart, SlotInv, SlotConsistent
  <2>6. LastRestartConsistent'
    BY <1>0, <1>2, <2>1 DEF WithdrawRestart, SlotInv, LastRestartConsistent
  <2>7. PublicationConsistent'
    BY <1>0, <1>2, <2>1 DEF WithdrawRestart, PublicationConsistent, LockFree
  <2>8. TicketOperations'
    BY <1>0, <1>2, <2>1
       DEF WithdrawRestart, MovesOne, SlotInv, PendingHoldsSlot,
       TicketOperations, Results
  <2>9. QED
    BY <1>0, <2>2, <2>3, <2>4, <2>5, <2>6, <2>7, <2>8 DEF SlotInv
<1>3. ASSUME ObserveRuntimeFailure
      PROVE  SlotInv'
  BY <1>0, <1>3
     DEF ObserveRuntimeFailure, SlotInv, SignalLatched, PendingHoldsSlot,
     AcceptedKeepsSlot, ResultsAgree, SlotConsistent, LastRestartConsistent,
     PublicationConsistent, TicketOperations
<1>4. ASSUME NEW s \in Signals, ObserveExternalSignal(s)
      PROVE  SlotInv'
  BY <1>0, <1>4
     DEF ObserveExternalSignal, Latched, SlotInv, SignalLatched,
     PendingHoldsSlot, AcceptedKeepsSlot, ResultsAgree, SlotConsistent,
     LastRestartConsistent, PublicationConsistent, TicketOperations
<1>5. ASSUME NEW s \in Signals, InterruptPublication(s)
      PROVE  SlotInv'
  <2>2. PendingHoldsSlot'
    BY <1>0, <1>5 DEF InterruptPublication, SlotInv, PendingHoldsSlot
  <2>3. AcceptedKeepsSlot'
    BY <1>0, <1>5
       DEF InterruptPublication, Latched, SlotInv, AcceptedKeepsSlot,
       SignalLatched
  <2>4. ResultsAgree'
    BY <1>0, <1>5 DEF InterruptPublication, SlotInv, ResultsAgree
  <2>5. SlotConsistent'
    BY <1>0, <1>5 DEF InterruptPublication, SlotInv, SlotConsistent
  <2>6. LastRestartConsistent'
    BY <1>0, <1>5 DEF InterruptPublication, SlotInv, LastRestartConsistent
  <2>7. PublicationConsistent'
    BY <1>0, <1>5 DEF InterruptPublication, PublicationConsistent
  <2>8. TicketOperations'
    BY <1>0, <1>5 DEF InterruptPublication, SlotInv, TicketOperations
  <2>9. QED
    BY <1>0, <2>2, <2>3, <2>4, <2>5, <2>6, <2>7, <2>8 DEF SlotInv
<1>6. ASSUME BeginInitialAdmission
      PROVE  SlotInv'
  BY <1>0, <1>6
     DEF BeginInitialAdmission, SlotInv, SignalLatched, PendingHoldsSlot,
     AcceptedKeepsSlot, ResultsAgree, SlotConsistent, LastRestartConsistent,
     PublicationConsistent, TicketOperations
<1>7. ASSUME MarkInitialGenerationRunning
      PROVE  SlotInv'
  BY <1>0, <1>7
     DEF MarkInitialGenerationRunning, SlotInv, SignalLatched,
     PendingHoldsSlot, AcceptedKeepsSlot, ResultsAgree, SlotConsistent,
     LastRestartConsistent, PublicationConsistent, TicketOperations
<1>8. ASSUME AcceptPending
      PROVE  SlotInv'
  <2>1. MovesOne(pending, "accepted", opCounter + 1)
    BY <1>0, <1>8, AcceptMovesOne DEF AcceptPending
  <2>2. PendingHoldsSlot'
    BY <1>0, <1>8, <2>1
       DEF AcceptPending, MovesOne, SlotInv, PendingHoldsSlot, SignalLatched
  <2>3. AcceptedKeepsSlot'
    BY <1>0, <1>8, <2>1
       DEF AcceptPending, NextOperation, MovesOne, SlotInv, PendingHoldsSlot,
       AcceptedKeepsSlot, SlotConsistent
  <2>4. ResultsAgree'
    <3>1. \A u \in Tickets : ticket[u].operation \in 0..opCounter
      BY <1>0 DEF SlotInv, TypeOK, TicketOperations, TicketStates, Results
    <3>2. opCounter' = opCounter + 1 /\ lastRestart' = lastRestart
      BY <1>8 DEF AcceptPending, NextOperation
    <3>3. \A t \in Tickets :
             ticket'[t].state \in Results => ticket'[t] = ticket[t]
      BY <2>1 DEF MovesOne, Results
    <3>4. \A t \in Tickets :
             \/ ticket'[t].operation = ticket[t].operation
             \/ t = pending /\ ticket'[t].operation = opCounter + 1
      <4>1. TAKE t \in Tickets
      <4>2. CASE t = pending
        BY <2>1, <4>2 DEF MovesOne
      <4>3. CASE t # pending
        <5>1. ticket'[t] = ticket[t]
          BY <2>1, <4>3 DEF MovesOne
        <5>2. QED
          BY <5>1
      <4>4. QED
        BY <4>2, <4>3
    <3>5. opCounter \in Nat
      BY <1>0 DEF TypeOK
    <3>6. \A t \in Tickets :
             ticket'[t].state \in Results =>
                 /\ ticket'[t].operation \in 1..opCounter'
                 /\ ticket'[t].operation = lastRestart'.id =>
                      ticket'[t].state = lastRestart'.result
      BY <3>2, <3>3, <3>5 DEF SlotInv, ResultsAgree
    <3>7. ASSUME NEW t \in Tickets, NEW u \in Tickets,
                 ticket'[t].operation = ticket'[u].operation
          PROVE  t = u \/ ticket'[t].operation = 0
      <4>1. ticket[t].operation # opCounter + 1
              /\ ticket[u].operation # opCounter + 1
        BY <3>1, <3>5
      <4>2. ticket[t].operation = ticket[u].operation =>
              t = u \/ ticket[t].operation = 0
        BY DEF SlotInv, ResultsAgree
      <4>3. QED
        BY <3>4, <3>7, <4>1, <4>2
    <3>8. QED
      BY <3>6, <3>7 DEF ResultsAgree
  <2>5. SlotConsistent'
    BY <1>0, <1>8, <2>1
       DEF AcceptPending, NextOperation, MovesOne, TypeOK, SlotConsistent
  <2>6. LastRestartConsistent'
    BY <1>0, <1>8, <2>1
       DEF AcceptPending, NextOperation, MovesOne, SlotInv, TypeOK,
       PendingHoldsSlot, SlotConsistent, LastRestartConsistent
  <2>7. PublicationConsistent'
    BY <1>0, <1>8, <2>1 DEF AcceptPending, PublicationConsistent, LockFree
  <2>8. TicketOperations'
    BY <1>0, <1>8, <2>1
       DEF AcceptPending, NextOperation, MovesOne, SlotInv, TypeOK,
       PendingHoldsSlot, TicketOperations, Results
  <2>9. QED
    BY <1>0, <2>2, <2>3, <2>4, <2>5, <2>6, <2>7, <2>8 DEF SlotInv
<1>9. ASSUME DeclinePending
      PROVE  SlotInv'
  <2>1. \/ UNCHANGED <<pending, wakeup, ticket>>
        \/ pending = NoTicket /\ pending' = NoTicket /\ ticket' = ticket
        \/ /\ pending # NoTicket /\ pending' = NoTicket
           /\ MovesOne(pending, "rejected", ticket[pending].operation)
    BY <1>0, <1>9, DeclineMovesOne DEF DeclinePending
  <2>2. PendingHoldsSlot'
    BY <1>0, <1>9, <2>1
       DEF DeclinePending, MovesOne, SlotInv, PendingHoldsSlot, SignalLatched
  <2>3. AcceptedKeepsSlot'
    BY <1>0, <1>9, <2>1
       DEF DeclinePending, MovesOne, SlotInv, PendingHoldsSlot,
       AcceptedKeepsSlot, SignalLatched
  <2>4. ResultsAgree'
    BY <1>0, <1>9, <2>1
       DEF DeclinePending, MovesOne, SlotInv, ResultsAgree, Results
  <2>5. SlotConsistent'
    BY <1>0, <1>9, <2>1 DEF DeclinePending, SlotInv, SlotConsistent
  <2>6. LastRestartConsistent'
    BY <1>0, <1>9, <2>1 DEF DeclinePending, SlotInv, LastRestartConsistent
  <2>7. PublicationConsistent'
    BY <1>0, <1>9, <2>1 DEF DeclinePending, PublicationConsistent, LockFree
  <2>8. TicketOperations'
    BY <1>0, <1>9, <2>1
       DEF DeclinePending, MovesOne, SlotInv, PendingHoldsSlot,
       TicketOperations, Results
  <2>9. QED
    BY <1>0, <2>2, <2>3, <2>4, <2>5, <2>6, <2>7, <2>8 DEF SlotInv
<1>10. ASSUME AllocateRestartSuccessor
      PROVE  SlotInv'
  BY <1>0, <1>10
     DEF AllocateRestartSuccessor, SlotInv, SignalLatched, PendingHoldsSlot,
     AcceptedKeepsSlot, ResultsAgree, SlotConsistent, LastRestartConsistent,
     PublicationConsistent, TicketOperations
<1>11. ASSUME DenyRestartSuccessor
      PROVE  SlotInv'
  <2>2. PendingHoldsSlot'
    BY <1>0, <1>11
       DEF DenyRestartSuccessor, CommitRestartTerminal, SlotInv,
       PendingHoldsSlot, SignalLatched, MayPublishTerminal
  <2>3. AcceptedKeepsSlot'
    BY <1>0, <1>11
       DEF DenyRestartSuccessor, CommitRestartTerminal, SlotInv,
       AcceptedKeepsSlot, MayPublishTerminal
  <2>4. ResultsAgree'
    BY <1>0, <1>11
       DEF DenyRestartSuccessor, CommitRestartTerminal, CommitTerminal,
       SlotInv, TypeOK, ResultsAgree, TicketOperations, Results,
       MayPublishTerminal
  <2>5. SlotConsistent'
    BY <1>0, <1>11
       DEF DenyRestartSuccessor, CommitRestartTerminal, CommitTerminal,
       SlotInv, SlotConsistent, MayPublishTerminal
  <2>6. LastRestartConsistent'
    BY <1>0, <1>11
       DEF DenyRestartSuccessor, CommitRestartTerminal, EffectiveResult,
       CommitTerminal, SlotInv, TypeOK, LastRestartConsistent,
       TicketOperations, MayPublishTerminal
  <2>7. PublicationConsistent'
    BY <1>0, <1>11
       DEF DenyRestartSuccessor, CommitRestartTerminal, EffectiveResult,
       CommitTerminal, SlotInv, TypeOK, PublicationConsistent,
       TicketOperations, Results, MayPublishTerminal
  <2>8. TicketOperations'
    BY <1>0, <1>11
       DEF DenyRestartSuccessor, CommitRestartTerminal, SlotInv,
       TicketOperations, Results, MayPublishTerminal
  <2>9. QED
    BY <1>0, <2>2, <2>3, <2>4, <2>5, <2>6, <2>7, <2>8 DEF SlotInv
<1>12. ASSUME NEW outcome \in Results, CommitRestartTerminal(outcome)
      PROVE  SlotInv'
  <2>2. PendingHoldsSlot'
    BY <1>0, <1>12
       DEF CommitRestartTerminal, SlotInv, PendingHoldsSlot, SignalLatched,
       MayPublishTerminal
  <2>3. AcceptedKeepsSlot'
    BY <1>0, <1>12
       DEF CommitRestartTerminal, SlotInv, AcceptedKeepsSlot,
       MayPublishTerminal
  <2>4. ResultsAgree'
    BY <1>0, <1>12
       DEF CommitRestartTerminal, CommitTerminal, SlotInv, TypeOK,
       ResultsAgree, TicketOperations, Results, MayPublishTerminal
  <2>5. SlotConsistent'
    BY <1>0, <1>12
       DEF CommitRestartTerminal, CommitTerminal, SlotInv, SlotConsistent,
       MayPublishTerminal
  <2>6. LastRestartConsistent'
    BY <1>0, <1>12
       DEF CommitRestartTerminal, EffectiveResult, CommitTerminal, SlotInv,
       TypeOK, LastRestartConsistent, TicketOperations, Results,
       MayPublishTerminal
  <2>7. PublicationConsistent'
    BY <1>0, <1>12
       DEF CommitRestartTerminal, EffectiveResult, CommitTerminal, SlotInv,
       TypeOK, PublicationConsistent, TicketOperations, Results,
       MayPublishTerminal
  <2>8. TicketOperations'
    BY <1>0, <1>12
       DEF CommitRestartTerminal, SlotInv, TicketOperations, Results,
       MayPublishTerminal
  <2>9. QED
    BY <1>0, <2>2, <2>3, <2>4, <2>5, <2>6, <2>7, <2>8 DEF SlotInv
<1>13. ASSUME PublishCommitted
      PROVE  SlotInv'
  <2>1. MovesOne(unpublished, terminal, ticket[unpublished].operation)
    BY <1>0, <1>13, PublishMovesOne DEF PublishCommitted
  <2>2. PendingHoldsSlot'
    BY <1>0, <1>13, <2>1
       DEF PublishCommitted, MovesOne, SlotInv, TypeOK, PendingHoldsSlot,
       PublicationConsistent, SignalLatched, Results
  <2>3. AcceptedKeepsSlot'
    BY <1>0, <1>13, <2>1
       DEF PublishCommitted, MovesOne, SlotInv, TypeOK, AcceptedKeepsSlot,
       PublicationConsistent, Results
  <2>4. ResultsAgree'
    BY <1>0, <1>13, <2>1
       DEF PublishCommitted, MovesOne, SlotInv, ResultsAgree,
       LastRestartConsistent, PublicationConsistent, TicketOperations
  <2>5. SlotConsistent'
    BY <1>0, <1>13, <2>1 DEF PublishCommitted, SlotInv, SlotConsistent
  <2>6. LastRestartConsistent'
    BY <1>0, <1>13, <2>1 DEF PublishCommitted, SlotInv, LastRestartConsistent
  <2>7. PublicationConsistent'
    BY <1>0, <1>13, <2>1 DEF PublishCommitted, PublicationConsistent
  <2>8. TicketOperations'
    BY <1>0, <1>13, <2>1
       DEF PublishCommitted, MovesOne, SlotInv, TypeOK, PublicationConsistent,
       TicketOperations, Results
  <2>9. QED
    BY <1>0, <2>2, <2>3, <2>4, <2>5, <2>6, <2>7, <2>8 DEF SlotInv
<1>14. ASSUME ReleaseSuccessfulRestart
      PROVE  SlotInv'
  <2>1. UNCHANGED ticket
    BY <1>14 DEF ReleaseSuccessfulRestart
  <2>a. ~MustFinalize => \A t \in Tickets : ticket[t].state # "accepted"
    BY <1>14
       DEF ReleaseSuccessfulRestart, MustFinalize, LockFree, SlotInv,
       AcceptedKeepsSlot
  <2>2. PendingHoldsSlot'
    BY <1>0, <1>14
       DEF ReleaseSuccessfulRestart, SlotInv, PendingHoldsSlot,
       SlotConsistent, SignalLatched
  <2>3. AcceptedKeepsSlot'
    <3>1. CASE MustFinalize
      BY <1>0, <1>14, <2>1, <3>1
         DEF ReleaseSuccessfulRestart, SlotInv, AcceptedKeepsSlot,
         SignalLatched
    <3>2. CASE ~MustFinalize
      BY <1>0, <1>14, <2>1, <2>a, <3>2
         DEF ReleaseSuccessfulRestart, AcceptedKeepsSlot
    <3>3. QED
      BY <3>1, <3>2
  <2>4. ResultsAgree'
    BY <1>0, <1>14 DEF ReleaseSuccessfulRestart, SlotInv, ResultsAgree
  <2>5. SlotConsistent'
    BY <1>0, <1>14
       DEF ReleaseSuccessfulRestart, EnterFinalization, SlotInv,
       SlotConsistent
  <2>6. LastRestartConsistent'
    BY <1>0, <1>14
       DEF ReleaseSuccessfulRestart, SlotInv, LastRestartConsistent
  <2>7. PublicationConsistent'
    BY <1>0, <1>14
       DEF ReleaseSuccessfulRestart, PublicationConsistent, LockFree
  <2>8. TicketOperations'
    <3>1. CASE MustFinalize
      BY <1>0, <1>14, <2>1, <3>1
         DEF ReleaseSuccessfulRestart, SlotInv, TicketOperations
    <3>2. CASE ~MustFinalize
      BY <1>0, <1>14, <2>1, <2>a, <3>2
         DEF ReleaseSuccessfulRestart, SlotInv, TicketOperations
    <3>3. QED
      BY <3>1, <3>2
  <2>9. QED
    BY <1>0, <2>2, <2>3, <2>4, <2>5, <2>6, <2>7, <2>8 DEF SlotInv
<1>15. ASSUME MarkGenerationTerminal
      PROVE  SlotInv'
  <2>1. \/ pending = NoTicket /\ ticket' = ticket
        \/ /\ pending # NoTicket
           /\ MovesOne(pending, "rejected", ticket[pending].operation)
    BY <1>0, <1>15, RejectMovesOne DEF MarkGenerationTerminal
  <2>2. PendingHoldsSlot'
    BY <1>0, <1>15, <2>1
       DEF MarkGenerationTerminal, EmptySlot, MovesOne, SlotInv,
       PendingHoldsSlot, SignalLatched
  <2>3. AcceptedKeepsSlot'
    BY <1>0, <1>15, <2>1
       DEF MarkGenerationTerminal, MovesOne, SlotInv, AcceptedKeepsSlot
  <2>4. ResultsAgree'
    BY <1>0, <1>15, <2>1
       DEF MarkGenerationTerminal, MovesOne, SlotInv, ResultsAgree, Results
  <2>5. SlotConsistent'
    BY <1>0, <1>15, <2>1 DEF MarkGenerationTerminal, SlotInv, SlotConsistent
  <2>6. LastRestartConsistent'
    BY <1>0, <1>15, <2>1
       DEF MarkGenerationTerminal, SlotInv, LastRestartConsistent
  <2>7. PublicationConsistent'
    BY <1>0, <1>15, <2>1
       DEF MarkGenerationTerminal, PublicationConsistent, LockFree
  <2>8. TicketOperations'
    BY <1>0, <1>15, <2>1
       DEF MarkGenerationTerminal, MovesOne, SlotInv, PendingHoldsSlot,
       TicketOperations, Results
  <2>9. QED
    BY <1>0, <2>2, <2>3, <2>4, <2>5, <2>6, <2>7, <2>8 DEF SlotInv
<1>16. ASSUME MarkExternalShutdown
      PROVE  SlotInv'
  <2>1. \/ ticket' = ticket /\ pending = NoTicket
             /\ UNCHANGED <<lastRestart, terminal>>
        \/ /\ pending # NoTicket /\ active = NoTicket
           /\ UNCHANGED <<lastRestart, terminal>>
           /\ MovesOne(pending, "rejected", ticket[pending].operation)
        \/ /\ active # NoTicket /\ pending = NoTicket /\ terminal = "none"
           /\ terminal' = "failed"
           /\ lastRestart' = [id |-> operation, result |-> "failed"]
           /\ MovesOne(active, "failed", operation)
    BY <1>0, <1>16, ExternalMovesOne DEF MarkExternalShutdown
  <2>2. PendingHoldsSlot'
    BY <1>0, <1>16, <2>1
       DEF MarkExternalShutdown, EmptySlot, PendingHoldsSlot, SignalLatched
  <2>3. AcceptedKeepsSlot'
    BY <1>0, <1>16, <2>1
       DEF MarkExternalShutdown, MovesOne, SlotInv, AcceptedKeepsSlot,
       SignalLatched
  <2>4. ResultsAgree'
    BY <1>0, <1>16, <2>1
       DEF MarkExternalShutdown, MovesOne, SlotInv, ResultsAgree,
       TicketOperations, Results
  <2>5. SlotConsistent'
    BY <1>0, <1>16, <2>1
       DEF MarkExternalShutdown, EnterFinalization, SlotInv, SlotConsistent
  <2>6. LastRestartConsistent'
    BY <1>0, <1>16, <2>1
       DEF MarkExternalShutdown, SlotInv, TypeOK, LastRestartConsistent,
       TicketOperations
  <2>7. PublicationConsistent'
    BY <1>0, <1>16, <2>1
       DEF MarkExternalShutdown, PublicationConsistent, LockFree
  <2>8. TicketOperations'
    BY <1>0, <1>16, <2>1
       DEF MarkExternalShutdown, MovesOne, SlotInv, PendingHoldsSlot,
       TicketOperations, Results
  <2>9. QED
    BY <1>0, <2>2, <2>3, <2>4, <2>5, <2>6, <2>7, <2>8 DEF SlotInv
<1>17. ASSUME NEW s \in Signals, InterruptRejection(s)
      PROVE  SlotInv'
  <2>2. PendingHoldsSlot'
    BY <1>0, <1>17
       DEF InterruptRejection, Latched, PendingHoldsSlot, SignalLatched
  <2>3. AcceptedKeepsSlot'
    BY <1>0, <1>17 DEF InterruptRejection, SlotInv, AcceptedKeepsSlot
  <2>4. ResultsAgree'
    BY <1>0, <1>17 DEF InterruptRejection, SlotInv, ResultsAgree
  <2>5. SlotConsistent'
    BY <1>0, <1>17 DEF InterruptRejection, SlotInv, SlotConsistent
  <2>6. LastRestartConsistent'
    BY <1>0, <1>17 DEF InterruptRejection, SlotInv, LastRestartConsistent
  <2>7. PublicationConsistent'
    BY <1>0, <1>17 DEF InterruptRejection, PublicationConsistent, LockFree
  <2>8. TicketOperations'
    BY <1>0, <1>17 DEF InterruptRejection, SlotInv, TicketOperations
  <2>9. QED
    BY <1>0, <2>2, <2>3, <2>4, <2>5, <2>6, <2>7, <2>8 DEF SlotInv
<1>18. CASE UNCHANGED controllerVars
  BY <1>18, <1>0
     DEF controllerVars, SlotInv, SignalLatched, PendingHoldsSlot,
     AcceptedKeepsSlot, ResultsAgree, SlotConsistent, LastRestartConsistent,
     PublicationConsistent, TicketOperations
<1>19. QED
  BY <1>1, <1>2, <1>3, <1>4, <1>5, <1>6, <1>7, <1>8, <1>9, <1>10, <1>11,
     <1>12, <1>13, <1>14, <1>15, <1>16, <1>17, <1>18
     DEF ControllerNext

\* A new RuntimeController satisfies the slot's invariant.
LEMMA SlotInit == ControllerInit => SlotInv
<1> SUFFICES ASSUME ControllerInit PROVE SlotInv
  OBVIOUS
<1>1. \A t \in Tickets : ticket[t].state = "idle" /\ ticket[t].operation = 0
  BY DEF ControllerInit
<1>2. QED
  BY <1>1, TypeInit
     DEF ControllerInit, NoRestart, SlotInv, PendingHoldsSlot,
     AcceptedKeepsSlot, ResultsAgree, Results, SlotConsistent,
     LastRestartConsistent, PublicationConsistent, TicketOperations

\* The inductive invariant holds in every reachable state of the controller.
THEOREM SlotInvariant == ControllerSpec => []SlotInv
<1>1. ControllerInit => SlotInv
  BY SlotInit
<1>2. SlotInv /\ [ControllerNext]_controllerVars => SlotInv'
  BY SlotStep
<1>3. QED
  BY <1>1, <1>2, PTL DEF ControllerSpec

\* The controller's fields and tickets keep their types under any sequence
\* of method calls and signals.
THEOREM TypeCorrect == ControllerSpec => []TypeOK
<1>1. SlotInv => TypeOK
  BY DEF SlotInv
<1>2. QED
  BY <1>1, SlotInvariant, PTL

\* A proposal is pending exactly while it holds the slot of a running
\* controller that is awake to see it (submit_restart to accept_if_requested).
THEOREM PendingSafe == ControllerSpec => []PendingHoldsSlot
<1>1. SlotInv => PendingHoldsSlot
  BY DEF SlotInv
<1>2. QED
  BY <1>1, SlotInvariant, PTL

\* An accepted proposal owns the slot until its result is shown, or a signal
\* takes the main thread out of the publication.
THEOREM AcceptedSafe == ControllerSpec => []AcceptedKeepsSlot
<1>1. SlotInv => AcceptedKeepsSlot
  BY DEF SlotInv
<1>2. QED
  BY <1>1, SlotInvariant, PTL

\* The waiting client and `status' are told the same result, and no two
\* clients are told about one operation.
THEOREM ResultsSafe == ControllerSpec => []ResultsAgree
<1>1. SlotInv => ResultsAgree
  BY DEF SlotInv
<1>2. QED
  BY <1>1, SlotInvariant, PTL

-----------------------------------------------------------------------------
(* The action properties.                                                  *)

\* The step formulas under the boxes of the action properties.
ShutdownStep ==
    /\ (SignalLatched \/ runtimeFailure) /\ state # "running" =>
         state' # "running"
    /\ state = "stopping" => state' = "stopping"

ForwardStep ==
    \A t \in Tickets : ticket'[t] # ticket[t] =>
        <<ticket[t].state, ticket'[t].state>> \in
           {<<"idle", "pending">>, <<"pending", "accepted">>,
            <<"pending", "rejected">>, <<"accepted", "succeeded">>,
            <<"accepted", "failed">>}

SerialStep ==
    operation' # operation =>
        \/ operation' = 0 /\ terminal = "succeeded"
        \/ operation = 0 /\ active = NoTicket /\ operation' > lastRestart.id

\* No method leads back to running after a shutdown or failure.
LEMMA ShutdownStepHolds ==
    ASSUME SlotInv, [ControllerNext]_controllerVars
    PROVE  ShutdownStep
<1>0. TypeOK
  BY DEF SlotInv
<1>1. ASSUME NEW t \in Tickets, SubmitRestart(t)
      PROVE  ShutdownStep
  BY <1>0, <1>1 DEF SubmitRestart, ShutdownStep
<1>2. ASSUME NEW t \in Tickets, WithdrawRestart(t)
      PROVE  ShutdownStep
  BY <1>0, <1>2 DEF WithdrawRestart, ShutdownStep
<1>3. ASSUME ObserveRuntimeFailure
      PROVE  ShutdownStep
  BY <1>0, <1>3 DEF ObserveRuntimeFailure, ShutdownStep
<1>4. ASSUME NEW s \in Signals, ObserveExternalSignal(s)
      PROVE  ShutdownStep
  BY <1>0, <1>4 DEF ObserveExternalSignal, ShutdownStep
<1>5. ASSUME NEW s \in Signals, InterruptPublication(s)
      PROVE  ShutdownStep
  BY <1>0, <1>5 DEF InterruptPublication, ShutdownStep
<1>6. ASSUME BeginInitialAdmission
      PROVE  ShutdownStep
  BY <1>0, <1>6 DEF BeginInitialAdmission, ShutdownStep
<1>7. ASSUME MarkInitialGenerationRunning
      PROVE  ShutdownStep
  BY <1>0, <1>7 DEF MarkInitialGenerationRunning, ShutdownStep, AdmissionOpen
<1>8. ASSUME AcceptPending
      PROVE  ShutdownStep
  BY <1>0, <1>8 DEF AcceptPending, MayAccept, ShutdownStep
<1>9. ASSUME DeclinePending
      PROVE  ShutdownStep
  BY <1>0, <1>9 DEF DeclinePending, ShutdownStep
<1>10. ASSUME AllocateRestartSuccessor
      PROVE  ShutdownStep
  BY <1>0, <1>10 DEF AllocateRestartSuccessor, ShutdownStep
<1>11. ASSUME DenyRestartSuccessor
      PROVE  ShutdownStep
  BY <1>0, <1>11
     DEF DenyRestartSuccessor, CommitRestartTerminal, CommitTerminal,
     ShutdownStep
<1>12. ASSUME NEW outcome \in Results, CommitRestartTerminal(outcome)
      PROVE  ShutdownStep
  BY <1>0, <1>12 DEF CommitRestartTerminal, CommitTerminal, ShutdownStep
<1>13. ASSUME PublishCommitted
      PROVE  ShutdownStep
  BY <1>0, <1>13 DEF PublishCommitted, ShutdownStep
<1>14. ASSUME ReleaseSuccessfulRestart
      PROVE  ShutdownStep
  BY <1>0, <1>14
     DEF ReleaseSuccessfulRestart, EnterFinalization, ShutdownStep,
     MustFinalize
<1>15. ASSUME MarkGenerationTerminal
      PROVE  ShutdownStep
  BY <1>0, <1>15 DEF MarkGenerationTerminal, EnterFinalization, ShutdownStep
<1>16. ASSUME MarkExternalShutdown
      PROVE  ShutdownStep
  BY <1>0, <1>16 DEF MarkExternalShutdown, EnterFinalization, ShutdownStep
<1>17. ASSUME NEW s \in Signals, InterruptRejection(s)
      PROVE  ShutdownStep
  BY <1>0, <1>17 DEF InterruptRejection, ShutdownStep
<1>18. CASE UNCHANGED controllerVars
  BY <1>18 DEF controllerVars, ShutdownStep
<1>19. QED
  BY <1>1, <1>2, <1>3, <1>4, <1>5, <1>6, <1>7, <1>8, <1>9, <1>10, <1>11,
     <1>12, <1>13, <1>14, <1>15, <1>16, <1>17, <1>18
     DEF ControllerNext

\* Every method takes or frees the operation as OperationsSerial says.
LEMMA SerialStepHolds ==
    ASSUME SlotInv, [ControllerNext]_controllerVars
    PROVE  SerialStep
<1>0. TypeOK
  BY DEF SlotInv
<1>1. ASSUME NEW t \in Tickets, SubmitRestart(t)
      PROVE  SerialStep
  BY <1>0, <1>1 DEF SubmitRestart, SerialStep
<1>2. ASSUME NEW t \in Tickets, WithdrawRestart(t)
      PROVE  SerialStep
  BY <1>0, <1>2 DEF WithdrawRestart, SerialStep
<1>3. ASSUME ObserveRuntimeFailure
      PROVE  SerialStep
  BY <1>0, <1>3 DEF ObserveRuntimeFailure, SerialStep
<1>4. ASSUME NEW s \in Signals, ObserveExternalSignal(s)
      PROVE  SerialStep
  BY <1>0, <1>4 DEF ObserveExternalSignal, SerialStep
<1>5. ASSUME NEW s \in Signals, InterruptPublication(s)
      PROVE  SerialStep
  BY <1>0, <1>5 DEF InterruptPublication, SerialStep
<1>6. ASSUME BeginInitialAdmission
      PROVE  SerialStep
  BY <1>0, <1>6 DEF BeginInitialAdmission, SerialStep
<1>7. ASSUME MarkInitialGenerationRunning
      PROVE  SerialStep
  BY <1>0, <1>7 DEF MarkInitialGenerationRunning, SerialStep
<1>8. ASSUME AcceptPending
      PROVE  SerialStep
  BY <1>0, <1>8
     DEF AcceptPending, SerialStep, NextOperation, MayAccept, SlotInv,
     SlotConsistent, LastRestartConsistent, TypeOK
<1>9. ASSUME DeclinePending
      PROVE  SerialStep
  BY <1>0, <1>9 DEF DeclinePending, SerialStep
<1>10. ASSUME AllocateRestartSuccessor
      PROVE  SerialStep
  BY <1>0, <1>10 DEF AllocateRestartSuccessor, SerialStep
<1>11. ASSUME DenyRestartSuccessor
      PROVE  SerialStep
  BY <1>0, <1>11 DEF DenyRestartSuccessor, SerialStep, CommitRestartTerminal
<1>12. ASSUME NEW outcome \in Results, CommitRestartTerminal(outcome)
      PROVE  SerialStep
  BY <1>0, <1>12 DEF CommitRestartTerminal, SerialStep
<1>13. ASSUME PublishCommitted
      PROVE  SerialStep
  BY <1>0, <1>13 DEF PublishCommitted, SerialStep
<1>14. ASSUME ReleaseSuccessfulRestart
      PROVE  SerialStep
  BY <1>0, <1>14 DEF ReleaseSuccessfulRestart, SerialStep
<1>15. ASSUME MarkGenerationTerminal
      PROVE  SerialStep
  BY <1>0, <1>15 DEF MarkGenerationTerminal, SerialStep
<1>16. ASSUME MarkExternalShutdown
      PROVE  SerialStep
  BY <1>0, <1>16 DEF MarkExternalShutdown, SerialStep
<1>17. ASSUME NEW s \in Signals, InterruptRejection(s)
      PROVE  SerialStep
  BY <1>0, <1>17 DEF InterruptRejection, SerialStep
<1>18. CASE UNCHANGED controllerVars
  BY <1>18 DEF controllerVars, SerialStep
<1>19. QED
  BY <1>1, <1>2, <1>3, <1>4, <1>5, <1>6, <1>7, <1>8, <1>9, <1>10, <1>11,
     <1>12, <1>13, <1>14, <1>15, <1>16, <1>17, <1>18
     DEF ControllerNext

\* Every method moves tickets forward only.
LEMMA ForwardStepHolds ==
    ASSUME SlotInv, [ControllerNext]_controllerVars
    PROVE  ForwardStep
<1>0. TypeOK
  BY DEF SlotInv
<1>1. ASSUME NEW t \in Tickets, SubmitRestart(t)
      PROVE  ForwardStep
  <2>1. MovesOne(t, "pending", ticket[t].operation)
    BY <1>0, <1>1, SubmitMovesOne DEF SubmitRestart
  <2>2. QED
    BY <1>0, <1>1, <2>1 DEF SubmitRestart, ForwardStep
<1>2. ASSUME NEW t \in Tickets, WithdrawRestart(t)
      PROVE  ForwardStep
  <2>1. MovesOne(t, "rejected", ticket[t].operation)
    BY <1>0, <1>2, WithdrawMovesOne DEF WithdrawRestart
  <2>2. QED
    BY <1>0, <1>2, <2>1
       DEF WithdrawRestart, ForwardStep, MovesOne, SlotInv, PendingHoldsSlot
<1>3. ASSUME ObserveRuntimeFailure
      PROVE  ForwardStep
  BY <1>3 DEF ObserveRuntimeFailure, ForwardStep
<1>4. ASSUME NEW s \in Signals, ObserveExternalSignal(s)
      PROVE  ForwardStep
  BY <1>4 DEF ObserveExternalSignal, ForwardStep
<1>5. ASSUME NEW s \in Signals, InterruptPublication(s)
      PROVE  ForwardStep
  BY <1>5 DEF InterruptPublication, ForwardStep
<1>6. ASSUME BeginInitialAdmission
      PROVE  ForwardStep
  BY <1>6 DEF BeginInitialAdmission, ForwardStep
<1>7. ASSUME MarkInitialGenerationRunning
      PROVE  ForwardStep
  BY <1>7 DEF MarkInitialGenerationRunning, ForwardStep
<1>8. ASSUME AcceptPending
      PROVE  ForwardStep
  <2>1. MovesOne(pending, "accepted", opCounter + 1)
    BY <1>0, <1>8, AcceptMovesOne DEF AcceptPending
  <2>2. QED
    BY <1>0, <1>8, <2>1
       DEF AcceptPending, ForwardStep, MovesOne, SlotInv, PendingHoldsSlot
<1>9. ASSUME DeclinePending
      PROVE  ForwardStep
  <2>1. \/ UNCHANGED <<pending, wakeup, ticket>>
        \/ pending = NoTicket /\ pending' = NoTicket /\ ticket' = ticket
        \/ /\ pending # NoTicket /\ pending' = NoTicket
           /\ MovesOne(pending, "rejected", ticket[pending].operation)
    BY <1>0, <1>9, DeclineMovesOne DEF DeclinePending
  <2>2. QED
    BY <1>0, <1>9, <2>1
       DEF DeclinePending, ForwardStep, MovesOne, SlotInv, PendingHoldsSlot
<1>10. ASSUME AllocateRestartSuccessor
      PROVE  ForwardStep
  BY <1>10 DEF AllocateRestartSuccessor, ForwardStep
<1>11. ASSUME DenyRestartSuccessor
      PROVE  ForwardStep
  BY <1>11 DEF DenyRestartSuccessor, ForwardStep, CommitRestartTerminal
<1>12. ASSUME NEW outcome \in Results, CommitRestartTerminal(outcome)
      PROVE  ForwardStep
  BY <1>12 DEF CommitRestartTerminal, ForwardStep
<1>13. ASSUME PublishCommitted
      PROVE  ForwardStep
  <2>1. MovesOne(unpublished, terminal, ticket[unpublished].operation)
    BY <1>0, <1>13, PublishMovesOne DEF PublishCommitted
  <2>2. QED
    BY <1>0, <1>13, <2>1
       DEF PublishCommitted, ForwardStep, MovesOne, SlotInv,
       PublicationConsistent, Results, TypeOK
<1>14. ASSUME ReleaseSuccessfulRestart
      PROVE  ForwardStep
  BY <1>14 DEF ReleaseSuccessfulRestart, ForwardStep
<1>15. ASSUME MarkGenerationTerminal
      PROVE  ForwardStep
  <2>1. \/ pending = NoTicket /\ ticket' = ticket
        \/ /\ pending # NoTicket
           /\ MovesOne(pending, "rejected", ticket[pending].operation)
    BY <1>0, <1>15, RejectMovesOne DEF MarkGenerationTerminal
  <2>2. QED
    BY <1>0, <1>15, <2>1
       DEF MarkGenerationTerminal, ForwardStep, MovesOne, SlotInv,
       PendingHoldsSlot
<1>16. ASSUME MarkExternalShutdown
      PROVE  ForwardStep
  <2>1. \/ ticket' = ticket /\ pending = NoTicket
             /\ UNCHANGED <<lastRestart, terminal>>
        \/ /\ pending # NoTicket /\ active = NoTicket
           /\ UNCHANGED <<lastRestart, terminal>>
           /\ MovesOne(pending, "rejected", ticket[pending].operation)
        \/ /\ active # NoTicket /\ pending = NoTicket /\ terminal = "none"
           /\ terminal' = "failed"
           /\ lastRestart' = [id |-> operation, result |-> "failed"]
           /\ MovesOne(active, "failed", operation)
    BY <1>0, <1>16, ExternalMovesOne DEF MarkExternalShutdown
  <2>2. QED
    BY <1>0, <1>16, <2>1
       DEF MarkExternalShutdown, ForwardStep, MovesOne, SlotInv,
       PendingHoldsSlot, AcceptedKeepsSlot
<1>17. ASSUME NEW s \in Signals, InterruptRejection(s)
      PROVE  ForwardStep
  BY <1>17 DEF InterruptRejection, ForwardStep
<1>18. CASE UNCHANGED controllerVars
  BY <1>18 DEF controllerVars, ForwardStep
<1>19. QED
  BY <1>1, <1>2, <1>3, <1>4, <1>5, <1>6, <1>7, <1>8, <1>9, <1>10, <1>11,
     <1>12, <1>13, <1>14, <1>15, <1>16, <1>17, <1>18
     DEF ControllerNext

\* Shutdown is irreversible whatever the callers do: no step leads back to the
\* running state after a signal or a failure, none leaves the stopping state.
THEOREM ShutdownSafe == ControllerSpec => ShutdownIrreversible
<1>1. SlotInv /\ [ControllerNext]_controllerVars
        => [ShutdownStep]_controllerVars
  BY ShutdownStepHolds
<1>2. QED
  BY <1>1, SlotInvariant, PTL
     DEF ControllerSpec, ShutdownIrreversible, ShutdownStep

\* No step takes a ticket back: a shown result stands and a withdrawn or
\* rejected proposal is never accepted.
THEOREM TicketsForward == ControllerSpec => TicketForward
<1>1. SlotInv /\ [ControllerNext]_controllerVars
        => [ForwardStep]_controllerVars
  BY ForwardStepHolds
<1>2. QED
  BY <1>1, SlotInvariant, PTL DEF ControllerSpec, TicketForward, ForwardStep

\* Operation ids are never reused and the slot changes hands only when free.
THEOREM SerialSafe == ControllerSpec => OperationsSerial
<1>1. SlotInv /\ [ControllerNext]_controllerVars => [SerialStep]_controllerVars
  BY SerialStepHolds
<1>2. QED
  BY <1>1, SlotInvariant, PTL DEF ControllerSpec, OperationsSerial, SerialStep

-----------------------------------------------------------------------------
(***************************************************************************)
(* Part 2: the serve loop.                                                 *)
(***************************************************************************)

-----------------------------------------------------------------------------
(* The serve loop implements the controller.                               *)

\* Every step of the main thread is a step of the controller or leaves it
\* alone.
LEMMA MainThreadStep ==
    MainThread => [ControllerNext]_controllerVars
<1> SUFFICES ASSUME MainThread PROVE [ControllerNext]_controllerVars
  OBVIOUS
<1>1. CASE \/ Boot \/ TakeLease \/ AnnounceAdmitted \/ CheckFailure
           \/ CreateGeneration \/ CloseLease
  BY <1>1 DEF Boot, TakeLease, AnnounceAdmitted, CheckFailure,
              CreateGeneration, CloseLease
<1>2. CASE StartupCheck \/ RunPhase \/ FailPhase \/ CheckpointHealth
  BY <1>2 DEF StartupCheck, RunPhase, FailPhase, CheckpointHealth
<1>3. CASE \/ AnnounceReady \/ LeaveWait \/ EnterMaskedSection
           \/ RunStopHooks \/ FinalizeGeneration \/ RestoreHandlers \/ Leave
  BY <1>3 DEF AnnounceReady, LeaveWait, EnterMaskedSection, RunStopHooks,
              FinalizeGeneration, RestoreHandlers, Leave
<1>4. CASE AdmitInitial
  BY <1>4 DEF AdmitInitial, ControllerNext
<1>5. CASE MarkInitialRunning
  BY <1>5 DEF MarkInitialRunning, ControllerNext
<1>6. CASE CommitSuccess
  BY <1>6 DEF CommitSuccess, ControllerNext, Results
<1>7. CASE ShowSuccess \/ ShowFailure
  BY <1>7 DEF ShowSuccess, ShowFailure, ControllerNext
<1>8. CASE Release
  BY <1>8 DEF Release, ControllerNext
<1>9. CASE AcceptRestart \/ DeclineRestart
  BY <1>9 DEF AcceptRestart, DeclineRestart, ControllerNext
<1>10. CASE AfterNaturalExit
  BY <1>10 DEF AfterNaturalExit, ControllerNext
<1>11. CASE AfterExternalShutdown \/ ServeShutdown
  BY <1>11 DEF AfterExternalShutdown, ServeShutdown, ControllerNext
<1>12. CASE AfterFailure
  BY <1>12 DEF AfterFailure, ControllerNext
<1>13. CASE AfterOperatorRestart
  BY <1>13 DEF AfterOperatorRestart, ControllerNext
<1>14. CASE PublishStartFailure
  BY <1>14 DEF PublishStartFailure, ControllerNext, Results
<1>15. QED
  BY <1>1, <1>2, <1>3, <1>4, <1>5, <1>6, <1>7, <1>8, <1>9, <1>10, <1>11,
     <1>12, <1>13, <1>14 DEF MainThread

\* A signal handler only latches, or takes the main thread out of a
\* publication or a rejection.
LEMMA SignalStep ==
    ASSUME NEW s \in Signals,
           \/ LifecycleSignal(s) \/ FrozenSignal(s) \/ ServeSignal(s)
           \/ TeardownSignal(s)
    PROVE  \/ ObserveExternalSignal(s)
           \/ InterruptPublication(s)
           \/ InterruptRejection(s)
<1>1. LatchSignal(s) => \/ ObserveExternalSignal(s)
                        \/ InterruptPublication(s)
                        \/ InterruptRejection(s)
  BY DEF LatchSignal
<1>2. CASE LifecycleSignal(s)
  BY <1>1, <1>2 DEF LifecycleSignal
<1>3. CASE FrozenSignal(s) \/ TeardownSignal(s)
  BY <1>3 DEF FrozenSignal, TeardownSignal
<1>4. CASE ServeSignal(s)
  BY <1>1, <1>4 DEF ServeSignal
<1>5. QED
  BY <1>2, <1>3, <1>4

\* Every step of the process is a step of the controller or leaves it alone.
LEMMA ServeStep ==
    [Next]_vars => [ControllerNext]_controllerVars
<1> SUFFICES ASSUME [Next]_vars PROVE [ControllerNext]_controllerVars
  OBVIOUS
<1>1. CASE MainThread
  BY <1>1, MainThreadStep
<1>2. CASE \E o \in Owners : ReapOwner(o)
  BY <1>2 DEF ReapOwner
<1>3. CASE ChildExits \/ Exited \/ UNCHANGED vars
  BY <1>3 DEF ChildExits, Exited, vars
<1>4. CASE Listeners
  BY <1>4 DEF Listeners, ControllerNext
<1>5. CASE SignalArrives
  <2>1. PICK s \in Signals : \/ LifecycleSignal(s) \/ FrozenSignal(s)
                             \/ ServeSignal(s) \/ TeardownSignal(s)
    BY <1>5 DEF SignalArrives
  <2>2. QED
    BY <2>1, SignalStep DEF ControllerNext
<1>6. QED
  BY <1>1, <1>2, <1>3, <1>4, <1>5 DEF Next

\* The serve loop implements the controller's specification: it never makes
\* a call whose precondition does not hold, and no listener or handler can
\* make it do so (run_serve_runtime, supervise).
THEOREM ServeImplementsController == Spec => ControllerSpec
<1>1. Init => ControllerInit
  BY DEF Init
<1>2. QED
  BY <1>1, ServeStep, PTL DEF Spec, ControllerSpec

\* In the running system the controller's invariant holds.
THEOREM ServeSlotInvariant == Spec => []SlotInv
BY ServeImplementsController, SlotInvariant, PTL

-----------------------------------------------------------------------------
(* Shutdown and restart.                                                   *)

\* What the event record is made of.
GenerationEvents ==
    [generation : Nat, event : {"admitted", "ready", "stopping", "stopped"}]

\* Points at which the serve loop has a generation that has no lifecycle yet,
\* and points of a lifecycle that has not begun to stop.
BeforeLifecycle ==
    LeasePoints \cup {"boot", "admit", "lease", "announce", "top", "create"}
RaisingPoints == {"checkpoint", "mark", "show_success", "release", "ready"}
LatchingPoints == {"check", "run", "wait", "accept"}

\* Where the main thread can be once a signal is latched: never before a
\* lifecycle, nor where the handler would have raised; and a lifecycle that
\* has not begun to stop has the signal on its own record.
LatchedWhere ==
    /\ SignalLatched => pc \notin BeforeLifecycle \cup RaisingPoints
    /\ pc \in RaisingPoints \cup LatchingPoints => admission
    /\ SignalLatched /\ pc \in LatchingPoints => SignalRecorded

\* What stands when a generation has been finalized: its end is the last
\* event, and a restart goes on only when all work ended without a failed hook.
FinalizedComplete ==
    pc \in {"finalized", "result"} =>
        /\ events # <<>>
        /\ events[Len(events)] = Event(generation, "stopped")
        /\ result = "OPERATOR_RESTART" => owned = {} /\ ~hookFailed

\* A lifecycle that stops does so on one of its paths.
StopPathTaken ==
    pc \in {"stop_hooks", "quiesce"} =>
        stopPath \in {"external", "late", "startup", "natural", "failure",
                      "restart"}

\* The inductive invariant of the serve loop.
ServeInv ==
    /\ events \in Seq(GenerationEvents)
    /\ LatchedWhere
    /\ FinalizedComplete
    /\ StopPathTaken

\* The invariant holds when the process starts.
LEMMA ServeInit == Init => ServeInv
BY DEF Init, ControllerInit, ServeInv, LatchedWhere, FinalizedComplete,
       StopPathTaken, SignalLatched, RaisingPoints, LatchingPoints

\* What is written at the end of the event record.
LEMMA EventAppended ==
    ASSUME events \in Seq(GenerationEvents), generation \in Nat,
           NEW e \in {"admitted", "ready", "stopping", "stopped"}, Emit(e)
    PROVE  /\ events' \in Seq(GenerationEvents)
           /\ events' # <<>>
           /\ events'[Len(events')] = Event(generation, e)
BY SMTT(20) DEF Emit, Event, GenerationEvents

\* Points of which the invariant says nothing more.
Elsewhere == {"stop_hooks", "quiesce", "start_failure", "show_failure",
              "shutdown", "leave", "exited"}

\* A step that goes there need only keep the event record and the path.
LEMMA GoneElsewhere ==
    ASSUME pc' \in Elsewhere, events' \in Seq(GenerationEvents),
           StopPathTaken'
    PROVE  ServeInv'
BY DEF ServeInv, LatchedWhere, FinalizedComplete, Elsewhere, BeforeLifecycle,
       LeasePoints, RaisingPoints, LatchingPoints

\* A shutdown path begins: the generation's end is announced at most once and
\* the main thread goes on to stop its work.
LEMMA StopAnnounced ==
    ASSUME events \in Seq(GenerationEvents), generation \in Nat,
           NEW c, BeginStopping(c)
    PROVE  events' \in Seq(GenerationEvents)
BY EventAppended DEF BeginStopping

\* The same for each path the lifecycle may take.
LEMMA PathTaken ==
    ASSUME events \in Seq(GenerationEvents), generation \in Nat,
           \/ FinishSignalShutdown \/ NaturalExit \/ CleanupPrioritized
           \/ \E c \in Causes : CleanupStartupFailure(c)
    PROVE  ServeInv'
<1>1. events' \in Seq(GenerationEvents)
  BY StopAnnounced DEF FinishSignalShutdown, NaturalExit, CleanupPrioritized,
                       CleanupStartupFailure
<1>2. pc' \in {"stop_hooks", "quiesce"}
  BY DEF FinishSignalShutdown, NaturalExit, CleanupPrioritized,
         CleanupStartupFailure, StopWithChild, Goto
<1>3. StopPathTaken'
  BY DEF FinishSignalShutdown, NaturalExit, CleanupPrioritized,
         CleanupStartupFailure, StopPathTaken
<1>4. QED
  BY <1>1, <1>2, <1>3, GoneElsewhere DEF Elsewhere

\* Every step of the main thread preserves the invariant.
LEMMA MainThreadInv ==
    ASSUME TypeOK, ServeInv, MainThread
    PROVE  ServeInv'
<1> USE DEF At, Goto, StopPathTaken
<1>0. /\ events \in Seq(GenerationEvents)
      /\ generation \in Nat
      /\ LatchedWhere
      /\ FinalizedComplete
      /\ StopPathTaken
  BY DEF ServeInv, TypeOK
<1>1. CASE Boot \/ TakeLease \/ CheckFailure \/ CreateGeneration
  BY <1>0, <1>1 DEF Boot, TakeLease, CheckFailure, CreateGeneration,
         controllerVars, ServeInv, LatchedWhere, FinalizedComplete,
         SignalLatched, BeforeLifecycle, LeasePoints, RaisingPoints,
         LatchingPoints
<1>2. CASE AdmitInitial
  BY <1>0, <1>2 DEF AdmitInitial, BeginInitialAdmission,
         controllerVars, ServeInv, LatchedWhere, FinalizedComplete,
         SignalLatched, BeforeLifecycle, LeasePoints, RaisingPoints,
         LatchingPoints
<1>3. CASE AnnounceAdmitted
  <2>1. events' \in Seq(GenerationEvents)
    BY <1>0, <1>3, EventAppended DEF AnnounceAdmitted
  <2>2. QED
    BY <1>0, <1>3, <2>1 DEF AnnounceAdmitted, controllerVars, ServeInv,
         LatchedWhere, FinalizedComplete, SignalLatched, BeforeLifecycle,
         LeasePoints, RaisingPoints, LatchingPoints
<1>4. CASE CloseLease
  <2>1. events' \in Seq(GenerationEvents)
    BY <1>0, <1>4, EventAppended DEF CloseLease
  <2>2. QED
    BY <1>0, <1>4, <2>1 DEF CloseLease, controllerVars, ServeInv,
         LatchedWhere, FinalizedComplete, SignalLatched, BeforeLifecycle,
         LeasePoints, RaisingPoints, LatchingPoints
<1>5. CASE StartupCheck
  <2>1. CASE \/ FinishSignalShutdown
             \/ CleanupStartupFailure("CONTROLLER_FAILURE")
    BY <1>0, <2>1, PathTaken DEF Causes
  <2>2. CASE /\ ~SignalRecorded /\ ~Unhealthy
             /\ pc' \in {"checkpoint", "run"}
             /\ UNCHANGED events
    BY <1>0, <1>5, <2>2 DEF StartupCheck, controllerVars, ServeInv,
         LatchedWhere, FinalizedComplete, SignalLatched, SignalRecorded,
         BeforeLifecycle, LeasePoints, RaisingPoints, LatchingPoints
  <2>3. QED
    BY <1>5, <2>1, <2>2 DEF StartupCheck
<1>6. CASE RunPhase
  BY <1>0, <1>6 DEF RunPhase, controllerVars, ServeInv, LatchedWhere,
         FinalizedComplete, SignalLatched, SignalRecorded, BeforeLifecycle,
         LeasePoints, RaisingPoints, LatchingPoints
<1>7. CASE FailPhase
  <2>1. \/ FinishSignalShutdown \/ CleanupPrioritized
        \/ CleanupStartupFailure("STARTUP_FAILURE")
    BY <1>7 DEF FailPhase
  <2>2. QED
    BY <1>0, <2>1, PathTaken DEF Causes
<1>8. CASE CheckpointHealth \/ MarkInitialRunning \/ Release
  <2>1. CASE CleanupStartupFailure("CONTROLLER_FAILURE")
    BY <1>0, <2>1, PathTaken DEF Causes
  <2>2. CASE /\ pc \in RaisingPoints
             /\ pc' \in RaisingPoints
             /\ UNCHANGED <<events, admission, externalSignal>>
    BY <1>0, <2>2 DEF ServeInv, LatchedWhere, FinalizedComplete,
         SignalLatched, BeforeLifecycle, LeasePoints, RaisingPoints,
         LatchingPoints
  <2>3. QED
    BY <1>8, <2>1, <2>2 DEF CheckpointHealth, MarkInitialRunning, Release,
         MarkInitialGenerationRunning, ReleaseSuccessfulRestart,
         controllerVars, RaisingPoints
<1>9. CASE CommitSuccess \/ ShowSuccess
  BY <1>0, <1>9 DEF CommitSuccess, ShowSuccess, CommitRestartTerminal,
         PublishCommitted, ServeInv, LatchedWhere, FinalizedComplete,
         SignalLatched, BeforeLifecycle, LeasePoints, RaisingPoints,
         LatchingPoints
<1>10. CASE AnnounceReady
  <2>1. events' \in Seq(GenerationEvents)
    BY <1>0, <1>10, EventAppended DEF AnnounceReady
  <2>2. QED
    BY <1>0, <1>10, <2>1 DEF AnnounceReady, controllerVars, ServeInv,
         LatchedWhere, FinalizedComplete, SignalLatched, BeforeLifecycle,
         LeasePoints, RaisingPoints, LatchingPoints
<1>11. CASE LeaveWait
  <2>1. CASE NaturalExit \/ FinishSignalShutdown
    BY <1>0, <2>1, PathTaken
  <2>2. CASE /\ BeginStopping("CONTROLLER_FAILURE")
             /\ pc' = "stop_hooks"
             /\ stopPath' = "failure"
    BY <1>0, <2>2, StopAnnounced, GoneElsewhere DEF Elsewhere
  <2>3. QED
    BY <1>11, <2>1, <2>2 DEF LeaveWait
<1>12. CASE AcceptRestart
  BY <1>0, <1>12, StopAnnounced, GoneElsewhere DEF AcceptRestart, Elsewhere
<1>13. CASE EnterMaskedSection \/ DeclineRestart
  BY <1>0, <1>13 DEF EnterMaskedSection, DeclineRestart, DeclinePending,
         controllerVars, ServeInv, LatchedWhere, FinalizedComplete,
         SignalLatched, SignalRecorded, BeforeLifecycle, LeasePoints,
         RaisingPoints, LatchingPoints
<1>14. CASE RunStopHooks
  BY <1>0, <1>14, GoneElsewhere DEF RunStopHooks, Elsewhere
<1>15. CASE FinalizeGeneration
  <2>1. /\ events' \in Seq(GenerationEvents)
        /\ events' # <<>>
        /\ events'[Len(events')] = Event(generation, "stopped")
    BY <1>0, <1>15, EventAppended DEF FinalizeGeneration
  <2>2. ASSUME result' = "OPERATOR_RESTART"
        PROVE  owned' = {} /\ ~hookFailed'
    <3>1. /\ result' = ResultOfPath
          /\ hookFailed' = hookFailed
          /\ owned' = owned
          /\ MayFinalize
      BY <1>15 DEF FinalizeGeneration
    <3>2. CASE stopPath = "restart"
      <4>1. owned = {}
        BY <3>1, <3>2 DEF MayFinalize, MayLeave
      <4>2. ~hookFailed
        BY <2>2, <3>1, <3>2 DEF ResultOfPath
      <4>3. QED
        BY <3>1, <4>1, <4>2
    <3>3. CASE stopPath # "restart"
      BY <1>0, <1>15, <2>2, <3>1, <3>3 DEF ResultOfPath, FinalizeGeneration
    <3>4. QED
      BY <3>2, <3>3
  <2>3. /\ Event(generation, "stopped")' = Event(generation, "stopped")
        /\ pc' = "finalized"
    BY <1>15 DEF FinalizeGeneration, Event, controllerVars
  <2>4. QED
    BY <2>1, <2>2, <2>3 DEF ServeInv, LatchedWhere, FinalizedComplete,
         BeforeLifecycle, LeasePoints, RaisingPoints, LatchingPoints
<1>16. CASE RestoreHandlers
  BY <1>0, <1>16 DEF RestoreHandlers, controllerVars, ServeInv, LatchedWhere,
         FinalizedComplete, Event, BeforeLifecycle, LeasePoints,
         RaisingPoints, LatchingPoints
<1>17. CASE \/ AfterNaturalExit \/ AfterExternalShutdown \/ AfterFailure
            \/ PublishStartFailure \/ ShowFailure \/ Leave
  BY <1>0, <1>17, GoneElsewhere DEF AfterNaturalExit, AfterExternalShutdown,
         AfterFailure, PublishStartFailure, ShowFailure, Leave, Elsewhere
<1>18. CASE AfterOperatorRestart
  <2>1. CASE AllocateRestartSuccessor /\ pc' = "lease" /\ UNCHANGED events
    BY <1>0, <2>1 DEF AllocateRestartSuccessor, AdmissionOpen, ServeInv,
         LatchedWhere, FinalizedComplete, SignalLatched, RaisingPoints,
         LatchingPoints
  <2>2. CASE pc' = "show_failure" /\ UNCHANGED events
    BY <1>0, <2>2, GoneElsewhere DEF Elsewhere
  <2>3. QED
    BY <1>18, <2>1, <2>2 DEF AfterOperatorRestart
<1>19. CASE ServeShutdown
  <2>1. CASE UNCHANGED events
    BY <1>0, <1>19, <2>1, GoneElsewhere DEF ServeShutdown, Elsewhere
  <2>2. CASE ~UNCHANGED events
    <3>1. /\ <<Event(generation, "stopping")>> \in Seq(GenerationEvents)
          /\ <<Event(generation, "stopped")>> \in Seq(GenerationEvents)
          /\ <<>> \in Seq(GenerationEvents)
      BY <1>0 DEF Event, GenerationEvents
    <3>2. PICK first \in Seq(GenerationEvents) :
            events' = events \o first \o <<Event(generation, "stopped")>>
      BY <1>19, <2>2, <3>1 DEF ServeShutdown
    <3>3. events' \in Seq(GenerationEvents)
      BY <1>0, <3>1, <3>2
    <3>4. QED
      BY <1>19, <3>3, GoneElsewhere DEF ServeShutdown, Elsewhere
  <2>3. QED
    BY <2>1, <2>2
<1>20. QED
  BY <1>1, <1>2, <1>3, <1>4, <1>5, <1>6, <1>7, <1>8, <1>9, <1>10, <1>11,
     <1>12, <1>13, <1>14, <1>15, <1>16, <1>17, <1>18, <1>19 DEF MainThread

\* A signal preserves the invariant: wherever the handler does not raise, the
\* lifecycle has recorded it.
LEMMA SignalInv ==
    ASSUME TypeOK, ServeInv, SignalArrives
    PROVE  ServeInv'
<1> USE DEF At, Goto, StopPathTaken
<1>0. /\ events \in Seq(GenerationEvents)
      /\ generation \in Nat
      /\ LatchedWhere
      /\ FinalizedComplete
      /\ StopPathTaken
  BY DEF ServeInv, TypeOK
<1>1. PICK s \in Signals : \/ LifecycleSignal(s) \/ FrozenSignal(s)
                           \/ ServeSignal(s) \/ TeardownSignal(s)
  BY DEF SignalArrives
<1>2. UNCHANGED generation
  BY <1>1, SignalStep DEF ObserveExternalSignal, InterruptPublication,
                          InterruptRejection
<1>3. CASE LifecycleSignal(s)
  <2>1. CASE NaturalExit \/ FinishSignalShutdown
    BY <1>0, <2>1, PathTaken
  <2>2. CASE /\ ~LifecycleRaises
             /\ UNCHANGED <<pc, stopPath, events, admission, result, owned,
                            hookFailed>>
    <3>1. pc \in LifecyclePoints \ RaisingPoints /\ SignalRecorded'
      BY <1>3, <2>2 DEF LifecycleSignal, LifecycleRaises, RaisingPoints,
                        SignalRecorded
    <3>2. QED
      BY <1>0, <1>2, <2>2, <3>1 DEF ServeInv, LatchedWhere,
           FinalizedComplete, Event, LifecyclePoints, BeforeLifecycle,
           LeasePoints, RaisingPoints, LatchingPoints
  <2>3. QED
    BY <1>3, <2>1, <2>2 DEF LifecycleSignal
<1>4. CASE FrozenSignal(s) \/ TeardownSignal(s)
  BY <1>0, <1>2, <1>4 DEF FrozenSignal, TeardownSignal, serveVars, ServeInv,
       LatchedWhere, FinalizedComplete, Event, LifecyclePoints,
       BeforeLifecycle, LeasePoints, RaisingPoints, LatchingPoints
<1>5. CASE ServeSignal(s)
  <2>1. CASE SignalLatched
    BY <1>0, <1>2, <1>5, <2>1 DEF ServeSignal, ServeInv, LatchedWhere,
         FinalizedComplete, Event, LifecyclePoints, RaisingPoints,
         LatchingPoints
  <2>2. CASE ~SignalLatched
    BY <1>0, <1>5, <2>2, GoneElsewhere DEF ServeSignal, Elsewhere
  <2>3. QED
    BY <2>1, <2>2
<1>6. QED
  BY <1>1, <1>3, <1>4, <1>5

\* Every step preserves the invariant.
LEMMA ServeStepInv ==
    ASSUME TypeOK, ServeInv, [Next]_vars
    PROVE  ServeInv'
<1> USE DEF At, Goto, StopPathTaken
<1>1. CASE MainThread
  BY <1>1, MainThreadInv
<1>2. CASE SignalArrives
  BY <1>2, SignalInv
<1>3. CASE \E o \in Owners : ReapOwner(o)
  BY <1>3 DEF ReapOwner, controllerVars, ServeInv, LatchedWhere,
       FinalizedComplete, SignalLatched, SignalRecorded, RaisingPoints,
       LatchingPoints, BeforeLifecycle, LeasePoints
<1>4. CASE Listeners
  <2>1. /\ UNCHANGED serveVars
        /\ UNCHANGED <<externalSignal, generation>>
    BY <1>4 DEF Listeners, SubmitRestart, WithdrawRestart,
                ObserveRuntimeFailure
  <2>2. QED
    BY <2>1 DEF serveVars, ServeInv, LatchedWhere, FinalizedComplete,
         SignalLatched, SignalRecorded, Event
<1>5. CASE ChildExits \/ Exited \/ UNCHANGED vars
  BY <1>5 DEF ChildExits, Exited, vars, controllerVars, serveVars, ServeInv,
       LatchedWhere, FinalizedComplete, SignalLatched, SignalRecorded, Event
<1>6. QED
  BY <1>1, <1>2, <1>3, <1>4, <1>5 DEF Next

\* The invariant holds throughout the life of the process.
THEOREM ServeInvariant == Spec => []ServeInv
<1>1. SlotInv => TypeOK
  BY DEF SlotInv
<1>2. QED
  BY ServeInit, ServeStepInv, ServeSlotInvariant, <1>1, PTL DEF Spec

-----------------------------------------------------------------------------
(* The limits of the main thread's state.                                  *)

ServePoints ==
    LifecyclePoints \cup LeasePoints \cup
      {"boot", "admit", "lease", "announce", "top", "create", "result",
       "start_failure", "show_failure", "shutdown", "leave", "exited"}
GenerationResults == (Causes \ {"STARTUP_FAILURE"}) \cup {"none", "ERROR"}
StopPaths == {"none", "external", "late", "startup", "natural", "failure",
              "restart"}

\* What a shutdown path writes.
PathLimits ==
    /\ pc \in ServePoints
    /\ admission \in BOOLEAN
    /\ stopPath \in StopPaths
    /\ cause \in Causes \cup {"none"}
    /\ shutdownDeadline \in Nat

\* What it leaves alone.
GenerationLimits ==
    /\ step \in Steps
    /\ owned \subseteq Owners
    /\ childCode \in {"none", "zero", "nonzero"}
    /\ localSignal \in {"none", "once", "repeated"}
    /\ hookFailed \in BOOLEAN
    /\ lease \in {"none", "owned", "stopping", "stopped"}
    /\ result \in GenerationResults
    /\ exit \in {"none", "zero", "nonzero"}

\* A phase that runs is one the lifecycle has work for: the checkpoint is
\* reached through the check and never run.
PhaseRuns == pc = "run" => step # "checkpoint"

MainLimits == PathLimits /\ GenerationLimits /\ PhaseRuns

\* The limits hold when the process starts.
LEMMA MainLimitsStart == Init => MainLimits
<1> SUFFICES ASSUME Init PROVE MainLimits
  OBVIOUS
<1>1. PathLimits
  BY DEF Init, PathLimits, ServePoints, StopPaths
<1>2. GenerationLimits
  BY DEF Init, GenerationLimits, Steps, GenerationResults
<1>3. PhaseRuns
  BY DEF Init, PhaseRuns
<1>4. QED
  BY <1>1, <1>2, <1>3 DEF MainLimits

\* A generation's end is announced with a cause.
LEMMA StopHasCause ==
    ASSUME cause \in Causes \cup {"none"}, NEW c \in Causes, BeginStopping(c)
    PROVE  cause' \in Causes \cup {"none"}
BY DEF BeginStopping, Causes

\* A shutdown path keeps the limits of what it writes, and leaves the phases.
LEMMA PathKeepsLimits ==
    ASSUME PathLimits, generation \in Nat,
           \/ FinishSignalShutdown /\ UNCHANGED <<admission, shutdownDeadline>>
           \/ FinishSignalShutdown /\ AcceptTimeline /\ UNCHANGED admission
           \/ NaturalExit /\ UNCHANGED shutdownDeadline
           \/ NaturalExit /\ AcceptTimeline
           \/ CleanupPrioritized /\ UNCHANGED admission
           \/ /\ \E c \in Causes : CleanupStartupFailure(c)
              /\ UNCHANGED admission
    PROVE  PathLimits' /\ pc' # "run"
<1>1. cause' \in Causes \cup {"none"}
  <2>1. \E c \in Causes : BeginStopping(c)
    BY DEF FinishSignalShutdown, NaturalExit, CleanupPrioritized,
           CleanupStartupFailure, Causes
  <2>2. QED
    BY <2>1, StopHasCause DEF PathLimits
<1>2. /\ pc' \in {"stop_hooks", "quiesce"}
      /\ stopPath' \in StopPaths
  BY DEF FinishSignalShutdown, NaturalExit, CleanupPrioritized,
         CleanupStartupFailure, StopWithChild, Goto, StopPaths
<1>3. /\ admission' \in BOOLEAN
      /\ shutdownDeadline' \in Nat
  BY DEF PathLimits, NaturalExit, CleanupPrioritized, CleanupStartupFailure,
         AcceptTimeline
<1>4. QED
  BY <1>1, <1>2, <1>3 DEF PathLimits, ServePoints, LifecyclePoints

\* What a finished lifecycle returns: its path says which result.
LEMMA ResultIsOfPath ==
    ASSUME stopPath \in StopPaths \ {"none"}
    PROVE  ResultOfPath \in GenerationResults
BY DEF ResultOfPath, StopPaths, GenerationResults, Causes

\* A phase is followed by a phase.
LEMMA PhaseFollows ==
    ASSUME step \in Steps \ {"checkpoint"}
    PROVE  Following(step) \subseteq Steps
BY DEF Steps, Following

\* What a phase leaves running is owned.
LEMMA LeftIsOwned ==
    /\ UNION LeftBySuccess(step) \subseteq Owners
    /\ UNION LeftByFailure(step) \subseteq Owners
BY Zenon DEF LeftBySuccess, LeftByFailure, Owners

\* Every step of the main thread keeps the limits.
LEMMA MainThreadKeepsLimits ==
    ASSUME TypeOK, ServeInv, MainLimits, MainThread
    PROVE  MainLimits'
<1> USE DEF At, Goto
<1>0. /\ PathLimits
      /\ GenerationLimits
      /\ PhaseRuns
      /\ StopPathTaken
      /\ generation \in Nat
  BY DEF MainLimits, ServeInv, TypeOK
<1>1. CASE \/ Boot \/ AdmitInitial \/ TakeLease \/ AnnounceAdmitted
           \/ CheckFailure \/ CreateGeneration \/ CloseLease
  <2>1. GenerationLimits'
    <3>1. CASE Boot \/ AdmitInitial \/ TakeLease \/ AnnounceAdmitted
      BY <1>0, <3>1 DEF Boot, AdmitInitial, TakeLease, AnnounceAdmitted,
         GenerationLimits, GenerationResults
    <3>2. CASE CreateGeneration
      BY <1>0, <3>2 DEF CreateGeneration, ClaimOwnership, GenerationLimits,
         Steps
    <3>3. CASE CheckFailure \/ CloseLease
      BY <1>0, <3>3 DEF CheckFailure, CloseLease, GenerationLimits
    <3>4. QED
      BY <1>1, <3>1, <3>2, <3>3
  <2>2. PathLimits' /\ pc' # "run"
    <3>1. CASE Boot \/ AdmitInitial \/ TakeLease \/ AnnounceAdmitted
      BY <1>0, <3>1 DEF Boot, AdmitInitial, TakeLease, AnnounceAdmitted,
         PathLimits, ServePoints
    <3>2. CASE CheckFailure \/ CreateGeneration
      BY <1>0, <3>2 DEF CheckFailure, CreateGeneration, PathLimits,
         ServePoints, LifecyclePoints, LeasePoints, Causes, StopPaths
    <3>3. CASE CloseLease
      BY <1>0, <3>3 DEF CloseLease, PathLimits, ServePoints, LeasePoints
    <3>4. QED
      BY <1>1, <3>1, <3>2, <3>3
  <2>3. QED
    BY <2>1, <2>2 DEF MainLimits, PhaseRuns
<1>2. CASE StartupCheck
  <2>1. GenerationLimits'
    BY <1>0, <1>2 DEF StartupCheck, GenerationLimits
  <2>2. CASE \/ FinishSignalShutdown
             \/ CleanupStartupFailure("CONTROLLER_FAILURE")
    <3>1. PathLimits' /\ pc' # "run"
      BY <1>0, <1>2, <2>2, PathKeepsLimits
         DEF StartupCheck, CleanupStartupFailure, Causes
    <3>2. QED
      BY <2>1, <3>1 DEF MainLimits, PhaseRuns
  <2>3. CASE /\ pc' = IF step = "checkpoint" THEN "checkpoint" ELSE "run"
             /\ UNCHANGED <<stopPath, cause, shutdownDeadline>>
    BY <1>0, <1>2, <2>1, <2>3 DEF StartupCheck, MainLimits, PathLimits,
       PhaseRuns, ServePoints, LifecyclePoints
  <2>4. QED
    BY <1>2, <2>2, <2>3 DEF StartupCheck
<1>3. CASE RunPhase
  <2>1. step' \in Steps
    BY <1>0, <1>3, PhaseFollows DEF RunPhase, GenerationLimits, PhaseRuns
  <2>2. owned' \subseteq Owners
    BY <1>0, <1>3, LeftIsOwned DEF RunPhase, GenerationLimits
  <2>3. QED
    BY <1>0, <1>3, <2>1, <2>2 DEF RunPhase, MainLimits, PathLimits,
       GenerationLimits, PhaseRuns, ServePoints, LifecyclePoints
<1>4. CASE FailPhase
  <2>1. owned' \subseteq Owners
    BY <1>0, <1>4, LeftIsOwned DEF FailPhase, GenerationLimits
  <2>2. GenerationLimits'
    BY <1>0, <1>4, <2>1 DEF FailPhase, GenerationLimits
  <2>3. \/ FinishSignalShutdown /\ UNCHANGED shutdownDeadline
        \/ CleanupPrioritized
        \/ CleanupStartupFailure("STARTUP_FAILURE")
    BY <1>4 DEF FailPhase
  <2>4. UNCHANGED admission
    BY <1>4 DEF FailPhase
  <2>5. PathLimits' /\ pc' # "run"
    BY <1>0, <2>3, <2>4, PathKeepsLimits DEF Causes
  <2>6. QED
    BY <2>2, <2>5 DEF MainLimits, PhaseRuns
<1>5. CASE CheckpointHealth \/ MarkInitialRunning \/ Release
  <2>1. GenerationLimits' /\ UNCHANGED admission
    BY <1>0, <1>5 DEF CheckpointHealth, MarkInitialRunning, Release,
                      GenerationLimits
  <2>2. CASE CleanupStartupFailure("CONTROLLER_FAILURE")
    <3>1. PathLimits' /\ pc' # "run"
      BY <1>0, <2>1, <2>2, PathKeepsLimits DEF Causes
    <3>2. QED
      BY <2>1, <3>1 DEF MainLimits, PhaseRuns
  <2>3. CASE /\ pc' \in {"mark", "ready"}
             /\ UNCHANGED <<stopPath, cause, shutdownDeadline>>
    BY <1>0, <2>1, <2>3 DEF MainLimits, PathLimits, PhaseRuns, ServePoints,
                            LifecyclePoints
  <2>4. QED
    BY <1>5, <2>2, <2>3 DEF CheckpointHealth, MarkInitialRunning, Release
<1>6. CASE \/ CommitSuccess \/ ShowSuccess \/ AnnounceReady
           \/ EnterMaskedSection \/ DeclineRestart \/ RestoreHandlers
           \/ Leave
  BY <1>0, <1>6 DEF CommitSuccess, ShowSuccess, AnnounceReady,
     EnterMaskedSection, DeclineRestart, RestoreHandlers, Leave, MainLimits,
     PathLimits, GenerationLimits, PhaseRuns, ServePoints, LifecyclePoints
<1>7. CASE LeaveWait
  <2>1. GenerationLimits'
    BY <1>0, <1>7 DEF LeaveWait, GenerationLimits
  <2>2. CASE \/ NaturalExit /\ UNCHANGED shutdownDeadline
             \/ /\ FinishSignalShutdown
                /\ UNCHANGED <<admission, shutdownDeadline>>
    <3>1. PathLimits' /\ pc' # "run"
      BY <1>0, <2>2, PathKeepsLimits
    <3>2. QED
      BY <2>1, <3>1 DEF MainLimits, PhaseRuns
  <2>3. CASE /\ BeginStopping("CONTROLLER_FAILURE")
             /\ AcceptTimeline
             /\ stopPath' = "failure"
             /\ pc' = "stop_hooks"
             /\ UNCHANGED admission
    <3>1. cause' \in Causes \cup {"none"}
      BY <1>0, <2>3, StopHasCause DEF PathLimits, Causes
    <3>2. QED
      BY <1>0, <2>1, <2>3, <3>1 DEF AcceptTimeline, MainLimits, PathLimits,
         PhaseRuns, ServePoints, LifecyclePoints, StopPaths
  <2>4. QED
    BY <1>7, <2>2, <2>3 DEF LeaveWait
<1>8. CASE AcceptRestart
  <2>1. cause' \in Causes \cup {"none"}
    BY <1>0, <1>8, StopHasCause DEF AcceptRestart, PathLimits, Causes
  <2>2. QED
    BY <1>0, <1>8, <2>1 DEF AcceptRestart, AcceptTimeline, MainLimits,
       PathLimits, GenerationLimits, PhaseRuns, ServePoints, LifecyclePoints,
       StopPaths
<1>9. CASE RunStopHooks
  BY <1>0, <1>9 DEF RunStopHooks, MainLimits, PathLimits, GenerationLimits,
     PhaseRuns, ServePoints, LifecyclePoints, Owners
<1>10. CASE FinalizeGeneration
  <2>1. result' \in GenerationResults
    BY <1>0, <1>10, ResultIsOfPath
       DEF FinalizeGeneration, StopPathTaken, StopPaths
  <2>2. QED
    BY <1>0, <1>10, <2>1 DEF FinalizeGeneration, MainLimits, PathLimits,
       GenerationLimits, PhaseRuns, ServePoints, LifecyclePoints, Causes
<1>11. CASE \/ AfterNaturalExit \/ AfterExternalShutdown \/ AfterFailure
            \/ AfterOperatorRestart \/ PublishStartFailure \/ ShowFailure
            \/ ServeShutdown
  <2>1. GenerationLimits'
    BY <1>0, <1>11 DEF AfterNaturalExit, AfterExternalShutdown, AfterFailure,
       AfterOperatorRestart, PublishStartFailure, ShowFailure, ServeShutdown,
       ChildExit, GenerationLimits
  <2>2. PathLimits' /\ pc' # "run"
    BY <1>0, <1>11 DEF AfterNaturalExit, AfterExternalShutdown, AfterFailure,
       AfterOperatorRestart, PublishStartFailure, ShowFailure, ServeShutdown,
       PathLimits, ServePoints, Causes
  <2>3. QED
    BY <2>1, <2>2 DEF MainLimits, PhaseRuns
<1>12. QED
  BY <1>1, <1>2, <1>3, <1>4, <1>5, <1>6, <1>7, <1>8, <1>9, <1>10, <1>11
     DEF MainThread

\* So does a signal, whichever handler it meets.
LEMMA SignalKeepsLimits ==
    ASSUME TypeOK, MainLimits, SignalArrives
    PROVE  MainLimits'
<1> USE DEF At, Goto
<1>0. /\ PathLimits
      /\ GenerationLimits
      /\ PhaseRuns
      /\ generation \in Nat
  BY DEF MainLimits, TypeOK
<1>1. PICK s \in Signals : \/ LifecycleSignal(s) \/ FrozenSignal(s)
                           \/ ServeSignal(s) \/ TeardownSignal(s)
  BY DEF SignalArrives
<1>2. CASE LifecycleSignal(s)
  <2>1. /\ GenerationLimits'
        /\ AcceptTimeline \/ UNCHANGED shutdownDeadline
        /\ UNCHANGED step
    BY <1>0, <1>2 DEF LifecycleSignal, GenerationLimits
  <2>2. CASE UNCHANGED <<pc, stopPath, cause, admission>>
    BY <1>0, <2>1, <2>2 DEF AcceptTimeline, MainLimits, PathLimits, PhaseRuns
  <2>3. CASE NaturalExit \/ (FinishSignalShutdown /\ UNCHANGED admission)
    <3>1. PathLimits' /\ pc' # "run"
      BY <1>0, <2>1, <2>3, PathKeepsLimits
    <3>2. QED
      BY <2>1, <3>1 DEF MainLimits, PhaseRuns
  <2>4. QED
    BY <1>2, <2>2, <2>3 DEF LifecycleSignal
<1>3. CASE FrozenSignal(s) \/ TeardownSignal(s)
  BY <1>0, <1>3 DEF FrozenSignal, TeardownSignal, serveVars, MainLimits,
     PathLimits, GenerationLimits, PhaseRuns
<1>4. CASE ServeSignal(s)
  BY <1>0, <1>4 DEF ServeSignal, MainLimits, PathLimits, GenerationLimits,
     PhaseRuns, ServePoints
<1>5. QED
  BY <1>1, <1>2, <1>3, <1>4

\* Every step keeps the limits.
LEMMA ServeStepKeepsLimits ==
    ASSUME TypeOK, ServeInv, MainLimits, [Next]_vars
    PROVE  MainLimits'
<1> USE DEF MainLimits, PathLimits, GenerationLimits, PhaseRuns
<1>1. CASE MainThread
  BY <1>1, MainThreadKeepsLimits
<1>2. CASE SignalArrives
  BY <1>2, SignalKeepsLimits
<1>3. CASE \E o \in Owners : ReapOwner(o)
  BY <1>3 DEF ReapOwner
<1>4. CASE Listeners
  BY <1>4 DEF Listeners, serveVars
<1>5. CASE ChildExits \/ Exited \/ UNCHANGED vars
  BY <1>5 DEF ChildExits, Exited, vars, serveVars
<1>6. QED
  BY <1>1, <1>2, <1>3, <1>4, <1>5 DEF Next

\* The main thread is always at one of its points, runs a phase that the
\* lifecycle has, ends a generation with a cause and a result the serve loop
\* handles, and announces nothing but generation events (serve.py,
\* lifecycle.py).
THEOREM ServeTypes == Spec => []ServeTypeOK
<1>1. TypeOK /\ ServeInv /\ MainLimits => ServeTypeOK
  BY DEF ServeTypeOK, ServeInv, GenerationEvents, MainLimits, PathLimits,
         GenerationLimits, ServePoints, GenerationResults, StopPaths
<1>2. SlotInv => TypeOK
  BY DEF SlotInv
<1>3. QED
  BY <1>1, <1>2, MainLimitsStart, ServeStepKeepsLimits, ServeInvariant,
     ServeSlotInvariant, PTL DEF Spec

-----------------------------------------------------------------------------
(* The action properties.                                                  *)

\* A successor is allocated only on the result of a restart, and with no
\* signal and no failure latched.
LEMMA SuccessorAllocated ==
    ASSUME [Next]_vars, generation' # generation, generation # 0
    PROVE  pc = "result" /\ result = "OPERATOR_RESTART" /\ AdmissionOpen
<1> USE DEF At
<1>1. MainThread
  <2>1. CASE SignalArrives
    BY <2>1, SignalStep DEF SignalArrives, ObserveExternalSignal,
                            InterruptPublication, InterruptRejection
  <2>2. CASE (\E o \in Owners : ReapOwner(o)) \/ ChildExits \/ Listeners
    BY <2>2 DEF ReapOwner, ChildExits, Listeners, SubmitRestart,
                WithdrawRestart, ObserveRuntimeFailure, controllerVars
  <2>3. CASE Exited \/ UNCHANGED vars
    BY <2>3 DEF Exited, vars, controllerVars
  <2>4. QED
    BY <2>1, <2>2, <2>3 DEF Next
<1>2. CASE AfterOperatorRestart
  BY <1>2 DEF AfterOperatorRestart, AllocateRestartSuccessor,
              DenyRestartSuccessor, CommitRestartTerminal
<1>3. CASE \/ Boot \/ TakeLease \/ AnnounceAdmitted \/ CheckFailure
           \/ CreateGeneration \/ CloseLease \/ StartupCheck \/ RunPhase
           \/ FailPhase \/ CheckpointHealth \/ AnnounceReady \/ LeaveWait
           \/ EnterMaskedSection \/ RunStopHooks \/ FinalizeGeneration
           \/ RestoreHandlers \/ Leave
  BY <1>3 DEF Boot, TakeLease, AnnounceAdmitted, CheckFailure,
              CreateGeneration, CloseLease, StartupCheck, RunPhase,
              FailPhase, CheckpointHealth, AnnounceReady, LeaveWait,
              EnterMaskedSection, RunStopHooks, FinalizeGeneration,
              RestoreHandlers, Leave, controllerVars
<1>4. CASE AdmitInitial \/ MarkInitialRunning
  BY <1>4 DEF AdmitInitial, MarkInitialRunning, BeginInitialAdmission,
              MarkInitialGenerationRunning, controllerVars
<1>5. CASE CommitSuccess \/ ShowSuccess \/ Release \/ ShowFailure
  BY <1>5 DEF CommitSuccess, ShowSuccess, Release, ShowFailure,
              CommitRestartTerminal, PublishCommitted,
              ReleaseSuccessfulRestart, controllerVars
<1>6. CASE AcceptRestart \/ DeclineRestart
  BY <1>6 DEF AcceptRestart, DeclineRestart, AcceptPending, DeclinePending
<1>7. CASE \/ AfterNaturalExit \/ AfterExternalShutdown \/ AfterFailure
           \/ PublishStartFailure \/ ServeShutdown
  BY <1>7 DEF AfterNaturalExit, AfterExternalShutdown, AfterFailure,
              PublishStartFailure, ServeShutdown, MarkGenerationTerminal,
              MarkExternalShutdown, CommitRestartTerminal, controllerVars
<1>8. QED
  BY <1>1, <1>2, <1>3, <1>4, <1>5, <1>6, <1>7 DEF MainThread

\* A restart is a complete serial replacement: the successor is allocated when
\* nothing of its predecessor is left and its end has been announced, and
\* never after a failed stop hook, a signal or a failure
\* (allocate_restart_successor as called by run_serve_runtime).
THEOREM ReplacementSerial == Spec => SerialReplacement
<1>1. ASSUME ServeInv, [Next]_vars, generation' # generation, generation # 0
      PROVE  /\ owned = {}
             /\ events # <<>>
             /\ events[Len(events)] = Event(generation, "stopped")
             /\ ~hookFailed
             /\ ~SignalLatched
             /\ ~runtimeFailure
  BY <1>1, SuccessorAllocated DEF ServeInv, FinalizedComplete, AdmissionOpen
<1>2. QED
  BY <1>1, ServeInvariant, PTL DEF Spec, SerialReplacement

\* A generation is admitted only with no signal and no failure latched.
LEMMA AdmittedOpen ==
    ASSUME [ControllerNext]_controllerVars, generation' # generation
    PROVE  AdmissionOpen
<1>1. CASE BeginInitialAdmission \/ AllocateRestartSuccessor
  BY <1>1 DEF BeginInitialAdmission, AllocateRestartSuccessor
<1>2. CASE \/ \E t \in Tickets : SubmitRestart(t) \/ WithdrawRestart(t)
           \/ ObserveRuntimeFailure
           \/ \E s \in Signals : \/ ObserveExternalSignal(s)
                                 \/ InterruptPublication(s)
                                 \/ InterruptRejection(s)
  BY <1>2 DEF SubmitRestart, WithdrawRestart, ObserveRuntimeFailure,
              ObserveExternalSignal, InterruptPublication,
              InterruptRejection
<1>3. CASE \/ MarkInitialGenerationRunning \/ AcceptPending
           \/ DeclinePending \/ DenyRestartSuccessor
           \/ \E r \in Results : CommitRestartTerminal(r)
           \/ PublishCommitted \/ ReleaseSuccessfulRestart
           \/ MarkGenerationTerminal \/ MarkExternalShutdown
  BY <1>3 DEF MarkInitialGenerationRunning, AcceptPending, DeclinePending,
              DenyRestartSuccessor, CommitRestartTerminal, PublishCommitted,
              ReleaseSuccessfulRestart, MarkGenerationTerminal,
              MarkExternalShutdown
<1>4. QED
  BY <1>1, <1>2, <1>3 DEF ControllerNext, controllerVars

\* The step announces nothing but the end of a generation.
AnnouncesEndOnly ==
    Len(events') > Len(events) =>
        events'[Len(events')].event \in {"stopping", "stopped"}

\* What the shutdown paths announce.
LEMMA StopsAnnounceEndOnly ==
    ASSUME events \in Seq(GenerationEvents), generation \in Nat,
           \/ \E c \in Causes : BeginStopping(c)
           \/ Emit("stopping") \/ Emit("stopped") \/ UNCHANGED events
    PROVE  AnnouncesEndOnly
<1>1. ASSUME NEW e \in {"stopping", "stopped"}, Emit(e)
      PROVE  AnnouncesEndOnly
  BY <1>1, EventAppended DEF AnnouncesEndOnly, Event
<1>2. CASE UNCHANGED events
  BY <1>2 DEF AnnouncesEndOnly
<1>3. QED
  BY <1>1, <1>2 DEF BeginStopping

\* Once a signal is latched, only ends are announced.
LEMMA LatchedAnnouncesEndOnly ==
    ASSUME TypeOK, ServeInv, [Next]_vars, SignalLatched
    PROVE  AnnouncesEndOnly
<1> USE DEF At
<1>0. /\ events \in Seq(GenerationEvents)
      /\ generation \in Nat
      /\ pc \notin BeforeLifecycle \cup RaisingPoints
  BY DEF ServeInv, TypeOK, LatchedWhere
<1>1. CASE ServeShutdown
  <2>1. CASE UNCHANGED events
    BY <1>0, <2>1, StopsAnnounceEndOnly
  <2>2. CASE ~UNCHANGED events
    <3>1. /\ <<Event(generation, "stopping")>> \in Seq(GenerationEvents)
          /\ <<Event(generation, "stopped")>> \in Seq(GenerationEvents)
          /\ <<>> \in Seq(GenerationEvents)
      BY <1>0 DEF Event, GenerationEvents
    <3>2. PICK first \in Seq(GenerationEvents) :
            events' = events \o first \o <<Event(generation, "stopped")>>
      BY <1>1, <2>2, <3>1 DEF ServeShutdown
    <3>3. events'[Len(events')] = Event(generation, "stopped")
      BY <1>0, <3>1, <3>2
    <3>4. QED
      BY <3>3 DEF AnnouncesEndOnly, Event
  <2>3. QED
    BY <2>1, <2>2
<1>2. CASE FinishSignalShutdown \/ NaturalExit \/ CleanupPrioritized
           \/ \E c \in Causes : CleanupStartupFailure(c)
  BY <1>0, <1>2, StopsAnnounceEndOnly DEF FinishSignalShutdown, NaturalExit,
       CleanupPrioritized, CleanupStartupFailure, Causes
<1>3. CASE UNCHANGED events
  BY <1>0, <1>3, StopsAnnounceEndOnly
<1>4. CASE SignalArrives
  BY <1>2, <1>3, <1>4 DEF SignalArrives, LifecycleSignal, FrozenSignal,
       ServeSignal, TeardownSignal, serveVars
<1>5. CASE (\E o \in Owners : ReapOwner(o)) \/ ChildExits \/ Listeners
             \/ Exited \/ UNCHANGED vars
  BY <1>3, <1>5 DEF ReapOwner, ChildExits, Listeners, Exited, vars,
       serveVars
<1>6. CASE StartupCheck \/ FailPhase \/ LeaveWait
  <2>1. \/ FinishSignalShutdown \/ NaturalExit \/ CleanupPrioritized
        \/ \E c \in Causes : CleanupStartupFailure(c)
        \/ BeginStopping("CONTROLLER_FAILURE")
        \/ UNCHANGED events
    BY <1>6 DEF StartupCheck, FailPhase, LeaveWait, Causes
  <2>2. QED
    BY <1>0, <1>2, <1>3, <2>1, StopsAnnounceEndOnly DEF Causes
<1>7. CASE AcceptRestart \/ FinalizeGeneration
  BY <1>0, <1>7, StopsAnnounceEndOnly DEF AcceptRestart, FinalizeGeneration,
       Causes
<1>8. CASE \/ Boot \/ AdmitInitial \/ TakeLease \/ AnnounceAdmitted
           \/ CheckFailure \/ CreateGeneration \/ CloseLease
           \/ CheckpointHealth \/ MarkInitialRunning \/ CommitSuccess
           \/ ShowSuccess \/ Release \/ AnnounceReady
  BY <1>0, <1>8 DEF Boot, AdmitInitial, TakeLease, AnnounceAdmitted,
       CheckFailure, CreateGeneration, CloseLease, CheckpointHealth,
       MarkInitialRunning, CommitSuccess, ShowSuccess, Release,
       AnnounceReady, BeforeLifecycle, LeasePoints, RaisingPoints
<1>9. CASE \/ RunPhase \/ EnterMaskedSection \/ DeclineRestart
           \/ RunStopHooks \/ RestoreHandlers \/ AfterNaturalExit
           \/ AfterExternalShutdown \/ AfterFailure \/ AfterOperatorRestart
           \/ PublishStartFailure \/ ShowFailure \/ Leave
  BY <1>3, <1>9 DEF RunPhase, EnterMaskedSection, DeclineRestart,
       RunStopHooks, RestoreHandlers, AfterNaturalExit,
       AfterExternalShutdown, AfterFailure, AfterOperatorRestart,
       PublishStartFailure, ShowFailure, Leave
<1>10. QED
  BY <1>1, <1>4, <1>5, <1>6, <1>7, <1>8, <1>9 DEF Next, MainThread

\* Docker's shutdown outranks restarts: with a signal latched no generation is
\* admitted and none becomes ready, whatever the listeners and further signals
\* do (supervise, publish_running_checkpoint, run_serve_runtime).
THEOREM ShutdownOutranks == Spec => ShutdownOutranksRestart
<1>1. ASSUME SlotInv, ServeInv, [Next]_vars, SignalLatched
      PROVE  /\ generation' = generation
             /\ Len(events') > Len(events) =>
                  events'[Len(events')].event \in {"stopping", "stopped"}
  <2>1. generation' = generation
    BY <1>1, ServeStep, AdmittedOpen DEF AdmissionOpen
  <2>2. AnnouncesEndOnly
    BY <1>1, LatchedAnnouncesEndOnly DEF SlotInv
  <2>3. QED
    BY <2>1, <2>2 DEF AnnouncesEndOnly
<1>2. QED
  BY <1>1, ServeSlotInvariant, ServeInvariant, PTL
     DEF Spec, ShutdownOutranksRestart

-----------------------------------------------------------------------------
(* The order of the events.                                                *)

\* EventsInOrder of a record of events.
Ordered(s) ==
    \A i, j \in 1..Len(s) : i < j =>
        \/ s[i].generation < s[j].generation
             /\ \E k \in i..j : s[k] = Event(s[i].generation, "stopped")
        \/ s[i].generation = s[j].generation
             /\ Rank(s[i].event) < Rank(s[j].event)

\* Event x may follow the record: it goes on with the generation of the last
\* event, or that generation has ended.
MayFollow(s, x) ==
    s # <<>> =>
        \/ /\ s[Len(s)].generation = x.generation
           /\ Rank(s[Len(s)].event) < Rank(x.event)
        \/ /\ s[Len(s)].generation < x.generation
           /\ s[Len(s)].event = "stopped"

\* What was announced last of the current generation.
LastEvent ==
    IF events # <<>> /\ events[Len(events)].generation = generation
      THEN events[Len(events)].event
      ELSE "none"

\* As long as nothing is announced of a generation, the end of its
\* predecessor is the last event.
PredecessorEnded ==
    events # <<>> =>
        \/ events[Len(events)].generation = generation
        \/ /\ events[Len(events)].generation < generation
           /\ events[Len(events)].event = "stopped"

\* A lease is held from the admission until the lifecycle takes over, or
\* until it is closed.
LeaseHeld ==
    /\ lease \in {"none", "owned", "stopping", "stopped"}
    /\ pc \in {"announce", "top", "create", "close_lease"} => lease = "owned"
    /\ pc \in {"emit_stopping", "stop_lease"} => lease = "stopping"
    /\ pc = "emit_stopped" => lease = "stopped"
    /\ pc = "shutdown" => lease # "stopped"
    /\ pc \notin LeasePoints \cup {"announce", "top", "create", "shutdown"} =>
         lease = "none"

\* What has been announced where the main thread is.
EventsTold ==
    /\ pc \in {"boot", "admit", "lease", "announce"} => LastEvent = "none"
    /\ pc \in RaisingPoints
              \cup {"top", "create", "close_lease", "emit_stopping", "check",
                    "run"} => LastEvent = "admitted"
    /\ pc \in {"stop_lease", "emit_stopped"} => LastEvent = "stopping"
    /\ pc \in {"wait", "accept"} => LastEvent = "ready"
    /\ pc \in {"stop_hooks", "quiesce"} => LastEvent # "stopped"
    /\ pc \in {"finalized", "result"} => LastEvent = "stopped"
    /\ pc = "shutdown" /\ lease = "owned" => LastEvent \in {"none", "admitted"}
    /\ pc = "shutdown" /\ lease = "stopping" => LastEvent # "stopped"

\* The inductive invariant of the order.
OrderInv ==
    /\ Ordered(events)
    /\ PredecessorEnded
    /\ LeaseHeld
    /\ EventsTold

\* An event that may follow keeps the record in order.
LEMMA FollowedInOrder ==
    ASSUME NEW s \in Seq(GenerationEvents), NEW x \in GenerationEvents,
           Ordered(s), MayFollow(s, x)
    PROVE  /\ Append(s, x) \in Seq(GenerationEvents)
           /\ Append(s, x) # <<>>
           /\ Append(s, x)[Len(Append(s, x))] = x
           /\ Ordered(Append(s, x))
<1> DEFINE n == Len(s)
<1> DEFINE t == Append(s, x)
<1>1. /\ n \in Nat
      /\ t \in Seq(GenerationEvents)
      /\ Len(t) = n + 1
      /\ t[n + 1] = x
      /\ \A i \in 1..n : t[i] = s[i]
      /\ \A i \in 1..n : s[i] \in GenerationEvents
  OBVIOUS
<1> HIDE DEF t
<1>2. \A i \in 1..(n + 1) : t[i] \in GenerationEvents
  BY <1>1
<1>3. ASSUME NEW i \in 1..(n + 1), NEW j \in 1..(n + 1), i < j
      PROVE  \/ /\ t[i].generation < t[j].generation
                /\ \E k \in i..j : t[k] = Event(t[i].generation, "stopped")
             \/ /\ t[i].generation = t[j].generation
                /\ Rank(t[i].event) < Rank(t[j].event)
  <2>1. CASE j <= n
    <3>1. i \in 1..n /\ j \in 1..n
      BY <1>1, <1>3, <2>1
    <3>2. t[i] = s[i] /\ t[j] = s[j] /\ \A k \in i..j : t[k] = s[k]
      BY <1>1, <1>3, <3>1
    <3>3. QED
      BY <1>3, <3>1, <3>2 DEF Ordered
  <2>2. CASE j = n + 1
    <3>1. /\ i \in 1..n /\ n \in 1..n
          /\ t[i] = s[i] /\ t[n] = s[n] /\ t[j] = x
          /\ s # <<>>
      BY <1>1, <1>3, <2>2
    <3>2. /\ s[i].generation \in Nat /\ s[n].generation \in Nat
          /\ x.generation \in Nat
          /\ Rank(s[i].event) \in Nat /\ Rank(s[n].event) \in Nat
          /\ Rank(x.event) \in Nat
      BY <1>1, <3>1 DEF GenerationEvents, Rank
    <3>3. s[n].event = "stopped"
            => s[n] = Event(s[n].generation, "stopped")
      BY <1>1, <3>1 DEF GenerationEvents, Event
    <3>4. CASE i = n
      <4>1. n \in i..j
        BY <2>2, <3>1, <3>4
      <4>2. QED
        BY <3>1, <3>2, <3>3, <3>4, <4>1 DEF MayFollow
    <3>5. CASE i < n
      <4>1. \/ /\ s[i].generation < s[n].generation
               /\ \E k \in i..n : s[k] = Event(s[i].generation, "stopped")
            \/ /\ s[i].generation = s[n].generation
               /\ Rank(s[i].event) < Rank(s[n].event)
        BY <3>1, <3>5 DEF Ordered
      <4>2. CASE /\ s[i].generation < s[n].generation
                 /\ \E k \in i..n : s[k] = Event(s[i].generation, "stopped")
        <5>1. PICK k \in i..n : s[k] = Event(s[i].generation, "stopped")
          BY <4>2
        <5>2. k \in i..j /\ t[k] = s[k]
          BY <1>1, <2>2, <3>1, <5>1
        <5>3. s[i].generation < x.generation
          BY SMTT(20), <3>1, <3>2, <4>2 DEF MayFollow
        <5>4. QED
          BY <3>1, <5>1, <5>2, <5>3
      <4>3. CASE /\ s[i].generation = s[n].generation
                 /\ Rank(s[i].event) < Rank(s[n].event)
        <5>1. n \in i..j
          BY <1>1, <2>2, <3>5
        <5>2. QED
          BY <3>1, <3>2, <3>3, <4>3, <5>1 DEF MayFollow
      <4>4. QED
        BY <4>1, <4>2, <4>3
    <3>6. QED
      BY <1>1, <3>1, <3>4, <3>5
  <2>3. QED
    BY <1>1, <1>3, <2>1, <2>2
<1>4. Ordered(t)
  BY <1>1, <1>3 DEF Ordered
<1>5. t # <<>>
  BY <1>1
<1>6. QED
  BY <1>1, <1>4, <1>5 DEF t

\* An event is announced in order when less was announced of the generation.
LEMMA AnnouncedInOrder ==
    ASSUME events \in Seq(GenerationEvents), generation \in Nat,
           Ordered(events), PredecessorEnded,
           NEW e \in {"admitted", "ready", "stopping", "stopped"},
           LastEvent = "none" \/ Rank(LastEvent) < Rank(e),
           Emit(e), generation' = generation
    PROVE  /\ Ordered(events)'
           /\ PredecessorEnded'
           /\ LastEvent' = e
<1> DEFINE x == Event(generation, e)
<1>1. x \in GenerationEvents /\ x.generation = generation /\ x.event = e
  BY DEF Event, GenerationEvents
<1>2. MayFollow(events, x)
  <2>1. CASE events = <<>>
    BY <2>1 DEF MayFollow
  <2>2. CASE events # <<>> /\ events[Len(events)].generation = generation
    <3>1. /\ events[Len(events)] \in GenerationEvents
          /\ LastEvent = events[Len(events)].event
      BY <2>2 DEF LastEvent
    <3>2. LastEvent # "none"
      BY <3>1 DEF GenerationEvents
    <3>3. QED
      BY <1>1, <2>2, <3>1, <3>2 DEF MayFollow
  <2>3. CASE events # <<>> /\ events[Len(events)].generation # generation
    BY <1>1, <2>3 DEF MayFollow, PredecessorEnded
  <2>4. QED
    BY <2>1, <2>2, <2>3
<1> HIDE DEF x
<1>3. /\ events' = Append(events, x)
      /\ events' # <<>>
      /\ events'[Len(events')] = x
      /\ Ordered(events)'
  BY <1>1, <1>2, FollowedInOrder DEF Emit, x
<1>4. LastEvent' = e /\ PredecessorEnded'
  BY <1>1, <1>3 DEF LastEvent, PredecessorEnded
<1>5. QED
  BY <1>3, <1>4

\* Without an announcement and with the same generation nothing changes.
LEMMA NothingAnnounced ==
    ASSUME Ordered(events), PredecessorEnded, UNCHANGED <<events, generation>>
    PROVE  Ordered(events)' /\ PredecessorEnded' /\ LastEvent' = LastEvent
<1>1. events' = events /\ generation' = generation
  OBVIOUS
<1>2. Ordered(events)'
  BY <1>1 DEF Ordered, Event
<1>3. PredecessorEnded' /\ LastEvent' = LastEvent
  BY <1>1 DEF PredecessorEnded, LastEvent
<1>4. QED
  BY <1>2, <1>3

\* The last event of a generation is an event, or there is none.
LEMMA LastEventKind ==
    ASSUME events \in Seq(GenerationEvents)
    PROVE  /\ LastEvent \in {"none", "admitted", "ready", "stopping",
                             "stopped"}
           /\ Rank("admitted") = 1
           /\ Rank("ready") = 2
           /\ Rank("stopping") = 3
           /\ Rank("stopped") = 4
<1>1. ASSUME events # <<>>
      PROVE  events[Len(events)] \in GenerationEvents
  BY <1>1
<1>2. QED
  BY <1>1 DEF LastEvent, Rank, GenerationEvents

\* A lease that is still owned announces both events of its end at once.
LEMMA EndedAtOnce ==
    ASSUME events \in Seq(GenerationEvents), generation \in Nat,
           Ordered(events), PredecessorEnded,
           LastEvent \in {"none", "admitted"}, generation' = generation,
           events' = Append(Append(events, Event(generation, "stopping")),
                            Event(generation, "stopped"))
    PROVE  Ordered(events)' /\ PredecessorEnded'
<1> DEFINE x == Event(generation, "stopping")
<1> DEFINE y == Event(generation, "stopped")
<1> DEFINE s == Append(events, x)
<1>1. /\ x \in GenerationEvents /\ y \in GenerationEvents
      /\ x.generation = generation /\ x.event = "stopping"
      /\ y.generation = generation /\ y.event = "stopped"
  BY DEF Event, GenerationEvents
<1>2. MayFollow(events, x)
  <2>1. ASSUME events # <<>>
        PROVE  events[Len(events)] \in GenerationEvents
    BY <2>1
  <2>2. QED
    BY <1>1, <2>1, LastEventKind
       DEF MayFollow, LastEvent, PredecessorEnded, GenerationEvents
<1> HIDE DEF x, y
<1>3. /\ s \in Seq(GenerationEvents)
      /\ s # <<>>
      /\ s[Len(s)] = x
      /\ Ordered(s)
  BY <1>1, <1>2, FollowedInOrder
<1>4. events' = Append(s, y)
  BY DEF x, y
<1> HIDE DEF s
<1>5. MayFollow(s, y)
  BY <1>1, <1>3, LastEventKind DEF MayFollow
<1>6. /\ events' # <<>>
      /\ events'[Len(events')] = y
      /\ Ordered(events')
  <2>1. /\ Append(s, y) # <<>>
        /\ Append(s, y)[Len(Append(s, y))] = y
        /\ Ordered(Append(s, y))
    BY <1>1, <1>3, <1>5, FollowedInOrder
  <2>2. QED
    BY <1>4, <2>1, Zenon
<1>7. QED
  BY <1>1, <1>6 DEF PredecessorEnded

\* A lifecycle that stops announces it at most once, and in order.
LEMMA PathInOrder ==
    ASSUME ServeInv, OrderInv, generation \in Nat, UNCHANGED generation,
           LastEvent \in {"admitted", "ready"}, lease' = "none",
           NEW c, BeginStopping(c), pc' \in {"stop_hooks", "quiesce"}
    PROVE  OrderInv'
<1>1. Ordered(events)' /\ PredecessorEnded' /\ LastEvent' # "stopped"
  <2>1. CASE UNCHANGED events
    BY <2>1, NothingAnnounced DEF OrderInv
  <2>2. CASE Emit("stopping")
    BY <2>2, AnnouncedInOrder, LastEventKind DEF OrderInv, ServeInv
  <2>3. QED
    BY <2>1, <2>2 DEF BeginStopping
<1>2. LeaseHeld' /\ EventsTold'
  BY <1>1 DEF LeaseHeld, EventsTold, LeasePoints, RaisingPoints
<1>3. QED
  BY <1>1, <1>2 DEF OrderInv

\* The lifecycle's points before it stops.
LivePoints == RaisingPoints \cup {"check", "run", "wait", "accept"}

LEMMA LivePointsTold ==
    ASSUME OrderInv, pc \in LivePoints
    PROVE  LastEvent \in {"admitted", "ready"} /\ lease = "none"
BY DEF OrderInv, EventsTold, LeaseHeld, LivePoints, RaisingPoints,
       LeasePoints

\* Each of the lifecycle's shutdown paths keeps the order.
LEMMA StopsInOrder ==
    ASSUME ServeInv, OrderInv, generation \in Nat, UNCHANGED generation,
           pc \in LivePoints, UNCHANGED lease,
           \/ FinishSignalShutdown \/ NaturalExit \/ CleanupPrioritized
           \/ \E c \in Causes : CleanupStartupFailure(c)
           \/ \E c \in Causes : BeginStopping(c) /\ Goto("stop_hooks")
    PROVE  OrderInv'
<1>1. /\ \E c : BeginStopping(c)
      /\ pc' \in {"stop_hooks", "quiesce"}
  BY DEF FinishSignalShutdown, NaturalExit, CleanupPrioritized,
         CleanupStartupFailure, StopWithChild, Goto
<1>2. QED
  BY <1>1, LivePointsTold, PathInOrder

\* Every step of the main thread keeps the order.
LEMMA MainThreadOrder ==
    ASSUME TypeOK, ServeInv, OrderInv, MainThread
    PROVE  OrderInv'
<1> USE DEF At, Goto
<1>0. /\ events \in Seq(GenerationEvents)
      /\ generation \in Nat
      /\ Ordered(events)
      /\ PredecessorEnded
      /\ LeaseHeld
      /\ EventsTold
  BY DEF ServeInv, TypeOK, OrderInv
<1>q. ASSUME UNCHANGED <<events, generation>>,
             LeaseHeld', LastEvent' = LastEvent => EventsTold'
      PROVE  OrderInv'
  BY <1>0, <1>q, NothingAnnounced DEF OrderInv
<1>a. ASSUME NEW e \in {"admitted", "ready", "stopping", "stopped"},
             LastEvent = "none" \/ Rank(LastEvent) < Rank(e),
             Emit(e), generation' = generation,
             LeaseHeld', LastEvent' = e => EventsTold'
      PROVE  OrderInv'
  BY <1>0, <1>a, AnnouncedInOrder DEF OrderInv
<1>p. ASSUME pc \in LivePoints, UNCHANGED <<lease, generation>>,
             \/ FinishSignalShutdown \/ NaturalExit \/ CleanupPrioritized
             \/ \E c \in Causes : CleanupStartupFailure(c)
             \/ \E c \in Causes : BeginStopping(c) /\ Goto("stop_hooks")
      PROVE  OrderInv'
  BY <1>0, <1>p, StopsInOrder
<1> USE DEF LeaseHeld, EventsTold, LeasePoints, RaisingPoints
<1>1. CASE Boot \/ TakeLease \/ CheckFailure \/ CreateGeneration
  BY <1>0, <1>1, <1>q DEF Boot, TakeLease, CheckFailure, CreateGeneration,
     ClaimOwnership, controllerVars
<1>2. CASE AdmitInitial
  <2>1. CASE runtimeFailure
    BY <1>0, <1>2, <2>1, <1>q DEF AdmitInitial, controllerVars
  <2>2. CASE ~runtimeFailure
    <3>1. generation = 0 /\ generation' = 1 /\ UNCHANGED <<events, lease>>
      BY <1>2, <2>2 DEF AdmitInitial, BeginInitialAdmission
    <3>2. events = <<>>
      <4>1. ASSUME events # <<>> PROVE FALSE
        <5>0. /\ events[Len(events)] \in GenerationEvents
              /\ LastEvent = "none"
          BY <1>0, <1>2, <4>1 DEF AdmitInitial
        <5>1. /\ events[Len(events)].generation # generation
              /\ events[Len(events)].generation \in Nat
          BY <4>1, <5>0 DEF LastEvent, GenerationEvents
        <5>2. QED
          BY <1>0, <3>1, <4>1, <5>1 DEF PredecessorEnded
      <4>2. QED
        BY <4>1
    <3>3. Ordered(events)' /\ PredecessorEnded' /\ LastEvent' = "none"
      BY <3>1, <3>2 DEF Ordered, PredecessorEnded, LastEvent
    <3>4. QED
      BY <1>0, <1>2, <2>2, <3>1, <3>3 DEF AdmitInitial, OrderInv
  <2>3. QED
    BY <2>1, <2>2
<1>3. CASE AnnounceAdmitted
  BY <1>0, <1>3, <1>a DEF AnnounceAdmitted, controllerVars
<1>4. CASE CloseLease
  <2>1. CASE At("close_lease") \/ At("stop_lease")
    BY <1>0, <1>4, <2>1, <1>q DEF CloseLease, controllerVars
  <2>2. CASE At("emit_stopping") \/ At("emit_stopped")
    BY <1>0, <1>4, <2>2, <1>a, LastEventKind DEF CloseLease, controllerVars
  <2>3. QED
    BY <1>4, <2>1, <2>2 DEF CloseLease
<1>5. CASE StartupCheck
  <2>1. CASE \/ FinishSignalShutdown
             \/ CleanupStartupFailure("CONTROLLER_FAILURE")
    BY <1>5, <2>1, <1>p DEF StartupCheck, LivePoints, Causes, controllerVars
  <2>2. CASE pc' \in {"checkpoint", "run"} /\ UNCHANGED events
    BY <1>0, <1>5, <2>2, <1>q DEF StartupCheck, controllerVars
  <2>3. QED
    BY <1>5, <2>1, <2>2 DEF StartupCheck
<1>6. CASE RunPhase \/ EnterMaskedSection
  BY <1>0, <1>6, <1>q DEF RunPhase, EnterMaskedSection, controllerVars
<1>7. CASE FailPhase
  <2>1. \/ FinishSignalShutdown \/ CleanupPrioritized
        \/ CleanupStartupFailure("STARTUP_FAILURE")
    BY <1>7 DEF FailPhase
  <2>2. QED
    BY <1>7, <2>1, <1>p DEF FailPhase, LivePoints, Causes, controllerVars
<1>8. CASE CheckpointHealth \/ MarkInitialRunning \/ Release
  <2>1. CASE CleanupStartupFailure("CONTROLLER_FAILURE")
    <3>1. UNCHANGED generation
      BY <1>8 DEF CheckpointHealth, MarkInitialRunning, Release,
         MarkInitialGenerationRunning, ReleaseSuccessfulRestart,
         controllerVars
    <3>2. QED
      BY <1>8, <2>1, <3>1, <1>p DEF CheckpointHealth, MarkInitialRunning,
         Release, LivePoints, Causes
  <2>2. CASE /\ pc' \in RaisingPoints
             /\ UNCHANGED <<events, generation>>
    BY <1>0, <1>8, <2>2, <1>q DEF CheckpointHealth, MarkInitialRunning,
       Release
  <2>3. QED
    BY <1>8, <2>1, <2>2 DEF CheckpointHealth, MarkInitialRunning, Release,
         MarkInitialGenerationRunning, ReleaseSuccessfulRestart,
         controllerVars
<1>9. CASE CommitSuccess \/ ShowSuccess
  BY <1>0, <1>9, <1>q DEF CommitSuccess, ShowSuccess, CommitRestartTerminal,
     PublishCommitted
<1>10. CASE AnnounceReady
  BY <1>0, <1>10, <1>a, LastEventKind DEF AnnounceReady, controllerVars
<1>11. CASE LeaveWait
  <2>1. \/ NaturalExit \/ FinishSignalShutdown
        \/ BeginStopping("CONTROLLER_FAILURE") /\ Goto("stop_hooks")
    BY <1>11 DEF LeaveWait
  <2>2. QED
    BY <1>11, <2>1, <1>p DEF LeaveWait, LivePoints, Causes, controllerVars
<1>12. CASE AcceptRestart
  BY <1>12, <1>p DEF AcceptRestart, AcceptPending, LivePoints, Causes
<1>13. CASE DeclineRestart
  BY <1>0, <1>13, <1>q DEF DeclineRestart, DeclinePending
<1>14. CASE RunStopHooks
  BY <1>0, <1>14, <1>q DEF RunStopHooks, controllerVars
<1>15. CASE FinalizeGeneration
  <2>1. LastEvent = "none" \/ Rank(LastEvent) < Rank("stopped")
    BY <1>0, <1>15, LastEventKind DEF FinalizeGeneration
  <2>2. QED
    BY <1>0, <1>15, <2>1, <1>a DEF FinalizeGeneration, controllerVars
<1>16. CASE RestoreHandlers
  BY <1>0, <1>16, <1>q DEF RestoreHandlers, controllerVars
<1>17. CASE \/ AfterNaturalExit \/ AfterExternalShutdown \/ AfterFailure
            \/ PublishStartFailure \/ ShowFailure \/ Leave
  <2>1. UNCHANGED <<events, lease, generation>>
    BY <1>17 DEF AfterNaturalExit, AfterExternalShutdown, AfterFailure,
       PublishStartFailure, ShowFailure, Leave, MarkGenerationTerminal,
       MarkExternalShutdown, CommitRestartTerminal, PublishCommitted,
       controllerVars
  <2>2. /\ pc' \in {"start_failure", "leave", "show_failure", "shutdown",
                    "exited"}
        /\ lease = "none"
    BY <1>0, <1>17 DEF AfterNaturalExit, AfterExternalShutdown, AfterFailure,
       PublishStartFailure, ShowFailure, Leave
  <2>3. QED
    BY <1>0, <2>1, <2>2, <1>q
<1>18. CASE AfterOperatorRestart
  <2>1. CASE AllocateRestartSuccessor /\ pc' = "lease"
    <3>1. /\ generation' = generation + 1
          /\ UNCHANGED <<events, lease>>
          /\ LastEvent = "stopped"
          /\ lease = "none"
      BY <1>0, <1>18, <2>1 DEF AfterOperatorRestart, AllocateRestartSuccessor
    <3>2. /\ events # <<>>
          /\ events[Len(events)].generation = generation
          /\ events[Len(events)].event = "stopped"
      BY <3>1 DEF LastEvent
    <3>3. Ordered(events)' /\ PredecessorEnded' /\ LastEvent' = "none"
      BY <1>0, <3>1, <3>2 DEF Ordered, PredecessorEnded, LastEvent, Event
    <3>4. QED
      BY <2>1, <3>1, <3>3 DEF OrderInv
  <2>2. CASE DenyRestartSuccessor /\ pc' = "show_failure"
    BY <1>0, <1>18, <2>2, <1>q DEF AfterOperatorRestart,
       DenyRestartSuccessor, CommitRestartTerminal
  <2>3. QED
    BY <1>18, <2>1, <2>2 DEF AfterOperatorRestart
<1>19. CASE ServeShutdown
  <2>0. /\ pc' = "leave" /\ lease' = "none" /\ UNCHANGED generation
        /\ lease \in {"none", "owned", "stopping"}
    BY <1>0, <1>19 DEF ServeShutdown, MarkExternalShutdown
  <2>1. CASE lease = "none"
    BY <1>0, <1>19, <2>0, <2>1, <1>q DEF ServeShutdown
  <2>2. CASE lease = "stopping"
    <3>1. Emit("stopped")
      BY <1>0, <1>19, <2>2 DEF ServeShutdown, Emit
    <3>2. LastEvent = "none" \/ Rank(LastEvent) < Rank("stopped")
      BY <1>0, <1>19, <2>2, LastEventKind DEF ServeShutdown
    <3>3. QED
      BY <2>0, <3>1, <3>2, <1>a
  <2>3. CASE lease = "owned"
    <3>1. events' = Append(Append(events, Event(generation, "stopping")),
                           Event(generation, "stopped"))
      <4>1. events' = events \o <<Event(generation, "stopping")>>
                             \o <<Event(generation, "stopped")>>
        BY <1>19, <2>3 DEF ServeShutdown
      <4>2. /\ Event(generation, "stopping") \in GenerationEvents
            /\ Event(generation, "stopped") \in GenerationEvents
        BY <1>0 DEF Event, GenerationEvents
      <4>3. QED
        BY <1>0, <4>1, <4>2, AppendIsConcat, ConcatProperties
    <3>2. LastEvent \in {"none", "admitted"}
      BY <1>0, <1>19, <2>3 DEF ServeShutdown
    <3>3. QED
      BY <1>0, <2>0, <3>1, <3>2, EndedAtOnce DEF OrderInv
  <2>4. QED
    BY <2>0, <2>1, <2>2, <2>3
<1>20. QED
  BY <1>1, <1>2, <1>3, <1>4, <1>5, <1>6, <1>7, <1>8, <1>9, <1>10, <1>11,
     <1>12, <1>13, <1>14, <1>15, <1>16, <1>17, <1>18, <1>19 DEF MainThread

\* A signal handler only latches, so the generation stays.
LEMMA SignalKeepsGeneration ==
    ASSUME NEW s \in Signals,
           \/ LifecycleSignal(s) \/ FrozenSignal(s) \/ ServeSignal(s)
           \/ TeardownSignal(s)
    PROVE  UNCHANGED generation
BY SignalStep DEF ObserveExternalSignal, InterruptPublication,
   InterruptRejection

\* Without an announcement, a move of the main thread or of the lease, and
\* with the same generation, the order stays.
LEMMA OrderUntouched ==
    ASSUME OrderInv, UNCHANGED <<pc, lease, events, generation>>
    PROVE  OrderInv'
<1>1. Ordered(events)' /\ PredecessorEnded' /\ LastEvent' = LastEvent
  BY NothingAnnounced DEF OrderInv
<1>2. LeaseHeld' /\ EventsTold'
  BY <1>1 DEF OrderInv, LeaseHeld, EventsTold
<1>3. QED
  BY <1>1, <1>2 DEF OrderInv

\* No signal disturbs the order, whichever handler runs and wherever it finds
\* the main thread.
LEMMA SignalOrder ==
    ASSUME TypeOK, ServeInv, OrderInv, NEW s \in Signals,
           \/ LifecycleSignal(s) \/ FrozenSignal(s) \/ ServeSignal(s)
           \/ TeardownSignal(s)
    PROVE  OrderInv'
<1>0. generation \in Nat /\ UNCHANGED generation
  BY SignalKeepsGeneration DEF TypeOK
<1>1. CASE LifecycleSignal(s)
  <2>1. CASE LifecycleRaises
    <3>1. FinishSignalShutdown \/ NaturalExit
      BY <1>1, <2>1 DEF LifecycleSignal
    <3>2. pc \in LivePoints /\ UNCHANGED lease
      BY <1>1, <2>1 DEF LifecycleSignal, LifecycleRaises, LivePoints,
         RaisingPoints
    <3>3. QED
      BY <1>0, <3>1, <3>2, StopsInOrder
  <2>2. CASE ~LifecycleRaises
    BY <1>0, <1>1, <2>2, OrderUntouched DEF LifecycleSignal
  <2>3. QED
    BY <2>1, <2>2
<1>2. CASE FrozenSignal(s) \/ TeardownSignal(s)
  BY <1>0, <1>2, OrderUntouched DEF FrozenSignal, TeardownSignal, serveVars
<1>3. CASE ServeSignal(s)
  <2>1. CASE UNCHANGED <<pc, lease>>
    BY <1>0, <1>3, <2>1, OrderUntouched DEF ServeSignal
  <2>2. CASE ~UNCHANGED <<pc, lease>>
    <3>1. /\ pc \notin LifecyclePoints
          /\ pc' = "shutdown"
          /\ lease' = IF lease = "stopped" THEN "none" ELSE lease
          /\ UNCHANGED events
      BY <1>3, <2>2 DEF ServeSignal, Goto
    <3>2. Ordered(events)' /\ PredecessorEnded' /\ LastEvent' = LastEvent
      BY <1>0, <3>1, NothingAnnounced DEF OrderInv
    <3>3. LeaseHeld'
      BY <3>1 DEF OrderInv, LeaseHeld, LeasePoints
    <3>4. /\ lease = "owned" => LastEvent \in {"none", "admitted"}
          /\ lease = "stopping" => LastEvent # "stopped"
      BY DEF OrderInv, LeaseHeld, EventsTold, LeasePoints
    <3>5. EventsTold'
      BY <3>1, <3>2, <3>4 DEF EventsTold, RaisingPoints
    <3>6. QED
      BY <3>2, <3>3, <3>5 DEF OrderInv
  <2>3. QED
    BY <2>1, <2>2
<1>4. QED
  BY <1>1, <1>2, <1>3

\* Every step of the process keeps the order.
LEMMA OrderStepInv ==
    ASSUME TypeOK, ServeInv, OrderInv, [Next]_vars
    PROVE  OrderInv'
<1>1. CASE MainThread
  BY <1>1, MainThreadOrder
<1>2. CASE (\E o \in Owners : ReapOwner(o)) \/ ChildExits \/ Exited
             \/ UNCHANGED vars
  BY <1>2, OrderUntouched DEF ReapOwner, ChildExits, Exited, vars, serveVars,
     controllerVars
<1>3. CASE Listeners
  <2>1. UNCHANGED generation
    BY <1>3 DEF Listeners, SubmitRestart, WithdrawRestart,
       ObserveRuntimeFailure
  <2>2. QED
    BY <1>3, <2>1, OrderUntouched DEF Listeners, serveVars
<1>4. CASE SignalArrives
  BY <1>4, SignalOrder DEF SignalArrives
<1>5. QED
  BY <1>1, <1>2, <1>3, <1>4 DEF Next

\* The order holds throughout: the main thread's place and the lease tell what
\* has been announced of the current generation.
THEOREM OrderInvariant == Spec => []OrderInv
<1>1. Init => OrderInv
  BY DEF Init, OrderInv, Ordered, PredecessorEnded, LastEvent, LeaseHeld,
     EventsTold, LeasePoints, RaisingPoints
<1>2. SlotInv /\ ServeInv /\ OrderInv /\ [Next]_vars => OrderInv'
  BY OrderStepInv DEF SlotInv
<1>3. QED
  BY <1>1, <1>2, ServeSlotInvariant, ServeInvariant, PTL DEF Spec

\* Generation events come in order, each at most once, and nothing of a
\* generation is announced after its successor, whoever announces them: the
\* lease or the lifecycle (_ServeGenerationLease, _RuntimeLifecycleEvents).
THEOREM EventsOrdered == Spec => []EventsInOrder
<1>1. OrderInv => EventsInOrder
  BY DEF OrderInv, Ordered, EventsInOrder
<1>2. QED
  BY <1>1, OrderInvariant, PTL

-----------------------------------------------------------------------------
(* Legal calls, and what an exit leaves behind.                            *)

\* Points of a generation that has been admitted and is not running yet.
ComingPoints ==
    LeasePoints \cup {"lease", "announce", "top", "create", "check", "run",
                      "checkpoint", "mark"}

\* Such a generation is the first one, or the successor of an accepted
\* restart that has no result yet.
Coming ==
    IF generation = 1 THEN state = "starting" /\ phase = "admitting"
                      ELSE MayPublishTerminal("succeeded")

\* What the controller is like where the main thread starts a generation.
StartsInStep ==
    /\ pc \in {"boot", "admit"} =>
         generation = 0 /\ state = "starting" /\ phase = "admitting"
    /\ pc \in ComingPoints => Coming
    /\ pc \in {"show_success", "release"} =>
         /\ active # NoTicket
         /\ \/ terminal = "succeeded" /\ state = "restarting"
                 /\ phase = "finalizing"
            \/ terminal = "failed" /\ runtimeFailure
    /\ pc \in {"ready", "wait", "accept"} =>
         state = "running" \/ runtimeFailure

EndingPoints == {"stop_hooks", "quiesce", "finalized"}

\* Why a lifecycle may be on the path it is on.
PathJustified ==
    pc \in EndingPoints =>
        /\ stopPath = "restart" => MayAllocate
        /\ stopPath = "natural" => runtimeFailure \/ active = NoTicket
        /\ stopPath = "failure" => runtimeFailure
        /\ stopPath \in {"external", "late"} => SignalLatched

\* What a result says of the controller.
ResultJustified ==
    pc \in {"finalized", "result"} =>
        /\ result = "OPERATOR_RESTART" => MayAllocate
        /\ result = "NATURAL_EXIT" => runtimeFailure \/ active = NoTicket
        /\ result = "CONTROLLER_FAILURE" => runtimeFailure
        /\ result = "EXTERNAL_SHUTDOWN" => SignalLatched

\* What is known where the serve loop gives up.
FailureJustified ==
    /\ pc \in LeasePoints \cup {"announce", "top", "create", "start_failure"}
         => result # "OPERATOR_RESTART"
    /\ pc = "show_failure" /\ result = "OPERATOR_RESTART" =>
         SignalLatched \/ runtimeFailure
    /\ pc = "shutdown" => SignalLatched

\* A generation records a signal only together with the controller.
RecordIsLatched ==
    pc \in LifecyclePoints /\ SignalRecorded => SignalLatched

\* A result is committed and not shown at two places only.
ShownAtOnce ==
    unpublished # NoTicket <=> pc \in {"show_success", "show_failure"}

\* A restart that failed leaves its mark on the controller.
FailedMarks ==
    \A t \in Tickets :
        ticket[t].state = "failed" => SignalLatched \/ terminal = "failed"

\* No work is admitted once the loop is left, and the status tells a failure.
LeftInStep ==
    pc \in {"leave", "exited"} =>
        /\ state # "running"
        /\ terminal = "failed" => SignalLatched \/ exit = "nonzero"

\* The calls of the main thread, in step with the controller's state.
CallInv ==
    /\ StartsInStep
    /\ PathJustified
    /\ ResultJustified
    /\ FailureJustified
    /\ RecordIsLatched
    /\ ShownAtOnce
    /\ LeftInStep

\* What a step of the controller leaves of the marks of a failed restart: a
\* latched signal and a failed result stand, and no ticket fails without one.
MarksStand ==
    /\ SignalLatched => SignalLatched'
    /\ terminal = "failed" => terminal' = "failed"
    /\ \A t \in Tickets :
         ticket'[t].state = "failed" =>
             ticket[t].state = "failed" \/ SignalLatched \/ terminal = "failed"

\* Every method leaves the marks standing.
LEMMA MarksStandStep ==
    ASSUME SlotInv, [ControllerNext]_controllerVars
    PROVE  MarksStand
<1>0. TypeOK
  BY DEF SlotInv
<1>1. ASSUME NEW t \in Tickets, SubmitRestart(t)
      PROVE  MarksStand
  <2>1. MovesOne(t, "pending", ticket[t].operation)
    BY <1>0, <1>1, SubmitMovesOne
  <2>2. QED
    BY <1>1, <2>1 DEF SubmitRestart, MarksStand, MovesOne, SignalLatched
<1>2. ASSUME NEW t \in Tickets, WithdrawRestart(t)
      PROVE  MarksStand
  <2>1. MovesOne(t, "rejected", ticket[t].operation)
    BY <1>0, <1>2, WithdrawMovesOne
  <2>2. QED
    BY <1>2, <2>1 DEF WithdrawRestart, MarksStand, MovesOne, SignalLatched
<1>3. ASSUME NEW s \in Signals,
             \/ ObserveExternalSignal(s)
             \/ InterruptPublication(s)
             \/ InterruptRejection(s)
      PROVE  MarksStand
  <2>1. SignalLatched'
    <3>1. externalSignal' = Latched(s)
      BY <1>3 DEF ObserveExternalSignal, InterruptPublication,
         InterruptRejection
    <3>2. s # NoSignal
      BY NoSignalAssumption
    <3>3. Latched(s).signal # NoSignal
      BY <1>0, <3>2 DEF Latched, TypeOK
    <3>4. QED
      BY <3>1, <3>3 DEF SignalLatched
  <2>2. UNCHANGED <<terminal, ticket>>
    BY <1>3 DEF ObserveExternalSignal, InterruptPublication,
       InterruptRejection
  <2>3. QED
    BY <2>1, <2>2 DEF MarksStand
<1>4. CASE \/ ObserveRuntimeFailure
           \/ BeginInitialAdmission
           \/ MarkInitialGenerationRunning
           \/ AllocateRestartSuccessor
           \/ UNCHANGED controllerVars
  BY <1>4 DEF ObserveRuntimeFailure, BeginInitialAdmission,
     MarkInitialGenerationRunning, AllocateRestartSuccessor, controllerVars,
     MarksStand, SignalLatched
<1>5. CASE AcceptPending
  <2>1. MovesOne(pending, "accepted", opCounter + 1)
    BY <1>0, <1>5, AcceptMovesOne
  <2>2. QED
    BY <1>5, <2>1 DEF AcceptPending, MarksStand, MovesOne, SignalLatched
<1>6. CASE DeclinePending
  <2>1. \/ UNCHANGED <<pending, wakeup, ticket>>
        \/ pending = NoTicket /\ pending' = NoTicket /\ ticket' = ticket
        \/ /\ pending # NoTicket /\ pending' = NoTicket
           /\ MovesOne(pending, "rejected", ticket[pending].operation)
    BY <1>0, <1>6, DeclineMovesOne
  <2>2. QED
    BY <1>6, <2>1 DEF DeclinePending, MarksStand, MovesOne, SignalLatched
<1>7. ASSUME NEW outcome \in Results, CommitRestartTerminal(outcome)
      PROVE  MarksStand
  BY <1>7 DEF CommitRestartTerminal, MayPublishTerminal, MarksStand,
     SignalLatched
<1>8. CASE DenyRestartSuccessor
  BY <1>7, <1>8 DEF DenyRestartSuccessor, Results
<1>9. CASE PublishCommitted
  <2>1. MovesOne(unpublished, terminal, ticket[unpublished].operation)
    BY <1>9, PublishMovesOne
  <2>2. QED
    BY <1>9, <2>1 DEF PublishCommitted, MarksStand, MovesOne, SignalLatched
<1>10. CASE ReleaseSuccessfulRestart
  BY <1>10 DEF ReleaseSuccessfulRestart, MarksStand, SignalLatched
<1>11. CASE MarkGenerationTerminal
  <2>1. \/ pending = NoTicket /\ ticket' = ticket
        \/ /\ pending # NoTicket
           /\ MovesOne(pending, "rejected", ticket[pending].operation)
    BY <1>0, <1>11, RejectMovesOne DEF MarkGenerationTerminal
  <2>2. QED
    BY <1>11, <2>1 DEF MarkGenerationTerminal, MarksStand, MovesOne,
       SignalLatched
<1>12. CASE MarkExternalShutdown
  BY <1>12 DEF MarkExternalShutdown, MarksStand, SignalLatched
<1>13. QED
  BY <1>1, <1>2, <1>3, <1>4, <1>5, <1>6, <1>7, <1>8, <1>9, <1>10, <1>11,
     <1>12 DEF ControllerNext

\* A failed ticket stays marked.
LEMMA FailedMarksStep ==
    ASSUME SlotInv, FailedMarks, [ControllerNext]_controllerVars
    PROVE  FailedMarks'
BY MarksStandStep DEF MarksStand, FailedMarks

\* The phase tells a committed result, and only an admitted generation runs.
PhaseMarks ==
    /\ state \in {"running", "restarting"} => generation # 0
    /\ terminal # "none" => phase = "finalizing"

\* Every method keeps the phase in step with the result.
LEMMA PhaseMarksStep ==
    ASSUME SlotInv, PhaseMarks, [ControllerNext]_controllerVars
    PROVE  PhaseMarks'
<1>0. /\ TypeOK
      /\ active = NoTicket => terminal = "none"
      /\ active # NoTicket => state \in {"restarting", "stopping"}
  BY DEF SlotInv, SlotConsistent
<1>1. ASSUME NEW t \in Tickets, SubmitRestart(t) \/ WithdrawRestart(t)
      PROVE  PhaseMarks'
  BY <1>1 DEF SubmitRestart, WithdrawRestart, PhaseMarks
<1>2. ASSUME NEW s \in Signals,
             \/ ObserveExternalSignal(s)
             \/ InterruptPublication(s)
             \/ InterruptRejection(s)
      PROVE  PhaseMarks'
  BY <1>2 DEF ObserveExternalSignal, InterruptPublication,
     InterruptRejection, PhaseMarks
<1>3. CASE ObserveRuntimeFailure \/ UNCHANGED controllerVars
  BY <1>3 DEF ObserveRuntimeFailure, controllerVars, PhaseMarks
<1>4. CASE BeginInitialAdmission \/ MarkInitialGenerationRunning
  BY <1>0, <1>4 DEF BeginInitialAdmission, MarkInitialGenerationRunning,
     PhaseMarks
<1>5. CASE AcceptPending
  BY <1>0, <1>5 DEF AcceptPending, MayAccept, PhaseMarks
<1>6. CASE DeclinePending
  BY <1>6 DEF DeclinePending, PhaseMarks
<1>7. CASE AllocateRestartSuccessor
  BY <1>0, <1>7 DEF AllocateRestartSuccessor, MayAllocate, PhaseMarks, TypeOK
<1>8. ASSUME NEW outcome \in Results, CommitRestartTerminal(outcome)
      PROVE  PhaseMarks'
  BY <1>0, <1>8 DEF CommitRestartTerminal, CommitTerminal,
     MayPublishTerminal, PhaseMarks
<1>9. CASE DenyRestartSuccessor
  BY <1>8, <1>9 DEF DenyRestartSuccessor, Results
<1>10. CASE PublishCommitted
  BY <1>10 DEF PublishCommitted, PhaseMarks
<1>11. CASE ReleaseSuccessfulRestart
  BY <1>11 DEF ReleaseSuccessfulRestart, EnterFinalization, PhaseMarks
<1>12. CASE MarkGenerationTerminal \/ MarkExternalShutdown
  BY <1>12 DEF MarkGenerationTerminal, MarkExternalShutdown,
     EnterFinalization, PhaseMarks
<1>13. QED
  BY <1>1, <1>2, <1>3, <1>4, <1>5, <1>6, <1>7, <1>8, <1>9, <1>10, <1>11,
     <1>12 DEF ControllerNext

\* The calls are in step when the process starts.
LEMMA CallInit == Init => CallInv /\ PhaseMarks /\ FailedMarks
BY DEF Init, ControllerInit, CallInv, StartsInStep, PathJustified,
   ResultJustified, FailureJustified, RecordIsLatched, ShownAtOnce,
   LeftInStep, ComingPoints, LeasePoints, EndingPoints, LifecyclePoints,
   PhaseMarks, FailedMarks

\* What the slot's invariant says of a free and of a taken slot.
SlotFacts ==
    /\ generation \in Nat
    /\ active = NoTicket <=> operation = 0
    /\ active = NoTicket => terminal = "none"
    /\ active # NoTicket => state \in {"restarting", "stopping"}
    /\ terminal \in Results \cup {"none"}
    /\ unpublished # NoTicket => active # NoTicket /\ terminal # "none"

\* What the calls need of the controller's own invariant.
LEMMA SlotSays == SlotInv => SlotFacts
BY DEF SlotInv, TypeOK, SlotConsistent, PublicationConsistent, SlotFacts

\* Going where the shutdown of a lifecycle goes keeps the calls in step, if
\* the path is justified.
LEMMA StopInStep ==
    ASSUME CallInv, pc \in LifecyclePoints, pc' \in {"stop_hooks", "quiesce"},
           pc \in {"show_success", "show_failure"} => unpublished' = NoTicket,
           unpublished' \in {unpublished, NoTicket},
           PathJustified',
           RecordIsLatched'
    PROVE  CallInv'
BY DEF CallInv, StartsInStep, ResultJustified, FailureJustified, ShownAtOnce,
   LeftInStep, ComingPoints, LeasePoints, EndingPoints, LifecyclePoints

\* A signal that is on record, or a failed start, leads to a justified path.
LEMMA StopJustified ==
    ASSUME CallInv, pc \in LifecyclePoints,
           UNCHANGED <<controllerVars, localSignal>>,
           pc \notin {"show_success"},
           \/ FinishSignalShutdown /\ SignalRecorded
           \/ CleanupPrioritized
           \/ \E c \in Causes : CleanupStartupFailure(c)
    PROVE  CallInv'
<1>1. pc' \in {"stop_hooks", "quiesce"}
  BY DEF FinishSignalShutdown, CleanupPrioritized, CleanupStartupFailure,
         StopWithChild, Goto
<1>2. /\ SignalLatched' = SignalLatched
      /\ SignalRecorded' = SignalRecorded
      /\ unpublished' = unpublished
      /\ runtimeFailure' = runtimeFailure
  BY DEF controllerVars, SignalLatched, SignalRecorded
<1>3. RecordIsLatched'
  BY <1>2 DEF CallInv, RecordIsLatched
<1>4. PathJustified'
  BY <1>2 DEF FinishSignalShutdown, CleanupPrioritized,
     CleanupStartupFailure, CallInv, RecordIsLatched, PathJustified
<1>5. QED
  BY <1>1, <1>2, <1>3, <1>4, StopInStep DEF LifecyclePoints

\* Every step of the main thread keeps the calls in step.
LEMMA MainThreadCalls ==
    ASSUME SlotFacts, PhaseMarks, LatchedWhere, StopPathTaken, CallInv,
           MainThread
    PROVE  CallInv'
<1> USE DEF At, Goto, LeasePoints, LifecyclePoints
<1> DEFINE Parts == /\ StartsInStep
                    /\ PathJustified
                    /\ ResultJustified
                    /\ FailureJustified
                    /\ RecordIsLatched
                    /\ ShownAtOnce
                    /\ LeftInStep
<1>0. Parts /\ (CallInv' <=> Parts')
  BY DEF CallInv
<1> HIDE DEF Parts
<1>1. CASE \/ Boot \/ TakeLease \/ AnnounceAdmitted \/ CheckFailure
           \/ CreateGeneration \/ CloseLease
  BY <1>0, <1>1 DEF Parts, Boot, TakeLease, AnnounceAdmitted, CheckFailure,
     CreateGeneration, CloseLease, controllerVars, StartsInStep,
     PathJustified, ResultJustified, FailureJustified, RecordIsLatched,
     ShownAtOnce, LeftInStep, ComingPoints, Coming, MayPublishTerminal,
     EndingPoints, SignalLatched, SignalRecorded
<1>2. CASE AdmitInitial
  BY <1>0, <1>2 DEF SlotFacts, Parts, AdmitInitial, BeginInitialAdmission,
     controllerVars, StartsInStep, PathJustified, ResultJustified,
     FailureJustified, RecordIsLatched, ShownAtOnce, LeftInStep,
     ComingPoints, Coming, EndingPoints, SignalLatched, SignalRecorded
<1>3. CASE RunPhase
  BY <1>0, <1>3 DEF Parts, RunPhase, controllerVars, StartsInStep,
     PathJustified, ResultJustified, FailureJustified, RecordIsLatched,
     ShownAtOnce, LeftInStep, ComingPoints, Coming, MayPublishTerminal,
     EndingPoints, SignalLatched, SignalRecorded
<1>4. CASE StartupCheck \/ FailPhase \/ CheckpointHealth
  <2>1. UNCHANGED <<controllerVars, localSignal>> /\ pc \in LifecyclePoints
          /\ pc \notin {"show_success"}
    BY <1>4 DEF StartupCheck, FailPhase, CheckpointHealth
  <2>2. CASE \/ FinishSignalShutdown /\ SignalRecorded
             \/ CleanupPrioritized
             \/ \E c \in Causes : CleanupStartupFailure(c)
    BY <2>1, <2>2, StopJustified
  <2>3. CASE /\ pc \in {"check", "checkpoint"}
             /\ pc' \in {"run", "checkpoint", "mark"}
    BY <1>0, <2>1, <2>3 DEF Parts, controllerVars, StartsInStep,
     PathJustified, ResultJustified, FailureJustified, RecordIsLatched,
     ShownAtOnce, LeftInStep, ComingPoints, Coming, MayPublishTerminal,
     EndingPoints, SignalLatched, SignalRecorded
  <2>4. QED
    BY <1>4, <2>2, <2>3 DEF StartupCheck, FailPhase, CheckpointHealth, Causes
<1>5. CASE MarkInitialRunning
  <2>1. CASE UNCHANGED controllerVars
               /\ CleanupStartupFailure("CONTROLLER_FAILURE")
    BY <1>5, <2>1, StopJustified DEF MarkInitialRunning, Causes
  <2>2. CASE MarkInitialGenerationRunning /\ pc' = "ready"
    BY <1>0, <1>5, <2>2 DEF Parts, MarkInitialRunning,
     MarkInitialGenerationRunning, StartsInStep,
     PathJustified, ResultJustified, FailureJustified, RecordIsLatched,
     ShownAtOnce, LeftInStep, ComingPoints, EndingPoints, SignalLatched,
     SignalRecorded
  <2>3. QED
    BY <1>5, <2>1, <2>2 DEF MarkInitialRunning
<1>6. CASE CommitSuccess
  <2>1. /\ active # NoTicket
        /\ active' = active
        /\ unpublished' = active
        /\ terminal' = EffectiveResult("succeeded")
        /\ runtimeFailure' = runtimeFailure
        /\ SignalLatched' = SignalLatched
        /\ SignalRecorded' = SignalRecorded
        /\ pc = "mark" /\ pc' = "show_success"
    BY <1>6 DEF CommitSuccess, CommitRestartTerminal, CommitTerminal,
       MayPublishTerminal, SignalLatched, SignalRecorded
  <2>2. \/ terminal' = "failed" /\ runtimeFailure'
        \/ /\ terminal' = "succeeded"
           /\ state' = "restarting" /\ phase' = "finalizing"
    BY <1>6, <2>1 DEF CommitSuccess, CommitRestartTerminal, CommitTerminal,
       MayPublishTerminal, EffectiveResult
  <2>3. QED
    BY <1>0, <2>1, <2>2 DEF Parts, StartsInStep, PathJustified,
       ResultJustified, FailureJustified, RecordIsLatched, ShownAtOnce,
       LeftInStep, ComingPoints, EndingPoints
<1>7. CASE ShowSuccess
  BY <1>0, <1>7 DEF Parts, ShowSuccess, PublishCommitted, StartsInStep,
     PathJustified, ResultJustified, FailureJustified, RecordIsLatched,
     ShownAtOnce, LeftInStep, ComingPoints, EndingPoints, SignalLatched,
     SignalRecorded
<1>8. CASE Release
  <2>1. CASE UNCHANGED controllerVars
               /\ CleanupStartupFailure("CONTROLLER_FAILURE")
    BY <1>8, <2>1, StopJustified DEF Release, Causes
  <2>2. CASE terminal = "succeeded"
    <3>1. pc = "release" /\ ReleaseSuccessfulRestart /\ pc' = "ready"
          /\ UNCHANGED localSignal
      BY <1>8, <2>2 DEF Release
    <3>2. ~SignalLatched
      BY <3>1 DEF LatchedWhere, RaisingPoints
    <3>3. state = "restarting"
      BY <1>0, <2>2, <3>1 DEF Parts, StartsInStep
    <3>4. state' = "running" \/ runtimeFailure'
      BY <3>1, <3>2, <3>3 DEF ReleaseSuccessfulRestart, MustFinalize
    <3>5. UNCHANGED <<unpublished, externalSignal>>
      BY <3>1 DEF ReleaseSuccessfulRestart
    <3>6. QED
      BY <1>0, <3>1, <3>4, <3>5 DEF Parts, StartsInStep, PathJustified,
         ResultJustified, FailureJustified, RecordIsLatched, ShownAtOnce,
         LeftInStep, ComingPoints, EndingPoints, SignalLatched,
         SignalRecorded
  <2>3. QED
    BY <1>8, <2>1, <2>2 DEF Release
<1>9. CASE AnnounceReady \/ EnterMaskedSection
  BY <1>0, <1>9 DEF Parts, AnnounceReady, EnterMaskedSection, controllerVars,
     StartsInStep, PathJustified, ResultJustified, FailureJustified,
     RecordIsLatched, ShownAtOnce, LeftInStep, ComingPoints, EndingPoints,
     SignalLatched, SignalRecorded
<1>10. CASE LeaveWait
  <2>1. /\ pc \in {"wait", "accept"}
        /\ UNCHANGED <<controllerVars, localSignal>>
        /\ runtimeFailure \/ active = NoTicket
    BY <1>0, <1>10 DEF LeaveWait, Parts, StartsInStep, SlotFacts
  <2>2. CASE FinishSignalShutdown /\ SignalRecorded
    BY <2>1, <2>2, StopJustified
  <2>3. CASE \/ NaturalExit
             \/ Unhealthy /\ stopPath' = "failure" /\ pc' = "stop_hooks"
    <3>1. /\ pc' \in {"quiesce", "stop_hooks"}
          /\ \/ stopPath' = "natural"
             \/ stopPath' = "failure" /\ runtimeFailure
      BY <2>3 DEF NaturalExit, Unhealthy
    <3>2. RecordIsLatched' /\ PathJustified'
      BY <1>0, <2>1, <3>1 DEF Parts, RecordIsLatched, PathJustified,
         controllerVars, SignalLatched, SignalRecorded
    <3>3. QED
      BY <2>1, <3>1, <3>2, StopInStep DEF controllerVars
  <2>4. QED
    BY <1>10, <2>2, <2>3 DEF LeaveWait
<1>11. CASE AcceptRestart
  <2>1. /\ pc = "accept" /\ pc' = "stop_hooks"
        /\ stopPath' = "restart"
        /\ MayAllocate'
        /\ UNCHANGED <<unpublished, externalSignal, localSignal>>
    BY <1>11 DEF AcceptRestart, AcceptPending, MayAccept, MayAllocate
  <2>2. RecordIsLatched' /\ PathJustified'
    BY <1>0, <2>1 DEF Parts, RecordIsLatched, PathJustified, SignalLatched,
       SignalRecorded
  <2>3. QED
    BY <2>1, <2>2, StopInStep
<1>12. CASE DeclineRestart
  BY <1>0, <1>12 DEF Parts, DeclineRestart, DeclinePending, StartsInStep,
     PathJustified, ResultJustified, FailureJustified, RecordIsLatched,
     ShownAtOnce, LeftInStep, ComingPoints, EndingPoints, SignalLatched,
     SignalRecorded
<1>13. CASE RunStopHooks \/ RestoreHandlers
  BY <1>0, <1>13 DEF Parts, RunStopHooks, RestoreHandlers, controllerVars,
     StartsInStep, PathJustified, ResultJustified, FailureJustified,
     RecordIsLatched, ShownAtOnce, LeftInStep, ComingPoints, EndingPoints,
     MayAllocate, SignalLatched, SignalRecorded
<1>14. CASE FinalizeGeneration
  <2>1. /\ pc = "quiesce" /\ pc' = "finalized"
        /\ result' = ResultOfPath
        /\ UNCHANGED <<controllerVars, stopPath, localSignal>>
    BY <1>14 DEF FinalizeGeneration
  <2>2. /\ result' = "OPERATOR_RESTART" => MayAllocate
        /\ result' = "NATURAL_EXIT" => runtimeFailure \/ active = NoTicket
        /\ result' = "CONTROLLER_FAILURE" => runtimeFailure
        /\ result' = "EXTERNAL_SHUTDOWN" => SignalLatched
    BY <1>0, <2>1 DEF Parts, ResultOfPath, PathJustified, EndingPoints,
       RecordIsLatched, StopPathTaken
  <2>3. QED
    BY <1>0, <2>1, <2>2 DEF Parts, controllerVars,
       StartsInStep, PathJustified, ResultJustified, FailureJustified,
       RecordIsLatched, ShownAtOnce, LeftInStep, ComingPoints, EndingPoints,
       MayAllocate, SignalLatched, SignalRecorded
<1>15. CASE AfterNaturalExit
  BY <1>0, <1>15 DEF SlotFacts, Parts, AfterNaturalExit,
     MarkGenerationTerminal, EnterFinalization, controllerVars,
     StartsInStep, PathJustified, ResultJustified, FailureJustified,
     RecordIsLatched, ShownAtOnce, LeftInStep, ComingPoints, EndingPoints,
     SignalLatched, SignalRecorded
<1>16. CASE AfterExternalShutdown \/ ServeShutdown
  <2>1. /\ MarkExternalShutdown /\ pc' = "leave"
        /\ pc \in {"result", "shutdown"}
    BY <1>16 DEF AfterExternalShutdown, ServeShutdown
  <2>2. SignalLatched' /\ state' = "stopping" /\ unpublished' = unpublished
    BY <2>1 DEF MarkExternalShutdown, EnterFinalization, SignalLatched
  <2>3. QED
    BY <1>0, <2>1, <2>2 DEF Parts, StartsInStep, PathJustified,
       ResultJustified, FailureJustified, RecordIsLatched, ShownAtOnce,
       LeftInStep, ComingPoints, EndingPoints
<1>17. CASE AfterFailure
  <2>1. CASE MarkExternalShutdown /\ pc' = "leave"
    <3>1. SignalLatched' /\ state' = "stopping" /\ unpublished' = unpublished
      BY <2>1 DEF MarkExternalShutdown, EnterFinalization, SignalLatched
    <3>2. QED
      BY <1>0, <1>17, <2>1, <3>1 DEF AfterFailure, Parts, StartsInStep,
         PathJustified, ResultJustified, FailureJustified, RecordIsLatched,
         ShownAtOnce, LeftInStep, ComingPoints, EndingPoints
  <2>2. CASE pc' = "start_failure" /\ UNCHANGED controllerVars
    BY <1>0, <1>17, <2>2 DEF AfterFailure, Parts, controllerVars,
       StartsInStep, PathJustified, ResultJustified, FailureJustified,
       RecordIsLatched, ShownAtOnce, LeftInStep, ComingPoints, EndingPoints
  <2>3. QED
    BY <1>17, <2>1, <2>2 DEF AfterFailure
<1>18. CASE AfterOperatorRestart
  <2>1. CASE AllocateRestartSuccessor /\ pc' = "lease"
    <3>1. generation # 0 /\ terminal = "none" /\ operation # 0
      BY <2>1 DEF AllocateRestartSuccessor, MayAllocate, PhaseMarks,
         SlotFacts
    <3>2. generation' # 1 /\ MayPublishTerminal("succeeded")'
      BY <2>1, <3>1 DEF AllocateRestartSuccessor, MayAllocate,
         MayPublishTerminal, SlotFacts
    <3>3. Coming' /\ unpublished' = unpublished
      BY <2>1, <3>2 DEF Coming, AllocateRestartSuccessor
    <3>4. QED
      BY <1>0, <1>18, <2>1, <3>3 DEF AfterOperatorRestart, Parts,
         StartsInStep, PathJustified, ResultJustified, FailureJustified,
         RecordIsLatched, ShownAtOnce, LeftInStep, EndingPoints
  <2>2. CASE DenyRestartSuccessor /\ pc' = "show_failure"
    <3>1. /\ SignalLatched \/ runtimeFailure
          /\ unpublished' = active /\ active # NoTicket
          /\ UNCHANGED <<externalSignal, runtimeFailure>>
      BY <2>2 DEF DenyRestartSuccessor, MayAllocate, CommitRestartTerminal
    <3>2. QED
      BY <1>0, <1>18, <2>2, <3>1 DEF AfterOperatorRestart, Parts,
         StartsInStep, PathJustified, ResultJustified, FailureJustified,
         RecordIsLatched, ShownAtOnce, LeftInStep, ComingPoints,
         EndingPoints, SignalLatched
  <2>3. QED
    BY <1>18, <2>1, <2>2 DEF AfterOperatorRestart
<1>19. CASE PublishStartFailure
  <2>1. CASE operation = 0 /\ MarkGenerationTerminal /\ pc' = "leave"
    BY <1>0, <1>19, <2>1 DEF PublishStartFailure, SlotFacts,
       MarkGenerationTerminal, EnterFinalization, Parts, StartsInStep,
       PathJustified, ResultJustified, FailureJustified, RecordIsLatched,
       ShownAtOnce, LeftInStep, ComingPoints, EndingPoints
  <2>2. CASE /\ operation # 0 /\ UNCHANGED controllerVars /\ pc' = "leave"
             /\ exit' = "nonzero"
    BY <1>0, <1>19, <2>2 DEF PublishStartFailure, SlotFacts, controllerVars,
       Parts, StartsInStep, PathJustified, ResultJustified,
       FailureJustified, RecordIsLatched, ShownAtOnce, LeftInStep,
       ComingPoints, EndingPoints
  <2>3. CASE CommitRestartTerminal("failed") /\ pc' = "show_failure"
    <3>1. unpublished' = active /\ active # NoTicket
      BY <2>3 DEF CommitRestartTerminal, MayPublishTerminal
    <3>2. QED
      BY <1>0, <1>19, <2>3, <3>1 DEF PublishStartFailure, Parts,
         StartsInStep, PathJustified, ResultJustified, FailureJustified,
         RecordIsLatched, ShownAtOnce, LeftInStep, ComingPoints,
         EndingPoints
  <2>4. QED
    BY <1>19, <2>1, <2>2, <2>3 DEF PublishStartFailure
<1>20. CASE ShowFailure
  <2>1. /\ unpublished' = NoTicket
        /\ state \in {"restarting", "stopping"}
        /\ UNCHANGED <<state, externalSignal, runtimeFailure, result>>
        /\ pc = "show_failure"
    BY <1>20 DEF ShowFailure, PublishCommitted, SlotFacts
  <2>2. \/ pc' = "shutdown" /\ result = "OPERATOR_RESTART" /\ ~runtimeFailure
        \/ pc' = "leave" /\ exit' = "nonzero"
    BY <1>20 DEF ShowFailure
  <2>3. QED
    BY <1>0, <2>1, <2>2 DEF Parts, StartsInStep, PathJustified,
       ResultJustified, FailureJustified, RecordIsLatched, ShownAtOnce,
       LeftInStep, ComingPoints, EndingPoints, SignalLatched
<1>21. CASE Leave
  BY <1>0, <1>21 DEF Parts, Leave, controllerVars, StartsInStep,
     PathJustified, ResultJustified, FailureJustified, RecordIsLatched,
     ShownAtOnce, LeftInStep, ComingPoints, EndingPoints, SignalLatched
<1>22. QED
  BY <1>1, <1>2, <1>3, <1>4, <1>5, <1>6, <1>7, <1>8, <1>9, <1>10, <1>11,
     <1>12, <1>13, <1>14, <1>15, <1>16, <1>17, <1>18, <1>19, <1>20, <1>21
     DEF MainThread

\* A latched signal changes nothing else that the calls depend on, and takes
\* the main thread out of a publication.
LatchOnly ==
    /\ SignalLatched'
    /\ unpublished' \in {unpublished, NoTicket}
    /\ UNCHANGED <<state, phase, generation, operation, active, terminal,
                   runtimeFailure>>

\* Wherever a signal interrupts the main thread, all it does to the slot is
\* to latch itself and to withdraw a success that was not shown.
LEMMA SignalLatches ==
    ASSUME TypeOK, NEW s \in Signals,
           \/ ObserveExternalSignal(s)
           \/ InterruptPublication(s)
           \/ InterruptRejection(s)
    PROVE  LatchOnly
<1>1. externalSignal' = Latched(s)
  BY DEF ObserveExternalSignal, InterruptPublication, InterruptRejection
<1>2. Latched(s).signal # NoSignal
  BY NoSignalAssumption DEF Latched, TypeOK
<1>3. SignalLatched'
  BY <1>1, <1>2 DEF SignalLatched
<1>4. QED
  BY <1>3 DEF ObserveExternalSignal, InterruptPublication,
     InterruptRejection, LatchOnly

\* A signal keeps the calls in step wherever it meets the main thread.
LEMMA SignalCalls ==
    ASSUME TypeOK, SlotFacts, CallInv, SignalArrives
    PROVE  CallInv'
<1> USE DEF At, Goto
<1>0. /\ StartsInStep /\ PathJustified /\ ResultJustified
      /\ FailureJustified /\ RecordIsLatched /\ ShownAtOnce /\ LeftInStep
  BY DEF CallInv
<1>1. PICK s \in Signals : \/ LifecycleSignal(s) \/ FrozenSignal(s)
                           \/ ServeSignal(s) \/ TeardownSignal(s)
  BY DEF SignalArrives
<1>2. LatchOnly
  BY <1>1, SignalStep, SignalLatches
<1>3. ASSUME ObserveExternalSignal(s), UNCHANGED <<pc, stopPath, result, exit>>
      PROVE  CallInv'
  <2>1. unpublished' = unpublished
    BY <1>3 DEF ObserveExternalSignal
  <2>2. StartsInStep' /\ ShownAtOnce'
    BY <1>0, <1>2, <1>3, <2>1 DEF LatchOnly, StartsInStep, ShownAtOnce,
       Coming, MayPublishTerminal
  <2>3. PathJustified' /\ ResultJustified'
    BY <1>0, <1>2, <1>3 DEF LatchOnly, PathJustified, ResultJustified,
       MayAllocate
  <2>4. FailureJustified' /\ RecordIsLatched' /\ LeftInStep'
    BY <1>0, <1>2, <1>3 DEF LatchOnly, FailureJustified, RecordIsLatched,
       LeftInStep
  <2>5. QED
    BY <2>2, <2>3, <2>4 DEF CallInv
<1>4. CASE FrozenSignal(s) \/ TeardownSignal(s)
  BY <1>3, <1>4 DEF FrozenSignal, TeardownSignal, serveVars
<1>5. CASE LifecycleSignal(s)
  <2>1. CASE ~LifecycleRaises
    BY <1>3, <1>5, <2>1 DEF LifecycleSignal
  <2>2. CASE LifecycleRaises
    <3>1. /\ pc \in LifecyclePoints
          /\ pc' \in {"stop_hooks", "quiesce"}
          /\ \/ stopPath' \in {"external", "late"}
             \/ stopPath' = "natural" /\ pc = "wait"
      BY <1>5, <2>2 DEF LifecycleSignal, NaturalExit, FinishSignalShutdown,
         StopWithChild
    <3>2. unpublished # NoTicket => unpublished' = NoTicket
      BY <1>5, <2>2 DEF LifecycleSignal, LatchSignal, InterruptPublication
    <3>3. PathJustified'
      BY <1>0, <1>2, <3>1 DEF PathJustified, LatchOnly, StartsInStep,
         SlotFacts
    <3>4. RecordIsLatched'
      BY <1>2 DEF RecordIsLatched, LatchOnly
    <3>5. QED
      BY <1>2, <3>1, <3>2, <3>3, <3>4, StopInStep DEF LatchOnly
  <2>3. QED
    BY <2>1, <2>2
<1>6. CASE ServeSignal(s)
  <2>1. CASE SignalLatched
    BY <1>3, <1>6, <2>1 DEF ServeSignal
  <2>2. CASE ~SignalLatched
    <3>1. /\ pc' = "shutdown"
          /\ unpublished # NoTicket => unpublished' = NoTicket
      BY <1>6, <2>2 DEF ServeSignal, LatchSignal, InterruptPublication
    <3>2. unpublished' = NoTicket
      BY <1>2, <3>1 DEF LatchOnly
    <3>3. QED
      BY <1>2, <3>1, <3>2 DEF CallInv, StartsInStep, PathJustified,
         ResultJustified, FailureJustified, RecordIsLatched, ShownAtOnce,
         LeftInStep, ComingPoints, LeasePoints, EndingPoints,
         LifecyclePoints, LatchOnly
  <2>3. QED
    BY <2>1, <2>2
<1>7. QED
  BY <1>1, <1>4, <1>5, <1>6

\* Every step keeps the calls in step.
LEMMA CallStep ==
    ASSUME SlotInv, ServeInv, PhaseMarks, CallInv, [Next]_vars
    PROVE  CallInv'
<1>0. TypeOK /\ SlotFacts /\ LatchedWhere /\ StopPathTaken
  BY SlotSays DEF SlotInv, ServeInv
<1>1. CASE MainThread
  BY <1>0, <1>1, MainThreadCalls
<1>2. CASE SignalArrives
  BY <1>0, <1>2, SignalCalls
<1>3. ASSUME /\ UNCHANGED <<pc, stopPath, result, exit, localSignal>>
             /\ UNCHANGED <<state, phase, generation, operation, active,
                            terminal, unpublished, externalSignal>>
             /\ runtimeFailure => runtimeFailure'
      PROVE  CallInv'
  <2>1. /\ SignalLatched' = SignalLatched
        /\ SignalRecorded' = SignalRecorded
        /\ MayAllocate' = MayAllocate
        /\ Coming' = Coming
    BY <1>3 DEF SignalLatched, SignalRecorded, MayAllocate, Coming,
       MayPublishTerminal
  <2>2. StartsInStep' /\ ShownAtOnce' /\ LeftInStep'
    BY <1>3, <2>1 DEF CallInv, StartsInStep, ShownAtOnce, LeftInStep
  <2>3. PathJustified' /\ ResultJustified'
    BY <1>3, <2>1 DEF CallInv, PathJustified, ResultJustified
  <2>4. FailureJustified' /\ RecordIsLatched'
    BY <1>3, <2>1 DEF CallInv, FailureJustified, RecordIsLatched
  <2>5. QED
    BY <2>2, <2>3, <2>4 DEF CallInv
<1>4. CASE Listeners
  BY <1>3, <1>4 DEF Listeners, serveVars, SubmitRestart, WithdrawRestart,
     ObserveRuntimeFailure
<1>5. CASE \/ \E o \in Owners : ReapOwner(o)
           \/ ChildExits \/ Exited \/ UNCHANGED vars
  BY <1>3, <1>5 DEF ReapOwner, ChildExits, Exited, vars, controllerVars,
     serveVars
<1>6. QED
  BY <1>1, <1>2, <1>4, <1>5 DEF Next

\* The calls stay in step throughout the life of the process.
THEOREM CallInvariant == Spec => [](CallInv /\ PhaseMarks /\ FailedMarks)
<1>1. /\ SlotInv /\ ServeInv /\ CallInv /\ PhaseMarks /\ FailedMarks
      /\ [Next]_vars
      => CallInv' /\ PhaseMarks' /\ FailedMarks'
  BY ServeStep, CallStep, PhaseMarksStep, FailedMarksStep
<1>2. QED
  BY <1>1, CallInit, ServeSlotInvariant, ServeInvariant, PTL DEF Spec

\* The serve loop never makes a controller call that raises: where it calls a
\* method that may, the controller is in the state the method asks for, and
\* what the result of a lifecycle claims (a restart accepted, a failure or a
\* signal latched) is what the controller has latched (run_serve_runtime).
THEOREM CallsLegal == Spec => []CallsAreLegal
<1>1. SlotInv /\ CallInv => CallsAreLegal
  <2> SUFFICES ASSUME SlotInv, CallInv PROVE CallsAreLegal
    OBVIOUS
  <2>0. SlotFacts /\ StartsInStep /\ ResultJustified /\ FailureJustified
    BY SlotSays DEF CallInv
  <2>1. pc = "mark" => Coming
    BY <2>0 DEF StartsInStep, ComingPoints
  <2>2. QED
    BY <2>0, <2>1 DEF SlotFacts, StartsInStep, ResultJustified,
       FailureJustified, CallsAreLegal, Coming
<1>2. QED
  BY <1>1, CallInvariant, ServeSlotInvariant, PTL

\* A process that exits leaves no proposal and no untold result in the slot
\* and takes no proposal any more, and a restart that failed without an
\* external shutdown ends in a nonzero status (run_serve_runtime's teardown).
THEOREM NothingPending == Spec => []NothingLeftPending
<1>1. SlotInv /\ CallInv /\ FailedMarks => NothingLeftPending
  BY DEF SlotInv, PendingHoldsSlot, CallInv, LeftInStep, ShownAtOnce,
     FailedMarks, NothingLeftPending
<1>2. QED
  BY <1>1, CallInvariant, ServeSlotInvariant, PTL

-----------------------------------------------------------------------------
(***************************************************************************)
(* Part 3: the control endpoint.                                           *)
(***************************************************************************)

\* Every step of the endpoint is a step of the controller or leaves it alone.
LEMMA EndpointStep ==
    PeersNext => [ControllerNext]_controllerVars
<1> SUFFICES ASSUME PeersNext PROVE [ControllerNext]_controllerVars
  OBVIOUS
<1>1. ASSUME NEW c \in Tickets, WorkerSubmits(c)
      PROVE  [ControllerNext]_controllerVars
  <2>1. SubmitRestart(c) \/ UNCHANGED controllerVars
    BY <1>1 DEF WorkerSubmits
  <2>2. QED
    BY <2>1 DEF ControllerNext
<1>2. ASSUME NEW c \in Tickets, Withdraw(c)
      PROVE  [ControllerNext]_controllerVars
  <2>1. WithdrawRestart(c) \/ UNCHANGED controllerVars
    BY <1>2 DEF Withdraw
  <2>2. QED
    BY <2>1 DEF ControllerNext
<1>3. ASSUME NEW c \in Tickets, WorkerAnnounces(c) \/ WorkerAnswers(c)
      PROVE  [ControllerNext]_controllerVars
  <2>1. Withdraw(c) \/ UNCHANGED controllerVars
    BY <1>3 DEF WorkerAnnounces, WorkerAnswers, SendOrGiveUp
  <2>2. QED
    BY <2>1, <1>2
<1>4. ASSUME NEW c \in Tickets, WorkerPolls(c)
      PROVE  [ControllerNext]_controllerVars
  <2>1. Withdraw(c) \/ UNCHANGED controllerVars
    BY <1>4 DEF WorkerPolls
  <2>2. QED
    BY <2>1, <1>2
<1>5. ASSUME NEW c \in Tickets,
             \/ Connect(c) \/ SendRequest(c) \/ ClientReceives(c)
             \/ ClientLeaves(c) \/ AcceptPeer(c) \/ WorkerGivesUp(c)
             \/ WorkerFetches(c) \/ WorkerStopsWaiting(c) \/ WorkerEnds(c)
      PROVE  UNCHANGED controllerVars
  BY <1>5 DEF Connect, SendRequest, ClientReceives, ClientLeaves, AcceptPeer,
              WorkerGivesUp, WorkerFetches, WorkerStopsWaiting, WorkerEnds
<1>6. ASSUME \/ RegisterPeer \/ RegisterOther \/ OtherEnds
             \/ AcceptThreadEnds \/ StopAccepting \/ DeadlinePasses
             \/ CutPeers \/ JoinAcceptThread
      PROVE  UNCHANGED controllerVars
  BY <1>6 DEF RegisterPeer, RegisterOther, OtherEnds, AcceptThreadEnds,
              StopAccepting, DeadlinePasses, CutPeers, JoinAcceptThread
<1>7. ASSUME OwnerStep
      PROVE  ControllerNext
  BY <1>7 DEF OwnerStep, ControllerNext
<1>8. ASSUME OutsideStep
      PROVE  ControllerNext
  BY <1>8 DEF OutsideStep, ControllerNext
<1>9. QED
  BY <1>1, <1>3, <1>4, <1>5, <1>6, <1>7, <1>8
     DEF PeersNext, ClientStep, WorkerStep, CloseStep

\* The endpoint implements the controller's specification: whatever clients,
\* workers and the closing server do, the controller sees only legal calls of
\* submit_restart and withdraw_restart (_handle_peer).
THEOREM EndpointImplementsController == PeersSpec => ControllerSpec
<1>1. PeersInit => ControllerInit
  BY DEF PeersInit
<1>2. [PeersNext]_endpointVars => [ControllerNext]_controllerVars
  BY EndpointStep DEF endpointVars
<1>3. QED
  BY <1>1, <1>2, PTL DEF PeersSpec, ControllerSpec

\* Behind the endpoint the controller's invariant holds.
THEOREM EndpointSlotInvariant == PeersSpec => []SlotInv
BY EndpointImplementsController, SlotInvariant, PTL

-----------------------------------------------------------------------------
(* The books about peers.                                                  *)

\* Which sockets are open, held or waiting, and by whom they are counted.
SocketsConsistent ==
    \A c \in Tickets :
        /\ socket[c] = "open" => c \in peers
        /\ socket[c] \in {"none", "backlog", "held"} => worker[c] = "none"
        /\ accepting = c <=> socket[c] = "held"

\* The stop comes with the end of service, and nothing waits behind it.
StopConsistent ==
    /\ stop <=> main # "serving"
    /\ stop => \A c \in Tickets : socket[c] # "backlog"
    /\ main \in {"joining", "closed"} =>
         \A c \in Tickets : socket[c] # "open"

\* Only live workers are registered, and never more than the limit allows.
PeersCounted ==
    /\ peers = {c \in Tickets : worker[c] \notin {"none", "gone"}}
    /\ IsFiniteSet(peers)
    /\ PeerCount <= MaxPeers

\* The types of the endpoint's own state that the proof uses.
EndpointTypes ==
    /\ socket \in [Tickets -> {"none", "backlog", "held", "open", "closed"}]
    /\ accepting \in Tickets \cup {NoTicket}
    /\ stop \in BOOLEAN
    /\ others \in Nat
    /\ worker \in [Tickets -> Workers]
    /\ main \in {"serving", "stopping", "joining", "closed"}

\* The inductive invariant of the endpoint.
EndpointInv ==
    /\ EndpointTypes
    /\ SocketsConsistent
    /\ StopConsistent
    /\ PeersCounted

USE NoTicketAssumption, MaxPeersAssumption, MaxOthersAssumption

\* The books are right before the first peer.
LEMMA EndpointInit == PeersInit => EndpointInv
<1> SUFFICES ASSUME PeersInit PROVE EndpointInv
  OBVIOUS
<1>1. IsFiniteSet(peers) /\ Cardinality(peers) = 0
  BY FS_EmptySet DEF PeersInit
<1>2. PeersCounted
  BY <1>1 DEF PeersInit, PeersCounted, PeerCount
<1>3. QED
  BY <1>2 DEF PeersInit, EndpointInv, EndpointTypes, Workers,
              SocketsConsistent, StopConsistent

\* A worker that moves on without ending keeps its place.
LEMMA WorkerMovesOn ==
    ASSUME EndpointInv, NEW c \in Tickets, NEW to \in Workers,
           worker[c] \notin {"none", "gone"}, to \notin {"none", "gone"},
           MoveWorker(c, to), UNCHANGED <<socket, serverVars, main>>
    PROVE  EndpointInv'
<1>1. /\ worker' \in [Tickets -> Workers]
      /\ worker' = [worker EXCEPT ![c] = to]
      /\ worker \in [Tickets -> Workers]
  BY DEF EndpointInv, EndpointTypes, MoveWorker
<1>2. UNCHANGED <<socket, accepting, acceptAlive, stop, peers, others, main>>
  BY DEF serverVars
<1>3. \A d \in Tickets : worker'[d] \notin {"none", "gone"}
                           <=> worker[d] \notin {"none", "gone"}
  BY <1>1
<1>4. PeersCounted'
  <2>1. peers' = {d \in Tickets : worker'[d] \notin {"none", "gone"}}
    BY <1>2, <1>3 DEF EndpointInv, PeersCounted
  <2>2. QED
    BY <1>2, <2>1 DEF EndpointInv, PeersCounted, PeerCount
<1>5. SocketsConsistent'
  BY <1>1, <1>2 DEF EndpointInv, SocketsConsistent, PeersCounted
<1>6. QED
  BY <1>1, <1>2, <1>4, <1>5
     DEF EndpointInv, EndpointTypes, StopConsistent

\* Every step keeps the books.
LEMMA EndpointStepInv ==
    ASSUME EndpointInv, [PeersNext]_endpointVars
    PROVE  EndpointInv'
<1> DEFINE books == <<socket, serverVars, worker, main>>
<1>0. CASE UNCHANGED books
  <2>1. UNCHANGED <<socket, accepting, acceptAlive, stop, peers, others,
                    worker, main>>
    BY <1>0 DEF serverVars
  <2>2. QED
    BY <2>1 DEF EndpointInv, EndpointTypes, SocketsConsistent,
                StopConsistent, PeersCounted, PeerCount
<1>1. ASSUME NEW c \in Tickets, Connect(c)
      PROVE  EndpointInv'
  <2>1. CASE stop
    BY <1>0, <1>1, <2>1 DEF Connect, workerVars, mainVars
  <2>2. CASE ~stop
    <3>1. /\ socket[c] = "none"
          /\ socket' = [socket EXCEPT ![c] = "backlog"]
          /\ UNCHANGED <<accepting, stop, peers, others, worker, main>>
      BY <1>1, <2>2 DEF Connect, serverVars, workerVars, mainVars
    <3>2. worker[c] = "none"
      BY <3>1 DEF EndpointInv, SocketsConsistent
    <3>3. QED
      BY <2>2, <3>1, <3>2 DEF EndpointInv, EndpointTypes, SocketsConsistent,
         StopConsistent, PeersCounted, PeerCount
  <2>3. QED
    BY <2>1, <2>2
<1>2. ASSUME NEW c \in Tickets,
             SendRequest(c) \/ ClientReceives(c) \/ ClientLeaves(c)
      PROVE  EndpointInv'
  BY <1>0, <1>2 DEF SendRequest, ClientReceives, ClientLeaves, workerVars,
                    mainVars
<1>3. ASSUME NEW c \in Tickets, AcceptPeer(c)
      PROVE  EndpointInv'
  BY <1>3 DEF AcceptPeer, workerVars, mainVars,
     EndpointInv, EndpointTypes, SocketsConsistent, StopConsistent,
     PeersCounted, PeerCount
<1>4. ASSUME RegisterPeer
      PROVE  EndpointInv'
  <2>1. CASE stop \/ ~RoomForPeer
    BY <1>4, <2>1 DEF RegisterPeer, mainVars,
       EndpointInv, EndpointTypes, SocketsConsistent, StopConsistent,
       PeersCounted, PeerCount
  <2>2. CASE ~stop /\ RoomForPeer
    <3>1. /\ accepting \in Tickets
          /\ socket' = [socket EXCEPT ![accepting] = "open"]
          /\ peers' = peers \cup {accepting}
          /\ worker' = [worker EXCEPT ![accepting] = "receive"]
          /\ accepting' = NoTicket
          /\ UNCHANGED <<others, stop, main>>
      BY <1>4, <2>2 DEF RegisterPeer, mainVars, EndpointInv, EndpointTypes
    <3>2. worker[accepting] = "none" /\ accepting \notin peers
      BY <3>1 DEF EndpointInv, SocketsConsistent, PeersCounted
    <3>3. /\ IsFiniteSet(peers')
          /\ Cardinality(peers') = Cardinality(peers) + 1
          /\ Cardinality(peers) \in Nat
      BY <3>1, <3>2, FS_AddElement, FS_CardinalityType
         DEF EndpointInv, PeersCounted
    <3>4. PeerCount' <= MaxPeers
      BY <2>2, <3>1, <3>3 DEF PeerCount, RoomForPeer, EndpointInv,
                             EndpointTypes
    <3>5. PeersCounted'
      BY <3>1, <3>3, <3>4 DEF PeersCounted, EndpointInv, EndpointTypes
    <3>6. QED
      BY <2>2, <3>1, <3>2, <3>5 DEF EndpointInv, EndpointTypes, Workers,
         SocketsConsistent, StopConsistent
  <2>3. QED
    BY <2>1, <2>2
<1>5. ASSUME RegisterOther
      PROVE  EndpointInv'
  <2>1. PeersCounted'
    BY <1>5, FS_CardinalityType DEF RegisterOther, RoomForPeer, PeerCount,
       PeersCounted, EndpointInv, EndpointTypes, workerVars
  <2>2. QED
    BY <1>5, <2>1 DEF RegisterOther, workerVars, mainVars,
       EndpointInv, EndpointTypes, SocketsConsistent, StopConsistent
<1>6. ASSUME OtherEnds
      PROVE  EndpointInv'
  <2>1. PeersCounted'
    BY <1>6, FS_CardinalityType DEF OtherEnds, PeerCount,
       PeersCounted, EndpointInv, EndpointTypes, workerVars
  <2>2. QED
    BY <1>6, <2>1 DEF OtherEnds, workerVars, mainVars,
       EndpointInv, EndpointTypes, SocketsConsistent, StopConsistent
<1>7. ASSUME AcceptThreadEnds
      PROVE  EndpointInv'
  BY <1>7 DEF AcceptThreadEnds, workerVars, mainVars,
     EndpointInv, EndpointTypes, SocketsConsistent, StopConsistent,
     PeersCounted, PeerCount
<1>8. ASSUME NEW c \in Tickets,
             \/ WorkerSubmits(c) \/ WorkerGivesUp(c) \/ WorkerFetches(c)
             \/ WorkerAnnounces(c) \/ WorkerAnswers(c) \/ WorkerPolls(c)
             \/ WorkerStopsWaiting(c)
      PROVE  EndpointInv'
  <2>1. /\ worker[c] \in {"receive", "fetch", "act", "ack"}
        /\ \E to \in {"fetch", "act", "ack", "finish"} : MoveWorker(c, to)
        /\ UNCHANGED <<socket, serverVars, main>>
    <3>1. CASE WorkerSubmits(c) \/ WorkerGivesUp(c) \/ WorkerFetches(c)
      BY <3>1 DEF WorkerSubmits, WorkerGivesUp, WorkerFetches, mainVars
    <3>2. CASE WorkerAnnounces(c)
      BY <3>2 DEF WorkerAnnounces, SendOrGiveUp, mainVars
    <3>3. CASE WorkerAnswers(c)
      BY <3>3 DEF WorkerAnswers, SendOrGiveUp, mainVars
    <3>4. CASE WorkerPolls(c) \/ WorkerStopsWaiting(c)
      BY <3>4 DEF WorkerPolls, WorkerStopsWaiting, mainVars
    <3>5. QED
      BY <1>8, <3>1, <3>2, <3>3, <3>4
  <2>2. QED
    BY <2>1, WorkerMovesOn DEF Workers
<1>9. ASSUME NEW c \in Tickets, WorkerEnds(c)
      PROVE  EndpointInv'
  <2>1. /\ worker[c] = "finish"
        /\ peers' = peers \ {c}
        /\ socket' = [socket EXCEPT ![c] = "closed"]
        /\ worker' = [worker EXCEPT ![c] = "gone"]
        /\ UNCHANGED <<accepting, stop, others, main>>
    BY <1>9 DEF WorkerEnds, WithoutPeer, MoveWorker, mainVars
  <2>2. c \in peers
    BY <2>1 DEF EndpointInv, PeersCounted
  <2>3. /\ IsFiniteSet(peers')
        /\ Cardinality(peers') = Cardinality(peers) - 1
        /\ Cardinality(peers) \in Nat
    BY <2>1, <2>2, FS_RemoveElement, FS_CardinalityType
       DEF EndpointInv, PeersCounted
  <2>4. PeersCounted'
    BY <2>1, <2>3 DEF EndpointInv, EndpointTypes, PeersCounted, PeerCount
  <2>5. socket[c] # "held" /\ socket[c] # "backlog"
    BY <2>1 DEF EndpointInv, SocketsConsistent
  <2>6. QED
    BY <2>1, <2>4, <2>5 DEF EndpointInv, EndpointTypes, Workers,
       SocketsConsistent, StopConsistent
<1>10. ASSUME OwnerStep \/ OutsideStep
       PROVE  EndpointInv'
  BY <1>0, <1>10 DEF OwnerStep, OutsideStep, peerVars, workerVars, mainVars
<1>11. ASSUME StopAccepting
       PROVE  EndpointInv'
  BY <1>11 DEF StopAccepting, workerVars, EndpointInv, EndpointTypes,
     SocketsConsistent, StopConsistent, PeersCounted, PeerCount
<1>12. ASSUME DeadlinePasses
       PROVE  EndpointInv'
  BY <1>0, <1>12 DEF DeadlinePasses, workerVars
<1>13. ASSUME CutPeers
       PROVE  EndpointInv'
  BY <1>13 DEF CutPeers, ConnectionsAfterClose, serverVars, workerVars,
     EndpointInv, EndpointTypes, SocketsConsistent, StopConsistent,
     PeersCounted, PeerCount
<1>14. ASSUME JoinAcceptThread
       PROVE  EndpointInv'
  BY <1>14 DEF JoinAcceptThread, serverVars, workerVars,
     EndpointInv, EndpointTypes, SocketsConsistent, StopConsistent,
     PeersCounted, PeerCount
<1>15. CASE UNCHANGED endpointVars
  BY <1>0, <1>15 DEF endpointVars, peerVars, workerVars, mainVars
<1>16. QED
  BY <1>1, <1>2, <1>3, <1>4, <1>5, <1>6, <1>7, <1>8, <1>9, <1>10, <1>11,
     <1>12, <1>13, <1>14, <1>15
     DEF PeersNext, ClientStep, WorkerStep, CloseStep

\* The limit of peers is kept, no place leaks, and a closed endpoint has no
\* open peer: for any number of clients and any limit (_accept_loop, close).
THEOREM PeersAccounted == PeersSpec => []PeerAccounting
<1>1. EndpointInv /\ [PeersNext]_endpointVars => EndpointInv'
  BY EndpointStepInv
<1>2. EndpointInv => PeerAccounting
  BY DEF EndpointInv, PeersCounted, StopConsistent, PeerAccounting,
         EndpointTypes
<1>3. QED
  BY EndpointInit, <1>1, <1>2, PTL DEF PeersSpec

-----------------------------------------------------------------------------
(* What clients are told.                                                  *)

\* Nothing was sent to the client, and it has heard nothing.
Silent(c) == responses[c] = <<>> /\ clientOp[c] = 0

\* The two frames a proposal that is accepted is answered with.
Acceptance(c) == Frame("accepted", ticket[c].operation, "none")
Verdict(c) == Frame("terminal", ticket[c].operation, ticket[c].state)

\* The acceptance is on its way, or the client remembers its operation.
AcceptanceTold(c) ==
    /\ ticket[c].operation # 0
    /\ \/ responses[c] = <<Acceptance(c)>> /\ clientOp[c] = 0
       \/ responses[c] = <<>> /\ clientOp[c] = ticket[c].operation

\* The result is on its way, behind the acceptance.
ResultTold(c) ==
    /\ ticket[c].state \in Results
    /\ \/ responses[c] = <<Acceptance(c), Verdict(c)>> /\ clientOp[c] = 0
       \/ /\ responses[c] = <<Verdict(c)>>
          /\ clientOp[c] = ticket[c].operation

\* A refusal is on its way.
BusyTold(c) ==
    /\ ticket[c].state = "idle"
    /\ clientOp[c] = 0
    /\ \E op \in Nat : responses[c] = <<Frame("error", op, "busy")>>
UnavailableTold(c) ==
    /\ ticket[c].state = "rejected"
    /\ clientOp[c] = 0
    /\ responses[c] = <<Frame("error", 0, "unavailable")>>

\* The budget of the final close is spent and the connections are cut.
CutOff == main \in {"joining", "closed"} /\ BudgetSpent

\* What became of a client that no longer waits, or does not wait yet.
ClientConsistent(c) ==
    /\ client[c] = "away" => socket[c] = "none"
    /\ client[c] \in {"away", "connected"} =>
         /\ Silent(c)
         /\ requests[c] = <<>>
         /\ ticket[c].state = "idle"
    /\ Gone(c) => responses[c] = <<>>
    /\ client[c] \in Results =>
         ticket[c] = [state |-> client[c], operation |-> clientOp[c]]
    /\ client[c] = "busy" =>
         ticket[c].state = "idle" /\ worker[c] \in {"finish", "gone"}
    /\ client[c] = "unavailable" => ticket[c].state = "rejected"
    /\ client[c] = "lost" =>
         /\ socket[c] \in {"none", "closed"}
         /\ ticket[c].state = "idle" \/ CutOff
    /\ client[c] # "invalid"

\* A worker makes its proposal once, before it announces or answers anything,
\* and the copy it acts on is not ahead of the ticket.
WorkerConsistent(c) ==
    /\ worker[c] \in {"none", "receive"} =>
         /\ ticket[c].state = "idle"
         /\ ~acceptedSent[c]
         /\ requests[c] \in {<<>>, <<"restart">>}
    /\ worker[c] \in {"fetch", "act", "ack"} =>
         /\ ticket[c].state # "idle"
         /\ acceptedSent[c] => ticket[c].operation # 0
    /\ worker[c] = "act" =>
         /\ seen[c].operation # 0 => seen[c].operation = ticket[c].operation
         /\ seen[c].state \in Results => seen[c].operation # 0
         /\ seen[c].state \in Results \cup {"rejected"} =>
              seen[c] = ticket[c]

\* What a client that waits has been sent, by the place of its worker.
ToldConsistent(c) ==
    client[c] = "waiting" =>
        /\ worker[c] \in {"none", "receive"} => Silent(c)
        /\ worker[c] \in {"fetch", "act"} =>
             /\ requests[c] = <<>>
             /\ IF acceptedSent[c] THEN AcceptanceTold(c) ELSE Silent(c)
        /\ worker[c] = "ack" => ResultTold(c)
        /\ worker[c] \in {"finish", "gone"} =>
             \/ ResultTold(c)
             \/ BusyTold(c)
             \/ UnavailableTold(c)
             \/ Silent(c) /\ ticket[c].state = "idle"
             \/ CutOff /\ (Silent(c) \/ AcceptanceTold(c))

\* Only the final close closes the connection of a registered peer.
CutConsistent(c) == c \in peers /\ socket[c] = "closed" => CutOff

Conversation(c) ==
    /\ ClientConsistent(c)
    /\ WorkerConsistent(c)
    /\ ToldConsistent(c)
    /\ CutConsistent(c)

\* Only a second signal is a repeated one.
SignalConsistent == externalSignal.repeated => SignalLatched

\* The inductive invariant of the conversations.
PeersInv ==
    /\ SlotInv
    /\ EndpointInv
    /\ PeersTypeOK
    /\ SignalConsistent
    /\ \A c \in Tickets : Conversation(c)

-----------------------------------------------------------------------------
(* What a step does to one client's proposal.                              *)

\* Proposal c as it is, or submitted by its own worker, or moved forward with
\* the operation it was accepted for.
TicketMoves(c) ==
    \/ ticket'[c] = ticket[c]
    \/ SubmitRestart(c)
    \/ /\ ticket[c].state = "pending"
       /\ ticket'[c].state = "rejected"
       /\ ticket'[c].operation = ticket[c].operation
    \/ /\ ticket[c].state = "pending"
       /\ ticket'[c].state = "accepted"
    \/ /\ ticket[c].state = "accepted"
       /\ ticket'[c].state \in Results
       /\ ticket'[c].operation = ticket[c].operation

\* No method of the controller moves a proposal in another way.
LEMMA TicketMovesHolds ==
    ASSUME SlotInv, [ControllerNext]_controllerVars, NEW c \in Tickets
    PROVE  TicketMoves(c)
<1>0. TypeOK
  BY DEF SlotInv
<1>1. ASSUME NEW t \in Tickets, SubmitRestart(t)
      PROVE  TicketMoves(c)
  <2>1. CASE t = c
    BY <1>1, <2>1 DEF TicketMoves
  <2>2. CASE t # c
    BY <1>0, <1>1, <2>2, SubmitMovesOne DEF MovesOne, TicketMoves
  <2>3. QED
    BY <2>1, <2>2
<1>2. ASSUME NEW t \in Tickets, WithdrawRestart(t)
      PROVE  TicketMoves(c)
  BY <1>0, <1>2, WithdrawMovesOne
     DEF WithdrawRestart, TicketMoves, MovesOne, SlotInv, PendingHoldsSlot
<1>3. ASSUME UNCHANGED ticket
      PROVE  TicketMoves(c)
  BY <1>3 DEF TicketMoves
<1>4. ASSUME AcceptPending
      PROVE  TicketMoves(c)
  BY <1>0, <1>4, AcceptMovesOne
     DEF AcceptPending, TicketMoves, MovesOne, SlotInv, PendingHoldsSlot
<1>5. ASSUME DeclinePending
      PROVE  TicketMoves(c)
  BY <1>0, <1>5, DeclineMovesOne
     DEF TicketMoves, MovesOne, SlotInv, PendingHoldsSlot
<1>6. ASSUME PublishCommitted
      PROVE  TicketMoves(c)
  BY <1>0, <1>6, PublishMovesOne
     DEF PublishCommitted, TicketMoves, MovesOne, SlotInv,
         PublicationConsistent, Results, TypeOK
<1>7. ASSUME MarkGenerationTerminal
      PROVE  TicketMoves(c)
  BY <1>0, <1>7, RejectMovesOne
     DEF MarkGenerationTerminal, TicketMoves, MovesOne, SlotInv,
         PendingHoldsSlot
<1>8. ASSUME MarkExternalShutdown
      PROVE  TicketMoves(c)
  <2>1. active # NoTicket /\ terminal = "none" =>
          /\ ticket[active].state = "accepted"
          /\ ticket[active].operation = operation
    BY <1>0 DEF SlotInv, AcceptedKeepsSlot, TypeOK
  <2>2. pending # NoTicket => ticket[pending].state = "pending"
    BY <1>0 DEF SlotInv, PendingHoldsSlot, TypeOK
  <2>3. QED
    BY <1>0, <1>8, <2>1, <2>2, ExternalMovesOne
       DEF TicketMoves, MovesOne, Results
<1>9. CASE UNCHANGED controllerVars
  BY <1>3, <1>9 DEF controllerVars
<1>10. ASSUME \/ ObserveRuntimeFailure
              \/ \E s \in Signals : \/ ObserveExternalSignal(s)
                                    \/ InterruptPublication(s)
                                    \/ InterruptRejection(s)
              \/ BeginInitialAdmission
              \/ MarkInitialGenerationRunning
              \/ AllocateRestartSuccessor
              \/ DenyRestartSuccessor
              \/ \E outcome \in Results : CommitRestartTerminal(outcome)
              \/ ReleaseSuccessfulRestart
       PROVE  TicketMoves(c)
  BY <1>3, <1>10
     DEF ObserveRuntimeFailure, ObserveExternalSignal, InterruptPublication,
         InterruptRejection, BeginInitialAdmission,
         MarkInitialGenerationRunning, AllocateRestartSuccessor,
         DenyRestartSuccessor, CommitRestartTerminal,
         ReleaseSuccessfulRestart
<1>11. QED
  BY <1>1, <1>2, <1>4, <1>5, <1>6, <1>7, <1>8, <1>9, <1>10
     DEF ControllerNext

\* Hence what was decided about a proposal stands.
LEMMA TicketStands ==
    ASSUME SlotInv, SlotInv', [ControllerNext]_controllerVars,
           NEW c \in Tickets
    PROVE  /\ ticket[c].state \in Results \cup {"rejected"} =>
                ticket'[c] = ticket[c]
           /\ ticket[c].operation # 0 =>
                ticket'[c].operation = ticket[c].operation
           /\ ticket[c].state # "idle" => ticket'[c].state # "idle"
           /\ ticket[c].state = "idle" /\ ~SubmitRestart(c) =>
                ticket'[c] = ticket[c]
<1>1. TicketMoves(c)
  BY TicketMovesHolds
<1>2. /\ ticket[c].state = "pending" => ticket[c].operation = 0
      /\ ticket[c] \in [state : TicketStates, operation : Nat]
      /\ ticket'[c] \in [state : TicketStates, operation : Nat]
  BY DEF SlotInv, TypeOK, TicketOperations
<1>3. SubmitRestart(c) => /\ ticket[c].state = "idle"
                          /\ ticket[c].operation = 0
                          /\ ticket'[c].state = "pending"
  BY SubmitMovesOne DEF SubmitRestart, MovesOne, SlotInv, TicketOperations
<1>4. QED
  BY <1>1, <1>2, <1>3 DEF TicketMoves, Results

\* A signal that was repeated stays so.
LEMMA SignalStands ==
    ASSUME SlotInv, SignalConsistent, [ControllerNext]_controllerVars
    PROVE  /\ SignalConsistent'
           /\ externalSignal.repeated => externalSignal'.repeated
<1>1. \/ externalSignal' = externalSignal
      \/ \E s \in Signals : /\ externalSignal' = Latched(s)
                            /\ ~externalSignal.repeated
  BY DEF SignalConsistent, ControllerNext, controllerVars, SubmitRestart,
     WithdrawRestart, ObserveRuntimeFailure, ObserveExternalSignal,
     InterruptPublication, InterruptRejection, BeginInitialAdmission,
     MarkInitialGenerationRunning, AcceptPending, DeclinePending,
     AllocateRestartSuccessor, DenyRestartSuccessor, CommitRestartTerminal,
     PublishCommitted, ReleaseSuccessfulRestart, MarkGenerationTerminal,
     MarkExternalShutdown
<1>2. ASSUME NEW s \in Signals, externalSignal' = Latched(s)
      PROVE  SignalConsistent'
  <2>1. /\ externalSignal \in [signal : Signals \cup {NoSignal},
                               repeated : BOOLEAN]
    BY DEF SlotInv, TypeOK
  <2>2. externalSignal'.signal # NoSignal
    <3>1. CASE externalSignal.signal = NoSignal
      BY <1>2, <3>1, NoSignalAssumption DEF Latched
    <3>2. CASE externalSignal.signal # NoSignal
      <4>1. externalSignal' = [externalSignal EXCEPT !.repeated = TRUE]
        BY <1>2, <3>2 DEF Latched
      <4>2. QED
        BY <2>1, <3>2, <4>1
    <3>3. QED
      BY <3>1, <3>2
  <2>3. QED
    BY <2>2 DEF SignalConsistent, SignalLatched
<1>3. QED
  BY <1>1, <1>2 DEF SignalConsistent, SignalLatched

-----------------------------------------------------------------------------
(* What a client hears.                                                    *)

\* Short queues of frames.
LEMMA ShortQueues ==
    ASSUME NEW f, NEW g
    PROVE  /\ <<f>> # <<>> /\ Head(<<f>>) = f /\ Tail(<<f>>) = <<>>
           /\ <<f, g>> # <<>> /\ Head(<<f, g>>) = f
           /\ Tail(<<f, g>>) = <<g>>
           /\ Append(<<>>, f) = <<f>>
           /\ Append(<<f>>, g) = <<f, g>>
<1>1. <<f>> # <<>> /\ Head(<<f>>) = f /\ Tail(<<f>>) = <<>>
  OBVIOUS
<1>2. <<f, g>> # <<>> /\ Head(<<f, g>>) = f
  OBVIOUS
<1>3. Tail(<<f, g>>) = <<g>>
  OBVIOUS
<1>4. Append(<<>>, f) = <<f>>
  OBVIOUS
<1>5. Append(<<f>>, g) = <<f, g>>
  <2>1. <<f>> \in Seq({f, g}) /\ <<f, g>> \in Seq({f, g})
    OBVIOUS
  <2>2. /\ Append(<<f>>, g) \in Seq({f, g})
        /\ Len(Append(<<f>>, g)) = 2
        /\ Append(<<f>>, g)[1] = f
        /\ Append(<<f>>, g)[2] = g
    BY <2>1
  <2>3. Len(<<f, g>>) = 2 /\ <<f, g>>[1] = f /\ <<f, g>>[2] = g
    OBVIOUS
  <2>4. \A i \in 1..2 : Append(<<f>>, g)[i] = <<f, g>>[i]
    BY <2>2, <2>3
  <2>5. QED
    BY <2>1, <2>2, <2>3, <2>4, SeqEqual
<1>6. QED
  BY <1>1, <1>2, <1>3, <1>4, <1>5

\* The ticket of client c has its fields in their types.
LEMMA TicketFields ==
    ASSUME PeersInv, NEW c \in Tickets
    PROVE  /\ ticket[c] \in [state : TicketStates, operation : Nat]
           /\ ticket[c].operation \in Nat
           /\ ticket[c].state \in TicketStates
           /\ ticket[c].state \in {"idle", "pending", "rejected"} =>
                ticket[c].operation = 0
           /\ ticket[c].state \in Results => ticket[c].operation # 0
BY DEF PeersInv, SlotInv, TypeOK, TicketOperations

\* What a client that waits makes of the frames it can be sent.
LEMMA FramesAreExpected ==
    ASSUME PeersInv, NEW c \in Tickets
    PROVE  /\ Acceptance(c).kind = "accepted"
           /\ Acceptance(c).operation = ticket[c].operation
           /\ clientOp[c] = 0 => OutcomeOf(c, Acceptance(c)) = "waiting"
           /\ Verdict(c).kind = "terminal"
           /\ ticket[c].operation # 0 /\ clientOp[c] = ticket[c].operation =>
                /\ ExpectedTerminal(c, Verdict(c))
                /\ OutcomeOf(c, Verdict(c)) = ticket[c].state
           /\ \A op, r : /\ Frame("error", op, r).kind = "error"
                         /\ OutcomeOf(c, Frame("error", op, r)) = r
BY DEF Acceptance, Verdict, Frame, OutcomeOf, ExpectedTerminal

\* A client that waits hears the end of the stream, the acceptance, the
\* result or a refusal, and nothing else.
LEMMA ClientHears ==
    ASSUME PeersInv, NEW c \in Tickets, ClientReceives(c)
    PROVE  \/ /\ responses[c] = <<>>
              /\ socket[c] = "closed"
              /\ client' = [client EXCEPT ![c] = "lost"]
              /\ UNCHANGED <<clientOp, requests, responses>>
           \/ /\ AcceptanceTold(c) \/ ResultTold(c)
              /\ clientOp[c] = 0
              /\ client' = [client EXCEPT ![c] = "waiting"]
              /\ clientOp' = [clientOp EXCEPT ![c] = ticket[c].operation]
              /\ responses' =
                   [responses EXCEPT
                      ![c] = IF responses[c] = <<Acceptance(c)>>
                               THEN <<>> ELSE <<Verdict(c)>>]
              /\ responses[c] \in {<<Acceptance(c)>>,
                                   <<Acceptance(c), Verdict(c)>>}
              /\ UNCHANGED requests
           \/ /\ ResultTold(c)
              /\ clientOp[c] = ticket[c].operation
              /\ client' = [client EXCEPT ![c] = ticket[c].state]
              /\ \/ UNCHANGED requests
                 \/ requests' =
                      [requests EXCEPT ![c] = Append(requests[c], "ack")]
              /\ responses' = [responses EXCEPT ![c] = <<>>]
              /\ UNCHANGED clientOp
           \/ /\ \/ /\ BusyTold(c)
                    /\ client' = [client EXCEPT ![c] = "busy"]
                 \/ /\ UnavailableTold(c)
                    /\ client' = [client EXCEPT ![c] = "unavailable"]
              /\ responses' = [responses EXCEPT ![c] = <<>>]
              /\ UNCHANGED <<clientOp, requests>>
<1> DEFINE f == Head(responses[c])
<1>1. CASE responses[c] = <<>>
  BY <1>1 DEF ClientReceives
<1>2. CASE responses[c] # <<>>
  <2>1. /\ client' = [client EXCEPT ![c] = OutcomeOf(c, f)]
        /\ clientOp' = IF f.kind = "accepted" /\ clientOp[c] = 0
                         THEN [clientOp EXCEPT ![c] = f.operation]
                         ELSE clientOp
        /\ requests' =
             IF f.kind = "terminal" /\ ExpectedTerminal(c, f)
                  /\ socket[c] # "closed"
               THEN [requests EXCEPT ![c] = Append(requests[c], "ack")]
               ELSE requests
        /\ responses' = [responses EXCEPT ![c] = Tail(responses[c])]
    BY <1>2 DEF ClientReceives
  <2>2. AcceptanceTold(c) \/ ResultTold(c) \/ BusyTold(c)
          \/ UnavailableTold(c)
    BY <1>2 DEF PeersInv, Conversation, ToldConsistent, ClientReceives,
       Silent, PeersTypeOK, Workers
  <2>3. CASE AcceptanceTold(c) \/ ResultTold(c)
    <3>1. CASE clientOp[c] = 0
      <4>1. responses[c] \in {<<Acceptance(c)>>,
                              <<Acceptance(c), Verdict(c)>>}
        BY <1>2, <2>3, <3>1, TicketFields DEF AcceptanceTold, ResultTold
      <4>2. f = Acceptance(c)
        BY <4>1, ShortQueues
      <4>3. /\ client' = [client EXCEPT ![c] = "waiting"]
            /\ clientOp' = [clientOp EXCEPT ![c] = ticket[c].operation]
            /\ requests' = requests
        BY <2>1, <3>1, <4>2, FramesAreExpected
      <4>4. Tail(responses[c]) = IF responses[c] = <<Acceptance(c)>>
                                   THEN <<>> ELSE <<Verdict(c)>>
        <5>1. CASE responses[c] = <<Acceptance(c)>>
          BY <5>1, ShortQueues
        <5>2. CASE responses[c] # <<Acceptance(c)>>
          <6>1. responses[c] = <<Acceptance(c), Verdict(c)>>
            BY <4>1, <5>2
          <6>2. QED
            BY <5>2, <6>1, ShortQueues
        <5>3. QED
          BY <5>1, <5>2
      <4>5. QED
        BY <2>1, <2>3, <3>1, <4>1, <4>3, <4>4
    <3>2. CASE clientOp[c] # 0
      <4>1. /\ ResultTold(c)
            /\ clientOp[c] = ticket[c].operation
            /\ responses[c] = <<Verdict(c)>>
        BY <1>2, <2>3, <3>2, TicketFields DEF AcceptanceTold, ResultTold
      <4>2. f = Verdict(c) /\ Tail(responses[c]) = <<>>
        BY <4>1, ShortQueues
      <4>3. /\ client' = [client EXCEPT ![c] = ticket[c].state]
            /\ clientOp' = clientOp
        BY <2>1, <3>2, <4>1, <4>2, FramesAreExpected
      <4>4. QED
        BY <2>1, <4>1, <4>2, <4>3
    <3>3. QED
      BY <3>1, <3>2
  <2>4. CASE BusyTold(c)
    <3>1. PICK op \in Nat : responses[c] = <<Frame("error", op, "busy")>>
      BY <2>4 DEF BusyTold
    <3>2. f = Frame("error", op, "busy") /\ Tail(responses[c]) = <<>>
      BY <3>1, ShortQueues
    <3>3. f.kind = "error" /\ OutcomeOf(c, f) = "busy"
      BY <3>2, FramesAreExpected
    <3>4. QED
      BY <2>1, <2>4, <3>2, <3>3
  <2>5. CASE UnavailableTold(c)
    <3>1. f = Frame("error", 0, "unavailable") /\ Tail(responses[c]) = <<>>
      BY <2>5, ShortQueues DEF UnavailableTold
    <3>2. f.kind = "error" /\ OutcomeOf(c, f) = "unavailable"
      BY <3>1, FramesAreExpected
    <3>3. QED
      BY <2>1, <2>5, <3>1, <3>2
  <2>6. QED
    BY <2>2, <2>3, <2>4, <2>5
<1>3. QED
  BY <1>1, <1>2

-----------------------------------------------------------------------------
(* The types of the endpoint's state.                                      *)

\* The types hold before the first client.
LEMMA PeersTypeInit == PeersInit => PeersTypeOK
<1> SUFFICES ASSUME PeersInit PROVE PeersTypeOK
  OBVIOUS
<1>1. /\ requests \in [Tickets -> Seq({"restart", "ack"})]
      /\ responses \in [Tickets -> Seq(Frames)]
  BY DEF PeersInit
<1>2. seen \in [Tickets -> [state : TicketStates, operation : Nat]]
  BY DEF PeersInit, NotSeen, TicketStates
<1>3. others \in 0..MaxOthers
  BY DEF PeersInit
<1>4. QED
  BY <1>1, <1>2, <1>3 DEF PeersInit, PeersTypeOK, Workers

\* A queue keeps its type when it loses a frame, gains one or is emptied.
LEMMA QueueTypes ==
    ASSUME NEW S, NEW q \in [Tickets -> Seq(S)], NEW c \in Tickets
    PROVE  /\ q[c] # <<>> => [q EXCEPT ![c] = Tail(q[c])]
                               \in [Tickets -> Seq(S)]
           /\ \A f \in S : [q EXCEPT ![c] = Append(q[c], f)]
                             \in [Tickets -> Seq(S)]
           /\ [q EXCEPT ![c] = <<>>] \in [Tickets -> Seq(S)]
<1>1. q[c] \in Seq(S)
  OBVIOUS
<1>2. q[c] # <<>> => Tail(q[c]) \in Seq(S)
  BY <1>1
<1>3. \A f \in S : Append(q[c], f) \in Seq(S)
  BY <1>1
<1>4. <<>> \in Seq(S)
  OBVIOUS
<1>5. QED
  BY <1>2, <1>3, <1>4

LEMMA RequestTypes ==
    ASSUME PeersTypeOK, NEW c \in Tickets
    PROVE  /\ requests \in [Tickets -> Seq({"restart", "ack"})]
           /\ requests[c] # <<>> =>
                [requests EXCEPT ![c] = Tail(requests[c])]
                  \in [Tickets -> Seq({"restart", "ack"})]
           /\ \A f \in {"restart", "ack"} :
                [requests EXCEPT ![c] = Append(requests[c], f)]
                  \in [Tickets -> Seq({"restart", "ack"})]
           /\ [requests EXCEPT ![c] = <<>>]
                \in [Tickets -> Seq({"restart", "ack"})]
BY QueueTypes DEF PeersTypeOK

LEMMA ResponseTypes ==
    ASSUME PeersTypeOK, NEW c \in Tickets
    PROVE  /\ responses \in [Tickets -> Seq(Frames)]
           /\ responses[c] # <<>> =>
                [responses EXCEPT ![c] = Tail(responses[c])]
                  \in [Tickets -> Seq(Frames)]
           /\ \A f \in Frames :
                [responses EXCEPT ![c] = Append(responses[c], f)]
                  \in [Tickets -> Seq(Frames)]
           /\ [responses EXCEPT ![c] = <<>>] \in [Tickets -> Seq(Frames)]
BY QueueTypes DEF PeersTypeOK

\* The frames of the protocol.
LEMMA FrameTypes ==
    ASSUME NEW op \in Nat
    PROVE  /\ Frame("accepted", op, "none") \in Frames
           /\ Frame("error", op, "busy") \in Frames
           /\ Frame("error", 0, "unavailable") \in Frames
           /\ \A r \in Results : Frame("terminal", op, r) \in Frames
BY DEF Frame, Frames, Results

\* Every step keeps the types.
LEMMA PeersTypeStep ==
    ASSUME PeersInv, [PeersNext]_endpointVars
    PROVE  PeersTypeOK'
<1> USE DEF Workers
<1>0. /\ PeersTypeOK
      /\ ticket \in [Tickets -> [state : TicketStates, operation : Nat]]
      /\ operation \in Nat
  BY DEF PeersInv, SlotInv, TypeOK
<1>1. ASSUME NEW c \in Tickets, Connect(c)
      PROVE  PeersTypeOK'
  BY <1>0, <1>1 DEF Connect, PeersTypeOK, serverVars, workerVars, mainVars,
     Outcomes
<1>2. ASSUME NEW c \in Tickets, SendRequest(c)
      PROVE  PeersTypeOK'
  <2>1. requests' \in [Tickets -> Seq({"restart", "ack"})]
    <3>1. \/ requests' = requests
          \/ requests' = [requests EXCEPT
                            ![c] = Append(requests[c], "restart")]
      BY <1>2 DEF SendRequest
    <3>2. /\ requests \in [Tickets -> Seq({"restart", "ack"})]
          /\ [requests EXCEPT ![c] = Append(requests[c], "restart")]
               \in [Tickets -> Seq({"restart", "ack"})]
      BY <1>0, RequestTypes
    <3>3. QED
      BY <3>1, <3>2
  <2>2. QED
    BY <1>0, <1>2, <2>1 DEF SendRequest, PeersTypeOK, serverVars, workerVars,
       mainVars, Outcomes
<1>3. ASSUME NEW c \in Tickets, ClientReceives(c)
      PROVE  PeersTypeOK'
  <2>1. /\ client' \in [Tickets -> {"away", "connected", "waiting"}
                                      \cup Outcomes]
        /\ clientOp' \in [Tickets -> Nat]
    <3>1. /\ client \in [Tickets -> {"away", "connected", "waiting"}
                                       \cup Outcomes]
          /\ clientOp \in [Tickets -> Nat]
      BY <1>0 DEF PeersTypeOK
    <3>2. ResultTold(c) => ticket[c].state \in Outcomes
      BY DEF ResultTold, Results, Outcomes
    <3>3. {"lost", "busy", "unavailable"} \subseteq Outcomes
      BY DEF Outcomes
    <3>4. QED
      BY SMTT(20), <1>3, <3>1, <3>2, <3>3, ClientHears, TicketFields
  <2>2. requests' \in [Tickets -> Seq({"restart", "ack"})]
    <3>1. \/ requests' = requests
          \/ requests' = [requests EXCEPT ![c] = Append(requests[c], "ack")]
      BY <1>3 DEF ClientReceives
    <3>2. /\ requests \in [Tickets -> Seq({"restart", "ack"})]
          /\ [requests EXCEPT ![c] = Append(requests[c], "ack")]
               \in [Tickets -> Seq({"restart", "ack"})]
      BY <1>0, RequestTypes
    <3>3. QED
      BY <3>1, <3>2
  <2>3. responses' \in [Tickets -> Seq(Frames)]
    BY <1>0, <1>3, ResponseTypes DEF ClientReceives
  <2>4. QED
    BY <1>0, <1>3, <2>1, <2>2, <2>3 DEF ClientReceives, PeersTypeOK,
       serverVars, workerVars, mainVars
<1>4. ASSUME NEW c \in Tickets, ClientLeaves(c)
      PROVE  PeersTypeOK'
  <2>1. responses' \in [Tickets -> Seq(Frames)]
    BY <1>0, <1>4, ResponseTypes DEF ClientLeaves
  <2>2. QED
    BY <1>0, <1>4, <2>1 DEF ClientLeaves, PeersTypeOK, serverVars,
       workerVars, mainVars, Outcomes
<1>5. ASSUME NEW c \in Tickets, AcceptPeer(c)
      PROVE  PeersTypeOK'
  BY <1>0, <1>5 DEF AcceptPeer, PeersTypeOK, clientVars, workerVars, mainVars
<1>6. ASSUME RegisterPeer
      PROVE  PeersTypeOK'
  <2>1. accepting \in Tickets
    BY <1>0, <1>6 DEF RegisterPeer, PeersTypeOK
  <2>2. /\ socket' \in [Tickets -> {"none", "backlog", "held", "open",
                                  "closed"}]
        /\ acceptAlive' \in BOOLEAN
        /\ peers' \subseteq Tickets
    <3>1. /\ socket \in [Tickets -> {"none", "backlog", "held", "open",
                                    "closed"}]
          /\ acceptAlive \in BOOLEAN /\ stop \in BOOLEAN
          /\ peers \subseteq Tickets
      BY <1>0 DEF PeersTypeOK
    <3>2. /\ \/ socket' = [socket EXCEPT ![accepting] = "closed"]
             \/ socket' = [socket EXCEPT ![accepting] = "open"]
          /\ acceptAlive' = acceptAlive \/ acceptAlive' = ~stop
          /\ peers' = peers \/ peers' = peers \cup {accepting}
      BY <1>6 DEF RegisterPeer
    <3>3. QED
      BY <2>1, <3>1, <3>2
  <2>3. worker' \in [Tickets -> Workers]
    <3>1. "receive" \in Workers
      BY DEF Workers
    <3>2. \/ worker' = worker
          \/ worker' = [worker EXCEPT ![accepting] = "receive"]
      BY <1>6 DEF RegisterPeer
    <3>3. QED
      BY <1>0, <2>1, <3>1, <3>2 DEF PeersTypeOK
  <2>4. QED
    BY <1>0, <1>6, <2>2, <2>3 DEF RegisterPeer, PeersTypeOK, clientVars,
       mainVars
<1>7. ASSUME RegisterOther \/ OtherEnds \/ AcceptThreadEnds
      PROVE  PeersTypeOK'
  <2>1. others' \in 0..MaxOthers
    BY <1>0, <1>7 DEF RegisterOther, OtherEnds, AcceptThreadEnds, PeersTypeOK
  <2>2. QED
    BY <1>0, <1>7, <2>1 DEF RegisterOther, OtherEnds, AcceptThreadEnds,
       PeersTypeOK, clientVars, workerVars, mainVars
<1>8. ASSUME NEW c \in Tickets, WorkerSubmits(c)
      PROVE  PeersTypeOK'
  <2>1. requests' \in [Tickets -> Seq({"restart", "ack"})]
    BY <1>0, <1>8, RequestTypes DEF WorkerSubmits
  <2>2. responses' \in [Tickets -> Seq(Frames)]
    <3>1. Frame("error", operation, "busy") \in Frames
      BY <1>0, FrameTypes
    <3>2. responses' = responses
          \/ responses' = [responses EXCEPT ![c] =
                Append(responses[c], Frame("error", operation, "busy"))]
      BY <1>8 DEF WorkerSubmits, Send
    <3>3. QED
      <4>1. PeersTypeOK
        BY <1>0
      <4>2. \A f \in Frames : [responses EXCEPT ![c] = Append(responses[c], f)]
                              \in [Tickets -> Seq(Frames)]
        BY <4>1, ResponseTypes
      <4>3. responses \in [Tickets -> Seq(Frames)]
        BY <4>1 DEF PeersTypeOK
      <4>4. QED
        BY <3>1, <3>2, <4>2, <4>3
  <2>3. worker' \in [Tickets -> Workers]
    BY <1>0, <1>8 DEF WorkerSubmits, MoveWorker, PeersTypeOK
  <2>4. QED
    BY <1>0, <1>8, <2>1, <2>2, <2>3 DEF WorkerSubmits, PeersTypeOK,
       clientVars, serverVars, mainVars
<1>9. ASSUME NEW c \in Tickets,
             WorkerGivesUp(c) \/ WorkerPolls(c) \/ WorkerStopsWaiting(c)
      PROVE  PeersTypeOK'
  BY <1>0, <1>9 DEF WorkerGivesUp, WorkerPolls, WorkerStopsWaiting,
     MoveWorker, PeersTypeOK, clientVars, serverVars, mainVars
<1>10. ASSUME NEW c \in Tickets, WorkerFetches(c)
       PROVE  PeersTypeOK'
  BY <1>0, <1>10 DEF WorkerFetches, MoveWorker, PeersTypeOK, clientVars,
     serverVars, mainVars
<1>11. ASSUME NEW c \in Tickets, WorkerAnnounces(c)
       PROVE  PeersTypeOK'
  <2>1. seen[c].operation \in Nat
    BY <1>0 DEF PeersTypeOK
  <2>2. responses' \in [Tickets -> Seq(Frames)]
    <3>1. Frame("accepted", seen[c].operation, "none") \in Frames
      BY <2>1, FrameTypes
    <3>2. \/ responses' = responses
          \/ \E f \in Frames :
               responses' = [responses EXCEPT ![c] = Append(responses[c], f)]
      BY <1>11, <3>1 DEF WorkerAnnounces, SendOrGiveUp, Send
    <3>3. QED
      <4>1. PeersTypeOK
        BY <1>0
      <4>2. \A f \in Frames : [responses EXCEPT ![c] = Append(responses[c], f)]
                              \in [Tickets -> Seq(Frames)]
        BY <4>1, ResponseTypes
      <4>3. responses \in [Tickets -> Seq(Frames)]
        BY <4>1 DEF PeersTypeOK
      <4>4. QED
        BY <3>1, <3>2, <4>2, <4>3
  <2>3. worker' \in [Tickets -> Workers]
    BY <1>0, <1>11 DEF WorkerAnnounces, SendOrGiveUp, MoveWorker, PeersTypeOK
  <2>4. UNCHANGED <<client, clientOp, socket, requests, accepting,
                    acceptAlive, stop, peers, others, seen, main,
                    deadlinePassed>>
    BY <1>11 DEF WorkerAnnounces, clientVars, serverVars, mainVars
  <2>5. acceptedSent' \in [Tickets -> BOOLEAN]
    BY <1>0, <1>11 DEF WorkerAnnounces, PeersTypeOK
  <2>6. QED
    BY <1>0, <2>2, <2>3, <2>4, <2>5 DEF PeersTypeOK
<1>12. ASSUME NEW c \in Tickets, WorkerAnswers(c)
       PROVE  PeersTypeOK'
  <2>1. seen[c].operation \in Nat
    BY <1>0 DEF PeersTypeOK
  <2>2. responses' \in [Tickets -> Seq(Frames)]
    <3>1. /\ Frame("error", 0, "unavailable") \in Frames
          /\ seen[c].state \in Results => TerminalFrame(c) \in Frames
      BY <2>1, FrameTypes DEF TerminalFrame
    <3>2. \/ responses' = responses
          \/ \E f \in Frames :
               responses' = [responses EXCEPT ![c] = Append(responses[c], f)]
      BY <1>12, <3>1 DEF WorkerAnswers, SendOrGiveUp, Send
    <3>3. QED
      <4>1. PeersTypeOK
        BY <1>0
      <4>2. \A f \in Frames : [responses EXCEPT ![c] = Append(responses[c], f)]
                              \in [Tickets -> Seq(Frames)]
        BY <4>1, ResponseTypes
      <4>3. responses \in [Tickets -> Seq(Frames)]
        BY <4>1 DEF PeersTypeOK
      <4>4. QED
        BY <3>1, <3>2, <4>2, <4>3
  <2>3. worker' \in [Tickets -> Workers]
    BY <1>0, <1>12 DEF WorkerAnswers, SendOrGiveUp, MoveWorker, PeersTypeOK
  <2>4. QED
    BY <1>0, <1>12, <2>2, <2>3 DEF WorkerAnswers, PeersTypeOK, clientVars,
       serverVars, mainVars
<1>13. ASSUME NEW c \in Tickets, WorkerEnds(c)
       PROVE  PeersTypeOK'
  <2>1. requests' \in [Tickets -> Seq({"restart", "ack"})]
    BY <1>0, <1>13, RequestTypes DEF WorkerEnds
  <2>2. QED
    BY <1>0, <1>13, <2>1 DEF WorkerEnds, WithoutPeer, MoveWorker,
       PeersTypeOK, clientVars, mainVars, NotSeen, TicketStates
<1>14. ASSUME OwnerStep \/ OutsideStep
       PROVE  PeersTypeOK'
  BY <1>0, <1>14 DEF OwnerStep, OutsideStep, peerVars, clientVars,
     serverVars, workerVars, mainVars, PeersTypeOK
<1>15. ASSUME StopAccepting
       PROVE  PeersTypeOK'
  BY <1>0, <1>15 DEF StopAccepting, clientVars, workerVars, PeersTypeOK
<1>16. ASSUME DeadlinePasses \/ JoinAcceptThread
       PROVE  PeersTypeOK'
  BY <1>0, <1>16 DEF DeadlinePasses, JoinAcceptThread, clientVars,
     serverVars, workerVars, PeersTypeOK
<1>17. ASSUME CutPeers
       PROVE  PeersTypeOK'
  BY <1>0, <1>17 DEF CutPeers, ConnectionsAfterClose, clientVars,
     serverVars, workerVars, PeersTypeOK
<1>18. CASE UNCHANGED endpointVars
  BY <1>0, <1>18 DEF endpointVars, peerVars, clientVars, serverVars,
     workerVars, mainVars, PeersTypeOK
<1>19. QED
  BY <1>1, <1>2, <1>3, <1>4, <1>5, <1>6, <1>7, <1>8, <1>9, <1>10, <1>11,
     <1>12, <1>13, <1>14, <1>15, <1>16, <1>17, <1>18
     DEF PeersNext, ClientStep, WorkerStep, CloseStep

-----------------------------------------------------------------------------
(* The conversation with one client.                                       *)

\* A cut stays a cut: the main thread does not return to serving, and the
\* budget stays spent.
LEMMA CutStands ==
    ASSUME PeersInv, [PeersNext]_endpointVars, CutOff
    PROVE  CutOff'
<1>1. externalSignal.repeated => externalSignal'.repeated
  BY SignalStands, EndpointStep DEF PeersInv, endpointVars
<1>2. deadlinePassed => deadlinePassed'
  BY DEF PeersNext, endpointVars, peerVars, mainVars, Connect, ClientStep,
     SendRequest, ClientReceives, ClientLeaves, AcceptPeer, WorkerStep,
     WorkerSubmits, WorkerGivesUp, WorkerFetches, WorkerAnnounces,
     WorkerAnswers, WorkerPolls, WorkerStopsWaiting, WorkerEnds,
     RegisterPeer, RegisterOther, OtherEnds, AcceptThreadEnds, OwnerStep,
     OutsideStep, StopAccepting, DeadlinePasses, CloseStep, CutPeers,
     JoinAcceptThread
<1>3. main' \in {"joining", "closed"}
  BY DEF CutOff, PeersNext, endpointVars, peerVars, mainVars, Connect,
     ClientStep, SendRequest, ClientReceives, ClientLeaves, AcceptPeer,
     WorkerStep, WorkerSubmits, WorkerGivesUp, WorkerFetches, WorkerAnnounces,
     WorkerAnswers, WorkerPolls, WorkerStopsWaiting, WorkerEnds,
     RegisterPeer, RegisterOther, OtherEnds, AcceptThreadEnds, OwnerStep,
     OutsideStep, StopAccepting, DeadlinePasses, CloseStep, CutPeers,
     JoinAcceptThread
<1>4. QED
  BY <1>1, <1>2, <1>3 DEF CutOff, BudgetSpent

\* A connection of a registered peer is closed by the final close alone, and
\* only once its budget is spent.
LEMMA CutStep ==
    ASSUME PeersInv, [PeersNext]_endpointVars, NEW c \in Tickets
    PROVE  CutConsistent(c)'
<1>0. /\ CutConsistent(c)
      /\ CutOff => CutOff'
      /\ PeersTypeOK
      /\ SocketsConsistent
      /\ c \in peers <=> worker[c] \notin {"none", "gone"}
  BY CutStands
     DEF PeersInv, Conversation, EndpointInv, PeersCounted
<1>1. CASE c \in peers' => c \in peers /\ (socket'[c] = "closed" =>
                                             socket[c] = "closed")
  BY <1>0, <1>1 DEF CutConsistent
<1>2. ASSUME NEW d \in Tickets, Connect(d) \/ AcceptPeer(d)
      PROVE  CutConsistent(c)'
  BY <1>0, <1>1, <1>2 DEF Connect, AcceptPeer, serverVars, PeersTypeOK
<1>3. ASSUME NEW d \in Tickets, WorkerEnds(d)
      PROVE  CutConsistent(c)'
  BY <1>0, <1>1, <1>3 DEF WorkerEnds, WithoutPeer, PeersTypeOK
<1>4. ASSUME RegisterPeer
      PROVE  CutConsistent(c)'
  <2>1. accepting \in Tickets /\ socket[accepting] = "held"
          /\ worker[accepting] = "none"
    BY <1>0, <1>4 DEF RegisterPeer, PeersTypeOK, SocketsConsistent
  <2>2. CASE c = accepting
    BY <1>0, <1>4, <2>1, <2>2
       DEF RegisterPeer, PeersTypeOK, CutConsistent
  <2>3. CASE c # accepting
    BY <1>0, <1>1, <1>4, <2>1, <2>3 DEF RegisterPeer, PeersTypeOK
  <2>4. QED
    BY <2>2, <2>3
<1>5. ASSUME StopAccepting
      PROVE  CutConsistent(c)'
  BY <1>0, <1>1, <1>5 DEF StopAccepting, SocketsConsistent
<1>6. ASSUME CutPeers
      PROVE  CutConsistent(c)'
  <2>1. CASE c \in peers
    <3>1. PeerCount # 0
      <4>1. Cardinality(peers) \in Nat /\ Cardinality(peers) # 0
        BY <2>1, FS_CardinalityType, FS_EmptySet
           DEF PeersInv, EndpointInv, PeersCounted
      <4>2. others \in Nat
        BY DEF PeersInv, EndpointInv, EndpointTypes
      <4>3. QED
        BY <4>1, <4>2 DEF PeerCount
    <3>2. BudgetSpent /\ main' = "joining"
      BY <1>6, <3>1 DEF CutPeers, DrainOver
    <3>3. CutOff'
      BY <1>6, <3>2 DEF CutPeers, CutOff, BudgetSpent, controllerVars
    <3>4. QED
      BY <3>3 DEF CutConsistent
  <2>2. CASE c \notin peers
    BY <1>6, <2>2 DEF CutPeers, serverVars, CutConsistent
  <2>3. QED
    BY <2>1, <2>2
<1>7. ASSUME UNCHANGED <<socket, peers>>
      PROVE  CutConsistent(c)'
  BY <1>1, <1>7
<1>8. ASSUME NEW d \in Tickets,
             \/ SendRequest(d) \/ ClientReceives(d) \/ ClientLeaves(d)
             \/ WorkerSubmits(d) \/ WorkerGivesUp(d) \/ WorkerFetches(d)
             \/ WorkerAnnounces(d) \/ WorkerAnswers(d) \/ WorkerPolls(d)
             \/ WorkerStopsWaiting(d)
      PROVE  CutConsistent(c)'
  BY <1>7, <1>8 DEF SendRequest, ClientReceives, ClientLeaves,
     WorkerSubmits, WorkerGivesUp, WorkerFetches, WorkerAnnounces,
     WorkerAnswers, WorkerPolls, WorkerStopsWaiting, serverVars
<1>9. ASSUME \/ RegisterOther \/ OtherEnds \/ AcceptThreadEnds \/ OwnerStep
             \/ OutsideStep \/ DeadlinePasses \/ JoinAcceptThread
             \/ UNCHANGED endpointVars
      PROVE  CutConsistent(c)'
  BY <1>7, <1>9 DEF RegisterOther, OtherEnds, AcceptThreadEnds, OwnerStep,
     OutsideStep, DeadlinePasses, JoinAcceptThread, serverVars, peerVars,
     endpointVars
<1>10. QED
  BY <1>2, <1>3, <1>4, <1>5, <1>6, <1>8, <1>9
     DEF PeersNext, ClientStep, WorkerStep, CloseStep

\* What a step leaves of a proposal and of the cuts, for the lemmas below.
TicketKept(c) ==
    /\ ticket[c].state \in Results \cup {"rejected"} =>
         ticket'[c] = ticket[c]
    /\ ticket[c].operation # 0 =>
         ticket'[c].operation = ticket[c].operation
    /\ ticket[c].state # "idle" => ticket'[c].state # "idle"
    /\ ticket[c].state = "idle" =>
         ticket'[c] = ticket[c] \/ SubmitRestart(c)
    /\ CutOff => CutOff'

LEMMA StepKeepsTicket ==
    ASSUME PeersInv, SlotInv', [PeersNext]_endpointVars, NEW c \in Tickets
    PROVE  TicketKept(c)
<1>1. [ControllerNext]_controllerVars
  BY EndpointStep DEF endpointVars
<1>2. QED
  BY <1>1, TicketStands, CutStands DEF PeersInv, TicketKept

\* What a client was told stays told while its queue and memory stay.
LEMMA ToldKept ==
    ASSUME PeersInv, NEW c \in Tickets, TicketKept(c),
           responses'[c] = responses[c], clientOp'[c] = clientOp[c]
    PROVE  /\ Silent(c) <=> Silent(c)'
           /\ AcceptanceTold(c) => AcceptanceTold(c)'
           /\ ResultTold(c) => ResultTold(c)'
           /\ BusyTold(c) /\ ~SubmitRestart(c) => BusyTold(c)'
           /\ UnavailableTold(c) => UnavailableTold(c)'
<1>1. Silent(c) <=> Silent(c)'
  BY DEF Silent
<1>2. AcceptanceTold(c) => AcceptanceTold(c)'
  BY DEF AcceptanceTold, Acceptance, TicketKept
<1>3. ResultTold(c) => ResultTold(c)'
  BY DEF ResultTold, Acceptance, Verdict, TicketKept
<1>4. BusyTold(c) /\ ~SubmitRestart(c) => BusyTold(c)'
  BY DEF BusyTold, TicketKept
<1>5. UnavailableTold(c) => UnavailableTold(c)'
  BY DEF UnavailableTold, TicketKept
<1>6. QED
  BY <1>1, <1>2, <1>3, <1>4, <1>5

\* A client that takes no part in a step keeps its conversation; its
\* connection may be accepted, registered or closed meanwhile.
LEMMA Bystander ==
    ASSUME PeersInv, NEW c \in Tickets, TicketKept(c), ~SubmitRestart(c),
           CutConsistent(c)',
           responses'[c] = responses[c], clientOp'[c] = clientOp[c],
           client'[c] = client[c], requests'[c] = requests[c],
           seen'[c] = seen[c], acceptedSent'[c] = acceptedSent[c],
           \/ worker'[c] = worker[c]
           \/ worker[c] = "none" /\ worker'[c] = "receive",
           \/ socket'[c] = socket[c]
           \/ socket[c] \notin {"none", "closed"}
    PROVE  Conversation(c)'
<1>0. /\ ClientConsistent(c)
      /\ WorkerConsistent(c)
      /\ ToldConsistent(c)
  BY DEF PeersInv, Conversation
<1>1. ClientConsistent(c)'
  BY <1>0, ToldKept DEF ClientConsistent, TicketKept, Gone, Outcomes, Results
<1>2. WorkerConsistent(c)'
  BY <1>0 DEF WorkerConsistent, TicketKept
<1>3. ToldConsistent(c)'
  BY <1>0, ToldKept DEF ToldConsistent, TicketKept
<1>4. QED
  BY <1>1, <1>2, <1>3 DEF Conversation


\* What is known of client c before a step.
LEMMA TalkFacts ==
    ASSUME PeersInv, NEW c \in Tickets
    PROVE  /\ ClientConsistent(c)
           /\ WorkerConsistent(c)
           /\ ToldConsistent(c)
           /\ CutConsistent(c)
           /\ PeersTypeOK
           /\ worker[c] \in Workers
           /\ c \in peers <=> worker[c] \notin {"none", "gone"}
           /\ c \in peers => socket[c] \in {"open", "closed"}
           /\ socket[c] \in {"none", "backlog", "held"} => worker[c] = "none"
BY DEF PeersInv, Conversation, PeersTypeOK, EndpointInv, PeersCounted,
       SocketsConsistent

\* The steps of a client keep its own conversation.
LEMMA ClientTalks ==
    ASSUME PeersInv, NEW c \in Tickets, TicketKept(c), ~SubmitRestart(c),
           CutConsistent(c)', UNCHANGED controllerVars,
           Connect(c) \/ SendRequest(c) \/ ClientReceives(c)
             \/ ClientLeaves(c)
    PROVE  Conversation(c)'
<1>0. /\ UNCHANGED <<worker, seen, acceptedSent, ticket, main, deadlinePassed,
                     externalSignal>>
      /\ CutOff' <=> CutOff
  BY DEF Connect, SendRequest, ClientReceives, ClientLeaves, workerVars,
     mainVars, controllerVars, CutOff, BudgetSpent
<1>1. CASE Connect(c)
  <2>1. /\ client[c] = "away"
        /\ socket[c] = "none"
        /\ worker[c] = "none"
        /\ Silent(c)
        /\ requests[c] = <<>>
        /\ ticket[c].state = "idle"
    BY <1>1, TalkFacts DEF Connect, ClientConsistent
  <2>2. /\ UNCHANGED <<clientOp, requests, responses>>
        /\ \/ client'[c] = "lost" /\ socket'[c] = "none"
           \/ client'[c] = "connected" /\ socket'[c] = "backlog"
    BY <1>1, <2>1, TalkFacts DEF Connect, PeersTypeOK
  <2>3. Silent(c)' /\ responses'[c] = <<>> /\ requests'[c] = <<>>
    BY <2>1, <2>2 DEF Silent
  <2>4. ClientConsistent(c)'
    BY <1>0, <2>1, <2>2, <2>3 DEF ClientConsistent, Gone, Results
  <2>5. WorkerConsistent(c)'
    BY <1>0, <2>2, TalkFacts DEF WorkerConsistent
  <2>6. ToldConsistent(c)'
    BY <2>2 DEF ToldConsistent
  <2>7. QED
    BY <2>4, <2>5, <2>6 DEF Conversation
<1>2. CASE SendRequest(c)
  <2>1. /\ client[c] = "connected"
        /\ Silent(c)
        /\ requests[c] = <<>>
        /\ ticket[c].state = "idle"
        /\ worker[c] \in {"none", "receive", "finish", "gone"}
    BY <1>2, TalkFacts
       DEF SendRequest, ClientConsistent, WorkerConsistent, Workers
  <2>2. /\ UNCHANGED <<clientOp, socket, responses>>
        /\ \/ /\ client'[c] = "lost"
              /\ requests'[c] = <<>>
              /\ socket[c] = "closed"
           \/ client'[c] = "waiting" /\ requests'[c] = <<"restart">>
    BY <1>2, <2>1, TalkFacts, ShortQueues DEF SendRequest, PeersTypeOK
  <2>3. Silent(c)' /\ responses'[c] = <<>>
    BY <2>1, <2>2 DEF Silent
  <2>4. ClientConsistent(c)'
    BY <1>0, <2>1, <2>2, <2>3 DEF ClientConsistent, Gone, Results
  <2>5. WorkerConsistent(c)'
    BY <1>0, <2>1, <2>2, TalkFacts DEF WorkerConsistent
  <2>6. ToldConsistent(c)'
    BY <1>0, <2>1, <2>2, <2>3 DEF ToldConsistent
  <2>7. QED
    BY <2>4, <2>5, <2>6 DEF Conversation
<1>3. CASE ClientReceives(c)
  <2>0. /\ client[c] = "waiting"
        /\ UNCHANGED <<socket, serverVars>>
        /\ Acceptance(c)' = Acceptance(c)
        /\ Verdict(c)' = Verdict(c)
    BY <1>0, <1>3 DEF ClientReceives, Acceptance, Verdict
  <2>1. CASE /\ responses[c] = <<>>
             /\ socket[c] = "closed"
             /\ client' = [client EXCEPT ![c] = "lost"]
             /\ UNCHANGED <<clientOp, requests, responses>>
    <3>1. client'[c] = "lost"
      BY <2>1, TalkFacts DEF PeersTypeOK
    <3>2. ticket[c].state = "idle" \/ CutOff
      <4>1. CASE worker[c] \in {"none", "receive"}
        BY <4>1, TalkFacts DEF WorkerConsistent
      <4>2. CASE worker[c] \in {"fetch", "act", "ack"}
        BY <2>1, <4>2, TalkFacts DEF CutConsistent
      <4>3. CASE worker[c] \in {"finish", "gone"}
        <5>1. ~ResultTold(c) /\ ~BusyTold(c) /\ ~UnavailableTold(c)
          BY <2>1, ShortQueues DEF ResultTold, BusyTold, UnavailableTold
        <5>2. QED
          BY <2>0, <4>3, <5>1, TalkFacts DEF ToldConsistent
      <4>4. QED
        BY <4>1, <4>2, <4>3, TalkFacts DEF Workers
    <3>3. ClientConsistent(c)'
      BY <1>0, <2>0, <2>1, <3>1, <3>2 DEF ClientConsistent, Gone, Results
    <3>4. WorkerConsistent(c)'
      BY <1>0, <2>1, TalkFacts DEF WorkerConsistent
    <3>5. ToldConsistent(c)'
      BY <3>1 DEF ToldConsistent
    <3>6. QED
      BY <3>3, <3>4, <3>5 DEF Conversation
  <2>2. CASE /\ AcceptanceTold(c) \/ ResultTold(c)
             /\ clientOp[c] = 0
             /\ client' = [client EXCEPT ![c] = "waiting"]
             /\ clientOp' = [clientOp EXCEPT ![c] = ticket[c].operation]
             /\ responses' =
                  [responses EXCEPT
                     ![c] = IF responses[c] = <<Acceptance(c)>>
                              THEN <<>> ELSE <<Verdict(c)>>]
             /\ responses[c] \in {<<Acceptance(c)>>,
                                  <<Acceptance(c), Verdict(c)>>}
             /\ UNCHANGED requests
    <3>1. /\ client'[c] = "waiting"
          /\ clientOp'[c] = ticket[c].operation
          /\ responses[c] # <<>>
          /\ responses'[c] = IF responses[c] = <<Acceptance(c)>>
                               THEN <<>> ELSE <<Verdict(c)>>
      <4>1. PeersTypeOK
        BY TalkFacts
      <4>2. client'[c] = "waiting" /\ clientOp'[c] = ticket[c].operation
        BY <2>2, <4>1 DEF PeersTypeOK
      <4>3. responses'[c] = IF responses[c] = <<Acceptance(c)>>
                              THEN <<>> ELSE <<Verdict(c)>>
        BY <2>2, <4>1 DEF PeersTypeOK
      <4>4. responses[c] # <<>>
        BY <2>2, ShortQueues
      <4>5. QED
        BY <4>2, <4>3, <4>4
    <3>2. ticket[c].operation # 0
      BY <2>2, TicketFields DEF AcceptanceTold, ResultTold
    <3>3. <<Acceptance(c)>> # <<Acceptance(c), Verdict(c)>>
      BY ShortQueues
    <3>4. CASE responses[c] = <<Acceptance(c)>>
      <4>1. AcceptanceTold(c)'
        BY <1>0, <3>1, <3>2, <3>4 DEF AcceptanceTold
      <4>2. ~ResultTold(c) /\ ~BusyTold(c) /\ ~UnavailableTold(c)
              /\ ~Silent(c)
        BY <2>2, <3>1, <3>2, <3>3, <3>4, TicketFields
           DEF ResultTold, BusyTold, UnavailableTold, Silent
      <4>3. ToldConsistent(c)'
        BY <1>0, <2>0, <2>2, <4>1, <4>2, TalkFacts DEF ToldConsistent
      <4>4. QED
        BY <1>0, <2>0, <2>2, <3>1, <4>3, TalkFacts
           DEF Conversation, ClientConsistent, WorkerConsistent, Gone,
               Outcomes, Results
    <3>5. CASE responses[c] = <<Acceptance(c), Verdict(c)>>
      <4>1. ResultTold(c)
        BY <2>2, <3>2, <3>3, <3>5, TalkFacts, ShortQueues
           DEF AcceptanceTold
      <4>2. ResultTold(c)'
        BY <1>0, <2>0, <3>1, <3>3, <3>5, <4>1 DEF ResultTold
      <4>3. ~AcceptanceTold(c) /\ ~Silent(c)
        BY <2>2, <3>1, <3>2, <3>3, <3>5 DEF AcceptanceTold, Silent
      <4>4. ToldConsistent(c)'
        BY <1>0, <2>0, <2>2, <4>2, <4>3, TalkFacts DEF ToldConsistent
      <4>5. QED
        BY <1>0, <2>0, <2>2, <3>1, <4>4, TalkFacts
           DEF Conversation, ClientConsistent, WorkerConsistent, Gone,
               Outcomes, Results
    <3>6. QED
      BY <2>2, <3>4, <3>5
  <2>3. CASE /\ ResultTold(c)
             /\ clientOp[c] = ticket[c].operation
             /\ client' = [client EXCEPT ![c] = ticket[c].state]
             /\ \/ UNCHANGED requests
                \/ requests' =
                     [requests EXCEPT ![c] = Append(requests[c], "ack")]
             /\ responses' = [responses EXCEPT ![c] = <<>>]
             /\ UNCHANGED clientOp
    <3>1. /\ client'[c] = ticket[c].state
          /\ responses'[c] = <<>>
          /\ clientOp'[c] = ticket[c].operation
          /\ ticket[c].state \in Results
      BY <2>3, TalkFacts DEF PeersTypeOK, ResultTold
    <3>2. ticket[c] = [state |-> ticket[c].state,
                       operation |-> ticket[c].operation]
      BY TicketFields
    <3>3. ClientConsistent(c)'
      BY <1>0, <3>1, <3>2 DEF ClientConsistent, Results
    <3>4. WorkerConsistent(c)'
      BY <1>0, <3>1, TalkFacts DEF WorkerConsistent, Results
    <3>5. ToldConsistent(c)'
      BY <3>1 DEF ToldConsistent, Results
    <3>6. QED
      BY <3>3, <3>4, <3>5 DEF Conversation
  <2>4. CASE /\ \/ /\ BusyTold(c)
                   /\ client' = [client EXCEPT ![c] = "busy"]
                \/ /\ UnavailableTold(c)
                   /\ client' = [client EXCEPT ![c] = "unavailable"]
             /\ responses' = [responses EXCEPT ![c] = <<>>]
             /\ UNCHANGED <<clientOp, requests>>
    <3>1. /\ responses'[c] = <<>>
          /\ \/ client'[c] = "busy" /\ ticket[c].state = "idle"
             \/ client'[c] = "unavailable" /\ ticket[c].state = "rejected"
      BY <2>4, TalkFacts DEF PeersTypeOK, BusyTold, UnavailableTold
    <3>2. responses[c] # <<>>
      BY <2>4, ShortQueues DEF BusyTold, UnavailableTold
    <3>3. client'[c] = "busy" => worker[c] \in {"finish", "gone"}
      BY <2>0, <3>1, <3>2, TalkFacts
         DEF ToldConsistent, WorkerConsistent, Workers, Silent
    <3>4. ClientConsistent(c)'
      BY <1>0, <3>1, <3>3 DEF ClientConsistent, Results
    <3>5. WorkerConsistent(c)'
      BY <1>0, <2>4, TalkFacts DEF WorkerConsistent
    <3>6. ToldConsistent(c)'
      BY <3>1 DEF ToldConsistent
    <3>7. QED
      BY <3>4, <3>5, <3>6 DEF Conversation
  <2>5. QED
    BY <1>3, <2>1, <2>2, <2>3, <2>4, ClientHears
<1>4. CASE ClientLeaves(c)
  <2>1. /\ client'[c] = "interrupted"
        /\ responses'[c] = <<>>
        /\ UNCHANGED <<clientOp, socket, requests>>
    BY <1>4, TalkFacts DEF ClientLeaves, PeersTypeOK
  <2>2. QED
    BY <1>0, <2>1, TalkFacts DEF Conversation, ClientConsistent,
       WorkerConsistent, ToldConsistent, Gone, Results
<1>5. QED
  BY <1>1, <1>2, <1>3, <1>4


\* The last place of a worker whose answer could not be sent: a client that
\* still waits has been cut off.
LEMMA UnsentIsCut ==
    ASSUME PeersInv, NEW c \in Tickets, ~CanSend(c), client[c] = "waiting",
           worker[c] \in {"fetch", "act", "ack"}
    PROVE  CutOff
<1>1. ~Gone(c)
  BY DEF Gone, Outcomes
<1>2. socket[c] = "closed" /\ c \in peers
  BY <1>1, TalkFacts DEF CanSend
<1>3. QED
  BY <1>2, TalkFacts DEF CutConsistent

\* A worker that gives up its client because it is gone or cut off ends the
\* conversation as it stands.
LEMMA WorkerLeavesOff ==
    ASSUME PeersInv, NEW c \in Tickets, TicketKept(c), ~SubmitRestart(c),
           worker[c] \in {"fetch", "act"},
           client[c] = "waiting" => CutOff,
           worker'[c] = "finish",
           UNCHANGED <<client, clientOp, requests, responses, socket>>
    PROVE  /\ ClientConsistent(c)'
           /\ WorkerConsistent(c)'
           /\ ToldConsistent(c)'
<1>1. ClientConsistent(c)'
  BY TalkFacts, ToldKept DEF ClientConsistent, TicketKept, Gone, Outcomes,
     Results
<1>2. WorkerConsistent(c)'
  BY DEF WorkerConsistent
<1>3. ToldConsistent(c)'
  BY TalkFacts, ToldKept DEF ToldConsistent, TicketKept
<1>4. QED
  BY <1>1, <1>2, <1>3

\* The steps of a worker keep the conversation with its client.
LEMMA WorkerTalks ==
    ASSUME PeersInv, SlotInv', NEW c \in Tickets, TicketKept(c),
           CutConsistent(c)', WorkerStep(c)
    PROVE  Conversation(c)'
<1>0. /\ UNCHANGED <<client, clientOp, main>>
      /\ CutOff => CutOff'
  <2>1. UNCHANGED <<client, clientOp, main>>
    BY DEF WorkerStep, WorkerSubmits, WorkerGivesUp, WorkerFetches,
       WorkerAnnounces, WorkerAnswers, WorkerPolls, WorkerStopsWaiting,
       WorkerEnds, clientVars, mainVars
  <2>2. QED
    BY <2>1 DEF TicketKept
<1>1. CASE WorkerSubmits(c)
  <2>1. /\ worker[c] = "receive"
        /\ socket[c] = "open"
        /\ requests[c] = <<"restart">>
        /\ ticket[c].state = "idle"
        /\ ~acceptedSent[c]
        /\ client[c] \in {"waiting", "interrupted"}
        /\ client[c] = "waiting" => Silent(c)
    <3>1. /\ worker[c] = "receive"
          /\ socket[c] = "open"
          /\ requests[c] # <<>>
      BY <1>1 DEF WorkerSubmits
    <3>2. client[c] \in {"waiting", "interrupted"}
      <4>1. ticket[c].state = "idle"
        BY <3>1, TalkFacts DEF WorkerConsistent
      <4>2. client[c] \notin Results
        <5>1. ASSUME client[c] \in Results
              PROVE  ticket[c].state = client[c]
          <6>1. ticket[c] = [state |-> client[c], operation |-> clientOp[c]]
            BY <5>1, TalkFacts DEF ClientConsistent
          <6>2. QED
            BY <6>1
        <5>2. QED
          BY <4>1, <5>1 DEF Results
      <4>3. client[c] \notin {"away", "connected", "busy", "unavailable",
                             "lost", "invalid"}
        BY <3>1, <4>1, TalkFacts DEF ClientConsistent
      <4>4. QED
        BY <4>2, <4>3, TalkFacts DEF PeersTypeOK, Outcomes, Results
    <3>3. QED
      BY <3>1, <3>2, TalkFacts DEF WorkerConsistent, ToldConsistent
  <2>2. /\ requests'[c] = <<>>
        /\ UNCHANGED <<socket, seen, acceptedSent>>
    BY <1>1, <2>1, TalkFacts, ShortQueues DEF WorkerSubmits, PeersTypeOK
  <2>3. CASE SubmitRestart(c) /\ MoveWorker(c, "fetch")
               /\ UNCHANGED responses
    <3>1. /\ worker'[c] = "fetch"
          /\ ticket'[c].state = "pending"
      BY <2>3, TalkFacts, SubmitMovesOne
         DEF MoveWorker, PeersTypeOK, MovesOne, PeersInv, SlotInv
    <3>2. responses'[c] = responses[c] /\ clientOp'[c] = clientOp[c]
      BY <1>0, <2>3
    <3>3. client[c] = "waiting" => Silent(c)'
      BY <2>1, <3>2 DEF Silent
    <3>4. QED
      BY <1>0, <2>1, <2>2, <3>1, <3>2, <3>3, TalkFacts
         DEF Conversation, ClientConsistent, WorkerConsistent,
             ToldConsistent, Gone, Outcomes, Results
  <2>4. CASE /\ SlotTaken
             /\ IF CanSend(c)
                  THEN Send(c, Frame("error", operation, "busy"))
                  ELSE UNCHANGED responses
             /\ MoveWorker(c, "finish")
             /\ UNCHANGED controllerVars
    <3>1. worker'[c] = "finish" /\ ticket' = ticket
      BY <2>4, TalkFacts DEF MoveWorker, PeersTypeOK, controllerVars
    <3>2. CASE client[c] = "waiting"
      <4>1. CanSend(c)
        BY <2>1, <3>2 DEF CanSend, Gone, Outcomes
      <4>2. responses'[c] = <<Frame("error", operation, "busy")>>
        BY <2>1, <2>4, <3>2, <4>1, TalkFacts, ShortQueues
           DEF Send, PeersTypeOK, Silent
      <4>3. operation \in Nat
        BY DEF PeersInv, SlotInv, TypeOK
      <4>4. BusyTold(c)'
        BY <1>0, <2>1, <3>1, <3>2, <4>2, <4>3 DEF BusyTold, Silent
      <4>5. QED
        BY <1>0, <2>1, <2>2, <3>1, <3>2, <4>4
           DEF Conversation, ClientConsistent, WorkerConsistent,
               ToldConsistent, Gone, Outcomes, Results
    <3>3. CASE client[c] = "interrupted"
      <4>1. responses'[c] = <<>>
        BY <2>4, <3>3, TalkFacts
           DEF CanSend, Gone, Outcomes, ClientConsistent
      <4>2. QED
        BY <1>0, <2>2, <3>1, <3>3, <4>1
           DEF Conversation, ClientConsistent, WorkerConsistent,
               ToldConsistent, Results
    <3>4. QED
      BY <2>1, <3>2, <3>3
  <2>5. QED
    BY <1>1, <2>3, <2>4 DEF WorkerSubmits
<1>2. ASSUME ~SubmitRestart(c), WorkerGivesUp(c)
      PROVE  Conversation(c)'
  <2>1. /\ worker[c] = "receive"
        /\ worker'[c] = "finish"
        /\ UNCHANGED <<ticket, socket, requests, responses, seen,
                       acceptedSent>>
    BY <1>2, TalkFacts
       DEF WorkerGivesUp, MoveWorker, PeersTypeOK, controllerVars
  <2>2. Silent(c)' <=> Silent(c)
    BY <1>0, <2>1 DEF Silent
  <2>3. QED
    BY <1>0, <2>1, <2>2, TalkFacts
       DEF Conversation, ClientConsistent, WorkerConsistent, ToldConsistent,
           Gone, Results
<1>3. ASSUME ~SubmitRestart(c), WorkerFetches(c)
      PROVE  Conversation(c)'
  <2>1. /\ worker[c] = "fetch"
        /\ worker'[c] = "act"
        /\ seen'[c] = ticket[c]
        /\ UNCHANGED <<ticket, socket, requests, responses, acceptedSent>>
    BY <1>3, TalkFacts
       DEF WorkerFetches, MoveWorker, PeersTypeOK, controllerVars
  <2>2. /\ Silent(c) <=> Silent(c)'
        /\ AcceptanceTold(c) => AcceptanceTold(c)'
    BY <1>0, <1>3, <2>1, ToldKept
  <2>3. ClientConsistent(c)'
    BY <1>0, <2>1, <2>2, TalkFacts DEF ClientConsistent, Gone, Results
  <2>4. WorkerConsistent(c)'
    BY <1>0, <2>1, TalkFacts, TicketFields DEF WorkerConsistent
  <2>5. ToldConsistent(c)'
    BY <1>0, <2>1, <2>2, TalkFacts DEF ToldConsistent
  <2>6. QED
    BY <2>3, <2>4, <2>5 DEF Conversation
<1>4. ASSUME ~SubmitRestart(c), WorkerAnnounces(c)
      PROVE  Conversation(c)'
  <2>1. /\ worker[c] = "act"
        /\ acceptedSent'[c] = TRUE
        /\ seen[c].operation # 0
        /\ ticket[c].operation # 0
        /\ seen[c].operation = ticket[c].operation
        /\ ~acceptedSent[c]
        /\ UNCHANGED <<socket, requests, seen>>
    BY <1>4, TalkFacts
       DEF WorkerAnnounces, Announces, PeersTypeOK, WorkerConsistent
  <2>2. CASE /\ CanSend(c)
             /\ Send(c, Frame("accepted", seen[c].operation, "none"))
             /\ MoveWorker(c, "act")
             /\ UNCHANGED controllerVars
    <3>1. /\ worker'[c] = "act"
          /\ ticket' = ticket
      BY <2>2, TalkFacts DEF MoveWorker, PeersTypeOK, controllerVars
    <3>2. client[c] = "waiting" /\ Silent(c)
      <4>1. client[c] = "waiting"
        BY <2>1, <2>2, TalkFacts
           DEF CanSend, Gone, PeersTypeOK, ClientConsistent,
               WorkerConsistent
      <4>2. QED
        BY <2>1, <4>1, TalkFacts DEF ToldConsistent
    <3>3. responses'[c] = <<Acceptance(c)>>
      BY <2>1, <2>2, <3>2, TalkFacts, ShortQueues
         DEF Send, PeersTypeOK, Silent, Acceptance
    <3>4. AcceptanceTold(c)'
      BY <1>0, <2>1, <3>1, <3>2, <3>3
         DEF AcceptanceTold, Acceptance, Silent
    <3>5. ClientConsistent(c)'
      BY <1>0, <2>1, <3>1, <3>2
         DEF ClientConsistent, Gone, Outcomes, Results
    <3>6. WorkerConsistent(c)'
      BY <1>0, <2>1, <3>1, TalkFacts DEF WorkerConsistent
    <3>7. ToldConsistent(c)'
      BY <1>0, <2>1, <3>1, <3>2, <3>4, TalkFacts DEF ToldConsistent
    <3>8. QED
      BY <3>5, <3>6, <3>7 DEF Conversation
  <2>3. CASE ~CanSend(c) /\ Withdraw(c) /\ MoveWorker(c, "finish")
               /\ UNCHANGED responses
    <3>1. worker'[c] = "finish"
      BY <2>3, TalkFacts DEF MoveWorker, PeersTypeOK
    <3>2. client[c] = "waiting" => CutOff
      BY <2>1, <2>3, UnsentIsCut
    <3>3. QED
      BY <1>0, <1>4, <2>1, <2>3, <3>1, <3>2, WorkerLeavesOff
         DEF Conversation
  <2>4. QED
    BY <1>4, <2>2, <2>3 DEF WorkerAnnounces, SendOrGiveUp
<1>5. ASSUME ~SubmitRestart(c), WorkerAnswers(c)
      PROVE  Conversation(c)'
  <2>1. /\ worker[c] = "act"
        /\ ~Announces(c)
        /\ UNCHANGED <<socket, requests, seen, acceptedSent>>
    BY <1>5 DEF WorkerAnswers
  <2>2. CASE ~CanSend(c) /\ Withdraw(c) /\ MoveWorker(c, "finish")
               /\ UNCHANGED responses
    <3>1. worker'[c] = "finish"
      BY <2>2, TalkFacts DEF MoveWorker, PeersTypeOK
    <3>2. client[c] = "waiting" => CutOff
      BY <2>1, <2>2, UnsentIsCut
    <3>3. QED
      BY <1>0, <1>5, <2>1, <2>2, <3>1, <3>2, WorkerLeavesOff
         DEF Conversation
  <2>3. CanSend(c) => client[c] = "waiting"
    BY <2>1, TalkFacts
       DEF CanSend, Gone, PeersTypeOK, ClientConsistent, WorkerConsistent
  <2>4. CASE /\ seen[c].state \in Results
             /\ CanSend(c)
             /\ Send(c, TerminalFrame(c))
             /\ MoveWorker(c, "ack")
             /\ UNCHANGED controllerVars
    <3>1. worker'[c] = "ack" /\ ticket' = ticket
      BY <2>4, TalkFacts DEF MoveWorker, PeersTypeOK, controllerVars
    <3>2. /\ seen[c] = ticket[c]
          /\ ticket[c].state \in Results
          /\ acceptedSent[c]
      BY <2>1, <2>4, TalkFacts DEF WorkerConsistent, Announces
    <3>3. AcceptanceTold(c) /\ client[c] = "waiting"
      BY <2>1, <2>3, <2>4, <3>2, TalkFacts DEF ToldConsistent
    <3>4. responses'[c] = Append(responses[c], Verdict(c))
      BY <2>4, <3>2, TalkFacts
         DEF Send, PeersTypeOK, TerminalFrame, Verdict
    <3>5. Acceptance(c)' = Acceptance(c) /\ Verdict(c)' = Verdict(c)
      BY <3>1 DEF Acceptance, Verdict
    <3>6. ResultTold(c)'
      <4>1. /\ ticket'[c].state \in Results
            /\ clientOp' = clientOp /\ ticket'[c] = ticket[c]
        BY <1>0, <2>4, <3>1, <3>2 DEF WorkerAnswers, clientVars
      <4>2. \/ /\ responses'[c] = <<Acceptance(c), Verdict(c)>>
               /\ clientOp[c] = 0
            \/ /\ responses'[c] = <<Verdict(c)>>
               /\ clientOp[c] = ticket[c].operation
        BY <3>3, <3>4, ShortQueues DEF AcceptanceTold
      <4>3. QED
        BY <3>5, <4>1, <4>2 DEF ResultTold
    <3>7. QED
      BY <1>0, <2>1, <3>1, <3>3, <3>6, TalkFacts
         DEF Conversation, ClientConsistent, WorkerConsistent,
             ToldConsistent, Gone, Outcomes, Results
  <2>5. CASE /\ seen[c].state = "rejected"
             /\ CanSend(c)
             /\ Send(c, Frame("error", 0, "unavailable"))
             /\ MoveWorker(c, "finish")
             /\ UNCHANGED controllerVars
    <3>1. worker'[c] = "finish" /\ ticket' = ticket
      BY <2>5, TalkFacts DEF MoveWorker, PeersTypeOK, controllerVars
    <3>2. /\ ticket[c].state = "rejected"
          /\ ~acceptedSent[c]
      BY <2>1, <2>5, TalkFacts, TicketFields DEF WorkerConsistent
    <3>3. Silent(c) /\ client[c] = "waiting"
      BY <2>1, <2>3, <2>5, <3>2, TalkFacts DEF ToldConsistent
    <3>4. responses'[c] = <<Frame("error", 0, "unavailable")>>
      BY <2>5, <3>3, TalkFacts, ShortQueues DEF Send, PeersTypeOK, Silent
    <3>5. UnavailableTold(c)'
      BY <1>0, <3>1, <3>2, <3>3, <3>4 DEF UnavailableTold, Silent
    <3>6. QED
      BY <1>0, <2>1, <3>1, <3>3, <3>5, TalkFacts
         DEF Conversation, ClientConsistent, WorkerConsistent,
             ToldConsistent, Gone, Outcomes, Results
  <2>6. QED
    BY <1>5, <2>2, <2>4, <2>5 DEF WorkerAnswers, SendOrGiveUp
<1>6. ASSUME ~SubmitRestart(c), WorkerPolls(c)
      PROVE  Conversation(c)'
  <2>1. /\ worker[c] = "act"
        /\ UNCHANGED <<socket, requests, responses, seen, acceptedSent>>
    BY <1>6 DEF WorkerPolls
  <2>2. CASE HasInputOrEof(c)
    <3>1. worker'[c] = "finish"
      BY <1>6, <2>2, TalkFacts DEF WorkerPolls, MoveWorker, PeersTypeOK
    <3>2. client[c] = "waiting" => CutOff
      BY <2>1, <2>2, TalkFacts
         DEF HasInputOrEof, ToldConsistent, Gone, Outcomes, CutConsistent
    <3>3. QED
      BY <1>0, <1>6, <2>1, <3>1, <3>2, WorkerLeavesOff DEF Conversation
  <2>3. CASE ~HasInputOrEof(c)
    <3>1. worker'[c] = "fetch" /\ ticket' = ticket
      BY <1>6, <2>3, TalkFacts
         DEF WorkerPolls, MoveWorker, PeersTypeOK, controllerVars
    <3>2. /\ Silent(c) <=> Silent(c)'
          /\ AcceptanceTold(c) => AcceptanceTold(c)'
      BY <1>0, <1>6, <2>1, ToldKept
    <3>3. QED
      BY <1>0, <2>1, <3>1, <3>2, TalkFacts
         DEF Conversation, ClientConsistent, WorkerConsistent,
             ToldConsistent, Gone, Results
  <2>4. QED
    BY <2>2, <2>3
<1>7. ASSUME ~SubmitRestart(c), WorkerStopsWaiting(c)
      PROVE  Conversation(c)'
  <2>1. /\ worker[c] = "ack"
        /\ worker'[c] = "finish"
        /\ UNCHANGED <<ticket, socket, requests, responses, seen,
                       acceptedSent>>
    BY <1>7, TalkFacts
       DEF WorkerStopsWaiting, MoveWorker, PeersTypeOK, controllerVars
  <2>2. ResultTold(c) => ResultTold(c)'
    BY <1>0, <1>7, <2>1, ToldKept
  <2>3. QED
    BY <1>0, <2>1, <2>2, TalkFacts
       DEF Conversation, ClientConsistent, WorkerConsistent,
           ToldConsistent, Gone, Results, Silent
<1>8. ASSUME ~SubmitRestart(c), WorkerEnds(c)
      PROVE  Conversation(c)'
  <2>1. /\ worker[c] = "finish"
        /\ worker'[c] = "gone"
        /\ socket'[c] = "closed"
        /\ requests'[c] = <<>>
        /\ UNCHANGED <<ticket, responses>>
    BY <1>8, TalkFacts
       DEF WorkerEnds, MoveWorker, PeersTypeOK, controllerVars
  <2>2. client[c] # "away"
    BY <2>1, TalkFacts DEF ClientConsistent
  <2>3. /\ Silent(c) <=> Silent(c)'
        /\ AcceptanceTold(c) => AcceptanceTold(c)'
        /\ ResultTold(c) => ResultTold(c)'
        /\ BusyTold(c) => BusyTold(c)'
        /\ UnavailableTold(c) => UnavailableTold(c)'
    BY <1>0, <1>8, <2>1, ToldKept
  <2>4. ClientConsistent(c)'
    BY <1>0, <2>1, <2>2, <2>3, TalkFacts DEF ClientConsistent, Gone, Results
  <2>5. WorkerConsistent(c)'
    BY <2>1 DEF WorkerConsistent
  <2>6. ToldConsistent(c)'
    BY <1>0, <2>1, <2>3, TalkFacts DEF ToldConsistent
  <2>7. QED
    BY <2>4, <2>5, <2>6 DEF Conversation
<1>9. ~WorkerSubmits(c) => ~SubmitRestart(c)
  <2>1. SubmitRestart(c) => /\ ticket[c].state = "idle"
                            /\ ticket' # ticket
    <3>1. SubmitRestart(c) => /\ ticket[c].state = "idle"
                              /\ ticket'[c].state = "pending"
      BY SubmitMovesOne DEF SubmitRestart, MovesOne, PeersInv, SlotInv
    <3>2. QED
      BY <3>1
  <2>2. worker[c] \in {"fetch", "act", "ack"} => ticket[c].state # "idle"
    BY TalkFacts DEF WorkerConsistent
  <2>3. worker[c] \in {"fetch", "act", "ack"} \/ WorkerSubmits(c)
          \/ ticket' = ticket
    BY DEF WorkerStep, WorkerGivesUp, WorkerFetches, WorkerAnnounces,
       WorkerAnswers, WorkerPolls, WorkerStopsWaiting, WorkerEnds,
       controllerVars
  <2>4. QED
    BY <2>1, <2>2, <2>3
<1>10. QED
  BY <1>1, <1>2, <1>3, <1>4, <1>5, <1>6, <1>7, <1>8, <1>9 DEF WorkerStep


\* Every step keeps every conversation.
LEMMA ConversationStep ==
    ASSUME PeersInv, SlotInv', PeersTypeOK', [PeersNext]_endpointVars,
           NEW c \in Tickets
    PROVE  Conversation(c)'
<1>0. /\ TicketKept(c)
      /\ CutConsistent(c)'
      /\ PeersTypeOK
      /\ ticket[c].state # "idle" \/ ticket'[c] = ticket[c]
           => ~SubmitRestart(c)
  <2>1. SubmitRestart(c) => /\ ticket[c].state = "idle"
                            /\ ticket'[c].state = "pending"
    BY SubmitMovesOne DEF SubmitRestart, MovesOne, PeersInv, SlotInv
  <2>2. QED
    BY <2>1, StepKeepsTicket, CutStep DEF PeersInv
<1>1. ASSUME \/ Connect(c) \/ SendRequest(c) \/ ClientReceives(c)
             \/ ClientLeaves(c)
      PROVE  Conversation(c)'
  <2>1. UNCHANGED controllerVars
    BY <1>1 DEF Connect, SendRequest, ClientReceives, ClientLeaves
  <2>2. QED
    BY <1>0, <1>1, <2>1, ClientTalks DEF controllerVars
<1>2. ASSUME WorkerStep(c)
      PROVE  Conversation(c)'
  BY <1>0, <1>2, WorkerTalks
<1>3. ASSUME ~SubmitRestart(c),
             responses'[c] = responses[c], clientOp'[c] = clientOp[c],
             client'[c] = client[c], requests'[c] = requests[c],
             seen'[c] = seen[c], acceptedSent'[c] = acceptedSent[c],
             \/ worker'[c] = worker[c]
             \/ worker[c] = "none" /\ worker'[c] = "receive",
             \/ socket'[c] = socket[c]
             \/ socket[c] \notin {"none", "closed"}
      PROVE  Conversation(c)'
  BY <1>0, <1>3, Bystander
<1>4. ASSUME NEW d \in Tickets \ {c},
             \/ Connect(d) \/ SendRequest(d) \/ ClientReceives(d)
             \/ ClientLeaves(d)
      PROVE  Conversation(c)'
  <2>1. UNCHANGED <<controllerVars, workerVars>>
    BY <1>4 DEF Connect, SendRequest, ClientReceives, ClientLeaves
  <2>2. /\ client'[c] = client[c] /\ clientOp'[c] = clientOp[c]
        /\ requests'[c] = requests[c] /\ responses'[c] = responses[c]
        /\ socket'[c] = socket[c]
    BY <1>0, <1>4 DEF Connect, SendRequest, ClientReceives, ClientLeaves,
       PeersTypeOK
  <2>3. QED
    BY <1>0, <1>3, <2>1, <2>2 DEF controllerVars, workerVars
<1>5. ASSUME NEW d \in Tickets \ {c}, WorkerStep(d)
      PROVE  Conversation(c)'
  <2>1. /\ UNCHANGED clientVars
        /\ requests'[c] = requests[c] /\ responses'[c] = responses[c]
        /\ socket'[c] = socket[c]
        /\ worker'[c] = worker[c] /\ seen'[c] = seen[c]
        /\ acceptedSent'[c] = acceptedSent[c]
    <3>1. CASE WorkerSubmits(d)
      BY <1>0, <1>5, <3>1
         DEF WorkerSubmits, Send, MoveWorker, workerVars, PeersTypeOK
    <3>2. CASE WorkerAnnounces(d) \/ WorkerAnswers(d)
      <4>1. UNCHANGED <<clientVars, requests, socket, seen>>
        BY <3>2 DEF WorkerAnnounces, WorkerAnswers
      <4>2. acceptedSent'[c] = acceptedSent[c]
        BY <1>0, <1>5, <3>2 DEF WorkerAnnounces, WorkerAnswers, PeersTypeOK
      <4>3. /\ \/ responses' = responses
               \/ \E f : responses' = [responses EXCEPT
                                         ![d] = Append(responses[d], f)]
            /\ \E w : worker' = [worker EXCEPT ![d] = w]
        BY <3>2 DEF WorkerAnnounces, WorkerAnswers, SendOrGiveUp, Send,
           MoveWorker
      <4>4. responses'[c] = responses[c] /\ worker'[c] = worker[c]
        BY <1>0, <1>5, <4>3 DEF PeersTypeOK
      <4>5. QED
        BY <4>1, <4>2, <4>4
    <3>3. CASE \/ WorkerGivesUp(d) \/ WorkerFetches(d) \/ WorkerPolls(d)
               \/ WorkerStopsWaiting(d)
      BY <1>0, <1>5, <3>3
         DEF WorkerGivesUp, WorkerFetches, WorkerPolls, WorkerStopsWaiting,
             MoveWorker, workerVars, PeersTypeOK
    <3>4. CASE WorkerEnds(d)
      BY <1>0, <1>5, <3>4 DEF WorkerEnds, MoveWorker, workerVars, PeersTypeOK
    <3>5. QED
      BY <1>5, <3>1, <3>2, <3>3, <3>4 DEF WorkerStep
  <2>2. ~SubmitRestart(c)
    <3>1. SubmitRestart(d) \/ Withdraw(d) \/ UNCHANGED controllerVars
      BY <1>5
         DEF WorkerStep, WorkerSubmits, WorkerGivesUp, WorkerFetches,
             WorkerAnnounces, WorkerAnswers, WorkerPolls,
             WorkerStopsWaiting, WorkerEnds, SendOrGiveUp
    <3>2. SubmitRestart(d) \/ WithdrawRestart(d) \/ UNCHANGED controllerVars
      BY <3>1 DEF Withdraw
    <3>3. ticket'[c] = ticket[c]
      BY <1>5, <3>2, SubmitMovesOne, WithdrawMovesOne
         DEF MovesOne, PeersInv, SlotInv, controllerVars
    <3>4. QED
      BY <1>0, <3>3
  <2>3. QED
    BY <1>3, <2>1, <2>2 DEF clientVars
<1>6. ASSUME NEW d \in Tickets, AcceptPeer(d)
      PROVE  Conversation(c)'
  <2>1. /\ UNCHANGED <<controllerVars, clientVars, requests, responses,
                       workerVars>>
        /\ socket'[c] = socket[c] \/ socket[c] = "backlog"
    BY <1>0, <1>6 DEF AcceptPeer, PeersTypeOK
  <2>2. QED
    BY <1>0, <1>3, <2>1 DEF controllerVars, clientVars, workerVars
<1>7. ASSUME RegisterPeer
      PROVE  Conversation(c)'
  <2>1. accepting \in Tickets /\ socket[accepting] = "held"
          /\ worker[accepting] = "none"
    BY <1>7 DEF RegisterPeer, PeersInv, EndpointInv, EndpointTypes,
       SocketsConsistent
  <2>2. /\ UNCHANGED <<controllerVars, clientVars, requests, responses, seen,
                       acceptedSent>>
        /\ socket'[c] = socket[c] \/ socket[c] = "held"
        /\ \/ worker'[c] = worker[c]
           \/ worker[c] = "none" /\ worker'[c] = "receive"
    BY <1>0, <1>7, <2>1 DEF RegisterPeer, PeersTypeOK
  <2>3. QED
    BY <1>0, <1>3, <2>2 DEF controllerVars, clientVars
<1>8. ASSUME \/ RegisterOther \/ OtherEnds \/ AcceptThreadEnds
             \/ DeadlinePasses \/ JoinAcceptThread \/ UNCHANGED endpointVars
      PROVE  Conversation(c)'
  <2>1. UNCHANGED <<controllerVars, clientVars, socket, requests, responses,
                    workerVars>>
    BY <1>8 DEF RegisterOther, OtherEnds, AcceptThreadEnds, DeadlinePasses,
       JoinAcceptThread, endpointVars, peerVars
  <2>2. QED
    BY <1>0, <1>3, <2>1 DEF controllerVars, clientVars, workerVars
<1>9. ASSUME StopAccepting
      PROVE  Conversation(c)'
  <2>1. /\ UNCHANGED <<controllerVars, clientVars, requests, responses,
                       workerVars>>
        /\ socket'[c] = socket[c] \/ socket[c] = "backlog"
    BY <1>9 DEF StopAccepting
  <2>2. QED
    BY <1>0, <1>3, <2>1 DEF controllerVars, clientVars, workerVars
<1>10. ASSUME CutPeers
       PROVE  Conversation(c)'
  <2>1. /\ UNCHANGED <<controllerVars, clientVars, requests, responses,
                       workerVars>>
        /\ socket'[c] = socket[c] \/ socket[c] \in {"open", "closed"}
    BY <1>10, TalkFacts DEF CutPeers, ConnectionsAfterClose
  <2>2. socket[c] = "closed" => socket'[c] = socket[c]
    BY <1>10 DEF CutPeers, ConnectionsAfterClose
  <2>3. QED
    BY <1>0, <1>3, <2>1, <2>2 DEF controllerVars, clientVars, workerVars
<1>11. ASSUME OwnerStep \/ OutsideStep
       PROVE  Conversation(c)'
  <2>1. UNCHANGED peerVars
    BY <1>11 DEF OwnerStep, OutsideStep
  <2>2. pending' = pending \/ pending' = NoTicket
    BY <1>11
       DEF OwnerStep, OutsideStep, ObserveRuntimeFailure,
           ObserveExternalSignal, InterruptPublication, InterruptRejection,
           BeginInitialAdmission, MarkInitialGenerationRunning,
           AcceptPending, DeclinePending, EmptySlot,
           AllocateRestartSuccessor, DenyRestartSuccessor,
           CommitRestartTerminal, PublishCommitted,
           ReleaseSuccessfulRestart, MarkGenerationTerminal,
           MarkExternalShutdown
  <2>3. ~SubmitRestart(c)
    BY <2>2 DEF SubmitRestart
  <2>4. QED
    BY <1>3, <2>1, <2>3 DEF peerVars, clientVars, workerVars
<1>12. QED
  BY <1>1, <1>2, <1>4, <1>5, <1>6, <1>7, <1>8, <1>9, <1>10, <1>11
     DEF PeersNext, ClientStep, CloseStep

\* The conversations are consistent before the first client.
LEMMA PeersInvInit == PeersInit => PeersInv
<1> SUFFICES ASSUME PeersInit PROVE PeersInv
  OBVIOUS
<1>1. SlotInv /\ EndpointInv /\ PeersTypeOK
  BY SlotInit, EndpointInit, PeersTypeInit DEF PeersInit
<1>2. SignalConsistent
  BY DEF PeersInit, ControllerInit, SignalConsistent
<1>3. ASSUME NEW c \in Tickets
      PROVE  Conversation(c)
  BY <1>3 DEF PeersInit, ControllerInit, Conversation, ClientConsistent,
     WorkerConsistent, ToldConsistent, CutConsistent, Silent, Gone,
     Outcomes, Results
<1>4. QED
  BY <1>1, <1>2, <1>3 DEF PeersInv

\* The inductive invariant of the conversations is one.
LEMMA PeersInvStep ==
    ASSUME PeersInv, [PeersNext]_endpointVars
    PROVE  PeersInv'
<1>1. [ControllerNext]_controllerVars
  BY EndpointStep DEF endpointVars
<1>2. SlotInv'
  BY <1>1, SlotStep DEF PeersInv
<1>3. EndpointInv'
  BY EndpointStepInv DEF PeersInv
<1>4. PeersTypeOK'
  BY PeersTypeStep
<1>5. SignalConsistent'
  BY <1>1, SignalStands DEF PeersInv
<1>6. ASSUME NEW c \in Tickets
      PROVE  Conversation(c)'
  BY <1>2, <1>4, ConversationStep
<1>7. QED
  BY <1>2, <1>3, <1>4, <1>5, <1>6 DEF PeersInv

\* What every state of the endpoint satisfies (control/server.py).
THEOREM ConversationsHold == PeersSpec => []PeersInv
<1>1. PeersInv /\ [PeersNext]_endpointVars => PeersInv'
  BY PeersInvStep
<1>2. QED
  BY PeersInvInit, <1>1, PTL DEF PeersSpec

\* The endpoint's state stays within its types, frames included.
THEOREM EndpointTypesHold == PeersSpec => []PeersTypeOK
<1>1. PeersInv => PeersTypeOK
  BY DEF PeersInv
<1>2. QED
  BY <1>1, ConversationsHold, PTL

\* Whatever a client reports is what became of its own restart, for any
\* number of clients, any limit of peers, and interruptions and cuts at any
\* moment (_serve_restart, restart_runtime).
THEOREM AnswersAreTrue == PeersSpec => []AnswerIsTruth
<1>1. PeersInv => AnswerIsTruth
  BY DEF PeersInv, Conversation, ClientConsistent, AnswerIsTruth
<1>2. QED
  BY <1>1, ConversationsHold, PTL

\* A client that made a proposal and stayed gets its answer, unless the
\* budget of the final close is spent (_handle_peer, close).
THEOREM AnswersReachTheirClients == PeersSpec => []AnsweredNotLost
<1>1. PeersInv => AnsweredNotLost
  BY DEF PeersInv, Conversation, ClientConsistent, AnsweredNotLost, CutOff
<1>2. QED
  BY <1>1, ConversationsHold, PTL

=============================================================================
