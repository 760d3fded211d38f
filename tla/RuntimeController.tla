------------------------- MODULE RuntimeController -------------------------
(***************************************************************************)
(* The sole mutable runtime state of the container controller and its      *)
(* restart proposal slot (container/runtime/controller.py).                *)
(*                                                                         *)
(* One action stands for one method.  Every method but the signal latch    *)
(* runs under RuntimeController._lock, so a method is one step, with one   *)
(* exception: a Python signal handler may interrupt the main thread        *)
(* INSIDE a method and raise out of it, which releases the lock.  That     *)
(* leaves lasting damage in two places.  One is between the commit of a    *)
(* terminal result and its publication on the ticket: these are two steps, *)
(* `unpublished' is the ticket the main thread still has to publish, and   *)
(* the lock is held exactly while it is set.  The other is between the     *)
(* removal of a rejected proposal from the slot and the rejection of its   *)
(* ticket: InterruptRejection.                                             *)
(*                                                                         *)
(* A definition marked `mutant' is a deliberately wrong variant of the one *)
(* that follows it; nothing uses it except checks that a property can fail.*)
(*                                                                         *)
(* Next lets the main thread call the methods in any order in which the    *)
(* code does not raise RuntimeControllerError: what is proved here holds   *)
(* for every caller, and RuntimeServe is one of them.                      *)
(***************************************************************************)
EXTENDS Naturals

CONSTANTS
    Tickets,    \* restart proposals (RuntimeRestartTicket objects)
    NoTicket,   \* Python's None where a ticket may stand
    Signals,    \* SIGTERM, SIGINT
    NoSignal    \* Python's None where a signal may stand

ASSUME NoTicketAssumption == NoTicket \notin Tickets
ASSUME NoSignalAssumption == NoSignal \notin Signals

VARIABLES
    state,           \* "starting", "running", "restarting", "stopping"
    phase,           \* the phase of a state that is not "running"
    generation,      \* id of the current generation, 0 before the first
    opCounter,       \* restart operations allocated so far
    operation,       \* id of the operation that owns the slot, 0 for None
    lastRestart,     \* id and result of the last restart that ended
    pending,         \* the proposal that waits for the main thread
    active,          \* the proposal the main thread has accepted
    terminal,        \* _active_terminal_result
    ticket,          \* state and operation each ticket shows its observers
    unpublished,     \* the ticket whose committed result is not shown yet
    wakeup,          \* _restart_wakeup, the event the lifecycle waits on
    externalSignal,  \* first signal latched, and whether another followed
    runtimeFailure   \* a controller-fatal failure has been latched

controllerVars == <<state, phase, generation, opCounter, operation,
                    lastRestart, pending, active, terminal, ticket,
                    unpublished, wakeup, externalSignal, runtimeFailure>>

States == {"starting", "running", "restarting", "stopping"}
Phases == {"admitting", "none", "stopping_generation",
           "starting_generation", "finalizing"}
Results == {"succeeded", "failed"}
TicketStates == {"idle", "pending", "accepted", "succeeded", "failed",
                 "rejected"}

NoRestart == [id |-> 0, result |-> "none"]

ControllerInit ==
    /\ state = "starting"
    /\ phase = "admitting"
    /\ generation = 0
    /\ opCounter = 0
    /\ operation = 0
    /\ lastRestart = NoRestart
    /\ pending = NoTicket
    /\ active = NoTicket
    /\ terminal = "none"
    /\ ticket = [t \in Tickets |-> [state |-> "idle", operation |-> 0]]
    /\ unpublished = NoTicket
    /\ wakeup = FALSE
    /\ externalSignal = [signal |-> NoSignal, repeated |-> FALSE]
    /\ runtimeFailure = FALSE

SignalLatched == externalSignal.signal # NoSignal

\* No main-thread publication is in progress under _lock.
LockFree == unpublished = NoTicket

\* What every admission of new work is checked against.
AdmissionIgnoresSignal == ~runtimeFailure                          \* mutant
AdmissionOpen == ~SignalLatched /\ ~runtimeFailure

-----------------------------------------------------------------------------
(* Helpers under the lock.                                                 *)

\* RuntimeRestartTicket._publish: the new state, and the operation when the
\* caller names one.
Published(shown, t, newState, op) ==
    [shown EXCEPT ![t] = [state |-> newState,
                          operation |-> IF op = 0 THEN @.operation ELSE op]]

\* The tickets after _reject_pending_unlocked.
PendingRejected ==
    IF pending = NoTicket
      THEN ticket
      ELSE Published(ticket, pending, "rejected", 0)

EmptySlotKept == wakeup' = FALSE /\ pending' = pending             \* mutant
EmptySlot ==
    /\ pending' = NoTicket
    /\ wakeup' = (wakeup /\ pending = NoTicket)

EnterFinalization ==
    /\ state' = "stopping"
    /\ phase' = "finalizing"

\* A failure latched before the result is committed turns success into
\* failure.
EffectiveResult(result) ==
    IF result = "succeeded" /\ runtimeFailure THEN "failed" ELSE result

MayPublishTerminal(result) ==
    /\ active # NoTicket
    /\ operation # 0
    /\ terminal = "none"
    /\ result = "succeeded" =>
         state = "restarting" /\ phase = "starting_generation"

CommitTerminalOptimist(result) ==                                  \* mutant
    /\ lastRestart' = [id |-> operation, result |-> "succeeded"]
    /\ terminal' = result
    /\ phase' = "finalizing"
    /\ state' = IF result = "failed" THEN "stopping" ELSE state
CommitTerminal(result) ==
    /\ lastRestart' = [id |-> operation, result |-> result]
    /\ terminal' = result
    /\ phase' = "finalizing"
    /\ state' = IF result = "failed" THEN "stopping" ELSE state

-----------------------------------------------------------------------------
(* Listener threads.                                                       *)

\* A proposal that finds the slot taken, or the controller past running, is
\* answered "busy" and leaves no trace.
SubmitRestart(t) ==
    /\ LockFree
    /\ ticket[t].state = "idle"
    /\ state = "running"
    /\ pending = NoTicket
    /\ active = NoTicket
    /\ AdmissionOpen
    /\ ticket' = [ticket EXCEPT ![t].state = "pending"]
    /\ pending' = t
    /\ wakeup' = TRUE
    /\ UNCHANGED <<state, phase, generation, opCounter, operation,
                   lastRestart, active, terminal, unpublished,
                   externalSignal, runtimeFailure>>

WithdrawRestart(t) ==
    /\ LockFree
    /\ pending = t
    /\ pending' = NoTicket
    /\ wakeup' = FALSE
    /\ ticket' = Published(ticket, t, "rejected", 0)
    /\ UNCHANGED <<state, phase, generation, opCounter, operation,
                   lastRestart, active, terminal, unpublished,
                   externalSignal, runtimeFailure>>

\* The log broker's drain threads report a primary output failure.
ObserveRuntimeFailure ==
    /\ LockFree
    /\ ~runtimeFailure
    /\ runtimeFailure' = TRUE
    /\ wakeup' = TRUE
    /\ UNCHANGED <<state, phase, generation, opCounter, operation,
                   lastRestart, pending, active, terminal, ticket,
                   unpublished, externalSignal>>

-----------------------------------------------------------------------------
(* The main thread's signal handler: no lock, no I/O.                      *)

Latched(s) ==
    IF externalSignal.signal = NoSignal
      THEN [signal |-> s, repeated |-> FALSE]
      ELSE [externalSignal EXCEPT !.repeated = TRUE]

ObserveExternalSignal(s) ==
    /\ ~externalSignal.repeated
    /\ externalSignal' = Latched(s)
    /\ UNCHANGED <<state, phase, generation, opCounter, operation,
                   lastRestart, pending, active, terminal, ticket,
                   unpublished, wakeup, runtimeFailure>>

\* The handler raises out of a publication in progress: the lock is
\* released with the result committed and the ticket never told.
InterruptPublication(s) ==
    /\ unpublished # NoTicket
    /\ ~SignalLatched
    /\ externalSignal' = Latched(s)
    /\ unpublished' = NoTicket
    /\ UNCHANGED <<state, phase, generation, opCounter, operation,
                   lastRestart, pending, active, terminal, ticket,
                   wakeup, runtimeFailure>>

\* The handler raises out of mark_generation_terminal, after the proposal has
\* left the slot and before its ticket is told; Event.clear may or may not
\* have been reached.
InterruptRejection(s) ==
    /\ LockFree
    /\ ~SignalLatched
    /\ active = NoTicket
    /\ terminal = "none"
    /\ pending # NoTicket
    /\ pending' = NoTicket
    /\ wakeup' \in {wakeup, FALSE}
    /\ externalSignal' = Latched(s)
    /\ UNCHANGED <<state, phase, generation, opCounter, operation,
                   lastRestart, active, terminal, ticket, unpublished,
                   runtimeFailure>>

-----------------------------------------------------------------------------
(* The main thread.                                                        *)

BeginInitialAdmission ==
    /\ LockFree
    /\ generation = 0
    /\ state = "starting"
    /\ AdmissionOpen
    /\ generation' = 1
    /\ UNCHANGED <<state, phase, opCounter, operation, lastRestart, pending,
                   active, terminal, ticket, unpublished, wakeup,
                   externalSignal, runtimeFailure>>

MarkInitialGenerationRunning ==
    /\ LockFree
    /\ state = "starting"
    /\ phase = "admitting"
    /\ generation # 0
    /\ AdmissionOpen
    /\ state' = "running"
    /\ phase' = "none"
    /\ UNCHANGED <<generation, opCounter, operation, lastRestart, pending,
                   active, terminal, ticket, unpublished, wakeup,
                   externalSignal, runtimeFailure>>

MayAccept ==
    /\ pending # NoTicket
    /\ state = "running"
    /\ AdmissionOpen

NextOperation == opCounter + 1

AcceptPending ==
    /\ LockFree
    /\ MayAccept
    /\ opCounter' = NextOperation
    /\ operation' = NextOperation
    /\ pending' = NoTicket
    /\ active' = pending
    /\ state' = "restarting"
    /\ phase' = "stopping_generation"
    /\ wakeup' = FALSE
    /\ ticket' = Published(ticket, pending, "accepted", NextOperation)
    /\ UNCHANGED <<generation, lastRestart, terminal, unpublished,
                   externalSignal, runtimeFailure>>

\* accept_if_requested returning False: a latched shutdown or failure turns
\* the proposal away, any other reason leaves it where it is.
DeclinePending ==
    /\ LockFree
    /\ ~MayAccept
    /\ IF SignalLatched \/ runtimeFailure
         THEN EmptySlot /\ ticket' = PendingRejected
         ELSE UNCHANGED <<pending, wakeup, ticket>>
    /\ UNCHANGED <<state, phase, generation, opCounter, operation,
                   lastRestart, active, terminal, unpublished,
                   externalSignal, runtimeFailure>>

MayAllocate ==
    /\ state = "restarting"
    /\ phase = "stopping_generation"
    /\ active # NoTicket

AllocateRestartSuccessor ==
    /\ LockFree
    /\ MayAllocate
    /\ AdmissionOpen
    /\ generation' = generation + 1
    /\ phase' = "starting_generation"
    /\ UNCHANGED <<state, opCounter, operation, lastRestart, pending, active,
                   terminal, ticket, unpublished, wakeup, externalSignal,
                   runtimeFailure>>

\* publish_restart_terminal up to ticket._publish.
CommitRestartTerminal(result) ==
    /\ LockFree
    /\ MayPublishTerminal(EffectiveResult(result))
    /\ CommitTerminal(EffectiveResult(result))
    /\ unpublished' = active
    /\ UNCHANGED <<generation, opCounter, operation, pending, active, ticket,
                   wakeup, externalSignal, runtimeFailure>>

\* allocate_restart_successor returning None: the same commit, from within
\* the allocation.
DenyRestartSuccessor ==
    /\ MayAllocate
    /\ SignalLatched \/ runtimeFailure
    /\ CommitRestartTerminal("failed")

PublishCommittedSilently ==                                        \* mutant
    /\ unpublished # NoTicket
    /\ unpublished' = NoTicket
    /\ UNCHANGED <<state, phase, generation, opCounter, operation,
                   lastRestart, pending, active, terminal, ticket, wakeup,
                   externalSignal, runtimeFailure>>
PublishCommitted ==
    /\ unpublished # NoTicket
    /\ ticket' = Published(ticket, unpublished, terminal, operation)
    /\ unpublished' = NoTicket
    /\ UNCHANGED <<state, phase, generation, opCounter, operation,
                   lastRestart, pending, active, terminal, wakeup,
                   externalSignal, runtimeFailure>>

MustFinalize == SignalLatched \/ state = "stopping" \/ runtimeFailure

ReleaseSuccessfulRestart ==
    /\ LockFree
    /\ terminal = "succeeded"
    /\ IF MustFinalize
         THEN /\ EnterFinalization
              /\ UNCHANGED <<operation, active, terminal>>
         ELSE /\ state = "restarting"
              /\ phase = "finalizing"
              /\ active # NoTicket
              /\ operation # 0
              /\ operation' = 0
              /\ active' = NoTicket
              /\ terminal' = "none"
              /\ state' = "running"
              /\ phase' = "none"
    /\ UNCHANGED <<generation, opCounter, lastRestart, pending, ticket,
                   unpublished, wakeup, externalSignal, runtimeFailure>>

MarkGenerationTerminal ==
    /\ LockFree
    /\ active = NoTicket
    /\ terminal = "none"
    /\ EmptySlot
    /\ ticket' = PendingRejected
    /\ EnterFinalization
    /\ UNCHANGED <<generation, opCounter, operation, lastRestart, active,
                   terminal, unpublished, externalSignal, runtimeFailure>>

\* No signal can raise here: one is latched already, so a handler only sets
\* `repeated', and the publication is not interrupted.
MarkExternalShutdown ==
    /\ LockFree
    /\ SignalLatched
    /\ EnterFinalization
    /\ EmptySlot
    /\ IF active # NoTicket /\ terminal = "none"
         THEN /\ lastRestart' = [id |-> operation, result |-> "failed"]
              /\ terminal' = "failed"
              /\ ticket' = Published(PendingRejected, active, "failed",
                                     operation)
         ELSE /\ ticket' = PendingRejected
              /\ UNCHANGED <<lastRestart, terminal>>
    /\ UNCHANGED <<generation, opCounter, operation, active, unpublished,
                   externalSignal, runtimeFailure>>

-----------------------------------------------------------------------------
ControllerNext ==
    \/ \E t \in Tickets : SubmitRestart(t) \/ WithdrawRestart(t)
    \/ ObserveRuntimeFailure
    \/ \E s \in Signals : \/ ObserveExternalSignal(s)
                          \/ InterruptPublication(s)
                          \/ InterruptRejection(s)
    \/ BeginInitialAdmission
    \/ MarkInitialGenerationRunning
    \/ AcceptPending
    \/ DeclinePending
    \/ AllocateRestartSuccessor
    \/ DenyRestartSuccessor
    \/ \E result \in Results : CommitRestartTerminal(result)
    \/ PublishCommitted
    \/ ReleaseSuccessfulRestart
    \/ MarkGenerationTerminal
    \/ MarkExternalShutdown

ControllerSpec == ControllerInit /\ [][ControllerNext]_controllerVars

-----------------------------------------------------------------------------
(* Properties.                                                             *)

\* The types of the controller's fields and of the tickets.
TypeOK ==
    /\ state \in States
    /\ phase \in Phases
    /\ generation \in Nat
    /\ opCounter \in Nat
    /\ operation \in Nat
    /\ lastRestart \in [id : Nat, result : Results \cup {"none"}]
    /\ pending \in Tickets \cup {NoTicket}
    /\ active \in Tickets \cup {NoTicket}
    /\ terminal \in Results \cup {"none"}
    /\ ticket \in [Tickets -> [state : TicketStates, operation : Nat]]
    /\ unpublished \in Tickets \cup {NoTicket}
    /\ wakeup \in BOOLEAN
    /\ externalSignal \in [signal : Signals \cup {NoSignal},
                           repeated : BOOLEAN]
    /\ runtimeFailure \in BOOLEAN

\* A proposal that holds the slot is pending, the controller is then running,
\* no restart is active and the lifecycle is awake to see it: a proposal is
\* never queued behind a restart, never outlives the running state and is
\* never left behind a cleared wakeup.  A pending proposal holds the slot,
\* unless a signal took the main thread away from its rejection.
PendingHoldsSlot ==
    /\ \A t \in Tickets :
         /\ pending = t => ticket[t].state = "pending"
         /\ ticket[t].state = "pending" => pending = t \/ SignalLatched
    /\ pending # NoTicket =>
         state = "running" /\ active = NoTicket /\ wakeup

\* An accepted proposal keeps the slot until its observers see a result.  A
\* result that is committed but not shown is one the main thread is about to
\* show, unless a signal took the main thread away from it.
AcceptedKeepsSlot ==
    \A t \in Tickets :
        /\ ticket[t].state = "accepted" =>
             /\ active = t
             /\ ticket[t].operation = operation
             /\ terminal # "none" => unpublished = t \/ SignalLatched
        /\ active = t /\ terminal = "none" => ticket[t].state = "accepted"

\* What `status' reports of the last restart is what the waiting client was
\* told of it, and no two clients are told about the same operation.
ResultsAgree ==
    /\ \A t \in Tickets :
         ticket[t].state \in Results =>
             /\ ticket[t].operation \in 1..opCounter
             /\ ticket[t].operation = lastRestart.id =>
                  ticket[t].state = lastRestart.result
    /\ \A t, u \in Tickets :
         ticket[t].operation = ticket[u].operation =>
             t = u \/ ticket[t].operation = 0

\* Shutdown is irreversible: once a signal or a failure is latched the
\* controller never enters the running state again, and a controller that is
\* stopping stays so.
ShutdownIrreversible ==
    [][/\ (SignalLatched \/ runtimeFailure) /\ state # "running" =>
            state' # "running"
       /\ state = "stopping" => state' = "stopping"]_controllerVars

\* A ticket moves only forward: a proposal that was withdrawn or rejected is
\* never accepted, one that was accepted is never rejected, and a result, once
\* shown, stands.
TicketForward ==
    [][\A t \in Tickets : ticket'[t] # ticket[t] =>
          <<ticket[t].state, ticket'[t].state>> \in
             {<<"idle", "pending">>, <<"pending", "accepted">>,
              <<"pending", "rejected">>, <<"accepted", "succeeded">>,
              <<"accepted", "failed">>}]_controllerVars

\* An operation id is never used twice, and the slot is handed over only when
\* it is free: a new operation starts from the running state alone.
OperationsSerial ==
    [][operation' # operation =>
          \/ operation' = 0 /\ terminal = "succeeded"
          \/ operation = 0 /\ active = NoTicket
               /\ operation' > lastRestart.id]_controllerVars

=============================================================================
