------------------------- MODULE RuntimeControlPeers -------------------------
(***************************************************************************)
(* The control endpoint: `cdh runtime restart' clients, the accept thread  *)
(* and the worker threads that answer them (container/runtime/control/     *)
(* server.py and client.py), and the bounded close at the end of serve.    *)
(*                                                                         *)
(* A client, its connection and the proposal it may make carry the same    *)
(* name c \in Tickets.  A connection is a Unix stream: frames arrive whole *)
(* and in order, what was sent before a close is still received, and       *)
(* sending to an end that is closed raises OSError.  A client may be       *)
(* interrupted or killed at any time.                                      *)
(*                                                                         *)
(* The main thread makes every call a legal owner of the controller can    *)
(* make until it stops the server.  Timeouts of the workers (one second    *)
(* for a request, half a second for an acknowledgement) may expire at any  *)
(* moment; the polls of 0.05 s are steps that change nothing.              *)
(***************************************************************************)
EXTENDS RuntimeController, Sequences, FiniteSets

CONSTANTS
    MaxPeers,    \* _MAX_CONTROL_PEERS
    MaxOthers    \* bounds the peers that ask for status or logs

ASSUME MaxPeersAssumption == MaxPeers \in Nat \ {0}
ASSUME MaxOthersAssumption == MaxOthers \in Nat

VARIABLES
    client,         \* where each client is, or the outcome it reports
    clientOp,       \* accepted_operation of each client, 0 for None
    socket,         \* the server's end of each connection
    requests,       \* frames on their way to the server
    responses,      \* frames on their way to the client
    accepting,      \* accepted by the accept thread, not yet registered
    acceptAlive,    \* the accept thread runs
    stop,           \* _stop, and with it the listener closed
    peers,          \* _peers, as far as they ask for a restart
    others,         \* how many more of _peers there are
    worker,         \* where each worker thread is
    seen,           \* the ticket snapshot the worker acts on
    acceptedSent,   \* accepted_sent
    main,           \* the main thread, as far as the server is concerned
    deadlinePassed  \* _close_deadline has passed

clientVars == <<client, clientOp>>
serverVars == <<accepting, acceptAlive, stop, peers, others>>
workerVars == <<worker, seen, acceptedSent>>
mainVars == <<main, deadlinePassed>>
peerVars == <<clientVars, socket, requests, responses, serverVars,
              workerVars, mainVars>>
endpointVars == <<controllerVars, peerVars>>

Outcomes == {"succeeded", "failed", "busy", "unavailable", "invalid",
             "lost", "interrupted"}
Workers == {"none", "receive", "fetch", "act", "ack", "finish", "gone"}

Frame(kind, op, result) == [kind |-> kind, operation |-> op, result |-> result]
Frames == [kind : {"accepted", "terminal", "error"}, operation : Nat,
           result : Results \cup {"none", "busy", "unavailable"}]

NotSeen == [state |-> "pending", operation |-> 0]

PeersInit ==
    /\ ControllerInit
    /\ client = [c \in Tickets |-> "away"]
    /\ clientOp = [c \in Tickets |-> 0]
    /\ socket = [c \in Tickets |-> "none"]
    /\ requests = [c \in Tickets |-> <<>>]
    /\ responses = [c \in Tickets |-> <<>>]
    /\ accepting = NoTicket
    /\ acceptAlive = TRUE
    /\ stop = FALSE
    /\ peers = {}
    /\ others = 0
    /\ worker = [c \in Tickets |-> "none"]
    /\ seen = [c \in Tickets |-> NotSeen]
    /\ acceptedSent = [c \in Tickets |-> FALSE]
    /\ main = "serving"
    /\ deadlinePassed = FALSE

Gone(c) == client[c] \in Outcomes

-----------------------------------------------------------------------------
(* The client: restart_runtime.                                            *)

\* connect_runtime_control, on a new socket: without a listener there is no
\* service.
Connect(c) ==
    /\ client[c] = "away"
    /\ socket[c] = "none"
    /\ IF stop
         THEN client' = [client EXCEPT ![c] = "lost"] /\ UNCHANGED socket
         ELSE /\ client' = [client EXCEPT ![c] = "connected"]
              /\ socket' = [socket EXCEPT ![c] = "backlog"]
    /\ UNCHANGED <<controllerVars, clientOp, requests, responses, serverVars,
                   workerVars, mainVars>>

SendRequest(c) ==
    /\ client[c] = "connected"
    /\ IF socket[c] = "closed"
         THEN client' = [client EXCEPT ![c] = "lost"] /\ UNCHANGED requests
         ELSE /\ client' = [client EXCEPT ![c] = "waiting"]
              /\ requests' = [requests EXCEPT ![c] = Append(@, "restart")]
    /\ UNCHANGED <<controllerVars, clientOp, socket, responses, serverVars,
                   workerVars, mainVars>>

\* A terminal frame counts only for the operation that was announced.
ExpectedTerminal(c, f) == clientOp[c] # 0 /\ f.operation = clientOp[c]

\* What a frame makes of a client that waits: an outcome, or "waiting".
OutcomeOf(c, f) ==
    CASE f.kind = "error" -> f.result
      [] f.kind = "accepted" -> IF clientOp[c] = 0 THEN "waiting"
                                                   ELSE "invalid"
      [] f.kind = "terminal" -> IF ExpectedTerminal(c, f) THEN f.result
                                                          ELSE "invalid"

\* The next frame, or the end of the stream.  An expected result is
\* acknowledged as well as can be before the client closes.
ClientReceives(c) ==
    /\ client[c] = "waiting"
    /\ \/ /\ responses[c] # <<>>
          /\ LET f == Head(responses[c]) IN
               /\ client' = [client EXCEPT ![c] = OutcomeOf(c, f)]
               /\ clientOp' = IF f.kind = "accepted" /\ clientOp[c] = 0
                                THEN [clientOp EXCEPT ![c] = f.operation]
                                ELSE clientOp
               /\ requests' =
                    IF f.kind = "terminal" /\ ExpectedTerminal(c, f)
                         /\ socket[c] # "closed"
                      THEN [requests EXCEPT ![c] = Append(@, "ack")]
                      ELSE requests
          /\ responses' = [responses EXCEPT ![c] = Tail(@)]
       \/ /\ responses[c] = <<>>
          /\ socket[c] = "closed"
          /\ client' = [client EXCEPT ![c] = "lost"]
          /\ UNCHANGED <<clientOp, requests, responses>>
    /\ UNCHANGED <<controllerVars, socket, serverVars, workerVars, mainVars>>

\* SIGINT, SIGTERM or a kill: the connection is closed, unread frames are
\* gone.
ClientLeaves(c) ==
    /\ client[c] \in {"connected", "waiting"}
    /\ client' = [client EXCEPT ![c] = "interrupted"]
    /\ responses' = [responses EXCEPT ![c] = <<>>]
    /\ UNCHANGED <<controllerVars, clientOp, socket, requests, serverVars,
                   workerVars, mainVars>>

-----------------------------------------------------------------------------
(* The accept thread.                                                      *)

AcceptPeer(c) ==
    /\ acceptAlive
    /\ ~stop
    /\ accepting = NoTicket
    /\ socket[c] = "backlog"
    /\ accepting' = c
    /\ socket' = [socket EXCEPT ![c] = "held"]
    /\ UNCHANGED <<controllerVars, clientVars, requests, responses,
                   acceptAlive, stop, peers, others, workerVars, mainVars>>

PeerCount == Cardinality(peers) + others

RoomForPeerOffByOne == PeerCount <= MaxPeers                       \* mutant
RoomForPeer == PeerCount < MaxPeers

\* Under _peers_lock: no peer after the stop, none beyond the limit.  The
\* worker is started right after.
RegisterPeer ==
    /\ accepting # NoTicket
    /\ IF stop \/ ~RoomForPeer
         THEN /\ socket' = [socket EXCEPT ![accepting] = "closed"]
              /\ acceptAlive' = ~stop
              /\ UNCHANGED <<peers, worker>>
         ELSE /\ socket' = [socket EXCEPT ![accepting] = "open"]
              /\ peers' = peers \cup {accepting}
              /\ worker' = [worker EXCEPT ![accepting] = "receive"]
              /\ UNCHANGED acceptAlive
    /\ accepting' = NoTicket
    /\ UNCHANGED <<controllerVars, clientVars, requests, responses, stop,
                   others, seen, acceptedSent, mainVars>>

\* The same for a peer that asks for something else.
RegisterOther ==
    /\ acceptAlive
    /\ accepting = NoTicket
    /\ ~stop
    /\ RoomForPeer
    /\ others < MaxOthers
    /\ others' = others + 1
    /\ UNCHANGED <<controllerVars, clientVars, socket, requests, responses,
                   accepting, acceptAlive, stop, peers, workerVars, mainVars>>

OtherEnds ==
    /\ others > 0
    /\ others' = others - 1
    /\ UNCHANGED <<controllerVars, clientVars, socket, requests, responses,
                   accepting, acceptAlive, stop, peers, workerVars, mainVars>>

AcceptThreadEnds ==
    /\ acceptAlive
    /\ stop
    /\ accepting = NoTicket
    /\ acceptAlive' = FALSE
    /\ UNCHANGED <<controllerVars, clientVars, socket, requests, responses,
                   accepting, stop, peers, others, workerVars, mainVars>>

-----------------------------------------------------------------------------
(* A worker thread: _handle_peer and _serve_restart.                       *)

MoveWorker(c, to) == worker' = [worker EXCEPT ![c] = to]

\* sendall reaches the client's end.
CanSend(c) == socket[c] = "open" /\ ~Gone(c)

Send(c, f) == responses' = [responses EXCEPT ![c] = Append(@, f)]

\* submit_restart refuses.
SlotTaken ==
    \/ state # "running"
    \/ pending # NoTicket
    \/ active # NoTicket
    \/ ~AdmissionOpen

\* A restart request is submitted; a refusal is answered at once, if the
\* client is there to hear it.
WorkerSubmits(c) ==
    /\ worker[c] = "receive"
    /\ socket[c] = "open"
    /\ requests[c] # <<>>
    /\ LockFree
    /\ requests' = [requests EXCEPT ![c] = Tail(@)]
    /\ \/ /\ SubmitRestart(c)
          /\ MoveWorker(c, "fetch")
          /\ UNCHANGED responses
       \/ /\ SlotTaken
          /\ IF CanSend(c) THEN Send(c, Frame("error", operation, "busy"))
                           ELSE UNCHANGED responses
          /\ MoveWorker(c, "finish")
          /\ UNCHANGED controllerVars
    /\ UNCHANGED <<clientVars, socket, serverVars, seen, acceptedSent,
                   mainVars>>

\* No request: the client went away, the server closed the connection, or
\* the request did not come within a second.
WorkerGivesUp(c) ==
    /\ worker[c] = "receive"
    /\ requests[c] = <<>> \/ socket[c] = "closed"
    /\ MoveWorker(c, "finish")
    /\ UNCHANGED <<controllerVars, clientVars, socket, requests, responses,
                   serverVars, seen, acceptedSent, mainVars>>

\* snapshot and wait_for_change: everything below acts on this copy.
WorkerFetches(c) ==
    /\ worker[c] = "fetch"
    /\ seen' = [seen EXCEPT ![c] = ticket[c]]
    /\ MoveWorker(c, "act")
    /\ UNCHANGED <<controllerVars, clientVars, socket, requests, responses,
                   serverVars, acceptedSent, mainVars>>

Announces(c) == seen[c].operation # 0 /\ ~acceptedSent[c]

TerminalFrameOfLast(c) ==                                          \* mutant
    Frame("terminal", seen[c].operation, lastRestart.result)
TerminalFrame(c) == Frame("terminal", seen[c].operation, seen[c].state)

\* withdraw_restart: without effect once the proposal has left the slot.
Withdraw(c) ==
    /\ LockFree
    /\ IF pending = c THEN WithdrawRestart(c) ELSE UNCHANGED controllerVars

\* Either the frame is sent and the worker goes on, or OSError ends it.
SendOrGiveUp(c, f, next) ==
    \/ CanSend(c) /\ Send(c, f) /\ MoveWorker(c, next)
         /\ UNCHANGED controllerVars
    \/ ~CanSend(c) /\ Withdraw(c) /\ MoveWorker(c, "finish")
         /\ UNCHANGED responses

WorkerAnnounces(c) ==
    /\ worker[c] = "act"
    /\ Announces(c)
    /\ SendOrGiveUp(c, Frame("accepted", seen[c].operation, "none"), "act")
    /\ acceptedSent' = [acceptedSent EXCEPT ![c] = TRUE]
    /\ UNCHANGED <<clientVars, socket, requests, serverVars, seen, mainVars>>

WorkerAnswers(c) ==
    /\ worker[c] = "act"
    /\ ~Announces(c)
    /\ \/ /\ seen[c].state \in Results
          /\ SendOrGiveUp(c, TerminalFrame(c), "ack")
       \/ /\ seen[c].state = "rejected"
          /\ SendOrGiveUp(c, Frame("error", 0, "unavailable"), "finish")
    /\ UNCHANGED <<clientVars, socket, requests, serverVars, seen,
                   acceptedSent, mainVars>>

HasInputNotEof(c) == requests[c] # <<>>                            \* mutant
HasInputOrEof(c) ==
    requests[c] # <<>> \/ Gone(c) \/ socket[c] = "closed"

\* No answer yet: a client that left takes its proposal back, otherwise the
\* worker waits for a change or for the next poll.
WorkerPolls(c) ==
    /\ worker[c] = "act"
    /\ ~Announces(c)
    /\ seen[c].state \in {"pending", "accepted"}
    /\ IF HasInputOrEof(c)
         THEN Withdraw(c) /\ MoveWorker(c, "finish")
         ELSE MoveWorker(c, "fetch") /\ UNCHANGED controllerVars
    /\ UNCHANGED <<clientVars, socket, requests, responses, serverVars, seen,
                   acceptedSent, mainVars>>

\* _wait_for_ack ends at once after an external signal, else with anything
\* that arrives, with the end of the connection, or with its timeout: that
\* is at any moment, and always the same way.
WorkerStopsWaiting(c) ==
    /\ worker[c] = "ack"
    /\ MoveWorker(c, "finish")
    /\ UNCHANGED <<controllerVars, clientVars, socket, requests, responses,
                   serverVars, seen, acceptedSent, mainVars>>

WithoutPeer(c) == peers \ {c}

\* The finally clause; unread frames and the worker's variables are gone.
WorkerEnds(c) ==
    /\ worker[c] = "finish"
    /\ peers' = WithoutPeer(c)
    /\ socket' = [socket EXCEPT ![c] = "closed"]
    /\ requests' = [requests EXCEPT ![c] = <<>>]
    /\ seen' = [seen EXCEPT ![c] = NotSeen]
    /\ acceptedSent' = [acceptedSent EXCEPT ![c] = FALSE]
    /\ MoveWorker(c, "gone")
    /\ UNCHANGED <<controllerVars, clientVars, responses, accepting,
                   acceptAlive, stop, others, mainVars>>

-----------------------------------------------------------------------------
(* The main thread and the other callers of the controller.                *)

\* Until the server is stopped, any call a legal owner may make.
OwnerStep ==
    /\ main = "serving"
    /\ \/ BeginInitialAdmission
       \/ MarkInitialGenerationRunning
       \/ AcceptPending
       \/ DeclinePending
       \/ AllocateRestartSuccessor
       \/ DenyRestartSuccessor
       \/ \E result \in Results : CommitRestartTerminal(result)
       \/ PublishCommitted
       \/ ReleaseSuccessfulRestart
       \/ MarkGenerationTerminal
       \/ MarkExternalShutdown
       \/ \E s \in Signals : InterruptPublication(s) \/ InterruptRejection(s)
    /\ UNCHANGED peerVars

\* Signals and failures of the log drains, until the process is gone.
OutsideStep ==
    /\ main # "closed"
    /\ ObserveRuntimeFailure \/ \E s \in Signals : ObserveExternalSignal(s)
    /\ UNCHANGED peerVars

\* The first act of the teardown, after the serve loop has ended: no
\* proposal is pending then and none can be made any more.  Connections that
\* nobody accepted are closed with the listener.
StopAccepting ==
    /\ main = "serving"
    /\ LockFree
    /\ pending = NoTicket
    /\ state # "running"
    /\ main' = "stopping"
    /\ stop' = TRUE
    /\ socket' = [c \in Tickets |->
                    IF socket[c] = "backlog" THEN "closed" ELSE socket[c]]
    /\ UNCHANGED <<controllerVars, clientVars, requests, responses,
                   accepting, acceptAlive, peers, others, workerVars,
                   deadlinePassed>>

DeadlinePasses ==
    /\ main # "serving"
    /\ ~deadlinePassed
    /\ deadlinePassed' = TRUE
    /\ UNCHANGED <<controllerVars, clientVars, socket, requests, responses,
                   serverVars, workerVars, main>>

BudgetSpent == deadlinePassed \/ externalSignal.repeated

DrainSkipped == TRUE                                               \* mutant
DrainOver == PeerCount = 0 \/ BudgetSpent

ConnectionsAfterCloseKept(c) == socket[c]                          \* mutant
ConnectionsAfterClose(c) == IF c \in peers THEN "closed" ELSE socket[c]

\* close: wait for the workers within the budget, then cut who is left.
CutPeers ==
    /\ main = "stopping"
    /\ DrainOver
    /\ socket' = [c \in Tickets |-> ConnectionsAfterClose(c)]
    /\ main' = "joining"
    /\ UNCHANGED <<controllerVars, clientVars, requests, responses,
                   serverVars, workerVars, deadlinePassed>>

JoinAcceptThread ==
    /\ main = "joining"
    /\ ~acceptAlive \/ BudgetSpent
    /\ main' = "closed"
    /\ UNCHANGED <<controllerVars, clientVars, socket, requests, responses,
                   serverVars, workerVars, deadlinePassed>>

-----------------------------------------------------------------------------
ClientStep(c) == SendRequest(c) \/ ClientReceives(c)

WorkerStep(c) ==
    \/ WorkerSubmits(c)
    \/ WorkerGivesUp(c)
    \/ WorkerFetches(c)
    \/ WorkerAnnounces(c)
    \/ WorkerAnswers(c)
    \/ WorkerPolls(c)
    \/ WorkerStopsWaiting(c)
    \/ WorkerEnds(c)

CloseStep == CutPeers \/ JoinAcceptThread

PeersNext ==
    \/ \E c \in Tickets : \/ Connect(c)
                          \/ ClientStep(c)
                          \/ ClientLeaves(c)
                          \/ AcceptPeer(c)
                          \/ WorkerStep(c)
    \/ RegisterPeer
    \/ RegisterOther
    \/ OtherEnds
    \/ AcceptThreadEnds
    \/ OwnerStep
    \/ OutsideStep
    \/ StopAccepting
    \/ DeadlinePasses
    \/ CloseStep

PeersSpec == PeersInit /\ [][PeersNext]_endpointVars

\* Threads run, time passes, and a client process that is not killed runs.
\* Nothing is assumed of the owner's calls, nor that a client appears, nor
\* that a log follower ends before the log broker or the server is closed.
PeersFairness ==
    /\ \A c \in Tickets :
         /\ WF_endpointVars(ClientStep(c))
         /\ WF_endpointVars(WorkerStep(c))
    /\ WF_endpointVars(RegisterPeer)
    /\ WF_endpointVars(AcceptThreadEnds)
    /\ WF_endpointVars(stop /\ OtherEnds)
    /\ WF_endpointVars(DeadlinePasses)
    /\ WF_endpointVars(CloseStep)

FairPeersSpec == PeersSpec /\ PeersFairness

-----------------------------------------------------------------------------
(* Properties.                                                             *)

\* The types of the endpoint's state.
PeersTypeOK ==
    /\ client \in [Tickets -> {"away", "connected", "waiting"} \cup Outcomes]
    /\ clientOp \in [Tickets -> Nat]
    /\ socket \in [Tickets -> {"none", "backlog", "held", "open", "closed"}]
    /\ requests \in [Tickets -> Seq({"restart", "ack"})]
    /\ responses \in [Tickets -> Seq(Frames)]
    /\ accepting \in Tickets \cup {NoTicket}
    /\ acceptAlive \in BOOLEAN
    /\ stop \in BOOLEAN
    /\ peers \subseteq Tickets
    /\ others \in 0..MaxOthers
    /\ worker \in [Tickets -> Workers]
    /\ seen \in [Tickets -> [state : TicketStates, operation : Nat]]
    /\ acceptedSent \in [Tickets -> BOOLEAN]
    /\ main \in {"serving", "stopping", "joining", "closed"}
    /\ deadlinePassed \in BOOLEAN

\* What a client reports is what became of its restart: success and failure
\* are its own operation's result, "busy" means that nothing was started,
\* "unavailable" that the proposal was turned away, and no sequence of frames
\* looks invalid to it.
AnswerIsTruth ==
    \A c \in Tickets :
        /\ client[c] \in Results =>
             ticket[c] = [state |-> client[c], operation |-> clientOp[c]]
        /\ client[c] = "busy" => ticket[c].state = "idle"
        /\ client[c] = "unavailable" => ticket[c].state = "rejected"
        /\ client[c] # "invalid"

\* A client that made a proposal and stayed is not left without an answer
\* before the budget of the final close is spent.
AnsweredNotLost ==
    \A c \in Tickets :
        client[c] = "lost" =>
            \/ ticket[c].state = "idle"
            \/ main \in {"joining", "closed"} /\ BudgetSpent

\* A registered peer has a worker and a worker's peer is registered, within
\* the limit, so that no slot leaks; once the endpoint has cut its peers, none
\* of them is open and none is added.
PeerAccounting ==
    /\ peers = {c \in Tickets : worker[c] \notin {"none", "gone"}}
    /\ PeerCount <= MaxPeers
    /\ main \in {"joining", "closed"} =>
         \A c \in Tickets : socket[c] # "open" /\ socket[c] # "backlog"

\* A proposal whose client went away does not stay in the slot: it is
\* withdrawn unless the main thread took it first.
AbandonedIsWithdrawn ==
    \A c \in Tickets : pending = c /\ Gone(c) ~> pending # c

\* The final close ends, with every thread of the endpoint, and every client
\* that was connected has come to an end too.
TeardownEnds ==
    stop ~> /\ main = "closed"
            /\ PeerCount = 0
            /\ ~acceptAlive
            /\ \A c \in Tickets : client[c] \notin {"connected", "waiting"}

=============================================================================
