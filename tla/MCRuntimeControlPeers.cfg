SPECIFICATION PeersSpec
CONSTANTS
    Tickets = {t1, t2}
    NoTicket = NoTicket
    Signals = {SIGTERM}
    NoSignal = NoSignal
    MaxOthers = 1
    MaxPeers = 2
SYMMETRY Symmetry
INVARIANTS
    PendingHoldsSlot
    ResultsAgree
    AnswerIsTruth
    AnsweredNotLost
CHECK_DEADLOCK FALSE
