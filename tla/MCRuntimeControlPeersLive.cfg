SPECIFICATION FairPeersSpec
CONSTANTS
    Tickets = {t1}
    NoTicket = NoTicket
    Signals = {SIGTERM}
    NoSignal = NoSignal
    MaxOthers = 1
    MaxPeers = 1
PROPERTIES
    AbandonedIsWithdrawn
    TeardownEnds
CHECK_DEADLOCK FALSE
