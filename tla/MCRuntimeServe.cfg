SPECIFICATION FairSpec
CONSTANTS
    Tickets = {t1, t2}
    NoTicket = NoTicket
    Signals = {SIGTERM, SIGINT}
    NoSignal = NoSignal
    UnlimitedGenerations = {2}
INVARIANTS
    EventsInOrder
PROPERTIES
    SerialReplacement
    ShutdownOutranksRestart
    ControllerSpec
    ShutdownCompletes
    AcceptedEnds
