SPECIFICATION Spec
CONSTANTS
    Tickets = {t1}
    NoTicket = NoTicket
    Signals = {SIGTERM}
    NoSignal = NoSignal
    UnlimitedGenerations = {}
INVARIANT AcceptedIsAnswered
