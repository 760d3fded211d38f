SPECIFICATION FairSpec
CONSTANTS
    ShutdownTimeouts <- Timeouts
    Unlimited = Unlimited
    Reserve = 1
    AuxBound = 2
    StopBound = 2
    ChildGrace = 1
    StopHooks = 2
    Paths <- AllPaths
    Horizon = 7
INVARIANTS
    QuiescentReturn
    BudgetKept
PROPERTIES
    CleanupEnds
