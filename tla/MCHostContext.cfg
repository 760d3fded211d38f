SPECIFICATION Spec
CONSTANTS
    Members <- MCMembers
    Contents <- MCContents
    Runs <- MCRuns
    Invocations <- MCInvocations
    InitialOutputs <- MCInitialOutputs
    MaxStarts = 2
    MaxMoves = 1
    MaxEdits = 1
    MaxFaults = 1
INVARIANTS
    PlanIsConstructed
    LatestKept
    PublishedMatchesLock
CHECK_DEADLOCK FALSE
