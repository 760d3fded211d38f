SPECIFICATION Spec
CONSTANTS
    Layerings <- MCLayerings
    Environments <- MCEnvironments
    Canonical <- MCCanonical
INVARIANTS
    OriginsAreTrue
    MissingIsBlamed
    LayersOverlay
    LogsAgree
CHECK_DEADLOCK FALSE
