SPECIFICATION Spec
CONSTANTS
  Procs <- MCProcs
  Scenarios <- MCScenarios
  MaxSignalFaults = 1
  WarningCapacity = 1
  TransitionCapacity = 1
  ProgressCapacity = 1
  Categories = {"ssh", "download"}
  Scopes = {"a", "b"}
INVARIANTS
    PublishedIsSignalled
    StoppedIsClean
    AlarmIsGenuine
    WarningsAccounted
PROPERTIES
    StopEnds
CHECK_DEADLOCK FALSE
