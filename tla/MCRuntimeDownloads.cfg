SPECIFICATION Spec
CONSTANTS
  Plans <- MCPlans
INVARIANTS
    StopReachesTransport
    StoppedLeavesNothing
PROPERTIES
    StopEnds
CHECK_DEADLOCK FALSE
