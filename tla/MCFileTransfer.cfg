SPECIFICATION Spec
CONSTANTS
  MaxAttempts <- MCMaxAttempts
  MaxStarts <- MCMaxStarts
  MaxFaults <- MCMaxFaults
  FaultKinds <- MCAllFaults
  MaxInode <- MCMaxInode
INVARIANTS
    DownloadedIsDurable
    StateStaysValid
    NothingOrphaned
PROPERTIES
    ImplementsAtomicTarget
CHECK_DEADLOCK FALSE
