SPECIFICATION Spec
CONSTANTS
  FileSize <- MCFileSize
  MaxFiles <- MCMaxFiles
  QueueSize <- MCQueueSize
  MaxInode <- MCMaxInode
  MaxPosition <- MCMaxPosition
  BootSize <- MCBootSize
  FollowerSize <- MCFollowerSize
  MaxOld <- MCMaxOld
  Modes <- MCModes
INVARIANTS
    WrittenIsTheLog
    SuccessIsComplete
    RecordingHasNoHole
CHECK_DEADLOCK FALSE
