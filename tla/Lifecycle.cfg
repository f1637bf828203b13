SPECIFICATION FairSpec
CONSTANTS
  Kinds = {"camera", "file", "dir"}
  Directories <- SomeDirectories
  ChunksPerFrame = 2
  PipeRoom = 2
  StderrRoom = 1
  MaxChunks = 4
  MaxMessages = 2
  MaxSources = 2
CHECK_DEADLOCK FALSE
INVARIANTS
  TypeOK
  FramesAreWhole
  EndIsExplained
  LossIsAnError
  NoOrphan
  SnapshotNotOlder
PROPERTIES
  StreamSpec
  StopIsFinal
  StopReturns
  LossIsNoticed
