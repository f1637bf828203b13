SPECIFICATION Spec
CONSTANTS
  DirectionConfigs <- SomeBars
  Readings <- SomeReadings
  NoReading = NoReading
  MaxReadFrames = 3
  Unbounded = Unbounded
  Windows = {1, 3, 20, Unbounded}
  Workloads <- SomeWorkloads
  Cells <- SomeCells
  MaxCells = 3
  Allowed = {"phone", "book"}
  MinScore = 2
  TopKs = {2, 100}
  Payloads <- SomePayloads
  Torn = 1
  MaxSaves = 2
  Faces <- SomeFaces
  NoEyes = NoEyes
  MinFaceScore = 80
  Setups <- SomeSetups
  MaxFrames = 2
CHECK_DEADLOCK FALSE
INVARIANTS
  DirectionMatchesRecording
  SummaryDescribesWindow
  KeptIsKernel
  InForceIsValid
  LoadedIsOneSave
  ReplayIsFaithful
  GazeIsAccountedFor
