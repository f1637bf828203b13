SPECIFICATION SSpec
CONSTANTS
  Deployments = {{}}
  Configs <- QuickConfigs
  Buckets = {"handheld_device", "book"}
  Labels = {"cell phone", "remote", "book", "laptop"}
  FaceCounts = {0, 1, 2}
  PoseAngles <- NoAngles
  GazeAngles <- NoAngles
  DetectionSets <- NoDetections
  MatchScores <- MatchChoices
  Gaps = {1, 2}
  MaxTime = 5
  Retained <- HalfLifeOfTwo
  MaxReloads = 2
  MaxFailures = 4
CHECK_DEADLOCK FALSE
INVARIANTS
  STypeOK
PROPERTIES
  ReloadLedgerSpec
  DegradedIsAnnounced
