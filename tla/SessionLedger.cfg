SPECIFICATION SSpec
CONSTANTS
  Deployments = {{"pose"}}
  Configs <- QuickConfigs
  Buckets = {"handheld_device", "book"}
  Labels = {"cell phone", "remote", "book", "laptop"}
  FaceCounts = {0, 2}
  PoseAngles <- NoAngles
  GazeAngles <- NoAngles
  DetectionSets <- NoDetections
  MatchScores <- MatchChoices
  Gaps = {1, 2}
  MaxTime = 6
  Retained <- HalfLifeOfTwo
  MaxReloads = 0
  MaxFailures = 1
CHECK_DEADLOCK FALSE
PROPERTIES
  LedgerSpec
