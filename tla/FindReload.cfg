SPECIFICATION SSpec
CONSTANTS
  Deployments = {{}}
  Configs <- QuickConfigs
  Buckets = {"handheld_device", "book"}
  Labels = {"cell phone", "remote", "book", "laptop"}
  FaceCounts = {0, 1}
  PoseAngles <- NoAngles
  GazeAngles <- NoAngles
  DetectionSets <- NoDetections
  MatchScores <- MatchChoices
  Gaps = {1, 2}
  MaxTime = 6
  Retained <- HalfLifeOfTwo
  MaxReloads = 1
  MaxFailures = 0
CHECK_DEADLOCK FALSE
INVARIANTS
  EveryViolationEnds
