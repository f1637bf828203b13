SPECIFICATION HSpec
CONSTANTS
  Deployments = {{"identity"}}
  Configs <- OneConfig
  Buckets = {"handheld_device", "book"}
  Labels = {"cell phone", "remote", "book", "laptop"}
  FaceCounts = {1}
  PoseAngles <- NoAngles
  GazeAngles <- NoAngles
  DetectionSets <- DetectionChoices
  MatchScores <- MatchChoices
  Gaps = {1}
  MaxTime = 6
  Retained <- HalfLifeOfTwo
CHECK_DEADLOCK FALSE
INVARIANTS
  AccusationIsConsecutive
