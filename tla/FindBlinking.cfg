SPECIFICATION HSpec
CONSTANTS
  Deployments = {{"gaze"}}
  Configs <- OneConfig
  Buckets = {"handheld_device", "book"}
  Labels = {"cell phone", "remote", "book", "laptop"}
  FaceCounts = {1}
  PoseAngles <- NoAngles
  GazeAngles <- BlinkGazes
  DetectionSets <- DetectionChoices
  MatchScores <- MatchChoices
  Gaps = {1}
  MaxTime = 6
  Retained <- HalfLifeOfTwo
CHECK_DEADLOCK FALSE
INVARIANTS
  BlinkingIsNotCompliance
