SPECIFICATION HSpec
CONSTANTS
  Deployments = {{"pose"}}
  Configs <- FaceConfigs
  Buckets = {"handheld_device", "book"}
  Labels = {"cell phone", "remote", "book", "laptop"}
  FaceCounts = {0, 1, 2}
  PoseAngles <- NoAngles
  GazeAngles <- NoAngles
  DetectionSets <- DetectionChoices
  MatchScores <- MatchChoices
  Gaps = {1, 2}
  MaxTime = 6
  Retained <- HalfLifeOfTwo
CHECK_DEADLOCK FALSE
INVARIANTS
  OpenMatchesLatch
  OneAbsenceVerdict
  TimersMatchRecording
PROPERTIES
  MinimumDuration
