SPECIFICATION HSpec
CONSTANTS
  Deployments = {{"gaze"}, {"objects"}, {"identity"}}
  Configs <- OneConfig
  Buckets = {"handheld_device", "book"}
  Labels = {"cell phone", "remote", "book", "laptop"}
  FaceCounts = {1}
  PoseAngles <- NoAngles
  GazeAngles <- GazeChoices
  DetectionSets <- DetectionChoices
  MatchScores <- MatchChoices
  Gaps = {1, 4}
  MaxTime = 6
  Retained <- HalfLifeOfTwo
CHECK_DEADLOCK FALSE
INVARIANTS
  TypeOK
  TurnsWereMeasured
  ScoreMatchesRecording
  AccusationNeedsSightings
  IdentityMatchesRecording
PROPERTIES
  IdentityEdges
