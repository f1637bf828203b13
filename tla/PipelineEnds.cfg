SPECIFICATION FairSpec
CONSTANTS
  Models = {"objects", "identity"}
  MaxFrames = 2
  FacedFrames = {1}
  MaxEnrols = 2
CHECK_DEADLOCK FALSE
INVARIANTS
  EnrolmentNotLost
  NoScoreBeforeEnrolment
PROPERTIES
  WindsDown
  StopReturns
  SourceEndDrains
