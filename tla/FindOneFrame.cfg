SPECIFICATION Spec
CONSTANTS
  Models = {}
  MaxFrames = 2
  FacedFrames = {}
  MaxEnrols = 0
CHECK_DEADLOCK FALSE
INVARIANTS
  LastFrameIsRead
