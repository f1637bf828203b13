SPECIFICATION Spec
CONSTANTS
  Models = {"objects", "identity"}
  MaxFrames = 3
  FacedFrames = {1}
  MaxEnrols = 0
CHECK_DEADLOCK FALSE
INVARIANTS
  TypeOK
  AttachedOnce
  FramesAccountedFor
PROPERTIES
  StreamSpec
