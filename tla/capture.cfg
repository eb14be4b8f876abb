SPECIFICATION Spec
CONSTANTS
  Requested = 4
  Frames = 6
INVARIANTS CaptureSafe
PROPERTIES CaptureEnds SignalsLoseNoImage
CHECK_DEADLOCK FALSE
