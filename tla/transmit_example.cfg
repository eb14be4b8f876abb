SPECIFICATION Example
CONSTANTS
  Height = 2
  Width = 2
  PngPixels = {0, 2, 4, 9}
  Lengths = {4, 8, 12}
  NumFrames = {0, 1, 3}
INVARIANTS CopiesWithinBuffers
PROPERTIES SignalEnds
CHECK_DEADLOCK FALSE
