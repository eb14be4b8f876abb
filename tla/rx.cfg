SPECIFICATION FairSpec
CONSTANTS
  Height = 2
  Red = Red
  Green = Green
  Pixels <- Colours
  Packets <- AllPackets
  SocketCapacity = 1
  Blank = Blank
INVARIANTS TypeOK FlagMeansFrameEnd QuietAfterStop
PROPERTY StopEnds
CHECK_DEADLOCK FALSE
