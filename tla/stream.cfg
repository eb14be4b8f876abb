SPECIFICATION FairStreamSpec
CONSTANTS
  Height = 2
  MaxFrames = 2
  Pixels <- RowPixels
  Packets <- LinePackets
  Blank <- NoPixels
  SocketCapacity = 1
  SequenceModulus = 4
INVARIANT WholeFrameWithoutLoss
PROPERTIES ImplementsChannel QueuedFrameIsShown
CHECK_DEADLOCK FALSE
