SPECIFICATION FairSpec
CONSTANTS
  Streams = {s1}
  Threads = {t1, t2}
  Frames = {f1, f2}
  MaxHeight = 2
  Settings <- ChangingSettings
  SequenceModulus = 3
  Blocking = {TRUE, FALSE}
  NoFrame = NoFrame
  NoThread = NoThread
INVARIANTS
  TypeOK
  LinesInOrder
  BlockingSendsItsFrame
  NoThreadOutlivesStream
  SequenceConsecutive
PROPERTY TransmitEnds
CHECK_DEADLOCK FALSE
