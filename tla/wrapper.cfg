SPECIFICATION Spec
CONSTANTS
  Transmitters = {t1, t2}
  Receivers = {r1, r2}
  Sizes <- MCSizes
  Modes = {"Yuv422"}
  Nobody = nobody
INVARIANTS ReceiverLifetime CardsSound
CHECK_DEADLOCK FALSE
