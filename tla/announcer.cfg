SPECIFICATION FairSpec
CONSTANTS
  Keys <- MCTwo
  NoKey <- MCNoKey
INVARIANTS
  TypeOK
  UniqueStreams
  StopSilencesStreams
  DeletedFallsSilent
PROPERTIES
  LiveStreamsAnnounced
  CallsReturn
CHECK_DEADLOCK FALSE
