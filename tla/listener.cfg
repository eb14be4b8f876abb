SPECIFICATION FairSpec
CONSTANTS
  LastSession = 2
  Addresses = {"239.1", "239.2"}
  Medias = {"HD", "SD"}
  Messages <- MCMessages
  Users = {"a"}
  Null = "null"
  Empty = ""
  Short = Short
  Malformed = Malformed
  SocketCapacity = 1
INVARIANTS
  TypeOK
  QuietAfterStop
  CalledOncePerMessage
  StoredBeforeCalled
PROPERTIES
  StopEnds
  DueCallbackIsMade
CHECK_DEADLOCK FALSE
