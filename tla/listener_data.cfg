SPECIFICATION Spec
CONSTANTS
  LastSession = 2
  Addresses = {"239.1", "239.2"}
  Medias = {"HD", "SD"}
  Messages <- MCMessages
  Users = {"a", "b"}
  Null = "null"
  Empty = ""
  Short = Short
  Malformed = Malformed
  SocketCapacity = 1
INVARIANT CallbackGetsItsData
CHECK_DEADLOCK FALSE
