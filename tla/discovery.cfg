SPECIFICATION FairDiscovery
CONSTANTS
  LastSession = 1
  Keys <- MCOne
  Addresses = {"239.1"}
  Medias = {"239.1"}
  Messages <- MCMessages
  Users = {"user"}
  Null = "null"
  Empty = ""
  Short = Short
  Malformed = Malformed
  SocketCapacity = 2
INVARIANTS DirectoryTracksAir
PROPERTY LiveStreamFound
CHECK_DEADLOCK FALSE
