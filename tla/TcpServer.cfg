CONSTANTS
  Size = 2
  PoolSize = 2
  FirstFd = 1
  LastFd = 5
  Clients = 6
SPECIFICATION FairSpec
INVARIANTS
  TypeOK
  LoopBeforeUse
  Balanced
  EventOfDescriptor
  ServedByOne
PROPERTIES
  AcceptedGetsWatched
  ArrivedGetsAccepted
CHECK_DEADLOCK FALSE
