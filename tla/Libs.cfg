\* Three slots of the ring; six virtual nodes; two objects and two descriptors.
CONSTANTS
  Value = {a, b, c}
  MaxIndex = 3
  Nil = Nil
  srv1 = srv1
  srv2 = srv2
  srv3 = srv3
  Null = Null
  sock1 = sock1
  sock2 = sock2
  Place = {sock1, sock2}
  Socket = {3, 4}
  Addresses = 2
  CRByte = 13
  LFByte = 10
  Streams <- LineAndMore
  BufSize = 2
  StepSize = 2
  Room = 2
  Limits = {0, 2}
  LongTime = 3
  Counts = {0, 3}
  Duplex = FALSE
  Size = 3
  Item = {sock1, sock2}
  Fds = {0, 1, 2}
  Tables <- TablesOfTwo
  SetSize = 2
SPECIFICATION LibSpec
INVARIANTS
  ContainersAreSound
  SocketsAreOwned
  EveryByteOnce
  SelectFindsAll
  ChunksDoNotMatter
PROPERTIES
  ImplementsFifo
  OnlyItsObjectsMove
  BoundIsKept
  TimeoutInTime
  CallsEnd
CHECK_DEADLOCK FALSE
