SPECIFICATION MCSpec
CONSTANTS
  s = s
  key = key
  x1 = x1
  x2 = x2
  b1 = b1
  b2 = b2
  None = None
  Sockets <- MCSockets
  NoSocket = None
  PongGrace = 2
  MaxAttempts = 4
  List = List
  Broken = Broken
VIEW MCView
INVARIANTS
  LineInOrder
PROPERTIES
  AnnouncedWhenListed
  NothingHangs
CHECK_DEADLOCK FALSE
