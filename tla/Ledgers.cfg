SPECIFICATION MCSpec
CONSTANTS
  p1 = p1
  r1 = r1
  r2 = r2
  w1 = w1
  w2 = w2
  None = None
  Phones <- MCPhones
  Rooms <- MCRooms2
  Wires <- MCWires2
  MaxCalls = 2
  LongLivedWires = FALSE
  LedgerRooms = {1, 2, 3}
  Limits = {1, 3}
  RoomsMax = 2
  IdleTime = 2
  MaxTime = 5
VIEW MCView
INVARIANTS
  OneFreeMachine
  MarkIsBacked
  InUseKept
PROPERTIES
  ClaimSettles
