SPECIFICATION Spec
CONSTANTS
  MaxLen = 3
  Limit = 1
  MaxFiles = 2
  MaxFails = 1
  MaxHides = 1
  Scenes = {"features"}
INVARIANT InOrder
CHECK_DEADLOCK FALSE
