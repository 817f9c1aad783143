SPECIFICATION MCSpec
CONSTANTS
  x1 = x1
  x2 = x2
  y1 = y1
  y2 = y2
  Ours = Ours
  Unread = Unread
  NoPage = NoPage
  Direct = Direct
  Out = Out
  None = None
  Sessions = {x1}
  Slots = {1, 2}
  Versions = {0, 1}
  MaxNow = 4
  MaxMoves = 2
  MaxFails = 1
  ListScenes <- MCListScenes
  Machines = {x1, x2}
  Keys = {y1, y2}
  Owner <- MCOwner
  NoteScenes = {"app", "worker"}
  MaxClock = 2
  MaxAsks = 2
  MaxPushes = 2
  MaxWork = 1
  Relays = {y1, y2}
  Self = x1
  MaxActs = 5
  Tasks = {x1, x2}
  Askers = {"main", "sub"}
  MaxTurns = 2
INVARIANTS
  AsTheUserLeftIt
  TurnsToldAsTheyEnd
PROPERTIES
  NeverBack
  LiveNotificationStays
  ShownInTheEnd
CHECK_DEADLOCK FALSE
