SPECIFICATION MCSpec
CONSTANTS
  x1 = x1
  x2 = x2
  cmd = cmd
  s1 = s1
  s2 = s2
  cl = cl
  None = None
  h1 = h1
  h2 = h2
  d1 = d1
  d2 = d2
  g1 = g1
  g2 = g2
  c1 = c1
  c2 = c2
  a1 = a1
  a2 = a2
  Devices = {d1, d2}
  Agents = {g1, g2}
  Shakes = {h1, h2}
  Finishes = {c1, c2}
  Accepts = {a1, a2}
  Bodies = {x1}
  MaxCounter = 2
  MaxWaits = 1
  Messages = {x1, x2}
  Slashes = {x2}
  Commands = {cmd}
  Stops = {s1, s2}
  Clears = {cl}
  TypingScenes <- MCScenes
  MaxDialogs = 1
  MaxLen = 3
  Limit = 1
  MaxFiles = 2
  MaxFails = 1
  MaxHides = 1
  ReadingScenes = {"older", "anew", "features"}
INVARIANTS
  TypedOnce
  OneStretch
  OneConversation
PROPERTY NobodyWaits
CHECK_DEADLOCK FALSE
