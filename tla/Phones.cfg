SPECIFICATION MCSpec
CONSTANTS
  s1 = s1
  s2 = s2
  o1 = o1
  o2 = o2
  ka = ka
  kb = kb
  x1 = x1
  x2 = x2
  c1 = c1
  c2 = c2
  b1 = b1
  b2 = b2
  Me = Me
  Other = Other
  None = None
  List = List
  Broken = Broken
  Sessions <- MCSessions
  Ops <- MCOps
  Lengths <- MCLengths
  MaxTime = 2
  MaxGrants = 2
  Calls = {1, 2}
  Keys = {ka, kb}
  KeyMaps <- MCKeyMaps
  SubKeys = {ka}
  Requests = {x1, x2}
  Tasks = {x1, x2}
  Creds = {b1, b2}
  MaxWrites = 2
  Scenes <- MCScenes
  Devices = {x1, x2}
  Codes = {c1, c2}
  MaxQueue = 2
  MaxStops = 1
  MaxAsks = 2
  MaxKeys = 2
  MaxEps = 2
  MaxJobs = 2
SYMMETRY MCSymmetry
VIEW MCView
INVARIANTS
  AutoAsTold
  SubscribedAsAsked
  OwnTicket
  OneEach
PROPERTIES
  WaitersKept
  PairedAsTold
CHECK_DEADLOCK FALSE
