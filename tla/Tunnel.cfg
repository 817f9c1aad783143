SPECIFICATION FairSpec
CONSTANTS
  r1 = r1
  r2 = r2
  pair = pair
  s1 = s1
  Reqs <- MCReqs
  Pair = pair
  Subs <- MCSubs
  MaxLine = 2
  MaxGen = 2
  Scenes <- MCScenes
CHECK_DEADLOCK FALSE
INVARIANTS
  EventsLiveTrue
  RouteInOrder
PROPERTIES
  ExchangeSpec
  NoRevival
  AllGo
