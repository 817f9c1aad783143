SPECIFICATION MCSpec
CONSTANTS
  k1 = k1
  k2 = k2
  m1 = m1
  m2 = m2
  n1 = n1
  n2 = n2
  c1 = c1
  c2 = c2
  x1 = x1
  t1 = t1
  Tabs = {t1, t2}
  Handlers = {h1, h2}
  MaxKeys = 2
  MaxSignals = 2
  None = None
  Machines <- MCMachines
  Mids <- MCMids
  Home <- MCHome
  Plans <- MCPlans
  Checks <- MCChecks
  Removals <- MCRemovals
  MaxClaims = 2
  MaxRevoked = 1
  MaxTickets = 2
SYMMETRY MCSymmetry
VIEW MCView
CONSTRAINT MCBound
INVARIANTS
  RemovedIsGone
  SlotsInPlan
  LastTicketCounts
  BilledOnce
