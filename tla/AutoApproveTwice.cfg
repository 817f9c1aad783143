SPECIFICATION Spec
CONSTANTS
  s1 = s1
  s2 = s2
  o1 = o1
  o2 = o2
  None = None
  Broken = Broken
  Sessions <- MCSessions1
  Ops <- MCOps
  Lengths <- MCLengths
  MaxTime = 2
  MaxGrants = 1
INVARIANTS
  AnnouncedOnce
