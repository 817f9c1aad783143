SPECIFICATION Spec
CONSTANTS
  a1 = a1
  a2 = a2
  d1 = d1
  d2 = d2
  d3 = d3
  AgentWires <- MCAgentWires2
  PhoneWires <- MCPhoneWires3
  MaxPendingAgents = 1
  MaxPendingPhones = 2
  FreeLimit = 1
  PlusLimit = 2
  MaxDevices = 2
  MaxQueue = 2
SYMMETRY MCSymmetry
VIEW MCView
CONSTRAINT MCBound
INVARIANTS
  CarriedAsMeant
  NoOrphanSlot
  NamesProvenKey
PROPERTY
  WithinLimits
