SPECIFICATION Spec
CONSTANTS
  ka = ka
  kb = kb
  q1 = q1
  q2 = q2
  List = List
  None = None
  Calls <- MCCalls
  Keys <- MCKeys1
  KeyMaps <- MCKeyMapsEqual
  SubKeys <- MCSubA
  Requests <- MCReq2
SYMMETRY MCSymmetry
VIEW MCView
PROPERTIES
  ShownStays
