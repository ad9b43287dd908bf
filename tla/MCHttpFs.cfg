SPECIFICATION Spec
CONSTANTS
  u1 = u1
  u2 = u2
  x = x
  y = y
  Users <- MCUsers
  Paths <- MCPaths
  Data <- MCData
  Length <- MCLength
  InitTree <- MCInitTree
  Changes <- MCChanges
  Lookups <- MCLookups
  MaxChanges = 2
  MaxTime = 1
SYMMETRY Symmetry
INVARIANTS OwnChangesAreSeen ValidatorsNameTheirBody
CHECK_DEADLOCK FALSE
