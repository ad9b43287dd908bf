SPECIFICATION MCSpec
CONSTANTS
  s1 = s1
  s2 = s2
  x = x
  Stores <- MCStores
  Data <- MCData
  InitTree <- MCInitTree
  Names <- MCNames
  Sources <- MCSources
  Points <- MCPoints
  Hidden <- MCHidden
  Short = {1}
  MaxTargets = 2
  MaxCalls = 5
  GuestPaths <- MCGuestPaths
  NodeIds <- MCNodeIds
  Bytes = {7}
  Buffers = {3, 4}
  MaxLen = 2
  MaxFd = 5
  MaxOps = 4
VIEW View
INVARIANTS ListingsMatchStat DescriptorsSeeTheirFile ListingsAreWhole
PROPERTY ChangesAreMadeInView
CHECK_DEADLOCK FALSE
