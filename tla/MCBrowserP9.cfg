SPECIFICATION Spec
CONSTANTS
  a = a
  b = b
  Paths <- MCPaths
  Data = {"file"}
  Ops = {1, 2}
  Calls <- MCCalls
  InitTree <- MCTree
  InitBlocks <- MCBlocks
  NTags = 4
  DirectTags = {1}
  DirChunk = 1
  MaxCalls = 2
  MaxTroubles = 1
INVARIANTS ResultsAreExact NoFidLeak NoCallIsStranded
CHECK_DEADLOCK FALSE
