CONSTANTS
  Paths <- MCPaths
  Data = {"unset", "blank", "torn", "x", "y"}
  Bytes = {"x", "y"}
  t1 = t1
  t2 = t2
  Threads <- MCThreads
  Fids = {1, 2, 3, 4, 5, 6, 7, 8, 9, 10}
  DirChunk = 1
  Calls <- MCCalls
  InitTree <- MCTree
  MaxCalls = 2
  MaxFailures = 1
  Base = 4
  MaxCut = 3
SPECIFICATION MCSpec
SYMMETRY Symmetry
INVARIANTS NoFidLeak ListingIsExact FramesAreExact
