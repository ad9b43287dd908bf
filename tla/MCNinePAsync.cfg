CONSTANTS
  Paths <- MCPaths
  Data = {"unset", "blank", "torn", "x"}
  Bytes = {"x"}
  Threads = {1, 2, 3}
  Fids = {0, 1, 2}
  DirChunk = 1
  Tags = {a, b}
  Requests <- MCRequests
  InitFids <- MCFids
  InitTree <- MCTree
SPECIFICATION Spec
INVARIANTS CancelledIsSilent AttributesAreWhole
PROPERTIES RequestIsAnswered
CHECK_DEADLOCK FALSE
