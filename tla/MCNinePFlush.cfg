CONSTANTS
  Paths <- MCPaths
  Data = {"unset", "blank", "torn", "x"}
  Bytes = {"x"}
  Threads = {1}
  Fids = {0, 1, 2}
  DirChunk = 1
  Tags = {a}
  Requests <- MCRequests
  InitFids <- MCFids
  InitTree <- MCTree
SPECIFICATION Spec
PROPERTY FlushedIsSilent
CHECK_DEADLOCK FALSE
