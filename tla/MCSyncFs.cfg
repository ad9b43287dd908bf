CONSTANTS
  Paths <- MCPaths
  InitTrees <- MCInitTrees
  Data = {"x", "y"}
  Empty = "x"
  RetainConflicts = TRUE
  MaxGeneration = 2
  MaxRemoteChanges = 1
SPECIFICATION MCSpec
INVARIANTS MarksAreKept
PROPERTIES DirtyPathsAreKept QuietSyncConverges
