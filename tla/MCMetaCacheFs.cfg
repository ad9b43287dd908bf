CONSTANTS
  Paths <- MCPaths
  Data = {"m", "n", "link"}
  Users = {u1, u2}
  Refreshers = {r1}
  LinkTarget <- MCTarget
  InitTrees <- MCTrees
  Keys <- MCKeys
  Mutations <- MCMutations
  ForeignChanges <- MCForeign
  Ttls = {0, 2}
  MaxTime = 2
  MaxMutations = 1
  MaxDisturbances = 1
SPECIFICATION Spec
SYMMETRY MCSymmetry
INVARIANTS ChangesAreSeen RefreshIsRunning
CHECK_DEADLOCK FALSE
