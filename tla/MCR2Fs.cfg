CONSTANTS
  Paths <- MCPaths
  Data = {"file", "link"}
  Clients = {c1, c2}
  InitStores <- MCStores
  Operations <- MCOperations
  MaxOps = 3
  MaxFailures = 1
SPECIFICATION Spec
INVARIANTS ListingsAreExact ConflictsAreContention
