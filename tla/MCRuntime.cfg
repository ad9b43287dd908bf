SPECIFICATION MCSpec
CONSTANTS
  wk = wk
  al = al
  p = p
  None = None
  x1 = x1
  x2 = x2
  Threads <- MCThreads
  Workers = {wk}
  Aliases = {al, 2}
  Ports = {p}
  Requests <- MCRequests
  MaxTasks = 3
  MaxRequests = 4
  MaxShort = 3
  MaxFiles = 3
  u1 = u1
  u2 = u2
  Users <- MCUsers
  Addrs = {1, 2}
  MaxConns = 3
  MaxOps = 6
  Machines = {2, 5}
  MaxVms = 2
  MaxVmOps = 5
  MaxTerms = 1
  MaxTermOps = 6
SYMMETRY Symmetry
INVARIANTS WorkerHasOneName FilesHaveOneOwner EndsAreUnshared ConnectionsAreCoherent DevicesAreCoherent
CHECK_DEADLOCK FALSE
