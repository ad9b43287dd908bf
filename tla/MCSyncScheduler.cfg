CONSTANTS
  h1 = h1
  h2 = h2
  c1 = c1
  Handles = {h1, h2}
  Callers = {c1}
  Debounce = 1
  MaxRequests = 2
  MaxTime = 3
SPECIFICATION Spec
INVARIANTS NoRequestLost OneBackgroundThread
PROPERTIES ImplementsDebouncedSync OneTryPerRequest RequestIsServed ShutdownReturns
