SPECIFICATION Spec
CONSTANTS
  t1 = t1
  t2 = t2
  Threads <- TwoThreads
  Uris = {"/a", "/b"}
  MaxCalls = 2
  MaxDepth = 1
INVARIANT TableIsExclusive
CHECK_DEADLOCK FALSE
