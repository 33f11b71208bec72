SPECIFICATION FairSpec
CONSTANTS
  t1 = t1
  t2 = t2
  Threads <- TwoThreads
  Uris = {"/a", "/b"}
  MaxCalls = 4
  MaxDepth = 2
INVARIANTS
  TypeOK
  LateCallsSeeTheTable
PROPERTIES
  EveryCallReturns
CHECK_DEADLOCK FALSE
