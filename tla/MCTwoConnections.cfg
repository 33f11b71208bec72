SPECIFICATION Spec
CONSTANTS
  c1 = c1
  c2 = c2
  Conns <- TwoConns
  Heads <- PairHeads
  Uris = {"/a"}
  to_lower <- LowerCase
  Garbage = {0}
  ULongMax = 131071
  MaxRequests = 1
SYMMETRY Swaps
INVARIANTS
  RegistryMatchesSockets
  StopDrains
  KeepsAccepting
  ReturnsDrained
CHECK_DEADLOCK FALSE
