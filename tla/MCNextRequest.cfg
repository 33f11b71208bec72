SPECIFICATION Spec
CONSTANTS
  c1 = c1
  c2 = c2
  Conns <- OneConn
  Heads <- PairHeads
  Uris = {"/a"}
  to_lower <- LowerCase
  Garbage = {0}
  ULongMax = 131071
  MaxRequests = 2
PROPERTY NextRequestIsServed
CHECK_DEADLOCK FALSE
