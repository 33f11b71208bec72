SPECIFICATION Spec
CONSTANTS
  c1 = c1
  c2 = c2
  Conns <- OneConn
  Heads <- AllHeads
  Uris = {"/a", "/A"}
  to_lower <- LowerCase
  Garbage = {0}
  ULongMax = 131071
  MaxRequests = 1
PROPERTY RegisteredTargetIsServed
CHECK_DEADLOCK FALSE
