SPECIFICATION FairSpec
CONSTANTS
  c1 = c1
  c2 = c2
  Conns <- OneConn
  Heads <- AllHeads
  Uris = {"/a", "/A"}
  to_lower <- LowerCase
  Garbage = {0, 2}
  ULongMax = 131071
  MaxRequests = 2
INVARIANTS
  TypeOK
  NoStrandedConnection
  BodyIsWhole
  CallsInOrder
  FieldsAreTheHeaders
PROPERTIES
  FirstRequestIsServed
  ImplementsRegistry
  FirstRequestIsHandedOver
  OneShotConnectionsClose
  GonePeersAreReleased
  StoppedServerReturns
CHECK_DEADLOCK FALSE
