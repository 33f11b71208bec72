SPECIFICATION Spec
CONSTANT MaxHeaders = 3
INVARIANTS
  TypeOK
  BackIsDefined
  VerdictAtEndOfBlock
  VersionIsKnown
PROPERTY LaterBlocksLeaveRequest
CHECK_DEADLOCK FALSE
