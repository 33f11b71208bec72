SPECIFICATION Spec
CONSTANTS
  MaxRows = 3
  MaxStatements = 3
INVARIANTS
  TypeOK
  OnlyTheLastIsInDoubt
  LoopSkipsOnlyRowZero
CHECK_DEADLOCK FALSE
