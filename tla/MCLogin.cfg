SPECIFICATION Spec
CONSTANTS
  s1 = s1
  s2 = s2
  Sessions <- TwoSessions
  BufferSize = 3
  MaxBytes = 5
INVARIANTS
  TypeOK
  PrintsWhatArrived
  SessionsAreReading
  AcceptsUntilFailure
PROPERTY ImplementsRegistry
CHECK_DEADLOCK FALSE
