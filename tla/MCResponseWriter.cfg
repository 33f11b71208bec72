SPECIFICATION Spec
CONSTANTS
  MaxAnswers = 3
  MaxSize = 2
INVARIANTS
  TypeOK
  AnswersInOrder
  OneShotAnswerIsWhole
  NothingIsLost
CHECK_DEADLOCK FALSE
