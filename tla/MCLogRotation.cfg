SPECIFICATION Spec
CONSTANTS
  Threads = {"main", "console"}
  Main = "main"
  MaxDay = 4
  DaysPerMonth = 3
  LogFileNum = 2
  MaxLines = 3
CONSTRAINT BackForTwoLines
INVARIANTS
  TypeOK
  LinesInOrder
  LatestFilesAreWhole
  FileIsOfTheDayIfBusy
PROPERTY RemovesOnlyItsOwn
