SPECIFICATION Spec
CONSTANTS
  Threads = {"main"}
  Main = "main"
  MaxDay = 4
  DaysPerMonth = 3
  LogFileNum = 2
  MaxLines = 4
INVARIANTS
  FileIsOfTheDay
