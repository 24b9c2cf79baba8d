SPECIFICATION FairSpec
CONSTANTS
  Threads = {t1, t2}
  MaxSize = 2
  SplitLines = 2
  MaxLines = 2
  MaxDay = 2
  MonthDays = 2
  None = None
INVARIANTS FileMatchesCount SleepsForAReason
PROPERTIES ImplementsLogLines EveryLineFiled
CHECK_DEADLOCK FALSE
