SPECIFICATION Spec
CONSTANTS
  Timers = {t1, t2}
  Lifetime = 1
  MaxTime = 3
  Null = Null
INVARIANTS OnlyLiveTimers
CHECK_DEADLOCK FALSE
