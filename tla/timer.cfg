SPECIFICATION Spec
CONSTANTS
  Timers = {t1, t2, t3}
  Lifetime = 2
  MaxTime = 4
  Null = Null
INVARIANTS WellLinked
PROPERTIES TickIsExact ImplementsSortedTimers
CHECK_DEADLOCK FALSE
