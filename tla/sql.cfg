SPECIFICATION FairSpec
CONSTANTS
  Workers = {w1, w2, w3}
  Conns = {c1, c2}
  MaxInterrupts = 1
  Null = Null
INVARIANTS ExclusiveHold Accounted TokenIsConnection
PROPERTIES NeverStalls
CHECK_DEADLOCK FALSE
