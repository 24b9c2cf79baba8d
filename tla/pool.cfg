SPECIFICATION FairSpec
CONSTANTS
  Workers = {w1, w2, w3}
  Jobs = {j1, j2, j3}
  Failing = {j3}
  MaxRequests = 2
  MaxInterrupts = 1
  Main = Main
  None = None
INVARIANTS ListGuarded TokenLaw NoStrandedJob
PROPERTIES EveryJobAnswered ImplementsTaskQueue
CHECK_DEADLOCK FALSE
