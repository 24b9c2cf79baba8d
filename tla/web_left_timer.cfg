SPECIFICATION Spec
CONSTANTS
  Clients = {c1, c2}
  Fds = {1}
  Workers = {w1}
  Settings <- ClosingSettings
  Lifetime = 1
  MaxSends = 1
  None = None
INVARIANTS TimersMatch
CHECK_DEADLOCK FALSE
