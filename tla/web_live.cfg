SPECIFICATION FairSpec
CONSTANTS
  Clients = {c1, c2}
  Fds = {1}
  Workers = {w1, w2}
  Settings <- SlowSettings
  Lifetime = 1
  MaxSends = 2
  None = None
INVARIANTS TimersMatch CountsConnections
PROPERTIES SpinEnds ConnectionsEnd BacklogServed
CHECK_DEADLOCK FALSE
