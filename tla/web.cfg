SPECIFICATION Spec
CONSTANTS
  Clients = {c1, c2, c3}
  Fds = {1, 2}
  Workers = {w1, w2}
  Settings <- MixedSettings
  Lifetime = 1
  MaxSends = 1
  None = None
SYMMETRY Symmetry
INVARIANTS OneWorker OwnAnswers NobodyForgotten Handshake NoDanglingTimer OpenHasTimer
PROPERTIES NotUnderWorker
CHECK_DEADLOCK FALSE
