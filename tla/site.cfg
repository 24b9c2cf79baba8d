SPECIFICATION Spec
CONSTANTS
  Workers = {w1, w2}
  Objects = {o1, o2}
  Requests <- SomeRequests
  Leftovers <- SomeLeftovers
  FileOf <- SharedFile
  FirstRows <- ThreeUsers
  OtherRows <- CatsRow
  MaxRows = 5
  Settings <- SmallSettings
  None = None
SYMMETRY Symmetry
INVARIANTS RightView OwnPage RestartChangesNothing
CHECK_DEADLOCK FALSE
