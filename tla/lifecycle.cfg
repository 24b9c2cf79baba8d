SPECIFICATION Spec
CONSTANTS
  Workers = {w1}
  Starts <- SmallStarts
  MaxQuits = 2
  MaxTerms = 1
INVARIANTS AsConfigured
PROPERTIES TermStops QuitEnds
CHECK_DEADLOCK FALSE
