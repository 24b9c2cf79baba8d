SPECIFICATION Spec
CONSTANTS
  Messages <- SmallMessages
  BodyLength = 2
  BufferSize = 13
  TrigModes = {0, 1}
  MaxServed = 2
  HeadSize = 3
  Files <- SmallSite
INVARIANTS BodyMayBeCut
CHECK_DEADLOCK FALSE
