SPECIFICATION Spec
CONSTANTS
  Messages <- SmallMessages
  BodyLength = 2
  BufferSize = 13
  TrigModes = {0, 1}
  MaxServed = 2
  HeadSize = 3
  Files <- SmallSite
INVARIANTS TypeOK CutsDoNotMatter NeverEarly SentInOrder MappedWhileSent
PROPERTIES WriteReturns
CHECK_DEADLOCK FALSE
