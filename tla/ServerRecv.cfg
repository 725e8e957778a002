SPECIFICATION FairSpec
CONSTANTS
  HeaderSize = 2
  MaxDataSize = 3
  BUFFER_COUNT = 3
  FrameSizes <- MCFrameSizes
  MaxTotal <- MCMaxTotal
CHECK_DEADLOCK FALSE
INVARIANTS
  StreamIntact
PROPERTIES
  EventuallyDispatched
  CutOff
