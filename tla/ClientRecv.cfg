SPECIFICATION FairSpec
CONSTANTS
  HeaderSize = 2
  BufferSize = 4
  FrameSizes <- MCFrameSizes
  MaxTotal <- MCMaxTotal
CHECK_DEADLOCK FALSE
INVARIANTS
  StreamIntact
  DecodedAsFirst
PROPERTY EventuallyHandled
