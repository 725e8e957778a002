SPECIFICATION FairSpec
CONSTANTS
  t1 = t1
  t2 = t2
  b1 = b1
  b2 = b2
  None = None
  Threads <- MCThreads
  Buffers <- MCBuffers
  SendLists <- MCSendLists
  MaxSends = 3
CHECK_DEADLOCK FALSE
INVARIANTS
  SingleOperation
PROPERTIES
  ImplementsChannel
  EventuallySent
