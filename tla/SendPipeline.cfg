SPECIFICATION FairSpec
CONSTANTS
  t1 = t1
  t2 = t2
  t3 = t3
  half = half
  large = large
  Threads <- MCThreads
  Buffers <- MCBuffers
  Size <- MCSize
  MAX_SEND_SIZE = 2
  MaxSends = 3
INVARIANTS
  SingleUser
  KeptAlive
  NoLostWakeup
PROPERTIES
  ImplementsChannel
  EventuallySent
