SPECIFICATION Spec
CONSTANTS
  s1 = s1
  s2 = s2
  h1 = h1
  h2 = h2
  k1 = k1
  w1 = w1
  w2 = w2
  None = None
  Sessions <- MCSessions
  Handles <- MCHandles
  Slots <- MCSlots
  Workers <- MCWorkers
SYMMETRY MCSymmetry
CHECK_DEADLOCK FALSE
INVARIANTS
  References
  OneChain
  SlotNeverLost
  ServerSet
  OwnSocket
