SPECIFICATION Spec
CONSTANTS
  s1 = s1
  s2 = s2
  w1 = w1
  None = None
  Sessions <- MCSessions
  Workers <- MCWorkers
  Added <- MCAdded
  Senders <- MCSenders
  MaxTests = 2
  MaxListed = 1
CHECK_DEADLOCK FALSE
INVARIANTS
  StopsFirst
  Survives
  FreedAtLast
  NoOrphan
PROPERTY UIResponds
