SPECIFICATION FairIDSpec
CONSTANTS
  t1 = t1
  t2 = t2
  Nobody = Nobody
  Callers <- MCCallers
  MAX_ID = 3
  MaxLive = 5
INVARIANTS
  OneHolder
PROPERTIES
  InRotation
  GenerateEnds
