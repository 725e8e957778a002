SPECIFICATION FairSpec
CHECK_DEADLOCK FALSE
CONSTANTS
  None = None
  Me <- MCMe
  Other <- MCOther
  Capacity = 3
  MaxVisits = 2
INVARIANTS
  JobsOnce
  RoomFollows
PROPERTY CatchesUp
