SPECIFICATION FairMirrorSpec
CHECK_DEADLOCK FALSE
CONSTANTS
  NoDongle = NoDongle
  MAX_LEVEL = 2
  SpawnLevels = {0, 1, 2}
  p0 = p0
  p1 = p1
  Positions <- MCPositions
  Left = p0
  MaxSpawns = 3
  MaxMoves = 1
INVARIANTS
  MirrorIsSnapshot
  ScoreFollows
  NoForgottenMerge
PROPERTY MirrorCatchesUp
