SPECIFICATION FairFrameSpec
CONSTANT MaxInserts <- MCMaxInserts
INVARIANTS
  NeverOlder
PROPERTY EveryInsertCounts
