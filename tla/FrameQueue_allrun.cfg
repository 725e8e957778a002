SPECIFICATION FairFrameSpec
CONSTANT MaxInserts <- MCMaxInserts
INVARIANT AllRun
