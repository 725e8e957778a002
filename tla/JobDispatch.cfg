SPECIFICATION FairSpec
CONSTANTS
  t1 = t1
  t2 = t2
  t3 = t3
  q1 = q1
  q2 = q2
  j1 = j1
  j2 = j2
  None = None
  Threads <- MCThreads
  Queues <- MCQueues
  Jobs <- MCJobs
  MaxJobs = 2
CHECK_DEADLOCK FALSE
INVARIANTS
  Serial
  NoForgottenQueue
PROPERTIES
  ImplementsExecutor
  EventuallyRun
