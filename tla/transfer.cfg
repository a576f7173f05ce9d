SPECIFICATION FairSpec
CONSTANTS
  Content = {v1, v2}
  Putter = {worker, other}
  Reader = {r1}
  None = None
  Torn = Torn
  Caller = {worker, other}
  Worker = worker
  MaxLogins = 2
  MaxExpiries = 2
  Retries = 1
  MaxRetries = 1
  MaxTasks = 2
INVARIANTS TransferInv ServedEtagIsBodys RefusedMeansStale
PROPERTIES EveryFetchEnds
CHECK_DEADLOCK FALSE
