SPECIFICATION GetSpec
CONSTANTS
  MaxTasks = 2
  Key = {k1}
  Version = {v1}
  None = None
  MaxRetries = 2
  Faults <- NoFaults
  Client = {c1}
  GiveUpAfter = 2
  Fallback = {"always", "never"}
INVARIANTS WaitsForTheRight GivenUpIsOver RetryBudget
PROPERTIES EveryTaskSettles EveryGetEnds
CHECK_DEADLOCK FALSE
