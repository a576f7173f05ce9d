SPECIFICATION AskingSpec
CONSTANTS
  MaxTasks = 2
  Key = {k1}
  Version = {v1}
  None = None
  MaxRetries = 0
  Faults <- RestartOnly
PROPERTIES InProgressIsResumed
CHECK_DEADLOCK FALSE
