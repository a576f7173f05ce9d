SPECIFICATION ServerSpec
CONSTANTS
  MaxTasks = 2
  Key = {k1}
  Version = {v1}
  None = None
  MaxRetries = 2
  Faults <- SaveRestartAndStall
INVARIANTS ReadyIsServable ProcessorInStep IndexIsLatest
PROPERTIES KeepsLifecycle TerminalIsFinal
CHECK_DEADLOCK FALSE
