SPECIFICATION FairWrap
CONSTANTS
  Conn = {n1, n2}
  MaxSignals = 2
  NoCode = NoCode
INVARIANTS WrappedInv
PROPERTIES SignalEndsRun PumpsEnd
CHECK_DEADLOCK FALSE
