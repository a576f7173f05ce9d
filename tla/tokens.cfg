SPECIFICATION APISpec
CONSTANTS
  Device = {d1}
  MaxSecrets = 3
  Caller = {c1,c2}
  Nobody = Nobody
  TokenFaults <- TokenSaveAndRestart
  MaxTime = 2
  Burst = 2
  PerTick = 4
  Window = 1
  Most = 2
INVARIANTS TokenIndexAgrees RevocationIsFinal RetiredIsDead BudgetHolds RateHolds
SYMMETRY Interchangeable
CHECK_DEADLOCK FALSE
