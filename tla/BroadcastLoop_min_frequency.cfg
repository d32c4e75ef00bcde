CONSTANTS
  NoVal = NoVal
  f1 = f1
  f2 = f2
  v1 = v1
  v2 = v2
  none = none
  Loop <- MCLoop
  Value <- MCValue
  Filtered <- MCFiltered
  Throttle = 2
  Resend = 3
  TxTimeout = 1
  Outcomes = {"sent"}
  MaxBurst = 1
  Horizon = 9
SPECIFICATION LoopSpec
INVARIANTS MinFrequency
