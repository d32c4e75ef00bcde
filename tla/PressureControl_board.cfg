CONSTANTS
  NoVal = NoVal
  Disabled = Disabled
  Under = Under
  Nan = Nan
  Over = Over
  Inf = Inf
  Stuck = Stuck
  MaxTank = 3
  Top = 3
  SafetyLimit = 2
  Setpoints = {1, 3}
  Faults = {Nan, Under, Stuck}
  MaxFaults = 1
  f1 = f1
  f2 = f2
  v1 = v1
  v2 = v2
  none = none
  Loop <- MCLoop
  Value <- MCValue
  Filtered <- MCFiltered
  Throttle = 2
  Resend = 3
  TxTimeout = 1
  Outcomes = {"sent", "error", "timeout"}
  MaxBurst = 1
  Horizon = 9
SPECIFICATION BoardSpec
INVARIANTS OpenOnlyAsCommanded FreshWithin
PROPERTIES RisesOnlyBelow Regulates FaultsMadeKnown SettledValueArrives
