CONSTANTS
  NoVal = NoVal
  OpenPosition = 2
  Rest <- MCRest
  MaxErrors = 1
  MaxFaults = 1
SPECIFICATION Spec
INVARIANTS InitFailureReported

