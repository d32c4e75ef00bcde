CONSTANTS
  NoVal = NoVal
  OpenPosition = 2
  Rest <- MCRest
  MaxErrors = 2
  MaxFaults = 2
SPECIFICATION FairSpec
INVARIANTS MovedOnlyWhenHomed
PROPERTIES ValveSettles
