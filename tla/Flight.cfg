CONSTANTS
  NoVal = NoVal
  Targets <- MCTargets
  Spiral <- MCSpiral
  PowerCmds = {TRUE}
  Duration = 3
  BootTicks = 2
  IterTicks = 1
  MoveFaults = {"reply"}
  MaxFaults = 2
SPECIFICATION FlightSpec
INVARIANTS SpiralReached EngineRight FileKept
PROPERTIES ExpiryNeedsSilence SpiralEventually BoardsSettle
CONSTANTS
  Levels <- MCLevels
  MaxMishaps = 1
  MaxReadAttempts = 3
  Cameras <- MCCameras
CHECK_DEADLOCK FALSE
