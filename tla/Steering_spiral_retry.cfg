CONSTANTS
  NoVal = NoVal
  Targets <- MCTargets
  Spiral <- MCSpiral
  PowerCmds = {TRUE}
  Duration = 1
  BootTicks = 2
  IterTicks = 1
  MoveFaults = {"command"}
  MaxFaults = 1
SPECIFICATION Spec
INVARIANTS SpiralReached
