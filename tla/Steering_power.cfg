CONSTANTS
  NoVal = NoVal
  Targets <- MCTargets
  Spiral <- MCSpiral
  PowerCmds = {TRUE, FALSE}
  Duration = 1
  BootTicks = 2
  IterTicks = 1
  MoveFaults = {"command", "reply"}
  MaxFaults = 1
SPECIFICATION Spec
INVARIANTS PoweredBeforeDriven LockedWhileActive SpiralDeadline
PROPERTIES ImplementsAuthority
