CONSTANTS
  NoVal = NoVal
  HoldTicks = 1
  MaxTriggers <- MCMaxTriggers
SPECIFICATION FairSpec
INVARIANTS PushedOnTrigger AnnouncedOnPush
PROPERTIES FullPush CommandsAnswered
