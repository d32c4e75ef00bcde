CONSTANTS
    MaxErrors = 1
    InitAttempts = 2
    MaxFaults = 2
    Capacity = 12
    LowByte = 10
    Watermark = 4
    LoopTimeout = 3
    Fraction = 7
    MaxImuErrors = 2
    MaxDelay = 0
    MaxImuFaults = 1
    Week = 4
    MaxGnssErrors = 2
    UartMax = 2
    MaxGnssFaults = 2
    MaxNodeErrors = 2
    SourceTimeout = 1
    Dwell = 2
    BaseWait = 1
    MaxWait = 2
    TryBits = 2
    PowBits = 2
    Window = 2
    Tiers = {2, 3}
    Pdops = {0, 1, 2}
    MaxNodeFaults = 2
    NoVal = NoVal
    Field = {"field"}
    Rank <- MCRank
    MinPeriod = 2
    SendTimeout = 1
    TickerPeriod = 2
    Mailboxes = 1
    MaxLate = 2
    MaxBusFaults = 2
SPECIFICATION Spec
INVARIANT PairsRight FixesAreNew KeepsPublishing
PROPERTY ReadoutsRecover
CHECK_DEADLOCK FALSE
