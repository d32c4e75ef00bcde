CONSTANTS
    BlockSize = 3
    BufferSize = 6
    MaxRow = 3
    MaxHeader = 3
    MaxBytes = 13
    NoVal = NoVal
    Kinds = 2
    Capacity <- MCCapacity
    Oversized = {1}
    MaxPublished = 3
    MaxSessions = 2
    MaxFailures = 1
    MeanSamples = 2
    SelectorAge = 1
    ImuFresh = 1
    PublishPeriod = 1
    Backlog = 2
    TxBuffer = 1
    MaxChanges = 1
    Keys = {"imu", "mag"}
    Sectors = 3
    SectorLen = 2
    PageSize = 3
    ItemLen = 2
    MaxCommands = 2
    MaxUpsets = 1
SPECIFICATION Spec
INVARIANT InOrder AccountedFor MeanOfOneImu AppliedIsStored
PROPERTY ImplementsDurableLog CarrierSettles
CHECK_DEADLOCK FALSE
