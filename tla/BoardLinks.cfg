CONSTANTS
    NoVal = NoVal
    Capacity = 8
    MaxEposRequests = 5
    MaxTimeouts = 3
    MaxLost = 2
    HeaderLen = 2
    DataLen = 1
    JunkLen = 1
    MaxRequests = 3
    MaxMishaps = 1
    Pins = {"cats_separation"}
    SettleTicks = 2
    StatusPeriod = 2
    MaxFlips = 5
    Ids <- MCIds
    SupportedIds <- MCSupportedIds
    Struct <- MCStruct
    Nested <- MCNested
    ResetIds = {"reset"}
    FilterCount = 5
    FifoLen = 2
    MaxFrames = 5
    PanicResets = FALSE
    MaxIndex = 2
    PageCap = 1
    Chunk = 2
    MaxRows = 3
    MaxFaults = 1
    MaxCommands = 2
SPECIFICATION Spec
INVARIANT ShapeMatches MotorAnswersItself CatsReported InputsFollowBus ReportsHold
PROPERTY AnswersInOrder RowsAreKept HostConcludes
CHECK_DEADLOCK FALSE
