CONSTANTS
    PanicResets = FALSE
    MaxIndex = 2
    PageCap = 1
    Chunk = 2
    MaxRows = 1
    MaxFaults = 0
    MaxCommands = 1
SPECIFICATION Spec
PROPERTY PanicRestarts
CHECK_DEADLOCK FALSE
