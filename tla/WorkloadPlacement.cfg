SPECIFICATION ControlSpec
CONSTANTS
    NoValue = NoValue
    ControlValues <- MCControlValues
    Discovered <- MCDiscovered
    Interference = FALSE
    MaxObjects = 3
INVARIANT RestoreWritesPreimage
CHECK_DEADLOCK FALSE
