SPECIFICATION SuiteSpec
CONSTANTS
    None = None
    Freqs <- MCFreqs
    HwMin = 1
    HwMax = None
    MaxGen = 2
    NoValue = NoValue
    ControlValues <- MCControlValues
    Discovered <- MCDiscovered
    Interference = TRUE
    MaxObjects = 3
    Core <- MCCore
    NumaNode <- MCNumaNode
    Hosts <- MCHosts
    Policies <- MCPolicies
    MaxHotplug = 2
INVARIANT RangeValid
INVARIANT WritesAreReported
INVARIANT HousekeepingReserve
INVARIANT CoresKeptWhole
INVARIANT FallbacksTruthful
INVARIANT SubmittedIsCurrent
PROPERTY ReceiptsAreTruthful
PROPERTY ReceiptsHitTarget
\* A call that has answered, and a placement that was decided, is over.
CHECK_DEADLOCK FALSE
