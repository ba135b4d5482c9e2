SPECIFICATION FairSpec
CONSTANTS
    s1 = s1
    s2 = s2
    boost = boost
    base = base
    other = other
    NoSession = NoSession
    NoRecord = NoRecord
    NoValue = NoValue
    NumOps = 2
    Sessions <- OneSession
    Values <- SomeValues
    Desired = boost
    ApplyOutcomes <- CpuOutcomes
    OtherWriters = TRUE
\* An engine between calls may stay idle.
CHECK_DEADLOCK FALSE
INVARIANT JournalCoversHost
INVARIANT RecordsSerializable
INVARIANT ReverseRestoreOrder
INVARIANT AppliesInOrder
PROPERTY LeaseReleasedClean
PROPERTY RecoveryConverges
PROPERTY EngineIsLedger
