SPECIFICATION Spec
CONSTANTS
    s1 = s1
    s2 = s2
    boost = boost
    base = base
    other = other
    NoSession = NoSession
    NoRecord = NoRecord
    NoValue = NoValue
    NumOps = 1
    Sessions <- OneSession
    Values <- SomeValues
    Desired = boost
    ApplyOutcomes <- WorkloadOutcomes
    OtherWriters = FALSE
\* An engine between calls may stay idle.
CHECK_DEADLOCK FALSE
INVARIANT RestoredMeansOriginal
