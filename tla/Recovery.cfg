SPECIFICATION SuiteSpec
CONSTANTS
    p1 = p1
    p2 = p2
    p3 = p3
    NoProc = NoProc
    Procs <- ThreeProcs
    MaxFiles = 3
    NumOps = 2
    MaxTransitions = 17
    MaxFailures = 3
    MaxBytes = 14
    TransitionBytes = 1
    FailureBytes = {1, 3}
    Sessions = {1, 2}
    Records = {1, 2}
    Finished = {2}
    MaxFaults = 2
    MaxCalls = 3
    ControlFiles = FALSE
    MaxGroups = 3
INVARIANT ExclusionUnlessRaced
INVARIANT CleanPassFits
INVARIANT LoadIsExact
INVARIANT WrittenIsReadable
INVARIANT AcceptedIsWritable
INVARIANT RemovesOwnUnlessRaced
PROPERTY DeadOwnerReclaimed
PROPERTY StoreIsAtomic
\* A restored session, a record that was read and a removed group are final.
CHECK_DEADLOCK FALSE
