SPECIFICATION FairSpec
CONSTANTS
    p1 = p1
    p2 = p2
    p3 = p3
    NoProc = NoProc
    Procs <- TwoProcs
    MaxFiles = 3
\* Processes may all have died, or found the bound on files.
CHECK_DEADLOCK FALSE
PROPERTY StaleLockReclaimed
