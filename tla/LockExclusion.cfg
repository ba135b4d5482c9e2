SPECIFICATION Spec
CONSTANTS
    p1 = p1
    p2 = p2
    p3 = p3
    NoProc = NoProc
    Procs <- ThreeProcs
    MaxFiles = 3
\* Processes may all have died, or found the bound on files.
CHECK_DEADLOCK FALSE
INVARIANT MutualExclusion
