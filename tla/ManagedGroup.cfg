SPECIFICATION GroupFairSpec
CONSTANTS
    ControlFiles = TRUE
    MaxGroups = 3
PROPERTY EmptyGroupRemoved
\* A removed group is final.
CHECK_DEADLOCK FALSE
