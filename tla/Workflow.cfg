SPECIFICATION FairSpec
CONSTANTS
    Nil = Nil
    Tasks <- MCTasks
    Deps <- MCDeps
    Ends <- MCEnds
    Keyed = {"d"}
    Rerun = {"a"}
    MaxReruns = 1
    MaxFaults = 1
INVARIANTS
    TypeOK
    ReleasedAfterParents
    ReleasedOnce
PROPERTIES
    WaitersReleased
CHECK_DEADLOCK FALSE
