SPECIFICATION FairSpec
CONSTANTS
    e1 = e1
    e2 = e2
    Ents = {e1, e2}
    Nil = Nil
    Size = 2
    MaxLevel = 2
    Start = 1
    MaxTime = 9
    Deadlines = {2, 9}
    MayStop = TRUE
    Shared = {e1, e2}
    MayCancel = TRUE
    TickMs <- MCTickMs
    TaskOf <- MCTaskOf
    Ids <- MCIds
    Cancellable <- MCCancellable
INVARIANTS
    TypeOK
    NoLostEntry
    NoLostWakeup
    FiresOnce
    Reachable
PROPERTIES
    
    EveryEntryResolved
    StopReturns
CHECK_DEADLOCK FALSE
