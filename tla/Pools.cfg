SPECIFICATION FairSpec
CONSTANTS
    Pools = {"default", "io"}
    Default = "default"
    MaxWorkers = 1
    Configured <- MCConfigured
    ControlCap = 1
    MaxScale = 1
    Scalers = {k1, k2}
    Scaled = {"io"}
    MaxCalls = 2
    MaxTasks = 2
INVARIANTS
    TypeOK
    NoSendOnClosed
    CleanReturn
    
PROPERTIES
    ShutDownReturns
    
CHECK_DEADLOCK FALSE
