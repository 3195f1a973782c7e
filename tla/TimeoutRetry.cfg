SPECIFICATION FairSpec
CONSTANTS
    w1 = w1
    w2 = w2
    Ids = {"a", "b", "c"}
    Workers = {w1, w2}
    Nil = Nil
    Timeouts = {"a", "b"}
    Once = {"a"}
    Unregistered = {}
    Cancellable = {}
    MaxQueueSize = 4
    MaxResubmits = 0
    MaxGen = 2
    Keyed = {"b", "c"}
    Urgent = {}
    Retried = {"a"}
    RetryCap = 0
    StrategyCap = 2
    Keys <- MCKeys
    KeyOf <- MCKeyOf
    Prio <- MCPrio
    MaxRetries <- MCMaxRetries
    StrategyMax <- MCStrategyMax
INVARIANTS
    RecordedOnce
    QueuedIsTracked
    NoStuckTask
    
    
    NoKeyLeak
PROPERTIES
    EventuallyRecorded
CHECK_DEADLOCK FALSE
