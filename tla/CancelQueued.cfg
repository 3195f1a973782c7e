SPECIFICATION Spec
CONSTANTS
    w1 = w1
    w2 = w2
    Ids = {"a"}
    Workers = {w1, w2}
    Nil = Nil
    Timeouts = {}
    Once = {}
    Unregistered = {}
    Cancellable = {"a"}
    MaxQueueSize = 3
    MaxResubmits = 0
    MaxGen = 0
    Keyed = {}
    Urgent = {}
    Retried = {}
    RetryCap = 0
    StrategyCap = 0
    Keys <- MCKeys
    KeyOf <- MCKeyOf
    Prio <- MCPrio
    MaxRetries <- MCMaxRetries
    StrategyMax <- MCStrategyMax
SYMMETRY WorkerSymmetry
PROPERTIES
    CancelledNotRevived
CHECK_DEADLOCK FALSE
