SPECIFICATION Spec
CONSTANTS
    w1 = w1
    w2 = w2
    Ids = {"a"}
    Workers = {w1, w2}
    Nil = Nil
    Timeouts = {}
    Once = {}
    Unregistered = {}
    Cancellable = {"a"}
    MaxQueueSize = 3
    MaxResubmits = 1
    MaxGen = 2
    Keyed = {}
    Urgent = {}
    Retried = {"a"}
    RetryCap = 1
    StrategyCap = 2
    Keys <- MCKeys
    KeyOf <- MCKeyOf
    Prio <- MCPrio
    MaxRetries <- MCMaxRetries
    StrategyMax <- MCStrategyMax
SYMMETRY WorkerSymmetry
INVARIANTS
    TypeOK
    OneCarrier
    RetryBudget
    CancelReachesJob
PROPERTIES
    TerminalSticks
CHECK_DEADLOCK FALSE
