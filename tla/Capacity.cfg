SPECIFICATION Spec
CONSTANTS
    w1 = w1
    Ids = {"a", "b", "c", "d"}
    Workers = {w1}
    Nil = Nil
    Timeouts = {}
    Once = {"c"}
    Unregistered = {"c"}
    Cancellable = {"c"}
    MaxQueueSize = 2
    MaxResubmits = 1
    MaxGen = 2
    Keyed = {}
    Urgent = {"d"}
    Retried = {"a"}
    RetryCap = 1
    StrategyCap = 1
    Keys <- MCKeys
    KeyOf <- MCKeyOf
    Prio <- MCPrio
    MaxRetries <- MCMaxRetries
    StrategyMax <- MCStrategyMax
INVARIANTS
    Backpressure
    DeadCountExact
CHECK_DEADLOCK FALSE
