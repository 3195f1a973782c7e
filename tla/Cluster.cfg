SPECIFICATION Spec
CONSTANTS
    i1 = i1
    i2 = i2
    Instances = {i1, i2}
    Tasks = {"t"}
    Nil = Nil
    Late = {i2}
    Cancellable = {"t"}
    MaxRetries = 1
    MaxHeap = 1
    MaxFaults = 1
INVARIANTS
    NoLostTask
PROPERTIES
    LeaseRespected
CHECK_DEADLOCK FALSE
