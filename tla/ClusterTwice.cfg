SPECIFICATION Spec
CONSTANTS
    i1 = i1
    i2 = i2
    Instances = {i1, i2}
    Tasks = {"t"}
    Nil = Nil
    Late = {i2}
    Cancellable = {}
    MaxRetries = 1
    MaxHeap = 1
    MaxFaults = 0
INVARIANTS
    DeliveredOnce
CHECK_DEADLOCK FALSE
