SPECIFICATION FairSpec
CONSTANTS
    i1 = i1
    i2 = i2
    Instances = {i1, i2}
    Tasks = {"t"}
    Nil = Nil
    Late = {}
    Cancellable = {}
    MaxRetries = 1
    MaxHeap = 1
    MaxFaults = 2
INVARIANTS
    TypeOK

    
CHECK_DEADLOCK FALSE
