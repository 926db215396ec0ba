SPECIFICATION Spec
CONSTANTS
    Producers = {p1}
    Consumers = {c1}
    NoThread = NoThread
    Capacity = 2
    MaxCalls = 2
    MaxSpurious = 0
INVARIANT FifoDelivery
CHECK_DEADLOCK FALSE
