SPECIFICATION FairSpec
CONSTANTS
    Producers = {p1, p2}
    Consumers = {c1, c2}
    NoThread = NoThread
    Capacity = 1
    MaxCalls = 3
    MaxSpurious = 0
INVARIANTS
    NoLostPusherWakeup
    NoDoubleFree
PROPERTY BlockingContract
CHECK_DEADLOCK FALSE
