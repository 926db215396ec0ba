SPECIFICATION FairSpec
CONSTANTS
    Producers = {p1, p2}
    Consumers = {c1, c2}
    NoThread = NoThread
    Capacity = 2
    MaxCalls = 3
    MaxSpurious = 1
INVARIANTS
    TypeOK
    NoLostPopperWakeup
    NoLostPusherWakeup
    RingBalance
    QuiescentContents
    LoadsNearby
PROPERTIES
    BlockingContract
    SlotContract
CHECK_DEADLOCK FALSE
