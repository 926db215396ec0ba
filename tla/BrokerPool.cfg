SPECIFICATION Spec
CONSTANTS
    Workers = {w1}
    Publishers = {}
    Subscribers = {}
    Creators = {m}
    Removers = {}
    Listers = {l}
    Boxes = {a}
    None = None
    Capacity = 4
    MaxBoxes = 1
    MaxOpenFiles = 2
    MaxDescriptors = 9
    MaxLives = 1
    MaxStarts = 2
    MaxKills = 0
INVARIANT PoolIntact
CHECK_DEADLOCK FALSE
