SPECIFICATION Spec
CONSTANTS
    Workers = {w1, w2}
    Publishers = {}
    Subscribers = {}
    Creators = {m1, m2}
    Removers = {r}
    Listers = {}
    Boxes = {a, b}
    None = None
    Capacity = 4
    MaxBoxes = 1
    MaxOpenFiles = 2
    MaxDescriptors = 3
    MaxLives = 1
    MaxStarts = 3
    MaxKills = 1
SYMMETRY Symmetry
INVARIANTS
    PoolLoss
    OpenReturns
    CrashExplained
    NobodyForgotten
PROPERTY BoxContract
CHECK_DEADLOCK FALSE
