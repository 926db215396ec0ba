SPECIFICATION Spec
CONSTANTS
    Workers = {w1, w2}
    Publishers = {}
    Subscribers = {}
    Creators = {m}
    Removers = {}
    Listers = {l}
    Boxes = {a}
    None = None
    Capacity = 2
    MaxBoxes = 1
    MaxOpenFiles = 2
    MaxDescriptors = 2
    MaxLives = 2
    MaxStarts = 3
    MaxKills = 0
SYMMETRY Symmetry
INVARIANTS
    TypeOK
    HeldElements
    ListingNeverEnds
PROPERTY QueueContract
CHECK_DEADLOCK FALSE
