SPECIFICATION FairSpec
CONSTANTS
    Workers = {w1}
    Publishers = {p}
    Subscribers = {}
    Creators = {}
    Removers = {}
    Listers = {}
    Boxes = {a}
    None = None
    Capacity = 4
    MaxBoxes = 1
    MaxOpenFiles = 2
    MaxDescriptors = 9
    MaxLives = 1
    MaxStarts = 1
    MaxKills = 0
PROPERTY PublisherServed
CHECK_DEADLOCK FALSE
