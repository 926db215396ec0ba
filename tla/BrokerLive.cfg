SPECIFICATION FairSpec
CONSTANTS
    Workers = {w1, w2}
    Publishers = {}
    Subscribers = {s}
    Creators = {m}
    Removers = {r}
    Listers = {}
    Boxes = {a}
    None = None
    Capacity = 4
    MaxBoxes = 1
    MaxOpenFiles = 2
    MaxDescriptors = 9
    MaxLives = 1
    MaxStarts = 3
    MaxKills = 0
INVARIANT
    NobodyForgotten
PROPERTIES
    EveryoneServed
    SubscribersLeft
CHECK_DEADLOCK FALSE
