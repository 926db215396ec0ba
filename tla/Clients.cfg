SPECIFICATION FairSpec
CONSTANTS
    Letters = {x}
    NUL = NUL
    NewLine = NewLine
    OxFF = OxFF
    EOF = EOF
    MESSAGE_SIZE = 3
    BLOCK_SIZE = 3
    PipeCapacity = 2
    MaxTyped = 4
    MaxInterrupts = 2
INVARIANTS
    TypeOK
    FirstMessage
    OthersEmpty
    LinesSent
    PipeLeftBehind
    OneMessage
PROPERTIES
    InterruptedIsSilent
    SubscriberEnds
CHECK_DEADLOCK FALSE
