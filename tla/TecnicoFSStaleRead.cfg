SPECIFICATION Spec
CONSTANTS
    Names = {a, slash, long}
    BadNames = {slash}
    LongNames = {long}
    Modes = {{}, {"CREAT"}, {"TRUNC"}, {"APPEND"}, {"CREAT", "TRUNC"}, {"CREAT", "APPEND"},
             {"TRUNC", "APPEND"}, {"CREAT", "TRUNC", "APPEND"}}
    NoName = NoName
    Bytes = {x}
    Zero = Zero
    MaxLen = 2
    InodeTableSize = 4
    DataBlocks = 3
    MaxOpenFiles = 2
    BlockSize = 2
    MaxDirEntries = 2
    SizeModulus = 64
    MaxOffset = 5
PROPERTY ReadsEndAtFileSize
CHECK_DEADLOCK FALSE
