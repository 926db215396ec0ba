SPECIFICATION Spec
CONSTANTS
    Names = {a, b, c, slash, long}
    BadNames = {slash}
    LongNames = {long}
    Modes = {{}, {"CREAT"}, {"TRUNC"}, {"APPEND"}, {"CREAT", "TRUNC"}, {"CREAT", "APPEND"},
             {"TRUNC", "APPEND"}, {"CREAT", "TRUNC", "APPEND"}}
    NoName = NoName
    Bytes = {x, y}
    Zero = Zero
    MaxLen = 2
    InodeTableSize = 4
    DataBlocks = 3
    MaxOpenFiles = 2
    BlockSize = 2
    MaxDirEntries = 2
    SizeModulus = 64
    MaxOffset = 5
SYMMETRY Symmetry
VIEW Structure
INVARIANTS
    TypeOK
    DirectoryConsistent
    BlocksOwned
PROPERTIES
    AbortsAreStale
    ContentsKept
    FailuresKeepFiles
CHECK_DEADLOCK FALSE
