SPECIFICATION DisciplinedSpec
CONSTANTS
    Names = {a, b, c}
    BadNames = {}
    LongNames = {}
    Modes = {{"CREAT"}, {"APPEND"}, {"TRUNC"}, {"CREAT", "APPEND"}}
    NoName = NoName
    Bytes = {x, y}
    Zero = Zero
    MaxLen = 2
    InodeTableSize = 3
    DataBlocks = 3
    MaxOpenFiles = 2
    BlockSize = 2
    MaxDirEntries = 3
    SizeModulus = 64
    MaxOffset = 5
SYMMETRY Symmetry
VIEW WithoutReply
INVARIANTS
    NeverAborted
    NoBlockLeak
PROPERTY StoreContract
