------------------------------- MODULE TecnicoFS -------------------------------
(* The in-memory file system the broker keeps its boxes in: fs/state.c (inode      *)
(* table, data blocks, root directory, open file table) under fs/operations.c      *)
(* (open, close, write, read, unlink).                                             *)
(*                                                                                 *)
(* Every operation holds g_library_mutex from its first line to its last, so one   *)
(* operation is one step, whatever the threads that call it.  What the mutex does  *)
(* not order is the CALLS: another session may unlink or truncate a file between   *)
(* two operations on an open handle, and Spec allows every order.                  *)
EXTENDS Integers, Sequences, FiniteSets, FiniteSetsExt

CONSTANTS
    Names,           \* path names callers use
    BadNames,        \* those of them valid_pathname rejects
    LongNames,       \* those of them too long for a directory entry
    Modes,           \* tfs_open modes callers use: sets of "CREAT", "TRUNC", "APPEND"
    NoName,          \* the d_name of an empty directory entry (zeros)
    Bytes,           \* byte values callers write
    Zero,            \* the content of memory nobody wrote
    MaxLen,          \* bound on the buffer length of a call
    InodeTableSize, DataBlocks, MaxOpenFiles, BlockSize, MaxDirEntries,
    SizeModulus,     \* size_t arithmetic is modulo this
    MaxOffset        \* bound on the offset reads past the end may reach

ASSUME TecnicoFSAssumption ==
    /\ BadNames \subseteq Names /\ LongNames \subseteq Names \ BadNames
    /\ Modes \subseteq SUBSET {"CREAT", "TRUNC", "APPEND"}
    /\ NoName \notin Names
    /\ Zero \notin Bytes
    /\ {MaxLen, InodeTableSize, DataBlocks, MaxOpenFiles, BlockSize, MaxDirEntries,
        SizeModulus, MaxOffset} \subseteq Nat \ {0}
    /\ BlockSize + MaxLen <= MaxOffset
    /\ MaxOffset + MaxLen < SizeModulus

VARIABLES
    inode_table,      \* i_size and i_data_block of every inode
    freeinode_ts,     \* the inumbers that are FREE
    fs_data,          \* the bytes of all blocks, one after the other
    free_blocks,      \* the block numbers that are FREE
    dir_entry,        \* the entries in the root directory's block
    open_file_table,  \* of_inumber and of_offset of the handles that are TAKEN
    aborted,          \* an assertion or a memory access ended the process
    reply             \* what the last operation returned

disk == <<inode_table, freeinode_ts, fs_data, free_blocks, dir_entry>>
vars == <<disk, open_file_table, aborted, reply>>

Inumbers == 0 .. InodeTableSize - 1
Blocks == 0 .. DataBlocks - 1
Handles == 0 .. MaxOpenFiles - 1
Entries == 0 .. MaxDirEntries - 1
Addresses == 0 .. DataBlocks * BlockSize - 1
ROOT_DIR_INUM == 0

Buffers == UNION {[1 .. n -> Bytes] : n \in 0 .. MaxLen}

Returned(ret) == [ret |-> ret, data |-> <<>>]
EmptyEntry == [d_name |-> NoName, d_inumber |-> -1]

(* tfs_init: the root directory takes the first inode and the first block. *)
Init ==
    /\ inode_table = [i \in Inumbers |->
                        IF i = ROOT_DIR_INUM
                        THEN [i_size |-> BlockSize, i_data_block |-> 0]
                        ELSE [i_size |-> 0, i_data_block |-> 0]]
    /\ freeinode_ts = Inumbers \ {ROOT_DIR_INUM}
    /\ fs_data = [a \in Addresses |-> Zero]
    /\ free_blocks = Blocks \ {0}
    /\ dir_entry = [e \in Entries |-> EmptyEntry]
    /\ open_file_table = [h \in {} |-> {}]
    /\ aborted = FALSE
    /\ reply = Returned(0)

--------------------------------------------------------------------------------
(* Helpers *)

(* Subtraction of two size_t values wraps around. *)
Sub(a, b) == (SizeModulus + a - b) % SizeModulus

Extend(f, x, v) == [y \in DOMAIN f \cup {x} |-> IF y = x THEN v ELSE f[y]]

(* find_in_dir, the inumber or -1 *)
FindInDir(name) ==
    LET found == {e \in Entries : /\ dir_entry[e].d_inumber # -1
                                  /\ dir_entry[e].d_name = name}
    IN  IF found = {} THEN -1 ELSE dir_entry[Min(found)].d_inumber

(* add_dir_entry: the first empty entry. *)
EmptyEntries == {e \in Entries : dir_entry[e].d_inumber = -1}

NoEntryFor(name) == name \in LongNames \/ EmptyEntries = {}

AddDirEntry(name, inum) ==
    dir_entry' = [dir_entry EXCEPT ![Min(EmptyEntries)] =
                    [d_name |-> name, d_inumber |-> inum]]

(* Mutant: the directory entry stays. *)
ClearDirEntryNot(name) == UNCHANGED dir_entry

(* clear_dir_entry: the first entry of that name. *)
ClearDirEntry(name) ==
    LET named == {e \in Entries : dir_entry[e].d_name = name}
    IN  dir_entry' = [dir_entry EXCEPT ![Min(named)] = EmptyEntry]

(* inode_alloc and data_block_alloc take the first that is FREE; inode_create makes*)
(* an empty file of the inode.                                                     *)
InodeAlloc == Min(freeinode_ts)
DataBlockAlloc == Min(free_blocks)
InodeCreate(inum) ==
    inode_table' = [inode_table EXCEPT ![inum] = [i_size |-> 0, i_data_block |-> -1]]

(* The block to free with the content of an inode, if it has any. *)
ContentBlock(inum) ==
    IF inode_table[inum].i_size > 0 THEN {inode_table[inum].i_data_block} ELSE {}

(* Mutant: the block is not freed with its inode. *)
InodeDeleteOnly(inum) ==
    freeinode_ts' = freeinode_ts \cup {inum} /\ UNCHANGED free_blocks

InodeDelete(inum) ==
    /\ freeinode_ts' = freeinode_ts \cup {inum}
    /\ free_blocks' = free_blocks \cup ContentBlock(inum)

(* add_to_open_file_table: the first free entry, or -1 when there is none. *)
AddToOpenFileTable(inum, offset) ==
    LET free == Handles \ DOMAIN open_file_table
    IN  IF free = {}
        THEN /\ reply' = Returned(-1)
             /\ UNCHANGED open_file_table
        ELSE /\ reply' = Returned(Min(free))
             /\ open_file_table' = Extend(open_file_table, Min(free),
                                          [of_inumber |-> inum, of_offset |-> offset])

(* An early return that leaves everything as it was. *)
Fail == reply' = Returned(-1) /\ UNCHANGED <<disk, open_file_table, aborted>>

(* PANIC, a failed ALWAYS_ASSERT or a wild memory access. *)
Abort == aborted' = TRUE /\ UNCHANGED <<disk, open_file_table, reply>>

--------------------------------------------------------------------------------
(* tfs_open *)

(* Mutant: truncating frees the block and leaves the size. *)
OpenSizeKept(inum, mode) == inode_table[inum].i_size
OpenSize(inum, mode) == IF "TRUNC" \in mode THEN 0 ELSE inode_table[inum].i_size

OpenExisting(name, mode) ==
    LET inum == FindInDir(name)
        size == OpenSize(inum, mode)
    IN  /\ name \notin BadNames /\ inum # -1
        /\ free_blocks' = IF "TRUNC" \in mode
                          THEN free_blocks \cup ContentBlock(inum)
                          ELSE free_blocks
        /\ inode_table' = [inode_table EXCEPT ![inum].i_size = size]
        /\ AddToOpenFileTable(inum, IF "APPEND" \in mode THEN size ELSE 0)
        /\ UNCHANGED <<freeinode_ts, fs_data, dir_entry, aborted>>

(* Mutant: the inode is not given back when the directory has no place. *)
GiveBackNothing(name) == {}
GiveBack(name) == IF NoEntryFor(name) THEN {InodeAlloc} ELSE {}

(* The new inode is given back when the directory has no place for the name, but   *)
(* a file that found no free handle stays created.                                 *)
OpenNew(name, mode) ==
    /\ name \notin BadNames /\ FindInDir(name) = -1
    /\ "CREAT" \in mode /\ freeinode_ts # {}
    /\ InodeCreate(InodeAlloc)
    /\ freeinode_ts' = (freeinode_ts \ {InodeAlloc}) \cup GiveBack(name)
    /\ IF NoEntryFor(name)
       THEN reply' = Returned(-1) /\ UNCHANGED <<dir_entry, open_file_table>>
       ELSE AddDirEntry(name, InodeAlloc) /\ AddToOpenFileTable(InodeAlloc, 0)
    /\ UNCHANGED <<fs_data, free_blocks, aborted>>

OpenFails(name, mode) ==
    /\ \/ name \in BadNames
       \/ FindInDir(name) = -1 /\ ("CREAT" \notin mode \/ freeinode_ts = {})
    /\ Fail

Open(name, mode) ==
    OpenExisting(name, mode) \/ OpenNew(name, mode) \/ OpenFails(name, mode)

--------------------------------------------------------------------------------
(* tfs_close *)

Close(h) ==
    IF h \notin DOMAIN open_file_table
    THEN Fail
    ELSE /\ open_file_table' = [g \in DOMAIN open_file_table \ {h} |-> open_file_table[g]]
         /\ reply' = Returned(0)
         /\ UNCHANGED <<disk, aborted>>

--------------------------------------------------------------------------------
(* tfs_write.  An empty file gets a block first; i_data_block of an empty file is  *)
(* whatever was left there.                                                        *)

(* Mutant: the block's end does not limit the length. *)
WriteLengthUnlimited(h, buffer) == Len(buffer)

WriteLength(h, buffer) ==
    LET offset == open_file_table[h].of_offset
    IN  IF Len(buffer) + offset > BlockSize
        THEN Sub(BlockSize, offset)
        ELSE Len(buffer)

(* Mutant: the size becomes the new offset even where the file went on. *)
SizeAfterCut(size, last) == last
SizeAfter(size, last) == Max({last, size})

(* data_block_get, memcpy and the new offset and size.  A length that wrapped      *)
(* around is far beyond both the buffer and the block.                             *)
WriteBlock(h, buffer, to_write, block) ==
    LET file == open_file_table[h]
        last == file.of_offset + to_write
    IN  IF block \notin Blocks \/ to_write > Len(buffer)
        THEN Abort
        ELSE /\ fs_data' = [a \in Addresses |->
                              LET i == a - (block * BlockSize + file.of_offset) + 1
                              IN  IF i \in 1 .. to_write THEN buffer[i] ELSE fs_data[a]]
             /\ open_file_table' = [open_file_table EXCEPT ![h].of_offset = last]
             /\ inode_table' = [inode_table EXCEPT ![file.of_inumber] =
                                  [i_size |-> SizeAfter(@.i_size, last), i_data_block |-> block]]
             /\ free_blocks' = IF inode_table[file.of_inumber].i_size = 0
                               THEN free_blocks \ {block}
                               ELSE free_blocks
             /\ reply' = Returned(to_write)
             /\ UNCHANGED <<freeinode_ts, dir_entry, aborted>>

Write(h, buffer) ==
    IF h \notin DOMAIN open_file_table
    THEN Fail
    ELSE LET inode == inode_table[open_file_table[h].of_inumber]
             to_write == WriteLength(h, buffer)
         IN  \/ /\ to_write = 0
                /\ reply' = Returned(0)
                /\ UNCHANGED <<disk, open_file_table, aborted>>
             \/ /\ to_write > 0 /\ inode.i_size = 0
                /\ IF free_blocks = {}
                   THEN Fail
                   ELSE WriteBlock(h, buffer, to_write, DataBlockAlloc)
             \/ /\ to_write > 0 /\ inode.i_size > 0
                /\ WriteBlock(h, buffer, to_write, inode.i_data_block)

--------------------------------------------------------------------------------
(* tfs_read.  An offset past the end makes the length wrap around, so the clamp to *)
(* the file's size never takes effect and only the caller's length is left.        *)

ReadLength(h, len) ==
    LET file == open_file_table[h]
    IN  Min({len, Sub(inode_table[file.of_inumber].i_size, file.of_offset)})

(* data_block_get and memcpy.  Bytes past the last block are not the file system's:*)
(* reading them gives anything or ends the process.                                *)
ReadBlock(h, to_read) ==
    LET file == open_file_table[h]
        block == inode_table[file.of_inumber].i_data_block
        first == block * BlockSize + file.of_offset
    IN  \/ /\ block \notin Blocks \/ first + to_read - 1 \notin Addresses
           /\ Abort
        \/ /\ block \in Blocks
           /\ file.of_offset + to_read <= MaxOffset
           /\ \E junk \in Bytes :
                reply' = [ret |-> to_read,
                          data |-> [i \in 1 .. to_read |->
                                      IF first + i - 1 \in Addresses
                                      THEN fs_data[first + i - 1] ELSE junk]]
           /\ open_file_table' = [open_file_table EXCEPT ![h].of_offset = @ + to_read]
           /\ UNCHANGED <<disk, aborted>>

Read(h, len) ==
    IF h \notin DOMAIN open_file_table
    THEN Fail
    ELSE \/ /\ ReadLength(h, len) = 0
            /\ reply' = Returned(0)
            /\ UNCHANGED <<disk, open_file_table, aborted>>
         \/ /\ ReadLength(h, len) > 0
            /\ ReadBlock(h, ReadLength(h, len))

--------------------------------------------------------------------------------
(* tfs_unlink.  Open handles are not looked at, and the freed inode keeps its size *)
(* and block number.                                                               *)

(* inode_delete asserts that the inode is in use. *)
Unlink(name) ==
    LET inum == FindInDir(name)
    IN  IF name \in BadNames \/ inum = -1 THEN Fail
        ELSE IF inum \in freeinode_ts THEN Abort
        ELSE /\ InodeDelete(inum)
             /\ ClearDirEntry(name)
             /\ reply' = Returned(0)
             /\ UNCHANGED <<inode_table, fs_data, open_file_table, aborted>>

--------------------------------------------------------------------------------
(* Any operation, by any caller, with any handle: taken, closed or invalid. *)
Operation ==
    \/ \E name \in Names, mode \in Modes : Open(name, mode)
    \/ \E h \in Handles \cup {-1} :
        \/ Close(h)
        \/ \E buffer \in Buffers : Write(h, buffer)
        \/ \E len \in 0 .. MaxLen : Read(h, len)
    \/ \E name \in Names : Unlink(name)

Next == ~aborted /\ Operation

Spec == Init /\ [][Next]_vars

(* The discipline under which handles mean what callers expect: no file is deleted *)
(* under an open handle, nor truncated under one that is past its beginning.       *)
HandlesFresh ==
    \A h \in DOMAIN open_file_table :
        LET file == open_file_table[h]
        IN  /\ file.of_inumber \notin freeinode_ts
            /\ file.of_offset <= inode_table[file.of_inumber].i_size

DisciplinedSpec == Init /\ [][Next /\ HandlesFresh']_vars

--------------------------------------------------------------------------------
(* Properties *)

Linked == {dir_entry[e].d_inumber : e \in Entries \ EmptyEntries}

(* Every table entry stays within its table and every write within its block.      *)
TypeOK ==
    /\ inode_table \in [Inumbers -> [i_size : 0 .. BlockSize, i_data_block : Blocks \cup {-1}]]
    /\ freeinode_ts \subseteq Inumbers
    /\ fs_data \in [Addresses -> Bytes \cup {Zero}]
    /\ free_blocks \subseteq Blocks
    /\ dir_entry \in [Entries -> [d_name : Names \cup {NoName}, d_inumber : Inumbers \cup {-1}]]
    /\ DOMAIN open_file_table \subseteq Handles
    /\ \A h \in DOMAIN open_file_table :
        open_file_table[h] \in [of_inumber : Inumbers, of_offset : 0 .. MaxOffset]
    /\ aborted \in BOOLEAN
    /\ reply.ret \in Int /\ reply.data \in Seq(Bytes \cup {Zero})

(* After any sequence of calls, failed ones included, the directory and the inode  *)
(* table tell the same story: each name once, each inode in use under exactly one  *)
(* name, no name on a free inode, and the root never freed.                        *)
DirectoryConsistent ==
    /\ \A d, e \in Entries \ EmptyEntries : d # e =>
        /\ dir_entry[d].d_name # dir_entry[e].d_name
        /\ dir_entry[d].d_inumber # dir_entry[e].d_inumber
    /\ Linked = Inumbers \ (freeinode_ts \cup {ROOT_DIR_INUM})
    /\ ROOT_DIR_INUM \notin freeinode_ts

(* No two files, and no file and the root directory, ever share a data block, and  *)
(* the block of a non-empty file is not up for allocation, whatever was written    *)
(* through handles of files deleted or truncated in the meantime.                  *)
BlocksOwned ==
    LET Owners == {i \in Linked \cup {ROOT_DIR_INUM} : inode_table[i].i_size > 0}
    IN  /\ \A i \in Owners : inode_table[i].i_data_block \in Blocks \ free_blocks
        /\ \A i, j \in Owners :
            i # j => inode_table[i].i_data_block # inode_table[j].i_data_block

(* operations.h on tfs_read: the bytes copied are those up to the file's size.     *)
ReadsEndAtFileSize ==
    [][ \A h \in DOMAIN open_file_table, len \in 0 .. MaxLen :
          Read(h, len) =>
            LET file == open_file_table[h]
                size == inode_table[file.of_inumber].i_size
            IN  reply'.ret <= Max({0, size - file.of_offset}) ]_vars

(* Under the discipline no assertion fails and no access leaves the file system.   *)
NeverAborted == ~aborted

(* Under the discipline every block in use is the root's or a non-empty file's:    *)
(* none leaks, whatever failed in between.                                         *)
NoBlockLeak ==
    Blocks \ free_blocks =
        {inode_table[i].i_data_block :
            i \in {j \in Linked \cup {ROOT_DIR_INUM} : inode_table[j].i_size > 0}}

--------------------------------------------------------------------------------
(* What the operations promise callers (FileStore): files with a content, seen     *)
(* through the directory, and handles that name a file.                            *)

Content(i) ==
    LET inode == inode_table[i]
    IN  [k \in 1 .. inode.i_size |-> fs_data[inode.i_data_block * BlockSize + k - 1]]

NameOf(i) == dir_entry[CHOOSE e \in Entries : dir_entry[e].d_inumber = i].d_name

Files ==
    [name \in {dir_entry[e].d_name : e \in Entries \ EmptyEntries} |-> Content(FindInDir(name))]

OpenFiles ==
    [h \in DOMAIN open_file_table |->
        [name |-> NameOf(open_file_table[h].of_inumber),
         offset |-> open_file_table[h].of_offset]]

MaxFiles == Min({InodeTableSize - 1, MaxDirEntries})

Store == INSTANCE FileStore WITH
    MaxNonEmpty <- DataBlocks - 1, MaxSize <- BlockSize, files <- Files, open <- OpenFiles

(* The tfs_ operations do what FileStore says, if used with discipline.            *)
StoreContract == Store!Spec

--------------------------------------------------------------------------------
(* What holds of contents in every order of calls, stale handles included          *)

Stale(h) ==
    LET file == open_file_table[h]
    IN  \/ file.of_inumber \in freeinode_ts
        \/ file.of_offset > inode_table[file.of_inumber].i_size

(* What ends the process is a read or write through a handle whose own file was    *)
(* deleted or truncated: never tfs_unlink's assertion, and no call on one handle   *)
(* for what happened to the file of another.                                       *)
AbortsAreStale ==
    [][ aborted' # aborted =>
          \E h \in DOMAIN open_file_table :
            /\ Stale(h)
            /\ \/ \E buffer \in Buffers : Write(h, buffer)
               \/ \E len \in 0 .. MaxLen : Read(h, len) ]_vars

(* The content of a file changes only when it is truncated or written through a    *)
(* handle of its own, or through one of a deleted file, whose freed inode may name *)
(* the same block.                                                                 *)
ContentsKept ==
    [][ \A i \in Linked : Content(i)' # Content(i) =>
          \/ inode_table'[i].i_size = 0
          \/ \E h \in DOMAIN open_file_table :
                /\ open_file_table[h].of_inumber \in {i} \cup freeinode_ts
                /\ open_file_table'[h].of_offset # open_file_table[h].of_offset ]_vars

(* A call that fails has changed no handle, and while a handle is free no file, no *)
(* inode and no block either.  When the table of handles is full nothing is said of*)
(* the files: a tfs_open leaves what it created or truncated.                      *)
FailuresKeepFiles ==
    [][ reply'.ret = -1 =>
          /\ UNCHANGED open_file_table
          /\ DOMAIN open_file_table # Handles =>
                UNCHANGED <<Files, freeinode_ts, free_blocks>> ]_vars
================================================================================
