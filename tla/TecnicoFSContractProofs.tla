------------------------- MODULE TecnicoFSContractProofs ------------------------
(* TecnicoFS implements FileStore for callers with discipline, for every size of   *)
(* every table, of the blocks and of the buffers.                                  *)
EXTENDS TecnicoFSProofs, FiniteSetTheorems, SequenceTheorems

--------------------------------------------------------------------------------
(* What the mapping needs besides the invariants of TecnicoFSProofs *)

(* No entry has a name that tfs_open rejects. *)
NamesGood ==
    \A e \in Entries \ EmptyEntries : dir_entry[e].d_name \in Names \ (BadNames \cup LongNames)

(* The root is nobody's file, and has a block. *)
RootApart ==
    /\ \A h \in DOMAIN open_file_table : open_file_table[h].of_inumber # ROOT_DIR_INUM
    /\ inode_table[ROOT_DIR_INUM].i_size > 0

ContractInv == DisciplinedInv /\ NamesGood /\ RootApart

(* What is needed holds at first. *)
LEMMA InitContract == Init => ContractInv
<1> SUFFICES ASSUME Init PROVE ContractInv
  OBVIOUS
<1> USE TecnicoFSAssumption
<1>1. DisciplinedInv
  BY InitBlocks DEF Init, HandlesFresh, DisciplinedInv, NeverAborted
<1>2. NamesGood
  BY DEF Init, NamesGood, EmptyEntries, EmptyEntry
<1>3. ROOT_DIR_INUM \in Inumbers
  BY DEF ROOT_DIR_INUM, Inumbers
<1>4. RootApart
  BY <1>3 DEF Init, RootApart
<1> QED
  BY <1>1, <1>2, <1>4 DEF ContractInv


(* A new handle is for the inode it is asked for. *)
LEMMA HandleAdded ==
  ASSUME NEW inum, NEW offset, AddToOpenFileTable(inum, offset)
  PROVE  \/ /\ Handles \ DOMAIN open_file_table = {}
            /\ reply' = Returned(-1) /\ UNCHANGED open_file_table
         \/ \E h \in Handles \ DOMAIN open_file_table :
              /\ reply' = Returned(h)
              /\ DOMAIN open_file_table' = DOMAIN open_file_table \cup {h}
              /\ \A g \in DOMAIN open_file_table' :
                   open_file_table'[g] = IF g = h
                                         THEN [of_inumber |-> inum, of_offset |-> offset]
                                         ELSE open_file_table[g]
<1> DEFINE free == Handles \ DOMAIN open_file_table
<1>1. CASE free = {}
  BY <1>1 DEF AddToOpenFileTable
<1>2. CASE free # {}
  <2>1. Min(free) \in free
    <3>1. free \in SUBSET Nat
      BY TecnicoFSAssumption DEF Handles
    <3> QED
      BY <1>2, <3>1, LeastNat
  <2>2. /\ reply' = Returned(Min(free))
        /\ open_file_table' = Extend(open_file_table, Min(free),
                                     [of_inumber |-> inum, of_offset |-> offset])
    BY <1>2 DEF AddToOpenFileTable
  <2> HIDE DEF free
  <2>3. PICK h : h = Min(free)
    OBVIOUS
  <2>4. h \in Handles \ DOMAIN open_file_table
    BY <2>1, <2>3 DEF free
  <2> QED
    BY <2>2, <2>3, <2>4 DEF Extend
<1> QED
  BY <1>1, <1>2

(* A handle that is moved names the inode it named. *)
LEMMA HandleMoved ==
  ASSUME Typed, NEW g \in DOMAIN open_file_table, NEW last,
         open_file_table' = [open_file_table EXCEPT ![g].of_offset = last]
  PROVE  /\ DOMAIN open_file_table' = DOMAIN open_file_table
         /\ \A h \in DOMAIN open_file_table :
              open_file_table'[h] =
                IF h = g THEN [of_inumber |-> open_file_table[h].of_inumber, of_offset |-> last]
                         ELSE open_file_table[h]
<1>1. open_file_table[g] \in [of_inumber : Inumbers, of_offset : 0 .. MaxOffset]
  BY DEF Typed, TypeOK
<1>2. [open_file_table[g] EXCEPT !.of_offset = last]
        = [of_inumber |-> open_file_table[g].of_inumber, of_offset |-> last]
  BY <1>1
<1> QED
  BY <1>2

(* An open handle keeps its inode, and a new one is for a file. *)
LEMMA HandlesNext ==
  ASSUME Typed, [Next]_vars, NEW h \in DOMAIN open_file_table'
  PROVE  \/ h \in DOMAIN open_file_table
            /\ open_file_table'[h].of_inumber = open_file_table[h].of_inumber
         \/ \E name \in Names, mode \in Modes :
               \/ OpenExisting(name, mode) /\ open_file_table'[h].of_inumber = FindInDir(name)
               \/ OpenNew(name, mode) /\ open_file_table'[h].of_inumber = InodeAlloc
<1> DEFINE Kept == h \in DOMAIN open_file_table
                   /\ open_file_table'[h].of_inumber = open_file_table[h].of_inumber
<1>1. CASE UNCHANGED open_file_table
  BY <1>1
<1>2. ASSUME NEW inum, NEW offset, AddToOpenFileTable(inum, offset)
      PROVE  Kept \/ open_file_table'[h].of_inumber = inum
  <2>1. CASE \E g \in Handles \ DOMAIN open_file_table :
               /\ DOMAIN open_file_table' = DOMAIN open_file_table \cup {g}
               /\ \A k \in DOMAIN open_file_table' :
                    open_file_table'[k] = IF k = g
                                          THEN [of_inumber |-> inum, of_offset |-> offset]
                                          ELSE open_file_table[k]
    <3>1. PICK g \in Handles \ DOMAIN open_file_table :
               /\ DOMAIN open_file_table' = DOMAIN open_file_table \cup {g}
               /\ \A k \in DOMAIN open_file_table' :
                    open_file_table'[k] = IF k = g
                                          THEN [of_inumber |-> inum, of_offset |-> offset]
                                          ELSE open_file_table[k]
      BY <2>1
    <3>2. CASE h = g
      <4>1. open_file_table'[h] = [of_inumber |-> inum, of_offset |-> offset]
        BY <3>1, <3>2
      <4> QED
        BY <4>1
    <3>3. CASE h # g
      <4>1. h \in DOMAIN open_file_table
        BY <3>1, <3>3
      <4>2. open_file_table'[h] = open_file_table[h]
        BY <3>1, <3>3
      <4> QED
        BY <4>1, <4>2
    <3> QED
      BY <3>2, <3>3
  <2> QED
    BY <1>1, <1>2, <2>1, HandleAdded
<1>3. ASSUME NEW name \in Names, NEW mode \in Modes, OpenExisting(name, mode)
      PROVE  Kept \/ open_file_table'[h].of_inumber = FindInDir(name)
  BY <1>2, <1>3 DEF OpenExisting
<1>4. ASSUME NEW name \in Names, NEW mode \in Modes, OpenNew(name, mode)
      PROVE  Kept \/ open_file_table'[h].of_inumber = InodeAlloc
  BY <1>1, <1>2, <1>4 DEF OpenNew
<1>5. ASSUME NEW g, Close(g) PROVE Kept
  BY <1>1, <1>5 DEF Close, Fail
<1>6. ASSUME NEW g \in DOMAIN open_file_table, NEW last,
             open_file_table' = [open_file_table EXCEPT ![g].of_offset = last]
      PROVE  Kept
  BY <1>6, HandleMoved
<1>7. ASSUME NEW g, NEW buffer \in Buffers, Write(g, buffer) PROVE Kept
  <2>1. \/ UNCHANGED open_file_table
        \/ /\ g \in DOMAIN open_file_table
           /\ \E last : open_file_table' = [open_file_table EXCEPT ![g].of_offset = last]
    BY <1>7 DEF Write, WriteBlock, Fail, Abort
  <2> QED
    BY <1>1, <1>6, <2>1
<1>8. ASSUME NEW g, NEW len \in 0 .. MaxLen, Read(g, len) PROVE Kept
  <2>1. \/ UNCHANGED open_file_table
        \/ /\ g \in DOMAIN open_file_table
           /\ \E last : open_file_table' = [open_file_table EXCEPT ![g].of_offset = last]
    BY <1>8 DEF Read, ReadBlock, Fail, Abort
  <2> QED
    BY <1>1, <1>6, <2>1
<1>9. ASSUME NEW name \in Names, Unlink(name) PROVE Kept
  BY <1>1, <1>9 DEF Unlink, Fail, Abort
<1> QED
  BY <1>1, <1>3, <1>4, <1>5, <1>7, <1>8, <1>9
  DEF Next, Operation, Open, OpenFails, Fail, vars

(* The root stays nobody's file. *)
LEMMA RootNext == DisciplinedInv /\ RootApart /\ [Next]_vars => RootApart'
<1> SUFFICES ASSUME DisciplinedInv, RootApart, [Next]_vars PROVE RootApart'
  OBVIOUS
<1> USE DEF DisciplinedInv, BlocksInv, DirectoryInv
<1>1. ROOT_DIR_INUM \notin Linked \cup freeinode_ts
  BY DEF DirectoryConsistent
<1>2. ASSUME NEW name \in Names, NEW mode \in Modes, OpenExisting(name, mode)
      PROVE  FindInDir(name) # ROOT_DIR_INUM
  BY <1>1, <1>2, BlocksOpenExisting
<1>3. ASSUME NEW name \in Names, NEW mode \in Modes, OpenNew(name, mode)
      PROVE  InodeAlloc # ROOT_DIR_INUM
  BY <1>1, <1>3, DirectoryNew
<1>4. \A h \in DOMAIN open_file_table' : open_file_table'[h].of_inumber # ROOT_DIR_INUM
  BY <1>2, <1>3, HandlesNext DEF RootApart
<1>5. inode_table'[ROOT_DIR_INUM].i_size > 0
  <2>1. ROOT_DIR_INUM \in Owning
    BY DEF Owning, RootApart
  <2>2. CASE UNCHANGED disk
    BY <2>2 DEF disk, RootApart
  <2>3. ASSUME NEW name \in Names, NEW mode \in Modes, OpenExisting(name, mode)
        PROVE  ROOT_DIR_INUM \in Owning'
    BY <1>2, <2>1, <2>3, BlocksOpenExisting
  <2>4. ASSUME NEW name \in Names, NEW mode \in Modes, OpenNew(name, mode)
        PROVE  ROOT_DIR_INUM \in Owning'
    BY <2>1, <2>4, BlocksOpenNew
  <2>5. ASSUME NEW i, NEW block, Wrote(i, block) PROVE ROOT_DIR_INUM \in Owning'
    BY <2>1, <2>5, BlocksWrote
  <2>6. ASSUME NEW name \in Names, Unlinked(name) PROVE ROOT_DIR_INUM \in Owning'
    BY <1>1, <2>1, <2>6, BlocksUnlinked
  <2>7. ROOT_DIR_INUM \in Owning' => inode_table'[ROOT_DIR_INUM].i_size > 0
    BY DEF Owning
  <2> QED
    BY <2>2, <2>3, <2>4, <2>5, <2>6, <2>7, StepForms
<1> QED
  BY <1>4, <1>5 DEF RootApart

(* Only names that tfs_open accepts are entered. *)
LEMMA NamesNext == DisciplinedInv /\ NamesGood /\ [Next]_vars => NamesGood'
<1> SUFFICES ASSUME DisciplinedInv, NamesGood, [Next]_vars PROVE NamesGood'
  OBVIOUS
<1> USE DEF DisciplinedInv, BlocksInv, DirectoryInv
<1>1. CASE UNCHANGED dir_entry
  BY <1>1 DEF NamesGood, EmptyEntries
<1>2. ASSUME NEW name \in Names, NEW mode \in Modes, OpenNew(name, mode)
      PROVE  NamesGood'
  <2>1. CASE NoEntryFor(name)
    BY <1>1, <1>2, <2>1 DEF OpenNew
  <2>2. CASE ~NoEntryFor(name)
    <3>1. PICK e \in EmptyEntries :
            dir_entry' = [dir_entry EXCEPT ![e] = [d_name |-> name, d_inumber |-> InodeAlloc]]
      BY <1>2, <2>2, EmptyEntryType DEF OpenNew, AddDirEntry, NoEntryFor
    <3>2. name \notin BadNames \cup LongNames
      BY <1>2, <2>2 DEF OpenNew, NoEntryFor
    <3>3. \A d \in Entries : dir_entry'[d] = IF d = e
                                             THEN [d_name |-> name, d_inumber |-> InodeAlloc]
                                             ELSE dir_entry[d]
      BY <3>1 DEF Typed, TypeOK
    <3> QED
      BY <3>2, <3>3 DEF NamesGood, EmptyEntries
  <2> QED
    BY <2>1, <2>2
<1>3. ASSUME NEW name \in Names, Unlinked(name) PROVE NamesGood'
  <2>1. PICK e \in Entries : dir_entry' = [dir_entry EXCEPT ![e] = EmptyEntry]
    BY <1>3, TheEntry DEF Unlinked, ClearDirEntry
  <2>2. \A d \in Entries : dir_entry'[d] = IF d = e THEN EmptyEntry ELSE dir_entry[d]
    BY <2>1 DEF Typed, TypeOK
  <2> QED
    BY <2>2 DEF NamesGood, EmptyEntries, EmptyEntry
<1> QED
  BY <1>1, <1>2, <1>3, StepForms DEF disk, OpenExisting, Wrote

(* Every disciplined step keeps what is needed. *)
LEMMA ContractNext == ContractInv /\ [Next /\ HandlesFresh']_vars => ContractInv'
<1> SUFFICES ASSUME ContractInv, [Next /\ HandlesFresh']_vars PROVE ContractInv'
  OBVIOUS
<1>1. [Next]_vars
  OBVIOUS
<1>2. HandlesFresh'
  BY DEF vars, disk, HandlesFresh, DisciplinedInv, ContractInv
<1> QED
  BY <1>1, <1>2, BlocksNext, LeakNext, AbortNext, RootNext, NamesNext
  DEF DisciplinedInv, ContractInv

--------------------------------------------------------------------------------
(* What callers see of the directory *)

(* Names and files with a name correspond. *)
DirectoryView ==
    /\ \A i \in Linked : NameOf(i) \in Names /\ FindInDir(NameOf(i)) = i
    /\ \A e \in Entries \ EmptyEntries :
         /\ NameOf(dir_entry[e].d_inumber) = dir_entry[e].d_name
         /\ FindInDir(dir_entry[e].d_name) = dir_entry[e].d_inumber
    /\ \A name \in Names :
         FindInDir(name) # -1 => FindInDir(name) \in Linked /\ NameOf(FindInDir(name)) = name
    /\ DOMAIN Files = {NameOf(i) : i \in Linked}
    /\ \A name \in Names : name \in DOMAIN Files <=> FindInDir(name) # -1

(* A consistent directory with good names maps names to inodes and back. *)
LEMMA DirectoryViewHolds == DirectoryInv /\ NamesGood => DirectoryView
<1> SUFFICES ASSUME DirectoryInv, NamesGood PROVE DirectoryView
  OBVIOUS
<1> USE TecnicoFSAssumption
<1>1. \A e \in Entries \ EmptyEntries :
        /\ dir_entry[e].d_inumber \in Inumbers /\ dir_entry[e].d_inumber # -1
        /\ dir_entry[e].d_name \in Names
  BY DEF NamesGood, DirectoryInv, EmptyEntries, Typed, TypeOK
<1>2. ASSUME NEW e \in Entries \ EmptyEntries
      PROVE  FindInDir(dir_entry[e].d_name) = dir_entry[e].d_inumber
  <2> DEFINE found == {d \in Entries : /\ dir_entry[d].d_inumber # -1
                                       /\ dir_entry[d].d_name = dir_entry[e].d_name}
  <2>1. found = {e}
    BY <1>1, <1>2 DEF EmptyEntries, DirectoryInv, DirectoryConsistent
  <2>2. Min({e}) = e
    <3>1. {e} \in SUBSET Nat
      BY DEF Entries
    <3> QED
      BY <3>1, LeastNat
  <2> QED
    BY <2>1, <2>2 DEF FindInDir
<1>3. ASSUME NEW e \in Entries \ EmptyEntries
      PROVE  NameOf(dir_entry[e].d_inumber) = dir_entry[e].d_name
  <2>1. PICK i : i = dir_entry[e].d_inumber
    OBVIOUS
  <2>2. \A d \in Entries : dir_entry[d].d_inumber = i => d = e
    BY <1>1, <1>3, <2>1 DEF EmptyEntries, DirectoryInv, DirectoryConsistent
  <2>3. (CHOOSE d \in Entries : dir_entry[d].d_inumber = i) = e
    BY <2>1, <2>2
  <2> QED
    BY ZenonT(30), <2>1, <2>3 DEF NameOf
<1>4. \A i \in Linked : NameOf(i) \in Names /\ FindInDir(NameOf(i)) = i
  BY <1>1, <1>2, <1>3 DEF Linked
<1>5. \A name \in Names :
        FindInDir(name) # -1 => FindInDir(name) \in Linked /\ NameOf(FindInDir(name)) = name
  <2> SUFFICES ASSUME NEW name \in Names, FindInDir(name) # -1
               PROVE  FindInDir(name) \in Linked /\ NameOf(FindInDir(name)) = name
    OBVIOUS
  <2>1. PICK e \in Entries \ EmptyEntries :
          /\ dir_entry[e].d_name = name /\ dir_entry[e].d_inumber = FindInDir(name)
          /\ FindInDir(name) \in Linked
    BY TheEntry
  <2> QED
    BY <1>3, <2>1
<1>6. DOMAIN Files = {dir_entry[e].d_name : e \in Entries \ EmptyEntries}
  BY DEF Files
<1>7. DOMAIN Files = {NameOf(i) : i \in Linked}
  BY <1>3, <1>6 DEF Linked
<1>8. \A name \in Names : name \in DOMAIN Files <=> FindInDir(name) # -1
  <2> SUFFICES ASSUME NEW name \in Names PROVE name \in DOMAIN Files <=> FindInDir(name) # -1
    OBVIOUS
  <2>1. name \in DOMAIN Files => FindInDir(name) # -1
    BY <1>1, <1>2, <1>6
  <2>2. FindInDir(name) # -1 => name \in DOMAIN Files
    BY <1>5, <1>7
  <2> QED
    BY <2>1, <2>2
<1> QED
  BY <1>2, <1>3, <1>4, <1>5, <1>7, <1>8 DEF DirectoryView

(* The same after a step. *)
LEMMA DirectoryViewNext == DirectoryInv' /\ NamesGood' => DirectoryView'
  BY DirectoryViewHolds, PTL

(* An unchanged directory reads the same. *)
LEMMA DirectoryRead ==
  ASSUME UNCHANGED dir_entry
  PROVE  /\ Linked' = Linked /\ DOMAIN Files' = DOMAIN Files
         /\ \A i : NameOf(i)' = NameOf(i)
         /\ \A name : FindInDir(name)' = FindInDir(name)
  BY DEF Linked, EmptyEntries, Files, NameOf, FindInDir

(* The inodes that open handles name. *)
Opened == {open_file_table[h].of_inumber : h \in DOMAIN open_file_table}

(* A handle as callers see it. *)
LEMMA OpenFilesNext ==
  ASSUME NEW h \in DOMAIN open_file_table', NEW i, open_file_table'[h].of_inumber = i
  PROVE  OpenFiles'[h] = [name |-> NameOf(i)', offset |-> open_file_table'[h].of_offset]
BY DEF OpenFiles

(* A handle is given out as FileStore says. *)
LEMMA HandleGiven ==
  ASSUME Typed, NEW inum \in Inumbers, NEW offset, AddToOpenFileTable(inum, offset),
         \A i \in Opened : NameOf(i)' = NameOf(i)
  PROVE  Store!GiveHandle(NameOf(inum)', offset)
<1>1. Store!Open = DOMAIN open_file_table /\ Store!Handles = Handles
  BY DEF Store!Open, Store!Handles, OpenFiles, Handles
<1>2. ASSUME NEW h \in DOMAIN open_file_table, h \in DOMAIN open_file_table',
             open_file_table'[h] = open_file_table[h]
      PROVE  OpenFiles'[h] = OpenFiles[h]
  <2>1. PICK i : i = open_file_table[h].of_inumber
    OBVIOUS
  <2>2. NameOf(i)' = NameOf(i)
    BY <2>1 DEF Opened
  <2>3. OpenFiles'[h] = [name |-> NameOf(i)', offset |-> open_file_table'[h].of_offset]
    BY <1>2, <2>1, OpenFilesNext
  <2>4. OpenFiles[h] = [name |-> NameOf(i), offset |-> open_file_table[h].of_offset]
    BY <2>1 DEF OpenFiles
  <2> QED
    BY <1>2, <2>2, <2>3, <2>4
<1>3. CASE Handles \ DOMAIN open_file_table = {} /\ reply' = Returned(-1)
             /\ UNCHANGED open_file_table
  <2>1. UNCHANGED OpenFiles
    BY <1>2, <1>3 DEF OpenFiles
  <2>2. Store!Open = Store!Handles
    BY <1>1, <1>3 DEF Typed, TypeOK
  <2> QED
    BY <1>3, <2>1, <2>2 DEF Store!GiveHandle, Store!Returned, Returned
<1>4. CASE \E h \in Handles \ DOMAIN open_file_table :
              /\ reply' = Returned(h)
              /\ DOMAIN open_file_table' = DOMAIN open_file_table \cup {h}
              /\ \A g \in DOMAIN open_file_table' :
                   open_file_table'[g] = IF g = h
                                         THEN [of_inumber |-> inum, of_offset |-> offset]
                                         ELSE open_file_table[g]
  <2>1. PICK h \in Handles \ DOMAIN open_file_table :
              /\ reply' = Returned(h)
              /\ DOMAIN open_file_table' = DOMAIN open_file_table \cup {h}
              /\ \A g \in DOMAIN open_file_table' :
                   open_file_table'[g] = IF g = h
                                         THEN [of_inumber |-> inum, of_offset |-> offset]
                                         ELSE open_file_table[g]
    BY <1>4
  <2> DEFINE added == [name |-> NameOf(inum)', offset |-> offset]
  <2>2. OpenFiles'[h] = added
    <3>1. h \in DOMAIN open_file_table'
          /\ open_file_table'[h] = [of_inumber |-> inum, of_offset |-> offset]
      BY <2>1
    <3>2. open_file_table'[h].of_inumber = inum /\ open_file_table'[h].of_offset = offset
      BY <3>1
    <3> QED
      BY <3>1, <3>2, OpenFilesNext
  <2>3. \A g \in DOMAIN open_file_table : OpenFiles'[g] = OpenFiles[g]
    BY <1>2, <2>1
  <2>4. OpenFiles' = [g \in DOMAIN open_file_table \cup {h} |-> OpenFiles'[g]]
    BY <2>1 DEF OpenFiles
  <2> HIDE DEF added
  <2>5. OpenFiles' = Store!Set(OpenFiles, h, added)
    <3>1. DOMAIN OpenFiles = DOMAIN open_file_table
      BY DEF OpenFiles
    <3> QED
      BY <2>1, <2>2, <2>3, <2>4, <3>1 DEF Store!Set
  <2>6. h \in Store!Handles \ Store!Open /\ reply' = Store!Returned(h)
    BY <1>1, <2>1 DEF Store!Returned, Returned
  <2>7. Store!Open # Store!Handles
    BY <2>6
  <2> QED
    BY <2>5, <2>6, <2>7 DEF Store!GiveHandle, added
<1>5. \/ /\ Handles \ DOMAIN open_file_table = {}
         /\ reply' = Returned(-1) /\ UNCHANGED open_file_table
      \/ \E h \in Handles \ DOMAIN open_file_table :
           /\ reply' = Returned(h)
           /\ DOMAIN open_file_table' = DOMAIN open_file_table \cup {h}
           /\ \A g \in DOMAIN open_file_table' :
                open_file_table'[g] = IF g = h
                                      THEN [of_inumber |-> inum, of_offset |-> offset]
                                      ELSE open_file_table[g]
  BY HandleAdded
<1> QED
  BY <1>3, <1>4, <1>5

--------------------------------------------------------------------------------
(* What callers see of the files *)

(* A file's content is as long as its inode says, and empty only then. *)
LEMMA ContentForm ==
  ASSUME Typed, NEW i \in Inumbers
  PROVE  /\ inode_table[i].i_size \in 0 .. BlockSize
         /\ Len(Content(i)) = inode_table[i].i_size
         /\ DOMAIN Content(i) = 1 .. inode_table[i].i_size
         /\ Content(i) = <<>> <=> inode_table[i].i_size = 0
<1>1. PICK size \in Nat : size = inode_table[i].i_size /\ size \in 0 .. BlockSize
  BY TecnicoFSAssumption DEF Typed, TypeOK
<1>2. Content(i) = [k \in 1 .. size |->
                      fs_data[inode_table[i].i_data_block * BlockSize + k - 1]]
  BY <1>1 DEF Content
<1>3. DOMAIN Content(i) = 1 .. size
  BY <1>2
<1>4. Len(Content(i)) = size
  BY <1>2
<1>5. size = 0 => Content(i) = <<>>
  BY <1>2
<1>6. Content(i) = <<>> => size = 0
  BY <1>4
<1> QED
  BY <1>1, <1>3, <1>4, <1>5, <1>6

(* A file is unchanged if its inode and its bytes are. *)
LEMMA ContentKept ==
  ASSUME NEW i, inode_table'[i] = inode_table[i],
         \A k \in 1 .. inode_table[i].i_size :
            LET a == inode_table[i].i_data_block * BlockSize + k - 1
            IN  fs_data'[a] = fs_data[a]
  PROVE  Content(i)' = Content(i)
BY DEF Content

(* A named file is the content of the inode found under its name. *)
LEMMA FilesAt ==
  ASSUME NEW name \in DOMAIN Files, NEW i, FindInDir(name) = i
  PROVE  Files[name] = Content(i)
BY DEF Files

(* The same after a step. *)
LEMMA FilesAtNext ==
  ASSUME NEW name \in DOMAIN Files', NEW i, FindInDir(name)' = i
  PROVE  Files'[name] = Content(i)'
BY DEF Files

(* The files are a function of their names. *)
LEMMA FilesFunction == Files = [name \in DOMAIN Files |-> Files[name]]
BY DEF Files

(* The same after a step. *)
LEMMA FilesFunctionNext == Files' = [name \in DOMAIN Files' |-> Files'[name]]
BY DEF Files

(* Open handles are for files with a name. *)
LEMMA OpenedLinked == ContractInv => Opened \subseteq Linked
<1> SUFFICES ASSUME ContractInv, NEW h \in DOMAIN open_file_table
             PROVE  open_file_table[h].of_inumber \in Linked
  BY DEF Opened
<1>1. open_file_table[h].of_inumber \in Inumbers \ (freeinode_ts \cup {ROOT_DIR_INUM})
  BY DEF ContractInv, DisciplinedInv, BlocksInv, DirectoryInv, Typed, TypeOK, RootApart,
         HandlesFresh
<1> QED
  BY <1>1 DEF ContractInv, DisciplinedInv, BlocksInv, DirectoryInv, DirectoryConsistent

(* What a contract step starts from. *)
View == DirectoryView /\ BlocksInv /\ Typed /\ Opened \subseteq Linked /\ Linked \subseteq Inumbers

(* It holds in every state the discipline allows. *)
LEMMA ViewHolds == ContractInv => View
<1> SUFFICES ASSUME ContractInv PROVE View
  OBVIOUS
<1>1. BlocksInv /\ DirectoryInv /\ Typed /\ NamesGood
  BY DEF ContractInv, DisciplinedInv, BlocksInv, DirectoryInv
<1> QED
  BY <1>1, DirectoryViewHolds, OpenedLinked, LinkedType DEF View

(* The same after a step. *)
LEMMA ViewNext == ContractInv' => View'
  BY ViewHolds, PTL

--------------------------------------------------------------------------------
(* The operations *)

(* tfs_open of a file that exists. *)
LEMMA OpenExistingImplements ==
  ASSUME ContractInv, HandlesFresh', NEW name \in Names, NEW mode \in Modes,
         OpenExisting(name, mode)
  PROVE  Store!OpenFile(name, mode)
<1>0. DirectoryView /\ Typed /\ Opened \subseteq Linked /\ Linked \subseteq Inumbers
  BY ViewHolds DEF View
<1>1. PICK inum \in Linked : inum = FindInDir(name) /\ inum # -1
  BY <1>0 DEF OpenExisting, DirectoryView
<1>2. PICK size : size = IF "TRUNC" \in mode THEN 0 ELSE inode_table[inum].i_size
  OBVIOUS
<1>3. /\ inode_table' = [inode_table EXCEPT ![inum].i_size = size]
      /\ AddToOpenFileTable(inum, IF "APPEND" \in mode THEN size ELSE 0)
      /\ UNCHANGED <<fs_data, dir_entry>>
  BY <1>1, <1>2 DEF OpenExisting, OpenSize
<1>4. /\ DOMAIN Files' = DOMAIN Files
      /\ \A i : NameOf(i)' = NameOf(i)
      /\ \A n : FindInDir(n)' = FindInDir(n)
  BY <1>3, DirectoryRead
<1>5. name \in DOMAIN Files /\ NameOf(inum) = name /\ NameOf(inum)' = name
  BY <1>0, <1>1, <1>4 DEF DirectoryView
<1>6. PICK content : content = IF "TRUNC" \in mode THEN <<>> ELSE Files[name]
  OBVIOUS
<1>7. Files[name] = Content(inum) /\ Len(Content(inum)) = inode_table[inum].i_size
  BY <1>0, <1>1, <1>5, FilesAt, ContentForm
<1>8. Len(content) = size
  BY <1>2, <1>6, <1>7
<1>9. Store!GiveHandle(name, IF "APPEND" \in mode THEN Len(content) ELSE 0)
  <2>1. PICK offset : offset = IF "APPEND" \in mode THEN size ELSE 0
    OBVIOUS
  <2>2. Store!GiveHandle(NameOf(inum)', offset)
    BY <1>0, <1>3, <1>4, <2>1, HandleGiven
  <2> QED
    BY <1>5, <1>8, <2>1, <2>2
<1>10. ASSUME "TRUNC" \in mode, NEW h \in Store!Open, OpenFiles[h].name = name
       PROVE  OpenFiles[h].offset = 0
  <2>1. h \in DOMAIN open_file_table
    BY DEF Store!Open, OpenFiles
  <2>2. PICK i : i = open_file_table[h].of_inumber
    OBVIOUS
  <2>3. NameOf(i) = name /\ i \in Linked
    BY <1>0, <1>10, <2>1, <2>2 DEF OpenFiles, Opened
  <2>4. i = inum
    BY <1>0, <1>1, <2>3 DEF DirectoryView
  <2>5. h \in DOMAIN open_file_table' /\ open_file_table'[h] = open_file_table[h]
    BY <1>3, <2>1, HandleAdded
  <2>6. open_file_table[h].of_offset <= inode_table'[inum].i_size
    BY <2>2, <2>4, <2>5 DEF HandlesFresh
  <2>7. inode_table'[inum].i_size = 0
    BY <1>0, <1>2, <1>3, <1>10 DEF Typed, TypeOK
  <2>8. open_file_table[h].of_offset \in Nat
    BY <1>0, <2>1, TecnicoFSAssumption DEF Typed, TypeOK
  <2> QED
    BY <2>1, <2>6, <2>7, <2>8 DEF OpenFiles
<1>11. Files' = [Files EXCEPT ![name] = content]
  <2>1. ASSUME NEW n \in DOMAIN Files
        PROVE  Files'[n] = IF n = name THEN content ELSE Files[n]
    <3>1. PICK j \in Linked : j = FindInDir(n) /\ NameOf(j) = n
      BY <1>0, <2>1 DEF DirectoryView
    <3>2. Files'[n] = Content(j)' /\ Files[n] = Content(j)
      BY <1>4, <2>1, <3>1, FilesAt, FilesAtNext
    <3>3. CASE j = inum
      <4>1. n = name
        BY <1>5, <3>1, <3>3
      <4>2. CASE "TRUNC" \in mode
        <5>1. inode_table'[inum].i_size = 0
          BY <1>0, <1>2, <1>3, <4>2 DEF Typed, TypeOK
        <5>2. Content(inum)' = <<>>
          BY <5>1 DEF Content
        <5> QED
          BY <1>6, <3>2, <3>3, <4>1, <4>2, <5>2
      <4>3. CASE "TRUNC" \notin mode
        <5>1. inode_table'[inum] = inode_table[inum]
          BY <1>0, <1>2, <1>3, <4>3 DEF Typed, TypeOK
        <5>2. Content(inum)' = Content(inum)
          BY <1>3, <5>1, ContentKept
        <5> QED
          BY <1>6, <3>2, <3>3, <4>1, <4>3, <5>2
      <4> QED
        BY <4>2, <4>3
    <3>4. CASE j # inum
      <4>1. n # name
        BY <1>1, <3>1, <3>4
      <4>2. inode_table'[j] = inode_table[j]
        BY <1>0, <1>3, <3>4 DEF Typed, TypeOK
      <4>3. Content(j)' = Content(j)
        BY <1>3, <4>2, ContentKept
      <4> QED
        BY <3>2, <4>1, <4>3
    <3> QED
      BY <3>3, <3>4
  <2> QED
    BY <1>4, <1>5, <2>1, FilesFunction, FilesFunctionNext
<1> QED
  BY <1>5, <1>6, <1>9, <1>10, <1>11 DEF Store!OpenFile, Store!Existing

--------------------------------------------------------------------------------
(* How many files there are, and how many with content *)

(* Two ways to count to n. *)
LEMMA CountTo ==
  ASSUME NEW n \in Nat
  PROVE  /\ IsFiniteSet(0 .. n - 1) /\ Cardinality(0 .. n - 1) = n
         /\ IsFiniteSet(1 .. n) /\ Cardinality(1 .. n) = n
<1>1. PICK m \in Int : m = n - 1
  OBVIOUS
<1>2. IsFiniteSet(0 .. m) /\ Cardinality(0 .. m) = IF 0 > m THEN 0 ELSE m - 0 + 1
  <2>1. 0 \in Int
    OBVIOUS
  <2> QED
    BY ONLY <2>1, <1>1, FS_Interval
<1>3. IsFiniteSet(1 .. n) /\ Cardinality(1 .. n) = IF 1 > n THEN 0 ELSE n - 1 + 1
  <2>1. 1 \in Int /\ n \in Int
    OBVIOUS
  <2> QED
    BY ONLY <2>1, FS_Interval
<1> QED
  BY <1>1, <1>2, <1>3

(* FileStore counts as the file system does. *)
LEMMA SameCount == \A S : Store!Cardinality(S) = Cardinality(S)
BY DEF Store!Cardinality, Cardinality

(* Two sets in correspondence have the same size. *)
LEMMA SameSize ==
  ASSUME NEW S, NEW T, IsFiniteSet(S), NEW f \in [S -> T],
         \A x, y \in S : f[x] = f[y] => x = y,
         \A z \in T : \E x \in S : f[x] = z
  PROVE  IsFiniteSet(T) /\ Cardinality(T) = Cardinality(S)
<1>1. f \in Bijection(S, T)
  BY DEF Bijection, Injection, Surjection, IsInjective
<1>2. ExistsBijection(S, T)
  BY <1>1 DEF ExistsBijection
<1> QED
  BY <1>2, FS_Bijection

(* There is room for a file while an inode and a directory entry are free. *)
LEMMA FilesCount ==
  ASSUME View
  PROVE  /\ freeinode_ts = {} \/ EmptyEntries = {} => Cardinality(DOMAIN Files) = MaxFiles
         /\ freeinode_ts # {} /\ EmptyEntries # {} => Cardinality(DOMAIN Files) < MaxFiles
<1> USE TecnicoFSAssumption
<1>0. DirectoryView /\ Typed /\ Linked \subseteq Inumbers /\ DirectoryConsistent
  BY DEF View, BlocksInv, DirectoryInv
<1>1. PICK I \in Nat, E \in Nat : I = InodeTableSize - 1 /\ E = MaxDirEntries
  OBVIOUS
<1> DEFINE count == Cardinality(DOMAIN Files)
           used == Entries \ EmptyEntries
           numbers == 1 .. I
<1>2. IsFiniteSet(Entries) /\ Cardinality(Entries) = E
  BY <1>1, CountTo DEF Entries
<1>3. IsFiniteSet(numbers) /\ Cardinality(numbers) = I
  BY CountTo
<1>4. /\ IsFiniteSet(used) /\ Cardinality(used) <= E
      /\ Cardinality(used) = E <=> EmptyEntries = {}
      /\ Cardinality(used) \in Nat
  <2>1. used \in SUBSET Entries /\ (used = Entries <=> EmptyEntries = {})
    BY DEF EmptyEntries
  <2> HIDE DEF used
  <2>2. /\ IsFiniteSet(used) /\ Cardinality(used) <= Cardinality(Entries)
        /\ Cardinality(Entries) = Cardinality(used) => Entries = used
    BY <1>2, <2>1, FS_Subset
  <2> QED
    BY <1>2, <2>1, <2>2, FS_CardinalityType
<1>5. /\ IsFiniteSet(Linked) /\ Cardinality(Linked) <= I
      /\ Cardinality(Linked) = I <=> freeinode_ts = {}
  <2>1. Linked \in SUBSET numbers /\ (Linked = numbers <=> freeinode_ts = {})
    <3>1. numbers = Inumbers \ {ROOT_DIR_INUM}
      BY <1>1 DEF Inumbers, ROOT_DIR_INUM
    <3> HIDE DEF numbers
    <3> QED
      BY <1>0, <3>1 DEF DirectoryConsistent, Typed, TypeOK
  <2> HIDE DEF numbers
  <2>2. /\ IsFiniteSet(Linked) /\ Cardinality(Linked) <= Cardinality(numbers)
        /\ Cardinality(numbers) = Cardinality(Linked) => numbers = Linked
    BY <1>3, <2>1, FS_Subset
  <2> QED
    BY <1>3, <2>1, <2>2
<1>6. count = Cardinality(used)
  <2> DEFINE f == [e \in used |-> dir_entry[e].d_name]
  <2>1. \A d, e \in used : f[d] = f[e] => d = e
    BY <1>0 DEF DirectoryConsistent
  <2>2. DOMAIN Files = {dir_entry[e].d_name : e \in used}
    BY DEF Files
  <2>3. f \in [used -> DOMAIN Files] /\ \A n \in DOMAIN Files : \E e \in used : f[e] = n
    BY <2>2
  <2> HIDE DEF f, used
  <2> QED
    BY <1>4, <2>1, <2>3, SameSize
<1>7. count = Cardinality(Linked)
  <2> DEFINE f == [i \in Linked |-> NameOf(i)]
  <2>1. \A i, j \in Linked : f[i] = f[j] => i = j
    BY <1>0 DEF DirectoryView
  <2>2. f \in [Linked -> DOMAIN Files] /\ \A n \in DOMAIN Files : \E i \in Linked : f[i] = n
    BY <1>0 DEF DirectoryView
  <2> HIDE DEF f
  <2> QED
    BY <1>5, <2>1, <2>2, SameSize
<1>8. MaxFiles = IF I <= E THEN I ELSE E
  <2>1. MaxFiles = Min({I, E})
    BY <1>1 DEF MaxFiles
  <2> QED
    BY <2>1, TwoNumbers
<1> HIDE DEF used, numbers, count
<1>9. count \in Nat /\ count <= E /\ count <= I
  BY <1>4, <1>5, <1>6, <1>7
<1>10. (count = I <=> freeinode_ts = {}) /\ (count = E <=> EmptyEntries = {})
  BY <1>4, <1>5, <1>6, <1>7
<1>11. /\ freeinode_ts = {} \/ EmptyEntries = {} => count = MaxFiles
       /\ freeinode_ts # {} /\ EmptyEntries # {} => count < MaxFiles
  BY <1>1, <1>8, <1>9, <1>10
<1> QED
  BY <1>11 DEF count

(* A file without content gets one while a block is free. *)
LEMMA NonEmptyCount ==
  ASSUME View, NoBlockLeak, RootApart
  PROVE  LET full == {f \in DOMAIN Files : Files[f] # <<>>}
         IN  /\ free_blocks = {} => Cardinality(full) = DataBlocks - 1
             /\ free_blocks # {} => Cardinality(full) < DataBlocks - 1
<1> USE TecnicoFSAssumption
<1>0. /\ DirectoryView /\ Typed /\ Linked \subseteq Inumbers
      /\ BlocksOwned /\ DirectoryConsistent
  BY DEF View, BlocksInv, DirectoryInv
<1> DEFINE full == {f \in DOMAIN Files : Files[f] # <<>>}
           sized == {i \in Linked : inode_table[i].i_size > 0}
           root == inode_table[ROOT_DIR_INUM].i_data_block
           others == Blocks \ {root}
           taken == (Blocks \ free_blocks) \ {root}
<1>1. ROOT_DIR_INUM \in Owning /\ Owning = sized \cup {ROOT_DIR_INUM} /\ ROOT_DIR_INUM \notin sized
  BY <1>0 DEF Owning, RootApart, DirectoryConsistent
<1>2. /\ \A i \in Owning : inode_table[i].i_data_block \in Blocks \ free_blocks
      /\ \A i, j \in Owning : i # j => inode_table[i].i_data_block # inode_table[j].i_data_block
  BY <1>0, OwnedForm
<1>3. Blocks \ free_blocks = {inode_table[i].i_data_block : i \in Owning}
  BY DEF NoBlockLeak, Owning
<1>4. IsFiniteSet(others) /\ Cardinality(others) = DataBlocks - 1
  <2>1. IsFiniteSet(Blocks) /\ Cardinality(Blocks) = DataBlocks
    BY CountTo, DataBlocks \in Nat DEF Blocks
  <2>2. root \in Blocks
    BY <1>1, <1>2
  <2> HIDE DEF root
  <2> QED
    BY <2>1, <2>2, FS_RemoveElement
<1>5. taken \in SUBSET others /\ (taken = others <=> free_blocks = {})
  BY <1>0, <1>1, <1>2 DEF Typed, TypeOK
<1>6. IsFiniteSet(sized)
  <2>1. IsFiniteSet(Inumbers)
    BY CountTo, InodeTableSize \in Nat DEF Inumbers
  <2>2. sized \in SUBSET Inumbers
    BY <1>0
  <2> HIDE DEF sized
  <2> QED
    BY <2>1, <2>2, FS_Subset
<1>7. Cardinality(taken) = Cardinality(sized)
  <2> DEFINE f == [i \in sized |-> inode_table[i].i_data_block]
  <2>1. \A i, j \in sized : f[i] = f[j] => i = j
    BY <1>1, <1>2
  <2>2. f \in [sized -> taken] /\ \A b \in taken : \E i \in sized : f[i] = b
    <3>1. \A i \in sized : f[i] \in taken
      BY <1>1, <1>2
    <3>2. \A b \in taken : \E i \in sized : f[i] = b
      BY <1>1, <1>3
    <3> QED
      BY <3>1, <3>2
  <2> HIDE DEF f, sized, taken
  <2> QED
    BY <1>6, <2>1, <2>2, SameSize
<1>8. Cardinality(full) = Cardinality(sized)
  <2> DEFINE f == [i \in sized |-> NameOf(i)]
  <2>1. \A i, j \in sized : f[i] = f[j] => i = j
    BY <1>0 DEF DirectoryView
  <2>2. ASSUME NEW i \in Linked
        PROVE  NameOf(i) \in full <=> i \in sized
    <3>1. NameOf(i) \in DOMAIN Files /\ Files[NameOf(i)] = Content(i)
      BY <1>0, FilesAt DEF DirectoryView
    <3>2. Content(i) = <<>> <=> inode_table[i].i_size = 0
      BY <1>0, ContentForm
    <3>3. inode_table[i].i_size \in Nat
      BY <1>0 DEF Typed, TypeOK
    <3> QED
      BY <3>1, <3>2, <3>3
  <2>3. \A n \in full : \E i \in Linked : NameOf(i) = n
    BY <1>0 DEF DirectoryView
  <2>4. f \in [sized -> full] /\ \A n \in full : \E i \in sized : f[i] = n
    <3>1. sized \subseteq Linked
      OBVIOUS
    <3> HIDE DEF full, sized
    <3> QED
      BY <2>2, <2>3, <3>1
  <2> HIDE DEF f, sized, full
  <2> QED
    BY <1>6, <2>1, <2>4, SameSize
<1> HIDE DEF full, sized, others, taken
<1>9. /\ Cardinality(taken) <= Cardinality(others)
      /\ Cardinality(others) = Cardinality(taken) => others = taken
      /\ Cardinality(taken) \in Nat
  BY <1>4, <1>5, FS_Subset, FS_CardinalityType
<1>10. Cardinality(full) = Cardinality(taken)
  BY <1>7, <1>8
<1>11. /\ free_blocks = {} => Cardinality(full) = DataBlocks - 1
       /\ free_blocks # {} => Cardinality(full) < DataBlocks - 1
  BY <1>4, <1>5, <1>9, <1>10
<1> QED
  BY <1>11 DEF full

--------------------------------------------------------------------------------
(* Operations on the directory *)

(* An entry that stays keeps name and inode together. *)
LEMMA EntryKept ==
  ASSUME DirectoryView, DirectoryView', NEW d \in Entries \ EmptyEntries,
         dir_entry'[d] = dir_entry[d],
         NEW i, i = dir_entry[d].d_inumber, NEW n, n = dir_entry[d].d_name
  PROVE  /\ NameOf(i) = n /\ NameOf(i)' = n
         /\ FindInDir(n) = i /\ FindInDir(n)' = i
<1>1. NameOf(i) = n /\ FindInDir(n) = i
  BY DEF DirectoryView
<1>2. d \in Entries \ EmptyEntries'
  BY DEF EmptyEntries
<1>3. \A e \in Entries \ EmptyEntries' :
         /\ NameOf(dir_entry[e].d_inumber)' = dir_entry'[e].d_name
         /\ FindInDir(dir_entry[e].d_name)' = dir_entry'[e].d_inumber
  BY DEF DirectoryView
<1>4. NameOf(i)' = n /\ FindInDir(n)' = i
  BY <1>2, <1>3
<1> QED
  BY <1>1, <1>4

(* The file of an entry that stays. *)
LEMMA FileKept ==
  ASSUME DirectoryView, DirectoryView', NEW d \in Entries \ EmptyEntries,
         dir_entry'[d] = dir_entry[d],
         NEW i, i = dir_entry[d].d_inumber, NEW n \in Names, n = dir_entry[d].d_name,
         i # -1, Content(i)' = Content(i)
  PROVE  n \in DOMAIN Files /\ n \in DOMAIN Files' /\ Files'[n] = Files[n]
<1>1. FindInDir(n) = i /\ FindInDir(n)' = i
  BY EntryKept
<1>2. n \in DOMAIN Files /\ n \in DOMAIN Files'
  BY <1>1 DEF DirectoryView
<1>3. Files[n] = Content(i) /\ Files'[n] = Content(i)'
  BY <1>1, <1>2, FilesAt, FilesAtNext
<1> QED
  BY <1>2, <1>3

(* The entry of a file. *)
LEMMA EntryOf ==
  ASSUME View, NEW i \in Linked
  PROVE  /\ i # -1
         /\ \E d \in Entries \ EmptyEntries :
              /\ dir_entry[d].d_inumber = i /\ dir_entry[d].d_name = NameOf(i)
              /\ NameOf(i) \in Names
<1>1. PICK d \in Entries \ EmptyEntries : dir_entry[d].d_inumber = i
  BY DEF Linked
<1>2. i \in Inumbers
  BY DEF View
<1> QED
  BY <1>1, <1>2 DEF View, DirectoryView, Inumbers

(* tfs_open that makes a file, or finds no place for its name. *)
LEMMA OpenNewImplements ==
  ASSUME ContractInv, ContractInv', NEW name \in Names, NEW mode \in Modes,
         OpenNew(name, mode)
  PROVE  Store!Create(name, mode) \/ Store!OpenFails(name, mode)
<1>0. /\ View /\ DirectoryView /\ Typed /\ Opened \subseteq Linked /\ Linked \subseteq Inumbers
      /\ View' /\ DirectoryView' /\ DirectoryInv
  BY ViewHolds, ViewNext DEF View, BlocksInv
<1>1. PICK inum \in Inumbers : inum = InodeAlloc /\ inum \in freeinode_ts /\ inum \notin Linked
  BY <1>0, InodeAllocType, LinkedType DEF OpenNew
<1>2. /\ inode_table' = [inode_table EXCEPT ![inum] = [i_size |-> 0, i_data_block |-> -1]]
      /\ UNCHANGED fs_data
  BY <1>1 DEF OpenNew, InodeCreate
<1>3. ASSUME NEW j \in Linked PROVE Content(j)' = Content(j)
  <2>1. inode_table'[j] = inode_table[j]
    BY <1>0, <1>1, <1>2, <1>3 DEF Typed, TypeOK
  <2> QED
    BY <1>2, <2>1, ContentKept
<1>4. name \notin DOMAIN Files
  BY <1>0 DEF OpenNew, DirectoryView
<1>5. CASE NoEntryFor(name)
  <2>1. reply' = Returned(-1) /\ UNCHANGED <<dir_entry, open_file_table>>
    BY <1>5 DEF OpenNew
  <2>2. /\ DOMAIN Files' = DOMAIN Files
        /\ \A i : NameOf(i)' = NameOf(i)
        /\ \A n : FindInDir(n)' = FindInDir(n)
    BY <2>1, DirectoryRead
  <2>3. ASSUME NEW n \in DOMAIN Files PROVE Files'[n] = Files[n]
    <3>1. PICK j \in Linked : j = FindInDir(n)
      BY <1>0, <2>3 DEF DirectoryView
    <3>2. Files[n] = Content(j) /\ Files'[n] = Content(j)'
      BY <2>2, <2>3, <3>1, FilesAt, FilesAtNext
    <3> QED
      BY <1>3, <3>1, <3>2
  <2>4. Files' = Files
    BY <2>2, <2>3, FilesFunction, FilesFunctionNext
  <2>5. OpenFiles' = OpenFiles
    BY <2>1, <2>2 DEF OpenFiles
  <2>6. name \in LongNames \/ Cardinality(DOMAIN Files) = MaxFiles
    BY <1>0, <1>5, FilesCount DEF NoEntryFor
  <2> QED
    BY <1>4, <2>1, <2>4, <2>5, <2>6, SameCount
    DEF Store!OpenFails, Store!Existing, Store!Returned, Returned
<1>6. CASE ~NoEntryFor(name)
  <2>1. /\ name \notin LongNames /\ EmptyEntries # {}
        /\ AddToOpenFileTable(inum, 0) /\ AddDirEntry(name, inum)
        /\ name \notin BadNames /\ "CREAT" \in mode /\ freeinode_ts # {}
    BY <1>1, <1>6 DEF OpenNew, NoEntryFor
  <2>2. PICK e \in EmptyEntries :
          dir_entry' = [dir_entry EXCEPT ![e] = [d_name |-> name, d_inumber |-> inum]]
    BY <2>1, EmptyEntryType DEF AddDirEntry
  <2>3. e \in Entries /\ inum # -1
    BY <1>1 DEF EmptyEntries, Inumbers
  <2>4. /\ dir_entry'[e] = [d_name |-> name, d_inumber |-> inum]
        /\ \A d \in Entries \ {e} : dir_entry'[d] = dir_entry[d]
        /\ Linked' = Linked \cup {inum}
    <3>1. PICK entry : entry = [d_name |-> name, d_inumber |-> inum]
      OBVIOUS
    <3>2. entry.d_inumber = inum /\ dir_entry' = [dir_entry EXCEPT ![e] = entry]
      BY <2>2, <3>1
    <3>3. /\ \A d \in Entries : dir_entry'[d] = IF d = e THEN entry ELSE dir_entry[d]
          /\ Linked' = {dir_entry[d].d_inumber : d \in (Entries \ EmptyEntries) \ {e}}
                         \cup {inum}
      <4>1. /\ \A d \in Entries : dir_entry'[d] = IF d = e THEN entry ELSE dir_entry[d]
            /\ LET others == {dir_entry[d].d_inumber : d \in (Entries \ EmptyEntries) \ {e}}
               IN  Linked' = IF entry.d_inumber = -1
                             THEN others ELSE others \cup {entry.d_inumber}
        BY <1>0, <2>3, <3>2, LinkedAfter
      <4> QED
        BY <2>3, <3>2, <4>1
    <3>4. Linked = {dir_entry[d].d_inumber : d \in (Entries \ EmptyEntries) \ {e}}
      BY <2>2 DEF Linked
    <3> QED
      BY <2>3, <3>1, <3>3, <3>4
  <2>5. NameOf(inum)' = name /\ FindInDir(name)' = inum
    <3>1. e \in Entries \ EmptyEntries'
      BY <2>3, <2>4 DEF EmptyEntries
    <3>2. \A d \in Entries \ EmptyEntries' :
             /\ NameOf(dir_entry[d].d_inumber)' = dir_entry'[d].d_name
             /\ FindInDir(dir_entry[d].d_name)' = dir_entry'[d].d_inumber
      BY <1>0 DEF DirectoryView
    <3> QED
      BY <2>4, <3>1, <3>2
  <2>6. ASSUME NEW j \in Linked
        PROVE  NameOf(j)' = NameOf(j) /\ NameOf(j) \in DOMAIN Files'
               /\ Files'[NameOf(j)] = Files[NameOf(j)]
    <3>1. PICK d \in Entries \ EmptyEntries, n \in Names :
             /\ dir_entry[d].d_inumber = j /\ dir_entry[d].d_name = n /\ n = NameOf(j)
             /\ j # -1
      BY <1>0, EntryOf
    <3>2. dir_entry'[d] = dir_entry[d]
      BY <2>2, <2>4, <3>1
    <3>3. NameOf(j)' = n
      BY <1>0, <3>1, <3>2, EntryKept
    <3>4. n \in DOMAIN Files' /\ Files'[n] = Files[n]
      BY <1>0, <1>3, <3>1, <3>2, FileKept
    <3> QED
      BY <3>1, <3>3, <3>4
  <2>7. name \in DOMAIN Files' /\ Files'[name] = <<>>
    <3>1. name \in DOMAIN Files'
      BY <1>0, <2>3, <2>5 DEF DirectoryView
    <3>2. inode_table'[inum].i_size = 0
      BY <1>0, <1>1, <1>2 DEF Typed, TypeOK
    <3>3. Content(inum)' = <<>>
      BY <3>2 DEF Content
    <3> QED
      BY <2>5, <3>1, <3>3, FilesAtNext
  <2>8. DOMAIN Files' = DOMAIN Files \cup {name}
    <3>1. DOMAIN Files = {NameOf(i) : i \in Linked}
      BY <1>0 DEF DirectoryView
    <3>2. DOMAIN Files' = {NameOf(i)' : i \in Linked'}
      BY <1>0 DEF DirectoryView
    <3> QED
      BY <2>4, <2>5, <2>6, <3>1, <3>2
  <2>9. \A n \in DOMAIN Files : Files'[n] = Files[n]
    <3>1. DOMAIN Files = {NameOf(i) : i \in Linked}
      BY <1>0 DEF DirectoryView
    <3> QED
      BY <2>6, <3>1
  <2>10. Files' = Store!Set(Files, name, <<>>)
    BY <1>4, <2>7, <2>8, <2>9, FilesFunctionNext DEF Store!Set
  <2>11. Store!GiveHandle(name, 0)
    <3>1. \A i \in Opened : NameOf(i)' = NameOf(i)
      BY <1>0, <2>6
    <3>2. Store!GiveHandle(NameOf(inum)', 0)
      BY <1>0, <2>1, <3>1, HandleGiven
    <3> QED
      BY <2>5, <3>2
  <2>12. Cardinality(DOMAIN Files) < MaxFiles
    BY <1>0, <2>1, FilesCount
  <2> QED
    BY <1>4, <2>1, <2>10, <2>11, <2>12, SameCount DEF Store!Create, Store!Existing
<1> QED
  BY <1>5, <1>6

(* Nothing that callers see has changed. *)
LEMMA NothingSeen ==
  ASSUME UNCHANGED <<disk, open_file_table>>
  PROVE  Files' = Files /\ OpenFiles' = OpenFiles
<1>1. UNCHANGED <<inode_table, fs_data, dir_entry, open_file_table>>
  BY DEF disk
<1> QED
  BY <1>1 DEF Files, OpenFiles, Content, FindInDir, NameOf, EmptyEntries

(* No file has a name that tfs_open rejects. *)
LEMMA BadNotFound ==
  ASSUME ContractInv, NEW name \in BadNames PROVE name \notin DOMAIN Files
<1>0. DirectoryView /\ DirectoryInv /\ name \in Names
  BY ViewHolds, TecnicoFSAssumption DEF View, BlocksInv
<1>1. ASSUME name \in DOMAIN Files PROVE FALSE
  <2>1. FindInDir(name) # -1
    BY <1>0, <1>1 DEF DirectoryView
  <2>2. PICK e \in Entries \ EmptyEntries : dir_entry[e].d_name = name
    BY <1>0, <2>1, TheEntry
  <2> QED
    BY <2>2 DEF ContractInv, NamesGood
<1> QED
  BY <1>1

(* tfs_open that fails. *)
LEMMA OpenFailsImplements ==
  ASSUME ContractInv, NEW name \in Names, NEW mode \in Modes, OpenFails(name, mode)
  PROVE  Store!OpenFails(name, mode)
<1>0. View /\ DirectoryView /\ Typed /\ DirectoryInv
  BY ViewHolds DEF View, BlocksInv
<1>1. reply' = Returned(-1) /\ Files' = Files /\ OpenFiles' = OpenFiles
  BY NothingSeen DEF OpenFails, Fail
<1>2. name \notin DOMAIN Files
  <2>1. CASE name \in BadNames
    BY <2>1, BadNotFound
  <2>2. CASE name \notin BadNames
    BY <1>0, <2>2 DEF OpenFails, DirectoryView
  <2> QED
    BY <2>1, <2>2
<1>3. \/ "CREAT" \notin mode
      \/ name \in BadNames \cup LongNames
      \/ Cardinality(DOMAIN Files) = MaxFiles
  BY <1>0, FilesCount DEF OpenFails
<1> QED
  BY <1>1, <1>2, <1>3, SameCount DEF Store!OpenFails, Store!Existing, Store!Returned, Returned

(* tfs_unlink. *)
LEMMA UnlinkImplements ==
  ASSUME ContractInv, ContractInv', NEW name \in Names, Unlink(name)
  PROVE  Store!Unlink(name) \/ Store!UnlinkFails(name)
<1>0. /\ View /\ DirectoryView /\ Typed /\ Opened \subseteq Linked /\ Linked \subseteq Inumbers
      /\ View' /\ DirectoryView' /\ Opened' \subseteq Linked' /\ DirectoryInv
      /\ NeverAborted'
  BY ViewHolds, ViewNext DEF View, BlocksInv, ContractInv, DisciplinedInv
<1>1. CASE Fail /\ (name \in BadNames \/ FindInDir(name) = -1)
  <2>1. reply' = Returned(-1) /\ Files' = Files /\ OpenFiles' = OpenFiles
    BY <1>1, NothingSeen DEF Fail
  <2>2. name \notin DOMAIN Files
    BY <1>0, <1>1, BadNotFound DEF DirectoryView
  <2> QED
    BY <2>1, <2>2 DEF Store!UnlinkFails, Store!Existing, Store!Returned, Returned
<1>2. CASE /\ Unlinked(name) /\ name \notin BadNames /\ reply' = Returned(0)
           /\ UNCHANGED <<fs_data, open_file_table>>
  <2>1. PICK inum \in Linked, e \in Entries \ EmptyEntries :
          /\ inum = FindInDir(name) /\ NameOf(inum) = name
          /\ Linked' = Linked \ {inum}
          /\ dir_entry[e].d_name = name /\ dir_entry[e].d_inumber = inum
          /\ dir_entry' = [dir_entry EXCEPT ![e] = EmptyEntry]
    <3>1. PICK inum \in Linked : inum = FindInDir(name) /\ Linked' = Linked \ {inum}
      BY <1>0, <1>2, DirectoryUnlinked
    <3>2. PICK e \in Entries \ EmptyEntries :
            /\ dir_entry[e].d_name = name /\ dir_entry[e].d_inumber = inum
            /\ Min({d \in Entries : dir_entry[d].d_name = name}) = e
      BY <1>0, <1>2, <3>1, TheEntry DEF Unlinked
    <3>3. NameOf(inum) = name
      BY <1>0, <1>2, <3>1 DEF DirectoryView, Unlinked
    <3> QED
      BY <1>2, <3>1, <3>2, <3>3 DEF Unlinked, ClearDirEntry
  <2>2. \A d \in Entries \ {e} : dir_entry'[d] = dir_entry[d]
    BY <1>0, <2>1 DEF Typed, TypeOK
  <2>3. ASSUME NEW j \in Linked \ {inum}
        PROVE  NameOf(j)' = NameOf(j) /\ NameOf(j) \in DOMAIN Files'
               /\ Files'[NameOf(j)] = Files[NameOf(j)]
    <3>1. PICK d \in Entries \ EmptyEntries, n \in Names :
             /\ dir_entry[d].d_inumber = j /\ dir_entry[d].d_name = n /\ n = NameOf(j)
             /\ j # -1
      BY <1>0, EntryOf
    <3>2. dir_entry'[d] = dir_entry[d]
      BY <2>1, <2>2, <2>3, <3>1
    <3>3. NameOf(j)' = n
      BY <1>0, <3>1, <3>2, EntryKept
    <3>4. Content(j)' = Content(j)
      BY <1>2, ContentKept DEF Unlinked
    <3>5. n \in DOMAIN Files' /\ Files'[n] = Files[n]
      BY <1>0, <3>1, <3>2, <3>4, FileKept
    <3> QED
      BY <3>1, <3>3, <3>5
  <2>4. name \in DOMAIN Files
    BY <1>0, <2>1 DEF DirectoryView
  <2>5. /\ DOMAIN Files' = DOMAIN Files \ {name}
        /\ \A n \in DOMAIN Files \ {name} : Files'[n] = Files[n]
    <3>1. DOMAIN Files = {NameOf(i) : i \in Linked}
      BY <1>0 DEF DirectoryView
    <3>2. DOMAIN Files' = {NameOf(i)' : i \in Linked'}
      BY <1>0 DEF DirectoryView
    <3>3. \A j \in Linked \ {inum} : NameOf(j) # name
      BY <1>0, <2>1 DEF DirectoryView
    <3> QED
      BY <2>1, <2>3, <3>1, <3>2, <3>3
  <2>6. Files' = Store!Without(Files, name)
    BY <2>5, FilesFunctionNext DEF Store!Without
  <2>7. Opened \subseteq Linked \ {inum}
    BY <1>0, <1>2, <2>1 DEF Opened
  <2>8. ASSUME NEW h \in DOMAIN open_file_table
        PROVE  OpenFiles'[h] = OpenFiles[h] /\ OpenFiles[h].name # name
    <3>1. PICK i : i = open_file_table[h].of_inumber
      OBVIOUS
    <3>2. i \in Linked \ {inum}
      BY <2>7, <3>1 DEF Opened
    <3>3. OpenFiles'[h] = [name |-> NameOf(i)', offset |-> open_file_table'[h].of_offset]
      BY <1>2, <3>1, OpenFilesNext
    <3>4. OpenFiles[h] = [name |-> NameOf(i), offset |-> open_file_table[h].of_offset]
      BY <3>1 DEF OpenFiles
    <3>5. NameOf(i) # name
      BY <1>0, <2>1, <3>2 DEF DirectoryView
    <3> QED
      BY <1>2, <2>3, <3>2, <3>3, <3>4, <3>5
  <2>9. OpenFiles' = OpenFiles
    BY <1>2, <2>8 DEF OpenFiles
  <2>10. \A h \in Store!Open : OpenFiles[h].name # name
    BY <2>8 DEF Store!Open, OpenFiles
  <2> QED
    BY <1>2, <2>4, <2>6, <2>9, <2>10 DEF Store!Unlink, Store!Existing, Store!Returned, Returned
<1>3. ~Abort
  BY <1>0 DEF Abort, NeverAborted
<1> QED
  BY <1>1, <1>2, <1>3 DEF Unlink, Unlinked

--------------------------------------------------------------------------------
(* Operations on an open file *)

(* An operation without a handle. *)
LEMMA NotOpenImplements ==
  ASSUME NEW h, h \notin DOMAIN open_file_table, Fail
  PROVE  Store!NotOpen(h)
<1>1. reply' = Returned(-1) /\ Files' = Files /\ OpenFiles' = OpenFiles
  BY NothingSeen DEF Fail
<1> QED
  BY <1>1 DEF Store!NotOpen, Store!Open, Store!Returned, OpenFiles, Returned

(* tfs_close. *)
LEMMA CloseImplements ==
  ASSUME NEW h, Close(h)
  PROVE  Store!Close(h) \/ Store!NotOpen(h)
<1>1. CASE h \notin DOMAIN open_file_table
  BY <1>1, NotOpenImplements DEF Close
<1>2. CASE h \in DOMAIN open_file_table
  <2>1. /\ open_file_table' = [g \in DOMAIN open_file_table \ {h} |-> open_file_table[g]]
        /\ reply' = Returned(0) /\ UNCHANGED <<inode_table, fs_data, dir_entry>>
    BY <1>2 DEF Close, disk
  <2>2. Files' = Files /\ \A i : NameOf(i)' = NameOf(i)
    BY <2>1 DEF Files, Content, FindInDir, NameOf, EmptyEntries
  <2>3. ASSUME NEW g \in DOMAIN open_file_table \ {h} PROVE OpenFiles'[g] = OpenFiles[g]
    <3>1. PICK i : i = open_file_table[g].of_inumber
      OBVIOUS
    <3>2. open_file_table'[g] = open_file_table[g] /\ g \in DOMAIN open_file_table'
      BY <2>1
    <3>3. OpenFiles'[g] = [name |-> NameOf(i)', offset |-> open_file_table'[g].of_offset]
      BY <3>1, <3>2, OpenFilesNext
    <3>4. OpenFiles[g] = [name |-> NameOf(i), offset |-> open_file_table[g].of_offset]
      BY <3>1 DEF OpenFiles
    <3> QED
      BY <2>2, <3>2, <3>3, <3>4
  <2>4. OpenFiles' = [g \in DOMAIN open_file_table' |-> OpenFiles'[g]]
    BY DEF OpenFiles
  <2>5. OpenFiles' = Store!Without(OpenFiles, h)
    <3>1. DOMAIN open_file_table' = DOMAIN open_file_table \ {h}
      BY <2>1
    <3>2. DOMAIN OpenFiles = DOMAIN open_file_table
      BY DEF OpenFiles
    <3> QED
      BY <2>3, <2>4, <3>1, <3>2 DEF Store!Without
  <2> QED
    BY <1>2, <2>1, <2>2, <2>5 DEF Store!Close, Store!Open, Store!Returned, OpenFiles, Returned
<1> QED
  BY <1>1, <1>2

(* A handle of a caller with discipline: its file, and its place in it. *)
Sees(h, i, offset, size, name) ==
    /\ i = open_file_table[h].of_inumber /\ offset = open_file_table[h].of_offset
    /\ size = inode_table[i].i_size /\ offset <= size
    /\ name = NameOf(i) /\ FindInDir(name) = i
    /\ OpenFiles[h] = [name |-> name, offset |-> offset]
    /\ Files[name] = Content(i) /\ Len(Files[name]) = size
    /\ DOMAIN Files[name] = 1 .. size
    /\ Files[name] = <<>> <=> size = 0

(* Every open handle sees a file with a name, at an offset inside its block. *)
LEMMA HandleSees ==
  ASSUME ContractInv, NEW h \in DOMAIN open_file_table
  PROVE  \E i \in Linked, offset \in 0 .. BlockSize, size \in 0 .. BlockSize,
            name \in DOMAIN Files : Sees(h, i, offset, size, name)
<1>0. View /\ DirectoryView /\ Typed /\ Opened \subseteq Linked /\ Linked \subseteq Inumbers
  BY ViewHolds DEF View
<1>1. PICK i \in Linked : i = open_file_table[h].of_inumber
  BY <1>0 DEF Opened
<1>2. i \in Inumbers
  BY <1>0
<1>3. PICK size \in 0 .. BlockSize :
        /\ size = inode_table[i].i_size /\ Len(Content(i)) = size
        /\ DOMAIN Content(i) = 1 .. size
        /\ Content(i) = <<>> <=> size = 0
  BY <1>0, <1>2, ContentForm
<1>4. PICK offset \in 0 .. BlockSize : offset = open_file_table[h].of_offset /\ offset <= size
  <2>1. open_file_table[h].of_offset \in Nat
    BY <1>0, TecnicoFSAssumption DEF Typed, TypeOK
  <2>2. open_file_table[h].of_offset <= size
    BY <1>1, <1>3 DEF ContractInv, DisciplinedInv, HandlesFresh
  <2> QED
    BY <2>1, <2>2, TecnicoFSAssumption
<1>5. PICK name \in DOMAIN Files : name = NameOf(i) /\ FindInDir(name) = i
  BY <1>0 DEF DirectoryView
<1>6. Files[name] = Content(i)
  BY <1>5, FilesAt
<1>7. OpenFiles[h] = [name |-> name, offset |-> offset]
  BY <1>1, <1>4, <1>5 DEF OpenFiles
<1>8. Sees(h, i, offset, size, name)
  BY <1>1, <1>3, <1>4, <1>5, <1>6, <1>7 DEF Sees
<1> QED
  BY <1>8

(* A handle that is moved, in a step that leaves the directory alone. *)
LEMMA HandleSeenMoved ==
  ASSUME Typed, NEW h \in DOMAIN open_file_table, NEW last, UNCHANGED dir_entry,
         open_file_table' = [open_file_table EXCEPT ![h].of_offset = last]
  PROVE  OpenFiles' = [OpenFiles EXCEPT ![h].offset = last]
<1>1. /\ DOMAIN open_file_table' = DOMAIN open_file_table
      /\ \A g \in DOMAIN open_file_table :
           open_file_table'[g] =
             IF g = h THEN [of_inumber |-> open_file_table[g].of_inumber, of_offset |-> last]
                      ELSE open_file_table[g]
  BY HandleMoved
<1>2. \A i : NameOf(i)' = NameOf(i)
  BY DirectoryRead
<1>3. ASSUME NEW g \in DOMAIN open_file_table
      PROVE  OpenFiles'[g] = IF g = h THEN [OpenFiles[g] EXCEPT !.offset = last] ELSE OpenFiles[g]
  <2>1. PICK i : i = open_file_table[g].of_inumber
    OBVIOUS
  <2>2. open_file_table'[g].of_inumber = i
        /\ open_file_table'[g].of_offset = IF g = h THEN last ELSE open_file_table[g].of_offset
    <3>1. CASE g = h
      <4>1. open_file_table'[g] = [of_inumber |-> i, of_offset |-> last]
        BY <1>1, <2>1, <3>1
      <4> QED
        BY <3>1, <4>1
    <3>2. CASE g # h
      BY <1>1, <2>1, <3>2
    <3> QED
      BY <3>1, <3>2
  <2>3. OpenFiles'[g] = [name |-> NameOf(i)', offset |-> open_file_table'[g].of_offset]
    BY <1>1, <2>2, OpenFilesNext
  <2>4. OpenFiles[g] = [name |-> NameOf(i), offset |-> open_file_table[g].of_offset]
    BY <2>1 DEF OpenFiles
  <2> QED
    BY <1>2, <2>2, <2>3, <2>4
<1>4. /\ OpenFiles' = [g \in DOMAIN open_file_table |-> OpenFiles'[g]]
      /\ OpenFiles = [g \in DOMAIN open_file_table |-> OpenFiles[g]]
  BY <1>1 DEF OpenFiles
<1> QED
  BY <1>3, <1>4

(* A part of a sequence. *)
LEMMA PartOf ==
  ASSUME NEW s, NEW from \in Nat, NEW n \in Nat
  PROVE  SubSeq(s, from + 1, from + n) = [k \in 1 .. n |-> s[from + k]]
<1>1. PICK low \in Int, high \in Int : low = from + 1 /\ high = from + n
  OBVIOUS
<1> DEFINE S == {s[x] : x \in low .. high}
<1>2. /\ SubSeq(s, low, high) \in Seq(S)
      /\ Len(SubSeq(s, low, high)) = IF low <= high THEN high - low + 1 ELSE 0
      /\ \A x \in 1 .. high - low + 1 : SubSeq(s, low, high)[x] = s[low + x - 1]
  <2>1. \A x \in low .. high : s[x] \in S
    OBVIOUS
  <2> HIDE DEF S
  <2> QED
    BY ONLY <2>1, low \in Int, high \in Int, SubSeqProperties
<1> HIDE DEF S
<1>3. PICK part \in Seq(S) : part = SubSeq(s, low, high)
  BY <1>2
<1>4. Len(part) = n /\ \A k \in 1 .. n : part[k] = s[from + k]
  <2>1. Len(part) = n
    BY <1>1, <1>2, <1>3
  <2>2. ASSUME NEW k \in 1 .. n PROVE part[k] = s[from + k]
    <3>1. k \in 1 .. high - low + 1 /\ low + k - 1 = from + k
      BY <1>1
    <3> QED
      BY <1>2, <1>3, <3>1
  <2> QED
    BY <2>1, <2>2
<1>5. part = [k \in 1 .. n |-> part[k]]
  BY <1>4
<1> QED
  BY <1>1, <1>3, <1>4, <1>5

(* tfs_read. *)
LEMMA ReadImplements ==
  ASSUME ContractInv, NeverAborted', NEW h, NEW len \in 0 .. MaxLen, Read(h, len)
  PROVE  Store!Read(h, len) \/ Store!NotOpen(h)
<1>0. BlockSize \in Nat /\ MaxLen \in Nat /\ Typed /\ Linked \subseteq Inumbers
  BY ViewHolds, TecnicoFSAssumption DEF View
<1>1. CASE h \notin DOMAIN open_file_table
  BY <1>1, NotOpenImplements DEF Read
<1>2. CASE h \in DOMAIN open_file_table
  <2>1. PICK i \in Linked, offset \in 0 .. BlockSize, size \in 0 .. BlockSize,
             name \in DOMAIN Files : Sees(h, i, offset, size, name)
    BY <1>2, HandleSees
  <2>2. /\ i = open_file_table[h].of_inumber /\ offset = open_file_table[h].of_offset
        /\ size = inode_table[i].i_size /\ offset <= size /\ i \in Inumbers
    BY <1>0, <2>1 DEF Sees
  <2>3. /\ OpenFiles[h] = [name |-> name, offset |-> offset]
        /\ Files[name] = Content(i) /\ Len(Files[name]) = size
    BY <2>1 DEF Sees
  <2>4. offset \in Nat /\ size \in Nat /\ len \in Nat
    BY <1>0
  <2>5. PICK n \in Nat : n = ReadLength(h, len)
                          /\ n = IF len <= size - offset THEN len ELSE size - offset
    BY <1>0, <1>2, <2>2, ReadLengthType
  <2>6. n = Store!Least(len, Len(Files[name]) - offset)
    BY ONLY <2>3, <2>4, <2>5 DEF Store!Least
  <2>7. Files' = Files
    <3>1. UNCHANGED disk
      BY <1>0, ReadType
    <3> QED
      BY ONLY <3>1 DEF disk, Files, Content, FindInDir, EmptyEntries
  <2>8. /\ reply' = [ret |-> n, data |-> SubSeq(Content(i), offset + 1, offset + n)]
        /\ OpenFiles' = [OpenFiles EXCEPT ![h].offset = offset + n]
    <3>1. CASE n = 0
      <4>1. reply' = Returned(0) /\ UNCHANGED <<disk, open_file_table>>
        BY <1>2, <2>5, <3>1 DEF Read
      <4>2. SubSeq(Content(i), offset + 1, offset + n) = <<>>
        <5>1. offset + n \in Int /\ offset + 1 \in Int /\ offset + n < offset + 1
          BY ONLY <2>4, <3>1
        <5> QED
          BY ONLY <5>1, SubSeqEmpty
      <4>3. OpenFiles' = OpenFiles
        BY <4>1, NothingSeen
      <4>4. OpenFiles = [OpenFiles EXCEPT ![h].offset = offset + n]
        <5>1. OpenFiles[h] = [OpenFiles[h] EXCEPT !.offset = offset + n]
          BY ONLY <2>3, <2>4, <3>1
        <5>2. OpenFiles = [g \in DOMAIN OpenFiles |-> OpenFiles[g]]
          BY DEF OpenFiles
        <5> QED
          BY ONLY <5>1, <5>2
      <4> QED
        BY <3>1, <4>1, <4>2, <4>3, <4>4 DEF Returned
    <3>2. CASE n > 0
      <4>1. size > 0 /\ offset + n <= size
        BY ONLY <2>4, <2>5, <3>2
      <4>2. PICK block \in Blocks : block = inode_table[i].i_data_block
        BY <1>0, <2>2, <4>1 DEF Typed, SizedHaveBlock
      <4>3. block * BlockSize \in Int
        BY <1>0 DEF Blocks
      <4>4. PICK first \in Int : first = block * BlockSize + offset
        BY ONLY <2>4, <4>3
      <4>5. PICK junk \in Bytes :
              /\ reply' = [ret |-> n, data |-> [k \in 1 .. n |->
                            IF first + k - 1 \in Addresses
                            THEN fs_data[first + k - 1] ELSE junk]]
              /\ open_file_table' = [open_file_table EXCEPT ![h].of_offset = offset + n]
              /\ UNCHANGED dir_entry
        BY SMTT(60), <1>2, <2>2, <2>5, <3>2, <4>2, <4>4 DEF Read, ReadBlock, Abort, NeverAborted, disk
      <4>6. OpenFiles' = [OpenFiles EXCEPT ![h].offset = offset + n]
        BY <1>0, <1>2, <4>5, HandleSeenMoved
      <4>7. ASSUME NEW k \in 1 .. n
            PROVE  /\ first + k - 1 \in Addresses
                   /\ Content(i)[offset + k] = fs_data[first + k - 1]
        <5>1. PICK m \in Nat : m = offset + k - 1 /\ m + 1 = offset + k
                               /\ m \in 0 .. BlockSize - 1 /\ m + 1 \in 1 .. size
          BY ONLY <1>0, <2>4, <4>1, <4>7, size \in 0 .. BlockSize
        <5>2. /\ first + k - 1 = block * BlockSize + m
              /\ block * BlockSize + (m + 1) - 1 = first + k - 1
          BY ONLY <4>3, <4>4, <4>7, <5>1, <2>4
        <5>3. first + k - 1 \in Addresses
          BY <5>1, <5>2, BlockWithin
        <5>4. Content(i)[m + 1] = fs_data[block * BlockSize + (m + 1) - 1]
          BY <2>2, <4>2, <5>1 DEF Content
        <5> QED
          BY <5>1, <5>2, <5>3, <5>4
      <4>8. reply' = [ret |-> n, data |-> [k \in 1 .. n |-> Content(i)[offset + k]]]
        BY <4>5, <4>7
      <4>9. SubSeq(Content(i), offset + 1, offset + n)
              = [k \in 1 .. n |-> Content(i)[offset + k]]
        BY <2>4, PartOf
      <4> QED
        BY <4>6, <4>8, <4>9
    <3> QED
      BY <2>4, <3>1, <3>2
  <2> QED
    BY <1>2, <2>3, <2>6, <2>7, <2>8 DEF Store!Read, Store!Open, OpenFiles
<1> QED
  BY <1>1, <1>2

(* Different blocks have no byte in common. *)
LEMMA BlocksDisjoint ==
  ASSUME NEW M \in Nat \ {0}, NEW b \in Nat, NEW c \in Nat, b # c,
         NEW x \in 0 .. M - 1, NEW y \in 0 .. M - 1
  PROVE  b * M + x # c * M + y
<1>1. PICK d \in Int : d = b - c /\ d # 0
  OBVIOUS
<1>2. b * M - c * M = d * M
  BY <1>1
<1>3. d * M >= M \/ d * M <= 0 - M
  <2>1. d >= 1 => d * M >= M
    BY ONLY d \in Int, M \in Nat \ {0}
  <2>2. d <= -1 => d * M <= 0 - M
    BY ONLY d \in Int, M \in Nat \ {0}
  <2> QED
    BY <1>1, <2>1, <2>2
<1>4. PICK p \in Int, q \in Int, r \in Int : p = b * M /\ q = c * M /\ r = d * M
  OBVIOUS
<1>5. p - q = r /\ (r >= M \/ r <= 0 - M)
  BY <1>2, <1>3, <1>4
<1>6. p + x # q + y
  BY ONLY <1>5, p \in Int, q \in Int, r \in Int, M \in Nat, x \in 0 .. M - 1, y \in 0 .. M - 1
<1> QED
  BY <1>4, <1>6

(* The copy of tfs_write. *)
Copied(block, offset, n, buffer) ==
    fs_data' = [a \in Addresses |->
                  LET i == a - (block * BlockSize + offset) + 1
                  IN  IF i \in 1 .. n THEN buffer[i] ELSE fs_data[a]]

(* A byte of a block after a copy into the same or into another block. *)
LEMMA BytesCopied ==
  ASSUME NEW block \in Blocks, NEW offset \in Nat, NEW n \in Nat, offset + n <= BlockSize,
         NEW buffer, Copied(block, offset, n, buffer),
         NEW other \in Blocks, NEW k \in 1 .. BlockSize
  PROVE  fs_data'[other * BlockSize + k - 1] =
           IF other = block /\ k \in (offset + 1) .. (offset + n)
           THEN buffer[k - offset] ELSE fs_data[other * BlockSize + k - 1]
<1>0. BlockSize \in Nat \ {0} /\ block \in Nat /\ other \in Nat
  BY TecnicoFSAssumption DEF Blocks
<1>1. PICK p \in Int, q \in Int : p = other * BlockSize /\ q = block * BlockSize
  BY ONLY <1>0
<1>2. PICK a \in Addresses : a = p + k - 1
  <2>1. PICK m \in 0 .. BlockSize - 1 : m = k - 1
    BY ONLY <1>0, k \in 1 .. BlockSize
  <2>2. p + m \in Addresses
    BY <1>1, <2>1, BlockWithin
  <2>3. p + m = p + k - 1
    BY ONLY <1>1, <2>1, k \in 1 .. BlockSize, <1>0
  <2> QED
    BY <2>2, <2>3
<1>3. PICK t \in Int : t = a - (q + offset) + 1
  BY ONLY <1>0, <1>1, <1>2, offset \in Nat, k \in 1 .. BlockSize
<1>4. fs_data'[a] = IF t \in 1 .. n THEN buffer[t] ELSE fs_data[a]
  BY <1>1, <1>3 DEF Copied
<1>5. CASE other = block
  <2>1. t = k - offset /\ (t \in 1 .. n <=> k \in offset + 1 .. offset + n)
    BY ONLY <1>0, <1>1, <1>2, <1>3, <1>5, offset \in Nat, n \in Nat, k \in 1 .. BlockSize
  <2> QED
    BY <1>1, <1>2, <1>4, <1>5, <2>1
<1>6. CASE other # block
  <2>1. ASSUME t \in 1 .. n PROVE FALSE
    <3>1. PICK x \in 0 .. BlockSize - 1, y \in 0 .. BlockSize - 1 :
            x = k - 1 /\ y = offset + t - 1
      BY ONLY <1>0, <2>1, offset \in Nat, n \in Nat, offset + n <= BlockSize,
              k \in 1 .. BlockSize
    <3>2. p + x = q + y
      BY ONLY <1>0, <1>1, <1>2, <1>3, <3>1, offset \in Nat, k \in 1 .. BlockSize
    <3>3. p + x # q + y
      BY <1>0, <1>1, <1>6, BlocksDisjoint
    <3> QED
      BY <3>2, <3>3
  <2> QED
    BY <1>1, <1>2, <1>4, <1>6, <2>1
<1> QED
  BY <1>5, <1>6

(* A copy into a block that is new, or that a file or the root owns, leaves every  *)
(* other file's bytes alone.                                                       *)
LEMMA OthersKept ==
  ASSUME BlocksInv, NEW i \in Inumbers, NEW size, size = inode_table[i].i_size,
         NEW offset \in Nat, NEW n \in Nat, offset + n <= BlockSize, NEW buffer, NEW after,
         NEW block \in Blocks, Copied(block, offset, n, buffer),
         inode_table' = [inode_table EXCEPT ![i] = [i_size |-> after, i_data_block |-> block]],
         IF size = 0 THEN block \in free_blocks
         ELSE block = inode_table[i].i_data_block /\ i \in Linked \cup {ROOT_DIR_INUM},
         NEW j \in Linked, j # i
  PROVE  Content(j)' = Content(j)
<1>0. /\ BlockSize \in Nat \ {0} /\ Typed /\ BlocksOwned
      /\ Linked \cup {ROOT_DIR_INUM} \subseteq Inumbers
  BY TecnicoFSAssumption, LinkedType DEF BlocksInv, DirectoryInv
<1>1. inode_table'[j] = inode_table[j] /\ j \in Inumbers
  BY <1>0
<1>2. PICK rest \in 0 .. BlockSize : rest = inode_table[j].i_size
  BY <1>0, <1>1 DEF Typed, TypeOK
<1>3. ASSUME NEW k \in 1 .. rest
      PROVE  LET a == inode_table[j].i_data_block * BlockSize + k - 1
             IN  fs_data'[a] = fs_data[a]
  <2>1. j \in Owning
    <3>1. rest > 0
      BY <1>0, <1>3
    <3> QED
      BY <1>2, <3>1 DEF Owning
  <2>2. PICK other \in Blocks : other = inode_table[j].i_data_block /\ other # block
    <3>1. inode_table[j].i_data_block \in Blocks \ free_blocks
      BY <1>0, <2>1, OwnedForm
    <3>2. CASE size = 0
      BY <3>1, <3>2
    <3>3. CASE size # 0
      <4>1. i \in Owning
        BY <1>0, <3>3 DEF Owning, Typed, TypeOK
      <4> QED
        BY <1>0, <2>1, <3>1, <3>3, <4>1, OwnedForm
    <3> QED
      BY <3>2, <3>3
  <2>3. k \in 1 .. BlockSize
    BY <1>0
  <2>4. fs_data'[other * BlockSize + k - 1] = fs_data[other * BlockSize + k - 1]
    BY <2>2, <2>3, BytesCopied
  <2> QED
    BY <2>2, <2>4
<1> QED
  BY <1>1, <1>2, <1>3, ContentKept

(* What a write makes of the file, as FileStore says it. *)
NewContent(old, offset, n, buffer) ==
    [k \in 1 .. Len(old) \cup 1 .. (offset + n) |->
        IF k \in (offset + 1) .. (offset + n) THEN buffer[k - offset] ELSE old[k]]

(* The copy into a block of the file. *)
LEMMA WriteBlockImplements ==
  ASSUME ContractInv, NEW h \in DOMAIN open_file_table,
         NEW i \in Linked, NEW offset \in Nat, NEW size \in 0 .. BlockSize,
         NEW name \in DOMAIN Files, Sees(h, i, offset, size, name),
         NEW buffer, NEW n \in Nat, n > 0, n <= Len(buffer), offset + n <= BlockSize,
         NEW block \in Blocks,
         IF size = 0 THEN block \in free_blocks ELSE block = inode_table[i].i_data_block,
         ~Abort, WriteBlock(h, buffer, n, block)
  PROVE  /\ reply' = Returned(n)
         /\ OpenFiles' = [OpenFiles EXCEPT ![h].offset = offset + n]
         /\ Files' = [Files EXCEPT ![name] = NewContent(Files[name], offset, n, buffer)]
<1>0. /\ BlockSize \in Nat \ {0} /\ Typed /\ Linked \subseteq Inumbers /\ DirectoryView
      /\ BlocksInv /\ BlocksOwned
  BY ViewHolds, TecnicoFSAssumption DEF View, BlocksInv
<1>1. /\ i = open_file_table[h].of_inumber /\ offset = open_file_table[h].of_offset
      /\ size = inode_table[i].i_size /\ offset <= size /\ i \in Inumbers
      /\ Files[name] = Content(i) /\ Len(Files[name]) = size /\ DOMAIN Files[name] = 1 .. size
      /\ FindInDir(name) = i
  BY <1>0 DEF Sees
<1>2. PICK last \in Nat : last = offset + n
  OBVIOUS
<1>3. PICK after \in 0 .. BlockSize : after = (IF last >= size THEN last ELSE size)
                                      /\ after = SizeAfter(size, last)
  <2>1. SizeAfter(size, last) = IF last >= size THEN last ELSE size
    <3>1. last \in Int /\ size \in Int
      BY <1>0
    <3> QED
      BY ONLY <3>1, TwoNumbers DEF SizeAfter
  <2> QED
    BY <1>0, <1>2, <2>1
<1>4. /\ Copied(block, offset, n, buffer)
      /\ open_file_table' = [open_file_table EXCEPT ![h].of_offset = last]
      /\ inode_table' = [inode_table EXCEPT ![i] = [i_size |-> after, i_data_block |-> block]]
      /\ reply' = Returned(n) /\ UNCHANGED dir_entry
  BY <1>1, <1>2, <1>3 DEF WriteBlock, Copied
<1>5. OpenFiles' = [OpenFiles EXCEPT ![h].offset = last]
  BY <1>0, <1>4, HandleSeenMoved
<1>6. ASSUME NEW j \in Linked, j # i PROVE Content(j)' = Content(j)
  BY <1>0, <1>1, <1>2, <1>4, <1>6, OthersKept
<1>7. Content(i)' = NewContent(Files[name], offset, n, buffer)
  <2>1. inode_table'[i].i_size = after /\ inode_table'[i].i_data_block = block
    BY <1>0, <1>1, <1>4 DEF Typed, TypeOK
  <2>2. Content(i)' = [k \in 1 .. after |-> fs_data'[block * BlockSize + k - 1]]
    BY <2>1 DEF Content
  <2>3. 1 .. Len(Files[name]) \cup 1 .. (offset + n) = 1 .. after
    BY SMTT(30), <1>0, <1>1, <1>2, <1>3
  <2>4. ASSUME NEW k \in 1 .. after
        PROVE  fs_data'[block * BlockSize + k - 1] =
                 IF k \in (offset + 1) .. (offset + n) THEN buffer[k - offset]
                                                       ELSE Files[name][k]
    <3>1. k \in 1 .. BlockSize
      BY <1>0, <1>3
    <3>2. fs_data'[block * BlockSize + k - 1] =
            IF k \in (offset + 1) .. (offset + n) THEN buffer[k - offset]
            ELSE fs_data[block * BlockSize + k - 1]
      BY <1>4, <3>1, BytesCopied
    <3>3. ASSUME k \notin (offset + 1) .. (offset + n)
          PROVE  fs_data[block * BlockSize + k - 1] = Files[name][k]
      <4>1. k \in 1 .. size /\ size # 0
        BY ONLY <1>1, <1>2, <1>3, <3>1, <3>3, <1>0, n > 0, n \in Nat, offset \in Nat,
                size \in 0 .. BlockSize, k \in 1 .. after
      <4>2. Content(i)[k] = fs_data[inode_table[i].i_data_block * BlockSize + k - 1]
        BY <1>1, <4>1 DEF Content
      <4> QED
        BY <1>1, <4>1, <4>2
    <3> QED
      BY <3>2, <3>3
  <2> QED
    BY <2>2, <2>3, <2>4 DEF NewContent
<1>8. /\ DOMAIN Files' = DOMAIN Files
      /\ \A m : FindInDir(m)' = FindInDir(m)
  BY <1>4, DirectoryRead
<1>9. ASSUME NEW m \in DOMAIN Files
      PROVE  Files'[m] = IF m = name THEN NewContent(Files[name], offset, n, buffer)
                                     ELSE Files[m]
  <2>1. PICK j \in Linked : j = FindInDir(m) /\ NameOf(j) = m
    BY <1>0, <1>9 DEF DirectoryView
  <2>2. Files[m] = Content(j) /\ Files'[m] = Content(j)'
    BY <1>8, <1>9, <2>1, FilesAt, FilesAtNext
  <2>3. m = name <=> j = i
    BY <1>0, <1>1, <2>1 DEF Sees
  <2> QED
    BY <1>6, <1>7, <2>2, <2>3
<1>10. Files' = [Files EXCEPT ![name] = NewContent(Files[name], offset, n, buffer)]
  BY <1>8, <1>9, FilesFunction, FilesFunctionNext
<1> QED
  BY <1>2, <1>4, <1>5, <1>10

(* tfs_write. *)
LEMMA WriteImplements ==
  ASSUME ContractInv, NeverAborted', NEW h, NEW buffer \in Buffers, Write(h, buffer)
  PROVE  Store!Write(h, buffer) \/ Store!WriteFails(h, buffer) \/ Store!NotOpen(h)
<1>0. /\ BlockSize \in Nat /\ BlockSize < SizeModulus /\ DataBlocks \in Nat
      /\ SizeModulus \in Nat
      /\ View /\ Typed /\ Linked \subseteq Inumbers /\ ~Abort
      /\ NoBlockLeak /\ RootApart
  BY ViewHolds, TecnicoFSAssumption
  DEF View, NeverAborted, Abort, ContractInv, DisciplinedInv
<1>1. CASE h \notin DOMAIN open_file_table
  BY <1>1, NotOpenImplements DEF Write
<1>2. CASE h \in DOMAIN open_file_table
  <2>1. PICK i \in Linked, offset \in 0 .. BlockSize, size \in 0 .. BlockSize,
             name \in DOMAIN Files : Sees(h, i, offset, size, name)
    BY <1>2, HandleSees
  <2>2. /\ i = open_file_table[h].of_inumber /\ offset = open_file_table[h].of_offset
        /\ size = inode_table[i].i_size /\ offset <= size /\ i \in Inumbers
    BY <1>0, <2>1 DEF Sees
  <2>3. /\ OpenFiles[h] = [name |-> name, offset |-> offset]
        /\ Len(Files[name]) = size /\ DOMAIN Files[name] = 1 .. size
        /\ Files[name] = <<>> <=> size = 0
        /\ Files[name] = Content(i)
    BY <2>1 DEF Sees
  <2>4. offset \in Nat /\ size \in Nat /\ offset < SizeModulus
    BY <1>0
  <2>5. PICK length \in Nat : length = Len(buffer)
    BY BufferType, TecnicoFSAssumption
  <2>6. PICK n \in Nat :
          /\ n = WriteLength(h, buffer)
          /\ n = IF length < BlockSize - offset THEN length ELSE BlockSize - offset
    <3>1. Sub(BlockSize, offset) = BlockSize - offset
      BY <1>0, <2>4, SubOf
    <3>2. WriteLength(h, buffer) =
            IF length + offset > BlockSize THEN BlockSize - offset ELSE length
      BY <2>2, <2>5, <3>1 DEF WriteLength
    <3>3. BlockSize - offset \in Nat
      BY ONLY <1>0, <2>4, offset \in 0 .. BlockSize
    <3>4. length + offset > BlockSize => ~(length < BlockSize - offset)
      BY ONLY <1>0, <2>4, <2>5
    <3>5. ~(length + offset > BlockSize) => length <= BlockSize - offset
      BY ONLY <1>0, <2>4, <2>5
    <3> QED
      BY ONLY <2>5, <3>2, <3>3, <3>4, <3>5
  <2>7. /\ n <= length /\ offset + n <= BlockSize
        /\ n = Store!Least(Len(buffer), BlockSize - offset)
    BY ONLY <1>0, <2>4, <2>5, <2>6, offset \in 0 .. BlockSize DEF Store!Least
  <2> DEFINE full == {f \in DOMAIN Files : Files[f] # <<>>}
             new == NewContent(Files[name], offset, n, buffer)
  <2>8. /\ free_blocks = {} => Cardinality(full) = DataBlocks - 1
        /\ free_blocks # {} => Cardinality(full) < DataBlocks - 1
    BY <1>0, NonEmptyCount
  <2> HIDE DEF new
  <2>9. ASSUME n > 0 /\ size = 0 => free_blocks # {},
               reply' = Returned(n),
               OpenFiles' = [OpenFiles EXCEPT ![h].offset = offset + n],
               Files' = [Files EXCEPT ![name] = new]
        PROVE  Store!Write(h, buffer)
    <3>1. OpenFiles[h].name = name /\ OpenFiles[h].offset = offset
      BY <2>3
    <3>2. n > 0 /\ Files[name] = <<>> =>
            Store!Cardinality({f \in Store!Existing : Files[f] # <<>>}) < DataBlocks - 1
      BY <2>3, <2>8, <2>9, SameCount DEF Store!Existing
    <3>3. h \in Store!Open /\ reply' = Store!Returned(n)
      BY <1>2, <2>9 DEF Store!Open, OpenFiles, Store!Returned, Returned
    <3> QED
      BY <2>7, <2>9, <3>1, <3>2, <3>3 DEF Store!Write, new, NewContent
  <2>10. CASE n = 0 /\ reply' = Returned(0) /\ UNCHANGED <<disk, open_file_table>>
    <3>1. Files' = Files /\ OpenFiles' = OpenFiles
      BY <2>10, NothingSeen
    <3>2. new = Files[name]
      <4>1. 1 .. Len(Files[name]) \cup 1 .. (offset + n) = 1 .. size
        BY <2>2, <2>3, <2>4, <2>10
      <4>2. \A k \in 1 .. size : k \notin (offset + 1) .. (offset + n)
        BY <2>4, <2>10
      <4>3. new = [k \in 1 .. size |-> Files[name][k]]
        BY <4>1, <4>2 DEF new, NewContent
      <4>4. Files[name] = [k \in 1 .. size |-> Files[name][k]]
        BY <2>2, <2>3 DEF Content
      <4> QED
        BY <4>3, <4>4
    <3>3. Files' = [Files EXCEPT ![name] = new]
      BY <3>1, <3>2, FilesFunction
    <3>4. OpenFiles' = [OpenFiles EXCEPT ![h].offset = offset + n]
      <4>1. OpenFiles[h] = [OpenFiles[h] EXCEPT !.offset = offset + n]
        BY ONLY <2>3, <2>4, <2>10
      <4>2. OpenFiles = [g \in DOMAIN OpenFiles |-> OpenFiles[g]]
        BY DEF OpenFiles
      <4> QED
        BY ONLY <3>1, <4>1, <4>2
    <3> QED
      BY <2>9, <2>10, <3>3, <3>4
  <2>11. CASE n > 0 /\ size = 0 /\ free_blocks = {} /\ Fail
    <3>1. reply' = Returned(-1) /\ Files' = Files /\ OpenFiles' = OpenFiles
      BY <2>11, NothingSeen DEF Fail
    <3>2. Store!Cardinality({f \in Store!Existing : Files[f] # <<>>}) = DataBlocks - 1
      BY <2>8, <2>11, SameCount DEF Store!Existing
    <3>3. Files[OpenFiles[h].name] = <<>> /\ Len(buffer) > 0
      BY <2>3, <2>5, <2>7, <2>11
    <3> QED
      BY <1>2, <3>1, <3>2, <3>3
      DEF Store!WriteFails, Store!Open, OpenFiles, Store!Returned, Returned
  <2>12. ASSUME NEW block, n > 0, n > 0 /\ size = 0 => free_blocks # {},
                IF size = 0 THEN block \in free_blocks ELSE block = inode_table[i].i_data_block,
                WriteBlock(h, buffer, n, block)
         PROVE  Store!Write(h, buffer)
    <3>1. block \in Blocks
      BY <1>0, <2>12 DEF WriteBlock
    <3>2. /\ reply' = Returned(n)
          /\ OpenFiles' = [OpenFiles EXCEPT ![h].offset = offset + n]
          /\ Files' = [Files EXCEPT ![name] = new]
      BY <1>0, <1>2, <2>1, <2>4, <2>5, <2>7, <2>12, <3>1, WriteBlockImplements DEF new
    <3> QED
      BY <2>9, <2>12, <3>2
  <2>13. CASE n > 0 /\ size = 0 /\ free_blocks # {} /\ WriteBlock(h, buffer, n, DataBlockAlloc)
    <3>1. PICK block : block = DataBlockAlloc
      OBVIOUS
    <3>2. block \in free_blocks
      BY <1>0, <2>13, <3>1, DataBlockAllocType
    <3> QED
      BY <2>12, <2>13, <3>1, <3>2
  <2>14. CASE n > 0 /\ size > 0 /\ WriteBlock(h, buffer, n, inode_table[i].i_data_block)
    <3>1. PICK block : block = inode_table[i].i_data_block
      OBVIOUS
    <3> QED
      BY <2>4, <2>12, <2>14, <3>1
  <2> QED
    BY <1>2, <2>2, <2>6, <2>10, <2>11, <2>13, <2>14 DEF Write
<1> QED
  BY <1>1, <1>2

--------------------------------------------------------------------------------
(* The file system is a FileStore *)

(* The file system starts as an empty store. *)
LEMMA InitImplements == Init => Store!Init
<1> SUFFICES ASSUME Init PROVE Store!Init
  OBVIOUS
<1>1. EmptyEntries = Entries
  BY DEF Init, EmptyEntries, EmptyEntry
<1>2. DOMAIN Files = {} /\ DOMAIN OpenFiles = {}
  BY <1>1 DEF Files, OpenFiles, Init
<1>3. Files = [n \in {} |-> <<>>] /\ OpenFiles = [h \in {} |-> <<>>]
  BY <1>2 DEF Files, OpenFiles
<1>4. reply = Store!Returned(0)
  BY DEF Init, Returned, Store!Returned
<1> QED
  BY <1>3, <1>4 DEF Store!Init

(* Every step maps to a step or a stutter. *)
LEMMA NextImplements ==
  ContractInv /\ ContractInv' /\ [Next /\ HandlesFresh']_vars => [Store!Next]_(Store!vars)
<1> SUFFICES ASSUME ContractInv, ContractInv', [Next /\ HandlesFresh']_vars
             PROVE  Store!Next \/ UNCHANGED Store!vars
  OBVIOUS
<1>1. NeverAborted' /\ HandlesFresh'
  BY DEF ContractInv, DisciplinedInv
<1>2. Handles = Store!Handles /\ Buffers = Store!Buffers
  BY DEF Handles, Store!Handles, Buffers, Store!Buffers
<1>3. CASE UNCHANGED vars
  <2>1. UNCHANGED <<disk, open_file_table>> /\ reply' = reply
    BY <1>3 DEF vars
  <2> QED
    BY <2>1, NothingSeen DEF Store!vars
<1>4. ASSUME NEW name \in Names, NEW mode \in Modes, Open(name, mode) PROVE Store!Next
  <2>1. Store!OpenFile(name, mode) \/ Store!Create(name, mode) \/ Store!OpenFails(name, mode)
    BY <1>1, <1>4, OpenExistingImplements, OpenNewImplements, OpenFailsImplements DEF Open
  <2> QED
    BY <2>1 DEF Store!Next
<1>5. ASSUME NEW h \in Handles \cup {-1}, Close(h) PROVE Store!Next
  BY <1>2, <1>5, CloseImplements DEF Store!Next
<1>6. ASSUME NEW h \in Handles \cup {-1}, NEW buffer \in Buffers, Write(h, buffer)
      PROVE  Store!Next
  <2>1. Store!Write(h, buffer) \/ Store!WriteFails(h, buffer) \/ Store!NotOpen(h)
    BY <1>1, <1>6, WriteImplements
  <2> QED
    BY <1>2, <2>1 DEF Store!Next
<1>7. ASSUME NEW h \in Handles \cup {-1}, NEW len \in 0 .. MaxLen, Read(h, len)
      PROVE  Store!Next
  <2>1. Store!Read(h, len) \/ Store!NotOpen(h)
    BY <1>1, <1>7, ReadImplements
  <2> QED
    BY <1>2, <2>1 DEF Store!Next
<1>8. ASSUME NEW name \in Names, Unlink(name) PROVE Store!Next
  BY <1>8, UnlinkImplements DEF Store!Next
<1> QED
  BY <1>3, <1>4, <1>5, <1>6, <1>7, <1>8 DEF Next, Operation

(* For callers that neither delete nor truncate a file under an open handle, the   *)
(* tfs_ operations do exactly what FileStore says: the bytes written are the bytes *)
(* read, in every file, whatever the operations on the others; an operation fails  *)
(* only for want of a handle, an inode, a directory entry or a block.              *)
THEOREM KeepsContract == DisciplinedSpec => StoreContract
<1>1. ContractInv /\ [Next /\ HandlesFresh']_vars => ContractInv'
  BY ContractNext
<1> QED
  BY <1>1, InitContract, InitImplements, NextImplements, PTL
  DEF DisciplinedSpec, StoreContract, Store!Spec

--------------------------------------------------------------------------------
(* Whatever is called in whatever order *)

(* The copy of tfs_write with all that follows it, for the handle's inode.         *)
CopyStep(h, buffer, i, offset, n, block, after) ==
    /\ h \in DOMAIN open_file_table
    /\ i = open_file_table[h].of_inumber /\ offset = open_file_table[h].of_offset
    /\ offset + n <= BlockSize
    /\ IF inode_table[i].i_size = 0 THEN block \in free_blocks
                                    ELSE block = inode_table[i].i_data_block
    /\ Copied(block, offset, n, buffer)
    /\ inode_table' = [inode_table EXCEPT ![i] = [i_size |-> after, i_data_block |-> block]]
    /\ open_file_table' = [open_file_table EXCEPT ![h].of_offset = offset + n]
    /\ reply' = Returned(n) /\ UNCHANGED <<freeinode_ts, dir_entry>>

(* A write does nothing, or copies. *)
LEMMA WriteForm ==
  ASSUME Typed, NEW h, NEW buffer \in Buffers, Write(h, buffer)
  PROVE  \/ /\ UNCHANGED <<disk, open_file_table>>
            /\ reply' \in {reply, Returned(0), Returned(-1)}
         \/ \E i \in Inumbers, offset \in Nat, n \in Nat \ {0}, block \in Blocks : \E after :
               CopyStep(h, buffer, i, offset, n, block, after)
<1> USE TecnicoFSAssumption
<1> DEFINE Nothing == /\ UNCHANGED <<disk, open_file_table>>
                      /\ reply' \in {reply, Returned(0), Returned(-1)}
<1>1. Fail \/ Abort => Nothing
  BY DEF Fail, Abort
<1>2. CASE h \notin DOMAIN open_file_table
  BY <1>1, <1>2 DEF Write
<1>3. CASE h \in DOMAIN open_file_table
  <2>1. PICK i \in Inumbers, offset \in 0 .. MaxOffset, size \in 0 .. BlockSize :
          /\ i = open_file_table[h].of_inumber /\ offset = open_file_table[h].of_offset
          /\ size = inode_table[i].i_size
    BY <1>3 DEF Typed, TypeOK
  <2>2. PICK n \in Nat : /\ n = WriteLength(h, buffer)
                         /\ n <= Len(buffer) => offset + n <= BlockSize
    BY <1>3, <2>1, WriteWithin
  <2>3. ASSUME NEW block, WriteBlock(h, buffer, n, block), n > 0, ~Nothing,
               IF size = 0 THEN block \in free_blocks ELSE block = inode_table[i].i_data_block
        PROVE  block \in Blocks /\ \E after : CopyStep(h, buffer, i, offset, n, block, after)
    <3>1. block \in Blocks /\ ~(n > Len(buffer))
      BY <1>1, <2>3 DEF WriteBlock
    <3>2. offset + n <= BlockSize
      BY <2>2, <3>1, BufferType
    <3>3. PICK after : after = SizeAfter(inode_table[i].i_size, offset + n)
      OBVIOUS
    <3>4. CopyStep(h, buffer, i, offset, n, block, after)
      BY SMTT(30), <1>3, <2>1, <2>3, <3>1, <3>2, <3>3 DEF WriteBlock, Copied, CopyStep
    <3> QED
      BY <3>1, <3>4
  <2>4. free_blocks # {} => DataBlockAlloc \in free_blocks
    BY DataBlockAllocType
  <2>5. CASE n = 0
    BY <1>3, <2>2, <2>5 DEF Write
  <2>6. CASE n > 0
    <3>1. \/ Fail
          \/ size = 0 /\ free_blocks # {} /\ WriteBlock(h, buffer, n, DataBlockAlloc)
          \/ size # 0 /\ WriteBlock(h, buffer, n, inode_table[i].i_data_block)
      BY SMTT(30), <1>3, <2>1, <2>2, <2>6 DEF Write
    <3>2. n \in Nat \ {0} /\ offset \in Nat
      BY <2>6
    <3> QED
      BY <1>1, <2>3, <2>4, <2>6, <3>1, <3>2
  <2> QED
    BY <2>5, <2>6
<1> QED
  BY <1>2, <1>3

(* A file's content changes by truncation, or by a write of its own handle or of a *)
(* deleted file's.                                                                 *)
LEMMA ContentStep ==
  ASSUME BlocksInv, [Next]_vars, NEW i \in Linked, Content(i)' # Content(i)
  PROVE  \/ inode_table'[i].i_size = 0
         \/ \E h \in DOMAIN open_file_table :
               /\ open_file_table[h].of_inumber \in {i} \cup freeinode_ts
               /\ open_file_table'[h].of_offset # open_file_table[h].of_offset
<1>0. /\ Typed /\ DirectoryInv /\ DirectoryConsistent /\ i \in Inumbers
      /\ Linked \cup {ROOT_DIR_INUM} \subseteq Inumbers
      /\ inode_table \in [Inumbers -> [i_size : 0 .. BlockSize, i_data_block : Blocks \cup {-1}]]
  BY LinkedType DEF BlocksInv, DirectoryInv, Typed, TypeOK
<1>1. ~UNCHANGED <<inode_table, fs_data>>
  BY DEF Content
<1>2. ASSUME UNCHANGED fs_data PROVE inode_table'[i] # inode_table[i]
  BY <1>2, ContentKept
<1>3. ASSUME NEW name \in Names, NEW mode \in Modes, OpenExisting(name, mode)
      PROVE  inode_table'[i].i_size = 0
  <2>1. PICK j \in Linked : j = FindInDir(name)
    BY <1>0, <1>3, TheEntry DEF OpenExisting
  <2>2. inode_table' = [inode_table EXCEPT ![j].i_size = OpenSize(j, mode)] /\ UNCHANGED fs_data
    BY <1>3, <2>1 DEF OpenExisting
  <2>3. CASE i = j /\ "TRUNC" \in mode
    BY <1>0, <2>2, <2>3 DEF OpenSize
  <2>4. CASE i = j /\ "TRUNC" \notin mode
    <3>1. OpenSize(j, mode) = inode_table[j].i_size
      BY <2>4 DEF OpenSize
    <3>2. inode_table'[i] = inode_table[i]
      BY <1>0, <2>2, <2>4, <3>1
    <3> QED
      BY <1>2, <2>2, <3>2
  <2>5. CASE i # j
    BY <1>0, <1>2, <2>2, <2>5
  <2> QED
    BY <2>3, <2>4, <2>5
<1>4. ASSUME NEW name \in Names, NEW mode \in Modes, OpenNew(name, mode) PROVE FALSE
  <2>1. PICK j \in freeinode_ts : j = InodeAlloc
    BY <1>0, <1>4, DirectoryNew
  <2>2. inode_table' = [inode_table EXCEPT ![j] = [i_size |-> 0, i_data_block |-> -1]]
        /\ UNCHANGED fs_data
    BY <1>4, <2>1 DEF OpenNew, InodeCreate
  <2>3. i # j
    BY <1>0, <2>1, LinkedType
  <2> QED
    BY <1>0, <1>2, <2>2, <2>3
<1>5. ASSUME NEW name \in Names, NEW mode \in Modes, OpenFails(name, mode) PROVE FALSE
  BY <1>1, <1>5 DEF OpenFails, Fail, disk
<1>6. ASSUME NEW h, Close(h) PROVE FALSE
  BY <1>0, <1>1, <1>6, CloseType DEF disk
<1>7. ASSUME NEW h, NEW len \in 0 .. MaxLen, Read(h, len) PROVE FALSE
  BY <1>0, <1>1, <1>7, ReadType DEF disk
<1>8. ASSUME NEW name \in Names, Unlink(name) PROVE FALSE
  BY <1>1, <1>8 DEF Unlink, Fail, Abort, disk
<1>9. ASSUME NEW h, NEW buffer \in Buffers, Write(h, buffer)
      PROVE  /\ h \in DOMAIN open_file_table
             /\ open_file_table[h].of_inumber \in {i} \cup freeinode_ts
             /\ open_file_table'[h].of_offset # open_file_table[h].of_offset
  <2>1. PICK j \in Inumbers, offset \in Nat, n \in Nat \ {0}, block \in Blocks : \E after :
          CopyStep(h, buffer, j, offset, n, block, after)
    BY <1>0, <1>1, <1>9, WriteForm DEF disk
  <2>2. /\ h \in DOMAIN open_file_table
        /\ j = open_file_table[h].of_inumber /\ offset = open_file_table[h].of_offset
        /\ open_file_table' = [open_file_table EXCEPT ![h].of_offset = offset + n]
    BY <2>1 DEF CopyStep
  <2>3. open_file_table'[h].of_offset # open_file_table[h].of_offset
    <3>1. open_file_table'[h] =
            [of_inumber |-> open_file_table[h].of_inumber, of_offset |-> offset + n]
      BY <1>0, <2>2, HandleMoved
    <3> QED
      BY <2>2, <3>1
  <2>4. j \in {i} \cup freeinode_ts
    <3> SUFFICES ASSUME j \notin {i} \cup freeinode_ts PROVE FALSE
      OBVIOUS
    <3>1. j \in Linked \cup {ROOT_DIR_INUM} /\ i # j
      BY <1>0 DEF DirectoryConsistent
    <3>2. Content(i)' = Content(i)
      BY <2>1, <3>1, OthersKept DEF CopyStep
    <3> QED
      BY <3>2
  <2> QED
    BY <2>2, <2>3, <2>4
<1> QED
  BY <1>1, <1>3, <1>4, <1>5, <1>6, <1>7, <1>8, <1>9
  DEF Next, Operation, Open, vars, disk

(* Whatever is called in whatever order, nobody changes the content of a file but  *)
(* who truncates it or writes to it, or to a deleted file that had its block.      *)
THEOREM OthersContentsKept == Spec => ContentsKept
<1>1. BlocksInv /\ [Next]_vars =>
        [\A i \in Linked : Content(i)' # Content(i) =>
           \/ inode_table'[i].i_size = 0
           \/ \E h \in DOMAIN open_file_table :
                 /\ open_file_table[h].of_inumber \in {i} \cup freeinode_ts
                 /\ open_file_table'[h].of_offset # open_file_table[h].of_offset]_vars
  BY ContentStep
<1> QED
  BY <1>1, InitBlocks, BlocksNext, PTL DEF Spec, ContentsKept

(* A name of the directory is found, as the number of a file. *)
LEMMA NameFound ==
  ASSUME Typed, NEW e \in Entries \ EmptyEntries
  PROVE  FindInDir(dir_entry[e].d_name) \in Linked
<1> DEFINE found == {d \in Entries : /\ dir_entry[d].d_inumber # -1
                                     /\ dir_entry[d].d_name = dir_entry[e].d_name}
<1>1. e \in found /\ found \in SUBSET Nat
  BY DEF EmptyEntries, Entries
<1>2. Min(found) \in found
  BY <1>1, LeastNat
<1>3. FindInDir(dir_entry[e].d_name) = dir_entry[Min(found)].d_inumber
  BY <1>1 DEF FindInDir
<1> QED
  BY <1>2, <1>3 DEF Linked, EmptyEntries

(* A call that fails, but for want of a handle, leaves the files alone. *)
LEMMA FailureStep ==
  ASSUME DirectoryInv, [Next]_vars, reply'.ret = -1
  PROVE  \/ UNCHANGED vars
         \/ /\ UNCHANGED open_file_table
            /\ DOMAIN open_file_table # Handles =>
                 UNCHANGED <<Files, freeinode_ts, free_blocks>>
<1> DEFINE Same == UNCHANGED <<Files, freeinode_ts, free_blocks>>
           Goal == /\ UNCHANGED open_file_table
                   /\ DOMAIN open_file_table # Handles => Same
<1>0. /\ Typed /\ DOMAIN open_file_table \subseteq Handles /\ Handles \subseteq Int
      /\ freeinode_ts \subseteq Inumbers
      /\ inode_table \in [Inumbers -> [i_size : 0 .. BlockSize, i_data_block : Blocks \cup {-1}]]
  <2>1. Typed /\ TypeOK
    BY DEF DirectoryInv, Typed
  <2>2. Handles \subseteq Int
    BY TecnicoFSAssumption DEF Handles
  <2> QED
    BY <2>1, <2>2 DEF TypeOK
<1>1. UNCHANGED <<disk, open_file_table>> => Goal
  BY DEF disk, Files, Content, FindInDir, EmptyEntries
<1>2. Fail \/ Abort => Goal
  BY <1>1 DEF Fail, Abort
<1>3. \A n : Returned(n).ret = n
  BY DEF Returned
<1>4. ASSUME NEW inum, NEW offset, AddToOpenFileTable(inum, offset)
      PROVE  UNCHANGED open_file_table /\ DOMAIN open_file_table = Handles
  <2>1. ASSUME NEW h \in Handles, reply' = Returned(h) PROVE FALSE
    BY <1>3, <2>1, TecnicoFSAssumption DEF Handles
  <2> QED
    BY <1>0, <1>4, <2>1, HandleAdded
<1>5. ASSUME NEW name \in Names, NEW mode \in Modes, OpenExisting(name, mode) PROVE Goal
  BY <1>4, <1>5 DEF OpenExisting
<1>6. ASSUME NEW name \in Names, NEW mode \in Modes, OpenNew(name, mode) PROVE Goal
  <2>1. CASE ~NoEntryFor(name)
    BY <1>4, <1>6, <2>1 DEF OpenNew
  <2>2. CASE NoEntryFor(name)
    <3>1. PICK j \in freeinode_ts : j = InodeAlloc
      BY <1>6, DirectoryNew
    <3>2. /\ inode_table' = [inode_table EXCEPT ![j] = [i_size |-> 0, i_data_block |-> -1]]
          /\ UNCHANGED <<fs_data, free_blocks, dir_entry, open_file_table>>
          /\ freeinode_ts' = (freeinode_ts \ {j}) \cup {j}
      BY <1>6, <2>2, <3>1 DEF OpenNew, InodeCreate, GiveBack
    <3>3. ASSUME NEW i \in Linked PROVE Content(i)' = Content(i)
      <4>1. i # j /\ i \in Inumbers
        BY <3>1, LinkedType
      <4>2. inode_table'[i] = inode_table[i]
        BY <1>0, <3>2, <4>1
      <4> QED
        BY <3>2, <4>2, ContentKept
    <3>4. /\ DOMAIN Files' = DOMAIN Files
          /\ \A m : FindInDir(m)' = FindInDir(m)
      BY <3>2, DirectoryRead
    <3>5. ASSUME NEW m \in DOMAIN Files PROVE Files'[m] = Files[m]
      <4>1. PICK e \in Entries \ EmptyEntries : m = dir_entry[e].d_name
        BY DEF Files
      <4>2. PICK i \in Linked : i = FindInDir(m)
        BY <1>0, <4>1, NameFound
      <4> QED
        BY <3>3, <3>4, <4>2, FilesAt, FilesAtNext
    <3>6. Files' = Files
      BY <3>4, <3>5, FilesFunction, FilesFunctionNext
    <3> QED
      BY <3>1, <3>2, <3>6
  <2> QED
    BY <2>1, <2>2
<1>7. ASSUME NEW name \in Names, NEW mode \in Modes, OpenFails(name, mode) PROVE Goal
  BY <1>2, <1>7 DEF OpenFails
<1>8. ASSUME NEW h, Close(h) PROVE Goal
  BY <1>2, <1>3, <1>8 DEF Close
<1>9. ASSUME NEW h, NEW buffer \in Buffers, Write(h, buffer) PROVE Goal
  <2>1. CASE UNCHANGED <<disk, open_file_table>>
    BY <1>1, <2>1
  <2>2. ASSUME NEW i, NEW offset, NEW n \in Nat \ {0}, NEW block, NEW after,
               CopyStep(h, buffer, i, offset, n, block, after)
        PROVE  FALSE
    BY <1>3, <2>2 DEF CopyStep
  <2> QED
    BY <1>0, <1>9, <2>1, <2>2, WriteForm
<1>10. ASSUME NEW h, NEW len \in 0 .. MaxLen, Read(h, len) PROVE Goal
  <2>1. ASSUME NEW n, n > 0, ReadBlock(h, n) PROVE Abort
    <3>1. [ret |-> n, data |-> reply'.data].ret # -1
      BY <2>1
    <3> QED
      BY <2>1, <3>1 DEF ReadBlock
  <2> QED
    BY <1>1, <1>2, <1>10, <2>1 DEF Read
<1>11. ASSUME NEW name \in Names, Unlink(name) PROVE Goal
  BY <1>2, <1>3, <1>11 DEF Unlink
<1> QED
  BY <1>5, <1>6, <1>7, <1>8, <1>9, <1>10, <1>11 DEF Next, Operation, Open

(* A call that fails leaves every file, every handle and what is free as it was,   *)
(* but for a tfs_open that found no free handle after it created or truncated.     *)
THEOREM FailuresLeaveFiles == Spec => FailuresKeepFiles
<1>1. DirectoryInv /\ [Next]_vars =>
        [reply'.ret = -1 =>
           /\ UNCHANGED open_file_table
           /\ DOMAIN open_file_table # Handles =>
                UNCHANGED <<Files, freeinode_ts, free_blocks>>]_vars
  BY FailureStep
<1> QED
  BY <1>1, InitDirectory, DirectoryNext, PTL DEF Spec, FailuresKeepFiles
================================================================================
