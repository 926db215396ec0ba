---------------------------- MODULE TecnicoFSProofs -----------------------------
(* Theorems about TecnicoFS, for every size of every table, of the blocks and of   *)
(* the buffers.                                                                    *)
EXTENDS TecnicoFS, WellFoundedInduction, TLAPS

--------------------------------------------------------------------------------
(* Least and greatest, and arithmetic of size_t *)

(* The first free entry of a table exists and is free. *)
LEMMA LeastNat ==
  ASSUME NEW S \in SUBSET Nat, S # {}
  PROVE  Min(S) \in S
<1> DEFINE R == OpToRel(<, Nat)
<1>1. PICK n \in S : \A k \in S : ~(<<k, n>> \in R)
  <2> HIDE DEF R
  <2>1. IsWellFoundedOn(R, Nat)
    BY NatLessThanWellFounded DEF R
  <2> QED
    BY <2>1, WFMin
<1>2. ASSUME NEW k \in S PROVE n <= k
  <2>1. ~(<<k, n>> \in R)
    BY <1>1
  <2>2. k \in Nat /\ n \in Nat
    OBVIOUS
  <2>3. ~(k < n)
    BY <2>1, <2>2 DEF OpToRel
  <2> QED
    BY <2>2, <2>3
<1>3. \E m \in S : \A k \in S : m <= k
  BY <1>2
<1> QED
  BY <1>3 DEF Min

(* The smaller and the greater of two numbers. *)
LEMMA TwoNumbers ==
  ASSUME NEW a \in Int, NEW b \in Int
  PROVE  /\ Min({a, b}) = IF a <= b THEN a ELSE b
         /\ Max({a, b}) = IF a >= b THEN a ELSE b
<1>1. PICK x : x = IF a <= b THEN a ELSE b
  OBVIOUS
<1>2. x \in {a, b} /\ \A y \in {a, b} : x <= y
  BY <1>1
<1>3. \A z \in {a, b} : (\A y \in {a, b} : z <= y) => z = x
  BY <1>2, x \in Int
<1>4. PICK u : u = IF a >= b THEN a ELSE b
  OBVIOUS
<1>5. u \in {a, b} /\ \A y \in {a, b} : u >= y
  BY <1>4
<1>6. \A z \in {a, b} : (\A y \in {a, b} : z >= y) => z = u
  BY <1>5, u \in Int
<1>7. Min({a, b}) = x
  BY <1>2, <1>3 DEF Min
<1>8. Max({a, b}) = u
  BY <1>5, <1>6 DEF Max
<1> QED
  BY <1>1, <1>4, <1>7, <1>8

(* There is but one remainder. *)
LEMMA Remainder ==
  ASSUME NEW M \in Nat \ {0}, NEW q \in Nat, NEW r \in 0 .. M - 1
  PROVE  (M * q + r) % M = r
<1>1. PICK x \in Nat : x = M * q + r
  OBVIOUS
<1>2. PICK p \in Int, s \in 0 .. M - 1 : s = x % M /\ x = M * p + s
  <2>1. x \div M \in Int /\ x % M \in 0 .. M - 1 /\ x = M * (x \div M) + (x % M)
    OBVIOUS
  <2> QED
    BY <2>1
<1>3. PICK d \in Int : d = p - q
  OBVIOUS
<1>4. M * d < M /\ M * d > 0 - M
  BY <1>1, <1>2, <1>3, M * d = r - s
<1>5. d = 0
  <2>1. d >= 1 => M * d >= M
    OBVIOUS
  <2>2. d <= -1 => M * d <= 0 - M
    OBVIOUS
  <2> QED
    BY <1>4, <2>1, <2>2
<1> QED
  BY <1>1, <1>2, <1>3, <1>5

(* What a difference of two size_t values comes to. *)
LEMMA SubOf ==
  ASSUME NEW a \in Nat, NEW b \in Nat, a < SizeModulus, b < SizeModulus
  PROVE  Sub(a, b) = IF b <= a THEN a - b ELSE SizeModulus + a - b
<1> USE TecnicoFSAssumption
<1>1. CASE b <= a
  <2>1. SizeModulus + a - b = SizeModulus * 1 + (a - b) /\ a - b \in 0 .. SizeModulus - 1
    BY <1>1
  <2> QED
    BY <1>1, <2>1, Remainder DEF Sub
<1>2. CASE a < b
  <2>1. PICK r \in 0 .. SizeModulus - 1 : r = SizeModulus + a - b
    BY <1>2
  <2>2. SizeModulus * 0 + r = r
    OBVIOUS
  <2>3. r % SizeModulus = r
    BY <2>2, Remainder
  <2> QED
    BY <1>2, <2>1, <2>3 DEF Sub
<1> QED
  BY <1>1, <1>2

--------------------------------------------------------------------------------
(* Type correctness *)

(* An inode with a size, in use or not, has a block. *)
SizedHaveBlock ==
    \A i \in Inumbers : inode_table[i].i_size > 0 => inode_table[i].i_data_block \in Blocks

Typed == TypeOK /\ SizedHaveBlock

(* tfs_init. *)
LEMMA InitTyped == Init => Typed
<1> SUFFICES ASSUME Init PROVE Typed
  OBVIOUS
<1> USE TecnicoFSAssumption DEF Init
<1>1. 0 \in Blocks
  BY DEF Blocks
<1>2. inode_table \in [Inumbers -> [i_size : 0 .. BlockSize, i_data_block : Blocks \cup {-1}]]
  BY <1>1
<1>3. /\ freeinode_ts \subseteq Inumbers
      /\ fs_data \in [Addresses -> Bytes \cup {Zero}]
      /\ free_blocks \subseteq Blocks
      /\ DOMAIN open_file_table \subseteq Handles
      /\ \A h \in DOMAIN open_file_table :
            open_file_table[h] \in [of_inumber : Inumbers, of_offset : 0 .. MaxOffset]
      /\ aborted \in BOOLEAN
  OBVIOUS
<1>4. dir_entry \in [Entries -> [d_name : Names \cup {NoName}, d_inumber : Inumbers \cup {-1}]]
  BY DEF EmptyEntry
<1>5. reply.ret \in Int /\ reply.data \in Seq(Bytes \cup {Zero})
  BY DEF Returned
<1>6. SizedHaveBlock
  BY <1>1 DEF SizedHaveBlock
<1> QED
  BY <1>2, <1>3, <1>4, <1>5, <1>6 DEF Typed, TypeOK

(* The directory finds an inode, or none. *)
LEMMA FindInDirType ==
  ASSUME TypeOK, NEW name, FindInDir(name) # -1
  PROVE  \E e \in Entries :
            /\ dir_entry[e].d_inumber = FindInDir(name) /\ dir_entry[e].d_name = name
            /\ FindInDir(name) \in Inumbers
<1> DEFINE found == {e \in Entries : dir_entry[e].d_inumber # -1 /\ dir_entry[e].d_name = name}
<1>1. found # {} /\ FindInDir(name) = dir_entry[Min(found)].d_inumber
  BY DEF FindInDir
<1>2. Min(found) \in found
  <2>1. found \in SUBSET Nat
    BY DEF Entries
  <2> QED
    BY <1>1, <2>1, LeastNat
<1> QED
  BY <1>1, <1>2 DEF TypeOK

(* A reply without data. *)
LEMMA ReturnedType ==
  ASSUME NEW ret \in Int
  PROVE  Returned(ret).ret \in Int /\ Returned(ret).data \in Seq(Bytes \cup {Zero})
  BY DEF Returned

(* Early returns and aborts. *)
LEMMA FailType ==
  ASSUME Typed, Fail \/ Abort \/ UNCHANGED vars
              \/ (reply' = Returned(0) /\ UNCHANGED <<disk, open_file_table, aborted>>)
  PROVE  Typed' /\ UNCHANGED disk
<1>1. UNCHANGED <<disk, open_file_table>> /\ aborted' \in BOOLEAN
  BY DEF Fail, Abort, vars, Typed, TypeOK
<1>2. reply'.ret \in Int /\ reply'.data \in Seq(Bytes \cup {Zero})
  <2>1. reply' = Returned(-1) \/ reply' = Returned(0) \/ reply' = reply
    BY DEF Fail, Abort, vars
  <2> QED
    BY <2>1, ReturnedType DEF Typed, TypeOK
<1>3. UNCHANGED <<inode_table, freeinode_ts, fs_data, free_blocks, dir_entry>>
  BY <1>1 DEF disk
<1>4. TypeOK'
  BY <1>1, <1>2, <1>3 DEF Typed, TypeOK
<1> QED
  BY <1>1, <1>3, <1>4 DEF Typed, SizedHaveBlock

(* What is added to the open file table. *)
LEMMA HandleType ==
  ASSUME Typed, NEW inum \in Inumbers, NEW offset \in 0 .. BlockSize,
         AddToOpenFileTable(inum, offset)
  PROVE  /\ DOMAIN open_file_table' \subseteq Handles
         /\ \A h \in DOMAIN open_file_table' :
               open_file_table'[h] \in [of_inumber : Inumbers, of_offset : 0 .. MaxOffset]
         /\ reply'.ret \in Int /\ reply'.data \in Seq(Bytes \cup {Zero})
<1> USE TecnicoFSAssumption
<1> DEFINE free == Handles \ DOMAIN open_file_table
<1>1. CASE free = {}
  <2>1. reply' = Returned(-1) /\ open_file_table' = open_file_table
    BY <1>1 DEF AddToOpenFileTable
  <2>2. reply'.ret \in Int /\ reply'.data \in Seq(Bytes \cup {Zero})
    BY SMTT(30), <2>1, ReturnedType
  <2>3. /\ DOMAIN open_file_table \subseteq Handles
        /\ \A h \in DOMAIN open_file_table :
              open_file_table[h] \in [of_inumber : Inumbers, of_offset : 0 .. MaxOffset]
    BY DEF Typed, TypeOK
  <2> QED
    BY <2>1, <2>2, <2>3
<1>2. CASE free # {}
  <2>1. Min(free) \in free
    <3>1. free \in SUBSET Nat
      BY DEF Handles
    <3> QED
      BY <1>2, <3>1, LeastNat
  <2>2. Min(free) \in Int
    BY <2>1 DEF Handles
  <2>3. /\ reply' = Returned(Min(free))
        /\ open_file_table' = Extend(open_file_table, Min(free),
                                     [of_inumber |-> inum, of_offset |-> offset])
    BY <1>2 DEF AddToOpenFileTable
  <2> HIDE DEF free
  <2>4. Min(free) \in Handles
    BY <2>1 DEF free
  <2>5. [of_inumber |-> inum, of_offset |-> offset]
            \in [of_inumber : Inumbers, of_offset : 0 .. MaxOffset]
    OBVIOUS
  <2> QED
    BY <2>2, <2>3, <2>4, <2>5, ReturnedType DEF Extend, Typed, TypeOK
<1> QED
  BY <1>1, <1>2

(* tfs_open of a file that exists. *)
LEMMA OpenExistingType ==
  ASSUME Typed, NEW name \in Names, NEW mode \in Modes, OpenExisting(name, mode)
  PROVE  Typed'
<1> USE TecnicoFSAssumption
<1>1. PICK inum \in Inumbers : inum = FindInDir(name)
  BY FindInDirType DEF OpenExisting, Typed
<1>2. PICK size : size = OpenSize(inum, mode)
  OBVIOUS
<1>3. size \in 0 .. BlockSize /\ (size = 0 \/ size = inode_table[inum].i_size)
  BY <1>2 DEF OpenSize, Typed, TypeOK
<1>4. /\ free_blocks' = IF "TRUNC" \in mode
                        THEN free_blocks \cup ContentBlock(inum) ELSE free_blocks
      /\ inode_table' = [inode_table EXCEPT ![inum].i_size = size]
      /\ AddToOpenFileTable(inum, IF "APPEND" \in mode THEN size ELSE 0)
      /\ UNCHANGED <<freeinode_ts, fs_data, dir_entry, aborted>>
  BY <1>1, <1>2 DEF OpenExisting
<1>5. inode_table' \in [Inumbers -> [i_size : 0 .. BlockSize, i_data_block : Blocks \cup {-1}]]
  <2>1. inode_table \in [Inumbers -> [i_size : 0 .. BlockSize, i_data_block : Blocks \cup {-1}]]
    BY DEF Typed, TypeOK
  <2>2. [inode_table[inum] EXCEPT !.i_size = size]
            \in [i_size : 0 .. BlockSize, i_data_block : Blocks \cup {-1}]
    BY <1>3, <2>1
  <2> QED
    BY <1>4, <2>1, <2>2
<1>6. free_blocks' \subseteq Blocks
  BY <1>4 DEF ContentBlock, Typed, TypeOK, SizedHaveBlock
<1>7. /\ DOMAIN open_file_table' \subseteq Handles
      /\ \A h \in DOMAIN open_file_table' :
            open_file_table'[h] \in [of_inumber : Inumbers, of_offset : 0 .. MaxOffset]
      /\ reply'.ret \in Int /\ reply'.data \in Seq(Bytes \cup {Zero})
  <2>1. PICK offset \in 0 .. BlockSize : offset = IF "APPEND" \in mode THEN size ELSE 0
    BY <1>3
  <2> QED
    BY <1>4, <2>1, HandleType
<1>8. SizedHaveBlock'
  BY <1>3, <1>4 DEF Typed, TypeOK, SizedHaveBlock
<1>9. TypeOK'
  BY <1>4, <1>5, <1>6, <1>7 DEF Typed, TypeOK
<1> QED
  BY <1>8, <1>9 DEF Typed

(* The inode that is allocated. *)
LEMMA InodeAllocType ==
  ASSUME Typed, freeinode_ts # {}
  PROVE  InodeAlloc \in freeinode_ts /\ InodeAlloc \in Inumbers
<1>1. freeinode_ts \in SUBSET Nat
  BY DEF Typed, TypeOK, Inumbers
<1> QED
  BY <1>1, LeastNat DEF InodeAlloc, Typed, TypeOK

(* The directory entry that is taken. *)
LEMMA EmptyEntryType ==
  ASSUME EmptyEntries # {}
  PROVE  Min(EmptyEntries) \in EmptyEntries
<1>1. EmptyEntries \in SUBSET Nat
  BY DEF EmptyEntries, Entries
<1> QED
  BY <1>1, LeastNat

(* tfs_open that makes a file. *)
LEMMA OpenNewType ==
  ASSUME Typed, NEW name \in Names, NEW mode \in Modes, OpenNew(name, mode)
  PROVE  Typed'
<1> USE TecnicoFSAssumption
<1>1. PICK inum \in Inumbers : inum = InodeAlloc /\ inum \in freeinode_ts
  BY InodeAllocType DEF OpenNew
<1>2. /\ inode_table' = [inode_table EXCEPT ![inum] = [i_size |-> 0, i_data_block |-> -1]]
      /\ freeinode_ts' = (freeinode_ts \ {inum}) \cup GiveBack(name)
      /\ UNCHANGED <<fs_data, free_blocks, aborted>>
  BY <1>1 DEF OpenNew, InodeCreate
<1>3. /\ inode_table' \in [Inumbers -> [i_size : 0 .. BlockSize,
                                        i_data_block : Blocks \cup {-1}]]
      /\ freeinode_ts' \subseteq Inumbers
      /\ SizedHaveBlock'
  BY <1>1, <1>2 DEF GiveBack, Typed, TypeOK, SizedHaveBlock
<1>4. CASE NoEntryFor(name)
  <2>1. reply' = Returned(-1) /\ UNCHANGED <<dir_entry, open_file_table>>
    BY <1>4 DEF OpenNew
  <2>2. reply'.ret \in Int /\ reply'.data \in Seq(Bytes \cup {Zero})
    BY SMTT(30), <2>1, ReturnedType
  <2> QED
    BY <1>2, <1>3, <2>1, <2>2 DEF Typed, TypeOK
<1>5. CASE ~NoEntryFor(name)
  <2>1. AddDirEntry(name, inum) /\ AddToOpenFileTable(inum, 0)
    BY <1>1, <1>5 DEF OpenNew
  <2>2. dir_entry' \in [Entries -> [d_name : Names \cup {NoName},
                                    d_inumber : Inumbers \cup {-1}]]
    BY <2>1 DEF AddDirEntry, Typed, TypeOK
  <2>3. /\ DOMAIN open_file_table' \subseteq Handles
        /\ \A h \in DOMAIN open_file_table' :
              open_file_table'[h] \in [of_inumber : Inumbers, of_offset : 0 .. MaxOffset]
        /\ reply'.ret \in Int /\ reply'.data \in Seq(Bytes \cup {Zero})
    BY <2>1, HandleType, 0 \in 0 .. BlockSize
  <2> QED
    BY <1>2, <1>3, <2>2, <2>3 DEF Typed, TypeOK
<1> QED
  BY <1>4, <1>5

(* tfs_close. *)
LEMMA CloseType ==
  ASSUME Typed, NEW h, Close(h)
  PROVE  Typed' /\ UNCHANGED disk
<1>1. CASE Fail
  BY <1>1, FailType
<1>2. CASE /\ open_file_table' = [g \in DOMAIN open_file_table \ {h} |-> open_file_table[g]]
           /\ reply' = Returned(0)
           /\ UNCHANGED <<disk, aborted>>
  <2>1. UNCHANGED <<inode_table, freeinode_ts, fs_data, free_blocks, dir_entry>>
    BY <1>2 DEF disk
  <2>2. reply'.ret \in Int /\ reply'.data \in Seq(Bytes \cup {Zero})
    BY <1>2, ReturnedType
  <2>3. /\ DOMAIN open_file_table' \subseteq Handles
        /\ \A g \in DOMAIN open_file_table' :
              open_file_table'[g] \in [of_inumber : Inumbers, of_offset : 0 .. MaxOffset]
    BY <1>2 DEF Typed, TypeOK
  <2>4. TypeOK'
    BY <1>2, <2>1, <2>2, <2>3 DEF Typed, TypeOK
  <2> QED
    BY <1>2, <2>1, <2>4 DEF Typed, SizedHaveBlock
<1> QED
  BY <1>1, <1>2 DEF Close

(* What a caller hands to tfs_write. *)
LEMMA BufferType ==
  ASSUME NEW buffer \in Buffers
  PROVE  Len(buffer) \in 0 .. MaxLen /\ \A k \in 1 .. Len(buffer) : buffer[k] \in Bytes
<1>1. PICK n \in 0 .. MaxLen : buffer \in [1 .. n -> Bytes]
  BY DEF Buffers
<1>2. n \in Nat /\ buffer \in Seq(Bytes)
  BY <1>1
<1>3. Len(buffer) = n
  BY <1>1, <1>2
<1> QED
  BY <1>1, <1>3

(* A write stays within its block: where the offset is beyond the block the length *)
(* has wrapped around and exceeds every buffer.                                    *)
LEMMA WriteWithin ==
  ASSUME NEW h \in DOMAIN open_file_table, NEW buffer \in Buffers,
         open_file_table[h].of_offset \in 0 .. MaxOffset
  PROVE  LET offset == open_file_table[h].of_offset
             length == WriteLength(h, buffer)
         IN  /\ length \in Nat
             /\ length <= Len(buffer) => offset + length <= BlockSize
             /\ offset <= BlockSize => length <= Len(buffer)
<1> USE TecnicoFSAssumption
<1>1. PICK offset \in 0 .. MaxOffset : offset = open_file_table[h].of_offset
  OBVIOUS
<1>2. PICK n \in 0 .. MaxLen : n = Len(buffer)
  BY BufferType
<1>3. PICK length : length = WriteLength(h, buffer)
  OBVIOUS
<1>4. length = IF n + offset > BlockSize THEN Sub(BlockSize, offset) ELSE n
  BY <1>1, <1>2, <1>3 DEF WriteLength
<1>5. Sub(BlockSize, offset) = IF offset <= BlockSize THEN BlockSize - offset
                               ELSE SizeModulus + BlockSize - offset
  <2>1. BlockSize \in Nat /\ BlockSize < SizeModulus /\ offset \in Nat /\ offset < SizeModulus
    OBVIOUS
  <2> QED
    BY <2>1, SubOf
<1>6. /\ length \in Nat
      /\ length <= n => offset + length <= BlockSize
      /\ offset <= BlockSize => length <= n
  BY <1>4, <1>5
<1> QED
  BY <1>1, <1>2, <1>3, <1>6

(* A block of the file has been written: the one it had or, if it was empty, one   *)
(* that was free.                                                                  *)
Wrote(i, block) ==
    /\ i \in Inumbers /\ block \in Blocks
    /\ \E size \in 1 .. BlockSize :
         inode_table' = [inode_table EXCEPT ![i] = [i_size |-> size, i_data_block |-> block]]
    /\ \/ /\ inode_table[i].i_size > 0 /\ block = inode_table[i].i_data_block
          /\ UNCHANGED free_blocks
       \/ /\ inode_table[i].i_size = 0 /\ block \in free_blocks
          /\ free_blocks' = free_blocks \ {block}
    /\ UNCHANGED <<freeinode_ts, dir_entry>>

(* The block allocated is free. *)
LEMMA DataBlockAllocType ==
  ASSUME Typed, free_blocks # {}
  PROVE  DataBlockAlloc \in free_blocks
<1>1. free_blocks \in SUBSET Nat
  BY DEF Typed, TypeOK, Blocks
<1> QED
  BY <1>1, LeastNat DEF DataBlockAlloc

(* The copy into the block and what follows it. *)
LEMMA WriteBlockType ==
  ASSUME Typed, NEW h \in DOMAIN open_file_table, NEW buffer \in Buffers, NEW block,
         LET inode == inode_table[open_file_table[h].of_inumber]
         IN  \/ inode.i_size = 0 /\ block \in free_blocks
             \/ inode.i_size > 0 /\ block = inode.i_data_block,
         WriteLength(h, buffer) > 0,
         WriteBlock(h, buffer, WriteLength(h, buffer), block)
  PROVE  Typed' /\ (UNCHANGED disk \/ Wrote(open_file_table[h].of_inumber, block))
<1> USE TecnicoFSAssumption
<1>1. PICK i \in Inumbers, offset \in 0 .. MaxOffset :
        i = open_file_table[h].of_inumber /\ offset = open_file_table[h].of_offset
  BY DEF Typed, TypeOK
<1>2. PICK length \in Nat :
        /\ length = WriteLength(h, buffer)
        /\ length <= Len(buffer) => offset + length <= BlockSize
  BY <1>1, WriteWithin
<1>3. CASE Abort
  BY <1>3, FailType
<1>4. CASE block \in Blocks /\ length <= Len(buffer)
  <2> DEFINE last == offset + length
             size == SizeAfter(inode_table[i].i_size, last)
  <2>1. last \in 1 .. BlockSize
    BY SMTT(30), <1>2, <1>4
  <2>2. inode_table[i].i_size \in 0 .. BlockSize
    BY DEF Typed, TypeOK
  <2>3. size \in 1 .. BlockSize
    <3>1. PICK a \in 1 .. BlockSize, b \in 0 .. BlockSize :
            a = last /\ b = inode_table[i].i_size
      BY <2>1, <2>2
    <3>2. a \in Int /\ b \in Int
      OBVIOUS
    <3>3. Max({a, b}) = IF a >= b THEN a ELSE b
      BY <3>2, TwoNumbers
    <3>4. size = Max({a, b})
      BY <3>1 DEF SizeAfter
    <3> HIDE DEF last, size
    <3> QED
      BY <3>3, <3>4
  <2>4. /\ fs_data' = [a \in Addresses |->
                        LET k == a - (block * BlockSize + offset) + 1
                        IN  IF k \in 1 .. length THEN buffer[k] ELSE fs_data[a]]
        /\ open_file_table' = [open_file_table EXCEPT ![h].of_offset = last]
        /\ inode_table' = [inode_table EXCEPT ![i] =
                             [i_size |-> size, i_data_block |-> block]]
        /\ free_blocks' = IF inode_table[i].i_size = 0
                          THEN free_blocks \ {block} ELSE free_blocks
        /\ reply' = Returned(length)
        /\ UNCHANGED <<freeinode_ts, dir_entry, aborted>>
    <3>1. ~(block \notin Blocks \/ WriteLength(h, buffer) > Len(buffer))
      <4>1. Len(buffer) \in Nat
        BY BufferType
      <4> QED
        BY <1>2, <1>4, <4>1
    <3> QED
      BY <1>1, <1>2, <3>1 DEF WriteBlock
  <2> HIDE DEF last, size
  <2>5. fs_data' \in [Addresses -> Bytes \cup {Zero}]
    <3>1. \A k \in 1 .. length : buffer[k] \in Bytes
      BY <1>4, BufferType
    <3>2. fs_data \in [Addresses -> Bytes \cup {Zero}]
      BY DEF Typed, TypeOK
    <3> QED
      BY <2>4, <3>1, <3>2
  <2>6. /\ inode_table' \in [Inumbers -> [i_size : 0 .. BlockSize,
                                          i_data_block : Blocks \cup {-1}]]
        /\ SizedHaveBlock'
        /\ free_blocks' \subseteq Blocks
    <3>1. /\ inode_table \in [Inumbers -> [i_size : 0 .. BlockSize,
                                           i_data_block : Blocks \cup {-1}]]
          /\ free_blocks \subseteq Blocks
          /\ SizedHaveBlock
      BY DEF Typed, TypeOK
    <3>2. [i_size |-> size, i_data_block |-> block]
              \in [i_size : 0 .. BlockSize, i_data_block : Blocks \cup {-1}]
      BY <1>4, <2>3
    <3>3. SizedHaveBlock'
      BY <1>4, <2>4, <3>1 DEF SizedHaveBlock
    <3> QED
      BY <2>4, <3>1, <3>2, <3>3
  <2>7. /\ DOMAIN open_file_table' \subseteq Handles
        /\ \A g \in DOMAIN open_file_table' :
              open_file_table'[g] \in [of_inumber : Inumbers, of_offset : 0 .. MaxOffset]
    <3>1. /\ DOMAIN open_file_table \subseteq Handles
          /\ \A g \in DOMAIN open_file_table :
                open_file_table[g] \in [of_inumber : Inumbers, of_offset : 0 .. MaxOffset]
      BY DEF Typed, TypeOK
    <3>2. last \in 0 .. MaxOffset
      BY <2>1
    <3> QED
      BY <2>4, <3>1, <3>2
  <2>8. reply'.ret \in Int /\ reply'.data \in Seq(Bytes \cup {Zero})
    BY SMTT(30), <2>4, ReturnedType
  <2>9. Typed'
    <3>1. TypeOK'
      BY <2>4, <2>5, <2>6, <2>7, <2>8 DEF Typed, TypeOK
    <3> QED
      BY <2>6, <3>1 DEF Typed
  <2>10. Wrote(i, block)
    <3>1. \/ inode_table[i].i_size = 0 /\ block \in free_blocks
          \/ inode_table[i].i_size > 0 /\ block = inode_table[i].i_data_block
      BY <1>1
    <3>2. \/ /\ inode_table[i].i_size > 0 /\ block = inode_table[i].i_data_block
             /\ UNCHANGED free_blocks
          \/ /\ inode_table[i].i_size = 0 /\ block \in free_blocks
             /\ free_blocks' = free_blocks \ {block}
      BY <2>2, <2>4, <3>1
    <3> QED
      BY <1>4, <2>3, <2>4, <3>2 DEF Wrote
  <2> QED
    BY <1>1, <2>9, <2>10
<1> QED
  BY <1>2, <1>3, <1>4, BufferType DEF WriteBlock

(* tfs_write. *)
LEMMA WriteType ==
  ASSUME Typed, NEW h, NEW buffer \in Buffers, Write(h, buffer)
  PROVE  /\ Typed'
         /\ \/ UNCHANGED disk
            \/ \E g \in DOMAIN open_file_table : \E block :
                  Wrote(open_file_table[g].of_inumber, block)
<1>1. CASE h \notin DOMAIN open_file_table
  BY <1>1, FailType DEF Write
<1>2. CASE h \in DOMAIN open_file_table
  <2> DEFINE inode == inode_table[open_file_table[h].of_inumber]
             length == WriteLength(h, buffer)
  <2>1. CASE reply' = Returned(0) /\ UNCHANGED <<disk, open_file_table, aborted>>
    BY <2>1, FailType
  <2>2. CASE length > 0 /\ inode.i_size = 0
             /\ (IF free_blocks = {} THEN Fail
                 ELSE WriteBlock(h, buffer, length, DataBlockAlloc))
    <3>1. CASE Fail
      BY <3>1, FailType
    <3>2. CASE free_blocks # {} /\ WriteBlock(h, buffer, length, DataBlockAlloc)
      BY <1>2, <2>2, <3>2, WriteBlockType, DataBlockAllocType
    <3> QED
      BY <2>2, <3>1, <3>2
  <2>3. CASE length > 0 /\ inode.i_size > 0
             /\ WriteBlock(h, buffer, length, inode.i_data_block)
    BY <1>2, <2>3, WriteBlockType
  <2> QED
    BY <1>2, <2>1, <2>2, <2>3 DEF Write
<1> QED
  BY <1>1, <1>2

(* The length tfs_read comes to is a natural number. *)
LEMMA ReadLengthType ==
  ASSUME Typed, NEW h \in DOMAIN open_file_table, NEW len \in 0 .. MaxLen
  PROVE  LET file == open_file_table[h]
             rest == Sub(inode_table[file.of_inumber].i_size, file.of_offset)
         IN  /\ rest \in Nat /\ ReadLength(h, len) = IF len <= rest THEN len ELSE rest
             /\ file.of_offset <= inode_table[file.of_inumber].i_size =>
                  rest = inode_table[file.of_inumber].i_size - file.of_offset
<1> USE TecnicoFSAssumption
<1>1. PICK size \in 0 .. BlockSize, offset \in 0 .. MaxOffset :
        /\ offset = open_file_table[h].of_offset
        /\ size = inode_table[open_file_table[h].of_inumber].i_size
  BY DEF Typed, TypeOK
<1>2. /\ size \in Nat /\ size < SizeModulus /\ offset \in Nat /\ offset < SizeModulus
  OBVIOUS
<1>3. PICK rest : rest = Sub(size, offset)
  OBVIOUS
<1>4. rest = IF offset <= size THEN size - offset ELSE SizeModulus + size - offset
  BY <1>2, <1>3, SubOf
<1>5. rest \in Nat
  BY <1>2, <1>4
<1>6. Min({len, rest}) = IF len <= rest THEN len ELSE rest
  <2>1. len \in Int /\ rest \in Int
    BY <1>5
  <2> QED
    BY <2>1, TwoNumbers
<1> QED
  BY <1>1, <1>3, <1>4, <1>5, <1>6 DEF ReadLength

(* tfs_read. *)
LEMMA ReadType ==
  ASSUME Typed, NEW h, NEW len \in 0 .. MaxLen, Read(h, len)
  PROVE  Typed' /\ UNCHANGED disk
<1> USE TecnicoFSAssumption
<1>1. CASE Fail \/ Abort \/ (reply' = Returned(0) /\ UNCHANGED <<disk, open_file_table, aborted>>)
  BY <1>1, FailType
<1>2. CASE h \in DOMAIN open_file_table
             /\ ReadLength(h, len) > 0 /\ ReadBlock(h, ReadLength(h, len)) /\ ~Abort
  <2>1. PICK n \in Nat : n = ReadLength(h, len)
    BY <1>2, ReadLengthType
  <2> DEFINE file == open_file_table[h]
             first == inode_table[file.of_inumber].i_data_block * BlockSize + file.of_offset
  <2>2. /\ file.of_offset + n <= MaxOffset
        /\ open_file_table' = [open_file_table EXCEPT ![h].of_offset = @ + n]
        /\ UNCHANGED <<disk, aborted>>
        /\ \E junk \in Bytes :
             reply' = [ret |-> n,
                       data |-> [k \in 1 .. n |->
                                   IF first + k - 1 \in Addresses
                                   THEN fs_data[first + k - 1] ELSE junk]]
    BY <1>2, <2>1, Zenon DEF ReadBlock
  <2> HIDE DEF first
  <2>3. reply'.ret \in Int /\ reply'.data \in Seq(Bytes \cup {Zero})
    <3>1. fs_data \in [Addresses -> Bytes \cup {Zero}]
      BY DEF Typed, TypeOK
    <3> PICK junk \in Bytes :
          reply' = [ret |-> n,
                    data |-> [k \in 1 .. n |->
                                IF first + k - 1 \in Addresses
                                THEN fs_data[first + k - 1] ELSE junk]]
      BY <2>2
    <3>2. \A k \in 1 .. n : (IF first + k - 1 \in Addresses
                             THEN fs_data[first + k - 1] ELSE junk) \in Bytes \cup {Zero}
      BY <3>1
    <3>3. [k \in 1 .. n |-> IF first + k - 1 \in Addresses
                          THEN fs_data[first + k - 1] ELSE junk] \in Seq(Bytes \cup {Zero})
      BY <3>2
    <3> QED
      BY <3>3
  <2>4. UNCHANGED <<inode_table, freeinode_ts, fs_data, free_blocks, dir_entry>>
    BY <2>2 DEF disk
  <2>5. /\ DOMAIN open_file_table' \subseteq Handles
        /\ \A g \in DOMAIN open_file_table' :
              open_file_table'[g] \in [of_inumber : Inumbers, of_offset : 0 .. MaxOffset]
    <3>1. /\ DOMAIN open_file_table \subseteq Handles
          /\ \A g \in DOMAIN open_file_table :
                open_file_table[g] \in [of_inumber : Inumbers, of_offset : 0 .. MaxOffset]
      BY DEF Typed, TypeOK
    <3>2. PICK last \in 0 .. MaxOffset : last = file.of_offset + n
      BY <1>2, <2>2, <3>1
    <3>3. open_file_table' = [open_file_table EXCEPT ![h].of_offset = last]
      BY <2>2, <3>2
    <3> QED
      BY <3>1, <3>2, <3>3
  <2>6. TypeOK'
    BY <2>2, <2>3, <2>4, <2>5 DEF Typed, TypeOK
  <2> QED
    BY <2>2, <2>4, <2>6 DEF Typed, SizedHaveBlock
<1> QED
  BY <1>1, <1>2 DEF Read, ReadBlock

(* A file has been unlinked. *)
Unlinked(name) ==
    /\ FindInDir(name) # -1
    /\ InodeDelete(FindInDir(name)) /\ ClearDirEntry(name)
    /\ UNCHANGED inode_table

(* tfs_unlink. *)
LEMMA UnlinkType ==
  ASSUME Typed, NEW name \in Names, Unlink(name)
  PROVE  Typed' /\ (UNCHANGED disk \/ Unlinked(name))
<1>1. CASE Fail \/ Abort
  BY <1>1, FailType
<1>2. CASE ~Fail /\ ~Abort
  <2>1. /\ Unlinked(name) /\ reply' = Returned(0)
        /\ UNCHANGED <<inode_table, fs_data, open_file_table, aborted>>
    BY <1>2 DEF Unlink, Unlinked
  <2>2. PICK inum \in Inumbers : inum = FindInDir(name)
    BY <2>1, FindInDirType DEF Typed, Unlinked
  <2>3. freeinode_ts' \subseteq Inumbers /\ free_blocks' \subseteq Blocks
    BY <2>1, <2>2 DEF Unlinked, InodeDelete, ContentBlock, Typed, TypeOK, SizedHaveBlock
  <2>4. dir_entry' \in [Entries -> [d_name : Names \cup {NoName},
                                    d_inumber : Inumbers \cup {-1}]]
    BY <2>1 DEF Unlinked, ClearDirEntry, EmptyEntry, Typed, TypeOK
  <2>5. reply'.ret \in Int /\ reply'.data \in Seq(Bytes \cup {Zero})
    BY <2>1, ReturnedType
  <2>6. TypeOK'
    BY <2>1, <2>3, <2>4, <2>5 DEF Typed, TypeOK
  <2> QED
    BY <2>1, <2>6 DEF Typed, SizedHaveBlock
<1> QED
  BY <1>1, <1>2

(* What a step does to the disk: nothing, or one of four things. *)
LEMMA StepForms ==
  ASSUME Typed, [Next]_vars
  PROVE  /\ Typed'
         /\ \/ UNCHANGED disk
            \/ \E name \in Names, mode \in Modes :
                  OpenExisting(name, mode) \/ OpenNew(name, mode)
            \/ \E h \in DOMAIN open_file_table : \E block :
                  Wrote(open_file_table[h].of_inumber, block)
            \/ \E name \in Names : Unlinked(name)
<1>1. CASE UNCHANGED vars
  BY <1>1, FailType
<1>2. ASSUME NEW name \in Names, NEW mode \in Modes, Open(name, mode)
      PROVE  Typed' /\ (UNCHANGED disk \/ OpenExisting(name, mode) \/ OpenNew(name, mode))
  BY <1>2, OpenExistingType, OpenNewType, FailType DEF Open, OpenFails
<1>3. ASSUME NEW h, Close(h) PROVE Typed' /\ UNCHANGED disk
  BY <1>3, CloseType
<1>4. ASSUME NEW h, NEW buffer \in Buffers, Write(h, buffer)
      PROVE  /\ Typed'
             /\ \/ UNCHANGED disk
                \/ \E g \in DOMAIN open_file_table : \E block :
                      Wrote(open_file_table[g].of_inumber, block)
  BY <1>4, WriteType
<1>5. ASSUME NEW h, NEW len \in 0 .. MaxLen, Read(h, len) PROVE Typed' /\ UNCHANGED disk
  BY <1>5, ReadType
<1>6. ASSUME NEW name \in Names, Unlink(name)
      PROVE  Typed' /\ (UNCHANGED disk \/ Unlinked(name))
  BY <1>6, UnlinkType
<1> QED
  BY <1>1, <1>2, <1>3, <1>4, <1>5, <1>6 DEF Next, Operation

(* Type correctness: every table entry stays within its table and every write      *)
(* within its block, whatever is called in whatever order.                         *)
THEOREM TypeCorrect == Spec => []TypeOK
<1>1. Typed /\ [Next]_vars => Typed'
  BY StepForms
<1>2. Typed => TypeOK
  BY DEF Typed
<1> QED
  BY <1>1, <1>2, InitTyped, PTL DEF Spec

--------------------------------------------------------------------------------
(* The directory *)

(* clear_dir_entry goes by the name alone, find_in_dir skips empty entries: they   *)
(* agree because an empty entry has no name.                                       *)
EntriesNamed == \A e \in Entries : dir_entry[e].d_inumber = -1 => dir_entry[e].d_name = NoName

DirectoryInv == Typed /\ EntriesNamed /\ DirectoryConsistent

(* Steps that leave the directory and the inode table's free list alone. *)
LEMMA DirectoryKept ==
  ASSUME EntriesNamed, DirectoryConsistent, UNCHANGED <<freeinode_ts, dir_entry>>
  PROVE  EntriesNamed' /\ DirectoryConsistent'
<1>1. Linked' = Linked /\ EmptyEntries' = EmptyEntries
  BY DEF Linked, EmptyEntries
<1> QED
  BY <1>1 DEF EntriesNamed, DirectoryConsistent

(* The entries' numbers after one entry was set. *)
LEMMA LinkedAfter ==
  ASSUME Typed, NEW e \in Entries, NEW entry,
         dir_entry' = [dir_entry EXCEPT ![e] = entry]
  PROVE  /\ \A d \in Entries : dir_entry'[d] = IF d = e THEN entry ELSE dir_entry[d]
         /\ EmptyEntries' = IF entry.d_inumber = -1
                            THEN EmptyEntries \cup {e} ELSE EmptyEntries \ {e}
         /\ LET others == {dir_entry[d].d_inumber : d \in (Entries \ EmptyEntries) \ {e}}
            IN  Linked' = IF entry.d_inumber = -1
                          THEN others ELSE others \cup {entry.d_inumber}
<1>1. \A d \in Entries : dir_entry'[d] = IF d = e THEN entry ELSE dir_entry[d]
  BY DEF Typed, TypeOK
<1>2. EmptyEntries' = IF entry.d_inumber = -1
                      THEN EmptyEntries \cup {e} ELSE EmptyEntries \ {e}
  BY <1>1 DEF EmptyEntries
<1>3. Linked' = {dir_entry'[d].d_inumber : d \in Entries \ EmptyEntries'}
  BY DEF Linked
<1>4. CASE entry.d_inumber = -1
  <2>1. Entries \ EmptyEntries' = (Entries \ EmptyEntries) \ {e}
    BY <1>2, <1>4
  <2> QED
    BY <1>1, <1>2, <1>3, <1>4, <2>1
<1>5. CASE entry.d_inumber # -1
  <2>1. Entries \ EmptyEntries' = ((Entries \ EmptyEntries) \ {e}) \cup {e}
    BY <1>2, <1>5
  <2> QED
    BY <1>1, <1>2, <1>3, <1>5, <2>1
<1> QED
  BY <1>4, <1>5

(* A file is made, or its inode given back. *)
LEMMA DirectoryNew ==
  ASSUME DirectoryInv, NEW name \in Names, NEW mode \in Modes, OpenNew(name, mode)
  PROVE  /\ EntriesNamed' /\ DirectoryConsistent'
         /\ InodeAlloc \in freeinode_ts /\ Linked' \in {Linked, Linked \cup {InodeAlloc}}
<1> USE TecnicoFSAssumption
<1>1. PICK inum \in Inumbers : inum = InodeAlloc /\ inum \in freeinode_ts
  BY InodeAllocType DEF OpenNew, DirectoryInv
<1>2. freeinode_ts' = (freeinode_ts \ {inum}) \cup GiveBack(name)
  BY <1>1 DEF OpenNew
<1>3. CASE NoEntryFor(name)
  <2>1. UNCHANGED <<freeinode_ts, dir_entry>>
    BY <1>1, <1>2, <1>3 DEF OpenNew, GiveBack
  <2>2. Linked' = Linked
    BY <2>1 DEF Linked, EmptyEntries
  <2> QED
    BY <1>1, <2>1, <2>2, DirectoryKept DEF DirectoryInv
<1>4. CASE ~NoEntryFor(name)
  <2>1. PICK e \in EmptyEntries :
          dir_entry' = [dir_entry EXCEPT ![e] = [d_name |-> name, d_inumber |-> inum]]
    BY <1>1, <1>4, EmptyEntryType DEF OpenNew, AddDirEntry, NoEntryFor
  <2>2. freeinode_ts' = freeinode_ts \ {inum}
    BY <1>2, <1>4 DEF GiveBack
  <2>3. e \in Entries /\ inum # -1 /\ inum # ROOT_DIR_INUM
    BY <1>1, <2>1 DEF EmptyEntries, Inumbers, DirectoryInv, DirectoryConsistent
  <2>4. /\ \A d \in Entries : dir_entry'[d] = IF d = e THEN [d_name |-> name, d_inumber |-> inum]
                                              ELSE dir_entry[d]
        /\ EmptyEntries' = EmptyEntries \ {e}
        /\ Linked' = {dir_entry[d].d_inumber : d \in (Entries \ EmptyEntries) \ {e}}
                        \cup {inum}
    <3>1. PICK entry : entry = [d_name |-> name, d_inumber |-> inum]
      OBVIOUS
    <3>2. entry.d_inumber = inum /\ dir_entry' = [dir_entry EXCEPT ![e] = entry] /\ Typed
      BY <2>1, <3>1 DEF DirectoryInv
    <3> QED
      BY ZenonT(30), <2>3, <3>1, <3>2, LinkedAfter
  <2>5. Linked' = Linked \cup {inum}
    BY <2>1, <2>4 DEF Linked
  <2>6. \A d \in Entries \ EmptyEntries : dir_entry[d].d_name # name
    <3>1. FindInDir(name) = -1
      BY DEF OpenNew
    <3> DEFINE found == {d \in Entries : dir_entry[d].d_inumber # -1
                                         /\ dir_entry[d].d_name = name}
    <3>2. ASSUME found # {} PROVE FALSE
      <4>1. FindInDir(name) = dir_entry[Min(found)].d_inumber
        BY <3>2 DEF FindInDir
      <4>2. Min(found) \in found
        <5>1. found \in SUBSET Nat
          BY DEF Entries
        <5> QED
          BY <3>2, <5>1, LeastNat
      <4> QED
        BY <3>1, <4>1, <4>2
    <3> QED
      BY <3>2 DEF EmptyEntries
  <2>7. inum \notin Linked
    BY <1>1 DEF DirectoryInv, DirectoryConsistent
  <2>8. EntriesNamed'
    BY <2>3, <2>4 DEF DirectoryInv, EntriesNamed
  <2>9. \A c, d \in Entries \ EmptyEntries' : c # d =>
          /\ dir_entry'[c].d_name # dir_entry'[d].d_name
          /\ dir_entry'[c].d_inumber # dir_entry'[d].d_inumber
    BY <2>3, <2>4, <2>6, <2>7 DEF Linked, DirectoryInv, DirectoryConsistent
  <2>10. /\ Linked' = Inumbers \ (freeinode_ts' \cup {ROOT_DIR_INUM})
         /\ ROOT_DIR_INUM \notin freeinode_ts'
    BY <1>1, <2>2, <2>3, <2>5 DEF DirectoryInv, DirectoryConsistent
  <2> QED
    BY <1>1, <2>5, <2>8, <2>9, <2>10 DEF DirectoryConsistent
<1> QED
  BY <1>3, <1>4

(* The entry of a name is the one whose number is found and that is cleared. *)
LEMMA TheEntry ==
  ASSUME DirectoryInv, NEW name \in Names, FindInDir(name) # -1
  PROVE  \E e \in Entries \ EmptyEntries :
            /\ dir_entry[e].d_name = name /\ dir_entry[e].d_inumber = FindInDir(name)
            /\ Min({d \in Entries : dir_entry[d].d_name = name}) = e
            /\ FindInDir(name) \in Linked
<1> USE TecnicoFSAssumption
<1>1. PICK e \in Entries :
        dir_entry[e].d_inumber = FindInDir(name) /\ dir_entry[e].d_name = name
  BY FindInDirType DEF DirectoryInv, Typed
<1>2. e \notin EmptyEntries
  BY <1>1 DEF EmptyEntries
<1> DEFINE named == {d \in Entries : dir_entry[d].d_name = name}
<1>3. \A d \in named : d = e
  <2>1. ASSUME NEW d \in named PROVE d \notin EmptyEntries
    BY DEF EmptyEntries, DirectoryInv, EntriesNamed
  <2> QED
    BY <1>1, <1>2, <2>1 DEF DirectoryInv, DirectoryConsistent
<1>4. Min(named) = e
  <2>1. named \in SUBSET Nat /\ named # {}
    BY <1>1 DEF Entries
  <2> QED
    BY <1>3, <2>1, LeastNat
<1> QED
  BY <1>1, <1>2, <1>4 DEF Linked

(* A file is unlinked. *)
LEMMA DirectoryUnlinked ==
  ASSUME DirectoryInv, NEW name \in Names, Unlinked(name)
  PROVE  /\ EntriesNamed' /\ DirectoryConsistent'
         /\ FindInDir(name) \in Linked /\ Linked' = Linked \ {FindInDir(name)}
<1> USE TecnicoFSAssumption
<1>1. PICK e \in Entries \ EmptyEntries, inum \in Linked :
        /\ dir_entry[e].d_name = name /\ dir_entry[e].d_inumber = inum
        /\ inum = FindInDir(name)
        /\ Min({d \in Entries : dir_entry[d].d_name = name}) = e
  BY TheEntry DEF Unlinked
<1>2. /\ freeinode_ts' = freeinode_ts \cup {inum}
      /\ dir_entry' = [dir_entry EXCEPT ![e] = EmptyEntry]
  BY <1>1 DEF Unlinked, InodeDelete, ClearDirEntry
<1>3. /\ \A d \in Entries : dir_entry'[d] = IF d = e THEN EmptyEntry ELSE dir_entry[d]
      /\ EmptyEntries' = EmptyEntries \cup {e}
      /\ Linked' = {dir_entry[d].d_inumber : d \in (Entries \ EmptyEntries) \ {e}}
  <2>1. EmptyEntry.d_inumber = -1 /\ Typed /\ e \in Entries
    BY DEF EmptyEntry, DirectoryInv
  <2>2. PICK entry : entry = EmptyEntry
    OBVIOUS
  <2> QED
    BY <1>2, <2>1, <2>2, LinkedAfter
<1>4. Linked' = Linked \ {inum}
  BY <1>1, <1>3 DEF Linked, DirectoryInv, DirectoryConsistent
<1>5. EntriesNamed'
  BY <1>3 DEF EntriesNamed, EmptyEntry, DirectoryInv
<1>6. \A c, d \in Entries \ EmptyEntries' : c # d =>
        /\ dir_entry'[c].d_name # dir_entry'[d].d_name
        /\ dir_entry'[c].d_inumber # dir_entry'[d].d_inumber
  BY <1>3 DEF DirectoryInv, DirectoryConsistent
<1>7. /\ Linked' = Inumbers \ (freeinode_ts' \cup {ROOT_DIR_INUM})
      /\ ROOT_DIR_INUM \notin freeinode_ts'
  BY <1>1, <1>2, <1>4 DEF DirectoryInv, DirectoryConsistent
<1> QED
  BY <1>1, <1>4, <1>5, <1>6, <1>7 DEF DirectoryConsistent

(* Every step keeps directory and inode table together. *)
LEMMA DirectoryNext == DirectoryInv /\ [Next]_vars => DirectoryInv'
<1> SUFFICES ASSUME DirectoryInv, [Next]_vars PROVE DirectoryInv'
  OBVIOUS
<1>1. Typed'
  BY StepForms DEF DirectoryInv
<1>2. CASE UNCHANGED disk
  BY <1>1, <1>2, DirectoryKept DEF DirectoryInv, disk
<1>3. ASSUME NEW name \in Names, NEW mode \in Modes, OpenExisting(name, mode)
      PROVE  DirectoryInv'
  BY <1>1, <1>3, DirectoryKept DEF DirectoryInv, OpenExisting
<1>4. ASSUME NEW name \in Names, NEW mode \in Modes, OpenNew(name, mode)
      PROVE  DirectoryInv'
  BY <1>1, <1>4, DirectoryNew DEF DirectoryInv
<1>5. ASSUME NEW i, NEW block, Wrote(i, block) PROVE DirectoryInv'
  BY <1>1, <1>5, DirectoryKept DEF DirectoryInv, Wrote
<1>6. ASSUME NEW name \in Names, Unlinked(name) PROVE DirectoryInv'
  BY <1>1, <1>6, DirectoryUnlinked DEF DirectoryInv
<1> QED
  BY <1>2, <1>3, <1>4, <1>5, <1>6, StepForms DEF DirectoryInv

(* The empty directory is consistent. *)
LEMMA InitDirectory == Init => DirectoryInv
<1> SUFFICES ASSUME Init PROVE DirectoryInv
  OBVIOUS
<1>1. \A e \in Entries : dir_entry[e] = EmptyEntry
  BY DEF Init
<1>2. EmptyEntries = Entries /\ Linked = {}
  BY <1>1 DEF EmptyEntries, Linked, EmptyEntry
<1>3. freeinode_ts = Inumbers \ {ROOT_DIR_INUM}
  BY DEF Init
<1> QED
  BY <1>1, <1>2, <1>3, InitTyped DEF DirectoryInv, EntriesNamed, DirectoryConsistent, EmptyEntry

(* Directory and inode table tell the same story after any sequence of calls. *)
THEOREM DirectoryAgrees == Spec => []DirectoryConsistent
<1>1. DirectoryInv => DirectoryConsistent
  BY DEF DirectoryInv
<1> QED
  BY <1>1, InitDirectory, DirectoryNext, PTL DEF Spec

--------------------------------------------------------------------------------
(* The blocks *)

(* The inodes that have a block of their own. *)
Owning == {i \in Linked \cup {ROOT_DIR_INUM} : inode_table[i].i_size > 0}

BlocksInv == DirectoryInv /\ BlocksOwned

(* What BlocksOwned says. *)
LEMMA OwnedForm ==
  BlocksOwned <=>
    /\ \A i \in Owning : inode_table[i].i_data_block \in Blocks \ free_blocks
    /\ \A i, j \in Owning :
         i # j => inode_table[i].i_data_block # inode_table[j].i_data_block
  BY DEF BlocksOwned, Owning

(* The inodes with a name are inodes. *)
LEMMA LinkedType ==
  ASSUME DirectoryInv
  PROVE  /\ Linked \cup {ROOT_DIR_INUM} \subseteq Inumbers
         /\ \A i \in freeinode_ts : i \notin Linked \cup {ROOT_DIR_INUM}
<1>1. ROOT_DIR_INUM \in Inumbers
  BY TecnicoFSAssumption DEF ROOT_DIR_INUM, Inumbers
<1> QED
  BY <1>1 DEF DirectoryInv, DirectoryConsistent

(* A file is opened, truncated perhaps. *)
LEMMA BlocksOpenExisting ==
  ASSUME BlocksInv, NEW name \in Names, NEW mode \in Modes, OpenExisting(name, mode)
  PROVE  LET inum == FindInDir(name)
         IN  /\ BlocksOwned'
             /\ inum \in Linked
             /\ Owning' = IF "TRUNC" \in mode THEN Owning \ {inum} ELSE Owning
             /\ free_blocks' = IF "TRUNC" \in mode
                               THEN free_blocks \cup ContentBlock(inum) ELSE free_blocks
             /\ \A i \in Inumbers : inode_table'[i].i_data_block = inode_table[i].i_data_block
<1>1. PICK inum \in Linked : inum = FindInDir(name)
  BY TheEntry DEF OpenExisting, BlocksInv
<1>2. /\ free_blocks' = IF "TRUNC" \in mode
                        THEN free_blocks \cup ContentBlock(inum) ELSE free_blocks
      /\ inode_table' = [inode_table EXCEPT ![inum].i_size = OpenSize(inum, mode)]
      /\ UNCHANGED dir_entry
  BY <1>1 DEF OpenExisting
<1>3. Linked' = Linked
  BY <1>2 DEF Linked, EmptyEntries
<1>4. inode_table \in [Inumbers -> [i_size : 0 .. BlockSize, i_data_block : Blocks \cup {-1}]]
  BY DEF BlocksInv, DirectoryInv, Typed, TypeOK
<1>5. \A i \in Inumbers :
        /\ inode_table'[i].i_data_block = inode_table[i].i_data_block
        /\ inode_table'[i].i_size = IF i = inum /\ "TRUNC" \in mode
                                    THEN 0 ELSE inode_table[i].i_size
  BY <1>2, <1>4 DEF OpenSize
<1>6. Linked \cup {ROOT_DIR_INUM} \subseteq Inumbers
  BY LinkedType DEF BlocksInv
<1>7. Owning' = IF "TRUNC" \in mode THEN Owning \ {inum} ELSE Owning
  BY <1>3, <1>5, <1>6 DEF Owning
<1>8. \A i \in Owning' : inode_table'[i].i_data_block \in Blocks \ free_blocks'
  <2>1. CASE "TRUNC" \in mode
    <3>1. ContentBlock(inum) = IF inum \in Owning
                               THEN {inode_table[inum].i_data_block} ELSE {}
      BY <1>1 DEF ContentBlock, Owning
    <3> QED
      BY <1>2, <1>5, <1>6, <1>7, <2>1, <3>1, OwnedForm DEF BlocksInv, Owning
  <2>2. CASE "TRUNC" \notin mode
    BY <1>2, <1>5, <1>6, <1>7, <2>2, OwnedForm DEF BlocksInv, Owning
  <2> QED
    BY <2>1, <2>2
<1>9. \A i, j \in Owning' :
        i # j => inode_table'[i].i_data_block # inode_table'[j].i_data_block
  BY <1>5, <1>6, <1>7, OwnedForm DEF BlocksInv, Owning
<1>10. BlocksOwned'
  BY <1>8, <1>9 DEF BlocksOwned, Owning
<1> QED
  BY <1>1, <1>2, <1>5, <1>7, <1>10

(* A file is made. *)
LEMMA BlocksOpenNew ==
  ASSUME BlocksInv, NEW name \in Names, NEW mode \in Modes, OpenNew(name, mode)
  PROVE  /\ BlocksOwned' /\ Owning' = Owning /\ UNCHANGED free_blocks
         /\ \A i \in Owning : inode_table'[i].i_data_block = inode_table[i].i_data_block
<1>1. PICK inum \in freeinode_ts :
        inum = InodeAlloc /\ Linked' \in {Linked, Linked \cup {inum}}
  BY DirectoryNew DEF BlocksInv
<1>2. /\ inode_table' = [inode_table EXCEPT ![inum] = [i_size |-> 0, i_data_block |-> -1]]
      /\ UNCHANGED free_blocks
  BY <1>1 DEF OpenNew, InodeCreate
<1>3. /\ inum \notin Linked \cup {ROOT_DIR_INUM} /\ inum \in Inumbers
      /\ Linked \cup {ROOT_DIR_INUM} \subseteq Inumbers
  BY LinkedType DEF BlocksInv, DirectoryInv, Typed, TypeOK
<1>4. \A i \in Inumbers : inode_table'[i] = IF i = inum
                                            THEN [i_size |-> 0, i_data_block |-> -1]
                                            ELSE inode_table[i]
  BY <1>2 DEF BlocksInv, DirectoryInv, Typed, TypeOK
<1>5. Owning' = Owning
  BY <1>1, <1>3, <1>4 DEF Owning
<1>6. \A i \in Owning : inode_table'[i].i_data_block = inode_table[i].i_data_block
  BY <1>3, <1>4 DEF Owning
<1>7. BlocksOwned'
  <2>1. \A i \in Owning' : inode_table'[i].i_data_block \in Blocks \ free_blocks'
    BY <1>2, <1>5, <1>6, OwnedForm DEF BlocksInv
  <2>2. \A i, j \in Owning' :
          i # j => inode_table'[i].i_data_block # inode_table'[j].i_data_block
    BY <1>5, <1>6, OwnedForm DEF BlocksInv
  <2> QED
    BY <2>1, <2>2 DEF BlocksOwned, Owning
<1> QED
  BY <1>2, <1>5, <1>6, <1>7

(* A block is written, of a file or through a stale handle. *)
LEMMA BlocksWrote ==
  ASSUME BlocksInv, NEW i, NEW block, Wrote(i, block)
  PROVE  /\ BlocksOwned'
         /\ Owning' = Owning \cup ({i} \cap (Linked \cup {ROOT_DIR_INUM}))
         /\ \A j \in Inumbers : inode_table'[j].i_data_block =
                                  IF j = i THEN block ELSE inode_table[j].i_data_block
<1>1. PICK size \in 1 .. BlockSize :
        inode_table' = [inode_table EXCEPT ![i] = [i_size |-> size, i_data_block |-> block]]
  BY DEF Wrote
<1>2. /\ i \in Inumbers /\ block \in Blocks
      /\ \/ /\ inode_table[i].i_size > 0 /\ block = inode_table[i].i_data_block
            /\ UNCHANGED free_blocks
         \/ /\ inode_table[i].i_size = 0 /\ block \in free_blocks
            /\ free_blocks' = free_blocks \ {block}
      /\ UNCHANGED dir_entry
  BY DEF Wrote
<1>3. Linked' = Linked
  BY <1>2 DEF Linked, EmptyEntries
<1>4. Linked \cup {ROOT_DIR_INUM} \subseteq Inumbers
  BY LinkedType DEF BlocksInv
<1>5. \A j \in Inumbers : inode_table'[j] = IF j = i
                                            THEN [i_size |-> size, i_data_block |-> block]
                                            ELSE inode_table[j]
  BY <1>1 DEF BlocksInv, DirectoryInv, Typed, TypeOK
<1>6. size > 0
  BY TecnicoFSAssumption
<1>7. Owning' = Owning \cup ({i} \cap (Linked \cup {ROOT_DIR_INUM}))
  BY <1>3, <1>4, <1>5, <1>6 DEF Owning
<1>8. \A j \in Inumbers : inode_table'[j].i_data_block =
                            IF j = i THEN block ELSE inode_table[j].i_data_block
  BY <1>5
<1>9. \A j \in Owning' : j \in Inumbers /\ (j = i \/ j \in Owning)
  BY <1>4, <1>7 DEF Owning
<1>10. CASE /\ inode_table[i].i_size > 0 /\ block = inode_table[i].i_data_block
            /\ UNCHANGED free_blocks
  <2>1. Owning' = Owning
    BY <1>7, <1>10 DEF Owning
  <2>2. \A j \in Owning : inode_table'[j].i_data_block = inode_table[j].i_data_block
    BY <1>8, <1>9, <1>10, <2>1
  <2>3. BlocksOwned'
    <3>1. \A j \in Owning' : inode_table'[j].i_data_block \in Blocks \ free_blocks'
      BY <1>10, <2>1, <2>2, OwnedForm DEF BlocksInv
    <3>2. \A j, k \in Owning' :
            j # k => inode_table'[j].i_data_block # inode_table'[k].i_data_block
      BY <2>1, <2>2, OwnedForm DEF BlocksInv
    <3> QED
      BY <3>1, <3>2 DEF BlocksOwned, Owning
  <2> QED
    BY <1>7, <1>8, <2>3
<1>11. CASE /\ inode_table[i].i_size = 0 /\ block \in free_blocks
            /\ free_blocks' = free_blocks \ {block}
  <2>1. \A j \in Owning : j # i /\ inode_table[j].i_data_block # block
    BY <1>11, OwnedForm DEF BlocksInv, Owning
  <2>2. \A j \in Owning' : inode_table'[j].i_data_block \in Blocks \ free_blocks'
    BY <1>2, <1>8, <1>9, <1>11, OwnedForm DEF BlocksInv
  <2>3. \A j, k \in Owning' :
          j # k => inode_table'[j].i_data_block # inode_table'[k].i_data_block
    BY <1>8, <1>9, <2>1, OwnedForm DEF BlocksInv
  <2>4. BlocksOwned'
    BY <2>2, <2>3 DEF BlocksOwned, Owning
  <2> QED
    BY <1>7, <1>8, <2>4
<1> QED
  BY <1>2, <1>10, <1>11

(* A file is unlinked. *)
LEMMA BlocksUnlinked ==
  ASSUME BlocksInv, NEW name \in Names, Unlinked(name)
  PROVE  LET inum == FindInDir(name)
         IN  /\ BlocksOwned'
             /\ inum \in Linked /\ Owning' = Owning \ {inum}
             /\ free_blocks' = free_blocks \cup ContentBlock(inum)
             /\ UNCHANGED inode_table
<1>1. PICK inum \in Linked : inum = FindInDir(name) /\ Linked' = Linked \ {inum}
  BY DirectoryUnlinked DEF BlocksInv
<1>2. free_blocks' = free_blocks \cup ContentBlock(inum) /\ UNCHANGED inode_table
  BY <1>1 DEF Unlinked, InodeDelete
<1>3. inum # ROOT_DIR_INUM
  BY <1>1 DEF BlocksInv, DirectoryInv, DirectoryConsistent
<1>4. Owning' = Owning \ {inum}
  BY <1>1, <1>2, <1>3 DEF Owning
<1>5. ContentBlock(inum) = IF inum \in Owning THEN {inode_table[inum].i_data_block} ELSE {}
  BY <1>1 DEF ContentBlock, Owning
<1>6. \A i \in Owning' : inode_table'[i].i_data_block \in Blocks \ free_blocks'
  BY <1>2, <1>4, <1>5, OwnedForm DEF BlocksInv
<1>7. \A i, j \in Owning' :
        i # j => inode_table'[i].i_data_block # inode_table'[j].i_data_block
  BY <1>2, <1>4, OwnedForm DEF BlocksInv
<1>8. BlocksOwned'
  BY <1>6, <1>7 DEF BlocksOwned, Owning
<1> QED
  BY <1>1, <1>2, <1>4, <1>8

(* Steps that leave the disk alone. *)
LEMMA BlocksKept ==
  ASSUME UNCHANGED disk
  PROVE  Owning' = Owning /\ BlocksOwned' = BlocksOwned /\ NoBlockLeak' = NoBlockLeak
<1>1. Linked' = Linked
  BY DEF disk, Linked, EmptyEntries
<1> QED
  BY <1>1 DEF disk, Owning, BlocksOwned, NoBlockLeak

(* No step lets two files share a block. *)
LEMMA BlocksNext == BlocksInv /\ [Next]_vars => BlocksInv'
<1> SUFFICES ASSUME BlocksInv, [Next]_vars PROVE BlocksOwned'
  BY DirectoryNext DEF BlocksInv
<1>1. CASE UNCHANGED disk
  BY <1>1, BlocksKept DEF BlocksInv
<1>2. ASSUME NEW name \in Names, NEW mode \in Modes,
             OpenExisting(name, mode) \/ OpenNew(name, mode)
      PROVE  BlocksOwned'
  BY <1>2, BlocksOpenExisting, BlocksOpenNew
<1>3. ASSUME NEW i, NEW block, Wrote(i, block) PROVE BlocksOwned'
  BY <1>3, BlocksWrote
<1>4. ASSUME NEW name \in Names, Unlinked(name) PROVE BlocksOwned'
  BY <1>4, BlocksUnlinked
<1> QED
  BY <1>1, <1>2, <1>3, <1>4, StepForms DEF BlocksInv, DirectoryInv

(* tfs_init gives the root the first block and no other file one. *)
LEMMA InitBlocks == Init => BlocksInv /\ NoBlockLeak
<1> SUFFICES ASSUME Init PROVE BlocksInv /\ NoBlockLeak
  OBVIOUS
<1> USE TecnicoFSAssumption
<1>1. Linked = {}
  BY DEF Init, Linked, EmptyEntries, EmptyEntry
<1>2. ROOT_DIR_INUM \in Inumbers /\ 0 \in Blocks
  BY DEF ROOT_DIR_INUM, Inumbers, Blocks
<1>3. inode_table[ROOT_DIR_INUM] = [i_size |-> BlockSize, i_data_block |-> 0]
  BY <1>2 DEF Init
<1>4. Owning = {ROOT_DIR_INUM} /\ free_blocks = Blocks \ {0}
  BY <1>1, <1>3 DEF Owning, Init
<1>5. BlocksOwned
  BY <1>2, <1>3, <1>4, OwnedForm
<1>6. NoBlockLeak
  <2>1. {inode_table[i].i_data_block : i \in Owning} = {0}
    BY <1>3, <1>4
  <2>2. Blocks \ free_blocks = {0}
    BY <1>2, <1>4
  <2> QED
    BY <2>1, <2>2 DEF NoBlockLeak, Owning
<1> QED
  BY <1>5, <1>6, InitDirectory DEF BlocksInv

(* No two files ever share a block, nor is a block of theirs up for allocation. *)
THEOREM BlocksApart == Spec => []BlocksOwned
<1>1. BlocksInv => BlocksOwned
  BY DEF BlocksInv
<1>2. Init => BlocksInv
  BY InitBlocks
<1> QED
  BY <1>1, <1>2, BlocksNext, PTL DEF Spec

--------------------------------------------------------------------------------
(* Callers with discipline *)

DisciplinedInv == BlocksInv /\ HandlesFresh /\ NoBlockLeak /\ NeverAborted

(* The blocks in use after one inode gave up its block. *)
LEMMA BlockGivenBack ==
  ASSUME BlocksInv, NoBlockLeak, NEW inum \in Linked,
         Owning' = Owning \ {inum},
         free_blocks' = free_blocks \cup ContentBlock(inum),
         \A i \in Inumbers : inode_table'[i].i_data_block = inode_table[i].i_data_block
  PROVE  NoBlockLeak'
<1>1. Blocks \ free_blocks = {inode_table[i].i_data_block : i \in Owning}
  BY DEF NoBlockLeak, Owning
<1>2. ContentBlock(inum) = IF inum \in Owning THEN {inode_table[inum].i_data_block} ELSE {}
  BY DEF ContentBlock, Owning
<1>3. Owning \subseteq Inumbers
  BY LinkedType DEF BlocksInv, Owning
<1>4. \A i, j \in Owning :
        i # j => inode_table[i].i_data_block # inode_table[j].i_data_block
  BY OwnedForm DEF BlocksInv
<1>5. {inode_table'[i].i_data_block : i \in Owning'} =
        {inode_table[i].i_data_block : i \in Owning \ {inum}}
  BY <1>3
<1>6. CASE inum \in Owning
  <2>1. Blocks \ free_blocks' = (Blocks \ free_blocks) \ {inode_table[inum].i_data_block}
    BY <1>2, <1>6
  <2>2. {inode_table[i].i_data_block : i \in Owning \ {inum}} =
          {inode_table[i].i_data_block : i \in Owning} \ {inode_table[inum].i_data_block}
    BY <1>4, <1>6
  <2> QED
    BY <1>1, <1>5, <2>1, <2>2 DEF NoBlockLeak, Owning
<1>7. CASE inum \notin Owning
  <2>1. free_blocks' = free_blocks /\ Owning \ {inum} = Owning
    BY <1>2, <1>7
  <2> QED
    BY <1>1, <1>5, <2>1 DEF NoBlockLeak, Owning
<1> QED
  BY <1>6, <1>7

(* No step of a disciplined caller leaks a block. *)
LEMMA LeakNext ==
  ASSUME BlocksInv, HandlesFresh, NoBlockLeak, [Next]_vars
  PROVE  NoBlockLeak'
<1>1. Blocks \ free_blocks = {inode_table[i].i_data_block : i \in Owning}
  BY DEF NoBlockLeak, Owning
<1>2. CASE UNCHANGED disk
  BY <1>2, BlocksKept
<1>3. ASSUME NEW name \in Names, NEW mode \in Modes, OpenExisting(name, mode)
      PROVE  NoBlockLeak'
  <2> DEFINE inum == FindInDir(name)
  <2>1. /\ inum \in Linked
        /\ Owning' = IF "TRUNC" \in mode THEN Owning \ {inum} ELSE Owning
        /\ free_blocks' = IF "TRUNC" \in mode
                          THEN free_blocks \cup ContentBlock(inum) ELSE free_blocks
        /\ \A i \in Inumbers : inode_table'[i].i_data_block = inode_table[i].i_data_block
    BY <1>3, BlocksOpenExisting
  <2>2. CASE "TRUNC" \in mode
    BY <2>1, <2>2, BlockGivenBack
  <2>3. CASE "TRUNC" \notin mode
    <3>1. Owning \subseteq Inumbers
      BY LinkedType DEF BlocksInv, Owning
    <3>2. {inode_table'[i].i_data_block : i \in Owning'} =
            {inode_table[i].i_data_block : i \in Owning}
      BY <2>1, <2>3, <3>1
    <3> QED
      BY <1>1, <2>1, <2>3, <3>2 DEF NoBlockLeak, Owning
  <2> QED
    BY <2>2, <2>3
<1>4. ASSUME NEW name \in Names, NEW mode \in Modes, OpenNew(name, mode)
      PROVE  NoBlockLeak'
  <2>1. /\ Owning' = Owning /\ UNCHANGED free_blocks
        /\ \A i \in Owning : inode_table'[i].i_data_block = inode_table[i].i_data_block
    BY <1>4, BlocksOpenNew
  <2>2. {inode_table'[i].i_data_block : i \in Owning'} =
          {inode_table[i].i_data_block : i \in Owning}
    BY <2>1
  <2> QED
    BY <1>1, <2>1, <2>2 DEF NoBlockLeak, Owning
<1>5. ASSUME NEW h \in DOMAIN open_file_table, NEW block,
             Wrote(open_file_table[h].of_inumber, block)
      PROVE  NoBlockLeak'
  <2>1. PICK i : i = open_file_table[h].of_inumber
    OBVIOUS
  <2>2. i \in Linked \cup {ROOT_DIR_INUM} /\ i \in Inumbers
    <3>1. i \in Inumbers /\ i \notin freeinode_ts
      BY <2>1 DEF HandlesFresh, BlocksInv, DirectoryInv, Typed, TypeOK
    <3> QED
      BY <3>1 DEF BlocksInv, DirectoryInv, DirectoryConsistent
  <2>3. /\ Owning' = Owning \cup {i}
        /\ \A j \in Inumbers : inode_table'[j].i_data_block =
                                 IF j = i THEN block ELSE inode_table[j].i_data_block
    BY <1>5, <2>1, <2>2, BlocksWrote
  <2>4. Owning \subseteq Inumbers
    BY LinkedType DEF BlocksInv, Owning
  <2>5. \/ /\ i \in Owning /\ block = inode_table[i].i_data_block
           /\ UNCHANGED free_blocks
        \/ /\ i \notin Owning /\ block \in free_blocks /\ block \in Blocks
           /\ free_blocks' = free_blocks \ {block}
    BY <1>5, <2>1, <2>2 DEF Wrote, Owning
  <2>6. {inode_table'[j].i_data_block : j \in Owning'} =
          {inode_table[j].i_data_block : j \in Owning} \cup {block}
    <3>1. \A j \in Owning : inode_table'[j].i_data_block = inode_table[j].i_data_block
      BY <2>3, <2>4, <2>5
    <3>2. inode_table'[i].i_data_block = block
      BY <2>2, <2>3
    <3> QED
      BY <2>3, <3>1, <3>2
  <2>7. Blocks \ free_blocks' = (Blocks \ free_blocks) \cup {block}
    BY <1>1, <2>5
  <2> QED
    BY <1>1, <2>6, <2>7 DEF NoBlockLeak, Owning
<1>6. ASSUME NEW name \in Names, Unlinked(name) PROVE NoBlockLeak'
  BY <1>6, BlocksUnlinked, BlockGivenBack
<1> QED
  BY <1>2, <1>3, <1>4, <1>5, <1>6, StepForms DEF BlocksInv, DirectoryInv

(* A block lies within the file system's memory. *)
LEMMA BlockWithin ==
  ASSUME NEW block \in Blocks, NEW k \in 0 .. BlockSize - 1
  PROVE  block * BlockSize + k \in Addresses
<1> USE TecnicoFSAssumption
<1>1. PICK rest \in Nat : DataBlocks = block + 1 + rest
  <2>1. DataBlocks - block - 1 \in Nat
    BY DEF Blocks
  <2> QED
    BY <2>1 DEF Blocks
<1>2. DataBlocks * BlockSize = block * BlockSize + BlockSize + rest * BlockSize
  BY <1>1 DEF Blocks
<1>3. rest * BlockSize \in Nat /\ block * BlockSize \in Nat
  BY DEF Blocks
<1> QED
  BY <1>2, <1>3 DEF Addresses

(* The offset and the size of a handle that is not stale. *)
LEMMA FreshHandle ==
  ASSUME Typed, NEW h \in DOMAIN open_file_table, ~Stale(h)
  PROVE  \E inum \in Inumbers, offset \in 0 .. BlockSize, size \in 0 .. BlockSize :
            /\ inum = open_file_table[h].of_inumber
            /\ offset = open_file_table[h].of_offset /\ size = inode_table[inum].i_size
            /\ offset <= size
<1> USE TecnicoFSAssumption
<1>1. PICK inum \in Inumbers, offset \in 0 .. MaxOffset, size \in 0 .. BlockSize :
        /\ inum = open_file_table[h].of_inumber
        /\ offset = open_file_table[h].of_offset /\ size = inode_table[inum].i_size
  BY DEF Typed, TypeOK
<1>2. offset <= size
  BY <1>1 DEF Stale
<1>3. offset \in 0 .. BlockSize
  BY <1>2
<1> QED
  BY <1>1, <1>2, <1>3

(* A write through a fresh handle copies what it was given into a block.           *)
LEMMA FreshWrite ==
  ASSUME Typed, NEW h \in DOMAIN open_file_table, ~Stale(h),
         NEW buffer \in Buffers, Write(h, buffer)
  PROVE  UNCHANGED aborted
<1> USE TecnicoFSAssumption
<1>1. PICK inum \in Inumbers, offset \in 0 .. BlockSize :
        inum = open_file_table[h].of_inumber /\ offset = open_file_table[h].of_offset
  BY FreshHandle
<1>2. WriteLength(h, buffer) \in Nat /\ WriteLength(h, buffer) <= Len(buffer)
  <2>1. offset \in 0 .. MaxOffset /\ offset <= BlockSize
    OBVIOUS
  <2> QED
    BY <1>1, <2>1, WriteWithin
<1>3. ~(WriteLength(h, buffer) > Len(buffer))
  BY <1>2, BufferType
<1>4. ASSUME NEW block \in Blocks, WriteBlock(h, buffer, WriteLength(h, buffer), block)
      PROVE  UNCHANGED aborted
  BY <1>3, <1>4 DEF WriteBlock
<1>5. inode_table[inum].i_size > 0 => inode_table[inum].i_data_block \in Blocks
  BY DEF Typed, SizedHaveBlock
<1>6. free_blocks # {} => DataBlockAlloc \in Blocks
  BY DataBlockAllocType DEF Typed, TypeOK
<1> QED
  BY <1>1, <1>4, <1>5, <1>6 DEF Write, Fail

(* A read through a fresh handle stays in the file's block. *)
LEMMA FreshRead ==
  ASSUME Typed, NEW h \in DOMAIN open_file_table, ~Stale(h),
         NEW len \in 0 .. MaxLen, Read(h, len)
  PROVE  UNCHANGED aborted
<1> USE TecnicoFSAssumption
<1>1. CASE ReadLength(h, len) > 0 /\ ReadBlock(h, ReadLength(h, len))
  <2>1. PICK offset \in 0 .. BlockSize, size \in 0 .. BlockSize, inum \in Inumbers :
          /\ inum = open_file_table[h].of_inumber
          /\ offset = open_file_table[h].of_offset /\ size = inode_table[inum].i_size
          /\ offset <= size
    BY FreshHandle
  <2>2. PICK n \in Nat : n = ReadLength(h, len) /\ n <= size - offset /\ n > 0
    BY <1>1, <2>1, ReadLengthType
  <2>3. PICK block \in Blocks : block = inode_table[inum].i_data_block
    BY <2>1, <2>2 DEF Typed, SizedHaveBlock
  <2>4. (block * BlockSize + offset) + n - 1 \in Addresses
    <3>1. offset + n - 1 \in 0 .. BlockSize - 1
      BY <2>1, <2>2
    <3>2. block * BlockSize + (offset + n - 1) \in Addresses
      BY <3>1, BlockWithin
    <3>3. block * BlockSize \in Int
      BY DEF Blocks
    <3>4. (block * BlockSize + offset) + n - 1 = block * BlockSize + (offset + n - 1)
      BY <3>3
    <3> QED
      BY <3>2, <3>4
  <2> QED
    BY <1>1, <2>1, <2>2, <2>3, <2>4 DEF ReadBlock
<1> QED
  BY <1>1 DEF Read, Fail

(* Only a read or write through a stale handle ends the process.                   *)
LEMMA AbortForm ==
  ASSUME DirectoryInv, [Next]_vars, aborted' # aborted
  PROVE  \E h \in DOMAIN open_file_table :
            /\ Stale(h)
            /\ \/ \E buffer \in Buffers : Write(h, buffer)
               \/ \E len \in 0 .. MaxLen : Read(h, len)
<1>1. ASSUME NEW name \in Names, NEW mode \in Modes, Open(name, mode)
      PROVE  UNCHANGED aborted
  BY <1>1 DEF Open, OpenExisting, OpenNew, OpenFails, Fail
<1>2. ASSUME NEW h, Close(h) PROVE UNCHANGED aborted
  BY <1>2 DEF Close, Fail
<1>3. ASSUME NEW h, NEW buffer \in Buffers, Write(h, buffer)
      PROVE  h \in DOMAIN open_file_table /\ Stale(h)
  <2>1. h \in DOMAIN open_file_table
    BY <1>3 DEF Write, Fail
  <2> QED
    BY <1>3, <2>1, FreshWrite DEF DirectoryInv
<1>4. ASSUME NEW h, NEW len \in 0 .. MaxLen, Read(h, len)
      PROVE  h \in DOMAIN open_file_table /\ Stale(h)
  <2>1. h \in DOMAIN open_file_table
    BY <1>4 DEF Read, Fail
  <2> QED
    BY <1>4, <2>1, FreshRead DEF DirectoryInv
<1>5. ASSUME NEW name \in Names, Unlink(name) PROVE UNCHANGED aborted
  <2>1. FindInDir(name) # -1 => FindInDir(name) \notin freeinode_ts
    BY TheEntry, LinkedType
  <2> QED
    BY <1>5, <2>1 DEF Unlink, Fail
<1> QED
  BY <1>1, <1>2, <1>3, <1>4, <1>5 DEF Next, Operation, vars

(* Whatever is called in whatever order, the process ends only in a read or write  *)
(* through a handle whose file was deleted or truncated (operations.c:206, :270).  *)
THEOREM OnlyStaleAborts == Spec => AbortsAreStale
<1>1. DirectoryInv /\ [Next]_vars =>
        [aborted' # aborted =>
           \E h \in DOMAIN open_file_table :
             /\ Stale(h)
             /\ \/ \E buffer \in Buffers : Write(h, buffer)
                \/ \E len \in 0 .. MaxLen : Read(h, len)]_vars
  BY AbortForm
<1> QED
  BY <1>1, InitDirectory, DirectoryNext, PTL DEF Spec, AbortsAreStale

(* The assertions and copies of an operation are sound while handles are fresh. *)
LEMMA AbortNext ==
  ASSUME BlocksInv, HandlesFresh, NeverAborted, [Next]_vars
  PROVE  NeverAborted'
<1>1. CASE UNCHANGED aborted
  BY <1>1 DEF NeverAborted
<1>2. CASE aborted' # aborted
  <2>1. PICK h \in DOMAIN open_file_table : Stale(h)
    BY <1>2, AbortForm DEF BlocksInv
  <2>2. PICK offset \in Int, size \in Int :
          /\ offset = open_file_table[h].of_offset
          /\ size = inode_table[open_file_table[h].of_inumber].i_size
    BY DEF BlocksInv, DirectoryInv, Typed, TypeOK
  <2> QED
    BY <2>1, <2>2 DEF Stale, HandlesFresh
<1> QED
  BY <1>1, <1>2

(* What disciplined callers keep. *)
LEMMA Disciplined == DisciplinedSpec => []DisciplinedInv
<1>1. Init => DisciplinedInv
  BY InitBlocks DEF Init, HandlesFresh, DisciplinedInv, NeverAborted
<1>2. DisciplinedInv /\ [Next /\ HandlesFresh']_vars => DisciplinedInv'
  <2> SUFFICES ASSUME DisciplinedInv, [Next /\ HandlesFresh']_vars PROVE DisciplinedInv'
    OBVIOUS
  <2>1. [Next]_vars
    OBVIOUS
  <2>2. HandlesFresh'
    BY DEF vars, disk, HandlesFresh, DisciplinedInv
  <2> QED
    BY <2>1, <2>2, BlocksNext, LeakNext, AbortNext DEF DisciplinedInv
<1> QED
  BY <1>1, <1>2, PTL DEF DisciplinedSpec

(* With discipline every block in use is the root's or a non-empty file's. *)
THEOREM NothingLeaks == DisciplinedSpec => []NoBlockLeak
<1>1. DisciplinedInv => NoBlockLeak
  BY DEF DisciplinedInv
<1> QED
  BY <1>1, Disciplined, PTL

(* With discipline no assertion fails and no copy leaves the file system. *)
THEOREM NothingAborts == DisciplinedSpec => []NeverAborted
<1>1. DisciplinedInv => NeverAborted
  BY DEF DisciplinedInv
<1> QED
  BY <1>1, Disciplined, PTL

================================================================================
