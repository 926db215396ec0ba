------------------------------- MODULE FileStore -------------------------------
(* What TecnicoFS promises callers that neither delete nor truncate a file under   *)
(* an open handle: named byte sequences of bounded size, each handle an offset     *)
(* into one of them, and an operation that fails only for want of what it needs.   *)
EXTENDS Integers, Sequences, FiniteSets

CONSTANTS
    Names, BadNames, LongNames, Modes, Bytes, MaxLen,
    MaxOpenFiles,
    MaxFiles,     \* files there is room for
    MaxNonEmpty,  \* files that can have content at a time
    MaxSize       \* the largest file

VARIABLES
    files,   \* the content of each existing file, by name
    open,    \* of each open handle, the file and the offset into it
    reply    \* what the last operation returned

vars == <<files, open, reply>>

Handles == 0 .. MaxOpenFiles - 1
Existing == DOMAIN files
Open == DOMAIN open

Returned(ret) == [ret |-> ret, data |-> <<>>]
Set(f, x, v) == [y \in DOMAIN f \cup {x} |-> IF y = x THEN v ELSE f[y]]
Without(f, x) == [y \in DOMAIN f \ {x} |-> f[y]]
Least(a, b) == IF a < b THEN a ELSE b

Init ==
    /\ files = [n \in {} |-> <<>>]
    /\ open = [h \in {} |-> <<>>]
    /\ reply = Returned(0)

(* A handle for the file at the offset, any free one; -1 when all are in use. *)
GiveHandle(name, offset) ==
    IF Open = Handles
    THEN reply' = Returned(-1) /\ UNCHANGED open
    ELSE \E h \in Handles \ Open :
            /\ reply' = Returned(h)
            /\ open' = Set(open, h, [name |-> name, offset |-> offset])

OpenFile(name, mode) ==
    LET content == IF "TRUNC" \in mode THEN <<>> ELSE files[name]
    IN  /\ name \in Existing
        /\ "TRUNC" \in mode => \A h \in Open : open[h].name = name => open[h].offset = 0
        /\ GiveHandle(name, IF "APPEND" \in mode THEN Len(content) ELSE 0)
        /\ files' = [files EXCEPT ![name] = content]

Create(name, mode) ==
    /\ name \notin Existing \cup BadNames \cup LongNames
    /\ "CREAT" \in mode
    /\ Cardinality(Existing) < MaxFiles
    /\ GiveHandle(name, 0)
    /\ files' = Set(files, name, <<>>)

OpenFails(name, mode) ==
    /\ name \notin Existing
    /\ \/ "CREAT" \notin mode
       \/ name \in BadNames \cup LongNames
       \/ Cardinality(Existing) = MaxFiles
    /\ reply' = Returned(-1)
    /\ UNCHANGED <<files, open>>

Close(h) ==
    /\ h \in Open
    /\ reply' = Returned(0)
    /\ open' = Without(open, h)
    /\ UNCHANGED files

(* Bytes replace those at the offset and extend the file; what would pass the      *)
(* largest size is cut off.                                                        *)
Write(h, buffer) ==
    LET name == open[h].name
        offset == open[h].offset
        n == Least(Len(buffer), MaxSize - offset)
        old == files[name]
        new == [i \in 1 .. Len(old) \cup 1 .. (offset + n) |->
                    IF i \in (offset + 1) .. (offset + n) THEN buffer[i - offset] ELSE old[i]]
    IN  /\ h \in Open
        /\ n > 0 /\ old = <<>> =>
             Cardinality({f \in Existing : files[f] # <<>>}) < MaxNonEmpty
        /\ reply' = Returned(n)
        /\ open' = [open EXCEPT ![h].offset = offset + n]
        /\ files' = [files EXCEPT ![name] = new]

WriteFails(h, buffer) ==
    /\ h \in Open /\ files[open[h].name] = <<>> /\ Len(buffer) > 0
    /\ Cardinality({f \in Existing : files[f] # <<>>}) = MaxNonEmpty
    /\ reply' = Returned(-1)
    /\ UNCHANGED <<files, open>>

Read(h, len) ==
    LET content == files[open[h].name]
        offset == open[h].offset
        n == Least(len, Len(content) - offset)
    IN  /\ h \in Open
        /\ reply' = [ret |-> n, data |-> SubSeq(content, offset + 1, offset + n)]
        /\ open' = [open EXCEPT ![h].offset = offset + n]
        /\ UNCHANGED files

NotOpen(h) ==
    /\ h \notin Open
    /\ reply' = Returned(-1)
    /\ UNCHANGED <<files, open>>

Unlink(name) ==
    /\ name \in Existing
    /\ \A h \in Open : open[h].name # name
    /\ reply' = Returned(0)
    /\ files' = Without(files, name)
    /\ UNCHANGED open

UnlinkFails(name) ==
    /\ name \notin Existing
    /\ reply' = Returned(-1)
    /\ UNCHANGED <<files, open>>

Buffers == UNION {[1 .. n -> Bytes] : n \in 0 .. MaxLen}

Next ==
    \/ \E name \in Names, mode \in Modes :
        OpenFile(name, mode) \/ Create(name, mode) \/ OpenFails(name, mode)
    \/ \E h \in Handles \cup {-1} :
        \/ Close(h) \/ NotOpen(h)
        \/ \E buffer \in Buffers : Write(h, buffer) \/ WriteFails(h, buffer)
        \/ \E len \in 0 .. MaxLen : Read(h, len)
    \/ \E name \in Names : Unlink(name) \/ UnlinkFails(name)

Spec == Init /\ [][Next]_vars
================================================================================
