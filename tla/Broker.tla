--------------------------------- MODULE Broker ---------------------------------
(* The broker process of mbroker/mbroker.c with its clients (manager/manager.c,    *)
(* publisher/pub.c, subscriber/sub.c): requests travel through the server pipe and *)
(* the queue to a pool of workers, answers through a pipe per client.              *)
(*                                                                                 *)
(* The queue's mutexes and condition variables are left to PcQueue; what remains   *)
(* of it here is what other threads see: the counter and the slots, changed in     *)
(* separate steps.  The file system is reduced to the names of its files.          *)
(*                                                                                 *)
(* No list operation lets a list grow that starts empty (InsertBox), and no lookup *)
(* compares names (getBox), so the bodies of publisher and subscriber behind       *)
(* "Box not found." are unreachable.  Failing allocations are left out.            *)
EXTENDS Integers, FiniteSets, SequencesExt

CONSTANTS
    Workers,                           \* the thread pool
    Publishers, Subscribers,           \* clients, each named by its session pipe
    Creators, Removers, Listers,       \* the manager's three commands
    Boxes,                             \* box names clients use
    None,                              \* no request, no box
    Capacity,                          \* QUEUE_CAPACITY
    MaxBoxes,                          \* files the file system has room for
    MaxOpenFiles,                      \* handles it has
    MaxDescriptors,                    \* session pipes the process can have open
    MaxLives,                          \* bound on the runs of one client
    MaxStarts,                         \* bound on the runs of all
    MaxKills                           \* bound on the clients killed

Managers == Creators \cup Removers \cup Listers
Clients == Publishers \cup Subscribers \cup Managers

ASSUME BrokerAssumption ==
    /\ Publishers \cap Subscribers = {} /\ (Publishers \cup Subscribers) \cap Managers = {}
    /\ Creators \cap Removers = {} /\ Listers \cap (Creators \cup Removers) = {}
    /\ None \notin Boxes \cup Clients
    /\ {Capacity, MaxBoxes, MaxOpenFiles, MaxDescriptors,
        MaxLives, MaxStarts} \subseteq Nat \ {0}
    /\ MaxKills \in Nat

VARIABLES
    \* the clients and their session pipes
    at,           \* where each client is
    life,         \* how often it was started
    fifo,         \* the life whose pipe is found under its name, 0 for none
    answers,      \* what was written into that pipe and not yet read
    met,          \* a writer has opened it since the client opened it
    outcome,      \* what the client's user was told
    kills,        \* clients killed so far
    \* the server pipe and main
    server_pipe,  \* the requests in it, the first perhaps read in part
    consumed,     \* bytes of the first already read
    main_at,      \* where main is
    requests,     \* the queue's elements by number: what main read, in order
    \* the queue
    pcq_current_size, pcq_head, pcq_tail, pcq_buffer,
    freed,        \* elements handed to free()
    \* the workers
    pc,           \* where each worker is
    elem,         \* the element it took
    request,      \* op_code and session_pipe_name copied out of it
    session,      \* the pipe it opened: <<client, life>>
    result,       \* the answer it is about to send
    leaked,       \* sessions the broker ended without closing their pipe
    descriptors,  \* session pipes open in the broker
    files,        \* the boxes that exist as files
    list,         \* the boxes linked from args->head
    crashed       \* the broker process has died

clients == <<at, life, fifo, answers, met, outcome, kills>>
inlet == <<server_pipe, consumed, main_at, requests>>
queue == <<pcq_current_size, pcq_head, pcq_tail, pcq_buffer, freed>>
pool == <<pc, elem, request, session, result>>
storage == <<files, list>>
vars == <<clients, inlet, queue, pool, leaked, descriptors, storage, crashed>>

REQUEST_LENGTH == 289
LIST_REQUEST == 257
NULL == 0
Slots == 0 .. Capacity - 1
NoSession == <<None, 0>>
Garbled == [op |-> "garbled", client |-> None, box |-> None]
Codes == {"pub", "sub", "create", "remove", "list"}

OpCode(c) ==
    CASE c \in Publishers -> "pub"
      [] c \in Subscribers -> "sub"
      [] c \in Creators -> "create"
      [] c \in Removers -> "remove"
      [] c \in Listers -> "list"

Init ==
    /\ at = [c \in Clients |-> "away"]
    /\ life = [c \in Clients |-> 0]
    /\ fifo = [c \in Clients |-> 0]
    /\ answers = [c \in Clients |-> <<>>]
    /\ met = [c \in Clients |-> FALSE]
    /\ outcome = [c \in Clients |-> "none"]
    /\ kills = 0
    /\ server_pipe = <<>> /\ consumed = 0 /\ main_at = "read" /\ requests = <<>>
    /\ pcq_current_size = 0 /\ pcq_head = 0 /\ pcq_tail = 0
    /\ pcq_buffer = [i \in Slots |-> NULL]
    /\ freed = {}
    /\ pc = [w \in Workers |-> "dequeue"]
    /\ elem = [w \in Workers |-> NULL]
    /\ request = [w \in Workers |-> Garbled]
    /\ session = [w \in Workers |-> NoSession]
    /\ result = [w \in Workers |-> "none"]
    /\ leaked = {} /\ descriptors = 0
    /\ files = {} /\ list = <<>>
    /\ crashed = FALSE

--------------------------------------------------------------------------------
(* Session pipes *)

(* The client holds the read end, or waits in open for it. *)
Reading(c) == c \notin Publishers /\ at[c] \in {"opening", "listing"}
HasReader(s) == LET c == s[1] IN life[c] = s[2] /\ Reading(c)

(* The broker's descriptors of the pipe the client reads. *)
InSession == {w \in Workers : pc[w] \in {"serve", "close", "answer"}}
HasWriter(c) ==
    /\ ~crashed
    /\ \/ \E w \in InSession : session[w] = <<c, life[c]>>
       \/ <<c, life[c]>> \in leaked

Finish(c, told) ==
    /\ at' = [at EXCEPT ![c] = "done"]
    /\ outcome' = [outcome EXCEPT ![c] = told]
    /\ fifo' = [fifo EXCEPT ![c] = 0]

--------------------------------------------------------------------------------
(* Clients *)

Starts == FoldFunction(+, 0, life)

(* A client is started, again perhaps, and removes the pipe an earlier run left. *)
Start(c) ==
    /\ at[c] \in {"away", "done"} /\ life[c] < MaxLives /\ Starts < MaxStarts
    /\ at' = [at EXCEPT ![c] = "starting"]
    /\ life' = [life EXCEPT ![c] = @ + 1]
    /\ fifo' = [fifo EXCEPT ![c] = 0]
    /\ answers' = [answers EXCEPT ![c] = <<>>]
    /\ met' = [met EXCEPT ![c] = FALSE]
    /\ outcome' = [outcome EXCEPT ![c] = "none"]
    /\ UNCHANGED <<kills, inlet, queue, pool, leaked, descriptors, storage, crashed>>

(* It makes the pipe anew and writes its request. *)
Register(c) ==
    /\ at[c] = "starting" /\ ~crashed
    /\ at' = [at EXCEPT ![c] = "asking"]
    /\ fifo' = [fifo EXCEPT ![c] = life[c]]
    /\ \E box \in IF c \in Listers THEN {None} ELSE Boxes :
        server_pipe' = Append(server_pipe, [op |-> OpCode(c), client |-> c, box |-> box])
    /\ UNCHANGED <<life, answers, met, outcome, kills, consumed, main_at, requests,
                   queue, pool, leaked, descriptors, storage, crashed>>

(* It opens the pipe: a publisher for writing, the others for reading. *)
OpenSession(c) ==
    /\ at[c] = "asking"
    /\ at' = [at EXCEPT ![c] = "opening"]
    /\ UNCHANGED <<life, fifo, answers, met, outcome, kills, inlet, queue, pool,
                   leaked, descriptors, storage, crashed>>

(* box_request reads its answer, prints it and ends.  The code it looks at is the  *)
(* second to fifth byte of box_answer's text or of its zeros.                      *)
ReadAnswer(c) ==
    /\ c \in Creators \cup Removers /\ at[c] = "opening" /\ answers[c] # <<>>
    /\ Finish(c, Head(answers[c]))
    /\ UNCHANGED <<life, answers, met, kills, inlet, queue, pool, leaked, descriptors,
                   storage, crashed>>

(* list_box_request takes the code of the message for the flag of the last box,    *)
(* and reads on.  So does a subscriber that gets another's answer.                 *)
ReadListing(c) ==
    /\ c \in Listers \cup Subscribers /\ Reading(c) /\ answers[c] # <<>>
    /\ at' = [at EXCEPT ![c] = "listing"]
    /\ answers' = [answers EXCEPT ![c] = Tail(@)]
    /\ UNCHANGED <<life, fifo, met, outcome, kills, inlet, queue, pool, leaked,
                   descriptors, storage, crashed>>

(* Nobody writes any more.  A subscriber ends, box_request takes the empty buffer  *)
(* for the code 0, and list_box_request reads on beyond its buffer until that ends *)
(* it (or for ever).                                                               *)
EndOfFile(c) ==
    /\ Reading(c) /\ met[c] /\ answers[c] = <<>> /\ ~HasWriter(c)
    /\ Finish(c, CASE c \in Subscribers -> "closed"
                   [] c \in Listers -> "list"
                   [] OTHER -> "ok")
    /\ UNCHANGED <<life, answers, met, kills, inlet, queue, pool, leaked, descriptors,
                   storage, crashed>>

(* A client is killed and its pipe stays behind. *)
Kill(c) ==
    /\ at[c] \notin {"away", "done"} /\ kills < MaxKills
    /\ kills' = kills + 1
    /\ at' = [at EXCEPT ![c] = "away"]
    /\ UNCHANGED <<life, fifo, answers, met, outcome, inlet, queue, pool, leaked,
                   descriptors, storage, crashed>>

--------------------------------------------------------------------------------
(* main *)

(* Where the k-th request in the server pipe ends, in bytes. *)
RequestEnd(k) ==
    LET lists == {i \in 1 .. k : server_pipe[i].op = "list"}
    IN  REQUEST_LENGTH * k - (REQUEST_LENGTH - LIST_REQUEST) * Cardinality(lists)

(* read takes REQUEST_LENGTH bytes, or all there are, wherever requests end.  What *)
(* begins inside a request has a byte of text or padding for its code and no       *)
(* pipe's name.                                                                    *)
ReadRequest ==
    LET length == RequestEnd(Len(server_pipe))
        upto == IF consumed + REQUEST_LENGTH < length
                THEN consumed + REQUEST_LENGTH ELSE length
        whole == Cardinality({k \in 1 .. Len(server_pipe) : RequestEnd(k) <= upto})
    IN  /\ ~crashed /\ main_at = "read" /\ server_pipe # <<>>
        /\ requests' = Append(requests, IF consumed = 0 THEN Head(server_pipe) ELSE Garbled)
        /\ server_pipe' = SubSeq(server_pipe, whole + 1, Len(server_pipe))
        /\ consumed' = upto - RequestEnd(whole)
        /\ main_at' = "count"
        /\ UNCHANGED <<clients, queue, pool, leaked, descriptors, storage, crashed>>

(* pcq_enqueue: wait for room and count the element. *)
EnqReserve ==
    /\ ~crashed /\ main_at = "count" /\ pcq_current_size # Capacity
    /\ pcq_current_size' = pcq_current_size + 1
    /\ main_at' = "free"
    /\ UNCHANGED <<clients, server_pipe, consumed, requests, pcq_head, pcq_tail,
                   pcq_buffer, freed, pool, leaked, descriptors, storage, crashed>>

(* free(e).  The memory of an element freed before may be any later element's by   *)
(* now; if it is nobody's, the process may end.                                    *)
Free(e) ==
    IF e = NULL THEN UNCHANGED <<freed, crashed>>
    ELSE IF e \in freed
         THEN /\ \E d \in e .. Len(requests) : freed' = freed \cup {d}
              /\ crashed' \in BOOLEAN
         ELSE freed' = freed \cup {e} /\ UNCHANGED crashed

(* Free the element the slot has kept since the last lap. *)
EnqFreeOld ==
    /\ ~crashed /\ main_at = "free"
    /\ Free(pcq_buffer[pcq_head])
    /\ main_at' = "store"
    /\ UNCHANGED <<clients, server_pipe, consumed, requests, pcq_current_size, pcq_head,
                   pcq_tail, pcq_buffer, pool, leaked, descriptors, storage>>

EnqStore ==
    /\ ~crashed /\ main_at = "store"
    /\ pcq_buffer' = [pcq_buffer EXCEPT ![pcq_head] = Len(requests)]
    /\ pcq_head' = (pcq_head + 1) % Capacity
    /\ main_at' = "read"
    /\ UNCHANGED <<clients, server_pipe, consumed, requests, pcq_current_size, pcq_tail,
                   freed, pool, leaked, descriptors, storage, crashed>>

--------------------------------------------------------------------------------
(* working_thread *)

GoTo(w, from, to) == pc[w] = from /\ pc' = [pc EXCEPT ![w] = to]

(* Mutant: the queue is not tested for being empty. *)
CanTakeUntested == TRUE
CanTake == pcq_current_size # 0

(* pcq_dequeue: wait for an element and count it as gone. *)
DeqTake(w) ==
    /\ ~crashed /\ CanTake
    /\ GoTo(w, "dequeue", "load")
    /\ pcq_current_size' = pcq_current_size - 1
    /\ UNCHANGED <<clients, inlet, pcq_head, pcq_tail, pcq_buffer, freed, elem, request,
                   session, result, leaked, descriptors, storage, crashed>>

(* Mutant: the tail is not advanced. *)
NextTailSame == pcq_tail
NextTail == (pcq_tail + 1) % Capacity

(* The slot is loaded, whatever it holds. *)
DeqLoad(w) ==
    /\ ~crashed
    /\ GoTo(w, "load", "copy")
    /\ elem' = [elem EXCEPT ![w] = pcq_buffer[pcq_tail]]
    /\ pcq_tail' = NextTail
    /\ UNCHANGED <<clients, inlet, pcq_current_size, pcq_head, pcq_buffer, freed, request,
                   session, result, leaked, descriptors, storage, crashed>>

(* Freed memory may have kept its content, or have that of an element allocated    *)
(* since, or none; and its first byte may be anything.                             *)
Contents(e) ==
    IF e \in freed THEN {requests[d] : d \in e .. Len(requests)} \cup {Garbled}
    ELSE {requests[e]}
OpCodeRead(e) == IF e \in freed THEN Codes \cup {"garbled"} ELSE {requests[e].op}

(* The code and the pipe's name are copied from the element, one after the other.  *)
(* A slot nobody stored into gave a null pointer.                                  *)
CopyRequest(w) ==
    /\ ~crashed /\ pc[w] = "copy"
    /\ IF elem[w] = NULL
       THEN crashed' = TRUE /\ UNCHANGED <<pc, request>>
       ELSE /\ GoTo(w, "copy", "lookup")
            /\ \E code \in OpCodeRead(elem[w]), r \in Contents(elem[w]) :
                 request' = [request EXCEPT ![w] = [r EXCEPT !.op = code]]
            /\ UNCHANGED crashed
    /\ UNCHANGED <<clients, inlet, queue, elem, session, result, leaked, descriptors, storage>>

(* Mutant: the open does not block (O_NONBLOCK), and fails without a reader. *)
CannotOpenNow(c) ==
    c = None \/ fifo[c] = 0 \/ descriptors = MaxDescriptors \/ ~HasReader(<<c, fifo[c]>>)
CannotOpen(c) == c = None \/ fifo[c] = 0 \/ descriptors = MaxDescriptors

(* open of the session pipe: a thread that finds no such pipe, or has no           *)
(* descriptor left, returns; the others wait for a reader of that very pipe.       *)
LookUp(w) ==
    LET c == request[w].client
    IN  /\ ~crashed
        /\ IF CannotOpen(c)
           THEN GoTo(w, "lookup", "returned") /\ UNCHANGED <<session, descriptors>>
           ELSE /\ GoTo(w, "lookup", "open")
                /\ session' = [session EXCEPT ![w] = <<c, fifo[c]>>]
                /\ descriptors' = descriptors + 1
        /\ UNCHANGED <<clients, inlet, queue, elem, request, result, leaked, storage, crashed>>

(* Mutant: open does not wait for the reader. *)
ReaderCameAlways(w) == TRUE
ReaderCame(w) == HasReader(session[w])

Opened(w) ==
    /\ ~crashed
    /\ GoTo(w, "open", "serve")
    /\ ReaderCame(w)
    /\ met' = [met EXCEPT ![session[w][1]] = TRUE]
    /\ UNCHANGED <<at, life, fifo, answers, outcome, kills, inlet, queue, elem, request,
                   session, result, leaked, descriptors, storage, crashed>>

(* Mutant: pcq_enqueue keeps main's buffer, which the next read overwrites, not a  *)
(* copy of it.                                                                     *)
BoxReadShared(w) == {requests[Len(requests)].box}

(* The box's name is read from the element itself, which may be freed by now. *)
BoxRead(w) == {r.box : r \in Contents(elem[w])}

SetResult(w, code) == result' = [result EXCEPT ![w] = code]

(* The list functions get the head by value.  What is put before the first box, or *)
(* takes its place, is seen by nobody else.  insertBox looks for the box by its    *)
(* address and never finds it.                                                     *)
InsertBox(head, box) == IF head = <<>> THEN <<>> ELSE Append(head, box)
Listed(head, box) == box \in Range(head)
DeleteBox(head, box) ==
    IF head # <<>> /\ Head(head) = box THEN head ELSE RemoveFirst(head, box)

(* create_box: tfs_open creates the file if there is room, and then needs a handle.*)
CreateOpen(w) ==
    /\ ~crashed /\ request[w].op = "create"
    /\ \E box \in BoxRead(w) :
        LET exists == box \in files \/ (box # None /\ Cardinality(files) < MaxBoxes)
            handle == Cardinality({v \in Workers : pc[v] = "close"}) < MaxOpenFiles
        IN  /\ files' = IF exists THEN files \cup {box} ELSE files
            /\ request' = [request EXCEPT ![w].box = box]
            /\ IF exists /\ handle
               THEN GoTo(w, "serve", "close") /\ UNCHANGED result
               ELSE GoTo(w, "serve", "answer") /\ SetResult(w, "error")
    /\ UNCHANGED <<clients, inlet, queue, elem, session, list, leaked, descriptors,
                   crashed>>

(* tfs_close and insertBox. *)
CreateClose(w) ==
    /\ ~crashed
    /\ GoTo(w, "close", "answer")
    /\ list' = InsertBox(list, request[w].box)
    /\ SetResult(w, "ok")
    /\ UNCHANGED <<clients, inlet, queue, elem, request, session, leaked, descriptors,
                   files, crashed>>

(* remove_box: tfs_unlink, and deleteBox where that succeeds. *)
RemoveBox(w) ==
    /\ ~crashed /\ request[w].op = "remove"
    /\ GoTo(w, "serve", "answer")
    /\ \E box \in BoxRead(w) :
        LET unlinked == box \in files
        IN  /\ files' = files \ {box}
            /\ list' = IF unlinked THEN DeleteBox(list, box) ELSE list
            /\ SetResult(w, IF unlinked /\ Listed(list, box) THEN "ok" ELSE "error")
    /\ UNCHANGED <<clients, inlet, queue, elem, request, session, leaked, descriptors,
                   crashed>>

(* list_box finds the list empty and prepares the one message that says so. *)
ListBox(w) ==
    /\ ~crashed /\ request[w].op = "list" /\ list = <<>>
    /\ GoTo(w, "serve", "answer")
    /\ SetResult(w, "list")
    /\ UNCHANGED <<clients, inlet, queue, elem, request, session, leaked, descriptors,
                   storage, crashed>>

(* Mutants: a session that finds no box leaves its pipe open, too; every session's *)
(* pipe is closed.                                                                 *)
HandlerFailedOrNot(w) == TRUE
HandlerFailedIfAnswered(w) == result[w] = "error"
HandlerFailed(w) == request[w].op \in {"pub", "sub"} \/ result[w] = "error"

(* The end of every request: the element is freed and the thread dequeues again.   *)
(* The pipe is closed only where the handler failed.                               *)
EndRequest(w) ==
    /\ pc' = [pc EXCEPT ![w] = "dequeue"]
    /\ Free(elem[w])
    /\ elem' = [elem EXCEPT ![w] = NULL]
    /\ request' = [request EXCEPT ![w] = Garbled]
    /\ session' = [session EXCEPT ![w] = NoSession]
    /\ result' = [result EXCEPT ![w] = "none"]
    /\ IF HandlerFailed(w)
       THEN descriptors' = descriptors - 1 /\ UNCHANGED leaked
       ELSE leaked' = leaked \cup {session[w]} /\ UNCHANGED descriptors

(* subscriber and publisher find no box: getBox compares addresses.  A code that is*)
(* none of the five gets nothing, either.                                          *)
NotServed(w) ==
    /\ ~crashed /\ pc[w] = "serve" /\ request[w].op \in {"pub", "sub", "garbled"}
    /\ EndRequest(w)
    /\ UNCHANGED <<clients, inlet, pcq_current_size, pcq_head, pcq_tail, pcq_buffer, storage>>

(* write to the session pipe: SIGPIPE ends the broker if the reader has gone. *)
Answer(w) ==
    LET c == session[w][1]
    IN  /\ ~crashed /\ pc[w] = "answer"
        /\ IF HasReader(session[w])
           THEN /\ answers' = [answers EXCEPT ![c] = Append(@, result[w])]
                /\ EndRequest(w)
           ELSE crashed' = TRUE /\ UNCHANGED <<answers, pool, freed, leaked, descriptors>>
        /\ UNCHANGED <<at, life, fifo, met, outcome, kills, inlet, pcq_current_size,
                       pcq_head, pcq_tail, pcq_buffer, storage>>

--------------------------------------------------------------------------------
MainStep == ReadRequest \/ EnqReserve \/ EnqFreeOld \/ EnqStore

WorkerStep(w) ==
    \/ DeqTake(w) \/ DeqLoad(w) \/ CopyRequest(w) \/ LookUp(w) \/ Opened(w)
    \/ CreateOpen(w) \/ CreateClose(w) \/ RemoveBox(w) \/ ListBox(w)
    \/ NotServed(w) \/ Answer(w)

(* What a client that was started does of itself. *)
ClientStep(c) ==
    Register(c) \/ OpenSession(c) \/ ReadAnswer(c) \/ ReadListing(c) \/ EndOfFile(c)

Next ==
    \/ \E c \in Clients : Start(c) \/ ClientStep(c) \/ Kill(c)
    \/ MainStep
    \/ \E w \in Workers : WorkerStep(w)

Spec == Init /\ [][Next]_vars

(* Threads and clients that can go on do; nobody has to start a client or kill one.*)
Fairness ==
    /\ WF_vars(MainStep)
    /\ \A w \in Workers : WF_vars(WorkerStep(w))
    /\ \A c \in Clients : WF_vars(ClientStep(c))

FairSpec == Spec /\ Fairness

--------------------------------------------------------------------------------
(* Properties *)

Requests == [op : Codes, client : Clients, box : Boxes \cup {None}]
Copies == [op : Codes \cup {"garbled"}, client : Clients \cup {None}, box : Boxes \cup {None}]
Elements == 1 .. Len(requests)
Results == {"ok", "error", "list"}

(* The counter stays in its range, the indexes inside the ring, no more pipes are  *)
(* open than the process may have, and of the first request in the server pipe a   *)
(* part is unread.                                                                 *)
TypeOK ==
    /\ at \in [Clients -> {"away", "starting", "asking", "opening", "listing", "done"}]
    /\ life \in [Clients -> 0 .. MaxLives]
    /\ fifo \in [Clients -> 0 .. MaxLives]
    /\ answers \in [Clients -> Seq(Results)]
    /\ met \in [Clients -> BOOLEAN]
    /\ outcome \in [Clients -> Results \cup {"none", "closed"}]
    /\ kills \in 0 .. MaxKills
    /\ server_pipe \in Seq(Requests) /\ consumed \in 0 .. REQUEST_LENGTH - 1
    /\ main_at \in {"read", "count", "free", "store"}
    /\ requests \in Seq(Requests \cup {Garbled})
    /\ pcq_current_size \in 0 .. Capacity /\ pcq_head \in Slots /\ pcq_tail \in Slots
    /\ pcq_buffer \in [Slots -> Elements \cup {NULL}]
    /\ freed \subseteq Elements
    /\ pc \in [Workers -> {"dequeue", "load", "copy", "lookup", "open", "serve", "close",
                           "answer", "returned"}]
    /\ elem \in [Workers -> Elements \cup {NULL}]
    /\ request \in [Workers -> Copies]
    /\ session \in [Workers -> (Clients \X (1 .. MaxLives)) \cup {NoSession}]
    /\ result \in [Workers -> Results \cup {"none"}]
    /\ leaked \subseteq Clients \X (1 .. MaxLives)
    /\ descriptors \in 0 .. MaxDescriptors
    /\ files \subseteq Boxes /\ list \in Seq(Boxes)
    /\ crashed \in BOOLEAN

(* Until the ring's first lap is over no slot is stored into a second time. *)
FirstLap == Len(requests) <= Capacity

(* No client has been started twice. *)
RunOnce == \A c \in Clients : life[c] <= 1

(* main has read neither the shorter list request nor what follows one.            *)
Plain == \A i \in 1 .. Len(requests) : requests[i].op \notin {"list", "garbled"}

(* In the first lap each element belongs to one worker at a time, from the load to *)
(* its free, although workers load slots while main stores into others.            *)
HeldElements ==
    FirstLap => \A v, w \in Workers :
        elem[w] # NULL => elem[w] \notin freed /\ (v # w => elem[v] # elem[w])

(* working_thread gives a worker up for good where open fails.  While no client is *)
(* run twice, no list request is sent, there are descriptors enough and the ring is*)
(* in its first lap, that does not happen, whoever is killed.                      *)
PoolLoss ==
    FirstLap /\ RunOnce /\ Plain /\ Len(requests) <= MaxDescriptors
        => \A w \in Workers : pc[w] # "returned"

(* A worker that waits in open waits for a client on its way there, but for a      *)
(* publisher: where nobody is killed or run twice, and in the first lap, no worker *)
(* is left with a pipe whose client has what it wanted and has gone.               *)
OpenReturns ==
    FirstLap /\ RunOnce /\ kills = 0 =>
        \A w \in Workers : pc[w] = "open" =>
            LET c == session[w][1]
            IN  c \in Publishers \/ at[c] = "asking" \/ ReaderCame(w)

(* What ends the broker, if no client is killed or run twice and the ring is in its*)
(* first lap, is one thing only: a worker took a slot main had counted and not yet *)
(* stored.  Answering never does.                                                  *)
CrashExplained ==
    crashed /\ FirstLap /\ RunOnce /\ kills = 0
    => \E w \in Workers : pc[w] = "copy" /\ elem[w] = NULL

(* The answer to a client is there, or the end of its pipe; or its request is in   *)
(* the server pipe, in main's hands, in a slot the counter still covers, or a      *)
(* worker's.                                                                       *)
InHand(c) ==
    LET mine == {e \in Elements : requests[e].client = c}
        counted == pcq_current_size + Cardinality({w \in Workers : pc[w] = "load"})
        due == {pcq_buffer[(pcq_tail + d) % Capacity] : d \in 0 .. counted - 1}
    IN  \/ answers[c] # <<>>
        \/ met[c] /\ ~HasWriter(c)
        \/ \E n \in 1 .. Len(server_pipe) : server_pipe[n].client = c
        \/ main_at # "read" /\ Len(requests) \in mine
        \/ mine \cap due # {}
        \/ \E w \in Workers : elem[w] \in mine /\ pc[w] # "returned"

(* Nobody who waits for an answer is forgotten, under the conditions of PoolLoss:  *)
(* his request is never dropped on its way, nor his session left open without an   *)
(* answer, until the broker dies or a worker has loaded the slot that ends it.     *)
NobodyForgotten ==
    /\ FirstLap /\ RunOnce /\ Plain /\ Len(requests) <= MaxDescriptors
    /\ ~crashed /\ \A w \in Workers : ~(pc[w] = "copy" /\ elem[w] = NULL)
    => \A c \in Creators \cup Removers \cup Subscribers :
        at[c] \in {"asking", "opening"} => InHand(c)

(* A manager that lists the boxes ends with the broker and not before: the broker  *)
(* keeps its pipe open, and what the manager reads never looks like the last box.  *)
(* (Only from the second lap on may it get another's answer.)                      *)
ListingNeverEnds == FirstLap => \A c \in Listers : at[c] = "done" => crashed

(* "When a thread ends a session, it waits for a new session to handle": the pool  *)
(* never shrinks.                                                                  *)
PoolIntact == \A w \in Workers : pc[w] # "returned"

(* Every manager that creates or removes a box is told how it went, and a worker   *)
(* connects to every subscriber, in whatever order and by whichever worker, unless *)
(* the broker dies.                                                                *)
EveryoneServed ==
    /\ \A c \in Creators \cup Removers : at[c] = "asking" ~> (at[c] = "done" \/ crashed)
    /\ \A c \in Subscribers : at[c] = "asking" ~> (met[c] \/ crashed)

(* A subscriber that a worker has connected to is told the end of its session: its *)
(* worker finds no box, whether there is one or not.                               *)
SubscribersLeft == \A c \in Subscribers : met[c] ~> (at[c] = "done" \/ crashed)

(* A worker connects to every publisher's session, as the publisher's user is told.*)
PublisherServed ==
    \A c \in Publishers :
        at[c] = "asking" ~> (crashed \/ \E w \in InSession : session[w][1] = c)

--------------------------------------------------------------------------------
(* What the managers are promised (BoxService), where each client runs once.       *)

RequestOf(c) ==
    LET asked == {server_pipe[i] : i \in 1 .. Len(server_pipe)}
                    \cup {requests[i] : i \in 1 .. Len(requests)}
    IN  {r \in asked : r.client = c}

Serving(c) == {w \in Workers : pc[w] \in {"close", "answer"} /\ session[w][1] = c}

(* The result of a request that has taken effect, if it has. *)
Effect(c) ==
    CASE at[c] = "done" -> outcome[c]
      [] at[c] # "done" /\ answers[c] # <<>> -> Head(answers[c])
      [] at[c] # "done" /\ answers[c] = <<>> /\ Serving(c) # {} ->
            LET w == CHOOSE v \in Serving(c) : TRUE
            IN  IF pc[w] = "close" THEN "ok" ELSE result[w]
      [] OTHER -> "none"

Service == INSTANCE BoxService WITH
    wanted <- [c \in Creators \cup Removers |-> {r.box : r \in RequestOf(c)}],
    boxes <- files,
    effect <- [c \in Creators \cup Removers |-> Effect(c)],
    told <- {c \in Creators \cup Removers : at[c] = "done"},
    down <- crashed

(* create_box and remove_box give each manager what BoxService promises, whatever  *)
(* worker serves whom and in what order.                                           *)
BoxContract == Service!Spec

--------------------------------------------------------------------------------
(* The queue as main and the workers use it                                        *)

SlotQueue == INSTANCE SlotRing WITH
    Producers <- {"main"}, Consumers <- Workers, Null <- NULL,
    size <- pcq_current_size, head <- pcq_head, tail <- pcq_tail, slots <- pcq_buffer,
    storing <- IF main_at \in {"free", "store"} THEN {"main"} ELSE {},
    loading <- {w \in Workers : pc[w] = "load"},
    given <- [p \in {"main"} |-> Len(requests)],
    got <- elem

(* Of the queue main and the workers see and do only what PcQueue's SlotContract   *)
(* allows its threads, whatever else they and the clients do.                      *)
QueueContract == SlotQueue!Spec
================================================================================
