--------------------------- MODULE BrokerServiceProofs --------------------------
(* What clients that run once are given, for every number of workers, clients and  *)
(* boxes, every size of the ring and every bound: no worker is lost to them, they  *)
(* do not end the broker, none of them is forgotten, and managers get what         *)
(* BoxService promises.                                                            *)
EXTENDS BrokerProofs, SequenceTheorems

--------------------------------------------------------------------------------
(* Clients that run once *)

(* A client that has just been started is new to the broker. *)
Fresh ==
    \A c \in Clients : at[c] = "starting" => life[c] > 0 /\ ~met[c] /\ answers[c] = <<>>

(* In the first lap a worker's copy of a request is the request. *)
Copied ==
    FirstLap => \A w \in Workers :
        pc[w] = "lookup" \/ w \in Holding
            => /\ request[w].op = requests[elem[w]].op
               /\ request[w].client = requests[elem[w]].client

(* No client has two requests on their way. *)
AskedOnce ==
    /\ \A n \in 1 .. Len(server_pipe) :
        LET c == server_pipe[n].client
        IN  /\ life[c] = 1 /\ at[c] # "starting"
            /\ \A m \in 1 .. Len(server_pipe) : m # n => server_pipe[m].client # c
            /\ \A e \in Elements : requests[e].client # c
    /\ \A e \in Elements :
        LET c == requests[e].client
        IN  c # None => /\ life[c] = 1 /\ at[c] # "starting"
                        /\ \A d \in Elements : d # e => requests[d].client # c

(* The clients whose pipe no worker has opened yet. *)
Waiting ==
    {c \in Clients : /\ at[c] \in {"asking", "opening", "away"} /\ life[c] = 1 /\ fifo[c] = 1
                     /\ ~met[c] /\ answers[c] = <<>>}

(* The elements for which a worker has opened the client's pipe. *)
Served == freed \cup {elem[w] : w \in InSession}

AllWaiting ==
    /\ \A n \in 1 .. Len(server_pipe) : server_pipe[n].client \in Waiting
    /\ \A e \in Elements :
        requests[e].client # None /\ e \notin Served => requests[e].client \in Waiting

OnceHeld ==
    /\ Fresh /\ Copied
    /\ RunOnce => AskedOnce
    /\ RunOnce /\ FirstLap => AllWaiting

(* The workers that have taken an element and not opened a pipe for it. *)
Taking == {w \in Workers : pc[w] \in {"load", "copy", "lookup"}}

(* Each descriptor is for an element counted, and so is what is still to come. *)
DescriptorsCounted ==
    IsFiniteSet(Taking) /\ descriptors + Cardinality(Taking) + pcq_current_size <= Reserved

(* The client of a session is in its read, unless it was killed, and has no answer. *)
Attended(w) ==
    LET c == session[w][1]
    IN  /\ c \notin Publishers /\ life[c] = session[w][2] /\ answers[c] = <<>>
        /\ at[c] \in {"opening", "listing"} \/ (at[c] = "away" /\ kills > 0)

ReadersHeld == RunOnce /\ FirstLap /\ ~crashed => \A w \in InSession : Attended(w)

(* A worker begins to take an element, has opened a pipe for it, or does neither. *)
LEMMA TakingMoves ==
  ASSUME Typed, DescriptorsCounted, NEW w \in Workers, NEW to, pc' = [pc EXCEPT ![w] = to]
  PROVE  LET In(place) == place \in {"load", "copy", "lookup"}
         IN  /\ In(pc[w]) <=> w \in Taking
             /\ (In(pc[w]) <=> In(to)) => Taking' = Taking
             /\ ~In(pc[w]) /\ In(to)
                  => IsFiniteSet(Taking') /\ Cardinality(Taking') = Cardinality(Taking) + 1
             /\ In(pc[w]) /\ ~In(to)
                  => IsFiniteSet(Taking') /\ Cardinality(Taking') = Cardinality(Taking) - 1
<1> DEFINE In(place) == place \in {"load", "copy", "lookup"}
<1>1. \A v \in Workers : pc'[v] = IF v = w THEN to ELSE pc[v]
  BY HoldingMoves
<1>2. (In(pc[w]) <=> w \in Taking) /\ ((In(pc[w]) <=> In(to)) => Taking' = Taking)
  BY <1>1 DEF Taking
<1>3. ASSUME ~In(pc[w]), In(to)
      PROVE  IsFiniteSet(Taking') /\ Cardinality(Taking') = Cardinality(Taking) + 1
  <2>1. Taking' = Taking \cup {w} /\ w \notin Taking
    BY <1>1, <1>3 DEF Taking
  <2> QED
    BY <2>1, FS_AddElement DEF DescriptorsCounted
<1>4. ASSUME In(pc[w]), ~In(to)
      PROVE  IsFiniteSet(Taking') /\ Cardinality(Taking') = Cardinality(Taking) - 1
  <2>1. Taking' = Taking \ {w} /\ w \in Taking
    BY <1>1, <1>4 DEF Taking
  <2> QED
    BY <2>1, FS_RemoveElement DEF DescriptorsCounted
<1> QED
  BY <1>2, <1>3, <1>4

(* Every step keeps the descriptors counted. *)
LEMMA DescriptorsNext ==
  Typed /\ FirstLapHeld /\ DescriptorsCounted /\ [Next]_vars => DescriptorsCounted'
<1> SUFFICES ASSUME Typed, FirstLapHeld, DescriptorsCounted, [Next]_vars
             PROVE  DescriptorsCounted'
  OBVIOUS
<1>1. /\ Cardinality(Taking) \in Nat /\ descriptors \in Nat /\ pcq_current_size \in Nat
      /\ Reserved \in Nat /\ IsFiniteSet(Taking)
      /\ descriptors + Cardinality(Taking) + pcq_current_size <= Reserved
  <2>1. descriptors \in Nat
    BY Bounds DEF Typed, TypeOK
  <2> QED
    BY <2>1, FS_CardinalityType, RingNumbers DEF DescriptorsCounted
<1>2. CASE UNCHANGED <<main_at, requests, pcq_current_size, descriptors>> /\ Taking' = Taking
  BY <1>2 DEF DescriptorsCounted, Reserved
<1>3. CASE UNCHANGED vars
  BY <1>2, <1>3 DEF vars, inlet, queue, pool, Taking
<1>4. ASSUME NEW c \in Clients,
             \/ Start(c) \/ Register(c) \/ OpenSession(c) \/ ReadAnswer(c)
             \/ ReadListing(c) \/ EndOfFile(c) \/ Kill(c)
      PROVE  DescriptorsCounted'
  <2>1. UNCHANGED <<main_at, requests, queue, pool, descriptors>>
    BY <1>4 DEF Start, Register, OpenSession, ReadAnswer, ReadListing, EndOfFile, Kill, inlet
  <2> QED
    BY <1>2, <2>1 DEF queue, pool, Taking
<1>5. CASE ReadRequest \/ EnqReserve \/ EnqFreeOld \/ EnqStore
  <2>1. pool' = pool /\ descriptors' = descriptors
    BY <1>5 DEF ReadRequest, EnqReserve, EnqFreeOld, EnqStore
  <2>2. Taking' = Taking
    BY <2>1 DEF pool, Taking
  <2>3. Reserved' - pcq_current_size' = Reserved - pcq_current_size /\ Reserved' \in Int
        /\ pcq_current_size' \in Int
    <3>1. CASE ReadRequest
      <4>1. Len(requests') = Len(requests) + 1 /\ Len(requests) \in Nat
        BY <3>1 DEF ReadRequest, Typed, TypeOK
      <4> QED
        BY <1>1, <3>1, <4>1 DEF ReadRequest, Reserved, queue
    <3>2. CASE EnqReserve
      BY <1>1, <3>2, RingNumbers DEF EnqReserve, Reserved
    <3>3. CASE EnqFreeOld \/ EnqStore
      BY <1>1, <3>3 DEF EnqFreeOld, EnqStore, Reserved
    <3> QED
      BY <1>5, <3>1, <3>2, <3>3
  <2>4. descriptors + Cardinality(Taking) + pcq_current_size' <= Reserved'
    <3>1. \A d, c, s, r, s1, r1 \in Int :
            d + c + s <= r /\ r1 - s1 = r - s => d + c + s1 <= r1
      OBVIOUS
    <3>2. descriptors \in Int /\ Cardinality(Taking) \in Int /\ pcq_current_size \in Int
      BY <1>1
    <3>3. Reserved \in Int
      BY <1>1
    <3> QED
      BY <1>1, <2>3, <3>1, <3>2, <3>3
  <2> QED
    BY <1>1, <2>1, <2>2, <2>4 DEF DescriptorsCounted
<1>6. ASSUME NEW w \in Workers, DeqTake(w)
      PROVE  DescriptorsCounted'
  <2>1. /\ pc[w] = "dequeue" /\ pc' = [pc EXCEPT ![w] = "load"]
        /\ pcq_current_size' = pcq_current_size - 1
        /\ UNCHANGED <<main_at, requests, descriptors>>
    BY <1>6 DEF DeqTake, GoTo, inlet
  <2>2. IsFiniteSet(Taking') /\ Cardinality(Taking') = Cardinality(Taking) + 1
    BY <2>1, TakingMoves
  <2> QED
    BY <1>1, <2>1, <2>2 DEF DescriptorsCounted, Reserved
<1>7. ASSUME NEW w \in Workers, DeqLoad(w) \/ CopyRequest(w)
      PROVE  DescriptorsCounted'
  <2>1. UNCHANGED <<main_at, requests, pcq_current_size, descriptors>>
    BY <1>7 DEF DeqLoad, CopyRequest, inlet, queue
  <2>2. PICK to \in {"copy", "lookup"} :
          pc' = pc \/ (pc[w] \in {"load", "copy"} /\ pc' = [pc EXCEPT ![w] = to])
    BY <1>7 DEF DeqLoad, CopyRequest, GoTo
  <2>3. Taking' = Taking
    BY <2>2, TakingMoves DEF Taking
  <2> QED
    BY <1>2, <2>1, <2>3
<1>8. ASSUME NEW w \in Workers, LookUp(w)
      PROVE  DescriptorsCounted'
  <2>1. /\ UNCHANGED <<main_at, requests, pcq_current_size>>
        /\ descriptors' \in {descriptors, descriptors + 1} /\ pc[w] = "lookup"
    BY <1>8 DEF LookUp, GoTo, inlet, queue
  <2>2. PICK to \in {"open", "returned"} : pc' = [pc EXCEPT ![w] = to]
    BY <1>8 DEF LookUp, GoTo
  <2>3. IsFiniteSet(Taking') /\ Cardinality(Taking') = Cardinality(Taking) - 1
    BY <2>1, <2>2, TakingMoves
  <2> QED
    BY <1>1, <2>1, <2>3 DEF DescriptorsCounted, Reserved
<1>9. ASSUME NEW w \in Workers,
             Opened(w) \/ CreateOpen(w) \/ CreateClose(w) \/ RemoveBox(w) \/ ListBox(w)
      PROVE  DescriptorsCounted'
  <2>1. UNCHANGED <<main_at, requests, pcq_current_size, descriptors>>
    BY <1>9 DEF Opened, CreateOpen, CreateClose, RemoveBox, ListBox, inlet, queue
  <2>2. PICK to \in {"serve", "close", "answer"} :
          pc[w] \in {"open", "serve", "close"} /\ pc' = [pc EXCEPT ![w] = to]
    BY <1>9 DEF Opened, CreateOpen, CreateClose, RemoveBox, ListBox, GoTo
  <2>3. Taking' = Taking
    BY <2>2, TakingMoves
  <2> QED
    BY <1>2, <2>1, <2>3
<1>10. ASSUME NEW w \in Workers, NotServed(w) \/ Answer(w)
       PROVE  DescriptorsCounted'
  <2>1. UNCHANGED <<main_at, requests, pcq_current_size>> /\ pc[w] \in {"serve", "answer"}
    BY <1>10 DEF NotServed, Answer, inlet
  <2>2. EndRequest(w) \/ UNCHANGED <<pool, descriptors>>
    BY <1>10 DEF NotServed, Answer
  <2>3. CASE EndRequest(w)
    <3>1. pc' = [pc EXCEPT ![w] = "dequeue"] /\ descriptors' \in {descriptors, descriptors - 1}
      BY <2>3 DEF EndRequest
    <3>2. /\ pc[w] \notin {"load", "copy", "lookup"}
          /\ "dequeue" \notin {"load", "copy", "lookup"}
      BY <2>1
    <3>3. Taking' = Taking
      BY <3>1, <3>2, TakingMoves
    <3> QED
      BY <1>1, <2>1, <3>1, <3>3 DEF DescriptorsCounted, Reserved
  <2>4. CASE UNCHANGED <<pool, descriptors>>
    BY <1>2, <2>1, <2>4 DEF pool, Taking
  <2> QED
    BY <2>2, <2>3, <2>4
<1> QED
  BY <1>3, <1>4, <1>5, <1>6, <1>7, <1>8, <1>9, <1>10, Steps

(* Every step keeps clients that were just started new to the broker. *)
LEMMA FreshNext == Typed /\ Fresh /\ [Next]_vars => Fresh'
<1> SUFFICES ASSUME Typed, Fresh, [Next]_vars, NEW d \in Clients, at'[d] = "starting"
             PROVE  life'[d] > 0 /\ ~met'[d] /\ answers'[d] = <<>>
  BY DEF Fresh
<1> USE DEF Typed, TypeOK
<1>1. CASE UNCHANGED vars
  BY <1>1 DEF Fresh, vars, clients
<1>2. ASSUME NEW c \in Clients, Start(c)
      PROVE  life'[d] > 0 /\ ~met'[d] /\ answers'[d] = <<>>
  <2>1. CASE d = c
    BY <1>2, <2>1, Bounds DEF Start
  <2>2. CASE d # c
    BY <1>2, <2>2 DEF Start, Fresh
  <2> QED
    BY <2>1, <2>2
<1>3. ASSUME NEW c \in Clients,
             \/ Register(c) \/ OpenSession(c) \/ ReadAnswer(c)
             \/ ReadListing(c) \/ EndOfFile(c) \/ Kill(c)
      PROVE  life'[d] > 0 /\ ~met'[d] /\ answers'[d] = <<>>
  <2>1. d # c /\ at[d] = "starting"
    BY <1>3 DEF Register, OpenSession, ReadAnswer, ReadListing, EndOfFile, Kill, Finish
  <2>2. life' = life /\ met' = met /\ answers'[d] = answers[d]
    BY <1>3, <2>1 DEF Register, OpenSession, ReadAnswer, ReadListing, EndOfFile, Kill
  <2> QED
    BY <2>1, <2>2 DEF Fresh
<1>4. CASE ReadRequest \/ EnqReserve \/ EnqFreeOld \/ EnqStore
  BY <1>4 DEF ReadRequest, EnqReserve, EnqFreeOld, EnqStore, clients, Fresh
<1>5. ASSUME NEW w \in Workers,
             \/ DeqTake(w) \/ DeqLoad(w) \/ CopyRequest(w) \/ LookUp(w) \/ CreateOpen(w)
             \/ CreateClose(w) \/ RemoveBox(w) \/ ListBox(w) \/ NotServed(w)
      PROVE  life'[d] > 0 /\ ~met'[d] /\ answers'[d] = <<>>
  <2>1. clients' = clients
    BY <1>5 DEF DeqTake, DeqLoad, CopyRequest, LookUp, CreateOpen, CreateClose, RemoveBox,
                ListBox, NotServed
  <2> QED
    BY <2>1 DEF clients, Fresh
<1>6. ASSUME NEW w \in Workers, Opened(w) \/ Answer(w)
      PROVE  life'[d] > 0 /\ ~met'[d] /\ answers'[d] = <<>>
  <2>1. UNCHANGED <<at, life>> /\ at[d] = "starting"
    BY <1>6 DEF Opened, Answer
  <2>2. ASSUME HasReader(session[w]) PROVE session[w][1] # d
    BY <2>1, <2>2 DEF HasReader, Reading
  <2>3. met'[d] = met[d] /\ answers'[d] = answers[d]
    BY <1>6, <2>2 DEF Opened, ReaderCame, Answer
  <2> QED
    BY <2>1, <2>3 DEF Fresh
<1> QED
  BY <1>1, <1>2, <1>3, <1>4, <1>5, <1>6, Steps

(* Every step keeps workers' copies what was asked. *)
LEMMA CopiedNext == Typed /\ FirstLapHeld /\ Copied /\ [Next]_vars => Copied'
<1> SUFFICES ASSUME Typed, FirstLapHeld, Copied, [Next]_vars, FirstLap',
                    NEW v \in Workers, pc'[v] = "lookup" \/ v \in Holding'
             PROVE  /\ request'[v].op = requests'[elem'[v]].op
                    /\ request'[v].client = requests'[elem'[v]].client
  BY DEF Copied
<1> DEFINE Same == /\ request'[v].op = requests'[elem'[v]].op
                   /\ request'[v].client = requests'[elem'[v]].client
<1>1. requests \in Seq(Requests \cup {Garbled}) /\ elem \in [Workers -> Elements \cup {NULL}]
      /\ request \in [Workers -> Copies]
  BY DEF Typed, TypeOK
<1>2. FirstLap
  <2>1. requests' = requests \/ Len(requests') = Len(requests) + 1
    BY RequestsGrow
  <2>2. Len(requests) \in Nat
    BY <1>1
  <2> QED
    BY <2>1, <2>2, Bounds DEF FirstLap
<1>3. pc[v] = "lookup" \/ v \in Holding =>
        /\ request[v].op = requests[elem[v]].op /\ request[v].client = requests[elem[v]].client
        /\ elem[v] \in Elements
  BY <1>1, <1>2 DEF Copied, Typed, Held, Holding
<1>4. CASE UNCHANGED <<pc, request, elem, requests>>
  BY <1>3, <1>4 DEF Holding
<1>5. ASSUME NEW c \in Clients,
             \/ Start(c) \/ Register(c) \/ OpenSession(c) \/ ReadAnswer(c)
             \/ ReadListing(c) \/ EndOfFile(c) \/ Kill(c)
      PROVE  Same
  BY <1>4, <1>5 DEF Start, Register, OpenSession, ReadAnswer, ReadListing, EndOfFile, Kill,
     inlet, pool
<1>6. CASE ReadRequest
  <2>1. PICK r : requests' = Append(requests, r)
    BY <1>6 DEF ReadRequest
  <2>2. UNCHANGED <<pc, request, elem>>
    BY <1>6 DEF ReadRequest, pool
  <2>3. elem[v] \in 1 .. Len(requests)
    BY <1>3, <2>2 DEF Holding, Elements
  <2>4. requests'[elem[v]] = requests[elem[v]]
    BY <1>1, <2>1, <2>3
  <2> QED
    BY <1>3, <2>2, <2>4 DEF Holding
<1>7. CASE EnqReserve \/ EnqFreeOld \/ EnqStore
  BY <1>4, <1>7 DEF EnqReserve, EnqFreeOld, EnqStore, pool
<1>8. ASSUME NEW w \in Workers, WorkerStep(w), v # w PROVE Same
  <2>1. /\ pc'[v] = pc[v] /\ elem'[v] = elem[v] /\ request'[v] = request[v]
    BY <1>8, OtherWorkers
  <2>2. requests' = requests
    BY <1>8 DEF WorkerStep, DeqTake, DeqLoad, CopyRequest, LookUp, Opened, CreateOpen,
       CreateClose, RemoveBox, ListBox, NotServed, Answer, inlet
  <2> QED
    BY <1>3, <2>1, <2>2 DEF Holding
<1>9. CASE DeqTake(v) \/ DeqLoad(v)
  BY <1>9, HoldingMoves DEF DeqTake, DeqLoad, GoTo, HoldingPlaces, Holding
<1>10. CASE CopyRequest(v)
  <2>1. CASE elem[v] = NULL
    BY <1>4, <1>10, <2>1 DEF CopyRequest, inlet
  <2>2. CASE elem[v] # NULL
    <3>1. elem[v] \notin freed
      BY <1>2 DEF FirstLapHeld, Ring
    <3>2. PICK r : r = requests[elem[v]]
      OBVIOUS
    <3>3. request' = [request EXCEPT ![v] = [r EXCEPT !.op = r.op]]
      BY <1>10, <2>2, <3>1, <3>2 DEF CopyRequest, Contents, OpCodeRead
    <3>4. requests' = requests /\ elem' = elem
      BY <1>10 DEF CopyRequest, inlet
    <3>5. r \in Requests \cup {Garbled}
      BY <1>1, <2>2, <3>2 DEF Elements
    <3>6. [r EXCEPT !.op = r.op] = r
      BY <3>5 DEF Requests, Garbled
    <3> QED
      BY <1>1, <3>2, <3>3, <3>4, <3>6
  <2> QED
    BY <2>1, <2>2
<1>11. CASE LookUp(v) \/ Opened(v) \/ CreateClose(v) \/ RemoveBox(v) \/ ListBox(v)
  <2>1. /\ pc[v] = "lookup" \/ v \in Holding
        /\ UNCHANGED <<request, elem, requests>>
    BY <1>11 DEF LookUp, Opened, CreateClose, RemoveBox, ListBox, GoTo, Holding, inlet
  <2> QED
    BY <1>3, <2>1
<1>12. CASE CreateOpen(v)
  <2>1. v \in Holding /\ UNCHANGED <<elem, requests>>
    BY <1>12 DEF CreateOpen, GoTo, Holding, inlet
  <2>2. PICK box : request' = [request EXCEPT ![v].box = box]
    BY <1>12 DEF CreateOpen
  <2>3. request'[v].op = request[v].op /\ request'[v].client = request[v].client
    <3>1. request[v] \in Copies
      BY <1>1
    <3> QED
      BY <1>1, <2>2, <3>1 DEF Copies
  <2> QED
    BY <1>3, <2>1, <2>3
<1>13. CASE NotServed(v) \/ Answer(v)
  <2>1. CASE EndRequest(v)
    <3>1. pc' = [pc EXCEPT ![v] = "dequeue"]
      BY <2>1 DEF EndRequest
    <3>2. pc'[v] = "dequeue"
      BY <3>1 DEF Typed, TypeOK
    <3> QED
      BY <3>2 DEF Holding
  <2>2. CASE UNCHANGED pool
    BY <1>4, <1>13, <2>2 DEF NotServed, Answer, inlet, pool
  <2> QED
    BY <1>13, <2>1, <2>2 DEF NotServed, Answer
<1>14. ASSUME NEW w \in Workers,
              \/ DeqTake(w) \/ DeqLoad(w) \/ CopyRequest(w) \/ LookUp(w) \/ Opened(w)
              \/ CreateOpen(w) \/ CreateClose(w) \/ RemoveBox(w) \/ ListBox(w)
              \/ NotServed(w) \/ Answer(w)
       PROVE  Same
  <2>1. CASE v = w
    BY <1>9, <1>10, <1>11, <1>12, <1>13, <1>14, <2>1
  <2>2. CASE v # w
    BY <1>8, <1>14, <2>2 DEF WorkerStep
  <2> QED
    BY <2>1, <2>2
<1>15. CASE UNCHANGED vars
  BY <1>4, <1>15 DEF vars, pool, inlet
<1> QED
  BY <1>5, <1>6, <1>7, <1>14, <1>15, Steps

(* Who asks, of the requests in the pipe and of those read. *)
LEMMA Askers ==
  ASSUME Typed
  PROVE  /\ server_pipe \in Seq(Requests) /\ requests \in Seq(Requests \cup {Garbled})
         /\ Len(requests) \in Nat /\ Len(server_pipe) \in Nat /\ None \notin Clients
         /\ \A n \in 1 .. Len(server_pipe) : server_pipe[n].client \in Clients
         /\ \A e \in Elements : requests[e].client \in Clients \cup {None}
<1>1. /\ server_pipe \in Seq(Requests) /\ requests \in Seq(Requests \cup {Garbled})
      /\ None \notin Clients
  BY BrokerAssumption DEF Typed, TypeOK
<1>2. \A r \in Requests : r.client \in Clients
  BY DEF Requests
<1>3. Garbled.client = None
  BY DEF Garbled
<1>4. \A n \in 1 .. Len(server_pipe) : server_pipe[n] \in Requests
  BY <1>1
<1>5. \A e \in Elements : requests[e] \in Requests \cup {Garbled}
  BY <1>1 DEF Elements
<1>6. \A e \in Elements : requests[e].client \in Clients \cup {None}
  BY <1>2, <1>3, <1>5
<1> QED
  BY <1>1, <1>2, <1>4, <1>6

(* Clients are started again, never fewer times. *)
LEMMA RanOnce ==
  ASSUME Typed, [Next]_vars, RunOnce'
  PROVE  RunOnce
<1>1. ASSUME NEW d \in Clients PROVE life[d] <= life'[d]
  <2>1. life \in [Clients -> 0 .. MaxLives]
    BY DEF Typed, TypeOK
  <2>2. ASSUME NEW c \in Clients, Start(c) PROVE life[d] <= life'[d]
    BY <2>1, <2>2, Bounds DEF Start
  <2>3. ASSUME NEW c \in Clients,
               \/ Register(c) \/ OpenSession(c) \/ ReadAnswer(c)
               \/ ReadListing(c) \/ EndOfFile(c) \/ Kill(c)
        PROVE  life' = life
    BY <2>3 DEF Register, OpenSession, ReadAnswer, ReadListing, EndOfFile, Kill
  <2>4. CASE ReadRequest \/ EnqReserve \/ EnqFreeOld \/ EnqStore
    BY <2>1, <2>4, Bounds DEF ReadRequest, EnqReserve, EnqFreeOld, EnqStore, clients
  <2>5. ASSUME NEW w \in Workers,
               \/ DeqTake(w) \/ DeqLoad(w) \/ CopyRequest(w) \/ LookUp(w) \/ Opened(w)
               \/ CreateOpen(w) \/ CreateClose(w) \/ RemoveBox(w) \/ ListBox(w)
               \/ NotServed(w) \/ Answer(w)
        PROVE  life' = life
    BY <2>5 DEF DeqTake, DeqLoad, CopyRequest, LookUp, Opened, CreateOpen, CreateClose,
       RemoveBox, ListBox, NotServed, Answer, clients
  <2>6. CASE life' = life
    BY <2>1, <2>6, Bounds
  <2>7. CASE UNCHANGED vars
    BY <2>6, <2>7 DEF vars, clients
  <2> QED
    BY <2>2, <2>3, <2>4, <2>5, <2>6, <2>7, Steps
<1>2. \A d \in Clients : life'[d] <= 1 /\ life[d] \in Nat /\ life'[d] \in Nat
  <2>1. Typed'
    BY NextTyped
  <2> QED
    BY <2>1, Bounds DEF RunOnce, Typed, TypeOK
<1> QED
  BY <1>1, <1>2 DEF RunOnce

(* What leaves requests and clients where they are. *)
LEMMA AskedSame ==
  ASSUME AskedOnce, UNCHANGED <<at, life, server_pipe, requests>>
  PROVE  AskedOnce'
BY DEF AskedOnce, Elements

(* A client asks once in a life. *)
LEMMA AskedClient ==
  ASSUME Typed, Fresh, AskedOnce, RunOnce, RunOnce', NEW c \in Clients,
         \/ Start(c) \/ Register(c) \/ OpenSession(c) \/ ReadAnswer(c)
         \/ ReadListing(c) \/ EndOfFile(c) \/ Kill(c)
  PROVE  AskedOnce'
<1> DEFINE Past(d) == life[d] = 1 /\ at[d] # "starting"
<1>1. at \in [Clients -> {"away", "starting", "asking", "opening", "listing", "done"}]
      /\ life \in [Clients -> 0 .. MaxLives]
  BY DEF Typed, TypeOK
<1>2. requests' = requests /\ Elements' = Elements
  BY DEF Start, Register, OpenSession, ReadAnswer, ReadListing, EndOfFile, Kill, inlet, Elements
<1>3. ASSUME NEW d \in Clients, Past(d)
      PROVE  life'[d] = 1 /\ at'[d] # "starting"
  <2>1. CASE Start(c)
    <3>1. d # c
      <4>1. life'[c] = life[c] + 1 /\ life'[c] <= 1
        BY <1>1, <2>1 DEF Start, RunOnce
      <4> QED
        BY <1>3, <4>1
    <3> QED
      BY <1>1, <1>3, <2>1, <3>1 DEF Start
  <2>2. CASE ~Start(c)
    BY <1>1, <1>3, <2>2
    DEF Register, OpenSession, ReadAnswer, ReadListing, EndOfFile, Kill, Finish
  <2> QED
    BY <2>1, <2>2
<1>4. /\ \A n \in 1 .. Len(server_pipe) : Past(server_pipe[n].client)
      /\ \A e \in Elements : requests[e].client # None => Past(requests[e].client)
  BY DEF AskedOnce
<1>5. CASE ~Register(c)
  <2>1. server_pipe' = server_pipe
    BY <1>5 DEF Start, OpenSession, ReadAnswer, ReadListing, EndOfFile, Kill, inlet
  <2> HIDE DEF Past
  <2> QED
    BY <1>2, <1>3, <1>4, <2>1, Askers DEF AskedOnce
<1>6. CASE Register(c)
  <2>1. PICK r : r.client = c /\ server_pipe' = Append(server_pipe, r)
    BY <1>6 DEF Register
  <2>2. at[c] = "starting" /\ at'[c] = "asking" /\ life' = life
    BY <1>1, <1>6 DEF Register
  <2>3. life'[c] = 1 /\ at'[c] # "starting"
    <3>1. life[c] > 0 /\ life[c] <= 1 /\ life[c] \in Int
      BY <1>1, <2>2, Bounds DEF Fresh, RunOnce
    <3> QED
      BY <2>2, <3>1
  <2>4. /\ Len(server_pipe') = Len(server_pipe) + 1 /\ Len(server_pipe) \in Nat
        /\ server_pipe'[Len(server_pipe) + 1] = r
        /\ \A n \in 1 .. Len(server_pipe) : server_pipe'[n] = server_pipe[n]
    BY <2>1, Askers
  <2>5. /\ \A n \in 1 .. Len(server_pipe) : server_pipe[n].client # c
        /\ \A e \in Elements : requests[e].client # c
    BY <1>4, <2>2, Askers
  <2>6. ASSUME NEW n \in 1 .. Len(server_pipe')
        PROVE  LET d == server_pipe'[n].client
               IN  /\ life'[d] = 1 /\ at'[d] # "starting"
                   /\ \A m \in 1 .. Len(server_pipe') : m # n => server_pipe'[m].client # d
                   /\ \A e \in Elements' : requests'[e].client # d
    <3>1. CASE n = Len(server_pipe) + 1
      BY <1>2, <2>1, <2>3, <2>4, <2>5, <3>1
    <3>2. CASE n # Len(server_pipe) + 1
      <4>1. n \in 1 .. Len(server_pipe) /\ server_pipe'[n] = server_pipe[n]
        BY <2>4, <3>2
      <4> DEFINE d == server_pipe[n].client
      <4>2. life'[d] = 1 /\ at'[d] # "starting"
        BY <1>3, <1>4, <4>1, Askers
      <4>3. \A e \in Elements' : requests'[e].client # d
        BY <1>2, <4>1 DEF AskedOnce
      <4>4. ASSUME NEW m \in 1 .. Len(server_pipe'), m # n PROVE server_pipe'[m].client # d
        <5>1. CASE m = Len(server_pipe) + 1
          BY <2>1, <2>4, <2>5, <4>1, <5>1
        <5>2. CASE m # Len(server_pipe) + 1
          <6>1. m \in 1 .. Len(server_pipe) /\ server_pipe'[m] = server_pipe[m]
            BY <2>4, <5>2
          <6> QED
            BY <4>1, <4>4, <6>1 DEF AskedOnce
        <5> QED
          BY <5>1, <5>2
      <4> QED
        BY <4>1, <4>2, <4>3, <4>4
    <3> QED
      BY <3>1, <3>2
  <2>7. ASSUME NEW e \in Elements', requests'[e].client # None
        PROVE  LET d == requests'[e].client
               IN  /\ life'[d] = 1 /\ at'[d] # "starting"
                   /\ \A k \in Elements' : k # e => requests'[k].client # d
    <3>1. requests[e].client \in Clients /\ Past(requests[e].client)
      BY <1>2, <1>4, <2>7, Askers
    <3>2. life'[requests[e].client] = 1 /\ at'[requests[e].client] # "starting"
      BY <1>3, <3>1
    <3> QED
      BY <1>2, <2>7, <3>2 DEF AskedOnce
  <2> QED
    BY <2>6, <2>7 DEF AskedOnce
<1> QED
  BY <1>5, <1>6

(* main takes a request out of the pipe where it reads it. *)
LEMMA AskedRead ==
  ASSUME Typed, AskedOnce, ReadRequest
  PROVE  AskedOnce'
<1>1. PICK whole \in 0 .. Len(server_pipe) :
        /\ server_pipe # <<>>
        /\ requests' = Append(requests, IF consumed = 0 THEN Head(server_pipe) ELSE Garbled)
        /\ server_pipe' = SubSeq(server_pipe, whole + 1, Len(server_pipe))
        /\ consumed' \in 0 .. REQUEST_LENGTH - 1
        /\ main_at' = "count"
        /\ consumed = 0 => whole > 0
  BY ReadRequestForm
<1>2. UNCHANGED <<at, life>>
  BY DEF ReadRequest, clients
<1>3. \A n \in 1 .. Len(server_pipe') :
        n + whole \in 1 .. Len(server_pipe) /\ server_pipe'[n] = server_pipe[n + whole]
  BY <1>1, Askers
<1> DEFINE r == IF consumed = 0 THEN server_pipe[1] ELSE Garbled
           new == Len(requests) + 1
<1>4. /\ requests' = Append(requests, r) /\ new \notin Elements
      /\ Elements' = Elements \cup {new} /\ requests'[new] = r
      /\ \A e \in Elements : requests'[e] = requests[e]
  <2>1. Head(server_pipe) = server_pipe[1]
    BY <1>1, Askers
  <2>2. requests' = Append(requests, r)
    BY <1>1, <2>1
  <2>3. /\ Len(requests') = new /\ requests'[new] = r
        /\ \A e \in 1 .. Len(requests) : requests'[e] = requests[e]
    BY <2>2, Askers
  <2> QED
    BY <2>2, <2>3, Askers DEF Elements
<1>5. r.client = None \/ (r = server_pipe[1] /\ whole > 0 /\ 1 \in 1 .. Len(server_pipe))
  BY <1>1, Askers DEF Garbled
<1>6. \A n \in 1 .. Len(server_pipe') :
        r.client # server_pipe'[n].client /\ server_pipe'[n].client # None
  <2> TAKE n \in 1 .. Len(server_pipe')
  <2>1. server_pipe'[n].client \in Clients
    BY <1>3, Askers
  <2>2. r = server_pipe[1] /\ whole > 0 /\ 1 \in 1 .. Len(server_pipe)
          => r.client # server_pipe'[n].client
    <3>1. whole > 0 => n + whole # 1
      OBVIOUS
    <3> QED
      BY <1>3, <3>1 DEF AskedOnce
  <2> HIDE DEF r
  <2> QED
    BY <1>5, <2>1, <2>2, Askers
<1>7. r.client # None =>
        /\ life[r.client] = 1 /\ at[r.client] # "starting"
        /\ \A e \in Elements : requests[e].client # r.client
  BY <1>5 DEF AskedOnce
<1> HIDE DEF r, new
<1>8. ASSUME NEW n \in 1 .. Len(server_pipe')
      PROVE  LET c == server_pipe'[n].client
             IN  /\ life'[c] = 1 /\ at'[c] # "starting"
                 /\ \A m \in 1 .. Len(server_pipe') : m # n => server_pipe'[m].client # c
                 /\ \A e \in Elements' : requests'[e].client # c
  <2>1. n + whole \in 1 .. Len(server_pipe) /\ server_pipe'[n] = server_pipe[n + whole]
    BY <1>3
  <2>2. ASSUME NEW m \in 1 .. Len(server_pipe'), m # n
        PROVE  server_pipe'[m].client # server_pipe'[n].client
    <3>1. m + whole # n + whole
      BY <2>2
    <3>2. m + whole \in 1 .. Len(server_pipe) /\ server_pipe'[m] = server_pipe[m + whole]
      BY <1>3
    <3>3. \A i, j \in 1 .. Len(server_pipe) : i # j => server_pipe[i].client # server_pipe[j].client
      BY DEF AskedOnce
    <3> QED
      BY <2>1, <3>1, <3>2, <3>3
  <2>3. \A e \in Elements' : requests'[e].client # server_pipe'[n].client
    <3>1. \A e \in Elements : requests[e].client # server_pipe'[n].client
      BY <2>1 DEF AskedOnce
    <3>2. r.client # server_pipe'[n].client
      BY <1>6
    <3> QED
      BY <1>4, <3>1, <3>2
  <2>4. life[server_pipe'[n].client] = 1 /\ at[server_pipe'[n].client] # "starting"
    BY <2>1 DEF AskedOnce
  <2> QED
    BY <1>2, <2>2, <2>3, <2>4
<1>9. ASSUME NEW e \in Elements', requests'[e].client # None
      PROVE  LET c == requests'[e].client
             IN  /\ life'[c] = 1 /\ at'[c] # "starting"
                 /\ \A d \in Elements' : d # e => requests'[d].client # c
  <2>1. CASE e = new
    BY <1>2, <1>4, <1>7, <1>9, <2>1
  <2>2. CASE e # new
    <3>1. e \in Elements /\ requests'[e] = requests[e]
      BY <1>4, <2>2
    <3>2. /\ life[requests[e].client] = 1 /\ at[requests[e].client] # "starting"
          /\ \A d \in Elements : d # e => requests[d].client # requests[e].client
      BY <1>9, <3>1 DEF AskedOnce
    <3>3. r.client # requests[e].client
      BY <1>7, <1>9, <3>1
    <3> QED
      BY <1>2, <1>4, <3>1, <3>2, <3>3
  <2> QED
    BY <2>1, <2>2
<1> QED
  BY <1>8, <1>9 DEF AskedOnce

(* Every step keeps requests single. *)
LEMMA AskedNext ==
  Typed /\ Fresh /\ (RunOnce => AskedOnce) /\ [Next]_vars => (RunOnce => AskedOnce)'
<1> SUFFICES ASSUME Typed, Fresh, RunOnce => AskedOnce, [Next]_vars, RunOnce'
             PROVE  AskedOnce'
  OBVIOUS
<1>1. RunOnce /\ AskedOnce
  BY RanOnce
<1>2. CASE UNCHANGED vars
  BY <1>1, <1>2, AskedSame DEF vars, clients, inlet
<1>3. CASE EnqReserve \/ EnqFreeOld \/ EnqStore
  BY <1>1, <1>3, AskedSame DEF EnqReserve, EnqFreeOld, EnqStore, clients
<1>4. ASSUME NEW w \in Workers,
              \/ DeqTake(w) \/ DeqLoad(w) \/ CopyRequest(w) \/ LookUp(w) \/ Opened(w)
              \/ CreateOpen(w) \/ CreateClose(w) \/ RemoveBox(w) \/ ListBox(w)
              \/ NotServed(w) \/ Answer(w)
      PROVE  AskedOnce'
  <2>1. UNCHANGED <<at, life, inlet>>
    BY <1>4 DEF DeqTake, DeqLoad, CopyRequest, LookUp, Opened, CreateOpen, CreateClose,
       RemoveBox, ListBox, NotServed, Answer, clients
  <2> QED
    BY <1>1, <2>1, AskedSame DEF inlet
<1> QED
  BY <1>1, <1>2, <1>3, <1>4, AskedClient, AskedRead, Steps

(* The element of a worker in a session is its client's request. *)
LEMMA SessionElement ==
  ASSUME Typed, Known, Copied, FirstLap, NEW w \in Holding
  PROVE  /\ w \in Workers /\ elem[w] \in Elements /\ session[w][1] \in Clients
         /\ requests[elem[w]].client = session[w][1]
         /\ requests[elem[w]].op = request[w].op
<1>1. w \in Workers /\ pc[w] \in HoldingPlaces
  BY DEF Holding, HoldingPlaces
<1>2. elem[w] \in Elements /\ session[w] \in Clients \X (1 .. MaxLives)
  BY <1>1 DEF Typed, TypeOK, Held, HoldingPlaces
<1>3. session[w][1] = request[w].client
  BY <1>1 DEF Known
<1>4. request[w].client = requests[elem[w]].client /\ requests[elem[w]].op = request[w].op
  BY <1>1 DEF Copied
<1> QED
  BY <1>1, <1>2, <1>3, <1>4

(* What was served stays served. *)
LEMMA ServedStays ==
  ASSUME Typed, NEW w \in Workers, WorkerStep(w), NEW e \in Elements, e \in Served
  PROVE  e \in Served'
<1>1. freed \subseteq freed'
  BY DEF WorkerStep, DeqTake, DeqLoad, CopyRequest, LookUp, Opened, CreateOpen, CreateClose,
     RemoveBox, ListBox, NotServed, Answer, EndRequest, Free, queue
<1>2. CASE e \in freed
  BY <1>1, <1>2 DEF Served
<1>3. ASSUME NEW v \in InSession, elem[v] = e PROVE e \in Served'
  <2>1. v \in Workers
    BY DEF InSession
  <2>2. CASE v # w
    <3>1. pc'[v] = pc[v] /\ elem'[v] = elem[v]
      BY <2>1, <2>2, OtherWorkers
    <3> QED
      BY <1>3, <3>1 DEF Served, InSession
  <2>3. CASE v = w /\ elem'[w] = elem[w] /\ w \in InSession'
    BY <1>3, <2>3 DEF Served
  <2>4. CASE v = w /\ EndRequest(w)
    <3>1. Free(e)
      BY <1>3, <2>4 DEF EndRequest
    <3>2. e # NULL
      BY Askers DEF Elements, NULL
    <3>3. e \in freed'
      BY <1>1, <3>1, <3>2 DEF Free
    <3> QED
      BY <3>3 DEF Served
  <2> QED
    BY <1>3, <2>2, <2>3, <2>4, SessionGoesOn
<1> QED
  BY <1>2, <1>3 DEF Served

(* What leaves the clients, and adds no request, leaves them waiting. *)
LEMMA WaitingSame ==
  ASSUME AllWaiting, UNCHANGED <<at, life, fifo, answers, met, server_pipe, requests>>,
         \A e \in Elements : e \in Served => e \in Served'
  PROVE  AllWaiting'
BY DEF AllWaiting, Waiting, Elements

(* A client's own steps keep another client waiting, and itself. *)
LEMMA WaitingClient ==
  ASSUME Typed, Fresh, AskedOnce, AllWaiting, RunOnce, RunOnce', NEW c \in Clients,
         \/ Start(c) \/ Register(c) \/ OpenSession(c) \/ ReadAnswer(c)
         \/ ReadListing(c) \/ EndOfFile(c) \/ Kill(c)
  PROVE  AllWaiting'
<1>1. /\ at \in [Clients -> {"away", "starting", "asking", "opening", "listing", "done"}]
      /\ life \in [Clients -> 0 .. MaxLives] /\ fifo \in [Clients -> 0 .. MaxLives]
  BY DEF Typed, TypeOK
<1>2. UNCHANGED <<requests, freed, pc, elem>>
  BY DEF Start, Register, OpenSession, ReadAnswer, ReadListing, EndOfFile, Kill, inlet, queue, pool
<1>3. Elements' = Elements /\ Served' = Served
  BY <1>2 DEF Elements, Served, InSession
<1>4. ASSUME NEW d \in Clients, d \in Waiting PROVE d \in Waiting'
  <2>1. CASE Start(c)
    <3>1. d # c
      <4>1. life'[c] = life[c] + 1 /\ life'[c] <= 1
        BY <1>1, <2>1 DEF Start, RunOnce
      <4> QED
        BY <1>4, <4>1 DEF Waiting
    <3> QED
      BY <1>1, <1>4, <2>1, <3>1 DEF Start, Waiting
  <2>2. CASE Register(c)
    <3>1. d # c
      BY <1>4, <2>2 DEF Register, Waiting
    <3> QED
      BY <1>1, <1>4, <2>2, <3>1 DEF Register, Waiting
  <2>3. CASE OpenSession(c)
    BY <1>1, <1>4, <2>3 DEF OpenSession, Waiting
  <2>4. CASE Kill(c)
    BY <1>1, <1>4, <2>4 DEF Kill, Waiting
  <2>5. CASE ReadAnswer(c) \/ ReadListing(c) \/ EndOfFile(c)
    <3>1. d # c
      BY <1>4, <2>5 DEF ReadAnswer, ReadListing, EndOfFile, Waiting
    <3>2. UNCHANGED <<life, met>> /\ answers'[d] = answers[d]
      BY <2>5, <3>1 DEF ReadAnswer, ReadListing, EndOfFile, Typed, TypeOK
    <3>3. at'[d] = at[d] /\ fifo'[d] = fifo[d]
      BY <1>1, <2>5, <3>1 DEF ReadAnswer, ReadListing, EndOfFile, Finish
    <3> QED
      BY <1>4, <3>2, <3>3 DEF Waiting
  <2> QED
    BY <2>1, <2>2, <2>3, <2>4, <2>5
<1>5. /\ \A n \in 1 .. Len(server_pipe) :
            server_pipe[n].client \in Clients /\ server_pipe[n].client \in Waiting
      /\ \A e \in Elements : requests[e].client # None /\ e \notin Served
            => requests[e].client \in Clients /\ requests[e].client \in Waiting
  BY Askers DEF AllWaiting
<1>6. \A e \in Elements' : requests'[e].client # None /\ e \notin Served'
            => requests'[e].client \in Waiting'
  BY <1>2, <1>3, <1>4, <1>5
<1>7. \A n \in 1 .. Len(server_pipe') : server_pipe'[n].client \in Waiting'
  <2>1. CASE ~Register(c)
    <3>1. server_pipe' = server_pipe
      BY <2>1 DEF Start, OpenSession, ReadAnswer, ReadListing, EndOfFile, Kill, inlet
    <3> QED
      BY <1>4, <1>5, <3>1
  <2>2. CASE Register(c)
    <3>1. PICK r : r.client = c /\ server_pipe' = Append(server_pipe, r)
      BY <2>2 DEF Register
    <3>2. c \in Waiting'
      <4>1. /\ at[c] = "starting" /\ at'[c] = "asking" /\ fifo'[c] = life[c]
            /\ UNCHANGED <<life, met, answers>>
        BY <1>1, <2>2 DEF Register
      <4>2. life[c] = 1 /\ ~met[c] /\ answers[c] = <<>>
        BY <1>1, <4>1, Bounds DEF Fresh, RunOnce
      <4> QED
        BY <4>1, <4>2 DEF Waiting
    <3> TAKE n \in 1 .. Len(server_pipe')
    <3>3. CASE n = Len(server_pipe) + 1
      BY <3>1, <3>2, <3>3, Askers
    <3>4. CASE n # Len(server_pipe) + 1
      <4>1. n \in 1 .. Len(server_pipe) /\ server_pipe'[n] = server_pipe[n]
        BY <3>1, <3>4, Askers
      <4> QED
        BY <1>4, <1>5, <4>1
    <3> QED
      BY <3>3, <3>4
  <2> QED
    BY <2>1, <2>2
<1> QED
  BY <1>6, <1>7 DEF AllWaiting

(* main reads the request of a client that waits. *)
LEMMA WaitingRead ==
  ASSUME Typed, AllWaiting, ReadRequest
  PROVE  AllWaiting'
<1>1. PICK whole \in 0 .. Len(server_pipe) :
        /\ server_pipe # <<>>
        /\ requests' = Append(requests, IF consumed = 0 THEN Head(server_pipe) ELSE Garbled)
        /\ server_pipe' = SubSeq(server_pipe, whole + 1, Len(server_pipe))
        /\ consumed' \in 0 .. REQUEST_LENGTH - 1
        /\ main_at' = "count"
        /\ consumed = 0 => whole > 0
  BY ReadRequestForm
<1>2. UNCHANGED <<clients, freed, pc, elem>>
  BY DEF ReadRequest, queue, pool
<1>3. \A n \in 1 .. Len(server_pipe') :
        n + whole \in 1 .. Len(server_pipe) /\ server_pipe'[n] = server_pipe[n + whole]
  BY <1>1, Askers
<1>4. Served' = Served /\ Waiting' = Waiting
  BY <1>2 DEF Served, InSession, Waiting, clients
<1>5. \A n \in 1 .. Len(server_pipe') : server_pipe'[n].client \in Waiting'
  BY <1>3, <1>4 DEF AllWaiting
<1>6. ASSUME NEW e \in Elements', requests'[e].client # None, e \notin Served'
      PROVE  requests'[e].client \in Waiting'
  <2>1. CASE e \in Elements
    <3>1. requests'[e] = requests[e]
      BY <1>1, <2>1, Askers DEF Elements
    <3> QED
      BY <1>4, <1>6, <2>1, <3>1 DEF AllWaiting
  <2>2. CASE e \notin Elements
    <3>1. e = Len(requests) + 1
      <4>1. Len(requests') = Len(requests) + 1
        BY <1>1, Askers
      <4> QED
        BY <2>2, <4>1, Askers DEF Elements
    <3>2. requests'[e] = IF consumed = 0 THEN Head(server_pipe) ELSE Garbled
      BY <1>1, <3>1, Askers
    <3>3. Garbled.client = None
      BY DEF Garbled
    <3>4. consumed = 0
      BY <1>6, <3>2, <3>3
    <3>5. Head(server_pipe) = server_pipe[1] /\ 1 \in 1 .. Len(server_pipe)
      BY <1>1, Askers
    <3> QED
      BY <1>4, <3>2, <3>4, <3>5 DEF AllWaiting
  <2> QED
    BY <2>1, <2>2
<1> QED
  BY <1>5, <1>6 DEF AllWaiting

(* A worker opens, or answers through, its own client's pipe only. *)
LEMMA WaitingWorker ==
  ASSUME Typed, Known, Copied, FirstLap, AskedOnce, AllWaiting,
         NEW w \in Workers, WorkerStep(w)
  PROVE  AllWaiting'
<1>1. UNCHANGED <<at, life, fifo, server_pipe, requests>>
  BY DEF WorkerStep, DeqTake, DeqLoad, CopyRequest, LookUp, Opened, CreateOpen, CreateClose,
     RemoveBox, ListBox, NotServed, Answer, clients, inlet
<1>2. \A e \in Elements : e \in Served => e \in Served'
  BY ServedStays
<1>3. CASE UNCHANGED <<answers, met>>
  BY <1>1, <1>2, <1>3, WaitingSame
<1>4. CASE Opened(w) \/ Answer(w)
  <2> DEFINE c == session[w][1]
  <2>1. w \in Holding
    BY <1>4 DEF Opened, Answer, GoTo, Holding
  <2>2. elem[w] \in Elements /\ c \in Clients /\ requests[elem[w]].client = c /\ c # None
    BY <2>1, SessionElement, Askers
  <2>3. \A d \in Clients : d # c => answers'[d] = answers[d] /\ met'[d] = met[d]
    BY <1>4 DEF Opened, Answer, Typed, TypeOK
  <2>4. elem[w] \in Served'
    <3>1. CASE Opened(w)
      <4>1. pc'[w] = "serve" /\ elem' = elem
        BY <3>1 DEF Opened, GoTo, Typed, TypeOK
      <4> QED
        BY <4>1 DEF Served, InSession
    <3>2. CASE Answer(w)
      <4>1. w \in InSession
        BY <3>2 DEF Answer, InSession
      <4> QED
        BY <1>2, <2>2, <4>1 DEF Served
    <3> QED
      BY <1>4, <3>1, <3>2
  <2> HIDE DEF c
  <2>5. ASSUME NEW d \in Clients, d # c, d \in Waiting PROVE d \in Waiting'
    BY <1>1, <2>3, <2>5 DEF Waiting
  <2>6. ASSUME NEW n \in 1 .. Len(server_pipe') PROVE server_pipe'[n].client \in Waiting'
    <3>1. server_pipe[n].client # c
      BY <1>1, <2>2 DEF AskedOnce
    <3> QED
      BY <1>1, <2>5, <3>1, Askers DEF AllWaiting
  <2>7. ASSUME NEW e \in Elements', requests'[e].client # None, e \notin Served'
        PROVE  requests'[e].client \in Waiting'
    <3>1. e \in Elements /\ requests' = requests
      BY <1>1 DEF Elements
    <3>2. e # elem[w]
      BY <2>4, <2>7
    <3>3. requests[e].client # c
      BY <2>2, <3>1, <3>2 DEF AskedOnce
    <3>4. requests[e].client \in Waiting
      BY <1>2, <2>7, <3>1 DEF AllWaiting
    <3> QED
      BY <2>5, <2>7, <3>1, <3>3, <3>4, Askers
  <2> QED
    BY <2>6, <2>7 DEF AllWaiting
<1> QED
  BY <1>3, <1>4 DEF WorkerStep, DeqTake, DeqLoad, CopyRequest, LookUp, CreateOpen, CreateClose,
     RemoveBox, ListBox, NotServed, clients

(* Every step keeps clients that run once waiting. *)
LEMMA OnceNext ==
  Typed /\ Known /\ FirstLapHeld /\ OnceHeld /\ [Next]_vars => OnceHeld'
<1> SUFFICES ASSUME Typed, Known, FirstLapHeld, OnceHeld, [Next]_vars PROVE OnceHeld'
  OBVIOUS
<1>1. Fresh' /\ Copied' /\ (RunOnce' => AskedOnce')
  BY FreshNext, CopiedNext, AskedNext DEF OnceHeld
<1>2. ASSUME RunOnce', FirstLap' PROVE AllWaiting'
  <2>1. RunOnce /\ FirstLap /\ Fresh /\ Copied /\ AskedOnce /\ AllWaiting
    BY <1>2, RanOnce, WasFirstLap DEF OnceHeld
  <2>2. CASE UNCHANGED vars
    BY <2>1, <2>2, WaitingSame DEF vars, clients, inlet, queue, pool, Served, InSession
  <2>3. CASE EnqReserve \/ EnqFreeOld \/ EnqStore
    <3>1. UNCHANGED <<clients, server_pipe, requests, pool>> /\ freed \subseteq freed'
      BY <2>3 DEF EnqReserve, EnqFreeOld, EnqStore, Free
    <3>2. \A e \in Elements : e \in Served => e \in Served'
      BY <3>1 DEF Served, InSession, pool
    <3> QED
      BY <2>1, <3>1, <3>2, WaitingSame DEF clients
  <2>4. ASSUME NEW w \in Workers,
               \/ DeqTake(w) \/ DeqLoad(w) \/ CopyRequest(w) \/ LookUp(w) \/ Opened(w)
               \/ CreateOpen(w) \/ CreateClose(w) \/ RemoveBox(w) \/ ListBox(w)
               \/ NotServed(w) \/ Answer(w)
        PROVE  AllWaiting'
    BY <2>1, <2>4, WaitingWorker DEF WorkerStep
  <2> QED
    BY <1>2, <2>1, <2>2, <2>3, <2>4, WaitingClient, WaitingRead, Steps
<1> QED
  BY <1>1, <1>2 DEF OnceHeld

(* At first nobody has asked anything. *)
LEMMA InitOnce == Init => OnceHeld /\ DescriptorsCounted /\ ReadersHeld
<1> SUFFICES ASSUME Init PROVE OnceHeld /\ DescriptorsCounted /\ ReadersHeld
  OBVIOUS
<1>1. Elements = {} /\ Len(server_pipe) = 0 /\ Reserved = 0
  BY DEF Init, Elements, Reserved
<1>2. Holding = {} /\ InSession = {} /\ Taking = {}
  BY DEF Init, Holding, InSession, Taking
<1>3. IsFiniteSet(Taking) /\ Cardinality(Taking) = 0
  BY <1>2, FS_EmptySet
<1>4. DescriptorsCounted
  BY <1>1, <1>3 DEF Init, DescriptorsCounted
<1>5. Fresh /\ ReadersHeld
  BY <1>2 DEF Init, Fresh, ReadersHeld
<1>6. Copied
  BY <1>2 DEF Init, Copied
<1>7. AskedOnce /\ AllWaiting
  BY <1>1 DEF AskedOnce, AllWaiting
<1> QED
  BY <1>4, <1>5, <1>6, <1>7 DEF OnceHeld

(* All that is kept together. *)
Kept == Typed /\ Known /\ FirstLapHeld /\ OnceHeld /\ DescriptorsCounted

(* It is kept in every behaviour. *)
LEMMA AlwaysKept == Spec => []Kept
<1>1. Init => Kept
  BY InitTyped, InitKnown, InitFirstLap, InitOnce DEF Kept
<1>2. Kept /\ [Next]_vars => Kept'
  BY NextTyped, NextKnown, FirstLapNext, OnceNext, DescriptorsNext DEF Kept
<1> QED
  BY <1>1, <1>2, PTL DEF Spec

--------------------------------------------------------------------------------
(* No worker is lost *)

(* While what was asked is plain and there are descriptors enough, a worker that   *)
(* has copied a request finds its client's pipe.                                   *)
LEMMA PipeFound ==
  ASSUME Kept, FirstLap, RunOnce, Len(requests) <= MaxDescriptors,
         \A i \in 1 .. Len(requests) : requests[i].op # "garbled",
         NEW w \in Workers, pc[w] = "lookup"
  PROVE  ~CannotOpen(request[w].client)
<1> DEFINE c == request[w].client
<1>1. Typed /\ FirstLapHeld /\ OnceHeld /\ DescriptorsCounted
  BY DEF Kept
<1>2. elem[w] \in Elements
  BY <1>1 DEF Typed, TypeOK, Held
<1>3. c = requests[elem[w]].client
  BY <1>1 DEF OnceHeld, Copied
<1>4. c # None
  <2>1. requests[elem[w]] # Garbled
    <3>1. Garbled.op = "garbled"
      BY DEF Garbled
    <3> QED
      BY <1>2, <3>1 DEF Elements
  <2>2. requests[elem[w]] \in Requests
    BY <1>1, <1>2, <2>1, Askers DEF Elements
  <2>3. requests[elem[w]].client \in Clients
    BY <2>2 DEF Requests
  <2> QED
    BY <1>1, <1>3, <2>3, Askers
<1>5. elem[w] \notin Served
  <2>1. elem[w] \notin freed
    BY <1>1 DEF FirstLapHeld, Ring
  <2>2. ASSUME NEW v \in InSession PROVE elem[v] # elem[w]
    <3>1. v # w /\ v \in Workers
      BY DEF InSession
    <3>2. elem[w] # NULL
      BY <1>1, <1>2, Askers DEF Elements, NULL
    <3> QED
      BY <1>1, <3>1, <3>2 DEF FirstLapHeld, Ring
  <2> QED
    BY <2>1, <2>2 DEF Served
<1>6. fifo[c] # 0
  <2>1. AllWaiting
    BY <1>1 DEF OnceHeld
  <2>2. c \in Waiting
    BY <1>2, <1>3, <1>4, <1>5, <2>1 DEF AllWaiting
  <2> HIDE DEF c
  <2> QED
    BY <2>2 DEF Waiting
<1>7. descriptors # MaxDescriptors
  <2>1. Cardinality(Taking) > 0
    <3>1. w \in Taking /\ IsFiniteSet(Taking)
      BY <1>1 DEF Taking, DescriptorsCounted
    <3>2. Taking # {} /\ Cardinality(Taking) \in Nat
      BY <3>1, FS_CardinalityType
    <3> QED
      BY <3>1, <3>2, FS_EmptySet
  <2>2. /\ descriptors + Cardinality(Taking) + pcq_current_size <= Reserved
        /\ Cardinality(Taking) \in Nat
    BY <1>1, FS_CardinalityType DEF DescriptorsCounted
  <2>3. descriptors \in Nat
    BY <1>1, Bounds DEF Typed, TypeOK
  <2>4. pcq_current_size \in Nat /\ Reserved \in Nat /\ Reserved <= Len(requests)
    BY <1>1, RingNumbers
  <2> QED
    BY <1>1, <2>1, <2>2, <2>3, <2>4, Askers, Bounds
<1> QED
  BY <1>4, <1>6, <1>7 DEF CannotOpen

(* What main has read stays read. *)
LEMMA PlainBefore ==
  ASSUME Typed, [Next]_vars, Plain'
  PROVE  Plain /\ Len(requests) <= Len(requests') /\ Len(requests') \in Nat
<1>1. requests \in Seq(Requests \cup {Garbled}) /\ Len(requests) \in Nat
  BY Askers
<1>2. CASE requests' = requests
  BY <1>1, <1>2 DEF Plain
<1>3. CASE ReadRequest
  <2>1. PICK r : requests' = Append(requests, r)
    BY <1>3 DEF ReadRequest
  <2>2. /\ Len(requests') = Len(requests) + 1
        /\ \A i \in 1 .. Len(requests) : requests'[i] = requests[i]
    BY <1>1, <2>1
  <2>3. ASSUME NEW i \in 1 .. Len(requests)
        PROVE  requests[i].op \notin {"list", "garbled"}
    <3>1. i \in 1 .. Len(requests') /\ requests'[i] = requests[i]
      BY <1>1, <2>2
    <3> QED
      BY <3>1 DEF Plain
  <2> QED
    BY <1>1, <2>2, <2>3 DEF Plain
<1> QED
  BY <1>2, <1>3, RequestsGrow

(* Every step keeps the pool whole. *)
LEMMA PoolNext == Kept /\ PoolLoss /\ [Next]_vars => PoolLoss'
<1> SUFFICES ASSUME Kept, PoolLoss, [Next]_vars, FirstLap', RunOnce', Plain',
                    Len(requests') <= MaxDescriptors, NEW v \in Workers,
                    pc'[v] = "returned"
             PROVE  FALSE
  BY DEF PoolLoss
<1>1. Typed
  BY DEF Kept
<1>2. requests \in Seq(Requests \cup {Garbled}) /\ Len(requests) \in Nat
  BY <1>1, Askers
<1>3. FirstLap /\ RunOnce
  BY <1>1, WasFirstLap, RanOnce
<1>4. Plain /\ Len(requests) <= MaxDescriptors
  BY <1>1, <1>2, PlainBefore, Bounds
<1>5. pc[v] # "returned"
  BY <1>3, <1>4 DEF PoolLoss
<1>6. pc' # pc
  BY <1>5
<1>7. PICK w \in Workers : WorkerStep(w)
  <2>1. ASSUME NEW c \in Clients,
               \/ Start(c) \/ Register(c) \/ OpenSession(c) \/ ReadAnswer(c)
               \/ ReadListing(c) \/ EndOfFile(c) \/ Kill(c)
        PROVE  pc' = pc
    BY <2>1 DEF Start, Register, OpenSession, ReadAnswer, ReadListing, EndOfFile, Kill, pool
  <2>2. ReadRequest \/ EnqReserve \/ EnqFreeOld \/ EnqStore => pc' = pc
    BY DEF ReadRequest, EnqReserve, EnqFreeOld, EnqStore, pool
  <2>3. UNCHANGED vars => pc' = pc
    BY DEF vars, pool
  <2> QED
    BY <1>6, <2>1, <2>2, <2>3, Steps DEF WorkerStep
<1>8. v = w
  BY <1>1, <1>5, <1>7, OtherWorkers
<1>9. pc \in [Workers -> {"dequeue", "load", "copy", "lookup", "open", "serve", "close",
                          "answer", "returned"}]
  BY <1>1 DEF Typed, TypeOK
<1>10. LookUp(w) /\ CannotOpen(request[w].client) /\ pc[w] = "lookup"
  <2>1. CASE DeqTake(w) \/ DeqLoad(w) \/ CopyRequest(w) \/ Opened(w)
    BY <1>5, <1>8, <1>9, <2>1 DEF DeqTake, DeqLoad, CopyRequest, Opened, GoTo
  <2>2. CASE CreateOpen(w) \/ CreateClose(w) \/ RemoveBox(w) \/ ListBox(w)
    BY <1>5, <1>8, <1>9, <2>2 DEF CreateOpen, CreateClose, RemoveBox, ListBox, GoTo
  <2>3. CASE EndRequest(w)
    BY <1>5, <1>8, <1>9, <2>3 DEF EndRequest
  <2>4. CASE NotServed(w) \/ Answer(w)
    BY <1>6, <2>3, <2>4 DEF NotServed, Answer, pool
  <2>5. CASE LookUp(w)
    BY <1>5, <1>8, <1>9, <2>5 DEF LookUp, GoTo
  <2> QED
    BY <1>7, <2>1, <2>2, <2>4, <2>5 DEF WorkerStep
<1>11. \A i \in 1 .. Len(requests) : requests[i].op # "garbled"
  BY <1>4 DEF Plain
<1> QED
  BY <1>3, <1>4, <1>10, <1>11, PipeFound

(* PoolLoss: where no client runs twice and none lists, while there are descriptors*)
(* and the first lap lasts, every worker finds the pipe of each client it is given,*)
(* killed or not, in whatever order requests, opens and answers follow each other. *)
THEOREM PoolKept == Spec => []PoolLoss
<1>1. Init => PoolLoss
  BY DEF Init, PoolLoss
<1> QED
  BY <1>1, AlwaysKept, PoolNext, PTL DEF Spec

--------------------------------------------------------------------------------
(* What ends the broker *)

(* No two workers serve the same client. *)
LEMMA OwnClients ==
  ASSUME Kept, FirstLap, RunOnce, NEW v \in Holding, NEW w \in Holding, v # w
  PROVE  session[v][1] # session[w][1]
<1>1. Typed /\ Known /\ FirstLapHeld /\ Copied /\ AskedOnce
  BY DEF Kept, OnceHeld
<1>2. /\ v \in Workers /\ elem[v] \in Elements /\ session[v][1] \in Clients
      /\ requests[elem[v]].client = session[v][1]
      /\ w \in Workers /\ elem[w] \in Elements
      /\ requests[elem[w]].client = session[w][1]
  BY <1>1, SessionElement
<1>3. elem[v] # elem[w]
  <2>1. elem[w] # NULL
    BY <1>1, <1>2, Askers DEF Elements, NULL
  <2> QED
    BY <1>1, <1>2, <2>1 DEF FirstLapHeld, Ring
<1>4. session[v][1] # None
  BY <1>1, <1>2, Askers
<1> QED
  BY <1>1, <1>2, <1>3, <1>4 DEF AskedOnce

(* A broker that has died stays so, and a client that was killed counts. *)
LEMMA NotYet ==
  ASSUME Typed, [Next]_vars
  PROVE  (~crashed' => ~crashed) /\ (kills' = 0 => kills = 0)
<1>1. kills \in Nat
  BY Bounds DEF Typed, TypeOK
<1>2. CASE UNCHANGED vars
  BY <1>2 DEF vars, clients
<1>3. ASSUME NEW c \in Clients,
             \/ Start(c) \/ Register(c) \/ OpenSession(c) \/ ReadAnswer(c)
             \/ ReadListing(c) \/ EndOfFile(c) \/ Kill(c)
      PROVE  (~crashed' => ~crashed) /\ (kills' = 0 => kills = 0)
  BY <1>1, <1>3 DEF Start, Register, OpenSession, ReadAnswer, ReadListing, EndOfFile, Kill
<1>4. CASE ReadRequest \/ EnqReserve \/ EnqFreeOld \/ EnqStore
  BY <1>4 DEF ReadRequest, EnqReserve, EnqFreeOld, EnqStore, clients
<1>5. ASSUME NEW w \in Workers,
              \/ DeqTake(w) \/ DeqLoad(w) \/ CopyRequest(w) \/ LookUp(w) \/ Opened(w)
              \/ CreateOpen(w) \/ CreateClose(w) \/ RemoveBox(w) \/ ListBox(w)
              \/ NotServed(w) \/ Answer(w)
      PROVE  (~crashed' => ~crashed) /\ (kills' = 0 => kills = 0)
  BY <1>5 DEF DeqTake, DeqLoad, CopyRequest, LookUp, Opened, CreateOpen, CreateClose,
     RemoveBox, ListBox, NotServed, Answer, clients
<1> QED
  BY <1>2, <1>3, <1>4, <1>5, Steps

(* Every step leaves a served client where it waits for its answer, or killed. *)
LEMMA ReadersNext == Kept /\ ReadersHeld /\ [Next]_vars => ReadersHeld'
<1> SUFFICES ASSUME Kept, ReadersHeld, [Next]_vars, RunOnce', FirstLap', ~crashed',
                    NEW v \in InSession'
             PROVE  Attended(v)'
  BY DEF ReadersHeld
<1> DEFINE c == session[v][1]
<1>1. Typed /\ Known /\ FirstLapHeld /\ Copied
  BY DEF Kept, OnceHeld
<1>2. RunOnce /\ FirstLap /\ ~crashed
  BY <1>1, RanOnce, WasFirstLap, NotYet
<1>3. \A w \in InSession : Attended(w)
  BY <1>2 DEF ReadersHeld
<1>4. v \in Workers /\ Typed'
  BY <1>1, NextTyped DEF InSession
<1>5. at \in [Clients -> {"away", "starting", "asking", "opening", "listing", "done"}]
      /\ life \in [Clients -> 0 .. MaxLives] /\ answers \in [Clients -> Seq(Results)]
  BY <1>1 DEF Typed, TypeOK
<1>6. CASE UNCHANGED <<at, life, kills, answers, session, pc>>
  BY <1>3, <1>6 DEF Attended, InSession
<1>7. ASSUME NEW d \in Clients,
             \/ Start(d) \/ Register(d) \/ OpenSession(d) \/ ReadAnswer(d)
             \/ ReadListing(d) \/ EndOfFile(d) \/ Kill(d)
      PROVE  Attended(v)'
  <2>1. UNCHANGED <<pc, session, leaked, crashed>>
    BY <1>7 DEF Start, Register, OpenSession, ReadAnswer, ReadListing, EndOfFile, Kill, pool
  <2>2. v \in InSession /\ Attended(v)
    BY <1>3, <2>1 DEF InSession
  <2>3. c \in Clients /\ session[v] = <<c, life[c]>> /\ life[c] = 1
    <3>1. v \in Holding /\ session[v] \in Clients \X (1 .. MaxLives)
      BY <1>1, <2>2 DEF InSession, Holding, Typed, TypeOK, Held
    <3>2. life[c] \in 1 .. MaxLives /\ session[v] = <<c, life[c]>> /\ c \in Clients
      BY <2>2, <3>1 DEF Attended
    <3> QED
      BY <1>2, <3>2, Bounds DEF RunOnce
  <2>4. /\ c \notin Publishers /\ life[c] = session[v][2] /\ answers[c] = <<>>
        /\ at[c] \in {"opening", "listing"} \/ (at[c] = "away" /\ kills > 0)
    BY <2>2 DEF Attended
  <2>5. session'[v][1] = c /\ session'[v][2] = life[c]
    BY <2>1, <2>4
  <2> HIDE DEF c
  <2>6. kills \in Nat
    BY <1>1, Bounds DEF Typed, TypeOK
  <2>7. CASE Kill(c)
    <3>1. UNCHANGED <<life, answers>> /\ at'[c] = "away" /\ kills' > 0
      BY <1>5, <2>3, <2>6, <2>7 DEF Kill
    <3> QED
      BY <2>4, <2>5, <3>1 DEF Attended
  <2>8. CASE d # c
    <3>1. at'[c] = at[c] /\ life'[c] = life[c] /\ answers'[c] = answers[c]
      BY <1>5, <1>7, <2>3, <2>8
      DEF Start, Register, OpenSession, ReadAnswer, ReadListing, EndOfFile, Kill, Finish
    <3>2. kills > 0 => kills' > 0
      BY <1>7, <2>6 DEF Start, Register, OpenSession, ReadAnswer, ReadListing, EndOfFile, Kill
    <3> QED
      BY <2>4, <2>5, <3>1, <3>2 DEF Attended
  <2>9. d = c => Kill(c)
    <3>1. ~EndOfFile(c)
      <4>1. HasWriter(c)
        BY <1>2, <2>2, <2>3 DEF HasWriter
      <4> QED
        BY <4>1 DEF EndOfFile
    <3>2. ~Start(c)
      <4>1. Start(c) => life'[c] = 2
        BY <1>5, <2>3 DEF Start
      <4> QED
        BY <2>3, <4>1 DEF RunOnce
    <3>3. ~(Register(c) \/ OpenSession(c))
      BY <2>4 DEF Register, OpenSession
    <3>4. ~(ReadAnswer(c) \/ ReadListing(c))
      BY <2>4 DEF ReadAnswer, ReadListing
    <3> QED
      BY <1>7, <3>1, <3>2, <3>3, <3>4
  <2> QED
    BY <2>7, <2>8, <2>9
<1>8. CASE ReadRequest \/ EnqReserve \/ EnqFreeOld \/ EnqStore
  BY <1>6, <1>8 DEF ReadRequest, EnqReserve, EnqFreeOld, EnqStore, clients, pool
<1>9. ASSUME NEW w \in Workers, WorkerStep(w)
      PROVE  Attended(v)'
  <2>1. UNCHANGED <<at, life, kills>>
    BY <1>9 DEF WorkerStep, DeqTake, DeqLoad, CopyRequest, LookUp, Opened, CreateOpen,
       CreateClose, RemoveBox, ListBox, NotServed, Answer, clients
  <2>2. answers' = answers \/ (Answer(w) /\ w \in InSession)
    BY <1>9 DEF WorkerStep, DeqTake, DeqLoad, CopyRequest, LookUp, Opened, CreateOpen,
       CreateClose, RemoveBox, ListBox, NotServed, Answer, clients, InSession
  <2>3. CASE v # w
    <3>1. session'[v] = session[v] /\ v \in InSession
      BY <1>1, <1>4, <1>9, <2>3, OtherWorkers DEF InSession
    <3>2. answers'[c] = answers[c]
      <4>1. CASE Answer(w) /\ w \in InSession
        <5>1. v \in Holding /\ w \in Holding
          BY <3>1, <4>1 DEF Holding, InSession
        <5>2. c # session[w][1]
          BY <1>2, <2>3, <5>1, OwnClients
        <5>3. c \in Clients
          BY <1>1, <1>2, <5>1, SessionElement
        <5> QED
          BY <1>5, <4>1, <5>2, <5>3 DEF Answer
      <4> QED
        BY <2>2, <4>1
    <3> QED
      BY <1>3, <2>1, <3>1, <3>2 DEF Attended
  <2>4. CASE v = w /\ w \in InSession
    <3>1. session'[w] = session[w] /\ answers' = answers
      <4>1. ~EndRequest(w)
        BY <1>1, <2>4 DEF EndRequest, InSession, Typed, TypeOK
      <4>2. ~Answer(w)
        BY <4>1 DEF Answer
      <4> QED
        BY <1>1, <1>9, <2>2, <2>4, <4>1, <4>2, SessionGoesOn
    <3> QED
      BY <1>3, <2>1, <2>4, <3>1 DEF Attended
  <2>5. CASE v = w /\ w \notin InSession
    <3>1. Opened(w)
      <4>1. pc'[w] \in {"serve", "close", "answer"} /\ pc[w] \notin {"serve", "close", "answer"}
        BY <2>5 DEF InSession
      <4>2. pc \in [Workers -> {"dequeue", "load", "copy", "lookup", "open", "serve", "close",
                                "answer", "returned"}]
        BY <1>1 DEF Typed, TypeOK
      <4>3. ~(DeqTake(w) \/ DeqLoad(w) \/ CopyRequest(w) \/ LookUp(w))
        BY <4>1, <4>2 DEF DeqTake, DeqLoad, CopyRequest, LookUp, GoTo
      <4>4. ~(CreateOpen(w) \/ CreateClose(w) \/ RemoveBox(w) \/ ListBox(w) \/ NotServed(w)
              \/ Answer(w))
        BY <4>1 DEF CreateOpen, CreateClose, RemoveBox, ListBox, NotServed, Answer, GoTo
      <4> QED
        BY <1>9, <4>3, <4>4 DEF WorkerStep
    <3>2. HasReader(session[w]) /\ session' = session /\ answers' = answers
      BY <3>1 DEF Opened, ReaderCame
    <3>3. answers[session[w][1]] = <<>>
      <4>1. w \in Holding
        BY <3>1 DEF Opened, GoTo, Holding
      <4>2. /\ elem[w] \in Elements /\ session[w][1] \in Clients
            /\ requests[elem[w]].client = session[w][1] /\ session[w][1] # None
        BY <1>1, <1>2, <4>1, SessionElement, Askers
      <4>3. elem[w] \notin Served
        <5>1. elem[w] \notin freed
          BY <1>1, <1>2 DEF FirstLapHeld, Ring
        <5>2. ASSUME NEW u \in InSession PROVE elem[u] # elem[w]
          <6>1. u # w /\ u \in Workers
            BY <2>5 DEF InSession
          <6>2. elem[w] # NULL
            BY <1>1, <4>2, Askers DEF Elements, NULL
          <6> QED
            BY <1>1, <1>2, <6>1, <6>2 DEF FirstLapHeld, Ring
        <5> QED
          BY <5>1, <5>2 DEF Served
      <4>4. session[w][1] \in Waiting
        <5>1. AllWaiting
          BY <1>2 DEF Kept, OnceHeld
        <5> QED
          BY <4>2, <4>3, <5>1 DEF AllWaiting
      <4> QED
        BY <4>4 DEF Waiting
    <3> QED
      BY <2>1, <2>5, <3>2, <3>3 DEF HasReader, Reading, Attended
  <2> QED
    BY <2>3, <2>4, <2>5
<1>10. CASE UNCHANGED vars
  BY <1>6, <1>10 DEF vars, clients, pool
<1> QED
  BY <1>7, <1>8, <1>9, <1>10, Steps DEF WorkerStep

(* Every step that ends the broker is a worker's that loaded nothing. *)
LEMMA CrashNext == Kept /\ ReadersHeld /\ CrashExplained /\ [Next]_vars => CrashExplained'
<1> SUFFICES ASSUME Kept, ReadersHeld, CrashExplained, [Next]_vars, crashed', FirstLap',
                    RunOnce', kills' = 0
             PROVE  \E w \in Workers : pc'[w] = "copy" /\ elem'[w] = NULL
  BY DEF CrashExplained
<1>1. Typed /\ FirstLapHeld
  BY DEF Kept
<1>2. RunOnce /\ FirstLap /\ kills = 0 /\ Ring
  BY <1>1, RanOnce, WasFirstLap, NotYet DEF FirstLapHeld
<1>3. CASE UNCHANGED <<pc, elem>> /\ crashed
  BY <1>2, <1>3 DEF CrashExplained
<1>4. ASSUME NEW c \in Clients,
             \/ Start(c) \/ Register(c) \/ OpenSession(c) \/ ReadAnswer(c)
             \/ ReadListing(c) \/ EndOfFile(c) \/ Kill(c)
      PROVE  UNCHANGED <<pc, elem>> /\ crashed
  BY <1>4 DEF Start, Register, OpenSession, ReadAnswer, ReadListing, EndOfFile, Kill, pool
<1>5. ~(ReadRequest \/ EnqReserve \/ EnqFreeOld \/ EnqStore)
  <2>1. ~EnqFreeOld
    <3> SUFFICES ASSUME EnqFreeOld PROVE FALSE
      OBVIOUS
    <3>1. main_at = "free" /\ Free(pcq_buffer[pcq_head]) /\ ~crashed
      BY DEF EnqFreeOld
    <3>2. Stored < Capacity /\ Stored \in Nat
      BY <1>1, <1>2, <3>1, RingNumbers, Bounds DEF Stored, FirstLap
    <3>3. pcq_head = Stored /\ Stored \in Slots
      BY <1>2, <3>2, AroundNext DEF Ring
    <3>4. pcq_buffer[pcq_head] = NULL
      BY <1>2, <3>2, <3>3 DEF Ring
    <3> QED
      BY <3>1, <3>4 DEF Free
  <2> QED
    BY <2>1 DEF ReadRequest, EnqReserve, EnqStore
<1>6. ASSUME NEW w \in Workers, EndRequest(w), ~crashed PROVE FALSE
  <2>1. elem[w] \notin freed /\ Free(elem[w])
    BY <1>2, <1>6 DEF EndRequest, Ring
  <2> QED
    BY <1>6, <2>1 DEF Free
<1>7. ASSUME NEW w \in Workers, WorkerStep(w) PROVE CopyRequest(w) /\ elem[w] = NULL
  <2>1. CASE CopyRequest(w)
    BY <2>1 DEF CopyRequest
  <2>2. ~Answer(w)
    <3> SUFFICES ASSUME Answer(w) PROVE FALSE
      OBVIOUS
    <3>1. w \in InSession /\ ~crashed
      BY DEF Answer, InSession
    <3>2. HasReader(session[w])
      BY <1>2, <3>1 DEF ReadersHeld, Attended, HasReader, Reading
    <3> QED
      BY <1>6, <3>1, <3>2 DEF Answer
  <2>3. ~NotServed(w)
    BY <1>6 DEF NotServed
  <2>4. ~(DeqTake(w) \/ DeqLoad(w) \/ LookUp(w) \/ Opened(w) \/ CreateOpen(w)
          \/ CreateClose(w) \/ RemoveBox(w) \/ ListBox(w))
    BY DEF DeqTake, DeqLoad, LookUp, Opened, CreateOpen, CreateClose, RemoveBox, ListBox
  <2> QED
    BY <1>7, <2>1, <2>2, <2>3, <2>4 DEF WorkerStep
<1>8. ASSUME NEW w \in Workers, WorkerStep(w)
      PROVE  \E u \in Workers : pc'[u] = "copy" /\ elem'[u] = NULL
  <2>1. pc[w] = "copy" /\ elem[w] = NULL /\ pc' = pc /\ elem' = elem
    BY <1>7, <1>8 DEF CopyRequest
  <2> QED
    BY <2>1
<1>9. CASE UNCHANGED vars
  BY <1>3, <1>9 DEF vars, pool
<1> QED
  BY <1>3, <1>4, <1>5, <1>8, <1>9, Steps DEF WorkerStep

(* CrashExplained: in the first lap, with no client killed or run twice, no answer *)
(* meets a closed pipe and nothing is freed twice; the broker dies only of a slot  *)
(* that main had counted and not yet stored.                                       *)
THEOREM CrashCause == Spec => []CrashExplained
<1>1. Init => ReadersHeld /\ CrashExplained
  BY InitOnce DEF Init, CrashExplained
<1> QED
  BY <1>1, AlwaysKept, ReadersNext, CrashNext, PTL DEF Spec

--------------------------------------------------------------------------------
(* Whom a worker waits for in open *)

(* No pipe in place or open is of a life to come, and who has gone was killed.     *)
LivesHeld ==
    /\ \A c \in Clients : fifo[c] <= life[c] /\ (at[c] = "away" => life[c] = 0 \/ kills > 0)
    /\ \A w \in Holding : session[w][2] <= life[session[w][1]]

(* A client's step. *)
LEMMA LivesClient ==
  ASSUME Typed, Typed', LivesHeld, NEW c \in Clients,
         \/ Start(c) \/ Register(c) \/ OpenSession(c) \/ ReadAnswer(c)
         \/ ReadListing(c) \/ EndOfFile(c) \/ Kill(c)
  PROVE  LivesHeld'
<1>1. /\ at \in [Clients -> {"away", "starting", "asking", "opening", "listing", "done"}]
      /\ life \in [Clients -> Nat] /\ fifo \in [Clients -> Nat] /\ kills \in Nat
  <2>1. 0 .. MaxLives \subseteq Nat /\ 0 .. MaxKills \subseteq Nat
    BY Bounds
  <2> QED
    BY SMTT(30), <2>1 DEF Typed, TypeOK
<1>2. \A d \in Clients : life'[d] \in Nat /\ life'[d] >= life[d]
  BY <1>1 DEF Start, Register, OpenSession, ReadAnswer, ReadListing, EndOfFile, Kill
<1>3. \A d \in Clients : fifo'[d] = fifo[d] \/ fifo'[d] = 0 \/ fifo'[d] = life'[d]
  BY <1>1 DEF Start, Register, OpenSession, ReadAnswer, ReadListing, EndOfFile, Kill, Finish
<1>4. \A d \in Clients : at'[d] = "away" => kills' > 0 \/ (at[d] = "away" /\ life'[d] = life[d])
  BY <1>1 DEF Start, Register, OpenSession, ReadAnswer, ReadListing, EndOfFile, Kill, Finish
<1>5. kills' \in Nat /\ kills' >= kills
  BY <1>1 DEF Start, Register, OpenSession, ReadAnswer, ReadListing, EndOfFile, Kill
<1>6. \A d \in Clients : fifo'[d] <= life'[d] /\ (at'[d] = "away" => life'[d] = 0 \/ kills' > 0)
  BY <1>1, <1>2, <1>3, <1>4, <1>5 DEF LivesHeld
<1>7. session' = session /\ Holding' = Holding
  BY DEF Start, Register, OpenSession, ReadAnswer, ReadListing, EndOfFile, Kill, pool, Holding
<1>8. ASSUME NEW w \in Holding PROVE session[w][2] <= life'[session[w][1]]
  <2>1. session[w] \in Clients \X (1 .. MaxLives)
    BY DEF Typed, TypeOK, Held, Holding
  <2>2. session[w][1] \in Clients /\ session[w][2] \in Nat
    BY <2>1, Bounds
  <2> QED
    BY <1>1, <1>2, <2>2 DEF LivesHeld
<1> QED
  BY <1>6, <1>7, <1>8 DEF LivesHeld

(* A worker opens the pipe that is in place. *)
LEMMA LivesWorker ==
  ASSUME Typed, LivesHeld, NEW w \in Workers, WorkerStep(w)
  PROVE  LivesHeld'
<1>1. UNCHANGED <<at, life, fifo, kills>>
  BY DEF WorkerStep, DeqTake, DeqLoad, CopyRequest, LookUp, Opened, CreateOpen, CreateClose,
     RemoveBox, ListBox, NotServed, Answer, clients
<1>2. /\ fifo \in [Clients -> Nat] /\ session \in [Workers -> (Clients \X (1 .. MaxLives)) \cup {NoSession}]
      /\ request \in [Workers -> Copies] /\ None \notin Clients
  BY Bounds, BrokerAssumption DEF Typed, TypeOK
<1>3. ASSUME NEW v \in Holding', v \in Holding, session'[v] = session[v]
      PROVE  session'[v][2] <= life'[session'[v][1]]
  BY <1>1, <1>3 DEF LivesHeld
<1>4. ASSUME NEW v \in Holding', LookUp(w)
      PROVE  session'[v][2] <= life'[session'[v][1]]
  <2> DEFINE c == request[w].client
  <2>1. CASE CannotOpen(c)
    <3>1. pc' = [pc EXCEPT ![w] = "returned"] /\ session' = session
      BY <1>4, <2>1 DEF LookUp, GoTo
    <3>2. v \in Holding
      BY <3>1, HoldingMoves DEF HoldingPlaces
    <3> QED
      BY <1>3, <3>1, <3>2
  <2>2. CASE ~CannotOpen(c)
    <3>1. pc' = [pc EXCEPT ![w] = "open"] /\ session' = [session EXCEPT ![w] = <<c, fifo[c]>>]
      BY <1>4, <2>2 DEF LookUp, GoTo
    <3>2. v \in Holding \/ v = w
      BY <3>1, HoldingMoves DEF HoldingPlaces
    <3>3. CASE v = w
      <4>1. c \in Clients
        BY <1>2, <2>2 DEF CannotOpen, Copies
      <4>2. session'[v] = <<c, fifo[c]>>
        BY <1>2, <3>1, <3>3
      <4> QED
        BY <1>1, <4>1, <4>2 DEF LivesHeld
    <3>4. CASE v # w
      <4>1. session'[v] = session[v]
        BY <1>2, <3>1, <3>4
      <4> QED
        BY <1>3, <3>2, <3>4, <4>1
    <3> QED
      BY <3>3, <3>4
  <2> QED
    BY <2>1, <2>2
<1>5. ASSUME NEW v \in Holding',
             DeqTake(w) \/ DeqLoad(w) \/ CopyRequest(w) \/ Opened(w) \/ CreateOpen(w)
             \/ CreateClose(w) \/ RemoveBox(w) \/ ListBox(w)
      PROVE  v \in Holding /\ session'[v] = session[v]
  <2>1. session' = session
    BY <1>5 DEF DeqTake, DeqLoad, CopyRequest, Opened, CreateOpen, CreateClose, RemoveBox, ListBox
  <2>2. \/ pc' = pc
        \/ \E to \in {"load", "copy", "lookup"} : pc' = [pc EXCEPT ![w] = to]
        \/ /\ pc[w] \in HoldingPlaces
           /\ \E to \in HoldingPlaces : pc' = [pc EXCEPT ![w] = to]
    BY <1>5 DEF DeqTake, DeqLoad, CopyRequest, Opened, CreateOpen, CreateClose, RemoveBox,
       ListBox, GoTo, HoldingPlaces
  <2>3. v \in Holding
    <3>1. CASE pc' = pc
      BY <3>1 DEF Holding
    <3>2. ASSUME NEW to, pc' = [pc EXCEPT ![w] = to], to \notin HoldingPlaces \/ pc[w] \in HoldingPlaces
          PROVE  v \in Holding
      BY <3>2, HoldingMoves
    <3>3. \A to \in {"load", "copy", "lookup"} : to \notin HoldingPlaces
      BY DEF HoldingPlaces
    <3> QED
      BY <2>2, <3>1, <3>2, <3>3
  <2> QED
    BY <2>1, <2>3
<1>6. ASSUME NEW v \in Holding', EndRequest(w)
      PROVE  v \in Holding /\ session'[v] = session[v]
  <2>1. pc' = [pc EXCEPT ![w] = "dequeue"] /\ session' = [session EXCEPT ![w] = NoSession]
    BY <1>6 DEF EndRequest
  <2>2. Holding' = Holding \ {w}
    <3>1. "dequeue" \notin HoldingPlaces
      BY DEF HoldingPlaces
    <3> QED
      BY <2>1, <3>1, HoldingMoves
  <2>3. v \in Holding /\ v # w /\ v \in Workers
    BY <1>6, <2>2 DEF Holding
  <2> QED
    BY <1>2, <2>1, <2>3
<1>7. ASSUME NEW v \in Holding', UNCHANGED pool
      PROVE  v \in Holding /\ session'[v] = session[v]
  BY <1>7 DEF pool, Holding
<1>8. \A v \in Holding' : session'[v][2] <= life'[session'[v][1]]
  BY <1>3, <1>4, <1>5, <1>6, <1>7 DEF WorkerStep, NotServed, Answer
<1>9. \A c \in Clients : fifo'[c] <= life'[c] /\ (at'[c] = "away" => life'[c] = 0 \/ kills' > 0)
  BY <1>1 DEF LivesHeld
<1> QED
  BY <1>8, <1>9 DEF LivesHeld

(* Every step. *)
LEMMA LivesNext == Typed /\ Typed' /\ LivesHeld /\ [Next]_vars => LivesHeld'
<1> SUFFICES ASSUME Typed, Typed', LivesHeld, [Next]_vars PROVE LivesHeld'
  OBVIOUS
<1>1. CASE UNCHANGED <<at, life, fifo, kills, session, pc>>
  BY <1>1 DEF LivesHeld, Holding
<1>2. CASE ReadRequest \/ EnqReserve \/ EnqFreeOld \/ EnqStore
  BY <1>1, <1>2 DEF ReadRequest, EnqReserve, EnqFreeOld, EnqStore, clients, pool
<1>3. CASE UNCHANGED vars
  BY <1>1, <1>3 DEF vars, clients, pool
<1> QED
  BY <1>2, <1>3, LivesClient, LivesWorker, Steps DEF WorkerStep

(* OpenReturns: a worker in open has one element, its client one request, so the   *)
(* pipe was opened by no one else and its client has still to come or has come.    *)
THEOREM OpenComesBack == Spec => []OpenReturns
<1>1. Init => LivesHeld
  BY DEF Init, LivesHeld, Holding
<1>2. Kept /\ LivesHeld => OpenReturns
  <2> SUFFICES ASSUME Kept, LivesHeld, FirstLap, RunOnce, kills = 0,
                      NEW w \in Workers, pc[w] = "open"
               PROVE  LET c == session[w][1]
                      IN  c \in Publishers \/ at[c] = "asking" \/ ReaderCame(w)
    BY DEF OpenReturns
  <2> DEFINE c == session[w][1]
  <2>1. Typed /\ Known /\ FirstLapHeld /\ Copied /\ AllWaiting
    BY DEF Kept, OnceHeld
  <2>2. w \in Holding /\ w \notin InSession
    BY DEF Holding, InSession
  <2>3. elem[w] \in Elements /\ c \in Clients /\ requests[elem[w]].client = c
    BY <2>1, <2>2, SessionElement
  <2>4. elem[w] \notin Served
    <3>1. elem[w] # NULL
      BY <2>1, <2>3, Askers DEF Elements, NULL
    <3>2. elem[w] \notin freed /\ \A v \in Workers : v # w => elem[v] # elem[w]
      BY <2>1, <3>1 DEF FirstLapHeld, Ring
    <3>3. InSession \subseteq Workers
      BY DEF InSession
    <3> QED
      BY <2>2, <3>2, <3>3 DEF Served
  <2>5. c \in Waiting
    BY <2>1, <2>3, <2>4, BrokerAssumption, Askers DEF AllWaiting
  <2>6. session[w] \in Clients \X (1 .. MaxLives) /\ session[w][2] <= life[c]
    BY <2>1, <2>2 DEF Typed, TypeOK, Held, LivesHeld
  <2> HIDE DEF c
  <2>7. at[c] \in {"asking", "opening"} /\ life[c] = 1
    BY <2>5 DEF Waiting, LivesHeld
  <2>8. session[w][2] = life[c]
    BY <2>6, <2>7, Bounds
  <2> QED
    BY <2>7, <2>8 DEF c, ReaderCame, HasReader, Reading
<1> QED
  BY <1>1, <1>2, AlwaysKept, AlwaysTyped, LivesNext, PTL DEF Spec

--------------------------------------------------------------------------------
(* What managers are promised *)

(* The managers BoxService speaks of, and all requests sent. *)
Callers == Creators \cup Removers
Asked ==
    {server_pipe[n] : n \in 1 .. Len(server_pipe)} \cup {requests[e] : e \in 1 .. Len(requests)}

(* Where nobody lists, main reads whole requests; every client was started before  *)
(* it did anything; a caller that waits has asked for a box; files are few enough. *)
CallsHeld ==
    /\ consumed = 0
    /\ \A c \in Clients :
        /\ at[c] # "away" => life[c] > 0
        /\ c \in Callers => at[c] # "listing"
        /\ life[c] = 0 => answers[c] = <<>>
    /\ \A c \in Callers : at[c] \in {"asking", "opening"} => \E r \in Asked : r.client = c
    /\ \A r \in Asked : r.client \in Callers => r.box \in Boxes
    /\ IsFiniteSet(files) /\ Cardinality(files) <= MaxBoxes

(* A caller whose pipe a worker has opened is still served or has its answer. *)
MetHeld ==
    FirstLap /\ ~crashed =>
        \A c \in Callers :
            met[c] /\ at[c] # "done"
                => answers[c] # <<>> \/ \E w \in InSession : session[w][1] = c

(* main reads a request that is no list request whole, and it alone. *)
LEMMA PlainRequest ==
  ASSUME Typed, consumed = 0, ReadRequest, Head(server_pipe).op # "list"
  PROVE  consumed' = 0 /\ Asked' = Asked
<1> DEFINE length == Len(server_pipe)
           upto == IF consumed + REQUEST_LENGTH < RequestEnd(length)
                   THEN consumed + REQUEST_LENGTH ELSE RequestEnd(length)
           whole == Cardinality({k \in 1 .. length : RequestEnd(k) <= upto})
<1>1. /\ server_pipe # <<>> /\ requests' = Append(requests, Head(server_pipe))
      /\ server_pipe' = SubSeq(server_pipe, whole + 1, Len(server_pipe))
      /\ consumed' = upto - RequestEnd(whole)
  BY DEF ReadRequest
<1>2. /\ server_pipe \in Seq(Requests) /\ requests \in Seq(Requests \cup {Garbled})
      /\ length \in Nat /\ length > 0 /\ Len(requests) \in Nat
      /\ \A n \in 1 .. Len(server_pipe) : server_pipe[n].client \in Clients
  BY <1>1, Askers
<1>3. RequestEnd(1) = 289
  <2>1. server_pipe[1].op # "list"
    BY <1>2
  <2>2. {n \in 1 .. 1 : server_pipe[n].op = "list"} = {}
    BY <2>1
  <2>3. RequestEnd(1) = 289 * 1 - 32 * Cardinality({n \in 1 .. 1 : server_pipe[n].op = "list"})
    BY DEF RequestEnd, REQUEST_LENGTH, LIST_REQUEST
  <2> QED
    BY <2>2, <2>3, FS_EmptySet
<1>4. \A k \in 2 .. length : RequestEnd(k) \in Int /\ RequestEnd(k) > 289
  <2> SUFFICES ASSUME NEW k \in 2 .. length
               PROVE  RequestEnd(k) \in Int /\ RequestEnd(k) > 289
    OBVIOUS
  <2>1. k \in Nat /\ 1 <= k /\ k - 1 >= 1
    BY <1>2
  <2>2. RequestEnd(k) \in Int /\ RequestEnd(k) - RequestEnd(1) >= LIST_REQUEST * (k - 1)
    BY <2>1, RequestEnds
  <2> QED
    BY <1>3, <2>1, <2>2 DEF LIST_REQUEST
<1>5. upto = 289
  <2>1. CASE length = 1
    BY <1>3, <2>1 DEF REQUEST_LENGTH
  <2>2. CASE length # 1
    <3>1. length \in 2 .. length
      <4>1. length \in Nat /\ length > 0 /\ length # 1
        BY <1>2, <2>2
      <4> HIDE DEF length
      <4> QED
        BY <4>1
    <3>2. RequestEnd(length) \in Int /\ RequestEnd(length) > 289
      BY <1>4, <3>1
    <3> QED
      BY <3>2 DEF REQUEST_LENGTH
  <2> QED
    BY <2>1, <2>2
<1>6. whole = 1
  <2>1. {k \in 1 .. length : RequestEnd(k) <= upto} = {1}
    <3>1. \A k \in 1 .. length : k # 1 => ~(RequestEnd(k) <= upto)
      BY <1>2, <1>4, <1>5
    <3>2. RequestEnd(1) <= upto /\ 1 \in 1 .. length
      BY <1>2, <1>3, <1>5
    <3> QED
      BY <3>1, <3>2
  <2> QED
    BY <2>1, FS_Singleton
<1>8. consumed' = 0
  BY <1>1, <1>3, <1>5, <1>6
<1> HIDE DEF whole
<1>9. Len(server_pipe') = length - 1 /\ \A n \in 1 .. length - 1 : server_pipe'[n] = server_pipe[n + 1]
  <2>1. server_pipe' = Tail(server_pipe)
    BY <1>1, <1>2, <1>6, TailIsSubSeq
  <2>2. /\ Len(Tail(server_pipe)) = Len(server_pipe) - 1
        /\ \A n \in 1 .. Len(Tail(server_pipe)) : Tail(server_pipe)[n] = server_pipe[n + 1]
    BY <1>1, <1>2, HeadTailProperties
  <2> QED
    BY <2>1, <2>2
<1>10. /\ Len(requests') = Len(requests) + 1 /\ requests'[Len(requests) + 1] = server_pipe[1]
       /\ \A e \in 1 .. Len(requests) : requests'[e] = requests[e]
  BY <1>1, <1>2
<1>11. ASSUME NEW r \in Asked PROVE r \in Asked'
  <2>1. ASSUME NEW n \in 1 .. length, r = server_pipe[n] PROVE r \in Asked'
    <3>1. CASE n = 1
      BY <1>2, <1>10, <2>1, <3>1 DEF Asked
    <3>2. CASE n # 1
      <4>1. n - 1 \in 1 .. length - 1 /\ n - 1 + 1 = n
        BY <1>2, <3>2
      <4>2. server_pipe'[n - 1] = r
        BY <1>9, <2>1, <4>1
      <4> QED
        BY <1>9, <4>1, <4>2 DEF Asked
    <3> QED
      BY <3>1, <3>2
  <2>2. ASSUME NEW e \in 1 .. Len(requests), r = requests[e] PROVE r \in Asked'
    BY <1>2, <1>10, <2>2 DEF Asked
  <2> QED
    BY <2>1, <2>2 DEF Asked
<1>12. ASSUME NEW r \in Asked' PROVE r \in Asked
  <2>1. ASSUME NEW n \in 1 .. length - 1, r = server_pipe'[n] PROVE r \in Asked
    BY <1>2, <1>9, <2>1 DEF Asked
  <2>2. ASSUME NEW e \in 1 .. Len(requests) + 1, r = requests'[e] PROVE r \in Asked
    BY <1>2, <1>10, <2>2 DEF Asked
  <2> QED
    BY <1>9, <1>10, <2>1, <2>2 DEF Asked
<1> QED
  BY <1>8, <1>11, <1>12

(* Where nobody lists, main reads one whole request at a time. *)
LEMMA OneRequest ==
  ASSUME Listers = {}, Typed, Known, consumed = 0, ReadRequest
  PROVE  consumed' = 0 /\ Asked' = Asked
<1>1. server_pipe # <<>>
  BY DEF ReadRequest
<1>2. Head(server_pipe) = server_pipe[1] /\ 1 \in 1 .. Len(server_pipe)
  BY <1>1, Askers
<1>3. server_pipe[1].client \in Clients /\ server_pipe[1].op = OpCode(server_pipe[1].client)
  BY <1>2, Askers DEF Known
<1>4. OpCode(server_pipe[1].client) # "list"
  BY <1>3, OpCodes
<1> QED
  BY <1>2, <1>3, <1>4, PlainRequest

(* A request is sent. *)
LEMMA SentOneMore ==
  ASSUME Typed, NEW r, server_pipe' = Append(server_pipe, r), requests' = requests
  PROVE  Asked' = Asked \cup {r}
<1> DEFINE sent == {server_pipe[n] : n \in 1 .. Len(server_pipe)}
<1>1. server_pipe \in Seq(Requests) /\ Len(server_pipe) \in Nat
  BY Askers
<1>2. /\ Len(server_pipe') = Len(server_pipe) + 1
      /\ server_pipe'[Len(server_pipe) + 1] = r
      /\ \A n \in 1 .. Len(server_pipe) : server_pipe'[n] = server_pipe[n]
  BY <1>1
<1>3. sent' = sent \cup {r}
  BY <1>1, <1>2
<1> QED
  BY <1>3 DEF Asked

(* Every step keeps callers what they are, where nobody lists. *)
LEMMA CallsNext ==
  ASSUME Listers = {}, Typed, Known, CallsHeld, [Next]_vars
  PROVE  CallsHeld'
<1>1. /\ at \in [Clients -> {"away", "starting", "asking", "opening", "listing", "done"}]
      /\ life \in [Clients -> 0 .. MaxLives] /\ answers \in [Clients -> Seq(Results)]
      /\ server_pipe \in Seq(Requests)
  BY DEF Typed, TypeOK
<1>2. CASE UNCHANGED <<at, life, answers, server_pipe, consumed, requests, files>>
  BY <1>2 DEF CallsHeld, Asked
<1>3. ASSUME NEW c \in Clients,
             \/ Start(c) \/ Register(c) \/ OpenSession(c) \/ ReadAnswer(c)
             \/ ReadListing(c) \/ EndOfFile(c) \/ Kill(c)
      PROVE  CallsHeld'
  <2>1. consumed' = consumed /\ files' = files /\ requests' = requests
    BY <1>3 DEF Start, Register, OpenSession, ReadAnswer, ReadListing, EndOfFile, Kill, inlet,
       storage
  <2>2. \A d \in Clients :
          d # c => at'[d] = at[d] /\ life'[d] = life[d] /\ answers'[d] = answers[d]
    BY <1>1, <1>3
    DEF Start, Register, OpenSession, ReadAnswer, ReadListing, EndOfFile, Kill, Finish
  <2>3. c \notin Listers
    BY <1>3
  <2>4. CASE Register(c)
    <3> DEFINE To(box) == [op |-> OpCode(c), client |-> c, box |-> box]
    <3>1. PICK box \in Boxes : server_pipe' = Append(server_pipe, To(box))
      BY <2>3, <2>4 DEF Register
    <3>2. Asked' = Asked \cup {To(box)}
      BY <2>1, <3>1, SentOneMore
    <3>3. /\ at[c] = "starting" /\ at'[c] = "asking" /\ UNCHANGED <<life, answers>>
      BY <1>1, <2>4 DEF Register
    <3>4. To(box).client = c /\ To(box).box = box
      OBVIOUS
    <3> HIDE DEF To
    <3>5. \A d \in Callers : at'[d] \in {"asking", "opening"} => \E r \in Asked' : r.client = d
      <4> SUFFICES ASSUME NEW d \in Callers, at'[d] \in {"asking", "opening"}
                   PROVE  \E r \in Asked' : r.client = d
        OBVIOUS
      <4>1. CASE d = c
        BY <3>2, <3>4, <4>1
      <4>2. CASE d # c
        <5>1. d \in Clients
          BY DEF Callers, Clients, Managers
        <5> QED
          BY <2>2, <3>2, <4>2, <5>1 DEF CallsHeld
      <4> QED
        BY <4>1, <4>2
    <3>6. \A r \in Asked' : r.client \in Callers => r.box \in Boxes
      BY <3>1, <3>2, <3>4 DEF CallsHeld
    <3>7. \A d \in Clients :
            /\ at'[d] # "away" => life'[d] > 0
            /\ d \in Callers => at'[d] # "listing"
            /\ life'[d] = 0 => answers'[d] = <<>>
      BY <2>2, <3>3 DEF CallsHeld
    <3> QED
      BY <2>1, <3>5, <3>6, <3>7 DEF CallsHeld
  <2>5. CASE ~Register(c)
    <3>1. server_pipe' = server_pipe /\ Asked' = Asked
      BY <1>3, <2>1, <2>5 DEF Start, OpenSession, ReadAnswer, ReadListing, EndOfFile, Kill, inlet,
         Asked
    <3>2. /\ at'[c] # "away" => life'[c] > 0
          /\ c \in Callers => at'[c] # "listing"
          /\ life'[c] = 0 => answers'[c] = <<>>
          /\ at'[c] \in {"asking", "opening"} => at[c] = "asking"
      <4>1. CASE Start(c)
        BY <1>1, <4>1, Bounds DEF Start
      <4>2. CASE OpenSession(c) \/ ReadAnswer(c) \/ EndOfFile(c)
        <5>1. at[c] # "away" /\ life' = life /\ answers' = answers
          BY <4>2 DEF OpenSession, ReadAnswer, EndOfFile, Reading
        <5> QED
          BY <1>1, <4>2, <5>1 DEF OpenSession, ReadAnswer, EndOfFile, Finish, CallsHeld
      <4>4. CASE ReadListing(c)
        <5>1. at[c] # "away" /\ life' = life /\ at'[c] = "listing" /\ c \notin Callers
          BY <1>1, <2>3, <4>4, BrokerAssumption DEF ReadListing, Reading, Callers, Managers
        <5> QED
          BY <1>1, <5>1 DEF CallsHeld
      <4>3. CASE Kill(c)
        BY <1>1, <4>3 DEF Kill, CallsHeld
      <4> QED
        BY <1>3, <2>5, <4>1, <4>2, <4>3, <4>4
    <3>3. \A d \in Callers : at'[d] \in {"asking", "opening"} => at[d] \in {"asking", "opening"}
      <4>1. Callers \subseteq Clients
        BY DEF Callers, Clients, Managers
      <4> QED
        BY <2>2, <3>2, <4>1
    <3>4. \A d \in Clients :
            /\ at'[d] # "away" => life'[d] > 0
            /\ d \in Callers => at'[d] # "listing"
            /\ life'[d] = 0 => answers'[d] = <<>>
      BY <2>2, <3>2 DEF CallsHeld
    <3> QED
      BY <2>1, <3>1, <3>3, <3>4 DEF CallsHeld
  <2> QED
    BY <2>4, <2>5
<1>4. CASE ReadRequest
  <2>1. consumed' = 0 /\ Asked' = Asked
    BY <1>4, OneRequest DEF CallsHeld
  <2>2. UNCHANGED <<at, life, answers, files>>
    BY <1>4 DEF ReadRequest, clients, storage
  <2> QED
    BY <2>1, <2>2 DEF CallsHeld
<1>5. CASE EnqReserve \/ EnqFreeOld \/ EnqStore
  BY <1>2, <1>5 DEF EnqReserve, EnqFreeOld, EnqStore, clients, storage
<1>6. ASSUME NEW w \in Workers, CreateOpen(w) \/ RemoveBox(w)
      PROVE  CallsHeld'
  <2>1. UNCHANGED <<at, life, answers, server_pipe, consumed, requests>> /\ Asked' = Asked
    BY <1>6 DEF CreateOpen, RemoveBox, clients, inlet, Asked
  <2>2. IsFiniteSet(files) /\ Cardinality(files) <= MaxBoxes /\ Cardinality(files) \in Nat
    BY FS_CardinalityType DEF CallsHeld
  <2>3. CASE CreateOpen(w)
    <3>1. PICK box :
            \/ files' = files
            \/ files' = files \cup {box} /\ (box \in files \/ Cardinality(files) < MaxBoxes)
      BY <2>3 DEF CreateOpen
    <3>2. IsFiniteSet(files') /\ Cardinality(files') <= MaxBoxes
      <4>1. CASE files' = files
        BY <2>2, <4>1
      <4>2. CASE files' = files \cup {box} /\ box \notin files /\ Cardinality(files) < MaxBoxes
        <5>1. IsFiniteSet(files') /\ Cardinality(files') = Cardinality(files) + 1
          BY <2>2, <4>2, FS_AddElement
        <5> QED
          BY <2>2, <4>2, <5>1, Bounds
      <4>3. CASE files' = files \cup {box} /\ box \in files
        BY <4>1, <4>3
      <4> QED
        BY <3>1, <4>1, <4>2, <4>3
    <3> QED
      BY <2>1, <3>2 DEF CallsHeld
  <2>4. CASE RemoveBox(w)
    <3>1. files' \subseteq files
      BY <2>4 DEF RemoveBox
    <3>2. IsFiniteSet(files') /\ Cardinality(files') <= Cardinality(files)
          /\ Cardinality(files') \in Nat
      BY <2>2, <3>1, FS_Subset, FS_CardinalityType
    <3> QED
      BY <2>1, <2>2, <3>2, Bounds DEF CallsHeld
  <2> QED
    BY <1>6, <2>3, <2>4
<1>7. ASSUME NEW w \in Workers,
              \/ DeqTake(w) \/ DeqLoad(w) \/ CopyRequest(w) \/ LookUp(w) \/ Opened(w)
              \/ CreateClose(w) \/ ListBox(w) \/ NotServed(w)
      PROVE  CallsHeld'
  BY <1>2, <1>7 DEF DeqTake, DeqLoad, CopyRequest, LookUp, Opened, CreateClose, ListBox,
     NotServed, clients, inlet, storage
<1>8. ASSUME NEW w \in Workers, Answer(w)
      PROVE  CallsHeld'
  <2>1. UNCHANGED <<at, life, server_pipe, consumed, requests, files>> /\ Asked' = Asked
    BY <1>8 DEF Answer, inlet, storage, Asked
  <2>2. \A d \in Clients : life'[d] = 0 => answers'[d] = <<>>
    <3> SUFFICES ASSUME NEW d \in Clients, life'[d] = 0 PROVE answers'[d] = <<>>
      OBVIOUS
    <3>1. answers[d] = <<>> /\ life[d] = 0
      BY <2>1 DEF CallsHeld
    <3>2. ASSUME HasReader(session[w]) PROVE session[w][1] # d
      <4>1. session[w] \in Clients \X (1 .. MaxLives)
        BY <1>8 DEF Answer, Typed, TypeOK, Held
      <4>2. life[session[w][1]] = session[w][2] /\ session[w][2] \in 1 .. MaxLives
        BY <3>2, <4>1 DEF HasReader
      <4> QED
        BY <3>1, <4>2, Bounds
    <3> QED
      BY <1>1, <1>8, <3>1, <3>2 DEF Answer
  <2> QED
    BY <2>1, <2>2 DEF CallsHeld
<1>9. CASE UNCHANGED vars
  BY <1>2, <1>9 DEF vars, clients, inlet, storage
<1> QED
  BY <1>3, <1>4, <1>5, <1>6, <1>7, <1>8, <1>9, Steps

(* The body a worker runs is the one its client asked for. *)
LEMMA BodyAsked ==
  ASSUME Kept, FirstLap, NEW w \in Holding
  PROVE  /\ session[w][1] \in Clients /\ request[w].op = OpCode(session[w][1])
         /\ elem[w] \in Elements /\ elem[w] \notin freed
         /\ requests[elem[w]].client = session[w][1]
<1>1. Typed /\ Known /\ Copied /\ FirstLapHeld /\ w \in Workers
  BY DEF Kept, OnceHeld, Holding
<1>2. /\ elem[w] \in Elements /\ session[w][1] \in Clients
      /\ requests[elem[w]].client = session[w][1]
      /\ requests[elem[w]].op = request[w].op
  BY <1>1, SessionElement
<1>3. Made(requests[elem[w]]) /\ requests[elem[w]].client # None
  BY <1>1, <1>2, Askers DEF Known
<1>4. elem[w] \notin freed
  BY <1>1 DEF FirstLapHeld, Ring
<1> QED
  BY <1>2, <1>3, <1>4 DEF Made, Garbled

(* Every step leaves a caller whose pipe is open served or answered. *)
LEMMA MetNext ==
  ASSUME Kept, MetHeld, [Next]_vars
  PROVE  MetHeld'
<1> SUFFICES ASSUME FirstLap', ~crashed', NEW c \in Callers, met'[c], at'[c] # "done"
             PROVE  answers'[c] # <<>> \/ \E w \in InSession' : session'[w][1] = c
  BY DEF MetHeld
<1>1. Typed /\ FirstLap /\ ~crashed
  BY WasFirstLap, NotYet DEF Kept
<1>2. c \in Clients /\ c \notin Listers /\ c \notin Publishers \cup Subscribers
  BY BrokerAssumption DEF Callers, Clients, Managers
<1>3. /\ at \in [Clients -> {"away", "starting", "asking", "opening", "listing", "done"}]
      /\ answers \in [Clients -> Seq(Results)] /\ met \in [Clients -> BOOLEAN]
  BY <1>1 DEF Typed, TypeOK
<1>4. met[c] /\ at[c] # "done" => answers[c] # <<>> \/ \E w \in InSession : session[w][1] = c
  BY <1>1 DEF MetHeld
<1>5. CASE UNCHANGED <<pc, session>> /\ met'[c] = met[c] /\ answers'[c] = answers[c]
           /\ (at'[c] = at[c] \/ at[c] # "done")
  BY <1>4, <1>5 DEF InSession
<1>6. ASSUME NEW d \in Clients,
             \/ Start(d) \/ Register(d) \/ OpenSession(d) \/ ReadAnswer(d)
             \/ ReadListing(d) \/ EndOfFile(d) \/ Kill(d)
      PROVE  answers'[c] # <<>> \/ \E w \in InSession' : session'[w][1] = c
  <2>1. pc' = pc /\ session' = session
    BY <1>6 DEF Start, Register, OpenSession, ReadAnswer, ReadListing, EndOfFile, Kill, pool
  <2>2. CASE d # c
    <3>1. at'[c] = at[c] /\ met'[c] = met[c] /\ answers'[c] = answers[c]
      BY <1>2, <1>3, <1>6, <2>2
      DEF Start, Register, OpenSession, ReadAnswer, ReadListing, EndOfFile, Kill, Finish
    <3> QED
      BY <1>5, <2>1, <3>1
  <2>3. CASE d = c
    <3>1. ~Start(c)
      BY <1>2, <1>3 DEF Start
    <3>2. ~ReadListing(c) /\ ~ReadAnswer(c) /\ ~EndOfFile(c)
      BY <1>2, <1>3 DEF ReadListing, ReadAnswer, EndOfFile, Finish
    <3>3. at[c] # "done" /\ UNCHANGED <<met, answers>>
      BY <1>6, <2>3, <3>1, <3>2 DEF Register, OpenSession, Kill
    <3> QED
      BY <1>5, <2>1, <3>3
  <2> QED
    BY <2>2, <2>3
<1>7. CASE ReadRequest \/ EnqReserve \/ EnqFreeOld \/ EnqStore
  BY <1>5, <1>7 DEF ReadRequest, EnqReserve, EnqFreeOld, EnqStore, clients, pool
<1>8. ASSUME NEW w \in Workers, WorkerStep(w)
      PROVE  answers'[c] # <<>> \/ \E u \in InSession' : session'[u][1] = c
  <2>1. at' = at
    BY <1>8 DEF WorkerStep, DeqTake, DeqLoad, CopyRequest, LookUp, Opened, CreateOpen,
       CreateClose, RemoveBox, ListBox, NotServed, Answer, clients
  <2>2. CASE Opened(w)
    <3>1. /\ w \in InSession' /\ session' = session /\ answers' = answers
          /\ met' = [met EXCEPT ![session[w][1]] = TRUE]
      BY <1>1, <2>2 DEF Opened, GoTo, InSession, Typed, TypeOK
    <3>2. CASE session[w][1] = c
      BY <3>1, <3>2
    <3>3. CASE session[w][1] # c
      <4>1. met'[c] = met[c]
        BY <1>2, <1>3, <3>1, <3>3
      <4>2. InSession \subseteq InSession'
        BY <1>1, <1>8, <3>1, OtherWorkers DEF InSession
      <4> QED
        BY <1>4, <2>1, <3>1, <4>1, <4>2
    <3> QED
      BY <3>2, <3>3
  <2>3. CASE ~Opened(w)
    <3>1. met' = met
      BY <1>8, <2>3 DEF WorkerStep, DeqTake, DeqLoad, CopyRequest, LookUp, CreateOpen,
         CreateClose, RemoveBox, ListBox, NotServed, Answer, clients
    <3>2. answers'[c] = answers[c] \/ (Answer(w) /\ HasReader(session[w]) /\ session[w][1] = c)
      BY <1>2, <1>3, <1>8, <2>3
      DEF WorkerStep, DeqTake, DeqLoad, CopyRequest, LookUp, CreateOpen, CreateClose,
          RemoveBox, ListBox, NotServed, Answer, clients
    <3>3. CASE Answer(w) /\ HasReader(session[w]) /\ session[w][1] = c
      <4>1. answers'[c] = Append(answers[c], result[w]) /\ answers[c] \in Seq(Results)
        BY <1>2, <1>3, <3>3 DEF Answer
      <4> QED
        BY <4>1
    <3>4. CASE answers'[c] = answers[c] /\ answers[c] # <<>>
      BY <3>4
    <3>5. ASSUME NEW v \in InSession, session[v][1] = c, ~(Answer(w) /\ v = w)
          PROVE  v \in InSession' /\ session'[v] = session[v]
      <4>1. v \in Workers /\ v \in Holding
        BY DEF InSession, Holding
      <4>2. CASE v # w
        BY <1>1, <1>8, <4>1, <4>2, OtherWorkers DEF InSession
      <4>3. CASE v = w
        <5>1. ~NotServed(w)
          <6>1. request[w].op = OpCode(c)
            BY <1>1, <3>5, <4>1, <4>3, BodyAsked
          <6>2. OpCode(c) \notin {"pub", "sub", "garbled"}
            BY <1>2, OpCodes, OpCodeType DEF Codes
          <6> QED
            BY <6>1, <6>2 DEF NotServed
        <5> QED
          BY <1>1, <1>8, <3>5, <4>3, <5>1, SessionGoesOn
      <4> QED
        BY <4>2, <4>3
    <3>6. ASSUME Answer(w), answers'[c] = answers[c], w \in InSession, session[w][1] = c
          PROVE  FALSE
      <4>1. HasReader(session[w])
        BY <3>6 DEF Answer
      <4>2. answers'[c] = Append(answers[c], result[w]) /\ answers[c] \in Seq(Results)
        BY <1>2, <1>3, <3>6, <4>1 DEF Answer
      <4>3. Len(Append(answers[c], result[w])) # Len(answers[c])
        BY <4>2
      <4> QED
        BY <3>6, <4>2, <4>3
    <3> QED
      BY <1>4, <2>1, <3>1, <3>2, <3>3, <3>4, <3>5, <3>6
  <2> QED
    BY <2>2, <2>3
<1>9. CASE UNCHANGED vars
  BY <1>5, <1>9 DEF vars, clients, pool
<1> QED
  BY <1>6, <1>7, <1>8, <1>9, Steps DEF WorkerStep

(* The only member of a set is what CHOOSE takes. *)
LEMMA OnlyMember ==
  ASSUME NEW S, NEW w, S = {w}
  PROVE  (CHOOSE v \in S : TRUE) = w
OBVIOUS

(* What a request came to is known as long as a worker serves its caller, and from *)
(* its result.                                                                     *)
EffectServed ==
    \A w \in Workers : \A c \in Clients :
        pc[w] \in {"close", "answer"} /\ session[w][1] = c /\ at[c] # "done" /\ answers[c] = <<>>
            => Effect(c) = IF pc[w] = "close" THEN "ok" ELSE result[w]

(* For a worker that serves a caller is its only one. *)
LEMMA ServingEffect == Kept /\ FirstLap /\ RunOnce => EffectServed
<1> SUFFICES ASSUME Kept, FirstLap, RunOnce, NEW w \in Workers, pc[w] \in {"close", "answer"},
                    NEW c \in Clients, session[w][1] = c, at[c] # "done", answers[c] = <<>>
             PROVE  Effect(c) = IF pc[w] = "close" THEN "ok" ELSE result[w]
  BY DEF EffectServed
<1>1. Serving(c) = {w}
  <2> SUFFICES ASSUME NEW v \in Serving(c), v # w PROVE FALSE
    BY DEF Serving
  <2>1. v \in Holding /\ w \in Holding /\ session[v][1] = c
    BY DEF Serving, Holding
  <2> QED
    BY <2>1, OwnClients
<1>2. (CHOOSE v \in Serving(c) : TRUE) = w
  BY <1>1, OnlyMember
<1>3. Serving(c) # {}
  BY <1>1
<1> HIDE DEF Serving
<1>4. Effect(c) = LET u == CHOOSE v \in Serving(c) : TRUE
                  IN  IF pc[u] = "close" THEN "ok" ELSE result[u]
  BY <1>3 DEF Effect
<1> QED
  BY <1>2, <1>4

(* It is so after a step, too. *)
LEMMA ServingEffectNext == Kept' /\ FirstLap' /\ RunOnce' => EffectServed'
BY ServingEffect, PTL

(* The member of a set that CHOOSE takes. *)
Chosen(S) == CHOOSE v \in S : TRUE

(* What the worker's request comes to. *)
Outcome(w) == IF pc[w] = "close" THEN "ok" ELSE result[w]

(* What a request came to does not change while neither its caller nor the workers *)
(* that serve it change what shows it.                                             *)
LEMMA EffectKept ==
  ASSUME NEW c, at'[c] = "done" <=> at[c] = "done", answers'[c] = answers[c],
         at[c] = "done" => outcome'[c] = outcome[c],
         Serving(c)' = Serving(c), \A v \in Serving(c) : Outcome(v)' = Outcome(v)
  PROVE  Effect(c)' = Effect(c)
<1> DEFINE w == Chosen(Serving(c))
           u == Chosen(Serving(c)')
<1>1. u = w
  OBVIOUS
<1>2. Serving(c) # {} => w \in Serving(c)
  BY DEF Chosen
<1>3. Effect(c) = IF at[c] = "done" THEN outcome[c]
                  ELSE IF answers[c] # <<>> THEN Head(answers[c])
                  ELSE IF Serving(c) # {} THEN Outcome(w) ELSE "none"
  BY DEF Effect, Outcome, Chosen
<1>4. Effect(c)' = IF at'[c] = "done" THEN outcome'[c]
                   ELSE IF answers'[c] # <<>> THEN Head(answers'[c])
                   ELSE IF Serving(c)' # {} THEN (IF pc'[u] = "close" THEN "ok" ELSE result'[u])
                   ELSE "none"
  BY DEF Effect, Chosen
<1> HIDE DEF w, u
<1>5. CASE Serving(c) # {}
  <2>1. PICK v \in Serving(c) : v = w
    BY <1>2, <1>5
  <2>2. Outcome(v)' = Outcome(v) /\ v = u
    BY <1>1, <2>1
  <2>3. (IF pc'[u] = "close" THEN "ok" ELSE result'[u]) = Outcome(v)
    BY <2>2 DEF Outcome
  <2>4. Outcome(w) = Outcome(v)
    BY <2>1 DEF Outcome
  <2> QED
    BY <1>3, <1>4, <1>5, <2>3, <2>4
<1>6. CASE Serving(c) = {}
  BY <1>3, <1>4, <1>6
<1> QED
  BY <1>5, <1>6

(* What the requests sent say of a caller. *)
LEMMA RequestsAsked ==
  ASSUME NEW c
  PROVE  /\ RequestOf(c) = {r \in Asked : r.client = c}
         /\ RequestOf(c)' = {r \in Asked' : r.client = c}
BY DEF RequestOf, Asked

(* A step that changes nothing a manager can see, but may end the broker, is the   *)
(* broker's death or no step of the service.                                       *)
LEMMA NothingDone ==
  ASSUME Asked' = Asked, files' = files, \A c \in Callers : Effect(c)' = Effect(c),
         \A c \in Callers : at'[c] = "done" <=> at[c] = "done",
         Typed, Typed', crashed' = crashed \/ ~crashed
  PROVE  Service!Next \/ UNCHANGED Service!vars
<1>0. crashed' = crashed \/ (~crashed /\ crashed' = TRUE)
  <2>1. crashed \in BOOLEAN /\ crashed' \in BOOLEAN
    BY DEF Typed, TypeOK
  <2>2. CASE crashed = FALSE /\ crashed' = FALSE
    BY <2>2
  <2>3. CASE crashed = FALSE /\ crashed' = TRUE
    BY <2>3
  <2> QED
    BY <2>1, <2>2, <2>3
<1>1. \A c \in Callers : RequestOf(c)' = RequestOf(c)
  BY RequestsAsked
<1>2. UNCHANGED <<[c \in Creators \cup Removers |-> {r.box : r \in RequestOf(c)}], files,
                  [c \in Creators \cup Removers |-> Effect(c)],
                  {c \in Creators \cup Removers : at[c] = "done"}>>
  BY <1>1 DEF Callers
<1> QED
  BY <1>0, <1>2 DEF Service!Next, Service!Die, Service!vars

(* What holds while nobody lists or runs twice, in the ring's first lap. *)
Serviced == Kept /\ ReadersHeld /\ CallsHeld /\ MetHeld /\ FirstLap /\ RunOnce

(* A client that is about to ask has not asked before. *)
LEMMA NotAskedYet ==
  ASSUME Kept, RunOnce, NEW c \in Clients, at[c] = "starting"
  PROVE  RequestOf(c) = {}
<1>1. AskedOnce /\ c # None
  BY Askers DEF Kept, OnceHeld
<1> QED
  BY <1>1 DEF RequestOf, AskedOnce, Elements

(* A client's step asks, is told, or is not seen by BoxService. *)
LEMMA ClientImplements ==
  ASSUME MaxLives = 1, Listers = {}, Serviced, Typed', NEW c \in Clients,
         \/ Start(c) \/ Register(c) \/ OpenSession(c) \/ ReadAnswer(c)
         \/ ReadListing(c) \/ EndOfFile(c) \/ Kill(c)
  PROVE  Service!Next \/ UNCHANGED Service!vars
<1>1. /\ UNCHANGED <<pc, session, result, files, crashed, requests>>
      /\ Register(c) \/ Asked' = Asked
  BY DEF Start, Register, OpenSession, ReadAnswer, ReadListing, EndOfFile, Kill, inlet, pool,
     storage, Asked
<1>2. /\ Typed /\ Callers \subseteq Clients
      /\ at \in [Clients -> {"away", "starting", "asking", "opening", "listing", "done"}]
      /\ life \in [Clients -> 0 .. 1] /\ answers \in [Clients -> Seq(Results)]
      /\ outcome \in [Clients -> Results \cup {"none", "closed"}]
      /\ server_pipe \in Seq(Requests)
  BY DEF Serviced, Kept, Typed, TypeOK, Callers, Clients, Managers
<1>3. \A d \in Clients :
        d # c => at'[d] = at[d] /\ answers'[d] = answers[d] /\ outcome'[d] = outcome[d]
  BY <1>2 DEF Start, Register, OpenSession, ReadAnswer, ReadListing, EndOfFile, Kill, Finish
<1>4. \A d : Serving(d)' = Serving(d) /\ \A v \in Serving(d) : Outcome(v)' = Outcome(v)
  BY <1>1 DEF Serving, Outcome
<1>5. \A d \in Callers : d # c => Effect(d)' = Effect(d)
  BY <1>2, <1>3, <1>4, EffectKept
<1>6. CASE Start(c) \/ Register(c) \/ OpenSession(c) \/ Kill(c)
  <2>1. at[c] # "done" /\ at'[c] # "done" /\ answers'[c] = answers[c]
    <3>1. CASE Start(c)
      <4>1. life[c] = 0 /\ at[c] \in {"away", "done"}
        BY <1>2, <3>1 DEF Start
      <4>2. at[c] = "away" /\ answers[c] = <<>>
        BY <4>1 DEF Serviced, CallsHeld
      <4> QED
        BY <1>2, <3>1, <4>2 DEF Start
    <3>2. CASE Register(c) \/ OpenSession(c) \/ Kill(c)
      BY <1>2, <3>2 DEF Register, OpenSession, Kill
    <3> QED
      BY <1>6, <3>1, <3>2
  <2>2. \A d \in Callers : Effect(d)' = Effect(d) /\ (at'[d] = "done" <=> at[d] = "done")
    BY <1>2, <1>3, <1>4, <1>5, <2>1, EffectKept
  <2>3. CASE ~Register(c)
    BY <1>1, <1>2, <2>2, <2>3, NothingDone
  <2>4. CASE Register(c)
    <3> DEFINE To(box) == [op |-> OpCode(c), client |-> c, box |-> box]
    <3>1. PICK box \in Boxes : server_pipe' = Append(server_pipe, To(box))
      BY <2>4 DEF Register
    <3>2. PICK r : r = To(box)
      OBVIOUS
    <3>3. r.client = c /\ r.box = box
      BY <3>2
    <3>4. Asked' = Asked \cup {r}
      BY <1>1, <1>2, <3>1, <3>2, SentOneMore
    <3>5. ASSUME NEW d, d # c PROVE RequestOf(d)' = RequestOf(d)
      <4>1. {q \in Asked' : q.client = d} = {q \in Asked : q.client = d}
        BY <3>3, <3>4, <3>5
      <4> QED
        BY <4>1, RequestsAsked
    <3>6. CASE c \notin Callers
      <4>1. UNCHANGED Service!vars
        BY <1>1, <2>2, <3>5, <3>6 DEF Service!vars, Callers
      <4> QED
        BY <4>1
    <3>7. CASE c \in Callers
      <4>1. RequestOf(c) = {}
        BY <2>4, NotAskedYet DEF Serviced, Register
      <4>2. RequestOf(c)' = {r}
        <5>1. \A q \in Asked : q.client # c
          BY <4>1, RequestsAsked
        <5> QED
          BY <3>3, <3>4, <5>1, RequestsAsked
      <4>3. {q.box : q \in RequestOf(c)} = {} /\ {q.box : q \in RequestOf(c)'} = {box}
        BY <3>3, <4>1, <4>2
      <4>4. ~crashed /\ box \in Boxes
        BY <2>4, <3>1, <3>7 DEF Register
      <4> DEFINE wanted == [d \in Callers |-> {q.box : q \in RequestOf(d)}]
      <4>5. wanted[c] = {} /\ wanted' = [wanted EXCEPT ![c] = {box}]
        BY <3>5, <3>7, <4>3
      <4>6. UNCHANGED <<files, [d \in Callers |-> Effect(d)], {d \in Callers : at[d] = "done"},
                        crashed>>
        BY <1>1, <2>2
      <4>7. Service!Ask(c, box)
        BY <4>4, <4>5, <4>6 DEF Service!Ask, Callers
      <4> QED
        BY <3>7, <4>4, <4>7 DEF Service!Next, Service!Managers, Callers
    <3> QED
      BY <3>6, <3>7
  <2> QED
    BY <2>3, <2>4
<1>7. CASE ReadAnswer(c)
  <2>1. /\ c \in Callers /\ at[c] # "done" /\ at'[c] = "done" /\ answers[c] # <<>>
        /\ outcome'[c] = Head(answers[c]) /\ Asked' = Asked
    BY <1>1, <1>2, <1>7 DEF ReadAnswer, Finish, Callers, Register
  <2>2. Head(answers[c]) \in Results
    BY <1>2, <2>1
  <2>3. Effect(c) = Head(answers[c]) /\ Effect(c)' = Head(answers[c])
    BY <2>1 DEF Effect
  <2>4. \A d \in Callers : Effect(d)' = Effect(d) /\ RequestOf(d)' = RequestOf(d)
    BY <1>5, <2>1, <2>3, RequestsAsked
  <2>5. {d \in Callers : at'[d] = "done"} = {d \in Callers : at[d] = "done"} \cup {c}
    BY <1>2, <1>3, <2>1
  <2>6. Service!Tell(c)
    BY <1>1, <2>1, <2>2, <2>3, <2>4, <2>5 DEF Service!Tell, Callers, Results
  <2> QED
    BY <2>1, <2>6 DEF Service!Next, Service!Managers, Callers
<1>8. CASE EndOfFile(c) /\ c \notin Callers
  <2>1. Asked' = Asked /\ \A d \in Callers : Effect(d)' = Effect(d) /\ at'[d] = at[d]
    <3>1. ~Register(c)
      BY <1>8 DEF EndOfFile, Reading, Register
    <3> QED
      BY <1>1, <1>2, <1>3, <1>5, <1>8, <3>1
  <2> QED
    BY <1>1, <1>2, <2>1, NothingDone
<1>9. CASE EndOfFile(c) /\ c \in Callers
  <2>1. /\ at[c] = "opening" /\ at'[c] = "done" /\ outcome'[c] = "ok" /\ Asked' = Asked
        /\ met[c] /\ answers[c] = <<>> /\ ~HasWriter(c)
    <3>1. c \notin Subscribers /\ c \notin Listers
      BY <1>9, BrokerAssumption DEF Callers, Clients, Managers
    <3>2. at[c] # "listing" /\ ~(at[c] = "listing" /\ met[c])
      BY <1>9 DEF Serviced, CallsHeld
    <3>3. c \in Clients /\ at[c] = "opening"
      BY <1>2, <1>9, <3>1, <3>2 DEF EndOfFile, Reading
    <3> QED
      BY <1>1, <1>2, <1>9, <3>1, <3>3 DEF EndOfFile, Finish, Reading, Register
  <2>2. crashed
    <3> SUFFICES ASSUME ~crashed PROVE FALSE
      OBVIOUS
    <3>1. PICK w \in InSession : session[w][1] = c
      BY <1>9, <2>1 DEF Serviced, MetHeld
    <3>2. life[c] = session[w][2]
      BY <3>1 DEF Serviced, ReadersHeld, Attended
    <3>3. session[w] \in Clients \X (1 .. MaxLives)
      BY <1>2 DEF InSession, Typed, TypeOK, Held
    <3>4. session[w] = <<c, life[c]>>
      BY <3>1, <3>2, <3>3
    <3> QED
      BY <2>1, <3>4 DEF HasWriter
  <2>3. RequestOf(c) # {}
    BY <1>9, <2>1, RequestsAsked DEF Serviced, CallsHeld
  <2>4. {r.box : r \in RequestOf(c)} # {}
    BY <2>3
  <2>5. Effect(c)' = "ok"
    BY <2>1 DEF Effect
  <2>6. \A d \in Callers : RequestOf(d)' = RequestOf(d)
    BY <2>1, RequestsAsked
  <2>7. {d \in Callers : at'[d] = "done"} = {d \in Callers : at[d] = "done"} \cup {c}
    BY <1>2, <1>3, <1>9, <2>1
  <2>8. [d \in Callers |-> Effect(d)'] = [[d \in Callers |-> Effect(d)] EXCEPT ![c] = "ok"]
    BY <1>5, <1>9, <2>5
  <2>9. Service!TellOfDeath(c)
    BY <1>1, <1>9, <2>1, <2>2, <2>4, <2>6, <2>7, <2>8 DEF Service!TellOfDeath, Callers
  <2> QED
    BY <1>9, <2>9 DEF Service!Next, Service!Managers, Callers
<1>10. CASE ReadListing(c)
  <2>1. c \notin Callers
    BY <1>10, BrokerAssumption DEF ReadListing, Callers, Managers
  <2>2. \A d \in Callers : Effect(d)' = Effect(d) /\ at'[d] = at[d]
    BY <1>2, <1>3, <1>5, <2>1
  <2>3. Asked' = Asked /\ UNCHANGED <<files, crashed>>
    BY <1>1, <1>10 DEF ReadListing, inlet, Asked, storage
  <2> QED
    BY <1>2, <2>2, <2>3, NothingDone
<1> QED
  BY <1>6, <1>7, <1>8, <1>9, <1>10

(* BoxService sees nothing of main. *)
LEMMA MainImplements ==
  ASSUME Listers = {}, Serviced, Typed', ReadRequest \/ EnqReserve \/ EnqFreeOld \/ EnqStore
  PROVE  Service!Next \/ UNCHANGED Service!vars
<1>1. UNCHANGED <<pc, session, result, files, at, answers, outcome>> /\ ~crashed
  BY DEF ReadRequest, EnqReserve, EnqFreeOld, EnqStore, clients, pool, storage
<1>2. Asked' = Asked
  <2>1. CASE ReadRequest
    BY <2>1, OneRequest DEF Serviced, Kept, CallsHeld
  <2>2. CASE EnqReserve \/ EnqFreeOld \/ EnqStore
    BY <2>2 DEF EnqReserve, EnqFreeOld, EnqStore, Asked
  <2> QED
    BY <2>1, <2>2
<1>3. \A d : Serving(d)' = Serving(d) /\ \A v \in Serving(d) : Outcome(v)' = Outcome(v)
  BY <1>1 DEF Serving, Outcome
<1>4. \A d \in Callers : Effect(d)' = Effect(d)
  BY <1>1, <1>3, EffectKept
<1> QED
  BY <1>1, <1>2, <1>4, NothingDone DEF Serviced, Kept

(* A worker's step leaves what every caller is given by other workers. *)
LEMMA OthersEffects ==
  ASSUME Typed, NEW w \in Workers, WorkerStep(w), NEW c,
         w \in Serving(c)' <=> w \in Serving(c),
         w \in Serving(c) => Outcome(w)' = Outcome(w),
         answers'[c] = answers[c]
  PROVE  Effect(c)' = Effect(c)
<1>1. UNCHANGED <<at, outcome>>
  BY DEF WorkerStep, DeqTake, DeqLoad, CopyRequest, LookUp, Opened, CreateOpen, CreateClose,
     RemoveBox, ListBox, NotServed, Answer, clients
<1>2. ASSUME NEW v \in Workers, v # w
      PROVE  (v \in Serving(c)' <=> v \in Serving(c)) /\ Outcome(v)' = Outcome(v)
  <2>1. pc'[v] = pc[v] /\ session'[v] = session[v] /\ result'[v] = result[v]
    BY <1>2, OtherWorkers
  <2> QED
    BY <2>1 DEF Serving, Outcome
<1>3. Serving(c) \subseteq Workers /\ Serving(c)' \subseteq Workers
  BY DEF Serving
<1>4. Serving(c)' = Serving(c) /\ \A v \in Serving(c) : Outcome(v)' = Outcome(v)
  BY <1>2, <1>3
<1> QED
  BY <1>1, <1>4, EffectKept

(* What a worker's step leaves alone. *)
LEMMA WorkerLeaves ==
  ASSUME NEW w \in Workers, WorkerStep(w)
  PROVE  UNCHANGED <<at, outcome>> /\ Asked' = Asked /\ ~crashed
BY DEF WorkerStep, DeqTake, DeqLoad, CopyRequest, LookUp, Opened, CreateOpen, CreateClose,
   RemoveBox, ListBox, NotServed, Answer, clients, inlet, Asked

(* Nor does it see what a worker does before it opens a box, and without one, or   *)
(* that it closes the file.                                                        *)
LEMMA QuietImplements ==
  ASSUME Listers = {}, Serviced, Typed', NEW w \in Workers,
         \/ DeqTake(w) \/ DeqLoad(w) \/ CopyRequest(w) \/ LookUp(w) \/ Opened(w)
         \/ CreateClose(w) \/ ListBox(w) \/ NotServed(w)
  PROVE  Service!Next \/ UNCHANGED Service!vars
<1>1. Typed /\ WorkerStep(w)
  BY DEF Serviced, Kept, WorkerStep
<1>2. ~ListBox(w)
  <2> SUFFICES ASSUME ListBox(w) PROVE FALSE
    OBVIOUS
  <2>1. w \in Holding /\ request[w].op = "list"
    BY DEF ListBox, GoTo, Holding
  <2>2. session[w][1] \in Clients /\ OpCode(session[w][1]) = "list"
    BY <2>1, BodyAsked DEF Serviced
  <2> QED
    BY <2>2, OpCodes
<1>3. files' = files /\ answers' = answers
  BY <1>2 DEF DeqTake, DeqLoad, CopyRequest, LookUp, Opened, CreateClose, NotServed, clients,
     storage
<1>4. pc \in [Workers -> {"dequeue", "load", "copy", "lookup", "open", "serve", "close",
                          "answer", "returned"}]
      /\ session' \in [Workers -> (Clients \X (1 .. MaxLives)) \cup {NoSession}]
      /\ result \in [Workers -> Results \cup {"none"}]
  BY <1>1 DEF Typed, TypeOK
<1>5. CASE CreateClose(w)
  <2>1. /\ pc[w] = "close" /\ pc'[w] = "answer" /\ session' = session
        /\ result'[w] = "ok"
    BY <1>4, <1>5 DEF CreateClose, GoTo, SetResult
  <2>2. Outcome(w)' = Outcome(w) /\ \A d : w \in Serving(d)' <=> w \in Serving(d)
    BY <2>1 DEF Outcome, Serving
  <2>3. \A d \in Callers : Effect(d)' = Effect(d)
    BY <1>1, <1>3, <2>2, OthersEffects
  <2> QED
    BY <1>1, <1>3, <2>3, WorkerLeaves, NothingDone
<1>6. CASE ~CreateClose(w)
  <2>1. pc[w] \notin {"close", "answer"} /\ pc'[w] \notin {"close", "answer"}
    BY <1>2, <1>4, <1>6 DEF DeqTake, DeqLoad, CopyRequest, LookUp, Opened, NotServed, GoTo,
       EndRequest
  <2>2. \A d : w \notin Serving(d) /\ w \notin Serving(d)'
    BY <2>1 DEF Serving
  <2>3. \A d \in Callers : Effect(d)' = Effect(d)
    BY <1>1, <1>3, <2>2, OthersEffects
  <2> QED
    BY <1>1, <1>3, <2>3, WorkerLeaves, NothingDone
<1> QED
  BY <1>5, <1>6

(* A worker that is about to serve a caller reads the box the caller asked for, and*)
(* the request has not taken effect.                                               *)
LEMMA CallerDue ==
  ASSUME Serviced, ~crashed, NEW w \in Workers, pc[w] = "serve", NEW c \in Callers,
         session[w][1] = c
  PROVE  /\ \E box \in Boxes : BoxRead(w) = {box} /\ {r.box : r \in RequestOf(c)} = {box}
         /\ Effect(c) = "none" /\ at[c] # "done" /\ answers[c] = <<>>
<1>1. /\ Kept /\ FirstLap /\ RunOnce /\ Typed /\ AskedOnce /\ w \in Holding /\ w \in InSession
  BY DEF Serviced, Kept, OnceHeld, Holding, InSession
<1>2. /\ elem[w] \in Elements /\ elem[w] \notin freed /\ requests[elem[w]].client = c
      /\ c \in Clients /\ c # None
  BY <1>1, BodyAsked, Askers
<1>3. PICK r : r = requests[elem[w]]
  OBVIOUS
<1>4. BoxRead(w) = {r.box}
  BY <1>2, <1>3 DEF BoxRead, Contents
<1>5. r \in Asked /\ r.client = c
  BY <1>2, <1>3 DEF Asked, Elements
<1>6. ASSUME NEW q \in Asked, q.client = c PROVE q = r
  <2>1. ASSUME NEW n \in 1 .. Len(server_pipe), q = server_pipe[n] PROVE q = r
    BY <1>1, <1>2, <1>6, <2>1 DEF AskedOnce
  <2>2. ASSUME NEW e \in Elements, q = requests[e] PROVE q = r
    BY <1>1, <1>2, <1>3, <1>6, <2>2 DEF AskedOnce
  <2> QED
    BY <2>1, <2>2 DEF Asked, Elements
<1>7. RequestOf(c) = {r}
  BY <1>5, <1>6, RequestsAsked
<1>8. r.box \in Boxes
  BY <1>5 DEF Serviced, CallsHeld
<1>9. at[c] # "done" /\ answers[c] = <<>>
  BY <1>1 DEF Serviced, ReadersHeld, Attended
<1>10. Serving(c) = {}
  <2> SUFFICES ASSUME NEW v \in Serving(c) PROVE FALSE
    OBVIOUS
  <2>1. v \in Holding /\ session[v][1] = c /\ v # w
    BY DEF Serving, Holding
  <2> QED
    BY <1>1, <2>1, OwnClients
<1>11. Effect(c) = "none"
  BY <1>9, <1>10 DEF Effect
<1> QED
  BY <1>4, <1>7, <1>8, <1>9, <1>11

(* After it has served the caller, the result is the request's. *)
LEMMA CallerServed ==
  ASSUME Serviced, Kept', FirstLap', RunOnce', NEW w \in Workers, CreateOpen(w) \/ RemoveBox(w),
         NEW c, session[w][1] = c
  PROVE  /\ c \in Clients /\ OpCode(c) = request[w].op
         /\ Effect(c)' = IF pc'[w] = "close" THEN "ok" ELSE result'[w]
         /\ \A d \in Callers : d # c => Effect(d)' = Effect(d)
<1>1. /\ Kept /\ FirstLap /\ Typed /\ w \in Holding /\ w \in InSession /\ ~crashed
      /\ WorkerStep(w) /\ pc[w] = "serve"
  BY DEF Serviced, Kept, CreateOpen, RemoveBox, GoTo, Holding, InSession, WorkerStep
<1>2. c \in Clients /\ OpCode(c) = request[w].op
  BY <1>1, BodyAsked
<1>3. UNCHANGED <<at, answers, session>>
  BY DEF CreateOpen, RemoveBox, clients
<1>4. pc'[w] \in {"close", "answer"}
  BY <1>1 DEF CreateOpen, RemoveBox, GoTo, Typed, TypeOK
<1>5. at'[c] # "done" /\ answers'[c] = <<>>
  BY <1>1, <1>3 DEF Serviced, ReadersHeld, Attended
<1>6. session'[w][1] = c
  BY <1>3
<1>7. ASSUME NEW d \in Callers, d # c PROVE Effect(d)' = Effect(d)
  <2>1. w \notin Serving(d) /\ w \notin Serving(d)' /\ answers'[d] = answers[d]
    BY <1>3, <1>7 DEF Serving
  <2> QED
    BY <1>1, <2>1, OthersEffects
<1>8. EffectServed'
  BY ServingEffectNext
<1>9. Effect(c)' = IF pc'[w] = "close" THEN "ok" ELSE result'[w]
  BY <1>2, <1>4, <1>5, <1>6, <1>8 DEF EffectServed
<1> QED
  BY <1>2, <1>7, <1>9

(* Opening the file is where a creation takes effect, or fails for want of room.   *)
LEMMA CreateImplements ==
  ASSUME Serviced, Kept', FirstLap', RunOnce', NEW w \in Workers, CreateOpen(w),
         IsFiniteSet(Workers), Cardinality(Workers) <= MaxOpenFiles
  PROVE  Service!Next
<1> DEFINE closing == {v \in Workers : pc[v] = "close"}
<1>1. PICK c : session[w][1] = c
  OBVIOUS
<1>2. /\ c \in Clients /\ OpCode(c) = "create"
      /\ Effect(c)' = IF pc'[w] = "close" THEN "ok" ELSE result'[w]
      /\ \A d \in Callers : d # c => Effect(d)' = Effect(d)
  <2>1. request[w].op = "create"
    BY DEF CreateOpen
  <2>2. CreateOpen(w) \/ RemoveBox(w)
    OBVIOUS
  <2> QED
    BY <1>1, <2>1, <2>2, CallerServed
<1>3. c \in Creators /\ c \in Callers
  BY <1>2, OpCodes DEF Callers
<1>4. ~crashed /\ pc[w] = "serve" /\ WorkerStep(w) /\ Typed /\ crashed' = crashed
  BY DEF CreateOpen, GoTo, WorkerStep, Serviced, Kept
<1>5. PICK box \in Boxes : BoxRead(w) = {box} /\ {r.box : r \in RequestOf(c)} = {box}
  BY <1>1, <1>3, <1>4, CallerDue
<1>6. Effect(c) = "none" /\ at' = at /\ Asked' = Asked
  BY <1>1, <1>3, <1>4, CallerDue, WorkerLeaves
<1>7. \A d \in Callers : RequestOf(d)' = RequestOf(d)
  BY <1>6, RequestsAsked
<1>8. Cardinality(closing) < MaxOpenFiles
  <2>1. closing \subseteq Workers \ {w}
    BY <1>4
  <2>2. IsFiniteSet(Workers \ {w}) /\ Cardinality(Workers \ {w}) = Cardinality(Workers) - 1
    BY FS_RemoveElement
  <2>3. Cardinality(closing) <= Cardinality(Workers \ {w}) /\ Cardinality(closing) \in Nat
        /\ Cardinality(Workers) \in Nat
    BY <2>1, <2>2, FS_Subset, FS_CardinalityType
  <2> QED
    BY <2>2, <2>3, Bounds
<1>9. box # None
  BY BrokerAssumption
<1> DEFINE exists == box \in files \/ Cardinality(files) < MaxBoxes
<1>10. /\ files' = IF exists THEN files \cup {box} ELSE files
       /\ IF exists THEN pc' = [pc EXCEPT ![w] = "close"]
          ELSE pc' = [pc EXCEPT ![w] = "answer"] /\ result' = [result EXCEPT ![w] = "error"]
  BY <1>5, <1>8, <1>9 DEF CreateOpen, GoTo, SetResult
<1>11. pc \in [Workers -> {"dequeue", "load", "copy", "lookup", "open", "serve", "close",
                           "answer", "returned"}]
       /\ result \in [Workers -> Results \cup {"none"}]
  BY <1>4 DEF Typed, TypeOK
<1>12. Effect(c)' = IF exists THEN "ok" ELSE "error"
  BY <1>2, <1>10, <1>11
<1>13. [d \in Callers |-> Effect(d)']
         = [[d \in Callers |-> Effect(d)] EXCEPT ![c] = IF exists THEN "ok" ELSE "error"]
  BY <1>2, <1>3, <1>12
<1>14. UNCHANGED <<[d \in Callers |-> {r.box : r \in RequestOf(d)}],
                   {d \in Callers : at[d] = "done"}>>
  BY <1>6, <1>7
<1> DEFINE wanted == [d \in Callers |-> {r.box : r \in RequestOf(d)}]
<1>15. wanted[c] = {box} /\ (wanted[c] \subseteq files <=> box \in files)
  BY <1>3, <1>5
<1>16. Service!Cardinality(files) = Cardinality(files)
  BY DEF Service!Cardinality, Cardinality
<1>17. Service!Due(c)
  BY <1>3, <1>4, <1>6, <1>15 DEF Service!Due, Callers
<1>18. CASE exists
  <2>1. /\ files' = files \cup wanted[c]
        /\ wanted[c] \subseteq files \/ Cardinality(files) < MaxBoxes
        /\ [d \in Callers |-> Effect(d)'] = [[d \in Callers |-> Effect(d)] EXCEPT ![c] = "ok"]
    BY <1>10, <1>13, <1>15, <1>18
  <2>2. Service!Create(c)
    BY <1>4, <1>14, <1>17, <1>16, <2>1 DEF Service!Create, Callers
  <2> QED
    BY <1>3, <2>2 DEF Service!Next
<1>19. CASE ~exists
  <2>1. Cardinality(files) = MaxBoxes
    <3>1. Cardinality(files) \in Nat /\ Cardinality(files) <= MaxBoxes
      BY FS_CardinalityType DEF Serviced, CallsHeld
    <3> QED
      BY <1>19, <3>1, Bounds
  <2>2. /\ files' = files /\ ~(wanted[c] \subseteq files)
        /\ [d \in Callers |-> Effect(d)'] = [[d \in Callers |-> Effect(d)] EXCEPT ![c] = "error"]
    BY <1>10, <1>13, <1>15, <1>19
  <2>3. Service!CreateFails(c)
    BY <1>4, <1>14, <1>17, <1>16, <2>1, <2>2 DEF Service!CreateFails, Callers
  <2> QED
    BY <1>3, <2>3 DEF Service!Next
<1> QED
  BY <1>18, <1>19

(* Unlinking the file is where a removal takes effect; the list it then looks      *)
(* through is empty.                                                               *)
LEMMA RemoveImplements ==
  ASSUME Serviced, Kept', FirstLap', RunOnce', NEW w \in Workers, RemoveBox(w)
  PROVE  Service!Next
<1>1. PICK c : session[w][1] = c
  OBVIOUS
<1>2. /\ c \in Clients /\ OpCode(c) = "remove"
      /\ Effect(c)' = IF pc'[w] = "close" THEN "ok" ELSE result'[w]
      /\ \A d \in Callers : d # c => Effect(d)' = Effect(d)
  BY <1>1, CallerServed DEF RemoveBox
<1>3. c \in Removers /\ c \in Callers
  BY <1>2, OpCodes DEF Callers
<1>4. ~crashed /\ pc[w] = "serve" /\ WorkerStep(w) /\ Typed /\ crashed' = crashed /\ list = <<>>
  BY DEF RemoveBox, GoTo, WorkerStep, Serviced, Kept, Typed, Held
<1>5. PICK box \in Boxes : BoxRead(w) = {box} /\ {r.box : r \in RequestOf(c)} = {box}
  BY <1>1, <1>3, <1>4, CallerDue
<1>6. Effect(c) = "none" /\ at' = at /\ Asked' = Asked
  BY <1>1, <1>3, <1>4, CallerDue, WorkerLeaves
<1>7. \A d \in Callers : RequestOf(d)' = RequestOf(d)
  BY <1>6, RequestsAsked
<1>8. ~Listed(list, box)
  BY <1>4 DEF Listed, Range
<1>9. /\ files' = files \ {box} /\ pc' = [pc EXCEPT ![w] = "answer"]
      /\ result' = [result EXCEPT ![w] = "error"]
  BY <1>5, <1>8 DEF RemoveBox, GoTo, SetResult
<1>10. pc \in [Workers -> {"dequeue", "load", "copy", "lookup", "open", "serve", "close",
                           "answer", "returned"}]
       /\ result \in [Workers -> Results \cup {"none"}]
  BY <1>4 DEF Typed, TypeOK
<1>11. Effect(c)' = "error"
  BY <1>2, <1>9, <1>10
<1>12. [d \in Callers |-> Effect(d)'] = [[d \in Callers |-> Effect(d)] EXCEPT ![c] = "error"]
  BY <1>2, <1>3, <1>11
<1>13. UNCHANGED <<[d \in Callers |-> {r.box : r \in RequestOf(d)}],
                   {d \in Callers : at[d] = "done"}>>
  BY <1>6, <1>7
<1>14. Service!Remove(c)
  BY <1>3, <1>4, <1>5, <1>6, <1>9, <1>12, <1>13 DEF Service!Remove, Service!Due, Callers
<1> QED
  BY <1>3, <1>14 DEF Service!Next

(* The answer is the result. *)
LEMMA AnswerImplements ==
  ASSUME Serviced, Typed', NEW w \in Workers, Answer(w)
  PROVE  Service!Next \/ UNCHANGED Service!vars
<1>1. PICK c : session[w][1] = c
  OBVIOUS
<1>2. /\ Kept /\ FirstLap /\ RunOnce /\ Typed /\ w \in Holding /\ w \in InSession
      /\ ~crashed /\ WorkerStep(w) /\ pc[w] = "answer"
  BY DEF Serviced, Kept, Answer, Holding, InSession, WorkerStep
<1>3. c \in Clients
  BY <1>1, <1>2, BodyAsked
<1>4. at[c] # "done" /\ answers[c] = <<>>
  BY <1>1, <1>2 DEF Serviced, ReadersHeld, Attended
<1>5. files' = files /\ at' = at /\ Asked' = Asked
  BY <1>2, WorkerLeaves DEF Answer, storage
<1>6. /\ answers \in [Clients -> Seq(Results)]
      /\ result[w] \in Results /\ Callers \subseteq Clients
      /\ pc \in [Workers -> {"dequeue", "load", "copy", "lookup", "open", "serve", "close",
                             "answer", "returned"}]
  BY <1>2 DEF Typed, TypeOK, Held, Callers, Clients, Managers
<1>7. \A d \in Callers : Effect(d)' = Effect(d)
  <2> SUFFICES ASSUME NEW d \in Callers PROVE Effect(d)' = Effect(d)
    OBVIOUS
  <2>1. CASE ~HasReader(session[w])
    <3>1. UNCHANGED <<answers, pool>>
      BY <2>1 DEF Answer
    <3>2. (w \in Serving(d)' <=> w \in Serving(d)) /\ Outcome(w)' = Outcome(w)
      BY <3>1 DEF Serving, Outcome, pool
    <3> QED
      BY <1>2, <3>1, <3>2, OthersEffects
  <2>2. CASE HasReader(session[w]) /\ d # c
    <3>1. answers'[d] = answers[d] /\ pc'[w] = "dequeue"
      BY <1>1, <1>3, <1>6, <2>2 DEF Answer, EndRequest
    <3>2. w \notin Serving(d) /\ w \notin Serving(d)'
      BY <1>1, <2>2, <3>1 DEF Serving
    <3> QED
      BY <1>2, <3>1, <3>2, OthersEffects
  <2>3. CASE HasReader(session[w]) /\ d = c
    <3>1. answers'[c] = Append(answers[c], result[w])
      BY <1>1, <1>3, <1>6, <2>3 DEF Answer
    <3>2. answers'[c] = <<result[w]>>
      BY <1>4, <1>6, <3>1
    <3>3. Effect(c)' = result[w]
      BY <1>4, <1>5, <3>2 DEF Effect
    <3>4. EffectServed
      BY <1>2, ServingEffect
    <3>5. Effect(c) = result[w]
      BY <1>1, <1>2, <1>3, <1>4, <3>4 DEF EffectServed
    <3> QED
      BY <2>3, <3>3, <3>5
  <2> QED
    BY <2>1, <2>2, <2>3
<1> QED
  BY <1>2, <1>5, <1>7, NothingDone

(* Every step maps to a step of the service or a stutter. *)
LEMMA NextImplements ==
  ASSUME MaxLives = 1, Listers = {}, IsFiniteSet(Workers), Cardinality(Workers) <= MaxOpenFiles,
         Serviced, Kept', FirstLap', RunOnce', [Next]_vars
  PROVE  [Service!Next]_(Service!vars)
<1> SUFFICES Service!Next \/ UNCHANGED Service!vars
  OBVIOUS
<1>1. Typed /\ Typed' /\ Kept
  BY DEF Serviced, Kept
<1>2. CASE UNCHANGED vars
  <2>1. /\ UNCHANGED <<pc, session, result, files, at, answers, outcome, crashed>>
        /\ Asked' = Asked
    BY <1>2 DEF vars, clients, inlet, pool, storage, Asked
  <2>2. \A d : Serving(d)' = Serving(d) /\ \A v \in Serving(d) : Outcome(v)' = Outcome(v)
    BY <2>1 DEF Serving, Outcome
  <2>3. \A d \in Callers : Effect(d)' = Effect(d)
    BY <2>1, <2>2, EffectKept
  <2> QED
    BY <1>1, <2>1, <2>3, NothingDone
<1> QED
  BY <1>1, <1>2, ClientImplements, MainImplements, QuietImplements, CreateImplements,
     RemoveImplements, AnswerImplements, Steps

(* At first nothing is wanted, made or told. *)
LEMMA InitImplements == Init => Service!Init /\ CallsHeld /\ MetHeld
<1> SUFFICES ASSUME Init PROVE Service!Init /\ CallsHeld /\ MetHeld
  OBVIOUS
<1>1. Asked = {} /\ Callers \subseteq Clients
  BY DEF Init, Asked, Callers, Clients, Managers
<1>2. \A c \in Callers : RequestOf(c) = {}
  BY <1>1, RequestsAsked
<1>3. \A c \in Callers : Serving(c) = {}
  BY DEF Init, Serving
<1>4. \A c \in Callers : at[c] # "done" /\ answers[c] = <<>>
  BY <1>1 DEF Init
<1>5. \A c \in Callers : Effect(c) = "none"
  BY <1>3, <1>4 DEF Effect
<1>6. Service!Init
  <2>1. \A c \in Callers : {r.box : r \in RequestOf(c)} = {}
    BY <1>2
  <2> QED
    BY <1>4, <1>5, <2>1 DEF Service!Init, Service!Managers, Callers, Init
<1>7. CallsHeld
  <2>1. IsFiniteSet(files) /\ Cardinality(files) <= MaxBoxes
    BY FS_EmptySet, Bounds DEF Init
  <2> QED
    BY <1>1, <2>1 DEF Init, CallsHeld
<1>8. MetHeld
  BY <1>1 DEF Init, MetHeld
<1> QED
  BY <1>6, <1>7, <1>8

(* BoxContract: where each client runs once and nobody lists, and there is a handle*)
(* for every worker, create_box and remove_box give each manager, in the first lap,*)
(* what BoxService promises: its request takes effect once, between its asking and *)
(* its being told, and it is told what its own request came to.                    *)
THEOREM KeepsBoxContract ==
  ASSUME MaxLives = 1, Listers = {}, IsFiniteSet(Workers), Cardinality(Workers) <= MaxOpenFiles
  PROVE  Spec /\ []FirstLap => BoxContract
<1> DEFINE Inv == ReadersHeld /\ CallsHeld /\ MetHeld
<1>1. Init => Inv /\ Service!Init
  BY InitOnce, InitImplements
<1>2. Kept /\ Inv /\ [Next]_vars => Inv'
  BY ReadersNext, CallsNext, MetNext DEF Kept
<1>3. Kept => RunOnce
  <2> SUFFICES ASSUME Kept, NEW c \in Clients PROVE life[c] <= 1
    BY DEF RunOnce
  <2>1. life \in [Clients -> 0 .. 1]
    BY DEF Kept, Typed, TypeOK
  <2> QED
    BY <2>1
<1>4. Kept' => RunOnce'
  BY <1>3, PTL
<1>5. /\ Kept /\ Inv /\ FirstLap /\ RunOnce /\ [Next]_vars
      /\ Kept' /\ FirstLap' /\ RunOnce'
      => [Service!Next]_(Service!vars)
  BY NextImplements DEF Serviced
<1> QED
  BY <1>1, <1>2, <1>3, <1>4, <1>5, AlwaysKept, PTL DEF Spec, BoxContract, Service!Spec
--------------------------------------------------------------------------------
(* Nobody is forgotten *)

(* While main has read no list request it reads whole requests, and every client   *)
(* that waits has one on its way or read.                                          *)
PlainHeld ==
    Plain => /\ consumed = 0
             /\ \A c \in Clients : at[c] \in {"asking", "opening"} => \E r \in Asked : r.client = c

(* The first lap leaves no slot out. *)
SlotsFull == FirstLap => \A j \in Slots : j < Stored => pcq_buffer[j] = j + 1

(* Some worker has loaded a slot before it was stored into. *)
NullLoaded == \E w \in Workers : pc[w] = "copy" /\ elem[w] = NULL

(* If none has, each element loaded is a worker's or was freed. *)
LoadedHeld ==
    /\ \A w \in Workers : pc[w] \in {"dequeue", "load"} => elem[w] = NULL
    /\ FirstLap /\ ~NullLoaded
         => \A e \in Elements : e <= Loaded => e \in freed \/ \E w \in Workers : elem[w] = e

(* In the first lap no session of a subscriber or publisher is left open. *)
ManagersLeaked == FirstLap => \A s \in leaked : s[1] \in Managers

(* A session's client has had its pipe opened, and one whose element was freed has *)
(* its answer or, a subscriber, needs none.                                        *)
Told(c) ==
    /\ c \in Callers => at[c] = "done" \/ answers[c] # <<>>
    /\ c \in Subscribers => met[c]

ToldHeld ==
    FirstLap /\ RunOnce /\ ~crashed
        => /\ \A w \in InSession : met[session[w][1]]
           /\ \A e \in freed : Told(requests[e].client)

(* What a client's step does to those that wait. *)
LEMMA PlainClient ==
  ASSUME Typed, PlainHeld, Plain, NEW c \in Clients,
         \/ Start(c) \/ Register(c) \/ OpenSession(c) \/ ReadAnswer(c)
         \/ ReadListing(c) \/ EndOfFile(c) \/ Kill(c)
  PROVE  PlainHeld'
<1>1. at \in [Clients -> {"away", "starting", "asking", "opening", "listing", "done"}]
  BY DEF Typed, TypeOK
<1>2. consumed' = consumed /\ requests' = requests
  BY DEF Start, Register, OpenSession, ReadAnswer, ReadListing, EndOfFile, Kill, inlet
<1>3. consumed = 0
  BY DEF PlainHeld
<1>4. \A d \in Clients : d # c => at'[d] = at[d]
  BY <1>1 DEF Start, Register, OpenSession, ReadAnswer, ReadListing, EndOfFile, Kill, Finish
<1>5. CASE Register(c)
  <2> DEFINE To(box) == [op |-> OpCode(c), client |-> c, box |-> box]
  <2>1. PICK box : server_pipe' = Append(server_pipe, To(box))
    BY <1>5 DEF Register
  <2>2. Asked' = Asked \cup {To(box)} /\ To(box).client = c
    BY <1>2, <2>1, SentOneMore
  <2> HIDE DEF To
  <2>3. ASSUME NEW d \in Clients, at'[d] \in {"asking", "opening"}
        PROVE  \E r \in Asked' : r.client = d
    <3>1. CASE d = c
      BY <2>2, <3>1
    <3>2. CASE d # c
      BY <1>4, <2>2, <2>3, <3>2 DEF PlainHeld
    <3> QED
      BY <3>1, <3>2
  <2> QED
    BY <1>2, <1>3, <2>3 DEF PlainHeld
<1>6. CASE ~Register(c)
  <2>1. server_pipe' = server_pipe
    BY <1>6 DEF Start, OpenSession, ReadAnswer, ReadListing, EndOfFile, Kill, inlet
  <2>2. Asked' = Asked
    BY <1>2, <2>1 DEF Asked
  <2>3. at'[c] \in {"asking", "opening"} => at[c] \in {"asking", "opening"}
    BY <1>1, <1>6 DEF Start, OpenSession, ReadAnswer, ReadListing, EndOfFile, Kill, Finish
  <2> QED
    BY <1>2, <1>3, <1>4, <2>2, <2>3 DEF PlainHeld
<1> QED
  BY <1>5, <1>6

(* Every step keeps requests whole and clients' requests on their way. *)
LEMMA PlainNext == Typed /\ PlainHeld /\ [Next]_vars => PlainHeld'
<1> SUFFICES ASSUME Typed, PlainHeld, [Next]_vars, Plain' PROVE PlainHeld'
  BY DEF PlainHeld
<1>1. Plain
  BY PlainBefore
<1>2. CASE UNCHANGED <<at, server_pipe, consumed, requests>>
  BY <1>1, <1>2 DEF PlainHeld, Plain, Asked
<1>3. CASE ReadRequest
  <2>1. consumed = 0 /\ server_pipe # <<>> /\ at' = at
    BY <1>1, <1>3 DEF PlainHeld, ReadRequest, clients
  <2>2. requests' = Append(requests, Head(server_pipe))
    BY <1>3, <2>1 DEF ReadRequest
  <2>3. /\ requests'[Len(requests) + 1] = Head(server_pipe)
        /\ Len(requests) + 1 \in 1 .. Len(requests')
    BY <2>2, Askers
  <2>4. Head(server_pipe).op # "list"
    BY <2>3 DEF Plain
  <2>5. consumed' = 0 /\ Asked' = Asked
    BY <1>3, <2>1, <2>4, PlainRequest
  <2> QED
    BY <1>1, <2>1, <2>5 DEF PlainHeld
<1>4. CASE EnqReserve \/ EnqFreeOld \/ EnqStore
  BY <1>2, <1>4 DEF EnqReserve, EnqFreeOld, EnqStore, clients
<1>5. ASSUME NEW w \in Workers, WorkerStep(w) PROVE PlainHeld'
  BY <1>2, <1>5 DEF WorkerStep, DeqTake, DeqLoad, CopyRequest, LookUp, Opened, CreateOpen,
     CreateClose, RemoveBox, ListBox, NotServed, Answer, clients, inlet
<1>6. CASE UNCHANGED vars
  BY <1>2, <1>6 DEF vars, clients, inlet
<1> QED
  BY <1>1, <1>3, <1>4, <1>5, <1>6, PlainClient, Steps DEF WorkerStep

(* main stores elements in their order; nobody else stores. *)
LEMMA StoredMoves ==
  ASSUME Typed, FirstLapHeld, [Next]_vars
  PROVE  \/ pcq_buffer' = pcq_buffer /\ Stored' = Stored
         \/ EnqStore /\ Stored' = Stored + 1 /\ Len(requests) = Stored + 1 /\ requests' = requests
<1>1. CASE UNCHANGED <<requests, main_at, pcq_buffer>>
  BY <1>1 DEF Stored
<1>2. ASSUME NEW c \in Clients,
             \/ Start(c) \/ Register(c) \/ OpenSession(c) \/ ReadAnswer(c)
             \/ ReadListing(c) \/ EndOfFile(c) \/ Kill(c)
      PROVE  UNCHANGED <<requests, main_at, pcq_buffer>>
  BY <1>2 DEF Start, Register, OpenSession, ReadAnswer, ReadListing, EndOfFile, Kill, inlet, queue
<1>3. CASE ReadRequest
  <2>1. Len(requests') = Len(requests) + 1 /\ Len(requests) \in Nat
    BY <1>3, Askers DEF ReadRequest
  <2> QED
    BY <1>3, <2>1 DEF ReadRequest, Stored, queue
<1>4. CASE EnqReserve \/ EnqFreeOld
  BY <1>4 DEF EnqReserve, EnqFreeOld, Stored
<1>5. CASE EnqStore
  BY <1>5, Askers DEF EnqStore, Stored
<1>6. ASSUME NEW w \in Workers, WorkerStep(w) PROVE UNCHANGED <<requests, main_at, pcq_buffer>>
  BY <1>6 DEF WorkerStep, DeqTake, DeqLoad, CopyRequest, LookUp, Opened, CreateOpen,
     CreateClose, RemoveBox, ListBox, NotServed, Answer, inlet, queue
<1>7. CASE UNCHANGED vars
  BY <1>1, <1>7 DEF vars, inlet, queue
<1> QED
  BY <1>1, <1>2, <1>3, <1>4, <1>5, <1>6, <1>7, Steps DEF WorkerStep

(* Every step keeps the slots stored into full. *)
LEMMA SlotsNext == Typed /\ FirstLapHeld /\ SlotsFull /\ [Next]_vars => SlotsFull'
<1> SUFFICES ASSUME Typed, FirstLapHeld, SlotsFull, [Next]_vars, FirstLap',
                    NEW j \in Slots, j < Stored'
             PROVE  pcq_buffer'[j] = j + 1
  BY DEF SlotsFull
<1>1. FirstLap /\ Ring
  BY WasFirstLap, RingNumbers
<1>2. CASE pcq_buffer' = pcq_buffer /\ Stored' = Stored
  BY <1>1, <1>2 DEF SlotsFull
<1>3. CASE EnqStore /\ Stored' = Stored + 1 /\ Len(requests) = Stored + 1
  <2>1. Stored \in Nat /\ Stored < Capacity
    BY <1>1, <1>3, RingNumbers, Bounds DEF FirstLap
  <2>2. pcq_head = Stored /\ Stored \in Slots
    BY <1>1, <2>1, AroundNext DEF Ring
  <2>3. /\ pcq_buffer' = [pcq_buffer EXCEPT ![Stored] = Stored + 1]
        /\ pcq_buffer \in [Slots -> Elements \cup {NULL}]
    BY <1>3, <2>2 DEF EnqStore, Typed, TypeOK
  <2>4. CASE j = Stored
    BY <2>3, <2>4
  <2>5. CASE j # Stored
    <3>1. j < Stored
      BY <1>3, <2>1, <2>5 DEF Slots
    <3> QED
      BY <1>1, <2>3, <2>5, <3>1 DEF SlotsFull
  <2> QED
    BY <2>4, <2>5
<1> QED
  BY <1>2, <1>3, StoredMoves

(* Workers load elements in their order; nobody else loads, and each step that does *)
(* neither load nor end a request leaves the worker's element.                     *)
LEMMA LoadedMoves ==
  ASSUME Typed, FirstLapHeld, [Next]_vars
  PROVE  \/ Loaded' = Loaded /\ elem' = elem
         \/ \E w \in Workers : DeqLoad(w) /\ Loaded' = Loaded + 1
         \/ \E w \in InSession : EndRequest(w) /\ Loaded' = Loaded
<1>1. CASE UNCHANGED <<requests, main_at, pcq_current_size, pc, elem>>
  BY <1>1 DEF Loaded, Reserved, Loading
<1>2. ASSUME NEW c \in Clients,
             \/ Start(c) \/ Register(c) \/ OpenSession(c) \/ ReadAnswer(c)
             \/ ReadListing(c) \/ EndOfFile(c) \/ Kill(c)
      PROVE  UNCHANGED <<requests, main_at, pcq_current_size, pc, elem>>
  BY <1>2 DEF Start, Register, OpenSession, ReadAnswer, ReadListing, EndOfFile, Kill, inlet, queue,
     pool
<1>3. CASE ReadRequest \/ EnqReserve \/ EnqFreeOld \/ EnqStore
  <2>1. Reserved' - pcq_current_size' = Reserved - pcq_current_size
    <3>1. CASE ReadRequest
      <4>1. Len(requests') = Len(requests) + 1 /\ Len(requests) \in Nat
        BY <3>1, Askers DEF ReadRequest
      <4> QED
        BY <3>1, <4>1 DEF ReadRequest, Reserved, queue
    <3>2. CASE EnqReserve
      BY <3>2, RingNumbers DEF EnqReserve, Reserved
    <3>3. CASE EnqFreeOld \/ EnqStore
      BY <3>3 DEF EnqFreeOld, EnqStore, Reserved
    <3> QED
      BY <1>3, <3>1, <3>2, <3>3
  <2>2. pc' = pc /\ elem' = elem
    BY <1>3 DEF ReadRequest, EnqReserve, EnqFreeOld, EnqStore, pool
  <2>3. Loaded' = Loaded
    BY <2>1, <2>2 DEF Loaded, Loading
  <2> QED
    BY <2>2, <2>3
<1>4. ASSUME NEW w \in Workers, WorkerStep(w)
      PROVE  \/ Loaded' = Loaded /\ elem' = elem
             \/ DeqLoad(w) /\ Loaded' = Loaded + 1
             \/ w \in InSession /\ EndRequest(w) /\ Loaded' = Loaded
  <2>1. Reserved' = Reserved
    BY <1>4 DEF WorkerStep, DeqTake, DeqLoad, CopyRequest, LookUp, Opened, CreateOpen,
       CreateClose, RemoveBox, ListBox, NotServed, Answer, inlet, Reserved
  <2>2. CASE DeqTake(w)
    <3>1. /\ pc[w] # "load" /\ pc' = [pc EXCEPT ![w] = "load"] /\ elem' = elem
          /\ pcq_current_size' = pcq_current_size - 1
      BY <2>2 DEF DeqTake, GoTo
    <3>2. Cardinality(Loading') = Cardinality(Loading) + 1
      BY <3>1, LoadingMoves
    <3>3. Loaded' = Loaded
      BY <2>1, <3>1, <3>2, RingNumbers DEF Loaded
    <3> QED
      BY <3>1, <3>3
  <2>3. CASE DeqLoad(w)
    <3>1. /\ pc[w] = "load" /\ pc' = [pc EXCEPT ![w] = "copy"]
          /\ pcq_current_size' = pcq_current_size /\ "copy" # "load"
      BY <2>3 DEF DeqLoad, GoTo
    <3>2. Cardinality(Loading') = Cardinality(Loading) - 1
      BY <3>1, LoadingMoves
    <3>3. Loaded' = Loaded + 1
      BY <2>1, <3>1, <3>2, RingNumbers DEF Loaded
    <3> QED
      BY <2>3, <3>3
  <2>4. CASE EndRequest(w) /\ (NotServed(w) \/ Answer(w))
    <3>1. /\ w \in InSession /\ pc[w] # "load" /\ pc' = [pc EXCEPT ![w] = "dequeue"]
          /\ pcq_current_size' = pcq_current_size /\ "dequeue" # "load"
      BY <2>4 DEF NotServed, Answer, EndRequest, InSession
    <3>2. Loading' = Loading
      BY <3>1, LoadingMoves
    <3> QED
      BY <2>1, <2>4, <3>1, <3>2 DEF Loaded
  <2>5. CASE ~(EndRequest(w) /\ (NotServed(w) \/ Answer(w))) /\ ~DeqTake(w) /\ ~DeqLoad(w)
    <3>1. pcq_current_size' = pcq_current_size /\ elem' = elem
      BY <1>4, <2>5 DEF WorkerStep, CopyRequest, LookUp, Opened, CreateOpen, CreateClose,
         RemoveBox, ListBox, NotServed, Answer, queue, pool
    <3>2. \/ pc' = pc
          \/ \E to \in {"lookup", "returned", "open", "serve", "close", "answer"} :
                pc' = [pc EXCEPT ![w] = to] /\ pc[w] # "load"
      BY <1>4, <2>5 DEF WorkerStep, CopyRequest, LookUp, Opened, CreateOpen, CreateClose,
         RemoveBox, ListBox, NotServed, Answer, GoTo, pool
    <3>3. Loading' = Loading
      BY <3>2, LoadingMoves DEF Loading
    <3> QED
      BY <2>1, <3>1, <3>3 DEF Loaded
  <2> QED
    BY <1>4, <2>2, <2>3, <2>4, <2>5
<1>5. CASE UNCHANGED vars
  BY <1>1, <1>5 DEF vars, inlet, queue, pool
<1> QED
  BY <1>1, <1>2, <1>3, <1>4, <1>5, Steps DEF WorkerStep

(* The end of a request frees the worker's element. *)
LEMMA EndFrees ==
  ASSUME Typed, FirstLapHeld, FirstLap, NEW w \in InSession, EndRequest(w)
  PROVE  /\ elem[w] \in Elements /\ freed' = freed \cup {elem[w]} /\ elem'[w] = NULL
         /\ \A v \in Workers : v # w => elem'[v] = elem[v]
<1>1. w \in Workers /\ elem[w] # NULL /\ elem \in [Workers -> Elements \cup {NULL}]
  BY DEF InSession, Typed, TypeOK, Held
<1>2. elem[w] \in Elements /\ elem[w] \notin freed
  BY <1>1, RingNumbers DEF Ring
<1> QED
  BY <1>1, <1>2 DEF EndRequest, Free

(* In the first lap nobody else frees anything. *)
LEMMA FreedMoves ==
  ASSUME Typed, FirstLapHeld, FirstLap, [Next]_vars
  PROVE  freed' = freed \/ \E w \in InSession : (NotServed(w) \/ Answer(w)) /\ EndRequest(w)
<1>1. ASSUME NEW c \in Clients,
             \/ Start(c) \/ Register(c) \/ OpenSession(c) \/ ReadAnswer(c)
             \/ ReadListing(c) \/ EndOfFile(c) \/ Kill(c)
      PROVE  freed' = freed
  BY <1>1 DEF Start, Register, OpenSession, ReadAnswer, ReadListing, EndOfFile, Kill, queue
<1>2. CASE ReadRequest \/ EnqReserve \/ EnqStore
  BY <1>2 DEF ReadRequest, EnqReserve, EnqStore, queue
<1>3. CASE EnqFreeOld
  <2>1. Stored < Capacity /\ Stored \in Nat /\ Ring
    BY <1>3, RingNumbers, Bounds DEF EnqFreeOld, Stored, FirstLap
  <2>2. pcq_head = Stored /\ Stored \in Slots
    BY <2>1, AroundNext DEF Ring
  <2>3. pcq_buffer[pcq_head] = NULL
    BY <2>1, <2>2 DEF Ring
  <2> QED
    BY <1>3, <2>3 DEF EnqFreeOld, Free
<1>4. ASSUME NEW w \in Workers, WorkerStep(w), freed' # freed
      PROVE  w \in InSession /\ (NotServed(w) \/ Answer(w)) /\ EndRequest(w)
  <2>1. NotServed(w) \/ Answer(w)
    BY <1>4 DEF WorkerStep, DeqTake, DeqLoad, CopyRequest, LookUp, Opened, CreateOpen,
       CreateClose, RemoveBox, ListBox, queue
  <2> QED
    BY <1>4, <2>1 DEF NotServed, Answer, InSession
<1>5. CASE UNCHANGED vars
  BY <1>5 DEF vars, queue
<1> QED
  BY <1>1, <1>2, <1>3, <1>4, <1>5, Steps DEF WorkerStep

(* A null pointer that a worker has loaded stays where it is. *)
LEMMA NullStays ==
  ASSUME Typed, [Next]_vars, NullLoaded
  PROVE  NullLoaded'
<1>1. PICK v \in Workers : pc[v] = "copy" /\ elem[v] = NULL
  BY DEF NullLoaded
<1>2. CASE UNCHANGED <<pc, elem>>
  BY <1>2 DEF NullLoaded
<1>3. ASSUME NEW c \in Clients,
             \/ Start(c) \/ Register(c) \/ OpenSession(c) \/ ReadAnswer(c)
             \/ ReadListing(c) \/ EndOfFile(c) \/ Kill(c)
      PROVE  UNCHANGED <<pc, elem>>
  BY <1>3 DEF Start, Register, OpenSession, ReadAnswer, ReadListing, EndOfFile, Kill, pool
<1>4. CASE ReadRequest \/ EnqReserve \/ EnqFreeOld \/ EnqStore
  BY <1>2, <1>4 DEF ReadRequest, EnqReserve, EnqFreeOld, EnqStore, pool
<1>5. ASSUME NEW w \in Workers, WorkerStep(w)
      PROVE  pc'[v] = pc[v] /\ elem'[v] = elem[v]
  <2>1. CASE v # w
    BY <1>5, <2>1, OtherWorkers
  <2>2. CASE v = w
    BY <1>1, <1>5, <2>2 DEF WorkerStep, DeqTake, DeqLoad, CopyRequest, LookUp, Opened,
       CreateOpen, CreateClose, RemoveBox, ListBox, NotServed, Answer, GoTo
  <2> QED
    BY <2>1, <2>2
<1>6. CASE UNCHANGED vars
  BY <1>2, <1>6 DEF vars, pool
<1> QED
  BY <1>1, <1>2, <1>3, <1>4, <1>5, <1>6, Steps DEF WorkerStep, NullLoaded

(* A worker that takes an element has none. *)
LEMMA IdleNext ==
  ASSUME Typed, LoadedHeld, [Next]_vars, NEW v \in Workers, pc'[v] \in {"dequeue", "load"}
  PROVE  elem'[v] = NULL
<1>1. /\ pc \in [Workers -> {"dequeue", "load", "copy", "lookup", "open", "serve", "close",
                             "answer", "returned"}]
      /\ elem \in [Workers -> Elements \cup {NULL}]
      /\ pc[v] \in {"dequeue", "load"} => elem[v] = NULL
  BY DEF Typed, TypeOK, LoadedHeld
<1>2. CASE UNCHANGED <<pc, elem>>
  BY <1>1, <1>2
<1>3. ASSUME NEW c \in Clients,
             \/ Start(c) \/ Register(c) \/ OpenSession(c) \/ ReadAnswer(c)
             \/ ReadListing(c) \/ EndOfFile(c) \/ Kill(c)
      PROVE  UNCHANGED <<pc, elem>>
  BY <1>3 DEF Start, Register, OpenSession, ReadAnswer, ReadListing, EndOfFile, Kill, pool
<1>4. CASE ReadRequest \/ EnqReserve \/ EnqFreeOld \/ EnqStore
  BY <1>2, <1>4 DEF ReadRequest, EnqReserve, EnqFreeOld, EnqStore, pool
<1>5. ASSUME NEW w \in Workers, WorkerStep(w)
      PROVE  elem'[v] = NULL
  <2>1. CASE v # w
    BY <1>1, <1>5, <2>1, OtherWorkers
  <2>2. CASE v = w /\ DeqTake(w)
    BY <1>1, <2>2 DEF DeqTake, GoTo
  <2>3. CASE v = w /\ EndRequest(w)
    BY <1>1, <2>3 DEF EndRequest
  <2>4. CASE v = w /\ UNCHANGED pool
    BY <1>1, <2>4 DEF pool
  <2>5. CASE v = w /\ (DeqLoad(w) \/ CopyRequest(w) \/ LookUp(w) \/ Opened(w))
    BY <1>1, <2>5 DEF DeqLoad, CopyRequest, LookUp, Opened, GoTo
  <2>6. CASE v = w /\ (CreateOpen(w) \/ CreateClose(w) \/ RemoveBox(w) \/ ListBox(w))
    BY <1>1, <2>6 DEF CreateOpen, CreateClose, RemoveBox, ListBox, GoTo
  <2>7. (NotServed(w) \/ Answer(w)) => EndRequest(w) \/ UNCHANGED pool
    BY DEF NotServed, Answer
  <2> QED
    BY <1>5, <2>1, <2>2, <2>3, <2>4, <2>5, <2>6, <2>7 DEF WorkerStep
<1>6. CASE UNCHANGED vars
  BY <1>2, <1>6 DEF vars, pool
<1> QED
  BY <1>2, <1>3, <1>4, <1>5, <1>6, Steps DEF WorkerStep

(* Every step keeps what was loaded a worker's or freed. *)
LEMMA LoadedNext ==
  Typed /\ FirstLapHeld /\ LoadedHeld /\ [Next]_vars => LoadedHeld'
<1> SUFFICES ASSUME Typed, FirstLapHeld, LoadedHeld, [Next]_vars, FirstLap', ~NullLoaded',
                    NEW e \in Elements', e <= Loaded'
             PROVE  e \in freed' \/ \E v \in Workers : elem'[v] = e
  BY IdleNext DEF LoadedHeld
<1>1. FirstLap /\ Ring /\ ~NullLoaded
  BY WasFirstLap, RingNumbers, NullStays
<1>3. e \in Nat \ {0} /\ Loaded \in Nat /\ Loaded <= Len(requests) /\ Len(requests) \in Nat
  <2>1. Len(requests') \in Nat
    BY RingNumbers, RequestsGrow
  <2> QED
    BY <1>1, <2>1, RingNumbers DEF Elements
<1>4. ASSUME e <= Loaded PROVE e \in freed \/ \E v \in Workers : elem[v] = e
  <2>1. e \in Elements
    BY <1>3, <1>4 DEF Elements
  <2> QED
    BY <1>1, <1>4, <2>1 DEF LoadedHeld
<1>5. freed \subseteq freed'
  BY <1>1, FreedMoves, EndFrees
<1>6. CASE Loaded' = Loaded /\ elem' = elem
  BY <1>4, <1>5, <1>6
<1>7. ASSUME NEW w \in Workers, DeqLoad(w), Loaded' = Loaded + 1
      PROVE  e \in freed' \/ \E v \in Workers : elem'[v] = e
  <2>1. /\ elem[w] = NULL /\ pc'[w] = "copy" /\ elem'[w] = pcq_buffer[pcq_tail]
        /\ \A v \in Workers : v # w => elem'[v] = elem[v]
    BY <1>7 DEF DeqLoad, GoTo, LoadedHeld, Typed, TypeOK
  <2>2. CASE e <= Loaded
    <3>1. \A v \in Workers : elem[v] = e => v # w
      BY <1>3, <2>1 DEF NULL
    <3> QED
      BY <1>4, <1>5, <2>1, <2>2, <3>1
  <2>3. CASE e = Loaded + 1
    <3>1. Cardinality(Loading) > 0
      <4>1. pc[w] = "load" /\ pc' = [pc EXCEPT ![w] = "copy"] /\ "copy" # "load"
        BY <1>7 DEF DeqLoad, GoTo
      <4> QED
        BY <4>1, LoadingMoves
    <3>2. Loaded < Capacity
      BY <1>1, <3>1, RingNumbers, Bounds DEF FirstLap
    <3>3. pcq_tail = Loaded /\ Loaded \in Slots
      BY <1>1, <1>3, <3>2, AroundNext DEF Ring
    <3>4. elem'[w] \in {NULL, e}
      BY <1>1, <2>1, <2>3, <3>3 DEF Ring
    <3>5. elem'[w] # NULL
      BY <2>1 DEF NullLoaded
    <3> QED
      BY <3>4, <3>5
  <2> QED
    BY <1>3, <1>7, <2>2, <2>3
<1>8. ASSUME NEW w \in InSession, EndRequest(w), Loaded' = Loaded
      PROVE  e \in freed' \/ \E v \in Workers : elem'[v] = e
  BY <1>1, <1>4, <1>8, EndFrees
<1> QED
  BY <1>6, <1>7, <1>8, LoadedMoves

(* Every step leaves only managers' sessions open. *)
LEMMA ManagersNext == Typed /\ Known /\ ManagersLeaked /\ [Next]_vars => ManagersLeaked'
<1> SUFFICES ASSUME Typed, Known, ManagersLeaked, [Next]_vars, FirstLap' PROVE ManagersLeaked'
  BY DEF ManagersLeaked
<1>0. FirstLap
  BY WasFirstLap
<1>1. CASE leaked' = leaked
  BY <1>0, <1>1 DEF ManagersLeaked
<1>2. ASSUME NEW c \in Clients,
             \/ Start(c) \/ Register(c) \/ OpenSession(c) \/ ReadAnswer(c)
             \/ ReadListing(c) \/ EndOfFile(c) \/ Kill(c)
      PROVE  leaked' = leaked
  BY <1>2 DEF Start, Register, OpenSession, ReadAnswer, ReadListing, EndOfFile, Kill
<1>3. CASE ReadRequest \/ EnqReserve \/ EnqFreeOld \/ EnqStore
  BY <1>1, <1>3 DEF ReadRequest, EnqReserve, EnqFreeOld, EnqStore
<1>4. ASSUME NEW w \in Workers, WorkerStep(w), leaked' # leaked
      PROVE  ManagersLeaked'
  <2>1. (NotServed(w) \/ Answer(w)) /\ EndRequest(w)
    BY <1>4 DEF WorkerStep, DeqTake, DeqLoad, CopyRequest, LookUp, Opened, CreateOpen,
       CreateClose, RemoveBox, ListBox, NotServed, Answer
  <2>2. leaked' = leaked \cup {session[w]} /\ ~HandlerFailed(w)
    BY <1>4, <2>1 DEF EndRequest
  <2>3. Made(request[w]) /\ session[w][1] = request[w].client /\ session[w][1] \in Clients
    <3>1. pc[w] \in {"serve", "answer"}
      BY <2>1 DEF NotServed, Answer
    <3> QED
      BY <1>0, <3>1 DEF Known, HoldingPlaces, Typed, TypeOK, Held
  <2>4. request[w].op = OpCode(session[w][1]) /\ request[w].op \in Codes
    BY <2>3, OpCodeType, BrokerAssumption DEF Made, Garbled
  <2>5. pc[w] = "answer"
    BY <2>1, <2>2, <2>4 DEF NotServed, Answer, HandlerFailed, Codes
  <2>6. request[w].op \in {"create", "remove", "list"}
    BY <2>5 DEF Known
  <2>7. session[w][1] \in Managers
    BY <2>3, <2>4, <2>6, OpCodes DEF Managers
  <2> QED
    BY <1>0, <2>2, <2>7 DEF ManagersLeaked
<1>5. CASE UNCHANGED vars
  BY <1>1, <1>5 DEF vars
<1> QED
  BY <1>1, <1>2, <1>3, <1>4, <1>5, Steps DEF WorkerStep

(* What a client that runs once was told stays so, and its pipe stays opened. *)
LEMMA ToldStays ==
  ASSUME Typed, [Next]_vars, RunOnce', NEW d \in Clients, life[d] = 1
  PROVE  (met[d] => met'[d]) /\ (Told(d) => Told(d)')
<1>1. /\ at \in [Clients -> {"away", "starting", "asking", "opening", "listing", "done"}]
      /\ answers \in [Clients -> Seq(Results)] /\ met \in [Clients -> BOOLEAN]
      /\ life \in [Clients -> 0 .. MaxLives]
  BY DEF Typed, TypeOK
<1>2. CASE /\ met[d] => met'[d]
           /\ at[d] = "done" /\ d \in Callers => at'[d] = "done"
           /\ answers[d] # <<>> /\ d \in Callers => answers'[d] # <<>>
  BY <1>2 DEF Told
<1>3. ASSUME NEW c \in Clients,
             \/ Start(c) \/ Register(c) \/ OpenSession(c) \/ ReadAnswer(c)
             \/ ReadListing(c) \/ EndOfFile(c) \/ Kill(c)
      PROVE  (met[d] => met'[d]) /\ (Told(d) => Told(d)')
  <2>1. CASE c # d
    <3>1. at'[d] = at[d] /\ met'[d] = met[d] /\ answers'[d] = answers[d]
      BY <1>1, <1>3, <2>1
      DEF Start, Register, OpenSession, ReadAnswer, ReadListing, EndOfFile, Kill, Finish
    <3> QED
      BY <1>2, <3>1
  <2>2. CASE c = d
    <3>1. ~Start(d)
      <4>1. Start(d) => life'[d] = 2
        BY <1>1 DEF Start
      <4> QED
        BY <4>1 DEF RunOnce
    <3>2. CASE ReadListing(d)
      <4>1. d \notin Callers /\ met' = met
        BY <3>2, BrokerAssumption DEF ReadListing, Callers, Managers
      <4> QED
        BY <1>2, <4>1
    <3>3. CASE ReadAnswer(d) \/ EndOfFile(d)
      BY <1>1, <1>2, <3>3 DEF ReadAnswer, EndOfFile, Finish
    <3>4. CASE Register(d) \/ OpenSession(d) \/ Kill(d)
      BY <1>2, <3>4 DEF Register, OpenSession, Kill
    <3> QED
      BY <1>3, <2>2, <3>1, <3>2, <3>3, <3>4
  <2> QED
    BY <2>1, <2>2
<1>4. CASE UNCHANGED clients
  BY <1>2, <1>4 DEF clients
<1>5. CASE ReadRequest \/ EnqReserve \/ EnqFreeOld \/ EnqStore
  BY <1>4, <1>5 DEF ReadRequest, EnqReserve, EnqFreeOld, EnqStore
<1>6. ASSUME NEW w \in Workers, WorkerStep(w)
      PROVE  (met[d] => met'[d]) /\ (Told(d) => Told(d)')
  <2>1. CASE Opened(w)
    <3>1. at' = at /\ answers' = answers /\ (met[d] => met'[d])
      BY <1>1, <2>1 DEF Opened
    <3> QED
      BY <1>2, <3>1
  <2>2. CASE Answer(w)
    <3>1. at' = at /\ met' = met
      BY <2>2 DEF Answer
    <3>2. answers'[d] = answers[d] \/ answers'[d] = Append(answers[d], result[w])
      BY <1>1, <2>2 DEF Answer
    <3>3. answers[d] \in Seq(Results) /\ Append(answers[d], result[w]) # <<>>
      BY <1>1
    <3> QED
      BY <1>2, <3>1, <3>2, <3>3
  <2>3. CASE ~Opened(w) /\ ~Answer(w)
    BY <1>4, <1>6, <2>3 DEF WorkerStep, DeqTake, DeqLoad, CopyRequest, LookUp, CreateOpen,
       CreateClose, RemoveBox, ListBox, NotServed, clients
  <2> QED
    BY <2>1, <2>2, <2>3
<1>7. CASE UNCHANGED vars
  BY <1>4, <1>7 DEF vars
<1> QED
  BY <1>3, <1>5, <1>6, <1>7, Steps DEF WorkerStep

(* A session goes on or is one whose pipe was opened just now. *)
LEMMA SessionsBegin ==
  ASSUME Typed, [Next]_vars, NEW v \in InSession'
  PROVE  v \in Workers /\ (Opened(v) \/ (v \in InSession /\ session'[v] = session[v]))
<1>1. v \in Workers /\ pc'[v] \in {"serve", "close", "answer"}
  BY DEF InSession
<1>2. /\ pc \in [Workers -> {"dequeue", "load", "copy", "lookup", "open", "serve", "close",
                             "answer", "returned"}]
      /\ session \in [Workers -> (Clients \X (1 .. MaxLives)) \cup {NoSession}]
  BY DEF Typed, TypeOK
<1>3. CASE UNCHANGED <<pc, session>>
  BY <1>1, <1>3 DEF InSession
<1>4. ASSUME NEW c \in Clients,
             \/ Start(c) \/ Register(c) \/ OpenSession(c) \/ ReadAnswer(c)
             \/ ReadListing(c) \/ EndOfFile(c) \/ Kill(c)
      PROVE  UNCHANGED <<pc, session>>
  BY <1>4 DEF Start, Register, OpenSession, ReadAnswer, ReadListing, EndOfFile, Kill, pool
<1>5. CASE ReadRequest \/ EnqReserve \/ EnqFreeOld \/ EnqStore
  BY <1>3, <1>5 DEF ReadRequest, EnqReserve, EnqFreeOld, EnqStore, pool
<1>6. ASSUME NEW w \in Workers, WorkerStep(w)
      PROVE  Opened(v) \/ (v \in InSession /\ session'[v] = session[v])
  <2>1. CASE v # w
    BY <1>1, <1>6, <2>1, OtherWorkers DEF InSession
  <2>2. CASE v = w /\ (DeqTake(w) \/ DeqLoad(w) \/ CopyRequest(w) \/ LookUp(w))
    BY <1>1, <1>2, <2>2 DEF DeqTake, DeqLoad, CopyRequest, LookUp, GoTo, InSession
  <2>3. CASE v = w /\ (CreateOpen(w) \/ CreateClose(w) \/ RemoveBox(w) \/ ListBox(w))
    BY <1>1, <2>3 DEF CreateOpen, CreateClose, RemoveBox, ListBox, GoTo, InSession
  <2>4. CASE v = w /\ EndRequest(w)
    BY <1>1, <1>2, <2>4 DEF EndRequest
  <2>5. NotServed(w) \/ Answer(w) => EndRequest(w) \/ UNCHANGED <<pc, session>>
    BY DEF NotServed, Answer, pool
  <2> QED
    BY <1>3, <1>6, <2>1, <2>2, <2>3, <2>4, <2>5 DEF WorkerStep
<1>7. CASE UNCHANGED vars
  BY <1>3, <1>7 DEF vars, pool
<1> QED
  BY <1>1, <1>3, <1>4, <1>5, <1>6, <1>7, Steps DEF WorkerStep

(* Every step keeps those told whose element was freed. *)
LEMMA ToldNext == Kept /\ ToldHeld /\ [Next]_vars => ToldHeld'
<1> SUFFICES ASSUME Kept, ToldHeld, [Next]_vars, FirstLap', RunOnce', ~crashed'
             PROVE  /\ \A v \in InSession' : met'[session'[v][1]]
                    /\ \A e \in freed' : Told(requests[e].client)'
  BY DEF ToldHeld
<1>1. Typed /\ Known /\ FirstLapHeld /\ Copied /\ (RunOnce => AskedOnce)
  BY DEF Kept, OnceHeld
<1>2. FirstLap /\ RunOnce /\ ~crashed
  BY <1>1, WasFirstLap, RanOnce, NotYet
<1>3. /\ \A w \in InSession : met[session[w][1]]
      /\ \A e \in freed : Told(requests[e].client)
  BY <1>2 DEF ToldHeld
<1>4. /\ met \in [Clients -> BOOLEAN] /\ answers \in [Clients -> Seq(Results)]
      /\ freed \subseteq Elements
  BY <1>1 DEF Typed, TypeOK
<1>5. ASSUME NEW e \in Elements, requests[e].client # None
      PROVE  requests[e].client \in Clients /\ life[requests[e].client] = 1
  BY <1>1, <1>2, <1>5, Askers DEF AskedOnce
<1>6. ASSUME NEW w \in Holding
      PROVE  /\ session[w][1] \in Clients /\ elem[w] \in Elements
             /\ requests[elem[w]].client = session[w][1] /\ life[session[w][1]] = 1
  <2>1. /\ elem[w] \in Elements /\ session[w][1] \in Clients
        /\ requests[elem[w]].client = session[w][1]
    BY <1>1, <1>2, SessionElement
  <2>2. session[w][1] # None
    BY <1>1, <2>1, Askers
  <2> QED
    BY <1>5, <2>1, <2>2
<1>7. ASSUME NEW v \in InSession' PROVE met'[session'[v][1]]
  <2>1. v \in Workers /\ (Opened(v) \/ (v \in InSession /\ session'[v] = session[v]))
    BY <1>1, SessionsBegin
  <2>2. CASE Opened(v)
    <3>1. v \in Holding /\ session' = session /\ met' = [met EXCEPT ![session[v][1]] = TRUE]
      BY <2>1, <2>2 DEF Opened, GoTo, Holding
    <3> QED
      BY <1>4, <1>6, <3>1
  <2>3. CASE v \in InSession /\ session'[v] = session[v]
    <3>1. v \in Holding
      BY <2>3 DEF InSession, Holding
    <3> QED
      BY <1>1, <1>3, <1>6, <2>3, <3>1, ToldStays
  <2> QED
    BY <2>1, <2>2, <2>3
<1>8. \A e \in Elements : requests'[e] = requests[e]
  <2>1. CASE requests' = requests
    BY <2>1
  <2>2. CASE ReadRequest
    <3>1. PICK r : requests' = Append(requests, r)
      BY <2>2 DEF ReadRequest
    <3> QED
      BY <1>1, <3>1, Askers DEF Elements
  <2> QED
    BY <1>1, <2>1, <2>2, RequestsGrow
<1>9. ASSUME NEW e \in freed PROVE Told(requests[e].client)'
  <2>1. requests'[e] = requests[e] /\ e \in Elements
    BY <1>4, <1>8
  <2>2. CASE requests[e].client = None
    <3>1. None \notin Callers /\ None \notin Subscribers
      BY <1>1, Askers DEF Callers, Clients, Managers
    <3> QED
      BY <2>1, <2>2, <3>1 DEF Told
  <2>3. CASE requests[e].client # None
    <3>1. PICK d \in Clients : d = requests[e].client /\ life[d] = 1
      BY <1>5, <2>1, <2>3
    <3>2. Told(d)
      BY <1>3, <3>1
    <3>3. Told(d)'
      BY <1>1, <3>1, <3>2, ToldStays
    <3> QED
      BY <2>1, <3>1, <3>3 DEF Told
  <2> QED
    BY <2>2, <2>3
<1>10. ASSUME NEW w \in InSession, NotServed(w) \/ Answer(w), NEW e \in Elements, e = elem[w]
       PROVE  Told(requests[e].client)'
  <2>1. w \in Holding /\ w \in Workers
    BY DEF InSession, Holding
  <2>2. PICK d \in Clients : d = session[w][1] /\ requests[e].client = d /\ life[d] = 1
    BY <1>6, <1>10, <2>1
  <2>3. requests'[e].client = d
    BY <1>8, <2>2
  <2>4. d \in Subscribers => met'[d]
    BY <1>1, <1>3, <2>2, ToldStays
  <2>5. CASE NotServed(w)
    <3>1. OpCode(d) \in {"pub", "sub"}
      BY <1>2, <2>1, <2>2, <2>5, BodyAsked, OpCodeType DEF NotServed, Codes
    <3>2. d \notin Callers
      BY <3>1, OpCodes DEF Callers
    <3> QED
      BY <2>3, <2>4, <3>2 DEF Told
  <2>6. CASE Answer(w)
    <3>1. HasReader(session[w])
      BY <2>6 DEF Answer
    <3>2. answers'[d] = Append(answers[d], result[w])
      BY <1>4, <2>2, <2>6, <3>1 DEF Answer
    <3>3. answers[d] \in Seq(Results) /\ Append(answers[d], result[w]) # <<>>
      BY <1>4
    <3> QED
      BY <2>3, <2>4, <3>2, <3>3 DEF Told
  <2> QED
    BY <1>10, <2>5, <2>6
<1>11. ASSUME NEW e \in freed' PROVE Told(requests[e].client)'
  <2>1. CASE freed' = freed
    BY <1>9, <2>1
  <2>2. ASSUME NEW w \in InSession, NotServed(w) \/ Answer(w), EndRequest(w)
        PROVE  Told(requests[e].client)'
    <3>1. freed' = freed \cup {elem[w]} /\ elem[w] \in Elements
      BY <1>1, <1>2, <2>2, EndFrees
    <3>2. CASE e \in freed
      BY <1>9, <3>2
    <3>3. CASE e = elem[w]
      BY <1>10, <2>2, <3>1, <3>3
    <3> QED
      BY <3>1, <3>2, <3>3
  <2> QED
    BY <1>1, <1>2, <2>1, <2>2, FreedMoves
<1> QED
  BY <1>7, <1>11

(* The elements in slots the counter covers or a worker is about to load. *)
Due == {pcq_buffer[(pcq_tail + d) % Capacity] :
            d \in 0 .. (pcq_current_size + Cardinality(Loading)) - 1}

(* What is stored and not loaded is there. *)
LEMMA CountedSlot ==
  ASSUME Typed, FirstLapHeld, FirstLap, SlotsFull,
         NEW e \in Elements, e > Loaded, e <= Stored
  PROVE  e \in Due
<1>1. /\ Loaded \in Nat /\ Stored \in Nat /\ e \in Nat /\ Len(requests) \in Nat
      /\ Stored <= Len(requests) /\ Ring
      /\ Cardinality(Loading) \in Nat /\ pcq_current_size \in Nat /\ Reserved \in Nat
  BY RingNumbers DEF Elements
<1>2. Stored <= Reserved
  BY <1>1 DEF Stored, Reserved
<1>3. e <= Capacity /\ Loaded < Capacity
  BY <1>1, Bounds DEF FirstLap
<1>4. pcq_tail = Loaded
  BY <1>1, <1>3, AroundNext DEF Ring
<1>5. PICK d \in Nat : e = Loaded + d + 1
  <2>1. e - Loaded - 1 \in Nat /\ e = Loaded + (e - Loaded - 1) + 1
    BY <1>1
  <2> QED
    BY <2>1
<1>6. Loaded = Reserved - pcq_current_size - Cardinality(Loading)
  BY DEF Loaded
<1>7. d \in 0 .. (pcq_current_size + Cardinality(Loading)) - 1
  BY SMTT(30), <1>1, <1>2, <1>5, <1>6
<1>8. (pcq_tail + d) % Capacity = e - 1 /\ e - 1 \in Slots /\ e - 1 < Stored
  BY <1>1, <1>3, <1>4, <1>5, Bounds DEF Slots
<1>9. pcq_buffer[e - 1] = e
  BY <1>1, <1>8 DEF SlotsFull
<1>10. pcq_buffer[(pcq_tail + d) % Capacity] = e
  BY <1>8, <1>9
<1> QED
  BY <1>7, <1>10 DEF Due

(* A subscriber's freed element leaves it no writer: its session is over, and its   *)
(* pipe was closed.                                                                *)
LEMMA SubscriberLeft ==
  ASSUME Kept, FirstLap, RunOnce, ManagersLeaked,
         NEW c \in Subscribers, NEW e \in freed, requests[e].client = c
  PROVE  ~HasWriter(c)
<1>1. Typed /\ Known /\ FirstLapHeld /\ Copied /\ AskedOnce
  BY DEF Kept, OnceHeld
<1>2. c \in Clients /\ c # None /\ c \notin Managers /\ e \in Elements
  BY <1>1, BrokerAssumption DEF Clients, Typed, TypeOK
<1>3. ASSUME NEW w \in InSession, session[w] = <<c, life[c]>> PROVE FALSE
  <2>1. w \in Holding
    BY DEF InSession, Holding
  <2>2. /\ w \in Workers /\ elem[w] \in Elements
        /\ requests[elem[w]].client = session[w][1]
    BY <1>1, <2>1, SessionElement
  <2>3. session[w][1] = c
    BY <1>3
  <2>4. elem[w] = e
    BY <1>1, <1>2, <2>2, <2>3 DEF AskedOnce
  <2> QED
    BY <1>1, <2>2, <2>4, RingNumbers DEF Ring
<1>4. <<c, life[c]>> \notin leaked
  <2>1. <<c, life[c]>>[1] = c
    OBVIOUS
  <2> QED
    BY <1>2, <2>1 DEF ManagersLeaked
<1> QED
  BY <1>3, <1>4 DEF HasWriter

(* Together they leave no client that waits out of sight. *)
LEMMA FoundInHand ==
  Kept /\ PlainHeld /\ SlotsFull /\ LoadedHeld /\ ManagersLeaked /\ ToldHeld /\ PoolLoss
    => NobodyForgotten
<1> SUFFICES ASSUME Kept, PlainHeld, SlotsFull, LoadedHeld, ManagersLeaked, ToldHeld, PoolLoss,
                    FirstLap, RunOnce, Plain, Len(requests) <= MaxDescriptors, ~crashed,
                    \A w \in Workers : ~(pc[w] = "copy" /\ elem[w] = NULL),
                    NEW c \in Callers \cup Subscribers, at[c] \in {"asking", "opening"}
             PROVE  InHand(c)
  BY DEF NobodyForgotten, Callers
<1> DEFINE mine == {e \in Elements : requests[e].client = c}
<1>1. Typed /\ FirstLapHeld /\ c \in Clients
  BY DEF Kept, Callers, Clients, Managers
<1>2. InHand(c) <=>
        \/ answers[c] # <<>>
        \/ met[c] /\ ~HasWriter(c)
        \/ \E n \in 1 .. Len(server_pipe) : server_pipe[n].client = c
        \/ main_at # "read" /\ Len(requests) \in mine
        \/ mine \cap Due # {}
        \/ \E w \in Workers : elem[w] \in mine /\ pc[w] # "returned"
  BY DEF InHand, Loading, Due
<1>3. PICK r \in Asked : r.client = c
  BY <1>1 DEF PlainHeld
<1>4. CASE \E n \in 1 .. Len(server_pipe) : r = server_pipe[n]
  BY <1>2, <1>3, <1>4
<1>5. ASSUME NEW e \in Elements, r = requests[e] PROVE InHand(c)
  <2>1. e \in mine /\ requests[e].client = c
    BY <1>3, <1>5
  <2>2. e \in Nat /\ Loaded \in Nat /\ Stored \in Nat /\ Len(requests) \in Nat /\ e <= Len(requests)
    BY <1>1, RingNumbers DEF Elements
  <2>3. CASE e > Stored
    <3>1. main_at # "read" /\ e = Len(requests)
      BY <2>2, <2>3 DEF Stored
    <3> QED
      BY <1>2, <2>1, <3>1
  <2>4. CASE e > Loaded /\ e <= Stored
    <3>1. e \in Due
      BY <1>1, <2>4, CountedSlot
    <3> QED
      BY <1>2, <2>1, <3>1
  <2>5. CASE e <= Loaded
    <3>1. e \in freed \/ \E w \in Workers : elem[w] = e
      BY <2>5 DEF LoadedHeld, NullLoaded
    <3>2. CASE \E w \in Workers : elem[w] = e
      BY <1>2, <2>1, <3>2 DEF PoolLoss
    <3>3. CASE e \in freed
      <4>1. Told(c)
        BY <2>1, <3>3 DEF ToldHeld
      <4>2. CASE c \in Callers
        BY <1>2, <4>1, <4>2 DEF Told
      <4>3. CASE c \in Subscribers
        BY <1>2, <2>1, <3>3, <4>1, <4>3, SubscriberLeft DEF Told
      <4> QED
        BY <4>2, <4>3
    <3> QED
      BY <3>1, <3>2, <3>3
  <2> QED
    BY <2>2, <2>3, <2>4, <2>5
<1> QED
  BY <1>3, <1>4, <1>5 DEF Asked, Elements

(* NobodyForgotten: where no client runs twice and none lists, while there are     *)
(* descriptors enough and the first lap lasts, each client that waits has its      *)
(* answer or the end of its pipe, or its request is where somebody still comes by  *)
(* it: in the server pipe, with main, in a slot the counter covers or a worker is  *)
(* about to load, or with a worker that was not lost.                              *)
THEOREM NobodyLost == Spec => []NobodyForgotten
<1> DEFINE Inv == PlainHeld /\ SlotsFull /\ LoadedHeld /\ ManagersLeaked /\ ToldHeld
<1>1. Init => Inv
  <2> SUFFICES ASSUME Init PROVE Inv
    OBVIOUS
  <2>1. PlainHeld /\ LoadedHeld /\ ManagersLeaked
    BY DEF Init, PlainHeld, LoadedHeld, ManagersLeaked, Elements
  <2>2. SlotsFull
    BY Bounds DEF Init, SlotsFull, Stored, Slots
  <2>3. ToldHeld
    BY DEF Init, ToldHeld, InSession
  <2> QED
    BY <2>1, <2>2, <2>3
<1>2. Kept /\ Inv /\ [Next]_vars => Inv'
  BY PlainNext, SlotsNext, LoadedNext, ManagersNext, ToldNext DEF Kept
<1>3. Kept /\ Inv /\ PoolLoss => NobodyForgotten
  BY FoundInHand
<1> HIDE DEF Inv
<1> QED
  BY <1>1, <1>2, <1>3, AlwaysKept, PoolKept, PTL DEF Spec
================================================================================
