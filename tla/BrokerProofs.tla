------------------------------ MODULE BrokerProofs ------------------------------
(* Theorems about Broker, for every number of workers, clients and boxes, every    *)
(* size of the ring and every bound: its types, listings, the elements of the      *)
(* ring's first lap, and its use of the queue.                                     *)
EXTENDS Broker, WellFoundedInduction, FiniteSetTheorems, TLAPS

--------------------------------------------------------------------------------
(* Types *)

(* The workers that have a session pipe open or wait for it. *)
Holding == {w \in Workers : pc[w] \in {"open", "serve", "close", "answer"}}

(* What the types need besides themselves: main queues what it has read; a worker  *)
(* that has copied a request has its element, one that has opened a pipe has a     *)
(* session and a descriptor of its own, and one that answers has an answer; nothing*)
(* is ever listed.                                                                 *)
Held ==
    /\ main_at # "read" => requests # <<>>
    /\ \A w \in Workers :
        /\ pc[w] \in {"lookup", "open", "serve", "close", "answer"} => elem[w] # NULL
        /\ pc[w] \in {"open", "serve", "close", "answer"} => session[w] # NoSession
        /\ pc[w] = "answer" => result[w] # "none"
    /\ list = <<>>

DescriptorsHeld ==
    IsFiniteSet(Holding) /\ Cardinality(Holding) <= descriptors

Typed == TypeOK /\ Held /\ DescriptorsHeld

(* The bounds are numbers. *)
LEMMA Bounds ==
  /\ Capacity \in Nat \ {0} /\ MaxBoxes \in Nat \ {0} /\ MaxOpenFiles \in Nat \ {0}
  /\ MaxDescriptors \in Nat \ {0} /\ MaxLives \in Nat \ {0} /\ MaxStarts \in Nat \ {0}
  /\ MaxKills \in Nat
<1> DEFINE B == {Capacity, MaxBoxes, MaxOpenFiles, MaxDescriptors, MaxLives, MaxStarts}
<1>1. \A b \in B : b \in Nat \ {0}
  BY BrokerAssumption
<1> QED
  BY <1>1, BrokerAssumption

(* The parts of TypeOK. *)
ClientsTyped ==
    /\ at \in [Clients -> {"away", "starting", "asking", "opening", "listing", "done"}]
    /\ life \in [Clients -> 0 .. MaxLives] /\ fifo \in [Clients -> 0 .. MaxLives]
    /\ answers \in [Clients -> Seq(Results)] /\ met \in [Clients -> BOOLEAN]
    /\ outcome \in [Clients -> Results \cup {"none", "closed"}] /\ kills \in 0 .. MaxKills

InletTyped ==
    /\ server_pipe \in Seq(Requests) /\ consumed \in 0 .. REQUEST_LENGTH - 1
    /\ main_at \in {"read", "count", "free", "store"}
    /\ requests \in Seq(Requests \cup {Garbled})

QueueTyped ==
    /\ pcq_current_size \in 0 .. Capacity /\ pcq_head \in Slots /\ pcq_tail \in Slots
    /\ pcq_buffer \in [Slots -> Elements \cup {NULL}] /\ freed \subseteq Elements

PoolTyped ==
    /\ pc \in [Workers -> {"dequeue", "load", "copy", "lookup", "open", "serve", "close",
                           "answer", "returned"}]
    /\ elem \in [Workers -> Elements \cup {NULL}]
    /\ request \in [Workers -> Copies]
    /\ session \in [Workers -> (Clients \X (1 .. MaxLives)) \cup {NoSession}]
    /\ result \in [Workers -> Results \cup {"none"}]

RestTyped ==
    /\ leaked \subseteq Clients \X (1 .. MaxLives) /\ descriptors \in 0 .. MaxDescriptors
    /\ files \subseteq Boxes /\ crashed \in BOOLEAN

(* Together, while nothing is listed, they are TypeOK. *)
LEMMA TypeParts ==
  list = <<>> => (TypeOK <=> ClientsTyped /\ InletTyped /\ QueueTyped /\ PoolTyped /\ RestTyped)
BY DEF TypeOK, ClientsTyped, InletTyped, QueueTyped, PoolTyped, RestTyped

(* The same after a step. *)
LEMMA TypePartsNext ==
  list' = <<>> => (TypeOK' <=> ClientsTyped' /\ InletTyped' /\ QueueTyped' /\ PoolTyped' /\ RestTyped')
BY DEF TypeOK, ClientsTyped, InletTyped, QueueTyped, PoolTyped, RestTyped

(* The broker starts well typed. *)
LEMMA InitTyped == Init => Typed
<1> SUFFICES ASSUME Init PROVE Typed
  OBVIOUS
<1> USE Bounds
<1>1. Holding = {}
  BY DEF Init, Holding
<1>2. DescriptorsHeld
  BY <1>1, FS_EmptySet DEF DescriptorsHeld, Init
<1>3. Held
  BY DEF Held, Init
<1>4. ClientsTyped
  BY DEF Init, ClientsTyped
<1>5. InletTyped
  BY DEF Init, InletTyped, REQUEST_LENGTH
<1>6. QueueTyped
  BY DEF Init, QueueTyped, Slots
<1>7. PoolTyped
  BY DEF Init, PoolTyped, Copies, Garbled
<1>8. RestTyped
  <2>1. descriptors \in 0 .. MaxDescriptors
    BY DEF Init
  <2> QED
    BY <2>1 DEF Init, RestTyped
<1> QED
  BY <1>2, <1>3, <1>4, <1>5, <1>6, <1>7, <1>8, TypeParts DEF Typed, Held

(* A client's request. *)
LEMMA OpCodeType ==
  ASSUME NEW c \in Clients
  PROVE  OpCode(c) \in Codes
<1>1. CASE c \in Publishers
  BY <1>1 DEF OpCode, Codes
<1>2. CASE c \in Subscribers
  BY <1>2 DEF OpCode, Codes
<1>3. CASE c \in Creators
  BY <1>3 DEF OpCode, Codes
<1>4. CASE c \in Removers
  BY <1>4 DEF OpCode, Codes
<1>5. CASE c \in Listers
  BY <1>5 DEF OpCode, Codes
<1> QED
  BY <1>1, <1>2, <1>3, <1>4, <1>5 DEF Clients, Managers

(* What a worker may find in an element, and copy from it. *)
LEMMA ContentsType ==
  ASSUME Typed, NEW e \in Elements
  PROVE  /\ Contents(e) \subseteq Requests \cup {Garbled}
         /\ OpCodeRead(e) \subseteq Codes \cup {"garbled"}
<1>1. requests \in Seq(Requests \cup {Garbled}) /\ e \in 1 .. Len(requests)
  BY DEF Typed, TypeOK, Elements
<1>2. \A d \in e .. Len(requests) : requests[d] \in Requests \cup {Garbled}
  BY <1>1
<1>3. requests[e] \in Requests \cup {Garbled}
  BY <1>1
<1>4. requests[e].op \in Codes \cup {"garbled"}
  BY <1>3 DEF Requests, Garbled
<1> QED
  BY <1>2, <1>3, <1>4 DEF Contents, OpCodeRead

(* free(e). *)
LEMMA FreeType ==
  ASSUME Typed, NEW e \in Elements \cup {NULL}, Free(e)
  PROVE  freed' \subseteq Elements /\ crashed' \in BOOLEAN
<1>1. requests \in Seq(Requests \cup {Garbled}) /\ freed \subseteq Elements /\ crashed \in BOOLEAN
  BY DEF Typed, TypeOK
<1>2. CASE e = NULL
  BY <1>1, <1>2 DEF Free
<1>3. CASE e # NULL
  <2>1. e .. Len(requests) \subseteq Elements /\ e \in Elements
    BY <1>1, <1>3 DEF Elements
  <2> QED
    BY <1>1, <1>3, <2>1 DEF Free
<1> QED
  BY <1>2, <1>3

--------------------------------------------------------------------------------
(* Where requests end *)

(* A nonempty set of naturals has a least member. *)
LEMMA LeastNat ==
  ASSUME NEW S \in SUBSET Nat, S # {}
  PROVE  \E n \in S : \A k \in S : n <= k
<1> DEFINE R == OpToRel(<, Nat)
<1>1. \E n \in S : \A k \in S : ~(<<k, n>> \in R)
  <2> HIDE DEF R
  <2>1. IsWellFoundedOn(R, Nat)
    BY NatLessThanWellFounded DEF R
  <2> QED
    BY <2>1, WFMin
<1>2. PICK n \in S : \A k \in S : ~(<<k, n>> \in R)
  BY <1>1
<1>3. ASSUME NEW k \in S PROVE n <= k
  <2>1. ~(<<k, n>> \in R)
    BY <1>2
  <2>2. k \in Nat /\ n \in Nat
    OBVIOUS
  <2>3. ~(k < n)
    BY <2>1, <2>2 DEF OpToRel
  <2> QED
    BY <2>2, <2>3
<1> QED
  BY <1>3

ListsUpTo(k) == {n \in 1 .. k : server_pipe[n].op = "list"}

(* Requests end in their order, each within REQUEST_LENGTH bytes of the one before *)
(* it and no sooner than LIST_REQUEST bytes after it.                              *)
LEMMA RequestEnds ==
  ASSUME NEW k \in Nat, NEW n \in Nat, n <= k
  PROVE  /\ RequestEnd(k) \in Int /\ RequestEnd(n) \in Int
         /\ RequestEnd(0) = 0
         /\ RequestEnd(n) <= RequestEnd(k)
         /\ RequestEnd(k) - RequestEnd(n) <= REQUEST_LENGTH * (k - n)
         /\ RequestEnd(k) - RequestEnd(n) >= LIST_REQUEST * (k - n)
<1> DEFINE L == ListsUpTo(k)
           M == ListsUpTo(n)
           D == L \ M
<1>1. IsFiniteSet(1 .. k) /\ L \subseteq 1 .. k
  BY FS_Interval DEF ListsUpTo
<1>2. IsFiniteSet(L) /\ Cardinality(L) \in Nat
  BY <1>1, FS_Subset, FS_CardinalityType
<1>3. M \subseteq L /\ M = L \cap M
  BY DEF ListsUpTo
<1>4. IsFiniteSet(M) /\ Cardinality(M) \in Nat
  BY <1>2, <1>3, FS_Subset, FS_CardinalityType
<1>5. Cardinality(D) = Cardinality(L) - Cardinality(M) /\ IsFiniteSet(D)
  BY <1>2, <1>3, FS_Difference
<1>6. Cardinality(D) \in 0 .. k - n
  <2>1. IsFiniteSet(n + 1 .. k) /\ Cardinality(n + 1 .. k) = k - n
    <3>1. PICK a \in Int : a = n + 1
      OBVIOUS
    <3>2. /\ IsFiniteSet(a .. k)
          /\ Cardinality(a .. k) = IF a > k THEN 0 ELSE k - a + 1
      BY FS_Interval
    <3> QED
      BY <3>1, <3>2
  <2>2. D \subseteq n + 1 .. k
    BY DEF ListsUpTo
  <2>3. Cardinality(D) <= Cardinality(n + 1 .. k) /\ Cardinality(D) \in Nat
    <3> HIDE DEF D
    <3> QED
      BY <1>5, <2>1, <2>2, FS_Subset, FS_CardinalityType
  <2> HIDE DEF D
  <2> QED
    BY <2>1, <2>3
<1>7. Cardinality(ListsUpTo(0)) = 0
  <2>1. ListsUpTo(0) = {}
    BY DEF ListsUpTo
  <2> QED
    BY <2>1, FS_EmptySet
<1>8. \A m \in Nat : RequestEnd(m) = 289 * m - 32 * Cardinality(ListsUpTo(m))
  BY DEF RequestEnd, ListsUpTo, REQUEST_LENGTH, LIST_REQUEST
<1>9. /\ RequestEnd(k) = 289 * k - 32 * Cardinality(L)
      /\ RequestEnd(n) = 289 * n - 32 * Cardinality(M)
      /\ RequestEnd(0) = 0
  BY <1>7, <1>8
<1> HIDE DEF L, M, D
<1>10. /\ RequestEnd(k) \in Int /\ RequestEnd(n) \in Int
       /\ RequestEnd(k) - RequestEnd(n) = 289 * (k - n) - 32 * Cardinality(D)
  BY <1>2, <1>4, <1>5, <1>9
<1> QED
  BY <1>6, <1>9, <1>10 DEF REQUEST_LENGTH, LIST_REQUEST

(* Of the requests that end in the first bytes of the pipe the last one ends less  *)
(* than REQUEST_LENGTH bytes before.                                               *)
LEMMA WholeRequests ==
  ASSUME NEW length \in Nat, NEW upto \in 0 .. RequestEnd(length)
  PROVE  LET whole == Cardinality({k \in 1 .. length : RequestEnd(k) <= upto})
         IN  /\ whole \in 0 .. length
             /\ upto - RequestEnd(whole) \in 0 .. REQUEST_LENGTH - 1
             /\ length > 0 /\ RequestEnd(1) <= upto => whole > 0
<1> DEFINE S == {k \in 1 .. length : RequestEnd(k) <= upto}
           Beyond == {m \in 1 .. length + 1 : m = length + 1 \/ RequestEnd(m) > upto}
<1>1. PICK m \in Beyond : \A k \in Beyond : m <= k
  <2>1. length + 1 \in Beyond /\ Beyond \subseteq Nat
    OBVIOUS
  <2> QED
    BY <2>1, LeastNat
<1>2. m \in 1 .. length + 1 /\ (m = length + 1 \/ RequestEnd(m) > upto)
  OBVIOUS
<1>3. \A k \in 1 .. length + 1 : RequestEnd(k) \in Int
  BY RequestEnds
<1>4. S = 1 .. m - 1
  <2>1. ASSUME NEW k \in 1 .. m - 1 PROVE k \in S
    <3>1. k \in 1 .. length /\ k \notin Beyond
      BY <1>1, <1>2
    <3> QED
      BY <1>3, <3>1
  <2>2. ASSUME NEW k \in S PROVE k \in 1 .. m - 1
    <3>1. CASE k >= m
      <4>1. RequestEnd(m) > upto /\ m \in Nat /\ k \in Nat
        BY <1>2, <3>1
      <4>2. RequestEnd(m) <= RequestEnd(k)
        BY <3>1, <4>1, RequestEnds
      <4>3. RequestEnd(k) <= upto /\ RequestEnd(k) \in Int /\ RequestEnd(m) \in Int /\ upto \in Int
        BY <1>2, <1>3
      <4> QED
        BY <4>1, <4>2, <4>3
    <3>2. CASE k < m
      BY <1>2, <3>2
    <3> QED
      BY <1>2, <3>1, <3>2
  <2> QED
    BY <2>1, <2>2
<1>5. Cardinality(S) = m - 1
  <2>1. Cardinality(1 .. m - 1) = m - 1
    BY <1>2, FS_Interval
  <2> QED
    BY <1>4, <2>1
<1>6. RequestEnd(m - 1) <= upto
  <2>1. CASE m = 1
    BY <2>1, RequestEnds
  <2>2. CASE m # 1
    BY <1>2, <1>4, <2>2
  <2> QED
    BY <2>1, <2>2
<1>7. upto - RequestEnd(m - 1) < REQUEST_LENGTH
  <2>1. CASE m = length + 1
    BY <1>3, <2>1, RequestEnds DEF REQUEST_LENGTH
  <2>2. CASE m # length + 1
    <3>1. RequestEnd(m) > upto
      BY <1>2, <2>2
    <3>2. m - 1 \in Nat /\ m \in Nat /\ m - 1 <= m
      BY <1>2
    <3>3. RequestEnd(m) - RequestEnd(m - 1) <= REQUEST_LENGTH * (m - (m - 1))
      BY <3>2, RequestEnds
    <3>4. RequestEnd(m) \in Int /\ RequestEnd(m - 1) \in Int
      BY <3>2, RequestEnds
    <3> QED
      BY <3>1, <3>2, <3>3, <3>4 DEF REQUEST_LENGTH
  <2> QED
    BY <2>1, <2>2
<1>8. RequestEnd(m - 1) \in Int /\ m - 1 \in 0 .. length
  BY <1>2, RequestEnds
<1>9. ASSUME length > 0, RequestEnd(1) <= upto PROVE m - 1 > 0
  <2>1. 1 \in S
    BY <1>9
  <2> QED
    BY <1>2, <1>4, <2>1
<1> QED
  BY <1>5, <1>6, <1>7, <1>8, <1>9 DEF REQUEST_LENGTH

--------------------------------------------------------------------------------
(* Steps *)

(* What a step may be. *)
LEMMA Steps ==
  ASSUME [Next]_vars
  PROVE  \/ \E c \in Clients :
              \/ Start(c) \/ Register(c) \/ OpenSession(c) \/ ReadAnswer(c)
              \/ ReadListing(c) \/ EndOfFile(c) \/ Kill(c)
         \/ ReadRequest \/ EnqReserve \/ EnqFreeOld \/ EnqStore
         \/ \E w \in Workers :
              \/ DeqTake(w) \/ DeqLoad(w) \/ CopyRequest(w) \/ LookUp(w) \/ Opened(w)
              \/ CreateOpen(w) \/ CreateClose(w) \/ RemoveBox(w) \/ ListBox(w)
              \/ NotServed(w) \/ Answer(w)
         \/ UNCHANGED vars
BY DEF Next, ClientStep, MainStep, WorkerStep

(* A client's step. *)
LEMMA ClientTyped ==
  ASSUME Typed, NEW c \in Clients,
         \/ Start(c) \/ Register(c) \/ OpenSession(c) \/ ReadAnswer(c)
         \/ ReadListing(c) \/ EndOfFile(c) \/ Kill(c)
  PROVE  Typed'
<1> USE Bounds
<1>1. ClientsTyped /\ InletTyped /\ QueueTyped /\ PoolTyped /\ RestTyped /\ list = <<>>
  BY TypeParts DEF Typed, Held
<1>2. /\ UNCHANGED <<queue, pool, leaked, descriptors, storage, crashed>>
      /\ UNCHANGED <<consumed, main_at, requests>>
  BY DEF Start, Register, OpenSession, ReadAnswer, ReadListing, EndOfFile, Kill, inlet
<1>3. QueueTyped' /\ PoolTyped' /\ RestTyped' /\ list' = <<>>
  <2>1. QueueTyped'
    BY <1>1, <1>2 DEF QueueTyped, queue, Elements
  <2>2. PoolTyped'
    BY <1>1, <1>2 DEF PoolTyped, pool, Elements
  <2> QED
    BY <1>1, <1>2, <2>1, <2>2 DEF RestTyped, storage
<1>4. Held' /\ DescriptorsHeld'
  BY <1>2 DEF Typed, Held, DescriptorsHeld, Holding, pool, storage
<1>5. InletTyped'
  <2>1. CASE Register(c)
    <3>1. PICK box \in Boxes \cup {None} :
            server_pipe' = Append(server_pipe, [op |-> OpCode(c), client |-> c, box |-> box])
      BY <2>1 DEF Register
    <3>2. [op |-> OpCode(c), client |-> c, box |-> box] \in Requests
      BY OpCodeType DEF Requests
    <3> QED
      BY <1>1, <1>2, <3>1, <3>2 DEF InletTyped
  <2>2. CASE ~Register(c)
    <3>1. UNCHANGED inlet
      BY <2>2 DEF Start, OpenSession, ReadAnswer, ReadListing, EndOfFile, Kill
    <3> QED
      BY <1>1, <3>1 DEF InletTyped, inlet
  <2> QED
    BY <2>1, <2>2
<1>6. ClientsTyped'
  <2>1. CASE Start(c)
    BY <1>1, <2>1 DEF Start, ClientsTyped
  <2>2. CASE Register(c)
    BY <1>1, <2>2 DEF Register, ClientsTyped
  <2>3. CASE OpenSession(c)
    BY <1>1, <2>3 DEF OpenSession, ClientsTyped
  <2>4. CASE ReadAnswer(c)
    <3>1. Head(answers[c]) \in Results
      BY <1>1, <2>4 DEF ReadAnswer, ClientsTyped
    <3> QED
      BY <1>1, <2>4, <3>1 DEF ReadAnswer, Finish, ClientsTyped
  <2>5. CASE ReadListing(c)
    <3>1. Tail(answers[c]) \in Seq(Results)
      BY <1>1, <2>5 DEF ReadListing, ClientsTyped
    <3> QED
      BY <1>1, <2>5, <3>1 DEF ReadListing, ClientsTyped
  <2>6. CASE EndOfFile(c)
    <3>1. PICK told \in Results \cup {"closed"} : Finish(c, told) /\ UNCHANGED <<life, answers, met, kills>>
      BY <2>6 DEF EndOfFile, Results
    <3> QED
      BY <1>1, <3>1 DEF Finish, ClientsTyped
  <2>7. CASE Kill(c)
    BY <1>1, <2>7 DEF Kill, ClientsTyped
  <2> QED
    BY <2>1, <2>2, <2>3, <2>4, <2>5, <2>6, <2>7
<1> QED
  BY <1>3, <1>4, <1>5, <1>6, TypePartsNext DEF Typed

(* main reads from the start of a request, and then takes that away, or from inside*)
(* one.                                                                            *)
LEMMA ReadRequestForm ==
  ASSUME Typed, ReadRequest
  PROVE  \E whole \in 0 .. Len(server_pipe) :
            /\ server_pipe # <<>>
            /\ requests' = Append(requests, IF consumed = 0 THEN Head(server_pipe) ELSE Garbled)
            /\ server_pipe' = SubSeq(server_pipe, whole + 1, Len(server_pipe))
            /\ consumed' \in 0 .. REQUEST_LENGTH - 1
            /\ main_at' = "count"
            /\ consumed = 0 => whole > 0
<1> DEFINE length == Len(server_pipe)
           upto == IF consumed + REQUEST_LENGTH < RequestEnd(length)
                   THEN consumed + REQUEST_LENGTH ELSE RequestEnd(length)
           whole == Cardinality({k \in 1 .. length : RequestEnd(k) <= upto})
<1>1. /\ server_pipe # <<>>
      /\ requests' = Append(requests, IF consumed = 0 THEN Head(server_pipe) ELSE Garbled)
      /\ server_pipe' = SubSeq(server_pipe, whole + 1, Len(server_pipe))
      /\ consumed' = upto - RequestEnd(whole)
      /\ main_at' = "count"
  BY DEF ReadRequest
<1>2. length \in Nat /\ length > 0 /\ consumed \in 0 .. REQUEST_LENGTH - 1
  BY <1>1 DEF Typed, TypeOK
<1>3. upto \in 0 .. RequestEnd(length) /\ (consumed = 0 => RequestEnd(1) <= upto)
  <2>1. 0 \in Nat /\ 1 \in Nat /\ length \in Nat /\ 0 <= length /\ 1 <= length /\ 0 <= 1
    BY <1>2
  <2>2. /\ RequestEnd(0) = 0 /\ RequestEnd(0) <= RequestEnd(length)
        /\ RequestEnd(length) \in Int /\ RequestEnd(1) \in Int
        /\ RequestEnd(1) <= RequestEnd(length)
    BY <2>1, RequestEnds
  <2>3. RequestEnd(1) - RequestEnd(0) <= REQUEST_LENGTH * (1 - 0)
    BY <2>1, RequestEnds
  <2> QED
    BY <1>2, <2>2, <2>3 DEF REQUEST_LENGTH
<1> HIDE DEF length, upto
<1>4. /\ whole \in 0 .. length /\ upto - RequestEnd(whole) \in 0 .. REQUEST_LENGTH - 1
      /\ consumed = 0 => whole > 0
  BY <1>2, <1>3, WholeRequests
<1> HIDE DEF whole
<1> QED
  BY <1>1, <1>4 DEF length

(* main reads a request, or what begins inside one. *)
LEMMA ReadRequestTyped ==
  ASSUME Typed, ReadRequest
  PROVE  Typed'
<1> USE Bounds
<1>1. ClientsTyped /\ InletTyped /\ QueueTyped /\ PoolTyped /\ RestTyped /\ list = <<>>
  BY TypeParts DEF Typed, Held
<1>2. UNCHANGED <<clients, queue, pool, leaked, descriptors, storage, crashed>>
  BY DEF ReadRequest
<1>3. PICK whole \in 0 .. Len(server_pipe) :
        /\ server_pipe # <<>>
        /\ requests' = Append(requests, IF consumed = 0 THEN Head(server_pipe) ELSE Garbled)
        /\ server_pipe' = SubSeq(server_pipe, whole + 1, Len(server_pipe))
        /\ consumed' \in 0 .. REQUEST_LENGTH - 1
        /\ main_at' = "count"
  BY ReadRequestForm
<1>4. /\ requests \in Seq(Requests \cup {Garbled}) /\ server_pipe \in Seq(Requests)
      /\ Head(server_pipe) \in Requests
  BY <1>1, <1>3 DEF InletTyped
<1>5. /\ requests' \in Seq(Requests \cup {Garbled}) /\ requests' # <<>>
      /\ Len(requests') = Len(requests) + 1
  BY <1>3, <1>4
<1>6. Elements \subseteq Elements'
  BY <1>4, <1>5 DEF Elements
<1>7. InletTyped'
  <2>1. server_pipe' \in Seq(Requests)
    BY <1>3, <1>4
  <2> QED
    BY <1>3, <1>5, <2>1 DEF InletTyped
<1>8. ClientsTyped' /\ QueueTyped' /\ PoolTyped' /\ RestTyped' /\ list' = <<>>
  <2>1. ClientsTyped'
    BY <1>1, <1>2 DEF ClientsTyped, clients
  <2>2. QueueTyped'
    BY <1>1, <1>2, <1>6 DEF QueueTyped, queue
  <2>3. PoolTyped'
    BY <1>1, <1>2, <1>6 DEF PoolTyped, pool
  <2>4. RestTyped' /\ list' = <<>>
    BY <1>1, <1>2 DEF RestTyped, storage
  <2> QED
    BY <2>1, <2>2, <2>3, <2>4
<1>9. Held' /\ DescriptorsHeld'
  BY <1>2, <1>5 DEF Typed, Held, DescriptorsHeld, Holding, pool, storage
<1> QED
  BY <1>7, <1>8, <1>9, TypePartsNext DEF Typed

(* main queues it. *)
LEMMA EnqTyped ==
  ASSUME Typed, EnqReserve \/ EnqFreeOld \/ EnqStore
  PROVE  Typed'
<1> USE Bounds
<1>1. ClientsTyped /\ InletTyped /\ QueueTyped /\ PoolTyped /\ RestTyped /\ list = <<>>
  BY TypeParts DEF Typed, Held
<1>2. /\ UNCHANGED <<clients, server_pipe, consumed, requests, pool, leaked, descriptors, storage>>
      /\ main_at # "read" /\ main_at' \in {"read", "count", "free", "store"}
  BY DEF EnqReserve, EnqFreeOld, EnqStore
<1>3. ClientsTyped' /\ InletTyped' /\ PoolTyped' /\ list' = <<>>
  <2>1. ClientsTyped'
    BY <1>1, <1>2 DEF ClientsTyped, clients
  <2>2. InletTyped'
    BY <1>1, <1>2 DEF InletTyped
  <2>3. PoolTyped'
    BY <1>1, <1>2 DEF PoolTyped, pool, Elements
  <2> QED
    BY <1>1, <1>2, <2>1, <2>2, <2>3 DEF storage
<1>4. Held' /\ DescriptorsHeld'
  BY <1>2 DEF Typed, Held, DescriptorsHeld, Holding, pool, storage
<1>5. Len(requests) \in Elements
  BY <1>1, <1>2 DEF Typed, Held, InletTyped, Elements
<1>6. QueueTyped' /\ crashed' \in BOOLEAN
  <2>1. CASE EnqReserve
    BY <1>1, <2>1 DEF EnqReserve, QueueTyped, RestTyped, Elements
  <2>2. CASE EnqFreeOld
    <3>1. Free(pcq_buffer[pcq_head]) /\ pcq_buffer[pcq_head] \in Elements \cup {NULL}
      BY <1>1, <2>2 DEF EnqFreeOld, QueueTyped
    <3>2. freed' \subseteq Elements /\ crashed' \in BOOLEAN
      BY <3>1, FreeType
    <3> QED
      BY <1>1, <1>2, <2>2, <3>2 DEF EnqFreeOld, QueueTyped, Elements
  <2>3. CASE EnqStore
    <3>1. (pcq_head + 1) % Capacity \in Slots
      BY <1>1 DEF QueueTyped, Slots
    <3> QED
      BY <1>1, <1>2, <1>5, <2>3, <3>1 DEF EnqStore, QueueTyped, RestTyped, Elements
  <2> QED
    BY <2>1, <2>2, <2>3
<1>7. RestTyped'
  BY <1>1, <1>2, <1>6 DEF RestTyped, storage
<1> QED
  BY <1>3, <1>4, <1>6, <1>7, TypePartsNext DEF Typed

HoldingPlaces == {"open", "serve", "close", "answer"}

(* A worker that goes from one place to another. *)
LEMMA HoldingMoves ==
  ASSUME Typed, NEW w \in Workers, NEW to, pc' = [pc EXCEPT ![w] = to]
  PROVE  /\ (pc[w] \in HoldingPlaces <=> to \in HoldingPlaces) => Holding' = Holding
         /\ to \in HoldingPlaces => Holding' = Holding \cup {w}
         /\ to \notin HoldingPlaces => Holding' = Holding \ {w}
         /\ pc[w] \in HoldingPlaces <=> w \in Holding
         /\ \A v \in Workers : pc'[v] = IF v = w THEN to ELSE pc[v]
<1>1. pc \in [Workers -> {"dequeue", "load", "copy", "lookup", "open", "serve", "close",
                          "answer", "returned"}]
  BY DEF Typed, TypeOK
<1>2. \A v \in Workers : pc'[v] = IF v = w THEN to ELSE pc[v]
  BY <1>1
<1> QED
  BY <1>2 DEF Holding, HoldingPlaces

(* A worker that dequeues, copies its request or fails to open a pipe. *)
LEMMA DequeueTyped ==
  ASSUME Typed, NEW w \in Workers, DeqTake(w) \/ DeqLoad(w) \/ CopyRequest(w)
  PROVE  Typed'
<1> USE Bounds
<1>1. ClientsTyped /\ InletTyped /\ QueueTyped /\ PoolTyped /\ RestTyped /\ list = <<>>
  BY TypeParts DEF Typed, Held
<1>2. /\ UNCHANGED <<clients, inlet, pcq_head, pcq_buffer, freed, session, result, leaked,
                     descriptors, storage>>
      /\ crashed' \in BOOLEAN
  BY <1>1 DEF DeqTake, DeqLoad, CopyRequest, queue, RestTyped
<1>3. ClientsTyped' /\ InletTyped' /\ RestTyped' /\ list' = <<>> /\ Elements' = Elements
  <2>1. ClientsTyped'
    BY <1>1, <1>2 DEF ClientsTyped, clients
  <2>2. InletTyped' /\ Elements' = Elements
    BY <1>1, <1>2 DEF InletTyped, inlet, Elements
  <2> QED
    BY <1>1, <1>2, <2>1, <2>2 DEF RestTyped, storage
<1>4. QueueTyped'
  <2>1. pcq_current_size' \in 0 .. Capacity
    BY <1>1 DEF DeqTake, CanTake, DeqLoad, CopyRequest, queue, QueueTyped
  <2>2. pcq_tail' \in Slots
    <3>1. (pcq_tail + 1) % Capacity \in Slots
      BY <1>1 DEF QueueTyped, Slots
    <3> QED
      BY <1>1, <3>1 DEF DeqTake, DeqLoad, NextTail, CopyRequest, queue, QueueTyped
  <2> QED
    BY <1>1, <1>2, <1>3, <2>1, <2>2 DEF QueueTyped
<1>5. PICK to \in {"load", "copy", "lookup"} :
        \/ pc' = [pc EXCEPT ![w] = to]
        \/ pc' = pc /\ elem' = elem /\ request' = request
  BY DEF DeqTake, DeqLoad, CopyRequest, GoTo
<1>6. /\ elem' \in [Workers -> Elements \cup {NULL}]
      /\ \A v \in Workers : v # w => elem'[v] = elem[v]
      /\ request' \in [Workers -> Copies]
  <2>1. CASE DeqTake(w)
    BY <1>1, <2>1 DEF DeqTake, PoolTyped
  <2>2. CASE DeqLoad(w)
    <3>1. pcq_buffer[pcq_tail] \in Elements \cup {NULL}
      BY <1>1 DEF QueueTyped
    <3> QED
      BY <1>1, <2>2, <3>1 DEF DeqLoad, PoolTyped
  <2>3. CASE CopyRequest(w)
    <3>1. CASE elem[w] = NULL
      BY <1>1, <2>3, <3>1 DEF CopyRequest, PoolTyped
    <3>2. CASE elem[w] # NULL
      <4>1. PICK code \in OpCodeRead(elem[w]), r \in Contents(elem[w]) :
              request' = [request EXCEPT ![w] = [r EXCEPT !.op = code]]
        BY <2>3, <3>2 DEF CopyRequest
      <4>2. r \in Requests \cup {Garbled} /\ code \in Codes \cup {"garbled"}
        BY <1>1, <3>2, <4>1, ContentsType DEF PoolTyped
      <4>3. [r EXCEPT !.op = code] \in Copies
        BY <4>2 DEF Requests, Garbled, Copies
      <4> QED
        BY <1>1, <2>3, <4>1, <4>3 DEF CopyRequest, PoolTyped
    <3> QED
      BY <3>1, <3>2
  <2> QED
    BY <2>1, <2>2, <2>3
<1>7. PoolTyped' /\ Holding' = Holding /\ Held'
  <2>1. CASE pc' = pc /\ elem' = elem
    BY <1>1, <1>2, <1>3, <1>6, <2>1 DEF PoolTyped, Holding, Held, Typed, inlet
  <2>2. CASE pc' = [pc EXCEPT ![w] = to]
    <3>1. \A v \in Workers : pc'[v] = IF v = w THEN to ELSE pc[v]
      BY <1>1, <2>2 DEF PoolTyped
    <3>2. pc[w] \notin HoldingPlaces
      BY <1>1, <2>2, <3>1 DEF DeqTake, DeqLoad, CopyRequest, GoTo, HoldingPlaces
    <3>3. Holding' = Holding
      BY <3>1, <3>2 DEF Holding, HoldingPlaces
    <3>4. to = "lookup" => elem'[w] # NULL
      BY <1>1, <2>2, <3>1 DEF DeqTake, DeqLoad, CopyRequest, GoTo, PoolTyped
    <3>5. Held'
      BY <1>2, <1>3, <1>6, <3>1, <3>4 DEF Held, Typed, inlet
    <3>6. PoolTyped'
      BY <1>1, <1>2, <1>3, <1>6, <2>2 DEF PoolTyped
    <3> QED
      BY <3>3, <3>5, <3>6
  <2> QED
    BY <1>5, <2>1, <2>2
<1>8. DescriptorsHeld'
  BY <1>2, <1>7 DEF Typed, DescriptorsHeld
<1> QED
  BY <1>3, <1>4, <1>7, <1>8, TypePartsNext DEF Typed

(* open: a descriptor is used up, or the worker leaves. *)
LEMMA LookUpTyped ==
  ASSUME Typed, NEW w \in Workers, LookUp(w)
  PROVE  Typed'
<1> USE Bounds
<1>1. ClientsTyped /\ InletTyped /\ QueueTyped /\ PoolTyped /\ RestTyped /\ list = <<>>
  BY TypeParts DEF Typed, Held
<1>2. UNCHANGED <<clients, inlet, queue, elem, request, result, leaked, storage, crashed>>
  BY DEF LookUp
<1>3. ClientsTyped' /\ InletTyped' /\ QueueTyped' /\ list' = <<>> /\ Elements' = Elements
  <2>1. ClientsTyped'
    BY <1>1, <1>2 DEF ClientsTyped, clients
  <2>2. InletTyped' /\ Elements' = Elements
    BY <1>1, <1>2 DEF InletTyped, inlet, Elements
  <2>3. QueueTyped'
    BY <1>1, <1>2, <2>2 DEF QueueTyped, queue
  <2> QED
    BY <1>1, <1>2, <2>1, <2>2, <2>3 DEF storage
<1>4. pc[w] = "lookup" /\ elem[w] # NULL
  BY DEF LookUp, GoTo, Typed, Held
<1> DEFINE c == request[w].client
<1>5. CASE CannotOpen(c)
  <2>1. pc' = [pc EXCEPT ![w] = "returned"] /\ UNCHANGED <<session, descriptors>>
    BY <1>5 DEF LookUp, GoTo
  <2>2. Holding' = Holding /\ \A v \in Workers : pc'[v] = IF v = w THEN "returned" ELSE pc[v]
    BY <1>4, <2>1, HoldingMoves DEF HoldingPlaces
  <2>3. PoolTyped' /\ RestTyped'
    BY <1>1, <1>2, <1>3, <2>1 DEF PoolTyped, RestTyped, storage
  <2>4. Held' /\ DescriptorsHeld'
    BY <1>2, <1>3, <2>1, <2>2 DEF Typed, Held, DescriptorsHeld, inlet
  <2> QED
    BY <1>3, <2>3, <2>4, TypePartsNext DEF Typed
<1>6. CASE ~CannotOpen(c)
  <2>1. /\ pc' = [pc EXCEPT ![w] = "open"]
        /\ session' = [session EXCEPT ![w] = <<c, fifo[c]>>]
        /\ descriptors' = descriptors + 1
        /\ c # None /\ fifo[c] # 0 /\ descriptors # MaxDescriptors
    BY <1>6 DEF LookUp, GoTo, CannotOpen
  <2>2. w \notin Holding /\ Holding' = Holding \cup {w}
    BY <1>4, <2>1, HoldingMoves DEF HoldingPlaces
  <2>3. c \in Clients /\ fifo[c] \in 1 .. MaxLives
    <3>1. request[w] \in Copies
      BY <1>1 DEF PoolTyped
    <3>2. c \in Clients
      BY <2>1, <3>1 DEF Copies
    <3>3. fifo[c] \in 0 .. MaxLives
      BY <1>1, <3>2 DEF ClientsTyped
    <3> QED
      BY <2>1, <3>2, <3>3
  <2>4. PoolTyped' /\ RestTyped'
    <3>1. PoolTyped'
      BY <1>1, <1>2, <1>3, <2>1, <2>3 DEF PoolTyped
    <3> QED
      BY <1>1, <1>2, <2>1, <3>1 DEF RestTyped, storage
  <2>5. DescriptorsHeld'
    <3>1. /\ IsFiniteSet(Holding') /\ Cardinality(Holding') = Cardinality(Holding) + 1
          /\ Cardinality(Holding) \in Nat
      BY <2>2, FS_AddElement, FS_CardinalityType DEF Typed, DescriptorsHeld
    <3> QED
      BY <1>1, <2>1, <3>1 DEF Typed, DescriptorsHeld, RestTyped
  <2>6. Held'
    <3>1. session'[w] # NoSession /\ \A v \in Workers : v # w => session'[v] = session[v]
      BY <1>1, <2>1 DEF NoSession, PoolTyped
    <3>2. \A v \in Workers : pc'[v] = IF v = w THEN "open" ELSE pc[v]
      BY <2>1, HoldingMoves
    <3> QED
      BY <1>2, <1>3, <1>4, <3>1, <3>2 DEF Typed, Held, inlet
  <2> QED
    BY <1>3, <2>4, <2>5, <2>6, TypePartsNext DEF Typed
<1> QED
  BY <1>5, <1>6

(* What create_box and remove_box read from the element. *)
LEMMA BoxReadType ==
  ASSUME Typed, NEW w \in Workers, pc[w] = "serve"
  PROVE  BoxRead(w) \subseteq Boxes \cup {None}
<1>1. elem[w] \in Elements
  BY DEF Typed, Held, TypeOK
<1>2. Contents(elem[w]) \subseteq Requests \cup {Garbled}
  BY <1>1, ContentsType
<1> QED
  BY <1>2 DEF BoxRead, Requests, Garbled

(* A worker serves a session whose pipe is open. *)
LEMMA ServeTyped ==
  ASSUME Typed, NEW w \in Workers,
         Opened(w) \/ CreateOpen(w) \/ CreateClose(w) \/ RemoveBox(w) \/ ListBox(w)
  PROVE  Typed'
<1> USE Bounds
<1>1. ClientsTyped /\ InletTyped /\ QueueTyped /\ PoolTyped /\ RestTyped /\ list = <<>>
  BY TypeParts DEF Typed, Held
<1>2. /\ UNCHANGED <<at, life, fifo, answers, outcome, kills, inlet, queue, elem, session, leaked,
                     descriptors, crashed>>
      /\ met' = met \/ met' = [met EXCEPT ![session[w][1]] = TRUE]
  BY DEF Opened, CreateOpen, CreateClose, RemoveBox, ListBox, clients
<1>3. ClientsTyped' /\ InletTyped' /\ QueueTyped' /\ Elements' = Elements
  <2>1. ClientsTyped'
    <3>1. met' \in [Clients -> BOOLEAN]
      BY <1>1, <1>2 DEF ClientsTyped
    <3> QED
      BY <1>1, <1>2, <3>1 DEF ClientsTyped
  <2>2. InletTyped' /\ Elements' = Elements
    BY <1>1, <1>2 DEF InletTyped, inlet, Elements
  <2> QED
    BY <1>1, <1>2, <2>1, <2>2 DEF QueueTyped, queue
<1>4. PICK to \in {"serve", "close", "answer"} :
        pc[w] \in {"open", "serve", "close"} /\ pc' = [pc EXCEPT ![w] = to]
  BY DEF Opened, CreateOpen, CreateClose, RemoveBox, ListBox, GoTo
<1>5. Holding' = Holding /\ \A v \in Workers : pc'[v] = IF v = w THEN to ELSE pc[v]
  <2>1. pc[w] \in HoldingPlaces /\ to \in HoldingPlaces
    BY <1>4 DEF HoldingPlaces
  <2> QED
    BY <1>4, <2>1, HoldingMoves
<1>6. /\ files' \subseteq Boxes /\ list' = <<>>
      /\ request' \in [Workers -> Copies]
      /\ result' \in [Workers -> Results \cup {"none"}]
  <2>1. CASE Opened(w)
    BY <1>1, <2>1 DEF Opened, storage, PoolTyped, RestTyped
  <2>2. CASE CreateOpen(w)
    <3>1. pc[w] = "serve" /\ request[w].op = "create"
      BY <2>2 DEF CreateOpen, GoTo
    <3>2. PICK box \in BoxRead(w) :
            /\ request' = [request EXCEPT ![w].box = box]
            /\ files' = files \/ (files' = files \cup {box} /\ (box \in files \/ box # None))
            /\ result' = result \/ result' = [result EXCEPT ![w] = "error"]
      <4>1. PICK box \in BoxRead(w) :
              LET exists == box \in files \/ (box # None /\ Cardinality(files) < MaxBoxes)
                  handle == Cardinality({v \in Workers : pc[v] = "close"}) < MaxOpenFiles
              IN  /\ files' = IF exists THEN files \cup {box} ELSE files
                  /\ request' = [request EXCEPT ![w].box = box]
                  /\ IF exists /\ handle
                     THEN GoTo(w, "serve", "close") /\ UNCHANGED result
                     ELSE GoTo(w, "serve", "answer") /\ SetResult(w, "error")
        BY <2>2 DEF CreateOpen
      <4>2. result' = result \/ result' = [result EXCEPT ![w] = "error"]
        BY <4>1 DEF SetResult
      <4>3. files' = files \/ (files' = files \cup {box} /\ (box \in files \/ box # None))
        BY <4>1
      <4>4. request' = [request EXCEPT ![w].box = box]
        BY <4>1
      <4> QED
        BY <4>2, <4>3, <4>4
    <3>3. box \in Boxes \cup {None}
      BY <3>1, BoxReadType
    <3>4. [request[w] EXCEPT !.box = box] \in Copies
      BY <1>1, <3>3 DEF PoolTyped, Copies
    <3>5. request' \in [Workers -> Copies]
      BY <1>1, <3>2, <3>4 DEF PoolTyped
    <3> QED
      BY <1>1, <2>2, <3>2, <3>3, <3>5 DEF CreateOpen, PoolTyped, RestTyped, Results
  <2>3. CASE CreateClose(w)
    BY <1>1, <2>3 DEF CreateClose, InsertBox, SetResult, PoolTyped, RestTyped, Results
  <2>4. CASE RemoveBox(w)
    <3>1. PICK box \in BoxRead(w) :
            /\ files' = files \ {box}
            /\ list' = list \/ list' = DeleteBox(list, box)
            /\ result' = [result EXCEPT ![w] = "ok"] \/ result' = [result EXCEPT ![w] = "error"]
      BY <2>4 DEF RemoveBox, SetResult
    <3>2. DeleteBox(list, box) = <<>>
      BY <1>1 DEF DeleteBox, RemoveFirst
    <3> QED
      BY <1>1, <2>4, <3>1, <3>2 DEF RemoveBox, PoolTyped, RestTyped, Results
  <2>5. CASE ListBox(w)
    BY <1>1, <2>5 DEF ListBox, SetResult, storage, PoolTyped, RestTyped, Results
  <2> QED
    BY <2>1, <2>2, <2>3, <2>4, <2>5
<1>7. PoolTyped' /\ RestTyped'
  BY <1>1, <1>2, <1>3, <1>4, <1>6 DEF PoolTyped, RestTyped
<1>8. /\ \A v \in Workers : v # w => result'[v] = result[v]
      /\ to = "answer" => result'[w] # "none"
  <2>1. \/ result' = [result EXCEPT ![w] = "ok"]
        \/ result' = [result EXCEPT ![w] = "error"]
        \/ result' = [result EXCEPT ![w] = "list"]
        \/ result' = result /\ pc' = [pc EXCEPT ![w] = "serve"]
        \/ result' = result /\ pc' = [pc EXCEPT ![w] = "close"]
    <3>1. CASE Opened(w)
      BY <3>1 DEF Opened, GoTo
    <3>2. CASE CreateOpen(w)
      BY <3>2 DEF CreateOpen, SetResult, GoTo
    <3>3. CASE CreateClose(w)
      BY <3>3 DEF CreateClose, SetResult
    <3>4. CASE RemoveBox(w)
      BY <3>4 DEF RemoveBox, SetResult
    <3>5. CASE ListBox(w)
      BY <3>5 DEF ListBox, SetResult
    <3> QED
      BY <3>1, <3>2, <3>3, <3>4, <3>5
  <2>2. \A from \in {"serve", "close"} : pc' = [pc EXCEPT ![w] = from] => to # "answer"
    BY <1>1, <1>4 DEF PoolTyped
  <2> QED
    BY <1>1, <2>1, <2>2 DEF PoolTyped
<1>9. Held' /\ DescriptorsHeld'
  BY <1>2, <1>4, <1>5, <1>6, <1>8 DEF Typed, Held, DescriptorsHeld, inlet
<1> QED
  BY <1>3, <1>6, <1>7, <1>9, TypePartsNext DEF Typed

(* The end of a request, whose session was open. *)
LEMMA EndTyped ==
  ASSUME Typed, NEW w \in Workers, pc[w] \in {"serve", "answer"}, EndRequest(w),
         UNCHANGED <<inlet, storage>>
  PROVE  /\ PoolTyped' /\ RestTyped' /\ freed' \subseteq Elements /\ list' = <<>>
         /\ Held' /\ DescriptorsHeld'
<1> USE Bounds
<1>1. ClientsTyped /\ InletTyped /\ QueueTyped /\ PoolTyped /\ RestTyped /\ list = <<>>
  BY TypeParts DEF Typed, Held
<1>2. freed' \subseteq Elements /\ crashed' \in BOOLEAN
  <2>1. elem[w] \in Elements \cup {NULL} /\ Free(elem[w])
    BY <1>1 DEF PoolTyped, EndRequest
  <2> QED
    BY <2>1, FreeType
<1>3. Elements' = Elements
  BY DEF inlet, Elements
<1>4. pc' = [pc EXCEPT ![w] = "dequeue"]
  BY DEF EndRequest
<1>5. w \in Holding /\ Holding' = Holding \ {w}
  <2>1. pc[w] \in HoldingPlaces /\ "dequeue" \notin HoldingPlaces
    BY DEF HoldingPlaces
  <2> QED
    BY <1>4, <2>1, HoldingMoves
<1>6. \A v \in Workers : pc'[v] = IF v = w THEN "dequeue" ELSE pc[v]
  BY <1>4, HoldingMoves
<1>7. PoolTyped'
  <2>1. Garbled \in Copies
    BY DEF Garbled, Copies
  <2> QED
    BY <1>1, <1>3, <1>4, <2>1 DEF EndRequest, PoolTyped
<1>8. session[w] \in Clients \X (1 .. MaxLives)
  BY <1>1 DEF PoolTyped, Typed, Held
<1>9. /\ IsFiniteSet(Holding') /\ Cardinality(Holding') = Cardinality(Holding) - 1
      /\ Cardinality(Holding) \in Nat /\ Cardinality(Holding') \in Nat
  BY <1>5, FS_RemoveElement, FS_CardinalityType DEF Typed, DescriptorsHeld
<1>10. /\ leaked' \subseteq Clients \X (1 .. MaxLives) /\ descriptors' \in 0 .. MaxDescriptors
       /\ Cardinality(Holding') <= descriptors'
  <2>1. descriptors \in 0 .. MaxDescriptors /\ Cardinality(Holding) <= descriptors
    BY <1>1 DEF RestTyped, Typed, DescriptorsHeld
  <2>2. CASE HandlerFailed(w)
    BY <1>1, <1>9, <2>1, <2>2 DEF EndRequest, RestTyped
  <2>3. CASE ~HandlerFailed(w)
    BY <1>1, <1>8, <1>9, <2>1, <2>3 DEF EndRequest, RestTyped
  <2> QED
    BY <2>2, <2>3
<1>11. RestTyped' /\ list' = <<>>
  BY <1>1, <1>2, <1>10 DEF RestTyped, storage
<1>12. Held'
  <2>1. \A v \in Workers : v # w =>
          elem'[v] = elem[v] /\ session'[v] = session[v] /\ result'[v] = result[v]
    BY <1>1 DEF EndRequest, PoolTyped
  <2> QED
    BY <1>6, <1>11, <2>1 DEF Typed, Held, inlet
<1> QED
  BY <1>2, <1>7, <1>9, <1>10, <1>11, <1>12 DEF DescriptorsHeld

(* A session that finds no box, and one that is answered. *)
LEMMA AnswerTyped ==
  ASSUME Typed, NEW w \in Workers, NotServed(w) \/ Answer(w)
  PROVE  Typed'
<1> USE Bounds
<1>1. ClientsTyped /\ InletTyped /\ QueueTyped /\ PoolTyped /\ RestTyped /\ list = <<>>
  BY TypeParts DEF Typed, Held
<1>2. /\ UNCHANGED <<at, life, fifo, met, outcome, kills, inlet, pcq_current_size, pcq_head,
                     pcq_tail, pcq_buffer, storage>>
      /\ pc[w] \in {"serve", "answer"}
  BY DEF NotServed, Answer, clients
<1>3. InletTyped' /\ Elements' = Elements
  BY <1>1, <1>2 DEF InletTyped, inlet, Elements
<1>4. ClientsTyped'
  <2>1. answers' \in [Clients -> Seq(Results)]
    <3>1. CASE NotServed(w)
      BY <1>1, <3>1 DEF NotServed, clients, ClientsTyped
    <3>2. CASE Answer(w) /\ HasReader(session[w])
      <4>1. answers' = [answers EXCEPT ![session[w][1]] = Append(@, result[w])]
        BY <3>2 DEF Answer
      <4>2. result[w] \in Results
        BY <1>1, <3>2 DEF Answer, PoolTyped, Typed, Held
      <4>3. \A c \in Clients : Append(answers[c], result[w]) \in Seq(Results)
        BY <1>1, <4>2 DEF ClientsTyped
      <4> QED
        BY <1>1, <4>1, <4>3 DEF ClientsTyped
    <3>3. CASE Answer(w) /\ ~HasReader(session[w])
      BY <1>1, <3>3 DEF Answer, ClientsTyped
    <3> QED
      BY <3>1, <3>2, <3>3
  <2> QED
    BY <1>1, <1>2, <2>1 DEF ClientsTyped
<1>5. CASE EndRequest(w)
  <2>1. /\ PoolTyped' /\ RestTyped' /\ freed' \subseteq Elements /\ list' = <<>>
        /\ Held' /\ DescriptorsHeld'
    BY <1>2, <1>5, EndTyped
  <2>2. QueueTyped'
    BY <1>1, <1>2, <1>3, <2>1 DEF QueueTyped
  <2> QED
    BY <1>3, <1>4, <2>1, <2>2, TypePartsNext DEF Typed
<1>6. CASE crashed' = TRUE /\ UNCHANGED <<answers, pool, freed, leaked, descriptors>>
  <2>1. QueueTyped' /\ PoolTyped'
    BY <1>1, <1>2, <1>3, <1>6 DEF QueueTyped, PoolTyped, pool
  <2>2. RestTyped' /\ list' = <<>>
    BY <1>1, <1>2, <1>6 DEF RestTyped, storage
  <2>3. Held' /\ DescriptorsHeld'
    BY <1>2, <1>6, <2>2 DEF Typed, Held, DescriptorsHeld, Holding, pool, inlet
  <2> QED
    BY <1>3, <1>4, <2>1, <2>2, <2>3, TypePartsNext DEF Typed
<1> QED
  BY <1>5, <1>6 DEF NotServed, Answer

(* Every step keeps the types. *)
LEMMA NextTyped == Typed /\ [Next]_vars => Typed'
<1> SUFFICES ASSUME Typed, [Next]_vars PROVE Typed'
  OBVIOUS
<1>1. CASE UNCHANGED vars
  BY <1>1 DEF Typed, TypeOK, Held, DescriptorsHeld, Holding, Elements, vars, clients, inlet,
              queue, pool, storage
<1> QED
  BY <1>1, Steps, ClientTyped, ReadRequestTyped, EnqTyped, DequeueTyped, LookUpTyped,
     ServeTyped, AnswerTyped

(* Types are kept in every behaviour. *)
LEMMA AlwaysTyped == Spec => []Typed
  BY InitTyped, NextTyped, PTL DEF Spec

(* TypeOK: the broker never has more pipes open than it may, never counts below    *)
(* zero or past the ring, and is never more than one request out of step.          *)
THEOREM TypeCorrect == Spec => []TypeOK
<1>1. Typed => TypeOK
  BY DEF Typed
<1> QED
  BY <1>1, AlwaysTyped, PTL

--------------------------------------------------------------------------------
(* The first lap *)

(* Elements counted, elements stored, elements loaded. *)
Reserved == IF main_at = "count" THEN Len(requests) - 1 ELSE Len(requests)
Stored == IF main_at = "read" THEN Len(requests) ELSE Len(requests) - 1
Loading == {w \in Workers : pc[w] = "load"}
Loaded == Reserved - pcq_current_size - Cardinality(Loading)

(* The slot an element goes to, within the first lap. *)
Around(n) == IF n = Capacity THEN 0 ELSE n

(* What the first lap loads and stores goes through the slots in order; a slot      *)
(* holds its own element or none; workers have elements already loaded, and no two  *)
(* of them the same, and none that was freed.                                       *)
Ring ==
    /\ pcq_head = Around(Stored) /\ pcq_tail = Around(Loaded) /\ Loaded >= 0
    /\ \A j \in Slots : /\ pcq_buffer[j] \in {NULL, j + 1}
                        /\ j >= Stored => pcq_buffer[j] = NULL
    /\ \A e \in freed : e <= Loaded
    /\ \A w \in Workers : elem[w] <= Loaded /\ elem[w] \notin freed
    /\ \A v, w \in Workers : v # w /\ elem[w] # NULL => elem[v] # elem[w]

FirstLapHeld == IsFiniteSet(Loading) /\ (FirstLap => Ring)

(* The numbers add up. *)
LEMMA RingNumbers ==
  ASSUME Typed, FirstLapHeld
  PROVE  /\ Reserved \in Nat /\ Stored \in Nat /\ Stored <= Len(requests)
         /\ Reserved <= Len(requests) /\ Len(requests) \in Nat
         /\ Cardinality(Loading) \in Nat /\ pcq_current_size \in Nat
         /\ Loaded \in Int /\ Loaded <= Reserved - Cardinality(Loading)
         /\ FirstLap => Ring /\ Loaded \in Nat /\ Loaded <= Capacity
<1>1. requests \in Seq(Requests \cup {Garbled}) /\ Len(requests) \in Nat
  BY DEF Typed, TypeOK
<1>2. main_at # "read" => Len(requests) > 0
  BY <1>1 DEF Typed, Held
<1>3. Reserved \in Nat /\ Stored \in Nat /\ Stored <= Len(requests) /\ Reserved <= Len(requests)
  BY <1>1, <1>2 DEF Reserved, Stored
<1>4. Cardinality(Loading) \in Nat /\ pcq_current_size \in Nat
  BY FS_CardinalityType, Bounds DEF FirstLapHeld, Typed, TypeOK
<1>5. FirstLap => Ring /\ Loaded >= 0
  BY DEF FirstLapHeld, Ring
<1> QED
  BY <1>1, <1>3, <1>4, <1>5, Bounds DEF Loaded, FirstLap

(* A worker begins to load, has loaded, or does neither. *)
LEMMA LoadingMoves ==
  ASSUME Typed, FirstLapHeld, NEW w \in Workers, NEW to, pc' = [pc EXCEPT ![w] = to]
  PROVE  /\ pc[w] # "load" /\ to # "load" => Loading' = Loading
         /\ pc[w] # "load" /\ to = "load"
              => IsFiniteSet(Loading') /\ Cardinality(Loading') = Cardinality(Loading) + 1
         /\ pc[w] = "load" /\ to # "load"
              => /\ IsFiniteSet(Loading') /\ Cardinality(Loading') = Cardinality(Loading) - 1
                 /\ Cardinality(Loading) > 0
<1>1. \A v \in Workers : pc'[v] = IF v = w THEN to ELSE pc[v]
  BY HoldingMoves
<1>2. pc[w] # "load" /\ to # "load" => Loading' = Loading
  BY <1>1 DEF Loading
<1>3. ASSUME pc[w] # "load", to = "load"
      PROVE  IsFiniteSet(Loading') /\ Cardinality(Loading') = Cardinality(Loading) + 1
  <2>1. Loading' = Loading \cup {w} /\ w \notin Loading
    BY <1>1, <1>3 DEF Loading
  <2> QED
    BY <2>1, FS_AddElement DEF FirstLapHeld
<1>4. ASSUME pc[w] = "load", to # "load"
      PROVE  /\ IsFiniteSet(Loading') /\ Cardinality(Loading') = Cardinality(Loading) - 1
             /\ Cardinality(Loading) > 0
  <2>1. Loading' = Loading \ {w} /\ w \in Loading
    BY <1>1, <1>4 DEF Loading
  <2>2. IsFiniteSet(Loading') /\ Cardinality(Loading') = Cardinality(Loading) - 1
    BY <2>1, FS_RemoveElement DEF FirstLapHeld
  <2>3. Cardinality(Loading) \in Nat /\ Cardinality(Loading') \in Nat
    BY <2>2, FS_CardinalityType DEF FirstLapHeld
  <2> QED
    BY <2>2, <2>3
<1> QED
  BY <1>2, <1>3, <1>4

(* What changes neither the queue nor who loads what keeps the first lap. *)
LEMMA FirstLapKept ==
  ASSUME FirstLapHeld, UNCHANGED <<requests, main_at, queue, elem>>, Loading' = Loading
  PROVE  FirstLapHeld'
BY DEF FirstLapHeld, FirstLap, Ring, Reserved, Stored, Loaded, Around, queue

(* Clients do not. *)
LEMMA FirstLapClient ==
  ASSUME FirstLapHeld, NEW c \in Clients,
         \/ Start(c) \/ Register(c) \/ OpenSession(c) \/ ReadAnswer(c)
         \/ ReadListing(c) \/ EndOfFile(c) \/ Kill(c)
  PROVE  FirstLapHeld'
<1>1. UNCHANGED <<requests, main_at, queue, pool>>
  BY DEF Start, Register, OpenSession, ReadAnswer, ReadListing, EndOfFile, Kill, inlet
<1> QED
  BY <1>1, FirstLapKept DEF pool, Loading

(* The next slot, before the lap is over. *)
LEMMA AroundNext ==
  ASSUME NEW n \in Nat, n < Capacity
  PROVE  Around(n) = n /\ n \in Slots /\ (Around(n) + 1) % Capacity = Around(n + 1)
<1>1. CASE n + 1 = Capacity
  BY <1>1, Bounds DEF Around, Slots
<1>2. CASE n + 1 < Capacity
  BY <1>2, Bounds DEF Around, Slots
<1> QED
  BY <1>1, <1>2, Bounds

(* main reads, counts, frees nothing and stores into the next slot. *)
LEMMA FirstLapMain ==
  ASSUME Typed, FirstLapHeld, ReadRequest \/ EnqReserve \/ EnqFreeOld \/ EnqStore
  PROVE  FirstLapHeld'
<1> USE Bounds
<1>1. pool' = pool /\ pcq_tail' = pcq_tail /\ Loading' = Loading /\ elem' = elem
  BY DEF ReadRequest, EnqReserve, EnqFreeOld, EnqStore, queue, pool, Loading
<1>2. CASE ReadRequest
  <2>1. requests' = Append(requests, IF consumed = 0 THEN Head(server_pipe) ELSE Garbled)
    BY <1>2 DEF ReadRequest
  <2>2. Len(requests') = Len(requests) + 1 /\ Len(requests) \in Nat
    BY <2>1 DEF Typed, TypeOK
  <2>3. main_at = "read" /\ main_at' = "count" /\ queue' = queue
    BY <1>2 DEF ReadRequest
  <2>4. Reserved' = Reserved /\ Stored' = Stored
    BY <2>2, <2>3 DEF Reserved, Stored
  <2>5. Loaded' = Loaded
    BY <1>1, <2>3, <2>4 DEF Loaded, queue
  <2>6. FirstLap' => FirstLap
    BY <2>2 DEF FirstLap
  <2> QED
    BY <1>1, <2>3, <2>4, <2>5, <2>6 DEF FirstLapHeld, Ring, Around, queue
<1>3. CASE EnqReserve
  <2>1. /\ main_at = "count" /\ main_at' = "free" /\ pcq_current_size' = pcq_current_size + 1
        /\ UNCHANGED <<requests, pcq_head, pcq_tail, pcq_buffer, freed>>
    BY <1>3 DEF EnqReserve
  <2>2. Reserved' = Reserved + 1 /\ Stored' = Stored
    BY <2>1, RingNumbers DEF Reserved, Stored
  <2>3. Loaded' = Loaded
    BY <1>1, <2>1, <2>2, RingNumbers DEF Loaded
  <2> QED
    BY <1>1, <2>1, <2>2, <2>3 DEF FirstLapHeld, FirstLap, Ring, Around
<1>4. CASE EnqFreeOld
  <2>1. /\ main_at = "free" /\ main_at' = "store" /\ Free(pcq_buffer[pcq_head])
        /\ UNCHANGED <<requests, pcq_current_size, pcq_head, pcq_tail, pcq_buffer>>
    BY <1>4 DEF EnqFreeOld
  <2>2. Reserved' = Reserved /\ Stored' = Stored
    BY <2>1 DEF Reserved, Stored
  <2>3. Loaded' = Loaded
    BY <1>1, <2>1, <2>2 DEF Loaded
  <2>4. ASSUME FirstLap PROVE freed' = freed
    <3>1. Stored < Capacity /\ Stored \in Nat /\ Ring
      BY <2>1, <2>4, RingNumbers DEF Stored, FirstLap
    <3>2. pcq_head = Stored /\ Stored \in Slots
      BY <3>1, AroundNext DEF Ring
    <3>3. pcq_buffer[pcq_head] = NULL
      BY <3>1, <3>2 DEF Ring
    <3> QED
      BY <2>1, <3>3 DEF Free
  <2> QED
    BY <1>1, <2>1, <2>2, <2>3, <2>4 DEF FirstLapHeld, FirstLap, Ring, Around
<1>5. CASE EnqStore
  <2>1. /\ main_at = "store" /\ main_at' = "read"
        /\ pcq_buffer' = [pcq_buffer EXCEPT ![pcq_head] = Len(requests)]
        /\ pcq_head' = (pcq_head + 1) % Capacity
        /\ UNCHANGED <<requests, pcq_current_size, pcq_tail, freed>>
    BY <1>5 DEF EnqStore
  <2>2. Reserved' = Reserved /\ Stored' = Stored + 1 /\ Len(requests) = Stored + 1
    BY <2>1, RingNumbers DEF Reserved, Stored
  <2>3. Loaded' = Loaded
    BY <1>1, <2>1, <2>2 DEF Loaded
  <2>4. ASSUME FirstLap PROVE Ring'
    <3>1. Stored < Capacity /\ Stored \in Nat /\ Ring
      BY <2>2, <2>4, RingNumbers DEF FirstLap
    <3>2. pcq_head = Stored /\ Stored \in Slots /\ pcq_head' = Around(Stored + 1)
      BY <2>1, <3>1, AroundNext DEF Ring
    <3>3. pcq_buffer \in [Slots -> Elements \cup {NULL}]
      BY DEF Typed, TypeOK
    <3>4. ASSUME NEW j \in Slots
          PROVE  pcq_buffer'[j] \in {NULL, j + 1} /\ (j >= Stored + 1 => pcq_buffer'[j] = NULL)
      <4>1. CASE j = Stored
        BY <2>1, <2>2, <3>1, <3>2, <3>3, <4>1
      <4>2. CASE j # Stored
        <5>1. pcq_buffer'[j] = pcq_buffer[j]
          BY <2>1, <3>2, <3>3, <4>2
        <5> QED
          BY <3>1, <5>1 DEF Ring, Slots
      <4> QED
        BY <4>1, <4>2
    <3> QED
      BY <1>1, <2>1, <2>2, <2>3, <3>1, <3>2, <3>4 DEF Ring, Around
  <2> QED
    BY <1>1, <2>1, <2>4 DEF FirstLapHeld, FirstLap
<1> QED
  BY <1>2, <1>3, <1>4, <1>5

(* A worker takes the next element, or finds that it is not stored yet. *)
LEMMA FirstLapDequeue ==
  ASSUME Typed, FirstLapHeld, NEW w \in Workers, DeqTake(w) \/ DeqLoad(w) \/ CopyRequest(w)
  PROVE  FirstLapHeld'
<1> USE Bounds
<1>1. UNCHANGED <<inlet, pcq_head, pcq_buffer, freed>>
  BY DEF DeqTake, DeqLoad, CopyRequest, queue
<1>2. Reserved' = Reserved /\ Stored' = Stored /\ (FirstLap' <=> FirstLap)
  BY <1>1 DEF Reserved, Stored, FirstLap, inlet
<1>3. CASE DeqTake(w)
  <2>1. /\ pc[w] # "load" /\ pc' = [pc EXCEPT ![w] = "load"] /\ elem' = elem
        /\ pcq_current_size' = pcq_current_size - 1 /\ pcq_tail' = pcq_tail
    BY <1>3 DEF DeqTake, GoTo
  <2>2. IsFiniteSet(Loading') /\ Cardinality(Loading') = Cardinality(Loading) + 1
    BY <2>1, LoadingMoves
  <2>3. Loaded' = Loaded
    BY <1>2, <2>1, <2>2, RingNumbers DEF Loaded
  <2> QED
    BY <1>1, <1>2, <2>1, <2>2, <2>3 DEF FirstLapHeld, Ring, Around
<1>4. CASE DeqLoad(w)
  <2>1. /\ pc[w] = "load" /\ pc' = [pc EXCEPT ![w] = "copy"]
        /\ elem' = [elem EXCEPT ![w] = pcq_buffer[pcq_tail]]
        /\ pcq_tail' = (pcq_tail + 1) % Capacity /\ pcq_current_size' = pcq_current_size
    BY <1>4 DEF DeqLoad, GoTo, NextTail
  <2>2. /\ IsFiniteSet(Loading') /\ Cardinality(Loading') = Cardinality(Loading) - 1
        /\ Cardinality(Loading) > 0
    <3>1. pc[w] = "load" /\ pc' = [pc EXCEPT ![w] = "copy"] /\ "copy" # "load"
      BY <2>1
    <3> QED
      BY <3>1, LoadingMoves
  <2>3. Loaded' = Loaded + 1
    BY <1>2, <2>1, <2>2, RingNumbers DEF Loaded
  <2>4. ASSUME FirstLap PROVE Ring'
    <3>1. Loaded \in Nat /\ Loaded < Capacity /\ Ring
      BY <2>2, <2>4, RingNumbers DEF FirstLap
    <3>2. pcq_tail = Loaded /\ Loaded \in Slots /\ pcq_tail' = Around(Loaded + 1)
      BY <2>1, <3>1, AroundNext DEF Ring
    <3>3. /\ elem \in [Workers -> Elements \cup {NULL}] /\ freed \subseteq Elements
          /\ Elements \subseteq Nat \ {0}
      BY DEF Typed, TypeOK, Elements
    <3>4. elem'[w] \in {NULL, Loaded + 1} /\ \A v \in Workers : v # w => elem'[v] = elem[v]
      BY <2>1, <3>1, <3>2, <3>3 DEF Ring
    <3>5. \A v \in Workers : elem[v] \in Nat /\ elem[v] <= Loaded /\ elem[v] \notin freed
      <4>1. ASSUME NEW v \in Workers PROVE elem[v] \in Nat
        <5>1. elem[v] \in Elements \/ elem[v] = 0
          BY <3>3 DEF NULL
        <5>2. \A e \in Elements : e \in Nat
          BY <3>3
        <5> QED
          BY <5>1, <5>2
      <4>2. \A v \in Workers : elem[v] <= Loaded /\ elem[v] \notin freed
        BY <3>1 DEF Ring
      <4> QED
        BY <4>1, <4>2
    <3>6. \A e \in freed : e \in Nat \ {0} /\ e <= Loaded
      <4>1. \A e \in freed : e \in Nat \ {0}
        BY <3>3
      <4>2. \A e \in freed : e <= Loaded
        BY <3>1 DEF Ring
      <4> QED
        BY <4>1, <4>2
    <3>7. ASSUME NEW v \in Workers PROVE elem'[v] <= Loaded + 1 /\ elem'[v] \notin freed
      <4>1. CASE v = w
        BY <3>1, <3>4, <3>6, <4>1 DEF NULL
      <4>2. CASE v # w
        BY <3>1, <3>4, <3>5, <4>2
      <4> QED
        BY <4>1, <4>2
    <3>8. ASSUME NEW u \in Workers, NEW v \in Workers, u # v, elem'[v] # NULL
          PROVE  elem'[u] # elem'[v]
      <4>1. CASE v = w
        BY <3>1, <3>4, <3>5, <3>8, <4>1
      <4>2. CASE u = w
        BY <3>1, <3>4, <3>5, <3>8, <4>2
      <4>3. CASE u # w /\ v # w
        BY <3>1, <3>4, <3>8, <4>3 DEF Ring
      <4> QED
        BY <4>1, <4>2, <4>3
    <3>9. pcq_head' = Around(Stored') /\ pcq_tail' = Around(Loaded') /\ Loaded' >= 0
      BY <1>1, <1>2, <2>3, <3>1, <3>2 DEF Ring, Around
    <3>10. \A e \in freed' : e <= Loaded'
      BY <1>1, <2>3, <3>1, <3>6
    <3> QED
      BY <1>1, <1>2, <2>3, <3>1, <3>7, <3>8, <3>9, <3>10 DEF Ring
  <2> QED
    BY <1>2, <2>2, <2>4 DEF FirstLapHeld
<1>5. CASE CopyRequest(w)
  <2>1. elem' = elem /\ queue' = queue
    BY <1>5 DEF CopyRequest
  <2>2. pc' = pc \/ (pc[w] = "copy" /\ pc' = [pc EXCEPT ![w] = "lookup"])
    BY <1>5 DEF CopyRequest, GoTo
  <2>3. Loading' = Loading
    BY <2>2, LoadingMoves DEF Loading
  <2> QED
    BY <1>1, <2>1, <2>3, FirstLapKept DEF inlet
<1> QED
  BY <1>3, <1>4, <1>5

(* Nor does what a worker does for its client touch the queue. *)
LEMMA FirstLapServe ==
  ASSUME Typed, FirstLapHeld, NEW w \in Workers,
         LookUp(w) \/ Opened(w) \/ CreateOpen(w) \/ CreateClose(w) \/ RemoveBox(w) \/ ListBox(w)
  PROVE  FirstLapHeld'
<1>1. UNCHANGED <<inlet, queue, elem>>
  BY DEF LookUp, Opened, CreateOpen, CreateClose, RemoveBox, ListBox
<1>2. PICK to \in {"returned", "open", "serve", "close", "answer"} :
        pc' = [pc EXCEPT ![w] = to] /\ pc[w] # "load"
  BY DEF LookUp, Opened, CreateOpen, CreateClose, RemoveBox, ListBox, GoTo
<1>3. Loading' = Loading
  BY <1>2, LoadingMoves
<1> QED
  BY <1>1, <1>3, FirstLapKept DEF inlet

(* A worker frees the element it alone has. *)
LEMMA FirstLapAnswer ==
  ASSUME Typed, FirstLapHeld, NEW w \in Workers, NotServed(w) \/ Answer(w)
  PROVE  FirstLapHeld'
<1>1. /\ UNCHANGED <<inlet, pcq_current_size, pcq_head, pcq_tail, pcq_buffer>>
      /\ pc[w] # "load"
  BY DEF NotServed, Answer
<1>2. CASE EndRequest(w)
  <2>1. Loading' = Loading
    <3>1. pc' = [pc EXCEPT ![w] = "dequeue"] /\ "dequeue" # "load"
      BY <1>2 DEF EndRequest
    <3> QED
      BY <1>1, <3>1, LoadingMoves
  <2>2. Reserved' = Reserved /\ Stored' = Stored /\ (FirstLap' <=> FirstLap)
    BY <1>1 DEF Reserved, Stored, FirstLap, inlet
  <2>3. Loaded' = Loaded
    BY <1>1, <2>1, <2>2 DEF Loaded
  <2>4. ASSUME FirstLap PROVE Ring'
    <3>1. Ring /\ Loaded \in Nat
      BY <2>4, RingNumbers
    <3>2. elem \in [Workers -> Elements \cup {NULL}] /\ freed \subseteq Elements
      BY DEF Typed, TypeOK
    <3>3. freed' = IF elem[w] = NULL THEN freed ELSE freed \cup {elem[w]}
      BY <1>2, <3>1 DEF EndRequest, Free, Ring
    <3>4. elem'[w] = NULL /\ \A v \in Workers : v # w => elem'[v] = elem[v]
      BY <1>2, <3>2 DEF EndRequest
    <3>5. \A e \in freed' : e <= Loaded /\ e # NULL
      BY <3>1, <3>2, <3>3 DEF Ring, Elements, NULL
    <3>6. ASSUME NEW v \in Workers PROVE elem'[v] <= Loaded /\ elem'[v] \notin freed'
      <4>1. CASE v = w
        BY <3>1, <3>4, <3>5, <4>1 DEF NULL
      <4>2. CASE v # w
        BY <3>1, <3>3, <3>4, <4>2 DEF Ring
      <4> QED
        BY <4>1, <4>2
    <3>7. \A u, v \in Workers : u # v /\ elem'[v] # NULL => elem'[u] # elem'[v]
      BY <3>1, <3>4 DEF Ring
    <3> QED
      BY <1>1, <2>2, <2>3, <3>1, <3>5, <3>6, <3>7 DEF Ring, Around
  <2> QED
    BY <2>1, <2>2, <2>4 DEF FirstLapHeld
<1>3. CASE UNCHANGED <<pool, freed>>
  BY <1>1, <1>3, FirstLapKept DEF pool, inlet, queue, Loading
<1> QED
  BY <1>2, <1>3 DEF NotServed, Answer

(* Every step keeps the first lap. *)
LEMMA FirstLapNext == Typed /\ FirstLapHeld /\ [Next]_vars => FirstLapHeld'
<1> SUFFICES ASSUME Typed, FirstLapHeld, [Next]_vars PROVE FirstLapHeld'
  OBVIOUS
<1>1. CASE UNCHANGED vars
  BY <1>1, FirstLapKept DEF vars, inlet, pool, Loading
<1> QED
  BY <1>1, Steps, FirstLapClient, FirstLapMain, FirstLapDequeue, FirstLapServe, FirstLapAnswer

(* At first nothing was loaded. *)
LEMMA InitFirstLap == Init => FirstLapHeld
<1> SUFFICES ASSUME Init PROVE FirstLapHeld
  OBVIOUS
<1>1. Loading = {}
  BY DEF Init, Loading
<1>2. IsFiniteSet(Loading) /\ Cardinality(Loading) = 0
  BY <1>1, FS_EmptySet
<1>3. Reserved = 0 /\ Stored = 0 /\ Loaded = 0
  BY <1>2 DEF Init, Reserved, Stored, Loaded
<1> QED
  BY <1>2, <1>3, Bounds DEF Init, FirstLapHeld, Ring, Around, NULL

(* HeldElements: in the first lap no two workers have the same element and none has *)
(* one that was freed, however many they are and however main stores meanwhile.     *)
THEOREM ElementsHeld == Spec => []HeldElements
<1>1. FirstLapHeld => HeldElements
  BY DEF FirstLapHeld, Ring, HeldElements
<1> QED
  BY <1>1, InitFirstLap, AlwaysTyped, FirstLapNext, PTL DEF Spec

(* Only main's read adds to the requests read. *)
LEMMA RequestsGrow ==
  ASSUME Typed, [Next]_vars
  PROVE  requests' = requests \/ (ReadRequest /\ Len(requests') = Len(requests) + 1)
<1>1. CASE UNCHANGED vars
  BY <1>1 DEF vars, inlet
<1>2. ASSUME NEW c \in Clients,
             \/ Start(c) \/ Register(c) \/ OpenSession(c) \/ ReadAnswer(c)
             \/ ReadListing(c) \/ EndOfFile(c) \/ Kill(c)
      PROVE  requests' = requests
  BY <1>2 DEF Start, Register, OpenSession, ReadAnswer, ReadListing, EndOfFile, Kill, inlet
<1>3. CASE ReadRequest
  BY <1>3 DEF ReadRequest, Typed, TypeOK
<1>4. CASE EnqReserve \/ EnqFreeOld \/ EnqStore
  BY <1>4 DEF EnqReserve, EnqFreeOld, EnqStore
<1>5. ASSUME NEW w \in Workers,
              \/ DeqTake(w) \/ DeqLoad(w) \/ CopyRequest(w) \/ LookUp(w) \/ Opened(w)
              \/ CreateOpen(w) \/ CreateClose(w) \/ RemoveBox(w) \/ ListBox(w)
              \/ NotServed(w) \/ Answer(w)
      PROVE  requests' = requests
  BY <1>5 DEF DeqTake, DeqLoad, CopyRequest, LookUp, Opened, CreateOpen, CreateClose,
     RemoveBox, ListBox, NotServed, Answer, inlet
<1> QED
  BY <1>1, <1>2, <1>3, <1>4, <1>5, Steps

(* The first lap does not come back. *)
LEMMA WasFirstLap ==
  ASSUME Typed, [Next]_vars, FirstLap'
  PROVE  FirstLap
<1>1. requests' = requests \/ Len(requests') = Len(requests) + 1
  BY RequestsGrow
<1>2. Len(requests) \in Nat
  BY DEF Typed, TypeOK
<1> QED
  BY <1>1, <1>2, Bounds DEF FirstLap

--------------------------------------------------------------------------------
(* Requests are what their clients asked *)

(* A request, or what begins inside one. *)
Made(r) == r = Garbled \/ r.op = OpCode(r.client)

(* Every request anywhere asks what its client asks, and so does what workers      *)
(* copied in the first lap; a worker has open the pipe whose name it copied, and   *)
(* runs the body of the code it copied.                                            *)
Known ==
    /\ \A n \in 1 .. Len(server_pipe) : server_pipe[n].op = OpCode(server_pipe[n].client)
    /\ \A e \in Elements : Made(requests[e])
    /\ FirstLap => \A w \in Workers : Made(request[w])
    /\ \A w \in Workers :
        /\ pc[w] \in HoldingPlaces => session[w][1] = request[w].client
        /\ pc[w] = "close" => request[w].op = "create"
        /\ pc[w] = "answer" => request[w].op \in {"create", "remove", "list"}
        /\ pc[w] = "answer" /\ request[w].op = "list" => result[w] = "list"

(* It is so at first. *)
LEMMA InitKnown == Init => Known
BY DEF Init, Known, Made, Elements, HoldingPlaces

(* A step of a client or of main leaves the workers alone. *)
LEMMA KnownOutside ==
  ASSUME Typed, Known, FirstLap' => FirstLap, UNCHANGED <<pc, request, session, result>>,
         \A n \in 1 .. Len(server_pipe') : server_pipe'[n].op = OpCode(server_pipe'[n].client),
         \A e \in Elements' : Made(requests'[e])
  PROVE  Known'
BY DEF Known, Made

(* A client's request names the client and what it asks. *)
LEMMA KnownClient ==
  ASSUME Typed, Known, NEW c \in Clients,
         \/ Start(c) \/ Register(c) \/ OpenSession(c) \/ ReadAnswer(c)
         \/ ReadListing(c) \/ EndOfFile(c) \/ Kill(c)
  PROVE  Known'
<1>1. UNCHANGED <<pc, request, session, result, requests>> /\ (FirstLap' => FirstLap)
  BY DEF Start, Register, OpenSession, ReadAnswer, ReadListing, EndOfFile, Kill, inlet, pool,
         FirstLap
<1>2. \A e \in Elements' : Made(requests'[e])
  BY <1>1 DEF Known, Elements
<1>3. server_pipe \in Seq(Requests)
  BY DEF Typed, TypeOK
<1>4. CASE Register(c)
  <2>1. PICK box : server_pipe' = Append(server_pipe, [op |-> OpCode(c), client |-> c, box |-> box])
    BY <1>4 DEF Register
  <2>2. \A n \in 1 .. Len(server_pipe') : server_pipe'[n].op = OpCode(server_pipe'[n].client)
    BY <1>3, <2>1 DEF Known
  <2> QED
    BY <1>1, <1>2, <2>2, KnownOutside
<1>5. CASE ~Register(c)
  <2>1. server_pipe' = server_pipe
    BY <1>5 DEF Start, OpenSession, ReadAnswer, ReadListing, EndOfFile, Kill, inlet
  <2> QED
    BY <1>1, <1>2, <2>1, KnownOutside DEF Known
<1> QED
  BY <1>4, <1>5

(* What main reads is a client's request or garbled. *)
LEMMA KnownMain ==
  ASSUME Typed, Known, ReadRequest \/ EnqReserve \/ EnqFreeOld \/ EnqStore
  PROVE  Known'
<1>1. UNCHANGED <<pc, request, session, result>>
  BY DEF ReadRequest, EnqReserve, EnqFreeOld, EnqStore, pool
<1>2. CASE ReadRequest
  <2>1. PICK whole \in 0 .. Len(server_pipe) :
          /\ server_pipe # <<>>
          /\ requests' = Append(requests, IF consumed = 0 THEN Head(server_pipe) ELSE Garbled)
          /\ server_pipe' = SubSeq(server_pipe, whole + 1, Len(server_pipe))
    BY <1>2, ReadRequestForm
  <2>2. /\ server_pipe \in Seq(Requests) /\ requests \in Seq(Requests \cup {Garbled})
        /\ Head(server_pipe) = server_pipe[1]
    BY <2>1 DEF Typed, TypeOK
  <2>3. \A n \in 1 .. Len(server_pipe') :
          n + whole \in 1 .. Len(server_pipe) /\ server_pipe'[n] = server_pipe[n + whole]
    BY <2>1, <2>2
  <2>4. \A n \in 1 .. Len(server_pipe') : server_pipe'[n].op = OpCode(server_pipe'[n].client)
    BY <2>3 DEF Known
  <2>5. Made(IF consumed = 0 THEN Head(server_pipe) ELSE Garbled)
    BY <2>1, <2>2 DEF Known, Made
  <2>6. \A e \in Elements' : Made(requests'[e])
    BY <2>1, <2>2, <2>5 DEF Known, Elements
  <2>7. FirstLap' => FirstLap
    BY <2>1, <2>2, Bounds DEF FirstLap
  <2> QED
    BY <1>1, <2>4, <2>6, <2>7, KnownOutside
<1>3. CASE EnqReserve \/ EnqFreeOld \/ EnqStore
  <2>1. server_pipe' = server_pipe /\ requests' = requests
    BY <1>3 DEF EnqReserve, EnqFreeOld, EnqStore
  <2> QED
    BY <1>1, <2>1, KnownOutside DEF Known, Elements, FirstLap
<1> QED
  BY <1>2, <1>3

(* What a worker copies in the first lap is what some client asked. *)
LEMMA KnownDequeue ==
  ASSUME Typed, FirstLapHeld, Known, NEW w \in Workers, DeqTake(w) \/ DeqLoad(w) \/ CopyRequest(w)
  PROVE  Known'
<1>1. UNCHANGED <<inlet, session, result>> /\ (FirstLap' <=> FirstLap)
  BY DEF DeqTake, DeqLoad, CopyRequest, inlet, FirstLap
<1>2. /\ \A n \in 1 .. Len(server_pipe') : server_pipe'[n].op = OpCode(server_pipe'[n].client)
      /\ \A e \in Elements' : Made(requests'[e])
  BY <1>1 DEF Known, Elements, inlet
<1>3. \A v \in Workers : v # w => request'[v] = request[v]
  BY DEF DeqTake, DeqLoad, CopyRequest, Typed, TypeOK
<1>4. ASSUME FirstLap, NEW v \in Workers PROVE Made(request'[v])
  <2>1. CASE DeqTake(w) \/ DeqLoad(w)
    BY <1>4, <2>1 DEF DeqTake, DeqLoad, Known
  <2>2. CASE CopyRequest(w) /\ elem[w] = NULL
    BY <1>4, <2>2 DEF CopyRequest, Known
  <2>3. CASE CopyRequest(w) /\ elem[w] # NULL
    <3>1. elem[w] \notin freed
      BY <1>4 DEF FirstLapHeld, Ring
    <3>2. PICK r : r = requests[elem[w]]
      OBVIOUS
    <3>3. /\ request' = [request EXCEPT ![w] = [r EXCEPT !.op = r.op]]
          /\ elem[w] \in Elements /\ request \in [Workers -> Copies]
      BY <2>3, <3>1, <3>2 DEF CopyRequest, Contents, OpCodeRead, Typed, TypeOK
    <3>4. [r EXCEPT !.op = r.op] = r
      <4>1. r \in Requests \cup {Garbled}
        BY <3>2, <3>3 DEF Typed, TypeOK, Elements
      <4> QED
        BY <4>1 DEF Requests, Garbled
    <3>5. Made(r)
      BY <3>2, <3>3 DEF Known
    <3> QED
      BY <1>3, <1>4, <3>3, <3>4, <3>5 DEF Known
  <2> QED
    BY <2>1, <2>2, <2>3
<1>5. \A v \in Workers : pc'[v] = pc[v] \/ (v = w /\ pc'[v] \in {"load", "copy", "lookup"})
  BY DEF DeqTake, DeqLoad, CopyRequest, GoTo, Typed, TypeOK
<1>6. \A v \in Workers : pc'[v] = pc[v] => v # w \/ request' = request
  BY DEF DeqTake, DeqLoad, CopyRequest, GoTo, Typed, TypeOK
<1> QED
  BY <1>1, <1>2, <1>3, <1>4, <1>5, <1>6 DEF Known, HoldingPlaces

(* A worker opens the pipe of the client it has copied. *)
LEMMA KnownLookUp ==
  ASSUME Typed, Known, NEW w \in Workers, LookUp(w)
  PROVE  Known'
<1>1. UNCHANGED <<inlet, request, result>> /\ (FirstLap' <=> FirstLap)
  BY DEF LookUp, inlet, FirstLap
<1>2. /\ \A n \in 1 .. Len(server_pipe') : server_pipe'[n].op = OpCode(server_pipe'[n].client)
      /\ \A e \in Elements' : Made(requests'[e])
  BY <1>1 DEF Known, Elements, inlet
<1>3. \A v \in Workers : v # w => pc'[v] = pc[v] /\ session'[v] = session[v]
  BY DEF LookUp, GoTo, Typed, TypeOK
<1>4. \/ pc'[w] = "returned"
      \/ pc'[w] = "open" /\ session'[w][1] = request[w].client
  BY DEF LookUp, GoTo, Typed, TypeOK
<1> QED
  BY <1>1, <1>2, <1>3, <1>4 DEF Known, HoldingPlaces

(* It serves it with the body its code asks for. *)
LEMMA KnownServe ==
  ASSUME Typed, Known, NEW w \in Workers,
         Opened(w) \/ CreateOpen(w) \/ CreateClose(w) \/ RemoveBox(w) \/ ListBox(w)
  PROVE  Known'
<1>1. UNCHANGED <<inlet, session>> /\ (FirstLap' <=> FirstLap)
  BY DEF Opened, CreateOpen, CreateClose, RemoveBox, ListBox, inlet, FirstLap
<1>2. /\ \A n \in 1 .. Len(server_pipe') : server_pipe'[n].op = OpCode(server_pipe'[n].client)
      /\ \A e \in Elements' : Made(requests'[e])
  BY <1>1 DEF Known, Elements, inlet
<1>3. /\ \/ request' = request
         \/ request[w].op = "create" /\ \E box : request' = [request EXCEPT ![w].box = box]
      /\ pc[w] \in HoldingPlaces
      /\ \/ pc' = [pc EXCEPT ![w] = "serve"] /\ result' = result
         \/ pc' = [pc EXCEPT ![w] = "close"] /\ result' = result /\ request[w].op = "create"
         \/ /\ pc' = [pc EXCEPT ![w] = "answer"]
            /\ request[w].op \in {"create", "remove"}
            /\ result' = [result EXCEPT ![w] = "ok"] \/ result' = [result EXCEPT ![w] = "error"]
         \/ /\ pc' = [pc EXCEPT ![w] = "answer"]
            /\ request[w].op = "list" /\ result' = [result EXCEPT ![w] = "list"]
  <2>1. CASE Opened(w)
    BY <2>1 DEF Opened, GoTo, HoldingPlaces
  <2>2. CASE CreateOpen(w)
    <3>1. /\ \E box : request' = [request EXCEPT ![w].box = box]
          /\ pc[w] = "serve" /\ request[w].op = "create"
          /\ \/ pc' = [pc EXCEPT ![w] = "close"] /\ result' = result
             \/ /\ pc' = [pc EXCEPT ![w] = "answer"]
                /\ result' = [result EXCEPT ![w] = "error"]
      BY <2>2 DEF CreateOpen, GoTo, SetResult
    <3> QED
      BY <3>1 DEF HoldingPlaces
  <2>3. CASE CreateClose(w)
    BY <2>3 DEF CreateClose, GoTo, SetResult, HoldingPlaces, Known
  <2>4. CASE RemoveBox(w)
    BY <2>4 DEF RemoveBox, GoTo, SetResult, HoldingPlaces
  <2>5. CASE ListBox(w)
    BY <2>5 DEF ListBox, GoTo, SetResult, HoldingPlaces
  <2> QED
    BY <2>1, <2>2, <2>3, <2>4, <2>5
<1>4. \A v \in Workers :
        /\ request'[v].op = request[v].op /\ request'[v].client = request[v].client
        /\ FirstLap => Made(request'[v])
        /\ v # w => request'[v] = request[v] /\ pc'[v] = pc[v] /\ result'[v] = result[v]
  <2>1. \A v \in Workers : v # w =>
          request'[v] = request[v] /\ pc'[v] = pc[v] /\ result'[v] = result[v]
    BY <1>3 DEF Typed, TypeOK
  <2>2. CASE request' = request
    BY <2>1, <2>2 DEF Known
  <2>3. CASE request[w].op = "create" /\ \E box : request' = [request EXCEPT ![w].box = box]
    <3>1. PICK box : request' = [request EXCEPT ![w].box = box]
      BY <2>3
    <3>2. request[w] \in Copies
      BY DEF Typed, TypeOK
    <3>3. request'[w] = [request[w] EXCEPT !.box = box]
      BY <3>1 DEF Typed, TypeOK
    <3>4. request'[w].op = request[w].op /\ request'[w].client = request[w].client
      BY <3>2, <3>3 DEF Copies
    <3>5. FirstLap => request[w].op = OpCode(request[w].client)
      BY <2>3 DEF Known, Made, Garbled
    <3> QED
      BY <2>1, <3>4, <3>5 DEF Known, Made
  <2> QED
    BY <1>3, <2>2, <2>3
<1>5. \/ pc'[w] = "serve"
      \/ pc'[w] = "close" /\ request[w].op = "create"
      \/ pc'[w] = "answer" /\ request[w].op \in {"create", "remove"}
      \/ pc'[w] = "answer" /\ request[w].op = "list" /\ result'[w] = "list"
  BY <1>3 DEF Typed, TypeOK
<1> QED
  BY <1>1, <1>2, <1>3, <1>4, <1>5 DEF Known, HoldingPlaces

(* At the end it forgets both. *)
LEMMA KnownAnswer ==
  ASSUME Typed, Known, NEW w \in Workers, NotServed(w) \/ Answer(w)
  PROVE  Known'
<1>1. UNCHANGED inlet /\ (FirstLap' <=> FirstLap)
  BY DEF NotServed, Answer, inlet, FirstLap
<1>2. /\ \A n \in 1 .. Len(server_pipe') : server_pipe'[n].op = OpCode(server_pipe'[n].client)
      /\ \A e \in Elements' : Made(requests'[e])
  BY <1>1 DEF Known, Elements, inlet
<1>3. CASE EndRequest(w)
  <2>1. \A v \in Workers :
          v # w => /\ pc'[v] = pc[v] /\ request'[v] = request[v]
                   /\ session'[v] = session[v] /\ result'[v] = result[v]
    BY <1>3 DEF EndRequest, Typed, TypeOK
  <2>2. pc'[w] = "dequeue" /\ request'[w] = Garbled
    BY <1>3 DEF EndRequest, Typed, TypeOK
  <2> QED
    BY <1>1, <1>2, <2>1, <2>2 DEF Known, Made, HoldingPlaces
<1>4. CASE UNCHANGED pool
  BY <1>1, <1>2, <1>4, KnownOutside DEF pool
<1> QED
  BY <1>3, <1>4 DEF NotServed, Answer

(* Every step keeps it so. *)
LEMMA NextKnown == Typed /\ FirstLapHeld /\ Known /\ [Next]_vars => Known'
<1> SUFFICES ASSUME Typed, FirstLapHeld, Known, [Next]_vars PROVE Known'
  OBVIOUS
<1>1. CASE UNCHANGED vars
  BY <1>1, KnownOutside DEF Known, vars, inlet, pool, Elements, FirstLap
<1> QED
  BY <1>1, Steps, KnownClient, KnownMain, KnownDequeue, KnownLookUp, KnownServe, KnownAnswer

--------------------------------------------------------------------------------
(* Listers *)

(* The code of each client is its own. *)
LEMMA OpCodes ==
  ASSUME NEW c \in Clients
  PROVE  /\ OpCode(c) = "pub" <=> c \in Publishers
         /\ OpCode(c) = "sub" <=> c \in Subscribers
         /\ OpCode(c) = "create" <=> c \in Creators
         /\ OpCode(c) = "remove" <=> c \in Removers
         /\ OpCode(c) = "list" <=> c \in Listers
<1> USE BrokerAssumption DEF Managers, Clients
<1>1. CASE c \in Publishers
  <2>1. c \notin Subscribers \cup Creators \cup Removers \cup Listers
    BY <1>1
  <2> QED
    BY <1>1, <2>1 DEF OpCode
<1>2. CASE c \in Subscribers
  <2>1. c \notin Publishers \cup Creators \cup Removers \cup Listers
    BY <1>2
  <2> QED
    BY <1>2, <2>1 DEF OpCode
<1>3. CASE c \in Creators
  <2>1. c \notin Publishers \cup Subscribers \cup Removers \cup Listers
    BY <1>3
  <2> QED
    BY <1>3, <2>1 DEF OpCode
<1>4. CASE c \in Removers
  <2>1. c \notin Publishers \cup Subscribers \cup Creators \cup Listers
    BY <1>4
  <2> QED
    BY <1>4, <2>1 DEF OpCode
<1>5. CASE c \in Listers
  <2>1. c \notin Publishers \cup Subscribers \cup Creators \cup Removers
    BY <1>5
  <2> QED
    BY <1>5, <2>1 DEF OpCode
<1> QED
  BY <1>1, <1>2, <1>3, <1>4, <1>5

(* A lister whose pipe was ever opened has a writer while the broker lives, first  *)
(* the worker and then the descriptor nobody closes; so it does not end before.    *)
ListersHeld ==
    FirstLap => \A c \in Listers :
        /\ met[c] /\ ~crashed => HasWriter(c)
        /\ at[c] = "done" => crashed

(* No client's step ends a lister. *)
LEMMA ListersClient ==
  ASSUME Typed, ListersHeld, NEW c \in Clients,
         \/ Start(c) \/ Register(c) \/ OpenSession(c) \/ ReadAnswer(c)
         \/ ReadListing(c) \/ EndOfFile(c) \/ Kill(c)
  PROVE  ListersHeld'
<1> SUFFICES ASSUME FirstLap, NEW d \in Listers
             PROVE  /\ met'[d] /\ ~crashed' => HasWriter(d)'
                    /\ at'[d] = "done" => crashed'
  BY WasFirstLap DEF ListersHeld, Next, ClientStep, WorkerStep
<1>1. UNCHANGED <<pc, session, leaked, crashed>>
  BY DEF Start, Register, OpenSession, ReadAnswer, ReadListing, EndOfFile, Kill, pool
<1>2. d \in Clients /\ d \notin Creators \cup Removers
  BY BrokerAssumption DEF Clients, Managers
<1>3. life'[d] = life[d] => (HasWriter(d)' <=> HasWriter(d))
  BY <1>1 DEF HasWriter, InSession
<1>4. CASE d # c
  <2>1. life'[d] = life[d] /\ met'[d] = met[d] /\ at'[d] = at[d]
    BY <1>2, <1>4 DEF Start, Register, OpenSession, ReadAnswer, ReadListing, EndOfFile, Kill, Finish,
                      Typed, TypeOK
  <2> QED
    BY <1>1, <1>3, <2>1 DEF ListersHeld
<1>5. CASE d = c
  <2>1. CASE Start(c)
    BY <1>2, <1>5, <2>1 DEF Start, Typed, TypeOK
  <2>2. CASE Register(c) \/ OpenSession(c) \/ ReadListing(c) \/ Kill(c)
    <3>1. life' = life /\ met' = met /\ at'[d] # "done"
      BY <1>2, <1>5, <2>2 DEF Register, OpenSession, ReadListing, Kill, Typed, TypeOK
    <3> QED
      BY <1>1, <1>3, <3>1 DEF ListersHeld
  <2>3. CASE ReadAnswer(c)
    BY <1>2, <1>5, <2>3 DEF ReadAnswer
  <2>4. CASE EndOfFile(c)
    <3>1. met[d] /\ ~HasWriter(d) /\ life' = life /\ met' = met
      BY <1>5, <2>4 DEF EndOfFile
    <3> QED
      BY <1>1, <1>3, <3>1 DEF ListersHeld
  <2> QED
    BY <2>1, <2>2, <2>3, <2>4
<1> QED
  BY <1>4, <1>5

(* main's steps change no session. *)
LEMMA ListersMain ==
  ASSUME Typed, ListersHeld, ReadRequest \/ EnqReserve \/ EnqFreeOld \/ EnqStore
  PROVE  ListersHeld'
<1>1. UNCHANGED <<at, life, met, pc, session, leaked>> /\ ~crashed
  BY DEF ReadRequest, EnqReserve, EnqFreeOld, EnqStore, clients, pool
<1>2. FirstLap' => FirstLap
  BY WasFirstLap DEF Next, MainStep
<1> QED
  BY <1>1, <1>2 DEF ListersHeld, HasWriter, InSession

(* A worker's step changes nothing of another worker's. *)
LEMMA OtherWorkers ==
  ASSUME Typed, NEW w \in Workers, WorkerStep(w), NEW v \in Workers, v # w
  PROVE  /\ pc'[v] = pc[v] /\ elem'[v] = elem[v] /\ request'[v] = request[v]
         /\ session'[v] = session[v] /\ result'[v] = result[v]
<1> USE DEF Typed, TypeOK
<1>1. CASE DeqTake(w) \/ DeqLoad(w) \/ CopyRequest(w)
  BY <1>1 DEF DeqTake, DeqLoad, CopyRequest, GoTo
<1>2. CASE LookUp(w) \/ Opened(w)
  BY <1>2 DEF LookUp, Opened, GoTo
<1>3. CASE CreateOpen(w)
  BY <1>3 DEF CreateOpen, GoTo, SetResult
<1>4. CASE CreateClose(w) \/ RemoveBox(w) \/ ListBox(w)
  BY <1>4 DEF CreateClose, RemoveBox, ListBox, GoTo, SetResult
<1>5. CASE NotServed(w)
  BY <1>5 DEF NotServed, EndRequest
<1>6. CASE Answer(w)
  BY <1>6 DEF Answer, EndRequest, pool
<1> QED
  BY <1>1, <1>2, <1>3, <1>4, <1>5, <1>6 DEF WorkerStep

(* A session goes on with each step of its worker that does not end the request. *)
LEMMA SessionGoesOn ==
  ASSUME Typed, NEW w \in Workers, WorkerStep(w), w \in InSession
  PROVE  \/ session'[w] = session[w] /\ elem'[w] = elem[w] /\ w \in InSession'
         \/ (NotServed(w) \/ Answer(w)) /\ EndRequest(w)
<1> USE DEF Typed, TypeOK, InSession
<1>1. CASE DeqTake(w) \/ DeqLoad(w) \/ CopyRequest(w)
  BY <1>1 DEF DeqTake, DeqLoad, CopyRequest, GoTo
<1>2. CASE LookUp(w) \/ Opened(w)
  BY <1>2 DEF LookUp, Opened, GoTo
<1>3. CASE CreateOpen(w)
  BY <1>3 DEF CreateOpen, GoTo
<1>4. CASE CreateClose(w) \/ RemoveBox(w) \/ ListBox(w)
  BY <1>4 DEF CreateClose, RemoveBox, ListBox, GoTo
<1>5. CASE NotServed(w)
  BY <1>5 DEF NotServed
<1>6. CASE Answer(w)
  BY <1>6 DEF Answer, pool
<1> QED
  BY <1>1, <1>2, <1>3, <1>4, <1>5, <1>6 DEF WorkerStep

(* A worker that ends a lister's session leaves its pipe open. *)
LEMMA ListersWorker ==
  ASSUME Typed, Known, ListersHeld, NEW w \in Workers,
         \/ DeqTake(w) \/ DeqLoad(w) \/ CopyRequest(w) \/ LookUp(w) \/ Opened(w)
         \/ CreateOpen(w) \/ CreateClose(w) \/ RemoveBox(w) \/ ListBox(w)
         \/ NotServed(w) \/ Answer(w)
  PROVE  ListersHeld'
<1> SUFFICES ASSUME FirstLap, NEW d \in Listers
             PROVE  /\ met'[d] /\ ~crashed' => HasWriter(d)'
                    /\ at'[d] = "done" => crashed'
  BY WasFirstLap DEF ListersHeld, Next, ClientStep, WorkerStep
<1>1. UNCHANGED <<at, life>> /\ ~crashed
  BY DEF DeqTake, DeqLoad, CopyRequest, LookUp, Opened, CreateOpen, CreateClose, RemoveBox,
         ListBox, NotServed, Answer, clients
<1>2. at'[d] # "done"
  BY <1>1 DEF ListersHeld
<1>3. d \in Clients
  BY DEF Clients, Managers
<1> SUFFICES ASSUME met'[d], ~crashed' PROVE HasWriter(d)'
  BY <1>2
<1> DEFINE s == <<d, life[d]>>
<1>4. CASE Opened(w) /\ session[w][1] = d
  <2>1. session'[w] = s
    <3>1. HasReader(session[w]) /\ session' = session
      BY <1>4 DEF Opened, ReaderCame
    <3>2. session[w] \in Clients \X (1 .. MaxLives)
      BY <1>4 DEF Opened, GoTo, Typed, TypeOK, Held
    <3> QED
      BY <1>4, <3>1, <3>2 DEF HasReader
  <2>2. pc'[w] = "serve"
    BY <1>4 DEF Opened, GoTo, Typed, TypeOK
  <2> QED
    BY <1>1, <2>1, <2>2 DEF HasWriter, InSession
<1>5. CASE ~(Opened(w) /\ session[w][1] = d)
  <2>1. met[d]
    BY <1>3, <1>5 DEF DeqTake, DeqLoad, CopyRequest, LookUp, Opened, CreateOpen, CreateClose,
                      RemoveBox, ListBox, NotServed, Answer, clients, Typed, TypeOK
  <2>2. (\E v \in InSession : session[v] = s) \/ s \in leaked
    BY <1>1, <2>1 DEF ListersHeld, HasWriter
  <2>3. leaked \subseteq leaked'
    BY DEF DeqTake, DeqLoad, CopyRequest, LookUp, Opened, CreateOpen, CreateClose,
           RemoveBox, ListBox, NotServed, Answer, EndRequest
  <2>4. CASE s \in leaked
    BY <1>1, <2>3, <2>4 DEF HasWriter
  <2>5. ASSUME NEW v \in InSession, session[v] = s PROVE HasWriter(d)'
    <3>1. CASE v \in InSession' /\ session'[v] = session[v]
      BY <1>1, <2>5, <3>1 DEF HasWriter
    <3>2. CASE v # w
      <4>1. WorkerStep(w) /\ v \in Workers
        BY DEF WorkerStep, InSession
      <4>2. pc'[v] = pc[v] /\ session'[v] = session[v]
        BY <3>2, <4>1, OtherWorkers
      <4> QED
        BY <3>1, <4>2 DEF InSession
    <3>3. CASE v = w /\ session'[w] = session[w] /\ w \in InSession'
      BY <3>1, <3>3
    <3>4. CASE v = w /\ EndRequest(w) /\ (NotServed(w) \/ Answer(w))
      <4>1. NotServed(w) \/ Answer(w)
        BY <3>4
      <4>2. request[w].client = d
        BY <2>5, <3>4 DEF Known, InSession, HoldingPlaces
      <4>3. request[w].op = "list"
        <5>1. request[w] # Garbled
          BY <1>3, <4>2, BrokerAssumption DEF Garbled
        <5> QED
          BY <1>3, <4>2, <5>1, OpCodes DEF Known, Made
      <4>4. pc[w] = "answer" /\ result[w] = "list"
        BY <4>1, <4>3 DEF NotServed, Answer, Known
      <4>5. leaked' = leaked \cup {session[w]}
        BY <3>4, <4>3, <4>4 DEF EndRequest, HandlerFailed
      <4> QED
        BY <1>1, <2>5, <3>4, <4>5 DEF HasWriter
    <3> QED
      BY <2>5, <3>2, <3>3, <3>4, SessionGoesOn DEF WorkerStep
  <2> QED
    BY <2>2, <2>4, <2>5
<1> QED
  BY <1>4, <1>5

(* Every step keeps listers held. *)
LEMMA ListersNext == Typed /\ Known /\ ListersHeld /\ [Next]_vars => ListersHeld'
<1> SUFFICES ASSUME Typed, Known, ListersHeld, [Next]_vars PROVE ListersHeld'
  OBVIOUS
<1>1. CASE UNCHANGED vars
  BY <1>1 DEF ListersHeld, FirstLap, HasWriter, InSession, vars, clients, inlet, pool
<1> QED
  BY <1>1, Steps, ListersClient, ListersMain, ListersWorker

(* ListingNeverEnds: in the first lap a manager that lists the boxes ends only when*)
(* the broker has died, whatever else clients do.                                  *)
THEOREM ListersWait == Spec => []ListingNeverEnds
<1>1. Init => ListersHeld
  BY DEF Init, ListersHeld, Clients, Managers
<1>2. ListersHeld => ListingNeverEnds
  BY DEF ListersHeld, ListingNeverEnds
<1> QED
  BY <1>1, <1>2, InitKnown, NextKnown, AlwaysTyped, InitFirstLap, FirstLapNext, ListersNext, PTL
     DEF Spec

--------------------------------------------------------------------------------
(* The queue as main and the workers use it *)

Storing == IF main_at \in {"free", "store"} THEN {"main"} ELSE {}
Given == [p \in {"main"} |-> Len(requests)]
ringOfSlots == <<pcq_current_size, pcq_head, pcq_tail, pcq_buffer>>

(* A step that moves neither main in the queue nor a worker's load is none of its. *)
LEMMA QueueStays ==
  ASSUME UNCHANGED <<ringOfSlots, Storing, Loading, requests, elem>>
  PROVE  UNCHANGED SlotQueue!vars
BY DEF ringOfSlots, Storing, Loading, SlotQueue!vars

(* main brings what it has read, and stores that. *)
LEMMA QueueMain ==
  ASSUME Typed, Typed', ReadRequest \/ EnqReserve \/ EnqFreeOld \/ EnqStore
  PROVE  SlotQueue!Next \/ UNCHANGED SlotQueue!vars
<1>1. CASE ReadRequest
  <2>1. /\ main_at = "read" /\ main_at' = "count"
        /\ UNCHANGED <<ringOfSlots, pc, elem>>
    BY <1>1 DEF ReadRequest, queue, pool, ringOfSlots
  <2>2. "main" \notin Storing /\ Storing' = Storing /\ Loading' = Loading
    BY <2>1 DEF Storing, Loading
  <2>3. Given' = [Given EXCEPT !["main"] = Given'["main"]]
    BY DEF Given
  <2>4. requests' # <<>> /\ requests' \in Seq(Requests \cup {Garbled})
    BY <2>1 DEF Typed, Held, TypeOK
  <2>5. Given'["main"] # NULL
    BY <2>4 DEF Given, NULL
  <2>6. SlotQueue!Bring("main")
    BY <2>1, <2>2, <2>3, <2>5 DEF SlotQueue!Bring, ringOfSlots, Storing, Loading, Given
  <2> QED
    BY <2>6 DEF SlotQueue!Next
<1>2. CASE EnqReserve
  <2>1. /\ main_at = "count" /\ main_at' = "free" /\ pcq_current_size # Capacity
        /\ pcq_current_size' = pcq_current_size + 1
        /\ UNCHANGED <<pcq_head, pcq_tail, pcq_buffer, requests, pc, elem>>
    BY <1>2 DEF EnqReserve, pool
  <2>2. /\ "main" \notin Storing /\ Storing' = Storing \cup {"main"} /\ Loading' = Loading
    BY <2>1 DEF Storing, Loading
  <2>3. requests # <<>> /\ requests \in Seq(Requests \cup {Garbled})
    BY <2>1 DEF Typed, Held, TypeOK
  <2>4. Given["main"] # NULL /\ Given' = Given
    BY <2>1, <2>3 DEF Given, NULL
  <2>5. pcq_current_size < Capacity
    BY <2>1, Bounds DEF Typed, TypeOK
  <2>6. SlotQueue!EnterStore("main")
    BY <2>1, <2>2, <2>4, <2>5 DEF SlotQueue!EnterStore, Storing, Loading, Given
  <2> QED
    BY <2>6 DEF SlotQueue!Next
<1>3. CASE EnqFreeOld
  <2>1. /\ main_at = "free" /\ main_at' = "store"
        /\ UNCHANGED <<ringOfSlots, requests, pc, elem>>
    BY <1>3 DEF EnqFreeOld, pool, ringOfSlots
  <2> QED
    BY <2>1, QueueStays DEF Storing, Loading
<1>4. CASE EnqStore
  <2>1. /\ main_at = "store" /\ main_at' = "read"
        /\ pcq_buffer' = [pcq_buffer EXCEPT ![pcq_head] = Len(requests)]
        /\ pcq_head' = (pcq_head + 1) % Capacity
        /\ UNCHANGED <<pcq_current_size, pcq_tail, requests, pc, elem>>
    BY <1>4 DEF EnqStore, pool
  <2>2. "main" \in Storing /\ Storing' = Storing \ {"main"} /\ Loading' = Loading
    BY <2>1 DEF Storing, Loading
  <2>3. Given["main"] = Len(requests) /\ Given' = Given
    BY <2>1 DEF Given
  <2>4. SlotQueue!Store("main")
    BY <2>1, <2>2, <2>3 DEF SlotQueue!Store, Storing, Loading, Given
  <2> QED
    BY <2>4 DEF SlotQueue!Next
<1> QED
  BY <1>1, <1>2, <1>3, <1>4

(* A worker takes an element out, or lets it go at the end of a request. *)
LEMMA QueueWorker ==
  ASSUME Typed, NEW w \in Workers,
         DeqTake(w) \/ DeqLoad(w) \/ NotServed(w) \/ Answer(w)
  PROVE  SlotQueue!Next \/ UNCHANGED SlotQueue!vars
<1>0. pc \in [Workers -> {"dequeue", "load", "copy", "lookup", "open", "serve", "close",
                          "answer", "returned"}]
  BY DEF Typed, TypeOK
<1>1. CASE DeqTake(w)
  <2>1. /\ pc[w] = "dequeue" /\ pc' = [pc EXCEPT ![w] = "load"] /\ pcq_current_size # 0
        /\ pcq_current_size' = pcq_current_size - 1
        /\ UNCHANGED <<pcq_head, pcq_tail, pcq_buffer, main_at, requests, elem>>
    BY <1>1 DEF DeqTake, GoTo, CanTake, inlet
  <2>2. w \notin Loading /\ Loading' = Loading \cup {w} /\ Storing' = Storing
    BY <1>0, <2>1 DEF Storing, Loading
  <2>3. pcq_current_size > 0
    BY <2>1, Bounds DEF Typed, TypeOK
  <2>4. SlotQueue!EnterLoad(w)
    BY <2>1, <2>2, <2>3 DEF SlotQueue!EnterLoad, Storing, Loading
  <2> QED
    BY <2>4 DEF SlotQueue!Next
<1>2. CASE DeqLoad(w)
  <2>1. /\ pc[w] = "load" /\ pc' = [pc EXCEPT ![w] = "copy"]
        /\ elem' = [elem EXCEPT ![w] = pcq_buffer[pcq_tail]]
        /\ pcq_tail' = (pcq_tail + 1) % Capacity
        /\ UNCHANGED <<pcq_current_size, pcq_head, pcq_buffer, main_at, requests>>
    BY <1>2 DEF DeqLoad, GoTo, NextTail, inlet
  <2>2. w \in Loading /\ Loading' = Loading \ {w} /\ Storing' = Storing
    BY <1>0, <2>1 DEF Storing, Loading
  <2>3. SlotQueue!Load(w)
    BY <2>1, <2>2 DEF SlotQueue!Load, Storing, Loading
  <2> QED
    BY <2>3 DEF SlotQueue!Next
<1>3. ASSUME EndRequest(w), pc[w] \in {"serve", "answer"}, UNCHANGED <<ringOfSlots, inlet>>
      PROVE  SlotQueue!Next
  <2>1. /\ pc' = [pc EXCEPT ![w] = "dequeue"] /\ elem' = [elem EXCEPT ![w] = NULL]
        /\ UNCHANGED <<main_at, requests>>
    BY <1>3 DEF EndRequest, inlet
  <2>2. w \notin Loading /\ Loading' = Loading /\ Storing' = Storing
    BY <1>0, <1>3, <2>1 DEF Storing, Loading
  <2>3. SlotQueue!LetGo(w)
    BY <1>3, <2>1, <2>2 DEF SlotQueue!LetGo, Storing, Loading, ringOfSlots
  <2> QED
    BY <2>3 DEF SlotQueue!Next
<1>4. CASE UNCHANGED <<ringOfSlots, inlet, pool>>
  BY <1>4, QueueStays DEF inlet, pool, Storing, Loading
<1> QED
  BY <1>1, <1>2, <1>3, <1>4 DEF NotServed, Answer, ringOfSlots

(* Between the load and the end of a request a worker does not touch the queue. *)
LEMMA QueueServe ==
  ASSUME Typed, NEW w \in Workers,
         \/ CopyRequest(w) \/ LookUp(w) \/ Opened(w) \/ CreateOpen(w)
         \/ CreateClose(w) \/ RemoveBox(w) \/ ListBox(w)
  PROVE  UNCHANGED SlotQueue!vars
<1>1. UNCHANGED <<ringOfSlots, inlet, elem>>
  BY DEF CopyRequest, LookUp, Opened, CreateOpen, CreateClose, RemoveBox, ListBox,
         queue, ringOfSlots
<1>2. \/ UNCHANGED pc
      \/ pc[w] # "load" /\ \E to \in {"lookup", "returned", "open", "serve", "close", "answer"} :
                              pc' = [pc EXCEPT ![w] = to]
  BY DEF CopyRequest, LookUp, Opened, CreateOpen, CreateClose, RemoveBox, ListBox, GoTo
<1>3. pc \in [Workers -> {"dequeue", "load", "copy", "lookup", "open", "serve", "close",
                          "answer", "returned"}]
  BY DEF Typed, TypeOK
<1>4. Loading' = Loading
  BY <1>2, <1>3 DEF Loading
<1> QED
  BY <1>1, <1>4, QueueStays DEF inlet, Storing

(* QueueContract: of the queue main and the workers see and do only what PcQueue,  *)
(* by its SlotContract, gives its threads.                                         *)
THEOREM QueueKept == Spec => QueueContract
<1>1. Init => SlotQueue!Init
  <2> SUFFICES ASSUME Init PROVE SlotQueue!Init
    OBVIOUS
  <2>1. Storing = {} /\ Loading = {}
    BY DEF Init, Storing, Loading
  <2>2. Len(requests) = NULL
    BY DEF Init, NULL
  <2> QED
    BY <2>1, <2>2 DEF Init, SlotQueue!Init, Slots, Storing, Loading, NULL
<1>2. Typed /\ Typed' /\ [Next]_vars => [SlotQueue!Next]_(SlotQueue!vars)
  <2> SUFFICES ASSUME Typed, Typed', [Next]_vars
               PROVE  SlotQueue!Next \/ UNCHANGED SlotQueue!vars
    OBVIOUS
  <2>1. ASSUME NEW c \in Clients,
               \/ Start(c) \/ Register(c) \/ OpenSession(c) \/ ReadAnswer(c)
               \/ ReadListing(c) \/ EndOfFile(c) \/ Kill(c)
        PROVE  UNCHANGED SlotQueue!vars
    <3>1. UNCHANGED <<ringOfSlots, main_at, requests, pool>>
      BY <2>1 DEF Start, Register, OpenSession, ReadAnswer, ReadListing, EndOfFile, Kill,
                  inlet, queue, ringOfSlots
    <3> QED
      BY <3>1, QueueStays DEF pool, Storing, Loading
  <2>2. CASE UNCHANGED vars
    BY <2>2, QueueStays DEF vars, inlet, queue, pool, ringOfSlots, Storing, Loading
  <2> QED
    BY <2>1, <2>2, Steps, QueueMain, QueueWorker, QueueServe
<1> QED
  BY <1>1, <1>2, AlwaysTyped, PTL DEF Spec, QueueContract, SlotQueue!Spec
================================================================================
