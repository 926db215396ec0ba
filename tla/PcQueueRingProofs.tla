--------------------------- MODULE PcQueueRingProofs ----------------------------
(* Theorems about the ring of PcQueue: its counter, its indexes and its elements. *)
EXTENDS PcQueueProofs

--------------------------------------------------------------------------------
(* Remainders *)

(* Quotient and remainder. *)
LEMMA DivMod ==
  ASSUME NEW C \in Nat \ {0}, NEW x \in Nat
  PROVE  /\ x \div C \in Int /\ x % C \in 0 .. C - 1
         /\ x = C * (x \div C) + (x % C)
  OBVIOUS

(* There is but one remainder. *)
LEMMA ModUnique ==
  ASSUME NEW C \in Nat \ {0}, NEW x \in Nat, NEW q \in Int, NEW r \in 0 .. C - 1,
         x = C * q + r
  PROVE  x % C = r
<1>1. PICK p \in Int, s \in 0 .. C - 1 : s = x % C /\ x = C * p + s
  BY DivMod
<1>2. PICK d \in Int : d = p - q
  OBVIOUS
<1>3. C * d = r - s
  BY <1>1, <1>2
<1>4. C * d < C /\ C * d > 0 - C
  BY <1>3
<1>5. d = 0
  <2>1. d >= 1 => C * d >= C
    OBVIOUS
  <2>2. d <= 0 - 1 => C * d <= 0 - C
    OBVIOUS
  <2> QED
    BY <1>4, <2>1, <2>2
<1> QED
  BY <1>1, <1>3, <1>5

(* A whole lap leads nowhere. *)
LEMMA ModLap ==
  ASSUME NEW C \in Nat \ {0}, NEW x \in Nat
  PROVE  (x + C) % C = x % C
<1>1. PICK q \in Int, r \in 0 .. C - 1 : r = x % C /\ x = C * q + r
  BY DivMod
<1>2. PICK y \in Nat, p \in Int : y = x + C /\ p = q + 1
  OBVIOUS
<1>3. y = C * p + r
  BY <1>1, <1>2
<1>4. y % C = r
  BY <1>3, ModUnique
<1> QED
  BY <1>1, <1>2, <1>4

(* One place further, on either index, keeps them together. *)
LEMMA ModNext ==
  ASSUME NEW C \in Nat \ {0}, NEW x \in Nat, NEW y \in Nat, x % C = y % C
  PROVE  (x + 1) % C = (y + 1) % C
<1>1. ASSUME NEW z \in Nat
      PROVE  (z + 1) % C = IF z % C = C - 1 THEN 0 ELSE (z % C) + 1
  <2>1. PICK q \in Int, r \in 0 .. C - 1 : r = z % C /\ z = C * q + r
    BY DivMod
  <2>2. PICK n \in Nat, p \in Int : n = z + 1 /\ p = q + 1
    OBVIOUS
  <2>3. CASE r = C - 1
    <3>1. n = C * p + 0 /\ 0 \in 0 .. C - 1
      BY <2>1, <2>2, <2>3
    <3>2. n % C = 0
      BY <3>1, ModUnique
    <3> QED
      BY <2>1, <2>2, <2>3, <3>2
  <2>4. CASE r # C - 1
    <3>1. PICK s \in 0 .. C - 1 : s = r + 1
      BY <2>4
    <3>2. n = C * q + s
      BY <2>1, <2>2, <3>1
    <3>3. n % C = s
      BY <3>2, ModUnique
    <3> QED
      BY <2>1, <2>2, <2>4, <3>1, <3>3
  <2> QED
    BY <2>3, <2>4
<1> QED
  BY <1>1

(* An index that advances while one call fewer has still to advance it. *)
LEMMA ModAdvance ==
  ASSUME NEW C \in Nat \ {0}, NEW i \in 0 .. C - 1, NEW k \in Nat
  PROVE  (((i + 1) % C) + k) % C = (i + k + 1) % C
<1>1. CASE i + 1 < C
  <2>1. PICK j \in 0 .. C - 1 : j = i + 1
    BY <1>1
  <2>2. j % C = j
    BY <2>1, ModUnique, j = C * 0 + j
  <2> QED
    BY <2>1, <2>2
<1>2. CASE i + 1 = C
  <2>1. C % C = 0
    BY ModUnique, C = C * 1 + 0, 0 \in 0 .. C - 1
  <2>2. i + k + 1 = k + C /\ (i + 1) % C = 0
    BY <1>2, <2>1
  <2>3. (k + C) % C = k % C
    BY ModLap
  <2> QED
    BY <2>2, <2>3
<1> QED
  BY <1>1, <1>2

--------------------------------------------------------------------------------
(* Counter and indexes *)

StoringPlaces == {"enq_head", "enq_free", "enq_store"}
LoadingPlaces == {"deq_tail", "deq_load"}

(* RingBalance as a relation of the numbers it is about: the counter, the calls    *)
(* storing and loading, the elements stored and taken, head and tail.              *)
Balance(size, storing, loading, put, got, head, tail) ==
    /\ size + got + loading = put + storing
    /\ (tail + size + loading) % Capacity = (head + storing) % Capacity

(* RingBalance in that form, before and after a step, and the range of its numbers.*)
LEMMA BalanceForm ==
  ASSUME TypeOK
  PROVE  /\ RingBalance <=> Balance(pcq_current_size, Cardinality(Storing),
              Cardinality(Loading), Len(stored), Len(taken), pcq_head, pcq_tail)
         /\ RingBalance' <=> Balance(pcq_current_size', Cardinality(Storing)',
              Cardinality(Loading)', Len(stored)', Len(taken)', pcq_head', pcq_tail')
         /\ Cardinality(Storing) \in Nat /\ Cardinality(Loading) \in Nat
         /\ Len(stored) \in Nat /\ Len(taken) \in Nat
         /\ pcq_current_size \in Nat
         /\ pcq_head \in 0 .. Capacity - 1 /\ pcq_tail \in 0 .. Capacity - 1
         /\ Capacity \in Nat \ {0}
<1>1. Cardinality(Storing) \in Nat /\ Cardinality(Loading) \in Nat
  BY AtFinite DEF Storing, Loading
<1> QED
  BY <1>1, PcQueueAssumption DEF TypeOK, Slots, RingBalance, Balance

(* A thread moves alone. *)
Goes(t, from, to) == pc[t] = from /\ pc' = [pc EXCEPT ![t] = to]

(* What the move of one thread does to the calls storing and loading. *)
LEMMA CallsMove ==
  ASSUME TypeOK, NEW t \in Threads, NEW from, NEW to, Goes(t, from, to)
  PROVE  /\ Cardinality(Storing)' = Cardinality(Storing) + Gain(StoringPlaces, from, to)
         /\ Cardinality(Loading)' = Cardinality(Loading) + Gain(LoadingPlaces, from, to)
         /\ from \in StoringPlaces => Cardinality(Storing) >= 1
         /\ from \in LoadingPlaces => Cardinality(Loading) >= 1
<1>1. ASSUME NEW S, from \in S PROVE Cardinality(At(S)) >= 1
  <2>1. t \in At(S) /\ IsFiniteSet(At(S)) /\ Cardinality(At(S)) \in Nat
    BY <1>1, AtFinite DEF At, Goes
  <2> QED
    BY <2>1, FS_EmptySet
<1>2. ASSUME NEW S PROVE Cardinality(At(S)') = Cardinality(At(S)) + Gain(S, from, to)
  BY CountMove DEF Goes
<1> QED
  BY <1>1, <1>2 DEF Storing, Loading, StoringPlaces, LoadingPlaces

(* A step that moves one thread within, or outside, the places that count. *)
LEMMA BalanceKept ==
  ASSUME TypeOK, RingBalance, NEW t \in Threads, NEW from, NEW to, Goes(t, from, to),
         from \in StoringPlaces <=> to \in StoringPlaces,
         from \in LoadingPlaces <=> to \in LoadingPlaces,
         UNCHANGED <<pcq_current_size, pcq_head, pcq_tail, stored, taken>>
  PROVE  RingBalance'
<1>1. Cardinality(Storing)' = Cardinality(Storing) /\ Cardinality(Loading)' = Cardinality(Loading)
  BY CallsMove, BalanceForm DEF Gain
<1> QED
  BY <1>1, BalanceForm

(* The four steps that change the balance. *)
LEMMA ReserveBalance ==
  ASSUME TypeOK, RingBalance, NEW p \in Producers, EnqReserve(p) PROVE RingBalance'
<1>1. /\ Goes(p, "enq_full", "enq_head") /\ p \in Threads
      /\ pcq_current_size' = pcq_current_size + 1
      /\ UNCHANGED <<pcq_head, pcq_tail, stored, taken>>
  BY DEF EnqReserve, GoTo, Goes, Threads, ring, history
<1>2. PICK z \in Nat, s \in Nat, l \in Nat, d \in Nat, g \in Nat,
           h \in 0 .. Capacity - 1, t \in 0 .. Capacity - 1 :
        /\ z = pcq_current_size /\ s = Cardinality(Storing) /\ l = Cardinality(Loading)
        /\ d = Len(stored) /\ g = Len(taken) /\ h = pcq_head /\ t = pcq_tail
        /\ Capacity \in Nat \ {0}
  BY BalanceForm
<1>3. Cardinality(Storing)' = s + 1 /\ Cardinality(Loading)' = l
  BY <1>1, <1>2, CallsMove DEF Gain, StoringPlaces, LoadingPlaces
<1>4. Balance(z, s, l, d, g, h, t)
  BY <1>2, BalanceForm
<1>5. (t + (z + 1) + l) % Capacity = (h + (s + 1)) % Capacity
  <2>1. PICK x \in Nat, y \in Nat : x = t + z + l /\ y = h + s
    BY <1>2
  <2>2. x % Capacity = y % Capacity
    BY <1>4, <2>1 DEF Balance
  <2>3. (x + 1) % Capacity = (y + 1) % Capacity
    BY <1>2, <2>2, ModNext
  <2>4. t + (z + 1) + l = x + 1 /\ h + (s + 1) = y + 1
    BY <2>1
  <2> QED
    BY <2>3, <2>4
<1>6. Balance(z + 1, s + 1, l, d, g, h, t)
  <2>1. (z + 1) + g + l = d + (s + 1)
    BY <1>4 DEF Balance
  <2> QED
    BY <1>5, <2>1 DEF Balance
<1> QED
  BY <1>1, <1>2, <1>3, <1>6, BalanceForm

(* A store keeps it: the head moves, and one call less is on its way. *)
LEMMA StoreBalance ==
  ASSUME TypeOK, RingBalance, NEW p \in Producers, EnqStore(p) PROVE RingBalance'
<1>1. /\ Goes(p, "enq_store", "enq_signal") /\ p \in Threads
      /\ pcq_head' = (pcq_head + 1) % Capacity
      /\ Len(stored)' = Len(stored) + 1
      /\ UNCHANGED <<pcq_current_size, pcq_tail, taken>>
  BY DEF EnqStore, GoTo, Goes, Threads, TypeOK
<1>2. PICK z \in Nat, s \in Nat, l \in Nat, d \in Nat, g \in Nat,
           h \in 0 .. Capacity - 1, t \in 0 .. Capacity - 1 :
        /\ z = pcq_current_size /\ s = Cardinality(Storing) /\ l = Cardinality(Loading)
        /\ d = Len(stored) /\ g = Len(taken) /\ h = pcq_head /\ t = pcq_tail
        /\ Capacity \in Nat \ {0}
  BY BalanceForm
<1>3. Cardinality(Storing)' = s - 1 /\ Cardinality(Loading)' = l /\ s >= 1
  BY <1>1, <1>2, CallsMove DEF Gain, StoringPlaces, LoadingPlaces
<1>4. Balance(z, s, l, d, g, h, t)
  BY <1>2, BalanceForm
<1>5. PICK k \in Nat : k = s - 1
  BY <1>3
<1>6. (((h + 1) % Capacity) + k) % Capacity = (h + s) % Capacity
  <2>1. h + k + 1 = h + s
    BY <1>5
  <2> QED
    BY ZenonT(30), <1>2, <2>1, ModAdvance
<1>7. Balance(z, s - 1, l, d + 1, g, (h + 1) % Capacity, t)
  BY <1>2, <1>4, <1>5, <1>6 DEF Balance
<1> QED
  BY <1>1, <1>2, <1>3, <1>7, BalanceForm

(* A take keeps it: the counter falls, and one call more is on its way. *)
LEMMA TakeBalance ==
  ASSUME TypeOK, RingBalance, NEW c \in Consumers, DeqTake(c) PROVE RingBalance'
<1>1. /\ Goes(c, "deq_empty", "deq_tail") /\ c \in Threads
      /\ pcq_current_size' = pcq_current_size - 1
      /\ UNCHANGED <<pcq_head, pcq_tail, stored, taken>>
  BY DEF DeqTake, GoTo, Goes, Threads, ring, history
<1>2. PICK z \in Nat, s \in Nat, l \in Nat, d \in Nat, g \in Nat,
           h \in 0 .. Capacity - 1, t \in 0 .. Capacity - 1 :
        /\ z = pcq_current_size /\ s = Cardinality(Storing) /\ l = Cardinality(Loading)
        /\ d = Len(stored) /\ g = Len(taken) /\ h = pcq_head /\ t = pcq_tail
        /\ Capacity \in Nat \ {0}
  BY BalanceForm
<1>3. Cardinality(Storing)' = s /\ Cardinality(Loading)' = l + 1
  BY <1>1, <1>2, CallsMove DEF Gain, StoringPlaces, LoadingPlaces
<1>4. Balance(z, s, l, d, g, h, t)
  BY <1>2, BalanceForm
<1>5. Balance(z - 1, s, l + 1, d, g, h, t)
  <2>1. t + (z - 1) + (l + 1) = t + z + l
    BY <1>2
  <2> QED
    BY <1>2, <1>4, <2>1 DEF Balance
<1> QED
  BY <1>1, <1>2, <1>3, <1>5, BalanceForm

(* A load keeps it: the tail moves, and one call less is on its way. *)
LEMMA LoadBalance ==
  ASSUME TypeOK, RingBalance, NEW c \in Consumers, DeqLoad(c) PROVE RingBalance'
<1>1. /\ Goes(c, "deq_load", "deq_signal") /\ c \in Threads
      /\ pcq_tail' = (pcq_tail + 1) % Capacity
      /\ Len(taken)' = Len(taken) + 1
      /\ UNCHANGED <<pcq_current_size, pcq_head, stored>>
  BY DEF DeqLoad, NextTail, GoTo, Goes, Threads, TypeOK
<1>2. PICK z \in Nat, s \in Nat, l \in Nat, d \in Nat, g \in Nat,
           h \in 0 .. Capacity - 1, t \in 0 .. Capacity - 1 :
        /\ z = pcq_current_size /\ s = Cardinality(Storing) /\ l = Cardinality(Loading)
        /\ d = Len(stored) /\ g = Len(taken) /\ h = pcq_head /\ t = pcq_tail
        /\ Capacity \in Nat \ {0}
  BY BalanceForm
<1>3. Cardinality(Storing)' = s /\ Cardinality(Loading)' = l - 1 /\ l >= 1
  BY SMTT(30), <1>1, <1>2, CallsMove DEF Gain, StoringPlaces, LoadingPlaces
<1>4. Balance(z, s, l, d, g, h, t)
  BY <1>2, BalanceForm
<1>5. PICK k \in Nat : k = z + (l - 1)
  BY <1>3
<1>6. (((t + 1) % Capacity) + k) % Capacity = (t + z + l) % Capacity
  <2>1. t + k + 1 = t + z + l
    BY <1>5
  <2> QED
    BY SMTT(30), <1>2, <2>1, ModAdvance
<1>7. Balance(z, s, l - 1, d, g + 1, h, (t + 1) % Capacity)
  <2>1. ((t + 1) % Capacity) + z + (l - 1) = ((t + 1) % Capacity) + k
    BY <1>2, <1>5
  <2>2. z + (g + 1) + (l - 1) = z + g + l
    BY <1>2
  <2> QED
    BY <1>2, <1>4, <1>6, <2>1, <2>2 DEF Balance
<1> QED
  BY <1>1, <1>2, <1>3, <1>7, BalanceForm

(* Every step keeps counter and indexes in balance. *)
LEMMA BalanceNext == TypeOK /\ RingBalance /\ [Next]_vars => RingBalance'
<1> SUFFICES ASSUME TypeOK, RingBalance, [Next]_vars PROVE RingBalance'
  OBVIOUS
<1> USE DEF StoringPlaces, LoadingPlaces, ring, heap, history
<1>1. ASSUME NEW p \in Producers, EnqCall(p) \/ EnqStep(p) PROVE RingBalance'
  <2>0. p \in Threads
    BY DEF Threads
  <2>1. CASE EnqReserve(p)
    BY <2>1, ReserveBalance
  <2>2. CASE EnqStore(p)
    BY <2>2, StoreBalance
  <2>3. CASE EnqCall(p)
    <3>1. Goes(p, "idle", "enq_lock")
      BY <2>3 DEF EnqCall, GoTo, Goes
    <3> QED
      BY <2>0, <2>3, <3>1, BalanceKept DEF EnqCall
  <2>4. CASE EnqLockSize(p)
    <3>1. Goes(p, "enq_lock", "enq_full")
      BY <2>4 DEF EnqLockSize, GoTo, Goes
    <3> QED
      BY <2>0, <2>4, <3>1, BalanceKept DEF EnqLockSize
  <2>5. CASE EnqWait(p)
    <3>1. Goes(p, "enq_full", "enq_wait")
      BY <2>5 DEF EnqWait, GoTo, Goes
    <3> QED
      BY <2>0, <2>5, <3>1, BalanceKept DEF EnqWait
  <2>6. CASE EnqLockHead(p)
    <3>1. Goes(p, "enq_head", "enq_free")
      BY <2>6 DEF EnqLockHead, GoTo, Goes
    <3> QED
      BY <2>0, <2>6, <3>1, BalanceKept DEF EnqLockHead
  <2>7. CASE EnqFreeOld(p)
    <3>1. Goes(p, "enq_free", "enq_store")
      BY <2>7 DEF EnqFreeOld, GoTo, Goes
    <3> QED
      BY <2>0, <2>7, <3>1, BalanceKept DEF EnqFreeOld
  <2>8. CASE EnqSignal(p)
    <3>1. PICK u \in Threads :
            /\ pc[u] = "deq_wait" \/ u = p
            /\ pc' = [pc EXCEPT ![p] = "idle",
                               ![u] = IF u = p THEN "idle" ELSE "deq_lock"]
      BY <2>8 DEF EnqSignal, SignalPopper, Signal, TypeOK, Threads
    <3>2. pc[p] = "enq_signal"
      BY <2>8 DEF EnqSignal
    <3>3. Storing' = Storing /\ Loading' = Loading
      BY <3>1, <3>2 DEF Storing, Loading, At, TypeOK
    <3> QED
      BY <2>8, <3>3 DEF EnqSignal, RingBalance
  <2> QED
    BY <1>1, <2>1, <2>2, <2>3, <2>4, <2>5, <2>6, <2>7, <2>8 DEF EnqStep
<1>2. ASSUME NEW c \in Consumers, DeqCall(c) \/ DeqStep(c) PROVE RingBalance'
  <2>0. c \in Threads
    BY DEF Threads
  <2>1. CASE DeqTake(c)
    BY <2>1, TakeBalance
  <2>2. CASE DeqLoad(c)
    BY <2>2, LoadBalance
  <2>3. CASE DeqCall(c)
    <3>1. Goes(c, "idle", "deq_lock")
      BY <2>3 DEF DeqCall, GoTo, Goes
    <3> QED
      BY <2>0, <2>3, <3>1, BalanceKept DEF DeqCall
  <2>4. CASE DeqLockSize(c)
    <3>1. Goes(c, "deq_lock", "deq_empty")
      BY <2>4 DEF DeqLockSize, GoTo, Goes
    <3> QED
      BY <2>0, <2>4, <3>1, BalanceKept DEF DeqLockSize
  <2>5. CASE DeqWait(c)
    <3>1. Goes(c, "deq_empty", "deq_wait")
      BY <2>5 DEF DeqWait, GoTo, Goes
    <3> QED
      BY <2>0, <2>5, <3>1, BalanceKept DEF DeqWait
  <2>6. CASE DeqLockTail(c)
    <3>1. Goes(c, "deq_tail", "deq_load")
      BY <2>6 DEF DeqLockTail, GoTo, Goes
    <3> QED
      BY <2>0, <2>6, <3>1, BalanceKept DEF DeqLockTail
  <2>7. CASE DeqSignal(c)
    <3>1. PICK u \in Threads :
            /\ pc[u] = "enq_wait" \/ u = c
            /\ pc' = [pc EXCEPT ![c] = "idle",
                               ![u] = IF u = c THEN "idle" ELSE "enq_lock"]
      BY <2>7 DEF DeqSignal, SignalPusher, Signal, TypeOK, Threads
    <3>2. pc[c] = "deq_signal"
      BY <2>7 DEF DeqSignal
    <3>3. Storing' = Storing /\ Loading' = Loading
      BY <3>1, <3>2 DEF Storing, Loading, At, TypeOK
    <3> QED
      BY <2>7, <3>3 DEF DeqSignal, RingBalance
  <2> QED
    BY <1>2, <2>1, <2>2, <2>3, <2>4, <2>5, <2>6, <2>7 DEF DeqStep
<1>3. ASSUME NEW t \in Threads, SpuriousWakeup(t) PROVE RingBalance'
  <2>1. Goes(t, "enq_wait", "enq_lock") \/ Goes(t, "deq_wait", "deq_lock")
    BY <1>3 DEF SpuriousWakeup, GoTo, Goes
  <2>2. UNCHANGED <<pcq_current_size, pcq_head, pcq_tail, stored, taken>>
    BY <1>3 DEF SpuriousWakeup
  <2>3. CASE Goes(t, "enq_wait", "enq_lock")
    BY <2>2, <2>3, BalanceKept
  <2>4. CASE Goes(t, "deq_wait", "deq_lock")
    BY <2>2, <2>4, BalanceKept
  <2> QED
    BY <2>1, <2>3, <2>4
<1>4. CASE UNCHANGED vars
  BY <1>4 DEF vars, RingBalance, Storing, Loading, At
<1> QED
  BY <1>1, <1>2, <1>3, <1>4 DEF Next

(* Counter, head and tail are guarded by three mutexes, and no interleaving of     *)
(* pcq_enqueue and pcq_dequeue, over any number of laps, puts them out of step.    *)
THEOREM RingBalanced == Spec => []RingBalance
<1>1. Init => RingBalance
  <2> SUFFICES ASSUME Init PROVE RingBalance
    OBVIOUS
  <2>1. Storing = {} /\ Loading = {}
    BY DEF Init, Storing, Loading, At
  <2>2. Cardinality({}) = 0
    BY FS_EmptySet
  <2> QED
    BY <2>1, <2>2, PcQueueAssumption DEF Init, RingBalance
<1>2. TypeOK /\ RingBalance /\ [Next]_vars => RingBalance'
  BY BalanceNext
<1> QED
  BY <1>1, <1>2, TypeCorrect, PTL DEF Spec

--------------------------------------------------------------------------------
(* Elements *)

(* A producer there has an element that it has not stored yet. *)
PendingPlaces == {"enq_lock", "enq_full", "enq_wait", "enq_head", "enq_free", "enq_store"}

(* Every element is in one place: with a producer, in a slot, or past both.  The   *)
(* slot about to be overwritten is the only one whose element may be freed.        *)
PendingApart ==
    \A p \in Producers : pc[p] \in PendingPlaces =>
        /\ elem[p] \in 1 .. allocated
        /\ elem[p] \notin freed
        /\ \A i \in Slots : pcq_buffer[i] # elem[p]
        /\ \A q \in Producers : pc[q] \in PendingPlaces /\ q # p => elem[q] # elem[p]

SlotsApart ==
    /\ \A i \in Slots : pcq_buffer[i] \in 0 .. allocated
    /\ \A i, j \in Slots : i # j /\ pcq_buffer[i] = pcq_buffer[j] => pcq_buffer[i] = NULL

FreedAtHead ==
    /\ freed \subseteq 1 .. allocated
    /\ \A i \in Slots : pcq_buffer[i] \in freed =>
        i = pcq_head /\ \E p \in Producers : pc[p] = "enq_store"

ElementsApart == PendingApart /\ SlotsApart /\ FreedAtHead

(* No element is pending, stored or freed at the start. *)
LEMMA ElementsInit == Init => ElementsApart
BY DEF Init, ElementsApart, PendingApart, SlotsApart, FreedAtHead, PendingPlaces, NULL, Threads

(* A thread's step that touches no element keeps them apart, if it neither makes a *)
(* producer's element pending nor leaves the store.                                *)
LEMMA ElementsKept ==
  ASSUME TypeOK, ElementsApart,
         UNCHANGED <<pcq_head, pcq_buffer, allocated, freed>>,
         \A p \in Producers :
            /\ elem'[p] = elem[p]
            /\ pc'[p] \in PendingPlaces => pc[p] \in PendingPlaces
            /\ pc[p] = "enq_store" => pc'[p] = "enq_store"
  PROVE  ElementsApart'
<1>1. PendingApart'
  BY DEF ElementsApart, PendingApart
<1>2. SlotsApart' /\ FreedAtHead'
  BY DEF ElementsApart, SlotsApart, FreedAtHead
<1> QED
  BY <1>1, <1>2 DEF ElementsApart

(* A fresh element is nowhere yet. *)
LEMMA ElementsCall ==
  ASSUME TypeOK, ElementsApart, NEW p \in Producers, EnqCall(p)
  PROVE  ElementsApart'
<1>1. /\ pc[p] = "idle" /\ pc' = [pc EXCEPT ![p] = "enq_lock"]
      /\ allocated' = allocated + 1 /\ elem' = [elem EXCEPT ![p] = allocated + 1]
      /\ UNCHANGED <<pcq_head, pcq_buffer, freed>>
      /\ allocated \in Nat
  BY PcQueueAssumption DEF EnqCall, GoTo, ring, TypeOK
<1>2. PendingApart'
  BY <1>1 DEF ElementsApart, PendingApart, SlotsApart, FreedAtHead, PendingPlaces, TypeOK, Threads
<1>3. SlotsApart'
  BY <1>1 DEF ElementsApart, SlotsApart
<1>4. FreedAtHead'
  BY <1>1 DEF ElementsApart, FreedAtHead, TypeOK, Threads
<1> QED
  BY <1>2, <1>3, <1>4 DEF ElementsApart

(* Freeing what the head's slot holds. *)
LEMMA ElementsFree ==
  ASSUME TypeOK, ElementsApart, NEW p \in Producers, EnqFreeOld(p)
  PROVE  ElementsApart'
<1>1. /\ pc[p] = "enq_free" /\ pc' = [pc EXCEPT ![p] = "enq_store"]
      /\ freed' = freed \cup ({pcq_buffer[pcq_head]} \ {NULL})
      /\ UNCHANGED <<pcq_head, pcq_buffer, allocated, elem>>
      /\ pcq_head \in Slots
  BY DEF EnqFreeOld, OldElement, GoTo, ring, TypeOK
<1>2. PendingApart'
  BY <1>1 DEF ElementsApart, PendingApart, PendingPlaces, TypeOK, Threads
<1>3. SlotsApart'
  BY <1>1 DEF ElementsApart, SlotsApart
<1>4. FreedAtHead'
  <2>1. freed' \subseteq 1 .. allocated'
    <3>1. pcq_buffer[pcq_head] \in 0 .. allocated /\ allocated \in Nat
      BY <1>1, PcQueueAssumption DEF ElementsApart, SlotsApart, TypeOK
    <3>2. freed \subseteq 1 .. allocated
      BY DEF ElementsApart, FreedAtHead
    <3>3. ASSUME NEW e \in freed' PROVE e \in 1 .. allocated
      <4>1. e \in freed \/ (e = pcq_buffer[pcq_head] /\ e # 0)
        BY <1>1 DEF NULL
      <4>2. CASE e \in freed
        BY <3>2, <4>2
      <4>3. CASE e = pcq_buffer[pcq_head] /\ e # 0
        <5>1. e \in 0 .. allocated
          BY <3>1, <4>3
        <5> QED
          BY <3>1, <4>3, <5>1
      <4> QED
        BY <4>1, <4>2, <4>3
    <3> QED
      BY <1>1, <3>3
  <2>2. pc'[p] = "enq_store"
    BY <1>1 DEF TypeOK, Threads
  <2>3. ASSUME NEW i \in Slots, pcq_buffer[i] \in freed' PROVE i = pcq_head
    BY <1>1, <2>3 DEF ElementsApart, FreedAtHead, SlotsApart
  <2> QED
    BY <1>1, <2>1, <2>2, <2>3 DEF FreedAtHead
<1> QED
  BY <1>2, <1>3, <1>4 DEF ElementsApart

(* Storing over it. *)
LEMMA ElementsStore ==
  ASSUME TypeOK, ElementsApart, NEW p \in Producers, EnqStore(p)
  PROVE  ElementsApart'
<1>1. /\ pc[p] = "enq_store" /\ pc' = [pc EXCEPT ![p] = "enq_signal"]
      /\ pcq_buffer' = [pcq_buffer EXCEPT ![pcq_head] = elem[p]]
      /\ UNCHANGED <<freed, allocated, elem>>
      /\ pcq_head \in Slots
  BY DEF EnqStore, GoTo, heap, TypeOK
<1>2. /\ elem[p] \in 1 .. allocated /\ elem[p] \notin freed
      /\ \A i \in Slots : pcq_buffer[i] # elem[p]
  BY <1>1 DEF ElementsApart, PendingApart, PendingPlaces
<1>3. PendingApart'
  BY <1>1 DEF ElementsApart, PendingApart, PendingPlaces, TypeOK, Threads
<1>4. SlotsApart'
  BY <1>1, <1>2 DEF ElementsApart, SlotsApart, TypeOK
<1>5. FreedAtHead'
  BY <1>1, <1>2 DEF ElementsApart, FreedAtHead, TypeOK
<1> QED
  BY <1>3, <1>4, <1>5 DEF ElementsApart

(* Every step keeps the elements apart. *)
LEMMA ElementsNext == TypeOK /\ ElementsApart /\ [Next]_vars => ElementsApart'
<1> SUFFICES ASSUME TypeOK, ElementsApart, [Next]_vars PROVE ElementsApart'
  OBVIOUS
<1> USE DEF PendingPlaces, ring, heap, Threads
<1>1. ASSUME NEW p \in Producers, EnqCall(p) \/ EnqStep(p) PROVE ElementsApart'
  <2>1. CASE EnqCall(p)
    BY <2>1, ElementsCall
  <2>2. CASE EnqFreeOld(p)
    BY <2>2, ElementsFree
  <2>3. CASE EnqStore(p)
    BY <2>3, ElementsStore
  <2>4. CASE EnqLockSize(p) \/ EnqWait(p) \/ EnqReserve(p) \/ EnqLockHead(p)
    <3>1. /\ UNCHANGED <<pcq_head, pcq_buffer, allocated, freed, elem>>
          /\ \E to \in PendingPlaces :
                pc[p] \in PendingPlaces \ {"enq_store"} /\ pc' = [pc EXCEPT ![p] = to]
      BY <2>4 DEF EnqLockSize, EnqWait, EnqReserve, EnqLockHead, GoTo
    <3> QED
      BY <3>1, ElementsKept DEF TypeOK
  <2>5. CASE EnqSignal(p)
    <3>1. PICK u \in Threads :
            /\ pc[u] = "deq_wait" \/ u = p
            /\ pc' = [pc EXCEPT ![p] = "idle",
                               ![u] = IF u = p THEN "idle" ELSE "deq_lock"]
      BY <2>5 DEF EnqSignal, SignalPopper, Signal, TypeOK
    <3>2. pc[p] = "enq_signal" /\ UNCHANGED <<pcq_head, pcq_buffer, allocated, freed, elem>>
      BY <2>5 DEF EnqSignal
    <3> QED
      BY <3>1, <3>2, ElementsKept DEF TypeOK
  <2> QED
    BY <1>1, <2>1, <2>2, <2>3, <2>4, <2>5 DEF EnqStep
<1>2. ASSUME NEW c \in Consumers, DeqCall(c) \/ DeqStep(c) PROVE ElementsApart'
  <2>0. c \notin Producers
    BY PcQueueAssumption
  <2>1. CASE DeqSignal(c)
    <3>1. PICK u \in Threads :
            /\ pc[u] = "enq_wait" \/ u = c
            /\ pc' = [pc EXCEPT ![c] = "idle",
                               ![u] = IF u = c THEN "idle" ELSE "enq_lock"]
      BY <2>1 DEF DeqSignal, SignalPusher, Signal, TypeOK
    <3>2. UNCHANGED <<pcq_head, pcq_buffer, allocated, freed, elem>>
      BY <2>1 DEF DeqSignal
    <3> QED
      BY <2>0, <3>1, <3>2, ElementsKept DEF TypeOK
  <2>2. CASE ~ DeqSignal(c)
    <3>1. /\ UNCHANGED <<pcq_head, pcq_buffer, allocated, freed>>
          /\ \A p \in Producers : elem'[p] = elem[p] /\ pc'[p] = pc[p]
      BY <1>2, <2>0, <2>2 DEF DeqStep, DeqCall, DeqLockSize, DeqWait, DeqTake, DeqLockTail,
                              DeqLoad, GoTo, TypeOK
    <3> QED
      BY <3>1, ElementsKept
  <2> QED
    BY <2>1, <2>2
<1>3. ASSUME NEW t \in Threads, SpuriousWakeup(t) PROVE ElementsApart'
  <2>1. /\ UNCHANGED <<pcq_head, pcq_buffer, allocated, freed, elem>>
        /\ \/ pc[t] = "enq_wait" /\ pc' = [pc EXCEPT ![t] = "enq_lock"]
           \/ pc[t] = "deq_wait" /\ pc' = [pc EXCEPT ![t] = "deq_lock"]
    BY <1>3 DEF SpuriousWakeup, GoTo
  <2> QED
    BY <2>1, ElementsKept DEF TypeOK
<1>4. CASE UNCHANGED vars
  BY <1>4, ElementsKept DEF vars
<1> QED
  BY <1>1, <1>2, <1>3, <1>4 DEF Next

(* pcq_enqueue frees an element once only, for every number of threads and laps:   *)
(* the head mutex, taken before the free and given back after the store, is enough.*)
THEOREM FreedOnce == Spec => []NoDoubleFree
<1>1. Init => ElementsApart
  BY ElementsInit
<1>2. TypeOK /\ ElementsApart /\ [Next]_vars => ElementsApart'
  BY ElementsNext
<1>3. TypeOK /\ ElementsApart => NoDoubleFree
  <2> SUFFICES ASSUME TypeOK, ElementsApart, NEW p \in Producers, pc[p] = "enq_free",
                      pcq_buffer[pcq_head] \in freed
               PROVE  FALSE
    BY DEF NoDoubleFree
  <2>1. PICK q \in Producers : pc[q] = "enq_store"
    BY DEF ElementsApart, FreedAtHead, TypeOK
  <2>2. holder["head"] = p /\ holder["head"] = q
    BY <2>1 DEF TypeOK, LocksHeld, Threads
  <2> QED
    BY <2>1, <2>2
<1> QED
  BY <1>1, <1>2, <1>3, TypeCorrect, PTL DEF Spec

--------------------------------------------------------------------------------
(* Contents *)

(* A remainder may be taken before adding. *)
LEMMA ModAdd ==
  ASSUME NEW C \in Nat \ {0}, NEW x \in Nat, NEW k \in Nat
  PROVE  ((x % C) + k) % C = (x + k) % C
<1>1. PICK q \in Int, r \in 0 .. C - 1 : r = x % C /\ x = C * q + r
  BY DivMod
<1>2. PICK y \in Nat : y = r + k
  OBVIOUS
<1>3. PICK p \in Int, s \in 0 .. C - 1 : s = y % C /\ y = C * p + s
  BY DivMod
<1>4. PICK z \in Nat, d \in Int : z = x + k /\ d = p + q
  OBVIOUS
<1>5. z = C * d + s
  BY <1>1, <1>2, <1>3, <1>4
<1>6. z % C = s
  BY <1>5, ModUnique
<1> QED
  BY <1>1, <1>2, <1>3, <1>4, <1>6

(* Two numbers less than a lap apart have different remainders. *)
LEMMA ModApart ==
  ASSUME NEW C \in Nat \ {0}, NEW x \in Nat, NEW y \in Nat, x < y, y < x + C
  PROVE  x % C # y % C
<1> SUFFICES ASSUME x % C = y % C PROVE FALSE
  OBVIOUS
<1>1. PICK q \in Int, r \in 0 .. C - 1 : r = x % C /\ x = C * q + r
  BY DivMod
<1>2. PICK p \in Int : y = C * p + r
  BY <1>1, DivMod
<1>3. PICK d \in Int : d = p - q
  OBVIOUS
<1>4. C * d = y - x
  BY <1>1, <1>2, <1>3
<1>5. C * d > 0 /\ C * d < C
  BY <1>4
<1>6. d >= 1 => C * d >= C
  OBVIOUS
<1>7. d <= 0 => C * d <= 0
  OBVIOUS
<1> QED
  BY <1>5, <1>6, <1>7

(* The indexes count the stores and the loads, and the slot of each of the latest  *)
(* Capacity stores holds what was stored.                                          *)
IndexesCount ==
    /\ pcq_head = Len(stored) % Capacity
    /\ pcq_tail = Len(taken) % Capacity

LatestStores ==
    \A k \in 1 .. Len(stored) :
        Len(stored) < k + Capacity => pcq_buffer[(k - 1) % Capacity] = stored[k]

(* A store fills the slot of its own number and of no other recent one. *)
LEMMA ContentsStore ==
  ASSUME TypeOK, IndexesCount, LatestStores, NEW p \in Producers, EnqStore(p)
  PROVE  IndexesCount' /\ LatestStores'
<1>1. PICK n \in Nat : n = Len(stored)
  BY DEF TypeOK
<1>2. /\ pcq_head' = (pcq_head + 1) % Capacity /\ pcq_tail' = pcq_tail /\ taken' = taken
      /\ pcq_buffer' = [pcq_buffer EXCEPT ![pcq_head] = elem[p]]
      /\ stored' = Append(stored, elem[p]) /\ Len(stored') = n + 1
      /\ elem[p] \in Elements /\ stored \in Seq(Elements)
  BY <1>1 DEF EnqStore, GoTo, TypeOK
<1>3. Capacity \in Nat \ {0} /\ pcq_head = n % Capacity
  BY <1>1, PcQueueAssumption DEF IndexesCount
<1>4. IndexesCount'
  <2>1. ((n % Capacity) + 1) % Capacity = (n + 1) % Capacity
    BY <1>3, ModAdd
  <2> QED
    BY <1>2, <1>3, <2>1 DEF IndexesCount
<1>5. ASSUME NEW k \in 1 .. n + 1, n + 1 < k + Capacity
      PROVE  pcq_buffer'[(k - 1) % Capacity] = stored'[k]
  <2>1. PICK x \in Nat : x = k - 1
    OBVIOUS
  <2>2. x % Capacity \in Slots
    BY <1>3, DivMod DEF Slots
  <2>3. CASE k = n + 1
    <3>1. x % Capacity = pcq_head
      BY <1>3, <2>1, <2>3
    <3>2. pcq_buffer'[x % Capacity] = elem[p]
      BY <1>2, <2>2, <3>1 DEF TypeOK
    <3> QED
      BY <1>1, <1>2, <2>1, <2>3, <3>2
  <2>4. CASE k # n + 1
    <3>1. x < n /\ n < x + Capacity /\ k \in 1 .. n /\ n < k + Capacity
      BY <1>3, <1>5, <2>1, <2>4
    <3>2. x % Capacity # pcq_head
      BY <1>3, <3>1, ModApart
    <3>3. pcq_buffer'[x % Capacity] = pcq_buffer[x % Capacity]
      BY <1>2, <2>2, <3>2 DEF TypeOK
    <3>4. pcq_buffer[x % Capacity] = stored[k]
      BY <1>1, <2>1, <3>1 DEF LatestStores
    <3>5. stored'[k] = stored[k]
      BY <1>1, <1>2, <3>1
    <3> QED
      BY <2>1, <3>3, <3>4, <3>5
  <2> QED
    BY <2>3, <2>4
<1>6. LatestStores'
  BY <1>2, <1>5 DEF LatestStores
<1> QED
  BY <1>4, <1>6

(* A load moves the tail only. *)
LEMMA ContentsLoad ==
  ASSUME TypeOK, IndexesCount, LatestStores, NEW c \in Consumers, DeqLoad(c)
  PROVE  IndexesCount' /\ LatestStores'
<1>1. PICK n \in Nat : n = Len(taken)
  BY DEF TypeOK
<1>2. /\ pcq_tail' = (pcq_tail + 1) % Capacity /\ Len(taken') = n + 1
      /\ UNCHANGED <<pcq_head, pcq_buffer, stored>>
  BY <1>1 DEF DeqLoad, NextTail, TypeOK
<1>3. ((n % Capacity) + 1) % Capacity = (n + 1) % Capacity
  BY PcQueueAssumption, ModAdd
<1> QED
  BY <1>1, <1>2, <1>3 DEF IndexesCount, LatestStores

(* No other step touches index, slot or history. *)
LEMMA HistorySteps ==
  ASSUME [Next]_vars
  PROVE  \/ \E p \in Producers : EnqStore(p)
         \/ \E c \in Consumers : DeqLoad(c)
         \/ UNCHANGED <<pcq_head, pcq_tail, pcq_buffer, stored, taken>>
<1>1. ASSUME NEW p \in Producers, EnqCall(p) \/ EnqStep(p), ~ EnqStore(p)
      PROVE  UNCHANGED <<pcq_head, pcq_tail, pcq_buffer, stored, taken>>
  BY <1>1 DEF EnqStep, EnqCall, EnqLockSize, EnqWait, EnqReserve, EnqLockHead, EnqFreeOld,
              EnqSignal, ring, history
<1>2. ASSUME NEW c \in Consumers, DeqCall(c) \/ DeqStep(c), ~ DeqLoad(c)
      PROVE  UNCHANGED <<pcq_head, pcq_tail, pcq_buffer, stored, taken>>
  BY <1>2 DEF DeqStep, DeqCall, DeqLockSize, DeqWait, DeqTake, DeqLockTail, DeqSignal,
              ring, history
<1>3. ASSUME NEW t \in Threads, SpuriousWakeup(t)
      PROVE  UNCHANGED <<pcq_head, pcq_tail, pcq_buffer, stored, taken>>
  BY <1>3 DEF SpuriousWakeup, ring, history
<1>4. CASE UNCHANGED vars
  BY <1>4 DEF vars, ring, history
<1> QED
  BY <1>1, <1>2, <1>3, <1>4 DEF Next

LEMMA ContentsNext ==
  TypeOK /\ IndexesCount /\ LatestStores /\ [Next]_vars => IndexesCount' /\ LatestStores'
<1> SUFFICES ASSUME TypeOK, IndexesCount, LatestStores, [Next]_vars
             PROVE  IndexesCount' /\ LatestStores'
  OBVIOUS
<1>1. CASE UNCHANGED <<pcq_head, pcq_tail, pcq_buffer, stored, taken>>
  BY <1>1 DEF IndexesCount, LatestStores
<1> QED
  BY <1>1, ContentsStore, ContentsLoad, HistorySteps

(* The history in the ring, after any number of laps. *)
LEMMA IndexesAndStores == Spec => [](IndexesCount /\ LatestStores)
<1>1. Init => IndexesCount /\ LatestStores
  <2> SUFFICES ASSUME Init PROVE IndexesCount /\ LatestStores
    OBVIOUS
  <2>1. 0 % Capacity = 0
    <3>1. 0 = Capacity * 0 + 0 /\ 0 \in 0 .. Capacity - 1 /\ Capacity \in Nat \ {0}
      BY PcQueueAssumption
    <3> QED
      BY <3>1, ModUnique
  <2> QED
    BY <2>1 DEF Init, IndexesCount, LatestStores
<1>2. TypeOK /\ IndexesCount /\ LatestStores /\ [Next]_vars => IndexesCount' /\ LatestStores'
  BY ContentsNext
<1> QED
  BY <1>1, <1>2, TypeCorrect, PTL DEF Spec

(* When no call is between counter and slot, the counted slots hold the latest     *)
(* stores in their order, whatever races pcq_enqueue and pcq_dequeue went through. *)
THEOREM RingRecovers == Spec => []QuiescentContents
<1>1. TypeOK /\ RingBalance /\ IndexesCount /\ LatestStores => QuiescentContents
  <2> SUFFICES ASSUME TypeOK, RingBalance, IndexesCount, LatestStores,
                      Storing \cup Loading = {}, NEW i \in 0 .. pcq_current_size - 1
               PROVE  pcq_buffer[(pcq_tail + i) % Capacity]
                        = stored[Len(stored) - pcq_current_size + i + 1]
    BY DEF QuiescentContents
  <2>1. PICK n \in Nat, m \in Nat, z \in 0 .. Capacity :
          n = Len(stored) /\ m = Len(taken) /\ z = pcq_current_size
    BY DEF TypeOK
  <2>2. z + m = n
    <3>1. Storing = {} /\ Loading = {} /\ Cardinality({}) = 0
      BY FS_EmptySet
    <3> QED
      BY <2>1, <3>1 DEF RingBalance
  <2>3. PICK k \in Nat : k = m + i + 1
    OBVIOUS
  <2>4. /\ k \in 1 .. n /\ n < k + Capacity /\ i \in Nat
        /\ n - z + i + 1 = k /\ k - 1 = m + i
    <3>1. i \in Nat /\ i < z /\ z <= Capacity /\ Capacity \in Nat
      BY <2>1, PcQueueAssumption
    <3> QED
      BY <2>2, <2>3, <3>1
  <2>5. (pcq_tail + i) % Capacity = (m + i) % Capacity
    BY ZenonT(30), <2>1, <2>4, PcQueueAssumption, ModAdd DEF IndexesCount
  <2>6. pcq_buffer[(k - 1) % Capacity] = stored[k]
    BY <2>1, <2>4 DEF LatestStores
  <2> QED
    BY <2>1, <2>4, <2>5, <2>6
<1> QED
  BY <1>1, TypeCorrect, RingBalanced, IndexesAndStores, PTL

--------------------------------------------------------------------------------
(* What a load returns *)

(* Slots nobody has stored into yet. *)
UnstoredNull == \A i \in Slots : i >= Len(stored) => pcq_buffer[i] = NULL

(* What LoadsNearby says of the k-th load if it returned e. *)
Explained(e, k) ==
    IF e = NULL
    THEN k <= Capacity
    ELSE \E j \in {k - Capacity, k, k + Capacity} \cap (1 .. Len(stored)) : e = stored[j]

(* Of the numbers below n the last with remainder r is less than a lap behind n.   *)
LEMMA LatestWith ==
  ASSUME NEW C \in Nat \ {0}, NEW n \in Nat, NEW r \in 0 .. C - 1, n > r
  PROVE  \E q \in Int, x \in Nat : x = C * q + r /\ x < n /\ n <= x + C /\ x % C = r
<1>1. PICK y \in Nat : y = n - 1 - r
  OBVIOUS
<1>2. PICK q \in Int, s \in 0 .. C - 1 : y = C * q + s
  BY <1>1, DivMod
<1>3. q >= 0
  <2>1. q <= 0 - 1 => C * q <= 0 - C
    OBVIOUS
  <2> QED
    BY <1>1, <1>2, <2>1
<1>4. PICK x \in Int : x = C * q + r
  OBVIOUS
<1>5. C * q >= 0
  BY <1>3
<1>6. x \in Nat /\ x < n /\ n <= x + C
  BY <1>1, <1>2, <1>4, <1>5
<1>7. x % C = r
  BY <1>4, <1>6, ModUnique
<1> QED
  BY <1>4, <1>6, <1>7

(* Numbers of one remainder that are less than two laps apart are at most one apart*)
LEMMA OneLapApart ==
  ASSUME NEW C \in Nat \ {0}, NEW x \in Nat, NEW y \in Nat, x % C = y % C,
         y < x + C + C, x < y + C + C
  PROVE  y = x - C \/ y = x \/ y = x + C
<1>1. PICK p \in Int, r \in 0 .. C - 1 : r = x % C /\ x = C * p + r
  BY DivMod
<1>2. PICK q \in Int : y = C * q + r
  BY <1>1, DivMod
<1>3. PICK d \in Int : d = q - p
  OBVIOUS
<1>4. C * d = y - x
  BY <1>1, <1>2, <1>3
<1>5. d <= 1 /\ d >= 0 - 1
  <2>1. d >= 2 => C * d >= C + C
    OBVIOUS
  <2>2. d <= 0 - 2 => C * d <= 0 - C - C
    OBVIOUS
  <2> QED
    BY <1>4, <2>1, <2>2
<1>6. C * d = IF d = 0 THEN 0 ELSE IF d = 1 THEN C ELSE 0 - C
  BY <1>5
<1> QED
  BY <1>4, <1>6

(* A number less than a lap above its remainder is its remainder. *)
LEMMA WithinLap ==
  ASSUME NEW C \in Nat \ {0}, NEW x \in Nat, NEW q \in Int, NEW r \in 0 .. C - 1,
         x = C * q + r, x < r + C
  PROVE  x = r
<1>1. q >= 1 => C * q >= C
  OBVIOUS
<1>2. q <= 0 - 1 => C * q <= 0 - C
  OBVIOUS
<1>3. q = 0
  BY <1>1, <1>2
<1> QED
  BY <1>3

(* No more calls are on their way than there are threads to make them. *)
LEMMA CallsFew ==
  ASSUME TypeOK
  PROVE  /\ Cardinality(Storing) <= Cardinality(Producers)
         /\ Cardinality(Loading) <= Cardinality(Consumers)
         /\ Cardinality(Producers) \in Nat /\ Cardinality(Consumers) \in Nat
<1>1. Storing \subseteq Producers
  BY DEF Storing, At, TypeOK, Threads, ConsumerPCs
<1>2. Loading \subseteq Consumers
  BY DEF Loading, At, TypeOK, Threads, ProducerPCs
<1> QED
  BY <1>1, <1>2, PcQueueAssumption, FS_Subset, FS_CardinalityType

(* A store leaves the slots beyond it as they were. *)
LEMMA UnstoredStore ==
  ASSUME TypeOK, IndexesCount, UnstoredNull, NEW p \in Producers, EnqStore(p)
  PROVE  UnstoredNull'
<1>1. PICK n \in Nat : n = Len(stored)
  BY DEF TypeOK
<1>2. /\ pcq_buffer' = [pcq_buffer EXCEPT ![pcq_head] = elem[p]] /\ Len(stored)' = n + 1
      /\ Capacity \in Nat \ {0} /\ pcq_head = n % Capacity
  BY <1>1, PcQueueAssumption DEF EnqStore, TypeOK, IndexesCount
<1> SUFFICES ASSUME NEW i \in Slots, i >= n + 1 PROVE pcq_buffer'[i] = NULL
  BY <1>2 DEF UnstoredNull
<1>3. n \in 0 .. Capacity - 1 /\ n = Capacity * 0 + n
  BY <1>2 DEF Slots
<1>4. pcq_head = n
  BY <1>2, <1>3, ModUnique
<1>5. pcq_buffer'[i] = pcq_buffer[i]
  BY <1>2, <1>4 DEF TypeOK, Slots
<1> QED
  BY <1>1, <1>5 DEF UnstoredNull, Slots

(* The load itself: the slot holds the last store of its remainder, and RingBalance*)
(* says how far the stores may be ahead of the loads, or behind them.              *)
LEMMA LoadNearby ==
  ASSUME TypeOK, RingBalance, IndexesCount, LatestStores, UnstoredNull,
         NEW c \in Consumers, DeqLoad(c),
         Cardinality(Producers) <= Capacity, Cardinality(Consumers) <= Capacity
  PROVE  Explained(pcq_buffer[pcq_tail], Len(taken) + 1)
<1>1. PICK z \in 0 .. Capacity, s \in Nat, l \in Nat, n \in Nat, g \in Nat :
        /\ z = pcq_current_size /\ s = Cardinality(Storing) /\ l = Cardinality(Loading)
        /\ n = Len(stored) /\ g = Len(taken) /\ Capacity \in Nat \ {0}
  BY BalanceForm DEF TypeOK
<1>2. z + g + l = n + s /\ s <= Capacity /\ l <= Capacity /\ l >= 1
  <2>1. z + g + l = n + s
    BY <1>1 DEF RingBalance
  <2>2. s <= Capacity /\ l <= Capacity
    BY <1>1, CallsFew
  <2>3. Goes(c, "deq_load", "deq_signal") /\ c \in Threads
    BY DEF DeqLoad, GoTo, Goes, Threads
  <2>4. l >= 1
    BY <1>1, <2>3, CallsMove DEF LoadingPlaces
  <2> QED
    BY <2>1, <2>2, <2>4
<1>3. PICK q \in Int, r \in 0 .. Capacity - 1 : r = g % Capacity /\ g = Capacity * q + r
  BY <1>1, DivMod
<1>4. pcq_tail = r /\ r \in Slots
  BY <1>1, <1>3 DEF IndexesCount, Slots
<1>5. CASE n <= r
  <2>1. pcq_buffer[r] = NULL
    BY <1>1, <1>4, <1>5 DEF UnstoredNull
  <2>2. g < r + Capacity
    BY <1>1, <1>2, <1>5
  <2>3. g = r
    BY ZenonT(30), <1>1, <1>3, <2>2, WithinLap
  <2> QED
    BY <1>1, <1>4, <2>1, <2>3 DEF Explained
<1>6. CASE n > r
  <2>1. PICK p \in Int, x \in Nat : x = Capacity * p + r /\ x < n /\ n <= x + Capacity
                                    /\ x % Capacity = r
    BY <1>1, <1>6, LatestWith
  <2>2. x + 1 \in 1 .. n /\ n < (x + 1) + Capacity /\ (x + 1) - 1 = x
    BY <1>1, <2>1
  <2>3. pcq_buffer[r] = stored[x + 1]
    BY <1>1, <2>1, <2>2 DEF LatestStores
  <2>4. stored[x + 1] # NULL
    <3>1. stored \in Seq(Elements) /\ x + 1 \in DOMAIN stored
      BY <1>1, <2>2 DEF TypeOK
    <3>2. stored[x + 1] \in Elements
      BY <3>1
    <3> QED
      BY <3>2 DEF Elements, NULL
  <2>5. x < g + Capacity + Capacity /\ g < x + Capacity + Capacity
    BY SMTT(30), <1>1, <1>2, <2>1
  <2>6. x = g - Capacity \/ x = g \/ x = g + Capacity
    <3>1. g % Capacity = x % Capacity
      BY <1>3, <2>1
    <3> QED
      BY ZenonT(30), <1>1, <2>1, <2>5, <3>1, OneLapApart
  <2>7. x + 1 \in {g + 1 - Capacity, g + 1, g + 1 + Capacity}
    BY <1>1, <2>6
  <2> QED
    BY <1>1, <1>4, <2>2, <2>3, <2>4, <2>7 DEF Explained
<1> QED
  BY SMTT(30), <1>1, <1>3, <1>5, <1>6

(* Each load is explained when it happens, and stores only add to the explanations.*)
LEMMA NearbyNext ==
  TypeOK /\ RingBalance /\ IndexesCount /\ LatestStores /\ UnstoredNull /\ LoadsNearby
    /\ [Next]_vars => UnstoredNull' /\ LoadsNearby'
<1> SUFFICES ASSUME TypeOK, RingBalance, IndexesCount, LatestStores, UnstoredNull, LoadsNearby,
                    [Next]_vars
             PROVE  UnstoredNull' /\ LoadsNearby'
  OBVIOUS
<1>0. Len(stored) \in Nat /\ Len(taken) \in Nat /\ Capacity \in Nat \ {0}
  BY BalanceForm
<1>1. ASSUME NEW p \in Producers, EnqStore(p) PROVE UnstoredNull' /\ LoadsNearby'
  <2>1. /\ stored' = Append(stored, elem[p]) /\ Len(stored') = Len(stored) + 1
        /\ \A j \in 1 .. Len(stored) : stored'[j] = stored[j]
        /\ taken' = taken
    BY <1>1 DEF EnqStore, TypeOK
  <2>2. 1 .. Len(stored) \subseteq 1 .. Len(stored')
    BY <1>0, <2>1
  <2>3. ASSUME Cardinality(Producers) <= Capacity, Cardinality(Consumers) <= Capacity,
               NEW k \in 1 .. Len(taken), taken[k] # NULL
        PROVE  \E j \in {k - Capacity, k, k + Capacity} \cap (1 .. Len(stored')) :
                  taken[k] = stored'[j]
    <3>1. PICK j \in {k - Capacity, k, k + Capacity} \cap (1 .. Len(stored)) :
              taken[k] = stored[j]
      BY <2>3 DEF LoadsNearby
    <3>2. j \in 1 .. Len(stored') /\ stored'[j] = stored[j]
      BY <2>1, <2>2, <3>1
    <3> QED
      BY <3>1, <3>2
  <2>4. LoadsNearby'
    BY <2>1, <2>3 DEF LoadsNearby
  <2> QED
    BY <1>1, <2>4, UnstoredStore
<1>2. ASSUME NEW c \in Consumers, DeqLoad(c) PROVE UnstoredNull' /\ LoadsNearby'
  <2>1. /\ taken' = Append(taken, pcq_buffer[pcq_tail]) /\ Len(taken') = Len(taken) + 1
        /\ \A k \in 1 .. Len(taken) : taken'[k] = taken[k]
        /\ taken'[Len(taken) + 1] = pcq_buffer[pcq_tail]
        /\ UNCHANGED <<pcq_buffer, stored>>
    BY <1>2 DEF DeqLoad, TypeOK
  <2>2. UnstoredNull'
    BY <2>1 DEF UnstoredNull
  <2>3. ASSUME Cardinality(Producers) <= Capacity, Cardinality(Consumers) <= Capacity,
               NEW k \in 1 .. Len(taken')
        PROVE  Explained(taken'[k], k)
    <3>1. CASE k = Len(taken) + 1
      BY <1>2, <2>1, <2>3, <3>1, LoadNearby
    <3>2. CASE k # Len(taken) + 1
      <4>1. k \in 1 .. Len(taken)
        BY <1>0, <2>1, <3>2
      <4> QED
        BY <2>1, <2>3, <4>1 DEF LoadsNearby, Explained
    <3> QED
      BY <3>1, <3>2
  <2> QED
    BY <2>1, <2>2, <2>3 DEF LoadsNearby, Explained
<1>3. CASE UNCHANGED <<pcq_head, pcq_tail, pcq_buffer, stored, taken>>
  BY <1>3 DEF UnstoredNull, LoadsNearby
<1> QED
  BY <1>1, <1>2, <1>3, HistorySteps

(* A consumer that is handed the wrong element is handed one a lap off, and a slot *)
(* nobody stored into only in the first lap, for every capacity and as many threads*)
(* of each kind as there are slots.                                                *)
THEOREM LoadsALapOff == Spec => []LoadsNearby
<1>1. Init => UnstoredNull /\ LoadsNearby
  BY DEF Init, UnstoredNull, LoadsNearby
<1> QED
  BY <1>1, NearbyNext, IndexesAndStores, TypeCorrect, RingBalanced, PTL DEF Spec
================================================================================
