----------------------------- MODULE PcQueueProofs -----------------------------
(* Theorems about PcQueue, for every number of threads and every capacity. *)
EXTENDS PcQueue, FiniteSetTheorems, TLAPS

--------------------------------------------------------------------------------
(* Type correctness *)

(* The queue starts in a well-typed state. *)
LEMMA InitTypeOK == Init => TypeOK
<1> SUFFICES ASSUME Init PROVE TypeOK
  OBVIOUS
<1> USE PcQueueAssumption DEF Init, Threads, Slots, Locks, NULL, Elements
<1>1. pcq_current_size \in 0 .. Capacity /\ pcq_head \in Slots /\ pcq_tail \in Slots
  OBVIOUS
<1>2. stored \in Seq(Elements) /\ taken \in Seq(Elements \cup {NULL})
  OBVIOUS
<1>3. LocksHeld
  BY DEF LocksHeld, At
<1> QED
  BY <1>1, <1>2, <1>3 DEF TypeOK, ProducerPCs, ConsumerPCs

(* A step of a producer keeps the state well typed. *)
LEMMA EnqTypeOK ==
  ASSUME TypeOK, NEW p \in Producers, EnqCall(p) \/ EnqStep(p)
  PROVE  TypeOK'
<1> USE PcQueueAssumption DEF TypeOK, LocksHeld, At, Threads, Locks, NULL, Elements,
        ProducerPCs, ConsumerPCs, ring, heap, history
<1>1. CASE EnqCall(p)
  BY <1>1 DEF EnqCall, GoTo
<1>2. CASE EnqLockSize(p)
  BY <1>2 DEF EnqLockSize, GoTo, Acquire
<1>3. CASE EnqWait(p)
  BY <1>3 DEF EnqWait, GoTo, Release
<1>4. CASE EnqReserve(p)
  BY <1>4 DEF EnqReserve, HasRoom, GoTo, Release
<1>5. CASE EnqLockHead(p)
  BY <1>5 DEF EnqLockHead, GoTo, Acquire
<1>6. CASE EnqFreeOld(p)
  <2>1. pcq_buffer[pcq_head] \in Elements \cup {NULL}
    OBVIOUS
  <2>2. freed' \subseteq Elements
    BY <1>6, <2>1 DEF EnqFreeOld, OldElement
  <2>3. LocksHeld'
    BY <1>6 DEF EnqFreeOld, GoTo
  <2> QED
    BY <1>6, <2>2, <2>3 DEF EnqFreeOld, GoTo
<1>7. CASE EnqStore(p)
  <2>1. pcq_head' \in Slots
    BY <1>7 DEF EnqStore, Slots
  <2>2. pcq_buffer' \in [Slots -> Elements \cup {NULL}] /\ stored' \in Seq(Elements)
    BY <1>7 DEF EnqStore, GoTo
  <2>3. LocksHeld'
    BY <1>7 DEF EnqStore, GoTo, Release
  <2> QED
    BY <1>7, <2>1, <2>2, <2>3 DEF EnqStore, GoTo, Release
<1>8. CASE EnqSignal(p)
  <2>1. PICK u \in Threads :
          /\ pc[u] = "deq_wait" \/ u = p
          /\ pc' = [pc EXCEPT ![p] = "idle",
                             ![u] = IF u = p THEN "idle" ELSE "deq_lock"]
    BY <1>8 DEF EnqSignal, SignalPopper, Signal
  <2>2. u \in Consumers \/ u = p
    BY <2>1
  <2>3. /\ \A q \in Producers : pc'[q] \in ProducerPCs
        /\ \A d \in Consumers : pc'[d] \in ConsumerPCs
        /\ \A q \in Producers : pc'[q] # "idle" => pc[q] # "idle"
    BY <2>1, <2>2
  <2>4. LocksHeld'
    BY <1>8, <2>1 DEF EnqSignal
  <2> QED
    BY <1>8, <2>1, <2>3, <2>4 DEF EnqSignal
<1> QED
  BY <1>1, <1>2, <1>3, <1>4, <1>5, <1>6, <1>7, <1>8 DEF EnqStep

(* A step of a consumer keeps the state well typed. *)
LEMMA DeqTypeOK ==
  ASSUME TypeOK, NEW c \in Consumers, DeqCall(c) \/ DeqStep(c)
  PROVE  TypeOK'
<1> USE PcQueueAssumption DEF TypeOK, LocksHeld, At, Threads, Locks, NULL, Elements,
        ProducerPCs, ConsumerPCs, ring, heap, history
<1>1. CASE DeqCall(c)
  BY <1>1 DEF DeqCall, GoTo
<1>2. CASE DeqLockSize(c)
  BY <1>2 DEF DeqLockSize, GoTo, Acquire
<1>3. CASE DeqWait(c)
  BY <1>3 DEF DeqWait, GoTo, Release
<1>4. CASE DeqTake(c)
  BY <1>4 DEF DeqTake, GoTo, Release
<1>5. CASE DeqLockTail(c)
  BY <1>5 DEF DeqLockTail, GoTo, Acquire
<1>6. CASE DeqLoad(c)
  BY SMTT(30), <1>6 DEF DeqLoad, NextTail, GoTo, Release, Slots
<1>7. CASE DeqSignal(c)
  <2>1. PICK u \in Threads :
          /\ pc[u] = "enq_wait" \/ u = c
          /\ pc' = [pc EXCEPT ![c] = "idle",
                             ![u] = IF u = c THEN "idle" ELSE "enq_lock"]
    BY <1>7 DEF DeqSignal, SignalPusher, Signal
  <2>2. u \in Producers \/ u = c
    BY <2>1
  <2>3. /\ \A q \in Producers : pc'[q] \in ProducerPCs
        /\ \A d \in Consumers : pc'[d] \in ConsumerPCs
        /\ \A q \in Producers : pc'[q] # "idle" => pc[q] # "idle"
    BY <2>1, <2>2
  <2>4. LocksHeld'
    BY <1>7, <2>1 DEF DeqSignal
  <2> QED
    BY <1>7, <2>1, <2>3, <2>4 DEF DeqSignal
<1> QED
  BY <1>1, <1>2, <1>3, <1>4, <1>5, <1>6, <1>7 DEF DeqStep

(* Every step keeps the state well typed. *)
LEMMA NextTypeOK == TypeOK /\ [Next]_vars => TypeOK'
<1> SUFFICES ASSUME TypeOK, [Next]_vars PROVE TypeOK'
  OBVIOUS
<1>1. ASSUME NEW p \in Producers, EnqCall(p) \/ EnqStep(p) PROVE TypeOK'
  BY <1>1, EnqTypeOK
<1>2. ASSUME NEW c \in Consumers, DeqCall(c) \/ DeqStep(c) PROVE TypeOK'
  BY <1>2, DeqTypeOK
<1>3. ASSUME NEW t \in Threads, SpuriousWakeup(t) PROVE TypeOK'
  BY <1>3, PcQueueAssumption
     DEF SpuriousWakeup, GoTo, TypeOK, LocksHeld, At, Threads, Locks, ProducerPCs,
         ConsumerPCs, ring, heap, history
<1>4. CASE UNCHANGED vars
  BY <1>4 DEF vars, ring, heap, history, TypeOK, LocksHeld, At
<1> QED
  BY <1>1, <1>2, <1>3, <1>4 DEF Next

(* The counter never leaves 0 .. Capacity (neither loop lets it wrap around), the  *)
(* indexes stay inside the buffer, and a mutex is held exactly where the code      *)
(* between its lock and its unlock runs.                                           *)
THEOREM TypeCorrect == Spec => []TypeOK
<1>1. Init => TypeOK
  BY InitTypeOK
<1>2. TypeOK /\ [Next]_vars => TypeOK'
  BY NextTypeOK
<1> QED
  BY <1>1, <1>2, PTL DEF Spec

--------------------------------------------------------------------------------
(* Counting the threads at a set of places *)

(* There are finitely many threads, so any of these counts is a natural number. *)
LEMMA AtFinite ==
  ASSUME NEW S
  PROVE  IsFiniteSet(At(S)) /\ Cardinality(At(S)) \in Nat
<1>1. IsFiniteSet(Threads)
  BY PcQueueAssumption, FS_Union DEF Threads
<1>2. At(S) \in SUBSET Threads
  BY DEF At
<1> QED
  BY <1>1, <1>2, FS_Subset, FS_CardinalityType

(* What one thread going from "from" to "to" adds to the count of S. *)
Gain(S, from, to) == (IF to \in S THEN 1 ELSE 0) - (IF from \in S THEN 1 ELSE 0)

(* A thread that moves alone changes each count by its own gain. *)
LEMMA CountMove ==
  ASSUME TypeOK, NEW S, NEW t \in Threads, NEW to, pc' = [pc EXCEPT ![t] = to]
  PROVE  Cardinality(At(S)') = Cardinality(At(S)) + Gain(S, pc[t], to)
<1>1. At(S)' = IF to \in S THEN At(S) \cup {t} ELSE At(S) \ {t}
  BY DEF At, TypeOK
<1>2. t \in At(S) <=> pc[t] \in S
  BY DEF At
<1>3. IsFiniteSet(At(S)) /\ Cardinality(At(S)) \in Nat
  BY AtFinite
<1>4. /\ Cardinality(At(S) \cup {t})
          = IF t \in At(S) THEN Cardinality(At(S)) ELSE Cardinality(At(S)) + 1
      /\ Cardinality(At(S) \ {t})
          = IF t \in At(S) THEN Cardinality(At(S)) - 1 ELSE Cardinality(At(S))
  BY <1>3, FS_AddElement, FS_RemoveElement
<1>5. CASE to \in S
  <2>1. Cardinality(At(S)') = Cardinality(At(S) \cup {t})
    BY <1>1, <1>5
  <2> QED
    BY <1>2, <1>3, <1>4, <1>5, <2>1 DEF Gain
<1>6. CASE to \notin S
  <2>1. Cardinality(At(S)') = Cardinality(At(S) \ {t})
    BY <1>1, <1>6
  <2> QED
    BY <1>2, <1>3, <1>4, <1>6, <2>1 DEF Gain
<1> QED
  BY <1>5, <1>6

--------------------------------------------------------------------------------
(* Lost wakeups.  Both properties say that while a thread is asleep, the need for  *)
(* it is covered: at most the number of threads at F, which have a signal still to *)
(* send, plus the number at K, which are awake and about to test the counter.      *)

(* A step of one thread keeps the need covered if the thread falls asleep only     *)
(* when nothing is needed and the need otherwise grows by no more than the counts. *)
LEMMA MoveCovered ==
  ASSUME TypeOK, NEW asleep, NEW F, NEW K, NEW n \in Int, NEW m \in Int,
         At({asleep}) # {} => n <= Cardinality(At(F)) + Cardinality(At(K)),
         NEW t \in Threads, NEW to, pc' = [pc EXCEPT ![t] = to],
         to = asleep => m <= 0,
         to # asleep => m - n <= Gain(F, pc[t], to) + Gain(K, pc[t], to)
  PROVE  At({asleep})' # {} => m <= Cardinality(At(F)') + Cardinality(At(K)')
<1>1. /\ Cardinality(At(F)) \in Nat /\ Cardinality(At(F)') \in Nat
      /\ Cardinality(At(K)) \in Nat /\ Cardinality(At(K)') \in Nat
  <2>1. /\ IsFiniteSet(At(F)) /\ Cardinality(At(F)) \in Nat
        /\ IsFiniteSet(At(K)) /\ Cardinality(At(K)) \in Nat
    BY AtFinite
  <2>2. /\ At(F)' \in SUBSET (At(F) \cup {t})
        /\ At(K)' \in SUBSET (At(K) \cup {t})
    BY DEF At, TypeOK
  <2> QED
    BY <2>1, <2>2, FS_AddElement, FS_Subset, FS_CardinalityType
<1>2. /\ Cardinality(At(F)') = Cardinality(At(F)) + Gain(F, pc[t], to)
      /\ Cardinality(At(K)') = Cardinality(At(K)) + Gain(K, pc[t], to)
  BY CountMove
<1>3. /\ Gain(F, pc[t], to) \in Int
      /\ Gain(K, pc[t], to) \in Int
  BY DEF Gain
<1>4. CASE to = asleep
  BY <1>1, <1>4
<1>5. CASE to # asleep
  <2>1. At({asleep})' # {} => At({asleep}) # {}
    BY <1>5 DEF At, TypeOK
  <2>2. n <= Cardinality(At(F)) + Cardinality(At(K))
          => m <= Cardinality(At(F)') + Cardinality(At(K)')
    BY <1>1, <1>2, <1>3, <1>5
  <2> QED
    BY <2>1, <2>2
<1> QED
  BY <1>4, <1>5

(* A signal keeps the need covered: the thread that sends it leaves F, and either  *)
(* the thread it wakes enters K or nobody was asleep.                              *)
LEMMA SignalCovered ==
  ASSUME TypeOK, NEW asleep, NEW relock, NEW F, NEW K, NEW n \in Int,
         At({asleep}) # {} => n <= Cardinality(At(F)) + Cardinality(At(K)),
         NEW t \in Threads, Signal(t, asleep, relock),
         pc[t] \in F, pc[t] \notin K, pc[t] # asleep,
         asleep \notin F \cup K, relock \in K, relock \notin F,
         "idle" \notin F \cup K \cup {asleep}
  PROVE  At({asleep})' # {} => n <= Cardinality(At(F)') + Cardinality(At(K)')
<1>1. CASE {u \in Threads : pc[u] = asleep} = {}
  BY <1>1 DEF Signal, At, TypeOK
<1>2. CASE {u \in Threads : pc[u] = asleep} # {}
  <2>1. PICK u \in Threads : /\ pc[u] = asleep
                             /\ pc' = [pc EXCEPT ![t] = "idle", ![u] = relock]
    BY <1>2 DEF Signal
  <2>2. /\ At(F)' = At(F) \ {t} /\ t \in At(F)
        /\ At(K)' = At(K) \cup {u} /\ u \notin At(K)
    BY <2>1 DEF At, TypeOK
  <2>3. At({asleep}) # {}
    BY <2>1 DEF At
  <2>4. /\ IsFiniteSet(At(F)) /\ Cardinality(At(F)) \in Nat
        /\ IsFiniteSet(At(K)) /\ Cardinality(At(K)) \in Nat
    BY AtFinite
  <2>5. Cardinality(At(F)') = Cardinality(At(F)) - 1
    BY ZenonT(30), <2>2, <2>4, FS_RemoveElement
  <2>6. Cardinality(At(K)') = Cardinality(At(K)) + 1
    BY <2>2, <2>4, FS_AddElement
  <2>7. n <= Cardinality(At(F)) + Cardinality(At(K))
    BY <2>3
  <2>8. n <= Cardinality(At(F)') + Cardinality(At(K)')
    BY <2>4, <2>5, <2>6, <2>7
  <2> QED
    BY <2>8
<1> QED
  BY <1>1, <1>2


(* The threads with a signal to send, and those about to test, on either side. *)
PopperSignals == {"enq_head", "enq_free", "enq_store", "enq_signal"}
PopperTests == {"deq_lock", "deq_empty"}
PusherSignals == {"deq_tail", "deq_load", "deq_signal"}
PusherTests == {"enq_lock", "enq_full"}

(* What every step but the two signals does to the counter and the places: one     *)
(* thread moves, and the counter changes only where the code counts.               *)
Moves(t, from, to, change) ==
    /\ pc[t] = from
    /\ pc' = [pc EXCEPT ![t] = to]
    /\ pcq_current_size' = pcq_current_size + change

(* Every step is such a move, a signal, or leaves counter and places alone. *)
LEMMA StepForms ==
  ASSUME TypeOK, [Next]_vars
  PROVE  \/ \E t \in Threads :
              \/ Moves(t, "idle", "enq_lock", 0)
              \/ Moves(t, "enq_lock", "enq_full", 0)
              \/ Moves(t, "enq_full", "enq_wait", 0) /\ pcq_current_size = Capacity
              \/ Moves(t, "enq_full", "enq_head", 1)
              \/ Moves(t, "enq_head", "enq_free", 0)
              \/ Moves(t, "enq_free", "enq_store", 0)
              \/ Moves(t, "enq_store", "enq_signal", 0)
              \/ Moves(t, "enq_wait", "enq_lock", 0)
         \/ \E t \in Threads :
              \/ Moves(t, "idle", "deq_lock", 0)
              \/ Moves(t, "deq_lock", "deq_empty", 0)
              \/ Moves(t, "deq_empty", "deq_wait", 0) /\ pcq_current_size = 0
              \/ Moves(t, "deq_empty", "deq_tail", 0 - 1)
              \/ Moves(t, "deq_tail", "deq_load", 0)
              \/ Moves(t, "deq_load", "deq_signal", 0)
              \/ Moves(t, "deq_wait", "deq_lock", 0)
         \/ \E p \in Producers : EnqSignal(p)
         \/ \E c \in Consumers : DeqSignal(c)
         \/ UNCHANGED <<pcq_current_size, pc>>
<1> USE DEF Moves, GoTo
<1>1. ASSUME NEW p \in Producers, EnqCall(p) \/ EnqStep(p), ~ EnqSignal(p)
      PROVE  \/ Moves(p, "idle", "enq_lock", 0)
             \/ Moves(p, "enq_lock", "enq_full", 0)
             \/ Moves(p, "enq_full", "enq_wait", 0) /\ pcq_current_size = Capacity
             \/ Moves(p, "enq_full", "enq_head", 1)
             \/ Moves(p, "enq_head", "enq_free", 0)
             \/ Moves(p, "enq_free", "enq_store", 0)
             \/ Moves(p, "enq_store", "enq_signal", 0)
  BY <1>1 DEF TypeOK, EnqStep, EnqCall, EnqLockSize, EnqWait, EnqReserve, EnqLockHead,
              EnqFreeOld, EnqStore
<1>2. ASSUME NEW c \in Consumers, DeqCall(c) \/ DeqStep(c), ~ DeqSignal(c)
      PROVE  \/ Moves(c, "idle", "deq_lock", 0)
             \/ Moves(c, "deq_lock", "deq_empty", 0)
             \/ Moves(c, "deq_empty", "deq_wait", 0) /\ pcq_current_size = 0
             \/ Moves(c, "deq_empty", "deq_tail", 0 - 1)
             \/ Moves(c, "deq_tail", "deq_load", 0)
             \/ Moves(c, "deq_load", "deq_signal", 0)
  BY <1>2 DEF TypeOK, DeqStep, DeqCall, DeqLockSize, DeqWait, DeqTake, DeqLockTail, DeqLoad
<1>3. ASSUME NEW t \in Threads, SpuriousWakeup(t)
      PROVE  Moves(t, "enq_wait", "enq_lock", 0) \/ Moves(t, "deq_wait", "deq_lock", 0)
  BY <1>3 DEF TypeOK, SpuriousWakeup
<1>4. CASE UNCHANGED vars
  BY <1>4 DEF vars
<1>5. CASE Next
  <2>1. CASE \E p \in Producers : EnqCall(p) \/ EnqStep(p)
    BY <1>1, <2>1 DEF Threads
  <2>2. CASE \E c \in Consumers : DeqCall(c) \/ DeqStep(c)
    BY <1>2, <2>2 DEF Threads
  <2>3. CASE \E t \in Threads : SpuriousWakeup(t)
    BY <1>3, <2>3
  <2> QED
    BY <1>5, <2>1, <2>2, <2>3 DEF Next
<1> QED
  BY <1>4, <1>5

(* NoLostPopperWakeup in the form the counting lemmas use. *)
LEMMA PopperForm ==
  /\ NoLostPopperWakeup <=>
        (At({"deq_wait"}) # {} =>
            pcq_current_size <= Cardinality(At(PopperSignals)) + Cardinality(At(PopperTests)))
  /\ NoLostPopperWakeup' <=>
        (At({"deq_wait"})' # {} =>
            pcq_current_size' <= Cardinality(At(PopperSignals)') + Cardinality(At(PopperTests)'))
<1>1. Storing \cup At({"enq_signal"}) = At(PopperSignals)
  BY DEF Storing, At, PopperSignals
<1>2. (Storing \cup At({"enq_signal"}))' = At(PopperSignals)'
  BY DEF Storing, At, PopperSignals
<1> QED
  BY <1>1, <1>2 DEF NoLostPopperWakeup, PopperTests

(* One move of one thread keeps it. *)
LEMMA PopperMove ==
  ASSUME TypeOK, NoLostPopperWakeup, NEW t \in Threads, NEW from, NEW to,
         NEW change \in Int, Moves(t, from, to, change),
         to = "deq_wait" => pcq_current_size + change <= 0,
         to # "deq_wait" =>
            change <= Gain(PopperSignals, from, to) + Gain(PopperTests, from, to)
  PROVE  NoLostPopperWakeup'
<1>1. PICK n \in Int, m \in Int :
        /\ n = pcq_current_size /\ m = pcq_current_size'
        /\ m - n = change
        /\ m = pcq_current_size + change
  BY PcQueueAssumption DEF TypeOK, Moves
<1>2. pc[t] = from /\ pc' = [pc EXCEPT ![t] = to]
  BY DEF Moves
<1>3. At({"deq_wait"}) # {} => n <= Cardinality(At(PopperSignals)) + Cardinality(At(PopperTests))
  BY <1>1, PopperForm
<1>4. to # "deq_wait" => m - n <= Gain(PopperSignals, pc[t], to) + Gain(PopperTests, pc[t], to)
  BY <1>1, <1>2
<1>5. to = "deq_wait" => m <= 0
  BY <1>1
<1>6. At({"deq_wait"})' # {} => m <= Cardinality(At(PopperSignals)') + Cardinality(At(PopperTests)')
  BY <1>2, <1>3, <1>4, <1>5, MoveCovered
<1> QED
  BY <1>1, <1>6, PopperForm

(* NoLostPusherWakeup in the form the counting lemmas use. *)
LEMMA PusherForm ==
  /\ NoLostPusherWakeup <=>
        (At({"enq_wait"}) # {} =>
            (Capacity - pcq_current_size) <= Cardinality(At(PusherSignals)) + Cardinality(At(PusherTests)))
  /\ NoLostPusherWakeup' <=>
        (At({"enq_wait"})' # {} =>
            (Capacity - pcq_current_size)' <= Cardinality(At(PusherSignals)') + Cardinality(At(PusherTests)'))
<1>1. Loading \cup At({"deq_signal"}) = At(PusherSignals)
  BY DEF Loading, At, PusherSignals
<1>2. (Loading \cup At({"deq_signal"}))' = At(PusherSignals)'
  BY DEF Loading, At, PusherSignals
<1> QED
  BY <1>1, <1>2 DEF NoLostPusherWakeup, PusherTests

(* One move of one thread keeps it. *)
LEMMA PusherMove ==
  ASSUME TypeOK, NoLostPusherWakeup, NEW t \in Threads, NEW from, NEW to,
         NEW change \in Int, Moves(t, from, to, change),
         to = "enq_wait" => (Capacity - pcq_current_size) + (0 - change) <= 0,
         to # "enq_wait" =>
            0 - change <= Gain(PusherSignals, from, to) + Gain(PusherTests, from, to)
  PROVE  NoLostPusherWakeup'
<1>1. PICK n \in Int, m \in Int :
        /\ n = (Capacity - pcq_current_size) /\ m = (Capacity - pcq_current_size)'
        /\ m - n = 0 - change
        /\ m = (Capacity - pcq_current_size) + (0 - change)
  BY PcQueueAssumption DEF TypeOK, Moves
<1>2. pc[t] = from /\ pc' = [pc EXCEPT ![t] = to]
  BY DEF Moves
<1>3. At({"enq_wait"}) # {} => n <= Cardinality(At(PusherSignals)) + Cardinality(At(PusherTests))
  BY <1>1, PusherForm
<1>4. to # "enq_wait" => m - n <= Gain(PusherSignals, pc[t], to) + Gain(PusherTests, pc[t], to)
  BY <1>1, <1>2
<1>5. to = "enq_wait" => m <= 0
  BY <1>1
<1>6. At({"enq_wait"})' # {} => m <= Cardinality(At(PusherSignals)') + Cardinality(At(PusherTests)')
  BY <1>2, <1>3, <1>4, <1>5, MoveCovered
<1> QED
  BY <1>1, <1>6, PusherForm

(* Every step keeps it. *)
LEMMA PopperNext == TypeOK /\ NoLostPopperWakeup /\ [Next]_vars => NoLostPopperWakeup'
<1> SUFFICES ASSUME TypeOK, NoLostPopperWakeup, [Next]_vars PROVE NoLostPopperWakeup'
  OBVIOUS
<1> USE DEF PopperSignals, PopperTests, Gain
<1>0. pcq_current_size \in Nat /\ Capacity \in Nat
  BY PcQueueAssumption DEF TypeOK
<1>1. ASSUME NEW t \in Threads,
             \/ Moves(t, "idle", "enq_lock", 0)
             \/ Moves(t, "enq_lock", "enq_full", 0)
             \/ Moves(t, "enq_full", "enq_wait", 0) /\ pcq_current_size = Capacity
             \/ Moves(t, "enq_full", "enq_head", 1)
             \/ Moves(t, "enq_head", "enq_free", 0)
             \/ Moves(t, "enq_free", "enq_store", 0)
             \/ Moves(t, "enq_store", "enq_signal", 0)
             \/ Moves(t, "enq_wait", "enq_lock", 0)
      PROVE  NoLostPopperWakeup'
  <2>1. CASE Moves(t, "idle", "enq_lock", 0)
    BY <1>0, <2>1, PopperMove
  <2>2. CASE Moves(t, "enq_lock", "enq_full", 0)
    BY <1>0, <2>2, PopperMove
  <2>3. CASE Moves(t, "enq_full", "enq_wait", 0) /\ pcq_current_size = Capacity
    BY <1>0, <2>3, PopperMove
  <2>4. CASE Moves(t, "enq_full", "enq_head", 1)
    BY <1>0, <2>4, PopperMove
  <2>5. CASE Moves(t, "enq_head", "enq_free", 0)
    BY <1>0, <2>5, PopperMove
  <2>6. CASE Moves(t, "enq_free", "enq_store", 0)
    BY <1>0, <2>6, PopperMove
  <2>7. CASE Moves(t, "enq_store", "enq_signal", 0)
    BY <1>0, <2>7, PopperMove
  <2>8. CASE Moves(t, "enq_wait", "enq_lock", 0)
    BY <1>0, <2>8, PopperMove
  <2> QED
    BY <1>1, <2>1, <2>2, <2>3, <2>4, <2>5, <2>6, <2>7, <2>8
<1>2. ASSUME NEW t \in Threads,
             \/ Moves(t, "idle", "deq_lock", 0)
             \/ Moves(t, "deq_lock", "deq_empty", 0)
             \/ Moves(t, "deq_empty", "deq_wait", 0) /\ pcq_current_size = 0
             \/ Moves(t, "deq_empty", "deq_tail", 0 - 1)
             \/ Moves(t, "deq_tail", "deq_load", 0)
             \/ Moves(t, "deq_load", "deq_signal", 0)
             \/ Moves(t, "deq_wait", "deq_lock", 0)
      PROVE  NoLostPopperWakeup'
  <2>1. CASE Moves(t, "idle", "deq_lock", 0)
    BY <1>0, <2>1, PopperMove
  <2>2. CASE Moves(t, "deq_lock", "deq_empty", 0)
    BY <1>0, <2>2, PopperMove
  <2>3. CASE Moves(t, "deq_empty", "deq_wait", 0) /\ pcq_current_size = 0
    BY <1>0, <2>3, PopperMove
  <2>4. CASE Moves(t, "deq_empty", "deq_tail", 0 - 1)
    BY <1>0, <2>4, PopperMove
  <2>5. CASE Moves(t, "deq_tail", "deq_load", 0)
    BY <1>0, <2>5, PopperMove
  <2>6. CASE Moves(t, "deq_load", "deq_signal", 0)
    BY <1>0, <2>6, PopperMove
  <2>7. CASE Moves(t, "deq_wait", "deq_lock", 0)
    BY <1>0, <2>7, PopperMove
  <2> QED
    BY <1>2, <2>1, <2>2, <2>3, <2>4, <2>5, <2>6, <2>7
<1>3. ASSUME NEW t \in Producers, EnqSignal(t) PROVE NoLostPopperWakeup'
  <2>1. /\ t \in Threads /\ pc[t] = "enq_signal" /\ Signal(t, "deq_wait", "deq_lock")
        /\ pcq_current_size' = pcq_current_size
    BY <1>3 DEF EnqSignal, SignalPopper, Threads
  <2>2. PICK n \in Int : n = pcq_current_size /\ n = pcq_current_size'
    BY <1>0, <2>1
  <2>3. At({"deq_wait"}) # {} => n <= Cardinality(At(PopperSignals)) + Cardinality(At(PopperTests))
    BY <2>2, PopperForm
  <2>4. At({"deq_wait"})' # {} => n <= Cardinality(At(PopperSignals)') + Cardinality(At(PopperTests)')
    BY <2>1, <2>3, SignalCovered
  <2> QED
    BY <2>2, <2>4, PopperForm
<1>4. ASSUME NEW t \in Consumers, DeqSignal(t) PROVE NoLostPopperWakeup'
  <2>1. PICK u \in Threads :
          /\ pc[u] = "enq_wait" \/ u = t
          /\ pc' = [pc EXCEPT ![t] = "idle",
                             ![u] = IF u = t THEN "idle" ELSE "enq_lock"]
    BY <1>4 DEF DeqSignal, SignalPusher, Signal, TypeOK, Threads
  <2>2. pc[t] = "deq_signal" /\ UNCHANGED pcq_current_size
    BY <1>4 DEF DeqSignal
  <2>3. /\ At({"deq_wait"})' = At({"deq_wait"})
        /\ At(PopperSignals)' = At(PopperSignals)
        /\ At(PopperTests)' = At(PopperTests)
    BY <2>1, <2>2 DEF At, TypeOK
  <2> QED
    BY <2>2, <2>3, PopperForm
<1>5. CASE UNCHANGED <<pcq_current_size, pc>>
  BY <1>5 DEF NoLostPopperWakeup, Storing, At
<1> QED
  BY <1>1, <1>2, <1>3, <1>4, <1>5, StepForms

(* No consumer sleeps on a signal that came too early or went to another thread:   *)
(* pcq_dequeue may test the counter under the mutex while pcq_enqueue signals      *)
(* without it.                                                                     *)
THEOREM PopperWakeup == Spec => []NoLostPopperWakeup
<1>1. Init => NoLostPopperWakeup
  BY DEF Init, NoLostPopperWakeup, At
<1>2. TypeOK /\ NoLostPopperWakeup /\ [Next]_vars => NoLostPopperWakeup'
  BY PopperNext
<1> QED
  BY <1>1, <1>2, TypeCorrect, PTL DEF Spec

(* Every step keeps it. *)
LEMMA PusherNext == TypeOK /\ NoLostPusherWakeup /\ [Next]_vars => NoLostPusherWakeup'
<1> SUFFICES ASSUME TypeOK, NoLostPusherWakeup, [Next]_vars PROVE NoLostPusherWakeup'
  OBVIOUS
<1> USE DEF PusherSignals, PusherTests, Gain
<1>0. pcq_current_size \in Nat /\ Capacity \in Nat
  BY PcQueueAssumption DEF TypeOK
<1>1. ASSUME NEW t \in Threads,
             \/ Moves(t, "idle", "enq_lock", 0)
             \/ Moves(t, "enq_lock", "enq_full", 0)
             \/ Moves(t, "enq_full", "enq_wait", 0) /\ pcq_current_size = Capacity
             \/ Moves(t, "enq_full", "enq_head", 1)
             \/ Moves(t, "enq_head", "enq_free", 0)
             \/ Moves(t, "enq_free", "enq_store", 0)
             \/ Moves(t, "enq_store", "enq_signal", 0)
             \/ Moves(t, "enq_wait", "enq_lock", 0)
      PROVE  NoLostPusherWakeup'
  <2>1. CASE Moves(t, "idle", "enq_lock", 0)
    BY <1>0, <2>1, PusherMove
  <2>2. CASE Moves(t, "enq_lock", "enq_full", 0)
    BY <1>0, <2>2, PusherMove
  <2>3. CASE Moves(t, "enq_full", "enq_wait", 0) /\ pcq_current_size = Capacity
    BY <1>0, <2>3, PusherMove
  <2>4. CASE Moves(t, "enq_full", "enq_head", 1)
    BY <1>0, <2>4, PusherMove
  <2>5. CASE Moves(t, "enq_head", "enq_free", 0)
    BY <1>0, <2>5, PusherMove
  <2>6. CASE Moves(t, "enq_free", "enq_store", 0)
    BY <1>0, <2>6, PusherMove
  <2>7. CASE Moves(t, "enq_store", "enq_signal", 0)
    BY <1>0, <2>7, PusherMove
  <2>8. CASE Moves(t, "enq_wait", "enq_lock", 0)
    BY <1>0, <2>8, PusherMove
  <2> QED
    BY <1>1, <2>1, <2>2, <2>3, <2>4, <2>5, <2>6, <2>7, <2>8
<1>2. ASSUME NEW t \in Threads,
             \/ Moves(t, "idle", "deq_lock", 0)
             \/ Moves(t, "deq_lock", "deq_empty", 0)
             \/ Moves(t, "deq_empty", "deq_wait", 0) /\ pcq_current_size = 0
             \/ Moves(t, "deq_empty", "deq_tail", 0 - 1)
             \/ Moves(t, "deq_tail", "deq_load", 0)
             \/ Moves(t, "deq_load", "deq_signal", 0)
             \/ Moves(t, "deq_wait", "deq_lock", 0)
      PROVE  NoLostPusherWakeup'
  <2>1. CASE Moves(t, "idle", "deq_lock", 0)
    BY <1>0, <2>1, PusherMove
  <2>2. CASE Moves(t, "deq_lock", "deq_empty", 0)
    BY <1>0, <2>2, PusherMove
  <2>3. CASE Moves(t, "deq_empty", "deq_wait", 0) /\ pcq_current_size = 0
    BY <1>0, <2>3, PusherMove
  <2>4. CASE Moves(t, "deq_empty", "deq_tail", 0 - 1)
    BY <1>0, <2>4, PusherMove
  <2>5. CASE Moves(t, "deq_tail", "deq_load", 0)
    BY <1>0, <2>5, PusherMove
  <2>6. CASE Moves(t, "deq_load", "deq_signal", 0)
    BY <1>0, <2>6, PusherMove
  <2>7. CASE Moves(t, "deq_wait", "deq_lock", 0)
    BY <1>0, <2>7, PusherMove
  <2> QED
    BY <1>2, <2>1, <2>2, <2>3, <2>4, <2>5, <2>6, <2>7
<1>3. ASSUME NEW t \in Consumers, DeqSignal(t) PROVE NoLostPusherWakeup'
  <2>1. /\ t \in Threads /\ pc[t] = "deq_signal" /\ Signal(t, "enq_wait", "enq_lock")
        /\ pcq_current_size' = pcq_current_size
    BY <1>3 DEF DeqSignal, SignalPusher, Threads
  <2>2. PICK n \in Int : n = (Capacity - pcq_current_size) /\ n = (Capacity - pcq_current_size)'
    BY <1>0, <2>1
  <2>3. At({"enq_wait"}) # {} => n <= Cardinality(At(PusherSignals)) + Cardinality(At(PusherTests))
    BY <2>2, PusherForm
  <2>4. At({"enq_wait"})' # {} => n <= Cardinality(At(PusherSignals)') + Cardinality(At(PusherTests)')
    BY <2>1, <2>3, SignalCovered
  <2> QED
    BY <2>2, <2>4, PusherForm
<1>4. ASSUME NEW t \in Producers, EnqSignal(t) PROVE NoLostPusherWakeup'
  <2>1. PICK u \in Threads :
          /\ pc[u] = "deq_wait" \/ u = t
          /\ pc' = [pc EXCEPT ![t] = "idle",
                             ![u] = IF u = t THEN "idle" ELSE "deq_lock"]
    BY <1>4 DEF EnqSignal, SignalPopper, Signal, TypeOK, Threads
  <2>2. pc[t] = "enq_signal" /\ UNCHANGED pcq_current_size
    BY <1>4 DEF EnqSignal
  <2>3. /\ At({"enq_wait"})' = At({"enq_wait"})
        /\ At(PusherSignals)' = At(PusherSignals)
        /\ At(PusherTests)' = At(PusherTests)
    BY <2>1, <2>2 DEF At, TypeOK
  <2> QED
    BY <2>2, <2>3, PusherForm
<1>5. CASE UNCHANGED <<pcq_current_size, pc>>
  BY <1>5 DEF NoLostPusherWakeup, Loading, At
<1> QED
  BY <1>1, <1>2, <1>3, <1>4, <1>5, StepForms

(* No producer sleeps in a queue that has space which nobody is going to announce. *)
THEOREM PusherWakeup == Spec => []NoLostPusherWakeup
<1>1. Init => NoLostPusherWakeup
  BY DEF Init, NoLostPusherWakeup, At
<1>2. TypeOK /\ NoLostPusherWakeup /\ [Next]_vars => NoLostPusherWakeup'
  BY PusherNext
<1> QED
  BY <1>1, <1>2, TypeCorrect, PTL DEF Spec

================================================================================
