-------------------------------- MODULE PcQueue --------------------------------
(* The blocking producer-consumer queue of producer-consumer/producer-consumer.c.  *)
(*                                                                                 *)
(* Threads call pcq_enqueue or pcq_dequeue on one shared queue.  A call is cut at  *)
(* every point where another thread can observe or disturb it: taking a mutex,     *)
(* sleeping on a condition variable, freeing, storing or loading a slot, and       *)
(* signalling, which the code does with no mutex held.                             *)
(*                                                                                 *)
(* The return codes of the pthread calls are compared with -1, which none of them  *)
(* returns, so those error paths are never taken and are left out; a failing       *)
(* calloc returns before the queue is touched, which changes nothing modelled.     *)
EXTENDS Naturals, Sequences, FiniteSets

CONSTANTS
    Producers,    \* threads that call pcq_enqueue
    Consumers,    \* threads that call pcq_dequeue
    Capacity,     \* the capacity given to pcq_create
    NoThread,     \* the owner of a mutex nobody holds
    MaxCalls,     \* bound on the calls of pcq_enqueue
    MaxSpurious   \* bound on the spurious returns of pthread_cond_wait

ASSUME PcQueueAssumption ==
    /\ IsFiniteSet(Producers) /\ IsFiniteSet(Consumers)
    /\ Producers \cap Consumers = {}
    /\ NoThread \notin Producers \cup Consumers
    /\ Capacity \in Nat \ {0}
    /\ MaxCalls \in Nat
    /\ MaxSpurious \in Nat

VARIABLES
    pcq_current_size,  \* the counter both loops test
    pcq_head,          \* next slot to store into
    pcq_tail,          \* next slot to load from
    pcq_buffer,        \* the slots
    holder,            \* who holds each of the three mutexes
    pc,                \* where each thread is
    elem,              \* the element pointer of each thread's current call
    allocated,         \* number of elements allocated so far
    freed,             \* the elements the queue itself has freed
    stored,            \* history: the elements in the order they were stored
    taken,             \* history: what the loads returned, in order
    spurious           \* number of spurious wakeups so far

ring == <<pcq_head, pcq_tail, pcq_buffer>>
heap == <<allocated, freed>>
history == <<stored, taken>>
vars == <<pcq_current_size, ring, holder, pc, elem, heap, history, spurious>>

Threads == Producers \cup Consumers
Slots == 0 .. Capacity - 1
Locks == {"current_size", "head", "tail"}

(* Elements are named by the order of their allocation; NULL is the content of a   *)
(* slot nobody stored into (fresh heap memory reads as zero) and is freed by no-op.*)
NULL == 0
Elements == 1 .. MaxCalls

ProducerPCs == {"idle", "enq_lock", "enq_full", "enq_wait", "enq_head",
                "enq_free", "enq_store", "enq_signal"}
ConsumerPCs == {"idle", "deq_lock", "deq_empty", "deq_wait", "deq_tail",
                "deq_load", "deq_signal"}

(* pcq_create *)
Init ==
    /\ pcq_current_size = 0
    /\ pcq_head = 0
    /\ pcq_tail = 0
    /\ pcq_buffer = [i \in Slots |-> NULL]
    /\ holder = [l \in Locks |-> NoThread]
    /\ pc = [t \in Threads |-> "idle"]
    /\ elem = [t \in Threads |-> NULL]
    /\ allocated = 0
    /\ freed = {}
    /\ stored = <<>>
    /\ taken = <<>>
    /\ spurious = 0

--------------------------------------------------------------------------------
(* pthread primitives *)

GoTo(t, from, to) == pc[t] = from /\ pc' = [pc EXCEPT ![t] = to]

Acquire(t, l) == holder[l] = NoThread /\ holder' = [holder EXCEPT ![l] = t]

Release(l) == holder' = [holder EXCEPT ![l] = NoThread]

(* pthread_cond_signal: wakes one of the threads asleep at "waiting", if any; it   *)
(* still has to take the mutex back.                                               *)
Signal(t, waiting, relock) ==
    LET sleepers == {u \in Threads : pc[u] = waiting}
    IN  IF sleepers = {}
        THEN pc' = [pc EXCEPT ![t] = "idle"]
        ELSE \E u \in sleepers : pc' = [pc EXCEPT ![t] = "idle", ![u] = relock]

(* Mutant: only the call that finds the queue one short of full signals. *)
SignalPusherOnceFull(t) ==
    IF pcq_current_size + 1 = Capacity
    THEN Signal(t, "enq_wait", "enq_lock")
    ELSE pc' = [pc EXCEPT ![t] = "idle"]

(* Mutant: nobody is signalled. *)
SignalNobody(t) == pc' = [pc EXCEPT ![t] = "idle"]

(* Mutant, in the place of SignalPopper: the condition variables are mixed up. *)
SignalPusher(t) == Signal(t, "enq_wait", "enq_lock")
SignalPopper(t) == Signal(t, "deq_wait", "deq_lock")

--------------------------------------------------------------------------------
(* pcq_enqueue *)

(* The call: the request is copied into a fresh element. *)
EnqCall(p) ==
    /\ allocated < MaxCalls
    /\ GoTo(p, "idle", "enq_lock")
    /\ allocated' = allocated + 1
    /\ elem' = [elem EXCEPT ![p] = allocated + 1]
    /\ UNCHANGED <<pcq_current_size, ring, holder, freed, history, spurious>>

EnqLockSize(p) ==
    /\ GoTo(p, "enq_lock", "enq_full")
    /\ Acquire(p, "current_size")
    /\ UNCHANGED <<pcq_current_size, ring, elem, heap, history, spurious>>

(* The queue is full: sleep, giving the mutex up in the same step. *)
EnqWait(p) ==
    /\ pcq_current_size = Capacity
    /\ GoTo(p, "enq_full", "enq_wait")
    /\ Release("current_size")
    /\ UNCHANGED <<pcq_current_size, ring, elem, heap, history, spurious>>

(* Mutant: the test for a full queue is lost. *)
HasRoomAlways == TRUE
HasRoom == pcq_current_size # Capacity

(* There is space: it is counted as used before anything is stored. *)
EnqReserve(p) ==
    /\ HasRoom
    /\ GoTo(p, "enq_full", "enq_head")
    /\ pcq_current_size' = pcq_current_size + 1
    /\ Release("current_size")
    /\ UNCHANGED <<ring, elem, heap, history, spurious>>

(* Mutant: the slot is freed before the head's mutex is taken. *)
EnqLockHeadLater(p) ==
    /\ GoTo(p, "enq_head", "enq_free")
    /\ UNCHANGED <<pcq_current_size, ring, holder, elem, heap, history, spurious>>

EnqLockHead(p) ==
    /\ GoTo(p, "enq_head", "enq_free")
    /\ Acquire(p, "head")
    /\ UNCHANGED <<pcq_current_size, ring, elem, heap, history, spurious>>

OldElement == {pcq_buffer[pcq_head]}

(* The element a previous lap left in the slot is freed. *)
EnqFreeOld(p) ==
    /\ GoTo(p, "enq_free", "enq_store")
    /\ freed' = freed \cup (OldElement \ {NULL})
    /\ UNCHANGED <<pcq_current_size, ring, holder, elem, allocated, history, spurious>>

EnqStore(p) ==
    /\ GoTo(p, "enq_store", "enq_signal")
    /\ pcq_buffer' = [pcq_buffer EXCEPT ![pcq_head] = elem[p]]
    /\ pcq_head' = (pcq_head + 1) % Capacity
    /\ Release("head")
    /\ stored' = Append(stored, elem[p])
    /\ UNCHANGED <<pcq_current_size, pcq_tail, elem, heap, taken, spurious>>

EnqSignal(p) ==
    /\ pc[p] = "enq_signal"
    /\ SignalPopper(p)
    /\ UNCHANGED <<pcq_current_size, ring, holder, elem, heap, history, spurious>>

--------------------------------------------------------------------------------
(* pcq_dequeue *)

DeqCall(c) ==
    /\ GoTo(c, "idle", "deq_lock")
    /\ elem' = [elem EXCEPT ![c] = NULL]
    /\ UNCHANGED <<pcq_current_size, ring, holder, heap, history, spurious>>

DeqLockSize(c) ==
    /\ GoTo(c, "deq_lock", "deq_empty")
    /\ Acquire(c, "current_size")
    /\ UNCHANGED <<pcq_current_size, ring, elem, heap, history, spurious>>

DeqWait(c) ==
    /\ pcq_current_size = 0
    /\ GoTo(c, "deq_empty", "deq_wait")
    /\ Release("current_size")
    /\ UNCHANGED <<pcq_current_size, ring, elem, heap, history, spurious>>

(* There is an element: its place is given back before it is loaded. *)
DeqTake(c) ==
    /\ pcq_current_size # 0
    /\ GoTo(c, "deq_empty", "deq_tail")
    /\ pcq_current_size' = pcq_current_size - 1
    /\ Release("current_size")
    /\ UNCHANGED <<ring, elem, heap, history, spurious>>

DeqLockTail(c) ==
    /\ GoTo(c, "deq_tail", "deq_load")
    /\ Acquire(c, "tail")
    /\ UNCHANGED <<pcq_current_size, ring, elem, heap, history, spurious>>

(* Mutant: the tail is not advanced. *)
NextTailSame == pcq_tail
NextTail == (pcq_tail + 1) % Capacity

DeqLoad(c) ==
    /\ GoTo(c, "deq_load", "deq_signal")
    /\ elem' = [elem EXCEPT ![c] = pcq_buffer[pcq_tail]]
    /\ pcq_tail' = NextTail
    /\ Release("tail")
    /\ taken' = Append(taken, pcq_buffer[pcq_tail])
    /\ UNCHANGED <<pcq_current_size, pcq_head, pcq_buffer, heap, stored, spurious>>

DeqSignal(c) ==
    /\ pc[c] = "deq_signal"
    /\ SignalPusher(c)
    /\ UNCHANGED <<pcq_current_size, ring, holder, elem, heap, history, spurious>>

--------------------------------------------------------------------------------
(* pthread_cond_wait may return with no signal; the loops then test again. *)
SpuriousWakeup(t) ==
    /\ spurious < MaxSpurious
    /\ spurious' = spurious + 1
    /\ \/ GoTo(t, "enq_wait", "enq_lock")
       \/ GoTo(t, "deq_wait", "deq_lock")
    /\ UNCHANGED <<pcq_current_size, ring, holder, elem, heap, history>>

(* The steps of a call already made. *)
EnqStep(p) ==
    \/ EnqLockSize(p) \/ EnqWait(p) \/ EnqReserve(p) \/ EnqLockHead(p)
    \/ EnqFreeOld(p) \/ EnqStore(p) \/ EnqSignal(p)

DeqStep(c) ==
    \/ DeqLockSize(c) \/ DeqWait(c) \/ DeqTake(c) \/ DeqLockTail(c)
    \/ DeqLoad(c) \/ DeqSignal(c)

Next ==
    \/ \E p \in Producers : EnqCall(p) \/ EnqStep(p)
    \/ \E c \in Consumers : DeqCall(c) \/ DeqStep(c)
    \/ \E t \in Threads : SpuriousWakeup(t)

Spec == Init /\ [][Next]_vars

(* A thread inside a call keeps running unless it is asleep or blocked on a mutex. *)
(* Nothing forces a thread to make a call, and nothing forces a spurious wakeup.   *)
Fairness ==
    /\ \A p \in Producers : WF_vars(EnqStep(p))
    /\ \A c \in Consumers : WF_vars(DeqStep(c))

FairSpec == Spec /\ Fairness

--------------------------------------------------------------------------------
(* Where the threads of a call are, for the properties *)

At(places) == {t \in Threads : pc[t] \in places}

Storing == At({"enq_head", "enq_free", "enq_store"})    \* counted, not yet stored
Loading == At({"deq_tail", "deq_load"})                 \* discounted, not yet loaded

(* Type correctness, and who holds which mutex where. *)
LocksHeld ==
    /\ holder["current_size"] \in At({"enq_full", "deq_empty"}) \cup {NoThread}
    /\ holder["head"] \in At({"enq_free", "enq_store"}) \cup {NoThread}
    /\ holder["tail"] \in At({"deq_load"}) \cup {NoThread}
    /\ \A t \in Threads :
        /\ pc[t] \in {"enq_full", "deq_empty"} => holder["current_size"] = t
        /\ pc[t] \in {"enq_free", "enq_store"} => holder["head"] = t
        /\ pc[t] = "deq_load" => holder["tail"] = t

(* The counter stays within 0 .. Capacity and the indexes inside the ring, in       *)
(* spite of unsigned arithmetic, and the mutexes are held as LocksHeld says.       *)
TypeOK ==
    /\ pcq_current_size \in 0 .. Capacity
    /\ pcq_head \in Slots
    /\ pcq_tail \in Slots
    /\ pcq_buffer \in [Slots -> Elements \cup {NULL}]
    /\ holder \in [Locks -> Threads \cup {NoThread}]
    /\ pc \in [Threads -> ProducerPCs \cup ConsumerPCs]
    /\ \A p \in Producers : pc[p] \in ProducerPCs
    /\ \A c \in Consumers : pc[c] \in ConsumerPCs
    /\ elem \in [Threads -> Elements \cup {NULL}]
    /\ \A p \in Producers : pc[p] # "idle" => elem[p] \in Elements
    /\ allocated \in 0 .. MaxCalls
    /\ freed \subseteq Elements
    /\ stored \in Seq(Elements)
    /\ taken \in Seq(Elements \cup {NULL})
    /\ spurious \in 0 .. MaxSpurious
    /\ LocksHeld

(* No wakeup of a consumer is lost although the signal is sent with no mutex held: *)
(* while a consumer sleeps in pcq_dequeue, every counted element is accounted for  *)
(* by a producer that still has its signal to send or by a consumer already on its *)
(* way back to the test.                                                           *)
NoLostPopperWakeup ==
    At({"deq_wait"}) # {} =>
        pcq_current_size <= Cardinality(Storing \cup At({"enq_signal"}))
                            + Cardinality(At({"deq_lock", "deq_empty"}))

(* The same for producers asleep in pcq_enqueue and the free places. *)
NoLostPusherWakeup ==
    At({"enq_wait"}) # {} =>
        Capacity - pcq_current_size <= Cardinality(Loading \cup At({"deq_signal"}))
                                       + Cardinality(At({"enq_lock", "enq_full"}))

(* The size counter and the two indexes, guarded by three different mutexes, agree *)
(* once the calls between counting and moving an index are allowed for, over any   *)
(* number of laps of the ring.                                                     *)
RingBalance ==
    /\ pcq_current_size + Len(taken) + Cardinality(Loading)
         = Len(stored) + Cardinality(Storing)
    /\ (pcq_tail + pcq_current_size + Cardinality(Loading)) % Capacity
         = (pcq_head + Cardinality(Storing)) % Capacity

(* Whatever the races delivered, the ring itself recovers from them: when no call  *)
(* is between the counter and its slot, the counted slots hold the latest stored   *)
(* elements, in the order they were stored.                                        *)
QuiescentContents ==
    Storing \cup Loading = {} =>
        \A i \in 0 .. pcq_current_size - 1 :
            pcq_buffer[(pcq_tail + i) % Capacity]
                = stored[Len(stored) - pcq_current_size + i + 1]

(* What a load returns instead of its own element is off by a lap and never more,  *)
(* if there are no more threads of a kind than slots: the element of a lap before, *)
(* if the producer is late, of the lap after, if the consumer is, and NULL only in *)
(* the first lap.                                                                  *)
LoadsNearby ==
    Cardinality(Producers) <= Capacity /\ Cardinality(Consumers) <= Capacity =>
        \A k \in 1 .. Len(taken) :
            IF taken[k] = NULL
            THEN k <= Capacity
            ELSE \E j \in {k - Capacity, k, k + Capacity} \cap (1 .. Len(stored)) :
                    taken[k] = stored[j]

(* pcq_enqueue frees what the slot at the head held one lap ago.  However many     *)
(* producers have come to that slot, the queue never frees one element twice.      *)
NoDoubleFree ==
    \A p \in Producers : pc[p] = "enq_free" => pcq_buffer[pcq_head] \notin freed

(* What producer-consumer.h says: elements go in at the front and come out at the  *)
(* back, so the loads return a prefix of what was stored.                          *)
FifoDelivery ==
    /\ Len(taken) <= Len(stored)
    /\ taken = SubSeq(stored, 1, Len(taken))

--------------------------------------------------------------------------------
(* What the two functions promise of blocking, whatever they deliver: a bounded    *)
(* counter that admits callers (BlockingBuffer), seen through the size counter.    *)
Phase(t) ==
    CASE pc[t] = "idle" -> "idle"
      [] pc[t] \in {"enq_lock", "enq_full", "enq_wait",
                    "deq_lock", "deq_empty", "deq_wait"} -> "asking"
      [] OTHER -> "admitted"

Contract == INSTANCE BlockingBuffer WITH
    count <- pcq_current_size,
    phase <- [t \in Threads |-> Phase(t)],
    calls <- allocated

(* pcq_enqueue and pcq_dequeue block and let go as BlockingBuffer says.            *)
BlockingContract == Contract!FairSpec

(* What they do to the slots, with mutexes, sleeping and signals hidden: SlotRing. *)
SlotQueue == INSTANCE SlotRing WITH
    Null <- NULL,
    size <- pcq_current_size, head <- pcq_head, tail <- pcq_tail, slots <- pcq_buffer,
    storing <- Storing, loading <- Loading,
    given <- [p \in Producers |-> elem[p]],
    got <- [c \in Consumers |-> elem[c]]

(* Whatever the threads at either end do, a call reaches the slots once, after it  *)
(* was counted and before it returns, and sees or changes one slot only; its       *)
(* locking, freeing, signalling and sleeping show in none.                         *)
SlotContract == SlotQueue!Spec
================================================================================
