------------------------- MODULE PcQueueContractProofs --------------------------
(* PcQueue implements the safety part of BlockingBuffer, and SlotRing, for every   *)
(* number of threads and every capacity.                                           *)
EXTENDS PcQueueProofs

Phases == [t \in Threads |-> Phase(t)]

(* A step whose thread moves between two phases is a move of the buffer. *)
LEMMA PhasesMove ==
  ASSUME NEW t \in Threads, NEW from, NEW to, Phase(t) = from, Phase(t)' = to,
         \A u \in Threads : u # t => Phase(u)' = Phase(u)
  PROVE  Phases[t] = from /\ Phases' = [Phases EXCEPT ![t] = to]
BY DEF Phases

(* A step whose thread stays in its phase is none. *)
LEMMA PhasesStay ==
  ASSUME \A u \in Threads : Phase(u)' = Phase(u)
  PROVE  Phases' = Phases
BY DEF Phases

(* The steps of pcq_enqueue. *)
LEMMA EnqImplements ==
  ASSUME TypeOK, NEW p \in Producers, EnqCall(p) \/ EnqStep(p)
  PROVE  Contract!Next \/ UNCHANGED Contract!vars
<1> USE DEF Contract!Next, Contract!vars, Contract!Move, GoTo
<1>0. p \in Threads /\ p \in Producers \cup Consumers
  BY DEF Threads
<1>1. CASE EnqCall(p)
  <2>1. pc[p] = "idle" /\ pc' = [pc EXCEPT ![p] = "enq_lock"]
    BY <1>1 DEF EnqCall
  <2>2. Phase(p) = "idle" /\ Phase(p)' = "asking" /\ \A u \in Threads : u # p => Phase(u)' = Phase(u)
    BY <1>0, <2>1 DEF Phase, TypeOK
  <2>3. Phases[p] = "idle" /\ Phases' = [Phases EXCEPT ![p] = "asking"]
    BY <1>0, <2>2, PhasesMove
  <2>4. Contract!AskPut(p)
    BY <1>1, <2>3 DEF EnqCall, Contract!AskPut, Phases
  <2> QED
    BY <2>4
<1>2. CASE EnqReserve(p)
  <2>1. pc[p] = "enq_full" /\ pc' = [pc EXCEPT ![p] = "enq_head"]
    BY <1>2 DEF EnqReserve
  <2>2. Phase(p) = "asking" /\ Phase(p)' = "admitted" /\ \A u \in Threads : u # p => Phase(u)' = Phase(u)
    BY <1>0, <2>1 DEF Phase, TypeOK
  <2>3. Phases[p] = "asking" /\ Phases' = [Phases EXCEPT ![p] = "admitted"]
    BY <1>0, <2>2, PhasesMove
  <2>4. pcq_current_size < Capacity
    BY <1>2, PcQueueAssumption DEF EnqReserve, HasRoom, TypeOK
  <2>5. Contract!Put(p)
    BY <1>2, <2>3, <2>4 DEF EnqReserve, heap, Contract!Put, Phases
  <2> QED
    BY <2>5
<1>3. CASE EnqSignal(p)
  <2>1. PICK u \in Threads :
          /\ pc[u] = "deq_wait" \/ u = p
          /\ pc' = [pc EXCEPT ![p] = "idle",
                             ![u] = IF u = p THEN "idle" ELSE "deq_lock"]
    BY <1>0, <1>3 DEF EnqSignal, SignalPopper, Signal, TypeOK
  <2>2. pc[p] = "enq_signal" /\ UNCHANGED <<pcq_current_size, allocated>>
    BY <1>3 DEF EnqSignal, heap
  <2>3. Phase(p) = "admitted" /\ Phase(p)' = "idle" /\ \A v \in Threads : v # p => Phase(v)' = Phase(v)
    BY <1>0, <2>1, <2>2 DEF Phase, TypeOK
  <2>4. Phases[p] = "admitted" /\ Phases' = [Phases EXCEPT ![p] = "idle"]
    BY <1>0, <2>3, PhasesMove
  <2>5. Contract!Return(p)
    BY <2>2, <2>4 DEF Contract!Return, Phases
  <2> QED
    BY <1>0, <2>5
<1>4. CASE EnqLockSize(p) \/ EnqWait(p) \/ EnqLockHead(p) \/ EnqFreeOld(p) \/ EnqStore(p)
  <2>1. UNCHANGED <<pcq_current_size, allocated>>
    BY <1>4 DEF EnqLockSize, EnqWait, EnqLockHead, EnqFreeOld, EnqStore, heap
  <2>2. \A u \in Threads : Phase(u)' = Phase(u)
    BY <1>0, <1>4 DEF EnqLockSize, EnqWait, EnqLockHead, EnqFreeOld, EnqStore, Phase, TypeOK
  <2>3. Phases' = Phases
    BY <2>2, PhasesStay
  <2> QED
    BY <2>1, <2>3 DEF Phases
<1> QED
  BY <1>1, <1>2, <1>3, <1>4 DEF EnqStep

(* The steps of pcq_dequeue. *)
LEMMA DeqImplements ==
  ASSUME TypeOK, NEW c \in Consumers, DeqCall(c) \/ DeqStep(c)
  PROVE  Contract!Next \/ UNCHANGED Contract!vars
<1> USE DEF Contract!Next, Contract!vars, Contract!Move, GoTo
<1>0. c \in Threads /\ c \in Producers \cup Consumers
  BY DEF Threads
<1>1. CASE DeqCall(c)
  <2>1. pc[c] = "idle" /\ pc' = [pc EXCEPT ![c] = "deq_lock"]
    BY <1>1 DEF DeqCall
  <2>2. Phase(c) = "idle" /\ Phase(c)' = "asking" /\ \A u \in Threads : u # c => Phase(u)' = Phase(u)
    BY <1>0, <2>1 DEF Phase, TypeOK
  <2>3. Phases[c] = "idle" /\ Phases' = [Phases EXCEPT ![c] = "asking"]
    BY <1>0, <2>2, PhasesMove
  <2>4. Contract!AskGet(c)
    BY <1>1, <2>3 DEF DeqCall, heap, Contract!AskGet, Phases
  <2> QED
    BY <2>4
<1>2. CASE DeqTake(c)
  <2>1. pc[c] = "deq_empty" /\ pc' = [pc EXCEPT ![c] = "deq_tail"]
    BY <1>2 DEF DeqTake
  <2>2. Phase(c) = "asking" /\ Phase(c)' = "admitted" /\ \A u \in Threads : u # c => Phase(u)' = Phase(u)
    BY <1>0, <2>1 DEF Phase, TypeOK
  <2>3. Phases[c] = "asking" /\ Phases' = [Phases EXCEPT ![c] = "admitted"]
    BY <1>0, <2>2, PhasesMove
  <2>4. pcq_current_size > 0
    BY <1>2, PcQueueAssumption DEF DeqTake, TypeOK
  <2>5. Contract!Get(c)
    BY <1>2, <2>3, <2>4 DEF DeqTake, heap, Contract!Get, Phases
  <2> QED
    BY <2>5
<1>3. CASE DeqSignal(c)
  <2>1. PICK u \in Threads :
          /\ pc[u] = "enq_wait" \/ u = c
          /\ pc' = [pc EXCEPT ![c] = "idle",
                             ![u] = IF u = c THEN "idle" ELSE "enq_lock"]
    BY <1>0, <1>3 DEF DeqSignal, SignalPusher, Signal, TypeOK
  <2>2. pc[c] = "deq_signal" /\ UNCHANGED <<pcq_current_size, allocated>>
    BY <1>3 DEF DeqSignal, heap
  <2>3. Phase(c) = "admitted" /\ Phase(c)' = "idle" /\ \A v \in Threads : v # c => Phase(v)' = Phase(v)
    BY <1>0, <2>1, <2>2 DEF Phase, TypeOK
  <2>4. Phases[c] = "admitted" /\ Phases' = [Phases EXCEPT ![c] = "idle"]
    BY <1>0, <2>3, PhasesMove
  <2>5. Contract!Return(c)
    BY <2>2, <2>4 DEF Contract!Return, Phases
  <2> QED
    BY <1>0, <2>5
<1>4. CASE DeqLockSize(c) \/ DeqWait(c) \/ DeqLockTail(c) \/ DeqLoad(c)
  <2>1. UNCHANGED <<pcq_current_size, allocated>>
    BY <1>4 DEF DeqLockSize, DeqWait, DeqLockTail, DeqLoad, heap
  <2>2. \A u \in Threads : Phase(u)' = Phase(u)
    BY <1>0, <1>4 DEF DeqLockSize, DeqWait, DeqLockTail, DeqLoad, Phase, TypeOK
  <2>3. Phases' = Phases
    BY <2>2, PhasesStay
  <2> QED
    BY <2>1, <2>3 DEF Phases
<1> QED
  BY <1>1, <1>2, <1>3, <1>4 DEF DeqStep

(* Every step of the queue is a step of the blocking buffer or a stutter: a caller *)
(* is admitted to pcq_enqueue only into a free place, to pcq_dequeue only if there *)
(* is an element, and returns only after it was admitted.                          *)
THEOREM Implements == Spec => Contract!Spec
<1>1. Init => Contract!Init
  BY DEF Init, Contract!Init, Phase, Threads
<1>2. TypeOK /\ [Next]_vars => [Contract!Next]_(Contract!vars)
  <2> SUFFICES ASSUME TypeOK, [Next]_vars PROVE Contract!Next \/ UNCHANGED Contract!vars
    OBVIOUS
  <2>1. ASSUME NEW t \in Threads, SpuriousWakeup(t) PROVE UNCHANGED Contract!vars
    <3>1. UNCHANGED <<pcq_current_size, allocated>>
      BY <2>1 DEF SpuriousWakeup, heap
    <3>2. \A u \in Threads : Phase(u)' = Phase(u)
      BY <2>1 DEF SpuriousWakeup, GoTo, Phase, TypeOK
    <3> QED
      BY <3>1, <3>2, PhasesStay DEF Phases, Contract!vars
  <2>2. CASE UNCHANGED vars
    BY <2>2 DEF vars, heap, Phase, Contract!vars
  <2> QED
    BY <2>1, <2>2, EnqImplements, DeqImplements DEF Next
<1> QED
  BY <1>1, <1>2, TypeCorrect, PTL DEF Spec, Contract!Spec

--------------------------------------------------------------------------------
(* The slots *)

(* Where a call stands, as SlotRing sees it. *)
LEMMA SlotPlaces ==
  ASSUME TypeOK
  PROVE  /\ Storing = {t \in Producers : pc[t] \in {"enq_head", "enq_free", "enq_store"}}
         /\ Loading = {t \in Consumers : pc[t] \in {"deq_tail", "deq_load"}}
<1>1. \A t \in Threads : pc[t] \in {"enq_head", "enq_free", "enq_store"} => t \in Producers
  BY DEF TypeOK, Threads, ConsumerPCs
<1>2. \A t \in Threads : pc[t] \in {"deq_tail", "deq_load"} => t \in Consumers
  BY DEF TypeOK, Threads, ProducerPCs
<1> QED
  BY <1>1, <1>2 DEF Storing, Loading, At, Threads

(* The steps of pcq_enqueue. *)
LEMMA EnqSlots ==
  ASSUME TypeOK, TypeOK', NEW p \in Producers, EnqCall(p) \/ EnqStep(p)
  PROVE  SlotQueue!Next \/ UNCHANGED SlotQueue!vars
<1> DEFINE places == {"enq_head", "enq_free", "enq_store"}
           Given == [q \in Producers |-> elem[q]]
           Got == [c \in Consumers |-> elem[c]]
<1>0. p \in Threads /\ p \notin Consumers
  BY PcQueueAssumption DEF Threads
<1>1. /\ Storing = {t \in Producers : pc[t] \in places}
      /\ Loading = {t \in Consumers : pc[t] \in {"deq_tail", "deq_load"}}
      /\ Storing' = {t \in Producers : pc'[t] \in places}
      /\ Loading' = {t \in Consumers : pc'[t] \in {"deq_tail", "deq_load"}}
  <2>1. (Storing = {t \in Producers : pc[t] \in places}
          /\ Loading = {t \in Consumers : pc[t] \in {"deq_tail", "deq_load"}})'
    BY SlotPlaces, PTL
  <2> QED
    BY SlotPlaces, <2>1
<1>2. CASE EnqCall(p)
  <2>1. /\ pc[p] = "idle" /\ pc' = [pc EXCEPT ![p] = "enq_lock"]
        /\ elem' = [elem EXCEPT ![p] = allocated + 1]
        /\ UNCHANGED <<pcq_current_size, pcq_head, pcq_tail, pcq_buffer>>
    BY <1>2 DEF EnqCall, GoTo, ring
  <2>2. p \notin Storing /\ Storing' = Storing /\ Loading' = Loading
    BY <1>0, <1>1, <2>1 DEF TypeOK
  <2>3. Given' = [Given EXCEPT ![p] = allocated + 1] /\ Got' = Got
    BY <1>0, <2>1 DEF TypeOK, Threads
  <2>4. Given'[p] = allocated + 1 /\ allocated + 1 # NULL
    BY <2>3 DEF TypeOK, NULL
  <2>5. SlotQueue!Bring(p)
    BY <2>1, <2>2, <2>3, <2>4 DEF SlotQueue!Bring
  <2> QED
    BY <2>5 DEF SlotQueue!Next
<1>3. CASE EnqReserve(p)
  <2>1. /\ pc[p] = "enq_full" /\ pc' = [pc EXCEPT ![p] = "enq_head"]
        /\ pcq_current_size' = pcq_current_size + 1
        /\ UNCHANGED <<elem, pcq_head, pcq_tail, pcq_buffer>>
    BY <1>3 DEF EnqReserve, GoTo, ring
  <2>2. p \notin Storing /\ Storing' = Storing \cup {p} /\ Loading' = Loading
    BY <1>0, <1>1, <2>1 DEF TypeOK
  <2>3. Given[p] # NULL /\ Given' = Given /\ Got' = Got
    BY <1>0, <2>1 DEF TypeOK, Elements, NULL
  <2>4. pcq_current_size < Capacity
    BY <1>3, PcQueueAssumption DEF EnqReserve, HasRoom, TypeOK
  <2>5. SlotQueue!EnterStore(p)
    BY <2>1, <2>2, <2>3, <2>4 DEF SlotQueue!EnterStore
  <2> QED
    BY <2>5 DEF SlotQueue!Next
<1>4. CASE EnqStore(p)
  <2>1. /\ pc[p] = "enq_store" /\ pc' = [pc EXCEPT ![p] = "enq_signal"]
        /\ pcq_buffer' = [pcq_buffer EXCEPT ![pcq_head] = elem[p]]
        /\ pcq_head' = (pcq_head + 1) % Capacity
        /\ UNCHANGED <<elem, pcq_current_size, pcq_tail>>
    BY <1>4 DEF EnqStore, GoTo
  <2>2. p \in Storing /\ Storing' = Storing \ {p} /\ Loading' = Loading
    BY <1>0, <1>1, <2>1 DEF TypeOK
  <2>3. Given[p] = elem[p] /\ Given' = Given /\ Got' = Got
    BY <2>1
  <2>4. SlotQueue!Store(p)
    BY <2>1, <2>2, <2>3 DEF SlotQueue!Store
  <2> QED
    BY <2>4 DEF SlotQueue!Next
<1>5. CASE EnqSignal(p)
  <2>1. PICK u \in Threads :
          /\ pc[u] = "deq_wait" \/ u = p
          /\ pc' = [pc EXCEPT ![p] = "idle",
                             ![u] = IF u = p THEN "idle" ELSE "deq_lock"]
    BY <1>0, <1>5 DEF EnqSignal, SignalPopper, Signal, TypeOK
  <2>2. /\ pc[p] = "enq_signal"
        /\ UNCHANGED <<elem, pcq_current_size, pcq_head, pcq_tail, pcq_buffer>>
    BY <1>5 DEF EnqSignal, ring
  <2>3. \A t \in Threads :
          /\ pc'[t] \in places <=> pc[t] \in places
          /\ pc'[t] \in {"deq_tail", "deq_load"} <=> pc[t] \in {"deq_tail", "deq_load"}
    BY <1>0, <2>1, <2>2 DEF TypeOK
  <2>4. Storing' = Storing /\ Loading' = Loading
    BY <1>1, <2>3 DEF Threads
  <2> QED
    BY <2>2, <2>4 DEF SlotQueue!vars
<1>6. CASE EnqLockSize(p) \/ EnqWait(p) \/ EnqLockHead(p) \/ EnqFreeOld(p)
  <2>1. UNCHANGED <<elem, pcq_current_size, pcq_head, pcq_tail, pcq_buffer>>
    BY <1>6 DEF EnqLockSize, EnqWait, EnqLockHead, EnqFreeOld, ring
  <2>2. \A t \in Threads :
          /\ pc'[t] \in places <=> pc[t] \in places
          /\ pc'[t] \in {"deq_tail", "deq_load"} <=> pc[t] \in {"deq_tail", "deq_load"}
    BY <1>0, <1>6 DEF EnqLockSize, EnqWait, EnqLockHead, EnqFreeOld, GoTo, TypeOK
  <2>3. Storing' = Storing /\ Loading' = Loading
    BY <1>1, <2>2 DEF Threads
  <2> QED
    BY <2>1, <2>3 DEF SlotQueue!vars
<1> QED
  BY <1>2, <1>3, <1>4, <1>5, <1>6 DEF EnqStep

(* The steps of pcq_dequeue. *)
LEMMA DeqSlots ==
  ASSUME TypeOK, TypeOK', NEW c \in Consumers, DeqCall(c) \/ DeqStep(c)
  PROVE  SlotQueue!Next \/ UNCHANGED SlotQueue!vars
<1> DEFINE places == {"enq_head", "enq_free", "enq_store"}
           Given == [q \in Producers |-> elem[q]]
           Got == [d \in Consumers |-> elem[d]]
<1>0. c \in Threads /\ c \notin Producers
  BY PcQueueAssumption DEF Threads
<1>1. /\ Storing = {t \in Producers : pc[t] \in places}
      /\ Loading = {t \in Consumers : pc[t] \in {"deq_tail", "deq_load"}}
      /\ Storing' = {t \in Producers : pc'[t] \in places}
      /\ Loading' = {t \in Consumers : pc'[t] \in {"deq_tail", "deq_load"}}
  <2>1. (Storing = {t \in Producers : pc[t] \in places}
          /\ Loading = {t \in Consumers : pc[t] \in {"deq_tail", "deq_load"}})'
    BY SlotPlaces, PTL
  <2> QED
    BY SlotPlaces, <2>1
<1>2. CASE DeqCall(c)
  <2>1. /\ pc[c] = "idle" /\ pc' = [pc EXCEPT ![c] = "deq_lock"]
        /\ elem' = [elem EXCEPT ![c] = NULL]
        /\ UNCHANGED <<pcq_current_size, pcq_head, pcq_tail, pcq_buffer>>
    BY <1>2 DEF DeqCall, GoTo, ring
  <2>2. c \notin Loading /\ Storing' = Storing /\ Loading' = Loading
    BY <1>0, <1>1, <2>1 DEF TypeOK
  <2>3. Given' = Given /\ Got' = [Got EXCEPT ![c] = NULL]
    <3>1. \A t \in Threads : elem'[t] = IF t = c THEN NULL ELSE elem[t]
      BY <2>1 DEF TypeOK
    <3>2. Given' = Given
      BY <1>0, <3>1 DEF Threads
    <3>3. Got' = [Got EXCEPT ![c] = NULL]
      BY <1>0, <3>1 DEF Threads
    <3> QED
      BY <3>2, <3>3
  <2>4. SlotQueue!LetGo(c)
    BY <2>1, <2>2, <2>3 DEF SlotQueue!LetGo
  <2> QED
    BY <2>4 DEF SlotQueue!Next
<1>3. CASE DeqTake(c)
  <2>1. /\ pc[c] = "deq_empty" /\ pc' = [pc EXCEPT ![c] = "deq_tail"]
        /\ pcq_current_size' = pcq_current_size - 1
        /\ UNCHANGED <<elem, pcq_head, pcq_tail, pcq_buffer>>
    BY <1>3 DEF DeqTake, GoTo, ring
  <2>2. c \notin Loading /\ Loading' = Loading \cup {c} /\ Storing' = Storing
    BY <1>0, <1>1, <2>1 DEF TypeOK
  <2>3. pcq_current_size > 0
    BY <1>3, PcQueueAssumption DEF DeqTake, TypeOK
  <2>4. SlotQueue!EnterLoad(c)
    BY <2>1, <2>2, <2>3 DEF SlotQueue!EnterLoad
  <2> QED
    BY <2>4 DEF SlotQueue!Next
<1>4. CASE DeqLoad(c)
  <2>1. /\ pc[c] = "deq_load" /\ pc' = [pc EXCEPT ![c] = "deq_signal"]
        /\ elem' = [elem EXCEPT ![c] = pcq_buffer[pcq_tail]]
        /\ pcq_tail' = (pcq_tail + 1) % Capacity
        /\ UNCHANGED <<pcq_current_size, pcq_head, pcq_buffer>>
    BY <1>4 DEF DeqLoad, GoTo, NextTail
  <2>2. c \in Loading /\ Loading' = Loading \ {c} /\ Storing' = Storing
    BY <1>0, <1>1, <2>1 DEF TypeOK
  <2>3. Given' = Given /\ Got' = [Got EXCEPT ![c] = pcq_buffer[pcq_tail]]
    <3>1. \A t \in Threads : elem'[t] = IF t = c THEN pcq_buffer[pcq_tail] ELSE elem[t]
      BY <2>1 DEF TypeOK
    <3>2. Given' = Given
      BY <1>0, <3>1 DEF Threads
    <3>3. Got' = [Got EXCEPT ![c] = pcq_buffer[pcq_tail]]
      BY <1>0, <3>1 DEF Threads
    <3> QED
      BY <3>2, <3>3
  <2>4. SlotQueue!Load(c)
    BY <2>1, <2>2, <2>3 DEF SlotQueue!Load
  <2> QED
    BY <2>4 DEF SlotQueue!Next
<1>5. CASE DeqSignal(c)
  <2>1. PICK u \in Threads :
          /\ pc[u] = "enq_wait" \/ u = c
          /\ pc' = [pc EXCEPT ![c] = "idle",
                             ![u] = IF u = c THEN "idle" ELSE "enq_lock"]
    BY <1>0, <1>5 DEF DeqSignal, SignalPusher, Signal, TypeOK
  <2>2. /\ pc[c] = "deq_signal"
        /\ UNCHANGED <<elem, pcq_current_size, pcq_head, pcq_tail, pcq_buffer>>
    BY <1>5 DEF DeqSignal, ring
  <2>3. \A t \in Threads :
          /\ pc'[t] \in places <=> pc[t] \in places
          /\ pc'[t] \in {"deq_tail", "deq_load"} <=> pc[t] \in {"deq_tail", "deq_load"}
    BY <1>0, <2>1, <2>2 DEF TypeOK
  <2>4. Storing' = Storing /\ Loading' = Loading
    BY <1>1, <2>3 DEF Threads
  <2> QED
    BY <2>2, <2>4 DEF SlotQueue!vars
<1>6. CASE DeqLockSize(c) \/ DeqWait(c) \/ DeqLockTail(c)
  <2>1. UNCHANGED <<elem, pcq_current_size, pcq_head, pcq_tail, pcq_buffer>>
    BY <1>6 DEF DeqLockSize, DeqWait, DeqLockTail, ring
  <2>2. \A t \in Threads :
          /\ pc'[t] \in places <=> pc[t] \in places
          /\ pc'[t] \in {"deq_tail", "deq_load"} <=> pc[t] \in {"deq_tail", "deq_load"}
    BY <1>0, <1>6 DEF DeqLockSize, DeqWait, DeqLockTail, GoTo, TypeOK
  <2>3. Storing' = Storing /\ Loading' = Loading
    BY <1>1, <2>2 DEF Threads
  <2> QED
    BY <2>1, <2>3 DEF SlotQueue!vars
<1> QED
  BY <1>2, <1>3, <1>4, <1>5, <1>6 DEF DeqStep

(* A call of pcq_enqueue or pcq_dequeue reaches the slots in one step, after it was*)
(* counted; its locking, freeing, signalling and sleeping show in none.  What main *)
(* and the workers of Broker may expect of the queue rests on this alone.          *)
THEOREM SlotsImplement == Spec => SlotContract
<1>1. Init => SlotQueue!Init
  BY DEF Init, SlotQueue!Init, Slots, Storing, Loading, At, Threads
<1>2. TypeOK /\ TypeOK' /\ [Next]_vars => [SlotQueue!Next]_(SlotQueue!vars)
  <2> SUFFICES ASSUME TypeOK, TypeOK', [Next]_vars
               PROVE  SlotQueue!Next \/ UNCHANGED SlotQueue!vars
    OBVIOUS
  <2>1. ASSUME NEW t \in Threads, SpuriousWakeup(t) PROVE UNCHANGED SlotQueue!vars
    <3>1. UNCHANGED <<elem, pcq_current_size, pcq_head, pcq_tail, pcq_buffer>>
      BY <2>1 DEF SpuriousWakeup, ring
    <3>2. Storing' = Storing /\ Loading' = Loading
      BY <2>1 DEF SpuriousWakeup, GoTo, TypeOK, Storing, Loading, At
    <3> QED
      BY <3>1, <3>2 DEF SlotQueue!vars
  <2>2. CASE UNCHANGED vars
    BY <2>2 DEF vars, ring, Storing, Loading, At, SlotQueue!vars
  <2> QED
    BY <2>1, <2>2, EnqSlots, DeqSlots DEF Next
<1> QED
  BY <1>1, <1>2, TypeCorrect, PTL DEF Spec, SlotContract, SlotQueue!Spec
================================================================================
