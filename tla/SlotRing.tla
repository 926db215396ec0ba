-------------------------------- MODULE SlotRing --------------------------------
(* What pcq_enqueue and pcq_dequeue are to the threads that call them, once        *)
(* mutexes and sleeping are hidden: a counter that lets threads in, and a ring of  *)
(* slots stored into and loaded from later, in one step each.  A thread is let in  *)
(* before it reaches the slots, and others may reach them first.                   *)
EXTENDS Naturals

CONSTANTS Producers, Consumers, Capacity, Null

VARIABLES
    size,      \* the counter
    head,      \* next slot to store into
    tail,      \* next slot to load from
    slots,     \* what the slots hold
    storing,   \* producers let in that have not stored yet
    loading,   \* consumers let in that have not loaded yet
    given,     \* what each producer wants stored
    got        \* what each consumer's last load returned, Null when it has let go

vars == <<size, head, tail, slots, storing, loading, given, got>>

Init ==
    /\ size = 0 /\ head = 0 /\ tail = 0
    /\ slots = [i \in 0 .. Capacity - 1 |-> Null]
    /\ storing = {} /\ loading = {}
    /\ given = [p \in Producers |-> Null]
    /\ got = [c \in Consumers |-> Null]

(* A producer comes with something new; not while its last is still to be stored.  *)
Bring(p) ==
    /\ p \notin storing
    /\ given'[p] # Null /\ given' = [given EXCEPT ![p] = given'[p]]
    /\ UNCHANGED <<size, head, tail, slots, storing, loading, got>>

EnterStore(p) ==
    /\ p \notin storing /\ given[p] # Null /\ size < Capacity
    /\ size' = size + 1
    /\ storing' = storing \cup {p}
    /\ UNCHANGED <<head, tail, slots, loading, given, got>>

Store(p) ==
    /\ p \in storing
    /\ slots' = [slots EXCEPT ![head] = given[p]]
    /\ head' = (head + 1) % Capacity
    /\ storing' = storing \ {p}
    /\ UNCHANGED <<size, tail, loading, given, got>>

EnterLoad(c) ==
    /\ c \notin loading /\ size > 0
    /\ size' = size - 1
    /\ loading' = loading \cup {c}
    /\ UNCHANGED <<head, tail, slots, storing, given, got>>

Load(c) ==
    /\ c \in loading
    /\ got' = [got EXCEPT ![c] = slots[tail]]
    /\ tail' = (tail + 1) % Capacity
    /\ loading' = loading \ {c}
    /\ UNCHANGED <<size, head, slots, storing, given>>

LetGo(c) ==
    /\ c \notin loading
    /\ got' = [got EXCEPT ![c] = Null]
    /\ UNCHANGED <<size, head, tail, slots, storing, loading, given>>

Next ==
    \/ \E p \in Producers : Bring(p) \/ EnterStore(p) \/ Store(p)
    \/ \E c \in Consumers : EnterLoad(c) \/ Load(c) \/ LetGo(c)

Spec == Init /\ [][Next]_vars
================================================================================
