----------------------------- MODULE BlockingBuffer -----------------------------
(* What producer-consumer.h promises of blocking: a caller of pcq_enqueue sleeps   *)
(* while the queue is full, a caller of pcq_dequeue while it is empty, and neither *)
(* sleeps on when it could go.  Which caller goes first is left open, as the       *)
(* condition variables leave it.                                                   *)
EXTENDS Naturals

CONSTANTS Producers, Consumers, Capacity, MaxCalls

VARIABLES
    count,   \* elements the queue counts
    phase,   \* of each thread: "idle", "asking" to be admitted, "admitted"
    calls    \* calls of pcq_enqueue so far

vars == <<count, phase, calls>>

Init ==
    /\ count = 0
    /\ phase = [t \in Producers \cup Consumers |-> "idle"]
    /\ calls = 0

Move(t, from, to) == phase[t] = from /\ phase' = [phase EXCEPT ![t] = to]

AskPut(p) ==
    /\ calls < MaxCalls
    /\ calls' = calls + 1
    /\ Move(p, "idle", "asking")
    /\ UNCHANGED count

AskGet(c) == Move(c, "idle", "asking") /\ UNCHANGED <<count, calls>>

Put(p) ==
    /\ count < Capacity
    /\ count' = count + 1
    /\ Move(p, "asking", "admitted")
    /\ UNCHANGED calls

Get(c) ==
    /\ count > 0
    /\ count' = count - 1
    /\ Move(c, "asking", "admitted")
    /\ UNCHANGED calls

Return(t) == Move(t, "admitted", "idle") /\ UNCHANGED <<count, calls>>

Next ==
    \/ \E p \in Producers : AskPut(p) \/ Put(p)
    \/ \E c \in Consumers : AskGet(c) \/ Get(c)
    \/ \E t \in Producers \cup Consumers : Return(t)

Spec == Init /\ [][Next]_vars

(* While there is space some asking producer is admitted, while there is an        *)
(* element some asking consumer is, and an admitted call returns.                  *)
FairSpec ==
    /\ Spec
    /\ WF_vars(\E p \in Producers : Put(p))
    /\ WF_vars(\E c \in Consumers : Get(c))
    /\ \A t \in Producers \cup Consumers : WF_vars(Return(t))
================================================================================
