------------------------------- MODULE BoxService -------------------------------
(* What the broker does for managers that create and remove boxes: each request    *)
(* takes effect once, at one moment between the asking and the telling, and the    *)
(* manager is told what its own request came to.                                   *)
(*                                                                                 *)
(* Two things are as the code has them and not as one would wish: a removal is     *)
(* always told "error", and a manager whose broker dies may be told "ok".          *)
EXTENDS Naturals, FiniteSets

CONSTANTS Creators, Removers, Boxes, MaxBoxes

VARIABLES
    wanted,  \* the box of each manager's request, {} before it asks
    boxes,   \* the boxes that exist
    effect,  \* what each request came to, "none" before it takes effect
    told,    \* the managers that have been told
    down     \* the broker is dead

vars == <<wanted, boxes, effect, told, down>>
Managers == Creators \cup Removers

Init ==
    /\ wanted = [c \in Managers |-> {}]
    /\ boxes = {}
    /\ effect = [c \in Managers |-> "none"]
    /\ told = {}
    /\ down = FALSE

Ask(c, b) ==
    /\ ~down /\ wanted[c] = {}
    /\ wanted' = [wanted EXCEPT ![c] = {b}]
    /\ UNCHANGED <<boxes, effect, told, down>>

(* The request of c is due. *)
Due(c) == ~down /\ wanted[c] # {} /\ effect[c] = "none"

Create(c) ==
    /\ Due(c)
    /\ wanted[c] \subseteq boxes \/ Cardinality(boxes) < MaxBoxes
    /\ boxes' = boxes \cup wanted[c]
    /\ effect' = [effect EXCEPT ![c] = "ok"]
    /\ UNCHANGED <<wanted, told, down>>

(* No room for the box. *)
CreateFails(c) ==
    /\ Due(c)
    /\ ~(wanted[c] \subseteq boxes) /\ Cardinality(boxes) = MaxBoxes
    /\ effect' = [effect EXCEPT ![c] = "error"]
    /\ UNCHANGED <<wanted, boxes, told, down>>

Remove(c) ==
    /\ Due(c)
    /\ boxes' = boxes \ wanted[c]
    /\ effect' = [effect EXCEPT ![c] = "error"]
    /\ UNCHANGED <<wanted, told, down>>

Tell(c) ==
    /\ effect[c] # "none" /\ c \notin told
    /\ told' = told \cup {c}
    /\ UNCHANGED <<wanted, boxes, effect, down>>

Die == ~down /\ down' = TRUE /\ UNCHANGED <<wanted, boxes, effect, told>>

(* The end of the pipe reads as the code 0. *)
TellOfDeath(c) ==
    /\ down /\ wanted[c] # {} /\ c \notin told
    /\ told' = told \cup {c}
    /\ effect' = [effect EXCEPT ![c] = "ok"]
    /\ UNCHANGED <<wanted, boxes, down>>

Next ==
    \/ \E c \in Managers : Tell(c) \/ TellOfDeath(c) \/ \E b \in Boxes : Ask(c, b)
    \/ \E c \in Creators : Create(c) \/ CreateFails(c)
    \/ \E c \in Removers : Remove(c)
    \/ Die

Spec == Init /\ [][Next]_vars
================================================================================
