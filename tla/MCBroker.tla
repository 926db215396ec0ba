-------------------------------- MODULE MCBroker --------------------------------
(* The instances TLC checks. *)
EXTENDS Broker, TLC

Symmetry ==
    Permutations(Workers) \cup Permutations(Boxes) \cup Permutations(Subscribers)
        \cup Permutations(Creators) \cup Permutations(Removers)
================================================================================
