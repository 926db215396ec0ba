------------------------------- MODULE MCPcQueue -------------------------------
(* The instance TLC checks. *)
EXTENDS PcQueue, TLC

ThreadSymmetry == Permutations(Producers) \cup Permutations(Consumers)
================================================================================
