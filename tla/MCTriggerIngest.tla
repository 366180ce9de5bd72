-------------------------- MODULE MCTriggerIngest ---------------------------
(* Model-checking instances of TriggerIngest. *)
EXTENDS TriggerIngest, TLC

CONSTANTS d1, d2, d3

Symmetry == Permutations(Deliveries) \cup Permutations(Threads)
=============================================================================
