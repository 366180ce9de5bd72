---------------------------- MODULE MCDelegation ----------------------------
(* Model-checking instances of Delegation: tasks that nothing distinguishes. *)
EXTENDS Delegation, TLC

CONSTANTS t1, t2
Symmetry == Permutations({t1, t2})
=============================================================================
