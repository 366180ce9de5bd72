---------------------------- MODULE MCSessionRounds ---------------------------
(* Model-checking instances of SessionRounds. *)
EXTENDS SessionRounds, TLC

CONSTANTS r1, r2, r3, r4

Symmetry == Permutations(Runs)
=============================================================================
