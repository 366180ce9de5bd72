---------------------------- MODULE MCSessionStore ----------------------------
(* Model-checking instances of SessionStore. *)
EXTENDS SessionStore, TLC

CONSTANTS r1, r2, coord, sub, d1

Symmetry == Permutations(Runs)
=============================================================================
