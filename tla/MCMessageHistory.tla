-------------------------- MODULE MCMessageHistory --------------------------
(* Model-checking instances of MessageHistory. *)
EXTENDS MessageHistory

CONSTANTS c1, c2
=============================================================================
