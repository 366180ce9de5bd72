----------------------------- MODULE MCRunEvents -----------------------------
(* A model-checking instance of RunEvents; the constants are in the .cfg. *)
EXTENDS RunEvents

=============================================================================
