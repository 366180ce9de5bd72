--------------------------- MODULE MCConfigReload ---------------------------
(* A model-checking instance of ConfigReload; the constants are in the .cfg. *)
EXTENDS ConfigReload, TLC

Symmetry == Permutations(Threads)
=============================================================================
