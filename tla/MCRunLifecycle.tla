--------------------------- MODULE MCRunLifecycle ---------------------------
(* Model values and symmetry for RunLifecycle. *)
EXTENDS RunLifecycle, TLC

Symmetry == Permutations(Runs) \cup Permutations(Threads) \cup Permutations(Clients)

=============================================================================
