----------------------------- MODULE SessionRuns ------------------------------
(* What the two models of a session have in common. *)
CONSTANTS
  Runs,   \* runs of the session
  None    \* no row, no run

ASSUME NoneAssumption == None \notin Runs
=============================================================================
