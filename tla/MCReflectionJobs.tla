-------------------------- MODULE MCReflectionJobs --------------------------
(* Model-checking instances of ReflectionJobs. *)
EXTENDS ReflectionJobs

CONSTANTS o1, o2
=============================================================================
