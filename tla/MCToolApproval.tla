--------------------------- MODULE MCToolApproval ---------------------------
(* Three tool calls: all alike, or the third one different. *)
EXTENDS ToolApproval, TLC

CONSTANT c3

MCSame   == [c \in Calls |-> "s"]
MCMixed  == [c \in Calls |-> IF c = c3 THEN "other" ELSE "s"]
Symmetry == Permutations(Calls) \cup Permutations(Resolvers)
=============================================================================
