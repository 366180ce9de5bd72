-------------------------- MODULE ApprovalConsent ---------------------------
(***************************************************************************)
(* What tool approval promises: the action of a guarded tool call starts   *)
(* once, under a ticket that a user had approved by then, whatever happens *)
(* to the process, the run and the other calls in the meantime.            *)
(***************************************************************************)
CONSTANTS
  Calls,  \* tool calls; tickets bear their ids
  None

VARIABLES
  granted,  \* tickets a user approved
  under     \* the ticket under which the action of each call started, or None

Init == granted = {} /\ under = [c \in Calls |-> None]

Grant(k) == granted' = granted \cup {k} /\ UNCHANGED under

Act(c, k) ==
  /\ under[c] = None /\ k \in granted
  /\ under' = [under EXCEPT ![c] = k]
  /\ UNCHANGED granted

Next == \E k \in Calls : Grant(k) \/ \E c \in Calls : Act(c, k)

Spec == Init /\ [][Next]_<<granted, under>>
=============================================================================
