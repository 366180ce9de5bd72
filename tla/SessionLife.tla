---------------------------- MODULE SessionLife -----------------------------
(***************************************************************************)
(* What a session promises of its runs: each is begun once, none is begun  *)
(* while another one is at work or can still be resumed, and one that has  *)
(* ended is not brought back.  A session in which a call has acted on an   *)
(* outdated view gives no such promise any more.                           *)
(***************************************************************************)
CONSTANTS
  Runs, Sessions,
  None      \* no session

VARIABLES
  life,     \* each run's: "none", "active" (at work, or resumable), "ended"
  home,     \* the session of each run that has begun
  misled    \* sessions that promise nothing any more

Active(s) == {r \in Runs : home[r] = s /\ life[r] = "active"}

Init ==
  /\ life = [r \in Runs |-> "none"] /\ home \in [Runs -> Sessions \cup {None}]
  /\ misled = {}

Begin(r, s) ==
  /\ life[r] = "none"
  /\ Active(s) = {} \/ s \in misled'
  /\ life' = [life EXCEPT ![r] = "active"] /\ home' = [home EXCEPT ![r] = s]

\* A crash ends whatever it leaves nothing to resume of, a run about to begin among them.
End(R) == life' = [r \in Runs |-> IF r \in R THEN "ended" ELSE life[r]] /\ UNCHANGED home

Revive(r) ==
  /\ life[r] = "ended" /\ home[r] \in misled'
  /\ life' = [life EXCEPT ![r] = "active"] /\ UNCHANGED home

Next ==
  /\ misled \subseteq misled'
  /\ \/ \E r \in Runs : Revive(r) \/ \E s \in Sessions : Begin(r, s)
     \/ \E R \in SUBSET Runs : End(R)

Spec == Init /\ [][Next]_<<life, home, misled>>

\* What follows: at most one run of a session is active.
OneAtATime == \A s \in Sessions \ misled : \A q, r \in Active(s) : q = r
=============================================================================
