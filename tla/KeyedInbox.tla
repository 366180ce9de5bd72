----------------------------- MODULE KeyedInbox -----------------------------
(***************************************************************************)
(* What trigger ingestion promises a sender: an event that was answered as *)
(* accepted is in the log for good, and all answers to deliveries of one   *)
(* key name the same event, whatever crashes in between.                   *)
(***************************************************************************)
CONSTANTS
  Entries,  \* records of an id, a trigger and a key
  NoKey     \* the key of a delivery that asks for no deduplication

VARIABLES
  stored,   \* entries that are in the log
  told      \* entries a sender was told of

SameSlot(e, f) == e.key # NoKey /\ e.trigger = f.trigger /\ e.key = f.key

Init == stored = {} /\ told = {}

Store(e) ==
  /\ \A f \in stored : e.id # f.id /\ ~SameSlot(e, f)
  /\ stored' = stored \cup {e}
  /\ UNCHANGED told

Tell(e) ==
  /\ e \in stored
  /\ told' = told \cup {e}
  /\ UNCHANGED stored

Next == \E e \in Entries : Store(e) \/ Tell(e)

Spec == Init /\ [][Next]_<<stored, told>>
=============================================================================
