--------------------------- MODULE TriggerIngest ----------------------------
(***************************************************************************)
(* Triggers: TriggerService and TriggerRepository (triggers/service.py,    *)
(* triggers/repository.py) behind their routes.  Definitions are edited by *)
(* threads of the pool, deliveries are taken by coroutines of the event    *)
(* loop without an await, all over one SQLite connection: a statement of   *)
(* one may fall between any two statements of another, and a commit ends   *)
(* the transaction that all of them share.                                 *)
(***************************************************************************)
EXTENDS Naturals, FiniteSets

CONSTANTS
  Triggers,    \* trigger ids
  Names,
  Keys,        \* event keys
  Deliveries,  \* requests of senders, redeliveries included; each stores at most one event
  Threads,
  PolicySets,  \* the lists of policies in use: sets of "none", "url_token" and "signed"
  MaxTokens,   \* bound: webhook tokens ever made
  MaxEdits,    \* bound: creations and edits
  None

ASSUME NoneAssumption     == None \notin Triggers \cup Keys \cup Deliveries
ASSUME PoliciesAssumption == PolicySets \subseteq SUBSET {"none", "url_token", "signed"}
ASSUME BoundsAssumption   == MaxTokens \in Nat /\ MaxEdits \in Nat

VARIABLES
  triggers,  \* the triggers table as the connection shows it
  events,    \* trigger_events as the connection shows it
  saved,     \* both tables as committed: what a crash leaves
  tx,        \* the connection's transaction: none, writing, or failed (begun by
             \* a statement that violated a constraint, nothing written since)
  edit,      \* what each thread does
  ingest,    \* what the event loop does
  answer,    \* what each delivery was answered
  minted,    \* tokens made so far
  edits      \* edits begun, for MaxEdits

tables == <<triggers, events>>
db     == <<tables, saved, tx>>
vars   == <<db, edit, ingest, answer, minted, edits>>

Tokens == 1..MaxTokens
Rows   == [name : Names, status : {"enabled", "disabled"}, policies : PolicySets, token : Tokens]
Events == [id : Deliveries, trigger : Triggers, key : Keys \cup {None},
           status : {"received", "rejected_auth"}]
EditState   == [pc : {"read", "written"}, trigger : Triggers, seen : Rows, row : Rows]
               \cup {[pc |-> "idle"]}
IngestState == [pc : {"judged", "inserted", "committed", "duplicate"}, event : Events]
               \cup {[pc |-> "idle"]}
Accepted    == [kind : {"received", "duplicate"}, event : Events]
Answers     == Accepted \cup [kind : {"pending", "refused", "rejected", "lost"}]

TypeOK ==
  /\ triggers \in [Triggers -> Rows \cup {None}]
  /\ events \subseteq Events
  /\ saved \in [triggers : [Triggers -> Rows \cup {None}], events : SUBSET Events]
  /\ tx \in {"none", "writing", "failed"}
  /\ edit \in [Threads -> EditState]
  /\ ingest \in IngestState
  /\ answer \in [Deliveries -> Answers]
  /\ minted \in 0..MaxTokens /\ edits \in 0..MaxEdits

Idle == [pc |-> "idle"]

Init ==
  /\ triggers = [t \in Triggers |-> None]
  /\ events = {}
  /\ saved = [triggers |-> triggers, events |-> events]
  /\ tx = "none"
  /\ edit = [w \in Threads |-> Idle]
  /\ ingest = Idle
  /\ answer = [d \in Deliveries |-> [kind |-> "pending"]]
  /\ minted = 0 /\ edits = 0

(***************************************************************************)
(* Seeded faults: none of them is used below.                              *)
(***************************************************************************)
CommitForgotten         == UNCHANGED <<saved, tx>>
KeyTakenWhenReceived(e) == \E f \in events : /\ f.trigger = e.trigger /\ f.key = e.key
                                             /\ f.status = "received"

(***************************************************************************)
(* The connection.                                                         *)
(***************************************************************************)
\* commit(): everything written on the connection, by whomever.
Commit == saved' = [triggers |-> triggers, events |-> events] /\ tx' = "none"

\* sqlite3 begins a transaction before a statement and does not end it when the
\* statement violates a constraint; nobody rolls back.
Violated == tx' = (IF tx = "none" THEN "failed" ELSE tx) /\ UNCHANGED <<tables, saved>>

\* UNIQUE on the name and on the token of a trigger.
Clash(t, row) == \E u \in Triggers \ {t} :
                   /\ triggers[u] # None
                   /\ triggers[u].name = row.name \/ triggers[u].token = row.token

\* uq_trigger_events_key.
KeyTaken(e) == e.key # None /\ \E f \in events : f.trigger = e.trigger /\ f.key = e.key

(***************************************************************************)
(* Editing, in a thread of the pool.                                       *)
(***************************************************************************)
EditIs(w, e) == edit' = [edit EXCEPT ![w] = e]
Written(t, seen, row) == [pc |-> "written", trigger |-> t, seen |-> seen, row |-> row]

\* An INSERT or UPDATE of a whole row, or its refusal.
WriteRow(w, t, seen, row) ==
  IF Clash(t, row) THEN Violated /\ EditIs(w, Idle)
  ELSE /\ triggers' = [triggers EXCEPT ![t] = row]
       /\ tx' = "writing"
       /\ EditIs(w, Written(t, seen, row))
       /\ UNCHANGED <<events, saved>>

\* create_trigger: the token is given by the client or made here.
Create(w) ==
  /\ edit[w].pc = "idle" /\ edits < MaxEdits
  /\ edits' = edits + 1
  /\ \E t \in Triggers, row \in Rows :
       /\ triggers[t] = None
       /\ row.token <= minted + 1
       /\ minted' = IF row.token > minted THEN row.token ELSE minted
       /\ WriteRow(w, t, row, row)
  /\ UNCHANGED <<ingest, answer>>

\* update_trigger, set_trigger_status and rotate_public_token read the row and
\* build the whole row they will write.
Read(w, t, row) ==
  /\ edit[w].pc = "idle" /\ edits < MaxEdits /\ triggers[t] # None
  /\ edits' = edits + 1
  /\ EditIs(w, [pc |-> "read", trigger |-> t, seen |-> triggers[t], row |-> row])
  /\ UNCHANGED <<db, ingest, answer>>

Patch(w, t) ==
  /\ \E n \in Names, p \in PolicySets : Read(w, t, [triggers[t] EXCEPT !.name = n, !.policies = p])
  /\ UNCHANGED minted

SetStatus(w, t, s) ==
  /\ Read(w, t, [triggers[t] EXCEPT !.status = s])
  /\ UNCHANGED minted
Enable(w, t)  == SetStatus(w, t, "enabled")
Disable(w, t) == SetStatus(w, t, "disabled")

Rotate(w, t) ==
  /\ minted < MaxTokens
  /\ Read(w, t, [triggers[t] EXCEPT !.token = minted + 1])
  /\ minted' = minted + 1

Overwrite(w) ==
  /\ edit[w].pc = "read"
  /\ WriteRow(w, edit[w].trigger, edit[w].seen, edit[w].row)
  /\ UNCHANGED <<ingest, answer, minted, edits>>

CommitRow(w) ==
  /\ edit[w].pc = "written"
  /\ Commit
  /\ EditIs(w, Idle)
  /\ UNCHANGED <<tables, ingest, answer, minted, edits>>

(***************************************************************************)
(* Deliveries, on the event loop.                                          *)
(***************************************************************************)
Reply(d, a) == answer' = [answer EXCEPT ![d] = a]
Verdict(ok) == IF ok THEN "received" ELSE "rejected_auth"

\* _authorize: any policy may admit the delivery, and no policy is "none".
\* "signed" stands for a header token and for an HMAC, whose outcome is a choice.
Authorized(row, byToken, signed) ==
  \/ row.policies = {} \/ "none" \in row.policies
  \/ "url_token" \in row.policies /\ byToken
  \/ "signed" \in row.policies /\ signed

\* A token, id or body that the service cannot use: 404 or 422.
Refuse(d) ==
  /\ ingest.pc = "idle" /\ answer[d].kind = "pending"
  /\ Reply(d, [kind |-> "refused"])
  /\ UNCHANGED <<db, edit, ingest, minted, edits>>

\* ingest_webhook finds its trigger by token, ingest_event by id or name; what
\* follows rests on the row as it was read here.
LookUp(d, t, byToken) ==
  /\ ingest.pc = "idle" /\ answer[d].kind = "pending" /\ triggers[t] # None
  /\ IF triggers[t].status = "disabled"
     THEN Reply(d, [kind |-> "refused"]) /\ UNCHANGED ingest
     ELSE /\ \E k \in Keys \cup {None}, signed \in BOOLEAN :
               ingest' = [pc |-> "judged",
                          event |-> [id |-> d, trigger |-> t, key |-> k,
                                     status |-> Verdict(Authorized(triggers[t], byToken, signed))]]
          /\ UNCHANGED answer
  /\ UNCHANGED <<db, edit, minted, edits>>

\* create_event; on a violation of the index the handler goes on to the event
\* that has the key.
Insert ==
  /\ ingest.pc = "judged"
  /\ IF KeyTaken(ingest.event)
     THEN Violated /\ ingest' = [ingest EXCEPT !.pc = "duplicate"]
     ELSE /\ events' = events \cup {ingest.event}
          /\ tx' = "writing"
          /\ ingest' = [ingest EXCEPT !.pc = "inserted"]
          /\ UNCHANGED <<triggers, saved>>
  /\ UNCHANGED <<edit, answer, minted, edits>>

CommitEvent ==
  /\ ingest.pc = "inserted"
  /\ Commit
  /\ ingest' = [ingest EXCEPT !.pc = "committed"]
  /\ UNCHANGED <<tables, edit, answer, minted, edits>>

\* The result, or 403 for a rejected delivery.
Respond ==
  /\ ingest.pc = "committed"
  /\ Reply(ingest.event.id, IF ingest.event.status = "received"
                            THEN [kind |-> "received", event |-> ingest.event]
                            ELSE [kind |-> "rejected"])
  /\ ingest' = Idle
  /\ UNCHANGED <<db, edit, minted, edits>>

\* get_event_by_key
Found(e) == {f \in events : f.trigger = e.trigger /\ f.key = e.key}

\* The answer `accepted' with the event found.
Duplicate ==
  /\ ingest.pc = "duplicate"
  /\ \E f \in Found(ingest.event) :
       Reply(ingest.event.id, [kind |-> "duplicate", event |-> f])
  /\ ingest' = Idle
  /\ UNCHANGED <<db, edit, minted, edits>>

(***************************************************************************)
(* The process ends: uncommitted rows are gone, and the sender of the      *)
(* delivery in progress hears nothing.                                     *)
(***************************************************************************)
Crash ==
  /\ triggers' = saved.triggers /\ events' = saved.events
  /\ tx' = "none"
  /\ edit' = [w \in Threads |-> Idle]
  /\ ingest' = Idle
  /\ IF ingest.pc = "idle" THEN UNCHANGED answer ELSE Reply(ingest.event.id, [kind |-> "lost"])
  /\ UNCHANGED <<saved, minted, edits>>

Editing(w) == \/ Create(w) \/ Overwrite(w) \/ CommitRow(w)
              \/ \E t \in Triggers : Patch(w, t) \/ Enable(w, t) \/ Disable(w, t) \/ Rotate(w, t)
Ingesting  == \/ Insert \/ CommitEvent \/ Respond \/ Duplicate
              \/ \E d \in Deliveries :
                   Refuse(d) \/ \E t \in Triggers, byToken \in BOOLEAN : LookUp(d, t, byToken)

Next == Ingesting \/ Crash \/ \E w \in Threads : Editing(w)

Spec == Init /\ [][Next]_vars

(***************************************************************************)
(* Properties.                                                             *)
(***************************************************************************)
\* Rows wait for a commit only while a handler is on its way to it: whatever a
\* thread and the loop write into one another's transaction is committed.
LockAttended ==
  tx = "writing" => ingest.pc = "inserted" \/ \E w \in Threads : edit[w].pc = "written"

\* Senders are told of events that last, and of one event for each key.
Entry(e) == [id |-> e.id, trigger |-> e.trigger, key |-> e.key]
Told     == {d \in Deliveries : answer[d].kind \in {"received", "duplicate"}}
Inbox    == INSTANCE KeyedInbox WITH
              Entries <- [id : Deliveries, trigger : Triggers, key : Keys \cup {None}],
              NoKey   <- None,
              stored  <- {Entry(e) : e \in saved.events},
              told    <- {Entry(answer[d].event) : d \in Told}
KeepsInbox == Inbox!Spec

(***************************************************************************)
(* Properties the code does not have.                                      *)
(***************************************************************************)
\* docs/api-design.md: a trigger is disabled, its token rotated.  An edit writes
\* back only what is still there.
EditsKept ==
  [][\A w \in Threads : Overwrite(w) => triggers[edit[w].trigger] = edit[w].seen]_vars

\* docs/database-schema.md: trigger_events is an audit log, duplicates included.
\* What is answered as accepted was received.
AcceptedReceived == \A d \in Told : answer[d].event.status = "received"

\* No handler leaves the write lock of the database behind.
LockReleased == tx # "failed"
=============================================================================
