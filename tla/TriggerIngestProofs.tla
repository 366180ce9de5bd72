------------------------ MODULE TriggerIngestProofs -------------------------
(***************************************************************************)
(* What holds of trigger ingestion for every value of the constants: its   *)
(* types, that written rows are on their way to a commit, and that it      *)
(* keeps the promise of KeyedInbox.                                        *)
(***************************************************************************)
EXTENDS TriggerIngest, TLAPS

\* Only the delivery in progress has an event that is not committed.
Uncommitted ==
  /\ saved.events \subseteq events
  /\ \A e \in events : e \in saved.events \/ (ingest.pc = "inserted" /\ ingest.event = e)

\* Where the event of the delivery in progress is.
Progress ==
  /\ ingest.pc # "idle" => answer[ingest.event.id].kind = "pending"
  /\ ingest.pc = "inserted" => ingest.event \in events
  /\ ingest.pc = "committed" => ingest.event \in saved.events
  /\ \A e \in events : answer[e.id].kind = "pending" =>
       ingest.pc \in {"inserted", "committed"} /\ ingest.event.id = e.id

\* Deliveries store at most one event each, and keys have at most one event.
Unique ==
  \A e, f \in events :
    /\ e.id = f.id => e = f
    /\ e.key # None /\ e.trigger = f.trigger /\ e.key = f.key => e = f

TellsSaved == \A d \in Told : answer[d].event \in saved.events

Inv == TypeOK /\ LockAttended /\ Uncommitted /\ Progress /\ Unique /\ TellsSaved

LEMMA Initially == Init => Inv
  <1> SUFFICES ASSUME Init PROVE Inv
    OBVIOUS
  <1> USE NoneAssumption, PoliciesAssumption, BoundsAssumption
  <1>1. TypeOK
    BY DEF Init, TypeOK, Idle, EditState, IngestState, Answers
  <1>2. Told = {}
    BY DEF Init, Told
  <1> QED
    BY <1>1, <1>2 DEF Init, Inv, LockAttended, Uncommitted, Progress, Unique, TellsSaved,
       Idle

(***************************************************************************)
(* Types.                                                                  *)
(***************************************************************************)
LEMMA IdleTyped == Idle \in EditState /\ Idle \in IngestState
  BY DEF Idle, EditState, IngestState

\* Writing a definition, accepted or refused.
LEMMA WriteTyped ==
  ASSUME TypeOK, NEW w \in Threads, NEW t \in Triggers, NEW seen \in Rows, NEW row \in Rows,
         WriteRow(w, t, seen, row)
  PROVE  /\ triggers' \in [Triggers -> Rows \cup {None}]
         /\ edit' \in [Threads -> EditState]
         /\ tx' \in {"none", "writing", "failed"}
         /\ UNCHANGED <<events, saved>>
  <1>1. Written(t, seen, row) \in EditState
    BY DEF Written, EditState
  <1>2. CASE Clash(t, row)
    BY <1>2, IdleTyped DEF TypeOK, WriteRow, Violated, EditIs, tables
  <1>3. CASE ~Clash(t, row)
    BY <1>1, <1>3 DEF TypeOK, WriteRow, EditIs
  <1> QED
    BY <1>2, <1>3

\* A row built from the one in the table.
LEMMA ReadTyped ==
  ASSUME TypeOK, NEW w \in Threads, NEW t \in Triggers, NEW row,
         triggers[t] # None => row \in Rows, Read(w, t, row)
  PROVE  /\ edit' \in [Threads -> EditState]
         /\ edits' \in 0..MaxEdits
         /\ UNCHANGED <<db, ingest, answer>>
  <1>1. triggers[t] \in Rows /\ row \in Rows
    BY DEF TypeOK, Read
  <1>2. [pc |-> "read", trigger |-> t, seen |-> triggers[t], row |-> row] \in EditState
    BY <1>1 DEF EditState
  <1>3. edits' \in 0..MaxEdits
    BY BoundsAssumption DEF TypeOK, Read
  <1> QED
    BY <1>2, <1>3 DEF TypeOK, Read, EditIs

\* Outside of an idle loop, the record of the delivery has an event.
LEMMA AtWork ==
  ASSUME TypeOK, ingest.pc # "idle"
  PROVE  /\ ingest \in [pc : {"judged", "inserted", "committed", "duplicate"}, event : Events]
         /\ ingest.event \in Events /\ ingest.event.id \in Deliveries
  BY DEF TypeOK, IngestState, Events, Idle

LEMMA TypeStep == TypeOK /\ [Next]_vars => TypeOK'
  <1> SUFFICES ASSUME TypeOK, [Next]_vars PROVE TypeOK'
    OBVIOUS
  <1> USE NoneAssumption, BoundsAssumption
  <1>1. ASSUME NEW w \in Threads, Create(w) PROVE TypeOK'
    <2>1. PICK t \in Triggers, row \in Rows :
            /\ row.token <= minted + 1
            /\ minted' = IF row.token > minted THEN row.token ELSE minted
            /\ WriteRow(w, t, row, row)
      BY <1>1 DEF Create
    <2>2. minted' \in 0..MaxTokens
      BY <2>1 DEF TypeOK, Rows, Tokens
    <2>3. edits' \in 0..MaxEdits
      BY <1>1 DEF TypeOK, Create
    <2> QED
      BY <1>1, <2>1, <2>2, <2>3, WriteTyped DEF TypeOK, Create
  <1>2. ASSUME NEW w \in Threads, NEW t \in Triggers, Patch(w, t) PROVE TypeOK'
    <2>1. PICK n \in Names, p \in PolicySets :
            Read(w, t, [triggers[t] EXCEPT !.name = n, !.policies = p])
      BY <1>2 DEF Patch
    <2>2. triggers[t] # None => [triggers[t] EXCEPT !.name = n, !.policies = p] \in Rows
      BY DEF TypeOK, Rows
    <2> QED
      BY <1>2, <2>1, <2>2, ReadTyped DEF TypeOK, Patch, db, tables
  <1>3. ASSUME NEW w \in Threads, NEW t \in Triggers, Enable(w, t) \/ Disable(w, t) PROVE TypeOK'
    <2>1. PICK st \in {"enabled", "disabled"} : Read(w, t, [triggers[t] EXCEPT !.status = st])
      BY <1>3 DEF SetStatus, Enable, Disable
    <2>2. triggers[t] # None => [triggers[t] EXCEPT !.status = st] \in Rows
      BY DEF TypeOK, Rows
    <2> QED
      BY <1>3, <2>1, <2>2, ReadTyped DEF TypeOK, SetStatus, db, tables, Enable, Disable
  <1>4. ASSUME NEW w \in Threads, NEW t \in Triggers, Rotate(w, t) PROVE TypeOK'
    <2>1. minted + 1 \in Tokens /\ minted' \in 0..MaxTokens
      BY <1>4 DEF TypeOK, Rotate, Tokens
    <2>2. triggers[t] # None => [triggers[t] EXCEPT !.token = minted + 1] \in Rows
      BY <2>1 DEF TypeOK, Rows
    <2> QED
      BY <1>4, <2>1, <2>2, ReadTyped DEF TypeOK, Rotate, db, tables
  <1>5. ASSUME NEW w \in Threads, Overwrite(w) PROVE TypeOK'
    <2>1. edit[w].trigger \in Triggers /\ edit[w].seen \in Rows /\ edit[w].row \in Rows
      BY <1>5 DEF TypeOK, Overwrite, EditState
    <2> QED
      BY <1>5, <2>1, WriteTyped DEF TypeOK, Overwrite
  <1>6. ASSUME NEW w \in Threads, CommitRow(w) PROVE TypeOK'
    BY <1>6, IdleTyped DEF TypeOK, CommitRow, Commit, EditIs, tables
  <1>7. ASSUME NEW d \in Deliveries, Refuse(d) PROVE TypeOK'
    <2>1. [kind |-> "refused"] \in Answers
      BY DEF Answers
    <2> QED
      BY <1>7, <2>1 DEF TypeOK, Refuse, Reply, db, tables
  <1>8. ASSUME NEW d \in Deliveries, NEW t \in Triggers, NEW byToken \in BOOLEAN,
               LookUp(d, t, byToken)
        PROVE  TypeOK'
    <2>1. [kind |-> "refused"] \in Answers
      BY DEF Answers
    <2>2. ingest' \in IngestState /\ answer' \in [Deliveries -> Answers]
      <3>1. CASE triggers[t].status = "disabled"
        BY <1>8, <2>1, <3>1 DEF TypeOK, LookUp, Reply
      <3>2. CASE triggers[t].status # "disabled"
        <4>1. PICK k \in Keys \cup {None}, signed \in BOOLEAN :
                ingest' = [pc |-> "judged",
                           event |-> [id |-> d, trigger |-> t, key |-> k,
                                      status |-> Verdict(Authorized(triggers[t], byToken, signed))]]
          BY <1>8, <3>2 DEF LookUp
        <4>2. Verdict(Authorized(triggers[t], byToken, signed)) \in {"received", "rejected_auth"}
          BY DEF Verdict
        <4>3. ingest'.event \in Events
          BY <4>1, <4>2 DEF Events
        <4> QED
          BY <1>8, <3>2, <4>1, <4>3 DEF TypeOK, LookUp, IngestState
      <3> QED
        BY <3>1, <3>2
    <2> QED
      BY <1>8, <2>2 DEF TypeOK, LookUp, db, tables
  <1>9. ASSUME Insert PROVE TypeOK'
    <2>1. ingest.event \in Events
      BY <1>9, AtWork DEF Insert
    <2>2. [ingest EXCEPT !.pc = "duplicate"] \in IngestState
          /\ [ingest EXCEPT !.pc = "inserted"] \in IngestState
      BY <1>9, AtWork DEF Insert, IngestState
    <2>3. CASE KeyTaken(ingest.event)
      BY <1>9, <2>2, <2>3 DEF TypeOK, Insert, Violated, tables
    <2>4. CASE ~KeyTaken(ingest.event)
      BY <1>9, <2>1, <2>2, <2>4 DEF TypeOK, Insert
    <2> QED
      BY <2>3, <2>4
  <1>10. ASSUME CommitEvent PROVE TypeOK'
    <2>1. [ingest EXCEPT !.pc = "committed"] \in IngestState
      BY <1>10, AtWork DEF CommitEvent, IngestState
    <2> QED
      BY <1>10, <2>1 DEF TypeOK, CommitEvent, Commit, tables
  <1>11. ASSUME Respond PROVE TypeOK'
    <2>1. [kind |-> "received", event |-> ingest.event] \in Answers
          /\ [kind |-> "rejected"] \in Answers
      BY <1>11, AtWork DEF Respond, Answers, Accepted
    <2> QED
      BY <1>11, <2>1, IdleTyped DEF TypeOK, Respond, Reply, db, tables
  <1>12. ASSUME Duplicate PROVE TypeOK'
    <2>1. PICK f \in events : Reply(ingest.event.id, [kind |-> "duplicate", event |-> f])
      BY <1>12 DEF Duplicate, Found
    <2>2. [kind |-> "duplicate", event |-> f] \in Answers
      BY DEF TypeOK, Answers, Accepted
    <2> QED
      BY <1>12, <2>1, <2>2, IdleTyped DEF TypeOK, Duplicate, Reply, db, tables, Found
  <1>13. ASSUME Crash PROVE TypeOK'
    <2>1. [kind |-> "lost"] \in Answers
      BY DEF Answers
    <2>2. answer' \in [Deliveries -> Answers]
      BY <1>13, <2>1 DEF TypeOK, Crash, Reply
    <2> QED
      BY <1>13, <2>2, IdleTyped DEF TypeOK, Crash
  <1>14. CASE UNCHANGED vars
    BY <1>14 DEF TypeOK, vars, db, tables
  <1> QED
    BY <1>1, <1>2, <1>3, <1>4, <1>5, <1>6, <1>7, <1>8, <1>9, <1>10, <1>11, <1>12, <1>13,
       <1>14 DEF Next, Editing, Ingesting

(***************************************************************************)
(* Written rows are on their way to a commit.                              *)
(***************************************************************************)
LEMMA LockStep == TypeOK /\ LockAttended /\ [Next]_vars => LockAttended'
  <1> SUFFICES ASSUME TypeOK, LockAttended, [Next]_vars PROVE LockAttended'
    OBVIOUS
  <1>1. ASSUME NEW w \in Threads, NEW t, NEW seen, NEW row,
               edit[w].pc # "written", ingest' = ingest, WriteRow(w, t, seen, row)
        PROVE  LockAttended'
    <2>1. CASE Clash(t, row)
      <3>1. \A v \in Threads : edit[v].pc = "written" => edit'[v] = edit[v]
        BY <1>1, <2>1 DEF WriteRow, EditIs, TypeOK
      <3> QED
        BY <1>1, <2>1, <3>1 DEF WriteRow, Violated, LockAttended
    <2>2. CASE ~Clash(t, row)
      BY <1>1, <2>2 DEF WriteRow, EditIs, Written, TypeOK, LockAttended
    <2> QED
      BY <2>1, <2>2
  <1>2. ASSUME NEW w \in Threads, NEW t, NEW row, Read(w, t, row) PROVE LockAttended'
    <2>1. \A v \in Threads : edit[v].pc = "written" => edit'[v] = edit[v]
      BY <1>2 DEF Read, EditIs, TypeOK
    <2> QED
      BY <1>2, <2>1 DEF Read, db, LockAttended
  <1>3. ASSUME NEW w \in Threads, Create(w) \/ Overwrite(w) PROVE LockAttended'
    BY <1>1, <1>3 DEF Create, Overwrite
  <1>4. ASSUME NEW w \in Threads, CommitRow(w) PROVE LockAttended'
    BY <1>4 DEF CommitRow, Commit, LockAttended
  <1>5. ASSUME NEW d \in Deliveries,
               Refuse(d) \/ \E t \in Triggers, byToken \in BOOLEAN : LookUp(d, t, byToken)
        PROVE  LockAttended'
    BY <1>5 DEF Refuse, LookUp, db, LockAttended
  <1>6. ASSUME Insert PROVE LockAttended'
    BY <1>6, AtWork DEF Insert, Violated, LockAttended
  <1>7. ASSUME CommitEvent \/ Crash PROVE LockAttended'
    BY <1>7 DEF CommitEvent, Crash, Commit, LockAttended
  <1>8. ASSUME Respond \/ Duplicate PROVE LockAttended'
    BY <1>8 DEF Respond, Duplicate, db, LockAttended, Found
  <1>9. CASE UNCHANGED vars
    BY <1>9 DEF vars, db, LockAttended
  <1> QED
    BY <1>2, <1>3, <1>4, <1>5, <1>6, <1>7, <1>8, <1>9 DEF Next, Editing, Ingesting, Patch,
       SetStatus, Rotate, Enable, Disable

(***************************************************************************)
(* The log of events.                                                      *)
(***************************************************************************)
Log == Uncommitted /\ Progress /\ Unique /\ TellsSaved

\* Editing a definition leaves the log alone, up to its commit.
LEMMA EditFrame ==
  ASSUME NEW w \in Threads, Editing(w), ~CommitRow(w)
  PROVE  UNCHANGED <<events, saved, ingest, answer>>
  <1>1. ASSUME NEW t, NEW seen, NEW row, WriteRow(w, t, seen, row) PROVE UNCHANGED <<events, saved>>
    BY <1>1 DEF WriteRow, Violated, tables
  <1> QED
    BY <1>1 DEF Editing, Create, Overwrite, Patch, SetStatus, Rotate, Read, db, tables,
       Enable, Disable

LEMMA LogStep == TypeOK /\ Log /\ [Next]_vars => Log'
  <1> SUFFICES ASSUME TypeOK, Log, [Next]_vars PROVE Log'
    OBVIOUS
  <1>1. ASSUME UNCHANGED <<events, saved, ingest, answer>> PROVE Log'
    BY <1>1 DEF Log, Uncommitted, Progress, Unique, TellsSaved, Told
  <1>2. ASSUME NEW w \in Threads, CommitRow(w) PROVE Log'
    <2>1. saved'.events = events /\ UNCHANGED <<events, ingest, answer>>
      BY <1>2 DEF CommitRow, Commit, tables
    <2> QED
      BY <2>1 DEF Log, Uncommitted, Progress, Unique, TellsSaved, Told
  <1>3. ASSUME NEW d \in Deliveries, Refuse(d) PROVE Log'
    <2>1. /\ UNCHANGED <<events, saved, ingest>> /\ ingest.pc = "idle"
          /\ answer[d].kind = "pending"
          /\ answer' = [answer EXCEPT ![d] = [kind |-> "refused"]]
      BY <1>3 DEF Refuse, Reply, db, tables
    <2>2. Told' = Told /\ \A c \in Told : answer'[c] = answer[c]
      BY <2>1 DEF TypeOK, Told
    <2>3. Progress'
      BY <2>1 DEF TypeOK, Log, Progress, Events
    <2> QED
      BY <2>1, <2>2, <2>3 DEF Log, Uncommitted, Unique, TellsSaved
  <1>4. ASSUME NEW d \in Deliveries, NEW t \in Triggers, NEW byToken \in BOOLEAN,
               LookUp(d, t, byToken)
        PROVE  Log'
    <2>1. UNCHANGED <<events, saved>> /\ ingest.pc = "idle" /\ answer[d].kind = "pending"
      BY <1>4 DEF LookUp, db, tables
    <2>2. CASE triggers[t].status = "disabled"
      <3>1. ingest' = ingest /\ answer' = [answer EXCEPT ![d] = [kind |-> "refused"]]
        BY <1>4, <2>2 DEF LookUp, Reply
      <3>2. Told' = Told /\ \A c \in Told : answer'[c] = answer[c]
        BY <2>1, <3>1 DEF TypeOK, Told
      <3>3. Progress'
        BY <2>1, <3>1 DEF TypeOK, Log, Progress, Events
      <3> QED
        BY <2>1, <3>1, <3>2, <3>3 DEF Log, Uncommitted, Unique, TellsSaved
    <2>3. CASE triggers[t].status # "disabled"
      <3>1. ingest'.pc = "judged" /\ ingest'.event.id = d /\ answer' = answer
        BY <1>4, <2>3 DEF LookUp
      <3> QED
        BY <2>1, <3>1 DEF TypeOK, Log, Uncommitted, Progress, Unique, TellsSaved, Told,
           Events
    <2> QED
      BY <2>2, <2>3
  <1>5. ASSUME Insert PROVE Log'
    <2>1. /\ ingest.pc = "judged" /\ UNCHANGED <<saved, answer>>
          /\ ingest'.event = ingest.event
          /\ ingest.event \in Events
      BY <1>5, AtWork DEF Insert, Violated
    <2>2. CASE KeyTaken(ingest.event)
      <3>1. events' = events /\ ingest'.pc = "duplicate"
        BY <1>5, <2>2, AtWork DEF Insert, Violated, tables
      <3> QED
        BY <2>1, <3>1 DEF Log, Uncommitted, Progress, Unique, TellsSaved, Told
    <2>3. CASE ~KeyTaken(ingest.event)
      <3>1. events' = events \cup {ingest.event} /\ ingest'.pc = "inserted"
        BY <1>5, <2>3, AtWork DEF Insert
      <3>2. \A e \in events : e.id # ingest.event.id
        BY <2>1 DEF Log, Progress
      <3>3. Unique'
        BY <2>1, <2>3, <3>1, <3>2 DEF Log, Unique, KeyTaken
      <3>4. Uncommitted' /\ Progress'
        BY <2>1, <3>1 DEF Log, Uncommitted, Progress
      <3> QED
        BY <2>1, <3>3, <3>4 DEF Log, TellsSaved, Told
    <2> QED
      BY <2>2, <2>3
  <1>6. ASSUME CommitEvent PROVE Log'
    <2>1. /\ ingest.pc = "inserted" /\ UNCHANGED <<events, answer>>
          /\ ingest'.pc = "committed" /\ ingest'.event = ingest.event
          /\ saved'.events = events
      BY <1>6, AtWork DEF CommitEvent, Commit, tables
    <2> QED
      BY <2>1 DEF Log, Uncommitted, Progress, Unique, TellsSaved, Told
  <1>7. ASSUME Respond PROVE Log'
    <2>1. /\ ingest.pc = "committed" /\ UNCHANGED <<events, saved>> /\ ingest'.pc = "idle"
          /\ ingest.event.id \in Deliveries /\ ingest.event \in saved.events
      BY <1>7, AtWork DEF Respond, Idle, db, tables, Log, Progress
    <2>2. /\ answer' = [answer EXCEPT ![ingest.event.id] = answer'[ingest.event.id]]
          /\ answer'[ingest.event.id].kind \in {"received", "rejected"}
          /\ answer'[ingest.event.id].kind = "received"
               => answer'[ingest.event.id].event = ingest.event
      BY <1>7, <2>1 DEF Respond, Reply, TypeOK
    <2>3. TellsSaved'
      BY <2>1, <2>2 DEF TypeOK, Log, TellsSaved, Told
    <2>4. Progress'
      BY <2>1, <2>2 DEF TypeOK, Log, Progress, Events
    <2> QED
      BY <2>1, <2>3, <2>4 DEF Log, Uncommitted, Unique
  <1>8. ASSUME Duplicate PROVE Log'
    <2>1. PICK f \in events :
            answer' = [answer EXCEPT ![ingest.event.id] = [kind |-> "duplicate", event |-> f]]
      BY <1>8 DEF Duplicate, Reply, Found
    <2>2. /\ ingest.pc = "duplicate" /\ UNCHANGED <<events, saved>> /\ ingest'.pc = "idle"
          /\ ingest.event.id \in Deliveries
      BY <1>8, AtWork DEF Duplicate, Idle, db, tables, Found
    <2>3. f \in saved.events
      BY <2>2 DEF Log, Uncommitted
    <2>4. TellsSaved'
      BY <2>1, <2>2, <2>3 DEF TypeOK, Log, TellsSaved, Told
    <2>5. Progress'
      BY <2>1, <2>2 DEF TypeOK, Log, Progress, Events
    <2> QED
      BY <2>2, <2>4, <2>5 DEF Log, Uncommitted, Unique
  <1>9. ASSUME Crash PROVE Log'
    <2>1. events' = saved.events /\ saved' = saved /\ ingest'.pc = "idle"
      BY <1>9 DEF Crash, Idle
    <2>2. Uncommitted' /\ Unique'
      BY <2>1 DEF Log, Uncommitted, Unique
    <2>3. CASE ingest.pc = "idle"
      BY <1>9, <2>1, <2>2, <2>3 DEF Crash, Log, Uncommitted, Progress, TellsSaved, Told
    <2>4. CASE ingest.pc # "idle"
      <3>1. /\ ingest.event.id \in Deliveries /\ answer[ingest.event.id].kind = "pending"
            /\ answer' = [answer EXCEPT ![ingest.event.id] = [kind |-> "lost"]]
        BY <1>9, <2>4, AtWork DEF Crash, Reply, Log, Progress
      <3>2. Told' = Told /\ \A c \in Told : answer'[c] = answer[c]
        BY <3>1 DEF TypeOK, Told
      <3>3. Progress'
        BY <2>1, <3>1 DEF TypeOK, Log, Uncommitted, Progress, Events
      <3> QED
        BY <2>1, <2>2, <3>2, <3>3 DEF Log, TellsSaved
    <2> QED
      BY <2>3, <2>4
  <1>10. CASE UNCHANGED vars
    BY <1>1, <1>10 DEF vars, db, tables
  <1> QED
    BY <1>1, <1>2, <1>3, <1>4, <1>5, <1>6, <1>7, <1>8, <1>9, <1>10, EditFrame DEF Next,
       Ingesting

(***************************************************************************)
(* The theorems.                                                           *)
(***************************************************************************)
THEOREM Invariance == Spec => []Inv
  <1>1. Inv /\ [Next]_vars => Inv'
    BY TypeStep, LockStep, LogStep DEF Inv, Log
  <1> QED
    BY <1>1, Initially, PTL DEF Spec

\* Rows, events and what the actors remember have their types.
THEOREM TriggerTypes == Spec => []TypeOK
  BY Invariance, PTL DEF Inv

\* No handler leaves rows behind that nobody commits.
THEOREM TriggerAttended == Spec => []LockAttended
  BY Invariance, PTL DEF Inv

\* The variables of KeyedInbox here.
Stored == {Entry(e) : e \in saved.events}
Heard  == {Entry(answer[d].event) : d \in Told}

\* Every step is a step of KeyedInbox, or none.
LEMMA KeepsStep == Inv /\ [Next]_vars => [Inbox!Next]_<<Stored, Heard>>
  <1> SUFFICES ASSUME Inv, [Next]_vars PROVE [Inbox!Next]_<<Stored, Heard>>
    OBVIOUS
  <1>1. \A e \in events : Entry(e) \in [id : Deliveries, trigger : Triggers, key : Keys \cup {None}]
    BY DEF Inv, TypeOK, Events, Entry
  <1>2. ASSUME saved'.events = saved.events, Told' = Told, \A c \in Told : answer'[c] = answer[c]
        PROVE  UNCHANGED <<Stored, Heard>>
    BY <1>2 DEF Stored, Heard
  <1>3. ASSUME UNCHANGED <<saved, answer>> PROVE UNCHANGED <<Stored, Heard>>
    BY <1>3 DEF Stored, Heard, Told
  <1>4. ASSUME saved'.events = events, answer' = answer PROVE [Inbox!Next]_<<Stored, Heard>>
    <2>1. Heard' = Heard
      BY <1>4 DEF Heard, Told
    <2>2. CASE events = saved.events
      BY <1>4, <2>1, <2>2 DEF Stored
    <2>3. CASE events # saved.events
      <3>1. PICK e \in events : e \notin saved.events
        BY <2>3 DEF Inv, Uncommitted
      <3>2. events = saved.events \cup {e}
        BY <3>1 DEF Inv, Uncommitted
      <3>3. Stored' = Stored \cup {Entry(e)}
        BY <1>4, <3>2 DEF Stored
      <3>4. \A f \in Stored : Entry(e).id # f.id /\ ~Inbox!SameSlot(Entry(e), f)
        BY <3>1 DEF Inv, Uncommitted, Unique, Stored, Entry, Inbox!SameSlot
      <3>5. Inbox!Store(Entry(e))
        BY <2>1, <3>3, <3>4 DEF Inbox!Store, Stored, Heard
      <3> QED
        BY <1>1, <3>5 DEF Inbox!Next
    <2> QED
      BY <2>2, <2>3
  <1>5. ASSUME NEW d \in Deliveries, answer[d].kind = "pending", UNCHANGED saved,
               \A c \in Deliveries \ {d} : answer'[c] = answer[c],
               answer'[d].kind \notin {"received", "duplicate"}
        PROVE  UNCHANGED <<Stored, Heard>>
    <2>1. Told' = Told /\ \A c \in Told : answer'[c] = answer[c]
      BY <1>5 DEF Inv, TypeOK, Told
    <2> QED
      BY <1>2, <1>5, <2>1
  <1>6. ASSUME NEW d \in Deliveries, answer[d].kind = "pending", UNCHANGED saved,
               \A c \in Deliveries \ {d} : answer'[c] = answer[c],
               answer'[d].kind \in {"received", "duplicate"}, answer'[d].event \in saved.events
        PROVE  [Inbox!Next]_<<Stored, Heard>>
    <2>1. Told' = Told \cup {d} /\ d \notin Told /\ \A c \in Told : answer'[c] = answer[c]
      BY <1>6 DEF Told
    <2>2. Heard' = Heard \cup {Entry(answer'[d].event)}
      BY <2>1 DEF Heard
    <2>3. Inbox!Tell(Entry(answer'[d].event))
      BY <1>6, <2>2 DEF Inbox!Tell, Stored, Heard
    <2>4. answer'[d].event \in events
      BY <1>6 DEF Inv, Uncommitted
    <2> QED
      BY <1>1, <2>3, <2>4 DEF Inbox!Next
  <1>7. DOMAIN answer = Deliveries
    BY DEF Inv, TypeOK
  <1>8. ASSUME ingest.pc # "idle"
        PROVE  ingest.event.id \in Deliveries /\ answer[ingest.event.id].kind = "pending"
    BY <1>8, AtWork DEF Inv, Progress
  <1>9. ASSUME NEW w \in Threads, Editing(w) PROVE [Inbox!Next]_<<Stored, Heard>>
    <2>1. CASE CommitRow(w)
      BY <1>4, <2>1 DEF CommitRow, Commit
    <2>2. CASE ~CommitRow(w)
      BY <1>3, <1>9, <2>2, EditFrame
    <2> QED
      BY <2>1, <2>2
  <1>10. ASSUME NEW d \in Deliveries,
               Refuse(d) \/ \E t \in Triggers, byToken \in BOOLEAN : LookUp(d, t, byToken)
        PROVE  [Inbox!Next]_<<Stored, Heard>>
    <2>1. /\ answer[d].kind = "pending" /\ UNCHANGED saved
          /\ answer' = answer \/ answer' = [answer EXCEPT ![d] = [kind |-> "refused"]]
      BY <1>10 DEF Refuse, LookUp, Reply, db
    <2>2. CASE answer' = answer
      BY <1>3, <2>1, <2>2
    <2>3. CASE answer' = [answer EXCEPT ![d] = [kind |-> "refused"]]
      <3>1. answer'[d].kind = "refused" /\ \A c \in Deliveries \ {d} : answer'[c] = answer[c]
        BY <1>7, <2>3
      <3> QED
        BY <1>5, <2>1, <3>1
    <2> QED
      BY <2>1, <2>2, <2>3
  <1>11. ASSUME Insert PROVE [Inbox!Next]_<<Stored, Heard>>
    BY <1>3, <1>11 DEF Insert, Violated
  <1>12. ASSUME CommitEvent PROVE [Inbox!Next]_<<Stored, Heard>>
    BY <1>4, <1>12 DEF CommitEvent, Commit
  <1>13. ASSUME Respond PROVE [Inbox!Next]_<<Stored, Heard>>
    <2>1. /\ UNCHANGED saved /\ ingest.event \in saved.events
          /\ ingest.event.id \in Deliveries /\ answer[ingest.event.id].kind = "pending"
      BY <1>8, <1>13 DEF Respond, db, Inv, Progress
    <2>2. CASE ingest.event.status = "received"
      <3>1. /\ answer'[ingest.event.id].kind = "received"
            /\ answer'[ingest.event.id].event = ingest.event
            /\ \A c \in Deliveries \ {ingest.event.id} : answer'[c] = answer[c]
        BY <1>13, <1>7, <2>1, <2>2 DEF Respond, Reply
      <3> QED
        BY <1>6, <2>1, <3>1
    <2>3. CASE ingest.event.status # "received"
      <3>1. /\ answer'[ingest.event.id].kind = "rejected"
            /\ \A c \in Deliveries \ {ingest.event.id} : answer'[c] = answer[c]
        BY <1>13, <1>7, <2>1, <2>3 DEF Respond, Reply
      <3> QED
        BY <1>5, <2>1, <3>1
    <2> QED
      BY <2>2, <2>3
  <1>14. ASSUME Duplicate PROVE [Inbox!Next]_<<Stored, Heard>>
    <2>1. PICK f \in events :
            answer' = [answer EXCEPT ![ingest.event.id] = [kind |-> "duplicate", event |-> f]]
      BY <1>14 DEF Duplicate, Reply, Found
    <2>2. f \in saved.events /\ UNCHANGED saved
      BY <1>14 DEF Duplicate, db, Inv, Uncommitted, Found
    <2>3. ingest.event.id \in Deliveries /\ answer[ingest.event.id].kind = "pending"
      BY <1>8, <1>14 DEF Duplicate, Found
    <2>4. /\ answer'[ingest.event.id].kind = "duplicate" /\ answer'[ingest.event.id].event = f
          /\ \A c \in Deliveries \ {ingest.event.id} : answer'[c] = answer[c]
      BY <1>7, <2>1, <2>3
    <2> QED
      BY <1>6, <2>2, <2>3, <2>4
  <1>15. ASSUME Crash PROVE [Inbox!Next]_<<Stored, Heard>>
    <2>1. CASE ingest.pc = "idle"
      BY <1>3, <1>15, <2>1 DEF Crash
    <2>2. CASE ingest.pc # "idle"
      <3>1. /\ UNCHANGED saved /\ answer'[ingest.event.id].kind = "lost"
            /\ \A c \in Deliveries \ {ingest.event.id} : answer'[c] = answer[c]
        BY <1>8, <1>15, <1>7, <2>2 DEF Crash, Reply
      <3> QED
        BY <1>5, <1>8, <2>2, <3>1
    <2> QED
      BY <2>1, <2>2
  <1>16. CASE UNCHANGED vars
    BY <1>3, <1>16 DEF vars, db
  <1> QED
    BY <1>9, <1>10, <1>11, <1>12, <1>13, <1>14, <1>15, <1>16 DEF Next, Ingesting

\* A sender is told of events that last, and of one event for each key.
THEOREM TriggerInbox == Spec => KeepsInbox
  <1>1. Init => Inbox!Init
    BY DEF Init, Inbox!Init, Told
  <1>2. Inv /\ [Next]_vars
          => [Inbox!Next]_<<{Entry(e) : e \in saved.events}, {Entry(answer[d].event) : d \in Told}>>
    BY KeepsStep DEF Stored, Heard
  <1> QED
    BY <1>1, <1>2, Invariance, PTL DEF Spec, KeepsInbox, Inbox!Spec
=============================================================================
