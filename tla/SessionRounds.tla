---------------------------- MODULE SessionRounds -----------------------------
(***************************************************************************)
(* The rounds of a session, page by page (sessions/rounds_projection.py,   *)
(* sessions/service.py, interfaces/server/routers/sessions.py).            *)
(*                                                                         *)
(* A page is built in a pool thread from three tables, read one after the  *)
(* other while runs go on: the tasks, the messages and the records of the  *)
(* runs.  Rounds are sorted anew for each page, and the client names the   *)
(* last round it was given to get the next one.                            *)
(***************************************************************************)
EXTENDS SessionRuns, Integers, FiniteSets, Sequences

CONSTANT Limit   \* rounds of a page

ASSUME LimitAssumption == Limit \in Nat \ {0}

VARIABLES
  record,    \* run_runtime: None without a row
  root,      \* tasks: when the root task of a run was created, 0 without one
  spoke,     \* messages: when the first message of a run was stored, 0 without one
  clock,
  page,      \* the request in progress
  cursor,    \* the round the client goes on from
  served,    \* how often it was given each round
  known,     \* the rounds that had a root task when it asked for the first page
  loose      \* it was given a cursor that had none

tables == <<record, root, spoke, clock>>
client == <<cursor, served, known, loose>>
roundsVars == <<tables, page, client>>

Times == Nat
NoTimes == [r \in Runs |-> 0]
Page == [pc : {"off", "wait", "tasks", "messages"}, root : [Runs -> Times],
         spoke : [Runs -> Times]]
NoPage == [pc |-> "off", root |-> NoTimes, spoke |-> NoTimes]

\* Every variable keeps its kind.
RoundsTypeOK ==
  /\ record \in [Runs -> {None, "active", "ended"}]
  /\ root \in [Runs -> Times] /\ spoke \in [Runs -> Times] /\ clock \in Times
  /\ page \in Page /\ cursor \in Runs \cup {None} /\ served \in [Runs -> 0..2]
  /\ known \subseteq Runs /\ loose \in BOOLEAN

RoundsInit ==
  /\ record = [r \in Runs |-> None] /\ root = NoTimes /\ spoke = NoTimes /\ clock = 0
  /\ page = NoPage /\ cursor = None /\ served = NoTimes /\ known = {} /\ loose = FALSE

(***************************************************************************)
(* The runs: one at a time.                                                *)
(***************************************************************************)
RunCreated(r) ==
  /\ record[r] = None /\ \A q \in Runs : record[q] # "active"
  /\ record' = [record EXCEPT ![r] = "active"]
  /\ UNCHANGED <<root, spoke, clock, page, client>>

RootCreated(r) ==
  /\ record[r] = "active" /\ root[r] = 0
  /\ clock' = clock + 1 /\ root' = [root EXCEPT ![r] = clock']
  /\ UNCHANGED <<record, spoke, page, client>>

Speak(r) ==
  /\ record[r] = "active" /\ root[r] # 0 /\ spoke[r] = 0
  /\ clock' = clock + 1 /\ spoke' = [spoke EXCEPT ![r] = clock']
  /\ UNCHANGED <<record, root, page, client>>

\* A run may fail before it has a root task.
End(r) ==
  /\ record[r] = "active" /\ record' = [record EXCEPT ![r] = "ended"]
  /\ UNCHANGED <<root, spoke, clock, page, client>>

(***************************************************************************)
(* A page.                                                                 *)
(***************************************************************************)
\* Seeded fault of the next definition: it is not used.
CreatedAtSpoke(r) == page.spoke[r]

\* _round_created_at: of the root task, or of the first message.
CreatedAt(r) == IF page.root[r] # 0 THEN page.root[r] ELSE page.spoke[r]

\* The rounds of what was read: the newest first, those without a time last, in any order.
IsRounds(rounds) ==
  LET found == {r \in Runs : page.root[r] # 0 \/ page.spoke[r] # 0 \/ record[r] # None} IN
  /\ \A r \in found : \E i \in 1..Len(rounds) : rounds[i] = r
  /\ Len(rounds) = Cardinality(found)
  /\ \A i \in 1..Len(rounds) :
       /\ rounds[i] \in found
       /\ \A j \in 1..i : CreatedAt(rounds[j]) >= CreatedAt(rounds[i])
ListsOf(n) == [1..n -> Runs]
Rounds == {rounds \in UNION {ListsOf(n) : n \in 0..Cardinality(Runs)} : IsRounds(rounds)}

\* Behind the cursor, or at the beginning if it is not there.
NextIndex(rounds) ==
  IF \E i \in 1..Len(rounds) : rounds[i] = cursor
  THEN 1 + CHOOSE i \in 1..Len(rounds) : rounds[i] = cursor ELSE 1

Least(a, b) == IF a < b THEN a ELSE b

Begin ==
  /\ page.pc = "off" /\ cursor = None
  /\ page' = [NoPage EXCEPT !.pc = "wait"]
  /\ known' = {r \in Runs : root[r] # 0} /\ served' = NoTimes /\ loose' = FALSE
  /\ UNCHANGED <<tables, cursor>>

ReadTasks ==
  /\ page.pc = "wait" /\ page' = [page EXCEPT !.pc = "tasks", !.root = root]
  /\ UNCHANGED <<tables, client>>

ReadMessages ==
  /\ page.pc = "tasks" /\ page' = [page EXCEPT !.pc = "messages", !.spoke = spoke]
  /\ UNCHANGED <<tables, client>>

\* The records are read, the page is cut out of the rounds, and the client asks for the next.
Serve ==
  /\ page.pc = "messages"
  /\ \E rounds \in Rounds :
       LET start == NextIndex(rounds)
           last  == Least(start + Limit - 1, Len(rounds))
           more  == start + Limit - 1 < Len(rounds) /\ start <= last IN
       /\ served' = [r \in Runs |->
            IF \E i \in start..last : rounds[i] = r THEN Least(served[r] + 1, 2)
            ELSE served[r]]
       /\ cursor' = IF more THEN rounds[last] ELSE None
       /\ loose' = (loose \/ (more /\ CreatedAt(rounds[last]) = 0))
       /\ page' = [NoPage EXCEPT !.pc = IF more THEN "wait" ELSE "off"]
  /\ UNCHANGED <<tables, known>>

(***************************************************************************)
(* Specification.                                                          *)
(***************************************************************************)
RoundsNext == \/ \E r \in Runs : RunCreated(r) \/ RootCreated(r) \/ Speak(r) \/ End(r)
        \/ Begin \/ ReadTasks \/ ReadMessages \/ Serve

RoundsSpec == RoundsInit /\ [][RoundsNext]_roundsVars

(***************************************************************************)
(* Properties.                                                             *)
(***************************************************************************)
Served == page.pc = "off"

\* A client that follows the cursor to the end is given every round that had its root task
\* when it began, whatever runs are created, started and ended between and within its
\* requests; and none of them twice, unless a cursor named a run that had not started: such
\* a run moves from the last place to the first when it starts.
PagesExact == /\ Served => \A r \in known : served[r] > 0
              /\ ~loose => \A r \in known : served[r] <= 1

\* Without the exception, which the interface does not state (docs/api-design.md:122), it
\* is not kept.
PagesNeverRepeat == \A r \in known : served[r] <= 1
=============================================================================
