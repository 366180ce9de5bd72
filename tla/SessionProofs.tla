---------------------------- MODULE SessionProofs -----------------------------
(***************************************************************************)
(* What holds of a session for every value of the constants.  Of its rows: *)
(* their types, one instance for each role, and that deletions which fail  *)
(* and are tried again lose sight of nothing; and that its runs follow one *)
(* another as SessionLife says, because the only one at work or resumable  *)
(* is the active one (OneActive).  Of its rounds: that a client which      *)
(* follows the cursor is given each of them once.  A page is               *)
(* made of snapshots that are older than the tables, but a run that had    *)
(* its root task before the first page keeps its time in all of them, and  *)
(* whatever starts later is newer than it: so the rounds given so far are  *)
(* those that are no older than the cursor (Progress).                     *)
(***************************************************************************)
EXTENDS SessionStore, SessionRounds, FiniteSetTheorems, TLAPS

\* The table has nothing of the session.
Gone(table) ==
  /\ table \notin rows
  /\ table = "shared" => shared = {}
  /\ table = "jobs" => files = {}
  /\ table = "runtime" => \A r \in Runs : runtime[r] = None
  /\ table = "tasks" => tasks = {}
  /\ table = "agents" => agents = {}
  /\ table = "dirs" => ~dirs

NoWork == \A r \in Runs : ~AtWork(r)

\* What is to be found by the ids a deletion has read, and what it has deleted.
Deleting ==
  \A d \in Deleters : del[d].at # 0 =>
    /\ NoWork
    /\ shared \subseteq del[d].agents /\ files \subseteq RolesOf(del[d].agents)
    /\ \A k \in 1..(del[d].at - 1) : Gone(Order[k])
Deleted  == emptied => NoWork /\ \A k \in 1..11 : Gone(Order[k])
Known    == shared \subseteq agents /\ files \subseteq RolesOf(agents)
Rooted   == \A r \in Runs : AtWork(r) => uses[r] \subseteq agents
Unmet    == Deleting /\ Deleted /\ Known /\ Rooted

Unused == \A r \in Runs : run[r] = "none" => uses[r] = {}
DInv   == TypeOK /\ Unused /\ (~met => Unmet)

LEMMA OrderFacts ==
  /\ Len(Order) = 11
  /\ \A k \in 1..11 : Order[k] = "agents" => k = 8
  /\ Order[3] = "shared" /\ Order[5] = "jobs" /\ Order[6] = "runtime" /\ Order[7] = "tasks"
  /\ Order[8] = "agents" /\ Order[11] = "dirs"
  /\ Order[1] = "messages" /\ Order[2] = "events" /\ Order[4] = "tickets"
  /\ Order[10] = "usage"
  BY DEF Order

(***************************************************************************)
(* Types.                                                                  *)
(***************************************************************************)
LEMMA InitTyped == Init => TypeOK
  <1> SUFFICES ASSUME Init PROVE TypeOK
    OBVIOUS
  <1> USE BoundsAssumption
  <1>1. Idle \in Deletion
    BY OrderFacts DEF Idle, Deletion
  <1>2. del \in [Deleters -> Deletion]
    BY <1>1 DEF Init
  <1>3. runtime \in [Runs -> Statuses] /\ run \in [Runs -> Places]
    BY DEF Init, Statuses, Places
  <1>4. uses \in [Runs -> SUBSET Instances]
    BY DEF Init
  <1>5. session \in BOOLEAN /\ dirs \in BOOLEAN /\ met \in BOOLEAN /\ emptied \in BOOLEAN
    BY DEF Init
  <1>6. made = 0 /\ ops = 0
    BY DEF Init
  <1>7. made \in 0..MaxInstances /\ ops \in 0..MaxOps
    BY <1>6
  <1>8. /\ rows \subseteq Tables /\ tasks \subseteq Runs /\ agents \subseteq Instances
        /\ shared \subseteq Instances /\ files \subseteq Roles /\ pool \subseteq Instances
        /\ active \in Runs \cup {None} /\ told \subseteq Runs
    BY DEF Init
  <1> QED
    BY <1>2, <1>3, <1>4, <1>5, <1>8, <1>7 DEF TypeOK

LEMMA EnsureTyped ==
  ASSUME TypeOK, NEW role \in Roles, NEW i \in Instances, EnsureInstance(role, i)
  PROVE  pool' \subseteq Instances /\ made' \in 0..MaxInstances
  BY BoundsAssumption DEF TypeOK, EnsureInstance, EnsureFromRecord, CreateSubagent

LEMMA RemovedTyped ==
  ASSUME TypeOK, NEW table, NEW found, RemovedFrom(table, found)
  PROVE  /\ session' \in BOOLEAN /\ rows' \subseteq Tables /\ runtime' \in [Runs -> Statuses]
         /\ tasks' \subseteq Runs /\ agents' \subseteq Instances /\ shared' \subseteq Instances
         /\ files' \subseteq Roles /\ dirs' \in BOOLEAN
  BY DEF TypeOK, RemovedFrom, SharedLeft, FilesLeft, Statuses

LEMMA RunTyped ==
  ASSUME TypeOK, NEW r \in Runs, Ensure(r) \/ CreateRun(r) \/ Work(r)
  PROVE  TypeOK'
  <1> USE CoordinatorAssumption DEF PutRecord, UpsertInstance, WriteMemory, Moves, Writes, Meets,
        Statuses, Places, Tables, memory, database, history
  <1>1. CASE Ensure(r)
    BY <1>1 DEF TypeOK, Ensure
  <1>2. CASE CreateRun(r)
    BY <1>2 DEF TypeOK, CreateRun
  <1>3. CASE Start(r)
    BY <1>3 DEF TypeOK, Start
  <1>4. CASE CreateRoot(r)
    BY <1>4 DEF TypeOK, CreateRoot
  <1>5. CASE TakeCoordinator(r)
    <2>1. PICK i \in Instances :
            /\ EnsureInstance(Coordinator, i)
            /\ \/ r \notin tasks /\ Moves(r, "failing") /\ UNCHANGED <<rows, agents, uses>>
               \/ /\ r \in tasks /\ Moves(r, "ready") /\ Writes({"events"})
                  /\ UpsertInstance(i) /\ uses' = [uses EXCEPT ![r] = @ \cup {i}]
      BY <1>5 DEF TakeCoordinator
    <2>2. pool' \subseteq Instances /\ made' \in 0..MaxInstances
      BY <2>1, EnsureTyped
    <2>3. agents' \subseteq Instances /\ uses' \in [Runs -> SUBSET Instances]
      BY <2>1 DEF TypeOK
    <2>4. rows' \subseteq Tables /\ run' \in [Runs -> Places]
      BY <2>1 DEF TypeOK
    <2> QED
      BY <1>5, <2>2, <2>3, <2>4 DEF TypeOK, TakeCoordinator
  <1>6. CASE Execute(r)
    BY <1>6 DEF TypeOK, Execute, Fails
  <1>7. CASE Delegate(r)
    <2>1. PICK role \in Roles \ {Coordinator}, i \in Instances :
            /\ EnsureInstance(role, i) /\ UpsertInstance(i)
            /\ i \notin uses[r] /\ uses' = [uses EXCEPT ![r] = @ \cup {i}]
      BY <1>7 DEF Delegate
    <2>2. pool' \subseteq Instances /\ made' \in 0..MaxInstances
      BY <2>1, EnsureTyped
    <2>3. agents' \subseteq Instances /\ uses' \in [Runs -> SUBSET Instances]
      BY <2>1 DEF TypeOK
    <2> QED
      BY <1>7, <2>2, <2>3 DEF TypeOK, Delegate
  <1>8. CASE Record(r)
    BY <1>8 DEF TypeOK, Record
  <1>9. CASE Remember(r)
    BY <1>9 DEF TypeOK, Remember
  <1>10. CASE Complete(r)
    BY <1>10 DEF TypeOK, Complete, Fails
  <1>11. CASE WorkerEnds(r)
    BY <1>11 DEF TypeOK, WorkerEnds
  <1>12. CASE Finalize(r)
    BY <1>12 DEF TypeOK, Finalize
  <1> QED
    BY <1>1, <1>2, <1>3, <1>4, <1>5, <1>6, <1>7, <1>8, <1>9, <1>10, <1>11, <1>12 DEF Work

LEMMA OtherTyped ==
  ASSUME TypeOK, Reflect \/ Crash \/ \E d \in Deleters : DeleteLook(d) \/ DeleteStep(d)
                                                        \/ DeleteFails(d)
  PROVE  TypeOK'
  <1> USE BoundsAssumption, OrderFacts DEF Operation, Meets, memory, database, history
  <1>1. Idle \in Deletion
    BY DEF Idle, Deletion
  <1>2. CASE Reflect
    BY <1>2 DEF TypeOK, Reflect, RolesOf, Instances
  <1>3. CASE Crash
    <2>1. run' \in [Runs -> Places]
      BY <1>3 DEF TypeOK, Crash, Places
    <2> QED
      BY <1>1, <1>3, <2>1 DEF TypeOK, Crash
  <1>4. ASSUME NEW d \in Deleters, DeleteLook(d) PROVE TypeOK'
    <2>1. [at |-> 1, agents |-> agents] \in Deletion
      BY DEF TypeOK, Deletion
    <2> QED
      BY <1>4, <2>1 DEF TypeOK, DeleteLook
  <1>5. ASSUME NEW d \in Deleters, DeleteStep(d) PROVE TypeOK'
    <2>1. RemovedFrom(Order[del[d].at], del[d].agents)
      BY <1>5 DEF DeleteStep
    <2>2. del[d] \in Deletion
      BY DEF TypeOK
    <2>3. del[d].at # 11 => [del[d] EXCEPT !.at = del[d].at + 1] \in Deletion
      BY <2>2 DEF Deletion
    <2>4. del' \in [Deleters -> Deletion]
      BY <1>1, <1>5, <2>3 DEF TypeOK, DeleteStep
    <2>5. UNCHANGED <<pool, active, run, uses, told, met, made, ops>> /\ emptied' \in BOOLEAN
      BY <1>5 DEF DeleteStep
    <2> QED
      BY <2>1, <2>4, <2>5, RemovedTyped DEF TypeOK
  <1>6. ASSUME NEW d \in Deleters, DeleteFails(d) PROVE TypeOK'
    BY <1>1, <1>6 DEF TypeOK, DeleteFails
  <1> QED
    BY <1>2, <1>3, <1>4, <1>5, <1>6

LEMMA StepTyped == TypeOK /\ [Next]_vars => TypeOK'
  <1> SUFFICES ASSUME TypeOK, [Next]_vars PROVE TypeOK'
    OBVIOUS
  <1>1. CASE UNCHANGED vars
    BY <1>1 DEF TypeOK, vars, database, memory, history
  <1> QED
    BY <1>1, RunTyped, OtherTyped DEF Next

\* Every variable keeps its kind, for any runs, roles, deletions and bounds.
THEOREM SessionTypes == Spec => []TypeOK
  BY InitTyped, StepTyped, PTL DEF Spec
(***************************************************************************)
(* One instance for each role.                                             *)
(***************************************************************************)
LEMMA EnsureUnique ==
  ASSUME TypeOK, OneInstancePerRole, NEW role, NEW i \in Instances, EnsureInstance(role, i),
         UpsertInstance(i) \/ UNCHANGED agents
  PROVE  OneInstancePerRole'
  <1>1. CASE i \in Existing(role) /\ EnsureFromRecord(i)
    BY <1>1 DEF OneInstancePerRole, Existing, EnsureFromRecord, UpsertInstance
  <1>2. CASE Existing(role) = {} /\ CreateSubagent(role, i)
    <2>1. i.role = role /\ pool' = pool \cup {i}
      BY <1>2 DEF CreateSubagent
    <2>2. \A j \in agents : j.role # role
      BY <1>2 DEF Existing
    <2> QED
      BY <2>1, <2>2 DEF OneInstancePerRole, UpsertInstance
  <1> QED
    BY <1>1, <1>2 DEF EnsureInstance

LEMMA StepUnique == TypeOK /\ OneInstancePerRole /\ [Next]_vars => OneInstancePerRole'
  <1> SUFFICES ASSUME TypeOK, OneInstancePerRole, [Next]_vars PROVE OneInstancePerRole'
    OBVIOUS
  <1> USE DEF memory, database, history
  <1>1. CASE UNCHANGED vars
    BY <1>1 DEF OneInstancePerRole, vars
  <1>2. ASSUME NEW r \in Runs, TakeCoordinator(r) PROVE OneInstancePerRole'
    <2>1. PICK i \in Instances : /\ EnsureInstance(Coordinator, i)
                                 /\ UpsertInstance(i) \/ UNCHANGED agents
      BY <1>2 DEF TakeCoordinator
    <2> QED
      BY <2>1, EnsureUnique
  <1>3. ASSUME NEW r \in Runs, Delegate(r) PROVE OneInstancePerRole'
    <2>1. PICK role \in Roles \ {Coordinator}, i \in Instances :
            EnsureInstance(role, i) /\ UpsertInstance(i)
      BY <1>3 DEF Delegate
    <2> QED
      BY <2>1, EnsureUnique
  <1>4. ASSUME NEW r \in Runs,
               \/ Ensure(r) \/ CreateRun(r) \/ Start(r) \/ CreateRoot(r) \/ Execute(r)
               \/ Record(r) \/ Remember(r) \/ Complete(r) \/ WorkerEnds(r) \/ Finalize(r)
        PROVE  UNCHANGED <<agents, pool>>
    BY <1>4 DEF Ensure, CreateRun, Start, CreateRoot, Execute, Record, Remember, Complete,
       WorkerEnds, Finalize, Fails
  <1>5. ASSUME Reflect \/ \E d \in Deleters : DeleteLook(d) \/ DeleteFails(d)
        PROVE  UNCHANGED <<agents, pool>>
    BY <1>5 DEF Reflect, DeleteLook, DeleteFails
  <1>6. ASSUME NEW d \in Deleters, DeleteStep(d) PROVE OneInstancePerRole'
    <2>1. agents' \subseteq agents /\ pool' = pool
      BY <1>6 DEF DeleteStep, RemovedFrom
    <2> QED
      BY <2>1 DEF OneInstancePerRole
  <1>7. CASE Crash
    BY <1>7 DEF Crash, OneInstancePerRole
  <1>8. UNCHANGED <<agents, pool>> => OneInstancePerRole'
    BY DEF OneInstancePerRole
  <1> QED
    BY <1>1, <1>2, <1>3, <1>4, <1>5, <1>6, <1>7, <1>8 DEF Next, Work

\* Whatever deletions and restarts do, a session has one instance of a role, in the pool.
THEOREM SessionRoleInstance == Spec => []OneInstancePerRole
  <1>1. Init => OneInstancePerRole
    BY DEF Init, OneInstancePerRole
  <1> QED
    BY <1>1, InitTyped, StepTyped, StepUnique, PTL DEF Spec

(***************************************************************************)
(* Deletions that fail and are tried again.                                *)
(***************************************************************************)
\* A step removes its table and brings nothing back to another.
LEMMA Removed ==
  ASSUME NEW table, NEW found, RemovedFrom(table, found),
         table = "shared" => shared \subseteq found,
         table = "jobs" => files \subseteq RolesOf(found)
  PROVE  /\ Gone(table)'
         /\ \A other : Gone(other) => Gone(other)'
         /\ shared' \subseteq shared /\ files' \subseteq files
         /\ table # "agents" => agents' = agents
  BY DEF RemovedFrom, Gone, SharedLeft, FilesLeft

LEMMA GoneStays == ASSUME UNCHANGED database PROVE \A table : Gone(table) <=> Gone(table)'
  BY DEF Gone, database

\* What a step of a run may do to the rows a deletion goes by.
RunStep(r) ==
  /\ UNCHANGED <<del, files>>
  /\ ~met' => ~met /\ (~Deletes \/ AtWork(r))
  /\ AtWork(r) \/ (run[r] = "none" /\ uses' = uses /\ ~emptied')
  /\ emptied' => emptied
  /\ agents \subseteq agents' /\ shared' \subseteq shared \cup uses[r]
  /\ shared' # shared => AtWork(r)
  /\ \A q \in Runs \ {r} : run'[q] = run[q] /\ uses'[q] = uses[q]
  /\ run'[r] # "none" /\ uses'[r] \subseteq uses[r] \cup agents'

LEMMA Meeting == ASSUME Meets PROVE ~met' => ~met /\ ~Deletes
  BY DEF Meets

LEMMA RunSteps ==
  ASSUME TypeOK, NEW r \in Runs, Ensure(r) \/ CreateRun(r) \/ Work(r)
  PROVE  RunStep(r)
  <1> USE DEF TypeOK, RunStep, AtWork, Moves, memory, database
  <1>1. CASE Ensure(r)
    BY <1>1, Meeting DEF Ensure
  <1>2. CASE CreateRun(r)
    BY <1>2, Meeting DEF CreateRun
  <1>3. CASE Start(r)
    BY <1>3, Meeting DEF Start
  <1>4. CASE CreateRoot(r)
    BY <1>4, Meeting DEF CreateRoot
  <1>5. CASE Execute(r)
    BY <1>5, Meeting DEF Execute, Fails
  <1>6. CASE Record(r)
    BY <1>6, Meeting DEF Record
  <1>7. CASE Remember(r)
    BY <1>7, Meeting DEF Remember, WriteMemory
  <1>8. CASE Complete(r)
    BY <1>8, Meeting DEF Complete, Fails
  <1>9. CASE WorkerEnds(r)
    BY <1>9, Meeting DEF WorkerEnds
  <1>10. CASE Finalize(r)
    BY <1>10 DEF Finalize
  <1>11. CASE TakeCoordinator(r)
    <2>1. PICK i \in Instances :
            \/ Moves(r, "failing") /\ UNCHANGED <<agents, uses>>
            \/ /\ Moves(r, "ready") /\ UpsertInstance(i)
               /\ uses' = [uses EXCEPT ![r] = @ \cup {i}]
      BY <1>11 DEF TakeCoordinator
    <2> QED
      BY <1>11, <2>1, Meeting DEF TakeCoordinator, UpsertInstance
  <1>12. CASE Delegate(r)
    <2>1. PICK i \in Instances : UpsertInstance(i) /\ uses' = [uses EXCEPT ![r] = @ \cup {i}]
      BY <1>12 DEF Delegate
    <2> QED
      BY <1>12, <2>1, Meeting DEF Delegate, UpsertInstance
  <1> QED
    BY <1>1, <1>2, <1>3, <1>4, <1>5, <1>6, <1>7, <1>8, <1>9, <1>10, <1>11, <1>12 DEF Work

LEMMA RunKeeps ==
  ASSUME DInv, NEW r \in Runs, RunStep(r)
  PROVE  Unused' /\ (~met' => Unmet')
  <1>1. Unused'
    BY DEF DInv, Unused, RunStep
  <1>2. ASSUME ~met' PROVE Unmet'
    <2>1. Unmet /\ (~Deletes \/ AtWork(r))
      BY <1>2 DEF RunStep, DInv
    <2>2. ~Deletes
      BY <2>1 DEF Unmet, Deleting, NoWork, Deletes
    <2>3. Deleting'
      BY <2>2 DEF Deleting, Deletes, RunStep
    <2>4. ~emptied'
      BY <2>1 DEF RunStep, Unmet, Deleted, NoWork
    <2>5. AtWork(r) => uses[r] \subseteq agents
      BY <2>1 DEF Unmet, Rooted
    <2>6. Known'
      BY <2>1, <2>5 DEF Unmet, Known, RunStep, RolesOf
    <2>7. uses'[r] \subseteq agents'
      BY <2>5 DEF RunStep, DInv, Unused
    <2>8. ASSUME NEW q \in Runs \ {r}, AtWork(q)' PROVE uses'[q] \subseteq agents'
      BY <2>1, <2>8 DEF Unmet, Rooted, RunStep, AtWork
    <2> QED
      BY <2>3, <2>4, <2>6, <2>7, <2>8 DEF Unmet, Deleted, Rooted
  <1> QED
    BY <1>1, <1>2

LEMMA LookKeeps ==
  ASSUME DInv, NEW d \in Deleters, DeleteLook(d)
  PROVE  Unused' /\ (~met' => Unmet')
  <1> USE DEF DeleteLook, memory, database
  <1>1. Unused'
    BY DEF DInv, Unused
  <1>2. ASSUME ~met' PROVE Unmet'
    <2>1. Unmet /\ NoWork
      BY <1>2 DEF DInv, NoWork
    <2>2. \A table : Gone(table) <=> Gone(table)'
      BY GoneStays
    <2>3. NoWork'
      BY <2>1 DEF NoWork, AtWork
    <2>4. del'[d] = [at |-> 1, agents |-> agents] /\ \A e \in Deleters \ {d} : del'[e] = del[e]
      BY DEF DInv, TypeOK
    <2>5. Deleting'
      <3> SUFFICES ASSUME NEW e \in Deleters, del'[e].at # 0
                   PROVE  /\ shared \subseteq del'[e].agents
                          /\ files \subseteq RolesOf(del'[e].agents)
                          /\ \A k \in 1..(del'[e].at - 1) : Gone(Order[k])'
        BY <2>3 DEF Deleting
      <3>1. CASE e = d
        BY <2>1, <2>4, <3>1 DEF Unmet, Known
      <3>2. CASE e # d
        BY <2>1, <2>2, <2>4, <3>2 DEF Unmet, Deleting
      <3> QED
        BY <3>1, <3>2
    <2>6. Deleted'
      BY <2>1, <2>2, <2>3 DEF Unmet, Deleted
    <2>7. Known' /\ Rooted'
      BY <2>1 DEF Unmet, Known, Rooted, AtWork
    <2> QED
      BY <2>5, <2>6, <2>7 DEF Unmet
  <1> QED
    BY <1>1, <1>2

LEMMA StepKeeps ==
  ASSUME DInv, NEW d \in Deleters, DeleteStep(d)
  PROVE  Unused' /\ (~met' => Unmet')
  <1>0. PICK at, table, found : at = del[d].at /\ table = Order[at] /\ found = del[d].agents
    OBVIOUS
  <1>1. /\ at # 0 /\ RemovedFrom(table, found)
        /\ UNCHANGED <<run, uses, met>>
        /\ del' = [del EXCEPT ![d] = IF at = 11 THEN Idle
                                     ELSE [@ EXCEPT !.at = at + 1]]
        /\ emptied' = (at = 11)
    BY <1>0, OrderFacts DEF DeleteStep, memory
  <1>2. at \in 1..11
    BY <1>0, <1>1, OrderFacts DEF DInv, TypeOK, Deletion
  <1>3. Unused'
    BY <1>1 DEF DInv, Unused
  <1>4. ASSUME ~met' PROVE Unmet'
    <2>1. Unmet
      BY <1>1, <1>4 DEF DInv
    <2>2. /\ NoWork
          /\ shared \subseteq found /\ files \subseteq RolesOf(found)
          /\ \A k \in 1..(at - 1) : Gone(Order[k])
      BY <1>0, <1>1, <2>1 DEF Unmet, Deleting
    <2>3. /\ Gone(table)'
          /\ \A other : Gone(other) => Gone(other)'
          /\ shared' \subseteq shared /\ files' \subseteq files
          /\ table # "agents" => agents' = agents
      BY <1>1, <2>2, Removed
    <2>4. \A k \in 1..at : Gone(Order[k])'
      BY <1>0, <1>2, <2>2, <2>3
    <2>5. NoWork'
      BY <1>1, <2>2 DEF NoWork, AtWork
    <2>6. Deleting'
      <3> SUFFICES ASSUME NEW e \in Deleters, del'[e].at # 0
                   PROVE  /\ shared' \subseteq del'[e].agents
                          /\ files' \subseteq RolesOf(del'[e].agents)
                          /\ \A k \in 1..(del'[e].at - 1) : Gone(Order[k])'
        BY <2>5 DEF Deleting
      <3>1. CASE e = d
        <4>1. del'[d].at = at + 1 /\ del'[d].agents = found
          BY <1>0, <1>1, <1>2, <3>1 DEF DInv, TypeOK, Deletion, Idle
        <4> QED
          BY <1>2, <2>2, <2>3, <2>4, <3>1, <4>1
      <3>2. CASE e # d
        BY <1>1, <2>1, <2>3, <3>2 DEF Unmet, Deleting, DInv, TypeOK
      <3> QED
        BY <3>1, <3>2
    <2>7. Deleted'
      BY <1>1, <2>4, <2>5 DEF Deleted
    <2>8. Known'
      <3>1. CASE table = "agents"
        <4>1. at = 8
          BY <1>0, <1>2, <3>1, OrderFacts
        <4>2. Gone("shared") /\ Gone("jobs")
          BY <2>2, <4>1, OrderFacts
        <4> QED
          BY <2>3, <4>2 DEF Known, Gone
      <3>2. CASE table # "agents"
        BY <2>1, <2>3, <3>2 DEF Unmet, Known
      <3> QED
        BY <3>1, <3>2
    <2>9. Rooted'
      BY <2>5 DEF NoWork, Rooted
    <2> QED
      BY <2>6, <2>7, <2>8, <2>9 DEF Unmet
  <1> QED
    BY <1>3, <1>4

LEMMA OtherKeeps ==
  ASSUME DInv, Reflect \/ Crash \/ UNCHANGED vars \/ \E d \in Deleters : DeleteFails(d)
  PROVE  Unused' /\ (~met' => Unmet')
  <1> USE DEF memory, database, history
  <1>1. CASE Reflect
    <2>1. Unused'
      BY <1>1 DEF Reflect, DInv, Unused
    <2>2. ASSUME ~met' PROVE Unmet'
      <3>1. Unmet /\ ~Deletes
        BY <1>1, <2>2 DEF Reflect, Meets, DInv
      <3>2. ~emptied
        BY <1>1, <3>1, OrderFacts DEF Reflect, Unmet, Deleted, Gone
      <3>3. Deleting' /\ Deleted'
        BY <1>1, <3>1, <3>2 DEF Reflect, Deleting, Deleted, Deletes
      <3>4. Known'
        BY <1>1, <3>1 DEF Reflect, Unmet, Known
      <3>5. Rooted'
        BY <1>1, <3>1 DEF Reflect, Unmet, Rooted, AtWork
      <3> QED
        BY <3>3, <3>4, <3>5 DEF Unmet
    <2> QED
      BY <2>1, <2>2
  <1>2. CASE Crash
    <2>1. /\ UNCHANGED <<session, rows, runtime, tasks, agents, shared, files, dirs, met, emptied>>
          /\ \A d \in Deleters : del'[d].at = 0
          /\ \A r \in Runs : run'[r] \in {"none", "over"} /\ uses'[r] = {}
      BY <1>2 DEF Crash, Idle, AtWork
    <2>2. Unused' /\ NoWork'
      BY <2>1 DEF Unused, NoWork, AtWork
    <2>3. ASSUME ~met' PROVE Unmet'
      <3>1. Unmet
        BY <2>1, <2>3 DEF DInv
      <3>2. Deleted'
        BY <2>1, <2>2, <3>1, GoneStays DEF Unmet, Deleted
      <3>3. Known'
        BY <2>1, <3>1 DEF Unmet, Known
      <3> QED
        BY <2>1, <2>2, <3>2, <3>3 DEF Unmet, Deleting, Rooted, NoWork
    <2> QED
      BY <2>2, <2>3
  <1>3. ASSUME NEW d \in Deleters, DeleteFails(d) PROVE Unused' /\ (~met' => Unmet')
    <2>1. /\ UNCHANGED <<session, rows, runtime, tasks, agents, shared, files, dirs, met,
                         emptied, run, uses>>
          /\ \A e \in Deleters : del'[e].at = 0 \/ del'[e] = del[e]
      BY <1>3 DEF DeleteFails, Idle, DInv, TypeOK
    <2>2. \A table : Gone(table) <=> Gone(table)'
      BY <2>1, GoneStays
    <2>3. Unused' /\ (NoWork => NoWork')
      BY <2>1 DEF DInv, Unused, NoWork, AtWork
    <2>4. ASSUME ~met' PROVE Unmet'
      <3>1. Unmet
        BY <2>1, <2>4 DEF DInv
      <3>2. Deleting'
        BY <2>1, <2>2, <2>3, <3>1 DEF Unmet, Deleting
      <3>3. Deleted'
        BY <2>1, <2>2, <2>3, <3>1 DEF Unmet, Deleted
      <3>4. Known' /\ Rooted'
        BY <2>1, <3>1 DEF Unmet, Known, Rooted, AtWork
      <3> QED
        BY <3>2, <3>3, <3>4 DEF Unmet
    <2> QED
      BY <2>3, <2>4
  <1>4. CASE UNCHANGED vars
    <2>1. \A table : Gone(table) <=> Gone(table)'
      BY <1>4, GoneStays DEF vars
    <2> QED
      BY <1>4, <2>1 DEF vars, DInv, Unused, Unmet, Deleting, Deleted, Known, Rooted, NoWork,
         AtWork
  <1> QED
    BY <1>1, <1>2, <1>3, <1>4

LEMMA StepDInv == DInv /\ [Next]_vars => DInv'
  <1> SUFFICES ASSUME DInv, [Next]_vars PROVE DInv'
    OBVIOUS
  <1>1. TypeOK'
    BY StepTyped DEF DInv
  <1>2. ASSUME NEW r \in Runs, Ensure(r) \/ CreateRun(r) \/ Work(r)
        PROVE  Unused' /\ (~met' => Unmet')
    <2>1. TypeOK
      BY DEF DInv
    <2> QED
      BY <1>2, <2>1, RunSteps, RunKeeps
  <1>3. Unused' /\ (~met' => Unmet')
    BY <1>2, LookKeeps, StepKeeps, OtherKeeps DEF Next
  <1> QED
    BY <1>1, <1>3 DEF DInv

LEMMA InitDInv == Init => DInv
  <1> SUFFICES ASSUME Init PROVE DInv
    OBVIOUS
  <1>1. Unused
    BY DEF Init, Unused
  <1>2. Deleting
    BY DEF Init, Deleting, Idle
  <1>3. Deleted /\ Known /\ Rooted
    BY DEF Init, Deleted, Known, Rooted
  <1> QED
    BY <1>1, <1>2, <1>3, InitTyped DEF DInv, Unmet

\* While the session can be named, no shared state or memory file is out of reach of a
\* deletion, wherever earlier ones failed.
THEOREM SessionFindable == Spec => []Findable
  <1>1. DInv => Findable
    BY DEF DInv, Unmet, Known, Findable
  <1> QED
    BY <1>1, InitDInv, StepDInv, PTL DEF Spec

\* A deletion that runs to its end leaves nothing, if no run was at work meanwhile.
THEOREM SessionDeletion == Spec => []DeletionEmpties
  <1>1. DInv => DeletionEmpties
    <2> SUFFICES ASSUME DInv, emptied, ~met
                 PROVE  /\ rows = {} /\ shared = {} /\ files = {} /\ ~dirs
                        /\ tasks = {} /\ agents = {}
                        /\ \A r \in Runs : runtime[r] = None
      BY DEF DeletionEmpties
    <2>1. \A k \in 1..11 : Gone(Order[k])
      BY DEF DInv, Unmet, Deleted
    <2>2. /\ Gone("messages") /\ Gone("events") /\ Gone("tickets") /\ Gone("jobs")
          /\ Gone("usage")
      BY <2>1, OrderFacts
    <2>3. /\ Gone("shared") /\ Gone("runtime") /\ Gone("tasks") /\ Gone("agents")
          /\ Gone("dirs")
      BY <2>1, OrderFacts
    <2>4. rows = {}
      BY <2>2 DEF DInv, TypeOK, Tables, Gone
    <2> QED
      BY <2>2, <2>3, <2>4 DEF Gone
  <1> QED
    BY <1>1, InitDInv, StepDInv, PTL DEF Spec

(***************************************************************************)
(* The runs of a session follow one another, and one of them is shown.     *)
(***************************************************************************)
\* The places of a run that has a record to show.
Shown == Places \ {"none", "ensured", "over"}

\* There is one run at work or to be resumed, and it is the active one: nothing else is created
\* meanwhile.  No run has a record before it is created.
OneActive == \A r \in Runs : Life[r] = "active" => active = r
Begun     == \A r \in Runs : Recoverable(r) => run[r] \notin {"none", "ensured"}
InTurn    == OneActive /\ Begun

LEMMA LifeIs ==
  ASSUME NEW r \in Runs
  PROVE  Life[r] = IF run[r] \in {"none", "ensured"} THEN "none"
                   ELSE IF AtWork(r) \/ Recoverable(r) THEN "active" ELSE "ended"
  BY DEF Life

LEMMA WorkMoves ==
  ASSUME TypeOK, NEW r \in Runs, Work(r)
  PROVE  /\ run[r] \in Shown /\ \A q \in Runs \ {r} : run'[q] = run[q] /\ runtime'[q] = runtime[q]
         /\ \/ run'[r] \in Shown /\ active' = active
            \/ /\ run'[r] = "over" /\ UNCHANGED runtime
               /\ active' = IF Recoverable(r) THEN r ELSE IF active = r THEN None ELSE active
  <1> USE DEF TypeOK, Shown, Places, Moves, memory, database, PutRecord
  <1>1. CASE Start(r)
    BY <1>1 DEF Start
  <1>2. CASE CreateRoot(r)
    BY <1>2 DEF CreateRoot
  <1>3. CASE TakeCoordinator(r)
    BY <1>3 DEF TakeCoordinator
  <1>4. CASE Execute(r)
    BY <1>4 DEF Execute, Fails
  <1>5. CASE Delegate(r)
    BY <1>5 DEF Delegate
  <1>6. CASE Record(r)
    BY <1>6 DEF Record
  <1>7. CASE Remember(r)
    BY <1>7 DEF Remember
  <1>8. CASE Complete(r)
    BY <1>8 DEF Complete, Fails
  <1>9. CASE WorkerEnds(r)
    BY <1>9 DEF WorkerEnds
  <1>10. CASE Finalize(r)
    BY <1>10 DEF Finalize
  <1> QED
    BY <1>1, <1>2, <1>3, <1>4, <1>5, <1>6, <1>7, <1>8, <1>9, <1>10 DEF Work

\* Where every life stays as it is or ends, the session's promise is kept.
LEMMA LivesGoOn ==
  ASSUME \A r \in Runs : Life'[r] = Life[r] \/ Life'[r] = "ended"
  PROVE  Lives!Next
  <1> DEFINE R == {r \in Runs : Life'[r] # Life[r]}
  <1>1. Life' = [r \in Runs |-> IF r \in R THEN "ended" ELSE Life[r]]
    BY DEF Life
  <1>2. Lives!End(R)
    BY <1>1 DEF Lives!End
  <1> QED
    BY <1>2 DEF Lives!Next

LEMMA StepInTurn ==
  TypeOK /\ InTurn /\ [Next]_vars
    => InTurn' /\ [Lives!Next]_<<Life, [r \in Runs |-> "session"], {}>>
  <1> SUFFICES ASSUME TypeOK, InTurn, [Next]_vars PROVE InTurn' /\ Lives!Next
    OBVIOUS
  <1> USE DEF InTurn
  <1>1. ASSUME UNCHANGED <<run, runtime, active>> PROVE InTurn' /\ Lives!Next
    <2>1. Life' = Life
      BY <1>1 DEF Life, AtWork, Recoverable
    <2> QED
      BY <1>1, <2>1, LivesGoOn DEF OneActive, Begun, Recoverable
  <1>2. ASSUME NEW r \in Runs, Ensure(r) PROVE InTurn' /\ Lives!Next
    <2>1. /\ run[r] = "none" /\ run' = [run EXCEPT ![r] = "ensured"]
          /\ UNCHANGED <<runtime, active>>
      BY <1>2 DEF Ensure, Moves
    <2>2. \A q \in Runs : Life'[q] = Life[q]
      BY <2>1 DEF Life, AtWork, Recoverable, TypeOK
    <2>3. OneActive' /\ Begun'
      BY <2>1, <2>2 DEF OneActive, Begun, Recoverable, TypeOK
    <2> QED
      BY <2>2, <2>3, LivesGoOn
  <1>3. ASSUME NEW r \in Runs, CreateRun(r) PROVE InTurn' /\ Lives!Next
    <2>1. /\ run[r] = "ensured" /\ run' = [run EXCEPT ![r] = "queued"]
          /\ runtime' = [runtime EXCEPT ![r] = "queued"] /\ active' = r
          /\ active # None => ~AtWork(active) /\ ~Recoverable(active)
      BY <1>3 DEF CreateRun, Moves, PutRecord
    <2>2. \A q \in Runs : Life[q] # "active"
      <3> SUFFICES ASSUME NEW q \in Runs, Life[q] = "active" PROVE FALSE
        OBVIOUS
      <3>1. active = q /\ q # None
        BY NoneAssumption DEF OneActive
      <3> QED
        BY <2>1, <3>1, LifeIs
    <2>3. \A q \in Runs : Life'[q] = IF q = r THEN "active" ELSE Life[q]
      BY <2>1 DEF Life, AtWork, Recoverable, TypeOK
    <2>4. Life[r] = "none" /\ Life' = [Life EXCEPT ![r] = "active"]
      BY <2>1, <2>3 DEF Life
    <2>5. Lives!Begin(r, "session")
      BY <2>2, <2>4 DEF Lives!Begin, Lives!Active
    <2>6. OneActive' /\ Begun'
      BY <2>1, <2>2, <2>3 DEF OneActive, Begun, Recoverable, TypeOK
    <2> QED
      BY <2>5, <2>6 DEF Lives!Next
  <1>4. ASSUME NEW r \in Runs, Work(r) PROVE InTurn' /\ Lives!Next
    <2>1. /\ run[r] \in Shown
          /\ \A q \in Runs \ {r} : run'[q] = run[q] /\ runtime'[q] = runtime[q]
          /\ \/ run'[r] \in Shown /\ active' = active
             \/ /\ run'[r] = "over" /\ UNCHANGED runtime
                /\ active' = IF Recoverable(r) THEN r ELSE IF active = r THEN None ELSE active
      BY <1>4, WorkMoves
    <2>2. Life[r] = "active" /\ active = r
      BY <2>1, LifeIs DEF AtWork, Shown, OneActive
    <2>3. \A q \in Runs \ {r} : Life'[q] = Life[q] /\ Life[q] # "active"
      BY <2>1, <2>2 DEF Life, AtWork, Recoverable, OneActive
    <2>4. \/ Life'[r] = "active" /\ active' = r
          \/ Life'[r] = "ended"
      BY <2>1, <2>2 DEF Life, AtWork, Recoverable, Shown
    <2>5. OneActive'
      BY <2>3, <2>4 DEF OneActive
    <2>6. Begun'
      BY <2>1 DEF Begun, Recoverable, Shown
    <2> QED
      BY <2>2, <2>3, <2>4, <2>5, <2>6, LivesGoOn
  <1>5. ASSUME NEW d \in Deleters, DeleteStep(d) PROVE InTurn' /\ Lives!Next
    <2>1. /\ UNCHANGED <<run, active>>
          /\ runtime' = runtime \/ runtime' = [r \in Runs |-> None]
      BY <1>5 DEF DeleteStep, RemovedFrom, memory
    <2>2. CASE UNCHANGED runtime
      BY <1>1, <2>1, <2>2
    <2>3. CASE runtime' = [r \in Runs |-> None]
      <3>1. \A r \in Runs : ~Recoverable(r)'
        BY <2>3, StatusAssumption DEF Recoverable
      <3>2. \A r \in Runs : Life'[r] = Life[r] \/ Life'[r] = "ended"
        BY <2>1, <3>1 DEF Life, AtWork
      <3>3. OneActive' /\ Begun'
        BY <2>1, <3>1, <3>2 DEF OneActive, Begun
      <3> QED
        BY <3>2, <3>3, LivesGoOn
    <2> QED
      BY <2>1, <2>2, <2>3
  <1>6. ASSUME NEW d \in Deleters, DeleteLook(d) \/ DeleteFails(d)
        PROVE  UNCHANGED <<run, runtime, active>>
    BY <1>6 DEF DeleteLook, DeleteFails, memory, database
  <1>7. ASSUME Reflect \/ UNCHANGED vars PROVE UNCHANGED <<run, runtime, active>>
    BY <1>7 DEF Reflect, memory, vars, database
  <1>8. CASE Crash
    <2>1. /\ run' = [r \in Runs |-> IF AtWork(r) THEN "over" ELSE run[r]] /\ UNCHANGED runtime
          /\ active' = None <=> \A q \in Runs : ~Recoverable(q)
          /\ active' # None => Recoverable(active') /\ active' \in Runs
      BY <1>8 DEF Crash, database
    <2>2. \A q \in Runs : Recoverable(q) => Life[q] = "active"
      BY LifeIs DEF Begun
    <2>3. \A q \in Runs : IF Recoverable(q) THEN Life'[q] = "active"
                          ELSE \/ Life'[q] = Life[q] /\ Life[q] # "active"
                               \/ Life'[q] = "ended"
      BY <2>1 DEF Life, AtWork, Recoverable, Begun
    <2>4. OneActive'
      <3> SUFFICES ASSUME NEW q \in Runs, Life'[q] = "active" PROVE active' = q
        BY DEF OneActive
      <3>1. Recoverable(q)
        BY <2>3
      <3>2. active' # None
        BY <2>1, <3>1
      <3>3. active = q /\ active = active'
        BY <2>1, <2>2, <3>1, <3>2 DEF OneActive
      <3> QED
        BY <3>3
    <2>5. Begun'
      BY <2>1 DEF Begun, Recoverable, AtWork
    <2> QED
      BY <2>2, <2>3, <2>4, <2>5, LivesGoOn
  <1> QED
    BY <1>1, <1>2, <1>3, <1>4, <1>5, <1>6, <1>7, <1>8 DEF Next

\* Before anything happens no run has a life or a record.
LEMMA InitInTurn == Init => InTurn /\ Lives!Init
  BY StatusAssumption DEF Init, InTurn, OneActive, Begun, Recoverable, Life, Lives!Init

\* Whatever deletions and crashes do, the runs of a session follow one another: none is created
\* while another is at work or can be resumed, and none that has ended works again.
THEOREM SessionInTurn == Spec => RunsInTurn
  BY InitInTurn, InitTyped, StepTyped, StepInTurn, PTL DEF Spec, RunsInTurn, Lives!Spec

\* A run at work is shown as the active run of its session, unless its record was deleted,
\* for any number of runs and whatever deletions and crashes do.
THEOREM SessionShown == Spec => []WorkShown
  <1>1. InTurn => WorkShown
    <2> SUFFICES ASSUME InTurn, NEW r \in Runs, run[r] \in Shown, runtime[r] # None
                 PROVE  Selected # {}
      BY DEF WorkShown, Shown
    <2>1. Life[r] = "active"
      BY LifeIs DEF Shown, AtWork
    <2>2. active = r
      BY <2>1 DEF InTurn, OneActive
    <2> QED
      BY <2>2, NoneAssumption DEF Selected
  <1> QED
    BY <1>1, InitInTurn, InitTyped, StepTyped, StepInTurn, PTL DEF Spec

(***************************************************************************)
(*                              The rounds                                 *)
(***************************************************************************)
\* Times are in the past, a run speaks after it got its root task, no two got it at once.
Clocked ==
  /\ \A r \in Runs : /\ root[r] <= clock /\ spoke[r] <= clock
                     /\ spoke[r] # 0 => root[r] # 0 /\ root[r] < spoke[r]
  /\ \A r, q \in Runs : root[r] = root[q] /\ root[r] # 0 => r = q

\* What a page was made from: older than the tables, but the runs the client must be given have
\* the time that they have in the table, and those that were not there yet are newer.
Snapshots ==
  /\ page.pc \in {"tasks", "messages"} =>
       /\ \A r \in Runs : page.root[r] \in {0, root[r]}
       /\ \A r \in known : page.root[r] = root[r]
       /\ cursor # None /\ ~ loose => page.root[cursor] = root[cursor]
       /\ \A r, q \in Runs : page.root[r] # 0 /\ page.root[q] = 0 /\ root[q] # 0 =>
                               root[r] < root[q]
  /\ page.pc = "messages" => \A r \in Runs : page.spoke[r] \in {0, spoke[r]}

\* The rounds the client must be given have started.
KnownRooted == \A r \in known : root[r] # 0

\* The rounds it was given are those no older than the cursor, or all if the cursor has no time.
Progress ==
  /\ page.pc = "off" => /\ cursor = None /\ \A r \in known : served[r] > 0
                        /\ ~ loose => \A r \in known : served[r] = 1
  /\ page.pc # "off" =>
       /\ cursor = None => ~ loose /\ \A r \in known : served[r] = 0
       /\ cursor # None /\ ~ loose =>
            /\ root[cursor] # 0
            /\ \A r \in known : served[r] = IF root[r] >= root[cursor] THEN 1 ELSE 0
       /\ loose => \A r \in known : served[r] > 0

\* The inductive invariant.
RoundsInv == RoundsTypeOK /\ Clocked /\ Snapshots /\ KnownRooted /\ Progress

\* It holds at the start.
LEMMA RoundsInitially == RoundsInit => RoundsInv
<1> SUFFICES ASSUME RoundsInit PROVE RoundsInv
  OBVIOUS
<1>1. NoTimes \in [Runs -> Times] /\ \A r \in Runs : NoTimes[r] = 0
  BY DEF NoTimes, Times
<1>2. RoundsTypeOK
  <2>1. NoPage \in Page
    BY <1>1 DEF NoPage, Page
  <2>2. NoTimes \in [Runs -> 0..2]
    BY DEF NoTimes
  <2> QED BY <1>1, <2>1, <2>2 DEF RoundsInit, RoundsTypeOK, Times
<1>3. Clocked
  BY <1>1 DEF RoundsInit, Clocked
<1>4. Snapshots /\ KnownRooted /\ Progress
  BY DEF RoundsInit, Snapshots, KnownRooted, Progress, NoPage
<1> QED BY <1>2, <1>3, <1>4 DEF RoundsInv

\* The list of a page names every round once, the newest first.
LEMMA ListOfRounds ==
  ASSUME NEW rounds \in Rounds
  PROVE  /\ Len(rounds) \in Nat /\ rounds \in [1..Len(rounds) -> Runs]
         /\ \A i, j \in 1..Len(rounds) : rounds[i] = rounds[j] => i = j
         /\ \A r \in Runs : page.root[r] # 0 => \E i \in 1..Len(rounds) : rounds[i] = r
         /\ \A i, j \in 1..Len(rounds) : j <= i => CreatedAt(rounds[j]) >= CreatedAt(rounds[i])
<1> DEFINE found == {r \in Runs : page.root[r] # 0 \/ page.spoke[r] # 0 \/ record[r] # None}
<1>1. IsRounds(rounds) /\ \E n \in 0..Cardinality(Runs) : rounds \in [1..n -> Runs]
  BY DEF Rounds, ListsOf
<1>2. PICK n \in 0..Cardinality(Runs) : rounds \in [1..n -> Runs]
  BY <1>1
<1>3. n \in Nat /\ Len(rounds) = n
  BY <1>2
<1>4. /\ \A r \in found : \E i \in 1..n : rounds[i] = r
      /\ n = Cardinality(found)
      /\ \A i \in 1..n : rounds[i] \in found
  BY <1>1, <1>3 DEF IsRounds
<1>9. ASSUME NEW i \in 1..n, NEW j \in 1..n, j <= i
      PROVE  CreatedAt(rounds[j]) >= CreatedAt(rounds[i])
  <2>1. \A k \in 1..i : CreatedAt(rounds[k]) >= CreatedAt(rounds[i])
    BY <1>1, <1>3 DEF IsRounds
  <2> QED BY <1>3, <1>9, <2>1
<1>5. rounds \in Surjection(1..n, found)
  BY <1>2, <1>4 DEF Surjection
<1>6. IsFiniteSet(1..n) /\ Cardinality(1..n) = n
  BY <1>3, FS_Interval
<1>7. rounds \in Injection(1..n, found)
  BY <1>4, <1>5, <1>6, FS_Surjection
<1>8. \A i, j \in 1..n : rounds[i] = rounds[j] => i = j
  BY <1>2, <1>7 DEF Injection, IsInjective
<1> QED BY <1>2, <1>3, <1>4, <1>8, <1>9

(***************************************************************************)
(* The runs go on while a page is read.                                    *)
(***************************************************************************)
\* A run that starts while the client reads is newer than all that it must be given.
LEMMA RoundsRuns ==
  ASSUME RoundsInv, NEW r \in Runs, RunCreated(r) \/ RootCreated(r) \/ Speak(r) \/ End(r)
  PROVE  RoundsInv'
<1> USE DEF RoundsInv
<1>1. CASE RunCreated(r) \/ End(r)
  <2>1. UNCHANGED <<root, spoke, clock, page, cursor, served, known, loose>>
    BY <1>1 DEF RunCreated, End, client
  <2>2. RoundsTypeOK'
    BY <1>1, <2>1 DEF RunCreated, End, RoundsTypeOK
  <2>3. Clocked' /\ KnownRooted' /\ Progress'
    BY <2>1 DEF Clocked, KnownRooted, Progress
  <2>4. Snapshots'
    BY <2>1 DEF Snapshots
  <2> QED BY <2>2, <2>3, <2>4
<1>2. CASE RootCreated(r)
  <2>1. /\ UNCHANGED <<spoke, page, cursor, served, known, loose>> /\ root[r] = 0
        /\ clock \in Nat /\ clock' = clock + 1 /\ root \in [Runs -> Nat] /\ spoke \in [Runs -> Nat]
        /\ root' = [root EXCEPT ![r] = clock + 1]
    BY <1>2 DEF RootCreated, client, RoundsTypeOK, Times
  <2>2. RoundsTypeOK'
    BY <1>2, <2>1 DEF RootCreated, RoundsTypeOK, Times
  <2>3. Clocked'
    BY <2>1 DEF Clocked
  <2>4. r \notin known /\ (cursor # None /\ ~ loose /\ page.pc # "off" => cursor # r)
    BY <2>1 DEF KnownRooted, Progress
  <2>5. \A q \in Runs \ {r} : root'[q] = root[q]
    BY <2>1
  <2>6. KnownRooted'
    BY <2>1, <2>4, <2>5 DEF KnownRooted, RoundsTypeOK
  <2>7. Progress'
    BY <2>1, <2>4, <2>5 DEF Progress, RoundsTypeOK
  <2>8. Snapshots'
    <3>1. page.pc \in {"tasks", "messages"} => page.root[r] = 0
      BY <2>1 DEF Snapshots
    <3>2. \A q \in Runs : root[q] < root'[r]
      BY <2>1 DEF Clocked
    <3>3. ASSUME page.pc \in {"tasks", "messages"}
          PROVE  /\ \A q \in Runs : page.root[q] \in {0, root'[q]}
                 /\ \A q \in known : page.root[q] = root'[q]
      BY <2>1, <2>4, <2>5, <3>1, <3>3 DEF Snapshots, RoundsTypeOK
    <3>4. page.pc \in {"tasks", "messages"} /\ cursor # None /\ ~ loose =>
            page.root[cursor] = root'[cursor]
      BY <2>1, <2>4, <2>5 DEF Snapshots, RoundsTypeOK
    <3>5. ASSUME page.pc \in {"tasks", "messages"}, NEW p \in Runs, NEW q \in Runs,
                 page.root[p] # 0, page.root[q] = 0, root'[q] # 0
          PROVE  root'[p] < root'[q]
      <4>1. p # r
        BY <3>1, <3>5
      <4>2. CASE q = r
        BY <2>5, <3>2, <4>1, <4>2
      <4>3. CASE q # r
        BY <2>5, <3>5, <4>1, <4>3 DEF Snapshots
      <4> QED BY <4>2, <4>3
    <3>6. page.pc = "messages" => \A q \in Runs : page.spoke[q] \in {0, spoke[q]}
      BY DEF Snapshots
    <3> QED BY <2>1, <3>3, <3>4, <3>5, <3>6 DEF Snapshots
  <2> QED BY <2>2, <2>3, <2>6, <2>7, <2>8
<1>3. CASE Speak(r)
  <2>1. /\ UNCHANGED <<root, page, cursor, served, known, loose>> /\ root[r] # 0 /\ spoke[r] = 0
        /\ clock \in Nat /\ clock' = clock + 1 /\ root \in [Runs -> Nat] /\ spoke \in [Runs -> Nat]
        /\ spoke' = [spoke EXCEPT ![r] = clock + 1]
    BY <1>3 DEF Speak, client, RoundsTypeOK, Times
  <2>2. RoundsTypeOK'
    BY <1>3, <2>1 DEF Speak, RoundsTypeOK, Times
  <2>3. Clocked'
    BY <2>1 DEF Clocked
  <2>4. KnownRooted' /\ Progress'
    BY <2>1 DEF KnownRooted, Progress
  <2>5. page.pc = "messages" => \A q \in Runs : page.spoke[q] \in {0, spoke'[q]}
    BY <2>1 DEF Snapshots
  <2>6. Snapshots'
    BY <2>1, <2>5 DEF Snapshots
  <2> QED BY <2>2, <2>3, <2>4, <2>6
<1> QED BY <1>1, <1>2, <1>3

(***************************************************************************)
(* The client and its pages.                                               *)
(***************************************************************************)
\* The first page, and the reads of the tables.
LEMMA RoundsRead ==
  ASSUME RoundsInv, Begin \/ ReadTasks \/ ReadMessages PROVE RoundsInv'
<1> USE DEF RoundsInv
<1>1. CASE Begin
  <2>1. /\ page'.pc = "wait" /\ page' \in Page
        /\ UNCHANGED <<record, root, spoke, clock, cursor>> /\ cursor = None
        /\ known' = {r \in Runs : root[r] # 0} /\ served' = NoTimes /\ loose' = FALSE
    BY <1>1 DEF Begin, NoPage, Page, NoTimes, Times, tables
  <2>2. RoundsTypeOK'
    <3>1. NoTimes \in [Runs -> 0..2]
      BY DEF NoTimes
    <3> QED BY <2>1, <3>1 DEF RoundsTypeOK
  <2>3. Clocked' /\ Snapshots' /\ KnownRooted'
    BY <2>1 DEF Clocked, Snapshots, KnownRooted
  <2>4. Progress'
    BY <2>1 DEF Progress, NoTimes
  <2> QED BY <2>2, <2>3, <2>4
<1>2. CASE ReadTasks
  <2>1. /\ page'.pc = "tasks" /\ page'.root = root /\ page' \in Page /\ page.pc = "wait"
        /\ UNCHANGED <<record, root, spoke, clock, cursor, served, known, loose>>
    BY <1>2 DEF ReadTasks, Page, RoundsTypeOK, tables, client
  <2>2. RoundsTypeOK' /\ Clocked' /\ KnownRooted' /\ Progress'
    BY <2>1 DEF RoundsTypeOK, Clocked, KnownRooted, Progress
  <2>3. Snapshots'
    BY <2>1 DEF Snapshots
  <2> QED BY <2>2, <2>3
<1>3. CASE ReadMessages
  <2>1. /\ page'.pc = "messages" /\ page'.root = page.root /\ page'.spoke = spoke
        /\ page' \in Page /\ page.pc = "tasks"
        /\ UNCHANGED <<record, root, spoke, clock, cursor, served, known, loose>>
    BY <1>3 DEF ReadMessages, Page, RoundsTypeOK, tables, client
  <2>2. RoundsTypeOK' /\ Clocked' /\ KnownRooted' /\ Progress'
    BY <2>1 DEF RoundsTypeOK, Clocked, KnownRooted, Progress
  <2>3. Snapshots'
    BY <2>1 DEF Snapshots
  <2> QED BY <2>2, <2>3
<1> QED BY <1>1, <1>2, <1>3

\* Where the page begins: behind the round of the cursor, which the list has.
LEMMA PageBegins ==
  ASSUME RoundsInv, page.pc = "messages", ~ loose, NEW rounds \in Rounds
  PROVE  /\ NextIndex(rounds) \in 1..(Len(rounds) + 1)
         /\ \A i \in 1..Len(rounds) : rounds[i] \in known =>
              served[rounds[i]] = IF i < NextIndex(rounds) THEN 1 ELSE 0
<1> USE DEF RoundsInv
<1>1. /\ Len(rounds) \in Nat /\ rounds \in [1..Len(rounds) -> Runs]
      /\ \A i, j \in 1..Len(rounds) : rounds[i] = rounds[j] => i = j
      /\ \A r \in Runs : page.root[r] # 0 => \E i \in 1..Len(rounds) : rounds[i] = r
      /\ \A i, j \in 1..Len(rounds) : j <= i => CreatedAt(rounds[j]) >= CreatedAt(rounds[i])
  BY ListOfRounds
<1>2. root \in [Runs -> Nat] /\ \A r \in known : CreatedAt(r) = root[r] /\ root[r] # 0
  BY DEF CreatedAt, Snapshots, KnownRooted, RoundsTypeOK, Times
<1>3. CASE cursor = None
  <2>1. NextIndex(rounds) = 1
    BY <1>1, <1>3, NoneAssumption DEF NextIndex
  <2>2. \A r \in known : served[r] = 0
    BY <1>3 DEF Progress
  <2> QED BY <1>1, <2>1, <2>2
<1>4. CASE cursor # None
  <2>1. cursor \in Runs /\ root[cursor] # 0 /\ page.root[cursor] = root[cursor]
    BY <1>4 DEF Progress, Snapshots, RoundsTypeOK
  <2>2. PICK p \in 1..Len(rounds) : rounds[p] = cursor
    BY <1>1, <2>1
  <2>3. NextIndex(rounds) = p + 1
    BY <1>1, <2>2 DEF NextIndex
  <2>4. CreatedAt(cursor) = root[cursor]
    BY <2>1 DEF CreatedAt
  <2>5. ASSUME NEW i \in 1..Len(rounds), rounds[i] \in known
        PROVE  served[rounds[i]] = IF i < p + 1 THEN 1 ELSE 0
    <3> DEFINE r == rounds[i]
    <3>1. served[r] = IF root[r] >= root[cursor] THEN 1 ELSE 0
      BY <1>4, <2>5 DEF Progress
    <3>2. r \in Runs /\ root[r] \in Nat /\ root[cursor] \in Nat
      BY <1>1, <1>2, <2>1
    <3>3. CASE i <= p
      <4>1. root[r] >= root[cursor]
        BY <1>1, <1>2, <2>2, <2>4, <2>5, <3>3
      <4> QED BY <1>1, <3>1, <3>3, <4>1
    <3>4. CASE i > p
      <4>1. root[cursor] >= root[r]
        BY <1>1, <1>2, <2>2, <2>4, <2>5, <3>4
      <4>2. root[cursor] # root[r]
        BY <1>1, <2>1, <2>2, <3>2, <3>4 DEF Clocked
      <4> QED BY <1>1, <3>1, <3>2, <3>4, <4>1, <4>2
    <3> QED BY <1>1, <3>3, <3>4
  <2> QED BY <1>1, <2>3, <2>5
<1> QED BY <1>3, <1>4

\* What the client is given with a page: once what is up to its last round, the rest later.
LEMMA PageServes ==
  ASSUME RoundsInv, page.pc = "messages", ~ loose, NEW rounds \in Rounds, NEW last \in Int,
         last = Least(NextIndex(rounds) + Limit - 1, Len(rounds)),
         served' = [r \in Runs |->
           IF \E i \in NextIndex(rounds)..last : rounds[i] = r THEN Least(served[r] + 1, 2)
           ELSE served[r]]
  PROVE  /\ last \in 0..Len(rounds)
         /\ \A i \in 1..Len(rounds) : rounds[i] \in known =>
              served'[rounds[i]] = IF i <= last THEN 1 ELSE 0
<1> DEFINE start == NextIndex(rounds)
           n == Len(rounds)
<1>1. /\ n \in Nat /\ rounds \in [1..n -> Runs]
      /\ \A i, j \in 1..n : rounds[i] = rounds[j] => i = j
  BY ListOfRounds
<1>2. /\ start \in 1..(n + 1)
      /\ \A i \in 1..n : rounds[i] \in known => served[rounds[i]] = IF i < start THEN 1 ELSE 0
  BY PageBegins
<1>3. last \in 0..n /\ last >= start - 1
  BY <1>1, <1>2, LimitAssumption DEF Least
<1>4. ASSUME NEW i \in 1..n, rounds[i] \in known
      PROVE  served'[rounds[i]] = IF i <= last THEN 1 ELSE 0
  <2>1. (\E j \in start..last : rounds[j] = rounds[i]) <=> i \in start..last
    BY <1>1, <1>2, <1>3
  <2>2. served'[rounds[i]] = IF i \in start..last THEN Least(served[rounds[i]] + 1, 2)
                             ELSE served[rounds[i]]
    BY <1>1, <2>1
  <2>3. served[rounds[i]] = IF i < start THEN 1 ELSE 0
    BY <1>2, <1>4
  <2>4. CASE i < start
    BY <1>2, <1>3, <2>2, <2>3, <2>4
  <2>5. CASE i >= start /\ i <= last
    BY <1>2, <1>3, <2>2, <2>3, <2>5 DEF Least
  <2>6. CASE i >= start /\ i > last
    BY <1>2, <1>3, <2>2, <2>3, <2>6
  <2> QED BY <1>2, <1>3, <2>4, <2>5, <2>6
<1> QED BY <1>3, <1>4

\* The known rounds up to the last one of a page are those that are no older than it is.
LEMMA PageOrder ==
  ASSUME RoundsInv, page.pc = "messages", NEW rounds \in Rounds, NEW last \in 1..Len(rounds),
         NEW i \in 1..Len(rounds), rounds[i] \in known
  PROVE  IF CreatedAt(rounds[last]) = 0 THEN i <= last
         ELSE /\ root[rounds[last]] # 0
              /\ i <= last <=> root[rounds[i]] >= root[rounds[last]]
<1> USE DEF RoundsInv
<1> DEFINE r == rounds[i]
           c == rounds[last]
<1>1. /\ Len(rounds) \in Nat /\ rounds \in [1..Len(rounds) -> Runs]
      /\ i # last => r # c
      /\ i >= last => CreatedAt(c) >= CreatedAt(r)
      /\ i <= last => CreatedAt(r) >= CreatedAt(c)
  BY ListOfRounds
<1>2. r \in Runs /\ c \in Runs /\ root[r] \in Nat /\ root[c] \in Nat /\ spoke[c] \in Nat
  BY <1>1 DEF RoundsTypeOK, Times
<1>3. CreatedAt(r) = root[r] /\ page.root[r] = root[r] /\ root[r] # 0
  BY DEF CreatedAt, Snapshots, KnownRooted
<1>4. /\ page.root[c] \in {0, root[c]} /\ page.spoke[c] \in {0, spoke[c]}
      /\ spoke[c] # 0 => root[c] # 0 /\ root[c] < spoke[c]
      /\ page.root[c] = 0 /\ root[c] # 0 => root[r] < root[c]
      /\ r # c => root[r] # root[c]
  BY <1>2, <1>3 DEF Snapshots, Clocked
<1>5. CASE CreatedAt(c) = 0
  BY <1>1, <1>2, <1>3, <1>5
<1>6. CASE CreatedAt(c) # 0
  <2>1. root[c] # 0 /\ CreatedAt(c) >= root[c]
    BY <1>2, <1>4, <1>6 DEF CreatedAt
  <2>2. page.root[c] # 0 => CreatedAt(c) = root[c]
    BY <1>4 DEF CreatedAt
  <2>3. i <= last => root[r] >= root[c]
    <3> SUFFICES ASSUME i <= last PROVE root[r] >= root[c]
      OBVIOUS
    <3>1. CASE page.root[c] # 0
      BY <1>1, <1>2, <1>3, <2>2, <3>1
    <3>2. CASE page.root[c] = 0
      <4>1. CreatedAt(c) = spoke[c]
        BY <1>4, <1>6, <3>2 DEF CreatedAt
      <4> QED BY <1>1, <1>2, <1>3, <1>4, <2>1, <4>1
    <3> QED BY <3>1, <3>2
  <2>4. i > last => root[r] < root[c]
    <3> SUFFICES ASSUME i > last PROVE root[r] < root[c]
      OBVIOUS
    <3>1. r # c /\ CreatedAt(c) >= root[r]
      BY <1>1, <1>3
    <3>2. CASE page.root[c] # 0
      BY <1>2, <1>4, <2>2, <3>1, <3>2
    <3>3. CASE page.root[c] = 0
      BY <1>4, <2>1, <3>3
    <3> QED BY <3>2, <3>3
  <2> QED BY <1>1, <1>2, <1>6, <2>1, <2>3, <2>4
<1> QED BY <1>5, <1>6

\* A cursor that has a time names a run that has started.
LEMMA CursorStarted ==
  ASSUME RoundsInv, page.pc = "messages", NEW c \in Runs, CreatedAt(c) # 0 PROVE root[c] # 0
BY DEF RoundsInv, CreatedAt, Snapshots, Clocked

\* A page served, and the cursor for the next.
LEMMA RoundsServe == ASSUME RoundsInv, Serve PROVE RoundsInv'
<1> USE DEF RoundsInv
<1>1. PICK rounds \in Rounds :
        LET start == NextIndex(rounds)
            last  == Least(start + Limit - 1, Len(rounds))
            more  == start + Limit - 1 < Len(rounds) /\ start <= last IN
        /\ served' = [r \in Runs |->
             IF \E i \in start..last : rounds[i] = r THEN Least(served[r] + 1, 2)
             ELSE served[r]]
        /\ cursor' = IF more THEN rounds[last] ELSE None
        /\ loose' = (loose \/ (more /\ CreatedAt(rounds[last]) = 0))
        /\ page' = [NoPage EXCEPT !.pc = IF more THEN "wait" ELSE "off"]
  BY DEF Serve
<1> DEFINE n == Len(rounds)
           start == NextIndex(rounds)
           last == Least(start + Limit - 1, n)
           more == start + Limit - 1 < n /\ start <= last
<1>2. /\ served' = [r \in Runs |->
             IF \E i \in start..last : rounds[i] = r THEN Least(served[r] + 1, 2)
             ELSE served[r]]
      /\ cursor' = IF more THEN rounds[last] ELSE None
      /\ loose' = (loose \/ (more /\ CreatedAt(rounds[last]) = 0))
      /\ page'.pc = IF more THEN "wait" ELSE "off"
      /\ page' \in Page
      /\ page.pc = "messages" /\ UNCHANGED <<record, root, spoke, clock, known>>
  BY <1>1 DEF NoPage, Page, NoTimes, Times, Serve, tables
<1>3. /\ n \in Nat /\ rounds \in [1..n -> Runs]
      /\ \A r \in Runs : page.root[r] # 0 => \E i \in 1..n : rounds[i] = r
  BY ListOfRounds
<1>4. start \in 1..(n + 1)
  <2>1. CASE \E i \in 1..n : rounds[i] = cursor
    <3>1. (CHOOSE i \in 1..n : rounds[i] = cursor) \in 1..n
      BY <2>1
    <3> QED BY <1>3, <2>1, <3>1 DEF NextIndex
  <2>2. CASE ~ \E i \in 1..n : rounds[i] = cursor
    BY <1>3, <2>2 DEF NextIndex
  <2> QED BY <2>1, <2>2
<1>5. last \in 0..n /\ (more => last \in 1..n) /\ (~ more => last = n)
  BY <1>3, <1>4, LimitAssumption DEF Least
<1>6. \A r \in Runs : served'[r] \in 0..2 /\ served'[r] >= served[r]
  BY <1>2 DEF Least, RoundsTypeOK
<1>7. RoundsTypeOK'
  <2>1. served' \in [Runs -> 0..2]
    BY <1>2, <1>6
  <2>2. cursor' \in Runs \cup {None} /\ loose' \in BOOLEAN
    BY <1>2, <1>3, <1>5 DEF RoundsTypeOK
  <2> HIDE DEF more, last, start, n
  <2> QED BY <1>2, <2>1, <2>2 DEF RoundsTypeOK
<1>8. Clocked' /\ KnownRooted'
  BY <1>2 DEF Clocked, KnownRooted
<1>9. page'.pc \in {"wait", "off"} /\ Snapshots'
  BY <1>2 DEF Snapshots
<1>10. Progress'
  <2>3. known' = known /\ root' = root
    BY <1>2
  <2>1. CASE loose
    <3>1. \A r \in known : served'[r] > 0
      <4>1. \A r \in known : served[r] > 0 /\ r \in Runs
        BY <1>2, <2>1 DEF Progress, RoundsTypeOK
      <4> QED BY <1>6, <4>1 DEF RoundsTypeOK
    <3>2. loose' /\ (page'.pc = "off" => cursor' = None) /\ (page'.pc # "off" => cursor' # None)
      BY <1>2, <1>3, <1>5, <2>1, NoneAssumption
    <3> QED BY <1>2, <3>1, <3>2 DEF Progress
  <2>2. CASE ~ loose
    <3>1. \A i \in 1..n : rounds[i] \in known => served'[rounds[i]] = IF i <= last THEN 1 ELSE 0
      BY <1>2, <1>5, <2>2, PageServes
    <3>2. \A r \in known : \E i \in 1..n : rounds[i] = r
      BY <1>2, <1>3 DEF Snapshots, KnownRooted, RoundsTypeOK
    <3>3. CASE ~ more
      <4>1. \A r \in known : served'[r] = 1
        BY <1>3, <1>5, <3>1, <3>2, <3>3
      <4>2. page'.pc = "off" /\ cursor' = None
        BY <1>2, <3>3
      <4> QED BY <2>3, <4>1, <4>2 DEF Progress
    <3>4. CASE more
      <4>1. last \in 1..n /\ cursor' = rounds[last] /\ cursor' # None /\ page'.pc = "wait"
        BY <1>2, <1>3, <1>5, <3>4, NoneAssumption
      <4>2. CASE CreatedAt(rounds[last]) = 0
        <5>1. \A r \in known : served'[r] = 1
          BY <1>2, <3>1, <3>2, <4>1, <4>2, PageOrder
        <5>2. loose'
          BY <1>2, <3>4, <4>2
        <5> QED BY <2>3, <4>1, <5>1, <5>2 DEF Progress
      <4>3. CASE CreatedAt(rounds[last]) # 0
        <5>1. \A r \in known : served'[r] = IF root[r] >= root[cursor'] THEN 1 ELSE 0
          BY <1>2, <3>1, <3>2, <4>1, <4>3, PageOrder
        <5>2. root[cursor'] # 0
          <6>1. rounds[last] \in Runs
            BY <1>3, <4>1
          <6> QED BY <1>2, <4>1, <4>3, <6>1, CursorStarted
        <5>3. ~ loose'
          BY <1>2, <2>2, <4>3
        <5> QED BY <2>3, <4>1, <5>1, <5>2, <5>3 DEF Progress
      <4> QED BY <4>2, <4>3
    <3> QED BY <3>3, <3>4
  <2> QED BY <2>1, <2>2
<1> QED BY <1>7, <1>8, <1>9, <1>10

\* Every step preserves the invariant.
LEMMA RoundsStep == RoundsInv /\ [RoundsNext]_roundsVars => RoundsInv'
<1> SUFFICES ASSUME RoundsInv, [RoundsNext]_roundsVars PROVE RoundsInv'
  OBVIOUS
<1>1. CASE UNCHANGED roundsVars
  <2>1. RoundsTypeOK' /\ Clocked' /\ KnownRooted'
    BY <1>1 DEF roundsVars, tables, client, RoundsInv, RoundsTypeOK, Clocked, KnownRooted
  <2>2. Snapshots' /\ Progress'
    BY <1>1 DEF roundsVars, tables, client, RoundsInv, Snapshots, Progress
  <2> QED BY <2>1, <2>2 DEF RoundsInv
<1>2. CASE RoundsNext
  BY <1>2, RoundsRuns, RoundsRead, RoundsServe DEF RoundsNext
<1> QED BY <1>1, <1>2

\* The inductive invariant of the rounds, in every reachable state, for any runs and size of a page.
THEOREM RoundsInvariant == RoundsSpec => []RoundsInv
BY RoundsInitially, RoundsStep, PTL DEF RoundsSpec

\* Type correctness of the rounds, the client and its pages.
THEOREM RoundsTypes == RoundsSpec => []RoundsTypeOK
BY RoundsInvariant, PTL DEF RoundsInv

\* A client that follows the cursor (paginate_rounds) is given every round that had started
\* when it began, and none twice unless a cursor named a run without a time.
THEOREM RoundsExact == RoundsSpec => []PagesExact
<1>1. RoundsInv => PagesExact
  <2> SUFFICES ASSUME RoundsInv PROVE PagesExact
    OBVIOUS
  <2>1. CASE page.pc = "off"
    BY <2>1 DEF RoundsInv, Progress, PagesExact, Served
  <2>2. CASE page.pc # "off"
    <3>1. ~ loose => \A r \in known : served[r] <= 1
      BY <2>2 DEF RoundsInv, Progress, RoundsTypeOK
    <3> QED BY <2>2, <3>1 DEF PagesExact, Served
  <2> QED BY <2>1, <2>2
<1> QED BY <1>1, RoundsInvariant, PTL
=============================================================================
