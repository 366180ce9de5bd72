----------------------------- MODULE SessionStore -----------------------------
(***************************************************************************)
(* The rows of one session: who writes them, and their deletion            *)
(* (sessions/service.py, the delete_by_session of the repositories,        *)
(* agents/management/instance_pool.py, state/agent_repo.py; the writers    *)
(* are runs/manager.py and coordination/).                                 *)
(*                                                                         *)
(* A deletion is a pool thread that commits table after table, each step   *)
(* through another connection.  Runs are coroutines of the event loop; the *)
(* two know nothing of each other.  A run that finds a row gone fails, and *)
(* a run that is at work writes rows of a session that is no more.         *)
(***************************************************************************)
EXTENDS SessionRuns, Integers, Sequences, FiniteSets

CONSTANTS
  Roles,         \* roles of the agents
  Coordinator,   \* the role of the coordinator
  Deleters,      \* threads that delete the session
  MaxInstances,  \* bound: instances created
  MaxOps         \* bound: deletions, failures and crashes

ASSUME CoordinatorAssumption == Coordinator \in Roles
ASSUME RolesAssumption == None \notin Roles
ASSUME StatusAssumption == None \notin {"queued", "running"}
ASSUME BoundsAssumption == MaxInstances \in Nat /\ MaxOps \in Nat

VARIABLES
  session,     \* the row of the table sessions
  rows,        \* the other tables with rows of the session, found by its id
  runtime,     \* run_runtime: the status of each run, None without a row
  tasks,       \* runs with rows in tasks
  agents,      \* agent_instances
  shared,      \* instances with rows in shared_state
  files,       \* roles with memory files
  dirs,        \* there is a directory of the workspace
  pool,        \* InstancePool
  active,      \* _active_run_by_session
  run, uses,   \* where each run is; the instances it has given work
  told,        \* runs whose last event was published
  del,         \* the deletions in progress
  met,         \* a deletion and a run have met
  emptied,     \* the last thing that happened to the session is its deletion
  made, ops

database == <<session, rows, runtime, tasks, agents, shared, files, dirs>>
memory   == <<pool, active, run, uses>>
history  == <<told, met, emptied>>
vars == <<database, memory, del, history, made, ops>>

Instances == [role : Roles, no : 1..MaxInstances]
Tables    == {"messages", "events", "tickets", "jobs", "usage"}
Statuses  == {None, "queued", "running", "completed", "failed"}
Places    == {"none", "ensured", "queued", "started", "rooted", "ready", "working",
              "done", "failing", "final", "over"}

\* The order of the deletion; run_intents, run_states and run_snapshots, which are not in it,
\* are left out of the model.
Order == <<"messages", "events", "shared", "tickets", "jobs", "runtime", "tasks", "agents",
           "session", "usage", "dirs">>
Deletion == [at : 0..Len(Order), agents : SUBSET Instances]
Idle == [at |-> 0, agents |-> {}]

\* Every variable keeps its kind.
TypeOK ==
  /\ session \in BOOLEAN /\ rows \subseteq Tables /\ runtime \in [Runs -> Statuses]
  /\ tasks \subseteq Runs /\ agents \subseteq Instances /\ shared \subseteq Instances
  /\ files \subseteq Roles /\ dirs \in BOOLEAN
  /\ pool \subseteq Instances /\ active \in Runs \cup {None}
  /\ run \in [Runs -> Places] /\ uses \in [Runs -> SUBSET Instances]
  /\ told \subseteq Runs /\ del \in [Deleters -> Deletion]
  /\ met \in BOOLEAN /\ emptied \in BOOLEAN
  /\ made \in 0..MaxInstances /\ ops \in 0..MaxOps

Init ==
  /\ session = FALSE /\ rows = {} /\ runtime = [r \in Runs |-> None]
  /\ tasks = {} /\ agents = {} /\ shared = {} /\ files = {} /\ dirs = FALSE
  /\ pool = {} /\ active = None
  /\ run = [r \in Runs |-> "none"] /\ uses = [r \in Runs |-> {}]
  /\ told = {} /\ del = [d \in Deleters |-> Idle] /\ met = FALSE /\ emptied = FALSE
  /\ made = 0 /\ ops = 0

(***************************************************************************)
(* Shared vocabulary.                                                      *)
(***************************************************************************)
Recoverable(r) == runtime[r] \in {"queued", "running"}
AtWork(r)      == run[r] \notin {"none", "over"}
Deletes        == \E d \in Deleters : del[d].at # 0
Moves(r, place) == run' = [run EXCEPT ![r] = place]
Writes(ts)     == rows' = rows \cup ts
Operation      == ops < MaxOps /\ ops' = ops + 1
RolesOf(is)    == {i.role : i \in is}

\* The repositories: the record of a run, made if it is gone; the row of an instance; the
\* spans of shared_state named after an instance, its role or its conversation.
PutRecord(r, status) == runtime' = [runtime EXCEPT ![r] = status]
UpsertInstance(i)    == agents' = agents \cup {i}
WriteMemory(i)       == shared' = shared \cup {i}

\* What a run does while a deletion is under way meets it.
Meets == met' = (met \/ Deletes)

\* A run fails where a row it needs is gone.
Fails(r) == Moves(r, "failing") /\ UNCHANGED <<database, pool, uses, made>>

\* get_session_role_instance: a role's instance in this session.
Existing(role) == {i \in agents : i.role = role}

\* InstancePool: an instance is found or appended; a new one has a new id.
EnsureFromRecord(i) == pool' = pool \cup {i} /\ UNCHANGED made
CreateSubagent(role, i) ==
  /\ made < MaxInstances /\ made' = made + 1
  /\ i = [role |-> role, no |-> made'] /\ pool' = pool \cup {i}

\* Seeded fault of the next definition: it is not used.
EnsureInstanceAnew(role, i) == CreateSubagent(role, i)

\* The pool has the instance before the row exists.
EnsureInstance(role, i) ==
  \/ i \in Existing(role) /\ EnsureFromRecord(i)
  \/ Existing(role) = {} /\ CreateSubagent(role, i)

(***************************************************************************)
(* A run, from its creation by a pool thread to the end of its worker.     *)
(***************************************************************************)
\* _ensure_session: the session is created if it is not there, or not there any more.
Ensure(r) ==
  /\ run[r] = "none"
  /\ session' = TRUE /\ emptied' = FALSE /\ Moves(r, "ensured") /\ Meets
  /\ UNCHANGED <<rows, runtime, tasks, agents, shared, files, dirs, pool, active, uses,
                 told, del, made, ops>>

\* A run that works or can be resumed takes the input instead of a new run.
CreateRun(r) ==
  /\ run[r] = "ensured"
  /\ active # None => ~AtWork(active) /\ ~Recoverable(active)
  /\ PutRecord(r, "queued")
  /\ active' = r /\ Moves(r, "queued") /\ Meets
  /\ UNCHANGED <<session, rows, tasks, agents, shared, files, dirs, pool, uses, told, emptied,
                 del, made, ops>>

\* The record is written again if it is gone.
Start(r) ==
  /\ run[r] = "queued"
  /\ PutRecord(r, "running") /\ Writes({"events"})
  /\ Moves(r, "started") /\ Meets
  /\ UNCHANGED <<session, tasks, agents, shared, files, dirs, pool, active, uses, told, emptied,
                 del, made, ops>>

CreateRoot(r) ==
  /\ run[r] = "started"
  /\ tasks' = tasks \cup {r} /\ Writes({"events"})
  /\ Moves(r, "rooted") /\ Meets
  /\ UNCHANGED <<session, runtime, agents, shared, files, dirs, pool, active, uses, told, emptied,
                 del, made, ops>>

\* _ensure_coordinator_instance, which assigns the root task to the instance.
TakeCoordinator(r) ==
  /\ run[r] = "rooted" /\ Meets
  /\ \E i \in Instances :
       /\ EnsureInstance(Coordinator, i)
       /\ \/ r \notin tasks /\ Moves(r, "failing") /\ UNCHANGED <<rows, agents, uses>>
          \/ /\ r \in tasks /\ Moves(r, "ready") /\ Writes({"events"})
             /\ UpsertInstance(i) /\ uses' = [uses EXCEPT ![r] = @ \cup {i}]
  /\ UNCHANGED <<session, runtime, tasks, shared, files, dirs, active, told, emptied, del, ops>>

\* _execute_inner up to the work: it needs the task and the instance, and writes the record anew.
Execute(r) ==
  /\ run[r] = "ready" /\ Meets
  /\ \/ r \notin tasks /\ Fails(r)
     \/ /\ r \in tasks
        /\ PutRecord(r, "running") /\ Writes({"events"})
        /\ Moves(r, IF uses[r] \subseteq agents THEN "working" ELSE "failing")
        /\ UNCHANGED <<session, tasks, agents, shared, files, dirs, pool, uses, made>>
  /\ UNCHANGED <<active, told, emptied, del, ops>>

\* A tool of the coordinator gives work to the instance of another role.
Delegate(r) ==
  /\ run[r] = "working" /\ Meets /\ r \in tasks
  /\ \E role \in Roles \ {Coordinator}, i \in Instances :
       /\ EnsureInstance(role, i) /\ UpsertInstance(i)
       /\ i \notin uses[r] /\ uses' = [uses EXCEPT ![r] = @ \cup {i}]
  /\ Writes({"events"})
  /\ UNCHANGED <<session, runtime, tasks, shared, files, dirs, active, run, told, emptied,
                 del, ops>>

\* Messages, tickets, the use of tokens: written with the ids the coroutine has.
Record(r) ==
  /\ run[r] = "working" /\ Meets
  /\ Writes({"messages", "tickets", "usage"})
  /\ UNCHANGED <<session, runtime, tasks, agents, shared, files, dirs, memory, told, emptied,
                 del, made, ops>>

\* manage_state, in a scope named after the instance.
Remember(r) ==
  /\ run[r] = "working" /\ Meets
  /\ \E i \in uses[r] : WriteMemory(i)
  /\ UNCHANGED <<session, rows, runtime, tasks, agents, files, dirs, memory, told, emptied,
                 del, made, ops>>

\* The end of the coordinator's last execution; a subagent's leaves a reflection job.
Complete(r) ==
  /\ run[r] = "working" /\ Meets
  /\ \/ (r \notin tasks \/ runtime[r] = None) /\ Fails(r)
     \/ /\ r \in tasks /\ runtime[r] # None
        /\ Writes({"events"} \cup (IF RolesOf(uses[r]) = {Coordinator} THEN {} ELSE {"jobs"}))
        /\ Moves(r, "done")
        /\ UNCHANGED <<session, runtime, tasks, agents, shared, files, dirs, pool, uses, made>>
  /\ UNCHANGED <<active, told, emptied, del, ops>>

\* The reflection worker writes the memory of the role.
Reflect ==
  /\ "jobs" \in rows /\ Meets
  /\ \E role \in RolesOf(agents) \ {Coordinator} : files' = files \cup {role}
  /\ dirs' = TRUE
  /\ UNCHANGED <<session, rows, runtime, tasks, agents, shared, memory, told, emptied,
                 del, made, ops>>

\* _worker: the update of a record that is gone raises, in the handler too, and nothing is told.
WorkerEnds(r) ==
  /\ run[r] \in {"done", "failing"} /\ Meets
  /\ \/ runtime[r] = None /\ UNCHANGED <<runtime, rows, told>>
     \/ /\ runtime[r] # None
        /\ PutRecord(r, IF run[r] = "done" THEN "completed" ELSE "failed")
        /\ Writes({"events"}) /\ told' = told \cup {r}
  /\ Moves(r, "final")
  /\ UNCHANGED <<session, tasks, agents, shared, files, dirs, pool, active, uses, emptied,
                 del, made, ops>>

Finalize(r) ==
  /\ run[r] = "final" /\ Moves(r, "over")
  /\ active' = IF Recoverable(r) THEN r ELSE IF active = r THEN None ELSE active
  /\ UNCHANGED <<database, pool, uses, told, met, emptied, del, made, ops>>

(***************************************************************************)
(* Deletion.                                                               *)
(***************************************************************************)
\* The ids by which shared_state and the memory files are found are read first.
DeleteLook(d) ==
  /\ del[d].at = 0 /\ session /\ Operation
  /\ del' = [del EXCEPT ![d] = [at |-> 1, agents |-> agents]]
  /\ met' = (met \/ \E r \in Runs : AtWork(r))
  /\ UNCHANGED <<database, memory, told, emptied, made>>

\* What is found by the ids that were read.
SharedLeft(found) == shared \ found
FilesLeft(found)  == files \ RolesOf(found)

\* What one step of the deletion leaves of each table.
RemovedFrom(table, found) ==
  /\ rows' = rows \ {table}
  /\ shared' = IF table = "shared" THEN SharedLeft(found) ELSE shared
  /\ files' = IF table = "jobs" THEN FilesLeft(found) ELSE files
  /\ runtime' = IF table = "runtime" THEN [r \in Runs |-> None] ELSE runtime
  /\ tasks' = IF table = "tasks" THEN {} ELSE tasks
  /\ agents' = IF table = "agents" THEN {} ELSE agents
  /\ session' = (session /\ table # "session")
  /\ dirs' = (dirs /\ table # "dirs")

\* Seeded faults of the next action: none is used.
DeleteInOrder(d, order) ==
  /\ del[d].at # 0
  /\ LET k == del[d].at IN
     /\ RemovedFrom(order[k], del[d].agents)
     /\ del' = [del EXCEPT ![d] = IF k = Len(order) THEN Idle ELSE [@ EXCEPT !.at = k + 1]]
     /\ emptied' = (k = Len(order))
  /\ UNCHANGED <<memory, told, met, made, ops>>
DeleteStepAgentsFirst(d) ==
  DeleteInOrder(d, [Order EXCEPT ![3] = Order[8], ![8] = Order[3]])
DeleteStepNoUsage(d) == DeleteInOrder(d, [Order EXCEPT ![10] = "dirs", ![11] = "dirs"])

DeleteStep(d) ==
  /\ del[d].at # 0
  /\ LET k == del[d].at IN
     /\ RemovedFrom(Order[k], del[d].agents)
     /\ del' = [del EXCEPT ![d] = IF k = Len(Order) THEN Idle ELSE [@ EXCEPT !.at = k + 1]]
     /\ emptied' = (k = Len(Order))
  /\ UNCHANGED <<memory, told, met, made, ops>>

\* A step raises, because the database is locked for longer than its connection waits.
DeleteFails(d) ==
  /\ del[d].at # 0 /\ Operation
  /\ del' = [del EXCEPT ![d] = Idle]
  /\ UNCHANGED <<database, memory, history, made>>

\* The pool and the active run are read from the tables again; runs at work are gone.
Crash ==
  /\ Operation
  /\ pool' = agents /\ del' = [d \in Deleters |-> Idle]
  /\ \E r \in Runs \cup {None} :
       /\ r = None <=> \A q \in Runs : ~Recoverable(q)
       /\ r # None => Recoverable(r)
       /\ active' = r
  /\ run' = [r \in Runs |-> IF AtWork(r) THEN "over" ELSE run[r]]
  /\ uses' = [r \in Runs |-> {}]
  /\ UNCHANGED <<database, history, made>>

(***************************************************************************)
(* What a client is shown.                                                 *)
(***************************************************************************)
\* Seeded fault of the next definition: it is not used.
SelectedByStatus == {r \in Runs : Recoverable(r)}

\* _select_active_run: the hint of the run manager, or any run that has not ended.
Selected == IF active # None /\ runtime[active] # None THEN {active}
            ELSE {r \in Runs : Recoverable(r)}

(***************************************************************************)
(* Specification.                                                          *)
(***************************************************************************)
Work(r) == \/ Start(r) \/ CreateRoot(r) \/ TakeCoordinator(r) \/ Execute(r) \/ Delegate(r)
           \/ Record(r) \/ Remember(r) \/ Complete(r) \/ WorkerEnds(r) \/ Finalize(r)

Next == \/ \E r \in Runs : Ensure(r) \/ CreateRun(r) \/ Work(r)
        \/ \E d \in Deleters : DeleteLook(d) \/ DeleteStep(d) \/ DeleteFails(d)
        \/ Reflect \/ Crash

Spec == Init /\ [][Next]_vars

(***************************************************************************)
(* Properties.                                                             *)
(***************************************************************************)
\* Whatever deletions and restarts do between its runs, and during them, a session has one
\* instance of a role, which the pool knows: a delegation never meets a second one.
OneInstancePerRole ==
  /\ \A i, j \in agents : i.role = j.role => i = j
  /\ agents \subseteq pool

\* A deletion that stops halfway leaves the rows by which a second one finds the rest:
\* while the session can be named, no shared state or memory file is out of reach.
Findable ==
  session /\ ~met => shared \subseteq agents /\ files \subseteq RolesOf(agents)

\* A deletion that runs to its end, after others failed at any step, leaves nothing, unless
\* a run was at work meanwhile: nothing it goes by is gone before what is found by it.
DeletionEmpties ==
  emptied /\ ~met => /\ rows = {} /\ shared = {} /\ files = {} /\ ~dirs
                     /\ tasks = {} /\ agents = {}
                     /\ \A r \in Runs : runtime[r] = None

\* A run at work is shown as the active run of its session, unless its record was deleted.
WorkShown ==
  \A r \in Runs : run[r] \in Places \ {"none", "ensured", "over"} /\ runtime[r] # None
                  => Selected # {}

\* What the session makes of a run: one is active while it is at work, and as long as its
\* record says that it can be resumed.
Life == [r \in Runs |-> IF run[r] \in {"none", "ensured"} THEN "none"
                       ELSE IF AtWork(r) \/ Recoverable(r) THEN "active" ELSE "ended"]
Lives == INSTANCE SessionLife WITH life <- Life, Sessions <- {"session"},
                                   home <- [r \in Runs |-> "session"], misled <- {}

\* Deletions and crashes included, the runs of the session follow one another (create_run).
RunsInTurn == Lives!Spec
=============================================================================
