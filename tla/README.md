# Verification of agent_teams

TLA+ models of the server in `src/src/agent_teams`, the TLC instances that check
them and the TLAPS proofs of their main invariants. Paths below are relative to
`src/src/agent_teams`; documents are under `src/docs`.

The server runs teams of language-model agents. A client creates a *run* in a
*session*; a coordinator agent works on it in turns and delegates tasks to
subagents, one instance per role; tools may need a user's approval; clients
stream events, stop, resume, follow up; after a subagent's task a background
worker writes what was learnt into memory files. The logic worth modelling is
how these activities interleave: coroutines of one asyncio loop, endpoints that
are plain `def` and therefore run in threads of the server's pool, helper threads
of coroutines, an SQLite database that survives the process, and dictionaries in
memory that do not.

## 1. Inventory

| Component | State it keeps | Operations | What is hard | What makes it correct |
|---|---|---|---|---|
| Run lifecycle: `runs/manager.py`, `runs/control.py` (run tasks), `runs/event_stream.py`, `state/run_runtime_repo.py` | pending and running runs, resume requests, the active run of a session, worker tasks, stream queues; the `run_runtime` table | create, start, resume, stop, stream, finalize, restart | threads read a record and act on it later; a stop before, during and after the start; a crash | one worker per run; what is marked as running has a worker; records settle; streams end |
| Tool approval: `tools/runtime/execution.py`, `approval_state.py`, `state/approval_ticket_repo.py`, `manager.resolve_tool_approval` | `Event` objects and actions in memory; the tickets table | request, wait in a helper thread, answer, time out, reuse, complete | an answer racing the timeout; identical calls that share a ticket; stop and resume | an action rests on a user's approval; open tickets are waited for; a waiter can be woken |
| Delegation: `coordination/task_orchestration_service.py`, `task_execution_service.py`, `coordinator.py`, `runs/control.py` (instances), `state/task_repo.py` | tasks and their instance, executions, the instance registry, pauses and stop flags, the run's phase | create, update, dispatch, execute, walk, stop or follow up a subagent, stop the run, recover | coroutines and threads write the same task; a stop finds an execution that is ending | a RUNNING task is executed; the registry names live work; a task keeps its instance; the coordinator settles |
| Message history and injection: `providers/llm.py`, `state/message_repo.py`, `runs/injection_queue.py` | the messages table, the queue of a run's agents, the iteration's buffer | begin, ask, run tools, commit, drain, restart, inject, follow up | threads append between two commits; an injection restarts the iteration; a crash between a call and its results | the table holds whole exchanges, once; results of tools that ran are kept; notes taken are shown |
| Reflection: `reflection/`, the end of `task_execution_service.py`, `sessions/service.py` | the jobs table, daily and long-term files | enqueue, claim, process, fail, retry, clean up, delete with the session | retries and deletions while a job is processed; a crash between two files; attempts that run out | nothing stays RUNNING; what a completed job wrote is kept; every day is consolidated |
| Run state projection and event log: `state/run_state_models.py`, `run_state_repo.py`, `event_log.py`, `runs/event_stream.py` | the log of a run's events, a row that folds them into a status, pending approvals and a paused subagent | publish (append, read, fold, write), rebuild | publishes from the loop and from threads at once; events of a stopped run; results published after they are stored | the row is the fold of the log; what waits for an answer is shown; results are reported once stored |
| Triggers: `triggers/` | triggers, received events, idempotency keys; one SQLite connection for all | create, edit, enable, disable, rotate, ingest | threads and the loop write into one transaction; repeated deliveries; two edits at once; a crash before the answer | what a sender was told of lasts; one event per key; written rows are committed |
| Sessions: `sessions/service.py`, the `delete_by_session` of the repositories | one row, and rows of eleven other tables | create, run, reflect, delete | a deletion commits table after table and may stop anywhere; runs know nothing of it | what later steps are found by is still there; a complete deletion leaves nothing |
| Rounds: `sessions/rounds_projection.py` | none: built from three tables for each page | first page, next page | runs start and speak between the reads of a page and between pages | every round is given, none twice |
| Agent instances: `agents/management/instance_pool.py`, `state/agent_repo.py` | instances in the pool and in the table | ensure, create, find again | a restart, a deletion between the lookup and the row | one instance per role of a session |
| Configuration and reload: `providers/model_config_*.py`, `runs/runtime_config.py`, `interfaces/server/container.py`, `mcp/`, `skills/` | `model.json`, `mcp.json`, the skills directories; ten references in the container; the skills that a registry knows | save, delete, replace, reload, look up | plain `def` endpoints without a lock; a save is written before it is validated; a shared directory is cleared and refilled | the parts of the server agree, are what is on the disk, and can be started again |
| Role communication, human gates, verification: `coordination/` | records; events; none | pure functions; open, resolve; one look at a result | little is in use | - |
| Shared state, tool context: `state/shared_state_repo.py`, `tools/runtime/` | rows read and written whole | get, set | found by instance when a session goes | no row is out of reach |
| Tools, workspace, notifications, model connectivity, roles, prompts, logging, interfaces, frontend | files, text, settings | - | I/O and formats, no protocol | - |

Interactions. `RunManager` starts a worker that runs `CoordinatorGraph`, which
calls `TaskExecutionService.execute`, directly or through the task tools of the
coordinator's model; an execution calls the provider's `generate`, which runs
tools, which may wait in `execute_tool` for an approval. `RunControlManager` is
shared by all of them: it knows the asyncio tasks of runs and instances and the
flags of stops. The database tables are read and written by coroutines and pool
threads alike, one statement or short transaction at a time. The reflection
worker meets the rest only in its table.

`PROJECT.json` lists every component and what is left out of it, the hazards of
the code at their lines, and for each modelled definition the lines it stands for.

## 2. Modules

| Module | What it is |
|---|---|
| `SessionLife` | abstract: the runs of a session follow one another; `RunLifecycle` and `SessionStore` implement it |
| `RunLifecycle` | runs, workers, streams, create and stop in threads, restart |
| `ToolApproval` | guarded tool calls of one run, their helpers, answering threads |
| `ApprovalConsent` | abstract: an action starts once, under a granted ticket; `ToolApproval` implements it |
| `Delegation` | tasks, executions, coordinator, subagent control of one run |
| `Exchange` | messages, pending calls and the safe boundary, as operators |
| `Transcript` | abstract: a conversation that grows by whole exchanges; `MessageHistory` implements it |
| `MessageHistory` | `generate()`, the messages table, the injection queue and its clients, for one agent |
| `ReflectionJobs` | the job queue, its worker, the memory files, the deletion of a session |
| `TriggerIngest` | trigger definitions, deliveries, and the connection they share |
| `KeyedInbox` | abstract: a log with one entry for each key, of which senders are told; `TriggerIngest` implements it |
| `SessionRuns` | the constants that the two models of a session share |
| `SessionStore` | who writes the rows of a session, instances included, and their deletion |
| `SessionRounds` | the rounds of a session, read page by page |
| `RunEvents` | what a run reports of itself: events, their log, the folded row, approvals and outcomes |
| `ConfigReload` | saves and reloads of the configuration, and the directory of skills |
| `MC*` | the instances TLC checks; a configuration file for each question |
| `*Proofs` | inductive invariants and theorems; `ServerThreadsProofs` is about `ToolApproval` and `ConfigReload`, `SessionProofs` about `SessionStore` and `SessionRounds` |

The modules share conventions. An action is what runs between two points where
something else can run: for a coroutine two awaits, for a thread two accesses to
shared state (a critical section is one step). A program counter exists only
where a local value outlives such a point. `UNCHANGED` tuples are grouped by who
keeps the state: memory, table, files, history variables. History variables are
never read by an action. Operations of users and accidents are counted by
`UserStep` (or `Interrupts`) and bounded by `MaxOps`; a configuration names the
kinds it allows in `Allowed`. Endpoints that only wrap a call are part of its
action. Each module holds, before the definitions they
would replace, a few "seeded faults": the same definition with a plausible
mistake. Nothing uses them; replacing the definition by one makes the property
named in `PROJECT.json` fail, which shows that the property is about the code.

### RunLifecycle

`pending`, `running`, `resumeReq`, `active` are `_pending_runs`,
`_running_run_ids`, `_resume_requested_runs`, `_active_run_by_session`;
`registered` and `cancelled` are `_RunTaskRegistry`; `task` is the worker's
asyncio task, with `"lost"` for one that was cancelled before its first step so
that its body, with the `finally`, never runs. `loop` is the coroutine that
holds the event loop over two of our steps: `ensure_run_started` between
marking a run as running and registering its task, and the end of a worker
between its last record and `_finalize_run`; only threads can interleave there.
`reader`, `subscribed` and `inbox` are the streams; only terminal events count.
`status` and `session` are the table. `create_run` is `CreateLook` (the record
is read) and then one of four ends; `stop_run` is a look and up to two writes.
PAUSED and RUNNING are one status here, and the `phase` column is left to
`Delegation`. The intent text, the refused cases' reasons and `run_intent`, which
the server never calls, are left out. `Life` is what a session makes of a run: none
before it has a record, active while it is marked as running or its record says that
it can be resumed, ended after that. Through `Life` the module implements
`SessionLife` (`RunsInTurn`), whose `misled` are the sessions in which a call has acted
on an outdated view.

### ToolApproval

One run. A call is a coroutine (`call`) with a helper thread blocked on an
`Event`; `object` is the event the helper holds, `entry` the one the dictionary
holds, both named by the call that created them, since the entry of a ticket can
be closed and opened again. What the helper heard (`"approve"`, `"deny"`,
`"expired"`, `"missing"`) and the coroutine's reaction are two steps. An answering
thread looks the entry up, writes the ticket and signals, in three steps. `Sig`
gives each call its signature: calls with the same signature share tickets. A
stop is requested, reaches each call at an await, and is complete when no call
is in flight. Of several reusable tickets the code takes the latest; the model
takes any.

### Delegation

One run, with the coordinator (mode `"ai"`) or driven by HTTP dispatches alone
(`"manual"`). An instance is named by its role: `_ensure_role_instance` keeps one
per role and session. `exec` is the execution each caller of `execute` awaits: a
tool call of the coordinator's turn, an HTTP dispatch, or the coordinator's own
walk (`Loop`). `coord` is the coordinator: a turn, a walk over the pending tasks,
at most `MaxCycles` times. While it walks without awaiting, no other coroutine
runs (`coord.pc = "loop"`). `entry` is `_instance_tasks`; `doomed` marks
executions with a cancellation to deliver; `stopFlag`, `paused`, `runStop` are the
flags of `RunControlManager`; `phase` is the part of the runtime record that
pauses are recovered from. Abstractions: `stop_subagent` up to the pause is one
step (its reads and flag writes are adjacent critical sections of the same
thread); the walk takes its tasks in any order; a timeout is a failure; the root
task's own status is not kept; which of a cancelled turn's other tool calls the
agent library cancels with it is left open.

### MessageHistory

One agent, as coordinator or subagent. `rows` is the table for its conversation;
a message is a prompt (numbered by the client's note), a reply that asks for
tools or not, or results (numbered by their reply). `gen` is `generate()`: the
last node the iteration yielded and what comes next (the next node, a request to
the model, the commit, the look at the queue, the storing of what was found),
the history it started from (`base`), its new messages, the ones seen and the
buffer of those not committed. The order of nodes (prompt, request, calls, ...,
end; a history that ends in a reply skips the request; the results of tools are
a new message only together with the reply to them) is the agent library's and
is marked external in the sense that `Advance` and `Ask` follow how `generate`
consumes it. The commit is in one step with the end of the request, and the
drain and the store of what it drained are two steps, since threads can append
between them. Interruptions are a stop, an error of the model or of a tool;
`Crash` also loses the queue. Only one source of injections is modelled, so that
the queue is in order of arrival. `_persist_user_prompt_if_needed` never acts,
because the subagent's request carries no prompt; it is left out.

### ReflectionJobs

`job` is the table, in order of creation. A file is modelled by the set of jobs
its text was built from: the model is shown the file that its answer replaces, so
the new text is built from what was read, not from what is there when it is
written. `worker` is the coroutine; `"asked"` is the one place where it awaits,
and there and when it is idle executions of tasks may complete; `"dead"` is a
worker whose loop an error has left, `"off"` a process that is down. The
deletion of a session takes four steps of a pool thread. The answer of the model
is taken to name the date it was given; a server with reflection disabled is not
modelled.

### TriggerIngest

`triggers` and `events` are the two tables as the one connection of
`TriggerRepository` shows them, `saved` what is committed, `tx` the transaction of
that connection: `sqlite3` begins one before a statement that writes, anyone's
commit ends it, and a statement that violates a constraint leaves it open
(`"failed"`), since nothing rolls back. `edit` is what each pool thread has read and
is about to write or commit; `ingest` is the one delivery that the event loop
handles, since its endpoints are `async` and do not await after the body is read.
A delivery is one request; a redelivery is another one with the same key. The
outcome of a header token or of an HMAC is a choice, as is whether an unknown
token, a mismatched name or a malformed body has it refused. Locks held by other
connections (`database is locked`) are left out.

### SessionStore

One session. Each table is what is left in it: `rows` the tables that are found by
the session's id, `runtime` and `tasks` by the run, `agents`, `shared` and `files`
by the instance or its role. `run[r]` is where the coroutine of a run is, and
`uses[r]` the instances it has given work; `del[d]` is how far the deletion of a
pool thread has come in `Order`, with the instances it read first. Statements
between two awaits are one step, and each step of a deletion is one, since each
commits through its own connection. A deletion can stop after any step. `met`
records that a deletion and a run were under way together: the code then writes
rows that nothing finds any more, so that the properties that speak of what is
left exclude it. `SessionStore` implements `SessionLife` too, with its one session and
nobody misled: `create_run` looks and writes in one step here, since its races are those
of `RunLifecycle`, and a deletion ends a run that only its record kept alive. Of `shared_state` the model keeps whose rows there are; its
expiry compares a time with a `T` to one with a space as text, which no caller
notices because none asks for an expiry.

### SessionRounds

A page is built from three reads, of the tasks, the messages and the run records.
`record` is what the runtime table says, `root` and `spoke` are the times by which rounds are sorted, anew for each page,
and those that have neither time come last in any order. `served` counts how often
the client that follows the cursor was given each round. One run of the session is
at work at a time (`SessionLife`). Its names (`RoundsInit`, `RoundsNext`, ...), like those
of `ConfigReload`, differ from the ones of the module that its proofs share a file with. What a round displays is left
out.

### RunEvents

`pub[p]` is what the loop or a pool thread still has to publish and how far the
first of it has come: logged, the row read and folded, the row written. `folded`
is the fold of the log, `row` the row of `run_states`. `Apply` is
`apply_run_event_to_state` case by case. `worker`, `call` and `on` are the
worker, its tool calls and the tickets they wait for; `thread` is an answer, a
stop of the run or the pause of a subagent on its way. The statements of a handler
up to its publish are one step. Limits: one agent; a worker's task is started
by the stream or the resumption, so that executions dispatched over HTTP are left
out; text, token usage, injections and notifications are published like the events
that are listed, and change no status. A resolution that races the end of the
worker may be published twice, which the fold ignores. The snapshots are copies of
the row and are left out.

### ConfigReload

`file` is `model.json` (`Torn` after `write_text` has emptied it), `mcpFile` and
`disk` are the servers and the skills in the files, `live` are the references of the
container that a reload replaces one after the other, `known` the skills in each
`SkillsDirectory`, and `actor` is where each pool thread, and the loop for the prompts
of agents, is in a save, an installation or a discovery. `mixed` records that two
installations overlapped, `trouble` that a call was refused, cut off or overlapped
with another, or that a file was edited by hand, `behind` the directories that a
change on the disk has left behind. A profile is its API key; other fields,
placeholders of the environment and notification settings are left out. The skills of the
two scopes are one set, and a preview that looks skills up several times in a row is
one look. A provider that was made before a reload keeps its registry.

## 3. Runs

Every run passes. What each shows, and why its bounds are enough:

| Run | Shows | Bounds |
|---|---|---|
| `run_races` | `WorkerAccounted`, `SettledRecord`, `PendingUntouched`, `SessionSerial`, `OneWorkerPerRun`, `RunsInTurn` | two runs of one session are what `SessionSerial` and `SessionLife` relate; one thread, one stream and restarts race with the loop; symmetric in runs; three runs without restarts (4.5 million states) gave the same, and the proofs cover any number |
| `run_liveness` | `StreamAnswered`, `CancelReleases` | one run, two threads, two streams, restarts |
| `approval` | `ActionJustified`, `OpenTicketAttended`, `WaiterReachable`, `KeepsConsent`, `CallEnds` | two calls of one signature and one answering thread, with stops, resumes and crashes: two calls share a ticket, an entry and a waiter; more calls and two answers at once are covered by the proofs |
| `delegation` | `RunningAttended`, `EntryAwaited`, `FlagPaused`, `OnBoundInstance` | two tasks that two roles can take, one tool call, one HTTP call, one thread, two of all operations but the stop of the run |
| `delegation_settles` | `CoordinatorSettles` | two parallel tool calls, two cycles, two operations, stops of the run among them |
| `messages` | `SeesItsHistory`, `ResultsKept`, `AppliedShown`, `KeepsTranscript`, `GenerationEnds` | two clients, three notes, two replies with calls, two executions, one interruption: a note can fall before, into and after an exchange, and a rerun meets both a clean and an interrupted history |
| `reflection` | `RunningClaimed`, `DailyKept`, `FollowedUp`, `QueuedClaimed` | two tasks of one owner, three days with retention of one, two attempts, one retry, deletion, crash or locked table; owners share nothing but the worker |
| `triggers` | `LockAttended`, `KeepsInbox` | two triggers, one key, three deliveries (a first one, a repeated one, one without the key), two edits by any of two threads, crashes at every point |
| `session_store` | `OneInstancePerRole`, `Findable`, `DeletionEmpties`, `WorkShown` | two runs, a coordinator and one other role, three instances, two deletions, failures or crashes: a deletion that stopped anywhere is tried again, or meets a run |
| `session_rounds` | `PagesExact` | four runs on pages of one round: a run may start before, between and after the pages that its neighbours are on |
| `run_events` | `RowFolds`, `AwaitsAnswer`, `ResultsReported` | two calls, so that one waits on the ticket of the other or they come in one reply or two; one thread beside the loop; two answers, pauses or early stops; one stop, failure or crash; three calls (10.5 million states) and two threads (4.1 million) gave the same |
| `config_reload` | `PartsAgree`, `FileInUse`, `DirectoryWhole` | two threads and the loop, two profiles, two skills of which roles need one, two calls at once, one edit by hand, one crash; three calls (8.9 million states) gave the same |

The type invariants hold in these instances too; TLAPS proves all of them. `RunsInTurn`
of `SessionStore` was checked once in the instance of `session_store` (1 million states)
and is proved as well. `reflection` was also run with two accidents, for its safety
properties.

Deadlock is checked where the system cannot stop (`RunLifecycle`, `ToolApproval`,
`TriggerIngest`, `SessionRounds`). In the other models the bounds on operations end a
behaviour, and a run that is over and a server without work do stop: their
configurations say `CHECK_DEADLOCK FALSE`.

Fairness. An event loop serves ready coroutines in order, a pool thread that was
given a call is scheduled, and every wait has an end: model calls and tools time
out or fail, approvals expire, cycles are bounded by `MAX_ORCHESTRATION_CYCLES`. So
steps of coroutines and threads that have begun are weakly fair. In
`RunLifecycle`, where `loop` may be taken again and again between two turns of a
coroutine, its turns are strongly fair. Nothing is assumed of clients: creating,
stopping, answering, following up, retrying, deleting, disconnecting, and of
accidents: crashes, locks, timeouts that need not happen. `GenerationEnds` and
`CoordinatorSettles` hold for models that ask for tools finitely often. The four
modules that no liveness property is about state no fairness.

Some properties exclude by name what the next section shows: `Orphan` and a
dropped queue in `RunLifecycle`, `misled` in `SessionSerial` and `RunsInTurn`, `lapsed`
(a crash, or an error of the setup, which is outside the `try`) and `overtaken`
in `Delegation`, a worker that is `"dead"` in `ReflectionJobs`, `met` in
`SessionStore`, `loose` in `SessionRounds`, `mixed` and `cutOff` in `RunEvents`, `mixed`,
`trouble` and `behind` in `ConfigReload`. They say that nothing else goes wrong.

### Further disagreements

What documents promise and the code does not do. Each module ends with these
properties. To see one violated, put it in the place of the properties of the
component's configuration; TLC prints the behaviour. (`StoppedRunEnds` and
`StreamEnds` take `MCRunLifecycle_threads.cfg`; `RetryReclaimed` takes `MaxAttempts = 1`
and `MaxOps = 2`, `EditsKept` takes `MaxEdits = 3`.) Paths of the code are below
`src/src/agent_teams/`, those of documents below `src/docs/`.

| Module | Property | What the code does | What the document says |
|---|---|---|---|
| `RunLifecycle` | `StopReachesWorker` | A stop accepted while a run is marked as running and its task not yet registered (`runs/manager.py:344`) reaches nothing, and its flag is dropped. | api-design.md:245 "Stops the full run or a specific subagent." |
| `RunLifecycle` | `StoppedRunEnds` | A stop that cancels the worker before its first step keeps `_worker` from running, so nothing releases the run (`runs/manager.py:344`, 587): it counts as running for ever and its streams never end. | as above |
| `RunLifecycle` | `OnlyRecoverableResumes` | `create_run` tests a record read before the run finished (`runs/manager.py:258`) and has the completed run resumed. | api-design.md:249 "Resumes a recoverable run." |
| `RunLifecycle` | `StreamEnds` | A stream that takes a terminal event calls `unsubscribe_all` (`runs/manager.py:614`) and drops the queue of a newer stream of the run. | api-design.md:223 "Streams run events via SSE." |
| `ToolApproval` | `AnswerKept` | An answer recorded after the helper gave up (`tools/runtime/execution.py:380`) is overwritten by the timeout. | api-design.md:235 "Approves or denies a pending tool call." |
| `ToolApproval` | `OneActionPerApproval` | `find_reusable` (`state/approval_ticket_repo.py:226`) hands an approved ticket to every call of the signature until the first completes: two calls act on one approval. | as above |
| `Delegation` | `SerialOnInstance` | A dispatch refused as a conflict (`coordination/task_orchestration_service.py:190`) leaves an ASSIGNED task, which the walk runs on the busy instance. | api-design.md:349 "If another task already holds the same role instance in `assigned`, `running`, or `stopped`, dispatch is rejected as a conflict." |
| `Delegation` | `BoundToItsRole` | A patch that looked at a created task writes after its dispatch (`coordination/task_orchestration_service.py:111`) and changes the role of a bound task. | api-design.md:330 "Only `created` delegated tasks can be updated." |
| `Delegation` | `FailedIsFinal` | `stop_subagent` (`runs/control.py:366`) marks a task STOPPED without looking at its status: a failed one becomes one to continue. | api-design.md:348 "`failed` or `timeout`: rejected; create a new task instead." |
| `Delegation` | `StopIsSpent` | A dispatch of a stopped task (`coordination/task_orchestration_service.py:206`) leaves the stop flag of its instance, which cancels the new execution. | api-design.md:345 "`assigned` or `stopped`: reuse the bound instance and continue." |
| `Delegation` | `HeldByOne` | A refused dispatch leaves its task ASSIGNED (`coordination/task_orchestration_service.py:190`): two such tasks of one role refuse each other, with the instance idle. | api-design.md:345, as above |
| `MessageHistory` | `InjectionReaches` | A message injected after the last look at the queue is accepted and dropped by `deactivate` (`runs/injection_queue.py:23`). | api-design.md:227 "Injects follow-up content to active agents in a run." |
| `ReflectionJobs` | `OncePerDay` | `has_job_for_owner_date` (`reflection/repository.py:265`) does not count failed jobs: a day gets a second consolidation. | reflection/reflection-database-schema.md:54 "created at most once per day for the same `session + role` owner" |
| `ReflectionJobs` | `RetryReclaimed` | A retry leaves the attempts (`reflection/repository.py:130`, 191): a job without attempts left is queued and never claimed. | reflection/reflection-database-schema.md:56 "`attempt_count` increases again when the worker reclaims it." |
| `ReflectionJobs` | `LeavesByClaim` | A retry takes a job in process (`reflection/repository.py:191`), whose outcome then overwrites it. | api-design.md:462 "Retries a failed or queued reflection job." |
| `ReflectionJobs` | `NothingLeft` | `delete_session` (`reflection/service.py:403`) coordinates with nobody: a job enqueued or in process meanwhile survives, or writes its file again. | reflection/reflection-database-schema.md:57 "session deletion removes all reflection jobs and all role-level memory files" |
| `ReflectionJobs` | `OthersClaimed` | `claim_next_job` is called outside the `try` (`reflection/service.py:418`): its error ends the worker, and all jobs wait. | reflection/subagent-reflection-memory-design.md:91 "Reflection failure only affects the reflection job and is logged separately." |
| `ReflectionJobs` | `TaskUnharmed` | The job is enqueued inside the `try` of the task (`coordination/task_execution_service.py:226`): its error makes a completed task a failed one. | reflection/subagent-reflection-memory-design.md:14 "Reflection failure must never fail the original task." |
| `TriggerIngest` | `EditsKept` | An edit writes back the whole row it read (`triggers/service.py:81`, 118, 128): a disabling or a rotation that falls in between is undone. | api-design.md:432 "Disables a trigger." |
| `TriggerIngest` | `AcceptedReceived` | A repeated delivery of a key is answered as accepted although the first one was rejected and stored as such (`triggers/service.py:272`), and stores nothing. | database-schema.md:285 "append-only ingest audit log" |
| `TriggerIngest` | `LockReleased` | A duplicate delivery or a taken name leaves the connection's transaction open: SQLite's write lock stays with it until the next commit there, and other writers wait for `busy_timeout` and fail. | no sentence to quote |
| `SessionRounds` | `PagesNeverRepeat` | Rounds are sorted anew for each page (`sessions/rounds_projection.py:137`): a run that is named by the cursor before it starts moves to the front, and its successors are given twice. | api-design.md:122 "Returns paged round projections." |

Read in the code while modelling, and not stated as a property:

- `run_intents`, `run_states` and `run_snapshots` are in no step of a session's
  deletion (api-design.md:118); a deletion that failed after the `sessions` row cannot be
  repeated, since the endpoint answers 404, and its usage rows and directory stay.
- A worker whose runtime row was deleted meanwhile raises `KeyError` where it should
  record its end, and publishes no terminal event. `_execute_inner` makes the record of a
  deleted session anew.
- A crash between the record of a run's end and its event leaves log and row without
  a terminal event. The pending approval of a call that a stop or crash cut off stays in
  the row. `list_run_states` has no caller, and only a test reads the row.
- `stream_run_events` has no `finally`: the queue of a stream that went away is
  subscribed until the run's next terminal event; the models do not count queues nobody
  reads. `put_nowait` is called on `asyncio` queues from pool threads.
- A save of the model configuration that is refused is stored all the same
  (api-design.md:42-88), and two saves at once lose one another's profile.

## 4. Proofs

TLAPS checks that the following hold for every value of the constants that
meets the assumptions of the module (`NoneAssumption` and its like say that model
values are distinct from ids; `BoundsAssumption` that bounds are numbers).
Each `*Proofs` module proves that every step keeps an inductive invariant `Inv`,
one case for each action (in `MessageHistoryProofs` one lemma), and draws the
theorems from it. Every invariant, action property and refinement that a run checks is
proved, and every type invariant. Two modules hold the proofs of two components each, which is
only a matter of files: the components' definitions do not meet there.

| Module | Theorems | Why the properties are not inductive by themselves |
|---|---|---|
| `RunLifecycleProofs` | `RunTypes`, `RunWorkers`, `RunSettled`, `RunPending`, `RunOneWorker`, `RunInSeries`, `RunSerial`, `RunsFollow` (the refinement of `SessionLife`), `RunAlone` | What a thread remembers of a run must still be true when it writes: `ThreadsHold` says that one about to record a stop took the run from the registry, so that the run is not waiting for its start. `LoopHolds` says what the loop knows of the run it launches or finalizes. `Serial`, for `SessionSerial` and the refinement: in a session where no call has acted on an outdated view, every run but the active one is over, and a run asked to resume can be; `Placed` says that what the maps and the threads name is a run with a session. Each step then begins a run in a session where `Serial` leaves none alive, ends some, brings one back in a misled session, or changes no life. |
| `ServerThreadsProofs`, tool approval | `ApprovalTypes`, `ApprovalJustified`, `ApprovalReachable`, `ApprovalAttended`, `ApprovalConsents` (the refinement of `ApprovalConsent`) | Events carry answers between calls. `Objects` says that an event bears the id of the call that created it and so can only carry the answer to that call's ticket; `Tickets` that a ticket leaves `requested` with the first call that stops waiting for it. |
| `ServerThreadsProofs`, configuration | `ConfigInvariant`, `ConfigTyped`, `PartsInAgreement`, `FileIsInUse`, `DirectoriesWhole` | A reload replaces ten references one at a time. `Stages` says, for a thread in the middle of an installation, which parts are the new ones already and that the rest still agree; `FileKept` that whoever changes `model.json` is alone with it unless there was trouble; `DirsFilled` that a directory which lacks a skill has a reader that will still come to it, the last to have cleared it. |
| `DelegationProofs` | `DelegationTypes`, `DelegationAttended`, `DelegationOnBound`, `DelegationEntries`, `DelegationFlags`, `DelegationBinding` | Whatever names a task (an execution, the walk's list, a thread) must name one that is bound: `Bindings`, `Executions`, `Walking`, `ThreadTasks`. |
| `ReflectionJobsProofs` | `ReflectionTypes`, `ReflectionClaimed`, `ReflectionFollowed`, `ReflectionKept` | The worker writes files built from what it read before the model answered: `Kept` says that what it read contains every completed reflection of the day, because only the worker completes jobs; `Followed` that the consolidation exists before the job is marked. |
| `MessageHistoryProofs` | `HistoryTypes`, `HistoryKeeps` (the refinement of `Transcript`), `HistoryResults`, `HistoryShown`, `HistorySeen` | What a commit stores is computed from three local lists. `Buffered` says that between requests only one call without results is held back, and that it is the last message of the iteration; `Replied` that after a reply all before it is whole; `Kept` and `Taken` where results and notes are on their way. Lemmas on `Whole`, `Pending` and `SafeLength` (`WholeSafe`, `TailSafe`) say what the safe boundary cuts off. `History`, for `SeesItsHistory`: what is stored and what is uncommitted are, prompts aside, what the iteration started with and what is new since. What `Unprompted` leaves of a sequence is a recursive function: the lemma `AllNumbers` (induction over a set of numbers, by the well-founded order) gives that it distributes over concatenation (`UnpromptedJoin`). |
| `SessionProofs`, rows | `SessionTypes`, `SessionRoleInstance`, `SessionFindable`, `SessionDeletion`, `SessionInTurn` (the refinement of `SessionLife`), `SessionShown` | A deletion finds by ids it read before. `Deleting` says that while no run has met it, what is left is found by those ids and that every table it has passed is empty; `Rooted` that a run at work gives work only to instances of the table; `OneActive` that the one run at work, or to be resumed, is the active one, and `Begun` that no run has a record before it is created. |
| `SessionProofs`, rounds | `RoundsInvariant`, `RoundsTypes`, `RoundsExact` | Lists are sorted anew for each page, out of reads that are older than the tables. `Clocked` says that times differ and a run speaks after it started; `Snapshots` what the reads of a page can have missed: only runs younger than every known round. So the rounds given so far are those no older than the cursor (`Progress`), wherever newer ones push them in the list. |
| `RunEventsProofs` | `EventTypes`, `StateFoldsLog`, `EventsReportResults`, `EventsAwaitAnswer` | Between the log and the row there is a publish under way. `Folding` says which: once its event is logged the row lacks exactly that event, once the row was read what will be written is the fold. `Order` says that calls are made and stored in order, so that a commit counts off exactly the ready ones, and `Reporting` which of their results the loop has yet to publish. `TicketOrder` says how far a ticket is, given the call it is named after; `Awake` what each event that is not yet in the log will find there: a resolved request that no answer reaches any more, a stop of a worker that is gone. |
| `TriggerIngestProofs` | `TriggerTypes`, `TriggerAttended`, `TriggerInbox` (the refinement of `KeyedInbox`) | A sender may be told of a row another's transaction holds. `Uncommitted` says that the only event that is not committed is the one of the delivery in progress, so that a duplicate is always answered with a committed one; `Unique` that keys and deliveries have one event; `Progress` where the delivery's own event is. |

Only model-checked:

- everything about liveness (`StreamAnswered`, `CancelReleases`, `CallEnds`,
  `CoordinatorSettles`, `QueuedClaimed`, `GenerationEnds`): fairness and `ENABLED` are
  out of the prover's reach;
- the disagreements of section 3: TLC exhibits one behaviour for each.

## 5. Not modelled

- **Agent loop and token usage, verification, notifications.** One row or event per
  step that already happened; nothing here reads them.
- **Role communication, human gates, persisted tool state, `workspace/memory.py`,
  `run_intent`.** Code without a caller in the program.
- **Tools, workspace, roles, prompts, environment, logging, model connectivity.** Text,
  files and HTTP, with no state that a property is about. The task tools that
  change state are the operations of `Delegation`.
- **Interfaces.** Wiring and wire formats; whether a handler is `async` or runs in a
  pool thread is in every module.
- **Web frontend.** A client of the HTTP interface.

Of the modelled components: `RunLifecycle` takes what the coordinator writes into
the record during a run as any of its writes; `Delegation` takes a run as given and
a reflection job as no part of a task's end; `ReflectionJobs` takes executions as
their completion and leaves out the budget of injected memory
(`reflection/service.py:356`); `ConfigReload` leaves out all fields of a profile but
its key. The modules meet in the runtime record (`phase` and `status`), in the stop
of a run, and in the tables that `SessionStore` names, which each of them models as
far as it reaches into its component.

## 6. Plan

1. An abstract specification of what the events of a run report (queued, running,
   waiting for an answer, settled) that `RunEvents` implements up to the named gaps.
2. `RoleRecords` and `HumanGate`, small as they are, if the code comes to use them.
3. `ClientStream`: the browser's event source (`frontend/dist/js/core/stream.js`,
   `app/recovery.js`): streams replaced and ended across awaits and session switches.
