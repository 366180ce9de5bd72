---------------------------- MODULE RunLifecycle ----------------------------
(***************************************************************************)
(* The life of a run: RunManager (runs/manager.py), the task registry of   *)
(* RunControlManager (runs/control.py), the event hub                      *)
(* (runs/event_stream.py) and the run_runtime table                        *)
(* (state/run_runtime_repo.py).                                            *)
(*                                                                         *)
(* create_run and stop_run are plain `def' endpoints: each call runs in a  *)
(* thread of the server's pool, here an element of Threads that takes one  *)
(* step per access to shared state.  Workers, streams and resume are       *)
(* coroutines: they interleave only where `loop' is idle, that is between  *)
(* two awaits, but the threads interleave with them everywhere.            *)
(***************************************************************************)
EXTENDS Naturals, FiniteSets

CONSTANTS
  Runs,       \* run ids (trace ids) the server can hand out
  Sessions,   \* sessions
  Threads,    \* threads of the server's pool
  Clients,    \* SSE connections
  None,       \* no run, no session
  Calls,      \* the endpoints the pool serves: "create", "stop"
  MayRestart  \* whether the process may die and come back

ASSUME BoundsAssumption == Calls \subseteq {"create", "stop"} /\ MayRestart \in BOOLEAN
ASSUME NoneAssumption == None \notin Runs \cup Sessions

VARIABLES
  \* memory of RunManager
  pending,    \* _pending_runs
  running,    \* _running_run_ids
  resumeReq,  \* _resume_requested_runs
  active,     \* _active_run_by_session
  \* memory of _RunTaskRegistry, and the asyncio tasks themselves
  registered, \* runs with an entry in _run_tasks
  task,       \* state of the last worker task of each run
  cancelled,  \* runs whose worker task has a cancellation to deliver
  \* the coroutine that holds the event loop across two of our steps
  loop,
  \* the calls the pool is executing
  thread,
  \* RunEventHub, and the connections that read from it
  reader,     \* the run a connection streams, or None
  subscribed, \* connections whose queue the hub still feeds
  inbox,      \* connections with a terminal event in their queue
  \* the run_runtime table: the only part that survives a restart
  status,
  session,
  \* history variable: no guard reads it
  misled      \* sessions in which a call has acted on an outdated view

memory == <<pending, running, resumeReq, active, registered, task, cancelled>>
hub    == <<reader, subscribed, inbox>>
table  == <<status, session>>
vars   == <<memory, loop, thread, hub, table, misled>>

(***************************************************************************)
(* Run records.                                                            *)
(***************************************************************************)
\* `running' stands for RUNNING and PAUSED, which nothing here tells apart; the
\* phase column, which no decision of these components depends on, is left out.
Recoverable == {"queued", "running", "stopped"}
Final       == {"completed", "failed"}
RunStatus   == Recoverable \cup Final \cup {"absent"}

\* `lost': cancelled before its first step, so that _worker never ran.
TaskState   == {"none", "scheduled", "executing", "done", "lost"}
LiveTask    == {"scheduled", "executing"}
LoopState   == [op : {"idle", "launch", "finalize"}, run : Runs \cup {None}]
Idle        == [op |-> "idle", run |-> None]

ThreadState == [pc   : {"idle", "create", "attach", "stop_pending", "stop_task",
                        "stop_write"},
                run  : Runs \cup {None},
                sess : Sessions \cup {None},
                recoverable : BOOLEAN]
IdleThread  == [pc |-> "idle", run |-> None, sess |-> None, recoverable |-> FALSE]

TypeOK ==
  /\ pending \subseteq Runs /\ running \subseteq Runs /\ resumeReq \subseteq Runs
  /\ active \in [Sessions -> Runs \cup {None}]
  /\ registered \subseteq Runs /\ cancelled \subseteq Runs
  /\ task \in [Runs -> TaskState]
  /\ loop \in LoopState
  /\ thread \in [Threads -> ThreadState]
  /\ reader \in [Clients -> Runs \cup {None}]
  /\ subscribed \subseteq Clients /\ inbox \subseteq Clients
  /\ status \in [Runs -> RunStatus] /\ session \in [Runs -> Sessions \cup {None}]
  /\ misled \subseteq Sessions

Known(r) == status[r] # "absent"

Init ==
  /\ pending = {} /\ running = {} /\ resumeReq = {}
  /\ active = [s \in Sessions |-> None]
  /\ registered = {} /\ cancelled = {}
  /\ task = [r \in Runs |-> "none"]
  /\ loop = Idle
  /\ thread = [t \in Threads |-> IdleThread]
  /\ reader = [c \in Clients |-> None] /\ subscribed = {} /\ inbox = {}
  /\ status = [r \in Runs |-> "absent"]  /\ session = [r \in Runs |-> None]
  /\ misled = {}

(***************************************************************************)
(* Seeded faults, one per property: none of them is used below.            *)
(***************************************************************************)
RememberNothing(s, r)   == UNCHANGED active
StartableTwice(r)       == r \in pending \cup resumeReq
RecordNothing(r)        == UNCHANGED <<status, session>>
ReleaseButRunning(r)    == /\ registered' = registered \ {r} /\ UNCHANGED running
                           /\ pending' = pending \ {r} /\ resumeReq' = resumeReq \ {r}
ReleaseButPending(r)    == /\ registered' = registered \ {r} /\ running' = running \ {r}
                           /\ UNCHANGED pending /\ resumeReq' = resumeReq \ {r}
ActiveAlwaysDropped(s, r) == [active EXCEPT ![s] = IF @ = r THEN None ELSE @]
PublishToNobody(r)      == UNCHANGED <<reader, subscribed, inbox>>

\* RunRuntimeRepository.update
Record(r, st) == status' = [status EXCEPT ![r] = st] /\ UNCHANGED session

\* RunEventHub.publish of RUN_COMPLETED, RUN_FAILED or RUN_STOPPED.  Other events
\* are read and forgotten, and a queue nobody reads any more is not counted.
PublishEnd(r) ==
  /\ inbox' = inbox \cup {c \in subscribed : reader[c] = r}
  /\ UNCHANGED <<reader, subscribed>>

\* _remember_active_run
Remember(s, r) == active' = [active EXCEPT ![s] = r]

\* ensure_run_started: which runs get a worker now.
Startable(r) == r \notin running /\ r \in pending \cup resumeReq

\* The end of a cancelled worker in the table.
RecordStopped(r) == Record(r, "stopped")

\* _finalize_run: what the process forgets, and the session's active run.
Release(r) ==
  /\ registered' = registered \ {r}
  /\ running' = running \ {r}
  /\ pending' = pending \ {r}
  /\ resumeReq' = resumeReq \ {r}

ActiveAfter(s, r) ==
  IF status[r] \in Recoverable THEN [active EXCEPT ![s] = r]
  ELSE [active EXCEPT ![s] = IF @ = r THEN None ELSE @]

\* A follow-up or a stop that finds the run over, and its record final, is late.
OutOfWork(r) == r \notin running /\ status[r] \in Final
Mislead(s, outdated) == misled' = IF outdated THEN misled \cup {s} ELSE misled

Goto(t, pc) == thread' = [thread EXCEPT ![t].pc = pc]
\* The endpoint answers, whatever the call came to.
Return(t)   == thread' = [thread EXCEPT ![t] = IdleThread]

(***************************************************************************)
(* create_run, in a thread.  The session's active run and its record are   *)
(* read first; the sets it belongs to are only looked at afterwards.       *)
(***************************************************************************)
CreateLook(t, s) ==
  /\ "create" \in Calls /\ thread[t].pc = "idle"
  /\ thread' = [thread EXCEPT ![t] =
                  [pc |-> "create", run |-> active[s], sess |-> s,
                   recoverable |-> active[s] # None /\ status[active[s]] \in Recoverable]]
  /\ UNCHANGED <<memory, loop, hub, table, misled>>

\* A subagent of the session is paused, or a tool approval is open: RuntimeError.
CreateRefused(t) ==
  /\ thread[t].pc = "create"
  /\ Return(t)
  /\ UNCHANGED <<memory, loop, hub, table, misled>>

\* The follow-up is merged into the pending intent, or queued for the coordinator.
CreateFollowUp(t) ==
  /\ thread[t].pc = "create"
  /\ thread[t].run \in pending \cup running
  /\ Return(t)
  /\ UNCHANGED <<memory, loop, hub, table, misled>>

CreateFoundRecoverable(t) ==
  /\ thread[t].pc = "create"
  /\ thread[t].run # None /\ thread[t].run \notin pending \cup running
  /\ thread[t].recoverable
  /\ Goto(t, "attach")
  /\ UNCHANGED <<memory, loop, hub, table, misled>>

\* _append_followup_to_coordinator is over: ask for the resumption.
CreateAttach(t) ==
  /\ thread[t].pc = "attach"
  /\ resumeReq' = resumeReq \cup {thread[t].run}
  /\ Return(t)
  /\ Mislead(session[thread[t].run], OutOfWork(thread[t].run))
  /\ UNCHANGED <<pending, running, active, registered, task, cancelled>>
  /\ UNCHANGED <<loop, hub, table>>

\* Nobody knows the fresh id before the call returns, so the three writes are one step.
CreateNew(t, r) ==
  /\ thread[t].pc = "create"
  /\ \/ thread[t].run = None
     \/ thread[t].run \notin pending \cup running /\ ~ thread[t].recoverable
  /\ ~ Known(r)
  /\ pending' = pending \cup {r}
  /\ Remember(thread[t].sess, r)
  /\ status' = [status EXCEPT ![r] = "queued"]
  /\ session' = [session EXCEPT ![r] = thread[t].sess]
  /\ LET now == active[thread[t].sess]
     IN Mislead(thread[t].sess,
                now # thread[t].run \/ (now # None /\ status[now] \in Recoverable))
  /\ Return(t)
  /\ UNCHANGED <<running, resumeReq, registered, task, cancelled>>
  /\ UNCHANGED <<loop, hub>>

(***************************************************************************)
(* stop_run, in a thread.                                                  *)
(***************************************************************************)
StopLook(t, r) ==
  /\ "stop" \in Calls /\ thread[t].pc = "idle" /\ Known(r)
  /\ thread' = [thread EXCEPT ![t].run = r,
                  ![t].pc = IF r \in pending /\ r \notin running
                            THEN "stop_pending" ELSE "stop_task"]
  /\ UNCHANGED <<memory, loop, hub, table, misled>>

\* The pop raises KeyError when another call was faster.
StopPending(t) ==
  LET r == thread[t].run IN
  /\ thread[t].pc = "stop_pending"
  /\ Return(t)
  /\ IF r \in pending
     THEN /\ pending' = pending \ {r}
          /\ Record(r, "stopped")
          /\ PublishEnd(r)
     ELSE UNCHANGED <<pending, table, hub>>
  /\ UNCHANGED <<running, resumeReq, active, registered, task, cancelled>>
  /\ UNCHANGED <<loop, misled>>

\* request_run_stop: one critical section.
StopRequest(t) ==
  LET r == thread[t].run IN
  /\ thread[t].pc = "stop_task"
  /\ cancelled' = IF r \in registered /\ task[r] \in LiveTask
                  THEN cancelled \cup {r} ELSE cancelled
  /\ IF r \in registered THEN Goto(t, "stop_write") ELSE Return(t)
  /\ UNCHANGED <<pending, running, resumeReq, active, registered, task>>
  /\ UNCHANGED <<loop, hub, table, misled>>

\* Whatever the worker wrote in the meantime is overwritten.
StopWrite(t) ==
  /\ thread[t].pc = "stop_write"
  /\ Record(thread[t].run, "stopped")
  /\ Mislead(session[thread[t].run], OutOfWork(thread[t].run))
  /\ Return(t)
  /\ UNCHANGED <<memory, loop, hub>>

(***************************************************************************)
(* The event loop: resume_run, streams and workers.                        *)
(***************************************************************************)
Resume(r) ==
  /\ loop = Idle
  /\ Known(r) /\ r \notin running
  /\ r \in pending \/ status[r] \in Recoverable
  /\ resumeReq' = resumeReq \cup {r}
  /\ Remember(session[r], r)
  /\ UNCHANGED <<pending, running, registered, task, cancelled>>
  /\ UNCHANGED <<loop, thread, hub, table, misled>>

\* stream_run_events up to its first await, for a run that is already running.
\* (For one that nobody asked to start the connection ends with an error.)
Connect(c, r) ==
  /\ loop = Idle
  /\ reader[c] = None /\ r \in running
  /\ reader' = [reader EXCEPT ![c] = r]
  /\ subscribed' = subscribed \cup {c}
  /\ UNCHANGED <<memory, loop, thread, inbox, table, misled>>

\* ... and for one to start, up to the event RUN_STARTED or RUN_RESUMED.
ConnectAndStart(c, r) ==
  /\ loop = Idle
  /\ reader[c] = None /\ Startable(r)
  /\ reader' = [reader EXCEPT ![c] = r]
  /\ subscribed' = subscribed \cup {c}
  /\ running' = running \cup {r}
  /\ resumeReq' = IF r \in pending THEN resumeReq ELSE resumeReq \ {r}
  /\ Record(r, "running")
  /\ loop' = [op |-> "launch", run |-> r]
  /\ UNCHANGED <<pending, active, registered, task, cancelled>>
  /\ UNCHANGED <<thread, inbox, misled>>

\* create_task and register_run_task: only now can a stop find the task.
Launch ==
  LET r == loop.run IN
  /\ loop.op = "launch"
  /\ task' = [task EXCEPT ![r] = "scheduled"]
  /\ cancelled' = cancelled \ {r}
  /\ registered' = registered \cup {r}
  /\ loop' = Idle
  /\ UNCHANGED <<pending, running, resumeReq, active>>
  /\ UNCHANGED <<thread, hub, table, misled>>

\* The first step of the task.  A task cancelled before it never enters the
\* body of _worker: neither its handlers nor its `finally' ever run.
Begin(r) ==
  /\ loop = Idle
  /\ task[r] = "scheduled"
  /\ task' = [task EXCEPT ![r] = IF r \in cancelled THEN "lost" ELSE "executing"]
  /\ cancelled' = cancelled \ {r}
  /\ UNCHANGED <<pending, running, resumeReq, active, registered>>
  /\ UNCHANGED <<loop, thread, hub, table, misled>>

\* What the coordinator, the task executions and the tools write into the
\* record while the worker awaits them.  A failing task records a failed run.
Writes == {"running", "stopped", "failed"}

Progress(r) ==
  /\ loop = Idle
  /\ task[r] = "executing"
  /\ \E st \in Writes : Record(r, st)
  /\ UNCHANGED <<memory, loop, thread, hub, misled>>

\* The runner returned, or raised; a cancellation not yet delivered is lost.
WorkerResult(r, outcome) ==
  /\ loop = Idle
  /\ task[r] = "executing"
  /\ Record(r, outcome)
  /\ PublishEnd(r)
  /\ task' = [task EXCEPT ![r] = "done"]
  /\ cancelled' = cancelled \ {r}
  /\ loop' = [op |-> "finalize", run |-> r]
  /\ UNCHANGED <<pending, running, resumeReq, active, registered>>
  /\ UNCHANGED <<thread, misled>>

\* A CancelledError comes out of the runner: a stop cancelled the task, or it
\* stopped the subagent whose execution a tool of the coordinator was awaiting.
WorkerCancelled(r) ==
  /\ loop = Idle
  /\ task[r] = "executing"
  /\ RecordStopped(r)
  /\ PublishEnd(r)
  /\ task' = [task EXCEPT ![r] = "done"]
  /\ cancelled' = cancelled \ {r}
  /\ loop' = [op |-> "finalize", run |-> r]
  /\ UNCHANGED <<pending, running, resumeReq, active, registered>>
  /\ UNCHANGED <<thread, misled>>

\* _finalize_run
Finalize ==
  LET r == loop.run IN
  /\ loop.op = "finalize"
  /\ Release(r)
  /\ active' = ActiveAfter(session[r], r)
  /\ loop' = Idle
  /\ UNCHANGED <<task, cancelled>>
  /\ UNCHANGED <<thread, hub, table, misled>>

\* event_generator ends: with its stream, or because nobody listens any more.
CloseStream(c) == reader' = [reader EXCEPT ![c] = None] /\ inbox' = inbox \ {c}

\* The connection takes the terminal event, drops every queue of the run and ends.
Read(c) ==
  /\ loop = Idle
  /\ c \in inbox
  /\ subscribed' = {d \in subscribed : reader[d] # reader[c]}
  /\ CloseStream(c)
  /\ UNCHANGED <<memory, loop, thread, table, misled>>

\* The client goes away.
Disconnect(c) ==
  /\ loop = Idle
  /\ reader[c] # None
  /\ subscribed' = subscribed \ {c}
  /\ CloseStream(c)
  /\ UNCHANGED <<memory, loop, thread, table, misled>>

\* list_recoverable, the rows of one session.
Candidates(s) == {r \in Runs : session[r] = s /\ status[r] \in Recoverable}

\* The process dies at any point and comes back: only the table is left, and
\* _hydrate_active_runs picks a recoverable run of every session that has one
\* (the most recently updated; the model leaves the choice open).
Restart ==
  /\ MayRestart
  /\ pending' = {} /\ running' = {} /\ resumeReq' = {}
  /\ registered' = {} /\ cancelled' = {}
  /\ task' = [r \in Runs |-> "none"]
  /\ active' \in [Sessions -> Runs \cup {None}]
  /\ \A s \in Sessions :
       IF Candidates(s) = {} THEN active'[s] = None ELSE active'[s] \in Candidates(s)
  /\ loop' = Idle
  /\ thread' = [t \in Threads |-> IdleThread]
  /\ reader' = [c \in Clients |-> None] /\ subscribed' = {} /\ inbox' = {}
  /\ UNCHANGED <<table, misled>>

ThreadStep(t) ==
  \/ CreateRefused(t) \/ CreateFollowUp(t) \/ CreateFoundRecoverable(t) \/ CreateAttach(t)
  \/ (\E r \in Runs : CreateNew(t, r))
  \/ StopPending(t) \/ StopRequest(t) \/ StopWrite(t)

Next ==
  \/ \E t \in Threads : \/ ThreadStep(t)
                        \/ \E s \in Sessions : CreateLook(t, s)
                        \/ \E r \in Runs : StopLook(t, r)
  \/ \E r \in Runs : \/ Resume(r) \/ Begin(r) \/ Progress(r) \/ WorkerCancelled(r)
                     \/ \E outcome \in Final : WorkerResult(r, outcome)
                     \/ \E c \in Clients : Connect(c, r) \/ ConnectAndStart(c, r)
  \/ Launch \/ Finalize
  \/ \E c \in Clients : Read(c) \/ Disconnect(c)
  \/ Restart

Spec == Init /\ [][Next]_vars

(***************************************************************************)
(* Fairness.  asyncio serves ready tasks in the order they became ready and*)
(* a call in the pool keeps being scheduled; a worker ends because its     *)
(* cycles are bounded and its model calls, tools and approvals time out.   *)
(***************************************************************************)
Ends(r) == WorkerCancelled(r) \/ \E outcome \in Final : WorkerResult(r, outcome)

Fairness ==
  /\ WF_vars(Launch) /\ WF_vars(Finalize)
  /\ \A r \in Runs : SF_vars(Begin(r)) /\ SF_vars(Ends(r))
  /\ \A c \in Clients : SF_vars(Read(c))
  /\ \A t \in Threads : WF_vars(ThreadStep(t))

LiveSpec == Spec /\ Fairness

(***************************************************************************)
(* Properties.                                                             *)
(***************************************************************************)
Live(r) == task[r] \in LiveTask
\* The worker was cancelled before its first step: the run stays marked as
\* running for ever, and nothing will publish its end.
Orphan(r) == r \in running /\ task[r] = "lost"

\* Every worker task that can still do something belongs to a run marked as
\* running and is the one a stop will find in the registry; conversely a run
\* marked as running has such a task, is being launched or finalized, or is an
\* orphan (manager.py _running_run_ids against control.py _run_tasks).
WorkerAccounted ==
  \A r \in Runs :
    /\ Live(r) => r \in running /\ r \in registered
    /\ r \in running => Live(r) \/ loop.run = r \/ Orphan(r)
    /\ loop.op = "launch" /\ loop.run = r => ~ Live(r)

\* A worker is created for a run only when the previous one is over: the same
\* run is never executed twice at the same time (ensure_run_started).
OneWorkerPerRun == [][\A r \in Runs : ~ Live(r) \/ task'[r] # "scheduled" \/ task[r] = "scheduled"]_vars

\* Two runs of one session execute together only in a session where a call has
\* acted on an outdated view: create_run made a run although another one was
\* active by then, or the active one recoverable, or a follow-up or a stop was
\* written to a run that had ended since the call looked it up.
SessionSerial ==
  \A r1, r2 \in running : r1 # r2 /\ session[r1] = session[r2] => session[r1] \in misled

\* A run whose worker is over in this process does not look busy in the table:
\* its status is final or stopped (finalization against the late writes).
SettledRecord ==
  \A r \in Runs :
    task[r] = "done" /\ r \notin running => status[r] \in Final \cup {"stopped"}

\* A run that is waiting for its first start has not been written to, and it is
\* still recoverable after a crash (create_run, stop_run and _finalize_run).
PendingUntouched ==
  \A r \in pending \ running : status[r] = "queued" /\ ~ Live(r)

\* What a session makes of its runs: one is active while it is at work and as long as its
\* record says that it can be resumed.
Life == [r \in Runs |-> IF ~ Known(r) THEN "none"
                       ELSE IF r \in running \/ status[r] \in Recoverable THEN "active" ELSE "ended"]
Lives == INSTANCE SessionLife WITH life <- Life, home <- session

\* The runs of a session follow one another (create_run, resume_run, stop_run, the worker and
\* the restart): none is created while another is active, and none that has ended works
\* again, except in a session where a call has acted on an outdated view.
RunsInTurn == Lives!Spec

\* A stream ends, unless its queue was dropped with those of another stream of
\* the same run, or the run's worker was cancelled before its first step.
StreamAnswered ==
  \A c \in Clients, r \in Runs :
    reader[c] = r ~> \/ reader[c] # r
                     \/ c \notin subscribed
                     \/ Orphan(r)

\* A stop that reached a worker ends with the run released, unless it reached
\* the worker before its first step.
CancelReleases ==
  \A r \in Runs : (r \in cancelled /\ Live(r)) ~> (r \notin running \/ Orphan(r))

(***************************************************************************)
(* What the documentation says of the program, and the program does not do.*)
(***************************************************************************)
\* docs/api-design.md:245, POST /runs/{run_id}/stop "stops the full run": a stop
\* that the endpoint accepts for a running run leaves its worker cancelled or over.
StopReachesWorker ==
  [][\A t \in Threads :
       LET r == thread[t].run IN
       StopRequest(t) /\ r \in running =>
         r \in cancelled' \/ task[r] \in {"done", "lost"}]_vars

\* docs/api-design.md:245 again: a run whose worker a stop has cancelled is
\* eventually not running any more.
StoppedRunEnds == \A r \in Runs : (r \in cancelled) ~> (r \notin running)

\* docs/api-design.md:249, "resumes a recoverable run": no worker is started to
\* resume a run whose status is final.
OnlyRecoverableResumes ==
  [][\A c \in Clients, r \in Runs :
       ConnectAndStart(c, r) /\ r \notin pending => status[r] \in Recoverable]_vars

\* docs/api-design.md:223, GET /runs/{run_id}/events "streams run events": a
\* connection to a run whose worker does end gets its terminal event.
StreamEnds == \A c \in Clients, r \in Runs : reader[c] = r ~> reader[c] # r \/ Orphan(r)

=============================================================================
