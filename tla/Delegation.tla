----------------------------- MODULE Delegation -----------------------------
(***************************************************************************)
(* Delegated tasks of one run: how they are created, bound to a role       *)
(* instance, dispatched, executed, stopped, followed up and recovered.     *)
(* TaskOrchestrationService, TaskExecutionService and CoordinatorGraph     *)
(* (coordination/), RunControlManager with its instance-task and pause     *)
(* registries (runs/control.py), the tasks table (state/task_repo.py).     *)
(*                                                                         *)
(* An instance is named by its role: _ensure_role_instance keeps one       *)
(* instance per role in a session.  Executions, dispatching requests and   *)
(* the coordinator are coroutines of one event loop; the coordinator keeps *)
(* the loop while it walks its list (coord.pc = "loop").  The endpoints    *)
(* that stop, follow up and patch are plain `def': they run in Threads and *)
(* interleave with everything.                                             *)
(***************************************************************************)
EXTENDS Naturals, FiniteSets

CONSTANTS
  Tasks,      \* delegated task ids
  Roles,      \* roles, and the session's instance of each
  Tools,      \* dispatch calls the coordinator's model may have in flight
  Https,      \* dispatch calls of HTTP clients
  Loop,       \* the coordinator's own list walk, as a caller of execute
  Threads,    \* threads of the server's pool
  None,
  Modes,      \* execution modes the run may have: "ai", "manual"
  Allowed,    \* which of the operations UserStep counts may happen
  MaxCycles,  \* MAX_ORCHESTRATION_CYCLES
  MaxOps      \* bound: operations of users in one behaviour

Operations == {"again", "stop", "follow", "update", "halt", "crash", "resume"}
Requests   == Tools \cup Https
Callers    == Requests \cup {Loop}

ASSUME CallersAssumption == Tools \cap Https = {} /\ Loop \notin Requests
ASSUME NoneAssumption    == None \notin Tasks \cup Roles \cup Callers
ASSUME BoundsAssumption  == /\ Modes \subseteq {"ai", "manual"} /\ Allowed \subseteq Operations
                            /\ MaxCycles \in Nat /\ MaxOps \in Nat

VARIABLES
  \* the tasks table: status, envelope.role_id, assigned_instance_id
  status, role, bound,
  \* the run's run_runtime record: phase, active_subagent_instance_id, is_recoverable
  phase,
  \* the coroutines: the execution each caller awaits, and the coordinator
  exec, coord,
  \* _RunTaskRegistry: _instance_tasks; executions with a cancellation to deliver
  entry, doomed,
  \* _subagent_stop_requested, _paused_by_session, _run_stop_requested
  stopFlag, paused, runStop,
  \* the calls the pool is executing
  thread,
  \* history: tasks left RUNNING by a crash or a failed setup; instances whose pause
  \* another pause replaced; operations so far
  lapsed, overtaken, ops

table   == <<status, role, bound>>
work    == <<exec, coord, entry, doomed>>
control == <<stopFlag, paused, runStop>>
ghosts  == <<lapsed, overtaken>>
vars    == <<table, phase, work, control, thread, ghosts, ops>>

Held       == {"assigned", "running", "stopped"}
TaskStatus == Held \cup {"absent", "created", "completed", "failed"}
Outcome    == {"none", "ok", "failed", "cancelled"}
Phase      == [at : {"subagent", "awaiting", "other"}, inst : Roles \cup {None}, rec : BOOLEAN]
Execution  == [pc : {"none", "created", "running", "ended"}, task : Tasks \cup {None},
               inst : Roles \cup {None}, out : Outcome]
Free       == [pc |-> "none", task |-> None, inst |-> None, out |-> "none"]
Coordinator == [pc : {"down", "turn", "cycle", "loop", "wait"}, calls : SUBSET Tools,
                todo : SUBSET Tasks, ran : BOOLEAN, cycle : 0..MaxCycles, hit : BOOLEAN]
\* calls: dispatch calls of the turn; hit: the run's task has a cancellation to deliver
At(pc, n)  == [pc |-> pc, calls |-> {}, todo |-> {}, ran |-> FALSE, cycle |-> n, hit |-> FALSE]
Down       == At("down", 0)
ThreadState == [pc : {"idle", "stop", "follow", "release", "update", "halt"},
                inst : Roles \cup {None}, task : Tasks \cup {None}]
IdleThread == [pc |-> "idle", inst |-> None, task |-> None]

TypeOK ==
  /\ status \in [Tasks -> TaskStatus]
  /\ role \in [Tasks -> Roles \cup {None}] /\ bound \in [Tasks -> Roles \cup {None}]
  /\ phase \in Phase /\ coord \in Coordinator
  /\ exec \in [Callers -> Execution]
  /\ entry \in [Roles -> Callers \cup {None}] /\ doomed \subseteq Callers
  /\ stopFlag \subseteq Roles /\ paused \in Roles \cup {None} /\ runStop \in BOOLEAN
  /\ thread \in [Threads -> ThreadState]
  /\ lapsed \subseteq Tasks /\ overtaken \subseteq Roles /\ ops \in 0..MaxOps

\* _initialize_manual_mode: no turn of the coordinator, the run is over at once.
ManualStart == coord = Down /\ phase = [at |-> "other", inst |-> None, rec |-> FALSE]

Init ==
  /\ status = [t \in Tasks |-> "absent"]
  /\ role = [t \in Tasks |-> None] /\ bound = [t \in Tasks |-> None]
  /\ \E m \in Modes : IF m = "manual" THEN ManualStart
       ELSE coord = At("turn", 0) /\ phase = [at |-> "other", inst |-> None, rec |-> TRUE]
  /\ exec = [c \in Callers |-> Free] /\ entry = [i \in Roles |-> None] /\ doomed = {}
  /\ stopFlag = {} /\ paused = None /\ runStop = FALSE
  /\ thread = [w \in Threads |-> IdleThread]
  /\ lapsed = {} /\ overtaken = {} /\ ops = 0

(***************************************************************************)
(* Shared vocabulary.                                                      *)
(***************************************************************************)
UserStep(op) == op \in Allowed /\ ops < MaxOps /\ ops' = ops + 1
Live(c)      == exec[c].pc \in {"created", "running"}
Executing(t) == \E c \in Callers : exec[c].pc = "running" /\ exec[c].task = t

\* TaskRepository.update_status
Mark(t, s)   == status' = [status EXCEPT ![t] = s]

\* RunRuntimeRepository.update: the phase, whose subagent, and recoverable or final
Phased(at, i, rec) == phase' = [at |-> at, inst |-> i, rec |-> rec]

\* RunControlManager.get_paused_subagent: memory first, then the run's record
PausedInRecord == IF phase.at = "awaiting" THEN phase.inst ELSE None
PausedSubagent == IF paused # None THEN paused ELSE PausedInRecord

\* _SubagentPauseRegistry.pause: one record per session, the last one.
Pause(i) == /\ paused' = i
            /\ overtaken' = IF paused \in {None, i} THEN overtaken
                            ELSE overtaken \cup {paused}

\* _RunTaskRegistry.request_subagent_stop: the flag, and what is registered is cancelled.
Flag(i) ==
  LET c == entry[i] IN
  /\ stopFlag' = stopFlag \cup {i}
  /\ doomed' = IF c # None /\ Live(c) THEN doomed \cup {c} ELSE doomed

\* RunControlManager.is_cancelled
StopAsked(i) == runStop \/ i \in stopFlag

\* TaskOrchestrationService._assert_instance_available
Busy(t, i) == \E u \in Tasks \ {t} : bound[u] = i /\ status[u] \in Held

\* The execution is over; its task object may still be in the registry.
End(c, outcome) == /\ exec' = [exec EXCEPT ![c].pc = "ended", ![c].out = outcome]
                   /\ doomed' = doomed \ {c}

(***************************************************************************)
(* Seeded faults, one per property: none of them is used below.            *)
(***************************************************************************)
FailUnmarked(c)      == /\ exec[c].pc = "running" /\ End(c, "failed")
                        /\ Phased("other", None, FALSE)
                        /\ UNCHANGED <<table, coord, entry, control, thread, ghosts, ops>>
TargetOfRole(t)      == role[t]
LeaveRegistered(c)   == exec' = [exec EXCEPT ![c] = Free] /\ UNCHANGED entry
ReleaseRecorded(i)   == phase.at = "awaiting" /\ phase.inst = i
ReturnToBusyTurn(q)  == /\ exec[q].pc = "ended" /\ exec' = [exec EXCEPT ![q] = Free]
                        /\ entry' = [entry EXCEPT ![exec[q].inst] = None]
                        /\ coord' = IF exec[q].out = "ok"
                                    THEN [coord EXCEPT !.calls = @ \ {q}] ELSE coord
                        /\ UNCHANGED <<table, phase, doomed, control, thread, ghosts, ops>>

\* RunControlManager._find_task_for_instance, whichever is listed first
FoundTask(i) ==
  LET mine == {t \in Tasks : bound[t] = i /\ status[t] \in Held \cup {"created"}}
  IN IF mine = {} THEN {None} ELSE mine

Known(i) == \E t \in Tasks : bound[t] = i   \* the instance exists

(***************************************************************************)
(* TaskOrchestrationService: create, dispatch and update.                  *)
(***************************************************************************)
Create(t, r) ==
  /\ status[t] = "absent" /\ (coord.pc = "turn" \/ Https # {})
  /\ Mark(t, "created") /\ role' = [role EXCEPT ![t] = r]
  /\ UNCHANGED <<bound, phase, work, control, thread, ghosts, ops>>

\* The instance dispatch_task works with: bound now, or at the first dispatch.
Target(t) == IF status[t] = "created" THEN role[t] ELSE bound[t]

\* What dispatch_task lets through before it asks whether the instance is free;
\* a completed task needs feedback.
Dispatchable(t) ==
  \/ status[t] \in {"created", "assigned"} /\ UNCHANGED ops
  \/ status[t] \in {"stopped", "completed"} /\ UserStep("again")

BindOnFirst(t) ==
  IF status[t] = "created"
  THEN Mark(t, "assigned") /\ bound' = [bound EXCEPT ![t] = role[t]]
  ELSE UNCHANGED <<status, bound>>

\* execute: the worker task is created and registered, and waits for its first turn
Launch(c, t, i) ==
  /\ exec' = [exec EXCEPT ![c] = [Free EXCEPT !.pc = "created", !.task = t, !.inst = i]]
  /\ entry' = [entry EXCEPT ![i] = c]

\* A request is free to dispatch: a tool call belongs to a turn of the coordinator.
Idle(q) == exec[q].pc = "none" /\ (q \in Tools => coord.pc = "turn")

Dispatch(q, t) ==
  /\ Idle(q) /\ Dispatchable(t) /\ ~Busy(t, Target(t))
  /\ BindOnFirst(t) /\ Launch(q, t, Target(t))
  /\ coord' = IF q \in Tools THEN [coord EXCEPT !.calls = @ \cup {q}] ELSE coord
  /\ UNCHANGED <<role, phase, doomed, control, thread, ghosts>>

\* Refused as a conflict, after the first dispatch has bound the task.
DispatchRefused(q, t) ==
  /\ Idle(q) /\ status[t] = "created" /\ Busy(t, Target(t))
  /\ BindOnFirst(t)
  /\ UNCHANGED <<role, phase, work, control, thread, ghosts, ops>>

\* TaskRepository.update_envelope
Patch(t, r) == role' = [role EXCEPT ![t] = r]

UpdateLook(w, t) ==
  /\ thread[w].pc = "idle" /\ status[t] = "created" /\ UserStep("update")
  /\ thread' = [thread EXCEPT ![w] = [pc |-> "update", inst |-> None, task |-> t]]
  /\ UNCHANGED <<table, phase, work, control, ghosts>>

UpdateWrite(w, r) ==
  /\ thread[w].pc = "update"
  /\ Patch(thread[w].task, r)
  /\ thread' = [thread EXCEPT ![w] = IdleThread]
  /\ UNCHANGED <<status, bound, phase, work, control, ghosts, ops>>

(***************************************************************************)
(* TaskExecutionService._execute_inner: one step up to the model's answer, *)
(* one step when the answer, an error or a cancellation comes back.        *)
(***************************************************************************)
ExecBegins(c) ==
  /\ exec[c].pc = "created" /\ c \notin doomed
  /\ exec' = [exec EXCEPT ![c].pc = "running"]
  /\ Mark(exec[c].task, "running") /\ lapsed' = lapsed \ {exec[c].task}
  /\ Phased("subagent", exec[c].inst, TRUE)
  /\ UNCHANGED <<role, bound, coord, entry, doomed, control, thread, overtaken, ops>>

\* The role, the workspace or the provider cannot be had: raised outside the `try'.
SetupFails(c) ==
  /\ exec[c].pc = "created" /\ c \notin doomed
  /\ End(c, "failed")
  /\ Mark(exec[c].task, "running") /\ lapsed' = lapsed \cup {exec[c].task}
  /\ Phased("subagent", exec[c].inst, TRUE)
  /\ UNCHANGED <<role, bound, coord, entry, control, thread, overtaken, ops>>

\* Cancelled before its first step: the coroutine never runs.
ExecLost(c) ==
  /\ exec[c].pc = "created" /\ c \in doomed
  /\ End(c, "cancelled")
  /\ UNCHANGED <<table, phase, coord, entry, control, thread, ghosts, ops>>

\* A cancellation that arrives after the last await still cancels the task.
ExecCompletes(c) ==
  /\ exec[c].pc = "running"
  /\ End(c, IF c \in doomed THEN "cancelled" ELSE "ok")
  /\ Mark(exec[c].task, "completed") /\ Phased("other", None, TRUE)
  /\ UNCHANGED <<role, bound, coord, entry, control, thread, ghosts, ops>>

ExecFails(c) ==
  /\ exec[c].pc = "running"
  /\ End(c, "failed")
  /\ Mark(exec[c].task, "failed") /\ Phased("other", None, FALSE)
  /\ UNCHANGED <<role, bound, coord, entry, control, thread, ghosts, ops>>

\* handle_instance_cancelled
MarkCancelled(t, stopped) == Mark(t, IF stopped THEN "stopped" ELSE "failed")

\* CancelledError comes from the cancelled task or from a control point of the runner
\* that finds a stop flag; handle_instance_cancelled looks at the flags only.
ExecCancelled(c) ==
  LET i == exec[c].inst  stopped == StopAsked(i) IN
  /\ exec[c].pc = "running" /\ (c \in doomed \/ stopped)
  /\ End(c, "cancelled")
  /\ MarkCancelled(exec[c].task, stopped)
  /\ IF i \in stopFlag /\ ~runStop THEN Phased("awaiting", i, TRUE)
                                   ELSE Phased("other", None, stopped)
  /\ UNCHANGED <<role, bound, coord, entry, control, thread, ghosts, ops>>

(***************************************************************************)
(* The callers of execute: dispatch requests.                              *)
(***************************************************************************)
\* RunManager._worker after a CancelledError; whether the model's other tool calls are
\* cancelled with the turn is the agent library's choice.
RunStops(alsoCancelled) ==
  /\ coord' = Down /\ Phased("other", None, TRUE)
  /\ doomed' = doomed \cup alsoCancelled
RunEnds == coord' = Down /\ Phased("other", None, FALSE)

LiveCalls == {q \in coord.calls : Live(q)}

\* unregister_instance_task removes whatever the instance's entry is.
Leave(c) == /\ exec' = [exec EXCEPT ![c] = Free]
            /\ entry' = [entry EXCEPT ![exec[c].inst] = None]

\* A cancelled execution cancels the coordinator whose tool call awaited it.
Return(q) ==
  /\ exec[q].pc = "ended" /\ Leave(q)
  /\ IF q \in coord.calls /\ exec[q].out = "cancelled"
     THEN \E S \in SUBSET LiveCalls : RunStops(S)
     ELSE /\ coord' = [coord EXCEPT !.calls = @ \ {q}]
          /\ UNCHANGED <<phase, doomed>>
  /\ UNCHANGED <<table, control, thread, ghosts, ops>>

(***************************************************************************)
(* CoordinatorGraph: a turn of the coordinator, then the pending tasks, in *)
(* cycles, until a walk runs nothing.                                      *)
(***************************************************************************)
TurnEnds ==
  /\ coord.pc = "turn" /\ coord.calls = {} /\ ~coord.hit
  /\ coord' = [coord EXCEPT !.pc = "cycle"] /\ Phased("other", None, TRUE)
  /\ UNCHANGED <<table, exec, entry, doomed, control, thread, ghosts, ops>>

TurnFails ==
  /\ coord.pc = "turn" /\ coord.calls = {} /\ RunEnds
  /\ UNCHANGED <<table, exec, entry, doomed, control, thread, ghosts, ops>>

TurnCancelled ==
  /\ coord.pc \in {"turn", "cycle"} /\ coord.hit
  /\ \E S \in SUBSET LiveCalls : RunStops(S)
  /\ UNCHANGED <<table, exec, entry, control, thread, ghosts, ops>>

\* The records the walk goes through, read once.
Pending == {t \in Tasks : status[t] \in {"assigned", "created"} /\ bound[t] # None}

Snapshot ==
  /\ coord.pc = "cycle" /\ ~coord.hit
  /\ IF coord.cycle = MaxCycles THEN RunEnds
     ELSE /\ coord' = [coord EXCEPT !.pc = "loop", !.cycle = @ + 1, !.todo = Pending,
                                    !.ran = FALSE]
          /\ UNCHANGED phase
  /\ UNCHANGED <<table, exec, entry, doomed, control, thread, ghosts, ops>>

LoopSkips(t) ==
  /\ coord.pc = "loop" /\ t \in coord.todo /\ PausedSubagent = bound[t]
  /\ coord' = [coord EXCEPT !.todo = @ \ {t}]
  /\ UNCHANGED <<table, phase, exec, entry, doomed, control, thread, ghosts, ops>>

\* A cancellation that reached the run's task while it was walking hits what it awaits.
LoopStarts(t) ==
  /\ coord.pc = "loop" /\ t \in coord.todo /\ PausedSubagent # bound[t]
  /\ Launch(Loop, t, bound[t])
  /\ doomed' = IF coord.hit THEN doomed \cup {Loop} ELSE doomed
  /\ coord' = [coord EXCEPT !.pc = "wait", !.todo = @ \ {t}, !.hit = FALSE]
  /\ UNCHANGED <<table, phase, control, thread, ghosts, ops>>

\* A cancelled execution ends the run, unless its subagent was asked to stop.
LoopReturns ==
  /\ coord.pc = "wait" /\ exec[Loop].pc = "ended" /\ Leave(Loop)
  /\ IF exec[Loop].out = "cancelled" \/ coord.hit
     THEN IF exec[Loop].inst \in stopFlag
          THEN coord' = [coord EXCEPT !.pc = "loop", !.hit = FALSE] /\ UNCHANGED phase
          ELSE coord' = Down /\ Phased("other", None, TRUE)
     ELSE IF exec[Loop].out = "failed" THEN RunEnds
     ELSE coord' = [coord EXCEPT !.pc = "loop", !.ran = TRUE] /\ UNCHANGED phase
  /\ UNCHANGED <<table, doomed, control, thread, ghosts, ops>>

LoopEnds ==
  /\ coord.pc = "loop" /\ coord.todo = {}
  /\ IF coord.ran
     THEN /\ coord' = [coord EXCEPT !.pc = "turn"] /\ Phased("other", None, TRUE)
     ELSE RunEnds
  /\ UNCHANGED <<table, exec, entry, doomed, control, thread, ghosts, ops>>

(***************************************************************************)
(* RunControlManager, called from the pool's threads.                      *)
(***************************************************************************)
\* stop_subagent up to the pause: flag, cancellation of the registered execution, pause
\* record.  The task to mark is the registered one's, or one found in the table.
StopAsk(w, i) ==
  LET c == entry[i] IN
  /\ thread[w].pc = "idle" /\ Known(i) /\ UserStep("stop")
  /\ Flag(i) /\ Pause(i)
  /\ \E t \in IF c # None THEN {exec[c].task} ELSE FoundTask(i) :
       thread' = [thread EXCEPT ![w] = [pc |-> "stop", inst |-> i, task |-> t]]
  /\ UNCHANGED <<table, phase, exec, coord, entry, runStop, lapsed>>

StopWrite(w) ==
  LET t == thread[w].task IN
  /\ thread[w].pc = "stop"
  /\ IF t = None THEN UNCHANGED status ELSE Mark(t, "stopped")
  /\ Phased("awaiting", thread[w].inst, TRUE)
  /\ thread' = [thread EXCEPT ![w] = IdleThread]
  /\ UNCHANGED <<role, bound, work, control, ghosts, ops>>

\* resume_subagent_with_message: refused while another subagent is paused.
FollowLook(w, i) ==
  /\ thread[w].pc = "idle" /\ Known(i) /\ PausedSubagent \in {None, i}
  /\ UserStep("follow")
  /\ \E t \in FoundTask(i) :
       thread' = [thread EXCEPT ![w] = [pc |-> "follow", inst |-> i, task |-> t]]
  /\ UNCHANGED <<table, phase, work, control, ghosts>>

FollowWrite(w) ==
  LET t == thread[w].task IN
  /\ thread[w].pc = "follow"
  /\ IF t = None THEN UNCHANGED status ELSE Mark(t, "assigned")
  /\ thread' = [thread EXCEPT ![w].pc = "release"]
  /\ UNCHANGED <<role, bound, phase, work, control, ghosts, ops>>

\* _SubagentPauseRegistry.release
Unpause(i) == paused' = IF paused = i THEN None ELSE paused

\* release_paused_subagent finds the pause in memory or in the run's record, or not.
Releases(i) == i \in {paused, PausedInRecord}

FollowRelease(w) ==
  LET i == thread[w].inst IN
  /\ thread[w].pc = "release"
  /\ stopFlag' = IF Releases(i) THEN stopFlag \ {i} ELSE stopFlag
  /\ Unpause(i)
  /\ Phased("subagent", i, TRUE)
  /\ thread' = [thread EXCEPT ![w] = IdleThread]
  /\ UNCHANGED <<table, work, runStop, ghosts, ops>>

\* _SubagentPauseRegistry.clear_for_run
ClearPauses == paused' = None

\* stop_run: first the pause and its flag, then the cancellations.
HaltClear(w) ==
  /\ thread[w].pc = "idle" /\ UserStep("halt")
  /\ ClearPauses /\ stopFlag' = stopFlag \ {paused}
  /\ thread' = [thread EXCEPT ![w] = [pc |-> "halt", inst |-> None, task |-> None]]
  /\ UNCHANGED <<table, phase, work, runStop, ghosts>>

\* Cancelling the run's task cancels the execution it awaits, or else itself at its
\* next await.
HaltAsk(w) ==
  LET awaited == IF coord.pc = "wait" /\ Live(Loop) THEN {Loop} ELSE {} IN
  /\ thread[w].pc = "halt"
  /\ runStop' = TRUE
  /\ doomed' = doomed \cup awaited \cup {c \in Callers : Live(c) /\ \E i \in Roles : entry[i] = c}
  /\ coord' = IF coord.pc # "down" /\ awaited = {} THEN [coord EXCEPT !.hit = TRUE] ELSE coord
  /\ phase' = IF coord.pc # "down" THEN [phase EXCEPT !.rec = TRUE] ELSE phase
  /\ thread' = [thread EXCEPT ![w] = IdleThread]
  /\ UNCHANGED <<table, exec, entry, stopFlag, paused, ghosts, ops>>

(***************************************************************************)
(* The process dies and a new one serves the same tables; a client resumes *)
(* the run.                                                                *)
(***************************************************************************)
Crash ==
  /\ UserStep("crash")
  /\ exec' = [c \in Callers |-> Free] /\ entry' = [i \in Roles |-> None]
  /\ doomed' = {} /\ coord' = Down
  /\ stopFlag' = {} /\ paused' = None /\ runStop' = FALSE
  /\ thread' = [w \in Threads |-> IdleThread]
  /\ lapsed' = {t \in Tasks : status[t] = "running"} /\ overtaken' = {}
  /\ UNCHANGED <<table, phase>>

\* _is_paused_subagent_task
AwaitsFollowUp(t) == phase.at = "awaiting" /\ phase.inst = bound[t]

\* _prepare_recovery: what was interrupted is to be run again, what a user paused is not.
Recovered(t) ==
  IF status[t] = "running" \/ (status[t] = "stopped" /\ ~AwaitsFollowUp(t))
  THEN IF bound[t] # None THEN "assigned" ELSE "created"
  ELSE status[t]

\* _has_resumable_delegated_work, after the recovery
Resumable(t) == /\ Recovered(t) \in Held \cup {"created"} /\ bound[t] # None
                /\ ~AwaitsFollowUp(t) /\ PausedSubagent # bound[t]

Resume ==
  /\ coord.pc = "down" /\ phase.rec /\ UserStep("resume")
  /\ status' = [t \in Tasks |-> Recovered(t)]
  /\ lapsed' = {} /\ runStop' = FALSE
  /\ IF (\E t \in Tasks : Resumable(t)) \/ phase.at \in {"subagent", "awaiting"}
     THEN coord' = At("cycle", 0) /\ UNCHANGED phase
     ELSE coord' = At("turn", 0) /\ Phased("other", None, TRUE)
  /\ UNCHANGED <<role, bound, exec, entry, doomed, stopFlag, paused, thread, overtaken>>

(***************************************************************************)
(* Specification.                                                          *)
(***************************************************************************)
ExecStep(c) == \/ ExecBegins(c) \/ SetupFails(c) \/ ExecLost(c)
               \/ ExecCompletes(c) \/ ExecFails(c) \/ ExecCancelled(c)

\* Coroutines other than a coordinator that is walking its list.
LoopFree ==
  \/ \E t \in Tasks, r \in Roles : Create(t, r)
  \/ \E q \in Requests, t \in Tasks : Dispatch(q, t) \/ DispatchRefused(q, t)
  \/ \E c \in Callers : ExecStep(c)
  \/ \E q \in Requests : Return(q)
  \/ TurnEnds \/ TurnFails \/ TurnCancelled \/ Snapshot
  \/ LoopReturns
  \/ Resume

CoordinatorWalks == (\E t \in Tasks : LoopSkips(t) \/ LoopStarts(t)) \/ LoopEnds

ThreadStep(w) == \/ StopWrite(w) \/ FollowWrite(w) \/ FollowRelease(w) \/ HaltAsk(w)
                 \/ \E r \in Roles : UpdateWrite(w, r)

UserCalls(w) == \/ \E i \in Roles : StopAsk(w, i) \/ FollowLook(w, i)
                \/ \E t \in Tasks : UpdateLook(w, t)
                \/ HaltClear(w)

Next == \/ coord.pc # "loop" /\ LoopFree
        \/ CoordinatorWalks
        \/ \E w \in Threads : ThreadStep(w) \/ UserCalls(w)
        \/ Crash

Spec == Init /\ [][Next]_vars

\* The loop schedules what is ready, the model answers or fails, and stops calling tools.
Fairness ==
  /\ \A c \in Callers : WF_vars(coord.pc # "loop" /\ ExecStep(c))
  /\ \A q \in Requests : WF_vars(coord.pc # "loop" /\ Return(q))
  /\ WF_vars(TurnEnds \/ TurnFails \/ TurnCancelled \/ Snapshot \/ LoopReturns)
  /\ WF_vars(CoordinatorWalks)
  /\ \A w \in Threads : WF_vars(ThreadStep(w))

FairSpec == Spec /\ Fairness

(***************************************************************************)
(* Properties.                                                             *)
(***************************************************************************)
\* A task that the table shows RUNNING is being executed, whatever stops, follow-ups,
\* second dispatches and recoveries did to it, unless a crash or a setup error took its
\* execution away.
RunningAttended == \A t \in Tasks : status[t] = "running" => Executing(t) \/ t \in lapsed

\* An execution works on the instance its task is bound to: the role of a task may be
\* patched, dispatched and recovered, and the conversation it continues is its own.
OnBoundInstance == \A c \in Callers : Live(c) => exec[c].inst = bound[exec[c].task]

\* The registry names an execution that its caller still awaits, on that instance: a
\* stop cancels nothing else.
EntryAwaited ==
  \A i \in Roles : entry[i] # None => exec[entry[i]].pc # "none" /\ exec[entry[i]].inst = i

\* A stop flag is set only while a pause record tells the user whom to follow up, or
\* after a second pause replaced that record.
FlagPaused == \A i \in stopFlag : paused = i \/ i \in overtaken

\* A task is bound to one instance, once.
BindingKept == [][\A t \in Tasks : bound[t] # None => bound'[t] = bound[t]]_vars

\* A coordinator at work comes to an end: its cycles, the executions it awaits and the
\* tool calls of its turns are finite, through stops and follow-ups.
CoordinatorSettles == coord.pc # "down" ~> coord.pc = "down"

(***************************************************************************)
(* Properties the code does not have.                                      *)
(***************************************************************************)
\* docs/api-design.md:25: dispatch of tasks of one role is serial.
SerialOnInstance ==
  \A c, d \in Callers : /\ exec[c].pc = "running" /\ exec[d].pc = "running"
                        /\ exec[c].inst = exec[d].inst
                        => exec[c].task = exec[d].task

\* docs/api-design.md:330: only created tasks can be updated, so that the instance a
\* task is bound to is the one for its role.
BoundToItsRole == \A t \in Tasks : bound[t] # None => bound[t] = role[t]

\* docs/api-design.md:348: a failed task is recreated, never dispatched again.
FailedIsFinal == [][\A t \in Tasks : status[t] = "failed" => status'[t] = "failed"]_vars

\* docs/api-design.md:345: the dispatch of a stopped task continues it; what cancels an
\* execution is a stop of the run or one made during the execution.
StopIsSpent ==
  [][\A c \in Callers : /\ exec[c].pc = "running" /\ exec'[c].out = "cancelled"
                        /\ \A w \in Threads : thread[w].pc = "idle"
                        => c \in doomed \/ runStop]_vars

\* docs/api-design.md:345 and 349: an assigned or stopped task whose instance nobody
\* uses can be dispatched: it is not held up by another such task.
HeldByOne ==
  \A i \in Roles : (\A c \in Callers : Live(c) => exec[c].inst # i)
      => \A t, u \in Tasks : /\ bound[t] = i /\ status[t] \in {"assigned", "stopped"}
                             /\ bound[u] = i /\ status[u] \in {"assigned", "stopped"}
                             => t = u
=============================================================================
