--------------------------- MODULE ReflectionJobs ---------------------------
(***************************************************************************)
(* Reflection: the persistent queue of jobs that turn what a subagent did  *)
(* into daily memory files and a long-term memory file.                    *)
(* ReflectionJobRepository and ReflectionService (reflection/), the place  *)
(* that enqueues (coordination/task_execution_service.py) and the deletion *)
(* of a session (sessions/service.py).                                     *)
(*                                                                         *)
(* One worker coroutine claims jobs and waits for a model.  Retries and    *)
(* deletions are plain `def' endpoints: they run in pool threads and       *)
(* interleave with the worker's statements; the subagents' executions are  *)
(* coroutines too and run while the worker sleeps or waits for the model.  *)
(* A file is modelled by the jobs whose output its text was built from:    *)
(* the model is shown the file it is to replace.                           *)
(***************************************************************************)
EXTENDS Naturals, FiniteSets

CONSTANTS
  Owners,       \* session and role, with the workspace of the role's instance
  MaxDaily,     \* bound: completed subagent tasks
  MaxDay,       \* bound: days
  MaxAttempts,  \* ReflectionConfig.max_retry_attempts
  Retention,    \* ReflectionConfig.daily_retention_days
  Allowed,      \* which of the operations UserStep counts may happen
  MaxOps        \* bound: those operations in one behaviour

Operations == {"retry", "delete", "crash", "lock"}

\* A daily job asks for at most one consolidation each time it is processed.
MaxJobs == MaxDaily * (MaxAttempts + 1)
Jobs    == 1..MaxJobs
Days    == 0..MaxDay

ASSUME OwnersAssumption == Owners # {}
ASSUME BoundsAssumption == /\ MaxDaily \in Nat /\ MaxDay \in Nat /\ MaxOps \in Nat
                           /\ MaxAttempts \in Nat \ {0} /\ Retention \in Nat \ {0}
                           /\ Allowed \subseteq Operations

VARIABLES
  job, created,            \* the reflection_jobs table, in the order of created_at
  raw, digest, longTerm,   \* the memory files
  subagent,                \* the execution of the owner's last task
  session, deleting,       \* the session's rows exist; where its deletion is
  worker, today, ops

table == <<job, created>>
files == <<raw, digest, longTerm>>
vars  == <<table, files, subagent, session, deleting, worker, today, ops>>

JobStatus == {"absent", "queued", "running", "completed", "failed"}
Job     == [status : JobStatus, kind : {"daily", "long"}, owner : Owners, day : Days,
            attempts : 0..MaxAttempts]
Seen    == [raw : SUBSET Jobs, digest : SUBSET Jobs, long : SUBSET Jobs]
Nothing == [raw |-> {}, digest |-> {}, long |-> {}]
Worker  == [pc : {"off", "dead", "idle", "claimed", "asked", "raw", "digest", "follow", "done"},
            job : Jobs \cup {0}, seen : Seen]
At(pc)  == [pc |-> pc, job |-> 0, seen |-> Nothing]

TypeOK ==
  /\ job \in [Jobs -> Job] /\ created \in 0..MaxJobs
  /\ raw \in [Owners -> [Days -> SUBSET Jobs]] /\ digest \in [Owners -> [Days -> SUBSET Jobs]]
  /\ longTerm \in [Owners -> SUBSET Jobs]
  /\ subagent \in [Owners -> {"idle", "completed", "failed"}]
  /\ session \in [Owners -> BOOLEAN]
  /\ deleting \in [Owners -> {"no", "memory", "tables", "workspace"}]
  /\ worker \in Worker /\ today \in Days /\ ops \in 0..MaxOps

Init ==
  /\ \E o \in Owners : job = [j \in Jobs |-> [status |-> "absent", kind |-> "daily", owner |-> o,
                                              day |-> 0, attempts |-> 0]]
  /\ created = 0
  /\ raw = [o \in Owners |-> [d \in Days |-> {}]]
  /\ digest = [o \in Owners |-> [d \in Days |-> {}]]
  /\ longTerm = [o \in Owners |-> {}]
  /\ subagent = [o \in Owners |-> "idle"]
  /\ session = [o \in Owners |-> TRUE] /\ deleting = [o \in Owners |-> "no"]
  /\ worker = At("off") /\ today = 0 /\ ops = 0

(***************************************************************************)
(* Seeded faults, one per property: none of them is used below.            *)
(***************************************************************************)
ClaimableTooSoon == {j \in Jobs : job[j].status = "queued" /\ job[j].attempts + 1 < MaxAttempts}
ExpiredToday(d)     == d + Retention <= today
HasAnyDay(o, d)     == \E j \in Jobs : /\ job[j].kind = "long" /\ job[j].owner = o
                                       /\ job[j].status \in {"queued", "running", "completed"}
StartAsItIs         == /\ worker.pc = "off" /\ worker' = At("idle")
                       /\ UNCHANGED <<table, files, subagent, session, deleting, today, ops>>

(***************************************************************************)
(* Shared vocabulary.                                                      *)
(***************************************************************************)
UserStep(op) == op \in Allowed /\ ops < MaxOps /\ ops' = ops + 1
Exists(j)    == job[j].status # "absent"
Claimable    == {j \in Jobs : job[j].status = "queued" /\ job[j].attempts < MaxAttempts}
Expired(d)   == d + Retention < today
Up           == worker.pc # "off"   \* the server runs, with reflection enabled

\* _run_write_with_retry gives up: the database stays locked for all of its attempts.
StaysLocked == UserStep("lock")

\* enqueue
New(kind, o, d) ==
  /\ created < MaxJobs /\ created' = created + 1
  /\ job' = [job EXCEPT ![created + 1] = [status |-> "queued", kind |-> kind, owner |-> o,
                                          day |-> d, attempts |-> 0]]

\* An UPDATE: a row that was deleted meanwhile stays away.
SetStatus(j, s) == job' = IF Exists(j) THEN [job EXCEPT ![j].status = s] ELSE job

\* has_job_for_owner_date
HasConsolidation(o, d) ==
  \E j \in Jobs : /\ job[j].kind = "long" /\ job[j].owner = o /\ job[j].day = d
                  /\ job[j].status \in {"queued", "running", "completed"}

\* The job the worker holds, whose fields it read when it claimed it.
Mine   == worker.job
Owner  == job[Mine].owner
Day    == job[Mine].day
Goes(pc) == worker' = [worker EXCEPT !.pc = pc]

(***************************************************************************)
(* The subagent's execution: the task is marked COMPLETED, then a job is   *)
(* enqueued.                                                               *)
(***************************************************************************)
\* _enqueue_reflection_if_needed: between the two nothing else of the event loop runs.
Enqueuing == \E o \in Owners : subagent[o] = "completed"

TaskCompletes(o) ==
  /\ session[o] /\ ~Enqueuing /\ worker.pc \in {"dead", "idle", "asked"}
  /\ Cardinality({j \in 1..created : job[j].kind = "daily"}) < MaxDaily
  /\ subagent' = [subagent EXCEPT ![o] = "completed"]
  /\ UNCHANGED <<table, files, session, deleting, worker, today, ops>>

Enqueue(o) ==
  /\ subagent[o] = "completed"
  /\ New("daily", o, today) /\ subagent' = [subagent EXCEPT ![o] = "idle"]
  /\ UNCHANGED <<files, session, deleting, worker, today, ops>>

\* The error is handled as an error of the task.
EnqueueFails(o) ==
  /\ subagent[o] = "completed" /\ StaysLocked
  /\ subagent' = [subagent EXCEPT ![o] = "failed"]
  /\ UNCHANGED <<table, files, session, deleting, worker, today>>

(***************************************************************************)
(* The worker.                                                             *)
(***************************************************************************)
Start ==
  /\ worker.pc = "off" /\ worker' = At("idle")
  /\ job' = [j \in Jobs |-> IF job[j].status = "running"
                            THEN [job[j] EXCEPT !.status = "queued"] ELSE job[j]]
  /\ UNCHANGED <<created, files, subagent, session, deleting, today, ops>>

Claim ==
  /\ worker.pc = "idle"
  /\ \E j \in Claimable :
       /\ \A k \in Claimable : j <= k
       /\ job' = [job EXCEPT ![j].status = "running", ![j].attempts = @ + 1]
       /\ worker' = [At("claimed") EXCEPT !.job = j]
  /\ UNCHANGED <<created, files, subagent, session, deleting, today, ops>>

\* The lock is met outside the `try' of process_next_job, or inside it and then
\* for mark_failed too.  The error ends the loop.
LoopDies ==
  /\ worker.pc \in {"idle", "follow", "done"} /\ ~Enqueuing /\ StaysLocked
  /\ worker' = At("dead")
  /\ UNCHANGED <<table, files, subagent, session, deleting, today>>

\* A daily job reads the task's row; both kinds read the files.
ReadFiles ==
  /\ worker.pc = "claimed" /\ (job[Mine].kind = "daily" => session[Owner])
  /\ worker' = [worker EXCEPT !.pc = "asked",
                  !.seen = [raw |-> raw[Owner][Day], digest |-> digest[Owner][Day],
                            long |-> longTerm[Owner]]]
  /\ UNCHANGED <<table, files, subagent, session, deleting, today, ops>>

Failed ==
  /\ SetStatus(Mine, "failed") /\ worker' = At("idle")
  /\ UNCHANGED <<created, files, subagent, session, deleting, today, ops>>

\* The task is gone, a file or the table cannot be written.
Fails == worker.pc \in {"claimed", "raw", "digest", "follow", "done"} /\ Failed

\* _run_json_prompt: there is no profile, no answer, or no JSON object in it.
ModelFails == worker.pc = "asked" /\ Failed

\* What the model makes of what it was shown: a daily result has both documents.
DailyReflection(seen, j) == [raw |-> seen.raw \cup {j}, digest |-> seen.digest \cup {j}]
Consolidation(seen, j)   == seen.long \cup seen.raw \cup seen.digest \cup {j}

WriteRaw ==
  /\ worker.pc = "asked" /\ job[Mine].kind = "daily" /\ Goes("raw")
  /\ raw' = [raw EXCEPT ![Owner][Day] = DailyReflection(worker.seen, Mine).raw]
  /\ UNCHANGED <<table, digest, longTerm, subagent, session, deleting, today, ops>>

WriteDigest ==
  /\ worker.pc = "raw" /\ Goes("digest")
  /\ digest' = [digest EXCEPT ![Owner][Day] = DailyReflection(worker.seen, Mine).digest]
  /\ UNCHANGED <<table, raw, longTerm, subagent, session, deleting, today, ops>>

\* The owner's expired daily files go; then the look for a consolidation of the day.
Cleaned(f) == [f EXCEPT ![Owner] = [d \in Days |-> IF Expired(d) THEN {} ELSE @[d]]]

Clean ==
  /\ worker.pc = "digest"
  /\ raw' = Cleaned(raw) /\ digest' = Cleaned(digest)
  /\ Goes(IF HasConsolidation(Owner, Day) THEN "done" ELSE "follow")
  /\ UNCHANGED <<table, longTerm, subagent, session, deleting, today, ops>>

Follow ==
  /\ worker.pc = "follow" /\ Goes("done")
  /\ New("long", Owner, Day)
  /\ UNCHANGED <<files, subagent, session, deleting, today, ops>>

WriteLong ==
  /\ worker.pc = "asked" /\ job[Mine].kind = "long" /\ Goes("done")
  /\ longTerm' = [longTerm EXCEPT ![Owner] = Consolidation(worker.seen, Mine)]
  /\ UNCHANGED <<table, raw, digest, subagent, session, deleting, today, ops>>

Complete ==
  /\ worker.pc = "done"
  /\ SetStatus(Mine, "completed") /\ worker' = At("idle")
  /\ UNCHANGED <<created, files, subagent, session, deleting, today, ops>>

(***************************************************************************)
(* Clients, in pool threads; the calendar; the end of the process.         *)
(***************************************************************************)
Retry(j) ==
  /\ Up /\ Exists(j) /\ UserStep("retry")
  /\ SetStatus(j, "queued")
  /\ UNCHANGED <<created, files, subagent, session, deleting, worker, today>>

\* delete_session: the jobs, the long-term file, the rows of the session, the workspace.
DeleteJobs(o) ==
  /\ Up /\ session[o] /\ deleting[o] = "no" /\ UserStep("delete")
  /\ job' = [j \in Jobs |-> IF job[j].owner = o THEN [job[j] EXCEPT !.status = "absent"]
                            ELSE job[j]]
  /\ deleting' = [deleting EXCEPT ![o] = "memory"]
  /\ UNCHANGED <<created, files, subagent, session, worker, today>>

DeleteMemory(o) ==
  /\ deleting[o] = "memory" /\ deleting' = [deleting EXCEPT ![o] = "tables"]
  /\ longTerm' = [longTerm EXCEPT ![o] = {}]
  /\ UNCHANGED <<table, raw, digest, subagent, session, worker, today, ops>>

DeleteTables(o) ==
  /\ deleting[o] = "tables" /\ deleting' = [deleting EXCEPT ![o] = "workspace"]
  /\ session' = [session EXCEPT ![o] = FALSE]
  /\ UNCHANGED <<table, files, subagent, worker, today, ops>>

DeleteWorkspace(o) ==
  /\ deleting[o] = "workspace" /\ deleting' = [deleting EXCEPT ![o] = "no"]
  /\ raw' = [raw EXCEPT ![o] = [d \in Days |-> {}]]
  /\ digest' = [digest EXCEPT ![o] = [d \in Days |-> {}]]
  /\ UNCHANGED <<table, longTerm, subagent, session, worker, today, ops>>

Midnight ==
  /\ today < MaxDay /\ today' = today + 1
  /\ UNCHANGED <<table, files, subagent, session, deleting, worker, ops>>

\* stop() is the same for the queue: it cancels the worker and marks nothing.
Crash ==
  /\ Up /\ UserStep("crash")
  /\ worker' = At("off") /\ subagent' = [o \in Owners |-> "idle"]
  /\ deleting' = [o \in Owners |-> "no"]
  /\ UNCHANGED <<table, files, session, today>>

(***************************************************************************)
(* Specification.                                                          *)
(***************************************************************************)
WorkerStep == \/ Claim \/ ReadFiles \/ Fails \/ ModelFails \/ WriteRaw \/ WriteDigest \/ Clean \/ Follow
              \/ WriteLong \/ Complete

Deletion(o) == DeleteJobs(o) \/ DeleteMemory(o) \/ DeleteTables(o) \/ DeleteWorkspace(o)

Next == \/ \E o \in Owners : TaskCompletes(o) \/ Enqueue(o) \/ EnqueueFails(o) \/ Deletion(o)
        \/ Start \/ (~Enqueuing /\ WorkerStep) \/ LoopDies
        \/ \E j \in Jobs : Retry(j)
        \/ Midnight \/ Crash

Spec == Init /\ [][Next]_vars

\* The loop schedules the worker, the model answers or fails, and an execution goes on.
FairSpec == /\ Spec /\ WF_vars(~Enqueuing /\ WorkerStep)
            /\ WF_vars(\E o \in Owners : Enqueue(o))

(***************************************************************************)
(* Properties.                                                             *)
(***************************************************************************)
\* A job shown as RUNNING is the one the worker holds, whatever retries, failures and
\* restarts did: only a worker that has ended leaves another one behind.
RunningClaimed ==
  \A j \in Jobs : job[j].status = "running" => worker.job = j \/ worker.pc \in {"off", "dead"}

\* What a completed daily job produced is in both files of its day, after later jobs,
\* retries and crashes between the two writes, until the day expires or the session goes.
DailyKept ==
  \A j \in Jobs : LET o == job[j].owner  d == job[j].day IN
    /\ job[j].status = "completed" /\ job[j].kind = "daily"
    /\ session[o] /\ today <= d + Retention
    => j \in raw[o][d] /\ j \in digest[o][d]

\* A completed daily job has a consolidation of its day, which ends are repeated and
\* deletions cross as they may.
FollowedUp ==
  \A j \in Jobs : job[j].status = "completed" /\ job[j].kind = "daily" =>
    \E k \in Jobs : /\ Exists(k) /\ job[k].kind = "long"
                    /\ job[k].owner = job[j].owner /\ job[k].day = job[j].day

\* A queued job with attempts left is claimed while there is a worker: no order of
\* retries and failures of other jobs holds it back for ever.
QueuedClaimed ==
  \A j \in Jobs : job[j].status = "queued" /\ job[j].attempts < MaxAttempts
                   ~> job[j].status # "queued" \/ worker.pc \in {"off", "dead"}

(***************************************************************************)
(* Properties the code does not have.                                      *)
(***************************************************************************)
\* docs/reflection/reflection-database-schema.md:54: a consolidation is created at most
\* once per day and owner.
OncePerDay ==
  \A j, k \in Jobs : /\ Exists(j) /\ job[j].kind = "long"
                     /\ Exists(k) /\ job[k].kind = "long"
                     /\ job[j].owner = job[k].owner /\ job[j].day = job[k].day
                     => j = k

\* docs/reflection/reflection-database-schema.md:56: a retried job is reclaimed.
RetryReclaimed ==
  \A j \in Jobs : job[j].status = "queued"
                   ~> job[j].status # "queued" \/ worker.pc \in {"off", "dead"}

\* docs/reflection/reflection-database-schema.md:57: the deletion of a session removes
\* its jobs and long-term files.
NothingLeft ==
  \A o \in Owners :
    ~session[o] /\ deleting[o] = "no" /\ worker.pc = "idle" /\ ~Enqueuing
    => longTerm[o] = {} /\ \A j \in Jobs : Exists(j) => job[j].owner # o

\* docs/reflection/subagent-reflection-memory-design.md:91: a failure affects its job
\* only: the others are claimed.
OthersClaimed ==
  \A j \in Jobs : job[j].status = "queued" /\ job[j].attempts < MaxAttempts
                   ~> job[j].status # "queued" \/ worker.pc = "off"

\* docs/api-design.md:462: what can be retried is failed or queued, so that a queued job
\* leaves the queue by a claim, or with its session.
LeavesByClaim ==
  [][\A j \in Jobs : job[j].status = "queued"
                      => job'[j].status \in {"queued", "running", "absent"}]_vars

\* docs/reflection/subagent-reflection-memory-design.md:14: reflection never fails the task.
TaskUnharmed == [][\A o \in Owners : subagent[o] = "completed" => subagent'[o] # "failed"]_vars
=============================================================================
