------------------------ MODULE ReflectionJobsProofs ------------------------
(***************************************************************************)
(* What holds of the reflection queue for any number of owners, tasks,     *)
(* days, attempts and operations.                                          *)
(*                                                                         *)
(* The argument follows the job the worker holds: while it is held, what   *)
(* was read for it contains every completed reflection of its day (Kept),  *)
(* and before it is marked its consolidation exists (Followed).            *)
(***************************************************************************)
EXTENDS ReflectionJobs, TLAPS

Busy == {"claimed", "asked", "raw", "digest", "follow", "done"}

\* Rows are created in order; the worker holds a created one.
Rows ==
  /\ \A j \in Jobs : j > created => job[j].status = "absent"
  /\ worker.pc \in {"off", "dead", "idle"} => worker.job = 0
  /\ worker.pc \in Busy => worker.job \in Jobs /\ worker.job <= created
  /\ worker.pc \in {"raw", "digest", "follow"} => job[worker.job].kind = "daily"
  /\ \A o \in Owners : deleting[o] = "workspace" => ~session[o]

Consolidated(o, d) ==
  \E k \in Jobs : Exists(k) /\ job[k].kind = "long" /\ job[k].owner = o /\ job[k].day = d

Followed ==
  /\ FollowedUp
  /\ worker.pc = "done" /\ Exists(Mine) /\ job[Mine].kind = "daily" => Consolidated(Owner, Day)

Unexpired(o, d) == session[o] /\ today <= d + Retention
Done(o, d) == {j \in Jobs : /\ job[j].status = "completed" /\ job[j].kind = "daily"
                            /\ job[j].owner = o /\ job[j].day = d}

Kept ==
  /\ \A o \in Owners, d \in Days :
       Unexpired(o, d) => Done(o, d) \subseteq raw[o][d] /\ Done(o, d) \subseteq digest[o][d]
  /\ worker.pc \in Busy /\ job[Mine].kind = "daily" /\ Unexpired(Owner, Day) =>
       /\ worker.pc = "asked" => Done(Owner, Day) \subseteq worker.seen.raw
       /\ worker.pc \in {"asked", "raw"} => Done(Owner, Day) \subseteq worker.seen.digest
       /\ worker.pc \in {"raw", "digest", "follow", "done"} => Mine \in raw[Owner][Day]
       /\ worker.pc \in {"digest", "follow", "done"} => Mine \in digest[Owner][Day]

Inv == TypeOK /\ Rows /\ RunningClaimed /\ Followed /\ Kept


\* The number of jobs is a number.
LEMMA JobsAreNumbers == MaxJobs \in Nat /\ MaxAttempts \in Nat /\ MaxAttempts # 0 /\ 0 \notin Jobs
                        /\ Jobs \subseteq Nat
  BY BoundsAssumption DEF MaxJobs, Jobs

Same(k) == /\ job'[k].kind = job[k].kind /\ job'[k].owner = job[k].owner
           /\ job'[k].day = job[k].day

\* What enqueue does to the table.
LEMMA NewRow ==
  ASSUME Inv, NEW kind \in {"daily", "long"}, NEW o \in Owners, NEW d \in Days, New(kind, o, d)
  PROVE  /\ job' \in [Jobs -> Job] /\ created' \in 0..MaxJobs
         /\ created' = created + 1 /\ created' \in Jobs /\ job[created'].status = "absent"
         /\ \A k \in Jobs : k # created' => job'[k] = job[k]
         /\ job'[created'].status = "queued" /\ job'[created'].kind = kind
         /\ job'[created'].owner = o /\ job'[created'].day = d
<1> USE JobsAreNumbers
<1>1. /\ job \in [Jobs -> Job] /\ created \in 0..MaxJobs
      /\ \A j \in Jobs : j > created => job[j].status = "absent"
  BY DEF Inv, TypeOK, Rows
<1>2. created + 1 \in Jobs /\ created' = created + 1
  BY <1>1 DEF New, Jobs
<1>3. [status |-> "queued", kind |-> kind, owner |-> o, day |-> d, attempts |-> 0] \in Job
  BY DEF Job, JobStatus
<1> QED BY <1>1, <1>2, <1>3 DEF New

\* What an UPDATE of the status does to the table.
LEMMA Marked ==
  ASSUME Inv, NEW j \in Jobs, NEW s \in JobStatus, SetStatus(j, s)
  PROVE  /\ job' \in [Jobs -> Job]
         /\ \A k \in Jobs : Same(k) /\ job'[k].attempts = job[k].attempts
         /\ \A k \in Jobs : job'[k].status = IF k = j /\ Exists(j) THEN s ELSE job[k].status
<1>1. job \in [Jobs -> Job]
  BY DEF Inv, TypeOK
<1>2. CASE Exists(j)
  <2>1. job' = [job EXCEPT ![j].status = s]
    BY <1>2 DEF SetStatus
  <2>2. \A k \in Jobs : k # j => job'[k] = job[k]
    BY <1>1, <2>1
  <2>3. job'[j] = [job[j] EXCEPT !.status = s]
    BY <1>1, <2>1
  <2>4. job'[j] \in Job /\ job'[j].status = s /\ Same(j) /\ job'[j].attempts = job[j].attempts
    BY <1>1, <2>3 DEF Job, Same
  <2>5. job' \in [Jobs -> Job]
    BY <1>1, <2>1, <2>3, <2>4
  <2> QED BY <1>1, <1>2, <2>2, <2>4, <2>5 DEF Same
<1>3. CASE ~Exists(j)
  BY <1>1, <1>3 DEF SetStatus, Same
<1> QED BY <1>2, <1>3

\* A step that completes nothing and loses no consolidation keeps Followed.
LEMMA FollowedFrame ==
  ASSUME Inv,
         \A k \in Jobs : job'[k].status = "completed" /\ job'[k].kind = "daily" =>
            Same(k) /\ job[k].status = "completed",
         \A k \in Jobs : Exists(k) => Same(k) /\ job'[k].status # "absent",
         \/ worker'.pc # "done"
         \/ worker' = worker /\ Same(Mine) /\ (job'[Mine].status # "absent" => Exists(Mine))
  PROVE  Followed'
<1>1. \A o \in Owners, d \in Days : Consolidated(o, d) => Consolidated(o, d)'
  BY DEF Consolidated, Exists, Same
<1>2. FollowedUp'
  BY DEF Inv, Followed, FollowedUp, Exists, Same
<1>3. ASSUME worker'.pc = "done", Exists(Mine)', job'[worker'.job].kind = "daily"
      PROVE  Consolidated(Owner, Day)'
  BY <1>3 DEF Inv, Followed, Consolidated, Exists, Same, Mine, Owner, Day
<1> QED BY <1>2, <1>3 DEF Followed, Mine

\* A step that completes no job, extends no day and leaves the daily files keeps Kept.
LEMMA KeptFrame ==
  ASSUME Inv, raw' = raw, digest' = digest,
         \A o \in Owners, d \in Days : Done(o, d)' \subseteq Done(o, d),
         \A o \in Owners, d \in Days : Unexpired(o, d)' => Unexpired(o, d),
         \/ worker'.pc \notin Busy
         \/ worker'.pc = "claimed"
         \/ worker' = worker /\ (worker.pc \in Busy => Same(Mine))
  PROVE  Kept'
<1>1. \A o \in Owners, d \in Days :
        Unexpired(o, d)' => Done(o, d)' \subseteq raw'[o][d]
          /\ Done(o, d)' \subseteq digest'[o][d]
  BY DEF Inv, Kept
<1>2. ASSUME worker'.pc \in Busy, worker'.pc # "claimed", job'[worker'.job].kind = "daily",
             Unexpired(Owner, Day)'
      PROVE  /\ worker'.pc = "asked" => Done(Owner, Day)' \subseteq worker'.seen.raw
             /\ worker'.pc \in {"asked", "raw"} => Done(Owner, Day)' \subseteq worker'.seen.digest
             /\ worker'.pc \in {"raw", "digest", "follow", "done"} => Mine' \in raw'[Owner'][Day']
             /\ worker'.pc \in {"digest", "follow", "done"} => Mine' \in digest'[Owner'][Day']
  <2>1. worker' = worker /\ worker.pc \in Busy /\ Mine \in Jobs /\ Mine' = Mine
    BY <1>2 DEF Inv, Rows, Mine
  <2>2. Owner' = Owner /\ Day' = Day /\ job[Mine].kind = "daily"
    BY <1>2, <2>1 DEF Same, Owner, Day, Mine
  <2>3. Owner \in Owners /\ Day \in Days
    BY <2>1 DEF Inv, TypeOK, Job, Owner, Day
  <2>4. Unexpired(Owner, Day) /\ Done(Owner, Day)' \subseteq Done(Owner, Day)
    BY <1>2, <2>2, <2>3
  <2> QED BY <2>1, <2>2, <2>4 DEF Inv, Kept
<1> QED BY <1>1, <1>2 DEF Kept, Mine

\* A step of the worker on its job, which leaves the jobs, keeps Kept if it establishes
\* what Kept says of the files and of the place the worker reaches.
LEMMA KeptMoves ==
  ASSUME UNCHANGED <<job, session, today>>, worker'.job = worker.job,
         \A o \in Owners, d \in Days : Unexpired(o, d) =>
            Done(o, d) \subseteq raw'[o][d] /\ Done(o, d) \subseteq digest'[o][d],
         job[Mine].kind = "daily" /\ Unexpired(Owner, Day) =>
            /\ worker'.pc = "asked" => Done(Owner, Day) \subseteq worker'.seen.raw
            /\ worker'.pc \in {"asked", "raw"} => Done(Owner, Day) \subseteq worker'.seen.digest
            /\ worker'.pc \in {"raw", "digest", "follow", "done"} => Mine \in raw'[Owner][Day]
            /\ worker'.pc \in {"digest", "follow", "done"} => Mine \in digest'[Owner][Day]
  PROVE  Kept'
<1>1. Mine' = Mine /\ Owner' = Owner /\ Day' = Day
  BY DEF Mine, Owner, Day
<1>2. \A o, d : Done(o, d)' = Done(o, d) /\ (Unexpired(o, d)' => Unexpired(o, d))
  BY DEF Done, Unexpired
<1>3. Done(Owner, Day)' = Done(Owner, Day) /\ (Unexpired(Owner, Day)' => Unexpired(Owner, Day))
  BY <1>1 DEF Done, Unexpired
<1> QED BY <1>1, <1>2, <1>3 DEF Kept

\* Every step preserves the invariant: one step per action.
LEMMA InvStep == Inv /\ [Next]_vars => Inv'
<1> SUFFICES ASSUME Inv, [Next]_vars PROVE Inv'
  OBVIOUS
<1> USE BoundsAssumption, JobsAreNumbers
<1>1. ASSUME NEW o \in Owners, TaskCompletes(o) PROVE Inv'
  <2>1. TypeOK'
    BY <1>1 DEF Inv, TypeOK, Rows, JobStatus, Job, Seen, Nothing, Worker, At, Busy, Jobs,
       Days, table, files, UserStep, Up, Enqueuing, Goes, Mine, Owner, Day, SetStatus, New,
       Claimable, Cleaned, Expired, HasConsolidation, Exists, TaskCompletes
  <2>2. Rows'
    BY <1>1 DEF Inv, Rows, table, TaskCompletes
  <2>3. RunningClaimed'
    BY <1>1 DEF Inv, RunningClaimed, table, TaskCompletes
  <2>4. Followed'
    BY <1>1 DEF Inv, Followed, FollowedUp, Exists, table, TaskCompletes
  <2>5. Kept'
    BY <1>1 DEF Inv, TypeOK, Rows, Job, Worker, At, Busy, Kept, Unexpired, Done, Exists,
       Mine, Owner, Day, Jobs, Seen, Days, table, files, UserStep, Up, Enqueuing, Goes,
       SetStatus, New, Claimable, Cleaned, Expired, HasConsolidation, TaskCompletes
  <2> QED BY <2>1, <2>2, <2>3, <2>4, <2>5 DEF Inv
<1>2. ASSUME NEW o \in Owners, Enqueue(o) PROVE Inv'
  <2>1. New("daily", o, today) /\ today \in Days
        /\ UNCHANGED <<files, session, deleting, worker, today, ops>>
        /\ subagent' = [subagent EXCEPT ![o] = "idle"]
    BY <1>2 DEF Enqueue, Inv, TypeOK
  <2>2. /\ job' \in [Jobs -> Job] /\ created' \in 0..MaxJobs
        /\ created' = created + 1 /\ created' \in Jobs /\ job[created'].status = "absent"
        /\ \A k \in Jobs : k # created' => job'[k] = job[k]
        /\ job'[created'].status = "queued"
    BY <2>1, NewRow
  <2>3. \A k \in Jobs : k # created' => Same(k)
    BY <2>2 DEF Same
  <2>4. worker.pc \in Busy => Mine \in Jobs /\ Mine # created'
    BY <2>2 DEF Inv, TypeOK, Rows, Mine
  <2>5. worker.pc = "done" => worker.pc \in Busy
    BY DEF Busy
  <2>6. TypeOK'
    BY <1>2, <2>1, <2>2 DEF TypeOK, files, Inv
  <2>7. Rows'
    BY <1>2 DEF Inv, TypeOK, Rows, Jobs, New, Enqueue
  <2>8. RunningClaimed'
    BY <1>2 DEF Inv, RunningClaimed, New, Enqueue
  <2>9. Followed'
    <3>1. \A k \in Jobs : Exists(k) => Same(k) /\ job'[k].status # "absent"
      BY <2>2, <2>3 DEF Exists
    <3>2. \A k \in Jobs : job'[k].status = "completed" => Same(k) /\ job[k].status = "completed"
      BY <2>2, <2>3
    <3>3. /\ worker' = worker
          /\ worker.pc = "done" => Same(Mine) /\ (job'[Mine].status # "absent" => Exists(Mine))
      BY <2>1, <2>2, <2>3, <2>4, <2>5 DEF Exists
    <3> QED BY <3>1, <3>2, <3>3, FollowedFrame
  <2>10. Kept'
    <3>1. \A p \in Owners, d \in Days : Done(p, d)' \subseteq Done(p, d)
      BY <2>2, <2>3 DEF Done, Same
    <3>2. \A p \in Owners, d \in Days : Unexpired(p, d)' => Unexpired(p, d)
      BY <2>1 DEF Unexpired
    <3>3. raw' = raw /\ digest' = digest
      BY <1>2 DEF Enqueue, files
    <3>4. \/ worker'.pc \notin Busy \/ worker'.pc = "claimed"
          \/ worker' = worker /\ (worker.pc \in Busy => Same(Mine))
      BY <1>2, <2>1, <2>3, <2>4 DEF Enqueue, Busy
    <3> QED BY <3>1, <3>2, <3>3, <3>4, KeptFrame
  <2> QED BY <2>6, <2>7, <2>8, <2>9, <2>10 DEF Inv
<1>3. ASSUME NEW o \in Owners, EnqueueFails(o) PROVE Inv'
  <2>1. TypeOK'
    BY <1>3 DEF Inv, TypeOK, table, files, UserStep, EnqueueFails, StaysLocked
  <2>2. Rows'
    BY <1>3 DEF Inv, Rows, Jobs, table, EnqueueFails, StaysLocked
  <2>3. RunningClaimed'
    BY <1>3 DEF Inv, RunningClaimed, Jobs, table, EnqueueFails, StaysLocked
  <2>4. Followed'
    BY <1>3 DEF Inv, Followed, FollowedUp, Consolidated, Exists, Mine, Owner, Day, table,
       EnqueueFails, StaysLocked
  <2>5. Kept'
    BY <1>3 DEF Inv, TypeOK, Rows, Job, Worker, At, Busy, Kept, Unexpired, Done, Exists,
       Mine, Owner, Day, Jobs, Seen, Days, table, files, UserStep, Up, Enqueuing, Goes,
       SetStatus, New, Claimable, Cleaned, Expired, HasConsolidation, EnqueueFails,
       StaysLocked
  <2> QED BY <2>1, <2>2, <2>3, <2>4, <2>5 DEF Inv
<1>4. ASSUME Start PROVE Inv'
  <2>1. job \in [Jobs -> Job]
    BY DEF Inv, TypeOK
  <2>2. \A k \in Jobs : job'[k] \in Job
    BY <1>4, <2>1 DEF Start, Job, JobStatus
  <2>3. job' \in [Jobs -> Job]
    BY <1>4, <2>2 DEF Start
  <2>4. At("idle") \in Worker
    BY DEF At, Worker, Seen, Nothing
  <2>5. TypeOK'
    BY <1>4, <2>3, <2>4 DEF Start, TypeOK, files, Inv
  <2>6. Rows'
    BY <1>4 DEF Inv, Rows, At, Busy, Start
  <2>7. RunningClaimed'
    BY <1>4 DEF RunningClaimed, Start
  <2>8. Followed'
    BY <1>4 DEF Inv, At, Followed, FollowedUp, Exists, Start
  <2>9. Kept'
    BY <1>4 DEF Inv, At, Kept, Unexpired, Done, files, Start
  <2> QED BY <2>5, <2>6, <2>7, <2>8, <2>9 DEF Inv
<1>5. ASSUME Claim PROVE Inv'
  <2>1. PICK c \in Claimable :
          /\ job' = [job EXCEPT ![c].status = "running", ![c].attempts = @ + 1]
          /\ worker' = [At("claimed") EXCEPT !.job = c]
    BY <1>5 DEF Claim
  <2>2. job \in [Jobs -> Job] /\ c \in Jobs /\ job[c] \in Job /\ job[c].status = "queued"
        /\ job[c].attempts < MaxAttempts
    BY <2>1 DEF Inv, TypeOK, Claimable
  <2>3. /\ job'[c] = [job[c] EXCEPT !.status = "running", !.attempts = @ + 1]
        /\ \A k \in Jobs : k # c => job'[k] = job[k]
    BY <2>1, <2>2
  <2>4. job[c].attempts + 1 \in 0..MaxAttempts
    BY <2>2 DEF Job
  <2>5. job'[c] \in Job /\ Same(c) /\ job'[c].status = "running"
    BY <2>2, <2>3, <2>4 DEF Job, JobStatus, Same
  <2>6. job' \in [Jobs -> Job] /\ \A k \in Jobs : Same(k)
    BY <2>1, <2>2, <2>3, <2>5 DEF Same
  <2>7. worker' \in Worker /\ worker'.pc = "claimed" /\ worker'.job = c
    BY <2>1, <2>2 DEF At, Worker, Seen, Nothing
  <2>8. TypeOK'
    BY <1>5, <2>6, <2>7 DEF Claim, TypeOK, files, Inv
  <2>9. Rows'
    BY <1>5 DEF Inv, TypeOK, Rows, At, Claimable, Claim
  <2>10. RunningClaimed'
    BY <1>5 DEF Inv, TypeOK, Job, Worker, At, Claimable, Claim
  <2>11. Followed'
    BY <2>2, <2>3, <2>5, <2>6, <2>7, FollowedFrame DEF Exists, Same
  <2>12. Kept'
    <3>1. \A p \in Owners, d \in Days : Done(p, d)' \subseteq Done(p, d)
      BY <2>2, <2>3, <2>5, <2>6 DEF Done, Same
    <3>2. \A p \in Owners, d \in Days : Unexpired(p, d)' => Unexpired(p, d)
      BY <1>5 DEF Claim, Unexpired
    <3>3. raw' = raw /\ digest' = digest
      BY <1>5 DEF Claim, files
    <3>4. \/ worker'.pc \notin Busy \/ worker'.pc = "claimed"
          \/ worker' = worker /\ (worker.pc \in Busy => Same(Mine))
      BY <1>5, <2>7
    <3> QED BY <3>1, <3>2, <3>3, <3>4, KeptFrame
  <2> QED BY <2>8, <2>9, <2>10, <2>11, <2>12 DEF Inv
<1>6. ASSUME ReadFiles PROVE Inv'
  <2>1. worker.pc = "claimed" /\ Mine \in Jobs /\ worker \in Worker
    BY <1>6 DEF ReadFiles, Inv, Rows, Busy, Mine, TypeOK
  <2>2. Owner \in Owners /\ Day \in Days
    BY <2>1 DEF Inv, TypeOK, Job, Owner, Day
  <2>3. [raw |-> raw[Owner][Day], digest |-> digest[Owner][Day], long |-> longTerm[Owner]]
        \in Seen
    BY <2>2 DEF Inv, TypeOK, Seen
  <2>4. worker' \in Worker /\ worker'.pc = "asked" /\ worker'.job = worker.job
        /\ worker'.seen.raw = raw[Owner][Day] /\ worker'.seen.digest = digest[Owner][Day]
    BY <1>6, <2>1, <2>3 DEF ReadFiles, Worker
  <2>5. TypeOK'
    BY <1>6, <2>4 DEF ReadFiles, TypeOK, table, files, Inv
  <2>6. Rows'
    BY <1>6 DEF Inv, Rows, Busy, table, ReadFiles
  <2>7. RunningClaimed'
    BY <1>6 DEF Inv, RunningClaimed, table, ReadFiles
  <2>8. Followed'
    BY <1>6 DEF Inv, Followed, FollowedUp, Exists, table, ReadFiles
  <2>9. Kept'
    <3>1. UNCHANGED <<job, session, today>> /\ worker'.job = worker.job
      BY <1>6, <2>4 DEF ReadFiles, table
    <3>2. ASSUME NEW p \in Owners, NEW d \in Days, Unexpired(p, d)
          PROVE  Done(p, d) \subseteq raw'[p][d] /\ Done(p, d) \subseteq digest'[p][d]
      <4>1. raw' = raw /\ digest' = digest
        BY <1>6 DEF ReadFiles, files
      <4> QED BY <3>2, <4>1 DEF Inv, Kept
    <3>3. ASSUME job[Mine].kind = "daily", Unexpired(Owner, Day)
          PROVE  /\ worker'.pc = "asked" => Done(Owner, Day) \subseteq worker'.seen.raw
                 /\ worker'.pc \in {"asked", "raw"}
                    => Done(Owner, Day) \subseteq worker'.seen.digest
                 /\ worker'.pc \in {"raw", "digest", "follow", "done"}
                    => Mine \in raw'[Owner][Day]
                 /\ worker'.pc \in {"digest", "follow", "done"} => Mine \in digest'[Owner][Day]
      BY <2>2, <2>4, <3>3 DEF Inv, Kept
    <3> QED BY <3>1, <3>2, <3>3, KeptMoves
  <2> QED BY <2>5, <2>6, <2>7, <2>8, <2>9 DEF Inv
<1>7. ASSUME Fails \/ ModelFails PROVE Inv'
  <2>1. Mine \in Jobs /\ SetStatus(Mine, "failed") /\ worker' = At("idle")
        /\ worker.pc \in Busy /\ UNCHANGED <<created, session, deleting>>
    BY <1>7 DEF Fails, Inv, Rows, Busy, Mine, ModelFails, Failed
  <2>2. /\ job' \in [Jobs -> Job]
        /\ \A k \in Jobs : Same(k) /\ job'[k].attempts = job[k].attempts
        /\ \A k \in Jobs : job'[k].status = IF k = Mine /\ Exists(Mine) THEN "failed"
           ELSE job[k].status
    BY <2>1, Marked DEF JobStatus
  <2>3. worker' \in Worker /\ worker'.pc = "idle"
    BY <2>1 DEF At, Worker, Seen, Nothing
  <2>4. TypeOK'
    BY <1>7, <2>2, <2>3 DEF Fails, TypeOK, files, Inv, ModelFails, Failed
  <2>5. Rows'
    BY <2>1, <2>2, <2>3 DEF Inv, Rows, At, Busy, Exists
  <2>6. RunningClaimed'
    BY <2>1, <2>2 DEF Inv, RunningClaimed, Exists, Mine, Busy
  <2>7. Followed'
    BY <2>2, <2>3, FollowedFrame DEF Exists, Same
  <2>8. Kept'
    <3>1. \A p \in Owners, d \in Days : Done(p, d)' \subseteq Done(p, d)
      BY <2>2 DEF Done, Same
    <3>2. \A p \in Owners, d \in Days : Unexpired(p, d)' => Unexpired(p, d)
      BY <1>7 DEF Fails, Unexpired, ModelFails, Failed
    <3>3. raw' = raw /\ digest' = digest
      BY <1>7 DEF Fails, files, ModelFails, Failed
    <3>4. \/ worker'.pc \notin Busy \/ worker'.pc = "claimed"
          \/ worker' = worker /\ (worker.pc \in Busy => Same(Mine))
      BY <1>7, <2>3 DEF Busy
    <3> QED BY <3>1, <3>2, <3>3, <3>4, KeptFrame
  <2> QED BY <2>4, <2>5, <2>6, <2>7, <2>8 DEF Inv
<1>8. ASSUME WriteRaw PROVE Inv'
  <2>1. worker.pc = "asked" /\ worker.pc \in Busy /\ Mine \in Jobs /\ worker \in Worker
        /\ job[Mine].kind = "daily"
    BY <1>8 DEF WriteRaw, Inv, Rows, Busy, Mine, TypeOK, DailyReflection
  <2>2. Owner \in Owners /\ Day \in Days
    BY <2>1 DEF Inv, TypeOK, Job, Owner, Day
  <2>3. worker'.pc = "raw" /\ worker'.job = worker.job /\ worker'.seen = worker.seen
    BY <1>8, <2>1 DEF WriteRaw, Goes, DailyReflection
  <2>4. /\ raw \in [Owners -> [Days -> SUBSET Jobs]]
        /\ digest \in [Owners -> [Days -> SUBSET Jobs]]
    BY DEF Inv, TypeOK
  <2>5. digest' = digest /\ raw' = [raw EXCEPT ![Owner][Day] = worker.seen.raw \cup {Mine}]
    BY <1>8 DEF WriteRaw, DailyReflection
  <2>6. /\ raw'[Owner][Day] = worker.seen.raw \cup {Mine}
        /\ \A p \in Owners, d \in Days : p # Owner \/ d # Day => raw'[p][d] = raw[p][d]
    BY <2>2, <2>4, <2>5
  <2>7. TypeOK'
    BY <1>8 DEF Inv, TypeOK, Rows, JobStatus, Job, Seen, Nothing, Worker, At, Busy, Jobs,
       Days, table, files, UserStep, Up, Enqueuing, Goes, Mine, Owner, Day, SetStatus, New,
       Claimable, Cleaned, Expired, HasConsolidation, Exists, WriteRaw, DailyReflection
  <2>8. Rows'
    BY <1>8 DEF Inv, Rows, Busy, table, Goes, Mine, WriteRaw, DailyReflection
  <2>9. RunningClaimed'
    BY <1>8 DEF Inv, RunningClaimed, table, Goes, WriteRaw, DailyReflection
  <2>10. Followed'
    BY <1>8 DEF Inv, Followed, FollowedUp, Exists, table, Goes, WriteRaw, DailyReflection
  <2>11. Kept'
    <3>1. UNCHANGED <<job, session, today>> /\ worker'.job = worker.job
      BY <1>8, <2>3 DEF WriteRaw, table, DailyReflection
    <3>2. ASSUME NEW p \in Owners, NEW d \in Days, Unexpired(p, d)
          PROVE  Done(p, d) \subseteq raw'[p][d] /\ Done(p, d) \subseteq digest'[p][d]
      <4>1. Done(p, d) \subseteq raw[p][d] /\ Done(p, d) \subseteq digest[p][d]
        BY <3>2 DEF Inv, Kept
      <4>2. CASE p # Owner \/ d # Day
        BY <2>5, <2>6, <4>1, <4>2
      <4>3. CASE p = Owner /\ d = Day
        BY <2>1, <2>5, <2>6, <3>2, <4>1, <4>3 DEF Inv, Kept
      <4> QED BY <4>2, <4>3
    <3>3. ASSUME job[Mine].kind = "daily", Unexpired(Owner, Day)
          PROVE  /\ worker'.pc = "asked" => Done(Owner, Day) \subseteq worker'.seen.raw
                 /\ worker'.pc \in {"asked", "raw"}
                    => Done(Owner, Day) \subseteq worker'.seen.digest
                 /\ worker'.pc \in {"raw", "digest", "follow", "done"}
                    => Mine \in raw'[Owner][Day]
                 /\ worker'.pc \in {"digest", "follow", "done"} => Mine \in digest'[Owner][Day]
      BY <2>1, <2>3, <2>5, <2>6, <3>3 DEF Inv, Kept
    <3> QED BY <3>1, <3>2, <3>3, KeptMoves
  <2> QED BY <2>7, <2>8, <2>9, <2>10, <2>11 DEF Inv
<1>9. ASSUME WriteDigest PROVE Inv'
  <2>1. worker.pc = "raw" /\ worker.pc \in Busy /\ Mine \in Jobs /\ worker \in Worker
        /\ job[Mine].kind = "daily"
    BY <1>9 DEF WriteDigest, Inv, Rows, Busy, Mine, TypeOK, DailyReflection
  <2>2. Owner \in Owners /\ Day \in Days
    BY <2>1 DEF Inv, TypeOK, Job, Owner, Day
  <2>3. worker'.pc = "digest" /\ worker'.job = worker.job /\ worker'.seen = worker.seen
    BY <1>9, <2>1 DEF WriteDigest, Goes, DailyReflection
  <2>4. /\ raw \in [Owners -> [Days -> SUBSET Jobs]]
        /\ digest \in [Owners -> [Days -> SUBSET Jobs]]
    BY DEF Inv, TypeOK
  <2>5. raw' = raw /\ digest' = [digest EXCEPT ![Owner][Day] = worker.seen.digest \cup {Mine}]
    BY <1>9 DEF WriteDigest, DailyReflection
  <2>6. /\ digest'[Owner][Day] = worker.seen.digest \cup {Mine}
        /\ \A p \in Owners, d \in Days : p # Owner \/ d # Day => digest'[p][d] = digest[p][d]
    BY <2>2, <2>4, <2>5
  <2>7. TypeOK'
    BY <1>9 DEF Inv, TypeOK, Rows, JobStatus, Job, Seen, Nothing, Worker, At, Busy, Jobs,
       Days, table, files, UserStep, Up, Enqueuing, Goes, Mine, Owner, Day, SetStatus, New,
       Claimable, Cleaned, Expired, HasConsolidation, Exists, WriteDigest, DailyReflection
  <2>8. Rows'
    BY <1>9 DEF Inv, Rows, Busy, table, Goes, WriteDigest, DailyReflection
  <2>9. RunningClaimed'
    BY <1>9 DEF Inv, RunningClaimed, table, Goes, WriteDigest, DailyReflection
  <2>10. Followed'
    BY <1>9 DEF Inv, Followed, FollowedUp, Exists, table, Goes, WriteDigest, DailyReflection
  <2>11. Kept'
    <3>1. UNCHANGED <<job, session, today>> /\ worker'.job = worker.job
      BY <1>9, <2>3 DEF WriteDigest, table, DailyReflection
    <3>2. ASSUME NEW p \in Owners, NEW d \in Days, Unexpired(p, d)
          PROVE  Done(p, d) \subseteq raw'[p][d] /\ Done(p, d) \subseteq digest'[p][d]
      <4>1. Done(p, d) \subseteq raw[p][d] /\ Done(p, d) \subseteq digest[p][d]
        BY <3>2 DEF Inv, Kept
      <4>2. CASE p # Owner \/ d # Day
        BY <2>5, <2>6, <4>1, <4>2
      <4>3. CASE p = Owner /\ d = Day
        BY <2>1, <2>5, <2>6, <3>2, <4>1, <4>3 DEF Inv, Kept
      <4> QED BY <4>2, <4>3
    <3>3. ASSUME job[Mine].kind = "daily", Unexpired(Owner, Day)
          PROVE  /\ worker'.pc = "asked" => Done(Owner, Day) \subseteq worker'.seen.raw
                 /\ worker'.pc \in {"asked", "raw"}
                    => Done(Owner, Day) \subseteq worker'.seen.digest
                 /\ worker'.pc \in {"raw", "digest", "follow", "done"}
                    => Mine \in raw'[Owner][Day]
                 /\ worker'.pc \in {"digest", "follow", "done"} => Mine \in digest'[Owner][Day]
      BY <2>1, <2>3, <2>5, <2>6, <3>3 DEF Inv, Kept
    <3> QED BY <3>1, <3>2, <3>3, KeptMoves
  <2> QED BY <2>7, <2>8, <2>9, <2>10, <2>11 DEF Inv
<1>10. ASSUME Clean PROVE Inv'
  <2>1. worker.pc = "digest" /\ worker.pc \in Busy /\ Mine \in Jobs /\ worker \in Worker
        /\ job[Mine].kind = "daily"
    BY <1>10 DEF Clean, Inv, Rows, Busy, Mine, TypeOK
  <2>2. Owner \in Owners /\ Day \in Days
    BY <2>1 DEF Inv, TypeOK, Job, Owner, Day
  <2>3. worker'.pc \in {"done", "follow"} /\ worker'.job = worker.job
        /\ worker'.seen = worker.seen
    BY <1>10, <2>1 DEF Clean, Goes
  <2>4. /\ raw \in [Owners -> [Days -> SUBSET Jobs]]
        /\ digest \in [Owners -> [Days -> SUBSET Jobs]]
    BY DEF Inv, TypeOK
  <2>5. \A p \in Owners, d \in Days : Unexpired(p, d) => ~Expired(d)
    BY DEF Unexpired, Expired, Inv, TypeOK, Days
  <2>6. \A p \in Owners, d \in Days : ~Expired(d) => raw'[p][d] = raw[p][d]
        /\ digest'[p][d] = digest[p][d]
    BY <1>10, <2>2, <2>4 DEF Clean, Cleaned
  <2>7. TypeOK'
    <3>1. \A f \in [Owners -> [Days -> SUBSET Jobs]] :
            Cleaned(f) \in [Owners -> [Days -> SUBSET Jobs]]
      BY <2>2 DEF Cleaned
    <3>2. raw' \in [Owners -> [Days -> SUBSET Jobs]]
          /\ digest' \in [Owners -> [Days -> SUBSET Jobs]]
      BY <1>10, <2>4, <3>1 DEF Clean
    <3>3. worker' \in Worker
      BY <1>10, <2>1 DEF Clean, Goes, Worker
    <3> QED BY <1>10, <3>2, <3>3 DEF Clean, table, Inv, TypeOK
  <2>8. Rows'
    BY <1>10 DEF Inv, Rows, Busy, table, Goes, Clean
  <2>9. RunningClaimed'
    BY <1>10 DEF Inv, RunningClaimed, table, Goes, Clean
  <2>10. Followed'
    BY <1>10 DEF Inv, Followed, FollowedUp, Consolidated, Exists, Mine, Owner, Day, table,
       Goes, HasConsolidation, Clean
  <2>11. Kept'
    <3>1. UNCHANGED <<job, session, today>> /\ worker'.job = worker.job
      BY <1>10, <2>3 DEF Clean, table
    <3>2. ASSUME NEW p \in Owners, NEW d \in Days, Unexpired(p, d)
          PROVE  Done(p, d) \subseteq raw'[p][d] /\ Done(p, d) \subseteq digest'[p][d]
      BY <2>5, <2>6, <3>2 DEF Inv, Kept
    <3>3. ASSUME job[Mine].kind = "daily", Unexpired(Owner, Day)
          PROVE  /\ worker'.pc = "asked" => Done(Owner, Day) \subseteq worker'.seen.raw
                 /\ worker'.pc \in {"asked", "raw"}
                    => Done(Owner, Day) \subseteq worker'.seen.digest
                 /\ worker'.pc \in {"raw", "digest", "follow", "done"}
                    => Mine \in raw'[Owner][Day]
                 /\ worker'.pc \in {"digest", "follow", "done"} => Mine \in digest'[Owner][Day]
      BY <2>1, <2>2, <2>3, <2>5, <2>6, <3>3 DEF Inv, Kept
    <3> QED BY <3>1, <3>2, <3>3, KeptMoves
  <2> QED BY <2>7, <2>8, <2>9, <2>10, <2>11 DEF Inv
<1>11. ASSUME Follow PROVE Inv'
  <2>1. worker.pc = "follow" /\ Mine \in Jobs /\ Mine <= created /\ worker \in Worker
        /\ job[Mine].kind = "daily"
    BY <1>11 DEF Follow, Inv, TypeOK, Rows, Busy, Mine
  <2>2. Owner \in Owners /\ Day \in Days /\ New("long", Owner, Day)
    BY <1>11, <2>1 DEF Follow, Inv, TypeOK, Job, Owner, Day
  <2>3. /\ job' \in [Jobs -> Job] /\ created' \in 0..MaxJobs
        /\ created' = created + 1 /\ created' \in Jobs /\ job[created'].status = "absent"
        /\ \A k \in Jobs : k # created' => job'[k] = job[k]
        /\ job'[created'].status = "queued" /\ job'[created'].kind = "long"
        /\ job'[created'].owner = Owner /\ job'[created'].day = Day
    BY <2>2, NewRow
  <2>4. Mine # created' /\ job'[Mine] = job[Mine]
    BY <2>1, <2>3 DEF Inv, TypeOK
  <2>5. worker' \in Worker /\ worker'.pc = "done" /\ worker'.job = worker.job
        /\ worker'.seen = worker.seen
    BY <1>11, <2>1 DEF Follow, Goes, Worker
  <2>6. TypeOK'
    BY <1>11, <2>3, <2>5 DEF Follow, TypeOK, files, Inv
  <2>7. Rows'
    BY <1>11 DEF Inv, TypeOK, Rows, Busy, Goes, New, Follow
  <2>8. RunningClaimed'
    BY <1>11 DEF Inv, RunningClaimed, Goes, New, Follow
  <2>9. Followed'
    <3>1. \A k \in Jobs : k # created' => Same(k)
      BY <2>3 DEF Same
    <3>2. \A p \in Owners, d \in Days : Consolidated(p, d) => Consolidated(p, d)'
      BY <2>3 DEF Consolidated, Exists
    <3>3. FollowedUp'
      <4>1. \A k \in Jobs : job'[k].status = "completed" => k # created' /\ job'[k] = job[k]
        BY <2>3
      <4>2. \A k \in Jobs : job[k].owner \in Owners /\ job[k].day \in Days
        BY DEF Inv, TypeOK, Job
      <4>3. \A k \in Jobs : job[k].status = "completed" /\ job[k].kind = "daily" =>
              Consolidated(job[k].owner, job[k].day)
        BY DEF Inv, Followed, FollowedUp, Consolidated
      <4>4. ASSUME NEW k \in Jobs, job'[k].status = "completed", job'[k].kind = "daily"
            PROVE  \E m \in Jobs : /\ job'[m].status # "absent" /\ job'[m].kind = "long"
                                   /\ job'[m].owner = job'[k].owner /\ job'[m].day = job'[k].day
        <5>1. job'[k] = job[k] /\ job[k].owner \in Owners /\ job[k].day \in Days
          BY <4>1, <4>2, <4>4
        <5>2. Consolidated(job[k].owner, job[k].day)'
          BY <3>2, <4>3, <4>4, <5>1
        <5> QED BY <5>1, <5>2 DEF Consolidated, Exists
      <4> QED BY <4>4 DEF FollowedUp, Exists
    <3>4. Consolidated(Owner, Day)'
      BY <2>3, <2>4, <2>5 DEF Consolidated, Exists, Owner, Day, Mine
    <3> QED BY <3>3, <3>4 DEF Followed
  <2>10. Kept'
    <3>1. UNCHANGED <<raw, digest, session, today>> /\ Mine' = Mine /\ Owner' = Owner
          /\ Day' = Day
      BY <1>11, <2>4, <2>5 DEF Follow, files, Mine, Owner, Day
    <3>2. \A p \in Owners, d \in Days : Done(p, d)' \subseteq Done(p, d)
      BY <2>3 DEF Done
    <3>3. \A p \in Owners, d \in Days : Unexpired(p, d)' => Unexpired(p, d)
      BY <3>1 DEF Unexpired
    <3>4. Unexpired(Owner, Day) => Mine \in raw[Owner][Day] /\ Mine \in digest[Owner][Day]
      BY <2>1 DEF Inv, Kept, Busy
    <3>5. \A p \in Owners, d \in Days : Unexpired(p, d)' =>
            Done(p, d)' \subseteq raw'[p][d] /\ Done(p, d)' \subseteq digest'[p][d]
      BY <3>1, <3>2, <3>3 DEF Inv, Kept
    <3>6. Unexpired(Owner, Day)' => Unexpired(Owner, Day)
      BY <3>1 DEF Unexpired
    <3> QED BY <2>5, <3>1, <3>4, <3>5, <3>6 DEF Kept
  <2> QED BY <2>6, <2>7, <2>8, <2>9, <2>10 DEF Inv
<1>12. ASSUME WriteLong PROVE Inv'
  <2>1. TypeOK'
    BY <1>12 DEF Inv, TypeOK, Rows, JobStatus, Job, Seen, Nothing, Worker, At, Busy, Jobs,
       Days, table, files, UserStep, Up, Enqueuing, Goes, Mine, Owner, Day, SetStatus, New,
       Claimable, Cleaned, Expired, HasConsolidation, Exists, WriteLong, Consolidation
  <2>2. Rows'
    BY <1>12 DEF Inv, Rows, Busy, table, Goes, WriteLong, Consolidation
  <2>3. RunningClaimed'
    BY <1>12 DEF Inv, RunningClaimed, table, Goes, WriteLong, Consolidation
  <2>4. Followed'
    BY <1>12 DEF Inv, Followed, FollowedUp, Exists, Mine, table, Goes, WriteLong,
       Consolidation
  <2>5. Kept'
    BY <1>12 DEF Inv, Kept, Unexpired, Done, Mine, table, Goes, WriteLong, Consolidation
  <2> QED BY <2>1, <2>2, <2>3, <2>4, <2>5 DEF Inv
<1>13. ASSUME Complete PROVE Inv'
  <2>1. Mine \in Jobs /\ SetStatus(Mine, "completed") /\ worker' = At("idle")
        /\ worker.pc = "done"
    BY <1>13 DEF Complete, Inv, Rows, Busy, Mine
  <2>2. /\ job' \in [Jobs -> Job]
        /\ \A k \in Jobs : Same(k) /\ job'[k].attempts = job[k].attempts
        /\ \A k \in Jobs : job'[k].status = IF k = Mine /\ Exists(Mine) THEN "completed"
           ELSE job[k].status
    BY <2>1, Marked DEF JobStatus
  <2>3. worker' \in Worker /\ worker'.pc = "idle"
    BY <2>1 DEF At, Worker, Seen, Nothing
  <2>4. TypeOK'
    BY <1>13, <2>2, <2>3 DEF Complete, TypeOK, files, Inv
  <2>5. Rows'
    BY <1>13 DEF Inv, Rows, At, Busy, Exists, SetStatus, Complete
  <2>6. RunningClaimed'
    BY <1>13 DEF Inv, TypeOK, RunningClaimed, Exists, Mine, SetStatus, Complete
  <2>7. Followed'
    <3>1. \A p \in Owners, d \in Days : Consolidated(p, d) => Consolidated(p, d)'
      BY <2>2 DEF Consolidated, Exists, Same
    <3>2. FollowedUp'
      BY <2>1, <2>2, <3>1 DEF Inv, Followed, FollowedUp, Consolidated, Exists, Same, Owner,
         Day
    <3> QED BY <2>3, <3>2 DEF Followed
  <2>8. Kept'
    <3>1. Owner \in Owners /\ Day \in Days /\ worker.pc \in Busy
      BY <2>1 DEF Inv, TypeOK, Job, Owner, Day, Busy
    <3>2. UNCHANGED <<raw, digest, session, today>>
      BY <1>13 DEF Complete, files
    <3>3. ASSUME NEW p \in Owners, NEW d \in Days, Unexpired(p, d)', NEW k \in Done(p, d)'
          PROVE  k \in raw[p][d] /\ k \in digest[p][d]
      <4>1. Unexpired(p, d)
        BY <3>2, <3>3 DEF Unexpired
      <4>2. CASE k \in Done(p, d)
        BY <4>1, <4>2 DEF Inv, Kept
      <4>3. CASE k \notin Done(p, d)
        <5>1. k = Mine /\ job[Mine].kind = "daily" /\ p = Owner /\ d = Day
          BY <2>2, <3>3, <4>3 DEF Done, Same, Owner, Day
        <5> QED BY <2>1, <3>1, <4>1, <5>1 DEF Inv, Kept
      <4> QED BY <4>2, <4>3
    <3> QED BY <2>3, <3>2, <3>3 DEF Kept
  <2> QED BY <2>4, <2>5, <2>6, <2>7, <2>8 DEF Inv
<1>14. ASSUME LoopDies PROVE Inv'
  <2>1. TypeOK'
    BY <1>14 DEF Inv, TypeOK, Seen, Nothing, Worker, At, table, files, UserStep, LoopDies,
       StaysLocked
  <2>2. Rows'
    BY <1>14 DEF Inv, Rows, At, Busy, table, LoopDies, StaysLocked
  <2>3. RunningClaimed'
    BY <1>14 DEF At, RunningClaimed, LoopDies, StaysLocked
  <2>4. Followed'
    BY <1>14 DEF Inv, At, Followed, FollowedUp, Exists, table, LoopDies, StaysLocked
  <2>5. Kept'
    BY <1>14 DEF Inv, At, Kept, Unexpired, Done, table, files, LoopDies, StaysLocked
  <2> QED BY <2>1, <2>2, <2>3, <2>4, <2>5 DEF Inv
<1>15. ASSUME NEW j \in Jobs, Retry(j) PROVE Inv'
  <2>1. SetStatus(j, "queued")
    BY <1>15 DEF Retry
  <2>2. /\ job' \in [Jobs -> Job]
        /\ \A k \in Jobs : Same(k) /\ job'[k].attempts = job[k].attempts
        /\ \A k \in Jobs : job'[k].status = IF k = j /\ Exists(j) THEN "queued" ELSE job[k].status
    BY <2>1, Marked DEF JobStatus
  <2>3. worker' = worker /\ (worker.pc \in Busy => Mine \in Jobs)
    BY <1>15 DEF Retry, Inv, Rows, Mine
  <2>4. TypeOK'
    BY <1>15, <2>2 DEF Retry, TypeOK, files, UserStep, Inv
  <2>5. Rows'
    BY <1>15 DEF Inv, Rows, Exists, SetStatus, Retry
  <2>6. RunningClaimed'
    BY <1>15 DEF Inv, RunningClaimed, SetStatus, Retry
  <2>7. Followed'
    <3>1. worker.pc = "done" => worker.pc \in Busy
      BY DEF Busy
    <3>2. Exists(j)
      BY <1>15 DEF Retry
    <3> QED BY <2>2, <2>3, <3>1, <3>2, FollowedFrame DEF Exists
  <2>8. Kept'
    <3>1. \A p \in Owners, d \in Days : Done(p, d)' \subseteq Done(p, d)
      BY <2>2 DEF Done, Same
    <3>2. \A p \in Owners, d \in Days : Unexpired(p, d)' => Unexpired(p, d)
      BY <1>15 DEF Retry, Unexpired
    <3>3. raw' = raw /\ digest' = digest
      BY <1>15 DEF Retry, files
    <3>4. \/ worker'.pc \notin Busy \/ worker'.pc = "claimed"
          \/ worker' = worker /\ (worker.pc \in Busy => Same(Mine))
      BY <1>15, <2>2, <2>3 DEF Retry, Busy
    <3> QED BY <3>1, <3>2, <3>3, <3>4, KeptFrame
  <2> QED BY <2>4, <2>5, <2>6, <2>7, <2>8 DEF Inv
<1>16. ASSUME NEW o \in Owners, DeleteJobs(o) PROVE Inv'
  <2>1. job \in [Jobs -> Job]
    BY DEF Inv, TypeOK
  <2>2. \A k \in Jobs : /\ job'[k] \in Job /\ Same(k)
                       /\ job'[k].status \in {job[k].status, "absent"}
    BY <1>16, <2>1 DEF DeleteJobs, Job, JobStatus, Same
  <2>3. job' \in [Jobs -> Job]
    BY <1>16, <2>2 DEF DeleteJobs
  <2>4. worker' = worker /\ (worker.pc \in Busy => Mine \in Jobs)
    BY <1>16 DEF DeleteJobs, Inv, Rows, Mine
  <2>5. TypeOK'
    BY <1>16, <2>3 DEF DeleteJobs, TypeOK, files, UserStep, Inv
  <2>6. Rows'
    BY <1>16 DEF Inv, Rows, Busy, DeleteJobs
  <2>7. RunningClaimed'
    BY <1>16 DEF Inv, RunningClaimed, DeleteJobs
  <2>8. Followed'
    BY <1>16 DEF Inv, TypeOK, Rows, Job, Worker, Busy, Followed, FollowedUp, Consolidated,
       Exists, Mine, Owner, Day, Jobs, UserStep, DeleteJobs
  <2>9. Kept'
    <3>1. \A p \in Owners, d \in Days : Done(p, d)' \subseteq Done(p, d)
      BY <2>2 DEF Done, Same
    <3>2. \A p \in Owners, d \in Days : Unexpired(p, d)' => Unexpired(p, d)
      BY <1>16 DEF DeleteJobs, Unexpired
    <3>3. raw' = raw /\ digest' = digest
      BY <1>16 DEF DeleteJobs, files
    <3>4. \/ worker'.pc \notin Busy \/ worker'.pc = "claimed"
          \/ worker' = worker /\ (worker.pc \in Busy => Same(Mine))
      BY <1>16, <2>2, <2>4 DEF DeleteJobs, Busy
    <3> QED BY <3>1, <3>2, <3>3, <3>4, KeptFrame
  <2> QED BY <2>5, <2>6, <2>7, <2>8, <2>9 DEF Inv
<1>17. ASSUME NEW o \in Owners, DeleteMemory(o) PROVE Inv'
  <2>1. TypeOK'
    BY <1>17 DEF Inv, TypeOK, Rows, JobStatus, Job, Seen, Nothing, Worker, At, Busy, Jobs,
       Days, table, files, UserStep, Up, Enqueuing, Goes, Mine, Owner, Day, SetStatus, New,
       Claimable, Cleaned, Expired, HasConsolidation, Exists, DeleteMemory
  <2>2. Rows'
    BY <1>17 DEF Inv, TypeOK, Rows, table, DeleteMemory
  <2>3. RunningClaimed'
    BY <1>17 DEF Inv, RunningClaimed, table, DeleteMemory
  <2>4. Followed'
    BY <1>17 DEF Inv, Followed, FollowedUp, Consolidated, Exists, Mine, Owner, Day, table,
       DeleteMemory
  <2>5. Kept'
    BY <1>17 DEF Inv, TypeOK, Rows, Job, Worker, At, Busy, Kept, Unexpired, Done, Exists,
       Mine, Owner, Day, Jobs, Seen, Days, table, files, UserStep, Up, Enqueuing, Goes,
       SetStatus, New, Claimable, Cleaned, Expired, HasConsolidation, DeleteMemory
  <2> QED BY <2>1, <2>2, <2>3, <2>4, <2>5 DEF Inv
<1>18. ASSUME NEW o \in Owners, DeleteTables(o) PROVE Inv'
  <2>1. TypeOK'
    BY <1>18 DEF Inv, TypeOK, table, files, DeleteTables
  <2>2. Rows'
    BY <1>18 DEF Inv, TypeOK, Rows, table, DeleteTables
  <2>3. RunningClaimed'
    BY <1>18 DEF Inv, RunningClaimed, Jobs, table, DeleteTables
  <2>4. Followed'
    BY <1>18 DEF Inv, Followed, FollowedUp, Consolidated, Exists, Mine, Owner, Day, table,
       files, DeleteTables
  <2>5. Kept'
    <3>1. \A p \in Owners, d \in Days : Done(p, d)' \subseteq Done(p, d)
      BY <1>18 DEF DeleteTables, Done, table
    <3>2. \A p \in Owners, d \in Days : Unexpired(p, d)' => Unexpired(p, d)
      BY <1>18 DEF DeleteTables, Unexpired
    <3>3. raw' = raw /\ digest' = digest /\ worker' = worker /\ Same(Mine)
      BY <1>18 DEF DeleteTables, files, table, Same
    <3> QED BY <3>1, <3>2, <3>3, KeptFrame
  <2> QED BY <2>1, <2>2, <2>3, <2>4, <2>5 DEF Inv
<1>19. ASSUME NEW o \in Owners, DeleteWorkspace(o) PROVE Inv'
  <2>1. UNCHANGED <<job, session, today, worker>> /\ ~session[o]
    BY <1>19 DEF DeleteWorkspace, Inv, Rows, table
  <2>2. \A p \in Owners, d \in Days : p # o => raw'[p][d] = raw[p][d]
        /\ digest'[p][d] = digest[p][d]
    BY <1>19 DEF DeleteWorkspace
  <2>3. TypeOK'
    BY <1>19 DEF Inv, TypeOK, table, DeleteWorkspace
  <2>4. Rows'
    BY <1>19 DEF Inv, Rows, table, DeleteWorkspace
  <2>5. RunningClaimed'
    BY <1>19 DEF Inv, RunningClaimed, Jobs, table, DeleteWorkspace
  <2>6. Followed'
    BY <1>19 DEF Inv, Followed, FollowedUp, Consolidated, Exists, Mine, Owner, Day, table,
       DeleteWorkspace
  <2>7. Kept'
    <3>1. \A p \in Owners, d \in Days : Unexpired(p, d) =>
            Done(p, d) \subseteq raw'[p][d] /\ Done(p, d) \subseteq digest'[p][d]
      BY <2>1, <2>2 DEF Inv, Kept, Unexpired
    <3>2. CASE worker.pc \in Busy
      <4>1. Mine \in Jobs
        BY <3>2 DEF Inv, Rows, Mine
      <4>2. Owner \in Owners /\ Day \in Days
        BY <4>1 DEF Inv, TypeOK, Job, Owner, Day
      <4>3. Unexpired(Owner, Day) => Owner # o
        BY <2>1 DEF Unexpired
      <4>4. job[Mine].kind = "daily" /\ Unexpired(Owner, Day) =>
              /\ worker'.pc = "asked" => Done(Owner, Day) \subseteq worker'.seen.raw
              /\ worker'.pc \in {"asked", "raw"} => Done(Owner, Day) \subseteq worker'.seen.digest
              /\ worker'.pc \in {"raw", "digest", "follow", "done"} => Mine \in raw'[Owner][Day]
              /\ worker'.pc \in {"digest", "follow", "done"} => Mine \in digest'[Owner][Day]
        BY <2>1, <2>2, <3>2, <4>2, <4>3 DEF Inv, Kept
      <4> QED BY <2>1, <3>1, <4>4, KeptMoves
    <3>3. CASE worker.pc \notin Busy
      <4>1. \A p, d : Done(p, d)' = Done(p, d) /\ (Unexpired(p, d)' => Unexpired(p, d))
        BY <2>1 DEF Done, Unexpired
      <4> QED BY <2>1, <3>1, <3>3, <4>1 DEF Kept
    <3> QED BY <3>2, <3>3
  <2> QED BY <2>3, <2>4, <2>5, <2>6, <2>7 DEF Inv
<1>20. ASSUME Midnight PROVE Inv'
  <2>1. TypeOK'
    BY <1>20 DEF Inv, TypeOK, Days, table, files, Midnight
  <2>2. Rows'
    BY <1>20 DEF Inv, Rows, Jobs, table, Midnight
  <2>3. RunningClaimed'
    BY <1>20 DEF Inv, RunningClaimed, Jobs, table, Midnight
  <2>4. Followed'
    BY <1>20 DEF Inv, Followed, FollowedUp, Consolidated, Exists, Mine, Owner, Day, table,
       Midnight
  <2>5. Kept'
    <3>1. \A p \in Owners, d \in Days : Done(p, d)' \subseteq Done(p, d)
      BY <1>20 DEF Midnight, Done, table
    <3>2. \A p \in Owners, d \in Days : Unexpired(p, d)' => Unexpired(p, d)
      BY <1>20 DEF Midnight, Unexpired, Inv, TypeOK, Days
    <3>3. raw' = raw /\ digest' = digest /\ worker' = worker /\ Same(Mine)
      BY <1>20 DEF Midnight, files, table, Same
    <3> QED BY <3>1, <3>2, <3>3, KeptFrame
  <2> QED BY <2>1, <2>2, <2>3, <2>4, <2>5 DEF Inv
<1>21. ASSUME Crash PROVE Inv'
  <2>1. TypeOK'
    BY <1>21 DEF Inv, TypeOK, Seen, Nothing, Worker, At, table, files, UserStep, Crash
  <2>2. Rows'
    BY <1>21 DEF Inv, Rows, At, Busy, table, Crash
  <2>3. RunningClaimed'
    BY <1>21 DEF At, RunningClaimed, Crash
  <2>4. Followed'
    BY <1>21 DEF Inv, At, Followed, FollowedUp, Exists, table, Crash
  <2>5. Kept'
    BY <1>21 DEF Inv, TypeOK, Rows, Job, Worker, At, Busy, Kept, Unexpired, Done, Exists,
       Mine, Owner, Day, Jobs, Seen, Days, table, files, UserStep, Up, Enqueuing, Goes,
       SetStatus, New, Claimable, Cleaned, Expired, HasConsolidation, Crash
  <2> QED BY <2>1, <2>2, <2>3, <2>4, <2>5 DEF Inv
<1>22. ASSUME UNCHANGED vars PROVE Inv'
  <2>1. TypeOK'
    BY <1>22 DEF Inv, TypeOK, table, files, vars
  <2>2. Rows'
    BY <1>22 DEF Inv, Rows, table, vars
  <2>3. RunningClaimed'
    BY <1>22 DEF Inv, RunningClaimed, table, files, vars
  <2>4. Followed'
    BY <1>22 DEF Inv, Followed, FollowedUp, Consolidated, Exists, Mine, Owner, Day, table,
       vars
  <2>5. Kept'
    BY <1>22 DEF Inv, TypeOK, Rows, Job, Worker, At, Busy, Kept, Unexpired, Done, Exists,
       Mine, Owner, Day, Jobs, Seen, Days, table, files, UserStep, Up, Enqueuing, Goes,
       SetStatus, New, Claimable, Cleaned, Expired, HasConsolidation, vars
  <2> QED BY <2>1, <2>2, <2>3, <2>4, <2>5 DEF Inv
<1> QED BY <1>1, <1>2, <1>3, <1>4, <1>5, <1>6, <1>7, <1>8, <1>9, <1>10, <1>11, <1>12, <1>13,
   <1>14, <1>15, <1>16, <1>17, <1>18, <1>19, <1>20, <1>21, <1>22 DEF Next, WorkerStep,
   Deletion

\* Every reachable state satisfies the invariant.
THEOREM ReflectionInvariant == Spec => []Inv
<1>1. Init => Inv
  <2> SUFFICES ASSUME Init PROVE Inv
    OBVIOUS
  <2> USE BoundsAssumption, JobsAreNumbers
  <2>1. worker = At("off") /\ worker \in Worker
    BY DEF Init, At, Worker, Seen, Nothing
  <2>2. job \in [Jobs -> Job] /\ \A j \in Jobs : job[j].status = "absent"
    BY DEF Init, Job, JobStatus, Days
  <2>3. TypeOK
    BY <2>1, <2>2 DEF Init, TypeOK, Days
  <2>4. Rows
    BY <2>1, <2>2 DEF Init, Rows, At, Busy
  <2>5. RunningClaimed
    BY <2>2 DEF RunningClaimed
  <2>6. Followed
    BY <2>1, <2>2 DEF Followed, FollowedUp, At
  <2>7. Kept
    BY <2>1, <2>2 DEF Kept, Done, At, Busy
  <2> QED BY <2>3, <2>4, <2>5, <2>6, <2>7 DEF Inv
<1> QED BY <1>1, InvStep, PTL DEF Spec

\* Jobs, files, the worker and the stages of deletions keep their types; no job is claimed
\* more often than its attempts allow.
THEOREM ReflectionTypes == Spec => []TypeOK
<1>1. Inv => TypeOK
  BY DEF Inv
<1> QED BY <1>1, ReflectionInvariant, PTL

\* While the worker lives, a job shown as RUNNING is the one it holds.
THEOREM ReflectionClaimed == Spec => []RunningClaimed
<1>1. Inv => RunningClaimed
  BY DEF Inv
<1> QED BY <1>1, ReflectionInvariant, PTL

\* No completed daily job is without a consolidation of its owner and day.
THEOREM ReflectionFollowed == Spec => []FollowedUp
<1>1. Inv => FollowedUp
  BY DEF Inv, Followed
<1> QED BY <1>1, ReflectionInvariant, PTL

\* Completed reflections stay in both files of their day until the day expires.
THEOREM ReflectionKept == Spec => []DailyKept
<1>1. Inv => DailyKept
  BY DEF Inv, TypeOK, Job, Kept, Done, Unexpired, DailyKept
<1> QED BY <1>1, ReflectionInvariant, PTL

=============================================================================
