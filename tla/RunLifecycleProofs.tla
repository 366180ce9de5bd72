------------------------- MODULE RunLifecycleProofs -------------------------
(***************************************************************************)
(* RunLifecycle keeps its books for any number of runs, sessions, threads  *)
(* and connections.  The argument is one inductive invariant in three      *)
(* layers: Inv says where the loop and each pool thread stand towards the  *)
(* run they hold, Placed that whatever names a run names one with a record *)
(* and a session, and Serial, on top of both, that only the active run of a*)
(* session is at work where no call has acted on an outdated view.  With   *)
(* Serial every step is one that SessionLife allows, or leaves the         *)
(* sessions alone.                                                         *)
(***************************************************************************)
EXTENDS RunLifecycle, TLAPS

\* What a pool thread knows of the run it works for.  A thread about to record
\* a stop took the run from the registry, so the run is not waiting for its start.
Holding == {"attach", "stop_pending", "stop_task", "stop_write"}

ThreadsHold ==
  \A t \in Threads :
    /\ thread[t].pc \in Holding => thread[t].run \in Runs
    /\ thread[t].pc = "stop_write" =>
         /\ Known(thread[t].run)
         /\ thread[t].run \in running \/ thread[t].run \notin pending

\* The run the event loop holds while it launches or finalizes a worker.
LoopHolds ==
  /\ loop.op = "idle" <=> loop.run = None
  /\ loop.op # "idle" => loop.run \in running /\ ~ Live(loop.run)
  /\ loop.op = "finalize" => status[loop.run] \in Final \cup {"stopped"}

Accounted ==
  \A r \in Runs :
    /\ Live(r) => r \in running /\ r \in registered
    /\ r \in running => Known(r) /\ (Live(r) \/ loop.run = r \/ task[r] = "lost")
    /\ r \in registered => r \in running

Inv == TypeOK /\ ThreadsHold /\ LoopHolds /\ Accounted /\ SettledRecord /\ PendingUntouched

\* Runs belong to sessions, and whatever names a run names one that has a record:
\* the active run of a session is one of its own, a thread works on a known run.
Placed ==
  /\ \A r \in Runs : /\ Known(r) => session[r] \in Sessions
                     /\ r \in resumeReq => Known(r)
  /\ \A s \in Sessions : active[s] # None => Known(active[s]) /\ session[active[s]] = s
  /\ \A t \in Threads :
       /\ thread[t].pc \in Holding => Known(thread[t].run)
       /\ thread[t].pc = "create" => /\ thread[t].sess \in Sessions
                                     /\ thread[t].run # None => Known(thread[t].run)

\* Every step preserves the invariant: one step per action.
LEMMA InvStep == Inv /\ Placed /\ [Next]_vars => Inv'
<1> SUFFICES ASSUME Inv, Placed, [Next]_vars PROVE Inv'
  OBVIOUS
<1> USE NoneAssumption
<1>1. ASSUME NEW t \in Threads, NEW s \in Sessions, CreateLook(t, s) PROVE Inv'
  BY <1>1 DEF Inv, TypeOK, ThreadState, memory, hub, table, ThreadsHold, Holding, Known,
     LoopHolds, Accounted, Live, SettledRecord, PendingUntouched, CreateLook
<1>2. ASSUME NEW t \in Threads, CreateRefused(t) PROVE Inv'
  BY <1>2 DEF Inv, TypeOK, ThreadState, IdleThread, memory, hub, table, ThreadsHold,
     Holding, Known, LoopHolds, Accounted, Live, SettledRecord, PendingUntouched,
     CreateRefused, Return
<1>3. ASSUME NEW t \in Threads, CreateFollowUp(t) PROVE Inv'
  BY <1>3 DEF Inv, TypeOK, ThreadState, IdleThread, memory, hub, table, ThreadsHold,
     Holding, Known, LoopHolds, Accounted, Live, SettledRecord, PendingUntouched,
     CreateFollowUp, Return
<1>4. ASSUME NEW t \in Threads, CreateFoundRecoverable(t) PROVE Inv'
  BY <1>4 DEF Inv, vars, TypeOK, LoopState, ThreadState, RunStatus, Recoverable, TaskState,
     memory, hub, table, ThreadsHold, Holding, Known, LoopHolds, Accounted, Live, LiveTask,
     SettledRecord, PendingUntouched, CreateFoundRecoverable, Goto
<1>5. ASSUME NEW t \in Threads, CreateAttach(t) PROVE Inv'
  BY <1>5 DEF Inv, Placed, Mislead, TypeOK, ThreadState, IdleThread, hub, table,
     ThreadsHold, Holding, Known, LoopHolds, Accounted, Live, SettledRecord,
     PendingUntouched, CreateAttach, Return
<1>6. ASSUME NEW t \in Threads, NEW r \in Runs, CreateNew(t, r) PROVE Inv'
  <2>1c. thread[t].pc = "create"
    BY <1>6 DEF CreateNew
  <2>1a. thread[t].sess \in Sessions
    BY <2>1c DEF Placed
  <2>1b. misled' \subseteq Sessions
    BY <1>6, <2>1a DEF Inv, TypeOK, CreateNew, Mislead
  <2>1. TypeOK'
    BY <1>6, <2>1a, <2>1b DEF Inv, TypeOK, ThreadState, IdleThread, RunStatus, Recoverable,
       hub, CreateNew, Return, Remember
  <2>2. ThreadsHold'
    BY <1>6 DEF Inv, IdleThread, ThreadsHold, Holding, Known, CreateNew, Return
  <2>3. LoopHolds'
    BY <1>6 DEF Inv, LoopHolds, Accounted, Live, CreateNew
  <2>4. Accounted'
    BY <1>6 DEF Inv, Known, Accounted, Live, CreateNew
  <2>5. SettledRecord'
    BY <1>6 DEF Inv, Final, Known, SettledRecord, CreateNew
  <2>6. PendingUntouched'
    BY <1>6 DEF Inv, TypeOK, Accounted, Live, PendingUntouched, CreateNew
  <2> QED BY <2>1, <2>2, <2>3, <2>4, <2>5, <2>6 DEF Inv
<1>7. ASSUME NEW t \in Threads, NEW r \in Runs, StopLook(t, r) PROVE Inv'
  BY <1>7 DEF Inv, TypeOK, ThreadState, StopLook
<1>8. ASSUME NEW t \in Threads, StopPending(t) PROVE Inv'
  <2>1. TypeOK'
    BY <1>8 DEF Inv, TypeOK, ThreadState, IdleThread, RunStatus, Recoverable, hub, table,
       StopPending, Return, Record, PublishEnd
  <2>2. ThreadsHold'
    BY <1>8 DEF Inv, TypeOK, IdleThread, table, ThreadsHold, Holding, Known, StopPending,
       Return, Record
  <2>3. LoopHolds'
    BY <1>8 DEF Inv, TypeOK, table, LoopHolds, Live, StopPending, Record
  <2>4. Accounted'
    BY <1>8 DEF Inv, TypeOK, table, Known, Accounted, Live, StopPending, Record
  <2>5. SettledRecord'
    BY <1>8 DEF Inv, TypeOK, table, SettledRecord, StopPending, Record
  <2>6. PendingUntouched'
    BY <1>8 DEF Inv, TypeOK, table, Live, PendingUntouched, StopPending, Record
  <2> QED BY <2>1, <2>2, <2>3, <2>4, <2>5, <2>6 DEF Inv
<1>9. ASSUME NEW t \in Threads, StopRequest(t) PROVE Inv'
  <2>1. \/ thread' = [thread EXCEPT ![t].pc = "stop_write"]
        \/ thread' = [thread EXCEPT ![t] = IdleThread]
    BY <1>9 DEF StopRequest, Goto, Return
  <2>2. thread' \in [Threads -> ThreadState]
    <3>1. [thread EXCEPT ![t].pc = "stop_write"] \in [Threads -> ThreadState]
      BY DEF Inv, TypeOK, ThreadState
    <3>2. [thread EXCEPT ![t] = IdleThread] \in [Threads -> ThreadState]
      BY DEF Inv, TypeOK, ThreadState, IdleThread
    <3> QED BY <2>1, <3>1, <3>2
  <2>3. cancelled' \subseteq Runs
    BY <1>9 DEF Inv, TypeOK, StopRequest
  <2>4. TypeOK'
    BY <1>9, <2>2, <2>3 DEF Inv, TypeOK, hub, table, StopRequest
  <2>5. ThreadsHold'
    BY <1>9 DEF Inv, vars, TypeOK, ThreadState, IdleThread, hub, table, ThreadsHold,
       Holding, Known, Accounted, StopRequest, Return, Goto
  <2>6. LoopHolds'
    BY <1>9 DEF Inv, table, LoopHolds, Live, StopRequest
  <2>7. Accounted'
    BY <1>9 DEF Inv, table, Known, Accounted, Live, StopRequest
  <2>8. SettledRecord'
    BY <1>9 DEF Inv, table, SettledRecord, StopRequest
  <2>9. PendingUntouched'
    BY <1>9 DEF Inv, table, Live, PendingUntouched, StopRequest
  <2> QED BY <2>4, <2>5, <2>6, <2>7, <2>8, <2>9 DEF Inv
<1>10. ASSUME NEW t \in Threads, StopWrite(t) PROVE Inv'
  BY <1>10 DEF Inv, Placed, Mislead, TypeOK, ThreadState, IdleThread, RunStatus,
     Recoverable, memory, hub, ThreadsHold, Holding, Known, LoopHolds, Accounted, Live,
     SettledRecord, PendingUntouched, StopWrite, Return, Record
<1>11. ASSUME NEW r \in Runs, Resume(r) PROVE Inv'
  <2>1. TypeOK'
    BY <1>11 DEF Inv, TypeOK, hub, table, Resume, Remember
  <2>2. (ThreadsHold /\ LoopHolds /\ Accounted /\ SettledRecord /\ PendingUntouched)'
    BY <1>11 DEF Inv, table, ThreadsHold, Known, LoopHolds, Accounted, Live, SettledRecord,
       PendingUntouched, Resume
  <2> QED BY <2>1, <2>2 DEF Inv
<1>12. ASSUME NEW r \in Runs, Begin(r) PROVE Inv'
  BY <1>12 DEF Inv, TypeOK, TaskState, hub, table, ThreadsHold, Known, LoopHolds, Accounted,
     Live, LiveTask, SettledRecord, PendingUntouched, Begin
<1>13. ASSUME NEW r \in Runs, Progress(r) PROVE Inv'
  BY <1>13 DEF Inv, TypeOK, RunStatus, Recoverable, Final, memory, hub, ThreadsHold, Known,
     LoopHolds, Accounted, Live, LiveTask, SettledRecord, PendingUntouched, Progress,
     Record, Writes
<1>14. ASSUME NEW r \in Runs, WorkerCancelled(r) PROVE Inv'
  <2>1. TypeOK'
    BY <1>14 DEF Inv, TypeOK, LoopState, RunStatus, Recoverable, TaskState, WorkerCancelled,
       RecordStopped, Record, PublishEnd
  <2>2. ThreadsHold'
    BY <1>14 DEF Inv, ThreadsHold, Known, WorkerCancelled, RecordStopped, Record
  <2>3. LoopHolds'
    BY <1>14 DEF Inv, TypeOK, LoopHolds, Accounted, Live, LiveTask, WorkerCancelled,
       RecordStopped, Record
  <2>4. Accounted'
    BY <1>14 DEF Inv, Idle, Known, Accounted, Live, LiveTask, WorkerCancelled,
       RecordStopped, Record
  <2>5. SettledRecord'
    BY <1>14 DEF Inv, TypeOK, SettledRecord, WorkerCancelled, RecordStopped, Record
  <2>6. PendingUntouched'
    BY <1>14 DEF Inv, Live, LiveTask, PendingUntouched, WorkerCancelled, RecordStopped,
       Record
  <2> QED BY <2>1, <2>2, <2>3, <2>4, <2>5, <2>6 DEF Inv
<1>15. ASSUME NEW r \in Runs, NEW outcome \in Final, WorkerResult(r, outcome) PROVE Inv'
  <2>1. TypeOK'
    BY <1>15 DEF Inv, TypeOK, LoopState, RunStatus, TaskState, WorkerResult, Record,
       PublishEnd
  <2>2. ThreadsHold'
    BY <1>15 DEF Inv, Final, ThreadsHold, Known, WorkerResult, Record
  <2>3. LoopHolds'
    BY <1>15 DEF Inv, TypeOK, LoopHolds, Accounted, Live, LiveTask, WorkerResult, Record
  <2>4. Accounted'
    BY <1>15 DEF Inv, Idle, Final, Known, Accounted, Live, LiveTask, WorkerResult, Record
  <2>5. SettledRecord'
    BY <1>15 DEF Inv, TypeOK, SettledRecord, WorkerResult, Record
  <2>6. PendingUntouched'
    BY <1>15 DEF Inv, Live, LiveTask, PendingUntouched, WorkerResult, Record
  <2> QED BY <2>1, <2>2, <2>3, <2>4, <2>5, <2>6 DEF Inv
<1>16. ASSUME NEW c \in Clients, NEW r \in Runs, Connect(c, r) PROVE Inv'
  BY <1>16 DEF Inv, TypeOK, memory, table, ThreadsHold, Known, LoopHolds, Accounted, Live,
     SettledRecord, PendingUntouched, Connect
<1>17. ASSUME NEW c \in Clients, NEW r \in Runs, ConnectAndStart(c, r) PROVE Inv'
  <2>1. TypeOK'
    BY <1>17 DEF Inv, TypeOK, LoopState, RunStatus, Recoverable, ConnectAndStart, Record
  <2>2. ThreadsHold'
    BY <1>17 DEF Inv, ThreadsHold, Known, ConnectAndStart, Record
  <2>3. LoopHolds'
    BY <1>17 DEF Inv, LoopHolds, Accounted, Live, ConnectAndStart, Startable
  <2>4. Accounted'
    BY <1>17 DEF Inv, TypeOK, Idle, Known, Accounted, Live, ConnectAndStart, Record
  <2>5. SettledRecord'
    BY <1>17 DEF Inv, SettledRecord, ConnectAndStart, Record
  <2>6. PendingUntouched'
    BY <1>17 DEF Inv, Live, PendingUntouched, ConnectAndStart, Record
  <2> QED BY <2>1, <2>2, <2>3, <2>4, <2>5, <2>6 DEF Inv
<1>18. ASSUME Launch PROVE Inv'
  <2>1. TypeOK'
    BY <1>18 DEF Inv, TypeOK, LoopState, Idle, TaskState, hub, table, LoopHolds, Launch
  <2>2. ThreadsHold'
    BY <1>18 DEF Inv, table, ThreadsHold, Known, Launch
  <2>3. LoopHolds'
    BY <1>18 DEF Idle, LoopHolds, Launch
  <2>4. Accounted'
    BY <1>18 DEF Inv, TypeOK, table, Known, LoopHolds, Accounted, Live, LiveTask, Launch
  <2>5. SettledRecord'
    BY <1>18 DEF Inv, table, SettledRecord, Launch
  <2>6a. loop.run \in running /\ running' = running /\ pending' = pending /\ status' = status
    BY <1>18 DEF Inv, table, LoopHolds, Launch
  <2>6b. \A r \in Runs : r # loop.run => task'[r] = task[r]
    BY <1>18 DEF Launch
  <2>8. PendingUntouched'
    BY <2>6a, <2>6b DEF Inv, TypeOK, PendingUntouched, Live
  <2> QED BY <2>1, <2>2, <2>3, <2>4, <2>5, <2>8 DEF Inv
<1>19. ASSUME Finalize PROVE Inv'
  <2>1. TypeOK'
    BY <1>19 DEF Inv, TypeOK, LoopState, Idle, hub, table, LoopHolds, Finalize, Release,
       ActiveAfter
  <2>2. ThreadsHold'
    BY <1>19 DEF Inv, table, ThreadsHold, Known, Finalize, Release
  <2>3. LoopHolds'
    BY <1>19 DEF Idle, LoopHolds, Finalize
  <2>4. Accounted'
    BY <1>19 DEF Inv, table, Known, LoopHolds, Accounted, Live, Finalize, Release
  <2>5. SettledRecord'
    BY <1>19 DEF Inv, table, LoopHolds, SettledRecord, Finalize, Release
  <2>6. PendingUntouched'
    BY <1>19 DEF Inv, table, Live, PendingUntouched, Finalize, Release
  <2> QED BY <2>1, <2>2, <2>3, <2>4, <2>5, <2>6 DEF Inv
<1>20. ASSUME NEW c \in Clients, Read(c) PROVE Inv'
  BY <1>20 DEF Inv, TypeOK, memory, table, ThreadsHold, Known, LoopHolds, Accounted, Live,
     SettledRecord, PendingUntouched, Read, CloseStream
<1>21. ASSUME NEW c \in Clients, Disconnect(c) PROVE Inv'
  BY <1>21 DEF Inv, TypeOK, memory, table, ThreadsHold, Known, LoopHolds, Accounted, Live,
     SettledRecord, PendingUntouched, Disconnect, CloseStream
<1>22. ASSUME Restart PROVE Inv'
  BY <1>22 DEF Inv, TypeOK, LoopState, Idle, ThreadState, IdleThread, TaskState, table,
     ThreadsHold, Holding, LoopHolds, Accounted, Live, LiveTask, SettledRecord,
     PendingUntouched, Restart, Candidates
<1>23. ASSUME UNCHANGED vars PROVE Inv'
  BY <1>23 DEF Inv, vars, TypeOK, memory, hub, table, ThreadsHold, Known, LoopHolds,
     Accounted, Live, SettledRecord, PendingUntouched
<1> QED BY <1>1, <1>2, <1>3, <1>4, <1>5, <1>6, <1>7, <1>8, <1>9, <1>10, <1>11, <1>12, <1>13,
   <1>14, <1>15, <1>16, <1>17, <1>18, <1>19, <1>20, <1>21, <1>22, <1>23 DEF Next, ThreadStep

\* Every step keeps runs and the names of runs in place.
LEMMA PlacedStep == Inv /\ Placed /\ [Next]_vars => Placed'
<1> SUFFICES ASSUME Inv, Placed, [Next]_vars PROVE Placed'
  OBVIOUS
<1> USE NoneAssumption
\* Steps that leave the table, the active runs and the threads as they are.
<1>1. ASSUME UNCHANGED <<table, active, resumeReq, thread>> PROVE Placed'
  BY <1>1 DEF Placed, table, Known
<1>2. ASSUME NEW t \in Threads, NEW s \in Sessions, CreateLook(t, s) PROVE Placed'
  BY <1>2 DEF Inv, TypeOK, Placed, memory, table, Known, Holding, CreateLook
<1>3. ASSUME NEW t \in Threads,
             CreateRefused(t) \/ CreateFollowUp(t) \/ CreateAttach(t) PROVE Placed'
  BY <1>3 DEF Inv, TypeOK, Placed, memory, table, Known, Holding, IdleThread, Return,
     CreateRefused, CreateFollowUp, CreateAttach
<1>4. ASSUME NEW t \in Threads, CreateFoundRecoverable(t) PROVE Placed'
  <2>1. /\ thread' = [thread EXCEPT ![t].pc = "attach"]
        /\ thread[t].pc = "create" /\ thread[t].run # None
        /\ UNCHANGED <<status, session, active, resumeReq>>
    BY <1>4 DEF CreateFoundRecoverable, Goto, memory, table
  <2> QED BY <2>1 DEF Inv, TypeOK, ThreadState, Placed, Known, Holding
<1>5. ASSUME NEW t \in Threads, NEW r \in Runs, CreateNew(t, r) PROVE Placed'
  <2>1. /\ status' = [status EXCEPT ![r] = "queued"]
        /\ session' = [session EXCEPT ![r] = thread[t].sess]
        /\ active' = [active EXCEPT ![thread[t].sess] = r]
        /\ thread' = [thread EXCEPT ![t] = IdleThread]
        /\ thread[t].pc = "create" /\ ~ Known(r) /\ resumeReq' = resumeReq
    BY <1>5 DEF CreateNew, Remember, Return
  <2>1a. thread[t].sess \in Sessions
    BY <2>1 DEF Placed
  <2>2. \A q \in Runs : Known(q) => q # r /\ session'[q] = session[q] /\ Known(q)'
    BY <2>1 DEF Inv, TypeOK, Known
  <2>3. Known(r)' /\ session'[r] = thread[t].sess
    BY <2>1 DEF Inv, TypeOK, Known
  <2>4. \A q \in Runs : /\ Known(q)' => session'[q] \in Sessions
                        /\ q \in resumeReq' => Known(q)'
    BY <2>1, <2>1a DEF Inv, TypeOK, Placed, Known
  <2>5. \A s \in Sessions : active'[s] # None => Known(active[s])' /\ session'[active'[s]] = s
    BY <2>1, <2>1a, <2>2, <2>3 DEF Inv, TypeOK, Placed, Known
  <2>6. \A u \in Threads :
          /\ thread'[u].pc \in Holding => Known(thread[u].run)'
          /\ thread'[u].pc = "create" => /\ thread'[u].sess \in Sessions
                                         /\ thread'[u].run # None => Known(thread[u].run)'
    BY <2>1, <2>2 DEF Inv, TypeOK, ThreadState, ThreadsHold, Placed, Known, IdleThread,
       Holding
  <2> QED BY <2>4, <2>5, <2>6 DEF Placed
<1>6. ASSUME NEW t \in Threads, NEW r \in Runs, StopLook(t, r) PROVE Placed'
  BY <1>6 DEF Inv, TypeOK, ThreadState, Placed, memory, table, Known, Holding, StopLook
<1>7. ASSUME NEW t \in Threads, StopPending(t) PROVE Placed'
  <2>1. /\ thread[t].pc = "stop_pending"
        /\ thread' = [thread EXCEPT ![t] = IdleThread]
        /\ UNCHANGED <<session, active, resumeReq>>
        /\ status' = status \/ status' = [status EXCEPT ![thread[t].run] = "stopped"]
    BY <1>7 DEF StopPending, Return, Record, table
  <2>2. thread[t].run \in Runs /\ \A q \in Runs : Known(q) => Known(q)'
    BY <2>1 DEF Inv, TypeOK, ThreadsHold, Known, Holding
  <2>3. \A q \in Runs : Known(q)' => Known(q)
    BY <2>1, <2>2 DEF Inv, TypeOK, Placed, Known, Holding
  <2>4. \A s \in Sessions : active[s] # None => active[s] \in Runs
    BY DEF Inv, TypeOK
  <2>5. \A u \in Threads : /\ thread'[u].pc \in Holding \cup {"create"} => thread'[u] = thread[u]
                           /\ thread[u].run \in Runs \cup {None}
                           /\ thread[u].pc \in Holding => thread[u].run \in Runs
    BY <2>1 DEF Inv, TypeOK, ThreadState, ThreadsHold, Holding, IdleThread
  <2> QED BY <2>1, <2>2, <2>3, <2>4, <2>5 DEF Inv, TypeOK, Placed
<1>8. ASSUME NEW t \in Threads, StopRequest(t) PROVE Placed'
  BY <1>8 DEF Inv, TypeOK, ThreadState, Placed, table, Known, Holding, IdleThread, Return,
     Goto, StopRequest
<1>9. ASSUME NEW t \in Threads, StopWrite(t) PROVE Placed'
  BY <1>9 DEF Inv, TypeOK, Placed, memory, Known, Holding, IdleThread, Return, Record,
     StopWrite
<1>10. ASSUME NEW r \in Runs, Resume(r) PROVE Placed'
  BY <1>10 DEF Inv, TypeOK, Placed, table, Known, Remember, Resume
\* Steps of the loop that write the record of a run.
<1>11. ASSUME NEW r \in Runs, NEW st \in RunStatus \ {"absent"}, Record(r, st),
              resumeReq' \subseteq resumeReq, UNCHANGED <<active, thread>>, Known(r)
       PROVE Placed'
  BY <1>11 DEF Inv, TypeOK, Placed, Known, Record
<1>12. ASSUME Finalize PROVE Placed'
  <2> DEFINE r == loop.run
  <2>1. r \in Runs /\ Known(r) /\ session[r] \in Sessions
    BY <1>12 DEF Inv, TypeOK, LoopHolds, Accounted, Placed, Finalize
  <2>2. \A s \in Sessions :
          active'[s] # None => active'[s] = active[s] \/ (active'[s] = r /\ s = session[r])
    BY <1>12, <2>1 DEF Inv, TypeOK, Finalize, ActiveAfter
  <2>3. resumeReq' \subseteq resumeReq /\ UNCHANGED <<table, thread>>
    BY <1>12 DEF Finalize, Release
  <2> QED BY <2>1, <2>2, <2>3 DEF Placed, table, Known
<1>13. ASSUME Restart PROVE Placed'
  BY <1>13 DEF Inv, TypeOK, Placed, table, Known, Holding, IdleThread, Candidates,
     Recoverable, Restart
<1>14. ASSUME NEW r \in Runs, task[r] = "executing" PROVE Known(r)
  BY <1>14 DEF Inv, Accounted, Live, LiveTask
<1>15. ASSUME NEW r \in Runs,
              \/ Progress(r) \/ WorkerCancelled(r)
              \/ \E outcome \in Final : WorkerResult(r, outcome)
       PROVE Placed'
  <2>1. PICK st \in RunStatus \ {"absent"} : Record(r, st)
    BY <1>15 DEF Progress, Writes, WorkerCancelled, RecordStopped, WorkerResult, RunStatus,
       Recoverable, Final
  <2>2. Known(r) /\ UNCHANGED <<active, resumeReq, thread>>
    BY <1>14, <1>15 DEF Progress, WorkerCancelled, WorkerResult, memory
  <2> QED BY <1>11, <2>1, <2>2
<1>16. ASSUME NEW c \in Clients, NEW r \in Runs, ConnectAndStart(c, r) PROVE Placed'
  <2>1. Known(r)
    BY <1>16 DEF Inv, PendingUntouched, Placed, Known, ConnectAndStart, Startable
  <2> QED BY <1>11, <1>16, <2>1 DEF ConnectAndStart, RunStatus, Recoverable
<1>17. ASSUME NEW r \in Runs, Begin(r) \/ \E c \in Clients : Connect(c, r) PROVE Placed'
  BY <1>1, <1>17 DEF Begin, Connect, memory, table
<1>18. ASSUME Launch \/ (\E c \in Clients : Read(c) \/ Disconnect(c)) PROVE Placed'
  BY <1>1, <1>18 DEF Launch, Read, Disconnect, memory, table
<1>19. ASSUME UNCHANGED vars PROVE Placed'
  BY <1>1, <1>19 DEF vars, memory
<1> QED BY <1>2, <1>3, <1>4, <1>5, <1>6, <1>7, <1>8, <1>9, <1>10, <1>12, <1>13, <1>15,
   <1>16, <1>17, <1>18, <1>19 DEF Next, ThreadStep

\* Every reachable state keeps the books.
THEOREM RunInvariant == Spec => [](Inv /\ Placed)
<1>1. Init => Inv
  BY NoneAssumption DEF Init, Inv, TypeOK, LoopState, Idle, ThreadState, IdleThread,
     RunStatus, TaskState, ThreadsHold, Holding, LoopHolds, Accounted, Live, LiveTask,
     SettledRecord, PendingUntouched
<1>2. Init => Placed
  BY DEF Init, Placed, Known, IdleThread, Holding
<1> QED BY <1>1, <1>2, InvStep, PlacedStep, PTL DEF Spec

\* The values of the state variables stay in their types.
THEOREM RunTypes == Spec => []TypeOK
BY RunInvariant, PTL DEF Inv

\* Worker tasks, the set of running runs and the task registry agree.
THEOREM RunWorkers == Spec => []WorkerAccounted
<1>1. Inv => WorkerAccounted
  BY DEF Inv, LoopHolds, Accounted, WorkerAccounted, Orphan
<1> QED BY <1>1, RunInvariant, PTL

\* A run whose worker is over has a final or stopped record.
THEOREM RunSettled == Spec => []SettledRecord
BY RunInvariant, PTL DEF Inv

\* A run that waits for its first start is untouched.
THEOREM RunPending == Spec => []PendingUntouched
BY RunInvariant, PTL DEF Inv

\* In a session where every call has acted on what was so, the only run that may
\* be at work, wait for its start or be resumed is the active one; every other
\* run of the session is over.  A resumption still to be started is of a run that
\* is recoverable, or else its start could bring back a run that had ended.
Over(r) == r \notin pending \cup running \cup resumeReq /\ status[r] \in Final

Serial ==
  \A r \in Runs :
    Known(r) /\ session[r] \notin misled =>
      /\ r # active[session[r]] => Over(r)
      /\ r \in resumeReq \ running => status[r] \in Recoverable

\* A step that keeps the active runs and the sessions, lets a run that is over be,
\* and asks for no resumption of one with a final record, keeps Serial.
LEMMA Steady ==
  ASSUME Inv, Placed, Serial, misled \subseteq misled', UNCHANGED <<session, active>>,
         \A r \in Runs : Known(r)' => Known(r),
         \A r \in Runs : session[r] \notin misled' /\ Over(r) => Over(r)',
         \A r \in Runs : Known(r) /\ session[r] \notin misled' /\ r \in resumeReq' \ running' =>
                           status'[r] \in Recoverable
  PROVE  Serial'
BY DEF Serial

\* Every step keeps the runs of a session in series.
LEMMA SerialStep == Inv /\ Placed /\ Serial /\ [Next]_vars => Serial'
<1> SUFFICES ASSUME Inv, Placed, Serial, [Next]_vars PROVE Serial'
  OBVIOUS
<1> USE NoneAssumption
<1>1. ASSUME UNCHANGED <<pending, running, resumeReq, active, table, misled>> PROVE Serial'
  BY <1>1 DEF Serial, Over, Known, table
<1>2. ASSUME NEW t \in Threads, CreateAttach(t) PROVE Serial'
  <2>1. /\ thread[t].run \in Runs /\ Known(thread[t].run)
        /\ session[thread[t].run] \in Sessions
    BY <1>2 DEF ThreadsHold, Holding, Placed, Inv, CreateAttach
  <2>2. /\ resumeReq' = resumeReq \cup {thread[t].run}
        /\ UNCHANGED <<pending, running, active, table>>
        /\ misled \subseteq misled'
        /\ OutOfWork(thread[t].run) => session[thread[t].run] \in misled'
    BY <1>2 DEF CreateAttach, Mislead
  <2>3. \A r \in Runs : Known(r)' <=> Known(r)
    BY <2>2 DEF table, Known
  <2>4. status[thread[t].run] \in Recoverable \/ status[thread[t].run] \in Final
    BY <2>1 DEF Inv, TypeOK, RunStatus, Known
  <2>5. \A r \in Runs : session[r] \notin misled' /\ Over(r) => Over(r)'
    BY <2>2 DEF Over, OutOfWork, table
  <2>6. \A r \in Runs : Known(r) /\ session[r] \notin misled' /\ r \in resumeReq' \ running' =>
                          status'[r] \in Recoverable
    BY <2>2, <2>4 DEF Serial, OutOfWork, table
  <2> QED BY <2>2, <2>3, <2>5, <2>6, Steady DEF table
<1>3. ASSUME NEW t \in Threads, NEW r \in Runs, CreateNew(t, r) PROVE Serial'
  <2> DEFINE s == thread[t].sess
  <2>1. /\ thread[t].pc = "create" /\ ~ Known(r)
        /\ thread[t].run = None \/ thread[t].run \notin pending \cup running
        /\ pending' = pending \cup {r}
        /\ active' = [active EXCEPT ![s] = r]
        /\ status' = [status EXCEPT ![r] = "queued"]
        /\ session' = [session EXCEPT ![r] = s]
        /\ UNCHANGED <<running, resumeReq>>
        /\ misled \subseteq misled'
        /\ \/ s \in misled'
           \/ /\ active[s] = thread[t].run
              /\ active[s] = None \/ status[active[s]] \notin Recoverable
    BY <1>3 DEF CreateNew, Remember, Mislead
  <2>2. s \in Sessions
    BY <2>1 DEF Placed
  <2>3. ASSUME NEW q \in Runs, Known(q)', session'[q] \notin misled'
        PROVE /\ q # active'[session'[q]] => Over(q)'
              /\ q \in resumeReq' \ running' => status'[q] \in Recoverable
    <3>1. CASE q = r
      BY <3>1, <2>1, <2>2, <2>3 DEF Inv, TypeOK, Recoverable
    <3>2. CASE q # r /\ session[q] = s
      <4>1. /\ Known(q) /\ status'[q] = status[q] /\ session'[q] = s
            /\ s \notin misled /\ active[s] = thread[t].run
            /\ active[s] = None \/ status[active[s]] \notin Recoverable
        BY <3>2, <2>1, <2>3 DEF Inv, TypeOK, Known
      <4>2. CASE q # active[s]
        <5>1. Over(q)
          BY <4>1, <4>2, <3>2, <2>3 DEF Serial
        <5> QED BY <5>1, <4>1, <3>2, <2>1 DEF Over
      <4>3. CASE q = active[s]
        <5>1. /\ q \notin pending \cup running /\ status[q] \notin Recoverable
              /\ status[q] \in Final
          BY <4>1, <4>3, <3>2, <2>1, <2>2 DEF Inv, TypeOK, RunStatus, Known
        <5>2. q \notin resumeReq
          BY <5>1, <4>1, <3>2 DEF Serial
        <5> QED BY <5>1, <5>2, <4>1, <3>2, <2>1 DEF Over
      <4> QED BY <4>2, <4>3
    <3>3. CASE q # r /\ session[q] # s
      <4>1. /\ Known(q) /\ status'[q] = status[q] /\ session'[q] = session[q]
            /\ session[q] \notin misled
        BY <3>3, <2>1, <2>3 DEF Inv, TypeOK, Known
      <4>2. active'[session[q]] = active[session[q]]
        BY <4>1, <3>3, <2>1, <2>2 DEF Inv, TypeOK, Placed
      <4>3. /\ q # active[session[q]] => Over(q)
            /\ q \in resumeReq \ running => status[q] \in Recoverable
        BY <4>1 DEF Serial
      <4> QED BY <4>1, <4>2, <4>3, <3>3, <2>1 DEF Over
    <3> QED BY <3>1, <3>2, <3>3
  <2> QED BY <2>3 DEF Serial
<1>4. ASSUME NEW t \in Threads, StopPending(t) PROVE Serial'
  <2> DEFINE r == thread[t].run
  <2>1. \/ UNCHANGED <<pending, running, resumeReq, active, table, misled>>
        \/ /\ r \in pending /\ pending' = pending \ {r}
           /\ status' = [status EXCEPT ![r] = "stopped"]
           /\ UNCHANGED <<running, resumeReq, active, session, misled>>
    BY <1>4 DEF StopPending, Record
  <2>2. ASSUME r \in pending, pending' = pending \ {r},
               status' = [status EXCEPT ![r] = "stopped"],
               UNCHANGED <<running, resumeReq, active, session, misled>>
        PROVE Serial'
    <3>1. r \in Runs /\ Known(r)
      BY <2>2, <1>4 DEF ThreadsHold, Holding, Placed, Inv, StopPending
    <3>2. \A q \in Runs : status'[q] = IF q = r THEN "stopped" ELSE status[q]
      BY <2>2 DEF Inv, TypeOK
    <3>3. \A q \in Runs : Known(q)' => Known(q)
      BY <3>1, <3>2 DEF Known
    <3>4. \A q \in Runs : Over(q) => Over(q)'
      BY <2>2, <3>2 DEF Over
    <3>5. \A q \in Runs : Known(q) /\ session[q] \notin misled' /\ q \in resumeReq' \ running' =>
                            status'[q] \in Recoverable
      BY <2>2, <3>2 DEF Serial, Recoverable
    <3> QED BY <2>2, <3>3, <3>4, <3>5, Steady
  <2> QED BY <2>1, <2>2, <1>1
<1>5. ASSUME NEW t \in Threads, StopWrite(t) PROVE Serial'
  <2> DEFINE r == thread[t].run
  <2>1. /\ status' = [status EXCEPT ![r] = "stopped"]
        /\ UNCHANGED <<pending, running, resumeReq, active, session>>
        /\ misled \subseteq misled'
        /\ OutOfWork(r) => session[r] \in misled'
    BY <1>5 DEF StopWrite, Record, Mislead, memory
  <2>2. r \in Runs /\ Known(r)
    BY <1>5 DEF ThreadsHold, Holding, Placed, Inv, StopWrite
  <2>3. \A q \in Runs : status'[q] = IF q = r THEN "stopped" ELSE status[q]
    BY <2>1 DEF Inv, TypeOK
  <2>4. \A q \in Runs : Known(q)' => Known(q)
    BY <2>2, <2>3 DEF Known
  <2>5. \A q \in Runs : session[q] \notin misled' /\ Over(q) => Over(q)'
    BY <2>1, <2>3 DEF Over, OutOfWork
  <2>6. \A q \in Runs : Known(q) /\ session[q] \notin misled' /\ q \in resumeReq' \ running' =>
                          status'[q] \in Recoverable
    BY <2>1, <2>3 DEF Serial, Recoverable
  <2> QED BY <2>1, <2>4, <2>5, <2>6, Steady
<1>6. ASSUME NEW r \in Runs, Resume(r) PROVE Serial'
  <2>1. /\ Known(r) /\ r \notin running
        /\ r \in pending \/ status[r] \in Recoverable
        /\ resumeReq' = resumeReq \cup {r}
        /\ active' = [active EXCEPT ![session[r]] = r]
        /\ UNCHANGED <<pending, running, table, misled>>
    BY <1>6 DEF Resume, Remember
  <2>2. session[r] \in Sessions
    BY <2>1 DEF Placed
  <2>3. status[r] \in Recoverable /\ status[r] \notin Final
    BY <2>1 DEF Inv, PendingUntouched, Recoverable, Final
  <2>4. session[r] \notin misled => active[session[r]] = r
    BY <2>1, <2>3 DEF Serial, Over
  <2>5. \A q \in Runs :
          Known(q) /\ session[q] \notin misled => active'[session[q]] = active[session[q]]
    BY <2>1, <2>2, <2>4 DEF Inv, TypeOK, Placed
  <2> QED BY <2>1, <2>3, <2>4, <2>5 DEF Serial, Over, table, Known
\* A run at work is the active one of its session.
<1>7. ASSUME NEW r \in Runs, r \in running \/ Startable(r) PROVE Known(r) /\ ~ Over(r)
  BY <1>7 DEF Inv, PendingUntouched, Accounted, Placed, Known, Startable, Over
\* Steps of the loop that write the record of a run at work.
<1>8. ASSUME NEW r \in Runs, NEW st \in RunStatus \ {"absent"}, Record(r, st),
             Known(r) /\ ~ Over(r), pending' = pending, r \in running',
             running' \subseteq running \cup {r}, running \subseteq running',
             resumeReq' \subseteq resumeReq, UNCHANGED <<active, misled>>
      PROVE Serial'
  <2>1. /\ session' = session
        /\ \A q \in Runs : status'[q] = IF q = r THEN st ELSE status[q]
    BY <1>8 DEF Inv, TypeOK, Record
  <2>2. \A q \in Runs : Known(q)' => Known(q)
    BY <1>8, <2>1 DEF Known
  <2>3. \A q \in Runs : Over(q) => Over(q)'
    BY <1>8, <2>1 DEF Over
  <2>4. \A q \in Runs : Known(q) /\ session[q] \notin misled' /\ q \in resumeReq' \ running' =>
                          status'[q] \in Recoverable
    BY <1>8, <2>1 DEF Serial
  <2> QED BY <1>8, <2>1, <2>2, <2>3, <2>4, Steady
<1>9. ASSUME NEW r \in Runs,
             \/ Progress(r) \/ WorkerCancelled(r)
             \/ \E outcome \in Final : WorkerResult(r, outcome)
      PROVE Serial'
  <2>1. PICK st \in RunStatus \ {"absent"} : Record(r, st)
    BY <1>9 DEF Progress, Writes, WorkerCancelled, RecordStopped, WorkerResult, RunStatus,
       Recoverable, Final
  <2>2. r \in running /\ UNCHANGED <<pending, running, resumeReq, active, misled>>
    BY <1>9 DEF Progress, WorkerCancelled, WorkerResult, memory, Inv, Accounted, Live,
       LiveTask
  <2> QED BY <1>7, <1>8, <2>1, <2>2
<1>10. ASSUME NEW c \in Clients, NEW r \in Runs, ConnectAndStart(c, r) PROVE Serial'
  <2>1. /\ Startable(r) /\ Record(r, "running") /\ running' = running \cup {r}
        /\ resumeReq' \subseteq resumeReq /\ UNCHANGED <<pending, active, misled>>
    BY <1>10 DEF ConnectAndStart
  <2> QED BY <1>7, <1>8, <2>1 DEF RunStatus, Recoverable
<1>11. ASSUME Finalize PROVE Serial'
  <2> DEFINE r == loop.run
  <2>1. /\ r \in Runs /\ r \in running /\ Known(r) /\ session[r] \in Sessions
        /\ status[r] \in RunStatus
    BY <1>11 DEF Inv, TypeOK, LoopHolds, Accounted, Placed, Finalize
  <2>2. /\ running' = running \ {r} /\ pending' = pending \ {r} /\ resumeReq' = resumeReq \ {r}
        /\ active' = ActiveAfter(session[r], r)
        /\ UNCHANGED <<table, misled>>
    BY <1>11 DEF Finalize, Release
  <2>3. ASSUME NEW q \in Runs, Known(q), session[q] \notin misled
        PROVE /\ q # active'[session[q]] => Over(q)'
              /\ q \in resumeReq' \ running' => status'[q] \in Recoverable
    <3>1. session[q] \in Sessions
      BY <2>3 DEF Placed
    <3>2. CASE session[q] # session[r]
      <4>1. active'[session[q]] = active[session[q]] /\ q # r
        BY <2>1, <2>2, <3>1, <3>2 DEF ActiveAfter, Inv, TypeOK
      <4> QED BY <2>2, <2>3, <4>1 DEF Serial, Over, table
    <3>3. CASE session[q] = session[r]
      <4>1. active[session[r]] = r
        BY <2>1, <2>3, <3>3 DEF Serial, Over
      <4>2. CASE q = r
        <5>1. CASE status[r] \in Recoverable
          <6>1. active'[session[r]] = r
            BY <2>1, <2>2, <5>1 DEF ActiveAfter, Inv, TypeOK
          <6> QED BY <2>2, <4>2, <6>1
        <5>2. CASE status[r] \notin Recoverable
          <6>1. status[r] \in Final
            BY <2>1, <5>2 DEF RunStatus, Known
          <6> QED BY <2>2, <4>2, <6>1 DEF Over, table
        <5> QED BY <5>1, <5>2
      <4>3. CASE q # r
        BY <2>2, <2>3, <3>3, <4>1, <4>3 DEF Serial, Over, table
      <4> QED BY <4>2, <4>3
    <3> QED BY <3>2, <3>3
  <2> QED BY <2>2, <2>3 DEF Serial, table, Known
<1>12. ASSUME Restart PROVE Serial'
  <2>1. /\ pending' = {} /\ running' = {} /\ resumeReq' = {}
        /\ \A s \in Sessions : IF Candidates(s) = {} THEN active'[s] = None
                               ELSE active'[s] \in Candidates(s)
        /\ UNCHANGED <<table, misled>>
    BY <1>12 DEF Restart
  <2>2. ASSUME NEW q \in Runs, Known(q), session[q] \notin misled, q # active'[session[q]]
        PROVE status[q] \in Final
    <3>1. session[q] \in Sessions /\ status[q] \in Recoverable \cup Final
      BY <2>2 DEF Placed, Inv, TypeOK, RunStatus, Known
    <3>2. SUFFICES ASSUME status[q] \in Recoverable PROVE FALSE
      BY <3>1
    <3>3. q \in Candidates(session[q]) /\ active'[session[q]] \in Candidates(session[q])
      BY <2>1, <3>1, <3>2 DEF Candidates
    <3>4. \A p \in Candidates(session[q]) : p = active[session[q]]
      <4> TAKE p \in Candidates(session[q])
      <4>1. p \in Runs /\ Known(p) /\ session[p] = session[q] /\ status[p] \notin Final
        BY DEF Candidates, Known, Recoverable, Final
      <4> QED BY <2>2, <4>1 DEF Serial, Over
    <3> QED BY <2>2, <3>3, <3>4
  <2> QED BY <2>1, <2>2 DEF Serial, Over, table, Known
<1>13. ASSUME NEW t \in Threads,
              \/ CreateRefused(t) \/ CreateFollowUp(t) \/ CreateFoundRecoverable(t)
              \/ StopRequest(t)
              \/ \E s \in Sessions : CreateLook(t, s)
              \/ \E r \in Runs : StopLook(t, r)
       PROVE Serial'
  BY <1>1, <1>13 DEF CreateRefused, CreateFollowUp, CreateFoundRecoverable, StopRequest,
     CreateLook, StopLook, memory
<1>14. ASSUME NEW r \in Runs, Begin(r) \/ \E c \in Clients : Connect(c, r) PROVE Serial'
  BY <1>1, <1>14 DEF Begin, Connect, memory
<1>15. ASSUME Launch \/ (\E c \in Clients : Read(c) \/ Disconnect(c)) PROVE Serial'
  BY <1>1, <1>15 DEF Launch, Read, Disconnect, memory
<1>16. ASSUME UNCHANGED vars PROVE Serial'
  BY <1>1, <1>16 DEF vars, memory
<1> QED BY <1>2, <1>3, <1>4, <1>5, <1>6, <1>9, <1>10, <1>11, <1>12, <1>13, <1>14, <1>15,
   <1>16 DEF Next, ThreadStep

\* In every reachable state the books are kept and the runs of a session are in series.
THEOREM RunInSeries == Spec => [](Inv /\ Placed /\ Serial)
<1>1. Init => Serial
  BY DEF Init, Serial, Known
<1> QED BY <1>1, SerialStep, RunInvariant, PTL DEF Spec

\* Two runs of a session run together only where a call has acted on an outdated view.
THEOREM RunSerial == Spec => []SessionSerial
<1>1. Inv /\ Placed /\ Serial => SessionSerial
  <2> SUFFICES ASSUME Inv, Placed, Serial PROVE SessionSerial
    OBVIOUS
  <2>1. \A r \in running : r \in Runs /\ Known(r) /\ ~ Over(r)
    BY DEF Inv, TypeOK, Accounted, Over
  <2> QED BY <2>1 DEF Serial, SessionSerial
<1> QED BY <1>1, RunInSeries, PTL

(***************************************************************************)
(* RunLifecycle implements SessionLife.                                    *)
(***************************************************************************)
\* What a session makes of a run, and that a session nobody has misled has one active run,
\* the one RunManager remembers.
LEMMA LifeIs ==
  ASSUME NEW r \in Runs
  PROVE  Life[r] = IF ~ Known(r) THEN "none"
                   ELSE IF r \in running \/ status[r] \in Recoverable THEN "active" ELSE "ended"
BY DEF Life

LEMMA ActiveOne ==
  ASSUME Inv, Placed, Serial, NEW s \in Sessions, s \notin misled, NEW r \in Lives!Active(s)
  PROVE  r \in Runs /\ r = active[s]
<1>1. r \in Runs /\ Life[r] = "active" /\ session[r] = s
  BY DEF Lives!Active
<1>2. Known(r) /\ (r \in running \/ status[r] \in Recoverable)
  BY <1>1, LifeIs
<1>3. ~ Over(r)
  BY <1>2 DEF Over, Recoverable, Final
<1> QED BY <1>1, <1>2, <1>3 DEF Serial

\* A step that leaves every life as it is, whether or not it misleads a session.
LEMMA LifeGoesOn ==
  ASSUME Life' = Life, session' = session, misled \subseteq misled' PROVE Lives!Next
<1>1. Life = [r \in Runs |-> Life[r]]
  BY DEF Life
<1>2. Lives!End({})
  BY <1>1 DEF Lives!End
<1> QED BY <1>2 DEF Lives!Next

\* A step that only takes runs out of those at work ends the ones that cannot be resumed.
LEMMA LifeEnds ==
  ASSUME Inv, running' \subseteq running, UNCHANGED <<table, misled>> PROVE Lives!Next
<1> DEFINE R == {r \in Runs : Life[r] = "active" /\ r \notin running' /\ status[r] \notin Recoverable}
<1>1. ASSUME NEW r \in Runs PROVE Life'[r] = IF r \in R THEN "ended" ELSE Life[r]
  BY <1>1 DEF Life, table, Known
<1>2. Life' = [r \in Runs |-> IF r \in R THEN "ended" ELSE Life[r]]
  BY <1>1 DEF Life
<1>3. Lives!End(R)
  BY <1>2 DEF Lives!End, table
<1> QED BY <1>3 DEF Lives!Next

\* A step that writes the record of a known run and may set it to work: the run goes on, or
\* it is brought back in a session that is misled by then.
LEMMA LifeWritten ==
  ASSUME Inv, NEW r \in Runs, NEW st \in RunStatus \ {"absent"}, Record(r, st), Known(r),
         misled \subseteq misled',
         running' = running \/ running' = running \cup {r},
         r \in running' \/ st \in Recoverable,
         OutOfWork(r) => session[r] \in misled'
  PROVE  Lives!Next
<1>1. /\ session' = session
      /\ \A q \in Runs : status'[q] = IF q = r THEN st ELSE status[q]
  BY DEF Record, Inv, TypeOK
<1>2. \A q \in Runs : Life'[q] = IF q = r THEN "active" ELSE Life[q]
  BY <1>1 DEF Life, Known
<1>3. CASE Life[r] = "active"
  <2>1. Life' = Life
    BY <1>2, <1>3 DEF Life
  <2> QED BY <1>1, <2>1, LifeGoesOn
<1>4. CASE Life[r] # "active"
  <2>1. Life[r] = "ended" /\ OutOfWork(r)
    BY <1>4, LifeIs DEF OutOfWork, Inv, TypeOK, RunStatus, Known
  <2>2. Life' = [Life EXCEPT ![r] = "active"]
    BY <1>2 DEF Life
  <2>3. Lives!Revive(r)
    BY <1>1, <2>1, <2>2 DEF Lives!Revive
  <2> QED BY <2>3 DEF Lives!Next
<1> QED BY <1>3, <1>4

\* Every step is one of the session's, or leaves it alone.
LEMMA LivesStep == Inv /\ Placed /\ Serial /\ [Next]_vars => [Lives!Next]_<<Life, session, misled>>
<1> SUFFICES ASSUME Inv, Placed, Serial, [Next]_vars
             PROVE  Lives!Next \/ UNCHANGED <<Life, session, misled>>
  OBVIOUS
<1> USE NoneAssumption
<1>1. ASSUME UNCHANGED <<running, table, misled>> PROVE UNCHANGED <<Life, session, misled>>
  BY <1>1 DEF Life, Known, table
<1>2. ASSUME NEW t \in Threads, CreateAttach(t) PROVE Lives!Next
  <2>1. UNCHANGED <<running, status, session>> /\ misled \subseteq misled'
    BY <1>2 DEF CreateAttach, Mislead, table
  <2>2. Life' = Life
    BY <2>1 DEF Life, Known
  <2> QED BY <2>1, <2>2, LifeGoesOn
<1>3. ASSUME NEW t \in Threads, NEW r \in Runs, CreateNew(t, r) PROVE Lives!Next
  <2> DEFINE s == thread[t].sess
  <2>1. /\ thread[t].pc = "create" /\ ~ Known(r)
        /\ thread[t].run = None \/ thread[t].run \notin pending \cup running
        /\ status' = [status EXCEPT ![r] = "queued"]
        /\ session' = [session EXCEPT ![r] = s]
        /\ running' = running
        /\ misled \subseteq misled'
        /\ \/ s \in misled'
           \/ /\ active[s] = thread[t].run
              /\ active[s] = None \/ status[active[s]] \notin Recoverable
    BY <1>3 DEF CreateNew, Mislead
  <2>2. s \in Sessions
    BY <2>1 DEF Placed
  <2>3. Lives!Active(s) = {} \/ s \in misled'
    <3> SUFFICES ASSUME s \notin misled', NEW q \in Lives!Active(s) PROVE FALSE
      BY DEF Lives!Active
    <3>1. s \notin misled
      BY <2>1
    <3>2. q \in Runs /\ q = active[s]
      BY <2>2, <3>1, ActiveOne
    <3>3. Life[q] = "active"
      BY DEF Lives!Active
    <3>4. q \in running \/ status[q] \in Recoverable
      BY <3>2, <3>3, LifeIs
    <3> QED BY <2>1, <3>2, <3>4
  <2>4. Life[r] = "none"
    BY <2>1, LifeIs
  <2>5. Life' = [Life EXCEPT ![r] = "active"]
    <3>1. \A q \in Runs : status'[q] = IF q = r THEN "queued" ELSE status[q]
      BY <2>1 DEF Inv, TypeOK
    <3>2. \A q \in Runs : Life'[q] = IF q = r THEN "active" ELSE Life[q]
      BY <2>1, <3>1 DEF Life, Known, Recoverable
    <3> QED BY <3>2 DEF Life
  <2>6. Lives!Begin(r, s)
    BY <2>1, <2>3, <2>4, <2>5 DEF Lives!Begin
  <2> QED BY <2>1, <2>2, <2>6 DEF Lives!Next
<1>4. ASSUME NEW t \in Threads, StopPending(t)
      PROVE  Lives!Next \/ UNCHANGED <<Life, session, misled>>
  <2> DEFINE r == thread[t].run
  <2>1. \/ UNCHANGED <<running, table, misled>>
        \/ r \in pending /\ Record(r, "stopped") /\ UNCHANGED <<running, misled>>
    BY <1>4 DEF StopPending
  <2>2. r \in Runs /\ Known(r)
    BY <1>4 DEF ThreadsHold, Holding, Placed, Inv, StopPending
  <2>3. r \in pending => ~ OutOfWork(r)
    BY <2>2 DEF Inv, PendingUntouched, OutOfWork, Final
  <2>4. "stopped" \in RunStatus \ {"absent"} /\ "stopped" \in Recoverable
    BY DEF RunStatus, Recoverable
  <2> QED BY <1>1, <2>1, <2>2, <2>3, <2>4, LifeWritten
<1>5. ASSUME NEW t \in Threads, StopWrite(t) PROVE Lives!Next
  <2> DEFINE r == thread[t].run
  <2>1. /\ Record(r, "stopped") /\ running' = running /\ misled \subseteq misled'
        /\ OutOfWork(r) => session[r] \in misled'
    BY <1>5 DEF StopWrite, Mislead, memory
  <2>2. r \in Runs /\ Known(r)
    BY <1>5 DEF ThreadsHold, Holding, Placed, Inv, StopWrite
  <2>3. "stopped" \in RunStatus \ {"absent"} /\ "stopped" \in Recoverable
    BY DEF RunStatus, Recoverable
  <2> QED BY <2>1, <2>2, <2>3, LifeWritten
<1>6. ASSUME NEW r \in Runs,
             \/ Progress(r) \/ WorkerCancelled(r)
             \/ \E outcome \in Final : WorkerResult(r, outcome)
      PROVE  Lives!Next
  <2>1. PICK st \in RunStatus \ {"absent"} : Record(r, st)
    BY <1>6 DEF Progress, Writes, WorkerCancelled, RecordStopped, WorkerResult, RunStatus,
       Recoverable, Final
  <2>2. r \in running /\ Known(r) /\ UNCHANGED <<running, misled>>
    BY <1>6 DEF Progress, WorkerCancelled, WorkerResult, memory, Inv, Accounted, Live,
       LiveTask
  <2> QED BY <2>1, <2>2, LifeWritten DEF OutOfWork
\* The resumption of a run that has ended was asked for by a late follow-up.
<1>7. ASSUME NEW c \in Clients, NEW r \in Runs, ConnectAndStart(c, r) PROVE Lives!Next
  <2>1. /\ Startable(r) /\ Record(r, "running") /\ running' = running \cup {r}
        /\ UNCHANGED misled
    BY <1>7 DEF ConnectAndStart
  <2>2. Known(r)
    BY <2>1 DEF Inv, PendingUntouched, Placed, Known, Startable
  <2>3. OutOfWork(r) => session[r] \in misled'
    BY <2>1, <2>2 DEF Startable, Inv, PendingUntouched, Serial, OutOfWork, Final,
       Recoverable
  <2>4. "running" \in RunStatus \ {"absent"}
    BY DEF RunStatus, Recoverable
  <2> QED BY <2>1, <2>2, <2>3, <2>4, LifeWritten
<1>8. ASSUME Finalize \/ Restart PROVE Lives!Next
  <2>1. running' \subseteq running /\ UNCHANGED <<table, misled>>
    BY <1>8 DEF Finalize, Release, Restart
  <2> QED BY <2>1, LifeEnds
<1>9. ASSUME NEW t \in Threads,
             \/ CreateRefused(t) \/ CreateFollowUp(t) \/ CreateFoundRecoverable(t)
             \/ StopRequest(t)
             \/ \E s \in Sessions : CreateLook(t, s)
             \/ \E r \in Runs : StopLook(t, r)
      PROVE UNCHANGED <<running, table, misled>>
  BY <1>9 DEF CreateRefused, CreateFollowUp, CreateFoundRecoverable, StopRequest,
     CreateLook, StopLook, memory
<1>10. ASSUME NEW r \in Runs, Resume(r) \/ Begin(r) \/ \E c \in Clients : Connect(c, r)
       PROVE UNCHANGED <<running, table, misled>>
  BY <1>10 DEF Resume, Begin, Connect, memory
<1>11. ASSUME Launch \/ (\E c \in Clients : Read(c) \/ Disconnect(c))
       PROVE UNCHANGED <<running, table, misled>>
  BY <1>11 DEF Launch, Read, Disconnect, memory
<1>12. ASSUME UNCHANGED vars PROVE UNCHANGED <<running, table, misled>>
  BY <1>12 DEF vars, memory
<1> QED BY <1>1, <1>2, <1>3, <1>4, <1>5, <1>6, <1>7, <1>8, <1>9, <1>10, <1>11, <1>12
   DEF Next, ThreadStep

\* The runs of a session follow one another, except where a call has acted on an outdated view.
THEOREM RunsFollow == Spec => RunsInTurn
<1>1. Init => Lives!Init
  BY DEF Init, Lives!Init, Life, Known
<1> QED BY <1>1, RunInSeries, LivesStep, PTL DEF Spec, RunsInTurn, Lives!Spec

\* At most one run of a session is at work or can be resumed, except where a call has acted
\* on an outdated view.
THEOREM RunAlone == Spec => []Lives!OneAtATime
<1>1. Inv /\ Placed /\ Serial => Lives!OneAtATime
  BY ActiveOne DEF Lives!OneAtATime
<1> QED BY <1>1, RunInSeries, PTL

\* No run is ever executed by two workers at once.
THEOREM RunOneWorker == Spec => OneWorkerPerRun
<1> DEFINE Keeps == \A r \in Runs : ~ Live(r) \/ task'[r] # "scheduled" \/ task[r] = "scheduled"
<1>1. Inv /\ [Next]_vars => [Keeps]_vars
  <2> SUFFICES ASSUME Inv, Next PROVE Keeps
    OBVIOUS
  <2>1. CASE UNCHANGED task
    BY <2>1
  <2>2. CASE Launch
    BY <2>2 DEF Inv, LoopHolds, Launch
  <2>3. ASSUME NEW r \in Runs,
                    Begin(r) \/ WorkerCancelled(r) \/ \E outcome \in Final : WorkerResult(r, outcome)
        PROVE Keeps
    BY <2>3 DEF Inv, TypeOK, Begin, WorkerCancelled, WorkerResult
  <2>4. CASE Restart
    BY <2>4 DEF Restart, Candidates
  <2>5. ASSUME NEW t \in Threads,
                    ThreadStep(t) \/ (\E s \in Sessions : CreateLook(t, s)) \/ \E r \in Runs : StopLook(t, r)
        PROVE UNCHANGED task
    BY <2>5 DEF ThreadStep, CreateLook, StopLook, CreateRefused, CreateFollowUp,
       CreateFoundRecoverable, CreateAttach, CreateNew, StopPending, StopRequest, StopWrite,
       memory
  <2>6. ASSUME NEW r \in Runs,
                    Resume(r) \/ Progress(r) \/ \E c \in Clients : Connect(c, r) \/ ConnectAndStart(c, r)
        PROVE UNCHANGED task
    BY <2>6 DEF Resume, Progress, Connect, ConnectAndStart, memory
  <2>7. ASSUME Finalize \/ \E c \in Clients : Read(c) \/ Disconnect(c)
        PROVE UNCHANGED task
    BY <2>7 DEF Finalize, Read, Disconnect, memory, CloseStream
  <2> QED BY <2>1, <2>2, <2>3, <2>4, <2>5, <2>6, <2>7 DEF Next
<1> QED BY <1>1, RunInvariant, PTL DEF Spec, OneWorkerPerRun

=============================================================================
