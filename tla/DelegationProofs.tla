-------------------------- MODULE DelegationProofs --------------------------
(***************************************************************************)
(* What holds of delegated tasks for any number of tasks, roles, requests, *)
(* threads and operations.                                                 *)
(*                                                                         *)
(* The argument rests on the binding: a task has an instance exactly from  *)
(* its first dispatch on (Bindings); whatever names a task later, an       *)
(* execution, the coordinator's list or a thread, names one that is bound, *)
(* and so can neither rebind it nor work on another instance.              *)
(***************************************************************************)
EXTENDS Delegation, TLAPS

Bindings ==
  \A t \in Tasks : /\ bound[t] = None <=> status[t] \in {"absent", "created"}
                   /\ status[t] # "absent" => role[t] \in Roles

Executions ==
  \A c \in Callers : exec[c].pc # "none" =>
    exec[c].task \in Tasks /\ exec[c].inst \in Roles /\ exec[c].inst = bound[exec[c].task]

Walking ==
  /\ \A t \in coord.todo : bound[t] # None
  /\ coord.calls # {} => coord.pc = "turn"
  /\ exec[Loop].pc # "none" => coord.pc = "wait"

ThreadTasks ==
  \A w \in Threads :
    LET t == thread[w].task IN
    /\ thread[w].pc \in {"stop", "follow"} => t = None \/ (t \in Tasks /\ bound[t] # None)
    /\ thread[w].pc \in {"stop", "follow", "release"} => thread[w].inst \in Roles
    /\ thread[w].pc = "update" => t \in Tasks /\ status[t] # "absent"

Inv == /\ TypeOK /\ Bindings /\ Executions /\ Walking /\ ThreadTasks
       /\ RunningAttended /\ EntryAwaited /\ FlagPaused


\* The coordinator's records the code builds and the fields it changes keep their type.
LEMMA CoordinatorTypes ==
  /\ \A pc \in {"down", "turn", "cycle", "loop", "wait"} : At(pc, 0) \in Coordinator
  /\ Down \in Coordinator
  /\ \A x \in Coordinator : \A pc \in {"down", "turn", "cycle", "loop", "wait"} :
       [x EXCEPT !.pc = pc] \in Coordinator
  /\ \A x \in Coordinator : \A S \in SUBSET Tools : [x EXCEPT !.calls = S] \in Coordinator
  /\ \A x \in Coordinator : \A pc \in {"down", "turn", "cycle", "loop", "wait"}, b \in BOOLEAN :
       [x EXCEPT !.pc = pc, !.hit = b] \in Coordinator
         /\ [x EXCEPT !.pc = pc, !.ran = b] \in Coordinator
<1> USE BoundsAssumption
<1>1. \A pc \in {"down", "turn", "cycle", "loop", "wait"} : At(pc, 0) \in Coordinator
  BY DEF At, Coordinator
<1>2. Down \in Coordinator
  BY <1>1 DEF Down
<1>3. \A x \in Coordinator : \A pc \in {"down", "turn", "cycle", "loop", "wait"} :
       [x EXCEPT !.pc = pc] \in Coordinator
  BY DEF Coordinator
<1>4. \A x \in Coordinator : \A S \in SUBSET Tools : [x EXCEPT !.calls = S] \in Coordinator
  BY DEF Coordinator
<1>5. \A x \in Coordinator : \A pc \in {"down", "turn", "cycle", "loop", "wait"}, b \in BOOLEAN :
       [x EXCEPT !.pc = pc, !.hit = b] \in Coordinator
         /\ [x EXCEPT !.pc = pc, !.ran = b] \in Coordinator
  BY DEF Coordinator
<1> QED BY <1>1, <1>2, <1>3, <1>4, <1>5


\* Every step preserves the invariant: one step per action.
LEMMA InvStep == Inv /\ [Next]_vars => Inv'
<1> SUFFICES ASSUME Inv, [Next]_vars PROVE Inv'
  OBVIOUS
<1> USE CallersAssumption, NoneAssumption, BoundsAssumption
<1>1. \A at \in {"subagent", "awaiting", "other"}, i \in Roles \cup {None}, rec \in BOOLEAN :
        Phased(at, i, rec) => phase' \in Phase
  BY DEF Phased, Phase
<1>2. phase \in Phase /\ coord \in Coordinator
  BY DEF Inv, TypeOK
<1>3. coord.calls \in SUBSET Tools /\ coord.todo \in SUBSET Tasks /\ coord.cycle \in 0..MaxCycles
      /\ coord.ran \in BOOLEAN /\ coord.hit \in BOOLEAN
  BY <1>2 DEF Coordinator

<1>4. ASSUME NEW t \in Tasks, NEW r \in Roles, Create(t, r) PROVE Inv'
  BY <1>4 DEF Inv, TypeOK, Bindings, Executions, Walking, ThreadTasks, RunningAttended,
     EntryAwaited, FlagPaused, work, control, ghosts, TaskStatus, Executing, Mark, Create
<1>5. ASSUME NEW q \in Requests, NEW t \in Tasks, Dispatch(q, t) PROVE Inv'
  <2>1. TypeOK'
    <3>1. coord' \in Coordinator
      BY <1>5, CoordinatorTypes, <1>2, <1>3 DEF Dispatch
    <3>2. phase' \in Phase
      BY <1>5 DEF Dispatch, TypeOK, Inv
    <3>3. exec' \in [Callers -> Execution]
      BY <1>5 DEF Dispatch, table, work, control, ghosts, TypeOK, Execution, Outcome, Free,
         Callers, Requests, Inv, Idle, Dispatchable, Busy, Target, BindOnFirst, Launch
    <3>4. status' \in [Tasks -> TaskStatus] /\ role' \in [Tasks -> Roles \cup {None}]
           /\ bound' \in [Tasks -> Roles \cup {None}]
      BY <1>5 DEF Dispatch, TypeOK, Mark, TaskStatus, Held, Inv, BindOnFirst
    <3>5. entry' \in [Roles -> Callers \cup {None}] /\ doomed' \subseteq Callers
      BY <1>5 DEF Dispatch, table, work, control, ghosts, TypeOK, Callers, Requests,
         UserStep, Phased, Inv, Idle, Dispatchable, Busy, Target, BindOnFirst, Launch
    <3>6. stopFlag' \subseteq Roles /\ paused' \in Roles \cup {None} /\ runStop' \in BOOLEAN
           /\ thread' \in [Threads -> ThreadState]
      BY <1>5 DEF Dispatch, control, TypeOK, Inv
    <3>7. lapsed' \subseteq Tasks /\ overtaken' \subseteq Roles /\ ops' \in 0..MaxOps
      BY <1>5 DEF Dispatch, ghosts, TypeOK, UserStep, Inv, Dispatchable
    <3> QED BY <3>1, <3>2, <3>3, <3>4, <3>5, <3>6, <3>7 DEF TypeOK
  <2>2. Bindings'
    BY <1>5 DEF Inv, TypeOK, Bindings, Mark, BindOnFirst, Dispatch
  <2>3. Executions'
    BY <1>5 DEF Inv, TypeOK, Bindings, Executions, Dispatchable, Target, BindOnFirst,
       Launch, Dispatch
  <2>4. Walking'
    BY <1>5 DEF Inv, TypeOK, Bindings, Walking, Coordinator, Idle, BindOnFirst, Launch,
       Dispatch
  <2>5. ThreadTasks'
    BY <1>5 DEF Inv, TypeOK, Bindings, ThreadTasks, Mark, BindOnFirst, Dispatch
  <2>6. RunningAttended'
    BY <1>5 DEF Inv, TypeOK, RunningAttended, ghosts, Executing, Mark, Idle, BindOnFirst,
       Launch, Dispatch
  <2>7. EntryAwaited'
    BY <1>5 DEF Inv, TypeOK, EntryAwaited, Callers, Idle, Launch, Dispatch
  <2>8. FlagPaused'
    BY <1>5 DEF Inv, FlagPaused, control, ghosts, Dispatch
  <2> QED BY <2>1, <2>2, <2>3, <2>4, <2>5, <2>6, <2>7, <2>8 DEF Inv
<1>6. ASSUME NEW q \in Requests, NEW t \in Tasks, DispatchRefused(q, t) PROVE Inv'
  <2>1. TypeOK'
    BY <1>6 DEF Inv, TypeOK, work, control, ghosts, TaskStatus, Held, Mark, BindOnFirst,
       DispatchRefused
  <2>2. Bindings'
    BY <1>6 DEF Inv, TypeOK, Bindings, Mark, BindOnFirst, DispatchRefused
  <2>3. Executions'
    BY <1>6 DEF Inv, TypeOK, Bindings, Executions, work, BindOnFirst, DispatchRefused
  <2>4. Walking'
    BY <1>6 DEF Inv, TypeOK, Bindings, Walking, work, Coordinator, BindOnFirst,
       DispatchRefused
  <2>5. ThreadTasks'
    BY <1>6 DEF Inv, TypeOK, Bindings, ThreadTasks, Mark, BindOnFirst, DispatchRefused
  <2>6. RunningAttended'
    BY <1>6 DEF Inv, TypeOK, RunningAttended, work, ghosts, Executing, Mark, BindOnFirst,
       DispatchRefused
  <2>7. EntryAwaited'
    BY <1>6 DEF Inv, EntryAwaited, work, DispatchRefused
  <2>8. FlagPaused'
    BY <1>6 DEF Inv, FlagPaused, control, ghosts, DispatchRefused
  <2> QED BY <2>1, <2>2, <2>3, <2>4, <2>5, <2>6, <2>7, <2>8 DEF Inv
<1>7. ASSUME NEW w \in Threads, NEW t \in Tasks, UpdateLook(w, t) PROVE Inv'
  BY <1>7 DEF Inv, TypeOK, Bindings, Executions, Walking, ThreadTasks, RunningAttended,
     EntryAwaited, FlagPaused, table, work, control, ghosts, ThreadState, Executing,
     UserStep, UpdateLook
<1>8. ASSUME NEW w \in Threads, NEW r \in Roles, UpdateWrite(w, r) PROVE Inv'
  BY <1>8 DEF Inv, TypeOK, Bindings, Executions, Walking, ThreadTasks, RunningAttended,
     EntryAwaited, FlagPaused, work, control, ghosts, ThreadState, IdleThread, Executing,
     UpdateWrite, Patch
<1>9. ASSUME NEW c \in Callers, ExecBegins(c) PROVE Inv'
  BY <1>9 DEF Inv, TypeOK, Bindings, Executions, Walking, ThreadTasks, RunningAttended,
     EntryAwaited, FlagPaused, control, TaskStatus, Held, Phase, Execution, Executing, Mark,
     Phased, ExecBegins
<1>10. ASSUME NEW c \in Callers, SetupFails(c) PROVE Inv'
  BY <1>10 DEF Inv, TypeOK, Bindings, Executions, Walking, ThreadTasks, RunningAttended,
     EntryAwaited, FlagPaused, control, TaskStatus, Held, Outcome, Phase, Execution,
     Executing, Mark, Phased, Callers, Requests, End, SetupFails
<1>11. ASSUME NEW c \in Callers, ExecLost(c) PROVE Inv'
  <2>1. TypeOK'
    BY <1>11 DEF Inv, TypeOK, table, control, ghosts, Execution, Callers, End, ExecLost
  <2>2. Bindings'
    BY <1>11 DEF Inv, Bindings, table, ExecLost
  <2>3. Executions'
    BY <1>11 DEF Inv, TypeOK, Executions, table, End, ExecLost
  <2>4. Walking'
    BY <1>11 DEF Inv, TypeOK, Walking, table, Callers, End, ExecLost
  <2>5. ThreadTasks'
    BY <1>11 DEF Inv, ThreadTasks, table, ExecLost
  <2>6. RunningAttended'
    BY <1>11 DEF Inv, TypeOK, RunningAttended, table, ghosts, Executing, End, ExecLost
  <2>7. EntryAwaited'
    BY <1>11 DEF Inv, TypeOK, EntryAwaited, End, ExecLost
  <2>8. FlagPaused'
    BY <1>11 DEF Inv, FlagPaused, control, ghosts, ExecLost
  <2> QED BY <2>1, <2>2, <2>3, <2>4, <2>5, <2>6, <2>7, <2>8 DEF Inv
<1>12. ASSUME NEW c \in Callers, ExecCompletes(c) PROVE Inv'
  <2>1. TypeOK'
    BY <1>12 DEF Inv, TypeOK, Executions, table, control, ghosts, TaskStatus, Outcome,
       Phase, Execution, Free, Mark, Phased, Callers, End, ExecCompletes
  <2>2. Bindings'
    BY <1>12 DEF Inv, TypeOK, Bindings, Executions, table, Mark, Callers, ExecCompletes
  <2>3. Executions'
    BY <1>12 DEF Inv, TypeOK, Executions, End, ExecCompletes
  <2>4. Walking'
    BY <1>12 DEF Inv, TypeOK, Walking, Callers, End, ExecCompletes
  <2>5. ThreadTasks'
    BY <1>12 DEF Inv, ThreadTasks, Mark, ExecCompletes
  <2>6. RunningAttended'
    BY <1>12 DEF Inv, TypeOK, RunningAttended, ghosts, Executing, Mark, End, ExecCompletes
  <2>7. EntryAwaited'
    BY <1>12 DEF Inv, TypeOK, EntryAwaited, End, ExecCompletes
  <2>8. FlagPaused'
    BY <1>12 DEF Inv, FlagPaused, control, ghosts, ExecCompletes
  <2> QED BY <2>1, <2>2, <2>3, <2>4, <2>5, <2>6, <2>7, <2>8 DEF Inv
<1>13. ASSUME NEW c \in Callers, ExecFails(c) PROVE Inv'
  BY <1>13 DEF Inv, TypeOK, Bindings, Executions, Walking, ThreadTasks, RunningAttended,
     EntryAwaited, FlagPaused, control, ghosts, TaskStatus, Phase, Execution, Executing,
     Mark, Phased, Callers, End, ExecFails
<1>14. ASSUME NEW c \in Callers, ExecCancelled(c) PROVE Inv'
  <2>1. TypeOK'
    <3>1. coord' \in Coordinator
      BY <1>14, CoordinatorTypes DEF ExecCancelled, table, work, control, ghosts, TypeOK,
         Phased, Callers, Requests, Inv, End, At, Down, StopAsked, MarkCancelled
    <3>2. phase' \in Phase
      <4>1. exec[c].inst \in Roles
        BY <1>14 DEF ExecCancelled, Inv, Executions, StopAsked, MarkCancelled
      <4>2. runStop \in BOOLEAN
        BY DEF Inv, TypeOK
      <4>3. CASE runStop \/ exec[c].inst \in stopFlag
        <5>1. CASE runStop
          <6>1. PICK b \in BOOLEAN : phase' = [at |-> "other", inst |-> None, rec |-> b]
            BY <1>14, <5>1 DEF ExecCancelled, Phased, StopAsked, MarkCancelled
          <6> QED BY <6>1 DEF Phase
        <5>2. CASE ~runStop
          BY <1>14, <4>1, <4>3, <5>2, <1>1 DEF ExecCancelled, StopAsked, MarkCancelled
        <5> QED BY <5>1, <5>2
      <4>4. CASE ~(runStop \/ exec[c].inst \in stopFlag)
        BY <1>14, <4>1, <4>2, <4>4 DEF ExecCancelled, Phased, Phase, StopAsked,
           MarkCancelled
      <4> QED BY <4>3, <4>4
    <3>3. exec' \in [Callers -> Execution]
      BY <1>14 DEF ExecCancelled, TypeOK, Execution, Callers, Inv, End, StopAsked,
         MarkCancelled
    <3>4. status' \in [Tasks -> TaskStatus] /\ role' \in [Tasks -> Roles \cup {None}]
           /\ bound' \in [Tasks -> Roles \cup {None}]
      BY <1>14 DEF ExecCancelled, table, work, control, ghosts, TypeOK, Mark, TaskStatus,
         Held, Bindings, Inv, UserStep, Phased, End, StopAsked, MarkCancelled
    <3>5. entry' \in [Roles -> Callers \cup {None}] /\ doomed' \subseteq Callers
      BY <1>14 DEF ExecCancelled, TypeOK, Inv, End, StopAsked, MarkCancelled
    <3>6. stopFlag' \subseteq Roles /\ paused' \in Roles \cup {None} /\ runStop' \in BOOLEAN
           /\ thread' \in [Threads -> ThreadState]
      BY <1>14 DEF ExecCancelled, control, TypeOK, Inv, StopAsked, MarkCancelled
    <3>7. lapsed' \subseteq Tasks /\ overtaken' \subseteq Roles /\ ops' \in 0..MaxOps
      BY <1>14 DEF ExecCancelled, ghosts, TypeOK, Inv, StopAsked, MarkCancelled
    <3> QED BY <3>1, <3>2, <3>3, <3>4, <3>5, <3>6, <3>7 DEF TypeOK
  <2>2. Bindings'
    BY <1>14 DEF Inv, Bindings, Executions, Mark, ExecCancelled, StopAsked, MarkCancelled
  <2>3. Executions'
    BY <1>14 DEF Inv, TypeOK, Executions, End, ExecCancelled, StopAsked, MarkCancelled
  <2>4. Walking'
    BY <1>14 DEF Inv, TypeOK, Walking, Callers, End, ExecCancelled, StopAsked, MarkCancelled
  <2>5. ThreadTasks'
    BY <1>14 DEF Inv, ThreadTasks, Mark, ExecCancelled, StopAsked, MarkCancelled
  <2>6. RunningAttended'
    BY <1>14 DEF Inv, TypeOK, RunningAttended, ghosts, Executing, Mark, End, ExecCancelled,
       StopAsked, MarkCancelled
  <2>7. EntryAwaited'
    BY <1>14 DEF Inv, TypeOK, EntryAwaited, End, ExecCancelled, StopAsked, MarkCancelled
  <2>8. FlagPaused'
    BY <1>14 DEF Inv, FlagPaused, control, ghosts, ExecCancelled, StopAsked, MarkCancelled
  <2> QED BY <2>1, <2>2, <2>3, <2>4, <2>5, <2>6, <2>7, <2>8 DEF Inv
<1>15. ASSUME NEW q \in Requests, Return(q) PROVE Inv'
  <2>1. TypeOK'
    <3>1. coord' \in Coordinator
      <4>1. coord.calls \ {q} \in SUBSET Tools
        BY <1>3
      <4>2. coord' = Down \/ coord' = [coord EXCEPT !.calls = @ \ {q}]
        BY <1>15 DEF Return, RunStops
      <4>3. [coord EXCEPT !.calls = @ \ {q}] \in Coordinator
        BY <4>1, <1>2 DEF Coordinator
      <4> QED BY <4>2, <4>3, CoordinatorTypes
    <3>2. phase' \in Phase
      BY <1>15, <1>1, <1>2 DEF Return, RunStops
    <3>3. exec' \in [Callers -> Execution]
      BY <1>15 DEF Return, TypeOK, Execution, Outcome, Free, Callers, Inv, Leave
    <3>4. status' \in [Tasks -> TaskStatus] /\ role' \in [Tasks -> Roles \cup {None}]
           /\ bound' \in [Tasks -> Roles \cup {None}]
      BY <1>15 DEF Return, table, TypeOK, Inv
    <3>5. entry' \in [Roles -> Callers \cup {None}] /\ doomed' \subseteq Callers
      <4>1. coord.calls \subseteq Callers /\ doomed \subseteq Callers
            /\ entry \in [Roles -> Callers \cup {None}]
        BY <1>3 DEF Callers, Requests, Inv, TypeOK
      <4>2. entry' \in [Roles -> Callers \cup {None}]
        BY <1>15, <4>1 DEF Return, Leave
      <4>3. doomed' \subseteq Callers
        BY <1>15, <4>1 DEF Return, RunStops, LiveCalls
      <4> QED BY <4>2, <4>3
    <3>6. stopFlag' \subseteq Roles /\ paused' \in Roles \cup {None} /\ runStop' \in BOOLEAN
           /\ thread' \in [Threads -> ThreadState]
      BY <1>15 DEF Return, control, TypeOK, Inv
    <3>7. lapsed' \subseteq Tasks /\ overtaken' \subseteq Roles /\ ops' \in 0..MaxOps
      BY <1>15 DEF Return, ghosts, TypeOK, Inv
    <3> QED BY <3>1, <3>2, <3>3, <3>4, <3>5, <3>6, <3>7 DEF TypeOK
  <2>2. Bindings'
    BY <1>15 DEF Inv, Bindings, table, Return
  <2>3. Executions'
    BY <1>15 DEF Inv, Executions, table, Free, Leave, Return
  <2>4. Walking'
    BY <1>15 DEF Inv, TypeOK, Walking, table, Coordinator, Phased, Leave, RunStops, At,
       Down, Return
  <2>5. ThreadTasks'
    BY <1>15 DEF Inv, ThreadTasks, table, Return
  <2>6. RunningAttended'
    BY <1>15 DEF Inv, RunningAttended, table, ghosts, Executing, Leave, Return
  <2>7. EntryAwaited'
    BY <1>15 DEF Inv, TypeOK, EntryAwaited, Leave, Return
  <2>8. FlagPaused'
    BY <1>15 DEF Inv, FlagPaused, control, ghosts, Return
  <2> QED BY <2>1, <2>2, <2>3, <2>4, <2>5, <2>6, <2>7, <2>8 DEF Inv
<1>16. ASSUME TurnEnds PROVE Inv'
  BY <1>16 DEF Inv, TypeOK, Bindings, Executions, Walking, ThreadTasks, RunningAttended,
     EntryAwaited, FlagPaused, table, control, ghosts, Phase, Coordinator, Executing,
     Phased, TurnEnds
<1>17. ASSUME TurnFails PROVE Inv'
  BY <1>17 DEF Inv, TypeOK, Bindings, Executions, Walking, ThreadTasks, RunningAttended,
     EntryAwaited, FlagPaused, table, control, ghosts, Phase, Coordinator, Executing,
     Phased, RunEnds, At, Down, TurnFails
<1>18. ASSUME TurnCancelled PROVE Inv'
  BY <1>18 DEF Inv, TypeOK, Bindings, Executions, Walking, ThreadTasks, RunningAttended,
     EntryAwaited, FlagPaused, table, control, ghosts, Phase, Coordinator, Executing,
     Phased, Callers, Requests, RunStops, LiveCalls, At, Down, TurnCancelled
<1>19. ASSUME Snapshot PROVE Inv'
  <2>1. TypeOK'
    <3>1. coord' \in Coordinator
      <4>1. CASE coord.cycle = MaxCycles
        BY <1>19, <4>1, CoordinatorTypes DEF Snapshot, RunEnds
      <4>2. CASE coord.cycle # MaxCycles
        <5>1. coord.cycle + 1 \in 0..MaxCycles
          BY <4>2, <1>3
        <5>2. Pending \subseteq Tasks
          BY DEF Pending
        <5>3. coord' = [coord EXCEPT !.pc = "loop", !.cycle = @ + 1, !.todo = Pending, !.ran
              = FALSE]
          BY <1>19, <4>2 DEF Snapshot
        <5> QED BY <1>2, <5>1, <5>2, <5>3 DEF Coordinator
      <4> QED BY <4>1, <4>2
    <3>2. phase' \in Phase
      BY <1>19, <1>1, <1>2 DEF Snapshot, RunEnds
    <3>3. exec' \in [Callers -> Execution]
      BY <1>19 DEF Snapshot, TypeOK, Inv
    <3>4. status' \in [Tasks -> TaskStatus] /\ role' \in [Tasks -> Roles \cup {None}]
           /\ bound' \in [Tasks -> Roles \cup {None}]
      BY <1>19 DEF Snapshot, table, TypeOK, Inv
    <3>5. entry' \in [Roles -> Callers \cup {None}] /\ doomed' \subseteq Callers
      BY <1>19 DEF Snapshot, TypeOK, Inv
    <3>6. stopFlag' \subseteq Roles /\ paused' \in Roles \cup {None} /\ runStop' \in BOOLEAN
           /\ thread' \in [Threads -> ThreadState]
      BY <1>19 DEF Snapshot, control, TypeOK, Inv
    <3>7. lapsed' \subseteq Tasks /\ overtaken' \subseteq Roles /\ ops' \in 0..MaxOps
      BY <1>19 DEF Snapshot, ghosts, TypeOK, Inv
    <3> QED BY <3>1, <3>2, <3>3, <3>4, <3>5, <3>6, <3>7 DEF TypeOK
  <2>2. Bindings'
    BY <1>19 DEF Inv, Bindings, table, Snapshot
  <2>3. Executions'
    BY <1>19 DEF Inv, Executions, table, Snapshot
  <2>4. Walking'
    <3>1. CASE coord.cycle = MaxCycles
      BY <1>19, <3>1 DEF Snapshot, RunEnds, Down, At, Inv, Walking
    <3>2. CASE coord.cycle # MaxCycles
      <4>1. coord'.todo = Pending /\ coord'.calls = coord.calls /\ coord'.pc = "loop"
        BY <1>19, <3>2, <1>2 DEF Snapshot, Coordinator
      <4>2. exec' = exec /\ bound' = bound /\ coord.pc = "cycle"
        BY <1>19 DEF Snapshot, table
      <4> QED BY <4>1, <4>2 DEF Pending, Inv, Walking
    <3> QED BY <3>1, <3>2
  <2>5. ThreadTasks'
    BY <1>19 DEF Inv, ThreadTasks, table, Snapshot
  <2>6. RunningAttended'
    BY <1>19 DEF Inv, RunningAttended, table, ghosts, Executing, Snapshot
  <2>7. EntryAwaited'
    BY <1>19 DEF Inv, EntryAwaited, Snapshot
  <2>8. FlagPaused'
    BY <1>19 DEF Inv, FlagPaused, control, ghosts, Snapshot
  <2> QED BY <2>1, <2>2, <2>3, <2>4, <2>5, <2>6, <2>7, <2>8 DEF Inv
<1>20. ASSUME NEW t \in Tasks, LoopSkips(t) PROVE Inv'
  <2>1. TypeOK'
    BY <1>20 DEF Inv, TypeOK, table, control, ghosts, Coordinator, LoopSkips
  <2>2. Bindings'
    BY <1>20 DEF Inv, Bindings, table, LoopSkips
  <2>3. Executions'
    BY <1>20 DEF Inv, Executions, table, LoopSkips
  <2>4. Walking'
    BY <1>20 DEF Inv, Walking, table, LoopSkips
  <2>5. ThreadTasks'
    BY <1>20 DEF Inv, ThreadTasks, table, LoopSkips
  <2>6. RunningAttended'
    BY <1>20 DEF Inv, RunningAttended, table, ghosts, Executing, LoopSkips
  <2>7. EntryAwaited'
    BY <1>20 DEF Inv, EntryAwaited, LoopSkips
  <2>8. FlagPaused'
    BY <1>20 DEF Inv, FlagPaused, control, ghosts, LoopSkips
  <2> QED BY <2>1, <2>2, <2>3, <2>4, <2>5, <2>6, <2>7, <2>8 DEF Inv
<1>21. ASSUME NEW t \in Tasks, LoopStarts(t) PROVE Inv'
  <2>1. TypeOK'
    BY <1>21 DEF Inv, TypeOK, Bindings, Executions, Walking, ThreadTasks, RunningAttended,
       EntryAwaited, FlagPaused, table, work, control, ghosts, TaskStatus, Held, Outcome,
       Phase, Execution, Free, Coordinator, ThreadState, IdleThread, Live, Executing, Mark,
       Phased, Callers, Requests, UserStep, Launch, LoopStarts
  <2>2. Bindings'
    BY <1>21 DEF Inv, Bindings, table, LoopStarts
  <2>3. Executions'
    BY <1>21 DEF Inv, TypeOK, Executions, Walking, table, Launch, LoopStarts
  <2>4. Walking'
    BY <1>21 DEF Inv, Walking, table, LoopStarts
  <2>5. ThreadTasks'
    BY <1>21 DEF Inv, ThreadTasks, table, LoopStarts
  <2>6. RunningAttended'
    BY <1>21 DEF Inv, Walking, RunningAttended, table, ghosts, Executing, Launch, LoopStarts
  <2>7. EntryAwaited'
    BY <1>21 DEF Inv, TypeOK, Walking, EntryAwaited, Callers, Launch, LoopStarts
  <2>8. FlagPaused'
    BY <1>21 DEF Inv, FlagPaused, control, ghosts, LoopStarts
  <2> QED BY <2>1, <2>2, <2>3, <2>4, <2>5, <2>6, <2>7, <2>8 DEF Inv
<1>22. ASSUME LoopReturns PROVE Inv'
  <2>1. TypeOK'
    <3>1. coord' \in Coordinator
      BY <1>22, <1>2, CoordinatorTypes DEF LoopReturns, RunEnds
    <3>2. phase' \in Phase
      BY <1>22, <1>1, <1>2 DEF LoopReturns, RunEnds
    <3>3. exec' \in [Callers -> Execution]
      BY <1>22 DEF LoopReturns, TypeOK, Execution, Outcome, Free, Callers, Inv, Leave
    <3>4. status' \in [Tasks -> TaskStatus] /\ role' \in [Tasks -> Roles \cup {None}]
           /\ bound' \in [Tasks -> Roles \cup {None}]
      BY <1>22 DEF LoopReturns, table, TypeOK, Inv
    <3>5. entry' \in [Roles -> Callers \cup {None}] /\ doomed' \subseteq Callers
      BY <1>22 DEF LoopReturns, table, work, control, ghosts, TypeOK, Callers, Requests,
         UserStep, Phased, Inv, Leave, RunEnds
    <3>6. stopFlag' \subseteq Roles /\ paused' \in Roles \cup {None} /\ runStop' \in BOOLEAN
           /\ thread' \in [Threads -> ThreadState]
      BY <1>22 DEF LoopReturns, control, TypeOK, Inv
    <3>7. lapsed' \subseteq Tasks /\ overtaken' \subseteq Roles /\ ops' \in 0..MaxOps
      BY <1>22 DEF LoopReturns, ghosts, TypeOK, Inv
    <3> QED BY <3>1, <3>2, <3>3, <3>4, <3>5, <3>6, <3>7 DEF TypeOK
  <2>2. Bindings'
    BY <1>22 DEF Inv, Bindings, table, LoopReturns
  <2>3. Executions'
    BY <1>22 DEF Inv, Executions, table, Free, Leave, LoopReturns
  <2>4. Walking'
    <3>1. exec'[Loop].pc = "none" /\ bound' = bound
      BY <1>22 DEF LoopReturns, Leave, Free, Inv, TypeOK, table, Callers
    <3>2. coord.pc = "wait" /\ coord.calls = {}
      BY <1>22 DEF LoopReturns, Inv, Walking
    <3>3. /\ Down.todo = {} /\ Down.calls = {}
          /\ [coord EXCEPT !.pc = "loop", !.hit = FALSE].todo = coord.todo
          /\ [coord EXCEPT !.pc = "loop", !.hit = FALSE].calls = coord.calls
          /\ [coord EXCEPT !.pc = "loop", !.ran = TRUE].todo = coord.todo
          /\ [coord EXCEPT !.pc = "loop", !.ran = TRUE].calls = coord.calls
      BY <1>2 DEF Down, At
    <3>4. coord'.todo \subseteq coord.todo /\ coord'.calls = {}
      BY <1>22, <3>2, <3>3 DEF LoopReturns, RunEnds
    <3> QED BY <3>1, <3>4 DEF Inv, Walking
  <2>5. ThreadTasks'
    BY <1>22 DEF Inv, ThreadTasks, table, LoopReturns
  <2>6. RunningAttended'
    BY <1>22 DEF Inv, RunningAttended, table, ghosts, Executing, Leave, LoopReturns
  <2>7. EntryAwaited'
    BY <1>22 DEF Inv, TypeOK, EntryAwaited, Leave, LoopReturns
  <2>8. FlagPaused'
    BY <1>22 DEF Inv, FlagPaused, control, ghosts, LoopReturns
  <2> QED BY <2>1, <2>2, <2>3, <2>4, <2>5, <2>6, <2>7, <2>8 DEF Inv
<1>23. ASSUME LoopEnds PROVE Inv'
  <2>1. TypeOK'
    <3>1. coord' \in Coordinator
      BY <1>23, <1>2, CoordinatorTypes DEF LoopEnds, RunEnds
    <3>2. phase' \in Phase
      BY <1>23, <1>1, <1>2 DEF LoopEnds, RunEnds
    <3>3. exec' \in [Callers -> Execution]
      BY <1>23 DEF LoopEnds, TypeOK, Inv
    <3>4. status' \in [Tasks -> TaskStatus] /\ role' \in [Tasks -> Roles \cup {None}]
           /\ bound' \in [Tasks -> Roles \cup {None}]
      BY <1>23 DEF LoopEnds, table, TypeOK, Inv
    <3>5. entry' \in [Roles -> Callers \cup {None}] /\ doomed' \subseteq Callers
      BY <1>23 DEF LoopEnds, TypeOK, Inv
    <3>6. stopFlag' \subseteq Roles /\ paused' \in Roles \cup {None} /\ runStop' \in BOOLEAN
           /\ thread' \in [Threads -> ThreadState]
      BY <1>23 DEF LoopEnds, control, TypeOK, Inv
    <3>7. lapsed' \subseteq Tasks /\ overtaken' \subseteq Roles /\ ops' \in 0..MaxOps
      BY <1>23 DEF LoopEnds, ghosts, TypeOK, Inv
    <3> QED BY <3>1, <3>2, <3>3, <3>4, <3>5, <3>6, <3>7 DEF TypeOK
  <2>2. Bindings'
    BY <1>23 DEF Inv, Bindings, table, LoopEnds
  <2>3. Executions'
    BY <1>23 DEF Inv, Executions, table, LoopEnds
  <2>4. Walking'
    <3>1. exec' = exec /\ bound' = bound /\ coord.pc = "loop"
      BY <1>23 DEF LoopEnds, table
    <3>2. coord.calls = {} /\ exec[Loop].pc = "none"
      BY <3>1 DEF Inv, Walking
    <3>3. /\ Down.todo = {} /\ Down.calls = {}
          /\ [coord EXCEPT !.pc = "turn"].todo = coord.todo
          /\ [coord EXCEPT !.pc = "turn"].calls = coord.calls
      BY <1>2 DEF Down, At
    <3>4. coord'.todo \subseteq coord.todo /\ coord'.calls = {}
      BY <1>23, <3>2, <3>3 DEF LoopEnds, RunEnds
    <3> QED BY <3>1, <3>2, <3>4 DEF Inv, Walking
  <2>5. ThreadTasks'
    BY <1>23 DEF Inv, ThreadTasks, table, LoopEnds
  <2>6. RunningAttended'
    BY <1>23 DEF Inv, RunningAttended, table, ghosts, Executing, LoopEnds
  <2>7. EntryAwaited'
    BY <1>23 DEF Inv, EntryAwaited, LoopEnds
  <2>8. FlagPaused'
    BY <1>23 DEF Inv, FlagPaused, control, ghosts, LoopEnds
  <2> QED BY <2>1, <2>2, <2>3, <2>4, <2>5, <2>6, <2>7, <2>8 DEF Inv
<1>24. ASSUME NEW w \in Threads, NEW i \in Roles, StopAsk(w, i) PROVE Inv'
  BY <1>24 DEF Inv, TypeOK, Bindings, Executions, Walking, ThreadTasks, RunningAttended,
     EntryAwaited, FlagPaused, table, ThreadState, Executing, UserStep, FoundTask, StopAsk,
     Flag, Pause
<1>25. ASSUME NEW w \in Threads, StopWrite(w) PROVE Inv'
  <2>1. TypeOK'
    BY <1>25 DEF Inv, TypeOK, work, control, ghosts, TaskStatus, Held, Phase, ThreadState,
       IdleThread, Mark, Phased, StopWrite
  <2>2. Bindings'
    BY <1>25 DEF Inv, TypeOK, Bindings, ThreadTasks, Mark, StopWrite
  <2>3. Executions'
    BY <1>25 DEF Inv, Executions, work, StopWrite
  <2>4. Walking'
    BY <1>25 DEF Inv, Walking, work, StopWrite
  <2>5. ThreadTasks'
    BY <1>25 DEF Inv, TypeOK, ThreadTasks, IdleThread, Mark, StopWrite
  <2>6. RunningAttended'
    BY <1>25 DEF Inv, TypeOK, RunningAttended, work, ghosts, Executing, Mark, StopWrite
  <2>7. EntryAwaited'
    BY <1>25 DEF Inv, EntryAwaited, work, StopWrite
  <2>8. FlagPaused'
    BY <1>25 DEF Inv, FlagPaused, control, ghosts, StopWrite
  <2> QED BY <2>1, <2>2, <2>3, <2>4, <2>5, <2>6, <2>7, <2>8 DEF Inv
<1>26. ASSUME NEW w \in Threads, NEW i \in Roles, FollowLook(w, i) PROVE Inv'
  BY <1>26 DEF Inv, TypeOK, Bindings, Executions, Walking, ThreadTasks, RunningAttended,
     EntryAwaited, FlagPaused, table, work, control, ghosts, ThreadState, Executing,
     UserStep, FoundTask, FollowLook
<1>27. ASSUME NEW w \in Threads, FollowWrite(w) PROVE Inv'
  <2>1. TypeOK'
    BY <1>27 DEF Inv, TypeOK, work, control, ghosts, TaskStatus, Held, Execution,
       ThreadState, Mark, Callers, FollowWrite
  <2>2. Bindings'
    BY <1>27 DEF Inv, TypeOK, Bindings, ThreadTasks, Mark, FollowWrite
  <2>3. Executions'
    BY <1>27 DEF Inv, Executions, work, FollowWrite
  <2>4. Walking'
    BY <1>27 DEF Inv, Walking, work, FollowWrite
  <2>5. ThreadTasks'
    BY <1>27 DEF Inv, TypeOK, ThreadTasks, Mark, FollowWrite
  <2>6. RunningAttended'
    BY <1>27 DEF Inv, TypeOK, RunningAttended, work, ghosts, Executing, Mark, FollowWrite
  <2>7. EntryAwaited'
    BY <1>27 DEF Inv, EntryAwaited, work, FollowWrite
  <2>8. FlagPaused'
    BY <1>27 DEF Inv, FlagPaused, control, ghosts, FollowWrite
  <2> QED BY <2>1, <2>2, <2>3, <2>4, <2>5, <2>6, <2>7, <2>8 DEF Inv
<1>28. ASSUME NEW w \in Threads, FollowRelease(w) PROVE Inv'
  BY <1>28 DEF Inv, TypeOK, Bindings, Executions, Walking, ThreadTasks, RunningAttended,
     EntryAwaited, FlagPaused, table, work, ghosts, Phase, ThreadState, IdleThread,
     Executing, Phased, Releases, FollowRelease, Unpause, PausedInRecord
<1>29. ASSUME NEW w \in Threads, HaltClear(w) PROVE Inv'
  BY <1>29 DEF Inv, TypeOK, Bindings, Executions, Walking, ThreadTasks, RunningAttended,
     EntryAwaited, FlagPaused, table, work, ghosts, ThreadState, Executing, UserStep,
     HaltClear, ClearPauses
<1>30. ASSUME NEW w \in Threads, HaltAsk(w) PROVE Inv'
  <2>1. TypeOK'
    BY <1>30 DEF Inv, TypeOK, Bindings, Executions, Walking, ThreadTasks, RunningAttended,
       EntryAwaited, FlagPaused, table, work, control, ghosts, TaskStatus, Held, Outcome,
       Phase, Execution, Free, Coordinator, ThreadState, IdleThread, Live, Executing, Mark,
       Phased, Callers, Requests, UserStep, HaltAsk
  <2>2. Bindings'
    BY <1>30 DEF Inv, Bindings, table, HaltAsk
  <2>3. Executions'
    BY <1>30 DEF Inv, Executions, table, HaltAsk
  <2>4. Walking'
    BY <1>30 DEF Inv, Walking, table, HaltAsk
  <2>5. ThreadTasks'
    BY <1>30 DEF Inv, ThreadTasks, table, IdleThread, HaltAsk
  <2>6. RunningAttended'
    BY <1>30 DEF Inv, RunningAttended, table, ghosts, Executing, HaltAsk
  <2>7. EntryAwaited'
    BY <1>30 DEF Inv, EntryAwaited, HaltAsk
  <2>8. FlagPaused'
    BY <1>30 DEF Inv, FlagPaused, ghosts, HaltAsk
  <2> QED BY <2>1, <2>2, <2>3, <2>4, <2>5, <2>6, <2>7, <2>8 DEF Inv
<1>31. ASSUME Crash PROVE Inv'
  <2>1. TypeOK'
    <3>1. coord' \in Coordinator
      BY <1>31, CoordinatorTypes DEF Crash, table, work, control, ghosts, TypeOK, Phased,
         Callers, Requests, Inv
    <3>2. phase' \in Phase
      BY <1>31 DEF Crash, TypeOK, Inv
    <3>3. exec' \in [Callers -> Execution]
      BY <1>31 DEF Crash, Execution, Outcome, Free
    <3>4. status' \in [Tasks -> TaskStatus] /\ role' \in [Tasks -> Roles \cup {None}]
           /\ bound' \in [Tasks -> Roles \cup {None}]
      BY <1>31 DEF Crash, table, TypeOK, Inv
    <3>5. entry' \in [Roles -> Callers \cup {None}] /\ doomed' \subseteq Callers
      BY <1>31 DEF Crash
    <3>6. stopFlag' \subseteq Roles /\ paused' \in Roles \cup {None} /\ runStop' \in BOOLEAN
           /\ thread' \in [Threads -> ThreadState]
      BY <1>31 DEF Crash, table, work, control, ghosts, TypeOK, IdleThread, ThreadState,
         UserStep, Phased, Mark, Inv
    <3>7. lapsed' \subseteq Tasks /\ overtaken' \subseteq Roles /\ ops' \in 0..MaxOps
      BY <1>31 DEF Crash, TypeOK, UserStep, Inv
    <3> QED BY <3>1, <3>2, <3>3, <3>4, <3>5, <3>6, <3>7 DEF TypeOK
  <2>2. Bindings'
    BY <1>31 DEF Inv, Bindings, table, Crash
  <2>3. Executions'
    BY <1>31 DEF Executions, Free, Crash
  <2>4. Walking'
    BY <1>31 DEF Walking, Free, Callers, At, Down, Crash
  <2>5. ThreadTasks'
    BY <1>31 DEF ThreadTasks, IdleThread, Crash
  <2>6. RunningAttended'
    BY <1>31 DEF RunningAttended, table, Crash
  <2>7. EntryAwaited'
    BY <1>31 DEF EntryAwaited, Crash
  <2>8. FlagPaused'
    BY <1>31 DEF FlagPaused, Crash
  <2> QED BY <2>1, <2>2, <2>3, <2>4, <2>5, <2>6, <2>7, <2>8 DEF Inv
<1>32. ASSUME Resume PROVE Inv'
  <2>1. TypeOK'
    <3>1. coord' \in Coordinator
      BY <1>32, CoordinatorTypes DEF Resume
    <3>2. phase' \in Phase
      BY <1>32, <1>1, <1>2 DEF Resume
    <3>3. exec' \in [Callers -> Execution]
      BY <1>32 DEF Resume, TypeOK, Inv
    <3>4. status' \in [Tasks -> TaskStatus] /\ role' \in [Tasks -> Roles \cup {None}]
           /\ bound' \in [Tasks -> Roles \cup {None}]
      BY <1>32 DEF Resume, TypeOK, TaskStatus, Held, Inv, Recovered
    <3>5. entry' \in [Roles -> Callers \cup {None}] /\ doomed' \subseteq Callers
      BY <1>32 DEF Resume, TypeOK, Inv
    <3>6. stopFlag' \subseteq Roles /\ paused' \in Roles \cup {None} /\ runStop' \in BOOLEAN
           /\ thread' \in [Threads -> ThreadState]
      BY <1>32 DEF Resume, table, work, control, ghosts, TypeOK, IdleThread, ThreadState,
         UserStep, Phased, Mark, Inv, Recovered
    <3>7. lapsed' \subseteq Tasks /\ overtaken' \subseteq Roles /\ ops' \in 0..MaxOps
      BY <1>32 DEF Resume, TypeOK, UserStep, Inv
    <3> QED BY <3>1, <3>2, <3>3, <3>4, <3>5, <3>6, <3>7 DEF TypeOK
  <2>2. Bindings'
    BY <1>32 DEF Inv, Bindings, Recovered, Resume
  <2>3. Executions'
    BY <1>32 DEF Inv, Executions, Resume
  <2>4. Walking'
    BY <1>32 DEF Inv, Walking, Phased, At, Resume
  <2>5. ThreadTasks'
    BY <1>32 DEF Inv, ThreadTasks, Recovered, Resume
  <2>6. RunningAttended'
    BY <1>32 DEF RunningAttended, Recovered, Resume
  <2>7. EntryAwaited'
    BY <1>32 DEF Inv, EntryAwaited, Resume
  <2>8. FlagPaused'
    BY <1>32 DEF Inv, FlagPaused, Resume
  <2> QED BY <2>1, <2>2, <2>3, <2>4, <2>5, <2>6, <2>7, <2>8 DEF Inv
<1>33. ASSUME UNCHANGED vars PROVE Inv'
  BY <1>33 DEF Inv, TypeOK, Bindings, Executions, Walking, ThreadTasks, RunningAttended,
     EntryAwaited, FlagPaused, table, work, control, ghosts, Executing, vars
<1> QED BY <1>4, <1>5, <1>6, <1>7, <1>8, <1>9, <1>10, <1>11, <1>12, <1>13, <1>14, <1>15,
   <1>16, <1>17, <1>18, <1>19, <1>20, <1>21, <1>22, <1>23, <1>24, <1>25, <1>26, <1>27,
   <1>28, <1>29, <1>30, <1>31, <1>32, <1>33 DEF Next, LoopFree, ExecStep, CoordinatorWalks,
   ThreadStep, UserCalls

\* Every reachable state satisfies the invariant.
THEOREM DelegationInvariant == Spec => []Inv
<1>1. Init => Inv
  <2> SUFFICES ASSUME Init PROVE Inv
    OBVIOUS
  <2> USE NoneAssumption, BoundsAssumption
  <2>1. At("turn", 0) \in Coordinator /\ Down \in Coordinator
    BY CoordinatorTypes
  <2>2. coord \in Coordinator
    BY <2>1 DEF Init, ManualStart
  <2>3. coord.todo = {} /\ coord.calls = {}
    BY DEF Init, At, Down, ManualStart
  <2>4. phase \in Phase
    <3>1. PICK b \in BOOLEAN : phase = [at |-> "other", inst |-> None, rec |-> b]
      <4>1. \/ phase = [at |-> "other", inst |-> None, rec |-> TRUE]
            \/ phase = [at |-> "other", inst |-> None, rec |-> FALSE]
        BY DEF Init, ManualStart
      <4> QED BY <4>1
    <3> QED BY <3>1 DEF Phase
  <2>5. exec \in [Callers -> Execution]
    BY DEF Init, Free, Execution, Outcome, ManualStart
  <2>6. thread \in [Threads -> ThreadState]
    BY DEF Init, IdleThread, ThreadState, ManualStart
  <2>7. TypeOK
    <3>1. ops \in 0..MaxOps
      BY DEF Init, ManualStart
    <3> QED BY <3>1, <2>2, <2>4, <2>5, <2>6 DEF Init, TypeOK, TaskStatus, ManualStart
  <2>8. Bindings
    BY DEF Init, Bindings, ManualStart
  <2>9. Executions
    BY DEF Init, Executions, Free, ManualStart
  <2>10. Walking
    BY <2>3 DEF Init, Walking, Free, Callers, ManualStart
  <2>11. ThreadTasks
    BY DEF Init, ThreadTasks, IdleThread, ManualStart
  <2>12. RunningAttended /\ EntryAwaited /\ FlagPaused
    BY DEF Init, RunningAttended, EntryAwaited, FlagPaused, ManualStart
  <2> QED BY <2>7, <2>8, <2>9, <2>10, <2>11, <2>12 DEF Inv
<1> QED BY <1>1, InvStep, PTL DEF Spec

\* Every variable keeps its type: statuses, bindings, executions, the coordinator and the
\* calls of the pool's threads are always well formed.
THEOREM DelegationTypes == Spec => []TypeOK
<1>1. Inv => TypeOK
  BY DEF Inv
<1> QED BY <1>1, DelegationInvariant, PTL

\* A task that the table shows RUNNING has an execution, or lost it to a crash or a setup
\* error, whatever stops, follow-ups and second dispatches meet it.
THEOREM DelegationAttended == Spec => []RunningAttended
<1>1. Inv => RunningAttended
  BY DEF Inv
<1> QED BY <1>1, DelegationInvariant, PTL

\* An execution works on the instance of its task's first dispatch, even if update_task
\* has changed the role since.
THEOREM DelegationOnBound == Spec => []OnBoundInstance
<1>1. Inv => OnBoundInstance
  BY DEF Inv, Executions, OnBoundInstance, Live
<1> QED BY <1>1, DelegationInvariant, PTL

\* What the registry of instance tasks names is an execution still awaited, on that
\* instance: what stop_subagent cancels belongs to the subagent.
THEOREM DelegationEntries == Spec => []EntryAwaited
<1>1. Inv => EntryAwaited
  BY DEF Inv
<1> QED BY <1>1, DelegationInvariant, PTL

\* No subagent keeps a stop flag without a pause record that a follow-up can release,
\* unless another subagent's pause replaced it.
THEOREM DelegationFlags == Spec => []FlagPaused
<1>1. Inv => FlagPaused
  BY DEF Inv
<1> QED BY <1>1, DelegationInvariant, PTL

\* Only the first dispatch binds: no later dispatch, update, follow-up, recovery or crash
\* moves a task to another instance.
THEOREM DelegationBinding == Spec => BindingKept
<1>1. Inv /\ [Next]_vars => [\A t \in Tasks : bound[t] # None => bound'[t] = bound[t]]_vars
  <2> SUFFICES ASSUME Inv, [Next]_vars, NEW t \in Tasks, bound[t] # None
    PROVE bound'[t] = bound[t]
    OBVIOUS
  <2>1. status[t] # "created" /\ bound \in [Tasks -> Roles \cup {None}]
    BY DEF Inv, TypeOK, Bindings
  <2>2. ASSUME NEW q \in Requests, NEW u \in Tasks, Dispatch(q, u) \/ DispatchRefused(q, u)
        PROVE  bound'[t] = bound[t]
    BY <2>1, <2>2 DEF Dispatch, DispatchRefused, BindOnFirst
  <2>3. CASE UNCHANGED bound
    BY <2>3
  <2>4. ASSUME [Next]_vars,
               \A q \in Requests, u \in Tasks : ~(Dispatch(q, u) \/ DispatchRefused(q, u))
        PROVE  UNCHANGED bound
    BY <2>4 DEF Next, LoopFree, ExecStep, CoordinatorWalks, ThreadStep, UserCalls, vars,
       table, Create, UpdateLook, UpdateWrite, ExecBegins, SetupFails, ExecLost,
       ExecCompletes, ExecFails, ExecCancelled, Return, TurnEnds, TurnFails, TurnCancelled,
       Snapshot, LoopSkips, LoopStarts, LoopReturns, LoopEnds, StopAsk, StopWrite,
       FollowLook, FollowWrite, FollowRelease, HaltClear, HaltAsk, Crash, Resume,
       ClearPauses, Unpause, Flag, Pause, StopAsked, MarkCancelled, Patch
  <2> QED BY <2>2, <2>3, <2>4
<1> QED BY <1>1, DelegationInvariant, PTL DEF Spec, BindingKept


=============================================================================
