--------------------------- MODULE RunEventsProofs ---------------------------
(***************************************************************************)
(* What holds of a run's events for any number of calls, threads, user     *)
(* operations, stops and crashes: the types; that the run_states row is    *)
(* the fold of the log between publishes that did not overlap; that the    *)
(* results are reported when they are stored; and that the state shows     *)
(* what an answer can still reach, and nothing that nobody waits for.      *)
(*                                                                         *)
(* The first two follow the one publish that is under way: once its event  *)
(* is logged the row lacks exactly that event, and once the row has been   *)
(* read what will be written is the fold.  The reports rest on the order   *)
(* in which calls are made and stored.  The last one needs where a ticket  *)
(* is, given the call it is named after, and what each event that is not   *)
(* yet in the log will do to the state when it gets there.                 *)
(***************************************************************************)
EXTENDS RunEvents, FiniteSetTheorems, TLAPS

\* Whoever waits, waits for a ticket; whoever answers, answers a call and publishes nothing.
Bound ==
  /\ \A c \in Calls : call[c] \in Asking => on[c] \in Calls
  /\ \A t \in Threads : thread[t].pc \in {"record", "signal", "check"} => thread[t].call \in Calls
  /\ \A t \in Threads : thread[t].pc \in {"record", "signal", "check", "mark"} => Quiet(t)

OneAtATime == \A p, q \in Procs : p # q => pub[p].at = "todo" \/ pub[q].at = "todo"

Folding ==
  /\ OneAtATime
  /\ (\A p \in Procs : pub[p].at = "todo") => row = folded
  /\ \A p \in Procs : pub[p].at = "logged" => folded = Apply(row, Head(pub[p].todo))
  /\ \A p \in Procs : pub[p].at = "read" => folded = pub[p].next

Inv ==
  /\ TypeOK /\ Bound
  /\ \A p \in Procs : pub[p].at # "todo" => ~Quiet(p)
  /\ ~mixed => Folding

(***************************************************************************)
(* Types of what the operators make.                                       *)
(***************************************************************************)
Stages == {"todo", "logged", "read"}
PubRec == [at : Stages, todo : Seq(Event), next : State]

LEMMA FoldTyped == ASSUME NEW s \in State, NEW e \in Event PROVE Apply(s, e) \in State
<1> DEFINE u == [status |-> StatusAfter(s, e), pending |-> PendingAfter(s, e),
                 subagent |-> SubagentAfter(s, e)]
<1>1. StatusAfter(s, e) \in {"queued", "running", "paused", "stopped"} \cup Final
  BY DEF StatusAfter, State, Event, Final, RunKinds, CallKinds
<1>2. PendingAfter(s, e) \in SUBSET Calls
  BY DEF PendingAfter, State, Event, Final, RunKinds, CallKinds
<1>3. SubagentAfter(s, e) \in BOOLEAN
  BY DEF SubagentAfter, State
<1>4. u \in State
  BY <1>1, <1>2, <1>3 DEF State
<1> HIDE DEF u
<1>5. Normal(u) \in State
  BY <1>4 DEF Normal, State
<1> QED BY <1>5 DEF Apply, u

LEMMA InitialTyped == Initial \in State /\ NoPub \in PubRec /\ Idle \in Thread
<1>1. Initial \in State
  BY DEF Initial, State
<1>2. <<>> \in Seq(Event)
  OBVIOUS
<1>3. NoPub \in PubRec
  BY <1>1, <1>2 DEF NoPub, PubRec, Stages
<1>4. Idle \in Thread
  BY DEF Idle, Thread, ThreadPc, Answers
<1> QED BY <1>1, <1>3, <1>4

LEMMA EventsTyped ==
  /\ \A k \in RunKinds : Ev(k) \in Event
  /\ \A k \in CallKinds, c \in Calls : EvOf(k, c) \in Event
  BY DEF Ev, EvOf, Event

LEMMA SetCallsTyped ==
  ASSUME TypeOK, NEW S, NEW pc \in CallPc
  PROVE  SetCalls(S, pc) \in [Calls -> CallPc]
  BY DEF SetCalls, TypeOK

\* The outcomes of a commit are of calls that the model has made.
LEMMA OutcomesTyped == ASSUME TypeOK PROVE Outcomes \in Seq(Event) /\ Settled \in [Calls -> CallPc]
<1> DEFINE M == {c \in Calls : call[c] # "new"}
           F == In({"called"})
           R == In({"back", "invalid"})
<1>1. IsFiniteSet(Calls) /\ Cardinality(Calls) = NumCalls
  <2>1. Calls = 1..NumCalls /\ NumCalls \in Nat
    BY CallsAssumption DEF Calls
  <2> QED BY <2>1, FS_Interval
<1>2. /\ M \subseteq Calls /\ F \subseteq M /\ R \subseteq M /\ F \cap R = {}
  BY DEF In, TypeOK, CallPc, Asking, Answers
<1>3. IsFiniteSet(M) /\ IsFiniteSet(F) /\ IsFiniteSet(R) /\ IsFiniteSet(F \cup R)
  BY <1>1, <1>2, FS_Subset, FS_Union
<1>4. /\ Cardinality(M) \in Nat /\ Cardinality(F) \in Nat /\ Cardinality(R) \in Nat
      /\ Cardinality(M) <= NumCalls
  BY <1>1, <1>2, <1>3, FS_Subset, FS_CardinalityType
<1>5. Cardinality(F) + Cardinality(R) <= Cardinality(M)
  <2>1. Cardinality(F \cup R) = Cardinality(F) + Cardinality(R) - Cardinality(F \cap R)
    BY <1>3, FS_Union
  <2>2. Cardinality(F \cap R) = 0
    BY <1>2, FS_EmptySet
  <2>3. F \cup R \subseteq M
    BY <1>2
  <2>4. Cardinality(F \cup R) <= Cardinality(M)
    BY <2>3, <1>3, FS_Subset
  <2> QED BY <2>1, <2>2, <2>4, <1>4
<1>6. Made = Cardinality(M) /\ Fresh = Cardinality(F) /\ Ready = Cardinality(R)
  BY DEF Made, Fresh, Ready
<1> HIDE DEF M, F, R
<1>7. \A i \in 1..Ready : Made - Fresh - Ready + i \in Calls
  BY <1>4, <1>5, <1>6, CallsAssumption DEF Calls
<1>8. \A i \in 1..Ready : Outcome(Made - Fresh - Ready + i) \in Event
  BY <1>7, EventsTyped DEF Outcome, CallKinds
<1>9. Outcomes \in Seq(Event)
  BY <1>4, <1>6, <1>8 DEF Outcomes
<1>10. Settled \in [Calls -> CallPc]
  BY DEF Settled, TypeOK, CallPc
<1> QED BY <1>9, <1>10

\* Publishing adds to the own list, and to nothing that is under way.
LEMMA PublishTyped ==
  ASSUME Inv, NEW p \in Procs, NEW es \in Seq(Event), Publish(p, es)
  PROVE  /\ pub' \in [Procs -> PubRec]
         /\ \A q \in Procs : q # p => pub'[q] = pub[q]
         /\ \A q \in Procs : pub'[q].at = pub[q].at /\ pub'[q].next = pub[q].next
         /\ pub'[p].todo = es
<1>1. pub \in [Procs -> PubRec]
  BY DEF Inv, TypeOK, PubRec, Stages
<1>2. pub[p] \in PubRec
  BY <1>1
<1>3. [pub[p] EXCEPT !.todo = es] \in PubRec
  BY <1>2 DEF PubRec
<1>4. pub' = [pub EXCEPT ![p] = [pub[p] EXCEPT !.todo = es]]
  BY DEF Publish
<1>5. [pub[p] EXCEPT !.todo = es].at = pub[p].at /\ [pub[p] EXCEPT !.todo = es].next = pub[p].next
      /\ [pub[p] EXCEPT !.todo = es].todo = es
  BY <1>2 DEF PubRec
<1> QED BY <1>1, <1>3, <1>4, <1>5

(***************************************************************************)
(* Steps that publish, and steps that leave the lists alone.               *)
(***************************************************************************)
\* The types of what is neither published nor folded.
Others ==
  /\ runtime \in {"queued", "running", "paused", "stopped"} \cup Final
  /\ running \in BOOLEAN /\ stopping \in BOOLEAN
  /\ worker \in {"off", "model", "tools", "commit", "final", "over"}
  /\ call \in [Calls -> CallPc] /\ on \in [Calls -> Calls \cup {0}]
  /\ ticket \in [Calls -> {"absent", "requested", "approved", "denied", "timed_out", "completed"}]
  /\ entry \in [Calls -> {"none", "open"} \cup Answers]
  /\ thread \in [Threads -> Thread]
  /\ cutOff \subseteq Calls
  /\ ops \in 0..MaxOps /\ cuts \in 0..MaxCuts

LEMMA Silent ==
  ASSUME Inv, UNCHANGED <<pub, states>>, Others', Bound'
  PROVE  Inv'
<1>1. TypeOK'
  BY DEF Inv, TypeOK, Others, states
<1>2. (\A p \in Procs : pub[p].at # "todo" => ~Quiet(p))'
  BY DEF Inv, Quiet
<1>3. pub' = pub /\ folded' = folded /\ row' = row /\ mixed' = mixed
  BY DEF states
<1>4. ASSUME ~mixed' PROVE Folding'
  <2>1. Folding
    BY <1>3, <1>4 DEF Inv
  <2>2. OneAtATime' /\ ((\A p \in Procs : pub[p].at = "todo") => row = folded)'
        /\ (\A p \in Procs : pub[p].at = "read" => folded = pub[p].next)'
    BY <2>1, <1>3 DEF Folding, OneAtATime
  <2>3. \A p \in Procs : pub'[p].at = "logged" => folded' = Apply(row', Head(pub'[p].todo))
    BY <2>1, <1>3 DEF Folding
  <2>4. (\A p \in Procs : pub[p].at = "logged" => folded = Apply(row, Head(pub[p].todo)))'
    BY <2>3 DEF Apply, Ignores, Normal, StatusAfter, PendingAfter, SubagentAfter
  <2> QED BY <2>2, <2>4 DEF Folding
<1> QED BY <1>1, <1>2, <1>4 DEF Inv

LEMMA Publishes ==
  ASSUME Inv, UNCHANGED states, NEW p \in Procs, NEW es \in Seq(Event), Quiet(p), Publish(p, es),
         Others', Bound'
  PROVE  Inv'
<1>1. /\ \A q \in Procs : q # p => pub'[q] = pub[q]
      /\ \A q \in Procs : pub'[q].at = pub[q].at /\ pub'[q].next = pub[q].next
      /\ pub' \in [Procs -> PubRec]
  BY PublishTyped
<1>2. pub[p].at = "todo"
  BY DEF Inv
<1>3. \A q \in Procs : pub'[q].at # "todo" => pub'[q].todo = pub[q].todo
  BY <1>1, <1>2
<1>4. folded' = folded /\ row' = row /\ mixed' = mixed /\ reported' = reported
  BY DEF states
<1>5. ASSUME ~mixed' PROVE Folding'
  <2>1. Folding
    BY <1>4, <1>5 DEF Inv
  <2>2. OneAtATime'
    BY <2>1, <1>1 DEF Folding, OneAtATime
  <2>3. ((\A q \in Procs : pub[q].at = "todo") => row = folded)'
    BY <2>1, <1>1, <1>4 DEF Folding
  <2>4. ASSUME NEW q \in Procs, pub'[q].at = "logged"
        PROVE  folded' = Apply(row', Head(pub'[q].todo))
    <3>1. pub'[q].todo = pub[q].todo /\ pub[q].at = "logged"
      BY <2>4, <1>1, <1>3
    <3> QED BY <3>1, <2>1, <1>4 DEF Folding
  <2>5. (\A q \in Procs : pub[q].at = "logged" => folded = Apply(row, Head(pub[q].todo)))'
    BY <2>4 DEF Apply, Ignores, Normal, StatusAfter, PendingAfter, SubagentAfter
  <2>6. (\A q \in Procs : pub[q].at = "read" => folded = pub[q].next)'
    BY <2>1, <1>1, <1>4 DEF Folding
  <2> QED BY <2>2, <2>3, <2>5, <2>6 DEF Folding
<1>6. (\A q \in Procs : pub[q].at # "todo" => ~Quiet(q))'
  BY <1>1, <1>2, <1>3 DEF Inv, Quiet
<1>7. TypeOK'
  BY <1>1, <1>4 DEF Inv, TypeOK, Others, PubRec, Stages
<1> QED BY <1>5, <1>6, <1>7 DEF Inv

\* A thread that is not in an answer or a stop may publish, and so may the loop.
LEMMA QuietThreads ==
  ASSUME Inv, NEW p \in Procs, NEW es \in Seq(Event), Publish(p, es),
         NEW t \in Threads, t # p, Quiet(t)
  PROVE  Quiet(t)'
  BY PublishTyped DEF Quiet, Procs

LEMMA LoopPublishes ==
  ASSUME Inv, NEW es \in Seq(Event), LoopFree, Publish(Loop, es), UNCHANGED <<states, thread>>,
         Others', (\A c \in Calls : call[c] \in Asking => on[c] \in Calls)'
  PROVE  Inv'
<1>1. Loop \in Procs /\ \A t \in Threads : t # Loop /\ t \in Procs
  BY LoopAssumption DEF Procs
<1>2. \A t \in Threads : Quiet(t) => Quiet(t)'
  BY <1>1, QuietThreads
<1>3. Bound'
  BY <1>2 DEF Inv, Bound
<1> QED BY <1>1, <1>3, Publishes DEF LoopFree

(***************************************************************************)
(* The worker.                                                             *)
(***************************************************************************)
LEMMA OthersHold == TypeOK => Others
  BY DEF TypeOK, Others

\* A cut takes every call that waits.
LEMMA CutTyped ==
  ASSUME Inv, Cut
  PROVE  /\ call' \in [Calls -> CallPc] /\ on' \in [Calls -> Calls \cup {0}] /\ cutOff' \subseteq Calls
         /\ \A c \in Calls : call'[c] \notin Asking
<1>1. call' \in [Calls -> CallPc]
  BY SetCallsTyped DEF Inv, Cut, CallPc
<1>2. on' \in [Calls -> Calls \cup {0}]
  BY DEF Cut
<1>3. cutOff' \subseteq Calls
  BY DEF Cut, Inv, Bound, TypeOK, In
<1>4. \A c \in Calls : call'[c] \notin Asking
  BY DEF Cut, SetCalls, Unstored, In, Asking
<1> QED BY <1>1, <1>2, <1>3, <1>4

LEMMA WorkerStep ==
  ASSUME Inv, Start \/ Resume \/ Stopped \/ Fails \/ Completes \/ Finalize
  PROVE  Inv'
<1> USE OthersHold, EventsTyped DEF RunKinds, Final
<1>1. CASE Start
  <2>1. Others' /\ Publish(Loop, <<Ev("started"), Ev("step")>>) /\ LoopFree
        /\ UNCHANGED <<states, thread, call, on>>
    BY <1>1 DEF Start, Inv, Others, approvals, bounds
  <2>2. <<Ev("started"), Ev("step")>> \in Seq(Event)
    OBVIOUS
  <2> QED BY <2>1, <2>2, LoopPublishes DEF Inv, Bound
<1>2. CASE Resume
  <2>1. Others' /\ Publish(Loop, <<Ev("resumed"), Ev("step")>>) /\ LoopFree
        /\ UNCHANGED <<states, thread, call, on>>
    BY <1>2 DEF Resume, Inv, Others, approvals, bounds
  <2>2. <<Ev("resumed"), Ev("step")>> \in Seq(Event)
    OBVIOUS
  <2> QED BY <2>1, <2>2, LoopPublishes DEF Inv, Bound
<1>3. CASE Stopped
  <2>1. Others' /\ Publish(Loop, <<Ev("stopped")>>) /\ LoopFree /\ UNCHANGED <<states, thread>>
    BY <1>3, CutTyped DEF Stopped, Ends, Inv, Others, approvals, bounds
  <2>2. <<Ev("stopped")>> \in Seq(Event)
    OBVIOUS
  <2>3. (\A c \in Calls : call[c] \in Asking => on[c] \in Calls)'
    BY <1>3, CutTyped DEF Stopped
  <2> QED BY <2>1, <2>2, <2>3, LoopPublishes
<1>4. CASE Fails
  <2>1. cuts' \in 0..MaxCuts
    BY <1>4, BoundsAssumption DEF Fails, Inv, TypeOK
  <2>2. Others' /\ Publish(Loop, <<Ev("failed")>>) /\ LoopFree /\ UNCHANGED <<states, thread>>
    BY <1>4, <2>1, CutTyped DEF Fails, Ends, Inv, Others, approvals
  <2>3. <<Ev("failed")>> \in Seq(Event)
    OBVIOUS
  <2>4. (\A c \in Calls : call[c] \in Asking => on[c] \in Calls)'
    BY <1>4, CutTyped DEF Fails
  <2> QED BY <2>2, <2>3, <2>4, LoopPublishes
<1>5. CASE Completes
  <2>1. Others' /\ Publish(Loop, <<Ev("completed")>>) /\ LoopFree
        /\ UNCHANGED <<states, thread, call, on>>
    BY <1>5 DEF Completes, Ends, Inv, Others, approvals, bounds
  <2>2. <<Ev("completed")>> \in Seq(Event)
    OBVIOUS
  <2> QED BY <2>1, <2>2, LoopPublishes DEF Inv, Bound
<1>6. CASE Finalize
  <2>1. Others' /\ UNCHANGED <<pub, states, thread, call, on>>
    BY <1>6 DEF Finalize, Inv, Others, approvals, bounds
  <2> QED BY <2>1, Silent DEF Inv, Bound, Quiet
<1> QED BY <1>1, <1>2, <1>3, <1>4, <1>5, <1>6

LEMMA ModelStep ==
  ASSUME Inv, (\E n \in 1..NumCalls : Reply(n)) \/ Commit \/ LastReply \/ NextRequest
  PROVE  Inv'
<1> USE OthersHold
<1>1. ASSUME NEW n \in 1..NumCalls, Reply(n) PROVE Inv'
  <2> DEFINE es == [i \in 1..n |-> EvOf("call", Made + i)]
             S == Made + 1 .. Made + n
  <2>1. Made \in Nat
    <3>1. IsFiniteSet(Calls)
      BY CallsAssumption, FS_Interval DEF Calls
    <3>2. IsFiniteSet({c \in Calls : call[c] # "new"})
      BY <3>1, FS_Subset
    <3> QED BY <3>2, FS_CardinalityType DEF Made
  <2>2. n \in Nat /\ Made + n <= NumCalls
    BY <1>1 DEF Reply
  <2>3. \A i \in 1..n : Made + i \in Calls
    BY <2>1, <2>2, CallsAssumption DEF Calls
  <2>4. \A i \in 1..n : EvOf("call", Made + i) \in Event
    BY <2>3, EventsTyped DEF CallKinds
  <2>5. es \in Seq(Event)
    BY <2>2, <2>4
  <2>6. call' = SetCalls(S, "called") /\ Publish(Loop, es) /\ LoopFree
        /\ UNCHANGED <<states, thread, on>>
    BY <1>1 DEF Reply
  <2> HIDE DEF es, S
  <2>7. call' \in [Calls -> CallPc]
    BY <2>6, SetCallsTyped DEF Inv, CallPc
  <2>8. Others'
    BY <1>1, <2>7 DEF Reply, run, Inv, Others, approvals, bounds
  <2>9. (\A c \in Calls : call[c] \in Asking => on[c] \in Calls)'
    BY <2>6 DEF SetCalls, Inv, Bound, Asking
  <2> QED BY <2>5, <2>6, <2>8, <2>9, LoopPublishes
<1>2. (\A c \in Calls : call[c] \in Asking => on[c] \in Calls)
      /\ \A c \in Calls : Settled[c] \in Asking => call[c] \in Asking
  BY DEF Inv, Bound, Settled, Asking
<1>3. CASE Commit
  <2>1. Others' /\ Publish(Loop, Outcomes) /\ LoopFree /\ UNCHANGED <<states, thread>>
    BY <1>3, OutcomesTyped DEF Commit, run, Inv, Others, approvals, bounds
  <2>2. (\A c \in Calls : call[c] \in Asking => on[c] \in Calls)'
    BY <1>2, <1>3 DEF Commit
  <2> QED BY <2>1, <2>2, OutcomesTyped, LoopPublishes DEF Inv
<1>4. CASE LastReply
  <2>1. Others' /\ LoopFree /\ UNCHANGED <<states, thread>>
    BY <1>4, OutcomesTyped DEF LastReply, run, Inv, Others, approvals, bounds
  <2>2. (\A c \in Calls : call[c] \in Asking => on[c] \in Calls)'
    BY <1>2, <1>4 DEF LastReply
  <2>3. Outcomes \in Seq(Event) /\ Ev("step") \in Event
    BY OutcomesTyped, EventsTyped DEF Inv, RunKinds
  <2> DEFINE es == Outcomes \o <<Ev("step")>>
  <2>4. es \in Seq(Event)
    BY <2>3
  <2>5. Publish(Loop, es)
    BY <1>4 DEF LastReply
  <2> HIDE DEF es
  <2> QED BY <2>1, <2>2, <2>4, <2>5, LoopPublishes
<1>5. CASE NextRequest
  <2>1. Others' /\ UNCHANGED <<pub, states, thread, call, on>>
    BY <1>5 DEF NextRequest, run, Inv, Others, approvals, bounds
  <2> QED BY <2>1, Silent DEF Inv, Bound, Quiet
<1> QED BY <1>1, <1>3, <1>4, <1>5

(***************************************************************************)
(* The tool calls.                                                         *)
(***************************************************************************)
LEMMA ToolStep ==
  ASSUME Inv, NEW c \in Calls, CallStep(c) \/ Refused(c) \/ TimesOut(c)
  PROVE  Inv'
<1> USE OthersHold
<1>1. CASE EnterFree(c) \/ Refused(c)
  <2>1. call' \in [Calls -> CallPc]
    BY <1>1, SetCallsTyped DEF EnterFree, Refused, Inv, CallPc
  <2>2. Others' /\ UNCHANGED <<pub, states, thread, on>>
    BY <1>1, <2>1 DEF EnterFree, Refused, run, Inv, Others, approvals, bounds
  <2>3. (\A d \in Calls : call[d] \in Asking => on[d] \in Calls)'
    BY <1>1, <2>2 DEF EnterFree, Refused, SetCalls, Inv, Bound, Asking
  <2> QED BY <2>2, <2>3, Silent DEF Inv, Bound, Quiet
<1>2. CASE EnterApproved(c)
  <2>1. call' \in [Calls -> CallPc] /\ call' = SetCalls({c}, "acts")
    BY <1>2, SetCallsTyped DEF EnterApproved, Inv, CallPc
  <2>2. PICK k \in Calls : on' = [on EXCEPT ![c] = k]
    BY <1>2 DEF EnterApproved, Tickets
  <2>3. Others' /\ UNCHANGED <<pub, states, thread>>
    BY <1>2, <2>1, <2>2 DEF EnterApproved, Inv, Others, approvals, bounds
  <2>4. (\A d \in Calls : call[d] \in Asking => on[d] \in Calls)'
    BY <2>1, <2>2 DEF SetCalls, Inv, TypeOK, Bound, Asking
  <2> QED BY <2>3, <2>4, Silent DEF Inv, Bound, Quiet
<1>3. CASE EnterWaiting(c)
  <2>1. PICK k \in Calls :
          /\ ticket' = [ticket EXCEPT ![k] = "requested"]
          /\ entry' = [entry EXCEPT ![k] = IF @ = "none" THEN "open" ELSE @]
          /\ on' = [on EXCEPT ![c] = k]
          /\ call' = SetCalls({c}, IF entry[k] \in Answers THEN entry[k] ELSE "waits")
          /\ Publish(Loop, IF entry[k] = "none" THEN <<EvOf("requested", k)>> ELSE <<>>)
    BY <1>3 DEF EnterWaiting, Tickets
  <2>2. (IF entry[k] \in Answers THEN entry[k] ELSE "waits") \in Asking
    BY DEF Answers, Asking
  <2>3. call' \in [Calls -> CallPc]
    BY <2>1, <2>2, SetCallsTyped DEF Inv, CallPc
  <2>4. entry' \in [Calls -> {"none", "open"} \cup Answers]
    BY <2>1 DEF Inv, TypeOK
  <2>5. EvOf("requested", k) \in Event
    BY EventsTyped DEF CallKinds
  <2>6. (IF entry[k] = "none" THEN <<EvOf("requested", k)>> ELSE <<>>) \in Seq(Event)
    BY <2>5
  <2>7. on' \in [Calls -> Calls \cup {0}] /\ ticket' \in
          [Calls -> {"absent", "requested", "approved", "denied", "timed_out", "completed"}]
    BY <2>1 DEF Inv, TypeOK
  <2>8. Others'
    BY <1>3, <2>3, <2>4, <2>7 DEF EnterWaiting, Inv, Others, bounds
  <2>9. (\A d \in Calls : call[d] \in Asking => on[d] \in Calls)'
    BY <2>1 DEF SetCalls, Inv, TypeOK, Bound
  <2>10. LoopFree /\ UNCHANGED <<states, thread>>
    BY <1>3 DEF EnterWaiting, Entering
  <2> QED BY <2>1, <2>6, <2>8, <2>9, <2>10, LoopPublishes
<1>4. CASE Collect(c)
  <2>1. on[c] \in Calls
    BY <1>4 DEF Collect, Inv, Bound
  <2>2. EvOf("resolved", on[c]) \in Event
    BY <2>1, EventsTyped DEF CallKinds
  <2>3. <<EvOf("resolved", on[c])>> \in Seq(Event)
    BY <2>2
  <2>4. call' = SetCalls({c}, IF call[c] = "approve" THEN "acts" ELSE "back")
    BY <1>4 DEF Collect
  <2>5. call' \in [Calls -> CallPc]
    BY <2>4, SetCallsTyped DEF Inv, CallPc
  <2>6. entry' \in [Calls -> {"none", "open"} \cup Answers]
    BY <1>4, <2>1 DEF Collect, Inv, TypeOK
  <2>7. ticket' \in [Calls -> {"absent", "requested", "approved", "denied", "timed_out", "completed"}]
    BY <1>4, <2>1 DEF Collect, Inv, TypeOK, Verdict
  <2>8. Others'
    BY <1>4, <2>5, <2>6, <2>7 DEF Collect, Inv, Others, bounds
  <2>9. (\A d \in Calls : call[d] \in Asking => on[d] \in Calls)'
    BY <1>4, <2>4 DEF Collect, SetCalls, Inv, Bound, Asking
  <2>10. LoopFree /\ UNCHANGED <<states, thread>> /\ Publish(Loop, <<EvOf("resolved", on[c])>>)
    BY <1>4 DEF Collect
  <2> QED BY <2>3, <2>8, <2>9, <2>10, LoopPublishes
<1>5. CASE ActionEnds(c)
  <2>1. call' = SetCalls({c}, "back")
    BY <1>5 DEF ActionEnds
  <2>2. call' \in [Calls -> CallPc]
    BY <2>1, SetCallsTyped DEF Inv, CallPc
  <2>3. ticket' \in [Calls -> {"absent", "requested", "approved", "denied", "timed_out", "completed"}]
    BY <1>5 DEF ActionEnds, Inv, TypeOK
  <2>4. Others' /\ UNCHANGED <<pub, states, thread, on>>
    BY <1>5, <2>2, <2>3 DEF ActionEnds, run, Inv, Others, bounds
  <2>5. (\A d \in Calls : call[d] \in Asking => on[d] \in Calls)'
    BY <2>1, <2>4 DEF SetCalls, Inv, Bound, Asking
  <2> QED BY <2>4, <2>5, Silent DEF Inv, Bound, Quiet
<1>6. CASE TimesOut(c)
  <2>1. call' = SetCalls({c}, "expired") /\ call[c] = "waits"
    BY <1>6 DEF TimesOut
  <2>2. call' \in [Calls -> CallPc]
    BY <2>1, SetCallsTyped DEF Inv, CallPc, Asking
  <2>3. Others' /\ UNCHANGED <<pub, states, thread, on>>
    BY <1>6, <2>2 DEF TimesOut, run, Inv, Others, approvals, bounds
  <2>4. (\A d \in Calls : call[d] \in Asking => on[d] \in Calls)'
    BY <2>1, <2>3 DEF SetCalls, Inv, Bound, Asking
  <2> QED BY <2>3, <2>4, Silent DEF Inv, Bound, Quiet
<1> QED BY <1>1, <1>2, <1>3, <1>4, <1>5, <1>6 DEF CallStep

(***************************************************************************)
(* The handlers.                                                           *)
(***************************************************************************)
LEMMA OpsTyped ==
  ASSUME Inv, NEW op, UserStep(op)
  PROVE  ops' \in 0..MaxOps
  BY BoundsAssumption DEF UserStep, Inv, TypeOK

LEMMA AnswerStep ==
  ASSUME Inv, NEW t \in Threads,
         (\E k \in Calls, a \in Answers : AnswerLooks(t, k, a)) \/ Answering(t)
  PROVE  Inv'
<1> USE OthersHold
<1>1. thread \in [Threads -> Thread] /\ t \in Procs
  BY DEF Inv, TypeOK, Procs
<1>2. ASSUME NEW k \in Calls, NEW a \in Answers, AnswerLooks(t, k, a) PROVE Inv'
  <2> DEFINE x == [pc |-> "record", call |-> k, action |-> a, found |-> entry[k] # "none"]
  <2>1. x \in Thread /\ x.call \in Calls
    BY DEF Thread, ThreadPc
  <2>2. thread' = [thread EXCEPT ![t] = x] /\ Quiet(t)
    BY <1>2 DEF AnswerLooks, Free
  <2> HIDE DEF x
  <2>3. thread' \in [Threads -> Thread]
    BY <1>1, <2>1, <2>2
  <2>4. ops' \in 0..MaxOps
    BY <1>2, OpsTyped DEF AnswerLooks
  <2>5. Others' /\ UNCHANGED <<pub, states, call, on>>
    BY <1>2, <2>3, <2>4 DEF AnswerLooks, run, agent, approvals, Inv, Others
  <2>6. Bound'
    BY <1>1, <2>1, <2>2, <2>5 DEF Inv, Bound, Quiet
  <2> QED BY <2>5, <2>6, Silent
<1>3. CASE AnswerRecords(t)
  <2>1. thread' = [thread EXCEPT ![t].pc = IF thread[t].found THEN "signal" ELSE "check"]
        /\ thread[t].pc = "record"
    BY <1>3 DEF AnswerRecords, Goes
  <2>2. thread' \in [Threads -> Thread]
    BY <1>1, <2>1 DEF Thread, ThreadPc
  <2>3. thread[t].call \in Calls /\ Verdict(thread[t].action) \in {"approved", "denied", "timed_out"}
    BY <2>1 DEF Inv, Bound, Verdict
  <2>4. ticket' \in [Calls -> {"absent", "requested", "approved", "denied", "timed_out", "completed"}]
    BY <1>3, <2>3 DEF AnswerRecords, Inv, TypeOK
  <2>5. Others' /\ UNCHANGED <<pub, states, call, on>>
    BY <1>3, <2>2, <2>4 DEF AnswerRecords, run, agent, Inv, Others, bounds
  <2>6. Bound'
    BY <1>1, <2>1, <2>5 DEF Inv, Bound, Quiet, Thread
  <2> QED BY <2>5, <2>6, Silent
<1>4. CASE AnswerSignals(t)
  <2>1. thread[t].pc = "signal" /\ thread[t].call \in Calls
    BY <1>4 DEF AnswerSignals, Inv, Bound
  <2>2. thread[t].action \in Answers
    BY <1>1 DEF Thread
  <2>3. CASE entry[thread[t].call] = "none"
    <3>1. thread' = [thread EXCEPT ![t] = Idle] /\ UNCHANGED <<entry, call>>
      BY <1>4, <2>3 DEF AnswerSignals
    <3>2. thread' \in [Threads -> Thread]
      BY <1>1, <3>1, InitialTyped
    <3>3. Others' /\ UNCHANGED <<pub, states, call, on>>
      BY <1>4, <3>1, <3>2 DEF AnswerSignals, run, Inv, Others, bounds
    <3>4. Bound'
      BY <1>1, <3>1, <3>3 DEF Inv, Bound, Quiet, Idle
    <3> QED BY <3>3, <3>4, Silent
  <2>4. CASE entry[thread[t].call] # "none"
    <3> DEFINE k == thread[t].call
               S == {c \in In({"waits"}) : on[c] = k}
    <3>1. /\ thread' = [thread EXCEPT ![t].pc = "check"]
          /\ entry' = [entry EXCEPT ![k] = thread[t].action]
          /\ call' = SetCalls(S, thread[t].action)
      BY <1>4, <2>4 DEF AnswerSignals, Goes
    <3>2. thread' \in [Threads -> Thread]
      BY <1>1, <3>1 DEF Thread, ThreadPc
    <3>3. entry' \in [Calls -> {"none", "open"} \cup Answers]
      BY <2>1, <2>2, <3>1 DEF Inv, TypeOK
    <3>4. thread[t].action \in CallPc
      BY <2>2 DEF CallPc, Asking, Answers
    <3>5. \A c \in Calls : call'[c] \in Asking => call[c] \in Asking
      BY <3>1 DEF SetCalls, In, Asking
    <3> HIDE DEF S
    <3>6. call' \in [Calls -> CallPc]
      BY <3>1, <3>4, SetCallsTyped DEF Inv
    <3>7. Others' /\ UNCHANGED <<pub, states, on>>
      BY <1>4, <3>2, <3>3, <3>6 DEF AnswerSignals, run, Inv, Others, bounds
    <3>8. Bound'
      BY <1>1, <2>1, <3>1, <3>5, <3>7 DEF Inv, Bound, Quiet, Thread
    <3> QED BY <3>7, <3>8, Silent
  <2> QED BY <2>3, <2>4
<1>5. CASE AnswerChecks(t)
  <2>1. thread[t].pc = "check" /\ thread[t].call \in Calls /\ Quiet(t)
        /\ thread' = [thread EXCEPT ![t] = Idle]
    BY <1>5 DEF AnswerChecks, Inv, Bound
  <2>2. thread' \in [Threads -> Thread]
    BY <1>1, <2>1, InitialTyped
  <2>3. Others' /\ UNCHANGED <<states, call, on>>
    BY <1>5, <2>2 DEF AnswerChecks, run, agent, approvals, Inv, Others, bounds
  <2>4. CASE running
    <3>1. pub' = pub
      BY <1>5, <2>4 DEF AnswerChecks
    <3>2. Bound'
      BY <1>1, <2>1, <2>3, <3>1 DEF Inv, Bound, Quiet, Idle
    <3> QED BY <2>3, <3>1, <3>2, Silent
  <2>5. CASE ~running
    <3> DEFINE es == <<EvOf("resolved", thread[t].call)>>
    <3>1. EvOf("resolved", thread[t].call) \in Event
      BY <2>1, EventsTyped DEF CallKinds
    <3>2. es \in Seq(Event) /\ Publish(t, es)
      BY <1>5, <2>5, <3>1 DEF AnswerChecks
    <3> HIDE DEF es
    <3>3. \A u \in Threads : u # t /\ Quiet(u) => Quiet(u)'
      BY <1>1, <3>2, QuietThreads
    <3>4. Bound'
      BY <1>1, <2>1, <2>3, <3>3 DEF Inv, Bound, Idle
    <3> QED BY <1>1, <2>1, <2>3, <3>2, <3>4, Publishes
  <2> QED BY <2>4, <2>5
<1> QED BY <1>2, <1>3, <1>4, <1>5 DEF Answering

LEMMA StopStep ==
  ASSUME Inv, NEW t \in Threads,
         \/ StopRequested(t) \/ StopMarks(t) \/ StopPending(t)
         \/ StopSubagent(t) \/ PauseMarks(t) \/ ResumeSubagent(t)
  PROVE  Inv'
<1> USE OthersHold
<1>1. thread \in [Threads -> Thread] /\ t \in Procs
  BY DEF Inv, TypeOK, Procs
<1>2. \A pc \in ThreadPc : [thread EXCEPT ![t].pc = pc] \in [Threads -> Thread]
  BY <1>1 DEF Thread
<1>3. CASE StopRequested(t)
  <2>1. thread' = [thread EXCEPT ![t].pc = "mark"] /\ Quiet(t) /\ thread[t].pc = "idle"
    BY <1>3 DEF StopRequested, Goes, Free
  <2>2. thread' \in [Threads -> Thread]
    BY <1>2, <2>1 DEF ThreadPc
  <2>3. cuts' \in 0..MaxCuts
    BY <1>3, BoundsAssumption DEF StopRequested, Inv, TypeOK
  <2>4. Others' /\ UNCHANGED <<pub, states, call, on>>
    BY <1>3, <2>2, <2>3 DEF StopRequested, agent, approvals, Inv, Others
  <2>5. Bound'
    BY <1>1, <2>1, <2>4 DEF Inv, Bound, Quiet, Thread
  <2> QED BY <2>4, <2>5, Silent
<1>4. CASE StopMarks(t) \/ PauseMarks(t)
  <2>1. thread' = [thread EXCEPT ![t].pc = "idle"]
    BY <1>4 DEF StopMarks, PauseMarks, Goes
  <2>2. thread' \in [Threads -> Thread]
    BY <1>2, <2>1 DEF ThreadPc
  <2>3. Others' /\ UNCHANGED <<pub, states, call, on>>
    BY <1>4, <2>2 DEF StopMarks, PauseMarks, agent, approvals, Inv, Others, bounds
  <2>4. Bound'
    BY <1>1, <2>1, <2>3 DEF Inv, Bound, Quiet, Thread
  <2> QED BY <2>3, <2>4, Silent
<1>5. ASSUME NEW es \in Seq(Event), Free(t), Publish(t, es), UNCHANGED <<states, call, on>>, Others',
             \/ UNCHANGED thread
             \/ thread' = [thread EXCEPT ![t].pc = "pause"]
      PROVE  Inv'
  <2>1. Quiet(t) /\ \A u \in Threads : u # t /\ Quiet(u) => Quiet(u)'
    BY <1>1, <1>5, QuietThreads DEF Free
  <2>2. Bound'
    BY <1>1, <1>5, <2>1 DEF Inv, Bound, Thread, Free
  <2> QED BY <1>1, <1>5, <2>1, <2>2, Publishes
<1>6. \A k \in RunKinds : <<Ev(k)>> \in Seq(Event)
  BY EventsTyped
<1>7. CASE StopPending(t)
  <2>1. ops' \in 0..MaxOps
    BY <1>7, OpsTyped DEF StopPending
  <2>2. Others' /\ UNCHANGED <<states, call, on, thread>> /\ Free(t) /\ Publish(t, <<Ev("stopped")>>)
    BY <1>7, <2>1 DEF StopPending, agent, approvals, Inv, Others
  <2> QED BY <1>5, <1>6, <2>2 DEF RunKinds
<1>8. CASE StopSubagent(t)
  <2>1. ops' \in 0..MaxOps
    BY <1>8, OpsTyped DEF StopSubagent
  <2>2. thread' = [thread EXCEPT ![t].pc = "pause"]
    BY <1>8 DEF StopSubagent, Goes
  <2>3. thread' \in [Threads -> Thread]
    BY <1>2, <2>2 DEF ThreadPc
  <2>4. Others' /\ UNCHANGED <<states, call, on>> /\ Free(t) /\ Publish(t, <<Ev("subagent_stopped")>>)
    BY <1>8, <2>1, <2>3 DEF StopSubagent, run, agent, approvals, Inv, Others
  <2> QED BY <1>5, <1>6, <2>2, <2>4 DEF RunKinds
<1>9. CASE ResumeSubagent(t)
  <2>1. ops' \in 0..MaxOps
    BY <1>9, OpsTyped DEF ResumeSubagent
  <2>2. Others' /\ UNCHANGED <<states, call, on, thread>> /\ Free(t)
        /\ Publish(t, <<Ev("subagent_resumed")>>)
    BY <1>9, <2>1 DEF ResumeSubagent, agent, approvals, Inv, Others
  <2> QED BY <1>5, <1>6, <2>2 DEF RunKinds
<1> QED BY <1>3, <1>4, <1>7, <1>8, <1>9

(***************************************************************************)
(* A publish, and the end of the process.                                  *)
(***************************************************************************)
\* One event is logged, read and written; if nobody else is at it the fold is kept.
LEMMA LogStep == ASSUME Inv, NEW p \in Procs, Log(p) PROVE Inv'
<1> DEFINE e == Head(pub[p].todo)
<1>1. pub \in [Procs -> PubRec] /\ folded \in State /\ reported \subseteq Calls
  BY DEF Inv, TypeOK, PubRec, Stages
<1>2. pub[p].todo \in Seq(Event) /\ pub[p].todo # <<>> /\ pub[p].at = "todo"
  BY <1>1 DEF Log, Quiet, PubRec
<1>3. e \in Event
  BY <1>2
<1>4. pub' = [pub EXCEPT ![p].at = "logged"] /\ folded' = Apply(folded, e) /\ row' = row
  BY DEF Log, FromLog
<1>5. reported' \subseteq Calls
  <2>1. e.type = "result" => e.call \in Calls
    BY <1>3 DEF Event, RunKinds, CallKinds
  <2> QED BY <1>1, <2>1 DEF Log
<1> HIDE DEF e
<1>6. folded' \in State
  BY <1>1, <1>3, <1>4, FoldTyped
<1>7. pub' \in [Procs -> PubRec]
  BY <1>1, <1>4 DEF PubRec, Stages
<1>8. /\ \A q \in Procs : q # p => pub'[q] = pub[q]
      /\ pub'[p].at = "logged" /\ pub'[p].todo = pub[p].todo
  BY <1>1, <1>4 DEF PubRec
<1>9. mixed' \in BOOLEAN
  BY DEF Log, Inv, TypeOK
<1>10. TypeOK'
  <2>1. Others'
    BY OthersHold DEF Log, run, agent, approvals, bounds, Inv, Others
  <2> QED BY <1>5, <1>6, <1>7, <1>9, <2>1 DEF Log, Inv, TypeOK, Others, PubRec, Stages
<1>11. Bound'
  BY <1>8 DEF Log, agent, Inv, Bound, Quiet, Procs
<1>12. (\A q \in Procs : pub[q].at # "todo" => ~Quiet(q))'
  BY <1>2, <1>8 DEF Inv, Quiet
<1>13. ASSUME ~mixed' PROVE Folding'
  <2>1. ~mixed /\ \A q \in Procs : q # p => pub[q].at = "todo"
    BY <1>13 DEF Log
  <2>2. row = folded
    BY <1>2, <2>1 DEF Inv, Folding
  <2>3. \A q \in Procs : q # p => pub'[q].at = "todo"
    BY <1>8, <2>1
  <2>4. OneAtATime' /\ ((\A q \in Procs : pub[q].at = "todo") => row = folded)'
        /\ (\A q \in Procs : pub[q].at = "read" => folded = pub[q].next)'
    BY <1>8, <2>3 DEF OneAtATime
  <2>5. \A q \in Procs : pub'[q].at = "logged" => folded' = Apply(row', Head(pub'[q].todo))
    BY <1>4, <1>8, <2>2, <2>3 DEF e
  <2>6. (\A q \in Procs : pub[q].at = "logged" => folded = Apply(row, Head(pub[q].todo)))'
    BY <2>5 DEF Apply, Ignores, Normal, StatusAfter, PendingAfter, SubagentAfter
  <2> QED BY <2>4, <2>6 DEF Folding
<1> QED BY <1>10, <1>11, <1>12, <1>13 DEF Inv

LEMMA ReadStep == ASSUME Inv, NEW p \in Procs, Read(p) PROVE Inv'
<1> DEFINE e == Head(pub[p].todo)
<1>1. pub \in [Procs -> PubRec] /\ row \in State
  BY DEF Inv, TypeOK, PubRec, Stages
<1>2. pub[p].todo \in Seq(Event) /\ pub[p].todo # <<>> /\ pub[p].at = "logged"
  BY <1>1 DEF Read, Inv, Quiet, PubRec
<1>3. Apply(row, e) \in State
  BY <1>1, <1>2, FoldTyped
<1>4. pub' = [pub EXCEPT ![p].at = "read", ![p].next = Apply(row, e)]
  BY DEF Read, NextOf
<1>5. pub' \in [Procs -> PubRec]
  BY <1>1, <1>3, <1>4 DEF PubRec, Stages
<1>6. /\ \A q \in Procs : q # p => pub'[q] = pub[q]
      /\ pub'[p].at = "read" /\ pub'[p].todo = pub[p].todo /\ pub'[p].next = Apply(row, e)
  BY <1>1, <1>4 DEF PubRec
<1> HIDE DEF e
<1>7. folded' = folded /\ row' = row /\ mixed' = mixed /\ reported' = reported
  BY DEF Read, states
<1>8. TypeOK'
  <2>1. Others'
    BY OthersHold DEF Read, run, agent, approvals, bounds, Inv, Others
  <2> QED BY <1>5, <1>7, <2>1 DEF Inv, TypeOK, Others, PubRec, Stages
<1>9. Bound'
  BY <1>6 DEF Read, agent, Inv, Bound, Quiet, Procs
<1>10. (\A q \in Procs : pub[q].at # "todo" => ~Quiet(q))'
  BY <1>2, <1>6 DEF Inv, Quiet
<1>11. ASSUME ~mixed' PROVE Folding'
  <2>1. Folding
    BY <1>7, <1>11 DEF Inv
  <2>2. \A q \in Procs : q # p => pub'[q].at = "todo"
    BY <1>2, <1>6, <2>1 DEF Folding, OneAtATime
  <2>3. OneAtATime' /\ ((\A q \in Procs : pub[q].at = "todo") => row = folded)'
    BY <1>6, <2>2 DEF OneAtATime
  <2>4. (\A q \in Procs : pub[q].at = "read" => folded = pub[q].next)'
    BY <1>2, <1>6, <1>7, <2>1, <2>2 DEF Folding, e
  <2>5. (\A q \in Procs : pub[q].at = "logged" => folded = Apply(row, Head(pub[q].todo)))'
    BY <1>6, <2>2
  <2> QED BY <2>3, <2>4, <2>5 DEF Folding
<1> QED BY <1>8, <1>9, <1>10, <1>11 DEF Inv

LEMMA WriteStep == ASSUME Inv, NEW p \in Procs, Write(p) PROVE Inv'
<1> DEFINE x == [NoPub EXCEPT !.todo = Tail(pub[p].todo)]
<1>1. pub \in [Procs -> PubRec]
  BY DEF Inv, TypeOK, PubRec, Stages
<1>2. pub[p].todo \in Seq(Event) /\ pub[p].todo # <<>> /\ pub[p].at = "read" /\ pub[p].next \in State
  BY <1>1 DEF Write, Inv, Quiet, PubRec
<1>3. Tail(pub[p].todo) \in Seq(Event)
  BY <1>2
<1>4. x \in PubRec /\ x.at = "todo"
  BY <1>3, InitialTyped DEF NoPub, PubRec, Stages
<1>5. pub' = [pub EXCEPT ![p] = x] /\ row' = pub[p].next
  BY DEF Write
<1> HIDE DEF x
<1>6. pub' \in [Procs -> PubRec] /\ pub'[p].at = "todo" /\ \A q \in Procs : q # p => pub'[q] = pub[q]
  BY <1>1, <1>4, <1>5
<1>7. TypeOK'
  <2>1. Others'
    BY OthersHold DEF Write, run, agent, approvals, bounds, Inv, Others
  <2> QED BY <1>2, <1>5, <1>6, <2>1 DEF Write, Inv, TypeOK, Others, PubRec, Stages
<1>8. \A t \in Threads : Quiet(t) => Quiet(t)'
  BY <1>2, <1>6 DEF Quiet, Procs
<1>9. Bound'
  BY <1>8 DEF Write, agent, Inv, Bound
<1>10. (\A q \in Procs : pub[q].at # "todo" => ~Quiet(q))'
  BY <1>6 DEF Inv, Quiet
<1>11. ASSUME ~mixed' PROVE Folding'
  <2>1. Folding /\ folded' = folded
    BY <1>11 DEF Write, Inv
  <2>2. folded = pub[p].next
    BY <1>2, <2>1 DEF Folding
  <2>3. \A q \in Procs : pub'[q].at = "todo"
    BY <1>2, <1>6, <2>1 DEF Folding, OneAtATime
  <2>4. row' = folded'
    BY <1>5, <2>1, <2>2
  <2>5. OneAtATime' /\ ((\A q \in Procs : pub[q].at = "todo") => row = folded)'
        /\ (\A q \in Procs : pub[q].at = "read" => folded = pub[q].next)'
    BY <2>3, <2>4 DEF OneAtATime
  <2>6. (\A q \in Procs : pub[q].at = "logged" => folded = Apply(row, Head(pub[q].todo)))'
    BY <2>3
  <2> QED BY <2>5, <2>6 DEF Folding
<1> QED BY <1>7, <1>9, <1>10, <1>11 DEF Inv

LEMMA CrashStep == ASSUME Inv, Crash PROVE Inv'
<1>1. call' \in [Calls -> CallPc]
  BY SetCallsTyped DEF Crash, Inv, CallPc
<1>2. \A c \in Calls : call'[c] \notin Asking
  BY DEF Crash, SetCalls, Unstored, In, Asking
<1>3. pub' = [p \in Procs |-> NoPub] /\ pub' \in [Procs -> PubRec]
  BY InitialTyped DEF Crash
<1>4. thread' = [t \in Threads |-> Idle] /\ thread' \in [Threads -> Thread]
  BY InitialTyped DEF Crash
<1>5. cutOff' \subseteq Calls
  <2>1. \A p \in Procs : Untold(p) \subseteq Calls \cup {0}
    <3>1. \A p \in Procs : pub[p].todo \in Seq(Event)
      BY DEF Inv, TypeOK
    <3>2. \A p \in Procs : \A i \in 1..Len(pub[p].todo) : pub[p].todo[i] \in Event
      BY <3>1
    <3>3. \A e \in Event : e.call \in Calls \cup {0}
      BY DEF Event
    <3> QED BY <3>2, <3>3 DEF Untold
  <2>2. {on[c] : c \in In(Asking)} \subseteq Calls \cup {0} /\ cutOff \subseteq Calls
    BY DEF Inv, TypeOK, In
  <2> QED BY <2>1, <2>2 DEF Crash
<1>6. cuts' \in 0..MaxCuts
  BY BoundsAssumption DEF Crash, Inv, TypeOK
<1>7. /\ running' = FALSE /\ stopping' = FALSE /\ worker' = "off" /\ on' = [c \in Calls |-> 0]
      /\ entry' = [c \in Calls |-> "none"] /\ UNCHANGED <<runtime, ticket, folded, row, reported, ops>>
      /\ mixed' = (mixed \/ \E p \in Procs : pub[p].at # "todo")
  BY DEF Crash
<1>8. mixed' \in BOOLEAN
  BY <1>7 DEF Inv, TypeOK
<1>9. TypeOK'
  BY <1>1, <1>3, <1>4, <1>5, <1>6, <1>7, <1>8 DEF Inv, TypeOK, PubRec, Stages
<1>10. Bound'
  BY <1>2, <1>4 DEF Bound, Idle
<1>11. (\A p \in Procs : pub[p].at # "todo" => ~Quiet(p))'
  BY <1>3 DEF NoPub
<1>12. ASSUME ~mixed' PROVE Folding'
  <2>1. (\A p \in Procs : pub[p].at = "todo") /\ Folding
    BY <1>7, <1>12 DEF Inv
  <2>2. row' = folded'
    BY <1>7, <2>1 DEF Folding
  <2> QED BY <1>3, <2>2 DEF Folding, OneAtATime, NoPub
<1> QED BY <1>9, <1>10, <1>11, <1>12 DEF Inv

(***************************************************************************)
(* The theorems.                                                           *)
(***************************************************************************)
LEMMA InitInv == Init => Inv
<1> SUFFICES ASSUME Init PROVE Inv
  OBVIOUS
<1>1. pub \in [Procs -> PubRec] /\ thread \in [Threads -> Thread]
  BY InitialTyped DEF Init
<1>2. folded \in State /\ row \in State
  BY InitialTyped DEF Init
<1>3. ops \in 0..MaxOps /\ cuts \in 0..MaxCuts
  BY BoundsAssumption DEF Init
<1>4. TypeOK
  BY <1>1, <1>2, <1>3 DEF Init, TypeOK, PubRec, Stages, CallPc
<1>5. Bound
  BY DEF Init, Bound, Asking, Answers, Idle
<1>6. \A p \in Procs : pub[p].at = "todo"
  BY DEF Init, NoPub
<1> QED BY <1>4, <1>5, <1>6 DEF Inv, Folding, OneAtATime, Init

LEMMA NextInv == Inv /\ [Next]_vars => Inv'
<1> SUFFICES ASSUME Inv, [Next]_vars PROVE Inv'
  OBVIOUS
<1>1. ASSUME NEW p \in Procs, Publishing(p) PROVE Inv'
  BY <1>1, LogStep, ReadStep, WriteStep DEF Publishing
<1>2. CASE Start \/ Resume \/ Stopped \/ Fails \/ Completes \/ Finalize
  BY <1>2, WorkerStep
<1>3. CASE (\E n \in 1..NumCalls : Reply(n)) \/ Commit \/ LastReply \/ NextRequest
  BY <1>3, ModelStep
<1>4. ASSUME NEW c \in Calls, CallStep(c) \/ Refused(c) \/ TimesOut(c) PROVE Inv'
  BY <1>4, ToolStep
<1>5. ASSUME NEW t \in Threads,
             (\E k \in Calls, a \in Answers : AnswerLooks(t, k, a)) \/ Answering(t)
      PROVE  Inv'
  BY <1>5, AnswerStep
<1>6. ASSUME NEW t \in Threads,
             \/ StopRequested(t) \/ StopMarks(t) \/ StopPending(t)
             \/ StopSubagent(t) \/ PauseMarks(t) \/ ResumeSubagent(t)
      PROVE  Inv'
  BY <1>6, StopStep
<1>7. CASE UNCHANGED vars
  <2>1. Others' /\ UNCHANGED <<pub, states, call, on, thread>>
    BY <1>7, OthersHold DEF vars, run, agent, approvals, bounds, Inv, Others
  <2> QED BY <2>1, Silent DEF Inv, Bound, Quiet
<1> QED BY <1>1, <1>2, <1>3, <1>4, <1>5, <1>6, <1>7, CrashStep DEF Next

\* Type correctness of runs, calls, tickets, handlers and events.
THEOREM EventTypes == Spec => []TypeOK
<1>1. Inv => TypeOK
  BY DEF Inv
<1> QED BY <1>1, InitInv, NextInv, PTL DEF Spec

\* The run_states row is the fold of the run's log whenever nobody publishes, unless two
\* publishes overlapped or the process ended in one (RunEventHub.publish, apply_event).
THEOREM StateFoldsLog == Spec => []RowFolds
<1>1. Inv => RowFolds
  <2> SUFFICES ASSUME Inv, ~mixed, AllQuiet PROVE row = folded
    BY DEF RowFolds
  <2>1. \A p \in Procs : pub[p].at = "todo"
    BY DEF Inv, AllQuiet
  <2> QED BY <2>1 DEF Inv, Folding
<1> QED BY <1>1, InitInv, NextInv, PTL DEF Spec

(***************************************************************************)
(* Results and their reports.  The calls are made in order, and so are they*)
(* stored: those whose outcome is to be stored stand between the ones that *)
(* are over and the ones just asked for, which is where Outcomes looks.    *)
(***************************************************************************)
Open == {"called", "acts", "back", "invalid"} \cup Asking

Order ==
  /\ running <=> worker # "off"
  /\ \A c, d \in Calls : c < d /\ call[d] # "new" => call[c] # "new"
  /\ \A c, d \in Calls : c < d /\ call[c] \in Open => call[d] \in Open \cup {"new"}
  /\ worker \in {"off", "final", "over"} => \A c \in Calls : call[c] \notin Open
  /\ worker = "model" => \A c \in Calls : call[c] \in Open => call[c] \in {"back", "invalid"}
  /\ worker = "commit" =>
       /\ \A c \in Calls : call[c] \in Open => call[c] \in {"back", "invalid", "called"}
       /\ \A c, d \in Calls : c < d /\ call[c] = "called" => call[d] \in {"called", "new"}

\* A set of calls that contains all before any of it is an interval.
LEMMA Prefix ==
  ASSUME NEW S \in SUBSET Calls, \A c, d \in Calls : c < d /\ d \in S => c \in S
  PROVE  Cardinality(S) \in Nat /\ S = 1..Cardinality(S)
<1>1. IsFiniteSet(Calls) /\ Calls \subseteq Nat \ {0}
  BY CallsAssumption, FS_Interval DEF Calls
<1>2. IsFiniteSet(S) /\ Cardinality(S) \in Nat
  BY <1>1, FS_Subset, FS_CardinalityType
<1>3. \A c \in S : c <= Cardinality(S)
  <2> TAKE c \in S
  <2>1. c \in Nat /\ c >= 1
    BY <1>1
  <2>2. 1..c \subseteq S
    BY <2>1, CallsAssumption DEF Calls
  <2>3. Cardinality(1..c) = c
    BY <2>1, FS_Interval
  <2>4. Cardinality(1..c) <= Cardinality(S)
    BY <1>2, <2>2, FS_Subset
  <2> QED BY <2>3, <2>4
<1>4. S \subseteq 1..Cardinality(S)
  BY <1>1, <1>2, <1>3
<1>5. IsFiniteSet(1..Cardinality(S)) /\ Cardinality(1..Cardinality(S)) = Cardinality(S)
  BY <1>2, FS_Interval
<1> QED BY <1>2, <1>4, <1>5, FS_Subset

\* The calls made so far are the first ones.
LEMMA MadeFirst ==
  ASSUME Order
  PROVE  Made \in Nat /\ \A c \in Calls : call[c] # "new" <=> c <= Made
<1> DEFINE M == {c \in Calls : call[c] # "new"}
<1>1. Cardinality(M) \in Nat /\ M = 1..Cardinality(M)
  <2>1. M \in SUBSET Calls /\ \A c, d \in Calls : c < d /\ d \in M => c \in M
    BY DEF Order
  <2> HIDE DEF M
  <2> QED BY <2>1, Prefix
<1>2. Made = Cardinality(M)
  BY DEF Made
<1>3. \A c \in Calls : c \in M <=> c \in 1..Made
  BY <1>1, <1>2
<1>4. Calls \subseteq Nat \ {0}
  BY CallsAssumption DEF Calls
<1> QED BY <1>1, <1>2, <1>3, <1>4

\* The calls whose outcome is ready are the ones that Outcomes counts off.
LEMMA ReadyBetween ==
  ASSUME Inv, Order, worker \in {"model", "commit"}
  PROVE  /\ Ready \in Nat
         /\ \A c \in In({"back", "invalid"}) : \E i \in 1..Ready : c = Made - Fresh - Ready + i
         /\ \A i \in 1..Ready : Made - Fresh - Ready + i \in In({"back", "invalid"})
<1> DEFINE M == {c \in Calls : call[c] # "new"}
           F == In({"called"})
           R == In({"back", "invalid"})
           A == M \ F
           B == A \ R
<1>1. Made = Cardinality(M) /\ Fresh = Cardinality(F) /\ Ready = Cardinality(R)
  BY DEF Made, Fresh, Ready
<1>2. F \subseteq M /\ R \subseteq A /\ M \subseteq Calls /\ F \subseteq Calls /\ R \subseteq Calls
  BY DEF In
<1>3. \A c \in Calls : call[c] \in CallPc
  BY DEF Inv, TypeOK
<1>4. \A c \in Calls : c \in B <=> call[c] \notin Open \cup {"new"}
  BY <1>3 DEF Order, Open, Asking, Answers, In, CallPc
<1>5. \A c \in Calls : c \in A <=> call[c] \notin {"new", "called"}
  BY DEF In
<1>6. \A c, d \in Calls : c < d /\ d \in A => c \in A
  <2> TAKE c, d \in Calls
  <2>1. CASE worker = "commit"
    BY <2>1, <1>5 DEF Order
  <2>2. CASE worker = "model"
    <3>1. call[c] # "called"
      BY <2>2 DEF Order, Open
    <3> QED BY <3>1, <1>5 DEF Order
  <2> QED BY <2>1, <2>2
<1>7. \A c, d \in Calls : c < d /\ d \in B => c \in B
  BY <1>4 DEF Order
<1>8. A \in SUBSET Calls /\ B \in SUBSET Calls
  BY <1>2
<1>9. IsFiniteSet(A) /\ IsFiniteSet(B) /\ IsFiniteSet(F) /\ IsFiniteSet(R) /\ IsFiniteSet(M)
  <2>1. IsFiniteSet(Calls)
    BY CallsAssumption, FS_Interval DEF Calls
  <2> QED BY <2>1, <1>2, <1>8, FS_Subset
<1>10. M = A \cup F /\ A \cap F = {} /\ A = B \cup R /\ B \cap R = {}
  BY <1>2
<1> HIDE DEF M, F, R, A, B
<1>11. /\ Cardinality(A) \in Nat /\ A = 1..Cardinality(A)
       /\ Cardinality(B) \in Nat /\ B = 1..Cardinality(B)
  BY <1>6, <1>7, <1>8, Prefix
<1>12. /\ Cardinality(F) \in Nat /\ Cardinality(R) \in Nat /\ Cardinality({}) = 0
       /\ Cardinality(A) \in Nat /\ Cardinality(B) \in Nat
  BY <1>9, FS_CardinalityType, FS_EmptySet
<1>13. Cardinality(M) = Cardinality(A) + Cardinality(F)
  <2>1. Cardinality(A \cup F) = Cardinality(A) + Cardinality(F) - Cardinality(A \cap F)
    BY <1>9, FS_Union
  <2>2. Cardinality(A \cap F) = 0
    BY <1>10, <1>12
  <2> QED BY <2>1, <2>2, <1>10, <1>12
<1>14. Cardinality(A) = Cardinality(B) + Cardinality(R)
  <2>1. Cardinality(B \cup R) = Cardinality(B) + Cardinality(R) - Cardinality(B \cap R)
    BY <1>9, FS_Union
  <2>2. Cardinality(B \cap R) = 0
    BY <1>10, <1>12
  <2> QED BY <2>1, <2>2, <1>10, <1>12
<1>15. Made - Fresh - Ready = Cardinality(B) /\ Ready \in Nat /\ Ready = Cardinality(A) - Cardinality(B)
  BY <1>1, <1>11, <1>12, <1>13, <1>14
<1>16. \A c : c \in R <=> c \in A /\ c \notin B
  BY <1>10
<1>17. ASSUME NEW c \in R PROVE \E i \in 1..Ready : c = Made - Fresh - Ready + i
  <2>1. c \in Nat /\ c <= Cardinality(A) /\ ~ (c <= Cardinality(B))
    <3>1. c \in 1..Cardinality(A) /\ c \notin 1..Cardinality(B)
      BY <1>11, <1>16
    <3> QED BY <3>1, <1>11
  <2>2. c - Cardinality(B) \in 1..Ready /\ c = Cardinality(B) + (c - Cardinality(B))
    BY <2>1, <1>11, <1>15
  <2> QED BY <2>2, <1>15
<1>18. ASSUME NEW i \in 1..Ready PROVE Made - Fresh - Ready + i \in R
  <2>1. Cardinality(B) + i \in 1..Cardinality(A) /\ Cardinality(B) + i \notin 1..Cardinality(B)
    BY <1>11, <1>15
  <2>2. Cardinality(B) + i \in A /\ Cardinality(B) + i \notin B
    BY <2>1, <1>11
  <2> QED BY <2>2, <1>15, <1>16
<1> QED BY <1>15, <1>17, <1>18 DEF R

\* Steps of calls that stay under way, or go under way from being called, keep the order.
LEMMA CallsKeepOrder ==
  ASSUME Order, UNCHANGED <<worker, running>>,
         \A c \in Calls : \/ call'[c] = call[c]
                          \/ worker = "tools" /\ call[c] \in Open /\ call'[c] \in Open
  PROVE  Order'
<1>1. \A c \in Calls : /\ call'[c] \in Open <=> call[c] \in Open
                       /\ call'[c] = "new" <=> call[c] = "new"
  BY DEF Open, Asking, Answers
<1>2. CASE worker = "tools"
  BY <1>1, <1>2 DEF Order
<1>3. CASE worker # "tools"
  BY <1>3 DEF Order
<1> QED BY <1>2, <1>3

\* Nothing is under way: the order is that of the first calls alone.
LEMMA NothingOpen ==
  ASSUME Order, running' <=> worker' # "off", worker' # "commit",
         \A c \in Calls : call'[c] \notin Open /\ (call'[c] = "new" <=> call[c] = "new")
  PROVE  Order'
BY DEF Order

LEMMA CutOpens ==
  ASSUME TypeOK, Order, call' = SetCalls(Unstored, "cut")
  PROVE  \A c \in Calls : /\ call'[c] \notin Open /\ (call'[c] = "new" <=> call[c] = "new")
                          /\ call'[c] = "stored" <=> call[c] = "stored"
<1> TAKE c \in Calls
<1>1. c \in Unstored <=> call[c] \in Open
  BY DEF Unstored, In, Open
<1>2. call'[c] = IF call[c] \in Open THEN "cut" ELSE call[c]
  BY <1>1 DEF SetCalls
<1>3. "cut" \notin Open /\ "new" \notin Open /\ "stored" \notin Open
  BY DEF Open, Asking, Answers
<1> QED BY <1>2, <1>3

LEMMA OrderOfWorker ==
  ASSUME Inv, Order, Start \/ Resume \/ Stopped \/ Fails \/ Completes \/ Finalize \/ Crash
  PROVE  Order'
<1>1. CASE Start \/ Resume
  <2>1. worker = "off" /\ worker' = "model" /\ running' = TRUE /\ call' = call
    BY <1>1 DEF Start, Resume, Order
  <2>2. \A c \in Calls : call'[c] \notin Open
    BY <2>1 DEF Order
  <2> QED BY <2>1, <2>2, NothingOpen
<1>2. CASE Stopped \/ Fails
  <2>1. worker' = "over" /\ running' = running /\ worker # "off" /\ call' = SetCalls(Unstored, "cut")
    BY <1>2 DEF Stopped, Fails, Ends, Cut
  <2>2. running' <=> worker' # "off"
    BY <2>1 DEF Order
  <2> QED BY <2>1, <2>2, CutOpens, NothingOpen DEF Inv
<1>3. CASE Completes
  <2>1. worker = "final" /\ worker' = "over" /\ UNCHANGED <<running, call>>
    BY <1>3 DEF Completes, Ends
  <2>2. (running' <=> worker' # "off") /\ \A c \in Calls : call'[c] \notin Open
    BY <2>1 DEF Order
  <2> QED BY <2>1, <2>2, NothingOpen
<1>4. CASE Finalize
  <2>1. worker = "over" /\ worker' = "off" /\ running' = FALSE /\ UNCHANGED call
    BY <1>4 DEF Finalize
  <2>2. \A c \in Calls : call'[c] \notin Open
    BY <2>1 DEF Order
  <2> QED BY <2>1, <2>2, NothingOpen
<1>5. CASE Crash
  <2>1. worker' = "off" /\ running' = FALSE /\ call' = SetCalls(Unstored, "cut")
    BY <1>5 DEF Crash
  <2> QED BY <2>1, CutOpens, NothingOpen DEF Inv
<1> QED BY <1>1, <1>2, <1>3, <1>4, <1>5

LEMMA OrderOfModel ==
  ASSUME Inv, Order, (\E n \in 1..NumCalls : Reply(n)) \/ Commit \/ LastReply \/ NextRequest
  PROVE  Order'
<1>0. \A c \in Calls : call[c] \in CallPc
  BY DEF Inv, TypeOK
<1>1. ASSUME NEW n \in 1..NumCalls, Reply(n) PROVE Order'
  <2>1. /\ worker = "model" /\ worker' = "commit" /\ UNCHANGED running
        /\ call' = SetCalls(Made + 1 .. Made + n, "called")
    BY <1>1 DEF Reply, run
  <2>2. /\ Made \in Nat /\ n \in Nat /\ Calls \subseteq Nat
        /\ \A c \in Calls : call[c] # "new" <=> c <= Made
    BY MadeFirst, CallsAssumption DEF Calls
  <2>3. \A c \in Calls : call'[c] = IF c > Made /\ c <= Made + n THEN "called" ELSE call[c]
    BY <2>1, <2>2 DEF SetCalls
  <2>4. \A c \in Calls : call[c] \in Open => call[c] \in {"back", "invalid"}
    BY <2>1 DEF Order
  <2>5. \A c \in Calls : /\ call'[c] # "new" <=> c <= Made + n
                         /\ c <= Made => call'[c] = call[c]
                         /\ c > Made => call'[c] \in {"called", "new"}
    BY <2>2, <2>3
  <2>6. "called" \in Open /\ "new" \notin Open
    BY DEF Open, Asking, Answers
  <2>7. \A c, d \in Calls : c < d /\ call'[d] # "new" => call'[c] # "new"
    BY <2>2, <2>5
  <2>8. \A c, d \in Calls : c < d /\ call'[c] \in Open => call'[d] \in Open \cup {"new"}
    <3> TAKE c, d \in Calls
    <3>1. CASE d > Made
      BY <3>1, <2>5, <2>6
    <3>2. CASE d <= Made /\ c < d
      BY <3>2, <2>2, <2>5 DEF Order
    <3> QED BY <3>1, <3>2, <2>2
  <2>9. \A c \in Calls : call'[c] \in Open => call'[c] \in {"back", "invalid", "called"}
    BY <2>3, <2>4
  <2>10. \A c, d \in Calls : c < d /\ call'[c] = "called" => call'[d] \in {"called", "new"}
    <3> TAKE c, d \in Calls
    <3>1. c <= Made => call'[c] # "called"
      BY <2>4, <2>5, <2>6
    <3> QED BY <3>1, <2>2, <2>5
  <2> QED BY <2>1, <2>7, <2>8, <2>9, <2>10 DEF Order
<1>2. \A c \in Calls : Settled[c] = IF call[c] = "back" THEN "stored"
                                    ELSE IF call[c] = "invalid" THEN "refused" ELSE call[c]
  BY DEF Settled
<1>3. "stored" \notin Open /\ "refused" \notin Open /\ "new" \notin Open
  BY DEF Open, Asking, Answers
<1>4. CASE Commit
  <2>1. worker = "commit" /\ worker' = "tools" /\ UNCHANGED running /\ call' = Settled
    BY <1>4 DEF Commit, run
  <2>2. \A c \in Calls : /\ call'[c] = "new" <=> call[c] = "new"
                         /\ call[c] = "called" => call'[c] = "called"
                         /\ call'[c] \in Open => call[c] = "called"
    BY <2>1, <1>2, <1>3 DEF Order
  <2>3. \A c, d \in Calls : c < d /\ call'[c] \in Open => call'[d] \in {"called", "new"}
    BY <2>1, <2>2 DEF Order
  <2> QED BY <2>1, <2>2, <2>3 DEF Order, Open
<1>5. CASE LastReply
  <2>1. worker = "model" /\ worker' = "final" /\ UNCHANGED running /\ call' = Settled
    BY <1>5 DEF LastReply, run
  <2>2. \A c \in Calls : call'[c] \notin Open /\ (call'[c] = "new" <=> call[c] = "new")
    BY <2>1, <1>2, <1>3 DEF Order
  <2>3. running' <=> worker' # "off"
    BY <2>1 DEF Order
  <2> QED BY <2>1, <2>2, <2>3, NothingOpen
<1>6. CASE NextRequest
  <2>1. worker = "tools" /\ worker' = "model" /\ UNCHANGED <<running, call>>
    BY <1>6 DEF NextRequest, run
  <2>2. \A c \in Calls : call[c] \notin {"called", "acts"} \cup Asking
    BY <1>6 DEF NextRequest, In
  <2>3. \A c \in Calls : call[c] \in Open => call[c] \in {"back", "invalid"}
    BY <2>2 DEF Open
  <2> QED BY <2>1, <2>3 DEF Order
<1> QED BY <1>1, <1>4, <1>5, <1>6

LEMMA OrderOfCalls ==
  ASSUME Inv, Order,
         \/ \E c \in Calls : CallStep(c) \/ Refused(c) \/ TimesOut(c)
         \/ \E t \in Threads : AnswerSignals(t)
  PROVE  Order'
<1>1. \A c \in Calls : call[c] = "waits" => worker = "tools"
  <2> TAKE c \in Calls
  <2>1. "waits" \in Open
    BY DEF Open, Asking
  <2>2. worker \in {"off", "model", "tools", "commit", "final", "over"}
    BY DEF Inv, TypeOK
  <2> QED BY <2>1, <2>2 DEF Order
<1>2. \A S, x : \A c \in Calls : SetCalls(S, x)[c] = IF c \in S THEN x ELSE call[c]
  BY DEF SetCalls
<1>3. ASSUME NEW c \in Calls, CallStep(c) \/ Refused(c) \/ TimesOut(c) PROVE Order'
  <2>1. UNCHANGED <<worker, running>>
    BY <1>3 DEF CallStep, EnterFree, EnterApproved, EnterWaiting, Collect, ActionEnds,
       Refused, TimesOut, run
  <2>2. /\ worker = "tools" /\ call[c] \in Open
        /\ \E x \in Open : call' = SetCalls({c}, x)
    <3>1. CASE EnterFree(c) \/ EnterApproved(c) \/ Refused(c)
      BY <3>1 DEF EnterFree, EnterApproved, Refused, Entering, Open
    <3>2. CASE EnterWaiting(c)
      <4>1. /\ worker = "tools" /\ call[c] = "called"
            /\ \E k \in Tickets("requested") \cup {c} :
                 call' = SetCalls({c}, IF entry[k] \in Answers THEN entry[k] ELSE "waits")
        BY <3>2 DEF EnterWaiting, Entering
      <4> QED BY <4>1 DEF Open, Asking, Answers
    <3>3. CASE Collect(c) \/ ActionEnds(c)
      BY <3>3 DEF Collect, ActionEnds, Open
    <3>4. CASE TimesOut(c)
      BY <3>4, <1>1 DEF TimesOut, Open, Asking
    <3> QED BY <1>3, <3>1, <3>2, <3>3, <3>4 DEF CallStep
  <2>3. \A d \in Calls : \/ call'[d] = call[d]
                         \/ worker = "tools" /\ call[d] \in Open /\ call'[d] \in Open
    BY <2>2, <1>2
  <2> QED BY <2>1, <2>3, CallsKeepOrder
<1>4. ASSUME NEW t \in Threads, AnswerSignals(t) PROVE Order'
  <2>1. UNCHANGED <<worker, running>>
    BY <1>4 DEF AnswerSignals, run
  <2>2. thread[t].action \in Open
    BY DEF Inv, TypeOK, Thread, Open, Asking, Answers
  <2>3. \/ call' = call
        \/ call' = SetCalls({c \in In({"waits"}) : on[c] = thread[t].call}, thread[t].action)
    BY <1>4 DEF AnswerSignals
  <2>4. \A d \in Calls : \/ call'[d] = call[d]
                         \/ worker = "tools" /\ call[d] \in Open /\ call'[d] \in Open
    BY <2>2, <2>3, <1>1, <1>2 DEF In, Open, Asking
  <2> QED BY <2>1, <2>4, CallsKeepOrder
<1> QED BY <1>3, <1>4

LEMMA OrderStep == Inv /\ Order /\ [Next]_vars => Order'
<1> SUFFICES ASSUME Inv, Order, [Next]_vars PROVE Order'
  OBVIOUS
<1>1. ASSUME UNCHANGED <<call, worker, running>> PROVE Order'
  BY <1>1 DEF Order
<1>2. ASSUME NEW p \in Procs, Publishing(p) PROVE Order'
  BY <1>1, <1>2 DEF Publishing, Log, Read, Write, run, agent
<1>3. ASSUME NEW t \in Threads,
             \/ \E k \in Calls, a \in Answers : AnswerLooks(t, k, a)
             \/ AnswerRecords(t) \/ AnswerChecks(t)
             \/ StopRequested(t) \/ StopMarks(t) \/ StopPending(t)
             \/ StopSubagent(t) \/ PauseMarks(t) \/ ResumeSubagent(t)
      PROVE  Order'
  BY <1>1, <1>3 DEF AnswerLooks, AnswerRecords, AnswerChecks, StopRequested, StopMarks,
     StopPending, StopSubagent, PauseMarks, ResumeSubagent, run, agent
<1>4. ASSUME UNCHANGED vars PROVE Order'
  BY <1>1, <1>4 DEF vars, run, agent
<1> QED BY <1>2, <1>3, <1>4, OrderOfWorker, OrderOfModel, OrderOfCalls DEF Next, Answering

(***************************************************************************)
(* What the loop has still to publish of the results that are stored.      *)
(***************************************************************************)
IsResult(e) == e.type = "result"
Told(c) == \E i \in 1..Len(pub[Loop].todo) : pub[Loop].todo[i] = EvOf("result", c)

Reporting ==
  /\ \A p \in Procs : \A i \in 1..Len(pub[p].todo) :
       IsResult(pub[p].todo[i]) => p = Loop /\ call[pub[p].todo[i].call] = "stored"
  /\ \A p \in Procs : pub[p].at # "todo" /\ IsResult(Head(pub[p].todo)) =>
                        Head(pub[p].todo).call \in reported
  /\ \A c \in reported : call[c] = "stored"
  /\ \A c \in Calls : call[c] = "stored" => c \in reported \cup cutOff \/ Told(c)

\* A step that stores no call, and publishes no result, keeps the account of them.
LEMMA NoResults ==
  ASSUME Inv, Reporting, reported' = reported, cutOff \subseteq cutOff',
         \A c \in Calls : call'[c] = "stored" <=> call[c] = "stored",
         NEW p \in Procs, NEW es \in Seq(Event),
         \/ UNCHANGED pub
         \/ Quiet(p) /\ Publish(p, es) /\ \A i \in 1..Len(es) : ~ IsResult(es[i])
  PROVE  Reporting'
<1>1. /\ \A q \in Procs : pub[q] \in PubRec /\ pub[q].todo \in Seq(Event)
      /\ \A q \in Procs : pub[q].at # "todo" => pub[q].todo # <<>>
  BY DEF Inv, TypeOK, PubRec, Stages, Quiet
<1>2. \A q \in Procs : \A i \in 1..Len(pub[q].todo) :
        pub[q].todo[i] \in Event /\ (IsResult(pub[q].todo[i]) => pub[q].todo[i].call \in Calls)
  BY <1>1 DEF Event, RunKinds, CallKinds, IsResult
<1>3. CASE UNCHANGED pub
  BY <1>2, <1>3 DEF Reporting, Told, IsResult, Inv, TypeOK
<1>4. CASE Quiet(p) /\ Publish(p, es) /\ \A i \in 1..Len(es) : ~ IsResult(es[i])
  <2>1. /\ \A q \in Procs : q # p => pub'[q] = pub[q]
        /\ \A q \in Procs : pub'[q].at = pub[q].at
        /\ pub'[p].todo = es
    BY <1>4, PublishTyped
  <2>2. pub[p].todo = <<>> /\ pub[p].at = "todo"
    BY <1>1, <1>4 DEF Quiet
  <2>3. \A q \in Procs : \A i \in 1..Len(pub'[q].todo) :
          IsResult(pub'[q].todo[i]) => q = Loop /\ call'[pub'[q].todo[i].call] = "stored"
    BY <1>2, <1>4, <2>1 DEF Reporting
  <2>4. \A q \in Procs : pub'[q].at # "todo" /\ IsResult(Head(pub'[q].todo)) =>
                           Head(pub'[q].todo).call \in reported'
    BY <2>1, <2>2 DEF Reporting
  <2>5. \A c \in reported' : call'[c] = "stored"
    BY DEF Reporting, Inv, TypeOK
  <2>6. \A c \in Calls : Told(c) => pub'[Loop] = pub[Loop]
    BY <2>1, <2>2 DEF Told, Procs
  <2>7. \A c \in Calls : call'[c] = "stored" =>
          \/ c \in reported' \cup cutOff'
          \/ \E i \in 1..Len(pub'[Loop].todo) : pub'[Loop].todo[i] = EvOf("result", c)
    BY <2>6 DEF Reporting, Told
  <2> QED BY <2>3, <2>4, <2>5, <2>7 DEF Reporting, Told, IsResult, EvOf
<1> QED BY <1>3, <1>4

\* What is ready is stored, and its results are the events of the outcomes.
LEMMA StoresResults ==
  ASSUME Inv, Order, Reporting, Commit \/ LastReply
  PROVE  Reporting'
<1> DEFINE es == IF Commit THEN Outcomes ELSE Outcomes \o <<Ev("step")>>
<1>1. /\ worker \in {"model", "commit"} /\ Quiet(Loop) /\ call' = Settled
      /\ UNCHANGED <<states, cutOff>>
  BY DEF Commit, LastReply, LoopFree
<1>2. Publish(Loop, es)
  BY DEF Commit, LastReply
<1>3. Ready \in Nat /\ Outcomes \in Seq(Event) /\ Len(Outcomes) = Ready
  BY <1>1, ReadyBetween, OutcomesTyped DEF Inv, Outcomes
<1>4. Ev("step") \in Event /\ ~ IsResult(Ev("step"))
  BY EventsTyped DEF RunKinds, Ev, IsResult
<1>5. /\ es \in Seq(Event) /\ Len(es) >= Ready
      /\ \A i \in 1..Ready : es[i] = Outcomes[i]
      /\ \A i \in 1..Len(es) : i \in 1..Ready \/ es[i] = Ev("step")
  BY <1>3, <1>4
<1> HIDE DEF es
<1>6. \A i \in 1..Ready : Outcomes[i] = Outcome(Made - Fresh - Ready + i)
  BY DEF Outcomes
<1>7. \A c \in Calls : call'[c] = "stored" <=> call[c] \in {"stored", "back"}
  BY <1>1 DEF Settled
<1>8. \A i \in 1..Ready :
        IsResult(Outcomes[i]) => Outcomes[i].call \in Calls /\ call[Outcomes[i].call] = "back"
  <2> TAKE i \in 1..Ready
  <2> DEFINE c == Made - Fresh - Ready + i
  <2>1. c \in Calls /\ call[c] \in {"back", "invalid"}
    BY <1>1, ReadyBetween DEF In
  <2>2. Outcomes[i] = Outcome(c)
    BY <1>6
  <2> HIDE DEF c
  <2> QED BY <2>1, <2>2 DEF Outcome, EvOf, IsResult
<1>9. \A c \in Calls : call[c] = "back" => \E i \in 1..Ready : Outcomes[i] = EvOf("result", c)
  <2> TAKE c \in Calls
  <2>1. ASSUME call[c] = "back" PROVE \E i \in 1..Ready : Outcomes[i] = EvOf("result", c)
    <3>1. PICK i \in 1..Ready : c = Made - Fresh - Ready + i
      BY <1>1, <2>1, ReadyBetween DEF In
    <3>2. Outcomes[i] = Outcome(c)
      BY <1>6, <3>1
    <3> QED BY <2>1, <3>2 DEF Outcome
  <2> QED BY <2>1
<1>10. /\ \A q \in Procs : q # Loop => pub'[q] = pub[q]
       /\ \A q \in Procs : pub'[q].at = pub[q].at
       /\ pub'[Loop].todo = es /\ Loop \in Procs
  BY <1>2, <1>5, PublishTyped DEF Procs
<1>11. pub[Loop].todo = <<>> /\ pub[Loop].at = "todo"
  BY <1>1, <1>10 DEF Inv, Quiet
<1>12. \A q \in Procs : \A i \in 1..Len(pub'[q].todo) :
         IsResult(pub'[q].todo[i]) => q = Loop /\ call'[pub'[q].todo[i].call] = "stored"
  BY <1>4, <1>5, <1>7, <1>8, <1>10 DEF Reporting
<1>13. \A q \in Procs : pub'[q].at # "todo" /\ IsResult(Head(pub'[q].todo)) =>
                          Head(pub'[q].todo).call \in reported'
  BY <1>1, <1>10, <1>11 DEF Reporting, states
<1>14. \A c \in reported' : call'[c] = "stored"
  BY <1>1, <1>7 DEF Reporting, states, Inv, TypeOK
<1>15. \A c \in Calls : call'[c] = "stored" =>
         \/ c \in reported' \cup cutOff'
         \/ \E i \in 1..Len(pub'[Loop].todo) : pub'[Loop].todo[i] = EvOf("result", c)
  <2> TAKE c \in Calls
  <2>1. ASSUME call[c] = "back"
        PROVE \E i \in 1..Len(pub'[Loop].todo) : pub'[Loop].todo[i] = EvOf("result", c)
    BY <2>1, <1>3, <1>5, <1>9, <1>10
  <2>2. ~ Told(c)
    BY <1>11 DEF Told
  <2> QED BY <2>1, <2>2, <1>1, <1>7 DEF Reporting, states
<1> QED BY <1>12, <1>13, <1>14, <1>15 DEF Reporting, Told, IsResult, EvOf

\* A publish takes its events one by one; a result is reported when it is logged.
LEMMA PublishReports ==
  ASSUME Inv, Reporting, NEW p \in Procs, Publishing(p)
  PROVE  Reporting'
<1>1. /\ pub \in [Procs -> PubRec] /\ pub[p].todo \in Seq(Event)
      /\ pub[p].at # "todo" => pub[p].todo # <<>>
  BY DEF Inv, TypeOK, PubRec, Stages, Quiet
<1>2. call' = call /\ cutOff' = cutOff
  BY DEF Publishing, Log, Read, Write, agent
<1>3. CASE Log(p)
  <2> DEFINE e == Head(pub[p].todo)
  <2>1. /\ pub' = [pub EXCEPT ![p].at = "logged"] /\ pub[p].todo # <<>>
        /\ reported' = IF e.type = "result" THEN reported \cup {e.call} ELSE reported
    BY <1>3 DEF Log, Quiet
  <2>2. /\ \A q \in Procs : pub'[q].todo = pub[q].todo
        /\ \A q \in Procs : q # p => pub'[q] = pub[q]
    BY <1>1, <2>1 DEF PubRec
  <2>3. e = pub[p].todo[1] /\ 1 \in 1..Len(pub[p].todo)
    BY <1>1, <2>1
  <2>4. IsResult(e) => call[e.call] = "stored"
    BY <2>3 DEF Reporting
  <2>5. \A q \in Procs : \A i \in 1..Len(pub'[q].todo) :
          IsResult(pub'[q].todo[i]) => q = Loop /\ call'[pub'[q].todo[i].call] = "stored"
    BY <1>2, <2>2 DEF Reporting
  <2>6. \A q \in Procs : pub'[q].at # "todo" /\ IsResult(Head(pub'[q].todo)) =>
                           Head(pub'[q].todo).call \in reported'
    <3> TAKE q \in Procs
    <3>1. CASE q = p
      BY <3>1, <2>1, <2>2 DEF IsResult
    <3>2. CASE q # p
      BY <3>2, <2>1, <2>2 DEF Reporting
    <3> QED BY <3>1, <3>2
  <2>7. \A c \in reported' : call'[c] = "stored"
    BY <1>2, <2>1, <2>4 DEF Reporting, IsResult
  <2>8. \A c \in Calls : call'[c] = "stored" =>
          \/ c \in reported' \cup cutOff'
          \/ \E i \in 1..Len(pub'[Loop].todo) : pub'[Loop].todo[i] = EvOf("result", c)
    BY <1>2, <2>1, <2>2 DEF Reporting, Told, Procs
  <2> QED BY <2>5, <2>6, <2>7, <2>8 DEF Reporting, Told, IsResult, EvOf
<1>4. CASE Read(p)
  <2>1. /\ pub' = [pub EXCEPT ![p].at = "read", ![p].next = NextOf(p)]
        /\ pub[p].at = "logged" /\ reported' = reported
    BY <1>4 DEF Read, states
  <2>2. \A q \in Procs : /\ pub'[q].todo = pub[q].todo
                         /\ pub'[q].at # "todo" => pub[q].at # "todo"
    BY <1>1, <2>1 DEF PubRec
  <2>3. \A q \in Procs : \A i \in 1..Len(pub'[q].todo) :
          IsResult(pub'[q].todo[i]) => q = Loop /\ call'[pub'[q].todo[i].call] = "stored"
    BY <1>2, <2>2 DEF Reporting
  <2>4. \A q \in Procs : pub'[q].at # "todo" /\ IsResult(Head(pub'[q].todo)) =>
                           Head(pub'[q].todo).call \in reported'
    <3> TAKE q \in Procs
    <3>1. pub'[q].todo = pub[q].todo /\ (pub'[q].at # "todo" => pub[q].at # "todo")
      BY <2>2
    <3> QED BY <3>1, <2>1 DEF Reporting
  <2>5. \A c \in Calls : call'[c] = "stored" =>
          \/ c \in reported' \cup cutOff'
          \/ \E i \in 1..Len(pub'[Loop].todo) : pub'[Loop].todo[i] = EvOf("result", c)
    BY <1>2, <2>1, <2>2 DEF Reporting, Told, Procs
  <2>6. \A c \in reported' : call'[c] = "stored"
    BY <1>2, <2>1 DEF Reporting
  <2> QED BY <2>3, <2>4, <2>5, <2>6 DEF Reporting, Told, IsResult, EvOf
<1>5. CASE Write(p)
  <2> DEFINE es == Tail(pub[p].todo)
  <2>1. /\ pub' = [pub EXCEPT ![p] = [NoPub EXCEPT !.todo = es]]
        /\ pub[p].at = "read" /\ reported' = reported
    BY <1>5 DEF Write
  <2>2. /\ \A q \in Procs : q # p => pub'[q] = pub[q]
        /\ pub'[p].at = "todo" /\ pub'[p].todo = es
    BY <1>1, <2>1 DEF NoPub
  <2>3. /\ \A i \in 1..Len(es) : i + 1 \in 1..Len(pub[p].todo) /\ es[i] = pub[p].todo[i + 1]
        /\ \A i \in 1..Len(pub[p].todo) :
             \/ pub[p].todo[i] = Head(pub[p].todo)
             \/ i - 1 \in 1..Len(es) /\ es[i - 1] = pub[p].todo[i]
    BY <1>1, <2>1
  <2> HIDE DEF es
  <2>4. \A q \in Procs : \A i \in 1..Len(pub'[q].todo) :
          IsResult(pub'[q].todo[i]) => q = Loop /\ call'[pub'[q].todo[i].call] = "stored"
    <3> TAKE q \in Procs
    <3>1. CASE q = p
      BY <3>1, <1>2, <2>2, <2>3 DEF Reporting
    <3>2. CASE q # p
      BY <3>2, <1>2, <2>2 DEF Reporting
    <3> QED BY <3>1, <3>2
  <2>5. \A q \in Procs : pub'[q].at # "todo" /\ IsResult(Head(pub'[q].todo)) =>
                           Head(pub'[q].todo).call \in reported'
    BY <2>1, <2>2 DEF Reporting
  <2>6. ASSUME NEW c \in Calls, Told(c), Loop = p
        PROVE \/ c \in reported
              \/ \E i \in 1..Len(es) : es[i] = EvOf("result", c)
    <3>1. PICK i \in 1..Len(pub[p].todo) : pub[p].todo[i] = EvOf("result", c)
      BY <2>6 DEF Told
    <3>2. CASE pub[p].todo[i] = Head(pub[p].todo)
      BY <3>1, <3>2, <2>1 DEF Reporting, IsResult, EvOf
    <3>3. CASE i - 1 \in 1..Len(es) /\ es[i - 1] = pub[p].todo[i]
      BY <3>1, <3>3
    <3> QED BY <3>2, <3>3, <2>3
  <2>7. ASSUME NEW c \in Calls, call'[c] = "stored"
        PROVE \/ c \in reported' \cup cutOff'
              \/ \E i \in 1..Len(pub'[Loop].todo) : pub'[Loop].todo[i] = EvOf("result", c)
    <3>1. c \in reported \cup cutOff \/ Told(c)
      BY <1>2, <2>7 DEF Reporting
    <3>2. CASE Loop = p
      BY <3>1, <3>2, <1>2, <2>1, <2>2, <2>6
    <3>3. CASE Loop # p
      BY <3>1, <3>3, <1>2, <2>1, <2>2 DEF Told, Procs
    <3> QED BY <3>2, <3>3
  <2>8. \A c \in reported' : call'[c] = "stored"
    BY <1>2, <2>1 DEF Reporting
  <2> QED BY <2>4, <2>5, <2>7, <2>8 DEF Reporting, Told, IsResult, EvOf
<1> QED BY <1>3, <1>4, <1>5 DEF Publishing

\* The end of the process cuts off what was not told.
LEMMA CrashReports ==
  ASSUME Inv, Order, Reporting, Crash
  PROVE  Reporting'
<1>1. /\ pub' = [p \in Procs |-> NoPub] /\ reported' = reported
      /\ cutOff' = (cutOff \cup {on[c] : c \in In(Asking)} \cup UNION {Untold(p) : p \in Procs}) \ {0}
      /\ call' = SetCalls(Unstored, "cut")
  BY DEF Crash
<1>2. \A c \in Calls : call'[c] = "stored" <=> call[c] = "stored"
  BY <1>1, CutOpens DEF Inv
<1>3. \A p \in Procs : pub'[p].at = "todo" /\ pub'[p].todo = <<>>
  BY <1>1 DEF NoPub
<1>4. Loop \in Procs /\ Calls \subseteq Nat \ {0} /\ cutOff \subseteq Calls
  BY CallsAssumption DEF Procs, Calls, Inv, TypeOK
<1>5. \A c \in Calls : Told(c) => c \in Untold(Loop)
  BY DEF Told, Untold, EvOf
<1>6. \A c \in Calls : c \in cutOff \cup Untold(Loop) => c \in cutOff'
  BY <1>1, <1>4
<1>7. \A c \in Calls : call'[c] = "stored" => c \in reported' \cup cutOff'
  BY <1>1, <1>2, <1>5, <1>6 DEF Reporting
<1>8. \A c \in reported' : call'[c] = "stored"
  BY <1>1, <1>2 DEF Reporting, Inv, TypeOK
<1> QED BY <1>3, <1>7, <1>8 DEF Reporting

LEMMA ReportingStep == Inv /\ Order /\ Reporting /\ [Next]_vars => Reporting'
<1> SUFFICES ASSUME Inv, Order, Reporting, [Next]_vars PROVE Reporting'
  OBVIOUS
<1>1. Loop \in Procs /\ <<>> \in Seq(Event) /\ \A t \in Threads : t \in Procs
  BY DEF Procs
\* Steps that only leave a list alone, or publish one event that is no result.
<1>2. ASSUME UNCHANGED <<pub, call, reported, cutOff>> PROVE Reporting'
  BY <1>1, <1>2, NoResults
<1>3. \A k \in RunKinds : \A i \in 1..Len(<<Ev(k)>>) : ~ IsResult(<<Ev(k)>>[i])
  BY DEF RunKinds, Ev, IsResult
<1>4. \A k \in RunKinds : <<Ev(k)>> \in Seq(Event)
  BY EventsTyped
<1>5. ASSUME NEW k \in RunKinds, NEW p \in Procs, Quiet(p), Publish(p, <<Ev(k)>>),
             reported' = reported, cutOff \subseteq cutOff',
             \A c \in Calls : call'[c] = "stored" <=> call[c] = "stored"
      PROVE  Reporting'
  BY <1>3, <1>4, <1>5, NoResults
<1>6. ASSUME NEW p \in Procs, Publishing(p) PROVE Reporting'
  BY <1>6, PublishReports
<1>7. CASE Start \/ Resume
  <2> DEFINE k == IF Start THEN "started" ELSE "resumed"
             es == <<Ev(k), Ev("step")>>
  <2>1. /\ Quiet(Loop) /\ Publish(Loop, es)
        /\ UNCHANGED <<call, reported, cutOff>>
    BY <1>7 DEF Start, Resume, LoopFree, states
  <2>2. k \in RunKinds /\ "step" \in RunKinds
    BY DEF RunKinds
  <2>3. es \in Seq(Event)
    BY <2>2, EventsTyped
  <2>4. \A i \in 1..Len(es) : ~ IsResult(es[i])
    BY <2>2 DEF RunKinds, Ev, IsResult
  <2> HIDE DEF k, es
  <2> QED BY <1>1, <2>1, <2>3, <2>4, NoResults
<1>8. CASE Stopped \/ Fails
  <2>1. /\ Quiet(Loop)
        /\ Publish(Loop, <<Ev("stopped")>>) \/ Publish(Loop, <<Ev("failed")>>)
        /\ reported' = reported /\ cutOff \subseteq cutOff' /\ call' = SetCalls(Unstored, "cut")
    BY <1>8 DEF Stopped, Fails, Ends, Cut, LoopFree, states
  <2>2. \A c \in Calls : call'[c] = "stored" <=> call[c] = "stored"
    BY <2>1, CutOpens DEF Inv
  <2> QED BY <1>1, <1>5, <2>1, <2>2 DEF RunKinds
<1>9. CASE Completes
  <2>1. Quiet(Loop) /\ Publish(Loop, <<Ev("completed")>>) /\ UNCHANGED <<call, reported, cutOff>>
    BY <1>9 DEF Completes, Ends, LoopFree, states
  <2> QED BY <1>1, <1>5, <2>1 DEF RunKinds
<1>10. CASE Finalize \/ NextRequest
  BY <1>2, <1>10 DEF Finalize, NextRequest, states
<1>11. ASSUME NEW n \in 1..NumCalls, Reply(n) PROVE Reporting'
  <2> DEFINE es == [i \in 1..n |-> EvOf("call", Made + i)]
  <2>1. /\ Quiet(Loop) /\ Publish(Loop, es) /\ UNCHANGED <<reported, cutOff>>
        /\ call' = SetCalls(Made + 1 .. Made + n, "called") /\ Made + n <= NumCalls /\ n \in Nat
    BY <1>11 DEF Reply, LoopFree, states
  <2>2. /\ Made \in Nat /\ Calls \subseteq Nat
        /\ \A c \in Calls : call[c] # "new" <=> c <= Made
    BY MadeFirst, CallsAssumption DEF Calls
  <2>3. \A c \in Calls : call'[c] = "stored" <=> call[c] = "stored"
    BY <2>1, <2>2 DEF SetCalls
  <2>4. \A i \in 1..n : Made + i \in Calls /\ EvOf("call", Made + i) \in Event
    BY <2>1, <2>2, EventsTyped, CallsAssumption DEF Calls, CallKinds
  <2>5. es \in Seq(Event) /\ Len(es) = n
    BY <2>1, <2>4
  <2>6. \A i \in 1..Len(es) : ~ IsResult(es[i])
    BY <2>5 DEF IsResult, EvOf
  <2> HIDE DEF es
  <2> QED BY <1>1, <2>1, <2>3, <2>5, <2>6, NoResults
<1>12. CASE Commit \/ LastReply
  BY <1>12, StoresResults
<1>13. ASSUME NEW c \in Calls, CallStep(c) \/ Refused(c) \/ TimesOut(c) PROVE Reporting'
  <2>1. ASSUME \E x : x # "stored" /\ call' = SetCalls({c}, x), call[c] # "stored"
        PROVE  \A d \in Calls : call'[d] = "stored" <=> call[d] = "stored"
    BY <2>1 DEF SetCalls
  <2>2. CASE EnterFree(c) \/ EnterApproved(c) \/ Refused(c) \/ TimesOut(c) \/ ActionEnds(c)
    <3>1. /\ UNCHANGED <<pub, reported, cutOff>> /\ call[c] # "stored"
          /\ \E x \in {"acts", "invalid", "expired", "back"} : call' = SetCalls({c}, x)
      BY <2>2 DEF EnterFree, EnterApproved, Refused, TimesOut, ActionEnds, Entering, states
    <3>2. \A d \in Calls : call'[d] = "stored" <=> call[d] = "stored"
      BY <2>1, <3>1
    <3> QED BY <1>1, <3>1, <3>2, NoResults
  <2>3. CASE EnterWaiting(c)
    <3>1. PICK k \in Calls :
            /\ call' = SetCalls({c}, IF entry[k] \in Answers THEN entry[k] ELSE "waits")
            /\ Publish(Loop, IF entry[k] = "none" THEN <<EvOf("requested", k)>> ELSE <<>>)
      BY <2>3 DEF EnterWaiting, Tickets
    <3> DEFINE es == IF entry[k] = "none" THEN <<EvOf("requested", k)>> ELSE <<>>
    <3>2. EvOf("requested", k) \in Event
      BY EventsTyped DEF CallKinds
    <3>3. es \in Seq(Event) /\ \A i \in 1..Len(es) : ~ IsResult(es[i])
      BY <3>2 DEF IsResult, EvOf
    <3>4. Quiet(Loop) /\ UNCHANGED <<reported, cutOff>> /\ call[c] # "stored"
      BY <2>3 DEF EnterWaiting, Entering, LoopFree, states
    <3>5. (IF entry[k] \in Answers THEN entry[k] ELSE "waits") # "stored"
      BY DEF Answers
    <3>6. \E x : x # "stored" /\ call' = SetCalls({c}, x)
      BY <3>1, <3>5
    <3>8. \A d \in Calls : call'[d] = "stored" <=> call[d] = "stored"
      BY <2>1, <3>4, <3>6
    <3>7. Publish(Loop, es)
      BY <3>1
    <3> HIDE DEF es
    <3> QED BY <1>1, <3>3, <3>4, <3>7, <3>8, NoResults
  <2>4. CASE Collect(c)
    <3>1. /\ Publish(Loop, <<EvOf("resolved", on[c])>>) /\ Quiet(Loop)
          /\ UNCHANGED <<reported, cutOff>> /\ call[c] \in Asking
          /\ call' = SetCalls({c}, IF call[c] = "approve" THEN "acts" ELSE "back")
      BY <2>4 DEF Collect, LoopFree, states
    <3>2. on[c] \in Calls
      BY <3>1 DEF Inv, Bound
    <3>3. EvOf("resolved", on[c]) \in Event /\ ~ IsResult(EvOf("resolved", on[c]))
      BY <3>2, EventsTyped DEF CallKinds, IsResult, EvOf
    <3>4. \A d \in Calls : call'[d] = "stored" <=> call[d] = "stored"
      BY <2>1, <3>1 DEF Asking
    <3>5. /\ <<EvOf("resolved", on[c])>> \in Seq(Event)
          /\ \A i \in 1..Len(<<EvOf("resolved", on[c])>>) :
               ~ IsResult(<<EvOf("resolved", on[c])>>[i])
      BY <3>3
    <3> QED BY <1>1, <3>1, <3>4, <3>5, NoResults
  <2> QED BY <1>13, <2>2, <2>3, <2>4 DEF CallStep
<1>14. ASSUME NEW t \in Threads,
              (\E k \in Calls, a \in Answers : AnswerLooks(t, k, a)) \/ AnswerRecords(t)
              \/ StopRequested(t) \/ StopMarks(t) \/ PauseMarks(t)
       PROVE  Reporting'
  BY <1>2, <1>14 DEF AnswerLooks, AnswerRecords, StopRequested, StopMarks, PauseMarks,
     agent, states
<1>15. ASSUME NEW t \in Threads, AnswerSignals(t) PROVE Reporting'
  <2>1. UNCHANGED <<pub, reported, cutOff>>
    BY <1>15 DEF AnswerSignals, states
  <2>2. thread[t].action # "stored"
    BY DEF Inv, TypeOK, Thread, Answers
  <2>3. \/ call' = call
        \/ call' = SetCalls({c \in In({"waits"}) : on[c] = thread[t].call}, thread[t].action)
    BY <1>15 DEF AnswerSignals
  <2>4. \A c \in Calls : call'[c] = "stored" <=> call[c] = "stored"
    BY <2>2, <2>3 DEF SetCalls, In
  <2> QED BY <1>1, <2>1, <2>4, NoResults
<1>16. ASSUME NEW t \in Threads, AnswerChecks(t) PROVE Reporting'
  <2>1. thread[t].call \in Calls /\ Quiet(t) /\ UNCHANGED <<call, reported, cutOff>>
    BY <1>16 DEF AnswerChecks, agent, states, Inv, Bound
  <2> DEFINE es == <<EvOf("resolved", thread[t].call)>>
  <2>2. EvOf("resolved", thread[t].call) \in Event
    BY <2>1, EventsTyped DEF CallKinds
  <2>3. es \in Seq(Event) /\ \A i \in 1..Len(es) : ~ IsResult(es[i])
    BY <2>2 DEF IsResult, EvOf
  <2>4. pub' = pub \/ Publish(t, es)
    BY <1>16 DEF AnswerChecks
  <2> HIDE DEF es
  <2> QED BY <1>1, <2>1, <2>3, <2>4, NoResults
<1>17. ASSUME NEW t \in Threads, StopPending(t) \/ StopSubagent(t) \/ ResumeSubagent(t)
       PROVE  Reporting'
  <2>1. /\ Quiet(t) /\ UNCHANGED <<call, reported, cutOff>>
        /\ \E k \in {"stopped", "subagent_stopped", "subagent_resumed"} : Publish(t, <<Ev(k)>>)
    BY <1>17 DEF StopPending, StopSubagent, ResumeSubagent, Free, agent, states
  <2> QED BY <1>1, <1>5, <2>1 DEF RunKinds
<1>18. CASE UNCHANGED vars
  BY <1>2, <1>18 DEF vars, agent, states
<1> QED BY <1>6, <1>7, <1>8, <1>9, <1>10, <1>11, <1>12, <1>13, <1>14, <1>15, <1>16, <1>17,
   <1>18, CrashReports DEF Next, Answering

\* A result is published when it is stored, never before, and all that is stored has been
\* published once the loop is quiet (providers/llm.py), unless the process ended in between.
THEOREM EventsReportResults == Spec => []ResultsReported
<1>1. Init => Order /\ Reporting
  <2> SUFFICES ASSUME Init PROVE Order /\ Reporting
    OBVIOUS
  <2>1. Order
    BY DEF Init, Order, Open, Asking, Answers
  <2>2. Reporting
    BY DEF Init, Reporting, NoPub
  <2> QED BY <2>1, <2>2
<1>2. Inv /\ Reporting => ResultsReported
  <2> SUFFICES ASSUME Inv, Reporting PROVE ResultsReported
    OBVIOUS
  <2>1. reported \subseteq Calls
    BY DEF Inv, TypeOK
  <2>2. Quiet(Loop) => \A c \in Calls : ~ Told(c)
    BY DEF Quiet, Told
  <2> QED BY <2>1, <2>2 DEF Reporting, ResultsReported, In
<1> QED BY <1>1, <1>2, InitInv, NextInv, OrderStep, ReportingStep, PTL DEF Spec

(***************************************************************************)
(* What a run waits for, and what its state shows of it.  A ticket goes    *)
(* from absent to requested and on, and never back; the calls that a ticket*)
(* is named after tell where it is.                                        *)
(***************************************************************************)
Decided(k) == ticket[k] \notin {"absent", "requested"}
Past       == {"acts", "back", "invalid", "stored", "refused"}
Answered   == {"record", "signal", "check"}

TicketOrder ==
  /\ \A k \in Calls : ticket[k] = "absent" => entry[k] = "none"
  /\ \A c \in Calls : call[c] \in {"new", "called"} => ticket[c] = "absent"
  /\ \A c \in Calls : on[c] # 0 => ticket[on[c]] # "absent"
  /\ \A c \in Calls : call[c] \in Past => ticket[c] # "requested" /\ entry[c] # "open"
  /\ \A c \in Calls : call[c] \in Asking /\ on[c] # c => ticket[c] = "absent"
  /\ \A t \in Threads : /\ thread[t].pc \in Answered => ticket[thread[t].call] # "absent"
                        /\ thread[t].pc \in {"signal", "check"} => Decided(thread[t].call)

\* How far a step other than a call's waiting may touch tickets, entries, calls and threads.
LEMMA TicketsKept ==
  ASSUME Inv, TicketOrder,
         \A k \in Calls : \/ ticket'[k] = ticket[k]
                          \/ ticket[k] # "absent" /\ ticket'[k] \notin {"absent", "requested"},
         \A k \in Calls : \/ entry'[k] = entry[k]
                          \/ entry'[k] = "none"
                          \/ entry[k] # "none" /\ entry'[k] # "open",
         \A c \in Calls :
           /\ call'[c] \in {"new", "called"} => call[c] \in {"new", "called"}
           /\ call'[c] \in Asking => call[c] \in Asking /\ on'[c] = on[c]
           /\ call'[c] \in Past => \/ call[c] \in Past \cup {"called"}
                                   \/ ticket'[c] # "requested" /\ entry'[c] # "open"
           /\ on'[c] = on[c] \/ on'[c] = 0 \/ (on'[c] \in Calls /\ ticket[on'[c]] # "absent"),
         \A t \in Threads : thread'[t].pc \in Answered =>
           /\ thread'[t].call \in Calls /\ ticket[thread'[t].call] # "absent"
           /\ thread'[t].pc \in {"signal", "check"} =>
                \/ ticket[thread'[t].call] # "requested"
                \/ ticket'[thread'[t].call] \notin {"absent", "requested"}
  PROVE  TicketOrder'
<1>1. \A k \in Calls : /\ ticket[k] # "absent" => ticket'[k] # "absent"
                       /\ Decided(k) => ticket'[k] \notin {"absent", "requested"}
                       /\ ticket[k] = "absent" => ticket'[k] = "absent"
                       /\ ticket'[k] = "requested" => ticket[k] = "requested"
                       /\ entry'[k] = "open" => entry[k] = "open"
                       /\ entry[k] = "none" => entry'[k] = "none"
  BY DEF Decided
<1>2. \A c \in Calls : on[c] # 0 => on[c] \in Calls
  BY DEF Inv, TypeOK
<1>3. \A k \in Calls : ticket'[k] = "absent" => entry'[k] = "none"
  BY <1>1 DEF TicketOrder
<1>4. \A c \in Calls : call'[c] \in {"new", "called"} => ticket'[c] = "absent"
  BY <1>1 DEF TicketOrder
<1>5. \A c \in Calls : on'[c] # 0 => ticket'[on'[c]] # "absent"
  BY <1>1, <1>2 DEF TicketOrder
<1>6. \A c \in Calls : call'[c] \in Past => ticket'[c] # "requested" /\ entry'[c] # "open"
  BY <1>1 DEF TicketOrder
<1>7. \A c \in Calls : call'[c] \in Asking /\ on'[c] # c => ticket'[c] = "absent"
  BY <1>1 DEF TicketOrder
<1>8. \A t \in Threads :
        /\ thread'[t].pc \in Answered => ticket'[thread'[t].call] # "absent"
        /\ thread'[t].pc \in {"signal", "check"} =>
             ticket'[thread'[t].call] \notin {"absent", "requested"}
  BY <1>1 DEF Answered
<1> QED BY <1>3, <1>4, <1>5, <1>6, <1>7, <1>8 DEF TicketOrder, Decided

\* A step that leaves the answering threads as they are.
LEMMA ThreadsKept ==
  ASSUME Inv, TicketOrder, NEW t \in Threads, thread'[t].pc \in Answered,
         thread'[t] = thread[t]
  PROVE  /\ thread'[t].call \in Calls /\ ticket[thread'[t].call] # "absent"
         /\ thread'[t].pc \in {"signal", "check"} => ticket[thread'[t].call] # "requested"
BY DEF Inv, Bound, TicketOrder, Decided, Answered

LEMMA TicketStep == Inv /\ Order /\ TicketOrder /\ [Next]_vars => TicketOrder'
<1> SUFFICES ASSUME Inv, Order, TicketOrder, [Next]_vars PROVE TicketOrder'
  OBVIOUS
<1> DEFINE SameTickets == UNCHANGED <<ticket, entry>>
           SameThreads == \A t \in Threads : thread'[t].pc \in Answered => thread'[t] = thread[t]
           Moves(c) ==
             /\ call'[c] \in {"new", "called"} => call[c] \in {"new", "called"}
             /\ call'[c] \in Asking => call[c] \in Asking /\ on'[c] = on[c]
             /\ call'[c] \in Past => call[c] \in Past \cup {"called"}
             /\ on'[c] = on[c] \/ on'[c] = 0 \/ (on'[c] \in Calls /\ ticket[on'[c]] # "absent")
<1>0. /\ thread \in [Threads -> Thread] /\ call \in [Calls -> CallPc]
      /\ on \in [Calls -> Calls \cup {0}]
      /\ entry \in [Calls -> {"none", "open"} \cup Answers]
      /\ ticket \in [Calls -> {"absent", "requested", "approved", "denied", "timed_out",
                               "completed"}]
  BY DEF Inv, TypeOK
<1>1. ASSUME SameTickets, SameThreads, \A c \in Calls : Moves(c) PROVE TicketOrder'
  BY <1>1, ThreadsKept, TicketsKept
<1>2. ASSUME SameTickets, SameThreads, UNCHANGED <<call, on>> PROVE TicketOrder'
  BY <1>1, <1>2
<1> HIDE DEF Moves
<1>3. ASSUME NEW p \in Procs, Publishing(p) PROVE TicketOrder'
  BY <1>2, <1>3 DEF Publishing, Log, Read, Write, run, agent, approvals
<1>4. CASE Start \/ Resume \/ Completes \/ Finalize \/ NextRequest
  BY <1>2, <1>4 DEF Start, Resume, Completes, Finalize, NextRequest, approvals
<1>5. ASSUME SameTickets, SameThreads, call' = SetCalls(Unstored, "cut"),
             on' = [c \in Calls |-> 0]
      PROVE TicketOrder'
  <2>1. \A c \in Calls : call'[c] = call[c] \/ call'[c] = "cut"
    BY <1>5 DEF SetCalls
  <2>2. \A c \in Calls : call[c] \in Asking => call'[c] = "cut"
    BY <1>5 DEF SetCalls, Unstored, In
  <2>3. \A c \in Calls : Moves(c)
    BY <1>5, <2>1, <2>2 DEF Moves, Past, Asking, Answers
  <2> QED BY <1>1, <1>5, <2>3
<1>6. CASE Stopped \/ Fails
  BY <1>5, <1>6 DEF Stopped, Fails, Cut, approvals
<1>7. CASE Crash
  <2>1. /\ call' = SetCalls(Unstored, "cut") /\ on' = [c \in Calls |-> 0]
        /\ entry' = [c \in Calls |-> "none"] /\ thread' = [t \in Threads |-> Idle]
        /\ ticket' = ticket
    BY <1>7 DEF Crash
  <2>2. \A c \in Calls : /\ call'[c] = call[c] \/ call'[c] = "cut"
                         /\ call[c] \in Asking => call'[c] = "cut"
    BY <2>1 DEF SetCalls, Unstored, In
  <2>3. \A c \in Calls : call'[c] \in Asking \cup Past \cup {"new", "called"} => call'[c] = call[c]
    BY <2>2 DEF Past, Asking, Answers
  <2>4. \A c \in Calls : call'[c] \notin Asking
    BY <2>2 DEF Asking, Answers
  <2>5. \A t \in Threads : thread'[t].pc \notin Answered
    BY <2>1 DEF Idle, Answered
  <2> QED BY <2>1, <2>3, <2>4, <2>5 DEF TicketOrder, Answered
<1>8. ASSUME NEW n \in 1..NumCalls, Reply(n) PROVE TicketOrder'
  <2>1. /\ call' = SetCalls(Made + 1 .. Made + n, "called")
        /\ SameTickets /\ UNCHANGED <<thread, on>> /\ n \in Nat
    BY <1>8 DEF Reply, approvals
  <2>2. Made \in Nat /\ Calls \subseteq Nat /\ \A c \in Calls : call[c] # "new" <=> c <= Made
    BY MadeFirst, CallsAssumption DEF Calls
  <2>3. \A c \in Calls : call'[c] = call[c] \/ (call[c] = "new" /\ call'[c] = "called")
    BY <2>1, <2>2 DEF SetCalls
  <2>4. \A c \in Calls : Moves(c)
    BY <2>1, <2>3 DEF Moves, Past, Asking, Answers
  <2> QED BY <1>1, <2>1, <2>4
<1>9. CASE Commit \/ LastReply
  <2>1. call' = Settled /\ SameTickets /\ UNCHANGED <<thread, on>>
    BY <1>9 DEF Commit, LastReply, approvals
  <2>2. \A c \in Calls : \/ call'[c] = call[c]
                         \/ call[c] = "back" /\ call'[c] = "stored"
                         \/ call[c] = "invalid" /\ call'[c] = "refused"
    BY <2>1 DEF Settled
  <2>3. \A c \in Calls : Moves(c)
    BY <2>1, <2>2 DEF Moves, Past, Asking, Answers
  <2> QED BY <1>1, <2>1, <2>3
<1>10. ASSUME NEW c \in Calls, EnterFree(c) \/ EnterApproved(c) \/ Refused(c) \/ TimesOut(c)
       PROVE  TicketOrder'
  <2>1. /\ SameTickets /\ UNCHANGED thread
        /\ \E x : /\ call' = SetCalls({c}, x)
                  /\ \/ call[c] = "called" /\ x \in {"acts", "invalid"}
                     \/ call[c] = "waits" /\ x = "expired" /\ on' = on
        /\ \/ on' = on
           \/ \E k \in Tickets("approved") : on' = [on EXCEPT ![c] = k]
    BY <1>10 DEF EnterFree, EnterApproved, Refused, TimesOut, Entering, approvals
  <2>2. \A d \in Calls : \/ call'[d] = call[d]
                         \/ /\ d = c /\ call[d] = "called" /\ call'[d] \in {"acts", "invalid"}
                         \/ /\ d = c /\ call[d] = "waits" /\ call'[d] = "expired" /\ on' = on
    BY <2>1 DEF SetCalls
  <2>3. \A d \in Calls : \/ on'[d] = on[d]
                         \/ d = c /\ on'[d] \in Calls /\ ticket[on'[d]] # "absent"
    BY <1>0, <2>1 DEF Tickets
  <2>4. call'[c] \in Asking => call[c] \in Asking /\ on'[c] = on[c]
    BY <2>1 DEF SetCalls, Asking, Answers
  <2>5. \A d \in Calls : Moves(d)
    BY <2>2, <2>3, <2>4 DEF Moves, Past, Asking, Answers
  <2> QED BY <1>1, <2>1, <2>5
<1>11. ASSUME NEW c \in Calls, EnterWaiting(c) PROVE TicketOrder'
  <2>1. PICK k \in Tickets("requested") \cup {c} :
          /\ ticket' = [ticket EXCEPT ![k] = "requested"]
          /\ entry' = [entry EXCEPT ![k] = IF @ = "none" THEN "open" ELSE @]
          /\ on' = [on EXCEPT ![c] = k]
          /\ call' = SetCalls({c}, IF entry[k] \in Answers THEN entry[k] ELSE "waits")
    BY <1>11 DEF EnterWaiting
  <2>2. call[c] = "called" /\ thread' = thread /\ ticket[c] = "absent"
    BY <1>11 DEF EnterWaiting, Entering, TicketOrder
  <2>3. k \in Calls /\ (k = c \/ ticket[k] = "requested")
    BY <2>1 DEF Tickets
  <2>4. /\ \A d \in Calls : call'[d] = IF d = c THEN call'[c] ELSE call[d]
        /\ call'[c] \in Asking
    BY <2>1 DEF SetCalls, Asking, Answers
  <2>5. \A d \in Calls : /\ ticket'[d] = IF d = k THEN "requested" ELSE ticket[d]
                         /\ d # k => entry'[d] = entry[d]
                         /\ on'[d] = IF d = c THEN k ELSE on[d]
    BY <1>0, <2>1, <2>3
  <2>6. call[k] \notin Past
    BY <2>2, <2>3 DEF TicketOrder, Past
  <2>7. \A d \in Calls : ticket[d] # "absent" => ticket'[d] # "absent"
    BY <2>5
  <2>8. /\ \A d \in Calls : ticket'[d] = "absent" => entry'[d] = "none"
        /\ \A d \in Calls : on'[d] # 0 => ticket'[on'[d]] # "absent"
    BY <1>0, <2>3, <2>5, <2>7 DEF TicketOrder
  <2>9. \A d \in Calls : call'[d] \in {"new", "called"} => ticket'[d] = "absent"
    BY <2>2, <2>3, <2>4, <2>5 DEF TicketOrder, Asking, Answers
  <2>10. \A d \in Calls : call'[d] \in Past => ticket'[d] # "requested" /\ entry'[d] # "open"
    BY <2>3, <2>4, <2>5, <2>6 DEF TicketOrder, Past, Asking, Answers
  <2>11. \A d \in Calls : call'[d] \in Asking /\ on'[d] # d => ticket'[d] = "absent"
    BY <2>2, <2>3, <2>4, <2>5 DEF TicketOrder
  <2>12. \A t \in Threads :
           /\ thread[t].pc \in Answered => ticket'[thread[t].call] # "absent"
           /\ thread[t].pc \in {"signal", "check"} =>
                ticket'[thread[t].call] \notin {"absent", "requested"}
    <3> TAKE t \in Threads
    <3>1. thread[t].pc \in Answered => thread[t].call \in Calls
      BY DEF Inv, Bound, Answered
    <3> QED BY <3>1, <2>2, <2>3, <2>5, <2>7 DEF TicketOrder, Decided, Answered
  <2> QED BY <2>2, <2>8, <2>9, <2>10, <2>11, <2>12 DEF TicketOrder, Decided
<1>12. ASSUME NEW c \in Calls, Collect(c) \/ ActionEnds(c) PROVE TicketOrder'
  <2>1. /\ thread' = thread /\ on' = on /\ call[c] \in Asking \cup {"acts"}
        /\ \E x \in {"acts", "back"} : call' = SetCalls({c}, x)
        /\ call[c] \in Asking => entry' = [entry EXCEPT ![on[c]] = "none"] /\ on[c] \in Calls
        /\ entry' = entry \/ entry' = [entry EXCEPT ![on[c]] = "none"]
        /\ call[c] \in Asking =>
             \E v \in {"approved", "denied", "timed_out"} : ticket' = [ticket EXCEPT ![on[c]] = v]
        /\ \/ ticket' = ticket
           \/ /\ on[c] # 0
              /\ \E v \in {"approved", "denied", "timed_out", "completed"} :
                   ticket' = [ticket EXCEPT ![on[c]] = v]
    <3>1. CASE Collect(c)
      <4>1. on[c] \in Calls /\ Verdict(call[c]) \in {"approved", "denied", "timed_out"} /\ 0 \notin Calls
        BY <3>1, CallsAssumption DEF Collect, Inv, Bound, Verdict, Calls
      <4> QED BY <3>1, <4>1 DEF Collect
    <3>2. CASE ActionEnds(c)
      BY <3>2 DEF ActionEnds, Asking, Answers
    <3> QED BY <1>12, <3>1, <3>2
  <2>2. \A d \in Calls : \/ ticket'[d] = ticket[d]
                         \/ ticket[d] # "absent" /\ ticket'[d] \notin {"absent", "requested"}
    BY <1>0, <2>1 DEF TicketOrder
  <2>3. \A d \in Calls : entry'[d] = entry[d] \/ entry'[d] = "none"
    BY <1>0, <2>1
  <2>4. \A d \in Calls : call'[d] = call[d] \/ (d = c /\ call'[d] \in {"acts", "back"})
    BY <2>1 DEF SetCalls
  <2>5. call[c] \in Past \/ (ticket'[c] # "requested" /\ entry'[c] # "open")
    <3>1. CASE call[c] = "acts"
      BY <3>1 DEF Past
    <3>2. CASE call[c] \in Asking /\ on[c] = c
      BY <3>2, <1>0, <2>1
    <3>3. CASE call[c] \in Asking /\ on[c] # c
      BY <3>3, <2>2, <2>3 DEF TicketOrder
    <3> QED BY <2>1, <3>1, <3>2, <3>3
  <2>6. \A d \in Calls :
          /\ call'[d] \in {"new", "called"} => call[d] \in {"new", "called"}
          /\ call'[d] \in Asking => call[d] \in Asking
          /\ call'[d] \in Past => \/ call[d] \in Past \cup {"called"}
                                  \/ ticket'[d] # "requested" /\ entry'[d] # "open"
    BY <2>4, <2>5 DEF Asking, Answers
  <2> QED BY <2>1, <2>2, <2>3, <2>6, ThreadsKept, TicketsKept
<1>13. ASSUME NEW t \in Threads, NEW k \in Calls, NEW a \in Answers, AnswerLooks(t, k, a)
       PROVE  TicketOrder'
  <2>1. /\ SameTickets /\ UNCHANGED <<call, on>> /\ ticket[k] # "absent"
        /\ \A u \in Threads : \/ thread'[u] = thread[u]
                              \/ thread'[u].pc = "record" /\ thread'[u].call = k
    BY <1>0, <1>13 DEF AnswerLooks, agent, approvals
  <2>2. \A u \in Threads : thread'[u].pc \in Answered =>
          /\ thread'[u].call \in Calls /\ ticket[thread'[u].call] # "absent"
          /\ thread'[u].pc \in {"signal", "check"} => ticket[thread'[u].call] # "requested"
    BY <2>1, ThreadsKept
  <2> QED BY <2>1, <2>2, TicketsKept
<1>14. ASSUME NEW t \in Threads, AnswerRecords(t) PROVE TicketOrder'
  <2> DEFINE k == thread[t].call
             v == Verdict(thread[t].action)
  <2>1. /\ ticket' = [ticket EXCEPT ![k] = v] /\ UNCHANGED <<entry, call, on>>
        /\ \A u \in Threads : \/ thread'[u] = thread[u]
                              \/ u = t /\ thread'[u].call = k
    BY <1>0, <1>14 DEF AnswerRecords, Goes, agent, Thread
  <2>2. k \in Calls /\ ticket[k] # "absent" /\ v \notin {"absent", "requested"}
    BY <1>14 DEF AnswerRecords, Inv, Bound, TicketOrder, Answered, Verdict
  <2> HIDE DEF k, v
  <2>3. ticket'[k] \notin {"absent", "requested"}
    BY <1>0, <2>1, <2>2
  <2>4. \A d \in Calls : \/ ticket'[d] = ticket[d]
                         \/ ticket[d] # "absent" /\ ticket'[d] \notin {"absent", "requested"}
    BY <1>0, <2>1, <2>2
  <2>5. \A u \in Threads : thread'[u].pc \in Answered =>
          /\ thread'[u].call \in Calls /\ ticket[thread'[u].call] # "absent"
          /\ thread'[u].pc \in {"signal", "check"} =>
               \/ ticket[thread'[u].call] # "requested"
               \/ ticket'[thread'[u].call] \notin {"absent", "requested"}
    BY <2>1, <2>2, <2>3, ThreadsKept
  <2> QED BY <2>1, <2>4, <2>5, TicketsKept
<1>15. ASSUME NEW t \in Threads, AnswerSignals(t) PROVE TicketOrder'
  <2> DEFINE k == thread[t].call
             a == thread[t].action
             S == {c \in In({"waits"}) : on[c] = k}
  <2>1. /\ UNCHANGED <<ticket, on>>
        /\ \/ UNCHANGED <<entry, call>>
           \/ /\ entry[k] # "none" /\ entry' = [entry EXCEPT ![k] = a]
              /\ call' = SetCalls(S, a)
        /\ \A u \in Threads : \/ thread'[u] = thread[u]
                              \/ thread'[u].pc = "idle"
                              \/ u = t /\ thread'[u].pc = "check" /\ thread'[u].call = k
    BY <1>0, <1>15 DEF AnswerSignals, Goes, Idle, Thread
  <2>2. k \in Calls /\ ticket[k] \notin {"absent", "requested"} /\ a \in Answers
    BY <1>0, <1>15 DEF AnswerSignals, Inv, Bound, TicketOrder, Decided, Answered, Thread
  <2>3. \A c \in S : call[c] = "waits"
    BY DEF In
  <2> HIDE DEF k, a, S
  <2>4. \A d \in Calls : \/ entry'[d] = entry[d]
                         \/ entry[d] # "none" /\ entry'[d] # "open"
    BY <1>0, <2>1, <2>2 DEF Answers
  <2>5. \A d \in Calls : \/ call'[d] = call[d]
                         \/ call[d] = "waits" /\ call'[d] \in Answers
    BY <2>1, <2>2, <2>3 DEF SetCalls
  <2>6. \A d \in Calls :
          /\ call'[d] \in {"new", "called"} => call[d] \in {"new", "called"}
          /\ call'[d] \in Asking => call[d] \in Asking
          /\ call'[d] \in Past => call[d] \in Past
    BY <2>5 DEF Past, Asking, Answers
  <2>7. \A u \in Threads : thread'[u].pc \in Answered =>
          /\ thread'[u].call \in Calls /\ ticket[thread'[u].call] # "absent"
          /\ thread'[u].pc \in {"signal", "check"} => ticket[thread'[u].call] # "requested"
    BY <2>1, <2>2, ThreadsKept DEF Answered
  <2> QED BY <2>1, <2>4, <2>6, <2>7, TicketsKept
<1>16. ASSUME NEW t \in Threads, thread'[t].pc \notin Answered,
              \A u \in Threads : u # t => thread'[u] = thread[u],
              SameTickets, UNCHANGED <<call, on>>
       PROVE  TicketOrder'
  BY <1>2, <1>16
<1>17. ASSUME NEW t \in Threads,
              \/ AnswerChecks(t) \/ StopRequested(t) \/ StopMarks(t) \/ StopPending(t)
              \/ StopSubagent(t) \/ PauseMarks(t) \/ ResumeSubagent(t)
       PROVE  TicketOrder'
  <2>1. SameTickets /\ UNCHANGED <<call, on>>
    BY <1>17 DEF AnswerChecks, StopRequested, StopMarks, StopPending, StopSubagent,
       PauseMarks, ResumeSubagent, agent, approvals
  <2>2. \/ thread' = thread
        \/ \E x \in Thread : x.pc \notin Answered /\ thread' = [thread EXCEPT ![t] = x]
    <3>1. CASE StopPending(t) \/ ResumeSubagent(t)
      BY <3>1 DEF StopPending, ResumeSubagent
    <3>2. CASE AnswerChecks(t)
      BY <3>2, InitialTyped DEF AnswerChecks, Idle, Answered
    <3>3. CASE StopRequested(t) \/ StopMarks(t) \/ StopSubagent(t) \/ PauseMarks(t)
      <4>1. PICK pc \in {"mark", "idle", "pause"} : thread' = [thread EXCEPT ![t].pc = pc]
        BY <3>3 DEF StopRequested, StopMarks, StopSubagent, PauseMarks, Goes
      <4>2. [thread[t] EXCEPT !.pc = pc] \in Thread /\ [thread[t] EXCEPT !.pc = pc].pc = pc
        BY <1>0 DEF Thread, ThreadPc
      <4>3. thread' = [thread EXCEPT ![t] = [thread[t] EXCEPT !.pc = pc]]
        BY <4>1
      <4> QED BY <4>2, <4>3 DEF Answered
    <3> QED BY <1>17, <3>1, <3>2, <3>3
  <2>3. CASE thread' = thread
    BY <1>2, <2>1, <2>3
  <2>4. ASSUME NEW x \in Thread, x.pc \notin Answered, thread' = [thread EXCEPT ![t] = x]
        PROVE  TicketOrder'
    BY <1>0, <1>16, <2>1, <2>4
  <2> QED BY <2>2, <2>3, <2>4
<1>18. CASE UNCHANGED vars
  BY <1>2, <1>18 DEF vars, agent, approvals
<1> QED BY <1>3, <1>4, <1>6, <1>7, <1>8, <1>9, <1>10, <1>11, <1>12, <1>13, <1>14, <1>15,
   <1>17, <1>18 DEF Next, Answering, CallStep


\* The events still to be logged, the requests an answer can reach, the tickets that are
\* decided, and what is waited for or was cut off.
Unlogged  == [p \in Procs |-> {pub[p].todo[i] : i \in {j \in 1..Len(pub[p].todo) :
                                                        j > 1 \/ pub[p].at = "todo"}}]
Reachable == {k \in Calls : /\ entry[k] = "open"
                            /\ ticket[k] = "requested" \/ \E c \in In({"waits"}) : on[c] = k}
Closed    == {k \in Calls : Decided(k)}
OnAsked   == {on[c] : c \in In(Asking)} \cup cutOff

\* What an event that is not yet in the log says of the run.
Fitting ==
  \A p \in Procs : \A e \in Unlogged[p] :
    /\ e.type = "resolved" => e.call \in Closed /\ e.call \notin Reachable
    /\ e.type = "requested" =>
         p = Loop /\ worker = "tools" /\ Unlogged[Loop] = {e} /\ e.call \in OnAsked
    /\ e.type = "stopped" => runtime # "queued" /\ (p = Loop => worker = "over")

\* A stopped state belongs to a worker that is gone, or has announced its return; what can be
\* answered is pending, or about to be; what is pending is waited for, or about to be resolved.
Awake ==
  /\ Fitting
  /\ runtime = "queued" => folded.status # "stopped"
  /\ ~mixed /\ folded.status = "stopped" =>
       worker \in {"off", "over"} \/ Ev("resumed") \in Unlogged[Loop]
  /\ folded.status \in Final \cup {"stopped", "paused"} \/ folded.pending = {}
  /\ ~mixed /\ folded.status \notin Final =>
       \A k \in Reachable : k \in folded.pending \/ EvOf("requested", k) \in Unlogged[Loop]
  /\ folded.status \notin Final =>
       \A k \in folded.pending : k \in OnAsked \/ EvOf("resolved", k) \in Unlogged[Loop]

LEMMA UnloggedTyped ==
  ASSUME Inv
  PROVE  /\ Loop \in Procs /\ \A t \in Threads : t \in Procs /\ t # Loop
         /\ \A p \in Procs : pub[p] \in PubRec /\ pub[p].todo \in Seq(Event)
         /\ \A p \in Procs : Unlogged[p] \subseteq Event
         /\ \A k \in Reachable \cup Closed : k \in Calls
         /\ Calls \subseteq Nat \ {0}
<1>1. \A p \in Procs : pub[p] \in PubRec /\ pub[p].todo \in Seq(Event)
  BY DEF Inv, TypeOK, PubRec, Stages
<1>2. \A p \in Procs : Unlogged[p] \subseteq Event
  BY <1>1 DEF Unlogged
<1> QED BY <1>1, <1>2, LoopAssumption, CallsAssumption DEF Procs, Reachable, Closed, Calls

LEMMA UnloggedRead ==
  ASSUME Inv, NEW p \in Procs, Read(p) \/ Write(p)
  PROVE  Unlogged' = Unlogged
<1>1. \A q \in Procs : pub[q] \in PubRec /\ pub[q].todo \in Seq(Event)
  BY UnloggedTyped
<1>2. pub \in [Procs -> PubRec]
  BY DEF Inv, TypeOK, PubRec, Stages
<1>3. \A q \in Procs : q # p => pub'[q] = pub[q]
  BY <1>2 DEF Read, Write
<1>4. CASE Read(p)
  <2>1. pub[p].at = "logged" /\ pub'[p].at = "read" /\ pub'[p].todo = pub[p].todo
    BY <1>2, <1>4 DEF Read, PubRec
  <2>2. \A q \in Procs : Unlogged'[q] = Unlogged[q]
    BY <1>3, <2>1 DEF Unlogged
  <2> QED BY <2>2 DEF Unlogged
<1>5. CASE Write(p)
  <2>1. pub[p].at = "read" /\ pub[p].todo # <<>>
    BY <1>5 DEF Write, Inv, Quiet
  <2>2. pub'[p].at = "todo" /\ pub'[p].todo = Tail(pub[p].todo)
    BY <1>2, <1>5 DEF Write, NoPub
  <2>3. {pub'[p].todo[i] : i \in 1..Len(pub'[p].todo)} = {pub[p].todo[i] : i \in 2..Len(pub[p].todo)}
    <3> DEFINE s == pub[p].todo
               n == Len(s)
    <3>1. s \in Seq(Event) /\ s # <<>>
      BY <1>1, <2>1
    <3>2. n \in Nat /\ n >= 1 /\ Len(Tail(s)) = n - 1 /\ \A i \in 1..(n - 1) : Tail(s)[i] = s[i + 1]
      BY <3>1
    <3>3. ASSUME NEW i \in 2..n PROVE \E j \in 1..Len(Tail(s)) : Tail(s)[j] = s[i]
      <4>1. i - 1 \in 1..(n - 1) /\ (i - 1) + 1 = i
        BY <3>2
      <4> QED BY <4>1, <3>2
    <3>4. ASSUME NEW i \in 1..Len(Tail(s)) PROVE \E j \in 2..n : s[j] = Tail(s)[i]
      <4>1. i + 1 \in 2..n /\ Tail(s)[i] = s[i + 1]
        BY <3>2
      <4> QED BY <4>1
    <3> HIDE DEF s, n
    <3>5. pub'[p].todo = Tail(s)
      BY <2>2 DEF s
    <3>6. {Tail(s)[i] : i \in 1..Len(Tail(s))} = {s[i] : i \in 2..n}
      BY <3>3, <3>4
    <3> QED BY <3>5, <3>6 DEF s, n
  <2>4. {j \in 1..Len(pub[p].todo) : j > 1 \/ pub[p].at = "todo"} = 2..Len(pub[p].todo)
    BY <1>1, <2>1
  <2>5. {j \in 1..Len(pub'[p].todo) : j > 1 \/ pub'[p].at = "todo"} = 1..Len(pub'[p].todo)
    BY <2>2
  <2>6. Unlogged'[p] = Unlogged[p]
    BY <2>3, <2>4, <2>5 DEF Unlogged
  <2>7. \A q \in Procs : Unlogged'[q] = Unlogged[q]
    BY <1>3, <2>6 DEF Unlogged
  <2> QED BY <2>7 DEF Unlogged
<1> QED BY <1>4, <1>5

LEMMA UnloggedPublished ==
  ASSUME Inv, NEW p \in Procs, NEW es \in Seq(Event), Quiet(p), Publish(p, es)
  PROVE  /\ \A q \in Procs : q # p => Unlogged'[q] = Unlogged[q]
         /\ Unlogged[p] = {}
         /\ Unlogged'[p] = {es[i] : i \in 1..Len(es)}
<1>1. /\ \A q \in Procs : q # p => pub'[q] = pub[q]
      /\ pub'[p].at = pub[p].at /\ pub'[p].todo = es
  BY PublishTyped
<1>2. pub[p].at = "todo" /\ pub[p].todo = <<>>
  BY DEF Inv, Quiet
<1>3. \A q \in Procs : q # p => Unlogged'[q] = Unlogged[q]
  BY <1>1 DEF Unlogged
<1>4. Unlogged[p] = {}
  BY <1>2 DEF Unlogged
<1>5. {j \in 1..Len(pub'[p].todo) : j > 1 \/ pub'[p].at = "todo"} = 1..Len(es)
  BY <1>1, <1>2
<1>6. Unlogged'[p] = {es[i] : i \in 1..Len(es)}
  BY <1>1, <1>5 DEF Unlogged
<1> QED BY <1>3, <1>4, <1>6

LEMMA UnloggedLogged ==
  ASSUME Inv, NEW p \in Procs, Log(p)
  PROVE  /\ Head(pub[p].todo) \in Unlogged[p]
         /\ \A q \in Procs : q # p => Unlogged'[q] = Unlogged[q]
         /\ Unlogged'[p] \subseteq Unlogged[p]
         /\ Unlogged[p] \subseteq Unlogged'[p] \cup {Head(pub[p].todo)}
<1>1. pub \in [Procs -> PubRec] /\ pub[p].todo \in Seq(Event) /\ pub[p] \in PubRec
  BY UnloggedTyped DEF Inv, TypeOK, PubRec, Stages
<1>2. pub[p].todo # <<>> /\ pub[p].at = "todo"
  BY DEF Log, Quiet
<1>3. /\ \A q \in Procs : q # p => pub'[q] = pub[q]
      /\ pub'[p].at = "logged" /\ pub'[p].todo = pub[p].todo
  BY <1>1 DEF Log, PubRec
<1>4. \A q \in Procs : q # p => Unlogged'[q] = Unlogged[q]
  BY <1>3 DEF Unlogged
<1>5. Unlogged[p] = {pub[p].todo[i] : i \in 1..Len(pub[p].todo)}
  <2>1. {j \in 1..Len(pub[p].todo) : j > 1 \/ pub[p].at = "todo"} = 1..Len(pub[p].todo)
    BY <1>2
  <2> QED BY <2>1 DEF Unlogged
<1>6. Unlogged'[p] = {pub[p].todo[i] : i \in 2..Len(pub[p].todo)}
  <2>1. {j \in 1..Len(pub'[p].todo) : j > 1 \/ pub'[p].at = "todo"} = 2..Len(pub[p].todo)
    BY <1>1, <1>3
  <2> QED BY <1>3, <2>1 DEF Unlogged
<1>7. Len(pub[p].todo) \in Nat /\ Len(pub[p].todo) >= 1 /\ Head(pub[p].todo) = pub[p].todo[1]
  BY <1>1, <1>2
<1>8. \A i \in 1..Len(pub[p].todo) : i = 1 \/ i \in 2..Len(pub[p].todo)
  BY <1>7
<1> QED BY <1>4, <1>5, <1>6, <1>7, <1>8

\* What every step but the logging of an event and the end of the process does.
LEMMA Carry ==
  ASSUME Inv, Awake, UNCHANGED <<folded, mixed>>,
         \A q \in Procs : Unlogged[q] \subseteq Unlogged'[q],
         \A q \in Procs : \A e \in Unlogged'[q] :
           \/ e \in Unlogged[q]
           \/ /\ e \in Event
              /\ e.type = "resolved" => e.call \in Closed' /\ e.call \notin Reachable'
              /\ e.type = "requested" =>
                   q = Loop /\ worker' = "tools" /\ Unlogged'[Loop] = {e} /\ e.call \in OnAsked'
              /\ e.type = "stopped" => runtime' # "queued" /\ (q = Loop => worker' = "over"),
         \A k \in Reachable' : \/ k \in Reachable
                               \/ k \notin Closed /\ EvOf("requested", k) \in Unlogged'[Loop],
         Closed \subseteq Closed',
         \A k \in OnAsked : k \in OnAsked' \/ EvOf("resolved", k) \in Unlogged'[Loop],
         Unlogged[Loop] # {} => worker' = worker /\ Unlogged'[Loop] = Unlogged[Loop],
         worker \in {"off", "over"} => \/ worker' \in {"off", "over"} \/ runtime = "queued"
                                       \/ Ev("resumed") \in Unlogged'[Loop],
         runtime' = "queued" => runtime = "queued"
  PROVE  Awake'
<1>1. Loop \in Procs
  BY UnloggedTyped
<1>2. ASSUME NEW q \in Procs, NEW e \in Unlogged'[q]
      PROVE  /\ e.type = "resolved" => e.call \in Closed' /\ e.call \notin Reachable'
             /\ e.type = "requested" =>
                  q = Loop /\ worker' = "tools" /\ Unlogged'[Loop] = {e} /\ e.call \in OnAsked'
             /\ e.type = "stopped" => runtime' # "queued" /\ (q = Loop => worker' = "over")
  <2>1. CASE e \in Unlogged[q]
    <3>1. /\ e.type = "resolved" => e.call \in Closed /\ e.call \notin Reachable
          /\ e.type = "requested" =>
               q = Loop /\ worker = "tools" /\ Unlogged[Loop] = {e} /\ e.call \in OnAsked
          /\ e.type = "stopped" => runtime # "queued" /\ (q = Loop => worker = "over")
      BY <2>1 DEF Awake, Fitting
    <3>2. EvOf("resolved", e.call).type = "resolved"
      BY DEF EvOf
    <3>3. q = Loop => worker' = worker /\ Unlogged'[Loop] = Unlogged[Loop]
      BY <2>1
    <3> QED BY <3>1, <3>2, <3>3
  <2> QED BY <2>1
<1>3. Fitting'
  BY <1>2 DEF Fitting
<1>4. runtime' = "queued" => folded'.status # "stopped"
  BY DEF Awake
<1>5. ~mixed' /\ folded'.status = "stopped" =>
        worker' \in {"off", "over"} \/ Ev("resumed") \in Unlogged'[Loop]
  BY <1>1 DEF Awake
<1>6. ~mixed' /\ folded'.status \notin Final =>
        \A k \in Reachable' : k \in folded'.pending \/ EvOf("requested", k) \in Unlogged'[Loop]
  BY <1>1 DEF Awake
<1>7. folded'.status \notin Final =>
        \A k \in folded'.pending : k \in OnAsked' \/ EvOf("resolved", k) \in Unlogged'[Loop]
  BY <1>1 DEF Awake
<1> QED BY <1>3, <1>4, <1>5, <1>6, <1>7 DEF Awake

\* The fold leaves a state that is over or stopped, or shows what is pending.
LEMMA FoldedStatus ==
  ASSUME NEW s \in State, NEW e \in Event
  PROVE  LET n == Apply(s, e) IN
         /\ Ignores(s, e) => n = s
         /\ ~Ignores(s, e) =>
              /\ n.pending = PendingAfter(s, e)
              /\ n.status \in Final \cup {"stopped", "paused"} \/ n.pending = {}
              /\ n.status \in Final \cup {"stopped"} => n.status = StatusAfter(s, e)
              /\ StatusAfter(s, e) \in Final => n.status \in Final
<1> DEFINE u == [status |-> StatusAfter(s, e), pending |-> PendingAfter(s, e),
                 subagent |-> SubagentAfter(s, e)]
<1>1. /\ u.status = StatusAfter(s, e) /\ u.pending = PendingAfter(s, e)
      /\ Apply(s, e) = IF Ignores(s, e) THEN s ELSE Normal(u)
  BY DEF Apply
<1> HIDE DEF u
<1>2. ASSUME u \in State
      PROVE  /\ Normal(u).pending = u.pending
             /\ Normal(u).status \in Final \cup {"stopped", "paused"} \/ u.pending = {}
             /\ Normal(u).status \in Final \cup {"stopped"} => Normal(u).status = u.status
             /\ u.status \in Final => Normal(u).status \in Final
  BY <1>2 DEF Normal, State, Final
<1>3. u \in State
  <2>1. StatusAfter(s, e) \in {"queued", "running", "paused", "stopped"} \cup Final
    BY DEF StatusAfter, State, Event, Final, RunKinds, CallKinds
  <2>2. PendingAfter(s, e) \in SUBSET Calls
    BY DEF PendingAfter, State, Event, Final, RunKinds, CallKinds
  <2>3. SubagentAfter(s, e) \in BOOLEAN
    BY DEF SubagentAfter, State
  <2> QED BY <2>1, <2>2, <2>3 DEF State, u
<1> QED BY <1>1, <1>2, <1>3

LEMMA LogAwake ==
  ASSUME Inv, Order, Reporting, TicketOrder, Awake, NEW p \in Procs, Log(p)
  PROVE  Awake'
<1> DEFINE e == Head(pub[p].todo)
<1>1. /\ Loop \in Procs /\ e \in Event /\ e \in Unlogged[p] /\ folded \in State
      /\ \A q \in Procs : q # p => Unlogged'[q] = Unlogged[q]
      /\ Unlogged'[p] \subseteq Unlogged[p] /\ Unlogged[p] \subseteq Unlogged'[p] \cup {e}
  BY UnloggedTyped, UnloggedLogged DEF Inv, TypeOK
<1>2. /\ UNCHANGED <<runtime, worker, running>>
      /\ Reachable' = Reachable /\ Closed' = Closed /\ OnAsked' = OnAsked
  BY DEF Log, run, agent, approvals, Reachable, Closed, Decided, OnAsked, In
<1>3. /\ folded' = Apply(folded, e)
      /\ mixed' = (\/ mixed \/ (p # Loop /\ e.type = "stopped" /\ running)
                   \/ \E q \in Procs \ {p} : pub[q].at # "todo")
  BY DEF Log, FromLog
<1>4. e.type = "result" => call[e.call] = "stored" /\ e.call \in Calls
  <2>1. pub[p].todo \in Seq(Event) /\ pub[p].todo # <<>>
    BY UnloggedTyped DEF Log, Quiet
  <2>2. 1 \in 1..Len(pub[p].todo) /\ pub[p].todo[1] = e
    BY <2>1
  <2>3. e.type = "result" => e.call \in Calls
    BY <1>1 DEF Event, RunKinds
  <2> QED BY <2>2, <2>3 DEF Reporting, IsResult
<1>5. e.type \in {"requested", "resolved"} => e.call \in Calls /\ e = EvOf(e.type, e.call)
  BY <1>1 DEF Event, RunKinds, EvOf
<1>6. e.type = "resumed" => e = Ev("resumed")
  BY <1>1 DEF Event, CallKinds, Ev
<1>7. /\ e.type = "resolved" => e.call \in Closed /\ e.call \notin Reachable
      /\ e.type = "requested" =>
           p = Loop /\ worker = "tools" /\ Unlogged[Loop] = {e} /\ e.call \in OnAsked
      /\ e.type = "stopped" => runtime # "queued" /\ (p = Loop => worker = "over")
  BY <1>1 DEF Awake, Fitting
<1>8. /\ Ignores(folded, e) => folded' = folded
      /\ ~Ignores(folded, e) =>
           /\ folded'.pending = PendingAfter(folded, e)
           /\ folded'.status \in Final \cup {"stopped", "paused"} \/ folded'.pending = {}
           /\ folded'.status \in Final \cup {"stopped"} => folded'.status = StatusAfter(folded, e)
           /\ StatusAfter(folded, e) \in Final => folded'.status \in Final
  BY <1>1, <1>3, FoldedStatus
<1>9. Ignores(folded, e) <=>
        folded.status \in Final \/ (folded.status = "stopped" /\ e.type \notin Followups)
  BY DEF Ignores
<1>10. StatusAfter(folded, e) = "stopped" =>
         \/ e.type = "stopped"
         \/ folded.status = "stopped" /\ e.type # "resumed"
  BY DEF StatusAfter, Final
<1>11. \A q \in Procs : Unlogged'[q] \subseteq Unlogged[q] /\ Unlogged[q] \subseteq Unlogged'[q] \cup {e}
  BY <1>1
<1> HIDE DEF e
<1>12. Fitting'
  <2>1. ASSUME NEW q \in Procs, NEW f \in Unlogged'[q]
        PROVE  /\ f.type = "resolved" => f.call \in Closed' /\ f.call \notin Reachable'
               /\ f.type = "requested" =>
                    q = Loop /\ worker' = "tools" /\ Unlogged'[Loop] = {f} /\ f.call \in OnAsked'
               /\ f.type = "stopped" => runtime' # "queued" /\ (q = Loop => worker' = "over")
    <3>1. /\ f.type = "resolved" => f.call \in Closed /\ f.call \notin Reachable
          /\ f.type = "requested" =>
               q = Loop /\ worker = "tools" /\ Unlogged[Loop] = {f} /\ f.call \in OnAsked
          /\ f.type = "stopped" => runtime # "queued" /\ (q = Loop => worker = "over")
      BY <1>11 DEF Awake, Fitting
    <3> QED BY <1>2, <1>11, <3>1
  <2> QED BY <2>1 DEF Fitting
<1>13. runtime' = "queued" => folded'.status # "stopped"
  BY <1>2, <1>7, <1>8, <1>10 DEF Awake
<1>14. ~mixed' /\ folded'.status = "stopped" =>
         worker' \in {"off", "over"} \/ Ev("resumed") \in Unlogged'[Loop]
  <2> SUFFICES ASSUME ~mixed', folded'.status = "stopped"
               PROVE  worker \in {"off", "over"} \/ Ev("resumed") \in Unlogged'[Loop]
    BY <1>2
  <2>1. ~mixed /\ (p # Loop /\ e.type = "stopped" => ~running)
    BY <1>3 DEF Inv, TypeOK
  <2>2. CASE ~Ignores(folded, e) /\ e.type = "stopped"
    BY <2>1, <2>2, <1>7 DEF Order
  <2>3. CASE folded.status = "stopped" /\ e.type # "resumed"
    <3>1. worker \in {"off", "over"} \/ Ev("resumed") \in Unlogged[Loop]
      BY <2>1, <2>3 DEF Awake
    <3>2. Ev("resumed") # e
      BY <2>3 DEF Ev
    <3> QED BY <1>1, <1>11, <3>1, <3>2
  <2>4. Ignores(folded, e) => folded.status = "stopped" /\ e.type # "resumed"
    BY <1>8, <1>9 DEF Final, Followups
  <2> QED BY <2>2, <2>3, <2>4, <1>8, <1>10
<1>15. folded'.status \in Final \cup {"stopped", "paused"} \/ folded'.pending = {}
  BY <1>8 DEF Awake
<1>16. ~mixed' /\ folded'.status \notin Final =>
         \A k \in Reachable' : k \in folded'.pending \/ EvOf("requested", k) \in Unlogged'[Loop]
  <2> SUFFICES ASSUME ~mixed', folded'.status \notin Final, NEW k \in Reachable
               PROVE  k \in folded'.pending \/ EvOf("requested", k) \in Unlogged'[Loop]
    BY <1>2
  <2>1. ~mixed /\ k \in Calls
    BY <1>3, UnloggedTyped DEF Inv, TypeOK
  <2>2. folded.status \notin Final
    BY <1>8, <1>9
  <2>3. k \in folded.pending \/ EvOf("requested", k) \in Unlogged[Loop]
    BY <2>1, <2>2 DEF Awake
  <2>4. e.type = "result" => e.call # k
    BY <1>4 DEF TicketOrder, Past, Reachable, In
  <2>5. e.type = "resolved" => e.call # k
    BY <1>7
  <2>6. CASE k \in folded.pending
    <3>1. ~Ignores(folded, e) => e.type \notin Final
      BY <1>8 DEF StatusAfter, Final
    <3>2. ~Ignores(folded, e) => k \in PendingAfter(folded, e)
      BY <2>4, <2>5, <2>6, <3>1 DEF PendingAfter
    <3> QED BY <2>6, <3>2, <1>8
  <2>7. CASE EvOf("requested", k) \in Unlogged[Loop] /\ e # EvOf("requested", k)
    BY <2>7, <1>1, <1>11
  <2>8. CASE e = EvOf("requested", k)
    <3>1. e.type = "requested" /\ e.call = k
      BY <2>8 DEF EvOf
    <3>2. worker = "tools" /\ Unlogged[Loop] = {e}
      BY <3>1, <1>7
    <3>3. Ev("resumed") \notin Unlogged[Loop]
      BY <3>1, <3>2 DEF Ev
    <3>4. folded.status # "stopped"
      BY <2>1, <3>2, <3>3 DEF Awake
    <3>5. ~Ignores(folded, e)
      BY <2>2, <3>4, <1>9
    <3>6. k \in PendingAfter(folded, e)
      BY <3>1 DEF PendingAfter, Final
    <3> QED BY <3>5, <3>6, <1>8
  <2> QED BY <2>3, <2>6, <2>7, <2>8
<1>17. folded'.status \notin Final =>
         \A k \in folded'.pending : k \in OnAsked' \/ EvOf("resolved", k) \in Unlogged'[Loop]
  <2> SUFFICES ASSUME folded'.status \notin Final, NEW k \in folded'.pending
               PROVE  k \in OnAsked \/ EvOf("resolved", k) \in Unlogged'[Loop]
    BY <1>2
  <2>1. folded.status \notin Final
    BY <1>8, <1>9
  <2>2. CASE k \in folded.pending /\ e = EvOf("resolved", k)
    <3>1. e.type = "resolved" /\ e.call = k
      BY <2>2 DEF EvOf
    <3>2. ~Ignores(folded, e)
      BY <2>1, <3>1, <1>9 DEF Followups
    <3>3. k \notin folded'.pending
      BY <3>1, <3>2, <1>8 DEF PendingAfter
    <3> QED BY <3>3
  <2>3. CASE k \in folded.pending /\ e # EvOf("resolved", k)
    <3>1. k \in OnAsked \/ EvOf("resolved", k) \in Unlogged[Loop]
      BY <2>1, <2>3 DEF Awake
    <3> QED BY <2>3, <3>1, <1>1, <1>11
  <2>4. CASE k \notin folded.pending
    <3>1. ~Ignores(folded, e) /\ k \in PendingAfter(folded, e)
      BY <2>4, <1>8
    <3>2. e.type = "requested" /\ e.call = k
      BY <2>4, <3>1 DEF PendingAfter
    <3> QED BY <3>2, <1>7
  <2> QED BY <2>2, <2>3, <2>4
<1> QED BY <1>12, <1>13, <1>14, <1>15, <1>16, <1>17 DEF Awake

LEMMA CrashAwake == ASSUME Inv, Awake, Crash PROVE Awake'
<1>1. /\ runtime # "queued" /\ UNCHANGED <<runtime, folded>> /\ worker' = "off"
      /\ entry' = [c \in Calls |-> "none"] /\ pub' = [p \in Procs |-> NoPub]
      /\ call' = SetCalls(Unstored, "cut")
      /\ cutOff' = (cutOff \cup {on[c] : c \in In(Asking)} \cup UNION {Untold(p) : p \in Procs}) \ {0}
      /\ mixed => mixed'
  BY DEF Crash
<1>2. \A p \in Procs : Unlogged'[p] = {}
  BY <1>1 DEF Unlogged, NoPub
<1>3. Reachable' = {}
  BY <1>1 DEF Reachable
<1>4. ASSUME NEW k \in Calls, k \in OnAsked \/ EvOf("resolved", k) \in Unlogged[Loop]
      PROVE  k \in OnAsked'
  <2>1. k # 0 /\ Loop \in Procs
    BY UnloggedTyped
  <2>2. ASSUME EvOf("resolved", k) \in Unlogged[Loop] PROVE k \in Untold(Loop)
    <3>1. PICK i \in 1..Len(pub[Loop].todo) : pub[Loop].todo[i] = EvOf("resolved", k)
      BY <2>1, <2>2 DEF Unlogged
    <3> QED BY <3>1 DEF Untold, EvOf
  <2>3. k \in cutOff \cup {on[c] : c \in In(Asking)} \cup Untold(Loop)
    BY <1>4, <2>2 DEF OnAsked
  <2>4. k \in cutOff'
    BY <1>1, <2>1, <2>3
  <2> QED BY <2>4 DEF OnAsked
<1>5. folded.pending \subseteq Calls
  BY DEF Inv, TypeOK, State
<1>6. folded'.status \notin Final => \A k \in folded'.pending : k \in OnAsked'
  BY <1>1, <1>4, <1>5 DEF Awake
<1>7. Fitting'
  BY <1>2 DEF Fitting
<1> QED BY <1>1, <1>3, <1>6, <1>7 DEF Awake

\* Steps that leave the calls that ask as they are, or cut them off.
LEMMA AskingKept ==
  ASSUME Inv, UNCHANGED <<ticket, entry>>, cutOff \subseteq cutOff',
         \A c \in Calls : /\ call[c] \in Asking => \/ call'[c] \in Asking /\ on'[c] = on[c]
                                                   \/ on[c] \in cutOff'
                          /\ call'[c] = "waits" => call[c] = "waits" /\ on'[c] = on[c]
  PROVE  Reachable' \subseteq Reachable /\ Closed' = Closed /\ OnAsked \subseteq OnAsked'
<1>1. Closed' = Closed
  BY DEF Closed, Decided
<1>2. Reachable' \subseteq Reachable
  BY DEF Reachable, In
<1>3. OnAsked \subseteq OnAsked'
  BY DEF OnAsked, In
<1> QED BY <1>1, <1>2, <1>3

LEMMA SilentAwake ==
  ASSUME Inv, Awake, UNCHANGED <<folded, mixed>>, Unlogged' = Unlogged,
         Reachable' \subseteq Reachable, Closed \subseteq Closed', OnAsked \subseteq OnAsked',
         Unlogged[Loop] # {} => worker' = worker,
         worker \in {"off", "over"} => worker' \in {"off", "over"},
         runtime' = "queued" => runtime = "queued"
  PROVE  Awake'
BY Carry

\* An event that neither asks nor answers, of the loop or of a thread.
LEMMA PlainAwake ==
  ASSUME Inv, Awake, UNCHANGED <<folded, mixed>>,
         NEW p \in Procs, NEW es \in Seq(Event), Quiet(p), Publish(p, es),
         \A i \in 1..Len(es) :
           /\ es[i].type \notin {"requested", "resolved"}
           /\ es[i].type = "stopped" => runtime' # "queued" /\ (p = Loop => worker' = "over"),
         Reachable' \subseteq Reachable, Closed \subseteq Closed', OnAsked \subseteq OnAsked',
         p = Loop \/ worker' = worker,
         worker \in {"off", "over"} =>
           \/ worker' \in {"off", "over"} \/ runtime = "queued"
           \/ p = Loop /\ \E i \in 1..Len(es) : es[i] = Ev("resumed"),
         runtime' = "queued" => runtime = "queued"
  PROVE  Awake'
<1>1. /\ \A q \in Procs : q # p => Unlogged'[q] = Unlogged[q]
      /\ Unlogged[p] = {} /\ Unlogged'[p] = {es[i] : i \in 1..Len(es)}
  BY UnloggedPublished
<1>2. Loop \in Procs /\ \A i \in 1..Len(es) : es[i] \in Event
  BY UnloggedTyped
<1>3. \A q \in Procs : Unlogged[q] \subseteq Unlogged'[q]
  BY <1>1
<1>4. \A q \in Procs : \A e \in Unlogged'[q] :
        \/ e \in Unlogged[q]
        \/ /\ e \in Event /\ e.type \notin {"requested", "resolved"}
           /\ e.type = "stopped" => runtime' # "queued" /\ (q = Loop => worker' = "over")
  BY <1>1, <1>2
<1>5. Unlogged[Loop] # {} => worker' = worker /\ Unlogged'[Loop] = Unlogged[Loop]
  BY <1>1, <1>2
<1>6. worker \in {"off", "over"} => \/ worker' \in {"off", "over"} \/ runtime = "queued"
                                    \/ Ev("resumed") \in Unlogged'[Loop]
  BY <1>1
<1> QED BY <1>3, <1>4, <1>5, <1>6, Carry

LEMMA CutKept ==
  ASSUME Inv, Cut, UNCHANGED <<ticket, entry>>
  PROVE  Reachable' \subseteq Reachable /\ Closed' = Closed /\ OnAsked \subseteq OnAsked'
<1>1. /\ cutOff' = cutOff \cup {on[c] : c \in In(Asking)}
      /\ \A c \in Calls : call'[c] = call[c] \/ call'[c] = "cut"
      /\ \A c \in Calls : call[c] \in Asking => call'[c] = "cut"
  BY DEF Cut, SetCalls, Unstored, In
<1>2. \A c \in Calls : call[c] \in Asking => on[c] \in cutOff'
  BY <1>1 DEF In
<1>3. \A c \in Calls : call'[c] # "waits"
  BY <1>1 DEF Asking
<1> QED BY <1>1, <1>2, <1>3, AskingKept

LEMMA WorkerAwake ==
  ASSUME Inv, Order, Awake, Start \/ Resume \/ Stopped \/ Fails \/ Completes \/ Finalize
  PROVE  Awake'
<1>0. Loop \in Procs /\ \A k \in RunKinds : Ev(k) \in Event /\ Ev(k).type = k
  BY UnloggedTyped, EventsTyped DEF Ev
<1>1. UNCHANGED <<ticket, entry, call, on, cutOff>> =>
        Reachable' \subseteq Reachable /\ Closed' = Closed /\ OnAsked \subseteq OnAsked'
  BY AskingKept
<1>2. CASE Start
  <2> DEFINE es == <<Ev("started"), Ev("step")>>
  <2>1. es \in Seq(Event) /\ \A i \in 1..Len(es) : es[i].type \in {"started", "step"}
    BY <1>0 DEF RunKinds
  <2>2. /\ Quiet(Loop) /\ Publish(Loop, es) /\ runtime = "queued" /\ runtime' = "running"
        /\ UNCHANGED <<folded, mixed, ticket, entry, call, on, cutOff>>
    BY <1>2 DEF Start, LoopFree, states, approvals
  <2> HIDE DEF es
  <2> QED BY <1>0, <1>1, <2>1, <2>2, PlainAwake
<1>3. CASE Resume
  <2> DEFINE es == <<Ev("resumed"), Ev("step")>>
  <2>1. /\ es \in Seq(Event) /\ \A i \in 1..Len(es) : es[i].type \in {"resumed", "step"}
        /\ \E i \in 1..Len(es) : es[i] = Ev("resumed")
    <3>1. es \in Seq(Event) /\ \A i \in 1..Len(es) : es[i].type \in {"resumed", "step"}
      BY <1>0 DEF RunKinds
    <3>2. 1 \in 1..Len(es) /\ es[1] = Ev("resumed")
      OBVIOUS
    <3> QED BY <3>1, <3>2
  <2>2. /\ Quiet(Loop) /\ Publish(Loop, es) /\ runtime' = "running"
        /\ UNCHANGED <<folded, mixed, ticket, entry, call, on, cutOff>>
    BY <1>3 DEF Resume, LoopFree, states, approvals
  <2> HIDE DEF es
  <2> QED BY <1>0, <1>1, <2>1, <2>2, PlainAwake
<1>4. CASE Stopped \/ Fails
  <2>1. PICK k \in {"stopped", "failed"} :
          /\ Publish(Loop, <<Ev(k)>>) /\ runtime' = k /\ worker' = "over" /\ Quiet(Loop) /\ Cut
          /\ UNCHANGED <<folded, mixed, ticket, entry>>
    BY <1>4 DEF Stopped, Fails, Ends, LoopFree, states, approvals
  <2> DEFINE es == <<Ev(k)>>
  <2>2. es \in Seq(Event) /\ \A i \in 1..Len(es) : es[i].type = k
    BY <1>0 DEF RunKinds
  <2>3. Publish(Loop, es)
    BY <2>1
  <2> HIDE DEF es
  <2> QED BY <1>0, <2>1, <2>2, <2>3, CutKept, PlainAwake
<1>5. CASE Completes
  <2> DEFINE es == <<Ev("completed")>>
  <2>1. es \in Seq(Event) /\ \A i \in 1..Len(es) : es[i].type = "completed"
    BY <1>0 DEF RunKinds
  <2>2. /\ Quiet(Loop) /\ Publish(Loop, es) /\ runtime' = "completed" /\ worker' = "over"
        /\ UNCHANGED <<folded, mixed, ticket, entry, call, on, cutOff>>
    BY <1>5 DEF Completes, Ends, LoopFree, states, approvals
  <2> HIDE DEF es
  <2> QED BY <1>0, <1>1, <2>1, <2>2, PlainAwake
<1>6. CASE Finalize
  <2>1. /\ Quiet(Loop) /\ worker' = "off"
        /\ UNCHANGED <<pub, runtime, folded, mixed, ticket, entry, call, on, cutOff>>
    BY <1>6 DEF Finalize, LoopFree, states, approvals
  <2>2. Unlogged' = Unlogged /\ Unlogged[Loop] = {}
    BY <1>0, <2>1 DEF Unlogged, Quiet
  <2> QED BY <1>1, <2>1, <2>2, SilentAwake
<1> QED BY <1>2, <1>3, <1>4, <1>5, <1>6

LEMMA ModelAwake ==
  ASSUME Inv, Order, Awake, (\E n \in 1..NumCalls : Reply(n)) \/ Commit \/ LastReply \/ NextRequest
  PROVE  Awake'
<1>0. Loop \in Procs
  BY UnloggedTyped
<1>1. ASSUME NEW n \in 1..NumCalls, Reply(n) PROVE Awake'
  <2> DEFINE es == [i \in 1..n |-> EvOf("call", Made + i)]
  <2>1. /\ Quiet(Loop) /\ Publish(Loop, es) /\ worker = "model" /\ n \in Nat /\ Made + n <= NumCalls
        /\ UNCHANGED <<folded, mixed, ticket, entry, on, cutOff, runtime>>
        /\ call' = SetCalls(Made + 1 .. Made + n, "called")
    BY <1>1 DEF Reply, LoopFree, states, approvals, run
  <2>2. Made \in Nat /\ Calls \subseteq Nat /\ \A c \in Calls : call[c] # "new" <=> c <= Made
    BY MadeFirst, CallsAssumption DEF Calls
  <2>3. \A c \in Calls : call'[c] = call[c] \/ (call[c] = "new" /\ call'[c] = "called")
    BY <2>1, <2>2 DEF SetCalls
  <2>4. Reachable' \subseteq Reachable /\ Closed' = Closed /\ OnAsked \subseteq OnAsked'
    BY <2>1, <2>3, AskingKept DEF Asking, Answers
  <2>5. \A i \in 1..n : EvOf("call", Made + i) \in Event /\ EvOf("call", Made + i).type = "call"
    <3>1. \A i \in 1..n : Made + i \in Calls
      BY <2>1, <2>2, CallsAssumption DEF Calls
    <3> QED BY <3>1, EventsTyped DEF CallKinds, EvOf
  <2>6. es \in Seq(Event) /\ \A i \in 1..Len(es) : es[i].type = "call"
    BY <2>1, <2>5
  <2> HIDE DEF es
  <2> QED BY <1>0, <2>1, <2>4, <2>6, PlainAwake
<1>2. CASE Commit \/ LastReply
  <2> DEFINE es == IF Commit THEN Outcomes ELSE Outcomes \o <<Ev("step")>>
  <2>1. /\ Quiet(Loop) /\ Publish(Loop, es) /\ worker \in {"commit", "model"}
        /\ UNCHANGED <<folded, mixed, ticket, entry, on, cutOff, runtime>>
        /\ call' = Settled
    BY <1>2 DEF Commit, LastReply, LoopFree, states, approvals, run
  <2>2. \A c \in Calls : \/ call'[c] = call[c]
                         \/ call[c] \in {"back", "invalid"} /\ call'[c] \in {"stored", "refused"}
    BY <2>1 DEF Settled
  <2>3. Reachable' \subseteq Reachable /\ Closed' = Closed /\ OnAsked \subseteq OnAsked'
    BY <2>1, <2>2, AskingKept DEF Asking, Answers
  <2>4. /\ Outcomes \in Seq(Event)
        /\ \A i \in 1..Len(Outcomes) : Outcomes[i].type \in {"result", "invalid"}
    <3>1. Outcomes \in Seq(Event) /\ Ready \in Nat
      BY <2>1, OutcomesTyped, ReadyBetween DEF Inv
    <3>2. Len(Outcomes) = Ready
      BY <3>1 DEF Outcomes
    <3>3. \A c : Outcome(c).type \in {"result", "invalid"}
      BY DEF Outcome, EvOf
    <3> QED BY <3>1, <3>2, <3>3 DEF Outcomes
  <2>5. Ev("step") \in Event /\ Ev("step").type = "step"
    BY EventsTyped DEF RunKinds, Ev
  <2>6. es \in Seq(Event) /\ \A i \in 1..Len(es) : es[i].type \in {"result", "invalid", "step"}
    BY <2>4, <2>5
  <2> HIDE DEF es
  <2> QED BY <1>0, <2>1, <2>3, <2>6, PlainAwake
<1>3. CASE NextRequest
  <2>1. /\ Quiet(Loop) /\ worker = "tools"
        /\ UNCHANGED <<pub, runtime, folded, mixed, ticket, entry, call, on, cutOff>>
    BY <1>3 DEF NextRequest, LoopFree, states, approvals, run
  <2>2. Unlogged' = Unlogged /\ Unlogged[Loop] = {}
    BY <1>0, <2>1 DEF Unlogged, Quiet
  <2> QED BY <2>1, <2>2, AskingKept, SilentAwake
<1> QED BY <1>1, <1>2, <1>3

LEMMA CallAwake ==
  ASSUME Inv, Order, TicketOrder, Awake, NEW c \in Calls, CallStep(c) \/ Refused(c) \/ TimesOut(c)
  PROVE  Awake'
<1>0. /\ Loop \in Procs /\ ticket \in [Calls -> {"absent", "requested", "approved", "denied",
                                                 "timed_out", "completed"}]
      /\ entry \in [Calls -> {"none", "open"} \cup Answers]
      /\ call \in [Calls -> CallPc] /\ on \in [Calls -> Calls \cup {0}]
  BY UnloggedTyped DEF Inv, TypeOK
<1>1. CASE EnterFree(c) \/ EnterApproved(c) \/ Refused(c) \/ TimesOut(c)
  <2>1. /\ UNCHANGED <<pub, folded, mixed, ticket, entry, cutOff, worker>>
        /\ runtime' = "queued" => runtime = "queued"
        /\ \/ /\ call[c] = "called" /\ \E x \in {"acts", "invalid"} : call' = SetCalls({c}, x)
              /\ on' = on \/ \E k : on' = [on EXCEPT ![c] = k]
           \/ /\ call[c] = "waits" /\ call' = SetCalls({c}, "expired") /\ on' = on
    BY <1>1 DEF EnterFree, EnterApproved, Refused, TimesOut, Entering, states, approvals,
       run
  <2>2. \A d \in Calls :
          /\ call[d] \in Asking => call'[d] \in Asking /\ on'[d] = on[d]
          /\ call'[d] = "waits" => call[d] = "waits" /\ on'[d] = on[d]
    BY <2>1, <1>0 DEF SetCalls, Asking, Answers
  <2>3. Reachable' \subseteq Reachable /\ Closed' = Closed /\ OnAsked \subseteq OnAsked'
    BY <2>1, <2>2, AskingKept
  <2>4. Unlogged' = Unlogged
    BY <2>1 DEF Unlogged
  <2> QED BY <2>1, <2>3, <2>4, SilentAwake
<1>2. CASE EnterWaiting(c)
  <2>1. PICK k \in Tickets("requested") \cup {c} :
          /\ ticket' = [ticket EXCEPT ![k] = "requested"]
          /\ entry' = [entry EXCEPT ![k] = IF @ = "none" THEN "open" ELSE @]
          /\ on' = [on EXCEPT ![c] = k]
          /\ call' = SetCalls({c}, IF entry[k] \in Answers THEN entry[k] ELSE "waits")
          /\ Publish(Loop, IF entry[k] = "none" THEN <<EvOf("requested", k)>> ELSE <<>>)
    BY <1>2 DEF EnterWaiting
  <2> DEFINE es == IF entry[k] = "none" THEN <<EvOf("requested", k)>> ELSE <<>>
  <2>2. /\ call[c] = "called" /\ ticket[c] = "absent" /\ entry[c] = "none" /\ worker = "tools"
        /\ Quiet(Loop) /\ UNCHANGED <<folded, mixed, cutOff, worker>> /\ runtime' = "paused"
    BY <1>2 DEF EnterWaiting, Entering, TicketOrder, LoopFree, states
  <2>3. k \in Calls /\ k \notin Closed /\ (k = c \/ ticket[k] = "requested")
    BY <2>1, <2>2 DEF Tickets, Closed, Decided
  <2>4. EvOf("requested", k) \in Event /\ EvOf("requested", k).type = "requested"
        /\ EvOf("requested", k).call = k
    BY <2>3, EventsTyped DEF CallKinds, EvOf
  <2>5. /\ es \in Seq(Event) /\ Publish(Loop, es)
        /\ {es[i] : i \in 1..Len(es)} = IF entry[k] = "none" THEN {EvOf("requested", k)} ELSE {}
    BY <2>1, <2>4
  <2> HIDE DEF es
  <2>6. /\ \A q \in Procs : q # Loop => Unlogged'[q] = Unlogged[q]
        /\ Unlogged[Loop] = {}
        /\ Unlogged'[Loop] = IF entry[k] = "none" THEN {EvOf("requested", k)} ELSE {}
    BY <1>0, <2>2, <2>5, UnloggedPublished
  <2>7. \A d \in Calls : /\ ticket'[d] = IF d = k THEN "requested" ELSE ticket[d]
                         /\ d # k => entry'[d] = entry[d]
                         /\ entry'[k] = IF entry[k] = "none" THEN "open" ELSE entry[k]
                         /\ on'[d] = IF d = c THEN k ELSE on[d]
                         /\ d # c => call'[d] = call[d]
                         /\ call'[c] \in Asking
    BY <1>0, <2>1, <2>3 DEF SetCalls, Asking, Answers
  <2>8. Closed' = Closed
    BY <2>3, <2>7 DEF Closed, Decided
  <2>9. OnAsked \subseteq OnAsked' /\ k \in OnAsked'
    <3>1. \A d \in Calls : call[d] \in Asking => call'[d] \in Asking /\ on'[d] = on[d]
      BY <2>2, <2>7 DEF Asking, Answers
    <3>2. on'[c] = k /\ call'[c] \in Asking
      BY <2>7
    <3> QED BY <2>2, <3>1, <3>2 DEF OnAsked, In
  <2>10. \A d \in Reachable' : \/ d \in Reachable
                               \/ d \notin Closed /\ EvOf("requested", d) \in Unlogged'[Loop]
    <3> TAKE d \in Reachable'
    <3>1. d \in Calls /\ entry'[d] = "open"
      BY DEF Reachable
    <3>2. CASE d = k /\ entry[k] = "none"
      BY <3>2, <2>3, <2>6
    <3>3. CASE d = k /\ entry[k] # "none"
      <4>1. ticket[k] = "requested" /\ entry[k] = "open"
        BY <3>1, <3>3, <2>2, <2>3, <2>7
      <4> QED BY <3>3, <4>1, <2>3 DEF Reachable
    <3>4. CASE d # k
      <4>1. entry[d] = "open" /\ ticket'[d] = ticket[d]
        BY <3>1, <3>4, <2>7
      <4>2. \A b \in Calls : call'[b] = "waits" /\ on'[b] = d => call[b] = "waits" /\ on[b] = d
        BY <3>4, <2>7
      <4> QED BY <3>1, <4>1, <4>2 DEF Reachable, In
    <3> QED BY <3>2, <3>3, <3>4
  <2>11. \A q \in Procs : \A e \in Unlogged'[q] :
           \/ e \in Unlogged[q]
           \/ /\ e \in Event /\ e.type = "requested"
              /\ q = Loop /\ Unlogged'[Loop] = {e} /\ e.call \in OnAsked'
    BY <2>4, <2>6, <2>9
  <2> QED BY <2>2, <2>6, <2>8, <2>9, <2>10, <2>11, Carry
<1>3. CASE Collect(c)
  <2> DEFINE k == on[c]
             es == <<EvOf("resolved", k)>>
  <2>1. /\ Quiet(Loop) /\ worker = "tools" /\ call[c] \in Asking \ {"waits"}
        /\ entry' = [entry EXCEPT ![k] = "none"]
        /\ ticket' = [ticket EXCEPT ![k] = Verdict(call[c])]
        /\ call' = SetCalls({c}, IF call[c] = "approve" THEN "acts" ELSE "back")
        /\ Publish(Loop, es) /\ runtime' # "queued"
        /\ UNCHANGED <<folded, mixed, cutOff, worker, on>>
    BY <1>3 DEF Collect, LoopFree, states
  <2>2. k \in Calls
    BY <2>1 DEF Inv, Bound
  <2>3. EvOf("resolved", k) \in Event /\ EvOf("resolved", k).type = "resolved"
        /\ EvOf("resolved", k).call = k
    BY <2>2, EventsTyped DEF CallKinds, EvOf
  <2>4. es \in Seq(Event) /\ {es[i] : i \in 1..Len(es)} = {EvOf("resolved", k)}
    BY <2>3
  <2> HIDE DEF es
  <2>5. /\ \A q \in Procs : q # Loop => Unlogged'[q] = Unlogged[q]
        /\ Unlogged[Loop] = {} /\ Unlogged'[Loop] = {EvOf("resolved", k)}
    BY <1>0, <2>1, <2>4, UnloggedPublished
  <2>6. Verdict(call[c]) \notin {"absent", "requested"}
    BY DEF Verdict
  <2>7. \A d \in Calls : /\ ticket'[d] = IF d = k THEN Verdict(call[c]) ELSE ticket[d]
                         /\ entry'[d] = IF d = k THEN "none" ELSE entry[d]
                         /\ d # c => call'[d] = call[d]
                         /\ call'[c] \in {"acts", "back"}
    BY <1>0, <2>1 DEF SetCalls
  <2>8. Closed \subseteq Closed' /\ k \in Closed'
    BY <2>2, <2>6, <2>7 DEF Closed, Decided
  <2>9. Reachable' \subseteq Reachable /\ k \notin Reachable'
    BY <2>1, <2>2, <2>7 DEF Reachable, In
  <2>10. \A d \in OnAsked : d \in OnAsked' \/ EvOf("resolved", d) \in Unlogged'[Loop]
    <3> TAKE d \in OnAsked
    <3>1. CASE d = k
      BY <3>1, <2>5
    <3>2. CASE d # k
      BY <3>2, <2>1, <2>7 DEF OnAsked, In
    <3> QED BY <3>1, <3>2
  <2>11. \A q \in Procs : \A e \in Unlogged'[q] :
           \/ e \in Unlogged[q]
           \/ e \in Event /\ e.type = "resolved" /\ e.call \in Closed' /\ e.call \notin Reachable'
    BY <2>3, <2>5, <2>8, <2>9
  <2> QED BY <2>1, <2>5, <2>8, <2>9, <2>10, <2>11, Carry
<1>4. CASE ActionEnds(c)
  <2>1. /\ UNCHANGED <<pub, runtime, folded, mixed, entry, cutOff, worker, on>>
        /\ call[c] = "acts" /\ call' = SetCalls({c}, "back")
        /\ ticket' = ticket \/ \E k \in Calls : ticket' = [ticket EXCEPT ![k] = "completed"]
    BY <1>0, <1>4 DEF ActionEnds, states, run
  <2>2. \A d \in Calls : ticket'[d] = ticket[d] \/ ticket'[d] = "completed"
    BY <1>0, <2>1
  <2>3. \A d \in Calls : /\ call[d] \in Asking => call'[d] \in Asking
                         /\ call'[d] = "waits" => call[d] = "waits"
    BY <2>1 DEF SetCalls, Asking, Answers
  <2>4. Closed \subseteq Closed' /\ Reachable' \subseteq Reachable /\ OnAsked \subseteq OnAsked'
    BY <2>1, <2>2, <2>3 DEF Closed, Decided, Reachable, OnAsked, In
  <2>5. Unlogged' = Unlogged
    BY <2>1 DEF Unlogged
  <2> QED BY <2>1, <2>4, <2>5, SilentAwake
<1> QED BY <1>1, <1>2, <1>3, <1>4 DEF CallStep

LEMMA ThreadAwake ==
  ASSUME Inv, Order, TicketOrder, Awake, NEW t \in Threads,
         \/ \E k \in Calls, a \in Answers : AnswerLooks(t, k, a)
         \/ Answering(t) \/ StopRequested(t) \/ StopMarks(t) \/ StopPending(t)
         \/ StopSubagent(t) \/ PauseMarks(t) \/ ResumeSubagent(t)
  PROVE  Awake'
<1>0. /\ Loop \in Procs /\ t \in Procs /\ t # Loop
      /\ ticket \in [Calls -> {"absent", "requested", "approved", "denied", "timed_out",
                               "completed"}]
      /\ entry \in [Calls -> {"none", "open"} \cup Answers]
      /\ thread[t] \in Thread
  BY UnloggedTyped DEF Inv, TypeOK
<1>1. CASE \/ \E k \in Calls, a \in Answers : AnswerLooks(t, k, a)
           \/ StopRequested(t) \/ StopMarks(t) \/ PauseMarks(t)
  <2>1. /\ UNCHANGED <<pub, folded, mixed, ticket, entry, call, on, cutOff, worker>>
        /\ runtime' = "queued" => runtime = "queued"
    BY <1>1 DEF AnswerLooks, StopRequested, StopMarks, PauseMarks, agent, approvals, states,
       run
  <2>2. Unlogged' = Unlogged
    BY <2>1 DEF Unlogged
  <2> QED BY <2>1, <2>2, AskingKept, SilentAwake
<1>2. CASE AnswerRecords(t)
  <2> DEFINE k == thread[t].call
  <2>1. /\ UNCHANGED <<pub, runtime, folded, mixed, entry, call, on, cutOff, worker>>
        /\ ticket' = [ticket EXCEPT ![k] = Verdict(thread[t].action)]
    BY <1>2 DEF AnswerRecords, agent, states, run
  <2>2. Verdict(thread[t].action) \notin {"absent", "requested"}
    BY DEF Verdict
  <2>3. \A d \in Calls : ticket'[d] = ticket[d] \/ ticket'[d] \notin {"absent", "requested"}
    BY <1>0, <2>1, <2>2
  <2>4. Closed \subseteq Closed' /\ Reachable' \subseteq Reachable /\ OnAsked' = OnAsked
    BY <2>1, <2>3 DEF Closed, Decided, Reachable, OnAsked, In
  <2>5. Unlogged' = Unlogged
    BY <2>1 DEF Unlogged
  <2> QED BY <2>1, <2>4, <2>5, SilentAwake
<1>3. CASE AnswerSignals(t)
  <2> DEFINE k == thread[t].call
             a == thread[t].action
             S == {c \in In({"waits"}) : on[c] = k}
  <2>1. /\ UNCHANGED <<pub, runtime, folded, mixed, ticket, on, cutOff, worker>>
        /\ \/ UNCHANGED <<entry, call>>
           \/ entry' = [entry EXCEPT ![k] = a] /\ call' = SetCalls(S, a)
    BY <1>3 DEF AnswerSignals, run, states
  <2>2. a \in Answers /\ \A c \in S : call[c] = "waits"
    BY <1>0 DEF Thread, In
  <2> HIDE DEF k, a, S
  <2>3. \A d \in Calls : /\ entry'[d] = "open" => entry[d] = "open"
                         /\ call'[d] = call[d] \/ (call[d] = "waits" /\ call'[d] \in Answers)
    BY <1>0, <2>1, <2>2 DEF SetCalls, Answers
  <2>4. \A d \in Calls : /\ call[d] \in Asking => call'[d] \in Asking
                         /\ call'[d] = "waits" => call[d] = "waits"
    BY <2>3 DEF Asking, Answers
  <2>5. Closed' = Closed /\ Reachable' \subseteq Reachable /\ OnAsked \subseteq OnAsked'
    BY <2>1, <2>3, <2>4 DEF Closed, Decided, Reachable, OnAsked, In
  <2>6. Unlogged' = Unlogged
    BY <2>1 DEF Unlogged
  <2> QED BY <2>1, <2>5, <2>6, SilentAwake
<1>4. CASE AnswerChecks(t)
  <2> DEFINE k == thread[t].call
             es == <<EvOf("resolved", k)>>
  <2>1. /\ UNCHANGED <<runtime, folded, mixed, ticket, entry, call, on, cutOff, worker>>
        /\ Quiet(t) /\ k \in Calls /\ ticket[k] \notin {"absent", "requested"}
        /\ pub' = pub \/ (~running /\ Publish(t, es))
    BY <1>4 DEF AnswerChecks, run, agent, approvals, states, Inv, TypeOK, Bound,
       TicketOrder, Decided, Answered
  <2>2. Reachable' = Reachable /\ Closed' = Closed /\ OnAsked' = OnAsked
    BY <2>1 DEF Closed, Decided, Reachable, OnAsked, In
  <2>3. CASE pub' = pub
    <3>1. Unlogged' = Unlogged
      BY <2>3 DEF Unlogged
    <3> QED BY <2>1, <2>2, <3>1, SilentAwake
  <2>4. CASE ~running /\ Publish(t, es)
    <3>1. EvOf("resolved", k) \in Event /\ EvOf("resolved", k).type = "resolved"
          /\ EvOf("resolved", k).call = k
      BY <2>1, EventsTyped DEF CallKinds, EvOf
    <3>2. es \in Seq(Event) /\ {es[i] : i \in 1..Len(es)} = {EvOf("resolved", k)}
      BY <3>1
    <3> HIDE DEF es
    <3>3. /\ \A q \in Procs : q # t => Unlogged'[q] = Unlogged[q]
          /\ Unlogged[t] = {} /\ Unlogged'[t] = {EvOf("resolved", k)}
      BY <1>0, <2>1, <2>4, <3>2, UnloggedPublished
    <3>4. worker = "off" /\ \A c \in Calls : call[c] # "waits"
      BY <2>4 DEF Order, Inv, TypeOK, Open, Asking
    <3>5. k \in Closed' /\ k \notin Reachable'
      BY <2>1, <2>2, <3>4 DEF Closed, Decided, Reachable, In
    <3>6. \A q \in Procs : \A e \in Unlogged'[q] :
            \/ e \in Unlogged[q]
            \/ e \in Event /\ e.type = "resolved" /\ e.call \in Closed' /\ e.call \notin Reachable'
      BY <3>1, <3>3, <3>5
    <3>7. Unlogged'[Loop] = Unlogged[Loop] /\ \A q \in Procs : Unlogged[q] \subseteq Unlogged'[q]
      BY <1>0, <3>3
    <3> HIDE DEF k
    <3> QED BY <2>1, <2>2, <3>6, <3>7, Carry
  <2> QED BY <2>1, <2>3, <2>4
<1>5. CASE StopPending(t) \/ StopSubagent(t) \/ ResumeSubagent(t)
  <2>1. PICK k \in {"stopped", "subagent_stopped", "subagent_resumed"} :
          /\ Quiet(t) /\ Publish(t, <<Ev(k)>>)
          /\ UNCHANGED <<folded, mixed, ticket, entry, call, on, cutOff, worker>>
          /\ runtime' = "queued" => runtime = "queued"
          /\ k = "stopped" => runtime' # "queued"
    BY <1>5 DEF StopPending, StopSubagent, ResumeSubagent, Free, run, agent, approvals,
       states
  <2> DEFINE es == <<Ev(k)>>
  <2>2. Ev(k) \in Event /\ Ev(k).type = k
    BY EventsTyped DEF RunKinds, Ev
  <2>3. es \in Seq(Event) /\ Publish(t, es) /\ \A i \in 1..Len(es) : es[i].type = k
    BY <2>1, <2>2
  <2> HIDE DEF es
  <2>4. Reachable' \subseteq Reachable /\ Closed' = Closed /\ OnAsked \subseteq OnAsked'
    BY <2>1, AskingKept
  <2> QED BY <1>0, <2>1, <2>3, <2>4, PlainAwake
<1> QED BY <1>1, <1>2, <1>3, <1>4, <1>5 DEF Answering

LEMMA AwakeStep ==
  Inv /\ Order /\ Reporting /\ TicketOrder /\ Awake /\ [Next]_vars => Awake'
<1> SUFFICES ASSUME Inv, Order, Reporting, TicketOrder, Awake, [Next]_vars PROVE Awake'
  OBVIOUS
<1>1. ASSUME NEW p \in Procs, Read(p) \/ Write(p) PROVE Awake'
  <2>1. UNCHANGED <<runtime, folded, mixed, ticket, entry, call, on, cutOff, worker>>
    BY <1>1 DEF Read, Write, run, agent, approvals, states
  <2> QED BY <1>1, <2>1, UnloggedRead, AskingKept, SilentAwake
<1>2. CASE UNCHANGED vars
  <2>1. UNCHANGED <<pub, runtime, folded, mixed, ticket, entry, call, on, cutOff, worker>>
    BY <1>2 DEF vars, run, agent, approvals, states
  <2>2. Unlogged' = Unlogged
    BY <2>1 DEF Unlogged
  <2> QED BY <2>1, <2>2, AskingKept, SilentAwake
<1> QED BY <1>1, <1>2, LogAwake, CrashAwake, WorkerAwake, ModelAwake, CallAwake, ThreadAwake
   DEF Next, Publishing

\* While nobody is publishing, the state of a run that is not over shows every request that
\* an answer can still reach, and nothing but what is waited for or was cut off
\* (run_state_models.py, tools/runtime/execution.py), after any number of stops and crashes.
THEOREM EventsAwaitAnswer == Spec => []AwaitsAnswer
<1>1. Init => Order /\ Reporting /\ TicketOrder /\ Awake
  <2> SUFFICES ASSUME Init PROVE Order /\ Reporting /\ TicketOrder /\ Awake
    OBVIOUS
  <2>1. Order
    BY DEF Init, Order, Open, Asking, Answers
  <2>2. Reporting
    BY DEF Init, Reporting, NoPub
  <2>3. TicketOrder
    BY DEF Init, TicketOrder, Past, Asking, Answers, Answered, Idle
  <2>4. \A p \in Procs : Unlogged[p] = {}
    BY DEF Init, Unlogged, NoPub
  <2>5. Reachable = {}
    BY DEF Init, Reachable
  <2>6. Awake
    BY <2>4, <2>5 DEF Init, Awake, Fitting, Initial
  <2> QED BY <2>1, <2>2, <2>3, <2>6
<1>2. Inv /\ Order /\ Awake => AwaitsAnswer
  <2> SUFFICES ASSUME Inv, Order, Awake, AllQuiet, ~mixed, row.status \notin Final
               PROVE  /\ Asked # {} => row.status = "paused" /\ Asked \subseteq row.pending
                      /\ row.pending \subseteq {on[c] : c \in In(Asking)} \cup cutOff
    BY DEF AwaitsAnswer
  <2>1. row = folded
    BY DEF Inv, Folding, AllQuiet
  <2>2. Loop \in Procs /\ Unlogged[Loop] = {}
    <3>1. Loop \in Procs
      BY UnloggedTyped
    <3> QED BY <3>1 DEF AllQuiet, Quiet, Unlogged
  <2>3. Asked \subseteq Reachable
    BY DEF Asked, Reachable, In, Inv, Bound, Asking
  <2>4. Reachable \subseteq folded.pending /\ folded.pending \subseteq OnAsked
    BY <2>1, <2>2 DEF Awake
  <2>5. ASSUME Asked # {} PROVE folded.status = "paused"
    <3>1. PICK c \in Calls : call[c] = "waits"
      BY <2>5 DEF Asked, In
    <3>2. worker \notin {"off", "over"}
      BY <3>1 DEF Order, Open, Asking
    <3>3. folded.status # "stopped"
      BY <2>2, <3>2 DEF Awake
    <3>4. folded.pending # {}
      BY <2>3, <2>4, <2>5
    <3> QED BY <2>1, <3>3, <3>4 DEF Awake
  <2> QED BY <2>1, <2>3, <2>4, <2>5 DEF OnAsked
<1> QED BY <1>1, <1>2, InitInv, NextInv, OrderStep, ReportingStep, TicketStep, AwakeStep,
   PTL DEF Spec
=============================================================================
