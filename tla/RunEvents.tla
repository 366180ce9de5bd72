------------------------------ MODULE RunEvents ------------------------------
(***************************************************************************)
(* What a run reports of itself: the events its worker and the handlers of *)
(* the HTTP interface publish, the log that keeps them, and the run_states *)
(* row that folds them into a status.  RunEventHub.publish appends the     *)
(* event to the log, reads the row, folds and writes it back, and is       *)
(* called from the event loop and from pool threads at once.               *)
(*                                                                         *)
(* One run with one agent, whose tool calls ask for approval.  A handler's *)
(* statements up to its publish are one step; every publish takes three.   *)
(* Notifications, injections, text and token usage are events that change  *)
(* no status; they are published like those that are listed here.          *)
(***************************************************************************)
EXTENDS Naturals, Sequences, FiniteSets

CONSTANTS
  NumCalls,   \* bound: tool calls the model asks for, in this order
  Threads,    \* pool threads
  Loop,       \* the event loop
  Allowed,    \* which of the operations that UserStep counts may happen
  MaxOps,     \* bound: those operations in one behaviour
  MaxCuts     \* bound: stops and crashes

Operations == {"answer", "subagent", "pending"}
Procs == Threads \cup {Loop}

Calls == 1..NumCalls
ASSUME LoopAssumption   == Loop \notin Threads
ASSUME CallsAssumption  == NumCalls \in Nat
ASSUME BoundsAssumption == MaxOps \in Nat /\ MaxCuts \in Nat /\ Allowed \subseteq Operations

VARIABLES
  runtime, running, stopping,     \* the record's status; _running_run_ids; a stop is requested
  worker, call, on,               \* where the worker and its calls are; the ticket a call waits for
  ticket, entry,                  \* the approval_tickets table; the in-memory approvals
  thread,                         \* where each pool thread is
  pub,                            \* what each process still has to publish
  folded, row,                    \* the fold of the log; the run_states row
  reported, mixed,                \* histories: the results in the log; see Log
  cutOff,                         \* history: the calls whose wait or report was cut off
  ops, cuts

run       == <<runtime, running, stopping>>
agent     == <<worker, call, on>>
approvals == <<ticket, entry>>
states    == <<folded, row, reported, mixed>>
bounds    == <<ops, cuts>>
vars == <<run, agent, approvals, thread, pub, states, cutOff, bounds>>

Answers == {"approve", "deny"}
RunKinds  == {"started", "resumed", "step", "subagent_stopped", "subagent_resumed", "stopped",
              "completed", "failed"}
CallKinds == {"call", "requested", "resolved", "result", "invalid"}
Event     == [type : RunKinds, call : {0}] \cup [type : CallKinds, call : Calls]
Final   == {"completed", "failed"}
State   == [status : {"queued", "running", "paused", "stopped"} \cup Final,
            pending : SUBSET Calls, subagent : BOOLEAN]
Initial == [status |-> "queued", pending |-> {}, subagent |-> FALSE]

Asking   == {"waits", "approve", "deny", "expired"}
CallPc   == {"new", "called", "acts", "back", "invalid", "stored", "refused", "cut"} \cup Asking
ThreadPc == {"idle", "record", "signal", "check", "mark", "pause"}
Thread   == [pc : ThreadPc, call : Calls \cup {0}, action : Answers, found : BOOLEAN]
Idle     == [pc |-> "idle", call |-> 0, action |-> "deny", found |-> FALSE]

TypeOK ==
  /\ runtime \in {"queued", "running", "paused", "stopped"} \cup Final
  /\ running \in BOOLEAN /\ stopping \in BOOLEAN
  /\ worker \in {"off", "model", "tools", "commit", "final", "over"}
  /\ call \in [Calls -> CallPc] /\ on \in [Calls -> Calls \cup {0}]
  /\ ticket \in [Calls -> {"absent", "requested", "approved", "denied", "timed_out", "completed"}]
  /\ entry \in [Calls -> {"none", "open"} \cup Answers]
  /\ thread \in [Threads -> Thread]
  /\ pub \in [Procs -> [at : {"todo", "logged", "read"}, todo : Seq(Event), next : State]]
  /\ folded \in State /\ row \in State
  /\ reported \subseteq Calls /\ mixed \in BOOLEAN /\ cutOff \subseteq Calls
  /\ ops \in 0..MaxOps /\ cuts \in 0..MaxCuts

Quiet(p)  == pub[p].todo = <<>>
NoPub     == [at |-> "todo", todo |-> <<>>, next |-> Initial]

Init ==
  /\ runtime = "queued" /\ running = FALSE /\ stopping = FALSE
  /\ worker = "off" /\ call = [c \in Calls |-> "new"] /\ on = [c \in Calls |-> 0]
  /\ ticket = [c \in Calls |-> "absent"] /\ entry = [c \in Calls |-> "none"]
  /\ thread = [t \in Threads |-> Idle]
  /\ pub = [p \in Procs |-> NoPub]
  /\ folded = Initial /\ row = Initial
  /\ reported = {} /\ mixed = FALSE /\ cutOff = {}
  /\ ops = 0 /\ cuts = 0

(***************************************************************************)
(* Seeded faults: none of them is used below.                              *)
(***************************************************************************)
PendingReset(s, e) ==
  CASE e.type = "requested" -> s.pending \cup {e.call}
    [] e.type \in {"resolved", "result"} -> s.pending \ {e.call}
    [] e.type \in Final \cup {"resumed"} -> {}
    [] OTHER -> s.pending
OutcomeAlike(c) == [type |-> "result", call |-> c]

(***************************************************************************)
(* The fold: apply_run_event_to_state.                                     *)
(***************************************************************************)
Followups == {"resumed", "resolved", "subagent_resumed", "stopped"} \cup Final

PendingAfter(s, e) ==
  CASE e.type = "requested" -> s.pending \cup {e.call}
    [] e.type \in {"resolved", "result"} -> s.pending \ {e.call}
    [] e.type \in Final -> {}
    [] OTHER -> s.pending

SubagentAfter(s, e) ==
  IF e.type \in {"subagent_resumed"} \cup Final THEN FALSE
  ELSE s.subagent \/ e.type = "subagent_stopped"

StatusAfter(s, e) ==
  CASE e.type \in {"started", "resumed", "step"} -> "running"
    [] e.type \in {"requested", "subagent_stopped"} -> "paused"
    [] e.type \in Final \cup {"stopped"} -> e.type
    [] OTHER -> s.status

\* What is pending decides the status of a run that is neither over nor stopped.
Normal(s) ==
  IF s.status \in Final \cup {"stopped"} THEN s
  ELSE [s EXCEPT !.status = IF s.pending # {} \/ s.subagent THEN "paused"
                            ELSE IF s.status = "queued" THEN "queued" ELSE "running"]

Ignores(s, e) == s.status \in Final \/ (s.status = "stopped" /\ e.type \notin Followups)

Apply(s, e) ==
  IF Ignores(s, e) THEN s
  ELSE Normal([status |-> StatusAfter(s, e), pending |-> PendingAfter(s, e),
               subagent |-> SubagentAfter(s, e)])

(***************************************************************************)
(* RunEventHub.publish.                                                    *)
(***************************************************************************)
Ev(type)       == [type |-> type, call |-> 0]
EvOf(type, c)  == [type |-> type, call |-> c]
Publish(p, es) == pub' = [pub EXCEPT ![p].todo = es]

\* list_run_states and get_run_state: the fold of the log, here of one event more.
FromLog(e) == Apply(folded, e)

\* emit_run_event.  `mixed' records that two publishes overlapped, that the process ended in
\* one, or that the stop of a pending run was logged after it was resumed.
Log(p) ==
  LET e == Head(pub[p].todo) IN
  /\ ~Quiet(p) /\ pub[p].at = "todo"
  /\ folded' = FromLog(e)
  /\ reported' = IF e.type = "result" THEN reported \cup {e.call} ELSE reported
  /\ mixed' = (\/ mixed \/ (p # Loop /\ e.type = "stopped" /\ running)
               \/ \E q \in Procs \ {p} : pub[q].at # "todo")
  /\ pub' = [pub EXCEPT ![p].at = "logged"]
  /\ UNCHANGED <<run, agent, approvals, thread, row, cutOff, bounds>>

\* A seeded fault: the row is read back without its paused subagent.
NextUnpaused(p) == Apply([row EXCEPT !.subagent = FALSE], Head(pub[p].todo))

\* What apply_event makes of the row it reads.
NextOf(p) == Apply(row, Head(pub[p].todo))

Read(p) ==
  /\ pub[p].at = "logged"
  /\ pub' = [pub EXCEPT ![p].at = "read", ![p].next = NextOf(p)]
  /\ UNCHANGED <<run, agent, approvals, thread, states, cutOff, bounds>>

Write(p) ==
  /\ pub[p].at = "read" /\ row' = pub[p].next
  /\ pub' = [pub EXCEPT ![p] = [NoPub EXCEPT !.todo = Tail(pub[p].todo)]]
  /\ UNCHANGED <<run, agent, approvals, thread, folded, reported, mixed, cutOff, bounds>>

(***************************************************************************)
(* The worker: starting, resuming and ending.                              *)
(***************************************************************************)
LoopFree == Quiet(Loop)
UserStep(op) == op \in Allowed /\ ops < MaxOps /\ ops' = ops + 1
SetCalls(S, pc) == [c \in Calls |-> IF c \in S THEN pc ELSE call[c]]
In(pcs) == {c \in Calls : call[c] \in pcs}
\* What a stop, a failure or a crash takes from the worker.
Unstored == In({"called", "acts", "back", "invalid"} \cup Asking)
Cut ==
  /\ call' = SetCalls(Unstored, "cut") /\ on' = [c \in Calls |-> 0]
  /\ cutOff' = cutOff \cup {on[c] : c \in In(Asking)}

Start ==
  /\ LoopFree /\ ~running /\ runtime = "queued"
  /\ running' = TRUE /\ runtime' = "running" /\ worker' = "model"
  /\ Publish(Loop, <<Ev("started"), Ev("step")>>)
  /\ UNCHANGED <<stopping, call, on, approvals, thread, states, cutOff, bounds>>

\* A record that is_recoverable, resumed by a client.
Resume ==
  /\ LoopFree /\ ~running /\ runtime \in {"running", "paused", "stopped"} /\ worker = "off"
  /\ running' = TRUE /\ runtime' = "running" /\ worker' = "model"
  /\ Publish(Loop, <<Ev("resumed"), Ev("step")>>)
  /\ UNCHANGED <<stopping, call, on, approvals, thread, states, cutOff, bounds>>

Ends(status) ==
  /\ runtime' = status /\ worker' = "over"
  /\ Publish(Loop, <<Ev(status)>>)

\* The stop reaches the worker at an await.
Stopped ==
  /\ LoopFree /\ stopping /\ worker \in {"model", "tools"}
  /\ Ends("stopped") /\ Cut
  /\ UNCHANGED <<running, stopping, approvals, thread, states, bounds>>

\* The model does not answer, or a tool raises what is not handled.
Fails ==
  /\ LoopFree /\ worker \in {"model", "tools"} /\ cuts < MaxCuts /\ cuts' = cuts + 1
  /\ Ends("failed") /\ Cut
  /\ UNCHANGED <<running, stopping, approvals, thread, states, ops>>

Completes ==
  /\ LoopFree /\ worker = "final"
  /\ Ends("completed")
  /\ UNCHANGED <<running, stopping, call, on, approvals, thread, states, cutOff, bounds>>

Finalize ==
  /\ LoopFree /\ worker = "over"
  /\ running' = FALSE /\ stopping' = FALSE /\ worker' = "off"
  /\ UNCHANGED <<runtime, call, on, approvals, thread, pub, states, cutOff, bounds>>

(***************************************************************************)
(* The worker: the model's replies and the tool calls.                     *)
(***************************************************************************)
Made   == Cardinality({c \in Calls : call[c] # "new"})
Fresh  == Cardinality(In({"called"}))
Ready  == Cardinality(In({"back", "invalid"}))
\* The calls of a reply end before the model is asked again, so that the Ready ones are the
\* last but those of the reply that has just come.
Outcome(c) == EvOf(IF call[c] = "invalid" THEN "invalid" ELSE "result", c)
Outcomes   == [i \in 1..Ready |-> Outcome(Made - Fresh - Ready + i)]
Settled    == [c \in Calls |-> IF call[c] = "back" THEN "stored"
                               ELSE IF call[c] = "invalid" THEN "refused" ELSE call[c]]

\* A reply that asks for n tools.  Their calls are published before they are executed, and
\* before the outcomes of the previous ones.
Reply(n) ==
  /\ LoopFree /\ worker = "model" /\ Made + n <= NumCalls
  /\ worker' = "commit" /\ call' = SetCalls(Made + 1 .. Made + n, "called")
  /\ Publish(Loop, [i \in 1..n |-> EvOf("call", Made + i)])
  /\ UNCHANGED <<run, on, approvals, thread, states, cutOff, bounds>>

\* The messages are appended, then their outcomes published.
Commit ==
  /\ LoopFree /\ worker = "commit" /\ worker' = "tools"
  /\ call' = Settled /\ Publish(Loop, Outcomes)
  /\ UNCHANGED <<run, on, approvals, thread, states, cutOff, bounds>>

\* The last reply asks for no tool: the rest is committed, and the step is over.
LastReply ==
  /\ LoopFree /\ worker = "model" /\ worker' = "final"
  /\ call' = Settled /\ Publish(Loop, Outcomes \o <<Ev("step")>>)
  /\ UNCHANGED <<run, on, approvals, thread, states, cutOff, bounds>>

\* The history is put together again and the model asked for the next reply.
NextRequest ==
  /\ LoopFree /\ worker = "tools" /\ In({"called", "acts"} \cup Asking) = {}
  /\ worker' = "model"
  /\ UNCHANGED <<run, call, on, approvals, thread, pub, states, cutOff, bounds>>

\* What a tool call finds: arguments that do not validate, no need for an approval, an
\* approved ticket, an open one, or none.  Tools and arguments are left open, and with them
\* which tickets have the signature of the call.
Entering(c) == LoopFree /\ worker = "tools" /\ ~stopping /\ call[c] = "called"
Tickets(st) == {k \in Calls : ticket[k] = st}

Refused(c) ==
  /\ LoopFree /\ worker = "tools" /\ call[c] = "called"
  /\ call' = SetCalls({c}, "invalid")
  /\ UNCHANGED <<run, worker, on, approvals, thread, pub, states, cutOff, bounds>>

EnterFree(c) ==
  /\ Entering(c)
  /\ call' = SetCalls({c}, "acts") /\ runtime' = "running"
  /\ UNCHANGED <<running, stopping, worker, on, approvals, thread, pub, states, cutOff, bounds>>

EnterApproved(c) ==
  /\ Entering(c)
  /\ \E k \in Tickets("approved") : on' = [on EXCEPT ![c] = k]
  /\ call' = SetCalls({c}, "acts") /\ runtime' = "running"
  /\ UNCHANGED <<running, stopping, worker, approvals, thread, pub, states, cutOff, bounds>>

\* The request is published when the ticket or its entry is new.
EnterWaiting(c) ==
  /\ Entering(c)
  /\ \E k \in Tickets("requested") \cup {c} :
       /\ ticket' = [ticket EXCEPT ![k] = "requested"]
       /\ entry' = [entry EXCEPT ![k] = IF @ = "none" THEN "open" ELSE @]
       /\ on' = [on EXCEPT ![c] = k]
       /\ call' = SetCalls({c}, IF entry[k] \in Answers THEN entry[k] ELSE "waits")
       /\ Publish(Loop, IF entry[k] = "none" THEN <<EvOf("requested", k)>> ELSE <<>>)
  /\ runtime' = "paused"
  /\ UNCHANGED <<running, stopping, worker, thread, states, cutOff, bounds>>

TimesOut(c) ==
  /\ call[c] = "waits" /\ call' = SetCalls({c}, "expired")
  /\ UNCHANGED <<run, worker, on, approvals, thread, pub, states, cutOff, bounds>>

\* The helper thread is back with what it heard, also if that was a timeout: the entry is
\* closed, the ticket and the record are written, the event is published.
Verdict(a) == IF a = "approve" THEN "approved" ELSE IF a = "deny" THEN "denied" ELSE "timed_out"

Collect(c) ==
  LET k == on[c] IN
  /\ LoopFree /\ worker = "tools" /\ call[c] \in Asking \ {"waits"}
  /\ entry' = [entry EXCEPT ![k] = "none"]
  /\ ticket' = [ticket EXCEPT ![k] = Verdict(call[c])]
  /\ runtime' = IF call[c] = "approve" THEN "running" ELSE "paused"
  /\ call' = SetCalls({c}, IF call[c] = "approve" THEN "acts" ELSE "back")
  /\ Publish(Loop, <<EvOf("resolved", k)>>)
  /\ UNCHANGED <<running, stopping, worker, on, thread, states, cutOff, bounds>>

ActionEnds(c) ==
  /\ LoopFree /\ worker = "tools" /\ call[c] = "acts"
  /\ call' = SetCalls({c}, "back")
  /\ ticket' = IF on[c] = 0 THEN ticket ELSE [ticket EXCEPT ![on[c]] = "completed"]
  /\ UNCHANGED <<run, worker, on, entry, thread, pub, states, cutOff, bounds>>

(***************************************************************************)
(* The handlers, in pool threads.                                          *)
(***************************************************************************)
Free(t)     == thread[t].pc = "idle" /\ Quiet(t)
Goes(t, pc) == thread' = [thread EXCEPT ![t].pc = pc]

\* resolve_tool_approval: refused while the run is stopped and not running.
AnswerLooks(t, k, a) ==
  /\ Free(t) /\ UserStep("answer")
  /\ ticket[k] # "absent" /\ (running \/ runtime # "stopped")
  /\ thread' = [thread EXCEPT ![t] = [pc |-> "record", call |-> k, action |-> a,
                                      found |-> entry[k] # "none"]]
  /\ UNCHANGED <<run, agent, approvals, pub, states, cutOff, cuts>>

AnswerRecords(t) ==
  /\ thread[t].pc = "record"
  /\ ticket' = [ticket EXCEPT ![thread[t].call] = Verdict(thread[t].action)]
  /\ Goes(t, IF thread[t].found THEN "signal" ELSE "check")
  /\ UNCHANGED <<run, agent, entry, pub, states, cutOff, bounds>>

\* Whoever waits hears it; if the entry is gone, the request ends with an error.
AnswerSignals(t) ==
  LET k == thread[t].call IN
  /\ thread[t].pc = "signal"
  /\ IF entry[k] = "none" THEN thread' = [thread EXCEPT ![t] = Idle] /\ UNCHANGED <<entry, call>>
     ELSE /\ entry' = [entry EXCEPT ![k] = thread[t].action] /\ Goes(t, "check")
          /\ call' = SetCalls({c \in In({"waits"}) : on[c] = k}, thread[t].action)
  /\ UNCHANGED <<run, worker, on, ticket, pub, states, cutOff, bounds>>

\* The worker of a running run publishes the answer itself.
AnswerChecks(t) ==
  /\ thread[t].pc = "check" /\ thread' = [thread EXCEPT ![t] = Idle]
  /\ IF running THEN pub' = pub ELSE Publish(t, <<EvOf("resolved", thread[t].call)>>)
  /\ UNCHANGED <<run, agent, approvals, states, cutOff, bounds>>

\* stop_run of a running run: the request, then the record.
StopRequested(t) ==
  /\ Free(t) /\ running /\ worker # "off" /\ cuts < MaxCuts /\ cuts' = cuts + 1
  /\ stopping' = TRUE /\ Goes(t, "mark")
  /\ UNCHANGED <<runtime, running, agent, approvals, pub, states, cutOff, ops>>

StopMarks(t) ==
  /\ thread[t].pc = "mark" /\ runtime' = "stopped" /\ Goes(t, "idle")
  /\ UNCHANGED <<running, stopping, agent, approvals, pub, states, cutOff, bounds>>

\* stop_run of a run that is pending.
StopPending(t) ==
  /\ Free(t) /\ ~running /\ runtime = "queued" /\ UserStep("pending")
  /\ runtime' = "stopped" /\ Publish(t, <<Ev("stopped")>>)
  /\ UNCHANGED <<running, stopping, agent, approvals, thread, states, cutOff, cuts>>

\* stop_subagent publishes, then writes the record; the follow-up does it the other way.
StopSubagent(t) ==
  /\ Free(t) /\ UserStep("subagent") /\ runtime # "queued"
  /\ Publish(t, <<Ev("subagent_stopped")>>) /\ Goes(t, "pause")
  /\ UNCHANGED <<run, agent, approvals, states, cutOff, cuts>>

PauseMarks(t) ==
  /\ thread[t].pc = "pause" /\ Quiet(t) /\ runtime' = "paused" /\ Goes(t, "idle")
  /\ UNCHANGED <<running, stopping, agent, approvals, pub, states, cutOff, bounds>>

ResumeSubagent(t) ==
  /\ Free(t) /\ UserStep("subagent") /\ runtime # "queued"
  /\ runtime' = "running" /\ Publish(t, <<Ev("subagent_resumed")>>)
  /\ UNCHANGED <<running, stopping, agent, approvals, thread, states, cutOff, cuts>>

\* What was being published is logged or lost; an event that is logged may not be applied.
Untold(p) == {pub[p].todo[i].call : i \in 1..Len(pub[p].todo)}

Crash ==
  /\ cuts < MaxCuts /\ cuts' = cuts + 1 /\ runtime # "queued"
  /\ running' = FALSE /\ stopping' = FALSE /\ worker' = "off"
  /\ call' = SetCalls(Unstored, "cut") /\ on' = [c \in Calls |-> 0]
  /\ entry' = [c \in Calls |-> "none"] /\ thread' = [t \in Threads |-> Idle]
  /\ pub' = [p \in Procs |-> NoPub]
  /\ mixed' = (mixed \/ \E p \in Procs : pub[p].at # "todo")
  /\ cutOff' = (cutOff \cup {on[c] : c \in In(Asking)} \cup UNION {Untold(p) : p \in Procs}) \ {0}
  /\ UNCHANGED <<runtime, ticket, folded, row, reported, ops>>

(***************************************************************************)
(* Specification.                                                          *)
(***************************************************************************)
Publishing(p) == Log(p) \/ Read(p) \/ Write(p)
CallStep(c)   == \/ EnterFree(c) \/ EnterApproved(c) \/ EnterWaiting(c) \/ Collect(c)
                 \/ ActionEnds(c)
Answering(t)  == AnswerRecords(t) \/ AnswerSignals(t) \/ AnswerChecks(t)

Next ==
  \/ \E p \in Procs : Publishing(p)
  \/ Start \/ Resume \/ Stopped \/ Fails \/ Completes \/ Finalize
  \/ \E n \in 1..NumCalls : Reply(n)
  \/ Commit \/ LastReply \/ NextRequest
  \/ \E c \in Calls : CallStep(c) \/ Refused(c) \/ TimesOut(c)
  \/ \E t \in Threads : \/ \E k \in Calls, a \in Answers : AnswerLooks(t, k, a)
                        \/ Answering(t) \/ StopRequested(t) \/ StopMarks(t) \/ StopPending(t)
                        \/ StopSubagent(t) \/ PauseMarks(t) \/ ResumeSubagent(t)
  \/ Crash

Spec == Init /\ [][Next]_vars

(***************************************************************************)
(* Properties.                                                             *)
(***************************************************************************)
AllQuiet == \A p \in Procs : Quiet(p)

\* The row is what the log says of the run whenever nobody is publishing, unless two
\* publishes overlapped or the process ended in one.
RowFolds == ~mixed /\ AllQuiet => row = folded

Asked == {on[c] : c \in {d \in In({"waits"}) : entry[on[d]] = "open"}}

\* While nobody is publishing, the state of a run under way shows every request that an
\* answer can still reach, also after stops, crashes, timeouts and answers from threads; and
\* what it shows is waited for, or was when a stop or a crash cut the call off.
AwaitsAnswer ==
  AllQuiet /\ ~mixed /\ row.status \notin Final =>
    /\ Asked # {} => row.status = "paused" /\ Asked \subseteq row.pending
    /\ row.pending \subseteq {on[c] : c \in In(Asking)} \cup cutOff

\* A result is reported when it is stored, and not before; all that is stored has been
\* reported once the loop is quiet, unless the process ended in between.
ResultsReported ==
  /\ reported \subseteq In({"stored"})
  /\ Quiet(Loop) => In({"stored"}) \subseteq reported \cup cutOff
=============================================================================
