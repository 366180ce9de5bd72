---------------------------- MODULE ToolApproval ----------------------------
(***************************************************************************)
(* Tool approval in one run: execute_tool and its waiting loop             *)
(* (tools/runtime/execution.py), the in-memory ToolApprovalManager         *)
(* (tools/runtime/approval_state.py), the approval_tickets table           *)
(* (state/approval_ticket_repo.py) and RunManager.resolve_tool_approval.   *)
(*                                                                         *)
(* A call is a coroutine that blocks a helper thread on a threading.Event; *)
(* answers come from threads of the server's pool.  The helper and the     *)
(* coroutine are two actors: what the helper saw is acted upon later.      *)
(***************************************************************************)
EXTENDS Naturals, FiniteSets

CONSTANTS
  Calls,      \* tool invocations; a ticket bears the id of the call that opened it
  Signatures, \* run, task, instance, role, tool and arguments, hashed
  Sig,        \* the signature of each call
  Resolvers,  \* threads that serve POST .../tool-approvals/{id}/resolve
  None

ASSUME SigAssumption  == Sig \in [Calls -> Signatures]
ASSUME NoneAssumption == None \notin Calls

VARIABLES
  run,        \* running, stopping (a stop was requested), stopped, crashed, over
  ticket,     \* approval_tickets.status: survives a crash
  entry,      \* _approvals: the Event object in the dictionary, named by its creator
  answer,     \* _ToolApprovalEntry.action of every Event object
  call,       \* where each tool call is, and the ticket it depends on
  object,     \* the Event object a call's helper thread holds
  resolver,   \* where each answering thread is
  approved    \* history: tickets an answering thread recorded as approved

mem  == <<entry, answer, object>>
vars == <<run, ticket, mem, call, resolver, approved>>

Answers     == {"approve", "deny"}
TicketState == {"absent", "requested", "approved", "denied", "timed_out", "completed"}
Waiting     == {"entering", "waiting", "expired", "missing"} \cup Answers  \* what the helper heard
\* `aborted': cancelled after its action had started.
Outcome     == {"done", "denied", "failed", "cancelled", "aborted"}
Started     == {"acting", "done", "aborted"}
CallState   == [pc : {"new", "acting"} \cup Waiting \cup Outcome, ticket : Calls \cup {None}]
ResolverState == [pc : {"idle", "record", "signal"}, ticket : Calls \cup {None},
                  action : Answers, found : BOOLEAN]
IdleResolver == [pc |-> "idle", ticket |-> None, action |-> "deny", found |-> FALSE]

TypeOK ==
  /\ run \in {"running", "stopping", "stopped", "crashed", "over"}
  /\ ticket \in [Calls -> TicketState]
  /\ entry \in [Calls -> Calls \cup {None}]
  /\ answer \in [Calls -> Answers \cup {"none"}]
  /\ call \in [Calls -> CallState]
  /\ object \in [Calls -> Calls \cup {None}]
  /\ resolver \in [Resolvers -> ResolverState]
  /\ approved \subseteq Calls

InFlight(c) == call[c].pc \in Waiting \cup {"acting"}

Init ==
  /\ run = "running"
  /\ ticket = [k \in Calls |-> "absent"]
  /\ entry = [k \in Calls |-> None]
  /\ answer = [o \in Calls |-> "none"]
  /\ call = [c \in Calls |-> [pc |-> "new", ticket |-> None]]
  /\ object = [c \in Calls |-> None]
  /\ resolver = [w \in Resolvers |-> IdleResolver]
  /\ approved = {}

(***************************************************************************)
(* Seeded faults: none of them is used below.                              *)
(***************************************************************************)
VerdictSwapped(a)     == IF a = "approve" THEN "denied" ELSE "approved"
OpenedAnew(k, c)      == c
ExpireSilently(k)     == UNCHANGED ticket
WaitForEver(c)        == FALSE

\* The ticket status an answer stands for.
Verdict(a) == IF a = "approve" THEN "approved" ELSE "denied"
\* open_approval, only when get_approval found nothing.
Opened(k, c) == IF entry[k] = None THEN c ELSE entry[k]
Interrupted(c) == IF call[c].pc = "acting" THEN "aborted" ELSE "cancelled"
Goto(c, pc) == call' = [call EXCEPT ![c].pc = pc]
SetTicket(k, st) == ticket' = [ticket EXCEPT ![k] = st]
Drop(c) == object' = [object EXCEPT ![c] = None]
Expire(k) == SetTicket(k, "timed_out")
Close(k) == entry' = [entry EXCEPT ![k] = None]

\* upsert_requested: a new row, or the row of a request that was reused.
Request(k) == SetTicket(k, "requested")

\* mark_completed: the approval is used up.
UseUp(k) == SetTicket(k, "completed")

\* find_reusable: the statuses that spare a new request.  Of several tickets the
\* code takes the most recently updated; the model lets it be any of them.
Reusable(c) == {k \in Calls : Sig[k] = Sig[c] /\ ticket[k] \in {"requested", "approved"}}

(***************************************************************************)
(* The tool call.                                                          *)
(***************************************************************************)
\* _handle_tool_approval finds an approved ticket: the action starts at once.
EnterApproved(c) ==
  /\ run = "running" /\ call[c].pc = "new"
  /\ \E k \in Reusable(c) :
       /\ ticket[k] = "approved"
       /\ call' = [call EXCEPT ![c] = [pc |-> "acting", ticket |-> k]]
  /\ UNCHANGED <<run, ticket, mem, resolver, approved>>

\* It finds an open request, or files one, and blocks in wait_for_approval.
EnterWaiting(c) ==
  /\ run = "running" /\ call[c].pc = "new"
  /\ \E k \in IF Reusable(c) = {} THEN {c} ELSE Reusable(c) :
       /\ ticket[k] # "approved"
       /\ Request(k)
       /\ entry' = [entry EXCEPT ![k] = Opened(k, c)]
       /\ call' = [call EXCEPT ![c] = [pc |-> "entering", ticket |-> k]]
  /\ UNCHANGED <<run, answer, object, resolver, approved>>

\* The helper thread looks the entry up; another call may have closed it.
HelperLooks(c) ==
  LET o == entry[call[c].ticket] IN
  /\ call[c].pc = "entering"
  /\ object' = [object EXCEPT ![c] = o]
  /\ Goto(c, IF o = None THEN "missing" ELSE "waiting")
  /\ UNCHANGED <<run, ticket, entry, answer, resolver, approved>>

HelperWakes(c) ==
  /\ call[c].pc = "waiting" /\ answer[object[c]] # "none"
  /\ Goto(c, answer[object[c]])
  /\ UNCHANGED <<run, ticket, mem, resolver, approved>>

HelperTimesOut(c) ==
  /\ call[c].pc = "waiting" /\ answer[object[c]] = "none"
  /\ Goto(c, "expired")
  /\ UNCHANGED <<run, ticket, mem, resolver, approved>>

\* The coroutine resumes with the answer its helper heard.  A stop requested in
\* the meantime is noticed by _raise_if_stopped, after the ticket is written.
Approved(c) ==
  LET k == call[c].ticket IN
  /\ call[c].pc = "approve"
  /\ Close(k)
  /\ SetTicket(k, "approved")
  /\ Goto(c, IF run = "stopping" THEN "cancelled" ELSE "acting")
  /\ Drop(c)
  /\ UNCHANGED <<run, answer, resolver, approved>>

Denied(c) ==
  LET k == call[c].ticket IN
  /\ call[c].pc = "deny"
  /\ Close(k)
  /\ SetTicket(k, "denied")
  /\ Goto(c, "denied")
  /\ Drop(c)
  /\ UNCHANGED <<run, answer, resolver, approved>>

TimedOut(c) ==
  LET k == call[c].ticket IN
  /\ call[c].pc = "expired"
  /\ Close(k)
  /\ Expire(k)
  /\ Goto(c, "failed")
  /\ Drop(c)
  /\ UNCHANGED <<run, answer, resolver, approved>>

\* KeyError out of wait_for_approval: nothing is written.
LookupFails(c) ==
  /\ call[c].pc = "missing"
  /\ Goto(c, "failed")
  /\ UNCHANGED <<run, ticket, mem, resolver, approved>>

\* The action returns or raises, and the ticket is completed; but a result that
\* comes after a stop is dropped by _raise_if_stopped, and the ticket stays approved.
ActionEnds(c) ==
  /\ call[c].pc = "acting"
  /\ \/ Goto(c, "done") /\ UseUp(call[c].ticket)
     \/ run = "stopping" /\ Goto(c, "aborted") /\ UNCHANGED ticket
  /\ UNCHANGED <<run, mem, resolver, approved>>

\* The stop reaches the coroutine at an await; its helper stays blocked.
Cancelled(c) ==
  /\ run = "stopping" /\ InFlight(c)
  /\ Goto(c, Interrupted(c))
  /\ Drop(c)
  /\ UNCHANGED <<run, ticket, entry, answer, resolver, approved>>

(***************************************************************************)
(* The answer, in three steps of a pool thread.                            *)
(***************************************************************************)
\* Refused while the run is stopped; the entry is looked up before the ticket is
\* written, and nothing asks whether the ticket is still open.
Resolve(w, k, a) ==
  /\ resolver[w].pc = "idle"
  /\ run # "stopped" /\ ticket[k] # "absent"
  /\ resolver' = [resolver EXCEPT ![w] =
                    [pc |-> "record", ticket |-> k, action |-> a, found |-> entry[k] # None]]
  /\ UNCHANGED <<run, ticket, mem, call, approved>>

RecordAnswer(w) ==
  LET k == resolver[w].ticket IN
  /\ resolver[w].pc = "record"
  /\ SetTicket(k, Verdict(resolver[w].action))
  /\ approved' = IF resolver[w].action = "approve" THEN approved \cup {k} ELSE approved
  /\ resolver' = IF resolver[w].found THEN [resolver EXCEPT ![w].pc = "signal"]
                 ELSE [resolver EXCEPT ![w] = IdleResolver]
  /\ UNCHANGED <<run, mem, call>>

\* The entry may be gone by now: KeyError, after the ticket was written.
Signal(w) ==
  LET o == entry[resolver[w].ticket] IN
  /\ resolver[w].pc = "signal"
  /\ answer' = IF o = None THEN answer ELSE [answer EXCEPT ![o] = resolver[w].action]
  /\ resolver' = [resolver EXCEPT ![w] = IdleResolver]
  /\ UNCHANGED <<run, ticket, entry, object, call, approved>>

(***************************************************************************)
(* The run.                                                                *)
(***************************************************************************)
StopRequested ==
  /\ run = "running"
  /\ run' = "stopping"
  /\ UNCHANGED <<ticket, mem, call, resolver, approved>>

Stopped ==
  /\ run = "stopping" /\ \A c \in Calls : ~ InFlight(c)
  /\ run' = "stopped"
  /\ UNCHANGED <<ticket, mem, call, resolver, approved>>

Finished ==
  /\ run = "running" /\ \A c \in Calls : ~ InFlight(c)
  /\ run' = "over"
  /\ UNCHANGED <<ticket, mem, call, resolver, approved>>

Resumed ==
  /\ run \in {"stopped", "crashed"}
  /\ run' = "running"
  /\ UNCHANGED <<ticket, mem, call, resolver, approved>>

\* Only the tickets and the run's record survive; a stopped run stays stopped.
Crash ==
  /\ run # "crashed"
  /\ run' = CASE run = "running" -> "crashed"
            [] run \in {"stopping", "stopped"} -> "stopped"
            [] run = "over" -> "over"
  /\ entry' = [k \in Calls |-> None]
  /\ answer' = [o \in Calls |-> "none"]
  /\ object' = [c \in Calls |-> None]
  /\ call' = [c \in Calls |-> [call[c] EXCEPT !.pc = IF InFlight(c) THEN Interrupted(c) ELSE @]]
  /\ resolver' = [w \in Resolvers |-> IdleResolver]
  /\ UNCHANGED <<ticket, approved>>

CallStep(c) ==
  \/ HelperLooks(c) \/ HelperWakes(c) \/ HelperTimesOut(c)
  \/ Approved(c) \/ Denied(c) \/ TimedOut(c) \/ LookupFails(c) \/ ActionEnds(c)

Next ==
  \/ \E c \in Calls : EnterApproved(c) \/ EnterWaiting(c) \/ CallStep(c) \/ Cancelled(c)
  \/ \E w \in Resolvers : \/ RecordAnswer(w) \/ Signal(w)
                          \/ \E k \in Calls, a \in Answers : Resolve(w, k, a)
  \/ StopRequested \/ Stopped \/ Finished \/ Resumed \/ Crash

Spec == Init /\ [][Next]_vars

\* Threads are scheduled, waits have a timeout and tools return.
Fairness == /\ \A c \in Calls : WF_vars(CallStep(c))
            /\ \A w \in Resolvers : WF_vars(RecordAnswer(w) \/ Signal(w))

LiveSpec == Spec /\ Fairness

(***************************************************************************)
(* Properties.                                                             *)
(***************************************************************************)
\* A call acts only on a ticket of its own signature that a user did approve
\* (find_reusable, and the tickets that calls rewrite with what they heard).
ActionJustified ==
  \A c \in Calls :
    /\ call[c].ticket # None => Sig[call[c].ticket] = Sig[c]
    /\ call[c].pc \in Started => call[c].ticket \in approved

\* Whoever waits on an open ticket can be woken: the Event object its helper holds
\* is the one an answering thread will find (stop and resume, identical calls).
WaiterReachable ==
  \A c \in Calls :
    call[c].pc = "waiting" /\ ticket[call[c].ticket] = "requested" =>
      entry[call[c].ticket] = object[c]

\* While the run runs, a ticket is open only because a call still waits for it or
\* because a stop or a crash took the call that filed it: an open ticket nobody
\* waits for blocks every follow-up to the run.
OpenTicketAttended ==
  run = "running" =>
    \A k \in Calls : ticket[k] = "requested" =>
      \/ call[k].pc = "cancelled"
      \/ \E c \in Calls : call[c].ticket = k /\ call[c].pc \in Waiting

\* Every call ends, whoever answers and whenever the run is stopped.
CallEnds == \A c \in Calls : InFlight(c) ~> ~ InFlight(c)

Under   == [c \in Calls |-> IF call[c].pc \in Started THEN call[c].ticket ELSE None]
Consent == INSTANCE ApprovalConsent WITH granted <- approved, under <- Under

\* Tool approval keeps its promise.
KeepsConsent == Consent!Spec

(***************************************************************************)
(* What the documentation says, and the program does not do.               *)
(***************************************************************************)
\* docs/api-design.md:235, the resolve endpoint "approves or denies a pending tool
\* call": the answer it recorded is not overwritten by the timeout of that call.
AnswerKept == [][\A c \in Calls : TimedOut(c) => ticket[call[c].ticket] = "requested"]_vars

\* docs/api-design.md:235 again, "a pending tool call": one approval lets one
\* action start.
OneActionPerApproval ==
  \A c, d \in Calls : c # d /\ {call[c].pc, call[d].pc} \subseteq Started => call[c].ticket # call[d].ticket

=============================================================================
