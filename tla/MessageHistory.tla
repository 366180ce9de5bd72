---------------------------- MODULE MessageHistory ----------------------------
(***************************************************************************)
(* The conversation of one agent: generate() of OpenAICompatibleProvider,  *)
(* the message table, the injection queue of the run and the clients that  *)
(* add to both (providers/llm.py, state/message_repo.py,                   *)
(* runs/injection_queue.py, runs/control.py, runs/manager.py).             *)
(*                                                                         *)
(* An iteration of the agent yields nodes: the prompt, requests to the     *)
(* model, calls of tools, the end.  After each node the new messages are   *)
(* committed up to the safe boundary and injected messages are taken; if   *)
(* there are any the iteration starts again from the table.  Clients run   *)
(* in pool threads, between any two steps.                                 *)
(***************************************************************************)
EXTENDS Exchange, FiniteSets

CONSTANTS
  Clients,    \* threads that inject or follow up
  MaxNotes,   \* bound: prompts, injected or given with a task
  MaxCalls,   \* bound: replies that ask for tools
  MaxBegins,  \* bound: executions
  MaxOps      \* bound: interruptions and crashes

ASSUME BoundsAssumption == {MaxNotes, MaxCalls, MaxBegins, MaxOps} \subseteq Nat

VARIABLES
  rows,             \* the messages of the conversation, in the order of id
  queue, active,    \* RunInjectionManager: the agent's queue, the run is active
  gen,              \* generate()
  running, outcome, \* the agent's row says RUNNING; how its last execution ended
  client,           \* the threads
  ran, shown,       \* calls run by this execution; notes the model was shown
  applied,          \* notes taken from the queue
  notes, replies, calls, begins, ops

counters == <<notes, replies, calls, begins, ops>>
vars == <<rows, queue, active, gen, running, outcome, client, ran, shown, applied, counters>>

Notes == 1..MaxNotes
Gen == [pc : {"off", "next", "ask", "commit", "drain", "store"},
        node : {"start", "prompt", "request", "calls", "end"},
        base : Seq(Message), new : Seq(Message), buffer : Seq(Message), seen : Nat,
        drained : Seq(Notes)]
Off == [pc |-> "off", node |-> "start", base |-> <<>>, new |-> <<>>, buffer |-> <<>>,
        seen |-> 0, drained |-> <<>>]
Client == [pc : {"idle", "enqueue"}, note : 0..MaxNotes]

\* Every variable keeps its kind; generate() never counts more messages as seen than there are.
TypeOK ==
  /\ rows \in Seq(Message) /\ queue \in Seq(Notes) /\ active \in BOOLEAN
  /\ gen \in Gen /\ gen.seen <= Len(gen.new) /\ running \in BOOLEAN
  /\ outcome \in {"none", "returned", "interrupted", "failed"}
  /\ client \in [Clients -> Client]
  /\ ran \subseteq Nat /\ shown \subseteq Nat /\ applied \subseteq Notes
  /\ notes \in 0..MaxNotes /\ calls \in 0..MaxCalls /\ begins \in 0..MaxBegins
  /\ ops \in 0..MaxOps /\ replies \in Nat

Init ==
  /\ rows = <<>> /\ queue = <<>> /\ active = FALSE /\ gen = Off
  /\ running = FALSE /\ outcome = "none"
  /\ client = [c \in Clients |-> [pc |-> "idle", note |-> 0]]
  /\ ran = {} /\ shown = {} /\ applied = {}
  /\ notes = 0 /\ replies = 0 /\ calls = 0 /\ begins = 0 /\ ops = 0

(***************************************************************************)
(* Shared vocabulary.                                                      *)
(***************************************************************************)
Interrupts  == ops < MaxOps /\ ops' = ops + 1
NewNote(n)  == notes < MaxNotes /\ n = notes + 1 /\ notes' = n
LastOf(s)   == s[Len(s)]
Context     == gen.base \o gen.new
PromptsOf(s) == {s[i].no : i \in {i \in 1..Len(s) : s[i].kind = "prompt"}}

\* prune_conversation_history_to_safe_boundary: calls that nobody answered are deleted.
Pruned(r) == SafePart(r)

\* append_user_prompt_if_missing; every note has a text of its own, so it always is.
Prompted(r, n) == Pruned(r) \o <<Prompt(n)>>

Started(r)  == [Off EXCEPT !.pc = "next", !.base = SafePart(r)]
At(node, pc) == gen' = [gen EXCEPT !.node = node, !.pc = pc]

\* What the iteration has that is not in the table; Ready is the part that may be stored.
Uncommitted == gen.buffer \o SubSeq(gen.new, gen.seen + 1, Len(gen.new))

\* Seeded faults of the next definition; neither is used.
ReadyUnanswered == Uncommitted
ReadyAllOrNone  == IF Pending(Uncommitted) = {} THEN Uncommitted ELSE <<>>

Ready == SafePart(Uncommitted)

(***************************************************************************)
(* Seeded faults of the actions: none of them is used below.               *)
(***************************************************************************)
CommitForgets ==
  /\ gen.pc = "commit"
  /\ rows' = rows \o Ready
  /\ gen' = [gen EXCEPT !.pc = "drain", !.seen = Len(gen.new), !.buffer = <<>>]
  /\ UNCHANGED <<queue, active, running, outcome, client, ran, shown, applied, counters>>
StoreGoesOn ==
  /\ gen.pc = "store"
  /\ rows' = rows \o [i \in 1..Len(gen.drained) |-> Prompt(gen.drained[i])]
  /\ applied' = applied \cup {gen.drained[i] : i \in 1..Len(gen.drained)}
  /\ gen' = [gen EXCEPT !.pc = "next", !.drained = <<>>]
  /\ UNCHANGED <<queue, active, running, outcome, client, ran, shown, counters>>
AdvanceAgain ==
  /\ gen.pc = "next" /\ gen.node # "end"
  /\ LET last == LastOf(Context)
         asked == gen.node = "calls" /\ Asking(last) IN
     /\ ran' = IF asked THEN ran \cup {last.no} ELSE ran
     /\ CASE gen.node = "start" -> At("prompt", "drain")
          [] gen.node = "prompt" -> IF last.kind = "reply" THEN At("prompt", "drain")
                                    ELSE At("prompt", "ask")
          [] gen.node = "request" -> At("calls", "drain")
          [] gen.node = "calls" -> IF asked THEN At("calls", "ask") ELSE At("end", "drain")
  /\ UNCHANGED <<rows, queue, active, running, outcome, client, shown, applied, counters>>

(***************************************************************************)
(* The run and the agent's executions.                                     *)
(***************************************************************************)
Activate ==
  /\ ~active /\ active' = TRUE
  /\ UNCHANGED <<rows, queue, gen, running, outcome, client, ran, shown, applied, counters>>

\* A new task gives its objective; an interrupted one is executed again.
Begin ==
  /\ active /\ gen.pc = "off" /\ begins < MaxBegins /\ begins' = begins + 1
  /\ \/ \E n \in Notes : NewNote(n) /\ rows' = Prompted(rows, n)
     \/ outcome = "interrupted" /\ UNCHANGED <<rows, notes>>
  /\ gen' = Started(rows') /\ running' = TRUE /\ ran' = {}
  /\ UNCHANGED <<queue, active, outcome, client, shown, applied, replies, calls, ops>>

\* The next node: the agent runs the one before it.
Advance ==
  /\ gen.pc = "next" /\ gen.node # "end"
  /\ LET last == LastOf(Context)
         asked == gen.node = "calls" /\ Asking(last) IN
     /\ ran' = IF asked THEN ran \cup {last.no} ELSE ran
     /\ CASE gen.node = "start" -> At("prompt", "drain")
          [] gen.node = "prompt" -> IF last.kind = "reply" THEN At("calls", "drain")
                                    ELSE At("prompt", "ask")
          [] gen.node = "request" -> At("calls", "drain")
          [] gen.node = "calls" -> IF asked THEN At("calls", "ask") ELSE At("end", "drain")
  /\ UNCHANGED <<rows, queue, active, running, outcome, client, shown, applied, counters>>

\* The results of the tools the last reply asked for.
Answers == IF gen.node = "calls" THEN <<Results(LastOf(Context).no)>> ELSE <<>>

\* The reply asks for tools or not.
Answered(asks) ==
  /\ calls' = IF asks THEN calls + 1 ELSE calls
  /\ calls' <= MaxCalls
  /\ gen' = [gen EXCEPT !.pc = "commit", !.node = "request",
               !.new = @ \o Answers \o <<Reply(replies', asks)>>]

\* The model is asked: the results of the tools, if any, and its reply are new messages.
Ask ==
  /\ gen.pc = "ask" /\ replies' = replies + 1
  /\ \E asks \in BOOLEAN : Answered(asks)
  /\ shown' = shown \cup PromptsOf(gen.base)
  /\ UNCHANGED <<rows, queue, active, running, outcome, client, ran, applied, notes, begins, ops>>

Commit ==
  /\ gen.pc = "commit"
  /\ rows' = rows \o Ready
  /\ gen' = [gen EXCEPT !.pc = "drain", !.seen = Len(gen.new),
               !.buffer = SubSeq(Uncommitted, Len(Ready) + 1, Len(Uncommitted))]
  /\ UNCHANGED <<queue, active, running, outcome, client, ran, shown, applied, counters>>

Drain ==
  /\ gen.pc = "drain" /\ queue' = <<>>
  /\ gen' = [gen EXCEPT !.pc = IF queue = <<>> THEN "next" ELSE "store", !.drained = queue]
  /\ UNCHANGED <<rows, active, running, outcome, client, ran, shown, applied, counters>>

\* The injected messages are stored and the iteration starts again from the table.
Store ==
  /\ gen.pc = "store"
  /\ rows' = rows \o [i \in 1..Len(gen.drained) |-> Prompt(gen.drained[i])]
  /\ applied' = applied \cup {gen.drained[i] : i \in 1..Len(gen.drained)}
  /\ gen' = Started(rows')
  /\ UNCHANGED <<queue, active, running, outcome, client, ran, shown, counters>>

Return ==
  /\ gen.pc = "next" /\ gen.node = "end"
  /\ rows' = rows \o Ready
  /\ gen' = Off /\ running' = FALSE /\ outcome' = "returned"
  /\ UNCHANGED <<queue, active, client, ran, shown, applied, counters>>

\* A stop or an error of the model or of a tool, where the coroutine waits.
Interrupted ==
  /\ gen.pc \in {"next", "ask"} /\ Interrupts
  /\ gen' = Off /\ running' = FALSE /\ outcome' \in {"interrupted", "failed"}
  /\ UNCHANGED <<rows, queue, active, client, ran, shown, applied,
                 notes, replies, calls, begins>>

Deactivate ==
  /\ active /\ gen.pc = "off" /\ active' = FALSE /\ queue' = <<>>
  /\ UNCHANGED <<rows, gen, running, outcome, client, ran, shown, applied, counters>>

Crash ==
  /\ active /\ Interrupts
  /\ active' = FALSE /\ queue' = <<>> /\ gen' = Off /\ running' = FALSE
  /\ outcome' = IF gen.pc = "off" THEN outcome ELSE "interrupted"
  /\ client' = [c \in Clients |-> [pc |-> "idle", note |-> 0]]
  /\ UNCHANGED <<rows, ran, shown, applied, notes, replies, calls, begins>>

(***************************************************************************)
(* Clients.                                                                *)
(***************************************************************************)
\* POST /runs/{run_id}/inject: for the agents whose row says RUNNING.
Inject(c) ==
  /\ client[c].pc = "idle" /\ running
  /\ \E n \in Notes : /\ NewNote(n)
                      /\ client' = [client EXCEPT ![c] = [pc |-> "enqueue", note |-> n]]
  /\ UNCHANGED <<rows, queue, active, gen, running, outcome, ran, shown, applied,
                 replies, calls, begins, ops>>

\* A follow-up of the coordinator's run: it is stored, then put into the queue.
FollowUp(c) ==
  /\ client[c].pc = "idle" /\ active
  /\ \E n \in Notes : /\ NewNote(n) /\ rows' = rows \o <<Prompt(n)>>
                      /\ client' = [client EXCEPT ![c] = [pc |-> "enqueue", note |-> n]]
  /\ UNCHANGED <<queue, active, gen, running, outcome, ran, shown, applied,
                 replies, calls, begins, ops>>

\* A follow-up to a subagent is put into the queue only if the agent runs.
FollowUpSubagent(c) ==
  /\ client[c].pc = "idle"
  /\ \E n \in Notes :
       /\ NewNote(n) /\ rows' = Prompted(rows, n)
       /\ client' = IF running THEN [client EXCEPT ![c] = [pc |-> "enqueue", note |-> n]]
                    ELSE client
  /\ UNCHANGED <<queue, active, gen, running, outcome, ran, shown, applied,
                 replies, calls, begins, ops>>

\* Refused if the run is no longer active.
Enqueue(c) ==
  /\ client[c].pc = "enqueue"
  /\ queue' = IF active THEN Append(queue, client[c].note) ELSE queue
  /\ client' = [client EXCEPT ![c] = [pc |-> "idle", note |-> 0]]
  /\ UNCHANGED <<rows, active, gen, running, outcome, ran, shown, applied, counters>>

(***************************************************************************)
(* Specification.                                                          *)
(***************************************************************************)
Generate == Advance \/ Ask \/ Commit \/ Drain \/ Store \/ Return

Next == \/ Activate \/ Begin \/ Generate \/ Interrupted \/ Deactivate \/ Crash
        \/ \E c \in Clients : Inject(c) \/ FollowUp(c) \/ FollowUpSubagent(c) \/ Enqueue(c)

Spec == Init /\ [][Next]_vars

\* The event loop resumes the coroutine, the model and tools answer, threads run on.
FairSpec == /\ Spec /\ WF_vars(Generate) /\ WF_vars(Deactivate)
            /\ \A c \in Clients : WF_vars(Enqueue(c))

(***************************************************************************)
(* Properties.                                                             *)
(***************************************************************************)
T == INSTANCE Transcript WITH log <- rows

\* The table only grows, by whole exchanges, whoever writes to it, and no reply
\* enters it twice: a commit never stores a call without its results, and pruning
\* and the restart after an injection never take a message back.
KeepsTranscript == T!Spec

Unprompted(s) ==
  LET kept[i \in 0..Len(s)] ==
        IF i = 0 THEN <<>>
        ELSE IF s[i].kind = "prompt" THEN kept[i - 1] ELSE Append(kept[i - 1], s[i])
  IN  kept[Len(s)]

\* While the agent runs, the table and the buffer hold what the model was shown and said,
\* in that order and nothing else (prompts aside): a restart repeats no reply.
SeesItsHistory ==
  gen.pc \in {"next", "ask", "drain", "store"} =>
    Unprompted(rows) \o gen.buffer = Unprompted(gen.base) \o gen.new

\* A tool runs only if its results reach the table, however injections restart the
\* iteration: only an interruption loses them.
ResultsKept ==
  \A n \in ran : \/ \E i \in 1..Len(rows) : rows[i] = Results(n)
                 \/ gen.pc \in {"ask", "commit"}
                 \/ gen.pc = "off" /\ outcome # "returned"

\* An agent that returns was shown every note that was taken from its queue.
AppliedShown == gen.pc = "off" /\ outcome = "returned" => applied \subseteq shown

\* An execution ends, if the model asks for tools finitely often.
GenerationEnds == gen.pc # "off" ~> gen.pc = "off"

\* docs/api-design.md:227: follow-up content is injected to the active agents; here, that
\* what is queued for a running agent, and stored nowhere else, is shown to it.
InjectionReaches ==
  \A n \in Notes :
    running /\ (\E i \in 1..Len(queue) : queue[i] = n) /\ n \notin PromptsOf(rows)
      ~> n \in shown
=============================================================================
