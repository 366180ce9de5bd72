------------------------- MODULE ServerThreadsProofs -------------------------
(***************************************************************************)
(* Two components that the pool threads of the server and its event loop   *)
(* share without a lock: tool approval, first, and the configuration.      *)
(*                                                                         *)
(* Tool approval: ToolApproval implements ApprovalConsent, and no waiting  *)
(* call is lost, for any number of calls, signatures and answering         *)
(* threads.  The key of the argument is that an Event object is created by *)
(* the call whose id it bears, so it can only ever carry the answer to the *)
(* ticket of that call (Objects); and that a ticket leaves `requested'     *)
(* with the first call that stops waiting for it (Tickets).                *)
(*                                                                         *)
(* The configuration: the parts of the container agree, the model file is  *)
(* in use and the skills directories are whole, for any number of threads, *)
(* profiles, servers and skills.  What an installation has replaced so far *)
(* is known from where its thread is (Stages); whoever changes model.json  *)
(* is alone with it unless there was trouble (FileKept); and a directory   *)
(* that lacks a skill has a reader that will still come to it, the last    *)
(* one to have cleared it (DirsFilled).                                    *)
(***************************************************************************)
EXTENDS ToolApproval, ConfigReload, TLAPS

Tickets ==
  \A k \in Calls :
    /\ call[k].pc = "new" => ticket[k] = "absent" /\ call[k].ticket = None
    /\ ticket[k] = "requested" =>
         call[k].ticket = k /\ call[k].pc \in Waiting \cup {"cancelled"}
    /\ ticket[k] = "approved" => k \in approved

Places ==
  \A c \in Calls :
    LET k == call[c].ticket IN
    /\ call[c].pc # "new" => k \in Calls /\ Sig[k] = Sig[c] /\ ticket[k] # "absent"
    /\ call[c].pc \in Started \cup {"approve"} => k \in approved
    /\ call[c].pc = "waiting" => object[c] # None
    /\ call[c].pc = "entering" => ticket[k] # "requested" \/ entry[k] # None
    /\ call[c].pc = "missing" => ticket[k] # "requested"

Objects ==
  /\ \A k \in Calls : entry[k] # None => call[entry[k]].ticket = k
  /\ \A c \in Calls : object[c] # None =>
       call[c].ticket # None /\ call[object[c]].ticket = call[c].ticket
  /\ \A o \in Calls : answer[o] = "approve" => call[o].ticket \in approved

Answering ==
  \A w \in Resolvers :
    /\ resolver[w].pc # "idle" =>
         resolver[w].ticket \in Calls /\ ticket[resolver[w].ticket] # "absent"
    /\ resolver[w].pc = "signal" /\ resolver[w].action = "approve" =>
         resolver[w].ticket \in approved

Inv == TypeOK /\ Tickets /\ Places /\ Objects /\ Answering /\ WaiterReachable

\* Every step preserves the invariant: one step per action.
LEMMA InvStep == Inv /\ [Next]_vars => Inv'
<1> SUFFICES ASSUME Inv, [Next]_vars PROVE Inv'
  OBVIOUS
<1> USE NoneAssumption
<1>1. ASSUME NEW c \in Calls, EnterApproved(c) PROVE Inv'
  <2>1. \A o \in Calls : call[o].ticket # None => call'[o].ticket = call[o].ticket
    BY <1>1 DEF Inv, Tickets, EnterApproved
  <2>2. TypeOK'
    BY <1>1 DEF Inv, TypeOK, CallState, mem, EnterApproved, Reusable
  <2>3. Tickets'
    BY <1>1 DEF Inv, Tickets, EnterApproved
  <2>4. Places'
    BY <1>1, <2>1 DEF Inv, mem, Tickets, Places, EnterApproved, Reusable
  <2>5. Objects'
    BY <1>1, <2>1 DEF Inv, TypeOK, mem, Objects, EnterApproved
  <2>6. Answering'
    BY <1>1 DEF Inv, Answering, EnterApproved
  <2>7. WaiterReachable'
    BY <1>1 DEF Inv, mem, WaiterReachable, EnterApproved
  <2> QED BY <2>2, <2>3, <2>4, <2>5, <2>6, <2>7 DEF Inv
<1>2. ASSUME NEW c \in Calls, EnterWaiting(c) PROVE Inv'
  <2>1. \A o \in Calls : call[o].ticket # None => call'[o].ticket = call[o].ticket
    BY <1>2 DEF Inv, Tickets, EnterWaiting
  <2>2. PICK k \in Calls :
          /\ entry' = [entry EXCEPT ![k] = Opened(k, c)]
          /\ call' = [call EXCEPT ![c] = [pc |-> "entering", ticket |-> k]]
    BY <1>2 DEF EnterWaiting, Reusable
  <2>3. TypeOK'
    BY <1>2 DEF Inv, TypeOK, CallState, TicketState, Waiting, EnterWaiting, Reusable,
       SetTicket, Request, Opened
  <2>4. Tickets'
    BY <1>2 DEF Inv, TypeOK, Waiting, Tickets, EnterWaiting, Reusable, SetTicket, Request
  <2>5. Places'
    BY <1>2, <2>1, <2>2 DEF Inv, TypeOK, Started, Tickets, Places, EnterWaiting, Reusable,
       SetTicket, Request, Opened
  <2>6. Objects'
    BY <1>2, <2>1, <2>2 DEF Inv, TypeOK, Objects, EnterWaiting, Opened
  <2>7. Answering'
    BY <1>2 DEF Inv, Answering, EnterWaiting, SetTicket, Request
  <2>8. WaiterReachable'
    BY <1>2 DEF Inv, Tickets, Places, WaiterReachable, EnterWaiting, Reusable, SetTicket,
       Request, Opened
  <2> QED BY <2>3, <2>4, <2>5, <2>6, <2>7, <2>8 DEF Inv
<1>3. ASSUME NEW c \in Calls, HelperLooks(c) PROVE Inv'
  BY <1>3 DEF Inv, TypeOK, CallState, Waiting, Started, Tickets, Places, Objects, Answering,
     WaiterReachable, HelperLooks, Goto
<1>4. ASSUME NEW c \in Calls, HelperWakes(c) PROVE Inv'
  BY <1>4 DEF Inv, TypeOK, CallState, Waiting, Answers, Started, mem, Tickets, Places,
     Objects, Answering, WaiterReachable, HelperWakes, Goto
<1>5. ASSUME NEW c \in Calls, HelperTimesOut(c) PROVE Inv'
  BY <1>5 DEF Inv, TypeOK, CallState, Waiting, Started, mem, Tickets, Places, Objects,
     Answering, WaiterReachable, HelperTimesOut, Goto
<1>6. ASSUME NEW c \in Calls, Approved(c) PROVE Inv'
  <2>1. TypeOK'
    BY <1>6 DEF Inv, TypeOK, CallState, TicketState, Outcome, Places, Approved, Goto, Close,
       SetTicket, Drop
  <2>2. Tickets'
    BY <1>6 DEF Inv, TypeOK, Tickets, Places, Approved, Goto, SetTicket
  <2>3. Places'
    BY <1>6 DEF Inv, TypeOK, Places, Approved, Goto, Close, SetTicket, Drop
  <2>4. Objects'
    BY <1>6 DEF Inv, Objects, Approved, Goto, Close, Drop
  <2>5. Answering'
    BY <1>6 DEF Inv, Answering, Approved, SetTicket
  <2>6. WaiterReachable'
    BY <1>6 DEF Inv, TypeOK, WaiterReachable, Approved, Goto, Close, SetTicket, Drop
  <2> QED BY <2>1, <2>2, <2>3, <2>4, <2>5, <2>6 DEF Inv
<1>7. ASSUME NEW c \in Calls, Denied(c) PROVE Inv'
  <2>1. TypeOK'
    BY <1>7 DEF Inv, TypeOK, CallState, TicketState, Outcome, Places, Denied, Goto, Close,
       SetTicket, Drop
  <2>2. Tickets'
    BY <1>7 DEF Inv, TypeOK, Tickets, Places, Denied, Goto, SetTicket
  <2>3. Places'
    BY <1>7 DEF Inv, TypeOK, Started, Places, Denied, Goto, Close, SetTicket, Drop
  <2>4. Objects'
    BY <1>7 DEF Inv, Objects, Denied, Goto, Close, Drop
  <2>5. Answering'
    BY <1>7 DEF Inv, Answering, Denied, SetTicket
  <2>6. WaiterReachable'
    BY <1>7 DEF Inv, TypeOK, WaiterReachable, Denied, Goto, Close, SetTicket, Drop
  <2> QED BY <2>1, <2>2, <2>3, <2>4, <2>5, <2>6 DEF Inv
<1>8. ASSUME NEW c \in Calls, TimedOut(c) PROVE Inv'
  <2>1. TypeOK'
    BY <1>8 DEF Inv, TypeOK, CallState, TicketState, Outcome, Places, TimedOut, Goto, Close,
       SetTicket, Expire, Drop
  <2>2. Tickets'
    BY <1>8 DEF Inv, TypeOK, Tickets, Places, TimedOut, Goto, SetTicket, Expire
  <2>3. Places'
    BY <1>8 DEF Inv, TypeOK, Started, Places, TimedOut, Goto, Close, SetTicket, Expire, Drop
  <2>4. Objects'
    BY <1>8 DEF Inv, Objects, TimedOut, Goto, Close, Drop
  <2>5. Answering'
    BY <1>8 DEF Inv, Answering, TimedOut, SetTicket, Expire
  <2>6. WaiterReachable'
    BY <1>8 DEF Inv, TypeOK, WaiterReachable, TimedOut, Goto, Close, SetTicket, Expire, Drop
  <2> QED BY <2>1, <2>2, <2>3, <2>4, <2>5, <2>6 DEF Inv
<1>9. ASSUME NEW c \in Calls, LookupFails(c) PROVE Inv'
  BY <1>9 DEF Inv, TypeOK, CallState, Outcome, Started, mem, Tickets, Places, Objects,
     Answering, WaiterReachable, LookupFails, Goto
<1>10. ASSUME NEW c \in Calls, ActionEnds(c) PROVE Inv'
  <2>1. PICK pc \in {"done", "aborted"} : call' = [call EXCEPT ![c].pc = pc]
    BY <1>10 DEF ActionEnds, Goto
  <2>2. ticket' \in {ticket, [ticket EXCEPT ![call[c].ticket] = "completed"]}
    BY <1>10 DEF ActionEnds, SetTicket, UseUp
  <2>3. UNCHANGED <<run, mem, resolver, approved>> /\ call[c].pc = "acting"
    BY <1>10 DEF ActionEnds
  <2>4. TypeOK'
    BY <2>1, <2>2, <2>3 DEF Inv, TypeOK, CallState, TicketState, Outcome, mem
  <2>5. Tickets'
    BY <2>1, <2>2, <2>3 DEF Inv, TypeOK, Waiting, Answers, Tickets, Places
  <2>6. Places'
    BY <2>1, <2>2, <2>3 DEF Inv, TypeOK, Started, mem, Places
  <2>7. Objects'
    BY <2>1, <2>2, <2>3 DEF Inv, mem, Objects
  <2>8. Answering'
    BY <2>1, <2>2, <2>3 DEF Inv, TypeOK, Answering
  <2>9. WaiterReachable'
    BY <2>1, <2>2, <2>3 DEF Inv, TypeOK, mem, Places, WaiterReachable
  <2> QED BY <2>4, <2>5, <2>6, <2>7, <2>8, <2>9 DEF Inv
<1>11. ASSUME NEW c \in Calls, Cancelled(c) PROVE Inv'
  <2>1. TypeOK'
    BY <1>11 DEF Inv, TypeOK, CallState, Outcome, Cancelled, Goto, Drop, Interrupted
  <2>2. Tickets'
    BY <1>11 DEF Inv, Waiting, Answers, Tickets, Cancelled, Goto, Interrupted
  <2>3. Places'
    BY <1>11 DEF Inv, TypeOK, Waiting, Answers, Started, Places, Cancelled, Goto, Drop,
       InFlight, Interrupted
  <2>4. Objects'
    BY <1>11 DEF Inv, Objects, Cancelled, Goto, Drop
  <2>5. Answering'
    BY <1>11 DEF Inv, Answering, Cancelled
  <2>6. WaiterReachable'
    BY <1>11 DEF Inv, TypeOK, WaiterReachable, Cancelled, Goto, Drop, Interrupted
  <2> QED BY <2>1, <2>2, <2>3, <2>4, <2>5, <2>6 DEF Inv
<1>12. ASSUME NEW w \in Resolvers, RecordAnswer(w) PROVE Inv'
  <2>1. /\ resolver[w].ticket \in Calls /\ resolver[w].action \in Answers
        /\ ticket[resolver[w].ticket] # "absent"
        /\ ticket' = [ticket EXCEPT ![resolver[w].ticket] = Verdict(resolver[w].action)]
        /\ Verdict(resolver[w].action) \in {"approved", "denied"}
        /\ UNCHANGED <<run, mem, call>>
    BY <1>12 DEF Inv, TypeOK, Answering, ResolverState, Answers, RecordAnswer, SetTicket,
       Verdict
  <2>2. resolver' \in {[resolver EXCEPT ![w].pc = "signal"],
                      [resolver EXCEPT ![w] = IdleResolver]}
    BY <1>12 DEF RecordAnswer
  <2>3. ticket' \in [Calls -> TicketState]
    BY <2>1 DEF Inv, TypeOK, TicketState
  <2>4. resolver' \in [Resolvers -> ResolverState]
    <3>1. [resolver EXCEPT ![w].pc = "signal"] \in [Resolvers -> ResolverState]
      <4>1. [resolver[w] EXCEPT !.pc = "signal"] \in ResolverState
        BY DEF Inv, TypeOK, ResolverState
      <4> QED BY <4>1 DEF Inv, TypeOK
    <3>2. IdleResolver \in ResolverState
      BY DEF ResolverState, IdleResolver, Answers
    <3> QED BY <2>2, <3>1, <3>2 DEF Inv, TypeOK
  <2>5. approved' \subseteq Calls
    BY <1>12, <2>1 DEF Inv, TypeOK, RecordAnswer
  <2>6. TypeOK'
    BY <2>1, <2>3, <2>4, <2>5 DEF Inv, TypeOK, mem
  <2>7. Tickets' /\ Places' /\ Objects'
    <3>1. /\ approved \subseteq approved'
          /\ ticket'[resolver[w].ticket] = "approved" => resolver[w].ticket \in approved'
      BY <1>12, <2>1 DEF Inv, TypeOK, RecordAnswer, Verdict, Answers
    <3>2. Tickets'
      BY <2>1, <3>1 DEF Inv, TypeOK, Answering, Tickets
    <3>3. Places'
      BY <2>1, <3>1 DEF Inv, TypeOK, mem, Places
    <3>4. Objects'
      BY <2>1, <3>1 DEF Inv, mem, Objects
    <3> QED BY <3>2, <3>3, <3>4
  <2>8. Answering'
    BY <1>12, <2>1 DEF Inv, TypeOK, ResolverState, Answers, IdleResolver, Answering,
       RecordAnswer
  <2>9. WaiterReachable'
    BY <1>12 DEF Inv, TypeOK, ResolverState, Waiting, Answers, IdleResolver, mem, Tickets,
       Places, Answering, WaiterReachable, RecordAnswer, SetTicket, Verdict
  <2> QED BY <2>6, <2>7, <2>8, <2>9 DEF Inv
<1>13. ASSUME NEW w \in Resolvers, Signal(w) PROVE Inv'
  BY <1>13 DEF Inv, TypeOK, ResolverState, Answers, IdleResolver, Tickets, Places, Objects,
     Answering, WaiterReachable, Signal
<1>14. ASSUME NEW w \in Resolvers, NEW k \in Calls, NEW a \in Answers, Resolve(w, k, a)
       PROVE Inv'
  BY <1>14 DEF Inv, TypeOK, ResolverState, mem, Tickets, Places, Objects, Answering,
     WaiterReachable, Resolve
<1>15. ASSUME StopRequested PROVE Inv'
  BY <1>15 DEF Inv, TypeOK, mem, Tickets, Places, Objects, Answering, WaiterReachable,
     StopRequested
<1>16. ASSUME Stopped PROVE Inv'
  BY <1>16 DEF Inv, TypeOK, mem, Tickets, Places, Objects, Answering, WaiterReachable,
     Stopped
<1>17. ASSUME Finished PROVE Inv'
  BY <1>17 DEF Inv, TypeOK, mem, Tickets, Places, Objects, Answering, WaiterReachable,
     Finished
<1>18. ASSUME Resumed PROVE Inv'
  BY <1>18 DEF Inv, TypeOK, mem, Tickets, Places, Objects, Answering, WaiterReachable,
     Resumed
<1>19. ASSUME Crash PROVE Inv'
  <2>1. \A d \in Calls : /\ call'[d].ticket = call[d].ticket
                         /\ call'[d].pc # "new" => call[d].pc # "new"
                         /\ call'[d].pc \in Started => call[d].pc \in Started
                         /\ call'[d].pc \notin Waiting
    BY <1>19 DEF Inv, TypeOK, CallState, Waiting, Answers, Started, Crash, InFlight,
       Interrupted
  <2>2. UNCHANGED <<ticket, approved>>
    BY <1>19 DEF Crash
  <2>3. {"waiting", "entering", "missing", "approve"} \subseteq Waiting
    BY DEF Waiting, Answers
  <2>4. TypeOK'
    BY <1>19 DEF Inv, vars, TypeOK, CallState, ResolverState, TicketState, Waiting, Outcome,
       Answers, IdleResolver, Started, mem, Tickets, Answering, WaiterReachable, Crash,
       Interrupted
  <2>5. Tickets'
    BY <1>19 DEF Inv, TypeOK, CallState, Waiting, Answers, Tickets, Crash, Interrupted
  <2>6. Places'
    <3> SUFFICES ASSUME NEW d \in Calls
                 PROVE  Places!(d)'
      BY DEF Places
    <3>1. Places!(d)
      BY DEF Inv, Places
    <3> QED BY <2>1, <2>2, <2>3, <3>1
  <2>7. Objects'
    BY <1>19, <2>1 DEF Objects, Crash
  <2>8. Answering'
    BY <1>19 DEF IdleResolver, Answering, Crash
  <2>9. WaiterReachable'
    BY <1>19 DEF Inv, TypeOK, CallState, Outcome, WaiterReachable, Crash, InFlight,
       Interrupted
  <2> QED BY <2>4, <2>5, <2>6, <2>7, <2>8, <2>9 DEF Inv
<1>20. ASSUME UNCHANGED vars PROVE Inv'
  BY <1>20 DEF Inv, vars, TypeOK, mem, Tickets, Places, Objects, Answering, WaiterReachable
<1> QED BY <1>1, <1>2, <1>3, <1>4, <1>5, <1>6, <1>7, <1>8, <1>9, <1>10, <1>11, <1>12, <1>13,
   <1>14, <1>15, <1>16, <1>17, <1>18, <1>19, <1>20 DEF Next, CallStep

\* Every reachable state satisfies the invariant.
THEOREM ApprovalInvariant == Spec => []Inv
<1>1. Init => Inv
  BY NoneAssumption DEF Init, Inv, TypeOK, CallState, ResolverState, TicketState, Answers,
     IdleResolver, Started, Tickets, Places, Objects, Answering, WaiterReachable
<1> QED BY <1>1, InvStep, PTL DEF Spec

\* The values of the state variables stay in their types.
THEOREM ApprovalTypes == Spec => []TypeOK
BY ApprovalInvariant, PTL DEF Inv

\* A call acts only under a ticket of its own signature that a user approved.
THEOREM ApprovalJustified == Spec => []ActionJustified
<1>1. Inv => ActionJustified
  <2> SUFFICES ASSUME Inv, NEW c \in Calls
               PROVE  /\ call[c].ticket # None => Sig[call[c].ticket] = Sig[c]
                      /\ call[c].pc \in Started => call[c].ticket \in approved
    BY DEF ActionJustified
  <2> QED BY DEF Inv, Tickets, Places
<1> QED BY <1>1, ApprovalInvariant, PTL

\* An answering thread can reach whoever waits on an open ticket.
THEOREM ApprovalReachable == Spec => []WaiterReachable
BY ApprovalInvariant, PTL DEF Inv

\* In a running run an open ticket is waited for, or its call was cancelled.
THEOREM ApprovalAttended == Spec => []OpenTicketAttended
<1>1. Inv => OpenTicketAttended
  BY DEF Inv, Tickets, OpenTicketAttended
<1> QED BY <1>1, ApprovalInvariant, PTL

\* Every step of the protocol grants a ticket, starts an action under a granted
\* ticket, or changes nothing that consent is about.
LEMMA ConsentStep == Inv /\ Inv' /\ [Next]_vars => [Consent!Next]_<<approved, Under>>
<1> SUFFICES ASSUME Inv, Inv', [Next]_vars PROVE Consent!Next \/ UNCHANGED <<approved, Under>>
  OBVIOUS
<1> USE NoneAssumption
<1>1. ASSUME NEW c \in Calls, NEW k \in Calls,
             call[c].pc \in {"new", "approve"}, k \in approved,
             call' = [call EXCEPT ![c] = [pc |-> "acting", ticket |-> k]], UNCHANGED approved
      PROVE Consent!Act(c, k)
  <2>1. Under[c] = None
    BY <1>1 DEF Under, Started
  <2>2. Under' = [Under EXCEPT ![c] = k]
    BY <1>1 DEF Under, Started, Inv, TypeOK
  <2> QED BY <1>1, <2>1, <2>2 DEF Consent!Act
<1>2. ASSUME NEW c \in Calls, EnterApproved(c) PROVE Consent!Next
  <2>1. PICK k \in Reusable(c) :
          /\ ticket[k] = "approved"
          /\ call' = [call EXCEPT ![c] = [pc |-> "acting", ticket |-> k]]
    BY <1>2 DEF EnterApproved
  <2>2. k \in Calls /\ k \in approved /\ call[c].pc = "new" /\ approved' = approved
    BY <1>2, <2>1 DEF EnterApproved, Reusable, Inv, Tickets
  <2>3. Consent!Act(c, k)
    BY <1>1, <2>1, <2>2
  <2> QED BY <2>2, <2>3 DEF Consent!Next
<1>3. ASSUME NEW c \in Calls, Approved(c) PROVE Consent!Next \/ UNCHANGED <<approved, Under>>
  <2> DEFINE k == call[c].ticket
  <2>1. k \in Calls /\ k \in approved /\ call[c].pc = "approve" /\ approved' = approved
    BY <1>3 DEF Approved, Inv, Places
  <2>2. CASE run # "stopping"
    <3>1. call' = [call EXCEPT ![c] = [pc |-> "acting", ticket |-> k]]
      <4>1. call \in [Calls -> CallState]
        BY DEF Inv, TypeOK
      <4>2. [call[c] EXCEPT !.pc = "acting"] = [pc |-> "acting", ticket |-> k]
        BY <4>1 DEF CallState
      <4>3. call' = [call EXCEPT ![c] = [call[c] EXCEPT !.pc = "acting"]]
        BY <1>3, <2>2 DEF Approved, Goto
      <4> QED BY <4>2, <4>3
    <3>2. Consent!Act(c, k)
      BY <1>1, <2>1, <3>1
    <3> QED BY <2>1, <3>2 DEF Consent!Next
  <2>3. CASE run = "stopping"
    <3>1. call' = [call EXCEPT ![c].pc = "cancelled"]
      BY <1>3, <2>3 DEF Approved, Goto
    <3>2. Under' = Under
      BY <2>1, <3>1 DEF Under, Started
    <3> QED BY <2>1, <3>2
  <2> QED BY <2>2, <2>3
<1>4. ASSUME NEW w \in Resolvers, RecordAnswer(w)
      PROVE Consent!Next \/ UNCHANGED <<approved, Under>>
  <2>1. Under' = Under
    BY <1>4 DEF RecordAnswer, Under
  <2>2. resolver[w].ticket \in Calls
    BY <1>4 DEF RecordAnswer, Inv, Answering
  <2>3. CASE approved' = approved
    BY <2>1, <2>3
  <2>4. CASE approved' = approved \cup {resolver[w].ticket}
    BY <2>1, <2>2, <2>4 DEF Consent!Next, Consent!Grant
  <2> QED BY <1>4, <2>3, <2>4 DEF RecordAnswer
<1>5. ASSUME approved' = approved,
             \A c \in Calls : /\ call'[c].pc \in Started <=> call[c].pc \in Started
                              /\ call[c].pc \in Started => call'[c].ticket = call[c].ticket
      PROVE UNCHANGED <<approved, Under>>
  BY <1>5 DEF Under
<1>6. ASSUME NEW c \in Calls, NEW pc \in (Waiting \cup Outcome),
             call' = [call EXCEPT ![c].pc = pc],
             approved' = approved, call[c].pc \in Started <=> pc \in Started
      PROVE UNCHANGED <<approved, Under>>
  <2>1. \A d \in Calls : /\ call'[d].pc \in Started <=> call[d].pc \in Started
                         /\ call'[d].ticket = call[d].ticket
    BY <1>6
  <2> QED BY <1>5, <1>6, <2>1
<1>7. ASSUME NEW c \in Calls, EnterWaiting(c) PROVE UNCHANGED <<approved, Under>>
  <2>1. PICK k \in Calls : call' = [call EXCEPT ![c] = [pc |-> "entering", ticket |-> k]]
    BY <1>7 DEF EnterWaiting, Reusable
  <2>2. call[c].pc = "new" /\ approved' = approved
    BY <1>7 DEF EnterWaiting
  <2>3. \A d \in Calls : /\ call'[d].pc \in Started <=> call[d].pc \in Started
                         /\ call[d].pc \in Started => call'[d].ticket = call[d].ticket
    <3>1. call \in [Calls -> CallState]
      BY DEF Inv, TypeOK
    <3> QED BY <2>1, <2>2, <3>1 DEF Started
  <2> QED BY <2>2, <2>3 DEF Under
<1>8. ASSUME NEW c \in Calls, HelperLooks(c) \/ HelperWakes(c) \/ HelperTimesOut(c)
                               \/ Denied(c) \/ TimedOut(c) \/ LookupFails(c)
      PROVE UNCHANGED <<approved, Under>>
  <2>1. approved' = approved /\ call[c].pc \in Waiting
    BY <1>8 DEF HelperLooks, HelperWakes, HelperTimesOut, Denied, TimedOut, LookupFails,
       Waiting, Answers
  <2>2. PICK pc \in (Waiting \cup {"denied", "failed"}) : call' = [call EXCEPT ![c].pc = pc]
    <3>1. CASE HelperLooks(c)
      BY <3>1 DEF HelperLooks, Goto, Waiting
    <3>2. CASE HelperWakes(c)
      <4>1. object[c] \in Calls
        BY <3>2 DEF HelperWakes, Inv, Places, TypeOK
      <4>2. answer[object[c]] \in Answers
        BY <3>2, <4>1 DEF HelperWakes, Inv, TypeOK
      <4> QED BY <3>2, <4>2 DEF HelperWakes, Goto, Waiting
    <3>3. CASE HelperTimesOut(c)
      BY <3>3 DEF HelperTimesOut, Goto, Waiting
    <3>4. CASE Denied(c) \/ TimedOut(c) \/ LookupFails(c)
      BY <3>4 DEF Denied, TimedOut, LookupFails, Goto
    <3> QED BY <1>8, <3>1, <3>2, <3>3, <3>4
  <2> QED BY <1>6, <2>1, <2>2 DEF Waiting, Answers, Outcome, Started
<1>9. ASSUME NEW c \in Calls, ActionEnds(c) PROVE UNCHANGED <<approved, Under>>
  <2>1. PICK pc \in {"done", "aborted"} : call' = [call EXCEPT ![c].pc = pc]
    BY <1>9 DEF ActionEnds, Goto
  <2> QED BY <1>6, <1>9, <2>1 DEF ActionEnds, Outcome, Started
<1>10. ASSUME NEW c \in Calls, Cancelled(c) PROVE UNCHANGED <<approved, Under>>
  BY <1>6, <1>10 DEF Cancelled, Goto, Interrupted, InFlight, Outcome, Started, Waiting,
     Answers
<1>11. CASE Crash
  <2>1. \A d \in Calls : /\ call'[d].pc \in Started <=> call[d].pc \in Started
                         /\ call'[d].ticket = call[d].ticket
    BY <1>11 DEF Crash, Inv, TypeOK, CallState, Interrupted, InFlight, Started, Waiting,
       Answers
  <2> QED BY <1>5, <1>11, <2>1 DEF Crash
<1>12. ASSUME UNCHANGED <<call, approved>> PROVE UNCHANGED <<approved, Under>>
  BY <1>12 DEF Under
<1>13. ASSUME NEW w \in Resolvers, Signal(w) \/ \E k \in Calls, a \in Answers : Resolve(w, k, a)
       PROVE UNCHANGED <<call, approved>>
  BY <1>13 DEF Signal, Resolve
<1>14. ASSUME StopRequested \/ Stopped \/ Finished \/ Resumed \/ UNCHANGED vars
       PROVE UNCHANGED <<call, approved>>
  BY <1>14 DEF StopRequested, Stopped, Finished, Resumed, vars
<1> QED BY <1>2, <1>3, <1>4, <1>7, <1>8, <1>9, <1>10, <1>11, <1>12, <1>13, <1>14 DEF Next,
   CallStep

\* Tool approval keeps its promise.
THEOREM ApprovalConsents == Spec => KeepsConsent
<1>1. Init => Consent!Init
  BY DEF Init, Consent!Init, Under
<1> QED BY <1>1, ApprovalInvariant, ConsentStep, PTL DEF Spec, KeepsConsent, Consent!Spec

(***************************************************************************)
(*                         The configuration                               *)
(***************************************************************************)

\* Where a thread is in the middle of an installation, and where of a change of model.json.
Inside == Installing \ First
FileUse == Saving \cup {"runtime"}

\* A server that is down has no calls in progress.
Down == ~ live.up => \A a \in Actors : actor[a].pc = "idle"

\* What a provider factory is made of that is built now.
Ours == Built(live.runtime, live.mcp, live.skills)

\* What an installation has replaced, from where its thread is; no other one is under way.
Stages ==
  live.up /\ ~ mixed =>
    \A t \in Threads :
      /\ \A u \in Threads : actor[t].pc \in Inside /\ actor[u].pc \in Inside => t = u
      /\ actor[t].pc = "profiles" => actor[t].content = live.runtime
      /\ actor[t].pc = "service" => actor[t].servers = live.mcp
      /\ actor[t].pc \in Inside \ {"profiles"} => live.reflection = live.runtime
      /\ actor[t].pc \in Inside \ {"service"} => live.service = live.mcp
      /\ actor[t].pc \in {"arguments", "executor"} => actor[t].runtime = live.runtime
      /\ actor[t].pc = "executor" => actor[t].mcp = live.mcp
      /\ actor[t].pc \in {"tasks", "coordFactory", "coordExecutor"} =>
           live.factory = Ours /\ live.executor = Ours
      /\ actor[t].pc \in {"coordFactory", "coordExecutor"} => live.tasks = Ours
      /\ actor[t].pc = "coordExecutor" => live.coordFactory = Ours

\* Without trouble only one thread changes model.json at a time, and what it is about to install
\* has been loaded from the file.
FileKept ==
  ~ trouble =>
    /\ \A t, u \in Threads : actor[t].pc \in FileUse /\ actor[u].pc \in FileUse => t = u
    /\ \A t \in Threads : actor[t].pc = "runtime" => actor[t].content = file /\ Loads(file)
    /\ (\A t \in Threads : actor[t].pc \notin FileUse) =>
         Loads(file) /\ (live.up => live.runtime = file)

\* The directories that someone may look into, now or after the next steps.
InUse == {live.skills, live.factory.skills, live.executor.skills, live.coordFactory.skills}
           \cup {actor[a].dir : a \in {b \in Actors : actor[b].pc \in {"scan", "check", "swap"}}}

\* Nothing on the disk is missing, or a reader of the directory will still come to it.
Whole == [d \in Dirs |->
  \/ disk \subseteq known[d]
  \/ \E a \in Actors : /\ actor[a].pc = "scan" /\ actor[a].dir = d
                       /\ disk \subseteq known[d] \cup actor[a].todo]

DirsFilled == live.up => \A d \in InUse \ behind : Whole[d]

\* The model configurations are functions on some of the profiles.
LEMMA ContentOf ==
  /\ \A c \in Contents : DOMAIN c \subseteq Profiles /\ c \in [DOMAIN c -> Keys \cup {Nothing}]
  /\ \A c : DOMAIN c \subseteq Profiles /\ c \in [DOMAIN c -> Keys \cup {Nothing}] => c \in Contents
BY DEF Contents

\* Saving a profile and deleting one give a configuration again.
LEMMA SavedContent ==
  ASSUME NEW c \in Contents, NEW n \in Profiles, NEW k \in Keys \cup {Nothing}, NEW s
  PROVE  Saved(c, n, k, s) \in Contents
<1>1. DOMAIN c \subseteq Profiles /\ c \in [DOMAIN c -> Keys \cup {Nothing}]
  BY ContentOf
<1>2. \A m : KeyIn(c, m) \in Keys \cup {Nothing}
  BY <1>1 DEF KeyIn
<1>3. Merge(c, n, k, s) \in Keys \cup {Nothing}
  BY <1>2 DEF Merge
<1>4. /\ DOMAIN Saved(c, n, k, s) = (DOMAIN c \ {s}) \cup {n}
      /\ Saved(c, n, k, s) \in [(DOMAIN c \ {s}) \cup {n} -> Keys \cup {Nothing}]
  BY <1>1, <1>3 DEF Saved
<1> QED BY <1>1, <1>4, ContentOf

LEMMA WithoutContent ==
  ASSUME NEW c \in Contents, NEW n
  PROVE  Without(c, n) \in Contents
<1>1. DOMAIN c \subseteq Profiles /\ c \in [DOMAIN c -> Keys \cup {Nothing}]
  BY ContentOf
<1>2. /\ DOMAIN Without(c, n) = DOMAIN c \ {n}
      /\ Without(c, n) \in [DOMAIN c \ {n} -> Keys \cup {Nothing}]
  BY <1>1 DEF Without
<1> QED BY <1>1, <1>2, ContentOf

\* What the steps of an actor have in common: it moves, the others stay where they are.
LEMMA Moves ==
  ASSUME ConfigTypeOK, NEW a \in Actors, NEW r \in Step, At(a, r)
  PROVE  /\ actor' \in [Actors -> Step] /\ actor'[a] = r
         /\ \A b \in Actors \ {a} : actor'[b] = actor[b]
BY DEF ConfigTypeOK, At

\* The fields that an actor has at each place.
LEMMA Fields ==
  ASSUME ConfigTypeOK, NEW a \in Actors
  PROVE  /\ actor[a].pc \in {"truncate", "write", "runtime", "profiles"} =>
              actor[a] = [pc |-> actor[a].pc, content |-> actor[a].content]
              /\ actor[a].content \in Contents
         /\ actor[a].pc \in {"registry", "service"} =>
              actor[a] = [pc |-> actor[a].pc, servers |-> actor[a].servers]
              /\ actor[a].servers \in SUBSET Servers
         /\ actor[a].pc \in {"clear", "scan", "check", "swap"} =>
              /\ actor[a] = [pc |-> actor[a].pc, dir |-> actor[a].dir, then |-> actor[a].then,
                             todo |-> actor[a].todo]
              /\ actor[a].dir \in Dirs /\ actor[a].then \in {"idle", "swap"}
              /\ actor[a].todo \in SUBSET Skills
         /\ actor[a].pc = "arguments" => actor[a].runtime \in Contents
         /\ actor[a].pc = "executor" =>
              actor[a].runtime \in Contents /\ actor[a].mcp \in SUBSET Servers
BY DEF ConfigTypeOK, Step, Scanning

\* The records an actor may become.
LEMMA StepIntro ==
  /\ \A pc \in {"idle", "load", "tasks", "coordFactory", "coordExecutor"} : [pc |-> pc] \in Step
  /\ \A pc \in {"truncate", "write", "runtime", "profiles", "capture"}, c \in Contents :
       [pc |-> pc, content |-> c] \in Step
  /\ \A pc \in {"registry", "service", "capture"}, s \in SUBSET Servers :
       [pc |-> pc, servers |-> s] \in Step
  /\ \A pc \in {"clear", "scan", "check", "swap", "capture"}, d \in Dirs, t \in {"idle", "swap"},
        s \in SUBSET Skills : [pc |-> pc, dir |-> d, then |-> t, todo |-> s] \in Step
  /\ \A c \in Contents : [pc |-> "arguments", runtime |-> c] \in Step
  /\ \A c \in Contents, s \in SUBSET Servers : [pc |-> "executor", runtime |-> c, mcp |-> s] \in Step
<1>1. \A pc \in {"idle", "load", "tasks", "coordFactory", "coordExecutor"} : [pc |-> pc] \in Step
  BY DEF Step
<1>2. \A pc \in {"truncate", "write", "runtime", "profiles", "capture"}, c \in Contents :
        [pc |-> pc, content |-> c] \in Step
  BY DEF Step
<1>3. \A pc \in {"registry", "service", "capture"}, s \in SUBSET Servers :
        [pc |-> pc, servers |-> s] \in Step
  BY DEF Step
<1>4. \A pc \in {"clear", "scan", "check", "swap", "capture"}, d \in Dirs, t \in {"idle", "swap"},
         s \in SUBSET Skills : [pc |-> pc, dir |-> d, then |-> t, todo |-> s] \in Step
  BY DEF Step, Scanning
<1>5. \A c \in Contents : [pc |-> "arguments", runtime |-> c] \in Step
  BY DEF Step
<1>6. \A c \in Contents, s \in SUBSET Servers :
        [pc |-> "executor", runtime |-> c, mcp |-> s] \in Step
  BY DEF Step
<1> QED BY <1>1, <1>2, <1>3, <1>4, <1>5, <1>6

\* The steps that only change where an actor is keep what it holds.
LEMMA Onward ==
  ASSUME ConfigTypeOK, NEW a \in Actors
  PROVE  /\ actor[a].pc = "truncate" => [actor[a] EXCEPT !.pc = "write"] \in Step
         /\ actor[a].pc = "runtime" => [actor[a] EXCEPT !.pc = "profiles"] \in Step
         /\ actor[a].pc \in {"profiles", "service", "swap"} =>
              [actor[a] EXCEPT !.pc = "capture"] \in Step
         /\ actor[a].pc = "registry" => [actor[a] EXCEPT !.pc = "service"] \in Step
         /\ actor[a].pc = "tasks" => [actor[a] EXCEPT !.pc = "coordFactory"] \in Step
         /\ actor[a].pc = "coordFactory" => [actor[a] EXCEPT !.pc = "coordExecutor"] \in Step
         /\ actor[a].pc = "clear" => [actor[a] EXCEPT !.pc = "scan", !.todo = disk] \in Step
         /\ actor[a].pc = "scan" =>
              /\ [actor[a] EXCEPT !.pc = "check"] \in Step
              /\ \A s : [actor[a] EXCEPT !.todo = @ \ {s}] \in Step
         /\ actor[a].pc = "check" => [actor[a] EXCEPT !.pc = "swap"] \in Step
<1>1. actor[a] \in Step /\ disk \subseteq Skills
  BY DEF ConfigTypeOK
<1>2. actor[a].pc = "truncate" => [actor[a] EXCEPT !.pc = "write"] \in Step
  BY <1>1 DEF Step, Scanning
<1>3. actor[a].pc = "runtime" => [actor[a] EXCEPT !.pc = "profiles"] \in Step
  BY <1>1 DEF Step, Scanning
<1>4. actor[a].pc \in {"profiles", "service", "swap"} => [actor[a] EXCEPT !.pc = "capture"] \in Step
  BY <1>1 DEF Step, Scanning
<1>5. actor[a].pc = "registry" => [actor[a] EXCEPT !.pc = "service"] \in Step
  BY <1>1 DEF Step, Scanning
<1>6. actor[a].pc = "tasks" => [actor[a] EXCEPT !.pc = "coordFactory"] \in Step
  BY <1>1 DEF Step, Scanning
<1>7. actor[a].pc = "coordFactory" => [actor[a] EXCEPT !.pc = "coordExecutor"] \in Step
  BY <1>1 DEF Step, Scanning
<1>8. actor[a].pc = "clear" => [actor[a] EXCEPT !.pc = "scan", !.todo = disk] \in Step
  BY <1>1 DEF Step, Scanning
<1>9. actor[a].pc = "scan" => [actor[a] EXCEPT !.pc = "check"] \in Step
  BY <1>1 DEF Step, Scanning
<1>10. actor[a].pc = "scan" => \A s : [actor[a] EXCEPT !.todo = @ \ {s}] \in Step
  BY <1>1 DEF Step, Scanning
<1>11. actor[a].pc = "check" => [actor[a] EXCEPT !.pc = "swap"] \in Step
  BY <1>1 DEF Step, Scanning
<1> QED BY <1>2, <1>3, <1>4, <1>5, <1>6, <1>7, <1>8, <1>9, <1>10, <1>11

\* To another place with the same fields.
LEMMA Kept ==
  ASSUME ConfigTypeOK, NEW a \in Actors, NEW pc
  PROVE  /\ [actor[a] EXCEPT !.pc = pc].pc = pc
         /\ actor[a].pc \in {"truncate", "write", "runtime", "profiles"} =>
              [actor[a] EXCEPT !.pc = pc].content = actor[a].content
         /\ actor[a].pc \in {"registry", "service"} =>
              [actor[a] EXCEPT !.pc = pc].servers = actor[a].servers
         /\ actor[a].pc \in {"scan", "check", "swap"} =>
              /\ [actor[a] EXCEPT !.pc = pc].dir = actor[a].dir
              /\ [actor[a] EXCEPT !.pc = pc].todo = actor[a].todo
<1>1. actor[a] \in Step
  BY DEF ConfigTypeOK
<1>2. [actor[a] EXCEPT !.pc = pc].pc = pc
  BY <1>1 DEF Step
<1>3. actor[a].pc \in {"truncate", "write", "runtime", "profiles"} =>
        [actor[a] EXCEPT !.pc = pc].content = actor[a].content
  BY <1>1 DEF Step, Scanning
<1>4. actor[a].pc \in {"registry", "service"} =>
        [actor[a] EXCEPT !.pc = pc].servers = actor[a].servers
  BY <1>1 DEF Step, Scanning
<1>5. actor[a].pc \in {"scan", "check", "swap"} =>
        /\ [actor[a] EXCEPT !.pc = pc].dir = actor[a].dir
        /\ [actor[a] EXCEPT !.pc = pc].todo = actor[a].todo
  BY <1>1 DEF Step, Scanning
<1> QED BY <1>2, <1>3, <1>4, <1>5

\* What a step to another place changes.
LEMMA Walks ==
  ASSUME ConfigTypeOK, NEW a \in Actors, NEW pc, To(a, pc)
  PROVE  /\ actor'[a].pc = pc /\ \A b \in Actors \ {a} : actor'[b] = actor[b]
         /\ actor[a].pc \in {"truncate", "write", "runtime", "profiles"} =>
              actor'[a].content = actor[a].content
         /\ actor[a].pc \in {"registry", "service"} => actor'[a].servers = actor[a].servers
         /\ actor[a].pc \in {"scan", "check", "swap"} =>
              actor'[a].dir = actor[a].dir /\ actor'[a].todo = actor[a].todo
<1>1. /\ actor'[a] = [actor[a] EXCEPT !.pc = pc]
      /\ \A b \in Actors \ {a} : actor'[b] = actor[b]
  BY DEF To, At, ConfigTypeOK
<1> QED BY <1>1, Kept

\* The steps of a reader of a skills directory.
LEMMA Looks ==
  ASSUME ConfigTypeOK, NEW a \in Actors, Clear(a) \/ Scan(a) \/ Check(a)
  PROVE  /\ actor'[a].pc \in {"scan", "check", "swap", "idle"}
         /\ actor'[a].pc # "idle" => actor'[a].dir = actor[a].dir
         /\ Clear(a) => actor'[a].pc = "scan" /\ actor'[a].todo = disk
         /\ Scan(a) => IF actor[a].todo = {} THEN actor'[a].pc = "check" /\ known' = known
                       ELSE \E s \in actor[a].todo :
                              /\ actor'[a].pc = "scan" /\ actor'[a].todo = actor[a].todo \ {s}
                              /\ known' = [known EXCEPT ![actor[a].dir] = @ \cup Loaded(s)]
         /\ Check(a) => actor'[a].pc \in {"swap", "idle"}
         /\ \A b \in Actors \ {a} : actor'[b] = actor[b]
<1>1. actor[a] \in Step /\ actor \in [Actors -> Step]
  BY DEF ConfigTypeOK
<1>2. CASE Clear(a)
  <2>1. /\ actor'[a] = [actor[a] EXCEPT !.pc = "scan", !.todo = disk] /\ actor[a].pc = "clear"
        /\ \A b \in Actors \ {a} : actor'[b] = actor[b]
    BY <1>1, <1>2 DEF Clear, At
  <2>2. actor'[a].pc = "scan" /\ actor'[a].todo = disk /\ actor'[a].dir = actor[a].dir
    BY <1>1, <2>1 DEF Step, Scanning
  <2> QED BY <1>2, <2>1, <2>2 DEF Clear, Scan, Check
<1>3. CASE Scan(a)
  <2>1. CASE actor[a].todo = {}
    BY <1>3, <2>1, Walks DEF Clear, Scan, Check
  <2>2. CASE actor[a].todo # {}
    <3>1. PICK s \in actor[a].todo :
            /\ known' = [known EXCEPT ![actor[a].dir] = @ \cup Loaded(s)]
            /\ At(a, [actor[a] EXCEPT !.todo = @ \ {s}])
      BY <1>3, <2>2 DEF Scan
    <3>2. /\ actor'[a] = [actor[a] EXCEPT !.todo = @ \ {s}]
          /\ \A b \in Actors \ {a} : actor'[b] = actor[b]
      BY <1>1, <3>1 DEF At
    <3>3. actor'[a].pc = "scan" /\ actor'[a].todo = actor[a].todo \ {s}
          /\ actor'[a].dir = actor[a].dir
      BY <1>1, <1>3, <3>2 DEF Scan, Step, Scanning
    <3> QED BY <1>3, <2>2, <3>1, <3>2, <3>3 DEF Clear, Scan, Check
  <2> QED BY <2>1, <2>2
<1>4. CASE Check(a)
  <2>1. CASE To(a, "swap")
    BY <1>4, <2>1, Walks DEF Clear, Scan, Check
  <2>2. CASE At(a, Idle)
    BY <1>1, <1>4, <2>2 DEF Clear, Scan, Check, At, Idle
  <2> QED BY <1>4, <2>1, <2>2 DEF Check
<1> QED BY <1>2, <1>3, <1>4

LEMMA BuiltType ==
  ASSUME NEW c \in Contents, NEW s \in SUBSET Servers, NEW d \in Dirs
  PROVE  Built(c, s, d) \in Factory
BY DEF Built, Factory

LEMMA FreshLive ==
  ASSUME file \in Contents, mcpFile \in SUBSET Servers, NEW d \in Dirs
  PROVE  Fresh(d) \in Live
BY BuiltType DEF Fresh, Live

LEMMA ZeroDir == 0 \in Dirs /\ Dirs \subseteq Nat
BY BoundsAssumption DEF Dirs

LEMMA LoadsContent == ASSUME NEW c \in Contents \cup {Torn}, Loads(c) PROVE c \in Contents
BY DEF Loads

LEMMA TypeInit == ConfigInit => ConfigTypeOK
<1> SUFFICES ASSUME ConfigInit PROVE ConfigTypeOK
  OBVIOUS
<1>1. live \in Live
  BY FreshLive, ZeroDir DEF ConfigInit
<1>2. actor \in [Actors -> Step]
  BY StepIntro DEF ConfigInit, Idle
<1>3. known \in [Dirs -> SUBSET Skills]
  BY DEF ConfigInit
<1>4. ops \in 0..MaxOps /\ edits \in 0..MaxEdits /\ crashes \in 0..MaxCrashes
  BY BoundsAssumption DEF ConfigInit
<1> QED BY <1>1, <1>2, <1>3, <1>4 DEF ConfigInit, ConfigTypeOK

\* A request: its thread was idle, and nothing but the thread and the flag of trouble changes.
LEMMA Asks ==
  ASSUME ConfigTypeOK, NEW t \in Threads, Requests(t)
  PROVE  /\ UNCHANGED <<file, mcpFile, disk, live, known, mixed, behind, edits, crashes>>
         /\ live.up /\ actor[t].pc = "idle" /\ trouble' \in BOOLEAN /\ ops' \in 0..MaxOps
         /\ \E r \in Step : At(t, r) /\ r.pc \in {"truncate", "load", "registry", "clear", "idle"}
<1>1. t \in Actors /\ Threads \subseteq Actors
  BY DEF Actors
<1>2. /\ UNCHANGED <<file, mcpFile, disk, live, known, mixed, behind, edits, crashes>>
      /\ ops < MaxOps /\ ops' = ops + 1 /\ trouble' \in BOOLEAN
      /\ live.up /\ actor[t].pc = "idle"
  BY DEF Requests, SaveProfile, DeleteProfile, ReplaceConfig, ReloadModel, ReloadMcp,
     ReloadSkills, LookUp, Begins, Busy, files, history, Refused, ConfigTypeOK
<1>3. ops' \in 0..MaxOps /\ ops' \in Dirs
  BY <1>2, BoundsAssumption DEF ConfigTypeOK, Dirs
<1>4. live.skills \in Dirs
  BY DEF ConfigTypeOK, Live
<1> DEFINE Goes == \E r \in Step :
                     At(t, r) /\ r.pc \in {"truncate", "load", "registry", "clear", "idle"}
<1>5. Goes
  <2>1. ASSUME NEW n \in Profiles, NEW k \in Keys \cup {Nothing}, NEW s \in Profiles \cup {Nothing},
               SaveProfile(t, n, k, s)
        PROVE  Goes
    <3>1. file \in Contents
      BY <2>1 DEF SaveProfile, ConfigTypeOK
    <3>2. Saved(file, n, k, s) \in Contents
      BY <3>1, SavedContent
    <3> QED BY <2>1, <3>2, StepIntro DEF SaveProfile, Writes
  <2>2. ASSUME NEW n \in Profiles, DeleteProfile(t, n) PROVE Goes
    <3>1. file \in Contents
      BY <2>2 DEF DeleteProfile, ConfigTypeOK
    <3>2. Without(file, n) \in Contents
      BY <3>1, WithoutContent
    <3> QED BY <2>2, <3>2, StepIntro DEF DeleteProfile, Writes
  <2>3. ASSUME NEW c \in Contents, ReplaceConfig(t, c) PROVE Goes
    BY <2>3, StepIntro DEF ReplaceConfig, Writes
  <2>4. CASE ReloadModel(t)
    BY <2>4, StepIntro DEF ReloadModel
  <2>5. CASE ReloadMcp(t)
    BY <2>5, StepIntro DEF ReloadMcp, Refused, Idle, ConfigTypeOK
  <2>6. CASE ReloadSkills(t)
    BY <2>6, <1>3, StepIntro DEF ReloadSkills, Discover
  <2>7. CASE LookUp(t)
    BY <2>7, <1>4, StepIntro DEF LookUp, Discover
  <2> QED BY <2>1, <2>2, <2>3, <2>4, <2>5, <2>6, <2>7 DEF Requests
<1> QED BY <1>2, <1>3, <1>5

LEMMA TypeRequests ==
  ASSUME ConfigTypeOK, NEW t \in Threads, Requests(t) PROVE ConfigTypeOK'
<1>1. t \in Actors
  BY DEF Actors
<1>2. actor' \in [Actors -> Step]
  BY <1>1, Asks, Moves
<1> QED BY <1>2, Asks DEF ConfigTypeOK

LEMMA TypeSaving ==
  ASSUME ConfigTypeOK, NEW t \in Threads, Truncate(t) \/ Write(t) \/ Load(t) PROVE ConfigTypeOK'
<1>1. t \in Actors
  BY DEF Actors
<1>2. CASE Truncate(t)
  <2>1. [actor[t] EXCEPT !.pc = "write"] \in Step
    BY <1>1, <1>2, Onward DEF Truncate
  <2>2. actor' \in [Actors -> Step]
    BY <1>1, <1>2, <2>1, Moves DEF Truncate, To
  <2> QED BY <1>2, <2>2 DEF Truncate, history, bounds, ConfigTypeOK
<1>3. CASE Write(t)
  <2>1. actor' \in [Actors -> Step]
    BY <1>1, <1>3, StepIntro, Moves DEF Write
  <2>2. actor[t].content \in Contents
    BY <1>1, <1>3, Fields DEF Write
  <2> QED BY <1>3, <2>1, <2>2 DEF Write, history, bounds, ConfigTypeOK
<1>4. CASE Load(t)
  <2>1. Loads(file) => file \in Contents
    BY LoadsContent DEF ConfigTypeOK
  <2>2. actor' \in [Actors -> Step]
    BY <1>1, <1>4, <2>1, StepIntro, Moves DEF Load, Refused, Idle
  <2> QED BY <1>4, <2>2 DEF Load, Refused, files, bounds, ConfigTypeOK
<1> QED BY <1>2, <1>3, <1>4

\* A container with one part replaced.
LEMMA LiveParts ==
  ASSUME live \in Live
  PROVE  /\ \A c \in Contents : /\ [live EXCEPT !.runtime = c] \in Live
                                /\ [live EXCEPT !.reflection = c] \in Live
         /\ \A s \in SUBSET Servers : /\ [live EXCEPT !.mcp = s] \in Live
                                      /\ [live EXCEPT !.service = s] \in Live
         /\ \A d \in Dirs : [live EXCEPT !.skills = d] \in Live
         /\ \A f \in Factory : /\ [live EXCEPT !.factory = f, !.executor = f] \in Live
                               /\ [live EXCEPT !.tasks = f] \in Live
                               /\ [live EXCEPT !.coordFactory = f] \in Live
                               /\ [live EXCEPT !.coordExecutor = f] \in Live
         /\ [live EXCEPT !.up = FALSE] \in Live
         /\ live.runtime \in Contents /\ live.mcp \in SUBSET Servers /\ live.skills \in Dirs
         /\ {live.factory, live.executor, live.tasks, live.coordFactory, live.coordExecutor}
              \subseteq Factory
BY DEF Live

\* Every step of an installation is taken by one thread, and replaces parts of the container.
LEMMA InstallsMove ==
  ASSUME ConfigTypeOK, NEW t \in Threads, Installs(t)
  PROVE  /\ UNCHANGED <<files, known, behind, trouble, bounds>> /\ mixed' \in BOOLEAN
         /\ live' \in Live /\ \E r \in Step : At(t, r)
<1>1. t \in Actors /\ live \in Live
  BY DEF Actors, ConfigTypeOK
<1>2. /\ UNCHANGED <<files, known, behind, trouble, bounds>> /\ mixed' \in BOOLEAN
  BY DEF Installs, SetRuntime, SetProfiles, SetMcp, SetMcpService, SetSkills, Capture,
     CaptureMcp, SetExecutor, SetTaskService, SetCoordinatorFactory, SetCoordinatorExecutor,
     Part, Overlap, history, ConfigTypeOK
<1>3. live' \in Live /\ \E r \in Step : At(t, r)
  <2>1. CASE SetRuntime(t)
    BY <1>1, <2>1, Fields, Onward, LiveParts DEF SetRuntime, Part, To
  <2>2. CASE SetProfiles(t)
    BY <1>1, <2>2, Fields, Onward, LiveParts DEF SetProfiles, Part, To
  <2>3. CASE SetMcp(t)
    BY <1>1, <2>3, Fields, Onward, LiveParts DEF SetMcp, Part, To
  <2>4. CASE SetMcpService(t)
    BY <1>1, <2>4, Fields, Onward, LiveParts DEF SetMcpService, Part, To
  <2>5. CASE SetSkills(t)
    BY <1>1, <2>5, Fields, Onward, LiveParts DEF SetSkills, Part, To
  <2>6. CASE Capture(t)
    BY <1>1, <2>6, StepIntro, LiveParts DEF Capture
  <2>7. CASE CaptureMcp(t)
    BY <1>1, <2>7, Fields, StepIntro, LiveParts DEF CaptureMcp
  <2>8. CASE SetExecutor(t)
    <3>1. Built(actor[t].runtime, actor[t].mcp, live.skills) \in Factory
      BY <1>1, <2>8, Fields, BuiltType, LiveParts DEF SetExecutor
    <3> QED BY <1>1, <2>8, <3>1, StepIntro, LiveParts DEF SetExecutor
  <2>9. CASE SetTaskService(t)
    <3>1. [actor[t] EXCEPT !.pc = "coordFactory"] \in Step
      BY <1>1, <2>9, Onward DEF SetTaskService
    <3> QED BY <1>1, <2>9, <3>1, LiveParts DEF SetTaskService, Part, To
  <2>10. CASE SetCoordinatorFactory(t)
    <3>1. [actor[t] EXCEPT !.pc = "coordExecutor"] \in Step
      BY <1>1, <2>10, Onward DEF SetCoordinatorFactory
    <3> QED BY <1>1, <2>10, <3>1, LiveParts DEF SetCoordinatorFactory, Part, To
  <2>11. CASE SetCoordinatorExecutor(t)
    BY <1>1, <2>11, StepIntro, LiveParts DEF SetCoordinatorExecutor, Idle
  <2> QED BY <2>1, <2>2, <2>3, <2>4, <2>5, <2>6, <2>7, <2>8, <2>9, <2>10, <2>11 DEF Installs
<1> QED BY <1>2, <1>3

LEMMA TypeInstalls ==
  ASSUME ConfigTypeOK, NEW t \in Threads, Installs(t) PROVE ConfigTypeOK'
<1>1. t \in Actors
  BY DEF Actors
<1>2. actor' \in [Actors -> Step]
  BY <1>1, InstallsMove, Moves
<1> QED BY <1>2, InstallsMove DEF ConfigTypeOK, files, bounds

LEMMA TypeLooking ==
  ASSUME ConfigTypeOK, NEW a \in Actors, Clear(a) \/ Scan(a) \/ Check(a) PROVE ConfigTypeOK'
<1>1. actor[a].pc \in {"clear", "scan", "check"} /\ actor[a].dir \in Dirs
  BY Fields DEF Clear, Scan, Check
<1>2. /\ UNCHANGED <<files, live, mixed, trouble, bounds>> /\ behind' \subseteq Dirs
  BY DEF Clear, Scan, Check, history, ConfigTypeOK
<1>3. known' \in [Dirs -> SUBSET Skills]
  BY <1>1 DEF Clear, Scan, Check, Loaded, ConfigTypeOK
<1>4. \E r \in Step : At(a, r)
  <2>1. CASE Clear(a)
    <3>1. [actor[a] EXCEPT !.pc = "scan", !.todo = disk] \in Step
      BY <2>1, Onward DEF Clear
    <3> QED BY <2>1, <3>1 DEF Clear
  <2>2. CASE Scan(a)
    <3>1. [actor[a] EXCEPT !.pc = "check"] \in Step
      BY <2>2, Onward DEF Scan
    <3>2. \A s : [actor[a] EXCEPT !.todo = @ \ {s}] \in Step
      BY <2>2, Onward DEF Scan
    <3> QED BY <2>2, <3>1, <3>2 DEF Scan, To
  <2>3. CASE Check(a)
    <3>1. [actor[a] EXCEPT !.pc = "swap"] \in Step
      BY <2>3, Onward DEF Check
    <3> QED BY <2>3, <3>1, StepIntro DEF Check, To, Idle
  <2> QED BY <2>1, <2>2, <2>3
<1>5. actor' \in [Actors -> Step]
  BY <1>4, Moves
<1> QED BY <1>2, <1>3, <1>5 DEF ConfigTypeOK, files, bounds

LEMMA TypePrompt == ASSUME ConfigTypeOK, NEW d \in Dirs, Prompt(d) PROVE ConfigTypeOK'
<1>1. Loop \in Actors
  BY DEF Actors
<1>2. actor' \in [Actors -> Step]
  BY <1>1, Moves, StepIntro DEF Prompt, Discover
<1>3. ops' \in 0..MaxOps
  BY BoundsAssumption DEF Prompt, ConfigTypeOK
<1> QED BY <1>2, <1>3 DEF Prompt, ConfigTypeOK, files, history

LEMMA TypeWorld ==
  ASSUME ConfigTypeOK, EditModel \/ EditMcp \/ EditSkills \/ ServerCrash \/ Boot
  PROVE  ConfigTypeOK'
<1>1. CASE EditModel \/ EditMcp \/ EditSkills
  <2>1. edits' \in 0..MaxEdits
    BY <1>1, BoundsAssumption DEF EditModel, EditMcp, EditSkills, Edited, ConfigTypeOK
  <2> QED BY <1>1, <2>1 DEF EditModel, EditMcp, EditSkills, history, ConfigTypeOK
<1>2. CASE ServerCrash
  <2>1. actor' \in [Actors -> Step]
    BY <1>2, StepIntro DEF ServerCrash, Idle
  <2>2. live' \in Live
    BY <1>2, LiveParts DEF ServerCrash, ConfigTypeOK
  <2>3. crashes' \in 0..MaxCrashes
    BY <1>2, BoundsAssumption DEF ServerCrash, ConfigTypeOK
  <2> QED BY <1>2, <2>1, <2>2, <2>3 DEF ServerCrash, files, ConfigTypeOK
<1>3. CASE Boot
  <2>1. live' \in Live
    BY <1>3, FreshLive, LoadsContent, ZeroDir DEF Boot, Starts, ConfigTypeOK
  <2>2. known' \in [Dirs -> SUBSET Skills]
    BY <1>3 DEF Boot, ConfigTypeOK
  <2> QED BY <1>3, <2>1, <2>2 DEF Boot, files, bounds, ConfigTypeOK
<1> QED BY <1>1, <1>2, <1>3

\* Every step of the configuration preserves its types.
LEMMA TypeStep == ConfigTypeOK /\ [ConfigNext]_configVars => ConfigTypeOK'
<1> SUFFICES ASSUME ConfigTypeOK, [ConfigNext]_configVars PROVE ConfigTypeOK'
  OBVIOUS
<1>1. CASE UNCHANGED configVars
  BY <1>1 DEF configVars, files, history, bounds, ConfigTypeOK
<1>2. CASE ConfigNext
  BY <1>2, TypeRequests, TypeSaving, TypeInstalls, TypeLooking, TypePrompt, TypeWorld DEF
     ConfigNext
<1> QED BY <1>1, <1>2

(***************************************************************************)
(* A server that is down does nothing.                                     *)
(***************************************************************************)
\* Only the boot brings a server back, and it has no calls yet.
LEMMA DownStep == ConfigTypeOK /\ Down /\ [ConfigNext]_configVars => Down'
<1> SUFFICES ASSUME ConfigTypeOK, Down, [ConfigNext]_configVars PROVE Down'
  OBVIOUS
<1>1. ASSUME NEW a \in Actors, actor[a].pc # "idle", live'.up = live.up PROVE Down'
  BY <1>1 DEF Down
<1>2. CASE UNCHANGED configVars
  BY <1>2 DEF configVars, Down
<1>3. ASSUME NEW t \in Threads, Requests(t) PROVE Down'
  BY <1>3, Asks DEF Down
<1>4. ASSUME NEW t \in Threads, Truncate(t) \/ Write(t) \/ Load(t) PROVE Down'
  BY <1>4, <1>1 DEF Truncate, Write, Load, Actors
<1>5. ASSUME NEW t \in Threads, Installs(t) PROVE Down'
  <2>1. actor[t].pc # "idle" /\ t \in Actors
    BY <1>5 DEF Installs, SetRuntime, SetProfiles, SetMcp, SetMcpService, SetSkills,
       Capture, CaptureMcp, SetExecutor, SetTaskService, SetCoordinatorFactory,
       SetCoordinatorExecutor, Actors
  <2>2. live'.up = live.up
    BY <1>5 DEF Installs, SetRuntime, SetProfiles, SetMcp, SetMcpService, SetSkills,
       Capture, CaptureMcp, SetExecutor, SetTaskService, SetCoordinatorFactory,
       SetCoordinatorExecutor, Part, ConfigTypeOK, Live
  <2> QED BY <1>1, <2>1, <2>2
<1>6. ASSUME NEW a \in Actors, Clear(a) \/ Scan(a) \/ Check(a) PROVE Down'
  BY <1>6, <1>1 DEF Clear, Scan, Check
<1>7. ASSUME NEW d \in Dirs, Prompt(d) PROVE Down'
  BY <1>7 DEF Prompt, Down
<1>8. CASE EditModel \/ EditMcp \/ EditSkills
  BY <1>8 DEF EditModel, EditMcp, EditSkills, Down
<1>9. CASE ServerCrash
  BY <1>9 DEF ServerCrash, Idle, Down
<1>10. CASE Boot
  BY <1>10 DEF Boot, Fresh, Down
<1> QED BY <1>2, <1>3, <1>4, <1>5, <1>6, <1>7, <1>8, <1>9, <1>10 DEF ConfigNext

(***************************************************************************)
(* The parts of the container.                                             *)
(***************************************************************************)
\* A step that moves no installation and replaces no part.
LEMMA PartsStay ==
  ASSUME Stages, PartsAgree, UNCHANGED <<live, mixed>>,
         \A u \in Threads : actor[u].pc \in Inside \/ actor'[u].pc \in Inside => actor'[u] = actor[u]
  PROVE  Stages' /\ PartsAgree'
<1>1. \A u \in Threads : actor'[u].pc \in Inside <=> actor[u].pc \in Inside
  OBVIOUS
<1>2. PartsAgree'
  BY <1>1 DEF PartsAgree, Installed, Inside
<1>3. Stages'
  BY <1>1 DEF Stages, Ours, Inside, Installing, First
<1> QED BY <1>2, <1>3

\* The first step of an installation, by t, if the installations do not overlap.
LEMMA PartsFirst ==
  ASSUME ConfigTypeOK, PartsAgree, NEW t \in Threads, actor[t].pc \in First, Overlap(t),
         \A u \in Threads \ {t} : actor'[u] = actor[u]
  PROVE  /\ ~ mixed' => /\ \A u \in Threads \ {t} : actor'[u].pc \notin Inside
                        /\ live.up => /\ live.reflection = live.runtime
                                      /\ live.service = live.mcp
<1>1. ~ mixed' => ~ mixed /\ \A u \in Threads \ {t} : actor[u].pc \notin Inside
  BY DEF Overlap, Inside
<1>2. ~ mixed' => Installed
  BY <1>1 DEF Installed, Inside
<1> QED BY <1>1, <1>2 DEF PartsAgree

\* The later steps: no other thread installs.
LEMMA PartsLater ==
  ASSUME ConfigTypeOK, Stages, NEW t \in Threads, actor[t].pc \in Inside, mixed' = mixed,
         live.up, \A u \in Threads \ {t} : actor'[u] = actor[u], ~ mixed
  PROVE  \A u \in Threads \ {t} : actor'[u].pc \notin Inside
BY DEF Stages

\* The steps of an installation, one after the other.
LEMMA PartsInstalls ==
  ASSUME ConfigTypeOK, Down, Stages, PartsAgree, NEW t \in Threads, Installs(t)
  PROVE  Stages' /\ PartsAgree'
<1>1. t \in Actors /\ live \in Live
  BY DEF Actors, ConfigTypeOK
<1>2. CASE SetRuntime(t)
  <2>1. /\ actor'[t].pc = "profiles" /\ actor'[t].content = actor[t].content
        /\ \A u \in Threads \ {t} : actor'[u] = actor[u]
    BY <1>1, <1>2, Walks DEF SetRuntime, Part, Actors
  <2>2. /\ live'.runtime = actor[t].content /\ live'.service = live.service /\ live'.mcp = live.mcp
        /\ live'.up = live.up
    BY <1>1, <1>2 DEF SetRuntime, Part, Live
  <2>3. ~ mixed' => /\ \A u \in Threads \ {t} : actor'[u].pc \notin Inside
                    /\ live.up => live.service = live.mcp
    BY <1>2, <2>1, PartsFirst DEF SetRuntime, First
  <2>4. Stages'
    BY <2>1, <2>2, <2>3 DEF Stages, Inside, Installing, First
  <2>5. ~ Installed'
    BY <2>1 DEF Installed, Installing, First
  <2> QED BY <2>4, <2>5 DEF PartsAgree
<1>3. CASE SetMcp(t)
  <2>1. /\ actor'[t].pc = "service" /\ actor'[t].servers = actor[t].servers
        /\ \A u \in Threads \ {t} : actor'[u] = actor[u]
    BY <1>1, <1>3, Walks DEF SetMcp, Part, Actors
  <2>2. /\ live'.mcp = actor[t].servers /\ live'.reflection = live.reflection
        /\ live'.runtime = live.runtime /\ live'.up = live.up
    BY <1>1, <1>3 DEF SetMcp, Part, Live
  <2>3. ~ mixed' => /\ \A u \in Threads \ {t} : actor'[u].pc \notin Inside
                    /\ live.up => live.reflection = live.runtime
    BY <1>3, <2>1, PartsFirst DEF SetMcp, First
  <2>4. Stages'
    BY <2>1, <2>2, <2>3 DEF Stages, Inside, Installing, First
  <2>5. ~ Installed'
    BY <2>1 DEF Installed, Installing, First
  <2> QED BY <2>4, <2>5 DEF PartsAgree
<1>4. CASE SetSkills(t)
  <2>1. /\ actor'[t].pc = "capture"
        /\ \A u \in Threads \ {t} : actor'[u] = actor[u]
    BY <1>1, <1>4, Walks DEF SetSkills, Part, Actors
  <2>2. /\ live'.mcp = live.mcp /\ live'.reflection = live.reflection
        /\ live'.runtime = live.runtime /\ live'.service = live.service /\ live'.up = live.up
    BY <1>1, <1>4 DEF SetSkills, Part, Live
  <2>3. ~ mixed' => /\ \A u \in Threads \ {t} : actor'[u].pc \notin Inside
                    /\ live.up => live.reflection = live.runtime /\ live.service = live.mcp
    BY <1>4, <2>1, PartsFirst DEF SetSkills, First
  <2>4. Stages'
    BY <2>1, <2>2, <2>3 DEF Stages, Inside, Installing, First
  <2>5. ~ Installed'
    BY <2>1 DEF Installed, Installing, First
  <2> QED BY <2>4, <2>5 DEF PartsAgree
<1>5. ASSUME SetProfiles(t) \/ SetMcpService(t) \/ Capture(t) \/ CaptureMcp(t) \/ SetExecutor(t)
             \/ SetTaskService(t) \/ SetCoordinatorFactory(t) \/ SetCoordinatorExecutor(t)
      PROVE  Stages' /\ PartsAgree'
  <2>1. actor[t].pc \in Inside /\ mixed' = mixed /\ live.up
    BY <1>1, <1>5 DEF SetProfiles, SetMcpService, Capture, CaptureMcp, SetExecutor,
       SetTaskService, SetCoordinatorFactory, SetCoordinatorExecutor, Inside, Installing,
       First, history, Down
  <2>2. PICK r \in Step : At(t, r)
    BY InstallsMove
  <2>3. \A u \in Threads \ {t} : actor'[u] = actor[u]
    BY <1>1, <2>2, Moves DEF Actors
  <2>4. ~ mixed => \A u \in Threads \ {t} : actor'[u].pc \notin Inside
    BY <2>1, <2>3, PartsLater
  <2> SUFFICES ASSUME ~ mixed PROVE Stages' /\ PartsAgree'
    BY <2>1 DEF Stages, PartsAgree
  <2>5. CASE SetProfiles(t)
    <3>1. actor'[t].pc = "capture" /\ live' = [live EXCEPT !.reflection = actor[t].content]
      BY <1>1, <2>5, Walks DEF SetProfiles, Part
    <3>2. actor[t].content = live.runtime /\ live.service = live.mcp
      BY <2>1, <2>5 DEF SetProfiles, Stages, Inside, Installing, First
    <3>3. live'.reflection = live'.runtime /\ live'.service = live'.mcp
      BY <1>1, <3>1, <3>2 DEF Live
    <3>4. Stages'
      BY <2>4, <3>1, <3>3 DEF Stages, Inside, Installing, First
    <3>5. ~ Installed'
      BY <3>1 DEF Installed, Installing, First
    <3> QED BY <3>4, <3>5 DEF PartsAgree
  <2>6. CASE SetMcpService(t)
    <3>1. actor'[t].pc = "capture" /\ live' = [live EXCEPT !.service = actor[t].servers]
      BY <1>1, <2>6, Walks DEF SetMcpService, Part
    <3>2. actor[t].servers = live.mcp /\ live.reflection = live.runtime
      BY <2>1, <2>6 DEF SetMcpService, Stages, Inside, Installing, First
    <3>3. live'.reflection = live'.runtime /\ live'.service = live'.mcp
      BY <1>1, <3>1, <3>2 DEF Live
    <3>4. Stages'
      BY <2>4, <3>1, <3>3 DEF Stages, Inside, Installing, First
    <3>5. ~ Installed'
      BY <3>1 DEF Installed, Installing, First
    <3> QED BY <3>4, <3>5 DEF PartsAgree
  <2>7. CASE Capture(t)
    <3>1. actor'[t] = [pc |-> "arguments", runtime |-> live.runtime] /\ live' = live
      BY <1>1, <2>7 DEF Capture, At, ConfigTypeOK
    <3>2. live.reflection = live.runtime /\ live.service = live.mcp
      BY <2>1, <2>7 DEF Capture, Stages, Inside, Installing, First
    <3>3. Stages'
      BY <2>4, <3>1, <3>2 DEF Stages, Inside, Installing, First
    <3>4. ~ Installed'
      BY <3>1 DEF Installed, Installing, First
    <3> QED BY <3>3, <3>4 DEF PartsAgree
  <2>8. CASE CaptureMcp(t)
    <3>1. /\ actor'[t] = [pc |-> "executor", runtime |-> actor[t].runtime, mcp |-> live.mcp]
          /\ live' = live
      BY <1>1, <2>8 DEF CaptureMcp, At, ConfigTypeOK
    <3>2. /\ live.reflection = live.runtime /\ live.service = live.mcp
          /\ actor[t].runtime = live.runtime
      BY <2>1, <2>8 DEF CaptureMcp, Stages, Inside, Installing, First
    <3>3. Stages'
      BY <2>4, <3>1, <3>2 DEF Stages, Inside, Installing, First
    <3>4. ~ Installed'
      BY <3>1 DEF Installed, Installing, First
    <3> QED BY <3>3, <3>4 DEF PartsAgree
  <2>9. CASE SetExecutor(t)
    <3>1. /\ actor'[t] = [pc |-> "tasks"]
          /\ live' = [live EXCEPT !.factory = Built(actor[t].runtime, actor[t].mcp, live.skills),
                                  !.executor = Built(actor[t].runtime, actor[t].mcp, live.skills)]
      BY <1>1, <2>9 DEF SetExecutor, At, ConfigTypeOK
    <3>2. /\ live.reflection = live.runtime /\ live.service = live.mcp
          /\ actor[t].runtime = live.runtime /\ actor[t].mcp = live.mcp
      BY <2>1, <2>9 DEF SetExecutor, Stages, Inside, Installing, First
    <3>3. /\ live'.reflection = live'.runtime /\ live'.service = live'.mcp
          /\ live'.factory = Ours' /\ live'.executor = Ours'
      BY <1>1, <3>1, <3>2 DEF Live, Ours
    <3>4. Stages'
      BY <2>4, <3>1, <3>3 DEF Stages, Inside, Installing, First
    <3>5. ~ Installed'
      BY <3>1 DEF Installed, Installing, First
    <3> QED BY <3>4, <3>5 DEF PartsAgree
  <2>10. CASE SetTaskService(t)
    <3>1. actor'[t].pc = "coordFactory" /\ live' = [live EXCEPT !.tasks = live.executor]
      BY <1>1, <2>10, Walks DEF SetTaskService, Part
    <3>2. /\ live.reflection = live.runtime /\ live.service = live.mcp
          /\ live.factory = Ours /\ live.executor = Ours
      BY <2>1, <2>10 DEF SetTaskService, Stages, Inside, Installing, First
    <3>3. /\ live'.reflection = live'.runtime /\ live'.service = live'.mcp
          /\ live'.factory = Ours' /\ live'.executor = Ours' /\ live'.tasks = Ours'
      BY <1>1, <3>1, <3>2 DEF Live, Ours
    <3>4. Stages'
      BY <2>4, <3>1, <3>3 DEF Stages, Inside, Installing, First
    <3>5. ~ Installed'
      BY <3>1 DEF Installed, Installing, First
    <3> QED BY <3>4, <3>5 DEF PartsAgree
  <2>11. CASE SetCoordinatorFactory(t)
    <3>1. actor'[t].pc = "coordExecutor" /\ live' = [live EXCEPT !.coordFactory = live.factory]
      BY <1>1, <2>11, Walks DEF SetCoordinatorFactory, Part
    <3>2. /\ live.reflection = live.runtime /\ live.service = live.mcp
          /\ live.factory = Ours /\ live.executor = Ours /\ live.tasks = Ours
      BY <2>1, <2>11 DEF SetCoordinatorFactory, Stages, Inside, Installing, First
    <3>3. /\ live'.reflection = live'.runtime /\ live'.service = live'.mcp
          /\ live'.factory = Ours' /\ live'.executor = Ours' /\ live'.tasks = Ours'
          /\ live'.coordFactory = Ours'
      BY <1>1, <3>1, <3>2 DEF Live, Ours
    <3>4. Stages'
      BY <2>4, <3>1, <3>3 DEF Stages, Inside, Installing, First
    <3>5. ~ Installed'
      BY <3>1 DEF Installed, Installing, First
    <3> QED BY <3>4, <3>5 DEF PartsAgree
  <2>12. CASE SetCoordinatorExecutor(t)
    <3>1. actor'[t].pc = "idle" /\ live' = [live EXCEPT !.coordExecutor = live.executor]
      BY <1>1, <2>12 DEF SetCoordinatorExecutor, At, Idle, ConfigTypeOK
    <3>2. /\ live.reflection = live.runtime /\ live.service = live.mcp
          /\ live.factory = Ours /\ live.executor = Ours /\ live.tasks = Ours
          /\ live.coordFactory = Ours
      BY <2>1, <2>12 DEF SetCoordinatorExecutor, Stages, Inside, Installing, First
    <3>3. /\ live'.reflection = live'.runtime /\ live'.service = live'.mcp
          /\ live'.factory = Ours' /\ live'.executor = Ours' /\ live'.tasks = Ours'
          /\ live'.coordFactory = Ours' /\ live'.coordExecutor = Ours'
      BY <1>1, <3>1, <3>2 DEF Live, Ours
    <3>4. Stages'
      BY <2>4, <3>1 DEF Stages, Inside, Installing, First
    <3> QED BY <3>3, <3>4 DEF PartsAgree, Ours
  <2> QED BY <1>5, <2>5, <2>6, <2>7, <2>8, <2>9, <2>10, <2>11, <2>12
<1> QED BY <1>2, <1>3, <1>4, <1>5 DEF Installs

\* Every step keeps the parts in agreement.
LEMMA PartsStep ==
  ConfigTypeOK /\ Down /\ Stages /\ PartsAgree /\ [ConfigNext]_configVars => Stages' /\ PartsAgree'
<1> SUFFICES ASSUME ConfigTypeOK, Down, Stages, PartsAgree, [ConfigNext]_configVars
             PROVE  Stages' /\ PartsAgree'
  OBVIOUS
<1>1. Threads \subseteq Actors
  BY DEF Actors
<1>2. CASE UNCHANGED configVars
  BY <1>2, PartsStay DEF configVars, history
<1>3. ASSUME NEW a \in Actors, actor[a].pc \notin Inside, actor'[a].pc \notin Inside,
             \A b \in Actors \ {a} : actor'[b] = actor[b], UNCHANGED <<live, mixed>>
      PROVE  Stages' /\ PartsAgree'
  BY <1>1, <1>3, PartsStay
<1>4. ASSUME NEW t \in Threads, Requests(t) PROVE Stages' /\ PartsAgree'
  <2>1. PICK r \in Step : At(t, r) /\ r.pc \in {"truncate", "load", "registry", "clear", "idle"}
    BY <1>4, Asks
  <2>2. actor'[t] = r /\ \A b \in Actors \ {t} : actor'[b] = actor[b]
    BY <1>1, <2>1, Moves
  <2>3. actor[t].pc \notin Inside /\ r.pc \notin Inside
    BY <1>4, <2>1, Asks DEF Inside, Installing, First
  <2> QED BY <1>1, <1>3, <1>4, <2>2, <2>3, Asks
<1>5. ASSUME NEW t \in Threads, Truncate(t) \/ Write(t) \/ Load(t) PROVE Stages' /\ PartsAgree'
  <2>1. /\ actor[t].pc \notin Inside /\ actor'[t].pc \notin Inside
        /\ \A b \in Actors \ {t} : actor'[b] = actor[b]
    BY <1>1, <1>5, Walks DEF Truncate, Write, Load, Refused, At, Idle, ConfigTypeOK, Inside,
       Installing, First
  <2> QED BY <1>1, <1>3, <1>5, <2>1 DEF Truncate, Write, Load, history
<1>6. ASSUME NEW t \in Threads, Installs(t) PROVE Stages' /\ PartsAgree'
  BY <1>6, PartsInstalls
<1>7. ASSUME NEW a \in Actors, Clear(a) \/ Scan(a) \/ Check(a) PROVE Stages' /\ PartsAgree'
  <2>1. /\ actor[a].pc \notin Inside /\ actor'[a].pc \notin Inside
        /\ \A b \in Actors \ {a} : actor'[b] = actor[b]
    BY <1>7, Looks DEF Clear, Scan, Check, Inside, Installing, First
  <2> QED BY <1>3, <1>7, <2>1 DEF Clear, Scan, Check, history
<1>8. ASSUME NEW d \in Dirs, Prompt(d) PROVE Stages' /\ PartsAgree'
  <2>1. \A t \in Threads : actor'[t] = actor[t]
    BY <1>8, ActorsAssumption DEF Prompt, Discover, At, Actors, ConfigTypeOK
  <2> QED BY <1>8, <2>1, PartsStay DEF Prompt, history
<1>9. CASE EditModel \/ EditMcp \/ EditSkills
  BY <1>9, PartsStay DEF EditModel, EditMcp, EditSkills, history
<1>10. CASE ServerCrash
  <2>1. ~ live'.up
    BY <1>10 DEF ServerCrash, ConfigTypeOK, Live
  <2> QED BY <2>1 DEF Stages, PartsAgree
<1>11. CASE Boot
  <2>1. \A t \in Threads : actor'[t].pc = "idle"
    BY <1>1, <1>11 DEF Boot, Down
  <2>2. PartsAgree'
    BY <1>11 DEF Boot, PartsAgree, Fresh, Built
  <2>3. Stages'
    BY <2>1 DEF Stages, Inside, Installing, First
  <2> QED BY <2>2, <2>3
<1> QED BY <1>2, <1>4, <1>5, <1>6, <1>7, <1>8, <1>9, <1>10, <1>11 DEF ConfigNext

(***************************************************************************)
(* model.json.                                                             *)
(***************************************************************************)
\* A step that neither takes up nor ends a change of the model configuration.
LEMMA FileStays ==
  ASSUME FileKept, trouble => trouble', file' = file,
         live'.up = live.up, live'.runtime = live.runtime,
         \A u \in Threads : actor[u].pc \in FileUse \/ actor'[u].pc \in FileUse =>
                              actor'[u] = actor[u]
  PROVE  FileKept'
<1>1. \A u \in Threads : actor'[u].pc \in FileUse <=> actor[u].pc \in FileUse
  OBVIOUS
<1> QED BY <1>1 DEF FileKept, FileUse, Loads

\* A request for the model configuration finds all other threads idle, or is trouble.
LEMMA FileRequests ==
  ASSUME ConfigTypeOK, FileKept, NEW t \in Threads, Requests(t) PROVE FileKept'
<1>1. /\ file' = file /\ live' = live /\ actor[t].pc = "idle"
      /\ \A u \in Threads \ {t} : actor'[u] = actor[u]
  BY Asks, Moves DEF Actors
<1>2. ASSUME actor'[t].pc \in Saving, trouble' = (trouble \/ ~ Alone(t)) PROVE FileKept'
  <2>1. ~ trouble' => \A u \in Threads \ {t} : actor'[u].pc = "idle"
    BY <1>1, <1>2 DEF Alone, Busy
  <2> QED BY <1>2, <2>1 DEF FileKept, FileUse, Saving
<1>3. ASSUME actor'[t].pc \notin FileUse, trouble => trouble' PROVE FileKept'
  BY <1>1, <1>3, FileStays DEF FileUse, Saving
<1>4. t \in Actors /\ actor \in [Actors -> Step]
  BY DEF Actors, ConfigTypeOK
<1>5. ASSUME NEW n \in Profiles, NEW k \in Keys \cup {Nothing}, NEW s \in Profiles \cup {Nothing},
             SaveProfile(t, n, k, s)
      PROVE  FileKept'
  BY <1>2, <1>4, <1>5 DEF SaveProfile, Writes, At, Saving
<1>6. ASSUME NEW n \in Profiles, DeleteProfile(t, n) PROVE FileKept'
  BY <1>2, <1>4, <1>6 DEF DeleteProfile, Writes, At, Saving
<1>7. ASSUME NEW c \in Contents, ReplaceConfig(t, c) PROVE FileKept'
  BY <1>2, <1>4, <1>7 DEF ReplaceConfig, Writes, At, Saving
<1>8. CASE ReloadModel(t)
  BY <1>2, <1>4, <1>8 DEF ReloadModel, At, Saving
<1>9. CASE ReloadMcp(t)
  BY <1>3, <1>4, <1>9 DEF ReloadMcp, Refused, Idle, At, Saving, FileUse
<1>10. CASE ReloadSkills(t)
  BY <1>3, <1>4, <1>10 DEF ReloadSkills, Discover, At, Saving, FileUse, history
<1>11. CASE LookUp(t)
  BY <1>3, <1>4, <1>11 DEF LookUp, Discover, At, Saving, FileUse, history
<1> QED BY <1>5, <1>6, <1>7, <1>8, <1>9, <1>10, <1>11 DEF Requests

\* The thread that changes the file is alone with it until it has loaded what it wrote.
LEMMA FileSaving ==
  ASSUME ConfigTypeOK, FileKept, NEW t \in Threads, Truncate(t) \/ Write(t) \/ Load(t)
  PROVE  FileKept'
<1>1. t \in Actors /\ Threads \subseteq Actors /\ actor \in [Actors -> Step]
  BY DEF Actors, ConfigTypeOK
<1>2. /\ trouble => trouble'
      /\ \A u \in Threads \ {t} : actor'[u] = actor[u]
  BY <1>1, Walks DEF Truncate, Write, Load, Refused, At, history
<1>3. ~ trouble => \A u \in Threads \ {t} : actor'[u].pc \notin FileUse
  BY <1>2 DEF FileKept, FileUse, Saving, Truncate, Write, Load
<1>4. CASE Truncate(t)
  <2>1. actor'[t].pc = "write"
    BY <1>1, <1>4, Walks DEF Truncate
  <2> QED BY <1>2, <1>3, <2>1 DEF FileKept, FileUse, Saving
<1>5. CASE Write(t)
  <2>1. actor'[t].pc = "load"
    BY <1>1, <1>5 DEF Write, At
  <2> QED BY <1>2, <1>3, <2>1 DEF FileKept, FileUse, Saving
<1>6. CASE Load(t)
  <2>1. CASE Loads(file)
    <3>1. actor'[t] = [pc |-> "runtime", content |-> file] /\ file' = file
      BY <1>1, <1>6, <2>1 DEF Load, At, files
    <3> QED BY <1>2, <1>3, <2>1, <3>1 DEF FileKept, FileUse, Saving, Loads
  <2>2. CASE ~ Loads(file)
    BY <1>6, <2>2 DEF Load, Refused, FileKept
  <2> QED BY <2>1, <2>2
<1> QED BY <1>4, <1>5, <1>6

\* Installing the runtime puts what was loaded in use.
LEMMA FileInstalls ==
  ASSUME ConfigTypeOK, FileKept, NEW t \in Threads, Installs(t) PROVE FileKept'
<1>1. t \in Actors /\ live \in Live
  BY DEF Actors, ConfigTypeOK
<1>2. /\ file' = file /\ trouble' = trouble
      /\ \A u \in Threads \ {t} : actor'[u] = actor[u]
  BY <1>1, InstallsMove, Moves DEF Actors, files
<1>3. CASE SetRuntime(t)
  <2>1. actor'[t].pc = "profiles" /\ live'.runtime = actor[t].content /\ live'.up = live.up
    BY <1>1, <1>3, Walks DEF SetRuntime, Part, Live
  <2>2. ~ trouble => /\ actor[t].content = file /\ Loads(file)
                     /\ \A u \in Threads \ {t} : actor'[u].pc \notin FileUse
    BY <1>2, <1>3 DEF SetRuntime, FileKept, FileUse
  <2> QED BY <1>2, <2>1, <2>2 DEF FileKept, FileUse, Saving, Loads
<1>4. CASE ~ SetRuntime(t)
  <2>1. live'.runtime = live.runtime /\ live'.up = live.up
    BY <1>1, <1>4 DEF Installs, SetProfiles, SetMcp, SetMcpService, SetSkills, Capture,
       CaptureMcp, SetExecutor, SetTaskService, SetCoordinatorFactory,
       SetCoordinatorExecutor, Part, Live
  <2>2. actor[t].pc \notin FileUse
    BY <1>4 DEF Installs, SetProfiles, SetMcp, SetMcpService, SetSkills, Capture,
       CaptureMcp, SetExecutor, SetTaskService, SetCoordinatorFactory,
       SetCoordinatorExecutor, FileUse, Saving
  <2>3. actor'[t].pc \notin FileUse
    <3>1. CASE SetProfiles(t) \/ SetMcp(t) \/ SetMcpService(t) \/ SetSkills(t)
               \/ SetTaskService(t) \/ SetCoordinatorFactory(t)
      BY <1>1, <3>1, Walks DEF SetProfiles, SetMcp, SetMcpService, SetSkills,
         SetTaskService, SetCoordinatorFactory, Part, FileUse, Saving
    <3>2. CASE Capture(t) \/ CaptureMcp(t) \/ SetExecutor(t) \/ SetCoordinatorExecutor(t)
      BY <1>1, <3>2 DEF Capture, CaptureMcp, SetExecutor, SetCoordinatorExecutor, At, Idle,
         FileUse, Saving, ConfigTypeOK
    <3> QED BY <1>4, <3>1, <3>2 DEF Installs
  <2> QED BY <1>2, <2>1, <2>2, <2>3, FileStays
<1> QED BY <1>3, <1>4

\* Every step keeps the file and what is in use of it together.
LEMMA FileStep ==
  ConfigTypeOK /\ Down /\ FileKept /\ [ConfigNext]_configVars => FileKept'
<1> SUFFICES ASSUME ConfigTypeOK, Down, FileKept, [ConfigNext]_configVars PROVE FileKept'
  OBVIOUS
<1>1. Threads \subseteq Actors
  BY DEF Actors
<1>2. CASE UNCHANGED configVars
  BY <1>2, FileStays DEF configVars, files, history
<1>3. ASSUME NEW t \in Threads, Requests(t) PROVE FileKept'
  BY <1>3, FileRequests
<1>4. ASSUME NEW t \in Threads, Truncate(t) \/ Write(t) \/ Load(t) PROVE FileKept'
  BY <1>4, FileSaving
<1>5. ASSUME NEW t \in Threads, Installs(t) PROVE FileKept'
  BY <1>5, FileInstalls
<1>6. ASSUME NEW a \in Actors, Clear(a) \/ Scan(a) \/ Check(a) PROVE FileKept'
  <2>1. /\ actor[a].pc \notin FileUse /\ actor'[a].pc \notin FileUse
        /\ \A b \in Actors \ {a} : actor'[b] = actor[b]
    BY <1>6, Looks DEF Clear, Scan, Check, FileUse, Saving
  <2> QED BY <1>1, <1>6, <2>1, FileStays DEF Clear, Scan, Check, files, history
<1>7. ASSUME NEW d \in Dirs, Prompt(d) PROVE FileKept'
  <2>1. \A t \in Threads : actor'[t] = actor[t]
    BY <1>7, ActorsAssumption DEF Prompt, Discover, At, Actors, ConfigTypeOK
  <2> QED BY <1>7, <2>1, FileStays DEF Prompt, files, history
<1>8. CASE EditModel
  BY <1>8 DEF EditModel, FileKept
<1>9. CASE EditMcp \/ EditSkills
  BY <1>9, FileStays DEF EditMcp, EditSkills, history
<1>10. CASE ServerCrash
  <2>1. /\ ~ live'.up /\ file' = file /\ \A t \in Threads : actor'[t].pc = "idle"
        /\ trouble' = (trouble \/ \E t \in Threads : actor[t].pc \in Saving)
    BY <1>1, <1>10 DEF ServerCrash, Idle, files, ConfigTypeOK, Live
  <2>2. ~ trouble' => Loads(file)
    BY <2>1 DEF FileKept, FileUse
  <2> QED BY <2>1, <2>2 DEF FileKept, FileUse, Saving, Loads
<1>11. CASE Boot
  <2>1. \A t \in Threads : actor'[t].pc = "idle"
    BY <1>1, <1>11 DEF Boot, Down
  <2>2. live'.runtime = file /\ file' = file /\ Loads(file)
    BY <1>11 DEF Boot, Fresh, Starts, files
  <2> QED BY <2>1, <2>2 DEF FileKept, FileUse, Saving, Loads
<1> QED BY <1>2, <1>3, <1>4, <1>5, <1>6, <1>7, <1>8, <1>9, <1>10, <1>11 DEF ConfigNext

\* What the invariant says of the file implies what the run checks.
LEMMA FileKeptUse == FileKept => FileInUse
<1> SUFFICES ASSUME FileKept, ~ trouble, \A t \in Threads : ~ Busy(t)
             PROVE  /\ live.up => live.runtime = file
                    /\ file # Torn /\ KeyIn(file, "default") # Nothing
                    /\ Nothing \notin {file[n] : n \in DOMAIN file}
  BY DEF FileInUse
<1>1. \A t \in Threads : actor[t].pc \notin FileUse
  BY DEF Busy, FileUse, Saving
<1> QED BY <1>1 DEF FileKept, Loads, KeyIn

(***************************************************************************)
(* The skills directories.                                                 *)
(***************************************************************************)
\* Directories in use are directories.
LEMMA UseType == ConfigTypeOK => InUse \subseteq Dirs
<1> SUFFICES ASSUME ConfigTypeOK PROVE InUse \subseteq Dirs
  OBVIOUS
<1>1. {live.skills, live.factory.skills, live.executor.skills, live.coordFactory.skills}
        \subseteq Dirs
  BY DEF ConfigTypeOK, Live, Factory
<1>2. \A a \in Actors : actor[a].pc \in {"scan", "check", "swap"} => actor[a].dir \in Dirs
  BY Fields
<1> QED BY <1>1, <1>2 DEF InUse

\* A step that neither reads a directory nor changes one.
LEMMA DirsStay ==
  ASSUME ConfigTypeOK, DirsFilled, UNCHANGED <<disk, known, behind>>, live'.up => live.up,
         InUse' \subseteq InUse,
         \A a \in Actors : actor[a].pc = "scan" => actor'[a] = actor[a]
  PROVE  DirsFilled'
<1>1. \A d \in Dirs : Whole[d] => Whole'[d]
  BY DEF Whole
<1> QED BY <1>1, UseType DEF DirsFilled

\* What is in use after a step of one actor.
LEMMA UseMoves ==
  ASSUME NEW a \in Actors, \A b \in Actors \ {a} : actor'[b] = actor[b],
         {live'.skills, live'.factory.skills, live'.executor.skills, live'.coordFactory.skills}
           \subseteq InUse,
         actor'[a].pc \in {"scan", "check", "swap"} =>
           actor[a].pc \in {"scan", "check", "swap"} /\ actor'[a].dir = actor[a].dir
  PROVE  InUse' \subseteq InUse
BY DEF InUse

\* Those of the container are in use.
LEMMA UseLive ==
  {live.skills, live.factory.skills, live.executor.skills, live.coordFactory.skills}
    \subseteq InUse
BY DEF InUse

\* An installation puts no directory in use that was not.
LEMMA DirsInstalls ==
  ASSUME ConfigTypeOK, DirsFilled, NEW t \in Threads, Installs(t) PROVE DirsFilled'
<1>1. t \in Actors /\ live \in Live
  BY DEF Actors, ConfigTypeOK
<1>2. /\ UNCHANGED <<disk, known, behind>>
      /\ \A b \in Actors \ {t} : actor'[b] = actor[b]
  BY <1>1, InstallsMove, Moves DEF files
<1>3. actor[t].pc # "scan" /\ live'.up = live.up
  BY <1>1 DEF Installs, SetRuntime, SetProfiles, SetMcp, SetMcpService, SetSkills, Capture,
     CaptureMcp, SetExecutor, SetTaskService, SetCoordinatorFactory, SetCoordinatorExecutor,
     Part, Live
<1>4. actor'[t].pc \notin {"scan", "check", "swap"}
  <2>1. CASE SetRuntime(t) \/ SetProfiles(t) \/ SetMcp(t) \/ SetMcpService(t) \/ SetSkills(t)
             \/ SetTaskService(t) \/ SetCoordinatorFactory(t)
    BY <1>1, <2>1, Walks DEF SetRuntime, SetProfiles, SetMcp, SetMcpService, SetSkills,
       SetTaskService, SetCoordinatorFactory, Part
  <2>2. CASE Capture(t) \/ CaptureMcp(t) \/ SetExecutor(t) \/ SetCoordinatorExecutor(t)
    BY <1>1, <2>2 DEF Capture, CaptureMcp, SetExecutor, SetCoordinatorExecutor, At, Idle,
       ConfigTypeOK
  <2> QED BY <2>1, <2>2 DEF Installs
<1>5. {live'.skills, live'.factory.skills, live'.executor.skills, live'.coordFactory.skills}
        \subseteq InUse
  <2>1. CASE SetSkills(t)
    <3>1. actor[t].dir \in InUse
      BY <1>1, <2>1 DEF SetSkills, InUse
    <3> QED BY <1>1, <2>1, <3>1, UseLive DEF SetSkills, Part, Live
  <2>2. CASE SetExecutor(t)
    BY <1>1, <2>2, UseLive DEF SetExecutor, Built, Live
  <2>3. CASE SetCoordinatorFactory(t)
    BY <1>1, <2>3, UseLive DEF SetCoordinatorFactory, Part, Live
  <2>4. CASE ~ (SetSkills(t) \/ SetExecutor(t) \/ SetCoordinatorFactory(t))
    BY <1>1, <2>4, UseLive DEF Installs, SetRuntime, SetProfiles, SetMcp, SetMcpService,
       Capture, CaptureMcp, SetTaskService, SetCoordinatorExecutor, Part, Live
  <2> QED BY <2>1, <2>2, <2>3, <2>4
<1>6. InUse' \subseteq InUse
  BY <1>1, <1>2, <1>4, <1>5, UseMoves
<1> QED BY <1>2, <1>3, <1>6, DirsStay

\* Whoever clears a directory has all that is on the disk before it.
LEMMA DirsClear ==
  ASSUME ConfigTypeOK, Down, DirsFilled, NEW a \in Actors, Clear(a) PROVE DirsFilled'
<1> DEFINE d == actor[a].dir
<1>1. /\ d \in Dirs /\ disk' = disk /\ live' = live /\ behind' = behind \ {d}
      /\ known' = [known EXCEPT ![d] = {}] /\ actor[a].pc = "clear"
  BY Fields DEF Clear, files
<1>2. /\ actor'[a].pc = "scan" /\ actor'[a].dir = d /\ actor'[a].todo = disk
      /\ \A b \in Actors \ {a} : actor'[b] = actor[b]
  BY Looks
<1>3. Whole'[d]
  BY <1>1, <1>2 DEF Whole
<1>4. \A e \in Dirs \ {d} : Whole[e] => Whole'[e]
  <2>1. \A e \in Dirs \ {d} : known'[e] = known[e]
    BY <1>1 DEF ConfigTypeOK
  <2> QED BY <1>1, <1>2, <2>1 DEF Whole
<1>5. InUse' \subseteq InUse \cup {d}
  BY <1>1, <1>2 DEF InUse
<1>6. InUse' \subseteq Dirs
  BY <1>1, <1>5, UseType
<1> QED BY <1>1, <1>3, <1>4, <1>5, <1>6 DEF DirsFilled

\* What leaves the list of a reader is in the directory, or no longer on the disk.
LEMMA DirsScan ==
  ASSUME ConfigTypeOK, DirsFilled, NEW a \in Actors, Scan(a) PROVE DirsFilled'
<1> DEFINE d == actor[a].dir
<1>1. /\ d \in Dirs /\ disk' = disk /\ live' = live /\ behind' = behind /\ actor[a].pc = "scan"
  BY Fields DEF Scan, files, history
<1>2. /\ actor'[a].pc \in {"scan", "check"} /\ actor'[a].dir = d
      /\ \A b \in Actors \ {a} : actor'[b] = actor[b]
  BY Looks DEF Scan
<1>3. InUse' \subseteq InUse /\ InUse \subseteq Dirs
  BY <1>1, <1>2, UseMoves, UseLive, UseType
<1>4. \A e \in Dirs : Whole[e] => Whole'[e]
  <2>1. CASE actor[a].todo = {}
    <3>1. actor'[a].pc = "check" /\ known' = known
      BY <2>1, Looks
    <3> QED BY <1>1, <1>2, <2>1, <3>1 DEF Whole
  <2>2. CASE actor[a].todo # {}
    <3>1. PICK s \in actor[a].todo :
            /\ actor'[a].pc = "scan" /\ actor'[a].todo = actor[a].todo \ {s}
            /\ known' = [known EXCEPT ![d] = @ \cup Loaded(s)]
      BY <2>2, Looks
    <3>2. \A e \in Dirs : known[e] \subseteq known'[e]
      BY <1>1, <3>1 DEF ConfigTypeOK
    <3>3. disk \subseteq known[d] \cup actor[a].todo => disk \subseteq known'[d] \cup actor'[a].todo
      BY <1>1, <3>1 DEF ConfigTypeOK, Loaded
    <3> SUFFICES ASSUME NEW e \in Dirs, Whole[e] PROVE Whole'[e]
      OBVIOUS
    <3>4. CASE disk \subseteq known[e]
      BY <1>1, <3>2, <3>4 DEF Whole
    <3>5. CASE \E b \in Actors : /\ actor[b].pc = "scan" /\ actor[b].dir = e
                                 /\ disk \subseteq known[e] \cup actor[b].todo
      <4>1. PICK b \in Actors : /\ actor[b].pc = "scan" /\ actor[b].dir = e
                                /\ disk \subseteq known[e] \cup actor[b].todo
        BY <3>5
      <4>2. actor'[b].pc = "scan" /\ actor'[b].dir = e /\ disk' \subseteq known'[e] \cup actor'[b].todo
        BY <1>1, <1>2, <3>1, <3>2, <3>3, <4>1
      <4> QED BY <4>2 DEF Whole
    <3> QED BY <3>4, <3>5 DEF Whole
  <2> QED BY <2>1, <2>2
<1> QED BY <1>1, <1>3, <1>4 DEF DirsFilled

\* After a start the one directory in use is whole.
LEMMA DirsStart ==
  live = Fresh(0) /\ (\A a \in Actors : actor[a].pc = "idle")
    /\ known = [d \in Dirs |-> IF d = 0 THEN disk ELSE {}] => DirsFilled
<1> SUFFICES ASSUME live = Fresh(0), \A a \in Actors : actor[a].pc = "idle",
                    known = [d \in Dirs |-> IF d = 0 THEN disk ELSE {}]
             PROVE  DirsFilled
  OBVIOUS
<1>1. InUse = {0}
  BY DEF InUse, Fresh, Built
<1>2. Whole[0]
  BY ZeroDir DEF Whole
<1> QED BY <1>1, <1>2 DEF DirsFilled

\* Every step keeps the directories in use whole or in the hands of a reader.
LEMMA DirsStep ==
  ConfigTypeOK /\ Down /\ DirsFilled /\ [ConfigNext]_configVars => DirsFilled'
<1> SUFFICES ASSUME ConfigTypeOK, Down, DirsFilled, [ConfigNext]_configVars PROVE DirsFilled'
  OBVIOUS
<1>1. Threads \subseteq Actors
  BY DEF Actors
<1>2. ASSUME NEW a \in Actors, \A b \in Actors \ {a} : actor'[b] = actor[b],
             actor[a].pc # "scan", actor'[a].pc \notin {"scan", "check", "swap"},
             UNCHANGED <<disk, known, behind, live>>
      PROVE  DirsFilled'
  <2>1. InUse' \subseteq InUse
    BY <1>2, UseMoves, UseLive
  <2> QED BY <1>2, <2>1, DirsStay
<1>3. CASE UNCHANGED configVars
  <2>1. InUse' = InUse
    BY <1>3 DEF configVars, InUse
  <2> QED BY <1>3, <2>1, DirsStay DEF configVars, files, history
<1>4. ASSUME NEW t \in Threads, Requests(t) PROVE DirsFilled'
  <2>1. PICK r \in Step : At(t, r) /\ r.pc \in {"truncate", "load", "registry", "clear", "idle"}
    BY <1>4, Asks
  <2>2. actor'[t] = r /\ \A b \in Actors \ {t} : actor'[b] = actor[b]
    BY <1>1, <2>1, Moves
  <2> QED BY <1>1, <1>2, <1>4, <2>1, <2>2, Asks
<1>5. ASSUME NEW t \in Threads, Truncate(t) \/ Write(t) \/ Load(t) PROVE DirsFilled'
  <2>1. /\ actor[t].pc # "scan" /\ actor'[t].pc \notin {"scan", "check", "swap"}
        /\ \A b \in Actors \ {t} : actor'[b] = actor[b]
    BY <1>1, <1>5, Walks DEF Truncate, Write, Load, Refused, At, Idle, ConfigTypeOK
  <2> QED BY <1>1, <1>2, <1>5, <2>1 DEF Truncate, Write, Load, files, history
<1>6. ASSUME NEW t \in Threads, Installs(t) PROVE DirsFilled'
  BY <1>6, DirsInstalls
<1>7. ASSUME NEW a \in Actors, Clear(a) PROVE DirsFilled'
  BY <1>7, DirsClear
<1>8. ASSUME NEW a \in Actors, Scan(a) PROVE DirsFilled'
  BY <1>8, DirsScan
<1>9. ASSUME NEW a \in Actors, Check(a) PROVE DirsFilled'
  <2>1. /\ actor[a].pc = "check" /\ actor'[a].pc \in {"swap", "idle"}
        /\ actor'[a].pc # "idle" => actor'[a].dir = actor[a].dir
        /\ \A b \in Actors \ {a} : actor'[b] = actor[b]
    BY <1>9, Looks DEF Check
  <2>2. UNCHANGED <<disk, known, behind, live>>
    BY <1>9 DEF Check, files, history
  <2>3. InUse' \subseteq InUse
    BY <2>1, <2>2, UseMoves, UseLive
  <2> QED BY <2>1, <2>2, <2>3, DirsStay
<1>10. ASSUME NEW d \in Dirs, Prompt(d) PROVE DirsFilled'
  <2>1. /\ Loop \in Actors /\ actor[Loop].pc = "idle" /\ actor'[Loop].pc = "clear"
        /\ \A b \in Actors \ {Loop} : actor'[b] = actor[b]
    BY <1>10 DEF Prompt, Busy, Discover, At, Actors, ConfigTypeOK
  <2> QED BY <1>2, <1>10, <2>1 DEF Prompt, files, history
<1>11. CASE EditModel \/ EditMcp
  <2>1. InUse' = InUse
    BY <1>11 DEF EditModel, EditMcp, InUse
  <2> QED BY <1>11, <2>1, DirsStay DEF EditModel, EditMcp, history
<1>12. CASE EditSkills
  <2>1. InUse' = InUse
    BY <1>12 DEF EditSkills, InUse
  <2> QED BY <1>12, <2>1, UseType DEF EditSkills, DirsFilled
<1>13. CASE ServerCrash
  BY <1>13 DEF ServerCrash, DirsFilled, ConfigTypeOK, Live
<1>14. CASE Boot
  <2>1. /\ \A a \in Actors : actor'[a].pc = "idle"
        /\ known' = [d \in Dirs |-> IF d = 0 THEN disk' ELSE {}]
    BY <1>14 DEF Boot, Down, files
  <2>2. InUse' = {0}
    BY <1>14, <2>1 DEF Boot, InUse, Fresh, Built
  <2>3. Whole'[0]
    BY <2>1, ZeroDir DEF Whole
  <2> QED BY <2>2, <2>3 DEF DirsFilled
<1> QED BY <1>3, <1>4, <1>5, <1>6, <1>7, <1>8, <1>9, <1>10, <1>11, <1>12, <1>13, <1>14 DEF
   ConfigNext

\* A directory nobody reads is whole.
LEMMA FilledWhole == ConfigTypeOK /\ DirsFilled => DirectoryWhole
<1> SUFFICES ASSUME ConfigTypeOK, DirsFilled, live.up,
                    NEW d \in {live.skills, live.executor.skills, live.coordFactory.skills} \ behind,
                    \A a \in Actors : actor[a].pc = "scan" => actor[a].dir # d
             PROVE  disk \subseteq known[d]
  BY DEF DirectoryWhole
<1>1. d \in InUse /\ d \in Dirs
  BY UseLive, UseType
<1> QED BY <1>1 DEF DirsFilled, Whole

\* The inductive invariant.
ConfigInv == ConfigTypeOK /\ Down /\ Stages /\ PartsAgree /\ FileKept /\ DirsFilled

\* It holds at the start.
LEMMA ConfigInvInit == ConfigInit => ConfigInv
<1> SUFFICES ASSUME ConfigInit PROVE ConfigInv
  OBVIOUS
<1>1. ConfigTypeOK
  BY TypeInit
<1>2. live = Fresh(0) /\ \A a \in Actors : actor[a].pc = "idle"
  BY DEF ConfigInit, Idle
<1>3. Down /\ \A t \in Threads : actor[t].pc = "idle"
  BY <1>2 DEF Down, Actors
<1>4. Stages
  BY <1>3 DEF Stages, Inside, Installing, First
<1>5. PartsAgree
  BY <1>2 DEF PartsAgree, Fresh, Built
<1>6. FileKept
  BY <1>2, <1>3 DEF FileKept, FileUse, Saving, ConfigInit, Starts, Fresh
<1>7. DirsFilled
  BY <1>2, DirsStart DEF ConfigInit
<1> QED BY <1>1, <1>3, <1>4, <1>5, <1>6, <1>7 DEF ConfigInv

\* Every step preserves it.
LEMMA ConfigInvStep == ConfigInv /\ [ConfigNext]_configVars => ConfigInv'
BY TypeStep, DownStep, PartsStep, FileStep, DirsStep DEF ConfigInv

\* The inductive invariant of ConfigReload: what an installation has replaced, who is alone
\* with model.json, and who still fills a skills directory, in every reachable state.
THEOREM ConfigInvariant == ConfigSpec => []ConfigInv
BY ConfigInvInit, ConfigInvStep, PTL DEF ConfigSpec

\* Type correctness of the configuration, with the fields that an actor has at each place.
THEOREM ConfigTyped == ConfigSpec => []ConfigTypeOK
BY ConfigInvariant, PTL DEF ConfigInv

\* Between installations that did not overlap, the server, reflection, delegations and new runs
\* use one configuration, however many threads reload (ServerContainer._on_runtime_reloaded).
THEOREM PartsInAgreement == ConfigSpec => []PartsAgree
BY ConfigInvariant, PTL DEF ConfigInv

\* Calls that were answered with success one after the other leave the configuration in use
\* that is on the disk, and a file that the server can start with (ModelConfigService).
THEOREM FileIsInUse == ConfigSpec => []FileInUse
<1>1. ConfigInv => FileInUse
  BY FileKeptUse DEF ConfigInv
<1> QED BY <1>1, ConfigInvariant, PTL

\* However many threads read the skills at once, the directory they share is whole when they
\* are done (SkillsDirectory.discover).
THEOREM DirectoriesWhole == ConfigSpec => []DirectoryWhole
<1>1. ConfigInv => DirectoryWhole
  BY FilledWhole DEF ConfigInv
<1> QED BY <1>1, ConfigInvariant, PTL
=============================================================================
