------------------------------- MODULE Exchange -------------------------------
(***************************************************************************)
(* Messages of a conversation with a model and the safe boundary: the      *)
(* longest beginning of a conversation in which every tool call is         *)
(* answered (MessageRepository, OpenAICompatibleProvider).                 *)
(*                                                                         *)
(* A message is known by its number: a prompt by the client's note it      *)
(* holds, the results of tools by the reply that asked for them.  A model  *)
(* interface takes a conversation only if the results follow their reply.  *)
(***************************************************************************)
EXTENDS Naturals, Sequences

Prompt(n)      == [kind |-> "prompt", no |-> n, asks |-> FALSE]
Reply(n, asks) == [kind |-> "reply", no |-> n, asks |-> asks]
Results(n)     == [kind |-> "results", no |-> n, asks |-> FALSE]

Message == [kind : {"prompt", "reply", "results"}, no : Nat, asks : BOOLEAN]

Asking(m) == m.kind = "reply" /\ m.asks

\* The replies that wait for their results.
Pending(s) ==
  {s[i].no : i \in {i \in 1..Len(s) :
     /\ Asking(s[i])
     /\ \A j \in 1..Len(s) : j > i /\ s[j].kind = "results" => s[j].no # s[i].no}}

First(s, k) == SubSeq(s, 1, k)

IsSafeLength(s, k) == /\ k \in 0..Len(s) /\ Pending(First(s, k)) = {}
                      /\ \A j \in 1..Len(s) : j > k => Pending(First(s, j)) # {}
SafeLength(s) == CHOOSE k \in 0..Len(s) : IsSafeLength(s, k)

SafePart(s) == First(s, SafeLength(s))

\* What a model interface accepts: replies that ask and results come in adjacent pairs.
Whole(s) ==
  /\ \A i \in 1..Len(s) : Asking(s[i]) =>
       /\ i < Len(s)
       /\ s[i + 1].kind = "results" /\ s[i + 1].no = s[i].no
  /\ \A i \in 1..Len(s) : s[i].kind = "results" =>
       /\ i > 1
       /\ Asking(s[i - 1]) /\ s[i - 1].no = s[i].no
=============================================================================
