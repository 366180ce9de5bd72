------------------------------ MODULE Transcript ------------------------------
(***************************************************************************)
(* What the message table promises of a conversation: it only grows, by    *)
(* whole exchanges, and no reply of the model enters it twice.             *)
(***************************************************************************)
EXTENDS Exchange

VARIABLE log

Init == log = <<>>

Grows == /\ Len(log') > Len(log)
         /\ First(log', Len(log)) = log

Batch == SubSeq(log', Len(log) + 1, Len(log'))

Replies(s) == {s[i].no : i \in {i \in 1..Len(s) : s[i].kind = "reply"}}

Extend == Grows /\ Whole(Batch) /\ Replies(Batch) \cap Replies(log) = {}

Spec == Init /\ [][Extend]_log
=============================================================================
