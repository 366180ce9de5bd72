------------------------ MODULE MessageHistoryProofs ------------------------
(***************************************************************************)
(* Proofs about MessageHistory: the message table implements Transcript,   *)
(* tools run only if their results reach the table, injected notes are     *)
(* shown.  Lemmas on conversations come first, then the inductive          *)
(* invariant Inv and one lemma for each group of actions.                  *)
(***************************************************************************)
EXTENDS MessageHistory, SequenceTheorems, WellFoundedInduction, TLAPS

\* Conversations.
Msgs == Seq(Message)

\* Messages the code builds.
LEMMA Built ==
  ASSUME NEW n \in Nat, NEW a \in BOOLEAN
  PROVE  /\ Prompt(n) \in Message /\ Reply(n, a) \in Message /\ Results(n) \in Message
         /\ ~Asking(Prompt(n)) /\ ~Asking(Results(n)) /\ (Asking(Reply(n, a)) <=> a)
         /\ Prompt(n).kind = "prompt" /\ Reply(n, a).kind = "reply" /\ Results(n).kind = "results"
         /\ Prompt(n).no = n /\ Reply(n, a).no = n /\ Results(n).no = n
  BY DEF Prompt, Reply, Results, Message, Asking

\* What the proofs need of prompts alone.
LEMMA BuiltPrompt ==
  \A n \in Nat : /\ Prompt(n) \in Message /\ ~Asking(Prompt(n))
                 /\ Prompt(n).kind = "prompt" /\ Prompt(n).no = n
  BY DEF Prompt, Message, Asking

\* The two parts of a concatenation.
LEMMA JoinParts ==
  ASSUME NEW a \in Msgs, NEW b \in Msgs
  PROVE  /\ SubSeq(a \o b, 1, Len(a)) = a
         /\ SubSeq(a \o b, Len(a) + 1, Len(a \o b)) = b
<1>1. /\ Len(a) \in Nat /\ Len(b) \in Nat /\ Len(a \o b) = Len(a) + Len(b)
      /\ (a # <<>> => Len(a) > 0) /\ (b # <<>> => Len(b) > 0)
      /\ SubSeq(a, 1, Len(a)) = a /\ SubSeq(b, 1, Len(b)) = b
  BY LenProperties, EmptySeq, ConcatProperties, SubSeqFull DEF Msgs
<1>2. SubSeq(a \o b, 1, Len(a)) = a
  <2>1. CASE a = <<>>
    <3>1. Len(a) = 0
      BY <2>1
    <3>2. SubSeq(a \o b, 1, 0) = <<>>
      BY SubSeqEmpty
    <3> QED BY <2>1, <3>1, <3>2
  <2>2. CASE a # <<>>
    <3>1. 1 \in 1..Len(a) /\ Len(a) \in 1..Len(a)
      BY <1>1, <2>2
    <3> QED BY <1>1, <3>1, SubSeqOfConcat1 DEF Msgs
  <2> QED BY <2>1, <2>2
<1>3. SubSeq(a \o b, Len(a) + 1, Len(a \o b)) = b
  <2>1. CASE b = <<>>
    <3>1. Len(a \o b) < Len(a) + 1 /\ Len(a) + 1 \in Int /\ Len(a \o b) \in Int
      BY <1>1, <2>1
    <3> QED BY <2>1, <3>1, SubSeqEmpty
  <2>2. CASE b # <<>>
    <3> DEFINE m == Len(a) + 1
               n == Len(a) + Len(b)
    <3>1. /\ m \in Len(a) + 1 .. Len(a) + Len(b) /\ n \in Len(a) + 1 .. Len(a) + Len(b)
          /\ m - Len(a) = 1 /\ n - Len(a) = Len(b) /\ n = Len(a \o b)
      BY <1>1, <2>2
    <3> HIDE DEF m, n
    <3>2. SubSeq(a \o b, m, n) = SubSeq(b, m - Len(a), n - Len(a))
      BY <3>1, SubSeqOfConcat2 DEF Msgs
    <3>3. SubSeq(a \o b, m, n) = b
      BY <1>1, <3>1, <3>2
    <3> QED BY <3>1, <3>3 DEF m
  <2> QED BY <2>1, <2>2
<1> QED BY <1>2, <1>3

\* Conversations joined are conversations.
LEMMA Joins ==
  ASSUME NEW a \in Msgs, NEW b \in Msgs
  PROVE  a \o b \in Msgs /\ Len(a \o b) = Len(a) + Len(b)
  BY ConcatProperties DEF Msgs

\* Joining is associative.
LEMMA JoinsThree ==
  ASSUME NEW a \in Msgs, NEW b \in Msgs, NEW c \in Msgs
  PROVE  (a \o b) \o c = a \o (b \o c)
  BY ConcatAssociative DEF Msgs

\* The same for all of them.
LEMMA JoinsAll == \A a, b, c \in Msgs : (a \o b) \o c = a \o (b \o c)
  BY JoinsThree

\* Two messages, one after the other.
LEMMA JoinsOnes ==
  ASSUME NEW a \in Message, NEW b \in Message
  PROVE  <<a>> \o <<b>> = <<a, b>>
<1>1. /\ <<a>> \in Msgs /\ <<b>> \in Msgs /\ <<a, b>> \in Msgs
      /\ Len(<<a>>) = 1 /\ Len(<<b>>) = 1 /\ Len(<<a, b>>) = 2
      /\ <<a>>[1] = a /\ <<b>>[1] = b /\ <<a, b>>[1] = a /\ <<a, b>>[2] = b
  BY DEF Msgs
<1> DEFINE s == <<a>> \o <<b>>
<1>2. s \in Msgs /\ Len(s) = 1 + 1 /\ s[1] = a /\ s[2] = b
  BY <1>1, ConcatProperties DEF Msgs
<1> HIDE DEF s
<1>3. \A i \in 1..Len(s) : i = 1 \/ i = 2
  BY <1>2
<1>4. s = <<a, b>>
  BY <1>1, <1>2, <1>3, SeqEqual DEF Msgs
<1> QED BY <1>4 DEF s

\* Whole conversations follow one another.
LEMMA WholeJoin ==
  ASSUME NEW a \in Msgs, NEW b \in Msgs, Whole(a), Whole(b)
  PROVE  Whole(a \o b)
<1> DEFINE s == a \o b
<1>1. /\ s \in Msgs /\ Len(s) = Len(a) + Len(b) /\ Len(a) \in Nat /\ Len(b) \in Nat
      /\ \A i \in 1..Len(a) : s[i] = a[i]
      /\ \A i \in 1..Len(b) : s[i + Len(a)] = b[i]
  BY ConcatProperties, LenProperties DEF Msgs
<1>2. ASSUME NEW i \in 1..Len(s), Asking(s[i])
      PROVE  i < Len(s) /\ s[i + 1].kind = "results" /\ s[i + 1].no = s[i].no
  <2>1. CASE i <= Len(a)
    <3>1. i < Len(a) /\ a[i + 1].kind = "results" /\ a[i + 1].no = a[i].no
      BY <1>1, <1>2, <2>1 DEF Whole
    <3> QED BY <1>1, <2>1, <3>1
  <2>2. CASE i > Len(a)
    <3> DEFINE j == i - Len(a)
    <3>1. j \in 1..Len(b) /\ s[i] = b[j]
      BY <1>1, <2>2
    <3>2. j < Len(b) /\ b[j + 1].kind = "results" /\ b[j + 1].no = b[j].no
      BY <1>2, <3>1 DEF Whole
    <3>3. j + 1 \in 1..Len(b) /\ j + 1 + Len(a) = i + 1
      BY <1>1, <3>1, <3>2
    <3> QED BY <1>1, <3>1, <3>2, <3>3
  <2> QED BY <1>1, <2>1, <2>2
<1>3. ASSUME NEW i \in 1..Len(s), s[i].kind = "results"
      PROVE  i > 1 /\ Asking(s[i - 1]) /\ s[i - 1].no = s[i].no
  <2>1. CASE i <= Len(a)
    <3>1. i > 1 /\ Asking(a[i - 1]) /\ a[i - 1].no = a[i].no
      BY <1>1, <1>3, <2>1 DEF Whole
    <3> QED BY <1>1, <2>1, <3>1
  <2>2. CASE i > Len(a)
    <3> DEFINE j == i - Len(a)
    <3>1. j \in 1..Len(b) /\ s[i] = b[j]
      BY <1>1, <2>2
    <3>2. j > 1 /\ Asking(b[j - 1]) /\ b[j - 1].no = b[j].no
      BY <1>3, <3>1 DEF Whole
    <3>3. j - 1 \in 1..Len(b) /\ j - 1 + Len(a) = i - 1
      BY <1>1, <3>1, <3>2
    <3> QED BY <1>1, <3>1, <3>2, <3>3
  <2> QED BY <1>1, <2>1, <2>2
<1> HIDE DEF s
<1>4. Whole(s)
  BY <1>2, <1>3 DEF Whole
<1> QED BY <1>4 DEF s

\* A conversation without calls and results is whole; so is a call with its results.
LEMMA WholePlain ==
  ASSUME NEW s \in Msgs, \A i \in 1..Len(s) : ~Asking(s[i]) /\ s[i].kind # "results"
  PROVE  Whole(s)
  BY DEF Whole

\* A reply that asks, followed by its results, is whole.
LEMMA WholePair ==
  ASSUME NEW r \in Message, Asking(r)
  PROVE  Whole(<<r, Results(r.no)>>)
<1>1. r.no \in Nat /\ r.kind = "reply"
  BY DEF Message, Asking
<1> DEFINE s == <<r, Results(r.no)>>
<1>2. Len(s) = 2 /\ s[1] = r /\ s[2] = Results(r.no)
  OBVIOUS
<1>3. ~Asking(Results(r.no)) /\ Results(r.no).kind = "results" /\ Results(r.no).no = r.no
  BY <1>1 DEF Results, Asking
<1> HIDE DEF s
<1>4. \A i \in 1..Len(s) : i = 1 \/ i = 2
  BY <1>2
<1>5. Whole(s)
  BY <1>1, <1>2, <1>3, <1>4 DEF Whole
<1> QED BY <1>5 DEF s

\* The safe boundary of a whole conversation is its end.
LEMMA WholeSafe ==
  ASSUME NEW s \in Msgs, Whole(s)
  PROVE  SafePart(s) = s
<1>1. Len(s) \in Nat /\ First(s, Len(s)) = s
  BY SubSeqFull, LenProperties DEF Msgs, First
<1>2. Pending(s) = {}
  BY <1>1 DEF Whole, Pending, Asking
<1>3. IsSafeLength(s, Len(s))
  BY <1>1, <1>2 DEF IsSafeLength
<1>4. \A k \in 0..Len(s) : IsSafeLength(s, k) => k = Len(s)
  <2> SUFFICES ASSUME NEW k \in 0..Len(s), IsSafeLength(s, k), k < Len(s) PROVE FALSE
    BY <1>1
  <2>1. Len(s) \in 1..Len(s)
    BY <1>1
  <2>2. Pending(First(s, Len(s))) # {}
    BY <1>1, <2>1 DEF IsSafeLength
  <2> QED BY <1>1, <1>2, <2>2
<1>5. SafeLength(s) = Len(s)
  BY <1>1, <1>3, <1>4 DEF SafeLength
<1> QED BY <1>1, <1>5 DEF SafePart

\* A call without results stays behind the safe boundary.
LEMMA TailSafe ==
  ASSUME NEW w \in Msgs, NEW r \in Message, Whole(w), Asking(r)
  PROVE  SafePart(w \o <<r>>) = w
<1> DEFINE s == w \o <<r>>
<1>1. /\ s \in Msgs /\ Len(w) \in Nat /\ Len(s) = Len(w) + 1 /\ s[Len(s)] = r
      /\ \A i \in 1..Len(w) : s[i] = w[i]
  <2>1. <<r>> \in Msgs /\ Len(<<r>>) = 1 /\ <<r>>[1] = r
    BY DEF Msgs
  <2>2. Len(w) \in Nat
    BY LenProperties DEF Msgs
  <2> QED BY <2>1, <2>2, ConcatProperties DEF Msgs
<1>2. First(s, Len(w)) = w
  <2>1. <<r>> \in Msgs
    BY DEF Msgs
  <2> QED BY <2>1, JoinParts DEF First
<1>3. First(s, Len(s)) = s
  BY <1>1, SubSeqFull DEF Msgs, First
<1> HIDE DEF s
<1>4. Pending(w) = {}
  BY <1>1 DEF Whole, Pending, Asking
<1>5. Pending(s) # {}
  <2>1. Len(s) \in 1..Len(s) /\ Asking(s[Len(s)])
    BY <1>1
  <2>2. \A j \in 1..Len(s) : ~(j > Len(s))
    BY <1>1
  <2>3. s[Len(s)].no \in Pending(s)
    BY <2>1, <2>2 DEF Pending
  <2> QED BY <2>3
<1>6. IsSafeLength(s, Len(w))
  <2>1. \A j \in 1..Len(s) : j > Len(w) => j = Len(s)
    BY <1>1
  <2>2. Len(w) \in 0..Len(s)
    BY <1>1
  <2>3. \A j \in 1..Len(s) : j > Len(w) => Pending(First(s, j)) # {}
    BY <2>1, <1>3, <1>5
  <2> QED BY <1>2, <1>4, <2>2, <2>3 DEF IsSafeLength
<1>7. \A k \in 0..Len(s) : IsSafeLength(s, k) => k = Len(w)
  <2> SUFFICES ASSUME NEW k \in 0..Len(s), IsSafeLength(s, k) PROVE k = Len(w)
    OBVIOUS
  <2>1. CASE k = Len(s)
    BY <1>3, <1>5, <2>1 DEF IsSafeLength
  <2>2. CASE k < Len(w)
    <3>1. Len(w) \in 1..Len(s) /\ Len(w) > k
      BY <1>1, <2>2
    <3>2. Pending(First(s, Len(w))) # {}
      BY <3>1 DEF IsSafeLength
    <3> QED BY <1>2, <1>4, <3>2
  <2> QED BY <1>1, <2>1, <2>2
<1>8. Len(w) \in 0..Len(s)
  BY <1>1
<1>9. SafeLength(s) = Len(w)
  BY <1>6, <1>7, <1>8 DEF SafeLength
<1> QED BY <1>2, <1>9 DEF SafePart, s

\* The replies in a conversation.
RepliesOf(s) == {s[i].no : i \in {i \in 1..Len(s) : s[i].kind = "reply"}}

\* A joined conversation has the replies of its parts.
LEMMA RepliesJoin ==
  ASSUME NEW a \in Msgs, NEW b \in Msgs
  PROVE  RepliesOf(a \o b) = RepliesOf(a) \cup RepliesOf(b)
<1> DEFINE s == a \o b
<1>1. /\ s \in Msgs /\ Len(s) = Len(a) + Len(b) /\ Len(a) \in Nat /\ Len(b) \in Nat
      /\ \A i \in 1..Len(a) : s[i] = a[i]
      /\ \A i \in 1..Len(b) : s[i + Len(a)] = b[i]
  BY ConcatProperties, LenProperties DEF Msgs
<1> HIDE DEF s
<1>2. ASSUME NEW n \in RepliesOf(s) PROVE n \in RepliesOf(a) \cup RepliesOf(b)
  <2>1. PICK i \in 1..Len(s) : s[i].kind = "reply" /\ n = s[i].no
    BY DEF RepliesOf
  <2>2. CASE i <= Len(a)
    BY <1>1, <2>1, <2>2 DEF RepliesOf
  <2>3. CASE i > Len(a)
    <3>1. i - Len(a) \in 1..Len(b) /\ s[i] = b[i - Len(a)]
      BY <1>1, <2>3
    <3> QED BY <2>1, <3>1 DEF RepliesOf
  <2> QED BY <1>1, <2>2, <2>3
<1>3. ASSUME NEW n \in RepliesOf(a) PROVE n \in RepliesOf(s)
  <2>1. PICK i \in 1..Len(a) : a[i].kind = "reply" /\ n = a[i].no
    BY DEF RepliesOf
  <2>2. i \in 1..Len(s) /\ s[i] = a[i]
    BY <1>1
  <2> QED BY <2>1, <2>2 DEF RepliesOf
<1>4. ASSUME NEW n \in RepliesOf(b) PROVE n \in RepliesOf(s)
  <2>1. PICK i \in 1..Len(b) : b[i].kind = "reply" /\ n = b[i].no
    BY DEF RepliesOf
  <2>2. i + Len(a) \in 1..Len(s) /\ s[i + Len(a)] = b[i]
    BY <1>1
  <2> QED BY <2>1, <2>2 DEF RepliesOf
<1> QED BY <1>2, <1>3, <1>4 DEF s

\* The replies in one message and in none.
LEMMA RepliesOne ==
  ASSUME NEW m \in Message
  PROVE  /\ <<m>> \in Msgs /\ Len(<<m>>) = 1 /\ <<m>>[1] = m
         /\ RepliesOf(<<m>>) = (IF m.kind = "reply" THEN {m.no} ELSE {})
         /\ RepliesOf(<<>>) = {} /\ <<>> \in Msgs
  BY DEF RepliesOf, Msgs

\* A conversation of prompts and results has no replies.
LEMMA RepliesPlain ==
  ASSUME NEW s \in Msgs, \A i \in 1..Len(s) : s[i].kind # "reply"
  PROVE  RepliesOf(s) = {}
  BY DEF RepliesOf

\* A whole batch of new replies is what the abstract specification adds.
LEMMA Extends ==
  ASSUME rows \in Msgs, NEW b \in Msgs, rows' = rows \o b, Whole(b),
         RepliesOf(b) \cap RepliesOf(rows) = {}
  PROVE  [T!Extend]_rows
<1>1. CASE b = <<>>
  BY <1>1, ConcatEmptySeq DEF Msgs
<1>2. CASE b # <<>>
  <2>1. /\ rows' \in Msgs /\ Len(rows') = Len(rows) + Len(b)
        /\ Len(b) \in Nat /\ Len(b) > 0 /\ Len(rows) \in Nat
        /\ \A i \in 1..Len(rows) : rows'[i] = rows[i]
        /\ \A i \in 1..Len(b) : rows'[i + Len(rows)] = b[i]
    BY <1>2, ConcatProperties, LenProperties, EmptySeq DEF Msgs
  <2>2. SubSeq(rows', 1, Len(rows)) = rows
    BY JoinParts
  <2>3. SubSeq(rows', Len(rows) + 1, Len(rows')) = b
    BY JoinParts
  <2>4. T!Grows
    BY <2>1, <2>2 DEF T!Grows, T!First
  <2>5. T!Batch = b
    BY <2>3 DEF T!Batch
  <2>6. T!Whole(b)
    BY DEF T!Whole, Whole, T!Asking, Asking
  <2>7. T!Replies(b) \cap T!Replies(rows) = {}
    BY DEF T!Replies, RepliesOf
  <2> QED BY <2>4, <2>5, <2>6, <2>7 DEF T!Extend
<1> QED BY <1>1, <1>2

\* A message is somewhere in a conversation.
Holds(s, m) == \E i \in 1..Len(s) : s[i] = m

\* A joined conversation holds what its parts hold.
LEMMA HoldsJoin ==
  ASSUME NEW a \in Msgs, NEW b \in Msgs, NEW m
  PROVE  Holds(a \o b, m) <=> Holds(a, m) \/ Holds(b, m)
<1> DEFINE s == a \o b
<1>1. /\ s \in Msgs /\ Len(s) = Len(a) + Len(b) /\ Len(a) \in Nat /\ Len(b) \in Nat
      /\ \A i \in 1..Len(a) : s[i] = a[i]
      /\ \A i \in 1..Len(b) : s[i + Len(a)] = b[i]
  BY ConcatProperties, LenProperties DEF Msgs
<1> HIDE DEF s
<1>2. ASSUME Holds(s, m) PROVE Holds(a, m) \/ Holds(b, m)
  <2>1. PICK i \in 1..Len(s) : s[i] = m
    BY <1>2 DEF Holds
  <2>2. CASE i <= Len(a)
    BY <1>1, <2>1, <2>2 DEF Holds
  <2>3. CASE i > Len(a)
    <3>1. i - Len(a) \in 1..Len(b) /\ s[i] = b[i - Len(a)]
      BY <1>1, <2>3
    <3> QED BY <2>1, <3>1 DEF Holds
  <2> QED BY <1>1, <2>2, <2>3
<1>3. ASSUME Holds(a, m) PROVE Holds(s, m)
  <2>1. PICK i \in 1..Len(a) : a[i] = m
    BY <1>3 DEF Holds
  <2>2. i \in 1..Len(s) /\ s[i] = a[i]
    BY <1>1
  <2> QED BY <2>1, <2>2 DEF Holds
<1>4. ASSUME Holds(b, m) PROVE Holds(s, m)
  <2>1. PICK i \in 1..Len(b) : b[i] = m
    BY <1>4 DEF Holds
  <2>2. i + Len(a) \in 1..Len(s) /\ s[i + Len(a)] = b[i]
    BY <1>1
  <2> QED BY <2>1, <2>2 DEF Holds
<1> QED BY <1>2, <1>3, <1>4 DEF s

\* A prompt that a conversation holds is one of PromptsOf.
LEMMA HoldsPrompt ==
  ASSUME NEW s \in Msgs, NEW n \in Nat, Holds(s, Prompt(n))
  PROVE  n \in PromptsOf(s)
<1>1. PICK i \in 1..Len(s) : s[i] = Prompt(n)
  BY DEF Holds
<1>2. s[i].kind = "prompt" /\ s[i].no = n
  BY <1>1, BuiltPrompt
<1> QED BY <1>2 DEF PromptsOf

\* The last message of a joined conversation.
LEMMA LastJoin ==
  ASSUME NEW a \in Msgs, NEW b \in Msgs, b # <<>>
  PROVE  a \o b # <<>> /\ LastOf(a \o b) = LastOf(b) /\ LastOf(b) \in Message
<1>1. Len(b) \in Nat /\ Len(b) > 0 /\ Len(a) \in Nat
  BY LenProperties, EmptySeq DEF Msgs
<1>2. Len(a \o b) = Len(a) + Len(b) /\ (a \o b)[Len(a) + Len(b)] = b[Len(a) + Len(b) - Len(a)]
  BY <1>1, ConcatProperties DEF Msgs
<1>3. Len(a) + Len(b) - Len(a) = Len(b) /\ Len(b) \in 1..Len(b) /\ Len(a) + Len(b) > 0
  BY <1>1
<1>4. a \o b # <<>>
  BY <1>2, <1>3, EmptySeq
<1> QED BY <1>2, <1>3, <1>4, ElementOfSeq DEF LastOf, Msgs

\* The last message of a whole conversation asks for nothing.
LEMMA LastIn ==
  ASSUME NEW a \in Msgs, a # <<>>, Whole(a)
  PROVE  LastOf(a) \in Message /\ ~Asking(LastOf(a))
<1>1. Len(a) \in 1..Len(a)
  BY LenProperties, EmptySeq DEF Msgs
<1> QED BY <1>1, ElementOfSeq DEF LastOf, Whole, Msgs

(***************************************************************************)
(* Conversations, prompts aside.  Unprompted is a recursive function; that *)
(* it exists, and what it keeps of a joined conversation, goes by          *)
(* induction with sets of numbers, from the least number left out.         *)
(***************************************************************************)
\* Induction for sets: a set with zero that is closed under successor holds every number.
LEMMA AllNumbers ==
  ASSUME NEW S, 0 \in S, \A n \in Nat : n \in S => n + 1 \in S
  PROVE  \A n \in Nat : n \in S
<1> DEFINE Out == {n \in Nat : n \notin S}
           R == OpToRel(<, Nat)
<1> SUFFICES ASSUME Out # {} PROVE FALSE
  OBVIOUS
<1>1. Out \subseteq Nat /\ IsWellFoundedOn(R, Nat)
  BY NatLessThanWellFounded
<1> HIDE DEF R, Out
<1>2. PICK n \in Out : \A m \in Out : <<m, n>> \notin R
  BY <1>1, WFMin
<1>3. n \in Nat /\ n \notin S
  BY DEF Out
<1>4. n # 0 /\ n - 1 \in Nat
  BY <1>3
<1>5. <<n - 1, n>> \in R
  BY <1>3, <1>4 DEF R, OpToRel
<1>6. n - 1 \in S
  BY <1>2, <1>4, <1>5 DEF Out
<1>7. n - 1 + 1 = n
  BY <1>3
<1> QED BY <1>3, <1>4, <1>6, <1>7

\* The messages that are no prompts, of the first i messages of s.
IsLeft(s, f, n) ==
  f = [i \in 0..n |-> IF i = 0 THEN <<>>
                      ELSE IF s[i].kind = "prompt" THEN f[i - 1] ELSE Append(f[i - 1], s[i])]
LeftOf(s) == CHOOSE f : IsLeft(s, f, Len(s))

\* It is what Unprompted says.
LEMMA UnpromptedIs ==
  ASSUME NEW s PROVE Unprompted(s) = LeftOf(s)[Len(s)]
  BY DEF Unprompted, LeftOf, IsLeft

\* There is such a function.
LEMMA LeftExists ==
  ASSUME NEW s, NEW m \in Nat
  PROVE  \E f : IsLeft(s, f, m)
<1> DEFINE S == {n \in Nat : \E f : IsLeft(s, f, n)}
<1>1. 0 \in S
  <2> DEFINE f == [i \in 0..0 |-> <<>>]
  <2>1. IsLeft(s, f, 0)
    BY DEF IsLeft
  <2> QED BY <2>1
<1>2. ASSUME NEW n \in Nat, n \in S PROVE n + 1 \in S
  <2>1. PICK f : IsLeft(s, f, n)
    BY <1>2
  <2> DEFINE next == IF s[n + 1].kind = "prompt" THEN f[n] ELSE Append(f[n], s[n + 1])
             g == [i \in 0..(n + 1) |-> IF i = n + 1 THEN next ELSE f[i]]
  <2>2. \A i \in 0..n : f[i] = IF i = 0 THEN <<>> ELSE IF s[i].kind = "prompt" THEN f[i - 1]
                                                       ELSE Append(f[i - 1], s[i])
    BY <2>1 DEF IsLeft
  <2>3. g[n] = f[n] /\ \A i \in 1..n : g[i - 1] = f[i - 1]
    OBVIOUS
  <2>4. ASSUME NEW i \in 0..(n + 1)
        PROVE  g[i] = IF i = 0 THEN <<>> ELSE IF s[i].kind = "prompt" THEN g[i - 1]
                                              ELSE Append(g[i - 1], s[i])
    <3>1. CASE i = n + 1
      <4>1. i # 0 /\ i - 1 = n /\ g[i] = next
        BY <3>1
      <4> QED BY <2>3, <3>1, <4>1
    <3>2. CASE i # n + 1
      <4>1. i \in 0..n /\ g[i] = f[i] /\ (i # 0 => g[i - 1] = f[i - 1])
        BY <2>3, <3>2
      <4> QED BY <2>2, <4>1
    <3> QED BY <3>1, <3>2
  <2>5. g = [i \in 0..(n + 1) |-> g[i]]
    OBVIOUS
  <2> HIDE DEF g, next
  <2>6. IsLeft(s, g, n + 1)
    BY <2>4, <2>5 DEF IsLeft
  <2> QED BY <2>6
<1> HIDE DEF S
<1>3. m \in S
  BY <1>1, <1>2, AllNumbers
<1> QED BY <1>3 DEF S

\* The messages that are no prompts, step by step.
LEMMA LeftSteps ==
  ASSUME NEW s \in Msgs
  PROVE  /\ LeftOf(s)[0] = <<>>
         /\ \A i \in 1..Len(s) :
              LeftOf(s)[i] = IF s[i].kind = "prompt" THEN LeftOf(s)[i - 1]
                            ELSE Append(LeftOf(s)[i - 1], s[i])
<1>1. Len(s) \in Nat
  BY LenProperties DEF Msgs
<1>2. IsLeft(s, LeftOf(s), Len(s))
  BY <1>1, LeftExists DEF LeftOf
<1>3. \A i \in 0..Len(s) :
        LeftOf(s)[i] = IF i = 0 THEN <<>> ELSE IF s[i].kind = "prompt" THEN LeftOf(s)[i - 1]
                                             ELSE Append(LeftOf(s)[i - 1], s[i])
  BY <1>2 DEF IsLeft
<1> QED BY <1>1, <1>3

\* One message more.
LEMMA LeftOne ==
  ASSUME NEW s \in Msgs, NEW n \in Nat, n + 1 <= Len(s), LeftOf(s)[n] \in Msgs
  PROVE  /\ LeftOf(s)[n + 1] \in Msgs /\ s[n + 1] \in Message
         /\ s[n + 1].kind = "prompt" => LeftOf(s)[n + 1] = LeftOf(s)[n]
         /\ s[n + 1].kind # "prompt" => LeftOf(s)[n + 1] = LeftOf(s)[n] \o <<s[n + 1]>>
<1>1. Len(s) \in Nat
  BY LenProperties DEF Msgs
<1>2. n + 1 \in 1..Len(s) /\ n + 1 - 1 = n
  BY <1>1
<1>3. s[n + 1] \in Message
  BY <1>2, ElementOfSeq DEF Msgs
<1>4. Append(LeftOf(s)[n], s[n + 1]) = LeftOf(s)[n] \o <<s[n + 1]>>
  BY <1>3, AppendIsConcat DEF Msgs
<1>5. Append(LeftOf(s)[n], s[n + 1]) \in Msgs
  BY <1>3, AppendProperties DEF Msgs
<1>6. LeftOf(s)[n + 1] = IF s[n + 1].kind = "prompt" THEN LeftOf(s)[n]
                        ELSE Append(LeftOf(s)[n], s[n + 1])
  BY <1>2, LeftSteps
<1> QED BY <1>3, <1>4, <1>5, <1>6

\* What is left of a beginning is a conversation.
LEMMA LeftMsgs ==
  ASSUME NEW s \in Msgs
  PROVE  \A i \in 0..Len(s) : LeftOf(s)[i] \in Msgs
<1> DEFINE S == {n \in Nat : n <= Len(s) => LeftOf(s)[n] \in Msgs}
<1>1. Len(s) \in Nat
  BY LenProperties DEF Msgs
<1>2. 0 \in S
  <2>1. <<>> \in Msgs
    BY DEF Msgs
  <2> QED BY <2>1, LeftSteps
<1>3. ASSUME NEW n \in Nat, n \in S PROVE n + 1 \in S
  <2> SUFFICES ASSUME n + 1 <= Len(s) PROVE LeftOf(s)[n + 1] \in Msgs
    OBVIOUS
  <2>1. LeftOf(s)[n] \in Msgs
    BY <1>1, <1>3
  <2> QED BY <2>1, LeftOne
<1>4. \A n \in Nat : n \in S
  <2> HIDE DEF S
  <2> QED BY <1>2, <1>3, AllNumbers
<1> QED BY <1>1, <1>4

\* Prompts aside, a joined conversation joins what its parts say.
LEMMA UnpromptedJoin ==
  ASSUME NEW s \in Msgs, NEW t \in Msgs
  PROVE  Unprompted(s \o t) = Unprompted(s) \o Unprompted(t)
<1> DEFINE u == s \o t
           F == {n \in Nat : n <= Len(s) => LeftOf(u)[n] = LeftOf(s)[n]}
           B == {n \in Nat : \A k \in Nat : n <= Len(t) /\ k = Len(s) + n =>
                                LeftOf(u)[k] = LeftOf(s)[Len(s)] \o LeftOf(t)[n]}
<1>1. /\ u \in Msgs /\ Len(u) = Len(s) + Len(t) /\ Len(s) \in Nat /\ Len(t) \in Nat
      /\ \A i \in 1..Len(s) : u[i] = s[i]
      /\ \A i \in 1..Len(t) : u[Len(s) + i] = t[i]
  <2>1. /\ u \in Msgs /\ Len(u) = Len(s) + Len(t) /\ Len(s) \in Nat /\ Len(t) \in Nat
        /\ \A i \in 1..Len(s) : u[i] = s[i]
        /\ \A i \in 1..Len(t) : u[i + Len(s)] = t[i]
    BY ConcatProperties, LenProperties DEF Msgs
  <2> HIDE DEF u
  <2> QED BY <2>1
<1> HIDE DEF u
<1>2. /\ \A i \in 0..Len(s) : LeftOf(s)[i] \in Msgs
      /\ \A i \in 0..Len(t) : LeftOf(t)[i] \in Msgs
      /\ \A i \in 0..Len(u) : LeftOf(u)[i] \in Msgs
  BY <1>1, LeftMsgs
<1>3. 0 \in F
  BY <1>1, LeftSteps
<1>4. ASSUME NEW n \in Nat, n \in F PROVE n + 1 \in F
  <2> SUFFICES ASSUME n + 1 <= Len(s) PROVE LeftOf(u)[n + 1] = LeftOf(s)[n + 1]
    OBVIOUS
  <2>1. /\ n + 1 \in 1..Len(s) /\ n + 1 \in 1..Len(u) /\ n + 1 - 1 = n
        /\ n \in 0..Len(s) /\ n \in 0..Len(u) /\ u[n + 1] = s[n + 1]
    BY <1>1
  <2>2. LeftOf(u)[n] = LeftOf(s)[n] /\ LeftOf(s)[n] \in Msgs
    BY <1>2, <1>4, <2>1
  <2>3. LeftOf(s)[n + 1] = IF s[n + 1].kind = "prompt" THEN LeftOf(s)[n]
                          ELSE Append(LeftOf(s)[n], s[n + 1])
    BY <2>1, LeftSteps
  <2>4. LeftOf(u)[n + 1] = IF u[n + 1].kind = "prompt" THEN LeftOf(u)[n]
                          ELSE Append(LeftOf(u)[n], u[n + 1])
    BY <1>1, <2>1, LeftSteps
  <2> QED BY <2>1, <2>2, <2>3, <2>4
<1>5. \A n \in Nat : n \in F
  <2> HIDE DEF F
  <2> QED BY <1>3, <1>4, AllNumbers
<1>6. 0 \in B
  <2>1. LeftOf(u)[Len(s)] = LeftOf(s)[Len(s)] /\ LeftOf(s)[Len(s)] \in Msgs
    BY <1>1, <1>2, <1>5
  <2>2. LeftOf(s)[Len(s)] \o <<>> = LeftOf(s)[Len(s)]
    BY <2>1, ConcatEmptySeq DEF Msgs
  <2>3. Len(s) + 0 = Len(s) /\ LeftOf(t)[0] = <<>>
    BY <1>1, LeftSteps
  <2> QED BY <2>1, <2>2, <2>3
<1>7. ASSUME NEW n \in Nat, n \in B PROVE n + 1 \in B
  <2> DEFINE k == Len(s) + n
             a == LeftOf(s)[Len(s)]
             b == LeftOf(t)[n]
             m == t[n + 1]
  <2> SUFFICES ASSUME n + 1 <= Len(t) PROVE LeftOf(u)[k + 1] = a \o LeftOf(t)[n + 1]
    <3>1. \A j \in Nat : j = Len(s) + (n + 1) => j = k + 1
      BY <1>1
    <3>2. \A j \in Nat : n + 1 <= Len(t) /\ j = Len(s) + (n + 1) =>
                           LeftOf(u)[j] = LeftOf(s)[Len(s)] \o LeftOf(t)[n + 1]
      <4> HIDE DEF k
      <4> QED BY <3>1
    <3>3. n + 1 \in Nat
      OBVIOUS
    <3> QED BY <3>2, <3>3
  <2>1. /\ n \in 0..Len(t) /\ Len(s) \in 0..Len(s) /\ n + 1 \in 1..Len(t)
        /\ k \in Nat /\ k + 1 <= Len(u) /\ k \in 0..Len(u)
    BY <1>1
  <2>2. u[k + 1] = m
    <3>1. k + 1 = Len(s) + (n + 1)
      BY <1>1
    <3>2. u[Len(s) + (n + 1)] = t[n + 1]
      BY <1>1, <2>1
    <3> QED BY <3>1, <3>2
  <2>3. LeftOf(u)[k] = a \o b
    <3>1. k \in Nat /\ n <= Len(t) /\ k = Len(s) + n
      BY <1>1, <2>1
    <3> HIDE DEF k
    <3> QED BY <1>7, <3>1
  <2>4. a \in Msgs /\ b \in Msgs /\ LeftOf(u)[k] \in Msgs
    BY <1>2, <2>1
  <2>5. /\ m \in Message
        /\ m.kind = "prompt" => LeftOf(t)[n + 1] = b
        /\ m.kind # "prompt" => LeftOf(t)[n + 1] = b \o <<m>>
    BY <2>4, LeftOne
  <2> HIDE DEF k
  <2>6. /\ m.kind = "prompt" => LeftOf(u)[k + 1] = LeftOf(u)[k]
        /\ m.kind # "prompt" => LeftOf(u)[k + 1] = LeftOf(u)[k] \o <<m>>
    <3>1. /\ u[k + 1].kind = "prompt" => LeftOf(u)[k + 1] = LeftOf(u)[k]
          /\ u[k + 1].kind # "prompt" => LeftOf(u)[k + 1] = LeftOf(u)[k] \o <<u[k + 1]>>
      BY <1>1, <2>1, <2>4, LeftOne
    <3> QED BY <2>2, <3>1
  <2> HIDE DEF a, b, m
  <2>7. (a \o b) \o <<m>> = a \o (b \o <<m>>)
    <3>1. \A x \in Message : <<x>> \in Msgs
      BY DEF Msgs
    <3>2. <<m>> \in Msgs
      BY <2>5, <3>1
    <3>3. \A z \in Msgs : (a \o b) \o z = a \o (b \o z)
      BY <2>4, JoinsThree
    <3> QED BY <3>2, <3>3
  <2> QED BY <2>3, <2>5, <2>6, <2>7
<1>8. \A n \in Nat : n \in B
  <2> HIDE DEF B
  <2> QED BY <1>6, <1>7, AllNumbers
<1>9. LeftOf(u)[Len(u)] = LeftOf(s)[Len(s)] \o LeftOf(t)[Len(t)]
  <2>1. Len(t) <= Len(t) /\ Len(s) + Len(t) \in Nat /\ Len(t) \in B
    <3> HIDE DEF B
    <3> QED BY <1>1, <1>8
  <2>2. LeftOf(u)[Len(s) + Len(t)] = LeftOf(s)[Len(s)] \o LeftOf(t)[Len(t)]
    BY <2>1
  <2> QED BY <1>1, <2>2
<1> QED BY <1>9, UnpromptedIs DEF u

\* What is left of a conversation is one.
LEMMA UnpromptedMsgs ==
  ASSUME NEW s \in Msgs
  PROVE  Unprompted(s) \in Msgs
<1>1. Len(s) \in 0..Len(s)
  BY LenProperties DEF Msgs
<1> QED BY <1>1, LeftMsgs, UnpromptedIs

\* Nothing is left of prompts.
LEMMA UnpromptedPrompts ==
  ASSUME NEW s \in Msgs, \A i \in 1..Len(s) : s[i].kind = "prompt"
  PROVE  Unprompted(s) = <<>>
<1> DEFINE S == {n \in Nat : n <= Len(s) => LeftOf(s)[n] = <<>>}
<1>1. Len(s) \in Nat
  BY LenProperties DEF Msgs
<1>2. 0 \in S
  BY LeftSteps
<1>3. ASSUME NEW n \in Nat, n \in S PROVE n + 1 \in S
  <2> SUFFICES ASSUME n + 1 <= Len(s) PROVE LeftOf(s)[n + 1] = <<>>
    OBVIOUS
  <2>1. /\ n + 1 \in 1..Len(s) /\ n + 1 - 1 = n /\ LeftOf(s)[n] = <<>>
    BY <1>1, <1>3
  <2> QED BY <2>1, LeftSteps
<1>4. \A n \in Nat : n \in S
  <2> HIDE DEF S
  <2> QED BY <1>2, <1>3, AllNumbers
<1> QED BY <1>1, <1>4, UnpromptedIs

\* A conversation without prompts stays as it is.
Spoken(s) == \A i \in 1..Len(s) : s[i].kind # "prompt"

LEMMA UnpromptedSpoken ==
  ASSUME NEW s \in Msgs, Spoken(s)
  PROVE  Unprompted(s) = s
<1> DEFINE S == {n \in Nat : n <= Len(s) => LeftOf(s)[n] = SubSeq(s, 1, n)}
<1>1. Len(s) \in Nat
  BY LenProperties DEF Msgs
<1>2. 0 \in S
  <2>1. SubSeq(s, 1, 0) = <<>>
    BY SubSeqEmpty
  <2> QED BY <2>1, LeftSteps
<1>3. ASSUME NEW n \in Nat, n \in S PROVE n + 1 \in S
  <2> SUFFICES ASSUME n + 1 <= Len(s) PROVE LeftOf(s)[n + 1] = SubSeq(s, 1, n + 1)
    OBVIOUS
  <2>1. /\ n + 1 \in 1..Len(s) /\ n + 1 - 1 = n /\ LeftOf(s)[n] = SubSeq(s, 1, n)
        /\ n \in 0..Len(s) /\ s[n + 1].kind # "prompt"
    BY <1>1, <1>3 DEF Spoken
  <2>2. LeftOf(s)[n + 1] = SubSeq(s, 1, n) \o <<s[n + 1]>>
    <3>1. LeftOf(s)[n] \in Msgs
      BY <2>1, LeftMsgs
    <3> QED BY <2>1, <3>1, LeftOne
  <2>3. SubSeq(s, 1, n + 1) = SubSeq(s, 1, n) \o <<s[n + 1]>>
    <3>1. 1 \in 1..Len(s) /\ n + 1 \in 1..Len(s)
      BY <1>1, <2>1
    <3>2. SubSeq(s, 1, n + 1) = SubSeq(s, 1, n + 1 - 1) \o <<s[n + 1]>>
      BY <3>1, SubSeqRecursiveSecond DEF Msgs
    <3> QED BY <2>1, <3>2
  <2> QED BY <2>2, <2>3
<1>4. \A n \in Nat : n \in S
  <2> HIDE DEF S
  <2> QED BY <1>2, <1>3, AllNumbers
<1>5. LeftOf(s)[Len(s)] = SubSeq(s, 1, Len(s))
  BY <1>1, <1>4
<1> QED BY <1>5, SubSeqFull, UnpromptedIs DEF Msgs

\* A joined conversation is without prompts if and only if its parts are.
LEMMA SpokenJoin ==
  ASSUME NEW a \in Msgs, NEW b \in Msgs
  PROVE  Spoken(a \o b) <=> Spoken(a) /\ Spoken(b)
<1> DEFINE s == a \o b
<1>1. /\ s \in Msgs /\ Len(s) = Len(a) + Len(b) /\ Len(a) \in Nat /\ Len(b) \in Nat
      /\ \A i \in 1..Len(a) : s[i] = a[i]
      /\ \A i \in 1..Len(b) : s[i + Len(a)] = b[i]
  BY ConcatProperties, LenProperties DEF Msgs
<1> HIDE DEF s
<1>2. ASSUME Spoken(s), NEW i \in 1..Len(a) PROVE a[i].kind # "prompt"
  BY <1>1, <1>2 DEF Spoken
<1>3. ASSUME Spoken(s), NEW i \in 1..Len(b) PROVE b[i].kind # "prompt"
  <2>1. i + Len(a) \in 1..Len(s) /\ s[i + Len(a)] = b[i]
    BY <1>1
  <2> QED BY <1>3, <2>1 DEF Spoken
<1>4. ASSUME Spoken(a), Spoken(b), NEW i \in 1..Len(s) PROVE s[i].kind # "prompt"
  <2>1. CASE i <= Len(a)
    BY <1>1, <1>4, <2>1 DEF Spoken
  <2>2. CASE i > Len(a)
    <3>1. i - Len(a) \in 1..Len(b) /\ s[i] = b[i - Len(a)]
      BY <1>1, <2>2
    <3> QED BY <1>4, <3>1 DEF Spoken
  <2> QED BY <1>1, <2>1, <2>2
<1>5. Spoken(s) <=> Spoken(a) /\ Spoken(b)
  BY <1>2, <1>3, <1>4 DEF Spoken
<1> QED BY <1>5 DEF s

\* Nothing comes after the last message.
LEMMA TailEmpty ==
  ASSUME NEW s \in Msgs
  PROVE  SubSeq(s, Len(s) + 1, Len(s)) = <<>>
<1>1. Len(s) \in Nat
  BY LenProperties DEF Msgs
<1> QED BY <1>1, SubSeqEmpty

(***************************************************************************)
(* The inductive invariant.                                                *)
(***************************************************************************)
\* The nodes of the iteration, and the last message it has.
Nodes == {"start", "prompt", "request", "calls", "end"}
Last  == LastOf(Context)

\* The table is whole and its replies are old ones.
Table ==
  /\ rows \in Msgs /\ Whole(rows) /\ replies \in Nat
  /\ \A n \in RepliesOf(rows) : n <= replies
  /\ gen.pc # "off" \/ outcome = "interrupted" => rows # <<>>

\* What generate() keeps of the conversation.
Iteration ==
  /\ gen.pc \in {"off", "next", "ask", "commit", "drain", "store"} /\ gen.node \in Nodes
  /\ gen.base \in Msgs /\ gen.new \in Msgs /\ gen.buffer \in Msgs /\ gen.drained \in Seq(Notes)
  /\ gen.seen \in Nat /\ gen.seen <= Len(gen.new)
  /\ gen.pc # "off" => Whole(gen.base) /\ gen.base # <<>>
  /\ gen.pc = "ask" => gen.node \in {"prompt", "calls"}
  /\ gen.node \in {"start", "prompt"} => gen.new = <<>>
  /\ gen.pc = "store" => gen.drained # <<>>

\* Between requests only a call without results is in the buffer, the last message.
Buffered ==
  gen.pc \in {"next", "ask", "drain", "store"} =>
    /\ gen.seen = Len(gen.new)
    /\ gen.node \in {"start", "prompt", "end"} => gen.buffer = <<>>
    /\ gen.node \in {"request", "calls"} =>
         gen.buffer = IF Asking(Last) THEN <<Last>> ELSE <<>>
    /\ gen.pc = "ask" /\ gen.node = "calls" => Asking(Last)
    /\ RepliesOf(gen.buffer) \cap RepliesOf(rows) = {}
    /\ \A n \in RepliesOf(gen.buffer) : n <= replies

\* When the model has replied: whole exchanges, then the reply.
Replied ==
  gen.pc = "commit" =>
    /\ gen.node = "request"
    /\ \E w \in Msgs, r \in Message :
         /\ Uncommitted = w \o <<r>> /\ Last = r /\ r.kind = "reply" /\ Whole(w)
         /\ r.no \notin RepliesOf(w)
         /\ RepliesOf(w \o <<r>>) \cap RepliesOf(rows) = {}
         /\ \A n \in RepliesOf(w \o <<r>>) : n <= replies

\* The other variables.
Typed ==
  /\ queue \in Seq(Notes) /\ active \in BOOLEAN /\ running \in BOOLEAN
  /\ outcome \in {"none", "returned", "interrupted", "failed"}
  /\ client \in [Clients -> Client]
  /\ \A c \in Clients : client[c].pc = "enqueue" => client[c].note \in Notes
  /\ ran \subseteq Nat /\ shown \subseteq Nat /\ applied \subseteq Notes
  /\ notes \in 0..MaxNotes /\ calls \in 0..MaxCalls /\ begins \in 0..MaxBegins
  /\ ops \in 0..MaxOps

\* Where the results of the tools that ran are.
Kept ==
  \A n \in ran : \/ Holds(rows, Results(n))
                 \/ gen.pc = "ask" /\ gen.node = "calls" /\ Last.no = n
                 \/ gen.pc = "commit" /\ Holds(Ready, Results(n))
                 \/ gen.pc = "off" /\ outcome # "returned"

\* Notes that were taken are stored, and shown with the next request.
Taken ==
  /\ \A n \in applied : Holds(rows, Prompt(n))
  /\ gen.pc # "off" => \A n \in applied : Holds(gen.base, Prompt(n))
  /\ rows # <<>> /\ LastOf(rows).kind = "reply" => applied \subseteq shown
  /\ gen.pc # "off" /\ LastOf(gen.base).kind = "reply" => applied \subseteq shown
  /\ gen.pc # "off" /\ gen.node \in {"request", "calls", "end"} => applied \subseteq shown
  /\ gen.pc = "off" /\ outcome = "returned" => applied \subseteq shown

Inv == Typed /\ gen \in Gen /\ Table /\ Iteration /\ Buffered /\ Replied /\ Kept /\ Taken

(***************************************************************************)
(* Steps of the table.                                                     *)
(***************************************************************************)
LEMMA Added ==
  ASSUME rows \in Msgs, Whole(rows), NEW b \in Msgs, Whole(b), rows' = rows \o b,
         RepliesOf(b) \cap RepliesOf(rows) = {}
  PROVE  /\ rows' \in Msgs /\ Whole(rows') /\ [T!Extend]_rows
         /\ RepliesOf(rows') = RepliesOf(rows) \cup RepliesOf(b)
         /\ \A m : Holds(rows', m) <=> Holds(rows, m) \/ Holds(b, m)
         /\ rows # <<>> => rows' # <<>>
         /\ b # <<>> => rows' # <<>> /\ LastOf(rows') = LastOf(b)
<1>1. rows' \in Msgs
  BY ConcatProperties DEF Msgs
<1>2. Whole(rows')
  BY WholeJoin
<1>3. [T!Extend]_rows
  BY Extends
<1>4. RepliesOf(rows') = RepliesOf(rows) \cup RepliesOf(b)
  BY RepliesJoin
<1>5. \A m : Holds(rows', m) <=> Holds(rows, m) \/ Holds(b, m)
  BY HoldsJoin
<1>6. b # <<>> => rows' # <<>> /\ LastOf(rows') = LastOf(b)
  BY LastJoin
<1>7. b = <<>> => rows' = rows
  BY ConcatEmptySeq DEF Msgs
<1> QED BY <1>1, <1>2, <1>3, <1>4, <1>5, <1>6, <1>7

\* The same for one prompt.
LEMMA AddedPrompt ==
  ASSUME rows \in Msgs, Whole(rows), NEW n \in Nat, rows' = rows \o <<Prompt(n)>>
  PROVE  /\ rows' \in Msgs /\ Whole(rows') /\ [T!Extend]_rows
         /\ RepliesOf(rows') = RepliesOf(rows)
         /\ \A m : Holds(rows, m) => Holds(rows', m)
         /\ rows' # <<>> /\ LastOf(rows').kind = "prompt"
<1> DEFINE b == <<Prompt(n)>>
<1>1. /\ b \in Msgs /\ Len(b) = 1 /\ b[1] = Prompt(n) /\ RepliesOf(b) = {} /\ b # <<>>
      /\ Prompt(n).kind = "prompt" /\ ~Asking(Prompt(n))
  BY BuiltPrompt, RepliesOne, EmptySeq
<1> HIDE DEF b
<1>2. Whole(b)
  <2>1. \A i \in 1..Len(b) : b[i] = Prompt(n)
    BY <1>1
  <2> QED BY <1>1, <2>1, WholePlain
<1>3. LastOf(b) = Prompt(n)
  BY <1>1 DEF LastOf
<1>4. rows' = rows \o b
  BY DEF b
<1> QED BY <1>1, <1>2, <1>3, <1>4, Added

\* The prompts of drained notes are whole and hold no reply.
LEMMA PromptsMade ==
  ASSUME NEW d \in Seq(Notes), d # <<>>, NEW b \in Msgs, Len(b) = Len(d),
         \A i \in 1..Len(d) : b[i] = Prompt(d[i])
  PROVE  /\ Whole(b) /\ RepliesOf(b) = {} /\ b # <<>>
         /\ LastOf(b).kind = "prompt"
         /\ \A i \in 1..Len(d) : d[i] \in Notes /\ Holds(b, Prompt(d[i]))
<1>1. Len(d) \in Nat /\ Len(d) > 0
  BY LenProperties, EmptySeq
<1>2. \A i \in 1..Len(d) : d[i] \in Notes
  BY ElementOfSeq
<1>3. \A i \in 1..Len(d) : d[i] \in Nat
  BY <1>2 DEF Notes
<1>4. \A i \in 1..Len(b) : b[i].kind = "prompt" /\ ~Asking(b[i])
  BY <1>3, BuiltPrompt
<1>5. Whole(b) /\ RepliesOf(b) = {}
  BY <1>4, WholePlain, RepliesPlain
<1>6. b # <<>> /\ Len(b) \in 1..Len(b)
  BY <1>1, EmptySeq
<1>7. LastOf(b).kind = "prompt"
  BY <1>4, <1>6 DEF LastOf
<1>8. \A i \in 1..Len(d) : Holds(b, Prompt(d[i]))
  BY DEF Holds
<1> QED BY <1>2, <1>5, <1>6, <1>7, <1>8

\* They are a conversation.
LEMMA PromptsBuilt ==
  ASSUME NEW d \in Seq(Notes)
  PROVE  LET b == [i \in 1..Len(d) |-> Prompt(d[i])] IN
           b \in Msgs /\ Len(b) = Len(d) /\ \A i \in 1..Len(d) : b[i] = Prompt(d[i])
<1>1. Len(d) \in Nat
  BY LenProperties
<1>2. \A i \in 1..Len(d) : d[i] \in Notes
  BY ElementOfSeq
<1>3. \A i \in 1..Len(d) : d[i] \in Nat
  BY <1>2 DEF Notes
<1>4. \A i \in 1..Len(d) : Prompt(d[i]) \in Message
  BY <1>3, BuiltPrompt
<1>5. [i \in 1..Len(d) |-> Prompt(d[i])] \in Seq(Message)
  BY <1>1, <1>4
<1> QED BY <1>1, <1>5 DEF Msgs

(***************************************************************************)
(* Every step keeps the invariant and writes to the table as the abstract  *)
(* specification does.                                                     *)
(***************************************************************************)
LEMMA InitInv == BoundsAssumption /\ Init => Inv
<1> SUFFICES ASSUME BoundsAssumption, Init PROVE Inv
  OBVIOUS
<1>1. /\ rows = <<>> /\ queue = <<>> /\ gen = Off /\ outcome = "none" /\ ran = {} /\ applied = {}
      /\ replies = 0
  BY DEF Init
<1>2. gen \in Gen /\ gen.pc = "off" /\ gen.node = "start" /\ gen.base = <<>> /\ gen.new = <<>>
      /\ gen.buffer = <<>> /\ gen.drained = <<>> /\ gen.seen = 0
  BY <1>1 DEF Off, Gen
<1>3. <<>> \in Msgs /\ RepliesOf(<<>>) = {} /\ Len(<<>>) = 0 /\ Whole(<<>>)
  BY DEF Msgs, RepliesOf, Whole
<1>4. Typed
  <2>1. client \in [Clients -> Client] /\ \A c \in Clients : client[c].pc # "enqueue"
    BY DEF Init, Client
  <2>2. /\ MaxNotes \in Nat /\ MaxCalls \in Nat /\ MaxBegins \in Nat /\ MaxOps \in Nat
        /\ <<>> \in Seq(Notes)
    BY DEF BoundsAssumption
  <2>3. /\ notes \in 0..MaxNotes /\ calls \in 0..MaxCalls
        /\ begins \in 0..MaxBegins /\ ops \in 0..MaxOps
    BY <2>2 DEF Init
  <2> QED BY <2>1, <2>2, <2>3 DEF Init, Typed
<1>5. Table /\ Iteration
  BY <1>1, <1>2, <1>3 DEF Table, Iteration, Nodes
<1>6. Buffered /\ Replied /\ Kept /\ Taken
  BY <1>1, <1>2 DEF Buffered, Replied, Kept, Taken
<1> QED BY <1>2, <1>4, <1>5, <1>6 DEF Inv

\* Steps that leave the table and the iteration alone.
LEMMA AsideInv ==
  ASSUME Inv, Typed', UNCHANGED <<rows, gen, outcome, ran, shown, applied, replies>>
  PROVE  Inv'
<1>1. Table' /\ Iteration' /\ gen' \in Gen
  BY DEF Inv, Table, Iteration
<1>2. Buffered' /\ Replied'
  BY DEF Inv, Buffered, Replied, Last, Context, Uncommitted
<1>3. Kept' /\ Taken'
  BY DEF Inv, Kept, Taken, Last, Context, Ready, Uncommitted
<1> QED BY <1>1, <1>2, <1>3 DEF Inv

\* A prompt that a client stores.
LEMMA PromptedInv ==
  ASSUME Inv, Typed', NEW n \in Nat, rows' = rows \o <<Prompt(n)>>,
         UNCHANGED <<gen, outcome, ran, shown, applied, replies>>
  PROVE  Inv' /\ [T!Extend]_rows
<1>1. /\ rows' \in Msgs /\ Whole(rows') /\ [T!Extend]_rows
      /\ RepliesOf(rows') = RepliesOf(rows)
      /\ \A m : Holds(rows, m) => Holds(rows', m)
      /\ rows' # <<>> /\ LastOf(rows').kind = "prompt"
  BY AddedPrompt DEF Inv, Table
<1>2. Table' /\ Iteration' /\ gen' \in Gen
  BY <1>1 DEF Inv, Table, Iteration
<1>3. Buffered' /\ Replied'
  BY <1>1 DEF Inv, Buffered, Replied, Last, Context, Uncommitted
<1>4. Kept' /\ Taken'
  BY <1>1 DEF Inv, Kept, Taken, Last, Context, Ready, Uncommitted
<1> QED BY <1>1, <1>2, <1>3, <1>4 DEF Inv

\* Injections and follow-ups keep the invariant and extend the table.
LEMMA ClientInv ==
  ASSUME Inv, BoundsAssumption, NEW c \in Clients,
         Inject(c) \/ FollowUp(c) \/ FollowUpSubagent(c) \/ Enqueue(c)
  PROVE  Inv' /\ [T!Extend]_rows
<1>1. /\ client \in [Clients -> Client] /\ queue \in Seq(Notes)
      /\ \A d \in Clients : client[d].pc = "enqueue" => client[d].note \in Notes
  BY DEF Inv, Typed
<1>2. \A n \in Notes : n \in Nat /\ n \in 0..MaxNotes
  BY DEF Notes
<1>3. \A n \in 0..MaxNotes : /\ [pc |-> "enqueue", note |-> n] \in Client
                             /\ [pc |-> "idle", note |-> n] \in Client
  BY DEF Client
<1>4. rows \in Msgs /\ SafePart(rows) = rows
  BY WholeSafe DEF Inv, Table
<1>5. ASSUME NEW n \in Notes, NewNote(n),
             client' = client \/ client' = [client EXCEPT ![c] = [pc |-> "enqueue", note |-> n]],
             UNCHANGED <<queue, active, gen, running, outcome, ran, shown, applied,
                         replies, calls, begins, ops>>
      PROVE  Typed'
  <2>1. notes' \in 0..MaxNotes
    BY <1>2, <1>5 DEF NewNote
  <2>2. client' \in [Clients -> Client]
    BY <1>1, <1>2, <1>3, <1>5
  <2>3. \A d \in Clients : client'[d].pc = "enqueue" => client'[d].note \in Notes
    <3>1. CASE client' = client
      BY <1>1, <3>1
    <3>2. CASE client' = [client EXCEPT ![c] = [pc |-> "enqueue", note |-> n]]
      BY <1>1, <3>2
    <3> QED BY <1>5, <3>1, <3>2
  <2> QED BY <1>5, <2>1, <2>2, <2>3 DEF Inv, Typed
<1>6. CASE Inject(c)
  <2>1. PICK n \in Notes : /\ NewNote(n)
                           /\ client' = [client EXCEPT ![c] = [pc |-> "enqueue", note |-> n]]
    BY <1>6 DEF Inject
  <2>2. UNCHANGED <<rows, queue, active, gen, running, outcome, ran, shown, applied,
                    replies, calls, begins, ops>>
    BY <1>6 DEF Inject
  <2>3. Typed'
    BY <1>5, <2>1, <2>2
  <2> QED BY <2>2, <2>3, AsideInv
<1>7. CASE FollowUp(c)
  <2>1. PICK n \in Notes : /\ NewNote(n) /\ rows' = rows \o <<Prompt(n)>>
                           /\ client' = [client EXCEPT ![c] = [pc |-> "enqueue", note |-> n]]
    BY <1>7 DEF FollowUp
  <2>2. UNCHANGED <<queue, active, gen, running, outcome, ran, shown, applied,
                    replies, calls, begins, ops>>
    BY <1>7 DEF FollowUp
  <2>3. Typed'
    BY <1>5, <2>1, <2>2
  <2> QED BY <1>2, <2>1, <2>2, <2>3, PromptedInv
<1>8. CASE FollowUpSubagent(c)
  <2>1. PICK n \in Notes :
          /\ NewNote(n) /\ rows' = SafePart(rows) \o <<Prompt(n)>>
          /\ client' = client \/ client' = [client EXCEPT ![c] = [pc |-> "enqueue", note |-> n]]
    BY <1>8 DEF FollowUpSubagent, Prompted, Pruned
  <2>2. UNCHANGED <<queue, active, gen, running, outcome, ran, shown, applied,
                    replies, calls, begins, ops>>
    BY <1>8 DEF FollowUpSubagent, Prompted, Pruned
  <2>3. Typed'
    BY <1>5, <2>1, <2>2
  <2> QED BY <1>2, <1>4, <2>1, <2>2, <2>3, PromptedInv
<1>9. CASE Enqueue(c)
  <2>1. /\ UNCHANGED <<rows, active, gen, running, outcome, ran, shown, applied, counters>>
        /\ client' = [client EXCEPT ![c] = [pc |-> "idle", note |-> 0]]
        /\ queue' = IF active THEN Append(queue, client[c].note) ELSE queue
        /\ client[c].note \in Notes
    BY <1>1, <1>9 DEF Enqueue
  <2>2. queue' \in Seq(Notes)
    BY <1>1, <2>1, AppendProperties
  <2>3. 0 \in 0..MaxNotes
    BY DEF BoundsAssumption
  <2>4. /\ client' \in [Clients -> Client]
        /\ \A d \in Clients : client'[d].pc = "enqueue" => client'[d].note \in Notes
    BY <1>1, <1>3, <2>1, <2>3
  <2>5. Typed'
    BY <2>1, <2>2, <2>4 DEF Inv, Typed, counters
  <2> QED BY <2>1, <2>5, AsideInv DEF counters
<1> QED BY <1>6, <1>7, <1>8, <1>9

\* Activate, Deactivate, Interrupted and Crash leave the table alone.
LEMMA RunInv ==
  ASSUME BoundsAssumption, Inv, Activate \/ Deactivate \/ Interrupted \/ Crash
  PROVE  Inv' /\ UNCHANGED rows
<1>1. <<>> \in Seq(Notes) /\ Off \in Gen /\ <<>> \in Msgs /\ Len(<<>>) = 0
  BY DEF Off, Gen, Msgs
<1>2. CASE Activate \/ Deactivate
  <2>1. Typed'
    BY <1>1, <1>2 DEF Inv, Typed, Activate, Deactivate, counters
  <2> QED BY <1>2, <2>1, AsideInv DEF Activate, Deactivate, counters
<1>3. CASE Interrupted \/ Crash
  <2>1. /\ gen' = Off /\ UNCHANGED <<rows, ran, shown, applied, replies, notes, calls, begins>>
        /\ queue' = queue \/ queue' = <<>>
        /\ running' \in BOOLEAN /\ active' \in BOOLEAN /\ ops < MaxOps /\ ops' = ops + 1
    BY <1>3 DEF Interrupted, Crash, Interrupts, Inv, Typed
  <2>2. outcome' \in {"none", "returned", "interrupted", "failed"}
    BY <1>3 DEF Interrupted, Crash, Inv, Typed
  <2>3. (gen.pc = "off" /\ outcome' = outcome) \/ (gen.pc # "off" /\ outcome' # "returned")
    <3>1. CASE Interrupted
      BY <3>1 DEF Interrupted
    <3>2. CASE Crash
      <4>1. outcome' = IF gen.pc = "off" THEN outcome ELSE "interrupted"
        BY <3>2 DEF Crash
      <4>2. CASE gen.pc = "off"
        BY <4>1, <4>2
      <4>3. CASE gen.pc # "off"
        BY <4>1, <4>3
      <4> QED BY <4>2, <4>3
    <3> QED BY <1>3, <3>1, <3>2
  <2>4. /\ client' \in [Clients -> Client]
        /\ \A c \in Clients : client'[c].pc = "enqueue" => client'[c].note \in Notes
    <3>1. CASE Interrupted
      BY <3>1 DEF Interrupted, Inv, Typed
    <3>2. CASE Crash
      <4>1. 0 \in 0..MaxNotes
        BY DEF BoundsAssumption
      <4>2. [pc |-> "idle", note |-> 0] \in Client
        BY <4>1 DEF Client
      <4>3. client' = [c \in Clients |-> [pc |-> "idle", note |-> 0]]
        BY <3>2 DEF Crash
      <4> QED BY <4>2, <4>3
    <3> QED BY <1>3, <3>1, <3>2
  <2>5. Typed'
    <3>1. ops' \in 0..MaxOps
      <4>1. MaxOps \in Nat
        BY DEF BoundsAssumption
      <4> QED BY <2>1, <4>1 DEF Inv, Typed
    <3> QED BY <1>1, <2>1, <2>2, <2>4, <3>1 DEF Inv, Typed
  <2>6. gen'.pc = "off" /\ gen'.node = "start" /\ gen'.base = <<>> /\ gen'.new = <<>>
        /\ gen'.buffer = <<>> /\ gen'.drained = <<>> /\ gen'.seen = 0 /\ gen' \in Gen
    BY <1>1, <2>1 DEF Off
  <2>7. Table' /\ Iteration'
    BY <1>1, <2>1, <2>3, <2>6 DEF Inv, Table, Iteration, Nodes
  <2>8. Buffered' /\ Replied'
    BY <2>6 DEF Buffered, Replied
  <2>9. Kept' /\ Taken'
    BY <2>1, <2>3, <2>6 DEF Inv, Kept, Taken, Last, Context, Ready, Uncommitted
  <2> QED BY <2>1, <2>5, <2>6, <2>7, <2>8, <2>9 DEF Inv
<1> QED BY <1>2, <1>3 DEF Activate, Deactivate

\* An iteration that starts from the table has it as its base and nothing new.
LEMMA StartedGen ==
  ASSUME NEW r \in Msgs, SafePart(r) = r
  PROVE  LET g == Started(r) IN
         /\ g \in Gen /\ g.pc = "next" /\ g.node = "start" /\ g.base = r
         /\ g.new = <<>> /\ g.buffer = <<>> /\ g.drained = <<>> /\ g.seen = 0
<1>1. Off \in Gen /\ r \in Seq(Message)
  BY DEF Off, Gen, Msgs
<1>2. Started(r) = [Off EXCEPT !.pc = "next", !.base = r]
  BY DEF Started
<1>3. Started(r) \in Gen
  BY <1>1, <1>2 DEF Gen
<1>4. /\ Off.node = "start" /\ Off.new = <<>> /\ Off.buffer = <<>> /\ Off.drained = <<>>
      /\ Off.seen = 0
  BY DEF Off
<1> QED BY <1>1, <1>2, <1>3, <1>4 DEF Gen

\* A new execution, of a new task or of an interrupted one.
LEMMA BeginInv ==
  ASSUME BoundsAssumption, Inv, Begin
  PROVE  Inv' /\ [T!Extend]_rows
<1>1. rows \in Msgs /\ Whole(rows) /\ SafePart(rows) = rows
  BY WholeSafe DEF Inv, Table
<1>2. /\ gen' = Started(rows') /\ running' = TRUE /\ ran' = {} /\ begins < MaxBegins
      /\ begins' = begins + 1
      /\ UNCHANGED <<queue, active, outcome, client, shown, applied, replies, calls, ops>>
  BY DEF Begin, Prompted, Pruned
<1>3. /\ notes' \in 0..MaxNotes /\ rows' \in Msgs /\ Whole(rows') /\ [T!Extend]_rows
      /\ RepliesOf(rows') = RepliesOf(rows) /\ rows' # <<>>
      /\ \A m : Holds(rows, m) => Holds(rows', m)
      /\ LastOf(rows').kind = "reply" => applied \subseteq shown
  <2>1. CASE \E n \in Notes : NewNote(n) /\ rows' = SafePart(rows) \o <<Prompt(n)>>
    <3>1. PICK n \in Notes : NewNote(n) /\ rows' = SafePart(rows) \o <<Prompt(n)>>
      BY <2>1
    <3>2. n \in Nat /\ n \in 0..MaxNotes
      BY DEF Notes
    <3> QED BY <1>1, <3>1, <3>2, AddedPrompt DEF NewNote
  <2>2. CASE outcome = "interrupted" /\ UNCHANGED <<rows, notes>>
    BY <1>1, <2>2 DEF Inv, Table, Taken, Typed
  <2> QED BY <2>1, <2>2 DEF Begin, Prompted, Pruned
<1>4. /\ gen' \in Gen /\ gen'.pc = "next" /\ gen'.node = "start" /\ gen'.base = rows'
      /\ gen'.new = <<>> /\ gen'.buffer = <<>> /\ gen'.drained = <<>> /\ gen'.seen = 0
  <2>1. SafePart(rows') = rows'
    BY <1>3, WholeSafe
  <2> QED BY <1>2, <1>3, <2>1, StartedGen
<1>5. Typed'
  <2>1. begins' \in 0..MaxBegins
    <3>1. MaxBegins \in Nat
      BY DEF BoundsAssumption
    <3> QED BY <1>2, <3>1 DEF Inv, Typed
  <2> QED BY <1>2, <1>3, <2>1 DEF Inv, Typed
<1>6. <<>> \in Msgs /\ Len(<<>>) = 0 /\ <<>> \in Seq(Notes) /\ RepliesOf(<<>>) = {}
  BY DEF Msgs, RepliesOf
<1>7. Table' /\ Iteration'
  BY <1>2, <1>3, <1>4, <1>6 DEF Inv, Table, Iteration, Nodes
<1>8. Buffered' /\ Replied'
  BY <1>4, <1>6 DEF Buffered, Replied
<1>9. Kept' /\ Taken'
  BY <1>2, <1>3, <1>4 DEF Inv, Kept, Taken
<1> QED BY <1>3, <1>4, <1>5, <1>7, <1>8, <1>9 DEF Inv

\* The next node, and the look into the queue.
LEMMA WalkInv ==
  ASSUME Inv, Advance \/ Drain
  PROVE  Inv' /\ UNCHANGED rows
<1>1. gen \in Gen /\ Last = LastOf(Context)
  BY DEF Inv, Last
<1>2. CASE Drain
  <2>1. /\ gen.pc = "drain" /\ gen' = [gen EXCEPT !.pc = IF queue = <<>> THEN "next" ELSE "store",
                                               !.drained = queue]
        /\ UNCHANGED <<rows, active, running, outcome, client, ran, shown, applied, counters>>
        /\ queue' = <<>>
    BY <1>2 DEF Drain
  <2>2. queue \in Seq(Notes) /\ <<>> \in Seq(Notes)
    BY DEF Inv, Typed
  <2>3. gen' \in Gen
    BY <1>1, <2>1, <2>2 DEF Gen
  <2>4. /\ gen'.pc \in {"next", "store"} /\ (gen'.pc = "store" => queue # <<>>)
        /\ gen'.drained = queue /\ gen'.node = gen.node /\ gen'.base = gen.base
        /\ gen'.new = gen.new /\ gen'.buffer = gen.buffer /\ gen'.seen = gen.seen
    BY <1>1, <2>1 DEF Gen
  <2>5. Typed'
    BY <2>1, <2>2 DEF Inv, Typed, counters
  <2>6. Table' /\ Iteration'
    BY <2>1, <2>2, <2>4 DEF Inv, Table, Iteration, counters
  <2>7. Buffered' /\ Replied'
    BY <2>1, <2>4 DEF Inv, Buffered, Replied, Last, Context, counters
  <2>8. Kept' /\ Taken'
    BY <2>1, <2>4 DEF Inv, Kept, Taken
  <2> QED BY <2>1, <2>3, <2>5, <2>6, <2>7, <2>8 DEF Inv
<1>3. CASE Advance
  <2> DEFINE asked == gen.node = "calls" /\ Asking(Last)
  <2>1. /\ gen.pc = "next" /\ gen.node # "end"
        /\ UNCHANGED <<rows, queue, active, running, outcome, client, shown, applied, counters>>
        /\ ran' = IF asked THEN ran \cup {Last.no} ELSE ran
    BY <1>1, <1>3 DEF Advance
  <2>2. gen.node \in Nodes /\ gen.base \in Msgs /\ gen.base # <<>> /\ Whole(gen.base)
    BY <2>1 DEF Inv, Iteration
  <2>3. gen.node \in {"start", "prompt"} => ~Asking(Last) /\ Last = LastOf(gen.base)
    <3>1. ASSUME gen.node \in {"start", "prompt"} PROVE Context = gen.base
      BY <2>2, <3>1, ConcatEmptySeq DEF Inv, Iteration, Context, Msgs
    <3> QED BY <1>1, <2>2, <3>1, LastIn
  <2>4. Asking(Last) => Last.no \in Nat
    <3>1. gen.buffer \in Msgs
      BY DEF Inv, Iteration
    <3>2. ASSUME Asking(Last) PROVE gen.buffer = <<Last>>
      BY <2>1, <2>2, <2>3, <3>2 DEF Inv, Buffered, Nodes
    <3>3. ASSUME Asking(Last) PROVE Last \in Message
      <4>1. Len(<<Last>>) = 1 /\ <<Last>>[1] = Last
        OBVIOUS
      <4>2. \A i \in 1..Len(gen.buffer) : gen.buffer[i] \in Message
        BY <3>1, ElementOfSeq DEF Msgs
      <4>3. gen.buffer = <<Last>>
        BY <3>2, <3>3
      <4>4. 1 \in 1..Len(gen.buffer) /\ gen.buffer[1] = Last
        BY <4>1, <4>3
      <4> QED BY <4>2, <4>4
    <3> QED BY <3>3 DEF Message
  <2>5. PICK node \in Nodes, pc \in {"drain", "ask"} :
          /\ gen' = [gen EXCEPT !.node = node, !.pc = pc]
          /\ gen.node = "start" => node = "prompt" /\ pc = "drain"
          /\ gen.node = "prompt" => \/ node = "calls" /\ pc = "drain" /\ Last.kind = "reply"
                                    \/ node = "prompt" /\ pc = "ask"
          /\ gen.node = "request" => node = "calls" /\ pc = "drain"
          /\ gen.node = "calls" /\ asked => node = "calls" /\ pc = "ask"
          /\ gen.node = "calls" /\ ~asked => node = "end" /\ pc = "drain"
    BY <1>1, <1>3, <2>2 DEF Advance, At, Nodes
  <2>6. gen' \in Gen
    BY <1>1, <2>5 DEF Gen, Nodes
  <2>7. /\ gen'.pc = pc /\ gen'.node = node /\ gen'.drained = gen.drained /\ gen'.base = gen.base
        /\ gen'.new = gen.new /\ gen'.buffer = gen.buffer /\ gen'.seen = gen.seen
    BY <1>1, <2>5 DEF Gen
  <2>8. Typed'
    <3>1. ran' \subseteq Nat
      BY <2>1, <2>4 DEF Inv, Typed
    <3> QED BY <2>1, <3>1 DEF Inv, Typed, counters
  <2>9. Last' = Last
    BY <2>7 DEF Last, Context
  <2>10. Table' /\ Iteration'
    BY <2>1, <2>2, <2>5, <2>7 DEF Inv, Table, Iteration, counters, Nodes
  <2>11. Buffered' /\ Replied'
    BY <2>1, <2>2, <2>3, <2>5, <2>7, <2>9 DEF Inv, Buffered, Replied, counters, Nodes
  <2>12. Kept'
    <3> SUFFICES ASSUME NEW n \in ran'
                 PROVE  \/ Holds(rows', Results(n))
                        \/ gen'.pc = "ask" /\ gen'.node = "calls" /\ Last'.no = n
      BY DEF Kept
    <3>1. CASE n \in ran
      <4>1. Kept /\ rows' = rows /\ gen.pc = "next"
        BY <2>1 DEF Inv
      <4> QED BY <3>1, <4>1 DEF Kept
    <3>2. CASE asked /\ n = Last.no
      BY <2>5, <2>7, <2>9, <3>2
    <3> QED BY <2>1, <3>1, <3>2
  <2>13. Taken'
    <3>1. applied' = applied /\ shown' = shown /\ rows' = rows /\ gen'.pc # "off"
      BY <2>1, <2>5, <2>7
    <3>2. gen'.node \in {"request", "calls", "end"} => applied \subseteq shown
      BY <2>1, <2>2, <2>3, <2>5, <2>7 DEF Inv, Taken, Nodes
    <3> QED BY <2>1, <2>7, <3>1, <3>2 DEF Inv, Taken
  <2> QED BY <2>1, <2>6, <2>8, <2>10, <2>11, <2>12, <2>13 DEF Inv
<1> QED BY <1>2, <1>3

\* What may be stored after a reply.
LEMMA ReadyReply ==
  ASSUME NEW w \in Msgs, NEW r \in Message, Whole(w), r.kind = "reply"
  PROVE  /\ SafePart(w \o <<r>>) = IF Asking(r) THEN w ELSE w \o <<r>>
         /\ Whole(SafePart(w \o <<r>>))
<1>1. CASE Asking(r)
  BY <1>1, TailSafe
<1>2. CASE ~Asking(r)
  <2>1. <<r>> \in Msgs /\ Len(<<r>>) = 1 /\ <<r>>[1] = r
    BY RepliesOne
  <2>2. \A i \in 1..Len(<<r>>) : ~Asking(<<r>>[i]) /\ <<r>>[i].kind # "results"
    <3> SUFFICES ASSUME NEW i \in 1..Len(<<r>>)
                 PROVE  ~Asking(<<r>>[i]) /\ <<r>>[i].kind # "results"
      OBVIOUS
    <3>1. i = 1
      BY <2>1
    <3> QED BY <1>2, <2>1, <3>1
  <2>3. Whole(<<r>>)
    BY <2>1, <2>2, WholePlain
  <2>4. Whole(w \o <<r>>) /\ w \o <<r>> \in Msgs
    BY <2>1, <2>3, WholeJoin, ConcatProperties DEF Msgs
  <2> QED BY <1>2, <2>4, WholeSafe
<1> QED BY <1>1, <1>2

\* The model's reply: what is uncommitted is whole up to the reply.
LEMMA AskInv ==
  ASSUME Inv, Ask
  PROVE  Inv' /\ UNCHANGED rows
<1>1. PICK asks \in BOOLEAN : Answered(asks)
  BY DEF Ask
<1>2. /\ calls' = IF asks THEN calls + 1 ELSE calls
      /\ calls' <= MaxCalls
      /\ gen' = [gen EXCEPT !.pc = "commit", !.node = "request",
                   !.new = gen.new \o Answers \o <<Reply(replies', asks)>>]
  BY <1>1 DEF Answered
<1>3. /\ gen.pc = "ask" /\ replies' = replies + 1 /\ shown' = shown \cup PromptsOf(gen.base)
      /\ UNCHANGED <<rows, queue, active, running, outcome, client, ran, applied, notes,
                      begins, ops>>
  BY DEF Ask
<1> DEFINE L == Last
           r == Reply(replies', asks)
           x == Answers
           w == gen.buffer \o x
           y == <<r>>
<1>4. /\ L = Last /\ r = Reply(replies', asks) /\ w = gen.buffer \o x /\ y = <<r>>
      /\ (gen.node = "calls" => x = <<Results(L.no)>>) /\ (gen.node = "prompt" => x = <<>>)
  BY DEF Answers, Last
<1>5. /\ gen \in Gen /\ rows \in Msgs /\ replies \in Nat /\ gen.base \in Msgs /\ gen.new \in Msgs
      /\ gen.buffer \in Msgs /\ gen.node \in {"prompt", "calls"} /\ gen.seen = Len(gen.new)
      /\ \A n \in RepliesOf(rows) : n <= replies
      /\ Whole(gen.base) /\ gen.base # <<>>
      /\ gen.node = "prompt" => gen.buffer = <<>>
      /\ gen.node = "calls" => Asking(L) /\ gen.buffer = <<L>>
      /\ RepliesOf(gen.buffer) \cap RepliesOf(rows) = {}
      /\ \A n \in RepliesOf(gen.buffer) : n <= replies
  BY <1>3 DEF Inv, Table, Iteration, Buffered
<1>6. gen' = [gen EXCEPT !.pc = "commit", !.node = "request", !.new = (gen.new \o x) \o y]
  BY <1>2
<1> HIDE DEF L, r, x, w, y
<1>7. /\ r \in Message /\ r.kind = "reply" /\ r.no = replies + 1
      /\ y \in Msgs /\ Len(y) = 1 /\ y[1] = r /\ RepliesOf(y) = {replies + 1}
  <2>1. replies' \in Nat /\ replies' = replies + 1
    BY <1>3, <1>5
  <2>2. r \in Message /\ r.kind = "reply" /\ r.no = replies + 1
    BY <1>4, <2>1, Built
  <2> QED BY <1>4, <2>1, <2>2, RepliesOne
<1>8. gen.node = "calls" => L \in Message /\ L.no \in Nat
  <2> SUFFICES ASSUME gen.node = "calls" PROVE L \in Message /\ L.no \in Nat
    OBVIOUS
  <2>1. 1 \in 1..Len(gen.buffer) /\ gen.buffer[1] = L
    <3>1. gen.buffer = <<L>>
      BY <1>5
    <3> QED BY <3>1
  <2>2. L \in Message
    BY <1>5, <2>1, ElementOfSeq DEF Msgs
  <2> QED BY <2>2 DEF Message
<1>9. /\ x \in Msgs /\ RepliesOf(x) = {} /\ w \in Msgs /\ Whole(w)
      /\ gen.node = "calls" => Holds(w, Results(L.no))
  <2>1. CASE gen.node = "prompt"
    <3>1. x = <<>> /\ gen.buffer = <<>> /\ <<>> \in Msgs /\ RepliesOf(<<>>) = {}
      BY <1>4, <1>5, <1>7, <2>1, RepliesOne
    <3>2. w = <<>>
      BY <1>4, <3>1, ConcatEmptySeq DEF Msgs
    <3> QED BY <2>1, <3>1, <3>2 DEF Whole
  <2>2. CASE gen.node = "calls"
    <3>1. Results(L.no) \in Message /\ Results(L.no).kind = "results"
      BY <1>8, <2>2 DEF Results, Message
    <3>2. x = <<Results(L.no)>> /\ x \in Msgs /\ RepliesOf(x) = {}
      BY <1>4, <2>2, <3>1, RepliesOne
    <3>3. w = <<L, Results(L.no)>>
      <4>1. gen.buffer = <<L>>
        BY <1>5, <2>2
      <4>2. x = <<Results(L.no)>> /\ w = gen.buffer \o x
        BY <1>4, <2>2
      <4> QED BY <1>8, <2>2, <3>1, <4>1, <4>2, JoinsOnes
    <3>4. w \in Msgs
      BY <1>4, <1>5, <3>2, ConcatProperties DEF Msgs
    <3>5. Whole(w)
      BY <1>5, <1>8, <2>2, <3>3, WholePair
    <3>6. Holds(w, Results(L.no))
      <4>1. 2 \in 1..Len(w) /\ w[2] = Results(L.no)
        BY <3>3
      <4> QED BY <4>1 DEF Holds
    <3> QED BY <3>2, <3>4, <3>5, <3>6
  <2> QED BY <1>5, <2>1, <2>2
<1>10. RepliesOf(w) = RepliesOf(gen.buffer) /\ RepliesOf(w \o y) = RepliesOf(w) \cup {replies + 1}
  <2>1. RepliesOf(w) = RepliesOf(gen.buffer) \cup RepliesOf(x)
    BY <1>4, <1>5, <1>9, RepliesJoin
  <2>2. RepliesOf(w \o y) = RepliesOf(w) \cup RepliesOf(y)
    BY <1>7, <1>9, RepliesJoin
  <2> QED BY <1>7, <1>9, <2>1, <2>2
<1>11. /\ x \o y \in Msgs /\ gen.new \o (x \o y) = (gen.new \o x) \o y
      /\ gen.buffer \o (x \o y) = w \o y
      /\ gen.new \o x \in Msgs /\ (gen.new \o x) \o y \in Msgs
  <2>1. x \o y \in Msgs /\ gen.new \o x \in Msgs
    BY <1>5, <1>7, <1>9, Joins
  <2>2. (gen.new \o x) \o y \in Msgs
    BY <1>7, <2>1, Joins
  <2>3. (gen.new \o x) \o y = gen.new \o (x \o y)
    <3>1. gen.new \in Msgs /\ x \in Msgs /\ y \in Msgs
      BY <1>5, <1>7, <1>9
    <3> QED BY <3>1, JoinsThree
  <2>4. gen.buffer \o (x \o y) = w \o y
    <3>1. w \o y = (gen.buffer \o x) \o y
      BY <1>4
    <3>2. gen.buffer \in Msgs /\ x \in Msgs /\ y \in Msgs
      BY <1>5, <1>7, <1>9
    <3>3. (gen.buffer \o x) \o y = gen.buffer \o (x \o y)
      BY <3>2, JoinsThree
    <3> QED BY <3>1, <3>3
  <2> QED BY <2>1, <2>2, <2>3, <2>4
<1>12. /\ gen' \in Gen /\ gen'.pc = "commit" /\ gen'.node = "request"
       /\ gen'.new = gen.new \o (x \o y) /\ gen'.base = gen.base /\ gen'.buffer = gen.buffer
       /\ gen'.seen = gen.seen /\ gen'.drained = gen.drained
  BY <1>5, <1>6, <1>11 DEF Gen, Msgs
<1>13. /\ gen'.new \in Msgs /\ Len(gen'.new) >= gen.seen
       /\ SubSeq(gen'.new, gen.seen + 1, Len(gen'.new)) = x \o y
  <2>1. SubSeq(gen'.new, Len(gen.new) + 1, Len(gen'.new)) = x \o y
    <3>1. gen'.new = gen.new \o (x \o y)
      BY <1>12
    <3>2. SubSeq(gen.new \o (x \o y), Len(gen.new) + 1, Len(gen.new \o (x \o y)))
            = x \o y
      BY <1>5, <1>11, JoinParts
    <3> QED BY <3>1, <3>2
  <2>2. gen'.new \in Msgs /\ Len(gen'.new) = Len(gen.new) + Len(x \o y)
    <3>1. gen'.new = gen.new \o (x \o y)
      BY <1>12
    <3>2. gen.new \in Msgs /\ x \o y \in Msgs
      BY <1>5, <1>11
    <3> QED BY <3>1, <3>2, Joins
  <2>3. Len(x \o y) \in Nat /\ Len(gen.new) \in Nat
    BY <1>5, <1>11, LenProperties DEF Msgs
  <2>4. gen.seen = Len(gen.new)
    BY <1>5
  <2>5. Len(gen'.new) >= Len(gen.new)
    <3> DEFINE a == Len(gen.new)
               b == Len(x \o y)
    <3>1. Len(gen'.new) = a + b /\ a \in Nat /\ b \in Nat
      BY <2>2, <2>3
    <3> HIDE DEF a, b
    <3>2. Len(gen'.new) >= a
      BY <3>1
    <3> QED BY <3>2 DEF a
  <2> QED BY <2>1, <2>2, <2>4, <2>5
<1>14. Uncommitted' = w \o y
  BY <1>11, <1>12, <1>13 DEF Uncommitted
<1>15. Last' = r
  <2>1. gen'.new # <<>> /\ LastOf(gen'.new) = r
    <3>1. LastOf(y) = r /\ y # <<>>
      <4>1. Len(<<>>) = 0
        OBVIOUS
      <4> QED BY <1>7, <4>1 DEF LastOf
    <3>2. gen'.new = (gen.new \o x) \o y
      BY <1>11, <1>12
    <3> QED BY <1>7, <1>11, <3>1, <3>2, LastJoin
  <2>2. LastOf(gen'.base \o gen'.new) = r
    BY <1>5, <1>12, <1>13, <2>1, LastJoin
  <2> QED BY <2>2 DEF Last, Context
<1>16. Typed'
  <2>1. calls' \in 0..MaxCalls /\ shown' \subseteq Nat
    <3>1. PromptsOf(gen.base) \subseteq Nat
      <4>1. \A i \in 1..Len(gen.base) : gen.base[i] \in Message
        BY <1>5, ElementOfSeq DEF Msgs
      <4> QED BY <4>1 DEF PromptsOf, Message
    <3>2. calls' \in 0..MaxCalls
      BY <1>2 DEF Inv, Typed
    <3> QED BY <1>3, <3>1, <3>2 DEF Inv, Typed
  <2> QED BY <1>3, <2>1 DEF Inv, Typed
<1>17. Table' /\ Iteration'
  <2>1. Table'
    <3>1. /\ rows \in Msgs /\ Whole(rows) /\ replies \in Nat /\ rows # <<>>
          /\ \A n \in RepliesOf(rows) : n <= replies /\ n \in Nat
      <4>1. \A i \in 1..Len(rows) : rows[i] \in Message
        BY <1>5, ElementOfSeq DEF Msgs
      <4>2. \A n \in RepliesOf(rows) : n \in Nat
        BY <4>1 DEF RepliesOf, Message
      <4> QED BY <1>3, <4>2 DEF Inv, Table
    <3> QED BY <1>3, <3>1 DEF Table
  <2>2. gen'.drained \in Seq(Notes) /\ gen'.seen \in Nat
    BY <1>12 DEF Inv, Iteration
  <2>3. Iteration'
    BY <1>5, <1>12, <1>13, <2>2 DEF Iteration, Nodes
  <2> QED BY <2>1, <2>3
<1>18. Buffered'
  BY <1>12 DEF Buffered
<1>19. Replied'
  <2>1. replies + 1 \notin RepliesOf(rows) /\ replies + 1 \notin RepliesOf(w)
    BY <1>5, <1>10
  <2>2. RepliesOf(w \o y) \cap RepliesOf(rows') = {}
    BY <1>3, <1>5, <1>10, <2>1
  <2>3. \A n \in RepliesOf(w \o y) : n <= replies'
    <3>1. \A n \in RepliesOf(w) : n \in Nat
      <4>1. \A i \in 1..Len(w) : w[i] \in Message
        BY <1>9, ElementOfSeq DEF Msgs
      <4> QED BY <4>1 DEF RepliesOf, Message
    <3> QED BY <1>3, <1>5, <1>10, <3>1
  <2> QED BY <1>4, <1>7, <1>9, <1>12, <1>14, <1>15, <2>1, <2>2, <2>3 DEF Replied
<1>20. Kept'
  <2> SUFFICES ASSUME NEW n \in ran
               PROVE  Holds(rows, Results(n)) \/ Holds(Ready', Results(n))
    BY <1>3, <1>12 DEF Kept
  <2>1. Holds(rows, Results(n)) \/ (gen.node = "calls" /\ L.no = n)
    BY <1>4, <1>3 DEF Inv, Kept
  <2>2. ASSUME gen.node = "calls", L.no = n PROVE Holds(Ready', Results(n))
    <3>1. Ready' = SafePart(w \o y)
      BY <1>14 DEF Ready
    <3>2. Ready' = w \/ Ready' = w \o y
      BY <1>4, <1>7, <1>9, <3>1, ReadyReply
    <3>3. Holds(w, Results(n)) /\ Holds(w \o y, Results(n))
      BY <1>7, <1>9, <2>2, HoldsJoin
    <3> QED BY <3>2, <3>3
  <2> QED BY <2>1, <2>2
<1>21. Taken'
  <2>1. applied \subseteq shown'
    <3>1. \A n \in applied : n \in Nat /\ Holds(gen.base, Prompt(n))
      BY <1>3 DEF Inv, Typed, Taken, Notes
    <3>2. \A n \in applied : n \in PromptsOf(gen.base)
      BY <1>5, <3>1, HoldsPrompt
    <3> QED BY <1>3, <3>2
  <2> QED BY <1>3, <1>12, <2>1 DEF Inv, Taken
<1> QED BY <1>3, <1>12, <1>16, <1>17, <1>18, <1>19, <1>20, <1>21 DEF Inv

\* A commit stores whole exchanges and keeps a reply that asks in the buffer.
LEMMA CommitInv ==
  ASSUME Inv, Commit
  PROVE  Inv' /\ [T!Extend]_rows
<1>1. /\ gen.pc = "commit" /\ rows' = rows \o Ready
      /\ gen' = [gen EXCEPT !.pc = "drain", !.seen = Len(gen.new),
                   !.buffer = SubSeq(Uncommitted, Len(Ready) + 1, Len(Uncommitted))]
      /\ UNCHANGED <<queue, active, running, outcome, client, ran, shown, applied, counters>>
  BY DEF Commit
<1>2. PICK w \in Msgs, r \in Message :
        /\ Uncommitted = w \o <<r>> /\ Last = r /\ r.kind = "reply" /\ Whole(w)
        /\ r.no \notin RepliesOf(w)
        /\ RepliesOf(w \o <<r>>) \cap RepliesOf(rows) = {}
        /\ \A n \in RepliesOf(w \o <<r>>) : n <= replies
  BY <1>1 DEF Inv, Replied
<1> DEFINE y == <<r>>
           u == w \o y
<1>3. /\ y \in Msgs /\ y # <<>> /\ RepliesOf(y) = {r.no} /\ y = <<r>> /\ u = w \o y
      /\ <<>> \in Msgs /\ RepliesOf(<<>>) = {}
  BY <1>2, RepliesOne, EmptySeq
<1>4. Uncommitted = u
  BY <1>2
<1>5. Ready = (IF Asking(r) THEN w ELSE u) /\ Whole(Ready)
  BY <1>2, ReadyReply DEF Ready
<1>6. RepliesOf(u) \cap RepliesOf(rows) = {} /\ \A n \in RepliesOf(u) : n <= replies
  BY <1>2
<1> HIDE DEF y, u
<1>7. u \in Msgs /\ RepliesOf(u) = RepliesOf(w) \cup {r.no}
  BY <1>2, <1>3, Joins, RepliesJoin
<1>8. SubSeq(Uncommitted, Len(Ready) + 1, Len(Uncommitted)) = IF Asking(r) THEN y ELSE <<>>
  <2>1. CASE Asking(r)
    <3>1. SubSeq(w \o y, Len(w) + 1, Len(w \o y)) = y
      BY <1>2, <1>3, JoinParts
    <3> QED BY <1>3, <1>4, <1>5, <2>1, <3>1
  <2>2. CASE ~Asking(r)
    <3>1. Len(u) \in Nat
      BY <1>7, LenProperties DEF Msgs
    <3>2. SubSeq(u, Len(u) + 1, Len(u)) = <<>>
      BY <3>1, SubSeqEmpty
    <3> QED BY <1>4, <1>5, <2>2, <3>2
  <2> QED BY <2>1, <2>2
<1>9. /\ Ready \in Msgs /\ RepliesOf(Ready) \subseteq RepliesOf(u)
      /\ RepliesOf(Ready) \cap RepliesOf(rows) = {}
      /\ Asking(r) => r.no \notin RepliesOf(Ready)
  BY <1>2, <1>5, <1>6, <1>7
<1>10. /\ rows \in Msgs /\ Whole(rows) /\ rows # <<>>
       /\ rows' \in Msgs /\ Whole(rows') /\ [T!Extend]_rows /\ rows' # <<>>
       /\ RepliesOf(rows') = RepliesOf(rows) \cup RepliesOf(Ready)
       /\ \A m : Holds(rows, m) => Holds(rows', m)
       /\ \A m : Holds(Ready, m) => Holds(rows', m)
  <2>1. rows \in Msgs /\ Whole(rows) /\ rows # <<>>
    BY <1>1 DEF Inv, Table
  <2> QED BY <1>1, <1>5, <1>9, <2>1, Added
<1>11. /\ gen \in Gen /\ gen.base \in Msgs /\ gen.new \in Msgs /\ gen.node = "request"
       /\ gen.drained \in Seq(Notes) /\ Whole(gen.base) /\ gen.base # <<>>
  BY <1>1 DEF Inv, Iteration, Replied
<1>12. Len(gen.new) \in Nat
  BY <1>11, LenProperties DEF Msgs
<1>13. gen' = [gen EXCEPT !.pc = "drain", !.seen = Len(gen.new),
                          !.buffer = IF Asking(r) THEN y ELSE <<>>]
  BY <1>1, <1>8
<1>14. /\ gen' \in Gen /\ gen'.pc = "drain" /\ gen'.node = gen.node /\ gen'.base = gen.base
       /\ gen'.new = gen.new /\ gen'.seen = Len(gen.new) /\ gen'.drained = gen.drained
       /\ gen'.buffer = (IF Asking(r) THEN y ELSE <<>>)
  <2>1. (IF Asking(r) THEN y ELSE <<>>) \in Seq(Message)
    BY <1>3 DEF Msgs
  <2> HIDE DEF y
  <2> QED BY <1>11, <1>12, <1>13, <2>1 DEF Gen
<1>15. Typed'
  BY <1>1 DEF Inv, Typed, counters
<1>16. Table'
  <2>1. replies' = replies /\ replies \in Nat /\ \A n \in RepliesOf(rows) : n <= replies
    BY <1>1 DEF Inv, Table, counters
  <2> QED BY <1>6, <1>9, <1>10, <2>1 DEF Table
<1>17. Iteration'
  BY <1>3, <1>11, <1>12, <1>14 DEF Iteration, Nodes
<1>18. Buffered' /\ Replied'
  <2>1. Last' = r /\ replies' = replies
    BY <1>1, <1>2, <1>14 DEF Last, Context, counters
  <2>2. RepliesOf(gen'.buffer) \cap RepliesOf(rows') = {}
    BY <1>3, <1>6, <1>7, <1>9, <1>10, <1>14
  <2>3. \A n \in RepliesOf(gen'.buffer) : n <= replies
    BY <1>3, <1>6, <1>7, <1>14
  <2> QED BY <1>3, <1>11, <1>14, <2>1, <2>2, <2>3 DEF Buffered, Replied
<1>19. Kept'
  BY <1>1, <1>10 DEF Inv, Kept
<1>20. Taken'
  BY <1>1, <1>10, <1>11, <1>14 DEF Inv, Taken
<1> QED BY <1>10, <1>14, <1>15, <1>16, <1>17, <1>18, <1>19, <1>20 DEF Inv

\* Storing what was injected: the iteration restarts from a whole table.
LEMMA StoreInv ==
  ASSUME BoundsAssumption, Inv, Store
  PROVE  Inv' /\ [T!Extend]_rows
<1> DEFINE d == gen.drained
           b == [i \in 1..Len(d) |-> Prompt(d[i])]
<1>1. /\ gen.pc = "store" /\ rows' = rows \o b /\ gen' = Started(rows')
      /\ applied' = applied \cup {d[i] : i \in 1..Len(d)}
      /\ UNCHANGED <<queue, active, running, outcome, client, ran, shown, counters>>
  BY DEF Store
<1>2. d \in Seq(Notes) /\ d # <<>> /\ rows \in Msgs /\ Whole(rows)
  BY <1>1 DEF Inv, Iteration, Table
<1> HIDE DEF d
<1>3. b \in Msgs /\ Len(b) = Len(d) /\ \A i \in 1..Len(d) : b[i] = Prompt(d[i])
  BY <1>2, PromptsBuilt
<1> HIDE DEF b
<1>4. /\ Whole(b) /\ RepliesOf(b) = {} /\ b # <<>> /\ LastOf(b).kind = "prompt"
      /\ \A i \in 1..Len(d) : d[i] \in Notes /\ Holds(b, Prompt(d[i]))
  BY <1>2, <1>3, PromptsMade
<1>5. /\ rows' \in Msgs /\ Whole(rows') /\ [T!Extend]_rows /\ RepliesOf(rows') = RepliesOf(rows)
      /\ \A m : Holds(rows', m) <=> Holds(rows, m) \/ Holds(b, m)
      /\ rows' # <<>> /\ LastOf(rows').kind = "prompt"
  BY <1>1, <1>2, <1>3, <1>4, Added
<1>6. SafePart(rows') = rows'
  BY <1>5, WholeSafe
<1>7. /\ gen' \in Gen /\ gen'.pc = "next" /\ gen'.node = "start" /\ gen'.base = rows'
      /\ gen'.new = <<>> /\ gen'.buffer = <<>> /\ gen'.drained = <<>> /\ gen'.seen = 0
  BY <1>1, <1>5, <1>6, StartedGen
<1>8. Typed'
  BY <1>1, <1>4 DEF Inv, Typed, counters
<1>9. <<>> \in Msgs /\ Len(<<>>) = 0 /\ <<>> \in Seq(Notes) /\ RepliesOf(<<>>) = {}
  BY DEF Msgs, RepliesOf
<1>10. Table' /\ Iteration'
  BY <1>1, <1>5, <1>7, <1>9 DEF Inv, Table, Iteration, Nodes, counters
<1>11. Buffered' /\ Replied'
  BY <1>7, <1>9 DEF Buffered, Replied
<1>12. Kept'
  BY <1>1, <1>5 DEF Inv, Kept
<1>13. Taken'
  <2>1. \A n \in applied' : Holds(rows', Prompt(n))
    BY <1>1, <1>4, <1>5 DEF Inv, Taken
  <2> QED BY <1>5, <1>7, <2>1 DEF Taken
<1> QED BY <1>5, <1>7, <1>8, <1>10, <1>11, <1>12, <1>13 DEF Inv

\* At the end nothing is left to commit.
LEMMA ReturnInv ==
  ASSUME BoundsAssumption, Inv, Return
  PROVE  Inv' /\ UNCHANGED rows
<1>1. /\ gen.pc = "next" /\ gen.node = "end" /\ rows' = rows \o Ready /\ gen' = Off
      /\ running' = FALSE /\ outcome' = "returned"
      /\ UNCHANGED <<queue, active, client, ran, shown, applied, counters>>
  BY DEF Return
<1>2. gen.buffer = <<>> /\ gen.seen = Len(gen.new) /\ gen.new \in Msgs
  BY <1>1 DEF Inv, Buffered, Iteration
<1>3. <<>> \in Msgs /\ Whole(<<>>) /\ <<>> \o <<>> = <<>> /\ Len(<<>>) = 0 /\ <<>> \in Seq(Notes)
      /\ RepliesOf(<<>>) = {}
  BY DEF Msgs, Whole, RepliesOf
<1>4. Uncommitted = <<>>
  <2>1. Len(gen.new) \in Nat
    BY <1>2, LenProperties DEF Msgs
  <2>2. SubSeq(gen.new, Len(gen.new) + 1, Len(gen.new)) = <<>>
    BY <2>1, SubSeqEmpty
  <2> QED BY <1>2, <1>3, <2>2 DEF Uncommitted
<1>5. Ready = <<>>
  BY <1>3, <1>4, WholeSafe DEF Ready
<1>6. rows' = rows
  BY <1>1, <1>5, ConcatEmptySeq DEF Inv, Table, Msgs
<1>7. gen'.pc = "off" /\ gen'.node = "start" /\ gen'.base = <<>> /\ gen'.new = <<>>
      /\ gen'.buffer = <<>> /\ gen'.drained = <<>> /\ gen'.seen = 0 /\ gen' \in Gen
  BY <1>1 DEF Off, Gen
<1>8. Typed'
  BY <1>1 DEF Inv, Typed, counters
<1>9. Table' /\ Iteration'
  BY <1>1, <1>3, <1>6, <1>7 DEF Inv, Table, Iteration, Nodes, counters
<1>10. Buffered' /\ Replied'
  BY <1>7 DEF Buffered, Replied
<1>11. Kept' /\ Taken'
  BY <1>1, <1>6, <1>7 DEF Inv, Kept, Taken
<1> QED BY <1>6, <1>7, <1>8, <1>9, <1>10, <1>11 DEF Inv

\* Every step.
LEMMA StepInv ==
  ASSUME BoundsAssumption, Inv, [Next]_vars
  PROVE  Inv' /\ [T!Extend]_rows
<1>1. CASE Activate \/ Deactivate \/ Interrupted \/ Crash
  BY <1>1, RunInv
<1>2. CASE Begin
  BY <1>2, BeginInv
<1>3. CASE Advance \/ Drain
  BY <1>3, WalkInv
<1>4. CASE Ask
  BY <1>4, AskInv
<1>5. CASE Commit
  BY <1>5, CommitInv
<1>6. CASE Store
  BY <1>6, StoreInv
<1>7. CASE Return
  BY <1>7, ReturnInv
<1>8. CASE \E c \in Clients : Inject(c) \/ FollowUp(c) \/ FollowUpSubagent(c) \/ Enqueue(c)
  BY <1>8, ClientInv
<1>9. CASE UNCHANGED vars
  <2>1. Typed'
    BY <1>9 DEF Inv, Typed, vars, counters
  <2>2. UNCHANGED <<rows, gen, outcome, ran, shown, applied, replies>>
    BY <1>9 DEF vars, counters
  <2> QED BY <2>1, <2>2, AsideInv
<1> QED BY <1>1, <1>2, <1>3, <1>4, <1>5, <1>6, <1>7, <1>8, <1>9 DEF Next, Generate

\* The inductive invariant holds in every state: what is in the table, in the buffer and
\* among the new messages of generate() (providers/llm.py) always adds up to whole exchanges.
THEOREM HistoryInvariant == Spec => []Inv
<1>1. Init => Inv
  BY InitInv, BoundsAssumption
<1>2. Inv /\ [Next]_vars => Inv'
  BY StepInv, BoundsAssumption
<1> QED BY <1>1, <1>2, PTL DEF Spec

\* Every variable keeps its kind; generate() never counts more messages as seen than there are.
THEOREM HistoryTypes == Spec => []TypeOK
<1>1. Inv => TypeOK
  BY DEF Inv, Typed, Table, Iteration, TypeOK, Msgs
<1> QED BY <1>1, HistoryInvariant, PTL

\* generate(), the clients and crashes write to the table only as Transcript allows: whole
\* exchanges at its end, no reply twice (MessageRepository, _filter_to_safe_boundary).
THEOREM HistoryKeeps == Spec => KeepsTranscript
<1>1. Init => T!Init
  BY DEF Init, T!Init
<1>2. Inv /\ [Next]_vars => [T!Extend]_rows
  BY StepInv, BoundsAssumption
<1> QED BY <1>1, <1>2, HistoryInvariant, PTL DEF Spec, KeepsTranscript, T!Spec

\* The results of a tool that ran reach the table unless the execution is interrupted:
\* the calls that a commit holds back wait in the buffer until their results come.
THEOREM HistoryResults == Spec => []ResultsKept
<1>1. Inv => ResultsKept
  BY DEF Inv, Kept, ResultsKept, Holds
<1> QED BY <1>1, HistoryInvariant, PTL

\* An agent that returns was shown every note that was taken from its queue: each restart
\* after an injection asks the model again, with the table as it is then.
THEOREM HistoryShown == Spec => []AppliedShown
<1>1. Inv => AppliedShown
  BY DEF Inv, Taken, AppliedShown
<1> QED BY <1>1, HistoryInvariant, PTL

(***************************************************************************)
(* The history of the iteration.                                           *)
(***************************************************************************)
\* What is stored and what is uncommitted are, prompts aside, what the iteration started
\* with and what is new since; only replies and results are uncommitted.
History ==
  gen.pc # "off" =>
    /\ Unprompted(rows) \o Uncommitted = Unprompted(gen.base) \o gen.new
    /\ Spoken(Uncommitted)

\* Nothing is uncommitted when an iteration starts.
LEMMA HistoryStarts ==
  ASSUME rows' \in Msgs, Whole(rows'), gen' = Started(rows')
  PROVE  History'
<1>1. SafePart(rows') = rows'
  BY WholeSafe
<1>2. gen'.base = rows' /\ gen'.new = <<>> /\ gen'.buffer = <<>> /\ gen'.seen = 0
  BY <1>1, StartedGen
<1>3. Uncommitted' = <<>>
  <2>1. Len(gen'.new) = 0
    BY <1>2
  <2>2. SubSeq(gen'.new, 1, 0) = <<>>
    BY SubSeqEmpty
  <2>3. gen'.buffer \o SubSeq(gen'.new, gen'.seen + 1, Len(gen'.new)) = <<>> \o <<>>
    BY <1>2, <2>1, <2>2
  <2> QED BY <2>3 DEF Uncommitted
<1>4. Spoken(<<>>)
  BY DEF Spoken
<1> QED BY <1>2, <1>3, <1>4 DEF History

\* Steps that leave the iteration's messages alone and add only prompts to the table.
LEMMA HistoryStays ==
  ASSUME History, rows \in Msgs, NEW b \in Msgs, \A i \in 1..Len(b) : b[i].kind = "prompt",
         rows' = rows \o b \/ rows' = rows,
         gen'.pc # "off" => gen.pc # "off", gen'.base = gen.base, gen'.new = gen.new,
         gen'.buffer = gen.buffer, gen'.seen = gen.seen
  PROVE  History'
<1>1. Unprompted(rows') = Unprompted(rows)
  <2>1. CASE rows' = rows \o b
    <3>1. Unprompted(rows') = Unprompted(rows) \o Unprompted(b)
      BY <2>1, UnpromptedJoin
    <3>2. Unprompted(b) = <<>> /\ Unprompted(rows) \in Msgs
      BY UnpromptedPrompts, UnpromptedMsgs
    <3> QED BY <3>1, <3>2, ConcatEmptySeq DEF Msgs
  <2>2. CASE rows' = rows
    BY <2>2
  <2> QED BY <2>1, <2>2
<1>2. Uncommitted' = Uncommitted
  BY DEF Uncommitted
<1> QED BY <1>1, <1>2 DEF History

\* One prompt.
LEMMA OnePrompt ==
  ASSUME NEW n \in Nat
  PROVE  <<Prompt(n)>> \in Msgs /\ \A i \in 1..Len(<<Prompt(n)>>) : <<Prompt(n)>>[i].kind = "prompt"
<1> DEFINE p == Prompt(n)
<1>1. p \in Message /\ p.kind = "prompt"
  BY BuiltPrompt
<1> HIDE DEF p
<1>2. <<p>> \in Msgs /\ Len(<<p>>) = 1 /\ <<p>>[1] = p
  BY <1>1 DEF Msgs
<1>3. \A i \in 1..Len(<<p>>) : <<p>>[i].kind = "prompt"
  <2> TAKE i \in 1..Len(<<p>>)
  <2>1. i = 1
    BY <1>2
  <2> QED BY <1>1, <1>2, <2>1
<1> QED BY <1>2, <1>3 DEF p

\* A reply, after the results it was asked with.
LEMMA HistoryAsk ==
  ASSUME Inv, History, Ask
  PROVE  History'
<1>1. PICK asks \in BOOLEAN : Answered(asks)
  BY DEF Ask
<1>2. /\ gen.pc = "ask" /\ rows' = rows /\ replies' = replies + 1
      /\ gen' = [gen EXCEPT !.pc = "commit", !.node = "request",
                   !.new = (gen.new \o Answers) \o <<Reply(replies', asks)>>]
  BY <1>1 DEF Ask, Answered
<1>3. /\ gen \in Gen /\ rows \in Msgs /\ gen.base \in Msgs /\ gen.new \in Msgs /\ replies \in Nat
      /\ gen.buffer \in Msgs /\ gen.node \in {"prompt", "calls"} /\ gen.seen = Len(gen.new)
      /\ gen.node = "calls" => Asking(Last) /\ gen.buffer = <<Last>>
  BY <1>2 DEF Inv, Table, Iteration, Buffered
<1> DEFINE y == <<Reply(replies', asks)>>
           z == Answers \o y
<1>4. y \in Msgs /\ Len(y) = 1 /\ y[1] = Reply(replies', asks) /\ y[1].kind = "reply"
  <2>1. replies' \in Nat
    BY <1>2, <1>3
  <2>2. Reply(replies', asks) \in Message /\ Reply(replies', asks).kind = "reply"
    BY <2>1, Built
  <2> QED BY <2>2, RepliesOne
<1>5. Answers \in Msgs /\ Spoken(Answers)
  <2>1. CASE gen.node = "prompt"
    BY <2>1 DEF Answers, Spoken, Msgs
  <2>2. CASE gen.node = "calls"
    <3>1. Last.no \in Nat
      <4>1. Len(<<Last>>) = 1 /\ <<Last>>[1] = Last
        OBVIOUS
      <4>2. 1 \in 1..Len(gen.buffer) /\ gen.buffer[1] = Last
        <5>1. gen.buffer = <<Last>>
          BY <1>3, <2>2
        <5> QED BY <4>1, <5>1
      <4>3. Last \in Message
        BY <1>3, <4>2, ElementOfSeq DEF Msgs
      <4> QED BY <4>3 DEF Message
    <3>2. Results(Last.no) \in Message /\ Results(Last.no).kind = "results"
      BY <3>1 DEF Results, Message
    <3>3. Answers = <<Results(Last.no)>>
      BY <2>2 DEF Answers, Last
    <3>4. Answers \in Msgs /\ Len(Answers) = 1 /\ Answers[1] = Results(Last.no)
      BY <3>2, <3>3, RepliesOne
    <3>5. \A i \in 1..Len(Answers) : i = 1
      BY <3>4
    <3> QED BY <3>2, <3>4, <3>5 DEF Spoken
  <2> QED BY <1>3, <2>1, <2>2
<1>6. (gen.new \o Answers) \o y = gen.new \o z
  <2> HIDE DEF y
  <2>1. gen.new \in Msgs /\ Answers \in Msgs /\ y \in Msgs
    BY <1>3, <1>4, <1>5
  <2> QED BY <2>1, JoinsAll
<1> HIDE DEF y
<1>7. z \in Msgs /\ Spoken(z)
  <2>1. \A i \in 1..Len(y) : i = 1
    BY <1>4
  <2>2. Spoken(y)
    BY <1>4, <2>1 DEF Spoken
  <2> QED BY <1>4, <1>5, <2>2, Joins, SpokenJoin
<1>8. gen'.base = gen.base /\ gen'.buffer = gen.buffer /\ gen'.seen = gen.seen
      /\ gen'.new = gen.new \o z /\ gen'.pc = "commit"
  <2>1. gen' = [gen EXCEPT !.pc = "commit", !.node = "request", !.new = gen.new \o z]
    BY <1>2, <1>6 DEF y
  <2> HIDE DEF z
  <2> QED BY <1>3, <2>1 DEF Gen
<1> HIDE DEF z
<1>9. Uncommitted = gen.buffer
  <2>1. SubSeq(gen.new, gen.seen + 1, Len(gen.new)) = <<>>
    BY <1>3, TailEmpty
  <2> QED BY <1>3, <2>1, ConcatEmptySeq DEF Uncommitted, Msgs
<1>10. Uncommitted' = gen.buffer \o z
  <2>1. SubSeq(gen.new \o z, Len(gen.new) + 1, Len(gen.new \o z)) = z
    BY <1>3, <1>7, JoinParts
  <2> QED BY <1>3, <1>8, <2>1 DEF Uncommitted
<1>11. /\ Unprompted(rows) \o gen.buffer = Unprompted(gen.base) \o gen.new
       /\ Spoken(gen.buffer)
  BY <1>2, <1>9 DEF History
<1>12. Unprompted(rows) \in Msgs /\ Unprompted(gen.base) \in Msgs
  BY <1>3, UnpromptedMsgs
<1>13. Unprompted(rows) \o (gen.buffer \o z) = (Unprompted(rows) \o gen.buffer) \o z
  <2>1. Unprompted(rows) \in Msgs /\ gen.buffer \in Msgs /\ z \in Msgs
    BY <1>3, <1>7, <1>12
  <2> QED BY <2>1, JoinsAll
<1>14. (Unprompted(gen.base) \o gen.new) \o z = Unprompted(gen.base) \o (gen.new \o z)
  <2>1. Unprompted(gen.base) \in Msgs /\ gen.new \in Msgs /\ z \in Msgs
    BY <1>3, <1>7, <1>12
  <2> QED BY <2>1, JoinsAll
<1>15. Spoken(gen.buffer \o z)
  BY <1>3, <1>7, <1>11, SpokenJoin
<1> QED BY <1>2, <1>8, <1>10, <1>11, <1>13, <1>14, <1>15 DEF History

\* A commit moves the beginning of what is uncommitted to the table.
LEMMA HistoryCommit ==
  ASSUME Inv, History, Commit
  PROVE  History'
<1>1. /\ gen.pc = "commit" /\ rows' = rows \o Ready
      /\ gen' = [gen EXCEPT !.pc = "drain", !.seen = Len(gen.new),
                   !.buffer = SubSeq(Uncommitted, Len(Ready) + 1, Len(Uncommitted))]
  BY DEF Commit
<1>2. PICK w \in Msgs, r \in Message :
        Uncommitted = w \o <<r>> /\ r.kind = "reply" /\ Whole(w)
  BY <1>1 DEF Inv, Replied
<1>3. rows \in Msgs /\ gen \in Gen /\ gen.base \in Msgs /\ gen.new \in Msgs
  BY DEF Inv, Table, Iteration
<1> DEFINE y == <<r>>
           rest == IF Asking(r) THEN y ELSE <<>>
<1>4. y \in Msgs /\ <<>> \in Msgs /\ w \o y \in Msgs
  BY RepliesOne, Joins
<1>5. Ready = IF Asking(r) THEN w ELSE w \o y
  BY <1>2, ReadyReply DEF Ready
<1> HIDE DEF y
<1>6. Ready \in Msgs /\ rest \in Msgs /\ Uncommitted = Ready \o rest
  <2>1. (w \o y) \o <<>> = w \o y
    BY <1>4, ConcatEmptySeq DEF Msgs
  <2> QED BY <1>2, <1>4, <1>5, <2>1 DEF y
<1> HIDE DEF rest
<1>7. SubSeq(Uncommitted, Len(Ready) + 1, Len(Uncommitted)) = rest
  BY <1>6, JoinParts
<1>8. gen'.base = gen.base /\ gen'.new = gen.new /\ gen'.buffer = rest
      /\ gen'.seen = Len(gen.new) /\ gen'.pc = "drain"
  BY <1>1, <1>3, <1>7 DEF Gen
<1>9. Uncommitted' = rest
  <2>1. SubSeq(gen.new, Len(gen.new) + 1, Len(gen.new)) = <<>>
    BY <1>3, TailEmpty
  <2> QED BY <1>6, <1>8, <2>1, ConcatEmptySeq DEF Uncommitted, Msgs
<1>10. Spoken(Ready) /\ Spoken(rest)
  BY <1>1, <1>6, SpokenJoin DEF History
<1>11. Unprompted(rows') = Unprompted(rows) \o Ready
  BY <1>1, <1>3, <1>6, <1>10, UnpromptedJoin, UnpromptedSpoken
<1>12. (Unprompted(rows) \o Ready) \o rest = Unprompted(rows) \o (Ready \o rest)
  <2>1. Unprompted(rows) \in Msgs
    BY <1>3, UnpromptedMsgs
  <2> QED BY <1>6, <2>1, JoinsAll
<1> QED BY <1>1, <1>6, <1>8, <1>9, <1>10, <1>11, <1>12 DEF History

\* Every step keeps the history.
LEMMA HistoryStep ==
  ASSUME BoundsAssumption, Inv, Inv', History, [Next]_vars
  PROVE  History'
<1>1. rows \in Msgs /\ Whole(rows) /\ gen \in Gen /\ rows' \in Msgs /\ Whole(rows')
  BY DEF Inv, Table
<1>2. <<>> \in Msgs /\ \A i \in 1..Len(<<>>) : <<>>[i].kind = "prompt"
  BY DEF Msgs
<1>3. SafePart(rows) = rows
  BY <1>1, WholeSafe
<1>4. \A n \in Notes : n \in Nat
  BY DEF Notes
<1>5. CASE Activate \/ Deactivate \/ Advance \/ Drain \/ UNCHANGED vars
  <2>1. rows' = rows
    BY <1>5 DEF Activate, Deactivate, Advance, Drain, vars
  <2>2. /\ gen'.pc # "off" => gen.pc # "off"
        /\ gen'.base = gen.base /\ gen'.new = gen.new
        /\ gen'.buffer = gen.buffer /\ gen'.seen = gen.seen
    <3>1. CASE Activate \/ Deactivate \/ UNCHANGED vars
      BY <3>1 DEF Activate, Deactivate, vars
    <3>2. CASE Drain
      BY <1>1, <3>2 DEF Drain, Gen
    <3>3. CASE Advance
      <4>1. gen.pc = "next" /\ gen.node \in Nodes /\ gen.node # "end"
        BY <3>3 DEF Advance, Inv, Iteration
      <4>2. \E node, pc : gen' = [gen EXCEPT !.node = node, !.pc = pc]
        BY <3>3, <4>1 DEF Advance, At, Nodes
      <4> QED BY <1>1, <4>1, <4>2 DEF Gen
    <3> QED BY <1>5, <3>1, <3>2, <3>3
  <2> QED BY <1>1, <1>2, <2>1, <2>2, HistoryStays
<1>6. CASE Begin \/ Store
  <2>1. gen' = Started(rows')
    BY <1>6 DEF Begin, Store
  <2> QED BY <1>1, <2>1, HistoryStarts
<1>7. CASE Ask
  BY <1>7, HistoryAsk
<1>8. CASE Commit
  BY <1>8, HistoryCommit
<1>9. CASE Return \/ Interrupted \/ Crash
  <2>1. gen'.pc = "off"
    BY <1>9 DEF Return, Interrupted, Crash, Off
  <2> QED BY <2>1 DEF History
<1>10. CASE \E c \in Clients : Inject(c) \/ FollowUp(c) \/ FollowUpSubagent(c) \/ Enqueue(c)
  <2>1. gen' = gen
    BY <1>10 DEF Inject, FollowUp, FollowUpSubagent, Enqueue
  <2>2. rows' = rows \/ \E n \in Notes : rows' = rows \o <<Prompt(n)>>
    BY <1>3, <1>10 DEF Inject, FollowUp, FollowUpSubagent, Prompted, Pruned, Enqueue
  <2>3. CASE rows' = rows
    BY <1>1, <1>2, <2>1, <2>3, HistoryStays
  <2>4. ASSUME NEW n \in Notes, rows' = rows \o <<Prompt(n)>> PROVE History'
    <3>1. n \in Nat
      BY <1>4
    <3> QED BY <1>1, <2>1, <2>4, <3>1, OnePrompt, HistoryStays
  <2> QED BY <2>2, <2>3, <2>4
<1> QED BY <1>5, <1>6, <1>7, <1>8, <1>9, <1>10 DEF Next, Generate

\* While an agent runs, the table and the buffer hold what the model was shown and said, in
\* that order: no restart after an injection repeats or loses a reply (generate(), llm.py).
THEOREM HistorySeen == Spec => []SeesItsHistory
<1>1. Init => History
  BY DEF Init, Off, History
<1>2. Inv /\ Inv' /\ History /\ [Next]_vars => History'
  BY HistoryStep, BoundsAssumption
<1>3. Inv /\ History => SeesItsHistory
  <2> SUFFICES ASSUME Inv, History, gen.pc \in {"next", "ask", "drain", "store"}
               PROVE  Unprompted(rows) \o gen.buffer = Unprompted(gen.base) \o gen.new
    BY DEF SeesItsHistory
  <2>1. gen.new \in Msgs /\ gen.buffer \in Msgs /\ gen.seen = Len(gen.new)
    BY DEF Inv, Iteration, Buffered
  <2>2. SubSeq(gen.new, gen.seen + 1, Len(gen.new)) = <<>>
    BY <2>1, TailEmpty
  <2>3. Uncommitted = gen.buffer
    BY <2>1, <2>2, ConcatEmptySeq DEF Uncommitted, Msgs
  <2> QED BY <2>3 DEF History
<1> QED BY <1>1, <1>2, <1>3, HistoryInvariant, PTL DEF Spec
=============================================================================
