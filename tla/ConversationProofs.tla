------------------------- MODULE ConversationProofs -------------------------
(***************************************************************************)
(* What a process remembers, what it stored and what a restart finds stay   *)
(* consistent: for any processes and sessions, any number of turns and any   *)
(* bounds on messages and summaries.                                         *)
(*                                                                           *)
(* Messages are trimmed at the front, collapsed in the middle and dropped at *)
(* the end; the rows they are compared with are the places of one session    *)
(* among all.  So the lemmas come first: a subsequence is told by the places *)
(* it keeps, numbered in order.  Then four invariants, each on the ones      *)
(* before: Typed (and where a turn's messages stand), WrittenInv (the file   *)
(* has what its writer remembers), Proper (questions and answers alternate), *)
(* Agreed (how messages and rows differ at each point of a turn), which      *)
(* needs Alone: two agents in one session have parted.                       *)
(***************************************************************************)
EXTENDS Conversation, TLAPS, FiniteSetTheorems, SequenceTheorems

-----------------------------------------------------------------------------
(* Places of a sequence *)

\* How many of the places are not after k, and the one that i of them are not after.
Rank(places, k) == Cardinality({j \in places : j <= k})
Place(places, i) == CHOOSE k \in places : Rank(places, k) = i

\* The places are numbered in their order, without gaps.
LEMMA Ranks ==
    ASSUME NEW n \in Nat, NEW places \in SUBSET (1 .. n)
    PROVE  /\ IsFiniteSet(places) /\ Cardinality(places) \in Nat
           /\ \A k \in places : Rank(places, k) \in 1 .. Cardinality(places)
           /\ \A k, m \in places : k < m => Rank(places, k) < Rank(places, m)
           /\ \A i \in 1 .. Cardinality(places) : \E k \in places : Rank(places, k) = i
<1> DEFINE size == Cardinality(places)
           upto(k) == {j \in places : j <= k}
<1>1. IsFiniteSet(places) /\ size \in Nat
  <2>1. IsFiniteSet(1 .. n)
    <3>1. 1 \in Int /\ n \in Int OBVIOUS
    <3> QED BY <3>1, FS_Interval
  <2> QED BY <2>1, FS_Subset, FS_CardinalityType
<1>2. ASSUME NEW k \in places
      PROVE  /\ IsFiniteSet(upto(k)) /\ Cardinality(upto(k)) \in 1 .. size
             /\ Rank(places, k) = Cardinality(upto(k))
  <2>1. upto(k) \subseteq places /\ k \in upto(k) OBVIOUS
  <2>2. IsFiniteSet(upto(k)) /\ Cardinality(upto(k)) <= size
    <3> HIDE DEF upto
    <3> QED BY <1>1, <2>1, FS_Subset
  <2>3. Cardinality(upto(k)) \in Nat /\ Cardinality(upto(k)) # 0
    <3> HIDE DEF upto
    <3>1. upto(k) # {} BY <2>1
    <3> QED BY <2>2, <3>1, FS_CardinalityType, FS_EmptySet
  <2> QED BY <1>1, <2>2, <2>3 DEF Rank
<1>3. ASSUME NEW k \in places, NEW m \in places, k < m
      PROVE  Rank(places, k) < Rank(places, m)
  <2>1. upto(k) \subseteq upto(m) /\ m \in upto(m) /\ m \notin upto(k)
    <3>1. k \in Nat /\ m \in Nat /\ \A j \in places : j \in Nat OBVIOUS
    <3>2. \A j \in places : j <= k => j <= m BY <1>3, <3>1
    <3>3. m <= m /\ ~(m <= k) BY <1>3, <3>1
    <3> QED BY <3>2, <3>3
  <2>2. /\ IsFiniteSet(upto(m)) /\ Cardinality(upto(m)) \in Nat
        /\ Cardinality(upto(k)) \in Nat
        /\ Rank(places, m) = Cardinality(upto(m)) /\ Rank(places, k) = Cardinality(upto(k))
    BY <1>1, <1>2
  <2> HIDE DEF upto
  <2>3. Cardinality(upto(k)) <= Cardinality(upto(m)) /\ Cardinality(upto(m)) # Cardinality(upto(k))
    BY <2>1, <2>2, FS_Subset
  <2> QED BY <2>2, <2>3
<1>4. \A i \in 1 .. size : \E k \in places : Rank(places, k) = i
  <2> DEFINE rank == [k \in places |-> Rank(places, k)]
  <2>1. rank \in [places -> 1 .. size] BY <1>2
  <2>2. \A k, m \in places : rank[k] = rank[m] => k = m
    <3> SUFFICES ASSUME NEW k \in places, NEW m \in places, k # m PROVE rank[k] # rank[m]
      OBVIOUS
    <3>1. k < m \/ m < k OBVIOUS
    <3>2. rank[k] \in Nat /\ rank[m] \in Nat BY <2>1, <1>1
    <3> QED BY <1>3, <3>1, <3>2
  <2>3. rank \in Injection(places, 1 .. size) BY <2>1, <2>2 DEF Injection, IsInjective
  <2>4. IsFiniteSet(1 .. size) /\ Cardinality(1 .. size) = size
    <3>1. 1 \in Int /\ size \in Int BY <1>1
    <3>2. /\ IsFiniteSet(1 .. size)
          /\ Cardinality(1 .. size) = IF 1 > size THEN 0 ELSE size - 1 + 1
      BY <3>1, FS_Interval
    <3>3. (IF 1 > size THEN 0 ELSE size - 1 + 1) = size BY <1>1
    <3> QED BY <3>2, <3>3
  <2>5. rank \in Surjection(places, 1 .. size)
    <3> HIDE DEF rank
    <3> QED BY <2>3, <2>4, FS_Injection
  <2> QED BY <2>5 DEF Surjection
<1> QED BY <1>1, <1>2, <1>3, <1>4

LEMMA PlacesInOrder ==
    ASSUME NEW n \in Nat, NEW places \in SUBSET (1 .. n)
    PROVE  /\ Cardinality(places) \in Nat
           /\ \A i \in 1 .. Cardinality(places) :
                 Place(places, i) \in places /\ Rank(places, Place(places, i)) = i
           /\ \A k \in places : /\ Rank(places, k) \in 1 .. Cardinality(places)
                                /\ Place(places, Rank(places, k)) = k
           /\ \A i, j \in 1 .. Cardinality(places) : i < j => Place(places, i) < Place(places, j)
<1> DEFINE size == Cardinality(places)
<1>1. /\ size \in Nat
      /\ \A k \in places : Rank(places, k) \in 1 .. size
      /\ \A k, m \in places : k < m => Rank(places, k) < Rank(places, m)
      /\ \A i \in 1 .. size : \E k \in places : Rank(places, k) = i
  BY Ranks
<1>2. ASSUME NEW i \in 1 .. size
      PROVE  Place(places, i) \in places /\ Rank(places, Place(places, i)) = i
  <2>1. \E k \in places : Rank(places, k) = i BY <1>1
  <2> QED BY <2>1 DEF Place
<1> HIDE DEF size
<1>3. ASSUME NEW k \in places, NEW m \in places, Rank(places, k) = Rank(places, m) PROVE k = m
  <2>1. k \in Nat /\ m \in Nat /\ Rank(places, k) \in Nat BY <1>1
  <2>2. ~(k < m) /\ ~(m < k) BY <1>1, <1>3, <2>1
  <2> QED BY <2>1, <2>2
<1>4. \A k \in places : Place(places, Rank(places, k)) = k BY <1>1, <1>2, <1>3
<1>5. ASSUME NEW i \in 1 .. size, NEW j \in 1 .. size, i < j
      PROVE  Place(places, i) < Place(places, j)
  <2> DEFINE k == Place(places, i)
             m == Place(places, j)
  <2>1. k \in places /\ m \in places /\ Rank(places, k) = i /\ Rank(places, m) = j BY <1>2
  <2> HIDE DEF k, m
  <2>2. k \in Nat /\ m \in Nat /\ i \in Nat /\ j \in Nat BY <1>1, <2>1
  <2>3. k # m /\ ~(m < k) BY <1>1, <1>5, <2>1, <2>2
  <2>4. k < m BY <2>2, <2>3
  <2> QED BY <2>4 DEF k, m
<1> QED BY <1>1, <1>2, <1>4, <1>5 DEF size

LEMMA SubsequenceShape ==
    ASSUME NEW X, NEW s \in Seq(X), NEW places \in SUBSET (DOMAIN s)
    PROVE  /\ Subsequence(s, places) \in Seq(X)
           /\ Len(Subsequence(s, places)) = Cardinality(places)
           /\ DOMAIN Subsequence(s, places) = 1 .. Cardinality(places)
           /\ \A i \in 1 .. Cardinality(places) :
                 Subsequence(s, places)[i] = s[Place(places, i)]
<1>1. Len(s) \in Nat /\ DOMAIN s = 1 .. Len(s) OBVIOUS
<1> DEFINE size == Cardinality(places)
           picked == [i \in 1 .. size |-> s[Place(places, i)]]
<1>2. Subsequence(s, places) = picked
  BY DEF Subsequence, Place, Rank
<1>3. size \in Nat /\ \A i \in 1 .. size : Place(places, i) \in places
  BY <1>1, PlacesInOrder
<1>4. \A i \in 1 .. size : s[Place(places, i)] \in X BY <1>3
<1> HIDE DEF size
<1>5. picked \in Seq(X) /\ Len(picked) = size /\ DOMAIN picked = 1 .. size BY <1>3, <1>4
<1> QED BY <1>2, <1>5 DEF size

-----------------------------------------------------------------------------
(* The lists of messages *)

LEMMA Constants ==
    /\ MaxMessages \in Nat /\ MaxMessages > 0
    /\ SummaryCap \in Nat /\ SummaryCap > 0
    /\ MaxStarts \in Nat /\ MaxTurns \in Nat
BY ConversationAssumption DEF ConversationAssumption

\* The end of a sequence, no longer than n.
LEMMA KeepShape ==
    ASSUME NEW X, NEW s \in Seq(X), NEW n \in Nat
    PROVE  /\ Keep(s, n) \in Seq(X)
           /\ Len(Keep(s, n)) = IF Len(s) <= n THEN Len(s) ELSE n
           /\ \A i \in 1 .. Len(Keep(s, n)) : Keep(s, n)[i] = s[Len(s) - Len(Keep(s, n)) + i]
<1>1. Len(s) \in Nat /\ \A i \in 1 .. Len(s) : s[i] \in X OBVIOUS
<1>2. CASE Len(s) <= n
  <2>1. Keep(s, n) = s BY <1>2 DEF Keep
  <2> QED BY <1>1, <1>2, <2>1
<1>3. CASE ~(Len(s) <= n)
  <2> DEFINE first == Len(s) - n + 1
  <2>1. Keep(s, n) = SubSeq(s, first, Len(s)) BY <1>3 DEF Keep
  <2>2. first \in Int /\ first >= 1 /\ first <= Len(s) + 1 /\ Len(s) - first + 1 = n
    BY <1>1, <1>3
  <2>3. SubSeq(s, first, Len(s)) = [i \in 1 .. n |-> s[first + i - 1]]
    BY <1>1, <2>2
  <2>4. \A i \in 1 .. n : first + i - 1 \in 1 .. Len(s) /\ first + i - 1 = Len(s) - n + i
    BY <1>1, <1>3
  <2> HIDE DEF first
  <2>5. \A i \in 1 .. n : s[first + i - 1] \in X BY <1>1, <2>4
  <2>6. Keep(s, n) = [i \in 1 .. n |-> s[first + i - 1]] BY <2>1, <2>3
  <2>7. Keep(s, n) \in Seq(X) /\ Len(Keep(s, n)) = n BY <2>5, <2>6
  <2>8. \A i \in 1 .. n : Keep(s, n)[i] = s[Len(s) - n + i] BY <2>4, <2>6
  <2> QED BY <1>3, <2>7, <2>8
<1> QED BY <1>2, <1>3

LEMMA PrefixShape ==
    ASSUME NEW X, NEW s \in Seq(X), NEW n \in 0 .. Len(s)
    PROVE  /\ SubSeq(s, 1, n) \in Seq(X) /\ Len(SubSeq(s, 1, n)) = n
           /\ \A i \in 1 .. n : SubSeq(s, 1, n)[i] = s[i]
<1>1. Len(s) \in Nat /\ n \in Nat /\ n <= Len(s) /\ \A i \in 1 .. Len(s) : s[i] \in X OBVIOUS
<1>2. SubSeq(s, 1, n) = [i \in 1 .. n |-> s[i]] BY <1>1
<1>3. \A i \in 1 .. n : s[i] \in X BY <1>1
<1> QED BY <1>1, <1>2, <1>3

LEMMA JoinShape ==
    ASSUME NEW X, NEW s \in Seq(X), NEW t \in Seq(X)
    PROVE  /\ s \o t \in Seq(X) /\ Len(s \o t) = Len(s) + Len(t)
           /\ \A i \in 1 .. Len(s) : (s \o t)[i] = s[i]
           /\ \A i \in 1 .. Len(t) : (s \o t)[Len(s) + i] = t[i]
<1>1. Len(s) \in Nat /\ Len(t) \in Nat OBVIOUS
<1>2. s \o t \in Seq(X) /\ Len(s \o t) = Len(s) + Len(t) OBVIOUS
<1>3. \A i \in 1 .. Len(s) : (s \o t)[i] = s[i] BY <1>1
<1>4. \A i \in 1 .. Len(t) : (s \o t)[Len(s) + i] = t[i] BY <1>1
<1> QED BY <1>2, <1>3, <1>4

LEMMA TrimShape ==
    ASSUME NEW tr \in Transcript, Len(tr.summary) <= SummaryCap
    PROVE  /\ Trim(tr) \in Transcript /\ Within(Trim(tr))
           /\ Trim(tr).messages = Keep(tr.messages, MaxMessages)
<1> DEFINE ms == tr.messages
           excess == Len(ms) - MaxMessages
<1>1. ms \in Seq(Message) /\ tr.summary \in Seq(Message) /\ Len(ms) \in Nat
  BY DEF Transcript
<1>2. MaxMessages \in Nat /\ SummaryCap \in Nat BY Constants
<1>3. CASE excess <= 0
  <2>1. Trim(tr) = tr BY <1>3 DEF Trim
  <2>2. Len(ms) <= MaxMessages BY <1>1, <1>2, <1>3
  <2> QED BY <2>1, <2>2 DEF Keep, Within
<1>4. CASE ~(excess <= 0)
  <2> DEFINE out == SubSeq(ms, 1, excess)
             joined == tr.summary \o Keep(out, 10)
  <2>1. excess \in 0 .. Len(ms) BY <1>1, <1>2, <1>4
  <2>2. out \in Seq(Message) BY <1>1, <2>1, PrefixShape
  <2>3. Keep(out, 10) \in Seq(Message)
    <3> HIDE DEF out
    <3>1. 10 \in Nat OBVIOUS
    <3> QED BY <2>2, <3>1, KeepShape
  <2>4. joined \in Seq(Message)
    <3> HIDE DEF out
    <3> QED BY <1>1, <2>3
  <2>5. Trim(tr) = [messages |-> Keep(ms, MaxMessages), summary |-> Keep(joined, SummaryCap)]
    BY <1>4 DEF Trim
  <2> HIDE DEF joined
  <2>6. /\ Keep(joined, SummaryCap) \in Seq(Message)
        /\ Len(Keep(joined, SummaryCap)) = IF Len(joined) <= SummaryCap THEN Len(joined) ELSE SummaryCap
    BY <1>2, <2>4, KeepShape
  <2> HIDE DEF ms
  <2>7. /\ Keep(ms, MaxMessages) \in Seq(Message)
        /\ Len(Keep(ms, MaxMessages)) = IF Len(ms) <= MaxMessages THEN Len(ms) ELSE MaxMessages
    BY <1>1, <1>2, KeepShape
  <2>8. Len(joined) \in Nat BY <2>4
  <2>9. /\ Len(Keep(joined, SummaryCap)) <= SummaryCap
        /\ Len(Keep(ms, MaxMessages)) <= MaxMessages
    BY <1>1, <1>2, <2>6, <2>7, <2>8
  <2>10. Trim(tr).messages = Keep(ms, MaxMessages) BY <2>5
  <2>11. Trim(tr) \in Transcript /\ Within(Trim(tr))
    BY <2>5, <2>6, <2>7, <2>9 DEF Transcript, Within
  <2> QED BY <2>10, <2>11 DEF ms
<1> QED BY <1>3, <1>4

\* Messages are added at the end and leave at the front.
LEMMA WithShape ==
    ASSUME NEW tr \in Transcript, Within(tr), NEW ms \in Seq(Message)
    PROVE  /\ With(tr, ms) \in Transcript /\ Within(With(tr, ms))
           /\ With(tr, ms).messages = Keep(tr.messages \o ms, MaxMessages)
<1> DEFINE grown == [tr EXCEPT !.messages = @ \o ms]
<1>1. tr.messages \o ms \in Seq(Message) BY DEF Transcript
<1>2. /\ grown \in Transcript
      /\ grown.messages = tr.messages \o ms /\ grown.summary = tr.summary
  BY <1>1 DEF Transcript
<1>3. With(tr, ms) = Trim(grown) BY DEF With
<1>4. Len(grown.summary) <= SummaryCap BY <1>2 DEF Within
<1> HIDE DEF grown
<1>5. /\ Trim(grown) \in Transcript /\ Within(Trim(grown))
      /\ Trim(grown).messages = Keep(grown.messages, MaxMessages)
  BY <1>2, <1>4, TrimShape
<1> QED BY <1>2, <1>3, <1>5

\* No message of the user directly follows another, and the last message is an answer.
NoDouble(ms) == \A i \in 1 .. Len(ms) - 1 : ~(ms[i].role = "user" /\ ms[i + 1].role = "user")
Answered(ms) == ms # <<>> => ms[Len(ms)].role = "assistant"

LEMMA CleanParts ==
    ASSUME NEW ms, Answered(ms), NoDouble(ms)
    PROVE  Clean(ms)
BY DEF Answered, NoDouble, Clean, Last

LEMMA CollapseShape ==
    ASSUME NEW ms \in Seq(Message)
    PROVE  /\ Collapse(ms) \in Seq(Message) /\ Len(Collapse(ms)) <= Len(ms)
           /\ NoDouble(Collapse(ms))
<1> DEFINE superseded == {i \in 1 .. Len(ms) - 1 : ms[i].role = "user" /\ ms[i + 1].role = "user"}
           kept == DOMAIN ms \ superseded
           size == Cardinality(kept)
           c == Subsequence(ms, kept)
<1>1. Len(ms) \in Nat /\ DOMAIN ms = 1 .. Len(ms) OBVIOUS
<1>2. kept \subseteq 1 .. Len(ms) /\ kept \in SUBSET (DOMAIN ms) BY <1>1
<1>3. Collapse(ms) = c BY DEF Collapse
<1>4. size <= Len(ms)
  <2>1. 1 \in Int /\ Len(ms) \in Int BY <1>1
  <2>2. IsFiniteSet(1 .. Len(ms)) /\ Cardinality(1 .. Len(ms)) = IF 1 > Len(ms) THEN 0 ELSE Len(ms) - 1 + 1
    BY <2>1, FS_Interval
  <2>3. (IF 1 > Len(ms) THEN 0 ELSE Len(ms) - 1 + 1) = Len(ms) BY <1>1
  <2> HIDE DEF kept
  <2> QED BY <1>2, <2>2, <2>3, FS_Subset
<1>5. \A k \in kept : ~(k \in 1 .. Len(ms) - 1 /\ ms[k].role = "user" /\ ms[k + 1].role = "user")
  OBVIOUS
<1>6. \A k \in 1 .. Len(ms) : k \notin kept => ms[k].role = "user" BY <1>1
<1> HIDE DEF kept
<1>7. /\ c \in Seq(Message) /\ Len(c) = size
      /\ \A i \in 1 .. size : c[i] = ms[Place(kept, i)]
  BY <1>2, SubsequenceShape
<1>8. /\ size \in Nat
      /\ \A i \in 1 .. size : Place(kept, i) \in kept /\ Rank(kept, Place(kept, i)) = i
      /\ \A k \in kept : Rank(kept, k) \in 1 .. size /\ Place(kept, Rank(kept, k)) = k
      /\ \A i, j \in 1 .. size : i < j => Place(kept, i) < Place(kept, j)
  <2>1. kept \in SUBSET (1 .. Len(ms)) BY <1>2
  <2> QED BY <1>1, <2>1, PlacesInOrder
<1> HIDE DEF size, c
<1>9. NoDouble(c)
  <2> SUFFICES ASSUME NEW i \in 1 .. Len(c) - 1, c[i].role = "user", c[i + 1].role = "user"
               PROVE  FALSE
    BY DEF NoDouble
  <2> DEFINE k == Place(kept, i)
             m == Place(kept, i + 1)
  <2>1. i \in 1 .. size /\ i + 1 \in 1 .. size /\ i < i + 1 BY <1>7, <1>8
  <2>2. k \in kept /\ m \in kept /\ k < m /\ ms[k].role = "user" /\ ms[m].role = "user"
    BY <1>7, <1>8, <2>1
  <2>3. k \in 1 .. Len(ms) /\ m \in 1 .. Len(ms) BY <1>2, <2>2
  <2>4. \A x \in kept : ~(k < x /\ x < m)
    <3> SUFFICES ASSUME NEW x \in kept, k < x, x < m PROVE FALSE
      OBVIOUS
    <3>1. Rank(kept, x) \in 1 .. size /\ Place(kept, Rank(kept, x)) = x BY <1>8
    <3>2. x \in Nat /\ k \in Nat /\ m \in Nat BY <1>2, <2>3
    <3>3. Rank(kept, x) <= i \/ i + 1 <= Rank(kept, x) BY <1>8, <2>1, <3>1
    <3>4. CASE Rank(kept, x) <= i
      <4>1. x <= k
        <5>1. CASE Rank(kept, x) = i BY <3>1, <3>2, <5>1
        <5>2. CASE Rank(kept, x) < i BY <1>8, <2>1, <3>1, <3>2, <5>2
        <5> QED BY <1>8, <2>1, <3>1, <3>4, <5>1, <5>2
      <4> QED BY <3>2, <4>1
    <3>5. CASE i + 1 <= Rank(kept, x)
      <4>1. m <= x
        <5>1. CASE Rank(kept, x) = i + 1 BY <3>1, <3>2, <5>1
        <5>2. CASE i + 1 < Rank(kept, x) BY <1>8, <2>1, <3>1, <3>2, <5>2
        <5> QED BY <1>8, <2>1, <3>1, <3>5, <5>1, <5>2
      <4> QED BY <3>2, <4>1
    <3> QED BY <3>3, <3>4, <3>5
  <2> HIDE DEF k, m
  <2>5. k + 1 \in 1 .. Len(ms) /\ k \in 1 .. Len(ms) - 1 /\ (k + 1 = m \/ (k < k + 1 /\ k + 1 < m))
    BY <1>1, <2>2, <2>3
  <2>6. ms[k + 1].role = "user" BY <1>6, <2>2, <2>4, <2>5
  <2> QED BY <1>5, <2>2, <2>5, <2>6
<1> QED BY <1>3, <1>4, <1>7, <1>9

\* What RollbackTurn leaves: everything up to the last answer.
LEMMA RollbackShape ==
    ASSUME NEW ms \in Seq(Message)
    PROVE  \E n \in 0 .. Len(ms) :
              /\ RollbackTurn(ms) = SubSeq(ms, 1, n)
              /\ n # 0 => ms[n].role = "assistant"
              /\ \A i \in 1 .. Len(ms) : ms[i].role = "assistant" => i <= n
<1> DEFINE answered == {i \in 1 .. Len(ms) : ms[i].role = "assistant"}
           size == Cardinality(answered)
<1>1. Len(ms) \in Nat /\ answered \in SUBSET (1 .. Len(ms)) OBVIOUS
<1>2. \E n \in answered \cup {0} : \A i \in answered : i <= n
  <2>1. CASE answered = {} BY <2>1
  <2>2. CASE answered # {}
    <3> HIDE DEF answered
    <3>1. /\ size \in Nat
          /\ \A i \in 1 .. size : Place(answered, i) \in answered
          /\ \A k \in answered : Rank(answered, k) \in 1 .. size /\ Place(answered, Rank(answered, k)) = k
          /\ \A i, j \in 1 .. size : i < j => Place(answered, i) < Place(answered, j)
      BY <1>1, PlacesInOrder
    <3> HIDE DEF size
    <3>2. size \in 1 .. size BY <2>2, <3>1
    <3> DEFINE top == Place(answered, size)
    <3>3. top \in answered BY <3>1, <3>2
    <3>0. \A k \in answered : k \in Nat BY <1>1
    <3>4. \A k \in answered : k <= top
      <4> SUFFICES ASSUME NEW k \in answered PROVE k <= top
        OBVIOUS
      <4>1. k \in Nat /\ top \in Nat BY <3>0, <3>3
      <4>2. Rank(answered, k) \in 1 .. size /\ Place(answered, Rank(answered, k)) = k BY <3>1
      <4>3. CASE Rank(answered, k) = size BY <4>1, <4>2, <4>3
      <4>4. CASE Rank(answered, k) < size BY <3>1, <3>2, <4>1, <4>2, <4>4
      <4> QED BY <3>1, <4>2, <4>3, <4>4
    <3> QED BY <3>3, <3>4
  <2> QED BY <2>1, <2>2
<1> DEFINE n == CHOOSE n \in answered \cup {0} : \A i \in answered : i <= n
<1>3. n \in answered \cup {0} /\ \A i \in answered : i <= n BY <1>2
<1>4. RollbackTurn(ms) = SubSeq(ms, 1, n) BY DEF RollbackTurn
<1> HIDE DEF n
<1>5. n \in 0 .. Len(ms) /\ (n # 0 => ms[n].role = "assistant") BY <1>1, <1>3
<1> QED BY <1>3, <1>4, <1>5

LEMMA RollbackCleans ==
    ASSUME NEW ms \in Seq(Message)
    PROVE  /\ RollbackTurn(ms) \in Seq(Message) /\ Len(RollbackTurn(ms)) <= Len(ms)
           /\ Answered(RollbackTurn(ms))
           /\ NoDouble(ms) => NoDouble(RollbackTurn(ms))
<1>1. PICK n \in 0 .. Len(ms) :
          /\ RollbackTurn(ms) = SubSeq(ms, 1, n)
          /\ n # 0 => ms[n].role = "assistant"
  BY RollbackShape
<1> DEFINE r == SubSeq(ms, 1, n)
<1>2. r \in Seq(Message) /\ Len(r) = n /\ \A i \in 1 .. n : r[i] = ms[i] BY PrefixShape
<1> HIDE DEF r
<1>3. n \in Nat /\ Len(ms) \in Nat /\ n <= Len(ms) OBVIOUS
<1>4. Answered(r)
  <2>1. CASE n = 0 BY <1>2, <2>1 DEF Answered
  <2>2. CASE n # 0 BY <1>1, <1>2, <1>3, <2>2 DEF Answered
  <2> QED BY <2>1, <2>2
<1>5. ASSUME NoDouble(ms) PROVE NoDouble(r)
  <2> SUFFICES ASSUME NEW i \in 1 .. Len(r) - 1 PROVE ~(r[i].role = "user" /\ r[i + 1].role = "user")
    BY DEF NoDouble
  <2>1. i \in 1 .. n /\ i + 1 \in 1 .. n /\ i \in 1 .. Len(ms) - 1 BY <1>2, <1>3
  <2> QED BY <1>2, <1>5, <2>1 DEF NoDouble
<1> QED BY <1>1, <1>2, <1>3, <1>4, <1>5 DEF r

-----------------------------------------------------------------------------
(* Types *)

LEMMA LoadedShape ==
    ASSUME file # Torn => file \in Transcript /\ Within(file)
    PROVE  /\ Loaded \in Transcript /\ Within(Loaded) /\ NoDouble(Loaded.messages)
           /\ [Loaded EXCEPT !.messages = RollbackTurn(@)] \in Transcript
           /\ Within([Loaded EXCEPT !.messages = RollbackTurn(@)])
           /\ [Loaded EXCEPT !.messages = RollbackTurn(@)].messages = RollbackTurn(Loaded.messages)
<1>1. MaxMessages \in Nat /\ SummaryCap \in Nat BY Constants
<1>2. Loaded \in Transcript /\ Within(Loaded) /\ NoDouble(Loaded.messages)
  <2>1. CASE file = Torn
    <3>1. <<>> \in Seq(Message) /\ Len(<<>>) = 0 OBVIOUS
    <3>2. Loaded = [messages |-> <<>>, summary |-> <<>>] BY <2>1 DEF Loaded, Empty
    <3>3. NoDouble(<<>>) BY DEF NoDouble
    <3> QED BY <1>1, <3>1, <3>2, <3>3 DEF Transcript, Within
  <2>2. CASE file # Torn
    <3>1. file.messages \in Seq(Message) /\ Len(file.messages) <= MaxMessages
      BY <2>2 DEF Transcript, Within
    <3> DEFINE c == Collapse(file.messages)
    <3>2. c \in Seq(Message) /\ Len(c) <= Len(file.messages) /\ NoDouble(c)
      BY <3>1, CollapseShape
    <3>3. Loaded = [file EXCEPT !.messages = c] BY <2>2 DEF Loaded
    <3> HIDE DEF c
    <3>4. Len(c) \in Nat /\ Len(file.messages) \in Nat BY <3>1, <3>2
    <3>5. Len(c) <= MaxMessages BY <1>1, <3>1, <3>2, <3>4
    <3>6. Loaded \in Transcript /\ Loaded.messages = c /\ Loaded.summary = file.summary
      BY <2>2, <3>2, <3>3 DEF Transcript
    <3> QED BY <2>2, <3>2, <3>5, <3>6 DEF Within
  <2> QED BY <2>1, <2>2
<1> DEFINE ms == Loaded.messages
           r == RollbackTurn(ms)
<1>3. ms \in Seq(Message) /\ Len(ms) <= MaxMessages BY <1>2 DEF Transcript, Within
<1>4. r \in Seq(Message) /\ Len(r) <= Len(ms) BY <1>3, RollbackCleans
<1>5. [Loaded EXCEPT !.messages = RollbackTurn(@)] = [Loaded EXCEPT !.messages = r] OBVIOUS
<1> HIDE DEF r
<1>6. Len(r) \in Nat /\ Len(ms) \in Nat BY <1>3, <1>4
<1>7. Len(r) <= MaxMessages BY <1>1, <1>3, <1>4, <1>6
<1> HIDE DEF ms
<1>8. /\ [Loaded EXCEPT !.messages = r] \in Transcript
      /\ [Loaded EXCEPT !.messages = r].messages = r
      /\ [Loaded EXCEPT !.messages = r].summary = Loaded.summary
  BY <1>2, <1>4 DEF Transcript
<1>9. Within([Loaded EXCEPT !.messages = r]) BY <1>2, <1>7, <1>8 DEF Within
<1> QED BY <1>2, <1>5, <1>8, <1>9 DEF r, ms

\* Dropping messages at the end of a transcript.
LEMMA ShorterShape ==
    ASSUME NEW tr \in Transcript, Within(tr), NEW ms \in Seq(Message), Len(ms) <= Len(tr.messages)
    PROVE  /\ [tr EXCEPT !.messages = ms] \in Transcript
           /\ Within([tr EXCEPT !.messages = ms])
           /\ [tr EXCEPT !.messages = ms].messages = ms
<1>1. tr.messages \in Seq(Message) /\ Len(tr.messages) <= MaxMessages /\ Len(tr.summary) <= SummaryCap
  BY DEF Transcript, Within
<1>2. MaxMessages \in Nat /\ Len(ms) \in Nat /\ Len(tr.messages) \in Nat BY <1>1, Constants
<1>3. /\ [tr EXCEPT !.messages = ms] \in Transcript
      /\ [tr EXCEPT !.messages = ms].messages = ms
      /\ [tr EXCEPT !.messages = ms].summary = tr.summary
  BY DEF Transcript
<1>4. Len(ms) <= MaxMessages BY <1>1, <1>2
<1> QED BY <1>1, <1>3, <1>4 DEF Within

LEMMA TruncateShape ==
    ASSUME NEW ms \in Seq(Message), NEW drop \in 0 .. Len(ms)
    PROVE  TruncateTo(ms, Len(ms) - drop) = SubSeq(ms, 1, Len(ms) - drop)
<1>1. Len(ms) \in Nat /\ drop \in Nat /\ drop <= Len(ms) OBVIOUS
<1>2. (IF Len(ms) - drop < Len(ms) THEN Len(ms) - drop ELSE Len(ms)) = Len(ms) - drop BY <1>1
<1> QED BY <1>2 DEF TruncateTo

Row == [session : 1 .. MaxStarts, message : Message]

\* The rows of a session as messages, whatever the table.
OfRows(r, s) == {i \in DOMAIN r : r[i].session = s}
Story(r, s) == [i \in DOMAIN Subsequence(r, OfRows(r, s)) |-> Subsequence(r, OfRows(r, s))[i].message]

LEMMA StoryShape ==
    ASSUME NEW r \in Seq(Row), NEW s
    PROVE  LET size == Cardinality(OfRows(r, s))
           IN  /\ size \in Nat /\ Story(r, s) \in Seq(Message) /\ Len(Story(r, s)) = size
               /\ \A i \in 1 .. size : /\ Place(OfRows(r, s), i) \in OfRows(r, s)
                                       /\ Story(r, s)[i] = r[Place(OfRows(r, s), i)].message
<1> DEFINE own == OfRows(r, s)
           size == Cardinality(own)
           taken == Subsequence(r, own)
<1>1. Len(r) \in Nat /\ DOMAIN r = 1 .. Len(r) OBVIOUS
<1>2. own \in SUBSET (DOMAIN r) /\ own \in SUBSET (1 .. Len(r)) BY <1>1 DEF OfRows
<1> HIDE DEF own
<1>3. /\ taken \in Seq(Row) /\ Len(taken) = size /\ DOMAIN taken = 1 .. size
      /\ \A i \in 1 .. size : taken[i] = r[Place(own, i)]
  BY <1>2, SubsequenceShape
<1>4. size \in Nat /\ \A i \in 1 .. size : Place(own, i) \in own BY <1>1, <1>2, PlacesInOrder
<1> HIDE DEF taken, size
<1>5. Story(r, s) = [i \in 1 .. size |-> taken[i].message] BY <1>3 DEF Story, taken, own
<1>6. \A i \in 1 .. size : taken[i] \in Row BY <1>3, <1>4
<1>7. \A i \in 1 .. size : taken[i].message \in Message BY <1>6 DEF Row
<1>8. /\ Story(r, s) \in Seq(Message) /\ Len(Story(r, s)) = size
      /\ \A i \in 1 .. size : Story(r, s)[i] = taken[i].message
  BY <1>4, <1>5, <1>7
<1> QED BY <1>3, <1>4, <1>8 DEF size, own

LEMMA HistoryIsStory ==
    \A s : History(s) = Story(rows, s)
BY DEF History, Story, Of, OfRows

\* An agent that runs has a session of its own number or of an earlier one, a
\* process without an agent is doing nothing, and no row is of a later session.
Placed ==
    /\ \A p \in Proc : IF up[p] THEN session[p] \in 1 .. starts ELSE work[p] = Idle
    /\ \A i \in DOMAIN rows : rows[i].session <= starts

LEMMA Doing ==
    ASSUME TypeOK, NEW p \in Proc
    PROVE  /\ memory[p] \in Transcript /\ Within(memory[p])
           /\ memory[p].messages \in Seq(Message)
           /\ \A a \in {"asked", "answered", "stored"} : work[p].phase = a =>
                 /\ work[p].turn \in 1 .. MaxTurns /\ work[p].entry \in Entry
                 /\ User(work[p].turn) \in Message /\ Assistant(work[p].turn) \in Message
                 /\ \A b \in {"answered", "stored"} :
                       /\ [work[p] EXCEPT !.phase = b] \in Work
                       /\ [work[p] EXCEPT !.phase = b].phase = b
                       /\ [work[p] EXCEPT !.phase = b].turn = work[p].turn
           /\ work[p].phase = "undoing" => work[p].keep \in Nat
           /\ work[p].phase \in {"idle", "asked", "answered", "stored", "undoing"}
           /\ \A b \in Work : [work EXCEPT ![p] = b] \in [Proc -> Work]
           /\ Idle \in Work
<1>1. memory[p] \in Transcript /\ Within(memory[p]) /\ work[p] \in Work /\ work \in [Proc -> Work]
  BY DEF TypeOK
<1>2. ASSUME NEW a \in {"asked", "answered", "stored"}, work[p].phase = a
      PROVE  /\ work[p].turn \in 1 .. MaxTurns /\ work[p].entry \in Entry
             /\ User(work[p].turn) \in Message /\ Assistant(work[p].turn) \in Message
             /\ \A b \in {"answered", "stored"} :
                   /\ [work[p] EXCEPT !.phase = b] \in Work
                   /\ [work[p] EXCEPT !.phase = b].phase = b
                   /\ [work[p] EXCEPT !.phase = b].turn = work[p].turn
  <2>1. work[p] \in [phase : {"asked", "answered", "stored"}, turn : 1 .. MaxTurns, entry : Entry]
    BY <1>1, <1>2 DEF Work, Idle
  <2>2. User(work[p].turn) \in Message /\ Assistant(work[p].turn) \in Message
    BY <2>1 DEF User, Assistant, Message, Role
  <2>3. ASSUME NEW b \in {"answered", "stored"}
        PROVE  /\ [work[p] EXCEPT !.phase = b]
                     \in [phase : {"asked", "answered", "stored"}, turn : 1 .. MaxTurns, entry : Entry]
               /\ [work[p] EXCEPT !.phase = b].phase = b
               /\ [work[p] EXCEPT !.phase = b].turn = work[p].turn
    BY <2>1
  <2> QED BY <2>1, <2>2, <2>3 DEF Work
<1>3. work[p].phase = "undoing" => work[p].keep \in Nat BY <1>1 DEF Work, Idle
<1>4. work[p].phase \in {"idle", "asked", "answered", "stored", "undoing"} BY <1>1 DEF Work, Idle
<1>5. \A b \in Work : [work EXCEPT ![p] = b] \in [Proc -> Work]
  <2> HIDE DEF Work
  <2> QED BY <1>1
<1>6. Idle \in Work BY DEF Work
<1>7. memory[p].messages \in Seq(Message) BY <1>1 DEF Transcript
<1> QED BY <1>1, <1>2, <1>3, <1>4, <1>5, <1>6, <1>7

\* What a process remembers, and what it is doing, is its own.
LEMMA Others ==
    ASSUME TypeOK, NEW p \in Proc, NEW q \in Proc
    PROVE  /\ \A b : [work EXCEPT ![p] = b][q] = IF q = p THEN b ELSE work[q]
           /\ \A b : [session EXCEPT ![p] = b][q] = IF q = p THEN b ELSE session[q]
           /\ \A b : [up EXCEPT ![p] = b][q] = IF q = p THEN b ELSE up[q]
           /\ \A b : [memory EXCEPT ![p] = b][q] = IF q = p THEN b ELSE memory[q]
<1>1. /\ work \in [Proc -> Work] /\ session \in [Proc -> 0 .. MaxStarts]
      /\ up \in [Proc -> BOOLEAN] /\ memory \in [Proc -> Transcript]
  BY DEF TypeOK
<1> HIDE DEF Work, Transcript
<1> QED BY <1>1

LEMMA Own ==
    ASSUME TypeOK, NEW p \in Proc
    PROVE  /\ \A b : [work EXCEPT ![p] = b][p] = b
           /\ \A b : [session EXCEPT ![p] = b][p] = b
           /\ \A b : [up EXCEPT ![p] = b][p] = b
           /\ \A b : [memory EXCEPT ![p] = b][p] = b
<1>1. /\ p \in DOMAIN work /\ p \in DOMAIN session /\ p \in DOMAIN up /\ p \in DOMAIN memory
  BY DEF TypeOK
<1> QED BY <1>1

LEMMA SaveTyped ==
    ASSUME TypeOK, NEW p \in Proc, NEW tr \in Transcript, Within(tr), Save(p, tr)
    PROVE  /\ file' \in Transcript /\ Within(file')
           /\ memory' \in [Proc -> Transcript] /\ \A q \in Proc : Within(memory'[q])
           /\ memory'[p] = tr /\ \A q \in Proc \ {p} : memory'[q] = memory[q]
           /\ writer' \in {{}} \cup {{q} : q \in Proc}
<1>1. /\ memory' = [memory EXCEPT ![p] = tr] /\ file' = tr /\ writer' = {p}
      /\ memory \in [Proc -> Transcript] /\ \A q \in Proc : Within(memory[q])
  BY DEF Save, TypeOK
<1>2. memory'[p] = tr /\ \A q \in Proc \ {p} : memory'[q] = memory[q] BY <1>1
<1>3. memory' \in [Proc -> Transcript] BY <1>1
<1>4. \A q \in Proc : Within(memory'[q]) BY <1>1, <1>2
<1> QED BY <1>1, <1>2, <1>3, <1>4

\* What an operation writes to the messages.
LEMMA Written ==
    ASSUME TypeOK, NEW p \in Proc
    PROVE  /\ \A m \in Message :
                 /\ With(memory[p], <<m>>) \in Transcript /\ Within(With(memory[p], <<m>>))
                 /\ With(memory[p], <<m>>).messages = Keep(memory[p].messages \o <<m>>, MaxMessages)
           /\ \A n \in 0 .. Len(memory[p].messages) :
                 LET tr == [memory[p] EXCEPT !.messages = SubSeq(@, 1, n)]
                 IN  tr \in Transcript /\ Within(tr) /\ tr.messages = SubSeq(memory[p].messages, 1, n)
           /\ LET tr == [memory[p] EXCEPT !.messages = RollbackTurn(@)]
              IN  /\ tr \in Transcript /\ Within(tr)
                  /\ tr.messages = RollbackTurn(memory[p].messages)
           /\ Empty \in Transcript /\ Within(Empty) /\ Empty.messages = <<>>
<1> DEFINE ms == memory[p].messages
<1>1. memory[p] \in Transcript /\ Within(memory[p]) /\ ms \in Seq(Message) BY Doing
<1>2. ASSUME NEW m \in Message
      PROVE  /\ With(memory[p], <<m>>) \in Transcript /\ Within(With(memory[p], <<m>>))
             /\ With(memory[p], <<m>>).messages = Keep(ms \o <<m>>, MaxMessages)
  <2>1. <<m>> \in Seq(Message) OBVIOUS
  <2> QED BY <1>1, <2>1, WithShape
<1>3. ASSUME NEW n \in 0 .. Len(ms)
      PROVE  LET tr == [memory[p] EXCEPT !.messages = SubSeq(@, 1, n)]
             IN  tr \in Transcript /\ Within(tr) /\ tr.messages = SubSeq(ms, 1, n)
  <2> DEFINE r == SubSeq(ms, 1, n)
  <2>1. [memory[p] EXCEPT !.messages = SubSeq(@, 1, n)] = [memory[p] EXCEPT !.messages = r]
    OBVIOUS
  <2>2. r \in Seq(Message) /\ Len(r) = n BY <1>1, PrefixShape
  <2> HIDE DEF r
  <2>3. Len(r) <= Len(ms) BY <1>1, <2>2
  <2>4. /\ [memory[p] EXCEPT !.messages = r] \in Transcript
        /\ Within([memory[p] EXCEPT !.messages = r])
        /\ [memory[p] EXCEPT !.messages = r].messages = r
    BY <1>1, <2>2, <2>3, ShorterShape
  <2> QED BY <2>1, <2>4 DEF r
<1>4. LET tr == [memory[p] EXCEPT !.messages = RollbackTurn(@)]
      IN  tr \in Transcript /\ Within(tr) /\ tr.messages = RollbackTurn(ms)
  <2> DEFINE r == RollbackTurn(ms)
  <2>1. [memory[p] EXCEPT !.messages = RollbackTurn(@)] = [memory[p] EXCEPT !.messages = r]
    OBVIOUS
  <2>2. r \in Seq(Message) /\ Len(r) <= Len(ms) BY <1>1, RollbackCleans
  <2> HIDE DEF r
  <2>3. /\ [memory[p] EXCEPT !.messages = r] \in Transcript
        /\ Within([memory[p] EXCEPT !.messages = r])
        /\ [memory[p] EXCEPT !.messages = r].messages = r
    BY <1>1, <2>2, ShorterShape
  <2> QED BY <2>1, <2>3 DEF r
<1>5. Empty \in Transcript /\ Within(Empty) /\ Empty.messages = <<>>
  <2>1. <<>> \in Seq(Message) /\ Len(<<>>) = 0 OBVIOUS
  <2> QED BY <2>1, Constants DEF Empty, Transcript, Within
<1> QED BY <1>2, <1>3, <1>4, <1>5

LEMMA WrittenOne ==
    ASSUME TypeOK, NEW p \in Proc, NEW m \in Message
    PROVE  With(memory[p], <<m>>).messages = Keep(memory[p].messages \o <<m>>, MaxMessages)
<1> DEFINE added(x) == With(memory[p], <<x>>).messages
           kept(x) == Keep(memory[p].messages \o <<x>>, MaxMessages)
<1>1. \A x \in Message : added(x) = kept(x) BY Written
<1> HIDE DEF added, kept
<1>2. added(m) = kept(m) BY <1>1
<1> QED BY <1>2 DEF added, kept

LEMMA WrittenBack ==
    ASSUME TypeOK, NEW p \in Proc
    PROVE  [memory[p] EXCEPT !.messages = RollbackTurn(@)].messages
             = RollbackTurn(memory[p].messages)
BY Written

\* A question needs its answer dropped with it: two messages, one, or none.
LEMMA ExchangeLength ==
    ASSUME NEW ms \in Seq(Message)
    PROVE  LastExchange(ms) \in 0 .. Len(ms)
<1>1. Len(ms) \in Nat /\ (ms # <<>> => Len(ms) >= 1) OBVIOUS
<1>2. CASE ms = <<>> \/ Last(ms).role # "assistant"
  <2>1. LastExchange(ms) = 0 BY <1>2 DEF LastExchange
  <2> QED BY <1>1, <2>1
<1>3. CASE ~(ms = <<>> \/ Last(ms).role # "assistant") /\ Len(ms) >= 2 /\ ms[Len(ms) - 1].role = "user"
  <2>1. LastExchange(ms) = 2 BY <1>3 DEF LastExchange
  <2> QED BY <1>1, <1>3, <2>1
<1>4. CASE ~(ms = <<>> \/ Last(ms).role # "assistant") /\ ~(Len(ms) >= 2 /\ ms[Len(ms) - 1].role = "user")
  <2>1. LastExchange(ms) = 1 BY <1>4 DEF LastExchange
  <2> QED BY <1>1, <1>4, <2>1
<1> QED BY <1>2, <1>3, <1>4

LEMMA ResumedShape ==
    ASSUME NEW ms \in Seq(Message)
    PROVE  /\ With(Empty, ms) \in Transcript /\ Within(With(Empty, ms))
           /\ With(Empty, ms).messages = Keep(ms, MaxMessages)
<1>1. Empty \in Transcript /\ Within(Empty) /\ Empty.messages = <<>>
  <2>1. <<>> \in Seq(Message) /\ Len(<<>>) = 0 OBVIOUS
  <2> QED BY <2>1, Constants DEF Empty, Transcript, Within
<1>2. Empty.messages \o ms = ms BY <1>1
<1>3. /\ With(Empty, ms) \in Transcript /\ Within(With(Empty, ms))
      /\ With(Empty, ms).messages = Keep(Empty.messages \o ms, MaxMessages)
  BY <1>1, WithShape
<1> QED BY <1>2, <1>3

Typed == TypeOK /\ Placed

LEMMA TypedInit == Init => Typed
<1> SUFFICES ASSUME Init PROVE Typed
  OBVIOUS
<1>1. Empty \in Transcript /\ Within(Empty)
  <2>1. <<>> \in Seq(Message) /\ Len(<<>>) = 0 OBVIOUS
  <2> QED BY <2>1, Constants DEF Empty, Transcript, Within
<1>2. starts \in 0 .. MaxStarts /\ turns \in 0 .. MaxTurns BY Constants DEF Init
<1>3. \A p \in Proc : memory[p] = Empty BY DEF Init
<1>4. memory \in [Proc -> Transcript] /\ \A p \in Proc : Within(memory[p]) BY <1>1, <1>3 DEF Init
<1>5. work \in [Proc -> Work] BY DEF Init, Work
<1>6. session \in [Proc -> 0 .. MaxStarts] BY Constants DEF Init
<1>7. TypeOK BY <1>1, <1>2, <1>4, <1>5, <1>6 DEF Init, TypeOK
<1>8. Placed BY DEF Init, Placed
<1> QED BY <1>7, <1>8 DEF Typed

LEMMA RowAppended ==
    ASSUME TypeOK, NEW s \in 1 .. starts, NEW m \in Message, SaveMessage(s, m)
    PROVE  /\ rows' \in Seq(Row) /\ rows' = Append(rows, [session |-> s, message |-> m])
           /\ (\A i \in DOMAIN rows : rows[i].session <= starts)
                 => \A i \in DOMAIN rows' : rows'[i].session <= starts
<1>1. rows \in Seq(Row) /\ starts \in 0 .. MaxStarts BY DEF TypeOK, Row
<1> DEFINE row == [session |-> s, message |-> m]
<1>2. row \in Row BY <1>1, Constants DEF Row
<1>3. rows' = Append(rows, row) BY DEF SaveMessage
<1>4. row.session = s /\ s <= starts BY <1>1, Constants
<1> HIDE DEF row
<1>5. /\ rows' \in Seq(Row) /\ DOMAIN rows' = 1 .. Len(rows) + 1 /\ Len(rows) \in Nat
      /\ \A i \in 1 .. Len(rows) : i \in DOMAIN rows /\ rows'[i] = rows[i]
      /\ rows'[Len(rows) + 1] = row
  BY <1>1, <1>2, <1>3
<1> QED BY <1>3, <1>4, <1>5 DEF row

LEMMA RowsTrimmed ==
    ASSUME TypeOK, NEW s, NEW keep \in Nat, TrimSession(s, keep)
    PROVE  /\ rows' \in Seq(Row)
           /\ (\A i \in DOMAIN rows : rows[i].session <= starts)
                 => \A i \in DOMAIN rows' : rows'[i].session <= starts
<1>1. rows \in Seq(Row) /\ Len(rows) \in Nat /\ DOMAIN rows = 1 .. Len(rows) BY DEF TypeOK, Row
<1> DEFINE kept == DOMAIN rows \ Extra(s, keep)
           size == Cardinality(kept)
<1>2. rows' = Subsequence(rows, kept) /\ kept \in SUBSET (DOMAIN rows) BY DEF TrimSession
<1> HIDE DEF kept
<1>3. /\ rows' \in Seq(Row) /\ DOMAIN rows' = 1 .. size
      /\ \A i \in 1 .. size : rows'[i] = rows[Place(kept, i)]
  BY <1>1, <1>2, SubsequenceShape
<1>4. \A i \in 1 .. size : Place(kept, i) \in DOMAIN rows BY <1>1, <1>2, PlacesInOrder
<1> QED BY <1>3, <1>4

LEMMA TypedStep == Typed /\ [Next]_vars => Typed'
<1> SUFFICES ASSUME Typed, [Next]_vars PROVE Typed'
  OBVIOUS
<1> USE DEF Typed
<1>0. /\ rows \in Seq(Row) /\ starts \in 0 .. MaxStarts /\ turns \in 0 .. MaxTurns
      /\ file # Torn => file \in Transcript /\ Within(file)
      /\ up \in [Proc -> BOOLEAN] /\ session \in [Proc -> 0 .. MaxStarts]
      /\ memory \in [Proc -> Transcript] /\ \A q \in Proc : Within(memory[q])
      /\ work \in [Proc -> Work]
      /\ writer \in {{}} \cup {{q} : q \in Proc} /\ parted \subseteq Proc
  BY DEF TypeOK, Row
<1>a. ASSUME NEW p \in Proc, Start(p) PROVE Typed'
  <2> DEFINE tr == [Loaded EXCEPT !.messages = RollbackTurn(@)]
  <2>1. tr \in Transcript /\ Within(tr) BY <1>0, LoadedShape
  <2>2. /\ ~up[p] /\ starts < MaxStarts /\ starts' = starts + 1
        /\ up' = [up EXCEPT ![p] = TRUE] /\ session' = [session EXCEPT ![p] = starts']
        /\ UNCHANGED <<rows, turns, work, parted>>
    BY <1>a DEF Start
  <2>3. Save(p, tr) \/ (memory' = [memory EXCEPT ![p] = tr] /\ UNCHANGED <<file, writer>>)
    BY <1>a DEF Start
  <2> HIDE DEF tr
  <2>4. /\ file' # Torn => file' \in Transcript /\ Within(file')
        /\ memory' \in [Proc -> Transcript] /\ \A q \in Proc : Within(memory'[q])
        /\ writer' \in {{}} \cup {{q} : q \in Proc}
    <3>1. CASE Save(p, tr) BY <2>1, <3>1, SaveTyped
    <3>2. CASE memory' = [memory EXCEPT ![p] = tr] /\ UNCHANGED <<file, writer>>
      <4>1. memory' \in [Proc -> Transcript] BY <1>0, <2>1, <3>2
      <4>2. \A q \in Proc : memory'[q] = IF q = p THEN tr ELSE memory[q] BY <1>0, <3>2
      <4> QED BY <1>0, <2>1, <3>2, <4>1, <4>2
    <3> QED BY <2>3, <3>1, <3>2
  <2>5. starts' \in 0 .. MaxStarts /\ starts' \in 1 .. MaxStarts BY <1>0, <2>2, Constants
  <2>6. session' \in [Proc -> 0 .. MaxStarts] /\ up' \in [Proc -> BOOLEAN] BY <1>0, <2>2, <2>5
  <2>7. TypeOK' BY <1>0, <2>2, <2>4, <2>5, <2>6 DEF TypeOK, Row
  <2>8. Placed'
    <3>1. ASSUME NEW q \in Proc PROVE IF up'[q] THEN session'[q] \in 1 .. starts' ELSE work'[q] = Idle
      <4>1. CASE q = p
        <5>1. up'[q] /\ session'[q] = starts' BY <1>0, <2>2, <4>1
        <5> QED BY <2>5, <5>1
      <4>2. CASE q # p
        <5>1. up'[q] = up[q] /\ session'[q] = session[q] /\ work'[q] = work[q] BY <1>0, <2>2, <4>2
        <5>2. IF up[q] THEN session[q] \in 1 .. starts ELSE work[q] = Idle BY DEF Placed
        <5> QED BY <1>0, <2>2, <5>1, <5>2
      <4> QED BY <4>1, <4>2
    <3>2. ASSUME NEW i \in DOMAIN rows' PROVE rows'[i].session <= starts'
      <4>1. rows' = rows /\ rows[i] \in Row BY <1>0, <2>2, <3>2
      <4>2. rows[i].session <= starts /\ rows[i].session \in Nat BY <4>1, <3>2 DEF Placed, Row
      <4> QED BY <1>0, <2>2, <4>1, <4>2
    <3> QED BY <3>1, <3>2 DEF Placed
  <2> QED BY <2>7, <2>8
\* The operations of an agent that runs: where it is changes, or what it remembers.
<1>b. ASSUME NEW p \in Proc, up[p], NEW b \in Work, work' = [work EXCEPT ![p] = b],
             UNCHANGED <<starts, up, session>>,
             rows' \in Seq(Row) /\ \A i \in DOMAIN rows' : rows'[i].session <= starts,
             turns' \in 0 .. MaxTurns,
             parted' \subseteq Proc,
             UNCHANGED <<file, memory, writer>>
                \/ \E tr \in Transcript : Within(tr) /\ Save(p, tr)
      PROVE  Typed'
  <2>1. work' \in [Proc -> Work] BY <1>b, Doing
  <2>2. /\ file' # Torn => file' \in Transcript /\ Within(file')
        /\ memory' \in [Proc -> Transcript] /\ \A q \in Proc : Within(memory'[q])
        /\ writer' \in {{}} \cup {{q} : q \in Proc}
    <3>1. CASE UNCHANGED <<file, memory, writer>> BY <1>0, <3>1
    <3>2. CASE \E tr \in Transcript : Within(tr) /\ Save(p, tr) BY <3>2, SaveTyped
    <3> QED BY <1>b, <3>1, <3>2
  <2>3. TypeOK' BY <1>0, <1>b, <2>1, <2>2 DEF TypeOK, Row
  <2>4. \A q \in Proc : IF up'[q] THEN session'[q] \in 1 .. starts' ELSE work'[q] = Idle
    <3> TAKE q \in Proc
    <3>1. IF up[q] THEN session[q] \in 1 .. starts ELSE work[q] = Idle BY DEF Placed
    <3>2. CASE q = p BY <1>b, <3>1, <3>2
    <3>3. CASE q # p
      <4>1. work'[q] = work[q]
        <5> HIDE DEF Work
        <5> QED BY <1>0, <1>b, <3>3
      <4> QED BY <1>b, <3>1, <4>1
    <3> QED BY <3>2, <3>3
  <2>5. Placed' BY <1>b, <2>4 DEF Placed
  <2> QED BY <2>3, <2>5
<1>c. \A i \in DOMAIN rows : rows[i].session <= starts BY DEF Placed
<1>d. \A p \in Proc : up[p] => session[p] \in 1 .. starts BY DEF Placed
<1>e. ASSUME NEW p \in Proc, NEW e \in Entry, Ask(p, e) PROVE Typed'
  <2>1. /\ up[p] /\ turns < MaxTurns /\ turns' = turns + 1
        /\ Save(p, With(memory[p], <<User(turns')>>))
        /\ work' = [work EXCEPT ![p] = Turn("asked", turns', e)]
        /\ UNCHANGED <<rows, starts, up, session, parted>>
    BY <1>e DEF Ask, At
  <2>2. turns' \in 1 .. MaxTurns BY <1>0, <2>1, Constants
  <2>3. Turn("asked", turns', e) \in Work BY <2>2 DEF Turn, Work
  <2>4. User(turns') \in Message BY <2>2 DEF User, Message, Role
  <2>5. /\ With(memory[p], <<User(turns')>>) \in Transcript
        /\ Within(With(memory[p], <<User(turns')>>))
    BY <2>4, Written
  <2>6. turns' \in 0 .. MaxTurns BY <2>2, Constants
  <2> QED BY <1>0, <1>b, <1>c, <2>1, <2>3, <2>5, <2>6
<1>f. ASSUME NEW p \in Proc, Answer(p) PROVE Typed'
  <2>1. /\ up[p] /\ work[p].phase = "asked"
        /\ Save(p, With(memory[p], <<Assistant(work[p].turn)>>))
        /\ UNCHANGED <<rows, starts, turns, up, session>>
    BY <1>f DEF Answer, At
  <2>2. Assistant(work[p].turn) \in Message BY <2>1, Doing
  <2>3. /\ With(memory[p], <<Assistant(work[p].turn)>>) \in Transcript
        /\ Within(With(memory[p], <<Assistant(work[p].turn)>>))
    BY <2>2, Written
  <2>4. \E b \in Work : work' = [work EXCEPT ![p] = b] /\ parted' \subseteq Proc
    <3>1. CASE work[p].entry = "trace"
      <4>1. work' = [work EXCEPT ![p] = Idle] /\ parted' = parted \cup {p}
        BY <1>f, <3>1 DEF Answer
      <4>2. Idle \in Work BY Doing
      <4> QED BY <1>0, <4>1, <4>2
    <3>2. CASE work[p].entry # "trace"
      <4>1. /\ work' = [work EXCEPT ![p] = [work[p] EXCEPT !.phase = "answered"]]
            /\ parted' = parted
        BY <1>f, <3>2 DEF Answer
      <4>2. [work[p] EXCEPT !.phase = "answered"] \in Work BY <2>1, Doing
      <4> QED BY <1>0, <4>1, <4>2
    <3> QED BY <3>1, <3>2
  <2>5. turns' \in 0 .. MaxTurns BY <1>0, <2>1
  <2> QED BY <1>0, <1>b, <1>c, <2>1, <2>3, <2>4, <2>5
<1>g. ASSUME NEW p \in Proc, StoreUser(p) PROVE Typed'
  <2>1. /\ up[p] /\ work[p].phase = "answered"
        /\ SaveMessage(session[p], User(work[p].turn))
        /\ work' = [work EXCEPT ![p] = [work[p] EXCEPT !.phase = "stored"]]
        /\ UNCHANGED <<file, starts, turns, up, memory, session, writer, parted>>
    BY <1>g DEF StoreUser, At
  <2>2. User(work[p].turn) \in Message /\ [work[p] EXCEPT !.phase = "stored"] \in Work
    BY <2>1, Doing
  <2>3. session[p] \in 1 .. starts BY <1>d, <2>1
  <2>4. rows' \in Seq(Row) /\ \A i \in DOMAIN rows' : rows'[i].session <= starts
    BY <1>c, <2>1, <2>2, <2>3, RowAppended
  <2> QED BY <1>0, <1>b, <2>1, <2>2, <2>4
<1>h. ASSUME NEW p \in Proc, StoreAssistant(p) PROVE Typed'
  <2>1. /\ up[p] /\ work[p].phase = "stored"
        /\ SaveMessage(session[p], Assistant(work[p].turn))
        /\ work' = [work EXCEPT ![p] = Idle]
        /\ UNCHANGED <<file, starts, turns, up, memory, session, writer, parted>>
    BY <1>h DEF StoreAssistant, At
  <2>2. Assistant(work[p].turn) \in Message /\ Idle \in Work BY <2>1, Doing
  <2>3. session[p] \in 1 .. starts BY <1>d, <2>1
  <2>4. rows' \in Seq(Row) /\ \A i \in DOMAIN rows' : rows'[i].session <= starts
    BY <1>c, <2>1, <2>2, <2>3, RowAppended
  <2> QED BY <1>0, <1>b, <2>1, <2>2, <2>4
<1>i. ASSUME NEW p \in Proc, StoreFails(p) PROVE Typed'
  <2>1. /\ up[p] /\ work' = [work EXCEPT ![p] = Idle] /\ parted' = parted \cup {p}
        /\ UNCHANGED <<file, rows, starts, turns, up, memory, session, writer>>
    BY <1>i DEF StoreFails, At, disk
  <2>2. Idle \in Work BY Doing
  <2> QED BY <1>0, <1>b, <1>c, <2>1, <2>2
<1>j. ASSUME NEW p \in Proc, NEW raised \in {"error", "cancelled"}, Fail(p, raised) PROVE Typed'
  <2>1. /\ up[p] /\ work' = [work EXCEPT ![p] = Idle]
        /\ UNCHANGED <<rows, starts, turns, up, session>>
    BY <1>j DEF Fail, At
  <2>2. \/ Save(p, [memory[p] EXCEPT !.messages = RollbackTurn(@)]) /\ parted' = parted
        \/ parted' = parted \cup {p} /\ UNCHANGED <<file, memory, writer>>
    BY <1>j DEF Fail
  <2>3. /\ [memory[p] EXCEPT !.messages = RollbackTurn(@)] \in Transcript
        /\ Within([memory[p] EXCEPT !.messages = RollbackTurn(@)])
    BY Written
  <2>4. Idle \in Work BY Doing
  <2>5. parted' \subseteq Proc BY <1>0, <2>2
  <2> QED BY <1>0, <1>b, <1>c, <2>1, <2>2, <2>3, <2>4, <2>5
<1>k. ASSUME NEW p \in Proc, Clear(p) PROVE Typed'
  <2>1. /\ up[p] /\ Save(p, Empty)
        /\ UNCHANGED <<rows, starts, turns, up, session, work, parted>>
    BY <1>k DEF Clear, At
  <2>2. Empty \in Transcript /\ Within(Empty) BY Written
  <2>3. work[p] \in Work /\ work' = [work EXCEPT ![p] = work[p]]
    <3> HIDE DEF Work
    <3> QED BY <1>0, <2>1
  <2> QED BY <1>0, <1>b, <1>c, <2>1, <2>2, <2>3
<1>l. ASSUME NEW p \in Proc, UndoMessages(p) PROVE Typed'
  <2> DEFINE ms == memory[p].messages
             drop == LastExchange(ms)
             tr == [memory[p] EXCEPT !.messages = TruncateTo(ms, Len(ms) - drop)]
             keep == Len(History(session[p])) - 2
  <2>1. /\ up[p] /\ Len(History(session[p])) >= 2
        /\ IF drop > 0 THEN Save(p, tr) ELSE UNCHANGED <<file, memory, writer>>
        /\ work' = [work EXCEPT ![p] = Undoing(keep)]
        /\ UNCHANGED <<rows, starts, turns, up, session, parted>>
    BY <1>l DEF UndoMessages, At
  <2>2. ms \in Seq(Message) /\ drop \in 0 .. Len(ms) BY Doing, ExchangeLength
  <2>3. tr \in Transcript /\ Within(tr)
    <3>1. Len(ms) \in Nat /\ Len(ms) - drop \in 0 .. Len(ms) BY <2>2
    <3>2. TruncateTo(ms, Len(ms) - drop) = SubSeq(ms, 1, Len(ms) - drop)
      BY <2>2, TruncateShape
    <3>3. tr = [memory[p] EXCEPT !.messages = SubSeq(@, 1, Len(ms) - drop)] BY <3>2
    <3> HIDE DEF drop
    <3> QED BY <3>1, <3>3, Written
  <2>4. Undoing(keep) \in Work
    <3>1. Len(History(session[p])) \in Nat BY <1>0, HistoryIsStory, StoryShape
    <3>2. keep \in Nat BY <2>1, <3>1
    <3> QED BY <3>2 DEF Undoing, Work
  <2> HIDE DEF tr, keep, drop
  <2> QED BY <1>0, <1>b, <1>c, <2>1, <2>3, <2>4
<1>m. ASSUME NEW p \in Proc, UndoRows(p) PROVE Typed'
  <2>1. /\ up[p] /\ work[p].phase = "undoing" /\ TrimSession(session[p], work[p].keep)
        /\ work' = [work EXCEPT ![p] = Idle]
        /\ UNCHANGED <<file, starts, turns, up, memory, session, writer, parted>>
    BY <1>m DEF UndoRows, At
  <2>2. work[p].keep \in Nat /\ Idle \in Work BY <2>1, Doing
  <2>3. rows' \in Seq(Row) /\ \A i \in DOMAIN rows' : rows'[i].session <= starts
    BY <1>c, <2>1, <2>2, RowsTrimmed
  <2> QED BY <1>0, <1>b, <2>1, <2>2, <2>3
<1>n. ASSUME NEW p \in Proc, NEW s \in 1 .. starts, Resume(p, s) PROVE Typed'
  <2> DEFINE others == {q \in Proc \ {p} : up[q] /\ session[q] = s}
  <2>1. /\ up[p] /\ Save(p, With(Empty, History(s)))
        /\ session' = [session EXCEPT ![p] = s]
        /\ parted' \in {parted \ {p}, parted \cup others \cup {p}}
        /\ UNCHANGED <<rows, starts, turns, up, work>>
    BY <1>n DEF Resume, At
  <2>2. parted' \subseteq Proc BY <1>0, <2>1
  <2>3. History(s) \in Seq(Message) BY <1>0, HistoryIsStory, StoryShape
  <2>4. With(Empty, History(s)) \in Transcript /\ Within(With(Empty, History(s)))
    BY <2>3, ResumedShape
  <2> HIDE DEF others
  <2>5. /\ file' \in Transcript /\ Within(file')
        /\ memory' \in [Proc -> Transcript] /\ \A q \in Proc : Within(memory'[q])
        /\ writer' \in {{}} \cup {{q} : q \in Proc}
    BY <2>1, <2>4, SaveTyped
  <2>6. s \in 0 .. MaxStarts BY <1>0, Constants
  <2>7. session' \in [Proc -> 0 .. MaxStarts] BY <1>0, <2>1, <2>6
  <2>8. TypeOK' BY <1>0, <2>1, <2>2, <2>5, <2>7 DEF TypeOK, Row
  <2>9. ASSUME NEW q \in Proc PROVE IF up'[q] THEN session'[q] \in 1 .. starts' ELSE work'[q] = Idle
    <3>1. IF up[q] THEN session[q] \in 1 .. starts ELSE work[q] = Idle BY DEF Placed
    <3>2. session'[q] = IF q = p THEN s ELSE session[q] BY <1>0, <2>1
    <3> QED BY <2>1, <3>1, <3>2
  <2>10. Placed' BY <1>c, <2>1, <2>9 DEF Placed
  <2> QED BY <2>8, <2>10
<1>o. ASSUME NEW p \in Proc, Crash(p) PROVE Typed'
  <2>1. /\ up[p] /\ (file' = file \/ file' = Torn)
        /\ up' = [up EXCEPT ![p] = FALSE]
        /\ memory' = [memory EXCEPT ![p] = Empty]
        /\ session' = [session EXCEPT ![p] = 0]
        /\ work' = [work EXCEPT ![p] = Idle]
        /\ writer' = (IF file' = Torn THEN {} ELSE writer \ {p})
        /\ parted' = parted \ {p}
        /\ UNCHANGED <<rows, starts, turns>>
    BY <1>o DEF Crash
  <2>2. Empty \in Transcript /\ Within(Empty) BY Written
  <2>3. \A q \in Proc : memory'[q] = IF q = p THEN Empty ELSE memory[q] BY <1>0, <2>1
  <2>4. memory' \in [Proc -> Transcript] /\ \A q \in Proc : Within(memory'[q])
    BY <1>0, <2>1, <2>2, <2>3
  <2>5. work' \in [Proc -> Work] BY <2>1, Doing
  <2>6. up' \in [Proc -> BOOLEAN] /\ session' \in [Proc -> 0 .. MaxStarts]
    BY <1>0, <2>1, Constants
  <2>7. writer' \in {{}} \cup {{q} : q \in Proc} /\ parted' \subseteq Proc BY <1>0, <2>1
  <2>8. TypeOK' BY <1>0, <2>1, <2>4, <2>5, <2>6, <2>7 DEF TypeOK, Row
  <2>9. ASSUME NEW q \in Proc PROVE IF up'[q] THEN session'[q] \in 1 .. starts' ELSE work'[q] = Idle
    <3>1. IF up[q] THEN session[q] \in 1 .. starts ELSE work[q] = Idle BY DEF Placed
    <3>2. CASE q = p
      <4>1. ~up'[q] BY <1>0, <2>1, <3>2
      <4>2. work'[q] = Idle
        <5> HIDE DEF Work
        <5> QED BY <1>0, <2>1, <3>2
      <4> QED BY <4>1, <4>2
    <3>3. CASE q # p
      <4>1. up'[q] = up[q] /\ session'[q] = session[q] BY <1>0, <2>1, <3>3
      <4>2. work'[q] = work[q]
        <5> HIDE DEF Work
        <5> QED BY <1>0, <2>1, <3>3
      <4> QED BY <2>1, <3>1, <4>1, <4>2
    <3> QED BY <3>2, <3>3
  <2>10. Placed' BY <1>c, <2>1, <2>9 DEF Placed
  <2> QED BY <2>8, <2>10
<1>p. CASE UNCHANGED vars
  <2>1. TypeOK' BY <1>p DEF vars, TypeOK, Within
  <2>2. Placed' BY <1>p DEF vars, Placed, Idle
  <2> QED BY <2>1, <2>2
<1> QED BY <1>a, <1>e, <1>f, <1>g, <1>h, <1>i, <1>j, <1>k, <1>l, <1>m, <1>n, <1>o, <1>p DEF Next

\* Every state has its types, and a process without an agent is doing nothing.
THEOREM TypeCorrect == Spec => []TypeOK
<1>1. Typed => TypeOK BY DEF Typed
<1> QED BY <1>1, TypedInit, TypedStep, PTL DEF Spec

-----------------------------------------------------------------------------
(* The steps of one process *)

StepOf(p) ==
    \/ Start(p) \/ Answer(p) \/ StoreUser(p) \/ StoreAssistant(p) \/ StoreFails(p)
    \/ Clear(p) \/ UndoMessages(p) \/ UndoRows(p) \/ Crash(p)
    \/ \E e \in Entry : Ask(p, e)
    \/ \E raised \in {"error", "cancelled"} : Fail(p, raised)
    \/ \E s \in 1 .. starts : Resume(p, s)

LEMMA NextIsStepOf == Next <=> \E p \in Proc : StepOf(p)
BY DEF Next, StepOf

LEMMA OthersKeep ==
    ASSUME TypeOK, NEW p \in Proc, StepOf(p), NEW q \in Proc, q # p
    PROVE  /\ memory'[q] = memory[q] /\ work'[q] = work[q]
           /\ session'[q] = session[q] /\ up'[q] = up[q]
           /\ q \in parted => q \in parted'
<1>0. /\ \A b : [work EXCEPT ![p] = b][q] = work[q]
      /\ \A b : [session EXCEPT ![p] = b][q] = session[q]
      /\ \A b : [up EXCEPT ![p] = b][q] = up[q]
      /\ \A b : [memory EXCEPT ![p] = b][q] = memory[q]
  BY Others
<1>1. ASSUME Start(p) PROVE /\ memory'[q] = memory[q] /\ UNCHANGED <<work, parted>>
                            /\ session'[q] = session[q] /\ up'[q] = up[q]
  <2>1. /\ up' = [up EXCEPT ![p] = TRUE] /\ session' = [session EXCEPT ![p] = starts']
        /\ \E tr : memory' = [memory EXCEPT ![p] = tr]
        /\ UNCHANGED <<work, parted>>
    BY <1>1 DEF Start, Save
  <2> QED BY <1>0, <2>1
<1>2. ASSUME NEW e \in Entry, Ask(p, e)
      PROVE  /\ memory'[q] = memory[q] /\ work'[q] = work[q] /\ UNCHANGED <<up, session, parted>>
  <2>1. /\ \E tr : memory' = [memory EXCEPT ![p] = tr]
        /\ \E b : work' = [work EXCEPT ![p] = b]
        /\ UNCHANGED <<up, session, parted>>
    BY <1>2 DEF Ask, Save
  <2> QED BY <1>0, <2>1
<1>3. ASSUME Answer(p)
      PROVE  /\ memory'[q] = memory[q] /\ work'[q] = work[q] /\ UNCHANGED <<up, session>>
             /\ parted \subseteq parted'
  <2>1. /\ \E tr : memory' = [memory EXCEPT ![p] = tr]
        /\ \E b : work' = [work EXCEPT ![p] = b]
        /\ UNCHANGED <<up, session>>
        /\ parted' = parted \/ parted' = parted \cup {p}
    BY <1>3 DEF Answer, Save
  <2> QED BY <1>0, <2>1
<1>4. ASSUME StoreUser(p) \/ StoreAssistant(p) \/ UndoRows(p)
      PROVE  work'[q] = work[q] /\ UNCHANGED <<memory, up, session, parted>>
  <2>1. /\ \E b : work' = [work EXCEPT ![p] = b]
        /\ UNCHANGED <<memory, up, session, parted>>
    BY <1>4 DEF StoreUser, StoreAssistant, UndoRows
  <2> QED BY <1>0, <2>1
<1>5. ASSUME StoreFails(p)
      PROVE  work'[q] = work[q] /\ parted \subseteq parted' /\ UNCHANGED <<memory, up, session>>
  <2>1. /\ \E b : work' = [work EXCEPT ![p] = b]
        /\ parted' = parted \cup {p} /\ UNCHANGED <<memory, up, session>>
    BY <1>5 DEF StoreFails
  <2> QED BY <1>0, <2>1
<1>6. ASSUME NEW raised \in {"error", "cancelled"}, Fail(p, raised)
      PROVE  /\ memory'[q] = memory[q] /\ work'[q] = work[q] /\ parted \subseteq parted'
             /\ UNCHANGED <<up, session>>
  <2>1. /\ memory' = memory \/ \E tr : memory' = [memory EXCEPT ![p] = tr]
        /\ \E b : work' = [work EXCEPT ![p] = b]
        /\ parted' = parted \/ parted' = parted \cup {p}
        /\ UNCHANGED <<up, session>>
    BY <1>6 DEF Fail, Save
  <2> QED BY <1>0, <2>1
<1>7. ASSUME Clear(p) PROVE memory'[q] = memory[q] /\ UNCHANGED <<work, up, session, parted>>
  <2>1. /\ \E tr : memory' = [memory EXCEPT ![p] = tr]
        /\ UNCHANGED <<work, up, session, parted>>
    BY <1>7 DEF Clear, Save
  <2> QED BY <1>0, <2>1
<1>8. ASSUME UndoMessages(p)
      PROVE  /\ memory'[q] = memory[q] /\ work'[q] = work[q]
             /\ UNCHANGED <<up, session, parted>>
  <2>1. /\ memory' = memory \/ \E tr : memory' = [memory EXCEPT ![p] = tr]
        /\ \E b : work' = [work EXCEPT ![p] = b]
        /\ UNCHANGED <<up, session, parted>>
    BY <1>8 DEF UndoMessages, Save
  <2> QED BY <1>0, <2>1
<1>9. ASSUME NEW s \in 1 .. starts, Resume(p, s)
      PROVE  /\ memory'[q] = memory[q] /\ session'[q] = session[q] /\ UNCHANGED <<work, up>>
             /\ q \in parted => q \in parted'
  <2>1. /\ \E tr : memory' = [memory EXCEPT ![p] = tr]
        /\ session' = [session EXCEPT ![p] = s]
        /\ UNCHANGED <<work, up>>
        /\ parted' = parted \ {p} \/ parted \subseteq parted'
    BY <1>9 DEF Resume, Save
  <2> QED BY <1>0, <2>1
<1>10. ASSUME Crash(p)
       PROVE  /\ memory'[q] = memory[q] /\ work'[q] = work[q]
              /\ session'[q] = session[q] /\ up'[q] = up[q]
              /\ q \in parted => q \in parted'
  <2>1. /\ up' = [up EXCEPT ![p] = FALSE]
        /\ memory' = [memory EXCEPT ![p] = Empty]
        /\ session' = [session EXCEPT ![p] = 0]
        /\ work' = [work EXCEPT ![p] = Idle]
        /\ parted' = parted \ {p}
    BY <1>10 DEF Crash
  <2> QED BY <1>0, <2>1
<1> QED BY <1>1, <1>2, <1>3, <1>4, <1>5, <1>6, <1>7, <1>8, <1>9, <1>10 DEF StepOf

-----------------------------------------------------------------------------
(* What a restart finds *)

\* The process that wrote the file last remembers what it wrote.
WrittenInv == \A p \in writer : p \in Proc /\ up[p] /\ file = memory[p]

LEMMA SaveWrites ==
    ASSUME TypeOK, NEW p \in Proc, NEW tr, Save(p, tr)
    PROVE  writer' = {p} /\ file' = memory'[p]
<1>1. memory \in [Proc -> Transcript] BY DEF TypeOK
<1> QED BY <1>1 DEF Save

LEMMA WrittenStep == TypeOK /\ WrittenInv /\ [Next]_vars => WrittenInv'
<1> SUFFICES ASSUME TypeOK, WrittenInv, [Next]_vars PROVE WrittenInv'
  OBVIOUS
<1>1. CASE UNCHANGED vars BY <1>1 DEF vars, WrittenInv
<1>2. CASE Next
  <2>1. PICK p \in Proc : StepOf(p) BY <1>2, NextIsStepOf
  <2>2. \A q \in Proc : q # p => memory'[q] = memory[q] /\ up'[q] = up[q] BY <2>1, OthersKeep
  <2>3. up \in [Proc -> BOOLEAN] /\ memory \in [Proc -> Transcript] BY DEF TypeOK
  <2>4. CASE Crash(p)
    <3>1. /\ file' = file \/ file' = Torn
          /\ writer' = (IF file' = Torn THEN {} ELSE writer \ {p})
      BY <2>4 DEF Crash
    <3> QED BY <2>2, <3>1 DEF WrittenInv
  <2>5. CASE (\E tr : Save(p, tr)) /\ up'[p]
    <3>1. writer' = {p} /\ file' = memory'[p] BY <2>5, SaveWrites
    <3> QED BY <2>5, <3>1 DEF WrittenInv
  <2>6. CASE UNCHANGED <<file, memory, writer, up>>
    BY <2>6 DEF WrittenInv
  <2>7. CASE ~up[p] /\ UNCHANGED <<file, writer>>
    BY <2>2, <2>7 DEF WrittenInv
  <2>8. CASE Start(p)
    <3>1. /\ ~up[p] /\ up' = [up EXCEPT ![p] = TRUE]
          /\ (\E tr : Save(p, tr)) \/ UNCHANGED <<file, writer>>
      BY <2>8 DEF Start
    <3>2. up'[p] BY <2>3, <3>1
    <3> QED BY <2>5, <2>7, <3>1, <3>2
  <2>9. CASE \/ Answer(p) \/ Clear(p) \/ \E e \in Entry : Ask(p, e)
             \/ \E s \in 1 .. starts : Resume(p, s)
    <3>1. (\E tr : Save(p, tr)) /\ up[p] /\ up' = up
      BY <2>9 DEF Answer, Clear, Ask, Resume, At
    <3> QED BY <2>5, <3>1
  <2>10. CASE UndoMessages(p) \/ \E raised \in {"error", "cancelled"} : Fail(p, raised)
    <3>1. /\ up[p] /\ up' = up
          /\ (\E tr : Save(p, tr)) \/ UNCHANGED <<file, memory, writer>>
      BY <2>10 DEF UndoMessages, Fail, At
    <3> QED BY <2>5, <2>6, <3>1
  <2>11. CASE StoreUser(p) \/ StoreAssistant(p) \/ StoreFails(p) \/ UndoRows(p)
    <3>1. UNCHANGED <<file, memory, writer, up>>
      BY <2>11 DEF StoreUser, StoreAssistant, StoreFails, UndoRows, disk
    <3> QED BY <2>6, <3>1
  <2> QED BY <2>1, <2>4, <2>8, <2>9, <2>10, <2>11 DEF StepOf
<1> QED BY <1>1, <1>2

\* Whoever starts next gets what the last writer remembers: every operation that
\* changes the messages of ConversationMemory writes the file.
THEOREM RestartFindsMessages == Spec => []RestartRestores
<1>1. Init => WrittenInv BY DEF Init, WrittenInv
<1>2. Typed => TypeOK BY DEF Typed
<1>3. WrittenInv => RestartRestores BY DEF WrittenInv, RestartRestores
<1> QED BY <1>1, <1>2, <1>3, TypedInit, TypedStep, WrittenStep, PTL DEF Spec

\* The conversation an agent starts with has no unanswered message, whatever
\* file _load finds.
THEOREM RestoredIsClean == Spec => RestoredClean
<1> DEFINE cleaned == \A p \in Proc : ~up[p] /\ up'[p] => Clean(memory'[p].messages)
<1>1. ASSUME TypeOK, [Next]_vars PROVE [cleaned]_vars
  <2> SUFFICES ASSUME Next, NEW q \in Proc, ~up[q], up'[q] PROVE Clean(memory'[q].messages)
    BY <1>1
  <2>1. PICK p \in Proc : StepOf(p) BY NextIsStepOf
  <2>2. up \in [Proc -> BOOLEAN] /\ memory \in [Proc -> Transcript] BY <1>1 DEF TypeOK
  <2>3. q = p BY <1>1, <2>1, OthersKeep
  <2>4. Start(q)
    <3>1. ~Crash(q) BY <2>2 DEF Crash
    <3>2. /\ ~Answer(q) /\ ~StoreUser(q) /\ ~StoreAssistant(q) /\ ~StoreFails(q) /\ ~Clear(q)
          /\ ~UndoMessages(q) /\ ~UndoRows(q)
      BY DEF Answer, StoreUser, StoreAssistant, StoreFails, Clear, UndoMessages, UndoRows, At
    <3>3. /\ \A e \in Entry : ~Ask(q, e)
          /\ \A raised \in {"error", "cancelled"} : ~Fail(q, raised)
          /\ \A s \in 1 .. starts : ~Resume(q, s)
      BY DEF Ask, Fail, Resume, At
    <3> QED BY <2>1, <2>3, <3>1, <3>2, <3>3 DEF StepOf
  <2> DEFINE tr == [Loaded EXCEPT !.messages = RollbackTurn(@)]
  <2>5. memory' = [memory EXCEPT ![q] = tr] BY <2>4 DEF Start, Save
  <2>6. file # Torn => file \in Transcript /\ Within(file) BY <1>1 DEF TypeOK
  <2>7. /\ Loaded \in Transcript /\ NoDouble(Loaded.messages)
        /\ tr.messages = RollbackTurn(Loaded.messages)
    BY <2>6, LoadedShape
  <2> HIDE DEF tr
  <2>8. memory'[q] = tr BY <2>2, <2>5
  <2>9. Loaded.messages \in Seq(Message) BY <2>7 DEF Transcript
  <2>10. Answered(tr.messages) /\ NoDouble(tr.messages) BY <2>7, <2>9, RollbackCleans
  <2> QED BY <2>8, <2>10, CleanParts
<1>2. Typed => TypeOK BY DEF Typed
<1>3. TypeOK /\ [Next]_vars => [cleaned]_vars BY <1>1
<1>4. RestoredClean <=> [][cleaned]_vars BY DEF RestoredClean
<1> HIDE DEF cleaned
<1> QED BY <1>2, <1>3, <1>4, TypedInit, TypedStep, PTL DEF Spec

-----------------------------------------------------------------------------
(* Questions and answers *)

LEMMA MessageRole ==
    /\ \A m \in Message : m.role \in {"user", "assistant"}
    /\ \A t : User(t).role = "user" /\ Assistant(t).role = "assistant"
             /\ User(t).turn = t /\ Assistant(t).turn = t
BY DEF Message, Role, User, Assistant

LEMMA KeepClean ==
    ASSUME NEW ms \in Seq(Message), NEW n \in Nat
    PROVE  /\ NoDouble(ms) => NoDouble(Keep(ms, n))
           /\ Answered(ms) => Answered(Keep(ms, n))
<1> DEFINE k == Keep(ms, n)
<1>1. /\ k \in Seq(Message) /\ Len(k) = (IF Len(ms) <= n THEN Len(ms) ELSE n)
      /\ \A i \in 1 .. Len(k) : k[i] = ms[Len(ms) - Len(k) + i]
  BY KeepShape
<1> HIDE DEF k
<1>2. Len(ms) \in Nat /\ Len(k) \in Nat /\ Len(k) <= Len(ms) BY <1>1
<1>3. ASSUME NoDouble(ms) PROVE NoDouble(k)
  <2> SUFFICES ASSUME NEW i \in 1 .. Len(k) - 1 PROVE ~(k[i].role = "user" /\ k[i + 1].role = "user")
    BY DEF NoDouble
  <2> DEFINE j == Len(ms) - Len(k) + i
  <2>1. /\ i \in 1 .. Len(k) /\ i + 1 \in 1 .. Len(k) /\ j \in 1 .. Len(ms) - 1
        /\ Len(ms) - Len(k) + (i + 1) = j + 1
    BY <1>2
  <2>2. k[i] = ms[j] BY <1>1, <2>1
  <2>3. k[i + 1] = ms[Len(ms) - Len(k) + (i + 1)] BY <1>1, <2>1
  <2>4. k[i + 1] = ms[j + 1] BY <2>1, <2>3
  <2> HIDE DEF j
  <2> QED BY <1>3, <2>1, <2>2, <2>4 DEF NoDouble
<1>4. ASSUME Answered(ms) PROVE Answered(k)
  <2> SUFFICES ASSUME k # <<>> PROVE k[Len(k)].role = "assistant"
    BY DEF Answered
  <2>1. Len(k) >= 1 BY <1>1
  <2>2. Len(k) \in 1 .. Len(k) /\ Len(ms) - Len(k) + Len(k) = Len(ms) BY <1>2, <2>1
  <2>3. k[Len(k)] = ms[Len(ms)] BY <1>1, <2>2
  <2>4. ms # <<>>
    <3>1. Len(ms) >= 1 BY <1>2, <2>1
    <3> QED BY <3>1
  <2> QED BY <1>4, <2>3, <2>4 DEF Answered
<1> QED BY <1>3, <1>4 DEF k

LEMMA JoinClean ==
    ASSUME NEW ms \in Seq(Message), NEW m \in Message
    PROVE  /\ ms \o <<m>> \in Seq(Message) /\ Len(ms \o <<m>>) = Len(ms) + 1
           /\ \A i \in 1 .. Len(ms) : (ms \o <<m>>)[i] = ms[i]
           /\ (ms \o <<m>>)[Len(ms) + 1] = m
           /\ NoDouble(ms) /\ Answered(ms) => NoDouble(ms \o <<m>>)
           /\ m.role = "assistant" => Answered(ms \o <<m>>)
           /\ NoDouble(ms) /\ m.role = "assistant" => NoDouble(ms \o <<m>>)
<1> DEFINE j == ms \o <<m>>
<1>0. <<m>> \in Seq(Message) /\ Len(<<m>>) = 1 /\ <<m>>[1] = m OBVIOUS
<1>1. /\ j \in Seq(Message) /\ Len(j) = Len(ms) + 1
      /\ \A i \in 1 .. Len(ms) : j[i] = ms[i]
      /\ j[Len(ms) + 1] = m
  <2>1. /\ j \in Seq(Message) /\ Len(j) = Len(ms) + Len(<<m>>)
        /\ \A i \in 1 .. Len(ms) : j[i] = ms[i]
        /\ \A i \in 1 .. Len(<<m>>) : j[Len(ms) + i] = <<m>>[i]
    BY <1>0, JoinShape
  <2>2. 1 \in 1 .. Len(<<m>>) BY <1>0
  <2> QED BY <1>0, <2>1, <2>2
<1> HIDE DEF j
<1>2. Len(ms) \in Nat OBVIOUS
<1>3. ASSUME NoDouble(ms), Answered(ms) \/ m.role = "assistant" PROVE NoDouble(j)
  <2> SUFFICES ASSUME NEW i \in 1 .. Len(j) - 1 PROVE ~(j[i].role = "user" /\ j[i + 1].role = "user")
    BY DEF NoDouble
  <2>1. CASE i = Len(ms)
    <3>1. i \in 1 .. Len(ms) /\ ms # <<>> BY <1>1, <1>2, <2>1
    <3>2. j[i] = ms[Len(ms)] /\ j[i + 1] = m BY <1>1, <2>1, <3>1
    <3> QED BY <1>3, <3>1, <3>2 DEF Answered
  <2>2. CASE i # Len(ms)
    <3>1. i \in 1 .. Len(ms) /\ i + 1 \in 1 .. Len(ms) /\ i \in 1 .. Len(ms) - 1
      BY <1>1, <1>2, <2>2
    <3>2. j[i] = ms[i] /\ j[i + 1] = ms[i + 1] BY <1>1, <3>1
    <3> QED BY <1>3, <3>1, <3>2 DEF NoDouble
  <2> QED BY <2>1, <2>2
<1>4. ASSUME m.role = "assistant" PROVE Answered(j) BY <1>1, <1>4 DEF Answered
<1> QED BY <1>1, <1>3, <1>4 DEF j

LEMMA PrefixClean ==
    ASSUME NEW ms \in Seq(Message), NoDouble(ms), NEW n \in 0 .. Len(ms)
    PROVE  NoDouble(SubSeq(ms, 1, n))
<1> DEFINE r == SubSeq(ms, 1, n)
<1>1. Len(r) = n /\ \A i \in 1 .. n : r[i] = ms[i] BY PrefixShape
<1> HIDE DEF r
<1>2. n \in Nat /\ Len(ms) \in Nat /\ n <= Len(ms) OBVIOUS
<1>3. ASSUME NEW i \in 1 .. Len(r) - 1 PROVE ~(r[i].role = "user" /\ r[i + 1].role = "user")
  <2>1. i \in 1 .. n /\ i + 1 \in 1 .. n /\ i \in 1 .. Len(ms) - 1 BY <1>1, <1>2
  <2> QED BY <1>1, <2>1 DEF NoDouble
<1>4. NoDouble(r) BY <1>3 DEF NoDouble
<1> QED BY <1>4 DEF r

\* Exchanges are questions each followed by its answer.
LEMMA ExchangesClean ==
    ASSUME NEW ms \in Seq(Message), Exchanges(ms)
    PROVE  NoDouble(ms) /\ Answered(ms)
<1>1. Len(ms) \in Nat /\ Len(ms) % 2 = 0 BY DEF Exchanges
<1>2. ASSUME NEW i \in 1 .. Len(ms), i % 2 = 0 PROVE ms[i].role = "assistant"
  <2> DEFINE h == i \div 2
  <2>1. h \in 1 .. Len(ms) \div 2 /\ 2 * h = i BY <1>1, <1>2
  <2> HIDE DEF h
  <2>2. ms[2 * h] = Assistant(ms[2 * h - 1].turn) BY <2>1 DEF Exchanges
  <2> QED BY <2>1, <2>2, MessageRole
<1>3. NoDouble(ms)
  <2> SUFFICES ASSUME NEW i \in 1 .. Len(ms) - 1 PROVE ~(ms[i].role = "user" /\ ms[i + 1].role = "user")
    BY DEF NoDouble
  <2>1. i \in 1 .. Len(ms) /\ i + 1 \in 1 .. Len(ms) BY <1>1
  <2>2. i % 2 = 0 \/ (i + 1) % 2 = 0 OBVIOUS
  <2> QED BY <1>2, <2>1, <2>2
<1>4. Answered(ms)
  <2> SUFFICES ASSUME ms # <<>> PROVE ms[Len(ms)].role = "assistant"
    BY DEF Answered
  <2>1. Len(ms) \in 1 .. Len(ms) OBVIOUS
  <2> QED BY <1>1, <1>2, <2>1
<1> QED BY <1>3, <1>4

\* An undone exchange leaves an answer at the end.
LEMMA ExchangeDropped ==
    ASSUME NEW ms \in Seq(Message), NoDouble(ms), Answered(ms)
    PROVE  LET r == SubSeq(ms, 1, Len(ms) - LastExchange(ms)) IN NoDouble(r) /\ Answered(r)
<1> DEFINE n == Len(ms) - LastExchange(ms)
           r == SubSeq(ms, 1, n)
<1>1. Len(ms) \in Nat /\ LastExchange(ms) \in 0 .. Len(ms) BY ExchangeLength
<1>2. n \in 0 .. Len(ms) BY <1>1
<1>3. n # 0 => ms[n].role = "assistant"
  <2>1. CASE ms = <<>> BY <1>1, <2>1
  <2>2. CASE ms # <<>> /\ Len(ms) >= 2 /\ ms[Len(ms) - 1].role = "user"
    <3>1. Last(ms).role = "assistant" BY <2>2 DEF Answered, Last
    <3>2. LastExchange(ms) = 2 BY <2>2, <3>1 DEF LastExchange
    <3>3. n = Len(ms) - 2 BY <3>2
    <3>4. ASSUME n # 0 PROVE ms[n].role = "assistant"
      <4>1. n \in 1 .. Len(ms) - 1 /\ n + 1 = Len(ms) - 1 /\ n \in 1 .. Len(ms) BY <1>1, <2>2, <3>3, <3>4
      <4>2. ms[n].role # "user" BY <2>2, <4>1 DEF NoDouble
      <4>3. ms[n] \in Message BY <4>1
      <4> QED BY <4>2, <4>3, MessageRole
    <3> QED BY <3>4
  <2>3. CASE ms # <<>> /\ ~(Len(ms) >= 2 /\ ms[Len(ms) - 1].role = "user")
    <3>1. Last(ms).role = "assistant" BY <2>3 DEF Answered, Last
    <3>2. LastExchange(ms) = 1 BY <2>3, <3>1 DEF LastExchange
    <3>3. n = Len(ms) - 1 BY <3>2
    <3>4. ASSUME n # 0 PROVE ms[n].role = "assistant"
      <4>1. Len(ms) >= 2 /\ n \in 1 .. Len(ms) BY <1>1, <2>3, <3>3, <3>4
      <4>2. ms[n].role # "user" BY <2>3, <3>3, <4>1
      <4>3. ms[n] \in Message BY <4>1
      <4> QED BY <4>2, <4>3, MessageRole
    <3> QED BY <3>4
  <2> QED BY <2>1, <2>2, <2>3
<1> HIDE DEF n
<1>4. Len(r) = n /\ \A i \in 1 .. n : r[i] = ms[i] BY <1>2, PrefixShape
<1>5. NoDouble(r) BY <1>2, PrefixClean
<1>6. Answered(r)
  <2> HIDE DEF r
  <2>1. CASE n = 0 BY <1>4, <2>1 DEF Answered
  <2>2. CASE n # 0
    <3>1. n \in 1 .. n BY <1>2, <2>2
    <3> QED BY <1>3, <1>4, <2>2, <3>1 DEF Answered
  <2> QED BY <2>1, <2>2
<1> QED BY <1>5, <1>6 DEF n

\* The messages of an agent whose story is its own: questions and answers, and
\* only a turn that is being answered ends with its question.
Proper ==
    \A p \in Proc : up[p] /\ p \notin parted =>
        /\ NoDouble(memory[p].messages)
        /\ work[p].phase # "asked" => Answered(memory[p].messages)

LEMMA ProperStep == Typed /\ Proper /\ [Next]_vars => Proper'
<1> SUFFICES ASSUME Typed, Proper, [Next]_vars PROVE Proper'
  OBVIOUS
<1> USE DEF Typed
<1>0. /\ up \in [Proc -> BOOLEAN] /\ memory \in [Proc -> Transcript] /\ MaxMessages \in Nat
      /\ \A p \in Proc : memory[p].messages \in Seq(Message)
  BY Doing, Constants DEF TypeOK
<1>1. CASE UNCHANGED vars BY <1>1 DEF vars, Proper
<1>2. CASE Next
  <2>1. PICK p \in Proc : StepOf(p) BY <1>2, NextIsStepOf
  <2>2. SUFFICES ASSUME up'[p], p \notin parted'
                 PROVE  /\ NoDouble(memory'[p].messages)
                        /\ work'[p].phase # "asked" => Answered(memory'[p].messages)
    BY <2>1, OthersKeep DEF Proper
  <2> DEFINE ms == memory[p].messages
  <2>3. ms \in Seq(Message) BY <1>0
  <2>4. /\ \A b : [work EXCEPT ![p] = b][p] = b
        /\ \A b : [up EXCEPT ![p] = b][p] = b
        /\ \A b : [memory EXCEPT ![p] = b][p] = b
    BY Own
  <2>5. up[p] /\ p \notin parted =>
           NoDouble(ms) /\ (work[p].phase # "asked" => Answered(ms))
    BY DEF Proper
  <2> HIDE DEF ms
  <2>6. CASE Start(p)
    <3> DEFINE tr == [Loaded EXCEPT !.messages = RollbackTurn(@)]
    <3>1. memory' = [memory EXCEPT ![p] = tr] BY <2>6 DEF Start, Save
    <3>2. file # Torn => file \in Transcript /\ Within(file) BY DEF TypeOK
    <3>3. /\ Loaded \in Transcript /\ NoDouble(Loaded.messages)
          /\ tr.messages = RollbackTurn(Loaded.messages)
      BY <3>2, LoadedShape
    <3> HIDE DEF tr
    <3>4. memory'[p] = tr BY <2>4, <3>1
    <3>5. Loaded.messages \in Seq(Message) BY <3>3 DEF Transcript
    <3>6. Answered(tr.messages) /\ NoDouble(tr.messages) BY <3>3, <3>5, RollbackCleans
    <3> QED BY <3>4, <3>6
  <2>7. ASSUME NEW e \in Entry, Ask(p, e)
        PROVE  NoDouble(memory'[p].messages) /\ work'[p].phase = "asked"
    <3> DEFINE m == User(turns')
    <3>1. /\ up[p] /\ work[p].phase = "idle" /\ turns' = turns + 1 /\ turns < MaxTurns
          /\ memory' = [memory EXCEPT ![p] = With(memory[p], <<m>>)]
          /\ work' = [work EXCEPT ![p] = Turn("asked", turns', e)]
          /\ UNCHANGED parted
      BY <2>7 DEF Ask, At, Save
    <3>2. m \in Message
      <4>1. turns \in Nat /\ MaxTurns \in Nat BY Constants DEF TypeOK
      <4>2. turns' \in 1 .. MaxTurns BY <3>1, <4>1
      <4> QED BY <4>2 DEF User, Message, Role
    <3> HIDE DEF m
    <3>3. memory'[p].messages = Keep(ms \o <<m>>, MaxMessages)
      <4>1. memory'[p] = With(memory[p], <<m>>) BY <2>4, <3>1
      <4>2. With(memory[p], <<m>>).messages = Keep(memory[p].messages \o <<m>>, MaxMessages)
        BY <3>2, WrittenOne
      <4> QED BY <4>1, <4>2 DEF ms
    <3>4. NoDouble(ms) /\ Answered(ms) BY <2>2, <2>5, <3>1
    <3>5. ms \o <<m>> \in Seq(Message) /\ NoDouble(ms \o <<m>>) BY <2>3, <3>2, <3>4, JoinClean
    <3>6. NoDouble(memory'[p].messages) BY <1>0, <3>3, <3>5, KeepClean
    <3>7. work'[p].phase = "asked" BY <2>4, <3>1 DEF Turn
    <3> QED BY <3>6, <3>7
  <2>8. CASE Answer(p)
    <3> DEFINE m == Assistant(work[p].turn)
    <3>1. /\ up[p] /\ work[p].phase = "asked" /\ p \notin parted
          /\ memory' = [memory EXCEPT ![p] = With(memory[p], <<m>>)]
      BY <2>2, <2>8 DEF Answer, At, Save
    <3>2. m \in Message /\ m.role = "assistant" BY <3>1, Doing, MessageRole
    <3> HIDE DEF m
    <3>3. memory'[p].messages = Keep(ms \o <<m>>, MaxMessages)
      <4>1. memory'[p] = With(memory[p], <<m>>) BY <2>4, <3>1
      <4>2. With(memory[p], <<m>>).messages = Keep(memory[p].messages \o <<m>>, MaxMessages)
        BY <3>2, WrittenOne
      <4> QED BY <4>1, <4>2 DEF ms
    <3>4. NoDouble(ms) BY <2>5, <3>1
    <3>5. ms \o <<m>> \in Seq(Message) /\ NoDouble(ms \o <<m>>) /\ Answered(ms \o <<m>>)
      BY <2>3, <3>2, <3>4, JoinClean
    <3> QED BY <1>0, <3>3, <3>5, KeepClean
  <2>9. CASE StoreUser(p) \/ StoreAssistant(p) \/ StoreFails(p) \/ UndoRows(p)
    <3>1. /\ up[p] /\ work[p].phase # "asked" /\ p \notin parted /\ memory' = memory
      BY <2>2, <2>9 DEF StoreUser, StoreAssistant, StoreFails, UndoRows, At
    <3> QED BY <2>5, <3>1 DEF ms
  <2>10. ASSUME NEW raised \in {"error", "cancelled"}, Fail(p, raised)
         PROVE  NoDouble(memory'[p].messages) /\ Answered(memory'[p].messages)
    <3>1. up[p] /\ work[p].phase = "asked" BY <2>10 DEF Fail, At
    <3>2. /\ p \notin parted
          /\ memory' = [memory EXCEPT ![p] = [memory[p] EXCEPT !.messages = RollbackTurn(@)]]
      BY <2>2, <2>10 DEF Fail, Save
    <3>3. memory'[p].messages = RollbackTurn(ms) BY <2>4, <3>2, WrittenBack DEF ms
    <3>4. NoDouble(ms) BY <2>5, <3>1, <3>2
    <3> QED BY <2>3, <3>3, <3>4, RollbackCleans
  <2>11. CASE Clear(p)
    <3>1. memory' = [memory EXCEPT ![p] = Empty] BY <2>11 DEF Clear, Save
    <3>2. memory'[p].messages = <<>> BY <2>4, <3>1 DEF Empty
    <3>3. NoDouble(<<>>) /\ Answered(<<>>) BY DEF NoDouble, Answered
    <3> QED BY <3>2, <3>3
  <2>12. CASE UndoMessages(p)
    <3> DEFINE drop == LastExchange(ms)
               tr == [memory[p] EXCEPT !.messages = TruncateTo(ms, Len(ms) - drop)]
    <3>1. /\ up[p] /\ work[p].phase = "idle" /\ p \notin parted
          /\ IF drop > 0 THEN memory' = [memory EXCEPT ![p] = tr] ELSE memory' = memory
      BY <2>2, <2>12 DEF UndoMessages, At, Save, ms
    <3>2. NoDouble(ms) /\ Answered(ms) BY <2>5, <3>1
    <3>3. CASE ~(drop > 0)
      <4>1. memory' = memory BY <3>1, <3>3
      <4> QED BY <3>2, <4>1 DEF ms
    <3>4. CASE drop > 0
      <4>1. memory'[p] = tr BY <2>4, <3>1, <3>4
      <4>2. drop \in 0 .. Len(ms) BY <2>3, ExchangeLength
      <4>3. TruncateTo(ms, Len(ms) - drop) = SubSeq(ms, 1, Len(ms) - drop)
        BY <2>3, <4>2, TruncateShape
      <4>4. Len(ms) \in Nat /\ Len(ms) - drop \in 0 .. Len(ms) BY <2>3, <4>2
      <4>5. tr = [memory[p] EXCEPT !.messages = SubSeq(@, 1, Len(ms) - drop)]
        BY <4>3 DEF ms
      <4> HIDE DEF tr, drop
      <4>6. memory'[p].messages = SubSeq(ms, 1, Len(ms) - drop)
        BY <4>1, <4>4, <4>5, Written DEF ms
      <4> QED BY <2>3, <3>2, <4>6, ExchangeDropped DEF drop
    <3> QED BY <3>3, <3>4
  <2>13. ASSUME NEW s \in 1 .. starts, Resume(p, s)
         PROVE  NoDouble(memory'[p].messages) /\ Answered(memory'[p].messages)
    <3> DEFINE h == History(s)
    <3>1. memory' = [memory EXCEPT ![p] = With(Empty, h)] /\ Exchanges(h)
      BY <2>2, <2>13 DEF Resume, Save
    <3>2. rows \in Seq(Row) BY DEF TypeOK, Row
    <3>3. h \in Seq(Message) BY <3>2, HistoryIsStory, StoryShape
    <3> HIDE DEF h
    <3>4. With(Empty, h).messages = Keep(h, MaxMessages) BY <3>3, ResumedShape
    <3>5. memory'[p].messages = Keep(h, MaxMessages) BY <2>4, <3>1, <3>4
    <3>6. NoDouble(h) /\ Answered(h) BY <3>1, <3>3, ExchangesClean
    <3> QED BY <1>0, <3>3, <3>5, <3>6, KeepClean
  <2>14. ~Crash(p) BY <2>2, <2>4 DEF Crash
  <2> QED BY <2>1, <2>6, <2>7, <2>8, <2>9, <2>10, <2>11, <2>12, <2>13, <2>14 DEF StepOf
<1> QED BY <1>1, <1>2

\* Between turns the messages of an agent end with an answer, unless a chat was
\* cancelled, a chat_with_trace failed, or its session was shared or resumed in
\* the middle of a turn: every other way out of chat and chat_stream records the
\* answer or drops the question.
THEOREM NoQuestionDangles == Spec => []NothingDangles
<1>1. Init => Proper BY DEF Init, Proper
<1>2. Proper => NothingDangles
  <2> SUFFICES ASSUME Proper, NEW p \in Proc, At(p, {"idle"}), p \notin parted,
                      memory[p].messages # <<>>
               PROVE  Last(memory[p].messages).role = "assistant"
    BY DEF NothingDangles
  <2>1. Answered(memory[p].messages) BY DEF Proper, At
  <2> QED BY <2>1 DEF Answered, Last
<1> QED BY <1>1, <1>2, TypedInit, TypedStep, ProperStep, PTL DEF Spec

-----------------------------------------------------------------------------
(* Ends that agree *)

\* As far back as both go, the sequences are the same.
TailsAgree(a, b) == \A i \in Nat : i < Len(a) /\ i < Len(b) => a[Len(a) - i] = b[Len(b) - i]

LEMMA TailsKeep ==
    ASSUME NEW a \in Seq(Message), NEW b \in Seq(Message), TailsAgree(a, b), NEW n \in Nat
    PROVE  TailsAgree(Keep(a, n), b)
<1> DEFINE k == Keep(a, n)
<1>1. /\ k \in Seq(Message) /\ Len(k) = (IF Len(a) <= n THEN Len(a) ELSE n)
      /\ \A i \in 1 .. Len(k) : k[i] = a[Len(a) - Len(k) + i]
  BY KeepShape
<1> HIDE DEF k
<1>2. Len(a) \in Nat /\ Len(k) \in Nat /\ Len(k) <= Len(a) BY <1>1
<1>3. ASSUME NEW i \in Nat, i < Len(k), i < Len(b) PROVE k[Len(k) - i] = b[Len(b) - i]
  <2>1. /\ Len(k) - i \in 1 .. Len(k) /\ i < Len(a)
        /\ Len(a) - Len(k) + (Len(k) - i) = Len(a) - i
    BY <1>2, <1>3
  <2>2. k[Len(k) - i] = a[Len(a) - Len(k) + (Len(k) - i)] BY <1>1, <2>1
  <2> QED BY <1>3, <2>1, <2>2 DEF TailsAgree
<1> QED BY <1>3 DEF TailsAgree, k

LEMMA TailsJoin ==
    ASSUME NEW a \in Seq(Message), NEW b \in Seq(Message), TailsAgree(a, b), NEW m \in Message
    PROVE  TailsAgree(a \o <<m>>, b \o <<m>>)
<1> DEFINE x == a \o <<m>>
           y == b \o <<m>>
<1>1. Len(x) = Len(a) + 1 /\ (\A i \in 1 .. Len(a) : x[i] = a[i]) /\ x[Len(a) + 1] = m
  BY JoinClean
<1>2. Len(y) = Len(b) + 1 /\ (\A i \in 1 .. Len(b) : y[i] = b[i]) /\ y[Len(b) + 1] = m
  BY JoinClean
<1> HIDE DEF x, y
<1>3. Len(a) \in Nat /\ Len(b) \in Nat OBVIOUS
<1>4. ASSUME NEW i \in Nat, i < Len(x), i < Len(y) PROVE x[Len(x) - i] = y[Len(y) - i]
  <2>1. CASE i = 0
    <3>1. Len(x) - i = Len(a) + 1 /\ Len(y) - i = Len(b) + 1 BY <1>1, <1>2, <1>3, <2>1
    <3> QED BY <1>1, <1>2, <3>1
  <2>2. CASE i # 0
    <3> DEFINE j == i - 1
    <3>1. /\ j \in Nat /\ j < Len(a) /\ j < Len(b)
          /\ Len(x) - i = Len(a) - j /\ Len(y) - i = Len(b) - j
          /\ Len(a) - j \in 1 .. Len(a) /\ Len(b) - j \in 1 .. Len(b)
      BY <1>1, <1>2, <1>3, <1>4, <2>2
    <3> HIDE DEF j
    <3>2. a[Len(a) - j] = b[Len(b) - j] BY <3>1 DEF TailsAgree
    <3>3. x[Len(a) - j] = a[Len(a) - j] /\ y[Len(b) - j] = b[Len(b) - j]
      BY <1>1, <1>2, <3>1
    <3> QED BY <3>1, <3>2, <3>3
  <2> QED BY <2>1, <2>2
<1> QED BY <1>4 DEF TailsAgree, x, y

LEMMA TailsDrop ==
    ASSUME NEW a \in Seq(Message), NEW b \in Seq(Message), TailsAgree(a, b),
           NEW d \in Nat, d <= Len(a), d <= Len(b)
    PROVE  TailsAgree(SubSeq(a, 1, Len(a) - d), SubSeq(b, 1, Len(b) - d))
<1> DEFINE x == SubSeq(a, 1, Len(a) - d)
           y == SubSeq(b, 1, Len(b) - d)
<1>1. /\ Len(a) \in Nat /\ Len(b) \in Nat
      /\ Len(a) - d \in 0 .. Len(a) /\ Len(b) - d \in 0 .. Len(b)
  OBVIOUS
<1>2. Len(x) = Len(a) - d /\ \A i \in 1 .. Len(a) - d : x[i] = a[i] BY <1>1, PrefixShape
<1>3. Len(y) = Len(b) - d /\ \A i \in 1 .. Len(b) - d : y[i] = b[i] BY <1>1, PrefixShape
<1> HIDE DEF x, y
<1>4. ASSUME NEW i \in Nat, i < Len(x), i < Len(y) PROVE x[Len(x) - i] = y[Len(y) - i]
  <2> DEFINE j == i + d
  <2>1. /\ j \in Nat /\ j < Len(a) /\ j < Len(b)
        /\ Len(x) - i = Len(a) - j /\ Len(y) - i = Len(b) - j
        /\ Len(a) - j \in 1 .. Len(a) - d /\ Len(b) - j \in 1 .. Len(b) - d
    BY <1>1, <1>2, <1>3, <1>4
  <2> HIDE DEF j
  <2>2. a[Len(a) - j] = b[Len(b) - j] BY <2>1 DEF TailsAgree
  <2>3. x[Len(a) - j] = a[Len(a) - j] /\ y[Len(b) - j] = b[Len(b) - j]
    BY <1>2, <1>3, <2>1
  <2> QED BY <2>1, <2>2, <2>3
<1> QED BY <1>4 DEF TailsAgree, x, y

\* The shorter is then the end of the longer.
LEMMA TailsSuffix ==
    ASSUME NEW a \in Seq(Message), NEW b \in Seq(Message), TailsAgree(a, b)
    PROVE  IsSuffix(a, b) \/ IsSuffix(b, a)
<1> DEFINE x == Reverse(a)
           y == Reverse(b)
<1>1. Len(a) \in Nat /\ Len(b) \in Nat OBVIOUS
<1>2. /\ x \in Seq(Message) /\ Len(x) = Len(a)
      /\ \A i \in 1 .. Len(a) : x[i] = a[(Len(a) - i) + 1]
  BY <1>1 DEF Reverse
<1>3. /\ y \in Seq(Message) /\ Len(y) = Len(b)
      /\ \A i \in 1 .. Len(b) : y[i] = b[(Len(b) - i) + 1]
  BY <1>1 DEF Reverse
<1> HIDE DEF x, y
<1>4. ASSUME NEW i \in 1 .. Len(a), i \in 1 .. Len(b) PROVE x[i] = y[i]
  <2> DEFINE j == i - 1
  <2>1. /\ j \in Nat /\ j < Len(a) /\ j < Len(b)
        /\ (Len(a) - i) + 1 = Len(a) - j /\ (Len(b) - i) + 1 = Len(b) - j
    BY <1>1, <1>4
  <2> HIDE DEF j
  <2>2. a[Len(a) - j] = b[Len(b) - j] BY <2>1 DEF TailsAgree
  <2> QED BY <1>2, <1>3, <1>4, <2>1, <2>2
<1>5. CASE Len(a) <= Len(b)
  <2>1. \A i \in 1 .. Len(a) : i \in 1 .. Len(b) BY <1>1, <1>5
  <2>2. SubSeq(y, 1, Len(x)) = x
    <3>1. /\ SubSeq(y, 1, Len(a)) \in Seq(Message) /\ Len(SubSeq(y, 1, Len(a))) = Len(a)
          /\ \A i \in 1 .. Len(a) : SubSeq(y, 1, Len(a))[i] = y[i]
      <4>1. Len(a) \in 0 .. Len(y) BY <1>1, <1>3, <1>5
      <4> QED BY <1>3, <4>1, PrefixShape
    <3>2. \A i \in 1 .. Len(a) : SubSeq(y, 1, Len(a))[i] = x[i] BY <1>4, <2>1, <3>1
    <3> QED BY <1>2, <3>1, <3>2
  <2>3. IsPrefix(x, y) BY <1>2, <1>3, <1>5, <2>2 DEF IsPrefix
  <2> QED BY <2>3 DEF IsSuffix, x, y
<1>6. CASE Len(b) <= Len(a)
  <2>1. \A i \in 1 .. Len(b) : i \in 1 .. Len(a) BY <1>1, <1>6
  <2>2. SubSeq(x, 1, Len(y)) = y
    <3>1. /\ SubSeq(x, 1, Len(b)) \in Seq(Message) /\ Len(SubSeq(x, 1, Len(b))) = Len(b)
          /\ \A i \in 1 .. Len(b) : SubSeq(x, 1, Len(b))[i] = x[i]
      <4>1. Len(b) \in 0 .. Len(x) BY <1>1, <1>2, <1>6
      <4> QED BY <1>2, <4>1, PrefixShape
    <3>2. \A i \in 1 .. Len(b) : SubSeq(x, 1, Len(b))[i] = y[i] BY <1>4, <2>1, <3>1
    <3> QED BY <1>3, <3>1, <3>2
  <2>3. IsPrefix(y, x) BY <1>2, <1>3, <1>6, <2>2 DEF IsPrefix
  <2> QED BY <2>3 DEF IsSuffix, x, y
<1> QED BY <1>1, <1>5, <1>6

LEMMA ExchangesGrow ==
    ASSUME NEW h \in Seq(Message), Exchanges(h), NEW t \in 1 .. MaxTurns
    PROVE  Exchanges(h \o <<User(t)>> \o <<Assistant(t)>>)
<1> DEFINE u == h \o <<User(t)>>
           g == u \o <<Assistant(t)>>
<1>1. User(t) \in Message /\ Assistant(t) \in Message BY DEF User, Assistant, Message, Role
<1>2. /\ u \in Seq(Message) /\ Len(u) = Len(h) + 1 /\ (\A i \in 1 .. Len(h) : u[i] = h[i])
      /\ u[Len(h) + 1] = User(t)
  BY <1>1, JoinClean
<1> HIDE DEF u
<1>3. /\ g \in Seq(Message) /\ Len(g) = Len(u) + 1 /\ (\A i \in 1 .. Len(u) : g[i] = u[i])
      /\ g[Len(u) + 1] = Assistant(t)
  BY <1>1, <1>2, JoinClean
<1> HIDE DEF g
<1>4. Len(h) \in Nat /\ Len(h) % 2 = 0 /\ Len(g) = Len(h) + 2
  <2>1. Len(h) \in Nat OBVIOUS
  <2>2. Len(h) % 2 = 0 BY DEF Exchanges
  <2> DEFINE hl == Len(h) ul == Len(u) gl == Len(g)
  <2>3. hl \in Nat /\ ul = hl + 1 /\ gl = ul + 1 BY <1>2, <1>3, <2>1
  <2> HIDE DEF hl, ul, gl
  <2>4. gl = hl + 2 BY <2>3
  <2> QED BY <2>1, <2>2, <2>4 DEF hl, ul, gl
<1>5. Len(g) % 2 = 0 /\ Len(g) \div 2 = Len(h) \div 2 + 1 BY <1>4
<1>6. ASSUME NEW i \in 1 .. Len(g) \div 2
      PROVE  g[2 * i - 1].role = "user" /\ g[2 * i] = Assistant(g[2 * i - 1].turn)
  <2>1. CASE i \in 1 .. Len(h) \div 2
    <3>1. 2 * i \in 1 .. Len(h) /\ 2 * i - 1 \in 1 .. Len(h) BY <1>4, <2>1
    <3>2. 2 * i \in 1 .. Len(u) /\ 2 * i - 1 \in 1 .. Len(u) BY <1>2, <1>4, <3>1
    <3>3. g[2 * i] = h[2 * i] /\ g[2 * i - 1] = h[2 * i - 1] BY <1>2, <1>3, <3>1, <3>2
    <3> QED BY <2>1, <3>3 DEF Exchanges
  <2>2. CASE i = Len(h) \div 2 + 1
    <3>1. 2 * i - 1 = Len(h) + 1 /\ 2 * i = Len(u) + 1 /\ Len(h) + 1 \in 1 .. Len(u)
      BY <1>2, <1>4, <2>2
    <3>2. g[2 * i - 1] = User(t) /\ g[2 * i] = Assistant(t) BY <1>2, <1>3, <3>1
    <3> QED BY <3>2, MessageRole
  <2> QED BY <1>4, <1>5, <2>1, <2>2
<1>7. Exchanges(g) BY <1>5, <1>6 DEF Exchanges
<1> QED BY <1>7 DEF g, u

LEMMA ExchangesShrink ==
    ASSUME NEW h \in Seq(Message), Exchanges(h), Len(h) >= 2
    PROVE  Exchanges(SubSeq(h, 1, Len(h) - 2)) /\ h[Len(h) - 1].role = "user"
<1> DEFINE n == Len(h) - 2
           r == SubSeq(h, 1, n)
<1>1. Len(h) \in Nat /\ Len(h) % 2 = 0 /\ n \in 0 .. Len(h)
  <2>1. Len(h) \in Nat OBVIOUS
  <2>2. Len(h) % 2 = 0 BY DEF Exchanges
  <2>3. n \in 0 .. Len(h) BY <2>1
  <2> QED BY <2>1, <2>2, <2>3
<1>2. Len(r) = n /\ \A i \in 1 .. n : r[i] = h[i] BY <1>1, PrefixShape
<1> HIDE DEF r
<1>3. n % 2 = 0 /\ n \div 2 = Len(h) \div 2 - 1 BY <1>1
<1>4. ASSUME NEW i \in 1 .. n \div 2
      PROVE  r[2 * i - 1].role = "user" /\ r[2 * i] = Assistant(r[2 * i - 1].turn)
  <2>1. 2 * i \in 1 .. n /\ 2 * i - 1 \in 1 .. n /\ i \in 1 .. Len(h) \div 2 BY <1>1, <1>3
  <2> HIDE DEF n
  <2>2. r[2 * i] = h[2 * i] /\ r[2 * i - 1] = h[2 * i - 1] BY <1>2, <2>1
  <2> QED BY <2>1, <2>2 DEF Exchanges
<1>5. Exchanges(r) BY <1>2, <1>3, <1>4 DEF Exchanges
<1>6. h[Len(h) - 1].role = "user"
  <2> DEFINE i == Len(h) \div 2
  <2>1. i \in 1 .. Len(h) \div 2 /\ 2 * i - 1 = Len(h) - 1 BY <1>1
  <2> HIDE DEF i
  <2>2. h[2 * i - 1].role = "user" BY <2>1 DEF Exchanges
  <2> QED BY <2>1, <2>2
<1> QED BY <1>5, <1>6 DEF r

-----------------------------------------------------------------------------
(* The rows of a session *)

\* Any numbering of the places in their order is the one Place gives.
LEMMA Determined ==
    ASSUME NEW n \in Nat, NEW places \in SUBSET (1 .. n), NEW c \in Nat,
           NEW f \in [1 .. c -> places],
           \A i, j \in 1 .. c : i < j => f[i] < f[j],
           \A k \in places : \E i \in 1 .. c : f[i] = k
    PROVE  /\ Cardinality(places) = c
           /\ \A i \in 1 .. c : Place(places, i) = f[i]
<1>0. \A i \in 1 .. c : f[i] \in places /\ f[i] \in Nat
  <2>1. \A i \in 1 .. c : f[i] \in places OBVIOUS
  <2>2. \A k \in places : k \in Nat OBVIOUS
  <2> QED BY <2>1, <2>2
<1>1. ASSUME NEW i \in 0 .. c, NEW S, S = {f[j] : j \in 1 .. i}
      PROVE  Cardinality(S) = i
  <2> DEFINE g == [j \in 1 .. i |-> f[j]]
  <2>1. i \in Nat /\ i <= c /\ \A j \in 1 .. i : j \in 1 .. c /\ f[j] \in S BY <1>1
  <2>2. g \in [1 .. i -> S] BY <2>1
  <2>3. ASSUME NEW j \in 1 .. i, NEW k \in 1 .. i, g[j] = g[k] PROVE j = k
    <3>0. j \in 1 .. c /\ k \in 1 .. c /\ f[j] = f[k] BY <2>1, <2>3
    <3>1. f[j] \in Nat /\ f[k] \in Nat BY <1>0, <3>0
    <3>2. ~(j < k) /\ ~(k < j) BY <3>0, <3>1
    <3> QED BY <2>1, <3>2
  <2>4. \A x \in S : \E j \in 1 .. i : g[j] = x BY <1>1
  <2>5. g \in Bijection(1 .. i, S)
    <3> HIDE DEF g
    <3>1. DOMAIN g = 1 .. i BY <2>2
    <3> QED BY <2>2, <2>3, <2>4, <3>1 DEF Bijection, Injection, Surjection, IsInjective
  <2>6. 1 \in Int /\ i \in Int OBVIOUS
  <2>7. /\ IsFiniteSet(1 .. i)
        /\ Cardinality(1 .. i) = IF 1 > i THEN 0 ELSE i - 1 + 1
    BY <2>6, FS_Interval
  <2>8. (IF 1 > i THEN 0 ELSE i - 1 + 1) = i BY <2>1
  <2> HIDE DEF g
  <2>9. Cardinality(S) = Cardinality(1 .. i) BY <2>5, <2>7, FS_Bijection DEF ExistsBijection
  <2> QED BY <2>7, <2>8, <2>9
<1>2. Cardinality(places) = c
  <2>1. places = {f[j] : j \in 1 .. c} OBVIOUS
  <2>2. c \in 0 .. c OBVIOUS
  <2> QED BY <1>1, <2>1, <2>2
<1>3. ASSUME NEW i \in 1 .. c PROVE Place(places, i) = f[i]
  <2>1. {k \in places : k <= f[i]} = {f[j] : j \in 1 .. i}
    <3>1. ASSUME NEW k \in places, k <= f[i] PROVE k \in {f[j] : j \in 1 .. i}
      <4>1. PICK j \in 1 .. c : f[j] = k OBVIOUS
      <4>2. f[i] \in Nat /\ k \in Nat BY <1>0
      <4>3. ~(i < j) BY <3>1, <4>1, <4>2
      <4>4. j \in 1 .. i BY <4>3
      <4> QED BY <4>1, <4>4
    <3>2. ASSUME NEW j \in 1 .. i PROVE f[j] \in places /\ f[j] <= f[i]
      <4>1. j \in 1 .. c /\ (j = i \/ j < i) OBVIOUS
      <4>2. f[i] \in Nat /\ f[j] \in Nat BY <1>0, <4>1
      <4> QED BY <4>1, <4>2
    <3> QED BY <3>1, <3>2
  <2>2. i \in 0 .. c OBVIOUS
  <2>3. Rank(places, f[i]) = i BY <1>1, <2>1, <2>2 DEF Rank
  <2>4. f[i] \in places OBVIOUS
  <2>5. Place(places, Rank(places, f[i])) = f[i] BY <2>4, PlacesInOrder
  <2> QED BY <2>3, <2>5
<1> QED BY <1>2, <1>3

\* A story is told by its rows, in their order.
LEMMA StoryIs ==
    ASSUME NEW r \in Seq(Row), NEW s, NEW told \in Seq(Message),
           Cardinality(OfRows(r, s)) = Len(told),
           \A i \in 1 .. Len(told) : r[Place(OfRows(r, s), i)].message = told[i]
    PROVE  Story(r, s) = told
<1>1. /\ Story(r, s) \in Seq(Message) /\ Len(Story(r, s)) = Len(told)
      /\ \A i \in 1 .. Len(told) : Story(r, s)[i] = r[Place(OfRows(r, s), i)].message
  BY StoryShape
<1>2. \A i \in 1 .. Len(told) : Story(r, s)[i] = told[i] BY <1>1
<1> QED BY <1>1, <1>2

LEMMA StoryAppended ==
    ASSUME NEW r \in Seq(Row), NEW row \in Row
    PROVE  /\ \A u : u # row.session => Story(Append(r, row), u) = Story(r, u)
           /\ Story(Append(r, row), row.session) = Story(r, row.session) \o <<row.message>>
<1> DEFINE g == Append(r, row)
<1>1. /\ g \in Seq(Row) /\ Len(r) \in Nat /\ DOMAIN g = 1 .. Len(r) + 1 /\ DOMAIN r = 1 .. Len(r)
      /\ \A i \in 1 .. Len(r) : g[i] = r[i]
      /\ g[Len(r) + 1] = row
  OBVIOUS
<1> HIDE DEF g
<1>2. ASSUME NEW u, u # row.session PROVE Story(g, u) = Story(r, u)
  <2>1. OfRows(g, u) = OfRows(r, u)
    <3>1. ASSUME NEW i \in DOMAIN g, g[i].session = u PROVE i \in DOMAIN r /\ r[i].session = u
      BY <1>1, <1>2, <3>1
    <3>2. ASSUME NEW i \in DOMAIN r PROVE i \in DOMAIN g /\ g[i] = r[i] BY <1>1
    <3> QED BY <3>1, <3>2 DEF OfRows
  <2> DEFINE own == OfRows(r, u)
  <2>2. /\ Story(r, u) \in Seq(Message) /\ Len(Story(r, u)) = Cardinality(own)
        /\ \A i \in 1 .. Cardinality(own) : /\ Place(own, i) \in own
                                            /\ Story(r, u)[i] = r[Place(own, i)].message
    BY StoryShape
  <2>3. \A k \in own : g[k] = r[k] BY <1>1 DEF OfRows
  <2>4. \A i \in 1 .. Cardinality(own) : g[Place(own, i)].message = Story(r, u)[i] BY <2>2, <2>3
  <2> HIDE DEF own
  <2> QED BY <1>1, <2>1, <2>2, <2>4, StoryIs DEF own
<1>3. Story(g, row.session) = Story(r, row.session) \o <<row.message>>
  <2> DEFINE u == row.session
             own == OfRows(r, u)
             grown == OfRows(g, u)
             h == Story(r, u)
             c == Cardinality(own)
             told == h \o <<row.message>>
             f == [i \in 1 .. c + 1 |-> IF i <= c THEN Place(own, i) ELSE Len(r) + 1]
  <2>1. /\ c \in Nat /\ h \in Seq(Message) /\ Len(h) = c
        /\ \A i \in 1 .. c : Place(own, i) \in own /\ h[i] = r[Place(own, i)].message
    BY StoryShape
  <2>2. own \in SUBSET (1 .. Len(r)) /\ grown \in SUBSET (1 .. Len(r) + 1)
    BY <1>1 DEF OfRows
  <2>3. /\ \A i, j \in 1 .. c : i < j => Place(own, i) < Place(own, j)
        /\ \A k \in own : Rank(own, k) \in 1 .. c /\ Place(own, Rank(own, k)) = k
    <3> HIDE DEF own
    <3> QED BY <1>1, <2>2, PlacesInOrder
  <2>4. grown = own \cup {Len(r) + 1}
    <3>1. ASSUME NEW k \in grown PROVE k \in own \cup {Len(r) + 1}
      <4>1. k \in 1 .. Len(r) + 1 /\ g[k].session = u BY <1>1 DEF OfRows
      <4>2. CASE k \in 1 .. Len(r) BY <1>1, <4>1, <4>2 DEF OfRows
      <4>3. CASE k = Len(r) + 1 BY <4>3
      <4> QED BY <1>1, <4>1, <4>2, <4>3
    <3>2. own \subseteq grown BY <1>1 DEF OfRows
    <3>3. Len(r) + 1 \in grown BY <1>1 DEF OfRows
    <3> QED BY <3>1, <3>2, <3>3
  <2>5. row.message \in Message BY DEF Row
  <2> HIDE DEF h, grown, own, u
  <2>6. /\ told \in Seq(Message) /\ Len(told) = c + 1
        /\ \A i \in 1 .. c : told[i] = h[i]
        /\ told[c + 1] = row.message
    BY <2>1, <2>5, JoinClean
  <2> HIDE DEF told, c
  <2>7. f \in [1 .. c + 1 -> grown]
    <3>1. \A i \in 1 .. c + 1 : i <= c => i \in 1 .. c BY <2>1
    <3> QED BY <2>1, <2>4, <3>1
  <2>8. /\ \A i \in 1 .. c : f[i] = Place(own, i)
        /\ f[c + 1] = Len(r) + 1
    BY <2>1
  <2> HIDE DEF f
  <2>9. ASSUME NEW i \in 1 .. c + 1, NEW j \in 1 .. c + 1, i < j PROVE f[i] < f[j]
    <3>1. i \in 1 .. c BY <2>1, <2>9
    <3>2. CASE j \in 1 .. c BY <2>3, <2>8, <2>9, <3>1, <3>2
    <3>3. CASE j = c + 1
      <4>1. f[i] \in 1 .. Len(r) BY <2>1, <2>2, <2>8, <3>1
      <4> QED BY <1>1, <2>8, <3>3, <4>1
    <3> QED BY <2>1, <3>2, <3>3
  <2>10. ASSUME NEW k \in grown PROVE \E i \in 1 .. c + 1 : f[i] = k
    <3>1. CASE k \in own
      <4>1. Rank(own, k) \in 1 .. c /\ f[Rank(own, k)] = k BY <2>3, <2>8, <3>1
      <4>2. Rank(own, k) \in 1 .. c + 1 BY <2>1, <4>1
      <4> QED BY <4>1, <4>2
    <3>2. CASE k = Len(r) + 1
      <4>1. c + 1 \in 1 .. c + 1 BY <2>1
      <4> QED BY <2>8, <3>2, <4>1
    <3> QED BY <2>4, <3>1, <3>2
  <2>11. Cardinality(grown) = c + 1 /\ \A i \in 1 .. c + 1 : Place(grown, i) = f[i]
    <3>1. Len(r) + 1 \in Nat /\ c + 1 \in Nat BY <1>1, <2>1
    <3> QED BY <2>2, <2>7, <2>9, <2>10, <3>1, Determined
  <2>12. ASSUME NEW i \in 1 .. c + 1 PROVE g[Place(grown, i)].message = told[i]
    <3>1. CASE i \in 1 .. c
      <4>1. Place(grown, i) = Place(own, i) /\ Place(own, i) \in 1 .. Len(r)
        BY <2>1, <2>2, <2>8, <2>11, <3>1
      <4> QED BY <1>1, <2>1, <2>6, <3>1, <4>1
    <3>2. CASE i = c + 1
      <4>1. Place(grown, i) = Len(r) + 1 BY <2>8, <2>11, <3>2
      <4> QED BY <1>1, <2>6, <3>2, <4>1
    <3> QED BY <2>1, <3>1, <3>2
  <2>13. Story(g, u) = told
    <3>1. OfRows(g, u) = grown BY DEF grown
    <3> QED BY <1>1, <2>6, <2>11, <2>12, <3>1, StoryIs
  <2> QED BY <2>13 DEF told, h, u
<1> QED BY <1>2, <1>3 DEF g

\* When the rows kept are the first c of a session, its story is cut after c.
LEMMA StoryKept ==
    ASSUME NEW r \in Seq(Row), NEW kept \in SUBSET (DOMAIN r), NEW u,
           NEW c \in 0 .. Cardinality(OfRows(r, u)),
           \A i \in 1 .. Cardinality(OfRows(r, u)) : Place(OfRows(r, u), i) \in kept <=> i <= c
    PROVE  Story(Subsequence(r, kept), u) = SubSeq(Story(r, u), 1, c)
<1> DEFINE own == OfRows(r, u)
           size == Cardinality(own)
           h == Story(r, u)
           g == Subsequence(r, kept)
           left == OfRows(g, u)
           many == Cardinality(kept)
           told == SubSeq(h, 1, c)
           f == [i \in 1 .. c |-> Rank(kept, Place(own, i))]
<1>1. /\ size \in Nat /\ h \in Seq(Message) /\ Len(h) = size
      /\ \A i \in 1 .. size : Place(own, i) \in own /\ h[i] = r[Place(own, i)].message
  BY StoryShape
<1>2. Len(r) \in Nat /\ DOMAIN r = 1 .. Len(r) OBVIOUS
<1>3. own \in SUBSET (1 .. Len(r)) /\ kept \in SUBSET (1 .. Len(r))
      /\ (\A k \in own : r[k].session = u)
      /\ (\A k \in 1 .. Len(r) : r[k].session = u => k \in own)
  BY <1>2 DEF OfRows
<1>4. /\ g \in Seq(Row) /\ DOMAIN g = 1 .. many /\ many \in Nat
      /\ \A i \in 1 .. many : g[i] = r[Place(kept, i)]
  <2>1. many \in Nat BY <1>2, <1>3, PlacesInOrder
  <2> QED BY <2>1, SubsequenceShape
<1>5. /\ left \in SUBSET (1 .. many) /\ (\A k \in left : g[k].session = u)
      /\ \A k \in 1 .. many : g[k].session = u => k \in left
  BY <1>4 DEF OfRows
<1>6. c \in Nat /\ (\A i \in 1 .. c : i \in 1 .. size) /\ (\A i \in 1 .. size : Place(own, i) \in kept <=> i <= c)
  BY <1>1
<1> HIDE DEF own, h, left, g
<1>7. /\ told \in Seq(Message) /\ Len(told) = c /\ \A i \in 1 .. c : told[i] = h[i]
  BY <1>1, PrefixShape DEF own
<1> HIDE DEF told
<1>8. /\ \A k \in own : Rank(own, k) \in 1 .. size /\ Place(own, Rank(own, k)) = k
      /\ \A i, j \in 1 .. size : i < j => Place(own, i) < Place(own, j)
  BY <1>2, <1>3, PlacesInOrder
<1>9. /\ \A i \in 1 .. many : Place(kept, i) \in kept /\ Rank(kept, Place(kept, i)) = i
      /\ \A k \in kept : Rank(kept, k) \in 1 .. many /\ Place(kept, Rank(kept, k)) = k
      /\ \A k, m \in kept : k < m => Rank(kept, k) < Rank(kept, m)
  BY <1>2, <1>3, PlacesInOrder, Ranks
<1> HIDE DEF size, many
<1>10. ASSUME NEW i \in 1 .. c
       PROVE  /\ Place(own, i) \in own /\ Place(own, i) \in kept
              /\ Rank(kept, Place(own, i)) \in left
              /\ g[Rank(kept, Place(own, i))] = r[Place(own, i)]
  <2>1. i \in 1 .. size /\ i <= c BY <1>6
  <2>2. Place(own, i) \in own /\ Place(own, i) \in kept BY <1>1, <1>6, <2>1
  <2> DEFINE k == Place(own, i)
  <2> HIDE DEF k
  <2>3. Rank(kept, k) \in 1 .. many /\ Place(kept, Rank(kept, k)) = k BY <1>9, <2>2 DEF k
  <2>4. g[Rank(kept, k)] = r[k] BY <1>4, <2>3
  <2>5. r[k].session = u BY <1>3, <2>2 DEF k
  <2>6. Rank(kept, k) \in left BY <1>5, <2>3, <2>4, <2>5
  <2> QED BY <2>2, <2>4, <2>6 DEF k
<1>11. f \in [1 .. c -> left] BY <1>10
<1>12. ASSUME NEW i \in 1 .. c, NEW j \in 1 .. c, i < j PROVE f[i] < f[j]
  <2>1. Place(own, i) < Place(own, j) BY <1>6, <1>8, <1>12
  <2>2. Rank(kept, Place(own, i)) < Rank(kept, Place(own, j)) BY <1>9, <1>10, <2>1
  <2> QED BY <2>2
<1>13. ASSUME NEW k \in left PROVE \E i \in 1 .. c : f[i] = k
  <2> DEFINE m == Place(kept, k)
  <2>1. k \in 1 .. many /\ g[k].session = u BY <1>5
  <2>2. m \in kept /\ Rank(kept, m) = k /\ g[k] = r[m] BY <1>4, <1>9, <2>1
  <2> HIDE DEF m
  <2>3. m \in own BY <1>3, <2>1, <2>2
  <2> DEFINE i == Rank(own, m)
  <2>4. i \in 1 .. size /\ Place(own, i) = m BY <1>8, <2>3
  <2> HIDE DEF i
  <2>5. i <= c BY <1>6, <2>2, <2>4
  <2>6. i \in 1 .. c BY <1>1, <1>6, <2>4, <2>5
  <2>7. f[i] = k BY <2>2, <2>4, <2>6
  <2> QED BY <2>6, <2>7
<1>14. Cardinality(left) = c /\ \A i \in 1 .. c : Place(left, i) = f[i]
  <2> HIDE DEF f
  <2> QED BY <1>4, <1>5, <1>6, <1>11, <1>12, <1>13, Determined
<1>15. ASSUME NEW i \in 1 .. c PROVE g[Place(left, i)].message = told[i]
  <2>1. Place(left, i) = Rank(kept, Place(own, i)) BY <1>14
  <2>2. g[Place(left, i)] = r[Place(own, i)] BY <1>10, <2>1
  <2>3. h[i] = r[Place(own, i)].message /\ told[i] = h[i] BY <1>1, <1>6, <1>7
  <2> QED BY <2>2, <2>3
<1>16. OfRows(g, u) = left BY DEF left
<1>17. Story(g, u) = told BY <1>4, <1>7, <1>14, <1>15, <1>16, StoryIs
<1> QED BY <1>17 DEF told, h, g

-----------------------------------------------------------------------------
(* One story *)

\* The messages of an agent against the rows of its session, at each point of a
\* turn and of an /undo: the rows are whole exchanges but for a question stored
\* before its answer, and what is remembered is the end of what the rows will be
\* when the operation is through.
Agree(ms, h, w) ==
    /\ w.phase # "stored" => Exchanges(h)
    /\ w.phase = "idle" => TailsAgree(ms, h)
    /\ w.phase = "asked" => ms # <<>> /\ TailsAgree(ms, h \o <<User(w.turn)>>)
    /\ w.phase = "answered" => TailsAgree(ms, h \o <<User(w.turn)>> \o <<Assistant(w.turn)>>)
    /\ w.phase = "stored" => /\ Exchanges(h \o <<Assistant(w.turn)>>)
                             /\ TailsAgree(ms, h \o <<Assistant(w.turn)>>)
    /\ w.phase = "undoing" => /\ Len(h) >= 2 /\ w.keep = Len(h) - 2
                              /\ TailsAgree(ms, SubSeq(h, 1, w.keep))

Agreed ==
    \A p \in Proc : up[p] /\ p \notin parted =>
        Agree(memory[p].messages, Story(rows, session[p]), work[p])

\* Two agents in one session have parted.
Alone ==
    \A p, q \in Proc : p # q /\ up[p] /\ up[q] /\ session[p] = session[q] => p \in parted

LEMMA AloneStep == Typed /\ Alone /\ [Next]_vars => Alone'
<1> SUFFICES ASSUME Typed, Alone, [Next]_vars PROVE Alone'
  OBVIOUS
<1> USE DEF Typed
<1>1. CASE UNCHANGED vars BY <1>1 DEF vars, Alone
<1>2. CASE Next
  <2>1. PICK p \in Proc : StepOf(p) BY <1>2, NextIsStepOf
  <2>2. \A q \in Proc : q # p => /\ session'[q] = session[q] /\ up'[q] = up[q]
                                 /\ q \in parted => q \in parted'
    BY <2>1, OthersKeep
  <2>3. \A q \in Proc : up[q] => session[q] \in 1 .. starts BY DEF Placed
  <2>4. /\ \A b : [up EXCEPT ![p] = b][p] = b
        /\ \A b : [session EXCEPT ![p] = b][p] = b
    BY Own
  <2>5. starts \in Nat BY DEF TypeOK
  <2>6. SUFFICES ASSUME NEW q \in Proc, q # p, up'[p], up'[q], session'[p] = session'[q]
                 PROVE  p \in parted' /\ q \in parted'
    BY <2>1, <2>2 DEF Alone
  <2>7. up[q] /\ session[q] = session'[p] BY <2>2, <2>6
  <2>8. ~Start(p)
    <3> SUFFICES ASSUME Start(p) PROVE FALSE
      OBVIOUS
    <3>1. session' = [session EXCEPT ![p] = starts'] /\ starts' = starts + 1 BY DEF Start
    <3>2. session'[p] = starts + 1 BY <2>4, <3>1
    <3> QED BY <2>3, <2>5, <2>7, <3>2
  <2>9. ~Crash(p) BY <2>4, <2>6 DEF Crash
  <2>10. ASSUME NEW s \in 1 .. starts, Resume(p, s) PROVE p \in parted' /\ q \in parted'
    <3> DEFINE others == {x \in Proc \ {p} : up[x] /\ session[x] = s}
    <3>1. session' = [session EXCEPT ![p] = s] BY <2>10 DEF Resume
    <3>2. session'[p] = s BY <2>4, <3>1
    <3>3. q \in others BY <2>6, <2>7, <3>2
    <3>4. parted' = parted \cup others \cup {p} BY <2>10, <3>3 DEF Resume
    <3> QED BY <3>3, <3>4
  <2>11. CASE UNCHANGED <<up, session>> /\ parted \subseteq parted'
    BY <2>6, <2>11 DEF Alone
  <2>12. CASE \/ Answer(p) \/ StoreUser(p) \/ StoreAssistant(p) \/ StoreFails(p)
              \/ Clear(p) \/ UndoMessages(p) \/ UndoRows(p)
    <3>1. UNCHANGED <<up, session>> /\ parted \subseteq parted'
      BY <2>12 DEF Answer, StoreUser, StoreAssistant, StoreFails, Clear, UndoMessages, UndoRows
    <3> QED BY <2>11, <3>1
  <2>13. CASE (\E e \in Entry : Ask(p, e)) \/ \E raised \in {"error", "cancelled"} : Fail(p, raised)
    <3>1. UNCHANGED <<up, session>> /\ parted \subseteq parted'
      BY <2>13 DEF Ask, Fail
    <3> QED BY <2>11, <3>1
  <2> QED BY <2>1, <2>8, <2>9, <2>10, <2>12, <2>13 DEF StepOf
<1> QED BY <1>1, <1>2

\* Only the rows of a process's own session change, and only at three points.
LEMMA RowsOfOthers ==
    ASSUME Typed, NEW p \in Proc, StepOf(p)
    PROVE  /\ rows' \in Seq(Row)
           /\ \A s : rows' = rows \/ s # session[p] => Story(rows', s) = Story(rows, s)
           /\ rows' = rows \/ At(p, {"answered", "stored", "undoing"})
<1> USE DEF Typed
<1>0. rows \in Seq(Row) /\ \A q \in Proc : up[q] => session[q] \in 1 .. starts
  BY DEF TypeOK, Row, Placed
<1>1. ASSUME At(p, {"answered", "stored"}), NEW m \in Message, SaveMessage(session[p], m)
      PROVE  rows' \in Seq(Row) /\ \A s : s # session[p] => Story(rows', s) = Story(rows, s)
  <2> DEFINE row == [session |-> session[p], message |-> m]
  <2>1. session[p] \in 1 .. starts /\ starts \in 0 .. MaxStarts /\ MaxStarts \in Nat
    BY <1>0, <1>1, Constants DEF At, TypeOK
  <2>2. session[p] \in 1 .. MaxStarts BY <2>1
  <2>3. row \in Row /\ row.session = session[p] BY <2>2 DEF Row
  <2>4. rows' = Append(rows, row) BY <1>1 DEF SaveMessage
  <2> HIDE DEF row
  <2>5. rows' \in Seq(Row) BY <1>0, <2>3, <2>4
  <2>6. \A u : u # row.session => Story(Append(rows, row), u) = Story(rows, u)
    BY <1>0, <2>3, StoryAppended
  <2> QED BY <2>3, <2>4, <2>5, <2>6
<1>2. ASSUME NEW s, NEW keep \in Nat, TrimSession(s, keep)
      PROVE  rows' \in Seq(Row) /\ \A u : u # s => Story(rows', u) = Story(rows, u)
  <2> DEFINE kept == DOMAIN rows \ Extra(s, keep)
  <2>1. rows' = Subsequence(rows, kept) /\ kept \in SUBSET (DOMAIN rows) BY <1>2 DEF TrimSession
  <2>2. \A i \in Extra(s, keep) : rows[i].session = s BY DEF Extra, Of
  <2>3. \A i \in DOMAIN rows : rows[i].session # s => i \in kept BY <2>2
  <2> HIDE DEF kept
  <2>4. ASSUME NEW u, u # s PROVE Story(rows', u) = Story(rows, u)
    <3> DEFINE own == OfRows(rows, u)
               size == Cardinality(own)
               h == Story(rows, u)
    <3>1. /\ size \in Nat /\ h \in Seq(Message) /\ Len(h) = size
          /\ \A i \in 1 .. size : Place(own, i) \in own
      BY <1>0, StoryShape
    <3>2. \A k \in own : k \in kept BY <2>3, <2>4 DEF OfRows
    <3>3. \A i \in 1 .. size : Place(own, i) \in kept <=> i <= size BY <3>1, <3>2
    <3>4. size \in 0 .. size BY <3>1
    <3> HIDE DEF size
    <3>5. Story(rows', u) = SubSeq(h, 1, size) BY <1>0, <2>1, <3>3, <3>4, StoryKept DEF size
    <3> HIDE DEF h
    <3>6. SubSeq(h, 1, Len(h)) = h BY <3>1
    <3> QED BY <3>1, <3>5, <3>6 DEF h
  <2> QED BY <1>0, <2>1, <2>4, SubsequenceShape
<1>3. CASE StoreUser(p)
  <2>1. work[p].phase = "answered" /\ At(p, {"answered", "stored"}) BY <1>3 DEF StoreUser, At
  <2>2. User(work[p].turn) \in Message BY <2>1, Doing
  <2>3. SaveMessage(session[p], User(work[p].turn)) BY <1>3 DEF StoreUser
  <2>4. At(p, {"answered", "stored", "undoing"}) BY <2>1 DEF At
  <2> QED BY <1>1, <2>1, <2>2, <2>3, <2>4
<1>4. CASE StoreAssistant(p)
  <2>1. work[p].phase = "stored" /\ At(p, {"answered", "stored"}) BY <1>4 DEF StoreAssistant, At
  <2>2. Assistant(work[p].turn) \in Message BY <2>1, Doing
  <2>3. SaveMessage(session[p], Assistant(work[p].turn)) BY <1>4 DEF StoreAssistant
  <2>4. At(p, {"answered", "stored", "undoing"}) BY <2>1 DEF At
  <2> QED BY <1>1, <2>1, <2>2, <2>3, <2>4
<1>5. CASE UndoRows(p)
  <2>1. work[p].phase = "undoing" /\ At(p, {"answered", "stored", "undoing"}) BY <1>5 DEF UndoRows, At
  <2>2. work[p].keep \in Nat BY <2>1, Doing
  <2>3. TrimSession(session[p], work[p].keep) BY <1>5 DEF UndoRows
  <2> QED BY <1>2, <2>1, <2>2, <2>3
<1>6. CASE rows' = rows BY <1>0, <1>6
<1>7. CASE \/ Start(p) \/ Answer(p) \/ StoreFails(p) \/ Clear(p) \/ UndoMessages(p) \/ Crash(p)
           \/ \E e \in Entry : Ask(p, e)
           \/ \E raised \in {"error", "cancelled"} : Fail(p, raised)
           \/ \E s \in 1 .. starts : Resume(p, s)
  <2>1. rows' = rows
    BY <1>7 DEF Start, Answer, StoreFails, Clear, UndoMessages, Crash, Ask, Fail, Resume, disk
  <2> QED BY <1>6, <2>1
<1> QED BY <1>3, <1>4, <1>5, <1>7 DEF StepOf

LEMMA AgreedStep == Typed /\ Proper /\ Alone /\ Agreed /\ [Next]_vars => Agreed'
<1> SUFFICES ASSUME Typed, Proper, Alone, Agreed, [Next]_vars PROVE Agreed'
  OBVIOUS
<1> USE DEF Typed
<1>0. /\ rows \in Seq(Row) /\ MaxMessages \in Nat /\ MaxMessages > 0
      /\ \A p \in Proc : memory[p].messages \in Seq(Message)
  BY Doing, Constants DEF TypeOK, Row
<1>1. CASE UNCHANGED vars
  <2>1. /\ rows' = rows /\ memory' = memory /\ work' = work /\ session' = session
        /\ up' = up /\ parted' = parted
    BY <1>1 DEF vars
  <2> QED BY <2>1 DEF Agreed
<1>2. CASE Next
  <2>1. PICK p \in Proc : StepOf(p) BY <1>2, NextIsStepOf
  <2>2. /\ rows' \in Seq(Row)
        /\ \A s : rows' = rows \/ s # session[p] => Story(rows', s) = Story(rows, s)
        /\ rows' = rows \/ At(p, {"answered", "stored", "undoing"})
    BY <2>1, RowsOfOthers
  <2>3. ASSUME NEW q \in Proc, q # p, up'[q], q \notin parted'
        PROVE  Agree(memory'[q].messages, Story(rows', session'[q]), work'[q])
    <3>1. /\ memory'[q] = memory[q] /\ work'[q] = work[q] /\ session'[q] = session[q]
          /\ up[q] /\ q \notin parted
      BY <2>1, <2>3, OthersKeep
    <3>2. Story(rows', session[q]) = Story(rows, session[q])
      <4>1. CASE rows' = rows BY <4>1
      <4>2. CASE rows' # rows
        <5>1. up[p] BY <2>2, <4>2 DEF At
        <5>2. session[q] # session[p] BY <2>3, <3>1, <5>1 DEF Alone
        <5> QED BY <2>2, <5>2
      <4> QED BY <4>1, <4>2
    <3>3. Agree(memory[q].messages, Story(rows, session[q]), work[q]) BY <3>1 DEF Agreed
    <3> QED BY <3>1, <3>2, <3>3
  <2>4. SUFFICES ASSUME up'[p], p \notin parted'
                 PROVE  Agree(memory'[p].messages, Story(rows', session'[p]), work'[p])
    BY <2>1, <2>3 DEF Agreed
  <2> DEFINE ms == memory[p].messages
             h == Story(rows, session[p])
             t == work[p].turn
  <2>5. ms \in Seq(Message) /\ h \in Seq(Message) BY <1>0, StoryShape
  <2>6. /\ \A b : [work EXCEPT ![p] = b][p] = b
        /\ \A b : [memory EXCEPT ![p] = b][p] = b
        /\ \A b : [session EXCEPT ![p] = b][p] = b
        /\ \A b : [up EXCEPT ![p] = b][p] = b
    BY Own
  <2>7. up[p] /\ p \notin parted =>
           Agree(ms, h, work[p]) /\ NoDouble(ms) /\ (work[p].phase # "asked" => Answered(ms))
    BY DEF Agreed, Proper
  <2>8. \A a \in {"asked", "answered", "stored"} : work[p].phase = a =>
           t \in 1 .. MaxTurns /\ User(t) \in Message /\ Assistant(t) \in Message
    BY Doing
  <2>9. ASSUME work'[p] = Idle, Exchanges(Story(rows', session'[p])),
               TailsAgree(memory'[p].messages, Story(rows', session'[p]))
        PROVE  Agree(memory'[p].messages, Story(rows', session'[p]), work'[p])
    BY <2>9 DEF Agree, Idle
  <2> HIDE DEF ms, h, t
  <2>10. CASE Start(p)
    <3>1. /\ rows' = rows /\ session' = [session EXCEPT ![p] = starts'] /\ starts' = starts + 1
          /\ work' = work /\ ~up[p]
      BY <2>10 DEF Start
    <3>2. session'[p] = starts + 1 /\ work'[p] = Idle BY <2>6, <3>1 DEF Placed
    <3>3. OfRows(rows, starts + 1) = {}
      <4>1. ASSUME NEW i \in DOMAIN rows PROVE rows[i].session # starts + 1
        <5>1. rows[i] \in Row /\ starts \in Nat BY <1>0 DEF TypeOK
        <5>2. rows[i].session \in Nat /\ rows[i].session <= starts BY <5>1 DEF Row, Placed
        <5> QED BY <5>1, <5>2
      <4> QED BY <4>1 DEF OfRows
    <3>4. Story(rows, starts + 1) = <<>>
      <4>1. Cardinality(OfRows(rows, starts + 1)) = 0 BY <3>3, FS_EmptySet
      <4>2. <<>> \in Seq(Message) /\ Len(<<>>) = 0 OBVIOUS
      <4>3. \A i \in 1 .. Len(<<>>) : rows[Place(OfRows(rows, starts + 1), i)].message = <<>>[i]
        BY <4>2
      <4> QED BY <1>0, <4>1, <4>2, <4>3, StoryIs
    <3>5. Exchanges(<<>>) /\ TailsAgree(memory'[p].messages, <<>>)
      <4>1. Len(<<>>) = 0 OBVIOUS
      <4> QED BY <4>1 DEF Exchanges, TailsAgree
    <3> QED BY <2>9, <3>1, <3>2, <3>4, <3>5
  <2>11. ASSUME NEW e \in Entry, Ask(p, e)
         PROVE  Agree(memory'[p].messages, Story(rows', session'[p]), work'[p])
    <3> DEFINE m == User(turns')
               ms2 == memory'[p].messages
    <3>1. /\ up[p] /\ work[p].phase = "idle" /\ turns' = turns + 1 /\ turns < MaxTurns
          /\ memory' = [memory EXCEPT ![p] = With(memory[p], <<m>>)]
          /\ work' = [work EXCEPT ![p] = Turn("asked", turns', e)]
          /\ UNCHANGED <<rows, session, parted>>
      BY <2>11 DEF Ask, At, Save
    <3>2. m \in Message
      <4>1. turns \in Nat /\ MaxTurns \in Nat BY Constants DEF TypeOK
      <4>2. turns' \in 1 .. MaxTurns BY <3>1, <4>1
      <4> QED BY <4>2 DEF User, Message, Role
    <3>3. work'[p] = Turn("asked", turns', e) BY <2>6, <3>1
    <3>4. work'[p].phase = "asked" /\ User(work'[p].turn) = m BY <3>3 DEF Turn
    <3>5. Exchanges(h) /\ TailsAgree(ms, h) BY <2>4, <2>7, <3>1 DEF Agree
    <3> HIDE DEF m
    <3>6. ms2 = Keep(ms \o <<m>>, MaxMessages)
      <4>1. memory'[p] = With(memory[p], <<m>>) BY <2>6, <3>1
      <4>2. With(memory[p], <<m>>).messages = Keep(memory[p].messages \o <<m>>, MaxMessages)
        BY <3>2, WrittenOne
      <4> QED BY <4>1, <4>2 DEF ms
    <3>7. /\ ms \o <<m>> \in Seq(Message) /\ h \o <<m>> \in Seq(Message)
          /\ Len(ms \o <<m>>) = Len(ms) + 1
      BY <2>5, <3>2, JoinClean
    <3>8. TailsAgree(ms \o <<m>>, h \o <<m>>) BY <2>5, <3>2, <3>5, TailsJoin
    <3>9. TailsAgree(ms2, h \o <<m>>) BY <1>0, <3>6, <3>7, <3>8, TailsKeep
    <3>10. ms2 # <<>>
      <4> DEFINE joined == ms \o <<m>>
      <4> HIDE DEF joined
      <4>0. Len(Keep(joined, MaxMessages)) = IF Len(joined) <= MaxMessages THEN Len(joined) ELSE MaxMessages
        BY <1>0, <3>7, KeepShape DEF joined
      <4> HIDE DEF ms2
      <4>1. Len(ms2) = IF Len(ms \o <<m>>) <= MaxMessages THEN Len(ms \o <<m>>) ELSE MaxMessages
        BY <3>6, <4>0 DEF joined
      <4>2. Len(ms) \in Nat BY <2>5
      <4>3. Len(ms2) > 0 BY <1>0, <3>7, <4>1, <4>2
      <4> QED BY <4>3
    <3>11. Story(rows', session'[p]) = h BY <3>1 DEF h
    <3> HIDE DEF ms2
    <3> QED BY <3>4, <3>5, <3>9, <3>10, <3>11 DEF Agree, ms2
  <2>12. CASE Answer(p)
    <3> DEFINE m == Assistant(t)
               ms2 == memory'[p].messages
               g == h \o <<User(t)>>
    <3>1. /\ up[p] /\ work[p].phase = "asked" /\ p \notin parted
          /\ memory' = [memory EXCEPT ![p] = With(memory[p], <<m>>)]
          /\ work' = [work EXCEPT ![p] = [work[p] EXCEPT !.phase = "answered"]]
          /\ UNCHANGED <<rows, session>>
      BY <2>4, <2>12 DEF Answer, At, Save, t
    <3>2. User(t) \in Message /\ m \in Message BY <2>8, <3>1
    <3>3. work'[p] = [work[p] EXCEPT !.phase = "answered"] BY <2>6, <3>1
    <3>4. work'[p].phase = "answered" /\ work'[p].turn = t BY <3>1, <3>3, Doing DEF t
    <3>5. Exchanges(h) /\ TailsAgree(ms, g) BY <2>7, <3>1 DEF Agree, t
    <3>6. g \in Seq(Message) BY <2>5, <3>2, JoinClean
    <3> HIDE DEF m, g
    <3>7. ms2 = Keep(ms \o <<m>>, MaxMessages)
      <4>1. memory'[p] = With(memory[p], <<m>>) BY <2>6, <3>1
      <4>2. With(memory[p], <<m>>).messages = Keep(memory[p].messages \o <<m>>, MaxMessages)
        BY <3>2, WrittenOne
      <4> QED BY <4>1, <4>2 DEF ms
    <3>8. ms \o <<m>> \in Seq(Message) /\ g \o <<m>> \in Seq(Message)
      BY <2>5, <3>2, <3>6, JoinClean
    <3>9. TailsAgree(ms \o <<m>>, g \o <<m>>) BY <2>5, <3>2, <3>5, <3>6, TailsJoin
    <3>10. TailsAgree(ms2, g \o <<m>>) BY <1>0, <3>7, <3>8, <3>9, TailsKeep
    <3>11. Story(rows', session'[p]) = h BY <3>1 DEF h
    <3> HIDE DEF ms2
    <3> QED BY <3>4, <3>5, <3>10, <3>11 DEF Agree, ms2, m, g
  <2>13. CASE StoreUser(p)
    <3> DEFINE row == [session |-> session[p], message |-> User(t)]
               g == h \o <<User(t)>>
    <3>1. /\ up[p] /\ work[p].phase = "answered" /\ p \notin parted
          /\ rows' = Append(rows, row)
          /\ work' = [work EXCEPT ![p] = [work[p] EXCEPT !.phase = "stored"]]
          /\ UNCHANGED <<memory, session>>
      BY <2>4, <2>13 DEF StoreUser, At, SaveMessage, t
    <3>2. t \in 1 .. MaxTurns /\ User(t) \in Message BY <2>8, <3>1
    <3>3. work'[p] = [work[p] EXCEPT !.phase = "stored"] BY <2>6, <3>1
    <3>4. work'[p].phase = "stored" /\ work'[p].turn = t BY <3>1, <3>3, Doing DEF t
    <3>5. Exchanges(h) /\ TailsAgree(ms, g \o <<Assistant(t)>>) BY <2>7, <3>1 DEF Agree, t
    <3>6. row \in Row /\ row.session = session[p] /\ row.message = User(t)
      <4>1. session[p] \in 1 .. starts /\ starts \in 0 .. MaxStarts /\ MaxStarts \in Nat
        BY <3>1, Constants DEF Placed, TypeOK
      <4>2. session[p] \in 1 .. MaxStarts BY <4>1
      <4> QED BY <3>2, <4>2 DEF Row
    <3> HIDE DEF row
    <3>7. Story(rows', session'[p]) = g
      <4>1. Story(Append(rows, row), row.session) = Story(rows, row.session) \o <<row.message>>
        BY <1>0, <3>6, StoryAppended
      <4> QED BY <3>1, <3>6, <4>1 DEF h
    <3>8. Exchanges(g \o <<Assistant(t)>>) BY <2>5, <3>2, <3>5, ExchangesGrow
    <3> HIDE DEF g
    <3>9. memory'[p].messages = ms BY <3>1 DEF ms
    <3> QED BY <3>4, <3>5, <3>7, <3>8, <3>9 DEF Agree
  <2>14. CASE StoreAssistant(p)
    <3> DEFINE row == [session |-> session[p], message |-> Assistant(t)]
               g == h \o <<Assistant(t)>>
    <3>1. /\ up[p] /\ work[p].phase = "stored" /\ p \notin parted
          /\ rows' = Append(rows, row)
          /\ work' = [work EXCEPT ![p] = Idle]
          /\ UNCHANGED <<memory, session>>
      BY <2>4, <2>14 DEF StoreAssistant, At, SaveMessage, t
    <3>2. Assistant(t) \in Message BY <2>8, <3>1
    <3>3. work'[p] = Idle BY <2>6, <3>1
    <3>4. Exchanges(g) /\ TailsAgree(ms, g) BY <2>7, <3>1 DEF Agree, t
    <3>5. row \in Row /\ row.session = session[p] /\ row.message = Assistant(t)
      <4>1. session[p] \in 1 .. starts /\ starts \in 0 .. MaxStarts /\ MaxStarts \in Nat
        BY <3>1, Constants DEF Placed, TypeOK
      <4>2. session[p] \in 1 .. MaxStarts BY <4>1
      <4> QED BY <3>2, <4>2 DEF Row
    <3> HIDE DEF row
    <3>6. Story(rows', session'[p]) = g
      <4>1. Story(Append(rows, row), row.session) = Story(rows, row.session) \o <<row.message>>
        BY <1>0, <3>5, StoryAppended
      <4> QED BY <3>1, <3>5, <4>1 DEF h
    <3> HIDE DEF g
    <3>7. memory'[p].messages = ms BY <3>1 DEF ms
    <3> QED BY <2>9, <3>3, <3>4, <3>6, <3>7
  <2>15. ~StoreFails(p) BY <2>4 DEF StoreFails
  <2>16. CASE Clear(p)
    <3>1. /\ up[p] /\ work[p].phase = "idle" /\ p \notin parted
          /\ memory' = [memory EXCEPT ![p] = Empty]
          /\ UNCHANGED <<rows, session, work>>
      BY <2>4, <2>16 DEF Clear, At, Save
    <3>2. memory'[p].messages = <<>> BY <2>6, <3>1 DEF Empty
    <3>3. Exchanges(h) BY <2>7, <3>1 DEF Agree
    <3>4. Len(<<>>) = 0 OBVIOUS
    <3>5. TailsAgree(<<>>, h) BY <3>4 DEF TailsAgree
    <3>6. work'[p].phase = "idle" /\ Story(rows', session'[p]) = h BY <3>1 DEF h
    <3> QED BY <3>2, <3>3, <3>5, <3>6 DEF Agree
  <2>17. CASE UndoMessages(p)
    <3> DEFINE drop == LastExchange(ms)
               tr == [memory[p] EXCEPT !.messages = TruncateTo(ms, Len(ms) - drop)]
               ms2 == memory'[p].messages
               keep == Len(h) - 2
               r == SubSeq(h, 1, keep)
    <3>1. /\ up[p] /\ work[p].phase = "idle" /\ p \notin parted /\ Len(h) >= 2
          /\ IF drop > 0 THEN memory' = [memory EXCEPT ![p] = tr] ELSE memory' = memory
          /\ work' = [work EXCEPT ![p] = Undoing(keep)]
          /\ UNCHANGED <<rows, session>>
      BY <2>4, <2>17, HistoryIsStory DEF UndoMessages, At, Save, ms, h
    <3>2. Exchanges(h) /\ TailsAgree(ms, h) /\ Answered(ms) BY <2>7, <3>1 DEF Agree
    <3>3. work'[p] = Undoing(keep) BY <2>6, <3>1
    <3>4. drop \in 0 .. Len(ms) /\ Len(ms) \in Nat /\ Len(h) \in Nat BY <2>5, ExchangeLength
    <3>5. ms2 = SubSeq(ms, 1, Len(ms) - drop)
      <4>1. CASE ~(drop > 0)
        <5>1. drop = 0 /\ memory' = memory BY <3>1, <3>4, <4>1
        <5>2. SubSeq(ms, 1, Len(ms)) = ms BY <2>5
        <5>3. Len(ms) - drop = Len(ms) BY <3>4, <5>1
        <5> QED BY <5>1, <5>2, <5>3 DEF ms
      <4>2. CASE drop > 0
        <5>1. memory'[p] = tr BY <2>6, <3>1, <4>2
        <5>2. TruncateTo(ms, Len(ms) - drop) = SubSeq(ms, 1, Len(ms) - drop)
          BY <2>5, <3>4, TruncateShape
        <5>3. Len(ms) - drop \in 0 .. Len(ms) BY <3>4
        <5>4. tr = [memory[p] EXCEPT !.messages = SubSeq(@, 1, Len(ms) - drop)]
          BY <5>2 DEF ms
        <5> HIDE DEF tr, drop
        <5> QED BY <5>1, <5>3, <5>4, Written DEF ms
      <4> QED BY <4>1, <4>2
    <3>6. TailsAgree(ms2, r)
      <4>1. CASE ms = <<>>
        <5>1. Len(ms) = 0 BY <4>1
        <5>2. drop = 0 /\ Len(ms) - drop = 0 BY <3>4, <5>1
        <5>3. Len(ms2) = 0
          <6>1. 0 \in 0 .. Len(ms) BY <3>4
          <6> QED BY <2>5, <3>5, <5>2, <6>1, PrefixShape
        <5> QED BY <5>3 DEF TailsAgree
      <4>2. CASE ms # <<>> /\ Len(ms) >= 2 /\ ms[Len(ms) - 1].role = "user"
        <5>1. Last(ms).role = "assistant" BY <3>2, <4>2 DEF Answered, Last
        <5>2. drop = 2 BY <4>2, <5>1 DEF LastExchange
        <5> HIDE DEF drop, ms2
        <5>3. 2 \in Nat /\ 2 <= Len(ms) /\ 2 <= Len(h) BY <3>1, <4>2
        <5>4. TailsAgree(SubSeq(ms, 1, Len(ms) - 2), SubSeq(h, 1, Len(h) - 2))
          BY <2>5, <3>2, <5>3, TailsDrop
        <5> QED BY <3>5, <5>2, <5>4
      <4>3. CASE ms # <<>> /\ ~(Len(ms) >= 2 /\ ms[Len(ms) - 1].role = "user")
        <5>1. Last(ms).role = "assistant" BY <3>2, <4>3 DEF Answered, Last
        <5>2. drop = 1 BY <4>3, <5>1 DEF LastExchange
        <5>3. ~(Len(ms) >= 2)
          <6> SUFFICES ASSUME Len(ms) >= 2 PROVE FALSE
            OBVIOUS
          <6>1. 1 \in Nat /\ 1 < Len(ms) /\ 1 < Len(h) BY <3>1, <3>4
          <6>2. ms[Len(ms) - 1] = h[Len(h) - 1] BY <3>2, <6>1 DEF TailsAgree
          <6>3. h[Len(h) - 1].role = "user" BY <2>5, <3>1, <3>2, ExchangesShrink
          <6> QED BY <4>3, <6>2, <6>3
        <5>4. Len(ms) - drop \in 0 .. Len(ms) /\ Len(ms) - drop <= 0 BY <3>4, <5>2, <5>3
        <5> HIDE DEF drop
        <5>5. Len(ms2) = Len(ms) - drop BY <2>5, <3>5, <5>4, PrefixShape
        <5> HIDE DEF ms2
        <5>6. \A i \in Nat : ~(i < Len(ms2)) BY <3>4, <5>4, <5>5
        <5> QED BY <5>6 DEF TailsAgree
      <4> QED BY <4>1, <4>2, <4>3
    <3>7. work'[p].phase = "undoing" /\ work'[p].keep = keep /\ Story(rows', session'[p]) = h
      BY <3>1, <3>3 DEF Undoing, h
    <3> HIDE DEF ms2, drop
    <3> QED BY <3>1, <3>2, <3>6, <3>7 DEF Agree, ms2
  <2>18. CASE UndoRows(p)
    <3> DEFINE keep == work[p].keep
               kept == DOMAIN rows \ Extra(session[p], keep)
               own == OfRows(rows, session[p])
    <3>1. /\ up[p] /\ work[p].phase = "undoing" /\ p \notin parted
          /\ rows' = Subsequence(rows, kept)
          /\ work' = [work EXCEPT ![p] = Idle]
          /\ UNCHANGED <<memory, session>>
      BY <2>4, <2>18 DEF UndoRows, At, TrimSession
    <3>2. Exchanges(h) /\ Len(h) >= 2 /\ keep = Len(h) - 2 /\ TailsAgree(ms, SubSeq(h, 1, keep))
      BY <2>7, <3>1 DEF Agree
    <3>3. work'[p] = Idle BY <2>6, <3>1
    <3>4. /\ Cardinality(own) = Len(h) /\ Len(h) \in Nat
          /\ \A i \in 1 .. Cardinality(own) : Place(own, i) \in own
      BY <1>0, StoryShape DEF h
    <3>5. keep \in 0 .. Cardinality(own) /\ kept \in SUBSET (DOMAIN rows) BY <3>2, <3>4
    <3>6. ASSUME NEW i \in 1 .. Cardinality(own) PROVE Place(own, i) \in kept <=> i <= keep
      <4>1. own \in SUBSET (1 .. Len(rows)) /\ own \subseteq DOMAIN rows /\ Len(rows) \in Nat
        BY <1>0 DEF OfRows
      <4> DEFINE k == Place(own, i)
      <4>2. k \in own /\ Rank(own, k) = i
        <5> HIDE DEF own
        <5> QED BY <4>1, PlacesInOrder
      <4>3. Extra(session[p], keep) = {j \in own : Rank(own, j) > keep}
        BY DEF Extra, Of, OfRows, Rank
      <4> HIDE DEF k, own
      <4>4. k \in Extra(session[p], keep) <=> i > keep BY <4>2, <4>3
      <4>5. k \in kept <=> ~(i > keep) BY <4>1, <4>2, <4>4
      <4>6. i \in Nat /\ keep \in Nat BY <3>4, <3>5
      <4> QED BY <4>5, <4>6 DEF k
    <3> HIDE DEF keep, kept
    <3>7. Story(Subsequence(rows, kept), session[p]) = SubSeq(h, 1, keep)
      BY <1>0, <3>5, <3>6, StoryKept DEF h
    <3>8. Exchanges(SubSeq(h, 1, keep)) BY <2>5, <3>2, ExchangesShrink
    <3>9. memory'[p].messages = ms /\ session'[p] = session[p] BY <3>1 DEF ms
    <3> QED BY <2>9, <3>1, <3>2, <3>3, <3>7, <3>8, <3>9
  <2>19. ~Crash(p) BY <2>4, <2>6 DEF Crash
  <2>20. ASSUME NEW raised \in {"error", "cancelled"}, Fail(p, raised)
         PROVE  Agree(memory'[p].messages, Story(rows', session'[p]), work'[p])
    <3> DEFINE u == h \o <<User(t)>>
               ms2 == memory'[p].messages
    <3>1. /\ up[p] /\ work[p].phase = "asked" /\ p \notin parted
          /\ memory' = [memory EXCEPT ![p] = [memory[p] EXCEPT !.messages = RollbackTurn(@)]]
          /\ work' = [work EXCEPT ![p] = Idle]
          /\ UNCHANGED <<rows, session>>
      BY <2>4, <2>20 DEF Fail, At, Save
    <3>2. User(t) \in Message BY <2>8, <3>1
    <3>3. work'[p] = Idle /\ ms2 = RollbackTurn(ms) BY <2>6, <3>1, WrittenBack DEF ms
    <3>4. Exchanges(h) /\ ms # <<>> /\ TailsAgree(ms, u) /\ NoDouble(ms)
      BY <2>7, <3>1 DEF Agree, t
    <3>5. u \in Seq(Message) /\ Len(u) = Len(h) + 1 /\ u[Len(h) + 1] = User(t)
          /\ \A i \in 1 .. Len(h) : u[i] = h[i]
      BY <2>5, <3>2, JoinClean
    <3> HIDE DEF u, ms2
    <3>6. Len(ms) \in Nat /\ Len(ms) >= 1 /\ Len(h) \in Nat BY <2>5, <3>4
    <3>7. ms[Len(ms)].role = "user"
      <4>1. 0 \in Nat /\ 0 < Len(ms) /\ 0 < Len(u) BY <3>5, <3>6
      <4>2. ms[Len(ms) - 0] = u[Len(u) - 0] BY <3>4, <4>1 DEF TailsAgree
      <4>3. Len(ms) - 0 = Len(ms) /\ Len(u) - 0 = Len(h) + 1 BY <3>5, <3>6
      <4> QED BY <3>5, <4>2, <4>3, MessageRole
    <3>8. RollbackTurn(ms) = SubSeq(ms, 1, Len(ms) - 1)
      <4>1. PICK n \in 0 .. Len(ms) :
               /\ RollbackTurn(ms) = SubSeq(ms, 1, n)
               /\ n # 0 => ms[n].role = "assistant"
               /\ \A i \in 1 .. Len(ms) : ms[i].role = "assistant" => i <= n
        BY <2>5, RollbackShape
      <4>2. n # Len(ms) BY <3>6, <3>7, <4>1
      <4>3. CASE Len(ms) = 1 BY <3>6, <4>1, <4>2, <4>3
      <4>4. CASE Len(ms) # 1
        <5>0. Len(ms) >= 2 BY <3>6, <4>4
        <5>1. /\ Len(ms) - 1 \in 1 .. Len(ms) - 1 /\ Len(ms) - 1 \in 1 .. Len(ms)
              /\ (Len(ms) - 1) + 1 = Len(ms)
          BY <3>6, <5>0
        <5>2. ms[Len(ms) - 1].role # "user" BY <3>4, <3>7, <5>1 DEF NoDouble
        <5>3. ms[Len(ms) - 1] \in Message BY <2>5, <5>1
        <5>4. ms[Len(ms) - 1].role = "assistant" BY <5>2, <5>3, MessageRole
        <5>5. Len(ms) - 1 <= n BY <4>1, <5>1, <5>4
        <5>6. n = Len(ms) - 1 BY <3>6, <4>1, <4>2, <5>5
        <5> QED BY <4>1, <5>6
      <4> QED BY <4>3, <4>4
    <3>9. TailsAgree(SubSeq(ms, 1, Len(ms) - 1), SubSeq(u, 1, Len(u) - 1))
      <4>1. 1 \in Nat /\ 1 <= Len(ms) /\ 1 <= Len(u) BY <3>5, <3>6
      <4> QED BY <2>5, <3>4, <3>5, <4>1, TailsDrop
    <3>10. SubSeq(u, 1, Len(u) - 1) = h
      <4>1. Len(u) - 1 = Len(h) /\ Len(h) \in 0 .. Len(u) BY <3>5, <3>6
      <4>2. /\ SubSeq(u, 1, Len(h)) \in Seq(Message) /\ Len(SubSeq(u, 1, Len(h))) = Len(h)
            /\ \A i \in 1 .. Len(h) : SubSeq(u, 1, Len(h))[i] = u[i]
        BY <3>5, <4>1, PrefixShape
      <4>3. \A i \in 1 .. Len(h) : SubSeq(u, 1, Len(h))[i] = h[i] BY <3>5, <4>2
      <4>4. SubSeq(u, 1, Len(h)) = h BY <2>5, <4>2, <4>3
      <4> QED BY <4>1, <4>4
    <3>11. Story(rows', session'[p]) = h BY <3>1 DEF h
    <3> QED BY <2>9, <3>3, <3>4, <3>8, <3>9, <3>10, <3>11 DEF ms2
  <2>21. ASSUME NEW s \in 1 .. starts, Resume(p, s)
         PROVE  Agree(memory'[p].messages, Story(rows', session'[p]), work'[p])
    <3> DEFINE g == Story(rows, s)
    <3>1. /\ work[p].phase = "idle" /\ UNCHANGED <<rows, work>>
          /\ memory' = [memory EXCEPT ![p] = With(Empty, g)] /\ Exchanges(g)
          /\ session' = [session EXCEPT ![p] = s]
      BY <2>4, <2>21, HistoryIsStory DEF Resume, At, Save
    <3>2. g \in Seq(Message) BY <1>0, StoryShape
    <3>3. session'[p] = s /\ Story(rows', session'[p]) = g BY <2>6, <3>1
    <3> HIDE DEF g
    <3>4. With(Empty, g).messages = Keep(g, MaxMessages) BY <3>2, ResumedShape
    <3>5. memory'[p].messages = Keep(g, MaxMessages) BY <2>6, <3>1, <3>4
    <3>6. TailsAgree(g, g) BY DEF TailsAgree
    <3>7. TailsAgree(Keep(g, MaxMessages), g) BY <1>0, <3>2, <3>6, TailsKeep
    <3>8. work'[p].phase = "idle" BY <3>1
    <3> QED BY <3>1, <3>3, <3>5, <3>7, <3>8 DEF Agree
  <2> QED BY <2>1, <2>10, <2>11, <2>12, <2>13, <2>14, <2>15, <2>16, <2>17, <2>18, <2>19, <2>20,
             <2>21 DEF StepOf
<1> QED BY <1>1, <1>2

\* Between turns the messages an agent remembers and the rows of its session tell
\* one story, unless they have parted: ConversationMemory and SessionStore are
\* written one after the other, and trims, rollbacks, /undo and /resume keep them
\* in step however the processes interleave.
THEOREM OneStory == Spec => []TranscriptsAgree
<1>1. Init => Proper /\ Alone /\ Agreed BY DEF Init, Proper, Alone, Agreed
<1>2. Typed /\ Agreed => TranscriptsAgree
  <2> SUFFICES ASSUME Typed, Agreed, NEW p \in Proc, At(p, {"idle"}), p \notin parted
               PROVE  \/ IsSuffix(memory[p].messages, History(session[p]))
                      \/ IsSuffix(History(session[p]), memory[p].messages)
    BY DEF TranscriptsAgree
  <2>1. TailsAgree(memory[p].messages, Story(rows, session[p])) BY DEF Agreed, Agree, At
  <2>2. rows \in Seq(Row) /\ memory[p].messages \in Seq(Message) BY Doing DEF Typed, TypeOK, Row
  <2>3. Story(rows, session[p]) \in Seq(Message) BY <2>2, StoryShape
  <2> QED BY <2>1, <2>2, <2>3, TailsSuffix, HistoryIsStory
<1> QED BY <1>1, <1>2, TypedInit, TypedStep, ProperStep, AloneStep, AgreedStep, PTL DEF Spec

=============================================================================
