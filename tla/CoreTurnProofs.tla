--------------------------- MODULE CoreTurnProofs ---------------------------
(***************************************************************************)
(* Theorems about CoreTurn, for any chains and any number of tool calls.   *)
(* First comes what grouping, dropping and compaction make of a chain of   *)
(* any length, then the turn itself.                                       *)
(***************************************************************************)
EXTENDS CoreTurn, SequenceTheorems, FiniteSetTheorems, WellFoundedInduction, TLAPS

LEMMA LeastOfNaturals ==
    ASSUME NEW S, S \subseteq Nat, S # {}
    PROVE  Min(S) \in S /\ \A n \in S : Min(S) <= n
<1>1. \A m, n \in Nat : <<n, m>> \in OpToRel(<, Nat) <=> n < m
  BY DEF OpToRel
<1>2. PICK Less : /\ IsWellFoundedOn(Less, Nat)
                  /\ \A m, n \in Nat : <<n, m>> \in Less <=> n < m
  BY <1>1, NatLessThanWellFounded
<1>3. PICK m \in S : \A n \in S : <<n, m>> \notin Less
  BY <1>2, WFMin
<1>4. ASSUME NEW n \in S PROVE m <= n
  <2>1. m \in Nat /\ n \in Nat /\ ~(n < m)
    BY <1>2, <1>3
  <2> QED
    BY <2>1
<1> QED
  BY <1>4 DEF Min

---------------------------------------------------------------------------
(* Ends of a chain *)

SeenIn(messages) == UNION {messages[k].turns : k \in DOMAIN messages}

(* Each message joins turns of its own side, after those of the messages   *)
(* before it.                                                              *)
IsInOrder(messages, turns) ==
    /\ messages \in Seq(Message)
    /\ \A k \in DOMAIN messages : \A i \in messages[k].turns :
          i \in DOMAIN turns /\ turns[i].role = messages[k].role
    /\ \A k, l \in DOMAIN messages :
          l < k => \A i \in messages[k].turns, j \in messages[l].turns : j < i

(* With a turn come all later ones that can be heard. *)
ReachesTheEnd(messages, heard) ==
    \A i \in SeenIn(messages), j \in heard : i < j => j \in SeenIn(messages)

IsTail(messages, turns, heard) ==
    IsInOrder(messages, turns) /\ ReachesTheEnd(messages, heard)

UserFirst(messages) == messages # <<>> => Head(messages).role = "user"

(* The end of messages from position p on. *)
LEMMA EndOfMessages ==
    ASSUME NEW h \in Seq(Message), NEW p \in 1..Len(h) + 1
    PROVE  LET d == SubSeq(h, p, Len(h))
           IN  /\ d \in Seq(Message)
               /\ Len(d) = Len(h) - p + 1
               /\ \A k \in DOMAIN d : k + p - 1 \in DOMAIN h /\ d[k] = h[k + p - 1]
               /\ \A k \in DOMAIN h : k >= p => k - p + 1 \in DOMAIN d /\ h[k] = d[k - p + 1]
<1> DEFINE d == SubSeq(h, p, Len(h))
<1>1. Len(h) \in Nat /\ p \in Int /\ DOMAIN h = 1..Len(h)
  BY LenProperties
<1>2. \A i \in p..Len(h) : h[i] \in Message
  BY <1>1
<1>3. /\ d \in Seq(Message)
      /\ Len(d) = IF p <= Len(h) THEN Len(h) - p + 1 ELSE 0
      /\ \A i \in 1..Len(h) - p + 1 : d[i] = h[p + i - 1]
  BY <1>1, <1>2, SubSeqProperties
<1>4. Len(d) = Len(h) - p + 1
  BY <1>1, <1>3
<1>5. DOMAIN d = 1..Len(h) - p + 1
  BY <1>3, <1>4, LenProperties
<1>6. ASSUME NEW k \in DOMAIN d
      PROVE  k + p - 1 \in DOMAIN h /\ d[k] = h[k + p - 1]
  <2>1. k \in 1..Len(h) - p + 1
    BY <1>5
  <2>2. p + k - 1 = k + p - 1 /\ k + p - 1 \in 1..Len(h)
    BY <1>1, <2>1
  <2> QED
    BY <1>1, <1>3, <2>1, <2>2
<1>7. ASSUME NEW k \in DOMAIN h, k >= p
      PROVE  k - p + 1 \in DOMAIN d /\ h[k] = d[k - p + 1]
  <2>1. k - p + 1 \in 1..Len(h) - p + 1 /\ p + (k - p + 1) - 1 = k
    BY <1>1, <1>7
  <2> QED
    BY <1>3, <1>5, <2>1
<1> QED
  BY <1>3, <1>4, <1>6, <1>7

LEMMA TailOfTail ==
    ASSUME NEW turns, NEW heard, NEW h, IsTail(h, turns, heard), heard \subseteq Nat,
           NEW p \in 1..Len(h) + 1
    PROVE  IsTail(SubSeq(h, p, Len(h)), turns, heard)
<1> DEFINE d == SubSeq(h, p, Len(h))
<1>1. h \in Seq(Message) /\ DOMAIN h = 1..Len(h) /\ Len(h) \in Nat
  BY LenProperties DEF IsTail, IsInOrder
<1>2. /\ d \in Seq(Message)
      /\ \A k \in DOMAIN d : k + p - 1 \in DOMAIN h /\ d[k] = h[k + p - 1]
      /\ \A k \in DOMAIN h : k >= p => k - p + 1 \in DOMAIN d /\ h[k] = d[k - p + 1]
  BY <1>1, EndOfMessages
<1>3. DOMAIN d \subseteq Nat
  BY <1>2, LenProperties
<1>4. IsInOrder(d, turns)
  <2>1. ASSUME NEW k \in DOMAIN d, NEW i \in d[k].turns
        PROVE  i \in DOMAIN turns /\ turns[i].role = d[k].role
    BY <1>2 DEF IsTail, IsInOrder
  <2>2. ASSUME NEW k \in DOMAIN d, NEW l \in DOMAIN d, l < k,
               NEW i \in d[k].turns, NEW j \in d[l].turns
        PROVE  j < i
    <3>1. l + p - 1 < k + p - 1
      BY <1>1, <1>3, <2>2
    <3>2. i \in h[k + p - 1].turns /\ j \in h[l + p - 1].turns
      BY <1>2
    <3> QED
      BY <1>2, <3>1, <3>2 DEF IsTail, IsInOrder
  <2> QED
    BY <1>2, <2>1, <2>2 DEF IsInOrder
<1>5. ASSUME NEW i \in SeenIn(d), NEW j \in heard, i < j PROVE j \in SeenIn(d)
  <2>1. PICK k \in DOMAIN d : i \in d[k].turns
    BY DEF SeenIn
  <2>2. k + p - 1 \in DOMAIN h /\ i \in h[k + p - 1].turns
    BY <1>2, <2>1
  <2>3. j \in SeenIn(h)
    BY <1>5, <2>2 DEF IsTail, ReachesTheEnd, SeenIn
  <2>4. PICK l \in DOMAIN h : j \in h[l].turns
    BY <2>3 DEF SeenIn
  <2>5. l >= k + p - 1
    <3>1. i \in Nat
      <4>1. h[k + p - 1] \in Message
        BY <1>1, <2>2
      <4> QED
        BY <2>2, <4>1 DEF Message
    <3>2. CASE l < k + p - 1
      <4>1. j < i
        BY <2>2, <2>4, <3>2 DEF IsTail, IsInOrder
      <4> QED
        BY <1>5, <3>1, <4>1
    <3> QED
      BY <1>1, <1>3, <3>2
  <2>6. l >= p
    BY <1>1, <1>3, <2>5, LenProperties, <1>2
  <2>7. l - p + 1 \in DOMAIN d /\ h[l] = d[l - p + 1]
    BY <1>2, <2>6
  <2> QED
    BY <2>4, <2>7 DEF SeenIn
<1> QED
  BY <1>4, <1>5 DEF IsTail, ReachesTheEnd

(* A summary in front takes no turn from the messages after it. *)
LEMMA SummaryInFront ==
    ASSUME NEW turns, NEW heard, NEW h, IsTail(h, turns, heard)
    PROVE  /\ IsTail(<<Note>> \o h, turns, heard)
           /\ UserFirst(<<Note>> \o h)
<1> DEFINE d == <<Note>> \o h
<1>1. h \in Seq(Message) /\ Note \in Message /\ <<Note>> \in Seq(Message)
  BY DEF IsTail, IsInOrder, Note, Message, Roles
<1>2. /\ d \in Seq(Message) /\ Len(d) = Len(h) + 1
      /\ \A i \in 1..Len(h) + 1 : d[i] = IF i <= 1 THEN Note ELSE h[i - 1]
  BY <1>1, ConcatProperties
<1>3. Len(h) \in Nat /\ DOMAIN h = 1..Len(h) /\ DOMAIN d = 1..Len(h) + 1
  BY <1>1, <1>2, LenProperties
<1>4. ASSUME NEW k \in DOMAIN d, NEW i \in d[k].turns
      PROVE  k > 1 /\ k - 1 \in DOMAIN h /\ d[k] = h[k - 1] /\ i \in h[k - 1].turns
  BY <1>2, <1>3 DEF Note
<1>5. ASSUME NEW k \in DOMAIN h PROVE k + 1 \in DOMAIN d /\ d[k + 1] = h[k]
  BY <1>2, <1>3
<1>6. SeenIn(d) = SeenIn(h)
  <2>1. \A i \in SeenIn(d) : i \in SeenIn(h)
    BY <1>4 DEF SeenIn
  <2>2. \A i \in SeenIn(h) : i \in SeenIn(d)
    BY <1>5 DEF SeenIn
  <2> QED
    BY <2>1, <2>2
<1>7. IsInOrder(d, turns)
  <2>1. ASSUME NEW k \in DOMAIN d, NEW i \in d[k].turns
        PROVE  i \in DOMAIN turns /\ turns[i].role = d[k].role
    BY <1>4 DEF IsTail, IsInOrder
  <2>2. ASSUME NEW k \in DOMAIN d, NEW l \in DOMAIN d, l < k,
               NEW i \in d[k].turns, NEW j \in d[l].turns
        PROVE  j < i
    <3>1. k - 1 \in DOMAIN h /\ l - 1 \in DOMAIN h
          /\ i \in h[k - 1].turns /\ j \in h[l - 1].turns
      BY <1>4
    <3>2. l - 1 < k - 1
      BY <1>3, <2>2
    <3> QED
      BY <3>1, <3>2 DEF IsTail, IsInOrder
  <2> QED
    BY <1>2, <2>1, <2>2 DEF IsInOrder
<1>8. Head(d).role = "user"
  <2>1. d[1] = Note
    BY <1>2, <1>3
  <2> QED
    BY <1>2, <2>1 DEF Note
<1> QED
  BY <1>6, <1>7, <1>8 DEF IsTail, ReachesTheEnd, UserFirst

---------------------------------------------------------------------------
(* Dropping and compacting *)

LEMMA DropsToUser ==
    ASSUME NEW h \in Seq(Message)
    PROVE  \E p \in 1..Len(h) + 1 :
              /\ DropLeadingAssistant(h) = SubSeq(h, p, Len(h))
              /\ p <= Len(h) => h[p].role = "user"
              /\ \A k \in 1..p - 1 : h[k].role # "user"
<1> DEFINE S == {i \in DOMAIN h : h[i].role = "user"} \cup {Len(h) + 1}
           p == FirstUser(h)
<1>1. Len(h) \in Nat /\ DOMAIN h = 1..Len(h)
  BY LenProperties
<1>2. S \subseteq Nat /\ S # {} /\ p = Min(S)
  BY <1>1 DEF FirstUser
<1>3. p \in S /\ \A n \in S : p <= n
  BY <1>2, LeastOfNaturals
<1>4. p \in 1..Len(h) + 1
  BY <1>1, <1>3
<1>5. p <= Len(h) => h[p].role = "user"
  BY <1>1, <1>3
<1>6. ASSUME NEW k \in 1..p - 1 PROVE h[k].role # "user"
  <2>1. k \in DOMAIN h /\ ~(p <= k)
    BY <1>1, <1>4
  <2> QED
    BY <1>3, <2>1
<1> QED
  BY <1>4, <1>5, <1>6 DEF DropLeadingAssistant

(* What is left is no longer than before, and a user's first. *)
LEMMA Dropped ==
    ASSUME NEW turns, NEW heard, NEW h, IsTail(h, turns, heard), heard \subseteq Nat
    PROVE  LET d == DropLeadingAssistant(h)
           IN  IsTail(d, turns, heard) /\ UserFirst(d) /\ Len(d) <= Len(h)
<1>1. h \in Seq(Message) /\ Len(h) \in Nat
  BY LenProperties DEF IsTail, IsInOrder
<1>2. PICK p \in 1..Len(h) + 1 :
              /\ DropLeadingAssistant(h) = SubSeq(h, p, Len(h))
              /\ p <= Len(h) => h[p].role = "user"
  BY <1>1, DropsToUser
<1> DEFINE d == SubSeq(h, p, Len(h))
<1>3. IsTail(d, turns, heard)
  BY TailOfTail
<1>4. d \in Seq(Message) /\ Len(d) = Len(h) - p + 1
      /\ \A k \in DOMAIN d : d[k] = h[k + p - 1]
  BY <1>1, EndOfMessages
<1>5. ASSUME d # <<>> PROVE Head(d).role = "user"
  <2>1. Len(d) \in Nat /\ Len(d) # 0 /\ DOMAIN d = 1..Len(d)
    BY <1>4, <1>5, LenProperties, EmptySeq
  <2>2. 1 \in DOMAIN d /\ p <= Len(h) /\ 1 + p - 1 = p
    BY <1>1, <1>4, <2>1
  <2>3. d[1].role = "user"
    BY <1>2, <1>4, <2>2
  <2> QED
    BY <1>4, <1>5, <2>3
<1> QED
  BY <1>1, <1>2, <1>3, <1>4, <1>5 DEF UserFirst

LEMMA RecentIsTail ==
    ASSUME NEW turns, NEW heard, NEW h, IsTail(h, turns, heard), heard \subseteq Nat
    PROVE  /\ IsTail(Recent(h), turns, heard)
           /\ Len(Recent(h)) = Len(h) - Len(h) \div 2
<1>1. h \in Seq(Message) /\ Len(h) \in Nat
  BY LenProperties DEF IsTail, IsInOrder
<1>2. Len(h) \div 2 \in Nat /\ Len(h) \div 2 + 1 \in 1..Len(h) + 1
  BY <1>1
<1>3. Len(SubSeq(h, Len(h) \div 2 + 1, Len(h))) = Len(h) - (Len(h) \div 2 + 1) + 1
  BY <1>1, <1>2, EndOfMessages
<1>4. IsTail(SubSeq(h, Len(h) \div 2 + 1, Len(h)), turns, heard)
  BY <1>2, TailOfTail
<1>5. Len(h) - (Len(h) \div 2 + 1) + 1 = Len(h) - Len(h) \div 2
  BY <1>1, <1>2
<1> QED
  BY <1>3, <1>4, <1>5 DEF Recent

(* Either compactor leaves an end of the chain, and makes a history of     *)
(* more than three messages shorter.                                       *)
LEMMA CompactorsKeepTails ==
    ASSUME NEW turns, NEW heard, NEW h, IsTail(h, turns, heard), heard \subseteq Nat
    PROVE  /\ IsTail(SlidingWindow(h), turns, heard)
           /\ IsTail(Summarizer(h), turns, heard)
           /\ Len(h) > 3 => Len(SlidingWindow(h)) < Len(h) /\ Len(Summarizer(h)) < Len(h)
<1>1. h \in Seq(Message) /\ Len(h) \in Nat
  BY LenProperties DEF IsTail, IsInOrder
<1>2. /\ IsTail(Recent(h), turns, heard)
      /\ Len(Recent(h)) = Len(h) - Len(h) \div 2
  BY RecentIsTail
<1>3. IsTail(SlidingWindow(h), turns, heard)
  BY <1>2 DEF SlidingWindow
<1>4. IsTail(Summarizer(h), turns, heard)
  BY <1>2, SummaryInFront DEF Summarizer
<1>5. ASSUME Len(h) > 3
      PROVE  Len(SlidingWindow(h)) < Len(h) /\ Len(Summarizer(h)) < Len(h)
  <2>1. SlidingWindow(h) = Recent(h) /\ Summarizer(h) = <<Note>> \o Recent(h)
    BY <1>1, <1>5 DEF SlidingWindow, Summarizer, Summarizes
  <2>2. Len(<<Note>> \o Recent(h)) = 1 + Len(Recent(h))
    <3>1. Recent(h) \in Seq(Message) /\ <<Note>> \in Seq(Message) /\ Len(<<Note>>) = 1
      BY <1>2 DEF IsTail, IsInOrder, Note, Message, Roles
    <3> QED
      BY <3>1, ConcatProperties
  <2>3. Len(h) \div 2 > 1
    BY <1>1, <1>5
  <2> QED
    BY <1>1, <1>2, <2>1, <2>2, <2>3
<1> QED
  BY <1>3, <1>4, <1>5

---------------------------------------------------------------------------
(* Grouping *)

(* Each turn opens one message or none. *)
LEMMA OpenedByOne ==
    ASSUME NEW turns, NEW i \in Nat \ {0}
    PROVE  /\ Opened(turns, i - 1) \in Nat
           /\ Opened(turns, i) = Opened(turns, i - 1) + IF Opens(turns, i) THEN 1 ELSE 0
<1> DEFINE O(n) == {j \in 1..n : Opens(turns, j)}
<1>1. IsFiniteSet(O(i - 1)) /\ Cardinality(O(i - 1)) \in Nat
  <2>1. IsFiniteSet(1..i - 1)
    BY FS_Interval
  <2>2. O(i - 1) \in SUBSET (1..i - 1)
    OBVIOUS
  <2> QED
    BY <2>1, <2>2, FS_Subset, FS_CardinalityType
<1>2. CASE Opens(turns, i)
  <2>1. O(i) = O(i - 1) \cup {i} /\ i \notin O(i - 1)
    BY <1>2
  <2>2. Cardinality(O(i)) = Cardinality(O(i - 1)) + 1
    BY <1>1, <2>1, FS_AddElement
  <2> QED
    BY <1>1, <1>2, <2>2 DEF Opened
<1>3. CASE ~Opens(turns, i)
  <2>1. O(i) = O(i - 1)
    BY <1>3
  <2> QED
    BY <1>1, <1>3, <2>1 DEF Opened
<1> QED
  BY <1>2, <1>3

LEMMA OpenedGrows ==
    ASSUME NEW turns, NEW i \in Nat, NEW j \in Nat, i <= j
    PROVE  Opened(turns, i) \in Nat /\ Opened(turns, j) \in Nat
           /\ Opened(turns, i) <= Opened(turns, j)
<1> DEFINE O(n) == {k \in 1..n : Opens(turns, k)}
<1>1. ASSUME NEW n \in Nat PROVE IsFiniteSet(O(n)) /\ Cardinality(O(n)) \in Nat
  <2>1. IsFiniteSet(1..n)
    BY FS_Interval
  <2>2. O(n) \in SUBSET (1..n)
    OBVIOUS
  <2> QED
    BY <2>1, <2>2, FS_Subset, FS_CardinalityType
<1>2. O(i) \in SUBSET O(j)
  OBVIOUS
<1>3. Cardinality(O(i)) <= Cardinality(O(j))
  BY <1>1, <1>2, FS_Subset
<1> QED
  BY <1>1, <1>3 DEF Opened

LEMMA NothingOpened == ASSUME NEW turns PROVE Opened(turns, 0) = 0
<1>1. {j \in 1..0 : Opens(turns, j)} = {}
  OBVIOUS
<1> QED
  BY <1>1, FS_EmptySet DEF Opened

(* A turn that contributes is in a message by the time it is grouped. *)
LEMMA ContributingIsOpened ==
    ASSUME NEW turns \in Seq(Turns), NEW i \in DOMAIN turns, Contributes(turns[i])
    PROVE  Opened(turns, i) \in 1..Opened(turns, Len(turns))
<1> DEFINE S == {j \in 1..i : Contributes(turns[j])}
           f == Min(S)
<1>1. Len(turns) \in Nat /\ i \in 1..Len(turns)
  BY LenProperties
<1>2. S \subseteq Nat /\ i \in S
  BY <1>1
<1>3. f \in S /\ \A j \in S : f <= j
  BY <1>2, LeastOfNaturals
<1>4. Opens(turns, f)
  <2>1. \A j \in 1..f - 1 : ~Contributes(turns[j])
    <3> SUFFICES ASSUME NEW j \in 1..f - 1, Contributes(turns[j]) PROVE FALSE
      OBVIOUS
    <3>1. j \in S /\ ~(f <= j)
      BY <1>1, <1>3
    <3> QED
      BY <1>3, <3>1
  <2> QED
    BY <1>3, <2>1 DEF Opens
<1>5. f \in Nat \ {0} /\ f <= i
  BY <1>1, <1>3
<1>6. Opened(turns, f) >= 1
  BY <1>4, <1>5, OpenedByOne
<1>7. Opened(turns, f) <= Opened(turns, i) /\ Opened(turns, i) \in Nat /\ Opened(turns, f) \in Nat
  BY <1>1, <1>5, OpenedGrows
<1>8. Opened(turns, i) <= Opened(turns, Len(turns)) /\ Opened(turns, Len(turns)) \in Nat
  BY <1>1, OpenedGrows
<1> QED
  BY <1>6, <1>7, <1>8

Members(turns, n) ==
    {i \in DOMAIN turns : Contributes(turns[i]) /\ Opened(turns, i) = n}

(* No message is empty: the first turn by which n were opened opened it.   *)
LEMMA MembersExist ==
    ASSUME NEW turns \in Seq(Turns), NEW n \in 1..Opened(turns, Len(turns))
    PROVE  Members(turns, n) # {}
<1> DEFINE S == {i \in DOMAIN turns : Opened(turns, i) >= n}
           f == Min(S)
<1>1. Len(turns) \in Nat /\ DOMAIN turns = 1..Len(turns)
  BY LenProperties
<1>2. Opened(turns, Len(turns)) \in Nat /\ Opened(turns, 0) = 0
  BY <1>1, OpenedGrows, NothingOpened
<1>3. Len(turns) # 0
  <2> SUFFICES ASSUME Len(turns) = 0 PROVE FALSE
    OBVIOUS
  <2>1. Opened(turns, Len(turns)) = 0
    BY <1>2
  <2> QED
    BY <2>1
<1>4. Len(turns) \in S /\ S \subseteq Nat
  BY <1>1, <1>2, <1>3
<1>5. f \in S /\ \A i \in S : f <= i
  BY <1>4, LeastOfNaturals
<1>6. f \in Nat \ {0} /\ f \in DOMAIN turns
  BY <1>1, <1>5
<1>7. Opened(turns, f - 1) < n
  <2>1. CASE f = 1
    BY <1>2, <2>1
  <2>2. CASE f # 1
    <3>1. f - 1 \in DOMAIN turns /\ ~(f <= f - 1)
      BY <1>1, <1>6, <2>2
    <3>2. f - 1 \notin S
      BY <1>5, <3>1
    <3>3. Opened(turns, f - 1) \in Nat
      BY <1>6, OpenedByOne
    <3> QED
      BY <1>2, <3>1, <3>2, <3>3
  <2> QED
    BY <2>1, <2>2
<1>8. Opened(turns, f) >= n
  BY <1>5
<1>9. /\ Opened(turns, f - 1) \in Nat
      /\ Opened(turns, f) = Opened(turns, f - 1) + IF Opens(turns, f) THEN 1 ELSE 0
  BY <1>6, OpenedByOne
<1>10. Opens(turns, f) /\ Opened(turns, f) = n
  BY <1>2, <1>7, <1>8, <1>9
<1> QED
  BY <1>6, <1>10 DEF Members, Opens

(* The turns of a message are of one side: between two of the same message *)
(* no turn opens another.                                                  *)
LEMMA MembersAgree ==
    ASSUME NEW turns \in Seq(Turns), NEW n \in Nat,
           NEW a \in Members(turns, n), NEW b \in Members(turns, n), a <= b
    PROVE  turns[a].role = turns[b].role
<1> DEFINE S == {i \in Members(turns, n) : i >= a /\ turns[i].role # turns[a].role}
           f == Min(S)
<1> SUFFICES ASSUME turns[b].role # turns[a].role PROVE FALSE
  OBVIOUS
<1>1. Len(turns) \in Nat /\ DOMAIN turns = 1..Len(turns)
  BY LenProperties
<1>2. S \subseteq Nat /\ b \in S
  BY <1>1 DEF Members
<1>3. f \in S /\ \A i \in S : f <= i
  BY <1>2, LeastOfNaturals
<1>4. /\ f \in DOMAIN turns /\ Contributes(turns[f]) /\ Opened(turns, f) = n
      /\ a \in DOMAIN turns /\ Contributes(turns[a]) /\ Opened(turns, a) = n
      /\ f > a /\ f \in Nat \ {0} /\ a \in Nat \ {0}
  BY <1>1, <1>3 DEF Members
<1>5. ASSUME NEW i \in a..f - 1 PROVE Opened(turns, i) = n
  <2>1. i \in Nat /\ a <= i /\ i <= f
    BY <1>4
  <2> QED
    BY <1>4, <2>1, OpenedGrows
<1>6. ~Opens(turns, f)
  <2>1. Opened(turns, f - 1) = n
    BY <1>4, <1>5
  <2>2. Opened(turns, f) = n + IF Opens(turns, f) THEN 1 ELSE 0
    BY <1>4, <2>1, OpenedByOne
  <2> QED
    BY <1>4, <2>2
<1>7. PICK j \in 1..f - 1 :
              /\ Contributes(turns[j]) /\ turns[j].role = turns[f].role
              /\ \A k \in j + 1..f - 1 : ~Contributes(turns[k])
  BY <1>4, <1>6 DEF Opens
<1>8. j >= a
  <2> SUFFICES ASSUME j < a PROVE FALSE
    BY <1>4
  <2>1. a \in j + 1..f - 1
    BY <1>4
  <2> QED
    BY <1>4, <1>7, <2>1
<1>9. j \in Members(turns, n)
  BY <1>1, <1>4, <1>5, <1>7, <1>8 DEF Members
<1>10. j \in S
  BY <1>3, <1>7, <1>8, <1>9
<1>11. f <= j
  BY <1>3, <1>10
<1> QED
  BY <1>4, <1>7, <1>11

(* Grouping keeps every turn that contributes, in order and on its side.   *)
LEMMA GroupsAreTheTurns ==
    ASSUME NEW turns \in Seq(Turns)
    PROVE  LET g == Grouped(turns)
           IN  /\ IsInOrder(g, turns)
               /\ SeenIn(g) = {i \in DOMAIN turns : Contributes(turns[i])}
<1> DEFINE g == Grouped(turns)
           N == Opened(turns, Len(turns))
<1>1. Len(turns) \in Nat /\ DOMAIN turns = 1..Len(turns)
  BY LenProperties
<1>2. N \in Nat
  BY <1>1, OpenedGrows
<1>3. /\ DOMAIN g = 1..N
      /\ \A n \in 1..N : g[n] = [role |-> turns[Min(Members(turns, n))].role,
                                 turns |-> Members(turns, n)]
  BY DEF Grouped, Members
<1>3a. ASSUME NEW n \in 1..N
           PROVE  /\ g[n].turns = Members(turns, n)
                  /\ \A i : i \in g[n].turns <=> /\ i \in DOMAIN turns
                                                 /\ Contributes(turns[i])
                                                 /\ Opened(turns, i) = n
  <2>1. g[n].turns = Members(turns, n)
    BY <1>3
  <2> QED
    BY <2>1 DEF Members
<1>4. ASSUME NEW n \in 1..N
      PROVE  /\ g[n] \in Message
             /\ \A i \in g[n].turns : i \in DOMAIN turns /\ turns[i].role = g[n].role
  <2> DEFINE f == Min(Members(turns, n))
  <2>1. Members(turns, n) \subseteq DOMAIN turns /\ Members(turns, n) \subseteq Nat
    BY <1>1 DEF Members
  <2>2. f \in Members(turns, n) /\ \A i \in Members(turns, n) : f <= i
    BY <2>1, MembersExist, LeastOfNaturals
  <2>3. turns[f] \in Turns
    BY <1>1, <2>1, <2>2
  <2>4. g[n] \in Message
    BY <1>3, <2>1, <2>3 DEF Message, Turns
  <2>5. ASSUME NEW i \in Members(turns, n) PROVE turns[i].role = turns[f].role
    BY <1>2, <2>2, MembersAgree
  <2> QED
    BY <1>3, <2>1, <2>4, <2>5
<1>5. g \in Seq(Message)
  <2>1. g \in [1..N -> Message]
    BY <1>3, <1>4 DEF Grouped
  <2> QED
    BY <1>2, <2>1, IsASeq, SeqDef
<1>6. ASSUME NEW k \in 1..N, NEW l \in 1..N, l < k,
             NEW i \in g[k].turns, NEW j \in g[l].turns
      PROVE  j < i
  <2>1. /\ i \in DOMAIN turns /\ Opened(turns, i) = k
        /\ j \in DOMAIN turns /\ Opened(turns, j) = l
    BY <1>3a
  <2>2. CASE i <= j
    BY <1>1, <1>6, <2>1, <2>2, OpenedGrows
  <2> QED
    BY <1>1, <2>1, <2>2
<1>7. SeenIn(g) = {i \in DOMAIN turns : Contributes(turns[i])}
  <2>1. ASSUME NEW i \in SeenIn(g) PROVE i \in DOMAIN turns /\ Contributes(turns[i])
    BY <1>3, <1>3a DEF SeenIn
  <2>2. ASSUME NEW i \in DOMAIN turns, Contributes(turns[i]) PROVE i \in SeenIn(g)
    <3>1. Opened(turns, i) \in 1..N
      BY <2>2, ContributingIsOpened
    <3>2. i \in g[Opened(turns, i)].turns
      BY <1>3a, <2>2, <3>1
    <3> QED
      BY <1>3, <3>1, <3>2 DEF SeenIn
  <2> QED
    BY <2>1, <2>2
<1> QED
  BY <1>3, <1>4, <1>5, <1>6, <1>7 DEF IsInOrder

(* The turns with a text, from the first of a user's on. *)
HeardOf(turns) ==
    {i \in DOMAIN turns :
        /\ ~turns[i].blank
        /\ \E j \in 1..i : turns[j].role = "user" /\ ~turns[j].blank}

(* The first run is given all of a chain that can be heard, and nothing    *)
(* else, a user's turn first.                                              *)
LEMMA FirstRunSeesAll ==
    ASSUME NEW turns \in Seq(Turns)
    PROVE  /\ IsTail(ToModelMessages(turns), turns, HeardOf(turns))
           /\ UserFirst(ToModelMessages(turns))
           /\ SeenIn(ToModelMessages(turns)) = HeardOf(turns)
<1> DEFINE g == Grouped(turns)
           d == ToModelMessages(turns)
<1>1. Len(turns) \in Nat /\ DOMAIN turns = 1..Len(turns) /\ HeardOf(turns) \subseteq Nat
  BY LenProperties DEF HeardOf
<1>2. /\ IsInOrder(g, turns)
      /\ SeenIn(g) = {i \in DOMAIN turns : Contributes(turns[i])}
  BY GroupsAreTheTurns
<1>3. g \in Seq(Message) /\ Len(g) \in Nat /\ DOMAIN g = 1..Len(g)
  BY <1>2, LenProperties DEF IsInOrder
<1>4. IsTail(g, turns, HeardOf(turns))
  BY <1>2 DEF IsTail, ReachesTheEnd, HeardOf, Contributes
<1>5. IsTail(d, turns, HeardOf(turns)) /\ UserFirst(d)
  BY <1>1, <1>4, Dropped DEF ToModelMessages
<1>6. PICK p \in 1..Len(g) + 1 :
              /\ d = SubSeq(g, p, Len(g))
              /\ p <= Len(g) => g[p].role = "user"
              /\ \A k \in 1..p - 1 : g[k].role # "user"
  BY <1>3, DropsToUser DEF ToModelMessages
<1>7. /\ \A k \in DOMAIN d : k + p - 1 \in DOMAIN g /\ d[k] = g[k + p - 1]
      /\ \A k \in DOMAIN g : k >= p => k - p + 1 \in DOMAIN d /\ g[k] = d[k - p + 1]
      /\ DOMAIN d \subseteq Nat \ {0}
  BY <1>3, <1>6, EndOfMessages, LenProperties
<1>8. ASSUME NEW i \in SeenIn(d) PROVE i \in HeardOf(turns)
  <2>1. PICK k \in DOMAIN d : i \in d[k].turns
    BY DEF SeenIn
  <2>2. k + p - 1 \in DOMAIN g /\ i \in g[k + p - 1].turns /\ k + p - 1 >= p
    BY <1>7, <2>1
  <2>3. i \in DOMAIN turns /\ Contributes(turns[i])
    BY <1>2, <2>2 DEF SeenIn
  <2>4. p \in DOMAIN g /\ g[p].role = "user" /\ p \in 1..Len(g)
    BY <1>3, <1>6, <2>2
  <2>5. \E j \in 1..i : turns[j].role = "user" /\ ~turns[j].blank
    <3>1. CASE k + p - 1 = p
      <4>1. turns[i].role = "user"
        BY <1>2, <2>2, <2>4, <3>1 DEF IsInOrder
      <4> QED
        BY <1>1, <2>3, <4>1 DEF Contributes
    <3>2. CASE k + p - 1 > p
      <4>1. PICK j \in g[p].turns : TRUE
        BY <2>4, MembersExist DEF Grouped, Members
      <4>2. j < i /\ j \in DOMAIN turns /\ turns[j].role = "user"
        BY <1>2, <2>2, <2>4, <3>2 DEF IsInOrder
      <4>3. Contributes(turns[j])
        BY <1>2, <2>4 DEF SeenIn
      <4> QED
        BY <1>1, <2>3, <4>2, <4>3 DEF Contributes
    <3> QED
      BY <1>7, <2>2, <3>1, <3>2
  <2> QED
    BY <2>3, <2>5 DEF HeardOf, Contributes
<1>9. ASSUME NEW i \in HeardOf(turns) PROVE i \in SeenIn(d)
  <2>1. i \in DOMAIN turns /\ Contributes(turns[i])
    BY DEF HeardOf, Contributes
  <2>2. PICK j \in 1..i : turns[j].role = "user" /\ ~turns[j].blank
    BY DEF HeardOf
  <2>3. j \in DOMAIN turns /\ Contributes(turns[j])
    BY <1>1, <2>1, <2>2 DEF Contributes
  <2>4. PICK k \in DOMAIN g : i \in g[k].turns
    BY <1>2, <2>1 DEF SeenIn
  <2>5. PICK l \in DOMAIN g : j \in g[l].turns
    BY <1>2, <2>3 DEF SeenIn
  <2>6. l >= p
    <3>1. g[l].role = "user"
      BY <1>2, <2>2, <2>5 DEF IsInOrder
    <3>2. CASE l < p
      <4>1. l \in 1..p - 1
        BY <1>3, <3>2
      <4> QED
        BY <1>6, <3>1, <4>1
    <3> QED
      BY <1>3, <3>2
  <2>7. k >= l
    <3>1. CASE k < l
      <4>1. i < j
        BY <1>2, <2>4, <2>5, <3>1 DEF IsInOrder
      <4> QED
        BY <1>1, <2>1, <2>2, <4>1
    <3> QED
      BY <1>3, <3>1
  <2>8. k >= p
    BY <1>3, <2>6, <2>7
  <2>9. k - p + 1 \in DOMAIN d /\ i \in d[k - p + 1].turns
    BY <1>7, <2>4, <2>8
  <2> QED
    BY <2>9 DEF SeenIn
<1> QED
  BY <1>5, <1>8, <1>9

---------------------------------------------------------------------------
Outcomes == {"running", "returned", "rejected"}

---------------------------------------------------------------------------
(***************************************************************************)
(* The run.  Besides its types: a turn that has just arrived has called    *)
(* nothing, so the first run begins with no call open, and a run that is   *)
(* compacted was not the last.                                             *)
(***************************************************************************)
RunTypes ==
    /\ service \in Services /\ inp \in Inputs
    /\ pc \in {"arrived", "model", "tools", "compacting", "gave_up", "raised",
              "command", "stylist", "answered", "dropped"}
    /\ attempt \in 0..MaxCompactionRetries
    /\ calls \in Seq(Outcomes) /\ Len(calls) <= MaxCalls
    /\ attachments \in Seq((1..attempt + 1) \X (1..MaxCalls))
    /\ result \in Results
    /\ answer.by \in {"nobody", "agent", "malformed", "crashed", "out_of_time",
                     "skill", "stylist"}

CallsOpen ==
    /\ pc \in {"arrived", "model"} => Running = {}
    /\ pc = "tools" => Running # {}
    /\ pc = "compacting" => attempt < MaxCompactionRetries

RunInv == RunTypes /\ CallsOpen

LEMMA RunInit == Init => RunInv
BY CoreAssumption
DEF Init, RunInv, RunTypes, CallsOpen, Running, Results, NoAnswer, MaxCompactionRetries

(* Steps that leave the run alone, or end it. *)
LEMMA RunEnds ==
    ASSUME RunInv, UNCHANGED <<service, inp, attempt, calls, attachments>>,
           pc' \in {"gave_up", "raised", "command", "stylist", "answered", "dropped"},
           result' \in Results,
           answer'.by \in {"nobody", "agent", "malformed", "crashed", "out_of_time",
                           "skill", "stylist"}
    PROVE  RunInv'
BY DEF RunInv, RunTypes, CallsOpen

LEMMA CallAnswered ==
    ASSUME RunInv, NEW i, NEW outcome \in {"returned", "rejected"}, Answered(i, outcome)
    PROVE  /\ pc = "tools" /\ pc' \in {"model", "tools"}
           /\ calls' \in Seq(Outcomes) /\ Len(calls') = Len(calls)
           /\ DOMAIN calls' = DOMAIN calls
           /\ i \in DOMAIN calls /\ i \in 1..MaxCalls
           /\ pc' = "model" => Running' = {}
           /\ pc' = "tools" => Running' # {}
<1>1. calls \in Seq(Outcomes) /\ Len(calls) \in Nat /\ DOMAIN calls = 1..Len(calls)
  BY LenProperties DEF RunInv, RunTypes
<1>2. i \in DOMAIN calls /\ i \in Running
  BY DEF Answered, Running
<1>3. calls' = [calls EXCEPT ![i] = outcome]
  BY DEF Answered
<1>4. calls' \in Seq(Outcomes) /\ Len(calls') = Len(calls) /\ DOMAIN calls' = DOMAIN calls
  BY <1>1, <1>2, <1>3, ExceptSeq DEF Outcomes
<1>5. Running' = Running \ {i}
  BY <1>1, <1>2, <1>3, <1>4 DEF Running
<1> QED
  BY <1>1, <1>2, <1>4, <1>5, CoreAssumption DEF Answered, RunInv, RunTypes

(* A card set aside is a call of this run. *)
LEMMA CardSetAside ==
    ASSUME RunInv, NEW i \in 1..MaxCalls
    PROVE  /\ Append(attachments, <<attempt + 1, i>>)
                 \in Seq((1..attempt + 1) \X (1..MaxCalls))
           /\ Len(Append(attachments, <<attempt + 1, i>>)) = Len(attachments) + 1
           /\ \A k \in 1..Len(attachments) :
                 Append(attachments, <<attempt + 1, i>>)[k] = attachments[k]
           /\ Append(attachments, <<attempt + 1, i>>)[Len(attachments) + 1]
                 = <<attempt + 1, i>>
<1>1. attempt + 1 \in 1..attempt + 1
  BY DEF RunInv, RunTypes, MaxCompactionRetries
<1> QED
  BY <1>1, AppendProperties DEF RunInv, RunTypes

LEMMA RunNext == RunInv /\ [Next]_vars => RunInv'
<1> SUFFICES ASSUME RunInv, [Next]_vars PROVE RunInv'
  OBVIOUS
<1>0. calls \in Seq(Outcomes) /\ Len(calls) \in Nat /\ DOMAIN calls = 1..Len(calls)
  BY LenProperties DEF RunInv, RunTypes
<1>1. CASE Malformed \/ Escape \/ Crash \/ OutOfTime
  BY <1>1, RunEnds DEF Malformed, Escape, Crash, OutOfTime, Reply, Plain, NoAnswer, runVars,
                       RunInv, RunTypes
<1>2. CASE Route
  <2>1. /\ UNCHANGED <<service, inp, attempt, calls, attachments, result, answer>>
        /\ pc = "arrived" /\ pc' \in {"command", "model", "raised"}
    BY <1>2 DEF Route
  <2> QED
    BY <2>1 DEF RunInv, RunTypes, CallsOpen, Running
<1>3. CASE ModelCalls
  <2>1. PICK n \in 1..(MaxCalls - Len(calls)) :
                calls' = calls \o [i \in 1..n |-> "running"]
    BY <1>3 DEF ModelCalls
  <2>2. n \in Nat \ {0} /\ Len(calls) + n <= MaxCalls
    BY <1>0, CoreAssumption DEF RunInv, RunTypes
  <2> DEFINE new == [i \in 1..n |-> "running"]
  <2>3. new \in Seq(Outcomes) /\ Len(new) = n
    <3>1. new \in [1..n -> Outcomes]
      BY DEF Outcomes
    <3>2. new \in Seq(Outcomes)
      BY <2>2, <3>1, SeqDef
    <3> QED
      BY <2>2, <3>2, LenProperties
  <2>4. /\ calls' \in Seq(Outcomes) /\ Len(calls') = Len(calls) + n
        /\ calls'[Len(calls) + 1] = "running"
    <3>1. new[1] = "running"
      BY <2>2
    <3>2. /\ calls \o new \in Seq(Outcomes)
          /\ Len(calls \o new) = Len(calls) + n
          /\ (calls \o new)[Len(calls) + 1] = new[Len(calls) + 1 - Len(calls)]
      BY <1>0, <2>2, <2>3, ConcatProperties
    <3>3. Len(calls) + 1 - Len(calls) = 1
      BY <1>0
    <3> QED
      BY <2>1, <3>1, <3>2, <3>3
  <2>5. Running' # {}
    <3>1. DOMAIN calls' = 1..Len(calls')
      BY <2>4, LenProperties
    <3>2. Len(calls) + 1 \in DOMAIN calls'
      BY <1>0, <2>2, <2>4, <3>1
    <3> QED
      BY <2>4, <3>2 DEF Running
  <2> QED
    BY <1>3, <2>2, <2>4, <2>5 DEF ModelCalls, RunInv, RunTypes, CallsOpen
<1>4. ASSUME NEW i \in DOMAIN calls, ToolReturns(i) PROVE RunInv'
  <2>1. Answered(i, "returned")
    BY <1>4 DEF ToolReturns
  <2>2. attachments' \in Seq((1..attempt + 1) \X (1..MaxCalls))
    BY <1>4, <2>1, CallAnswered, CardSetAside DEF ToolReturns, RunInv, RunTypes
  <2> QED
    BY <1>4, <2>1, <2>2, CallAnswered DEF ToolReturns, RunInv, RunTypes, CallsOpen
<1>5. ASSUME NEW i \in DOMAIN calls, ToolReports(i) \/ ToolRejected(i) PROVE RunInv'
  <2>1. PICK outcome \in {"returned", "rejected"} : Answered(i, outcome)
    BY <1>5 DEF ToolReports, ToolRejected
  <2>2. UNCHANGED <<service, inp, attempt, attachments, result, answer>>
    BY <1>5 DEF ToolReports, ToolRejected
  <2> QED
    BY <2>1, <2>2, CallAnswered DEF RunInv, RunTypes, CallsOpen
<1>6. CASE ModelAnswers
  BY <1>6, RunEnds DEF ModelAnswers, Reply, runVars, RunInv, RunTypes
<1>7. CASE RunRaises \/ SummaryRaises \/ CommandRaises
  BY <1>7, RunEnds DEF RunRaises, SummaryRaises, CommandRaises, runVars, RunInv, RunTypes
<1>8. CASE Overflow
  <2>1. /\ UNCHANGED <<service, inp, attempt, calls, attachments, result, answer>>
        /\ pc' = IF attempt = MaxCompactionRetries THEN "gave_up" ELSE "compacting"
    BY <1>8 DEF Overflow, LastAttempt, runVars
  <2> QED
    BY <2>1 DEF RunInv, RunTypes, CallsOpen, MaxCompactionRetries
<1>9. CASE Compact
  <2>1. CASE pc' = "gave_up" /\ UNCHANGED <<history, attempt, calls>>
    BY <1>9, <2>1, RunEnds DEF Compact, RunInv, RunTypes
  <2>2. CASE pc' = "model" /\ attempt' = attempt + 1 /\ calls' = <<>>
    <3>1. attempt' \in 0..MaxCompactionRetries
      BY <1>9, <2>2 DEF Compact, RunInv, RunTypes, CallsOpen, MaxCompactionRetries
    <3>2. attachments' \in Seq((1..attempt' + 1) \X (1..MaxCalls))
      <4>1. (1..attempt + 1) \X (1..MaxCalls) \subseteq (1..attempt' + 1) \X (1..MaxCalls)
        BY <2>2 DEF RunInv, RunTypes, MaxCompactionRetries
      <4>2. attachments' = attachments
        BY <1>9 DEF Compact
      <4> QED
        BY <4>1, <4>2 DEF RunInv, RunTypes
    <3>3. Running' = {}
      BY <2>2 DEF Running
    <3>4. calls' \in Seq(Outcomes) /\ Len(calls') <= MaxCalls
      BY <2>2, CoreAssumption
    <3> QED
      BY <1>9, <2>2, <3>1, <3>2, <3>3, <3>4 DEF Compact, RunInv, RunTypes, CallsOpen
  <2> QED
    BY <1>9, <2>1, <2>2 DEF Compact
<1>10. CASE RunCommand
  BY <1>10, RunEnds DEF RunCommand, runVars, RunInv, RunTypes
<1>11. CASE Stylize
  BY <1>11, RunEnds DEF Stylize, Reply, Plain, NoAnswer, Voice, runVars, RunInv, RunTypes
<1>12. CASE UNCHANGED vars
  BY <1>12 DEF vars, runVars, RunInv, RunTypes, CallsOpen, Running
<1> QED
  BY <1>1, <1>2, <1>3, <1>4, <1>5, <1>6, <1>7, <1>8, <1>9, <1>10, <1>11, <1>12 DEF Next

---------------------------------------------------------------------------
(***************************************************************************)
(* The cards.  deps.attachments is in the order of the runs, so if this    *)
(* run has a card the last card is this run's; and a card of this run is   *)
(* one of its calls.                                                       *)
(***************************************************************************)
CardsInOrder ==
    \A k, l \in DOMAIN attachments : k <= l => attachments[k][1] <= attachments[l][1]

CardsAreCalls ==
    \A k \in DOMAIN attachments :
        attachments[k][1] = attempt + 1 => attachments[k][2] \in DOMAIN calls

CardInv ==
    /\ CardsInOrder /\ CardsAreCalls /\ FreshCardWins
    /\ pc # "answered" => answer.by # "agent"

LEMMA CardInit == Init => CardInv
BY DEF Init, CardInv, CardsInOrder, CardsAreCalls, FreshCardWins, NoAnswer

LEMMA CardNext == RunInv /\ CardInv /\ [Next]_vars => CardInv'
<1> SUFFICES ASSUME RunInv, CardInv, [Next]_vars PROVE CardInv'
  OBVIOUS
<1>0. /\ attachments \in Seq((1..attempt + 1) \X (1..MaxCalls))
      /\ Len(attachments) \in Nat /\ DOMAIN attachments = 1..Len(attachments)
      /\ attempt \in Nat
  BY LenProperties DEF RunInv, RunTypes, MaxCompactionRetries
<1>bounds. \A k \in DOMAIN attachments : attachments[k][1] \in 1..attempt + 1
  <2>1. \A k \in DOMAIN attachments : attachments[k] \in (1..attempt + 1) \X (1..MaxCalls)
    BY <1>0
  <2> QED
    BY <2>1
<1>1. ASSUME UNCHANGED <<attempt, calls, attachments>>, answer'.by # "agent"
      PROVE  CardInv'
  BY <1>1 DEF CardInv, CardsInOrder, CardsAreCalls, FreshCardWins
<1>2. CASE Malformed \/ Crash \/ OutOfTime \/ Stylize
  BY <1>1, <1>2 DEF Malformed, Crash, OutOfTime, Stylize, Reply, Plain, NoAnswer, Voice,
                    runVars
<1>3. CASE Route \/ Escape \/ RunRaises \/ Overflow \/ SummaryRaises \/ RunCommand \/ CommandRaises
  <2>1. pc # "answered" /\ UNCHANGED <<attempt, calls, attachments, answer>>
    BY <1>3 DEF Route, Escape, RunRaises, Overflow, SummaryRaises, RunCommand, CommandRaises, runVars
  <2> QED
    BY <1>1, <2>1 DEF CardInv
<1>4. CASE ModelCalls
  <2>1. PICK n \in 1..(MaxCalls - Len(calls)) :
                calls' = calls \o [i \in 1..n |-> "running"]
    BY <1>4 DEF ModelCalls
  <2>2. pc = "model" /\ UNCHANGED <<attempt, attachments, answer>>
    BY <1>4 DEF ModelCalls
  <2>3. calls \in Seq(Outcomes) /\ calls' \in Seq(Outcomes)
    BY RunNext DEF RunInv, RunTypes
  <2>4. DOMAIN calls \subseteq DOMAIN calls'
    <3>1. n \in Nat /\ Len(calls) \in Nat
      BY <2>3, LenProperties, CoreAssumption
    <3>2. [i \in 1..n |-> "running"] \in Seq(Outcomes) /\ Len([i \in 1..n |-> "running"]) = n
      <4>1. [i \in 1..n |-> "running"] \in [1..n -> Outcomes]
        BY DEF Outcomes
      <4>2. [i \in 1..n |-> "running"] \in Seq(Outcomes)
        BY <3>1, <4>1, SeqDef
      <4> QED
        BY <3>1, <4>2, LenProperties
    <3>3. Len(calls') = Len(calls) + n
      BY <2>1, <2>3, <3>2, ConcatProperties
    <3>4. DOMAIN calls = 1..Len(calls) /\ DOMAIN calls' = 1..Len(calls')
      BY <2>3, LenProperties
    <3> QED
      BY <3>1, <3>3, <3>4
  <2> QED
    BY <2>2, <2>4 DEF CardInv, CardsInOrder, CardsAreCalls, FreshCardWins
<1>5. ASSUME NEW i \in DOMAIN calls, ToolReturns(i) \/ ToolReports(i) \/ ToolRejected(i)
      PROVE  CardInv'
  <2>1. PICK outcome \in {"returned", "rejected"} : Answered(i, outcome)
    BY <1>5 DEF ToolReturns, ToolReports, ToolRejected
  <2>2. pc = "tools" /\ DOMAIN calls' = DOMAIN calls /\ i \in 1..MaxCalls
    BY <2>1, CallAnswered
  <2>3. UNCHANGED <<attempt, answer>> /\ answer.by # "agent"
    BY <1>5, <2>2 DEF ToolReturns, ToolReports, ToolRejected, CardInv
  <2>4. CASE attachments' = attachments
    BY <2>2, <2>3, <2>4 DEF CardInv, CardsInOrder, CardsAreCalls, FreshCardWins
  <2>5. CASE attachments' = Append(attachments, <<attempt + 1, i>>)
    <3>1. /\ attachments' \in Seq((1..attempt + 1) \X (1..MaxCalls))
          /\ Len(attachments') = Len(attachments) + 1
          /\ \A k \in 1..Len(attachments) : attachments'[k] = attachments[k]
          /\ attachments'[Len(attachments) + 1] = <<attempt + 1, i>>
      BY <2>2, <2>5, CardSetAside
    <3>2. DOMAIN attachments' = 1..Len(attachments) + 1
      BY <3>1, LenProperties
    <3>3. ASSUME NEW k \in DOMAIN attachments'
          PROVE  \/ k \in DOMAIN attachments /\ attachments'[k] = attachments[k]
                 \/ /\ k = Len(attachments) + 1
                    /\ attachments'[k][1] = attempt + 1 /\ attachments'[k][2] = i
      <4>1. k \in DOMAIN attachments \/ k = Len(attachments) + 1
        BY <1>0, <3>2, <3>3
      <4>2. CASE k \in DOMAIN attachments
        BY <1>0, <3>1, <4>2
      <4>3. CASE k = Len(attachments) + 1
        BY <3>1, <4>3
      <4> QED
        BY <4>1, <4>2, <4>3
    <3>4. CardsInOrder'
      <4> SUFFICES ASSUME NEW k \in DOMAIN attachments', NEW l \in DOMAIN attachments', k <= l
                   PROVE  attachments'[k][1] <= attachments'[l][1]
        BY DEF CardsInOrder
      <4>1. CASE l \in DOMAIN attachments
        <5>1. k \in DOMAIN attachments
          BY <1>0, <3>2, <4>1
        <5> QED
          BY <1>0, <3>1, <4>1, <5>1 DEF CardInv, CardsInOrder
      <4>2. CASE l = Len(attachments) + 1
        <5>1. attachments'[l][1] = attempt + 1
          BY <3>1, <4>2
        <5>2. attachments'[k][1] <= attempt + 1
          BY <1>0, <1>bounds, <3>3
        <5> QED
          BY <5>1, <5>2
      <4> QED
        BY <3>3, <4>1, <4>2
    <3>5. CardsAreCalls'
      BY <2>2, <2>3, <3>3 DEF CardInv, CardsAreCalls
    <3> QED
      BY <2>3, <3>4, <3>5 DEF CardInv, FreshCardWins
  <2> QED
    BY <1>5, <2>4, <2>5 DEF ToolReturns, ToolReports, ToolRejected
<1>6. CASE ModelAnswers
  <2>1. /\ UNCHANGED <<attempt, calls, attachments>> /\ pc' = "answered"
        /\ answer' = [by |-> "agent", card |-> Card,
                      calls |-> {<<attempt + 1, i>> : i \in DOMAIN calls}]
    BY <1>6 DEF ModelAnswers, Reply, runVars
  <2>2. ASSUME NEW k \in DOMAIN attachments, attachments[k][1] = attempt + 1
        PROVE  Card \in {<<attempt + 1, i>> : i \in DOMAIN calls}
    <3> DEFINE n == Len(attachments)
    <3>1. n \in DOMAIN attachments /\ k <= n /\ attachments # <<>>
      BY <1>0
    <3>2. attachments[n] \in (1..attempt + 1) \X (1..MaxCalls)
      BY <1>0, <3>1
    <3>3. attachments[n][1] = attempt + 1
      <4>1. attachments[k][1] <= attachments[n][1]
        BY <3>1 DEF CardInv, CardsInOrder
      <4> QED
        BY <1>0, <2>2, <3>2, <4>1
    <3>4. attachments[n][2] \in DOMAIN calls
      BY <3>1, <3>3 DEF CardInv, CardsAreCalls
    <3>5. attachments[n] = <<attempt + 1, attachments[n][2]>>
      BY <3>2, <3>3
    <3> QED
      BY <3>1, <3>4, <3>5 DEF Card
  <2>3. FreshCardWins'
    BY <2>1, <2>2 DEF FreshCardWins
  <2> QED
    BY <2>1, <2>3 DEF CardInv, CardsInOrder, CardsAreCalls
<1>7. CASE Compact
  <2>1. pc # "answered" /\ UNCHANGED <<attachments, answer>> /\ answer.by # "agent"
    BY <1>7 DEF Compact, CardInv
  <2>2. CASE UNCHANGED <<attempt, calls>>
    BY <1>1, <2>1, <2>2
  <2>3. CASE attempt' = attempt + 1
    <3>1. \A k \in DOMAIN attachments : attachments[k][1] # attempt' + 1
      BY <1>0, <1>bounds, <2>3
    <3> QED
      BY <2>1, <3>1 DEF CardInv, CardsInOrder, CardsAreCalls, FreshCardWins
  <2> QED
    BY <1>7, <2>2, <2>3 DEF Compact
<1>8. CASE UNCHANGED vars
  BY <1>8 DEF vars, runVars, CardInv, CardsInOrder, CardsAreCalls, FreshCardWins
<1> QED
  BY <1>2, <1>3, <1>4, <1>5, <1>6, <1>7, <1>8 DEF Next

(* An answer's card is that of one of the calls behind it if any of these  *)
(* has one, for any number of calls in any order and however often the     *)
(* run was started anew.                                                   *)
THEOREM FreshCardsWin == Spec => []FreshCardWins
<1>1. Spec => [](RunInv /\ CardInv)
  BY RunInit, RunNext, CardInit, CardNext, PTL DEF Spec
<1>2. RunInv /\ CardInv => FreshCardWins
  BY DEF CardInv
<1> QED
  BY <1>1, <1>2, PTL

---------------------------------------------------------------------------
(***************************************************************************)
(* The history.  Whatever becomes of it, it is an end of the chain, and a  *)
(* user's message is its first; before the first compaction it is all of   *)
(* the chain.                                                              *)
(***************************************************************************)
HistoryInv ==
    /\ IsTail(history, inp.turns, HeardOf(inp.turns)) /\ UserFirst(history)
    /\ attempt = 0 /\ pc # "arrived" => SeenIn(history) = HeardOf(inp.turns)
    /\ GivesUpLate

LEMMA ChainsAreTurns == ASSUME RunInv PROVE inp.turns \in Seq(Turns)
<1>1. <<>> \in Seq(Turns)
  OBVIOUS
<1> QED
  BY <1>1, CoreAssumption DEF RunInv, RunTypes, Inputs

LEMMA HeardAreNaturals == ASSUME NEW turns \in Seq(Turns) PROVE HeardOf(turns) \subseteq Nat
BY LenProperties DEF HeardOf

LEMMA HistoryInit == Init => HistoryInv
<1> SUFFICES ASSUME Init PROVE HistoryInv
  OBVIOUS
<1>1. history = <<>> /\ pc = "arrived"
  BY DEF Init
<1>2. IsInOrder(<<>>, inp.turns) /\ SeenIn(<<>>) = {}
  BY DEF IsInOrder, SeenIn
<1> QED
  BY <1>1, <1>2 DEF HistoryInv, IsTail, ReachesTheEnd, UserFirst, GivesUpLate

LEMMA HistoryNext == RunInv /\ HistoryInv /\ [Next]_vars => HistoryInv'
<1> SUFFICES ASSUME RunInv, HistoryInv, [Next]_vars PROVE HistoryInv'
  OBVIOUS
<1>0. inp.turns \in Seq(Turns) /\ HeardOf(inp.turns) \subseteq Nat /\ attempt \in Nat
  BY ChainsAreTurns, HeardAreNaturals DEF RunInv, RunTypes, MaxCompactionRetries
<1>1. ASSUME UNCHANGED <<inp, history, attempt>>, pc # "arrived" \/ pc' = pc,
             pc' # "gave_up" \/ pc' = pc
      PROVE  HistoryInv'
  BY <1>1 DEF HistoryInv, GivesUpLate
<1>2. CASE Malformed \/ Escape
  <2>1. /\ history = history' /\ inp' = inp /\ attempt' = attempt
        /\ pc' \in {"answered", "dropped"}
        /\ inp.kind \in {"malformed", "not_an_object", "bad_trace"}
    BY <1>2 DEF Malformed, Escape, Uncaught, Reply, runVars
  <2>2. inp.turns = <<>>
    BY <2>1 DEF RunInv, RunTypes, Inputs
  <2>3. SeenIn(history) = {} /\ HeardOf(inp.turns) = {}
    <3>1. HeardOf(<<>>) = {}
      BY DEF HeardOf
    <3>2. \A i \in SeenIn(history) : i \in DOMAIN inp.turns
      BY DEF HistoryInv, IsTail, IsInOrder, SeenIn
    <3> QED
      BY <2>2, <3>1, <3>2
  <2> QED
    BY <2>1, <2>3 DEF HistoryInv, GivesUpLate
<1>3. CASE Route
  <2>1. /\ UNCHANGED <<inp, attempt>> /\ history' = ToModelMessages(inp.turns)
        /\ pc' \in {"command", "model", "raised"}
    BY <1>3 DEF Route
  <2> QED
    BY <1>0, <2>1, FirstRunSeesAll DEF HistoryInv, GivesUpLate
<1>4. CASE Crash \/ ModelCalls \/ ModelAnswers \/ RunRaises \/ SummaryRaises \/ OutOfTime
           \/ RunCommand \/ CommandRaises \/ Stylize
  <2>1. pc # "arrived" /\ pc' # "gave_up" /\ UNCHANGED <<inp, history, attempt>>
    BY <1>4 DEF Crash, Caught, ModelCalls, ModelAnswers, RunRaises, SummaryRaises,
                OutOfTime, RunCommand, CommandRaises, Stylize, Reply, runVars
  <2> QED
    BY <1>1, <2>1
<1>5. ASSUME NEW i \in DOMAIN calls, ToolReturns(i) \/ ToolReports(i) \/ ToolRejected(i)
      PROVE  HistoryInv'
  <2>1. pc # "arrived" /\ pc' # "gave_up" /\ UNCHANGED <<inp, history, attempt>>
    BY <1>5 DEF ToolReturns, ToolReports, ToolRejected, Answered
  <2> QED
    BY <1>1, <2>1
<1>6. CASE Overflow
  BY <1>6 DEF Overflow, LastAttempt, runVars, HistoryInv, GivesUpLate
<1>7. CASE Compact
  <2> DEFINE left == IF service.compactor = "summarize" THEN Summarizer(history)
                     ELSE SlidingWindow(history)
  <2>1. /\ IsTail(left, inp.turns, HeardOf(inp.turns))
        /\ Len(history) > 3 => Len(left) < Len(history)
    BY <1>0, CompactorsKeepTails DEF HistoryInv
  <2>2. /\ IsTail(Compacted, inp.turns, HeardOf(inp.turns)) /\ UserFirst(Compacted)
        /\ Len(Compacted) <= Len(left)
    BY <1>0, <2>1, Dropped DEF Compacted
  <2>3. Len(history) \in Nat /\ Len(left) \in Nat /\ Len(Compacted) \in Nat
    BY <2>1, <2>2, LenProperties DEF HistoryInv, IsTail, IsInOrder
  <2>4. CASE Len(Compacted) < Len(history)
    <3>1. /\ UNCHANGED inp /\ history' = Compacted /\ attempt' = attempt + 1
          /\ pc' = "model"
      BY <1>7, <2>4 DEF Compact
    <3>2. attempt' # 0
      BY <1>0, <3>1
    <3> QED
      BY <2>2, <3>1, <3>2 DEF HistoryInv, GivesUpLate
  <2>5. CASE ~(Len(Compacted) < Len(history))
    <3>1. UNCHANGED <<inp, history, attempt>> /\ pc' = "gave_up" /\ pc = "compacting"
      BY <1>7, <2>5 DEF Compact
    <3>2. Len(history) <= 3
      BY <2>1, <2>2, <2>3, <2>5
    <3> QED
      BY <3>1, <3>2 DEF HistoryInv, GivesUpLate
  <2> QED
    BY <2>4, <2>5
<1>8. CASE UNCHANGED vars
  BY <1>8 DEF vars, runVars, HistoryInv, GivesUpLate
<1> QED
  BY <1>2, <1>3, <1>4, <1>5, <1>6, <1>7, <1>8 DEF Next

LEMMA TailIsSeen == RunInv /\ HistoryInv => ModelSeesTheTail
<1> SUFFICES ASSUME RunInv, HistoryInv, pc = "model"
             PROVE  /\ attempt = 0 => Seen = Heard
                    /\ \A i \in Seen, j \in Heard : i < j => j \in Seen
                    /\ \A k \in DOMAIN history : \A i \in history[k].turns :
                          /\ inp.turns[i].role = history[k].role
                          /\ \A l \in 1..k - 1 : \A j \in history[l].turns : j < i
                    /\ history # <<>> => Head(history).role = "user"
  BY DEF ModelSeesTheTail
<1>1. Seen = SeenIn(history) /\ Heard = HeardOf(inp.turns)
  BY DEF Seen, SeenIn, Heard, HeardOf
<1>2. history \in Seq(Message) /\ Len(history) \in Nat /\ DOMAIN history = 1..Len(history)
  BY LenProperties DEF HistoryInv, IsTail, IsInOrder
<1>3. ASSUME NEW k \in DOMAIN history, NEW i \in history[k].turns
      PROVE  /\ inp.turns[i].role = history[k].role
             /\ \A l \in 1..k - 1 : \A j \in history[l].turns : j < i
  <2>1. \A l \in 1..k - 1 : l \in DOMAIN history /\ l < k
    BY <1>2
  <2> QED
    BY <2>1 DEF HistoryInv, IsTail, IsInOrder
<1> QED
  BY <1>1, <1>3 DEF HistoryInv, IsTail, ReachesTheEnd, UserFirst

(* Whatever a chain looks like and however often it is compacted, by       *)
(* either compactor, the model is given the end of it: in order, each side *)
(* its own words, a user's first, and all of it the first time.            *)
THEOREM ModelsSeeTheTail == Spec => []ModelSeesTheTail
<1>1. Spec => [](RunInv /\ HistoryInv)
  BY RunInit, RunNext, HistoryInit, HistoryNext, PTL DEF Spec
<1> QED
  BY <1>1, TailIsSeen, PTL

(* A turn is given up for its length only after all retries, or with no    *)
(* more than three messages left: either compactor shortens what is longer. *)
THEOREM TurnsGiveUpLate == Spec => []GivesUpLate
<1>1. Spec => [](RunInv /\ HistoryInv)
  BY RunInit, RunNext, HistoryInit, HistoryNext, PTL DEF Spec
<1>2. RunInv /\ HistoryInv => GivesUpLate
  BY DEF HistoryInv
<1> QED
  BY <1>1, <1>2, PTL

(* Every reachable state of a turn in the core has its type. *)
THEOREM TypeCorrect == Spec => []TypeOK
<1>1. Spec => [](RunInv /\ HistoryInv)
  BY RunInit, RunNext, HistoryInit, HistoryNext, PTL DEF Spec
<1>2. RunInv /\ HistoryInv => TypeOK
  BY DEF RunInv, RunTypes, CallsOpen, Outcomes, HistoryInv, IsTail, IsInOrder, TypeOK
<1> QED
  BY <1>1, <1>2, PTL
=============================================================================
