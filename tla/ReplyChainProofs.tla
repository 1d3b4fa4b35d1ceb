-------------------------- MODULE ReplyChainProofs --------------------------
(***************************************************************************)
(* Proofs that the history of a turn is its reply chain, that the terminal *)
(* harness sends the same one, and that the walk keeps to its bound.       *)
(***************************************************************************)
EXTENDS ReplyChain, SequenceTheorems, FiniteSetTheorems, WellFoundedInduction, TLAPS

LEMMA LeastNumber ==
    ASSUME NEW S, S \subseteq Nat, S # {}
    PROVE  \E m \in S : \A n \in S : m <= n
<1>1. \A m, n \in Nat : <<n, m>> \in OpToRel(<, Nat) <=> n < m
  BY DEF OpToRel
<1>2. PICK Less : /\ IsWellFoundedOn(Less, Nat)
                  /\ \A m, n \in Nat : <<n, m>> \in Less <=> n < m
  BY <1>1, NatLessThanWellFounded
<1>3. PICK m \in S : \A n \in S : <<n, m>> \notin Less
  BY <1>2, WFMin
<1>4. ASSUME NEW n \in S PROVE m <= n
  <2>1. m \in Nat /\ n \in Nat /\ ~(n < m)
    BY <1>2, <1>3
  <2> QED
    BY <2>1
<1> QED
  BY <1>4

(* Induction: a set of numbers that has 0, and with a number below N the   *)
(* next one, has all numbers up to N.                                      *)
LEMMA AllNumbers ==
    ASSUME NEW N \in Nat, NEW S, 0 \in S, \A n \in S : n \in 0..N - 1 => n + 1 \in S
    PROVE  0..N \subseteq S
<1> DEFINE T == (0..N) \ S
<1> SUFFICES ASSUME T # {} PROVE FALSE
  OBVIOUS
<1>1. PICK m \in T : \A n \in T : m <= n
  <2> T \subseteq Nat
    OBVIOUS
  <2> HIDE DEF T
  <2> QED
    BY LeastNumber
<1>2. m # 0 /\ m \in 0..N
  OBVIOUS
<1>3. m - 1 \in 0..N - 1 /\ ~(m <= m - 1)
  BY <1>2
<1>4. m - 1 \in S
  BY <1>1, <1>3
<1>5. (m - 1) + 1 \in S
  BY <1>3, <1>4
<1> QED
  BY <1>2, <1>5

(* A value for each number up to N, each made from the one before. *)
Iterates(f, N, first, step) ==
    f[0] = first /\ \A n \in 1..N : f[n] = step[n][f[n - 1]]

LEMMA Recursion ==
    ASSUME NEW N \in Nat, NEW V, NEW first \in V, NEW step \in [1..N -> [V -> V]]
    PROVE  \E f \in [0..N -> V] : Iterates(f, N, first, step)
<1> DEFINE Upto(m) == \E f \in [0..m -> V] :
                          f[0] = first /\ \A n \in 1..m : f[n] = step[n][f[n - 1]]
           S == {m \in 0..N : Upto(m)}
<1>1. 0 \in S
  <2> DEFINE f == [i \in 0..0 |-> first]
  <2>1. f \in [0..0 -> V] /\ f[0] = first
    OBVIOUS
  <2>2. \A n \in 1..0 : f[n] = step[n][f[n - 1]]
    OBVIOUS
  <2> HIDE DEF f
  <2> QED
    BY <2>1, <2>2
<1>2. ASSUME NEW m \in S, m \in 0..N - 1 PROVE m + 1 \in S
  <2>1. PICK f \in [0..m -> V] : f[0] = first /\ \A n \in 1..m : f[n] = step[n][f[n - 1]]
    OBVIOUS
  <2> DEFINE g == [n \in 0..m + 1 |-> IF n = m + 1 THEN step[m + 1][f[m]] ELSE f[n]]
  <2>2. step[m + 1][f[m]] \in V
    BY <1>2, <2>1
  <2>3. g \in [0..m + 1 -> V]
    BY <1>2, <2>1, <2>2
  <2>4. g[0] = first
    BY <1>2, <2>1
  <2>5. ASSUME NEW n \in 1..m + 1 PROVE g[n] = step[n][g[n - 1]]
    BY <1>2, <2>1, <2>5
  <2> HIDE DEF g
  <2>6. Upto(m + 1)
    BY <2>3, <2>4, <2>5
  <2> HIDE DEF Upto
  <2> QED
    BY <1>2, <2>6
<1>3. N \in S
  <2> HIDE DEF S
  <2>1. 0..N \subseteq S
    BY <1>1, <1>2, AllNumbers
  <2> QED
    BY <2>1
<1> QED
  BY <1>3 DEF Iterates

---------------------------------------------------------------------------
(* The members of a sequence that are in a set *)

(* f are the members among the first ids. *)
Collects(f, ids, set) ==
    /\ f[0] = <<>>
    /\ \A n \in 1..Len(ids) :
          f[n] = IF ids[n] \in set THEN Append(f[n - 1], ids[n]) ELSE f[n - 1]

LEMMA AmongIsRecursive ==
    ASSUME NEW S, NEW ids \in Seq(S), NEW set
    PROVE  \E f \in [0..Len(ids) -> Seq(S)] :
              Collects(f, ids, set) /\ Among(ids, set) = f[Len(ids)]
<1> DEFINE N == Len(ids)
           step == [n \in 1..N |-> [s \in Seq(S) |->
                      IF ids[n] \in set THEN Append(s, ids[n]) ELSE s]]
           Kept(g) == [n \in 0..N |->
                         IF n = 0 THEN <<>>
                         ELSE IF ids[n] \in set THEN Append(g[n - 1], ids[n]) ELSE g[n - 1]]
<1>1. N \in Nat /\ \A n \in 1..N : ids[n] \in S
  BY ElementOfSeq
<1>2. step \in [1..N -> [Seq(S) -> Seq(S)]]
  BY <1>1
<1>3. PICK f \in [0..N -> Seq(S)] : f[0] = <<>> /\ \A n \in 1..N : f[n] = step[n][f[n - 1]]
  <2> DEFINE V == Seq(S)
             e == <<>>
  <2>1. e \in V
    OBVIOUS
  <2>2. step \in [1..N -> [V -> V]]
    BY <1>2
  <2> HIDE DEF step, N, V, e
  <2>3. \E f \in [0..N -> V] : Iterates(f, N, e, step)
    BY <1>1, <2>1, <2>2, Recursion
  <2> QED
    BY <2>3 DEF V, e, Iterates
<1>4. ASSUME NEW n \in 1..N
      PROVE  f[n] = IF ids[n] \in set THEN Append(f[n - 1], ids[n]) ELSE f[n - 1]
  <2> n - 1 \in 0..N
    BY <1>1
  <2> f[n - 1] \in Seq(S)
    BY <1>3
  <2> QED
    BY <1>3
<1>5. f = Kept(f)
  <2>1. ASSUME NEW n \in 0..N PROVE f[n] = Kept(f)[n]
    <3>1. CASE n = 0
      BY <1>3, <3>1
    <3>2. CASE n \in 1..N
      <4>1. n # 0 /\ n \in 0..N
        BY <1>1, <3>2
      <4> HIDE DEF step, N
      <4> QED
        BY <1>4, <3>2, <4>1
    <3> QED
      BY <1>1, <3>1, <3>2
  <2> HIDE DEF step, N
  <2> QED
    BY <1>3, <2>1
<1> DEFINE g == CHOOSE k : k = Kept(k)
<1>6. g = Kept(g)
  <2> HIDE DEF Kept
  <2> QED
    BY <1>5
<1>7. g = f
  <2> DEFINE Same == {n \in 0..N : g[n] = f[n]}
  <2>1. 0 \in Same
    <3>1. g[0] = <<>>
      <4> HIDE DEF g
      <4> QED
        BY <1>1, <1>6
    <3> QED
      BY <1>1, <1>3, <3>1
  <2>2. ASSUME NEW n \in Same, n \in 0..N - 1 PROVE n + 1 \in Same
    <3>1. n + 1 \in 1..N /\ (n + 1) - 1 = n
      BY <1>1, <2>2
    <3>2. g[n + 1] = IF ids[n + 1] \in set THEN Append(g[n], ids[n + 1]) ELSE g[n]
      <4>1. g[n + 1] = Kept(g)[n + 1]
        BY Zenon, <1>6
      <4> HIDE DEF g
      <4> QED
        BY <1>1, <4>1, <3>1
    <3> QED
      BY <1>4, <3>1, <3>2
  <2>3. 0..N \subseteq Same
    <3> HIDE DEF Same
    <3> QED
      BY <1>1, <2>1, <2>2, AllNumbers
  <2>4. DOMAIN g = 0..N /\ g = [n \in DOMAIN g |-> g[n]]
    <3> HIDE DEF g
    <3> QED
      BY <1>6
  <2> HIDE DEF g
  <2> QED
    BY <1>3, <2>3, <2>4
<1>8. Among(ids, set) = g[N]
  BY Zenon DEF Among
<1> HIDE DEF g, step
<1> QED
  BY <1>3, <1>4, <1>7, <1>8 DEF Collects

LEMMA RangeOfAppend ==
    ASSUME NEW S, NEW s \in Seq(S), NEW x \in S
    PROVE  Range(Append(s, x)) = Range(s) \cup {x}
<1>1. /\ DOMAIN s = 1..Len(s) /\ Len(s) \in Nat
      /\ DOMAIN Append(s, x) = 1..Len(s) + 1
  BY LenProperties, AppendProperties
<1>2. \A i \in 1..Len(s) : Append(s, x)[i] = s[i]
  BY AppendProperties
<1>3. Append(s, x)[Len(s) + 1] = x
  BY AppendProperties
<1> QED
  BY <1>1, <1>2, <1>3 DEF Range

LEMMA AmongKeeps ==
    ASSUME NEW S, NEW ids \in Seq(S), NEW set
    PROVE  /\ Among(ids, set) \in Seq(S)
           /\ Range(Among(ids, set)) = Range(ids) \cap set
<1>1. PICK f \in [0..Len(ids) -> Seq(S)] :
              Collects(f, ids, set) /\ Among(ids, set) = f[Len(ids)]
  BY AmongIsRecursive
<1>2. Len(ids) \in Nat /\ \A n \in 1..Len(ids) : ids[n] \in S
  BY ElementOfSeq
<1> DEFINE Seen(n) == {ids[i] : i \in 1..n}
           Kept == {n \in 0..Len(ids) : Range(f[n]) = Seen(n) \cap set}
<1>3. 0 \in Kept
  BY <1>1, <1>2 DEF Range, Collects
<1>4. ASSUME NEW n \in Kept, n \in 0..Len(ids) - 1 PROVE n + 1 \in Kept
  <2>1. /\ n + 1 \in 1..Len(ids) /\ (n + 1) - 1 = n
        /\ f[n] \in Seq(S) /\ ids[n + 1] \in S
    BY <1>2, <1>4
  <2>2. Seen(n + 1) = Seen(n) \cup {ids[n + 1]}
    BY <2>1
  <2>3. Range(Append(f[n], ids[n + 1])) = Range(f[n]) \cup {ids[n + 1]}
    BY <2>1, RangeOfAppend
  <2>4. f[n + 1] = IF ids[n + 1] \in set THEN Append(f[n], ids[n + 1]) ELSE f[n]
    BY <1>1, <2>1 DEF Collects
  <2> HIDE DEF Seen
  <2> QED
    BY <2>1, <2>2, <2>3, <2>4
<1>5. Len(ids) \in Kept
  <2> HIDE DEF Kept
  <2>1. 0..Len(ids) \subseteq Kept
    BY <1>2, <1>3, <1>4, AllNumbers
  <2> QED
    BY <1>2, <2>1
<1>6. Range(ids) = Seen(Len(ids))
  BY LenProperties DEF Range
<1> QED
  BY <1>1, <1>2, <1>5, <1>6

Ascends(ids) == \A i, j \in DOMAIN ids : i < j => ids[i] < ids[j]

LEMMA AmongAscends ==
    ASSUME NEW ids \in Seq(Nat), NEW set, Ascends(ids)
    PROVE  Ascends(Among(ids, set))
<1>1. PICK f \in [0..Len(ids) -> Seq(Nat)] :
              Collects(f, ids, set) /\ Among(ids, set) = f[Len(ids)]
  BY AmongIsRecursive
<1>2. Len(ids) \in Nat /\ DOMAIN ids = 1..Len(ids) /\ \A n \in 1..Len(ids) : ids[n] \in Nat
  BY ElementOfSeq, LenProperties
<1> DEFINE Kept == {n \in 0..Len(ids) : /\ Ascends(f[n])
                                        /\ \A k \in DOMAIN f[n] : \E i \in 1..n : f[n][k] = ids[i]}
<1>3. 0 \in Kept
  BY <1>1, <1>2 DEF Ascends, Collects
<1>4. ASSUME NEW n \in Kept, n \in 0..Len(ids) - 1 PROVE n + 1 \in Kept
  <2>1. /\ n + 1 \in 1..Len(ids) /\ (n + 1) - 1 = n
        /\ f[n] \in Seq(Nat) /\ ids[n + 1] \in Nat
    BY <1>2, <1>4
  <2> DEFINE s == f[n]
             t == f[n + 1]
  <2>2. t = IF ids[n + 1] \in set THEN Append(s, ids[n + 1]) ELSE s
    BY <1>1, <2>1 DEF Collects
  <2>3. /\ Len(s) \in Nat /\ DOMAIN s = 1..Len(s)
        /\ \A k \in DOMAIN s : s[k] \in Nat /\ \E i \in 1..n : s[k] = ids[i]
        /\ Ascends(s)
    BY <2>1, LenProperties, ElementOfSeq
  <2> HIDE DEF s, t
  <2>4. ASSUME NEW k \in DOMAIN s PROVE s[k] < ids[n + 1]
    <3>1. PICK i \in 1..n : s[k] = ids[i]
      BY <2>3
    <3>2. i \in DOMAIN ids /\ n + 1 \in DOMAIN ids /\ i < n + 1
      BY <1>2, <2>1
    <3> QED
      BY <3>1, <3>2 DEF Ascends
  <2>5. CASE ids[n + 1] \notin set
    <3>1. t = s
      BY <2>2, <2>5
    <3>2. Ascends(t)
      BY <2>3, <3>1
    <3>3. ASSUME NEW k \in DOMAIN t PROVE \E i \in 1..n + 1 : t[k] = ids[i]
      <4>1. PICK i \in 1..n : s[k] = ids[i]
        BY <2>3, <3>1
      <4> i \in 1..n + 1
        BY <2>1
      <4> QED
        BY <3>1, <4>1
    <3> QED
      BY <2>1, <3>2, <3>3 DEF t
  <2>6. CASE ids[n + 1] \in set
    <3>1. /\ DOMAIN t = 1..Len(s) + 1 /\ t[Len(s) + 1] = ids[n + 1]
          /\ \A k \in 1..Len(s) : t[k] = s[k]
      BY <2>1, <2>2, <2>6, AppendProperties DEF s
    <3>2. Ascends(t)
      BY <2>3, <2>4, <3>1 DEF Ascends
    <3>3. ASSUME NEW k \in DOMAIN t PROVE \E i \in 1..n + 1 : t[k] = ids[i]
      <4>1. CASE k = Len(s) + 1
        <5> n + 1 \in 1..n + 1
          BY <1>2, <2>1
        <5> QED
          BY <3>1, <4>1
      <4>2. CASE k \in 1..Len(s)
        <5>1. PICK i \in 1..n : s[k] = ids[i]
          BY <2>3, <4>2
        <5> i \in 1..n + 1
          BY <2>1
        <5> QED
          BY <3>1, <4>2, <5>1
      <4> QED
        BY <2>3, <3>1, <4>1, <4>2
    <3> QED
      BY <2>1, <3>2, <3>3 DEF t
  <2> QED
    BY <2>5, <2>6
<1>5. Len(ids) \in Kept
  <2> HIDE DEF Kept
  <2>1. 0..Len(ids) \subseteq Kept
    BY <1>2, <1>3, <1>4, AllNumbers
  <2> QED
    BY <1>2, <2>1
<1> QED
  BY <1>1, <1>5

---------------------------------------------------------------------------
(* Types, and the walk *)

(* From each message found to the one it replies to, which is older. *)
IsWalk ==
    /\ \A i, j \in DOMAIN raw : i < j => raw[j] < raw[i]
    /\ \A i \in DOMAIN raw : raw[i] \in Ancestors(asked)
    /\ \A i \in DOMAIN raw : raw[i] = channel[IF i = 1 THEN asked ELSE raw[i - 1]].parent

(* Why a walk that found the chain went no further. *)
IsOver == HasEnough \/ Parent = NoMessage \/ channel[Parent].gone

WalkInv ==
    /\ pc # "idle" => asked \in Ids
    /\ pc \in {"walking", "thinking"} => IsWalk /\ posts = <<>>
    /\ pc = "walking" => pulled = Len(raw)
    /\ pc = "thinking" /\ turns.recalled => turns.ids = ToTurns(raw) /\ IsOver

LEMMA Channel ==
    ASSUME TypeOK
    PROVE  /\ Newest \in Nat /\ Ids = 1..Newest
           /\ \A id \in Ids : /\ channel[id] \in Entries
                              /\ channel[id].parent \in {NoMessage} \cup Ids
<1>1. channel \in Seq(Entries) /\ \A id \in Ids : channel[id].parent < id
  BY DEF TypeOK
<1>2. Newest \in Nat /\ Ids = 1..Newest
  BY <1>1, LenProperties DEF Newest, Ids
<1>3. ASSUME NEW id \in Ids
      PROVE  channel[id] \in Entries /\ channel[id].parent \in {NoMessage} \cup Ids
  <2>1. channel[id] \in Entries
    BY <1>1, <1>2, ElementOfSeq DEF Newest
  <2> QED
    BY ChainAssumption, <1>1, <1>2, <2>1 DEF Entries, NoMessage
<1> QED
  BY <1>2, <1>3

LEMMA Posting ==
    ASSUME TypeOK, Newest < MaxMessages, NEW self \in BOOLEAN, NEW parent \in Repliable,
           NEW text \in Texts, channel' = Append(channel, Msg(self, parent, text))
    PROVE  /\ Newest' = Newest + 1 /\ Ids' = 1..Newest + 1
           /\ \A id \in Ids : channel'[id] = channel[id]
           /\ channel'[Newest + 1] = Msg(self, parent, text)
           /\ channel' \in Seq(Entries)
           /\ \A id \in Ids' : channel'[id].parent < id
           /\ parent = NoMessage \/ (parent \in Ids /\ ~channel[parent].gone)
<1>1. /\ Newest \in Nat /\ Ids = 1..Newest
      /\ channel \in Seq(Entries) /\ \A id \in Ids : channel[id].parent < id
  BY Channel DEF TypeOK
<1>2. parent = NoMessage \/ (parent \in Ids /\ ~channel[parent].gone)
  BY DEF Repliable
<1>3. Msg(self, parent, text) \in Entries /\ Msg(self, parent, text).parent < Newest + 1
  BY ChainAssumption, <1>1, <1>2 DEF Msg, Entries, NoMessage
<1>4. /\ channel' \in Seq(Entries) /\ Len(channel') = Newest + 1
      /\ \A id \in 1..Newest : channel'[id] = channel[id]
      /\ channel'[Newest + 1] = Msg(self, parent, text)
  BY <1>1, <1>3, AppendProperties DEF Newest
<1>5. Newest' = Newest + 1 /\ Ids' = 1..Newest + 1
  BY <1>4, LenProperties DEF Newest, Ids
<1>6. \A id \in Ids' : channel'[id].parent < id
  BY <1>1, <1>3, <1>4, <1>5
<1> QED
  BY <1>1, <1>2, <1>4, <1>5, <1>6

(* What is said of the messages there were stays as it is. *)
LEMMA Growing ==
    ASSUME TypeOK, Ids \subseteq Ids'
    PROVE  /\ raw \in Seq(Ids') /\ posts \in Seq(Ids') /\ chain \in Seq(Ids')
           /\ turns \in [recalled : BOOLEAN, ids : Seq(Ids')]
<1>1. /\ raw \in Seq(Ids) /\ posts \in Seq(Ids) /\ chain \in Seq(Ids)
      /\ turns.ids \in Seq(Ids) /\ turns.recalled \in BOOLEAN
      /\ turns = [recalled |-> turns.recalled, ids |-> turns.ids]
  BY DEF TypeOK
<1>2. \A s \in Seq(Ids) : s \in Seq(Ids')
  BY SeqMonotonic
<1> QED
  BY <1>1, <1>2

LEMMA AncestorsStay ==
    ASSUME asked \in Nat, asked' = asked,
           \A id \in 1..asked : channel'[id].parent = channel[id].parent
    PROVE  Ancestors(asked)' = Ancestors(asked)
<1>1. \A messages \in SUBSET (1..asked) : HasParents(messages)' = HasParents(messages)
  BY DEF HasParents
<1> QED
  BY <1>1 DEF Ancestors

LEMMA InitWalk == Init => TypeOK /\ WalkInv
BY ChainAssumption DEF Init, TypeOK, WalkInv, Unrecalled, Ids, NoMessage, Texts

(* Neither a new message nor one that is deleted changes the walk. *)
LEMMA ChangeKeepsWalk ==
    ASSUME TypeOK, WalkInv, pc # "idle", UNCHANGED <<asked, raw>>,
           Ids \subseteq Ids', \A id \in Ids : channel'[id].parent = channel[id].parent
    PROVE  IsWalk => IsWalk'
<1> SUFFICES ASSUME IsWalk PROVE IsWalk'
  OBVIOUS
<1>1. asked \in Nat /\ 1..asked \subseteq Ids
  BY Channel DEF WalkInv
<1>2. Ancestors(asked)' = Ancestors(asked)
  BY <1>1, AncestorsStay
<1>3. raw \in Seq(Ids) /\ DOMAIN raw = 1..Len(raw) /\ Len(raw) \in Nat
      /\ \A i \in DOMAIN raw : raw[i] \in Ids
  BY LenProperties, ElementOfSeq DEF TypeOK
<1>4. ASSUME NEW i \in DOMAIN raw
      PROVE  (IF i = 1 THEN asked ELSE raw[i - 1]) \in Ids
  BY <1>3 DEF WalkInv
<1>5. \A i \in DOMAIN raw : raw[i] = channel'[IF i = 1 THEN asked ELSE raw[i - 1]].parent
  BY <1>4 DEF IsWalk
<1> QED
  BY <1>2, <1>5 DEF IsWalk

(* The texts of the messages found do not change. *)
LEMMA ChangeKeepsTurns ==
    ASSUME TypeOK, UNCHANGED raw, \A id \in Ids : channel'[id].text = channel[id].text
    PROVE  ToTurns(raw)' = ToTurns(raw)
<1>1. \A id \in Range(raw) : id \in Ids
  BY RangeOfSeq DEF TypeOK
<1>2. {id \in Range(raw) : channel'[id].text # "blank"} = {id \in Range(raw) : channel[id].text # "blank"}
  BY <1>1
<1> QED
  BY <1>2 DEF ToTurns

LEMMA ChangeKeepsEnd ==
    ASSUME TypeOK, WalkInv, pc # "idle", UNCHANGED <<asked, raw>>, Ids \subseteq Ids',
           \A id \in Ids : channel'[id].parent = channel[id].parent
                           /\ (channel[id].gone => channel'[id].gone)
    PROVE  IsOver => IsOver'
<1>1. Node \in Ids
  BY LenProperties, ElementOfSeq DEF Node, Last, TypeOK, WalkInv
<1>2. Node' = Node
  BY DEF Node
<1>3. Parent' = Parent /\ (Parent = NoMessage \/ Parent \in Ids)
  BY <1>1, <1>2, Channel DEF Parent
<1> QED
  BY <1>3 DEF IsOver, HasEnough, NoMessage

LEMMA ChangeKeepsWalkInv ==
    ASSUME TypeOK, WalkInv, UNCHANGED <<pc, asked, raw, posts, pulled, turns>>, Ids \subseteq Ids',
           \A id \in Ids : /\ channel'[id].parent = channel[id].parent
                           /\ channel'[id].text = channel[id].text
                           /\ (channel[id].gone => channel'[id].gone)
    PROVE  WalkInv'
<1>1. CASE pc = "idle"
  BY <1>1 DEF WalkInv
<1>2. CASE pc # "idle"
  <2>1. (IsWalk => IsWalk') /\ (IsOver => IsOver') /\ ToTurns(raw)' = ToTurns(raw)
    BY <1>2, ChangeKeepsWalk, ChangeKeepsEnd, ChangeKeepsTurns
  <2> QED
    BY <1>2, <2>1 DEF WalkInv
<1> QED
  BY <1>1, <1>2

LEMMA ChatStep == ASSUME TypeOK, WalkInv, Chat PROVE TypeOK' /\ WalkInv'
<1>1. PICK parent \in Repliable, text \in Texts :
         /\ Speak(parent, text)
         /\ chain' = Append(ChainAt(parent), Newest + 1)
         /\ UNCHANGED turnVars
  BY DEF Chat
<1>2. /\ Newest' = Newest + 1 /\ Ids' = 1..Newest + 1 /\ Ids = 1..Newest /\ Newest \in Nat
      /\ \A id \in Ids : channel'[id] = channel[id]
      /\ channel' \in Seq(Entries) /\ \A id \in Ids' : channel'[id].parent < id
  BY <1>1, Posting, Channel DEF Speak
<1>3. /\ raw \in Seq(Ids') /\ posts \in Seq(Ids') /\ chain \in Seq(Ids')
      /\ turns \in [recalled : BOOLEAN, ids : Seq(Ids')]
  BY <1>2, Growing
<1>4. chain' \in Seq(Ids')
  <2>1. ChainAt(parent) \in Seq(Ids')
    BY <1>3 DEF ChainAt
  <2>2. Newest + 1 \in Ids'
    BY <1>2
  <2> QED
    BY <1>1, <2>1, <2>2, AppendProperties
<1>5. TypeOK'
  <2>1. UNCHANGED turnVars /\ scripted' \in BOOLEAN /\ asked' \in Ids' \cup {NoMessage}
    BY <1>1, <1>2 DEF TypeOK, turnVars, Speak
  <2> QED
    BY <1>2, <1>3, <1>4, <2>1 DEF TypeOK, turnVars
<1>6. WalkInv'
  <2> UNCHANGED <<pc, asked, raw, posts, pulled, turns>>
    BY <1>1 DEF turnVars
  <2> Ids \subseteq Ids'
    BY <1>2
  <2> QED
    BY <1>2, ChangeKeepsWalkInv
<1> QED
  BY <1>5, <1>6

LEMMA AskStep == ASSUME TypeOK, WalkInv, Ask PROVE TypeOK' /\ WalkInv'
<1>1. PICK parent \in Repliable : Speak(parent, "words") /\ chain' = ChainAt(parent)
  BY DEF Ask
<1>2. /\ Newest' = Newest + 1 /\ Ids' = 1..Newest + 1 /\ Ids = 1..Newest /\ Newest \in Nat
      /\ \A id \in Ids : channel'[id] = channel[id]
      /\ channel' \in Seq(Entries) /\ \A id \in Ids' : channel'[id].parent < id
  BY <1>1, Posting, Channel DEF Speak, Texts
<1>3. /\ chain \in Seq(Ids') /\ turns \in [recalled : BOOLEAN, ids : Seq(Ids')]
  BY <1>2, Growing
<1>4. chain' \in Seq(Ids')
  BY <1>1, <1>3 DEF ChainAt
<1>5. TypeOK'
  <2>1. /\ pc' = "walking" /\ asked' \in Ids' /\ scripted' \in BOOLEAN
        /\ raw' = <<>> /\ posts' = <<>> /\ pulled' = 0 /\ UNCHANGED <<turns, parts>>
    <3>1. asked' \in Ids'
      BY <1>2 DEF Ask
    <3>2. scripted' \in BOOLEAN
      BY <1>1 DEF Ask, Speak, TypeOK
    <3> QED
      BY <3>1, <3>2 DEF Ask
  <2>2. raw' \in Seq(Ids') /\ posts' \in Seq(Ids') /\ Len(raw') <= MaxTurns /\ pulled' \in 0..MaxTurns
    BY <2>1, ChainAssumption
  <2> QED
    BY <1>2, <1>3, <1>4, <2>1, <2>2 DEF TypeOK
<1>6. WalkInv'
  BY <1>2 DEF WalkInv, Ask, IsWalk
<1> QED
  BY <1>5, <1>6

LEMMA DeleteStep ==
    ASSUME TypeOK, WalkInv, NEW id \in Ids, Delete(id) PROVE TypeOK' /\ WalkInv'
<1>1. channel \in Seq(Entries) /\ Newest \in Nat /\ Ids = 1..Newest /\ channel[id] \in Entries
  BY Channel DEF TypeOK
<1>2. channel' \in [1..Newest -> Entries]
  <2>1. channel \in [1..Newest -> Entries]
    BY <1>1, LenProperties DEF Newest
  <2>2. [channel[id] EXCEPT !.gone = TRUE] \in Entries
    BY <1>1 DEF Entries
  <2> QED
    BY <2>1, <2>2 DEF Delete
<1>3. channel' \in Seq(Entries) /\ Ids' = Ids
  BY <1>1, <1>2, SeqDef DEF Ids
<1>4. \A other \in Ids : /\ channel'[other].parent = channel[other].parent
                         /\ channel'[other].text = channel[other].text
                         /\ (channel[other].gone => channel'[other].gone)
  BY <1>1, Channel DEF Delete, Entries
<1>5. TypeOK'
  <2>1. scripted' = FALSE /\ UNCHANGED <<pc, asked, raw, turns, parts, posts, pulled, chain>>
    BY DEF Delete, turnVars
  <2>2. \A other \in Ids' : channel'[other].parent < other
    BY <1>3, <1>4 DEF TypeOK
  <2> QED
    BY <1>3, <2>1, <2>2 DEF TypeOK
<1>6. WalkInv'
  <2> UNCHANGED <<pc, asked, raw, posts, pulled, turns>>
    BY DEF Delete, turnVars
  <2> QED
    BY <1>3, <1>4, ChangeKeepsWalkInv
<1> QED
  BY <1>5, <1>6

(* The node the walk has come to, and its parent. *)
LEMMA Nodes ==
    ASSUME TypeOK, WalkInv, pc \in {"walking", "thinking"}
    PROVE  /\ Node \in Ids /\ Parent \in {NoMessage} \cup Ids
           /\ Parent # NoMessage => Parent \in 1..Node - 1
           /\ raw # <<>> => Node = raw[Len(raw)]
           /\ \A i \in DOMAIN raw : Node <= raw[i]
           /\ Node <= asked
           /\ Node = asked \/ Node \in Ancestors(asked)
<1>1. /\ raw \in Seq(Ids) /\ DOMAIN raw = 1..Len(raw) /\ Len(raw) \in Nat
      /\ \A i \in DOMAIN raw : raw[i] \in Ids
      /\ raw = <<>> <=> Len(raw) = 0
  BY LenProperties, ElementOfSeq, EmptySeq DEF TypeOK
<1>2. asked \in Ids /\ IsWalk /\ Ids = 1..Newest /\ Newest \in Nat
  BY Channel DEF WalkInv
<1>3. /\ raw # <<>> => Node = raw[Len(raw)] /\ Len(raw) \in DOMAIN raw
      /\ raw = <<>> => Node = asked
  BY <1>1 DEF Node, Last
<1>4. Node \in Ids
  BY <1>1, <1>2, <1>3
<1>5. Parent \in {NoMessage} \cup Ids /\ Parent < Node
  BY <1>4, Channel DEF Parent, TypeOK
<1>6. \A i \in DOMAIN raw : Node <= raw[i]
  BY <1>1, <1>2, <1>3 DEF IsWalk
<1>7. Node = asked \/ (Node \in Ancestors(asked) /\ Node < asked)
  BY <1>1, <1>2, <1>3 DEF IsWalk, Ancestors
<1> QED
  BY <1>2, <1>3, <1>4, <1>5, <1>6, <1>7 DEF NoMessage

(* The parent of a message continued is one, too. *)
LEMMA ParentsAreAncestors ==
    ASSUME TypeOK, WalkInv, pc \in {"walking", "thinking"}, Parent # NoMessage
    PROVE  Parent \in Ancestors(asked)
<1>1. /\ Node \in Ids /\ Parent \in 1..Node - 1 /\ Node <= asked
      /\ Node = asked \/ Node \in Ancestors(asked)
      /\ asked \in Ids /\ Ids = 1..Newest /\ Newest \in Nat
  BY Nodes, Channel DEF WalkInv
<1>2. ASSUME NEW messages \in SUBSET (1..asked), asked \in messages, HasParents(messages)
      PROVE  Parent \in messages
  <2>1. Node \in messages
    BY <1>1, <1>2 DEF Ancestors
  <2> QED
    BY <1>1, <1>2, <2>1 DEF HasParents, Parent, NoMessage
<1>3. Parent \in 1..asked - 1
  BY <1>1
<1> QED
  BY <1>2, <1>3 DEF Ancestors

LEMMA HopStep == ASSUME TypeOK, WalkInv, Hop PROVE TypeOK' /\ WalkInv'
<1>1. /\ raw \in Seq(Ids) /\ DOMAIN raw = 1..Len(raw) /\ Len(raw) \in Nat /\ Ids' = Ids
      /\ pc = "walking" /\ posts = <<>> /\ pulled = Len(raw) /\ IsWalk
  BY LenProperties DEF TypeOK, WalkInv, Hop, Ids
<1>2. Parent \in Ids /\ Parent \in Ancestors(asked) /\ Parent < Node
  BY Nodes, ParentsAreAncestors, Channel DEF Hop
<1>3. /\ raw' \in Seq(Ids) /\ Len(raw') = Len(raw) + 1 /\ DOMAIN raw' = 1..Len(raw) + 1
      /\ \A i \in 1..Len(raw) : raw'[i] = raw[i]
      /\ raw'[Len(raw) + 1] = Parent
  BY <1>1, <1>2, AppendProperties, LenProperties DEF Hop
<1>4. Len(raw') <= MaxTurns /\ pulled' \in 0..MaxTurns
  BY <1>1, <1>3, ChainAssumption DEF Hop, HasEnough
<1>5. TypeOK'
  BY <1>1, <1>3, <1>4 DEF TypeOK, Hop
<1>6. IsWalk'
  <2>1. \A i, j \in DOMAIN raw' : i < j => raw'[j] < raw'[i]
    <3>1. \A i \in DOMAIN raw : Parent < raw[i]
      BY <1>1, <1>2, Nodes, Channel, ElementOfSeq
    <3> QED
      BY <1>1, <1>3, <3>1 DEF IsWalk
  <2>2. \A i \in DOMAIN raw' : raw'[i] \in Ancestors(asked)'
    <3>1. Ancestors(asked)' = Ancestors(asked)
      BY DEF Hop, Ancestors, HasParents
    <3> QED
      BY <1>1, <1>2, <1>3, <3>1 DEF IsWalk
  <2>3. \A i \in DOMAIN raw' :
           raw'[i] = channel[IF i = 1 THEN asked ELSE raw'[i - 1]].parent
    <3>1. Node = IF Len(raw) = 0 THEN asked ELSE raw[Len(raw)]
      BY <1>1, EmptySeq DEF Node, Last
    <3>2. raw'[Len(raw) + 1] = channel[IF Len(raw) + 1 = 1 THEN asked ELSE raw'[Len(raw)]].parent
      BY <1>1, <1>3, <3>1 DEF Parent
    <3>3. ASSUME NEW i \in 1..Len(raw)
          PROVE  raw'[i] = channel[IF i = 1 THEN asked ELSE raw'[i - 1]].parent
      <4>1. raw'[i] = raw[i] /\ (i # 1 => raw'[i - 1] = raw[i - 1])
        BY <1>1, <1>3
      <4>2. raw[i] = channel[IF i = 1 THEN asked ELSE raw[i - 1]].parent
        BY <1>1 DEF IsWalk
      <4> QED
        BY <4>1, <4>2
    <3> QED
      BY <1>1, <1>3, <3>2, <3>3
  <2> QED
    BY <2>1, <2>2, <2>3 DEF IsWalk, Hop
<1>7. WalkInv'
  BY <1>1, <1>3, <1>6 DEF WalkInv, Hop
<1> QED
  BY <1>5, <1>7

LEMMA EndOfWalk ==
    ASSUME TypeOK, WalkInv, ChainEnds \/ Unreadable PROVE TypeOK' /\ WalkInv'
<1>1. /\ raw \in Seq(Ids) /\ Len(raw) \in Nat /\ Ids' = Ids
      /\ pc = "walking" /\ posts = <<>> /\ pulled = Len(raw) /\ IsWalk
  BY LenProperties DEF TypeOK, WalkInv, ChainEnds, Unreadable, Ids
<1>2. UNCHANGED <<channel, asked, raw, parts, posts, chain, scripted>> /\ pc' = "thinking"
  BY DEF ChainEnds, Unreadable, Sent
<1>3. pulled' \in 0..MaxTurns
  BY <1>1, ChainAssumption DEF ChainEnds, Unreadable, HasEnough, TypeOK
<1>4. ToTurns(raw) \in Seq(Ids)
  <2>1. Reverse(raw) \in Seq(Ids)
    BY <1>1, ElementOfSeq DEF Reverse
  <2> QED
    BY <2>1, AmongKeeps DEF ToTurns
<1>5. turns' \in [recalled : BOOLEAN, ids : Seq(Ids)]
  <2>1. turns' \in {Recalled(ToTurns(raw)), Unrecalled}
    BY DEF ChainEnds, Unreadable, Sent, AfterError
  <2>2. \A ids \in Seq(Ids) : Recalled(ids) \in [recalled : BOOLEAN, ids : Seq(Ids)]
    BY DEF Recalled
  <2>3. Unrecalled \in [recalled : BOOLEAN, ids : Seq(Ids)]
    BY DEF Unrecalled
  <2> QED
    BY <1>4, <2>1, <2>2, <2>3
<1>6. TypeOK'
  BY <1>1, <1>2, <1>3, <1>5 DEF TypeOK
<1>7. IsWalk'
  BY <1>1, <1>2 DEF IsWalk, Ancestors, HasParents
<1>8. ASSUME turns'.recalled PROVE turns'.ids = ToTurns(raw)' /\ IsOver'
  <2>1. ChainEnds
    BY <1>8 DEF Unreadable, Sent, AfterError, Unrecalled
  <2>2. turns'.ids = ToTurns(raw) /\ ToTurns(raw)' = ToTurns(raw)
    BY <1>2, <2>1 DEF ChainEnds, Sent, Recalled, ToTurns
  <2>3. IsOver
    BY <2>1, Nodes DEF ChainEnds, IsOver, Repliable, NoMessage
  <2> QED
    BY <1>2, <2>2, <2>3 DEF IsOver, HasEnough, Parent, Node
<1>9. WalkInv'
  BY <1>1, <1>2, <1>7, <1>8 DEF WalkInv
<1> QED
  BY <1>6, <1>9

LEMMA SendPartStep == ASSUME TypeOK, WalkInv, SendPart PROVE TypeOK' /\ WalkInv'
<1>1. parts \in Seq(Texts) /\ parts # <<>> /\ Anchor \in Repliable
  BY DEF TypeOK, SendPart
<1>2. /\ Newest' = Newest + 1 /\ Ids' = 1..Newest + 1 /\ Ids = 1..Newest /\ Newest \in Nat
      /\ \A id \in Ids : channel'[id] = channel[id]
      /\ channel' \in Seq(Entries) /\ \A id \in Ids' : channel'[id].parent < id
  BY <1>1, Posting, Channel, HeadTailProperties DEF SendPart
<1>3. /\ raw \in Seq(Ids') /\ posts \in Seq(Ids') /\ chain \in Seq(Ids')
      /\ turns \in [recalled : BOOLEAN, ids : Seq(Ids')]
  BY <1>2, Growing
<1>4. posts' \in Seq(Ids')
  BY <1>2, <1>3, AppendProperties DEF SendPart
<1>5. parts' \in Seq(Texts) /\ Len(parts') <= MaxParts
  <2>1. parts' \in Seq(Texts) /\ Len(parts') = Len(parts) - 1 /\ Len(parts) <= MaxParts
    BY <1>1, HeadTailProperties DEF TypeOK, SendPart
  <2> QED
    BY <1>1, <2>1, ChainAssumption, LenProperties
<1>6. TypeOK'
  <2>1. UNCHANGED <<pc, asked, raw, turns, pulled, chain, scripted>> /\ asked \in Ids' \cup {NoMessage}
    BY <1>2 DEF SendPart, TypeOK
  <2> QED
    BY <1>2, <1>3, <1>4, <1>5, <2>1 DEF TypeOK
<1>7. WalkInv'
  BY <1>2 DEF SendPart, WalkInv
<1> QED
  BY <1>6, <1>7

LEMMA AnswerStep ==
    ASSUME TypeOK, WalkInv, Think \/ SendFails \/ EndTurn PROVE TypeOK' /\ WalkInv'
<1>1. Ids' = Ids /\ UNCHANGED <<channel, asked, raw, turns, posts, pulled>>
  BY DEF Think, SendFails, EndTurn, Ids
<1>2. parts' \in Seq(Texts) /\ Len(parts') <= MaxParts
  <2>1. CASE Think
    <3>1. PICK n \in 0..MaxParts : parts' \in [1..n -> Texts]
      BY <2>1 DEF Think
    <3>2. parts' \in Seq(Texts)
      BY <3>1, SeqDef, ChainAssumption
    <3>3. Len(parts') = n
      BY <3>1, <3>2, LenProperties, ChainAssumption
    <3> QED
      BY <3>1, <3>2, <3>3, ChainAssumption
  <2>2. CASE SendFails
    BY <2>2, ChainAssumption DEF SendFails
  <2>3. CASE EndTurn
    BY <2>3 DEF EndTurn, TypeOK
  <2> QED
    BY <2>1, <2>2, <2>3
<1>3. chain' \in Seq(Ids)
  <2>1. CASE EndTurn
    <3>1. asked \in Ids /\ chain \in Seq(Ids) /\ posts \in Seq(Ids)
      BY <2>1 DEF EndTurn, WalkInv, TypeOK
    <3>2. posts # <<>> => Last(posts) \in Ids
      BY <3>1, LenProperties, EmptySeq, ElementOfSeq DEF Last
    <3>3. \A s \in Seq(Ids), id \in Ids : Append(s, id) \in Seq(Ids)
      BY AppendProperties
    <3>4. <<>> \in Seq(Ids)
      OBVIOUS
    <3>5. chain' = Extended
      BY <2>1 DEF EndTurn
    <3> QED
      BY <3>1, <3>2, <3>3, <3>4, <3>5 DEF Extended
  <2>2. CASE Think \/ SendFails
    BY <2>2 DEF Think, SendFails, TypeOK
  <2> QED
    BY <2>1, <2>2
<1>4. scripted' \in BOOLEAN /\ pc' \in {"idle", "sending"}
  BY DEF Think, SendFails, EndTurn, TypeOK
<1>5. TypeOK'
  BY <1>1, <1>2, <1>3, <1>4 DEF TypeOK
<1>6. WalkInv'
  BY <1>1, <1>4 DEF WalkInv, Think, SendFails, EndTurn
<1> QED
  BY <1>5, <1>6

LEMMA NextStep == ASSUME TypeOK, WalkInv, [Next]_vars PROVE TypeOK' /\ WalkInv'
<1>1. CASE UNCHANGED vars
  BY <1>1 DEF vars, turnVars, TypeOK, WalkInv, Ids, IsWalk, IsOver, ToTurns, Ancestors,
              HasParents, HasEnough, Parent, Node
<1>2. CASE \E id \in Ids : Delete(id)
  BY <1>2, DeleteStep
<1> QED
  BY <1>1, <1>2, ChatStep, AskStep, HopStep, EndOfWalk, SendPartStep, AnswerStep DEF Next

(* The variables keep their types, and the walk its bounds: it finds no    *)
(* more than history_max_turns messages and asks Discord for no more       *)
(* parents than that (history.py:54, "fetches no more ancestors than asked *)
(* for").                                                                  *)
THEOREM TypeCorrect == Spec => []TypeOK
<1>1. TypeOK /\ WalkInv /\ [Next]_vars => (TypeOK /\ WalkInv)'
  BY NextStep
<1> QED
  BY InitWalk, <1>1, PTL DEF Spec

---------------------------------------------------------------------------
(* The history is the chain *)

(* What was not found is no ancestor, or one that is older than all that   *)
(* were.                                                                   *)
LEMMA NothingMissed ==
    ASSUME TypeOK, WalkInv, pc = "thinking", NEW id \in Ancestors(asked)
    PROVE  id \in Range(raw) \/ id <= Parent
<1> DEFINE messages == {m \in 1..asked : m \in Range(raw) \cup {asked} \/ m <= Parent}
<1>1. /\ raw \in Seq(Ids) /\ DOMAIN raw = 1..Len(raw) /\ Len(raw) \in Nat
      /\ \A i \in DOMAIN raw : raw[i] \in 1..asked
      /\ asked \in Ids /\ Ids = 1..Newest /\ Newest \in Nat /\ IsWalk
      /\ id \in 1..asked - 1
  BY LenProperties, Channel DEF TypeOK, WalkInv, IsWalk, Ancestors
<1>2. /\ Node = IF Len(raw) = 0 THEN asked ELSE raw[Len(raw)]
      /\ Parent \in {0} \cup Ids
  BY <1>1, Nodes, EmptySeq DEF Node, Last, NoMessage
<1>3. ASSUME NEW m \in messages PROVE channel[m].parent \in messages \cup {0}
  <2>1. /\ m \in 1..asked /\ channel[m].parent \in {0} \cup Ids /\ channel[m].parent < m
    BY <1>1, Channel DEF TypeOK, NoMessage
  <2>2. CASE m = Node
    BY <1>1, <1>2, <2>1, <2>2 DEF Parent
  <2>3. CASE m # Node /\ m \in Range(raw) \cup {asked}
    <3>1. PICK i \in DOMAIN raw : m = IF i = 1 THEN asked ELSE raw[i - 1]
      <4>1. CASE m = asked
        BY <1>1, <1>2, <2>3, <4>1
      <4>2. CASE m \in Range(raw)
        <5>1. PICK k \in DOMAIN raw : m = raw[k]
          BY <4>2 DEF Range
        <5>2. k # Len(raw)
          BY <1>1, <1>2, <2>3, <5>1
        <5>3. k + 1 \in DOMAIN raw /\ k + 1 # 1 /\ (k + 1) - 1 = k
          BY <1>1, <5>2
        <5> QED
          BY <5>1, <5>3
      <4> QED
        BY <2>3, <4>1, <4>2
    <3>2. channel[m].parent = raw[i]
      BY <1>1, <3>1 DEF IsWalk
    <3> QED
      BY <1>1, <3>2 DEF Range
  <2>4. CASE m <= Parent
    BY <1>1, <1>2, <2>1, <2>4
  <2> QED
    BY <2>2, <2>3, <2>4
<1>4. HasParents(messages)
  BY <1>3 DEF HasParents, NoMessage
<1>5. asked \in messages /\ messages \in SUBSET (1..asked)
  BY <1>1
<1>6. id \in messages
  <2> HIDE DEF messages
  <2> QED
    BY <1>4, <1>5 DEF Ancestors
<1> QED
  BY <1>1, <1>6

LEMMA ReverseOfWalk ==
    ASSUME TypeOK, WalkInv, pc = "thinking"
    PROVE  /\ Reverse(raw) \in Seq(Nat) /\ Ascends(Reverse(raw))
           /\ Range(Reverse(raw)) = Range(raw)
<1>1. /\ raw \in Seq(Ids) /\ DOMAIN raw = 1..Len(raw) /\ Len(raw) \in Nat
      /\ \A i \in DOMAIN raw : raw[i] \in Nat
      /\ IsWalk
  BY LenProperties, ElementOfSeq, Channel DEF TypeOK, WalkInv
<1>2. /\ Reverse(raw) \in Seq(Nat) /\ DOMAIN Reverse(raw) = 1..Len(raw)
      /\ \A i \in 1..Len(raw) : Reverse(raw)[i] = raw[Len(raw) - i + 1]
  BY <1>1 DEF Reverse
<1>3. Ascends(Reverse(raw))
  <2> SUFFICES ASSUME NEW i \in 1..Len(raw), NEW j \in 1..Len(raw), i < j
               PROVE  Reverse(raw)[i] < Reverse(raw)[j]
    BY <1>2 DEF Ascends
  <2>1. /\ Len(raw) - i + 1 \in DOMAIN raw /\ Len(raw) - j + 1 \in DOMAIN raw
        /\ Len(raw) - j + 1 < Len(raw) - i + 1
    BY <1>1
  <2>2. raw[Len(raw) - i + 1] < raw[Len(raw) - j + 1]
    BY <1>1, <2>1 DEF IsWalk
  <2> QED
    BY <1>2, <2>2
<1>4. ASSUME NEW x PROVE x \in Range(Reverse(raw)) <=> x \in Range(raw)
  <2>1. ASSUME x \in Range(raw) PROVE x \in Range(Reverse(raw))
    <3>1. PICK i \in 1..Len(raw) : x = raw[i]
      BY <1>1, <2>1 DEF Range
    <3>2. Len(raw) - i + 1 \in 1..Len(raw) /\ Len(raw) - (Len(raw) - i + 1) + 1 = i
      BY <1>1
    <3> QED
      BY <1>2, <3>1, <3>2 DEF Range
  <2>2. ASSUME x \in Range(Reverse(raw)) PROVE x \in Range(raw)
    <3>1. PICK i \in 1..Len(raw) : x = Reverse(raw)[i]
      BY <1>2, <2>2 DEF Range
    <3>2. x = raw[Len(raw) - i + 1] /\ Len(raw) - i + 1 \in DOMAIN raw
      BY <1>1, <1>2, <3>1
    <3> QED
      BY <3>2 DEF Range
  <2> QED
    BY <2>1, <2>2
<1> QED
  BY <1>2, <1>3, <1>4

LEMMA WalkGivesTheChain ==
    ASSUME TypeOK, WalkInv PROVE HistoryIsTheChain
<1> SUFFICES ASSUME pc = "thinking", turns.recalled PROVE HistoryIsTheChain
  BY DEF HistoryIsTheChain
<1> DEFINE ids == turns.ids
<1>1. /\ IsWalk /\ IsOver /\ ids = ToTurns(raw)
      /\ raw \in Seq(Ids) /\ DOMAIN raw = 1..Len(raw) /\ Len(raw) \in Nat
      /\ Ids = 1..Newest /\ Newest \in Nat /\ asked \in Ids
  BY LenProperties, Channel DEF TypeOK, WalkInv
<1>2. /\ ids \in Seq(Nat) /\ Ascends(ids)
      /\ Range(ids) = {id \in Range(raw) : channel[id].text # "blank"}
  BY <1>1, ReverseOfWalk, AmongKeeps, AmongAscends DEF ToTurns
<1>3. ASSUME NEW i \in DOMAIN ids PROVE ids[i] \in Ancestors(asked)
  <2>1. ids[i] \in Range(raw)
    BY <1>2 DEF Range
  <2> QED
    BY <1>1, <2>1 DEF IsWalk, Range
<1>4. \A i \in DOMAIN ids : \A j \in 1..i - 1 : ids[j] < ids[i]
  <2>1. DOMAIN ids = 1..Len(ids) /\ Len(ids) \in Nat
    BY <1>2, LenProperties
  <2> SUFFICES ASSUME NEW i \in DOMAIN ids, NEW j \in 1..i - 1 PROVE ids[j] < ids[i]
    OBVIOUS
  <2>2. j \in DOMAIN ids /\ j < i
    BY <2>1
  <2> QED
    BY <1>2, <2>2 DEF Ascends
<1>5. ASSUME NEW id \in Ancestors(asked)
      PROVE  \/ channel[id].text = "blank"
             \/ id \in Range(ids)
             \/ \E other \in Ancestors(asked) : other >= id /\ channel[other].gone
             \/ Cardinality({other \in Ancestors(asked) : other > id}) >= MaxTurns
  <2> SUFFICES ASSUME id \notin Range(raw)
               PROVE  \/ \E other \in Ancestors(asked) : other >= id /\ channel[other].gone
                      \/ Cardinality({other \in Ancestors(asked) : other > id}) >= MaxTurns
    BY <1>2
  <2>1. id <= Parent /\ id \in 1..asked - 1
    BY NothingMissed DEF Ancestors
  <2>2. Parent \in Ancestors(asked) /\ Parent \in Ids /\ Parent < Node
    BY <1>1, <2>1, Nodes, ParentsAreAncestors DEF NoMessage
  <2>3. CASE channel[Parent].gone
    BY <1>1, <2>1, <2>2, <2>3
  <2>4. CASE HasEnough
    <3> DEFINE later == {other \in Ancestors(asked) : other > id}
    <3>1. ASSUME NEW i \in 1..Len(raw) PROVE raw[i] \in later
      <4> raw[i] \in Ancestors(asked) /\ Node <= raw[i] /\ raw[i] \in Nat /\ Node \in Nat
        BY <1>1, Nodes, ElementOfSeq DEF IsWalk
      <4> QED
        BY <1>1, <2>1, <2>2
    <3>2. raw \in Injection(1..Len(raw), later)
      <4>1. raw \in [1..Len(raw) -> later]
        BY <1>1, <3>1, LenProperties
      <4>2. \A i, j \in 1..Len(raw) : raw[i] = raw[j] => i = j
        <5> DEFINE N == Len(raw)
        <5>1. ASSUME NEW i \in 1..N, NEW j \in 1..N, i < j PROVE raw[i] # raw[j]
          <6> raw[j] < raw[i] /\ raw[j] \in Nat /\ raw[i] \in Nat
            BY <1>1, <5>1, ElementOfSeq DEF IsWalk
          <6> QED
            OBVIOUS
        <5>2. N \in Nat
          BY <1>1
        <5> HIDE DEF N
        <5>3. ASSUME NEW i \in 1..N, NEW j \in 1..N, raw[i] = raw[j] PROVE i = j
          <6> i < j \/ j < i \/ i = j
            BY <5>2
          <6> QED
            BY <5>1, <5>3
        <5> QED
          BY <5>3 DEF N
      <4> QED
        BY <4>1, <4>2 DEF Injection, IsInjective
    <3>3. IsFiniteSet(later)
      <4> later \subseteq 1..asked /\ asked \in Nat
        BY <1>1 DEF Ancestors
      <4> QED
        BY FS_Interval, FS_Subset
    <3>4. Cardinality(1..Len(raw)) = Len(raw)
      <4> 1 \in Int /\ Len(raw) \in Int /\ (1 > Len(raw) => Len(raw) = 0)
        BY <1>1
      <4> QED
        BY FS_Interval
    <3>5. Len(raw) <= Cardinality(later)
      BY <3>2, <3>3, <3>4, FS_Injection
    <3> QED
      BY <1>1, <2>4, <3>3, <3>5, FS_CardinalityType, ChainAssumption DEF HasEnough
  <2>5. CASE Parent = NoMessage
    BY <2>1, <2>5 DEF NoMessage
  <2> QED
    BY <1>1, <2>3, <2>4, <2>5 DEF IsOver
<1> QED
  BY <1>3, <1>4, <1>5 DEF HistoryIsTheChain

(* A history that was recalled is the reply chain itself, whoever posts    *)
(* and deletes while the edge walks (history.py:1-17).                     *)
THEOREM HistoriesAreTheChain == Spec => []HistoryIsTheChain
<1>1. TypeOK /\ WalkInv /\ [Next]_vars => (TypeOK /\ WalkInv)'
  BY NextStep
<1>2. TypeOK /\ WalkInv => HistoryIsTheChain
  BY WalkGivesTheChain
<1> QED
  BY InitWalk, <1>1, <1>2, PTL DEF Spec

---------------------------------------------------------------------------
(* The terminal harness *)

End(s) == IF s = <<>> THEN NoMessage ELSE Last(s)

(* From a message that is no reply, each to the next; none is deleted. *)
IsThread(messages, s) ==
    /\ \A k \in DOMAIN s : messages[s[k]].parent = IF k = 1 THEN NoMessage ELSE s[k - 1]
    /\ \A k \in DOMAIN s : ~messages[s[k]].gone

(* The harness knows the thread its next message continues, and what of it *)
(* the walk has found; nobody else posts.                                  *)
ScriptInv ==
    scripted =>
        /\ IsThread(channel, chain)
        /\ pc = "idle" => End(chain) = Newest
        /\ pc # "idle" => channel[asked].parent = End(chain) /\ ~channel[asked].gone
        /\ pc \in {"walking", "thinking"} =>
              /\ asked = Newest
              /\ Len(raw) <= Len(chain)
              /\ \A i \in DOMAIN raw : raw[i] = chain[Len(chain) - i + 1]
        /\ pc = "sending" =>
              /\ Newest = IF posts = <<>> THEN asked ELSE Last(posts)
              /\ posts # <<>> =>
                    /\ ~channel[Last(posts)].gone
                    /\ channel[Last(posts)].parent = IF StartsOver THEN NoMessage ELSE asked

LEMMA InitScript == Init => ScriptInv
BY DEF Init, ScriptInv, IsThread, End, NoMessage, Newest

(* A thread goes on with a reply to its end. *)
LEMMA ThreadGrows ==
    ASSUME NEW S, NEW messages, NEW s \in Seq(S), IsThread(messages, s), NEW id \in S,
           messages[id].parent = End(s), ~messages[id].gone
    PROVE  IsThread(messages, Append(s, id)) /\ End(Append(s, id)) = id
<1> DEFINE t == Append(s, id)
<1>1. /\ Len(s) \in Nat /\ DOMAIN s = 1..Len(s) /\ t \in Seq(S)
      /\ Len(t) = Len(s) + 1 /\ \A k \in 1..Len(s) : t[k] = s[k]
      /\ t[Len(s) + 1] = id /\ t # <<>>
  BY AppendProperties, LenProperties
<1>2. End(s) = IF Len(s) = 0 THEN NoMessage ELSE s[Len(s)]
  BY EmptySeq DEF End, Last
<1> HIDE DEF t
<1>3. DOMAIN t = 1..Len(s) + 1
  BY <1>1, LenProperties
<1>4. ASSUME NEW k \in 1..Len(s) + 1
      PROVE  messages[t[k]].parent = (IF k = 1 THEN NoMessage ELSE t[k - 1]) /\ ~messages[t[k]].gone
  <2>1. CASE k = Len(s) + 1
    <3>1. Len(s) # 0 => k # 1 /\ t[k - 1] = s[Len(s)]
      BY <1>1, <2>1
    <3> QED
      BY <1>1, <1>2, <2>1, <3>1
  <2>2. CASE k \in 1..Len(s)
    <3>1. t[k] = s[k] /\ (k # 1 => t[k - 1] = s[k - 1])
      BY <1>1, <2>2
    <3> QED
      BY <1>1, <2>2, <3>1 DEF IsThread
  <2> QED
    BY <1>1, <2>1, <2>2
<1>5. End(t) = id
  BY <1>1 DEF End, Last
<1>6. IsThread(messages, t)
  BY <1>3, <1>4 DEF IsThread
<1> QED
  BY <1>5, <1>6 DEF t

(* New messages leave a thread as it is. *)
LEMMA ThreadStays ==
    ASSUME NEW S, NEW s \in Seq(S), NEW before, NEW after, IsThread(before, s),
           \A id \in S : after[id] = before[id]
    PROVE  IsThread(after, s)
<1>1. \A k \in DOMAIN s : s[k] \in S
  BY ElementOfSeq, LenProperties
<1> QED
  BY <1>1 DEF IsThread

LEMMA ScriptChat == ASSUME TypeOK, ScriptInv, Chat PROVE ScriptInv'
<1> SUFFICES ASSUME scripted' PROVE ScriptInv'
  BY DEF ScriptInv
<1>1. PICK parent \in Repliable, text \in Texts :
         /\ Speak(parent, text)
         /\ chain' = Append(ChainAt(parent), Newest + 1)
         /\ UNCHANGED turnVars
  BY DEF Chat
<1>2. /\ Newest' = Newest + 1 /\ Ids' = 1..Newest + 1 /\ Ids = 1..Newest /\ Newest \in Nat
      /\ \A id \in Ids : channel'[id] = channel[id]
      /\ channel'[Newest + 1] = Msg(FALSE, parent, text)
  BY <1>1, Posting, Channel DEF Speak
<1>3. pc = "idle" /\ (parent = NoMessage \/ (scripted /\ parent = Newest))
  BY <1>1 DEF Speak
<1>4. ChainAt(parent) \in Seq(Ids') /\ IsThread(channel', ChainAt(parent))
      /\ End(ChainAt(parent)) = parent
  <2>1. CASE parent = NoMessage
    BY <2>1 DEF ChainAt, IsThread, End
  <2>2. CASE parent # NoMessage
    <3>1. IsThread(channel, chain) /\ End(chain) = parent /\ ChainAt(parent) = chain
      BY <1>3, <2>2 DEF ScriptInv, ChainAt
    <3>2. chain \in Seq(Ids) /\ chain \in Seq(Ids')
      BY <1>2, Growing DEF TypeOK
    <3>3. IsThread(channel', chain)
      BY <1>2, <3>1, <3>2, ThreadStays
    <3> QED
      BY <3>1, <3>2, <3>3
  <2> QED
    BY <2>1, <2>2
<1>5. channel'[Newest + 1].parent = parent /\ ~channel'[Newest + 1].gone
  BY <1>2 DEF Msg
<1>6. IsThread(channel', chain') /\ End(chain') = Newest + 1
  <2> DEFINE s == ChainAt(parent)
  <2>1. /\ s \in Seq(Ids') /\ IsThread(channel', s) /\ Newest + 1 \in Ids'
        /\ channel'[Newest + 1].parent = End(s) /\ ~channel'[Newest + 1].gone
    <3>1. Newest + 1 \in 1..Newest + 1
      BY <1>2
    <3>2. Newest + 1 \in Ids'
      BY <1>2, <3>1
    <3> QED
      BY <1>4, <1>5, <3>2
  <2> HIDE DEF s
  <2>2. IsThread(channel', Append(s, Newest + 1)) /\ End(Append(s, Newest + 1)) = Newest + 1
    BY <2>1, ThreadGrows
  <2> QED
    BY <1>1, <2>2 DEF s
<1> QED
  BY <1>1, <1>2, <1>3, <1>6 DEF ScriptInv, turnVars

LEMMA ScriptAsk == ASSUME TypeOK, ScriptInv, Ask PROVE ScriptInv'
<1> SUFFICES ASSUME scripted' PROVE ScriptInv'
  BY DEF ScriptInv
<1>1. PICK parent \in Repliable : Speak(parent, "words") /\ chain' = ChainAt(parent)
  BY DEF Ask
<1>2. /\ Newest' = Newest + 1 /\ Ids' = 1..Newest + 1 /\ Ids = 1..Newest /\ Newest \in Nat
      /\ \A id \in Ids : channel'[id] = channel[id]
      /\ channel'[Newest + 1] = Msg(FALSE, parent, "words")
  BY <1>1, Posting, Channel DEF Speak, Texts
<1>3. pc = "idle" /\ (parent = NoMessage \/ (scripted /\ parent = Newest))
  BY <1>1 DEF Speak
<1>4. chain' \in Seq(Ids') /\ IsThread(channel', chain') /\ End(chain') = parent
  <2>1. CASE parent = NoMessage
    BY <1>1, <2>1 DEF ChainAt, IsThread, End
  <2>2. CASE parent # NoMessage
    <3>1. IsThread(channel, chain) /\ End(chain) = parent /\ chain' = chain
      BY <1>1, <1>3, <2>2 DEF ScriptInv, ChainAt
    <3>2. chain \in Seq(Ids) /\ chain \in Seq(Ids')
      BY <1>2, Growing DEF TypeOK
    <3> QED
      BY <1>2, <3>1, <3>2, ThreadStays
  <2> QED
    BY <2>1, <2>2
<1>5. channel'[Newest + 1].parent = parent /\ ~channel'[Newest + 1].gone
  BY <1>2 DEF Msg
<1>6. Len(chain') \in Nat
  BY <1>4, LenProperties
<1>7. pc' = "walking" /\ asked' = Newest + 1 /\ raw' = <<>> /\ Len(raw') = 0
  BY DEF Ask
<1>8. channel'[asked'].parent = End(chain') /\ ~channel'[asked'].gone
  BY <1>4, <1>5, <1>7
<1> QED
  BY <1>2, <1>4, <1>6, <1>7, <1>8 DEF ScriptInv

LEMMA ScriptHop == ASSUME TypeOK, WalkInv, ScriptInv, Hop PROVE ScriptInv'
<1> SUFFICES ASSUME scripted PROVE ScriptInv'
  BY DEF ScriptInv, Hop
<1> DEFINE k == Len(raw)
           n == Len(chain)
<1>1. /\ IsThread(channel, chain) /\ channel[asked].parent = End(chain)
      /\ asked = Newest /\ k <= n /\ \A i \in DOMAIN raw : raw[i] = chain[n - i + 1]
  BY DEF ScriptInv, Hop
<1>2. /\ raw \in Seq(Ids) /\ DOMAIN raw = 1..k /\ k \in Nat
      /\ chain \in Seq(Ids) /\ DOMAIN chain = 1..n /\ n \in Nat
  BY LenProperties DEF TypeOK
<1>3. Parent \in Ids /\ Parent # NoMessage
  BY Nodes DEF Hop
<1>4. /\ raw' \in Seq(Ids) /\ Len(raw') = k + 1 /\ DOMAIN raw' = 1..k + 1
      /\ \A i \in 1..k : raw'[i] = raw[i]
      /\ raw'[k + 1] = Parent
  BY <1>2, <1>3, AppendProperties, LenProperties DEF Hop
<1>5. k < n /\ Parent = chain[n - k]
  <2>1. CASE k = 0
    <3>1. Parent = End(chain)
      BY <1>1, <1>2, <2>1, EmptySeq DEF Parent, Node
    <3>2. chain # <<>> /\ Parent = chain[n]
      BY <1>3, <3>1 DEF End, Last
    <3> QED
      BY <1>2, <2>1, <3>2, EmptySeq
  <2>2. CASE k # 0
    <3>1. Parent = channel[raw[k]].parent /\ raw[k] = chain[n - k + 1]
      BY <1>1, <1>2, <2>2, EmptySeq DEF Parent, Node, Last
    <3>2. n - k + 1 \in DOMAIN chain
      BY <1>1, <1>2, <2>2
    <3>3. Parent = IF n - k + 1 = 1 THEN NoMessage ELSE chain[(n - k + 1) - 1]
      BY <1>1, <3>1, <3>2 DEF IsThread
    <3> QED
      BY <1>1, <1>2, <1>3, <2>2, <3>3
  <2> QED
    BY <2>1, <2>2
<1>6. \A i \in DOMAIN raw' : raw'[i] = chain[n - i + 1]
  <2> SUFFICES ASSUME NEW i \in 1..k + 1 PROVE raw'[i] = chain[n - i + 1]
    BY <1>4
  <2>1. CASE i = k + 1
    <3> n - (k + 1) + 1 = n - k
      BY <1>2
    <3> QED
      BY <1>4, <1>5, <2>1
  <2>2. CASE i \in 1..k
    BY <1>1, <1>2, <1>4, <2>2
  <2> QED
    BY <1>2, <2>1, <2>2
<1>7. k + 1 <= n
  BY <1>2, <1>5
<1> QED
  BY <1>1, <1>4, <1>6, <1>7 DEF ScriptInv, Hop, Newest, StartsOver

LEMMA ScriptSendPart == ASSUME TypeOK, WalkInv, ScriptInv, SendPart PROVE ScriptInv'
<1> SUFFICES ASSUME scripted PROVE ScriptInv'
  BY DEF ScriptInv, SendPart
<1>1. parts \in Seq(Texts) /\ parts # <<>> /\ Anchor \in Repliable /\ Head(parts) \in Texts
  BY HeadTailProperties DEF TypeOK, SendPart
<1>2. /\ Newest' = Newest + 1 /\ Ids' = 1..Newest + 1 /\ Ids = 1..Newest /\ Newest \in Nat
      /\ \A id \in Ids : channel'[id] = channel[id]
      /\ channel'[Newest + 1] = Msg(TRUE, Anchor, Head(parts))
  BY <1>1, Posting, Channel DEF SendPart
<1>3. asked \in Ids /\ posts \in Seq(Ids) /\ posts \in Seq(Ids') /\ chain \in Seq(Ids)
  BY <1>2, Growing DEF TypeOK, WalkInv, SendPart
<1>4. /\ posts' # <<>> /\ Last(posts') = Newest + 1
      /\ StartsOver' = (posts # <<>>)
  <2>1. /\ Len(posts') = Len(posts) + 1 /\ posts' # <<>> /\ posts'[Len(posts) + 1] = Newest + 1
        /\ Len(posts) \in Nat /\ (posts = <<>> <=> Len(posts) = 0)
    <3>1. posts' = Append(posts, Newest + 1) /\ Newest + 1 \in Ids'
      BY <1>2 DEF SendPart
    <3>2. Len(posts) \in Nat /\ (posts = <<>> <=> Len(posts) = 0)
      BY <1>3, LenProperties, EmptySeq
    <3> QED
      BY <1>3, <3>1, <3>2, AppendProperties
  <2> QED
    BY <2>1 DEF Last, StartsOver
<1>5. /\ ~channel'[Newest + 1].gone
      /\ channel'[Newest + 1].parent = IF posts # <<>> THEN NoMessage ELSE asked
  BY <1>2 DEF Msg, Anchor
<1>6. IsThread(channel', chain)
  BY <1>2, <1>3, ThreadStays DEF ScriptInv
<1>7. channel'[asked].parent = End(chain) /\ ~channel'[asked].gone
  BY <1>2, <1>3 DEF ScriptInv, SendPart
<1> QED
  BY <1>2, <1>4, <1>5, <1>6, <1>7 DEF ScriptInv, SendPart

LEMMA ScriptEndTurn == ASSUME TypeOK, WalkInv, ScriptInv, EndTurn PROVE ScriptInv'
<1> SUFFICES ASSUME scripted PROVE ScriptInv'
  BY DEF ScriptInv, EndTurn
<1> DEFINE last == Last(posts)
<1>1. /\ IsThread(channel, chain) /\ channel[asked].parent = End(chain) /\ ~channel[asked].gone
      /\ Newest = IF posts = <<>> THEN asked ELSE last
      /\ posts # <<>> => /\ ~channel[last].gone
                         /\ channel[last].parent = IF StartsOver THEN NoMessage ELSE asked
  BY DEF ScriptInv, EndTurn
<1>2. asked \in Ids /\ chain \in Seq(Ids) /\ posts \in Seq(Ids) /\ <<>> \in Seq(Ids)
  BY DEF TypeOK, WalkInv, EndTurn
<1>3. posts # <<>> => last \in Ids
  BY <1>2, LenProperties, EmptySeq, ElementOfSeq DEF Last
<1> HIDE DEF last
<1>4. Append(chain, asked) \in Seq(Ids)
      /\ IsThread(channel, Append(chain, asked)) /\ End(Append(chain, asked)) = asked
  BY <1>1, <1>2, ThreadGrows, AppendProperties
<1>5. IsThread(channel, <<>>) /\ End(<<>>) = NoMessage
  BY DEF IsThread, End
<1>6. IsThread(channel, chain') /\ End(chain') = Newest
  <2>1. CASE posts = <<>>
    <3>1. ~StartsOver
      BY <2>1 DEF StartsOver
    <3>2. chain' = Append(chain, asked)
      BY <2>1, <3>1 DEF EndTurn, Extended
    <3> QED
      BY <1>1, <1>4, <2>1, <3>2
  <2>2. CASE posts # <<>> /\ ~StartsOver
    <3>1. chain' = Append(Append(chain, asked), last)
      BY <2>2 DEF EndTurn, Extended, last
    <3> QED
      BY <1>1, <1>3, <1>4, <2>2, <3>1, ThreadGrows
  <2>3. CASE posts # <<>> /\ StartsOver
    <3>1. chain' = Append(<<>>, last)
      BY <2>3 DEF EndTurn, Extended, last
    <3> QED
      BY <1>1, <1>2, <1>3, <1>5, <2>3, <3>1, ThreadGrows
  <2> QED
    BY <2>1, <2>2, <2>3
<1> QED
  BY <1>6 DEF ScriptInv, EndTurn, Newest

LEMMA ScriptStep == ASSUME TypeOK, WalkInv, ScriptInv, [Next]_vars PROVE ScriptInv'
<1>1. CASE UNCHANGED vars
  BY <1>1 DEF vars, turnVars, ScriptInv, Newest, StartsOver
<1>2. CASE (\E id \in Ids : Delete(id)) \/ SendFails
  BY <1>2 DEF Delete, SendFails, ScriptInv
<1>3. CASE ChainEnds \/ Unreadable
  BY <1>3 DEF ChainEnds, Unreadable, Sent, ScriptInv, Newest, StartsOver
<1>4. CASE Think
  BY <1>4 DEF Think, ScriptInv, WalkInv, Newest, StartsOver
<1> QED
  BY <1>1, <1>2, <1>3, <1>4, ScriptChat, ScriptAsk, ScriptHop, ScriptSendPart, ScriptEndTurn
     DEF Next

LEMMA ScriptIsReplayed == ASSUME TypeOK, WalkInv, ScriptInv PROVE HarnessAgrees
<1> SUFFICES ASSUME pc = "thinking", scripted, turns.recalled
             PROVE  turns.ids = Replayed
  BY DEF HarnessAgrees
<1> DEFINE k == Len(raw)
           n == Len(chain)
           newest == IF n < MaxTurns THEN n ELSE MaxTurns
<1>1. /\ IsThread(channel, chain) /\ channel[asked].parent = End(chain)
      /\ k <= n /\ \A i \in DOMAIN raw : raw[i] = chain[n - i + 1]
      /\ turns.ids = ToTurns(raw) /\ IsOver
  BY DEF ScriptInv, WalkInv
<1>2. /\ raw \in Seq(Ids) /\ DOMAIN raw = 1..k /\ k \in Nat /\ k <= MaxTurns
      /\ chain \in Seq(Ids) /\ DOMAIN chain = 1..n /\ n \in Nat
      /\ MaxTurns \in Nat
  BY LenProperties, ChainAssumption DEF TypeOK
<1>3. k = newest
  <2> SUFFICES ASSUME k < n, k < MaxTurns PROVE FALSE
    <3> HIDE DEF k, n
    <3> QED
      BY <1>1, <1>2
  <2>1. Parent = NoMessage \/ channel[Parent].gone
    BY <1>1, <1>2 DEF IsOver, HasEnough
  <2>2. Parent = chain[n - k]
    <3>1. CASE k = 0
      BY <1>1, <1>2, <3>1, EmptySeq DEF Parent, Node, End, Last
    <3>2. CASE k # 0
      <4>1. Parent = channel[raw[k]].parent /\ raw[k] = chain[n - k + 1]
        BY <1>1, <1>2, <3>2, EmptySeq DEF Parent, Node, Last
      <4>2. n - k + 1 \in DOMAIN chain /\ n - k + 1 # 1
        BY <1>1, <1>2, <3>2
      <4>3. Parent = chain[(n - k + 1) - 1]
        BY <1>1, <4>1, <4>2 DEF IsThread
      <4> QED
        BY <1>2, <4>3
    <3> QED
      BY <3>1, <3>2
  <2>3. n - k \in DOMAIN chain
    BY <1>2
  <2>4. chain[n - k] \in Ids /\ ~channel[chain[n - k]].gone
    BY <1>1, <1>2, <2>3, ElementOfSeq DEF IsThread
  <2> QED
    BY <2>1, <2>2, <2>4, Channel DEF NoMessage
<1>4. raw = SubSeq(Reverse(chain), 1, newest)
  <2>1. /\ Reverse(chain) \in Seq(Ids) /\ Len(Reverse(chain)) = n
        /\ \A i \in 1..n : Reverse(chain)[i] = chain[n - i + 1]
    BY <1>2, ElementOfSeq DEF Reverse
  <2>2. /\ SubSeq(Reverse(chain), 1, newest) \in Seq(Ids)
        /\ Len(SubSeq(Reverse(chain), 1, newest)) = newest
        /\ \A i \in 1..newest : SubSeq(Reverse(chain), 1, newest)[i] = Reverse(chain)[i]
    BY <1>2, <2>1, ElementOfSeq, SubSeqProperties
  <2>3. \A i \in 1..k : raw[i] = SubSeq(Reverse(chain), 1, newest)[i]
    BY <1>1, <1>2, <1>3, <2>1, <2>2
  <2> QED
    BY <1>2, <1>3, <2>2, <2>3, SeqEqual
<1> QED
  BY <1>1, <1>4 DEF Replayed

(* In a conversation it can replay, the terminal harness sends the history *)
(* the edge would (services/core/chat.py:27).                              *)
THEOREM HarnessSendsTheSame == Spec => []HarnessAgrees
<1>1. Init => TypeOK /\ WalkInv /\ ScriptInv
  BY InitWalk, InitScript
<1>2. TypeOK /\ WalkInv /\ ScriptInv /\ [Next]_vars => (TypeOK /\ WalkInv /\ ScriptInv)'
  BY NextStep, ScriptStep
<1>3. TypeOK /\ WalkInv /\ ScriptInv => HarnessAgrees
  BY ScriptIsReplayed
<1> QED
  BY <1>1, <1>2, <1>3, PTL DEF Spec

=============================================================================
