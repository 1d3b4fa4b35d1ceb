---------------------------- MODULE ClaimsProofs ----------------------------
(* Theorems about Claims, for any copies, messages and number of sends. *)
EXTENDS Claims, FiniteSetTheorems, TLAPS

(***************************************************************************)
(* TypeOK is inductive with one more fact: a reply in progress has a part  *)
(* left to send.                                                           *)
(***************************************************************************)
PartsLeft ==
    \A c \in Copies, m \in Messages : pc[c][m] = "replying" => parts[c][m] >= 1

TypeInv == TypeOK /\ PartsLeft

(* What the requests make of an item is an item. *)
LEMMA ItemsAreItems ==
    /\ NoItem \in Item
    /\ \A c \in Copies : Claimed(c) \in Item
    /\ \A c \in Copies, i \in Item : Noted(c, i) \in Item
<1>1. NoItem \in Item
  BY DEF NoItem, Item
<1>2. ASSUME NEW c \in Copies PROVE Claimed(c) \in Item
  BY DEF Claimed, Item
<1>3. ASSUME NEW c \in Copies, NEW i \in Item PROVE Noted(c, i) \in Item
  BY DEF Noted, Item
<1> QED
  BY <1>1, <1>2, <1>3

LEMMA TypeInvInit == Init => TypeInv
BY ClaimsAssumption DEF Init, TypeInv, TypeOK, PartsLeft, Steps, Item, NoItem, NoFacts

LEMMA TypeInvNext == TypeInv /\ [Next]_vars => TypeInv'
<1> SUFFICES ASSUME TypeInv, [Next]_vars PROVE TypeInv'
  OBVIOUS
<1> USE ClaimsAssumption DEF TypeInv, TypeOK, PartsLeft, Steps
<1>1. ASSUME NEW c \in Copies, Connect(c) PROVE TypeInv'
  BY <1>1 DEF Connect, gateVars, callVars, tableVars, answerVars
<1>2. ASSUME NEW c \in Copies, Stop(c) PROVE TypeInv'
  BY <1>2 DEF Stop, gateVars, callVars, tableVars, answerVars
<1>3. ASSUME NEW m \in Messages, Post(m) PROVE TypeInv'
  BY <1>3 DEF Post, copyVars, callVars, tableVars, answerVars
<1>4. ASSUME NEW m \in Messages, Expire(m) PROVE TypeInv'
  BY <1>4, ItemsAreItems DEF Expire, copyVars, gateVars, callVars, answerVars
<1>5. ASSUME NEW c \in Copies, NEW m \in Messages, Deliver(c, m) PROVE TypeInv'
  <2>1. UNCHANGED <<status, table, resent, fact, late, item, lapsed, parts, posted>>
    BY <1>5 DEF Deliver, copyVars, tableVars, answerVars
  <2>2. owed' \in [Messages -> SUBSET Copies]
    BY <1>5 DEF Deliver
  <2>3. CASE Goto(c, m, "ignored") /\ UNCHANGED <<how, cur, sends>>
    BY <2>1, <2>2, <2>3 DEF Goto
  <2>4. CASE Goto(c, m, "turn") /\ how' = [how EXCEPT ![c][m] = "no_table"]
               /\ UNCHANGED <<cur, sends>>
    BY <2>1, <2>2, <2>4 DEF Goto
  <2>5. CASE /\ Goto(c, m, "claiming")
             /\ cur' = [cur EXCEPT ![c][m] = "request"]
             /\ sends' = [sends EXCEPT ![c][m] = 1]
             /\ UNCHANGED how
    BY <2>1, <2>2, <2>5 DEF Goto
  <2> QED
    BY <1>5, <2>3, <2>4, <2>5 DEF Deliver
<1>6. ASSUME NEW c \in Copies, NEW m \in Messages, LatePut(c, m) PROVE TypeInv'
  <2>1. item' \in [Messages -> Item]
    BY <1>6, ItemsAreItems DEF LatePut, PutReaches
  <2>2. late' \in [Copies -> [Messages -> Nat]]
    BY <1>6 DEF LatePut
  <2> QED
    BY <1>6, <2>1, <2>2 DEF LatePut, copyVars, gateVars, answerVars
<1>7. ASSUME NEW c \in Copies, NEW m \in Messages, CopyStep(c, m) PROVE TypeInv'
  <2>1. CASE Won(c, m)
    BY <2>1 DEF Won, Goto, copyVars, gateVars, tableVars, answerVars
  <2>2. CASE Lost(c, m)
    BY <2>2 DEF Lost, Goto, copyVars, gateVars, tableVars, answerVars
  <2>3. CASE StoreFailed(c, m)
    BY <2>3 DEF StoreFailed, OnStoreError, Goto, copyVars, gateVars, tableVars, answerVars
  <2>4. CASE Resend(c, m)
    BY <2>4 DEF Resend, copyVars, gateVars, tableVars, answerVars
  <2>5. CASE Yield(c, m)
    BY <2>5 DEF Yield, Goto, copyVars, gateVars, tableVars, answerVars
  <2>6. CASE Turn(c, m)
    <3>1. UNCHANGED <<copyVars, gateVars, how, callVars, tableVars, posted>>
      BY <2>6 DEF Turn
    <3>2. ASSUME NEW n \in 1..MaxParts, parts' = [parts EXCEPT ![c][m] = n],
                 Goto(c, m, "replying")
          PROVE  TypeInv'
      <4>1. parts' \in [Copies -> [Messages -> 0..MaxParts]]
        BY <3>2
      <4>2. pc' \in [Copies -> [Messages -> Steps]]
        BY <3>2 DEF Goto
      <4>3. PartsLeft'
        BY <3>2 DEF Goto
      <4> QED
        BY <3>1, <4>1, <4>2, <4>3 DEF copyVars, gateVars, callVars, tableVars
    <3>3. CASE Goto(c, m, "failed") /\ UNCHANGED parts
      BY <3>1, <3>3 DEF Goto, copyVars, gateVars, callVars, tableVars
    <3> QED
      BY <2>6, <3>2, <3>3 DEF Turn
  <2>7. CASE SendPart(c, m)
    <3>1. UNCHANGED <<copyVars, gateVars, how, callVars, tableVars>>
      BY <2>7 DEF SendPart
    <3>2. CASE /\ posted' = [posted EXCEPT ![c][m] = @ + 1]
               /\ parts' = [parts EXCEPT ![c][m] = @ - 1]
               /\ Goto(c, m, AfterPart(c, m))
      <4>1. parts[c][m] \in 1..MaxParts
        BY <2>7 DEF SendPart
      <4>2. parts' \in [Copies -> [Messages -> 0..MaxParts]]
        BY <3>2, <4>1
      <4>3. posted' \in [Copies -> [Messages -> Nat]]
        BY <3>2
      <4>4. pc' \in [Copies -> [Messages -> Steps]]
        BY <3>2 DEF Goto, AfterPart
      <4>5. PartsLeft'
        BY <3>2, <4>1 DEF Goto, AfterPart
      <4> QED
        BY <3>1, <4>2, <4>3, <4>4, <4>5 DEF copyVars, gateVars, callVars, tableVars
    <3>3. CASE Goto(c, m, "failed") /\ UNCHANGED answerVars
      BY <3>1, <3>3 DEF Goto, copyVars, gateVars, callVars, tableVars, answerVars
    <3> QED
      BY <2>7, <3>2, <3>3 DEF SendPart
  <2> QED
    BY <1>7, <2>1, <2>2, <2>3, <2>4, <2>5, <2>6, <2>7 DEF CopyStep
<1>8. ASSUME NEW c \in Copies, NEW m \in Messages, CallStep(c, m) PROVE TypeInv'
  <2>1. CASE PutApplied(c, m)
    <3>1. item' \in [Messages -> Item]
      BY <2>1, ItemsAreItems DEF PutApplied, PutReaches
    <3> QED
      BY <2>1, <3>1 DEF PutApplied, copyVars, gateVars, answerVars
  <2>2. CASE UpdateApplied(c, m)
    <3>1. item' \in [Messages -> Item]
      BY <2>2, ItemsAreItems DEF UpdateApplied
    <3> QED
      BY <2>2, <3>1 DEF UpdateApplied, copyVars, gateVars, answerVars
  <2>3. CASE CallLost(c, m)
    BY <2>3 DEF CallLost, copyVars, gateVars, tableVars, answerVars
  <2>4. CASE PutAbandoned(c, m)
    BY <2>4 DEF PutAbandoned, copyVars, gateVars, tableVars, answerVars
  <2>5. CASE CallRefused(c, m)
    BY <2>5 DEF CallRefused, copyVars, gateVars, tableVars, answerVars
  <2> QED
    BY <1>8, <2>1, <2>2, <2>3, <2>4, <2>5 DEF CallStep
<1>9. CASE UNCHANGED vars
  BY <1>9 DEF vars, copyVars, gateVars, callVars, tableVars, answerVars
<1> QED
  BY <1>1, <1>2, <1>3, <1>4, <1>5, <1>6, <1>7, <1>8, <1>9 DEF Next

(* Every state of the claims is one of the states TypeOK describes. *)
THEOREM TypeCorrect == Spec => []TypeOK
<1>1. Spec => []TypeInv
  BY TypeInvInit, TypeInvNext, PTL DEF Spec
<1> QED
  BY <1>1, PTL DEF TypeInv

---------------------------------------------------------------------------
(***************************************************************************)
(* OneClaimant.  The table is what makes two winners impossible: whoever   *)
(* has a positive reply to a put, read or not, is the claimant its item    *)
(* names, and until the item expires nothing changes that name.            *)
(***************************************************************************)
Holds(c, m) == how[c][m] = "claim" \/ (pc[c][m] = "claiming" /\ cur[c][m] = "ok")

HolderIsNamed ==
    \A m \in Messages : ~lapsed[m] =>
        \A c \in Copies : Holds(c, m) => item[m].there /\ item[m].by = c

LEMMA HolderInit == Init => HolderIsNamed
BY DEF Init, HolderIsNamed, Holds

(* A step of on_message past the claim has nothing to do with holding it. *)
LEMMA HolderStays ==
    ASSUME TypeInv, TypeInv', HolderIsNamed, UNCHANGED <<how, cur, item, lapsed>>,
           \A c \in Copies, m \in Messages :
               pc'[c][m] = "claiming" => pc[c][m] = "claiming" \/ cur[c][m] # "ok"
    PROVE  HolderIsNamed'
BY DEF HolderIsNamed, Holds

LEMMA NamesStay ==
    ASSUME HolderIsNamed, UNCHANGED <<pc, how, cur, lapsed>>,
           \A m \in Messages : item[m].there => item'[m].there /\ item'[m].by = item[m].by
    PROVE  HolderIsNamed'
BY DEF HolderIsNamed, Holds

LEMMA LeavesNobodyClaiming ==
    ASSUME TypeInv, NEW c \in Copies, NEW m \in Messages,
           NEW step \in {"turn", "silent", "replying", "answered", "failed"},
           Goto(c, m, step)
    PROVE  \A d \in Copies, n \in Messages :
               pc'[d][n] = "claiming" => pc[d][n] = "claiming"
<1> SUFFICES ASSUME NEW d \in Copies, NEW n \in Messages, pc'[d][n] = "claiming"
             PROVE  pc[d][n] = "claiming"
  OBVIOUS
<1>1. pc \in [Copies -> [Messages -> Steps]]
  BY DEF TypeInv, TypeOK
<1>2. pc' = [pc EXCEPT ![c][m] = step]
  BY DEF Goto
<1>3. CASE d = c /\ n = m
  BY <1>1, <1>2, <1>3
<1>4. CASE ~(d = c /\ n = m)
  BY <1>1, <1>2, <1>4
<1> QED
  BY <1>3, <1>4

LEMMA HolderNext == TypeInv /\ HolderIsNamed /\ [Next]_vars => HolderIsNamed'
<1> SUFFICES ASSUME TypeInv, HolderIsNamed, [Next]_vars PROVE HolderIsNamed'
  OBVIOUS
<1> USE DEF TypeInv, TypeOK, HolderIsNamed, Holds
<1>1. ASSUME NEW c \in Copies, Connect(c) \/ Stop(c) PROVE HolderIsNamed'
  BY <1>1 DEF Connect, Stop, callVars, tableVars
<1>2. ASSUME NEW m \in Messages, Post(m) PROVE HolderIsNamed'
  BY <1>2 DEF Post, callVars, tableVars
<1>3. ASSUME NEW m \in Messages, Expire(m) PROVE HolderIsNamed'
  BY <1>3 DEF Expire, callVars
<1>4. ASSUME NEW c \in Copies, NEW m \in Messages, Deliver(c, m) PROVE HolderIsNamed'
  <2>1. UNCHANGED tableVars
    BY <1>4 DEF Deliver
  <2>2. CASE Goto(c, m, "ignored") /\ UNCHANGED <<how, cur, sends>>
    BY <2>1, <2>2 DEF Goto, tableVars
  <2>3. CASE /\ Goto(c, m, "turn")
             /\ how' = [how EXCEPT ![c][m] = "no_table"]
             /\ UNCHANGED <<cur, sends>>
    BY <2>1, <2>3 DEF Goto, tableVars
  <2>4. CASE /\ Goto(c, m, "claiming")
             /\ cur' = [cur EXCEPT ![c][m] = "request"]
             /\ UNCHANGED how
    BY <2>1, <2>4 DEF Goto, tableVars
  <2> QED
    BY <1>4, <2>2, <2>3, <2>4 DEF Deliver
<1>5. ASSUME NEW c \in Copies, NEW m \in Messages, PutReaches(c, m)
      PROVE  \A n \in Messages : item[n].there =>
                item'[n].there /\ item'[n].by = item[n].by
  BY <1>5 DEF PutReaches, MayCreate
<1>6. ASSUME NEW c \in Copies, NEW m \in Messages, LatePut(c, m) PROVE HolderIsNamed'
  <2>1. /\ UNCHANGED <<pc, how, cur, lapsed>>
        /\ \A n \in Messages : item[n].there => item'[n].there /\ item'[n].by = item[n].by
    BY <1>5, <1>6 DEF LatePut
  <2> QED
    BY <2>1, NamesStay
<1>7. ASSUME NEW c \in Copies, NEW m \in Messages, CopyStep(c, m) PROVE HolderIsNamed'
  <2>1. CASE Won(c, m)
    BY <2>1 DEF Won, WinningReplies, Goto, tableVars
  <2>2. CASE Lost(c, m)
    BY <2>2 DEF Lost, Goto, tableVars
  <2>3. CASE StoreFailed(c, m)
    BY <2>3 DEF StoreFailed, OnStoreError, Goto, tableVars
  <2>4. CASE Resend(c, m)
    BY <2>4 DEF Resend, tableVars
  <2>5. CASE Yield(c, m)
    BY <2>5 DEF Yield, Goto, tableVars
  <2>6. CASE Turn(c, m)
    <3>1. \A d \in Copies, n \in Messages :
              pc'[d][n] = "claiming" => pc[d][n] = "claiming"
      <4>1. Goto(c, m, "replying") \/ Goto(c, m, "failed")
        BY <2>6 DEF Turn
      <4> QED
        BY <4>1, LeavesNobodyClaiming
    <3> QED
      BY <2>6, <3>1, HolderStays, TypeInvNext DEF Turn, callVars, tableVars
  <2>7. CASE SendPart(c, m)
    <3>1. \A d \in Copies, n \in Messages :
              pc'[d][n] = "claiming" => pc[d][n] = "claiming"
      <4>1. Goto(c, m, AfterPart(c, m)) \/ Goto(c, m, "failed")
        BY <2>7 DEF SendPart
      <4> QED
        BY <4>1, LeavesNobodyClaiming DEF AfterPart
    <3> QED
      BY <2>7, <3>1, HolderStays, TypeInvNext DEF SendPart, callVars, tableVars
  <2> QED
    BY <1>7, <2>1, <2>2, <2>3, <2>4, <2>5, <2>6, <2>7 DEF CopyStep
<1>8. ASSUME NEW c \in Copies, NEW m \in Messages, CallStep(c, m) PROVE HolderIsNamed'
  <2>1. CASE PutApplied(c, m)
    <3>1. ASSUME MayCreate(m) PROVE item'[m].there /\ item'[m].by = c
      BY <2>1, <3>1 DEF PutApplied, PutReaches, Claimed, NoItem
    <3>2. \A n \in Messages : item[n].there => item'[n].there /\ item'[n].by = item[n].by
      BY <1>5, <2>1 DEF PutApplied
    <3>3. ASSUME NEW d \in Copies, NEW n \in Messages, Holds(d, n)'
          PROVE  Holds(d, n) \/ (d = c /\ n = m /\ MayCreate(m))
      BY <2>1, <3>3 DEF PutApplied
    <3>4. ASSUME NEW n \in Messages, ~lapsed[n], NEW d \in Copies, Holds(d, n)'
          PROVE  item'[n].there /\ item'[n].by = d
      <4>1. CASE Holds(d, n)
        <5>1. item[n].there /\ item[n].by = d
          BY <3>4, <4>1
        <5> QED
          BY <3>2, <5>1
      <4>2. CASE d = c /\ n = m /\ MayCreate(m)
        BY <3>1, <4>2
      <4> QED
        BY <3>3, <3>4, <4>1, <4>2
    <3>5. lapsed' = lapsed
      BY <2>1 DEF PutApplied
    <3> QED
      BY <3>4, <3>5
  <2>2. CASE UpdateApplied(c, m)
    BY <2>2 DEF UpdateApplied, Noted, Item
  <2>3. CASE CallLost(c, m)
    BY <2>3 DEF CallLost, tableVars
  <2>4. CASE PutAbandoned(c, m)
    BY <2>4 DEF PutAbandoned, tableVars
  <2>5. CASE CallRefused(c, m)
    BY <2>5 DEF CallRefused, tableVars
  <2> QED
    BY <1>8, <2>1, <2>2, <2>3, <2>4, <2>5 DEF CallStep
<1>9. CASE UNCHANGED vars
  BY <1>9 DEF vars, callVars, tableVars
<1> QED
  BY <1>1, <1>2, <1>3, <1>4, <1>6, <1>7, <1>8, <1>9 DEF Next

(* Exactly one of any number of concurrent copies wins a claim that has    *)
(* not expired, however often calls are lost, re-sent or late.             *)
THEOREM AtMostOneClaimant == Spec => []OneClaimant
<1>1. TypeInv /\ HolderIsNamed => OneClaimant
  BY DEF TypeInv, HolderIsNamed, Holds, OneClaimant
<1>2. Spec => [](TypeInv /\ HolderIsNamed)
  BY TypeInvInit, TypeInvNext, HolderInit, HolderNext, PTL DEF Spec
<1> QED
  BY <1>1, <1>2, PTL

---------------------------------------------------------------------------
(***************************************************************************)
(* The refinement.  A copy decides once how it takes a message, so the     *)
(* claimants and the unprotected only grow: until on_message has decided,  *)
(* how says nothing, and a message is not delivered to it again.           *)
(***************************************************************************)
Undecided == {"idle", "ignored", "claiming"}

DecidesOnce ==
    \A c \in Copies, m \in Messages :
        /\ fact[m] = NoFacts \/ c \in owed[m] => pc[c][m] \in {"idle", "ignored"}
        /\ pc[c][m] \in Undecided => how[c][m] = "none"

LEMMA DecidesInit == Init => DecidesOnce
BY DEF Init, DecidesOnce

(* A step that goes on from where on_message is, to where it has decided   *)
(* or has nothing to decide.                                               *)
LEMMA GoesOn ==
    ASSUME TypeInv, DecidesOnce, NEW c \in Copies, NEW m \in Messages,
           NEW step \in Steps \ Undecided, Goto(c, m, step),
           pc[c][m] \notin {"idle", "ignored"},
           UNCHANGED <<fact, owed>>,
           \A d \in Copies, n \in Messages : d # c \/ n # m => how'[d][n] = how[d][n]
    PROVE  DecidesOnce'
<1>1. pc \in [Copies -> [Messages -> Steps]]
  BY DEF TypeInv, TypeOK
<1>2. pc' = [pc EXCEPT ![c][m] = step]
  BY DEF Goto
<1> SUFFICES ASSUME NEW d \in Copies, NEW n \in Messages
             PROVE  /\ fact[n] = NoFacts \/ d \in owed[n] => pc'[d][n] \in {"idle", "ignored"}
                    /\ pc'[d][n] \in Undecided => how'[d][n] = "none"
  BY DEF DecidesOnce
<1>3. CASE d = c /\ n = m
  <2>1. pc'[d][n] = step
    BY <1>1, <1>2, <1>3
  <2> QED
    BY <1>3, <2>1 DEF DecidesOnce, Undecided
<1>4. CASE d # c \/ n # m
  <2>1. pc'[d][n] = pc[d][n]
    BY <1>1, <1>2, <1>4
  <2> QED
    BY <1>4, <2>1 DEF DecidesOnce
<1> QED
  BY <1>3, <1>4

LEMMA DecidesNext == TypeInv /\ DecidesOnce /\ [Next]_vars => DecidesOnce'
<1> SUFFICES ASSUME TypeInv, DecidesOnce, [Next]_vars PROVE DecidesOnce'
  OBVIOUS
<1>1. CASE UNCHANGED <<fact, owed, pc, how>>
  BY <1>1 DEF DecidesOnce
<1>2. ASSUME NEW m \in Messages, Post(m) PROVE DecidesOnce'
  BY <1>2 DEF Post, DecidesOnce, TypeInv, TypeOK
<1>3. ASSUME NEW c \in Copies, NEW m \in Messages, Deliver(c, m) PROVE DecidesOnce'
  <2> USE DEF TypeInv, TypeOK, DecidesOnce, Steps, Undecided
  <2>1. /\ c \in owed[m] /\ owed' = [owed EXCEPT ![m] = @ \ {c}]
        /\ UNCHANGED fact
    BY <1>3 DEF Deliver
  <2>2. pc[c][m] \in {"idle", "ignored"} /\ how[c][m] = "none"
    BY <2>1
  <2>3. Addressed(fact[m]) => fact[m] # NoFacts
    BY DEF Addressed, NoFacts
  <2>4. CASE Goto(c, m, "ignored") /\ UNCHANGED <<how, cur, sends>>
    BY <2>1, <2>2, <2>4 DEF Goto
  <2>5. CASE /\ Addressed(fact[m]) /\ Goto(c, m, "turn")
             /\ how' = [how EXCEPT ![c][m] = "no_table"]
    BY <2>1, <2>2, <2>3, <2>5 DEF Goto
  <2>6. CASE Addressed(fact[m]) /\ Goto(c, m, "claiming") /\ UNCHANGED how
    BY <2>1, <2>2, <2>3, <2>6 DEF Goto
  <2> QED
    BY <1>3, <2>4, <2>5, <2>6 DEF Deliver
<1>4. ASSUME NEW c \in Copies, NEW m \in Messages,
             Won(c, m) \/ Lost(c, m) \/ StoreFailed(c, m) \/ Yield(c, m)
      PROVE  DecidesOnce'
  <2>1. how \in [Copies -> [Messages -> {"none", "claim", "store_error", "no_table"}]]
    BY DEF TypeInv, TypeOK
  <2>2. UNCHANGED <<fact, owed>> /\ pc[c][m] \notin {"idle", "ignored"}
    BY <1>4 DEF Won, Lost, StoreFailed, Yield, gateVars
  <2>3. \/ Goto(c, m, "turn") /\ how' = [how EXCEPT ![c][m] = "claim"]
        \/ Goto(c, m, "turn") /\ how' = [how EXCEPT ![c][m] = "store_error"]
        \/ Goto(c, m, "recording") /\ how' = how
        \/ Goto(c, m, "silent") /\ how' = how
    BY <1>4 DEF Won, Lost, StoreFailed, OnStoreError, Yield
  <2>4. \A d \in Copies, n \in Messages : d # c \/ n # m => how'[d][n] = how[d][n]
    BY <2>1, <2>3
  <2> QED
    BY <2>2, <2>3, <2>4, GoesOn DEF Steps, Undecided
<1>5. ASSUME NEW c \in Copies, NEW m \in Messages, Turn(c, m) \/ SendPart(c, m)
      PROVE  DecidesOnce'
  <2>1. UNCHANGED <<fact, owed, how>> /\ pc[c][m] \notin {"idle", "ignored"}
    BY <1>5 DEF Turn, SendPart, gateVars
  <2>2. \E step \in {"replying", "answered", "failed"} : Goto(c, m, step)
    BY <1>5 DEF Turn, SendPart, AfterPart
  <2> QED
    BY <2>1, <2>2, GoesOn DEF Steps, Undecided
<1> QED
  <2>1. ASSUME NEW c \in Copies, Connect(c) \/ Stop(c)
        PROVE  UNCHANGED <<fact, owed, pc, how>>
    BY <2>1 DEF Connect, Stop, gateVars
  <2>2. ASSUME NEW m \in Messages, Expire(m) PROVE UNCHANGED <<fact, owed, pc, how>>
    BY <2>2 DEF Expire, gateVars
  <2>3. ASSUME NEW c \in Copies, NEW m \in Messages,
               LatePut(c, m) \/ Resend(c, m) \/ CallStep(c, m)
        PROVE  UNCHANGED <<fact, owed, pc, how>>
    BY <2>3 DEF LatePut, Resend, CallStep, PutApplied, UpdateApplied, CallLost,
                PutAbandoned, CallRefused, gateVars
  <2>4. CASE UNCHANGED vars
    BY <1>1, <2>4 DEF vars, gateVars
  <2> QED
    BY <1>1, <1>2, <1>3, <1>4, <1>5, <2>1, <2>2, <2>3, <2>4 DEF Next, CopyStep

Claimants == [m \in Messages |-> {c \in Copies : how[c][m] = "claim"}]

Unprotected ==
    [m \in Messages |-> {c \in Copies : how[c][m] \in {"store_error", "no_table"}}]

LEMMA PromiseInit == Init => Promise!Init
BY DEF Init, Promise!Init

(* Only three actions decide, and only expiry makes a claim lapse. *)
LEMMA DecidingSteps ==
    ASSUME [Next]_vars
    PROVE  \/ UNCHANGED <<how, lapsed>>
           \/ \E m \in Messages : Expire(m)
           \/ \E c \in Copies, m \in Messages :
                 Won(c, m) \/ StoreFailed(c, m) \/ Deliver(c, m)
<1>1. ASSUME NEW c \in Copies, Connect(c) \/ Stop(c) PROVE UNCHANGED <<how, lapsed>>
  BY <1>1 DEF Connect, Stop, tableVars
<1>2. ASSUME NEW m \in Messages, Post(m) PROVE UNCHANGED <<how, lapsed>>
  BY <1>2 DEF Post, tableVars
<1>3. ASSUME NEW c \in Copies, NEW m \in Messages, LatePut(c, m) \/ CallStep(c, m)
      PROVE  UNCHANGED <<how, lapsed>>
  BY <1>3 DEF LatePut, CallStep, PutApplied, UpdateApplied, CallLost, PutAbandoned,
              CallRefused, tableVars
<1>4. ASSUME NEW c \in Copies, NEW m \in Messages,
             Lost(c, m) \/ Resend(c, m) \/ Yield(c, m) \/ Turn(c, m) \/ SendPart(c, m)
      PROVE  UNCHANGED <<how, lapsed>>
  BY <1>4 DEF Lost, Resend, Yield, Turn, SendPart, tableVars
<1>5. CASE UNCHANGED vars
  BY <1>5 DEF vars, tableVars
<1> QED
  BY <1>1, <1>2, <1>3, <1>4, <1>5 DEF Next, CopyStep

(* A copy that decides joins the set its decision stands for, and no       *)
(* other.                                                                  *)
LEMMA Joins ==
    ASSUME TypeInv, NEW c \in Copies, NEW m \in Messages, how[c][m] = "none",
           NEW way \in {"claim", "store_error", "no_table"},
           how' = [how EXCEPT ![c][m] = way]
    PROVE  /\ Claimants' = IF way = "claim"
                           THEN [Claimants EXCEPT ![m] = @ \cup {c}] ELSE Claimants
           /\ Unprotected' = IF way = "claim" THEN Unprotected
                             ELSE [Unprotected EXCEPT ![m] = @ \cup {c}]
<1>1. how \in [Copies -> [Messages -> {"none", "claim", "store_error", "no_table"}]]
  BY DEF TypeInv, TypeOK
<1>2. \A d \in Copies, n \in Messages :
          how'[d][n] = IF d = c /\ n = m THEN way ELSE how[d][n]
  BY <1>1
<1>3. \A n \in Messages : Claimants'[n] =
          IF n = m /\ way = "claim" THEN Claimants[n] \cup {c} ELSE Claimants[n]
  BY <1>2 DEF Claimants
<1>4. \A n \in Messages : Unprotected'[n] =
          IF n = m /\ way # "claim" THEN Unprotected[n] \cup {c} ELSE Unprotected[n]
  BY <1>2 DEF Unprotected
<1> QED
  BY <1>3, <1>4 DEF Claimants, Unprotected

LEMMA PromiseNext ==
    TypeInv /\ HolderIsNamed /\ DecidesOnce /\ [Next]_vars
        => [Promise!Next]_(Promise!promiseVars)
<1> SUFFICES ASSUME TypeInv, HolderIsNamed, DecidesOnce, [Next]_vars
             PROVE  [Promise!Next]_<<Claimants, Unprotected, lapsed>>
  BY DEF Promise!promiseVars, Claimants, Unprotected
<1>1. CASE UNCHANGED <<how, lapsed>>
  BY <1>1 DEF Claimants, Unprotected
<1>2. ASSUME NEW m \in Messages, Expire(m) PROVE Promise!Lapse(m)
  BY <1>2 DEF Expire, Promise!Lapse
<1>3. ASSUME NEW c \in Copies, NEW m \in Messages, Won(c, m) PROVE Promise!Take(c, m)
  <2>1. Holds(c, m) /\ how[c][m] = "none" /\ lapsed' = lapsed
    BY <1>3 DEF Won, WinningReplies, Holds, DecidesOnce, Undecided, tableVars
  <2>2. Claimants[m] = {} \/ lapsed[m]
    BY <2>1 DEF HolderIsNamed, Holds, Claimants
  <2>3. /\ Claimants' = [Claimants EXCEPT ![m] = @ \cup {c}]
        /\ Unprotected' = Unprotected
    BY <1>3, <2>1, Joins DEF Won
  <2> QED
    BY <2>1, <2>2, <2>3 DEF Promise!Take, Claimants, Unprotected
<1>4. ASSUME NEW c \in Copies, NEW m \in Messages, StoreFailed(c, m)
      PROVE  Promise!TakeAnyway(c, m)
  <2>1. how[c][m] = "none" /\ lapsed' = lapsed
    BY <1>4 DEF StoreFailed, DecidesOnce, Undecided, tableVars
  <2>2. /\ Claimants' = Claimants
        /\ Unprotected' = [Unprotected EXCEPT ![m] = @ \cup {c}]
    BY <1>4, <2>1, Joins DEF StoreFailed
  <2> QED
    BY <2>1, <2>2 DEF Promise!TakeAnyway, Claimants, Unprotected
<1>5. ASSUME NEW c \in Copies, NEW m \in Messages, Deliver(c, m)
      PROVE  UNCHANGED <<how, lapsed>> \/ Promise!TakeAnyway(c, m)
  <2>1. how[c][m] = "none" /\ lapsed' = lapsed
    BY <1>5 DEF Deliver, DecidesOnce, Undecided, tableVars
  <2>2. how' = how \/ how' = [how EXCEPT ![c][m] = "no_table"]
    BY <1>5 DEF Deliver
  <2>3. ASSUME how' = [how EXCEPT ![c][m] = "no_table"]
        PROVE  /\ Claimants' = Claimants
               /\ Unprotected' = [Unprotected EXCEPT ![m] = @ \cup {c}]
    BY <2>1, <2>3, Joins
  <2> QED
    BY <2>1, <2>2, <2>3 DEF Promise!TakeAnyway, Claimants, Unprotected
<1>6. Promise!Next => [Promise!Next]_<<Claimants, Unprotected, lapsed>>
  OBVIOUS
<1> QED
  BY <1>1, <1>2, <1>3, <1>4, <1>5, <1>6, DecidingSteps DEF Promise!Next

(* The claims keep the promise of AtMostOnce, however many copies there    *)
(* are and however often the SDK sends a call: the table, the re-sends and *)
(* the late puts are an implementation of "taken at most once".            *)
THEOREM ClaimsKeepPromise == Spec => KeepsPromise
<1>1. Spec => [](TypeInv /\ HolderIsNamed /\ DecidesOnce)
  BY TypeInvInit, TypeInvNext, HolderInit, HolderNext, DecidesInit, DecidesNext,
     PTL DEF Spec
<1> QED
  BY <1>1, PromiseInit, PromiseNext, PTL DEF Spec, KeepsPromise, Promise!Spec

---------------------------------------------------------------------------
(***************************************************************************)
(* NoSilentDrop.  A put that may have created the item, or may still do    *)
(* so, belongs to a copy that is settled: it takes the message, or waits   *)
(* for an answer that is success or none, or has sent its put again.  So   *)
(* the copy the item names takes the message, or lost to itself; and       *)
(* whoever lost did so to an item that is there.                           *)
(***************************************************************************)
Settled(c, m) ==
    \/ pc[c][m] \in Taken
    \/ pc[c][m] = "claiming" /\ cur[c][m] \in {"ok", "none"}
    \/ m \in resent[c]

LostOut(c, m) ==
    Yielded(c, m) \/ (pc[c][m] = "claiming" /\ cur[c][m] = "conditional")

ItemIsSettled ==
    \A m \in Messages : ~lapsed[m] =>
        /\ item[m].there => item[m].by \in Copies /\ Settled(item[m].by, m)
        /\ \A c \in Copies : /\ LostOut(c, m) => item[m].there
                             /\ late[c][m] > 0 => Settled(c, m)

(* A put is sent again by a copy that set out to claim the message. *)
ResentClaimed ==
    \A c \in Copies, m \in Messages :
        m \in resent[c] => pc[c][m] \notin {"idle", "ignored"}

DropInv == ItemIsSettled /\ ResentClaimed

LEMMA DropInit == Init => DropInv
BY DEF Init, DropInv, ItemIsSettled, ResentClaimed, LostOut, Yielded, NoItem

LEMMA ResentNext == TypeInv /\ DecidesOnce /\ ResentClaimed /\ [Next]_vars => ResentClaimed'
<1> SUFFICES ASSUME TypeInv, DecidesOnce, ResentClaimed, [Next]_vars PROVE ResentClaimed'
  OBVIOUS
<1> USE DEF TypeInv, TypeOK, ResentClaimed, Steps
<1>1. CASE UNCHANGED <<resent, pc>>
  BY <1>1
<1>2. ASSUME NEW c \in Copies, NEW m \in Messages, Deliver(c, m) PROVE ResentClaimed'
  <2>1. pc[c][m] \in {"idle", "ignored"} /\ resent' = resent
    BY <1>2 DEF Deliver, DecidesOnce, copyVars
  <2>2. m \notin resent[c]
    BY <2>1
  <2>3. \E step \in {"ignored", "turn", "claiming"} : Goto(c, m, step)
    BY <1>2 DEF Deliver
  <2> QED
    BY <2>1, <2>2, <2>3 DEF Goto
<1>3. ASSUME NEW c \in Copies, NEW m \in Messages, Resend(c, m) PROVE ResentClaimed'
  BY <1>3 DEF Resend
<1>4. ASSUME NEW c \in Copies, NEW m \in Messages,
             Won(c, m) \/ Lost(c, m) \/ StoreFailed(c, m) \/ Yield(c, m)
             \/ Turn(c, m) \/ SendPart(c, m)
      PROVE  ResentClaimed'
  <2>1. resent' = resent
    BY <1>4 DEF Won, Lost, StoreFailed, Yield, Turn, SendPart, copyVars
  <2>2. \E step \in {"turn", "recording", "silent", "replying", "answered", "failed"} :
           Goto(c, m, step)
    BY <1>4 DEF Won, Lost, StoreFailed, OnStoreError, Yield, Turn, SendPart, AfterPart
  <2> QED
    BY <2>1, <2>2 DEF Goto
<1> QED
  <2>1. ASSUME NEW c \in Copies, Connect(c) \/ Stop(c) PROVE UNCHANGED <<resent, pc>>
    BY <2>1 DEF Connect, Stop
  <2>2. ASSUME NEW m \in Messages, Post(m) \/ Expire(m) PROVE UNCHANGED <<resent, pc>>
    BY <2>2 DEF Post, Expire, copyVars
  <2>3. ASSUME NEW c \in Copies, NEW m \in Messages, LatePut(c, m) \/ CallStep(c, m)
        PROVE  UNCHANGED <<resent, pc>>
    BY <2>3 DEF LatePut, CallStep, PutApplied, UpdateApplied, CallLost, PutAbandoned,
                CallRefused, copyVars
  <2>4. CASE UNCHANGED vars
    BY <2>4 DEF vars, copyVars
  <2> QED
    BY <1>1, <1>2, <1>3, <1>4, <2>1, <2>2, <2>3, <2>4 DEF Next, CopyStep

(* Nothing forgets that a put was sent again. *)
LEMMA ResentStays ==
    ASSUME TypeInv, [Next]_vars, NEW c \in Copies, NEW m \in Messages, m \in resent[c]
    PROVE  m \in resent'[c]
<1>1. resent' = resent \/ \E d \in Copies, n \in Messages : Resend(d, n)
  BY DEF Next, vars, copyVars, Connect, Stop, Post, Expire, Deliver, LatePut, CopyStep,
         CallStep, Won, Lost, StoreFailed, Yield, Turn, SendPart, PutApplied,
         UpdateApplied, CallLost, PutAbandoned, CallRefused
<1> QED
  BY <1>1 DEF Resend, TypeInv, TypeOK

(* A copy that is settled stays so. *)
LEMMA StaysSettled ==
    ASSUME TypeInv, DecidesOnce, [Next]_vars,
           NEW c \in Copies, NEW m \in Messages, Settled(c, m)
    PROVE  Settled(c, m)'
<1> USE DEF TypeInv, TypeOK, Steps, Taken
<1>0. ASSUME m \in resent[c] PROVE Settled(c, m)'
  BY <1>0, ResentStays DEF Settled
<1> SUFFICES ASSUME m \notin resent[c] PROVE Settled(c, m)'
  BY <1>0
<1> USE DEF Settled
<1>1. CASE UNCHANGED <<pc, cur>>
  BY <1>1
<1>2. ASSUME NEW d \in Copies, NEW n \in Messages, Deliver(d, n) PROVE Settled(c, m)'
  <2>1. pc[d][n] \in {"idle", "ignored"}
    BY <1>2 DEF Deliver, DecidesOnce
  <2>2. d # c \/ n # m
    BY <2>1
  <2>3. CASE Goto(d, n, "ignored") /\ UNCHANGED cur
    BY <2>2, <2>3 DEF Goto
  <2>4. CASE Goto(d, n, "turn") /\ UNCHANGED cur
    BY <2>2, <2>4 DEF Goto
  <2>5. CASE Goto(d, n, "claiming") /\ cur' = [cur EXCEPT ![d][n] = "request"]
    BY <2>2, <2>5 DEF Goto
  <2> QED
    BY <1>2, <2>3, <2>4, <2>5 DEF Deliver
<1>3. ASSUME NEW d \in Copies, NEW n \in Messages, CallStep(d, n) PROVE Settled(c, m)'
  <2>1. CASE PutApplied(d, n)
    BY <2>1 DEF PutApplied
  <2>2. CASE UpdateApplied(d, n)
    BY <2>2 DEF UpdateApplied
  <2>3. CASE CallLost(d, n)
    BY <2>3 DEF CallLost
  <2>4. CASE PutAbandoned(d, n)
    BY <2>4 DEF PutAbandoned
  <2>5. CASE CallRefused(d, n)
    BY <2>5 DEF CallRefused
  <2> QED
    BY <1>3, <2>1, <2>2, <2>3, <2>4, <2>5 DEF CallStep
<1>4. ASSUME NEW d \in Copies, NEW n \in Messages, Won(d, n) \/ StoreFailed(d, n)
      PROVE  Settled(c, m)'
  <2>1. /\ Goto(d, n, "turn") /\ pc[d][n] = "claiming"
        /\ cur' = [cur EXCEPT ![d][n] = "none"]
    BY <1>4 DEF Won, StoreFailed, OnStoreError
  <2>2. CASE c = d /\ m = n
    BY <2>1, <2>2 DEF Goto
  <2>3. CASE c # d \/ m # n
    BY <2>1, <2>3 DEF Goto
  <2> QED
    BY <2>2, <2>3
<1>5. ASSUME NEW d \in Copies, NEW n \in Messages,
             Lost(d, n) \/ Yield(d, n) \/ Resend(d, n)
      PROVE  Settled(c, m)'
  <2>1. CASE Lost(d, n)
    BY <2>1 DEF Lost, Goto
  <2>2. CASE Yield(d, n)
    BY <2>2 DEF Yield, Goto
  <2>3. CASE Resend(d, n)
    <3>1. CASE c = d /\ m = n
      BY <2>3, <3>1 DEF Resend
    <3>2. CASE c # d \/ m # n
      BY <2>3, <3>2 DEF Resend
    <3> QED
      BY <3>1, <3>2
  <2> QED
    BY <1>5, <2>1, <2>2, <2>3
<1>6. ASSUME NEW d \in Copies, NEW n \in Messages, Turn(d, n) \/ SendPart(d, n)
      PROVE  Settled(c, m)'
  <2>1. cur' = cur
    BY <1>6 DEF Turn, SendPart, callVars
  <2>2. \E step \in {"replying", "answered", "failed"} : Goto(d, n, step)
    BY <1>6 DEF Turn, SendPart, AfterPart
  <2> QED
    BY <2>1, <2>2 DEF Goto
<1> QED
  <2>1. ASSUME NEW d \in Copies, Connect(d) \/ Stop(d) PROVE UNCHANGED <<pc, cur>>
    BY <2>1 DEF Connect, Stop, callVars
  <2>2. ASSUME NEW n \in Messages, Post(n) \/ Expire(n) PROVE UNCHANGED <<pc, cur>>
    BY <2>2 DEF Post, Expire, callVars
  <2>3. ASSUME NEW d \in Copies, NEW n \in Messages, LatePut(d, n)
        PROVE  UNCHANGED <<pc, cur>>
    BY <2>3 DEF LatePut
  <2>4. CASE UNCHANGED vars
    BY <2>4 DEF vars, callVars
  <2> QED
    BY <1>1, <1>2, <1>3, <1>4, <1>5, <1>6, <2>1, <2>2, <2>3, <2>4 DEF Next, CopyStep

(* A step makes no copy lose but the one whose put was refused, or whose   *)
(* loss it goes on to record.                                              *)
LEMMA LosersAreFew ==
    ASSUME TypeInv, DecidesOnce, [Next]_vars,
           NEW c \in Copies, NEW m \in Messages, LostOut(c, m)'
    PROVE  LostOut(c, m) \/ item[m].there
<1> USE DEF TypeInv, TypeOK, LostOut, Yielded, Steps
<1>1. CASE UNCHANGED <<pc, cur>>
  BY <1>1
<1>2. ASSUME NEW d \in Copies, NEW n \in Messages, Deliver(d, n)
      PROVE  LostOut(c, m)
  <2>1. CASE Goto(d, n, "ignored") /\ UNCHANGED cur
    BY <2>1 DEF Goto
  <2>2. CASE Goto(d, n, "turn") /\ UNCHANGED cur
    BY <2>2 DEF Goto
  <2>3. CASE Goto(d, n, "claiming") /\ cur' = [cur EXCEPT ![d][n] = "request"]
    BY <2>3 DEF Goto
  <2> QED
    BY <1>2, <2>1, <2>2, <2>3 DEF Deliver
<1>3. ASSUME NEW d \in Copies, NEW n \in Messages, CallStep(d, n)
      PROVE  LostOut(c, m) \/ item[m].there
  <2>1. CASE PutApplied(d, n)
    BY <2>1 DEF PutApplied, MayCreate
  <2>2. CASE UpdateApplied(d, n)
    BY <2>2 DEF UpdateApplied
  <2>3. CASE CallLost(d, n)
    BY <2>3 DEF CallLost
  <2>4. CASE PutAbandoned(d, n)
    BY <2>4 DEF PutAbandoned
  <2>5. CASE CallRefused(d, n)
    BY <2>5 DEF CallRefused
  <2> QED
    BY <1>3, <2>1, <2>2, <2>3, <2>4, <2>5 DEF CallStep
<1>4. ASSUME NEW d \in Copies, NEW n \in Messages, Lost(d, n) PROVE LostOut(c, m)
  BY <1>4 DEF Lost, Goto
<1>5. ASSUME NEW d \in Copies, NEW n \in Messages, Yield(d, n) PROVE LostOut(c, m)
  BY <1>5 DEF Yield, Goto
<1>6. ASSUME NEW d \in Copies, NEW n \in Messages, Resend(d, n) PROVE LostOut(c, m)
  BY <1>6 DEF Resend
<1>7. ASSUME NEW d \in Copies, NEW n \in Messages, Won(d, n) \/ StoreFailed(d, n)
      PROVE  LostOut(c, m)
  <2>1. /\ Goto(d, n, "turn") /\ cur' = [cur EXCEPT ![d][n] = "none"]
    BY <1>7 DEF Won, StoreFailed, OnStoreError
  <2> QED
    BY <2>1 DEF Goto
<1>8. ASSUME NEW d \in Copies, NEW n \in Messages, Turn(d, n) \/ SendPart(d, n)
      PROVE  LostOut(c, m)
  <2>1. cur' = cur
    BY <1>8 DEF Turn, SendPart, callVars
  <2>2. \E step \in {"replying", "answered", "failed"} : Goto(d, n, step)
    BY <1>8 DEF Turn, SendPart, AfterPart
  <2> QED
    BY <2>1, <2>2 DEF Goto
<1> QED
  <2>1. ASSUME NEW d \in Copies, Connect(d) \/ Stop(d) PROVE UNCHANGED <<pc, cur>>
    BY <2>1 DEF Connect, Stop, callVars
  <2>2. ASSUME NEW n \in Messages, Post(n) \/ Expire(n) PROVE UNCHANGED <<pc, cur>>
    BY <2>2 DEF Post, Expire, callVars
  <2>3. ASSUME NEW d \in Copies, NEW n \in Messages, LatePut(d, n)
        PROVE  UNCHANGED <<pc, cur>>
    BY <2>3 DEF LatePut
  <2>4. CASE UNCHANGED vars
    BY <2>4 DEF vars, callVars
  <2> QED
    BY <1>1, <1>2, <1>3, <1>4, <1>5, <1>6, <1>7, <1>8, <2>1, <2>2, <2>3, <2>4
    DEF Next, CopyStep

(* Until it expires an item stays, and names the same claimant; a step     *)
(* that makes one names a copy whose put it is, which is settled by it.    *)
LEMMA ItemsStay ==
    ASSUME TypeInv, ItemIsSettled, [Next]_vars,
           NEW m \in Messages, ~lapsed'[m]
    PROVE  /\ ~lapsed[m]
           /\ item[m].there => item'[m].there
           /\ item'[m].there =>
                 \/ item[m].there /\ item'[m].by = item[m].by
                 \/ \E c \in Copies :
                       /\ item'[m].by = c
                       /\ Settled(c, m) \/ Settled(c, m)'
<1> USE DEF TypeInv, TypeOK
<1>1. CASE UNCHANGED <<item, lapsed>>
  BY <1>1
<1>2. ASSUME NEW n \in Messages, Expire(n)
      PROVE  n # m /\ ~lapsed[m] /\ item'[m] = item[m]
  BY <1>2 DEF Expire
<1>3. ASSUME NEW d \in Copies, NEW n \in Messages, PutReaches(d, n)
      PROVE  \/ item'[m] = item[m]
             \/ n = m /\ ~item[m].there /\ item'[m].there /\ item'[m].by = d
  BY <1>3 DEF PutReaches, MayCreate, Claimed
<1>4. ASSUME NEW d \in Copies, NEW n \in Messages, PutApplied(d, n)
      PROVE  /\ lapsed' = lapsed
             /\ \/ item'[m] = item[m]
                \/ ~item[m].there /\ item'[m].there /\ item'[m].by = d /\ Settled(d, m)'
  <2>1. MayCreate(n) => Settled(d, n)'
    BY <1>4 DEF PutApplied, Settled
  <2> QED
    BY <1>3, <1>4, <2>1 DEF PutApplied, MayCreate
<1>5. ASSUME NEW d \in Copies, NEW n \in Messages, LatePut(d, n)
      PROVE  /\ lapsed' = lapsed
             /\ \/ item'[m] = item[m]
                \/ ~item[m].there /\ item'[m].there /\ item'[m].by = d /\ Settled(d, m)
  BY <1>3, <1>5 DEF LatePut, ItemIsSettled
<1>6. ASSUME NEW d \in Copies, NEW n \in Messages, UpdateApplied(d, n)
      PROVE  /\ lapsed' = lapsed
             /\ item'[m] = item[m] \/ (item[m].there /\ item'[m].there /\ item'[m].by = item[m].by)
  <2>1. ~lapsed[n] => item[n].there
    BY <1>6 DEF UpdateApplied, ItemIsSettled, LostOut, Yielded
  <2>2. item' = [item EXCEPT ![n] = Noted(d, @)] /\ lapsed' = lapsed
    BY <1>6 DEF UpdateApplied
  <2> QED
    BY <2>1, <2>2 DEF Noted
<1> QED
  <2>1. ASSUME NEW d \in Copies, Connect(d) \/ Stop(d) PROVE UNCHANGED <<item, lapsed>>
    BY <2>1 DEF Connect, Stop, tableVars
  <2>2. ASSUME NEW n \in Messages, Post(n) PROVE UNCHANGED <<item, lapsed>>
    BY <2>2 DEF Post, tableVars
  <2>3. ASSUME NEW d \in Copies, NEW n \in Messages,
               Deliver(d, n) \/ CopyStep(d, n) \/ CallLost(d, n)
               \/ PutAbandoned(d, n) \/ CallRefused(d, n)
        PROVE  UNCHANGED <<item, lapsed>>
    BY <2>3 DEF Deliver, CopyStep, Won, Lost, StoreFailed, Resend, Yield, Turn,
                SendPart, CallLost, PutAbandoned, CallRefused, tableVars
  <2>4. CASE UNCHANGED vars
    BY <2>4 DEF vars, tableVars
  <2> QED
    BY <1>1, <1>2, <1>4, <1>5, <1>6, <2>1, <2>2, <2>3, <2>4 DEF Next, CallStep

(* A put becomes late only by being abandoned. *)
LEMMA OnlyAbandoned ==
    ASSUME TypeInv, [Next]_vars, NEW c \in Copies, NEW m \in Messages,
           late'[c][m] > 0, ~(late[c][m] > 0)
    PROVE  PutAbandoned(c, m)
<1> USE DEF TypeInv, TypeOK
<1>1. late' # late
  OBVIOUS
<1>2. ASSUME NEW d \in Copies, Connect(d) \/ Stop(d) PROVE late' = late
  BY <1>2 DEF Connect, Stop, callVars
<1>3. ASSUME NEW n \in Messages, Post(n) \/ Expire(n) PROVE late' = late
  BY <1>3 DEF Post, Expire, callVars
<1>4. ASSUME NEW d \in Copies, NEW n \in Messages,
             Deliver(d, n) \/ CopyStep(d, n) \/ PutApplied(d, n)
             \/ UpdateApplied(d, n) \/ CallLost(d, n) \/ CallRefused(d, n)
      PROVE  late' = late
  BY <1>4 DEF Deliver, CopyStep, Won, Lost, StoreFailed, Resend, Yield, Turn, SendPart,
              PutApplied, UpdateApplied, CallLost, CallRefused, callVars
<1>5. ASSUME NEW d \in Copies, NEW n \in Messages, LatePut(d, n) PROVE FALSE
  BY <1>5 DEF LatePut
<1>6. ASSUME NEW d \in Copies, NEW n \in Messages, PutAbandoned(d, n)
      PROVE  d = c /\ n = m
  BY <1>6 DEF PutAbandoned
<1>7. CASE UNCHANGED vars
  BY <1>1, <1>7 DEF vars, callVars
<1> QED
  BY <1>1, <1>2, <1>3, <1>4, <1>5, <1>6, <1>7 DEF Next, CallStep

LEMMA DropNext ==
    TypeInv /\ DecidesOnce /\ DropInv /\ [Next]_vars => DropInv'
<1> SUFFICES ASSUME TypeInv, DecidesOnce, ItemIsSettled, [Next]_vars
             PROVE  ItemIsSettled'
  BY ResentNext DEF DropInv
<1> SUFFICES ASSUME NEW m \in Messages, ~lapsed'[m]
             PROVE  /\ item'[m].there => item'[m].by \in Copies /\ Settled(item[m].by, m)'
                    /\ \A c \in Copies : /\ LostOut(c, m)' => item'[m].there
                                         /\ late'[c][m] > 0 => Settled(c, m)'
  BY DEF ItemIsSettled
<1>1. ~lapsed[m]
  BY ItemsStay
<1>2. ASSUME item'[m].there
      PROVE  item'[m].by \in Copies /\ Settled(item[m].by, m)'
  <2>1. CASE item[m].there /\ item'[m].by = item[m].by
    BY <1>1, <2>1, StaysSettled DEF ItemIsSettled, Settled
  <2>2. CASE \E c \in Copies : item'[m].by = c /\ (Settled(c, m) \/ Settled(c, m)')
    BY <2>2, StaysSettled DEF Settled
  <2> QED
    BY <1>2, <2>1, <2>2, ItemsStay
<1>3. ASSUME NEW c \in Copies, LostOut(c, m)' PROVE item'[m].there
  BY <1>1, <1>3, LosersAreFew, ItemsStay DEF ItemIsSettled
<1>4. ASSUME NEW c \in Copies, late'[c][m] > 0 PROVE Settled(c, m)'
  <2>1. CASE late[c][m] > 0
    BY <1>1, <2>1, StaysSettled DEF ItemIsSettled
  <2>2. CASE ~(late[c][m] > 0)
    <3>1. PutAbandoned(c, m)
      BY <1>4, <2>2, OnlyAbandoned
    <3> QED
      BY <3>1 DEF PutAbandoned, Settled, TypeInv, TypeOK
  <2> QED
    BY <2>1, <2>2
<1> QED
  BY <1>2, <1>3, <1>4

(* However many copies there are and however often calls are sent: a       *)
(* message somebody is silent on is with a copy that takes it, or the one  *)
(* the item names lost to its own put.                                     *)
THEOREM NothingIsDropped == Spec => []NoSilentDrop
<1>1. Init => TypeInv /\ DecidesOnce /\ DropInv
  BY TypeInvInit, DecidesInit, DropInit
<1>2. TypeInv /\ DecidesOnce /\ DropInv /\ [Next]_vars
        => (TypeInv /\ DecidesOnce /\ DropInv)'
  BY TypeInvNext, DecidesNext, DropNext
<1>3. TypeInv /\ DropInv => NoSilentDrop
  <2> SUFFICES ASSUME TypeInv, DropInv, NEW m \in Messages, ~lapsed[m],
                      NEW c \in Copies, Yielded(c, m)
               PROVE  \E d \in Copies :
                        pc[d][m] \in {"claiming"} \cup Taken \/ LostToItself(d, m)
    BY DEF NoSilentDrop
  <2>1. item[m].by \in Copies /\ Settled(item[m].by, m)
    BY DEF DropInv, ItemIsSettled, LostOut
  <2>2. ASSUME NEW d \in Copies, item[m].by = d, m \in resent[d]
        PROVE  pc[d][m] \in {"claiming"} \cup Taken \/ LostToItself(d, m)
    BY <2>2 DEF DropInv, ResentClaimed, LostToItself, Yielded, Taken, TypeInv, TypeOK, Steps
  <2> QED
    BY <2>1, <2>2 DEF Settled
<1> QED
  BY <1>1, <1>2, <1>3, PTL DEF Spec

---------------------------------------------------------------------------
(***************************************************************************)
(* AuditIsTrue.  A copy is named as a duplicate by its update, after which *)
(* it only sends that again, or waits to be silent; the claimant is named  *)
(* by its put, and is settled.  A copy that is both has sent its put       *)
(* twice.  An item that has expired changes nothing of this: a put that is *)
(* late, or applied anew, is a settled copy's too.                         *)
(***************************************************************************)
Recorded(c, m) ==
    \/ pc[c][m] = "silent"
    \/ pc[c][m] = "recording" /\ (cur[c][m] # "request" \/ sends[c][m] # 1)

(* An item counts its duplicates, each of which has recorded itself. *)
Counted(m) ==
    /\ IsFiniteSet(item[m].also)
    /\ item[m].duplicates >= Cardinality(item[m].also)
    /\ (\A c \in item[m].also : sends[c][m] = 1) =>
          item[m].duplicates = Cardinality(item[m].also)
    /\ \A c \in item[m].also : Recorded(c, m)

NamesSettled(m) == item[m].by \in Copies => Settled(item[m].by, m)

LateIsSettled == \A c \in Copies, m \in Messages : late[c][m] > 0 => Settled(c, m)

AuditInv == LateIsSettled /\ \A m \in Messages : Counted(m) /\ NamesSettled(m)

LEMMA AuditInit == Init => AuditInv
<1> SUFFICES ASSUME Init PROVE AuditInv
  OBVIOUS
<1>1. ASSUME NEW m \in Messages PROVE Counted(m) /\ NamesSettled(m)
  <2>1. item[m].also = {} /\ item[m].duplicates = 0 /\ item[m].by = Nobody
    BY DEF Init, NoItem
  <2>2. IsFiniteSet({}) /\ Cardinality({}) = 0
    BY FS_EmptySet
  <2> QED
    BY ClaimsAssumption, <2>1, <2>2 DEF Counted, NamesSettled
<1>2. LateIsSettled
  BY DEF Init, LateIsSettled
<1> QED
  BY <1>1, <1>2 DEF AuditInv

LEMMA AuditHolds == TypeInv /\ AuditInv => AuditIsTrue
<1> SUFFICES ASSUME TypeInv, AuditInv, NEW m \in Messages
             PROVE  /\ \A c \in item[m].also : Yielded(c, m)
                    /\ item[m].duplicates >= Cardinality(item[m].also)
                    /\ (\A c \in item[m].also : sends[c][m] = 1) =>
                          item[m].duplicates = Cardinality(item[m].also)
                    /\ item[m].by \in item[m].also => LostToItself(item[m].by, m)
  BY DEF AuditIsTrue
<1>1. item[m].also \subseteq Copies
  BY DEF TypeInv, TypeOK, Item
<1>2. \A c \in item[m].also : Recorded(c, m) /\ Yielded(c, m)
  BY DEF AuditInv, Counted, Recorded, Yielded
<1>3. ASSUME item[m].by \in item[m].also PROVE LostToItself(item[m].by, m)
  BY <1>1, <1>2, <1>3 DEF AuditInv, NamesSettled, Yielded, Settled, Taken, LostToItself
<1> QED
  BY <1>2, <1>3 DEF AuditInv, Counted

(* A call in progress has been sent. *)
Sent ==
    \A c \in Copies, m \in Messages :
        pc[c][m] \in {"claiming", "recording"} => sends[c][m] >= 1

LEMMA SentInit == Init => Sent
BY DEF Init, Sent

LEMMA SentNext ==
    TypeInv /\ Sent /\ [Next]_vars => Sent'
<1> SUFFICES ASSUME TypeInv, Sent, [Next]_vars PROVE Sent'
  OBVIOUS
<1> USE DEF TypeInv, TypeOK, Sent, Steps
<1>1. ASSUME NEW c \in Copies, Connect(c) \/ Stop(c) PROVE Sent'
  BY <1>1 DEF Connect, Stop, callVars
<1>2. ASSUME NEW m \in Messages, Post(m) \/ Expire(m) PROVE Sent'
  BY <1>2 DEF Post, Expire, callVars
<1>3. ASSUME NEW c \in Copies, NEW m \in Messages, Deliver(c, m) PROVE Sent'
  <2>1. CASE Goto(c, m, "ignored") /\ UNCHANGED <<how, cur, sends>>
    BY <2>1 DEF Goto
  <2>2. CASE Goto(c, m, "turn") /\ UNCHANGED <<cur, sends>>
    BY <2>2 DEF Goto
  <2>3. CASE Goto(c, m, "claiming") /\ sends' = [sends EXCEPT ![c][m] = 1]
    BY <2>3 DEF Goto
  <2> QED
    BY <1>3, <2>1, <2>2, <2>3 DEF Deliver
<1>4. ASSUME NEW c \in Copies, NEW m \in Messages, LatePut(c, m) \/ CallStep(c, m)
      PROVE  Sent'
  BY <1>4 DEF LatePut, CallStep, PutApplied, UpdateApplied, CallLost, PutAbandoned,
              CallRefused
<1>5. ASSUME NEW c \in Copies, NEW m \in Messages, Resend(c, m) PROVE Sent'
  BY <1>5 DEF Resend
<1>6. ASSUME NEW c \in Copies, NEW m \in Messages, Lost(c, m) PROVE Sent'
  BY <1>6 DEF Lost, Goto
<1>7. ASSUME NEW c \in Copies, NEW m \in Messages,
             Won(c, m) \/ StoreFailed(c, m) \/ Yield(c, m)
      PROVE  Sent'
  <2>1. sends' = sends
    BY <1>7 DEF Won, StoreFailed, Yield
  <2>2. Goto(c, m, "turn") \/ Goto(c, m, "silent")
    BY <1>7 DEF Won, StoreFailed, Yield, OnStoreError
  <2>3. CASE Goto(c, m, "turn")
    BY <2>1, <2>3 DEF Goto
  <2>4. CASE Goto(c, m, "silent")
    BY <2>1, <2>4 DEF Goto
  <2> QED
    BY <2>2, <2>3, <2>4
<1>8. ASSUME NEW c \in Copies, NEW m \in Messages, Turn(c, m) \/ SendPart(c, m)
      PROVE  Sent'
  <2>1. sends' = sends
    BY <1>8 DEF Turn, SendPart, callVars
  <2>2. \E step \in {"replying", "answered", "failed"} : Goto(c, m, step)
    BY <1>8 DEF Turn, SendPart, AfterPart
  <2> QED
    BY <2>1, <2>2 DEF Goto
<1>9. CASE UNCHANGED vars
  BY <1>9 DEF vars, callVars
<1> QED
  BY <1>1, <1>2, <1>3, <1>4, <1>5, <1>6, <1>7, <1>8, <1>9 DEF Next, CopyStep

(* Who has recorded itself sends that again or falls silent. *)
LEMMA StaysRecorded ==
    ASSUME TypeInv, DecidesOnce, Sent, [Next]_vars,
           NEW c \in Copies, NEW m \in Messages, Recorded(c, m)
    PROVE  /\ Recorded(c, m)'
           /\ sends'[c][m] = sends[c][m] \/ sends'[c][m] > 1
<1> DEFINE Kept == Recorded(c, m)' /\ (sends'[c][m] = sends[c][m] \/ sends'[c][m] > 1)
<1> SUFFICES Kept
  OBVIOUS
<1> USE DEF TypeInv, TypeOK, Recorded, Steps
<1>1. CASE UNCHANGED <<pc, cur, sends>>
  BY <1>1
<1>2. ASSUME NEW d \in Copies, NEW n \in Messages, Deliver(d, n) PROVE Kept
  <2>1. pc[d][n] \in {"idle", "ignored"}
    BY <1>2 DEF Deliver, DecidesOnce
  <2>2. d # c \/ n # m
    BY <2>1
  <2>3. CASE Goto(d, n, "ignored") /\ UNCHANGED <<how, cur, sends>>
    BY <2>2, <2>3 DEF Goto
  <2>4. CASE Goto(d, n, "turn") /\ UNCHANGED <<cur, sends>>
    BY <2>2, <2>4 DEF Goto
  <2>5. CASE /\ Goto(d, n, "claiming") /\ cur' = [cur EXCEPT ![d][n] = "request"]
             /\ sends' = [sends EXCEPT ![d][n] = 1]
    BY <2>2, <2>5 DEF Goto
  <2> QED
    BY <1>2, <2>3, <2>4, <2>5 DEF Deliver
<1>3. ASSUME NEW d \in Copies, NEW n \in Messages, CallStep(d, n) PROVE Kept
  <2>1. CASE PutApplied(d, n)
    BY <2>1 DEF PutApplied
  <2>2. CASE UpdateApplied(d, n)
    BY <2>2 DEF UpdateApplied
  <2>3. CASE CallLost(d, n)
    BY <2>3 DEF CallLost
  <2>4. CASE PutAbandoned(d, n)
    BY <2>4 DEF PutAbandoned
  <2>5. CASE CallRefused(d, n)
    BY <2>5 DEF CallRefused
  <2> QED
    BY <1>3, <2>1, <2>2, <2>3, <2>4, <2>5 DEF CallStep
<1>4. ASSUME NEW d \in Copies, NEW n \in Messages,
             Won(d, n) \/ StoreFailed(d, n) \/ Lost(d, n)
      PROVE  Kept
  <2>1. /\ d # c \/ n # m
        /\ \E step \in Steps : Goto(d, n, step)
        /\ \E reply \in {"none", "request"} : cur' = [cur EXCEPT ![d][n] = reply]
        /\ sends' = sends \/ sends' = [sends EXCEPT ![d][n] = 1]
    BY <1>4 DEF Won, StoreFailed, Lost, OnStoreError
  <2> QED
    BY <2>1 DEF Goto
<1>5. ASSUME NEW d \in Copies, NEW n \in Messages, Yield(d, n) PROVE Kept
  BY <1>5 DEF Yield, Goto
<1>6. ASSUME NEW d \in Copies, NEW n \in Messages, Resend(d, n) PROVE Kept
  <2>1. /\ pc' = pc /\ sends[d][n] >= 1
        /\ cur' = [cur EXCEPT ![d][n] = "request"]
        /\ sends' = [sends EXCEPT ![d][n] = @ + 1]
        /\ pc[d][n] \in {"claiming", "recording"}
    BY <1>6 DEF Resend, Sent
  <2>2. CASE c = d /\ m = n
    BY <2>1, <2>2
  <2>3. CASE c # d \/ m # n
    BY <2>1, <2>3
  <2> QED
    BY <2>2, <2>3
<1>7. ASSUME NEW d \in Copies, NEW n \in Messages, Turn(d, n) \/ SendPart(d, n)
      PROVE  Kept
  <2>1. UNCHANGED <<cur, sends>>
    BY <1>7 DEF Turn, SendPart, callVars
  <2>2. /\ d # c \/ n # m
        /\ \E step \in {"replying", "answered", "failed"} : Goto(d, n, step)
    BY <1>7 DEF Turn, SendPart, AfterPart
  <2> QED
    BY <2>1, <2>2 DEF Goto
<1> QED
  <2>1. ASSUME NEW d \in Copies, Connect(d) \/ Stop(d) PROVE UNCHANGED <<pc, cur, sends>>
    BY <2>1 DEF Connect, Stop, callVars
  <2>2. ASSUME NEW n \in Messages, Post(n) \/ Expire(n) PROVE UNCHANGED <<pc, cur, sends>>
    BY <2>2 DEF Post, Expire, callVars
  <2>3. ASSUME NEW d \in Copies, NEW n \in Messages, LatePut(d, n)
        PROVE  UNCHANGED <<pc, cur, sends>>
    BY <2>3 DEF LatePut
  <2>4. CASE UNCHANGED vars
    BY <2>4 DEF vars, callVars
  <2> QED
    BY <1>1, <1>2, <1>3, <1>4, <1>5, <1>6, <1>7, <2>1, <2>2, <2>3, <2>4 DEF Next, CopyStep

(* What a step can do to an item: nothing, end it, make one that names a   *)
(* settled copy, or note a copy that records itself by it.                 *)
LEMMA ItemsChange ==
    ASSUME TypeInv, LateIsSettled, [Next]_vars, NEW m \in Messages
    PROVE  \/ item'[m] = item[m]
           \/ item'[m] = NoItem
           \/ \E c \in Copies : /\ item'[m] = Claimed(c)
                                /\ Settled(c, m) \/ Settled(c, m)'
           \/ \E c \in Copies : /\ item'[m] = Noted(c, item[m])
                                /\ Recorded(c, m)' /\ sends' = sends
                                /\ ~Recorded(c, m) \/ sends[c][m] # 1
<1> USE DEF TypeInv, TypeOK
<1>1. ASSUME NEW n \in Messages, Expire(n) PROVE item'[m] = item[m] \/ item'[m] = NoItem
  BY <1>1 DEF Expire
<1>2. ASSUME NEW d \in Copies, NEW n \in Messages, PutReaches(d, n)
      PROVE  item'[m] = item[m] \/ (n = m /\ MayCreate(n) /\ item'[m] = Claimed(d))
  BY <1>2 DEF PutReaches
<1>3. ASSUME NEW d \in Copies, NEW n \in Messages, PutApplied(d, n)
      PROVE  item'[m] = item[m] \/ (item'[m] = Claimed(d) /\ Settled(d, m)')
  <2>1. MayCreate(n) => Settled(d, n)'
    BY <1>3 DEF PutApplied, Settled
  <2> QED
    BY <1>2, <1>3, <2>1 DEF PutApplied
<1>4. ASSUME NEW d \in Copies, NEW n \in Messages, LatePut(d, n)
      PROVE  item'[m] = item[m] \/ (item'[m] = Claimed(d) /\ Settled(d, m))
  BY <1>2, <1>4 DEF LatePut, LateIsSettled
<1>5. ASSUME NEW d \in Copies, NEW n \in Messages, UpdateApplied(d, n)
      PROVE  \/ item'[m] = item[m]
             \/ /\ item'[m] = Noted(d, item[m])
                /\ Recorded(d, m)' /\ sends' = sends
                /\ ~Recorded(d, m) \/ sends[d][m] # 1
  BY <1>5 DEF UpdateApplied, Recorded
<1> QED
  <2>1. ASSUME NEW d \in Copies, Connect(d) \/ Stop(d) PROVE item' = item
    BY <2>1 DEF Connect, Stop, tableVars
  <2>2. ASSUME NEW n \in Messages, Post(n) PROVE item' = item
    BY <2>2 DEF Post, tableVars
  <2>3. ASSUME NEW d \in Copies, NEW n \in Messages,
               Deliver(d, n) \/ CopyStep(d, n) \/ CallLost(d, n)
               \/ PutAbandoned(d, n) \/ CallRefused(d, n)
        PROVE  item' = item
    BY <2>3 DEF Deliver, CopyStep, Won, Lost, StoreFailed, Resend, Yield, Turn,
                SendPart, CallLost, PutAbandoned, CallRefused, tableVars
  <2>4. CASE UNCHANGED vars
    BY <2>4 DEF vars, tableVars
  <2> QED
    BY <1>1, <1>3, <1>4, <1>5, <2>1, <2>2, <2>3, <2>4 DEF Next, CallStep

LEMMA AuditNext ==
    ASSUME TypeInv, DecidesOnce, Sent, AuditInv, [Next]_vars
    PROVE  AuditInv'
<1>1. LateIsSettled'
  <2> SUFFICES ASSUME NEW c \in Copies, NEW m \in Messages, late'[c][m] > 0
               PROVE  Settled(c, m)'
    BY DEF LateIsSettled
  <2>1. CASE late[c][m] > 0
    BY <2>1, StaysSettled DEF AuditInv, LateIsSettled
  <2>2. CASE ~(late[c][m] > 0)
    <3>1. PutAbandoned(c, m)
      BY <2>2, OnlyAbandoned
    <3> QED
      BY <3>1 DEF PutAbandoned, Settled, TypeInv, TypeOK
  <2> QED
    BY <2>1, <2>2
<1> SUFFICES ASSUME NEW m \in Messages PROVE Counted(m)' /\ NamesSettled(m)'
  BY <1>1 DEF AuditInv
<1>2. item[m].also \subseteq Copies /\ item[m].duplicates \in Nat
  BY DEF TypeInv, TypeOK, Item
<1>3. \A c \in item[m].also :
          /\ Recorded(c, m)'
          /\ sends'[c][m] = 1 => sends[c][m] = 1
  BY <1>2, StaysRecorded DEF AuditInv, Counted
<1>4. \A c \in Copies : item[m].by = c => Settled(c, m)'
  BY StaysSettled DEF AuditInv, NamesSettled
<1>5. /\ IsFiniteSet(item[m].also)
      /\ item[m].duplicates >= Cardinality(item[m].also)
      /\ (\A c \in item[m].also : sends'[c][m] = 1) =>
            item[m].duplicates = Cardinality(item[m].also)
      /\ Cardinality(item[m].also) \in Nat
  BY <1>3, FS_CardinalityType DEF AuditInv, Counted
<1>6. CASE item'[m] = item[m]
  BY <1>3, <1>4, <1>5, <1>6 DEF Counted, NamesSettled
<1>7. CASE item'[m] = NoItem
  BY <1>7, FS_EmptySet, ClaimsAssumption DEF NoItem, Counted, NamesSettled
<1>8. ASSUME NEW c \in Copies, item'[m] = Claimed(c), Settled(c, m) \/ Settled(c, m)'
      PROVE  Counted(m)' /\ NamesSettled(m)'
  <2>1. Settled(c, m)'
    BY <1>8, StaysSettled
  <2> QED
    BY <1>8, <2>1, FS_EmptySet DEF Claimed, Counted, NamesSettled
<1>9. ASSUME NEW c \in Copies, item'[m] = Noted(c, item[m]), Recorded(c, m)',
             sends' = sends, ~Recorded(c, m) \/ sends[c][m] # 1
      PROVE  Counted(m)' /\ NamesSettled(m)'
  <2>1. /\ item'[m].also = item[m].also \cup {c}
        /\ item'[m].duplicates = item[m].duplicates + 1
        /\ item'[m].by = item[m].by
    BY <1>9 DEF Noted
  <2>2. /\ IsFiniteSet(item[m].also \cup {c})
        /\ Cardinality(item[m].also \cup {c}) =
              IF c \in item[m].also THEN Cardinality(item[m].also)
              ELSE Cardinality(item[m].also) + 1
    BY <1>5, FS_AddElement
  <2>3. item'[m].duplicates >= Cardinality(item'[m].also)
    BY <1>2, <1>5, <2>1, <2>2
  <2>4. ASSUME \A d \in item'[m].also : sends'[d][m] = 1
        PROVE  item'[m].duplicates = Cardinality(item'[m].also)
    <3>1. c \notin item[m].also
      BY <1>9, <2>1, <2>4 DEF AuditInv, Counted
    <3>2. item[m].duplicates = Cardinality(item[m].also)
      BY <1>5, <2>1, <2>4
    <3> QED
      BY <2>1, <2>2, <3>1, <3>2
  <2>5. \A d \in item'[m].also : Recorded(d, m)'
    BY <1>3, <1>9, <2>1
  <2>6. NamesSettled(m)'
    BY <1>4, <2>1 DEF NamesSettled
  <2> QED
    BY <2>1, <2>2, <2>3, <2>4, <2>5, <2>6 DEF Counted
<1> QED
  BY <1>6, <1>7, <1>8, <1>9, ItemsChange DEF AuditInv

(* However often calls are sent, what the item records of a rollover is    *)
(* true, before it expires and after: it names copies that stayed silent,  *)
(* counts each, and once unless its ADD was sent again, and has the        *)
(* claimant among them only if that lost to its own put.                   *)
THEOREM RecordsAreTrue == Spec => []AuditIsTrue
<1>1. Init => TypeInv /\ DecidesOnce /\ Sent /\ AuditInv
  BY TypeInvInit, DecidesInit, SentInit, AuditInit
<1>2. TypeInv /\ DecidesOnce /\ Sent /\ AuditInv /\ [Next]_vars
        => (TypeInv /\ DecidesOnce /\ Sent /\ AuditInv)'
  BY TypeInvNext, DecidesNext, SentNext, AuditNext
<1>3. TypeInv /\ AuditInv => AuditIsTrue
  BY AuditHolds
<1> QED
  BY <1>1, <1>2, <1>3, PTL DEF Spec
=============================================================================
