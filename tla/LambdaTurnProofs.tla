-------------------------- MODULE LambdaTurnProofs --------------------------
(***************************************************************************)
(* Theorems about LambdaTurn, for any number of turns and any times.       *)
(* Turns share nothing but the state of the function, so each part of the  *)
(* invariant speaks of one turn.                                           *)
(***************************************************************************)
EXTENDS LambdaTurn, SequenceTheorems, TLAPS

(* A turn that waits, or was not asked for, has nothing in flight: what    *)
(* was rejected was not accepted.                                          *)
NothingInFlight(t) ==
    /\ edge[t] \in {"idle", "waking"} => inv[t] = "none"
    /\ Calling(t) => inv[t] # "none"

(* An invocation that has not begun, or never will, is not a run. *)
RunsCounted(t) ==
    /\ runs[t] <= 1
    /\ inv[t] \in {"none", "request", "starting", "broken"} => runs[t] = 0

(* How long a call can have been out, before its response was lost. *)
WaitBounded(t) ==
    /\ Calling(t) /\ inv[t] = "request" => waited[t] = 0
    /\ Calling(t) /\ inv[t] = "starting" => waited[t] + left[t] <= StartMax
    /\ Calling(t) /\ Executing(t) => waited[t] + left[t] <= StartMax + Timeout
    /\ Calling(t) /\ inv[t] \in {"returned", "killed", "broken"} =>
          waited[t] <= StartMax + Timeout
    /\ outcome[t] = "abandoned" => inv[t] = "silent"

(* While a chat turn works, the time until Lambda kills it is the reserve  *)
(* more than its budget; while it flushes, more than the flush still takes. *)
ReserveKept(t) ==
    FlushMax < Reserve /\ kind[t] = "chat" /\ ~late[t] =>
        /\ inv[t] = "working" => left[t] = due[t] + Reserve
        /\ inv[t] = "flushing" => left[t] > due[t]
        /\ inv[t] # "killed"

(* What was reported at each step of send. *)
Announced(t) ==
    /\ edge[t] \in {"idle", "first"} => phases[t] = <<>>
    /\ edge[t] = "waking" => phases[t] = <<"waking">>
    /\ edge[t] = "second" => phases[t] = <<"waking", "thinking">>
    /\ inv[t] # "none" => phases[t] \in {<<>>, <<"waking", "thinking">>}

TurnInv(t) ==
    /\ NothingInFlight(t) /\ RunsCounted(t) /\ WaitBounded(t)
    /\ ReserveKept(t) /\ Announced(t)

IInv == TypeOK /\ \A t \in Turns : TurnInv(t)

Phases == {"waking", "thinking"}

LEMMA Reported ==
    /\ \A s \in Seq(Phases), phase \in Phases : Append(s, phase) \in Seq(Phases)
    /\ Append(<<>>, "waking") = <<"waking">>
    /\ Append(<<"waking">>, "thinking") = <<"waking", "thinking">>
<1>1. \A s \in Seq(Phases), phase \in Phases : Append(s, phase) \in Seq(Phases)
  BY AppendProperties
<1>2. Append(<<>>, "waking") = <<"waking">>
  OBVIOUS
<1>3. Append(<<"waking">>, "thinking") = <<"waking", "thinking">>
  <2>1. <<"waking">> \in Seq(Phases) /\ "thinking" \in Phases
    BY DEF Phases
  <2> DEFINE s == Append(<<"waking">>, "thinking")
             r == <<"waking", "thinking">>
  <2>2. s \in Seq(Phases) /\ Len(s) = 2 /\ s[1] = "waking" /\ s[2] = "thinking"
    BY <2>1, AppendProperties
  <2>3. r \in Seq(Phases) /\ Len(r) = 2 /\ r[1] = "waking" /\ r[2] = "thinking"
    BY DEF Phases
  <2> HIDE DEF s, r
  <2>4. \A i \in 1..Len(s) : s[i] = r[i]
    BY <2>2, <2>3
  <2>5. s = r
    BY <2>2, <2>3, <2>4, SeqEqual
  <2> QED
    BY <2>5 DEF s, r
<1> QED
  BY <1>1, <1>2, <1>3

LEMMA IInvInit == Init => IInv
<1> SUFFICES ASSUME Init PROVE IInv
  OBVIOUS
<1>1. TypeOK
  BY DEF Init, TypeOK
<1>2. ASSUME NEW t \in Turns PROVE TurnInv(t)
  BY DEF Init, TurnInv, NothingInFlight, RunsCounted, WaitBounded, ReserveKept, Announced,
         Calling, Executing
<1> QED
  BY <1>1, <1>2 DEF IInv

LEMMA TypeNext == TypeOK /\ [Next]_vars => TypeOK'
<1> SUFFICES ASSUME TypeOK, [Next]_vars PROVE TypeOK'
  OBVIOUS
<1> USE LambdaAssumption DEF TypeOK
<1>1. ASSUME NEW t \in Turns, Ask(t) PROVE TypeOK'
  BY <1>1 DEF Ask, Call
<1>2. ASSUME NEW t \in Turns, Rejected(t) PROVE TypeOK'
  <2>1. Append(phases[t], "waking") \in Seq(Phases)
    BY Reported DEF Phases
  <2>2. phases' \in [Turns -> Seq(Phases)]
    BY <1>2, <2>1 DEF Phases, Rejected, Report
  <2> QED
    BY <1>2, <2>2 DEF Phases, Rejected, End, Outcomes
<1>3. ASSUME NEW t \in Turns, ConnectionFails(t) PROVE TypeOK'
  BY <1>3 DEF ConnectionFails, Raise, End, Outcomes
<1>4. ASSUME NEW t \in Turns, ReadTimesOut(t) PROVE TypeOK'
  BY <1>4 DEF ReadTimesOut, End, invVars, Outcomes
<1>5. ASSUME NEW t \in Turns, Poll(t) PROVE TypeOK'
  <2>1. UNCHANGED <<fn, kind, left, due, late, made, runs>>
    BY <1>5 DEF Poll
  <2>2. CASE Ready(t) /\ Call(t, "second") /\ UNCHANGED <<polls, outcome>>
    <3>1. Append(phases[t], "thinking") \in Seq(Phases)
      BY Reported DEF Phases
    <3>2. phases' \in [Turns -> Seq(Phases)]
      BY <2>2, <3>1 DEF Phases, Ready, Report
    <3> QED
      BY <2>1, <2>2, <3>2 DEF Phases, Call
  <2>3. CASE End(t, "unreachable") /\ UNCHANGED <<waited, polls, phases, inv>>
    BY <2>1, <2>3 DEF End, Outcomes
  <2>4. CASE /\ polls' = [polls EXCEPT ![t] = @ + 1]
             /\ UNCHANGED <<edge, waited, phases, outcome, inv>>
    BY <2>1, <2>4
  <2> QED
    BY <1>5, <2>2, <2>3, <2>4 DEF Poll
<1>6. ASSUME NEW t \in Turns, Answer(t) PROVE TypeOK'
  BY <1>6 DEF Answer, End, invVars, Outcomes
<1>7. ASSUME NEW t \in Turns, Accept(t) PROVE TypeOK'
  BY <1>7 DEF Accept, edgeVars
<1>8. ASSUME NEW t \in Turns, StartFails(t) PROVE TypeOK'
  BY <1>8 DEF StartFails, edgeVars
<1>9. ASSUME NEW t \in Turns, Kill(t) PROVE TypeOK'
  BY <1>9 DEF Kill, edgeVars
<1>10. ASSUME NEW t \in Turns, ResponseLost(t) PROVE TypeOK'
  BY <1>10 DEF ResponseLost, edgeVars
<1>11. ASSUME NEW t \in Turns, Begin(t) PROVE TypeOK'
  BY <1>11 DEF Begin, Budget, edgeVars
<1>12. ASSUME NEW t \in Turns, Finish(t) PROVE TypeOK'
  BY <1>12 DEF Finish, Flushing, edgeVars
<1>13. ASSUME NEW t \in Turns, OutOfTime(t) PROVE TypeOK'
  BY <1>13 DEF OutOfTime, Flushing, edgeVars
<1>14. ASSUME NEW t \in Turns, Return(t) PROVE TypeOK'
  BY <1>14 DEF Return, edgeVars
<1>15. ASSUME NEW t \in Turns, Tick(t) PROVE TypeOK'
  BY <1>15 DEF Tick, Less
<1>16. CASE FunctionChanges
  BY <1>16 DEF FunctionChanges, edgeVars, invVars
<1>17. CASE UNCHANGED vars
  BY <1>17 DEF vars, edgeVars, invVars
<1> QED
  BY <1>1, <1>2, <1>3, <1>4, <1>5, <1>6, <1>7, <1>8, <1>9, <1>10, <1>11, <1>12, <1>13, <1>14, <1>15, <1>16, <1>17 DEF Next, EdgeStep, CoreStep

(* What a step leaves alone of a turn keeps that turn's invariant. *)
LEMMA Untouched ==
    ASSUME NEW u \in Turns, TurnInv(u),
           UNCHANGED <<kind[u], edge[u], waited[u], phases[u], outcome[u], inv[u],
                       left[u], due[u], late[u], runs[u]>>
    PROVE  TurnInv(u)'
BY DEF TurnInv, NothingInFlight, RunsCounted, WaitBounded, ReserveKept, Announced,
       Calling, Executing

Step(t) ==
    \/ Ask(t) \/ ConnectionFails(t) \/ ResponseLost(t)
    \/ EdgeStep(t) \/ CoreStep(t) \/ Tick(t)

(* A step of one turn is not one of another. *)
LEMMA OthersUntouched ==
    ASSUME TypeOK, NEW t \in Turns, Step(t), NEW u \in Turns, u # t
    PROVE  UNCHANGED <<kind[u], edge[u], waited[u], phases[u], outcome[u], inv[u],
                       left[u], due[u], late[u], made[u], runs[u]>>
<1> USE DEF TypeOK, edgeVars, invVars, Call, End, Report, Raise, Ready, Flushing
<1>1. CASE Ask(t)
  BY <1>1 DEF Ask
<1>2. CASE Rejected(t)
  BY <1>2 DEF Rejected
<1>3. CASE ConnectionFails(t)
  BY <1>3 DEF ConnectionFails
<1>4. CASE ReadTimesOut(t)
  BY <1>4 DEF ReadTimesOut
<1>5. CASE Poll(t)
  BY <1>5 DEF Poll
<1>6. CASE Answer(t)
  BY <1>6 DEF Answer
<1>7. CASE Accept(t)
  BY <1>7 DEF Accept
<1>8. CASE StartFails(t)
  BY <1>8 DEF StartFails
<1>9. CASE Kill(t)
  BY <1>9 DEF Kill
<1>10. CASE ResponseLost(t)
  BY <1>10 DEF ResponseLost
<1>11. CASE Begin(t)
  BY <1>11 DEF Begin
<1>12. CASE Finish(t)
  BY <1>12 DEF Finish
<1>13. CASE OutOfTime(t)
  BY <1>13 DEF OutOfTime
<1>14. CASE Return(t)
  BY <1>14 DEF Return
<1>15. CASE Tick(t)
  BY <1>15 DEF Tick
<1> QED
  BY <1>1, <1>2, <1>3, <1>4, <1>5, <1>6, <1>7, <1>8, <1>9, <1>10, <1>11, <1>12, <1>13, <1>14, <1>15 DEF Step, EdgeStep, CoreStep

LEMMA TurnNext ==
    ASSUME IInv, NEW t \in Turns, Step(t) PROVE TurnInv(t)'
<1> TypeOK /\ TurnInv(t)
  BY DEF IInv
<1> USE LambdaAssumption
    DEF TypeOK, TurnInv, NothingInFlight, RunsCounted, WaitBounded, ReserveKept, Announced,
        Calling, Executing
<1>1. CASE Ask(t)
  BY <1>1 DEF Ask, Call
<1>2. CASE Rejected(t)
  BY <1>2, Reported DEF Phases, Rejected, Report, End
<1>3. CASE ConnectionFails(t)
  BY <1>3 DEF ConnectionFails, Raise, End
<1>4. CASE ReadTimesOut(t)
  BY <1>4 DEF ReadTimesOut, Patience, End, invVars
<1>5. CASE Poll(t)
  <2>1. CASE fn = "Active"
    <3>1. phases[t] = <<"waking">> /\ phases'[t] = Append(phases[t], "thinking")
      BY <1>5, <2>1 DEF Poll, Ready, Report
    <3>2. phases'[t] = <<"waking", "thinking">>
      BY <3>1, Reported
    <3> QED
      BY <1>5, <2>1, <3>2 DEF Poll, Call
  <2>2. CASE fn # "Active"
    BY <1>5, <2>2 DEF Poll, End
  <2> QED
    BY <2>1, <2>2
<1>6. CASE Answer(t)
  BY <1>6 DEF Answer, End, invVars
<1>7. CASE Accept(t)
  BY <1>7 DEF Accept, edgeVars
<1>8. CASE StartFails(t)
  BY <1>8 DEF StartFails, edgeVars
<1>9. CASE Kill(t)
  BY <1>9 DEF Kill, edgeVars
<1>10. CASE ResponseLost(t)
  BY <1>10 DEF ResponseLost, edgeVars
<1>11. CASE Begin(t)
  <2> PICK ticks \in 1..Timeout :
             /\ left' = [left EXCEPT ![t] = ticks]
             /\ due' = [due EXCEPT ![t] = Budget(ticks)]
             /\ late' = [late EXCEPT ![t] = ticks <= Reserve]
    BY <1>11 DEF Begin
  <2>1. NothingInFlight(t)' /\ RunsCounted(t)' /\ Announced(t)'
    BY <1>11 DEF Begin, edgeVars
  <2>2. WaitBounded(t)'
    BY <1>11 DEF Begin, edgeVars
  <2>3. ReserveKept(t)'
    <3>1. late'[t] = (ticks <= Reserve)
      OBVIOUS
    <3>2. ~late'[t] => ~(ticks <= Reserve)
      BY <3>1, Zenon
    <3>3. ~(ticks <= Reserve) => left'[t] = due'[t] + Reserve
      BY DEF Budget
    <3>4. inv'[t] = "working"
      BY <1>11 DEF Begin
    <3> QED
      BY <3>2, <3>3, <3>4
  <2> QED
    BY <2>1, <2>2, <2>3
<1>12. CASE Finish(t)
  BY <1>12 DEF Finish, Flushing, edgeVars
<1>13. CASE OutOfTime(t)
  BY <1>13 DEF OutOfTime, Flushing, edgeVars
<1>14. CASE Return(t)
  BY <1>14 DEF Return, edgeVars
<1>15. CASE Tick(t)
  <2>1. /\ UNCHANGED <<kind, edge, phases, outcome, inv, late, runs>>
        /\ waited'[t] = IF Calling(t) THEN waited[t] + 1 ELSE waited[t]
        /\ left'[t] = Less(left[t]) /\ due'[t] = Less(due[t])
    BY <1>15 DEF Tick
  <2>2. NothingInFlight(t)' /\ RunsCounted(t)' /\ Announced(t)'
    BY <2>1
  <2>3. WaitBounded(t)'
    BY <1>15, <2>1 DEF Tick, MayTick, Patience, Less
  <2>4. ReserveKept(t)'
    BY <1>15, <2>1 DEF Tick, MayTick, Less
  <2> QED
    BY <2>2, <2>3, <2>4
<1> QED
  BY <1>1, <1>2, <1>3, <1>4, <1>5, <1>6, <1>7, <1>8, <1>9, <1>10, <1>11, <1>12, <1>13, <1>14, <1>15 DEF Step, EdgeStep, CoreStep

LEMMA IInvNext == IInv /\ [Next]_vars => IInv'
<1> SUFFICES ASSUME IInv, [Next]_vars, NEW u \in Turns PROVE TurnInv(u)'
  BY TypeNext DEF IInv
<1>1. ASSUME NEW t \in Turns, Step(t) PROVE TurnInv(u)'
  <2>1. CASE u = t
    BY <1>1, <2>1, TurnNext
  <2>2. CASE u # t
    BY <1>1, <2>2, OthersUntouched, Untouched DEF IInv
  <2> QED
    BY <2>1, <2>2
<1>2. CASE FunctionChanges
  BY <1>2, Untouched DEF IInv, FunctionChanges, edgeVars, invVars
<1>3. CASE UNCHANGED vars
  BY <1>3, Untouched DEF IInv, vars, edgeVars, invVars
<1> QED
  BY <1>1, <1>2, <1>3 DEF Next, Step

LEMMA IInvInvariant == Spec => []IInv
<1> QED
  BY IInvInit, IInvNext, PTL DEF Spec

(* The clocks, the phases and the outcomes have their types; no clock goes *)
(* below zero, for any number of turns and any times.                      *)
THEOREM TypeCorrect == Spec => []TypeOK
<1>1. IInv => TypeOK
  BY DEF IInv
<1> QED
  BY <1>1, IInvInvariant, PTL

(* No turn is run twice, whatever fails on the way and wherever the        *)
(* function is.                                                            *)
THEOREM TurnsRunOnce == Spec => []OneRun
<1>1. IInv => OneRun
  BY DEF IInv, TurnInv, RunsCounted, OneRun
<1> QED
  BY <1>1, IInvInvariant, PTL

(* A read timeout above what Lambda can take never gives up on an          *)
(* invocation that still runs.                                             *)
THEOREM RunningIsAwaited == Spec => []NeverAbandons
<1>1. IInv => NeverAbandons
  BY DEF IInv, TurnInv, WaitBounded, NeverAbandons
<1> QED
  BY <1>1, IInvInvariant, PTL

(* A flush shorter than the reserve is enough for every chat turn that has *)
(* a budget to return before it is killed, whatever the times.             *)
THEOREM ChatTurnsReturn == Spec => []ChatReturns
<1>1. IInv => ChatReturns
  BY DEF IInv, TurnInv, ReserveKept, ChatReturns
<1> QED
  BY <1>1, IInvInvariant, PTL

---------------------------------------------------------------------------
(***************************************************************************)
(* LambdaTurn implements Dispatch.  What has to be known for it: a result  *)
(* is made once, by an invocation that worked; the edge has an outcome     *)
(* when it is done and not before, a result only of an invocation that     *)
(* returned; and an invocation that has yet to start was asked for by a    *)
(* call that is still out, or whose connection broke.                      *)
(***************************************************************************)
Told(t) ==
    /\ edge[t] # "done" => outcome[t] = "none"
    /\ edge[t] = "done" => outcome[t] # "none"
    /\ inv[t] \in {"none", "request", "starting", "broken", "working"} => made[t] = "none"
    /\ inv[t] \in {"flushing", "returned"} => made[t] # "none"
    /\ inv[t] = "working" => runs[t] = 1
    /\ inv[t] \in {"request", "starting"} => outcome[t] \in {"none", "unreachable"}

ToldInv == \A t \in Turns : Told(t)

LEMMA ToldInit == Init => ToldInv
BY DEF Init, ToldInv, Told

LEMMA ToldStep ==
    ASSUME IInv, NEW t \in Turns, Told(t), Step(t) PROVE Told(t)'
<1> TypeOK /\ TurnInv(t)
  BY DEF IInv
<1> USE LambdaAssumption
    DEF TypeOK, TurnInv, NothingInFlight, RunsCounted, WaitBounded, Told, Calling, Executing
<1>1. CASE Ask(t)
  BY <1>1 DEF Ask, Call
<1>2. CASE Rejected(t)
  BY <1>2 DEF Rejected, End
<1>3. CASE ConnectionFails(t)
  BY <1>3 DEF ConnectionFails, Raise, End
<1>4. CASE ReadTimesOut(t)
  <2>1. inv[t] \notin {"request", "starting"}
    BY <1>4 DEF ReadTimesOut, Patience
  <2> QED
    BY <1>4, <2>1 DEF ReadTimesOut, End, invVars
<1>5. CASE Poll(t)
  BY <1>5 DEF Poll, Call, End
<1>6. CASE Answer(t)
  BY <1>6 DEF Answer, End, invVars
<1>7. CASE Accept(t)
  BY <1>7 DEF Accept, edgeVars
<1>8. CASE StartFails(t)
  BY <1>8 DEF StartFails, edgeVars
<1>9. CASE Kill(t)
  BY <1>9 DEF Kill, edgeVars
<1>10. CASE ResponseLost(t)
  BY <1>10 DEF ResponseLost, edgeVars
<1>11. CASE Begin(t)
  BY <1>11 DEF Begin, edgeVars
<1>12. CASE Finish(t)
  BY <1>12 DEF Finish, Flushing, edgeVars
<1>13. CASE OutOfTime(t)
  BY <1>13 DEF OutOfTime, Flushing, edgeVars
<1>14. CASE Return(t)
  BY <1>14 DEF Return, edgeVars
<1>15. CASE Tick(t)
  BY <1>15 DEF Tick
<1> QED
  BY <1>1, <1>2, <1>3, <1>4, <1>5, <1>6, <1>7, <1>8, <1>9, <1>10, <1>11, <1>12, <1>13, <1>14, <1>15 DEF Step, EdgeStep, CoreStep
LEMMA ToldNext == IInv /\ ToldInv /\ [Next]_vars => ToldInv'
<1> SUFFICES ASSUME IInv, ToldInv, [Next]_vars, NEW u \in Turns PROVE Told(u)'
  BY DEF ToldInv
<1> Told(u)
  BY DEF ToldInv
<1>1. ASSUME NEW t \in Turns, Step(t) PROVE Told(u)'
  <2>1. CASE u = t
    BY <1>1, <2>1, ToldStep
  <2>2. CASE u # t
    BY <1>1, <2>2, OthersUntouched DEF IInv, Told
  <2> QED
    BY <2>1, <2>2
<1>2. CASE FunctionChanges
  BY <1>2 DEF FunctionChanges, Told, edgeVars, invVars
<1>3. CASE UNCHANGED vars
  BY <1>3 DEF vars, Told, edgeVars, invVars
<1> QED
  BY <1>1, <1>2, <1>3 DEF Next, Step

seen == <<runs, made, phases, outcome>>

LEMMA PromiseInit == Init => Promise!Init
BY DEF Init, Promise!Init

(* Every step is a step of the dispatch, or none that it can tell. *)
LEMMA PromiseStep ==
    ASSUME IInv, ToldInv, NEW t \in Turns, Step(t)
    PROVE  Promise!Next \/ UNCHANGED seen
<1> TypeOK /\ TurnInv(t) /\ Told(t)
  BY DEF IInv, ToldInv
<1> USE DEF TypeOK, NothingInFlight, RunsCounted, Announced, TurnInv, Told, Calling,
            Executing, seen, edgeVars, invVars
<1>1. ASSUME outcome[t] = "none",
             NEW result \in Promise!Failures \cup (IF made[t] = "none" THEN {} ELSE {made[t]}),
             End(t, result), UNCHANGED <<runs, made, phases>>
      PROVE  Promise!Next
  BY <1>1 DEF End, Promise!Next, Promise!Tell
<1>2. "unreachable" \in Promise!Failures /\ "abandoned" \in Promise!Failures
  BY DEF Promise!Failures
<1>3. CASE Ask(t)
  BY <1>3 DEF Ask, Call
<1>4. CASE Rejected(t)
  <2>1. CASE edge[t] = "first"
    <3>1. phases[t] = <<>> /\ outcome[t] = "none" /\ runs[t] = 0
      BY <1>4, <2>1 DEF Rejected
    <3>2. phases' = [phases EXCEPT ![t] = <<"waking">>]
      BY <1>4, <2>1, <3>1, Reported DEF Rejected, Report, End
    <3>3. UNCHANGED <<runs, made, outcome>>
      BY <1>4, <2>1 DEF Rejected
    <3> QED
      BY <3>1, <3>2, <3>3 DEF Promise!Next, Promise!Show
  <2>2. CASE edge[t] = "second"
    BY <1>1, <1>2, <1>4, <2>2 DEF Rejected
  <2> QED
    BY <1>4, <2>1, <2>2 DEF Rejected
<1>5. CASE ConnectionFails(t)
  BY <1>1, <1>2, <1>5 DEF ConnectionFails, Raise
<1>6. CASE ReadTimesOut(t)
  BY <1>1, <1>2, <1>6 DEF ReadTimesOut
<1>7. CASE Poll(t)
  <2>1. CASE fn = "Active"
    <3>1. /\ phases[t] = <<"waking">> /\ outcome[t] = "none" /\ runs[t] = 0
          /\ phases' = [phases EXCEPT ![t] = Append(@, "thinking")]
          /\ UNCHANGED <<runs, made, outcome>>
      BY <1>7, <2>1 DEF Poll, Ready, Report
    <3>2. phases' = [phases EXCEPT ![t] = <<"waking", "thinking">>]
      BY <3>1, Reported
    <3>3. phases[t] # <<>>
      BY <3>1
    <3> QED
      BY <3>1, <3>2, <3>3 DEF Promise!Next, Promise!Show
  <2>2. CASE fn # "Active" /\ End(t, "unreachable") /\ UNCHANGED phases
    BY <1>1, <1>2, <1>7, <2>2 DEF Poll
  <2>3. CASE UNCHANGED <<phases, outcome>>
    BY <1>7, <2>3 DEF Poll
  <2> QED
    BY <1>7, <2>1, <2>2, <2>3 DEF Poll
<1>8. CASE Answer(t)
  <2>1. CASE inv[t] = "returned"
    <3>1. End(t, made[t]) /\ UNCHANGED <<runs, made, phases>> /\ outcome[t] = "none"
      BY <1>8, <2>1 DEF Answer
    <3>2. made[t] \in Promise!Failures \cup (IF made[t] = "none" THEN {} ELSE {made[t]})
      BY <2>1
    <3> QED
      BY <1>1, <3>1, <3>2
  <2>2. CASE inv[t] # "returned"
    BY <1>1, <1>2, <1>8, <2>2 DEF Answer
  <2> QED
    BY <2>1, <2>2
<1>9. CASE Accept(t) \/ StartFails(t) \/ Kill(t) \/ ResponseLost(t) \/ Return(t)
  BY <1>9 DEF Accept, StartFails, Kill, ResponseLost, Return
<1>10. CASE Begin(t)
  <2>1. /\ runs[t] = 0 /\ outcome[t] \in {"none", "unreachable"}
        /\ phases[t] \in {<<>>, <<"waking", "thinking">>}
        /\ UNCHANGED <<made, phases, outcome>>
    BY <1>10 DEF Begin
  <2>2. runs' = [runs EXCEPT ![t] = 1]
    BY <1>10, <2>1 DEF Begin
  <2> QED
    BY <2>1, <2>2 DEF Promise!Next, Promise!Run
<1>11. CASE Finish(t) \/ OutOfTime(t)
  <2>1. /\ runs[t] = 1 /\ made[t] = "none" /\ UNCHANGED <<runs, phases, outcome>>
        /\ \E y \in Promise!Yields : made' = [made EXCEPT ![t] = y]
    BY <1>11 DEF Finish, OutOfTime, Flushing, Promise!Yields
  <2> QED
    BY <2>1 DEF Promise!Next, Promise!Finish
<1>12. CASE Tick(t)
  BY <1>12 DEF Tick
<1> QED
  BY <1>3, <1>4, <1>5, <1>6, <1>7, <1>8, <1>9, <1>10, <1>11, <1>12 DEF Step, EdgeStep, CoreStep

LEMMA PromiseNext == IInv /\ ToldInv /\ [Next]_vars => [Promise!Next]_(Promise!dispatchVars)
<1> SUFFICES ASSUME IInv, ToldInv, [Next]_vars PROVE Promise!Next \/ UNCHANGED seen
  BY DEF Promise!dispatchVars, seen
<1>1. ASSUME NEW t \in Turns, Step(t) PROVE Promise!Next \/ UNCHANGED seen
  BY <1>1, PromiseStep
<1>2. CASE FunctionChanges
  BY <1>2 DEF FunctionChanges, seen, edgeVars, invVars
<1>3. CASE UNCHANGED vars
  BY <1>3 DEF vars, seen, edgeVars, invVars
<1> QED
  BY <1>1, <1>2, <1>3 DEF Next, Step

(* What the edge sees of a turn is a dispatch, for any number of turns,    *)
(* any times and a function in any state: the wake-up, the SDK, the kill   *)
(* and the budget are an implementation of "run at most once".             *)
THEOREM TurnsKeepDispatch == Spec => KeepsDispatch
<1>1. Spec => [](IInv /\ ToldInv)
  BY IInvInit, IInvNext, ToldInit, ToldNext, PTL DEF Spec
<1> QED
  BY <1>1, PromiseInit, PromiseNext, PTL DEF Spec, KeepsDispatch, Promise!Spec
=============================================================================
