----------------------------- MODULE LambdaTurn -----------------------------
(***************************************************************************)
(* One turn from the edge to the core and back: LambdaTransport.send, the  *)
(* Lambda function it invokes synchronously, and the core's handler with   *)
(* its time budget (platform.deadline, ChatProcess, CommandProcess).       *)
(*                                                                         *)
(* Time passes in ticks, turn by turn: a turn's clocks are its own, only   *)
(* the state of the function is shared.  What Lambda does (rejecting,      *)
(* starting, killing an invocation) is modelled from what the transport    *)
(* and the handler rely on.                                                *)
(***************************************************************************)
EXTENDS Naturals, Sequences

CONSTANTS
    Turns,
    Kinds,        \* the inputs the core is given: "chat" (TextInput), "command"
    Timeout,      \* the function's timeout
    Reserve,      \* RESERVE_SECONDS
    FlushMax,     \* how long flush_observability takes at most
    StartMax,     \* how long Lambda takes at most to start an invocation
    ReadTimeout,  \* the SDK's read timeout
    ReadyPolls    \* MaxAttempts of the function_active waiter

ASSUME LambdaAssumption ==
    /\ Kinds \subseteq {"chat", "command"}
    /\ Timeout \in Nat \ {0} /\ Reserve \in Nat /\ FlushMax \in Nat
    /\ StartMax \in Nat /\ ReadyPolls \in Nat \ {0}
    /\ ReadTimeout \in Nat /\ ReadTimeout > StartMax + Timeout

VARIABLES
    fn,       \* the function: "Active", "Inactive", "Pending", "Failed"
    kind,     \* what each turn asks for
    edge,     \* where send is: "idle", "first", "waking", "second", "done"
    waited,   \* how long the call in progress has been out
    polls,    \* polls of the waiter
    phases,   \* the phases reported to the turn's observer
    outcome,  \* what send came to
    inv,      \* the invocation
    left,     \* time until Lambda kills it, or until it must have started
    due,      \* what is left of the turn's budget, then of its flush
    late,     \* history: the invocation started inside the reserve
    made,     \* the SkillResult serve made
    runs      \* history: how often the turn was run

edgeVars == <<edge, waited, polls, phases, outcome>>
invVars == <<inv, left, due, late, made, runs>>
vars == <<fn, kind, edgeVars, invVars>>

Init ==
    /\ fn \in {"Active", "Inactive", "Pending", "Failed"}
    /\ kind \in [Turns -> Kinds]
    /\ edge = [t \in Turns |-> "idle"]
    /\ waited = [t \in Turns |-> 0]
    /\ polls = [t \in Turns |-> 0]
    /\ phases = [t \in Turns |-> <<>>]
    /\ outcome = [t \in Turns |-> "none"]
    /\ inv = [t \in Turns |-> "none"]
    /\ left = [t \in Turns |-> 0]
    /\ due = [t \in Turns |-> 0]
    /\ late = [t \in Turns |-> FALSE]
    /\ made = [t \in Turns |-> "none"]
    /\ runs = [t \in Turns |-> 0]

Calling(t) == edge[t] \in {"first", "second"}

Executing(t) == inv[t] \in {"working", "flushing"}

---------------------------------------------------------------------------
(* The transport *)

Report(t, phase) == phases' = [phases EXCEPT ![t] = Append(@, phase)]

(* _call: one invoke, its payload on the way. *)
Call(t, step) ==
    /\ edge' = [edge EXCEPT ![t] = step]
    /\ waited' = [waited EXCEPT ![t] = 0]
    /\ inv' = [inv EXCEPT ![t] = "request"]

End(t, result) ==
    /\ edge' = [edge EXCEPT ![t] = "done"]
    /\ outcome' = [outcome EXCEPT ![t] = result]

Ask(t) ==
    /\ edge[t] = "idle"
    /\ Call(t, "first")
    /\ UNCHANGED <<fn, kind, polls, phases, outcome, left, due, late, made, runs>>

(* ResourceConflictException, ResourceNotReadyException: the invocation    *)
(* was not run; the first time, send waits.  Being invoked wakes an        *)
(* inactive function.                                                      *)
Rejected(t) ==
    /\ Calling(t) /\ inv[t] = "request" /\ fn # "Active"
    /\ inv' = [inv EXCEPT ![t] = "none"]
    /\ fn' = IF fn = "Inactive" THEN "Pending" ELSE fn
    /\ \/ /\ edge[t] = "first"
          /\ edge' = [edge EXCEPT ![t] = "waking"]
          /\ Report(t, "waking")
          /\ UNCHANGED outcome
       \/ edge[t] = "second" /\ End(t, "unreachable") /\ UNCHANGED phases
    /\ UNCHANGED <<kind, waited, polls, left, due, late, made, runs>>

(* Mutant: any error of an invoke is taken for a function not ready. *)
WaitsAfterAnyError(t) ==
    IF edge[t] = "first"
      THEN edge' = [edge EXCEPT ![t] = "waking"] /\ UNCHANGED outcome
      ELSE End(t, "unreachable")

(* Every other error of an invoke is raised, and never tried again. *)
Raise(t) == End(t, "unreachable")

(* The request does not reach Lambda, or the connection breaks while an    *)
(* invocation the transport can't see any more goes on.                    *)
ConnectionFails(t) ==
    /\ Calling(t)
    /\ Raise(t)
    /\ inv' = [inv EXCEPT ![t] = IF @ = "request" THEN "none" ELSE @]
    /\ UNCHANGED <<fn, kind, waited, polls, phases, left, due, late, made, runs>>

(* Mutant: the SDK's own read timeout, below the function's timeout. *)
DefaultPatience == Timeout

(* read_timeout of the client *)
Patience == ReadTimeout

ReadTimesOut(t) ==
    /\ Calling(t) /\ waited[t] >= Patience
    /\ End(t, "abandoned")
    /\ UNCHANGED <<fn, kind, waited, polls, phases, invVars>>

(* What is reported once the function is active. *)
Ready(t) == Report(t, "thinking")

(* Mutant: the waiter's attempts are not counted to the end. *)
NoLastPoll(t) == FALSE

LastPoll(t) == polls[t] + 1 = ReadyPolls

(* One poll of the function_active waiter: it goes on through Inactive and *)
(* Pending, up to its last attempt.                                        *)
Poll(t) ==
    /\ edge[t] = "waking"
    /\ \/ /\ fn = "Active"
          /\ Ready(t)
          /\ Call(t, "second")
          /\ UNCHANGED <<polls, outcome>>
       \/ /\ fn # "Active"
          /\ fn = "Failed" \/ LastPoll(t)
          /\ End(t, "unreachable")
          /\ UNCHANGED <<waited, polls, phases, inv>>
       \/ /\ fn \in {"Inactive", "Pending"} /\ polls[t] + 1 < ReadyPolls
          /\ polls' = [polls EXCEPT ![t] = @ + 1]
          /\ UNCHANGED <<edge, waited, phases, outcome, inv>>
    /\ UNCHANGED <<fn, kind, left, due, late, made, runs>>

(* The response: the bare result, or a FunctionError. *)
Answer(t) ==
    /\ Calling(t) /\ inv[t] \in {"returned", "killed", "broken"}
    /\ End(t, IF inv[t] = "returned" THEN made[t] ELSE "unreachable")
    /\ UNCHANGED <<fn, kind, waited, polls, phases, invVars>>

---------------------------------------------------------------------------
(* Lambda *)

Accept(t) ==
    /\ inv[t] = "request" /\ fn = "Active"
    /\ inv' = [inv EXCEPT ![t] = "starting"]
    /\ left' = [left EXCEPT ![t] = StartMax]
    /\ UNCHANGED <<fn, kind, edgeVars, due, late, made, runs>>

(* A cold start can fail: load_ssm_secrets raises on a missing parameter. *)
StartFails(t) ==
    /\ inv[t] = "starting"
    /\ inv' = [inv EXCEPT ![t] = "broken"]
    /\ UNCHANGED <<fn, kind, edgeVars, left, due, late, made, runs>>

Kill(t) ==
    /\ Executing(t) /\ left[t] = 0
    /\ inv' = [inv EXCEPT ![t] = "killed"]
    /\ UNCHANGED <<fn, kind, edgeVars, left, due, late, made, runs>>

(* The response is lost on a connection that stays silent: a NAT or load   *)
(* balancer has forgotten it while it was idle.                            *)
ResponseLost(t) ==
    /\ Calling(t) /\ inv[t] \in {"returned", "killed", "broken"}
    /\ inv' = [inv EXCEPT ![t] = "silent"]
    /\ UNCHANGED <<fn, kind, edgeVars, left, due, late, made, runs>>

(* An idle function loses its resources; waking takes it to Active, or not. *)
FunctionChanges ==
    /\ \/ /\ fn = "Active" /\ fn' = "Inactive"
          /\ \A t \in Turns : ~Executing(t) /\ inv[t] # "starting"
       \/ fn = "Pending" /\ fn' \in {"Active", "Failed"}
    /\ UNCHANGED <<kind, edgeVars, invVars>>

---------------------------------------------------------------------------
(* The core's handler *)

(* Mutant: the turn is given all the time there is. *)
NoReserve(ticks) == ticks

(* budget(max(0.0, remaining_ms() / 1000 - RESERVE_SECONDS)) *)
Budget(ticks) == IF ticks > Reserve THEN ticks - Reserve ELSE 0

(* The handler is called with what the start left of the timeout. *)
Begin(t) ==
    /\ inv[t] = "starting"
    /\ inv' = [inv EXCEPT ![t] = "working"]
    /\ \E ticks \in 1..Timeout :
          /\ left' = [left EXCEPT ![t] = ticks]
          /\ due' = [due EXCEPT ![t] = Budget(ticks)]
          /\ late' = [late EXCEPT ![t] = ticks <= Reserve]
    /\ runs' = [runs EXCEPT ![t] = @ + 1]
    /\ UNCHANGED <<fn, kind, edgeVars, made>>

Flushing(t, result) ==
    /\ inv' = [inv EXCEPT ![t] = "flushing"]
    /\ made' = [made EXCEPT ![t] = result]
    /\ due' = [due EXCEPT ![t] = FlushMax]

(* The process answers, or raises, and serve makes a result of it; the     *)
(* handler's finally then flushes the telemetry.                           *)
Finish(t) ==
    /\ inv[t] = "working" /\ left[t] > 0
    /\ \E result \in {"answer", "crashed"} : Flushing(t, result)
    /\ UNCHANGED <<fn, kind, edgeVars, left, late, runs>>

(* The timeout of ChatProcess.respond expires.  CommandProcess never looks *)
(* at the budget.                                                          *)
OutOfTime(t) ==
    /\ inv[t] = "working" /\ left[t] > 0
    /\ kind[t] = "chat" /\ due[t] = 0
    /\ Flushing(t, "out_of_time")
    /\ UNCHANGED <<fn, kind, edgeVars, left, late, runs>>

Return(t) ==
    /\ inv[t] = "flushing" /\ left[t] > 0
    /\ inv' = [inv EXCEPT ![t] = "returned"]
    /\ UNCHANGED <<fn, kind, edgeVars, left, due, late, made, runs>>

---------------------------------------------------------------------------
(* A tick.  It waits for what happens at an instant: a timeout, a kill,    *)
(* the end of a start or of a flush that has taken as long as it can.      *)
MayTick(t) ==
    /\ Calling(t) => waited[t] < Patience
    /\ inv[t] \in {"starting", "working", "flushing"} => left[t] > 0
    /\ inv[t] = "working" /\ kind[t] = "chat" => due[t] > 0
    /\ inv[t] = "flushing" => due[t] > 0
    /\ inv[t] \notin {"request", "returned", "killed", "broken"} \/ ~Calling(t)

(* Mutant: the remaining time goes below zero. *)
Minus(n) == n - 1

(* remaining() is max(0.0, deadline - now). *)
Less(n) == IF n > 0 THEN n - 1 ELSE 0

Tick(t) ==
    /\ Calling(t) \/ Executing(t)
    /\ MayTick(t)
    /\ waited' = [waited EXCEPT ![t] = IF Calling(t) THEN @ + 1 ELSE @]
    /\ left' = [left EXCEPT ![t] = Less(@)]
    /\ due' = [due EXCEPT ![t] = Less(@)]
    /\ UNCHANGED <<fn, kind, edge, polls, phases, outcome, inv, late, made, runs>>

EdgeStep(t) == Rejected(t) \/ ReadTimesOut(t) \/ Poll(t) \/ Answer(t)

CoreStep(t) ==
    \/ Accept(t) \/ StartFails(t) \/ Kill(t) \/ Begin(t)
    \/ Finish(t) \/ OutOfTime(t) \/ Return(t)

Next ==
    \/ \E t \in Turns : \/ Ask(t) \/ ConnectionFails(t) \/ ResponseLost(t)
                        \/ EdgeStep(t) \/ CoreStep(t) \/ Tick(t)
    \/ FunctionChanges

Spec == Init /\ [][Next]_vars

(* The transport's thread and the handler run when they can, Lambda does   *)
(* start, answer or kill what it accepted, and time goes on.  Nothing is   *)
(* assumed of the function's state: the waiter gives up by itself.         *)
Fairness ==
    \A t \in Turns :
        WF_vars(EdgeStep(t)) /\ WF_vars(CoreStep(t)) /\ WF_vars(Tick(t))

FairSpec == Spec /\ Fairness

---------------------------------------------------------------------------
(* Properties *)

Outcomes == {"answer", "crashed", "out_of_time", "unreachable", "abandoned"}

TypeOK ==
    /\ fn \in {"Active", "Inactive", "Pending", "Failed"}
    /\ kind \in [Turns -> Kinds]
    /\ edge \in [Turns -> {"idle", "first", "waking", "second", "done"}]
    /\ waited \in [Turns -> Nat]
    /\ polls \in [Turns -> Nat]
    /\ phases \in [Turns -> Seq({"waking", "thinking"})]
    /\ outcome \in [Turns -> Outcomes \cup {"none"}]
    /\ inv \in [Turns -> {"none", "request", "starting", "working", "flushing",
                          "returned", "killed", "broken", "silent"}]
    /\ left \in [Turns -> Nat]
    /\ due \in [Turns -> Nat]
    /\ late \in [Turns -> BOOLEAN]
    /\ made \in [Turns -> {"none", "answer", "crashed", "out_of_time"}]
    /\ runs \in [Turns -> Nat]

(* Whatever fails on the way, a turn is run at most once (transport.py:98, *)
(* "a re-sent invocation would run the whole turn again").                 *)
OneRun == \A t \in Turns : runs[t] <= 1

(* The edge never gives up, because it waited long enough, on an           *)
(* invocation that Lambda still runs (transport.py:40-42): only on one     *)
(* whose response was lost.                                                *)
NeverAbandons ==
    \A t \in Turns : outcome[t] = "abandoned" => inv[t] = "silent"

(* A chat turn that did not start inside the reserve returns before Lambda *)
(* kills it, if the flush is shorter than the reserve (core/__init__.py:   *)
(* 24-26).                                                                 *)
ChatReturns ==
    FlushMax < Reserve =>
        \A t \in Turns : kind[t] = "chat" /\ ~late[t] => inv[t] # "killed"

(* What the edge sees of a turn is a dispatch: one run at most, its own    *)
(* result or a failure, waking and thinking shown in order and before the  *)
(* run, and after the end only the run of a call that had already gone out *)
(* (transport.py:94-98, 117-130).                                          *)
Promise == INSTANCE Dispatch WITH
    ran <- runs,
    yield <- made,
    shown <- phases,
    told <- outcome

KeepsDispatch == Promise!Spec

(* Every turn that is asked for comes to an outcome the user sees. *)
EveryTurnEnds == \A t \in Turns : edge[t] = "first" ~> edge[t] = "done"
=============================================================================
