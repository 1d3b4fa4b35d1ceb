------------------------------ MODULE Dispatch ------------------------------
(***************************************************************************)
(* What a dispatch to the core promises the edge, without a function that  *)
(* has to wake, an SDK, a timeout or a budget: the turn is run at most     *)
(* once, an answer is told only if that run made it, what the user is      *)
(* shown on the way is in order, and nothing is run any more once the edge *)
(* has been told what came of it, but for a call whose connection broke    *)
(* while it was on its way.  This is the promise of                        *)
(* petbot.platform.transport: "the SDK never re-sends an invocation".      *)
(***************************************************************************)
EXTENDS Naturals, Sequences

CONSTANT Turns

VARIABLES
    ran,     \* how often each turn was run
    yield,   \* what the run made of the turn: "none" until it has
    shown,   \* the phases the user was shown
    told     \* what the edge was told: "none" until then

dispatchVars == <<ran, yield, shown, told>>

Yields == {"answer", "crashed", "out_of_time"}

(* The core cannot be reached, or its answer never came. *)
Failures == {"unreachable", "abandoned"}

Init ==
    /\ ran = [t \in Turns |-> 0]
    /\ yield = [t \in Turns |-> "none"]
    /\ shown = [t \in Turns |-> <<>>]
    /\ told = [t \in Turns |-> "none"]

(* The core takes the turn up.  The user does not believe then that it is  *)
(* still waking.                                                           *)
Run(t) ==
    /\ ran[t] = 0 /\ told[t] \in {"none", "unreachable"}
    /\ shown[t] \in {<<>>, <<"waking", "thinking">>}
    /\ ran' = [ran EXCEPT ![t] = 1]
    /\ UNCHANGED <<yield, shown, told>>

Finish(t) ==
    /\ ran[t] = 1 /\ yield[t] = "none"
    /\ \E y \in Yields : yield' = [yield EXCEPT ![t] = y]
    /\ UNCHANGED <<ran, shown, told>>

(* The user is shown that the core wakes, and then that it thinks, as long *)
(* as neither has been run nor come to an end.                             *)
Show(t) ==
    /\ ran[t] = 0 /\ told[t] = "none"
    /\ \/ shown[t] = <<>> /\ shown' = [shown EXCEPT ![t] = <<"waking">>]
       \/ /\ shown[t] = <<"waking">>
          /\ shown' = [shown EXCEPT ![t] = <<"waking", "thinking">>]
    /\ UNCHANGED <<ran, yield, told>>

(* What the run made, or that it failed. *)
Tell(t) ==
    /\ told[t] = "none"
    /\ \E result \in Failures \cup (IF yield[t] = "none" THEN {} ELSE {yield[t]}) :
          told' = [told EXCEPT ![t] = result]
    /\ UNCHANGED <<ran, yield, shown>>

Next == \E t \in Turns : Run(t) \/ Finish(t) \/ Show(t) \/ Tell(t)

Spec == Init /\ [][Next]_dispatchVars
=============================================================================
