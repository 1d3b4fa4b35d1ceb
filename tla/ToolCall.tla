------------------------------ MODULE ToolCall ------------------------------
(***************************************************************************)
(* What the calls of skills have in common: where each of them waits and   *)
(* what it came to.  The skills extend this module; each of their actions  *)
(* is the code between two awaits of one call.                             *)
(***************************************************************************)
EXTENDS Integers, FiniteSets, Sequences

CONSTANT Calls   \* the tool calls a model can make at once

ASSUME CallsAssumption == IsFiniteSet(Calls)

VARIABLES
    at,       \* what each call waits for; "idle" when it is not made
    outcome   \* what it came to: a result, a card, or the error it raised

callVars == <<at, outcome>>

Errors == {"invalid", "empty", "unavailable", "raised"}

Outcomes == {"none", "result", "card"} \cup Errors

Running == {c \in Calls : at[c] \notin {"idle", "done"}}

CallsInit ==
    /\ at = [c \in Calls |-> "idle"]
    /\ outcome = [c \in Calls |-> "none"]

Awaits(c, what) ==
    /\ at' = [at EXCEPT ![c] = what]
    /\ UNCHANGED outcome

Ends(c, o) ==
    /\ at' = [at EXCEPT ![c] = "done"]
    /\ outcome' = [outcome EXCEPT ![c] = o]

(* The calls of a turn are forgotten with it: those that still run are     *)
(* cancelled where they wait.                                              *)
CallsForgotten ==
    /\ at' = [c \in Calls |-> "idle"]
    /\ outcome' = [c \in Calls |-> "none"]
=============================================================================
