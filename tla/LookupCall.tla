----------------------------- MODULE LookupCall -----------------------------
(***************************************************************************)
(* One call of a skill of Lookups, in detail: a booru search, the weather  *)
(* of a place or the evaluation of an expression.                          *)
(***************************************************************************)
EXTENDS Booru, Weather, Arithmetic

VARIABLE job   \* the skill that is called

vars == <<callVars, booruVars, weatherVars, mathVars, job>>

ASSUME OneCall == Cardinality(Calls) = 1

Init ==
    /\ job \in {"booru", "weather", "math"}
    /\ CallsInit /\ BooruInit /\ WeatherInit /\ ArithmeticInit

Step(c) ==
    \/ job = "booru" /\ BooruStep(c) /\ UNCHANGED <<weatherVars, mathVars>>
    \/ job = "weather" /\ WeatherStep(c) /\ UNCHANGED <<booruVars, mathVars>>
    \/ job = "math" /\ ArithmeticStep(c) /\ UNCHANGED <<booruVars, weatherVars>>

Next == (\E c \in Calls : Step(c)) /\ UNCHANGED job

Spec == Init /\ [][Next]_vars

---------------------------------------------------------------------------
(* What Turns takes such a call to be. *)
Coarse == INSTANCE Lookups

(* Whatever the site, the geocoder or an expression is like, a call waits  *)
(* and ends only as Lookups says, where Turns relies on it.                *)
ImplementsLookups == Coarse!LookupSpec
=============================================================================
