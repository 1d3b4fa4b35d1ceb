------------------------------ MODULE Lookups -------------------------------
(***************************************************************************)
(* The skills that look something up with one request or two: a booru      *)
(* search, the weather of a place, and the evaluation of an expression,    *)
(* which runs in a thread.                                                 *)
(***************************************************************************)
EXTENDS ToolCall

LookupPlaces == {"booru", "geocode", "forecast", "evaluate"}

(* A sort or a file type the site does not have makes its enumeration      *)
(* raise, before the try block.                                            *)
BooruBegins(c) == Awaits(c, "booru") \/ Ends(c, "raised")

(* The site's own error, an HTTP error, a body that is no JSON, no object  *)
(* or has posts that cannot be read, or no answer; else a card, or nothing *)
(* to show.                                                                *)
BooruAnswers(c) ==
    /\ at[c] = "booru"
    /\ Ends(c, "card") \/ Ends(c, "empty") \/ Ends(c, "unavailable")

WeatherBegins(c) == Awaits(c, "geocode") \/ Ends(c, "invalid")

(* A place that was found without coordinates makes the skill raise. *)
PlaceArrives(c) ==
    /\ at[c] = "geocode"
    /\ \/ Awaits(c, "forecast")
       \/ Ends(c, "empty") \/ Ends(c, "unavailable") \/ Ends(c, "raised")

ForecastArrives(c) ==
    /\ at[c] = "forecast"
    /\ Ends(c, "result") \/ Ends(c, "unavailable") \/ Ends(c, "raised")

MathBegins(c) == Awaits(c, "evaluate")

(* Whatever evaluate raises is the text of the result. *)
Evaluated(c) ==
    /\ at[c] = "evaluate"
    /\ Ends(c, "result")

LookupStep(c) ==
    BooruAnswers(c) \/ PlaceArrives(c) \/ ForecastArrives(c) \/ Evaluated(c)

LookupBegins(c) ==
    /\ at[c] = "idle"
    /\ BooruBegins(c) \/ WeatherBegins(c) \/ MathBegins(c)

(* These calls alone: LookupCall implements it. *)
LookupSpec ==
    CallsInit /\ [][\E c \in Calls : LookupBegins(c) \/ LookupStep(c)]_callVars
=============================================================================
