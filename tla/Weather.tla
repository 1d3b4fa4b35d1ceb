------------------------------ MODULE Weather -------------------------------
(***************************************************************************)
(* The weather skill: a place is looked up, the hit that fits what stands  *)
(* after the comma is picked, and its forecast is asked for.  Names are    *)
(* sequences of letters, in lower case, and empty when they are missing.   *)
(***************************************************************************)
EXTENDS ToolCall, SequencesExt

CONSTANTS
    Names,       \* names of regions and countries, and country codes
    UsCode,      \* the country code of the United States
    UsStates,    \* the name of a state for its abbreviation
    MaxResults   \* hits of the geocoder (the request says five)

ASSUME WeatherAssumption ==
    /\ \A name \in Names : name \in Seq(STRING)
    /\ MaxResults \in Nat

VARIABLES
    qualifier,   \* what stands after the comma
    results,     \* the hits, best first
    place        \* the hit the forecast is asked for

weatherVars == <<qualifier, results, place>>

Places == [admin1 : Names, country : Names, code : Names]

Nowhere == [admin1 |-> <<>>, country |-> <<>>, code |-> <<>>]

WeatherInit ==
    /\ qualifier = <<>>
    /\ results = <<>>
    /\ place = Nowhere

(* The location is nothing before its comma, or a name. *)
PlaceAsked(c) ==
    /\ at[c] = "idle"
    /\ qualifier' \in Names
    /\ Awaits(c, "geocode") \/ Ends(c, "invalid")
    /\ UNCHANGED <<results, place>>

(* The ways to fit, best first.  No name that is missing fits, as the      *)
(* qualifier has letters.                                                  *)
UsState(r, q) == q \in DOMAIN UsStates /\ r.code = UsCode /\ r.admin1 = UsStates[q]
Exact(r, q) == q \in {r.admin1, r.country, r.code}
Begins(r, q) == IsPrefix(q, r.admin1) \/ IsPrefix(q, r.country)

(* The hits of each tier. *)
Hits(found, q) ==
    <<{i \in DOMAIN found : UsState(found[i], q)},
      {i \in DOMAIN found : Exact(found[i], q)},
      {i \in DOMAIN found : Begins(found[i], q)}>>

(* Mutant: the start of a name is tried before whole names. *)
StartsFirst(found, q) ==
    LET hits == Hits(found, q)
        tiers == {t \in 1..3 : hits[t] # {}}
    IN  IF q = <<>> \/ tiers = {} THEN found[1]
        ELSE found[Min(hits[IF 3 \in tiers THEN 3 ELSE Min(tiers)])]

(* The first hit of the best tier that has one; without a qualifier, or    *)
(* when nothing fits it, the geocoder's first.                             *)
Pick(found, q) ==
    LET hits == Hits(found, q)
        tiers == {t \in 1..3 : hits[t] # {}}
    IN  IF q = <<>> \/ tiers = {} THEN found[1]
        ELSE found[Min(hits[Min(tiers)])]

(* A hit without coordinates makes the skill raise. *)
PlacePicked(c) ==
    /\ at[c] = "geocode"
    /\ results' \in UNION {[1..n -> Places] : n \in 1..MaxResults}
    /\ place' = Pick(results', qualifier)
    /\ Awaits(c, "forecast") \/ Ends(c, "raised")
    /\ UNCHANGED qualifier

(* The geocoder fails, knows no such place, or answers in another shape. *)
NoPlace(c) ==
    /\ at[c] = "geocode"
    /\ Ends(c, "unavailable") \/ Ends(c, "empty") \/ Ends(c, "raised")
    /\ UNCHANGED weatherVars

ForecastAnswers(c) ==
    /\ at[c] = "forecast"
    /\ Ends(c, "result") \/ Ends(c, "unavailable") \/ Ends(c, "raised")
    /\ UNCHANGED weatherVars

WeatherStep(c) ==
    PlaceAsked(c) \/ PlacePicked(c) \/ NoPlace(c) \/ ForecastAnswers(c)

---------------------------------------------------------------------------
(* Properties *)

(* The forecast is that of a place that fits what the user named if any    *)
(* does: of a state of the US for its abbreviation, even where a country   *)
(* has it for its code; of a place whose region, country or code is named  *)
(* in full before one whose name only begins so; never of one that has the *)
(* letters elsewhere; and among equals of the geocoder's first             *)
(* (skill.py:88-90, "never a substring").                                  *)
PlaceIsBest ==
    results # <<>> /\ qualifier # <<>> =>
        LET places == {results[i] : i \in DOMAIN results}
            States == {p \in places : UsState(p, qualifier)}
            Named == {p \in places : Exact(p, qualifier)}
            Begun == {p \in places : Begins(p, qualifier)}
            Best == IF States # {} THEN States ELSE IF Named # {} THEN Named
                    ELSE IF Begun # {} THEN Begun ELSE places
        IN  /\ place \in Best
            /\ \A i \in DOMAIN results : results[i] \in Best =>
                 \E j \in 1..i : results[j] = place
=============================================================================
