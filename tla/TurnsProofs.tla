---------------------------- MODULE TurnsProofs ------------------------------
(***************************************************************************)
(* Theorems about Turns: the fetches, searches and draws of any number of  *)
(* calls, for any numbers of redirects, providers and draws and any lists, *)
(* and the messages of an answer, for any texts and any length limit.      *)
(***************************************************************************)
EXTENDS Turns, SequenceTheorems, WellFoundedInduction, TLAPS

---------------------------------------------------------------------------
(* The types of what a call keeps *)

AllPlaces == FetchPlaces \cup LeetPlaces \cup LookupPlaces \cup {"search", "idle", "done"}

Findings == {"failed", "nothing", "found"}

PageReplies == [served : BOOLEAN, total : 0..MaxList, problem : Problems]

CallTypes ==
    /\ at \in [Calls -> AllPlaces] /\ outcome \in [Calls -> Outcomes]
    /\ \A c \in Calls : (at[c] = "done") = (outcome[c] # "none")

FetchTypes == requests \in [Calls -> Nat] /\ open \in [Calls -> Int]

SearchTypes ==
    /\ provider \in [Calls -> 1..Providers] /\ failures \in [Calls -> Nat]
    /\ heard \in [Calls -> Seq(Findings)]

LeetTypes ==
    /\ listed \in [Difficulties -> 0..MaxList] /\ totals \in [Difficulties -> Totals]
    /\ filter \in [Calls -> Difficulties] /\ draws \in [Calls -> 0..MaxDraws]
    /\ skip \in [Calls -> 0..MaxList] /\ reply \in [Calls -> PageReplies]
    /\ misses \in [Calls -> Nat]
    /\ \A c \in Calls : at[c] \in {"total", "page"} => draws[c] < MaxDraws

Types == CallTypes /\ FetchTypes /\ SearchTypes /\ LeetTypes

LEMMA Constants ==
    /\ MaxRedirects \in Nat /\ Providers \in Nat \ {0} /\ MaxList \in Nat
    /\ MaxDraws \in Nat \ {0}
    /\ (CHOOSE d \in Difficulties : TRUE) \in Difficulties
BY RedirectsAssumption, ProvidersAssumption, LeetCodeAssumption

LEMMA WaitingIsTyped ==
    ASSUME CallTypes, NEW c \in Calls, NEW what \in AllPlaces \ {"done"},
           at[c] # "done", Awaits(c, what)
    PROVE  CallTypes'
BY DEF CallTypes, Awaits

LEMMA EndingIsTyped ==
    ASSUME CallTypes, NEW c \in Calls, NEW o \in Outcomes \ {"none"}, Ends(c, o)
    PROVE  CallTypes'
BY DEF CallTypes, Ends, AllPlaces

LEMMA FetchStepTyped ==
    ASSUME CallTypes, FetchTypes, NEW c \in Calls,
           FetchStep(c) \/ (FetchBegins(c) /\ at[c] = "idle")
    PROVE  CallTypes' /\ FetchTypes'
<1>1. at[c] # "done"
  BY DEF FetchStep, HopAllowed, HopRefused, RequestFails, ResponseArrives, Redirected,
     NotAPage, PageBegins, BodyRead, BodyFails, DeadlinePasses, Extracted, FetchPlaces
<1>2. \/ \E what \in AllPlaces \ {"done"} : Awaits(c, what)
      \/ \E o \in Outcomes \ {"none"} : Ends(c, o)
  BY DEF FetchBegins, FetchStep, HopAllowed, HopRefused, RequestFails, ResponseArrives,
     Redirected, NotAPage, PageBegins, BodyRead, BodyFails, DeadlinePasses, Extracted,
     AllPlaces, FetchPlaces, Outcomes, Errors
<1>3. FetchTypes'
  BY DEF FetchBegins, FetchStep, HopAllowed, HopRefused, RequestFails, ResponseArrives,
     Redirected, NotAPage, PageBegins, BodyRead, BodyFails, DeadlinePasses, Extracted,
     FetchTypes, fetchVars, Closed, Opened
<1> QED
  BY <1>1, <1>2, <1>3, WaitingIsTyped, EndingIsTyped

LEMMA SearchStepTyped ==
    ASSUME CallTypes, SearchTypes, NEW c \in Calls,
           SearchStep(c) \/ (SearchBegins(c) /\ at[c] = "idle")
    PROVE  CallTypes' /\ SearchTypes'
<1> USE Constants
<1>1. at[c] # "done"
  BY DEF SearchStep, ProviderFails, ProviderFindsNothing, ProviderFinds, ProviderRaises
<1>2. \/ \E what \in AllPlaces \ {"done"} : Awaits(c, what)
      \/ \E o \in Outcomes \ {"none"} : Ends(c, o)
      \/ UNCHANGED callVars
  BY DEF SearchBegins, SearchStep, ProviderFails, ProviderFindsNothing, ProviderFinds,
     ProviderRaises, AsksNext, AllPlaces, Outcomes, Errors
<1>3. CallTypes'
  BY <1>1, <1>2, WaitingIsTyped, EndingIsTyped DEF CallTypes, callVars
<1>4. provider' \in [Calls -> 1..Providers]
  BY DEF SearchBegins, SearchStep, ProviderFails, ProviderFindsNothing, ProviderFinds,
     ProviderRaises, AsksNext, SearchTypes, searchVars
<1>5. failures' \in [Calls -> Nat]
  BY DEF SearchBegins, SearchStep, ProviderFails, ProviderFindsNothing, ProviderFinds,
     ProviderRaises, SearchTypes, searchVars
<1>6. heard' \in [Calls -> Seq(Findings)]
  <2>1. heard' = heard \/ \E f \in Findings : heard' = [heard EXCEPT ![c] = Append(@, f)]
    BY DEF SearchBegins, SearchStep, ProviderFails, ProviderFindsNothing, ProviderFinds,
       ProviderRaises, searchVars, Findings
  <2>2. \A f \in Findings : Append(heard[c], f) \in Seq(Findings)
    BY DEF SearchTypes
  <2> QED
    BY <2>1, <2>2 DEF SearchTypes
<1> QED
  BY <1>3, <1>4, <1>5, <1>6 DEF SearchTypes

(* What a draw from a list comes to. *)
LEMMA DrawingIsTyped ==
    ASSUME CallTypes, NEW c \in Calls, at[c] # "done", skip \in [Calls -> 0..MaxList],
           NEW n \in 0..MaxDraws, NEW known, filter'[c] \in Difficulties,
           known \in [Difficulties -> Totals],
           DrawsNext(c, n, known)
    PROVE  /\ CallTypes' /\ skip' \in [Calls -> 0..MaxList]
           /\ at'[c] \in {"total", "page"} => n < MaxDraws
           /\ \A d \in Calls : d # c => at'[d] = at[d]
<1> USE Constants
<1>1. known[filter'[c]].count \in 0..MaxList
  BY DEF Totals
<1>2. \/ Awaits(c, "page") /\ n < MaxDraws
         /\ \E s \in 0..MaxList : skip' = [skip EXCEPT ![c] = s]
      \/ Awaits(c, "total") /\ n < MaxDraws /\ skip' = [skip EXCEPT ![c] = 0]
      \/ Ends(c, "empty") /\ UNCHANGED skip
  BY <1>1 DEF DrawsNext, LastDraw, PicksFrom
<1>3. CallTypes'
  BY <1>2, WaitingIsTyped, EndingIsTyped DEF AllPlaces, LeetPlaces, Outcomes, Errors
<1>4. skip' \in [Calls -> 0..MaxList]
  BY <1>2
<1> QED
  BY <1>2, <1>3, <1>4 DEF CallTypes, Awaits, Ends

LEMMA LeetStepTyped ==
    ASSUME CallTypes, LeetTypes, NEW c \in Calls,
           LeetStep(c) \/ ((DailyBegins(c) \/ RandomBegins(c)) /\ at[c] = "idle")
    PROVE  CallTypes' /\ LeetTypes'
<1> USE Constants
<1> NoReply \in PageReplies
  BY DEF NoReply, PageReplies, Problems
<1>1. CASE PageServed(c)
  <2>1. reply' \in [Calls -> PageReplies]
    BY <1>1 DEF PageServed, LeetTypes, PageReplies
  <2>2. misses' \in [Calls -> Nat]
    BY <1>1 DEF PageServed, LeetTypes
  <2> QED
    BY <1>1, <2>1, <2>2 DEF PageServed, CallTypes, LeetTypes, callVars, siteVars
<1>2. CASE (DailyBegins(c) /\ at[c] = "idle") \/ DailyArrives(c)
  <2>1. CallTypes'
    BY <1>2, WaitingIsTyped, EndingIsTyped DEF DailyBegins, DailyArrives, AllPlaces, LeetPlaces,
       Outcomes
  <2>2. \A d \in Calls : at'[d] \in {"total", "page"} => at'[d] = at[d]
    BY <1>2 DEF DailyBegins, DailyArrives, CallTypes, Awaits, Ends
  <2> QED
    BY <1>2, <2>1, <2>2 DEF DailyBegins, DailyArrives, LeetTypes, siteVars, drawVars
<1>3. CASE RandomBegins(c) /\ at[c] = "idle"
  <2>1. /\ filter' \in [Calls -> Difficulties] /\ draws' \in [Calls -> 0..MaxDraws]
        /\ misses' \in [Calls -> Nat] /\ draws' = [draws EXCEPT ![c] = 0]
    BY <1>3 DEF RandomBegins, LeetTypes
  <2>2. DrawsNext(c, 0, totals) /\ UNCHANGED <<siteVars, reply>>
    BY <1>3 DEF RandomBegins
  <2>3. /\ CallTypes' /\ skip' \in [Calls -> 0..MaxList]
        /\ at'[c] \in {"total", "page"} => 0 < MaxDraws
        /\ \A d \in Calls : d # c => at'[d] = at[d]
    BY <1>3, <2>1, <2>2, DrawingIsTyped DEF LeetTypes
  <2> QED
    BY <2>1, <2>2, <2>3 DEF LeetTypes, siteVars
<1>4. ASSUME totals' = Remembered(c) PROVE totals' \in [Difficulties -> Totals]
  BY <1>4 DEF Remembered, LeetTypes, PageReplies, Totals
<1>5. CASE TotalArrives(c)
  <2>1. /\ totals' \in [Difficulties -> Totals] /\ reply' \in [Calls -> PageReplies]
        /\ UNCHANGED <<listed, filter, draws, misses>>
    BY <1>4, <1>5 DEF TotalArrives, LeetTypes
  <2>2. \/ Awaits(c, "page") /\ \E s \in 0..MaxList : skip' = [skip EXCEPT ![c] = s]
        \/ Ends(c, "empty") /\ UNCHANGED skip
    BY <1>5 DEF TotalArrives, PicksFrom, LeetTypes, PageReplies
  <2>3. CallTypes'
    BY <1>5, <2>2, WaitingIsTyped, EndingIsTyped DEF TotalArrives, AllPlaces, LeetPlaces,
       Outcomes, Errors
  <2>4. skip' \in [Calls -> 0..MaxList]
    BY <2>2 DEF LeetTypes
  <2>5. \A d \in Calls : at'[d] \in {"total", "page"} => at[d] \in {"total", "page"}
    BY <1>5, <2>2 DEF TotalArrives, CallTypes, Awaits, Ends
  <2> QED
    BY <2>1, <2>3, <2>4, <2>5 DEF LeetTypes
<1>6. CASE PageArrives(c)
  <2>1. /\ totals' \in [Difficulties -> Totals] /\ reply' \in [Calls -> PageReplies]
        /\ UNCHANGED <<listed, filter, misses>> /\ at[c] = "page"
        /\ draws[c] < MaxDraws
    BY <1>4, <1>6 DEF PageArrives, LeetTypes
  <2>2. CASE Ends(c, "result") /\ UNCHANGED <<draws, skip>>
    <3>1. CallTypes'
      BY <2>1, <2>2, EndingIsTyped DEF Outcomes
    <3>2. \A d \in Calls : at'[d] \in {"total", "page"} => at[d] \in {"total", "page"}
      BY <2>2 DEF CallTypes, Ends
    <3> QED
      BY <2>1, <2>2, <3>1, <3>2 DEF LeetTypes
  <2>3. CASE /\ draws' = [draws EXCEPT ![c] = @ + 1]
             /\ DrawsNext(c, draws[c] + 1, totals')
    <3>1. draws[c] + 1 \in 0..MaxDraws /\ filter'[c] \in Difficulties
      BY <2>1 DEF LeetTypes
    <3>2. /\ CallTypes' /\ skip' \in [Calls -> 0..MaxList]
          /\ at'[c] \in {"total", "page"} => draws[c] + 1 < MaxDraws
          /\ \A d \in Calls : d # c => at'[d] = at[d]
      BY <2>1, <2>3, <3>1, DrawingIsTyped DEF LeetTypes
    <3> QED
      BY <2>1, <2>3, <3>1, <3>2 DEF LeetTypes
  <2> QED
    BY <1>6, <2>2, <2>3 DEF PageArrives
<1>7. CASE QueryFails(c)
  <2>1. CallTypes'
    BY <1>7, EndingIsTyped DEF QueryFails, LeetPlaces, Outcomes, Errors
  <2>2. \A d \in Calls : at'[d] \in {"total", "page"} => at[d] \in {"total", "page"}
    BY <1>7 DEF QueryFails, CallTypes, Ends
  <2> QED
    BY <1>7, <2>1, <2>2 DEF QueryFails, LeetTypes, siteVars
<1> QED
  BY <1>1, <1>2, <1>3, <1>5, <1>6, <1>7 DEF LeetStep

---------------------------------------------------------------------------
(* Where a call goes *)

(* A call moves within the places of its skill, and no other call moves.   *)
Within(c, places) ==
    /\ at[c] \in places \cup {"idle"} /\ at'[c] \in places \cup {"done"}
    /\ \A d \in Calls : d # c => at'[d] = at[d] /\ outcome'[d] = outcome[d]

LEMMA FetchStaysWithin ==
    ASSUME CallTypes, NEW c \in Calls, FetchStep(c) \/ (FetchBegins(c) /\ at[c] = "idle")
    PROVE  Within(c, FetchPlaces)
BY DEF CallTypes, FetchBegins, FetchStep, HopAllowed, HopRefused, RequestFails,
   ResponseArrives, Redirected, NotAPage, PageBegins, BodyRead, BodyFails, DeadlinePasses,
   Extracted, FetchPlaces, Within, Awaits, Ends

LEMMA SearchStaysWithin ==
    ASSUME CallTypes, NEW c \in Calls, SearchStep(c) \/ (SearchBegins(c) /\ at[c] = "idle")
    PROVE  Within(c, {"search"})
BY DEF CallTypes, SearchBegins, SearchStep, ProviderFails, ProviderFindsNothing, ProviderFinds,
   ProviderRaises, AsksNext, Within, Awaits, Ends, callVars

LEMMA LeetStaysWithin ==
    ASSUME CallTypes, NEW c \in Calls,
           LeetStep(c) \/ ((DailyBegins(c) \/ RandomBegins(c)) /\ at[c] = "idle")
    PROVE  Within(c, LeetPlaces)
BY DEF CallTypes, DailyBegins, RandomBegins, LeetStep, PageServed, DailyArrives, TotalArrives,
   PageArrives, QueryFails, DrawsNext, PicksFrom, LeetPlaces, Within, Awaits, Ends, callVars

LookupMoves(c) ==
    \/ LookupStep(c)
    \/ at[c] = "idle" /\ (BooruBegins(c) \/ WeatherBegins(c) \/ MathBegins(c)
                            \/ Ends(c, "invalid"))

LEMMA LookupStaysWithin ==
    ASSUME CallTypes, NEW c \in Calls, LookupMoves(c)
    PROVE  Within(c, LookupPlaces) /\ CallTypes'
<1>1. /\ at[c] # "done"
      /\ \/ \E what \in AllPlaces \ {"done"} : Awaits(c, what)
         \/ \E o \in Outcomes \ {"none"} : Ends(c, o)
  BY DEF LookupMoves, BooruBegins, WeatherBegins, MathBegins, LookupStep, BooruAnswers,
     PlaceArrives, ForecastArrives, Evaluated, LookupPlaces, Outcomes, Errors, AllPlaces
<1>2. Within(c, LookupPlaces)
  BY DEF CallTypes, LookupMoves, BooruBegins, WeatherBegins, MathBegins, LookupStep,
     BooruAnswers, PlaceArrives, ForecastArrives, Evaluated, LookupPlaces, Within, Awaits, Ends
<1> QED
  BY <1>1, <1>2, WaitingIsTyped, EndingIsTyped

(* The move of a call is one of its skill, which leaves what the others    *)
(* keep alone.                                                             *)
CallMoves(c) == CallBegins(c) \/ CallSteps(c)

MoveOf(c) ==
    \/ /\ FetchStep(c) \/ (FetchBegins(c) /\ at[c] = "idle")
       /\ UNCHANGED <<searchVars, siteVars, drawVars>>
    \/ /\ SearchStep(c) \/ (SearchBegins(c) /\ at[c] = "idle")
       /\ UNCHANGED <<fetchVars, siteVars, drawVars>>
    \/ /\ LeetStep(c) \/ ((DailyBegins(c) \/ RandomBegins(c)) /\ at[c] = "idle")
       /\ UNCHANGED <<fetchVars, searchVars>>
    \/ LookupMoves(c) /\ UNCHANGED <<fetchVars, searchVars, siteVars, drawVars>>

LEMMA MovesAreOfSkills == ASSUME NEW c \in Calls, CallMoves(c) PROVE MoveOf(c)
<1>1. CASE CallBegins(c)
  <2>1. at[c] = "idle" /\ \E skill : SkillBegins(c, skill)
    BY <1>1 DEF CallBegins
  <2> QED
    BY <2>1 DEF SkillBegins, MoveOf, LookupMoves
<1>2. CASE CallSteps(c)
  BY <1>2 DEF CallSteps, MoveOf, LookupMoves
<1> QED
  BY <1>1, <1>2 DEF CallMoves

LEMMA MovesAreTyped == ASSUME Types, NEW c \in Calls, CallMoves(c) PROVE Types'
<1>1. MoveOf(c)
  BY MovesAreOfSkills
<1>2. ASSUME NEW places, Within(c, places), places \cap LeetPlaces = {},
             UNCHANGED <<siteVars, drawVars>>
      PROVE  LeetTypes'
  <2>1. \A d \in Calls : at'[d] \in {"total", "page"} => at[d] \in {"total", "page"}
    BY <1>2 DEF Within, LeetPlaces
  <2> QED
    BY <1>2, <2>1 DEF Types, LeetTypes, siteVars, drawVars
<1>3. CASE /\ FetchStep(c) \/ (FetchBegins(c) /\ at[c] = "idle")
           /\ UNCHANGED <<searchVars, siteVars, drawVars>>
  <2>1. CallTypes' /\ FetchTypes'
    BY <1>3, FetchStepTyped DEF Types
  <2>2. LeetTypes'
    BY <1>2, <1>3, FetchStaysWithin DEF Types, FetchPlaces, LeetPlaces
  <2> QED
    BY <1>3, <2>1, <2>2 DEF Types, SearchTypes, searchVars
<1>4. CASE /\ SearchStep(c) \/ (SearchBegins(c) /\ at[c] = "idle")
           /\ UNCHANGED <<fetchVars, siteVars, drawVars>>
  <2>1. CallTypes' /\ SearchTypes'
    BY <1>4, SearchStepTyped DEF Types
  <2>2. LeetTypes'
    BY <1>2, <1>4, SearchStaysWithin DEF Types, LeetPlaces
  <2> QED
    BY <1>4, <2>1, <2>2 DEF Types, FetchTypes, fetchVars
<1>5. CASE /\ LeetStep(c) \/ ((DailyBegins(c) \/ RandomBegins(c)) /\ at[c] = "idle")
           /\ UNCHANGED <<fetchVars, searchVars>>
  BY <1>5, LeetStepTyped DEF Types, FetchTypes, SearchTypes, fetchVars, searchVars
<1>6. CASE LookupMoves(c) /\ UNCHANGED <<fetchVars, searchVars, siteVars, drawVars>>
  <2>1. CallTypes' /\ LeetTypes'
    BY <1>2, <1>6, LookupStaysWithin DEF Types, LookupPlaces, LeetPlaces
  <2> QED
    BY <1>6, <2>1 DEF Types, FetchTypes, SearchTypes, fetchVars, searchVars
<1> QED
  BY <1>1, <1>3, <1>4, <1>5, <1>6 DEF MoveOf

---------------------------------------------------------------------------
(* Fetches *)

FetchPart(c) ==
    /\ requests[c] <= MaxRedirects + 1
    /\ at[c] = "idle" => requests[c] = 0
    /\ at[c] = "resolve" => requests[c] <= MaxRedirects
    /\ open[c] = IF at[c] \in Opened THEN 1 ELSE 0

LEMMA MoveKeepsFetches ==
    ASSUME Types, NEW c \in Calls, CallMoves(c), NEW d \in Calls, FetchPart(d)
    PROVE  FetchPart(d)'
<1> USE Constants
<1>1. MoveOf(c)
  BY MovesAreOfSkills
<1>2. CASE FetchStep(c) \/ (FetchBegins(c) /\ at[c] = "idle")
  <2>1. CASE d = c
    BY <1>2, <2>1 DEF Types, CallTypes, FetchTypes, FetchBegins, FetchStep, HopAllowed,
       HopRefused, RequestFails, ResponseArrives, Redirected, MayHop, NotAPage, PageBegins,
       BodyRead, BodyFails, DeadlinePasses, Extracted, FetchPart, fetchVars, Closed, Opened,
       Awaits, Ends
  <2>2. CASE d # c
    <3>1. requests'[d] = requests[d] /\ open'[d] = open[d]
      BY <1>2, <2>2 DEF Types, FetchTypes, FetchBegins, FetchStep, HopAllowed, HopRefused,
         RequestFails, ResponseArrives, Redirected, NotAPage, PageBegins, BodyRead, BodyFails,
         DeadlinePasses, Extracted, fetchVars, Closed, Opened
    <3> QED
      BY <1>2, <2>2, <3>1, FetchStaysWithin DEF Types, Within, FetchPart
  <2> QED
    BY <2>1, <2>2
<1>3. ASSUME NEW places, Within(c, places), places \cap (FetchPlaces \cup {"idle"}) = {},
             UNCHANGED fetchVars
      PROVE  FetchPart(d)'
  BY <1>3 DEF Within, FetchPart, fetchVars, FetchPlaces, Opened
<1> QED
  BY <1>1, <1>2, <1>3, SearchStaysWithin, LeetStaysWithin, LookupStaysWithin
  DEF MoveOf, Types, FetchPlaces, LeetPlaces, LookupPlaces


---------------------------------------------------------------------------
(* Searches *)

(* The body of SearchIsHonest. *)
Honest(c) ==
    LET said == {heard[c][i] : i \in DOMAIN heard[c]}
    IN  /\ at[c] = "done" /\ heard[c] # <<>> =>
              /\ outcome[c] = "unavailable" =>
                    said = {"failed"} /\ Len(heard[c]) = Providers
              /\ outcome[c] = "empty" =>
                    "nothing" \in said /\ Len(heard[c]) = Providers
              /\ (outcome[c] = "result") = ("found" \in said)
        /\ \A i \in DOMAIN heard[c] : heard[c][i] = "found" => i = Len(heard[c])

(* Of what was heard, h, n providers failed and none found anything. *)
Audited(h, n) ==
    /\ n <= Len(h)
    /\ \A i \in 1..Len(h) : h[i] \in {"failed", "nothing"}
    /\ n = Len(h) => \A i \in 1..Len(h) : h[i] = "failed"
    /\ n < Len(h) => \E i \in 1..Len(h) : h[i] = "nothing"

LEMMA AuditGrows ==
    ASSUME NEW h \in Seq(Findings), NEW n \in Nat, Audited(h, n)
    PROVE  /\ Audited(Append(h, "failed"), n + 1)
           /\ Audited(Append(h, "nothing"), n)
<1> DEFINE g == Append(h, "failed")
           k == Append(h, "nothing")
<1>1. /\ Len(g) = Len(h) + 1 /\ Len(k) = Len(h) + 1
      /\ \A i \in 1..Len(h) : g[i] = h[i] /\ k[i] = h[i]
      /\ g[Len(h) + 1] = "failed" /\ k[Len(h) + 1] = "nothing"
  BY DEF Findings
<1>2. Len(h) \in Nat
  OBVIOUS
<1> HIDE DEF g, k
<1>3. Audited(g, n + 1)
  BY <1>1, <1>2 DEF Audited
<1>4. Audited(k, n)
  BY <1>1, <1>2 DEF Audited
<1> QED
  BY <1>3, <1>4 DEF g, k

SearchPart(c) ==
    /\ at[c] \notin {"search", "done"} =>
         heard[c] = <<>> /\ failures[c] = 0 /\ provider[c] = 1
    /\ at[c] = "search" =>
         Audited(heard[c], failures[c]) /\ Len(heard[c]) = provider[c] - 1
    /\ failures[c] <= Providers
    /\ Honest(c)

(* The end of a search, or the next provider. *)
LEMMA HeardIsHonest ==
    ASSUME Types, NEW c \in Calls, at[c] = "search", SearchPart(c),
           NEW f \in {"failed", "nothing"}, NEW n \in Nat,
           heard' = [heard EXCEPT ![c] = Append(@, f)], failures' = [failures EXCEPT ![c] = n],
           n = IF f = "failed" THEN failures[c] + 1 ELSE failures[c],
           AsksNext(c, n)
    PROVE  SearchPart(c)'
<1> USE Constants
<1>1. /\ heard[c] \in Seq(Findings) /\ failures[c] \in Nat /\ provider[c] \in 1..Providers
      /\ heard'[c] = Append(heard[c], f) /\ failures'[c] = n
  BY DEF Types, SearchTypes
<1>2. Audited(heard'[c], n)
  BY <1>1, AuditGrows DEF SearchPart
<1>3. Len(heard'[c]) = provider[c] /\ heard'[c] # <<>> /\ DOMAIN heard'[c] = 1..Len(heard'[c])
  <2>1. Len(heard[c]) = provider[c] - 1
    BY DEF SearchPart
  <2> QED
    BY <1>1, <2>1 DEF Findings
<1>4. n <= Providers
  BY <1>1, <1>2, <1>3 DEF Audited
<1>5. CASE provider[c] < Providers
  <2>1. provider'[c] = provider[c] + 1 /\ at'[c] = "search"
    BY <1>1, <1>5 DEF AsksNext, Types, SearchTypes, callVars
  <2>2. \A i \in DOMAIN heard'[c] : heard'[c][i] # "found"
    BY <1>2, <1>3 DEF Audited
  <2> QED
    BY <1>1, <1>2, <1>3, <1>4, <2>1, <2>2 DEF SearchPart, Honest
<1>6. CASE ~(provider[c] < Providers)
  <2>1. /\ at'[c] = "done" /\ outcome'[c] = IF n = Providers THEN "unavailable" ELSE "empty"
        /\ Len(heard'[c]) = Providers
    BY <1>1, <1>3, <1>6 DEF AsksNext, AllFailed, Ends, Types, CallTypes
  <2>2. \A i \in DOMAIN heard'[c] : heard'[c][i] # "found"
    BY <1>2, <1>3 DEF Audited
  <2>3. n = Providers => {heard'[c][i] : i \in DOMAIN heard'[c]} = {"failed"}
    BY <1>2, <1>3, <2>1 DEF Audited
  <2>4. n # Providers => "nothing" \in {heard'[c][i] : i \in DOMAIN heard'[c]}
    BY <1>1, <1>2, <1>3, <1>4, <2>1 DEF Audited
  <2> QED
    <3>1. Honest(c)'
      <4>1. n = Providers => outcome'[c] = "unavailable"
        BY <2>1
      <4>2. n # Providers => outcome'[c] = "empty"
        BY <2>1
      <4>3. "found" \notin {heard'[c][i] : i \in DOMAIN heard'[c]}
        BY <2>2
      <4> QED
        <5> DEFINE said == {heard'[c][i] : i \in DOMAIN heard'[c]}
        <5>1. outcome'[c] = "unavailable" => said = {"failed"} /\ Len(heard'[c]) = Providers
          BY <2>1, <2>3, <4>2
        <5>2. outcome'[c] = "empty" => "nothing" \in said /\ Len(heard'[c]) = Providers
          BY <2>1, <2>4, <4>1
        <5>3. outcome'[c] # "result" /\ "found" \notin said
          BY <4>1, <4>2, <4>3
        <5>4. (outcome'[c] = "result") = ("found" \in said)
          BY <5>3
        <5> QED
          BY <2>2, <5>1, <5>2, <5>4 DEF Honest
    <3> QED
      BY <1>1, <1>4, <2>1, <3>1 DEF SearchPart
<1> QED
  BY <1>5, <1>6

LEMMA SearchStepKeepsSearch ==
    ASSUME Types, NEW c \in Calls, SearchPart(c),
           SearchStep(c) \/ (SearchBegins(c) /\ at[c] = "idle")
    PROVE  SearchPart(c)'
<1> USE Constants
<1>1. CASE ProviderFails(c)
  <2>1. failures[c] + 1 \in Nat
    BY DEF Types, SearchTypes
  <2> QED
    BY <1>1, <2>1, HeardIsHonest DEF ProviderFails
<1>2. CASE ProviderFindsNothing(c)
  <2>1. failures[c] \in Nat /\ failures' = [failures EXCEPT ![c] = failures[c]]
    BY <1>2 DEF Types, SearchTypes, ProviderFindsNothing
  <2> QED
    BY <1>2, <2>1, HeardIsHonest DEF ProviderFindsNothing
<1>3. CASE ProviderFinds(c)
  <2>1. /\ heard[c] \in Seq(Findings) /\ heard'[c] = Append(heard[c], "found")
        /\ at'[c] = "done" /\ outcome'[c] = "result" /\ failures'[c] = failures[c]
    BY <1>3 DEF ProviderFinds, Types, SearchTypes, CallTypes, Ends
  <2>2. \A i \in 1..Len(heard[c]) : heard[c][i] # "found"
    BY <1>3 DEF ProviderFinds, SearchPart, Audited
  <2>3. /\ DOMAIN heard'[c] = 1..Len(heard[c]) + 1 /\ Len(heard'[c]) = Len(heard[c]) + 1
        /\ heard'[c][Len(heard[c]) + 1] = "found"
        /\ \A i \in 1..Len(heard[c]) : heard'[c][i] = heard[c][i]
    BY <2>1 DEF Findings
  <2>4. Len(heard[c]) \in Nat
    BY <2>1
  <2>5. \A i \in DOMAIN heard'[c] : heard'[c][i] = "found" => i = Len(heard'[c])
    BY <2>2, <2>3, <2>4
  <2>6. "found" \in {heard'[c][i] : i \in DOMAIN heard'[c]}
    BY <2>3, <2>4
  <2> QED
    BY <2>1, <2>5, <2>6 DEF SearchPart, Honest
<1>4. CASE ProviderRaises(c)
  <2>1. /\ at'[c] = "done" /\ outcome'[c] = "raised" /\ UNCHANGED searchVars /\ at[c] = "search"
    BY <1>4 DEF ProviderRaises, Types, CallTypes, Ends
  <2>2. /\ \A i \in DOMAIN heard[c] : heard[c][i] # "found"
    BY <2>1 DEF SearchPart, Audited, Types, SearchTypes
  <2> QED
    BY <2>1, <2>2 DEF SearchPart, Honest, searchVars
<1>5. CASE SearchBegins(c) /\ at[c] = "idle"
  <2>1. /\ UNCHANGED searchVars /\ at'[c] \in {"search", "done"} /\ heard[c] = <<>>
        /\ failures[c] = 0 /\ provider[c] = 1
    BY <1>5 DEF SearchBegins, SearchPart, Types, CallTypes, Awaits, Ends
  <2> QED
    BY <2>1 DEF SearchPart, Honest, Audited, searchVars
<1> QED
  BY <1>1, <1>2, <1>3, <1>4, <1>5 DEF SearchStep

(* A search that does not move stays as honest as it was. *)
LEMMA SearchStandsStill ==
    ASSUME NEW d \in Calls, SearchPart(d), at'[d] = at[d], outcome'[d] = outcome[d],
           heard'[d] = heard[d], failures'[d] = failures[d], provider'[d] = provider[d]
    PROVE  SearchPart(d)'
<1>1. Honest(d)'
  <2>1. Honest(d)
    BY DEF SearchPart
  <2> QED
    BY <2>1 DEF Honest
<1> QED
  BY <1>1 DEF SearchPart

LEMMA MoveKeepsSearches ==
    ASSUME Types, NEW c \in Calls, CallMoves(c), NEW d \in Calls, SearchPart(d)
    PROVE  SearchPart(d)'
<1>1. MoveOf(c)
  BY MovesAreOfSkills
<1>2. ASSUME NEW places, Within(c, places), d # c,
             heard'[d] = heard[d] /\ failures'[d] = failures[d] /\ provider'[d] = provider[d]
      PROVE  SearchPart(d)'
  <2>1. at'[d] = at[d] /\ outcome'[d] = outcome[d]
    BY <1>2 DEF Within
  <2> QED
    BY <1>2, <2>1, SearchStandsStill
<1>3. CASE SearchStep(c) \/ (SearchBegins(c) /\ at[c] = "idle")
  <2>1. CASE d = c
    BY <1>3, <2>1, SearchStepKeepsSearch
  <2>2. CASE d # c
    <3>1. heard'[d] = heard[d] /\ failures'[d] = failures[d] /\ provider'[d] = provider[d]
      BY <1>3, <2>2 DEF SearchBegins, SearchStep, ProviderFails, ProviderFindsNothing,
         ProviderFinds, ProviderRaises, AsksNext, Types, SearchTypes, searchVars
    <3> QED
      BY <1>2, <1>3, <2>2, <3>1, SearchStaysWithin DEF Types
  <2> QED
    BY <2>1, <2>2
<1>4. ASSUME NEW places, Within(c, places), places \cap {"search", "idle", "done"} = {},
             UNCHANGED searchVars
      PROVE  SearchPart(d)'
  <2>1. CASE d = c
    <3>1. heard[c] = <<>> /\ failures[c] = 0 /\ provider[c] = 1 /\ at'[c] # "search"
      BY <1>4, <2>1 DEF Within, SearchPart
    <3> QED
      BY <1>4, <2>1, <3>1, Constants DEF SearchPart, Honest, searchVars
  <2>2. CASE d # c
    BY <1>2, <1>4, <2>2 DEF searchVars
  <2> QED
    BY <2>1, <2>2
<1> QED
  BY <1>1, <1>3, <1>4, FetchStaysWithin, LeetStaysWithin, LookupStaysWithin
  DEF MoveOf, Types, FetchPlaces, LeetPlaces, LookupPlaces


---------------------------------------------------------------------------
(* Draws *)

(* A call that has drawn beyond the end of the list as it is knows where   *)
(* that end is: from the reply on its way, or since it drew again.  What   *)
(* it knows is its own, whatever older replies make of the shared count.   *)
LeetPart(c) ==
    /\ misses[c] <= 1
    /\ misses[c] = 1 => at[c] # "total"
    /\ misses[c] = 1 /\ at[c] = "page" =>
         IF reply[c].served THEN reply[c].total = listed[filter[c]]
         ELSE skip[c] < listed[filter[c]]

LEMMA LeetStepKeepsDraws ==
    ASSUME Types, NEW c \in Calls, LeetPart(c),
           LeetStep(c) \/ ((DailyBegins(c) \/ RandomBegins(c)) /\ at[c] = "idle")
    PROVE  LeetPart(c)'
<1> USE Constants
<1>1. CASE PageServed(c)
  <2>1. /\ reply'[c].served /\ reply'[c].total = listed[filter[c]]
        /\ misses'[c] = IF at[c] = "page" /\ skip[c] >= listed[filter[c]]
                        THEN misses[c] + 1 ELSE misses[c]
    BY <1>1 DEF PageServed, Types, LeetTypes
  <2>2. misses[c] \in Nat /\ skip[c] \in Nat /\ listed[filter[c]] \in Nat
    BY DEF Types, LeetTypes
  <2>3. /\ at'[c] = at[c] /\ filter'[c] = filter[c] /\ listed' = listed /\ ~reply[c].served
        /\ at[c] \in {"total", "page"}
    BY <1>1 DEF PageServed, callVars, siteVars
  <2> QED
    BY <2>1, <2>2, <2>3 DEF LeetPart
<1>2. CASE DailyBegins(c) \/ DailyArrives(c) \/ QueryFails(c)
  <2>1. at'[c] \in {"daily", "done"} /\ misses' = misses
    BY <1>2 DEF DailyBegins, DailyArrives, QueryFails, Types, CallTypes, Awaits, Ends, drawVars
  <2> QED
    BY <2>1 DEF LeetPart
<1>3. CASE RandomBegins(c)
  <2>1. misses'[c] = 0
    BY <1>3 DEF RandomBegins, Types, LeetTypes
  <2> QED
    BY <2>1 DEF LeetPart
<1>4. CASE TotalArrives(c)
  <2>1. misses[c] # 1 /\ misses' = misses
    BY <1>4 DEF TotalArrives, LeetPart
  <2> QED
    BY <2>1 DEF LeetPart
<1>5. CASE PageArrives(c)
  <2>1. /\ misses' = misses /\ filter' = filter /\ listed' = listed /\ ~reply'[c].served
        /\ totals'[filter[c]] = [count |-> reply[c].total, fresh |-> TRUE]
        /\ reply[c].total \in 0..MaxList
    BY <1>5 DEF PageArrives, Remembered, NoReply, Types, LeetTypes, PageReplies
  <2>2. at'[c] = "done" \/ (at'[c] = "page" /\ skip'[c] < reply[c].total)
    <3>1. CASE Ends(c, "result")
      BY <3>1 DEF Ends, Types, CallTypes
    <3>2. CASE DrawsNext(c, draws[c] + 1, totals')
      BY <2>1, <3>2 DEF DrawsNext, PicksFrom, Awaits, Ends, Types, CallTypes, LeetTypes
    <3> QED
      BY <1>5, <3>1, <3>2 DEF PageArrives
  <2>3. misses[c] = 1 => reply[c].total = listed[filter[c]]
    BY <1>5 DEF PageArrives, LeetPart
  <2> QED
    BY <2>1, <2>2, <2>3 DEF LeetPart
<1> QED
  BY <1>1, <1>2, <1>3, <1>4, <1>5 DEF LeetStep

LEMMA MoveKeepsDraws ==
    ASSUME Types, NEW c \in Calls, CallMoves(c), NEW d \in Calls, LeetPart(d)
    PROVE  LeetPart(d)'
<1>1. MoveOf(c)
  BY MovesAreOfSkills
<1>2. CASE LeetStep(c) \/ ((DailyBegins(c) \/ RandomBegins(c)) /\ at[c] = "idle")
  <2>1. CASE d = c
    BY <1>2, <2>1, LeetStepKeepsDraws
  <2>2. CASE d # c
    <3>1. /\ misses'[d] = misses[d] /\ reply'[d] = reply[d] /\ filter'[d] = filter[d]
          /\ skip'[d] = skip[d] /\ listed' = listed
      BY <1>2, <2>2 DEF DailyBegins, RandomBegins, LeetStep, PageServed, DailyArrives,
         TotalArrives, PageArrives, QueryFails, DrawsNext, PicksFrom, Types, LeetTypes,
         siteVars, drawVars
    <3>2. at'[d] = at[d]
      BY <1>2, <2>2, LeetStaysWithin DEF Within, Types
    <3> QED
      BY <3>1, <3>2 DEF LeetPart
  <2> QED
    BY <2>1, <2>2
<1>3. ASSUME NEW places, Within(c, places), places \cap LeetPlaces = {},
             UNCHANGED <<siteVars, drawVars>>
      PROVE  LeetPart(d)'
  <2>1. at'[d] = at[d] \/ at'[d] \notin {"total", "page"}
    BY <1>3 DEF Within, LeetPlaces
  <2> QED
    BY <1>3, <2>1 DEF LeetPart, siteVars, drawVars
<1> QED
  BY <1>1, <1>2, <1>3, FetchStaysWithin, SearchStaysWithin, LookupStaysWithin
  DEF MoveOf, Types, FetchPlaces, LeetPlaces, LookupPlaces

---------------------------------------------------------------------------
(* Turns *)

StageTypes ==
    /\ kind \in {"slash", "chat"}
    /\ stage \in {"begun", "core", "voice", "sending", "over"}
    /\ text \in Texts \cup {Apology}
    /\ card \in BOOLEAN /\ failed \in BOOLEAN
    /\ by \in {"nobody", "voice", "apology", "edge"}
    /\ stage # "core" => \A c \in Calls : at[c] = "idle"

CallParts == \A c \in Calls : FetchPart(c) /\ SearchPart(c) /\ LeetPart(c)

IInv == Types /\ CallParts /\ StageTypes

(* Nothing of a turn's calls is left: all of them are as at the start. *)
Blank ==
    /\ at = [c \in Calls |-> "idle"] /\ outcome = [c \in Calls |-> "none"]
    /\ requests = [c \in Calls |-> 0] /\ open = [c \in Calls |-> 0]
    /\ SearchInit
    /\ filter = [c \in Calls |-> CHOOSE d \in Difficulties : TRUE]
    /\ draws = [c \in Calls |-> 0] /\ skip = [c \in Calls |-> 0]
    /\ reply = [c \in Calls |-> NoReply] /\ misses = [c \in Calls |-> 0]

CountTypes ==
    listed \in [Difficulties -> 0..MaxList] /\ totals \in [Difficulties -> Totals]

LEMMA BlankIsFine == Blank /\ CountTypes => Types /\ CallParts
<1> SUFFICES ASSUME Blank, CountTypes PROVE Types /\ CallParts
  OBVIOUS
<1> USE Constants DEF CountTypes
<1>1. CallTypes
  BY DEF Blank, CallTypes, AllPlaces, Outcomes
<1>2. FetchTypes
  BY DEF Blank, FetchTypes
<1>3. SearchTypes
  <2>1. 1 \in 1..Providers /\ <<>> \in Seq(Findings)
    OBVIOUS
  <2> QED
    BY <2>1 DEF Blank, SearchInit, SearchTypes
<1>4. LeetTypes
  BY DEF Blank, LeetTypes, PageReplies, NoReply, Problems
<1>5. CallParts
  <2> SUFFICES ASSUME NEW c \in Calls PROVE FetchPart(c) /\ SearchPart(c) /\ LeetPart(c)
    BY DEF CallParts
  <2>1. FetchPart(c)
    BY DEF Blank, FetchPart, Opened
  <2>2. SearchPart(c)
    BY DEF Blank, SearchInit, SearchPart, Honest
  <2>3. LeetPart(c)
    BY DEF Blank, LeetPart
  <2> QED
    BY <2>1, <2>2, <2>3
<1> QED
  BY <1>1, <1>2, <1>3, <1>4, <1>5 DEF Types

LEMMA ForgottenIsBlank == ASSUME IInv, TurnForgotten PROVE Blank' /\ UNCHANGED siteVars
<1>1. open' = [c \in Calls |-> 0]
  BY DEF TurnForgotten, FetchForgotten, Closed, Opened, IInv, CallParts, FetchPart, Types,
     FetchTypes
<1> QED
  BY <1>1 DEF TurnForgotten, CallsForgotten, FetchForgotten, SearchForgotten, DrawsForgotten,
     Blank, SearchInit


LEMMA IInvInit == Init => IInv
<1> SUFFICES ASSUME Init PROVE IInv
  OBVIOUS
<1>1. Blank
  BY DEF Init, CallsInit, FetchInit, LeetInit, Blank
<1>2. CountTypes
  BY Constants DEF Init, LeetInit, Totals, NoTotal, CountTypes
<1>3. StageTypes
  BY <1>1, TextsAssumption DEF Init, StageTypes, Blank
<1> QED
  BY <1>1, <1>2, <1>3, BlankIsFine DEF IInv

(* The skills are left alone. *)
LEMMA SkillsUntouched ==
    ASSUME IInv, UNCHANGED skillVars PROVE (Types /\ CallParts)' /\ UNCHANGED at
<1>1. /\ UNCHANGED <<at, outcome, requests, open, provider, failures, heard>>
      /\ UNCHANGED <<listed, totals, filter, draws, skip, reply, misses>>
  BY DEF skillVars, callVars, fetchVars, searchVars, siteVars, drawVars
<1>2. Types'
  BY <1>1 DEF IInv, Types, CallTypes, FetchTypes, SearchTypes, LeetTypes
<1>3. CallParts'
  <2> SUFFICES ASSUME NEW c \in Calls PROVE (FetchPart(c) /\ SearchPart(c) /\ LeetPart(c))'
    BY DEF CallParts
  <2>1. FetchPart(c) /\ SearchPart(c) /\ LeetPart(c)
    BY DEF IInv, CallParts
  <2>2. SearchPart(c)'
    BY <1>1, <2>1, SearchStandsStill
  <2> QED
    BY <1>1, <2>1, <2>2 DEF FetchPart, LeetPart
<1> QED
  BY <1>1, <1>2, <1>3

LEMMA StageStepKeeps ==
    ASSUME IInv, TurnBegins \/ Defer \/ ChatDispatched \/ PartSent \/ SendFails \/ AllSent
                 \/ Voiced
    PROVE  IInv'
<1>1. UNCHANGED skillVars
  BY DEF TurnBegins, Defer, ChatDispatched, PartSent, SendFails, AllSent, Voiced
<1>2. StageTypes'
  <2>1. UNCHANGED at
    BY <1>1, SkillsUntouched
  <2> QED
    BY <2>1, TextsAssumption DEF TurnBegins, Defer, ChatDispatched, PartSent, SendFails, AllSent,
       Voiced, Answers, IInv, StageTypes, answerVars
<1> QED
  BY <1>1, <1>2, SkillsUntouched DEF IInv

LEMMA TurnEndKeeps ==
    ASSUME IInv, CallsDone \/ Crashes \/ OutOfTime \/ ContainerLost
    PROVE  IInv'
<1> USE Constants
<1>1. Blank'
  <2>1. CASE TurnForgotten
    BY <2>1, ForgottenIsBlank
  <2>2. CASE ContainerLost
    BY <2>2 DEF ContainerLost, CallsForgotten, SearchForgotten, DrawsForgotten, Blank, SearchInit
  <2> QED
    BY <2>1, <2>2 DEF CallsDone, Crashes, OutOfTime
<1>2. CountTypes'
  <2> USE DEF CountTypes
  <2>1. listed \in [Difficulties -> 0..MaxList] /\ totals \in [Difficulties -> Totals]
    BY DEF IInv, Types, LeetTypes
  <2>2. CASE TurnForgotten
    BY <2>1, <2>2, ForgottenIsBlank DEF siteVars
  <2>3. CASE ContainerLost
    BY <2>1, <2>3 DEF ContainerLost, Totals, NoTotal
  <2> QED
    BY <2>2, <2>3 DEF CallsDone, Crashes, OutOfTime
<1>3. StageTypes'
  <2>1. \A c \in Calls : at'[c] = "idle"
    BY <1>1 DEF Blank
  <2> QED
    BY <2>1 DEF CallsDone, Crashes, OutOfTime, ContainerLost, Unreachable, Answers, IInv,
       StageTypes
<1> QED
  <2>1. (Types /\ CallParts)'
    BY <1>1, <1>2, BlankIsFine, PTL
  <2> QED
    BY <1>3, <2>1 DEF IInv

LEMMA CallMoveKeeps == ASSUME IInv, NEW c \in Calls, CallMoves(c) PROVE IInv'
<1>1. Types'
  BY MovesAreTyped DEF IInv
<1>2. CallParts'
  BY MoveKeepsFetches, MoveKeepsSearches, MoveKeepsDraws DEF IInv, CallParts
<1>3. UNCHANGED <<kind, stage, answerVars>>
  BY DEF CallMoves, CallBegins, CallSteps
<1>4. stage = "core"
  <2>1. CASE CallBegins(c)
    BY <2>1 DEF CallBegins
  <2>2. CASE CallSteps(c)
    <3>1. at[c] # "idle"
      BY <2>2 DEF CallSteps, FetchStep, HopAllowed, HopRefused, RequestFails,
         ResponseArrives, Redirected, NotAPage, PageBegins, BodyRead, BodyFails,
         DeadlinePasses, Extracted, FetchPlaces, SearchStep, ProviderFails,
         ProviderFindsNothing, ProviderFinds, ProviderRaises, LeetStep, PageServed,
         DailyArrives, TotalArrives, PageArrives, QueryFails, LeetPlaces, LookupStep,
         BooruAnswers, PlaceArrives, ForecastArrives, Evaluated
    <3> QED
      BY <3>1 DEF IInv, StageTypes
  <2> QED
    BY <2>1, <2>2 DEF CallMoves
<1>5. StageTypes'
  BY <1>3, <1>4 DEF IInv, StageTypes, answerVars
<1> QED
  BY <1>1, <1>2, <1>5 DEF IInv

LEMMA SiteChangeKeeps == ASSUME IInv, SiteChanges PROVE IInv'
<1> USE Constants
<1>1. /\ UNCHANGED <<kind, stage, answerVars, at, outcome, fetchVars, searchVars>>
      /\ UNCHANGED <<filter, draws, skip, reply>>
  BY DEF SiteChanges, ListChanges, TotalExpires, callVars, drawVars
<1>2. Types'
  <2>1. /\ listed' \in [Difficulties -> 0..MaxList] /\ totals' \in [Difficulties -> Totals]
        /\ misses' \in [Calls -> Nat]
    <3>1. ASSUME NEW d \in Difficulties, ListChanges(d)
          PROVE  /\ listed' \in [Difficulties -> 0..MaxList] /\ totals' = totals
                 /\ misses' \in [Calls -> Nat]
      BY <3>1 DEF ListChanges, IInv, Types, LeetTypes
    <3>2. ASSUME NEW d \in Difficulties, TotalExpires(d)
          PROVE  /\ listed' = listed /\ totals' \in [Difficulties -> Totals]
                 /\ misses' = misses
      BY <3>2 DEF TotalExpires, drawVars, Totals, IInv, Types, LeetTypes
    <3> QED
      BY <3>1, <3>2 DEF SiteChanges, IInv, Types, LeetTypes
  <2> QED
    BY <1>1, <2>1 DEF IInv, Types, CallTypes, FetchTypes, SearchTypes, LeetTypes, fetchVars,
       searchVars
<1>3. CallParts'
  <2> SUFFICES ASSUME NEW c \in Calls PROVE (FetchPart(c) /\ SearchPart(c) /\ LeetPart(c))'
    BY DEF CallParts
  <2>1. FetchPart(c)' /\ SearchPart(c)'
    <3>1. FetchPart(c) /\ SearchPart(c)
      BY DEF IInv, CallParts
    <3>2. SearchPart(c)'
      BY <1>1, <3>1, SearchStandsStill DEF searchVars
    <3> QED
      BY <1>1, <3>1, <3>2 DEF FetchPart, fetchVars
  <2>2. misses'[c] = 0 \/ (misses'[c] = misses[c] /\ listed'[filter[c]] = listed[filter[c]])
    BY DEF SiteChanges, ListChanges, TotalExpires, IInv, Types, LeetTypes, drawVars
  <2>3. LeetPart(c)'
    BY <1>1, <2>2 DEF IInv, CallParts, LeetPart
  <2> QED
    BY <2>1, <2>3
<1>4. StageTypes'
  BY <1>1 DEF IInv, StageTypes, answerVars
<1> QED
  BY <1>2, <1>3, <1>4 DEF IInv

LEMMA IInvNext == IInv /\ [Next]_vars => IInv'
<1> SUFFICES ASSUME IInv, [Next]_vars PROVE IInv'
  OBVIOUS
<1>1. CASE UNCHANGED vars
  <2>1. UNCHANGED skillVars /\ UNCHANGED <<kind, stage, answerVars>>
    BY <1>1 DEF vars
  <2>2. StageTypes'
    BY <2>1, SkillsUntouched DEF IInv, StageTypes, answerVars
  <2> QED
    BY <2>1, <2>2, SkillsUntouched DEF IInv
<1> QED
  BY <1>1, StageStepKeeps, TurnEndKeeps, CallMoveKeeps, SiteChangeKeeps
  DEF Next, TurnStep, CallMoves

LEMMA IInvInvariant == Spec => []IInv
BY IInvInit, IInvNext, PTL DEF Spec

(* What a call, a turn and the shared counts keep has its type, for any    *)
(* number of calls, redirects, providers, draws and problems.              *)
THEOREM TypeCorrect == Spec => []TypeOK
<1>1. IInv => TypeOK
  <2> SUFFICES ASSUME IInv PROVE TypeOK
    OBVIOUS
  <2>1. open \in [Calls -> Nat] /\ failures \in [Calls -> 0..Providers]
    <3>1. open \in [Calls -> Int] /\ failures \in [Calls -> Nat]
      BY DEF IInv, Types, FetchTypes, SearchTypes
    <3>2. ASSUME NEW c \in Calls PROVE open[c] \in Nat /\ failures[c] \in 0..Providers
      <4>1. open[c] \in {0, 1} /\ failures[c] <= Providers /\ failures[c] \in Nat
        BY <3>1 DEF IInv, CallParts, FetchPart, SearchPart, Opened
      <4> QED
        BY <4>1, Constants
    <3> QED
      BY <3>1, <3>2
  <2> QED
    BY <2>1 DEF IInv, Types, CallTypes, FetchTypes, SearchTypes, LeetTypes, StageTypes, TypeOK,
       AllPlaces, PageReplies
<1> QED
  BY <1>1, IInvInvariant, PTL

(* No fetch sends more requests than its redirects allow or leaves a       *)
(* response open, however its call, its turn or its container ends.        *)
THEOREM FetchesAreBounded == Spec => []FetchIsBounded
<1>1. IInv => FetchIsBounded
  BY DEF IInv, CallParts, FetchPart, FetchIsBounded, Opened
<1> QED
  BY <1>1, IInvInvariant, PTL

(* A search tells failures and empty results apart, for any number of      *)
(* providers.                                                              *)
THEOREM SearchesAreHonest == Spec => []SearchIsHonest
<1>1. IInv => SearchIsHonest
  BY DEF IInv, CallParts, SearchPart, Honest, SearchIsHonest
<1> QED
  BY <1>1, IInvInvariant, PTL

(* A call draws beyond the end of a list at most once while the list stays *)
(* as it is, for any number of calls that share the count.                 *)
THEOREM CountsCorrectThemselves == Spec => []StaleCountCorrectsItself
<1>1. IInv => StaleCountCorrectsItself
  BY DEF IInv, CallParts, LeetPart, StaleCountCorrectsItself
<1> QED
  BY <1>1, IInvInvariant, PTL

---------------------------------------------------------------------------
(* Induction: a set of numbers that has 0, and with a number below N the   *)
(* next one, has all numbers up to N.                                      *)
LEMMA AllNumbers ==
    ASSUME NEW N \in Nat, NEW S, 0 \in S, \A n \in S : n \in 0..N - 1 => n + 1 \in S
    PROVE  0..N \subseteq S
<1> DEFINE T == (0..N) \ S
<1> SUFFICES ASSUME T # {} PROVE FALSE
  OBVIOUS
<1>1. \A m, n \in Nat : <<n, m>> \in OpToRel(<, Nat) <=> n < m
  BY DEF OpToRel
<1>2. PICK Less : /\ IsWellFoundedOn(Less, Nat)
                  /\ \A m, n \in Nat : <<n, m>> \in Less <=> n < m
  BY <1>1, NatLessThanWellFounded
<1>3. PICK m \in T : \A n \in T : <<n, m>> \notin Less
  <2> T \subseteq Nat
    OBVIOUS
  <2> HIDE DEF T
  <2> QED
    BY <1>2, WFMin
<1>4. m # 0 /\ m \in 0..N /\ m \notin S
  OBVIOUS
<1>5. m - 1 \in 0..N - 1 /\ <<m - 1, m>> \in Less
  BY <1>2, <1>4
<1>6. m - 1 \in S
  BY <1>3, <1>5
<1>7. (m - 1) + 1 \in S
  BY <1>5, <1>6
<1> QED
  BY <1>4, <1>7

(* A value for each number up to N, each made from the one before. *)
Iterates(f, N, first, step) ==
    f[0] = first /\ \A n \in 1..N : f[n] = step[n][f[n - 1]]

LEMMA Recursion ==
    ASSUME NEW N \in Nat, NEW V, NEW first \in V, NEW step \in [1..N -> [V -> V]]
    PROVE  \E f \in [0..N -> V] : Iterates(f, N, first, step)
<1> DEFINE Upto(m) == \E f \in [0..m -> V] :
                          f[0] = first /\ \A n \in 1..m : f[n] = step[n][f[n - 1]]
           S == {m \in 0..N : Upto(m)}
<1>1. 0 \in S
  <2> DEFINE f == [i \in 0..0 |-> first]
  <2>1. f \in [0..0 -> V] /\ f[0] = first
    OBVIOUS
  <2>2. \A n \in 1..0 : f[n] = step[n][f[n - 1]]
    OBVIOUS
  <2> HIDE DEF f
  <2> QED
    BY <2>1, <2>2
<1>2. ASSUME NEW m \in S, m \in 0..N - 1 PROVE m + 1 \in S
  <2>1. PICK f \in [0..m -> V] : f[0] = first /\ \A n \in 1..m : f[n] = step[n][f[n - 1]]
    OBVIOUS
  <2> DEFINE g == [n \in 0..m + 1 |-> IF n = m + 1 THEN step[m + 1][f[m]] ELSE f[n]]
  <2>2. step[m + 1][f[m]] \in V
    BY <1>2, <2>1
  <2>3. g \in [0..m + 1 -> V]
    BY <1>2, <2>1, <2>2
  <2>4. g[0] = first
    BY <1>2, <2>1
  <2>5. ASSUME NEW n \in 1..m + 1 PROVE g[n] = step[n][g[n - 1]]
    BY <1>2, <2>1, <2>5
  <2> HIDE DEF g
  <2>6. Upto(m + 1)
    BY <2>3, <2>4, <2>5
  <2> HIDE DEF Upto
  <2> QED
    BY <1>2, <2>6
<1>3. N \in S
  <2> HIDE DEF S
  <2>1. 0..N \subseteq S
    BY <1>1, <1>2, AllNumbers
  <2> QED
    BY <2>1
<1> QED
  BY <1>3 DEF Iterates

---------------------------------------------------------------------------
(* Pieces of a text *)

Text == Seq(Characters)

LEMMA Piece ==
    ASSUME NEW t \in Text, NEW a \in 0..Len(t), NEW b \in a..Len(t)
    PROVE  /\ SubSeq(t, a + 1, b) \in Text
           /\ Len(SubSeq(t, a + 1, b)) = b - a
           /\ (SubSeq(t, a + 1, b) = <<>>) = (a = b)
<1>1. \A i \in a + 1..b : t[i] \in Characters
  BY ElementOfSeq DEF Text
<1>2. SubSeq(t, a + 1, b) \in Seq(Characters) /\ Len(SubSeq(t, a + 1, b)) = b - a
  BY <1>1, SubSeqProperties DEF Text
<1> QED
  BY <1>2, EmptySeq DEF Text

LEMMA Joined ==
    ASSUME NEW t \in Text, NEW a \in 0..Len(t), NEW b \in a..Len(t), NEW c \in b..Len(t)
    PROVE  SubSeq(t, a + 1, b) \o SubSeq(t, b + 1, c) = SubSeq(t, a + 1, c)
BY ConcatAdjacentSubSeq DEF Text

LEMMA PieceOfPiece ==
    ASSUME NEW t \in Text, NEW a \in 0..Len(t), NEW b \in a..Len(t),
           NEW m \in 0..b - a, NEW n \in m..b - a
    PROVE  SubSeq(SubSeq(t, a + 1, b), m + 1, n) = SubSeq(t, a + m + 1, a + n)
<1>1. CASE m = n
  BY <1>1, SubSeqEmpty
<1>2. CASE m < n
  <2>1. /\ a + 1 \in 1..Len(t) /\ b \in 1..Len(t)
        /\ m + 1 \in 1..b - (a + 1) + 1 /\ n \in 1..b - (a + 1) + 1
    BY <1>2
  <2>2. SubSeq(SubSeq(t, a + 1, b), m + 1, n) = SubSeq(t, a + 1 + (m + 1) - 1, a + 1 + n - 1)
    BY <2>1, SubSeqOfSubSeq DEF Text
  <2>3. a + 1 + (m + 1) - 1 = a + m + 1 /\ a + 1 + n - 1 = a + n
    OBVIOUS
  <2> QED
    BY <2>2, <2>3
<1> QED
  BY <1>1, <1>2

---------------------------------------------------------------------------
(* Lines *)

StartsLine(t, n, i) ==
    /\ i \in 1..n
    /\ i = 1 \/ t[i - 1] = Newline
    /\ \A j \in i..n - 1 : t[j] # Newline

LEMMA OneStart ==
    ASSUME NEW t, NEW n \in Nat, NEW i, NEW j, StartsLine(t, n, i), StartsLine(t, n, j)
    PROVE  i = j
<1>1. ASSUME NEW k, NEW l, StartsLine(t, n, k), StartsLine(t, n, l) PROVE ~(k < l)
  <2> SUFFICES ASSUME k < l PROVE FALSE
    OBVIOUS
  <2>1. k \in 1..n /\ l \in 1..n /\ l - 1 \in k..n - 1 /\ l # 1
    BY <1>1 DEF StartsLine
  <2> QED
    BY <1>1, <2>1 DEF StartsLine
<1>2. i \in Int /\ j \in Int
  BY DEF StartsLine
<1> QED
  BY <1>1, <1>2

LEMMA StartExists ==
    ASSUME NEW t \in Text, NEW n \in 1..Len(t)
    PROVE  StartsLine(t, n, LineStart(t, n))
<1> DEFINE S == {m \in 0..Len(t) : m # 0 => \E i \in 1..m : StartsLine(t, m, i)}
<1>1. 0 \in S
  BY LenProperties DEF Text
<1>2. ASSUME NEW m \in S, m \in 0..Len(t) - 1 PROVE m + 1 \in S
  <2> m + 1 \in 1..Len(t) /\ (m + 1) - 1 = m
    BY <1>2
  <2>1. CASE m = 0 \/ t[m] = Newline
    <3>1. StartsLine(t, m + 1, m + 1)
      BY <1>2, <2>1 DEF StartsLine
    <3> QED
      BY <3>1
  <2>2. CASE m # 0 /\ t[m] # Newline
    <3>1. PICK i \in 1..m : StartsLine(t, m, i)
      BY <1>2, <2>2
    <3>2. StartsLine(t, m + 1, i)
      <4>1. ASSUME NEW j \in i..m PROVE t[j] # Newline
        <5>1. j = m \/ j \in i..m - 1
          BY <1>2
        <5> QED
          BY <2>2, <3>1, <5>1 DEF StartsLine
      <4> QED
        BY <1>2, <3>1, <4>1 DEF StartsLine
    <3> QED
      BY <1>2, <3>2
  <2> QED
    BY <2>1, <2>2
<1>3. n \in S
  <2>1. Len(t) \in Nat
    BY LenProperties DEF Text
  <2>2. 0..Len(t) \subseteq S
    <3> HIDE DEF S
    <3> QED
      BY <1>1, <1>2, <2>1, AllNumbers
  <2> QED
    BY <2>2
<1>4. \E i \in 1..n : StartsLine(t, n, i)
  BY <1>3
<1>5. StartsLine(t, n, CHOOSE i \in 1..n : StartsLine(t, n, i))
  BY <1>4
<1>6. LineStart(t, n) = CHOOSE i \in 1..n : StartsLine(t, n, i)
  <2>1. \A i \in 1..n : StartsLine(t, n, i) <=> /\ i = 1 \/ t[i - 1] = Newline
                                               /\ \A j \in i..n - 1 : t[j] # Newline
    BY DEF StartsLine
  <2> QED
    BY <2>1 DEF LineStart
<1> QED
  BY <1>5, <1>6

LEMMA NextStart ==
    ASSUME NEW t \in Text, NEW n \in 1..Len(t) - 1
    PROVE  LineStart(t, n + 1) = IF t[n] = Newline THEN n + 1 ELSE LineStart(t, n)
<1> DEFINE i == LineStart(t, n)
<1>1. n \in 1..Len(t) /\ n + 1 \in 1..Len(t) /\ n + 1 \in Nat /\ (n + 1) - 1 = n
  BY LenProperties DEF Text
<1>2. StartsLine(t, n, i) /\ StartsLine(t, n + 1, LineStart(t, n + 1))
  BY <1>1, StartExists
<1>3. CASE t[n] = Newline
  <2>1. StartsLine(t, n + 1, n + 1)
    BY <1>1, <1>3 DEF StartsLine
  <2> QED
    BY <1>1, <1>2, <1>3, <2>1, OneStart
<1>4. CASE t[n] # Newline
  <2>1. StartsLine(t, n + 1, i)
    <3> HIDE DEF i
    <3>1. ASSUME NEW j \in i..n PROVE t[j] # Newline
      <4>1. j = n \/ j \in i..n - 1
        BY <1>2 DEF StartsLine
      <4> QED
        BY <1>2, <1>4, <4>1 DEF StartsLine
    <3> QED
      BY <1>1, <1>2, <3>1 DEF StartsLine
  <2> QED
    BY <1>1, <1>2, <1>4, <2>1, OneStart
<1> QED
  BY <1>3, <1>4

---------------------------------------------------------------------------
(* A text cut into chunks *)

(* The text from a to b can be a chunk. *)
IsChunk(t, chunk, a, b) ==
    /\ a < b /\ b <= a + Limit /\ b <= Len(t)
    /\ chunk = SubSeq(t, a + 1, b)
    /\ b < Len(t) => PartsWell(t, b)

(* The k-th chunk is the text from end[k - 1] to end[k]. *)
IsCut(t, chunks, end) ==
    /\ end \in [0..Len(chunks) -> 0..Len(t)]
    /\ end[0] = 0
    /\ \A k \in 1..Len(chunks) : IsChunk(t, chunks[k], end[k - 1], end[k])

(* The chunks are the first p characters of the text. *)
CutsTo(t, chunks, p) ==
    /\ chunks \in Seq(Text)
    /\ \E end : IsCut(t, chunks, end) /\ end[Len(chunks)] = p

LEMMA NoChunks == ASSUME NEW t \in Text PROVE CutsTo(t, <<>>, 0)
<1> DEFINE end == [k \in 0..0 |-> 0]
<1>1. Len(t) \in Nat /\ Len(<<>>) = 0 /\ <<>> \in Seq(Text)
  BY LenProperties DEF Text
<1>2. end \in [0..0 -> 0..Len(t)] /\ end[0] = 0
  BY <1>1
<1> HIDE DEF end
<1>3. IsCut(t, <<>>, end)
  BY <1>1, <1>2 DEF IsCut
<1> QED
  BY <1>1, <1>2, <1>3 DEF CutsTo

(* One chunk more. *)
LEMMA ChunkAdded ==
    ASSUME NEW t \in Text, NEW chunks, NEW a, CutsTo(t, chunks, a),
           NEW chunk, NEW b \in Nat, IsChunk(t, chunk, a, b)
    PROVE  CutsTo(t, Append(chunks, chunk), b)
<1> DEFINE m == Len(chunks)
           more == Append(chunks, chunk)
<1>1. PICK end : IsCut(t, chunks, end) /\ end[m] = a
  BY DEF CutsTo
<1>2. Len(t) \in Nat /\ m \in Nat /\ chunks \in Seq(Text) /\ a \in 0..Len(t)
  <2>1. Len(t) \in Nat /\ m \in Nat /\ chunks \in Seq(Text)
    BY LenProperties DEF Text, CutsTo
  <2> QED
    BY <1>1, <2>1 DEF IsCut
<1>3. chunk \in Text
  BY <1>2, Piece DEF IsChunk
<1>4. /\ more \in Seq(Text) /\ Len(more) = m + 1 /\ more[m + 1] = chunk
      /\ \A k \in 1..m : more[k] = chunks[k]
  BY <1>2, <1>3, AppendProperties
<1> DEFINE new == [k \in 0..m + 1 |-> IF k = m + 1 THEN b ELSE end[k]]
<1>5. new \in [0..m + 1 -> 0..Len(t)] /\ new[m + 1] = b /\ new[0] = 0
  <2>1. b \in 0..Len(t)
    BY <1>2 DEF IsChunk
  <2> QED
    BY <1>1, <1>2, <2>1 DEF IsCut
<1>6. ASSUME NEW k \in 1..m + 1 PROVE IsChunk(t, more[k], new[k - 1], new[k])
  <2>1. CASE k = m + 1
    <3>1. new[k - 1] = a /\ new[k] = b /\ more[k] = chunk
      BY <1>1, <1>2, <1>4, <2>1
    <3> QED
      BY <3>1
  <2>2. CASE k # m + 1
    <3>1. k \in 1..m
      BY <1>2, <2>2
    <3>2. new[k - 1] = end[k - 1] /\ new[k] = end[k] /\ more[k] = chunks[k]
      BY <1>2, <1>4, <3>1
    <3>3. IsChunk(t, chunks[k], end[k - 1], end[k])
      BY <1>1, <3>1 DEF IsCut
    <3> QED
      BY <3>2, <3>3
  <2> QED
    BY <2>1, <2>2
<1> HIDE DEF new, more, m
<1>7. IsCut(t, more, new)
  BY <1>4, <1>5, <1>6 DEF IsCut
<1> QED
  BY <1>4, <1>5, <1>7 DEF CutsTo, more

---------------------------------------------------------------------------
(* The whole chunks of a line *)

LEMMA Quotients ==
    ASSUME NEW n \in Nat, NEW d \in Nat \ {0}
    PROVE  /\ n \div d \in Nat
           /\ (n \div d) * d <= n /\ n < (n \div d) * d + d
OBVIOUS

LEMMA CutCount ==
    ASSUME NEW line \in Text
    PROVE  /\ Cuts(line) \in Nat
           /\ Cuts(line) * Limit <= Len(line)
           /\ Len(line) <= Cuts(line) * Limit + Limit
           /\ Cuts(line) > 0 => Cuts(line) * Limit < Len(line) /\ Len(line) > Limit
           /\ Cuts(line) = 0 => Len(line) <= Limit
<1> USE LimitAssumption
<1>1. CASE line = <<>>
  BY <1>1 DEF Cuts
<1>2. CASE line # <<>>
  <2> DEFINE n == Len(line) - 1
             q == n \div Limit
  <2>1. n \in Nat /\ Len(line) = n + 1 /\ Cuts(line) = q
    BY <1>2, EmptySeq DEF Cuts, Text
  <2>2. q \in Nat /\ q * Limit <= n /\ n < q * Limit + Limit
    <3> HIDE DEF n
    <3> QED
      BY <2>1, Quotients
  <2> HIDE DEF n, q
  <2>3. q > 0 => Limit <= q * Limit
    BY <2>2
  <2>4. q = 0 => q * Limit = 0
    BY <2>2
  <2>5. q * Limit \in Nat
    BY <2>2
  <2> QED
    BY <2>1, <2>2, <2>3, <2>4, <2>5
<1> QED
  BY <1>1, <1>2

LEMMA WholeTyped ==
    ASSUME NEW line \in Text
    PROVE  /\ WholeChunks(line) \in Seq(Text) /\ Len(WholeChunks(line)) = Cuts(line)
           /\ \A k \in 1..Cuts(line) :
                 /\ k * Limit <= Len(line) /\ (k - 1) * Limit \in Nat /\ k * Limit \in Nat
                 /\ k * Limit = (k - 1) * Limit + Limit
                 /\ WholeChunks(line)[k] = SubSeq(line, (k - 1) * Limit + 1, k * Limit)
<1> USE LimitAssumption
<1> DEFINE q == Cuts(line)
<1>1. q \in Nat /\ q * Limit <= Len(line) /\ Len(line) \in Nat
  BY CutCount, LenProperties DEF Text
<1>2. ASSUME NEW k \in 1..q
      PROVE  /\ k * Limit <= Len(line) /\ (k - 1) * Limit \in Nat /\ k * Limit \in Nat
             /\ k * Limit = (k - 1) * Limit + Limit
  <2> HIDE DEF q
  <2>1. k \in Nat /\ k - 1 \in Nat /\ k <= q
    BY <1>1, <1>2
  <2>2. \A x, y, z \in Nat : x <= y => x * z <= y * z
    OBVIOUS
  <2>3. k * Limit <= q * Limit
    BY <1>1, <2>1, <2>2
  <2>4. k * Limit \in Nat /\ q * Limit \in Nat /\ (k - 1) * Limit \in Nat
    BY <1>1, <2>1
  <2>5. k * Limit = (k - 1) * Limit + Limit
    BY <2>1
  <2> QED
    BY <1>1, <2>3, <2>4, <2>5
<1>3. ASSUME NEW k \in 1..q PROVE SubSeq(line, (k - 1) * Limit + 1, k * Limit) \in Text
  <2>1. (k - 1) * Limit \in 0..Len(line) /\ k * Limit \in (k - 1) * Limit..Len(line)
    BY <1>1, <1>2
  <2> QED
    BY <2>1, Piece
<1>4. WholeChunks(line) = [i \in 1..q |-> SubSeq(line, (i - 1) * Limit + 1, i * Limit)]
  BY DEF WholeChunks
<1>5. WholeChunks(line) \in Seq(Text) /\ Len(WholeChunks(line)) = q
  <2>1. WholeChunks(line) \in [1..q -> Text]
    BY <1>3, <1>4
  <2> HIDE DEF q
  <2> QED
    BY <1>1, <2>1
<1> QED
  BY <1>2, <1>4, <1>5

LEMMA OneMore ==
    ASSUME NEW S, NEW s \in Seq(S), NEW u \in Seq(S), NEW e \in S
    PROVE  s \o (u \o <<e>>) = Append(s \o u, e)
<1>1. <<e>> \in Seq(S) /\ s \o u \in Seq(S)
  BY ConcatProperties
<1>2. s \o (u \o <<e>>) = (s \o u) \o <<e>>
  BY <1>1, ConcatAssociative
<1> QED
  BY <1>1, <1>2, AppendIsConcat

(* The whole chunks of a line, after what precedes it. *)
LEMMA WholeAdded ==
    ASSUME NEW t \in Text, NEW n \in 1..Len(t), NEW chunks, NEW a \in Nat,
           LineStart(t, n) = a + 1, CutsTo(t, chunks, a), Cuts(LineTo(t, n)) > 0
    PROVE  /\ CutsTo(t, chunks \o WholeChunks(LineTo(t, n)), a + Cuts(LineTo(t, n)) * Limit)
           /\ a + Cuts(LineTo(t, n)) * Limit < n
<1> USE LimitAssumption
<1> DEFINE line == LineTo(t, n)
           q == Cuts(line)
           W == WholeChunks(line)
           S == {j \in 0..q : CutsTo(t, chunks \o SubSeq(W, 1, j), a + j * Limit)}
<1>1. /\ Len(t) \in Nat /\ a \in 0..n - 1 /\ LineStart(t, n) = a + 1
      /\ \A j \in a + 1..n - 1 : t[j] # Newline
  <2>1. StartsLine(t, n, LineStart(t, n)) /\ Len(t) \in Nat
    BY StartExists, LenProperties DEF Text
  <2> QED
    BY <2>1 DEF StartsLine
<1>2. line = SubSeq(t, a + 1, n) /\ line \in Text /\ Len(line) = n - a
  <2>1. line = SubSeq(t, a + 1, n)
    <3>1. LineStart(t, n) = a + 1
      BY <1>1
    <3> QED
      BY <3>1 DEF LineTo
  <2>2. a \in 0..Len(t) /\ n \in a..Len(t)
    BY <1>1
  <2> HIDE DEF line
  <2> QED
    BY <2>1, <2>2, Piece
<1>3. q \in Nat /\ q > 0 /\ q * Limit < n - a /\ n - a > Limit
  <2> HIDE DEF line
  <2> QED
    BY <1>2, CutCount DEF line
<1>4. /\ W \in Seq(Text) /\ Len(W) = q
      /\ \A k \in 1..q :
            /\ k * Limit <= Len(line) /\ (k - 1) * Limit \in Nat /\ k * Limit \in Nat
            /\ k * Limit = (k - 1) * Limit + Limit
            /\ W[k] = SubSeq(line, (k - 1) * Limit + 1, k * Limit)
  <2> HIDE DEF line
  <2> QED
    BY <1>2, WholeTyped
<1> HIDE DEF line, q, W
<1>5. chunks \in Seq(Text)
  BY DEF CutsTo
<1>6. 0 \in S
  <2>1. SubSeq(W, 1, 0) = <<>> /\ chunks \o <<>> = chunks /\ a + 0 * Limit = a
    BY <1>5, SubSeqEmpty, ConcatEmptySeq
  <2>2. CutsTo(t, chunks \o SubSeq(W, 1, 0), a + 0 * Limit)
    BY <2>1
  <2> QED
    BY <1>3, <2>2
<1>7. ASSUME NEW j \in S, j \in 0..q - 1 PROVE j + 1 \in S
  <2> DEFINE k == j + 1
             from == a + j * Limit
             to == a + k * Limit
  <2>1. k \in 1..q /\ k - 1 = j
    BY <1>3, <1>7
  <2>2. /\ k * Limit <= n - a /\ j * Limit \in Nat /\ k * Limit \in Nat
        /\ k * Limit = j * Limit + Limit
        /\ W[k] = SubSeq(line, j * Limit + 1, k * Limit)
    BY <1>2, <1>4, <2>1
  <2>3. k * Limit <= q * Limit
    <3>1. \A x, y, z \in Nat : x <= y => x * z <= y * z
      OBVIOUS
    <3> QED
      BY <1>3, <2>1, <3>1
  <2>4. W[k] = SubSeq(t, from + 1, to)
    <3>1. a \in 0..Len(t) /\ n \in a..Len(t) /\ j * Limit \in 0..n - a /\ k * Limit \in j * Limit..n - a
      BY <1>1, <2>2
    <3>2. SubSeq(SubSeq(t, a + 1, n), j * Limit + 1, k * Limit)
            = SubSeq(t, a + j * Limit + 1, a + k * Limit)
      <4> DEFINE x == j * Limit
                 y == k * Limit
      <4> HIDE DEF k, x, y
      <4>1. x \in 0..n - a /\ y \in x..n - a
        BY <3>1 DEF x, y
      <4>2. SubSeq(SubSeq(t, a + 1, n), x + 1, y) = SubSeq(t, a + x + 1, a + y)
        BY <3>1, <4>1, PieceOfPiece
      <4> QED
        BY <4>2 DEF x, y
    <3> QED
      BY <1>2, <2>2, <3>2
  <2>5. to \in Nat /\ from < to /\ to <= from + Limit /\ to < n /\ a + 1 <= to
    <3> DEFINE x == j * Limit
               y == k * Limit
               z == q * Limit
    <3>1. x \in Nat /\ y \in Nat /\ z \in Nat
      BY <1>3, <2>2
    <3>2. y = x + Limit /\ y <= z /\ z < n - a
      BY <1>3, <2>2, <2>3
    <3> HIDE DEF x, y, z
    <3>3. a + y \in Nat /\ a + x < a + y /\ a + y <= a + x + Limit /\ a + y < n /\ a + 1 <= a + y
      BY <1>1, <3>1, <3>2
    <3> QED
      BY <3>3 DEF x, y
  <2>6. PartsWell(t, to)
    <3> HIDE DEF to
    <3>1. a + 1 \in 1..to /\ n \in to + 1..Len(t) /\ n - (a + 1) >= Limit
      BY <1>1, <1>3, <2>5
    <3> QED
      BY <1>1, <3>1 DEF PartsWell
  <2>7. IsChunk(t, W[k], from, to)
    <3> HIDE DEF from, to, k
    <3> QED
      BY <1>1, <2>4, <2>5, <2>6 DEF IsChunk
  <2>8. chunks \o SubSeq(W, 1, k) = Append(chunks \o SubSeq(W, 1, j), W[k])
    <3>1. SubSeq(W, 1, k) = SubSeq(W, 1, j) \o <<W[k]>>
      BY <1>4, <2>1, SubSeqRecursiveSecond
    <3>2. W[k] \in Text /\ SubSeq(W, 1, j) \in Seq(Text)
      BY <1>4, <2>1, ElementOfSeq, SubSeqProperties
    <3> QED
      BY <1>5, <3>1, <3>2, OneMore
  <2>9. CutsTo(t, chunks \o SubSeq(W, 1, j), from)
    OBVIOUS
  <2>10. CutsTo(t, chunks \o SubSeq(W, 1, k), to)
    <3> HIDE DEF S, k, from, to
    <3> QED
      BY <2>5, <2>7, <2>8, <2>9, ChunkAdded
  <2> QED
    BY <2>1, <2>10
<1>8. q \in S
  <2> HIDE DEF S
  <2>1. 0..q \subseteq S
    BY <1>3, <1>6, <1>7, AllNumbers
  <2> QED
    BY <1>3, <2>1
<1>9. SubSeq(W, 1, q) = W
  BY <1>4, SubSeqFull
<1>10. q * Limit \in Nat
  BY <1>3
<1>11. CutsTo(t, chunks \o W, a + q * Limit)
  BY <1>8, <1>9
<1>12. a + q * Limit < n
  <2> DEFINE x == q * Limit
  <2> HIDE DEF x
  <2>1. x \in Nat /\ x < n - a
    BY <1>3, <1>10 DEF x
  <2>2. a + x < n
    BY <1>1, <2>1
  <2> QED
    BY <2>2 DEF x
<1> QED
  BY <1>11, <1>12 DEF line, q, W

---------------------------------------------------------------------------
(* Lines that are collected *)

(* Chunks and what is collected after them are the first p characters. *)
CollectsTo(t, chunks, current, p) ==
    /\ p \in 0..Len(t)
    /\ \E a \in 0..p : /\ CutsTo(t, chunks, a)
                       /\ current = SubSeq(t, a + 1, p) /\ p - a <= Limit

LEMMA PutAdded ==
    ASSUME NEW t \in Text, NEW chunks, NEW current, NEW p,
           CollectsTo(t, chunks, current, p), p = 0 \/ p = Len(t) \/ PartsWell(t, p)
    PROVE  CutsTo(t, Put(chunks, current), p)
<1>1. PICK a \in 0..p : CutsTo(t, chunks, a) /\ current = SubSeq(t, a + 1, p) /\ p - a <= Limit
  BY DEF CollectsTo
<1>2. Len(t) \in Nat /\ p \in 0..Len(t) /\ a \in 0..Len(t) /\ p \in a..Len(t)
  BY LenProperties DEF CollectsTo, Text
<1>3. (current = <<>>) = (a = p)
  BY <1>1, <1>2, Piece
<1>4. CASE a = p
  BY <1>1, <1>3, <1>4 DEF Put
<1>5. CASE a # p
  <2>1. IsChunk(t, current, a, p)
    BY <1>1, <1>2, <1>5, LimitAssumption DEF IsChunk
  <2> QED
    BY <1>1, <1>2, <1>3, <1>5, <2>1, ChunkAdded DEF Put
<1> QED
  BY <1>4, <1>5

(* A line more, whether it joins what is collected, does not fit or is too *)
(* long by itself.                                                         *)
LEMMA LineAdded ==
    ASSUME NEW t \in Text, NEW n \in 1..Len(t), NEW chunks, NEW current, NEW p \in Nat,
           LineStart(t, n) = p + 1, CollectsTo(t, chunks, current, p),
           NEW new,
           new = AddLine([chunks |-> chunks, current |-> current], LineTo(t, n))
    PROVE  CollectsTo(t, new.chunks, new.current, n)
<1> USE LimitAssumption
<1> DEFINE line == LineTo(t, n)
           q == Cuts(line)
           c == q * Limit
<1>1. /\ Len(t) \in Nat /\ p \in 0..n - 1 /\ n \in 0..Len(t) /\ LineStart(t, n) = p + 1
      /\ p = 0 \/ PartsWell(t, p)
  <2>1. StartsLine(t, n, LineStart(t, n)) /\ Len(t) \in Nat
    BY StartExists, LenProperties DEF Text
  <2> QED
    BY <2>1 DEF StartsLine, PartsWell
<1>2. line = SubSeq(t, p + 1, n) /\ line \in Text /\ Len(line) = n - p
  <2>1. line = SubSeq(t, p + 1, n)
    <3>1. LineStart(t, n) = p + 1
      BY <1>1
    <3> QED
      BY <3>1 DEF LineTo
  <2>2. p \in 0..Len(t) /\ n \in p..Len(t)
    BY <1>1
  <2> HIDE DEF line
  <2> QED
    BY <2>1, <2>2, Piece
<1>3. CutsTo(t, Put(chunks, current), p)
  BY <1>1, PutAdded
<1>4. PICK a \in 0..p : /\ CutsTo(t, chunks, a)
                        /\ current = SubSeq(t, a + 1, p) /\ p - a <= Limit
  BY DEF CollectsTo
<1>5. Len(current) = p - a /\ (current = <<>>) = (a = p)
  <2>1. a \in 0..Len(t) /\ p \in a..Len(t)
    BY <1>1, <1>4
  <2> QED
    BY <1>4, <2>1, Piece
<1>6. /\ q \in Nat /\ n - p <= c + Limit /\ c \in Nat
      /\ q = 0 => n - p <= Limit
  <2>1. q \in Nat /\ n - p <= q * Limit + Limit /\ (q = 0 => n - p <= Limit)
    <3> HIDE DEF line
    <3> QED
      BY <1>2, CutCount
  <2> HIDE DEF q
  <2> QED
    BY <2>1
<1>7. CASE q > 0
  <2>1. /\ new.chunks = Put(chunks, current) \o WholeChunks(line)
        /\ new.current = Rest(line)
    BY <1>7 DEF AddLine
  <2>2. CutsTo(t, new.chunks, p + c) /\ p + c < n
    <3>1. /\ CutsTo(t, Put(chunks, current) \o WholeChunks(LineTo(t, n)),
                    p + Cuts(LineTo(t, n)) * Limit)
          /\ p + Cuts(LineTo(t, n)) * Limit < n
      BY <1>1, <1>3, <1>7, WholeAdded
    <3> QED
      BY <2>1, <3>1
  <2>3. Rest(line) = SubSeq(t, p + c + 1, n)
    <3>1. Rest(line) = SubSeq(SubSeq(t, p + 1, n), c + 1, n - p)
      BY <1>2 DEF Rest
    <3> HIDE DEF c
    <3>2. p \in 0..Len(t) /\ n \in p..Len(t) /\ c \in 0..n - p /\ n - p \in c..n - p
      BY <1>1, <1>6, <2>2
    <3>3. SubSeq(SubSeq(t, p + 1, n), c + 1, n - p) = SubSeq(t, p + c + 1, p + (n - p))
      BY <3>2, PieceOfPiece
    <3>4. p + (n - p) = n
      BY <1>1
    <3> QED
      BY <3>1, <3>3, <3>4
  <2> HIDE DEF c, q, line
  <2>4. p + c \in 0..n /\ n - (p + c) <= Limit
    BY <1>1, <1>6, <2>2
  <2> QED
    BY <1>1, <2>1, <2>2, <2>3, <2>4 DEF CollectsTo
<1>8. CASE q = 0 /\ Len(current) + Len(line) > Limit
  <2>1. new.chunks = Append(chunks, current) /\ new.current = line
    BY <1>8 DEF AddLine
  <2> HIDE DEF c, q, line
  <2>2. a # p
    BY <1>1, <1>2, <1>4, <1>5, <1>6, <1>8
  <2>3. CutsTo(t, new.chunks, p)
    BY <1>3, <1>5, <2>1, <2>2 DEF Put
  <2>4. p \in 0..n /\ n - p <= Limit
    BY <1>1, <1>6, <1>8
  <2>5. new.current = SubSeq(t, p + 1, n)
    BY <1>2, <2>1
  <2> QED
    BY <1>1, <2>3, <2>4, <2>5 DEF CollectsTo
<1>9. CASE q = 0 /\ ~(Len(current) + Len(line) > Limit)
  <2>1. new.chunks = chunks /\ new.current = current \o line
    BY <1>9 DEF AddLine
  <2> HIDE DEF c, q, line
  <2>2. a \in 0..Len(t) /\ p \in a..Len(t) /\ n \in p..Len(t)
    BY <1>1, <1>4
  <2>3. new.current = SubSeq(t, a + 1, n)
    BY <1>2, <1>4, <2>1, <2>2, Joined
  <2>4. a \in 0..n /\ n - a <= Limit
    BY <1>1, <1>2, <1>4, <1>5, <1>9
  <2> QED
    BY <1>1, <1>4, <2>1, <2>3, <2>4 DEF CollectsTo
<1> QED
  BY <1>6, <1>7, <1>8, <1>9

Accumulated == [chunks : Seq(Text), current : Text]

LEMMA LineTyped ==
    ASSUME NEW t \in Text, NEW n \in 1..Len(t), NEW acc \in Accumulated
    PROVE  AddLine(acc, LineTo(t, n)) \in Accumulated
<1> DEFINE line == LineTo(t, n)
           q == Cuts(line)
<1>1. line \in Text /\ Len(line) \in Nat
  <2>1. StartsLine(t, n, LineStart(t, n)) /\ Len(t) \in Nat
    BY StartExists, LenProperties DEF Text
  <2>2. PICK a \in Nat : LineStart(t, n) = a + 1 /\ a \in 0..Len(t) /\ n \in a..Len(t)
    <3> DEFINE a == LineStart(t, n) - 1
    <3>1. a \in Nat /\ LineStart(t, n) = a + 1 /\ a \in 0..Len(t) /\ n \in a..Len(t)
      BY <2>1 DEF StartsLine
    <3> QED
      BY <3>1
  <2>3. line = SubSeq(t, a + 1, n)
    BY <2>2 DEF LineTo
  <2>4. line \in Text
    BY <2>2, <2>3, Piece
  <2> QED
    BY <2>4, LenProperties DEF Text
<1>2. WholeChunks(line) \in Seq(Text) /\ Rest(line) \in Text
  <2> HIDE DEF line
  <2>1. WholeChunks(line) \in Seq(Text)
    BY <1>1, WholeTyped
  <2>2. q * Limit \in 0..Len(line) /\ Len(line) \in q * Limit..Len(line)
    BY <1>1, CutCount, LimitAssumption
  <2>3. Rest(line) \in Text
    BY <1>1, <2>2, Piece DEF Rest
  <2> QED
    BY <2>1, <2>3
<1> HIDE DEF line, q
<1>3. acc.chunks \in Seq(Text) /\ acc.current \in Text
  BY DEF Accumulated
<1>4. /\ Append(acc.chunks, acc.current) \in Seq(Text)
      /\ Put(acc.chunks, acc.current) \in Seq(Text)
  BY <1>3, AppendProperties DEF Put
<1>5. /\ Put(acc.chunks, acc.current) \o WholeChunks(line) \in Seq(Text)
      /\ acc.current \o line \in Text
  BY <1>1, <1>2, <1>3, <1>4, ConcatProperties DEF Text
<1>6. AddLine(acc, line) \in Accumulated
  BY <1>1, <1>2, <1>3, <1>4, <1>5 DEF AddLine, Accumulated
<1> QED
  BY <1>6 DEF line

(* acc is what is collected at each character. *)
Collects(t, acc) ==
    /\ acc[0] = NoLines
    /\ \A n \in 1..Len(t) :
          acc[n] = IF n \in LineEnds(t) THEN AddLine(acc[n - 1], LineTo(t, n)) ELSE acc[n - 1]

LEMMA CollectedIsRecursive ==
    ASSUME NEW t \in Text
    PROVE  \E acc \in [0..Len(t) -> Accumulated] : Collects(t, acc) /\ Collected(t) = acc[Len(t)]
<1> DEFINE N == Len(t)
           step == [n \in 1..N |-> [s \in Accumulated |->
                      IF n \in LineEnds(t) THEN AddLine(s, LineTo(t, n)) ELSE s]]
           Body(g) == [n \in 0..N |->
                         IF n = 0 THEN NoLines
                         ELSE IF n \in LineEnds(t) THEN AddLine(g[n - 1], LineTo(t, n))
                         ELSE g[n - 1]]
<1>1. N \in Nat /\ NoLines \in Accumulated
  BY LenProperties DEF Text, NoLines, Accumulated
<1>2. step \in [1..N -> [Accumulated -> Accumulated]]
  BY LineTyped
<1>3. PICK f \in [0..N -> Accumulated] :
         f[0] = NoLines /\ \A n \in 1..N : f[n] = step[n][f[n - 1]]
  <2> DEFINE V == Accumulated
             e == NoLines
  <2>1. e \in V /\ step \in [1..N -> [V -> V]]
    BY <1>1, <1>2
  <2> HIDE DEF step, N, V, e
  <2>2. \E f \in [0..N -> V] : Iterates(f, N, e, step)
    BY <1>1, <2>1, Recursion
  <2> QED
    BY <2>2 DEF V, e, Iterates
<1>4. f = Body(f)
  <2>1. ASSUME NEW n \in 1..N
        PROVE  f[n] = IF n \in LineEnds(t) THEN AddLine(f[n - 1], LineTo(t, n)) ELSE f[n - 1]
    <3> f[n - 1] \in Accumulated
      BY <1>1, <1>3
    <3> QED
      BY <1>3
  <2>2. ASSUME NEW n \in 0..N PROVE f[n] = Body(f)[n]
    <3>1. n = 0 \/ (n # 0 /\ n \in 1..N /\ n \in 0..N)
      BY <1>1, <2>2
    <3> HIDE DEF step, N
    <3> QED
      BY <1>3, <2>1, <3>1
  <2> HIDE DEF step, N
  <2> QED
    BY <1>3, <2>2
<1> DEFINE acc == CHOOSE g : g = Body(g)
<1>5. acc = Body(acc) /\ Collected(t) = acc[N]
  <2>1. acc = Body(acc)
    <3> HIDE DEF Body
    <3> QED
      BY <1>4
  <2> QED
    BY <2>1 DEF Collected
<1> HIDE DEF acc
<1>6. Collects(t, acc)
  BY <1>1, <1>5 DEF Collects
<1>7. acc \in [0..N -> Accumulated]
  <2> DEFINE S == {n \in 0..N : acc[n] \in Accumulated}
  <2>1. 0 \in S
    BY <1>1, <1>5
  <2>2. ASSUME NEW n \in S, n \in 0..N - 1 PROVE n + 1 \in S
    <3>1. n + 1 \in 1..N /\ (n + 1) - 1 = n /\ acc[n] \in Accumulated
      BY <1>1, <2>2
    <3>2. AddLine(acc[n], LineTo(t, n + 1)) \in Accumulated
      BY <3>1, LineTyped
    <3> QED
      BY <1>6, <3>1, <3>2 DEF Collects
  <2>3. 0..N \subseteq S
    <3> HIDE DEF S, N
    <3> QED
      BY <1>1, <2>1, <2>2, AllNumbers
  <2> QED
    BY <1>5, <2>3
<1> QED
  BY <1>5, <1>6, <1>7

(* All of a text is collected. *)
LEMMA AllCollected ==
    ASSUME NEW t \in Text, t # <<>>
    PROVE  CollectsTo(t, Collected(t).chunks, Collected(t).current, Len(t))
<1> DEFINE N == Len(t)
           Upto(n) == IF n = N THEN N ELSE LineStart(t, n + 1) - 1
<1>1. PICK acc \in [0..N -> Accumulated] : Collects(t, acc) /\ Collected(t) = acc[N]
  BY CollectedIsRecursive
<1> DEFINE S == {n \in 0..N : CollectsTo(t, acc[n].chunks, acc[n].current, Upto(n))}
<1>2. N \in Nat /\ N > 0
  BY LenProperties, EmptySeq DEF Text
<1>3. 0 \in S
  <2>1. StartsLine(t, 1, LineStart(t, 1))
    BY <1>2, StartExists
  <2>2. LineStart(t, 0 + 1) - 1 = 0
    BY <2>1 DEF StartsLine
  <2>3. Upto(0) = 0
    BY <1>2, <2>2
  <2>4. acc[0].chunks = <<>> /\ acc[0].current = <<>>
    BY <1>1 DEF Collects, NoLines
  <2>5. CutsTo(t, <<>>, 0) /\ SubSeq(t, 0 + 1, 0) = <<>>
    BY NoChunks, SubSeqEmpty
  <2>6. CollectsTo(t, <<>>, <<>>, 0)
    BY <1>2, <2>5, LimitAssumption DEF CollectsTo
  <2> QED
    BY <1>2, <2>3, <2>4, <2>6
<1>4. ASSUME NEW n \in S, n \in 0..N - 1 PROVE n + 1 \in S
  <2> DEFINE k == n + 1
             p == LineStart(t, k) - 1
  <2>1. k \in 1..N /\ k - 1 = n /\ n # N
    BY <1>2, <1>4
  <2>2. p \in Nat /\ LineStart(t, k) = p + 1
    <3>1. StartsLine(t, k, LineStart(t, k))
      BY <2>1, StartExists
    <3> HIDE DEF k
    <3> QED
      BY <2>1, <3>1 DEF StartsLine
  <2>3. CollectsTo(t, acc[n].chunks, acc[n].current, p)
    BY <2>1
  <2>4. acc[k] = IF k \in LineEnds(t) THEN AddLine(acc[n], LineTo(t, k)) ELSE acc[n]
    BY <1>1, <2>1 DEF Collects
  <2>5. acc[n] = [chunks |-> acc[n].chunks, current |-> acc[n].current]
    <3>1. acc[n] \in Accumulated
      BY <1>1, <1>4
    <3> QED
      BY <3>1 DEF Accumulated
  <2>6. CASE k \in LineEnds(t)
    <3>1. CollectsTo(t, acc[k].chunks, acc[k].current, k)
      <4>1. acc[k] = AddLine([chunks |-> acc[n].chunks, current |-> acc[n].current], LineTo(t, k))
        BY <2>4, <2>5, <2>6
      <4> HIDE DEF k, p
      <4> QED
        BY <2>1, <2>2, <2>3, <4>1, LineAdded
    <3>2. Upto(k) = k
      <4>1. CASE k = N
        BY <4>1
      <4>2. CASE k # N
        <5>1. t[k] = Newline /\ k \in 1..Len(t) - 1
          BY <1>2, <2>1, <2>6, <4>2 DEF LineEnds
        <5>2. LineStart(t, k + 1) = k + 1
          BY <5>1, NextStart
        <5> QED
          BY <2>1, <4>2, <5>2
      <4> QED
        BY <4>1, <4>2
    <3> QED
      BY <2>1, <3>1, <3>2
  <2>7. CASE k \notin LineEnds(t)
    <3>1. k # N /\ t[k] # Newline
      <4>1. k \in DOMAIN t
        BY <2>1, LenProperties DEF Text
      <4> QED
        BY <2>7, <4>1 DEF LineEnds
    <3>2. LineStart(t, k + 1) = LineStart(t, k)
      BY <1>2, <2>1, <3>1, NextStart
    <3>3. Upto(k) = p
      BY <3>1, <3>2
    <3>4. acc[k] = acc[n]
      BY <2>4, <2>7
    <3> QED
      BY <2>1, <2>3, <3>3, <3>4
  <2> QED
    BY <2>6, <2>7
<1>5. N \in S
  <2>1. 0..N \subseteq S
    <3> HIDE DEF S, N
    <3> QED
      BY <1>2, <1>3, <1>4, AllNumbers
  <2> QED
    BY <1>2, <2>1
<1> QED
  BY <1>1, <1>5

---------------------------------------------------------------------------
(* The empty chunks, which are dropped *)

Keeps(chunks, kept) ==
    kept[0] = <<>> /\ \A n \in 1..Len(chunks) : kept[n] = Put(kept[n - 1], chunks[n])

LEMMA NonEmptyIsRecursive ==
    ASSUME NEW chunks \in Seq(Text)
    PROVE  \E kept : Keeps(chunks, kept) /\ NonEmpty(chunks) = kept[Len(chunks)]
<1> DEFINE N == Len(chunks)
           step == [n \in 1..N |-> [s \in Seq(Text) |-> Put(s, chunks[n])]]
           Body(g) == [n \in 0..N |-> IF n = 0 THEN <<>> ELSE Put(g[n - 1], chunks[n])]
<1>1. N \in Nat
  BY LenProperties
<1>2. step \in [1..N -> [Seq(Text) -> Seq(Text)]]
  <2>1. ASSUME NEW n \in 1..N, NEW s \in Seq(Text) PROVE Put(s, chunks[n]) \in Seq(Text)
    <3>1. chunks[n] \in Text
      BY <2>1, ElementOfSeq
    <3> QED
      BY <3>1, AppendProperties DEF Put
  <2> QED
    BY <2>1
<1>3. PICK f \in [0..N -> Seq(Text)] :
         f[0] = <<>> /\ \A n \in 1..N : f[n] = step[n][f[n - 1]]
  <2> DEFINE V == Seq(Text)
             e == <<>>
  <2>1. e \in V /\ step \in [1..N -> [V -> V]]
    BY <1>2
  <2> HIDE DEF step, N, V, e
  <2>2. \E f \in [0..N -> V] : Iterates(f, N, e, step)
    BY <1>1, <2>1, Recursion
  <2> QED
    BY <2>2 DEF V, e, Iterates
<1>4. f = Body(f)
  <2>1. ASSUME NEW n \in 1..N PROVE f[n] = Put(f[n - 1], chunks[n])
    <3> f[n - 1] \in Seq(Text)
      BY <1>1, <1>3
    <3> QED
      BY <1>3
  <2>2. ASSUME NEW n \in 0..N PROVE f[n] = Body(f)[n]
    <3>1. n = 0 \/ (n # 0 /\ n \in 1..N /\ n \in 0..N)
      BY <1>1, <2>2
    <3> HIDE DEF step, N
    <3> QED
      BY <1>3, <2>1, <3>1
  <2> HIDE DEF step, N
  <2> QED
    BY <1>3, <2>2
<1> DEFINE kept == CHOOSE g : g = Body(g)
<1>5. kept = Body(kept) /\ NonEmpty(chunks) = kept[N]
  <2>1. kept = Body(kept)
    <3> HIDE DEF Body
    <3> QED
      BY <1>4
  <2> QED
    BY <2>1 DEF NonEmpty
<1> HIDE DEF kept
<1>6. Keeps(chunks, kept)
  BY <1>1, <1>5 DEF Keeps
<1> QED
  BY <1>5, <1>6

(* No chunk is empty: nothing is dropped. *)
LEMMA NothingDropped ==
    ASSUME NEW chunks \in Seq(Text), \A k \in 1..Len(chunks) : chunks[k] # <<>>
    PROVE  NonEmpty(chunks) = chunks
<1> DEFINE N == Len(chunks)
<1>1. PICK kept : Keeps(chunks, kept) /\ NonEmpty(chunks) = kept[N]
  BY NonEmptyIsRecursive
<1> DEFINE S == {n \in 0..N : kept[n] = SubSeq(chunks, 1, n)}
<1>2. N \in Nat
  BY LenProperties
<1>3. 0 \in S
  <2>1. SubSeq(chunks, 1, 0) = <<>>
    BY SubSeqEmpty
  <2>2. kept[0] = <<>>
    BY <1>1 DEF Keeps
  <2>3. kept[0] = SubSeq(chunks, 1, 0) /\ 0 \in 0..N
    BY <1>2, <2>1, <2>2
  <2> QED
    BY <2>3
<1>4. ASSUME NEW n \in S, n \in 0..N - 1 PROVE n + 1 \in S
  <2> DEFINE k == n + 1
  <2>1. k \in 1..N /\ k \in 0..N /\ k - 1 = n
    BY <1>2, <1>4
  <2>2. chunks[k] \in Text /\ chunks[k] # <<>> /\ SubSeq(chunks, 1, n) \in Seq(Text)
    BY <2>1, ElementOfSeq, SubSeqProperties
  <2>3. SubSeq(chunks, 1, k) = SubSeq(chunks, 1, n) \o <<chunks[k]>>
    BY <2>1, SubSeqRecursiveSecond
  <2>4. kept[k] = Append(SubSeq(chunks, 1, n), chunks[k])
    BY <1>1, <1>4, <2>1, <2>2 DEF Keeps, Put
  <2> QED
    BY <2>1, <2>2, <2>3, <2>4, AppendIsConcat
<1>5. N \in S
  <2>1. 0..N \subseteq S
    <3> HIDE DEF S, N
    <3> QED
      BY <1>2, <1>3, <1>4, AllNumbers
  <2> QED
    BY <1>2, <2>1
<1> QED
  BY <1>1, <1>5, SubSeqFull

---------------------------------------------------------------------------
(* The chunks of a text *)

LEMMA CutFacts ==
    ASSUME NEW t \in Text, NEW chunks, NEW p, CutsTo(t, chunks, p)
    PROVE  /\ chunks \in Seq(Text) /\ Len(chunks) \in Nat
           /\ \A k \in 1..Len(chunks) : Len(chunks[k]) \in 1..Limit /\ chunks[k] # <<>>
<1>1. chunks \in Seq(Text) /\ Len(chunks) \in Nat
  BY LenProperties DEF CutsTo
<1>2. PICK end : IsCut(t, chunks, end)
  BY DEF CutsTo
<1>3. ASSUME NEW k \in 1..Len(chunks) PROVE Len(chunks[k]) \in 1..Limit /\ chunks[k] # <<>>
  <2> DEFINE a == end[k - 1]
             b == end[k]
  <2>1. a \in 0..Len(t) /\ b \in 0..Len(t) /\ IsChunk(t, chunks[k], a, b) /\ Len(t) \in Nat
    <3>1. end \in [0..Len(chunks) -> 0..Len(t)] /\ Len(t) \in Nat
      BY <1>2, LenProperties DEF IsCut, Text
    <3>2. k \in 0..Len(chunks) /\ k - 1 \in 0..Len(chunks)
      BY <1>1, <1>3
    <3>3. IsChunk(t, chunks[k], end[k - 1], end[k])
      BY <1>2, <1>3 DEF IsCut
    <3> QED
      BY <3>1, <3>2, <3>3
  <2> HIDE DEF a, b
  <2>2. b \in a..Len(t) /\ a < b /\ b <= a + Limit /\ chunks[k] = SubSeq(t, a + 1, b)
    BY <2>1 DEF IsChunk
  <2>3. Len(chunks[k]) = b - a
    BY <2>1, <2>2, Piece
  <2>4. Len(chunks[k]) \in 1..Limit
    BY <2>1, <2>2, <2>3, LimitAssumption
  <2> QED
    BY <2>4, EmptySeq
<1> QED
  BY <1>1, <1>3

(* The chunks of a text are all of it, and none is dropped as empty. *)
LEMMA ChunkTextCuts ==
    ASSUME NEW t \in Text
    PROVE  CutsTo(t, ChunkText(t), Len(t))
<1> USE LimitAssumption
<1>0. Len(t) \in Nat
  BY LenProperties DEF Text
<1>1. CASE Len(t) <= Limit
  <2>1. SubSeq(t, 0 + 1, Len(t)) = t
    BY SubSeqFull DEF Text
  <2>2. CollectsTo(t, <<>>, t, Len(t))
    BY <1>0, <1>1, <2>1, NoChunks DEF CollectsTo
  <2> QED
    BY <1>1, <2>2, PutAdded DEF ChunkText
<1>2. CASE ~(Len(t) <= Limit)
  <2> DEFINE chunks == Put(Collected(t).chunks, Collected(t).current)
  <2>1. t # <<>>
    BY <1>2, EmptySeq
  <2>2. CutsTo(t, chunks, Len(t))
    BY <2>1, AllCollected, PutAdded
  <2>3. NonEmpty(chunks) = chunks
    <3> HIDE DEF chunks
    <3> QED
      BY <2>2, CutFacts, NothingDropped
  <2> QED
    BY <1>2, <2>2, <2>3 DEF ChunkText
<1> QED
  BY <1>1, <1>2

(* What a cut means of the chunks themselves. *)
LEMMA CutIsWhole ==
    ASSUME NEW t \in Text, NEW chunks, CutsTo(t, chunks, Len(t))
    PROVE  AreChunksOf(t, chunks)
<1> DEFINE N == Len(chunks)
           Body(g) == [k \in 0..N |-> IF k = 0 THEN 0 ELSE g[k - 1] + Len(chunks[k])]
<1>1. PICK end : IsCut(t, chunks, end) /\ end[N] = Len(t)
  BY DEF CutsTo
<1>2. /\ N \in Nat /\ Len(t) \in Nat /\ chunks \in Seq(Text)
      /\ \A k \in 1..N : Len(chunks[k]) \in 1..Limit
  BY CutFacts, LenProperties DEF Text
<1>3. end \in [0..N -> 0..Len(t)] /\ end[0] = 0
  BY <1>1 DEF IsCut
<1>4. ASSUME NEW k \in 1..N
      PROVE  /\ end[k] = end[k - 1] + Len(chunks[k])
             /\ chunks[k] = SubSeq(t, end[k - 1] + 1, end[k])
             /\ end[k] < Len(t) => PartsWell(t, end[k])
  <2> DEFINE a == end[k - 1]
             b == end[k]
  <2>1. a \in 0..Len(t) /\ b \in 0..Len(t) /\ IsChunk(t, chunks[k], a, b)
    BY <1>1, <1>2, <1>3 DEF IsCut
  <2> HIDE DEF a, b
  <2>2. /\ b \in a..Len(t) /\ chunks[k] = SubSeq(t, a + 1, b)
        /\ b < Len(t) => PartsWell(t, b)
    BY <2>1 DEF IsChunk
  <2>3. Len(chunks[k]) = b - a
    BY <2>1, <2>2, Piece
  <2>4. b = a + Len(chunks[k])
    BY <2>1, <2>3
  <2> QED
    BY <2>2, <2>4 DEF a, b
<1>5. end = Body(end)
  <2>1. ASSUME NEW k \in 0..N PROVE end[k] = Body(end)[k]
    <3>1. k = 0 \/ (k # 0 /\ k \in 1..N)
      BY <1>2, <2>1
    <3> HIDE DEF N
    <3> QED
      BY <1>3, <1>4, <3>1
  <2> HIDE DEF N
  <2> QED
    BY <1>3, <2>1
<1> DEFINE reach == CHOOSE g : g = Body(g)
<1>6. reach = Body(reach) /\ Reach(chunks) = reach
  <2>1. reach = Body(reach)
    <3> HIDE DEF Body
    <3> QED
      BY <1>5
  <2> QED
    BY <2>1 DEF Reach
<1> HIDE DEF reach
<1> DEFINE S == {k \in 0..N : reach[k] = end[k]}
<1>7. 0 \in S
  <2>1. reach[0] = 0 /\ 0 \in 0..N
    BY <1>2, <1>6
  <2> QED
    BY <1>3, <2>1
<1>8. ASSUME NEW n \in S, n \in 0..N - 1 PROVE n + 1 \in S
  <2>1. n + 1 \in 1..N /\ n + 1 \in 0..N /\ (n + 1) - 1 = n /\ reach[n] = end[n]
    BY <1>2, <1>8
  <2>2. reach[n + 1] = reach[n] + Len(chunks[n + 1])
    BY <1>6, <2>1
  <2>3. end[n + 1] = end[n] + Len(chunks[n + 1])
    BY <1>4, <2>1
  <2> QED
    BY <2>1, <2>2, <2>3
<1>9. \A k \in 0..N : reach[k] = end[k]
  <2>1. 0..N \subseteq S
    <3> HIDE DEF S, N
    <3> QED
      BY <1>2, <1>7, <1>8, AllNumbers
  <2> QED
    BY <2>1
<1>10. DOMAIN chunks = 1..N
  BY <1>2
<1>11. reach[N] = Len(t)
  BY <1>1, <1>2, <1>9
<1>12. ASSUME NEW k \in 1..N
       PROVE  /\ chunks[k] = SubSeq(t, reach[k - 1] + 1, reach[k])
              /\ Len(chunks[k]) \in 1..Limit
              /\ reach[k] < Len(t) => PartsWell(t, reach[k])
  <2>1. reach[k - 1] = end[k - 1] /\ reach[k] = end[k]
    BY <1>2, <1>9
  <2> QED
    BY <1>2, <1>4, <2>1
<1> QED
  BY <1>6, <1>10, <1>11, <1>12 DEF AreChunksOf

(* chunk_text keeps its promise, for every text and limit. *)
LEMMA ChunksAreWhole ==
    ASSUME NEW t \in Text
    PROVE  /\ AreChunksOf(t, ChunkText(t)) /\ ChunkText(t) \in Seq(Text)
           /\ NonEmpty(ChunkText(t)) = ChunkText(t)
<1>1. CutsTo(t, ChunkText(t), Len(t))
  BY ChunkTextCuts
<1>2. ChunkText(t) \in Seq(Text) /\ \A k \in 1..Len(ChunkText(t)) : ChunkText(t)[k] # <<>>
  BY <1>1, CutFacts
<1> QED
  BY <1>1, <1>2, CutIsWhole, NothingDropped

---------------------------------------------------------------------------
(* The messages of an answer *)

Messages == [text : Text, card : BOOLEAN]

LEMMA PlanTyped ==
    ASSUME NEW t \in Text, NEW c \in BOOLEAN
    PROVE  Plan(t, c) \in Seq(Messages)
<1> DEFINE chunks == ChunkText(t)
<1>1. chunks \in Seq(Text) /\ Len(chunks) \in Nat /\ DOMAIN chunks = 1..Len(chunks)
  BY ChunksAreWhole, LenProperties
<1>2. \A i \in 1..Len(chunks) : chunks[i] \in Text
  BY <1>1, ElementOfSeq
<1> HIDE DEF chunks
<1>3. [i \in DOMAIN chunks |-> [text |-> chunks[i], card |-> c /\ i = 1]] \in Seq(Messages)
  <2> DEFINE n == Len(chunks)
             all == [i \in DOMAIN chunks |-> [text |-> chunks[i], card |-> c /\ i = 1]]
  <2>1. all \in [1..n -> Messages]
    BY <1>1, <1>2 DEF Messages
  <2>2. n \in Nat
    BY <1>1
  <2> HIDE DEF all, n
  <2>3. all \in Seq(Messages)
    BY <2>1, <2>2
  <2> QED
    BY <2>3 DEF all
<1>4. << [text |-> <<>>, card |-> TRUE] >> \in Seq(Messages)
  <2>1. [text |-> <<>>, card |-> TRUE] \in Messages
    BY EmptySeq DEF Messages, Text
  <2> QED
    BY <2>1
<1> QED
  BY <1>3, <1>4 DEF Plan, chunks

(* What a reader sees of the messages of a plan. *)
Shows(t, c, all) ==
    /\ AreChunksOf(t, NonEmpty([i \in DOMAIN all |-> all[i].text]))
    /\ {i \in DOMAIN all : all[i].card} = IF c THEN {1} ELSE {}

LEMMA CardAlone == NonEmpty(<< <<>> >>) = <<>>
<1> DEFINE one == << <<>> >>
<1>1. one \in Seq(Text) /\ Len(one) = 1 /\ one[1] = <<>>
  BY EmptySeq DEF Text
<1>2. PICK kept : Keeps(one, kept) /\ NonEmpty(one) = kept[Len(one)]
  BY <1>1, NonEmptyIsRecursive
<1>3. kept[0] = <<>> /\ kept[1] = Put(kept[0], one[1])
  BY <1>1, <1>2 DEF Keeps
<1> QED
  BY <1>1, <1>2, <1>3 DEF Put

LEMMA PlanShows ==
    ASSUME NEW t \in Text, NEW c \in BOOLEAN
    PROVE  Shows(t, c, Plan(t, c))
<1> DEFINE chunks == ChunkText(t)
           all == Plan(t, c)
           texts == [i \in DOMAIN all |-> all[i].text]
<1>1. /\ AreChunksOf(t, chunks) /\ chunks \in Seq(Text) /\ NonEmpty(chunks) = chunks
      /\ Len(chunks) \in Nat /\ DOMAIN chunks = 1..Len(chunks)
  BY ChunksAreWhole, LenProperties
<1>2. CASE chunks = <<>> /\ c
  <2>1. all = << [text |-> <<>>, card |-> TRUE] >>
    BY <1>2 DEF Plan
  <2> HIDE DEF all
  <2>2. DOMAIN all = {1} /\ all[1].text = <<>> /\ all[1].card = TRUE
    BY <2>1
  <2>3. texts = << <<>> >>
    BY <2>2
  <2>4. NonEmpty(texts) = chunks
    BY <1>2, <2>3, CardAlone
  <2>5. {i \in DOMAIN all : all[i].card} = {1}
    BY <2>2
  <2> QED
    BY <1>1, <1>2, <2>4, <2>5 DEF Shows, all
<1>3. CASE ~(chunks = <<>> /\ c)
  <2>1. all = [i \in DOMAIN chunks |-> [text |-> chunks[i], card |-> c /\ i = 1]]
    BY <1>3 DEF Plan
  <2> HIDE DEF all, chunks
  <2>2. DOMAIN all = 1..Len(chunks)
    BY <1>1, <2>1
  <2>3. \A i \in 1..Len(chunks) : all[i].text = chunks[i] /\ all[i].card = (c /\ i = 1)
    BY <1>1, <2>1
  <2>4. texts = chunks
    <3>1. texts \in [1..Len(chunks) -> Text] /\ chunks \in [1..Len(chunks) -> Text]
      <4>1. \A i \in 1..Len(chunks) : chunks[i] \in Text
        BY <1>1, ElementOfSeq
      <4> QED
        BY <1>1, <2>2, <2>3, <4>1, LenProperties
    <3>2. \A i \in 1..Len(chunks) : texts[i] = chunks[i]
      BY <2>2, <2>3
    <3> HIDE DEF texts
    <3> QED
      BY <3>1, <3>2
  <2>5. {i \in DOMAIN all : all[i].card} = IF c THEN {1} ELSE {}
    <3>1. CASE c
      <4>1. Len(chunks) # 0
        BY <1>1, <1>3, <3>1, EmptySeq
      <4>2. 1 \in 1..Len(chunks)
        BY <1>1, <4>1
      <4> QED
        BY <2>2, <2>3, <3>1, <4>2
    <3>2. CASE ~c
      BY <2>2, <2>3, <3>2
    <3> QED
      BY <3>1, <3>2
  <2> HIDE DEF texts
  <2>6. AreChunksOf(t, NonEmpty(texts))
    BY <1>1, <2>4
  <2> QED
    BY <2>5, <2>6 DEF Shows, texts, all
<1> QED
  BY <1>2, <1>3

(* Nothing is shown before the answer is sent; then what was sent and what *)
(* is left to send are its plan.                                           *)
Sending ==
    /\ stage \in {"begun", "core", "voice"} => shown = <<>>
    /\ stage = "sending" =>
          /\ shown \in Seq(Messages) /\ parts \in Seq(Messages)
          /\ shown \o parts = Plan(text, card)

LEMMA TextsAreTexts == Texts \cup {Apology} \subseteq Text
<1>1. Apology \in Text
  BY DEF Apology, Text, Characters
<1> QED
  BY <1>1, TextsAssumption DEF Text

LEMMA AnswerIsPlanned ==
    ASSUME NEW t \in Texts \cup {Apology}, NEW c \in BOOLEAN, NEW who,
           shown = <<>>, Answers(who, t, c)
    PROVE  Sending'
<1>1. t \in Text
  BY TextsAreTexts
<1>2. Plan(t, c) \in Seq(Messages) /\ <<>> \in Seq(Messages)
  BY <1>1, PlanTyped, EmptySeq
<1>3. <<>> \o Plan(t, c) = Plan(t, c)
  BY <1>2, ConcatEmptySeq
<1>4. /\ stage' = "sending" /\ shown' = <<>> /\ text' = t /\ card' = c
      /\ parts' = Plan(t, c)
  BY DEF Answers
<1> HIDE DEF Sending
<1>5. /\ shown' \in Seq(Messages) /\ parts' \in Seq(Messages)
      /\ shown' \o parts' = Plan(text', card')
  BY <1>2, <1>3, <1>4
<1> QED
  BY <1>4, <1>5 DEF Sending

LEMMA PartMoves ==
    ASSUME NEW s \in Seq(Messages), NEW p \in Seq(Messages), p # <<>>
    PROVE  /\ Append(s, Head(p)) \in Seq(Messages) /\ Tail(p) \in Seq(Messages)
           /\ Append(s, Head(p)) \o Tail(p) = s \o p
<1>1. Head(p) \in Messages /\ Tail(p) \in Seq(Messages) /\ <<Head(p)>> \in Seq(Messages)
  BY HeadTailProperties
<1>2. p = <<Head(p)>> \o Tail(p)
  <2>1. Len(p) \in Nat /\ Len(p) # 0
    BY EmptySeq, LenProperties
  <2>2. 1 \in 1..Len(p) /\ Len(p) \in 1..Len(p)
    BY <2>1
  <2>3. SubSeq(p, 1, Len(p)) = <<p[1]>> \o SubSeq(p, 1 + 1, Len(p))
    BY <2>2, SubSeqRecursiveFirst
  <2>4. SubSeq(p, 1, Len(p)) = p /\ Tail(p) = SubSeq(p, 2, Len(p)) /\ Head(p) = p[1]
    BY SubSeqFull, TailIsSubSeq
  <2> QED
    BY <2>3, <2>4
<1>3. Append(s, Head(p)) = s \o <<Head(p)>> /\ Append(s, Head(p)) \in Seq(Messages)
  BY <1>1, AppendIsConcat, AppendProperties
<1>4. (s \o <<Head(p)>>) \o Tail(p) = s \o (<<Head(p)>> \o Tail(p))
  <2> DEFINE u == <<Head(p)>>
             v == Tail(p)
  <2>1. u \in Seq(Messages) /\ v \in Seq(Messages)
    BY <1>1
  <2> HIDE DEF u, v
  <2>2. (s \o u) \o v = s \o (u \o v)
    BY <2>1, ConcatAssociative
  <2> QED
    BY <2>2 DEF u, v
<1> QED
  BY <1>1, <1>2, <1>3, <1>4

LEMMA SendingNext == IInv /\ Sending /\ [Next]_vars => Sending'
<1> SUFFICES ASSUME IInv, Sending, [Next]_vars PROVE Sending'
  OBVIOUS
<1>1. text \in Text /\ card \in BOOLEAN
  BY TextsAreTexts DEF IInv, StageTypes
<1>2. CASE UNCHANGED <<kind, stage, answerVars>>
  BY <1>2 DEF Sending, answerVars
<1>3. CASE TurnBegins \/ Defer \/ ChatDispatched \/ CallsDone \/ SendFails \/ AllSent
  <2>1. /\ stage' \in {"begun", "core", "voice", "over"}
        /\ stage' \in {"begun", "core", "voice"} => shown' = <<>>
    BY <1>3 DEF TurnBegins, Defer, ChatDispatched, CallsDone, SendFails, AllSent, Sending,
       answerVars
  <2> QED
    BY <2>1 DEF Sending
<1>4. CASE Voiced \/ Crashes \/ OutOfTime \/ ContainerLost
  <2>1. shown = <<>>
    BY <1>4 DEF Voiced, Crashes, OutOfTime, ContainerLost, Sending
  <2>2. \E who, t, c : t \in Texts \cup {Apology} /\ c \in BOOLEAN /\ Answers(who, t, c)
    BY <1>1, <1>4 DEF Voiced, Crashes, OutOfTime, ContainerLost, Unreachable
  <2> QED
    BY <2>1, <2>2, AnswerIsPlanned
<1>5. CASE PartSent
  <2>1. /\ shown \in Seq(Messages) /\ parts \in Seq(Messages)
        /\ shown \o parts = Plan(text, card) /\ parts # <<>>
    BY <1>5 DEF PartSent, Sending
  <2>2. /\ stage' = "sending" /\ text' = text /\ card' = card
        /\ shown' = Append(shown, Head(parts)) /\ parts' = Tail(parts)
    BY <1>5 DEF PartSent
  <2>3. /\ Append(shown, Head(parts)) \in Seq(Messages) /\ Tail(parts) \in Seq(Messages)
        /\ Append(shown, Head(parts)) \o Tail(parts) = shown \o parts
    BY <2>1, PartMoves
  <2>4. /\ shown' \in Seq(Messages) /\ parts' \in Seq(Messages)
        /\ shown' \o parts' = Plan(text', card')
    BY <2>1, <2>2, <2>3
  <2> QED
    BY <2>2, <2>4 DEF Sending
<1>6. UNCHANGED vars \/ SiteChanges \/ (\E c \in Calls : CallMoves(c))
        => UNCHANGED <<kind, stage, answerVars>>
  BY DEF vars, SiteChanges, CallMoves, CallBegins, CallSteps
<1> QED
  BY <1>2, <1>3, <1>4, <1>5, <1>6 DEF Next, TurnStep, CallMoves

(* The messages of an answer are its text, cut where it may be, with the   *)
(* card on the first alone, for texts of any length and any limit.         *)
THEOREM AnswersAreWhole == Spec => []PartsAreTheAnswer
<1>1. Init => Sending
  BY DEF Init, Sending
<1>2. IInv /\ Sending => PartsAreTheAnswer
  <2> SUFFICES ASSUME IInv, Sending, stage = "sending"
               PROVE  Shows(text, card, shown \o parts)
    BY DEF PartsAreTheAnswer, Shows
  <2>1. text \in Text /\ card \in BOOLEAN
    BY TextsAreTexts DEF IInv, StageTypes
  <2> QED
    BY <2>1, PlanShows DEF Sending
<1> QED
  BY <1>1, <1>2, IInvInvariant, SendingNext, PTL DEF Spec
=============================================================================
