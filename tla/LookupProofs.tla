---------------------------- MODULE LookupProofs -----------------------------
(***************************************************************************)
(* Theorems about LookupCall, for any words, scores, names and hits, and   *)
(* any cap on integers.                                                    *)
(***************************************************************************)
EXTENDS LookupCall, SequenceTheorems, FiniteSetTheorems, WellFoundedInduction, TLAPS

---------------------------------------------------------------------------
(* A call in detail is a call of Lookups *)

CoarseStep(c) == Coarse!LookupBegins(c) \/ Coarse!LookupStep(c)

LEMMA BooruIsCoarse == ASSUME NEW c, BooruStep(c) PROVE CoarseStep(c)
<1> USE DEF CoarseStep, Coarse!LookupBegins, Coarse!LookupStep, Awaits, Ends,
      Coarse!Awaits, Coarse!Ends
<1>1. CASE SearchBuilt(c)
  BY <1>1 DEF SearchBuilt, Coarse!BooruBegins
<1>2. CASE SiteAnswers(c)
  <2>1. EndOf(said') \in {"card", "empty", "unavailable"}
    BY DEF EndOf
  <2> QED
    BY <1>2, <2>1 DEF SiteAnswers, Coarse!BooruAnswers
<1> QED
  BY <1>1, <1>2 DEF BooruStep

LEMMA WeatherIsCoarse == ASSUME NEW c, WeatherStep(c) PROVE CoarseStep(c)
<1> USE DEF CoarseStep, Coarse!LookupBegins, Coarse!LookupStep, Awaits, Ends,
      Coarse!Awaits, Coarse!Ends
<1>1. CASE PlaceAsked(c)
  BY <1>1 DEF PlaceAsked, Coarse!WeatherBegins
<1>2. CASE PlacePicked(c)
  BY <1>2 DEF PlacePicked, Coarse!PlaceArrives
<1>3. CASE NoPlace(c)
  BY <1>3 DEF NoPlace, Coarse!PlaceArrives
<1>4. CASE ForecastAnswers(c)
  BY <1>4 DEF ForecastAnswers, Coarse!ForecastArrives
<1> QED
  BY <1>1, <1>2, <1>3, <1>4 DEF WeatherStep

(* Whatever is computed, the evaluation goes on or its text is the result. *)
LEMMA ComputesEnds ==
    ASSUME NEW c, NEW k, NEW v, Computes(c, k, v)
    PROVE  UNCHANGED callVars \/ Ends(c, "result")
BY DEF Computes, EvaluationEnds

LEMMA MathIsCoarse ==
    ASSUME NEW c, ArithmeticStep(c) PROVE CoarseStep(c) \/ UNCHANGED callVars
<1>1. CASE ExpressionSent(c)
  BY <1>1 DEF ExpressionSent, CoarseStep, Coarse!LookupBegins, Coarse!MathBegins, Awaits,
     Coarse!Awaits
<1>2. ASSUME ~ExpressionSent(c)
      PROVE  at[c] = "evaluate" /\ (UNCHANGED callVars \/ Ends(c, "result"))
  <2>1. CASE Constant(c)
    BY <2>1, ComputesEnds DEF Constant
  <2>2. CASE Unary(c)
    BY <2>2, ComputesEnds DEF Unary
  <2>3. CASE Binary(c)
    BY <2>3, ComputesEnds DEF Binary
  <2>4. CASE Power(c)
    BY <2>4, ComputesEnds DEF Power, EvaluationEnds
  <2>5. CASE Fails(c) \/ Evaluates(c)
    BY <2>5 DEF Fails, Evaluates, EvaluationEnds
  <2> QED
    BY <1>2, <2>1, <2>2, <2>3, <2>4, <2>5 DEF ArithmeticStep
<1>3. ASSUME at[c] = "evaluate", Ends(c, "result") PROVE CoarseStep(c)
  BY <1>3 DEF CoarseStep, Coarse!LookupStep, Coarse!Evaluated, Ends, Coarse!Ends
<1> QED
  BY <1>1, <1>2, <1>3

(* A booru search, a forecast and an evaluation wait and end only as       *)
(* Lookups says, for any arguments and answers: where Turns has a call of  *)
(* one of these skills, any of theirs fits.                                *)
THEOREM LookupsAreImplemented == Spec => ImplementsLookups
<1>1. Init => Coarse!CallsInit
  BY DEF Init, CallsInit, Coarse!CallsInit
<1>2. [Next]_vars => [\E c \in Calls : CoarseStep(c)]_(Coarse!callVars)
  <2>1. ASSUME NEW c \in Calls, Step(c) PROVE CoarseStep(c) \/ UNCHANGED callVars
    BY <2>1, BooruIsCoarse, WeatherIsCoarse, MathIsCoarse DEF Step
  <2>2. UNCHANGED vars \/ UNCHANGED callVars => UNCHANGED Coarse!callVars
    BY DEF vars, callVars, Coarse!callVars
  <2> QED
    BY <2>1, <2>2 DEF Next
<1>3. [\E c \in Calls : CoarseStep(c)]_(Coarse!callVars)
        => [\E c \in Calls : Coarse!LookupBegins(c) \/ Coarse!LookupStep(c)]_(Coarse!callVars)
  BY DEF CoarseStep
<1> QED
  BY <1>1, <1>2, <1>3, PTL DEF Spec, ImplementsLookups, Coarse!LookupSpec

---------------------------------------------------------------------------
(* The place that is picked *)

LEMMA LeastOfNaturals ==
    ASSUME NEW S, S \subseteq Nat, S # {}
    PROVE  Min(S) \in S /\ \A n \in S : Min(S) <= n
<1>1. \A m, n \in Nat : <<n, m>> \in OpToRel(<, Nat) <=> n < m
  BY DEF OpToRel
<1>2. PICK Less : /\ IsWellFoundedOn(Less, Nat)
                  /\ \A m, n \in Nat : <<n, m>> \in Less <=> n < m
  BY <1>1, NatLessThanWellFounded
<1>3. PICK m \in S : \A n \in S : <<n, m>> \notin Less
  BY <1>2, WFMin
<1>4. ASSUME NEW n \in S PROVE m <= n
  <2>1. m \in Nat /\ n \in Nat /\ ~(n < m)
    BY <1>2, <1>3
  <2> QED
    BY <2>1
<1> QED
  BY <1>4 DEF Min

(* What PlaceIsBest says of a choice p among the hits found. *)
BestOf(found, q, p) ==
    LET places == {found[i] : i \in DOMAIN found}
        States == {r \in places : UsState(r, q)}
        Named == {r \in places : Exact(r, q)}
        Begun == {r \in places : Begins(r, q)}
        Best == IF States # {} THEN States ELSE IF Named # {} THEN Named
                ELSE IF Begun # {} THEN Begun ELSE places
    IN  /\ p \in Best
        /\ \A i \in DOMAIN found : found[i] \in Best =>
             \E j \in 1..i : found[j] = p

LEMMA PickIsBest ==
    ASSUME NEW n \in Nat, n >= 1, NEW found, DOMAIN found = 1..n, NEW q, q # <<>>
    PROVE  BestOf(found, q, Pick(found, q))
<1> DEFINE hits == Hits(found, q)
           tiers == {t \in 1..3 : hits[t] # {}}
           places == {found[i] : i \in DOMAIN found}
           States == {r \in places : UsState(r, q)}
           Named == {r \in places : Exact(r, q)}
           Begun == {r \in places : Begins(r, q)}
           fitting == <<States, Named, Begun>>
<1>1. \A t \in 1..3 : hits[t] = {i \in DOMAIN found : found[i] \in fitting[t]}
  BY DEF Hits
<1>2. ASSUME NEW t \in 1..3, fitting[t] # {}
      PROVE  /\ hits[t] # {}
             /\ found[Min(hits[t])] \in fitting[t]
             /\ \A i \in DOMAIN found : found[i] \in fitting[t] =>
                  \E j \in 1..i : found[j] = found[Min(hits[t])]
  <2> HIDE DEF hits, fitting
  <2>1. hits[t] # {} /\ hits[t] \subseteq Nat
    <3>1. \A r \in fitting[t] : \E i \in DOMAIN found : found[i] = r
      BY DEF fitting
    <3> QED
      BY <1>1, <1>2, <3>1
  <2>2. PICK k : k = Min(hits[t])
    OBVIOUS
  <2>3. k \in hits[t] /\ \A i \in hits[t] : k <= i
    BY <2>1, <2>2, LeastOfNaturals
  <2>4. ASSUME NEW i \in DOMAIN found, found[i] \in fitting[t] PROVE k \in 1..i
    BY <1>1, <2>3, <2>4
  <2> QED
    BY <1>1, <2>1, <2>2, <2>3, <2>4
<1>3. ASSUME NEW t \in 1..3, hits[t] # {}, \A u \in 1..3 : hits[u] # {} => t <= u
      PROVE  Pick(found, q) = found[Min(hits[t])]
  <2>1. t \in tiers /\ \A u \in tiers : t <= u
    BY <1>3
  <2>2. Min(tiers) = t
    BY <2>1 DEF Min
  <2>3. Pick(found, q) = found[Min(hits[Min(tiers)])]
    BY <2>1 DEF Pick
  <2> QED
    BY <2>2, <2>3
<1>4. ASSUME \A t \in 1..3 : hits[t] = {} PROVE Pick(found, q) = found[1]
  BY <1>4 DEF Pick
<1>5. ASSUME NEW t \in 1..3, fitting[t] = {} PROVE hits[t] = {}
  BY <1>1, <1>5
<1>6. fitting[1] = States /\ fitting[2] = Named /\ fitting[3] = Begun
  OBVIOUS
<1> HIDE DEF hits, fitting
<1>7. CASE States # {}
  <2>1. Pick(found, q) = found[Min(hits[1])]
    BY <1>2, <1>3, <1>6, <1>7
  <2> QED
    BY <1>2, <1>6, <1>7, <2>1 DEF BestOf
<1>8. CASE States = {} /\ Named # {}
  <2>1. Pick(found, q) = found[Min(hits[2])]
    BY <1>2, <1>3, <1>5, <1>6, <1>8
  <2> QED
    BY <1>2, <1>6, <1>8, <2>1 DEF BestOf
<1>9. CASE States = {} /\ Named = {} /\ Begun # {}
  <2>1. Pick(found, q) = found[Min(hits[3])]
    BY <1>2, <1>3, <1>5, <1>6, <1>9
  <2> QED
    BY <1>2, <1>6, <1>9, <2>1 DEF BestOf
<1>10. CASE States = {} /\ Named = {} /\ Begun = {}
  <2>1. Pick(found, q) = found[1]
    BY <1>4, <1>5, <1>6, <1>10
  <2>2. found[1] \in places /\ \A i \in DOMAIN found : 1 \in 1..i
    OBVIOUS
  <2> QED
    BY <1>10, <2>1, <2>2 DEF BestOf
<1> QED
  BY <1>7, <1>8, <1>9, <1>10

---------------------------------------------------------------------------
(* What is shown and told *)

(* Where a call can be. *)
Waiting == {"idle", "booru", "geocode", "forecast", "evaluate", "done"}

(* No step is one of a call that is done, or leads anywhere else.          *)
LEMMA StepsOfRunning ==
    ASSUME NEW c \in Calls, CoarseStep(c), at \in [Calls -> Waiting]
    PROVE  at[c] # "done" /\ at' \in [Calls -> Waiting]
BY DEF CoarseStep, Coarse!LookupBegins, Coarse!LookupStep, Coarse!BooruBegins,
   Coarse!BooruAnswers, Coarse!WeatherBegins, Coarse!PlaceArrives, Coarse!ForecastArrives,
   Coarse!MathBegins, Coarse!Evaluated, Coarse!Awaits, Coarse!Ends, Waiting

LEMMA OnlyCall == \E k : Calls = {k}
BY CallsAssumption, OneCall, FS_Singleton

(* No rating of a post is worse than the one its card has the color of.    *)
NeverMilder(site, post) ==
    \A j, k \in DOMAIN Severity :
        Severity[j] \in post.ratings /\ Severity[k] = Color(site, post) => k <= j

LEMMA RatingsAreRanked ==
    /\ DOMAIN Severity = 1..7
    /\ \A j, k \in 1..7 : Severity[j] = Severity[k] => j = k
BY DEF Severity

LEMMA ColorIsHonest ==
    ASSUME NEW site, NEW post \in PostsOf(site)
    PROVE  NeverMilder(site, post)
<1>1. CASE site = "e621"
  <2>1. post.ratings = {} \/ \E r : post.ratings = {r}
    BY <1>1 DEF PostsOf, E621Posts, PostsWith
  <2>2. ASSUME NEW r, post.ratings = {r} PROVE Color(site, post) = r
    BY <1>1, <2>2 DEF Color, E621Color
  <2> QED
    BY <2>1, <2>2, RatingsAreRanked DEF NeverMilder
<1>2. CASE site # "e621"
  <2>1. post.ratings = {}
          \/ \E i, j \in DOMAIN Severity : post.ratings = {Severity[i], Severity[j]}
    BY <1>2 DEF PostsOf, DerpibooruPosts, PostsWith
  <2>2. ASSUME NEW i \in DOMAIN Severity, NEW j \in DOMAIN Severity, i <= j,
               post.ratings = {Severity[i], Severity[j]}
        PROVE  NeverMilder(site, post)
    <3>1. i \in 1..7 /\ j \in 1..7
      BY RatingsAreRanked
    <3>2. PICK worst \in 1..7 :
            /\ Color(site, post) = Severity[worst]
            /\ Severity[worst] \in post.ratings
            /\ \A k \in 1..worst - 1 : Severity[k] \notin post.ratings
      <4>1. \A k \in 1..i - 1 : Severity[k] \notin post.ratings
        BY <2>2, <3>1, RatingsAreRanked
      <4>2. Severity[i] \in post.ratings /\ post.ratings # {}
        BY <2>2
      <4> QED
        BY <1>2, <3>1, <4>1, <4>2, RatingsAreRanked DEF Color, DerpibooruColor
    <3>3. ASSUME NEW k \in 1..7, Severity[k] \in post.ratings PROVE worst <= k
      BY <3>2, <3>3
    <3> QED
      BY <3>2, <3>3, RatingsAreRanked DEF NeverMilder
  <2>3. \A i, j \in DOMAIN Severity : i <= j \/ j <= i
    BY RatingsAreRanked
  <2> QED
    BY <2>1, <2>2, <2>3 DEF NeverMilder
<1> QED
  BY <1>1, <1>2

(* A post that cannot be shown has no address of its file.                 *)
LEMMA PostsAreHidden ==
    ASSUME NEW posts, posts = <<>> \/ (\E post : posts = <<post>>), Parse(posts) = <<>>
    PROVE  \A i \in DOMAIN posts : ~posts[i].url
<1>1. CASE posts = <<>>
  BY <1>1
<1>2. ASSUME NEW post, posts = <<post>> PROVE ~post.url /\ DOMAIN posts = {1} /\ posts[1] = post
  <2>1. posts # <<>> /\ Head(posts) = post /\ DOMAIN posts = {1} /\ posts[1] = post
    BY <1>2
  <2>2. <<Head(posts)>> # <<>>
    OBVIOUS
  <2> QED
    BY <2>1, <2>2 DEF Parse
<1> QED
  BY <1>1, <1>2

(* Until the call is done nothing is shown or told; what is told then is   *)
(* about the search that was sent.                                         *)
ShownInv ==
    /\ at \in [Calls -> Waiting]
    /\ (\E c \in Calls : at[c] # "done") =>
         said = "nothing" /\ shown = <<>> /\ recorded = "nothing"
    /\ AsAsked
    /\ ToldWhatHappened

LEMMA ShownInit == Init => ShownInv
<1> SUFFICES ASSUME Init PROVE ShownInv
  OBVIOUS
<1>1. at \in [Calls -> Waiting]
  BY DEF Init, CallsInit, Waiting
<1>2. said = "nothing" /\ shown = <<>> /\ recorded = "nothing"
  BY DEF Init, BooruInit
<1> QED
  BY <1>1, <1>2 DEF ShownInv, AsAsked, ToldWhatHappened

LEMMA AnswerIsShown ==
    ASSUME ShownInv, NEW c \in Calls, SiteAnswers(c)
    PROVE  ShownInv'
<1>1. PICK k : Calls = {k}
  BY OnlyCall
<1>2. at' \in [Calls -> Waiting] /\ \A d \in Calls : at'[d] = "done"
  BY <1>1 DEF ShownInv, SiteAnswers, Ends, Waiting
<1>3. reply' \in Replies(search) /\ search' = search /\ said' = Verdict(reply')
  BY DEF SiteAnswers
<1>4. said' = "card" <=>
        reply'.how = "posts" /\ reply'.good /\ Parse(reply'.posts) # <<>>
  BY <1>3 DEF Replies, Verdict, EmptyNote, Parse
<1>5. AsAsked'
  <2> SUFFICES ASSUME NEW i \in DOMAIN shown'
               PROVE  LET post == shown'[i]
                      IN  /\ post.url
                          /\ search.commas = (search.site = "derpibooru") =>
                               \A j \in DOMAIN search.words : <<search.words[j]>> \in post.tags
                          /\ search.fileType \subseteq {post.type}
                          /\ \A n \in search.minScore : n <= post.score
                          /\ ~search.explicit => "safe" \in post.ratings
                          /\ NeverMilder(search.site, post)
    BY <1>3 DEF AsAsked, NeverMilder
  <2>1. PICK post \in PostsOf(search.site) :
          reply'.posts = <<post>> /\ Matches(post, Query(search))
    <3>1. said' = "card" /\ reply'.posts # <<>>
      BY <1>4 DEF SiteAnswers, Parse
    <3>2. \E post \in PostsOf(search.site) :
            reply'.posts = <<post>> /\ Matches(post, Query(search))
      BY <1>3, <3>1 DEF Replies
    <3> QED
      BY <3>2
  <2>2. shown'[i] = post /\ post.url
    BY <2>1 DEF SiteAnswers, Parse
  <2> QED
    BY <2>1, <2>2, ColorIsHonest DEF Matches, Query, ParseTags, Floor, SafeOnly
<1>6. ToldWhatHappened'
  <2>1. said' \in {"no match", "safe floor"} =>
          /\ reply'.good /\ reply'.how \in {"posts", "no list"}
          /\ \A i \in DOMAIN reply'.posts : ~reply'.posts[i].url
    <3> SUFFICES ASSUME said' \in {"no match", "safe floor"}
                 PROVE  /\ reply'.good /\ reply'.how \in {"posts", "no list"}
                        /\ \A i \in DOMAIN reply'.posts : ~reply'.posts[i].url
      OBVIOUS
    <3>1. /\ reply'.good /\ reply'.how \in {"posts", "no list"}
          /\ Parse(reply'.posts) = <<>>
      BY <1>3 DEF Replies, Verdict
    <3>2. reply'.posts = <<>> \/ \E post : reply'.posts = <<post>>
      BY <1>3, <3>1 DEF Replies
    <3> QED
      BY <3>1, <3>2, PostsAreHidden
  <2>2. reply'.how = "message" => said' = "site's message"
    BY <1>3 DEF Verdict
  <2>3. said' = "safe floor" => ~search.explicit
    BY <1>3 DEF Replies, Verdict, EmptyNote, SafeOnly
  <2>4. /\ recorded' \in {"empty", "safe_limited"} <=> said' \in {"no match", "safe floor"}
        /\ recorded' = "safe_limited" <=> said' = "safe floor"
        /\ recorded' = "ok" <=> said' = "card"
    BY DEF SiteAnswers, OutcomeOf
  <2>5. said' = "card" <=> shown' # <<>>
    BY <1>4 DEF SiteAnswers
  <2> QED
    BY <1>3, <2>1, <2>2, <2>3, <2>4, <2>5 DEF ToldWhatHappened
<1> QED
  BY <1>2, <1>5, <1>6 DEF ShownInv

LEMMA ShownNext == ShownInv /\ [Next]_vars => ShownInv'
<1> SUFFICES ASSUME ShownInv, [Next]_vars PROVE ShownInv'
  OBVIOUS
<1>1. PICK k : Calls = {k}
  BY OnlyCall
<1>2. ASSUME UNCHANGED booruVars, at' \in [Calls -> Waiting],
             (\E c \in Calls : at'[c] # "done") => \E c \in Calls : at[c] # "done"
      PROVE  ShownInv'
  BY <1>2 DEF ShownInv, booruVars, AsAsked, ToldWhatHappened
<1>3. ASSUME NEW c \in Calls, Step(c) PROVE ShownInv'
  <2>1. CASE SiteAnswers(c)
    BY <2>1, AnswerIsShown
  <2>2. CASE SearchBuilt(c)
    BY <1>1, <2>2 DEF SearchBuilt, ShownInv, AsAsked, ToldWhatHappened, Awaits, Ends,
       Waiting
  <2>3. ASSUME WeatherStep(c) \/ ArithmeticStep(c), UNCHANGED booruVars PROVE ShownInv'
    <3>1. UNCHANGED callVars \/ (at[c] # "done" /\ at' \in [Calls -> Waiting])
      BY <2>3, WeatherIsCoarse, MathIsCoarse, StepsOfRunning DEF ShownInv
    <3> QED
      BY <1>2, <2>3, <3>1 DEF callVars, ShownInv
  <2> QED
    BY <1>3, <2>1, <2>2, <2>3 DEF Step, BooruStep
<1>4. CASE UNCHANGED vars
  BY <1>2, <1>4 DEF vars, callVars, booruVars, ShownInv
<1> QED
  BY <1>3, <1>4 DEF Next
(* A card shows what was asked for, for any words and scores, on either    *)
(* site: every tag, the type and the score, and safe posts only in a       *)
(* channel that is not age-gated, all of it as far as the site honours the *)
(* query that is sent; and, whatever the site sends, its color is never    *)
(* that of a rating milder than one the post has.                          *)
THEOREM CardsAreAsAsked == Spec => []AsAsked
<1>1. ShownInv => AsAsked
  BY DEF ShownInv
<1> QED
  BY <1>1, ShownInit, ShownNext, PTL DEF Spec

(* Nobody is told that there are no results in place of a failure, but for *)
(* a success without any list of posts, which is read as an empty list;    *)
(* and what is recorded is what was told.                                  *)
THEOREM UsersAreTold == Spec => []ToldWhatHappened
<1>1. ShownInv => ToldWhatHappened
  BY DEF ShownInv
<1> QED
  BY <1>1, ShownInit, ShownNext, PTL DEF Spec

(* The place is settled with the hits, and until then there are none.      *)
PlaceInv ==
    /\ at \in [Calls -> Waiting]
    /\ (\E c \in Calls : at[c] \in {"idle", "geocode"}) => results = <<>>
    /\ PlaceIsBest

LEMMA PlaceInit == Init => PlaceInv
BY DEF Init, CallsInit, WeatherInit, PlaceInv, PlaceIsBest, Waiting

LEMMA PlaceNext == PlaceInv /\ [Next]_vars => PlaceInv'
<1> SUFFICES ASSUME PlaceInv, [Next]_vars PROVE PlaceInv'
  OBVIOUS
<1>1. PICK k : Calls = {k}
  BY OnlyCall
<1>2. ASSUME UNCHANGED <<weatherVars, at>> PROVE PlaceInv'
  BY <1>2 DEF PlaceInv, weatherVars, PlaceIsBest
<1>3. ASSUME NEW c \in Calls, Step(c) PROVE PlaceInv'
  <2>1. UNCHANGED at \/ at' \in [Calls -> Waiting]
    BY <1>3, BooruIsCoarse, WeatherIsCoarse, MathIsCoarse, StepsOfRunning DEF Step, PlaceInv,
       callVars
  <2>2. CASE PlaceAsked(c)
    <3>1. results' = <<>>
      BY <2>2 DEF PlaceAsked, PlaceInv
    <3> QED
      BY <2>1, <2>2, <3>1 DEF PlaceInv, PlaceIsBest
  <2>3. CASE PlacePicked(c)
    <3>1. at'[c] \in {"forecast", "done"}
      BY <2>3 DEF PlacePicked, PlaceInv, Awaits, Ends
    <3>2. PlaceIsBest'
      <4>1. ASSUME qualifier # <<>> PROVE BestOf(results', qualifier', place')
        <5>1. PICK n \in 1..MaxResults : results' \in [1..n -> Places]
          BY <2>3 DEF PlacePicked
        <5> QED
          BY <2>3, <4>1, <5>1, PickIsBest, WeatherAssumption DEF PlacePicked
      <4> QED
        BY <2>3, <4>1 DEF PlacePicked, PlaceIsBest, BestOf
    <3> QED
      BY <1>1, <2>1, <2>3, <3>1, <3>2 DEF PlaceInv
  <2>4. ASSUME UNCHANGED weatherVars,
               at[c] \in {"idle", "geocode"} \/ at'[c] \notin {"idle", "geocode"}
        PROVE  PlaceInv'
    BY <1>1, <2>1, <2>4 DEF PlaceInv, PlaceIsBest, weatherVars
  <2>5. CASE NoPlace(c) \/ ForecastAnswers(c)
    BY <1>2, <2>4, <2>5 DEF NoPlace, ForecastAnswers, PlaceInv, Awaits, Ends
  <2>6. ASSUME BooruStep(c) \/ ArithmeticStep(c), UNCHANGED weatherVars PROVE PlaceInv'
    <3>1. CoarseStep(c) \/ UNCHANGED callVars
      BY <2>6, BooruIsCoarse, MathIsCoarse
    <3>2. CoarseStep(c) => at[c] \in {"idle", "geocode"} \/ at'[c] \notin {"idle", "geocode"}
      BY DEF CoarseStep, Coarse!LookupBegins, Coarse!LookupStep, Coarse!BooruAnswers,
         Coarse!PlaceArrives, Coarse!ForecastArrives, Coarse!Evaluated, Coarse!Ends, PlaceInv
    <3> QED
      BY <1>2, <2>4, <2>6, <3>1, <3>2 DEF callVars
  <2> QED
    BY <1>3, <2>2, <2>3, <2>5, <2>6 DEF Step, WeatherStep
<1>4. CASE UNCHANGED vars
  BY <1>2, <1>4 DEF vars, callVars
<1> QED
  BY <1>3, <1>4 DEF Next

(* The forecast is that of the first place that fits best, for any names,  *)
(* any number of hits and any states.                                      *)
THEOREM PlacesAreBest == Spec => []PlaceIsBest
<1>1. PlaceInv => PlaceIsBest
  BY DEF PlaceInv
<1> QED
  BY <1>1, PlaceInit, PlaceNext, PTL DEF Spec

---------------------------------------------------------------------------
(***************************************************************************)
(* Induction over numbers, without an operator as a parameter: a set of    *)
(* numbers that has 0, and with a number the next one, has all of them.    *)
(***************************************************************************)
LEMMA AllNumbers ==
    ASSUME NEW S, 0 \in S, \A n \in Nat : n \in S => n + 1 \in S
    PROVE  Nat \subseteq S
<1> DEFINE T == Nat \ S
<1> SUFFICES ASSUME T # {} PROVE FALSE
  OBVIOUS
<1>1. Min(T) \in T /\ \A n \in T : Min(T) <= n
  <2> T \subseteq Nat
    OBVIOUS
  <2> HIDE DEF T
  <2> QED
    BY LeastOfNaturals
<1>2. PICK m \in T : \A n \in T : m <= n
  <2> HIDE DEF T
  <2> QED
    BY <1>1
<1>3. m \in Nat /\ m # 0 /\ m \notin S
  OBVIOUS
<1>4. m - 1 \in Nat /\ ~(m <= m - 1)
  BY <1>3
<1>5. m - 1 \in S
  BY <1>2, <1>4
<1>6. (m - 1) + 1 \in S
  BY <1>4, <1>5
<1> QED
  BY <1>3, <1>6

---------------------------------------------------------------------------
(* Powers *)

Multiplies(f, base, N) ==
    f[0] = 1 /\ \A n \in 1..N : f[n] = base * f[n - 1]

LEMMA PowersExist ==
    ASSUME NEW base \in Int, NEW N \in Nat
    PROVE  \E f \in [0..N -> Int] : Multiplies(f, base, N)
<1> DEFINE S == {m \in Nat : \E f \in [0..m -> Int] : Multiplies(f, base, m)}
<1>1. 0 \in S
  <2> DEFINE f == [i \in 0..0 |-> 1]
  <2>1. f \in [0..0 -> Int] /\ f[0] = 1
    OBVIOUS
  <2> HIDE DEF f
  <2>2. Multiplies(f, base, 0)
    BY <2>1 DEF Multiplies
  <2> QED
    BY <2>1, <2>2
<1>2. ASSUME NEW m \in Nat, m \in S PROVE m + 1 \in S
  <2>1. PICK f \in [0..m -> Int] : Multiplies(f, base, m)
    BY <1>2
  <2> DEFINE g == [n \in 0..m + 1 |-> IF n = m + 1 THEN base * f[m] ELSE f[n]]
  <2>2. m \in 0..m /\ f[m] \in Int
    OBVIOUS
  <2>3. base * f[m] \in Int
    BY <2>2
  <2>4. g \in [0..m + 1 -> Int]
    BY <2>3
  <2>5. g[0] = 1
    BY <2>1 DEF Multiplies
  <2>6. ASSUME NEW n \in 1..m + 1 PROVE g[n] = base * g[n - 1]
    BY <2>1, <2>6 DEF Multiplies
  <2> HIDE DEF g
  <2>7. Multiplies(g, base, m + 1)
    BY <2>5, <2>6 DEF Multiplies
  <2> QED
    BY <2>4, <2>7
<1>3. N \in S
  <2> HIDE DEF S
  <2> QED
    BY <1>1, <1>2, AllNumbers
<1> QED
  BY <1>3

LEMMA PowersAgree ==
    ASSUME NEW base \in Int, NEW N \in Nat, NEW f, NEW g,
           Multiplies(f, base, N), Multiplies(g, base, N)
    PROVE  f[N] = g[N]
<1> DEFINE S == {m \in Nat : m <= N => f[m] = g[m]}
<1>1. 0 \in S
  BY DEF Multiplies
<1>2. ASSUME NEW m \in Nat, m \in S PROVE m + 1 \in S
  <2> SUFFICES ASSUME m + 1 <= N PROVE f[m + 1] = g[m + 1]
    OBVIOUS
  <2>1. m + 1 \in 1..N /\ (m + 1) - 1 = m /\ f[m] = g[m]
    BY <1>2
  <2> QED
    BY <2>1 DEF Multiplies
<1>3. N \in S
  <2> HIDE DEF S
  <2> QED
    BY <1>1, <1>2, AllNumbers
<1> QED
  BY <1>3

LEMMA PowerIsRecursive ==
    ASSUME NEW base \in Int, NEW N \in Nat
    PROVE  \E f \in [0..N -> Int] : Multiplies(f, base, N) /\ ExactPower(base, N) = f[N]
<1> DEFINE Body(g) == [n \in 0..N |-> IF n = 0 THEN 1 ELSE base * g[n - 1]]
           power == CHOOSE g : g = Body(g)
<1>1. PICK f \in [0..N -> Int] : Multiplies(f, base, N)
  BY PowersExist
<1>2. ASSUME NEW n \in 0..N PROVE f[n] = Body(f)[n]
  BY <1>1, <1>2 DEF Multiplies
<1>3. f = Body(f)
  BY <1>2
<1>4. power = Body(power)
  BY <1>3
<1>5. ExactPower(base, N) = power[N]
  BY DEF ExactPower
<1> HIDE DEF power
<1>6. Multiplies(power, base, N)
  BY <1>4 DEF Multiplies
<1>7. power[N] = f[N]
  BY <1>1, <1>6, PowersAgree
<1> QED
  BY <1>1, <1>5, <1>7

LEMMA PowerFacts ==
    ASSUME NEW base \in Int, NEW n \in Nat
    PROVE  /\ ExactPower(base, 0) = 1
           /\ ExactPower(base, n) \in Int
           /\ ExactPower(base, n + 1) = base * ExactPower(base, n)
<1>1. PICK e \in [0..0 -> Int] : Multiplies(e, base, 0) /\ ExactPower(base, 0) = e[0]
  BY PowerIsRecursive
<1>2. PICK f \in [0..n -> Int] : Multiplies(f, base, n) /\ ExactPower(base, n) = f[n]
  BY PowerIsRecursive
<1>3. PICK g \in [0..n + 1 -> Int] :
         Multiplies(g, base, n + 1) /\ ExactPower(base, n + 1) = g[n + 1]
  <2>1. n + 1 \in Nat
    OBVIOUS
  <2> QED
    BY <2>1, PowerIsRecursive
<1>4. Multiplies(g, base, n) /\ g[n + 1] = base * g[n]
  BY <1>3 DEF Multiplies
<1>5. f[n] = g[n]
  BY <1>2, <1>4, PowersAgree
<1> QED
  BY <1>1, <1>2, <1>3, <1>4, <1>5 DEF Multiplies

Two(n) == ExactPower(2, n)

LEMMA TwoFacts ==
    ASSUME NEW n \in Nat
    PROVE  Two(0) = 1 /\ Two(n) \in Nat /\ Two(n + 1) = 2 * Two(n) /\ n < Two(n)
<1> DEFINE S == {m \in Nat : Two(m) \in Nat /\ m < Two(m)}
<1>1. \A m \in Nat : Two(0) = 1 /\ Two(m) \in Int /\ Two(m + 1) = 2 * Two(m)
  BY PowerFacts DEF Two
<1>2. 0 \in S
  BY <1>1
<1>3. ASSUME NEW m \in Nat, m \in S PROVE m + 1 \in S
  BY <1>1, <1>3
<1>4. n \in S
  <2> HIDE DEF S
  <2> QED
    BY <1>2, <1>3, AllNumbers
<1> QED
  BY <1>1, <1>4

LEMMA SmallPowers == Two(0) = 1 /\ Two(1) = 2
<1>1. Two(0) = 1 /\ Two(0 + 1) = 2 * Two(0)
  BY TwoFacts
<1> QED
  BY <1>1

LEMMA TwoAdds == ASSUME NEW m \in Nat, NEW n \in Nat PROVE Two(m + n) = Two(m) * Two(n)
<1> DEFINE S == {k \in Nat : Two(m + k) = Two(m) * Two(k)}
<1>1. 0 \in S
  BY TwoFacts
<1>2. ASSUME NEW k \in Nat, k \in S PROVE k + 1 \in S
  <2>1. Two(m + k) = Two(m) * Two(k)
    BY <1>2
  <2>2. m + k \in Nat /\ m + (k + 1) = (m + k) + 1
    OBVIOUS
  <2>3. Two(m + (k + 1)) = 2 * Two(m + k) /\ Two(k + 1) = 2 * Two(k)
    BY <2>2, TwoFacts
  <2>4. Two(m) \in Nat /\ Two(k) \in Nat
    BY TwoFacts
  <2>5. 2 * (Two(m) * Two(k)) = Two(m) * (2 * Two(k))
    BY <2>4
  <2> QED
    BY <2>1, <2>3, <2>5
<1>3. n \in S
  <2> HIDE DEF S
  <2> QED
    BY <1>1, <1>2, AllNumbers
<1> QED
  BY <1>3

LEMMA TwoGrows == ASSUME NEW m \in Nat, NEW n \in Nat, m <= n PROVE Two(m) <= Two(n)
<1>1. PICK k \in Nat : n = m + k
  <2>1. n - m \in Nat /\ n = m + (n - m)
    OBVIOUS
  <2> QED
    BY <2>1
<1>2. Two(n) = Two(m) * Two(k)
  BY <1>1, TwoAdds
<1>3. Two(m) \in Nat /\ Two(k) \in Nat /\ Two(k) >= 1
  BY TwoFacts
<1>4. \A a, b \in Nat : b >= 1 => a <= a * b
  OBVIOUS
<1> QED
  BY <1>2, <1>3, <1>4

---------------------------------------------------------------------------
(* The width of a number: the powers of two it is below. *)

(* bits is the width of every number. *)
IsWidth(bits) ==
    \A n \in Nat : bits[n] = IF n = 0 THEN 0 ELSE 1 + bits[n \div 2]

LEMMA WidthIsRecursive == IsWidth(BitsOf)
<1> DEFINE Body(f) == [n \in Nat |-> IF n = 0 THEN 0 ELSE 1 + f[n \div 2]]
           Above(n) == {k \in Nat : n < Two(k)}
           g == [n \in Nat |-> Min(Above(n))]
<1>1. ASSUME NEW n \in Nat
      PROVE  g[n] \in Nat /\ n < Two(g[n]) /\ \A k \in Nat : n < Two(k) => g[n] <= k
  <2>1. n \in Above(n) /\ Above(n) \subseteq Nat
    BY TwoFacts
  <2>2. Min(Above(n)) \in Above(n) /\ \A k \in Above(n) : Min(Above(n)) <= k
    <3> HIDE DEF Above
    <3> QED
      BY <2>1, LeastOfNaturals
  <2> QED
    BY <2>2
<1>2. ASSUME NEW n \in Nat PROVE g[n] = Body(g)[n]
  <2> HIDE DEF g
  <2>1. CASE n = 0
    <3>1. 0 < Two(0)
      BY TwoFacts
    <3> QED
      BY <1>1, <2>1, <3>1
  <2>2. CASE n # 0
    <3> DEFINE h == n \div 2
    <3>1. h \in Nat /\ 2 * h <= n /\ n < 2 * h + 2
      OBVIOUS
    <3> HIDE DEF h
    <3>2. g[h] \in Nat /\ h < Two(g[h]) /\ Two(g[h] + 1) = 2 * Two(g[h]) /\ Two(g[h]) \in Nat
      BY <1>1, <3>1, TwoFacts
    <3>3. g[n] <= g[h] + 1
      BY <1>1, <3>1, <3>2
    <3>4. g[n] # 0
      <4>1. ASSUME g[n] = 0 PROVE n < Two(0)
        BY <1>1, <4>1
      <4>2. Two(0) = 1
        BY TwoFacts
      <4> QED
        BY <2>2, <4>1, <4>2
    <3> DEFINE k == g[n] - 1
    <3>5. k \in Nat /\ g[n] = k + 1
      BY <1>1, <3>4
    <3> HIDE DEF k
    <3>6. Two(k + 1) = 2 * Two(k) /\ Two(k) \in Nat /\ n < Two(k + 1)
      BY <1>1, <3>5, TwoFacts
    <3>7. h < Two(k)
      BY <3>1, <3>6
    <3>8. g[h] <= k
      BY <1>1, <3>1, <3>5, <3>7
    <3>9. g[n] = 1 + g[h]
      BY <3>2, <3>3, <3>5, <3>8
    <3> QED
      BY <2>2, <3>9 DEF h
  <2> QED
    BY <2>1, <2>2
<1>3. g = Body(g)
  BY <1>2
<1>4. BitsOf = Body(BitsOf)
  <2> HIDE DEF g
  <2> QED
    BY <1>3 DEF BitsOf
<1> QED
  BY <1>4 DEF IsWidth

(* A number has at most k bits if and only if it is below 2 ** k. *)
LEMMA WidthIsBelow ==
    ASSUME NEW n \in Nat
    PROVE  BitsOf[n] \in Nat /\ \A k \in Nat : BitsOf[n] <= k <=> n < Two(k)
<1> DEFINE Right(m) == BitsOf[m] \in Nat /\ \A k \in Nat : BitsOf[m] <= k <=> m < Two(k)
           S == {N \in Nat : \A m \in 0..N : Right(m)}
<1>1. 0 \in S
  <2>1. BitsOf[0] = 0
    BY WidthIsRecursive DEF IsWidth
  <2>2. \A k \in Nat : 0 < Two(k)
    BY TwoFacts
  <2> QED
    BY <2>1, <2>2
<1>2. ASSUME NEW N \in Nat, N \in S PROVE N + 1 \in S
  <2> DEFINE h == (N + 1) \div 2
  <2>1. h \in 0..N /\ 2 * h <= N + 1 /\ N + 1 < 2 * h + 2
    OBVIOUS
  <2>2. BitsOf[N + 1] = 1 + BitsOf[h]
    BY WidthIsRecursive DEF IsWidth
  <2> HIDE DEF h
  <2>3. Right(h)
    BY <1>2, <2>1
  <2>4. ASSUME NEW k \in Nat PROVE BitsOf[N + 1] <= k <=> N + 1 < Two(k)
    <3>1. CASE k = 0
      BY <2>2, <2>3, <3>1, TwoFacts
    <3>2. CASE k # 0
      <4> DEFINE j == k - 1
      <4>1. j \in Nat /\ k = j + 1
        BY <3>2
      <4> HIDE DEF j
      <4>2. Two(k) = 2 * Two(j) /\ Two(j) \in Nat
        BY <4>1, TwoFacts
      <4>3. BitsOf[h] <= j <=> h < Two(j)
        BY <2>3, <4>1
      <4>4. N + 1 < Two(k) <=> h < Two(j)
        BY <2>1, <4>2
      <4>5. BitsOf[N + 1] <= k <=> BitsOf[h] <= j
        BY <2>2, <2>3, <4>1
      <4> QED
        BY <4>3, <4>4, <4>5
    <3> QED
      BY <3>1, <3>2
  <2>5. Right(N + 1)
    BY <2>2, <2>3, <2>4
  <2>6. \A m \in 0..N + 1 : m \in 0..N \/ m = N + 1
    OBVIOUS
  <2> HIDE DEF Right
  <2> QED
    BY <1>2, <2>5, <2>6
<1>3. n \in S
  <2> HIDE DEF S
  <2> QED
    BY <1>1, <1>2, AllNumbers
<1> QED
  BY <1>3

---------------------------------------------------------------------------
(* What the operators make of the width of their operands *)

Narrow(n, k) == Magnitude(n) < Two(k)

LEMMA NarrowIsWidth ==
    ASSUME NEW n \in Int, NEW k \in Nat
    PROVE  /\ BitLength(n) \in Nat /\ Magnitude(n) \in Nat
           /\ BitLength(n) <= k <=> Narrow(n, k)
<1>1. Magnitude(n) \in Nat
  BY DEF Magnitude
<1> QED
  BY <1>1, WidthIsBelow DEF BitLength, Narrow

LEMMA AtMostOne ==
    ASSUME NEW n \in Int PROVE Magnitude(n) <= 1 <=> n \in {-1, 0, 1}
BY DEF Magnitude

LEMMA MagnitudeOfProduct ==
    ASSUME NEW a \in Int, NEW b \in Int
    PROVE  Magnitude(a * b) = Magnitude(a) * Magnitude(b)
<1>1. CASE a >= 0 /\ b >= 0
  <2>1. a * b >= 0
    BY <1>1
  <2> QED
    BY <1>1, <2>1 DEF Magnitude
<1>2. CASE a < 0 /\ b < 0
  <2>1. a * b >= 0 /\ (-a) * (-b) = a * b
    BY <1>2
  <2> QED
    BY <1>2, <2>1 DEF Magnitude
<1>3. CASE a < 0 /\ b >= 0
  <2>1. a * b <= 0 /\ (-a) * b = -(a * b)
    BY <1>3
  <2> QED
    BY <1>3, <2>1 DEF Magnitude
<1>4. CASE a >= 0 /\ b < 0
  <2>1. a * b <= 0 /\ a * (-b) = -(a * b)
    BY <1>4
  <2> QED
    BY <1>4, <2>1 DEF Magnitude
<1> QED
  BY <1>1, <1>2, <1>3, <1>4

LEMMA BelowProduct ==
    ASSUME NEW a \in Nat, NEW b \in Nat, NEW x \in Nat, NEW y \in Nat, a < x, b < y
    PROVE  a * b < x * y
OBVIOUS

LEMMA AboveProduct ==
    ASSUME NEW a \in Nat, NEW b \in Nat, NEW x \in Nat, NEW y \in Nat, x <= a, y <= b
    PROVE  x * y <= a * b
OBVIOUS

(* A quotient is rounded down, and no larger than the dividend; what is    *)
(* left is smaller than the divisor.                                       *)
LEMMA Division ==
    ASSUME NEW a \in Int, NEW b \in Int, b # 0
    PROVE  LET q == FloorDiv(a, b)
           IN  /\ q \in Int /\ Magnitude(q) <= Magnitude(a)
               /\ a - b * q \in Int /\ Magnitude(a - b * q) <= Magnitude(b)
<1>1. ASSUME NEW x \in Int, NEW y \in Int, y > 0
      PROVE  /\ x \div y \in Int /\ Magnitude(x \div y) <= Magnitude(x)
             /\ 0 <= x - y * (x \div y) /\ x - y * (x \div y) < y
  <2> DEFINE q == x \div y
  <2>1. q \in Int /\ y * q <= x /\ x < y * q + y
    BY <1>1
  <2> HIDE DEF q
  <2>2. CASE x >= 0
    <3>1. q >= 0
      <4>1. ASSUME q < 0 PROVE FALSE
        <5>1. y * q + y <= 0
          BY <1>1, <2>1, <4>1
        <5> QED
          BY <2>1, <2>2, <5>1
      <4> QED
        BY <2>1, <4>1
    <3>2. q <= y * q
      BY <1>1, <2>1, <3>1
    <3> QED
      BY <2>1, <2>2, <3>1, <3>2 DEF Magnitude, q
  <2>3. CASE x < 0
    <3>1. q < 0
      <4>1. ASSUME q >= 0 PROVE FALSE
        <5>1. y * q >= 0
          BY <1>1, <2>1, <4>1
        <5> QED
          BY <2>1, <2>3, <5>1
      <4> QED
        BY <2>1, <4>1
    <3>2. y * (q + 1) <= q + 1
      BY <1>1, <2>1, <3>1
    <3>3. y * (q + 1) = y * q + y
      BY <1>1, <2>1
    <3>4. x <= q
      BY <2>1, <3>2, <3>3
    <3> QED
      BY <2>1, <2>3, <3>1, <3>4 DEF Magnitude, q
  <2> QED
    BY <2>2, <2>3
<1>2. CASE b > 0
  <2>1. FloorDiv(a, b) = a \div b
    BY <1>2 DEF FloorDiv
  <2> QED
    BY <1>1, <1>2, <2>1 DEF Magnitude
<1>3. CASE b < 0
  <2> DEFINE q == (-a) \div (-b)
  <2>1. FloorDiv(a, b) = q
    BY <1>3 DEF FloorDiv
  <2>2. -a \in Int /\ -b \in Int /\ -b > 0
    BY <1>3
  <2>3. /\ q \in Int /\ Magnitude(q) <= Magnitude(-a)
        /\ 0 <= (-a) - (-b) * q /\ (-a) - (-b) * q < -b
    BY <1>1, <2>2
  <2> HIDE DEF q
  <2>4. (-b) * q = -(b * q)
    BY <2>3
  <2> QED
    BY <1>3, <2>1, <2>3, <2>4 DEF Magnitude
<1> QED
  BY <1>2, <1>3

LEMMA PowerIsNarrow ==
    ASSUME NEW base \in Int, NEW w \in Nat, Narrow(base, w), NEW n \in Nat \ {0}
    PROVE  Narrow(ExactPower(base, n), w * n)
<1> DEFINE S == {m \in Nat : Narrow(ExactPower(base, m + 1), w * (m + 1))}
<1>1. 0 \in S
  <2>1. ExactPower(base, 0 + 1) = base * ExactPower(base, 0) /\ ExactPower(base, 0) = 1
    BY PowerFacts
  <2>2. ExactPower(base, 0 + 1) = base /\ w * (0 + 1) = w
    BY <2>1
  <2>3. Narrow(ExactPower(base, 0 + 1), w * (0 + 1))
    BY <2>2
  <2> QED
    BY <2>3
<1>2. ASSUME NEW m \in Nat, m \in S PROVE m + 1 \in S
  <2> DEFINE p == ExactPower(base, m + 1)
             r == ExactPower(base, m + 2)
             v == w * (m + 1)
  <2>1. p \in Int /\ r = base * p
    <3>1. m + 1 \in Nat /\ (m + 1) + 1 = m + 2
      OBVIOUS
    <3> QED
      BY <3>1, PowerFacts
  <2>2. v \in Nat /\ w * (m + 2) = w + v
    OBVIOUS
  <2>3. Narrow(p, v)
    BY <1>2
  <2> HIDE DEF p, r, v
  <2>4. Two(w + v) = Two(w) * Two(v)
    BY <2>2, TwoAdds
  <2>5. Magnitude(r) = Magnitude(base) * Magnitude(p)
    BY <2>1, MagnitudeOfProduct
  <2>6. /\ Magnitude(base) \in Nat /\ Magnitude(p) \in Nat /\ Two(w) \in Nat /\ Two(v) \in Nat
        /\ Magnitude(base) < Two(w) /\ Magnitude(p) < Two(v)
    BY <2>1, <2>2, <2>3, NarrowIsWidth, TwoFacts DEF Narrow
  <2>7. Magnitude(base) * Magnitude(p) < Two(w) * Two(v)
    BY <2>6, BelowProduct
  <2>8. Narrow(r, w * (m + 2))
    BY <2>2, <2>4, <2>5, <2>7 DEF Narrow
  <2>9. (m + 1) + 1 = m + 2
    OBVIOUS
  <2> QED
    BY <2>8, <2>9 DEF r
<1>3. n - 1 \in S
  <2>1. n - 1 \in Nat
    OBVIOUS
  <2> HIDE DEF S
  <2> QED
    BY <1>1, <1>2, <2>1, AllNumbers
<1>4. (n - 1) + 1 = n
  OBVIOUS
<1> QED
  BY <1>3, <1>4

LEMMA PowerIsWide ==
    ASSUME NEW base \in Int, NEW w \in Nat, Two(w) <= Magnitude(base), NEW n \in Nat
    PROVE  Two(w * n) <= Magnitude(ExactPower(base, n))
<1> DEFINE S == {m \in Nat : Two(w * m) <= Magnitude(ExactPower(base, m))}
<1>1. 0 \in S
  <2>1. ExactPower(base, 0) = 1 /\ Two(w * 0) = 1
    BY PowerFacts, TwoFacts
  <2> QED
    BY <2>1 DEF Magnitude
<1>2. ASSUME NEW m \in Nat, m \in S PROVE m + 1 \in S
  <2> DEFINE p == ExactPower(base, m)
             r == ExactPower(base, m + 1)
             v == w * m
  <2>1. p \in Int /\ r = base * p
    BY PowerFacts
  <2>2. v \in Nat /\ w * (m + 1) = w + v
    OBVIOUS
  <2>3. Two(v) <= Magnitude(p)
    BY <1>2
  <2> HIDE DEF p, r, v
  <2>4. Two(w + v) = Two(w) * Two(v)
    BY <2>2, TwoAdds
  <2>5. Magnitude(r) = Magnitude(base) * Magnitude(p)
    BY <2>1, MagnitudeOfProduct
  <2>6. Magnitude(base) \in Nat /\ Magnitude(p) \in Nat /\ Two(w) \in Nat /\ Two(v) \in Nat
    BY <2>1, <2>2, NarrowIsWidth, TwoFacts
  <2>7. Two(w) * Two(v) <= Magnitude(base) * Magnitude(p)
    BY <2>3, <2>6, AboveProduct
  <2>8. Two(w * (m + 1)) <= Magnitude(r)
    BY <2>2, <2>4, <2>5, <2>7
  <2> QED
    BY <2>8 DEF r
<1>3. n \in S
  <2> HIDE DEF S
  <2> QED
    BY <1>1, <1>2, AllNumbers
<1> QED
  BY <1>3

(* The width above one of a number is that of a power of two it reaches. *)
LEMMA WidthIsReached ==
    ASSUME NEW n \in Int, Magnitude(n) > 1
    PROVE  BitLength(n) - 1 \in Nat \ {0} /\ Two(BitLength(n) - 1) <= Magnitude(n)
<1>1. BitLength(n) \in Nat
  BY NarrowIsWidth
<1>2. ~(BitLength(n) <= 0) /\ ~(BitLength(n) <= 1)
  <2>1. Two(0) = 1 /\ Two(1) = 2
    BY SmallPowers
  <2>2. ~Narrow(n, 0) /\ ~Narrow(n, 1)
    BY <1>1, <2>1, NarrowIsWidth DEF Narrow
  <2> QED
    BY <2>2, NarrowIsWidth
<1> DEFINE k == BitLength(n) - 1
<1>3. k \in Nat \ {0} /\ ~(BitLength(n) <= k)
  BY <1>1, <1>2
<1> HIDE DEF k
<1>4. ~Narrow(n, k) /\ Magnitude(n) \in Nat /\ Two(k) \in Nat
  BY <1>3, NarrowIsWidth, TwoFacts
<1>5. Two(k) <= Magnitude(n)
  BY <1>4 DEF Narrow
<1> QED
  BY <1>3, <1>5 DEF k

(* A power is refused only if it is too wide, and one that is computed is  *)
(* less than twice as wide as an integer may be.                           *)
LEMMA RefusedIsTooWide ==
    ASSUME NEW base \in Int, NEW e \in Nat, Refuses(base, e)
    PROVE  ~Fits(ExactPower(base, e))
<1> DEFINE w == BitLength(base) - 1
           p == ExactPower(base, e)
<1>1. w \in Nat /\ Two(w) <= Magnitude(base) /\ w * e > MaxBits
  BY WidthIsReached DEF Refuses
<1>2. p \in Int
  BY PowerFacts
<1> HIDE DEF w
<1>3. Two(w * e) <= Magnitude(p)
  BY <1>1, PowerIsWide
<1> HIDE DEF p
<1>4. w * e \in Nat /\ MaxBits \in Nat
  BY <1>1, ArithmeticAssumption
<1>5. Two(MaxBits) <= Two(w * e) /\ Two(MaxBits) \in Nat /\ Two(w * e) \in Nat
  <2> DEFINE v == w * e
  <2>1. v \in Nat /\ MaxBits <= v
    BY <1>1, <1>4
  <2> HIDE DEF v
  <2>2. Two(MaxBits) <= Two(v) /\ Two(MaxBits) \in Nat /\ Two(v) \in Nat
    BY <1>4, <2>1, TwoGrows, TwoFacts
  <2> QED
    BY <2>2 DEF v
<1>6. ~Narrow(p, MaxBits)
  BY <1>2, <1>3, <1>5, NarrowIsWidth DEF Narrow
<1>7. ~Fits(p)
  BY <1>2, <1>4, <1>6, NarrowIsWidth DEF Fits
<1> QED
  BY <1>7 DEF p

Bounded(n) == n \in Int /\ BitLength(n) <= 2 * MaxBits

LEMMA SmallIsBounded ==
    ASSUME NEW n \in Int, NEW k \in Nat, k <= 2 * MaxBits, Narrow(n, k)
    PROVE  Bounded(n)
<1>1. BitLength(n) \in Nat /\ BitLength(n) <= k
  BY NarrowIsWidth
<1> QED
  BY <1>1, ArithmeticAssumption DEF Bounded

LEMMA PowerIsBounded ==
    ASSUME NEW base \in Int, NEW e \in Nat, Fits(base), ~Refuses(base, e)
    PROVE  Bounded(ExactPower(base, e))
<1> DEFINE b == BitLength(base)
           p == ExactPower(base, e)
<1>1. p \in Int /\ b \in Nat /\ b <= MaxBits /\ MaxBits \in Nat \ {0}
  BY PowerFacts, NarrowIsWidth, ArithmeticAssumption DEF Fits
<1>2. Two(1) = 2 /\ Two(0) = 1
  BY SmallPowers
<1>3. CASE e = 0
  <2>1. p = 1
    BY <1>3, PowerFacts
  <2>2. Narrow(p, 1)
    BY <1>2, <2>1 DEF Narrow, Magnitude
  <2> QED
    BY <1>1, <2>2, SmallIsBounded
<1>4. CASE e # 0 /\ Magnitude(base) <= 1
  <2>1. base \in {-1, 0, 1}
    BY <1>4 DEF Magnitude
  <2>2. Magnitude(p) <= 1
    <3> DEFINE S == {m \in Nat : Magnitude(ExactPower(base, m)) <= 1}
    <3>1. 0 \in S
      BY PowerFacts DEF Magnitude
    <3>2. ASSUME NEW m \in Nat, m \in S PROVE m + 1 \in S
      <4>1. ExactPower(base, m) \in Int /\ ExactPower(base, m + 1) = base * ExactPower(base, m)
        BY PowerFacts
      <4>2. ExactPower(base, m) \in {-1, 0, 1}
        <5>1. Magnitude(ExactPower(base, m)) <= 1
          BY <3>2
        <5> QED
          BY <4>1, <5>1, AtMostOne
      <4>3. ExactPower(base, m + 1) \in {-1, 0, 1}
        BY <2>1, <4>1, <4>2
      <4> QED
        BY <4>3 DEF Magnitude
    <3> HIDE DEF S
    <3>3. e \in S
      BY <3>1, <3>2, AllNumbers
    <3> QED
      BY <3>3 DEF S
  <2>3. Narrow(p, 1)
    BY <1>1, <1>2, <2>2 DEF Narrow, Magnitude
  <2> QED
    BY <1>1, <2>3, SmallIsBounded
<1>5. CASE e # 0 /\ Magnitude(base) > 1
  <2>1. (b - 1) * e <= MaxBits /\ b - 1 \in Nat \ {0}
    <3>1. b - 1 \in Nat \ {0}
      BY <1>5, WidthIsReached
    <3> HIDE DEF b
    <3>2. (b - 1) * e \in Nat
      BY <3>1
    <3>3. ~((BitLength(base) - 1) * e > MaxBits)
      BY <1>5 DEF Refuses
    <3> QED
      BY <1>1, <3>1, <3>2, <3>3 DEF b
  <2>2. Narrow(p, b * e)
    <3>1. Narrow(base, b)
      BY <1>1, NarrowIsWidth
    <3> HIDE DEF b
    <3> QED
      BY <1>1, <1>5, <3>1, PowerIsNarrow
  <2> HIDE DEF b, p
  <2>3. e <= (b - 1) * e /\ b * e = (b - 1) * e + e /\ b * e \in Nat
    BY <1>1, <2>1
  <2>4. b * e <= 2 * MaxBits
    BY <1>1, <2>1, <2>3
  <2> QED
    BY <1>1, <2>2, <2>3, <2>4, SmallIsBounded DEF p
<1> QED
  BY <1>1, <1>3, <1>4, <1>5, NarrowIsWidth

LEMMA FittingIsBounded ==
    ASSUME NEW a \in Int, NEW n \in Int, Fits(a), Magnitude(n) <= Magnitude(a)
    PROVE  Bounded(n)
<1>1. MaxBits \in Nat
  BY ArithmeticAssumption
<1>2. Narrow(a, MaxBits) /\ Magnitude(a) \in Nat /\ Magnitude(n) \in Nat /\ Two(MaxBits) \in Nat
  BY <1>1, NarrowIsWidth, TwoFacts DEF Fits
<1>3. Narrow(n, MaxBits)
  BY <1>2 DEF Narrow
<1> QED
  BY <1>1, <1>3, SmallIsBounded

LEMMA ExactIsBounded ==
    ASSUME NEW a \in Int, NEW b \in Int, Fits(a), Fits(b), NEW n \in Exact2(a, b)
    PROVE  Bounded(n)
<1>1. MaxBits \in Nat \ {0} /\ 2 * MaxBits = MaxBits + MaxBits /\ MaxBits + 1 \in Nat
  BY ArithmeticAssumption
<1>2. /\ Magnitude(a) \in Nat /\ Magnitude(b) \in Nat /\ Two(MaxBits) \in Nat
      /\ Magnitude(a) < Two(MaxBits) /\ Magnitude(b) < Two(MaxBits)
  BY <1>1, NarrowIsWidth, TwoFacts DEF Fits, Narrow
<1>3. CASE n = a + b \/ n = a - b
  <2>1. n \in Int /\ Magnitude(n) < 2 * Two(MaxBits)
    BY <1>2, <1>3 DEF Magnitude
  <2>2. Narrow(n, MaxBits + 1)
    BY <1>1, <2>1, TwoFacts DEF Narrow
  <2> QED
    BY <1>1, <2>1, <2>2, SmallIsBounded
<1>4. CASE n = a * b
  <2>1. n \in Int /\ Magnitude(n) = Magnitude(a) * Magnitude(b)
    BY <1>4, MagnitudeOfProduct
  <2>2. Magnitude(a) * Magnitude(b) < Two(MaxBits) * Two(MaxBits)
    BY <1>2, BelowProduct
  <2>3. Two(MaxBits + MaxBits) = Two(MaxBits) * Two(MaxBits)
    BY <1>1, TwoAdds
  <2>4. Narrow(n, MaxBits + MaxBits)
    BY <2>1, <2>2, <2>3 DEF Narrow
  <2> QED
    BY <1>1, <2>1, <2>4, SmallIsBounded
<1>5. CASE n \in {a, b}
  BY <1>2, <1>5, FittingIsBounded
<1>6. CASE b # 0 /\ n \in {FloorDiv(a, b), a - b * FloorDiv(a, b)}
  BY <1>6, Division, FittingIsBounded
<1> QED
  BY <1>3, <1>4, <1>5, <1>6 DEF Exact2

---------------------------------------------------------------------------
(* The evaluation: what waits on the stack fits, and what was computed is  *)
(* bounded.                                                                *)

Values == [exact : BOOLEAN, n : Int]

MathInv ==
    /\ stack \in Seq(Values) /\ widest \in Nat /\ widest <= 2 * MaxBits
    /\ \A i \in DOMAIN stack : stack[i].exact => Fits(stack[i].n)

LEMMA MathInit == Init => MathInv
BY ArithmeticAssumption DEF Init, ArithmeticInit, MathInv

LEMMA ComputesKeeps ==
    ASSUME MathInv, NEW c, NEW k \in 0..Len(stack), NEW v \in Values,
           v.exact => Bounded(v.n), Computes(c, k, v)
    PROVE  MathInv'
<1>1. widest' \in Nat /\ widest' <= 2 * MaxBits
  <2>1. CASE v.exact /\ BitLength(v.n) > widest
    <3>1. v.n \in Int /\ BitLength(v.n) \in Nat
      BY NarrowIsWidth DEF Values
    <3> QED
      BY <2>1, <3>1 DEF Computes, Bounded
  <2>2. CASE ~(v.exact /\ BitLength(v.n) > widest)
    BY <2>2 DEF Computes, MathInv
  <2> QED
    BY <2>1, <2>2
<1>2. CASE stack' = stack
  BY <1>1, <1>2 DEF MathInv
<1>3. CASE /\ ~(v.exact /\ ~Fits(v.n))
           /\ stack' = Append(SubSeq(stack, 1, Len(stack) - k), v)
  <2> DEFINE rest == SubSeq(stack, 1, Len(stack) - k)
  <2>1. /\ stack \in Seq(Values) /\ Len(stack) \in Nat /\ DOMAIN stack = 1..Len(stack)
        /\ Len(stack) - k \in 0..Len(stack)
    BY LenProperties DEF MathInv
  <2>2. /\ rest \in Seq(Values) /\ Len(rest) = Len(stack) - k
        /\ \A i \in 1..Len(rest) : rest[i] = stack[i]
    <3> DEFINE m == Len(stack) - k
    <3>1. m \in Nat /\ \A i \in 1..m : stack[i] \in Values
      BY <2>1, ElementOfSeq
    <3> HIDE DEF m
    <3>2. /\ SubSeq(stack, 1, m) \in Seq(Values) /\ Len(SubSeq(stack, 1, m)) = m
          /\ \A i \in 1..m : SubSeq(stack, 1, m)[i] = stack[i]
      BY <3>1, SubSeqProperties
    <3> QED
      BY <3>2 DEF m
  <2> HIDE DEF rest
  <2>3. \A i \in 1..Len(rest) : rest[i].exact => Fits(rest[i].n)
    <3>1. \A i \in 1..Len(rest) : i \in DOMAIN stack
      BY <2>1, <2>2
    <3> QED
      BY <2>2, <3>1 DEF MathInv
  <2>4. /\ stack' \in Seq(Values) /\ Len(stack') = Len(rest) + 1
        /\ DOMAIN stack' = 1..Len(rest) + 1
        /\ \A i \in 1..Len(rest) : stack'[i] = rest[i]
        /\ stack'[Len(rest) + 1] = v
    BY <1>3, <2>2, AppendProperties, LenProperties DEF rest
  <2>5. ASSUME NEW i \in DOMAIN stack', stack'[i].exact PROVE Fits(stack'[i].n)
    <3>1. CASE i = Len(rest) + 1
      BY <1>3, <2>4, <2>5, <3>1
    <3>2. CASE i \in 1..Len(rest)
      BY <2>3, <2>4, <2>5, <3>2
    <3> QED
      BY <2>1, <2>2, <2>4, <3>1, <3>2
  <2> QED
    BY <1>1, <2>4, <2>5 DEF MathInv
<1> QED
  BY <1>2, <1>3 DEF Computes, EvaluationEnds

LEMMA NumberIsValue ==
    ASSUME NEW n, Bounded(n)
    PROVE  Number(n) \in Values /\ (Number(n).exact => Bounded(Number(n).n))
BY DEF Number, Values, Bounded

LEMMA InexactIsValue == Inexact \in Values /\ ~Inexact.exact
BY DEF Inexact, Values

LEMMA Operands ==
    ASSUME MathInv, Len(stack) >= 1
    PROVE  /\ 1 \in 0..Len(stack) /\ Top \in Values
           /\ Top.exact => Fits(Top.n) /\ Bounded(Top.n)
           /\ Len(stack) >= 2 =>
                 /\ 2 \in 0..Len(stack) /\ Below \in Values
                 /\ Below.exact => Fits(Below.n) /\ Bounded(Below.n)
<1>1. /\ Len(stack) \in Nat /\ DOMAIN stack = 1..Len(stack)
      /\ \A i \in DOMAIN stack : stack[i] \in Values
  BY LenProperties, ElementOfSeq DEF MathInv
<1>2. ASSUME NEW i \in DOMAIN stack, stack[i].exact
      PROVE  Fits(stack[i].n) /\ Bounded(stack[i].n)
  <2> DEFINE n == stack[i].n
  <2>1. n \in Int /\ Fits(n)
    BY <1>1, <1>2 DEF MathInv, Values
  <2> HIDE DEF n
  <2>2. Magnitude(n) \in Nat /\ Magnitude(n) <= Magnitude(n)
    BY <2>1 DEF Magnitude
  <2>3. Bounded(n)
    BY <2>1, <2>2, FittingIsBounded
  <2> QED
    BY <2>1, <2>3 DEF n
<1>3. Top = stack[Len(stack)] /\ Len(stack) \in DOMAIN stack
  BY <1>1 DEF Top
<1>4. Len(stack) >= 2 => Below = stack[Len(stack) - 1] /\ Len(stack) - 1 \in DOMAIN stack
  BY <1>1 DEF Below
<1> QED
  BY <1>1, <1>2, <1>3, <1>4

LEMMA ConstantKeeps == ASSUME MathInv, NEW c, Constant(c) PROVE MathInv'
<1>1. 0 \in 0..Len(stack)
  BY LenProperties DEF MathInv
<1>2. ASSUME NEW n \in 0..ExactPower(2, MaxBits) PROVE Bounded(n)
  <2>1. MaxBits \in Nat \ {0} /\ Two(MaxBits) \in Nat /\ Two(MaxBits + 1) = 2 * Two(MaxBits)
        /\ MaxBits < Two(MaxBits)
    BY ArithmeticAssumption, TwoFacts
  <2>2. n \in Int /\ Magnitude(n) = n /\ n <= Two(MaxBits)
    BY <2>1 DEF Two, Magnitude
  <2>3. Narrow(n, MaxBits + 1) /\ MaxBits + 1 \in Nat /\ MaxBits + 1 <= 2 * MaxBits
    BY <2>1, <2>2 DEF Narrow
  <2> QED
    BY <2>2, <2>3, SmallIsBounded
<1>3. CASE \E n \in 0..ExactPower(2, MaxBits) : Computes(c, 0, Number(n))
  BY <1>1, <1>2, <1>3, NumberIsValue, ComputesKeeps
<1>4. CASE Computes(c, 0, Inexact)
  BY <1>1, <1>4, InexactIsValue, ComputesKeeps
<1> QED
  BY <1>3, <1>4 DEF Constant

LEMMA UnaryKeeps == ASSUME MathInv, NEW c, Unary(c) PROVE MathInv'
<1>1. /\ 1 \in 0..Len(stack) /\ Top \in Values
      /\ Top.exact => Fits(Top.n)
  BY Operands DEF Unary
<1>2. ASSUME Top.exact,
             NEW n \in {Top.n, -Top.n, Magnitude(Top.n),
                        IF Top.n > 0 THEN 1 ELSE IF Top.n < 0 THEN -1 ELSE 0}
      PROVE  Bounded(n)
  <2>1. Top.n \in Int /\ n \in Int /\ Magnitude(n) <= Magnitude(Top.n)
    BY <1>1 DEF Values, Magnitude
  <2> QED
    BY <1>1, <1>2, <2>1, FittingIsBounded
<1>3. CASE Top.exact /\ \E n \in {Top.n, -Top.n, Magnitude(Top.n)} : Computes(c, 1, Number(n))
  BY <1>1, <1>2, <1>3, NumberIsValue, ComputesKeeps
<1>4. CASE Top.exact /\ Computes(c, 1, Number(IF Top.n > 0 THEN 1 ELSE IF Top.n < 0 THEN -1 ELSE 0))
  BY <1>1, <1>2, <1>4, NumberIsValue, ComputesKeeps
<1>5. CASE Computes(c, 1, Inexact)
  BY <1>1, <1>5, InexactIsValue, ComputesKeeps
<1> QED
  BY <1>3, <1>4, <1>5 DEF Unary

LEMMA BinaryKeeps == ASSUME MathInv, NEW c, Binary(c) PROVE MathInv'
<1>1. /\ 2 \in 0..Len(stack) /\ Top \in Values /\ Below \in Values
      /\ Top.exact => Fits(Top.n) /\ Bounded(Top.n)
      /\ Below.exact => Fits(Below.n) /\ Bounded(Below.n)
  <2>1. Len(stack) >= 2 /\ Len(stack) >= 1
    BY LenProperties DEF Binary, MathInv
  <2> QED
    BY <2>1, Operands
<1>2. CASE /\ Top.exact /\ Below.exact
           /\ \E n \in Exact2(Below.n, Top.n) : Computes(c, 2, Number(n))
  <2>1. PICK n \in Exact2(Below.n, Top.n) : Computes(c, 2, Number(n))
    BY <1>2
  <2>2. Bounded(n)
    BY <1>1, <1>2, ExactIsBounded DEF Values
  <2> QED
    BY <1>1, <2>1, <2>2, NumberIsValue, ComputesKeeps
<1>3. CASE \E v \in {Top, Below} : Computes(c, 2, v)
  BY <1>1, <1>3, ComputesKeeps
<1>4. CASE Computes(c, 2, Inexact)
  BY <1>1, <1>4, InexactIsValue, ComputesKeeps
<1> QED
  BY <1>2, <1>3, <1>4 DEF Binary

LEMMA PowerKeeps == ASSUME MathInv, NEW c, Power(c) PROVE MathInv'
<1>1. /\ 2 \in 0..Len(stack) /\ Top \in Values /\ Below \in Values
      /\ Below.exact => Fits(Below.n)
  <2>1. Len(stack) >= 2 /\ Len(stack) >= 1
    BY LenProperties DEF Power, MathInv
  <2> QED
    BY <2>1, Operands
<1>2. CASE Computes(c, 2, Inexact)
  BY <1>1, <1>2, InexactIsValue, ComputesKeeps
<1>3. CASE EvaluationEnds(c) /\ UNCHANGED widest
  BY <1>3 DEF EvaluationEnds, MathInv
<1>4. CASE /\ Top.exact /\ Below.exact /\ ~(Top.n < 0) /\ ~Refuses(Below.n, Top.n)
           /\ Computes(c, 2, Number(ExactPower(Below.n, Top.n)))
  <2>1. Below.n \in Int /\ Top.n \in Nat
    BY <1>1, <1>4 DEF Values
  <2>2. Bounded(ExactPower(Below.n, Top.n))
    BY <1>1, <1>4, <2>1, PowerIsBounded
  <2> QED
    BY <1>1, <1>4, <2>2, NumberIsValue, ComputesKeeps
<1> QED
  BY <1>2, <1>3, <1>4 DEF Power

LEMMA MathNext == MathInv /\ [Next]_vars => MathInv'
<1> SUFFICES ASSUME MathInv, [Next]_vars PROVE MathInv'
  OBVIOUS
<1>1. CASE UNCHANGED mathVars
  BY <1>1 DEF mathVars, MathInv
<1>2. ASSUME NEW c, ArithmeticStep(c) PROVE MathInv'
  <2>1. CASE ExpressionSent(c) \/ Evaluates(c)
    BY <1>1, <2>1 DEF ExpressionSent, Evaluates
  <2>2. CASE Fails(c)
    BY <1>1, <2>2 DEF Fails, EvaluationEnds, mathVars
  <2> QED
    BY <1>2, <2>1, <2>2, ConstantKeeps, UnaryKeeps, BinaryKeeps, PowerKeeps
    DEF ArithmeticStep
<1> QED
  BY <1>1, <1>2 DEF Next, Step, vars

(* Whatever the expression, for any cap: no integer that is kept is wider  *)
(* than the cap, none that is computed more than twice as wide, and a      *)
(* power is refused only if it does not fit (skill.py:85-95).              *)
THEOREM ArithmeticIsBounded == Spec => []IntegersStaySmall
<1>1. Spec => []MathInv
  BY MathInit, MathNext, PTL DEF Spec
<1>2. MathInv => IntegersStaySmall
  <2> SUFFICES ASSUME MathInv PROVE IntegersStaySmall
    OBVIOUS
  <2>1. ASSUME Len(stack) >= 2, Top.exact, Below.exact, Refuses(Below.n, Top.n)
        PROVE  ~Fits(ExactPower(Below.n, Top.n))
    <3>1. Len(stack) \in Nat /\ Len(stack) >= 1
      BY <2>1, LenProperties DEF MathInv
    <3>2. Below.n \in Int /\ Top.n \in Int /\ Top.n > 0
      BY <2>1, <3>1, Operands DEF Values, Refuses
    <3> QED
      BY <2>1, <3>2, RefusedIsTooWide
  <2> QED
    BY <2>1 DEF IntegersStaySmall, MathInv
<1> QED
  BY <1>1, <1>2, PTL
=============================================================================
