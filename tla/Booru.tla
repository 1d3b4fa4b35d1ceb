------------------------------- MODULE Booru --------------------------------
(***************************************************************************)
(* A booru search: the request built from the arguments and the channel,   *)
(* the query of either provider, and what the engine makes of the site's   *)
(* answer.  One request, of which the first post is shown.                 *)
(*                                                                         *)
(* The sites are external: they are taken to honour a query, and the tags  *)
(* a user writes to be plain tags.                                         *)
(***************************************************************************)
EXTENDS ToolCall

CONSTANTS
    Words,    \* the words of a search
    Scores    \* scores of posts, and minimal scores asked for

ASSUME BooruAssumption == Scores \subseteq Int

VARIABLES
    search,    \* the arguments, the site, and whether the channel is age-gated
    reply,     \* how the site answered
    said,      \* what the user is told
    shown,     \* the post on the card, if there is one
    recorded   \* the outcome recorded as telemetry

booruVars == <<search, reply, said, shown, recorded>>

Sites == {"e621", "derpibooru"}

(* Of what may be left out there is a set of at most one.  The sort a      *)
(* search has when none is named is random.                                *)
Optional(S) == {{}} \cup {{x} : x \in S}

KnownTypes == {"png", "gif"}
KnownSorts == {"random", "score"}

Phrases == UNION {[1..n -> Words] : n \in 0..2}

Searches ==
    [site : Sites, words : Phrases, commas : BOOLEAN, minScore : Optional(Scores),
     fileType : Optional(KnownTypes \cup {"nonsense"}),
     sort : Optional({"score", "nonsense"}), explicit : BOOLEAN]

(* e621 splits at blanks and Derpibooru at commas; what the other would    *)
(* split is one tag of several words.                                      *)
ParseTags(s) ==
    IF s.commas = (s.site = "derpibooru")
    THEN {<<s.words[i]>> : i \in DOMAIN s.words}
    ELSE IF s.words = <<>> THEN {} ELSE {s.words}

(* A channel that is not age-gated is searched for safe posts only. *)
SafeOnly(s) == ~s.explicit

(* Mutant: a minimal score of zero is taken for none. *)
TruthyFloor(s) == {n \in s.minScore : n # 0}

(* NumericFilter is there when a side of it is, zero included. *)
Floor(s) == s.minScore

(* What the query asks of a post: tags, rating, type and score. *)
Query(s) ==
    [tags |-> ParseTags(s), ratings |-> IF SafeOnly(s) THEN {"safe"} ELSE {},
     types |-> s.fileType, floor |-> Floor(s)]

E621Ratings == {"safe", "questionable", "explicit"}

(* The ratings of Derpibooru, most severe first. *)
Severity == <<"explicit", "grimdark", "grotesque", "semi-grimdark",
              "questionable", "suggestive", "safe">>

PostsWith(ratingSets) ==
    [tags : SUBSET {<<w>> : w \in Words}, ratings : ratingSets,
     type : KnownTypes, score : Scores, url : BOOLEAN]

(* A post has one rating, or it is missing.  Its file can be hidden. *)
E621Posts == PostsWith({{}} \cup {{r} : r \in E621Ratings})

(* Ratings are tags, of which a post can have several. *)
DerpibooruPosts == PostsWith({{}} \cup {{Severity[i], Severity[j]} :
                                          i, j \in DOMAIN Severity})

Matches(post, query) ==
    /\ query.tags \subseteq post.tags
    /\ query.ratings \subseteq post.ratings
    /\ query.types \subseteq {post.type}
    /\ \A n \in query.floor : post.score >= n

(* The color of a card: of its rating, or as if it were safe. *)
E621Color(post) ==
    IF post.ratings = {} THEN "safe" ELSE CHOOSE r \in post.ratings : TRUE

(* The color of the worst rating, or as if it were safe. *)
DerpibooruColor(post) ==
    IF post.ratings = {} THEN "safe"
    ELSE Severity[CHOOSE i \in DOMAIN Severity :
                     /\ Severity[i] \in post.ratings
                     /\ \A j \in 1..i - 1 : Severity[j] \notin post.ratings]

PostsOf(site) == IF site = "e621" THEN E621Posts ELSE DerpibooruPosts
Color(site, post) == IF site = "e621" THEN E621Color(post) ELSE DerpibooruColor(post)

(* No answer; one that is no JSON, no object, an error with the site's own *)
(* message, an object with neither a message nor a list of posts ({}, or   *)
(* {"success": false} alone), posts that cannot be read, or posts; with a  *)
(* status below 400 or not.                                                *)
Replies(s) ==
    [how : {"none", "text", "no object", "message", "no list", "broken"}, good : BOOLEAN,
     posts : {<<>>}]
    \cup [how : {"posts"}, good : BOOLEAN,
          posts : {<<>>} \cup {<<post>> : post \in {p \in PostsOf(s.site) :
                                                     Matches(p, Query(s))}}]

NoReply == [how |-> "none", good |-> FALSE, posts |-> <<>>]

NoSearch == CHOOSE s \in Searches : s.words = <<>>

BooruInit ==
    /\ search = NoSearch
    /\ reply = NoReply
    /\ said = "nothing" /\ shown = <<>> /\ recorded = "nothing"

Valid(s) == s.sort \subseteq KnownSorts /\ s.fileType \subseteq KnownTypes

(* The request is built before the try block: a sort or a type the site    *)
(* does not have raises, and nothing is recorded.                          *)
SearchBuilt(c) ==
    /\ at[c] = "idle"
    /\ search' \in Searches
    /\ IF Valid(search') THEN Awaits(c, "booru") ELSE Ends(c, "raised")
    /\ UNCHANGED <<reply, said, shown, recorded>>

(* The first post, if its file can be seen. *)
Parse(posts) == IF posts # <<>> /\ Head(posts).url THEN <<Head(posts)>> ELSE <<>>

EmptyNote(s) == IF SafeOnly(s) THEN "safe floor" ELSE "no match"

(* Mutant: a body that is no JSON passes for one without posts. *)
LenientVerdict(r) ==
    CASE r.how \in {"none", "no object"} -> "network failure"
      [] r.how = "message" -> "site's message"
      [] r.how \in {"text", "no list", "broken", "posts"} /\ ~r.good -> "HTTP error"
      [] r.how = "broken" /\ r.good -> "network failure"
      [] r.how \in {"text", "no list", "posts"} /\ r.good ->
           IF Parse(r.posts) = <<>> THEN EmptyNote(search) ELSE "card"

(* The body's error is read before the status, and the posts after it.     *)
(* What is no object, or has posts that cannot be read, raises like a      *)
(* failure of the network; an object without a list of posts is read as    *)
(* one with an empty list, which is the default of both models.            *)
Verdict(r) ==
    CASE r.how \in {"none", "no object"} -> "network failure"
      [] r.how = "message" -> "site's message"
      [] r.how \in {"text", "no list", "broken", "posts"} /\ ~r.good -> "HTTP error"
      [] r.how = "text" /\ r.good -> "unreadable"
      [] r.how = "broken" /\ r.good -> "network failure"
      [] r.how \in {"no list", "posts"} /\ r.good ->
           IF Parse(r.posts) = <<>> THEN EmptyNote(search) ELSE "card"

(* The outcome that is recorded for it, and how the call ends. *)
OutcomeOf(verdict) ==
    CASE verdict = "card" -> "ok"
      [] verdict = "safe floor" -> "safe_limited"
      [] verdict = "no match" -> "empty"
      [] OTHER -> "error"

EndOf(verdict) ==
    CASE verdict = "card" -> "card"
      [] verdict \in {"safe floor", "no match"} -> "empty"
      [] OTHER -> "unavailable"

SiteAnswers(c) ==
    /\ at[c] = "booru"
    /\ reply' \in Replies(search)
    /\ said' = Verdict(reply')
    /\ shown' = IF said' = "card" THEN Parse(reply'.posts) ELSE <<>>
    /\ recorded' = OutcomeOf(said')
    /\ Ends(c, EndOf(said'))
    /\ UNCHANGED search

BooruStep(c) == SearchBuilt(c) \/ SiteAnswers(c)

---------------------------------------------------------------------------
(* Properties *)

(* A card shows a post whose file can be seen, with every tag, the type    *)
(* and the score the user asked for, a score of zero included; rated safe  *)
(* in a channel that is not age-gated (types.py:38-41, "the one-way safety *)
(* floor"), as far as the site honours the query; and its color is never   *)
(* that of a rating milder than one the post has (derpibooru.py:71,        *)
(* "the worst rating tag present decides").                                *)
AsAsked ==
    \A i \in DOMAIN shown :
        LET post == shown[i]
        IN  /\ post.url
            /\ search.commas = (search.site = "derpibooru") =>
                 \A j \in DOMAIN search.words : <<search.words[j]>> \in post.tags
            /\ search.fileType \subseteq {post.type}
            /\ \A n \in search.minScore : n <= post.score
            /\ ~search.explicit => "safe" \in post.ratings
            /\ \A j, k \in DOMAIN Severity :
                 Severity[j] \in post.ratings /\ Severity[k] = Color(search.site, post)
                   => k <= j

(* Nobody is told that there is nothing unless the site said so, in an     *)
(* answer that could be read, or hid what it had, or answered with success *)
(* and an object that has no list of posts at all: of that one the code    *)
(* cannot tell (e621.py:92, derpibooru.py:104).  The site's own message is *)
(* passed on whatever the status; the safety floor is named as the reason  *)
(* only where it was one; and what is recorded is what was told            *)
(* (engine.py:4-7 and 70, "don't fake 'no results'").                      *)
ToldWhatHappened ==
    /\ said \in {"no match", "safe floor"} =>
         /\ reply.good /\ reply.how \in {"posts", "no list"}
         /\ \A i \in DOMAIN reply.posts : ~reply.posts[i].url
    /\ said # "nothing" /\ reply.how = "message" => said = "site's message"
    /\ said = "safe floor" => ~search.explicit
    /\ recorded \in {"empty", "safe_limited"} <=> said \in {"no match", "safe floor"}
    /\ recorded = "safe_limited" <=> said = "safe floor"
    /\ recorded = "ok" <=> shown # <<>>
=============================================================================
