------------------------------- MODULE Turns --------------------------------
(***************************************************************************)
(* The turns one container of the core serves, one after another, from     *)
(* what starts them to the last message on Discord: a slash command, which *)
(* runs one skill after its interaction was deferred, or a chat turn,      *)
(* whose agent runs several at once.  Only what the skills remember (the   *)
(* totals of LeetCode) outlives a turn, until the container is replaced.   *)
(***************************************************************************)
EXTENDS WebFetch, WebSearch, LeetCode, Lookups, Chunks

CONSTANT Texts   \* the texts an answer can have

(* A model's answer is stripped, and can be left blank. *)
ASSUME TextsAssumption ==
    /\ \A t \in Texts : t \in Seq(Characters)
    /\ <<>> \in Texts

VARIABLES
    kind,     \* the turn: "slash" or "chat"
    stage,    \* where it is: "begun", "core", "voice", "sending" or
              \* "over"
    text,     \* the text of its answer
    card,     \* whether a card goes with it
    parts,    \* the messages that are still to be sent
    shown,    \* the messages that were
    failed,   \* whether sending one raised
    by        \* who gave the answer: "voice", the core's "apology", the
              \* "edge" alone, or "nobody" yet

answerVars == <<text, card, parts, shown, failed, by>>
skillVars == <<callVars, fetchVars, searchVars, siteVars, drawVars>>
vars == <<kind, stage, answerVars, skillVars>>

(* SERVICE_UNREACHABLE and its like: a line of the code's own. *)
Apology == <<"letter">>

SlashSkills == {"math", "booru", "leetcode"}

Init ==
    /\ kind = "slash"
    /\ stage = "over"
    /\ text = <<>> /\ card = FALSE
    /\ parts = <<>> /\ shown = <<>> /\ failed = FALSE
    /\ by = "nobody"
    /\ CallsInit /\ FetchInit /\ SearchInit /\ LeetInit

TurnBegins ==
    /\ stage = "over"
    /\ kind' \in {"slash", "chat"}
    /\ stage' = "begun"
    /\ text' = <<>> /\ card' = FALSE
    /\ parts' = <<>> /\ shown' = <<>> /\ failed' = FALSE
    /\ by' = "nobody"
    /\ UNCHANGED skillVars

(* An interaction is acknowledged before anything else is done for it; one *)
(* that is past its three seconds cannot be.                               *)
Defer ==
    /\ stage = "begun" /\ kind = "slash"
    /\ \/ stage' = "core" /\ UNCHANGED failed
       \/ stage' = "over" /\ failed' = TRUE
    /\ UNCHANGED <<kind, text, card, parts, shown, by, skillVars>>

ChatDispatched ==
    /\ stage = "begun" /\ kind = "chat"
    /\ stage' = "core"
    /\ UNCHANGED <<kind, answerVars, skillVars>>

---------------------------------------------------------------------------
(* In the core *)

(* dispatch: a skill validates its arguments and runs to its first await.  *)
(* A name or arguments that are not valid end the call.                    *)
SkillBegins(c, skill) ==
    \/ /\ skill = "web_fetch" /\ FetchBegins(c)
       /\ UNCHANGED <<searchVars, siteVars, drawVars>>
    \/ /\ skill = "web_search" /\ SearchBegins(c)
       /\ UNCHANGED <<fetchVars, siteVars, drawVars>>
    \/ /\ skill = "leetcode" /\ (DailyBegins(c) \/ RandomBegins(c))
       /\ UNCHANGED <<fetchVars, searchVars>>
    \/ /\ \/ skill = "booru" /\ BooruBegins(c)
          \/ skill = "weather" /\ WeatherBegins(c)
          \/ skill = "math" /\ MathBegins(c)
          \/ Ends(c, "invalid")
       /\ UNCHANGED <<fetchVars, searchVars, siteVars, drawVars>>

AgentSkills == SlashSkills \cup {"web_fetch", "web_search", "weather"}

(* A command makes one call; the agent makes several. *)
CallBegins(c) ==
    /\ stage = "core"
    /\ at[c] = "idle"
    /\ kind = "slash" => \A b \in Calls : at[b] = "idle"
    /\ \E skill \in IF kind = "slash" THEN SlashSkills ELSE AgentSkills :
          SkillBegins(c, skill)
    /\ UNCHANGED <<kind, stage, answerVars>>

CallSteps(c) ==
    /\ \/ FetchStep(c) /\ UNCHANGED <<searchVars, siteVars, drawVars>>
       \/ SearchStep(c) /\ UNCHANGED <<fetchVars, siteVars, drawVars>>
       \/ LeetStep(c) /\ UNCHANGED <<fetchVars, searchVars>>
       \/ LookupStep(c) /\ UNCHANGED <<fetchVars, searchVars, siteVars, drawVars>>
    /\ UNCHANGED <<kind, stage, answerVars>>

Answers(who, t, withCard) ==
    /\ stage' = "sending"
    /\ by' = who
    /\ text' = t
    /\ card' = withCard
    /\ parts' = Plan(t, withCard)
    /\ UNCHANGED <<kind, shown, failed>>

(* Only what the skills remember outlives the turn. *)
TurnForgotten ==
    /\ CallsForgotten /\ FetchForgotten /\ SearchForgotten /\ DrawsForgotten
    /\ UNCHANGED siteVars

CallsWith(o) == {c \in Calls : outcome[c] = o}

(* Every call is done: the agent's last request, or the stylist's, with    *)
(* the card that a call produced.                                          *)
CallsDone ==
    /\ stage = "core"
    /\ Running = {} /\ CallsWith("raised") = {}
    /\ kind = "slash" => \E c \in Calls : at[c] = "done"
    /\ stage' = "voice"
    /\ card' = (CallsWith("card") # {})
    /\ TurnForgotten
    /\ UNCHANGED <<kind, text, parts, shown, failed, by>>

(* What the model says of them is stripped, and may be blank. *)
Voiced ==
    /\ stage = "voice"
    /\ \E t \in Texts : Answers("voice", t, card)
    /\ UNCHANGED skillVars

(* An error that no skill reports as its own, or one of the model, ends    *)
(* the turn in serve.  The calls beside it are cancelled.                  *)
Crashes ==
    /\ stage = "voice" \/ (stage = "core" /\ CallsWith("raised") # {})
    /\ Answers("apology", Apology, FALSE)
    /\ TurnForgotten

(* A chat turn's budget is spent: what still runs is cancelled. *)
OutOfTime ==
    /\ stage \in {"core", "voice"} /\ kind = "chat"
    /\ Answers("apology", Apology, FALSE)
    /\ TurnForgotten

(* Mutant: the edge lets the error of the dispatch escape. *)
Unanswered ==
    /\ stage' = "over"
    /\ UNCHANGED <<kind, answerVars>>

(* The edge says itself that the core could not be reached. *)
Unreachable == Answers("edge", Apology, FALSE)

(* The function is killed.  The next turn finds a container that remembers *)
(* nothing.                                                                *)
ContainerLost ==
    /\ stage \in {"core", "voice"}
    /\ Unreachable
    /\ CallsForgotten /\ SearchForgotten /\ DrawsForgotten
    /\ requests' = [c \in Calls |-> 0]
    /\ open' = [c \in Calls |-> 0]
    /\ totals' = [d \in Difficulties |-> NoTotal]
    /\ UNCHANGED listed

---------------------------------------------------------------------------
(* Back on Discord: respond, or respond_interaction *)

PartSent ==
    /\ stage = "sending" /\ parts # <<>>
    /\ shown' = Append(shown, Head(parts))
    /\ parts' = Tail(parts)
    /\ UNCHANGED <<kind, stage, text, card, failed, by, skillVars>>

(* Discord refuses a message, or cannot be reached: the rest is not sent. *)
SendFails ==
    /\ stage = "sending" /\ parts # <<>>
    /\ failed' = TRUE
    /\ stage' = "over"
    /\ UNCHANGED <<kind, text, card, parts, shown, by, skillVars>>

AllSent ==
    /\ stage = "sending" /\ parts = <<>>
    /\ stage' = "over"
    /\ UNCHANGED <<kind, answerVars, skillVars>>

---------------------------------------------------------------------------
SiteChanges ==
    /\ \E d \in Difficulties : ListChanges(d) \/ TotalExpires(d)
    /\ UNCHANGED <<kind, stage, answerVars, fetchVars, searchVars>>

TurnStep ==
    \/ Defer \/ ChatDispatched
    \/ \E c \in Calls : CallBegins(c) \/ CallSteps(c)
    \/ CallsDone \/ Voiced \/ Crashes \/ OutOfTime \/ ContainerLost
    \/ PartSent \/ SendFails \/ AllSent

Next == TurnBegins \/ TurnStep \/ SiteChanges

Spec == Init /\ [][Next]_vars

(* A turn goes on: what it awaits answers, fails or times out, as every    *)
(* client has a timeout of its own.  No turn need ever begin, and the site *)
(* may change its list at any time or never.                               *)
FairSpec == Spec /\ WF_vars(TurnStep)

---------------------------------------------------------------------------
(* Properties *)

TypeOK ==
    /\ kind \in {"slash", "chat"}
    /\ stage \in {"begun", "core", "voice", "sending", "over"}
    /\ text \in Texts \cup {Apology}
    /\ card \in BOOLEAN /\ failed \in BOOLEAN
    /\ by \in {"nobody", "voice", "apology", "edge"}
    /\ outcome \in [Calls -> Outcomes]
    /\ \A c \in Calls : at[c] \in FetchPlaces \cup LeetPlaces \cup LookupPlaces
                                  \cup {"search", "idle", "done"}
    /\ \A c \in Calls : (at[c] = "done") = (outcome[c] # "none")
    /\ stage # "core" => \A c \in Calls : at[c] = "idle"
    /\ requests \in [Calls -> Nat] /\ open \in [Calls -> Nat]
    /\ provider \in [Calls -> 1..Providers]
    /\ failures \in [Calls -> 0..Providers]
    /\ listed \in [Difficulties -> 0..MaxList]
    /\ totals \in [Difficulties -> Totals]
    /\ filter \in [Calls -> Difficulties]
    /\ draws \in [Calls -> 0..MaxDraws]
    /\ \A c \in Calls : at[c] = "page" => draws[c] < MaxDraws
    /\ skip \in [Calls -> 0..MaxList]
    /\ reply \in [Calls -> [served : BOOLEAN, total : 0..MaxList, problem : Problems]]

(* A fetch sends at most one request more than the redirects it follows,   *)
(* has one response at a time, and leaves none open however it ends: read, *)
(* refused, timed out, cancelled with its turn or with its container.      *)
FetchIsBounded ==
    \A c \in Calls :
        /\ requests[c] <= MaxRedirects + 1
        /\ open[c] = IF at[c] \in Opened THEN 1 ELSE 0

(* A search says that the web cannot be reached only if no provider        *)
(* answered, that there is nothing only if one did, and has results as     *)
(* soon as one finds some (search.py:176-205).                             *)
SearchIsHonest ==
    \A c \in Calls :
        LET said == {heard[c][i] : i \in DOMAIN heard[c]}
        IN  /\ at[c] = "done" /\ heard[c] # <<>> =>
                  /\ outcome[c] = "unavailable" =>
                        said = {"failed"} /\ Len(heard[c]) = Providers
                  /\ outcome[c] = "empty" =>
                        "nothing" \in said /\ Len(heard[c]) = Providers
                  /\ (outcome[c] = "result") = ("found" \in said)
            /\ \A i \in DOMAIN heard[c] : heard[c][i] = "found" => i = Len(heard[c])

(* A stale count corrects itself (leetcode/skill.py:171): while the list   *)
(* stays as it is, a call draws beyond its end at most once, although      *)
(* replies to other calls that are older put an old count back.            *)
StaleCountCorrectsItself == \A c \in Calls : misses[c] <= 1

(* What is shown and what is still to be shown are the answer, in pieces   *)
(* that fit into a message and part at the end of lines, with the card on  *)
(* the first alone, whatever fails halfway.                                *)
PartsAreTheAnswer ==
    stage = "sending" =>
        LET all == shown \o parts
        IN  /\ AreChunksOf(text, NonEmpty([i \in DOMAIN all |-> all[i].text]))
            /\ {i \in DOMAIN all : all[i].card} = IF card THEN {1} ELSE {}

(* The model answered, and what it said is blank once it is stripped       *)
(* (process/voice.py:109,117): of this answer no message is made.          *)
BlankAnswer == by = "voice" /\ text = <<>> /\ ~card

(* A deferred interaction is followed up, however its skill or the core    *)
(* fails (slash.py:70-75): some message of its answer is shown, or Discord *)
(* does not take it.  The one exception is an answer that was given and is *)
(* blank; a turn that got none is none.                                    *)
DeferredIsFollowedUp ==
    (kind = "slash" /\ stage = "core") ~> (shown # <<>> \/ failed \/ BlankAnswer)
=============================================================================
