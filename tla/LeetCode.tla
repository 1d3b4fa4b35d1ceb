------------------------------ MODULE LeetCode ------------------------------
(***************************************************************************)
(* The leetcode skill.  A random problem is a page of one problem at a     *)
(* random place of the site's list.  How long the list is was said by the  *)
(* last page read, by whichever call, and is believed for TOTAL_TTL; the   *)
(* list changes meanwhile, and calls of one turn read pages concurrently.  *)
(***************************************************************************)
EXTENDS ToolCall

CONSTANTS
    Difficulties,   \* the lists: one for each difficulty, and one for all
    MaxList,        \* bound: the longest a list becomes
    MaxDraws        \* pages drawn before the skill gives up (4)

ASSUME LeetCodeAssumption ==
    /\ Difficulties # {}
    /\ MaxList \in Nat
    /\ MaxDraws \in Nat \ {0}

VARIABLES
    listed,    \* how many problems the site lists
    totals,    \* _totals: what the last page read said of it, and if that is fresh
    filter,    \* the difficulty a call asks for
    draws,     \* the pages it has drawn
    skip,      \* the place it draws from
    reply,     \* the reply to its query that is on its way
    misses     \* history: its draws beyond the end of the list since that changed

siteVars == <<listed, totals>>
drawVars == <<filter, draws, skip, reply, misses>>

NoTotal == [count |-> 0, fresh |-> FALSE]

Totals == [count : 0..MaxList, fresh : BOOLEAN]

NoReply == [served |-> FALSE, total |-> 0, problem |-> "none"]

(* A page has no problem beyond the end of the list; one that is paid, or   *)
(* cannot be read, will not do.                                            *)
Problems == {"free", "other", "none"}

LeetPlaces == {"daily", "total", "page"}

LeetInit ==
    /\ listed \in [Difficulties -> 0..MaxList]
    /\ totals = [d \in Difficulties |-> NoTotal]
    /\ filter = [c \in Calls |-> CHOOSE d \in Difficulties : TRUE]
    /\ draws = [c \in Calls |-> 0]
    /\ skip = [c \in Calls |-> 0]
    /\ reply = [c \in Calls |-> NoReply]
    /\ misses = [c \in Calls |-> 0]

---------------------------------------------------------------------------
(* The site and the clock *)

(* Problems are added and taken away.  What was missed before is the fault *)
(* of another list.                                                        *)
ListChanges(d) ==
    /\ \E n \in 0..MaxList : n # listed[d] /\ listed' = [listed EXCEPT ![d] = n]
    /\ misses' = [c \in Calls |-> IF filter[c] = d THEN 0 ELSE misses[c]]
    /\ UNCHANGED <<callVars, totals, filter, draws, skip, reply>>

TotalExpires(d) ==
    /\ totals[d].fresh
    /\ totals' = [totals EXCEPT ![d].fresh = FALSE]
    /\ UNCHANGED <<callVars, listed, drawVars>>

(* The site answers a query; the reply takes its time. *)
PageServed(c) ==
    LET n == listed[filter[c]]
    IN  /\ at[c] \in {"total", "page"} /\ ~reply[c].served
        /\ \E p \in Problems :
              /\ (p = "none") = (skip[c] >= n)
              /\ reply' = [reply EXCEPT ![c] = [served |-> TRUE, total |-> n, problem |-> p]]
        /\ misses' = [misses EXCEPT ![c] = IF at[c] = "page" /\ skip[c] >= n
                                           THEN @ + 1 ELSE @]
        /\ UNCHANGED <<callVars, siteVars, filter, draws, skip>>
---------------------------------------------------------------------------
(* The skill *)

(* randrange(total), of a list that is not empty. *)
PicksFrom(c, count) ==
    IF count > 0
    THEN /\ \E s \in 0..count - 1 : skip' = [skip EXCEPT ![c] = s]
         /\ Awaits(c, "page")
    ELSE Ends(c, "empty") /\ UNCHANGED skip

(* Mutant: the bound is passed by one. *)
PastLastDraw(n) == n > MaxDraws

LastDraw(n) == n = MaxDraws

(* The next turn of the loop, after n draws, with what is known by now. *)
DrawsNext(c, n, known) ==
    IF LastDraw(n) THEN Ends(c, "empty") /\ UNCHANGED skip
    ELSE IF known[filter'[c]].fresh THEN PicksFrom(c, known[filter'[c]].count)
    ELSE Awaits(c, "total") /\ skip' = [skip EXCEPT ![c] = 0]

DailyBegins(c) ==
    /\ Awaits(c, "daily")
    /\ UNCHANGED <<siteVars, drawVars>>

RandomBegins(c) ==
    /\ \E d \in Difficulties : filter' = [filter EXCEPT ![c] = d]
    /\ draws' = [draws EXCEPT ![c] = 0]
    /\ misses' = [misses EXCEPT ![c] = 0]
    /\ DrawsNext(c, 0, totals)
    /\ UNCHANGED <<siteVars, reply>>

DailyArrives(c) ==
    /\ at[c] = "daily"
    /\ Ends(c, "result")
    /\ UNCHANGED <<siteVars, drawVars>>

(* Mutant: only the query for the total is remembered. *)
RememberedOnce(c) ==
    IF at[c] = "page" THEN totals
    ELSE [totals EXCEPT ![filter[c]] = [count |-> reply[c].total, fresh |-> TRUE]]

(* Each page read refreshes the count. *)
Remembered(c) ==
    [totals EXCEPT ![filter[c]] = [count |-> reply[c].total, fresh |-> TRUE]]

TotalArrives(c) ==
    /\ at[c] = "total" /\ reply[c].served
    /\ totals' = Remembered(c)
    /\ reply' = [reply EXCEPT ![c] = NoReply]
    /\ PicksFrom(c, reply[c].total)
    /\ UNCHANGED <<listed, filter, draws, misses>>

(* A free problem is the answer; with any other page it draws again. *)
PageArrives(c) ==
    /\ at[c] = "page" /\ reply[c].served
    /\ totals' = Remembered(c)
    /\ reply' = [reply EXCEPT ![c] = NoReply]
    /\ UNCHANGED <<listed, filter, misses>>
    /\ IF reply[c].problem = "free"
       THEN Ends(c, "result") /\ UNCHANGED <<draws, skip>>
       ELSE /\ draws' = [draws EXCEPT ![c] = @ + 1]
            /\ DrawsNext(c, draws[c] + 1, totals')

(* The only provider fails: an HTTP error, or an answer that cannot be read. *)
QueryFails(c) ==
    /\ at[c] \in LeetPlaces
    /\ Ends(c, "unavailable")
    /\ reply' = [reply EXCEPT ![c] = NoReply]
    /\ UNCHANGED <<siteVars, filter, draws, skip, misses>>

LeetStep(c) ==
    \/ PageServed(c) \/ DailyArrives(c) \/ TotalArrives(c) \/ PageArrives(c)
    \/ QueryFails(c)

DrawsForgotten ==
    /\ filter' = [c \in Calls |-> CHOOSE d \in Difficulties : TRUE]
    /\ draws' = [c \in Calls |-> 0]
    /\ skip' = [c \in Calls |-> 0]
    /\ reply' = [c \in Calls |-> NoReply]
    /\ misses' = [c \in Calls |-> 0]
=============================================================================
