------------------------------- MODULE Claims -------------------------------
(***************************************************************************)
(* The edge's at-most-once handling of a Discord message.                  *)
(*                                                                         *)
(* While a deployment rolls over, two (or more) copies of the edge are     *)
(* connected to Discord's gateway with the same token, and every one of    *)
(* them receives every message.  PetBot.on_message claims the message with *)
(* a conditional put to a DynamoDB table before it does anything visible.  *)
(* This module is on_message from the guards to the last part of the       *)
(* answer, the claim (DynamoClaims.claim, _record_duplicate), the table,   *)
(* and the calls between them, which boto3 re-sends when a reply is lost.  *)
(*                                                                         *)
(* A copy here is one container.  It never comes back once stopped: the    *)
(* next deployment is another copy.                                        *)
(***************************************************************************)
EXTENDS Naturals, FiniteSets

CONSTANTS
    Copies,        \* edge containers, named by their hostnames
    Messages,      \* Discord message ids
    MessageFacts,  \* the kinds of message that are posted (see Facts)
    Nobody,        \* not a copy: the item of the table names no claimant
    MaxSends,      \* how often the SDK sends one call in all (1: never re-sent)
    MaxParts       \* longest answer, in Discord messages

ASSUME ClaimsAssumption ==
    /\ Nobody \notin Copies
    /\ MaxSends \in Nat \ {0}
    /\ MaxParts \in Nat \ {0}

(***************************************************************************)
(* What the guards of on_message read of a message.                        *)
(***************************************************************************)
Facts ==
    [ bot       : BOOLEAN,                              \* author.bot
      dm        : BOOLEAN,                              \* guild is None
      mentioned : BOOLEAN,                              \* the bot is in mentions
      resolved  : {"none", "deleted", "self", "other"}, \* reference.resolved
      content   : {"empty", "mention", "words"} ]

ASSUME FactsAssumption == MessageFacts \subseteq Facts

VARIABLES
    status,  \* a copy: "starting", "connected", "stopped"
    table,   \* whether the copy was given a claims table
    resent,  \* history: the messages whose put the copy has sent again
    fact,    \* the facts of each message posted so far
    owed,    \* the copies the gateway has still to deliver a message to
    pc,      \* where on_message of a copy is, for a message
    how,     \* why the copy went on with the message
    cur,     \* the SDK call in progress: "none", "request" or its reply
    sends,   \* how often that call has been sent
    late,    \* sends the client gave up on that may still reach the table
    item,    \* the table's item for the message
    lapsed,  \* history: an item for the message has expired
    parts,   \* parts of the answer still to be sent
    posted   \* parts of the answer sent

copyVars == <<status, table, resent>>
gateVars == <<fact, owed>>
callVars == <<cur, sends, late>>
tableVars == <<item, lapsed>>
answerVars == <<parts, posted>>
vars == <<copyVars, gateVars, pc, how, callVars, tableVars, answerVars>>

Item == [ there : BOOLEAN, by : Copies \cup {Nobody}, also : SUBSET Copies,
          duplicates : Nat, expires : BOOLEAN ]

NoItem == [ there |-> FALSE, by |-> Nobody, also |-> {},
            duplicates |-> 0, expires |-> FALSE ]

NoFacts == [ bot |-> TRUE, dm |-> FALSE, mentioned |-> FALSE,
             resolved |-> "none", content |-> "empty" ]

Init ==
    /\ status = [c \in Copies |-> "starting"]
    /\ table = [c \in Copies |-> FALSE]
    /\ resent = [c \in Copies |-> {}]
    /\ fact = [m \in Messages |-> NoFacts]
    /\ owed = [m \in Messages |-> {}]
    /\ pc = [c \in Copies |-> [m \in Messages |-> "idle"]]
    /\ how = [c \in Copies |-> [m \in Messages |-> "none"]]
    /\ cur = [c \in Copies |-> [m \in Messages |-> "none"]]
    /\ sends = [c \in Copies |-> [m \in Messages |-> 0]]
    /\ late = [c \in Copies |-> [m \in Messages |-> 0]]
    /\ item = [m \in Messages |-> NoItem]
    /\ lapsed = [m \in Messages |-> FALSE]
    /\ parts = [c \in Copies |-> [m \in Messages |-> 0]]
    /\ posted = [c \in Copies |-> [m \in Messages |-> 0]]

Live(c) == status[c] = "connected"

Goto(c, m, step) == pc' = [pc EXCEPT ![c][m] = step]

---------------------------------------------------------------------------
(* Containers and the gateway *)

(* setup_hook has run and the session is open; claims_table may be unset,  *)
(* as it was in the deployment before the one that introduced it.          *)
Connect(c) ==
    /\ status[c] = "starting"
    /\ status' = [status EXCEPT ![c] = "connected"]
    /\ \E given \in BOOLEAN : table' = [table EXCEPT ![c] = given]
    /\ UNCHANGED <<resent, gateVars, pc, how, callVars, tableVars, answerVars>>

(* The platform stops the container wherever it is. *)
Stop(c) ==
    /\ status[c] = "connected"
    /\ status' = [status EXCEPT ![c] = "stopped"]
    /\ UNCHANGED <<table, resent, gateVars, pc, how, callVars, tableVars, answerVars>>

(* Discord sends a new message to every session connected at that moment. *)
Post(m) ==
    /\ fact[m] = NoFacts
    /\ \E f \in MessageFacts : fact' = [fact EXCEPT ![m] = f]
    /\ owed' = [owed EXCEPT ![m] = {c \in Copies : Live(c)}]
    /\ UNCHANGED <<copyVars, pc, how, callVars, tableVars, answerVars>>

---------------------------------------------------------------------------
(* The triggers *)

(* Only the copy Discord inlined is looked at: a reply to a deleted or to  *)
(* an unresolved message is not a reply to the bot.                        *)
ReplyingToSelf(f) == f.resolved = "self"

IsConversationalTrigger(f) == f.dm \/ f.mentioned \/ ReplyingToSelf(f)

(* What is left of the text once the bot's mention is taken out. *)
HasText(f) == f.content = "words"

Addressed(f) == ~f.bot /\ IsConversationalTrigger(f) /\ HasText(f)

(* on_message up to the claim: a message that is not for the bot ends      *)
(* there, one without a claims table goes straight to its turn, and        *)
(* otherwise the put is sent.                                              *)
Deliver(c, m) ==
    /\ Live(c) /\ c \in owed[m]
    /\ owed' = [owed EXCEPT ![m] = @ \ {c}]
    /\ \/ /\ ~Addressed(fact[m])
          /\ Goto(c, m, "ignored")
          /\ UNCHANGED <<how, cur, sends>>
       \/ /\ Addressed(fact[m]) /\ ~table[c]
          /\ Goto(c, m, "turn")
          /\ how' = [how EXCEPT ![c][m] = "no_table"]
          /\ UNCHANGED <<cur, sends>>
       \/ /\ Addressed(fact[m]) /\ table[c]
          /\ Goto(c, m, "claiming")
          /\ cur' = [cur EXCEPT ![c][m] = "request"]
          /\ sends' = [sends EXCEPT ![c][m] = 1]
          /\ UNCHANGED how
    /\ UNCHANGED <<copyVars, fact, late, tableVars, answerVars>>

---------------------------------------------------------------------------
(* The table *)

(* ConditionExpression = attribute_not_exists(id) *)
MayCreate(m) == ~item[m].there

Claimed(c) == [there |-> TRUE, by |-> c, also |-> {}, duplicates |-> 0,
               expires |-> TRUE]

(* Mutant: a loser is counted and not named. *)
OnlyCounted(c, i) == [i EXCEPT !.there = TRUE, !.duplicates = @ + 1]

(* ADD duplicate_deliveries :one, also_delivered_to :me; it creates the    *)
(* item, without expires_at, when there is none.                           *)
Noted(c, i) == [there |-> TRUE, by |-> i.by, also |-> i.also \cup {c},
                duplicates |-> i.duplicates + 1, expires |-> i.expires]

(* One put request reaches the table. *)
PutReaches(c, m) ==
    item' = IF MayCreate(m) THEN [item EXCEPT ![m] = Claimed(c)] ELSE item

(* The request of the call in progress is executed, and replied to. *)
PutApplied(c, m) ==
    /\ pc[c][m] = "claiming" /\ cur[c][m] = "request"
    /\ PutReaches(c, m)
    /\ cur' = [cur EXCEPT ![c][m] = IF MayCreate(m) THEN "ok" ELSE "conditional"]
    /\ UNCHANGED <<copyVars, gateVars, pc, how, sends, late, lapsed, answerVars>>

UpdateApplied(c, m) ==
    /\ pc[c][m] = "recording" /\ cur[c][m] = "request"
    /\ item' = [item EXCEPT ![m] = Noted(c, @)]
    /\ cur' = [cur EXCEPT ![c][m] = "ok"]
    /\ UNCHANGED <<copyVars, gateVars, pc, how, sends, late, lapsed, answerVars>>

(* A put its client gave up on reaches the table after all. *)
LatePut(c, m) ==
    /\ late[c][m] > 0
    /\ late' = [late EXCEPT ![c][m] = @ - 1]
    /\ PutReaches(c, m)
    /\ UNCHANGED <<copyVars, gateVars, pc, how, cur, sends, lapsed, answerVars>>

(* The table's TTL, an hour after the claim; an item without expires_at    *)
(* stays for ever.                                                         *)
Expire(m) ==
    /\ item[m].there /\ item[m].expires
    /\ item' = [item EXCEPT ![m] = NoItem]
    /\ lapsed' = [lapsed EXCEPT ![m] = TRUE]
    /\ UNCHANGED <<copyVars, gateVars, pc, how, callVars, answerVars>>

---------------------------------------------------------------------------
(* The SDK and the connection *)

(* The request never arrives, or its reply does not. *)
CallLost(c, m) ==
    /\ cur[c][m] \in {"request", "ok", "conditional"}
    /\ cur' = [cur EXCEPT ![c][m] = "none"]
    /\ UNCHANGED <<copyVars, gateVars, pc, how, sends, late, tableVars, answerVars>>

(* The client times out on a put that is still under way.  (An update that *)
(* is late is one whose reply is lost.)                                    *)
PutAbandoned(c, m) ==
    /\ pc[c][m] = "claiming" /\ cur[c][m] = "request"
    /\ cur' = [cur EXCEPT ![c][m] = "none"]
    /\ late' = [late EXCEPT ![c][m] = @ + 1]
    /\ UNCHANGED <<copyVars, gateVars, pc, how, sends, tableVars, answerVars>>

(* An error the SDK does not retry (credentials, permissions). *)
CallRefused(c, m) ==
    /\ cur[c][m] = "request"
    /\ cur' = [cur EXCEPT ![c][m] = "refused"]
    /\ UNCHANGED <<copyVars, gateVars, pc, how, sends, late, tableVars, answerVars>>

(* boto3.client("dynamodb") with its default retries sends the call again. *)
Resend(c, m) ==
    /\ Live(c) /\ pc[c][m] \in {"claiming", "recording"}
    /\ cur[c][m] = "none" /\ sends[c][m] < MaxSends
    /\ cur' = [cur EXCEPT ![c][m] = "request"]
    /\ sends' = [sends EXCEPT ![c][m] = @ + 1]
    /\ resent' = IF pc[c][m] = "claiming"
                   THEN [resent EXCEPT ![c] = @ \cup {m}] ELSE resent
    /\ UNCHANGED <<status, table, gateVars, pc, how, late, tableVars, answerVars>>

(* Mutant: the last lost call of the SDK is never reported to the caller. *)
OnlyRefused(c, m) == cur[c][m] = "refused"

(* The call raises: refused, or lost as often as the SDK sends it. *)
CallFailed(c, m) ==
    \/ cur[c][m] = "refused"
    \/ cur[c][m] = "none" /\ sends[c][m] = MaxSends

---------------------------------------------------------------------------
(* The claim, seen from the copy *)

(* Mutant: claim falls through to its return True after a lost condition. *)
AnyReply == {"ok", "conditional"}

(* The replies of the put that claim returns True for. *)
WinningReplies == {"ok"}

(* Mutant: a failing claim store drops the message. *)
DropOnStoreError == "silent"

(* Where _claim's except clause sends the message. *)
OnStoreError == "turn"

(* The put returned: claim is True. *)
Won(c, m) ==
    /\ Live(c) /\ pc[c][m] = "claiming" /\ cur[c][m] \in WinningReplies
    /\ Goto(c, m, "turn")
    /\ how' = [how EXCEPT ![c][m] = "claim"]
    /\ cur' = [cur EXCEPT ![c][m] = "none"]
    /\ UNCHANGED <<copyVars, gateVars, sends, late, tableVars, answerVars>>

(* ConditionalCheckFailedException: the loser records itself first. *)
Lost(c, m) ==
    /\ Live(c) /\ pc[c][m] = "claiming" /\ cur[c][m] = "conditional"
    /\ Goto(c, m, "recording")
    /\ cur' = [cur EXCEPT ![c][m] = "request"]
    /\ sends' = [sends EXCEPT ![c][m] = 1]
    /\ UNCHANGED <<copyVars, gateVars, how, late, tableVars, answerVars>>

(* Any other error of the put: _claim handles the message anyway. *)
StoreFailed(c, m) ==
    /\ Live(c) /\ pc[c][m] = "claiming" /\ CallFailed(c, m)
    /\ Goto(c, m, OnStoreError)
    /\ how' = [how EXCEPT ![c][m] = "store_error"]
    /\ cur' = [cur EXCEPT ![c][m] = "none"]
    /\ UNCHANGED <<copyVars, gateVars, sends, late, tableVars, answerVars>>

(* The update returned or failed for good; either way claim is False. *)
Yield(c, m) ==
    /\ Live(c) /\ pc[c][m] = "recording"
    /\ cur[c][m] = "ok" \/ CallFailed(c, m)
    /\ Goto(c, m, "silent")
    /\ cur' = [cur EXCEPT ![c][m] = "none"]
    /\ UNCHANGED <<copyVars, gateVars, how, sends, late, tableVars, answerVars>>

---------------------------------------------------------------------------
(* The turn and the answer *)

(* think(_turn): the core's answer, or SERVICE_UNREACHABLE when the        *)
(* dispatch fails.  Only an error of the history walk that is no           *)
(* HTTPException gets out of it, and out of on_message.                    *)
Turn(c, m) ==
    /\ Live(c) /\ pc[c][m] = "turn"
    /\ \/ \E n \in 1..MaxParts :
             /\ parts' = [parts EXCEPT ![c][m] = n]
             /\ Goto(c, m, "replying")
       \/ Goto(c, m, "failed") /\ UNCHANGED parts
    /\ UNCHANGED <<copyVars, gateVars, how, callVars, tableVars, posted>>

(* Mutant: one part too many. *)
OneTooMany(c, m) == IF parts[c][m] = 0 THEN "answered" ELSE "replying"

(* The answer is complete with its last part. *)
AfterPart(c, m) == IF parts[c][m] = 1 THEN "answered" ELSE "replying"

(* respond sends the parts in order; an error of a send ends on_message. *)
SendPart(c, m) ==
    /\ Live(c) /\ pc[c][m] = "replying"
    /\ \/ /\ posted' = [posted EXCEPT ![c][m] = @ + 1]
          /\ parts' = [parts EXCEPT ![c][m] = @ - 1]
          /\ Goto(c, m, AfterPart(c, m))
       \/ Goto(c, m, "failed") /\ UNCHANGED answerVars
    /\ UNCHANGED <<copyVars, gateVars, how, callVars, tableVars>>

---------------------------------------------------------------------------
CopyStep(c, m) ==
    \/ Won(c, m) \/ Lost(c, m) \/ StoreFailed(c, m) \/ Resend(c, m)
    \/ Yield(c, m) \/ Turn(c, m) \/ SendPart(c, m)

CallStep(c, m) ==
    \/ PutApplied(c, m) \/ UpdateApplied(c, m) \/ CallLost(c, m)
    \/ PutAbandoned(c, m) \/ CallRefused(c, m)

Next ==
    \/ \E c \in Copies : Connect(c) \/ Stop(c)
    \/ \E m \in Messages : Post(m) \/ Expire(m)
    \/ \E c \in Copies, m \in Messages :
          Deliver(c, m) \/ LatePut(c, m) \/ CopyStep(c, m) \/ CallStep(c, m)

Spec == Init /\ [][Next]_vars

(* A connected copy's tasks run when they can (one asyncio loop), and a    *)
(* call is answered, lost or given up on: the SDK's timeouts see to it.    *)
(* Nothing is assumed of deliveries, late puts, expiry, stops.             *)
Fairness ==
    \A c \in Copies, m \in Messages :
        WF_vars(CopyStep(c, m)) /\ WF_vars(CallStep(c, m))

FairSpec == Spec /\ Fairness

---------------------------------------------------------------------------
(* Properties *)

Steps == {"idle", "ignored", "claiming", "recording", "silent", "turn",
          "replying", "answered", "failed"}

TypeOK ==
    /\ status \in [Copies -> {"starting", "connected", "stopped"}]
    /\ table \in [Copies -> BOOLEAN]
    /\ resent \in [Copies -> SUBSET Messages]
    /\ fact \in [Messages -> MessageFacts \cup {NoFacts}]
    /\ owed \in [Messages -> SUBSET Copies]
    /\ pc \in [Copies -> [Messages -> Steps]]
    /\ how \in [Copies -> [Messages -> {"none", "claim", "store_error", "no_table"}]]
    /\ cur \in [Copies -> [Messages ->
                  {"none", "request", "ok", "conditional", "refused"}]]
    /\ sends \in [Copies -> [Messages -> 0..MaxSends]]
    /\ late \in [Copies -> [Messages -> Nat]]
    /\ item \in [Messages -> Item]
    /\ lapsed \in [Messages -> BOOLEAN]
    /\ parts \in [Copies -> [Messages -> 0..MaxParts]]
    /\ posted \in [Copies -> [Messages -> Nat]]

(* on_message went past the claim. *)
Taken == {"turn", "replying", "answered", "failed"}

Yielded(c, m) == pc[c][m] \in {"recording", "silent"}

(* At most one copy goes on with a message because it holds the claim,     *)
(* however requests and replies were lost, re-sent or late (dedup.py:4,    *)
(* "exactly one of two concurrent copies wins"), until the item expires.   *)
OneClaimant ==
    \A m \in Messages : ~lapsed[m] =>
        \A c, d \in Copies :
            how[c][m] = "claim" /\ how[d][m] = "claim" => c = d

(* The copy has yielded to itself: its put created the item, was sent      *)
(* again for want of a reply, and failed on the condition.                 *)
LostToItself(c, m) == Yielded(c, m) /\ item[m].by = c /\ m \in resent[c]

(* A message some copy stayed silent on is with a copy that did not: one   *)
(* that is claiming it or took it.  That fails in one way only, however    *)
(* calls are lost, late, refused or sent again: the silent copy lost to    *)
(* its own put (dedup.py:55-75; bot.py:110).                               *)
NoSilentDrop ==
    \A m \in Messages : ~lapsed[m] /\ (\E c \in Copies : Yielded(c, m)) =>
        \E d \in Copies : pc[d][m] \in {"claiming"} \cup Taken \/ LostToItself(d, m)

(* What the code says of it, with no exception: "a rare duplicate beats a  *)
(* dropped message" (bot.py:110-111).                                      *)
NeverDropped ==
    \A m \in Messages : ~lapsed[m] /\ (\E c \in Copies : Yielded(c, m)) =>
        \E d \in Copies : pc[d][m] \in {"claiming"} \cup Taken

(* What the item records of a rollover (dedup.py:4-6), with the SDK's      *)
(* re-sends: it names as duplicates only copies that stayed silent; it     *)
(* counts each of them, and once, unless the ADD of one was sent again;    *)
(* and the claimant is among them only if it lost to its own put.          *)
AuditIsTrue ==
    \A m \in Messages :
        LET named == item[m].also
        IN  /\ \A c \in named : Yielded(c, m)
            /\ item[m].duplicates >= Cardinality(named)
            /\ (\A c \in named : sends[c][m] = 1) =>
                   item[m].duplicates = Cardinality(named)
            /\ item[m].by \in named => LostToItself(item[m].by, m)

(* A message a copy set out to claim gets at least the first part of an    *)
(* answer from some copy, unless a copy was stopped, a turn or a send      *)
(* raised, the item expired under the claim, or the put that won it was    *)
(* sent again and lost to itself.                                          *)
HeardIsAnswered ==
    \A m \in Messages :
        (\E c \in Copies : pc[c][m] = "claiming") ~>
            \/ lapsed[m]
            \/ \E d \in Copies : \/ posted[d][m] > 0
                                 \/ pc[d][m] = "failed"
                                 \/ status[d] = "stopped"
                                 \/ LostToItself(d, m)

(* The promise the claims implement. *)
Promise == INSTANCE AtMostOnce WITH
    claimants <- [m \in Messages |-> {c \in Copies : how[c][m] = "claim"}],
    unprotected <- [m \in Messages |->
                      {c \in Copies : how[c][m] \in {"store_error", "no_table"}}]

(* Every behaviour of the claims keeps the promise of AtMostOnce. *)
KeepsPromise == Promise!Spec
=============================================================================
