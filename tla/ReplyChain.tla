----------------------------- MODULE ReplyChain -----------------------------
(***************************************************************************)
(* How a conversation continues.  Discord keeps which message replies to   *)
(* which; the edge walks back from the message it answers, hop by hop,     *)
(* while people go on posting and deleting, and hands the turns it found   *)
(* to the core.  The answer is posted in parts, of which only the first is *)
(* a reply.                                                                *)
(*                                                                         *)
(* Beside it runs the terminal harness (services/core/chat.py), which      *)
(* keeps its own idea of the chain for a scripted conversation, in which   *)
(* every message starts afresh or replies to the newest one.               *)
(***************************************************************************)
EXTENDS Naturals, Sequences, FiniteSets, SequencesExt

CONSTANTS
    MaxTurns,      \* history_max_turns
    MaxMessages,   \* bound on the messages of the channel
    MaxParts       \* bound on the parts of an answer

ASSUME ChainAssumption ==
    MaxTurns \in Nat /\ MaxMessages \in Nat \ {0} /\ MaxParts \in Nat

VARIABLES
    channel,   \* the messages, in the order they were posted
    pc,        \* the turn: "idle", "walking", "thinking", "sending"
    asked,     \* the message it answers
    raw,       \* the ancestors found so far, newest first
    turns,     \* the history sent: ancestors oldest first, or Unrecalled
    parts,     \* texts of the answer still to be posted
    posts,     \* the messages of the answer posted so far
    pulled,    \* history: parents the walk asked for
    chain,     \* the harness's chain, oldest first
    scripted   \* history: the conversation is one the harness can replay

turnVars == <<pc, asked, raw, turns, parts, posts, pulled>>
vars == <<channel, turnVars, chain, scripted>>

Ids == DOMAIN channel

NoMessage == 0

Newest == Len(channel)

(* A text is what the walk reads of a message: its content, or else what a *)
(* card of it describes.  "blank" is neither, or nothing but a mention.    *)
Texts == {"words", "blank"}

Msg(self, parent, text) ==
    [self |-> self, parent |-> parent, text |-> text, gone |-> FALSE]

Unrecalled == [recalled |-> FALSE, ids |-> <<>>]

Recalled(ids) == [recalled |-> TRUE, ids |-> ids]

Init ==
    /\ channel = <<>>
    /\ pc = "idle"
    /\ asked = NoMessage
    /\ raw = <<>>
    /\ turns = Unrecalled
    /\ parts = <<>>
    /\ posts = <<>>
    /\ pulled = 0
    /\ chain = <<>>
    /\ scripted = TRUE

---------------------------------------------------------------------------
(* The channel *)

(* What a new message may reply to: nothing, or what is still there. *)
Repliable == {NoMessage} \cup {id \in Ids : ~channel[id].gone}

(* Somebody posts a message.  The harness posts one at a time, each fresh  *)
(* or a reply to the newest.                                               *)
Speak(parent, text) ==
    /\ Newest < MaxMessages
    /\ channel' = Append(channel, Msg(FALSE, parent, text))
    /\ scripted' = /\ pc = "idle" /\ text = "words"
                   /\ parent = NoMessage \/ (scripted /\ parent = Newest)

(* Where the harness's chain is when a message with this parent comes. *)
ChainAt(parent) == IF parent = NoMessage THEN <<>> ELSE chain

(* People talking to each other. *)
Chat ==
    \E parent \in Repliable, text \in Texts :
        /\ Speak(parent, text)
        /\ chain' = Append(ChainAt(parent), Newest + 1)
        /\ UNCHANGED turnVars

(* A message for the bot: its turn starts with the walk. *)
Ask ==
    /\ pc = "idle"
    /\ \E parent \in Repliable :
          /\ Speak(parent, "words")
          /\ chain' = ChainAt(parent)
    /\ pc' = "walking"
    /\ asked' = Newest + 1
    /\ raw' = <<>>
    /\ posts' = <<>>
    /\ pulled' = 0
    /\ UNCHANGED <<turns, parts>>

Delete(id) ==
    /\ ~channel[id].gone
    /\ channel' = [channel EXCEPT ![id].gone = TRUE]
    /\ scripted' = FALSE
    /\ UNCHANGED <<turnVars, chain>>

---------------------------------------------------------------------------
(* The walk *)

(* The node the next hop starts from. *)
Node == IF raw = <<>> THEN asked ELSE Last(raw)

Parent == channel[Node].parent

(* Mutant: off by one. *)
HasMoreThan == Len(raw) > MaxTurns

(* atake: the bound is reached, without an extra pull. *)
HasEnough == Len(raw) >= MaxTurns

(* The ids that are in set, in their order. *)
Among(ids, set) ==
    LET kept[n \in 0..Len(ids)] ==
            IF n = 0 THEN <<>>
            ELSE IF ids[n] \in set THEN Append(kept[n - 1], ids[n]) ELSE kept[n - 1]
    IN  kept[Len(ids)]

(* to_turns: oldest first, and only those with a text. *)
ToTurns(ids) ==
    Among(Reverse(ids), {id \in Range(ids) : channel[id].text # "blank"})

(* The history the harness sends: the newest of its chain. *)
Replayed ==
    ToTurns(SubSeq(Reverse(chain), 1, IF Len(chain) < MaxTurns THEN Len(chain)
                                      ELSE MaxTurns))

Sent(history) ==
    /\ turns' = history
    /\ pc' = "thinking"

(* resolve_parent gives the parent.  A copy that came with the message or  *)
(* is cached is taken even if the message has been deleted since.          *)
Hop ==
    /\ pc = "walking" /\ ~HasEnough /\ Parent # NoMessage
    /\ raw' = Append(raw, Parent)
    /\ pulled' = pulled + 1
    /\ UNCHANGED <<channel, pc, asked, turns, parts, posts, chain, scripted>>

(* The chain ends: enough of it, a message that is no reply, or a parent   *)
(* that Discord says was deleted.                                          *)
ChainEnds ==
    /\ pc = "walking"
    /\ \/ HasEnough /\ UNCHANGED pulled
       \/ /\ ~HasEnough
          /\ Parent \in {NoMessage} \cup (Ids \ Repliable)
          /\ pulled' = pulled + 1
    /\ Sent(Recalled(ToTurns(raw)))
    /\ UNCHANGED <<channel, asked, raw, parts, posts, chain, scripted>>

(* Mutant: what was found before the error is sent. *)
PartialHistory == Recalled(ToTurns(raw))

(* A chain that cannot be read is not sent in part. *)
AfterError == Unrecalled

(* A fetch fails: no permission, or a passing error. *)
Unreadable ==
    /\ pc = "walking" /\ ~HasEnough /\ Parent # NoMessage
    /\ pulled' = pulled + 1
    /\ Sent(AfterError)
    /\ UNCHANGED <<channel, asked, raw, parts, posts, chain, scripted>>

---------------------------------------------------------------------------
(* The answer *)

(* plan(result): some parts, or none for an empty answer. *)
Think ==
    /\ pc = "thinking"
    /\ \E n \in 0..MaxParts : parts' \in [1..n -> Texts]
    /\ pc' = "sending"
    /\ UNCHANGED <<channel, asked, raw, turns, posts, pulled, chain, scripted>>

(* Only the first part is anchored to the message. *)
Anchor == IF posts = <<>> THEN asked ELSE NoMessage

(* A reply to a message that is gone is refused by Discord. *)
SendPart ==
    /\ pc = "sending" /\ parts # <<>>
    /\ Newest < MaxMessages
    /\ Anchor \in Repliable
    /\ channel' = Append(channel, Msg(TRUE, Anchor, Head(parts)))
    /\ posts' = Append(posts, Newest + 1)
    /\ parts' = Tail(parts)
    /\ UNCHANGED <<pc, asked, raw, turns, pulled, chain, scripted>>

(* A send that fails ends the turn with the parts there are. *)
SendFails ==
    /\ pc = "sending" /\ parts # <<>>
    /\ parts' = <<>>
    /\ scripted' = FALSE
    /\ UNCHANGED <<channel, pc, asked, raw, turns, posts, pulled, chain>>

(* Mutant: the harness forgets that the last part is no reply. *)
NeverStartsOver == FALSE

(* An answer in several parts: the next message replies to the last. *)
StartsOver == Len(posts) > 1

(* What the harness adds to its chain. *)
Extended ==
    LET before == IF StartsOver THEN <<>> ELSE Append(chain, asked)
    IN  IF posts = <<>> THEN before ELSE Append(before, Last(posts))

EndTurn ==
    /\ pc = "sending" /\ parts = <<>>
    /\ pc' = "idle"
    /\ chain' = Extended
    /\ UNCHANGED <<channel, asked, raw, turns, parts, posts, pulled, scripted>>

---------------------------------------------------------------------------
Next ==
    \/ Chat \/ Ask
    \/ \E id \in Ids : Delete(id)
    \/ Hop \/ ChainEnds \/ Unreadable
    \/ Think \/ SendPart \/ SendFails \/ EndTurn

Spec == Init /\ [][Next]_vars

---------------------------------------------------------------------------
(* Properties *)

Entries == [self : BOOLEAN, parent : 0..MaxMessages, text : Texts, gone : BOOLEAN]

TypeOK ==
    /\ channel \in Seq(Entries)
    /\ \A id \in Ids : channel[id].parent < id
    /\ pc \in {"idle", "walking", "thinking", "sending"}
    /\ asked \in Ids \cup {NoMessage}
    /\ raw \in Seq(Ids) /\ posts \in Seq(Ids) /\ chain \in Seq(Ids)
    /\ turns \in [recalled : BOOLEAN, ids : Seq(Ids)]
    /\ parts \in Seq(Texts) /\ Len(parts) <= MaxParts
    /\ Len(raw) <= MaxTurns /\ pulled \in 0..MaxTurns
    /\ scripted \in BOOLEAN

(* What a message replies to is among the messages. *)
HasParents(messages) ==
    \A id \in messages : channel[id].parent \in messages \cup {NoMessage}

(* The messages a message continues: the fewest that, with it, have all    *)
(* their parents.                                                          *)
Ancestors(id) ==
    {other \in 1..id - 1 : \A messages \in SUBSET (1..id) :
        id \in messages /\ HasParents(messages) => other \in messages}

(* A history that was recalled is the reply chain itself: ancestors of the *)
(* message and nothing else, oldest first, without a gap, and it stops     *)
(* short of the first message only at the limit or at a deleted one.       *)
HistoryIsTheChain ==
    pc = "thinking" /\ turns.recalled =>
        /\ \A i \in DOMAIN turns.ids : turns.ids[i] \in Ancestors(asked)
        /\ \A i \in DOMAIN turns.ids : \A j \in 1..i - 1 : turns.ids[j] < turns.ids[i]
        /\ \A id \in Ancestors(asked) :
              \/ channel[id].text = "blank"
              \/ id \in Range(turns.ids)
              \/ \E other \in Ancestors(asked) :
                    other >= id /\ channel[other].gone
              \/ Cardinality({other \in Ancestors(asked) : other > id}) >= MaxTurns

(* In a conversation it can replay, the harness sends the history the edge *)
(* would (services/core/chat.py:27, "as the frontend reads it back").      *)
HarnessAgrees ==
    pc = "thinking" /\ scripted /\ turns.recalled =>
        turns.ids = Replayed
=============================================================================
