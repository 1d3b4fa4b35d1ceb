------------------------------ MODULE History ------------------------------
(***************************************************************************)
(* What the chat process makes of a reply chain: the messages it hands to  *)
(* the model (process/history.py) and what compaction leaves of them when  *)
(* the model rejects them for length (process/context.py).                 *)
(*                                                                         *)
(* The text of a turn is abstracted to whether there is any; a message is  *)
(* its role and the positions, in the chain, of the turns it joins.        *)
(***************************************************************************)
EXTENDS Naturals, Sequences, FiniteSets, FiniteSetsExt

Roles == {"user", "assistant"}

Turns == [role : Roles, blank : BOOLEAN]

Message == [role : Roles, turns : SUBSET Nat]

(* The summary of the older half, sent as a message of the user's. *)
Note == [role |-> "user", turns |-> {}]

(* A turn that is only white space contributes nothing. *)
Contributes(turn) == ~turn.blank

(* groupby: a turn opens a message unless the turn before it, of those that *)
(* contribute, has the same role.                                            *)
Opens(turns, i) ==
    /\ Contributes(turns[i])
    /\ ~ \E j \in 1..i - 1 :
            /\ Contributes(turns[j]) /\ turns[j].role = turns[i].role
            /\ \A k \in j + 1..i - 1 : ~Contributes(turns[k])

(* How many messages have been opened by turn i. *)
Opened(turns, i) == Cardinality({j \in 1..i : Opens(turns, j)})

Grouped(turns) ==
    [n \in 1..Opened(turns, Len(turns)) |->
        LET members == {i \in DOMAIN turns : Contributes(turns[i]) /\ Opened(turns, i) = n}
        IN  [role |-> turns[Min(members)].role, turns |-> members]]

(* The index of the first user message, one past the end if there is none. *)
FirstUser(messages) ==
    Min({i \in DOMAIN messages : messages[i].role = "user"} \cup {Len(messages) + 1})

DropLeadingAssistant(messages) ==
    SubSeq(messages, FirstUser(messages), Len(messages))

ToModelMessages(turns) == DropLeadingAssistant(Grouped(turns))

(* Mutant: the older half. *)
Older(messages) == SubSeq(messages, 1, Len(messages) - Len(messages) \div 2)

(* The newer half; of an odd number the larger one. *)
Recent(messages) == SubSeq(messages, Len(messages) \div 2 + 1, Len(messages))

SlidingWindow(messages) == IF Len(messages) <= 1 THEN messages ELSE Recent(messages)

(* Mutant: a bound that leaves a chain of four alone. *)
SummarizesLong(messages) == Len(messages) > 4

Summarizes(messages) == Len(messages) > 2

Summarizer(messages) ==
    IF Summarizes(messages) THEN <<Note>> \o Recent(messages) ELSE messages
=============================================================================
