------------------------------ MODULE MCClaims ------------------------------
(* Small instances of Claims for TLC. *)
EXTENDS Claims

CONSTANTS c1, c2, m1

(* A message the bot answers: a mention in a guild. *)
Mention == [NoFacts EXCEPT !.bot = FALSE, !.mentioned = TRUE, !.content = "words"]

MentionOnly == {Mention}

(* And more that the guards tell apart: a message of another bot, a DM, a  *)
(* follow-up, a reply whose original is gone, a bare mention.              *)
SomeKinds == {
    Mention,
    [Mention EXCEPT !.bot = TRUE],
    [Mention EXCEPT !.dm = TRUE, !.mentioned = FALSE],
    [Mention EXCEPT !.mentioned = FALSE, !.resolved = "self"],
    [Mention EXCEPT !.mentioned = FALSE, !.resolved = "deleted"],
    [Mention EXCEPT !.content = "mention"] }
=============================================================================
