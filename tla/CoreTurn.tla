------------------------------ MODULE CoreTurn ------------------------------
(***************************************************************************)
(* One turn inside the core: serve decodes the dispatch and the router     *)
(* picks the process.  The chat process runs the agent, whose tool calls   *)
(* are dispatched to the skills, some of them concurrently, and compacts   *)
(* the history when the model rejects it for length.  The command process  *)
(* runs one skill and has the stylist voice what came of it.               *)
(*                                                                         *)
(* A process serves one turn at a time and keeps nothing between turns.    *)
(***************************************************************************)
EXTENDS History

CONSTANTS
    Chains,    \* the reply chains (sequences of Turns) a message may continue
    MaxCalls   \* tool calls the model makes in one run of the agent

ASSUME CoreAssumption ==
    /\ \A chain \in Chains : chain \in Seq(Turns)
    /\ MaxCalls \in Nat

VARIABLES
    service,      \* whether it hosts a chat process, and its compactor
    inp,          \* the input dispatched
    pc,           \* where the turn is
    history,      \* the message_history of the agent's run
    attempt,      \* how often the history has been compacted
    calls,        \* the tool calls of this run: "running" or their outcome
    attachments,  \* deps.attachments: the calls that produced a card, in order
    result,       \* what the skill of a command gave: "none", "plain" or "layout"
    answer        \* what is sent back

runVars == <<history, attempt, calls, attachments>>
vars == <<service, inp, pc, runVars, result, answer>>

Services == [chat : BOOLEAN, compactor : {"sliding_window", "summarize"}]

Inputs == [kind : {"text"}, recalled : {TRUE}, turns : Chains]
          \cup [kind : {"text"}, recalled : {FALSE}, turns : {<<>>}]
          \cup [kind : {"command", "malformed", "not_an_object", "bad_trace"},
                recalled : {FALSE}, turns : {<<>>}]

(* A call is named by its run and its place in it. *)
NoCall == <<0, 0>>

NoAnswer == [by |-> "nobody", card |-> NoCall, calls |-> {}]

(* An answer without a card, which no tool call is behind. *)
Plain(by) == [NoAnswer EXCEPT !.by = by]

Init ==
    /\ service \in Services
    /\ inp \in Inputs
    /\ pc = "arrived"
    /\ history = <<>>
    /\ attempt = 0
    /\ calls = <<>>
    /\ attachments = <<>>
    /\ result = "none"
    /\ answer = NoAnswer

Reply(a) ==
    /\ answer' = a
    /\ pc' = "answered"

---------------------------------------------------------------------------
(* serve and the router *)

(* A body that is no JSON, or an object without an input and a context     *)
(* that are valid.                                                         *)
Malformed ==
    /\ pc = "arrived" /\ inp.kind = "malformed"
    /\ Reply(Plain("malformed"))
    /\ UNCHANGED <<service, inp, runVars, result>>

(* What serve does not catch: JSON that is no object is indexed, which is a *)
(* TypeError, and a trace that is no mapping is extracted outside the try.  *)
Uncaught == {"not_an_object", "bad_trace"}

(* The exception gets out of serve: nothing is sent back. *)
Escape ==
    /\ pc = "arrived" /\ inp.kind \in Uncaught
    /\ pc' = "dropped"
    /\ UNCHANGED <<service, inp, runVars, result, answer>>

(* A service without a conversational process raises. *)
Route ==
    /\ pc = "arrived" /\ inp.kind \in {"text", "command"}
    /\ pc' = IF inp.kind = "command" THEN "command"
             ELSE IF service.chat THEN "model" ELSE "raised"
    /\ history' = ToModelMessages(inp.turns)
    /\ UNCHANGED <<service, inp, attempt, calls, attachments, result, answer>>

(* Mutant: the overflow that is raised again gets out. *)
OnlyErrors == {"raised"}

(* Whatever escaped the process is answered all the same. *)
Caught == {"raised", "gave_up"}

Crash ==
    /\ pc \in Caught
    /\ Reply(Plain("crashed"))
    /\ UNCHANGED <<service, inp, runVars, result>>

---------------------------------------------------------------------------
(* The agent's run *)

Running == {i \in DOMAIN calls : calls[i] = "running"}

(* The model asks for one or more tools, which run concurrently. *)
ModelCalls ==
    /\ pc = "model"
    /\ \E n \in 1..(MaxCalls - Len(calls)) :
          calls' = calls \o [i \in 1..n |-> "running"]
    /\ pc' = "tools"
    /\ UNCHANGED <<service, inp, history, attempt, attachments, result, answer>>

(* Call i is answered; the model is asked again once all of them are.  A   *)
(* run that raised or was cancelled takes its calls with it.               *)
Answered(i, outcome) ==
    /\ pc = "tools" /\ i \in Running
    /\ calls' = [calls EXCEPT ![i] = outcome]
    /\ pc' = IF Running = {i} THEN "model" ELSE "tools"

(* The skill ran; a card it produced is set aside for the answer. *)
ToolReturns(i) ==
    /\ Answered(i, "returned")
    /\ attachments' \in {attachments, Append(attachments, <<attempt + 1, i>>)}
    /\ UNCHANGED <<service, inp, history, attempt, result, answer>>

(* An unknown tool, arguments that are not valid, or a skill that reports a *)
(* failure: the message of the SkillError is what the tool returns.         *)
ToolReports(i) ==
    /\ Answered(i, "returned")
    /\ UNCHANGED <<service, inp, history, attempt, attachments, result, answer>>

(* The agent asks the model to retry a call it cannot make. *)
ToolRejected(i) ==
    /\ Answered(i, "rejected")
    /\ UNCHANGED <<service, inp, history, attempt, attachments, result, answer>>

(* Mutant: the first call with a card. *)
FirstCard == IF attachments = <<>> THEN NoCall ELSE attachments[1]

(* The last call with a card, in the order they finished. *)
Card == IF attachments = <<>> THEN NoCall ELSE attachments[Len(attachments)]

(* The trajectory: the calls of result.new_messages(). *)
ModelAnswers ==
    /\ pc = "model"
    /\ Reply([by |-> "agent", card |-> Card,
              calls |-> {<<attempt + 1, i>> : i \in DOMAIN calls}])
    /\ UNCHANGED <<service, inp, runVars, result>>

(* An error of the model that is no overflow, or an unexpected one of a    *)
(* tool.                                                                   *)
RunRaises ==
    /\ pc \in {"model", "tools"}
    /\ pc' = "raised"
    /\ UNCHANGED <<service, inp, runVars, result, answer>>

MaxCompactionRetries == 3

(* Mutant: retries are not counted. *)
NeverLast == FALSE

LastAttempt == attempt = MaxCompactionRetries

(* The model rejects the run for length; the last time that is raised. *)
Overflow ==
    /\ pc = "model"
    /\ pc' = IF LastAttempt THEN "gave_up" ELSE "compacting"
    /\ UNCHANGED <<service, inp, runVars, result, answer>>

Compacted ==
    DropLeadingAssistant(IF service.compactor = "summarize"
                         THEN Summarizer(history) ELSE SlidingWindow(history))

(* Run again with less, or raise the overflow when there is nothing to drop. *)
(* The cards of the run that overflowed stay where they are.                 *)
Compact ==
    /\ pc = "compacting"
    /\ IF Len(Compacted) < Len(history)
       THEN /\ pc' = "model"
            /\ history' = Compacted
            /\ attempt' = attempt + 1
            /\ calls' = <<>>
       ELSE pc' = "gave_up" /\ UNCHANGED <<history, attempt, calls>>
    /\ UNCHANGED <<service, inp, attachments, result, answer>>

(* The summary is a model call of its own. *)
SummaryRaises ==
    /\ pc = "compacting" /\ service.compactor = "summarize" /\ Summarizes(history)
    /\ pc' = "raised"
    /\ UNCHANGED <<service, inp, runVars, result, answer>>

(* The turn's budget is spent: whatever the run was at is cancelled. *)
OutOfTime ==
    /\ pc \in {"model", "tools", "compacting"}
    /\ Reply(Plain("out_of_time"))
    /\ UNCHANGED <<service, inp, runVars, result>>

---------------------------------------------------------------------------
(* A command *)

Results == {"none", "card", "plain", "layout"}

(* dispatch and the skill; the message of a SkillError is a plain result. *)
RunCommand ==
    /\ pc = "command"
    /\ result' \in Results \ {"none"}
    /\ pc' = "stylist"
    /\ UNCHANGED <<service, inp, runVars, answer>>

CommandRaises ==
    /\ pc \in {"command", "stylist"}
    /\ pc' = "raised"
    /\ UNCHANGED <<service, inp, runVars, result, answer>>

(* Text laid out for the eye is kept under a voiced line; a restatement    *)
(* that loses a number or a link is dropped for the skill's own text.      *)
Voice(keepsFacts) ==
    IF result = "plain" /\ ~keepsFacts THEN "skill" ELSE "stylist"

Stylize ==
    /\ pc = "stylist"
    /\ \E keepsFacts \in BOOLEAN : Reply(Plain(Voice(keepsFacts)))
    /\ UNCHANGED <<service, inp, runVars, result>>

---------------------------------------------------------------------------
Next ==
    \/ Malformed \/ Escape \/ Route \/ Crash
    \/ ModelCalls \/ ModelAnswers \/ RunRaises \/ Overflow
    \/ \E i \in DOMAIN calls : ToolReturns(i) \/ ToolReports(i) \/ ToolRejected(i)
    \/ Compact \/ SummaryRaises \/ OutOfTime
    \/ RunCommand \/ CommandRaises \/ Stylize

Spec == Init /\ [][Next]_vars

(* A turn is one coroutine, and what it waits for (the model, a skill)     *)
(* answers or fails: every call it makes has a timeout of its own.         *)
FairSpec == Spec /\ WF_vars(Next)

---------------------------------------------------------------------------
(* Properties *)

TypeOK ==
    /\ service \in Services
    /\ inp \in Inputs
    /\ pc \in {"arrived", "model", "tools", "compacting", "gave_up", "raised",
              "command", "stylist", "answered", "dropped"}
    /\ history \in Seq(Message)
    /\ attempt \in 0..MaxCompactionRetries
    /\ calls \in Seq({"running", "returned", "rejected"})
    /\ Len(calls) <= MaxCalls
    /\ pc = "tools" => Running # {}
    /\ pc = "model" => Running = {}
    /\ attachments \in Seq((1..attempt + 1) \X (1..MaxCalls))
    /\ result \in Results
    /\ answer.by \in {"nobody", "agent", "malformed", "crashed", "out_of_time",
                     "skill", "stylist"}

(* The turns that are there to be heard: those with a text, from the first *)
(* of a user's on.                                                         *)
Heard ==
    LET turns == inp.turns
    IN  {i \in DOMAIN turns :
            /\ ~turns[i].blank
            /\ \E j \in 1..i : turns[j].role = "user" /\ ~turns[j].blank}

Seen == UNION {history[k].turns : k \in DOMAIN history}

(* Whatever compaction did, the model is given the end of the chain: if it *)
(* sees a turn it sees every later one, in order and attributed to the     *)
(* right side, and a user speaks first.  The first run sees all of it.     *)
ModelSeesTheTail ==
    pc = "model" =>
        /\ attempt = 0 => Seen = Heard
        /\ \A i \in Seen, j \in Heard : i < j => j \in Seen
        /\ \A k \in DOMAIN history : \A i \in history[k].turns :
              /\ inp.turns[i].role = history[k].role
              /\ \A l \in 1..k - 1 : \A j \in history[l].turns : j < i
        /\ history # <<>> => Head(history).role = "user"

(* A turn is given up for its length only after three compactions, or with *)
(* no more than three messages of history left (chat.py:246, "up to        *)
(* MAX_COMPACTION_RETRIES or until the history can no longer shrink").     *)
GivesUpLate ==
    pc = "gave_up" => attempt = MaxCompactionRetries \/ Len(history) <= 3

(* The card of an answer is that of one of the calls behind it, however    *)
(* often the run was started anew and whatever cards earlier runs left,    *)
(* if any of these calls produced one (result.py:56, "The tool calls       *)
(* behind this answer").                                                   *)
FreshCardWins ==
    answer.by = "agent" /\ (\E k \in DOMAIN attachments : attachments[k][1] = attempt + 1)
        => answer.card \in answer.calls

(* Every dispatch is answered in the end: a crash, an overflow, a budget   *)
(* that is spent and most payloads that cannot be read are answers too.    *)
(* The two kinds of payload in Uncaught are dropped, and only these:       *)
(* serve.py:11-13 says that "a malformed payload or a crash always becomes *)
(* an answer rather than a dropped request".                               *)
EveryTurnAnswered ==
    <>(IF inp.kind \in Uncaught THEN pc = "dropped" /\ answer.by = "nobody"
                                ELSE pc = "answered" /\ answer.by # "nobody")
=============================================================================
