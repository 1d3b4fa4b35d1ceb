------------------------------- MODULE Typing -------------------------------
(***************************************************************************)
(* The typing indicator of a conversational turn (think and _type).        *)
(*                                                                         *)
(* think runs the turn and turns every checkpoint (a phase the transport   *)
(* reports, and the THINKING_AFTER_SECONDS mark) into an item of a queue.  *)
(* _type, a task of its own, triggers typing again and again, and for an   *)
(* item of the queue lets the indicator lapse and stays quiet for a while. *)
(*                                                                         *)
(* Time is counted in seconds.  The event loop keeps up with the clock: a  *)
(* task that can run does so before the next second.  The calls to Discord *)
(* do take time, and what the user sees (shown) changes at Discord.        *)
(***************************************************************************)
EXTENDS Naturals

CONSTANTS
    After,      \* THINKING_AFTER_SECONDS
    Lifetime,   \* TYPING_LIFETIME_SECONDS
    Refresh,    \* TYPING_REFRESH_SECONDS
    Pause,      \* PAUSE_SECONDS
    MaxCall,    \* the longest a typing call takes
    MaxPhases   \* how many phases a transport reports in a turn

ASSUME TypingAssumption ==
    /\ After \in Nat /\ Lifetime \in Nat /\ Refresh \in Nat /\ Pause \in Nat
    /\ MaxCall \in Nat /\ MaxPhases \in Nat
    /\ Refresh > 0 /\ Pause > 0 /\ Refresh < Lifetime

VARIABLES
    work,     \* the turn: "running" or "over" (answered, failed or cancelled)
    event,    \* phase_changed
    left,     \* seconds left to the deadline
    marked,   \* whether the deadline is None
    queue,    \* items of pauses
    typist,   \* _type: "calling", "waiting", "quiet", "off" (cancelled)
    timer,    \* seconds of the call, since triggered, or left to sleep
    applied,  \* whether the call in progress has reached Discord
    shown,    \* seconds the indicator remains visible
    phases,   \* history: phases reported
    pauses,   \* history: pauses begun
    resuming, \* history: the call in progress is the first after a pause
    dark,     \* history: seconds the indicator has been gone, up to Pause
    failed    \* history: a typing call has failed

thinkVars == <<work, event, left, marked>>
typeVars == <<typist, timer, applied, resuming>>
seenVars == <<shown, dark>>
vars == <<thinkVars, queue, typeVars, seenVars, phases, pauses, failed>>

Init ==
    /\ work = "running" /\ event = FALSE
    /\ left = After /\ marked = FALSE
    /\ queue = 0
    /\ typist = "calling" /\ timer = 0 /\ applied = FALSE
    /\ shown = 0 /\ dark = Pause
    /\ phases = 0 /\ pauses = 0 /\ resuming = FALSE /\ failed = FALSE

Monus(a, b) == IF a > b THEN a - b ELSE 0

(***************************************************************************)
(* think.                                                                  *)
(***************************************************************************)

\* The transport reports a phase, in the turn's own task.
Report ==
    /\ work = "running" /\ phases < MaxPhases
    /\ phases' = phases + 1
    /\ event' = TRUE
    /\ UNCHANGED <<work, left, marked, queue, typeVars, seenVars, pauses, failed>>

DeadlinePassed == ~marked /\ left = 0

\* One round of the loop: asyncio.wait returns for the event or the deadline;
\* the event is looked at before it is cleared for the next wait.
Checkpoint ==
    /\ work = "running"
    /\ \/ event /\ UNCHANGED marked
       \/ ~event /\ DeadlinePassed /\ marked' = TRUE
    /\ event' = FALSE
    /\ queue' = queue + 1
    /\ UNCHANGED <<work, left, typeVars, seenVars, phases, pauses, failed>>

\* The turn answers, raises or is cancelled; _type is cancelled with it.
Finish ==
    /\ work = "running"
    /\ work' = "over"
    /\ typist' = "off" /\ timer' = 0 /\ applied' = FALSE /\ resuming' = FALSE
    /\ UNCHANGED <<event, left, marked, queue, seenVars, phases, pauses, failed>>

(***************************************************************************)
(* _type.                                                                  *)
(***************************************************************************)

\* Discord shows the indicator for Lifetime seconds from now.
Applied ==
    /\ typist = "calling" /\ ~applied
    /\ applied' = TRUE
    /\ shown' = Lifetime /\ dark' = 0
    /\ UNCHANGED <<thinkVars, queue, typist, timer, resuming, phases, pauses, failed>>

\* channel.typing() returns, or raises and is logged: either way it counts
\* as triggered.
CallEnds ==
    /\ typist = "calling"
    /\ (applied /\ UNCHANGED failed) \/ failed' = TRUE
    /\ typist' = "waiting" /\ timer' = 0
    /\ applied' = FALSE /\ resuming' = FALSE
    /\ UNCHANGED <<thinkVars, queue, seenVars, phases, pauses>>

RefreshAtLapse == timer >= Lifetime    \* mutant: refreshed when it has run out
RefreshLate == timer > Refresh         \* mutant: an off-by-one
RefreshDue == timer >= Refresh

\* The timeout may win against an item put at the same moment: the cancelled
\* get leaves it in the queue.
LostItems == 0                         \* mutant: the cancelled get took it
KeptItems == queue

\* The wait for a pause times out and typing is triggered again.
Refreshed ==
    /\ typist = "waiting" /\ RefreshDue
    /\ queue' = KeptItems
    /\ typist' = "calling" /\ timer' = 0
    /\ applied' = FALSE /\ resuming' = FALSE
    /\ UNCHANGED <<thinkVars, seenVars, phases, pauses, failed>>

NoLapse == 0                           \* mutant: does not wait for the lapse
Lapse == Monus(Lifetime, timer)

BeginPause ==
    /\ typist = "waiting" /\ queue > 0
    /\ queue' = queue - 1
    /\ typist' = "quiet" /\ timer' = Lapse + Pause
    /\ pauses' = pauses + 1
    /\ UNCHANGED <<thinkVars, applied, resuming, seenVars, phases, failed>>

\* What is left of the queue when a pause ends: what arrived meanwhile is
\* served by this pause.
Drained == 0

EndPause ==
    /\ typist = "quiet" /\ timer = 0
    /\ queue' = Drained
    /\ typist' = "calling" /\ applied' = FALSE /\ resuming' = TRUE
    /\ UNCHANGED <<thinkVars, timer, seenVars, phases, pauses, failed>>

(***************************************************************************)
(* A second passes when no task can run and no call has to end first.      *)
(***************************************************************************)
Idle ==
    /\ work = "running" => ~event /\ ~DeadlinePassed
    /\ typist = "calling" => timer < MaxCall
    /\ typist = "waiting" => queue = 0 /\ ~RefreshDue
    /\ typist = "quiet" => timer > 0

Tick ==
    /\ Idle
    /\ left' = Monus(left, 1)
    /\ timer' = IF typist = "off" THEN timer
                ELSE IF typist = "quiet" THEN timer - 1 ELSE timer + 1
    /\ shown' = Monus(shown, 1)
    /\ dark' = IF shown > 0 \/ dark = Pause THEN dark ELSE dark + 1
    /\ UNCHANGED <<work, event, marked, queue, typist, applied, phases, pauses,
                   resuming, failed>>

Next ==
    \/ Report \/ Checkpoint \/ Finish
    \/ Applied \/ CallEnds \/ Refreshed \/ BeginPause \/ EndPause
    \/ Tick

Spec == Init /\ [][Next]_vars

\* The event loop runs what can run and time passes; Discord answers a call
\* within MaxCall.
FairSpec == Spec /\ WF_vars(Next)

(***************************************************************************)
(* Properties.                                                             *)
(***************************************************************************)

FlagsOK ==
    /\ event \in BOOLEAN /\ marked \in BOOLEAN /\ applied \in BOOLEAN
    /\ resuming \in BOOLEAN /\ failed \in BOOLEAN

TimesOK ==
    /\ work \in {"running", "over"}
    /\ left \in 0..After
    /\ queue \in 0..(MaxPhases + 1)
    /\ typist \in {"calling", "waiting", "quiet", "off"}
    /\ timer \in Nat
    /\ typist = "calling" => timer <= MaxCall
    /\ typist = "waiting" => timer <= Refresh
    /\ typist = "quiet" => timer <= Lifetime + Pause
    /\ typist = "off" => timer = 0
    /\ shown \in 0..Lifetime /\ dark \in 0..Pause
    /\ phases \in 0..MaxPhases
    /\ pauses \in 0..(MaxPhases + 1)

\* The queue holds at most one item for each phase and one for the mark, and
\* no timer runs past the constant that bounds it.
TypeOK == FlagsOK /\ TimesOK

\* A pause is one the user can see: when the first trigger after it reaches
\* Discord the indicator has been gone for PAUSE_SECONDS, however long the
\* calls before it took and whenever the checkpoint came.
PauseIsSeen == typist = "calling" /\ resuming /\ ~applied => dark = Pause

\* Outside of pauses the indicator never lapses while the turn runs, as long
\* as Discord takes the calls: a refresh reaches it before the last trigger
\* has run out (thinking.py:31, "well inside one trigger's life").  The
\* refresh is timed from the return of the last call, so this is so only if
\* two calls and the wait between them fit in one trigger's life.
Prompt == Refresh + 2 * MaxCall < Lifetime

FirstCall == typist = "calling" /\ pauses = 0 /\ dark = Pause

NeverLapses ==
    Prompt /\ typist \in {"calling", "waiting"} /\ ~resuming /\ ~FirstCall /\ ~failed
        => shown > 0

\* There is no pause without a checkpoint of its own.
PausesAreCheckpoints ==
    pauses + queue + (IF event THEN 1 ELSE 0) <= phases + (IF marked THEN 1 ELSE 0)

\* Every phase reported, and the mark, is followed by a pause if the turn
\* goes on: whatever the think loop and _type are doing when it comes.
CheckpointIsServed ==
    (work = "running" /\ (event \/ DeadlinePassed)) ~> (typist \in {"quiet", "off"})
=============================================================================
