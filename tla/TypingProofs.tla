---------------------------- MODULE TypingProofs ----------------------------
(* Theorems about Typing, for any times and any number of phases. *)
EXTENDS Typing, TLAPS

(***************************************************************************)
(* Why a pause can be seen: the time it sleeps covers what is left of the  *)
(* last trigger at Discord, and Pause more.  The wait before it was timed  *)
(* from the return of the call, which is after Discord took it.            *)
(***************************************************************************)
PauseCovers ==
    /\ shown > 0 => dark = 0
    /\ typist = "waiting" => shown <= Lifetime - timer
    /\ typist = "quiet" => shown + (Pause - dark) <= timer
    /\ typist = "calling" /\ resuming /\ ~applied => shown = 0 /\ dark = Pause

(***************************************************************************)
(* How much of a trigger is left: it loses at most a call's length before  *)
(* the wait, Refresh during it, and a call's length until the next one.    *)
(***************************************************************************)
TriggerLasts ==
    ~failed =>
        /\ typist = "calling" /\ applied => shown + timer >= Lifetime
        /\ typist = "waiting" => shown + timer + MaxCall >= Lifetime
        /\ typist = "calling" /\ ~applied /\ ~resuming =>
              FirstCall \/ shown + timer + MaxCall + Refresh >= Lifetime

IInv == TypeOK /\ PausesAreCheckpoints /\ PauseCovers /\ TriggerLasts

LEMMA FlagsInit == Init => FlagsOK
BY DEF Init, FlagsOK

LEMMA FlagsNext == FlagsOK /\ [Next]_vars => FlagsOK'
<1> SUFFICES ASSUME FlagsOK, [Next]_vars PROVE FlagsOK'
  OBVIOUS
<1> USE DEF FlagsOK, thinkVars, typeVars, seenVars
<1>1. CASE Report
  BY <1>1 DEF Report
<1>2. CASE Checkpoint
  BY <1>2 DEF Checkpoint
<1>3. CASE Finish
  BY <1>3 DEF Finish
<1>4. CASE Applied
  BY <1>4 DEF Applied
<1>5. CASE CallEnds
  BY <1>5 DEF CallEnds
<1>6. CASE Refreshed
  BY <1>6 DEF Refreshed
<1>7. CASE BeginPause
  BY <1>7 DEF BeginPause
<1>8. CASE EndPause
  BY <1>8 DEF EndPause
<1>9. CASE Tick
  BY <1>9 DEF Tick
<1>10. CASE UNCHANGED vars
  BY <1>10 DEF vars
<1> QED
  BY <1>1, <1>2, <1>3, <1>4, <1>5, <1>6, <1>7, <1>8, <1>9, <1>10 DEF Next

LEMMA IInvInit == Init => IInv
<1> SUFFICES ASSUME Init PROVE IInv
  OBVIOUS
<1> USE TypingAssumption DEF Init
<1>1. TimesOK
  BY DEF TimesOK
<1>2. PausesAreCheckpoints
  BY DEF PausesAreCheckpoints
<1>3. PauseCovers
  BY DEF PauseCovers
<1>4. TriggerLasts
  BY DEF TriggerLasts, FirstCall
<1> QED
  BY FlagsInit, <1>1, <1>2, <1>3, <1>4 DEF IInv, TypeOK

LEMMA IInvNext == IInv /\ [Next]_vars => IInv'
<1> SUFFICES ASSUME TimesOK, PausesAreCheckpoints, PauseCovers, TriggerLasts, [Next]_vars
             PROVE  /\ TimesOK' /\ PausesAreCheckpoints'
                    /\ PauseCovers' /\ TriggerLasts'
  BY FlagsNext DEF IInv, TypeOK
<1> USE TypingAssumption
    DEF TimesOK, PausesAreCheckpoints, PauseCovers, TriggerLasts, FirstCall
<1>1. CASE Report
  BY <1>1 DEF Report, typeVars, seenVars
<1>2. CASE Checkpoint
  BY <1>2 DEF Checkpoint, DeadlinePassed, typeVars, seenVars
<1>3. CASE Finish
  BY <1>3 DEF Finish, seenVars
<1>4. CASE Applied
  BY <1>4 DEF Applied, thinkVars
<1>5. CASE CallEnds
  BY <1>5 DEF CallEnds, thinkVars, seenVars
<1>6. CASE Refreshed
  BY <1>6 DEF Refreshed, RefreshDue, KeptItems, thinkVars, seenVars
<1>7. CASE BeginPause
  BY <1>7 DEF BeginPause, Lapse, Monus, thinkVars, seenVars
<1>8. CASE EndPause
  BY <1>8 DEF EndPause, Drained, thinkVars, seenVars
<1>9. CASE Tick
  BY <1>9 DEF Tick, Idle, RefreshDue, Monus
<1>10. CASE UNCHANGED vars
  BY <1>10 DEF vars, thinkVars, typeVars, seenVars
<1> QED
  BY <1>1, <1>2, <1>3, <1>4, <1>5, <1>6, <1>7, <1>8, <1>9, <1>10 DEF Next

LEMMA IInvInvariant == Spec => []IInv
<1>1. Init => IInv
  BY IInvInit
<1>2. IInv /\ [Next]_vars => IInv'
  BY IInvNext
<1> QED
  BY <1>1, <1>2, PTL DEF Spec

(* The queue and the timers keep within their bounds. *)
THEOREM TypeCorrect == Spec => []TypeOK
<1>1. IInv => TypeOK
  BY DEF IInv
<1> QED
  BY <1>1, IInvInvariant, PTL

(* When typing resumes after a pause the indicator has been gone for       *)
(* PAUSE_SECONDS, for all times, also of calls.                            *)
THEOREM PausesAreSeen == Spec => []PauseIsSeen
<1>1. IInv => PauseIsSeen
  BY DEF IInv, PauseCovers, PauseIsSeen
<1> QED
  BY <1>1, IInvInvariant, PTL

(* If two calls and a wait fit in a trigger's life, the indicator shows    *)
(* without a gap between pauses.                                           *)
THEOREM IndicatorLasts == Spec => []NeverLapses
<1>1. IInv => NeverLapses
  <2> SUFFICES ASSUME IInv, Prompt, typist \in {"calling", "waiting"},
                      ~resuming, ~FirstCall, ~failed
               PROVE  shown > 0
    BY DEF NeverLapses
  <2> USE TypingAssumption DEF IInv, TypeOK, TimesOK, TriggerLasts, Prompt
  <2>1. CASE typist = "waiting"
    BY <2>1
  <2>2. CASE typist = "calling" /\ applied
    BY <2>2
  <2>3. CASE typist = "calling" /\ ~applied
    BY <2>3
  <2> QED
    BY <2>1, <2>2, <2>3
<1> QED
  BY <1>1, IInvInvariant, PTL

(* No pause is made up: each has a phase or the mark of its own. *)
THEOREM PausesHaveCheckpoints == Spec => []PausesAreCheckpoints
<1>1. IInv => PausesAreCheckpoints
  BY DEF IInv
<1> QED
  BY <1>1, IInvInvariant, PTL
=============================================================================
