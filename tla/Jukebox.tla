------------------------------ MODULE Jukebox -------------------------------
(***************************************************************************)
(* What the music of a conversation promises its users, without tokens,    *)
(* callbacks, connections or votes: one track is heard at a time, songs    *)
(* wait in the order they were asked for, the one that comes next is the   *)
(* first of them, and only stop drops any.  This is the promise of         *)
(* skills/music/skill.py, "the queue auto-advances".                       *)
(*                                                                         *)
(* Two things it does not promise: a song asked for in the moment between  *)
(* two tracks is not put in line, and overtakes those that are; and a      *)
(* track that cannot be played is gone, and jams the box until somebody    *)
(* asks for a song or skips.                                               *)
(***************************************************************************)
EXTENDS Sequences

CONSTANTS Songs, Users, Nothing

VARIABLES
    asked,   \* the songs asked for so far
    line,    \* the tracks that wait
    cued,    \* the track that is about to be heard
    on,      \* the track that is heard
    jammed   \* whether the last track that was to come could not be played

boxVars == <<asked, line, cued, on, jammed>>

Tracks == [song : Songs, by : Users]

Init ==
    /\ asked = {}
    /\ line = <<>>
    /\ cued = Nothing
    /\ on = Nothing
    /\ ~jammed

(* A track is about to be heard, or cannot be played. *)
Cue(track) ==
    \/ cued' = track /\ jammed' = FALSE
    \/ cued' = Nothing /\ jammed' = TRUE

AskFor(track) ==
    /\ track.song \notin asked
    /\ asked' = asked \cup {track.song}
    /\ \/ on # Nothing /\ line' = Append(line, track) /\ UNCHANGED <<cued, jammed>>
       \/ on = Nothing /\ cued = Nothing /\ Cue(track) /\ UNCHANGED line
    /\ UNCHANGED on

(* The first in line is next, because what was heard has ended or is       *)
(* skipped: then it is heard until the next one is.                        *)
NextUp ==
    /\ line # <<>> /\ cued = Nothing
    /\ Cue(Head(line))
    /\ line' = Tail(line)
    /\ UNCHANGED <<asked, on>>

Sound ==
    /\ cued # Nothing
    /\ on' = cued
    /\ cued' = Nothing
    /\ UNCHANGED <<asked, line, jammed>>

Break ==
    /\ cued # Nothing
    /\ cued' = Nothing
    /\ jammed' = TRUE
    /\ UNCHANGED <<asked, line, on>>

(* The track ends, or the last one is skipped. *)
Silence ==
    /\ on # Nothing
    /\ on' = Nothing
    /\ UNCHANGED <<asked, line, cued, jammed>>

Stop ==
    /\ cued = Nothing
    /\ line' = <<>>
    /\ on' = Nothing
    /\ UNCHANGED <<asked, cued, jammed>>

Next ==
    \/ \E track \in Tracks : AskFor(track)
    \/ NextUp \/ Sound \/ Break \/ Silence \/ Stop

(* Once it is silent the next one comes, and is heard, unless it jams. *)
Fairness == WF_boxVars(on = Nothing /\ ~jammed /\ NextUp) /\ WF_boxVars(Sound)

(* What is heard, and in which order, but not that it ever is. *)
Order == Init /\ [][Next]_boxVars

Spec == Order /\ Fairness
=============================================================================
