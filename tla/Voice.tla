------------------------------- MODULE Voice -------------------------------
(***************************************************************************)
(* DiscordVoicePort: the voice side of the music service, for one guild.   *)
(*                                                                         *)
(* A play first waits for a connection, then for yt-dlp in a worker        *)
(* thread, and only then, without waiting again, replaces what plays: any  *)
(* number of plays can be on their way to that point.  The port belongs to *)
(* one request, but the voice client it drives is the guild's.             *)
(*                                                                         *)
(* Of discord.py only what voice.py relies on is here: connecting while a  *)
(* client exists and playing on a client that is gone both raise, and      *)
(* a player calls its after callback when it stops, whatever stopped it.   *)
(***************************************************************************)
EXTENDS Integers, FiniteSets

CONSTANTS
    NoPlay,   \* the player is idle
    Failing   \* whether connecting and resolving can fail

ASSUME VoiceAssumption == Failing \in BOOLEAN

VARIABLES
    client,    \* guild.voice_client: its state and the number of clients so far
    plays,     \* calls of play that wait, with the client they captured
    player,    \* the play whose audio is playing
    finished   \* plays whose after callback the event loop has still to run

voiceVars == <<client, plays, player, finished>>

VoiceInit ==
    /\ client = [state |-> "none", gen |-> 0]
    /\ plays = {}
    /\ player = NoPlay
    /\ finished = {}

IsPlaying == player # NoPlay

(* The after callback of what plays, if it is made to stop. *)
TornDown == IF IsPlaying THEN {[play |-> player, torn |-> TRUE]} ELSE {}

Waiting(play, step, gen) == [play |-> play, step |-> step, gen |-> gen]

(* play up to its first wait.  A client that is still connecting or        *)
(* closing is not connected, so connect is called, which raises; and the   *)
(* member who asked may have left the voice channel.                       *)
BeginPlay(play) ==
    \/ /\ client.state = "connected"
       /\ plays' = plays \cup {Waiting(play, "resolving", client.gen)}
       /\ UNCHANGED client
    \/ /\ client.state = "none"
       /\ client' = [state |-> "connecting", gen |-> client.gen + 1]
       /\ plays' = plays \cup {Waiting(play, "connecting", client.gen + 1)}
    \/ /\ \/ client.state \in {"connecting", "closing"}
          \/ client.state = "none" /\ Failing
       /\ UNCHANGED <<client, plays>>

(* channel.connect returns, unless the client was stopped in the meantime. *)
Connected(w) ==
    /\ w \in plays /\ w.step = "connecting"
    /\ IF client = [state |-> "connecting", gen |-> w.gen]
         THEN /\ client' = [client EXCEPT !.state = "connected"]
              /\ plays' = (plays \ {w}) \cup {[w EXCEPT !.step = "resolving"]}
         ELSE plays' = plays \ {w} /\ UNCHANGED client
    /\ UNCHANGED <<player, finished>>

ConnectFails(w) ==
    /\ Failing
    /\ w \in plays /\ w.step = "connecting"
    /\ client = [state |-> "connecting", gen |-> w.gen]
    /\ client' = [client EXCEPT !.state = "none"]
    /\ plays' = plays \ {w}
    /\ UNCHANGED <<player, finished>>

(* The rest of play: the captured client must still be connected; what     *)
(* plays is stopped and the new source starts, in one go.                  *)
Resolved(w) ==
    /\ w \in plays /\ w.step = "resolving"
    /\ plays' = plays \ {w}
    /\ IF client = [state |-> "connected", gen |-> w.gen]
         THEN player' = w.play /\ finished' = finished \cup TornDown
         ELSE UNCHANGED <<player, finished>>
    /\ UNCHANGED client

ResolveFails(w) ==
    /\ Failing
    /\ w \in plays /\ w.step = "resolving"
    /\ plays' = plays \ {w}
    /\ UNCHANGED <<client, player, finished>>

(* The source is exhausted; from here on is_playing is false, while the    *)
(* callback has yet to hop from the player's thread to the event loop.     *)
TrackEnds ==
    /\ IsPlaying
    /\ player' = NoPlay
    /\ finished' = finished \cup {[play |-> player, torn |-> FALSE]}
    /\ UNCHANGED <<client, plays>>

(* stop up to its wait: the player goes at once, the client when Discord   *)
(* has answered; a client that was not connected yet is just dropped.      *)
StopVoice ==
    /\ player' = NoPlay
    /\ finished' = finished \cup TornDown
    /\ client' = [client EXCEPT !.state = CASE @ = "connected" -> "closing"
                                            [] @ = "connecting" -> "none"
                                            [] OTHER -> @]
    /\ UNCHANGED plays

Disconnected ==
    /\ client.state = "closing"
    /\ client' = [client EXCEPT !.state = "none"]
    /\ UNCHANGED <<plays, player, finished>>

VoiceStep ==
    \/ \E w \in plays : Connected(w) \/ ConnectFails(w) \/ Resolved(w) \/ ResolveFails(w)
    \/ TrackEnds
    \/ Disconnected
=============================================================================
