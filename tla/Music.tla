------------------------------- MODULE Music -------------------------------
(***************************************************************************)
(* MusicSkill over DiscordVoicePort (Voice): the queue, the track that     *)
(* should be playing, the skip votes and the play_token of every           *)
(* conversation of one guild.                                              *)
(*                                                                         *)
(* Requests are tasks of one event loop (aiohttp), and so are the finished *)
(* callbacks.  A task runs undisturbed up to its first wait, which for all *)
(* of them is inside the voice port: an action here is the part of a       *)
(* request up to that wait.  What comes after it changes nothing.          *)
(***************************************************************************)
EXTENDS Voice, Sequences

CONSTANTS
    Conversations,  \* the channels of the guild the skill is used in
    Users,
    Songs,          \* every play request asks for another song
    SkipThreshold,  \* SKIP_THRESHOLD, 3 in the code
    Levels,         \* the volume levels asked for, in percent
    Nothing,        \* no track
    Overlapping,    \* whether requests come while one is still in progress
    MaxToken        \* bound: stop is not called once a play_token got this far

ASSUME MusicAssumption ==
    /\ SkipThreshold \in Nat \ {0}
    /\ Levels \subseteq Int
    /\ Overlapping \in BOOLEAN
    /\ MaxToken \in Nat

VARIABLES
    music,     \* ConversationMusic, by conversation
    asked,     \* the songs requested so far
    heard,     \* history: how often a song's audio was started
    ballot,    \* history: the track a user's vote was cast on
    cleared,   \* history: songs dropped from a queue by stop
    raised     \* history: whether the play of the track that started last raised

vars == <<voiceVars, music, asked, heard, ballot, cleared, raised>>

Tracks == [song : Songs, by : Users]

NewMusic == [queue |-> <<>>, current |-> Nothing, votes |-> {}, token |-> 0, volume |-> 60]

Init ==
    /\ VoiceInit
    /\ music = [c \in Conversations |-> NewMusic]
    /\ asked = {}
    /\ heard = [s \in Songs |-> 0]
    /\ ballot = [c \in Conversations |-> [u \in Users |-> Nothing]]
    /\ cleared = {}
    /\ raised = [c \in Conversations |-> FALSE]

(* No request and no auto-advance is waiting inside the voice port. *)
Idle == plays = {} /\ client.state \in {"none", "connected"}

MayRequest == Overlapping \/ Idle

---------------------------------------------------------------------------
(* The transitions of ConversationMusic *)

(* Mutant: the votes survive the track they were cast on. *)
KeepsVotes(s, t) == [s EXCEPT !.current = t, !.token = @ + 1]

(* Mutant: the new track runs under the old token. *)
KeepsToken(s, t) == [s EXCEPT !.current = t, !.votes = {}]

(* _start, but for the call of play *)
WithTrack(s, t) == [s EXCEPT !.current = t, !.votes = {}, !.token = @ + 1]

(* Mutant: the next track is read and not taken from the queue. *)
NotPopped(s) == s

(* Mutant: taking the next track empties the queue. *)
Emptied(s) == [s EXCEPT !.queue = <<>>]

(* queue.popleft(), the state's side of it *)
Popped(s) == [s EXCEPT !.queue = Tail(@)]

(* _stop and the last skip: nothing plays, and the pending callback is void *)
Silenced(s) == [s EXCEPT !.current = Nothing, !.votes = {}, !.token = @ + 1]

(* The finished callback of the last track.  It leaves the votes. *)
RanOut(s) == [s EXCEPT !.current = Nothing, !.token = @ + 1]

(* _start: the state changes first, then play is called with the token in  *)
(* its callback, which may raise at once.  The player goes on with what it *)
(* plays.                                                                  *)
Start(c, s, t) ==
    LET next == WithTrack(s, t)
    IN  /\ music' = [music EXCEPT ![c] = next]
        /\ BeginPlay([conv |-> c, token |-> next.token, track |-> t,
                      volume |-> next.volume])
        /\ raised' = [raised EXCEPT ![c] = (plays' = plays)]

StartNext(c, s) == Start(c, Popped(s), Head(s.queue))

---------------------------------------------------------------------------
(* Requests *)

(* Mutant: whatever plays in the guild makes a track wait. *)
WaitsForAudio(s) == IsPlaying

(* The track has to wait: one is current, and there is audio in the guild. *)
HasToWait(s) == s.current # Nothing /\ IsPlaying

Play(c, u, song) ==
    /\ MayRequest /\ song \notin asked
    /\ asked' = asked \cup {song}
    /\ LET track == [song |-> song, by |-> u]
       IN  \/ /\ HasToWait(music[c])
              /\ music' = [music EXCEPT ![c].queue = Append(@, track)]
              /\ UNCHANGED <<voiceVars, raised>>
           \/ /\ ~HasToWait(music[c])
              /\ Start(c, music[c], track)
              /\ UNCHANGED <<player, finished>>
    /\ UNCHANGED <<heard, ballot, cleared>>

(* _advance *)
Advance(c, s) ==
    \/ s.queue # <<>> /\ StartNext(c, s) /\ UNCHANGED <<player, finished>>
    \/ /\ s.queue = <<>>
       /\ music' = [music EXCEPT ![c] = Silenced(s)]
       /\ StopVoice
       /\ UNCHANGED raised

(* The requester skips alone; anybody else votes, once. *)
Skip(c, u) ==
    /\ MayRequest /\ music[c].current # Nothing
    /\ LET s == music[c]
           voted == [s EXCEPT !.votes = @ \cup {u}]
       IN  \/ /\ u = s.current.by
              /\ Advance(c, s)
              /\ UNCHANGED ballot
           \/ /\ u # s.current.by /\ u \notin s.votes
              /\ ballot' = [ballot EXCEPT ![c][u] = s.current]
              /\ \/ /\ Cardinality(voted.votes) < SkipThreshold
                    /\ music' = [music EXCEPT ![c] = voted]
                    /\ UNCHANGED <<voiceVars, raised>>
                 \/ /\ Cardinality(voted.votes) >= SkipThreshold
                    /\ Advance(c, voted)
    /\ UNCHANGED <<asked, heard, cleared>>

Stop(c) ==
    /\ MayRequest /\ music[c].token < MaxToken
    /\ music' = [music EXCEPT ![c] = [Silenced(@) EXCEPT !.queue = <<>>]]
    /\ cleared' = cleared \cup {music[c].queue[i].song : i \in DOMAIN music[c].queue}
    /\ StopVoice
    /\ UNCHANGED <<asked, heard, ballot, raised>>

(* Mutant: the level is taken as it is. *)
Unclamped(level) == level

Clamped(level) == IF level < 0 THEN 0 ELSE IF level > 100 THEN 100 ELSE level

SetVolume(c) ==
    /\ MayRequest
    /\ \E level \in Levels : music' = [music EXCEPT ![c].volume = Clamped(level)]
    /\ UNCHANGED <<voiceVars, asked, heard, ballot, cleared, raised>>

---------------------------------------------------------------------------
(* Callbacks *)

(* Mutant: the finished callback does not look at the token. *)
NeverSuperseded(s, play) == FALSE

(* token != state.play_token *)
Superseded(s, play) == play.token # s.token

(* _advance_on_end; of what plays now it asks nothing but the token. *)
Callback(f) ==
    /\ f \in finished
    /\ finished' = finished \ {f}
    /\ LET c == f.play.conv
           s == music[c]
       IN  \/ /\ Superseded(s, f.play)
              /\ UNCHANGED <<client, plays, music, raised>>
           \/ /\ ~Superseded(s, f.play) /\ s.queue = <<>>
              /\ music' = [music EXCEPT ![c] = RanOut(s)]
              /\ UNCHANGED <<client, plays, raised>>
           \/ /\ ~Superseded(s, f.play) /\ s.queue # <<>>
              /\ StartNext(c, s)
    /\ UNCHANGED <<player, asked, heard, ballot, cleared>>

(* The plays that raise in this step: they waited and will not be heard. *)
Raising == {w.play : w \in plays} \ ({w.play : w \in plays'} \cup {player'})

(* The voice port goes on by itself. *)
Port ==
    /\ VoiceStep
    /\ raised' = [c \in Conversations |-> raised[c] \/
                    \E p \in Raising : p.conv = c /\ p.token = music[c].token]
    /\ heard' = IF IsPlaying' /\ player' # player
                  THEN [heard EXCEPT ![player'.track.song] = @ + 1]
                  ELSE heard
    /\ UNCHANGED <<music, asked, ballot, cleared>>

Next ==
    \/ \E c \in Conversations, u \in Users :
          Skip(c, u) \/ \E song \in Songs : Play(c, u, song)
    \/ \E c \in Conversations : Stop(c) \/ SetVolume(c)
    \/ \E f \in finished : Callback(f)
    \/ Port

Spec == Init /\ [][Next]_vars

(* The event loop runs the callbacks and the port's waits end: a track     *)
(* too.  Nobody has to ask for anything.                                   *)
Fairness == WF_vars(Port) /\ WF_vars(\E f \in finished : Callback(f))

FairSpec == Spec /\ Fairness

---------------------------------------------------------------------------
(* Properties *)

PlayCalls == [conv : Conversations, token : Nat, track : Tracks, volume : 0..100]

(* None is no track, and no play. *)
ASSUME NoneAssumption == Nothing \notin Tracks /\ NoPlay \notin PlayCalls

(* Every play whose callback the skill may still be given. *)
Outstanding ==
    {w.play : w \in plays} \cup {f.play : f \in finished}
        \cup (IF IsPlaying THEN {player} ELSE {})

TypeOK ==
    /\ client \in [state : {"none", "connecting", "connected", "closing"}, gen : Nat]
    /\ plays \subseteq [play : PlayCalls, step : {"connecting", "resolving"}, gen : Nat]
    /\ player \in PlayCalls \cup {NoPlay}
    /\ finished \subseteq [play : PlayCalls, torn : BOOLEAN]
    /\ music \in [Conversations ->
          [queue : Seq(Tracks), current : Tracks \cup {Nothing},
           votes : SUBSET Users, token : Nat, volume : 0..100]]
    /\ asked \subseteq Songs
    /\ heard \in [Songs -> Nat]
    /\ ballot \in [Conversations -> [Users -> Tracks \cup {Nothing}]]
    /\ cleared \subseteq Songs
    /\ raised \in [Conversations -> BOOLEAN]

(* A play that holds the token of its conversation is that of the track    *)
(* the conversation believes is playing.  Which of the plays is audible is *)
(* another matter: see TornIsSuperseded.                                   *)
TokenNamesTrack ==
    \A p \in Outstanding :
        /\ p.token <= music[p.conv].token
        /\ p.token = music[p.conv].token => music[p.conv].current = p.track

(* Two outstanding plays of a conversation never share a token, so at most *)
(* one callback can advance its queue (skill.py:10, "no double-advance").  *)
TokensAreUnique ==
    \A p, q \in Outstanding : p.conv = q.conv /\ p.token = q.token => p = q

(* A song is heard at most once, and not while it still waits in a queue,  *)
(* in which it stands once.                                                *)
NoSongTwice ==
    /\ \A s \in Songs : heard[s] <= 1
    /\ \A c \in Conversations :
         LET queue == music[c].queue
         IN  \A i \in DOMAIN queue :
               /\ heard[queue[i].song] = 0
               /\ \A j \in DOMAIN queue : queue[i].song = queue[j].song => i = j

(* While a track is current, the votes are those of other users for that   *)
(* very track, and too few to skip it (skill.py:93, 140-153).              *)
VotesAreForCurrent ==
    \A c \in Conversations :
        LET s == music[c]
        IN  s.current # Nothing =>
              /\ Cardinality(s.votes) < SkipThreshold
              /\ \A u \in s.votes : u # s.current.by /\ ballot[c][u] = s.current

(* A play or a callback that will bring the conversation its next track. *)
Driven(c) == \E p \in Outstanding : p.conv = c /\ p.token = music[c].token

(* A queue that waits has something to wait for: a play on its way or      *)
(* audible, or a callback.  Whatever overlaps, only one thing leaves it    *)
(* without: the play of the track that started last raised, in connecting, *)
(* in resolving, or because another was connecting (skill.py:92, 99: the   *)
(* state has moved on before play is awaited).                             *)
OnlyErrorsStall ==
    \A c \in Conversations : music[c].queue # <<>> => Driven(c) \/ raised[c]

(* The queue auto-advances (skill.py:6): nothing strands it. *)
QueueIsDriven ==
    \A c \in Conversations : music[c].queue # <<>> => Driven(c)


(* The one conversation of a guild, and its play on the way to the player. *)
Channel == CHOOSE c \in Conversations : TRUE

Coming == {w.play.track : w \in {v \in plays : v.play.conv = Channel}}

Cued == IF Coming = {} THEN Nothing ELSE CHOOSE t \in Coming : TRUE

On == IF IsPlaying /\ player.conv = Channel THEN player.track ELSE Nothing

Box == INSTANCE Jukebox
    WITH line <- music[Channel].queue, cued <- Cued, on <- On, jammed <- raised[Channel]

(* As long as requests do not overlap, what the users of the one channel   *)
(* hear is a jukebox, its port failing or not: the songs come in the order *)
(* they were asked for, one at a time, and whenever it falls silent the    *)
(* next one comes unless a play raised, however votes, skips, ends, errors *)
(* and late callbacks fall together (skill.py:6-10).                       *)
PlaysInTurn == Box!Spec

(* As long as requests do not overlap, a song that waits in a queue is     *)
(* heard some day, unless stop drops it or a play raises: then nothing     *)
(* brings it until somebody plays or skips.                                *)
QueuedIsHeard ==
    \A s \in Songs :
        (\E i \in DOMAIN music[Channel].queue : music[Channel].queue[i].song = s)
        ~> (heard[s] = 1 \/ s \in cleared \/ raised[Channel])
=============================================================================
