----------------------------- MODULE MusicProofs -----------------------------
(***************************************************************************)
(* Theorems about Music, for any conversations, users and songs, however   *)
(* requests, callbacks and plays overlap.                                  *)
(***************************************************************************)
EXTENDS Music, FiniteSetTheorems, SequenceTheorems, TLAPS

States == [queue : Seq(Tracks), current : Tracks \cup {Nothing},
           votes : SUBSET Users, token : Nat, volume : 0..100]

Waits == [play : PlayCalls, step : {"connecting", "resolving"}, gen : Nat]

Ends == [play : PlayCalls, torn : BOOLEAN]

---------------------------------------------------------------------------
(* The transitions of one conversation *)

LEMMA Updates ==
    ASSUME NEW s \in States, NEW t \in Tracks \cup {Nothing}, NEW n \in Nat
    PROVE  /\ [s EXCEPT !.current = t, !.votes = {}, !.token = n] \in States
           /\ [s EXCEPT !.current = t, !.token = n] \in States
BY DEF States

LEMMA Transitions ==
    ASSUME NEW s \in States, NEW t \in Tracks
    PROVE  /\ WithTrack(s, t) \in States
           /\ WithTrack(s, t).token = s.token + 1 /\ WithTrack(s, t).current = t
           /\ WithTrack(s, t).votes = {} /\ WithTrack(s, t).queue = s.queue
           /\ WithTrack(s, t).volume = s.volume
<1>1. s.token + 1 \in Nat
  BY DEF States
<1>2. [s EXCEPT !.current = t, !.votes = {}, !.token = s.token + 1] \in States
  BY <1>1, Updates
<1>3. WithTrack(s, t) \in States
  BY <1>2 DEF WithTrack
<1> QED
  BY <1>3 DEF States, WithTrack

LEMMA Endings ==
    ASSUME NEW s \in States
    PROVE  /\ Silenced(s) \in States /\ RanOut(s) \in States
           /\ Silenced(s).token = s.token + 1 /\ RanOut(s).token = s.token + 1
           /\ Silenced(s).current = Nothing /\ RanOut(s).current = Nothing
           /\ Silenced(s).queue = s.queue /\ RanOut(s).queue = s.queue
<1>1. s.token + 1 \in Nat
  BY DEF States
<1>2. /\ [s EXCEPT !.current = Nothing, !.votes = {}, !.token = s.token + 1] \in States
      /\ [s EXCEPT !.current = Nothing, !.token = s.token + 1] \in States
  BY <1>1, Updates
<1>3. Silenced(s) \in States /\ RanOut(s) \in States
  BY <1>2 DEF Silenced, RanOut
<1> QED
  BY <1>3 DEF States, Silenced, RanOut

LEMMA Popping ==
    ASSUME NEW s \in States, s.queue # <<>>
    PROVE  /\ Popped(s) \in States /\ Head(s.queue) \in Tracks
           /\ Popped(s).queue = Tail(s.queue) /\ Popped(s).token = s.token
<1>1. s.queue \in Seq(Tracks) /\ Head(s.queue) \in Tracks /\ Tail(s.queue) \in Seq(Tracks)
  BY HeadTailProperties DEF States
<1> QED
  BY <1>1 DEF States, Popped

---------------------------------------------------------------------------
(* The plays whose callback is outstanding: only a start adds one *)

LEMMA PortAddsNone ==
    ASSUME TypeOK, VoiceStep PROVE Outstanding' \subseteq Outstanding
<1> USE DEF TypeOK, Outstanding, IsPlaying, TornDown
<1>1. ASSUME NEW w \in plays, Connected(w) PROVE Outstanding' \subseteq Outstanding
  BY <1>1 DEF Connected
<1>2. ASSUME NEW w \in plays, ConnectFails(w) PROVE Outstanding' \subseteq Outstanding
  BY <1>2 DEF ConnectFails
<1>3. ASSUME NEW w \in plays, Resolved(w) PROVE Outstanding' \subseteq Outstanding
  BY <1>3 DEF Resolved
<1>4. ASSUME NEW w \in plays, ResolveFails(w) PROVE Outstanding' \subseteq Outstanding
  BY <1>4 DEF ResolveFails
<1>5. CASE TrackEnds
  BY <1>5 DEF TrackEnds
<1>6. CASE Disconnected
  BY <1>6 DEF Disconnected
<1> QED
  BY <1>1, <1>2, <1>3, <1>4, <1>5, <1>6 DEF VoiceStep

LEMMA StopAddsNone ==
    ASSUME TypeOK, StopVoice PROVE Outstanding' \subseteq Outstanding
BY DEF StopVoice, TypeOK, Outstanding, IsPlaying, TornDown

LEMMA StartAddsOne ==
    ASSUME TypeOK, NEW p, BeginPlay(p), player' = player, finished' \subseteq finished
    PROVE  Outstanding' \subseteq Outstanding \cup {p}
BY DEF BeginPlay, Waiting, TypeOK, Outstanding, IsPlaying

LEMMA OutstandingType == TypeOK => Outstanding \subseteq PlayCalls
BY DEF TypeOK, Outstanding, IsPlaying

---------------------------------------------------------------------------
(* Types *)

LEMMA TypeInit == Init => TypeOK
<1> SUFFICES ASSUME Init PROVE TypeOK
  OBVIOUS
<1>1. NewMusic \in States
  BY DEF NewMusic, States
<1> QED
  BY <1>1 DEF Init, VoiceInit, TypeOK, States

VoiceOK ==
    /\ client \in [state : {"none", "connecting", "connected", "closing"}, gen : Nat]
    /\ plays \subseteq Waits
    /\ player \in PlayCalls \cup {NoPlay}
    /\ finished \subseteq Ends

LEMMA PlayerEnds ==
    ASSUME player \in PlayCalls \cup {NoPlay}
    PROVE  /\ TornDown \subseteq Ends
           /\ IsPlaying => [play |-> player, torn |-> FALSE] \in Ends
<1>1. \A p \in PlayCalls, b \in BOOLEAN : [play |-> p, torn |-> b] \in Ends
  BY DEF Ends
<1>2. CASE IsPlaying
  <2>1. [play |-> player, torn |-> TRUE] \in Ends /\ [play |-> player, torn |-> FALSE] \in Ends
    BY <1>1, <1>2 DEF IsPlaying
  <2> QED
    BY <1>2, <2>1 DEF TornDown
<1>3. CASE ~IsPlaying
  BY <1>3 DEF TornDown
<1> QED
  BY <1>2, <1>3

LEMMA VoiceStepType == VoiceOK /\ VoiceStep => VoiceOK'
<1> SUFFICES ASSUME VoiceOK, VoiceStep PROVE VoiceOK'
  OBVIOUS
<1> USE DEF VoiceOK, Waits
<1>1. ASSUME NEW w \in plays, Connected(w) PROVE VoiceOK'
  BY <1>1 DEF Connected
<1>2. ASSUME NEW w \in plays, ConnectFails(w) PROVE VoiceOK'
  BY <1>2 DEF ConnectFails
<1>3. ASSUME NEW w \in plays, Resolved(w) PROVE VoiceOK'
  BY <1>3, PlayerEnds DEF Resolved
<1>4. ASSUME NEW w \in plays, ResolveFails(w) PROVE VoiceOK'
  BY <1>4 DEF ResolveFails
<1>5. CASE TrackEnds
  BY <1>5, PlayerEnds DEF TrackEnds
<1>6. CASE Disconnected
  BY <1>6 DEF Disconnected
<1> QED
  BY <1>1, <1>2, <1>3, <1>4, <1>5, <1>6 DEF VoiceStep

LEMMA StopVoiceType == VoiceOK /\ StopVoice => VoiceOK'
BY PlayerEnds DEF VoiceOK, StopVoice

LEMMA BeginPlayType ==
    ASSUME VoiceOK, NEW p \in PlayCalls, BeginPlay(p),
           player' = player, finished' \subseteq finished
    PROVE  VoiceOK'
BY DEF VoiceOK, BeginPlay, Waiting, Waits

LEMMA StartType ==
    ASSUME VoiceOK, music \in [Conversations -> States], NEW c \in Conversations,
           NEW s \in States, NEW t \in Tracks, Start(c, s, t),
           player' = player, finished' \subseteq finished
    PROVE  VoiceOK' /\ music' \in [Conversations -> States]
<1> DEFINE p == [conv |-> c, token |-> WithTrack(s, t).token, track |-> t,
                 volume |-> WithTrack(s, t).volume]
<1>1. p \in PlayCalls
  BY Transitions DEF PlayCalls, States
<1>2. BeginPlay(p) /\ music' = [music EXCEPT ![c] = WithTrack(s, t)]
  BY DEF Start
<1> QED
  BY <1>1, <1>2, BeginPlayType, Transitions

---------------------------------------------------------------------------
(***************************************************************************)
(* What a step does to the tokens.  It starts a track, whose play is the   *)
(* only new one and has a token above all others of its conversation; or   *)
(* it makes the tokens of the outstanding plays older; or leaves both the  *)
(* token and the track of every conversation as they are.                  *)
(***************************************************************************)
Starts(c) ==
    \E s \in States, t \in Tracks :
        /\ s.token = music[c].token
        /\ Start(c, s, t)
        /\ player' = player /\ finished' \subseteq finished

Supersedes(c) ==
    /\ \E s \in States : /\ s.token = music[c].token + 1 /\ s.current = Nothing
                         /\ music' = [music EXCEPT ![c] = s]
    /\ VoiceOK' /\ Outstanding' \subseteq Outstanding

KeepsTracks ==
    /\ music' \in [Conversations -> States]
    /\ \A c \in Conversations : /\ music'[c].token = music[c].token
                                /\ music'[c].current = music[c].current
    /\ VoiceOK' /\ Outstanding' \subseteq Outstanding

Shaped == KeepsTracks \/ \E c \in Conversations : Starts(c) \/ Supersedes(c)

StateOK == VoiceOK /\ music \in [Conversations -> States]

LEMMA TypeParts ==
    TypeOK <=> /\ StateOK
               /\ asked \subseteq Songs /\ cleared \subseteq Songs
               /\ heard \in [Songs -> Nat]
               /\ ballot \in [Conversations -> [Users -> Tracks \cup {Nothing}]]
               /\ raised \in [Conversations -> BOOLEAN]
BY DEF TypeOK, StateOK, VoiceOK, States, Waits, Ends

LEMMA SameVoice ==
    ASSUME StateOK, UNCHANGED voiceVars
    PROVE  VoiceOK' /\ Outstanding' = Outstanding
BY DEF StateOK, VoiceOK, voiceVars, Outstanding, IsPlaying

LEMMA SameTracks ==
    ASSUME TypeOK, UNCHANGED voiceVars, NEW c \in Conversations, NEW s \in States,
           s.token = music[c].token, s.current = music[c].current,
           music' = [music EXCEPT ![c] = s]
    PROVE  KeepsTracks
BY TypeParts, SameVoice DEF StateOK, KeepsTracks

LEMMA AdvanceShape ==
    ASSUME TypeOK, NEW c \in Conversations, NEW s \in States,
           s.token = music[c].token, Advance(c, s)
    PROVE  Starts(c) \/ Supersedes(c)
<1>1. CASE s.queue # <<>> /\ StartNext(c, s) /\ UNCHANGED <<player, finished>>
  BY <1>1, Popping DEF StartNext, Starts
<1>2. CASE music' = [music EXCEPT ![c] = Silenced(s)] /\ StopVoice
  BY <1>2, Endings, StopAddsNone, StopVoiceType, TypeParts DEF StateOK, Supersedes
<1> QED
  BY <1>1, <1>2 DEF Advance

LEMMA Fields ==
    ASSUME NEW s \in States, NEW q \in Seq(Tracks), NEW v \in SUBSET Users, NEW l \in 0..100
    PROVE  /\ [s EXCEPT !.queue = q] \in States /\ [s EXCEPT !.votes = v] \in States
           /\ [s EXCEPT !.volume = l] \in States
           /\ [s EXCEPT !.queue = q].token = s.token /\ [s EXCEPT !.votes = v].token = s.token
           /\ [s EXCEPT !.volume = l].token = s.token
           /\ [s EXCEPT !.queue = q].current = s.current
           /\ [s EXCEPT !.votes = v].current = s.current
           /\ [s EXCEPT !.volume = l].current = s.current
BY DEF States

LEMMA PlayShape ==
    ASSUME TypeOK, NEW c \in Conversations, NEW u \in Users, NEW song \in Songs,
           Play(c, u, song)
    PROVE  Shaped
<1> DEFINE track == [song |-> song, by |-> u]
<1>1. track \in Tracks /\ music[c] \in States
  BY TypeParts DEF Tracks, StateOK
<1>2. CASE /\ music' = [music EXCEPT ![c].queue = Append(@, track)]
           /\ UNCHANGED voiceVars
  <2> DEFINE s == [music[c] EXCEPT !.queue = Append(music[c].queue, track)]
  <2>1. Append(music[c].queue, track) \in Seq(Tracks)
    BY <1>1, AppendProperties DEF States
  <2>2. s \in States /\ s.token = music[c].token /\ s.current = music[c].current
    BY <1>1, <2>1, Fields DEF States
  <2>3. music' = [music EXCEPT ![c] = s]
    BY <1>2
  <2> QED
    BY <2>2, <2>3, <1>2, SameTracks DEF Shaped
<1>3. CASE Start(c, music[c], track) /\ UNCHANGED <<player, finished>>
  BY <1>1, <1>3 DEF Shaped, Starts
<1> QED
  BY <1>2, <1>3 DEF Play

LEMMA SkipShape ==
    ASSUME TypeOK, NEW c \in Conversations, NEW u \in Users, Skip(c, u)
    PROVE  Shaped
<1> DEFINE s == music[c]
           voted == [s EXCEPT !.votes = s.votes \cup {u}]
<1>1. s \in States
  BY TypeParts DEF StateOK
<1>2. voted \in States /\ voted.token = s.token /\ voted.current = s.current
  <2>1. s.votes \cup {u} \in SUBSET Users
    BY <1>1 DEF States
  <2> QED
    BY <1>1, <2>1, Fields DEF States
<1>3. CASE Advance(c, s) \/ Advance(c, voted)
  BY <1>1, <1>2, <1>3, AdvanceShape DEF Shaped
<1>4. CASE music' = [music EXCEPT ![c] = voted] /\ UNCHANGED voiceVars
  BY <1>2, <1>4, SameTracks DEF Shaped
<1> QED
  BY <1>3, <1>4 DEF Skip

LEMMA StopShape ==
    ASSUME TypeOK, NEW c \in Conversations, Stop(c)
    PROVE  Shaped
<1> DEFINE s == [Silenced(music[c]) EXCEPT !.queue = <<>>]
<1>1. Silenced(music[c]) \in States /\ Silenced(music[c]).token = music[c].token + 1
      /\ Silenced(music[c]).current = Nothing
  BY TypeParts, Endings DEF StateOK
<1>2. s \in States /\ s.token = music[c].token + 1 /\ s.current = Nothing
  <2>1. <<>> \in Seq(Tracks)
    OBVIOUS
  <2> QED
    BY <1>1, <2>1 DEF States
<1>3. music' = [music EXCEPT ![c] = s] /\ StopVoice
  BY DEF Stop
<1> QED
  BY <1>2, <1>3, StopAddsNone, StopVoiceType, TypeParts DEF StateOK, Shaped, Supersedes

LEMMA VolumeShape ==
    ASSUME TypeOK, NEW c \in Conversations, SetVolume(c)
    PROVE  Shaped
<1>1. PICK level \in Levels : music' = [music EXCEPT ![c].volume = Clamped(level)]
  BY DEF SetVolume
<1> DEFINE s == [music[c] EXCEPT !.volume = Clamped(level)]
<1>2. Clamped(level) \in 0..100
  BY MusicAssumption DEF Clamped
<1>3. s \in States /\ s.token = music[c].token /\ s.current = music[c].current
  BY <1>2, TypeParts DEF StateOK, States
<1>4. music' = [music EXCEPT ![c] = s]
  BY <1>1
<1> QED
  BY <1>3, <1>4, SameTracks DEF Shaped, SetVolume

LEMMA CallbackShape ==
    ASSUME TypeOK, NEW f \in finished, Callback(f)
    PROVE  Shaped
<1> DEFINE c == f.play.conv
<1>1. c \in Conversations /\ music[c] \in States
  BY TypeParts DEF StateOK, VoiceOK, Ends, PlayCalls
<1>2. finished' \subseteq finished /\ player' = player
  BY DEF Callback
<1>3. CASE UNCHANGED <<client, plays>> /\ (music' = music \/ music' = [music EXCEPT ![c] = RanOut(music[c])])
  <2>1. VoiceOK' /\ Outstanding' \subseteq Outstanding
    BY <1>2, <1>3, TypeParts DEF StateOK, VoiceOK, Outstanding, IsPlaying
  <2>2. CASE music' = music
    BY <2>1, <2>2, TypeParts DEF Shaped, KeepsTracks, StateOK
  <2>3. CASE music' = [music EXCEPT ![c] = RanOut(music[c])]
    BY <1>1, <2>1, <2>3, Endings DEF Shaped, Supersedes
  <2> QED
    BY <1>3, <2>2, <2>3
<1>4. CASE music[c].queue # <<>> /\ StartNext(c, music[c])
  BY <1>1, <1>2, <1>4, Popping DEF StartNext, Starts, Shaped
<1> QED
  BY <1>3, <1>4 DEF Callback

LEMMA PortShape ==
    ASSUME TypeOK, Port
    PROVE  Shaped
<1>1. VoiceOK' /\ Outstanding' \subseteq Outstanding /\ music' = music
  BY PortAddsNone, VoiceStepType, TypeParts DEF StateOK, Port
<1> QED
  BY <1>1, TypeParts DEF Shaped, KeepsTracks, StateOK

LEMMA StutterShape == TypeOK /\ UNCHANGED vars => Shaped
<1> SUFFICES ASSUME TypeOK, UNCHANGED vars PROVE Shaped
  OBVIOUS
<1>1. VoiceOK' /\ Outstanding' = Outstanding /\ music' = music
  BY SameVoice, TypeParts DEF vars
<1> QED
  BY <1>1, TypeParts DEF Shaped, KeepsTracks, StateOK

LEMMA EveryShape == TypeOK /\ [Next]_vars => Shaped
BY PlayShape, SkipShape, StopShape, VolumeShape, CallbackShape, PortShape, StutterShape
DEF Next

LEMMA ShapeType == TypeOK /\ Shaped => StateOK'
<1> SUFFICES ASSUME TypeOK, Shaped PROVE StateOK'
  OBVIOUS
<1>1. CASE KeepsTracks
  BY <1>1 DEF KeepsTracks, StateOK
<1>2. ASSUME NEW c \in Conversations, Starts(c) PROVE StateOK'
  BY <1>2, StartType, TypeParts DEF Starts, StateOK
<1>3. ASSUME NEW c \in Conversations, Supersedes(c) PROVE StateOK'
  BY <1>3, TypeParts DEF Supersedes, StateOK
<1> QED
  BY <1>1, <1>2, <1>3 DEF Shaped

---------------------------------------------------------------------------
(* The tokens *)

Tokens == TokenNamesTrack /\ TokensAreUnique

LEMMA StartTokens ==
    ASSUME TypeOK, Tokens, NEW c \in Conversations, Starts(c)
    PROVE  Tokens'
<1>1. PICK s \in States, t \in Tracks : /\ s.token = music[c].token
                                        /\ Start(c, s, t)
                                        /\ player' = player /\ finished' \subseteq finished
  BY DEF Starts
<1> DEFINE p == [conv |-> c, token |-> WithTrack(s, t).token, track |-> t,
                 volume |-> WithTrack(s, t).volume]
<1>2. BeginPlay(p) /\ music' = [music EXCEPT ![c] = WithTrack(s, t)]
  BY <1>1 DEF Start
<1>3. Outstanding' \subseteq Outstanding \cup {p}
  BY <1>1, <1>2, StartAddsOne
<1>4. music \in [Conversations -> States] /\ music[c].token \in Nat
  BY TypeParts DEF StateOK, States
<1>5. /\ music'[c].token = music[c].token + 1 /\ music'[c].current = t
      /\ p.token = music[c].token + 1 /\ p.conv = c /\ p.track = t
      /\ \A d \in Conversations \ {c} : music'[d] = music[d]
  BY <1>1, <1>2, <1>4, Transitions
<1>6. \A q \in Outstanding : /\ q.conv \in Conversations /\ q.token \in Nat
                             /\ q.token <= music[q.conv].token
  BY OutstandingType DEF Tokens, TokenNamesTrack, PlayCalls
<1>7. TokenNamesTrack'
  <2>1. ASSUME NEW q \in Outstanding
        PROVE  q.token <= music'[q.conv].token
               /\ (q.token = music'[q.conv].token => music'[q.conv].current = q.track)
    <3>1. CASE q.conv = c
      BY <1>4, <1>5, <1>6, <3>1
    <3>2. CASE q.conv # c
      BY <1>5, <1>6, <3>2 DEF Tokens, TokenNamesTrack
    <3> QED
      BY <3>1, <3>2
  <2>2. p.token <= music'[p.conv].token /\ music'[p.conv].current = p.track
    BY <1>4, <1>5
  <2> QED
    BY <1>3, <2>1, <2>2 DEF TokenNamesTrack
<1>8. TokensAreUnique'
  <2>1. \A q \in Outstanding : q.conv = c => q.token # p.token
    BY <1>4, <1>5, <1>6
  <2> QED
    BY <1>3, <1>5, <2>1 DEF Tokens, TokensAreUnique
<1> QED
  BY <1>7, <1>8 DEF Tokens

LEMMA SupersedeTokens ==
    ASSUME TypeOK, Tokens, NEW c \in Conversations, Supersedes(c)
    PROVE  Tokens'
<1>1. PICK s \in States : /\ s.token = music[c].token + 1
                          /\ music' = [music EXCEPT ![c] = s]
  BY DEF Supersedes
<1>2. /\ music'[c].token = music[c].token + 1 /\ music[c].token \in Nat
      /\ \A d \in Conversations \ {c} : music'[d] = music[d]
  BY <1>1, TypeParts DEF StateOK, States
<1>3. Outstanding' \subseteq Outstanding
  BY DEF Supersedes
<1>4. ASSUME NEW q \in Outstanding
      PROVE  q.token <= music'[q.conv].token
             /\ (q.token = music'[q.conv].token => music'[q.conv].current = q.track)
  <2>1. q.conv \in Conversations /\ q.token \in Nat /\ q.token <= music[q.conv].token
    BY OutstandingType DEF Tokens, TokenNamesTrack, PlayCalls
  <2>2. CASE q.conv = c
    BY <1>2, <2>1, <2>2
  <2>3. CASE q.conv # c
    BY <1>2, <2>1, <2>3 DEF Tokens, TokenNamesTrack
  <2> QED
    BY <2>2, <2>3
<1> QED
  BY <1>3, <1>4 DEF Tokens, TokenNamesTrack, TokensAreUnique

LEMMA KeepTokens ==
    ASSUME TypeOK, Tokens, KeepsTracks
    PROVE  Tokens'
<1>1. Outstanding' \subseteq Outstanding
  BY DEF KeepsTracks
<1>2. \A q \in Outstanding : /\ music'[q.conv].token = music[q.conv].token
                             /\ music'[q.conv].current = music[q.conv].current
  BY OutstandingType DEF KeepsTracks, PlayCalls
<1> QED
  BY <1>1, <1>2 DEF Tokens, TokenNamesTrack, TokensAreUnique

LEMMA TokensNext == TypeOK /\ Tokens /\ [Next]_vars => Tokens'
BY EveryShape, StartTokens, SupersedeTokens, KeepTokens DEF Shaped

LEMMA TokensInit == Init => Tokens
BY DEF Init, VoiceInit, Tokens, TokenNamesTrack, TokensAreUnique, Outstanding, IsPlaying

---------------------------------------------------------------------------
(* The types of what the voice port does not see *)

Told == /\ asked \subseteq Songs /\ cleared \subseteq Songs
        /\ heard \in [Songs -> Nat]
        /\ ballot \in [Conversations -> [Users -> Tracks \cup {Nothing}]]
        /\ raised \in [Conversations -> BOOLEAN]

LEMMA StartTold ==
    ASSUME TypeOK, NEW c \in Conversations, NEW s, NEW t, Start(c, s, t)
    PROVE  raised' \in [Conversations -> BOOLEAN]
<1>1. raised \in [Conversations -> BOOLEAN] /\ raised' = [raised EXCEPT ![c] = (plays' = plays)]
  BY DEF TypeOK, Start
<1>2. (plays' = plays) \in BOOLEAN
  OBVIOUS
<1> QED
  BY <1>1, <1>2

LEMMA AdvanceTold ==
    ASSUME TypeOK, NEW c \in Conversations, NEW s, Advance(c, s)
    PROVE  raised' \in [Conversations -> BOOLEAN]
BY StartTold DEF Advance, StartNext, TypeOK

LEMMA NewPlayer ==
    ASSUME TypeOK, VoiceStep, IsPlaying', player' # player
    PROVE  player' \in {w.play : w \in plays} /\ player'.track.song \in Songs
<1>1. \E w \in plays : Resolved(w) /\ player' = w.play
  BY DEF VoiceStep, Connected, ConnectFails, Resolved, ResolveFails, TrackEnds,
         Disconnected, IsPlaying
<1>2. plays \subseteq [play : PlayCalls, step : {"connecting", "resolving"}, gen : Nat]
  BY DEF TypeOK
<1> QED
  BY <1>1, <1>2 DEF PlayCalls, Tracks

LEMMA ToldNext == TypeOK /\ [Next]_vars => Told'
<1> SUFFICES ASSUME TypeOK, [Next]_vars PROVE Told'
  OBVIOUS
<1>1. Told /\ music \in [Conversations -> States]
  BY TypeParts DEF Told, StateOK
<1>2. ASSUME NEW c \in Conversations, NEW u \in Users, Skip(c, u) PROVE Told'
  <2>1. ballot' = ballot \/ ballot' = [ballot EXCEPT ![c][u] = music[c].current]
    BY <1>2 DEF Skip
  <2>2. music[c].current \in Tracks \cup {Nothing}
    BY <1>1 DEF States
  <2>3. UNCHANGED <<asked, heard, cleared>>
    BY <1>2 DEF Skip
  <2>4. ballot' \in [Conversations -> [Users -> Tracks \cup {Nothing}]]
    BY <1>1, <2>1, <2>2 DEF Told
  <2>5. raised' \in [Conversations -> BOOLEAN]
    BY <1>1, <1>2, AdvanceTold DEF Skip, Told
  <2> QED
    BY <1>1, <2>3, <2>4, <2>5 DEF Told
<1>3. ASSUME NEW c \in Conversations, NEW u \in Users, NEW song \in Songs, Play(c, u, song)
      PROVE  Told'
  <2>1. raised' \in [Conversations -> BOOLEAN]
    BY <1>1, <1>3, StartTold DEF Play, Told
  <2> QED
    BY <1>1, <1>3, <2>1 DEF Told, Play
<1>4. ASSUME NEW c \in Conversations, Stop(c) PROVE Told'
  <2>1. \A i \in DOMAIN music[c].queue : music[c].queue[i].song \in Songs
    <3>1. music[c].queue \in Seq(Tracks)
      BY <1>1 DEF States
    <3>2. \A i \in DOMAIN music[c].queue : music[c].queue[i] \in Tracks
      BY <3>1
    <3> QED
      BY <3>2 DEF Tracks
  <2> QED
    BY <1>1, <1>4, <2>1 DEF Told, Stop
<1>5. ASSUME NEW c \in Conversations, SetVolume(c) PROVE Told'
  BY <1>1, <1>5 DEF Told, SetVolume
<1>6. ASSUME NEW f \in finished, Callback(f) PROVE Told'
  <2>1. f.play.conv \in Conversations
    BY <1>6, TypeParts DEF StateOK, VoiceOK, Ends, PlayCalls
  <2>2. raised' \in [Conversations -> BOOLEAN]
    BY <1>1, <1>6, <2>1, StartTold DEF Callback, StartNext, Told
  <2> QED
    BY <1>1, <1>6, <2>2 DEF Told, Callback
<1>7. CASE Port
  <2>1. raised' \in [Conversations -> BOOLEAN]
    BY <1>1, <1>7 DEF Told, Port
  <2> QED
    BY <1>1, <1>7, <2>1, NewPlayer DEF Told, Port
<1>8. CASE UNCHANGED vars
  BY <1>1, <1>8 DEF Told, vars
<1> QED
  BY <1>2, <1>3, <1>4, <1>5, <1>6, <1>7, <1>8 DEF Next

LEMMA TypeNext == TypeOK /\ [Next]_vars => TypeOK'
<1> SUFFICES ASSUME TypeOK, [Next]_vars PROVE TypeOK'
  OBVIOUS
<1>1. StateOK' /\ Told'
  BY EveryShape, ShapeType, ToldNext
<1> QED
  BY <1>1 DEF TypeOK, StateOK, VoiceOK, States, Waits, Ends, Told

---------------------------------------------------------------------------
(* The votes *)

VotesOK(s, b) ==
    s.current # Nothing =>
        /\ Cardinality(s.votes) < SkipThreshold
        /\ \A u \in s.votes : u # s.current.by /\ b[u] = s.current

(* Nothing plays, or a track nobody has voted on. *)
Fresh(c) ==
    \E s \in States : /\ s.current = Nothing \/ s.votes = {}
                      /\ music' = [music EXCEPT ![c] = s]

LEMMA VotesByConversation ==
    VotesAreForCurrent <=> \A c \in Conversations : VotesOK(music[c], ballot[c])
BY DEF VotesAreForCurrent, VotesOK

LEMMA StartIsFresh ==
    ASSUME NEW c, NEW s \in States, NEW t \in Tracks, Start(c, s, t)
    PROVE  Fresh(c)
BY Transitions DEF Start, Fresh

LEMMA AdvanceIsFresh ==
    ASSUME NEW c, NEW s \in States, Advance(c, s)
    PROVE  Fresh(c)
<1>1. CASE s.queue # <<>> /\ StartNext(c, s)
  BY <1>1, Popping, StartIsFresh DEF StartNext
<1>2. CASE music' = [music EXCEPT ![c] = Silenced(s)]
  BY <1>2, Endings DEF Fresh
<1> QED
  BY <1>1, <1>2 DEF Advance

(* A fresh conversation is right whatever becomes of its ballot. *)
LEMMA FreshVotes ==
    ASSUME TypeOK, VotesAreForCurrent, NEW c \in Conversations, Fresh(c),
           \A d \in Conversations \ {c} : ballot'[d] = ballot[d]
    PROVE  VotesAreForCurrent'
<1>1. PICK s \in States : /\ s.current = Nothing \/ s.votes = {}
                          /\ music' = [music EXCEPT ![c] = s]
  BY DEF Fresh
<1>2. music'[c] = s /\ \A d \in Conversations \ {c} : music'[d] = music[d]
  BY <1>1, TypeParts DEF StateOK
<1>3. VotesOK(s, ballot'[c])
  BY <1>1, FS_EmptySet, MusicAssumption DEF VotesOK
<1> QED
  BY <1>2, <1>3 DEF VotesOK, VotesAreForCurrent

(* So is one whose track and votes stay. *)
LEMMA SameVotes ==
    ASSUME TypeOK, VotesAreForCurrent, ballot' = ballot,
           \A c \in Conversations : /\ music'[c].current = music[c].current
                                    /\ music'[c].votes = music[c].votes
    PROVE  VotesAreForCurrent'
BY DEF VotesAreForCurrent

LEMMA SkipVotes ==
    ASSUME TypeOK, VotesAreForCurrent,
           NEW c \in Conversations, NEW u \in Users, Skip(c, u)
    PROVE  VotesAreForCurrent'
<1> DEFINE s == music[c]
           voted == [s EXCEPT !.votes = s.votes \cup {u}]
<1>1. s \in States /\ ballot \in [Conversations -> [Users -> Tracks \cup {Nothing}]]
  BY TypeParts DEF StateOK
<1>2. voted \in States /\ voted.current = s.current /\ voted.votes = s.votes \cup {u}
  BY <1>1 DEF States
<1>3. CASE u = s.current.by /\ Advance(c, s) /\ UNCHANGED ballot
  BY <1>1, <1>3, AdvanceIsFresh, FreshVotes
<1>4. CASE /\ u # s.current.by /\ ballot' = [ballot EXCEPT ![c][u] = s.current]
           /\ Cardinality(voted.votes) < SkipThreshold
           /\ music' = [music EXCEPT ![c] = voted]
  <2>1. music'[c] = voted /\ \A d \in Conversations \ {c} : music'[d] = music[d]
    BY <1>4, TypeParts DEF StateOK
  <2>2. /\ ballot'[c][u] = s.current
        /\ \A v \in Users \ {u} : ballot'[c][v] = ballot[c][v]
        /\ \A d \in Conversations \ {c} : ballot'[d] = ballot[d]
    BY <1>1, <1>4
  <2>3. s.votes \subseteq Users
    BY <1>1 DEF States
  <2>4. VotesOK(voted, ballot'[c])
    BY <1>2, <1>4, <2>2, <2>3 DEF VotesOK, VotesAreForCurrent
  <2>5. ASSUME NEW d \in Conversations PROVE VotesOK(music'[d], ballot'[d])
    <3>1. VotesOK(music[d], ballot[d])
      BY VotesByConversation
    <3>2. CASE d = c
      BY <2>1, <2>4, <3>2
    <3>3. CASE d # c
      BY <2>1, <2>2, <3>1, <3>3
    <3> QED
      BY <3>2, <3>3
  <2> HIDE DEF s, voted
  <2> QED
    BY <2>5 DEF VotesOK, VotesAreForCurrent
<1>5. CASE ballot' = [ballot EXCEPT ![c][u] = s.current] /\ Advance(c, voted)
  <2>1. \A d \in Conversations \ {c} : ballot'[d] = ballot[d]
    BY <1>1, <1>5
  <2> QED
    BY <1>2, <1>5, <2>1, AdvanceIsFresh, FreshVotes
<1> QED
  BY <1>3, <1>4, <1>5 DEF Skip

LEMMA VotesNext == TypeOK /\ VotesAreForCurrent /\ [Next]_vars => VotesAreForCurrent'
<1> SUFFICES ASSUME TypeOK, VotesAreForCurrent, [Next]_vars PROVE VotesAreForCurrent'
  OBVIOUS
<1>1. music \in [Conversations -> States]
  BY TypeParts DEF StateOK
<1>2. ASSUME NEW c \in Conversations, NEW u \in Users, Skip(c, u)
      PROVE  VotesAreForCurrent'
  BY <1>2, SkipVotes
<1>3. ASSUME NEW c \in Conversations, NEW u \in Users, NEW song \in Songs, Play(c, u, song)
      PROVE  VotesAreForCurrent'
  <2> DEFINE track == [song |-> song, by |-> u]
  <2>1. ballot' = ballot /\ track \in Tracks
    BY <1>3 DEF Play, Tracks
  <2>2. CASE music' = [music EXCEPT ![c].queue = Append(@, track)]
    BY <1>1, <2>1, <2>2, SameVotes DEF States
  <2>3. CASE Start(c, music[c], track)
    BY <1>1, <2>1, <2>3, StartIsFresh, FreshVotes
  <2> QED
    BY <1>3, <2>2, <2>3 DEF Play
<1>4. ASSUME NEW c \in Conversations, Stop(c) PROVE VotesAreForCurrent'
  <2> DEFINE s == [Silenced(music[c]) EXCEPT !.queue = <<>>]
  <2>1. Silenced(music[c]) \in States /\ Silenced(music[c]).current = Nothing
    BY <1>1, Endings
  <2>2. <<>> \in Seq(Tracks)
    OBVIOUS
  <2>3. s \in States /\ s.current = Nothing
    BY <2>1, <2>2 DEF States
  <2>4. ballot' = ballot /\ music' = [music EXCEPT ![c] = s]
    BY <1>4 DEF Stop
  <2> QED
    BY <2>3, <2>4, FreshVotes DEF Fresh
<1>5. ASSUME NEW c \in Conversations, SetVolume(c) PROVE VotesAreForCurrent'
  BY <1>1, <1>5, SameVotes DEF SetVolume, States
<1>6. ASSUME NEW f \in finished, Callback(f) PROVE VotesAreForCurrent'
  <2> DEFINE c == f.play.conv
  <2>1. c \in Conversations /\ ballot' = ballot
    BY <1>6, TypeParts DEF StateOK, VoiceOK, Ends, PlayCalls, Callback
  <2>2. CASE music' = music
    BY <2>1, <2>2, SameVotes
  <2>3. CASE music' = [music EXCEPT ![c] = RanOut(music[c])]
    BY <1>1, <2>1, <2>3, Endings, FreshVotes DEF Fresh
  <2>4. CASE music[c].queue # <<>> /\ StartNext(c, music[c])
    BY <1>1, <2>1, <2>4, Popping, StartIsFresh, FreshVotes DEF StartNext
  <2> QED
    BY <1>6, <2>2, <2>3, <2>4 DEF Callback
<1>7. CASE Port
  BY <1>7, SameVotes DEF Port
<1>8. CASE UNCHANGED vars
  BY <1>8, SameVotes DEF vars
<1> QED
  BY <1>2, <1>3, <1>4, <1>5, <1>6, <1>7, <1>8 DEF Next

---------------------------------------------------------------------------
(***************************************************************************)
(* A song asked for is in one place: it waits in one queue, or its play is *)
(* on its way, or it has been heard, or it is lost.  q holds the queues, w *)
(* the waiting plays, h what was heard and a what was asked for.           *)
(***************************************************************************)
Song(w) == w.play.track.song

InQueue(q, s) == \E c \in Conversations : \E i \in DOMAIN q[c] : q[c][i].song = s

OnItsWay(w, s) == \E v \in w : Song(v) = s

Apart(q, w, h, a) ==
    /\ \A s \in Songs : h[s] <= 1 /\ (h[s] # 0 => s \in a)
    /\ \A v \in w : Song(v) \in a /\ h[Song(v)] = 0
    /\ \A v, x \in w : Song(v) = Song(x) => v = x
    /\ \A c \in Conversations : \A i \in DOMAIN q[c] :
          /\ q[c][i].song \in a /\ h[q[c][i].song] = 0 /\ ~OnItsWay(w, q[c][i].song)
          /\ \A d \in Conversations : \A j \in DOMAIN q[d] :
                q[c][i].song = q[d][j].song => c = d /\ i = j

Queues == [c \in Conversations |-> music[c].queue]

SongsApart == Apart(Queues, plays, heard, asked)

QueuesType == [Conversations -> Seq(Tracks)]

LEMMA AskApart ==
    ASSUME NEW q \in QueuesType, NEW w, NEW h, NEW a, Apart(q, w, h, a), NEW s \in Songs \ a
    PROVE  /\ Apart(q, w, h, a \cup {s}) /\ ~InQueue(q, s) /\ ~OnItsWay(w, s)
           /\ ~(h[s] # 0)
BY DEF Apart, InQueue, OnItsWay

LEMMA WayApart ==
    ASSUME NEW q, NEW w, NEW h, NEW a, Apart(q, w, h, a),
           NEW s \in a, h[s] = 0, ~InQueue(q, s), ~OnItsWay(w, s),
           NEW n, Song(n) = s, NEW x, x \subseteq w \cup {n}
    PROVE  Apart(q, x, h, a)
BY DEF Apart, InQueue, OnItsWay

LEMMA FewerApart ==
    ASSUME NEW q, NEW w, NEW h, NEW a, Apart(q, w, h, a), NEW x, x \subseteq w
    PROVE  Apart(q, x, h, a)
BY DEF Apart, OnItsWay

LEMMA LeftApart ==
    ASSUME NEW q, NEW w, NEW h, NEW a, Apart(q, w, h, a), NEW v \in w
    PROVE  /\ Apart(q, w \ {v}, h, a) /\ Song(v) \in a /\ h[Song(v)] = 0
           /\ ~InQueue(q, Song(v)) /\ ~OnItsWay(w \ {v}, Song(v))
BY DEF Apart, InQueue, OnItsWay

LEMMA HearApart ==
    ASSUME NEW q \in QueuesType, NEW w, \A v \in w : Song(v) \in Songs,
           NEW h \in [Songs -> Nat], NEW a, Apart(q, w, h, a),
           NEW s \in Songs, s \in a, h[s] = 0, ~InQueue(q, s), ~OnItsWay(w, s)
    PROVE  Apart(q, w, [h EXCEPT ![s] = 1], a)
<1> DEFINE k == [h EXCEPT ![s] = 1]
<1>1. k[s] = 1 /\ \A r \in Songs \ {s} : k[r] = h[r]
  OBVIOUS
<1> HIDE DEF k
<1>2. \A c \in Conversations : \A i \in DOMAIN q[c] :
          q[c][i].song \in Songs /\ q[c][i].song # s
  <2>1. \A c \in Conversations : \A i \in DOMAIN q[c] : q[c][i] \in Tracks
    BY DEF QueuesType
  <2> QED
    BY <2>1 DEF Tracks, InQueue
<1>3. \A v \in w : Song(v) # s
  BY DEF OnItsWay
<1>4. \A r \in Songs : k[r] <= 1 /\ (k[r] # 0 => r \in a)
  BY <1>1 DEF Apart
<1>5. \A v \in w : k[Song(v)] = 0
  BY <1>1, <1>3 DEF Apart
<1>6. \A c \in Conversations : \A i \in DOMAIN q[c] : k[q[c][i].song] = 0
  BY <1>1, <1>2 DEF Apart
<1>7. Apart(q, w, k, a)
  BY <1>4, <1>5, <1>6 DEF Apart
<1> QED
  BY <1>7 DEF k

(* The queues *)

LEMMA AppendApart ==
    ASSUME NEW q \in QueuesType, NEW w, NEW h, NEW a, Apart(q, w, h, a),
           NEW c \in Conversations, NEW t \in Tracks,
           t.song \in a, h[t.song] = 0, ~InQueue(q, t.song), ~OnItsWay(w, t.song)
    PROVE  Apart([q EXCEPT ![c] = Append(q[c], t)], w, h, a)
<1> DEFINE r == [q EXCEPT ![c] = Append(q[c], t)]
<1>1. q[c] \in Seq(Tracks)
  BY DEF QueuesType
<1>2. /\ DOMAIN r[c] = 1..(Len(q[c]) + 1) /\ r[c][Len(q[c]) + 1] = t
      /\ DOMAIN q[c] = 1..Len(q[c]) /\ Len(q[c]) \in Nat
      /\ \A i \in 1..Len(q[c]) : r[c][i] = q[c][i]
  BY <1>1, AppendProperties DEF QueuesType
<1>3. \A d \in Conversations \ {c} : r[d] = q[d]
  BY DEF QueuesType
<1> HIDE DEF r
<1>4. ASSUME NEW d \in Conversations, NEW i \in DOMAIN r[d]
      PROVE  \/ i \in DOMAIN q[d] /\ r[d][i] = q[d][i]
             \/ d = c /\ i = Len(q[c]) + 1 /\ r[d][i] = t
  <2>1. CASE d = c
    BY <1>2, <2>1
  <2>2. CASE d # c
    BY <1>3, <2>2
  <2> QED
    BY <2>1, <2>2
<1>5. \A d \in Conversations : \A i \in DOMAIN q[d] : q[d][i].song # t.song
  BY DEF InQueue
<1>6. Apart(r, w, h, a)
  <2>1. ASSUME NEW d \in Conversations, NEW i \in DOMAIN r[d]
        PROVE  r[d][i].song \in a /\ h[r[d][i].song] = 0 /\ ~OnItsWay(w, r[d][i].song)
    BY <1>4, <2>1 DEF Apart
  <2>2. ASSUME NEW d \in Conversations, NEW i \in DOMAIN r[d],
               NEW e \in Conversations, NEW j \in DOMAIN r[e],
               r[d][i].song = r[e][j].song
        PROVE  d = e /\ i = j
    BY <1>4, <1>5, <2>2 DEF Apart
  <2> QED
    BY <2>1, <2>2 DEF Apart
<1> QED
  BY <1>6 DEF r

LEMMA PopApart ==
    ASSUME NEW q \in QueuesType, NEW w, NEW h, NEW a, Apart(q, w, h, a),
           NEW c \in Conversations, q[c] # <<>>
    PROVE  LET r == [q EXCEPT ![c] = Tail(q[c])]
               s == Head(q[c]).song
           IN  /\ Apart(r, w, h, a) /\ s \in a /\ h[s] = 0
               /\ ~InQueue(r, s) /\ ~OnItsWay(w, s)
<1> DEFINE r == [q EXCEPT ![c] = Tail(q[c])]
           s == Head(q[c]).song
<1>1. q[c] \in Seq(Tracks)
  BY DEF QueuesType
<1>2. /\ Len(q[c]) \in Nat \ {0} /\ DOMAIN q[c] = 1..Len(q[c])
      /\ Head(q[c]) = q[c][1]
      /\ DOMAIN r[c] = 1..(Len(q[c]) - 1)
      /\ \A i \in 1..(Len(q[c]) - 1) : r[c][i] = q[c][i + 1]
  BY <1>1, HeadTailProperties, EmptySeq DEF QueuesType
<1>3. \A d \in Conversations \ {c} : r[d] = q[d]
  BY DEF QueuesType
<1>4. s = q[c][1].song /\ 1 \in DOMAIN q[c]
  BY <1>2
<1> HIDE DEF r, s
<1> DEFINE At(d, i) == IF d = c THEN i + 1 ELSE i
<1>5. ASSUME NEW d \in Conversations, NEW i \in DOMAIN r[d]
      PROVE  /\ At(d, i) \in DOMAIN q[d] /\ r[d][i] = q[d][At(d, i)]
             /\ d = c => At(d, i) # 1 /\ i \in Nat
  <2>1. CASE d = c
    <3>1. i \in 1..(Len(q[c]) - 1) /\ Len(q[c]) \in Nat
      BY <1>2, <1>5, <2>1
    <3>2. i + 1 \in DOMAIN q[c] /\ r[c][i] = q[c][i + 1] /\ i + 1 # 1 /\ i \in Nat
      BY <1>2, <3>1
    <3> QED
      BY <2>1, <3>2
  <2>2. CASE d # c
    BY <1>3, <2>2
  <2> HIDE DEF At
  <2> QED
    BY <2>1, <2>2
<1>6. ASSUME NEW d \in Conversations, NEW i \in DOMAIN r[d]
      PROVE  /\ r[d][i].song \in a /\ h[r[d][i].song] = 0
             /\ ~OnItsWay(w, r[d][i].song) /\ r[d][i].song # s
  <2> HIDE DEF At
  <2> QED
    BY <1>4, <1>5 DEF Apart
<1>7. ASSUME NEW d \in Conversations, NEW i \in DOMAIN r[d],
             NEW e \in Conversations, NEW j \in DOMAIN r[e],
             r[d][i].song = r[e][j].song
      PROVE  d = e /\ i = j
  <2>1. d = e /\ At(d, i) = At(e, j)
    <3> HIDE DEF At
    <3> QED
      BY <1>5, <1>7 DEF Apart
  <2> QED
    BY <1>5, <2>1
<1>8. Apart(r, w, h, a) /\ ~InQueue(r, s)
  BY <1>6, <1>7 DEF Apart, InQueue
<1>9. s \in a /\ h[s] = 0 /\ ~OnItsWay(w, s)
  BY <1>4 DEF Apart
<1> QED
  BY <1>8, <1>9 DEF r, s

LEMMA ClearApart ==
    ASSUME NEW q \in QueuesType, NEW w, NEW h, NEW a, Apart(q, w, h, a),
           NEW c \in Conversations
    PROVE  Apart([q EXCEPT ![c] = <<>>], w, h, a)
<1> DEFINE r == [q EXCEPT ![c] = <<>>]
<1>1. r[c] = <<>> /\ DOMAIN r[c] = {} /\ \A d \in Conversations \ {c} : r[d] = q[d]
  BY DEF QueuesType
<1> HIDE DEF r
<1>2. Apart(r, w, h, a)
  BY <1>1 DEF Apart
<1> QED
  BY <1>2 DEF r

(* The steps *)

LEMMA QueuesNow ==
    TypeOK => /\ Queues \in QueuesType
              /\ \A c \in Conversations : Queues[c] = music[c].queue
<1> SUFFICES ASSUME TypeOK
             PROVE  /\ Queues \in QueuesType
                    /\ \A c \in Conversations : Queues[c] = music[c].queue
  OBVIOUS
<1>1. \A c \in Conversations : music[c].queue \in Seq(Tracks)
  BY TypeParts DEF StateOK, States
<1> QED
  BY <1>1 DEF Queues, QueuesType

LEMMA QueuesThen ==
    ASSUME TypeOK, NEW c \in Conversations, NEW s, music' = [music EXCEPT ![c] = s]
    PROVE  Queues' = [Queues EXCEPT ![c] = s.queue]
<1>1. music'[c] = s /\ \A d \in Conversations \ {c} : music'[d] = music[d]
  BY TypeParts DEF StateOK
<1>2. Queues' = [d \in Conversations |-> music'[d].queue]
  BY DEF Queues
<1>3. [Queues EXCEPT ![c] = s.queue]
          = [d \in Conversations |-> IF d = c THEN s.queue ELSE music[d].queue]
  BY DEF Queues
<1> QED
  BY <1>1, <1>2, <1>3

LEMMA SameApart ==
    ASSUME TypeOK, SongsApart, NEW c \in Conversations, NEW s,
           music' = [music EXCEPT ![c] = s], s.queue = music[c].queue,
           UNCHANGED <<plays, heard, asked>>
    PROVE  SongsApart'
<1>1. Queues' = Queues
  <2>1. Queues' = [Queues EXCEPT ![c] = Queues[c]]
    BY QueuesThen, QueuesNow
  <2> QED
    BY <2>1, QueuesNow DEF QueuesType
<1> QED
  BY <1>1 DEF SongsApart, Apart, OnItsWay

LEMMA StartApart ==
    ASSUME TypeOK, NEW c \in Conversations, NEW s \in States, NEW t \in Tracks,
           Start(c, s, t), heard' = heard,
           Apart([Queues EXCEPT ![c] = s.queue], plays, heard, asked'),
           t.song \in asked', heard[t.song] = 0,
           ~InQueue([Queues EXCEPT ![c] = s.queue], t.song), ~OnItsWay(plays, t.song)
    PROVE  SongsApart'
<1> DEFINE p == [conv |-> c, token |-> WithTrack(s, t).token, track |-> t,
                 volume |-> WithTrack(s, t).volume]
<1>1. BeginPlay(p) /\ music' = [music EXCEPT ![c] = WithTrack(s, t)]
  BY DEF Start
<1>2. Queues' = [Queues EXCEPT ![c] = s.queue]
  <2>1. WithTrack(s, t).queue = s.queue
    BY Transitions
  <2>2. Queues' = [Queues EXCEPT ![c] = WithTrack(s, t).queue]
    BY <1>1, QueuesThen
  <2> QED
    BY <2>1, <2>2
<1>3. \E n : Song(n) = t.song /\ plays' \subseteq plays \cup {n}
  <2>1. \A step, gen : Song(Waiting(p, step, gen)) = t.song
    BY DEF Song, Waiting
  <2>2. \E step, gen : plays' \subseteq plays \cup {Waiting(p, step, gen)}
    BY <1>1 DEF BeginPlay
  <2> QED
    BY <2>1, <2>2
<1>4. Apart(Queues', plays', heard, asked')
  BY <1>2, <1>3, WayApart
<1> QED
  BY <1>4 DEF SongsApart

LEMMA StartNextApart ==
    ASSUME TypeOK, SongsApart, NEW c \in Conversations, NEW s \in States,
           s.queue = music[c].queue, s.queue # <<>>, StartNext(c, s),
           UNCHANGED <<heard, asked>>
    PROVE  SongsApart'
<1>1. Queues \in QueuesType /\ Queues[c] = s.queue
  BY QueuesNow
<1>2. Popped(s) \in States /\ Head(s.queue) \in Tracks /\ Popped(s).queue = Tail(s.queue)
  BY Popping
<1>3. LET r == [Queues EXCEPT ![c] = Tail(s.queue)]
          t == Head(s.queue).song
      IN  /\ Apart(r, plays, heard, asked) /\ t \in asked /\ heard[t] = 0
          /\ ~InQueue(r, t) /\ ~OnItsWay(plays, t)
  BY <1>1, PopApart DEF SongsApart
<1> QED
  BY <1>2, <1>3, StartApart DEF StartNext

LEMMA AdvanceApart ==
    ASSUME TypeOK, SongsApart, NEW c \in Conversations, NEW s \in States,
           s.queue = music[c].queue, Advance(c, s), UNCHANGED <<heard, asked>>
    PROVE  SongsApart'
<1>1. CASE s.queue # <<>> /\ StartNext(c, s)
  BY <1>1, StartNextApart
<1>2. CASE music' = [music EXCEPT ![c] = Silenced(s)] /\ StopVoice
  BY <1>2, Endings, SameApart DEF StopVoice
<1> QED
  BY <1>1, <1>2 DEF Advance

LEMMA PlayApart ==
    ASSUME TypeOK, SongsApart,
           NEW c \in Conversations, NEW u \in Users, NEW song \in Songs, Play(c, u, song)
    PROVE  SongsApart'
<1> DEFINE t == [song |-> song, by |-> u]
<1>1. /\ song \notin asked /\ asked' = asked \cup {song} /\ heard' = heard
      /\ t \in Tracks /\ t.song = song
  BY DEF Play, Tracks
<1>2. Queues \in QueuesType /\ Queues[c] = music[c].queue /\ music[c] \in States
      /\ heard \in [Songs -> Nat]
  BY QueuesNow, TypeParts DEF StateOK
<1>3. /\ Apart(Queues, plays, heard, asked') /\ heard[song] = 0
      /\ ~InQueue(Queues, song) /\ ~OnItsWay(plays, song)
  BY <1>1, <1>2, AskApart DEF SongsApart
<1>4. CASE /\ music' = [music EXCEPT ![c].queue = Append(@, t)]
           /\ UNCHANGED voiceVars
  <2>1. music' = [music EXCEPT ![c] = [music[c] EXCEPT !.queue = Append(music[c].queue, t)]]
    BY <1>4
  <2>2. [music[c] EXCEPT !.queue = Append(music[c].queue, t)].queue = Append(music[c].queue, t)
    BY <1>2 DEF States
  <2> DEFINE s == [music[c] EXCEPT !.queue = Append(music[c].queue, t)]
  <2> HIDE DEF s
  <2>3. Queues' = [Queues EXCEPT ![c] = Append(Queues[c], t)]
    <3>1. music' = [music EXCEPT ![c] = s] /\ s.queue = Append(Queues[c], t)
      BY <1>2, <2>1, <2>2 DEF s
    <3>2. Queues' = [Queues EXCEPT ![c] = s.queue]
      BY <3>1, QueuesThen
    <3> QED
      BY <3>1, <3>2
  <2>4. Apart(Queues', plays, heard, asked')
    BY <1>1, <1>2, <1>3, <2>3, AppendApart
  <2> QED
    BY <1>1, <1>4, <2>4 DEF SongsApart, voiceVars
<1>5. CASE Start(c, music[c], t)
  <2>1. [Queues EXCEPT ![c] = music[c].queue] = Queues
    BY <1>2 DEF QueuesType
  <2> QED
    BY <1>1, <1>2, <1>3, <1>5, <2>1, StartApart
<1> QED
  BY <1>4, <1>5 DEF Play

LEMMA StopApart ==
    ASSUME TypeOK, SongsApart, NEW c \in Conversations, Stop(c)
    PROVE  SongsApart'
<1> DEFINE s == [Silenced(music[c]) EXCEPT !.queue = <<>>]
<1>1. Silenced(music[c]) \in States
  BY TypeParts, Endings DEF StateOK
<1>2. s.queue = <<>> /\ music' = [music EXCEPT ![c] = s] /\ UNCHANGED <<plays, heard, asked>>
  BY <1>1 DEF States, Stop, StopVoice
<1>3. Queues' = [Queues EXCEPT ![c] = <<>>]
  BY <1>2, QueuesThen
<1>4. Apart(Queues', plays, heard, asked)
  BY <1>3, QueuesNow, ClearApart DEF SongsApart
<1> QED
  BY <1>2, <1>4 DEF SongsApart

LEMMA ReplacedApart ==
    ASSUME NEW q, NEW w, NEW h, NEW a, Apart(q, w, h, a), NEW v \in w,
           NEW x, Song(x) = Song(v), NEW r, r \subseteq (w \ {v}) \cup {x}
    PROVE  Apart(q, r, h, a)
BY LeftApart, WayApart

LEMMA PortApart ==
    ASSUME TypeOK, SongsApart, Port
    PROVE  SongsApart'
<1>1. Queues' = Queues /\ asked' = asked
  BY DEF Queues, Port
<1>2. heard \in [Songs -> Nat] /\ Queues \in QueuesType
      /\ \A v \in plays : v \in Waits /\ Song(v) \in Songs
  BY QueuesNow, TypeParts DEF StateOK, VoiceOK, Waits, PlayCalls, Tracks, Song
<1>3. ASSUME heard' = heard, Apart(Queues, plays', heard, asked) PROVE SongsApart'
  BY <1>1, <1>3 DEF SongsApart
<1>4. ASSUME NEW v \in plays, Connected(v) PROVE SongsApart'
  <2>1. Song([v EXCEPT !.step = "resolving"]) = Song(v)
    BY <1>2 DEF Song, Waits
  <2>2. plays' \subseteq (plays \ {v}) \cup {[v EXCEPT !.step = "resolving"]}
    BY <1>4 DEF Connected
  <2>3. heard' = heard
    BY <1>4 DEF Connected, Port
  <2> QED
    BY <1>3, <2>1, <2>2, <2>3, ReplacedApart DEF SongsApart
<1>5. ASSUME NEW v \in plays, ConnectFails(v) \/ ResolveFails(v) PROVE SongsApart'
  <2>1. heard' = heard /\ plays' \subseteq plays
    BY <1>5 DEF ConnectFails, ResolveFails, Port
  <2> QED
    BY <1>3, <2>1, FewerApart DEF SongsApart
<1>6. ASSUME NEW v \in plays, Resolved(v) PROVE SongsApart'
  <2>1. /\ plays' = plays \ {v} /\ Song(v) \in Songs
        /\ Apart(Queues, plays', heard, asked) /\ Song(v) \in asked /\ heard[Song(v)] = 0
        /\ ~InQueue(Queues, Song(v)) /\ ~OnItsWay(plays', Song(v))
    BY <1>2, <1>6, LeftApart DEF SongsApart, Resolved
  <2>2. CASE heard' = heard
    BY <1>3, <2>1, <2>2
  <2>3. CASE player' = v.play /\ heard' = [heard EXCEPT ![player'.track.song] = @ + 1]
    <3>1. heard' = [heard EXCEPT ![Song(v)] = 1]
      BY <2>1, <2>3 DEF Song
    <3>2. \A x \in plays' : Song(x) \in Songs
      BY <1>2, <2>1
    <3>3. Apart(Queues, plays', heard', asked)
      BY <1>2, <2>1, <3>1, <3>2, HearApart
    <3> QED
      BY <1>1, <3>3 DEF SongsApart
  <2> QED
    BY <1>6, <2>2, <2>3 DEF Resolved, Port
<1>7. CASE TrackEnds \/ Disconnected
  <2>1. heard' = heard /\ plays' \subseteq plays
    BY <1>7 DEF TrackEnds, Disconnected, Port, IsPlaying
  <2> QED
    BY <1>3, <2>1, FewerApart DEF SongsApart
<1> QED
  BY <1>4, <1>5, <1>6, <1>7 DEF Port, VoiceStep

LEMMA ApartNext == TypeOK /\ SongsApart /\ [Next]_vars => SongsApart'
<1> SUFFICES ASSUME TypeOK, SongsApart, [Next]_vars PROVE SongsApart'
  OBVIOUS
<1>1. music \in [Conversations -> States]
  BY TypeParts DEF StateOK
<1>2. ASSUME NEW c \in Conversations, NEW u \in Users, Skip(c, u) PROVE SongsApart'
  <2> DEFINE voted == [music[c] EXCEPT !.votes = music[c].votes \cup {u}]
  <2>1. voted \in States /\ voted.queue = music[c].queue
    BY <1>1 DEF States
  <2>2. UNCHANGED <<heard, asked>>
    BY <1>2 DEF Skip
  <2>3. CASE Advance(c, music[c]) \/ Advance(c, voted)
    BY <1>1, <2>1, <2>2, <2>3, AdvanceApart
  <2>4. CASE music' = [music EXCEPT ![c] = voted] /\ UNCHANGED voiceVars
    BY <2>1, <2>2, <2>4, SameApart DEF voiceVars
  <2> QED
    BY <1>2, <2>3, <2>4 DEF Skip
<1>3. ASSUME NEW c \in Conversations, SetVolume(c) PROVE SongsApart'
  <2>1. PICK level \in Levels : music' = [music EXCEPT ![c].volume = Clamped(level)]
    BY <1>3 DEF SetVolume
  <2> DEFINE s == [music[c] EXCEPT !.volume = Clamped(level)]
  <2>2. s.queue = music[c].queue /\ music' = [music EXCEPT ![c] = s]
    BY <1>1, <2>1 DEF States
  <2> QED
    BY <1>3, <2>2, SameApart DEF SetVolume, voiceVars
<1>4. ASSUME NEW f \in finished, Callback(f) PROVE SongsApart'
  <2> DEFINE c == f.play.conv
  <2>1. c \in Conversations /\ UNCHANGED <<heard, asked>>
    BY <1>4, TypeParts DEF StateOK, VoiceOK, Ends, PlayCalls, Callback
  <2>2. CASE music' = music /\ UNCHANGED plays
    BY <2>1, <2>2 DEF SongsApart, Queues, Apart, OnItsWay
  <2>3. CASE music' = [music EXCEPT ![c] = RanOut(music[c])] /\ UNCHANGED plays
    BY <1>1, <2>1, <2>3, Endings, SameApart
  <2>4. CASE music[c].queue # <<>> /\ StartNext(c, music[c])
    BY <1>1, <2>1, <2>4, StartNextApart
  <2> QED
    BY <1>4, <2>2, <2>3, <2>4 DEF Callback
<1>5. CASE UNCHANGED vars
  BY <1>5 DEF SongsApart, Queues, Apart, OnItsWay, vars, voiceVars
<1> QED
  BY <1>2, <1>3, <1>4, <1>5, PlayApart, StopApart, PortApart DEF Next

LEMMA ApartInit == Init => SongsApart
<1> SUFFICES ASSUME Init PROVE SongsApart
  OBVIOUS
<1>1. plays = {} /\ asked = {} /\ \A s \in Songs : heard[s] = 0
  BY DEF Init, VoiceInit
<1>2. \A c \in Conversations : Queues[c] = <<>>
  BY DEF Init, NewMusic, Queues
<1> QED
  BY <1>1, <1>2 DEF SongsApart, Apart

LEMMA ApartSongs == TypeOK /\ SongsApart => NoSongTwice
<1> SUFFICES ASSUME TypeOK, SongsApart PROVE NoSongTwice
  OBVIOUS
<1>1. \A s \in Songs : heard[s] <= 1
  BY DEF SongsApart, Apart
<1>2. ASSUME NEW c \in Conversations, NEW i \in DOMAIN music[c].queue
      PROVE  /\ heard[music[c].queue[i].song] = 0
             /\ \A j \in DOMAIN music[c].queue :
                   music[c].queue[i].song = music[c].queue[j].song => i = j
  BY QueuesNow DEF SongsApart, Apart
<1> QED
  BY <1>1, <1>2 DEF NoSongTwice

---------------------------------------------------------------------------
(***************************************************************************)
(* Who brings the next track.  Where a track is current or waits, there is *)
(* a play or a callback with the token, or the last play raised.           *)
(***************************************************************************)
Standing(c) == music[c].current # Nothing \/ music[c].queue # <<>>

Attended(c) == Standing(c) => Driven(c) \/ raised[c]

AllAttended == \A c \in Conversations : Attended(c)

LEMMA StartAttends ==
    ASSUME TypeOK, NEW c \in Conversations, NEW s \in States, NEW t \in Tracks, Start(c, s, t)
    PROVE  Attended(c)'
<1> DEFINE p == [conv |-> c, token |-> WithTrack(s, t).token, track |-> t,
                 volume |-> WithTrack(s, t).volume]
<1>1. /\ BeginPlay(p) /\ music' = [music EXCEPT ![c] = WithTrack(s, t)]
      /\ raised' = [raised EXCEPT ![c] = (plays' = plays)]
  BY DEF Start
<1>2. p.conv = c /\ p.token = music'[c].token
  BY <1>1, TypeParts DEF StateOK
<1>3. CASE plays' = plays
  <2>1. raised'[c]
    BY <1>1, <1>3, TypeParts
  <2> QED
    BY <2>1 DEF Attended
<1>4. CASE plays' # plays
  <2>0. \A step, gen : Waiting(p, step, gen).play = p
    BY DEF Waiting
  <2>1. \E w \in plays' : w.play = p
    <3> HIDE DEF p
    <3> QED
      BY <1>1, <1>4, <2>0 DEF BeginPlay
  <2>2. p \in Outstanding'
    BY <2>1 DEF Outstanding
  <2>3. Driven(c)'
    BY <1>2, <2>2 DEF Driven
  <2> QED
    BY <2>3 DEF Attended
<1> QED
  BY <1>3, <1>4

(* Steps that bring a conversation nothing new, and lose it no play. *)
LEMMA StaysAttended ==
    ASSUME NEW d, Attended(d), Standing(d)' => Standing(d),
           music'[d].token = music[d].token, raised[d] => raised'[d],
           \A p \in Outstanding : p.conv = d /\ p.token = music[d].token
                                    => p \in Outstanding' \/ raised'[d]
    PROVE  Attended(d)'
BY DEF Attended, Driven

LEMMA StartKeeps ==
    ASSUME NEW p, BeginPlay(p), player' = player
    PROVE  \A q \in Outstanding : q \in Outstanding' \/ q \in {f.play : f \in finished \ finished'}
<1>1. plays \subseteq plays' /\ IsPlaying' = IsPlaying
  BY DEF BeginPlay, IsPlaying
<1> QED
  BY <1>1 DEF Outstanding

(* A start in one conversation leaves the others attended. *)
LEMMA StartAllAttended ==
    ASSUME TypeOK, AllAttended, NEW c \in Conversations, NEW s \in States, NEW t \in Tracks,
           Start(c, s, t), player' = player, \A f \in finished \ finished' : f.play.conv = c
    PROVE  AllAttended'
<1>1. ASSUME NEW d \in Conversations, d # c PROVE Attended(d)'
  <2>1. music'[d] = music[d] /\ raised'[d] = raised[d]
    BY <1>1, TypeParts DEF Start, StateOK
  <2>2. \A p \in Outstanding : p.conv = d => p \in Outstanding'
    BY <1>1, StartKeeps DEF Start
  <2>3. Attended(d) /\ (Standing(d)' => Standing(d))
    BY <2>1 DEF AllAttended, Standing
  <2> QED
    BY <2>1, <2>2, <2>3, StaysAttended
<1>2. Attended(c)'
  BY StartAttends
<1> QED
  BY <1>1, <1>2 DEF AllAttended

LEMMA StopKeeps == StopVoice => Outstanding \subseteq Outstanding'
<1> SUFFICES ASSUME StopVoice PROVE Outstanding \subseteq Outstanding'
  OBVIOUS
<1>1. /\ plays' = plays /\ finished \subseteq finished'
      /\ IsPlaying => [play |-> player, torn |-> TRUE] \in finished'
  BY DEF StopVoice, TornDown
<1>2. IsPlaying => player \in {f.play : f \in finished'}
  BY <1>1
<1> QED
  BY <1>1, <1>2 DEF Outstanding

(* Nothing is left to bring where nothing is current and nothing waits. *)
LEMMA EndAllAttended ==
    ASSUME TypeOK, AllAttended, NEW c \in Conversations, NEW s \in States,
           s.current = Nothing, s.queue = <<>>, music' = [music EXCEPT ![c] = s],
           UNCHANGED raised, \A p \in Outstanding : p.conv # c => p \in Outstanding'
    PROVE  AllAttended'
<1>1. ~Standing(c)'
  BY TypeParts DEF Standing, StateOK
<1>2. ASSUME NEW d \in Conversations, d # c PROVE Attended(d)'
  <2>1. music'[d] = music[d]
    BY <1>2, TypeParts DEF StateOK
  <2>2. Attended(d) /\ (Standing(d)' => Standing(d))
    BY <2>1 DEF AllAttended, Standing
  <2> QED
    BY <1>2, <2>1, <2>2, StaysAttended
<1> QED
  BY <1>1, <1>2 DEF AllAttended, Attended

(* The token and the plays stay, and nothing comes to wait for the first time. *)
LEMMA SameAllAttended ==
    ASSUME AllAttended, UNCHANGED raised, Outstanding \subseteq Outstanding',
           \A d \in Conversations : music'[d].token = music[d].token,
           \A d \in Conversations : Standing(d)' => Standing(d)
    PROVE  AllAttended'
<1>1. ASSUME NEW d \in Conversations PROVE Attended(d)'
  <2>1. music'[d].token = music[d].token
    OBVIOUS
  <2>4. Attended(d)
    BY DEF AllAttended
  <2>5. raised'[d] = raised[d]
    OBVIOUS
  <2>3. Standing(d)' => Standing(d)
    BY DEF Standing
  <2>2. \A p \in Outstanding : p.conv = d /\ p.token = music[d].token
                                 => p \in Outstanding' \/ raised'[d]
    OBVIOUS
  <2> QED
    BY <2>1, <2>2, <2>3, <2>4, <2>5, StaysAttended
<1> QED
  BY <1>1 DEF AllAttended

(* The port loses only plays that raise. *)
LEMMA PortLoses ==
    ASSUME TypeOK, VoiceStep, NEW p \in Outstanding
    PROVE  p \in Outstanding' \/ p \in Raising
<1>1. \A w \in plays : w.play \in Outstanding' \/ w.play \in Raising
  <2>1. ASSUME NEW w \in plays, player' = w.play PROVE w.play \in Outstanding'
    <3>1. w.play \in PlayCalls
      BY DEF TypeOK
    <3> QED
      BY <2>1, <3>1, NoneAssumption DEF Outstanding, IsPlaying
  <2> QED
    BY <2>1 DEF Raising, Outstanding
<1>2. finished \subseteq finished'
  BY DEF VoiceStep, Connected, ConnectFails, Resolved, ResolveFails, TrackEnds, Disconnected
<1>3. IsPlaying => player' = player \/ \E f \in finished' : f.play = player
  <2>1. \A b \in BOOLEAN : [play |-> player, torn |-> b].play = player
    OBVIOUS
  <2>2. ASSUME NEW w \in plays, Resolved(w), IsPlaying
        PROVE  player' = player \/ [play |-> player, torn |-> TRUE] \in finished'
    BY <2>2 DEF Resolved, TornDown
  <2>3. CASE TrackEnds
    <3>1. [play |-> player, torn |-> FALSE] \in finished'
      BY <2>3 DEF TrackEnds
    <3> QED
      BY <2>1, <3>1
  <2>4. ASSUME NEW w \in plays, Resolved(w), IsPlaying
        PROVE  player' = player \/ \E f \in finished' : f.play = player
    BY <2>1, <2>2, <2>4
  <2>5. CASE player' = player
    BY <2>5
  <2> QED
    BY <2>3, <2>4, <2>5 DEF VoiceStep, Connected, ConnectFails, ResolveFails, Disconnected
<1> QED
  BY <1>1, <1>2, <1>3 DEF Outstanding, IsPlaying

LEMMA PortAllAttended == ASSUME TypeOK, AllAttended, Port PROVE AllAttended'
<1>1. ASSUME NEW d \in Conversations PROVE Attended(d)'
  <2>1. music' = music /\ (raised[d] => raised'[d])
    BY DEF Port
  <2>2. \A p \in Raising : p.conv = d /\ p.token = music[d].token => raised'[d]
    BY DEF Port
  <2>3. \A p \in Outstanding : p.conv = d /\ p.token = music[d].token
                                 => p \in Outstanding' \/ raised'[d]
    BY <2>2, PortLoses DEF Port
  <2>4. Attended(d) /\ (Standing(d)' => Standing(d))
    BY <2>1 DEF AllAttended, Standing
  <2> QED
    BY <2>1, <2>3, <2>4, StaysAttended
<1> QED
  BY <1>1 DEF AllAttended

LEMMA AdvanceAllAttended ==
    ASSUME TypeOK, AllAttended, NEW c \in Conversations, NEW s \in States, Advance(c, s)
    PROVE  AllAttended'
<1>1. CASE s.queue # <<>> /\ StartNext(c, s) /\ UNCHANGED <<player, finished>>
  BY <1>1, Popping, StartAllAttended DEF StartNext
<1>2. CASE s.queue = <<>> /\ music' = [music EXCEPT ![c] = Silenced(s)] /\ StopVoice
           /\ UNCHANGED raised
  <2>1. Silenced(s) \in States /\ Silenced(s).current = Nothing /\ Silenced(s).queue = <<>>
    BY <1>2, Endings
  <2> QED
    BY <1>2, <2>1, StopKeeps, EndAllAttended
<1> QED
  BY <1>1, <1>2 DEF Advance

LEMMA AttendedNext == TypeOK /\ AllAttended /\ [Next]_vars => AllAttended'
<1> SUFFICES ASSUME TypeOK, AllAttended, [Next]_vars PROVE AllAttended'
  OBVIOUS
<1>1. music \in [Conversations -> States]
  BY TypeParts DEF StateOK
<1>2. UNCHANGED voiceVars => Outstanding' = Outstanding
  BY DEF voiceVars, Outstanding, IsPlaying
<1>3. ASSUME NEW c \in Conversations, NEW u \in Users, NEW song \in Songs, Play(c, u, song)
      PROVE  AllAttended'
  <2> DEFINE t == [song |-> song, by |-> u]
  <2>1. t \in Tracks /\ music[c] \in States
    BY <1>1 DEF Tracks
  <2>2. CASE /\ HasToWait(music[c]) /\ music' = [music EXCEPT ![c].queue = Append(@, t)]
             /\ UNCHANGED <<voiceVars, raised>>
    <3>1. ASSUME NEW d \in Conversations
          PROVE  music'[d].token = music[d].token /\ (Standing(d)' => Standing(d))
      BY <1>1, <2>1, <2>2 DEF HasToWait, Standing, States
    <3> QED
      BY <1>2, <2>2, <3>1, SameAllAttended
  <2>3. CASE Start(c, music[c], t) /\ UNCHANGED <<player, finished>>
    BY <2>1, <2>3, StartAllAttended
  <2> QED
    BY <1>3, <2>2, <2>3 DEF Play
<1>4. ASSUME NEW c \in Conversations, NEW u \in Users, Skip(c, u) PROVE AllAttended'
  <2> DEFINE voted == [music[c] EXCEPT !.votes = music[c].votes \cup {u}]
  <2>1. music[c] \in States
    BY <1>1
  <2>2. voted \in States /\ voted.token = music[c].token /\ voted.queue = music[c].queue
        /\ voted.current = music[c].current
    <3>1. music[c].votes \cup {u} \in SUBSET Users
      BY <2>1 DEF States
    <3> QED
      BY <2>1, <3>1 DEF States
  <2>3. CASE Advance(c, music[c]) \/ Advance(c, voted)
    BY <2>1, <2>2, <2>3, AdvanceAllAttended
  <2>4. CASE music' = [music EXCEPT ![c] = voted] /\ UNCHANGED <<voiceVars, raised>>
    <3>1. ASSUME NEW d \in Conversations
          PROVE  music'[d].token = music[d].token /\ (Standing(d)' => Standing(d))
      BY <1>1, <2>2, <2>4 DEF Standing
    <3> QED
      BY <1>2, <2>4, <3>1, SameAllAttended
  <2> QED
    BY <1>4, <2>3, <2>4 DEF Skip
<1>5. ASSUME NEW c \in Conversations, Stop(c) PROVE AllAttended'
  <2> DEFINE s == [Silenced(music[c]) EXCEPT !.queue = <<>>]
  <2>1. Silenced(music[c]) \in States /\ Silenced(music[c]).current = Nothing
    BY <1>1, Endings
  <2>2. s \in States /\ s.current = Nothing /\ s.queue = <<>>
    <3>1. <<>> \in Seq(Tracks)
      OBVIOUS
    <3> QED
      BY <2>1, <3>1 DEF States
  <2>3. music' = [music EXCEPT ![c] = s] /\ StopVoice /\ UNCHANGED raised
    BY <1>5 DEF Stop
  <2> QED
    BY <2>2, <2>3, StopKeeps, EndAllAttended
<1>6. ASSUME NEW c \in Conversations, SetVolume(c) PROVE AllAttended'
  <2>1. UNCHANGED <<voiceVars, raised>>
    BY <1>6 DEF SetVolume
  <2>2. ASSUME NEW d \in Conversations
        PROVE  music'[d].token = music[d].token /\ (Standing(d)' => Standing(d))
    BY <1>1, <1>6 DEF SetVolume, Standing, States
  <2> QED
    BY <1>2, <2>1, <2>2, SameAllAttended
<1>7. ASSUME NEW f \in finished, Callback(f) PROVE AllAttended'
  <2> DEFINE c == f.play.conv
             s == music[c]
  <2>1. c \in Conversations /\ s \in States
    BY <1>1, TypeParts DEF StateOK, VoiceOK, Ends, PlayCalls
  <2>2. finished' = finished \ {f} /\ player' = player
    BY <1>7 DEF Callback
  <2>3. CASE Superseded(s, f.play) /\ UNCHANGED <<client, plays, music, raised>>
    <3>1. ASSUME NEW p \in Outstanding, p # f.play PROVE p \in Outstanding'
      BY <2>2, <2>3, <3>1 DEF Outstanding, IsPlaying
    <3>2. ASSUME NEW d \in Conversations PROVE Attended(d)'
      <4>1. \A p \in Outstanding : p.conv = d /\ p.token = music[d].token => p \in Outstanding'
        BY <2>3, <3>1 DEF Superseded
      <4>2. Attended(d) /\ (Standing(d)' => Standing(d))
        BY <2>3 DEF AllAttended, Standing
      <4> QED
        BY <2>3, <4>1, <4>2, StaysAttended
    <3> QED
      BY <3>2 DEF AllAttended
  <2>4. CASE s.queue = <<>> /\ music' = [music EXCEPT ![c] = RanOut(s)]
             /\ UNCHANGED <<client, plays, raised>>
    <3>1. RanOut(s) \in States /\ RanOut(s).current = Nothing /\ RanOut(s).queue = <<>>
      BY <2>1, <2>4, Endings
    <3>2. \A p \in Outstanding : p.conv # c => p \in Outstanding'
      BY <2>2, <2>4 DEF Outstanding, IsPlaying
    <3> QED
      BY <2>1, <2>4, <3>1, <3>2, EndAllAttended
  <2>5. CASE s.queue # <<>> /\ StartNext(c, s)
    BY <2>1, <2>2, <2>5, Popping, StartAllAttended DEF StartNext
  <2> QED
    BY <1>7, <2>3, <2>4, <2>5 DEF Callback
<1>8. CASE Port
  BY <1>8, PortAllAttended
<1>9. CASE UNCHANGED vars
  <2>1. UNCHANGED <<voiceVars, music, raised>>
    BY <1>9 DEF vars
  <2> QED
    BY <1>2, <2>1, SameAllAttended DEF Standing
<1> QED
  BY <1>3, <1>4, <1>5, <1>6, <1>7, <1>8, <1>9 DEF Next

---------------------------------------------------------------------------
(***************************************************************************)
(* The inductive invariant: types; a callback's token names its track; the *)
(* votes belong to the current track; every song is in one place; and what *)
(* is current or waits has a play or a callback that counts, or the play   *)
(* of the last start raised.                                               *)
(***************************************************************************)
IInv == TypeOK /\ Tokens /\ VotesAreForCurrent /\ SongsApart /\ AllAttended

LEMMA Invariant == Spec => []IInv
<1>1. Init => IInv
  <2>1. Init => VotesAreForCurrent
    BY DEF Init, NewMusic, VotesAreForCurrent
  <2>2. Init => AllAttended
    BY DEF Init, NewMusic, AllAttended, Attended, Standing
  <2> QED
    BY <2>1, <2>2, TypeInit, TokensInit, ApartInit DEF IInv
<1>2. IInv /\ [Next]_vars => IInv'
  BY TypeNext, TokensNext, VotesNext, ApartNext, AttendedNext DEF IInv
<1> QED
  BY <1>1, <1>2, PTL DEF Spec

(* Types: the state of every conversation and of the voice port, the       *)
(* volume always a percentage however it is asked for (_volume's clamp).   *)
THEOREM TypeCorrect == Spec => []TypeOK
<1>1. IInv => TypeOK
  BY DEF IInv
<1> QED
  BY <1>1, Invariant, PTL

(* At most one outstanding callback can advance a queue: no double-advance *)
(* (skill.py:10), for any number of overlapping requests.                  *)
THEOREM OneCallbackAdvances == Spec => []TokensAreUnique
<1>1. IInv => TokensAreUnique
  BY DEF IInv, Tokens
<1> QED
  BY <1>1, Invariant, PTL

(* The votes counted are those of others for the current track, too few to *)
(* skip it (skill.py:93, 140-153), for any threshold and any users.        *)
THEOREM VotesCountForTheirTrack == Spec => []VotesAreForCurrent
<1>1. IInv => VotesAreForCurrent
  BY DEF IInv
<1> QED
  BY <1>1, Invariant, PTL

(* No song is heard twice, or heard while it still waits in a queue: the   *)
(* queue, the plays on their way and what was heard never share a song.    *)
THEOREM SongsAreHeardOnce == Spec => []NoSongTwice
<1>1. IInv => NoSongTwice
  BY ApartSongs DEF IInv
<1> QED
  BY <1>1, Invariant, PTL

(* A queue that waits has a play or a callback that brings its next track, *)
(* unless the play of the track that started last raised (skill.py:92,     *)
(* 99): nothing else strands it, however many channels, requests, late     *)
(* callbacks and failures there are.                                       *)
THEOREM OnlyErrorsStrandQueues == Spec => []OnlyErrorsStall
<1>1. IInv => OnlyErrorsStall
  BY DEF IInv, AllAttended, Attended, Standing, OnlyErrorsStall
<1> QED
  BY <1>1, Invariant, PTL

---------------------------------------------------------------------------
(***************************************************************************)
(* One channel, whose requests wait for each other, with a voice port that *)
(* may fail.  Then there is at most one play on its way, the port is where *)
(* that play left it, and what has begun before it has an older token: a   *)
(* callback that is not superseded finds nothing playing, nothing on its   *)
(* way and a port at rest, so that what it takes from the queue is heard   *)
(* or raises.                                                              *)
(***************************************************************************)
Solo == ~Overlapping /\ Conversations = {Channel}

Token == music[Channel].token

Now == music[Channel].current

Jam == raised[Channel]

(* The plays whose audio has begun. *)
Begun == {f.play : f \in finished} \cup (IF IsPlaying THEN {player} ELSE {})

AtPort(c, w) ==
    c = [state |-> IF w.step = "connecting" THEN "connecting" ELSE "connected",
         gen |-> w.gen]

Serial ==
    /\ \A v, w \in plays : v = w
    /\ \A w \in plays :
          /\ w.play.token = Token
          /\ AtPort(client, w)
          /\ \A p \in Begun : p.token < Token
          /\ ~Jam
    /\ Jam => \A p \in Outstanding : p.token < Token
    /\ client.state = "connecting" => plays # {}
    /\ client.state = "closing" => \A p \in Outstanding : p.token < Token
    /\ IsPlaying => \A f \in finished : f.play.token < player.token
    /\ IsPlaying /\ plays = {} => player.token = Token \/ Jam
    /\ IsPlaying => Now # Nothing

SoloInv == TypeOK /\ Tokens /\ Serial

LEMMA SerialInit == Solo /\ Init => Serial
BY DEF Init, VoiceInit, Serial, IsPlaying, Jam, Solo

LEMMA SoloFacts ==
    ASSUME Solo, SoloInv
    PROVE  /\ Channel \in Conversations /\ music[Channel] \in States /\ Token \in Nat
           /\ DOMAIN music = {Channel}
           /\ \A p \in PlayCalls : p.conv = Channel /\ p.track \in Tracks /\ p.token \in Nat
           /\ Outstanding \subseteq PlayCalls /\ Begun \subseteq Outstanding
           /\ \A p \in Outstanding : p.token <= Token
           /\ \A w \in plays : w.play \in Outstanding
           /\ \A f \in finished : f.play \in Outstanding
           /\ IsPlaying => player \in Outstanding
           /\ raised \in [Conversations -> BOOLEAN]
<1>1. Channel \in Conversations
  BY DEF Solo
<1>2. music[Channel] \in States /\ DOMAIN music = {Channel}
  BY <1>1, TypeParts DEF Solo, SoloInv, StateOK
<1>3. Token \in Nat
  BY <1>2 DEF States, Token
<1>4. \A p \in PlayCalls : p.conv = Channel /\ p.track \in Tracks /\ p.token \in Nat
  BY DEF PlayCalls, Solo
<1>5. Outstanding \subseteq PlayCalls
  BY OutstandingType DEF SoloInv
<1>6. Begun \subseteq Outstanding
  BY DEF Begun, Outstanding
<1>7. \A p \in Outstanding : p.token <= Token
  BY <1>4, <1>5 DEF SoloInv, Tokens, TokenNamesTrack, Token
<1>8. /\ \A w \in plays : w.play \in Outstanding
      /\ \A f \in finished : f.play \in Outstanding
      /\ IsPlaying => player \in Outstanding
  BY DEF Outstanding
<1>9. raised \in [Conversations -> BOOLEAN]
  BY TypeParts DEF SoloInv
<1> QED
  BY <1>1, <1>2, <1>3, <1>4, <1>5, <1>6, <1>7, <1>8, <1>9

(* A port that is at rest takes the play, or raises. *)
Resting == plays = {} /\ client.state \in {"none", "connected"}

LEMMA RestingBegins ==
    ASSUME Solo, SoloInv, Resting, NEW p, BeginPlay(p)
    PROVE  \/ \E w : plays' = {w} /\ w.play = p /\ AtPort(client', w)
           \/ UNCHANGED <<client, plays>>
<1>1. client \in [state : {"none", "connecting", "connected", "closing"}, gen : Nat]
  BY DEF SoloInv, TypeOK
<1>2. CASE /\ client.state = "connected"
           /\ plays' = plays \cup {Waiting(p, "resolving", client.gen)}
           /\ UNCHANGED client
  <2> DEFINE w == Waiting(p, "resolving", client.gen)
  <2>1. w.play = p /\ w.step = "resolving" /\ w.gen = client.gen
    BY DEF Waiting
  <2>2. client = [state |-> "connected", gen |-> client.gen]
    BY <1>1, <1>2
  <2>3. AtPort(client', w)
    BY <1>2, <2>1, <2>2 DEF AtPort
  <2>4. plays' = {w}
    BY <1>2 DEF Resting
  <2> QED
    BY <2>1, <2>3, <2>4
<1>3. CASE /\ client.state = "none"
           /\ client' = [state |-> "connecting", gen |-> client.gen + 1]
           /\ plays' = plays \cup {Waiting(p, "connecting", client.gen + 1)}
  <2> DEFINE w == Waiting(p, "connecting", client.gen + 1)
  <2>1. w.play = p /\ w.step = "connecting" /\ w.gen = client.gen + 1
    BY DEF Waiting
  <2>2. AtPort(client', w)
    BY <1>3, <2>1 DEF AtPort
  <2>3. plays' = {w}
    BY <1>3 DEF Resting
  <2> QED
    BY <2>1, <2>2, <2>3
<1> QED
  BY <1>2, <1>3 DEF BeginPlay

(* What a track that starts is to the users: the one that comes next, or   *)
(* one that cannot be played.                                              *)
Cues(t) ==
    \/ (\E w : plays' = {w} /\ w.play.conv = Channel /\ w.play.track = t) /\ ~Jam'
    \/ plays' = {} /\ Jam'

LEMMA StartSerial ==
    ASSUME Solo, SoloInv, Resting, NEW s \in States, s.token = Token, NEW t \in Tracks,
           Start(Channel, s, t), player' = player, finished' \subseteq finished
    PROVE  Serial' /\ Cues(t) /\ music'[Channel].queue = s.queue
<1> DEFINE next == WithTrack(s, t)
           p == [conv |-> Channel, token |-> next.token, track |-> t,
                 volume |-> next.volume]
<1>1. /\ BeginPlay(p) /\ music' = [music EXCEPT ![Channel] = next]
      /\ raised' = [raised EXCEPT ![Channel] = (plays' = plays)]
  BY DEF Start
<1>2. next.token = Token + 1 /\ next.queue = s.queue /\ next.current = t
  BY Transitions
<1>3. music'[Channel] = next /\ Token' = Token + 1 /\ Now' # Nothing
  BY <1>1, <1>2, SoloFacts, NoneAssumption DEF Token, Now
<1>4. Begun' \subseteq Begun
  BY DEF Begun, IsPlaying
<1>5. \A q \in Begun' : q.token < Token'
  BY <1>3, <1>4, SoloFacts
<1>6. IsPlaying' => \A f \in finished' : f.play.token < player'.token
  BY DEF SoloInv, Serial, IsPlaying
<1>7. raised'[Channel] = (plays' = plays)
  BY <1>1, SoloFacts
<1>8. ASSUME NEW w, plays' = {w}, w.play = p, AtPort(client', w)
      PROVE  Serial' /\ Cues(t)
  <2>1. ~Jam'
    BY <1>7, <1>8 DEF Jam, Resting
  <2>2. client'.state # "closing"
    BY <1>8 DEF AtPort
  <2>3. Serial'
    BY <1>2, <1>3, <1>5, <1>6, <1>8, <2>1, <2>2 DEF Serial
  <2>4. w.play.conv = Channel /\ w.play.track = t
    BY <1>8
  <2> QED
    BY <1>8, <2>1, <2>3, <2>4 DEF Cues
<1>9. ASSUME UNCHANGED <<client, plays>> PROVE Serial' /\ Cues(t)
  <2>1. Jam' /\ plays' = {}
    BY <1>7, <1>9 DEF Jam, Resting
  <2>2. client'.state \notin {"connecting", "closing"}
    BY <1>9 DEF Resting
  <2>3. Outstanding' \subseteq Begun'
    BY <2>1 DEF Outstanding, Begun, IsPlaying
  <2>4. Serial'
    BY <1>3, <1>5, <1>6, <2>1, <2>2, <2>3 DEF Serial
  <2> QED
    BY <2>1, <2>4 DEF Cues
<1>10. Serial' /\ Cues(t)
  BY <1>1, <1>8, <1>9, RestingBegins
<1>11. music'[Channel].queue = s.queue
  BY <1>2, <1>3
<1> QED
  BY <1>10, <1>11

(* Everything outstanding gets older, with a port at rest. *)
LEMMA SupersedeSerial ==
    ASSUME Solo, SoloInv, plays' = {}, Token' = Token + 1,
           Outstanding' \subseteq Outstanding, ~IsPlaying',
           client'.state # "connecting"
    PROVE  Serial'
<1>1. \A p \in Outstanding' : p.token < Token'
  BY SoloFacts
<1> QED
  BY <1>1 DEF Serial

LEMMA KeepSerial ==
    ASSUME Solo, SoloInv, Token' = Token, Now' = Now, finished' \subseteq finished,
           UNCHANGED <<client, plays, player, raised>>
    PROVE  Serial'
<1>1. Begun' \subseteq Begun /\ Outstanding' \subseteq Outstanding /\ IsPlaying' = IsPlaying
  BY DEF Begun, Outstanding, IsPlaying
<1>2. Jam' = Jam
  BY DEF Jam
<1> QED
  BY <1>1, <1>2 DEF SoloInv, Serial

---------------------------------------------------------------------------
(***************************************************************************)
(* A step of the one channel, as its users know it: a step of the jukebox, *)
(* or none they can tell.                                                  *)
(***************************************************************************)
Line == music[Channel].queue

seen == <<asked, Line, Cued, On, Jam>>

BoxStep == Box!Next \/ UNCHANGED seen

LEMMA CuedIs ==
    /\ plays = {} => Cued = Nothing
    /\ \A w : plays = {w} /\ w.play.conv = Channel => Cued = w.play.track
<1>1. ASSUME plays = {} PROVE Cued = Nothing
  BY <1>1 DEF Cued, Coming
<1>2. ASSUME NEW w, plays = {w}, w.play.conv = Channel PROVE Cued = w.play.track
  <2>1. Coming = {w.play.track}
    BY <1>2 DEF Coming
  <2> QED
    BY <2>1 DEF Cued
<1> QED
  BY <1>1, <1>2

LEMMA CuedWillBe ==
    /\ plays' = {} => Cued' = Nothing
    /\ \A w : plays' = {w} /\ w.play.conv = Channel => Cued' = w.play.track
<1>1. ASSUME plays' = {} PROVE Cued' = Nothing
  BY <1>1 DEF Cued, Coming
<1>2. ASSUME NEW w, plays' = {w}, w.play.conv = Channel PROVE Cued' = w.play.track
  <2>1. Coming' = {w.play.track}
    BY <1>2 DEF Coming
  <2> QED
    BY <2>1 DEF Cued
<1> QED
  BY <1>1, <1>2

LEMMA SameOn == UNCHANGED player => UNCHANGED On
BY DEF On, IsPlaying

LEMMA SameCued == UNCHANGED plays => UNCHANGED Cued
BY DEF Cued, Coming

LEMMA SameJam == UNCHANGED raised => UNCHANGED Jam
BY DEF Jam

(* What plays is heard in the channel, and something is current. *)
LEMMA OnIsHeard ==
    ASSUME Solo, SoloInv, IsPlaying
    PROVE  On = player.track /\ On # Nothing /\ Now # Nothing
<1>1. player.conv = Channel /\ player.track \in Tracks
  BY SoloFacts
<1>2. Now # Nothing
  BY DEF SoloInv, Serial
<1> QED
  BY <1>1, <1>2, NoneAssumption DEF On

LEMMA SilentIsOff == ~IsPlaying => On = Nothing
BY DEF On

LEMMA WillBeOff == ~IsPlaying' => On' = Nothing
BY DEF On

(* To the users a start is a cue of the box. *)
LEMMA BoxCues == ASSUME NEW t, plays = {}, Cues(t) PROVE Cued = Nothing /\ Box!Cue(t)
<1>1. Cued = Nothing
  BY CuedIs
<1>2. CASE (\E w : plays' = {w} /\ w.play.conv = Channel /\ w.play.track = t) /\ ~Jam'
  <2>1. Cued' = t
    BY <1>2, CuedWillBe
  <2> QED
    BY <1>1, <1>2, <2>1 DEF Box!Cue, Jam
<1>3. CASE plays' = {} /\ Jam'
  <2>1. Cued' = Nothing
    BY <1>3, CuedWillBe
  <2> QED
    BY <1>1, <1>3, <2>1 DEF Box!Cue, Jam
<1> QED
  BY <1>2, <1>3 DEF Cues

(* The next track of the queue starts. *)
LEMMA StartNextStep ==
    ASSUME Solo, SoloInv, Resting, NEW s \in States, s.token = Token, s.queue # <<>>,
           s.queue = Line, StartNext(Channel, s), player' = player,
           finished' \subseteq finished, asked' = asked
    PROVE  Serial' /\ BoxStep
<1>1. /\ Popped(s) \in States /\ Head(s.queue) \in Tracks
      /\ Popped(s).queue = Tail(s.queue) /\ Popped(s).token = s.token
  BY Popping
<1>2. Start(Channel, Popped(s), Head(s.queue))
  BY DEF StartNext
<1>3. Serial' /\ Line' = Tail(Line) /\ Cues(Head(Line))
  BY <1>1, <1>2, StartSerial DEF Line
<1>4. Cued = Nothing /\ Box!Cue(Head(Line)) /\ On' = On
  BY <1>3, BoxCues, SameOn DEF Resting
<1> QED
  BY <1>3, <1>4 DEF BoxStep, Box!Next, Box!NextUp, Line

(* Nothing is next. *)
LEMMA SilencedStep ==
    ASSUME Solo, SoloInv, Resting, NEW s \in States, s.token = Token, s.queue = Line,
           music' = [music EXCEPT ![Channel] = Silenced(s)], StopVoice,
           UNCHANGED <<asked, raised>>
    PROVE  Serial' /\ BoxStep
<1>1. Silenced(s).token = Token + 1 /\ Silenced(s).queue = Line
  BY Endings
<1>2. Token' = Token + 1 /\ Line' = Line
  BY <1>1, SoloFacts DEF Token, Line
<1>3. plays' = {} /\ ~IsPlaying' /\ client'.state # "connecting"
  BY DEF StopVoice, Resting, IsPlaying, SoloInv, TypeOK
<1>4. Serial'
  BY <1>2, <1>3, StopAddsNone, SupersedeSerial DEF SoloInv
<1>5. UNCHANGED <<Cued, Jam>> /\ On' = Nothing
  BY <1>3, CuedIs, CuedWillBe, WillBeOff, SameJam DEF Resting
<1>6. CASE On = Nothing
  BY <1>2, <1>4, <1>5, <1>6 DEF BoxStep, seen
<1>7. CASE On # Nothing
  BY <1>2, <1>4, <1>5, <1>7 DEF BoxStep, Box!Next, Box!Silence, Line, Jam
<1> QED
  BY <1>6, <1>7

LEMMA RestingRequests ==
    ASSUME Solo, MayRequest PROVE Resting
BY DEF Solo, MayRequest, Idle, Resting

LEMMA SoloPlay ==
    ASSUME Solo, SoloInv, NEW c \in Conversations, NEW u \in Users, NEW song \in Songs,
           Play(c, u, song)
    PROVE  Serial' /\ BoxStep
<1> DEFINE track == [song |-> song, by |-> u]
           s == music[Channel]
<1>1. /\ c = Channel /\ s \in States /\ track \in Tracks /\ track \in Box!Tracks
      /\ Resting /\ Cued = Nothing /\ s.token = Token /\ s.queue = Line
      /\ asked' = asked \cup {track.song} /\ track.song \notin asked
  BY SoloFacts, RestingRequests, CuedIs
  DEF Play, Solo, Tracks, Box!Tracks, Resting, Token, Line
<1>2. CASE /\ HasToWait(s) /\ UNCHANGED <<voiceVars, raised>>
           /\ music' = [music EXCEPT ![c].queue = Append(@, track)]
  <2>1. Line' = Append(Line, track) /\ Token' = Token /\ Now' = Now
    BY <1>1, <1>2, SoloFacts DEF Line, Token, Now, States
  <2>2. Serial'
    BY <1>2, <2>1, KeepSerial DEF voiceVars
  <2>3. On # Nothing /\ UNCHANGED <<On, Cued, Jam>>
    BY <1>2, OnIsHeard, SameOn, SameCued, SameJam DEF HasToWait, voiceVars
  <2>4. Box!AskFor(track)
    BY <1>1, <2>1, <2>3 DEF Box!AskFor, Line, Jam
  <2> QED
    BY <1>1, <2>2, <2>4 DEF BoxStep, Box!Next
<1>3. CASE /\ ~HasToWait(s) /\ Start(c, s, track)
           /\ UNCHANGED <<player, finished>>
  <2>1. Serial' /\ Line' = Line /\ Cues(track)
    BY <1>1, <1>3, StartSerial DEF Line
  <2>3. Box!Cue(track)
    BY <1>1, <2>1, BoxCues DEF Resting
  <2>4. ~IsPlaying
    <3>1. ASSUME IsPlaying PROVE s.current # Nothing
      BY <3>1, OnIsHeard DEF Now
    <3> QED
      BY <1>3, <3>1 DEF HasToWait
  <2>5. On = Nothing /\ On' = On
    BY <1>3, <2>4, SilentIsOff, SameOn
  <2>6. Box!AskFor(track)
    BY <1>1, <2>1, <2>3, <2>5 DEF Box!AskFor, Line
  <2> QED
    BY <1>1, <2>1, <2>6 DEF BoxStep, Box!Next
<1> QED
  BY <1>1, <1>2, <1>3 DEF Play

LEMMA SoloSkip ==
    ASSUME Solo, SoloInv, NEW c \in Conversations, NEW u \in Users, Skip(c, u)
    PROVE  Serial' /\ BoxStep
<1> DEFINE s == music[Channel]
           voted == [s EXCEPT !.votes = s.votes \cup {u}]
<1>1. /\ c = Channel /\ s \in States /\ Resting /\ s.token = Token /\ s.queue = Line
      /\ UNCHANGED asked
  BY SoloFacts, RestingRequests DEF Skip, Solo, Token, Line
<1>2. /\ voted \in States /\ voted.token = Token /\ voted.queue = Line
      /\ voted.current = Now
  <2>1. s.votes \cup {u} \in SUBSET Users
    BY <1>1 DEF States
  <2> QED
    BY <1>1, <2>1 DEF States, Now
<1>3. ASSUME NEW now \in {s, voted}, Advance(c, now) PROVE Serial' /\ BoxStep
  <2>1. now \in States /\ now.token = Token /\ now.queue = Line
    BY <1>1, <1>2
  <2>2. CASE now.queue # <<>> /\ StartNext(c, now) /\ UNCHANGED <<player, finished>>
    BY <1>1, <2>1, <2>2, StartNextStep
  <2>3. CASE music' = [music EXCEPT ![c] = Silenced(now)] /\ StopVoice /\ UNCHANGED raised
    BY <1>1, <2>1, <2>3, SilencedStep
  <2> QED
    BY <1>3, <2>2, <2>3 DEF Advance
<1>4. CASE music' = [music EXCEPT ![c] = voted] /\ UNCHANGED <<voiceVars, raised>>
  <2>1. Line' = Line /\ Token' = Token /\ Now' = Now
    BY <1>1, <1>2, <1>4, SoloFacts DEF Line, Token, Now
  <2>2. Serial' /\ UNCHANGED <<On, Cued, Jam>>
    BY <1>4, <2>1, KeepSerial, SameOn, SameCued, SameJam DEF voiceVars
  <2> QED
    BY <1>1, <2>1, <2>2 DEF BoxStep, seen
<1> QED
  BY <1>1, <1>3, <1>4 DEF Skip

LEMMA SoloStop ==
    ASSUME Solo, SoloInv, NEW c \in Conversations, Stop(c) PROVE Serial' /\ BoxStep
<1> DEFINE s == [Silenced(music[c]) EXCEPT !.queue = <<>>]
<1>1. c = Channel /\ Resting /\ UNCHANGED asked
  BY RestingRequests DEF Solo, Stop
<1>2. Silenced(music[c]) \in States /\ Silenced(music[c]).token = Token + 1
  BY <1>1, SoloFacts, Endings DEF Token
<1>3. s.queue = <<>> /\ s.token = Token + 1
  BY <1>2 DEF States
<1>4. music' = [music EXCEPT ![c] = s] /\ StopVoice /\ UNCHANGED Jam
  BY SameJam DEF Stop
<1>5. Line' = <<>> /\ Token' = Token + 1
  BY <1>1, <1>3, <1>4, SoloFacts DEF Line, Token
<1>6. plays' = {} /\ ~IsPlaying' /\ client'.state # "connecting"
  BY <1>1, <1>4 DEF StopVoice, Resting, IsPlaying, SoloInv, TypeOK
<1>7. Serial'
  BY <1>4, <1>5, <1>6, StopAddsNone, SupersedeSerial DEF SoloInv
<1>8. Cued = Nothing /\ UNCHANGED Cued /\ On' = Nothing
  BY <1>1, <1>6, CuedIs, CuedWillBe, WillBeOff DEF Resting
<1> QED
  BY <1>1, <1>4, <1>5, <1>7, <1>8 DEF BoxStep, Box!Next, Box!Stop, Line, Jam

LEMMA SoloVolume ==
    ASSUME Solo, SoloInv, NEW c \in Conversations, SetVolume(c) PROVE Serial' /\ BoxStep
<1>1. PICK level \in Levels : music' = [music EXCEPT ![c].volume = Clamped(level)]
  BY DEF SetVolume
<1>2. Line' = Line /\ Token' = Token /\ Now' = Now
  BY <1>1, SoloFacts DEF Line, Token, Now, States, Solo
<1>3. UNCHANGED <<voiceVars, asked, raised>>
  BY DEF SetVolume
<1> QED
  BY <1>2, <1>3, KeepSerial, SameOn, SameCued, SameJam DEF voiceVars, BoxStep, seen

(* A callback that still counts finds the port at rest. *)
LEMMA CallbackRests ==
    ASSUME Solo, SoloInv, NEW f \in finished, ~Superseded(music[Channel], f.play)
    PROVE  Resting /\ ~IsPlaying
<1>1. f.play.token = Token /\ f.play \in Outstanding /\ f.play \in Begun
  BY SoloFacts DEF Superseded, Begun, Token
<1>2. plays = {}
  BY <1>1, SoloFacts DEF SoloInv, Serial
<1>3. client.state \in {"none", "connected"}
  BY <1>1, <1>2, SoloFacts DEF SoloInv, Serial, TypeOK
<1>4. ~IsPlaying
  BY <1>1, <1>2, SoloFacts DEF SoloInv, Serial
<1> QED
  BY <1>2, <1>3, <1>4 DEF Resting

LEMMA SoloCallback ==
    ASSUME Solo, SoloInv, NEW f \in finished, Callback(f) PROVE Serial' /\ BoxStep
<1> DEFINE s == music[Channel]
<1>1. /\ f.play.conv = Channel /\ s \in States /\ s.token = Token /\ s.queue = Line
      /\ finished' \subseteq finished /\ UNCHANGED <<player, asked>>
  BY SoloFacts DEF Callback, Token, Line
<1>2. CASE UNCHANGED <<client, plays, music, raised>>
  BY <1>1, <1>2, KeepSerial, SameOn, SameCued, SameJam DEF Token, Line, Now, BoxStep, seen
<1>3. ASSUME ~Superseded(s, f.play) PROVE Resting /\ ~IsPlaying
  BY <1>3, CallbackRests
<1>4. CASE /\ ~Superseded(s, f.play) /\ music' = [music EXCEPT ![Channel] = RanOut(s)]
           /\ UNCHANGED <<client, plays, raised>>
  <2>1. Token' = Token + 1 /\ Line' = Line
    BY <1>1, <1>4, Endings, SoloFacts DEF Token, Line
  <2>2. Resting /\ ~IsPlaying'
    BY <1>1, <1>3, <1>4 DEF IsPlaying
  <2>3. plays' = {} /\ client'.state # "connecting" /\ Outstanding' \subseteq Outstanding
    BY <1>1, <1>4, <2>2 DEF Resting, Outstanding, IsPlaying
  <2>4. Serial'
    BY <2>1, <2>2, <2>3, SupersedeSerial
  <2> QED
    BY <1>1, <1>4, <2>1, <2>4, SameOn, SameCued, SameJam DEF BoxStep, seen
<1>5. CASE ~Superseded(s, f.play) /\ s.queue # <<>> /\ StartNext(Channel, s)
  BY <1>1, <1>3, <1>5, StartNextStep
<1> QED
  BY <1>1, <1>2, <1>4, <1>5 DEF Callback

(* A step in which nothing raises leaves what has raised, and one in which *)
(* the play with the token raises jams the box.                            *)
LEMMA PortJams ==
    ASSUME Solo, SoloInv, Port
    PROVE  /\ Raising = {} => UNCHANGED Jam
           /\ \A p \in Raising : p.conv = Channel /\ p.token = Token => Jam'
<1>1. raised' = [c \in Conversations |-> raised[c] \/
                   \E p \in Raising : p.conv = c /\ p.token = music[c].token]
  BY DEF Port
<1>2. \A p \in Raising : p.conv = Channel /\ p.token = Token => Jam'
  BY <1>1, SoloFacts DEF Jam, Token
<1>3. ASSUME Raising = {} PROVE UNCHANGED Jam
  <2>1. ~\E p \in Raising : p.conv = Channel /\ p.token = music[Channel].token
    BY <1>3
  <2>2. raised'[Channel] = (raised[Channel] \/
           \E p \in Raising : p.conv = Channel /\ p.token = music[Channel].token)
    BY <1>1, SoloFacts
  <2>3. raised[Channel] \in BOOLEAN
    BY SoloFacts
  <2> QED
    BY <2>1, <2>2, <2>3 DEF Jam
<1> QED
  BY <1>2, <1>3

LEMMA SoloPort == ASSUME Solo, SoloInv, Port PROVE Serial' /\ BoxStep
<1>1. /\ Line' = Line /\ Token' = Token /\ asked' = asked /\ Now' = Now
      /\ Outstanding' \subseteq Outstanding
  BY PortAddsNone DEF Port, Line, Token, Now, SoloInv
<1>2. ASSUME NEW w \in plays PROVE plays = {w} /\ AtPort(client, w) /\ w.play \in PlayCalls
  BY SoloFacts DEF SoloInv, Serial
<1>0. plays' = plays => UNCHANGED Jam
  <2>1. plays' = plays => Raising = {}
    BY DEF Raising
  <2> QED
    BY <2>1, PortJams
<1>3. ASSUME NEW w \in plays, Connected(w) PROVE Serial' /\ BoxStep
  <2> DEFINE v == [w EXCEPT !.step = "resolving"]
  <2>1. w \in Waits
    BY TypeParts DEF SoloInv, StateOK, VoiceOK
  <2>2. client = [state |-> "connecting", gen |-> w.gen] /\ plays = {w}
    BY <1>2, <1>3 DEF Connected, AtPort
  <2>3. /\ client' = [client EXCEPT !.state = "connected"] /\ plays' = {v}
        /\ UNCHANGED <<player, finished>>
    BY <1>3, <2>2 DEF Connected
  <2>4. v.play = w.play /\ v.step = "resolving" /\ v.gen = w.gen
    BY <2>1 DEF Waits
  <2>5. AtPort(client', v)
    BY <2>2, <2>3, <2>4 DEF AtPort
  <2>6. Begun' = Begun /\ IsPlaying' = IsPlaying
    BY <2>3 DEF Begun, IsPlaying
  <2>9. Raising = {}
    BY <2>2, <2>3, <2>4 DEF Raising
  <2>10. UNCHANGED Jam
    BY <2>9, PortJams
  <2>7. Serial'
    BY <1>1, <2>2, <2>3, <2>4, <2>5, <2>6, <2>10 DEF SoloInv, Serial
  <2>8. Cued' = w.play.track /\ Cued = w.play.track /\ On' = On
    BY <1>2, <2>2, <2>3, <2>4, SoloFacts, CuedIs, CuedWillBe, SameOn
  <2> QED
    BY <1>1, <2>7, <2>8, <2>10 DEF BoxStep, seen
<1>4. ASSUME NEW w \in plays, Resolved(w) PROVE Serial' /\ BoxStep
  <2>1. client = [state |-> "connected", gen |-> w.gen] /\ plays = {w}
    BY <1>2, <1>4 DEF Resolved, AtPort
  <2>2. /\ plays' = {} /\ player' = w.play /\ finished' = finished \cup TornDown
        /\ UNCHANGED client
    BY <1>4, <2>1 DEF Resolved
  <2>3. /\ w.play.token = Token /\ \A p \in Begun : p.token < Token
        /\ w.play \in PlayCalls /\ w.play.conv = Channel /\ w.play.track \in Tracks
    BY <1>2, SoloFacts DEF SoloInv, Serial
  <2>4. \A f \in finished' : f.play \in Begun
    BY <2>2 DEF Begun, TornDown, IsPlaying
  <2>5. IsPlaying'
    BY <2>2, <2>3, NoneAssumption DEF IsPlaying
  <2>8. Raising = {}
    BY <2>1, <2>2 DEF Raising
  <2>9. UNCHANGED Jam /\ ~Jam
    BY <2>8, PortJams DEF SoloInv, Serial
  <2>10. Now # Nothing
    BY <2>3, SoloFacts, NoneAssumption DEF SoloInv, Tokens, TokenNamesTrack, Now, Token
  <2>6. Serial'
    BY <1>1, <2>1, <2>2, <2>3, <2>4, <2>9, <2>10 DEF SoloInv, Serial
  <2>7. /\ Cued = w.play.track /\ Cued # Nothing /\ Cued' = Nothing
        /\ On' = w.play.track
    BY <2>1, <2>2, <2>3, <2>5, CuedIs, CuedWillBe, NoneAssumption DEF On
  <2> QED
    BY <1>1, <2>6, <2>7, <2>9 DEF BoxStep, Box!Next, Box!Sound, Line, Jam
<1>5. ASSUME NEW w \in plays, ConnectFails(w) \/ ResolveFails(w) PROVE Serial' /\ BoxStep
  <2>1. /\ plays = {w} /\ plays' = {} /\ UNCHANGED <<player, finished>>
        /\ client'.state \in {"none", "connected"}
    BY <1>2, <1>5 DEF ConnectFails, ResolveFails, AtPort, SoloInv, TypeOK
  <2>2. /\ w.play.token = Token /\ \A p \in Begun : p.token < Token
        /\ w.play \in PlayCalls /\ w.play.conv = Channel /\ w.play.track \in Tracks
    BY <1>2, SoloFacts DEF SoloInv, Serial
  <2>3. w.play # player
    <3>1. CASE IsPlaying
      <4>1. player \in Begun
        BY <3>1 DEF Begun
      <4> QED
        BY <2>2, <4>1, SoloFacts
    <3>2. CASE ~IsPlaying
      BY <2>2, <3>2, NoneAssumption DEF IsPlaying
    <3> QED
      BY <3>1, <3>2
  <2>4. w.play \in Raising
    BY <2>1, <2>3 DEF Raising
  <2>5. Jam'
    BY <2>2, <2>4, PortJams
  <2>6. Outstanding' = Begun /\ Begun' = Begun /\ IsPlaying' = IsPlaying
    BY <2>1 DEF Outstanding, Begun, IsPlaying
  <2>7. Serial'
    BY <1>1, <2>1, <2>2, <2>5, <2>6 DEF SoloInv, Serial
  <2>8. Cued = w.play.track /\ Cued # Nothing /\ Cued' = Nothing /\ On' = On
    BY <2>1, <2>2, CuedIs, CuedWillBe, SameOn, NoneAssumption
  <2> QED
    BY <1>1, <2>5, <2>7, <2>8 DEF BoxStep, Box!Next, Box!Break, Line, Jam
<1>6. CASE TrackEnds
  <2>1. /\ IsPlaying /\ ~IsPlaying' /\ UNCHANGED <<client, plays>>
        /\ finished' = finished \cup {[play |-> player, torn |-> FALSE]}
    BY <1>6 DEF TrackEnds, IsPlaying
  <2>2. player \in Outstanding
    BY <2>1, SoloFacts
  <2>3. Begun' \subseteq Begun
    <3>1. ASSUME NEW f \in finished' PROVE f.play \in Begun
      <4>1. CASE f = [play |-> player, torn |-> FALSE]
        <5>1. f.play = player
          BY <4>1
        <5> QED
          BY <2>1, <5>1 DEF Begun
      <4>2. CASE f \in finished
        BY <4>2 DEF Begun
      <4> QED
        BY <2>1, <4>1, <4>2
    <3>2. Begun' = {f.play : f \in finished'}
      BY <2>1 DEF Begun
    <3> QED
      BY <3>1, <3>2
  <2>6. UNCHANGED Jam
    BY <1>0, <2>1
  <2>4. Serial'
    BY <1>1, <2>1, <2>3, <2>6 DEF SoloInv, Serial
  <2>5. On # Nothing /\ On' = Nothing /\ UNCHANGED Cued
    BY <2>1, <2>2, SoloFacts, NoneAssumption, WillBeOff, SameCued DEF On
  <2> QED
    BY <1>1, <2>4, <2>5, <2>6 DEF BoxStep, Box!Next, Box!Silence, Line, Jam
<1>7. CASE Disconnected
  <2>1. client.state = "closing" /\ client'.state = "none" /\ UNCHANGED <<plays, player, finished>>
    BY <1>7 DEF Disconnected, SoloInv, TypeOK
  <2>2. plays = {}
    BY <2>1 DEF SoloInv, Serial, AtPort
  <2>4. UNCHANGED Jam
    BY <1>0, <2>1
  <2>3. Serial'
    BY <1>1, <2>1, <2>2, <2>4 DEF SoloInv, Serial, IsPlaying
  <2> QED
    BY <1>1, <2>1, <2>3, <2>4, SameOn, SameCued DEF BoxStep, seen
<1> QED
  BY <1>3, <1>4, <1>5, <1>6, <1>7 DEF Port, VoiceStep

LEMMA SoloNext == ASSUME Solo, SoloInv, [Next]_vars PROVE Serial' /\ BoxStep
<1>1. CASE UNCHANGED vars
  BY <1>1, KeepSerial, SameOn, SameCued, SameJam
  DEF vars, voiceVars, Token, Line, Now, BoxStep, seen
<1> QED
  BY <1>1, SoloPlay, SoloSkip, SoloStop, SoloVolume, SoloCallback, SoloPort DEF Next

LEMMA BoxInit == Init /\ Solo => Box!Init
BY CuedIs, SilentIsOff
DEF Init, VoiceInit, Solo, Box!Init, NewMusic, Line, IsPlaying, Jam

(* One channel whose requests do not overlap is a jukebox, for any users,  *)
(* songs and levels and whether its port fails or not: the songs are heard *)
(* one at a time, in the order they were asked for, each once it is its    *)
(* turn unless its play raises, however votes, skips, ends of tracks,      *)
(* failures and late callbacks fall together (skill.py:6-10).              *)
THEOREM ChannelIsAJukebox == ASSUME Solo PROVE Spec => Box!Order
<1>1. Init => SoloInv /\ Box!Init
  BY TypeInit, TokensInit, SerialInit, BoxInit DEF SoloInv
<1>2. SoloInv /\ [Next]_vars => SoloInv' /\ [Box!Next]_(Box!boxVars)
  <2> SUFFICES ASSUME SoloInv, [Next]_vars
               PROVE  SoloInv' /\ [Box!Next]_(Box!boxVars)
    OBVIOUS
  <2>1. TypeOK' /\ Tokens'
    BY TypeNext, TokensNext DEF SoloInv
  <2>2. Serial' /\ BoxStep
    BY SoloNext
  <2> QED
    BY <2>1, <2>2 DEF SoloInv, BoxStep, Box!boxVars, seen, Line, Jam
<1> QED
  BY <1>1, <1>2, PTL DEF Spec, Box!Order

=============================================================================
