--------------------------- MODULE WebCallProofs ---------------------------
(***************************************************************************)
(* Theorems about the call in the web client, for any number of calls,        *)
(* recordings, repeats, tracks and frames.  What the page says about the      *)
(* agent's voice rests on the player's count of decodes, which is right       *)
(* because a job's generation never passes the player's; and, across calls,   *)
(* on the player being silent whenever no call is connected (Phase).  That     *)
(* only the latest reply is heard rests on the order of the wire (InOrder), and *)
(* that it is heard in its order on what the wire, the collected frames, the    *)
(* decoder and the kept reply hold coming one after the other (KeptInv).        *)
(***************************************************************************)
EXTENDS WebCall, TLAPS

PlayerTypes ==
    /\ generation \in Nat /\ variant \in 1..MaxTracks /\ chunks \in Seq(Frames)
    /\ decoding \in Seq([gen : Nat, variant : 1..MaxTracks, first : Frames])
    /\ pendingDecodes \in Nat /\ queue \in Seq(Tracks) /\ source \in Tracks \cup {Silence}
    /\ streamEnded \in BOOLEAN /\ lastTurn \in Seq(Tracks)

PageTypes ==
    /\ status \in {"idle", "connecting", "ready", "listening", "processing", "speaking"}
    /\ error \in BOOLEAN /\ canReplay \in BOOLEAN
    /\ call \in 0..MaxCalls /\ mic \in {"closed", "opening", "open"}
    /\ ws \in {"none", "connecting", "open"} /\ capture \in 1..MaxCalls \cup {NoCapture}
    /\ garbled \in BOOLEAN /\ taps \in 0..MaxTaps /\ repeats \in 0..MaxReplays

WireTypes ==
    /\ up \in Nat /\ down \in Seq(Events) /\ heard \in Nat /\ taken \in 0..heard
    /\ serving \in [stage : {"idle", "thinking", "synthesis", "frames"},
                    tracks : 0..MaxTracks, track : 0..MaxTracks, part : 0..MaxParts]
    /\ replies \in Nat /\ announced \in 0..replies

(* A turn that is delivered is at one of the frames of one of its tracks. *)
ServingShape ==
    serving.stage \in {"synthesis", "frames"} =>
       /\ replies >= 1 /\ serving.tracks \in 1..MaxTracks
       /\ serving.track \in 1..serving.tracks /\ serving.part \in 1..MaxParts

(* No job is of a generation that is still to come. *)
GenOrder == \A i \in 1..Len(decoding) : decoding[i].gen <= generation

(* What plays or waits is kept for a repeat. *)
HeldIsKept == queue # <<>> \/ source # Silence => lastTurn # <<>>

Silent == pendingDecodes = 0 /\ source = Silence

(* Nothing plays, or will, before a call is connected, and a capture of an     *)
(* older call takes no part in this one.                                      *)
Phase ==
    /\ call = 0 => status = "idle"
    /\ capture # NoCapture => capture <= call
    /\ status = "idle" => mic = "closed" /\ ws = "none" /\ Silent
    /\ mic = "opening" => status = "connecting" /\ ws = "none" /\ Silent /\ capture # call
    /\ ws = "connecting" => status = "connecting" /\ mic = "open" /\ Silent /\ capture # call

PlayerInv == PlayerTypes /\ GenOrder /\ DecodesAreCounted /\ HeldIsKept
WireInv == WireTypes /\ ServingShape
PageInv == PageTypes /\ Phase /\ SpeakingIsTrue /\ RepeatIsThere

CallInv == PlayerInv /\ WireInv /\ PageInv
-----------------------------------------------------------------------------
(* The player. *)

LEMMA TracksAreHeard == ASSUME replies \in Nat PROVE Silence \notin Tracks
  BY BoundsAssumption DEF Tracks

Jobs == [gen : Nat, variant : 1..MaxTracks, first : Frames]

LEMMA JobsAreOld ==
    ASSUME PlayerTypes, GenOrder
    PROVE  /\ generation \in Nat /\ Len(decoding) \in Nat
           /\ \A i \in 1..Len(decoding) :
                 /\ decoding[i] \in Jobs /\ decoding[i].gen \in Nat
                 /\ decoding[i].gen <= generation
  <1>1. decoding \in Seq(Jobs) /\ generation \in Nat
    BY DEF PlayerTypes, Jobs
  <1>2. Len(decoding) \in Nat /\ \A i \in 1..Len(decoding) : decoding[i] \in Jobs
    BY <1>1
  <1>3. \A job \in Jobs : job.gen \in Nat
    BY DEF Jobs
  <1> QED
    BY <1>1, <1>2, <1>3 DEF GenOrder

(* The player stops, and what is kept stays or goes. *)
LEMMA Stopped ==
    ASSUME PlayerInv, Silenced, replies' = replies, queue' = <<>>, source' = Silence,
           streamEnded' \in BOOLEAN, variant' \in 1..MaxTracks, lastTurn' \in {lastTurn, <<>>}
    PROVE  PlayerInv' /\ Silent'
  <1> USE DEF PlayerInv, Silenced
  <1>1. PlayerTypes'
    <2>1. Frames' = Frames /\ Tracks' = Tracks
      BY DEF Frames, Tracks
    <2>2. lastTurn' \in Seq(Tracks) /\ generation' \in Nat
      <3>1. lastTurn \in Seq(Tracks) /\ generation \in Nat
        BY DEF PlayerTypes
      <3>2. generation' \in Nat
        BY <3>1
      <3>3. <<>> \in Seq(Tracks)
        OBVIOUS
      <3>4. lastTurn' = lastTurn \/ lastTurn' = <<>>
        OBVIOUS
      <3> QED
        BY <3>1, <3>2, <3>3, <3>4, Zenon
    <2> QED
      BY <2>1, <2>2 DEF PlayerTypes
  <1>2. GenOrder'
    BY JobsAreOld DEF GenOrder
  <1>3. DecodesAreCounted'
    BY JobsAreOld DEF DecodesAreCounted
  <1>4. HeldIsKept' /\ Silent'
    BY DEF HeldIsKept, Silent
  <1> QED
    BY <1>1, <1>2, <1>3, <1>4

LEMMA PushStep ==
    ASSUME PlayerInv, replies' = replies, NEW chunk \in Frames, Push(chunk)
    PROVE  PlayerInv'
  <1> USE DEF PlayerInv, Push
  <1>1. PlayerTypes'
    BY DEF PlayerTypes, Tracks, Frames
  <1> QED
    BY <1>1 DEF GenOrder, DecodesAreCounted, HeldIsKept

(* The track so far becomes a job of the player's generation. *)
LEMMA FlushStep ==
    ASSUME PlayerInv, replies' = replies, FlushTrack, variant' \in 1..MaxTracks,
           streamEnded' \in BOOLEAN, UNCHANGED <<generation, queue, source, lastTurn>>
    PROVE  PlayerInv'
  <1> USE DEF PlayerInv
  <1> DEFINE job == [gen |-> generation, variant |-> variant, first |-> Head(chunks)]
  <1>1. CASE chunks = <<>>
    BY <1>1 DEF FlushTrack, PlayerTypes, Tracks, Frames, GenOrder, DecodesAreCounted, HeldIsKept
  <1>2. CASE chunks # <<>>
    <2>1. job \in [gen : Nat, variant : 1..MaxTracks, first : Frames] /\ job.gen = generation
      BY <1>2 DEF PlayerTypes
    <2>2. /\ decoding' = Append(decoding, job) /\ pendingDecodes' = pendingDecodes + 1
          /\ chunks' = <<>>
      BY <1>2 DEF FlushTrack
    <2> HIDE DEF job
    <2>3. /\ Len(decoding) \in Nat /\ Len(decoding') = Len(decoding) + 1
          /\ decoding' \in Seq([gen : Nat, variant : 1..MaxTracks, first : Frames])
          /\ \A i \in 1..Len(decoding) : decoding'[i] = decoding[i]
          /\ decoding'[Len(decoding) + 1] = job
      BY <2>1, <2>2 DEF PlayerTypes
    <2>4. PlayerTypes'
      BY <2>2, <2>3 DEF PlayerTypes, Tracks, Frames
    <2>5. GenOrder'
      <3>1. \A i \in 1..Len(decoding) : decoding'[i].gen <= generation
        BY <2>3 DEF GenOrder
      <3>2. \A i \in 1..Len(decoding') : i \in 1..Len(decoding) \/ i = Len(decoding) + 1
        BY <2>3
      <3>3. decoding'[Len(decoding) + 1].gen <= generation
        BY <2>1, <2>3, JobsAreOld
      <3> QED
        BY <3>1, <3>2, <3>3 DEF GenOrder
    <2>6. DecodesAreCounted'
      <3> DEFINE late(n, p, i) == i > n - p
      <3>1. /\ pendingDecodes \in Nat /\ pendingDecodes <= Len(decoding) /\ Len(decoding) \in Nat
            /\ \A i \in 1..Len(decoding) :
                  (decoding[i].gen = generation) <=> late(Len(decoding), pendingDecodes, i)
        BY <2>3 DEF DecodesAreCounted, PlayerTypes
      <3>2. \A n, p, i \in Nat : p <= n => /\ late(n + 1, p + 1, i) <=> late(n, p, i)
                                          /\ late(n + 1, p + 1, n + 1)
                                          /\ p + 1 <= n + 1
        OBVIOUS
      <3>3. \A n \in Nat : \A i \in 1..(n + 1) : i \in Nat /\ (i \in 1..n \/ i = n + 1)
        OBVIOUS
      <3>4. \A n \in Nat : n + 1 \in Nat
        OBVIOUS
      <3> HIDE DEF late
      <3>5. pendingDecodes' <= Len(decoding')
        BY <2>2, <2>3, <3>1, <3>2, <3>4, Zenon
      <3>6. ASSUME NEW i \in 1..Len(decoding')
            PROVE  (decoding'[i].gen = generation) <=> late(Len(decoding'), pendingDecodes', i)
        <4>1. i \in Nat /\ (i \in 1..Len(decoding) \/ i = Len(decoding) + 1)
          BY <2>3, <3>1, <3>3, Zenon
        <4>2. late(Len(decoding'), pendingDecodes', i) <=>
                late(Len(decoding) + 1, pendingDecodes + 1, i)
          BY <2>2, <2>3, Zenon
        <4>3. CASE i \in 1..Len(decoding)
          BY <2>3, <3>1, <3>2, <4>1, <4>2, <4>3, Zenon
        <4>4. CASE i = Len(decoding) + 1
          BY <2>1, <2>3, <3>1, <3>2, <4>1, <4>2, <4>4, Zenon
        <4> QED
          BY <4>1, <4>3, <4>4, Zenon
      <3> QED
        BY <3>5, <3>6 DEF DecodesAreCounted, late
    <2> QED
      BY <2>4, <2>5, <2>6 DEF HeldIsKept
  <1> QED
    BY <1>1, <1>2

(* The first job of the chain ends, counted off if its result was wanted. *)
LEMMA JobEnds ==
    ASSUME PlayerInv, decoding # <<>>, decoding' = Tail(decoding), generation' = generation,
           pendingDecodes' = IF Head(decoding).gen = generation THEN pendingDecodes - 1
                                                                ELSE pendingDecodes
    PROVE  /\ decoding' \in Seq([gen : Nat, variant : 1..MaxTracks, first : Frames])
           /\ pendingDecodes' \in Nat /\ GenOrder' /\ DecodesAreCounted'
           /\ Head(decoding).gen = generation => pendingDecodes > 0
  <1> USE DEF PlayerInv, PlayerTypes
  <1>0. pendingDecodes \in Nat /\ pendingDecodes <= Len(decoding)
    BY DEF DecodesAreCounted
  <1>1. /\ Len(decoding) \in Nat \ {0} /\ Len(decoding') = Len(decoding) - 1
        /\ decoding' \in Seq([gen : Nat, variant : 1..MaxTracks, first : Frames])
        /\ \A i \in 1..Len(decoding') : decoding'[i] = decoding[i + 1]
        /\ Head(decoding) = decoding[1]
    OBVIOUS
  <1>2. GenOrder'
    BY <1>1 DEF GenOrder
  <1>3. CASE Head(decoding).gen = generation
    <2>1. pendingDecodes = Len(decoding)
      <3>1. 1 > Len(decoding) - pendingDecodes
        BY <1>1, <1>3 DEF DecodesAreCounted
      <3>2. Len(decoding) \in Nat
        BY <1>1
      <3>3. \A n, p \in Nat : p <= n /\ 1 > n - p => p = n
        OBVIOUS
      <3> QED
        BY <1>0, <3>1, <3>2, <3>3, Zenon
    <2>2. DecodesAreCounted'
      BY <1>1, <1>3, <2>1 DEF DecodesAreCounted
    <2> QED
      BY <1>1, <1>2, <1>3, <2>1, <2>2
  <1>4. CASE Head(decoding).gen # generation
    <2>1. pendingDecodes < Len(decoding)
      <3>1. ~(1 > Len(decoding) - pendingDecodes)
        BY <1>1, <1>4 DEF DecodesAreCounted
      <3> QED
        BY <1>0, <1>1, <3>1
    <2>2. \A i \in 1..Len(decoding') : /\ i + 1 \in 1..Len(decoding)
                                     /\ decoding'[i] = decoding[i + 1]
      BY <1>1
    <2>3. \A i \in 1..Len(decoding') :
             decoding'[i].gen = generation <=> i + 1 > Len(decoding) - pendingDecodes
      BY <2>2 DEF DecodesAreCounted
    <2>4. DecodesAreCounted'
      <3>1. pendingDecodes' = pendingDecodes
        BY <1>4
      <3>2. pendingDecodes' <= Len(decoding')
        BY <1>0, <1>1, <2>1, <3>1
      <3>3. ASSUME NEW i \in 1..Len(decoding')
            PROVE  decoding'[i].gen = generation' <=> i > Len(decoding') - pendingDecodes'
        <4>1. decoding'[i].gen = generation <=> i + 1 > Len(decoding) - pendingDecodes
          BY <2>3
        <4>2. Len(decoding) \in Nat /\ Len(decoding') = Len(decoding) - 1
          BY <1>1
        <4>3. i + 1 > Len(decoding) - pendingDecodes <=> i > Len(decoding') - pendingDecodes'
          <5>1. \A n, p, j \in Nat : j + 1 > n - p <=> j > (n - 1) - p
            OBVIOUS
          <5>2. i \in Nat
            BY <4>2
          <5> QED
            BY <1>0, <3>1, <4>2, <5>1, <5>2, Zenon
        <4> QED
          BY <4>1, <4>3
      <3> QED
        BY <3>2, <3>3 DEF DecodesAreCounted
    <2> QED
      BY <1>0, <1>1, <1>2, <1>4, <2>4
  <1> QED
    BY <1>3, <1>4

LEMMA PlayNextStep ==
    ASSUME replies \in Nat, NEW playing \in Tracks \cup {Silence}, NEW waiting \in Seq(Tracks),
           PlayNext(playing, waiting)
    PROVE  /\ source' \in Tracks \cup {Silence} /\ queue' \in Seq(Tracks)
           /\ source' = Silence <=> playing = Silence /\ waiting = <<>>
           /\ queue' # <<>> => waiting # <<>>
  BY TracksAreHeard DEF PlayNext

LEMMA DecodeStep ==
    ASSUME PlayerInv, replies \in Nat, replies' = replies, DecodeStale \/ DecodeFails \/ Decoded
    PROVE  /\ PlayerInv'
           /\ Decoded => source' # Silence /\ lastTurn' # <<>>
           /\ Decoded \/ DecodeFails => pendingDecodes > 0
  <1> USE DEF PlayerInv
  <1>1. /\ decoding # <<>> /\ decoding' = Tail(decoding) /\ generation' = generation
        /\ pendingDecodes' = IF Head(decoding).gen = generation THEN pendingDecodes - 1
                                                                ELSE pendingDecodes
        /\ UNCHANGED <<variant, chunks, streamEnded>>
    BY DEF DecodeStale, DecodeFails, Decoded
  <1>2. /\ decoding' \in Seq([gen : Nat, variant : 1..MaxTracks, first : Frames])
        /\ pendingDecodes' \in Nat /\ GenOrder' /\ DecodesAreCounted'
        /\ Head(decoding).gen = generation => pendingDecodes > 0
    BY <1>1, JobEnds
  <1>3. Frames' = Frames /\ Tracks' = Tracks
    BY DEF Frames, Tracks
  <1>4. CASE DecodeStale \/ DecodeFails
    <2>1. UNCHANGED <<queue, source, lastTurn>> /\ ~Decoded
      BY <1>4, <1>1 DEF DecodeStale, DecodeFails, Decoded, PlayerTypes
    <2>2. PlayerTypes'
      BY <1>1, <1>2, <1>3, <2>1 DEF PlayerTypes
    <2> QED
      BY <1>2, <1>4, <2>1, <2>2 DEF HeldIsKept, DecodeFails
  <1>5. CASE Decoded
    <2> DEFINE job == Head(decoding)
               track == [variant |-> job.variant, reply |-> job.first.reply,
                         track |-> job.first.track]
    <2>1. job.gen = generation /\ decoding # <<>>
      BY <1>5 DEF Decoded
    <2>a. job \in Jobs
      BY <2>1, JobsAreOld DEF PlayerTypes, Jobs
    <2>2. track \in Tracks
      BY <2>a DEF Tracks, Frames, Jobs
    <2>3. lastTurn' = Append(lastTurn, track) /\ PlayNext(source, Append(queue, track))
      BY <1>5 DEF Decoded
    <2> HIDE DEF track
    <2>4. Append(queue, track) \in Seq(Tracks) /\ Append(queue, track) # <<>>
          /\ lastTurn' \in Seq(Tracks) /\ lastTurn' # <<>>
      <3>1. queue \in Seq(Tracks) /\ lastTurn \in Seq(Tracks)
        BY DEF PlayerTypes
      <3> QED
        BY <2>2, <2>3, <3>1
    <2>5. source' \in Tracks \cup {Silence} /\ queue' \in Seq(Tracks) /\ source' # Silence
      BY <2>3, <2>4, PlayNextStep DEF PlayerTypes
    <2>6. PlayerTypes'
      BY <1>1, <1>2, <1>3, <2>4, <2>5 DEF PlayerTypes
    <2> QED
      BY <1>2, <2>1, <2>4, <2>5, <2>6 DEF HeldIsKept
  <1> QED
    BY <1>4, <1>5

LEMMA SourceEndsStep ==
    ASSUME PlayerInv, replies \in Nat, replies' = replies, SourceEnds
    PROVE  /\ PlayerInv' /\ lastTurn' # <<>>
           /\ queue # <<>> => source' # Silence
  <1> USE DEF PlayerInv, SourceEnds
  <1>1. /\ source' \in Tracks \cup {Silence} /\ queue' \in Seq(Tracks)
        /\ source' = Silence <=> queue = <<>>
    BY PlayNextStep DEF PlayerTypes
  <1>2. PlayerTypes'
    BY <1>1 DEF PlayerTypes, Tracks, Frames
  <1> QED
    BY <1>1, <1>2 DEF GenOrder, DecodesAreCounted, HeldIsKept

LEMMA ReplayStep ==
    ASSUME PlayerInv, replies \in Nat, replies' = replies, Replay
    PROVE  PlayerInv' /\ source' # Silence /\ lastTurn' # <<>>
  <1> USE DEF PlayerInv, Replay, Silenced
  <1>1. source' \in Tracks \cup {Silence} /\ queue' \in Seq(Tracks) /\ source' # Silence
    BY PlayNextStep DEF PlayerTypes
  <1>2. PlayerTypes'
    BY <1>1 DEF PlayerTypes, Tracks, Frames
  <1>3. GenOrder'
    BY JobsAreOld DEF GenOrder
  <1>4. DecodesAreCounted'
    BY JobsAreOld DEF DecodesAreCounted
  <1> QED
    BY <1>1, <1>2, <1>3, <1>4 DEF HeldIsKept

(* The player rests while the gateway begins another reply. *)
LEMMA PlayerRests ==
    ASSUME PlayerInv, replies \in Nat, replies' \in Nat, replies' >= replies, UNCHANGED playerVars
    PROVE  PlayerInv'
  <1>1. Frames \subseteq Frames' /\ Tracks \subseteq Tracks'
    BY DEF Frames, Tracks
  <1>2. /\ Seq(Frames) \subseteq Seq(Frames') /\ Seq(Tracks) \subseteq Seq(Tracks')
        /\ Seq([gen : Nat, variant : 1..MaxTracks, first : Frames])
              \subseteq Seq([gen : Nat, variant : 1..MaxTracks, first : Frames'])
    <2>1. [gen : Nat, variant : 1..MaxTracks, first : Frames]
             \subseteq [gen : Nat, variant : 1..MaxTracks, first : Frames']
      BY <1>1
    <2>2. ASSUME NEW S, NEW T, S \subseteq T PROVE Seq(S) \subseteq Seq(T)
      BY <2>2
    <2> QED
      BY <1>1, <2>1, <2>2
  <1>3. PlayerTypes'
    BY <1>1, <1>2 DEF PlayerInv, PlayerTypes, playerVars
  <1> QED
    BY <1>3 DEF PlayerInv, GenOrder, DecodesAreCounted, HeldIsKept, playerVars
-----------------------------------------------------------------------------
(* The page. *)

Wire == <<up, down, announced, serverVars>>

LEMMA WireRests ==
    ASSUME WireInv, UNCHANGED Wire
    PROVE  WireInv' /\ replies \in Nat /\ replies' = replies
  BY DEF WireInv, WireTypes, ServingShape, Wire, serverVars, Events

LEMMA Disconnects ==
    ASSUME WireInv, Disconnect, announced' = announced
    PROVE  WireInv' /\ replies \in Nat /\ replies' = replies
  <1> USE DEF WireInv, Disconnect, Idle
  <1>1. WireTypes'
    BY BoundsAssumption DEF WireTypes, Events
  <1> QED
    BY <1>1 DEF ServingShape, WireTypes

LEMMA StartCallStep == ASSUME CallInv, StartCall PROVE CallInv'
  <1> USE DEF CallInv, StartCall
  <1>1. WireInv' /\ replies \in Nat /\ replies' = replies
    BY WireRests DEF Wire
  <1>2. PlayerInv' /\ Silent'
    BY <1>1, Stopped DEF Reset, PlayerInv, PlayerTypes
  <1>3. PageTypes' /\ call' # 0 /\ (capture # NoCapture => capture <= call /\ capture # call')
    <2>1. /\ call \in 0..MaxCalls /\ call' \in 0..MaxCalls /\ call' # 0
          /\ capture \in 1..MaxCalls \cup {NoCapture} /\ capture' = capture
          /\ call <= call'
      BY BoundsAssumption DEF PageInv, PageTypes
    <2>2. PageTypes'
      BY <2>1 DEF PageInv, PageTypes
    <2>3. capture # NoCapture => capture <= call
      BY DEF PageInv, Phase
    <2> QED
      BY <2>1, <2>2, <2>3, BoundsAssumption
  <1>4. Phase'
    <2>1. /\ status' = "connecting" /\ mic' = "opening" /\ ws' = "none" /\ capture' = capture
      BY DEF PageInv, Phase
    <2>2. capture' # NoCapture => capture' <= call'
      BY <1>3, <2>1, BoundsAssumption DEF PageInv, PageTypes
    <2>3. capture' # call'
      BY <1>3, <2>1, BoundsAssumption DEF PageTypes
    <2> QED
      BY <1>2, <1>3, <2>1, <2>2, <2>3 DEF Phase
  <1> QED
    BY <1>1, <1>2, <1>3, <1>4 DEF PageInv, SpeakingIsTrue, RepeatIsThere

LEMMA OpeningStep == ASSUME CallInv, MicOpens \/ MicRefused PROVE CallInv'
  <1> USE DEF CallInv, MicOpens, MicRefused
  <1>1. WireInv' /\ replies \in Nat /\ replies' = replies
    BY WireRests DEF Wire
  <1>2. PlayerInv' /\ (Silent => Silent')
    BY <1>1, PlayerRests DEF Silent, playerVars
  <1>3. PageTypes'
    BY DEF PageInv, PageTypes
  <1>4. Phase' /\ SpeakingIsTrue' /\ RepeatIsThere'
    BY <1>2 DEF PageInv, Phase, SpeakingIsTrue, RepeatIsThere, playerVars
  <1> QED
    BY <1>1, <1>2, <1>3, <1>4 DEF PageInv

LEMMA SocketOpensStep == ASSUME CallInv, SocketOpens PROVE CallInv'
  <1> USE DEF CallInv, SocketOpens
  <1>1. replies \in Nat /\ replies' = replies
    BY DEF WireInv, WireTypes, serverVars
  <1>2. WireInv'
    BY DEF WireInv, WireTypes, ServingShape, Events, serverVars
  <1>3. PlayerInv' /\ (Silent => Silent')
    BY <1>1, PlayerRests DEF Silent, playerVars
  <1>4. PageInv'
    BY <1>3 DEF PageInv, PageTypes, Phase, SpeakingIsTrue, RepeatIsThere, playerVars
  <1> QED
    BY <1>2, <1>3, <1>4

LEMMA ClosesStep == ASSUME CallInv, SocketCloses \/ StopCall PROVE CallInv'
  <1> USE DEF CallInv, SocketCloses, StopCall
  <1>1. WireInv' /\ replies \in Nat /\ replies' = replies
    BY Disconnects
  <1>2. PlayerInv' /\ Silent' /\ lastTurn' = lastTurn
    BY <1>1, Stopped DEF Stop, PlayerInv, PlayerTypes
  <1>3. PageTypes'
    BY DEF PageInv, PageTypes, Disconnect
  <1>4. Phase' /\ SpeakingIsTrue' /\ RepeatIsThere'
    BY <1>2 DEF PageInv, PageTypes, Phase, SpeakingIsTrue, RepeatIsThere, Disconnect, InCall
  <1> QED
    BY <1>1, <1>2, <1>3, <1>4 DEF PageInv

LEMMA StartListeningStep == ASSUME CallInv, StartListening PROVE CallInv'
  <1> USE DEF CallInv, StartListening
  <1>1. WireInv' /\ replies \in Nat /\ replies' = replies
    BY WireRests DEF Wire
  <1>2. PlayerInv' /\ Silent' /\ lastTurn' = lastTurn
    BY <1>1, Stopped DEF Stop, PlayerInv, PlayerTypes
  <1>3. PageTypes' /\ call' = call
    <2>1. call # 0 /\ call' = call
      BY DEF PageInv, Phase, InCall
    <2>2. call' \in 0..MaxCalls /\ capture' \in 1..MaxCalls \cup {NoCapture}
          /\ taps' \in 0..MaxTaps
      BY <2>1, BoundsAssumption DEF PageInv, PageTypes
    <2> QED
      BY <2>1, <2>2 DEF PageInv, PageTypes
  <1>4. Phase' /\ SpeakingIsTrue' /\ RepeatIsThere'
    BY <1>2, <1>3 DEF PageInv, PageTypes, Phase, SpeakingIsTrue, RepeatIsThere
  <1> QED
    BY <1>1, <1>2, <1>3, <1>4 DEF PageInv

LEMMA EndListeningStep == ASSUME CallInv, EndListening PROVE CallInv'
  <1> USE DEF CallInv, EndListening, CaptureRuns
  <1>1. /\ replies \in Nat /\ replies' = replies /\ up' \in Nat
        /\ UNCHANGED <<down, serverVars, announced>>
    BY DEF WireInv, WireTypes, serverVars
  <1>2. WireInv'
    BY <1>1 DEF WireInv, WireTypes, ServingShape, serverVars, Events
  <1>3. PlayerInv' /\ (Silent => Silent')
    BY <1>1, PlayerRests DEF Silent, playerVars
  <1>4. status # "idle" /\ ws # "connecting"
    BY DEF PageInv, Phase
  <1>5. PageInv'
    BY <1>3, <1>4 DEF PageInv, PageTypes, Phase, SpeakingIsTrue, RepeatIsThere, playerVars
  <1> QED
    BY <1>2, <1>3, <1>5

LEMMA AskRepeatStep == ASSUME CallInv, AskRepeat PROVE CallInv'
  <1> USE DEF CallInv, AskRepeat, CanRepeatNow, PlaybackStarted
  <1>1. WireInv' /\ replies \in Nat /\ replies' = replies
    BY WireRests DEF Wire
  <1>2. PlayerInv' /\ source' # Silence /\ lastTurn' # <<>>
    BY <1>1, ReplayStep
  <1>3. PageTypes'
    BY BoundsAssumption DEF PageInv, PageTypes
  <1>4. Phase' /\ SpeakingIsTrue' /\ RepeatIsThere'
    BY <1>2 DEF PageInv, Phase, SpeakingIsTrue, RepeatIsThere, IsIdle
  <1> QED
    BY <1>1, <1>2, <1>3, <1>4 DEF PageInv

LEMMA DecodeEndsStep == ASSUME CallInv, DecodeEnds PROVE CallInv'
  <1> USE DEF CallInv, DecodeEnds
  <1>1. WireInv' /\ replies \in Nat /\ replies' = replies
    BY WireRests DEF Wire
  <1>2. /\ PlayerInv'
        /\ Decoded => source' # Silence /\ lastTurn' # <<>>
        /\ Decoded \/ DecodeFails => pendingDecodes > 0
    BY <1>1, DecodeStep
  <1>3. PageTypes' /\ UNCHANGED <<call, mic, ws, capture>>
    BY DEF PageInv, PageTypes, MaybeIdle, PlaybackStarted, PlaybackFinished
  <1>4. CASE DecodeStale /\ UNCHANGED <<status, canReplay, garbled>>
    BY <1>1, <1>2, <1>3, <1>4
       DEF DecodeStale, PageInv, Phase, Silent, SpeakingIsTrue, RepeatIsThere, IsIdle
  <1>5. CASE DecodeFails /\ MaybeIdle
    <2>1. ~Silent /\ UNCHANGED <<source, queue, streamEnded, lastTurn>>
      BY <1>2, <1>5 DEF Silent, DecodeFails, PlayerInv, PlayerTypes
    <2>2. status # "idle" /\ mic # "opening" /\ ws # "connecting"
      BY <2>1 DEF PageInv, Phase
    <2>3. status' \in {status, "ready"} /\ canReplay' = canReplay
      BY <1>5 DEF MaybeIdle, PlaybackFinished
    <2>4. Phase' /\ RepeatIsThere'
      BY <1>3, <2>1, <2>2, <2>3 DEF PageInv, Phase, RepeatIsThere
    <2>5. SpeakingIsTrue'
      BY <1>5 DEF SpeakingIsTrue, MaybeIdle, PlaybackFinished
    <2> QED
      BY <1>1, <1>2, <1>3, <2>4, <2>5 DEF PageInv
  <1>6. CASE Decoded /\ IF source = Silence THEN PlaybackStarted ELSE UNCHANGED <<status, canReplay>>
    <2>1. status # "idle" /\ mic # "opening" /\ ws # "connecting"
      BY <1>2, <1>6 DEF PageInv, Phase, Silent, PlayerInv, PlayerTypes
    <2>2. status' \in {status, "speaking"}
      BY <1>6 DEF PlaybackStarted
    <2>3. Phase' /\ RepeatIsThere' /\ SpeakingIsTrue'
      BY <1>2, <1>3, <1>6, <2>1, <2>2 DEF PageInv, Phase, RepeatIsThere, SpeakingIsTrue, IsIdle
    <2> QED
      BY <1>1, <1>2, <1>3, <2>3 DEF PageInv
  <1> QED
    BY <1>4, <1>5, <1>6

LEMMA TrackEndsStep == ASSUME CallInv, TrackEnds PROVE CallInv'
  <1> USE DEF CallInv, TrackEnds
  <1>1. WireInv' /\ replies \in Nat /\ replies' = replies
    BY WireRests DEF Wire
  <1>2. PlayerInv' /\ lastTurn' # <<>> /\ (queue # <<>> => source' # Silence)
    BY <1>1, SourceEndsStep
  <1>3. PageTypes' /\ UNCHANGED <<call, mic, ws, capture>>
    BY DEF PageInv, PageTypes, MaybeIdle, PlaybackStarted, PlaybackFinished
  <1>4. status # "idle" /\ mic # "opening" /\ ws # "connecting"
    BY DEF PageInv, Phase, Silent, SourceEnds
  <1>5. status' \in {status, "ready", "speaking"}
    BY DEF MaybeIdle, PlaybackStarted, PlaybackFinished
  <1>6. Phase' /\ RepeatIsThere'
    BY <1>2, <1>3, <1>4, <1>5 DEF PageInv, Phase, RepeatIsThere
  <1>7. SpeakingIsTrue'
    BY <1>2 DEF SpeakingIsTrue, MaybeIdle, PlaybackFinished, IsIdle
  <1> QED
    BY <1>1, <1>2, <1>3, <1>6, <1>7 DEF PageInv
-----------------------------------------------------------------------------
(* The page takes what arrives. *)

LEMMA Arrives ==
    ASSUME WireInv, down # <<>>, down' = Tail(down), announced' \in 0..replies,
           UNCHANGED <<up, serverVars>>
    PROVE  /\ WireInv' /\ replies \in Nat /\ replies' = replies
           /\ Head(down) \in Events
  <1>1. down' \in Seq(Events) /\ Head(down) \in Events
    BY DEF WireInv, WireTypes
  <1>2. Events' = Events
    BY DEF Events, serverVars
  <1> QED
    BY <1>1, <1>2 DEF WireInv, WireTypes, ServingShape, serverVars

(* While a call is connected only the page of an ended call would break Phase. *)
LEMMA Connected ==
    ASSUME Phase, ws = "open", UNCHANGED <<call, mic, ws, capture>>, status' # "idle"
    PROVE  Phase' /\ status # "idle"
  BY DEF Phase

LEMMA ReceiveStep == ASSUME CallInv, Receive PROVE CallInv'
  <1> USE DEF CallInv, Receive, Incoming
  <1>1. /\ UNCHANGED <<call, mic, ws, capture, up, serverVars, taps, repeats>>
        /\ ws = "open" /\ down # <<>> /\ down' = Tail(down)
    BY DEF OnReady, OnReply, OnAudioTrack, OnFrame, OnAudioEnd, OnBargeIn, OnError
  <1>2. Head(down) \in Events /\ replies \in Nat /\ announced \in 0..replies
    BY <1>1 DEF WireInv, WireTypes
  <1>3. announced' \in 0..replies
    <2>1. CASE OnReply
      BY <2>1, <1>2 DEF OnReply, Events
    <2> QED
      BY <1>2, <2>1 DEF OnReady, OnAudioTrack, OnFrame, OnAudioEnd, OnBargeIn, OnError
  <1>4. WireInv' /\ replies' = replies
    BY <1>1, <1>3, Arrives
  <1>5. status # "idle"
    BY <1>1 DEF PageInv, Phase
  <1>6. CASE OnReady
    <2>1. PlayerInv'
      BY <1>2, <1>4, <1>6, PlayerRests DEF OnReady
    <2>2. PageTypes' /\ SpeakingIsTrue' /\ RepeatIsThere'
      BY <1>1, <1>6
         DEF OnReady, PageInv, PageTypes, SpeakingIsTrue, RepeatIsThere, playerVars
    <2>3. Phase'
      BY <1>1, <1>6, Connected DEF OnReady, PageInv
    <2> QED
      BY <1>4, <2>1, <2>2, <2>3 DEF PageInv
  <1>7. CASE OnReply
    <2>1. Head(down).tracks \in 0..MaxTracks
      BY <1>2, <1>7 DEF OnReply, Events
    <2>2. PlayerInv' /\ streamEnded' = (Head(down).tracks = 0)
      BY <1>4, <1>7, Stopped, BoundsAssumption DEF OnReply, BeginTurn
    <2>3. status' = (IF Head(down).tracks = 0 THEN "ready" ELSE status) /\ canReplay' = FALSE
          /\ garbled' = FALSE /\ error' = error
      BY <1>7 DEF OnReply
    <2>4. PageTypes' /\ SpeakingIsTrue' /\ RepeatIsThere'
      BY <1>1, <2>2, <2>3 DEF PageInv, PageTypes, SpeakingIsTrue, RepeatIsThere, IsIdle
    <2>5. Phase'
      BY <1>1, <1>5, <2>3, Connected DEF PageInv
    <2> QED
      BY <1>4, <2>2, <2>4, <2>5 DEF PageInv
  <1>8. CASE OnAudioTrack
    <2>1. Head(down).track \in 1..MaxTracks
      BY <1>2, <1>8 DEF OnAudioTrack, Events
    <2>2. /\ FlushTrack /\ variant' \in 1..MaxTracks /\ streamEnded' = streamEnded
          /\ UNCHANGED <<generation, queue, source, lastTurn>>
      BY <1>8, <2>1 DEF OnAudioTrack, MarkTrack
    <2>3. PlayerInv'
      BY <1>4, <2>2, FlushStep DEF PlayerInv, PlayerTypes
    <2>4. pendingDecodes' >= pendingDecodes /\ pendingDecodes \in Nat /\ pendingDecodes' \in Nat
      BY <2>2, <2>3 DEF FlushTrack, PlayerInv, PlayerTypes
    <2>5. IsIdle' => IsIdle
      BY <2>2, <2>4 DEF IsIdle
    <2>6. PageTypes' /\ SpeakingIsTrue' /\ RepeatIsThere'
      BY <1>1, <1>8, <2>2, <2>5
         DEF OnAudioTrack, PageInv, PageTypes, SpeakingIsTrue, RepeatIsThere
    <2>7. Phase'
      BY <1>1, <1>5, <1>8, Connected DEF OnAudioTrack, PageInv
    <2> QED
      BY <1>4, <2>3, <2>6, <2>7 DEF PageInv
  <1>9. CASE OnFrame
    <2> DEFINE chunk == [reply |-> Head(down).reply, track |-> Head(down).track,
                         part |-> Head(down).part]
    <2>1. chunk \in Frames
      BY <1>2, <1>9 DEF OnFrame, Events, Frames
    <2>2. Push(chunk)
      BY <1>9 DEF OnFrame
    <2> HIDE DEF chunk
    <2>3. PlayerInv'
      BY <1>4, <2>1, <2>2, PushStep
    <2>4. UNCHANGED <<pendingDecodes, queue, source, streamEnded, lastTurn, status, canReplay,
                      error, garbled>>
      BY <1>9, <2>2 DEF OnFrame, Push
    <2>5. PageTypes' /\ SpeakingIsTrue' /\ RepeatIsThere'
      BY <1>1, <2>4 DEF PageInv, PageTypes, SpeakingIsTrue, RepeatIsThere, IsIdle
    <2>6. Phase'
      BY <1>1, <1>5, <2>4, Connected DEF PageInv
    <2> QED
      BY <1>4, <2>3, <2>5, <2>6 DEF PageInv
  <1>10. CASE OnAudioEnd
    <2>1. /\ FlushTrack /\ variant' = variant /\ streamEnded' = TRUE
          /\ UNCHANGED <<generation, queue, source, lastTurn>>
      BY <1>10 DEF OnAudioEnd, EndTurn
    <2>2. PlayerInv'
      BY <1>4, <2>1, FlushStep DEF PlayerInv, PlayerTypes
    <2>3. /\ status' \in {status, "ready"} /\ UNCHANGED <<canReplay, error, garbled>>
          /\ IsIdle' => status' # "speaking"
      BY <1>10 DEF OnAudioEnd, MaybeIdle, PlaybackFinished
    <2>4. PageTypes' /\ SpeakingIsTrue' /\ RepeatIsThere'
      BY <1>1, <2>1, <2>3 DEF PageInv, PageTypes, SpeakingIsTrue, RepeatIsThere
    <2>5. Phase'
      BY <1>1, <1>5, <2>3, Connected DEF PageInv
    <2> QED
      BY <1>4, <2>2, <2>4, <2>5 DEF PageInv
  <1>11. CASE OnBargeIn
    <2>1. PlayerInv' /\ lastTurn' = lastTurn
      BY <1>4, <1>11, Stopped DEF OnBargeIn, Stop, PlayerInv, PlayerTypes
    <2>2. /\ status' \in {status, "ready"} /\ UNCHANGED <<canReplay, error, garbled>>
          /\ status' # "speaking"
      BY <1>11 DEF OnBargeIn, PlaybackFinished
    <2>3. PageTypes' /\ SpeakingIsTrue' /\ RepeatIsThere'
      BY <1>1, <2>1, <2>2 DEF PageInv, PageTypes, SpeakingIsTrue, RepeatIsThere
    <2>4. Phase'
      BY <1>1, <1>5, <2>2, Connected DEF PageInv
    <2> QED
      BY <1>4, <2>1, <2>3, <2>4 DEF PageInv
  <1>12. CASE OnError
    <2>1. PlayerInv'
      BY <1>2, <1>4, <1>12, PlayerRests DEF OnError
    <2>2. PageTypes' /\ SpeakingIsTrue' /\ RepeatIsThere'
      BY <1>1, <1>12
         DEF OnError, PageInv, PageTypes, SpeakingIsTrue, RepeatIsThere, IsIdle, playerVars
    <2>3. Phase'
      BY <1>1, <1>5, <1>12, Connected DEF OnError, PageInv
    <2> QED
      BY <1>4, <2>1, <2>2, <2>3 DEF PageInv
  <1> QED
    BY <1>6, <1>7, <1>8, <1>9, <1>10, <1>11, <1>12
-----------------------------------------------------------------------------
(* The gateway's side. *)

(* It may begin a reply; whatever it emits is an event the page knows. *)
LEMMA Emitted ==
    ASSUME WireInv, replies' \in Nat, replies' >= replies, NEW event \in Events'
    PROVE  \A d \in Seq(Events') : Append(d, event) \in Seq(Events')
  OBVIOUS

LEMMA MoreReplies ==
    ASSUME WireInv, replies' \in Nat, replies' >= replies
    PROVE  down \in Seq(Events')
  <1>1. Events \subseteq Events'
    BY DEF Events, WireInv, WireTypes
  <1> QED
    BY <1>1 DEF WireInv, WireTypes

LEMMA GatewayWire ==
    ASSUME WireInv, announced' = announced,
           GatewayHears \/ GatewayTakes \/ GatewayReplies \/ GatewayDropsTurn
             \/ GatewayCannotSpeak \/ GatewaySpeaks \/ GatewaySendsFrame \/ GatewayCutsShort
    PROVE  WireInv' /\ replies' \in Nat /\ replies' >= replies
  <1> USE DEF WireInv, Idle
  <1> DEFINE Stages == [stage : {"idle", "thinking", "synthesis", "frames"},
                        tracks : 0..MaxTracks, track : 0..MaxTracks, part : 0..MaxParts]
  <1>1. CASE GatewayHears
    BY <1>1, MoreReplies DEF GatewayHears, WireTypes, ServingShape
  <1>2. CASE GatewayTakes
    <2>1. serving' = [stage |-> "thinking", tracks |-> 0, track |-> 0, part |-> 0]
      BY <1>2 DEF GatewayTakes
    <2> QED
      BY <1>2, <2>1, MoreReplies, BoundsAssumption DEF GatewayTakes, WireTypes, ServingShape
  <1>3. CASE GatewayReplies
    <2>1. /\ replies' = replies + 1 /\ replies' \in Nat /\ replies' >= replies
          /\ UNCHANGED <<up, heard, taken>> /\ replies \in Nat
      BY <1>3 DEF GatewayReplies, WireTypes
    <2>2. down \in Seq(Events')
      BY <2>1, MoreReplies
    <2>3. PICK n \in 0..MaxTracks :
            LET reply == [type |-> "reply", reply |-> replies', tracks |-> n]
            IN  IF n = 0
                THEN /\ down' = Append(Append(down, reply), [AudioEnd EXCEPT !.reply = replies'])
                     /\ serving' = Idle
                ELSE /\ Emit(reply)
                     /\ serving' = [stage |-> "synthesis", tracks |-> n, track |-> 1, part |-> 1]
      BY <1>3 DEF GatewayReplies
    <2> DEFINE reply == [type |-> "reply", reply |-> replies', tracks |-> n]
               end == [type |-> "audio_end", reply |-> replies']
    <2>4. reply \in Events' /\ end \in Events' /\ [AudioEnd EXCEPT !.reply = replies'] = end
      BY <2>1 DEF Events, AudioEnd
    <2>5. down' = Append(Append(down, reply), end) \/ down' = Append(down, reply)
      BY <2>3, <2>4 DEF Emit
    <2> HIDE DEF reply, end
    <2>6. down' \in Seq(Events')
      BY <2>2, <2>4, <2>5
    <2>7. /\ serving' \in Stages
          /\ \/ serving' = Idle
             \/ serving' = [stage |-> "synthesis", tracks |-> n, track |-> 1, part |-> 1]
      BY <2>3, BoundsAssumption
    <2>8. ServingShape'
      BY <2>1, <2>3, <2>7, BoundsAssumption DEF ServingShape
    <2> QED
      BY <2>1, <2>6, <2>7, <2>8 DEF WireTypes
  <1>4. CASE GatewayDropsTurn
    BY <1>4, MoreReplies, BoundsAssumption DEF GatewayDropsTurn, WireTypes, ServingShape
  <1>5. CASE GatewayCannotSpeak
    <2>1. [type |-> "error", reply |-> replies] \in Events' /\ replies' = replies
      BY <1>5 DEF GatewayCannotSpeak, Events, WireTypes
    <2>2. down' \in Seq(Events')
      BY <1>5, <2>1, MoreReplies DEF GatewayCannotSpeak, Emit, WireTypes
    <2> QED
      BY <1>5, <2>2, BoundsAssumption DEF GatewayCannotSpeak, WireTypes, ServingShape
  <1>6. CASE GatewaySpeaks
    <2>1. /\ replies' = replies /\ replies \in Nat /\ replies >= 1
          /\ serving.tracks \in 1..MaxTracks /\ serving.track \in 1..serving.tracks
      BY <1>6 DEF GatewaySpeaks, ServingShape, WireTypes
    <2>2. [type |-> "audio_track", reply |-> replies, track |-> serving.track] \in Events'
      BY <2>1, BoundsAssumption DEF Events
    <2>3. down' \in Seq(Events')
      BY <1>6, <2>1, <2>2, MoreReplies DEF GatewaySpeaks, Emit
    <2> QED
      BY <1>6, <2>1, <2>3 DEF GatewaySpeaks, WireTypes, ServingShape
  <1>7. CASE GatewaySendsFrame
    <2> DEFINE frame == [type |-> "frame", reply |-> replies, track |-> serving.track,
                         part |-> serving.part]
    <2>1. /\ replies' = replies /\ replies \in Nat /\ replies >= 1 /\ serving.stage = "frames"
          /\ serving.tracks \in 1..MaxTracks /\ serving.track \in 1..serving.tracks
          /\ serving.part \in 1..MaxParts /\ serving \in Stages
          /\ UNCHANGED <<up, heard, taken>>
      BY <1>7 DEF GatewaySendsFrame, ServingShape, WireTypes
    <2> DEFINE end == AudioEnd
    <2>2. frame \in Events' /\ end \in Events'
      BY <2>1, BoundsAssumption DEF Events, AudioEnd
    <2>3. down' = Append(Append(down, frame), end) \/ down' = Append(down, frame)
      BY <1>7 DEF GatewaySendsFrame, Emit
    <2> HIDE DEF frame, end
    <2>4. down' \in Seq(Events')
      <3>1. down \in Seq(Events')
        BY <2>1, MoreReplies
      <3>2. Append(down, frame) \in Seq(Events')
        BY <2>2, <3>1
      <3>3. Append(Append(down, frame), end) \in Seq(Events')
        BY <2>2, <3>2
      <3> QED
        BY <2>3, <3>2, <3>3, Zenon
    <2>5. \/ serving' = Idle
          \/ /\ serving.track # serving.tracks
             /\ serving' = [stage |-> "synthesis", tracks |-> serving.tracks,
                            track |-> serving.track + 1, part |-> 1]
          \/ /\ serving.part # MaxParts
             /\ serving' = [stage |-> "frames", tracks |-> serving.tracks,
                            track |-> serving.track, part |-> serving.part + 1]
      <3>1. serving = [stage |-> "frames", tracks |-> serving.tracks,
                       track |-> serving.track, part |-> serving.part]
        BY <2>1
      <3>2. CASE serving.part = MaxParts /\ serving.track = serving.tracks
        BY <1>7, <3>2 DEF GatewaySendsFrame
      <3>3. CASE serving.part = MaxParts /\ serving.track # serving.tracks
        <4>1. serving' = [serving EXCEPT !.stage = "synthesis", !.track = @ + 1, !.part = 1]
          BY <1>7, <3>3 DEF GatewaySendsFrame
        <4> QED
          BY <3>1, <3>3, <4>1
      <3>4. CASE serving.part # MaxParts
        <4>1. serving' = [serving EXCEPT !.part = @ + 1]
          BY <1>7, <3>4 DEF GatewaySendsFrame
        <4> QED
          BY <3>1, <3>4, <4>1
      <3> QED
        BY <3>2, <3>3, <3>4
    <2>6. serving' \in Stages /\ ServingShape'
      BY <2>1, <2>5, BoundsAssumption DEF ServingShape
    <2> QED
      BY <2>1, <2>4, <2>6 DEF WireTypes
  <1>8. CASE GatewayCutsShort
    <2>1. [type |-> "barge_in", reply |-> replies] \in Events' /\ replies' = replies
      BY <1>8 DEF GatewayCutsShort, Events, WireTypes
    <2>2. down' \in Seq(Events')
      BY <1>8, <2>1, MoreReplies DEF GatewayCutsShort, Emit, WireTypes
    <2> QED
      BY <1>8, <2>2, BoundsAssumption DEF GatewayCutsShort, WireTypes, ServingShape
  <1> QED
    BY <1>1, <1>2, <1>3, <1>4, <1>5, <1>6, <1>7, <1>8

LEMMA GatewayStep == ASSUME CallInv, Gateway PROVE CallInv'
  <1> USE DEF CallInv
  <1>1. UNCHANGED <<playerVars, clientVars, taps, repeats>>
    BY DEF Gateway
  <1>2. WireInv' /\ replies' \in Nat /\ replies' >= replies /\ replies \in Nat
    BY <1>1, GatewayWire DEF Gateway, clientVars, WireInv, WireTypes
  <1>3. PlayerInv'
    BY <1>1, <1>2, PlayerRests
  <1>4. PageInv'
    BY <1>1 DEF PageInv, PageTypes, Phase, Silent, SpeakingIsTrue, RepeatIsThere, IsIdle,
                clientVars, playerVars
  <1> QED
    BY <1>2, <1>3, <1>4
-----------------------------------------------------------------------------
LEMMA CallInit == Init => CallInv
  <1> SUFFICES ASSUME Init PROVE CallInv
    OBVIOUS
  <1> USE BoundsAssumption DEF Init, PlayerInit
  <1>1. PlayerInv
    BY DEF PlayerInv, PlayerTypes, GenOrder, DecodesAreCounted, HeldIsKept
  <1>2. WireInv
    BY DEF WireInv, WireTypes, ServingShape, Idle
  <1>3. PageTypes
    <2>1. call \in 0..MaxCalls /\ taps \in 0..MaxTaps /\ repeats \in 0..MaxReplays
      OBVIOUS
    <2> QED
      BY <2>1 DEF PageTypes
  <1>4. Phase /\ SpeakingIsTrue /\ RepeatIsThere
    BY DEF Phase, Silent, SpeakingIsTrue, RepeatIsThere
  <1> QED
    BY <1>1, <1>2, <1>3, <1>4 DEF CallInv, PageInv

LEMMA CallStep == CallInv /\ [Next]_vars => CallInv'
  <1> SUFFICES ASSUME CallInv, [Next]_vars PROVE CallInv'
    OBVIOUS
  <1>1. CASE UNCHANGED vars
    <2>1. WireInv' /\ replies \in Nat /\ replies' = replies
      BY <1>1, WireRests DEF CallInv, vars, Wire, clientVars
    <2>2. PlayerInv'
      BY <1>1, <2>1, PlayerRests DEF CallInv, vars
    <2>3. PageInv'
      BY <1>1 DEF CallInv, PageInv, PageTypes, Phase, Silent, SpeakingIsTrue, RepeatIsThere,
                  IsIdle, vars, clientVars, playerVars
    <2> QED
      BY <2>1, <2>2, <2>3 DEF CallInv
  <1> QED
    BY <1>1, StartCallStep, OpeningStep, SocketOpensStep, ClosesStep, StartListeningStep,
       EndListeningStep, AskRepeatStep, DecodeEndsStep, TrackEndsStep, ReceiveStep, GatewayStep
       DEF Next

LEMMA CallHolds == Spec => []CallInv
  BY CallInit, CallStep, PTL DEF Spec

(* Every variable of the player, the page and the gateway's side keeps its type, *)
(* over any number of calls: no decode count goes below zero (player.ts:103)    *)
(* and no frame of a reply that was not sent is ever held.                      *)
THEOREM WebTypeCorrect == Spec => []TypeOK
  <1>1. CallInv => TypeOK
    BY DEF CallInv, PlayerInv, PlayerTypes, WireInv, WireTypes, PageInv, PageTypes, TypeOK
  <1> QED
    BY <1>1, CallHolds, PTL

(* The player's count is of the decodes whose result it still wants, whatever   *)
(* stops, repeats and new replies come between (player.ts:98-142).              *)
THEOREM DecodesCounted == Spec => []DecodesAreCounted
  <1>1. CallInv => DecodesAreCounted
    BY DEF CallInv, PlayerInv
  <1> QED
    BY <1>1, CallHolds, PTL

(* While the page says the agent speaks, onIdle is still to come                *)
(* (useCall.ts, player.ts maybeIdle).                                          *)
THEOREM SpeakingHolds == Spec => []SpeakingIsTrue
  <1>1. CallInv => SpeakingIsTrue
    BY DEF CallInv, PageInv
  <1> QED
    BY <1>1, CallHolds, PTL

(* A repeat that is on offer has a track to play (App.tsx, player.ts replay).    *)
THEOREM RepeatHolds == Spec => []RepeatIsThere
  <1>1. CallInv => RepeatIsThere
    BY DEF CallInv, PageInv
  <1> QED
    BY <1>1, CallHolds, PTL
-----------------------------------------------------------------------------
(* Which reply is heard.  Events travel in order, so a frame at the head of the *)
(* wire is of the reply that was announced last; the invariant says so of the  *)
(* whole wire, counting from the reply a the page knows of.                   *)

Content == {"audio_track", "frame", "audio_end"}

Tells(d, a, r) == r = a \/ \E j \in 1..Len(d) : d[j].type = "reply" /\ d[j].reply = r

InOrder(d, a) ==
    /\ \A i \in 1..Len(d) : d[i].type = "reply" => a < d[i].reply
    /\ \A i, j \in 1..Len(d) :
          j < i /\ d[j].type = "reply" =>
             /\ d[i].type = "reply" => d[j].reply < d[i].reply
             /\ d[i].type \in Content => d[j].reply <= d[i].reply
    /\ \A i \in 1..Len(d) :
          d[i].type \in Content =>
             \/ d[i].reply = a
             \/ \E j \in 1..Len(d) : j < i /\ d[j].type = "reply" /\ d[j].reply = d[i].reply

LEMMA AppendOther ==
    ASSUME NEW S, NEW d \in Seq(S), NEW e, NEW a, InOrder(d, a),
           e.type # "reply", e.type \notin Content
    PROVE  /\ InOrder(Append(d, e), a)
           /\ \A r : Tells(d, a, r) => Tells(Append(d, e), a, r)
  <1> DEFINE x == Append(d, e)
  <1>1. /\ Len(d) \in Nat /\ Len(x) = Len(d) + 1 /\ x[Len(d) + 1] = e
        /\ \A i \in 1..Len(d) : x[i] = d[i]
    OBVIOUS
  <1>2. \A i \in 1..Len(x) : i \in 1..Len(d) \/ i = Len(d) + 1
    BY <1>1
  <1>3. \A i \in 1..Len(d) : i \in 1..Len(x)
    BY <1>1
  <1> HIDE DEF x
  <1>4. InOrder(x, a)
    BY <1>1, <1>2, <1>3 DEF InOrder
  <1>5. \A r : Tells(d, a, r) => Tells(x, a, r)
    BY <1>1, <1>3 DEF Tells
  <1> QED
    BY <1>4, <1>5 DEF x

LEMMA AppendContent ==
    ASSUME NEW S, NEW d \in Seq(S), NEW e, NEW a, InOrder(d, a), e.type \in Content,
           Tells(d, a, e.reply),
           \A j \in 1..Len(d) : d[j].type = "reply" => d[j].reply <= e.reply
    PROVE  /\ InOrder(Append(d, e), a)
           /\ \A r : Tells(d, a, r) => Tells(Append(d, e), a, r)
  <1> DEFINE x == Append(d, e)
  <1>1. /\ Len(d) \in Nat /\ Len(x) = Len(d) + 1 /\ x[Len(d) + 1] = e
        /\ \A i \in 1..Len(d) : x[i] = d[i]
    OBVIOUS
  <1>2. \A i \in 1..Len(x) : i \in 1..Len(d) \/ i = Len(d) + 1
    BY <1>1
  <1>3. \A i \in 1..Len(d) : i \in 1..Len(x) /\ i < Len(d) + 1 /\ ~(Len(d) + 1 < i)
    BY <1>1
  <1> HIDE DEF x
  <1>4. InOrder(x, a)
    <2>1. \A i \in 1..Len(x) : x[i].type = "reply" => a < x[i].reply
      BY <1>1, <1>2 DEF Content, InOrder
    <2>2. \A i, j \in 1..Len(x) :
             j < i /\ x[j].type = "reply" =>
                /\ x[i].type = "reply" => x[j].reply < x[i].reply
                /\ x[i].type \in Content => x[j].reply <= x[i].reply
      BY <1>1, <1>2, <1>3 DEF Content, InOrder
    <2>3. \A i \in 1..Len(x) :
             x[i].type \in Content =>
                \/ x[i].reply = a
                \/ \E j \in 1..Len(x) : j < i /\ x[j].type = "reply" /\ x[j].reply = x[i].reply
      <3> SUFFICES ASSUME NEW i \in 1..Len(x), x[i].type \in Content, x[i].reply # a
                   PROVE  \E j \in 1..Len(x) :
                             j < i /\ x[j].type = "reply" /\ x[j].reply = x[i].reply
        OBVIOUS
      <3>1. CASE i \in 1..Len(d)
        <4>1. PICK j \in 1..Len(d) : j < i /\ d[j].type = "reply" /\ d[j].reply = d[i].reply
          BY <3>1, <1>1 DEF InOrder
        <4> QED
          BY <3>1, <4>1, <1>1, <1>3
      <3>2. CASE i = Len(d) + 1
        <4>1. PICK j \in 1..Len(d) : d[j].type = "reply" /\ d[j].reply = e.reply
          BY <3>2, <1>1 DEF Tells
        <4> QED
          BY <3>2, <4>1, <1>1, <1>3
      <3> QED
        BY <3>1, <3>2, <1>2
    <2> QED
      BY <2>1, <2>2, <2>3 DEF InOrder
  <1>5. \A r : Tells(d, a, r) => Tells(x, a, r)
    BY <1>1, <1>3 DEF Tells
  <1> QED
    BY <1>4, <1>5 DEF x

LEMMA AppendReply ==
    ASSUME NEW S, NEW d \in Seq(S), NEW e, NEW a, InOrder(d, a), e.type = "reply",
           a < e.reply, \A j \in 1..Len(d) : d[j].type = "reply" => d[j].reply < e.reply
    PROVE  InOrder(Append(d, e), a) /\ Tells(Append(d, e), a, e.reply)
  <1> DEFINE x == Append(d, e)
  <1>1. /\ Len(d) \in Nat /\ Len(x) = Len(d) + 1 /\ x[Len(d) + 1] = e
        /\ \A i \in 1..Len(d) : x[i] = d[i]
    OBVIOUS
  <1>2. \A i \in 1..Len(x) : i \in 1..Len(d) \/ i = Len(d) + 1
    BY <1>1
  <1>3. /\ \A i \in 1..Len(d) : i \in 1..Len(x) /\ ~(Len(d) + 1 < i)
        /\ Len(d) + 1 \in 1..Len(x) /\ ~(Len(d) + 1 < Len(d) + 1)
    BY <1>1
  <1> HIDE DEF x
  <1>4. InOrder(x, a)
    BY <1>1, <1>2, <1>3 DEF Content, InOrder
  <1>5. Tells(x, a, e.reply)
    BY <1>1, <1>3 DEF Tells
  <1> QED
    BY <1>4, <1>5 DEF x

(* The head of the wire is of the reply the page knows of, or announces one. *)
LEMMA TailInOrder ==
    ASSUME NEW S, NEW d \in Seq(S), d # <<>>, NEW a \in Nat, InOrder(d, a),
           \A i \in 1..Len(d) : d[i].reply \in Nat,
           NEW b, b = IF Head(d).type = "reply" THEN Head(d).reply ELSE a
    PROVE  /\ InOrder(Tail(d), b)
           /\ Head(d).type \in Content => Head(d).reply = a
           /\ \A r : Tells(d, a, r) /\ r # a => Tells(Tail(d), b, r)
           /\ b = a => \A r : Tells(d, a, r) => Tells(Tail(d), b, r)
  <1> DEFINE x == Tail(d)
  <1>1. /\ Len(d) \in Nat \ {0} /\ Len(x) = Len(d) - 1 /\ Head(d) = d[1]
        /\ \A i \in 1..Len(x) : x[i] = d[i + 1]
    OBVIOUS
  <1>2. /\ \A i \in 1..Len(x) : i + 1 \in 1..Len(d) /\ 1 < i + 1
        /\ \A i \in 1..Len(d) : i # 1 => i - 1 \in 1..Len(x) /\ x[i - 1] = d[i]
        /\ \A i, j \in Nat : j < i <=> j + 1 < i + 1
        /\ 1 \in 1..Len(d) /\ ~\E j \in 1..Len(d) : j < 1
    BY <1>1
  <1> HIDE DEF x
  <1>3. Head(d).type \in Content => Head(d).reply = a
    BY <1>1, <1>2 DEF InOrder
  <1>4. \A i \in 1..Len(x) : x[i].type = "reply" => b < x[i].reply
    BY <1>1, <1>2 DEF InOrder
  <1>5. \A i, j \in 1..Len(x) :
           j < i /\ x[j].type = "reply" =>
              /\ x[i].type = "reply" => x[j].reply < x[i].reply
              /\ x[i].type \in Content => x[j].reply <= x[i].reply
    <2> SUFFICES ASSUME NEW i \in 1..Len(x), NEW j \in 1..Len(x), j < i, x[j].type = "reply"
                 PROVE  /\ x[i].type = "reply" => x[j].reply < x[i].reply
                        /\ x[i].type \in Content => x[j].reply <= x[i].reply
      OBVIOUS
    <2>1. i + 1 \in 1..Len(d) /\ j + 1 \in 1..Len(d) /\ j + 1 < i + 1
      BY <1>1, <1>2
    <2>2. x[i] = d[i + 1] /\ x[j] = d[j + 1]
      BY <1>1
    <2> QED
      BY <2>1, <2>2 DEF InOrder
  <1>6. \A i \in 1..Len(x) :
           x[i].type \in Content =>
              \/ x[i].reply = b
              \/ \E j \in 1..Len(x) : j < i /\ x[j].type = "reply" /\ x[j].reply = x[i].reply
    <2> SUFFICES ASSUME NEW i \in 1..Len(x), x[i].type \in Content, x[i].reply # b
                 PROVE  \E j \in 1..Len(x) :
                           j < i /\ x[j].type = "reply" /\ x[j].reply = x[i].reply
      OBVIOUS
    <2>1. i + 1 \in 1..Len(d) /\ 1 < i + 1 /\ x[i] = d[i + 1]
      BY <1>1, <1>2
    <2>2. d[i + 1].reply # a
      <3>1. CASE Head(d).type = "reply"
        <4>1. d[1].reply <= d[i + 1].reply /\ a < d[1].reply
          BY <1>1, <1>2, <2>1, <3>1 DEF InOrder
        <4>2. d[1].reply \in Nat /\ d[i + 1].reply \in Nat
          BY <1>2, <2>1
        <4> QED
          BY <4>1, <4>2
      <3>2. CASE Head(d).type # "reply"
        BY <2>1, <3>2
      <3> QED
        BY <3>1, <3>2
    <2>3. PICK k \in 1..Len(d) : k < i + 1 /\ d[k].type = "reply" /\ d[k].reply = d[i + 1].reply
      BY <2>1, <2>2 DEF InOrder
    <2>4. k # 1
      BY <1>1, <2>1, <2>3
    <2>5. k - 1 \in 1..Len(x) /\ x[k - 1] = d[k] /\ k - 1 < i
      BY <1>1, <1>2, <2>3, <2>4
    <2> QED
      BY <2>1, <2>3, <2>5
  <1>7. ASSUME NEW r, Tells(d, a, r), r # a PROVE Tells(x, b, r)
    <2>1. PICK k \in 1..Len(d) : d[k].type = "reply" /\ d[k].reply = r
      BY <1>7 DEF Tells
    <2>2. CASE k = 1
      BY <1>1, <2>1, <2>2 DEF Tells
    <2>3. CASE k # 1
      BY <1>2, <2>1, <2>3 DEF Tells
    <2> QED
      BY <2>2, <2>3
  <1>8. b = a => \A r : Tells(d, a, r) => Tells(x, b, r)
    BY <1>7 DEF Tells
  <1> QED
    BY <1>3, <1>4, <1>5, <1>6, <1>7, <1>8 DEF InOrder, x
-----------------------------------------------------------------------------
WireOrder ==
    /\ InOrder(down, announced)
    /\ ws # "open" => serving = Idle
    /\ serving.stage \in {"synthesis", "frames"} => Tells(down, announced, replies)

LatestInv == CallInv /\ WireOrder /\ OnlyTheLatestReply

(* What a stop leaves is the reply that was kept, and jobs nobody waits for. *)
LEMMA StopsForget ==
    ASSUME PlayerInv, OnlyTheLatestReply, Silenced,
           lastTurn' = <<>> \/ (lastTurn' = lastTurn /\ announced' = announced)
    PROVE  OnlyTheLatestReply'
  <1>1. \A i \in 1..Len(decoding) : decoding[i].gen \in Nat /\ decoding[i].gen <= generation
    BY JobsAreOld DEF PlayerInv
  <1>2. generation \in Nat /\ generation' = generation + 1 /\ decoding' = decoding
        /\ chunks' = <<>>
    BY DEF Silenced, PlayerInv, PlayerTypes
  <1>3. \A i \in 1..Len(decoding') : decoding'[i].gen # generation'
    BY <1>1, <1>2
  <1> QED
    BY <1>2, <1>3 DEF OnlyTheLatestReply

LEMMA FlushKeeps ==
    ASSUME PlayerInv, OnlyTheLatestReply, FlushTrack,
           UNCHANGED <<generation, lastTurn, announced>>
    PROVE  OnlyTheLatestReply'
  <1>1. CASE chunks = <<>>
    BY <1>1 DEF FlushTrack, OnlyTheLatestReply
  <1>2. CASE chunks # <<>>
    <2> DEFINE job == [gen |-> generation, variant |-> variant, first |-> Head(chunks)]
    <2>1. chunks[1] = Head(chunks) /\ 1 \in 1..Len(chunks)
      BY <1>2 DEF PlayerInv, PlayerTypes
    <2>2. job.first.reply = announced
      BY <2>1 DEF OnlyTheLatestReply
    <2>3. decoding' = Append(decoding, job) /\ chunks' = <<>> /\ decoding \in Seq(Jobs)
      BY <1>2 DEF FlushTrack, PlayerInv, PlayerTypes, Jobs
    <2> HIDE DEF job
    <2>4. \A i \in 1..Len(decoding') :
             (i \in 1..Len(decoding) /\ decoding'[i] = decoding[i]) \/ decoding'[i] = job
      BY <2>3
    <2>5. \A i \in 1..Len(decoding') :
             decoding'[i].gen = generation => decoding'[i].first.reply = announced
      BY <2>2, <2>4 DEF OnlyTheLatestReply
    <2> QED
      BY <2>3, <2>5 DEF OnlyTheLatestReply
  <1> QED
    BY <1>1, <1>2

LEMMA PushKeeps ==
    ASSUME PlayerInv, OnlyTheLatestReply, NEW chunk, chunk.reply = announced, Push(chunk),
           announced' = announced
    PROVE  OnlyTheLatestReply'
  <1>1. \A i \in 1..Len(chunks') :
           (i \in 1..Len(chunks) /\ chunks'[i] = chunks[i]) \/ chunks'[i] = chunk
    BY DEF PlayerInv, PlayerTypes, Push
  <1> QED
    BY <1>1 DEF OnlyTheLatestReply, Push

LEMMA DecodesKeep ==
    ASSUME PlayerInv, OnlyTheLatestReply, DecodeStale \/ DecodeFails \/ Decoded,
           announced' = announced
    PROVE  OnlyTheLatestReply'
  <1>1. decoding # <<>> /\ decoding' = Tail(decoding) /\ UNCHANGED <<generation, chunks>>
    BY DEF DecodeStale, DecodeFails, Decoded
  <1>2. /\ \A i \in 1..Len(decoding') : i + 1 \in 1..Len(decoding)
                                       /\ decoding'[i] = decoding[i + 1]
        /\ Head(decoding) = decoding[1] /\ 1 \in 1..Len(decoding)
    BY <1>1 DEF PlayerInv, PlayerTypes
  <1>3. \A i \in 1..Len(decoding') :
           decoding'[i].gen = generation' => decoding'[i].first.reply = announced
    BY <1>1, <1>2 DEF OnlyTheLatestReply
  <1>4. \A i \in 1..Len(lastTurn') : lastTurn'[i].reply = announced
    <2>1. CASE DecodeStale \/ DecodeFails
      BY <2>1 DEF DecodeStale, DecodeFails, OnlyTheLatestReply
    <2>2. CASE Decoded
      <3> DEFINE job == Head(decoding)
                 track == [variant |-> job.variant, reply |-> job.first.reply,
                           track |-> job.first.track]
      <3>1. lastTurn' = Append(lastTurn, track) /\ job.gen = generation
        BY <2>2 DEF Decoded
      <3>2. track.reply = announced
        BY <1>2, <3>1 DEF OnlyTheLatestReply
      <3> HIDE DEF track
      <3>3. \A i \in 1..Len(lastTurn') :
               (i \in 1..Len(lastTurn) /\ lastTurn'[i] = lastTurn[i]) \/ lastTurn'[i] = track
        BY <3>1 DEF PlayerInv, PlayerTypes
      <3> QED
        BY <3>2, <3>3 DEF OnlyTheLatestReply
    <2> QED
      BY <2>1, <2>2
  <1> QED
    BY <1>1, <1>3, <1>4 DEF OnlyTheLatestReply

LEMMA PlayerKeeps ==
    ASSUME OnlyTheLatestReply, UNCHANGED <<generation, chunks, decoding, lastTurn, announced>>
    PROVE  OnlyTheLatestReply'
  BY DEF OnlyTheLatestReply
-----------------------------------------------------------------------------
LEMMA EventReplies ==
    ASSUME WireInv
    PROVE  /\ replies \in Nat /\ announced \in Nat /\ announced <= replies
           /\ \A i \in 1..Len(down) : down[i].reply \in Nat /\ down[i].reply <= replies
  <1>1. \A e \in Events : e.reply \in 0..replies
    BY DEF Events, WireInv, WireTypes
  <1>2. \A i \in 1..Len(down) : down[i] \in Events
    BY DEF WireInv, WireTypes
  <1> QED
    BY <1>1, <1>2 DEF WireInv, WireTypes

(* Nothing is on the wire, or nothing but the greeting. *)
LEMMA FreshWire ==
    ASSUME NEW a
    PROVE  /\ InOrder(<<>>, a)
           /\ \A e : e.type # "reply" /\ e.type \notin Content => InOrder(<<e>>, a)
  BY DEF InOrder

(* The actions of the page that take nothing from the wire. *)
LEMMA PageKeepsWire ==
    ASSUME LatestInv, UNCHANGED <<down, announced, serving, replies>>, ws' = ws \/ ws = "none"
    PROVE  WireOrder'
  <1>1. ws # "open" => serving = Idle
    BY DEF LatestInv, WireOrder
  <1> QED
    BY <1>1 DEF LatestInv, WireOrder, Idle

LEMMA PageLatest ==
    ASSUME LatestInv,
           \/ StartCall \/ MicOpens \/ MicRefused \/ StartListening \/ EndListening \/ AskRepeat
           \/ DecodeEnds \/ TrackEnds
    PROVE  WireOrder' /\ OnlyTheLatestReply'
  <1>1. /\ UNCHANGED <<down, announced, serving, replies>>
        /\ ws' = ws \/ ws = "none"
    BY DEF StartCall, MicOpens, MicRefused, StartListening, EndListening, AskRepeat, DecodeEnds,
           TrackEnds, serverVars, LatestInv, CallInv, PageInv, Phase
  <1>2. WireOrder'
    BY <1>1, PageKeepsWire
  <1>3. CASE StartCall \/ StartListening \/ AskRepeat
    <2>1. Silenced /\ (lastTurn' = <<>> \/ lastTurn' = lastTurn)
      BY <1>3 DEF StartCall, StartListening, AskRepeat, Reset, Stop, Replay
    <2> QED
      BY <1>1, <1>2, <2>1, StopsForget DEF LatestInv, CallInv
  <1>4. CASE MicOpens \/ MicRefused \/ EndListening \/ TrackEnds
    <2>1. UNCHANGED <<generation, chunks, decoding, lastTurn>>
      BY <1>4 DEF MicOpens, MicRefused, EndListening, TrackEnds, SourceEnds, playerVars
    <2> QED
      BY <1>1, <1>2, <2>1, PlayerKeeps DEF LatestInv
  <1>5. CASE DecodeEnds
    BY <1>1, <1>2, <1>5, DecodesKeep DEF DecodeEnds, LatestInv, CallInv
  <1> QED
    BY <1>3, <1>4, <1>5

LEMMA LinkLatest ==
    ASSUME LatestInv, SocketOpens \/ SocketCloses \/ StopCall
    PROVE  WireOrder' /\ OnlyTheLatestReply'
  <1>1. CASE SocketOpens
    <2>1. /\ down' = <<[type |-> "ready", reply |-> replies]>> /\ announced' = announced
          /\ serving' = Idle
      BY <1>1 DEF SocketOpens, serverVars, LatestInv, WireOrder
    <2>2. WireOrder'
      BY <2>1, FreshWire DEF Content, WireOrder, Idle
    <2>3. OnlyTheLatestReply'
      BY <1>1, PlayerKeeps DEF SocketOpens, playerVars, LatestInv
    <2> QED
      BY <2>2, <2>3
  <1>2. CASE SocketCloses \/ StopCall
    <2>1. /\ down' = <<>> /\ announced' = announced /\ serving' = Idle
          /\ Silenced /\ lastTurn' = lastTurn
      BY <1>2 DEF SocketCloses, StopCall, Disconnect, Stop
    <2>2. WireOrder'
      BY <2>1, FreshWire DEF WireOrder, Idle
    <2>3. OnlyTheLatestReply'
      BY <2>1, StopsForget DEF LatestInv, CallInv
    <2> QED
      BY <2>2, <2>3
  <1> QED
    BY <1>1, <1>2

LEMMA ReceiveLatest ==
    ASSUME LatestInv, Receive
    PROVE  WireOrder' /\ OnlyTheLatestReply'
  <1> DEFINE known == IF Head(down).type = "reply" THEN Head(down).reply ELSE announced
  <1>1. /\ ws' = ws /\ ws = "open" /\ UNCHANGED <<serving, replies>>
        /\ down # <<>> /\ down' = Tail(down)
    BY DEF Receive, Incoming, OnReady, OnReply, OnAudioTrack, OnFrame, OnAudioEnd, OnBargeIn,
           OnError, serverVars
  <1>2. announced' = known
    BY DEF Receive, Incoming, OnReady, OnReply, OnAudioTrack, OnFrame, OnAudioEnd, OnBargeIn,
           OnError
  <1>3. /\ down \in Seq(Events) /\ InOrder(down, announced)
        /\ announced \in Nat /\ replies \in Nat /\ announced <= replies
        /\ \A i \in 1..Len(down) : down[i].reply \in Nat /\ down[i].reply <= replies
    BY EventReplies DEF LatestInv, CallInv, WireInv, WireTypes, WireOrder
  <1>4. /\ InOrder(down', announced')
        /\ Head(down).type \in Content => Head(down).reply = announced
        /\ \A r : Tells(down, announced, r) /\ r # announced => Tells(down', announced', r)
        /\ announced' = announced =>
              \A r : Tells(down, announced, r) => Tells(down', announced', r)
    <2> HIDE DEF known
    <2>1. known = IF Head(down).type = "reply" THEN Head(down).reply ELSE announced
      BY DEF known
    <2> QED
      BY <1>1, <1>2, <1>3, <2>1, TailInOrder
  <1>5. ASSUME Tells(down, announced, replies) PROVE Tells(down', announced', replies)
    <2>1. CASE Head(down).type = "reply"
      <3>1. 1 \in 1..Len(down) /\ Head(down) = down[1]
        BY <1>1, <1>3
      <3>2. announced < down[1].reply /\ down[1].reply <= replies /\ down[1].reply \in Nat
        BY <1>3, <2>1, <3>1 DEF InOrder
      <3>3. replies # announced
        BY <1>3, <3>2
      <3> QED
        BY <1>4, <1>5, <3>3
    <2>2. CASE Head(down).type # "reply"
      BY <1>2, <1>4, <1>5, <2>2
    <2> QED
      BY <2>1, <2>2
  <1>6. WireOrder'
    BY <1>1, <1>4, <1>5 DEF LatestInv, WireOrder
  <1>7. CASE OnReply \/ OnBargeIn
    <2>1. Silenced /\ (lastTurn' = <<>> \/ (lastTurn' = lastTurn /\ announced' = announced))
      BY <1>7 DEF OnReply, OnBargeIn, BeginTurn, Stop
    <2> QED
      BY <1>6, <2>1, StopsForget DEF LatestInv, CallInv
  <1>8. CASE OnReady \/ OnError
    BY <1>6, <1>8, PlayerKeeps DEF OnReady, OnError, playerVars, LatestInv
  <1>9. CASE OnAudioTrack \/ OnAudioEnd
    <2>1. FlushTrack /\ UNCHANGED <<generation, lastTurn, announced>>
      BY <1>9 DEF OnAudioTrack, OnAudioEnd, MarkTrack, EndTurn
    <2> QED
      BY <1>6, <2>1, FlushKeeps DEF LatestInv, CallInv
  <1>10. CASE OnFrame
    <2> DEFINE chunk == [reply |-> Head(down).reply, track |-> Head(down).track,
                         part |-> Head(down).part]
    <2>1. Push(chunk) /\ announced' = announced /\ chunk.reply = announced
      BY <1>4, <1>10 DEF Content, OnFrame, Incoming
    <2> HIDE DEF chunk
    <2> QED
      BY <1>6, <2>1, PushKeeps DEF LatestInv, CallInv
  <1> QED
    BY <1>7, <1>8, <1>9, <1>10 DEF Receive

LEMMA GatewayLatest ==
    ASSUME LatestInv, Gateway
    PROVE  WireOrder' /\ OnlyTheLatestReply'
  <1>1. ws' = ws /\ ws = "open" /\ announced' = announced /\ UNCHANGED playerVars
    BY DEF Gateway, clientVars
  <1>2. /\ down \in Seq(Events) /\ InOrder(down, announced)
        /\ announced \in Nat /\ replies \in Nat /\ announced <= replies
        /\ \A i \in 1..Len(down) : down[i].reply \in Nat /\ down[i].reply <= replies
    BY EventReplies DEF LatestInv, CallInv, WireInv, WireTypes, WireOrder
  <1>3. serving.stage \in {"synthesis", "frames"} => Tells(down, announced, replies)
    BY DEF LatestInv, WireOrder
  <1>4. OnlyTheLatestReply'
    BY <1>1, PlayerKeeps DEF playerVars, LatestInv
  <1>5. SUFFICES /\ InOrder(down', announced)
                 /\ serving'.stage \in {"synthesis", "frames"} => Tells(down', announced, replies')
    BY <1>1, <1>4 DEF WireOrder
  <1>6. CASE GatewayHears \/ GatewayTakes \/ GatewayDropsTurn
    <2>1. /\ UNCHANGED <<down, replies>>
          /\ serving' = serving \/ serving'.stage \notin {"synthesis", "frames"}
      BY <1>6 DEF GatewayHears, GatewayTakes, GatewayDropsTurn, Idle
    <2> QED
      BY <1>2, <1>3, <2>1
  <1>7. CASE GatewayReplies
    <2>1. replies' = replies + 1
      BY <1>7 DEF GatewayReplies
    <2>2. PICK n \in 0..MaxTracks :
            LET reply == [type |-> "reply", reply |-> replies', tracks |-> n]
            IN  IF n = 0
                THEN /\ down' = Append(Append(down, reply), [AudioEnd EXCEPT !.reply = replies'])
                     /\ serving' = Idle
                ELSE /\ Emit(reply)
                     /\ serving' = [stage |-> "synthesis", tracks |-> n, track |-> 1, part |-> 1]
      BY <1>7 DEF GatewayReplies
    <2> DEFINE reply == [type |-> "reply", reply |-> replies', tracks |-> n]
               end == [AudioEnd EXCEPT !.reply = replies']
               more == Append(down, reply)
    <2>3. reply.type = "reply" /\ reply.reply = replies' /\ end.type = "audio_end"
      BY DEF AudioEnd
    <2>4. \/ down' = Append(more, end) /\ serving' = Idle
          \/ down' = more
      BY <2>2 DEF Emit
    <2>5. down \in Seq(Events \cup {reply})
      BY <1>2
    <2>6. more \in Seq(Events \cup {reply})
      BY <2>5
    <2>7. \A j \in 1..Len(down) : down[j].type = "reply" => down[j].reply < reply.reply
      BY <1>2, <2>1, <2>3
    <2>8. announced < reply.reply
      <3> HIDE DEF reply
      <3>1. announced < replies'
        BY <1>2, <2>1
      <3> QED
        BY <2>3, <3>1
    <2>9. /\ InOrder(more, announced) /\ Tells(more, announced, replies')
          /\ \A j \in 1..Len(more) : more[j].type = "reply" => more[j].reply <= replies'
      <3> HIDE DEF reply
      <3>1. \A j \in 1..Len(more) : (j \in 1..Len(down) /\ more[j] = down[j]) \/ more[j] = reply
        BY <1>2
      <3> QED
        BY <1>2, <2>1, <2>3, <2>7, <2>8, <3>1, AppendReply
    <2>a. end.type \in Content /\ end.reply = replies'
      BY DEF AudioEnd, Content
    <2> HIDE DEF more, end, reply
    <2>10. InOrder(Append(more, end), announced)
      BY <2>6, <2>9, <2>a, AppendContent
    <2>11. CASE down' = Append(more, end) /\ serving' = Idle
      BY <2>10, <2>11 DEF Idle
    <2>12. CASE down' = more
      BY <2>9, <2>12
    <2> QED
      BY <2>4, <2>11, <2>12
  <1>8. CASE GatewayCannotSpeak \/ GatewaySpeaks \/ GatewayCutsShort
    <2>1. /\ serving.stage \in {"synthesis", "frames"} /\ replies' = replies
          /\ \/ down' = down
             \/ \E e : e.type # "reply" /\ e.type \notin Content /\ down' = Append(down, e)
             \/ \E e : e.type \in Content /\ e.reply = replies /\ down' = Append(down, e)
      <3>1. CASE GatewayCannotSpeak
        BY <3>1 DEF GatewayCannotSpeak, Emit, Content
      <3>2. CASE GatewaySpeaks
        BY <3>2 DEF GatewaySpeaks, Emit, Content
      <3>3. CASE GatewayCutsShort
        BY <3>3 DEF GatewayCutsShort, Emit, Content
      <3> QED
        BY <1>8, <3>1, <3>2, <3>3
    <2> QED
      BY <1>2, <1>3, <2>1, AppendOther, AppendContent
  <1>9. CASE GatewaySendsFrame
    <2> DEFINE frame == [type |-> "frame", reply |-> replies, track |-> serving.track,
                         part |-> serving.part]
               more == Append(down, frame)
               end == AudioEnd
    <2>1. /\ serving.stage \in {"synthesis", "frames"} /\ replies' = replies
          /\ \/ down' = Append(more, end)
             \/ down' = more
      BY <1>9 DEF GatewaySendsFrame, Emit
    <2>2. /\ frame.type \in Content /\ frame.type # "reply" /\ frame.reply = replies
          /\ end.type \in Content /\ end.reply = replies
      BY DEF AudioEnd, Content
    <2>3. more \in Seq(Events \cup {frame})
      BY <1>2
    <2>4. /\ InOrder(more, announced) /\ Tells(more, announced, replies)
          /\ \A j \in 1..Len(more) : more[j].type = "reply" => more[j].reply <= replies
      <3> HIDE DEF frame
      <3>1. \A j \in 1..Len(more) : (j \in 1..Len(down) /\ more[j] = down[j]) \/ more[j] = frame
        BY <1>2
      <3> QED
        BY <1>2, <1>3, <2>1, <2>2, <3>1, AppendContent
    <2> HIDE DEF more, frame, end
    <2>5. InOrder(Append(more, end), announced) /\ Tells(Append(more, end), announced, replies)
      BY <2>2, <2>3, <2>4, AppendContent
    <2> QED
      BY <2>1, <2>4, <2>5
  <1> QED
    BY <1>6, <1>7, <1>8, <1>9 DEF Gateway

LEMMA LatestInit == ASSUME Init PROVE LatestInv
  <1>1. WireOrder
    BY FreshWire DEF Init, WireOrder, Idle
  <1>2. OnlyTheLatestReply
    BY DEF Init, PlayerInit, OnlyTheLatestReply
  <1> QED
    BY <1>1, <1>2, CallInit DEF LatestInv

LEMMA LatestStep == ASSUME LatestInv, [Next]_vars PROVE LatestInv'
  <1>1. CallInv'
    BY CallStep DEF LatestInv
  <1>2. CASE UNCHANGED vars
    <2>1. WireOrder'
      BY <1>2, PageKeepsWire DEF vars, clientVars, serverVars
    <2>2. OnlyTheLatestReply'
      BY <1>2, PlayerKeeps DEF vars, clientVars, playerVars, LatestInv
    <2> QED
      BY <1>1, <2>1, <2>2 DEF LatestInv
  <1> QED
    BY <1>1, <1>2, PageLatest, LinkLatest, ReceiveLatest, GatewayLatest DEF Next, LatestInv

(* Nothing of an older reply is heard or kept once the page knows of a newer    *)
(* one (player.ts:55-62, 139-142), however many replies, stops, decodes and    *)
(* connections come between: the wire keeps its order, and a job of an older   *)
(* reply is of an older generation.                                           *)
THEOREM LatestHolds == Spec => []OnlyTheLatestReply
  <1>1. LatestInv => OnlyTheLatestReply
    BY DEF LatestInv
  <1> QED
    BY <1>1, LatestInit, LatestStep, PTL DEF Spec
-----------------------------------------------------------------------------
(* What is heard and kept is the reply's tracks in their order.  A track goes   *)
(* from the wire to the frames that are collected, to the decoder, to the kept  *)
(* reply and to the queue; it is finished once the player has all its frames.   *)

Voice == {"audio_track", "frame"}

Wanted == {i \in 1..Len(decoding) : decoding[i].gen = generation}
Finished == {lastTurn[i].track : i \in 1..Len(lastTurn)}
            \cup {decoding[i].first.track : i \in Wanted}

(* The first line of PlaysTheKeptReply, track by track. *)
Follows(playing, waiting, kept) ==
    /\ Len(waiting) + (IF playing = Silence THEN 0 ELSE 1) <= Len(kept)
    /\ \A i \in 1..Len(waiting) : waiting[i] = kept[Len(kept) - Len(waiting) + i]
    /\ playing # Silence => playing = kept[Len(kept) - Len(waiting)]

Named ==
    /\ \A i \in 1..Len(lastTurn) : lastTurn[i].variant = lastTurn[i].track
    /\ \A i \in Wanted : decoding[i].variant = decoding[i].first.track
    /\ \A i \in 1..Len(chunks) : chunks[i].track = variant

Ascending ==
    /\ \A i, j \in 1..Len(lastTurn) : i < j => lastTurn[i].track < lastTurn[j].track
    /\ \A i \in 1..Len(lastTurn), j \in Wanted : lastTurn[i].track < decoding[j].first.track
    /\ \A i, j \in Wanted : i < j => decoding[i].first.track < decoding[j].first.track

(* The track that is collected has not been finished before. *)
Behind == \A t \in Finished : t <= variant /\ (chunks # <<>> => t < variant)

TracksInv == Follows(source, queue, lastTurn) /\ Named /\ Ascending /\ Behind

LEMMA PlayNextFollows ==
    ASSUME replies \in Nat, NEW playing \in Tracks \cup {Silence}, NEW waiting \in Seq(Tracks),
           NEW kept \in Seq(Tracks), Follows(playing, waiting, kept), PlayNext(playing, waiting)
    PROVE  Follows(source', queue', kept)
  <1>1. CASE playing # Silence \/ waiting = <<>>
    BY <1>1 DEF PlayNext, Follows
  <1>2. CASE playing = Silence /\ waiting # <<>>
    <2>1. /\ source' = waiting[1] /\ Len(waiting) \in Nat \ {0} /\ Len(queue') = Len(waiting) - 1
          /\ \A i \in 1..Len(queue') : queue'[i] = waiting[i + 1] /\ i + 1 \in 1..Len(waiting)
          /\ 1 \in 1..Len(waiting) /\ Len(kept) \in Nat /\ Len(waiting) <= Len(kept)
      <3>1. source' = Head(waiting) /\ queue' = Tail(waiting)
        BY <1>2 DEF PlayNext
      <3>2. Len(waiting) <= Len(kept)
        BY <1>2 DEF Follows
      <3> QED
        BY <1>2, <3>1, <3>2
    <2>2. source' = kept[Len(kept) - Len(queue')]
      <3>1. Len(kept) - Len(waiting) + 1 = Len(kept) - Len(queue')
        BY <2>1
      <3> QED
        BY <2>1, <3>1 DEF Follows
    <2>3. \A i \in 1..Len(queue') : queue'[i] = kept[Len(kept) - Len(queue') + i]
      <3> TAKE i \in 1..Len(queue')
      <3>1. Len(kept) - Len(waiting) + (i + 1) = Len(kept) - Len(queue') + i
        BY <2>1
      <3> QED
        BY <2>1, <3>1 DEF Follows
    <2> QED
      BY <2>1, <2>2, <2>3 DEF Follows
  <1> QED
    BY <1>1, <1>2

LEMMA LaterFollows ==
    ASSUME NEW playing, NEW waiting \in Seq(Tracks), NEW kept \in Seq(Tracks), NEW track,
           Follows(playing, waiting, kept)
    PROVE  Follows(playing, Append(waiting, track), Append(kept, track))
  <1> DEFINE w == Append(waiting, track)
             k == Append(kept, track)
  <1>1. /\ Len(waiting) \in Nat /\ Len(kept) \in Nat
        /\ Len(w) = Len(waiting) + 1 /\ Len(k) = Len(kept) + 1
        /\ w[Len(w)] = track /\ k[Len(k)] = track
        /\ \A i \in 1..Len(waiting) : w[i] = waiting[i]
        /\ \A i \in 1..Len(kept) : k[i] = kept[i]
    OBVIOUS
  <1> HIDE DEF w, k
  <1>2. Len(waiting) <= Len(kept) /\ Len(k) - Len(w) = Len(kept) - Len(waiting)
    BY <1>1 DEF Follows
  <1>3. \A i \in 1..Len(w) : w[i] = k[Len(k) - Len(w) + i]
    <2> TAKE i \in 1..Len(w)
    <2>1. CASE i = Len(w)
      BY <1>1, <1>2, <2>1
    <2>2. CASE i # Len(w)
      <3>1. i \in 1..Len(waiting) /\ Len(kept) - Len(waiting) + i \in 1..Len(kept)
        BY <1>1, <1>2, <2>2
      <3> QED
        BY <1>1, <1>2, <3>1 DEF Follows
    <2> QED
      BY <2>1, <2>2
  <1>4. playing # Silence => playing = k[Len(k) - Len(w)]
    <2> SUFFICES ASSUME playing # Silence PROVE playing = k[Len(k) - Len(w)]
      OBVIOUS
    <2>1. Len(kept) - Len(waiting) \in 1..Len(kept)
      BY <1>1 DEF Follows
    <2> QED
      BY <1>1, <1>2, <2>1 DEF Follows
  <1>5. Len(w) + (IF playing = Silence THEN 0 ELSE 1) <= Len(k)
    BY <1>1 DEF Follows
  <1> QED
    BY <1>3, <1>4, <1>5 DEF Follows, w, k

(* Stops finish nothing. *)
LEMMA StopsOrder ==
    ASSUME PlayerInv, TracksInv, Silenced, \/ lastTurn' = <<>>
                                           \/ lastTurn' = lastTurn /\ variant' = variant,
           Follows(source', queue', lastTurn')
    PROVE  TracksInv' /\ Finished' \subseteq Finished
  <1>1. \A i \in 1..Len(decoding) : decoding[i].gen \in Nat /\ decoding[i].gen <= generation
    BY JobsAreOld DEF PlayerInv
  <1>2. generation \in Nat /\ generation' = generation + 1 /\ decoding' = decoding
        /\ chunks' = <<>>
    BY DEF Silenced, PlayerInv, PlayerTypes
  <1>3. Wanted' = {}
    BY <1>1, <1>2 DEF Wanted
  <1>4. CASE lastTurn' = <<>>
    BY <1>2, <1>3, <1>4 DEF TracksInv, Named, Ascending, Behind, Finished
  <1>5. CASE lastTurn' = lastTurn /\ variant' = variant
    BY <1>2, <1>3, <1>5 DEF TracksInv, Named, Ascending, Behind, Finished
  <1> QED
    BY <1>4, <1>5

LEMMA PushOrder ==
    ASSUME PlayerInv, TracksInv, NEW chunk, chunk.track = variant, Push(chunk),
           \A t \in Finished : t < variant
    PROVE  TracksInv' /\ Finished' = Finished
  <1>1. \A i \in 1..Len(chunks') :
           (i \in 1..Len(chunks) /\ chunks'[i] = chunks[i]) \/ chunks'[i] = chunk
    BY DEF PlayerInv, PlayerTypes, Push
  <1>2. UNCHANGED <<variant, lastTurn, decoding, generation, source, queue>>
    BY DEF Push
  <1>3. Wanted' = Wanted /\ Finished' = Finished
    BY <1>2 DEF Wanted, Finished
  <1>4. \A t \in Finished : t <= variant
    BY DEF TracksInv, Behind
  <1> QED
    BY <1>1, <1>2, <1>3, <1>4 DEF TracksInv, Named, Ascending, Behind, Follows

LEMMA FinishedTracks ==
    ASSUME PlayerInv
    PROVE  variant \in Nat /\ \A t \in Finished : t \in Nat
  <1>1. /\ \A i \in 1..Len(lastTurn) : lastTurn[i] \in Tracks
        /\ \A i \in 1..Len(decoding) : decoding[i] \in Jobs
    <2>1. \A i \in 1..Len(lastTurn) : lastTurn[i] \in Tracks
      BY DEF PlayerInv, PlayerTypes
    <2> QED
      BY <2>1, JobsAreOld DEF PlayerInv
  <1>2. (\A x \in Tracks : x.track \in Nat) /\ \A x \in Jobs : x.first.track \in Nat
    BY DEF Tracks, Jobs, Frames
  <1>3. \A t \in Finished : \/ \E i \in 1..Len(lastTurn) : t = lastTurn[i].track
                            \/ \E i \in 1..Len(decoding) : t = decoding[i].first.track
    BY DEF Finished, Wanted
  <1>4. variant \in Nat
    BY DEF PlayerInv, PlayerTypes
  <1> QED
    BY <1>1, <1>2, <1>3, <1>4

(* The track that was collected is finished, and the next one comes after it. *)
LEMMA FlushOrder ==
    ASSUME PlayerInv, TracksInv, FlushTrack, UNCHANGED <<generation, queue, source, lastTurn>>,
           variant' \in Nat, variant <= variant'
    PROVE  /\ TracksInv' /\ chunks' = <<>>
           /\ Finished' = IF chunks = <<>> THEN Finished ELSE Finished \cup {variant}
  <1>1. chunks' = <<>> /\ variant \in Nat /\ \A t \in Finished : t <= variant
    BY DEF FlushTrack, PlayerInv, PlayerTypes, TracksInv, Behind
  <1>2. \A t \in Finished : t \in Nat
    BY FinishedTracks
  <1>3. CASE chunks = <<>>
    <2>1. decoding' = decoding
      BY <1>3 DEF FlushTrack
    <2>2. Wanted' = Wanted /\ Finished' = Finished
      BY <2>1 DEF Wanted, Finished
    <2>3. Behind'
      BY <1>1, <1>2, <2>2 DEF Behind
    <2> QED
      BY <1>1, <1>3, <2>1, <2>2, <2>3 DEF TracksInv, Named, Ascending, Follows
  <1>4. CASE chunks # <<>>
    <2> DEFINE job == [gen |-> generation, variant |-> variant, first |-> Head(chunks)]
    <2>1. chunks[1] = Head(chunks) /\ 1 \in 1..Len(chunks)
      BY <1>4 DEF PlayerInv, PlayerTypes
    <2>2. job.gen = generation /\ job.variant = variant /\ job.first.track = variant
      BY <2>1 DEF TracksInv, Named
    <2>3. decoding' = Append(decoding, job) /\ decoding \in Seq(Jobs)
      BY <1>4 DEF FlushTrack, PlayerInv, PlayerTypes, Jobs
    <2> HIDE DEF job
    <2>4. /\ Len(decoding) \in Nat /\ Len(decoding') = Len(decoding) + 1
          /\ decoding'[Len(decoding) + 1] = job
          /\ \A i \in 1..Len(decoding) : decoding'[i] = decoding[i]
      BY <2>3
    <2>5. /\ Wanted' = Wanted \cup {Len(decoding) + 1} /\ Wanted \subseteq 1..Len(decoding)
          /\ \A i \in Wanted : decoding'[i] = decoding[i]
      BY <2>2, <2>4 DEF Wanted
    <2>6. Finished' = Finished \cup {variant}
      BY <2>2, <2>4, <2>5 DEF Finished
    <2>7. Behind'
      BY <1>1, <1>2, <2>6 DEF Behind
    <2>8. Named'
      BY <1>1, <2>2, <2>4, <2>5 DEF TracksInv, Named
    <2>9. Ascending'
      <3>1. \A t \in Finished : t < variant
        BY <1>4 DEF TracksInv, Behind
      <3>2. \A i \in 1..Len(lastTurn) : lastTurn[i].track < variant
        BY <3>1 DEF Finished
      <3>3. \A i \in Wanted : decoding[i].first.track < variant
        BY <3>1 DEF Finished
      <3>4. \A i \in Wanted : ~(Len(decoding) + 1 < i)
        BY <2>4, <2>5
      <3>5. ~(Len(decoding) + 1 < Len(decoding) + 1)
        BY <2>4
      <3> QED
        BY <2>2, <2>4, <2>5, <3>2, <3>3, <3>4, <3>5 DEF TracksInv, Ascending
    <2> QED
      BY <1>1, <1>4, <2>6, <2>7, <2>8, <2>9 DEF TracksInv, Follows
  <1> QED
    BY <1>3, <1>4

(* A decode moves its track from the chain to the kept reply, or loses it. *)
LEMMA DecodeOrder ==
    ASSUME PlayerInv, TracksInv, replies \in Nat, DecodeStale \/ DecodeFails \/ Decoded
    PROVE  TracksInv' /\ Finished' \subseteq Finished /\ UNCHANGED <<variant, chunks>>
  <1>1. decoding # <<>> /\ decoding' = Tail(decoding) /\ UNCHANGED <<generation, variant, chunks>>
    BY DEF DecodeStale, DecodeFails, Decoded
  <1>2. /\ Len(decoding) \in Nat \ {0} /\ Len(decoding') = Len(decoding) - 1
        /\ \A i \in 1..Len(decoding') : i + 1 \in 1..Len(decoding)
                                       /\ decoding'[i] = decoding[i + 1]
        /\ Head(decoding) = decoding[1] /\ 1 \in 1..Len(decoding)
    BY <1>1 DEF PlayerInv, PlayerTypes
  <1>3. /\ Wanted' \subseteq 1..Len(decoding')
        /\ \A i \in Wanted' : i + 1 \in Wanted /\ 1 < i + 1 /\ decoding'[i] = decoding[i + 1]
    BY <1>1, <1>2 DEF Wanted
  <1>4. /\ \A i \in Wanted' : decoding'[i].variant = decoding'[i].first.track
        /\ \A i \in 1..Len(lastTurn), j \in Wanted' :
              lastTurn[i].track < decoding'[j].first.track
        /\ \A i, j \in Wanted' : i < j => decoding'[i].first.track < decoding'[j].first.track
    <2>1. /\ \A i \in Wanted' : decoding'[i].variant = decoding'[i].first.track
          /\ \A i \in 1..Len(lastTurn), j \in Wanted' :
                lastTurn[i].track < decoding'[j].first.track
      BY <1>3 DEF TracksInv, Named, Ascending
    <2>2. ASSUME NEW i \in Wanted', NEW j \in Wanted', i < j
          PROVE  decoding'[i].first.track < decoding'[j].first.track
      <3>1. i + 1 < j + 1
        BY <1>2, <1>3, <2>2
      <3> QED
        BY <1>3, <3>1 DEF TracksInv, Ascending
    <2> QED
      BY <2>1, <2>2
  <1>5. CASE DecodeStale \/ DecodeFails
    <2>1. UNCHANGED <<queue, source, lastTurn>>
      BY <1>5 DEF DecodeStale, DecodeFails
    <2>2. Finished' \subseteq Finished
      BY <1>3, <2>1 DEF Finished
    <2> QED
      BY <1>1, <1>4, <2>1, <2>2 DEF TracksInv, Named, Ascending, Behind, Follows
  <1>6. CASE Decoded
    <2> DEFINE job == Head(decoding)
               track == [variant |-> job.variant, reply |-> job.first.reply,
                         track |-> job.first.track]
    <2>1. job.gen = generation /\ 1 \in Wanted /\ job = decoding[1]
      BY <1>2, <1>6 DEF Decoded, Wanted
    <2>2. job \in Jobs
      BY <1>2, JobsAreOld DEF PlayerInv
    <2>3. track \in Tracks /\ track.track = job.first.track /\ track.variant = track.track
      BY <2>1, <2>2 DEF Tracks, Frames, Jobs, TracksInv, Named
    <2>4. /\ lastTurn' = Append(lastTurn, track) /\ PlayNext(source, Append(queue, track))
          /\ queue \in Seq(Tracks) /\ lastTurn \in Seq(Tracks) /\ source \in Tracks \cup {Silence}
      BY <1>6 DEF Decoded, PlayerInv, PlayerTypes
    <2> HIDE DEF track, job
    <2>5. Follows(source', queue', lastTurn')
      <3>1. Follows(source, Append(queue, track), lastTurn')
        BY <2>4, LaterFollows DEF TracksInv
      <3>2. Append(queue, track) \in Seq(Tracks) /\ lastTurn' \in Seq(Tracks)
        BY <2>3, <2>4
      <3> QED
        BY <2>4, <3>1, <3>2, PlayNextFollows
    <2>6. /\ Len(lastTurn) \in Nat /\ Len(lastTurn') = Len(lastTurn) + 1
          /\ lastTurn'[Len(lastTurn) + 1] = track
          /\ \A i \in 1..Len(lastTurn) : lastTurn'[i] = lastTurn[i]
      BY <2>4
    <2>7. \A i \in 1..Len(lastTurn') : i \in 1..Len(lastTurn) \/ i = Len(lastTurn) + 1
      BY <2>6
    <2>8. Named'
      BY <1>1, <1>4, <2>3, <2>6, <2>7 DEF TracksInv, Named
    <2>9. \A i \in Wanted' : track.track < decoding'[i].first.track
      BY <1>3, <2>1, <2>3 DEF TracksInv, Ascending
    <2>10. \A i \in 1..Len(lastTurn) : lastTurn[i].track < track.track
      BY <2>1, <2>3 DEF TracksInv, Ascending
    <2>11. Ascending'
      <3>1. \A i \in 1..Len(lastTurn) : ~(Len(lastTurn) + 1 < i)
        BY <2>6
      <3>2. ~(Len(lastTurn) + 1 < Len(lastTurn) + 1)
        BY <2>6
      <3>3. \A i, j \in 1..Len(lastTurn') : i < j => lastTurn'[i].track < lastTurn'[j].track
        BY <2>6, <2>7, <2>10, <3>1, <3>2 DEF TracksInv, Ascending
      <3>4. \A i \in 1..Len(lastTurn'), j \in Wanted' :
               lastTurn'[i].track < decoding'[j].first.track
        BY <1>4, <2>6, <2>7, <2>9
      <3> QED
        BY <1>4, <3>3, <3>4 DEF Ascending
    <2>12. Finished' \subseteq Finished
      BY <1>3, <2>1, <2>3, <2>6, <2>7 DEF Finished
    <2>13. Behind'
      BY <1>1, <2>12 DEF TracksInv, Behind
    <2> QED
      BY <1>1, <2>5, <2>8, <2>11, <2>12, <2>13 DEF TracksInv
  <1> QED
    BY <1>5, <1>6

LEMMA SourceEndsOrder ==
    ASSUME PlayerInv, TracksInv, replies \in Nat, SourceEnds
    PROVE  TracksInv' /\ Finished' = Finished
  <1>1. UNCHANGED <<generation, variant, chunks, decoding, lastTurn>> /\ PlayNext(Silence, queue)
    BY DEF SourceEnds
  <1>2. queue \in Seq(Tracks) /\ lastTurn \in Seq(Tracks)
    BY DEF PlayerInv, PlayerTypes
  <1>3. Follows(Silence, queue, lastTurn)
    BY <1>2 DEF TracksInv, Follows
  <1>4. Follows(source', queue', lastTurn')
    BY <1>1, <1>2, <1>3, PlayNextFollows
  <1>5. Wanted' = Wanted /\ Finished' = Finished
    BY <1>1 DEF Wanted, Finished
  <1> QED
    BY <1>1, <1>4, <1>5 DEF TracksInv, Named, Ascending, Behind

LEMMA ReplayOrder ==
    ASSUME PlayerInv, TracksInv, replies \in Nat, Replay
    PROVE  TracksInv' /\ Finished' \subseteq Finished
  <1>1. lastTurn \in Seq(Tracks) /\ Silenced /\ UNCHANGED <<variant, lastTurn>>
        /\ PlayNext(Silence, lastTurn)
    BY DEF PlayerInv, PlayerTypes, Replay
  <1>2. Follows(Silence, lastTurn, lastTurn)
    BY <1>1 DEF Follows
  <1>3. Follows(source', queue', lastTurn')
    BY <1>1, <1>2, PlayNextFollows
  <1> QED
    BY <1>1, <1>3, StopsOrder

(* What the invariant says of the player is what is claimed of it. *)
LEMMA OrderIsKept ==
    ASSUME PlayerTypes, TracksInv
    PROVE  PlaysTheKeptReply
  <1>1. /\ queue \in Seq(Tracks) /\ lastTurn \in Seq(Tracks)
        /\ Len(queue) \in Nat /\ Len(lastTurn) \in Nat /\ Len(queue) <= Len(lastTurn)
    BY DEF PlayerTypes, TracksInv, Follows
  <1> DEFINE end == SubSeq(lastTurn, Len(lastTurn) - Len(queue) + 1, Len(lastTurn))
  <1>2. /\ end \in Seq(Tracks) /\ Len(end) = Len(queue)
        /\ \A i \in 1..Len(queue) : end[i] = lastTurn[Len(lastTurn) - Len(queue) + i]
    BY <1>1
  <1>3. \A i \in 1..Len(queue) : queue[i] = end[i]
    BY <1>2 DEF TracksInv, Follows
  <1> HIDE DEF end
  <1>4. queue = end
    BY <1>1, <1>2, <1>3
  <1>5. \A i \in 1..Len(lastTurn) :
           /\ lastTurn[i].variant = lastTurn[i].track
           /\ \A j \in 1..(i-1) : lastTurn[j].track < lastTurn[i].track
    <2>1. \A i \in 1..Len(lastTurn) : \A j \in 1..(i-1) : j \in 1..Len(lastTurn) /\ j < i
      BY <1>1
    <2> QED
      BY <2>1 DEF TracksInv, Named, Ascending
  <1> QED
    BY <1>4, <1>5 DEF PlaysTheKeptReply, TracksInv, Follows, end
-----------------------------------------------------------------------------
(* The wire.  The tracks of one reply are announced and sent in their order,   *)
(* and nothing of a reply is sent after its end.                              *)
Sorted(d) ==
    /\ \A i, j \in 1..Len(d) :
          i < j /\ d[i].type \in Voice /\ d[j].type \in Voice /\ d[i].reply = d[j].reply =>
             /\ d[i].track <= d[j].track
             /\ d[j].type = "audio_track" => d[i].track < d[j].track
    /\ \A i, j \in 1..Len(d) :
          i < j /\ d[i].type = "audio_end" /\ d[j].type \in Voice => d[i].reply # d[j].reply

(* By the time event i of the wire is taken, the player takes frames of reply r *)
(* for track t: it does already, or an event before i makes it.               *)
Told(d, a, v, r, t, i) ==
    \/ r = a /\ t = v
    \/ \E j \in 1..Len(d) :
          j < i /\ d[j].type = "audio_track" /\ d[j].reply = r /\ d[j].track = t
    \/ t = 1 /\ \E j \in 1..Len(d) : j < i /\ d[j].type = "reply" /\ d[j].reply = r

FramesTold(d, a, v) ==
    \A i \in 1..Len(d) : d[i].type = "frame" => Told(d, a, v, d[i].reply, d[i].track, i)

(* What is on the wire comes after what the player has. *)
Beyond(e) ==
    e.type \in Voice /\ e.reply = announced =>
       /\ variant <= e.track
       /\ \A t \in Finished : t < e.track
       /\ e.type = "audio_track" /\ chunks # <<>> => variant < e.track

Ahead == \A i \in 1..Len(down) : Beyond(down[i])

Delivering == serving.stage \in {"synthesis", "frames"}

(* What is still to be sent comes after what is on the wire. *)
SentBefore(e) ==
    e.reply = replies =>
       /\ e.type # "audio_end"
       /\ e.type \in Voice => /\ e.track <= serving.track
                              /\ serving.stage = "synthesis" => e.track < serving.track

PlayedBefore ==
    announced = replies =>
       /\ variant <= serving.track
       /\ \A t \in Finished : t < serving.track
       /\ serving.stage = "synthesis" /\ chunks # <<>> => variant < serving.track

ServingTold ==
    serving.stage = "frames" \/ serving.tracks = 1 =>
       Told(down, announced, variant, replies, serving.track, Len(down) + 1)

ServingAhead ==
    Delivering => (\A i \in 1..Len(down) : SentBefore(down[i])) /\ PlayedBefore /\ ServingTold

WireTracks ==
    Sorted(down) /\ FramesTold(down, announced, variant) /\ Ahead /\ ServingAhead

KeptInv == LatestInv /\ TracksInv /\ WireTracks

LEMMA EventTracks ==
    ASSUME WireInv
    PROVE  \A i \in 1..Len(down) : down[i].type \in Voice => down[i].track \in Nat \ {0}
  <1>1. \A i \in 1..Len(down) : down[i] \in Events
    BY DEF WireInv, WireTypes
  <1>2. \A e \in Events : e.type \in Voice => e.track \in Nat \ {0}
    BY DEF Events, Voice
  <1> QED
    BY <1>1, <1>2

LEMMA AppendSorted ==
    ASSUME NEW S, NEW d \in Seq(S), Sorted(d), NEW e,
           e.type \in Voice =>
              \A i \in 1..Len(d) :
                 d[i].reply = e.reply =>
                    /\ d[i].type # "audio_end"
                    /\ d[i].type \in Voice => /\ d[i].track <= e.track
                                              /\ e.type = "audio_track" => d[i].track < e.track
    PROVE  Sorted(Append(d, e))
  <1> DEFINE x == Append(d, e)
  <1>1. /\ Len(d) \in Nat /\ Len(x) = Len(d) + 1 /\ x[Len(d) + 1] = e
        /\ \A i \in 1..Len(d) : x[i] = d[i]
        /\ \A i, j \in 1..Len(x) :
              i < j => i \in 1..Len(d) /\ (j \in 1..Len(d) \/ j = Len(d) + 1)
    OBVIOUS
  <1> HIDE DEF x
  <1>2. SUFFICES ASSUME NEW i \in 1..Len(x), NEW j \in 1..Len(x), i < j, x[j].type \in Voice,
                        x[i].reply = x[j].reply
                 PROVE  /\ x[i].type # "audio_end"
                        /\ x[i].type \in Voice =>
                             /\ x[i].track <= x[j].track
                             /\ x[j].type = "audio_track" => x[i].track < x[j].track
    BY DEF Sorted, x
  <1>3. CASE j \in 1..Len(d)
    BY <1>1, <1>2, <1>3 DEF Sorted
  <1>4. CASE j = Len(d) + 1
    BY <1>1, <1>2, <1>4
  <1> QED
    BY <1>1, <1>2, <1>3, <1>4

LEMMA TailSorted ==
    ASSUME NEW S, NEW d \in Seq(S), d # <<>>, Sorted(d)
    PROVE  /\ Sorted(Tail(d))
           /\ \A i \in 1..Len(Tail(d)) :
                 Tail(d)[i].type \in Voice /\ Tail(d)[i].reply = Head(d).reply =>
                    /\ Head(d).type # "audio_end"
                    /\ Head(d).type \in Voice =>
                         /\ Head(d).track <= Tail(d)[i].track
                         /\ Tail(d)[i].type = "audio_track" => Head(d).track < Tail(d)[i].track
  <1> DEFINE x == Tail(d)
  <1>1. /\ Len(d) \in Nat \ {0} /\ Len(x) = Len(d) - 1 /\ Head(d) = d[1] /\ 1 \in 1..Len(d)
        /\ \A i \in 1..Len(x) : x[i] = d[i + 1] /\ i + 1 \in 1..Len(d) /\ 1 < i + 1
        /\ \A i, j \in 1..Len(x) : i < j => i + 1 < j + 1
    OBVIOUS
  <1> HIDE DEF x
  <1>2. Sorted(x)
    <2> SUFFICES ASSUME NEW i \in 1..Len(x), NEW j \in 1..Len(x), i < j, x[j].type \in Voice,
                        x[i].reply = x[j].reply
                 PROVE  /\ x[i].type # "audio_end"
                        /\ x[i].type \in Voice =>
                             /\ x[i].track <= x[j].track
                             /\ x[j].type = "audio_track" => x[i].track < x[j].track
      BY DEF Sorted
    <2>1. i + 1 \in 1..Len(d) /\ j + 1 \in 1..Len(d) /\ i + 1 < j + 1 /\ x[i] = d[i + 1]
          /\ x[j] = d[j + 1]
      BY <1>1
    <2> QED
      BY <2>1 DEF Sorted
  <1>3. \A i \in 1..Len(x) :
           x[i].type \in Voice /\ x[i].reply = Head(d).reply =>
              /\ Head(d).type # "audio_end"
              /\ Head(d).type \in Voice =>
                   /\ Head(d).track <= x[i].track
                   /\ x[i].type = "audio_track" => Head(d).track < x[i].track
    <2> TAKE i \in 1..Len(x)
    <2>1. i + 1 \in 1..Len(d) /\ 1 < i + 1 /\ x[i] = d[i + 1]
      BY <1>1
    <2> QED
      BY <1>1, <2>1 DEF Sorted
  <1> QED
    BY <1>2, <1>3 DEF x

LEMMA AppendTold ==
    ASSUME NEW S, NEW d \in Seq(S), NEW e, NEW a, NEW v
    PROVE  /\ \A r, t : \A i \in Nat : Told(d, a, v, r, t, i) => Told(Append(d, e), a, v, r, t, i)
           /\ \A r, t : Told(d, a, v, r, t, Len(d) + 1) =>
                           Told(Append(d, e), a, v, r, t, Len(Append(d, e)) + 1)
           /\ e.type = "audio_track" =>
                 Told(Append(d, e), a, v, e.reply, e.track, Len(Append(d, e)) + 1)
           /\ e.type = "reply" => Told(Append(d, e), a, v, e.reply, 1, Len(Append(d, e)) + 1)
           /\ FramesTold(d, a, v)
              /\ (e.type = "frame" => Told(d, a, v, e.reply, e.track, Len(d) + 1)) =>
                 FramesTold(Append(d, e), a, v)
  <1> DEFINE x == Append(d, e)
  <1>1. /\ Len(d) \in Nat /\ Len(x) = Len(d) + 1 /\ x[Len(d) + 1] = e
        /\ \A i \in 1..Len(d) : x[i] = d[i] /\ i \in 1..Len(x) /\ i \in Nat
        /\ Len(x) \in 1..Len(x) /\ Len(x) < Len(x) + 1
        /\ \A i \in 1..Len(x) : i \in 1..Len(d) \/ i = Len(d) + 1
        /\ \A i \in Nat : i < Len(d) + 1 => i < Len(x) + 1
    OBVIOUS
  <1> HIDE DEF x
  <1>2. \A r, t : \A i \in Nat : Told(d, a, v, r, t, i) => Told(x, a, v, r, t, i)
    BY <1>1 DEF Told
  <1>3. \A r, t : Told(d, a, v, r, t, Len(d) + 1) => Told(x, a, v, r, t, Len(x) + 1)
    BY <1>1 DEF Told
  <1>4. /\ e.type = "audio_track" => Told(x, a, v, e.reply, e.track, Len(x) + 1)
        /\ e.type = "reply" => Told(x, a, v, e.reply, 1, Len(x) + 1)
    BY <1>1 DEF Told
  <1>5. ASSUME FramesTold(d, a, v),
               e.type = "frame" => Told(d, a, v, e.reply, e.track, Len(d) + 1)
        PROVE  FramesTold(x, a, v)
    <2> SUFFICES ASSUME NEW i \in 1..Len(x), x[i].type = "frame"
                 PROVE  Told(x, a, v, x[i].reply, x[i].track, i)
      BY DEF FramesTold
    <2>1. CASE i \in 1..Len(d)
      BY <1>1, <1>2, <1>5, <2>1 DEF FramesTold
    <2>2. CASE i = Len(d) + 1
      BY <1>1, <1>2, <1>5, <2>2
    <2> QED
      BY <1>1, <2>1, <2>2
  <1> QED
    BY <1>2, <1>3, <1>4, <1>5 DEF x

(* Taking the head of the wire does not make the player forget. *)
LEMMA TailTold ==
    ASSUME NEW S, NEW d \in Seq(S), d # <<>>, NEW a, NEW v, NEW b, NEW w, NEW r, NEW t,
           NEW i \in 1..(Len(d) + 1), Told(d, a, v, r, t, i),
           \/ Head(d).type = "reply" /\ b = Head(d).reply /\ w = 1 /\ r # a
           \/ /\ Head(d).type = "audio_track" /\ Head(d).reply = a /\ b = a
              /\ w = Head(d).track /\ (r = a /\ t = v => t = w)
           \/ Head(d).type \notin {"reply", "audio_track"} /\ b = a /\ w = v
    PROVE  Told(Tail(d), b, w, r, t, i - 1)
  <1> DEFINE x == Tail(d)
  <1>1. /\ Len(d) \in Nat \ {0} /\ Len(x) = Len(d) - 1 /\ Head(d) = d[1]
        /\ \A j \in 1..Len(d) :
              j # 1 => j - 1 \in 1..Len(x) /\ x[j - 1] = d[j] /\ (j < i => j - 1 < i - 1)
    OBVIOUS
  <1> HIDE DEF x
  <1>2. CASE r = a /\ t = v
    BY <1>2 DEF Told
  <1>3. ASSUME NEW j \in 1..Len(d), j < i, d[j].type = "audio_track", d[j].reply = r,
               d[j].track = t
        PROVE  Told(x, b, w, r, t, i - 1)
    <2>1. CASE j = 1
      BY <1>1, <1>3, <2>1 DEF Told
    <2>2. CASE j # 1
      BY <1>1, <1>3, <2>2 DEF Told
    <2> QED
      BY <2>1, <2>2
  <1>4. ASSUME t = 1, NEW j \in 1..Len(d), j < i, d[j].type = "reply", d[j].reply = r
        PROVE  Told(x, b, w, r, t, i - 1)
    <2>1. CASE j = 1
      BY <1>1, <1>4, <2>1 DEF Told
    <2>2. CASE j # 1
      BY <1>1, <1>4, <2>2 DEF Told
    <2> QED
      BY <2>1, <2>2
  <1> QED
    BY <1>2, <1>3, <1>4 DEF Told, x

-----------------------------------------------------------------------------
(* Where the wire and the delivery rest, the player may only lose tracks. *)
LEMMA WireTracksRest ==
    ASSUME WireTracks, UNCHANGED <<down, announced, serving, replies, variant>>,
           Finished' \subseteq Finished, chunks' = chunks \/ chunks' = <<>>
    PROVE  WireTracks'
  <1> USE DEF WireTracks
  <1>1. \A i \in 1..Len(down) : Beyond(down[i])'
    BY DEF Ahead, Beyond
  <1>2. Delivering => PlayedBefore'
    BY DEF ServingAhead, PlayedBefore
  <1>3. \A i \in 1..Len(down) : Delivering => SentBefore(down[i])'
    BY DEF ServingAhead, SentBefore
  <1>4. Delivering => ServingTold'
    BY DEF ServingAhead, ServingTold, Told
  <1>5. Delivering' = Delivering
    BY DEF Delivering
  <1>6. Sorted(down') /\ FramesTold(down', announced', variant')
    OBVIOUS
  <1> QED
    BY <1>1, <1>2, <1>3, <1>4, <1>5, <1>6 DEF Ahead, ServingAhead

LEMMA PageTracks ==
    ASSUME KeptInv,
           \/ StartCall \/ MicOpens \/ MicRefused \/ StartListening \/ EndListening \/ AskRepeat
           \/ DecodeEnds \/ TrackEnds
    PROVE  TracksInv' /\ WireTracks'
  <1> USE DEF KeptInv
  <1>1. PlayerInv /\ replies \in Nat /\ TracksInv
    BY EventReplies DEF LatestInv, CallInv
  <1>2. UNCHANGED <<down, announced, serving, replies>>
    BY DEF StartCall, MicOpens, MicRefused, StartListening, EndListening, AskRepeat, DecodeEnds,
           TrackEnds, serverVars
  <1>3. /\ TracksInv' /\ Finished' \subseteq Finished /\ variant' = variant
        /\ chunks' = chunks \/ chunks' = <<>>
    <2>1. CASE StartCall
      <3>1. Silenced /\ lastTurn' = <<>> /\ queue' = <<>> /\ source' = Silence
            /\ variant' = variant /\ chunks' = <<>>
        BY <2>1 DEF StartCall, Reset, Silenced
      <3>2. Follows(source', queue', lastTurn')
        BY <3>1 DEF Follows
      <3> QED
        BY <1>1, <3>1, <3>2, StopsOrder
    <2>2. CASE StartListening
      <3>1. Silenced /\ lastTurn' = lastTurn /\ queue' = <<>> /\ source' = Silence
            /\ variant' = variant /\ chunks' = <<>>
        BY <2>2 DEF StartListening, Stop, Silenced
      <3>2. Len(lastTurn) \in Nat
        BY <1>1 DEF PlayerInv, PlayerTypes
      <3>3. Follows(source', queue', lastTurn')
        BY <3>1, <3>2 DEF Follows
      <3> QED
        BY <1>1, <3>1, <3>3, StopsOrder
    <2>3. CASE MicOpens \/ MicRefused \/ EndListening
      <3>1. UNCHANGED playerVars
        BY <2>3 DEF MicOpens, MicRefused, EndListening
      <3>2. Wanted' = Wanted
        BY <3>1 DEF playerVars, Wanted
      <3>3. Finished' = Finished
        BY <3>1, <3>2 DEF playerVars, Finished
      <3> QED
        BY <1>1, <3>1, <3>2, <3>3 DEF playerVars, TracksInv, Named, Ascending, Behind, Follows
    <2>4. CASE AskRepeat
      BY <1>1, <2>4, ReplayOrder DEF AskRepeat, Replay, Silenced
    <2>5. CASE DecodeEnds
      BY <1>1, <2>5, DecodeOrder DEF DecodeEnds
    <2>6. CASE TrackEnds
      BY <1>1, <2>6, SourceEndsOrder DEF TrackEnds, SourceEnds
    <2> QED
      BY <2>1, <2>2, <2>3, <2>4, <2>5, <2>6
  <1> QED
    BY <1>2, <1>3, WireTracksRest

LEMMA LinkTracks ==
    ASSUME KeptInv, SocketOpens \/ SocketCloses \/ StopCall
    PROVE  TracksInv' /\ WireTracks'
  <1> USE DEF KeptInv
  <1>1. PlayerInv /\ TracksInv
    BY DEF LatestInv, CallInv
  <1>2. /\ \/ down' = <<>>
           \/ down' = <<[type |-> "ready", reply |-> replies]>>
        /\ serving' = Idle
    BY DEF SocketOpens, SocketCloses, StopCall, Disconnect, serverVars, LatestInv, WireOrder
  <1>3. WireTracks'
    <2>1. \A i \in 1..Len(down') : down'[i].type = "ready" /\ Len(down') = 1
      BY <1>2
    <2>2. ~Delivering'
      BY <1>2 DEF Delivering, Idle
    <2> QED
      BY <2>1, <2>2 DEF WireTracks, Sorted, FramesTold, Ahead, Beyond, ServingAhead, Voice
  <1>4. CASE SocketOpens
    <2>1. UNCHANGED playerVars
      BY <1>4 DEF SocketOpens
    <2>2. Wanted' = Wanted
      BY <2>1 DEF playerVars, Wanted
    <2>3. Finished' = Finished
      BY <2>1, <2>2 DEF playerVars, Finished
    <2> QED
      BY <1>1, <1>3, <2>1, <2>2, <2>3 DEF playerVars, TracksInv, Named, Ascending, Behind, Follows
  <1>5. CASE SocketCloses \/ StopCall
    <2>1. Silenced /\ lastTurn' = lastTurn /\ queue' = <<>> /\ source' = Silence
          /\ variant' = variant
      BY <1>5 DEF SocketCloses, StopCall, Stop
    <2>2. Len(lastTurn) \in Nat
      BY <1>1 DEF PlayerInv, PlayerTypes
    <2>3. Follows(source', queue', lastTurn')
      BY <2>1, <2>2 DEF Follows
    <2> QED
      BY <1>1, <1>3, <2>1, <2>3, StopsOrder
  <1> QED
    BY <1>4, <1>5

-----------------------------------------------------------------------------
(* What the player does with the event it takes, event by event. *)
LEMMA ReceiveTracks ==
    ASSUME KeptInv, Receive
    PROVE  /\ TracksInv' /\ Ahead'
           /\ \/ /\ Head(down).type = "reply" /\ announced' = Head(down).reply /\ variant' = 1
                 /\ Finished' = {} /\ chunks' = <<>>
              \/ /\ Head(down).type = "audio_track" /\ announced' = announced
                 /\ Head(down).reply = announced /\ variant' = Head(down).track
                 /\ variant <= variant' /\ chunks' = <<>>
                 /\ \A t \in Finished' : t \in Finished \/ (t = variant /\ chunks # <<>>)
              \/ /\ Head(down).type = "frame" /\ announced' = announced
                 /\ Head(down).reply = announced /\ variant' = variant
                 /\ Head(down).track = variant /\ Finished' = Finished
              \/ /\ Head(down).type = "audio_end" /\ announced' = announced
                 /\ Head(down).reply = announced /\ variant' = variant
              \/ /\ Head(down).type \notin {"reply", "audio_track", "frame", "audio_end"}
                 /\ announced' = announced /\ variant' = variant
                 /\ Finished' \subseteq Finished
                 /\ chunks' = chunks \/ chunks' = <<>>
  <1> USE DEF KeptInv
  <1> DEFINE head == Head(down)
             rest == Tail(down)
  <1>1. /\ PlayerInv /\ TracksInv /\ down # <<>> /\ down' = rest /\ down \in Seq(Events)
        /\ announced \in Nat
    BY EventReplies DEF LatestInv, CallInv, WireInv, WireTypes, Receive, Incoming, OnReady, OnReply,
       OnAudioTrack, OnFrame, OnAudioEnd, OnBargeIn, OnError
  <1>2. /\ Len(rest) \in Nat /\ head = down[1] /\ 1 \in 1..Len(down)
        /\ \A i \in 1..Len(rest) : rest[i] = down[i + 1] /\ i + 1 \in 1..Len(down)
        /\ ~\E j \in 1..Len(down) : j < 1
    BY <1>1
  <1>3. /\ variant \in Nat /\ \A t \in Finished : t \in Nat
        /\ head.type \in Voice => head.track \in Nat \ {0}
        /\ \A i \in 1..Len(rest) : rest[i].type \in Voice => rest[i].track \in Nat \ {0}
    BY <1>1, <1>2, FinishedTracks, EventTracks DEF LatestInv, CallInv
  <1>4. head.type \in Content => head.reply = announced
    BY <1>1, <1>2 DEF LatestInv, WireOrder, InOrder
  <1>5. /\ Beyond(head) /\ \A i \in 1..Len(rest) : Beyond(rest[i])
    BY <1>2 DEF WireTracks, Ahead
  <1>6. \A i \in 1..Len(rest) :
           rest[i].type \in Voice /\ rest[i].reply = head.reply =>
              /\ head.type # "audio_end"
              /\ head.type \in Voice =>
                   /\ head.track <= rest[i].track
                   /\ rest[i].type = "audio_track" => head.track < rest[i].track
    BY <1>1, TailSorted DEF WireTracks
  <1>7. FramesTold(down, announced, variant)
    BY DEF WireTracks
  <1>8. ASSUME \A i \in 1..Len(rest) :
                  rest[i].type \in Voice /\ rest[i].reply = announced' =>
                     /\ variant' <= rest[i].track
                     /\ \A t \in Finished' : t < rest[i].track
                     /\ rest[i].type = "audio_track" /\ chunks' # <<>> => variant' < rest[i].track
        PROVE  Ahead'
    BY <1>1, <1>8 DEF Ahead, Beyond
  <1>9. CASE OnReply
    <2>1. /\ head.type = "reply" /\ announced' = head.reply /\ variant' = 1
          /\ chunks' = <<>> /\ lastTurn' = <<>> /\ queue' = <<>> /\ source' = Silence /\ Silenced
      BY <1>9 DEF OnReply, Incoming, BeginTurn, Silenced
    <2>2. Follows(source', queue', lastTurn')
      BY <2>1 DEF Follows
    <2>3. TracksInv'
      BY <1>1, <2>1, <2>2, StopsOrder
    <2>4. Finished' = {}
      <3>1. \A i \in 1..Len(decoding) : decoding[i].gen \in Nat /\ decoding[i].gen <= generation
        BY <1>1, JobsAreOld DEF PlayerInv
      <3>2. generation \in Nat /\ generation' = generation + 1 /\ decoding' = decoding
        BY <1>1, <2>1 DEF Silenced, PlayerInv, PlayerTypes
      <3> QED
        BY <2>1, <3>1, <3>2 DEF Finished, Wanted
    <2>5. Ahead'
      BY <1>3, <1>8, <2>1, <2>4 DEF Beyond
    <2> QED
      BY <2>1, <2>3, <2>4, <2>5
  <1>10. CASE OnAudioTrack
    <2>1. /\ head.type = "audio_track" /\ announced' = announced /\ variant' = head.track
          /\ FlushTrack /\ UNCHANGED <<generation, queue, source, lastTurn>>
      BY <1>10 DEF OnAudioTrack, Incoming, MarkTrack
    <2>2. /\ head.reply = announced /\ variant <= head.track /\ head.track \in Nat
          /\ chunks # <<>> => variant < head.track
          /\ \A t \in Finished : t < head.track
      BY <1>3, <1>4, <1>5, <2>1 DEF Content, Voice, Beyond
    <2>3. /\ TracksInv' /\ chunks' = <<>>
          /\ Finished' = IF chunks = <<>> THEN Finished ELSE Finished \cup {variant}
      BY <1>1, <2>1, <2>2, FlushOrder
    <2>4. \A t \in Finished' : t \in Nat /\ t < head.track
      BY <1>3, <2>2, <2>3
    <2>5. Ahead'
      <3>1. ASSUME NEW i \in 1..Len(rest), rest[i].type \in Voice, rest[i].reply = announced
            PROVE  head.track <= rest[i].track /\ \A t \in Finished' : t < rest[i].track
        <4>1. head.track <= rest[i].track /\ rest[i].track \in Nat /\ head.track \in Nat
          BY <1>3, <1>6, <2>1, <2>2, <3>1 DEF Voice
        <4> HIDE DEF head, rest
        <4> QED
          BY <2>4, <4>1
      <3> QED
        BY <1>8, <2>1, <2>3, <3>1 DEF Beyond
    <2> QED
      BY <2>1, <2>2, <2>3, <2>5
  <1>11. CASE OnFrame
    <2> DEFINE chunk == [reply |-> head.reply, track |-> head.track, part |-> head.part]
    <2>1. head.type = "frame" /\ announced' = announced /\ Push(chunk)
      BY <1>11 DEF OnFrame, Incoming
    <2>2. head.reply = announced /\ Told(down, announced, variant, announced, head.track, 1)
      BY <1>2, <1>4, <1>7, <2>1 DEF FramesTold, Content
    <2>3. head.track = variant
      BY <1>1, <1>2, <2>2 DEF Told, LatestInv, WireOrder, InOrder
    <2>4. \A t \in Finished : t < variant
      BY <1>5, <2>1, <2>2, <2>3 DEF Beyond, Voice
    <2>5. chunk.track = variant
      BY <2>3
    <2> HIDE DEF chunk
    <2>6. TracksInv' /\ Finished' = Finished
      BY <1>1, <2>1, <2>4, <2>5, PushOrder
    <2>7. variant' = variant
      BY <2>1 DEF Push
    <2>8. Ahead'
      <3>1. ASSUME NEW i \in 1..Len(rest), rest[i].type \in Voice, rest[i].reply = announced
            PROVE  /\ variant <= rest[i].track /\ \A t \in Finished : t < rest[i].track
                   /\ rest[i].type = "audio_track" => variant < rest[i].track
        BY <1>5, <1>6, <2>1, <2>2, <2>3, <3>1 DEF Beyond, Voice
      <3> QED
        BY <1>8, <2>1, <2>6, <2>7, <3>1 DEF Beyond
    <2> QED
      BY <2>1, <2>2, <2>3, <2>6, <2>7, <2>8
  <1>12. CASE OnAudioEnd
    <2>1. /\ head.type = "audio_end" /\ announced' = announced /\ variant' = variant
          /\ FlushTrack /\ UNCHANGED <<generation, queue, source, lastTurn>>
      BY <1>12 DEF OnAudioEnd, Incoming, EndTurn
    <2>2. head.reply = announced
      BY <1>4, <2>1 DEF Content
    <2>3. TracksInv'
      BY <1>1, <1>3, <2>1, FlushOrder
    <2>4. Ahead'
      BY <1>6, <1>8, <2>1, <2>2 DEF Beyond
    <2> QED
      BY <2>1, <2>2, <2>3, <2>4
  <1>13. CASE OnReady \/ OnError
    <2>1. /\ head.type \in {"ready", "error"} /\ announced' = announced /\ UNCHANGED playerVars
      BY <1>13 DEF OnReady, OnError, Incoming
    <2>2. Wanted' = Wanted
      BY <2>1 DEF playerVars, Wanted
    <2>3. Finished' = Finished /\ variant' = variant /\ chunks' = chunks
      BY <2>1, <2>2 DEF playerVars, Finished
    <2>4. TracksInv'
      BY <1>1, <2>1, <2>2, <2>3 DEF playerVars, TracksInv, Named, Ascending, Behind, Follows
    <2>5. Ahead'
      BY <1>5, <1>8, <2>1, <2>3 DEF Beyond
    <2> QED
      BY <2>1, <2>3, <2>4, <2>5
  <1>14. CASE OnBargeIn
    <2>1. /\ head.type = "barge_in" /\ announced' = announced /\ variant' = variant
          /\ chunks' = <<>> /\ lastTurn' = lastTurn /\ queue' = <<>> /\ source' = Silence
          /\ Silenced
      BY <1>14 DEF OnBargeIn, Incoming, Stop, Silenced
    <2>2. Len(lastTurn) \in Nat
      BY <1>1 DEF PlayerInv, PlayerTypes
    <2>3. Follows(source', queue', lastTurn')
      BY <2>1, <2>2 DEF Follows
    <2>4. TracksInv' /\ Finished' \subseteq Finished
      BY <1>1, <2>1, <2>3, StopsOrder
    <2>5. Ahead'
      BY <1>5, <1>8, <2>1, <2>4 DEF Beyond
    <2> QED
      BY <2>1, <2>4, <2>5
  <1> QED
    BY <1>9, <1>10, <1>11, <1>12, <1>13, <1>14 DEF Receive

LEMMA ReceiveWire ==
    ASSUME KeptInv, Receive
    PROVE  TracksInv' /\ WireTracks'
  <1> USE DEF KeptInv
  <1> DEFINE head == Head(down)
             rest == Tail(down)
  <1>1. /\ down # <<>> /\ down' = rest /\ down \in Seq(Events) /\ UNCHANGED <<serving, replies>>
        /\ announced \in Nat /\ replies \in Nat /\ announced <= replies
        /\ \A i \in 1..Len(down) : down[i].reply \in Nat /\ down[i].reply <= replies
    BY EventReplies DEF LatestInv, CallInv, WireInv, WireTypes, Receive, Incoming, OnReady, OnReply,
       OnAudioTrack, OnFrame, OnAudioEnd, OnBargeIn, OnError, serverVars
  <1>2. /\ Len(rest) \in Nat /\ Len(down) \in Nat /\ head = down[1] /\ 1 \in 1..Len(down)
        /\ Len(rest) + 1 = Len(down) /\ Len(down) + 1 \in 1..(Len(down) + 1)
        /\ \A i \in 1..Len(rest) : /\ rest[i] = down[i + 1] /\ i + 1 \in 1..Len(down)
                                   /\ 1 < i + 1 /\ (i + 1) - 1 = i /\ i + 1 \in 1..(Len(down) + 1)
    BY <1>1
  <1>3. /\ variant \in Nat /\ \A t \in Finished : t \in Nat
        /\ \A i \in 1..Len(down) : down[i].type \in Voice => down[i].track \in Nat \ {0}
        /\ head.type \in Voice => head.track \in Nat \ {0}
    BY <1>1, <1>2, FinishedTracks, EventTracks DEF LatestInv, CallInv
  <1>4. /\ TracksInv' /\ Ahead'
        /\ \/ /\ head.type = "reply" /\ announced' = head.reply /\ variant' = 1
              /\ Finished' = {} /\ chunks' = <<>>
           \/ /\ head.type = "audio_track" /\ announced' = announced
              /\ head.reply = announced /\ variant' = head.track
              /\ variant <= variant' /\ chunks' = <<>>
              /\ \A t \in Finished' : t \in Finished \/ (t = variant /\ chunks # <<>>)
           \/ /\ head.type = "frame" /\ announced' = announced
              /\ head.reply = announced /\ variant' = variant
              /\ head.track = variant /\ Finished' = Finished
           \/ /\ head.type = "audio_end" /\ announced' = announced
              /\ head.reply = announced /\ variant' = variant
           \/ /\ head.type \notin {"reply", "audio_track", "frame", "audio_end"}
              /\ announced' = announced /\ variant' = variant
              /\ Finished' \subseteq Finished
              /\ chunks' = chunks \/ chunks' = <<>>
    BY ReceiveTracks
  <1>5. /\ Sorted(rest)
        /\ \A i \in 1..Len(rest) :
              rest[i].type \in Voice /\ rest[i].reply = head.reply =>
                 /\ head.type # "audio_end"
                 /\ head.type \in Voice => head.track <= rest[i].track
    BY <1>1, TailSorted DEF WireTracks
  <1>6. head.type = "reply" => announced < head.reply
    BY <1>2 DEF LatestInv, WireOrder, InOrder
  (* Whatever reply and track were told of are told of still. *)
  <1>7. ASSUME NEW i \in 1..(Len(down) + 1), NEW r, NEW t,
               Told(down, announced, variant, r, t, i), r # announced \/ head.type # "reply",
               t \in Nat,
               head.type = "audio_track" /\ r = announced => head.track <= t
        PROVE  Told(rest, announced', variant', r, t, i - 1)
    <2>1. CASE head.type = "reply"
      <3>1. announced' = head.reply /\ variant' = 1 /\ r # announced
        BY <1>4, <1>7, <2>1
      <3> QED
        BY <1>1, <1>7, <2>1, <3>1, TailTold
    <2>2. CASE head.type = "audio_track"
      <3>1. announced' = announced /\ head.reply = announced /\ variant' = head.track
            /\ variant <= head.track /\ head.track \in Nat
        BY <1>3, <1>4, <2>2 DEF Voice
      <3>2. r = announced /\ t = variant => t = head.track
        <4> HIDE DEF head, rest
        <4> QED
          BY <1>3, <1>7, <2>2, <3>1
      <3> QED
        BY <1>1, <1>7, <2>2, <3>1, <3>2, TailTold
    <2>3. CASE head.type \notin {"reply", "audio_track"}
      <3>1. announced' = announced /\ variant' = variant
        BY <1>4, <2>3
      <3> QED
        BY <1>1, <1>7, <2>3, <3>1, TailTold
    <2> QED
      BY <2>1, <2>2, <2>3
  <1>8. FramesTold(rest, announced', variant')
    <2> SUFFICES ASSUME NEW i \in 1..Len(rest), rest[i].type = "frame"
                 PROVE  Told(rest, announced', variant', rest[i].reply, rest[i].track, i)
      BY DEF FramesTold
    <2>1. Told(down, announced, variant, rest[i].reply, rest[i].track, i + 1)
      BY <1>2 DEF WireTracks, FramesTold
    <2>2. rest[i].reply # announced \/ head.type # "reply"
      <3> SUFFICES ASSUME head.type = "reply" PROVE rest[i].reply # announced
        OBVIOUS
      <3>1. head.reply <= rest[i].reply
        BY <1>2 DEF LatestInv, WireOrder, InOrder, Content
      <3>2. announced < head.reply /\ head.reply \in Nat /\ rest[i].reply \in Nat
        BY <1>1, <1>2, <1>6
      <3> HIDE DEF head, rest
      <3> QED
        BY <1>1, <3>1, <3>2
    <2>3. rest[i].track \in Nat
      BY <1>2, <1>3 DEF Voice
    <2>4. head.type = "audio_track" /\ rest[i].reply = announced => head.track <= rest[i].track
      BY <1>4, <1>5 DEF Voice
    <2>5. i + 1 \in 1..(Len(down) + 1) /\ (i + 1) - 1 = i
      BY <1>2
    <2> HIDE DEF head, rest
    <2>6. Told(rest, announced', variant', rest[i].reply, rest[i].track, (i + 1) - 1)
      BY <1>7, <2>1, <2>2, <2>3, <2>4, <2>5
    <2> QED
      BY <2>5, <2>6
  <1>9. ServingAhead'
    <2> SUFFICES ASSUME Delivering
                 PROVE  /\ \A i \in 1..Len(rest) : SentBefore(down[i + 1])
                        /\ PlayedBefore'
                        /\ serving.stage = "frames" \/ serving.tracks = 1 =>
                              Told(rest, announced', variant', replies, serving.track,
                                   Len(rest) + 1)
      BY <1>1, <1>2 DEF ServingAhead, ServingTold, Delivering, SentBefore
    <2>1. /\ \A i \in 1..Len(down) : SentBefore(down[i])
          /\ PlayedBefore /\ ServingTold
      BY DEF WireTracks, ServingAhead
    <2>2. serving.track \in Nat \ {0}
      BY BoundsAssumption DEF LatestInv, CallInv, WireInv, ServingShape, Delivering
    <2>3. SentBefore(head)
      BY <1>2, <2>1
    <2>4. PlayedBefore'
      <3> SUFFICES ASSUME announced' = replies PROVE PlayedBefore'
        BY <1>1 DEF PlayedBefore
      <3>1. CASE head.type = "reply"
        BY <1>1, <1>4, <2>2, <3>1 DEF PlayedBefore
      <3>2. CASE head.type = "audio_track"
        <4>1. /\ announced = replies /\ head.reply = replies /\ variant' = head.track
              /\ chunks' = <<>>
              /\ \A t \in Finished' : t \in Finished \/ (t = variant /\ chunks # <<>>)
          BY <1>4, <3>2
        <4>2. head.track <= serving.track /\ head.track \in Nat
          BY <1>3, <2>3, <3>2, <4>1 DEF SentBefore, Voice
        <4>3. chunks # <<>> => variant < head.track
          BY <1>2, <3>2, <4>1 DEF WireTracks, Ahead, Beyond, Voice
        <4>4. \A t \in Finished : t < serving.track
          BY <2>1, <4>1 DEF PlayedBefore
        <4> HIDE DEF head, rest
        <4>5. \A t \in Finished' : t < serving.track
          BY <1>3, <2>2, <4>1, <4>2, <4>3, <4>4
        <4> QED
          BY <1>1, <4>1, <4>2, <4>5 DEF PlayedBefore
      <3>3. CASE head.type = "frame"
        <4>1. /\ announced = replies /\ head.reply = replies /\ variant' = variant
              /\ head.track = variant /\ Finished' = Finished
          BY <1>4, <3>3
        <4>2. serving.stage = "synthesis" => variant < serving.track
          BY <2>3, <3>3, <4>1 DEF SentBefore, Voice
        <4>3. /\ variant' <= serving.track /\ \A t \in Finished' : t < serving.track
              /\ serving.stage = "synthesis" => variant' < serving.track
          BY <2>1, <4>1, <4>2 DEF PlayedBefore
        <4>4. serving' = serving /\ replies' = replies
          BY <1>1
        <4> HIDE DEF head, rest
        <4> QED
          BY <4>3, <4>4 DEF PlayedBefore
      <3>4. CASE head.type = "audio_end"
        BY <1>4, <2>3, <3>4 DEF SentBefore
      <3>5. CASE head.type \notin {"reply", "audio_track", "frame", "audio_end"}
        BY <1>1, <1>4, <2>1, <3>5 DEF PlayedBefore
      <3> QED
        BY <1>4, <3>1, <3>2, <3>3, <3>4, <3>5
    <2>5. ASSUME serving.stage = "frames" \/ serving.tracks = 1
          PROVE  Told(rest, announced', variant', replies, serving.track, Len(rest) + 1)
      <3>1. Told(down, announced, variant, replies, serving.track, Len(down) + 1)
        BY <2>1, <2>5 DEF ServingTold
      <3>2. replies # announced \/ head.type # "reply"
        <4>1. head.reply \in Nat /\ head.reply <= replies
          BY <1>1, <1>2
        <4> HIDE DEF head, rest
        <4> QED
          BY <1>1, <1>6, <4>1
      <3>3. head.type = "audio_track" /\ replies = announced => head.track <= serving.track
        BY <1>4, <2>3 DEF SentBefore, Voice
      <3> HIDE DEF head, rest
      <3>4. Told(rest, announced', variant', replies, serving.track, (Len(down) + 1) - 1)
        BY <1>2, <1>7, <2>2, <3>1, <3>2, <3>3
      <3> QED
        BY <1>2, <3>4
    <2> QED
      BY <1>2, <2>1, <2>4, <2>5
  <1> QED
    BY <1>1, <1>4, <1>5, <1>8, <1>9 DEF WireTracks

-----------------------------------------------------------------------------
(* The gateway puts an event on the wire that comes after all that is there. *)
LEMMA EmitTracks ==
    ASSUME NEW S, NEW d \in Seq(S), NEW e, Sorted(d), FramesTold(d, announced, variant),
           \A i \in 1..Len(d) : Beyond(d[i]), Beyond(e),
           e.type \in Voice =>
              \A i \in 1..Len(d) :
                 d[i].reply = e.reply =>
                    /\ d[i].type # "audio_end"
                    /\ d[i].type \in Voice => /\ d[i].track <= e.track
                                              /\ e.type = "audio_track" => d[i].track < e.track,
           e.type = "frame" => Told(d, announced, variant, e.reply, e.track, Len(d) + 1)
    PROVE  /\ Sorted(Append(d, e)) /\ FramesTold(Append(d, e), announced, variant)
           /\ \A i \in 1..Len(Append(d, e)) : Beyond(Append(d, e)[i])
  <1>1. Sorted(Append(d, e))
    BY AppendSorted
  <1>2. FramesTold(Append(d, e), announced, variant)
    BY AppendTold
  <1>3. \A i \in 1..Len(Append(d, e)) :
           (i \in 1..Len(d) /\ Append(d, e)[i] = d[i]) \/ Append(d, e)[i] = e
    OBVIOUS
  <1> QED
    BY <1>1, <1>2, <1>3

(* An event that is not part of a track adds nothing to what is to be played. *)
LEMMA EmitOther ==
    ASSUME NEW S, NEW d \in Seq(S), NEW e, Sorted(d), FramesTold(d, announced, variant),
           \A i \in 1..Len(d) : Beyond(d[i]), e.type \notin Voice
    PROVE  /\ Sorted(Append(d, e)) /\ FramesTold(Append(d, e), announced, variant)
           /\ \A i \in 1..Len(Append(d, e)) : Beyond(Append(d, e)[i])
  <1>1. Beyond(e) /\ e.type # "frame"
    BY DEF Beyond, Voice
  <1> QED
    BY <1>1, EmitTracks

LEMMA GatewayTracks ==
    ASSUME KeptInv, Gateway
    PROVE  TracksInv' /\ WireTracks'
  <1> USE DEF KeptInv
  <1>1. UNCHANGED <<playerVars, announced>> /\ PlayerInv /\ TracksInv
    BY DEF Gateway, clientVars, LatestInv, CallInv
  <1>2. /\ down \in Seq(Events) /\ Len(down) \in Nat
        /\ announced \in Nat /\ replies \in Nat /\ announced <= replies
        /\ \A i \in 1..Len(down) : down[i].reply \in Nat /\ down[i].reply <= replies
    BY EventReplies DEF LatestInv, CallInv, WireInv, WireTypes
  <1>3. /\ variant \in Nat /\ \A t \in Finished : t \in Nat
        /\ \A i \in 1..Len(down) : down[i].type \in Voice => down[i].track \in Nat \ {0}
    BY <1>1, FinishedTracks, EventTracks DEF LatestInv, CallInv
  <1>4. /\ Sorted(down) /\ FramesTold(down, announced, variant)
        /\ \A i \in 1..Len(down) : Beyond(down[i])
        /\ Delivering => (\A i \in 1..Len(down) : SentBefore(down[i])) /\ PlayedBefore /\ ServingTold
    BY DEF WireTracks, Ahead, ServingAhead
  <1>5. Delivering => /\ serving.tracks \in Nat \ {0} /\ serving.track \in Nat \ {0}
                      /\ serving.track <= serving.tracks
    BY BoundsAssumption DEF LatestInv, CallInv, WireInv, ServingShape, Delivering
  <1>6. /\ TracksInv' /\ Finished' = Finished /\ UNCHANGED <<variant, chunks, announced>>
    <2>1. Wanted' = Wanted
      BY <1>1 DEF playerVars, Wanted
    <2>2. Finished' = Finished
      BY <1>1, <2>1 DEF playerVars, Finished
    <2> QED
      BY <1>1, <2>1, <2>2 DEF playerVars, TracksInv, Named, Ascending, Behind, Follows
  <1>7. ASSUME Sorted(down'), FramesTold(down', announced, variant),
               NEW d, d = down', \A i \in 1..Len(d) : Beyond(d[i]), ServingAhead'
        PROVE  WireTracks'
    BY <1>6, <1>7 DEF WireTracks, Ahead, Beyond
  <1>8. CASE GatewayHears \/ GatewayTakes \/ GatewayDropsTurn
    <2>1. /\ UNCHANGED <<down, replies>>
          /\ serving' = serving \/ ~Delivering'
      BY <1>8 DEF GatewayHears, GatewayTakes, GatewayDropsTurn, Idle, Delivering
    <2>2. CASE serving' = serving
      BY <1>6, <2>1, <2>2, WireTracksRest
    <2>3. CASE ~Delivering'
      BY <1>4, <1>6, <1>7, <2>1, <2>3 DEF ServingAhead
    <2> QED
      BY <1>6, <2>1, <2>2, <2>3
  <1>9. CASE GatewayCannotSpeak \/ GatewayCutsShort
    <2>1. PICK e : e.type \notin Voice /\ down' = Append(down, e)
      BY <1>9 DEF GatewayCannotSpeak, GatewayCutsShort, Emit, Voice
    <2>2. ~Delivering'
      BY <1>9 DEF GatewayCannotSpeak, GatewayCutsShort, Idle, Delivering
    <2>3. /\ Sorted(Append(down, e)) /\ FramesTold(Append(down, e), announced, variant)
          /\ \A i \in 1..Len(Append(down, e)) : Beyond(Append(down, e)[i])
      BY <1>2, <1>4, <2>1, EmitOther
    <2> QED
      BY <1>6, <1>7, <2>1, <2>2, <2>3 DEF ServingAhead
  <1>10. CASE GatewayReplies
    <2>1. replies' = replies + 1
      BY <1>10 DEF GatewayReplies
    <2>2. PICK n \in 0..MaxTracks :
            LET reply == [type |-> "reply", reply |-> replies', tracks |-> n]
            IN  IF n = 0
                THEN /\ down' = Append(Append(down, reply), [AudioEnd EXCEPT !.reply = replies'])
                     /\ serving' = Idle
                ELSE /\ Emit(reply)
                     /\ serving' = [stage |-> "synthesis", tracks |-> n, track |-> 1, part |-> 1]
      BY <1>10 DEF GatewayReplies
    <2> DEFINE reply == [type |-> "reply", reply |-> replies', tracks |-> n]
               end == [AudioEnd EXCEPT !.reply = replies']
               more == Append(down, reply)
    <2>3. /\ reply.type = "reply" /\ reply.reply = replies' /\ reply.type \notin Voice
          /\ end.type \notin Voice
      BY DEF AudioEnd, Voice
    <2>4. \/ down' = Append(more, end) /\ serving' = Idle
          \/ /\ down' = more
             /\ serving' = [stage |-> "synthesis", tracks |-> n, track |-> 1, part |-> 1]
      BY <2>2 DEF Emit
    <2>5. more \in Seq(Events \cup {reply})
      BY <1>2
    <2>6. \A i \in 1..Len(more) : (i \in 1..Len(down) /\ more[i] = down[i]) \/ more[i] = reply
      BY <1>2
    <2> HIDE DEF reply, end
    <2>7. /\ Sorted(more) /\ FramesTold(more, announced, variant)
          /\ \A i \in 1..Len(more) : Beyond(more[i])
      BY <1>2, <1>4, <2>3, EmitOther
    <2>8. Told(more, announced, variant, replies', 1, Len(more) + 1)
      BY <1>2, <2>3, AppendTold
    <2>9. /\ \A i \in 1..Len(down) : down[i].reply # replies'
          /\ announced # replies'
      BY <1>2, <2>1
    <2> HIDE DEF more
    <2>10. CASE down' = Append(more, end) /\ serving' = Idle
      <3>1. /\ Sorted(down') /\ FramesTold(down', announced, variant)
            /\ \A i \in 1..Len(Append(more, end)) : Beyond(Append(more, end)[i])
        BY <2>3, <2>5, <2>7, <2>10, EmitOther
      <3>2. ~Delivering'
        BY <2>10 DEF Delivering, Idle
      <3> QED
        BY <1>6, <1>7, <2>10, <3>1, <3>2 DEF ServingAhead
    <2>11. CASE /\ down' = more
                /\ serving' = [stage |-> "synthesis", tracks |-> n, track |-> 1, part |-> 1]
      <3>1. serving'.track = 1
        BY <2>11
      <3>2. \A i \in 1..Len(down') : SentBefore(down[i])'
        BY <2>3, <2>6, <2>9, <2>11 DEF SentBefore
      <3>3. PlayedBefore' /\ ServingTold'
        BY <1>6, <2>8, <2>9, <2>11, <3>1 DEF PlayedBefore, ServingTold
      <3>4. ServingAhead'
        BY <3>2, <3>3 DEF ServingAhead
      <3> QED
        BY <1>6, <1>7, <2>7, <2>11, <3>4
    <2> QED
      BY <1>6, <2>4, <2>10, <2>11
  <1>11. CASE GatewaySpeaks
    <2>1. /\ serving.stage = "synthesis" /\ replies' = replies /\ Delivering
          /\ serving' = [serving EXCEPT !.stage = "frames"]
      BY <1>11 DEF GatewaySpeaks, Delivering
    <2>2. serving'.stage = "frames" /\ serving'.track = serving.track
      BY <2>1 DEF LatestInv, CallInv, WireInv, WireTypes
    <2> DEFINE e == [type |-> "audio_track", reply |-> replies, track |-> serving.track]
    <2>3. \/ serving.tracks > 1 /\ down' = Append(down, e)
          \/ serving.tracks = 1 /\ down' = down
      BY <1>5, <1>11, <2>1 DEF GatewaySpeaks, Emit
    <2>4. PlayedBefore'
      BY <1>4, <1>6, <2>1, <2>2, <1>3, <1>5 DEF PlayedBefore
    <2>5. e.type = "audio_track" /\ e.reply = replies /\ e.track = serving.track
      OBVIOUS
    <2> HIDE DEF e
    <2>6. CASE serving.tracks > 1 /\ down' = Append(down, e)
      <3>1. Beyond(e)
        BY <1>4, <2>1, <2>5 DEF Beyond, PlayedBefore
      <3>2. \A i \in 1..Len(down) :
               down[i].reply = replies =>
                  /\ down[i].type # "audio_end"
                  /\ down[i].type \in Voice => /\ down[i].track <= serving.track
                                               /\ down[i].track < serving.track
        BY <1>4, <2>1 DEF SentBefore
      <3>3. /\ Sorted(Append(down, e)) /\ FramesTold(Append(down, e), announced, variant)
            /\ \A i \in 1..Len(Append(down, e)) : Beyond(Append(down, e)[i])
        BY <1>2, <1>4, <2>5, <3>1, <3>2, EmitTracks
      <3>4. \A i \in 1..Len(down') : (i \in 1..Len(down) /\ down'[i] = down[i]) \/ down'[i] = e
        BY <1>2, <2>6
      <3>5. \A i \in 1..Len(down') : SentBefore(down[i])'
        BY <1>5, <2>1, <2>2, <2>5, <3>2, <3>4 DEF SentBefore
      <3>6. ServingTold'
        BY <1>2, <1>6, <2>1, <2>2, <2>5, <2>6, AppendTold DEF ServingTold
      <3>7. ServingAhead'
        BY <2>4, <3>5, <3>6 DEF ServingAhead
      <3> QED
        BY <1>6, <1>7, <2>6, <3>3, <3>7
    <2>7. CASE serving.tracks = 1 /\ down' = down
      <3>1. \A i \in 1..Len(down') : SentBefore(down[i])'
        BY <1>4, <2>1, <2>2, <2>7 DEF SentBefore
      <3>2. ServingTold'
        BY <1>4, <1>6, <2>1, <2>2, <2>7 DEF ServingTold
      <3>3. ServingAhead'
        BY <2>4, <3>1, <3>2 DEF ServingAhead
      <3> QED
        BY <1>4, <1>6, <1>7, <2>7, <3>3
    <2> QED
      BY <1>6, <2>3, <2>6, <2>7
  <1>12. CASE GatewaySendsFrame
    <2> DEFINE frame == [type |-> "frame", reply |-> replies, track |-> serving.track,
                         part |-> serving.part]
               more == Append(down, frame)
               end == AudioEnd
    <2>1. /\ serving.stage = "frames" /\ replies' = replies /\ Delivering
      BY <1>12 DEF GatewaySendsFrame, Delivering
    <2>2. \/ down' = Append(more, end) /\ serving' = Idle
          \/ /\ down' = more /\ serving.track # serving.tracks
             /\ serving' = [serving EXCEPT !.stage = "synthesis", !.track = @ + 1, !.part = 1]
          \/ /\ down' = more
             /\ serving' = [serving EXCEPT !.part = @ + 1]
      BY <1>12 DEF GatewaySendsFrame, Emit
    <2>3. /\ frame.type = "frame" /\ frame.reply = replies /\ frame.track = serving.track
          /\ end.type \notin Voice
      BY DEF AudioEnd, Voice
    <2>4. more \in Seq(Events \cup {frame})
      BY <1>2
    <2>5. \A i \in 1..Len(more) : (i \in 1..Len(down) /\ more[i] = down[i]) \/ more[i] = frame
      BY <1>2
    <2> HIDE DEF frame, end
    <2>6. \A i \in 1..Len(down) :
             down[i].reply = replies =>
                /\ down[i].type # "audio_end"
                /\ down[i].type \in Voice => down[i].track <= serving.track
      BY <1>4, <2>1 DEF SentBefore
    <2>7. Beyond(frame) /\ Told(down, announced, variant, replies, serving.track, Len(down) + 1)
      BY <1>4, <2>1, <2>3 DEF Beyond, PlayedBefore, ServingTold
    <2>8. /\ Sorted(more) /\ FramesTold(more, announced, variant)
          /\ \A i \in 1..Len(more) : Beyond(more[i])
      BY <1>2, <1>4, <2>3, <2>6, <2>7, EmitTracks
    <2>9. Told(more, announced, variant, replies, serving.track, Len(more) + 1)
      BY <1>2, <2>7, AppendTold
    <2>a. \A i \in 1..Len(more) :
             more[i].reply = replies =>
                /\ more[i].type # "audio_end"
                /\ more[i].type \in Voice => /\ more[i].track \in Nat
                                             /\ more[i].track <= serving.track
      BY <1>3, <1>5, <2>1, <2>3, <2>5, <2>6
    <2> HIDE DEF more
    <2>10. CASE down' = Append(more, end) /\ serving' = Idle
      <3>1. /\ Sorted(down') /\ FramesTold(down', announced, variant)
            /\ \A i \in 1..Len(Append(more, end)) : Beyond(Append(more, end)[i])
        BY <2>3, <2>4, <2>8, <2>10, EmitOther
      <3>2. ~Delivering'
        BY <2>10 DEF Delivering, Idle
      <3> QED
        BY <1>6, <1>7, <2>10, <3>1, <3>2 DEF ServingAhead
    <2>11. CASE /\ down' = more /\ serving.track # serving.tracks
                /\ serving' = [serving EXCEPT !.stage = "synthesis", !.track = @ + 1, !.part = 1]
      <3>1. /\ serving'.stage = "synthesis" /\ serving'.track = serving.track + 1
            /\ serving'.tracks = serving.tracks
        BY <2>11 DEF LatestInv, CallInv, WireInv, WireTypes
      <3>2. serving.tracks # 1 /\ serving.track \in Nat
        BY <1>5, <2>1, <2>11
      <3>3. \A t \in Nat : t <= serving.track => t <= serving.track + 1 /\ t < serving.track + 1
        BY <3>2
      <3>4. \A i \in 1..Len(down') : SentBefore(down[i])'
        BY <2>1, <2>a, <2>11, <3>1, <3>3 DEF SentBefore
      <3>5. PlayedBefore'
        <4>1. announced = replies =>
                /\ variant <= serving.track /\ \A t \in Finished : t < serving.track
          BY <1>4, <2>1 DEF PlayedBefore
        <4>2. \A t \in Finished : t < serving.track => t < serving.track + 1
          BY <1>3, <3>2
        <4>3. variant <= serving.track => variant <= serving.track + 1 /\ variant < serving.track + 1
          BY <1>3, <3>3
        <4> QED
          BY <1>6, <2>1, <3>1, <4>1, <4>2, <4>3 DEF PlayedBefore
      <3>6. ServingAhead'
        BY <3>1, <3>2, <3>4, <3>5 DEF ServingAhead, ServingTold
      <3> QED
        BY <1>6, <1>7, <2>8, <2>11, <3>6
    <2>12. CASE down' = more /\ serving' = [serving EXCEPT !.part = @ + 1]
      <3>1. /\ serving'.stage = "frames" /\ serving'.track = serving.track
        BY <2>1, <2>12 DEF LatestInv, CallInv, WireInv, WireTypes
      <3>2. \A i \in 1..Len(down') : SentBefore(down[i])'
        BY <2>1, <2>a, <2>12, <3>1 DEF SentBefore
      <3>3. PlayedBefore'
        BY <1>4, <1>6, <2>1, <3>1 DEF PlayedBefore
      <3>4. ServingTold'
        BY <1>6, <2>1, <2>9, <2>12, <3>1 DEF ServingTold
      <3>5. ServingAhead'
        BY <3>2, <3>3, <3>4 DEF ServingAhead
      <3> QED
        BY <1>6, <1>7, <2>8, <2>12, <3>5
    <2> QED
      BY <1>6, <2>2, <2>10, <2>11, <2>12
  <1> QED
    BY <1>8, <1>9, <1>10, <1>11, <1>12 DEF Gateway

(* What plays and what waits is the end of the reply that is kept for a repeat,  *)
(* and the kept reply is its tracks in their order under their own names         *)
(* (player.ts:65-93, call_loop.py:196-223), for any number of tracks and frames, *)
(* and whatever stops, repeats, replies and connections come between.            *)
THEOREM KeptReplyHolds == Spec => []PlaysTheKeptReply
  <1>1. Init => KeptInv
    <2> SUFFICES ASSUME Init PROVE KeptInv
      OBVIOUS
    <2>1. LatestInv
      BY LatestInit
    <2>2. TracksInv
      BY DEF Init, PlayerInit, TracksInv, Follows, Named, Ascending, Behind, Wanted, Finished
    <2>3. WireTracks
      BY DEF Init, WireTracks, Sorted, FramesTold, Ahead, ServingAhead, Delivering, Idle
    <2> QED
      BY <2>1, <2>2, <2>3 DEF KeptInv
  <1>2. KeptInv /\ [Next]_vars => KeptInv'
    <2> SUFFICES ASSUME KeptInv, [Next]_vars PROVE KeptInv'
      OBVIOUS
    <2>1. LatestInv'
      BY LatestStep DEF KeptInv
    <2>2. CASE UNCHANGED vars
      <3>1. UNCHANGED <<playerVars, down, announced, serving, replies>>
        BY <2>2 DEF vars, clientVars, serverVars
      <3>2. Wanted' = Wanted
        BY <3>1 DEF playerVars, Wanted
      <3>3. Finished' = Finished
        BY <3>1, <3>2 DEF playerVars, Finished
      <3>4. TracksInv'
        BY <3>1, <3>2, <3>3 DEF KeptInv, playerVars, TracksInv, Named, Ascending, Behind, Follows
      <3>5. WireTracks'
        BY <3>1, <3>3, WireTracksRest DEF KeptInv, playerVars
      <3> QED
        BY <2>1, <3>4, <3>5 DEF KeptInv
    <2> QED
      BY <2>1, <2>2, PageTracks, LinkTracks, ReceiveWire, GatewayTracks DEF Next, KeptInv
  <1>3. KeptInv => PlaysTheKeptReply
    BY OrderIsKept DEF KeptInv, LatestInv, CallInv, PlayerInv
  <1> QED
    BY <1>1, <1>2, <1>3, PTL DEF Spec
=============================================================================
