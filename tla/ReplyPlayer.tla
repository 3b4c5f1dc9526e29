---------------------------- MODULE ReplyPlayer ----------------------------
(***************************************************************************)
(* The player of spoken replies in the web client                          *)
(* (services/web/src/lib/player.ts).  The frames of a track are collected    *)
(* until the track is complete, decoded one track at a time, and played in   *)
(* order.  stop() drops everything but the tracks kept for a repeat, and     *)
(* moves to a new generation, on which a decode still under way finds that   *)
(* its result is no longer wanted.                                           *)
(*                                                                         *)
(* A frame is [reply, track, part]: its place in one WAV file of which only  *)
(* part 1 carries the header.  A track is named by the rendering it is taken *)
(* for (variant) and by the first frame of its bytes.  The methods are       *)
(* actions without the callbacks, which WebCall adds.                        *)
(***************************************************************************)
EXTENDS Naturals, Sequences

CONSTANT Silence     \* no source is playing

VARIABLES
    generation,      \* bumped by every stop()
    variant,         \* the rendering the frames are taken for
    chunks,          \* frames of the track that is arriving
    decoding,        \* decodeChain: the jobs that have not finished, in order
    pendingDecodes,  \* the player's own count of the jobs it waits for
    queue,           \* decoded tracks that wait for the source
    source,          \* the track that is playing, or Silence
    streamEnded,     \* no more frames of this reply are expected
    lastTurn         \* decoded tracks of the latest reply, kept for a repeat

playerVars == <<generation, variant, chunks, decoding, pendingDecodes, queue, source,
                streamEnded, lastTurn>>

PlayerInit ==
    /\ generation = 0 /\ variant = 1 /\ chunks = <<>> /\ decoding = <<>>
    /\ pendingDecodes = 0 /\ queue = <<>> /\ source = Silence
    /\ streamEnded = TRUE /\ lastTurn = <<>>

(* Mutant: the count of pending decodes survives a stop. *)
SilencedKeepingCount ==
    /\ generation' = generation + 1
    /\ chunks' = <<>> /\ UNCHANGED <<decoding, pendingDecodes>>

-----------------------------------------------------------------------------
(* stop: what is buffered, queued and playing goes; jobs go on for nothing.  *)
Silenced ==
    /\ generation' = generation + 1
    /\ chunks' = <<>> /\ pendingDecodes' = 0 /\ UNCHANGED decoding

Stop ==
    /\ Silenced
    /\ queue' = <<>> /\ source' = Silence /\ streamEnded' = TRUE
    /\ UNCHANGED <<variant, lastTurn>>

(* reset: the repeatable reply goes too, at the start of a new call. *)
Reset ==
    /\ Silenced
    /\ queue' = <<>> /\ source' = Silence /\ streamEnded' = TRUE
    /\ lastTurn' = <<>> /\ UNCHANGED variant

(* Mutant: a new reply stays in the generation of the old one. *)
BeginTurnInPlace(tracks) ==
    /\ chunks' = <<>> /\ pendingDecodes' = 0 /\ UNCHANGED <<decoding, generation>>
    /\ queue' = <<>> /\ source' = Silence
    /\ streamEnded' = (tracks = 0)
    /\ lastTurn' = <<>> /\ variant' = 1

(* beginTurn: a reply of so many tracks is about to stream. *)
BeginTurn(tracks) ==
    /\ Silenced
    /\ queue' = <<>> /\ source' = Silence
    /\ streamEnded' = (tracks = 0)
    /\ lastTurn' = <<>> /\ variant' = 1

(* push: a frame joins whatever is buffered. *)
Push(chunk) ==
    /\ chunks' = Append(chunks, chunk)
    /\ UNCHANGED <<generation, variant, decoding, pendingDecodes, queue, source, streamEnded,
                   lastTurn>>

(* flushTrack: the buffered frames become a job of this generation. *)
FlushTrack ==
    /\ chunks' = <<>>
    /\ IF chunks = <<>>
       THEN UNCHANGED <<decoding, pendingDecodes>>
       ELSE /\ decoding' = Append(decoding, [gen |-> generation, variant |-> variant,
                                             first |-> Head(chunks)])
            /\ pendingDecodes' = pendingDecodes + 1

(* Mutant: the finished track is filed under the rendering that follows it. *)
MarkTrackMislabelled(next) ==
    /\ chunks' = <<>> /\ variant' = next
    /\ IF chunks = <<>>
       THEN UNCHANGED <<decoding, pendingDecodes>>
       ELSE /\ decoding' = Append(decoding, [gen |-> generation, variant |-> next,
                                             first |-> Head(chunks)])
            /\ pendingDecodes' = pendingDecodes + 1
    /\ UNCHANGED <<generation, queue, source, streamEnded, lastTurn>>

(* markTrack: the track so far is complete, the frames that follow are another. *)
MarkTrack(next) ==
    /\ FlushTrack
    /\ variant' = next
    /\ UNCHANGED <<generation, queue, source, streamEnded, lastTurn>>

(* Mutant: the last track is never decoded. *)
EndTurnUnflushed ==
    /\ streamEnded' = TRUE
    /\ UNCHANGED <<generation, variant, chunks, decoding, pendingDecodes, queue, source,
                   lastTurn>>

(* endTurn: the last track is complete. *)
EndTurn ==
    /\ FlushTrack
    /\ streamEnded' = TRUE
    /\ UNCHANGED <<generation, variant, queue, source, lastTurn>>

-----------------------------------------------------------------------------
(* playNext: the head of a queue starts unless a track is playing. *)
PlayNext(playing, waiting) ==
    IF playing # Silence \/ waiting = <<>>
    THEN /\ source' = playing /\ queue' = waiting
    ELSE /\ source' = Head(waiting) /\ queue' = Tail(waiting)

(* Bytes that do not start with the header of the file cannot be decoded. *)
Decodable(job) == job.first.part = 1

(* Mutant: a decode nobody waits for is counted off. *)
DecodeStaleCounted ==
    /\ decoding # <<>> /\ Head(decoding).gen # generation
    /\ decoding' = Tail(decoding) /\ pendingDecodes' = pendingDecodes - 1
    /\ UNCHANGED <<generation, variant, chunks, queue, source, streamEnded, lastTurn>>

(* A decode from before the last stop has ended: nobody wants its result. *)
DecodeStale ==
    /\ decoding # <<>> /\ Head(decoding).gen # generation
    /\ decoding' = Tail(decoding)
    /\ UNCHANGED <<generation, variant, chunks, pendingDecodes, queue, source, streamEnded,
                   lastTurn>>

Decoded ==
    LET job == Head(decoding)
        track == [variant |-> job.variant, reply |-> job.first.reply, track |-> job.first.track]
    IN  /\ decoding # <<>> /\ job.gen = generation /\ Decodable(job)
        /\ decoding' = Tail(decoding)
        /\ pendingDecodes' = pendingDecodes - 1
        /\ lastTurn' = Append(lastTurn, track)
        /\ PlayNext(source, Append(queue, track))
        /\ UNCHANGED <<generation, variant, chunks, streamEnded>>

DecodeFails ==
    /\ decoding # <<>> /\ Head(decoding).gen = generation
    /\ decoding' = Tail(decoding)
    /\ pendingDecodes' = pendingDecodes - 1
    /\ UNCHANGED <<generation, variant, chunks, queue, source, streamEnded, lastTurn>>

(* onended of the source that is playing. *)
SourceEnds ==
    /\ source # Silence
    /\ PlayNext(Silence, queue)
    /\ UNCHANGED <<generation, variant, chunks, decoding, pendingDecodes, streamEnded, lastTurn>>

(* replay: the kept tracks play again from the first; decodes under way are lost. *)
Replay ==
    /\ lastTurn # <<>>
    /\ Silenced
    /\ streamEnded' = TRUE
    /\ PlayNext(Silence, lastTurn)
    /\ UNCHANGED <<variant, lastTurn>>

(* maybeIdle: the turn's audio is over. *)
IsIdle == streamEnded /\ pendingDecodes = 0 /\ source = Silence /\ queue = <<>>
=============================================================================
