------------------------------ MODULE WebCall ------------------------------
(***************************************************************************)
(* A call in the web client: the hook that ties the microphone, the socket,   *)
(* the player and the status of the page together                            *)
(* (services/web/src/hooks/useCall.ts, lib/protocol.ts, lib/recorder.ts),     *)
(* against the events and frames the gateway's call loop puts on the socket   *)
(* (services/gateway/app/audio/call_loop.py).  A JavaScript handler runs to    *)
(* its next await without interruption and is one action.  Both directions of *)
(* the socket keep their order and lose what is on its way when it drops.      *)
(***************************************************************************)
EXTENDS ReplyPlayer

CONSTANTS
    MaxTracks,       \* renderings of one reply: "native", "english" or both
    MaxParts,        \* frames in one track
    MaxCalls,        \* bound: calls made one after the other
    MaxTaps,         \* bound: recordings started over all calls
    MaxReplays,      \* bound: repeats asked for over all calls
    NoCapture        \* captureRef is null

ASSUME BoundsAssumption ==
    /\ MaxTracks \in Nat \ {0} /\ MaxParts \in Nat \ {0}
    /\ MaxCalls \in Nat /\ MaxTaps \in Nat /\ MaxReplays \in Nat
    /\ NoCapture \notin Nat /\ Silence \notin [variant : Nat, reply : Nat, track : Nat]

VARIABLES
    status,          \* CallState.status, on which the page decides what it shows
    error,           \* whether the page shows an error of the server's
    canReplay,       \* the page offers a repeat
    call,            \* calls started so far; the socket and the recorder are this call's
    mic,             \* recorderRef: "closed", "opening" or "open"
    ws,              \* wsRef: "none", "connecting" or "open"
    capture,         \* captureRef: the call whose recorder it was taken from, or NoCapture
    announced,       \* the reply the player was told of last
    garbled,         \* history: a decode of that reply has failed
    up,              \* recordings on their way to the gateway
    down,            \* events and frames on their way to the page
    heard, taken,    \* the gateway's generation, and the one its turn started with
    serving,         \* the turn the gateway delivers
    replies,         \* replies sent so far
    taps, repeats    \* counters for the bounds

clientVars == <<status, error, canReplay, call, mic, ws, capture, announced, garbled>>
serverVars == <<heard, taken, serving, replies>>
vars == <<playerVars, clientVars, up, down, serverVars, taps, repeats>>

Idle == [stage |-> "idle", tracks |-> 0, track |-> 0, part |-> 0]

Init ==
    /\ PlayerInit
    /\ status = "idle" /\ error = FALSE /\ canReplay = FALSE
    /\ call = 0 /\ mic = "closed" /\ ws = "none" /\ capture = NoCapture
    /\ announced = 0 /\ garbled = FALSE
    /\ up = 0 /\ down = <<>>
    /\ heard = 0 /\ taken = 0 /\ serving = Idle /\ replies = 0
    /\ taps = 0 /\ repeats = 0

-----------------------------------------------------------------------------
(* The callbacks of the player, as the reducer takes them. *)
PlaybackStarted == status' = "speaking" /\ canReplay' = TRUE

PlaybackFinished ==
    /\ status' = IF status = "speaking" THEN "ready" ELSE status
    /\ UNCHANGED canReplay

MaybeIdle == IF IsIdle' THEN PlaybackFinished ELSE UNCHANGED <<status, canReplay>>

(* The connection is over: what was on its way is lost, the gateway forgets. *)
Disconnect ==
    /\ ws' = "none" /\ mic' = "closed"
    /\ up' = 0 /\ down' = <<>>
    /\ heard' = 0 /\ taken' = 0 /\ serving' = Idle /\ UNCHANGED replies

-----------------------------------------------------------------------------
(* The page: starting and ending a call. *)

StartCall ==
    /\ status = "idle" /\ call < MaxCalls
    /\ call' = call + 1
    /\ status' = "connecting" /\ error' = FALSE /\ canReplay' = FALSE
    /\ Reset
    /\ mic' = "opening"
    /\ UNCHANGED <<ws, capture, announced, garbled, up, down, serverVars, taps, repeats>>

MicOpens ==
    /\ mic = "opening"
    /\ mic' = "open" /\ ws' = "connecting"
    /\ UNCHANGED <<playerVars, status, error, canReplay, call, capture, announced, garbled, up, down,
                   serverVars, taps, repeats>>

MicRefused ==
    /\ mic = "opening"
    /\ mic' = "closed" /\ status' = "idle" /\ error' = TRUE
    /\ UNCHANGED <<playerVars, canReplay, call, ws, capture, announced, garbled, up, down, serverVars,
                   taps, repeats>>

(* The socket opens and the gateway answers the start message. *)
SocketOpens ==
    /\ ws = "connecting"
    /\ ws' = "open" /\ down' = <<[type |-> "ready", reply |-> replies]>>
    /\ UNCHANGED <<playerVars, status, error, canReplay, call, mic, capture, announced, garbled, up,
                   serverVars, taps, repeats>>

(* onclose of the current socket, with onerror before it when it never opened. *)
SocketCloses ==
    /\ ws # "none"
    /\ Disconnect /\ Stop
    /\ status' = "idle" /\ error' = (error \/ ws = "connecting")
    /\ UNCHANGED <<canReplay, call, capture, announced, garbled, taps, repeats>>

(* The page of a call is shown; before and after it, the page that starts one. *)
InCall == status \notin {"idle", "connecting"}

(* End call: a running capture is cancelled, and its waiter reports that last. *)
StopCall ==
    /\ InCall /\ ws # "none"
    /\ Disconnect /\ Stop
    /\ capture' = NoCapture
    /\ status' = IF capture = NoCapture THEN status ELSE "ready"
    /\ UNCHANGED <<error, canReplay, call, announced, garbled, taps, repeats>>

-----------------------------------------------------------------------------
(* The page: tap to talk, and repeat. *)

(* A tap while the agent speaks is a barge-in: the player stops at once. *)
StartListening ==
    /\ InCall /\ status # "listening" /\ taps < MaxTaps
    /\ mic = "open" /\ ws = "open" /\ capture = NoCapture
    /\ Stop
    /\ status' = "listening" /\ error' = FALSE
    /\ capture' = call /\ taps' = taps + 1
    /\ UNCHANGED <<canReplay, call, mic, ws, announced, garbled, up, down, serverVars, repeats>>

(* Samples come in, and with them the end of speech and the time limit, as long *)
(* as the recorder the capture was taken from is open.                        *)
CaptureRuns == capture = call /\ mic = "open"

(* The capture ends by a tap, by silence or by its time limit; it sends a     *)
(* recording if there was speech in it.                                       *)
EndListening ==
    /\ CaptureRuns
    /\ capture' = NoCapture
    /\ \/ status' = "processing" /\ up' = up + 1
       \/ status' = "ready" /\ UNCHANGED up
    /\ UNCHANGED <<playerVars, error, canReplay, call, mic, ws, announced, garbled, down, serverVars,
                   taps, repeats>>

CanRepeatNow == canReplay /\ status \in {"ready", "speaking"}

AskRepeat ==
    /\ CanRepeatNow /\ capture = NoCapture
    /\ repeats < MaxReplays /\ repeats' = repeats + 1
    /\ Replay /\ PlaybackStarted
    /\ UNCHANGED <<error, call, mic, ws, capture, announced, garbled, up, down, serverVars, taps>>

-----------------------------------------------------------------------------
(* The page: what the player's decoder and source report. *)

DecodeEnds ==
    /\ \/ DecodeStale /\ UNCHANGED <<status, canReplay, garbled>>
       \/ DecodeFails /\ MaybeIdle /\ garbled' = TRUE
       \/ /\ Decoded
          /\ IF source = Silence THEN PlaybackStarted ELSE UNCHANGED <<status, canReplay>>
          /\ UNCHANGED garbled
    /\ UNCHANGED <<error, call, mic, ws, capture, announced, up, down, serverVars, taps,
                   repeats>>

(* Mutant: nobody looks whether the track that ended was the last. *)
TrackEndsUnnoticed ==
    /\ SourceEnds
    /\ IF queue # <<>> THEN PlaybackStarted ELSE UNCHANGED <<status, canReplay>>
    /\ UNCHANGED <<error, call, mic, ws, capture, announced, garbled, up, down, serverVars, taps,
                   repeats>>

TrackEnds ==
    /\ SourceEnds
    /\ IF queue # <<>> THEN PlaybackStarted ELSE MaybeIdle
    /\ UNCHANGED <<error, call, mic, ws, capture, announced, garbled, up, down, serverVars, taps,
                   repeats>>

-----------------------------------------------------------------------------
(* The page: events and frames from the gateway. *)

Incoming(type) == ws = "open" /\ down # <<>> /\ Head(down).type = type /\ down' = Tail(down)

OnReady ==
    /\ Incoming("ready")
    /\ status' = "ready"
    /\ UNCHANGED <<playerVars, error, canReplay, announced, garbled>>

(* Mutant: the repeat stays on offer when a new reply begins. *)
OnReplyOffering ==
    /\ Incoming("reply")
    /\ BeginTurn(Head(down).tracks)
    /\ status' = IF Head(down).tracks = 0 THEN "ready" ELSE status
    /\ announced' = Head(down).reply /\ garbled' = FALSE
    /\ UNCHANGED <<error, canReplay>>

(* A reply with no audio to come ends the turn; any other leaves it to the     *)
(* player to change the status.                                               *)
OnReply ==
    /\ Incoming("reply")
    /\ BeginTurn(Head(down).tracks)
    /\ status' = IF Head(down).tracks = 0 THEN "ready" ELSE status
    /\ canReplay' = FALSE /\ announced' = Head(down).reply /\ garbled' = FALSE
    /\ UNCHANGED error

OnAudioTrack ==
    /\ Incoming("audio_track")
    /\ MarkTrack(Head(down).track)
    /\ UNCHANGED <<status, error, canReplay, announced, garbled>>

OnFrame ==
    /\ Incoming("frame")
    /\ Push([reply |-> Head(down).reply, track |-> Head(down).track, part |-> Head(down).part])
    /\ UNCHANGED <<status, error, canReplay, announced, garbled>>

(* Mutant: the page is not told that the audio was cut short. *)
OnBargeInUntold ==
    /\ Incoming("barge_in")
    /\ Stop
    /\ UNCHANGED <<status, canReplay, error, announced, garbled>>

OnAudioEnd ==
    /\ Incoming("audio_end")
    /\ EndTurn /\ MaybeIdle
    /\ UNCHANGED <<error, announced, garbled>>

OnBargeIn ==
    /\ Incoming("barge_in")
    /\ Stop /\ PlaybackFinished
    /\ UNCHANGED <<error, announced, garbled>>

OnError ==
    /\ Incoming("error")
    /\ error' = TRUE
    /\ UNCHANGED <<playerVars, status, canReplay, announced, garbled>>

Receive ==
    /\ \/ OnReady \/ OnReply \/ OnAudioTrack \/ OnFrame \/ OnAudioEnd \/ OnBargeIn \/ OnError
    /\ UNCHANGED <<call, mic, ws, capture, up, serverVars, taps, repeats>>

-----------------------------------------------------------------------------
(* The gateway, reduced to what it puts on the socket: run_call's receiver and *)
(* _deliver, with the fence between two frames.                               *)

Current == taken = heard
Emit(event) == down' = Append(down, event)
AudioEnd == [type |-> "audio_end", reply |-> replies]

GatewayHears ==
    /\ up > 0
    /\ up' = up - 1 /\ heard' = heard + 1
    /\ UNCHANGED <<down, taken, serving, replies>>

GatewayTakes ==
    /\ serving = Idle /\ taken < heard
    /\ taken' = heard /\ serving' = [Idle EXCEPT !.stage = "thinking"]
    /\ UNCHANGED <<up, down, heard, replies>>

(* Before the reply is sent a newer utterance ends the turn without a word. *)
GatewayReplies ==
    /\ serving.stage = "thinking" /\ Current
    /\ replies' = replies + 1
    /\ \E n \in 0..MaxTracks :
         LET reply == [type |-> "reply", reply |-> replies', tracks |-> n]
         IN  IF n = 0
             THEN /\ down' = Append(Append(down, reply), [AudioEnd EXCEPT !.reply = replies'])
                  /\ serving' = Idle
             ELSE /\ Emit(reply)
                  /\ serving' = [stage |-> "synthesis", tracks |-> n, track |-> 1, part |-> 1]
    /\ UNCHANGED <<up, heard, taken>>

(* Also once a track has been synthesised; nothing tells the page. *)
GatewayDropsTurn ==
    /\ serving.stage \in {"thinking", "synthesis"} /\ ~Current
    /\ serving' = Idle
    /\ UNCHANGED <<up, down, heard, taken, replies>>

GatewayCannotSpeak ==
    /\ serving.stage = "synthesis" /\ Current
    /\ Emit([type |-> "error", reply |-> replies])
    /\ serving' = Idle
    /\ UNCHANGED <<up, heard, taken, replies>>

GatewaySpeaks ==
    /\ serving.stage = "synthesis" /\ Current
    /\ serving' = [serving EXCEPT !.stage = "frames"]
    /\ IF serving.tracks > 1
       THEN Emit([type |-> "audio_track", reply |-> replies, track |-> serving.track])
       ELSE UNCHANGED down
    /\ UNCHANGED <<up, heard, taken, replies>>

GatewaySendsFrame ==
    LET last == serving.part = MaxParts
        frame == [type |-> "frame", reply |-> replies, track |-> serving.track,
                  part |-> serving.part]
    IN  /\ serving.stage = "frames" /\ Current
        /\ IF last /\ serving.track = serving.tracks
           THEN /\ down' = Append(Append(down, frame), AudioEnd) /\ serving' = Idle
           ELSE /\ Emit(frame)
                /\ serving' = IF last
                              THEN [serving EXCEPT !.stage = "synthesis", !.track = @ + 1,
                                                   !.part = 1]
                              ELSE [serving EXCEPT !.part = @ + 1]
        /\ UNCHANGED <<up, heard, taken, replies>>

GatewayCutsShort ==
    /\ serving.stage = "frames" /\ ~Current
    /\ Emit([type |-> "barge_in", reply |-> replies]) /\ serving' = Idle
    /\ UNCHANGED <<up, heard, taken, replies>>

Gateway ==
    /\ ws = "open"
    /\ \/ GatewayHears \/ GatewayTakes \/ GatewayReplies \/ GatewayDropsTurn
       \/ GatewayCannotSpeak \/ GatewaySpeaks \/ GatewaySendsFrame \/ GatewayCutsShort
    /\ UNCHANGED <<playerVars, clientVars, taps, repeats>>

-----------------------------------------------------------------------------
Next ==
    \/ StartCall \/ MicOpens \/ MicRefused \/ SocketOpens \/ SocketCloses \/ StopCall
    \/ StartListening \/ EndListening \/ AskRepeat
    \/ DecodeEnds \/ TrackEnds \/ Receive \/ Gateway

Spec == Init /\ [][Next]_vars

(* The browser delivers what has arrived, decodes end, tracks come to their    *)
(* end, a recording stops at its limit of 30 seconds (recorder.ts:107), and   *)
(* the gateway's tasks are scheduled.  The caller and the network owe nothing. *)
FairSpec ==
    /\ Spec
    /\ WF_vars(Receive) /\ WF_vars(DecodeEnds) /\ WF_vars(TrackEnds)
    /\ WF_vars(EndListening) /\ WF_vars(Gateway)

-----------------------------------------------------------------------------
(* Properties.                                                              *)

Frames == [reply : 1..replies, track : 1..MaxTracks, part : 1..MaxParts]
Tracks == [variant : 1..MaxTracks, reply : 1..replies, track : 1..MaxTracks]
Events == [type : {"ready", "audio_end", "barge_in", "error"}, reply : 0..replies]
          \cup [type : {"reply"}, reply : 1..replies, tracks : 0..MaxTracks]
          \cup [type : {"audio_track"}, reply : 1..replies, track : 1..MaxTracks]
          \cup [type : {"frame"}, reply : 1..replies, track : 1..MaxTracks, part : 1..MaxParts]

(* Every variable of the player, the page and the gateway's side has its type. *)
TypeOK ==
    /\ generation \in Nat /\ variant \in 1..MaxTracks /\ chunks \in Seq(Frames)
    /\ decoding \in Seq([gen : Nat, variant : 1..MaxTracks, first : Frames])
    /\ pendingDecodes \in Nat /\ queue \in Seq(Tracks) /\ source \in Tracks \cup {Silence}
    /\ streamEnded \in BOOLEAN /\ lastTurn \in Seq(Tracks)
    /\ status \in {"idle", "connecting", "ready", "listening", "processing", "speaking"}
    /\ error \in BOOLEAN /\ canReplay \in BOOLEAN
    /\ call \in 0..MaxCalls /\ mic \in {"closed", "opening", "open"}
    /\ ws \in {"none", "connecting", "open"} /\ capture \in 1..MaxCalls \cup {NoCapture}
    /\ up \in Nat /\ down \in Seq(Events) /\ heard \in Nat /\ taken \in 0..heard
    /\ serving \in [stage : {"idle", "thinking", "synthesis", "frames"},
                    tracks : 0..MaxTracks, track : 0..MaxTracks, part : 0..MaxParts]
    /\ replies \in Nat /\ announced \in 0..replies /\ garbled \in BOOLEAN
    /\ taps \in 0..MaxTaps /\ repeats \in 0..MaxReplays

(* The player counts exactly the decodes whose result it still wants: those   *)
(* begun since the last stop, which are the last of the chain.  A wrong count *)
(* would leave the page speaking for ever or end a turn early.                *)
DecodesAreCounted ==
    /\ pendingDecodes <= Len(decoding)
    /\ \A i \in 1..Len(decoding) :
          decoding[i].gen = generation <=> i > Len(decoding) - pendingDecodes

(* What is playing and what waits is the end of the reply that is kept for a   *)
(* repeat, in the order in which its tracks arrived and under their own names. *)
PlaysTheKeptReply ==
    /\ Len(queue) + (IF source = Silence THEN 0 ELSE 1) <= Len(lastTurn)
    /\ queue = SubSeq(lastTurn, Len(lastTurn) - Len(queue) + 1, Len(lastTurn))
    /\ source # Silence => source = lastTurn[Len(lastTurn) - Len(queue)]
    /\ \A i \in 1..Len(lastTurn) :
          /\ lastTurn[i].variant = lastTurn[i].track
          /\ \A j \in 1..(i-1) : lastTurn[j].track < lastTurn[i].track

(* Nothing of an older reply is heard, or kept, once a newer one has been      *)
(* announced, whatever decodes and stops were under way.                      *)
OnlyTheLatestReply ==
    /\ \A i \in 1..Len(lastTurn) : lastTurn[i].reply = announced
    /\ \A i \in 1..Len(chunks) : chunks[i].reply = announced
    /\ \A i \in 1..Len(decoding) :
          decoding[i].gen = generation => decoding[i].first.reply = announced

(* While the page says the agent speaks, the player has something to play, to  *)
(* decode or to wait for, so that its onIdle is still to come.                *)
SpeakingIsTrue == status = "speaking" /\ ws = "open" => ~IsIdle

(* A repeat that is offered has something to play. *)
RepeatIsThere == canReplay => lastTurn # <<>>

(* Audio that was announced while the page shows "Thinking" gets it out of      *)
(* there: it is heard, an error is shown, or a part of it could not be decoded. *)
AnnouncedAudioIsHeard ==
    (status = "processing" /\ ws = "open" /\ ~IsIdle)
        ~> (status # "processing" \/ ws # "open" \/ error \/ garbled)

(* The agent's turn to speak comes to an end. *)
SpeakingEnds ==
    (status = "speaking" /\ ws = "open") ~> (status # "speaking" \/ ws # "open" \/ error)

(* Nothing plays while the caller is being recorded: the agent falls silent    *)
(* the moment the caller starts (useCall.ts:205).                             *)
SilentWhileRecording == capture # NoCapture => source = Silence

(* A page that says "Tap to speak" (MicDock.tsx:17) starts a recording on a tap. *)
ReadyToTalk == status = "ready" => mic = "open" /\ ws = "open" /\ capture = NoCapture
=============================================================================
