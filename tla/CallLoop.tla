------------------------------ MODULE CallLoop ------------------------------
(***************************************************************************)
(* One voice call (gateway/app/audio/call_loop.py): a receiver coroutine     *)
(* that stamps and queues what the caller says, and a main loop that takes   *)
(* the newest utterance through speech recognition, the call graph, the      *)
(* translation and the speech synthesis, dropping the output of a turn       *)
(* once a newer utterance has arrived.  One action per stretch of code       *)
(* between two awaits.                                                       *)
(*                                                                           *)
(* The call graph is reduced to what the loop can tell of it (runner.py):     *)
(* whether it is paused at a confirmation, and what a resume does.  A        *)
(* confirmation is named by the generation of the turn that asked for it.    *)
(***************************************************************************)
EXTENDS Confirmation, SequencesExt

CONSTANTS
    MaxUtterances,  \* bound on what the caller says in one call
    MaxTracks,      \* renderings of a reply (2 when the client wants both languages)
    MaxChunks,      \* bound on the chunks one rendering is cut into
    Replies         \* what an utterance may say, as the recogniser hears it

ASSUME LoopAssumption ==
    /\ Replies \subseteq Seq([word : STRING, mark : Marks]) \ {<<>>}
    /\ MaxUtterances \in Nat
    /\ MaxTracks \in Nat \ {0}
    /\ MaxChunks \in Nat

VARIABLES
    calling,     \* the caller is still on the line
    receiver,    \* _receiver: "listening", "returned", or "raised"
    queue,       \* session.queue
    generation,  \* session.generation
    awaiting,    \* session.awaiting_confirmation, 0 for None
    pc,          \* where the main loop waits
    turn,        \* my_generation and the audio of the turn in hand
    out,         \* what is being delivered: text?, confirmation, tracks, chunks left
    paused,      \* the confirmation the graph's checkpoint is paused at, 0 for none
    (* History, read by properties only. *)
    read,        \* confirmations that went out to the caller in a reply
    writes,      \* orders changed by a resumed graph: what was asked, and how answered
    replied,     \* the last turn whose reply went out
    closed       \* the last turn the client was told the end of

session == <<queue, generation, awaiting>>
history == <<read, writes, replied, closed>>
vars == <<calling, receiver, session, pc, turn, out, paused, history>>

(* An utterance is what it says.  An empty frame, b"", is also the marker that *)
(* ends the call.                                                           *)
Empty == <<>>
Audio == Replies \cup {Empty}

Waits == {"get", "asr", "transcript", "graph", "ran", "localize", "reply", "tts", "stream", "ended"}
Generations == 0 .. MaxUtterances

(* What _deliver is given: a text or none, and the confirmation it carries.   *)
Say(text, prompt) == [text |-> text, prompt |-> prompt, tracks |-> 0, chunks |-> 0]
NoOutput == Say(FALSE, 0)

Init ==
    /\ calling = TRUE
    /\ receiver = "listening"
    /\ queue = <<>>
    /\ generation = 0
    /\ awaiting = 0
    /\ pc = "get"
    /\ turn = [gen |-> 0, audio |-> Empty]
    /\ out = NoOutput
    /\ paused = 0
    /\ read = {}
    /\ writes = {}
    /\ replied = 0
    /\ closed = 0

StillCurrent == generation = turn.gen
Goto(p) == pc' = p
-----------------------------------------------------------------------------
(* The receiver, and the caller behind it. *)

(* A binary frame: stamped and queued.  An empty one is not told apart here. *)
Speak(a) ==
    /\ calling /\ receiver = "listening" /\ pc # "ended"
    /\ generation < MaxUtterances
    /\ generation' = generation + 1
    /\ queue' = Append(queue, a)
    /\ UNCHANGED <<calling, receiver, awaiting, pc, turn, out, paused, history>>

(* Mutant: no marker is queued. *)
HangUpUnnoticed ==
    /\ calling /\ pc # "ended"
    /\ calling' = FALSE
    /\ receiver = "listening"
    /\ receiver' = "returned"
    /\ UNCHANGED <<session, pc, turn, out, paused, history>>

(* A hangup message or a lost connection: the receiver, if it still runs,     *)
(* queues the marker and returns.  The generation does not move.            *)
HangUp ==
    /\ calling /\ pc # "ended"
    /\ calling' = FALSE
    /\ \/ /\ receiver = "listening"
          /\ receiver' = "returned"
          /\ queue' = Append(queue, Empty)
       \/ /\ receiver = "raised"
          /\ UNCHANGED <<receiver, queue>>
    /\ UNCHANGED <<generation, awaiting, pc, turn, out, paused, history>>

(* A text frame that parses to a number, a string or a list: payload.get      *)
(* raises, and the receiver's task dies with nobody awaiting it.            *)
OddFrame ==
    /\ calling /\ pc # "ended"
    /\ receiver = "listening"
    /\ receiver' = "raised"
    /\ UNCHANGED <<calling, session, pc, turn, out, paused, history>>
-----------------------------------------------------------------------------
(* Taking a turn. *)

(* Mutant: the older utterances stay in the queue. *)
NextUtteranceUndrained ==
    /\ pc = "get" /\ queue # <<>>
    /\ queue' = Tail(queue)
    /\ \/ /\ Head(queue) = Empty
          /\ Goto("ended")
          /\ UNCHANGED turn
       \/ /\ Head(queue) # Empty
          /\ turn' = [gen |-> generation, audio |-> Head(queue)]
          /\ Goto("asr")
    /\ UNCHANGED <<calling, receiver, generation, awaiting, out, paused, history>>

(* The newest of what is queued; an empty one ends the call. *)
NextUtterance ==
    /\ pc = "get" /\ queue # <<>>
    /\ queue' = <<>>
    /\ \/ /\ Last(queue) = Empty
          /\ Goto("ended")
          /\ UNCHANGED turn
       \/ /\ Last(queue) # Empty
          /\ turn' = [gen |-> generation, audio |-> Last(queue)]
          /\ Goto("asr")
    /\ UNCHANGED <<calling, receiver, generation, awaiting, out, paused, history>>

(* A fence after a blocking step, where a superseded turn just returns. *)
Superseded ==
    /\ pc \in {"transcript", "ran", "localize", "reply", "tts"}
    /\ ~StillCurrent
    /\ Goto("get")
    /\ UNCHANGED <<calling, receiver, session, turn, out, paused, history>>

(* Mutant: no line when recognition fails. *)
ASRFailsSilently ==
    /\ pc = "asr"
    /\ Goto("get")
    /\ UNCHANGED <<calling, receiver, session, turn, out, paused, history>>

(* Speech recognition fails: an apology, which repeats a confirmation that is *)
(* still open, unless the caller has spoken again.                          *)
ASRFails ==
    /\ pc = "asr"
    /\ \/ /\ StillCurrent
          /\ out' = Say(TRUE, awaiting)
          /\ Goto("localize")
       \/ /\ ~StillCurrent
          /\ Goto("get")
          /\ UNCHANGED out
    /\ UNCHANGED <<calling, receiver, session, turn, paused, history>>

(* The transcript goes to the client whether or not the turn is current. *)
Transcribe ==
    /\ pc = "asr"
    /\ Goto("transcript")
    /\ UNCHANGED <<calling, receiver, session, turn, out, paused, history>>

(* With a confirmation open, an unclear answer asks again; anything else goes *)
(* to the graph.                                                            *)
Understand ==
    /\ pc = "transcript" /\ StillCurrent
    /\ \/ /\ awaiting # 0 /\ Interpretation(turn.audio) = "unclear"
          /\ out' = Say(TRUE, awaiting)
          /\ Goto("localize")
       \/ /\ awaiting = 0 \/ Interpretation(turn.audio) # "unclear"
          /\ out' = NoOutput
          /\ Goto("graph")
    /\ UNCHANGED <<calling, receiver, session, turn, paused, history>>
-----------------------------------------------------------------------------
(* run_turn, on a worker thread: it takes effect whatever has arrived since. *)

Write == [asked |-> paused, awaited |-> awaiting, audio |-> turn.audio, gen |-> turn.gen]

(* Mutant: the pause outlives its answer. *)
ResumeGraphKeepingPause ==
    /\ pc = "graph" /\ awaiting # 0
    /\ writes' \in IF paused # 0 /\ Interpretation(turn.audio) = "yes"
                     THEN {writes, writes \cup {Write}} ELSE {writes}
    /\ \E said \in BOOLEAN : out' = Say(said, paused)
    /\ Goto("ran")
    /\ UNCHANGED <<calling, receiver, session, turn, paused, read, replied, closed>>

(* A resume of a paused graph runs the rest of the agent, which on a yes      *)
(* changes the order or is refused.  Of a graph that is not paused it is a   *)
(* no-op that returns the state as it stands.                               *)
ResumeGraph ==
    /\ pc = "graph" /\ awaiting # 0
    /\ writes' \in IF paused # 0 /\ Interpretation(turn.audio) = "yes"
                     THEN {writes, writes \cup {Write}} ELSE {writes}
    /\ paused' = 0
    /\ \E said \in BOOLEAN : out' = Say(said, 0)
    /\ Goto("ran")
    /\ UNCHANGED <<calling, receiver, session, turn, read, replied, closed>>

(* A fresh utterance discards whatever pause the checkpoint held.  A turn     *)
(* that pauses has a prompt to speak; another may come back with no words.  *)
RunGraph ==
    /\ pc = "graph" /\ awaiting = 0
    /\ paused' \in {0, turn.gen}
    /\ \E said \in BOOLEAN : out' = Say(said \/ paused' # 0, paused')
    /\ Goto("ran")
    /\ UNCHANGED <<calling, receiver, session, turn, history>>

(* An exception no handler expects, from the recogniser's reply or from the   *)
(* graph before or after its effects, unwinds run_call.                     *)
TurnRaises ==
    /\ pc \in {"asr", "graph", "ran"}
    /\ Goto("ended")
    /\ UNCHANGED <<calling, receiver, session, turn, out, paused, history>>
-----------------------------------------------------------------------------
(* Delivering a reply. *)

SendReply ==
    /\ replied' = turn.gen
    /\ read' = read \cup ({out.prompt} \ {0})
    /\ \/ /\ out.text
          /\ \E n \in 1 .. MaxTracks : out' = [out EXCEPT !.tracks = n]
       \/ /\ ~out.text
          /\ UNCHANGED out
    /\ Goto("reply")

(* Mutant: a turn without a confirmation leaves the last one open. *)
TakeResultKeepingOpen ==
    /\ pc = "ran" /\ StillCurrent
    /\ awaiting' = IF out.prompt = 0 THEN awaiting ELSE out.prompt
    /\ \/ /\ out.text
          /\ Goto("localize")
          /\ UNCHANGED <<out, read, replied>>
       \/ /\ ~out.text
          /\ SendReply
    /\ UNCHANGED <<calling, receiver, queue, generation, turn, paused, writes, closed>>

(* The confirmation of the turn becomes the session's, then the reply is      *)
(* localized on a thread; one without words goes out at once.               *)
TakeResult ==
    /\ pc = "ran" /\ StillCurrent
    /\ awaiting' = out.prompt
    /\ \/ /\ out.text
          /\ Goto("localize")
          /\ UNCHANGED <<out, read, replied>>
       \/ /\ ~out.text
          /\ SendReply
    /\ UNCHANGED <<calling, receiver, queue, generation, turn, paused, writes, closed>>

(* Mutant: no fence before the reply. *)
ReplyUnfenced ==
    /\ pc = "localize"
    /\ SendReply
    /\ UNCHANGED <<calling, receiver, session, turn, paused, writes, closed>>

Reply ==
    /\ pc = "localize" /\ StillCurrent
    /\ SendReply
    /\ UNCHANGED <<calling, receiver, session, turn, paused, writes, closed>>

(* audio_end at once for a reply without words, else its first track. *)
AfterReply ==
    /\ pc = "reply" /\ StillCurrent
    /\ \/ /\ out.text
          /\ Goto("tts")
          /\ UNCHANGED closed
       \/ /\ ~out.text
          /\ closed' = turn.gen
          /\ Goto("get")
    /\ UNCHANGED <<calling, receiver, session, turn, out, paused, read, writes, replied>>

(* Synthesis fails: the error event is the turn's last word. *)
TTSFails ==
    /\ pc = "tts" /\ StillCurrent
    /\ closed' = turn.gen
    /\ Goto("get")
    /\ UNCHANGED <<calling, receiver, session, turn, out, paused, read, writes, replied>>

Synthesize ==
    /\ pc = "tts" /\ StillCurrent
    /\ \E n \in 0 .. MaxChunks : out' = [out EXCEPT !.chunks = n]
    /\ Goto("stream")
    /\ UNCHANGED <<calling, receiver, session, turn, paused, history>>

(* Mutant: one chunk too many. *)
SendChunkPastEnd ==
    /\ pc = "stream" /\ StillCurrent
    /\ out' = [out EXCEPT !.chunks = @ - 1]
    /\ UNCHANGED <<calling, receiver, session, pc, turn, paused, history>>

SendChunk ==
    /\ pc = "stream" /\ out.chunks > 0 /\ StillCurrent
    /\ out' = [out EXCEPT !.chunks = @ - 1]
    /\ UNCHANGED <<calling, receiver, session, pc, turn, paused, history>>

BargeIn ==
    /\ pc = "stream" /\ out.chunks > 0 /\ ~StillCurrent
    /\ Goto("get")
    /\ UNCHANGED <<calling, receiver, session, turn, out, paused, history>>

(* No fence after a track's last chunk: audio_end goes out even for a turn    *)
(* that has been superseded since.                                          *)
EndTrack ==
    /\ pc = "stream" /\ out.chunks = 0
    /\ \/ /\ out.tracks > 1
          /\ out' = [out EXCEPT !.tracks = @ - 1]
          /\ Goto("tts")
          /\ UNCHANGED closed
       \/ /\ out.tracks = 1
          /\ closed' = turn.gen
          /\ Goto("get")
          /\ UNCHANGED out
    /\ UNCHANGED <<calling, receiver, session, turn, paused, read, writes, replied>>
-----------------------------------------------------------------------------
Caller == HangUp \/ OddFrame \/ \E a \in Audio : Speak(a)

ProcessTurns ==
    \/ NextUtterance \/ Superseded \/ ASRFails \/ Transcribe \/ Understand
    \/ ResumeGraph \/ RunGraph \/ TurnRaises \/ TakeResult \/ Reply \/ AfterReply
    \/ TTSFails \/ Synthesize \/ SendChunk \/ BargeIn \/ EndTrack

Next == Caller \/ ProcessTurns

Spec == Init /\ [][Next]_vars

(* Every await of the main loop ends: its threads call providers with a       *)
(* timeout, and the event loop runs whatever is ready.                      *)
FairSpec == Spec /\ WF_vars(ProcessTurns)
-----------------------------------------------------------------------------
Output == [text : BOOLEAN, prompt : Generations, tracks : 0 .. MaxTracks, chunks : 0 .. MaxChunks]
Writes == [asked : Generations, awaited : Generations, audio : Audio, gen : Generations]

(* Every variable has its type. *)
TypeOK ==
    /\ calling \in BOOLEAN
    /\ receiver \in {"listening", "returned", "raised"}
    /\ queue \in Seq(Audio)
    /\ generation \in Generations
    /\ awaiting \in Generations
    /\ pc \in Waits
    /\ turn \in [gen : Generations, audio : Audio]
    /\ out \in Output
    /\ paused \in Generations
    /\ read \subseteq Generations
    /\ writes \subseteq Writes
    /\ replied \in Generations
    /\ closed \in Generations

(* The fence counts the queue: the generations that passed since the turn in  *)
(* hand was taken are exactly the utterances that wait, the marker aside.  So *)
(* a turn is dropped only when a newer utterance is there to replace it, and *)
(* the utterance taken is the newest.                                       *)
FenceCountsQueue ==
    pc # "ended" =>
      Len(queue) = generation - turn.gen + IF receiver = "returned" THEN 1 ELSE 0

(* A write answers the confirmation that was open, with a clear yes, in an    *)
(* utterance that came after the turn that asked; and no confirmation is     *)
(* spent twice, however turns are superseded or recognition fails.          *)
WritesWereConfirmed ==
    /\ \A x \in writes : /\ x.asked = x.awaited /\ x.asked < x.gen
                         /\ Interpretation(x.audio) = "yes"
    /\ \A x, y \in writes : x.asked = y.asked => x = y

(* Where no comma hides it, a negative word is never shadowed by an           *)
(* affirmative one beside it: the order stays as it is                        *)
(* (confirmation.py:50-53).                                                 *)
RefusalsWriteNothing == \A x \in writes : ~Refuses(x.audio)

(* The session waits for an answer that the graph has had. *)
AwaitsInVain == pc \notin {"ran", "ended"} /\ awaiting # 0 /\ paused # awaiting

(* That happens in one way only, by a turn that answered and was superseded    *)
(* before its result became the session's (call_loop.py:174-179,              *)
(* runner.py:65-67).                                                        *)
OnlySupersededAwaitInVain ==
    [][AwaitsInVain' => AwaitsInVain \/ (pc = "ran" /\ ~StillCurrent)]_vars

(* A reply goes out only for the newest utterance, and at most one per turn:  *)
(* the caller never reads an answer to something said before the last thing  *)
(* answered.                                                                *)
RepliesMoveForward ==
    [][replied' # replied => replied' > replied /\ replied' = generation]_vars

(* The last thing said is answered to the end, with audio_end or an error, or *)
(* something newer is said, or the call ends.                               *)
LatestIsAnswered ==
    \A n \in 1 .. MaxUtterances :
      generation = n ~> (generation > n \/ closed = n \/ pc = "ended")

(* When the receiver has seen the caller go, the call ends, whatever turn is  *)
(* in hand and whatever is queued.                                          *)
MarkerEndsCall == receiver = "returned" ~> pc = "ended"
-----------------------------------------------------------------------------
(* reschedule.py:12-13 says that nothing gets written until the caller has    *)
(* heard the slot read back and said yes.                                   *)
WritesWereReadBack == \A x \in writes : x.asked \in read

=============================================================================
