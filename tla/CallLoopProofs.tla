--------------------------- MODULE CallLoopProofs ---------------------------
(***************************************************************************)
(* Theorems about the call loop, for calls of any length and any replies.    *)
(* That a write answers the right confirmation rests on what the fence says   *)
(* about the queue: an utterance that is taken is newer than the turn whose   *)
(* confirmation is open, because the queue holds as many utterances as the    *)
(* generation has moved since that turn was taken.                           *)
(***************************************************************************)
EXTENDS CallLoop, TLAPS

(* The main loop has a turn in hand whose reply has not gone out. *)
Unanswered == {"asr", "transcript", "graph", "ran", "localize"}
(* ... and whose result has not reached the session. *)
Undecided == {"asr", "transcript", "graph", "ran"}

(* Behind the marker nothing is queued. *)
MarkerIsLast ==
    pc # "ended" /\ receiver = "returned" => queue # <<>> /\ Last(queue) = Empty

TurnOrder ==
    /\ turn.gen <= generation
    /\ awaiting <= turn.gen
    /\ replied <= turn.gen
    /\ pc \in Undecided => awaiting < turn.gen
    /\ pc \in Unanswered => replied < turn.gen

(* The graph is paused at the open confirmation, or no longer paused. *)
OpenPause ==
    /\ paused <= turn.gen
    /\ awaiting # 0 => paused \in {0, awaiting}
    /\ pc = "ran" => out.prompt = paused

(* A confirmation that was spent is older than the turn in hand, and is not   *)
(* the one the graph is paused at.                                          *)
SpentIsOld ==
    \A x \in writes : x.gen <= turn.gen /\ x.asked # 0 /\ x.asked # paused

LoopInv ==
    /\ TypeOK /\ FenceCountsQueue /\ MarkerIsLast /\ TurnOrder /\ OpenPause
    /\ SpentIsOld /\ WritesWereConfirmed

Fence == FenceCountsQueue /\ MarkerIsLast /\ TurnOrder
Writing == OpenPause /\ SpentIsOld /\ WritesWereConfirmed
-----------------------------------------------------------------------------
LEMMA InitLoop == Init => LoopInv
  BY LoopAssumption
     DEF Init, LoopInv, TypeOK, FenceCountsQueue, MarkerIsLast, TurnOrder, OpenPause,
         SpentIsOld, WritesWereConfirmed, Waits, Generations, Output, NoOutput, Say, Audio,
         Undecided, Unanswered

(* An utterance or the marker goes to the end of the queue. *)
LEMMA SpeakStep ==
    ASSUME LoopInv, NEW a \in Audio, Speak(a)
    PROVE  LoopInv'
  <1> USE LoopAssumption DEF LoopInv, Speak, history
  <1>1. queue' \in Seq(Audio) /\ Len(queue') = Len(queue) + 1
    BY DEF TypeOK
  <1>2. TypeOK'
    BY <1>1 DEF TypeOK, Generations, Output, Waits, Writes
  <1>3. FenceCountsQueue' /\ MarkerIsLast' /\ TurnOrder'
    BY <1>1 DEF TypeOK, FenceCountsQueue, MarkerIsLast, TurnOrder, Generations
  <1>4. Writing'
    BY DEF Writing, OpenPause, SpentIsOld, WritesWereConfirmed
  <1> QED
    BY <1>2, <1>3, <1>4 DEF Writing

LEMMA HangUpStep ==
    ASSUME LoopInv, HangUp
    PROVE  LoopInv'
  <1> USE LoopAssumption DEF LoopInv, HangUp, history
  <1>1. CASE receiver = "listening"
    <2>1. /\ queue' \in Seq(Audio) /\ Len(queue') = Len(queue) + 1
          /\ queue' # <<>> /\ queue'[Len(queue')] = Empty
      BY <1>1 DEF TypeOK, Audio
    <2>2. TypeOK'
      BY <1>1, <2>1 DEF TypeOK
    <2>3. FenceCountsQueue' /\ MarkerIsLast' /\ TurnOrder'
      BY <1>1, <2>1 DEF TypeOK, FenceCountsQueue, MarkerIsLast, TurnOrder, Generations, Last
    <2>4. Writing'
      BY <1>1 DEF Writing, OpenPause, SpentIsOld, WritesWereConfirmed
    <2> QED
      BY <2>2, <2>3, <2>4 DEF Writing
  <1>2. CASE receiver = "raised"
    BY <1>2 DEF TypeOK, FenceCountsQueue, MarkerIsLast, TurnOrder, OpenPause, SpentIsOld,
                WritesWereConfirmed
  <1> QED
    BY <1>1, <1>2

LEMMA OddFrameStep ==
    ASSUME LoopInv, OddFrame
    PROVE  LoopInv'
  BY DEF LoopInv, OddFrame, session, history, TypeOK, FenceCountsQueue, MarkerIsLast,
         TurnOrder, OpenPause, SpentIsOld, WritesWereConfirmed

(* The utterance taken is newer than every turn before it. *)
LEMMA NextUtteranceStep ==
    ASSUME LoopInv, NextUtterance
    PROVE  LoopInv'
  <1> USE LoopAssumption DEF LoopInv, NextUtterance, Goto, history
  <1>0. queue' = <<>> /\ queue' \in Seq(Audio) /\ Len(queue') = 0
    OBVIOUS
  <1>1. CASE Last(queue) = Empty
    BY <1>0, <1>1 DEF TypeOK, FenceCountsQueue, MarkerIsLast, TurnOrder, OpenPause, SpentIsOld,
                WritesWereConfirmed, Waits, Undecided, Unanswered
  <1>2. CASE Last(queue) # Empty
    <2>1. Len(queue) \in Nat \ {0} /\ Last(queue) \in Audio
      BY DEF TypeOK, Last
    <2>2. receiver # "returned" /\ turn.gen < generation
      BY <1>2, <2>1 DEF TypeOK, MarkerIsLast, FenceCountsQueue, Generations
    <2>3. TypeOK'
      BY <1>0, <1>2, <2>1 DEF TypeOK, Waits
    <2>4. FenceCountsQueue' /\ MarkerIsLast' /\ TurnOrder'
      BY <1>0, <1>2, <2>2 DEF TypeOK, FenceCountsQueue, MarkerIsLast, TurnOrder, Generations
    <2>5. Writing'
      BY <1>2, <2>2 DEF TypeOK, Writing, OpenPause, SpentIsOld, WritesWereConfirmed,
                        Generations, Writes
    <2> QED
      BY <2>3, <2>4, <2>5 DEF Writing
  <1> QED
    BY <1>1, <1>2
-----------------------------------------------------------------------------
(* Actions that move the loop without touching the graph or the session. *)
LEMMA QuietStep ==
    ASSUME LoopInv,
           \/ Superseded \/ ASRFails \/ Transcribe \/ Understand \/ TurnRaises \/ AfterReply
           \/ TTSFails \/ Synthesize \/ SendChunk \/ BargeIn \/ EndTrack
    PROVE  LoopInv'
  <1> USE LoopAssumption DEF LoopInv, Goto, StillCurrent, session, history, NoOutput, Say
  <1>1. /\ UNCHANGED <<calling, receiver, queue, generation, awaiting, turn, paused, read,
                       writes, replied>>
        /\ pc' \in Waits /\ pc' # "ran" /\ pc # "ended"
        /\ pc' \in Undecided => pc \in Undecided
        /\ pc' \in Unanswered => pc \in Unanswered
    BY DEF Superseded, ASRFails, Transcribe, Understand, TurnRaises, AfterReply, TTSFails,
           Synthesize, SendChunk, BargeIn, EndTrack, Waits, Undecided, Unanswered
  <1>2. out' \in Output /\ closed' \in Generations
    <2>1. CASE ASRFails \/ Understand
      <3>1. out' \in {out, Say(TRUE, awaiting), Say(FALSE, 0)}
        BY <2>1 DEF ASRFails, Understand
      <3>2. 0 \in Generations /\ awaiting \in Generations /\ out \in Output
        BY DEF TypeOK, Generations
      <3>3. Say(TRUE, awaiting) \in Output /\ Say(FALSE, 0) \in Output
        BY <3>2 DEF Output
      <3>4. closed' = closed /\ closed \in Generations
        BY <2>1 DEF ASRFails, Understand, TypeOK
      <3> QED
        BY <3>1, <3>2, <3>3, <3>4
    <2>2. CASE Superseded \/ Transcribe \/ TurnRaises \/ AfterReply \/ TTSFails \/ BargeIn
      BY <2>2 DEF Superseded, Transcribe, TurnRaises, AfterReply, TTSFails, BargeIn, TypeOK,
                  Output
    <2>3. CASE Synthesize \/ SendChunk \/ EndTrack
      BY <2>3 DEF Synthesize, SendChunk, EndTrack, TypeOK, Output
    <2> QED
      BY <2>1, <2>2, <2>3
  <1>3. TypeOK'
    BY <1>1, <1>2 DEF TypeOK
  <1>4. FenceCountsQueue' /\ MarkerIsLast' /\ TurnOrder'
    BY <1>1 DEF FenceCountsQueue, MarkerIsLast, TurnOrder
  <1>5. Writing'
    BY <1>1 DEF Writing, OpenPause, SpentIsOld, WritesWereConfirmed
  <1> QED
    BY <1>3, <1>4, <1>5 DEF Writing

(* A resume spends the confirmation that is open, or finds nothing to spend. *)
LEMMA ResumeGraphStep ==
    ASSUME LoopInv, ResumeGraph
    PROVE  LoopInv'
  <1> USE LoopAssumption DEF LoopInv, ResumeGraph, Goto, session, history, NoOutput, Say
  <1>1. out' \in Output /\ out'.prompt = 0
    BY DEF Output, Generations
  <1>2. CASE writes' = writes
    BY <1>1, <1>2 DEF TypeOK, FenceCountsQueue, MarkerIsLast, TurnOrder, OpenPause, SpentIsOld,
                WritesWereConfirmed, Waits, Generations, Undecided, Unanswered
  <1>3. CASE /\ writes' = writes \cup {Write}
             /\ paused # 0 /\ Interpretation(turn.audio) = "yes"
    <2>1. paused = awaiting /\ awaiting < turn.gen
      BY <1>3 DEF OpenPause, TurnOrder, Undecided
    <2>2. Write \in Writes
      BY DEF Write, Writes, TypeOK
    <2>3. TypeOK'
      BY <1>1, <1>3, <2>2 DEF TypeOK, Waits, Generations
    <2>4. FenceCountsQueue' /\ MarkerIsLast' /\ TurnOrder'
      BY DEF FenceCountsQueue, MarkerIsLast, TurnOrder, Undecided, Unanswered
    <2>5. OpenPause' /\ SpentIsOld'
      BY <1>1, <1>3 DEF TypeOK, OpenPause, SpentIsOld, TurnOrder, Write, Generations
    <2>6. WritesWereConfirmed'
      BY <1>3, <2>1 DEF WritesWereConfirmed, SpentIsOld, Write
    <2> QED
      BY <2>3, <2>4, <2>5, <2>6
  <1>4. \/ writes' = writes
        \/ /\ writes' = writes \cup {Write}
           /\ paused # 0 /\ Interpretation(turn.audio) = "yes"
    OBVIOUS
  <1> QED
    BY <1>2, <1>3, <1>4

(* A pause is named by a turn in which nothing has been spent yet. *)
LEMMA RunGraphStep ==
    ASSUME LoopInv, RunGraph
    PROVE  LoopInv'
  <1> USE LoopAssumption DEF LoopInv, RunGraph, Goto, session, history, NoOutput, Say
  <1>1. paused' \in Generations /\ paused' <= turn.gen
    BY DEF TypeOK, Generations
  <1>2. out' \in Output /\ out'.prompt = paused'
    <2>1. PICK said \in BOOLEAN : out' = Say(said \/ paused' # 0, paused')
      OBVIOUS
    <2>2. (said \/ paused' # 0) \in BOOLEAN
      OBVIOUS
    <2> HIDE DEF RunGraph
    <2> QED
      BY <1>1, <2>1, <2>2 DEF Output
  <1>3. TypeOK'
    BY <1>1, <1>2 DEF TypeOK, Waits
  <1>4. FenceCountsQueue' /\ MarkerIsLast' /\ TurnOrder'
    BY DEF FenceCountsQueue, MarkerIsLast, TurnOrder, Undecided, Unanswered
  <1>5. OpenPause'
    BY <1>1, <1>2 DEF OpenPause
  <1>6. \A x \in writes : x.asked < x.gen /\ x.gen <= turn.gen /\ x \in Writes
    BY DEF WritesWereConfirmed, SpentIsOld, TypeOK
  <1>7. SpentIsOld' /\ WritesWereConfirmed'
    BY <1>6 DEF SpentIsOld, WritesWereConfirmed, TypeOK, Writes, Generations
  <1> QED
    BY <1>3, <1>4, <1>5, <1>7

(* The reply goes out, and the confirmation it carries becomes the session's. *)
LEMMA ReplyStep ==
    ASSUME LoopInv, TakeResult \/ Reply
    PROVE  LoopInv'
  <1> USE LoopAssumption DEF LoopInv, TakeResult, Reply, SendReply, Goto, StillCurrent,
                             session, history
  <1>1. /\ UNCHANGED <<calling, receiver, queue, generation, turn, paused, writes, closed>>
        /\ pc' \in {"localize", "reply"} /\ pc \in {"ran", "localize"}
        /\ awaiting' \in {awaiting, out.prompt}
        /\ awaiting' # awaiting => pc = "ran"
        /\ replied' \in {replied, turn.gen}
        /\ pc' = "localize" => replied' = replied
    OBVIOUS
  <1>2. out' \in Output /\ read' \subseteq Generations
    BY DEF TypeOK, Output
  <1>3. TypeOK'
    BY <1>1, <1>2 DEF TypeOK, Output, Waits
  <1>4. awaiting' <= turn.gen /\ (awaiting' # 0 => paused \in {0, awaiting'})
    BY <1>1 DEF OpenPause, TurnOrder
  <1>5. FenceCountsQueue' /\ MarkerIsLast' /\ TurnOrder'
    BY <1>1, <1>4 DEF FenceCountsQueue, MarkerIsLast, TurnOrder, Undecided, Unanswered, TypeOK,
                      Generations
  <1>6. Writing'
    BY <1>1, <1>4 DEF Writing, OpenPause, SpentIsOld, WritesWereConfirmed
  <1> QED
    BY <1>3, <1>5, <1>6 DEF Writing

LEMMA LoopStep == LoopInv /\ [Next]_vars => LoopInv'
  <1> SUFFICES ASSUME LoopInv, [Next]_vars PROVE LoopInv'
    OBVIOUS
  <1>1. CASE UNCHANGED vars
    BY <1>1 DEF vars, session, history, LoopInv, TypeOK, FenceCountsQueue, MarkerIsLast,
                TurnOrder, OpenPause, SpentIsOld, WritesWereConfirmed
  <1>2. CASE Caller
    BY <1>2, SpeakStep, HangUpStep, OddFrameStep DEF Caller
  <1>3. CASE ProcessTurns
    BY <1>3, NextUtteranceStep, QuietStep, ResumeGraphStep, RunGraphStep, ReplyStep
       DEF ProcessTurns
  <1> QED
    BY <1>1, <1>2, <1>3 DEF Next

LEMMA LoopInvariant == Spec => []LoopInv
  BY InitLoop, LoopStep, PTL DEF Spec
-----------------------------------------------------------------------------
(* Every variable of the call loop has its type (call_loop.py:50-59). *)
THEOREM LoopTypeCorrect == Spec => []TypeOK
  BY LoopInvariant, PTL DEF LoopInv

(* The generation counts the queue (call_loop.py:88-113): a turn is dropped    *)
(* only when a newer utterance waits.                                       *)
THEOREM FenceHolds == Spec => []FenceCountsQueue
  BY LoopInvariant, PTL DEF LoopInv

(* A write answers the confirmation that was open, with a yes that came after  *)
(* it, and no confirmation is spent twice (call_loop.py:151-179).            *)
THEOREM WritesConfirmed == Spec => []WritesWereConfirmed
  BY LoopInvariant, PTL DEF LoopInv

(* Replies go out in the order of the turns, at most one for each, and only    *)
(* for the newest utterance (call_loop.py:219-230).                          *)
THEOREM RepliesInOrder == Spec => RepliesMoveForward
  <1>1. LoopInv /\ [Next]_vars
          => [replied' # replied => replied' > replied /\ replied' = generation]_vars
    <2> SUFFICES ASSUME LoopInv, Next, replied' # replied
                 PROVE  replied' > replied /\ replied' = generation
      OBVIOUS
    <2>1. TakeResult \/ Reply
      BY DEF Next, Caller, ProcessTurns, Speak, HangUp, OddFrame, NextUtterance, Superseded,
             ASRFails, Transcribe, Understand, ResumeGraph, RunGraph, TurnRaises, AfterReply,
             TTSFails, Synthesize, SendChunk, BargeIn, EndTrack, history
    <2>2. replied' = turn.gen /\ turn.gen = generation /\ pc \in Unanswered
      BY <2>1 DEF TakeResult, Reply, SendReply, StillCurrent, Unanswered
    <2> QED
      BY <2>2 DEF LoopInv, TypeOK, TurnOrder, Generations
  <1> QED
    BY <1>1, LoopInvariant, PTL DEF Spec, RepliesMoveForward

(* The session waits for an answer the graph has had in one way only: a turn   *)
(* that answered was superseded before its result was taken                   *)
(* (call_loop.py:174-179).  What is open otherwise is what the graph waits at. *)
THEOREM OnlySupersededStale == Spec => OnlySupersededAwaitInVain
  <1>1. LoopInv /\ [Next]_vars
          => [AwaitsInVain' => AwaitsInVain \/ (pc = "ran" /\ ~StillCurrent)]_vars
    <2> SUFFICES ASSUME LoopInv, Next, AwaitsInVain', ~AwaitsInVain
                 PROVE  pc = "ran" /\ ~StillCurrent
      OBVIOUS
    <2> USE DEF AwaitsInVain, Goto, session, history
    <2>1. CASE Superseded
      <3>1. UNCHANGED <<awaiting, paused>> /\ pc # "ended" /\ ~StillCurrent
        BY <2>1 DEF Superseded
      <3> QED
        BY <3>1
    <2>2. ~TakeResult
      <3> SUFFICES ASSUME TakeResult PROVE FALSE
        OBVIOUS
      <3>1. awaiting' = out.prompt /\ paused' = paused /\ pc = "ran"
        BY DEF TakeResult
      <3> QED
        BY <3>1 DEF LoopInv, OpenPause
    <2>3. CASE ResumeGraph \/ RunGraph
      BY <2>3 DEF ResumeGraph, RunGraph
    <2>4. CASE Caller
      <3>1. UNCHANGED <<awaiting, paused, pc>>
        BY <2>4 DEF Caller, Speak, HangUp, OddFrame
      <3> QED
        BY <3>1
    <2>5. CASE \/ NextUtterance \/ ASRFails \/ Transcribe \/ Understand \/ TurnRaises \/ Reply
               \/ AfterReply \/ TTSFails \/ Synthesize \/ SendChunk \/ BargeIn \/ EndTrack
      <3>1. UNCHANGED <<awaiting, paused>> /\ pc # "ended" /\ (pc = "ran" => pc' = "ended")
        BY <2>5 DEF NextUtterance, ASRFails, Transcribe, Understand, TurnRaises, Reply, SendReply,
                    AfterReply, TTSFails, Synthesize, SendChunk, BargeIn, EndTrack
      <3> QED
        BY <3>1
    <2> QED
      BY <2>1, <2>2, <2>3, <2>4, <2>5 DEF Next, ProcessTurns
  <1> QED
    BY <1>1, LoopInvariant, PTL DEF Spec, OnlySupersededAwaitInVain
-----------------------------------------------------------------------------
(* Refusals. *)

NegativeWords ==
    {"no", "nope", "nah", "negative", "don't", "dont", "cancel", "wrong"}

LEMMA OneWord == ASSUME NEW w, <<w>> \in Negative PROVE w \in NegativeWords
  BY DEF Negative, NegativeWords

(* No affirmative phrase holds a negative word. *)
LEMMA PhrasesAgree ==
    ASSUME NEW p \in Affirmative, NEW i \in DOMAIN p
    PROVE  p[i] \notin NegativeWords
  BY DEF Affirmative, NegativeWords

(* A yes holds no negative word that can be read as one. *)
LEMMA YesHoldsNoRefusal ==
    ASSUME NEW reply, Interpretation(reply) = "yes"
    PROVE  ~HasWordOf(reply, Negative)
  <1>1. CASE IsPhraseOf(reply, Affirmative)
    <2> SUFFICES ASSUME NEW i \in DOMAIN reply, <<reply[i].word>> \in Negative PROVE FALSE
      BY DEF HasWordOf
    <2>1. /\ Words(reply) \in Affirmative
          /\ i \in DOMAIN Words(reply) /\ Words(reply)[i] = reply[i].word
      BY <1>1 DEF IsPhraseOf, Words
    <2> QED
      BY <2>1, OneWord, PhrasesAgree
  <1>2. CASE ~IsPhraseOf(reply, Affirmative)
    BY <1>2 DEF Interpretation
  <1> QED
    BY <1>1, <1>2

(* Every word of every reply is read: no mark inside a reply hides one. *)
EveryWordIsRead == \A reply \in Replies : \A i \in DOMAIN reply : Clean(reply, i)

(* Whatever else is said, a reply with a negative word in it changes no order,  *)
(* as long as no mark hides the word (confirmation.py:50-58): one that a comma *)
(* follows is not read.                                                       *)
THEOREM RefusalsHold == ASSUME EveryWordIsRead PROVE Spec => []RefusalsWriteNothing
  <1>1. LoopInv => RefusalsWriteNothing
    <2> SUFFICES ASSUME LoopInv, NEW x \in writes, Refuses(x.audio) PROVE FALSE
      BY DEF RefusalsWriteNothing
    <2>1. Interpretation(x.audio) = "yes" /\ x.audio \in Audio
      BY DEF LoopInv, WritesWereConfirmed, TypeOK, Writes
    <2>2. PICK i \in DOMAIN x.audio : <<x.audio[i].word>> \in Negative
      BY DEF Refuses
    <2>3. x.audio \in Replies
      BY <2>1, <2>2 DEF Audio, Empty
    <2>4. HasWordOf(x.audio, Negative)
      BY <2>2, <2>3 DEF EveryWordIsRead, HasWordOf
    <2> QED
      BY <2>1, <2>4, YesHoldsNoRefusal
  <1> QED
    BY <1>1, LoopInvariant, PTL
=============================================================================
