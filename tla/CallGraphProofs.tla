-------------------------- MODULE CallGraphProofs --------------------------
(***************************************************************************)
(* Theorems about the dialogue, for any number of orders, any limits and any  *)
(* utterances.  That a caller is asked which order is meant a bounded number  *)
(* of times needs the course of the questions: the list read out has at least *)
(* two orders and at most MaxReadOut, and each further question either reads  *)
(* out fewer or counts a retry.                                              *)
(***************************************************************************)
EXTENDS CallGraph, FiniteSetTheorems, TLAPS

(* A turn that has yet to answer. *)
Pending == pc \in {"classify", "agent"}

(* A turn whose end is still out: under way, or stopped at its confirmation. *)
OutOf(steps) == IF pc \in steps \/ paused # NoProposal THEN 1 ELSE 0

Counts ==
    /\ Pending => asks < turns
    /\ pc = "classify" => unresolved < turns
    /\ unsettled + OutOf({"classify", "agent", "compose"}) <= turns

(* Where the graph is stopped, the last question was for a confirmation, and   *)
(* only the answer takes it on.                                              *)
Stopped ==
    paused # NoProposal =>
        /\ asks = 0 /\ turns > 0
        /\ pc = "idle" \/ (pc = "agent" /\ answer # "none")

(* A which-order question offers a choice, and one that can be read out. *)
Choice ==
    /\ which.kind \in {"none", "which"}
    /\ which.kind = "which" => Cardinality(which.candidates) \in 2 .. MaxReadOut

(* What the retries and the narrowing so far allow. *)
Allowance(q) == q.retries * (MaxReadOut - 1) + (MaxReadOut - Cardinality(q.candidates)) + 1

(* The questions in a row end with the one the caller is answering. *)
Course ==
    asks > 0 =>
        /\ which.kind = "which"
        /\ which.at = IF Pending THEN turns - 1 ELSE turns
        /\ asks <= Allowance(which)

GraphInv == TypeOK /\ Counts /\ Stopped /\ Choice /\ Course
-----------------------------------------------------------------------------
LEMMA OpenIsFinite ==
    ASSUME TypeOK, NEW S \in SUBSET open
    PROVE  IsFiniteSet(S) /\ Cardinality(S) \in Nat
  BY GraphAssumption, FS_Subset, FS_CardinalityType DEF TypeOK

LEMMA MinOfTwo ==
    ASSUME NEW m \in Nat, NEW n \in Nat
    PROVE  Min({m, n}) = IF m <= n THEN m ELSE n
  BY DEF Min

(* An agent that cannot settle has at least two orders to ask about.          *)
LEMMA UnsettledHasChoice ==
    ASSUME TypeOK, open # {}, Unsettled
    PROVE  ReadOut \in 2 .. MaxReadOut
  <1>1. Hits \in SUBSET open /\ Options \in SUBSET open
    BY DEF Hits, Options
  <1>2. /\ IsFiniteSet(open) /\ Cardinality(open) \in Nat
        /\ IsFiniteSet(Hits) /\ Cardinality(Hits) \in Nat
    BY <1>1, OpenIsFinite
  <1>3. \A o \in open : open # {o}
    BY DEF Unsettled, Settles
  <1>4. Cardinality(open) \notin {0, 1}
    BY <1>2, <1>3, FS_EmptySet, FS_Singleton
  <1>5. Several
    BY <1>2, <1>4 DEF Several
  <1>6. \A o \in open : Hits # {o}
    BY <1>5 DEF Unsettled, Settles, Names
  <1>7. Hits = {} \/ Cardinality(Hits) \notin {0, 1}
    BY <1>1, <1>2, <1>6, FS_EmptySet, FS_Singleton
  <1>8. Cardinality(Options) \in Nat \ {0, 1}
    BY <1>2, <1>4, <1>7 DEF Options
  <1> QED
    BY <1>8, MinOfTwo, GraphAssumption DEF ReadOut
-----------------------------------------------------------------------------
LEMMA InitGraph == Init => GraphInv
  <1> SUFFICES ASSUME Init PROVE GraphInv
    OBVIOUS
  <1>1. /\ open \in SUBSET Orders /\ today = 0 /\ turns = 0 /\ {today, turns} \subseteq Nat
        /\ 0 \in 0 .. MaxDays /\ 0 \in 0 .. MaxTurns /\ 0 \in 0 .. MaxRetries /\ 0 \in 0 .. turns
    BY GraphAssumption DEF Init
  <1>2. NoQuestion \in Questions
    BY <1>1 DEF NoQuestion, Asked, Questions, Intents, Tasks
  <1>3. NoText \in Texts /\ "nothing" \in Kinds
    BY <1>1 DEF NoText, Text, Texts, Kinds
  <1>4. NoProposal \in Proposals /\ NoCommit \in [read : Proposals, done : Proposals]
    BY <1>1 DEF NoProposal, NoCommit, Proposal, Proposals, Intents, Tasks
  <1>5. Silence \in Sayings /\ "fallback" \in Intents
    BY DEF Silence, Sayings, Intents
  <1>6. TypeOK
    BY <1>1, <1>2, <1>3, <1>4, <1>5 DEF Init, TypeOK
  <1> QED
    BY <1>6 DEF Init, GraphInv, Counts, OutOf, Pending, Stopped, Choice, Course, NoQuestion, Asked

LEMMA DroppedKeysHaveTypes ==
    ASSUME DropTurnKeys
    PROVE  utterance' \in Sayings /\ router' \in Intents /\ allowed' \in BOOLEAN
  BY DEF DropTurnKeys, Silence, Sayings, Intents

LEMMA TextOfThisTurn ==
    ASSUME TypeOK, NEW kind \in Kinds
    PROVE  Text(kind, turns) \in Texts
  <1>1. turns \in 0 .. turns
    BY GraphAssumption DEF TypeOK
  <1> QED
    BY <1>1 DEF Text, Texts

LEMMA MidnightStep ==
    ASSUME GraphInv, Midnight
    PROVE  GraphInv'
  <1> USE DEF GraphInv, Midnight, pending, orderKnown, sentiment, replies, history
  <1>1. TypeOK'
    BY GraphAssumption DEF TypeOK, Questions, Texts, Proposals
  <1> QED
    BY <1>1 DEF Counts, OutOf, Pending, Stopped, Choice, Course, Allowance

LEMMA HearStep ==
    ASSUME GraphInv, NEW u \in Utterances, Hear(u)
    PROVE  GraphInv'
  <1> USE DEF GraphInv, Hear, pending, orderKnown, sentiment
  <1>1. /\ turns \in Nat /\ turns' = turns + 1 /\ 0 .. turns \subseteq 0 .. turns'
        /\ turns' \in 0 .. MaxTurns /\ open' = open
    BY GraphAssumption DEF TypeOK
  <1>2. Questions \subseteq Questions' /\ Texts \subseteq Texts' /\ reply.kind \in Kinds
    BY <1>1 DEF TypeOK, Questions, Texts
  <1>3. {agentReply', reply'} \subseteq Texts' /\ paused' \in Proposals'
        /\ commit' \in [read : Proposals', done : Proposals']
    BY <1>1, GraphAssumption
       DEF NoText, Text, Texts, Kinds, NoProposal, NoCommit, Proposal, Proposals, Intents,
           Tasks
  <1>4. unsettled' + 1 <= turns' /\ unsettled' \in 0 .. turns'
    BY <1>1 DEF TypeOK, Counts, OutOf, Abandon
  <1>5. TypeOK'
    BY <1>1, <1>2, <1>3, <1>4, GraphAssumption DEF TypeOK
  <1>6. /\ asks \in 0 .. turns /\ unresolved \in 0 .. turns
        /\ asks' = asks /\ unresolved' = unresolved
    BY DEF TypeOK
  <1>7. unsettled' + OutOf({"classify", "agent", "compose"})' <= turns'
    BY <1>4 DEF OutOf
  <1>8. Counts'
    BY <1>1, <1>6, <1>7 DEF Counts, Pending
  <1> QED
    BY <1>1, <1>5, <1>8 DEF Pending, Stopped, Choice, Course, Allowance, TypeOK

LEMMA ResumeStep ==
    ASSUME GraphInv, NEW yes \in BOOLEAN, Resume(yes)
    PROVE  GraphInv'
  <1> USE DEF GraphInv, Resume, world, pending, orderKnown, sentiment, replies, history
  <1>1. TypeOK'
    BY DEF TypeOK, Questions, Texts, Proposals
  <1> QED
    BY <1>1 DEF Counts, OutOf, Pending, Stopped, Choice, Course, TypeOK

LEMMA ClassifyStep ==
    ASSUME GraphInv, Classify
    PROVE  GraphInv'
  <1> USE DEF GraphInv, Classify, world, pending, orderKnown, replies
  <1>1. router' \in Intents
    BY DEF Route, Cold, TypeOK, Questions
  <1>2. PICK upset \in BOOLEAN : MonitorSentiment(upset)
    OBVIOUS
  <1>3. unresolved' \in 0 .. turns /\ escalated' \in BOOLEAN
    BY <1>2 DEF MonitorSentiment, TypeOK, Counts
  <1>4. TypeOK'
    BY <1>1, <1>3 DEF TypeOK, Questions, Texts, Kinds, Proposals, InputGuardrail
  <1> QED
    BY <1>4 DEF Counts, OutOf, Pending, Stopped, Choice, Course, Allowance, TypeOK

LEMMA RaiseStep ==
    ASSUME GraphInv, Raise
    PROVE  GraphInv'
  <1> USE DEF GraphInv, Raise, world, pending, orderKnown, sentiment, replies
  <1>1. unsettled' \in 0 .. turns /\ asks' \in 0 .. turns /\ paused = NoProposal
    BY GraphAssumption DEF TypeOK, Counts, OutOf, Stopped
  <1>2. said' \in Kinds
    BY DEF Kinds
  <1>3. TypeOK'
    BY <1>1, <1>2, DroppedKeysHaveTypes DEF TypeOK, Questions, Texts, Proposals
  <1> QED
    BY <1>3 DEF Counts, OutOf, Pending, Stopped, Choice, Course, TypeOK

LEMMA ComposeStep ==
    ASSUME GraphInv, Compose
    PROVE  GraphInv'
  <1> USE DEF GraphInv, Compose, world, pending, orderKnown, replies
  <1>1. reply' \in Texts /\ escalated' \in BOOLEAN
    BY TextOfThisTurn DEF TypeOK, Kinds
  <1>3. unsettled' \in 0 .. turns /\ paused = NoProposal
    BY GraphAssumption DEF TypeOK, Counts, OutOf, Stopped
  <1>2. TypeOK'
    BY <1>1, <1>3, DroppedKeysHaveTypes DEF TypeOK, Questions, Texts, Proposals
  <1> QED
    BY <1>2, <1>3 DEF Counts, OutOf, Pending, Stopped, Choice, Course, Allowance, TypeOK
-----------------------------------------------------------------------------
(* What the agents' returns have in common. *)

LEMMA AgentEndsTypes ==
    ASSUME TypeOK, AgentEnds, NEW kind \in Kinds, Say(kind),
           which' \in Questions, followup' \in Questions,
           order' \in open \cup {NoOrder}, snapshot' \in BOOLEAN, escalated' \in BOOLEAN,
           commit' \in [read : Proposals, done : Proposals], asks' \in 0 .. turns
    PROVE  TypeOK'
  <1> USE DEF AgentEnds, world
  <1>1. agentReply' \in Texts /\ reply' \in Texts
    BY TextOfThisTurn DEF Say, EarlyCompose, TypeOK
  <1>2. NoProposal \in Proposals
    BY GraphAssumption DEF TypeOK, NoProposal, Proposal, Proposals, Intents, Tasks
  <1> QED
    BY <1>1, <1>2 DEF TypeOK, Questions, Texts, Proposals

(* What a return that does not ask which order may do: words of one kind, an   *)
(* escalation, an order settled on, and a follow-up question of that kind.    *)
Answers(kind) ==
    /\ AgentEnds /\ Say(kind) /\ asks' = 0
    /\ which' \in {which, NoQuestion}
    /\ followup' \in {followup, NoQuestion} \cup {Followup(i, kind) : i \in {"reschedule", router}}
    /\ followup' \notin {followup, NoQuestion} => kind \in {"slot", "offer"}
    /\ order' \in open \cup {order} /\ snapshot' \in {snapshot, TRUE}
    /\ escalated' \in {escalated, TRUE}
    /\ commit' = commit \/ \E o \in open : \E written \in Wanted(o) :
                             commit' = [read |-> paused, done |-> written]

LEMMA AgentReturns ==
    ASSUME Agent
    PROVE  AskWhich \/ (\E o \in open : Propose(o)) \/ (\E kind \in Kinds : Answers(kind))
  <1> USE DEF Answers, KeepState, HandOver, pending, orderKnown
  <1>1. {"told", "handover", "outage", "slot", "offer"} \subseteq Kinds
    BY DEF Kinds
  <1>2. CASE Blocked \/ NoOrders \/ GiveUp
    <2>1. Answers("handover")
      BY <1>2 DEF Blocked, NoOrders, GiveUp
    <2> QED
      BY <1>1, <2>1
  <1>3. CASE Fallback
    <2>1. Answers("handover") \/ Answers("told")
      BY <1>3 DEF Fallback
    <2> QED
      BY <1>1, <2>1
  <1>4. CASE Unavailable
    <2>1. Answers("outage")
      BY <1>4 DEF Unavailable
    <2> QED
      BY <1>1, <2>1
  <1>5. ASSUME NEW o \in open, OrderLookup(o)
        PROVE  \E kind \in Kinds : Answers(kind)
    <2>1. Answers("told") \/ Answers("offer")
      BY <1>5 DEF OrderLookup, Settle
    <2> QED
      BY <1>1, <2>1
  <1>6. ASSUME NEW o \in open, AskSlot(o) \/ Decline(o)
        PROVE  \E kind \in Kinds : Answers(kind)
    <2>1. Answers("slot")
      BY <1>6 DEF AskSlot, Decline, Settle
    <2> QED
      BY <1>1, <2>1
  <1>7. ASSUME NEW o \in open, NoAddress(o)
        PROVE  \E kind \in Kinds : Answers(kind)
    <2>1. Answers("handover")
      BY <1>7 DEF NoAddress, Settle
    <2> QED
      BY <1>1, <2>1
  <1>8. ASSUME NEW o \in open, Commit(o)
        PROVE  \E kind \in Kinds : Answers(kind)
    <2>1. Answers("told") \/ Answers("outage")
      BY <1>8 DEF Commit, Settle
    <2> QED
      BY <1>1, <2>1
  <1> QED
    BY <1>2, <1>3, <1>4, <1>5, <1>6, <1>7, <1>8 DEF Agent

(* A return that asks nothing ends the row of questions. *)
LEMMA AnswerStep ==
    ASSUME GraphInv, NEW kind \in Kinds, Answers(kind)
    PROVE  GraphInv'
  <1> USE DEF GraphInv, Answers
  <1>1. /\ 0 \in 0 .. turns /\ turns \in 0 .. turns
        /\ NoQuestion \in Questions
    BY GraphAssumption DEF TypeOK, NoQuestion, Asked, Questions, Intents, Tasks
  <1>2. followup' \in Questions
    BY <1>1, GraphAssumption DEF TypeOK, Followup, Asked, Questions, Intents, Tasks
  <1>3. commit' \in [read : Proposals, done : Proposals]
    BY GraphAssumption DEF TypeOK, Wanted, Changes, Proposal, Proposals
  <1>4. TypeOK'
    BY <1>1, <1>2, <1>3, AgentEndsTypes DEF TypeOK
  <1>5. Counts' /\ Stopped' /\ Course'
    BY <1>1, <1>4 DEF AgentEnds, Counts, OutOf, Pending, Stopped, Course
  <1>6. Choice'
    BY DEF Choice, NoQuestion, Asked
  <1> QED
    BY <1>4, <1>5, <1>6

LEMMA ProposeStep ==
    ASSUME GraphInv, NEW o \in open, Propose(o)
    PROVE  GraphInv'
  <1> USE DEF GraphInv, Propose, world, pending, orderKnown, sentiment
  <1>1. reply' \in Texts
    BY DEF EarlyCompose, TypeOK
  <1>2. paused' \in Proposals
    BY GraphAssumption DEF Wanted, Changes, Proposal, Proposals, TypeOK
  <1>3. turns > 0 /\ 0 \in 0 .. turns
    BY DEF Counts, OutOf, Pending, TypeOK
  <1>4. TypeOK'
    BY <1>1, <1>2, <1>3 DEF TypeOK, Questions, Texts, Proposals
  <1>5. unsettled + 1 <= turns /\ unsettled \in Nat /\ turns \in Nat
    BY GraphAssumption DEF Counts, OutOf, TypeOK
  <1>6. OutOf({"classify", "agent", "compose"})' \in {0, 1}
        /\ unsettled' = unsettled /\ turns' = turns /\ pc' = "idle"
    BY DEF OutOf
  <1>7. Counts'
    BY <1>5, <1>6 DEF Counts, Pending
  <1>8. Stopped'
    BY <1>3 DEF Stopped
  <1> QED
    BY <1>3, <1>4, <1>7, <1>8 DEF Pending, Choice, Course
-----------------------------------------------------------------------------
(* The which-order question. *)

LEMMA OneMoreRetry ==
    ASSUME NEW r \in Nat, NEW k \in Nat
    PROVE  r * k \in Nat /\ (r + 1) * k = r * k + k
  OBVIOUS

LEMMA FewerRetries ==
    ASSUME NEW m \in Nat, NEW r \in 0 .. m, NEW k \in Nat
    PROVE  r * k <= m * k /\ r * k \in Nat /\ m * k \in Nat
  <1>1. \A i, j \in Nat : i * j \in Nat
    BY OneMoreRetry
  <1>2. \A i, d \in Nat : (i + d) * k = i * k + d * k
    OBVIOUS
  <1>3. m - r \in Nat /\ m = r + (m - r)
    OBVIOUS
  <1>4. m * k = r * k + (m - r) * k
    BY <1>2, <1>3
  <1> QED
    BY <1>1, <1>3, <1>4

LEMMA AskWhichStep ==
    ASSUME GraphInv, AskWhich
    PROVE  GraphInv'
  <1> USE DEF GraphInv
  <1> DEFINE before == IF Answering THEN which.retries ELSE 0
             retries == IF NoProgress THEN before + 1 ELSE before
  <1>1. PICK readOut \in ReadOuts :
           which' = Asked(router, "which", readOut, retries, turns)
    BY DEF AskWhich
  <1>2. readOut \in SUBSET open /\ Cardinality(readOut) = ReadOut
    BY <1>1 DEF ReadOuts, kSubset, Options, Hits
  <1>3. ReadOut \in 2 .. MaxReadOut
    BY UnsettledHasChoice DEF AskWhich
  <1>4. which.retries \in 0 .. MaxRetries /\ retries \in 0 .. MaxRetries
    BY GraphAssumption DEF AskWhich, NoProgress, TypeOK, Questions
  <1>5. asks \in Nat /\ turns \in Nat /\ asks' = asks + 1 /\ asks' \in 0 .. turns
    BY GraphAssumption DEF AskWhich, AgentEnds, Counts, OutOf, Pending, TypeOK
  <1>6. which' \in Questions
    BY <1>1, <1>2, <1>4, <1>5 DEF Asked, Questions, TypeOK
  <1>7. TypeOK'
    BY <1>5, <1>6, AgentEndsTypes DEF AskWhich, TypeOK, Kinds
  <1>8. /\ which'.kind = "which" /\ which'.at = turns
        /\ which'.retries = retries /\ Cardinality(which'.candidates) = ReadOut
    BY <1>1, <1>2 DEF Asked
  <1>9. asks' <= Allowance(which')
    <2> DEFINE k == MaxReadOut - 1
    <2>1. k \in Nat /\ MaxReadOut \in Nat
      BY GraphAssumption
    <2>2. Allowance(which') = retries * k + (MaxReadOut - ReadOut) + 1
      BY <1>8 DEF Allowance
    <2>3. retries * k \in Nat
      BY <1>4, <2>1, OneMoreRetry, GraphAssumption
    <2>4. CASE asks = 0
      BY <1>3, <1>5, <2>1, <2>2, <2>3, <2>4
    <2>5. CASE asks > 0
      <3>1. Answering
        BY <2>5 DEF Course, Pending, AskWhich, AgentEnds, Answering, IsLive
      <3>2. /\ Cardinality(which.candidates) \in 2 .. MaxReadOut
            /\ asks <= which.retries * k + (MaxReadOut - Cardinality(which.candidates)) + 1
        BY <2>5 DEF Course, Choice, Allowance
      <3>3. which.retries * k \in Nat /\ (which.retries + 1) * k = which.retries * k + k
        BY <1>4, <2>1, OneMoreRetry, GraphAssumption
      <3>4. CASE NoProgress
        <4>1. retries * k = which.retries * k + k
          BY <3>1, <3>3, <3>4
        <4> QED
          BY <1>3, <1>5, <2>1, <2>2, <3>2, <3>3, <4>1
      <3>5. CASE ~NoProgress
        <4>1. retries * k = which.retries * k /\ ReadOut < Cardinality(which.candidates)
          BY <1>3, <3>1, <3>2, <3>5 DEF NoProgress
        <4> QED
          BY <1>3, <1>5, <2>1, <2>2, <3>2, <3>3, <4>1
      <3> QED
        BY <3>4, <3>5
    <2> QED
      BY <1>5, <2>4, <2>5
  <1>10. Counts' /\ Stopped' /\ Choice'
    BY <1>3, <1>8 DEF AskWhich, AgentEnds, Counts, OutOf, Pending, Stopped, Choice
  <1>11. Course'
    BY <1>8, <1>9 DEF AskWhich, AgentEnds, Course, Pending
  <1> QED
    BY <1>7, <1>10, <1>11
-----------------------------------------------------------------------------
LEMMA GraphStep == GraphInv /\ [Next]_vars => GraphInv'
  <1> SUFFICES ASSUME GraphInv, [Next]_vars PROVE GraphInv'
    OBVIOUS
  <1>1. CASE UNCHANGED vars
    BY <1>1 DEF vars, world, pending, orderKnown, sentiment, replies, history, GraphInv, TypeOK,
                Questions, Texts, Proposals, Counts, OutOf, Pending, Stopped, Choice, Course,
                Allowance
  <1>2. CASE Agent
    BY <1>2, AgentReturns, AskWhichStep, ProposeStep, AnswerStep
  <1> QED
    BY <1>1, <1>2, MidnightStep, HearStep, ResumeStep, ClassifyStep, RaiseStep, ComposeStep
       DEF Next

LEMMA GraphInvariant == Spec => []GraphInv
  BY InitGraph, GraphStep, PTL DEF Spec

(* Every variable of a session has its type, for any caller and any limits    *)
(* (state.py, CallState).                                                    *)
THEOREM GraphTypeCorrect == Spec => []TypeOK
  BY GraphInvariant, PTL DEF GraphInv

(* A caller who never says which order is asked at most (MaxRetries + 1) times *)
(* (MaxReadOut - 1) times in a row (order_identify.py, _ask), with any number *)
(* of orders and any course of the answers.                                  *)
THEOREM AsksBounded == Spec => []AsksAreBounded
  <1>1. GraphInv => AsksAreBounded
    <2> SUFFICES ASSUME GraphInv PROVE AsksAreBounded
      OBVIOUS
    <2> DEFINE k == MaxReadOut - 1
    <2>1. k \in Nat /\ MaxRetries \in Nat /\ MaxReadOut \in Nat
      BY GraphAssumption
    <2>2. (MaxRetries + 1) * k = MaxRetries * k + k /\ MaxRetries * k \in Nat
      BY <2>1, OneMoreRetry
    <2>3. asks \in Nat
      BY GraphAssumption DEF GraphInv, TypeOK
    <2>4. CASE asks = 0
      BY <2>1, <2>2, <2>4 DEF AsksAreBounded
    <2>5. CASE asks > 0
      <3>1. which.retries \in 0 .. MaxRetries /\ Cardinality(which.candidates) \in 2 .. MaxReadOut
        BY <2>5 DEF GraphInv, TypeOK, Questions, Choice, Course
      <3>2. asks <= which.retries * k + (MaxReadOut - Cardinality(which.candidates)) + 1
        BY <2>5 DEF GraphInv, Course, Allowance
      <3>3. which.retries * k <= MaxRetries * k /\ which.retries * k \in Nat
        BY <2>1, <3>1, FewerRetries
      <3>4. asks <= MaxRetries * k + k
        BY <2>1, <2>2, <2>3, <3>1, <3>2, <3>3
      <3> QED
        BY <2>2, <3>4 DEF AsksAreBounded
    <2> QED
      BY <2>3, <2>4, <2>5
  <1> QED
    BY <1>1, GraphInvariant, PTL
-----------------------------------------------------------------------------
(* What stands to be spoken.  While a turn has yet to answer, or waits for a  *)
(* confirmation, nothing does; and no question has been asked in it.         *)

AskedNow(q) == q.kind # "none" /\ q.at = turns

Silent ==
    Pending \/ paused # NoProposal =>
        /\ agentReply = NoText /\ reply = NoText
        /\ ~AskedNow(which) /\ ~AskedNow(followup)

Spoken ==
    /\ pc = "compose" =>
        /\ agentReply.turn = turns /\ paused = NoProposal
        /\ \A q \in {which, followup} : AskedNow(q) => agentReply.kind = q.kind
    /\ pc = "idle" =>
        /\ reply # NoText => reply.turn = turns /\ paused = NoProposal
        /\ \A q \in {which, followup} : AskedNow(q) => reply.kind \in {q.kind, "withheld"}

SpeechInv == Silent /\ Spoken /\ LiveQuestionWasJustAsked

(* A caller not yet handed over has had every turn counted that ended without  *)
(* a completed action, and the one that has yet to end.                      *)
CountInv ==
    ~escalated => /\ unsettled + OutOf({"agent", "compose"}) <= unresolved
                  /\ unresolved < MaxUnresolved

(* Where the graph is stopped, its agent would propose the same once more.    *)
StandingInv ==
    /\ paused # NoProposal =>
        paused.order \in open /\ paused.task = router /\ Proposes(paused.order)
    /\ answer # "none" => pc = "agent" /\ paused # NoProposal
-----------------------------------------------------------------------------
LEMMA AnswerSpeaks ==
    ASSUME GraphInv, SpeechInv, NEW kind \in Kinds, Answers(kind)
    PROVE  SpeechInv'
  <1> USE DEF Answers, AgentEnds, Say
  <1>1. turns' = turns /\ pc' = "compose" /\ paused' = NoProposal
        /\ agentReply' = Text(kind, turns)
    OBVIOUS
  <1>2. ~AskedNow(which) /\ ~AskedNow(followup)
    BY DEF SpeechInv, Silent, Pending
  <1>3. ~AskedNow(which)'
    BY <1>1, <1>2 DEF AskedNow, NoQuestion, Asked
  <1>4. AskedNow(followup)' => followup'.kind = kind
    BY <1>1, <1>2 DEF AskedNow, NoQuestion, Followup, Asked
  <1> QED
    BY <1>1, <1>3, <1>4
       DEF SpeechInv, Silent, Pending, Spoken, LiveQuestionWasJustAsked, Text

LEMMA AskWhichSpeaks ==
    ASSUME GraphInv, SpeechInv, AskWhich
    PROVE  SpeechInv'
  <1> USE DEF AskWhich, AgentEnds, Say
  <1>1. turns' = turns /\ pc' = "compose" /\ paused' = NoProposal
        /\ agentReply' = Text("which", turns) /\ followup' = followup
    OBVIOUS
  <1>2. ~AskedNow(followup)
    BY DEF SpeechInv, Silent, Pending
  <1>3. ~AskedNow(followup)' /\ which'.kind = "which"
    BY <1>1, <1>2 DEF AskedNow, Asked
  <1> QED
    BY <1>1, <1>3 DEF SpeechInv, Silent, Pending, Spoken, LiveQuestionWasJustAsked, Text

LEMMA HearSpeaks ==
    ASSUME GraphInv, SpeechInv, NEW u \in Utterances, Hear(u)
    PROVE  SpeechInv'
  <1> USE DEF Hear, pending
  <1>1. /\ turns \in Nat /\ turns' = turns + 1 /\ which' = which /\ followup' = followup
        /\ which.at \in 0 .. turns /\ followup.at \in 0 .. turns
    BY GraphAssumption DEF GraphInv, TypeOK, Questions
  <1>2. ~AskedNow(which)' /\ ~AskedNow(followup)'
    BY <1>1 DEF AskedNow
  <1>3. \A q \in {which, followup} : IsLive(q)' => reply.kind \in {q.kind, "withheld"}
    BY <1>1 DEF IsLive, AskedNow, SpeechInv, Spoken
  <1> QED
    BY <1>1, <1>2, <1>3 DEF SpeechInv, Silent, Spoken, LiveQuestionWasJustAsked

LEMMA SpeechStep == GraphInv /\ SpeechInv /\ [Next]_vars => SpeechInv'
  <1> SUFFICES ASSUME GraphInv, SpeechInv, [Next]_vars PROVE SpeechInv'
    OBVIOUS
  <1> USE DEF SpeechInv, Silent, Spoken, AskedNow, Pending, LiveQuestionWasJustAsked
  <1>1. CASE UNCHANGED vars
    BY <1>1 DEF vars, world, pending, orderKnown, sentiment, replies, history, IsLive
  <1>2. CASE Midnight
    BY <1>2 DEF Midnight, pending, orderKnown, sentiment, replies, history
  <1>3. ASSUME NEW yes \in BOOLEAN, Resume(yes) PROVE SpeechInv'
    BY <1>3 DEF Resume, world, pending, orderKnown, sentiment, replies, history
  <1>4. CASE Classify
    BY <1>4 DEF Classify, world, pending, orderKnown, replies
  <1>5. CASE Raise
    BY <1>5 DEF Raise, world, pending, orderKnown, sentiment, replies
  <1>6. CASE Compose
    BY <1>6 DEF Compose, world, pending, orderKnown, replies, history, Text
  <1>7. ASSUME NEW o \in open, Propose(o) PROVE SpeechInv'
    BY <1>7 DEF Propose, EarlyCompose, world, pending, orderKnown, sentiment
  <1> QED
    BY <1>1, <1>2, <1>3, <1>4, <1>5, <1>6, <1>7, HearSpeaks, AgentReturns, AskWhichSpeaks,
       AnswerSpeaks DEF Next

LEMMA SpeechInvariant == Spec => []SpeechInv
  <1>1. Init => SpeechInv
    BY DEF Init, SpeechInv, Silent, Spoken, AskedNow, Pending, LiveQuestionWasJustAsked,
           NoQuestion, Asked
  <1> QED
    BY <1>1, SpeechStep, GraphInvariant, PTL DEF Spec

(* A question that can still capture what is said is the last thing the       *)
(* caller was told, unless that was withheld (dialogue.py, is_live).         *)
THEOREM LiveQuestions == Spec => []LiveQuestionWasJustAsked
  BY SpeechInvariant, PTL DEF SpeechInv

(* Whatever the early composer publishes, what stands to be spoken between     *)
(* turns is of the last turn, and nothing stands before a confirmation        *)
(* (composer.py; runner.py, the comment on agent_reply).                     *)
THEOREM RepliesAreFresh == Spec => []ReplyIsThisTurns
  <1>1. SpeechInv => ReplyIsThisTurns
    BY DEF SpeechInv, Spoken, ReplyIsThisTurns
  <1> QED
    BY <1>1, SpeechInvariant, PTL
-----------------------------------------------------------------------------
LEMMA CountStep == GraphInv /\ CountInv /\ [Next]_vars => CountInv'
  <1> SUFFICES ASSUME GraphInv, CountInv, [Next]_vars PROVE CountInv'
    OBVIOUS
  <1> USE DEF CountInv, OutOf
  <1>0. /\ turns \in Nat /\ unresolved \in Nat /\ unsettled \in Nat /\ MaxUnresolved \in Nat
        /\ paused # NoProposal => pc = "idle" \/ (pc = "agent" /\ answer # "none")
    BY GraphAssumption DEF GraphInv, TypeOK, Stopped
  <1>1. CASE UNCHANGED vars \/ Midnight
    BY <1>1 DEF vars, Midnight, world, sentiment, history
  <1>2. ASSUME NEW u \in Utterances, Hear(u) PROVE CountInv'
    BY <1>0, <1>2 DEF Hear, Abandon, sentiment
  <1>3. ASSUME NEW yes \in BOOLEAN, Resume(yes) PROVE CountInv'
    BY <1>0, <1>3 DEF Resume, sentiment, history
  <1>4. CASE Classify
    <2>1. PICK upset \in BOOLEAN : MonitorSentiment(upset)
      BY <1>4 DEF Classify
    <2>2. ~escalated' => ~escalated /\ ~(unresolved' >= MaxUnresolved)
      BY <2>1, Zenon DEF MonitorSentiment
    <2>3. ~escalated => unresolved' = unresolved + 1
      BY <2>1 DEF MonitorSentiment
    <2> QED
      BY <1>0, <1>4, <2>2, <2>3 DEF Classify
  <1>5. CASE Raise
    BY <1>0, <1>5 DEF Raise, sentiment
  <1>6. CASE Compose
    <2>1. ~escalated' => ~escalated
      BY <1>6, Zenon DEF Compose
    <2> QED
      BY <1>0, <1>6, <2>1 DEF Compose
  <1>7. ASSUME NEW o \in open, Propose(o) PROVE CountInv'
    BY <1>0, <1>7 DEF Propose, sentiment
  <1>8. CASE AskWhich
    BY <1>0, <1>8 DEF AskWhich, AgentEnds
  <1>9. ASSUME NEW kind \in Kinds, Answers(kind) PROVE CountInv'
    <2>1. ~escalated' => ~escalated
      BY <1>9, Zenon DEF Answers
    <2> QED
      BY <1>0, <1>9, <2>1 DEF Answers, AgentEnds
  <1> QED
    BY <1>1, <1>2, <1>3, <1>4, <1>5, <1>6, <1>7, <1>8, <1>9, AgentReturns DEF Next

(* With any limit above zero, a caller is with a human after that many turns   *)
(* in a row without a completed action, whatever is asked, declined, abandoned *)
(* or failed in them (sentiment.py:11, :69-76).                              *)
THEOREM HandOverHolds == ASSUME MaxUnresolved # 0 PROVE Spec => []HandedOverInTime
  <1>1. Init => CountInv
    BY GraphAssumption DEF Init, CountInv, OutOf
  <1>2. GraphInv /\ CountInv => HandedOverInTime
    BY GraphAssumption DEF GraphInv, TypeOK, CountInv, OutOf, HandedOverInTime
  <1> QED
    BY <1>1, <1>2, CountStep, GraphInvariant, PTL DEF Spec
-----------------------------------------------------------------------------
(* An agent settles on one order only.                                        *)
LEMMA SettlesOnce ==
    ASSUME TypeOK, NEW o \in open, NEW p \in open, Settles(o), Settles(p)
    PROVE  o = p
  <1>1. CASE ~Several
    <2>1. \A q : open = {q} => q = o /\ q = p
      OBVIOUS
    <2> QED
      BY <1>1, <2>1 DEF Settles, Names, Keeps, Spells
  <1>2. CASE Several
    <2>1. open # {o} /\ open # {p}
      BY <1>2, FS_Singleton DEF Several
    <2>2. Hits = {o} \/ Hits = {p} => Cardinality(Hits) = 1 /\ Hits # {}
      BY FS_Singleton
    <2>3. NoOrder \notin open
      BY GraphAssumption DEF TypeOK
    <2> QED
      BY <2>1, <2>2, <2>3 DEF Settles, Names, Keeps, Spells
  <1> QED
    BY <1>1, <1>2

(* What the agent works out depends on nothing a pause or a midnight changes. *)
LEMMA ProposesAgain ==
    ASSUME NEW o, Proposes(o),
           UNCHANGED <<open, turns, utterance, which, order, allowed, router>>
    PROVE  Proposes(o)'
  BY DEF Proposes, AtTask, Readable, Settles, Names, Keeps, Spells, Several, Hits, Fits,
         Answering, IsLive

LEMMA StandingStep == GraphInv /\ StandingInv /\ [Next]_vars => StandingInv'
  <1> SUFFICES ASSUME GraphInv, StandingInv, [Next]_vars PROVE StandingInv'
    OBVIOUS
  <1> USE DEF StandingInv
  <1>1. CASE UNCHANGED vars \/ Midnight
    <2>1. UNCHANGED <<open, turns, utterance, pending, order, allowed, router, paused, answer, pc>>
      BY <1>1 DEF vars, Midnight, world, orderKnown, pending
    <2> QED
      BY <2>1, ProposesAgain DEF pending
  <1>2. ASSUME NEW u \in Utterances, Hear(u) PROVE StandingInv'
    BY <1>2 DEF Hear
  <1>3. ASSUME NEW yes \in BOOLEAN, Resume(yes) PROVE StandingInv'
    <2>1. /\ UNCHANGED <<open, turns, utterance, pending, order, allowed, router, paused>>
          /\ paused # NoProposal /\ pc' = "agent" /\ answer' \in {"yes", "no"}
      BY <1>3 DEF Resume, world, orderKnown
    <2> QED
      BY <2>1, ProposesAgain DEF pending
  <1>4. CASE Classify \/ Raise \/ Compose
    BY <1>4 DEF Classify, Raise, Compose, GraphInv, Stopped
  <1>5. ASSUME NEW o \in open, Propose(o) PROVE StandingInv'
    <2>1. /\ UNCHANGED <<open, turns, utterance, which, order, allowed, router, answer>>
          /\ Proposes(o) /\ paused' \in Wanted(o) /\ pc' = "idle" /\ answer = "none"
      BY <1>5 DEF Propose, world, orderKnown, pending
    <2> QED
      BY <2>1, ProposesAgain DEF Wanted, Proposal
  <1>6. CASE AskWhich
    BY <1>6 DEF AskWhich, AgentEnds
  <1>7. ASSUME NEW kind \in Kinds, Answers(kind) PROVE StandingInv'
    BY <1>7 DEF Answers, AgentEnds
  <1> QED
    BY <1>1, <1>2, <1>3, <1>4, <1>5, <1>6, <1>7, AgentReturns DEF Next

LEMMA StandingInvariant == Spec => []StandingInv
  <1>1. Init => StandingInv
    BY DEF Init, StandingInv
  <1> QED
    BY <1>1, StandingStep, GraphInvariant, PTL DEF Spec

ActsOnYes ==
    answer = "yes" /\ pc' = "compose" =>
        \/ agentReply'.kind = "outage"
        \/ /\ commit'.read = paused
           /\ commit'.done.task = paused.task /\ commit'.done.order = paused.order
        \/ ~ReadInFull /\ agentReply'.kind \in {"slot", "handover"}

LEMMA AgentActsOnYes ==
    ASSUME GraphInv, StandingInv, Agent, answer = "yes", pc' = "compose"
    PROVE  ActsOnYes
  <1>1. paused.order \in open /\ paused.task = router /\ Proposes(paused.order)
    BY DEF StandingInv
  <1>2. /\ allowed /\ router \in Tasks /\ router # "order_lookup"
        /\ ~Unsettled /\ open # {}
    BY <1>1 DEF Proposes, AtTask, Unsettled
  <1>3. ~Blocked /\ ~Fallback /\ ~NoOrders /\ ~AskWhich /\ ~GiveUp
    BY <1>2 DEF Blocked, Fallback, NoOrders, AskWhich, GiveUp
  <1>4. ASSUME NEW o \in open
        PROVE  ~OrderLookup(o) /\ ~Propose(o) /\ ~Decline(o)
    BY <1>2 DEF OrderLookup, Propose, Decline
  <1>5. CASE Unavailable
    BY <1>5 DEF Unavailable, Say, Text, ActsOnYes
  <1>6. ASSUME NEW o \in open, AskSlot(o) \/ NoAddress(o) PROVE ActsOnYes
    BY <1>6 DEF AskSlot, NoAddress, HandOver, Say, Text, ActsOnYes
  <1>7. ASSUME NEW o \in open, Commit(o) PROVE ActsOnYes
    <2>1. PICK written \in Wanted(o) : commit' = [read |-> paused, done |-> written]
      BY <1>7 DEF Commit
    <2>2. o = paused.order
      BY <1>1, <1>7, SettlesOnce DEF GraphInv, Proposes, Commit
    <2> QED
      BY <1>1, <2>1, <2>2 DEF ActsOnYes, Wanted, Proposal
  <1> QED
    BY <1>3, <1>4, <1>5, <1>6, <1>7 DEF Agent

(* A yes is spent on the order and the task that were read out, on telling of  *)
(* an outage, or on asking once more for words the patterns did not read: the *)
(* agent that runs again from its first line never settles on another order   *)
(* (reschedule.py, address_change.py).                                       *)
THEOREM YesActedOn == Spec => YesIsActedOn
  <1>1. GraphInv /\ StandingInv /\ [Next]_vars => [ActsOnYes]_vars
    <2> SUFFICES ASSUME GraphInv, StandingInv, Next, answer = "yes", pc' = "compose"
                 PROVE  ActsOnYes
      BY DEF ActsOnYes
    <2>1. pc = "agent"
      BY DEF StandingInv
    <2> QED
      BY <2>1, AgentActsOnYes DEF Next, Midnight, Hear, Resume, Classify, Raise, Compose
  <1>2. [ActsOnYes]_vars <=> [answer = "yes" /\ pc' = "compose" =>
          \/ agentReply'.kind = "outage"
          \/ /\ commit'.read = paused
             /\ commit'.done.task = paused.task /\ commit'.done.order = paused.order
          \/ ~ReadInFull /\ agentReply'.kind \in {"slot", "handover"}]_vars
    BY DEF ActsOnYes
  <1> QED
    BY <1>1, <1>2, GraphInvariant, StandingInvariant, PTL DEF Spec, YesIsActedOn
=============================================================================
