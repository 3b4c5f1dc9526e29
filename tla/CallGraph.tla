------------------------------ MODULE CallGraph ------------------------------
(***************************************************************************)
(* The dialogue of one session (gateway/app/graph): what the call graph       *)
(* remembers from turn to turn, and one turn through its supersteps.  The     *)
(* router, the sentiment monitor and the input guardrail read the state the   *)
(* last turn left and write keys of their own; then one agent runs beside an  *)
(* early run of the composer; then the composer and the output guardrail.    *)
(*                                                                           *)
(* An agent that wants a confirmation stops the graph.  Resuming it runs the  *)
(* agent again from its first line, on the state as it was (LangGraph, as     *)
(* runner.py uses it).  What the caller says is reduced to what the agents    *)
(* tell apart in it, and what a language model answers is any answer.        *)
(***************************************************************************)
EXTENDS Integers, FiniteSets, FiniteSetsExt

CONSTANTS
    Orders,         \* orders the store may hold for a caller
    NoOrder,
    MaxReadOut,     \* _MAX_READ_OUT, and as many candidates the fuzzy match returns
    MaxRetries,     \* MAX_DISAMBIGUATION_RETRIES
    MaxUnresolved,  \* settings.max_unresolved_turns
    Utterances,     \* what a caller may say
    MaxTurns,       \* bound on the utterances of a session
    MaxDays         \* bound on the midnights between two utterances

(* An utterance is the orders its words fit, how they name them, and what     *)
(* else is said: a yes; a day or a time of day, or both as the patterns read  *)
(* them ("slot"); an address in words of its own ("street"), or a pincode or   *)
(* flat the patterns read ("address").                                       *)
Sayings ==
    [names : SUBSET Orders,
     manner : {"named", "short", "ordinal", "garbled", "unsafe"},
     says : {"nothing", "yes", "part", "slot", "street", "address"}]

ASSUME GraphAssumption ==
    /\ Utterances \subseteq Sayings
    /\ NoOrder \notin Orders
    /\ IsFiniteSet(Orders)
    /\ MaxReadOut \in Nat \ {0, 1}
    /\ {MaxRetries, MaxUnresolved, MaxTurns, MaxDays} \subseteq Nat

VARIABLES
    open,        \* the caller's open orders, as the order service lists them
    today,       \* date.today(), counted from the day of the last utterance
    turns,       \* len(turns)
    utterance,   \* last_utterance
    which,       \* pending_disambiguation
    followup,    \* pending_followup
    order,       \* order_id
    snapshot,    \* order_snapshot has been taken
    escalated,
    unresolved,  \* unresolved_turns
    allowed,     \* input_guardrail_verdict
    router,      \* the intent the router decided on
    agentReply,  \* agent_reply
    reply,       \* reply_text
    paused,      \* the proposal the graph is stopped at
    answer,      \* what the graph is resumed with
    pc,          \* the superstep that runs next
    (* History, read by properties only. *)
    said,        \* what the turn before this one ended by saying
    asks,        \* which-order questions asked in a row
    unsettled,   \* turns in a row that ended, counted, without a completed action
    commit       \* the write this turn asked of the store: as read out, and as done

pending == <<which, followup>>
orderKnown == <<order, snapshot>>
world == <<open, today>>
sentiment == <<escalated, unresolved>>
replies == <<agentReply, reply>>
history == <<said, asks, unsettled, commit>>
vars == <<world, turns, utterance, pending, orderKnown, sentiment, allowed, router,
          replies, paused, answer, pc, history>>

Tasks == {"order_lookup", "reschedule", "address_change"}
Intents == Tasks \cup {"fallback", "other"}

Silence == [names |-> {}, manner |-> "named", says |-> "nothing"]

(* A question the agent has asked and is waiting on, stamped with its turn.   *)
Asked(intent, kind, candidates, retries, at) ==
    [intent |-> intent, kind |-> kind, candidates |-> candidates, retries |-> retries, at |-> at]
NoQuestion == Asked("fallback", "none", {}, 0, 0)
(* Mutant: a question never expires. *)
IsLiveForever(q) == q.kind # "none"
IsLive(q) == q.kind # "none" /\ q.at = turns - 1
Followup(intent, kind) == Asked(intent, kind, {}, 0, turns)

Text(kind, turn) == [kind |-> kind, turn |-> turn]
NoText == Text("nothing", 0)
Say(kind) == agentReply' = Text(kind, turns)

(* A change is the day of a slot, or one of the addresses words can mean.     *)
Proposal(task, o, change) == [task |-> task, order |-> o, change |-> change]
NoProposal == Proposal("fallback", NoOrder, 0)
NoCommit == [read |-> NoProposal, done |-> NoProposal]

Init ==
    /\ open \in SUBSET Orders
    /\ today = 0 /\ turns = 0 /\ utterance = Silence
    /\ which = NoQuestion /\ followup = NoQuestion
    /\ order = NoOrder /\ snapshot = FALSE
    /\ escalated = FALSE /\ unresolved = 0 /\ allowed = TRUE
    /\ router = "fallback"
    /\ agentReply = NoText /\ reply = NoText
    /\ paused = NoProposal /\ answer = "none"
    /\ pc = "idle"
    /\ said = "nothing" /\ asks = 0 /\ unsettled = 0 /\ commit = NoCommit
-----------------------------------------------------------------------------
(* What an utterance says of the orders (match_order_reference). *)

Answering == IsLive(which)

Fits(o) ==
    /\ o \in utterance.names
    /\ \/ utterance.manner = "named"
       \/ Answering /\ utterance.manner = "short"
       \/ Answering /\ utterance.manner = "ordinal" /\ o \in which.candidates
Hits == {o \in open : Fits(o)}

(* The order an agent settles on (ensure_order_id), if it settles.            *)
Several == Cardinality(open) > 1
Names(o) == Several /\ Hits = {o}
Keeps(o) == Several /\ Cardinality(Hits) # 1 /\ order = o /\ (Hits = {} \/ o \in Hits)
Spells(o) ==
    /\ Several /\ Hits = {} /\ order = NoOrder
    /\ utterance.manner = "garbled" /\ utterance.names \cap open = {o}
Settles(o) == open = {o} \/ Names(o) \/ Keeps(o) \/ Spells(o)
Unsettled == \A o \in open : ~Settles(o)

Options == IF Hits = {} THEN open ELSE Hits
ReadOut == Min({MaxReadOut, Cardinality(Options)})

(* A garbled number that fits several orders puts those first among the        *)
(* options; what the fuzzy match ranks behind them fills the list up.         *)
Closest == IF Hits = {} /\ utterance.manner = "garbled" THEN utterance.names \cap open ELSE {}
ReadOuts == {q \in kSubset(ReadOut, Options) : Closest \subseteq q \/ q \subseteq Closest}
NoProgress == Answering /\ ReadOut >= Cardinality(which.candidates)

(* The calls an agent makes to the order service on its way.                  *)
Fetches == order = NoOrder \/ ~snapshot
NeedsOrder == ~Unsettled

(* The state an agent returns once an order is settled.                       *)
Settle(o) ==
    /\ order' = o /\ snapshot' = TRUE
    /\ which' = IF order = o /\ ~(Names(o) /\ Answering) THEN which ELSE NoQuestion
-----------------------------------------------------------------------------
(* The environment. *)

Midnight ==
    /\ pc = "idle" /\ today < MaxDays
    /\ today' = today + 1
    /\ UNCHANGED <<open, turns, utterance, pending, orderKnown, sentiment, allowed, router,
                   replies, paused, answer, pc, history>>

(* A turn that still waits for its confirmation ends without one. *)
Abandon == unsettled' = IF paused # NoProposal THEN unsettled + 1 ELSE unsettled

(* Mutant: agent_reply is not cleared. *)
HearKeepingReply(u) ==
    /\ pc = "idle" /\ turns < MaxTurns
    /\ turns' = turns + 1 /\ utterance' = u /\ today' = 0
    /\ reply' = NoText
    /\ paused' = NoProposal /\ answer' = "none"
    /\ said' = reply.kind /\ commit' = NoCommit /\ Abandon
    /\ pc' = "classify"
    /\ UNCHANGED <<open, pending, orderKnown, sentiment, allowed, router, agentReply, asks>>

(* A fresh utterance starts the graph over; a confirmation it was stopped at  *)
(* is gone.                                                                 *)
Hear(u) ==
    /\ pc = "idle" /\ turns < MaxTurns
    /\ turns' = turns + 1 /\ utterance' = u /\ today' = 0
    /\ agentReply' = NoText /\ reply' = NoText
    /\ paused' = NoProposal /\ answer' = "none"
    /\ said' = reply.kind /\ commit' = NoCommit /\ Abandon
    /\ pc' = "classify"
    /\ UNCHANGED <<open, pending, orderKnown, sentiment, allowed, router, asks>>

Resume(yes) ==
    /\ pc = "idle" /\ paused # NoProposal
    /\ answer' = IF yes THEN "yes" ELSE "no"
    /\ pc' = "agent"
    /\ UNCHANGED <<world, turns, utterance, pending, orderKnown, sentiment, allowed, router,
                   replies, paused, history>>
-----------------------------------------------------------------------------
(* The first superstep. *)

AnswersFollowup ==
    /\ IsLive(followup)
    /\ \/ followup.kind = "offer" /\ utterance.says = "yes"
       \/ /\ followup.kind = "slot" /\ followup.intent = "reschedule"
          /\ utterance.says \in {"part", "slot"}

(* Intent i is what the model answers, or "fallback" below the floor.         *)
Cold(i) ==
    router' = IF i = "fallback" /\ Answering THEN which.intent
              ELSE IF i = "fallback" /\ IsLive(followup) /\ followup.kind = "slot"
              THEN followup.intent ELSE i

Route ==
    \/ Answering /\ Hits # {} /\ router' = which.intent
    \/ ~(Answering /\ Hits # {}) /\ AnswersFollowup /\ router' = followup.intent
    \/ ~(Answering /\ Hits # {}) /\ ~AnswersFollowup /\ \E i \in Intents : Cold(i)

MonitorSentiment(upset) ==
    /\ unresolved' = IF escalated THEN unresolved ELSE unresolved + 1
    /\ escalated' = (escalated \/ upset \/ unresolved' >= MaxUnresolved)

InputGuardrail == allowed' = (utterance.manner # "unsafe")

(* The keys a turn overwrites before it reads them are dropped as it ends, so *)
(* that states differ only in what later turns can see.                     *)
DropTurnKeys == utterance' = Silence /\ router' = "fallback" /\ allowed' = TRUE

Classify ==
    /\ pc = "classify"
    /\ Route /\ (\E upset \in BOOLEAN : MonitorSentiment(upset)) /\ InputGuardrail
    /\ said' = "nothing"
    /\ pc' = "agent"
    /\ UNCHANGED <<world, turns, utterance, pending, orderKnown, replies, paused, answer,
                   asks, unsettled, commit>>

(* A provider's error nobody catches.  What the failing superstep would have  *)
(* written is lost.  A resumed turn that fails is not modelled.             *)
Raise ==
    /\ pc \in {"classify", "agent"} /\ answer = "none"
    /\ unsettled' = IF pc = "agent" THEN unsettled + 1 ELSE unsettled
    /\ asks' = 0 /\ said' = "nothing"
    /\ DropTurnKeys
    /\ pc' = "idle"
    /\ UNCHANGED <<world, turns, pending, orderKnown, sentiment, replies, paused, answer, commit>>
-----------------------------------------------------------------------------
(* The second superstep: the agent, and the composer's early run beside it.   *)

EarlyCompose == reply' = IF agentReply = NoText THEN reply ELSE agentReply

(* The agent has its answer; whatever the graph was stopped at is over.       *)
AgentEnds ==
    /\ pc = "agent"
    /\ EarlyCompose
    /\ paused' = NoProposal /\ answer' = "none"
    /\ pc' = "compose"
    /\ UNCHANGED <<world, turns, utterance, unresolved, allowed, router, said, unsettled>>

AtTask == allowed /\ router \in Tasks
KeepState == UNCHANGED <<pending, orderKnown>>
HandOver == Say("handover") /\ escalated' = TRUE

Blocked ==
    /\ AgentEnds /\ ~allowed
    /\ HandOver /\ KeepState
    /\ asks' = 0 /\ UNCHANGED commit

Fallback ==
    /\ AgentEnds /\ allowed /\ router \notin Tasks
    /\ \/ ~escalated /\ HandOver /\ which' = NoQuestion /\ followup' = NoQuestion
       \/ escalated /\ Say("told") /\ UNCHANGED <<pending, escalated>>
    /\ asks' = 0 /\ UNCHANGED <<orderKnown, commit>>

(* OrderAPIUnavailable, at whichever call: the order settled on is forgotten. *)
Unavailable ==
    /\ AgentEnds /\ AtTask /\ (Fetches \/ NeedsOrder)
    /\ Say("outage") /\ escalated' = TRUE /\ KeepState
    /\ asks' = 0 /\ UNCHANGED commit

NoOrders ==
    /\ AgentEnds /\ AtTask /\ open = {}
    /\ HandOver /\ snapshot' = TRUE /\ UNCHANGED <<order, pending>>
    /\ asks' = 0 /\ UNCHANGED commit

(* Mutant: narrowing forgets the retries. *)
AskWhichAfresh ==
    /\ AgentEnds /\ AtTask /\ open # {} /\ Unsettled
    /\ NoProgress => which.retries < MaxRetries
    /\ \E readOut \in ReadOuts :
          which' = Asked(router, "which", readOut, IF NoProgress THEN which.retries + 1 ELSE 0, turns)
    /\ Say("which") /\ snapshot' = TRUE
    /\ asks' = asks + 1 /\ UNCHANGED <<order, followup, escalated, commit>>

(* Mutant: one re-ask too many. *)
AskWhichOnceMore ==
    /\ AgentEnds /\ AtTask /\ open # {} /\ Unsettled
    /\ NoProgress => which.retries <= MaxRetries
    /\ LET before == IF Answering THEN which.retries ELSE 0
           retries == IF NoProgress THEN before + 1 ELSE before
       IN \E readOut \in ReadOuts :
             which' = Asked(router, "which", readOut, retries, turns)
    /\ Say("which") /\ snapshot' = TRUE
    /\ asks' = asks + 1 /\ UNCHANGED <<order, followup, escalated, commit>>

(* _ask: the options read out are remembered, with the unclear answers so far. *)
AskWhich ==
    /\ AgentEnds /\ AtTask /\ open # {} /\ Unsettled
    /\ NoProgress => which.retries < MaxRetries
    /\ LET before == IF Answering THEN which.retries ELSE 0
           retries == IF NoProgress THEN before + 1 ELSE before
       IN \E readOut \in ReadOuts :
             which' = Asked(router, "which", readOut, retries, turns)
    /\ Say("which") /\ snapshot' = TRUE
    /\ asks' = asks + 1 /\ UNCHANGED <<order, followup, escalated, commit>>

GiveUp ==
    /\ AgentEnds /\ AtTask /\ open # {} /\ Unsettled
    /\ NoProgress /\ which.retries >= MaxRetries
    /\ HandOver /\ which' = NoQuestion /\ snapshot' = TRUE
    /\ asks' = 0 /\ UNCHANGED <<order, followup, commit>>

(* The patterns alone read what the task needs, and the model is not asked.   *)
ReadInFull ==
    <<router, utterance.says>> \in {<<"reschedule", "slot">>, <<"address_change", "address">>}

OrderLookup(o) ==
    /\ AgentEnds /\ AtTask /\ router = "order_lookup" /\ Settles(o)
    /\ Settle(o)
    /\ \/ Say("told") /\ UNCHANGED followup
       \/ Say("offer") /\ followup' = Followup("reschedule", "offer")
    /\ asks' = 0 /\ UNCHANGED <<escalated, commit>>

AskSlot(o) ==
    /\ AgentEnds /\ AtTask /\ router = "reschedule" /\ Settles(o)
    /\ ~ReadInFull
    /\ Settle(o) /\ Say("slot") /\ followup' = Followup("reschedule", "slot")
    /\ asks' = 0 /\ UNCHANGED <<escalated, commit>>

NoAddress(o) ==
    /\ AgentEnds /\ AtTask /\ router = "address_change" /\ Settles(o)
    /\ ~ReadInFull
    /\ Settle(o) /\ HandOver /\ UNCHANGED followup
    /\ asks' = 0 /\ UNCHANGED commit

(* What the words are read as, each time the agent runs: a day that is spelled *)
(* out is relative to today; what the patterns leave open is any answer of    *)
(* the model, which may also be none (AskSlot, NoAddress).                   *)
Changes ==
    IF ~ReadInFull THEN 0 .. MaxDays
    ELSE IF router = "reschedule" THEN {today} ELSE {0}
Wanted(o) == {Proposal(router, o, change) : change \in Changes}

(* The model is asked for any slot, but for an address only by certain words. *)
Readable == router = "reschedule" \/ utterance.says \in {"street", "address"}
Proposes(o) == AtTask /\ router # "order_lookup" /\ Settles(o) /\ Readable

(* Mutant: the pause drops the question. *)
ProposeForgettingQuestion(o) ==
    /\ pc = "agent" /\ answer = "none" /\ Proposes(o)
    /\ paused' \in Wanted(o)
    /\ EarlyCompose
    /\ which' = NoQuestion
    /\ asks' = 0 /\ pc' = "idle"
    /\ UNCHANGED <<world, turns, utterance, followup, orderKnown, sentiment, allowed, router,
                   agentReply, answer, said, unsettled, commit>>

(* interrupt(): the agent returns nothing, so nothing it worked out is kept.  *)
Propose(o) ==
    /\ pc = "agent" /\ answer = "none" /\ Proposes(o)
    /\ paused' \in Wanted(o)
    /\ EarlyCompose
    /\ asks' = 0 /\ pc' = "idle"
    /\ UNCHANGED <<world, turns, utterance, pending, orderKnown, sentiment, allowed, router,
                   agentReply, answer, said, unsettled, commit>>

Decline(o) ==
    /\ AgentEnds /\ answer = "no" /\ Proposes(o)
    /\ Settle(o) /\ Say("slot") /\ followup' = Followup(router, "slot")
    /\ asks' = 0 /\ UNCHANGED <<escalated, commit>>

(* The write: done or refused, or the service is lost and the caller is told  *)
(* a colleague will see to it.                                              *)
Commit(o) ==
    /\ AgentEnds /\ answer = "yes" /\ Proposes(o)
    /\ \E written \in Wanted(o) : commit' = [read |-> paused, done |-> written]
    /\ \/ Say("told") /\ Settle(o) /\ UNCHANGED <<followup, escalated>>
       \/ Say("outage") /\ escalated' = TRUE /\ KeepState
    /\ asks' = 0

Agent ==
    \/ Blocked \/ Fallback \/ Unavailable \/ NoOrders \/ AskWhich \/ GiveUp
    \/ \E o \in open : OrderLookup(o) \/ AskSlot(o) \/ NoAddress(o)
                       \/ Propose(o) \/ Decline(o) \/ Commit(o)
-----------------------------------------------------------------------------
(* The composer and the output guardrail behind it.                           *)

(* A request is dealt with when its answer has been told. *)
Completed == agentReply.kind \in {"told", "offer"}

(* Mutant: any answer counts as an end of the matter, a question too. *)
ComposeResolving ==
    /\ pc = "compose"
    /\ \/ reply' = agentReply /\ UNCHANGED escalated
       \/ reply' = Text("withheld", turns) /\ escalated' = TRUE
    /\ unresolved' = 0
    /\ unsettled' = IF Completed THEN 0 ELSE unsettled + 1
    /\ DropTurnKeys
    /\ pc' = "idle"
    /\ UNCHANGED <<world, turns, pending, orderKnown, agentReply, paused, answer, said, asks,
                   commit>>

Compose ==
    /\ pc = "compose"
    /\ \/ reply' = agentReply /\ UNCHANGED escalated
       \/ reply' = Text("withheld", turns) /\ escalated' = TRUE
    /\ unsettled' = IF Completed THEN 0 ELSE unsettled + 1
    /\ DropTurnKeys
    /\ pc' = "idle"
    /\ UNCHANGED <<world, turns, pending, orderKnown, unresolved, agentReply, paused, answer,
                   said, asks, commit>>

Next ==
    \/ Midnight
    \/ \E u \in Utterances : Hear(u)
    \/ \E yes \in BOOLEAN : Resume(yes)
    \/ Classify \/ Raise \/ Agent \/ Compose

Spec == Init /\ [][Next]_vars
-----------------------------------------------------------------------------
(* Every variable of the session has its type.                                *)
Questions ==
    [intent : Intents, kind : {"none", "which", "slot", "offer"}, candidates : SUBSET open,
     retries : 0 .. MaxRetries, at : 0 .. turns]
Kinds == {"nothing", "which", "slot", "offer", "told", "handover", "outage", "withheld"}
Texts == [kind : Kinds, turn : 0 .. turns]
Proposals == [task : Intents, order : Orders \cup {NoOrder}, change : 0 .. MaxDays]

TypeOK ==
    /\ open \in SUBSET Orders /\ today \in 0 .. MaxDays /\ turns \in 0 .. MaxTurns
    /\ utterance \in Sayings
    /\ which \in Questions /\ followup \in Questions
    /\ order \in open \cup {NoOrder} /\ snapshot \in BOOLEAN
    /\ escalated \in BOOLEAN /\ unresolved \in 0 .. turns
    /\ allowed \in BOOLEAN /\ router \in Intents
    /\ agentReply \in Texts /\ reply \in Texts
    /\ paused \in Proposals /\ answer \in {"none", "yes", "no"}
    /\ pc \in {"idle", "classify", "agent", "compose"}
    /\ said \in Kinds /\ asks \in 0 .. turns /\ unsettled \in 0 .. turns
    /\ commit \in [read : Proposals, done : Proposals]

(* A caller who never says which order is asked a bounded number of times in  *)
(* a row, however the answers narrow and widen what is read out               *)
(* (order_identify.py, _ask).                                               *)
AsksAreBounded == asks <= (MaxRetries + 1) * (MaxReadOut - 1)

(* A question that can still capture an utterance is the very last thing the  *)
(* caller was told, unless the output guardrail withheld it (dialogue.py).   *)
LiveQuestionWasJustAsked ==
    pc = "classify" =>
        \A q \in {which, followup} : IsLive(q) => said \in {q.kind, "withheld"}

(* Between turns, what stands to be spoken belongs to this turn, and where    *)
(* the graph is stopped nothing stands before its question (runner.py, the   *)
(* comment on agent_reply; composer.py).                                    *)
ReplyIsThisTurns ==
    pc = "idle" /\ reply # NoText => reply.turn = turns /\ paused = NoProposal

(* Too many turns in a row without a completed action end with a human,        *)
(* whatever is asked, declined, abandoned at its pause or failed in them, and  *)
(* though no question of a slot has a bound of its own (sentiment.py:11,       *)
(* router.py:100-101).  A turn whose sentiment monitor failed is not counted; *)
(* nothing is asked of callers who had something done in between.            *)
HandedOverInTime == unsettled >= MaxUnresolved => escalated

(* A yes is spent on the very order and task that were read out, or on        *)
(* telling the caller of an outage.  Running the agent again never ends in    *)
(* another order or in another which-order question; it may ask for the       *)
(* change once more only where the patterns did not read all of it           *)
(* (reschedule.py, address_change.py, runner.py).                            *)
YesIsActedOn ==
    [][answer = "yes" /\ pc' = "compose" =>
          \/ agentReply'.kind = "outage"
          \/ /\ commit'.read = paused
             /\ commit'.done.task = paused.task /\ commit'.done.order = paused.order
          \/ ~ReadInFull /\ agentReply'.kind \in {"slot", "handover"}]_vars

(* The comment in reschedule.py: nothing is written until the caller has      *)
(* heard the exact slot and confirmed it.                                   *)
CommitsWhatWasRead == commit.done = commit.read
=============================================================================
