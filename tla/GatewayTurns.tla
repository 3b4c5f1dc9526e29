---------------------------- MODULE GatewayTurns ----------------------------
(***************************************************************************)
(* What a turn does in the gateway's process around the graph: run_turn with   *)
(* the session's vault (graph/runner.py), the trace events it leaves           *)
(* (observability/trace.py), the write its agent may make (OrderWrites), and   *)
(* the erasure of a session while turns run (main.py:212).  The turns of one   *)
(* session follow each other, as a call loop has them; those of different      *)
(* sessions, and erasures, run in threads of their own, and nothing is locked: *)
(* an event is built in one step and goes through the sink in another.        *)
(*                                                                         *)
(* The graph itself is CallGraph; here an agent answers with the words it was  *)
(* given, or reads a change back and stops.  A turn that resumes it runs it     *)
(* again, on the text and the vault in the graph's state, and may write.       *)
(***************************************************************************)
EXTENDS OrderWrites, PIIVault

CONSTANTS
    Utterances,     \* what callers say: texts with what the patterns find in them
    Readings,       \* of each, the address lines that may be made of it and the stored one
    RingSize,       \* max_events_per_session
    MaxTurns,       \* bound: turns over all sessions
    MaxErasures,    \* bound: erasures over all sessions
    NoUtterance

(* The text of an event that carries none. *)
Blank == [text |-> <<>>, found |-> <<>>, hints |-> <<>>]

Lines == UNION {Readings[u] : u \in Utterances}
Scanned == Utterances \cup Lines \cup {Blank}

ASSUME TurnsAssumption ==
    /\ RingSize \in Nat \ {0}
    /\ MaxTurns \in Nat /\ MaxErasures \in Nat
    /\ \A u \in Utterances \cup Lines : IsUtterance(u)
    /\ \A u, v \in Utterances : u.text = v.text => u = v
    /\ NoUtterance \notin Utterances

VARIABLES
    vaults,         \* _session_vaults: a dictionary
    events,         \* TraceSink._events: of each session, the newest RingSize
    emitting,       \* of the sessions that trace: the event on its way to the sink
    stage,          \* of each session: where its turn is
    task,           \* of each session: the change its agent has read back
    said,           \* the caller_utterance the graph works on
    held,           \* pii_vault in the graph's state
    text,           \* last_utterance in the graph's state, in tokens
    spoken,         \* what the turn gives back to be spoken
    erasing,        \* between the two halves of an erasure
    erased,         \* history: of each session, how often it was erased
    turns, erasures \* counters for the bounds

graphVars == <<stage, task, said, held, text, spoken>>
traceVars == <<events, emitting, erased>>
turnVars == <<vaults, traceVars, graphVars, erasing, turns, erasures>>
vars == <<writeVars, turnVars>>

Init ==
    /\ WriteInit
    /\ vaults = <<>>
    /\ events = [s \in Sessions |-> <<>>]
    /\ emitting = <<>>
    /\ stage = [s \in Sessions |-> "idle"]
    /\ task = [s \in Sessions |-> "none"]
    /\ said = [s \in Sessions |-> NoUtterance]
    /\ held = <<>>
    /\ text = [s \in Sessions |-> <<>>]
    /\ spoken = [s \in Sessions |-> <<>>]
    /\ erasing = [s \in Sessions |-> FALSE]
    /\ erased = [s \in Sessions |-> 0]
    /\ turns = 0 /\ erasures = 0

-----------------------------------------------------------------------------
(* An event keeps, beside the text in its data, how often its session had been  *)
(* erased when it was built, and how often since while it was on its way.       *)
Event(s, line) == [after |-> erased[s], outlived |-> 0, of |-> line]

(* trace: the thread of the turn builds an event, its data as it stands, and    *)
(* takes its next step when the sink has it.                                  *)
Trace(s, line) ==
    /\ s \notin DOMAIN emitting
    /\ emitting' = Put(emitting, s, Event(s, line))
    /\ UNCHANGED <<events, erased>>

(* scrub_mapping, for every text an event may carry. *)
Scrubbed == [line \in Scanned |-> Redact(line)]

(* Mutant: the ring holds one event too many. *)
EmitOneOver(s) ==
    LET all == Append(events[s], [event |-> emitting[s], data |-> Scrubbed[emitting[s].of]])
        old == IF Len(all) > RingSize + 1 THEN 1 ELSE 0
    IN  /\ s \in DOMAIN emitting
        /\ events' = [events EXCEPT ![s] = SubSeq(all, 1 + old, Len(all))]
        /\ emitting' = Without(emitting, s)
        /\ UNCHANGED <<writeVars, vaults, graphVars, erasing, erased, turns, erasures>>

(* emit: the data is scrubbed, and the ring of the session, a new one if it was *)
(* forgotten, drops its oldest event for it.                                  *)
Emit(s) ==
    LET all == Append(events[s], [event |-> emitting[s], data |-> Scrubbed[emitting[s].of]])
        old == IF Len(all) > RingSize THEN 1 ELSE 0
    IN  /\ s \in DOMAIN emitting
        /\ events' = [events EXCEPT ![s] = SubSeq(all, 1 + old, Len(all))]
        /\ emitting' = Without(emitting, s)
        /\ UNCHANGED <<writeVars, vaults, graphVars, erasing, erased, turns, erasures>>

-----------------------------------------------------------------------------
(* Mutant: the numbers start again with every turn. *)
VaultForRecounting(s) ==
    IF s \in DOMAIN vaults THEN [vaults[s] EXCEPT !.counters = NewVault.counters]
                           ELSE NewVault

VaultFor(s) == IF s \in DOMAIN vaults THEN vaults[s] ELSE NewVault

Resting(s) == stage[s] \in {"idle", "paused"}

(* run_turn, up to the graph, with a fresh utterance: a read-back the graph was *)
(* stopped at is gone.                                                       *)
StartTurn(s, u) ==
    LET tokenized == Tokenize(u, VaultFor(s))
    IN  /\ Resting(s) /\ turns < MaxTurns
        /\ turns' = turns + 1
        /\ stage' = [stage EXCEPT ![s] = "graph"]
        /\ task' = [task EXCEPT ![s] = "none"]
        /\ said' = [said EXCEPT ![s] = u]
        /\ text' = [text EXCEPT ![s] = tokenized.text]
        /\ vaults' = Put(vaults, s, tokenized.vault)
        /\ held' = Put(held, s, tokenized.vault)
        /\ Trace(s, Blank)
        /\ UNCHANGED <<writeVars, spoken, erasing, erasures>>

(* Mutant: the resumed graph is handed the session's vault of now. *)
ResumeTurnRevaulted(s, u) ==
    LET tokenized == Tokenize(u, VaultFor(s))
    IN  /\ stage[s] = "paused" /\ turns < MaxTurns
        /\ turns' = turns + 1
        /\ stage' = [stage EXCEPT ![s] = "again"]
        /\ vaults' = Put(vaults, s, tokenized.vault)
        /\ held' = Put(held, s, tokenized.vault)
        /\ Trace(s, Blank)
        /\ UNCHANGED <<writeVars, task, said, text, spoken, erasing, erasures>>

(* run_turn with a resume_value: what the caller says now goes into the session *)
(* 's vault, but the graph goes on with the text and the vault it saved.       *)
ResumeTurn(s, u) ==
    LET tokenized == Tokenize(u, VaultFor(s))
    IN  /\ stage[s] = "paused" /\ turns < MaxTurns
        /\ turns' = turns + 1
        /\ stage' = [stage EXCEPT ![s] = "again"]
        /\ vaults' = Put(vaults, s, tokenized.vault)
        /\ Trace(s, Blank)
        /\ UNCHANGED <<writeVars, task, said, held, text, spoken, erasing, erasures>>

(* compose: the reply gets its values back.  An agent may answer at once, when  *)
(* it can make nothing of the words (a second time too), or when its read-back *)
(* is declined.                                                              *)
Compose(s) ==
    /\ stage[s] \in {"graph", "again", "confirmed"}
    /\ spoken' = [spoken EXCEPT ![s] = Rehydrate(text[s], held[s])]
    /\ stage' = [stage EXCEPT ![s] = "end"]
    /\ Trace(s, Blank)
    /\ UNCHANGED <<writeVars, vaults, task, said, held, text, erasing, turns, erasures>>

(* extract_address: a line is made of the words as they were said. *)
LinesOf(words) == UNION {Readings[u] : u \in {v \in Utterances : v.text = words}}

(* The agent reads a change back and stops; its question goes out as it stands. *)
(* An address is traced as its line, a slot holds nothing to hide.             *)
ReadBack(s) ==
    /\ stage[s] = "graph"
    /\ \/ \E line \in LinesOf(Rehydrate(text[s], held[s])) :
             /\ task' = [task EXCEPT ![s] = "address"]
             /\ spoken' = [spoken EXCEPT ![s] = line.text]
             /\ Trace(s, line)
       \/ /\ task' = [task EXCEPT ![s] = "reschedule"]
          /\ Trace(s, Blank) /\ UNCHANGED spoken
    /\ stage' = [stage EXCEPT ![s] = "asked"]
    /\ UNCHANGED <<writeVars, vaults, said, held, text, erasing, turns, erasures>>

(* Resumed, the agent runs from its first line: it reads the words and traces   *)
(* what it makes of them once more, and goes on past the question.             *)
ReadAgain(s) ==
    /\ stage[s] = "again"
    /\ IF task[s] = "address"
       THEN \E line \in LinesOf(Rehydrate(text[s], held[s])) : Trace(s, line)
       ELSE Trace(s, Blank)
    /\ stage' = [stage EXCEPT ![s] = "confirmed"]
    /\ UNCHANGED <<writeVars, vaults, task, said, held, text, spoken, erasing, turns, erasures>>

Write(s, w) ==
    /\ stage[s] = "confirmed" /\ s \notin DOMAIN emitting
    /\ w.op = task[s]
    /\ Post(s, w)
    /\ stage' = [stage EXCEPT ![s] = "write"]
    /\ UNCHANGED <<vaults, traceVars, task, said, held, text, spoken, erasing, turns, erasures>>

(* Mutant: the turn is dropped while its write is under way. *)
WriteEndsUnheard(s) ==
    /\ stage[s] = "write"
    /\ request' = [request EXCEPT ![s] = NoRequest]
    /\ stage' = [stage EXCEPT ![s] = "end"]
    /\ Trace(s, Blank)
    /\ UNCHANGED <<bookVars, made, net, escalated, done, unsaved>>
    /\ UNCHANGED <<vaults, task, said, held, text, spoken, erasing, turns, erasures>>

(* The agent has its answer, or the lack of one, and says so. *)
WriteEnds(s) ==
    /\ stage[s] = "write"
    /\ Hear(s) \/ GiveUp(s)
    /\ Trace(s, Blank)
    /\ stage' = [stage EXCEPT ![s] = "end"]
    /\ UNCHANGED <<vaults, task, said, held, text, spoken, erasing, turns, erasures>>

(* The state of the graph outlives the turn; what is no longer read is dropped. *)
EndTurn(s) ==
    /\ stage[s] = "end"
    /\ stage' = [stage EXCEPT ![s] = "idle"]
    /\ task' = [task EXCEPT ![s] = "none"]
    /\ said' = [said EXCEPT ![s] = NoUtterance]
    /\ held' = Without(held, s)
    /\ text' = [text EXCEPT ![s] = <<>>]
    /\ spoken' = [spoken EXCEPT ![s] = <<>>]
    /\ Trace(s, Blank)
    /\ UNCHANGED <<writeVars, vaults, erasing, turns, erasures>>

Pause(s) ==
    /\ stage[s] = "asked"
    /\ stage' = [stage EXCEPT ![s] = "paused"]
    /\ spoken' = [spoken EXCEPT ![s] = <<>>]
    /\ Trace(s, Blank)
    /\ UNCHANGED <<writeVars, vaults, task, said, held, text, erasing, turns, erasures>>

-----------------------------------------------------------------------------
(* DELETE /api/sessions/{id}: forget_vault, then the sink's forget. *)
ForgetVault(s) ==
    /\ ~erasing[s] /\ erasures < MaxErasures
    /\ erasures' = erasures + 1
    /\ vaults' = Without(vaults, s)
    /\ erasing' = [erasing EXCEPT ![s] = TRUE]
    /\ UNCHANGED <<writeVars, traceVars, graphVars, turns>>

(* What the sink's forget finds in a turn's hands goes on its way. *)
Outlive(s) ==
    emitting' = [t \in DOMAIN emitting |->
                   IF t = s THEN [emitting[t] EXCEPT !.outlived = @ + 1] ELSE emitting[t]]

(* Mutant: the sink forgets a session of another name. *)
ForgetOther(s) ==
    /\ erasing[s]
    /\ erasing' = [erasing EXCEPT ![s] = FALSE]
    /\ erased' = [erased EXCEPT ![s] = @ + 1]
    /\ Outlive(s)
    /\ UNCHANGED <<writeVars, events, vaults, graphVars, turns, erasures>>

Forget(s) ==
    /\ erasing[s]
    /\ events' = [events EXCEPT ![s] = <<>>]
    /\ erasing' = [erasing EXCEPT ![s] = FALSE]
    /\ erased' = [erased EXCEPT ![s] = @ + 1]
    /\ Outlive(s)
    /\ UNCHANGED <<writeVars, vaults, graphVars, turns, erasures>>

-----------------------------------------------------------------------------
Graph(s) == Compose(s) \/ ReadBack(s) \/ ReadAgain(s) \/ \E w \in Wishes : Write(s, w)

Turn(s) == Graph(s) \/ WriteEnds(s) \/ EndTurn(s) \/ Pause(s) \/ Emit(s)

Next ==
    \/ \E s \in Sessions :
          \/ \E u \in Utterances : StartTurn(s, u) \/ ResumeTurn(s, u)
          \/ Turn(s) \/ ForgetVault(s) \/ Forget(s)
    \/ Network /\ UNCHANGED turnVars

Spec == Init /\ [][Next]_vars

(* The thread of a turn runs, and the client's wait is over after four seconds *)
(* (order_client.py:99).  The network and the store owe nothing.              *)
FairSpec == Spec /\ \A s \in Sessions : WF_vars(Turn(s))

-----------------------------------------------------------------------------
IsVault(v) ==
    /\ DOMAIN v.forward \subseteq Cells
    /\ DOMAIN v.reverse \subseteq Seq(Cells)
    /\ v.counters \in [AllKinds -> Nat]

Stages == {"idle", "graph", "asked", "paused", "again", "confirmed", "write", "end"}

(* Every variable of the process has its type; the graph's state holds an       *)
(* utterance and a vault exactly while a turn or a pause needs them, a turn      *)
(* waits for the store exactly in its write, and no ring passes its size.       *)
TypeOK ==
    /\ \A s \in Sessions :
          /\ stage[s] \in Stages /\ task[s] \in {"none", "reschedule", "address"}
          /\ stage[s] = "idle" <=> said[s] = NoUtterance
          /\ stage[s] = "write" <=> request[s] # NoRequest
          /\ text[s] \in Seq(Cells) /\ spoken[s] \in Seq(Cells)
          /\ Len(events[s]) <= RingSize
          /\ erasing[s] \in BOOLEAN /\ erased[s] \in 0..MaxErasures
    /\ DOMAIN vaults \subseteq Sessions /\ \A s \in DOMAIN vaults : IsVault(vaults[s])
    /\ DOMAIN held = {s \in Sessions : stage[s] # "idle"}
    /\ \A s \in DOMAIN held : IsVault(held[s])
    /\ DOMAIN emitting \subseteq Sessions /\ \A s \in DOMAIN emitting : emitting[s].of \in Scanned
    /\ turns \in 0..MaxTurns /\ erasures \in 0..MaxErasures /\ made \in 0..MaxWrites

(* The words an agent reads, when it first runs and when it is resumed, are      *)
(* what was said, value for value, though the model saw tokens and the session   *)
(* may have been erased meanwhile; a reply repeats them so, and a read-back is    *)
(* made of them (composer.py:52-54, address_change.py:71-114, runner.py:81-88). *)
WhatWasSaidComesBack ==
    \A s \in Sessions :
       /\ stage[s] # "idle" => Rehydrate(text[s], held[s]) = said[s].text
       /\ spoken[s] # <<>> =>
             \/ spoken[s] = said[s].text
             \/ stage[s] = "asked" /\ \E line \in Readings[said[s]] : spoken[s] = line.text

(* As long as a session is not erased, a token stands for the value it was made  *)
(* for, so the tokens in its saved state keep their meaning (pii.py:67-74).   *)
TokensNeverRebind ==
    [][\A s \in DOMAIN vaults \cap DOMAIN vaults' : \A t \in DOMAIN vaults[s].forward :
          /\ t \in DOMAIN vaults'[s].forward
          /\ vaults'[s].forward[t] = vaults[s].forward[t]]_vars

(* What the scan leaves of each text, and whether it may. *)
LeftClear == [u \in Scanned |-> CharactersAt(u.text, Clear(u))]
ScansAreSound ==
    \A u \in Utterances \cup Lines : LongerFirst(u) => \A i \in Clear(u) : MayStayClear(u, i)

(* The model sees no more of what is said, and the trace no more of an address   *)
(* line, than the rules of the scan let them: what no pattern finds, the rest of *)
(* a match that a longer one overlaps, and a piece of an address too short to     *)
(* count (pii.py:104-141).  Of a text whose matches overlap in another order     *)
(* than pii.py:27 supposes, only that both show what the scan leaves.          *)
NothingElseIsClear ==
    /\ ScansAreSound
    /\ \A s \in Sessions :
          /\ stage[s] # "idle" => CharactersOf(text[s]) = LeftClear[said[s]]
          /\ \A i \in 1..Len(events[s]) :
                CharactersOf(events[s][i].data) = LeftClear[events[s][i].event.of]

(* What is in the ring of a session when it is erased is gone for good.  Events   *)
(* from before are in a ring only if every erasure since they were built ran      *)
(* while they were on their way to the sink, whatever turns of the session and   *)
(* of others go on tracing (main.py:212-216, trace.py:102-111, 180-182).      *)
ErasureDropsThePast ==
    \A s \in Sessions : \A i \in 1..Len(events[s]) :
       LET e == events[s][i].event IN e.after + e.outlived = erased[s]

(* The turns make their writes as the client promises: nothing in them, in an   *)
(* erasure or in another session's turn touches a request under way.          *)
ImplementsOrderWrites == WriteSpec

(* Every turn comes to its end, or to its question, also when the order API      *)
(* never answers (order_client.py:99-116).                                   *)
TurnsEnd == \A s \in Sessions : ~Resting(s) ~> Resting(s)
=============================================================================
