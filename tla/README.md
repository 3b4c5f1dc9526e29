# Verification of the voice concierge

TLA+ models of the voice concierge, the configurations that check them with TLC, and theorems
about them checked by TLAPS. Paths are relative to the repository; line numbers of single claims
are in `PROJECT.json` (`map`, `hazards`, `findings`).

Contents: 1 the system · 2 its components · 3 what is modelled, module by module · 4 the runs ·
5 what the runs found · 6 what is proved · 7 what is not modelled · 8 what is left to do · 9 how to
run it.

## 1. The system

A caller speaks to a voice agent about the delivery of an order: where it is, moving it to
another slot, changing its address. One utterance travels like this:

```
 web client ──audio/text frames──▶ CallLoop ──thread──▶ runner/LangGraph ──HTTP──▶ order API
 (useCall,    websocket            (call_loop.py)       router ∥ sentiment ∥       (router.py,
  player,  ◀──transcript, reply,      receiver task        input guardrail           store.py)
  recorder)   audio chunks, end       queue, generation    agent ∥ early composer       │
                                      confirmation         composer, output guardrail   KV: dict
                                                           checkpointer, PII vault,     or Redis
                                                           trace sink
```

Five state machines carry the logic, each with a problem of its own:

* the **order store** (`services/order-api`): threads, processes, crashes and retries around a
  KV backend without transactions;
* the **call loop** (`services/gateway/app/audio`): a receiver task and a main loop that give way
  to each other at every await, while the caller interrupts, hangs up and answers questions that
  may have changed meanwhile;
* the **call graph** (`services/gateway/app/graph`): what the dialogue remembers from turn to
  turn, nodes that run beside each other in one superstep, and agents that stop for a
  confirmation and are run again from their first line when it comes;
* the **turn in the gateway's process** (`graph/runner.py`, `observability`, `providers/order_client.py`):
  turns of several calls and erasures of sessions in threads of their own, over a vault of tokens,
  a ring of events and a client that stops waiting before the store has decided;
* the **web client** (`services/web/src`): one JavaScript thread, with a microphone, a socket and a
  player whose decoder reports when it likes, while the gateway's events are already under way.

They meet in narrow places. The loop calls the graph with an utterance or the answer to a pause,
and gets back words and perhaps a confirmation; the agents call the store through a client that
has a timeout and makes an idempotency key for each attempt; the loop and the page share a socket
that keeps its order in both directions and loses what is under way when it drops. Where two
components are not in one model, each treats the other as any behaviour the interface allows;
`OrderWrites` and `WebCall` are the models in which two of them are composed.

## 2. Components

| Component | State | Operations | What makes it hard | What must hold |
|---|---|---|---|---|
| Order store (`store.py`, `kv.py`) | orders, slot loads, remembered answers in the KV; a lock and a `_store` global per process | reschedule, update_address, get_store, load; reads get, by_phone, suggest_slots | three writes per commit, a lock that is a process's while the KV is shared, cold starts, retries | a key is decided once and its answer is final; loads count the orders; no slot over its capacity, no order over its allowance; a fixture is never unknown; every request returns |
| Order contracts, fixtures (`schemas.py`, `seed.py`) | – | field ranges, the fixture orders and loads | – | fixtures and loads agree |
| Order API endpoints (`router.py`, `api/index.py`) | – | request → store call | a key is whatever the client sends | as the store |
| Order client (`order_client.py`) | – | reads, writes with a fresh key | a timeout after the store has committed, requests decided late or lost | done means this change; every change made is owned by a call that waits, was told, or was handed over |
| Call loop (`call_loop.py`, `*transport.py`) | queue, generation, awaiting_confirmation; the turn in hand | receive, handle an utterance, deliver, hang up | a newer utterance at every await | the newest utterance is answered, once, in order; a yes answers the question that was read out; the call ends when the caller goes |
| Confirmation (`confirmation.py`) | – | yes / no / unclear | punctuation, mixed replies | a refusal is never a yes |
| Localization (`localize.py`) | – | translate a reply, split it in tracks | an await in the middle of a turn | – |
| Turn runner, graph (`runner.py`, `builder.py`, `state.py`, `dialogue.py`) | the session's CallState, the pause | run_turn, resume | parallel nodes, lost supersteps, re-execution | a reply is this turn's; a question captures only its answer |
| Router, sentiment, guardrails (`nodes/`, `guardrails/`) | unresolved turns, escalation, verdicts | one node each per turn | they read what the last turn left | the caller reaches a human in time |
| Order identification (`order_resolution.py`, `order_identify.py`, `order_reference.py`) | order_id, pending question, snapshot | ensure_order_id, ask which order, give up | answers narrow and widen the list | bounded questions; the order meant is the order changed |
| Domain agents (`order_lookup.py`, `reschedule.py`, `address_change.py`, `fallback.py`) | follow-up question, the proposal at the pause | look up, propose, commit, decline, escalate | code before a pause runs twice | what is written is what was read out |
| Composer (`composer.py`) | reply_text | twice per turn | an early run beside the agent | nothing stale is spoken |
| Extraction (`extraction.py`, `regex_extractors.py`) | – | slots and addresses from words | relative days | the same words give the same slot |
| Checkpointer (`checkpointer.py`) | a database connection | LangGraph's | – | – |
| Trace sink (`trace.py`) | a ring of events per session, the order of sessions | emit, forget, prune, explain | an event is built, scrubbed and appended in turn, without a lock, while an erasure runs; a bound on one of two tables | of what a forgotten session left, only an event that was under way stays |
| PII vault (`pii.py`) | tokens, values, counters of a session | tokenize, rehydrate, redact, the scan behind them | overlapping matches, texts of many turns, an erasure in the middle | what was said comes back; a token keeps its value; nothing is left clear that the rules hide |
| Content cache (`cache.py`) | two files per entry | get, put | a crash between the two | a hit is whole |
| Provider clients (`asr`, `tts`, `translate`, `llm`, `http_errors`) | – | requests | timeouts | – |
| Web client: call, player, recorder, protocol (`web/src`) | the player's generation, decodes, queue and kept tracks; the page's status; microphone, socket and capture | start and end a call, talk, repeat; decoder and source callbacks; server events | asynchronous decoding, taps and stops while a reply is under way, a socket that drops | only the latest reply is heard, whole and in order; the page never stays at Speaking or Thinking |
| Endpoints, settings, test harness, UI components, scripts | – | wiring | – | – |

`PROJECT.json` lists them one by one with what is modelled, and under `hazards` each thing in this
code that is hard to reach with a test, at its line, with the property that watches it or the
reason why none does.

## 3. The modules

### The order store

`OrderRules` holds the pure rules: records of orders, slots, requests and answers, `Verdict` (every
refusal in the order `store.py` tries them), `Moved` (one order's load from one slot to another)
and `Booked` (how many orders are promised for a slot). Its constants are the settings of
`store.py` (capacity, horizon, allowance, blackout days, serviceable cities), the fixtures and the
requests that may arrive.

`OrderStore` is the store. A thread (`Workers`) of a process (`Instances`) serves one request at a
time; **one action is one KV access with the code up to the next one**, since nothing but KV
accesses is visible to another process:

| Action | Code |
|---|---|
| `Call`, `Reply` | a mutation request enters and leaves (`router.py`); a lost reply is a further `Call` |
| `GetStore`, `Load`, `SeedOrder`, `SeedLoads` | `get_store` publishes the global, then `load` writes the fixtures under the lock |
| `Acquire`, `ReadIdem` | the `with` block, the lookup of the key |
| `ReadOrder` | the order is read, every check that needs no further access is made, with `date.today()` |
| `CheckCapacity`, `ReadLoads`, `WriteLoads`, `WriteOrder`, `Remember` | the rest of a commit; an address change joins at `WriteOrder` |
| `Raise` | the KV call of the step raises; the `with` block releases the lock |
| `Crash`, `Midnight` | a process dies with its threads; the date changes |

Choices: several requests may share a key, because the API takes any key a client sends (the
remembered answer is then given whatever else the request says). Two threads that both find
`_store is None` build two store objects with a lock each: that is two instances of the model.
The memory backend is the case of one instance. Midnight does not fall twice in one request, and
`date.today()` is read once per request, where the code reads it at neighbouring lines. Calls
without a key, which the API refuses, are left out. `applied` counts commits per key up to two.

`OrderBook` is the abstract specification: a book of orders, and for each key an answer that is
given at one instant by the rules, with the load of a slot not stored but counted.
`OrderStoreBook` refines it: a commit takes effect when the order is written, and until the
answer is remembered the committing thread's answer stands for the remembered one.

### Writes from the gateway

`OrderWrites` is a confirmed change on its way from an agent to the store and back. The store in it
is the order book, which the store implements, so that the client's clock and the network are the
only detail: `Post` makes the key (`new_idempotency_key`: a fresh one for each attempt) and sends,
`Decide` and `Lose` are what becomes of a request in the network, at any time, `Hear` is an answer
in time and `GiveUp` is `OrderAPIUnavailable`: the time is up, the answer is an error or is lost.
`GiveUp` hands the call over, as both agents do.

Choices: a key is a record of the call, the intent and a number, since a uuid is never made twice.
The date stands still. Requests that the network repeats by itself are left out: the client sends
each once and a duplicate would be answered from memory.

### A turn in the gateway's process

`PIIVault` is `pii.py`: `IterMatches` claims structured matches in the order of the patterns and
trims addresses around them; `Tokenize`, `Rehydrate` and `Redact` replace what it found. A text is a
sequence of characters, tokens and marks of redaction; what the regular expressions match in it is
given with it. `MayStayClear` says without the algorithm what a scan may leave: what is in no
match, what only a longer overlapping match would have covered, and a piece of an address too short
to count. `LongerFirst` is what `pii.py:27` supposes of a text: of two matches that overlap, the
longer is of a pattern listed earlier.

`GatewayTurns` is `run_turn` around the graph and what a turn leaves in the process:

| Action | Code |
|---|---|
| `StartTurn`, `ResumeTurn` | `run_turn` up to the graph: what is said is tokenized with the session's vault; a fresh turn gives text and vault to the graph's state, a resumed one goes on with those saved there |
| `Compose` | an agent's answer, with the values put back |
| `ReadBack`, `Pause` | an agent reads a change back, traces it and stops; an address is read back and traced as the line `extract_address` made of the words and the stored address |
| `ReadAgain`, `Write`, `WriteEnds` | the resumed agent, from its first line: it reads the words again, traces again what it makes of them, and writes over `OrderWrites` |
| `EndTurn` | the turn's last event |
| `Trace`, `Emit` | an event is built by the turn's thread (`trace`), and later scrubbed and appended to the ring (`emit`): two steps, between which anything else may run |
| `ForgetVault`, `Forget` | the two halves of `DELETE /api/sessions/{id}` |

Choices: the turns of one session follow each other, as they do in a call. A turn's thread waits for
its event to be in the ring before its next step. `_vault_for` is one step (the code's test and
lookup are two, and an erasure between them raises). An event is what the properties tell apart:
the text in it and, as a history, how often its session had been erased when it was built
(`after`) and how often since, while it was under way (`outlived`). The line made of an
address is any of a set the words determine (`Readings`): what the model extracts, and which parts of
the stored address are kept beside it, is free, and the line has matches of its own. The agents'
other words are the caller's own, which is the case in which a vault matters most.

### The call loop

`CallLoop` has one action per stretch of code between two awaits. Every `send_event` counts as an
await at which another task may run. The receiver is `Speak`, `HangUp` and `OddFrame`; the main
loop takes the newest of the queue (`NextUtterance`) and goes through `Transcribe`/`ASRFails`,
`Understand`, `RunGraph`/`ResumeGraph`, `TakeResult`, `Reply`, `AfterReply`,
`Synthesize`/`TTSFails`, `SendChunk`, `EndTrack`, with `Superseded` and `BargeIn` for the fences
of a turn that has been overtaken and `TurnRaises` for an exception that unwinds the call.

`Confirmation` is `interpret_confirmation` over words that carry their punctuation, because the
one thing that can go wrong in it is punctuation; whole phrases come before single words, and a
negative word before an affirmative one.

Choices: the graph is reduced to being paused or not. A confirmation is named by the generation of
the turn that asked for it, so that a write can be traced to its question. A new utterance
discards a pause; resuming a graph that is not paused does nothing (both are LangGraph's
behaviour, seen from `runner.py`). A frame that is valid JSON but no object raises in the
receiver's task, which nobody awaits. An empty recording is the same value as the marker that
ends a call. The hangup message and a lost connection are one action. The language pinned at the
start, the texts and the choice of voice are data.

### The call graph

`CallGraph` is a session's CallState through the supersteps of a turn: `Classify` is the router,
the sentiment monitor and the input guardrail together; one agent's action runs beside the
composer's early run (`EarlyCompose`); `Compose` is the composer with the output guardrail behind
it. `Propose` is `interrupt()`, after which nothing the agent worked out is kept; `Resume` runs
the agent again, so that `Commit` and `Decline` compute order, slot and proposal anew. `Raise` is
an exception: what its superstep would have written is lost. `unsettled`, a history, counts the
turns in a row that the sentiment monitor has counted and that ended without a completed action:
with a question, a hand-over or an outage, with an exception, or with a confirmation that was never
answered (`Abandon`). An answer that was told, a lookup's or a write's, is a completed action.

| Action | Code |
|---|---|
| `Blocked`, `Fallback` | the fallback agent, reached by a verdict or by the router |
| `Unavailable` | `OrderAPIUnavailable` at any read an agent makes |
| `NoOrders`, `AskWhich`, `GiveUp`, `Settle` | `ensure_order_id` and `_ask` |
| `OrderLookup`, `AskSlot`, `NoAddress`, `Propose`, `Decline`, `Commit` | the returns of the three agents |

Choices: an utterance is the orders its words fit, how they name them (in full, by what is said
of them, by position in the list read out, garbled, or in words a guardrail blocks) and whether it
holds a yes, a day or a time of day, both, an address in words of its own, or one with a pincode or
flat that the patterns read. The language model may classify any
utterance as anything. The options read out are any subset of the right size, in which the candidates of a garbled
number come first (`Closest`, `ReadOuts`). The open orders of
a session are constant, since nothing in the repository closes an order. A change that the
patterns read in full is read the same way each time, with its day relative to the day of
extraction (the worst case; a date said in full does not move). What they leave open is put to
the model each time the agent runs, with any answer or none (`Changes`, `Readable`).
`today` is counted from the day of the last utterance. Keys that every turn overwrites before it
reads them are dropped when a turn ends (`DropTurnKeys`). Midnight falls between invocations of
the graph. A resumed turn that raises is not modelled.

### The web client

`ReplyPlayer` is `player.ts`: the frames of a track are collected, decoded in a chain, queued and
played; `stop()` moves to a new generation. `WebCall` is the hook `useCall.ts`, the reducer of
`protocol.ts` and the ends of a recording (`recorder.ts`), with the callbacks the player makes, and
beside them the gateway reduced to what its loop puts on the socket. A JavaScript handler runs to
its next await and is one action.

| Action | Code |
|---|---|
| `StartCall`, `MicOpens`, `MicRefused`, `SocketOpens`, `SocketCloses`, `StopCall` | `startCall` with its awaits, `onopen`/`onclose`/`onerror`, `stopCall` |
| `StartListening`, `EndListening`, `AskRepeat` | a tap, the end of a capture by a tap, silence or the time limit, a repeat |
| `DecodeEnds`, `TrackEnds` | the callbacks of the decoder and of the source |
| `OnReady` … `OnError` | `handleServerEvent` and a binary frame, one at a time, in order |
| `GatewayHears` … `GatewayCutsShort` | the receiver and `_deliver` of `call_loop.py`, with the fence between two frames |

Choices: a reply is known by its number, a frame by reply, track and place; the texts the page
shows are left out. A decode may fail for any job, because a track whose frames were cut off is
no sound file. A capture belongs to the recorder of its call: after a call has ended nothing more
comes in, so it never ends. When a socket drops, the page hears of it before anything else.

`MCOrderStore`, `MCGatewayTurns`, `MCCallLoop`, `MCCallGraph` and `MCWebCall` give the constants
values. The modules with the proofs are named after those they are about: `OrderRulesProofs`,
`OrderStoreProofs` (the store and the book it refines), `PIIVaultProofs`, `GatewayTurnsProofs` (the
writes of `OrderWrites` too), `CallLoopProofs`, `CallGraphProofs`, `WebCallProofs`. `FoldProofs` is
about folds over sequences by any operator, and `PIIVaultProofs` takes an `INSTANCE` of it for each
of the five folds of `PIIVault`.

## 4. The runs

Passing runs, with the bounds and why they are enough:

* **store_single** – two threads of one process, four orders (one that may move, one that fills
  its slot, one delivered, one unknown), three days of which one is blacked out and one lies
  beyond the horizon, eleven requests over two keys, midnight, and failures before the first write of
  a commit. `LoadsMatchOrders`, `NotOverbooked`, `AtMostOncePerKey`, and the refinement
  `ImplementsOrderBook`. Two threads are the smallest number that race; two keys let one request
  be a retry while the other competes; requests are chosen so that every answer code but a
  fault's occurs. Threads are interchangeable (symmetry); the properties are safety.
* **store_faults** – a process that starts cold, whose KV may raise at every access, and which is
  killed once. `CapacityRespected`, `LimitRespected`, `AnswersAreFinal`, `EveryCallReturns`. With
  a death in the middle of a commit the loads no longer match the orders and a retry may be
  applied again; what survives is what this run states.
* **call_turns** – three utterances, each a yes, a mixed "okay, cancel"-like reply (a refusal whose
  negative word stands beside an affirmative one) or neither, at any moment of one another's
  turns; two audio tracks of up to two chunks; recognition, graph and synthesis that fail; a
  receiver that dies. Three utterances allow a question, an answer and something that overtakes
  it; two tracks and chunks have a middle and an end.
* **graph_dialogue** – five turns, up to three interchangeable orders of which all three can be
  read out, one re-ask, a hand-over after four turns, one midnight. Five turns exceed the longest
  row of questions that these limits allow (four), so the bound in `AsksAreBounded` can be
  passed if the code lets it; and they exceed the four of the hand-over, so that a caller can have
  something done in between.
* **gateway_turns** – one call, four turns, two writes over one order, two utterances, two address lines,
  two erasures, a ring of three events. The utterances hold an address around a pincode with a rest
  too short to hide, two telephone numbers, and a longer match that overlaps both and is listed after
  them; of the lines, one has words the utterance had not, where a telephone number overlaps a
  shorter match, and one leaves the street out. Four turns are a read-back with its answer twice, an
  attempt and its repetition, or a read-back that a fresh utterance discards; an erasure can fall at
  any point of a turn and while an event is under way, and a second one on the same event or on
  the ring the first left; a turn leaves three events or more, so the ring overflows. Two calls with
  as many turns take longer than a run should; that calls do not disturb one another is in the
  theorems, which hold for any set of sessions.
* **web_playback** – two calls, two recordings and two repeats over them, replies of up to two tracks
  of two frames, dropped sockets. Two recordings are a turn and a barge-in; two repeats a stop of
  one by the other; a second call meets what the first left in the player.

`CHECK_DEADLOCK FALSE` stands in the configurations of the call, the graph, the turns and the page,
because a call ends and what callers do is bounded. The store is checked for deadlock.

Fairness. `OrderStore!FairSpec`: a thread with a step to make makes it (weak fairness), and one
that keeps asking for the lock gets it some time (strong fairness; CPython's lock makes no formal
promise of it, but a store operation is short and threads are few). `Call`, `Raise`, `Crash` and
`Midnight` have none. `CallLoop!FairSpec`: weak fairness of the main loop, because the worker threads
it awaits call providers with timeouts; none for the caller and the receiver's failure.
`GatewayTurns!FairSpec`: weak fairness of a turn's thread, whose client waits four seconds at
most; none for the network and the store. `WebCall!FairSpec`: weak fairness of the events that have
arrived, of decodes and tracks, of the end of a recording (30 seconds at most) and of the gateway;
none for the caller or the network. `CallGraph` has safety properties only.

Every property has a mutant of the code that violates it under the same configuration; the
mutated operators stand before the originals, marked *Mutant*.

## 5. What the runs found

Each of these runs states what the repository's own words promise, and TLC gives an execution that
breaks it. `PROJECT.json` quotes the words.

| Run | What happens |
|---|---|
| store_reseed | A container that comes up on a seeded KV writes the fixtures over changed orders |
| write_retry | A write that was made while its answer was late is made again when the caller repeats it: the second attempt has a key of its own |
| call_readback | A caller who speaks while a read-back is translated confirms what was never read out |
| graph_midnight | A yes after midnight moves the order to a day that was not read out. The run has only changes the patterns read in full, to show that this needs no help from a model; a model that is asked again may change the slot without a midnight |
| web_recording | Frames of a reply that was on its way when the caller tapped are played over the recording |
| web_ready | After End call the page stays up and says "Tap to speak", and no tap does anything |

Some of the bounds and properties of the passing runs exclude these cases on purpose, and then say
what holds otherwise: `store_single` has one process, `WritesWereConfirmed` speaks of the question
that was open, not of the one that was read, `OnlyTheLatestReply` of which reply is heard, not of
when.

Met while modelling, and not shown by a run of their own:

* Two containers apply one idempotency key twice: the lock is a process's (`store.py:147`). The
  theorem `AtMostOnceHolds` says so in its hypothesis.
* `get_store` publishes the store before it is filled; a second thread's "not found" is remembered
  under its key.
* A turn that is superseded after the graph resumed leaves the session waiting for an answer the
  graph has had. `OnlySupersededAwaitInVain` says that nothing else does.
* "no, that's not right." is read as a yes: only the last word of a reply loses its marks, so the
  comma hides the "no", and "not" is no negative word. `RefusalsWriteNothing` speaks of replies in
  which no mark hides a word.
* An unclear answer to "which of these two" is taken for a third order spoken of before; the proposal
  that follows reads that order out.
* After a synthesis that fails the page shows an error and "Thinking" together until the next tap:
  no event ends the turn for it. `AnnouncedAudioIsHeard` counts the error as an end.
* `pii.py:27` says that the longer pattern is listed first, so that it wins the overlap. The order of the
  patterns does not ensure it: of the sixteen digits of a card, where the last ten read like a
  telephone number, the number is hidden, the card's match is dropped whole, and six digits stay
  clear. `NothingElseIsClear` and `ScanIsSound` hold a text to the rules only where its matches
  overlap as the comment supposes (`LongerFirst`); of any other text they say only that the model and the
  trace see what the scan leaves. The run has one of each.
* An event that is built but not yet appended when its session is erased goes into a new ring
  (`trace.py:102-111`, `:180-182`), although `main.py:214` says that all retained data is dropped.
  `ErasureDropsThePast` says that nothing else from before does.
* An erasure leaves the checkpoint, and with it the tokens and the vault in the graph's state: a call
  that is resumed after it still reads its words (`WhatWasSaidComesBack`). `checkpointer.py:10-14` and
  `_vault_for`'s docstring say the vault is never persisted; `run_turn` puts it in the state, and nothing
  calls `strip_vault` or `assert_no_vault_leak`.
* `_vault_for` tests for a session and then looks it up; an erasure between the two raises `KeyError`.
* `trace.py:73-75` promises a bound by count; `_order` is bounded, but a session that falls out of it
  keeps its events, and `prune` runs at shutdown alone. `explain()` reports no escalation after an
  `OrderAPIUnavailable`, for which there is only an error event, and forgets one that the ring of
  400 events has dropped.
* No node counts a turn as resolved, though `sentiment.py:11` and `:65-67` speak of turns without a
  completed action and `composer.py:15-18` says the composer settles the count: the count only grows,
  so a caller whose every turn was completed is handed over as well. `HandedOverInTime` asks for a
  hand-over only after turns in a row without a completed action, and says nothing of those callers.

## 6. What is proved

The proofs hold for every value of the constants. The assumptions are the `ASSUME`s of the modules
(`ConstantsAssumption`, `StoreAssumption`, `WritesAssumption`, `ScanAssumption`, `TurnsAssumption`,
`LoopAssumption`, `GraphAssumption`, `BoundsAssumption`), which TLC evaluates, and those named in a
theorem.

The store:

* **TypeCorrect, LimitHolds** – any number of threads, processes, failures and crashes. `TypeOK` is
  not inductive: that an answer exists where it is remembered, that the order being judged is the
  one the request names, and that a mutation raises the count by one only below the allowance,
  depend on the step a thread is at. `Shape` says so; `TypeInv` is `TypeOK`, `Shape` and
  `LimitRespected` together. The allowance holds even over several processes because each order
  object written was below it when read.
* **LockGuardsProcess** – a thread inside the `with` block holds the lock of its process, whatever
  raises or crashes.
* **CapacityHolds** – under `SingleProcess`, through all failures and crashes: no slot's load passes
  its capacity, beyond what the fixtures put there. The invariant carries the capacity check to
  the write: between the two, the lock keeps the load table as it was checked.
* **AnswersFinal** – under `SingleProcess`, through all failures and crashes: an answer once
  remembered stays, because a thread that is about to remember one has found none and has held the
  lock since.
* **AtMostOnceHolds** – under `SingleProcess` and `CommitsComplete` (no death between writing the
  order and remembering the answer): a key is applied once. The invariant says a key has been
  applied only if it is remembered or its thread is about to remember it. With two processes, or
  with a crash between the two writes, the property fails.
* **LoadsMatch, NeverOverbooked, StoreImplementsBook** – under `SingleProcess` and `WholeCommits` (the
  process is up, and no request dies between the writes of its commit). `BookInv` follows a thread
  through its request (`Settled`): the order it has read is still the one stored, its verdict is the
  one the rules give for the day it asked, the room it found is still there, and the load table it
  is about to write, or has written, counts the orders as they will be. That the loads count the
  orders rests on `BookedMoves`, what the count of a slot becomes when one order moves. The
  refinement maps a commit to the step that writes the order and a refusal to the step that
  remembers it; every other step leaves the book as it was, because at most one thread has
  committed and not yet remembered (`Remembered`). The hypotheses are those of the run
  `store_single`, and each is needed.

The gateway's writes and turns:

* **DoneHolds, OwnedHolds** – however late or seldom the store decides. What a caller heard and what
  the store remembers meet only in the key: no two requests a call accounts for share one
  (`KeysDiffer`), a key belongs to its call (`Mine`), and an accepted answer is the answer to a
  request that its call still knows, with the change it asked for (`AcceptedIsKnown`).
* **WritesRefined** – every step of `GatewayTurns` is a step of `OrderWrites` or leaves it alone, which
  hands the two theorems on to the turns (`TurnsTellTheTruth`, `TurnsOwnCommits`).
* **ErasureHolds** – of what a session left before its erasure, only an event that was under way is in
  its ring afterwards. An event in hand and the session's count of erasures agree at every step
  (`TraceInv`): an erasure raises the count, empties the ring and is noted on the event under way.
* **ScanIsSound, RedactIsSound, TokenizeReverses** – for any text and whatever the patterns find in it.
  `IsUtterance` is all that is asked of an input: matches are not empty and lie in the text, and those
  of the address pattern come one after the other, as `finditer` yields them. What the scan claims
  lies apart (`MatchFacts`), a structured match is dropped only for one listed before it
  (`StructuredFacts`), which `LongerFirst` makes a longer one, and trimming an address passes over no stretch that is long enough to count
  (`TrimStep`). Matches are replaced from the end of the text, so each replacement leaves the part
  before the next match as it was (`HideOne`, `HoldOne`). A vault is well formed (`VaultOK`) if the
  token of every value stands for that value and no token's number passes its counter, which is why
  a new token never takes an old one's place.
* **TurnTypesHold, WordsComeBack, OnlyTheRestIsClear, TokensKeepTheirValues** – any sessions, utterances,
  turns, writes and erasures. What an agent reads and a caller hears back depends on a text and a vault
  that were made together when a fresh turn began and are saved together while it waits for its
  confirmation; turns that resume it leave both alone, whatever has become of the session's vault.
  `TurnInv` says of each session that the vault in its graph's state turns its text back into what was
  said, that the text shows only what the scan leaves, and that a read-back is a line made of the
  words; with it go the events, in hand and in the rings (`TraceInv`), and the writes (`WriteInv`). The
  facts about the scan give the invariant when a turn starts, and those about redaction when an event
  reaches its ring.

The call:

* **LoopTypeCorrect, FenceHolds, WritesConfirmed, RepliesInOrder** – for calls of any length. The
  heart of `LoopInv` is that the fence counts the queue: the generation minus that of the turn in
  hand is the number of utterances waiting, so a turn is dropped only when a newer one is there.
  For the writes it adds that confirmations are older than the turn in hand, that the session's
  and the graph's confirmation agree wherever both are open, and that one that was spent is never
  open again.
* **OnlySupersededStale** – from the same invariant (`OpenPause`): session and graph part only where a
  turn ends between the graph's answer and the session's taking it.
* **RefusalsHold** – for any set of replies in which no mark inside a reply hides a word
  (`EveryWordIsRead`): a reply with a negative word is not a yes, because whole phrases agree with
  the words in them (`PhrasesAgree`) and negative words are tried first.

The graph:

* **GraphTypeCorrect, AsksBounded** – any number of orders, any limits, any utterances. Every
  which-order question in a row either reads out fewer orders than the one before or counts a
  retry, and a list read out has between two orders and `MaxReadOut`. `GraphInv` carries the sum:
  questions so far ≤ retries · (MaxReadOut − 1) + (MaxReadOut − orders read out) + 1.
* **LiveQuestions, RepliesAreFresh** – `SpeechInv`: while a turn has yet to answer, or the graph
  waits for a confirmation, nothing stands to be spoken and no question is of this turn; when an
  agent has returned, its words are those of the question it left.
* **HandOverHolds** – for a limit above zero (with zero, nobody is handed over before speaking):
  until the hand-over, the sentiment monitor's count is at least the number of turns in a row that
  ended without a completed action, and one more while a turn, or its confirmation, has yet to end
  (`CountInv`).
* **YesActedOn** – `StandingInv`: where the graph is stopped, its agent would propose the same task
  for the same order once more, because identification depends only on state that a pause, a
  resume and a midnight leave alone, and settles on one order at most (`SettlesOnce`).

The web client:

* **WebTypeCorrect, DecodesCounted, SpeakingHolds, RepeatHolds** – any number of calls, recordings,
  repeats, tracks and frames. The player's count is right because no job is of a generation still to
  come and the jobs that are wanted are the last of the chain. What the page says depends on where
  its call is (`Phase`): whenever no call is connected the player is silent and expects nothing, so
  a status left over cannot be a false one.
* **LatestHolds** – what is on the wire is in order (`InOrder`): frames behind the announcement of
  their reply, replies rising. So whatever reaches the player after an announcement is of the reply
  that was announced, and what was there before has been stopped.

* **KeptReplyHolds** – what plays and what waits is the end of the kept reply, track by track, and that
  reply has its tracks in order. `OnlyTheLatestReply` does not give this: tracks of one reply could
  still be swapped, merged or heard twice. `KeptInv` adds to the order of the wire that what the
  wire still holds of the announced reply comes after what is being collected, that after what is
  being decoded, and that after what is kept (`TracksInv`, `Beyond`), that each frame stands behind
  its own track's announcement (`FramesTold`), and that what the gateway has still to send comes
  after all of it (`SentBefore`).

Every invariant and every action property of the passing runs is stated by a theorem, some under the
hypotheses named above, and so are both refinements; TLC checks them on small instances and checked the strengthened invariants before
they were proved.

Folds. `FoldLeft` of the community modules takes the greatest index of a set of indices; `FoldTrace`
turns a fold into a trace with a first value, one step for each element and its result at the end.
Induction is needed along such a trace. The library's theorems of induction take an operator as a
parameter, which the provers do not instantiate, so `NatSets` and `UpTo` say it of a set: the least
number outside a set that holds zero and every successor would have a predecessor inside it. The
operator of a fold is a constant of `FoldProofs` that its instances replace.

Model-checked only: the liveness properties (`EveryCallReturns`, `LatestIsAnswered`, `MarkerEndsCall`,
`TurnsEnd`, `AnnouncedAudioIsHeard`, `SpeakingEnds`), because the prover has no rules for fairness.
`PIIVault` takes what the regular expressions match as given: that they find every telephone number
or address is neither checked nor proved.

## 7. What is not modelled

* The store's reads (`get`, `by_phone`, `suggest_slots`) and `reset`: they change nothing a caller
  keeps, and the test hook is not reachable by callers.
* The content cache: two files per entry, keyed by their content, which save repeated requests in
  development.
* Provider clients, endpoints, settings: requests and wiring; the loop and the graph take their
  answers and failures as free choices. The checkpointer is LangGraph's.
* The phrase lists of guardrails and extractors, regular expressions, the arithmetic of days and
  windows, and all wording. Translations of a reply are taken to say what the original says.
* Two turns of one session at once (possible over the text endpoint): that would need a model of what
  LangGraph does with concurrent invocations of one thread. It is listed as a hazard.
* Of the recorder, the level meter, the detection of silence and the WAV it encodes; of the page,
  what it renders.
* What the model extracts of an address, and which parts of the stored one are kept beside it: the line
  they make is any of a given set.
* `prune`, `explain` and the export of traces; `PIIVault.clear`, which nothing calls; a restart of the
  gateway's process, which loses vaults and events together and keeps tokens only in a persistent
  checkpoint.
* The test harness, the demo data and the evaluation scripts, which take no part in a call.

## 8. What is left to do

1. Theorems about what the runs' properties rest on but do not say: the vault's counters against the
   tokens of a persistent checkpoint, the bound on the number of sessions in the trace.
2. Pure modules for slots: `suggest_slots` against the horizon, days and windows from words, matching
   against orders, checked against reference definitions over small inputs.

## 9. Running

```
tlc -workers 2 -config OrderStore_single.cfg MCOrderStore
tlapm OrderStoreProofs.tla
```

`PROJECT.json` lists, for each run, the module and the configuration, the mutants, the source
lines of every definition, the findings and the theorems.
