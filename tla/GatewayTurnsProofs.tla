------------------------- MODULE GatewayTurnsProofs -------------------------
(***************************************************************************)
(* Theorems about the gateway's writes and turns, for any calls, utterances,   *)
(* changes and erasures, however late or seldom the store decides.            *)
(*                                                                         *)
(* Writes.  What a caller was told and what the store remembers meet only in   *)
(* the key, so the invariant WriteInv says whose a key is (Mine, KeysDiffer)    *)
(* and that an accepted answer is the answer to a request its call still        *)
(* knows (AcceptedIsKnown).  Turns make their writes as the client promises,   *)
(* which hands the theorems about writes on to them.                          *)
(*                                                                         *)
(* Traces.  An event may be on its way to the sink when its session is erased:   *)
(* TraceInv counts, for an event in a ring and for one on its way, the erasures   *)
(* it was built after and those it outlived, which are all there were.           *)
(*                                                                         *)
(* Turns.  The invariant TurnInv says of each session what its turn was given,  *)
(* holds and says (TurnFits): the vault a turn holds turns its text back into   *)
(* what was said, and the text shows only what the scan leaves.  Both are       *)
(* facts about the scan (PIIVaultProofs) when a turn starts; a resumed turn is   *)
(* given nothing new, and no step of another session or of an erasure touches   *)
(* them.                                                                     *)
(***************************************************************************)
EXTENDS GatewayTurns, OrderRulesProofs, PIIVaultProofs

(* The requests a call has posted and still accounts for. *)
Posted(s) == {r \in Requests : r = request[s] \/ r \in done[s] \/ r \in unsaved[s]}

WriteTypes ==
    /\ book \in [Ids -> Order \cup {NoOrder}]
    /\ answers \in [Keys -> Answer \cup {NoAnswer}]
    /\ today \in Int
    /\ made \in 0..MaxWrites
    /\ net \subseteq Requests
    /\ request \in [Sessions -> Requests \cup {NoRequest}]
    /\ escalated \in [Sessions -> BOOLEAN]
    /\ done \in [Sessions -> SUBSET Requests]
    /\ unsaved \in [Sessions -> SUBSET Requests]

Mine ==
    \A s \in Sessions : \A r \in Posted(s) : r.key.session = s /\ r.key.nonce \in 1..made

KeysDiffer ==
    \A s \in Sessions : \A r, q \in Posted(s) : r.key = q.key => r = q

NetIsPosted ==
    \A r \in net : \E s \in Sessions : r = request[s] \/ r \in unsaved[s]

UnsavedIsEscalated == \A s \in Sessions : unsaved[s] # {} => escalated[s]

DoneIsAccepted == \A s \in Sessions : \A r \in done[s] : AcceptedKey(r.key)

(* The answer carries the order with the change that was asked for. *)
Does(a, r) ==
    /\ a.id = r.id
    /\ IF r.op = "reschedule" THEN a.order.slot = r.slot ELSE a.order.address = r.address

AcceptedIsKnown ==
    \A k \in Keys : AcceptedKey(k) =>
       \E s \in Sessions : \E r \in Posted(s) : r.key = k /\ Does(answers[k], r)

WriteInv ==
    /\ WriteTypes /\ Mine /\ KeysDiffer /\ NetIsPosted /\ UnsavedIsEscalated
    /\ DoneIsAccepted /\ AcceptedIsKnown
-----------------------------------------------------------------------------
LEMMA InitWrites == WriteInit => WriteInv
  <1> SUFFICES ASSUME WriteInit PROVE WriteInv
    OBVIOUS
  <1>1. WriteTypes
    BY ConstantsAssumption, WritesAssumption DEF WriteInit, BookInit, WriteTypes
  <1>2. \A s \in Sessions : Posted(s) = {}
    BY WritesAssumption DEF WriteInit, Posted
  <1> QED
    BY <1>1, <1>2 DEF WriteInit, BookInit, WriteInv, Mine, KeysDiffer, NetIsPosted,
          UnsavedIsEscalated, DoneIsAccepted, AcceptedIsKnown, AcceptedKey

(* A new request is one of Requests, under a key that no request has had. *)
LEMMA NewRequest ==
    ASSUME NEW s \in Sessions, NEW w \in Wishes, made \in Nat, made < MaxWrites
    PROVE  LET r == WithKey(w, NewIdempotencyKey(s, w.op))
           IN  r \in Requests /\ r.key.session = s /\ r.key.nonce = made + 1
  <1> DEFINE k == NewIdempotencyKey(s, w.op)
             r == WithKey(w, k)
  <1>1. made + 1 \in 1..MaxWrites
    BY WritesAssumption
  <1>2. r \in Requests
    BY <1>1, WritesAssumption DEF NewIdempotencyKey
  <1>3. r.key = k
    BY DEF WithKey
  <1>4. k.session = s /\ k.nonce = made + 1
    BY DEF NewIdempotencyKey, Key
  <1> QED
    BY <1>2, <1>3, <1>4

LEMMA PostStep ==
    ASSUME WriteInv, NEW s \in Sessions, NEW w \in Wishes, Post(s, w)
    PROVE  WriteInv'
  <1> USE DEF WriteInv
  <1> DEFINE r == WithKey(w, NewIdempotencyKey(s, w.op))
  <1>1. r \in Requests /\ r.key.session = s /\ r.key.nonce = made + 1
    BY NewRequest DEF Post, WriteTypes
  <1> HIDE DEF r
  <1>2. /\ request[s] = NoRequest /\ made < MaxWrites /\ made' = made + 1
        /\ net' = net \cup {r} /\ request' = [request EXCEPT ![s] = r]
        /\ UNCHANGED <<bookVars, escalated, done, unsaved>>
    BY DEF Post, r
  <1>3. Posted(s)' = Posted(s) \cup {r}
    BY <1>1, <1>2, WritesAssumption DEF Posted, WriteTypes
  <1>4. \A t \in Sessions : t # s => Posted(t)' = Posted(t)
    BY <1>2 DEF Posted, WriteTypes
  <1>5. WriteTypes'
    BY <1>1, <1>2, WritesAssumption DEF WriteTypes, bookVars
  <1>6. Mine'
    BY <1>1, <1>2, <1>3, <1>4 DEF Mine, WriteTypes
  <1>7. KeysDiffer'
    BY <1>1, <1>2, <1>3, <1>4 DEF KeysDiffer, Mine, WriteTypes
  <1>8. NetIsPosted'
    BY <1>2, WritesAssumption DEF NetIsPosted, WriteTypes
  <1>9. UnsavedIsEscalated' /\ DoneIsAccepted'
    BY <1>2 DEF UnsavedIsEscalated, DoneIsAccepted, AcceptedKey, bookVars
  <1>10. AcceptedIsKnown'
    BY <1>2, <1>3, <1>4 DEF AcceptedIsKnown, AcceptedKey, bookVars
  <1> QED
    BY <1>5, <1>6, <1>7, <1>8, <1>9, <1>10

(* A request leaves the network: no call accounts for less. *)
LEMMA LeavesNet ==
    ASSUME WriteInv, NEW r \in net, net' = net \ {r},
           UNCHANGED <<made, request, escalated, done, unsaved>>
    PROVE  /\ \A s \in Sessions : Posted(s)' = Posted(s)
           /\ Mine' /\ KeysDiffer' /\ NetIsPosted' /\ UnsavedIsEscalated'
  <1>1. \A s \in Sessions : Posted(s)' = Posted(s)
    BY DEF Posted
  <1> QED
    BY <1>1 DEF WriteInv, Mine, KeysDiffer, NetIsPosted, UnsavedIsEscalated

(* An accepted request is answered with the order it has changed. *)
LEMMA AcceptStep ==
    ASSUME WriteTypes, NEW r \in Requests, Accept(r, today)
    PROVE  /\ book' \in [Ids -> Order \cup {NoOrder}] /\ today' = today
           /\ answers' = [answers EXCEPT ![r.key] = answers'[r.key]]
           /\ answers'[r.key] \in Answer /\ answers'[r.key].code = "OK"
           /\ Does(answers'[r.key], r)
  <1> USE DEF WriteTypes
  <1> DEFINE o == book[r.id]
  <1>1. r.key \in Keys /\ r.id \in Ids
    BY RequestFields
  <1>2. o \in Order
    BY <1>1, VerdictOK DEF Accept
  <1>3. book' = [book EXCEPT ![r.id] = Mutated(r, o)] /\ Mutated(r, o) \in Order
    BY <1>1, <1>2, MutatedType DEF Accept
  <1>4. book'[r.id] = Mutated(r, o)
    BY <1>1, <1>3
  <1>5. answers' = [answers EXCEPT ![r.key] = Accepted(r, Mutated(r, o))] /\ today' = today
    BY <1>4 DEF Accept
  <1>6. answers'[r.key] = Accepted(r, Mutated(r, o))
    BY <1>1, <1>5
  <1>7. Accepted(r, Mutated(r, o)) \in Answer
    BY <1>3, AnswerTypes
  <1>8. Does(Accepted(r, Mutated(r, o)), r)
    BY <1>2, MutatedDoes DEF Does, Accepted
  <1>9. Accepted(r, Mutated(r, o)).code = "OK"
    BY DEF Accepted
  <1> QED
    BY <1>3, <1>5, <1>6, <1>7, <1>8, <1>9

LEMMA RefuseStep ==
    ASSUME WriteTypes, NEW r \in Requests, Refuse(r, today)
    PROVE  /\ UNCHANGED <<book, today>>
           /\ answers' = [answers EXCEPT ![r.key] = answers'[r.key]]
           /\ answers'[r.key] \in Answer /\ answers'[r.key].code # "OK"
  <1> USE DEF WriteTypes
  <1> DEFINE o == book[r.id]
             rule == Verdict(r, o, today)
             code == IF rule = "OK" THEN "SLOT_FULL" ELSE rule
  <1>1. r.key \in Keys /\ r.id \in Ids /\ o \in Order \cup {NoOrder}
    BY RequestFields
  <1>2. code \in RefusalCodes
    BY <1>1, VerdictOK DEF RefusalCodes
  <1>3. code # "OK"
    OBVIOUS
  <1>4. answers' = [answers EXCEPT ![r.key] = Refused(r, o, code)] /\ UNCHANGED <<book, today>>
    BY DEF Refuse
  <1> HIDE DEF code
  <1>5. answers'[r.key] = Refused(r, o, code)
    BY <1>1, <1>4
  <1>6. Refused(r, o, code) \in Answer /\ Refused(r, o, code).code # "OK"
    BY <1>1, <1>2, <1>3, AnswerTypes DEF Refused
  <1> QED
    BY <1>4, <1>5, <1>6

LEMMA DecideStep ==
    ASSUME WriteInv, NEW r \in net, Decide(r)
    PROVE  WriteInv'
  <1> USE DEF WriteInv
  <1>1. /\ net' = net \ {r} /\ UNCHANGED <<made, request, escalated, done, unsaved>>
        /\ r \in Requests
    BY DEF Decide, WriteTypes
  <1>2. /\ \A s \in Sessions : Posted(s)' = Posted(s)
        /\ Mine' /\ KeysDiffer' /\ NetIsPosted' /\ UnsavedIsEscalated'
    BY <1>1, LeavesNet
  <1>3. r.key \in Keys
    BY <1>1, RequestFields
  <1>4. CASE UNCHANGED bookVars
    BY <1>1, <1>2, <1>4 DEF WriteTypes, DoneIsAccepted, AcceptedIsKnown, AcceptedKey, bookVars
  <1>5. CASE answers[r.key] = NoAnswer /\ Accept(r, today)
    <2>1. /\ book' \in [Ids -> Order \cup {NoOrder}] /\ today' = today
          /\ answers' = [answers EXCEPT ![r.key] = answers'[r.key]]
          /\ answers'[r.key] \in Answer /\ Does(answers'[r.key], r)
          /\ answers'[r.key].code = "OK"
      BY <1>1, <1>5, AcceptStep
    <2>2. WriteTypes'
      BY <1>1, <1>3, <2>1 DEF WriteTypes
    <2>3. \A k \in Keys : k # r.key => answers'[k] = answers[k]
      BY <2>1 DEF WriteTypes
    <2>4. DoneIsAccepted'
      <3>1. \A s \in Sessions : \A q \in done[s] : q.key \in Keys /\ q.key # r.key
        BY <1>5, RequestFields DEF DoneIsAccepted, AcceptedKey, WriteTypes
      <3> QED
        BY <1>1, <2>3, <3>1 DEF DoneIsAccepted, AcceptedKey
    <2>5. \E s \in Sessions : r \in Posted(s)
      BY <1>1 DEF NetIsPosted, Posted
    <2>6. AcceptedIsKnown'
      BY <1>2, <2>1, <2>3, <2>5 DEF AcceptedIsKnown, AcceptedKey
    <2> QED
      BY <1>2, <2>2, <2>4, <2>6
  <1>6. CASE answers[r.key] = NoAnswer /\ Refuse(r, today)
    <2>1. /\ UNCHANGED <<book, today>>
          /\ answers' = [answers EXCEPT ![r.key] = answers'[r.key]]
          /\ answers'[r.key] \in Answer /\ answers'[r.key].code # "OK"
      BY <1>1, <1>6, RefuseStep
    <2>2. WriteTypes'
      BY <1>1, <1>3, <2>1 DEF WriteTypes
    <2>3. \A k \in Keys : k # r.key => answers'[k] = answers[k]
      BY <2>1 DEF WriteTypes
    <2>4. DoneIsAccepted'
      <3>1. \A s \in Sessions : \A q \in done[s] : q.key \in Keys /\ q.key # r.key
        BY <1>6, RequestFields DEF DoneIsAccepted, AcceptedKey, WriteTypes
      <3> QED
        BY <1>1, <2>3, <3>1 DEF DoneIsAccepted, AcceptedKey
    <2>5. AcceptedIsKnown'
      BY <1>2, <2>1, <2>3 DEF AcceptedIsKnown, AcceptedKey
    <2> QED
      BY <1>2, <2>2, <2>4, <2>5
  <1> QED
    BY <1>4, <1>5, <1>6 DEF Decide

LEMMA LoseStep ==
    ASSUME WriteInv, NEW r \in net, Lose(r)
    PROVE  WriteInv'
  <1>1. /\ \A s \in Sessions : Posted(s)' = Posted(s)
        /\ Mine' /\ KeysDiffer' /\ NetIsPosted' /\ UnsavedIsEscalated'
    BY LeavesNet DEF Lose
  <1> QED
    BY <1>1 DEF WriteInv, Lose, WriteTypes, DoneIsAccepted, AcceptedIsKnown, AcceptedKey, bookVars

(* A refused request is forgotten, an accepted one moves to done. *)
LEMMA HearStep ==
    ASSUME WriteInv, NEW s \in Sessions, Hear(s)
    PROVE  WriteInv'
  <1> USE DEF WriteInv
  <1> DEFINE r == request[s]
  <1>1. r \in Requests /\ r \notin net /\ r \in Posted(s)
    BY DEF Hear, WriteTypes, Posted
  <1>2. r.key \in Keys
    BY <1>1, RequestFields
  <1> HIDE DEF r
  <1>3. /\ r = request[s] /\ answers[r.key] # NoAnswer
        /\ request' = [request EXCEPT ![s] = NoRequest]
        /\ done' = IF answers[r.key].code = "OK" THEN [done EXCEPT ![s] = @ \cup {r}] ELSE done
        /\ UNCHANGED <<bookVars, made, net, escalated, unsaved>>
    BY DEF Hear, r
  <1>4. WriteTypes'
    BY <1>1, <1>3 DEF WriteTypes, bookVars
  <1>5. \A t \in Sessions : t # s => Posted(t)' = Posted(t)
    BY <1>3 DEF Posted, WriteTypes
  <1>6. Posted(s)' \subseteq Posted(s) /\ Posted(s) \ {r} \subseteq Posted(s)'
    BY <1>1, <1>3, WritesAssumption DEF Posted, WriteTypes
  <1>7. AcceptedKey(r.key) => Posted(s)' = Posted(s)
    BY <1>1, <1>3, <1>6 DEF Posted, AcceptedKey, WriteTypes
  <1>8. Mine' /\ KeysDiffer'
    BY <1>3, <1>5, <1>6 DEF Mine, KeysDiffer
  <1>9. NetIsPosted'
    BY <1>1, <1>3 DEF NetIsPosted, WriteTypes
  <1>10. UnsavedIsEscalated'
    BY <1>3 DEF UnsavedIsEscalated
  <1>11. DoneIsAccepted'
    BY <1>3 DEF DoneIsAccepted, AcceptedKey, WriteTypes, bookVars
  <1>12. AcceptedIsKnown'
    <2> SUFFICES ASSUME NEW k \in Keys, AcceptedKey(k)
                 PROVE  \E t \in Sessions : \E q \in Posted(t)' : q.key = k /\ Does(answers[k], q)
      BY <1>3 DEF AcceptedIsKnown, AcceptedKey, bookVars
    <2>1. PICK t \in Sessions : \E q \in Posted(t) : q.key = k /\ Does(answers[k], q)
      BY DEF AcceptedIsKnown
    <2>2. PICK q \in Posted(t) : q.key = k /\ Does(answers[k], q)
      BY <2>1
    <2>3. CASE t = s /\ q = r
      BY <1>7, <2>2, <2>3
    <2>4. CASE t # s \/ q # r
      BY <1>5, <1>6, <2>2, <2>4
    <2> QED
      BY <2>3, <2>4
  <1> QED
    BY <1>4, <1>8, <1>9, <1>10, <1>11, <1>12

LEMMA GiveUpStep ==
    ASSUME WriteInv, NEW s \in Sessions, GiveUp(s)
    PROVE  WriteInv'
  <1> USE DEF WriteInv
  <1>1. request[s] \in Requests
    BY DEF GiveUp, WriteTypes
  <1>2. WriteTypes'
    BY <1>1 DEF GiveUp, WriteTypes, bookVars
  <1>3. \A t \in Sessions : Posted(t)' = Posted(t)
    BY <1>1, WritesAssumption DEF GiveUp, Posted, WriteTypes
  <1>4. Mine' /\ KeysDiffer'
    BY <1>3 DEF GiveUp, Mine, KeysDiffer
  <1>5. NetIsPosted'
    BY DEF GiveUp, NetIsPosted, WriteTypes
  <1>6. UnsavedIsEscalated'
    BY DEF GiveUp, UnsavedIsEscalated, WriteTypes
  <1>7. DoneIsAccepted' /\ AcceptedIsKnown'
    BY <1>3 DEF GiveUp, DoneIsAccepted, AcceptedIsKnown, AcceptedKey, bookVars
  <1> QED
    BY <1>2, <1>4, <1>5, <1>6, <1>7

LEMMA StutterStep ==
    ASSUME WriteInv, UNCHANGED writeVars
    PROVE  WriteInv'
  <1>1. \A s \in Sessions : Posted(s)' = Posted(s)
    BY DEF writeVars, Posted
  <1> QED
    BY <1>1 DEF writeVars, bookVars, WriteInv, WriteTypes, Mine, KeysDiffer, NetIsPosted,
                UnsavedIsEscalated, DoneIsAccepted, AcceptedIsKnown, AcceptedKey

LEMMA WriteStep == WriteInv /\ [WriteNext]_writeVars => WriteInv'
  BY PostStep, HearStep, GiveUpStep, DecideStep, LoseStep, StutterStep
     DEF WriteNext, Answered, Network

LEMMA WritesAreAccounted == WriteSpec => []WriteInv
  BY InitWrites, WriteStep, PTL DEF WriteSpec
-----------------------------------------------------------------------------
(* A caller who hears that a change is made hears it of the change they        *)
(* confirmed, whatever other requests, of any call, the store has decided.    *)
THEOREM DoneHolds == WriteSpec => []DoneMeansThisChange
  <1>1. WriteInv => DoneMeansThisChange
    <2> SUFFICES ASSUME WriteInv, NEW s \in Sessions, NEW r \in done[s]
                 PROVE  AcceptedKey(r.key) /\ Does(answers[r.key], r)
      BY DEF DoneMeansThisChange, Does
    <2>1. AcceptedKey(r.key) /\ r \in Posted(s) /\ r.key \in Keys
      BY RequestFields DEF WriteInv, DoneIsAccepted, Posted, WriteTypes
    <2>2. PICK t \in Sessions : \E q \in Posted(t) : q.key = r.key /\ Does(answers[r.key], q)
      BY <2>1 DEF WriteInv, AcceptedIsKnown
    <2>3. PICK q \in Posted(t) : q.key = r.key /\ Does(answers[r.key], q)
      BY <2>2
    <2>4. t = s
      BY <2>1, <2>3 DEF WriteInv, Mine
    <2>5. q = r
      BY <2>1, <2>3, <2>4 DEF WriteInv, KeysDiffer
    <2> QED
      BY <2>1, <2>3, <2>5
  <1> QED
    BY <1>1, WritesAreAccounted, PTL

(* No change of an order goes unowned, however late the store decided. *)
THEOREM OwnedHolds == WriteSpec => []CommitsAreOwned
  <1>1. WriteInv => CommitsAreOwned
    <2> SUFFICES ASSUME WriteInv, NEW k \in Keys, AcceptedKey(k)
                 PROVE  \/ request[k.session] # NoRequest /\ request[k.session].key = k
                        \/ escalated[k.session]
                        \/ \E r \in done[k.session] : r.key = k
      BY DEF CommitsAreOwned
    <2>1. PICK s \in Sessions : \E r \in Posted(s) : r.key = k
      BY DEF WriteInv, AcceptedIsKnown
    <2>2. PICK r \in Posted(s) : r.key = k
      BY <2>1
    <2>3. s = k.session
      BY <2>2 DEF WriteInv, Mine
    <2>4. r \in unsaved[s] => escalated[s]
      BY DEF WriteInv, UnsavedIsEscalated
    <2>5. r # NoRequest
      BY WritesAssumption DEF Posted
    <2> QED
      BY <2>2, <2>3, <2>4, <2>5 DEF Posted
  <1> QED
    BY <1>1, WritesAreAccounted, PTL
-----------------------------------------------------------------------------
(* Nothing but a write and the network touches a request under way. *)
LEMMA StepWrites == [Next]_vars => [WriteNext]_writeVars
  <1> SUFFICES ASSUME [Next]_vars PROVE [WriteNext]_writeVars
    OBVIOUS
  <1>1. CASE UNCHANGED vars
    BY <1>1 DEF vars
  <1>2. ASSUME NEW s \in Sessions, NEW u \in Utterances, StartTurn(s, u) \/ ResumeTurn(s, u)
        PROVE  UNCHANGED writeVars
    BY <1>2 DEF StartTurn, ResumeTurn
  <1>3. ASSUME NEW s \in Sessions,
               Compose(s) \/ ReadBack(s) \/ ReadAgain(s) \/ EndTurn(s) \/ Pause(s) \/ Emit(s)
        PROVE  UNCHANGED writeVars
    BY <1>3 DEF Compose, ReadBack, ReadAgain, EndTurn, Pause, Emit
  <1>4. ASSUME NEW s \in Sessions, ForgetVault(s) \/ Forget(s)
        PROVE  UNCHANGED writeVars
    BY <1>4 DEF ForgetVault, Forget
  <1>5. ASSUME NEW s \in Sessions, NEW w \in Wishes, Write(s, w)
        PROVE  WriteNext
    BY <1>5 DEF Write, WriteNext
  <1>6. ASSUME NEW s \in Sessions, WriteEnds(s)
        PROVE  WriteNext
    BY <1>6 DEF WriteEnds, WriteNext, Answered
  <1>7. CASE Network
    BY <1>7 DEF WriteNext
  <1> QED
    BY <1>1, <1>2, <1>3, <1>4, <1>5, <1>6, <1>7 DEF Next, Turn, Graph

(* The turns implement the writes of the client: an erasure, another session's  *)
(* turn or the trace never drops, repeats or answers a request under way.     *)
THEOREM WritesRefined == Spec => ImplementsOrderWrites
  <1>1. Init => WriteInit
    BY DEF Init
  <1> QED
    BY <1>1, StepWrites, PTL DEF Spec, WriteSpec, ImplementsOrderWrites

(* What a caller is told is made is the change they confirmed, also when turns, *)
(* erasures and late decisions interleave.                                    *)
THEOREM TurnsTellTheTruth == Spec => []DoneMeansThisChange
  BY WritesRefined, DoneHolds, PTL DEF ImplementsOrderWrites

(* No change that a turn has asked for goes unowned. *)
THEOREM TurnsOwnCommits == Spec => []CommitsAreOwned
  BY WritesRefined, OwnedHolds, PTL DEF ImplementsOrderWrites
-----------------------------------------------------------------------------
Elements(q) == {q[i] : i \in 1..Len(q)}

IsRing(q) == q \in Seq(Elements(q))

(* An event of a session that has been erased n times: it was not there for those *)
(* before it was built, and outlived the others on its way to the sink.         *)
Stamped(e, n) == e \in [after : Nat, outlived : Nat, of : Scanned] /\ e.after + e.outlived = n

(* An entry of its ring. *)
Entry(x, n) == Stamped(x.event, n) /\ x.data = Scrubbed[x.event.of]

TraceInv ==
    /\ events = [s \in Sessions |-> events[s]] /\ erased = [s \in Sessions |-> erased[s]]
    /\ DOMAIN emitting \subseteq Sessions
    /\ \A s \in DOMAIN emitting : Stamped(emitting[s], erased[s])
    /\ \A s \in Sessions :
          /\ erased[s] \in Nat
          /\ IsRing(events[s]) /\ Len(events[s]) <= RingSize
          /\ \A i \in 1..Len(events[s]) : Entry(events[s][i], erased[s])

LEMMA InitTrace == Init => TraceInv
  BY TurnsAssumption DEF Init, TraceInv, IsRing, Elements

LEMMA SeqOfElements ==
    ASSUME NEW S, NEW q \in Seq(S)
    PROVE  q \in Seq(Elements(q))
  <1>1. Len(q) \in Nat /\ q \in [1..Len(q) -> Elements(q)]
    BY DEF Elements
  <1> QED
    BY <1>1

(* A ring that takes an entry holds that entry and some of its own. *)
LEMMA RingKeeps ==
    ASSUME NEW q, IsRing(q), NEW e, NEW from \in {1, 2}
    PROVE  LET all == Append(q, e)
               r == SubSeq(all, from, Len(all))
           IN  /\ IsRing(r) /\ Len(r) = Len(q) + 2 - from
               /\ \A i \in 1..Len(r) : r[i] = e \/ \E j \in 1..Len(q) : r[i] = q[j]
  <1> DEFINE T == Elements(q) \cup {e}
             all == Append(q, e)
             r == SubSeq(all, from, Len(all))
  <1>1. q \in Seq(T)
    BY DEF IsRing
  <1>2. all \in Seq(T) /\ Len(all) = Len(q) + 1 /\ Len(q) \in Nat
    BY <1>1
  <1>3. r \in Seq(T) /\ Len(r) \in Nat /\ \A i \in 1..Len(r) : r[i] \in T
    BY <1>2
  <1>4. r \in Seq(Elements(r))
    BY <1>3, SeqOfElements
  <1>5. \A i \in 1..Len(r) : r[i] = e \/ \E j \in 1..Len(q) : r[i] = q[j]
    BY <1>3 DEF Elements
  <1>6. Len(r) = Len(q) + 2 - from
    BY <1>2
  <1> QED
    BY <1>4, <1>5, <1>6 DEF IsRing

(* Building an event gives it the count of the moment. *)
LEMMA TraceKeeps ==
    ASSUME TraceInv, NEW s \in Sessions, NEW line \in Scanned, Trace(s, line)
    PROVE  TraceInv'
  <1> DEFINE e == Event(s, line)
  <1>1. emitting' = Put(emitting, s, e) /\ events' = events /\ erased' = erased
    BY DEF Trace
  <1>2. Stamped(e, erased[s])
    BY DEF TraceInv, Stamped, Event
  <1> HIDE DEF e
  <1>3. /\ DOMAIN emitting' = DOMAIN emitting \cup {s} /\ emitting'[s] = e
        /\ \A t \in DOMAIN emitting : t # s => emitting'[t] = emitting[t]
    BY <1>1 DEF Put
  <1> QED
    BY <1>1, <1>2, <1>3 DEF TraceInv

(* The sink's step takes an event as it is, whatever was forgotten meanwhile. *)
LEMMA EmitKeeps ==
    ASSUME TraceInv, NEW s \in Sessions, Emit(s)
    PROVE  TraceInv'
  <1> DEFINE q == events[s]
             x == [event |-> emitting[s], data |-> Scrubbed[emitting[s].of]]
             all == Append(q, x)
             from == 1 + (IF Len(all) > RingSize THEN 1 ELSE 0)
             r == SubSeq(all, from, Len(all))
  <1>1. /\ s \in DOMAIN emitting /\ erased' = erased
        /\ events' = [events EXCEPT ![s] = r]
        /\ emitting' = Without(emitting, s)
    BY DEF Emit
  <1>2. from \in {1, 2} /\ (Len(all) > RingSize => from = 2) /\ (Len(all) <= RingSize => from = 1)
    BY TurnsAssumption DEF TraceInv, IsRing
  <1>3. Entry(x, erased[s])
    BY <1>1 DEF TraceInv, Entry
  <1>4. IsRing(q) /\ Len(q) <= RingSize /\ \A i \in 1..Len(q) : Entry(q[i], erased[s])
    BY DEF TraceInv
  <1>5. Len(q) \in Nat /\ Len(all) = Len(q) + 1
    BY <1>4 DEF IsRing
  <1>6. r = SubSeq(all, from, Len(all)) /\ all = Append(q, x)
    OBVIOUS
  <1>7. from \in {1, 2} /\ IsRing(q)
    BY <1>2, <1>4
  <1> HIDE DEF q, x, from, r, all
  <1>8. IsRing(r) /\ Len(r) = Len(q) + 2 - from
    BY <1>6, <1>7, RingKeeps
  <1>9. \A i \in 1..Len(r) : r[i] = x \/ \E j \in 1..Len(q) : r[i] = q[j]
    BY <1>6, <1>7, RingKeeps
  <1>10. Len(r) <= RingSize
    BY <1>2, <1>4, <1>5, <1>8, TurnsAssumption
  <1>11. \A i \in 1..Len(r) : Entry(r[i], erased[s])
    BY <1>3, <1>4, <1>9
  <1>12. events'[s] = r /\ \A t \in Sessions : t # s => events'[t] = events[t]
    BY <1>1 DEF TraceInv
  <1>13. \A t \in Sessions :
            /\ IsRing(events'[t]) /\ Len(events'[t]) <= RingSize
            /\ \A i \in 1..Len(events'[t]) : Entry(events'[t][i], erased[t])
    BY <1>8, <1>10, <1>11, <1>12 DEF TraceInv
  <1>14. events' = [t \in Sessions |-> events'[t]]
    BY <1>1 DEF TraceInv
  <1>15. DOMAIN emitting' \subseteq DOMAIN emitting
         /\ \A t \in DOMAIN emitting' : emitting'[t] = emitting[t]
    BY <1>1 DEF Without, Restrict
  <1> QED
    BY <1>1, <1>13, <1>14, <1>15 DEF TraceInv

(* The sink's forget empties the ring; an event on its way has outlived it. *)
LEMMA ForgetKeeps ==
    ASSUME TraceInv, NEW s \in Sessions, Forget(s)
    PROVE  TraceInv'
  <1>1. /\ events' = [events EXCEPT ![s] = <<>>] /\ erased' = [erased EXCEPT ![s] = @ + 1]
        /\ Outlive(s)
    BY DEF Forget
  <1>2. /\ events'[s] = <<>> /\ erased'[s] = erased[s] + 1
        /\ \A t \in Sessions : t # s => events'[t] = events[t] /\ erased'[t] = erased[t]
    BY <1>1 DEF TraceInv
  <1>3. /\ events' = [t \in Sessions |-> events'[t]]
        /\ erased' = [t \in Sessions |-> erased'[t]]
    BY <1>1 DEF TraceInv
  <1>4. \A t \in Sessions :
           /\ erased'[t] \in Nat /\ IsRing(events'[t]) /\ Len(events'[t]) <= RingSize
           /\ \A i \in 1..Len(events'[t]) : Entry(events'[t][i], erased'[t])
    <2>1. IsRing(<<>>) /\ Len(<<>>) = 0 /\ 0 <= RingSize
      BY TurnsAssumption DEF IsRing, Elements
    <2>2. erased'[s] \in Nat
      BY <1>2 DEF TraceInv
    <2>3. \A i \in 1..0 : Entry(events'[s][i], erased'[s])
      OBVIOUS
    <2>4. \A t \in Sessions : t # s =>
             /\ erased'[t] \in Nat /\ IsRing(events'[t]) /\ Len(events'[t]) <= RingSize
             /\ \A i \in 1..Len(events'[t]) : Entry(events'[t][i], erased'[t])
      BY <1>2 DEF TraceInv
    <2> QED
      BY <1>2, <2>1, <2>2, <2>3, <2>4
  <1>5. DOMAIN emitting' = DOMAIN emitting
    BY <1>1 DEF Outlive
  <1>6. ASSUME NEW t \in DOMAIN emitting PROVE Stamped(emitting'[t], erased'[t])
    <2>1. t \in Sessions /\ Stamped(emitting[t], erased[t]) /\ erased[t] \in Nat
      BY DEF TraceInv
    <2>2. CASE t = s
      <3> DEFINE e == emitting[t]  d == [e EXCEPT !.outlived = @ + 1]
      <3>1. emitting'[t] = d
        BY <1>1, <2>2 DEF Outlive
      <3>2. e \in [after : Nat, outlived : Nat, of : Scanned] /\ e.after + e.outlived = erased[t]
        BY <2>1 DEF Stamped
      <3> HIDE DEF e
      <3>3. d \in [after : Nat, outlived : Nat, of : Scanned]
            /\ d.after = e.after /\ d.outlived = e.outlived + 1
        BY <3>2
      <3>4. e.after \in Nat /\ e.outlived \in Nat
        BY <3>2
      <3> HIDE DEF d
      <3>5. d.after + d.outlived = erased[t] + 1
        BY <3>2, <3>3, <3>4
      <3>6. erased'[t] = erased[t] + 1
        BY <1>2, <2>2
      <3> QED
        BY <3>1, <3>3, <3>5, <3>6 DEF Stamped
    <2>3. CASE t # s
      BY <1>1, <1>2, <2>1, <2>3 DEF Outlive
    <2> QED
      BY <2>2, <2>3
  <1> QED
    BY <1>3, <1>4, <1>5, <1>6 DEF TraceInv

LEMMA LinesAreScanned ==
    /\ Blank \in Scanned
    /\ \A words : \A line \in LinesOf(words) : line \in Scanned
  BY DEF Scanned, LinesOf, Lines

LEMMA TraceStep == TraceInv /\ [Next]_vars => TraceInv'
  <1> SUFFICES ASSUME TraceInv, [Next]_vars PROVE TraceInv'
    OBVIOUS
  <1>1. ASSUME UNCHANGED traceVars PROVE TraceInv'
    BY <1>1 DEF TraceInv, traceVars
  <1>2. ASSUME NEW s \in Sessions, NEW u \in Utterances, StartTurn(s, u) \/ ResumeTurn(s, u)
        PROVE  TraceInv'
    <2>1. Trace(s, Blank)
      BY <1>2 DEF StartTurn, ResumeTurn
    <2> QED
      BY <2>1, LinesAreScanned, TraceKeeps
  <1>3. ASSUME NEW s \in Sessions, Compose(s) \/ WriteEnds(s) \/ EndTurn(s) \/ Pause(s)
        PROVE  TraceInv'
    <2>1. Trace(s, Blank)
      BY <1>3 DEF Compose, WriteEnds, EndTurn, Pause
    <2> QED
      BY <2>1, LinesAreScanned, TraceKeeps
  <1>4. ASSUME NEW s \in Sessions, ReadBack(s) \/ ReadAgain(s) PROVE TraceInv'
    <2>1. \/ Trace(s, Blank)
          \/ \E line \in LinesOf(Rehydrate(text[s], held[s])) : Trace(s, line)
      BY <1>4 DEF ReadBack, ReadAgain
    <2> QED
      BY <2>1, LinesAreScanned, TraceKeeps
  <1>5. ASSUME NEW s \in Sessions, ForgetVault(s) \/ \E w \in Wishes : Write(s, w)
        PROVE  UNCHANGED traceVars
    BY <1>5 DEF ForgetVault, Write
  <1>6. CASE UNCHANGED turnVars
    BY <1>1, <1>6 DEF turnVars
  <1> QED
    BY <1>1, <1>2, <1>3, <1>4, <1>5, <1>6, EmitKeeps, ForgetKeeps
       DEF Next, Turn, Graph, vars

(* What is in a ring when its session is erased is gone for good, and an event    *)
(* from before is in a ring only if it was under way in every erasure since it    *)
(* was built, however turns, their events and erasures interleave              *)
(* (main.py:212-216, trace.py:102-111, 180-182).                             *)
THEOREM ErasureHolds == Spec => []ErasureDropsThePast
  <1>1. TraceInv => ErasureDropsThePast
    BY DEF TraceInv, Entry, Stamped, ErasureDropsThePast
  <1> QED
    BY <1>1, InitTrace, TraceStep, PTL DEF Spec
-----------------------------------------------------------------------------
TurnTypes ==
    /\ stage \in [Sessions -> Stages]
    /\ task \in [Sessions -> {"none", "reschedule", "address"}]
    /\ said \in [Sessions -> Utterances \cup {NoUtterance}]
    /\ text \in [Sessions -> Seq(Cells)] /\ spoken \in [Sessions -> Seq(Cells)]
    /\ erasing \in [Sessions -> BOOLEAN]
    /\ DOMAIN vaults \subseteq Sessions /\ DOMAIN held \subseteq Sessions

Counted ==
    /\ turns \in 0..MaxTurns /\ erasures \in 0..MaxErasures
    /\ \A s \in Sessions : erased[s] + (IF erasing[s] THEN 1 ELSE 0) <= erasures

(* A turn has something to say when it asks and when it ends. *)
Says(s) ==
    spoken[s] # <<>> =>
       \/ stage[s] = "end" /\ spoken[s] = said[s].text
       \/ stage[s] = "asked" /\ \E line \in Readings[said[s]] : spoken[s] = line.text

(* What a turn of a session is given, holds and says. *)
TurnFits(s) ==
    /\ stage[s] = "idle" <=> said[s] = NoUtterance
    /\ stage[s] = "write" <=> request[s] # NoRequest
    /\ stage[s] # "idle" <=> s \in DOMAIN held
    /\ s \in DOMAIN held => VaultOK(held[s])
    /\ s \in DOMAIN vaults => VaultOK(vaults[s])
    /\ stage[s] # "idle" => /\ Rehydrate(text[s], held[s]) = said[s].text
                            /\ CharactersOf(text[s]) = LeftClear[said[s]]
    /\ Says(s)

TurnInv ==
    /\ TurnTypes /\ Counted /\ (\A s \in Sessions : TurnFits(s))
    /\ TraceInv /\ WriteInv
-----------------------------------------------------------------------------
LEMMA InitTurns == Init => TurnInv
  <1> SUFFICES ASSUME Init PROVE TurnInv
    OBVIOUS
  <1>1. WriteInv /\ request = [s \in Sessions |-> NoRequest]
    BY InitWrites DEF Init, WriteInit
  <1>2. TraceInv
    BY InitTrace
  <1>3. vaults = <<>> /\ held = <<>> /\ DOMAIN <<>> = {}
    BY DEF Init
  <1>4. TurnTypes
    BY <1>3 DEF Init, TurnTypes, Stages
  <1>5. Counted
    BY TurnsAssumption DEF Init, Counted
  <1>6. \A s \in Sessions : TurnFits(s)
    BY <1>1, <1>3 DEF Init, TurnFits, Says
  <1> QED
    BY <1>1, <1>2, <1>4, <1>5, <1>6 DEF TurnInv

(* A session none of whose state a step touches. *)
Untouched(t) ==
    /\ stage'[t] = stage[t] /\ said'[t] = said[t] /\ request'[t] = request[t]
    /\ text'[t] = text[t] /\ spoken'[t] = spoken[t]
    /\ t \in DOMAIN held' <=> t \in DOMAIN held
    /\ t \in DOMAIN held => held'[t] = held[t]
    /\ t \in DOMAIN vaults' => t \in DOMAIN vaults /\ vaults'[t] = vaults[t]

LEMMA UntouchedFits ==
    ASSUME NEW t \in Sessions, TurnFits(t), Untouched(t)
    PROVE  TurnFits(t)'
  BY DEF TurnFits, Untouched, Says

(* What a turn has to work with is an utterance. *)
LEMMA SaidFacts ==
    ASSUME TurnInv, NEW s \in Sessions, stage[s] # "idle"
    PROVE  /\ said[s] \in Utterances /\ IsUtterance(said[s]) /\ said[s] # NoUtterance
           /\ Rehydrate(text[s], held[s]) = said[s].text
           /\ said[s].text \in Seq(Cells)
           /\ LinesOf(said[s].text) = Readings[said[s]]
  <1>1. said[s] # NoUtterance /\ Rehydrate(text[s], held[s]) = said[s].text
    BY DEF TurnInv, TurnFits
  <1>2. said[s] \in Utterances
    BY <1>1 DEF TurnInv, TurnTypes
  <1>3. IsUtterance(said[s])
    BY <1>2, TurnsAssumption
  <1>4. said[s].text \in Seq(Cells)
    BY <1>3, TextType
  <1>5. {v \in Utterances : v.text = said[s].text} = {said[s]}
    BY <1>2, TurnsAssumption
  <1>6. LinesOf(said[s].text) = Readings[said[s]]
    BY <1>5 DEF LinesOf
  <1> QED
    BY <1>1, <1>2, <1>3, <1>4, <1>6
-----------------------------------------------------------------------------
(* What tokenizing an utterance makes of the session's vault. *)
Vaulted(s, u, at) ==
    /\ VaultOK(at.vault) /\ Extends(VaultFor(s), vaults'[s])
    /\ at.text \in Seq(Cells) /\ Rehydrate(at.text, at.vault) = u.text
    /\ CharactersOf(at.text) = LeftClear[u]
    /\ DOMAIN vaults' = DOMAIN vaults \cup {s} /\ vaults'[s] = at.vault
    /\ \A t \in DOMAIN vaults : t # s => vaults'[t] = vaults[t]

LEMMA VaultStep ==
    ASSUME TurnInv, NEW s \in Sessions, NEW u \in Utterances,
           NEW at, at = Tokenize(u, VaultFor(s)), vaults' = Put(vaults, s, at.vault)
    PROVE  Vaulted(s, u, at)
  <1>1. VaultOK(VaultFor(s)) /\ IsUtterance(u) /\ u \in Scanned
    BY NewVaultOK, TurnsAssumption DEF TurnInv, VaultFor, TurnFits, Scanned
  <1>2. VaultOK(at.vault) /\ Extends(VaultFor(s), at.vault)
    BY <1>1, TokenizeReverses
  <1>3. at.text \in Seq(Cells) /\ Rehydrate(at.text, at.vault) = u.text
    BY <1>1, TokenizeReverses
  <1>4. CharactersOf(at.text) = LeftClear[u]
    BY <1>1, TokenizeReverses DEF LeftClear
  <1> DEFINE w == at.vault
  <1>5. vaults' = Put(vaults, s, w)
    OBVIOUS
  <1> HIDE DEF w
  <1>6. /\ DOMAIN vaults' = DOMAIN vaults \cup {s} /\ vaults'[s] = w
        /\ \A t \in DOMAIN vaults : t # s => vaults'[t] = vaults[t]
    BY <1>5 DEF Put
  <1> QED
    BY <1>2, <1>3, <1>4, <1>6 DEF w, Vaulted

LEMMA StartStep ==
    ASSUME TurnInv, TraceInv', NEW s \in Sessions, NEW u \in Utterances, StartTurn(s, u)
    PROVE  TurnInv' /\ Extends(VaultFor(s), vaults'[s])
  <1> DEFINE at == Tokenize(u, VaultFor(s))  w == at.vault
  <1>1. /\ Resting(s) /\ turns < MaxTurns /\ turns' = turns + 1
        /\ stage' = [stage EXCEPT ![s] = "graph"] /\ task' = [task EXCEPT ![s] = "none"]
        /\ said' = [said EXCEPT ![s] = u] /\ text' = [text EXCEPT ![s] = at.text]
        /\ vaults' = Put(vaults, s, at.vault) /\ held' = Put(held, s, w)
        /\ Trace(s, Blank)
        /\ UNCHANGED <<writeVars, spoken, erasing, erasures>>
    BY DEF StartTurn
  <1>2. at = Tokenize(u, VaultFor(s)) /\ w = at.vault
    OBVIOUS
  <1> HIDE DEF at, w
  <1>3. /\ VaultOK(at.vault) /\ Extends(VaultFor(s), vaults'[s])
        /\ at.text \in Seq(Cells) /\ Rehydrate(at.text, at.vault) = u.text
        /\ CharactersOf(at.text) = LeftClear[u]
        /\ DOMAIN vaults' = DOMAIN vaults \cup {s} /\ vaults'[s] = at.vault
        /\ \A t \in DOMAIN vaults : t # s => vaults'[t] = vaults[t]
    <2>1. at = Tokenize(u, VaultFor(s)) /\ vaults' = Put(vaults, s, at.vault)
      BY <1>1, <1>2
    <2>2. Vaulted(s, u, at)
      BY <2>1, VaultStep
    <2> QED
      BY <2>2 DEF Vaulted
  <1>4. /\ DOMAIN held' = DOMAIN held \cup {s} /\ held'[s] = w
        /\ \A t \in DOMAIN held : t # s => held'[t] = held[t]
    BY <1>1 DEF Put
  <1>5. stage[s] \in {"idle", "paused"} /\ u # NoUtterance
    BY <1>1, TurnsAssumption DEF Resting
  <1>6. /\ stage'[s] = "graph" /\ said'[s] = u /\ text'[s] = at.text /\ request' = request
        /\ spoken' = spoken /\ erased' = erased
    BY <1>1 DEF TurnInv, TurnTypes, writeVars, Trace
  <1>7. TurnTypes'
    BY <1>1, <1>3, <1>4 DEF TurnInv, TurnTypes, Stages
  <1>8. Counted'
    BY <1>1, <1>6, TurnsAssumption DEF TurnInv, Counted
  <1>9. TurnFits(s)'
    BY <1>2, <1>3, <1>4, <1>5, <1>6 DEF TurnInv, TurnFits, Says
  <1>10. ASSUME NEW t \in Sessions, t # s PROVE TurnFits(t)'
    <2>1. Untouched(t)
      BY <1>1, <1>3, <1>4, <1>6, <1>10 DEF Untouched, TurnInv, TurnTypes
    <2> QED
      BY <2>1, UntouchedFits DEF TurnInv
  <1>11. WriteInv'
    BY <1>1, StutterStep DEF TurnInv
  <1> QED
    BY <1>3, <1>7, <1>8, <1>9, <1>10, <1>11 DEF TurnInv

(* A resumed graph is given nothing new: what it was saved with still fits. *)
LEMMA ResumeStep ==
    ASSUME TurnInv, TraceInv', NEW s \in Sessions, NEW u \in Utterances, ResumeTurn(s, u)
    PROVE  TurnInv' /\ Extends(VaultFor(s), vaults'[s])
  <1> DEFINE at == Tokenize(u, VaultFor(s))
  <1>1. /\ stage[s] = "paused" /\ turns < MaxTurns /\ turns' = turns + 1
        /\ stage' = [stage EXCEPT ![s] = "again"]
        /\ vaults' = Put(vaults, s, at.vault) /\ Trace(s, Blank)
        /\ UNCHANGED <<writeVars, task, said, held, text, spoken, erasing, erasures>>
    BY DEF ResumeTurn
  <1>2. at = Tokenize(u, VaultFor(s))
    OBVIOUS
  <1> HIDE DEF at
  <1>3. /\ VaultOK(at.vault) /\ Extends(VaultFor(s), vaults'[s])
        /\ DOMAIN vaults' = DOMAIN vaults \cup {s} /\ vaults'[s] = at.vault
        /\ \A t \in DOMAIN vaults : t # s => vaults'[t] = vaults[t]
    BY <1>1, <1>2, VaultStep DEF Vaulted
  <1>4. stage'[s] = "again" /\ request' = request /\ erased' = erased
    BY <1>1 DEF TurnInv, TurnTypes, writeVars, Trace
  <1>5. TurnTypes'
    BY <1>1, <1>3 DEF TurnInv, TurnTypes, Stages
  <1>6. Counted'
    BY <1>1, <1>4, TurnsAssumption DEF TurnInv, Counted
  <1>7. TurnFits(s)'
    BY <1>1, <1>3, <1>4 DEF TurnInv, TurnFits, Says
  <1>8. ASSUME NEW t \in Sessions, t # s PROVE TurnFits(t)'
    <2>1. Untouched(t)
      BY <1>1, <1>3, <1>4, <1>8 DEF Untouched, TurnInv, TurnTypes
    <2> QED
      BY <2>1, UntouchedFits DEF TurnInv
  <1>9. WriteInv'
    BY <1>1, StutterStep DEF TurnInv
  <1> QED
    BY <1>3, <1>5, <1>6, <1>7, <1>8, <1>9 DEF TurnInv
-----------------------------------------------------------------------------
(* A step of the graph that leaves alone what it was given. *)
GoesOn(s, where) ==
    /\ stage[s] \notin {"idle", "write"} /\ where \in Stages \ {"idle", "write"}
    /\ stage' = [stage EXCEPT ![s] = where]
    /\ \A t \in Sessions : t # s => spoken'[t] = spoken[t]
    /\ UNCHANGED <<writeVars, vaults, said, held, text, erasing, erased, turns, erasures>>

LEMMA GoesOnStep ==
    ASSUME TurnInv, TraceInv', NEW s \in Sessions, NEW where, GoesOn(s, where),
           task' \in [Sessions -> {"none", "reschedule", "address"}],
           spoken' \in [Sessions -> Seq(Cells)], Says(s)'
    PROVE  TurnInv'
  <1>1. /\ stage'[s] = where /\ \A t \in Sessions : t # s => stage'[t] = stage[t]
        /\ request' = request
    BY DEF GoesOn, TurnInv, TurnTypes, writeVars
  <1>2. TurnTypes' /\ Counted'
    BY DEF GoesOn, TurnInv, TurnTypes, Counted
  <1>3. TurnFits(s)'
    BY <1>1 DEF GoesOn, TurnInv, TurnFits
  <1>4. ASSUME NEW t \in Sessions, t # s PROVE TurnFits(t)'
    <2>1. Untouched(t)
      BY <1>1, <1>4 DEF GoesOn, Untouched
    <2> QED
      BY <2>1, UntouchedFits DEF TurnInv
  <1>5. WriteInv'
    BY StutterStep DEF GoesOn, TurnInv
  <1> QED
    BY <1>2, <1>3, <1>4, <1>5 DEF TurnInv

LEMMA ComposeStep ==
    ASSUME TurnInv, TraceInv', NEW s \in Sessions, Compose(s)
    PROVE  TurnInv'
  <1> DEFINE words == Rehydrate(text[s], held[s])
  <1>1. /\ stage[s] \in {"graph", "again", "confirmed"}
        /\ spoken' = [spoken EXCEPT ![s] = words] /\ stage' = [stage EXCEPT ![s] = "end"]
        /\ UNCHANGED <<writeVars, vaults, task, said, held, text, erasing, erased, turns, erasures>>
    BY DEF Compose, Trace
  <1>2. words = said[s].text /\ words \in Seq(Cells)
    BY <1>1, SaidFacts
  <1> HIDE DEF words
  <1>3. /\ spoken' \in [Sessions -> Seq(Cells)] /\ spoken'[s] = words /\ stage'[s] = "end"
        /\ \A t \in Sessions : t # s => spoken'[t] = spoken[t]
    BY <1>1, <1>2 DEF TurnInv, TurnTypes
  <1>4. GoesOn(s, "end") /\ task' \in [Sessions -> {"none", "reschedule", "address"}]
    BY <1>1, <1>3 DEF GoesOn, Stages, TurnInv, TurnTypes
  <1>5. Says(s)'
    BY <1>1, <1>2, <1>3 DEF Says
  <1> QED
    BY <1>3, <1>4, <1>5, GoesOnStep

(* The question read back is one of the lines that the words may mean. *)
LEMMA ReadBackStep ==
    ASSUME TurnInv, TraceInv', NEW s \in Sessions, ReadBack(s)
    PROVE  TurnInv'
  <1>1. /\ stage[s] = "graph" /\ stage' = [stage EXCEPT ![s] = "asked"]
        /\ UNCHANGED <<writeVars, vaults, said, held, text, erasing, erased, turns, erasures>>
        /\ \/ task' = [task EXCEPT ![s] = "address"]
           \/ task' = [task EXCEPT ![s] = "reschedule"]
    BY DEF ReadBack, Trace
  <1>2. stage'[s] = "asked" /\ task' \in [Sessions -> {"none", "reschedule", "address"}]
    BY <1>1 DEF TurnInv, TurnTypes
  <1>3. /\ spoken' \in [Sessions -> Seq(Cells)]
        /\ \A t \in Sessions : t # s => spoken'[t] = spoken[t]
        /\ Says(s)'
    <2>1. CASE UNCHANGED spoken
      BY <1>1, <2>1 DEF TurnInv, TurnTypes, TurnFits, Says
    <2>2. CASE \E line \in LinesOf(Rehydrate(text[s], held[s])) :
                  spoken' = [spoken EXCEPT ![s] = line.text]
      <3> DEFINE words == Rehydrate(text[s], held[s])
      <3>0. words = said[s].text /\ LinesOf(said[s].text) = Readings[said[s]]
        BY <1>1, SaidFacts
      <3>1. PICK line \in Readings[said[s]] : spoken' = [spoken EXCEPT ![s] = line.text]
        <4>1. \E line \in LinesOf(words) : spoken' = [spoken EXCEPT ![s] = line.text]
          BY <2>2
        <4> HIDE DEF words
        <4> QED
          BY <3>0, <4>1
      <3>2. line \in Lines
        BY <1>1, SaidFacts DEF Lines
      <3>3. line.text \in Seq(Cells)
        BY <3>2, TurnsAssumption, TextType
      <3>4. /\ spoken' \in [Sessions -> Seq(Cells)] /\ spoken'[s] = line.text
            /\ \A t \in Sessions : t # s => spoken'[t] = spoken[t]
        BY <3>1, <3>3 DEF TurnInv, TurnTypes
      <3>5. Says(s)'
        BY <1>1, <1>2, <3>1, <3>4 DEF Says
      <3> QED
        BY <3>4, <3>5
    <2> QED
      BY <2>1, <2>2 DEF ReadBack
  <1>4. GoesOn(s, "asked")
    BY <1>1, <1>3 DEF GoesOn, Stages
  <1> QED
    BY <1>2, <1>3, <1>4, GoesOnStep

LEMMA ReadAgainStep ==
    ASSUME TurnInv, TraceInv', NEW s \in Sessions, ReadAgain(s)
    PROVE  TurnInv'
  <1>1. /\ stage[s] = "again" /\ stage' = [stage EXCEPT ![s] = "confirmed"]
        /\ UNCHANGED <<writeVars, vaults, task, said, held, text, spoken, erasing, erased,
                       turns, erasures>>
    BY DEF ReadAgain, Trace
  <1>2. GoesOn(s, "confirmed")
    BY <1>1 DEF GoesOn, Stages
  <1>3. Says(s)'
    BY <1>1 DEF TurnInv, TurnFits, Says
  <1> QED
    BY <1>1, <1>2, <1>3, GoesOnStep DEF TurnInv, TurnTypes

LEMMA PauseStep ==
    ASSUME TurnInv, TraceInv', NEW s \in Sessions, Pause(s)
    PROVE  TurnInv'
  <1>1. /\ stage[s] = "asked" /\ stage' = [stage EXCEPT ![s] = "paused"]
        /\ spoken' = [spoken EXCEPT ![s] = <<>>]
        /\ UNCHANGED <<writeVars, vaults, task, said, held, text, erasing, erased, turns, erasures>>
    BY DEF Pause, Trace
  <1>2. /\ spoken' \in [Sessions -> Seq(Cells)] /\ spoken'[s] = <<>>
        /\ \A t \in Sessions : t # s => spoken'[t] = spoken[t]
    BY <1>1 DEF TurnInv, TurnTypes
  <1>3. GoesOn(s, "paused")
    BY <1>1, <1>2 DEF GoesOn, Stages
  <1>4. Says(s)'
    BY <1>2 DEF Says
  <1> QED
    BY <1>1, <1>2, <1>3, <1>4, GoesOnStep DEF TurnInv, TurnTypes

(* An agent writes, and hears of it or gives up. *)
LEMMA PostsStep ==
    ASSUME TurnInv, TraceInv', NEW s \in Sessions, NEW w \in Wishes, Write(s, w)
    PROVE  TurnInv'
  <1>1. /\ stage[s] = "confirmed" /\ Post(s, w) /\ stage' = [stage EXCEPT ![s] = "write"]
        /\ UNCHANGED <<vaults, task, said, held, text, spoken, erasing, erased, turns, erasures>>
    BY DEF Write, traceVars
  <1>2. WriteInv'
    BY <1>1, PostStep DEF TurnInv
  <1> DEFINE r == WithKey(w, NewIdempotencyKey(s, w.op))
  <1>3. request' = [request EXCEPT ![s] = r] /\ made < MaxWrites
    BY <1>1 DEF Post
  <1>4. r \in Requests
    BY <1>3, NewRequest DEF TurnInv, WriteInv, WriteTypes
  <1> HIDE DEF r
  <1>5. /\ request \in [Sessions -> Requests \cup {NoRequest}] /\ r # NoRequest
    BY <1>4, WritesAssumption DEF TurnInv, WriteInv, WriteTypes
  <1>6. /\ stage'[s] = "write" /\ request'[s] # NoRequest
        /\ \A t \in Sessions : t # s => stage'[t] = stage[t] /\ request'[t] = request[t]
    BY <1>1, <1>3, <1>5 DEF TurnInv, TurnTypes
  <1>7. TurnTypes' /\ Counted'
    BY <1>1 DEF TurnInv, TurnTypes, Counted, Stages
  <1>8. TurnFits(s)'
    BY <1>1, <1>6 DEF TurnInv, TurnFits, Says
  <1>9. ASSUME NEW t \in Sessions, t # s PROVE TurnFits(t)'
    <2>1. Untouched(t)
      BY <1>1, <1>6, <1>9 DEF Untouched
    <2> QED
      BY <2>1, UntouchedFits DEF TurnInv
  <1> QED
    BY <1>2, <1>7, <1>8, <1>9 DEF TurnInv

LEMMA AnsweredStep ==
    ASSUME TurnInv, TraceInv', NEW s \in Sessions, WriteEnds(s)
    PROVE  TurnInv'
  <1>1. /\ stage[s] = "write" /\ stage' = [stage EXCEPT ![s] = "end"]
        /\ UNCHANGED <<vaults, task, said, held, text, spoken, erasing, erased, turns, erasures>>
        /\ Hear(s) \/ GiveUp(s)
    BY DEF WriteEnds, Trace
  <1>2. WriteInv'
    BY <1>1, HearStep, GiveUpStep DEF TurnInv
  <1>3. request' = [request EXCEPT ![s] = NoRequest]
    BY <1>1 DEF Hear, GiveUp
  <1>4. /\ stage'[s] = "end" /\ request'[s] = NoRequest
        /\ \A t \in Sessions : t # s => stage'[t] = stage[t] /\ request'[t] = request[t]
    BY <1>1, <1>3 DEF TurnInv, TurnTypes, WriteInv, WriteTypes
  <1>5. TurnTypes' /\ Counted'
    BY <1>1 DEF TurnInv, TurnTypes, Counted, Stages
  <1>6. TurnFits(s)'
    BY <1>1, <1>4 DEF TurnInv, TurnFits, Says
  <1>7. ASSUME NEW t \in Sessions, t # s PROVE TurnFits(t)'
    <2>1. Untouched(t)
      BY <1>1, <1>4, <1>7 DEF Untouched
    <2> QED
      BY <2>1, UntouchedFits DEF TurnInv
  <1> QED
    BY <1>2, <1>5, <1>6, <1>7 DEF TurnInv

LEMMA EndStep ==
    ASSUME TurnInv, TraceInv', NEW s \in Sessions, EndTurn(s)
    PROVE  TurnInv'
  <1>1. /\ stage[s] = "end" /\ stage' = [stage EXCEPT ![s] = "idle"]
        /\ task' = [task EXCEPT ![s] = "none"]
        /\ said' = [said EXCEPT ![s] = NoUtterance]
        /\ text' = [text EXCEPT ![s] = <<>>] /\ spoken' = [spoken EXCEPT ![s] = <<>>]
        /\ UNCHANGED <<writeVars, vaults, erasing, erased, turns, erasures>>
    BY DEF EndTurn, Trace
  <1>2. /\ DOMAIN held' = DOMAIN held \ {s}
        /\ \A t \in DOMAIN held : t # s => held'[t] = held[t]
    BY DEF EndTurn, Without, Restrict
  <1>3. /\ stage'[s] = "idle" /\ said'[s] = NoUtterance /\ spoken'[s] = <<>> /\ request' = request
    BY <1>1 DEF TurnInv, TurnTypes, writeVars
  <1>4. TurnTypes' /\ Counted'
    BY <1>1, <1>2 DEF TurnInv, TurnTypes, Counted, Stages
  <1>5. TurnFits(s)'
    BY <1>1, <1>2, <1>3 DEF TurnInv, TurnFits, Says
  <1>6. ASSUME NEW t \in Sessions, t # s PROVE TurnFits(t)'
    <2>1. Untouched(t)
      BY <1>1, <1>2, <1>3, <1>6 DEF Untouched, TurnInv, TurnTypes
    <2> QED
      BY <2>1, UntouchedFits DEF TurnInv
  <1>7. WriteInv'
    BY <1>1, StutterStep DEF TurnInv
  <1> QED
    BY <1>4, <1>5, <1>6, <1>7 DEF TurnInv

(* The sink's half of an event touches no turn. *)
LEMMA EmitStep ==
    ASSUME TurnInv, TraceInv', NEW s \in Sessions, Emit(s)
    PROVE  TurnInv'
  <1>1. UNCHANGED <<writeVars, vaults, stage, task, said, held, text, spoken, erasing, erased,
                    turns, erasures>>
    BY DEF Emit, graphVars
  <1>2. ASSUME NEW t \in Sessions PROVE TurnFits(t)'
    <2>1. Untouched(t)
      BY <1>1 DEF Untouched, writeVars
    <2> QED
      BY <2>1, UntouchedFits DEF TurnInv
  <1>3. TurnTypes' /\ Counted'
    BY <1>1 DEF TurnInv, TurnTypes, Counted
  <1>4. WriteInv'
    BY <1>1, StutterStep DEF TurnInv
  <1> QED
    BY <1>2, <1>3, <1>4 DEF TurnInv

(* The two halves of an erasure. *)
LEMMA ForgetVaultStep ==
    ASSUME TurnInv, NEW s \in Sessions, ForgetVault(s), TraceInv'
    PROVE  /\ TurnInv'
           /\ \A t \in DOMAIN vaults' : t \in DOMAIN vaults /\ vaults'[t] = vaults[t]
  <1> USE DEF TurnInv
  <1>1. /\ ~erasing[s] /\ erasures < MaxErasures /\ erasures' = erasures + 1
        /\ erasing' = [erasing EXCEPT ![s] = TRUE]
        /\ UNCHANGED <<writeVars, stage, task, said, held, text, spoken, erased, turns>>
    BY DEF ForgetVault, traceVars, graphVars
  <1>2. \A t \in DOMAIN vaults' : t \in DOMAIN vaults /\ vaults'[t] = vaults[t]
    BY DEF ForgetVault, Without, Restrict
  <1>3. TurnTypes'
    BY <1>1, <1>2 DEF TurnTypes
  <1>4. Counted'
    <2>1. erasures' \in 0..MaxErasures /\ erasures \in Nat
      BY <1>1, TurnsAssumption DEF Counted
    <2>2. ASSUME NEW t \in Sessions
          PROVE  erased[t] + (IF erasing'[t] THEN 1 ELSE 0) <= erasures + 1
      <3>1. erased[t] \in Nat
        BY DEF TraceInv
      <3>2. CASE t = s
        BY <1>1, <2>1, <3>1, <3>2 DEF Counted, TurnTypes
      <3>3. CASE t # s
        <4>1. erasing'[t] = erasing[t]
          BY <1>1, <3>3 DEF TurnTypes
        <4> QED
          BY <2>1, <3>1, <4>1 DEF Counted
      <3> QED
        BY <3>2, <3>3
    <2> QED
      BY <1>1, <2>1, <2>2 DEF Counted
  <1>5. ASSUME NEW t \in Sessions PROVE TurnFits(t)'
    <2>1. Untouched(t)
      BY <1>1, <1>2 DEF Untouched, writeVars
    <2> QED
      BY <2>1, UntouchedFits
  <1>6. WriteInv'
    BY <1>1, StutterStep
  <1> QED
    BY <1>2, <1>3, <1>4, <1>5, <1>6

LEMMA ForgetTraceStep ==
    ASSUME TurnInv, NEW s \in Sessions, Forget(s), TraceInv'
    PROVE  TurnInv'
  <1> USE DEF TurnInv
  <1>1. /\ erasing[s] /\ erasing' = [erasing EXCEPT ![s] = FALSE]
        /\ erased' = [erased EXCEPT ![s] = @ + 1]
        /\ UNCHANGED <<writeVars, vaults, stage, task, said, held, text, spoken, turns, erasures>>
    BY DEF Forget, graphVars
  <1>2. TurnTypes'
    BY <1>1 DEF TurnTypes
  <1>3. Counted'
    <2>1. erased = [t \in Sessions |-> erased[t]]
      BY DEF TraceInv
    <2>2. ASSUME NEW t \in Sessions
          PROVE  erased'[t] + (IF erasing'[t] THEN 1 ELSE 0) <= erasures
      <3>1. erased[t] \in Nat
        BY DEF TraceInv
      <3>2. CASE t = s
        <4>1. erased'[t] = erased[t] + 1 /\ ~erasing'[t] /\ erasing[t]
          BY <1>1, <2>1, <3>2 DEF TurnTypes
        <4> QED
          BY <3>1, <4>1 DEF Counted
      <3>3. CASE t # s
        <4>1. erased'[t] = erased[t] /\ erasing'[t] = erasing[t]
          BY <1>1, <2>1, <3>3 DEF TurnTypes
        <4> QED
          BY <4>1 DEF Counted
      <3> QED
        BY <3>2, <3>3
    <2> QED
      BY <1>1, <2>2 DEF Counted
  <1>4. ASSUME NEW t \in Sessions PROVE TurnFits(t)'
    <2>1. Untouched(t)
      BY <1>1 DEF Untouched, writeVars
    <2> QED
      BY <2>1, UntouchedFits
  <1>5. WriteInv'
    BY <1>1, StutterStep
  <1> QED
    BY <1>2, <1>3, <1>4, <1>5

LEMMA RestStep ==
    ASSUME TurnInv, TraceInv', UNCHANGED turnVars, Network \/ UNCHANGED writeVars
    PROVE  TurnInv'
  <1> USE DEF TurnInv
  <1>1. UNCHANGED <<vaults, stage, task, said, held, text, spoken, erasing, erased, turns, erasures>>
    BY DEF turnVars, traceVars, graphVars
  <1>2. WriteInv'
    BY WriteStep DEF WriteNext
  <1>3. request' = request
    BY DEF Network, Decide, Lose, writeVars
  <1>4. ASSUME NEW t \in Sessions PROVE TurnFits(t)'
    <2>1. Untouched(t)
      BY <1>1, <1>3 DEF Untouched
    <2> QED
      BY <2>1, UntouchedFits
  <1>5. TurnTypes' /\ Counted'
    BY <1>1 DEF TurnTypes, Counted
  <1> QED
    BY <1>2, <1>4, <1>5

LEMMA TurnStep == TurnInv /\ [Next]_vars => TurnInv'
  <1> SUFFICES ASSUME TurnInv, [Next]_vars PROVE TurnInv'
    OBVIOUS
  <1>1. TraceInv'
    BY TraceStep DEF TurnInv
  <1>2. ASSUME NEW s \in Sessions, NEW u \in Utterances, StartTurn(s, u) \/ ResumeTurn(s, u)
        PROVE  TurnInv'
    BY <1>1, <1>2, StartStep, ResumeStep
  <1>3. ASSUME NEW s \in Sessions, Turn(s) PROVE TurnInv'
    <2>1. CASE Compose(s)
      BY <1>1, <2>1, ComposeStep
    <2>2. CASE ReadBack(s) \/ ReadAgain(s) \/ Pause(s)
      BY <1>1, <2>2, ReadBackStep, ReadAgainStep, PauseStep
    <2>3. CASE \E w \in Wishes : Write(s, w)
      BY <1>1, <2>3, PostsStep
    <2>4. CASE WriteEnds(s) \/ EndTurn(s) \/ Emit(s)
      BY <1>1, <2>4, AnsweredStep, EndStep, EmitStep
    <2> QED
      BY <1>3, <2>1, <2>2, <2>3, <2>4 DEF Turn, Graph
  <1>4. ASSUME NEW s \in Sessions, ForgetVault(s) \/ Forget(s) PROVE TurnInv'
    BY <1>1, <1>4, ForgetVaultStep, ForgetTraceStep
  <1>5. CASE Network /\ UNCHANGED turnVars
    BY <1>1, <1>5, RestStep
  <1>6. CASE UNCHANGED vars
    BY <1>1, <1>6, RestStep DEF vars
  <1> QED
    BY <1>2, <1>3, <1>4, <1>5, <1>6 DEF Next

LEMMA TurnInvariant == Spec => []TurnInv
  BY InitTurns, TurnStep, PTL DEF Spec

(* Every variable of the process keeps its type, a session holds an utterance    *)
(* and a vault exactly while a turn or a pause needs them, a turn waits for the    *)
(* store exactly in its write, and no ring passes its size.                     *)
THEOREM TurnTypesHold == Spec => []TypeOK
  <1>1. TurnInv => TypeOK
    <2> SUFFICES ASSUME TurnInv PROVE TypeOK
      OBVIOUS
    <2> USE DEF TurnInv
    <2>1. ASSUME NEW v, VaultOK(v) PROVE IsVault(v)
      <3>1. Hidden \subseteq Cells /\ Seq(Characters) \subseteq Seq(Cells)
        <4>1. Characters \subseteq Cells /\ Hidden \subseteq Cells
          BY CellKinds
        <4> QED
          BY <4>1, SeqMonotonic
      <3> QED
        BY <2>1, <3>1 DEF VaultOK, IsVault
    <2>2. ASSUME NEW s \in Sessions PROVE erased[s] \in 0..MaxErasures
      BY TurnsAssumption DEF Counted, TraceInv
    <2>3. ASSUME NEW s \in Sessions
          PROVE  /\ stage[s] \in Stages /\ task[s] \in {"none", "reschedule", "address"}
                 /\ stage[s] = "idle" <=> said[s] = NoUtterance
                 /\ stage[s] = "write" <=> request[s] # NoRequest
                 /\ text[s] \in Seq(Cells) /\ spoken[s] \in Seq(Cells)
                 /\ Len(events[s]) <= RingSize /\ erasing[s] \in BOOLEAN
      BY DEF TurnTypes, TurnFits, TraceInv
    <2>4. DOMAIN vaults \subseteq Sessions /\ \A s \in DOMAIN vaults : IsVault(vaults[s])
      BY <2>1 DEF TurnTypes, TurnFits
    <2>5. /\ DOMAIN held = {s \in Sessions : stage[s] # "idle"}
          /\ \A s \in DOMAIN held : IsVault(held[s])
      BY <2>1 DEF TurnTypes, TurnFits
    <2>6. turns \in 0..MaxTurns /\ erasures \in 0..MaxErasures /\ made \in 0..MaxWrites
      BY DEF Counted, WriteInv, WriteTypes
    <2>7. DOMAIN emitting \subseteq Sessions /\ \A s \in DOMAIN emitting : emitting[s].of \in Scanned
      BY DEF TraceInv, Stamped
    <2> QED
      BY <2>2, <2>3, <2>4, <2>5, <2>6, <2>7 DEF TypeOK
  <1> QED
    BY <1>1, TurnInvariant, PTL

(* What an agent reads is what the caller said, value for value, in its first run *)
(* and in the one that a confirmation resumes, for any texts, whatever the         *)
(* patterns find in them and however turns, writes and erasures interleave; and   *)
(* what is spoken is that, or a line made of it (composer.py:52-54,             *)
(* address_change.py:71-114, runner.py:81-88).                               *)
THEOREM WordsComeBack == Spec => []WhatWasSaidComesBack
  <1>1. TurnInv => WhatWasSaidComesBack
    BY DEF TurnInv, TurnFits, Says, WhatWasSaidComesBack
  <1> QED
    BY <1>1, TurnInvariant, PTL

LEMMA ScannedAreTexts == \A u \in Scanned : IsUtterance(u)
  <1>1. IsUtterance(Blank)
    <2>1. /\ Blank.text = <<>> /\ Blank.found = <<>> /\ Blank.hints = <<>>
          /\ Blank = [text |-> Blank.text, found |-> Blank.found, hints |-> Blank.hints]
      BY DEF Blank
    <2>2. \A S : <<>> \in Seq(S)
      OBVIOUS
    <2> QED
      BY <2>1, <2>2 DEF IsUtterance
  <1> QED
    BY <1>1, TurnsAssumption DEF Scanned

(* The model sees no character of what was said, and the trace none of an address  *)
(* line, but those the scan leaves; and the rules of the scan let them, wherever   *)
(* matches that overlap are listed as pii.py:27 wants them: for any texts and      *)
(* lines, whatever the patterns find in them (pii.py:104-173).                  *)
THEOREM OnlyTheRestIsClear == Spec => []NothingElseIsClear
  <1>1. ScansAreSound
    BY ScanIsSound, TurnsAssumption DEF ScansAreSound
  <1>2. \A u \in Scanned : CharactersOf(Scrubbed[u]) = LeftClear[u]
    BY ScannedAreTexts, RedactIsSound DEF Scrubbed, LeftClear
  <1>3. TurnInv => NothingElseIsClear
    <2> SUFFICES ASSUME TurnInv PROVE NothingElseIsClear
      OBVIOUS
    <2>1. ASSUME NEW s \in Sessions, NEW i \in 1..Len(events[s])
          PROVE  CharactersOf(events[s][i].data) = LeftClear[events[s][i].event.of]
      <3>1. Entry(events[s][i], erased[s])
        BY DEF TurnInv, TraceInv
      <3> QED
        BY <1>2, <3>1 DEF Entry, Stamped
    <2> QED
      BY <1>1, <2>1 DEF TurnInv, TurnFits, NothingElseIsClear
  <1> QED
    BY <1>3, TurnInvariant, PTL

(* While a session's vault is not erased, no step gives a token it holds another *)
(* value, or drops it (pii.py:67-74).                                         *)
THEOREM TokensKeepTheirValues == Spec => TokensNeverRebind
  <1> DEFINE Kept == \A s \in DOMAIN vaults \cap DOMAIN vaults' : Extends(vaults[s], vaults'[s])
  <1>1. TurnInv /\ [Next]_vars => Kept
    <2> SUFFICES ASSUME TurnInv, [Next]_vars PROVE Kept
      OBVIOUS
    <2>1. \A v : Extends(v, v)
      BY DEF Extends
    <2>2. ASSUME \A s \in DOMAIN vaults' : s \in DOMAIN vaults /\ vaults'[s] = vaults[s]
          PROVE  Kept
      BY <2>1, <2>2
    <2>3. ASSUME NEW s \in Sessions, NEW u \in Utterances, StartTurn(s, u) \/ ResumeTurn(s, u)
          PROVE  Kept
      <3>1. /\ \A t \in DOMAIN vaults : t # s => vaults'[t] = vaults[t]
            /\ s \in DOMAIN vaults => VaultFor(s) = vaults[s]
        BY <2>3 DEF StartTurn, ResumeTurn, Put, VaultFor
      <3>2. TraceInv'
        BY TraceStep DEF TurnInv
      <3>3. Extends(VaultFor(s), vaults'[s])
        BY <2>3, <3>2, StartStep, ResumeStep
      <3> QED
        BY <2>1, <3>1, <3>3
    <2>4. ASSUME NEW s \in Sessions, ForgetVault(s) PROVE Kept
      <3>1. TraceInv'
        BY TraceStep DEF TurnInv
      <3> QED
        BY <2>2, <2>4, <3>1, ForgetVaultStep
    <2>5. ASSUME NEW s \in Sessions, Turn(s) \/ Forget(s) PROVE vaults' = vaults
      BY <2>5 DEF Turn, Graph, Compose, ReadBack, ReadAgain, Write, WriteEnds, EndTurn, Pause,
                  Emit, Forget
    <2>6. ASSUME UNCHANGED turnVars PROVE vaults' = vaults
      BY <2>6 DEF turnVars
    <2>7. ASSUME vaults' = vaults PROVE Kept
      BY <2>2, <2>7
    <2> QED
      BY <2>3, <2>4, <2>5, <2>6, <2>7 DEF Next, vars
  <1>2. Kept => [\A s \in DOMAIN vaults \cap DOMAIN vaults' :
                   \A t \in DOMAIN vaults[s].forward :
                      /\ t \in DOMAIN vaults'[s].forward
                      /\ vaults'[s].forward[t] = vaults[s].forward[t]]_vars
    BY DEF Extends
  <1> HIDE DEF Kept
  <1> QED
    BY <1>1, <1>2, TurnInvariant, PTL DEF Spec, TokensNeverRebind
=============================================================================
