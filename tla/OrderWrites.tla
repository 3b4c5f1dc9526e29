----------------------------- MODULE OrderWrites -----------------------------
(***************************************************************************)
(* A confirmed change on its way from the gateway to the order API and back  *)
(* (services/gateway/app/providers/order_client.py, and the ends of          *)
(* graph/nodes/reschedule.py and address_change.py).  The API is the order    *)
(* book that the store implements (OrderStoreBook).  The client waits four    *)
(* seconds at most: a request it has given up may still be decided, in any    *)
(* order with the others, and an answer that comes too late is not heard.     *)
(***************************************************************************)
EXTENDS OrderBook

CONSTANTS
    Sessions,     \* the calls
    Wishes,       \* changes a caller may confirm: requests without a key
    MaxWrites,    \* bound: changes confirmed over all calls
    NoRequest

VARIABLES
    made,         \* keys made so far
    net,          \* requests posted and neither decided nor lost
    request,      \* of each session: the request its agent waits for
    escalated,    \* of each session: a colleague takes over
    done,         \* history: requests whose caller was told that the change is made
    unsaved       \* history: requests whose caller was told that it was not saved

writeVars == <<bookVars, made, net, request, escalated, done, unsaved>>

Key(s, intent, nonce) == [session |-> s, intent |-> intent, nonce |-> nonce]

WithKey(w, k) ==
    IF w.op = "reschedule" THEN [op |-> w.op, key |-> k, id |-> w.id, slot |-> w.slot]
                           ELSE [op |-> w.op, key |-> k, id |-> w.id, address |-> w.address]

Wish(r) ==
    IF r.op = "reschedule" THEN [op |-> r.op, id |-> r.id, slot |-> r.slot]
                           ELSE [op |-> r.op, id |-> r.id, address |-> r.address]

ASSUME WritesAssumption ==
    /\ MaxWrites \in Nat
    /\ Wishes \subseteq [op : {"reschedule"}, id : Ids, slot : Slots]
                       \cup [op : {"address"}, id : Ids, address : Addresses]
    /\ \A s \in Sessions, w \in Wishes, n \in 1..MaxWrites :
          /\ Key(s, w.op, n) \in Keys
          /\ WithKey(w, Key(s, w.op, n)) \in Requests
    /\ NoRequest \notin Requests

WriteInit ==
    /\ BookInit
    /\ made = 0
    /\ net = {}
    /\ request = [s \in Sessions |-> NoRequest]
    /\ escalated = [s \in Sessions |-> FALSE]
    /\ done = [s \in Sessions |-> {}]
    /\ unsaved = [s \in Sessions |-> {}]

-----------------------------------------------------------------------------
(* Mutant: one key for a call and an intent, as the comment on the code says. *)
StableKey(s, intent) == Key(s, intent, 1)

(* new_idempotency_key: a fresh uuid for every attempt. *)
NewIdempotencyKey(s, intent) == Key(s, intent, made + 1)

(* The caller has said yes: the agent posts the change and waits. *)
Post(s, w) ==
    LET r == WithKey(w, NewIdempotencyKey(s, w.op))
    IN  /\ request[s] = NoRequest /\ made < MaxWrites
        /\ made' = made + 1
        /\ net' = net \cup {r}
        /\ request' = [request EXCEPT ![s] = r]
        /\ UNCHANGED <<bookVars, escalated, done, unsaved>>

(* The store decides a request, whether or not anyone still waits for it; a   *)
(* key it remembers is answered from memory.                                  *)
Decide(r) ==
    /\ r \in net
    /\ net' = net \ {r}
    /\ IF answers[r.key] # NoAnswer THEN UNCHANGED bookVars
                                    ELSE Accept(r, today) \/ Refuse(r, today)
    /\ UNCHANGED <<made, request, escalated, done, unsaved>>

(* The request never arrives, or dies in the service before its commit. *)
Lose(r) ==
    /\ r \in net
    /\ net' = net \ {r}
    /\ UNCHANGED <<bookVars, made, request, escalated, done, unsaved>>

(* The answer is in time: the agent speaks its message. *)
Hear(s) ==
    LET r == request[s]
    IN  /\ r # NoRequest /\ r \notin net
        /\ answers[r.key] # NoAnswer
        /\ done' = IF answers[r.key].code = "OK" THEN [done EXCEPT ![s] = @ \cup {r}] ELSE done
        /\ request' = [request EXCEPT ![s] = NoRequest]
        /\ UNCHANGED <<bookVars, made, net, escalated, unsaved>>

(* Mutant: the agent apologises and hands the call to nobody. *)
GiveUpAlone(s) ==
    /\ request[s] # NoRequest
    /\ unsaved' = [unsaved EXCEPT ![s] = @ \cup {request[s]}]
    /\ request' = [request EXCEPT ![s] = NoRequest]
    /\ UNCHANGED <<bookVars, made, net, escalated, done>>

(* Mutant: only an error ends the wait, not the time. *)
GiveUpOnError(s) ==
    /\ request[s] # NoRequest /\ request[s] \notin net
    /\ unsaved' = [unsaved EXCEPT ![s] = @ \cup {request[s]}]
    /\ escalated' = [escalated EXCEPT ![s] = TRUE]
    /\ request' = [request EXCEPT ![s] = NoRequest]
    /\ UNCHANGED <<bookVars, made, net, done>>

(* OrderAPIUnavailable: the time is up, the answer is an error or is lost. *)
GiveUp(s) ==
    /\ request[s] # NoRequest
    /\ unsaved' = [unsaved EXCEPT ![s] = @ \cup {request[s]}]
    /\ escalated' = [escalated EXCEPT ![s] = TRUE]
    /\ request' = [request EXCEPT ![s] = NoRequest]
    /\ UNCHANGED <<bookVars, made, net, done>>

Answered(s) == Hear(s) \/ GiveUp(s)

Network == \E r \in net : Decide(r) \/ Lose(r)

WriteNext ==
    \/ \E s \in Sessions, w \in Wishes : Post(s, w)
    \/ \E s \in Sessions : Answered(s)
    \/ Network

WriteSpec == WriteInit /\ [][WriteNext]_writeVars

-----------------------------------------------------------------------------
AcceptedKey(k) == answers[k] # NoAnswer /\ answers[k].code = "OK"

(* A caller who hears that a change is made hears it of the change they        *)
(* confirmed: the book's answer is for that order and that slot or address,   *)
(* not one remembered from another request (order_client.py:66-74).           *)
DoneMeansThisChange ==
    \A s \in Sessions : \A r \in done[s] :
       LET a == answers[r.key]
       IN  /\ AcceptedKey(r.key) /\ a.id = r.id
           /\ IF r.op = "reschedule" THEN a.order.slot = r.slot
                                     ELSE a.order.address = r.address

(* No change of an order goes unowned: the call that asked for it still waits  *)
(* for it, was told that it is made, or has been handed to a colleague,       *)
(* however late the store decided (reschedule.py:114-123,                     *)
(* address_change.py:131-139).                                                *)
CommitsAreOwned ==
    \A k \in Keys :
       AcceptedKey(k) =>
          \/ request[k.session] # NoRequest /\ request[k.session].key = k
          \/ escalated[k.session]
          \/ \E r \in done[k.session] : r.key = k

(* A caller told that a change was not saved, who asks for it again and is     *)
(* told that it is made, has had it made once (order_client.py:71-72).        *)
RetriesCommitOnce ==
    \A s \in Sessions : \A r \in unsaved[s], again \in done[s] :
       Wish(r) = Wish(again) /\ r.key.nonce < again.key.nonce => ~AcceptedKey(r.key)
=============================================================================
