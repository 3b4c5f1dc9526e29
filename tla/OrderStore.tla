----------------------------- MODULE OrderStore -----------------------------
(***************************************************************************)
(* The order store of services/order-api: request threads (Workers) run    *)
(* reschedule and update_address inside processes (Instances) that share   *)
(* one KV backend.  A process has one store object with one lock; the KV   *)
(* has no lock and no transaction, so a request is a sequence of separate  *)
(* KV reads and writes.  One action is one of those accesses together with *)
(* the code up to the next one.                                            *)
(*                                                                         *)
(* One instance is the in-process store or a single long-lived container;  *)
(* several are warm serverless containers behind one Redis.                *)
(***************************************************************************)
EXTENDS OrderRules

CONSTANTS
    Workers,      \* request threads, over all instances
    Instances,    \* processes that serve requests
    InstanceOf,   \* the process each thread belongs to
    WarmAtStart,  \* instances whose store exists in the initial state
    FaultPoints,  \* steps at which the next KV call may raise
    MaxCrashes,   \* bound: how many times a process is killed
    LastDay,      \* bound: the last value of date.today()
    Nobody, NoRequest

VARIABLES
    orders,    \* KV "order:<id>"
    loads,     \* KV "slotload"
    idem,      \* KV "idem:<key>"
    today,     \* date.today()
    lock,      \* the holder of each instance's store lock
    store,     \* whether the module global _store of an instance is set
    pc, req,   \* of each worker: its next step and its request
    snap,      \* the order object the worker works on
    seen,      \* the load table it has computed
    ans,       \* the MutationResult it will return
    todo,      \* fixture orders a seeding worker has still to write
    asked,     \* the day on which it compared the dates
    applied,   \* history: commits made for each key, two standing for more
    crashes

kv == <<orders, loads, idem>>
local == <<pc, req, snap, seen, ans, todo, asked>>
vars == <<kv, today, lock, store, local, applied, crashes>>

Seeding == {"seed_orders", "seed_loads"}
(* The steps between reading the order and remembering the answer. *)
Judging == {"capacity", "read_loads", "write_loads", "write_order", "remember"}
KVSteps == Seeding \cup {"idem", "read"} \cup Judging
Holding == KVSteps \cup {"reply"}   \* the steps taken inside the store lock
Steps == Holding \cup {"idle", "get_store", "load", "acquire"}

Fixtures == {o \in Ids : Seed[o] # NoOrder}
SeedLoad == [s \in Slots |-> Booked(Seed, s)]
NoLoad == [s \in Slots |-> 0]

ASSUME StoreAssumption ==
    /\ WarmAtStart \subseteq Instances
    /\ InstanceOf \in [Workers -> Instances]
    /\ FaultPoints \subseteq KVSteps
    /\ MaxCrashes \in Nat
    /\ LastDay \in Int
    /\ Nobody \notin Workers
    /\ NoRequest \notin Requests

TypeOK ==
    /\ orders \in [Ids -> Order \cup {NoOrder}]
    /\ loads \in [Slots -> Nat]
    /\ idem \in [Keys -> Answer \cup {NoAnswer}]
    /\ today \in Int
    /\ lock \in [Instances -> Workers \cup {Nobody}]
    /\ store \in [Instances -> BOOLEAN]
    /\ pc \in [Workers -> Steps]
    /\ req \in [Workers -> Requests \cup {NoRequest}]
    /\ snap \in [Workers -> Order \cup {NoOrder}]
    /\ seen \in [Workers -> [Slots -> Nat]]
    /\ ans \in [Workers -> Answer \cup {NoAnswer}]
    /\ todo \in [Workers -> SUBSET Fixtures]
    /\ asked \in [Workers -> Int]
    /\ applied \in [Keys -> 0 .. 2]
    /\ crashes \in 0 .. MaxCrashes
-----------------------------------------------------------------------------
(* The KV is seeded exactly when some instance has already come up. *)
Init ==
    /\ orders = IF WarmAtStart = {} THEN [o \in Ids |-> NoOrder] ELSE Seed
    /\ loads = IF WarmAtStart = {} THEN NoLoad ELSE SeedLoad
    /\ idem = [k \in Keys |-> NoAnswer]
    /\ today = 0
    /\ lock = [i \in Instances |-> Nobody]
    /\ store = [i \in Instances |-> i \in WarmAtStart]
    /\ pc = [w \in Workers |-> "idle"]
    /\ req = [w \in Workers |-> NoRequest]
    /\ snap = [w \in Workers |-> NoOrder]
    /\ seen = [w \in Workers |-> NoLoad]
    /\ ans = [w \in Workers |-> NoAnswer]
    /\ todo = [w \in Workers |-> {}]
    /\ asked = [w \in Workers |-> 0]
    /\ applied = [k \in Keys |-> 0]
    /\ crashes = 0

Goto(w, from, to) == pc[w] = from /\ pc' = [pc EXCEPT ![w] = to]

(* The thread ends and its locals with it. *)
Finish(ws) ==
    /\ pc' = [w \in Workers |-> IF w \in ws THEN "idle" ELSE pc[w]]
    /\ req' = [w \in Workers |-> IF w \in ws THEN NoRequest ELSE req[w]]
    /\ snap' = [w \in Workers |-> IF w \in ws THEN NoOrder ELSE snap[w]]
    /\ seen' = [w \in Workers |-> IF w \in ws THEN NoLoad ELSE seen[w]]
    /\ ans' = [w \in Workers |-> IF w \in ws THEN NoAnswer ELSE ans[w]]
    /\ todo' = [w \in Workers |-> IF w \in ws THEN {} ELSE todo[w]]
    /\ asked' = [w \in Workers |-> IF w \in ws THEN 0 ELSE asked[w]]

Lock(w) == lock[InstanceOf[w]] = Nobody /\ lock' = [lock EXCEPT ![InstanceOf[w]] = w]
(* Leaving the with block, normally or by an exception. *)
Unlock(w) == lock' = [i \in Instances |-> IF lock[i] = w THEN Nobody ELSE lock[i]]

(* A request reaches an instance; a caller may send one again at any time. *)
Call(w, r) ==
    /\ Goto(w, "idle", "get_store")
    /\ req' = [req EXCEPT ![w] = r]
    /\ UNCHANGED <<kv, today, lock, store, snap, seen, ans, todo, asked, applied, crashes>>

(* get_store: the global is set before the store it names is loaded. *)
GetStore(w) ==
    /\ Goto(w, "get_store", IF store[InstanceOf[w]] THEN "acquire" ELSE "load")
    /\ store' = [store EXCEPT ![InstanceOf[w]] = TRUE]
    /\ UNCHANGED <<kv, today, lock, req, snap, seen, ans, todo, asked, applied, crashes>>

Load(w) ==
    /\ Goto(w, "load", "seed_orders")
    /\ Lock(w)
    /\ todo' = [todo EXCEPT ![w] = Fixtures]
    /\ UNCHANGED <<kv, today, store, req, snap, seen, ans, asked, applied, crashes>>

SeedOrder(w, o) ==
    /\ pc[w] = "seed_orders"
    /\ o \in todo[w]
    /\ orders' = [orders EXCEPT ![o] = Seed[o]]
    /\ todo' = [todo EXCEPT ![w] = @ \ {o}]
    /\ pc' = [pc EXCEPT ![w] = IF todo[w] = {o} THEN "seed_loads" ELSE "seed_orders"]
    /\ UNCHANGED <<loads, idem, today, lock, store, req, snap, seen, ans, asked,
                   applied, crashes>>

SeedLoads(w) ==
    /\ Goto(w, "seed_loads", "acquire")
    /\ loads' = SeedLoad
    /\ Unlock(w)
    /\ UNCHANGED <<orders, idem, today, store, req, snap, seen, ans, todo, asked,
                   applied, crashes>>

(* Mutant: the with block of a mutation is gone. *)
AcquireNothing(w) ==
    /\ Goto(w, "acquire", "idem")
    /\ UNCHANGED <<kv, today, lock, store, req, snap, seen, ans, todo, asked, applied, crashes>>

Acquire(w) ==
    /\ Goto(w, "acquire", "idem")
    /\ Lock(w)
    /\ UNCHANGED <<kv, today, store, req, snap, seen, ans, todo, asked, applied, crashes>>

(* Mutant: the remembered answer is never looked up. *)
ForgetIdem(w) ==
    /\ Goto(w, "idem", "read")
    /\ UNCHANGED <<kv, today, lock, store, req, snap, seen, ans, todo, asked, applied, crashes>>

(* A remembered key is answered from memory, whatever else the request says. *)
ReadIdem(w) ==
    /\ Goto(w, "idem", IF idem[req[w].key] = NoAnswer THEN "read" ELSE "reply")
    /\ ans' = [ans EXCEPT ![w] = idem[req[w].key]]
    /\ UNCHANGED <<kv, today, lock, store, req, snap, seen, todo, asked, applied, crashes>>

(* Reads the order and runs every check that needs no further read. *)
ReadOrder(w) ==
    LET o == orders[req[w].id]
        code == Verdict(req[w], o, today)
        next == IF code # "OK" THEN "remember"
                ELSE IF req[w].op = "reschedule" THEN "capacity" ELSE "write_order"
    IN  /\ Goto(w, "read", next)
        /\ snap' = [snap EXCEPT ![w] = IF next = "write_order" THEN Mutated(req[w], o) ELSE o]
        /\ ans' = [ans EXCEPT ![w] = IF code # "OK" THEN Refused(req[w], o, code) ELSE NoAnswer]
        /\ asked' = [asked EXCEPT ![w] = today]
        /\ UNCHANGED <<kv, today, lock, store, req, seen, todo, applied, crashes>>

(* Mutant: a full slot still takes one more order. *)
CheckCapacityOffByOne(w) ==
    LET free == loads[req[w].slot] <= SlotCapacity
    IN  /\ Goto(w, "capacity", IF free THEN "read_loads" ELSE "remember")
        /\ ans' = [ans EXCEPT ![w] = IF free THEN NoAnswer
                                     ELSE Refused(req[w], snap[w], "SLOT_FULL")]
        /\ UNCHANGED <<kv, today, lock, store, req, snap, seen, todo, asked, applied, crashes>>

CheckCapacity(w) ==
    LET free == loads[req[w].slot] < SlotCapacity
    IN  /\ Goto(w, "capacity", IF free THEN "read_loads" ELSE "remember")
        /\ ans' = [ans EXCEPT ![w] = IF free THEN NoAnswer
                                     ELSE Refused(req[w], snap[w], "SLOT_FULL")]
        /\ UNCHANGED <<kv, today, lock, store, req, snap, seen, todo, asked,
                       applied, crashes>>

(* The commit reads the load table a second time. *)
ReadLoads(w) ==
    /\ Goto(w, "read_loads", "write_loads")
    /\ seen' = [seen EXCEPT ![w] = Moved(loads, snap[w].slot, req[w].slot)]
    /\ UNCHANGED <<kv, today, lock, store, req, snap, ans, todo, asked, applied, crashes>>

WriteLoads(w) ==
    /\ Goto(w, "write_loads", "write_order")
    /\ loads' = seen[w]
    /\ snap' = [snap EXCEPT ![w] = Mutated(req[w], @)]
    /\ UNCHANGED <<orders, idem, today, lock, store, req, seen, ans, todo, asked,
                   applied, crashes>>

(* The whole order object is written, fields this request left alone included. *)
WriteOrder(w) ==
    /\ Goto(w, "write_order", "remember")
    /\ orders' = [orders EXCEPT ![req[w].id] = snap[w]]
    /\ ans' = [ans EXCEPT ![w] = Accepted(req[w], snap[w])]
    /\ applied' = [applied EXCEPT ![req[w].key] = IF @ = 0 THEN 1 ELSE 2]
    /\ UNCHANGED <<loads, idem, today, lock, store, req, snap, seen, todo, asked, crashes>>

Remember(w) ==
    /\ Goto(w, "remember", "reply")
    /\ idem' = [idem EXCEPT ![req[w].key] = ans[w]]
    /\ UNCHANGED <<orders, loads, today, lock, store, req, snap, seen, ans, todo, asked,
                   applied, crashes>>

(* The result leaves the with block; whether the caller still hears it is   *)
(* not the store's to know, so a lost reply is followed by another Call.    *)
Reply(w) ==
    /\ pc[w] = "reply"
    /\ Unlock(w)
    /\ Finish({w})
    /\ UNCHANGED <<kv, today, store, applied, crashes>>

(* Mutant: acquire and release without try, so that an exception keeps the lock. *)
RaiseHoldingLock(w) ==
    /\ pc[w] \in FaultPoints
    /\ Finish({w})
    /\ UNCHANGED <<kv, today, lock, store, applied, crashes>>

(* The KV call of this step raises: the request ends in an HTTP 500.  That   *)
(* the previous step's write took effect but its response was lost is the   *)
(* same behaviour.                                                          *)
Raise(w) ==
    /\ pc[w] \in FaultPoints
    /\ Unlock(w)
    /\ Finish({w})
    /\ UNCHANGED <<kv, today, store, applied, crashes>>

(* The process is killed with the requests it is serving; the KV survives. *)
Crash(i) ==
    /\ crashes < MaxCrashes
    /\ crashes' = crashes + 1
    /\ store' = [store EXCEPT ![i] = FALSE]
    /\ lock' = [lock EXCEPT ![i] = Nobody]
    /\ Finish({w \in Workers : InstanceOf[w] = i})
    /\ UNCHANGED <<kv, today, applied>>

(* No request is under way for a whole day. *)
Midnight ==
    /\ today < LastDay
    /\ \A w \in Workers : pc[w] \in Judging => asked[w] = today
    /\ today' = today + 1
    /\ UNCHANGED <<kv, lock, store, local, applied, crashes>>

Serve(w) ==
    \/ GetStore(w) \/ SeedLoads(w)
    \/ \E o \in Ids : SeedOrder(w, o)
    \/ ReadIdem(w) \/ ReadOrder(w) \/ CheckCapacity(w) \/ ReadLoads(w)
    \/ WriteLoads(w) \/ WriteOrder(w) \/ Remember(w) \/ Reply(w)

Next ==
    \/ \E w \in Workers :
          \/ \E r \in Requests : Call(w, r)
          \/ Serve(w) \/ Load(w) \/ Acquire(w) \/ Raise(w)
    \/ \E i \in Instances : Crash(i)
    \/ Midnight

Spec == Init /\ [][Next]_vars

(* A thread that has a step to run runs it, and one that keeps asking for    *)
(* the lock is not passed over for ever.                                    *)
Fairness == \A w \in Workers : /\ WF_vars(Serve(w))
                               /\ SF_vars(Load(w)) /\ SF_vars(Acquire(w))
FairSpec == Spec /\ Fairness
-----------------------------------------------------------------------------
(* No thread is between two storage accesses of a commit. *)
Quiet == \A w \in Workers : pc[w] \notin Holding

(* The load table counts the orders: whenever no request is inside the      *)
(* store, the load of a slot is the number of orders promised for it.  The  *)
(* commit of reschedule moves the two in separate writes (store.py:217-229).*)
LoadsMatchOrders == Quiet => \A s \in Slots : loads[s] = Booked(orders, s)

(* No slot is promised to more than SLOT_CAPACITY orders, beyond those the   *)
(* fixtures themselves put there (store.py:36, 203).                        *)
NotOverbooked ==
    \A s \in Slots : Booked(orders, s) <= SlotCapacity \/ Booked(orders, s) <= SeedLoad[s]

(* Even when requests die between the writes of a commit and processes are   *)
(* killed, the load table never counts past the capacity, so a capacity     *)
(* check is never made against a table that is already over (store.py:203,  *)
(* 212-217).                                                                *)
CapacityRespected ==
    \A s \in Slots : loads[s] <= SlotCapacity \/ loads[s] <= SeedLoad[s]

(* A caller who sends the same request again never books twice: at most one *)
(* commit carries a given idempotency key (router.py:58, store.py:147).     *)
AtMostOncePerKey == \A k \in Keys : applied[k] <= 1

(* No interleaving gets an order past its reschedule allowance.             *)
LimitRespected ==
    \A o \in Ids : orders[o] # NoOrder => orders[o].count <= MaxReschedules

(* What a caller was granted stays: an order that exists changes only by     *)
(* the commit of a request for it (store.py:51, write-through).             *)
OnlyCommitsChangeOrders ==
    [][\A o \in Ids : orders[o] # NoOrder /\ orders'[o] # orders[o] =>
          \E w \in Workers : pc[w] = "write_order" /\ req[w].id = o]_vars

(* The answer remembered for a key is final: a retry hears what the first    *)
(* attempt was told (store.py:128-137).                                     *)
AnswersAreFinal ==
    [][\A k \in Keys : idem[k] # NoAnswer => idem'[k] = idem[k]]_vars

(* Every request that reaches the store is answered or fails: no thread      *)
(* waits for ever on the store lock.                                        *)
EveryCallReturns == \A w \in Workers : pc[w] # "idle" ~> pc[w] = "idle"
=============================================================================
