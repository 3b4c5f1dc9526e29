-------------------------- MODULE OrderStoreProofs --------------------------
(***************************************************************************)
(* Theorems about the order store, for every set of workers, instances,     *)
(* orders, slots and keys.  The type invariant is not inductive alone: what *)
(* a thread may do at a step depends on the request it serves and on the    *)
(* order it has read, which Shape records.  The second half proves, for one *)
(* warm process whose commits are not cut short, that the load table counts *)
(* the promises and that the store implements the abstract book.            *)
(***************************************************************************)
EXTENDS OrderStoreBook, OrderRulesProofs

Committing == {"capacity", "read_loads", "write_loads"}

Shape ==
    \A w \in Workers :
      /\ pc[w] # "idle" => req[w] \in Requests
      /\ pc[w] \in Committing => /\ req[w].op = "reschedule"
                                 /\ snap[w] \in Order
                                 /\ snap[w].count < MaxReschedules
      /\ pc[w] = "write_order" => snap[w] \in Order /\ snap[w].count <= MaxReschedules
      /\ pc[w] = "remember" => ans[w] \in Answer

TypeInv == TypeOK /\ Shape /\ LimitRespected
-----------------------------------------------------------------------------
LEMMA InitType == Init => TypeInv
  <1> SUFFICES ASSUME Init PROVE TypeInv
    OBVIOUS
  <1>1. SeedLoad \in [Slots -> Nat] /\ NoLoad \in [Slots -> Nat]
    BY BookedIsNat DEF SeedLoad, NoLoad
  <1>2. TypeOK
    BY <1>1, ConstantsAssumption, StoreAssumption DEF Init, TypeOK, Steps
  <1>3. Shape
    BY DEF Init, Shape, Committing
  <1>4. LimitRespected
    BY ConstantsAssumption DEF Init, LimitRespected
  <1> QED
    BY <1>2, <1>3, <1>4 DEF TypeInv

(* Locals of a thread that ends are reset; those of the others stay. *)
LEMMA FinishType ==
    ASSUME TypeOK, Shape, NEW ws, Finish(ws)
    PROVE  /\ pc' \in [Workers -> Steps]
           /\ req' \in [Workers -> Requests \cup {NoRequest}]
           /\ snap' \in [Workers -> Order \cup {NoOrder}]
           /\ seen' \in [Workers -> [Slots -> Nat]]
           /\ ans' \in [Workers -> Answer \cup {NoAnswer}]
           /\ todo' \in [Workers -> SUBSET Fixtures]
           /\ asked' \in [Workers -> Int]
           /\ Shape'
  <1>1. NoLoad \in [Slots -> Nat]
    BY DEF NoLoad
  <1>2. /\ pc' \in [Workers -> Steps]
        /\ req' \in [Workers -> Requests \cup {NoRequest}]
        /\ snap' \in [Workers -> Order \cup {NoOrder}]
        /\ seen' \in [Workers -> [Slots -> Nat]]
        /\ ans' \in [Workers -> Answer \cup {NoAnswer}]
        /\ todo' \in [Workers -> SUBSET Fixtures]
        /\ asked' \in [Workers -> Int]
    BY <1>1 DEF TypeOK, Finish, Steps
  <1>3. Shape'
    BY DEF Shape, Finish, Committing
  <1> QED
    BY <1>2, <1>3

LEMMA ServeKeepsType ==
    ASSUME TypeInv, NEW w \in Workers, Serve(w)
    PROVE  TypeInv'
  <1> USE DEF TypeInv
  <1>1. CASE GetStore(w)
    BY <1>1, StoreAssumption DEF GetStore, Goto, TypeOK, Shape, LimitRespected, Committing, Steps, kv
  <1>2. CASE SeedLoads(w)
    <2>1. SeedLoad \in [Slots -> Nat]
      BY BookedIsNat DEF SeedLoad
    <2> QED
      BY <1>2, <2>1 DEF SeedLoads, Unlock, Goto, TypeOK, Shape, LimitRespected, Committing, Steps
  <1>3. ASSUME NEW o \in Ids, SeedOrder(w, o)
        PROVE  TypeInv'
    BY <1>3, ConstantsAssumption
       DEF SeedOrder, TypeOK, Shape, LimitRespected, Committing, Steps, Holding, KVSteps, Seeding, Fixtures
  <1>4. CASE ReadIdem(w)
    <2>1. req[w].key \in Keys
      BY <1>4, RequestFields DEF ReadIdem, Goto, Shape
    <2> QED
      BY <1>4, <2>1 DEF ReadIdem, Goto, TypeOK, Shape, LimitRespected, Committing, Steps, Holding, KVSteps, kv
  <1>5. CASE ReadOrder(w)
    <2> DEFINE o == orders[req[w].id]
               code == Verdict(req[w], o, today)
    <2>1. req[w] \in Requests /\ o \in Order \cup {NoOrder} /\ today \in Int
      BY <1>5, RequestFields DEF ReadOrder, Goto, Shape, TypeOK
    <2>2. code \in RefusalCodes \cup {"OK"}
      BY <2>1, VerdictOK
    <2>3. code # "OK" => Refused(req[w], o, code) \in Answer
      BY <2>1, <2>2, AnswerTypes
    <2>4. code = "OK" => /\ o \in Order
                         /\ Mutated(req[w], o) \in Order
                         /\ req[w].op = "reschedule" => o.count < MaxReschedules
      BY <2>1, VerdictOK, MutatedType
    <2>5. code = "OK" /\ req[w].op # "reschedule" => Mutated(req[w], o).count <= MaxReschedules
      <3>1. o \in Order => o.count <= MaxReschedules
        BY <2>1, RequestFields, ConstantsAssumption DEF LimitRespected
      <3> QED
        BY <2>1, <2>4, <3>1, MutatedType
    <2> HIDE DEF code
    <2>6. TypeOK'
      BY <1>5, <2>1, <2>3, <2>4 DEF ReadOrder, Goto, TypeOK, Steps, Holding, KVSteps, Judging, kv, code
    <2>7. Shape'
      BY <1>5, <2>1, <2>3, <2>4, <2>5 DEF ReadOrder, Goto, TypeOK, Shape, Committing, kv, code
    <2>8. LimitRespected'
      BY <1>5 DEF ReadOrder, LimitRespected, kv
    <2> QED
      BY <2>6, <2>7, <2>8
  <1>6. CASE CheckCapacity(w)
    <2>1. req[w] \in Requests /\ snap[w] \in Order
      BY <1>6 DEF CheckCapacity, Goto, Shape, Committing
    <2>2. Refused(req[w], snap[w], "SLOT_FULL") \in Answer
      BY <2>1, AnswerTypes DEF RefusalCodes
    <2> QED
      BY <1>6, <2>2 DEF CheckCapacity, Goto, TypeOK, Shape, LimitRespected, Committing, Steps,
                        Holding, KVSteps, Judging, kv
  <1>7. CASE ReadLoads(w)
    <2>1. req[w].slot \in Slots /\ snap[w].slot \in Slots
      BY <1>7, RequestFields DEF ReadLoads, Goto, Shape, Committing, Order
    <2>2. Moved(loads, snap[w].slot, req[w].slot) \in [Slots -> Nat]
      BY <2>1, MovedType DEF TypeOK
    <2> QED
      BY <1>7, <2>2 DEF ReadLoads, Goto, TypeOK, Shape, LimitRespected, Committing, Steps,
                        Holding, KVSteps, Judging, kv
  <1>8. CASE WriteLoads(w)
    <2>1. /\ Mutated(req[w], snap[w]) \in Order
          /\ Mutated(req[w], snap[w]).count <= MaxReschedules
      BY <1>8, MutatedType, ConstantsAssumption DEF WriteLoads, Goto, Shape, Committing, Order
    <2> QED
      BY <1>8, <2>1 DEF WriteLoads, Goto, TypeOK, Shape, LimitRespected, Committing, Steps,
                        Holding, KVSteps, Judging
  <1>9. CASE WriteOrder(w)
    <2>1. req[w].key \in Keys /\ req[w].id \in Ids /\ Accepted(req[w], snap[w]) \in Answer
      BY <1>9, RequestFields, AnswerTypes DEF WriteOrder, Goto, Shape
    <2> QED
      BY <1>9, <2>1 DEF WriteOrder, Goto, TypeOK, Shape, LimitRespected, Committing, Steps,
                        Holding, KVSteps, Judging
  <1>10. CASE Remember(w)
    <2>1. req[w].key \in Keys
      BY <1>10, RequestFields DEF Remember, Goto, Shape
    <2> QED
      BY <1>10, <2>1 DEF Remember, Goto, TypeOK, Shape, LimitRespected, Committing, Steps, Holding
  <1>11. CASE Reply(w)
    BY <1>11, FinishType DEF Reply, Unlock, TypeOK, LimitRespected, kv
  <1> QED
    BY <1>1, <1>2, <1>3, <1>4, <1>5, <1>6, <1>7, <1>8, <1>9, <1>10, <1>11 DEF Serve

LEMMA TypeStep == TypeInv /\ [Next]_vars => TypeInv'
  <1> SUFFICES ASSUME TypeInv, [Next]_vars PROVE TypeInv'
    OBVIOUS
  <1> USE DEF TypeInv
  <1>1. ASSUME NEW w \in Workers, NEW r \in Requests, Call(w, r)
        PROVE  TypeInv'
    BY <1>1 DEF Call, Goto, TypeOK, Shape, LimitRespected, Committing, Steps, kv
  <1>2. ASSUME NEW w \in Workers, Serve(w)
        PROVE  TypeInv'
    BY <1>2, ServeKeepsType
  <1>3. ASSUME NEW w \in Workers, Load(w)
        PROVE  TypeInv'
    BY <1>3 DEF Load, Lock, Goto, TypeOK, Shape, LimitRespected, Committing, Steps, Holding,
                KVSteps, Seeding, kv
  <1>4. ASSUME NEW w \in Workers, Acquire(w)
        PROVE  TypeInv'
    BY <1>4 DEF Acquire, Lock, Goto, TypeOK, Shape, LimitRespected, Committing, Steps, Holding,
                KVSteps, kv
  <1>5. ASSUME NEW w \in Workers, Raise(w)
        PROVE  TypeInv'
    BY <1>5, FinishType DEF Raise, Unlock, TypeOK, LimitRespected, kv
  <1>6. ASSUME NEW i \in Instances, Crash(i)
        PROVE  TypeInv'
    BY <1>6, FinishType, StoreAssumption DEF Crash, TypeOK, LimitRespected, kv
  <1>7. CASE Midnight
    BY <1>7 DEF Midnight, TypeOK, Shape, LimitRespected, local, kv
  <1>8. CASE UNCHANGED vars
    BY <1>8 DEF vars, local, kv, TypeOK, Shape, LimitRespected
  <1> QED
    BY <1>1, <1>2, <1>3, <1>4, <1>5, <1>6, <1>7, <1>8 DEF Next

LEMMA TypeInvariant == Spec => []TypeInv
  BY InitType, TypeStep, PTL DEF Spec

(* Every value the store and its threads hold has its type.                 *)
THEOREM TypeCorrect == Spec => []TypeOK
  BY TypeInvariant, PTL DEF TypeInv

(* No interleaving of threads, processes, failures and crashes gets an order *)
(* past its reschedule allowance.                                           *)
THEOREM LimitHolds == Spec => []LimitRespected
  BY TypeInvariant, PTL DEF TypeInv
-----------------------------------------------------------------------------
(* Inside the store's with block a thread holds the lock of its process.     *)
LockInv == \A w \in Workers : pc[w] \in Holding => lock[InstanceOf[w]] = w

LEMMA LockStep == TypeInv /\ LockInv /\ [Next]_vars => LockInv'
  <1> SUFFICES ASSUME TypeInv, LockInv, [Next]_vars PROVE LockInv'
    OBVIOUS
  <1> USE DEF TypeInv, LockInv, TypeOK, Holding, KVSteps, Seeding, Judging
  <1>1. ASSUME NEW w \in Workers, NEW r \in Requests, Call(w, r)
        PROVE  LockInv'
    BY <1>1 DEF Call, Goto
  <1>2. ASSUME NEW w \in Workers, Serve(w)
        PROVE  LockInv'
    <2>1. CASE GetStore(w)
      BY <2>1 DEF GetStore, Goto
    <2>2. CASE SeedLoads(w)
      BY <2>2, StoreAssumption DEF SeedLoads, Goto, Unlock
    <2>3. ASSUME NEW o \in Ids, SeedOrder(w, o)
          PROVE  LockInv'
      BY <2>3 DEF SeedOrder
    <2>4. CASE ReadIdem(w)
      BY <2>4 DEF ReadIdem, Goto
    <2>5. CASE ReadOrder(w)
      BY <2>5 DEF ReadOrder, Goto
    <2>6. CASE CheckCapacity(w)
      BY <2>6 DEF CheckCapacity, Goto
    <2>7. CASE ReadLoads(w) \/ WriteLoads(w) \/ WriteOrder(w) \/ Remember(w)
      BY <2>7 DEF ReadLoads, WriteLoads, WriteOrder, Remember, Goto
    <2>8. CASE Reply(w)
      BY <2>8, StoreAssumption DEF Reply, Unlock, Finish
    <2> QED
      BY <1>2, <2>1, <2>2, <2>3, <2>4, <2>5, <2>6, <2>7, <2>8 DEF Serve
  <1>3. ASSUME NEW w \in Workers, Load(w) \/ Acquire(w)
        PROVE  LockInv'
    BY <1>3, StoreAssumption DEF Load, Acquire, Goto, Lock
  <1>4. ASSUME NEW w \in Workers, Raise(w)
        PROVE  LockInv'
    BY <1>4, StoreAssumption DEF Raise, Unlock, Finish
  <1>5. ASSUME NEW i \in Instances, Crash(i)
        PROVE  LockInv'
    BY <1>5, StoreAssumption DEF Crash, Finish
  <1>6. CASE Midnight \/ UNCHANGED vars
    BY <1>6 DEF Midnight, vars, local
  <1> QED
    BY <1>1, <1>2, <1>3, <1>4, <1>5, <1>6 DEF Next

(* What the lock guards in every process, on its own, and with only one      *)
(* process, everywhere: at most one thread is between two KV accesses.      *)
THEOREM LockGuardsProcess == Spec => [](TypeInv /\ LockInv)
  <1>1. Init => LockInv
    BY DEF Init, LockInv, Holding, KVSteps, Seeding, Judging
  <1> QED
    BY <1>1, InitType, TypeStep, LockStep, PTL DEF Spec

SingleProcess == \A i, j \in Instances : i = j

LEMMA OneAtATime ==
    ASSUME SingleProcess, LockInv, NEW v \in Workers, NEW w \in Workers,
           pc[v] \in Holding, pc[w] \in Holding
    PROVE  v = w
  BY StoreAssumption DEF SingleProcess, LockInv
-----------------------------------------------------------------------------
WithinBounds(load) == \A s \in Slots : load[s] <= SlotCapacity \/ load[s] <= SeedLoad[s]

(* A commit under way was checked against the load table that is still there. *)
CapacityInv ==
    /\ CapacityRespected
    /\ \A w \in Workers :
          /\ pc[w] = "read_loads" => loads[req[w].slot] < SlotCapacity
          /\ pc[w] = "write_loads" => WithinBounds(seen[w])

LEMMA MovedWithinBounds ==
    ASSUME NEW load \in [Slots -> Nat], WithinBounds(load),
           NEW old \in Slots, NEW new \in Slots, load[new] < SlotCapacity
    PROVE  WithinBounds(Moved(load, old, new))
  <1>1. SlotCapacity \in Nat \ {0} /\ SeedLoad \in [Slots -> Nat]
    BY ConstantsAssumption, BookedIsNat DEF SeedLoad
  <1> QED
    BY <1>1 DEF WithinBounds, Moved

LEMMA CapacityStep ==
    ASSUME SingleProcess, TypeInv, LockInv, CapacityInv, [Next]_vars
    PROVE  CapacityInv'
  <1> USE DEF CapacityInv
  <1>0. SlotCapacity \in Nat \ {0} /\ SeedLoad \in [Slots -> Nat]
    BY ConstantsAssumption, BookedIsNat DEF SeedLoad
  <1>1. ASSUME NEW w \in Workers, SeedLoads(w) \/ WriteLoads(w)
        PROVE  CapacityInv'
    <2>1. WithinBounds(loads')
      BY <1>0, <1>1 DEF SeedLoads, WriteLoads, Goto, WithinBounds
    <2>2. CapacityRespected'
      BY <2>1 DEF CapacityRespected, WithinBounds, SeedLoad
    <2>3. pc[w] \in Holding /\ pc'[w] \notin {"read_loads", "write_loads"}
      BY <1>1 DEF SeedLoads, WriteLoads, Goto, TypeInv, TypeOK, Holding, KVSteps, Seeding, Judging
    <2>4. ASSUME NEW v \in Workers
          PROVE  pc'[v] \notin {"read_loads", "write_loads"}
      <3>1. v # w => pc'[v] = pc[v]
        BY <1>1 DEF SeedLoads, WriteLoads, Goto, TypeInv, TypeOK
      <3>2. v # w => pc[v] \notin Holding
        BY <2>3, OneAtATime
      <3> QED
        BY <2>3, <3>1, <3>2 DEF Holding, KVSteps, Judging
    <2> QED
      BY <2>2, <2>4
  <1>2. ASSUME NEW w \in Workers, CheckCapacity(w)
        PROVE  CapacityInv'
    BY <1>2 DEF CheckCapacity, Goto, TypeInv, TypeOK, kv, CapacityRespected, WithinBounds, SeedLoad
  <1>3. ASSUME NEW w \in Workers, ReadLoads(w)
        PROVE  CapacityInv'
    <2>1. req[w].slot \in Slots /\ snap[w].slot \in Slots
      BY <1>3, RequestFields DEF ReadLoads, Goto, TypeInv, Shape, Committing, Order
    <2>2. loads[req[w].slot] < SlotCapacity /\ WithinBounds(loads)
      BY <1>3 DEF ReadLoads, Goto, CapacityRespected, WithinBounds
    <2>3. WithinBounds(Moved(loads, snap[w].slot, req[w].slot))
      BY <2>1, <2>2, MovedWithinBounds DEF TypeInv, TypeOK
    <2> QED
      BY <1>3, <2>3 DEF ReadLoads, Goto, TypeInv, TypeOK, kv, CapacityRespected, WithinBounds, SeedLoad
  <1>4. ASSUME loads' = loads,
               \A v \in Workers : pc'[v] \in {"read_loads", "write_loads"} =>
                  pc[v] = pc'[v] /\ req'[v] = req[v] /\ seen'[v] = seen[v]
        PROVE  CapacityInv'
    BY <1>4 DEF CapacityRespected, WithinBounds, SeedLoad
  <1>5. ASSUME NEW w \in Workers, NEW r \in Requests, Call(w, r)
        PROVE  CapacityInv'
    BY <1>4, <1>5 DEF Call, Goto, TypeInv, TypeOK, kv
  <1>6. ASSUME NEW w \in Workers,
               GetStore(w) \/ ReadIdem(w) \/ Load(w) \/ Acquire(w)
        PROVE  CapacityInv'
    BY <1>4, <1>6 DEF GetStore, ReadIdem, Load, Acquire, Goto, TypeInv, TypeOK, kv
  <1>7. ASSUME NEW w \in Workers, ReadOrder(w)
        PROVE  CapacityInv'
    BY <1>4, <1>7 DEF ReadOrder, Goto, TypeInv, TypeOK, kv
  <1>8. ASSUME NEW w \in Workers, WriteOrder(w) \/ Remember(w)
        PROVE  CapacityInv'
    BY <1>4, <1>8 DEF WriteOrder, Remember, Goto, TypeInv, TypeOK
  <1>9. ASSUME NEW w \in Workers, NEW o \in Ids, SeedOrder(w, o)
        PROVE  CapacityInv'
    BY <1>4, <1>9 DEF SeedOrder, TypeInv, TypeOK
  <1>10. ASSUME NEW w \in Workers, Reply(w) \/ Raise(w)
         PROVE  CapacityInv'
    BY <1>4, <1>10 DEF Reply, Raise, Finish, kv
  <1>11. ASSUME NEW i \in Instances, Crash(i)
         PROVE  CapacityInv'
    BY <1>4, <1>11 DEF Crash, Finish, kv
  <1>12. CASE Midnight \/ UNCHANGED vars
    BY <1>4, <1>12 DEF Midnight, vars, local, kv
  <1> QED
    BY <1>1, <1>2, <1>3, <1>5, <1>6, <1>7, <1>8, <1>9, <1>10, <1>11, <1>12 DEF Next, Serve

LEMMA CapacityInit == Init => CapacityInv
  <1>1. SlotCapacity \in Nat \ {0} /\ SeedLoad \in [Slots -> Nat]
    BY ConstantsAssumption, BookedIsNat DEF SeedLoad
  <1> QED
    BY <1>1 DEF Init, CapacityInv, CapacityRespected, NoLoad

(* With one process, whatever fails or is killed, no slot is ever loaded     *)
(* past its capacity (beyond what the fixtures put there).                   *)
THEOREM CapacityHolds == ASSUME SingleProcess PROVE Spec => []CapacityRespected
  <1>1. Init => CapacityInv
    BY CapacityInit
  <1>2. TypeInv /\ LockInv /\ CapacityInv /\ [Next]_vars => CapacityInv'
    BY CapacityStep
  <1>3. CapacityInv => CapacityRespected
    BY DEF CapacityInv
  <1> QED
    BY <1>1, <1>2, <1>3, LockGuardsProcess, PTL DEF Spec
-----------------------------------------------------------------------------
(* A key under way is not remembered yet, and a key that was applied is       *)
(* remembered, or its thread is about to remember it.                         *)
OnceInv ==
    /\ \A w \in Workers : pc[w] \in Judging \cup {"read"} => idem[req[w].key] = NoAnswer
    /\ \A k \in Keys :
          /\ applied[k] <= 1
          /\ applied[k] = 1 => \/ idem[k] # NoAnswer
                              \/ \E w \in Workers : pc[w] = "remember" /\ req[w].key = k

(* No request dies between writing the order and remembering the answer.      *)
CommitsComplete == "remember" \notin FaultPoints /\ MaxCrashes = 0

LEMMA OnceStep ==
    ASSUME SingleProcess, CommitsComplete, TypeInv, LockInv, OnceInv, [Next]_vars
    PROVE  OnceInv'
  <1> USE DEF OnceInv
  <1>1. ASSUME idem' = idem, applied' = applied,
               \A v \in Workers : pc'[v] \in Judging \cup {"read"} =>
                  /\ req'[v] = req[v]
                  /\ pc[v] \in Judging \cup {"read"} \/ idem[req[v].key] = NoAnswer,
               \A v \in Workers : pc[v] = "remember" => pc'[v] = "remember" /\ req'[v] = req[v]
        PROVE  OnceInv'
    BY <1>1
  <1>2. ASSUME NEW w \in Workers, WriteOrder(w)
        PROVE  OnceInv'
    <2> DEFINE k == req[w].key
    <2>1. k \in Keys /\ pc[w] = "write_order" /\ idem[k] = NoAnswer
      BY <1>2, RequestFields DEF WriteOrder, Goto, TypeInv, Shape, Judging
    <2>2. ASSUME NEW v \in Workers, pc[v] = "remember" PROVE FALSE
      <3>1. v = w
        BY <2>1, <2>2, OneAtATime DEF Holding, KVSteps, Judging
      <3> QED
        BY <2>1, <2>2, <3>1
    <2>3. applied[k] = 0
      BY <2>1, <2>2 DEF TypeInv, TypeOK
    <2>4. pc'[w] = "remember" /\ req' = req /\ idem' = idem
      BY <1>2 DEF WriteOrder, Goto, TypeInv, TypeOK
    <2>5. applied' = [applied EXCEPT ![k] = 1]
      BY <1>2, <2>3 DEF WriteOrder
    <2>6. \A v \in Workers : pc'[v] \in Judging \cup {"read"} => pc[v] \in Judging \cup {"read"}
      BY <1>2, <2>1 DEF WriteOrder, Goto, Judging, TypeInv, TypeOK
    <2>7. \A j \in Keys : j # k => applied'[j] = applied[j]
      BY <2>5 DEF TypeInv, TypeOK
    <2>8. applied'[k] = 1
      BY <2>1, <2>5 DEF TypeInv, TypeOK
    <2> QED
      BY <2>1, <2>2, <2>4, <2>6, <2>7, <2>8
  <1>3. ASSUME NEW w \in Workers, Remember(w)
        PROVE  OnceInv'
    <2>1. req[w].key \in Keys /\ ans[w] # NoAnswer
      BY <1>3, RequestFields, ConstantsAssumption DEF Remember, Goto, TypeInv, Shape
    <2>2. ASSUME NEW v \in Workers, pc'[v] \in Judging \cup {"read"} PROVE FALSE
      <3>1. pc[v] = pc'[v] /\ v # w
        BY <1>3, <2>2 DEF Remember, Goto, Judging, TypeInv, TypeOK
      <3> QED
        BY <1>3, <2>2, <3>1, OneAtATime DEF Remember, Goto, Holding, KVSteps, Judging
    <2>3. /\ idem' = [idem EXCEPT ![req[w].key] = ans[w]]
          /\ req' = req /\ applied' = applied
          /\ \A v \in Workers : v # w => pc'[v] = pc[v]
      BY <1>3 DEF Remember, Goto, TypeInv, TypeOK
    <2> QED
      BY <2>1, <2>2, <2>3 DEF TypeInv, TypeOK
  <1>4. ASSUME NEW w \in Workers, NEW r \in Requests, Call(w, r)
        PROVE  OnceInv'
    BY <1>1, <1>4 DEF Call, Goto, TypeInv, TypeOK, kv, Judging
  <1>5. ASSUME NEW w \in Workers, GetStore(w) \/ SeedLoads(w) \/ Load(w) \/ Acquire(w)
        PROVE  OnceInv'
    BY <1>1, <1>5 DEF GetStore, SeedLoads, Load, Acquire, Goto, TypeInv, TypeOK, kv, Judging
  <1>6. ASSUME NEW w \in Workers, NEW o \in Ids, SeedOrder(w, o)
        PROVE  OnceInv'
    BY <1>1, <1>6 DEF SeedOrder, TypeInv, TypeOK, Judging
  <1>7. ASSUME NEW w \in Workers, ReadIdem(w)
        PROVE  OnceInv'
    BY <1>1, <1>7 DEF ReadIdem, Goto, TypeInv, TypeOK, kv, Judging
  <1>8. ASSUME NEW w \in Workers,
               ReadOrder(w) \/ CheckCapacity(w) \/ ReadLoads(w) \/ WriteLoads(w)
        PROVE  OnceInv'
    <2>1. pc[w] \in Judging \cup {"read"} /\ pc[w] # "remember"
      BY <1>8 DEF ReadOrder, CheckCapacity, ReadLoads, WriteLoads, Goto, Judging
    <2>2. /\ idem' = idem /\ applied' = applied /\ req' = req
          /\ \A v \in Workers : v # w => pc'[v] = pc[v]
      BY <1>8 DEF ReadOrder, CheckCapacity, ReadLoads, WriteLoads, Goto, TypeInv, TypeOK, kv
    <2> QED
      BY <1>1, <2>1, <2>2
  <1>9. ASSUME NEW w \in Workers, Reply(w) \/ Raise(w)
        PROVE  OnceInv'
    BY <1>1, <1>9 DEF Reply, Raise, Finish, kv, Judging, CommitsComplete
  <1>10. ASSUME NEW i \in Instances, Crash(i)
         PROVE  OnceInv'
    BY <1>10 DEF Crash, CommitsComplete, TypeInv, TypeOK
  <1>11. CASE Midnight \/ UNCHANGED vars
    BY <1>1, <1>11 DEF Midnight, vars, local, kv
  <1> QED
    BY <1>2, <1>3, <1>4, <1>5, <1>6, <1>7, <1>8, <1>9, <1>10, <1>11 DEF Next, Serve

(* With one process, and no request dying inside its commit, an idempotency  *)
(* key is applied at most once, however its requests are repeated and        *)
(* interleaved and whichever other steps fail.                               *)
THEOREM AtMostOnceHolds ==
    ASSUME SingleProcess, CommitsComplete PROVE Spec => []AtMostOncePerKey
  <1>1. Init => OnceInv
    BY DEF Init, OnceInv, Judging
  <1>2. TypeInv /\ LockInv /\ OnceInv /\ [Next]_vars => OnceInv'
    BY OnceStep
  <1>3. OnceInv => AtMostOncePerKey
    BY DEF OnceInv, AtMostOncePerKey
  <1> QED
    BY <1>1, <1>2, <1>3, LockGuardsProcess, PTL DEF Spec
-----------------------------------------------------------------------------
(* What a thread has found unanswered stays unanswered while it holds the lock. *)
FreshInv == \A w \in Workers : pc[w] \in Judging \cup {"read"} => idem[req[w].key] = NoAnswer

LEMMA FreshStep ==
    ASSUME SingleProcess, TypeInv, LockInv, FreshInv, [Next]_vars
    PROVE  FreshInv' /\ \A k \in Keys : idem[k] # NoAnswer => idem'[k] = idem[k]
  <1> USE DEF FreshInv
  <1>1. ASSUME idem' = idem,
               \A v \in Workers : pc'[v] \in Judging \cup {"read"} =>
                  /\ req'[v] = req[v]
                  /\ pc[v] \in Judging \cup {"read"} \/ idem[req[v].key] = NoAnswer
        PROVE  FreshInv' /\ \A k \in Keys : idem[k] # NoAnswer => idem'[k] = idem[k]
    BY <1>1
  <1>2. ASSUME NEW w \in Workers, Remember(w)
        PROVE  FreshInv' /\ \A k \in Keys : idem[k] # NoAnswer => idem'[k] = idem[k]
    <2>1. pc[w] = "remember" /\ idem[req[w].key] = NoAnswer
      BY <1>2 DEF Remember, Goto, Judging
    <2>2. idem' = [idem EXCEPT ![req[w].key] = ans[w]]
      BY <1>2 DEF Remember
    <2>3. ASSUME NEW v \in Workers, pc'[v] \in Judging \cup {"read"} PROVE FALSE
      <3>1. pc[v] = pc'[v] /\ v # w
        BY <1>2, <2>3 DEF Remember, Goto, Judging, TypeInv, TypeOK
      <3> QED
        BY <2>1, <2>3, <3>1, OneAtATime DEF Holding, KVSteps, Judging
    <2> QED
      BY <2>1, <2>2, <2>3 DEF TypeInv, TypeOK
  <1>3. ASSUME NEW w \in Workers, NEW r \in Requests, Call(w, r)
        PROVE  FreshInv' /\ \A k \in Keys : idem[k] # NoAnswer => idem'[k] = idem[k]
    BY <1>1, <1>3 DEF Call, Goto, TypeInv, TypeOK, kv, Judging
  <1>4. ASSUME NEW w \in Workers,
               GetStore(w) \/ SeedLoads(w) \/ Load(w) \/ Acquire(w) \/ ReadIdem(w)
        PROVE  FreshInv' /\ \A k \in Keys : idem[k] # NoAnswer => idem'[k] = idem[k]
    BY <1>1, <1>4 DEF GetStore, SeedLoads, Load, Acquire, ReadIdem, Goto, TypeInv, TypeOK, kv, Judging
  <1>5. ASSUME NEW w \in Workers, NEW o \in Ids, SeedOrder(w, o)
        PROVE  FreshInv' /\ \A k \in Keys : idem[k] # NoAnswer => idem'[k] = idem[k]
    BY <1>1, <1>5 DEF SeedOrder, TypeInv, TypeOK, Judging
  <1>6. ASSUME NEW w \in Workers,
               \/ ReadOrder(w) \/ CheckCapacity(w) \/ ReadLoads(w) \/ WriteLoads(w)
               \/ WriteOrder(w)
        PROVE  FreshInv' /\ \A k \in Keys : idem[k] # NoAnswer => idem'[k] = idem[k]
    <2>1. pc[w] \in Judging \cup {"read"}
      BY <1>6 DEF ReadOrder, CheckCapacity, ReadLoads, WriteLoads, WriteOrder, Goto, Judging
    <2>2. /\ idem' = idem /\ req' = req
          /\ \A v \in Workers : v # w => pc'[v] = pc[v]
      BY <1>6 DEF ReadOrder, CheckCapacity, ReadLoads, WriteLoads, WriteOrder, Goto, TypeInv,
                  TypeOK, kv
    <2> QED
      BY <1>1, <2>1, <2>2
  <1>7. ASSUME NEW w \in Workers, Reply(w) \/ Raise(w)
        PROVE  FreshInv' /\ \A k \in Keys : idem[k] # NoAnswer => idem'[k] = idem[k]
    BY <1>1, <1>7 DEF Reply, Raise, Finish, kv, Judging
  <1>8. ASSUME NEW i \in Instances, Crash(i)
        PROVE  FreshInv' /\ \A k \in Keys : idem[k] # NoAnswer => idem'[k] = idem[k]
    BY <1>1, <1>8 DEF Crash, Finish, kv, Judging
  <1>9. CASE Midnight \/ UNCHANGED vars
    BY <1>1, <1>9 DEF Midnight, vars, local, kv
  <1> QED
    BY <1>2, <1>3, <1>4, <1>5, <1>6, <1>7, <1>8, <1>9 DEF Next, Serve

(* With one process, an answer once remembered is never replaced, through    *)
(* failures and crashes at any step.                                        *)
THEOREM AnswersFinal == ASSUME SingleProcess PROVE Spec => AnswersAreFinal
  <1>1. Init => FreshInv
    BY DEF Init, FreshInv, Judging
  <1>2. TypeInv /\ LockInv /\ FreshInv /\ [Next]_vars => FreshInv'
    BY FreshStep
  <1>3. TypeInv /\ LockInv /\ FreshInv /\ [Next]_vars
           => [\A k \in Keys : idem[k] # NoAnswer => idem'[k] = idem[k]]_vars
    BY FreshStep
  <1> QED
    BY <1>1, <1>2, <1>3, LockGuardsProcess, PTL DEF Spec, AnswersAreFinal
-----------------------------------------------------------------------------
(* With one process that is up, and commits that are not cut short, the     *)
(* store keeps its books: loads count orders, no slot is promised too often, *)
(* and every request amounts to one decision of the abstract order book.    *)
(* The hypotheses are needed: a second process has a lock of its own, a      *)
(* container that comes up writes the fixtures again, and a death between    *)
(* the writes of a commit leaves the load of an order that never moved.     *)
WholeCommits == /\ WarmAtStart = Instances /\ Instances # {}
                /\ FaultPoints \cap {"write_order", "remember"} = {}
                /\ MaxCrashes = 0

Counted(load, book) == \A s \in Slots : load[s] = Booked(book, s)

(* The day on which a request was judged is today, or midnight has passed. *)
Up == /\ \A i \in Instances : store[i]
      /\ \A w \in Workers : pc[w] \notin {"load"} \cup Seeding

Room(r) == r.op = "reschedule" => Booked(orders, r.slot) < SlotCapacity

Refusal(r, o, a, day) ==
    \/ Verdict(r, o, day) # "OK" /\ a = Refused(r, o, Verdict(r, o, day))
    \/ Verdict(r, o, day) = "OK" /\ ~Room(r) /\ a = Refused(r, o, "SLOT_FULL")

(* What a thread knows of the order it judges, at each step to the commit. *)
Settled(w) ==
    LET r == req[w]
        o == orders[req[w].id]
    IN  /\ pc[w] \in Judging => asked[w] \in {today - 1, today}
        /\ pc[w] \in {"capacity", "read_loads", "write_loads"} =>
              snap[w] = o /\ Verdict(r, o, asked[w]) = "OK"
        /\ pc[w] \in {"read_loads", "write_loads", "write_order"} => Room(r)
        /\ pc[w] = "write_loads" => seen[w] = Moved(loads, o.slot, r.slot)
        /\ pc[w] = "write_order" =>
              /\ Verdict(r, o, asked[w]) = "OK"
              /\ snap[w] = Mutated(r, o)
              /\ Counted(loads, [orders EXCEPT ![r.id] = snap[w]])
        /\ pc[w] = "remember" /\ ans[w].code # "OK" => Refusal(r, o, ans[w], asked[w])

BookInv ==
    /\ Up
    /\ NotOverbooked
    /\ (\A w \in Workers : pc[w] # "write_order") => Counted(loads, orders)
    /\ \A w \in Workers : Settled(w)
-----------------------------------------------------------------------------
(* Counting follows one order from its slot to another. *)
LEMMA BookedMoves ==
    ASSUME NEW book \in [Ids -> Order \cup {NoOrder}], NEW i \in Ids, book[i] \in Order,
           NEW o \in Order, NEW s \in Slots
    PROVE  LET after == Booked([book EXCEPT ![i] = o], s)
               before == Booked(book, s)
           IN  /\ book[i].slot = s => before > 0
               /\ book[i].slot = o.slot => after = before
               /\ book[i].slot # s /\ o.slot # s => after = before
               /\ book[i].slot = s /\ o.slot # s => after = before - 1
               /\ book[i].slot # s /\ o.slot = s => after = before + 1
  <1> DEFINE B == {x \in Ids : book[x] # NoOrder /\ book[x].slot = s}
             new == [book EXCEPT ![i] = o]
             A == {x \in Ids : new[x] # NoOrder /\ new[x].slot = s}
  <1>0. book[i] # NoOrder /\ o # NoOrder
    BY ConstantsAssumption
  <1>1. IsFiniteSet(B) /\ IsFiniteSet(A)
    BY ConstantsAssumption, FS_Subset
  <1>2. Cardinality(B) \in Nat
    BY <1>1, FS_CardinalityType
  <1>3. new[i] = o /\ \A x \in Ids : x # i => new[x] = book[x]
    OBVIOUS
  <1>4. ASSUME book[i].slot = s PROVE i \in B /\ Cardinality(B \ {i}) = Cardinality(B) - 1
    BY <1>0, <1>1, <1>4, FS_RemoveElement
  <1>5. ASSUME book[i].slot = s PROVE Cardinality(B) > 0
    <2>1. Cardinality(B \ {i}) \in Nat
      BY <1>1, FS_RemoveElement, FS_CardinalityType
    <2> QED
      BY <1>2, <1>4, <1>5, <2>1
  <1>6. ASSUME book[i].slot # s, o.slot # s PROVE A = B
    BY <1>0, <1>3, <1>6
  <1>7. ASSUME book[i].slot = s, o.slot = s PROVE A = B
    BY <1>0, <1>3, <1>7
  <1>8. ASSUME book[i].slot = s, o.slot # s PROVE A = B \ {i}
    BY <1>0, <1>3, <1>8
  <1>9. ASSUME book[i].slot # s, o.slot = s PROVE A = B \cup {i} /\ i \notin B
    BY <1>0, <1>3, <1>9
  <1>10. ASSUME book[i].slot # s, o.slot = s PROVE Cardinality(A) = Cardinality(B) + 1
    BY <1>1, <1>9, <1>10, FS_AddElement
  <1>11. Booked(book, s) = Cardinality(B) /\ Booked(new, s) = Cardinality(A)
    BY DEF Booked
  <1> HIDE DEF A, B, new
  <1>12. new = [book EXCEPT ![i] = o]
    BY DEF new
  <1> QED
    BY <1>4, <1>5, <1>6, <1>7, <1>8, <1>10, <1>11, <1>12

(* A load table that counts the orders still counts them after Moved. *)
LEMMA MovedCounts ==
    ASSUME NEW book \in [Ids -> Order \cup {NoOrder}], NEW i \in Ids, book[i] \in Order,
           NEW o \in Order, NEW load \in [Slots -> Nat], Counted(load, book)
    PROVE  Counted(Moved(load, book[i].slot, o.slot), [book EXCEPT ![i] = o])
  <1>1. book[i].slot \in Slots /\ o.slot \in Slots
    BY DEF Order
  <1>2. ASSUME NEW s \in Slots
        PROVE  Moved(load, book[i].slot, o.slot)[s] = Booked([book EXCEPT ![i] = o], s)
    <2> DEFINE old == book[i].slot
               before == Booked(book, s)
               after == Booked([book EXCEPT ![i] = o], s)
    <2>1. load[s] = before /\ load[s] \in Nat
      BY DEF Counted
    <2>2. /\ old = s => before > 0
          /\ old = o.slot => after = before
          /\ old # s /\ o.slot # s => after = before
          /\ old = s /\ o.slot # s => after = before - 1
          /\ old # s /\ o.slot = s => after = before + 1
      BY BookedMoves
    <2> HIDE DEF old, before, after
    <2>3. old \in Slots /\ o.slot \in Slots
      BY <1>1 DEF old
    <2>4. Moved(load, old, o.slot)[s] = after
      BY <2>1, <2>2, <2>3 DEF Moved
    <2> QED
      BY <2>4 DEF old, after
  <1> QED
    BY <1>2 DEF Counted

(* An order that keeps its slot changes no count. *)
LEMMA SameSlotCounts ==
    ASSUME NEW book \in [Ids -> Order \cup {NoOrder}], NEW i \in Ids, book[i] \in Order,
           NEW o \in Order, o.slot = book[i].slot, NEW load, Counted(load, book)
    PROVE  Counted(load, [book EXCEPT ![i] = o])
  <1>1. ASSUME NEW s \in Slots PROVE Booked([book EXCEPT ![i] = o], s) = Booked(book, s)
    BY BookedMoves
  <1> QED
    BY <1>1 DEF Counted
-----------------------------------------------------------------------------
LEMMA BookedType ==
    /\ SlotCapacity \in Nat \ {0}
    /\ SeedLoad \in [Slots -> Nat]
    /\ \A book, s : Booked(book, s) \in Nat
  BY ConstantsAssumption, BookedIsNat DEF SeedLoad

(* A step that leaves the books and everything about the judging threads     *)
(* alone keeps the invariant.                                               *)
LEMMA BooksUntouched ==
    ASSUME TypeInv, BookInv, UNCHANGED kv, today' = today, Up',
           NEW w \in Workers, pc'[w] \notin Judging, pc[w] # "write_order",
           \A v \in Workers : v # w =>
              /\ pc'[v] = pc[v] /\ req'[v] = req[v] /\ snap'[v] = snap[v]
              /\ seen'[v] = seen[v] /\ ans'[v] = ans[v] /\ asked'[v] = asked[v]
    PROVE  BookInv'
  <1>1. NotOverbooked'
    BY DEF BookInv, NotOverbooked, kv, Booked, SeedLoad
  <1>2. (\A v \in Workers : pc'[v] # "write_order") => Counted(loads', orders')
    BY DEF BookInv, kv
  <1>3. ASSUME NEW v \in Workers PROVE Settled(v)'
    <2>1. CASE v = w
      BY <2>1 DEF Settled, Judging
    <2>2. CASE v # w
      BY <2>2 DEF BookInv, Settled, kv, Room, Refusal
    <2> QED
      BY <2>1, <2>2
  <1> QED
    BY <1>1, <1>2, <1>3 DEF BookInv

(* A thread takes a step inside the lock: nobody else is judging.            *)
LEMMA OthersIdle ==
    ASSUME SingleProcess, TypeInv, LockInv, NEW w \in Workers, pc[w] \in Holding,
           \A v \in Workers : v # w => pc'[v] = pc[v],
           Settled(w)'
    PROVE  \A v \in Workers : Settled(v)' /\ (v # w => pc'[v] \notin Judging)
  <1>1. ASSUME NEW v \in Workers, v # w PROVE pc[v] \notin Judging
    BY <1>1, OneAtATime DEF Holding, KVSteps
  <1> QED
    BY <1>1 DEF Settled, Judging

LEMMA JudgeKeepsBooks ==
    ASSUME SingleProcess, WholeCommits, TypeInv, LockInv, BookInv, NEW w \in Workers,
           \/ ReadOrder(w) \/ CheckCapacity(w) \/ ReadLoads(w) \/ WriteLoads(w)
    PROVE  BookInv'
  <1> USE DEF TypeInv, TypeOK
  <1>1. /\ pc[w] \in Holding /\ pc[w] # "write_order" /\ orders' = orders
        /\ req' = req /\ today' = today /\ store' = store
        /\ \A v \in Workers : v # w => pc'[v] = pc[v]
    BY DEF ReadOrder, CheckCapacity, ReadLoads, WriteLoads, Goto, Holding, KVSteps, Judging, kv
  <1>2. \A v \in Workers : v # w => pc[v] \notin Judging
    BY <1>1, OneAtATime DEF Holding, KVSteps
  <1>3. Counted(loads, orders)
    BY <1>1, <1>2 DEF BookInv, Judging
  <1>4. req[w] \in Requests /\ req[w].id \in Ids /\ orders[req[w].id] \in Order \cup {NoOrder}
    BY <1>1, RequestFields DEF Shape, Holding, KVSteps, Judging, Seeding
  <1>5. Settled(w)
    BY DEF BookInv
  <1> DEFINE r == req[w]
             o == orders[req[w].id]
  <1>6. ASSUME Settled(w)', pc'[w] \in Judging, loads' = loads \/ pc'[w] = "write_order"
        PROVE  BookInv'
    <2>1. \A v \in Workers : Settled(v)'
      BY <1>1, <1>6, OthersIdle
    <2>2. Up'
      BY <1>1, <1>6 DEF BookInv, Up, Judging, Seeding
    <2>3. NotOverbooked'
      BY <1>1 DEF BookInv, NotOverbooked, Booked, SeedLoad
    <2>4. (\A v \in Workers : pc'[v] # "write_order") => Counted(loads', orders')
      BY <1>1, <1>3, <1>6
    <2> QED
      BY <2>1, <2>2, <2>3, <2>4 DEF BookInv
  <1>7. CASE ReadOrder(w)
    <2>1. Settled(w)'
      <3>1. /\ snap'[w] = IF Verdict(r, o, today) = "OK" /\ r.op # "reschedule"
                          THEN Mutated(r, o) ELSE o
            /\ ans'[w] = IF Verdict(r, o, today) # "OK"
                         THEN Refused(r, o, Verdict(r, o, today)) ELSE NoAnswer
            /\ asked'[w] = today /\ today \in Int
            /\ pc'[w] = IF Verdict(r, o, today) # "OK" THEN "remember"
                        ELSE IF r.op = "reschedule" THEN "capacity" ELSE "write_order"
            /\ loads' = loads
        BY <1>7 DEF ReadOrder, Goto, kv
      <3>2. ASSUME Verdict(r, o, today) = "OK", r.op # "reschedule"
            PROVE  Counted(loads, [orders EXCEPT ![r.id] = Mutated(r, o)])
        <4>1. o \in Order
          BY <1>4, <3>1, <3>2, VerdictOK
        <4>2. Mutated(r, o) \in Order /\ Mutated(r, o).slot = o.slot
          BY <1>4, <3>2, <4>1, MutatedType DEF Mutated, Readdressed, Order
        <4> QED
          BY <1>3, <1>4, <4>1, <4>2, SameSlotCounts
      <3>3. ASSUME Verdict(r, o, today) # "OK"
            PROVE  Refusal(r, o, ans'[w], today)
        BY <3>1, <3>3 DEF Refusal
      <3> QED
        BY <1>1, <3>1, <3>2, <3>3 DEF Settled, Room, Refusal, Judging
    <2>2. loads' = loads /\ pc'[w] \in Judging
      BY <1>7 DEF ReadOrder, Goto, kv, Judging
    <2> QED
      BY <1>6, <2>1, <2>2
  <1>8. CASE CheckCapacity(w)
    <2>1. /\ pc[w] = "capacity" /\ loads' = loads /\ snap' = snap /\ asked' = asked
          /\ pc'[w] = IF loads[r.slot] < SlotCapacity THEN "read_loads" ELSE "remember"
          /\ ans'[w] = IF loads[r.slot] < SlotCapacity THEN NoAnswer
                       ELSE Refused(r, snap[w], "SLOT_FULL")
      BY <1>8 DEF CheckCapacity, Goto, kv
    <2>2. r.op = "reschedule" /\ r.slot \in Slots
      BY <1>4, <2>1, RequestFields DEF Shape, Committing
    <2>3. loads[r.slot] = Booked(orders, r.slot)
      BY <1>3, <2>2 DEF Counted
    <2>4. Settled(w)'
      BY <1>1, <1>5, <2>1, <2>2, <2>3 DEF Settled, Room, Refusal, Judging, Booked
    <2> QED
      BY <1>6, <2>1, <2>4 DEF Judging
  <1>9. CASE ReadLoads(w)
    <2>1. /\ pc[w] = "read_loads" /\ pc'[w] = "write_loads" /\ loads' = loads /\ snap' = snap
          /\ asked' = asked /\ seen'[w] = Moved(loads, snap[w].slot, r.slot)
      BY <1>9 DEF ReadLoads, Goto, kv
    <2>2. Settled(w)'
      BY <1>1, <1>5, <2>1 DEF Settled, Room, Judging, Booked
    <2> QED
      BY <1>6, <2>1, <2>2 DEF Judging
  <1>10. CASE WriteLoads(w)
    <2>1. /\ pc[w] = "write_loads" /\ pc'[w] = "write_order" /\ loads' = seen[w]
          /\ snap'[w] = Mutated(r, snap[w]) /\ asked' = asked
      BY <1>10 DEF WriteLoads, Goto
    <2>2. /\ snap[w] = o /\ o \in Order /\ seen[w] = Moved(loads, o.slot, r.slot)
          /\ r.op = "reschedule" /\ r.slot \in Slots
      BY <1>4, <1>5, <2>1, RequestFields DEF Settled, Shape, Committing
    <2>3. Mutated(r, o) \in Order /\ Mutated(r, o).slot = r.slot
      BY <1>4, <2>2, MutatedType, MutatedDoes
    <2>4. Counted(seen[w], [orders EXCEPT ![r.id] = Mutated(r, o)])
      <3> DEFINE m == Mutated(r, o)
      <3>1. /\ orders \in [Ids -> Order \cup {NoOrder}] /\ loads \in [Slots -> Nat]
            /\ r.id \in Ids /\ orders[r.id] \in Order /\ m \in Order
        BY <1>4, <2>2, <2>3
      <3> HIDE DEF m
      <3>2. Counted(Moved(loads, orders[r.id].slot, m.slot), [orders EXCEPT ![r.id] = m])
        BY <1>3, <3>1, MovedCounts
      <3> QED
        BY <2>2, <2>3, <3>2 DEF m
    <2>5. Settled(w)'
      BY <1>1, <1>5, <2>1, <2>2, <2>4 DEF Settled, Room, Judging, Booked
    <2> QED
      BY <1>6, <2>1, <2>5 DEF Judging
  <1> QED
    BY <1>7, <1>8, <1>9, <1>10

LEMMA BookStep ==
    ASSUME SingleProcess, WholeCommits, TypeInv, LockInv, CapacityInv, BookInv, [Next]_vars
    PROVE  BookInv'
  <1> USE DEF TypeInv, TypeOK
  <1>1. ASSUME NEW w \in Workers,
               ReadOrder(w) \/ CheckCapacity(w) \/ ReadLoads(w) \/ WriteLoads(w)
        PROVE  BookInv'
    BY <1>1, JudgeKeepsBooks
  <1>2. ASSUME NEW w \in Workers, WriteOrder(w)
        PROVE  BookInv'
    <2> DEFINE r == req[w]
    <2>1. /\ pc[w] = "write_order" /\ pc'[w] = "remember" /\ loads' = loads /\ req' = req
          /\ orders' = [orders EXCEPT ![r.id] = snap[w]] /\ ans'[w] = Accepted(r, snap[w])
          /\ asked' = asked /\ today' = today /\ store' = store
          /\ \A v \in Workers : v # w => pc'[v] = pc[v]
      BY <1>2 DEF WriteOrder, Goto
    <2>2. Counted(loads', orders')
      BY <2>1 DEF BookInv, Settled
    <2>3. NotOverbooked'
      <3>1. CapacityRespected /\ SeedLoad' = SeedLoad
        BY DEF CapacityInv, SeedLoad, Booked
      <3> QED
        BY <2>1, <2>2, <3>1 DEF NotOverbooked, CapacityRespected, Counted
    <2>4. Settled(w)'
      <3>1. asked'[w] \in {today' - 1, today'}
        BY <2>1 DEF BookInv, Settled, Judging
      <3>2. ans'[w].code = "OK"
        BY <2>1 DEF Accepted
      <3> QED
        BY <2>1, <3>1, <3>2 DEF Settled
    <2>5. \A v \in Workers : Settled(v)'
      BY <2>1, <2>4, OthersIdle DEF Holding, KVSteps, Judging
    <2>6. Up'
      BY <2>1 DEF BookInv, Up, Seeding
    <2> QED
      BY <2>2, <2>3, <2>5, <2>6 DEF BookInv
  <1>3. ASSUME NEW w \in Workers, Remember(w)
        PROVE  BookInv'
    <2>1. /\ pc[w] = "remember" /\ pc'[w] = "reply" /\ UNCHANGED <<orders, loads, today, store>>
          /\ \A v \in Workers : v # w => pc'[v] = pc[v]
      BY <1>3 DEF Remember, Goto
    <2>2. \A v \in Workers : pc[v] # "write_order"
      BY <2>1, OneAtATime DEF Holding, KVSteps, Judging
    <2>3. \A v \in Workers : Settled(v)'
      <3>1. Settled(w)'
        BY <2>1 DEF Settled, Judging
      <3> QED
        BY <2>1, <3>1, OthersIdle DEF Holding, KVSteps, Judging
    <2>4. NotOverbooked' /\ Counted(loads', orders')
      BY <2>1, <2>2 DEF BookInv, NotOverbooked, Counted, SeedLoad, Booked
    <2>5. Up'
      BY <2>1 DEF BookInv, Up, Seeding
    <2> QED
      BY <2>3, <2>4, <2>5 DEF BookInv
  <1>4. ASSUME NEW w \in Workers, (\E r \in Requests : Call(w, r)) \/ Acquire(w) \/ ReadIdem(w)
        PROVE  BookInv'
    <2>1. /\ pc[w] \in {"idle", "acquire", "idem"} /\ pc'[w] \in {"get_store", "idem", "read", "reply"}
          /\ UNCHANGED kv /\ today' = today /\ store' = store
          /\ \A v \in Workers : v # w =>
                /\ pc'[v] = pc[v] /\ req'[v] = req[v] /\ snap'[v] = snap[v]
                /\ seen'[v] = seen[v] /\ ans'[v] = ans[v] /\ asked'[v] = asked[v]
      BY <1>4 DEF Call, Acquire, ReadIdem, Goto, kv
    <2>2. Up'
      BY <2>1 DEF BookInv, Up, Seeding
    <2> QED
      BY <2>1, <2>2, BooksUntouched DEF Judging
  <1>5. ASSUME NEW w \in Workers, GetStore(w)
        PROVE  BookInv'
    <2>1. /\ pc[w] = "get_store" /\ pc'[w] = "acquire"
          /\ UNCHANGED kv /\ today' = today
          /\ \A i \in Instances : store'[i]
          /\ \A v \in Workers : v # w =>
                /\ pc'[v] = pc[v] /\ req'[v] = req[v] /\ snap'[v] = snap[v]
                /\ seen'[v] = seen[v] /\ ans'[v] = ans[v] /\ asked'[v] = asked[v]
      BY <1>5, StoreAssumption DEF GetStore, Goto, kv, BookInv, Up
    <2>2. Up'
      BY <2>1 DEF BookInv, Up, Seeding
    <2> QED
      BY <2>1, <2>2, BooksUntouched DEF Judging
  <1>6. ASSUME NEW w \in Workers, SeedLoads(w) \/ Load(w) \/ \E o \in Ids : SeedOrder(w, o)
        PROVE  FALSE
    BY <1>6 DEF SeedLoads, Load, SeedOrder, Goto, BookInv, Up, Seeding
  <1>7. ASSUME NEW w \in Workers, Reply(w) \/ Raise(w)
        PROVE  BookInv'
    <2>1. /\ pc[w] # "write_order" /\ pc'[w] = "idle"
          /\ UNCHANGED kv /\ today' = today /\ store' = store
          /\ \A v \in Workers : v # w =>
                /\ pc'[v] = pc[v] /\ req'[v] = req[v] /\ snap'[v] = snap[v]
                /\ seen'[v] = seen[v] /\ ans'[v] = ans[v] /\ asked'[v] = asked[v]
      BY <1>7 DEF Reply, Raise, Finish, WholeCommits
    <2>2. Up'
      BY <2>1 DEF BookInv, Up, Seeding
    <2> QED
      BY <2>1, <2>2, BooksUntouched DEF Judging
  <1>8. ASSUME NEW i \in Instances, Crash(i)
        PROVE  FALSE
    BY <1>8 DEF Crash, WholeCommits
  <1>9. CASE Midnight
    <2>1. /\ UNCHANGED <<kv, store, local>> /\ today' = today + 1
          /\ \A w \in Workers : pc[w] \in Judging => asked[w] = today
      BY <1>9 DEF Midnight
    <2>2. ASSUME NEW w \in Workers PROVE Settled(w)'
      <3>1. Settled(w)
        BY DEF BookInv
      <3>2. pc[w] \in Judging => asked[w] \in {today' - 1, today'}
        BY <2>1
      <3> QED
        BY <2>1, <3>1, <3>2 DEF Settled, kv, local, Room, Refusal
    <2> QED
      BY <2>1, <2>2 DEF BookInv, Up, NotOverbooked, Counted, SeedLoad, Booked, kv, local
  <1>10. CASE UNCHANGED vars
    <2>1. UNCHANGED <<kv, local, store, today>>
      BY <1>10 DEF vars
    <2>2. Up' /\ NotOverbooked'
      BY <2>1 DEF BookInv, Up, NotOverbooked, SeedLoad, Booked, kv, local
    <2>3. (\A w \in Workers : pc'[w] # "write_order") => Counted(loads', orders')
      BY <2>1 DEF BookInv, kv, local
    <2>4. ASSUME NEW w \in Workers PROVE Settled(w)'
      <3>1. Settled(w)
        BY DEF BookInv
      <3> QED
        BY <2>1, <3>1 DEF Settled, kv, local, Room, Refusal
    <2> QED
      BY <2>2, <2>3, <2>4 DEF BookInv
  <1> QED
    BY <1>1, <1>2, <1>3, <1>4, <1>5, <1>6, <1>7, <1>8, <1>9, <1>10 DEF Next, Serve
-----------------------------------------------------------------------------
LEMMA BookInitially == ASSUME WholeCommits PROVE Init => BookInv
  <1> SUFFICES ASSUME Init PROVE BookInv
    OBVIOUS
  <1>1. orders = Seed /\ loads = SeedLoad
    BY DEF Init, WholeCommits
  <1>2. Counted(loads, orders) /\ NotOverbooked
    BY <1>1, BookedType DEF Counted, SeedLoad, NotOverbooked
  <1>3. Up
    BY DEF Init, Up, WholeCommits, Seeding
  <1>4. \A w \in Workers : Settled(w)
    BY DEF Init, Settled, Judging
  <1> QED
    BY <1>2, <1>3, <1>4 DEF BookInv

StoreInv == TypeInv /\ LockInv /\ CapacityInv /\ FreshInv /\ BookInv

LEMMA StoreInvariant == ASSUME SingleProcess, WholeCommits PROVE Spec => []StoreInv
  <1>1. Init => CapacityInv /\ FreshInv /\ BookInv
    BY CapacityInit, BookInitially DEF Init, FreshInv, Judging
  <1>2. TypeInv /\ LockInv /\ CapacityInv /\ FreshInv /\ BookInv /\ [Next]_vars
           => (CapacityInv /\ FreshInv /\ BookInv)'
    BY CapacityStep, FreshStep, BookStep
  <1> QED
    BY <1>1, <1>2, LockGuardsProcess, PTL DEF Spec, StoreInv

(* Whenever no request is inside the store, the load of each slot is the     *)
(* number of orders promised for it.                                        *)
THEOREM LoadsMatch == ASSUME SingleProcess, WholeCommits PROVE Spec => []LoadsMatchOrders
  <1>1. StoreInv => LoadsMatchOrders
    BY DEF StoreInv, BookInv, LoadsMatchOrders, Quiet, Counted, Holding, KVSteps, Judging
  <1> QED
    BY <1>1, StoreInvariant, PTL

(* At every moment, also between the writes of a commit, no slot is promised *)
(* to more orders than it takes (beyond the fixtures).                       *)
THEOREM NeverOverbooked == ASSUME SingleProcess, WholeCommits PROVE Spec => []NotOverbooked
  <1>1. StoreInv => NotOverbooked
    BY DEF StoreInv, BookInv
  <1> QED
    BY <1>1, StoreInvariant, PTL
-----------------------------------------------------------------------------
(* Of the threads of one process, one at most has committed and not yet      *)
(* remembered; its answer is the one the book holds.                         *)
LEMMA Remembered ==
    ASSUME SingleProcess, LockInv, NEW k \in Keys
    PROVE  /\ \A w \in Workers : Committed(w, k) => answersNow[k] = ans[w]
           /\ (\A w \in Workers : ~Committed(w, k)) => answersNow[k] = idem[k]
  <1>1. \A v, w \in Workers : Committed(v, k) /\ Committed(w, k) => v = w
    BY OneAtATime DEF Committed, Holding, KVSteps, Judging
  <1> QED
    BY <1>1 DEF answersNow

LEMMA RememberedNext ==
    ASSUME SingleProcess, LockInv', NEW k \in Keys
    PROVE  /\ \A w \in Workers : Committed(w, k)' => answersNow'[k] = ans'[w]
           /\ (\A w \in Workers : ~Committed(w, k)') => answersNow'[k] = idem'[k]
  <1>1. \A v, w \in Workers : Committed(v, k)' /\ Committed(w, k)' => v = w
    BY StoreAssumption DEF SingleProcess, LockInv, Committed, Holding, KVSteps, Judging
  <1> QED
    BY <1>1 DEF answersNow

(* The answers of the book change only where a thread commits or remembers.  *)
LEMMA AnswersStay ==
    ASSUME SingleProcess, LockInv, LockInv', idem' = idem,
           \A v \in Workers : pc[v] = "remember" /\ ans[v].code = "OK" =>
              pc'[v] = "remember" /\ req'[v] = req[v] /\ ans'[v] = ans[v],
           \A v \in Workers : pc'[v] = "remember" /\ ans'[v].code = "OK" =>
              pc[v] = "remember" /\ req'[v] = req[v] /\ ans'[v] = ans[v]
    PROVE  answersNow' = answersNow
  <1>1. ASSUME NEW k \in Keys PROVE answersNow'[k] = answersNow[k]
    <2>1. \A v \in Workers : Committed(v, k)' <=> Committed(v, k)
      BY DEF Committed
    <2>2. \A v \in Workers : Committed(v, k) => ans'[v] = ans[v]
      BY DEF Committed
    <2> QED
      BY <2>1, <2>2, Remembered, RememberedNext
  <1> QED
    BY <1>1 DEF answersNow

(* The rules of the book, which the instance names anew, are the store's. *)
LEMMA SameRules ==
    /\ \A r, o, day : Book!Verdict(r, o, day) = Verdict(r, o, day)
    /\ \A r, o : Book!Mutated(r, o) = Mutated(r, o) /\ Book!Accepted(r, o) = Accepted(r, o)
    /\ \A r, o, code : Book!Refused(r, o, code) = Refused(r, o, code)
    /\ \A book, s : Book!Booked(book, s) = Booked(book, s)
  <1>1. \A r, o, day : Book!Verdict(r, o, day) = Verdict(r, o, day)
    BY DEF Verdict, RescheduleVerdict, AddressVerdict, IsMutable,
           Book!Verdict, Book!RescheduleVerdict, Book!AddressVerdict, Book!IsMutable
  <1>2. \A r, o : Book!Mutated(r, o) = Mutated(r, o) /\ Book!Accepted(r, o) = Accepted(r, o)
    BY DEF Mutated, Rescheduled, Readdressed, Accepted,
           Book!Mutated, Book!Rescheduled, Book!Readdressed, Book!Accepted
  <1>3. \A r, o, code : Book!Refused(r, o, code) = Refused(r, o, code)
    BY DEF Refused, Book!Refused
  <1>4. \A book, s : Book!Booked(book, s) = Booked(book, s)
    <2>1. \A S : Book!Cardinality(S) = Cardinality(S)
      BY DEF Cardinality, Book!Cardinality
    <2> QED
      BY <2>1 DEF Booked, Book!Booked
  <1> QED
    BY <1>1, <1>2, <1>3, <1>4

(* Writing the order accepts the request in the book. *)
LEMMA CommitAccepts ==
    ASSUME SingleProcess, StoreInv, LockInv', NEW w \in Workers, WriteOrder(w)
    PROVE  Book!Accept(req[w], asked[w])
  <1> USE DEF StoreInv, TypeInv, TypeOK
  <1> DEFINE r == req[w]
             o == orders[req[w].id]
  <1>1. /\ pc[w] = "write_order" /\ pc'[w] = "remember" /\ idem' = idem /\ req' = req
        /\ orders' = [orders EXCEPT ![r.id] = snap[w]] /\ today' = today
        /\ ans' = [ans EXCEPT ![w] = Accepted(r, snap[w])]
        /\ \A v \in Workers : v # w => pc'[v] = pc[v]
    BY DEF WriteOrder, Goto
  <1>2. r \in Requests /\ r.key \in Keys /\ r.id \in Ids
    BY <1>1, RequestFields DEF Shape
  <1>3. \A v \in Workers : pc[v] # "remember" /\ (v # w => pc'[v] # "remember")
    BY <1>1, OneAtATime DEF Holding, KVSteps, Judging
  <1>4. answersNow[r.key] = NoAnswer
    <2>1. idem[r.key] = NoAnswer
      BY <1>1 DEF FreshInv, Judging
    <2> QED
      BY <1>2, <1>3, <2>1, Remembered DEF Committed
  <1>5. Verdict(r, o, asked[w]) = "OK" /\ snap[w] = Mutated(r, o) /\ Room(r)
    BY <1>1 DEF BookInv, Settled
  <1>6. ~Book!SlotFull(r)
    <2>1. r.op = "reschedule" => /\ Booked(orders, r.slot) < SlotCapacity
                                 /\ Booked(orders, r.slot) \in Nat /\ SlotCapacity \in Nat
      BY <1>5, BookedType DEF Room
    <2> QED
      BY <2>1, SameRules DEF Book!SlotFull
  <1>7. orders' = [orders EXCEPT ![r.id] = Mutated(r, @)] /\ orders'[r.id] = snap[w]
    BY <1>1, <1>2, <1>5
  <1>8. answersNow' = [answersNow EXCEPT ![r.key] = Accepted(r, orders'[r.id])]
    <2>1. ans'[w] = Accepted(r, snap[w])
      BY <1>1
    <2>2. answersNow'[r.key] = Accepted(r, orders'[r.id])
      <3>1. ASSUME NEW k \in Keys, k = r.key PROVE answersNow'[k] = ans'[w]
        <4>1. Committed(w, k)'
          BY <1>1, <2>1, <3>1 DEF Committed, Accepted
        <4> QED
          BY <4>1, RememberedNext
      <3> QED
        BY <1>2, <1>7, <2>1, <3>1
    <2>3. ASSUME NEW k \in Keys, k # r.key PROVE answersNow'[k] = answersNow[k]
      <3>1. \A v \in Workers : ~Committed(v, k) /\ ~Committed(v, k)'
        BY <1>1, <1>3, <2>3 DEF Committed
      <3> QED
        BY <1>1, <3>1, Remembered, RememberedNext
    <2> QED
      BY <1>2, <2>2, <2>3 DEF answersNow
  <1> QED
    BY <1>1, <1>4, <1>5, <1>6, <1>7, <1>8, SameRules DEF Book!Accept

(* Remembering a refusal refuses the request in the book; remembering the    *)
(* answer of a commit changes nothing there.                                *)
LEMMA RememberDecides ==
    ASSUME SingleProcess, StoreInv, LockInv', NEW w \in Workers, Remember(w)
    PROVE  Book!Refuse(req[w], asked[w]) \/ UNCHANGED <<orders, answersNow, today>>
  <1> USE DEF StoreInv, TypeInv, TypeOK
  <1> DEFINE r == req[w]
             o == orders[req[w].id]
  <1>1. /\ pc[w] = "remember" /\ pc'[w] = "reply" /\ idem' = [idem EXCEPT ![r.key] = ans[w]]
        /\ orders' = orders /\ today' = today
        /\ \A v \in Workers : v # w => pc'[v] = pc[v]
    BY DEF Remember, Goto
  <1>2. r \in Requests /\ r.key \in Keys /\ ans[w] \in Answer /\ idem[r.key] = NoAnswer
    BY <1>1, RequestFields DEF Shape, FreshInv, Judging
  <1>3. \A v \in Workers : (v # w => pc[v] # "remember") /\ pc'[v] # "remember"
    BY <1>1, OneAtATime DEF Holding, KVSteps, Judging
  <1>4. \A k \in Keys : answersNow'[k] = idem'[k]
    BY <1>3, RememberedNext DEF Committed
  <1>5. \A k \in Keys : k # r.key => answersNow[k] = idem[k]
    BY <1>3, Remembered DEF Committed
  <1>6. CASE ans[w].code = "OK"
    <2>1. answersNow[r.key] = ans[w]
      BY <1>1, <1>2, <1>6, Remembered DEF Committed
    <2>2. \A k \in Keys : answersNow'[k] = answersNow[k]
      BY <1>1, <1>2, <1>4, <1>5, <2>1
    <2>3. answersNow' = answersNow
      BY <2>2 DEF answersNow
    <2> QED
      BY <1>1, <2>3
  <1>7. CASE ans[w].code # "OK"
    <2>1. answersNow[r.key] = NoAnswer
      BY <1>2, <1>3, <1>7, Remembered DEF Committed
    <2>2. answersNow' = [answersNow EXCEPT ![r.key] = ans[w]]
      <3>1. \A k \in Keys : answersNow'[k] = [answersNow EXCEPT ![r.key] = ans[w]][k]
        BY <1>1, <1>2, <1>4, <1>5 DEF answersNow
      <3> QED
        BY <3>1 DEF answersNow
    <2>3. Refusal(r, o, ans[w], asked[w])
      BY <1>1, <1>7 DEF BookInv, Settled
    <2>4. Verdict(r, o, asked[w]) = "OK" /\ ~Room(r) => Book!SlotFull(r)
      BY BookedType, SameRules DEF Room, Book!SlotFull
    <2> QED
      BY <1>1, <2>1, <2>2, <2>3, <2>4, SameRules DEF Refusal, Book!Refuse
  <1> QED
    BY <1>6, <1>7

LEMMA StoreStepIsBookStep ==
    ASSUME SingleProcess, WholeCommits, StoreInv, LockInv', [Next]_vars
    PROVE  [Book!BookNext]_(Book!bookVars)
  <1> USE DEF StoreInv, TypeInv, TypeOK
  <1> SUFFICES \/ \E r \in Requests, day \in {today - 1, today} : Book!Accept(r, day) \/ Book!Refuse(r, day)
               \/ Book!NextDay
               \/ UNCHANGED <<orders, answersNow, today>>
    BY DEF Book!BookNext, Book!bookVars
  <1>1. ASSUME NEW w \in Workers, WriteOrder(w) \/ Remember(w)
        PROVE  \/ \E r \in Requests, day \in {today - 1, today} : Book!Accept(r, day) \/ Book!Refuse(r, day)
               \/ UNCHANGED <<orders, answersNow, today>>
    <2>1. pc[w] \in {"write_order", "remember"}
      BY <1>1 DEF WriteOrder, Remember, Goto
    <2>2. req[w] \in Requests /\ asked[w] \in {today - 1, today}
      BY <2>1 DEF Shape, BookInv, Settled, Judging
    <2>3. CASE WriteOrder(w)
      BY <2>2, <2>3, CommitAccepts
    <2>4. CASE Remember(w)
      BY <2>2, <2>4, RememberDecides
    <2> QED
      BY <1>1, <2>3, <2>4
  <1>2. ASSUME NEW w \in Workers,
               \/ \E r \in Requests : Call(w, r)
               \/ GetStore(w) \/ Acquire(w) \/ ReadIdem(w) \/ ReadLoads(w) \/ WriteLoads(w)
        PROVE  UNCHANGED <<orders, answersNow, today>>
    <2>1. /\ pc[w] # "remember" /\ pc'[w] # "remember"
          /\ UNCHANGED <<orders, idem, today>>
          /\ \A v \in Workers : v # w => pc'[v] = pc[v] /\ req'[v] = req[v] /\ ans'[v] = ans[v]
      BY <1>2 DEF Call, GetStore, Acquire, ReadIdem, ReadLoads, WriteLoads, Goto, kv
    <2> QED
      BY <2>1, AnswersStay
  <1>3. ASSUME NEW w \in Workers, ReadOrder(w) \/ CheckCapacity(w)
        PROVE  UNCHANGED <<orders, answersNow, today>>
    <2>1. /\ pc[w] # "remember" /\ UNCHANGED <<orders, idem, today>>
          /\ \A v \in Workers : v # w => pc'[v] = pc[v] /\ req'[v] = req[v] /\ ans'[v] = ans[v]
      BY <1>3 DEF ReadOrder, CheckCapacity, Goto, kv
    <2>2. pc'[w] = "remember" => ans'[w].code # "OK"
      BY <1>3 DEF ReadOrder, CheckCapacity, Goto, Refused
    <2> QED
      BY <2>1, <2>2, AnswersStay
  <1>4. ASSUME NEW w \in Workers, Reply(w) \/ Raise(w)
        PROVE  UNCHANGED <<orders, answersNow, today>>
    <2>1. /\ pc[w] # "remember" /\ pc'[w] # "remember"
          /\ UNCHANGED <<orders, idem, today>>
          /\ \A v \in Workers : v # w => pc'[v] = pc[v] /\ req'[v] = req[v] /\ ans'[v] = ans[v]
      BY <1>4 DEF Reply, Raise, Finish, kv, WholeCommits
    <2> QED
      BY <2>1, AnswersStay
  <1>5. ASSUME NEW w \in Workers, SeedLoads(w) \/ Load(w) \/ \E o \in Ids : SeedOrder(w, o)
        PROVE  FALSE
    BY <1>5 DEF SeedLoads, Load, SeedOrder, Goto, BookInv, Up, Seeding
  <1>6. ASSUME NEW i \in Instances, Crash(i)
        PROVE  FALSE
    BY <1>6 DEF Crash, WholeCommits
  <1>7. CASE Midnight
    <2>1. UNCHANGED <<orders, idem, pc, req, ans>> /\ today' = today + 1
      BY <1>7 DEF Midnight, kv, local
    <2>2. answersNow' = answersNow
      BY <2>1, AnswersStay
    <2> QED
      BY <2>1, <2>2 DEF Book!NextDay
  <1>8. CASE UNCHANGED vars
    <2>1. UNCHANGED <<orders, idem, today, pc, req, ans>>
      BY <1>8 DEF vars, kv, local
    <2> QED
      BY <2>1, AnswersStay
  <1> QED
    BY <1>1, <1>2, <1>3, <1>4, <1>5, <1>6, <1>7, <1>8 DEF Next, Serve

LEMMA InitIsBookInit == ASSUME WholeCommits PROVE Init => Book!BookInit
  <1> SUFFICES ASSUME Init PROVE Book!BookInit
    OBVIOUS
  <1>1. orders = Seed /\ today = 0 /\ idem = [k \in Keys |-> NoAnswer]
    BY DEF Init, WholeCommits
  <1>2. \A k \in Keys, w \in Workers : ~Committed(w, k)
    BY DEF Init, Committed
  <1>3. answersNow = [k \in Keys |-> NoAnswer]
    BY <1>1, <1>2 DEF answersNow
  <1> QED
    BY <1>1, <1>3 DEF Book!BookInit

(* The storage accesses of all requests, however they interleave, fail before *)
(* their commit or are repeated, amount to one decision per key on the book. *)
THEOREM StoreImplementsBook ==
    ASSUME SingleProcess, WholeCommits PROVE Spec => ImplementsOrderBook
  <1>1. Init => Book!BookInit
    BY InitIsBookInit
  <1>2. StoreInv /\ StoreInv' /\ [Next]_vars => [Book!BookNext]_(Book!bookVars)
    BY StoreStepIsBookStep DEF StoreInv
  <1> QED
    BY <1>1, <1>2, StoreInvariant, PTL DEF Spec, ImplementsOrderBook, Book!BookSpec
=============================================================================
