---------------------------- MODULE MCOrderStore ----------------------------
(***************************************************************************)
(* Small instances of the order store for TLC.  Four slots on three days,   *)
(* of which one is a blackout day and one lies beyond the horizon from the  *)
(* first day; order oA may move, oB fills slot S1 to its capacity of one,   *)
(* oC is delivered, and oX is unknown to the fixtures.                      *)
(***************************************************************************)
EXTENDS OrderStoreBook, TLC

CONSTANTS oA, oB, oC, oX, home, away, remote, kA, kB, w1, w2, i1, i2

MCIds == {oA, oB, oC, oX}
MCDays == {0, 1, 2}
MCWindows == {"morning"}
MCAddresses == {home, away, remote}
MCCityOf == (home :> "Pune") @@ (away :> "Mumbai") @@ (remote :> "Aizawl")
MCNonServiceable == {remote}
MCBlackout == {2}

Slot(d) == [date |-> d, window |-> "morning"]
Fixture(status, day, count) ==
    [status |-> status, slot |-> Slot(day), count |-> count, address |-> home]

MCSeed == (oA :> Fixture("pending", 0, 0)) @@ (oB :> Fixture("out_for_delivery", 1, 1))
          @@ (oC :> Fixture("delivered", 0, 0)) @@ (oX :> NoOrder)

Move(k, o, d) == [op |-> "reschedule", key |-> k, id |-> o, slot |-> Slot(d)]
Readdress(k, o, a) == [op |-> "address", key |-> k, id |-> o, address |-> a]

(* Two keys; the requests of each compete for the same orders and slots. *)
MCRequests ==
    {Move(kA, oA, 1), Move(kA, oB, 0), Move(kA, oB, 1), Move(kB, oA, 0), Move(kB, oA, 2),
     Move(kB, oB, 2), Move(kB, oC, 1), Move(kA, oX, 1),
     Readdress(kB, oA, away), Readdress(kB, oB, away), Readdress(kA, oB, remote)}

(* Fewer requests where calls also fail and processes die and come back: a    *)
(* reschedule and an address change of one order, and one more order.         *)
FaultRequests == {Move(kA, oA, 1), Readdress(kB, oA, home)}
FaultIds == {oA, oB}
FaultSeed == [o \in FaultIds |-> MCSeed[o]]

(* The threads of one process are interchangeable. *)
Threads == Permutations({w1, w2})

OneInstance == {i1}
TwoInstances == {i1, i2}
OneProcess == (w1 :> i1) @@ (w2 :> i1)
TwoProcesses == (w1 :> i1) @@ (w2 :> i2)
=============================================================================
