-------------------------- MODULE OrderRulesProofs --------------------------
(***************************************************************************)
(* Lemmas about the business rules, which the theorems about the order store *)
(* and about the gateway's writes rest on.                                   *)
(***************************************************************************)
EXTENDS OrderRules, TLAPS, FiniteSetTheorems

(* Requests carry what their operation needs. *)
LEMMA RequestFields ==
    ASSUME NEW r \in Requests
    PROVE  /\ r.key \in Keys /\ r.id \in Ids /\ r.op \in {"reschedule", "address"}
           /\ r.op = "reschedule" => r.slot \in Slots
           /\ r.op = "address" => r.address \in Addresses
  BY ConstantsAssumption DEF RescheduleRequest, AddressUpdateRequest

(* Counting the orders of a slot gives a number. *)
LEMMA BookedIsNat ==
    ASSUME NEW book, NEW s
    PROVE  Booked(book, s) \in Nat
  <1> DEFINE B == {o \in Ids : book[o] # NoOrder /\ book[o].slot = s}
  <1>1. IsFiniteSet(B)
    BY ConstantsAssumption, FS_Subset
  <1> QED
    BY <1>1, FS_CardinalityType DEF Booked

(* Moving an order in the load table keeps it a table of naturals. *)
LEMMA MovedType ==
    ASSUME NEW load \in [Slots -> Nat], NEW old \in Slots, NEW new \in Slots
    PROVE  Moved(load, old, new) \in [Slots -> Nat]
  BY DEF Moved

(* A rescheduled or readdressed order is an order, and only a reschedule     *)
(* adds to the count.                                                       *)
LEMMA MutatedType ==
    ASSUME NEW r \in Requests, NEW o \in Order
    PROVE  /\ Mutated(r, o) \in Order
           /\ r.op = "reschedule" => Mutated(r, o).count = o.count + 1
           /\ r.op # "reschedule" => Mutated(r, o).count = o.count
  <1>1. CASE r.op = "reschedule"
    <2>1. r.slot \in Slots
      BY <1>1, RequestFields
    <2>2. Mutated(r, o) = [status |-> o.status, slot |-> r.slot, count |-> o.count + 1,
                           address |-> o.address]
      BY <1>1 DEF Mutated, Rescheduled, Order
    <2> QED
      BY <1>1, <2>1, <2>2 DEF Order
  <1>2. CASE r.op = "address"
    <2>1. r.address \in Addresses
      BY <1>2, RequestFields
    <2> QED
      BY <1>2, <2>1 DEF Mutated, Readdressed, Order
  <1>3. r.op \in {"reschedule", "address"}
    BY RequestFields
  <1> QED
    BY <1>1, <1>2, <1>3

(* A request that no rule refuses is for an order the store has; if it is a  *)
(* reschedule, the order has a reschedule left.                             *)
LEMMA VerdictOK ==
    ASSUME NEW r \in Requests, NEW o \in Order \cup {NoOrder}, NEW day \in Int
    PROVE  /\ Verdict(r, o, day) \in RefusalCodes \cup {"OK"}
           /\ Verdict(r, o, day) = "OK" => o \in Order
           /\ Verdict(r, o, day) = "OK" /\ r.op = "reschedule" => o.count < MaxReschedules
  BY ConstantsAssumption
     DEF Verdict, RescheduleVerdict, AddressVerdict, RefusalCodes, Order

LEMMA AnswerTypes ==
    ASSUME NEW r \in Requests, NEW o \in Order \cup {NoOrder}
    PROVE  /\ Accepted(r, o) \in Answer
           /\ \A code \in RefusalCodes : Refused(r, o, code) \in Answer
  BY RequestFields DEF Accepted, Refused, Answer

(* A request that is accepted leaves the order with what it asked for. *)
LEMMA MutatedDoes ==
    ASSUME NEW r \in Requests, NEW o \in Order
    PROVE  IF r.op = "reschedule" THEN Mutated(r, o).slot = r.slot
                                  ELSE Mutated(r, o).address = r.address
  <1>1. CASE r.op = "reschedule"
    BY <1>1, RequestFields DEF Mutated, Rescheduled, Order
  <1>2. CASE r.op = "address"
    BY <1>2, RequestFields DEF Mutated, Readdressed, Order
  <1> QED
    BY <1>1, <1>2, RequestFields
=============================================================================
