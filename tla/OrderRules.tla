----------------------------- MODULE OrderRules -----------------------------
(***************************************************************************)
(* The business rules of the order API, without any storage: what an order *)
(* is, when a request is refused and with which code, and what an accepted *)
(* request makes of the order.  The store (OrderStore) applies them one KV *)
(* access at a time; the order book (OrderBook) applies them at once.      *)
(*                                                                         *)
(* Dates are day numbers.  An address is a model value with a city.        *)
(***************************************************************************)
EXTENDS Integers, FiniteSets

CONSTANTS
    Ids,             \* order ids a caller may name, known to the seed or not
    Days,            \* delivery dates that occur
    Windows,         \* time-of-day windows
    Addresses,       \* addresses that occur
    CityOf,          \* the city of each address
    NonServiceable,  \* addresses whose pincode is not served
    Blackout,        \* days without delivery
    SlotCapacity,    \* orders one slot takes
    Horizon,         \* how many days ahead a reschedule may go
    MaxReschedules,  \* reschedules one order may have
    Keys,            \* idempotency keys
    Seed,            \* the fixture orders, by id
    Requests,        \* the mutation requests callers may send
    NoOrder, NoAnswer

OrderStatus == {"pending", "in_transit", "out_for_delivery", "delivered",
                "failed_attempt", "rto_initiated", "cancelled"}

Slots == [date : Days, window : Windows]

Order == [status : OrderStatus, slot : Slots, count : Nat, address : Addresses]

RefusalCodes == {"NOT_FOUND", "TERMINAL_STATE", "RESCHEDULE_LIMIT", "PAST_DATE",
                 "BEYOND_HORIZON", "BLACKOUT", "SLOT_FULL", "NON_SERVICEABLE",
                 "OUT_FOR_DELIVERY_CITY_CHANGE"}

(* A MutationResult: its code ("OK" or why not), and the order it carries. *)
Answer == [code : RefusalCodes \cup {"OK"}, id : Ids, order : Order \cup {NoOrder}]

RescheduleRequest == [op : {"reschedule"}, key : Keys, id : Ids, slot : Slots]
AddressUpdateRequest == [op : {"address"}, key : Keys, id : Ids, address : Addresses]

ASSUME ConstantsAssumption ==
    /\ IsFiniteSet(Ids)
    /\ Days \subseteq Int
    /\ Blackout \subseteq Days
    /\ NonServiceable \subseteq Addresses
    /\ DOMAIN CityOf = Addresses
    /\ SlotCapacity \in Nat \ {0}
    /\ Horizon \in Nat
    /\ MaxReschedules \in Nat
    /\ Requests \subseteq RescheduleRequest \cup AddressUpdateRequest
    /\ Seed \in [Ids -> Order \cup {NoOrder}]
    /\ \E o \in Ids : Seed[o] # NoOrder
    /\ \A o \in Ids : Seed[o] # NoOrder => Seed[o].count <= MaxReschedules
    /\ NoOrder \notin Order
    /\ NoAnswer \notin Answer
-----------------------------------------------------------------------------
IsMutable(o) == o.status \notin {"delivered", "cancelled", "rto_initiated"}

(* Mutant: lets an order have one reschedule too many. *)
RescheduleVerdictOffByOne(o, slot, today) ==
    IF o = NoOrder THEN "NOT_FOUND"
    ELSE IF ~IsMutable(o) THEN "TERMINAL_STATE"
    ELSE IF o.count > MaxReschedules THEN "RESCHEDULE_LIMIT"
    ELSE "OK"

(* The checks of reschedule that come before the capacity check, in order:  *)
(* the code of the first that refuses, "OK" when none does.                *)
RescheduleVerdict(o, slot, today) ==
    IF o = NoOrder THEN "NOT_FOUND"
    ELSE IF ~IsMutable(o) THEN "TERMINAL_STATE"
    ELSE IF o.count >= MaxReschedules THEN "RESCHEDULE_LIMIT"
    ELSE IF slot.date < today THEN "PAST_DATE"
    ELSE IF slot.date > today + Horizon THEN "BEYOND_HORIZON"
    ELSE IF slot.date \in Blackout THEN "BLACKOUT"
    ELSE "OK"

(* The checks of update_address, in order. *)
AddressVerdict(o, address) ==
    IF o = NoOrder THEN "NOT_FOUND"
    ELSE IF ~IsMutable(o) THEN "TERMINAL_STATE"
    ELSE IF address \in NonServiceable THEN "NON_SERVICEABLE"
    ELSE IF o.status = "out_for_delivery" /\ CityOf[address] # CityOf[o.address]
         THEN "OUT_FOR_DELIVERY_CITY_CHANGE"
    ELSE "OK"

Verdict(r, o, today) ==
    IF r.op = "reschedule" THEN RescheduleVerdict(o, r.slot, today)
                           ELSE AddressVerdict(o, r.address)

Rescheduled(o, slot) == [o EXCEPT !.slot = slot, !.count = @ + 1]
Readdressed(o, address) == [o EXCEPT !.address = address]

Mutated(r, o) == IF r.op = "reschedule" THEN Rescheduled(o, r.slot)
                                        ELSE Readdressed(o, r.address)

(* Mutant: the result of a commit says neither "OK" nor why not. *)
AcceptedWithoutCode(r, o) == [code |-> "", id |-> r.id, order |-> o]

Refused(r, o, code) == [code |-> code, id |-> r.id, order |-> o]
Accepted(r, o) == [code |-> "OK", id |-> r.id, order |-> o]

(* How many orders of a book are promised for a slot, whatever their state. *)
Booked(book, s) == Cardinality({o \in Ids : book[o] # NoOrder /\ book[o].slot = s})

(* Mutant: the old slot keeps its place. *)
MovedWithoutRelease(load, old, new) == [load EXCEPT ![new] = @ + 1]

(* The load table after an order leaves slot old for slot new. *)
Moved(load, old, new) ==
    LET freed == [load EXCEPT ![old] = IF @ > 0 THEN @ - 1 ELSE 0]
    IN  [freed EXCEPT ![new] = @ + 1]
=============================================================================
