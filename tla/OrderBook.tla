----------------------------- MODULE OrderBook ------------------------------
(***************************************************************************)
(* What the order API promises its callers: a book of orders in which every *)
(* idempotency key is decided once, at one instant, by the rules.  The load *)
(* of a slot is not stored anywhere; it is the number of orders promised    *)
(* for it.                                                                  *)
(***************************************************************************)
EXTENDS OrderRules

VARIABLES book, answers, today

bookVars == <<book, answers, today>>

BookInit ==
    /\ book = Seed
    /\ answers = [k \in Keys |-> NoAnswer]
    /\ today = 0

SlotFull(r) == r.op = "reschedule" /\ Booked(book, r.slot) >= SlotCapacity

(* A key is decided by the date on which its request came in, which midnight *)
(* may have turned into yesterday by the time the decision stands.          *)
Accept(r, day) ==
    /\ answers[r.key] = NoAnswer
    /\ Verdict(r, book[r.id], day) = "OK"
    /\ ~SlotFull(r)
    /\ book' = [book EXCEPT ![r.id] = Mutated(r, @)]
    /\ answers' = [answers EXCEPT ![r.key] = Accepted(r, book'[r.id])]
    /\ UNCHANGED today

Refuse(r, day) ==
    LET rule == Verdict(r, book[r.id], day)
        code == IF rule = "OK" THEN "SLOT_FULL" ELSE rule
    IN  /\ answers[r.key] = NoAnswer
        /\ rule # "OK" \/ SlotFull(r)
        /\ answers' = [answers EXCEPT ![r.key] = Refused(r, book[r.id], code)]
        /\ UNCHANGED <<book, today>>

NextDay == today' = today + 1 /\ UNCHANGED <<book, answers>>

BookNext ==
    \/ \E r \in Requests, day \in {today - 1, today} : Accept(r, day) \/ Refuse(r, day)
    \/ NextDay

BookSpec == BookInit /\ [][BookNext]_bookVars
=============================================================================
