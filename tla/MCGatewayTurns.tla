--------------------------- MODULE MCGatewayTurns ---------------------------
(***************************************************************************)
(* Small instances of the gateway's turns for TLC: one order, a call that may  *)
(* change it twice, and two utterances.  The first has an address around a     *)
(* pincode, with a rest that is too short to hide; two lines are made of it:   *)
(* one with words it had not, where a telephone number overlaps a shorter      *)
(* match, and one without the street.  The second has two numbers, a longer    *)
(* match that overlaps both and is listed after them, and an address.          *)
(***************************************************************************)
EXTENDS GatewayTurns

CONSTANTS oA, home, away, c1

MCCityOf == [a \in {home, away} |-> "Pune"]
MCDays == {0, 1}
Slot(d) == [date |-> d, window |-> "morning"]
MCSeed == [o \in {oA} |-> [status |-> "pending", slot |-> Slot(0), count |-> 0, address |-> home]]

MCWishes == {[op |-> "reschedule", id |-> oA, slot |-> Slot(0)],
             [op |-> "reschedule", id |-> oA, slot |-> Slot(1)],
             [op |-> "address", id |-> oA, address |-> away]}
MCKeys == [session : Sessions, intent : {"reschedule", "address"}, nonce : 1..MaxWrites]
MCRequests == {WithKey(w, k) : w \in MCWishes, k \in MCKeys}

Chars(codes) == [i \in 1..Len(codes) |-> Char(codes[i])]

Home == [text |-> Chars(<<1, 2, 7, 8, 3>>), hints |-> <<Span(1, 6, "ADDRESS")>>,
          found |-> <<Span(3, 5, "PINCODE")>>]
Numbers == [text |-> Chars(<<7, 8, 9, 5, 6, 4, 1, 1>>), hints |-> <<Span(7, 9, "ADDRESS")>>,
            found |-> <<Span(1, 3, "PHONE"), Span(4, 6, "PHONE"), Span(3, 7, "CARD")>>]
Merged == [text |-> Chars(<<1, 2, 3, 9, 7, 8, 6>>), hints |-> <<Span(1, 4, "ADDRESS")>>,
           found |-> <<Span(4, 7, "PHONE"), Span(6, 8, "PINCODE")>>]
Rest == [text |-> Chars(<<3, 7, 8>>), hints |-> <<Span(1, 4, "ADDRESS")>>,
         found |-> <<Span(2, 4, "PINCODE")>>]

MCUtterances == {Home, Numbers}
MCReadings == [u \in MCUtterances |-> IF u = Home THEN {Merged, Rest} ELSE {}]
=============================================================================
