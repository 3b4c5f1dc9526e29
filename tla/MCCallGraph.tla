---------------------------- MODULE MCCallGraph -----------------------------
(***************************************************************************)
(* A caller with up to three orders, all of which can be read out at once,    *)
(* who names none, one or two of them.                                      *)
(***************************************************************************)
EXTENDS CallGraph, TLC

CONSTANTS a, b, c
ThreeOrders == {a, b, c}
Symmetry == Permutations(ThreeOrders)

Saying(sets, manner, says) == [names : sets, manner : {manner}, says : says]
One == kSubset(1, ThreeOrders)
Two == kSubset(2, ThreeOrders)

SmallTalk ==
    UNION {Saying({{}}, "named", {"nothing", "yes", "part", "slot", "street", "address"}),
           Saying(One, "named", {"slot"}), Saying(Two, "short", {"nothing"}),
           Saying(One, "ordinal", {"slot"}), Saying(One, "garbled", {"slot"}),
           Saying(Two, "garbled", {"nothing"}), Saying({{}}, "unsafe", {"slot"})}

(* Changes the patterns read in full, so that no answer of a model differs.   *)
SpelledOut == {u \in SmallTalk : u.says = "slot"}
=============================================================================
