--------------------------- MODULE OrderStoreBook ---------------------------
(***************************************************************************)
(* The store implements the order book.  A commit takes effect when the     *)
(* order is written; until the answer is remembered, the answer of the      *)
(* committing thread stands for the one the KV will hold.                   *)
(***************************************************************************)
EXTENDS OrderStore

Committed(w, k) == pc[w] = "remember" /\ req[w].key = k /\ ans[w].code = "OK"

answersNow ==
    [k \in Keys |-> IF \E w \in Workers : Committed(w, k)
                    THEN ans[CHOOSE w \in Workers : Committed(w, k)]
                    ELSE idem[k]]

Book == INSTANCE OrderBook WITH book <- orders, answers <- answersNow, today <- today

(* The separate reads and writes of a request, interleaved with those of     *)
(* other threads, amount to one decision per key on the whole book           *)
(* (store.py:147-238, 248-321).                                             *)
ImplementsOrderBook == Book!BookSpec
=============================================================================
