----------------------------- MODULE MCIndexer -----------------------------
(* Small instances of Indexer for TLC.                                     *)
EXTENDS Indexer

CONSTANTS a, b, pool

Leg(w, d) == [wallet |-> w, delta |-> d]
Block(t, txs) == [ts |-> t, txs |-> txs]

(* The curve sells, holders trade, one transaction nets to nothing, one    *)
(* block is empty; two blocks share a time, and a time has no block.       *)
MCChains == {
  (0 :> Block(0, <<>>)) @@
  (1 :> Block(1, <<<<Leg(pool, -2), Leg(a, 2)>>>>)) @@
  (2 :> Block(2, <<<<Leg(a, -1), Leg(b, 1)>>, <<Leg(b, 1), Leg(b, -1)>>>>)) @@
  (3 :> Block(2, <<<<Leg(pool, -1), Leg(a, 1)>>>>)),
  (0 :> Block(0, <<>>)) @@
  (1 :> Block(0, <<<<Leg(pool, -3), Leg(a, 1), Leg(a, 2)>>>>)) @@
  (2 :> Block(1, <<<<Leg(a, -3), Leg(b, 3)>>, <<Leg(b, -1), Leg(a, 1)>>>>)) @@
  (3 :> Block(3, <<>>))}
=============================================================================
