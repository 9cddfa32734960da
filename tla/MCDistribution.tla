--------------------------- MODULE MCDistribution ---------------------------
(* Small instances of Distribution for TLC.                                *)
EXTENDS Distribution

(* Five recipients, in batches of two, with unequal shares.                *)
MCShare == [p \in 0 .. 4 |-> IF p % 2 = 1 THEN 2 ELSE 1]
=============================================================================
