------------------------------ MODULE UnitSums ------------------------------
(***************************************************************************)
(* Sums of token amounts, written as the number of units they are made of. *)
(*                                                                         *)
(* The program keeps running totals (EpochState.swapped_in,                *)
(* BucketState.paid_amount) and token balances that ought to be sums over  *)
(* accounts.  A sum over a set of accounts is stated here without          *)
(* recursion: an amount f[k] is the set of its units <<k, 1>> .. <<k,      *)
(* f[k]>>, and the sum of f is how many units there are.  What an update   *)
(* of one account does to the sum then follows from the library's facts on *)
(* cardinalities (module UnitSumsProofs), for every set of accounts.       *)
(***************************************************************************)
EXTENDS Naturals, FiniteSets

Units(f) == UNION {{k} \X (1 .. f[k]) : k \in DOMAIN f}

Total(f) == Cardinality(Units(f))
=============================================================================
