--------------------------- MODULE MCPayoutRounds ---------------------------
(* Small instances of PayoutRounds for TLC.                                *)
EXTENDS PayoutRounds, TLC

(* The mints other than WSOL are interchangeable.                          *)
MintSymmetry == Permutations(Mints \ {WSOL})
=============================================================================
