------------------------------ MODULE MCPayout ------------------------------
(* Small instances of Payout for TLC.                                      *)
EXTENDS Payout, TLC

(* The mints other than WSOL are interchangeable.                          *)
MintSymmetry == Permutations(Mints \ {WSOL})
=============================================================================
