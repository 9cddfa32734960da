------------------------------- MODULE MCCoin -------------------------------
(* Small instances of Coin for TLC.                                        *)
EXTENDS Coin

(* The platform's split, and one that is not a whole.                      *)
MCSplits ==
  {[holder_bps |-> 6000, h2e_bps |-> 3000, platform_bps |-> 1000],
   [holder_bps |-> 5000, h2e_bps |-> 5000, platform_bps |-> 1000]}

(* Back to bonding, and graduated on the locked position of some coin: its *)
(* own, as a repair, or another's, as a slip.                              *)
MCOverrides ==
  {[status |-> "Bonding", damm_pool |-> None, locked_position |-> None]} \cup
  {[status |-> "Graduated", damm_pool |-> c,
    locked_position |-> [pool |-> c, kind |-> "Locked"]] : c \in Coins}

(* The admin sets or lifts both pause flags in one call.                   *)
MCPauses ==
  {[paused |-> p, pause_launches |-> p] : p \in BOOLEAN}
=============================================================================
