------------------------------ MODULE MCRound ------------------------------
(* Small instances of Round for TLC.                                       *)
EXTENDS Round

CONSTANTS wsol, usdc, stock

(* One wallet over the cap, one that held nothing; a dust share.           *)
MCWeighings == {
  [w \in Wallets |-> <<1, 2, 3>>[w]],
  [w \in Wallets |-> <<2, 0, 4>>[w]]}

Fact(impact, accounts) ==
  [hasFreezeAuthority |-> FALSE, isToken2022 |-> FALSE, volume |-> 5,
   quotable |-> TRUE, priceImpactBps |-> impact, accounts |-> accounts]

(* The stock's route is deep enough or not; USDC's is poor at times.       *)
MCSurveys == {
  (wsol :> Fact(0, 1)) @@ (usdc :> Fact(0, 1)) @@ (stock :> Fact(2, 2)),
  (wsol :> Fact(0, 1)) @@ (usdc :> Fact(2, 1)) @@ (stock :> Fact(4, 2))}

MCLimits ==
  [minVolume24hUsd |-> 5, maxPriceImpactBps |-> 1,
   stockMaxPriceImpactBps |-> 3, maxRouteAccounts |-> 2, denylist |-> {},
   stockMints |-> {stock}]
=============================================================================
