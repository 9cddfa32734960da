----------------------------- MODULE Electable -----------------------------
(***************************************************************************)
(* The electable list (offchain/src/electable-list.ts): which mints the    *)
(* admin is told to add to, or remove from, the platform allowlist.        *)
(*                                                                         *)
(* The facts about a mint are a record of what the gates ask; cfg has the  *)
(* limits, the denylist and the pinned stocks.                             *)
(***************************************************************************)
EXTENDS Integers, Sequences

(* The gates in their order, each with the reason it gives.                *)
Gates(mint, f, cfg) ==
  LET impactCap == IF mint \in cfg.stockMints THEN cfg.stockMaxPriceImpactBps
                   ELSE cfg.maxPriceImpactBps
  IN <<[reason |-> "live freeze authority", passed |-> ~f.hasFreezeAuthority],
       [reason |-> "Token-2022", passed |-> ~f.isToken2022],
       [reason |-> "24h volume", passed |-> f.volume >= cfg.minVolume24hUsd],
       [reason |-> "no route", passed |-> f.quotable],
       [reason |-> "price impact", passed |-> f.priceImpactBps <= impactCap],
       [reason |-> "accounts", passed |-> f.accounts <= cfg.maxRouteAccounts],
       [reason |-> "denylist", passed |-> mint \notin cfg.denylist]>>

(* The verdict is the first gate that fails.                               *)
evaluate(mint, f, cfg) ==
  LET gates == Gates(mint, f, cfg)
      failed == SelectSeq(gates, LAMBDA g : ~g.passed)
  IN IF failed = <<>> THEN "electable" ELSE Head(failed).reason

(* What to add and what to remove; USDC always stays or is added.          *)
buildProposal(facts, current, cfg, usdcMint) ==
  LET electable == {m \in DOMAIN facts :
                      evaluate(m, facts[m], cfg) = "electable"}
                     \cup {usdcMint}
  IN [add |-> electable \ current, remove |-> current \ electable]
=============================================================================
