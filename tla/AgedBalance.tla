---------------------------- MODULE AgedBalance ----------------------------
(***************************************************************************)
(* The aged-balance engine (offchain/src/aged-balance.ts): the smallest    *)
(* balance a wallet held at any time of a window.  It decides who is paid, *)
(* and how much.                                                           *)
(*                                                                         *)
(* An event is a record with the balance after one transaction, its block  *)
(* time ts and its place seq among the events of that time.                *)
(***************************************************************************)
EXTENDS Integers, Sequences

Smallest(S) == CHOOSE x \in S : \A y \in S : x <= y

(* The canonical order of events[i] and events[j]: by time, by seq, and,   *)
(* as the sort is stable, by their place in the list.                      *)
Before(events, i, j) ==
  \/ events[i].ts < events[j].ts
  \/ /\ events[i].ts = events[j].ts
     /\ \/ events[i].seq < events[j].seq
        \/ events[i].seq = events[j].seq /\ i < j

(* The balance carried into the window: after the last event at or before  *)
(* its start, and 0 without one.                                           *)
Carried(events, windowStart) ==
  LET upTo == {i \in DOMAIN events : events[i].ts <= windowStart} IN
  IF upTo = {} THEN 0
  ELSE events[CHOOSE i \in upTo :
                \A j \in upTo \ {i} : Before(events, j, i)].balance

agedBalance(events, windowStart, at) ==
  LET inside == {i \in DOMAIN events :
                   windowStart < events[i].ts /\ events[i].ts <= at}
  IN Smallest({Carried(events, windowStart)}
                \cup {events[i].balance : i \in inside})

(* Held for the whole window, and no more than capBps of the supply.       *)
isEligible(aged, supply, capBps) ==
  /\ aged > 0
  /\ aged * 10000 <= capBps * supply

(* The wallets of a round with their aged balances; the list is sorted by  *)
(* wallet, so a function stands for it.  history has the events of each    *)
(* wallet that has any.                                                    *)
computeRound(history, windowStart, at, excluded) ==
  [w \in DOMAIN history \ excluded |->
     agedBalance(history[w], windowStart, at)]
=============================================================================
