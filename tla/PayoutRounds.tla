---------------------------- MODULE PayoutRounds ----------------------------
(***************************************************************************)
(* When the WSOL of a round is enough for it.                              *)
(*                                                                         *)
(* settle_epoch freezes the whole balance of the payout WSOL account,      *)
(* whatever earlier rounds still owe out of it, and nothing in the program *)
(* orders one round after another.  This module adds three auxiliary       *)
(* variables to Payout that record what happened and never what may        *)
(* happen: the WSOL credited so far, the round settled last, and whether   *)
(* rounds have overlapped.  They state the discipline under which the      *)
(* frozen amounts are really there, and that it is sufficient.             *)
(***************************************************************************)
EXTENDS Payout

VARIABLES
  credited,    \* WSOL ever credited to the payout account
  last_round,  \* the epoch settled most recently, None before the first
  overlapped   \* a round was settled or swapped while another was at stake

None == -1

roundVars == <<vars, credited, last_round, overlapped>>

RoundsTypeOK ==
  /\ credited \in Nat
  /\ last_round \in Epochs \cup {None}
  /\ overlapped \in BOOLEAN

RoundsInit ==
  /\ Init
  /\ credited = 0
  /\ last_round = None
  /\ overlapped = FALSE

(* The actions of Payout, with what they record.  A round overlaps another *)
(* when it is settled while a WSOL bucket still owes, or when an earlier   *)
(* round is swapped after it.                                              *)
CreditRecorded(holder_amount) ==
  /\ SweepCredit(holder_amount)
  /\ credited' = credited + holder_amount
  /\ UNCHANGED <<last_round, overlapped>>

SettleRecorded(e, bucket_count, allowed_mints) ==
  /\ SettleEpoch(e, bucket_count, allowed_mints)
  /\ last_round' = e
  /\ overlapped' = (overlapped \/ Outstanding(WSOL) > 0)
  /\ UNCHANGED credited

SwapRecorded(e, m, a, q, min, c, delta) ==
  /\ SwapPayout(e, m, a, q, min, c, delta)
  /\ overlapped' = (overlapped \/ e # last_round)
  /\ UNCHANGED <<credited, last_round>>

Unrecorded ==
  /\ \/ Tick
     \/ AdminStep
     \/ \E e \in Epochs, m \in Mints, i, n \in Counts, sum \in Amounts :
          DistributeBatch(e, m, i, n, sum)
  /\ UNCHANGED <<credited, last_round, overlapped>>

RoundsNext ==
  \/ \E a \in Amounts : CreditRecorded(a)
  \/ \E e \in Epochs, c \in BucketCounts, mints \in SUBSET Mints :
       SettleRecorded(e, c, mints)
  \/ \E e \in Epochs, m \in Mints, a, delta \in Amounts,
        q, min \in Quotes, c \in Counts : SwapRecorded(e, m, a, q, min, c, delta)
  \/ Unrecorded

RoundsSpec == RoundsInit /\ [][RoundsNext]_roundVars

----------------------------------------------------------------------------
(* The rest of the frozen amount of the round settled last.                *)
Unswapped ==
  IF last_round = None THEN 0
  ELSE epoch_state[last_round].payout_amount - epoch_state[last_round].swapped_in

(* While rounds do not overlap, the payout WSOL account holds what every   *)
(* WSOL bucket still owes and, besides, all that the current round may     *)
(* still swap: no swap and no batch fails for want of funds, and fees that *)
(* arrive meanwhile are left for the next round.                           *)
RoundFunded == ~overlapped => ata[WSOL] >= Outstanding(WSOL) + Unswapped

(* Every lamport credited is in the payout account, was taken by the venue *)
(* for a bucket in another mint, or was paid to a recipient of a WSOL      *)
(* bucket - whether or not rounds overlapped.                              *)
WsolGone(e) ==
  epoch_state[e].swapped_in - Unpaid(e, WSOL)

WsolConserved == credited = ata[WSOL] + Total([e \in Epochs |-> WsolGone(e)])

(* "Nothing double-spent" (architecture, section 4): what the buckets of   *)
(* all rounds were given never exceeds what was credited.                  *)
NothingDoubleSpent ==
  Total([e \in Epochs |-> epoch_state[e].swapped_in]) <= credited
=============================================================================
