------------------------------- MODULE Payout -------------------------------
(***************************************************************************)
(* The payout rounds of one coin, as the instructions of                   *)
(* programs/h2e/src/lib.rs run them: settle_epoch freezes an epoch,        *)
(* swap_payout turns part of its WSOL into one elected asset and opens     *)
(* that asset's bucket, distribute_batch pays a bucket's recipients in     *)
(* order.  The admin instructions that these read (set_params, pause,      *)
(* set_platform_allowlist) and the arrival of claimed fees are here too.   *)
(*                                                                         *)
(* A Solana transaction is atomic: an instruction that fails a require!    *)
(* or whose CPI fails changes nothing, so every instruction is one action  *)
(* whose guard is the conjunction of its checks.  Accounts live at         *)
(* addresses derived from seeds, so a program account is a function of     *)
(* its seeds; an account that was never created is its all-zero record,    *)
(* with settled (or swapped) FALSE.                                        *)
(*                                                                         *)
(* Wallets, weights and the Merkle root are opaque to these instructions:  *)
(* a recipient is a position of its bucket's list.                         *)
(***************************************************************************)
EXTENDS Integers, FiniteSets, UnitSums

CONSTANTS
  Mints,        \* mints a payout may be made in
  WSOL,         \* the mint fees arrive in
  MaxEpoch,     \* bound: epoch indexes are 0 .. MaxEpoch
  LaunchTs,     \* CoinConfig.launch_ts
  MaxTime,      \* bound on the cluster clock
  MaxBalance,   \* bound on the payout WSOL account
  Amounts,      \* u64 amounts: inputs of swaps, measured outputs, batch sums
  Quotes,       \* u64 amounts: quoted_out and min_out
  Counts,       \* u32 counts: recipient_count, start_index, batch lengths
  BucketCounts, \* values of bucket_count, which the program stores only
  Seconds,      \* values of epoch_seconds
  SlippageBps,  \* values of max_slippage_bps
  PauseFlags,   \* values of paused
  EditedMints,  \* mints the admin adds to or removes from the allowlist
  MaxAllowlist  \* MAX_PLATFORM_ALLOWLIST = MAX_ROUND_ASSETS

ASSUME MintsAssumption == IsFiniteSet(Mints) /\ WSOL \in Mints
ASSUME BoundsAssumption ==
  /\ MaxEpoch \in Nat /\ MaxBalance \in Nat /\ MaxAllowlist \in Nat
  /\ LaunchTs \in Int /\ MaxTime \in Int
ASSUME InputsAssumption ==
  /\ Amounts \subseteq Nat /\ Quotes \subseteq Nat
  /\ Counts \subseteq Nat /\ BucketCounts \subseteq Nat
  /\ Seconds \subseteq Int /\ SlippageBps \subseteq Nat
  /\ PauseFlags \subseteq BOOLEAN /\ EditedMints \subseteq Mints

Epochs == 0 .. MaxEpoch

VARIABLES
  now,                 \* Clock::get()?.unix_timestamp
  global_config,       \* the fields of GlobalConfig that payouts read
  platform_allowlist,  \* PlatformAllowlist.mints
  ata,                 \* balances of the PayoutAuthority's token accounts
  epoch_state,         \* EpochState accounts, by epoch index
  allowlist_state,     \* AllowlistState.mints, by epoch index
  bucket_state         \* BucketState accounts, by epoch index and out mint

vars == <<now, global_config, platform_allowlist, ata,
          epoch_state, allowlist_state, bucket_state>>

GlobalConfig ==
  [epoch_seconds : Seconds, max_slippage_bps : SlippageBps, paused : PauseFlags]

EpochState ==
  [settled : BOOLEAN, start_ts : Int, end_ts : Int, payout_amount : Nat,
   swapped_in : Nat, bucket_count : Nat, buckets_complete : Nat]

BucketState ==
  [swapped : BOOLEAN, complete : BOOLEAN, amount_in : Nat, amount_out : Nat,
   recipient_count : Nat, cursor : Nat, paid_amount : Nat]

NoEpoch ==
  [settled |-> FALSE, start_ts |-> 0, end_ts |-> 0, payout_amount |-> 0,
   swapped_in |-> 0, bucket_count |-> 0, buckets_complete |-> 0]

NoBucket ==
  [swapped |-> FALSE, complete |-> FALSE, amount_in |-> 0, amount_out |-> 0,
   recipient_count |-> 0, cursor |-> 0, paid_amount |-> 0]

TypeOK ==
  /\ now \in Int
  /\ global_config \in GlobalConfig
  /\ platform_allowlist \in SUBSET Mints
  /\ ata \in [Mints -> Nat]
  /\ epoch_state \in [Epochs -> EpochState]
  /\ allowlist_state \in [Epochs -> SUBSET Mints]
  /\ bucket_state \in [Epochs -> [Mints -> BucketState]]

(***************************************************************************)
(* The coin has just been launched: initialize_global has stored any       *)
(* parameters (none is validated but the split), and launch_coin has found *)
(* the creator's default payout mint on the platform allowlist.            *)
(***************************************************************************)
Init ==
  /\ now = LaunchTs
  /\ global_config \in GlobalConfig
  /\ platform_allowlist \in SUBSET Mints
  /\ platform_allowlist # {}
  /\ Mints \ EditedMints \subseteq platform_allowlist
  /\ Cardinality(platform_allowlist) <= MaxAllowlist
  /\ ata = [m \in Mints |-> 0]
  /\ epoch_state = [e \in Epochs |-> NoEpoch]
  /\ allowlist_state = [e \in Epochs |-> {}]
  /\ bucket_state = [e \in Epochs |-> [m \in Mints |-> NoBucket]]

----------------------------------------------------------------------------
(* Admin instructions, signed by GlobalConfig.admin.                       *)

SetParams(epoch_seconds, max_slippage_bps) ==
  /\ global_config' = [global_config EXCEPT
       !.epoch_seconds = epoch_seconds, !.max_slippage_bps = max_slippage_bps]
  /\ UNCHANGED <<now, platform_allowlist, ata,
                 epoch_state, allowlist_state, bucket_state>>

Pause(paused) ==
  /\ global_config' = [global_config EXCEPT !.paused = paused]
  /\ UNCHANGED <<now, platform_allowlist, ata,
                 epoch_state, allowlist_state, bucket_state>>

AllowMint(mint) ==
  /\ \/ mint \in platform_allowlist
     \/ Cardinality(platform_allowlist) < MaxAllowlist
  /\ platform_allowlist' = platform_allowlist \cup {mint}
  /\ UNCHANGED <<now, global_config, ata,
                 epoch_state, allowlist_state, bucket_state>>

DisallowMint(mint) ==
  /\ platform_allowlist' = platform_allowlist \ {mint}
  /\ UNCHANGED <<now, global_config, ata,
                 epoch_state, allowlist_state, bucket_state>>

SetPlatformAllowlist(mint) == AllowMint(mint) \/ DisallowMint(mint)

----------------------------------------------------------------------------
(* The holders' share of a claim reaches the payout WSOL account.  Module  *)
(* Coin models claim_and_sweep itself; payouts see its credit, and that    *)
(* it is the one instruction of theirs that reads the pause flag.          *)
SweepCredit(holder_amount) ==
  /\ ~global_config.paused
  /\ holder_amount > 0
  /\ ata[WSOL] + holder_amount <= MaxBalance
  /\ ata' = [ata EXCEPT ![WSOL] = @ + holder_amount]
  /\ UNCHANGED <<now, global_config, platform_allowlist,
                 epoch_state, allowlist_state, bucket_state>>

(* What the keeper's instructions write to an EpochState and a BucketState. *)
NewEpoch(start_ts, end_ts, payout_amount, bucket_count) ==
  [settled |-> TRUE, start_ts |-> start_ts, end_ts |-> end_ts,
   payout_amount |-> payout_amount, swapped_in |-> 0,
   bucket_count |-> bucket_count, buckets_complete |-> 0]

(* As plausible bugs would have it: the total overwritten, not added to;   *)
(* the tally taken out of the frozen amount; the tally forgotten.          *)
SpendOverwritten(es, amount_in) == [es EXCEPT !.swapped_in = amount_in]
SpendFromPayout(es, amount_in) == [es EXCEPT !.payout_amount = @ - amount_in]
SpendForgotten(es, amount_in) == es

Spend(es, amount_in) == [es EXCEPT !.swapped_in = @ + amount_in]

CountBucketForgotten(es) == es

CountBucket(es) == [es EXCEPT !.buckets_complete = @ + 1]

(* The output taken for what went in, not for what was measured.           *)
NewBucketUnmeasured(amount_in, amount_out, recipient_count) ==
  [swapped |-> TRUE, complete |-> FALSE,
   amount_in |-> amount_in, amount_out |-> amount_in,
   recipient_count |-> recipient_count, cursor |-> 0, paid_amount |-> 0]

NewBucket(amount_in, amount_out, recipient_count) ==
  [swapped |-> TRUE, complete |-> FALSE,
   amount_in |-> amount_in, amount_out |-> amount_out,
   recipient_count |-> recipient_count, cursor |-> 0, paid_amount |-> 0]

(* Completion tested before the cursor moves; the cursor left behind.      *)
ServeCompleteLate(b, n, sum) ==
  [b EXCEPT !.cursor = @ + n, !.paid_amount = @ + sum,
            !.complete = (b.cursor = b.recipient_count)]

ServeCursorStuck(b, n, sum) ==
  [b EXCEPT !.paid_amount = @ + sum,
            !.complete = (b.cursor + n = b.recipient_count)]

Serve(b, n, sum) ==
  [b EXCEPT !.cursor = @ + n, !.paid_amount = @ + sum,
            !.complete = (b.cursor + n = b.recipient_count)]

(* Keeper-signed.  `init` on EpochState is the ~settled conjunct.          *)
SettleEpoch(epoch_index, bucket_count, allowed_mints) ==
  LET start_ts == LaunchTs + epoch_index * global_config.epoch_seconds
      end_ts == start_ts + global_config.epoch_seconds
  IN  /\ ~epoch_state[epoch_index].settled
      /\ now >= end_ts
      /\ Cardinality(allowed_mints) <= MaxAllowlist
      /\ allowed_mints \subseteq platform_allowlist
      /\ epoch_state' = [epoch_state EXCEPT ![epoch_index] =
           NewEpoch(start_ts, end_ts, ata[WSOL], bucket_count)]
      /\ allowlist_state' = [allowlist_state EXCEPT ![epoch_index] = allowed_mints]
      /\ UNCHANGED <<now, global_config, platform_allowlist, ata, bucket_state>>

(* min_out >= quoted_out * (1 - max_slippage_bps), in integers; a slippage *)
(* above 10000 bps fails the checked subtraction.                          *)
SlippageFloorMet(quoted_out, min_out) ==
  /\ global_config.max_slippage_bps <= 10000
  /\ min_out >= (quoted_out * (10000 - global_config.max_slippage_bps)) \div 10000

VenueUnfunded(out_mint, amount_in, min_out, delta) ==
  /\ delta > 0
  /\ delta >= min_out
  /\ ata' = [ata EXCEPT ![WSOL] = @ - amount_in, ![out_mint] = @ + delta]

(* External: the pinned venue takes exactly amount_in of WSOL and pays     *)
(* delta of out_mint, the balance change the program measures.             *)
Venue(out_mint, amount_in, min_out, delta) ==
  /\ ata[WSOL] >= amount_in
  /\ delta > 0
  /\ delta >= min_out
  /\ ata' = [ata EXCEPT ![WSOL] = @ - amount_in, ![out_mint] = @ + delta]

(* The snapshot decides, not the platform's list of the day.               *)
OutMintAllowedToday(epoch_index, out_mint) == out_mint \in platform_allowlist

OutMintAllowed(epoch_index, out_mint) == out_mint \in allowlist_state[epoch_index]

(* Keeper-signed.  `init` on BucketState is the ~swapped conjunct.         *)
SwapPayout(epoch_index, out_mint, amount_in, quoted_out, min_out, recipient_count, delta) ==
  LET es == epoch_state[epoch_index]
      amount_out == IF out_mint = WSOL THEN amount_in ELSE delta
  IN  /\ es.settled
      /\ ~bucket_state[epoch_index][out_mint].swapped
      /\ amount_in > 0
      /\ OutMintAllowed(epoch_index, out_mint)
      /\ es.swapped_in + amount_in <= es.payout_amount
      /\ SlippageFloorMet(quoted_out, min_out)
      /\ IF out_mint = WSOL
         THEN UNCHANGED ata
         ELSE Venue(out_mint, amount_in, min_out, delta)
      /\ epoch_state' = [epoch_state EXCEPT ![epoch_index] = Spend(@, amount_in)]
      /\ bucket_state' = [bucket_state EXCEPT ![epoch_index][out_mint] =
           NewBucket(amount_in, amount_out, recipient_count)]
      /\ UNCHANGED <<now, global_config, platform_allowlist, allowlist_state>>

(* Keeper-signed.  n recipients are paid `sum` in all, each of them more   *)
(* than zero; the transfers fail together when the account holds less.     *)
DistributeBatch(epoch_index, out_mint, start_index, n, sum) ==
  LET b == bucket_state[epoch_index][out_mint]
  IN  /\ b.swapped
      /\ ~b.complete
      /\ start_index = b.cursor
      /\ n > 0
      /\ sum >= n
      /\ b.paid_amount + sum <= b.amount_out
      /\ b.cursor + n <= b.recipient_count
      /\ sum <= ata[out_mint]
      /\ ata' = [ata EXCEPT ![out_mint] = @ - sum]
      /\ bucket_state' = [bucket_state EXCEPT ![epoch_index][out_mint] =
           Serve(b, n, sum)]
      /\ epoch_state' = [epoch_state EXCEPT ![epoch_index] =
           IF Serve(b, n, sum).complete THEN CountBucket(@) ELSE @]
      /\ UNCHANGED <<now, global_config, platform_allowlist, allowlist_state>>

Tick ==
  /\ now < MaxTime
  /\ now' = now + 1
  /\ UNCHANGED <<global_config, platform_allowlist, ata,
                 epoch_state, allowlist_state, bucket_state>>

----------------------------------------------------------------------------
AdminStep ==
  \/ \E s \in Seconds, bps \in SlippageBps : SetParams(s, bps)
  \/ \E p \in PauseFlags : Pause(p)
  \/ \E m \in EditedMints : SetPlatformAllowlist(m)

KeeperStep ==
  \E e \in Epochs :
    \/ \E c \in BucketCounts, mints \in SUBSET Mints : SettleEpoch(e, c, mints)
    \/ \E m \in Mints, a, delta \in Amounts, q, min \in Quotes, c \in Counts :
         SwapPayout(e, m, a, q, min, c, delta)
    \/ \E m \in Mints, i, n \in Counts, sum \in Amounts :
         DistributeBatch(e, m, i, n, sum)

Next ==
  \/ Tick
  \/ \E a \in Amounts : SweepCredit(a)
  \/ AdminStep
  \/ KeeperStep

Spec == Init /\ [][Next]_vars

----------------------------------------------------------------------------
(* What the rounds must keep true.                                         *)

Amount(e, m) == bucket_state[e][m].amount_in
Unpaid(e, m) == bucket_state[e][m].amount_out - bucket_state[e][m].paid_amount

Spent(e) == Total([m \in Mints |-> Amount(e, m)])
Outstanding(m) == Total([e \in Epochs |-> Unpaid(e, m)])

(* The running total that bounds swap_payout is the sum of what the        *)
(* epoch's buckets took, and never more than the amount frozen at settle.  *)
SpentMatchesBuckets ==
  \A e \in Epochs :
    /\ epoch_state[e].swapped_in = Spent(e)
    /\ epoch_state[e].swapped_in <= epoch_state[e].payout_amount

(* A bucket pays at most what its swap measured and serves at most         *)
(* recipient_count positions; every position served got at least one unit, *)
(* so a bucket with no recipients, or with fewer units than recipients,    *)
(* never completes, and complete means that all positions were served.     *)
BucketsWithinBounds ==
  \A e \in Epochs, m \in Mints :
    LET b == bucket_state[e][m]
    IN  /\ b.cursor <= b.recipient_count
        /\ b.cursor <= b.paid_amount
        /\ b.paid_amount <= b.amount_out
        /\ b.complete <=> (b.cursor = b.recipient_count /\ b.cursor > 0)

(* buckets_complete, which tells the keeper that an epoch is over, counts  *)
(* the epoch's complete buckets, each once.                                *)
CompletionCounted ==
  \A e \in Epochs :
    epoch_state[e].buckets_complete =
      Cardinality({m \in Mints : bucket_state[e][m].complete})

(* A bucket exists only in an epoch that is settled and over, and only for *)
(* a mint of the list snapshotted then, whatever happened since to the     *)
(* platform allowlist or to epoch_seconds.                                 *)
BucketsFollowSnapshot ==
  \A e \in Epochs, m \in Mints :
    bucket_state[e][m].swapped =>
      /\ epoch_state[e].settled
      /\ epoch_state[e].end_ts <= now
      /\ m \in allowlist_state[e]
      /\ bucket_state[e][m].amount_in > 0
      /\ bucket_state[e][m].amount_out > 0

(* For every mint but WSOL, the payout account holds what all buckets of   *)
(* all epochs in that mint still owe: they share one account, and none     *)
(* can be left short by another.                                           *)
OutputsBacked == \A m \in Mints \ {WSOL} : ata[m] >= Outstanding(m)

(* What settle and swap froze stays frozen; the cursors and totals only    *)
(* grow, and a complete bucket is never touched again.                     *)
EpochTerms(es) ==
  <<es.settled, es.start_ts, es.end_ts, es.payout_amount, es.bucket_count>>

BucketTerms(b) == <<b.swapped, b.amount_in, b.amount_out, b.recipient_count>>

EpochStep(e) ==
  LET before == epoch_state[e]
      after == epoch_state'[e]
  IN  before.settled =>
        /\ EpochTerms(after) = EpochTerms(before)
        /\ after.swapped_in >= before.swapped_in
        /\ after.buckets_complete >= before.buckets_complete
        /\ allowlist_state'[e] = allowlist_state[e]

BucketStep(e, m) ==
  LET before == bucket_state[e][m]
      after == bucket_state'[e][m]
  IN  /\ before.swapped =>
           /\ BucketTerms(after) = BucketTerms(before)
           /\ after.cursor >= before.cursor
           /\ after.paid_amount - before.paid_amount >= after.cursor - before.cursor
      /\ before.complete => after = before

RecordsFrozen ==
  [][\A e \in Epochs : EpochStep(e) /\ \A m \in Mints : BucketStep(e, m)]_vars

(* The rounds keep their promise: what is left of a round is its frozen    *)
(* amount less what was swapped, a bucket's pot is what its swap measured  *)
(* less what was paid, and its queue is the positions behind the cursor.   *)
Promise == INSTANCE PayoutPromise WITH
  Rounds <- Epochs,
  Assets <- Mints,
  rest <- [e \in Epochs |->
             epoch_state[e].payout_amount - epoch_state[e].swapped_in],
  frozen <- {e \in Epochs : epoch_state[e].settled},
  opened <- {em \in Epochs \X Mints : bucket_state[em[1]][em[2]].swapped},
  pot <- [e \in Epochs |-> [m \in Mints |-> Unpaid(e, m)]],
  queue <- [e \in Epochs |-> [m \in Mints |->
             bucket_state[e][m].recipient_count - bucket_state[e][m].cursor]]

KeepsPromise == Promise!PromiseSpec

(* "`paused` stops distribution" (lib.rs, pause).                          *)
PausedStopsDistribution ==
  [][global_config.paused =>
       \A e \in Epochs, m \in Mints :
         bucket_state'[e][m].paid_amount = bucket_state[e][m].paid_amount]_vars
=============================================================================
