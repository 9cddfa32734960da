---------------------------- MODULE PayoutProofs ----------------------------
(***************************************************************************)
(* Proofs about the payout rounds of modules Payout and PayoutRounds.      *)
(***************************************************************************)
EXTENDS PayoutRounds, UnitSumsProofs

(* An account that was never created is all zero.                          *)
UncreatedIsBlank ==
  /\ \A e \in Epochs : ~epoch_state[e].settled => epoch_state[e] = NoEpoch
  /\ \A e \in Epochs, m \in Mints :
       ~bucket_state[e][m].swapped => bucket_state[e][m] = NoBucket

(* An epoch is settled only once it is over.                               *)
SettledIsOver ==
  \A e \in Epochs : epoch_state[e].settled => epoch_state[e].end_ts <= now

LEMMA EpochsFinite == IsFiniteSet(Epochs) /\ Epochs \subseteq Nat
  BY BoundsAssumption, FS_Interval DEF Epochs

(* What the instructions write, field by field.                            *)
LEMMA NewEpochFields ==
  ASSUME NEW start \in Int, NEW end \in Int, NEW amount \in Nat, NEW count \in Nat
  PROVE  LET es == NewEpoch(start, end, amount, count)
         IN  /\ es \in EpochState
             /\ es.settled
             /\ es.end_ts = end
             /\ es.payout_amount = amount
             /\ es.swapped_in = 0
             /\ es.buckets_complete = 0
  BY DEF NewEpoch, EpochState

LEMMA SpendFields ==
  ASSUME NEW es \in EpochState, NEW a \in Nat
  PROVE  /\ Spend(es, a) \in EpochState
         /\ Spend(es, a).swapped_in = es.swapped_in + a
         /\ EpochTerms(Spend(es, a)) = EpochTerms(es)
         /\ Spend(es, a).buckets_complete = es.buckets_complete
<1>1. Spend(es, a).swapped_in = es.swapped_in + a
  BY Zenon DEF Spend, EpochState
<1>2. EpochTerms(Spend(es, a)) = EpochTerms(es)
  BY Zenon DEF Spend, EpochState, EpochTerms
<1>3. Spend(es, a).buckets_complete = es.buckets_complete
  BY Zenon DEF Spend, EpochState
<1>4. es.swapped_in + a \in Nat
  BY DEF EpochState
<1>5. Spend(es, a) \in EpochState
  BY <1>4, Zenon DEF Spend, EpochState
<1> QED
  BY <1>1, <1>2, <1>3, <1>5

LEMMA CountBucketFields ==
  ASSUME NEW es \in EpochState
  PROVE  /\ CountBucket(es) \in EpochState
         /\ CountBucket(es).buckets_complete = es.buckets_complete + 1
         /\ EpochTerms(CountBucket(es)) = EpochTerms(es)
         /\ CountBucket(es).swapped_in = es.swapped_in
<1>1. CountBucket(es).buckets_complete = es.buckets_complete + 1
  BY Zenon DEF CountBucket, EpochState
<1>2. EpochTerms(CountBucket(es)) = EpochTerms(es)
  BY Zenon DEF CountBucket, EpochState, EpochTerms
<1>3. CountBucket(es).swapped_in = es.swapped_in
  BY Zenon DEF CountBucket, EpochState
<1>4. es.buckets_complete + 1 \in Nat
  BY DEF EpochState
<1>5. CountBucket(es) \in EpochState
  BY <1>4, Zenon DEF CountBucket, EpochState
<1> QED
  BY <1>1, <1>2, <1>3, <1>5

LEMMA NewBucketFields ==
  ASSUME NEW a \in Nat, NEW out \in Nat, NEW count \in Nat
  PROVE  LET b == NewBucket(a, out, count)
         IN  /\ b \in BucketState
             /\ b.swapped
             /\ ~b.complete
             /\ b.amount_in = a
             /\ b.amount_out = out
             /\ b.recipient_count = count
             /\ b.cursor = 0
             /\ b.paid_amount = 0
  BY DEF NewBucket, BucketState

LEMMA ServeFields ==
  ASSUME NEW b \in BucketState, NEW n \in Nat, NEW sum \in Nat
  PROVE  /\ Serve(b, n, sum) \in BucketState
         /\ Serve(b, n, sum).cursor = b.cursor + n
         /\ Serve(b, n, sum).paid_amount = b.paid_amount + sum
         /\ Serve(b, n, sum).complete = (b.cursor + n = b.recipient_count)
         /\ BucketTerms(Serve(b, n, sum)) = BucketTerms(b)
<1>1. Serve(b, n, sum).cursor = b.cursor + n
  BY Zenon DEF Serve, BucketState
<1>2. Serve(b, n, sum).paid_amount = b.paid_amount + sum
  BY Zenon DEF Serve, BucketState
<1>3. Serve(b, n, sum).complete = (b.cursor + n = b.recipient_count)
  BY Zenon DEF Serve, BucketState
<1>4. BucketTerms(Serve(b, n, sum)) = BucketTerms(b)
  BY Zenon DEF Serve, BucketState, BucketTerms
<1>5. b.cursor + n \in Nat /\ b.paid_amount + sum \in Nat
  BY DEF BucketState
<1>6. Serve(b, n, sum) \in BucketState
  BY <1>5, Zenon DEF Serve, BucketState
<1> QED
  BY <1>1, <1>2, <1>3, <1>4, <1>6

----------------------------------------------------------------------------
(* What each kind of step does to the accounts.                            *)

(* Steps that touch no round: time passes, an admin signs, fees arrive.    *)
Quiet ==
  /\ UNCHANGED <<epoch_state, allowlist_state, bucket_state>>
  /\ now' >= now
  /\ ata'[WSOL] >= ata[WSOL]
  /\ \A m \in Mints \ {WSOL} : ata'[m] = ata[m]

QuietStep ==
  \/ Tick
  \/ \E a \in Amounts : SweepCredit(a)
  \/ AdminStep
  \/ UNCHANGED vars

LEMMA QuietEffect == ASSUME TypeOK, QuietStep PROVE TypeOK' /\ Quiet
<1>1. CASE Tick
  BY <1>1, MintsAssumption DEF TypeOK, Tick, Quiet
<1>2. ASSUME NEW a \in Amounts, SweepCredit(a)
      PROVE  TypeOK' /\ Quiet
  BY <1>2, MintsAssumption, InputsAssumption DEF TypeOK, SweepCredit, Quiet
<1>3. CASE AdminStep
  <2>1. ASSUME NEW s \in Seconds, NEW bps \in SlippageBps, SetParams(s, bps)
        PROVE  TypeOK' /\ Quiet
    <3>1. global_config' \in GlobalConfig
      BY <2>1, Zenon DEF TypeOK, SetParams, GlobalConfig
    <3> QED
      BY <3>1, <2>1, MintsAssumption DEF TypeOK, SetParams, Quiet
  <2>2. ASSUME NEW p \in PauseFlags, Pause(p)
        PROVE  TypeOK' /\ Quiet
    <3>1. global_config' \in GlobalConfig
      BY <2>2, Zenon DEF TypeOK, Pause, GlobalConfig
    <3> QED
      BY <3>1, <2>2, MintsAssumption DEF TypeOK, Pause, Quiet
  <2>3. ASSUME NEW m \in EditedMints, SetPlatformAllowlist(m)
        PROVE  TypeOK' /\ Quiet
    BY <2>3, MintsAssumption, InputsAssumption
       DEF TypeOK, SetPlatformAllowlist, AllowMint, DisallowMint, Quiet
  <2> QED
    BY <1>3, <2>1, <2>2, <2>3 DEF AdminStep
<1>4. CASE UNCHANGED vars
  BY <1>4, MintsAssumption DEF TypeOK, vars, Quiet
<1> QED
  BY <1>1, <1>2, <1>3, <1>4 DEF QuietStep

LEMMA SettleEffect ==
  ASSUME TypeOK, NEW e \in Epochs, NEW c \in BucketCounts,
         NEW mints \in SUBSET Mints, SettleEpoch(e, c, mints)
  PROVE  /\ TypeOK'
         /\ ~epoch_state[e].settled
         /\ epoch_state'[e] \in EpochState
         /\ epoch_state'[e].settled
         /\ epoch_state'[e].end_ts <= now
         /\ epoch_state'[e].payout_amount = ata[WSOL]
         /\ epoch_state'[e].swapped_in = 0
         /\ epoch_state'[e].buckets_complete = 0
         /\ \A x \in Epochs \ {e} : /\ epoch_state'[x] = epoch_state[x]
                                     /\ allowlist_state'[x] = allowlist_state[x]
         /\ UNCHANGED <<now, ata, bucket_state>>
<1> DEFINE start == LaunchTs + e * global_config.epoch_seconds
           end == start + global_config.epoch_seconds
           es == NewEpoch(start, end, ata[WSOL], c)
<1>1. global_config.epoch_seconds \in Int /\ e \in Int
  <2>1. global_config.epoch_seconds \in Seconds
    BY DEF TypeOK, GlobalConfig
  <2>2. global_config.epoch_seconds \in Int
    BY <2>1, InputsAssumption
  <2>3. e \in Int
    BY EpochsFinite
  <2> QED
    BY <2>2, <2>3
<1>2. start \in Int /\ end \in Int
  BY <1>1, BoundsAssumption
<1>3. ata[WSOL] \in Nat /\ c \in Nat
  BY MintsAssumption, InputsAssumption DEF TypeOK
<1>4. /\ ~epoch_state[e].settled
      /\ now >= end
      /\ epoch_state' = [epoch_state EXCEPT ![e] = es]
      /\ allowlist_state' = [allowlist_state EXCEPT ![e] = mints]
      /\ UNCHANGED <<now, global_config, platform_allowlist, ata, bucket_state>>
  BY DEF SettleEpoch
<1> HIDE DEF start, end
<1>5. /\ es \in EpochState /\ es.settled /\ es.end_ts = end
      /\ es.payout_amount = ata[WSOL] /\ es.swapped_in = 0
      /\ es.buckets_complete = 0
  <2>1. es = NewEpoch(start, end, ata[WSOL], c)
    OBVIOUS
  <2> HIDE DEF es
  <2> QED
    BY <1>2, <1>3, <2>1, NewEpochFields
<1> HIDE DEF es
<1>6. epoch_state'[e] = es
  BY <1>4 DEF TypeOK
<1>7. now \in Int
  BY DEF TypeOK
<1>8. TypeOK'
  BY <1>4, <1>5 DEF TypeOK
<1> QED
  BY <1>2, <1>4, <1>5, <1>6, <1>7, <1>8 DEF TypeOK

LEMMA SwapEffect ==
  ASSUME TypeOK, NEW e \in Epochs, NEW m \in Mints, NEW a \in Amounts,
         NEW q \in Quotes, NEW min \in Quotes, NEW c \in Counts,
         NEW delta \in Amounts, SwapPayout(e, m, a, q, min, c, delta)
  PROVE  LET out == IF m = WSOL THEN a ELSE delta
         IN  /\ TypeOK'
             /\ epoch_state[e].settled
             /\ ~bucket_state[e][m].swapped
             /\ m \in allowlist_state[e]
             /\ a \in Nat /\ a > 0
             /\ out \in Nat /\ out > 0
             /\ c \in Nat
             /\ epoch_state[e].swapped_in + a <= epoch_state[e].payout_amount
             /\ epoch_state'[e] = Spend(epoch_state[e], a)
             /\ \A x \in Epochs \ {e} : epoch_state'[x] = epoch_state[x]
             /\ bucket_state'[e][m] = NewBucket(a, out, c)
             /\ \A x \in Epochs, y \in Mints :
                  x # e \/ y # m => bucket_state'[x][y] = bucket_state[x][y]
             /\ m = WSOL => ata' = ata
             /\ m # WSOL => /\ ata'[m] = ata[m] + delta
                            /\ ata'[WSOL] = ata[WSOL] - a
             /\ \A y \in Mints \ {m, WSOL} : ata'[y] = ata[y]
             /\ UNCHANGED <<now, allowlist_state>>
<1> DEFINE out == IF m = WSOL THEN a ELSE delta
           b == NewBucket(a, out, c)
           es == Spend(epoch_state[e], a)
<1>1. a \in Nat /\ delta \in Nat /\ c \in Nat /\ out \in Nat
  BY InputsAssumption
<1>2. /\ epoch_state[e].settled
      /\ ~bucket_state[e][m].swapped
      /\ a > 0
      /\ m \in allowlist_state[e]
      /\ epoch_state[e].swapped_in + a <= epoch_state[e].payout_amount
      /\ epoch_state' = [epoch_state EXCEPT ![e] = es]
      /\ bucket_state' = [bucket_state EXCEPT ![e][m] = b]
      /\ UNCHANGED <<now, global_config, platform_allowlist, allowlist_state>>
  BY DEF SwapPayout, OutMintAllowed
<1>3. /\ m = WSOL => ata' = ata
      /\ m # WSOL =>
           /\ ata[WSOL] >= a /\ delta > 0
           /\ ata' = [ata EXCEPT ![WSOL] = @ - a, ![m] = @ + delta]
  BY DEF SwapPayout, Venue
<1>4. es \in EpochState
  BY <1>1, SpendFields DEF TypeOK
<1>5. b \in BucketState
  <2> HIDE DEF out
  <2> QED
    BY <1>1, NewBucketFields
<1> HIDE DEF es, b
<1>6. ata' \in [Mints -> Nat]
  BY <1>1, <1>3, MintsAssumption DEF TypeOK
<1>7. TypeOK'
  BY <1>2, <1>4, <1>5, <1>6 DEF TypeOK
<1>8. /\ epoch_state'[e] = es
      /\ \A x \in Epochs \ {e} : epoch_state'[x] = epoch_state[x]
  BY <1>2 DEF TypeOK
<1>9. /\ bucket_state'[e][m] = b
      /\ \A x \in Epochs, y \in Mints :
           x # e \/ y # m => bucket_state'[x][y] = bucket_state[x][y]
  BY <1>2 DEF TypeOK
<1>10. /\ m # WSOL => ata'[m] = ata[m] + delta /\ ata'[WSOL] = ata[WSOL] - a
       /\ \A y \in Mints \ {m, WSOL} : ata'[y] = ata[y]
  BY <1>3, MintsAssumption DEF TypeOK
<1> QED
  BY <1>1, <1>2, <1>3, <1>7, <1>8, <1>9, <1>10 DEF es, b

LEMMA DistributeEffect ==
  ASSUME TypeOK, NEW e \in Epochs, NEW m \in Mints, NEW i \in Counts,
         NEW n \in Counts, NEW sum \in Amounts, DistributeBatch(e, m, i, n, sum)
  PROVE  LET b == bucket_state[e][m]
             after == Serve(b, n, sum)
         IN  /\ TypeOK'
             /\ b.swapped
             /\ ~b.complete
             /\ n \in Nat /\ n > 0
             /\ sum \in Nat /\ sum >= n
             /\ b.paid_amount + sum <= b.amount_out
             /\ b.cursor + n <= b.recipient_count
             /\ epoch_state'[e] = IF after.complete THEN CountBucket(epoch_state[e])
                                  ELSE epoch_state[e]
             /\ \A x \in Epochs \ {e} : epoch_state'[x] = epoch_state[x]
             /\ bucket_state'[e][m] = after
             /\ \A x \in Epochs, y \in Mints :
                  x # e \/ y # m => bucket_state'[x][y] = bucket_state[x][y]
             /\ ata[m] >= sum
             /\ ata'[m] = ata[m] - sum
             /\ \A y \in Mints \ {m} : ata'[y] = ata[y]
             /\ UNCHANGED <<now, allowlist_state>>
<1> DEFINE b == bucket_state[e][m]
           after == Serve(b, n, sum)
           es == IF after.complete THEN CountBucket(epoch_state[e])
                 ELSE epoch_state[e]
<1>1. n \in Nat /\ sum \in Nat
  BY InputsAssumption
<1>2. /\ b.swapped /\ ~b.complete
      /\ n > 0 /\ sum >= n
      /\ b.paid_amount + sum <= b.amount_out
      /\ b.cursor + n <= b.recipient_count
      /\ sum <= ata[m]
      /\ ata' = [ata EXCEPT ![m] = @ - sum]
      /\ bucket_state' = [bucket_state EXCEPT ![e][m] = after]
      /\ epoch_state' = [epoch_state EXCEPT ![e] = es]
      /\ UNCHANGED <<now, global_config, platform_allowlist, allowlist_state>>
  BY DEF DistributeBatch
<1>3. b \in BucketState
  BY DEF TypeOK
<1>4. after \in BucketState
  <2> HIDE DEF b
  <2> QED
    BY <1>1, <1>3, ServeFields
<1>5. es \in EpochState
  <2> HIDE DEF after
  <2> QED
    BY CountBucketFields DEF TypeOK
<1> HIDE DEF es, after
<1>6. ata' \in [Mints -> Nat]
  BY <1>1, <1>2 DEF TypeOK
<1>7. TypeOK'
  BY <1>2, <1>4, <1>5, <1>6 DEF TypeOK
<1>8. /\ epoch_state'[e] = es
      /\ \A x \in Epochs \ {e} : epoch_state'[x] = epoch_state[x]
  BY <1>2 DEF TypeOK
<1>9. /\ bucket_state'[e][m] = after
      /\ \A x \in Epochs, y \in Mints :
           x # e \/ y # m => bucket_state'[x][y] = bucket_state[x][y]
  BY <1>2 DEF TypeOK
<1>10. /\ ata[m] >= sum
       /\ ata'[m] = ata[m] - sum
       /\ \A y \in Mints \ {m} : ata'[y] = ata[y]
  BY <1>1, <1>2 DEF TypeOK
<1> QED
  BY <1>1, <1>2, <1>7, <1>8, <1>9, <1>10 DEF es, after

----------------------------------------------------------------------------
LEMMA TypeInit == Init => TypeOK
<1> SUFFICES ASSUME Init PROVE TypeOK
  OBVIOUS
<1>1. NoEpoch \in EpochState /\ NoBucket \in BucketState
  BY DEF NoEpoch, EpochState, NoBucket, BucketState
<1> QED
  BY <1>1, BoundsAssumption DEF Init, TypeOK

(* Every step of the program is a quiet one or one of the keeper's three.  *)
LEMMA StepCases ==
  ASSUME [Next]_vars
  PROVE  \/ QuietStep
         \/ \E e \in Epochs, c \in BucketCounts, mints \in SUBSET Mints :
              SettleEpoch(e, c, mints)
         \/ \E e \in Epochs, m \in Mints, a, delta \in Amounts,
               q, min \in Quotes, c \in Counts :
              SwapPayout(e, m, a, q, min, c, delta)
         \/ \E e \in Epochs, m \in Mints, i, n \in Counts, sum \in Amounts :
              DistributeBatch(e, m, i, n, sum)
  BY DEF Next, KeeperStep, QuietStep

LEMMA TypeStep == TypeOK /\ [Next]_vars => TypeOK'
  BY StepCases, QuietEffect, SettleEffect, SwapEffect, DistributeEffect

(* The types of the program's accounts, for every number of epochs, set of *)
(* mints and choice of inputs.                                             *)
THEOREM TypeCorrect == Spec => []TypeOK
  BY TypeInit, TypeStep, PTL DEF Spec

----------------------------------------------------------------------------
(* The inductive invariant: the invariants that TLC checks; that what was  *)
(* never created is blank, so that an account that is created starts its   *)
(* sums and counts from zero; and that settled epochs are over, which a    *)
(* new bucket inherits.                                                    *)
Inv ==
  /\ TypeOK
  /\ UncreatedIsBlank
  /\ SettledIsOver
  /\ BucketsFollowSnapshot
  /\ BucketsWithinBounds
  /\ SpentMatchesBuckets
  /\ CompletionCounted
  /\ OutputsBacked

(* How the sums over buckets change when one bucket, or none, does.        *)
LEMMA SpentUpdate ==
  ASSUME TypeOK, TypeOK', NEW e \in Epochs, NEW m \in Mints,
         \A y \in Mints \ {m} : Amount(e, y)' = Amount(e, y)
  PROVE  Spent(e)' + Amount(e, m) = Spent(e) + Amount(e, m)'
<1> DEFINE f == [y \in Mints |-> Amount(e, y)]
           g == [y \in Mints |-> Amount(e, y)']
<1>1. f \in [Mints -> Nat] /\ g \in [Mints -> Nat]
  BY DEF TypeOK, BucketState, Amount
<1>2. \A y \in Mints \ {m} : g[y] = f[y]
  OBVIOUS
<1>3. f[m] = Amount(e, m) /\ g[m] = Amount(e, m)'
  OBVIOUS
<1>4. Spent(e) = Total(f) /\ Spent(e)' = Total(g)
  BY DEF Spent
<1> HIDE DEF f, g
<1>5. Total(g) + f[m] = Total(f) + g[m]
  BY <1>1, <1>2, MintsAssumption, TotalUpdate
<1> QED
  BY <1>3, <1>4, <1>5

LEMMA SpentSame ==
  ASSUME NEW e \in Epochs, \A y \in Mints : Amount(e, y)' = Amount(e, y)
  PROVE  Spent(e)' = Spent(e)
<1>1. [y \in Mints |-> Amount(e, y)'] = [y \in Mints |-> Amount(e, y)]
  OBVIOUS
<1> QED
  BY <1>1 DEF Spent

LEMMA UnpaidNat ==
  ASSUME TypeOK, BucketsWithinBounds, NEW e \in Epochs, NEW m \in Mints
  PROVE  Unpaid(e, m) \in Nat
  BY DEF TypeOK, BucketState, BucketsWithinBounds, Unpaid

LEMMA UnpaidNatNext ==
  ASSUME TypeOK', BucketsWithinBounds', NEW e \in Epochs, NEW m \in Mints
  PROVE  Unpaid(e, m)' \in Nat
  BY DEF TypeOK, BucketState, BucketsWithinBounds, Unpaid

LEMMA OutstandingUpdate ==
  ASSUME TypeOK, BucketsWithinBounds, TypeOK', BucketsWithinBounds',
         NEW e \in Epochs, NEW m \in Mints,
         \A x \in Epochs \ {e} : bucket_state'[x][m] = bucket_state[x][m]
  PROVE  Outstanding(m)' + Unpaid(e, m) = Outstanding(m) + Unpaid(e, m)'
<1> DEFINE f == [x \in Epochs |-> Unpaid(x, m)]
           g == [x \in Epochs |-> Unpaid(x, m)']
<1>1. f \in [Epochs -> Nat] /\ g \in [Epochs -> Nat]
  BY UnpaidNat, UnpaidNatNext
<1>2. \A x \in Epochs \ {e} : g[x] = f[x]
  BY DEF Unpaid
<1>3. f[e] = Unpaid(e, m) /\ g[e] = Unpaid(e, m)'
  OBVIOUS
<1>4. Outstanding(m) = Total(f) /\ Outstanding(m)' = Total(g)
  BY DEF Outstanding
<1> HIDE DEF f, g
<1>5. Total(g) + f[e] = Total(f) + g[e]
  BY <1>1, <1>2, EpochsFinite, TotalUpdate
<1> QED
  BY <1>3, <1>4, <1>5

LEMMA OutstandingSame ==
  ASSUME NEW m \in Mints,
         \A x \in Epochs : bucket_state'[x][m] = bucket_state[x][m]
  PROVE  Outstanding(m)' = Outstanding(m)
<1>1. [x \in Epochs |-> Unpaid(x, m)'] = [x \in Epochs |-> Unpaid(x, m)]
  BY DEF Unpaid
<1> QED
  BY <1>1 DEF Outstanding

LEMMA OutstandingNat ==
  ASSUME TypeOK, BucketsWithinBounds, NEW m \in Mints
  PROVE  Outstanding(m) \in Nat
<1> DEFINE f == [x \in Epochs |-> Unpaid(x, m)]
<1>1. f \in [Epochs -> Nat]
  BY UnpaidNat
<1> HIDE DEF f
<1>2. Total(f) \in Nat
  BY <1>1, EpochsFinite, UnitsFinite
<1> QED
  BY <1>2 DEF Outstanding, f

LEMMA OutstandingNatNext ==
  ASSUME TypeOK', BucketsWithinBounds', NEW m \in Mints
  PROVE  Outstanding(m)' \in Nat
<1> DEFINE f == [x \in Epochs |-> Unpaid(x, m)']
<1>1. f \in [Epochs -> Nat]
  BY UnpaidNatNext
<1> HIDE DEF f
<1>2. Total(f) \in Nat
  BY <1>1, EpochsFinite, UnitsFinite
<1> QED
  BY <1>2 DEF Outstanding, f

----------------------------------------------------------------------------
LEMMA InvInit == Init => Inv
<1> SUFFICES ASSUME Init PROVE Inv
  OBVIOUS
<1>1. TypeOK
  BY TypeInit
<1>2. /\ \A e \in Epochs : epoch_state[e] = NoEpoch
      /\ \A e \in Epochs, m \in Mints : bucket_state[e][m] = NoBucket
      /\ \A m \in Mints : ata[m] = 0
  BY DEF Init
<1>3. \A e \in Epochs : /\ ~epoch_state[e].settled
                        /\ epoch_state[e].payout_amount = 0
                        /\ epoch_state[e].swapped_in = 0
                        /\ epoch_state[e].buckets_complete = 0
  BY <1>2 DEF NoEpoch
<1>4. \A e \in Epochs, m \in Mints :
        LET b == bucket_state[e][m]
        IN  /\ ~b.swapped /\ ~b.complete
            /\ b.amount_in = 0 /\ b.amount_out = 0
            /\ b.recipient_count = 0 /\ b.cursor = 0 /\ b.paid_amount = 0
  BY <1>2 DEF NoBucket
<1>5. UncreatedIsBlank /\ SettledIsOver
  BY <1>2, <1>3 DEF UncreatedIsBlank, SettledIsOver
<1>6. BucketsFollowSnapshot /\ BucketsWithinBounds
  BY <1>4 DEF BucketsFollowSnapshot, BucketsWithinBounds
<1>7. SpentMatchesBuckets
  <2>1. ASSUME NEW e \in Epochs
        PROVE  Spent(e) = 0
    <3> DEFINE f == [m \in Mints |-> Amount(e, m)]
    <3>1. f \in [Mints -> Nat] /\ \A m \in Mints : f[m] = 0
      BY <1>4 DEF Amount
    <3> HIDE DEF f
    <3>2. Total(f) = 0
      BY <3>1, TotalZero
    <3> QED
      BY <3>2 DEF Spent, f
  <2> QED
    BY <2>1, <1>3 DEF SpentMatchesBuckets
<1>8. CompletionCounted
  <2>1. \A e \in Epochs : {m \in Mints : bucket_state[e][m].complete} = {}
    BY <1>4
  <2> QED
    BY <2>1, <1>3, FS_EmptySet DEF CompletionCounted
<1>9. OutputsBacked
  <2>1. ASSUME NEW m \in Mints
        PROVE  Outstanding(m) = 0
    <3> DEFINE f == [e \in Epochs |-> Unpaid(e, m)]
    <3>1. f \in [Epochs -> Nat] /\ \A e \in Epochs : f[e] = 0
      BY <1>4 DEF Unpaid
    <3> HIDE DEF f
    <3>2. Total(f) = 0
      BY <3>1, TotalZero
    <3> QED
      BY <3>2 DEF Outstanding, f
  <2> QED
    BY <2>1, <1>2 DEF OutputsBacked
<1> QED
  BY <1>1, <1>5, <1>6, <1>7, <1>8, <1>9 DEF Inv

LEMMA InvQuiet == ASSUME Inv, QuietStep PROVE Inv'
<1>1. TypeOK /\ TypeOK' /\ Quiet
  BY QuietEffect DEF Inv
<1>2. UncreatedIsBlank' /\ BucketsWithinBounds'
  BY <1>1 DEF Inv, Quiet, UncreatedIsBlank, BucketsWithinBounds
<1>3. SettledIsOver' /\ BucketsFollowSnapshot'
  BY <1>1 DEF Inv, Quiet, SettledIsOver, BucketsFollowSnapshot, TypeOK, EpochState
<1>4. SpentMatchesBuckets' /\ CompletionCounted'
  <2>1. \A e \in Epochs : Spent(e)' = Spent(e)
    BY <1>1, SpentSame DEF Quiet, Amount
  <2> QED
    BY <1>1, <2>1 DEF Inv, Quiet, SpentMatchesBuckets, CompletionCounted
<1>5. OutputsBacked'
  <2>1. \A m \in Mints : Outstanding(m)' = Outstanding(m)
    BY <1>1, OutstandingSame DEF Quiet
  <2> QED
    BY <1>1, <2>1 DEF Inv, Quiet, OutputsBacked
<1> QED
  BY <1>1, <1>2, <1>3, <1>4, <1>5 DEF Inv

LEMMA InvSettle ==
  ASSUME Inv, NEW e \in Epochs, NEW c \in BucketCounts,
         NEW mints \in SUBSET Mints, SettleEpoch(e, c, mints)
  PROVE  Inv'
<1>1. TypeOK
  BY DEF Inv
<1>2. /\ TypeOK'
      /\ ~epoch_state[e].settled
      /\ epoch_state'[e] \in EpochState
      /\ epoch_state'[e].settled
      /\ epoch_state'[e].end_ts <= now
      /\ epoch_state'[e].payout_amount = ata[WSOL]
      /\ epoch_state'[e].swapped_in = 0
      /\ epoch_state'[e].buckets_complete = 0
      /\ \A x \in Epochs \ {e} : /\ epoch_state'[x] = epoch_state[x]
                                  /\ allowlist_state'[x] = allowlist_state[x]
      /\ UNCHANGED <<now, ata, bucket_state>>
  BY <1>1, SettleEffect
<1>3. ASSUME NEW m \in Mints
      PROVE  ~bucket_state[e][m].swapped /\ bucket_state[e][m] = NoBucket
  BY <1>2 DEF Inv, BucketsFollowSnapshot, UncreatedIsBlank
<1>4. UncreatedIsBlank' /\ BucketsWithinBounds'
  BY <1>2 DEF Inv, UncreatedIsBlank, BucketsWithinBounds
<1>5. SettledIsOver' /\ BucketsFollowSnapshot'
  BY <1>2, <1>3 DEF Inv, SettledIsOver, BucketsFollowSnapshot
<1>6. SpentMatchesBuckets'
  <2>1. ASSUME NEW x \in Epochs
        PROVE  /\ Spent(x)' = Spent(x)
               /\ epoch_state'[x].swapped_in = Spent(x)
               /\ epoch_state'[x].swapped_in <= epoch_state'[x].payout_amount
    <3>1. Spent(x)' = Spent(x)
      BY <1>2, SpentSame DEF Amount
    <3>2. CASE x = e
      <4>1. Spent(e) = epoch_state[e].swapped_in
        BY DEF Inv, SpentMatchesBuckets
      <4>2. epoch_state[e].swapped_in = 0
        BY <1>2 DEF Inv, UncreatedIsBlank, NoEpoch
      <4>3. ata[WSOL] >= 0
        BY <1>1, MintsAssumption DEF TypeOK
      <4> QED
        BY <1>2, <3>1, <3>2, <4>1, <4>2, <4>3
    <3>3. CASE x # e
      BY <1>2, <3>1, <3>3 DEF Inv, SpentMatchesBuckets
    <3> QED
      BY <3>2, <3>3
  <2> QED
    BY <2>1 DEF SpentMatchesBuckets
<1>7. CompletionCounted'
  <2>1. {m \in Mints : bucket_state[e][m].complete} = {}
    BY <1>3 DEF NoBucket
  <2> QED
    BY <1>2, <2>1, FS_EmptySet DEF Inv, CompletionCounted
<1>8. OutputsBacked'
  <2>1. \A m \in Mints : Outstanding(m)' = Outstanding(m)
    BY <1>2, OutstandingSame
  <2> QED
    BY <1>2, <2>1 DEF Inv, OutputsBacked
<1> QED
  BY <1>2, <1>4, <1>5, <1>6, <1>7, <1>8 DEF Inv

LEMMA InvSwap ==
  ASSUME Inv, NEW e \in Epochs, NEW m \in Mints, NEW a \in Amounts,
         NEW q \in Quotes, NEW min \in Quotes, NEW c \in Counts,
         NEW delta \in Amounts, SwapPayout(e, m, a, q, min, c, delta)
  PROVE  Inv'
<1> DEFINE out == IF m = WSOL THEN a ELSE delta
           b == bucket_state[e][m]
           after == NewBucket(a, out, c)
           es == epoch_state[e]
<1>1. TypeOK
  BY DEF Inv
<1>2. /\ TypeOK'
      /\ es.settled
      /\ ~b.swapped
      /\ m \in allowlist_state[e]
      /\ a \in Nat /\ a > 0
      /\ out \in Nat /\ out > 0
      /\ c \in Nat
      /\ es.swapped_in + a <= es.payout_amount
      /\ epoch_state'[e] = Spend(es, a)
      /\ \A x \in Epochs \ {e} : epoch_state'[x] = epoch_state[x]
      /\ bucket_state'[e][m] = after
      /\ \A x \in Epochs, y \in Mints :
           x # e \/ y # m => bucket_state'[x][y] = bucket_state[x][y]
      /\ m # WSOL => ata'[m] = ata[m] + out
      /\ \A y \in Mints \ {m, WSOL} : ata'[y] = ata[y]
      /\ UNCHANGED <<now, allowlist_state>>
  BY <1>1, SwapEffect
<1>3. /\ b = NoBucket
      /\ b.amount_in = 0 /\ b.amount_out = 0 /\ b.paid_amount = 0 /\ ~b.complete
  BY <1>2 DEF Inv, UncreatedIsBlank, NoBucket
<1>4. /\ after.swapped /\ ~after.complete
      /\ after.amount_in = a /\ after.amount_out = out
      /\ after.recipient_count = c /\ after.cursor = 0 /\ after.paid_amount = 0
  <2>1. a \in Nat /\ out \in Nat /\ c \in Nat
    BY <1>2
  <2> HIDE DEF out, b, es
  <2>2. after = NewBucket(a, out, c)
    OBVIOUS
  <2> HIDE DEF after
  <2> QED
    BY <2>1, <2>2, NewBucketFields
<1>5. /\ es \in EpochState
      /\ Spend(es, a).swapped_in = es.swapped_in + a
      /\ Spend(es, a).settled = es.settled
      /\ Spend(es, a).end_ts = es.end_ts
      /\ Spend(es, a).payout_amount = es.payout_amount
      /\ Spend(es, a).buckets_complete = es.buckets_complete
  <2>1. es \in EpochState
    BY <1>1 DEF TypeOK
  <2> HIDE DEF es
  <2> QED
    BY <1>2, <2>1, SpendFields DEF EpochTerms
<1> HIDE DEF out, b, after, es
<1>6. UncreatedIsBlank'
  <2>1. ASSUME NEW x \in Epochs, ~epoch_state'[x].settled
        PROVE  epoch_state'[x] = NoEpoch
    BY <1>2, <1>5, <2>1 DEF Inv, UncreatedIsBlank
  <2>2. ASSUME NEW x \in Epochs, NEW y \in Mints, ~bucket_state'[x][y].swapped
        PROVE  bucket_state'[x][y] = NoBucket
    BY <1>2, <1>4, <2>2 DEF Inv, UncreatedIsBlank
  <2> QED
    BY <2>1, <2>2 DEF UncreatedIsBlank
<1>12. SettledIsOver'
  BY <1>2, <1>5 DEF Inv, SettledIsOver, es
<1>7. BucketsFollowSnapshot'
  <2> SUFFICES ASSUME NEW x \in Epochs, NEW y \in Mints, bucket_state'[x][y].swapped
               PROVE  /\ epoch_state'[x].settled
                      /\ epoch_state'[x].end_ts <= now'
                      /\ y \in allowlist_state'[x]
                      /\ bucket_state'[x][y].amount_in > 0
                      /\ bucket_state'[x][y].amount_out > 0
    BY DEF BucketsFollowSnapshot
  <2>1. epoch_state'[x].settled = epoch_state[x].settled
        /\ epoch_state'[x].end_ts = epoch_state[x].end_ts
    BY <1>2, <1>5 DEF es
  <2>2. CASE x = e /\ y = m
    BY <1>2, <1>4, <2>1, <2>2 DEF Inv, SettledIsOver, es
  <2>3. CASE x # e \/ y # m
    BY <1>2, <2>1, <2>3 DEF Inv, BucketsFollowSnapshot
  <2> QED
    BY <2>2, <2>3
<1>8. BucketsWithinBounds'
  BY <1>2, <1>4 DEF Inv, BucketsWithinBounds
<1>9. SpentMatchesBuckets'
  <2>1. Spent(e)' = Spent(e) + a
    <3>1. \A y \in Mints \ {m} : Amount(e, y)' = Amount(e, y)
      BY <1>2 DEF Amount
    <3>2. Spent(e)' + Amount(e, m) = Spent(e) + Amount(e, m)'
      BY <1>1, <1>2, <3>1, SpentUpdate
    <3>3. Amount(e, m) = 0 /\ Amount(e, m)' = a
      BY <1>2, <1>3, <1>4 DEF Amount, b
    <3>4. Spent(e) \in Nat /\ Spent(e)' \in Nat
      <4>1. Spent(e) \in Nat
        BY <1>1 DEF Inv, SpentMatchesBuckets, TypeOK, EpochState
      <4>2. [y \in Mints |-> Amount(e, y)'] \in [Mints -> Nat]
        BY <1>2 DEF TypeOK, BucketState, Amount
      <4>3. Total([y \in Mints |-> Amount(e, y)']) \in Nat
        BY <4>2, MintsAssumption, UnitsFinite
      <4> QED
        BY <4>1, <4>3 DEF Spent
    <3> QED
      BY <1>2, <3>2, <3>3, <3>4
  <2>2. \A x \in Epochs \ {e} : Spent(x)' = Spent(x)
    BY <1>2, SpentSame DEF Amount
  <2>3. es.swapped_in = Spent(e)
    BY DEF Inv, SpentMatchesBuckets, es
  <2>4. epoch_state'[e].swapped_in = Spent(e)' 
    BY <1>2, <1>5, <2>1, <2>3
  <2>5. epoch_state'[e].swapped_in <= epoch_state'[e].payout_amount
    BY <1>2, <1>5
  <2> QED
    BY <1>2, <2>2, <2>4, <2>5 DEF Inv, SpentMatchesBuckets
<1>10. CompletionCounted'
  <2>1. ASSUME NEW x \in Epochs, NEW y \in Mints
        PROVE  bucket_state'[x][y].complete <=> bucket_state[x][y].complete
    <3>1. CASE x = e /\ y = m
      BY <1>2, <1>3, <1>4, <3>1 DEF b
    <3>2. CASE x # e \/ y # m
      BY <1>2, <3>2
    <3> QED
      BY <3>1, <3>2
  <2>2. \A x \in Epochs :
          {y \in Mints : bucket_state'[x][y].complete}
            = {y \in Mints : bucket_state[x][y].complete}
    BY <2>1
  <2>3. \A x \in Epochs :
          epoch_state'[x].buckets_complete = epoch_state[x].buckets_complete
    BY <1>2, <1>5 DEF es
  <2> QED
    BY <2>2, <2>3 DEF Inv, CompletionCounted
<1>11. OutputsBacked'
  <2>1. ASSUME NEW y \in Mints \ {WSOL}
        PROVE  ata'[y] >= Outstanding(y)'
    <3>1. ata[y] >= Outstanding(y)
      BY DEF Inv, OutputsBacked
    <3>2. CASE y = m
      <4>1. Outstanding(m)' + Unpaid(e, m) = Outstanding(m) + Unpaid(e, m)'
        BY <1>1, <1>2, <1>8, OutstandingUpdate DEF Inv
      <4>2. Unpaid(e, m) = 0 /\ Unpaid(e, m)' = out
        BY <1>2, <1>3, <1>4 DEF Unpaid, b
      <4>3. Outstanding(m) \in Nat /\ Outstanding(m)' \in Int /\ ata[m] \in Nat
        BY <1>1, <1>2, <1>8, OutstandingNat, OutstandingNatNext DEF Inv, TypeOK
      <4> QED
        BY <1>2, <3>1, <3>2, <4>1, <4>2, <4>3
    <3>3. CASE y # m
      <4>1. Outstanding(y)' = Outstanding(y)
        BY <1>2, <3>3, OutstandingSame
      <4> QED
        BY <1>2, <3>1, <3>3, <4>1
    <3> QED
      BY <3>2, <3>3
  <2> QED
    BY <2>1 DEF OutputsBacked
<1> QED
  BY <1>2, <1>6, <1>7, <1>8, <1>9, <1>10, <1>11, <1>12 DEF Inv

LEMMA InvDistribute ==
  ASSUME Inv, NEW e \in Epochs, NEW m \in Mints, NEW i \in Counts,
         NEW n \in Counts, NEW sum \in Amounts, DistributeBatch(e, m, i, n, sum)
  PROVE  Inv'
<1> DEFINE b == bucket_state[e][m]
           after == Serve(b, n, sum)
           es == epoch_state[e]
           es2 == epoch_state'[e]
<1>1. TypeOK
  BY DEF Inv
<1>2. /\ TypeOK'
      /\ b.swapped
      /\ ~b.complete
      /\ n \in Nat /\ n > 0
      /\ sum \in Nat /\ sum >= n
      /\ b.paid_amount + sum <= b.amount_out
      /\ b.cursor + n <= b.recipient_count
      /\ es2 = IF after.complete THEN CountBucket(es) ELSE es
      /\ \A x \in Epochs \ {e} : epoch_state'[x] = epoch_state[x]
      /\ bucket_state'[e][m] = after
      /\ \A x \in Epochs, y \in Mints :
           x # e \/ y # m => bucket_state'[x][y] = bucket_state[x][y]
      /\ ata[m] >= sum
      /\ ata'[m] = ata[m] - sum
      /\ \A y \in Mints \ {m} : ata'[y] = ata[y]
      /\ UNCHANGED <<now, allowlist_state>>
  BY <1>1, DistributeEffect
<1>3. b \in BucketState /\ es \in EpochState
  BY <1>1 DEF TypeOK
<1>4. /\ after.cursor = b.cursor + n
      /\ after.paid_amount = b.paid_amount + sum
      /\ after.complete = (b.cursor + n = b.recipient_count)
      /\ after.swapped = b.swapped
      /\ after.amount_in = b.amount_in
      /\ after.amount_out = b.amount_out
      /\ after.recipient_count = b.recipient_count
  <2> DEFINE s == Serve(b, n, sum)
  <2> HIDE DEF b
  <2>1. /\ s.cursor = b.cursor + n
        /\ s.paid_amount = b.paid_amount + sum
        /\ s.complete = (b.cursor + n = b.recipient_count)
        /\ BucketTerms(s) = BucketTerms(b)
    BY <1>2, <1>3, ServeFields
  <2> HIDE DEF s
  <2>2. /\ s.swapped = b.swapped
        /\ s.amount_in = b.amount_in
        /\ s.amount_out = b.amount_out
        /\ s.recipient_count = b.recipient_count
    BY <2>1 DEF BucketTerms
  <2>3. after = s
    BY DEF s
  <2> QED
    BY <2>1, <2>2, <2>3
<1>5. /\ CountBucket(es).buckets_complete = es.buckets_complete + 1
      /\ CountBucket(es).settled = es.settled
      /\ CountBucket(es).end_ts = es.end_ts
      /\ CountBucket(es).payout_amount = es.payout_amount
      /\ CountBucket(es).swapped_in = es.swapped_in
  <2> HIDE DEF es
  <2> QED
    BY <1>3, CountBucketFields DEF EpochTerms
<1> HIDE DEF b, after, es, es2
<1>6. /\ es2.settled = es.settled
      /\ es2.end_ts = es.end_ts
      /\ es2.payout_amount = es.payout_amount
      /\ es2.swapped_in = es.swapped_in
      /\ es2.buckets_complete =
           IF after.complete THEN es.buckets_complete + 1 ELSE es.buckets_complete
  BY <1>2, <1>5
<1>7. UncreatedIsBlank'
  <2>1. es.settled
    BY <1>2 DEF Inv, BucketsFollowSnapshot, es, b
  <2>2. ASSUME NEW x \in Epochs, ~epoch_state'[x].settled
        PROVE  epoch_state'[x] = NoEpoch
    BY <1>2, <1>6, <2>1, <2>2 DEF Inv, UncreatedIsBlank, es2
  <2>3. ASSUME NEW x \in Epochs, NEW y \in Mints, ~bucket_state'[x][y].swapped
        PROVE  bucket_state'[x][y] = NoBucket
    <3>1. bucket_state'[e][m].swapped
      BY <1>2, <1>4
    <3>2. x # e \/ y # m
      BY <2>3, <3>1
    <3>3. bucket_state'[x][y] = bucket_state[x][y]
      BY <1>2, <3>2
    <3>4. ~bucket_state[x][y].swapped
      BY <2>3, <3>3
    <3>5. bucket_state[x][y] = NoBucket
      BY <3>4 DEF Inv, UncreatedIsBlank
    <3> QED
      BY <3>3, <3>5
  <2> QED
    BY <2>2, <2>3 DEF UncreatedIsBlank
<1>8. SettledIsOver'
  BY <1>2, <1>6 DEF Inv, SettledIsOver, es, es2
<1>9. BucketsFollowSnapshot'
  <2> SUFFICES ASSUME NEW x \in Epochs, NEW y \in Mints, bucket_state'[x][y].swapped
               PROVE  /\ epoch_state'[x].settled
                      /\ epoch_state'[x].end_ts <= now'
                      /\ y \in allowlist_state'[x]
                      /\ bucket_state'[x][y].amount_in > 0
                      /\ bucket_state'[x][y].amount_out > 0
    BY DEF BucketsFollowSnapshot
  <2>1. /\ epoch_state'[x].settled = epoch_state[x].settled
        /\ epoch_state'[x].end_ts = epoch_state[x].end_ts
    BY <1>2, <1>6 DEF es, es2
  <2>2. CASE x = e /\ y = m
    BY <1>2, <1>4, <2>1, <2>2 DEF Inv, BucketsFollowSnapshot, b
  <2>3. CASE x # e \/ y # m
    BY <1>2, <2>1, <2>3 DEF Inv, BucketsFollowSnapshot
  <2> QED
    BY <2>2, <2>3
<1>10. BucketsWithinBounds'
  <2> SUFFICES ASSUME NEW x \in Epochs, NEW y \in Mints
               PROVE  LET c == bucket_state'[x][y]
                      IN  /\ c.cursor <= c.recipient_count
                          /\ c.cursor <= c.paid_amount
                          /\ c.paid_amount <= c.amount_out
                          /\ c.complete <=> (c.cursor = c.recipient_count /\ c.cursor > 0)
    BY DEF BucketsWithinBounds
  <2>1. CASE x = e /\ y = m
    <3>1. b.cursor <= b.paid_amount
      BY DEF Inv, BucketsWithinBounds, b
    <3>2. b.cursor \in Nat /\ b.paid_amount \in Nat /\ b.recipient_count \in Nat
      BY <1>3 DEF BucketState
    <3>3. after.cursor <= after.recipient_count /\ after.cursor <= after.paid_amount
      BY <1>2, <1>4, <3>1, <3>2
    <3>4. after.paid_amount <= after.amount_out
      BY <1>2, <1>4
    <3>5. after.complete <=> (after.cursor = after.recipient_count)
      BY <1>4, Zenon
    <3>6. after.cursor > 0
      BY <1>2, <1>4, <3>2
    <3> QED
      BY <1>2, <2>1, <3>3, <3>4, <3>5, <3>6
  <2>2. CASE x # e \/ y # m
    BY <1>2, <2>2 DEF Inv, BucketsWithinBounds
  <2> QED
    BY <2>1, <2>2
<1>11. SpentMatchesBuckets'
  <2>1. ASSUME NEW x \in Epochs
        PROVE  Spent(x)' = Spent(x)
    <3>1. \A y \in Mints : Amount(x, y)' = Amount(x, y)
      BY <1>2, <1>4 DEF Amount, b
    <3> QED
      BY <3>1, SpentSame
  <2>2. ASSUME NEW x \in Epochs
        PROVE  /\ epoch_state'[x].swapped_in = epoch_state[x].swapped_in
               /\ epoch_state'[x].payout_amount = epoch_state[x].payout_amount
    BY <1>2, <1>6 DEF es, es2
  <2> QED
    BY <2>1, <2>2 DEF Inv, SpentMatchesBuckets
<1>12. CompletionCounted'
  <2> DEFINE Done(x) == {y \in Mints : bucket_state[x][y].complete}
             DoneNext(x) == {y \in Mints : bucket_state'[x][y].complete}
  <2>1. Done(e) \in SUBSET Mints /\ IsFiniteSet(Done(e)) /\ m \notin Done(e)
    BY <1>2, MintsAssumption, FS_Subset DEF b
  <2>2. es.buckets_complete = Cardinality(Done(e))
    BY DEF Inv, CompletionCounted, es
  <2>3. ASSUME NEW x \in Epochs \ {e}
        PROVE  epoch_state'[x].buckets_complete = Cardinality(DoneNext(x))
    <3>1. DoneNext(x) = Done(x)
      BY <1>2
    <3> QED
      BY <1>2, <3>1 DEF Inv, CompletionCounted
  <2>4. ASSUME after.complete
        PROVE  es2.buckets_complete = Cardinality(DoneNext(e))
    <3>1. DoneNext(e) = Done(e) \cup {m}
      <4>1. ASSUME NEW y \in Mints
            PROVE  bucket_state'[e][y].complete <=> (y = m \/ bucket_state[e][y].complete)
        BY <1>2, <2>4
      <4> QED
        BY <4>1
    <3> HIDE DEF Done, DoneNext
    <3>2. Cardinality(DoneNext(e)) = Cardinality(Done(e)) + 1
      BY <2>1, <3>1, FS_AddElement
    <3> QED
      BY <1>6, <2>2, <2>4, <3>2
  <2>5. ASSUME ~after.complete
        PROVE  es2.buckets_complete = Cardinality(DoneNext(e))
    <3>1. ASSUME NEW y \in Mints
          PROVE  bucket_state'[e][y].complete <=> bucket_state[e][y].complete
      <4>1. CASE y = m
        BY <1>2, <2>5, <4>1 DEF b
      <4>2. CASE y # m
        BY <1>2, <4>2
      <4> QED
        BY <4>1, <4>2
    <3>2. DoneNext(e) = Done(e)
      BY <3>1
    <3> HIDE DEF Done, DoneNext
    <3> QED
      BY <1>6, <2>2, <2>5, <3>2
  <2>6. es2.buckets_complete = Cardinality(DoneNext(e))
    BY <2>4, <2>5
  <2> QED
    BY <2>3, <2>6 DEF CompletionCounted, es2
<1>13. OutputsBacked'
  <2>1. ASSUME NEW y \in Mints \ {WSOL}
        PROVE  ata'[y] >= Outstanding(y)'
    <3>1. ata[y] >= Outstanding(y)
      BY DEF Inv, OutputsBacked
    <3>2. CASE y = m
      <4>1. Outstanding(m)' + Unpaid(e, m) = Outstanding(m) + Unpaid(e, m)'
        BY <1>1, <1>2, <1>10, OutstandingUpdate DEF Inv
      <4>2. Unpaid(e, m)' = Unpaid(e, m) - sum
        <5>1. /\ Unpaid(e, m) = b.amount_out - b.paid_amount
              /\ Unpaid(e, m)' = after.amount_out - after.paid_amount
          BY <1>2 DEF Unpaid, b
        <5>2. b.amount_out \in Nat /\ b.paid_amount \in Nat
          BY <1>3 DEF BucketState
        <5> QED
          BY <1>2, <1>4, <5>1, <5>2
      <4>3. Outstanding(m) \in Nat /\ Outstanding(m)' \in Nat
        BY <1>1, <1>2, <1>10, OutstandingNat, OutstandingNatNext DEF Inv
      <4>4. Unpaid(e, m) \in Nat /\ ata[m] \in Nat
        BY <1>1, UnpaidNat DEF Inv, TypeOK
      <4> QED
        BY <1>2, <3>1, <3>2, <4>1, <4>2, <4>3, <4>4
    <3>3. CASE y # m
      <4>1. Outstanding(y)' = Outstanding(y)
        BY <1>2, <3>3, OutstandingSame
      <4> QED
        BY <1>2, <3>1, <3>3, <4>1
    <3> QED
      BY <3>2, <3>3
  <2> QED
    BY <2>1 DEF OutputsBacked
<1> QED
  BY <1>2, <1>7, <1>8, <1>9, <1>10, <1>11, <1>12, <1>13 DEF Inv

LEMMA InvStep == Inv /\ [Next]_vars => Inv'
  BY StepCases, InvQuiet, InvSettle, InvSwap, InvDistribute

(* The invariants of the payout rounds, for every set of mints, number of  *)
(* epochs and choice of inputs.                                            *)
THEOREM InvCorrect == Spec => []Inv
  BY InvInit, InvStep, PTL DEF Spec

(* swapped_in is the sum of the epoch's buckets and stays within the       *)
(* amount frozen by settle_epoch.                                          *)
THEOREM SpentCorrect == Spec => []SpentMatchesBuckets
<1>1. Inv => SpentMatchesBuckets
  BY DEF Inv
<1> QED
  BY <1>1, InvCorrect, PTL

(* No bucket pays more than its swap measured or past its last recipient.  *)
THEOREM BoundsCorrect == Spec => []BucketsWithinBounds
<1>1. Inv => BucketsWithinBounds
  BY DEF Inv
<1> QED
  BY <1>1, InvCorrect, PTL

(* buckets_complete counts each complete bucket once.                      *)
THEOREM CompletionCorrect == Spec => []CompletionCounted
<1>1. Inv => CompletionCounted
  BY DEF Inv
<1> QED
  BY <1>1, InvCorrect, PTL

(* Buckets follow the list snapshotted by settle_epoch.                    *)
THEOREM SnapshotCorrect == Spec => []BucketsFollowSnapshot
<1>1. Inv => BucketsFollowSnapshot
  BY DEF Inv
<1> QED
  BY <1>1, InvCorrect, PTL

(* The shared account of every mint but WSOL covers all its buckets.       *)
THEOREM OutputsCorrect == Spec => []OutputsBacked
<1>1. Inv => OutputsBacked
  BY DEF Inv
<1> QED
  BY <1>1, InvCorrect, PTL

----------------------------------------------------------------------------
(* No step rewrites what settle and swap froze.                            *)
LEMMA FrozenStep ==
  ASSUME Inv, [Next]_vars, NEW e \in Epochs
  PROVE  EpochStep(e) /\ \A m \in Mints : BucketStep(e, m)
<1>1. /\ TypeOK /\ TypeOK'
      /\ epoch_state[e] \in EpochState /\ epoch_state'[e] \in EpochState
  BY TypeStep DEF Inv, TypeOK
<1>2. ASSUME NEW m \in Mints
      PROVE  /\ bucket_state[e][m] \in BucketState
             /\ bucket_state'[e][m] \in BucketState
             /\ bucket_state[e][m].complete => bucket_state[e][m].swapped
  BY <1>1 DEF TypeOK, Inv, UncreatedIsBlank, NoBucket
<1>3. ASSUME epoch_state'[e] = epoch_state[e], allowlist_state'[e] = allowlist_state[e]
      PROVE  EpochStep(e)
  BY <1>1, <1>3 DEF EpochStep, EpochState
<1>4. ASSUME NEW m \in Mints, bucket_state'[e][m] = bucket_state[e][m]
      PROVE  BucketStep(e, m)
  BY <1>2, <1>4 DEF BucketStep, BucketState
<1>5. CASE QuietStep
  BY <1>1, <1>3, <1>4, <1>5, QuietEffect DEF Quiet
<1>6. ASSUME NEW x \in Epochs, NEW c \in BucketCounts,
             NEW mints \in SUBSET Mints, SettleEpoch(x, c, mints)
      PROVE  EpochStep(e) /\ \A m \in Mints : BucketStep(e, m)
  <2>1. /\ ~epoch_state[x].settled
        /\ x # e => /\ epoch_state'[e] = epoch_state[e]
                    /\ allowlist_state'[e] = allowlist_state[e]
        /\ bucket_state' = bucket_state
    BY <1>1, <1>6, SettleEffect
  <2>2. EpochStep(e)
    <3>1. CASE x = e
      BY <2>1, <3>1 DEF EpochStep
    <3>2. CASE x # e
      BY <1>3, <2>1, <3>2
    <3> QED
      BY <3>1, <3>2
  <2> QED
    BY <1>4, <2>1, <2>2
<1>7. ASSUME NEW x \in Epochs, NEW m \in Mints, NEW a \in Amounts,
             NEW q \in Quotes, NEW min \in Quotes, NEW c \in Counts,
             NEW delta \in Amounts, SwapPayout(x, m, a, q, min, c, delta)
      PROVE  EpochStep(e) /\ \A y \in Mints : BucketStep(e, y)
  <2>1. /\ ~bucket_state[x][m].swapped
        /\ a \in Nat
        /\ x = e => epoch_state'[e] = Spend(epoch_state[e], a)
        /\ x # e => epoch_state'[e] = epoch_state[e]
        /\ \A y \in Mints :
             x # e \/ y # m => bucket_state'[e][y] = bucket_state[e][y]
        /\ allowlist_state' = allowlist_state
    BY <1>1, <1>7, SwapEffect
  <2>2. EpochStep(e)
    <3>1. CASE x = e
      <4> DEFINE es == epoch_state[e]
      <4> HIDE DEF es
      <4>1. es \in EpochState
        BY <1>1 DEF es
      <4>2. /\ Spend(es, a).swapped_in = es.swapped_in + a
            /\ EpochTerms(Spend(es, a)) = EpochTerms(es)
            /\ Spend(es, a).buckets_complete = es.buckets_complete
        BY <2>1, <4>1, SpendFields
      <4>3. es.swapped_in \in Nat /\ es.buckets_complete \in Nat
        BY <4>1 DEF EpochState
      <4>4. epoch_state'[e] = Spend(es, a)
        BY <2>1, <3>1 DEF es
      <4> QED
        BY <2>1, <4>2, <4>3, <4>4 DEF EpochStep, es
    <3>2. CASE x # e
      BY <1>3, <2>1, <3>2
    <3> QED
      BY <3>1, <3>2
  <2>3. ASSUME NEW y \in Mints
        PROVE  BucketStep(e, y)
    <3>1. CASE x = e /\ y = m
      BY <1>2, <2>1, <3>1 DEF BucketStep
    <3>2. CASE x # e \/ y # m
      BY <1>4, <2>1, <3>2
    <3> QED
      BY <3>1, <3>2
  <2> QED
    BY <2>2, <2>3
<1>8. ASSUME NEW x \in Epochs, NEW m \in Mints, NEW i \in Counts,
             NEW n \in Counts, NEW sum \in Amounts, DistributeBatch(x, m, i, n, sum)
      PROVE  EpochStep(e) /\ \A y \in Mints : BucketStep(e, y)
  <2>1. /\ ~bucket_state[x][m].complete
        /\ n \in Nat /\ sum \in Nat /\ sum >= n
        /\ x = e => \/ epoch_state'[e] = epoch_state[e]
                    \/ epoch_state'[e] = CountBucket(epoch_state[e])
        /\ x # e => epoch_state'[e] = epoch_state[e]
        /\ bucket_state'[x][m] = Serve(bucket_state[x][m], n, sum)
        /\ \A y \in Mints :
             x # e \/ y # m => bucket_state'[e][y] = bucket_state[e][y]
        /\ allowlist_state' = allowlist_state
    BY <1>1, <1>8, DistributeEffect
  <2>2. EpochStep(e)
    <3>1. CASE epoch_state'[e] = CountBucket(epoch_state[e])
      <4> DEFINE es == epoch_state[e]
      <4> HIDE DEF es
      <4>1. es \in EpochState
        BY <1>1 DEF es
      <4>2. /\ CountBucket(es).swapped_in = es.swapped_in
            /\ EpochTerms(CountBucket(es)) = EpochTerms(es)
            /\ CountBucket(es).buckets_complete = es.buckets_complete + 1
        BY <4>1, CountBucketFields
      <4>3. es.swapped_in \in Nat /\ es.buckets_complete \in Nat
        BY <4>1 DEF EpochState
      <4>4. epoch_state'[e] = CountBucket(es)
        BY <3>1 DEF es
      <4> QED
        BY <2>1, <4>2, <4>3, <4>4 DEF EpochStep, es
    <3>2. CASE epoch_state'[e] = epoch_state[e]
      BY <1>3, <2>1, <3>2
    <3> QED
      BY <2>1, <3>1, <3>2
  <2>3. ASSUME NEW y \in Mints
        PROVE  BucketStep(e, y)
    <3>1. CASE x = e /\ y = m
      <4> DEFINE b == bucket_state[e][m]
                 after == Serve(b, n, sum)
      <4>1. b \in BucketState /\ ~b.complete /\ bucket_state'[e][m] = after
        BY <1>2, <2>1, <3>1
      <4> HIDE DEF b
      <4>2. /\ after.cursor = b.cursor + n
            /\ after.paid_amount = b.paid_amount + sum
            /\ BucketTerms(after) = BucketTerms(b)
        BY <2>1, <4>1, ServeFields
      <4>3. b.cursor \in Nat /\ b.paid_amount \in Nat
        BY <4>1 DEF BucketState
      <4> HIDE DEF after
      <4>4. /\ after.cursor >= b.cursor
            /\ after.paid_amount - b.paid_amount >= after.cursor - b.cursor
        BY <2>1, <4>2, <4>3
      <4> QED
        BY <3>1, <4>1, <4>2, <4>4 DEF BucketStep, b
    <3>2. CASE x # e \/ y # m
      BY <1>4, <2>1, <3>2
    <3> QED
      BY <3>1, <3>2
  <2> QED
    BY <2>2, <2>3
<1> QED
  BY <1>5, <1>6, <1>7, <1>8, StepCases

(* Frozen terms never change and cursors never go back.                    *)
THEOREM FrozenCorrect == Spec => RecordsFrozen
<1>1. Inv /\ [Next]_vars =>
        [\A e \in Epochs : EpochStep(e) /\ \A m \in Mints : BucketStep(e, m)]_vars
  BY FrozenStep
<1> QED
  BY <1>1, InvCorrect, PTL DEF Spec, RecordsFrozen

----------------------------------------------------------------------------
(* The rounds implement PayoutPromise: under the mapping of module Payout  *)
(* each step is a step of the promise, or changes none of what it speaks   *)
(* about.                                                                  *)
Rest(e) == epoch_state[e].payout_amount - epoch_state[e].swapped_in
Queue(e, m) == bucket_state[e][m].recipient_count - bucket_state[e][m].cursor

RestBar == [e \in Epochs |-> Rest(e)]
FrozenBar == {e \in Epochs : epoch_state[e].settled}
OpenedBar == {em \in Epochs \X Mints : bucket_state[em[1]][em[2]].swapped}
PotBar == [e \in Epochs |-> [m \in Mints |-> Unpaid(e, m)]]
QueueBar == [e \in Epochs |-> [m \in Mints |-> Queue(e, m)]]

LEMMA PromiseInitially == Init => Promise!PromiseInit
<1> SUFFICES ASSUME Init PROVE Promise!PromiseInit
  OBVIOUS
<1>1. \A e \in Epochs : ~epoch_state[e].settled /\ Rest(e) = 0
  BY DEF Init, NoEpoch, Rest
<1>2. \A e \in Epochs, m \in Mints :
        ~bucket_state[e][m].swapped /\ Unpaid(e, m) = 0 /\ Queue(e, m) = 0
  BY DEF Init, NoBucket, Unpaid, Queue
<1>3. RestBar = [e \in Epochs |-> 0]
  BY <1>1 DEF RestBar
<1>4. PotBar = [e \in Epochs |-> [m \in Mints |-> 0]]
  BY <1>2 DEF PotBar
<1>5. QueueBar = [e \in Epochs |-> [m \in Mints |-> 0]]
  BY <1>2 DEF QueueBar
<1>6. FrozenBar = {} /\ OpenedBar = {}
  BY <1>1, <1>2 DEF FrozenBar, OpenedBar
<1> QED
  BY <1>3, <1>4, <1>5, <1>6
     DEF Promise!PromiseInit, RestBar, Rest, FrozenBar, OpenedBar, PotBar, QueueBar, Queue

LEMMA PromiseKeptOnSettle ==
  ASSUME Inv, NEW e \in Epochs, NEW c \in BucketCounts,
         NEW mints \in SUBSET Mints, SettleEpoch(e, c, mints)
  PROVE  Promise!Freeze(e)
<1>1. /\ TypeOK'
      /\ ~epoch_state[e].settled
      /\ epoch_state'[e].settled
      /\ epoch_state'[e].payout_amount = ata[WSOL]
      /\ epoch_state'[e].swapped_in = 0
      /\ \A x \in Epochs \ {e} : epoch_state'[x] = epoch_state[x]
      /\ UNCHANGED bucket_state
  BY SettleEffect DEF Inv
<1>2. e \notin FrozenBar /\ FrozenBar' = FrozenBar \cup {e}
  BY <1>1 DEF FrozenBar
<1>3. Rest(e)' \in Nat
  BY <1>1, MintsAssumption DEF Inv, TypeOK, Rest
<1>4. RestBar'[e] >= 0
  BY <1>3 DEF RestBar
<1>5. RestBar' = [RestBar EXCEPT ![e] = RestBar'[e]]
  <2>1. \A x \in Epochs \ {e} : Rest(x)' = Rest(x)
    BY <1>1 DEF Rest
  <2> QED
    BY <2>1 DEF RestBar
<1>6. UNCHANGED <<OpenedBar, PotBar, QueueBar>>
  BY <1>1 DEF OpenedBar, PotBar, QueueBar, Unpaid, Queue
<1> QED
  BY <1>2, <1>4, <1>5, <1>6
     DEF Promise!Freeze, RestBar, Rest, FrozenBar, OpenedBar, PotBar, QueueBar, Queue

LEMMA PromiseKeptOnSwap ==
  ASSUME Inv, NEW e \in Epochs, NEW m \in Mints, NEW a \in Amounts,
         NEW q \in Quotes, NEW min \in Quotes, NEW c \in Counts,
         NEW delta \in Amounts, SwapPayout(e, m, a, q, min, c, delta)
  PROVE  Promise!Open(e, m)
<1> DEFINE out == IF m = WSOL THEN a ELSE delta
           after == NewBucket(a, out, c)
           es == epoch_state[e]
<1>1. /\ TypeOK /\ TypeOK'
      /\ es.settled
      /\ ~bucket_state[e][m].swapped
      /\ a \in Nat /\ a > 0
      /\ out \in Nat /\ out > 0
      /\ c \in Nat
      /\ es.swapped_in + a <= es.payout_amount
      /\ epoch_state'[e] = Spend(es, a)
      /\ \A x \in Epochs \ {e} : epoch_state'[x] = epoch_state[x]
      /\ bucket_state'[e][m] = after
      /\ \A x \in Epochs, y \in Mints :
           x # e \/ y # m => bucket_state'[x][y] = bucket_state[x][y]
  BY SwapEffect DEF Inv
<1>2. /\ after.swapped /\ after.amount_out = out
      /\ after.recipient_count = c /\ after.cursor = 0 /\ after.paid_amount = 0
  <2>1. out \in Nat
    BY <1>1
  <2> HIDE DEF out
  <2>2. after = NewBucket(a, out, c)
    OBVIOUS
  <2> HIDE DEF after
  <2> QED
    BY <1>1, <2>1, <2>2, NewBucketFields
<1>3. /\ es \in EpochState
      /\ Spend(es, a).swapped_in = es.swapped_in + a
      /\ Spend(es, a).settled = es.settled
      /\ Spend(es, a).payout_amount = es.payout_amount
  <2>1. es \in EpochState
    BY <1>1 DEF TypeOK
  <2> HIDE DEF es
  <2> QED
    BY <1>1, <2>1, SpendFields DEF EpochTerms
<1> HIDE DEF out, after, es
<1>4. e \in FrozenBar /\ UNCHANGED FrozenBar
  <2>1. \A x \in Epochs : epoch_state'[x].settled = epoch_state[x].settled
    BY <1>1, <1>3 DEF es
  <2> QED
    BY <1>1, <2>1 DEF FrozenBar, es
<1>5. <<e, m>> \notin OpenedBar /\ OpenedBar' = OpenedBar \cup {<<e, m>>}
  <2>1. \A x \in Epochs, y \in Mints :
          bucket_state'[x][y].swapped <=>
            (bucket_state[x][y].swapped \/ (x = e /\ y = m))
    BY <1>1, <1>2
  <2> QED
    BY <1>1, <2>1 DEF OpenedBar
<1>6. 0 <= Rest(e)' /\ Rest(e)' < Rest(e)
  BY <1>1, <1>3 DEF Rest, EpochState, es
<1>7. RestBar' = [RestBar EXCEPT ![e] = RestBar'[e]]
  <2>1. \A x \in Epochs \ {e} : Rest(x)' = Rest(x)
    BY <1>1 DEF Rest
  <2> QED
    BY <2>1 DEF RestBar
<1>8. Unpaid(e, m)' > 0 /\ Queue(e, m)' >= 0
  BY <1>1, <1>2 DEF Unpaid, Queue
<1>9. /\ PotBar' = [PotBar EXCEPT ![e][m] = PotBar'[e][m]]
      /\ QueueBar' = [QueueBar EXCEPT ![e][m] = QueueBar'[e][m]]
  <2>1. \A x \in Epochs, y \in Mints : x # e \/ y # m =>
          Unpaid(x, y)' = Unpaid(x, y) /\ Queue(x, y)' = Queue(x, y)
    BY <1>1 DEF Unpaid, Queue
  <2> QED
    BY <2>1 DEF PotBar, QueueBar
<1>10. /\ RestBar[e] = Rest(e) /\ RestBar'[e] = Rest(e)'
       /\ PotBar'[e][m] = Unpaid(e, m)' /\ QueueBar'[e][m] = Queue(e, m)'
  BY DEF RestBar, PotBar, QueueBar
<1> QED
  BY <1>4, <1>5, <1>6, <1>7, <1>8, <1>9, <1>10
     DEF Promise!Open, RestBar, Rest, FrozenBar, OpenedBar, PotBar, QueueBar, Queue

LEMMA PromiseKeptOnDistribute ==
  ASSUME Inv, NEW e \in Epochs, NEW m \in Mints, NEW i \in Counts,
         NEW n \in Counts, NEW sum \in Amounts, DistributeBatch(e, m, i, n, sum)
  PROVE  Promise!Serve(e, m)
<1> DEFINE b == bucket_state[e][m]
           after == Serve(b, n, sum)
           es == epoch_state[e]
<1>1. /\ TypeOK /\ TypeOK'
      /\ b.swapped
      /\ n \in Nat /\ n > 0
      /\ sum \in Nat /\ sum >= n
      /\ b.paid_amount + sum <= b.amount_out
      /\ b.cursor + n <= b.recipient_count
      /\ epoch_state'[e] = es \/ epoch_state'[e] = CountBucket(es)
      /\ \A x \in Epochs \ {e} : epoch_state'[x] = epoch_state[x]
      /\ bucket_state'[e][m] = after
      /\ \A x \in Epochs, y \in Mints :
           x # e \/ y # m => bucket_state'[x][y] = bucket_state[x][y]
  BY DistributeEffect DEF Inv
<1>2. b \in BucketState /\ es \in EpochState
  BY <1>1 DEF TypeOK
<1>3. /\ after.cursor = b.cursor + n
      /\ after.paid_amount = b.paid_amount + sum
      /\ BucketTerms(after) = BucketTerms(b)
  <2> HIDE DEF b
  <2> QED
    BY <1>1, <1>2, ServeFields
<1>4. EpochTerms(CountBucket(es)) = EpochTerms(es)
      /\ CountBucket(es).swapped_in = es.swapped_in
  <2> HIDE DEF es
  <2> QED
    BY <1>2, CountBucketFields
<1> HIDE DEF b, after, es
<1>5. /\ after.swapped = b.swapped /\ after.amount_out = b.amount_out
      /\ after.recipient_count = b.recipient_count
  BY <1>3 DEF BucketTerms
<1>6. /\ epoch_state'[e].settled = es.settled
      /\ epoch_state'[e].payout_amount = es.payout_amount
      /\ epoch_state'[e].swapped_in = es.swapped_in
  BY <1>1, <1>4 DEF EpochTerms
<1>7. UNCHANGED <<RestBar, FrozenBar, OpenedBar>>
  <2>1. \A x \in Epochs : /\ epoch_state'[x].settled = epoch_state[x].settled
                          /\ Rest(x)' = Rest(x)
    BY <1>1, <1>6 DEF Rest, es
  <2>2. \A x \in Epochs, y \in Mints :
          bucket_state'[x][y].swapped = bucket_state[x][y].swapped
    BY <1>1, <1>5 DEF b
  <2> QED
    BY <2>1, <2>2 DEF RestBar, FrozenBar, OpenedBar
<1>8. <<e, m>> \in OpenedBar
  BY <1>1 DEF OpenedBar, b
<1>9. /\ 0 <= Queue(e, m)' /\ Queue(e, m)' < Queue(e, m)
      /\ 0 <= Unpaid(e, m)'
      /\ Unpaid(e, m) - Unpaid(e, m)' >= Queue(e, m) - Queue(e, m)'
  <2>1. /\ b.cursor \in Nat /\ b.recipient_count \in Nat
        /\ b.paid_amount \in Nat /\ b.amount_out \in Nat
    BY <1>2 DEF BucketState
  <2>2. /\ Queue(e, m) = b.recipient_count - b.cursor
        /\ Queue(e, m)' = b.recipient_count - (b.cursor + n)
    BY <1>1, <1>3, <1>5 DEF Queue, b
  <2>3. /\ Unpaid(e, m) = b.amount_out - b.paid_amount
        /\ Unpaid(e, m)' = b.amount_out - (b.paid_amount + sum)
    BY <1>1, <1>3, <1>5 DEF Unpaid, b
  <2> QED
    BY <1>1, <2>1, <2>2, <2>3
<1>10. /\ PotBar' = [PotBar EXCEPT ![e][m] = PotBar'[e][m]]
       /\ QueueBar' = [QueueBar EXCEPT ![e][m] = QueueBar'[e][m]]
  <2>1. \A x \in Epochs, y \in Mints : x # e \/ y # m =>
          Unpaid(x, y)' = Unpaid(x, y) /\ Queue(x, y)' = Queue(x, y)
    BY <1>1 DEF Unpaid, Queue
  <2> QED
    BY <2>1 DEF PotBar, QueueBar
<1>11. /\ PotBar[e][m] = Unpaid(e, m) /\ QueueBar[e][m] = Queue(e, m)
       /\ PotBar'[e][m] = Unpaid(e, m)' /\ QueueBar'[e][m] = Queue(e, m)'
  BY DEF PotBar, QueueBar
<1> QED
  BY <1>7, <1>8, <1>9, <1>10, <1>11
     DEF Promise!Serve, RestBar, Rest, FrozenBar, OpenedBar, PotBar, QueueBar, Queue

LEMMA PromiseStep ==
  ASSUME Inv, [Next]_vars
  PROVE  [Promise!PromiseNext]_(Promise!promise)
<1>1. CASE QuietStep
  <2>1. UNCHANGED <<epoch_state, bucket_state>>
    BY <1>1, QuietEffect DEF Inv, Quiet
  <2> QED
    BY <2>1 DEF Promise!promise, Unpaid
<1>2. CASE \E e \in Epochs, c \in BucketCounts, mints \in SUBSET Mints :
             SettleEpoch(e, c, mints)
  BY <1>2, PromiseKeptOnSettle DEF Promise!PromiseNext
<1>3. CASE \E e \in Epochs, m \in Mints, a, delta \in Amounts,
              q, min \in Quotes, c \in Counts :
             SwapPayout(e, m, a, q, min, c, delta)
  BY <1>3, PromiseKeptOnSwap DEF Promise!PromiseNext
<1>4. CASE \E e \in Epochs, m \in Mints, i, n \in Counts, sum \in Amounts :
             DistributeBatch(e, m, i, n, sum)
  BY <1>4, PromiseKeptOnDistribute DEF Promise!PromiseNext
<1> QED
  BY <1>1, <1>2, <1>3, <1>4, StepCases

(* The payout rounds keep their promise, whatever the keeper, the admin    *)
(* and the venue do.                                                       *)
THEOREM PromiseKept == Spec => KeepsPromise
<1>1. Init => Promise!PromiseInit
  BY PromiseInitially
<1>2. Inv /\ [Next]_vars => [Promise!PromiseNext]_(Promise!promise)
  BY PromiseStep
<1> QED
  BY <1>1, <1>2, InvCorrect, PTL DEF Spec, KeepsPromise, Promise!PromiseSpec

----------------------------------------------------------------------------
(* Module PayoutRounds: rounds that do not overlap are funded, and WSOL is *)
(* conserved whether or not they do.                                       *)

(* A WSOL bucket is opened one to one, so it owes at most what its epoch   *)
(* has spent.                                                              *)
WsolBucketsSpent ==
  \A e \in Epochs : bucket_state[e][WSOL].amount_out <= epoch_state[e].swapped_in

RoundsInv ==
  /\ Inv
  /\ RoundsTypeOK
  /\ WsolBucketsSpent
  /\ WsolConserved
  /\ RoundFunded

Gone == Total([e \in Epochs |-> WsolGone(e)])

LEMMA WsolIsMint == WSOL \in Mints
  BY MintsAssumption

(* The numbers the sums below are made of.                                 *)
LEMMA GoneTypes ==
  ASSUME TypeOK, BucketsWithinBounds, WsolBucketsSpent, NEW e \in Epochs
  PROVE  /\ epoch_state[e].swapped_in \in Nat
         /\ epoch_state[e].payout_amount \in Nat
         /\ Unpaid(e, WSOL) \in Nat
         /\ WsolGone(e) \in Nat
         /\ ata[WSOL] \in Nat
<1>1. epoch_state[e].swapped_in \in Nat /\ epoch_state[e].payout_amount \in Nat
  BY DEF TypeOK, EpochState
<1>2. Unpaid(e, WSOL) \in Nat
  BY UnpaidNat, WsolIsMint
<1>3. Unpaid(e, WSOL) <= epoch_state[e].swapped_in
  BY <1>1, WsolIsMint DEF Unpaid, WsolBucketsSpent, TypeOK, BucketState
<1>4. ata[WSOL] \in Nat
  BY WsolIsMint DEF TypeOK
<1> QED
  BY <1>1, <1>2, <1>3, <1>4 DEF WsolGone

LEMMA GoneTypesNext ==
  ASSUME TypeOK', BucketsWithinBounds', WsolBucketsSpent', NEW e \in Epochs
  PROVE  /\ epoch_state'[e].swapped_in \in Nat
         /\ epoch_state'[e].payout_amount \in Nat
         /\ Unpaid(e, WSOL)' \in Nat
         /\ WsolGone(e)' \in Nat
         /\ ata'[WSOL] \in Nat
<1>1. epoch_state'[e].swapped_in \in Nat /\ epoch_state'[e].payout_amount \in Nat
  BY DEF TypeOK, EpochState
<1>2. Unpaid(e, WSOL)' \in Nat
  BY UnpaidNatNext, WsolIsMint
<1>3. Unpaid(e, WSOL)' <= epoch_state'[e].swapped_in
  BY <1>1, WsolIsMint DEF Unpaid, WsolBucketsSpent, TypeOK, BucketState
<1>4. ata'[WSOL] \in Nat
  BY WsolIsMint DEF TypeOK
<1> QED
  BY <1>1, <1>2, <1>3, <1>4 DEF WsolGone

LEMMA GoneNat ==
  ASSUME TypeOK, BucketsWithinBounds, WsolBucketsSpent
  PROVE  Gone \in Nat
<1> DEFINE f == [e \in Epochs |-> WsolGone(e)]
<1>1. f \in [Epochs -> Nat]
  BY GoneTypes
<1> HIDE DEF f
<1>2. Total(f) \in Nat
  BY <1>1, EpochsFinite, UnitsFinite
<1> QED
  BY <1>2 DEF Gone, f

LEMMA GoneUpdate ==
  ASSUME TypeOK, BucketsWithinBounds, WsolBucketsSpent,
         TypeOK', BucketsWithinBounds', WsolBucketsSpent', NEW e \in Epochs,
         \A x \in Epochs \ {e} : WsolGone(x)' = WsolGone(x)
  PROVE  /\ Gone' + WsolGone(e) = Gone + WsolGone(e)'
         /\ Gone \in Nat /\ Gone' \in Nat
<1> DEFINE f == [x \in Epochs |-> WsolGone(x)]
           g == [x \in Epochs |-> WsolGone(x)']
<1>1. f \in [Epochs -> Nat] /\ g \in [Epochs -> Nat]
  BY GoneTypes, GoneTypesNext
<1>2. \A x \in Epochs \ {e} : g[x] = f[x]
  OBVIOUS
<1>3. f[e] = WsolGone(e) /\ g[e] = WsolGone(e)'
  OBVIOUS
<1>4. Gone = Total(f) /\ Gone' = Total(g)
  BY DEF Gone
<1> HIDE DEF f, g
<1>5. Total(g) + f[e] = Total(f) + g[e]
  BY <1>1, <1>2, EpochsFinite, TotalUpdate
<1>6. Total(f) \in Nat /\ Total(g) \in Nat
  BY <1>1, EpochsFinite, UnitsFinite
<1> QED
  BY <1>3, <1>4, <1>5, <1>6

LEMMA GoneSame ==
  ASSUME \A x \in Epochs : WsolGone(x)' = WsolGone(x)
  PROVE  Gone' = Gone
<1>1. [x \in Epochs |-> WsolGone(x)'] = [x \in Epochs |-> WsolGone(x)]
  OBVIOUS
<1> QED
  BY <1>1 DEF Gone

LEMMA ConservedIsGone == WsolConserved <=> credited = ata[WSOL] + Gone
  BY DEF WsolConserved, Gone

(* Every step of RoundsSpec is a step of Payout.                           *)
LEMMA RoundsStepIsStep == [RoundsNext]_roundVars => [Next]_vars
  BY DEF RoundsNext, roundVars, CreditRecorded, SettleRecorded, SwapRecorded,
         Unrecorded, Next, KeeperStep

----------------------------------------------------------------------------
LEMMA RoundsInvInit == RoundsInit => RoundsInv
<1> SUFFICES ASSUME RoundsInit PROVE RoundsInv
  OBVIOUS
<1>1. Inv
  BY InvInit DEF RoundsInit
<1>2. RoundsTypeOK
  BY DEF RoundsInit, RoundsTypeOK
<1>3. /\ \A e \in Epochs : /\ epoch_state[e].swapped_in = 0
                           /\ bucket_state[e][WSOL].amount_out = 0
                           /\ WsolGone(e) = 0
                           /\ Unpaid(e, WSOL) = 0
      /\ ata[WSOL] = 0
  BY WsolIsMint DEF RoundsInit, Init, NoEpoch, NoBucket, WsolGone, Unpaid
<1>4. WsolBucketsSpent
  BY <1>3 DEF WsolBucketsSpent
<1>5. WsolConserved
  <2> DEFINE f == [e \in Epochs |-> WsolGone(e)]
  <2>1. f \in [Epochs -> Nat] /\ \A e \in Epochs : f[e] = 0
    BY <1>3
  <2> HIDE DEF f
  <2>2. Total(f) = 0
    BY <2>1, TotalZero
  <2> QED
    BY <1>3, <2>2 DEF WsolConserved, RoundsInit, f
<1>6. RoundFunded
  <2> DEFINE f == [e \in Epochs |-> Unpaid(e, WSOL)]
  <2>1. f \in [Epochs -> Nat] /\ \A e \in Epochs : f[e] = 0
    BY <1>3
  <2> HIDE DEF f
  <2>2. Total(f) = 0
    BY <2>1, TotalZero
  <2>3. Outstanding(WSOL) = 0
    BY <2>2 DEF Outstanding, f
  <2> QED
    BY <1>3, <2>3 DEF RoundFunded, Unswapped, RoundsInit
<1> QED
  BY <1>1, <1>2, <1>4, <1>5, <1>6 DEF RoundsInv

(* The part of RoundsInv that every kind of step keeps in the same way.    *)
LEMMA RoundsInvParts ==
  ASSUME RoundsInv
  PROVE  /\ TypeOK /\ BucketsWithinBounds /\ WsolBucketsSpent
         /\ ata[WSOL] \in Nat /\ credited \in Nat
         /\ Gone \in Nat /\ credited = ata[WSOL] + Gone
         /\ Outstanding(WSOL) \in Nat
<1>1. /\ TypeOK /\ BucketsWithinBounds /\ WsolBucketsSpent
      /\ RoundsTypeOK /\ WsolConserved
  BY DEF RoundsInv, Inv
<1> QED
  BY <1>1, GoneNat, ConservedIsGone, WsolIsMint, OutstandingNat
     DEF RoundsTypeOK, TypeOK

LEMMA RoundsQuiet ==
  ASSUME RoundsInv, Quiet, TypeOK', Inv', RoundsTypeOK',
         UNCHANGED <<last_round, overlapped>>,
         credited' - credited = ata'[WSOL] - ata[WSOL]
  PROVE  RoundsInv'
<1>1. UNCHANGED <<epoch_state, bucket_state>> /\ ata'[WSOL] >= ata[WSOL]
  BY DEF Quiet
<1>2. WsolBucketsSpent'
  BY <1>1 DEF RoundsInv, WsolBucketsSpent
<1>3. Gone' = Gone
  BY <1>1, GoneSame DEF WsolGone, Unpaid
<1>4. Outstanding(WSOL)' = Outstanding(WSOL)
  BY <1>1, WsolIsMint, OutstandingSame
<1>5. ata'[WSOL] \in Nat /\ credited' \in Nat
  BY WsolIsMint DEF TypeOK, RoundsTypeOK
<1>6. WsolConserved'
  <2>1. credited' = ata'[WSOL] + Gone'
    BY <1>3, <1>5, RoundsInvParts
  <2> QED
    BY <2>1 DEF WsolConserved, Gone
<1>7. RoundFunded'
  <2>1. Unswapped' = Unswapped
    BY <1>1 DEF Unswapped
  <2>2. Unswapped \in Int
    BY DEF RoundsInv, Inv, TypeOK, EpochState, RoundsTypeOK, Unswapped
  <2>3. overlapped' = overlapped /\ RoundFunded
    BY DEF RoundsInv
  <2>4. Outstanding(WSOL) \in Nat /\ ata[WSOL] \in Nat
    BY RoundsInvParts
  <2> QED
    BY <1>1, <1>4, <1>5, <2>1, <2>2, <2>3, <2>4 DEF RoundFunded
<1> QED
  BY <1>2, <1>6, <1>7 DEF RoundsInv

LEMMA RoundsSettle ==
  ASSUME RoundsInv, Inv', NEW e \in Epochs, NEW c \in BucketCounts,
         NEW mints \in SUBSET Mints, SettleRecorded(e, c, mints)
  PROVE  RoundsInv'
<1>1. /\ TypeOK'
      /\ ~epoch_state[e].settled
      /\ epoch_state'[e].payout_amount = ata[WSOL]
      /\ epoch_state'[e].swapped_in = 0
      /\ \A x \in Epochs \ {e} : epoch_state'[x] = epoch_state[x]
      /\ ata' = ata /\ bucket_state' = bucket_state
  BY SettleEffect DEF RoundsInv, Inv, SettleRecorded
<1>2. /\ last_round' = e /\ credited' = credited
      /\ overlapped' = (overlapped \/ Outstanding(WSOL) > 0)
  BY DEF SettleRecorded
<1>3. RoundsTypeOK'
  BY <1>2 DEF RoundsInv, RoundsTypeOK
<1>4. epoch_state[e].swapped_in = 0 /\ \A m \in Mints : bucket_state[e][m] = NoBucket
  BY <1>1 DEF RoundsInv, Inv, UncreatedIsBlank, BucketsFollowSnapshot, NoEpoch
<1>5. \A x \in Epochs : epoch_state'[x].swapped_in = epoch_state[x].swapped_in
  BY <1>1, <1>4
<1>6. WsolBucketsSpent'
  BY <1>1, <1>5 DEF RoundsInv, WsolBucketsSpent
<1>7. WsolConserved'
  <2>1. Gone' = Gone
    BY <1>1, <1>5, GoneSame DEF WsolGone, Unpaid
  <2> QED
    BY <1>1, <1>2, <2>1, RoundsInvParts DEF WsolConserved, Gone
<1>8. RoundFunded'
  <2>1. Outstanding(WSOL)' = Outstanding(WSOL)
    BY <1>1, WsolIsMint, OutstandingSame
  <2>2. Unswapped' = ata[WSOL]
    <3>1. e # None
      BY EpochsFinite DEF None
    <3>2. ata[WSOL] \in Nat
      BY RoundsInvParts
    <3> QED
      BY <1>1, <1>2, <3>1, <3>2 DEF Unswapped
  <2>3. ASSUME ~overlapped'
        PROVE  ~(Outstanding(WSOL) > 0)
    BY <1>2, <2>3, Zenon
  <2>4. Outstanding(WSOL) \in Nat /\ ata[WSOL] \in Nat
    BY RoundsInvParts
  <2> QED
    BY <1>1, <2>1, <2>2, <2>3, <2>4 DEF RoundFunded
<1> QED
  BY <1>3, <1>6, <1>7, <1>8 DEF RoundsInv

LEMMA RoundsSwap ==
  ASSUME RoundsInv, Inv', NEW e \in Epochs, NEW m \in Mints, NEW a \in Amounts,
         NEW q \in Quotes, NEW min \in Quotes, NEW c \in Counts,
         NEW delta \in Amounts, SwapRecorded(e, m, a, q, min, c, delta)
  PROVE  RoundsInv'
<1> DEFINE out == IF m = WSOL THEN a ELSE delta
           after == NewBucket(a, out, c)
           es == epoch_state[e]
           es2 == epoch_state'[e]
<1>1. /\ TypeOK /\ TypeOK'
      /\ ~bucket_state[e][m].swapped
      /\ a \in Nat /\ a > 0
      /\ out \in Nat /\ c \in Nat
      /\ es2 = Spend(es, a)
      /\ \A x \in Epochs \ {e} : epoch_state'[x] = epoch_state[x]
      /\ bucket_state'[e][m] = after
      /\ \A x \in Epochs, y \in Mints :
           x # e \/ y # m => bucket_state'[x][y] = bucket_state[x][y]
      /\ m = WSOL => ata' = ata
      /\ m # WSOL => ata'[WSOL] = ata[WSOL] - a
  BY SwapEffect DEF RoundsInv, Inv, SwapRecorded
<1>2. /\ last_round' = last_round /\ credited' = credited
      /\ overlapped' = (overlapped \/ e # last_round)
  BY DEF SwapRecorded
<1>3. RoundsTypeOK'
  BY <1>2 DEF RoundsInv, RoundsTypeOK
<1>4. after.amount_out = out /\ after.paid_amount = 0
  <2>1. out \in Nat
    BY <1>1
  <2> HIDE DEF out
  <2>2. after = NewBucket(a, out, c)
    OBVIOUS
  <2> HIDE DEF after
  <2> QED
    BY <1>1, <2>1, <2>2, NewBucketFields
<1>5. /\ es \in EpochState
      /\ Spend(es, a).swapped_in = es.swapped_in + a
      /\ Spend(es, a).payout_amount = es.payout_amount
  <2>1. es \in EpochState
    BY <1>1 DEF TypeOK
  <2> HIDE DEF es
  <2> QED
    BY <1>1, <2>1, SpendFields DEF EpochTerms
<1>6. es.swapped_in \in Nat /\ es.payout_amount \in Nat
  BY <1>5 DEF EpochState
<1>7. m = WSOL => out = a
  OBVIOUS
<1> HIDE DEF out, after, es, es2
<1>8. es2.swapped_in = es.swapped_in + a /\ es2.payout_amount = es.payout_amount
  BY <1>1, <1>5
<1>9. WsolBucketsSpent'
  <2> SUFFICES ASSUME NEW x \in Epochs
               PROVE  bucket_state'[x][WSOL].amount_out <= epoch_state'[x].swapped_in
    BY DEF WsolBucketsSpent
  <2>1. bucket_state[x][WSOL].amount_out <= epoch_state[x].swapped_in
    BY DEF RoundsInv, WsolBucketsSpent
  <2>2. CASE x # e
    BY <1>1, <2>1, <2>2, WsolIsMint
  <2>3. CASE x = e /\ m = WSOL
    BY <1>1, <1>4, <1>6, <1>7, <1>8, <2>3 DEF es2
  <2>4. CASE x = e /\ m # WSOL
    <3>1. bucket_state[e][WSOL].amount_out \in Nat
      BY <1>1, WsolIsMint DEF TypeOK, BucketState
    <3> QED
      BY <1>1, <1>6, <1>8, <2>1, <2>4, <3>1, WsolIsMint DEF es, es2
  <2> QED
    BY <2>2, <2>3, <2>4
<1>10. /\ m = WSOL => Unpaid(e, WSOL)' = Unpaid(e, WSOL) + a
       /\ m # WSOL => Unpaid(e, WSOL)' = Unpaid(e, WSOL)
       /\ Unpaid(e, WSOL) \in Nat
  <2>1. CASE m = WSOL
    <3>1. Unpaid(e, WSOL)' = a
      BY <1>1, <1>4, <1>7, <2>1 DEF Unpaid
    <3>2. Unpaid(e, WSOL) = 0
      BY <1>1, <2>1 DEF RoundsInv, Inv, UncreatedIsBlank, NoBucket, Unpaid
    <3> QED
      BY <1>1, <2>1, <3>1, <3>2
  <2>2. CASE m # WSOL
    <3>1. Unpaid(e, WSOL)' = Unpaid(e, WSOL)
      BY <1>1, <2>2, WsolIsMint DEF Unpaid
    <3> QED
      BY <2>2, <3>1, RoundsInvParts, GoneTypes
  <2> QED
    BY <2>1, <2>2
<1>11. ata[WSOL] \in Nat /\ ata'[WSOL] \in Nat
  BY <1>1, WsolIsMint DEF TypeOK
<1>12. WsolConserved'
  <2>1. ASSUME NEW x \in Epochs \ {e}
        PROVE  WsolGone(x)' = WsolGone(x)
    BY <1>1, WsolIsMint DEF WsolGone, Unpaid
  <2>2. /\ Gone' + WsolGone(e) = Gone + WsolGone(e)'
        /\ Gone \in Nat /\ Gone' \in Nat
    <3>1. /\ TypeOK /\ BucketsWithinBounds /\ WsolBucketsSpent
          /\ TypeOK' /\ BucketsWithinBounds' /\ WsolBucketsSpent'
      BY <1>1, <1>9 DEF RoundsInv, Inv
    <3> QED
      BY <2>1, <3>1, GoneUpdate
  <2>3. WsolGone(e)' = IF m = WSOL THEN WsolGone(e) ELSE WsolGone(e) + a
    BY <1>1, <1>6, <1>8, <1>10 DEF WsolGone, es, es2
  <2>4. WsolGone(e) \in Nat
    BY RoundsInvParts, GoneTypes
  <2>5. credited = ata[WSOL] + Gone
    BY RoundsInvParts
  <2>6. credited' = ata'[WSOL] + Gone'
    BY <1>1, <1>2, <1>11, <2>2, <2>3, <2>4, <2>5
  <2> QED
    BY <2>6 DEF WsolConserved, Gone
<1>13. RoundFunded'
  <2> SUFFICES ASSUME ~overlapped'
               PROVE  ata'[WSOL] >= Outstanding(WSOL)' + Unswapped'
    BY DEF RoundFunded
  <2>1. ~overlapped /\ last_round = e /\ last_round' = e
    BY <1>2
  <2>2. ata[WSOL] >= Outstanding(WSOL) + Unswapped
    BY <2>1 DEF RoundsInv, RoundFunded
  <2>3. e # None
    BY EpochsFinite DEF None
  <2>4. /\ Unswapped = es.payout_amount - es.swapped_in
        /\ Unswapped' = es.payout_amount - (es.swapped_in + a)
    BY <1>8, <2>1, <2>3 DEF Unswapped, es, es2
  <2>5. /\ m = WSOL => Outstanding(WSOL)' = Outstanding(WSOL) + a
        /\ m # WSOL => Outstanding(WSOL)' = Outstanding(WSOL)
        /\ Outstanding(WSOL) \in Nat
    <3>1. Outstanding(WSOL)' + Unpaid(e, WSOL) = Outstanding(WSOL) + Unpaid(e, WSOL)'
      <4>1. \A x \in Epochs \ {e} : bucket_state'[x][WSOL] = bucket_state[x][WSOL]
        BY <1>1, WsolIsMint
      <4>2. BucketsWithinBounds /\ BucketsWithinBounds'
        BY DEF RoundsInv, Inv
      <4> QED
        BY <1>1, <4>1, <4>2, WsolIsMint, OutstandingUpdate
    <3>2. Outstanding(WSOL) \in Nat /\ Outstanding(WSOL)' \in Nat
      BY <1>1, WsolIsMint, OutstandingNat, OutstandingNatNext DEF RoundsInv, Inv
    <3> QED
      BY <1>1, <1>10, <3>1, <3>2
  <2> QED
    BY <1>1, <1>6, <1>11, <2>2, <2>4, <2>5
<1> QED
  BY <1>3, <1>9, <1>12, <1>13 DEF RoundsInv

LEMMA RoundsDistribute ==
  ASSUME RoundsInv, Inv', NEW e \in Epochs, NEW m \in Mints, NEW i \in Counts,
         NEW n \in Counts, NEW sum \in Amounts, DistributeBatch(e, m, i, n, sum),
         UNCHANGED <<credited, last_round, overlapped>>
  PROVE  RoundsInv'
<1> DEFINE b == bucket_state[e][m]
           after == Serve(b, n, sum)
           es == epoch_state[e]
<1>1. /\ TypeOK /\ TypeOK'
      /\ n \in Nat /\ sum \in Nat
      /\ epoch_state'[e] = es \/ epoch_state'[e] = CountBucket(es)
      /\ \A x \in Epochs \ {e} : epoch_state'[x] = epoch_state[x]
      /\ bucket_state'[e][m] = after
      /\ \A x \in Epochs, y \in Mints :
           x # e \/ y # m => bucket_state'[x][y] = bucket_state[x][y]
      /\ ata'[m] = ata[m] - sum
      /\ \A y \in Mints \ {m} : ata'[y] = ata[y]
  BY DistributeEffect DEF RoundsInv, Inv
<1>2. b \in BucketState /\ es \in EpochState
  BY <1>1 DEF TypeOK
<1>3. after.paid_amount = b.paid_amount + sum /\ after.amount_out = b.amount_out
  <2> HIDE DEF b
  <2> QED
    BY <1>1, <1>2, ServeFields DEF BucketTerms
<1>4. EpochTerms(CountBucket(es)) = EpochTerms(es)
      /\ CountBucket(es).swapped_in = es.swapped_in
  <2> HIDE DEF es
  <2> QED
    BY <1>2, CountBucketFields
<1> HIDE DEF b, after, es
<1>5. ASSUME NEW x \in Epochs
      PROVE  /\ epoch_state'[x].swapped_in = epoch_state[x].swapped_in
             /\ epoch_state'[x].payout_amount = epoch_state[x].payout_amount
  BY <1>1, <1>4 DEF EpochTerms, es
<1>6. ASSUME NEW x \in Epochs
      PROVE  bucket_state'[x][WSOL].amount_out = bucket_state[x][WSOL].amount_out
  BY <1>1, <1>3, WsolIsMint DEF b
<1>7. WsolBucketsSpent'
  BY <1>5, <1>6 DEF RoundsInv, WsolBucketsSpent
<1>8. RoundsTypeOK'
  BY DEF RoundsInv, RoundsTypeOK
<1>9. /\ m = WSOL => Unpaid(e, WSOL)' = Unpaid(e, WSOL) - sum
      /\ m # WSOL => Unpaid(e, WSOL)' = Unpaid(e, WSOL)
  <2>1. CASE m = WSOL
    <3>1. b.amount_out \in Nat /\ b.paid_amount \in Nat
      BY <1>2 DEF BucketState
    <3> QED
      BY <1>1, <1>3, <2>1, <3>1 DEF Unpaid, b
  <2>2. CASE m # WSOL
    BY <1>1, <2>2, WsolIsMint DEF Unpaid
  <2> QED
    BY <2>1, <2>2
<1>10. /\ Unpaid(e, WSOL) \in Nat /\ WsolGone(e) \in Nat
       /\ ata[WSOL] \in Nat /\ ata'[WSOL] \in Nat
       /\ epoch_state[e].swapped_in \in Nat
  BY <1>1, WsolIsMint, RoundsInvParts, GoneTypes DEF TypeOK
<1>11. /\ m = WSOL => ata'[WSOL] = ata[WSOL] - sum
       /\ m # WSOL => ata'[WSOL] = ata[WSOL]
  BY <1>1, WsolIsMint
<1>12. WsolConserved'
  <2>1. ASSUME NEW x \in Epochs \ {e}
        PROVE  WsolGone(x)' = WsolGone(x)
    BY <1>1, WsolIsMint DEF WsolGone, Unpaid
  <2>2. /\ Gone' + WsolGone(e) = Gone + WsolGone(e)'
        /\ Gone \in Nat /\ Gone' \in Nat
    <3>1. /\ TypeOK /\ BucketsWithinBounds /\ WsolBucketsSpent
          /\ TypeOK' /\ BucketsWithinBounds' /\ WsolBucketsSpent'
      BY <1>1, <1>7 DEF RoundsInv, Inv
    <3> QED
      BY <2>1, <3>1, GoneUpdate
  <2>3. WsolGone(e)' = IF m = WSOL THEN WsolGone(e) + sum ELSE WsolGone(e)
    BY <1>1, <1>5, <1>9, <1>10 DEF WsolGone
  <2>4. credited = ata[WSOL] + Gone
    BY RoundsInvParts
  <2>5. credited' = ata'[WSOL] + Gone'
    BY <1>1, <1>10, <1>11, <2>2, <2>3, <2>4
  <2> QED
    BY <2>5 DEF WsolConserved, Gone
<1>13. RoundFunded'
  <2> SUFFICES ASSUME ~overlapped
               PROVE  ata'[WSOL] >= Outstanding(WSOL)' + Unswapped'
    BY DEF RoundFunded
  <2>1. ata[WSOL] >= Outstanding(WSOL) + Unswapped
    BY DEF RoundsInv, RoundFunded
  <2>2. Unswapped' = Unswapped /\ Unswapped \in Int
    BY <1>1, <1>5 DEF Unswapped, RoundsInv, RoundsTypeOK, TypeOK, EpochState
  <2>3. Outstanding(WSOL)' + Unpaid(e, WSOL) = Outstanding(WSOL) + Unpaid(e, WSOL)'
    <3>1. \A x \in Epochs \ {e} : bucket_state'[x][WSOL] = bucket_state[x][WSOL]
      BY <1>1, WsolIsMint
    <3>2. BucketsWithinBounds /\ BucketsWithinBounds'
      BY DEF RoundsInv, Inv
    <3> QED
      BY <1>1, <3>1, <3>2, WsolIsMint, OutstandingUpdate
  <2>4. Outstanding(WSOL) \in Nat /\ Outstanding(WSOL)' \in Nat
    BY <1>1, WsolIsMint, OutstandingNat, OutstandingNatNext DEF RoundsInv, Inv
  <2> QED
    BY <1>1, <1>9, <1>10, <1>11, <2>1, <2>2, <2>3, <2>4
<1> QED
  BY <1>7, <1>8, <1>12, <1>13 DEF RoundsInv

----------------------------------------------------------------------------
LEMMA RoundsInvStep == RoundsInv /\ [RoundsNext]_roundVars => RoundsInv'
<1> SUFFICES ASSUME RoundsInv, [RoundsNext]_roundVars
             PROVE  RoundsInv'
  OBVIOUS
<1>1. Inv' /\ TypeOK'
  BY RoundsStepIsStep, InvStep DEF RoundsInv, Inv
<1>2. ASSUME NEW a \in Amounts, CreditRecorded(a)
      PROVE  RoundsInv'
  <2>1. Quiet
    BY <1>2, QuietEffect DEF RoundsInv, Inv, QuietStep, CreditRecorded
  <2>2. ata'[WSOL] = ata[WSOL] + a /\ credited' = credited + a
    BY <1>2, WsolIsMint DEF CreditRecorded, SweepCredit, RoundsInv, Inv, TypeOK
  <2>3. a \in Nat /\ ata[WSOL] \in Nat /\ credited \in Nat
    BY RoundsInvParts, InputsAssumption
  <2>4. RoundsTypeOK' /\ UNCHANGED <<last_round, overlapped>>
    BY <1>2, <2>2, <2>3 DEF RoundsInv, RoundsTypeOK, CreditRecorded
  <2>5. credited' - credited = ata'[WSOL] - ata[WSOL]
    BY <2>2, <2>3
  <2> QED
    BY <1>1, <2>1, <2>4, <2>5, RoundsQuiet
<1>3. ASSUME Tick \/ AdminStep \/ UNCHANGED vars,
             UNCHANGED <<credited, last_round, overlapped>>
      PROVE  RoundsInv'
  <2>1. Quiet
    BY <1>3, QuietEffect DEF RoundsInv, Inv, QuietStep
  <2>2. UNCHANGED ata
    BY <1>3 DEF Tick, AdminStep, SetParams, Pause, SetPlatformAllowlist,
                AllowMint, DisallowMint, vars
  <2>3. ata[WSOL] \in Nat /\ credited \in Nat
    BY RoundsInvParts
  <2>4. credited' - credited = ata'[WSOL] - ata[WSOL]
    BY <1>3, <2>2, <2>3
  <2>5. RoundsTypeOK'
    BY <1>3 DEF RoundsInv, RoundsTypeOK
  <2> QED
    BY <1>1, <1>3, <2>1, <2>4, <2>5, RoundsQuiet
<1>4. CASE \E e \in Epochs, c \in BucketCounts, mints \in SUBSET Mints :
             SettleRecorded(e, c, mints)
  BY <1>1, <1>4, RoundsSettle
<1>5. CASE \E e \in Epochs, m \in Mints, a, delta \in Amounts,
              q, min \in Quotes, c \in Counts :
             SwapRecorded(e, m, a, q, min, c, delta)
  BY <1>1, <1>5, RoundsSwap
<1>6. CASE Unrecorded
  BY <1>1, <1>3, <1>6, RoundsDistribute DEF Unrecorded
<1>7. CASE UNCHANGED roundVars
  BY <1>3, <1>7 DEF roundVars
<1> QED
  BY <1>2, <1>4, <1>5, <1>6, <1>7 DEF RoundsNext

THEOREM RoundsInvCorrect == RoundsSpec => []RoundsInv
  BY RoundsInvInit, RoundsInvStep, PTL DEF RoundsSpec

(* While rounds do not overlap, every WSOL bucket and the rest of the      *)
(* current round are covered by the payout WSOL account.                   *)
THEOREM RoundFundedCorrect == RoundsSpec => []RoundFunded
<1>1. RoundsInv => RoundFunded
  BY DEF RoundsInv
<1> QED
  BY <1>1, RoundsInvCorrect, PTL

(* Every lamport credited to the payouts is accounted for.                 *)
THEOREM WsolConservedCorrect == RoundsSpec => []WsolConserved
<1>1. RoundsInv => WsolConserved
  BY DEF RoundsInv
<1> QED
  BY <1>1, RoundsInvCorrect, PTL
=============================================================================
