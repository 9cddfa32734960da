------------------------------- MODULE Round -------------------------------
(***************************************************************************)
(* A coin's rounds from end to end: holders elect, the indexer completes a *)
(* window, the keeper builds the plan, settles it, swaps its buckets with  *)
(* the USDC fallback (offchain/src/keeper.ts), distributes and publishes   *)
(* them, while fees come in, the admin edits the allowlist, routes degrade *)
(* and heal, and the keeper crashes.                                       *)
(*                                                                         *)
(* The repository has the keeper's parts but not the loop that calls them. *)
(* The order of the calls is external, taken from their documentation      *)
(* (round-builder.ts:10-14, keeper.ts:1-8, round-publisher.ts:17): build,  *)
(* settle, swap, then distribute and publish, in any order of the two;     *)
(* after a crash, build the plan again and go on from what the chain has.  *)
(* A bucket is distributed in one step: module Distribution has the        *)
(* batches.                                                                *)
(***************************************************************************)
EXTENDS RoundBuilder, ElectionApi, Electable

CONSTANTS
  Wallets,       \* holders, numbers in the order of their keys
  Weighings,     \* aged balances a round may find, by wallet
  Supply, CapBps,          \* of the holder cap
  wsolMint, usdcMint, defaultPayoutMint,
  minShareLamports,
  epochSeconds,  \* the length of an epoch; the coin is launched at 0
  FirstList,     \* the platform allowlist at the beginning
  Surveys,       \* facts the electable list may be built from
  Limits,        \* its configuration
  Degrading,     \* mints whose routes may degrade
  MaxTime, MaxFees, MaxCrashes \* bounds

ASSUME RoundAssumption ==
  /\ Wallets \subseteq Nat
  /\ Electors \subseteq Wallets
  /\ {wsolMint, usdcMint, defaultPayoutMint} \subseteq Mints
  /\ epochSeconds \in Nat \ {0}
  /\ minShareLamports \in Nat \ {0}
  /\ IsFiniteSet(Wallets)
  /\ Weighings \subseteq [Wallets -> Nat]
  /\ CapBps \in Nat /\ Supply \in Nat
  /\ "none" \notin Mints

VARIABLES
  now,
  payout_wsol,  \* the WSOL account of PayoutAuthority
  aged,         \* what the engine finds for each epoch
  indexed,      \* epochs whose window is complete
  platform,     \* PlatformAllowlist
  degraded,     \* mints whose route is degraded
  epoch_state,  \* EpochState and AllowlistState
  bucket_state, \* BucketState
  published,    \* round files
  job,          \* what the keeper is at, in memory
  \* auxiliary: no guard of the actions reads these
  received,     \* payments each wallet had of each round
  reelected,    \* epochs elected for after their plan was built
  grown,        \* epochs that froze more than their plan was built for
  forgotten,    \* epochs in which a fallback landed and was not remembered
  crashes

chain == <<now, payout_wsol, platform, epoch_state, bucket_state>>
service == <<signed, elections, indexed, aged, published>>
aux == <<received, reelected, grown, forgotten, crashes>>
vars == <<chain, service, degraded, job, aux>>

Unsettled == [settled |-> FALSE, payout_amount |-> 0, swapped_in |-> 0,
              merkle_root |-> <<"zero">>, bucket_count |-> 0,
              buckets_complete |-> 0, allowed |-> {}]
NoBucket == [swapped |-> FALSE, amount_in |-> 0, recipient_count |-> 0,
             cursor |-> 0, complete |-> FALSE]
Idle == [at |-> "idle"]

(* A job is the plan, and for each of its buckets the mint it was swapped  *)
(* into, or "none".                                                        *)
NotSwapped(plan) == [m \in DOMAIN plan.buckets |-> "none"]

----------------------------------------------------------------------------
(* The keeper's schedule.                                                  *)

currentEpochIndex(t) == t \div epochSeconds

(* The newest epoch that has ended; none before the first has.             *)
settleableEpoch(t) == currentEpochIndex(t) - 1

----------------------------------------------------------------------------
(* The program, as far as the rounds need it; module Payout has the rest.  *)

settle_epoch(args) ==
  /\ ~epoch_state[args.epoch_index].settled
  /\ now >= epochSeconds * (args.epoch_index + 1)
  /\ args.allowed_mints \subseteq platform
  /\ epoch_state' = [epoch_state EXCEPT ![args.epoch_index] =
       [settled |-> TRUE, payout_amount |-> payout_wsol, swapped_in |-> 0,
        merkle_root |-> args.merkle_root, bucket_count |-> args.bucket_count,
        buckets_complete |-> 0, allowed |-> args.allowed_mints]]

SwapAccepted(args) ==
  LET e == args.epoch_index IN
  /\ epoch_state[e].settled
  /\ args.amount_in > 0
  /\ args.out_mint \in epoch_state[e].allowed
  /\ ~bucket_state[<<e, args.out_mint>>].swapped
  /\ epoch_state[e].swapped_in + args.amount_in <= epoch_state[e].payout_amount
  /\ args.amount_in <= payout_wsol

swap_payout(args) ==
  LET e == args.epoch_index IN
  /\ SwapAccepted(args)
  /\ epoch_state' = [epoch_state EXCEPT ![e].swapped_in = @ + args.amount_in]
  /\ bucket_state' = [bucket_state EXCEPT ![<<e, args.out_mint>>] =
       [swapped |-> TRUE, amount_in |-> args.amount_in,
        recipient_count |-> args.recipient_count, cursor |-> 0,
        complete |-> FALSE]]
  /\ payout_wsol' = IF args.out_mint = wsolMint THEN payout_wsol
                    ELSE payout_wsol - args.amount_in

(* All batches of a bucket.  The program refuses more recipients than it   *)
(* was told of; with fewer the bucket never completes.  The token program  *)
(* pays what the account has.                                              *)
distribute(e, m, n) ==
  LET b == bucket_state[<<e, m>>]
      full == n = b.recipient_count IN
  /\ b.swapped
  /\ ~b.complete
  /\ b.cursor = 0
  /\ n <= b.recipient_count
  /\ m = wsolMint => b.amount_in <= payout_wsol
  /\ bucket_state' = [bucket_state EXCEPT ![<<e, m>>].cursor = n,
                                          ![<<e, m>>].complete = full]
  /\ epoch_state' = [epoch_state EXCEPT ![e].buckets_complete =
                       IF full THEN @ + 1 ELSE @]
  /\ payout_wsol' = IF m = wsolMint THEN payout_wsol - b.amount_in
                    ELSE payout_wsol

----------------------------------------------------------------------------
(* The client's instructions: what the keeper's plan becomes.              *)

settleEpochIx(plan, allowed) ==
  [epoch_index |-> plan.epochIndex, merkle_root |-> plan.merkleRoot,
   bucket_count |-> Cardinality(DOMAIN plan.buckets),
   allowed_mints |-> allowed]

swapPayoutIx(plan, m, outMint) ==
  [epoch_index |-> plan.epochIndex, out_mint |-> outMint,
   amount_in |-> plan.buckets[m].amountIn,
   recipient_count |-> Cardinality(plan.buckets[m].recipients)]

----------------------------------------------------------------------------
(* The keeper.                                                             *)

Inputs(e, amount, allowlist) ==
  [epochIndex |-> e, aged |-> aged[e], supply |-> Supply, capBps |-> CapBps,
   payoutAmount |-> amount, elections |-> electionsForRound(e),
   defaultPayoutMint |-> defaultPayoutMint, usdcMint |-> usdcMint,
   allowlist |-> allowlist, minShareLamports |-> minShareLamports]

Work(at, plan, landed, allowed) ==
  [at |-> at, plan |-> plan, landed |-> landed, allowed |-> allowed]

(* The round is not published, or a bucket of it is swapped and not paid.  *)
Unfinished(e) ==
  /\ epoch_state[e].settled
  /\ \/ published[e] = {}
     \/ \E m \in Mints : bucket_state[<<e, m>>].swapped
                          /\ bucket_state[<<e, m>>].cursor = 0

(* A new round, when no other is unfinished (rounds that overlap take each *)
(* other's money: the findings of PayoutRounds): the plan from what the    *)
(* payout account has, the elections and the allowlist are now.  build     *)
(* throws if the window is not complete.                                   *)
Build ==
  /\ job = Idle
  /\ \A f \in Epochs : ~Unfinished(f)
  /\ LET e == settleableEpoch(now) IN
     /\ e \in Epochs
     /\ e \in indexed
     /\ ~epoch_state[e].settled
     /\ \E plan \in {build(Inputs(e, payout_wsol, platform))} :
          job' = Work("built", plan, NotSwapped(plan), platform)
  /\ UNCHANGED <<chain, service, degraded, aux>>

Settle ==
  /\ job.at = "built"
  /\ settle_epoch(settleEpochIx(job.plan, job.allowed))
  /\ job' = [job EXCEPT !.at = "working"]
  /\ grown' = IF payout_wsol = job.plan.payoutAmount THEN grown
              ELSE grown \cup {job.plan.epochIndex}
  /\ UNCHANGED <<now, payout_wsol, platform, bucket_state, service, degraded,
                 received, reelected, forgotten, crashes>>

(* After a crash: the plan is built again for the frozen amount and list;  *)
(* a bucket that is on chain is taken to be swapped.                       *)
Resume(e) ==
  /\ job = Idle
  /\ Unfinished(e)
  /\ \E plan \in {build(Inputs(e, epoch_state[e].payout_amount,
                               epoch_state[e].allowed))} :
       job' = Work("working", plan,
                   [m \in DOMAIN plan.buckets |->
                      IF bucket_state[<<e, m>>].swapped THEN m ELSE "none"],
                   epoch_state[e].allowed)
  /\ UNCHANGED <<chain, service, degraded, aux>>

(* swapBucketWithFallback: a degraded route falls back to USDC, once;      *)
(* degraded USDC does not.                                                 *)
Target(m) ==
  IF m \notin degraded THEN m
  ELSE IF m = usdcMint THEN "none"
  ELSE usdcMint

(* The process ends: what its swaps landed in is lost with it.             *)
Forget(landed) ==
  /\ job' = Idle
  /\ forgotten' = IF \E m \in DOMAIN landed : landed[m] \notin {m, "none"}
                  THEN forgotten \cup {job.plan.epochIndex} ELSE forgotten

(* The swap lands where Target says.  The answer may be lost; then, and if *)
(* the keeper crashes first, the keeper does not know that it landed.  The *)
(* fallback asks for no minimum, and the caller passes no quote with it.   *)
SwapBucket(m) ==
  /\ job.at = "working"
  /\ m \in DOMAIN job.plan.buckets
  /\ job.landed[m] = "none"
  /\ Target(m) # "none"
  /\ Target(m) = usdcMint => usdcMint \notin degraded
  /\ swap_payout(swapPayoutIx(job.plan, m, Target(m)))
  /\ \/ /\ job' = [job EXCEPT !.landed[m] = Target(m)]
        /\ UNCHANGED <<forgotten, crashes>>
     \/ /\ crashes < MaxCrashes
        /\ crashes' = crashes + 1
        /\ Forget([job.landed EXCEPT ![m] = Target(m)])
  /\ UNCHANGED <<now, platform, service, degraded, received, reelected, grown>>

(* The bucket's recipients of the keeper's plan are paid from the mint it  *)
(* was swapped into.                                                       *)
Distribute(m) ==
  /\ job.at = "working"
  /\ m \in DOMAIN job.plan.buckets
  /\ job.landed[m] # "none"
  /\ LET e == job.plan.epochIndex
         who == job.plan.buckets[m].recipients IN
     /\ distribute(e, job.landed[m], Cardinality(who))
     /\ received' = [k \in Epochs \X Wallets |->
          IF k[1] = e /\ k[2] \in who THEN received[k] + 1 ELSE received[k]]
  /\ UNCHANGED <<now, platform, service, degraded, job, reelected, grown,
                 forgotten, crashes>>

(* RoundStore.publish, once the swaps are on chain; the distribution may   *)
(* be before, behind or half done.  Published again, the file is           *)
(* overwritten.  Bug: before the swaps.                                    *)
PublishAtOnce ==
  /\ job.at = "working"
  /\ published' = [published EXCEPT ![job.plan.epochIndex] =
                     {buildRoundFile(job.plan)}]
  /\ UNCHANGED <<chain, signed, elections, indexed, aged, degraded, job, aux>>

Publish ==
  /\ job.at = "working"
  /\ \A m \in DOMAIN job.plan.buckets : job.landed[m] # "none"
  /\ published' = [published EXCEPT ![job.plan.epochIndex] =
                     {buildRoundFile(job.plan)}]
  /\ UNCHANGED <<chain, signed, elections, indexed, aged, degraded, job, aux>>

(* The round is published and each bucket of the plan is paid out.         *)
Finish ==
  /\ job.at = "working"
  /\ published[job.plan.epochIndex] # {}
  /\ \A m \in DOMAIN job.plan.buckets :
       /\ job.landed[m] # "none"
       /\ bucket_state[<<job.plan.epochIndex, job.landed[m]>>].cursor > 0
  /\ job' = Idle
  /\ UNCHANGED <<chain, service, degraded, aux>>

(* A crash, or the caller gives up.                                        *)
Crash ==
  /\ job # Idle
  /\ crashes < MaxCrashes
  /\ crashes' = crashes + 1
  /\ Forget(job.landed)
  /\ UNCHANGED <<chain, service, degraded, received, reelected, grown>>

----------------------------------------------------------------------------
(* The surroundings.                                                       *)

Tick ==
  /\ now < MaxTime
  /\ now' = now + 1
  /\ UNCHANGED <<payout_wsol, platform, epoch_state, bucket_state, service,
                 degraded, job, aux>>

(* A sweep credits the payout account.                                     *)
Credit ==
  /\ payout_wsol < MaxFees
  /\ payout_wsol' = payout_wsol + 1
  /\ UNCHANGED <<now, platform, epoch_state, bucket_state, service, degraded,
                 job, aux>>

(* The window of an ended epoch is complete.                               *)
Index(e) ==
  /\ now >= epochSeconds * (e + 1)
  /\ e \notin indexed
  /\ indexed' = indexed \cup {e}
  /\ UNCHANGED <<chain, signed, elections, aged, published, degraded, job, aux>>

(* The admin signs the instructions of a proposal.                         *)
ApplyProposal ==
  /\ \E facts \in Surveys :
       LET proposal == buildProposal(facts, platform, Limits, usdcMint)
       IN platform' = (platform \cup proposal.add) \ proposal.remove
  /\ platform' # platform
  /\ UNCHANGED <<now, payout_wsol, epoch_state, bucket_state, service,
                 degraded, job, aux>>

Route(m) ==
  /\ degraded' = IF m \in degraded THEN degraded \ {m} ELSE degraded \cup {m}
  /\ UNCHANGED <<chain, service, job, aux>>

(* A wallet signs a choice, with a newer nonce than before.                *)
Elect(message) ==
  /\ message.signer = message.wallet
  /\ \A other \in signed : other.wallet = message.wallet =>
       other.nonce < message.nonce
  /\ Sign(message)
  /\ UNCHANGED <<chain, elections, indexed, aged, published, degraded, job,
                 aux>>

(* The plan of the epoch has been built.                                   *)
Begun(e) ==
  \/ epoch_state[e].settled
  \/ job.at = "built" /\ job.plan.epochIndex = e

(* It reaches the service, now or later, once or again.  The service does  *)
(* not know of settled rounds; the allowlist is the platform's.            *)
SubmitElection(message) ==
  /\ submit(message, platform)
  /\ reelected' = IF Begun(message.epochIndex)
                  THEN reelected \cup {message.epochIndex} ELSE reelected
  /\ UNCHANGED <<chain, signed, indexed, aged, published, degraded, job,
                 received, grown, forgotten, crashes>>

----------------------------------------------------------------------------
Init ==
  /\ ElectionInit
  /\ now = 0
  /\ payout_wsol = 0
  /\ aged \in [Epochs -> Weighings]
  /\ indexed = {}
  /\ platform = FirstList
  /\ degraded = {}
  /\ epoch_state = [e \in Epochs |-> Unsettled]
  /\ bucket_state = [k \in Epochs \X Mints |-> NoBucket]
  /\ published = [e \in Epochs |-> {}]
  /\ job = Idle
  /\ received = [k \in Epochs \X Wallets |-> 0]
  /\ reelected = {}
  /\ grown = {}
  /\ forgotten = {}
  /\ crashes = 0

Next ==
  \/ Build \/ Settle \/ Publish \/ Finish \/ Crash
  \/ \E e \in Epochs : Resume(e) \/ Index(e)
  \/ \E m \in Mints : SwapBucket(m) \/ Distribute(m)
  \/ Tick \/ Credit \/ ApplyProposal
  \/ \E m \in Degrading : Route(m)
  \/ \E message \in Message : Elect(message) \/ SubmitElection(message)

Spec == Init /\ [][Next]_vars
----------------------------------------------------------------------------
(* round-publisher.ts:7-8, verify.ts:3-6: a published file verifies        *)
(* against the root on chain, also when it was built again after a crash,  *)
(* from an amount that had grown; unless the service took an election for  *)
(* the epoch after the plan was built.                                     *)
FileVerifies ==
  \A e \in Epochs : \A file \in published[e] :
    e \notin reelected => verifyRoundFile(file, epoch_state[e].merkle_root)

(* Every eligible wallet proves its leaf against the root that is anchored *)
(* (round-builder.ts:160-186).                                             *)
ProofsVerify ==
  job.at = "built" =>
    LET entries == job.plan.entries
        leaves == [i \in DOMAIN entries |-> leafFor(entries[i])]
    IN \A i \in DOMAIN leaves :
         verifyLeaf(leaves[i], merkleProof(leaves, i), job.plan.merkleRoot)

(* What a plan gives, and to whom.                                         *)
Given(plan) ==
  Total([m \in DOMAIN plan.buckets |-> plan.buckets[m].amountIn])
    + plan.droppedShareLamports

Who(plan) ==
  plan.droppedSubRent
    \cup UNION {plan.buckets[m].recipients : m \in DOMAIN plan.buckets}

(* round-builder.ts:116-122: the buckets of a plan, and the shares it      *)
(* drops, are within the amount that is frozen, whether the plan was built *)
(* from the balance read before settle or again from the frozen amount,    *)
(* and what rounding leaves over is less than a unit for each wallet.      *)
FitsFrozen ==
  job.at = "working" =>
    LET plan == job.plan
    IN /\ Given(plan) <= epoch_state[plan.epochIndex].payout_amount
       /\ Who(plan) # {} =>
            plan.payoutAmount - Given(plan) < Cardinality(Who(plan))

(* keeper.ts:65-86, MAX_SWAP_REMAINING and the USDC fallback: what the     *)
(* keeper tries for a bucket that has not landed, its own mint or, over a  *)
(* degraded route, USDC, is what the program accepts: the list has it, its *)
(* place is free, and the round's money is still there.  The one refusal   *)
(* left is a USDC that the round's list lacks or that another bucket of    *)
(* the round has taken: that bucket stalls, for as long as its own route   *)
(* is degraded, or for good if it is USDC's own.  So does USDC's bucket    *)
(* while its own route is degraded.  Rounds whose plan changed after an    *)
(* election, or whose fallback was forgotten in a crash, are not meant.    *)
Swappable ==
  job.at = "working" =>
    LET e == job.plan.epochIndex IN
    \A m \in DOMAIN job.plan.buckets :
      LET target == Target(m) IN
      job.landed[m] = "none" /\ target # "none"
        /\ e \notin reelected \cup forgotten
      => \/ SwapAccepted(swapPayoutIx(job.plan, m, target))
         \/ /\ target = usdcMint
            /\ \/ usdcMint \notin job.allowed
               \/ bucket_state[<<e, usdcMint>>].swapped

(* What a file says that a wallet is paid: once, or not at all.            *)
Told(file, w) ==
  IF \E i \in DOMAIN file.entries :
       file.entries[i].wallet = w /\ ~file.entries[i].dropped
  THEN 1 ELSE 0

(* round-publisher.ts:6-12, :17, keeper.ts:103-109: a file may be there    *)
(* before the payments; what it says is never exceeded, and once nothing   *)
(* of the round is left to pay it is what was paid: each wallet of it      *)
(* once, the dropped ones not, nobody else; over crashes and fallbacks,    *)
(* unless a fallback was forgotten, an election came late, or the frozen   *)
(* amount outgrew the plan.                                                *)
PublishedIsPaid ==
  \A e \in Epochs \ (reelected \cup grown \cup forgotten) :
    \A file \in published[e] : \A w \in Wallets :
      /\ received[<<e, w>>] <= Told(file, w)
      /\ ~Unfinished(e) => received[<<e, w>>] = Told(file, w)

=============================================================================
