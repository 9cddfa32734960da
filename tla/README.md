# A verification of h2e in TLA+

h2e is a launchpad on Solana: creators launch coins on a bonding curve, and the trading fees of a coin go, by a fixed split, to its holders, to the holders of $H2E and to the platform. The holders' share is paid out in rounds, in the assets the holders elected. This project models the program, its client, the off-chain services, the web application and the Phase-0 scripts, checks the models with TLC, and proves the main results with TLAPS for every value of the constants.

Sources are cited relative to the repository; `lib.rs` is `h2e/programs/h2e/src/lib.rs`, `index.ts` is `h2e/client/index.ts`, and the services are in `offchain/src`.

## 1. Inventory

### The on-chain program (`lib.rs`)

A transaction of Solana is atomic, and the program holds no state between instructions but its accounts. So every instruction is one step whose guard is the conjunction of its checks, and concurrency means: the instructions of the admin, the keeper and anybody else, in any order.

| component | state | operations | makes it correct |
|---|---|---|---|
| Global configuration and lists | `GlobalConfig`, `PlatformAllowlist`, `Denylist` | `initialize_global`, `set_params`, `set_platform_wallet`, `set_platform_config_key`, `set_keeper`, `set_admin`, `set_h2e_mint`, `set_usdc_mint`, `pause`, `init_`/`set_denylist`, `init_`/`set_platform_allowlist` | the split is always a whole; a change is what the admin of the moment meant, and never touches what is frozen |
| Coin life and fee sweep | `CoinConfig`; the WSOL accounts of FeeAuthority, PayoutAuthority, RevenueAuthority and the platform | `launch_coin`, `claim_and_sweep` (on the curve, then on the pool), `sync_graduation`, `set_graduation`, `retire_coin` | no fee is lost, none is booked to another coin; every lamport reaches its party; a graduated coin can still be claimed |
| Payout rounds | `EpochState`, `AllowlistState`, `BucketState`; the token accounts of PayoutAuthority | `settle_epoch`, `swap_payout`, `distribute_batch` | what is settled is frozen; swaps stay within the frozen amount; every bucket pays each recipient once, in order, within what its swap measured; the accounts hold what is owed |

### Client, services, application, scripts

| component | state | operations | makes it correct |
|---|---|---|---|
| Client (`index.ts`) | none | an encoder and an account list for each instruction, lookup table lists, discovery reads | the accounts are those the program asks for; what is encoded is what was meant |
| Keeper (`keeper.ts`) | none: progress is on chain, but for where a fallback landed, which is in memory | `distributeBucket`, `swapBucketWithFallback`, epoch schedule, claim tiers | resumes after any failure without paying twice or leaving anyone out; what it tries to swap is what the program accepts |
| Indexer (`indexer/`) | balances, latest, pending slots in memory; an append-only file and `meta.json` | process a slot, backfill, track a coin, prune, reload | what is acknowledged survives; the file has what memory has; the balances it serves are the true ones |
| Aged balances (`aged-balance.ts`) | none | the smallest balance held over a window | equals the minimum by definition |
| Round builder (`round-builder.ts`) | none | weights, shares, drops, buckets, Merkle tree, proofs, the published file | shares within what will be frozen; the same root every time; proofs verify |
| Election API (`election-api.ts`) | elections with their nonces, in memory | accept a signed election | the newest election of a wallet wins, once |
| Electable list (`electable-list.ts`) | none | gates, proposal for the allowlist | - |
| Round publisher (`round-publisher.ts`) | round files | publish, serve | a published file verifies against the chain |
| Web application (`app/src`) | the page, the wallet's key, forms, caches | routing, election, launch, cards, round view | what the page says was submitted is kept; nothing is launched beside a launch that succeeded; every wait ends |
| Phase-0 scripts (`prove-pda-feeclaimer.ts`, `task02` to `task04`) | key files; the balances of their wallets | fund, launch, trade, claim, migrate, on a test network | no funded key is lost; fees of pools stay apart; a re-run takes up what is there |

Interactions: a sweep credits the payout WSOL account that `settle_epoch` snapshots and `swap_payout` spends; `swap_payout` calls Jupiter with opaque data and measures what arrived; `claim_and_sweep` and `sync_graduation` depend on the DBC and cp-amm programs; every instruction reads the configuration the admin may change between any two of them, and is built by the client from what was read earlier. The indexer feeds the aged balances, these and the elections feed the round builder, whose plan the keeper settles, swaps, distributes and publishes; the page elects with the service and checks the published file against the root on chain. `PROJECT.json` lists every component with its status.

### What is hard

- Two epochs of one coin in progress at once, over one WSOL account (`lib.rs:456`).
- Running totals kept beside the records they sum up (`swapped_in`, `buckets_complete`, `paid_amount`, `total_claimed`).
- Admin changes between settle and swap, between two sweeps, in the middle of a bucket, while transactions are in flight.
- A coin that moves between two claim rails, with fees on both (`lib.rs:655`, `lib.rs:720`).
- A driver that reads a cursor, sends, loses the answer, and starts again beside itself (`keeper.ts:110-124`).
- A plan made before the amount is frozen, and made again after a crash while elections, fees, routes and the allowlist move (`round-builder.ts:129`, `election-api.ts:54`, `keeper.ts:74`).
- Crashes between and inside the writes of the indexer's files; slots that come late (`indexer.ts:82-91`, `store.ts:79`).
- Awaits of the page: the wallet, the pick and the route may change before the answer (`election.ts:62`, `main.ts:20`, `launch.ts:169`).
- Up to 31 accounts written by hand on both sides (`index.ts:282`).
- Scripts that die after a transaction was sent, or while a key is written, with balances that no run gives back (`task02-global-claimer.ts:97-129`, `:374-393`).

The complete list, each at its line and with the properties that cover it, is `hazards` in `PROJECT.json`; those no property covers say why.

## 2. The modules

| module | what it is |
|---|---|
| `UnitSums` | sums over accounts, as the number of their units, without recursion |
| `Payout` | the payout rounds of one coin: `settle_epoch`, `swap_payout`, `distribute_batch`, and the admin instructions and the sweep credit they depend on |
| `PayoutPromise` | what rounds promise, without accounts, lists and clocks; `Payout` implements it |
| `PayoutRounds` | `Payout` with auxiliary variables that record what was credited and whether rounds overlapped |
| `Distribution` | one bucket: the keeper's `distributeBucket` against `distribute_batch`, through stale reads and a lossy network, with several drivers and crashes |
| `PaidOnce` | what distribution promises: each recipient gets its share whole, at most once; `Distribution` implements it |
| `Coin` | the life of the coins and the road of their fees: launch, both claim rails, graduation, override, retirement, and the admin instructions they read |
| `H2eAccounts` | what the program demands of the accounts of each instruction: its `Accounts` structs |
| `Client` | the client's encoders, account lists, lookup table lists and discovery reads |
| `Session` | `Client` and `H2eAccounts` together: transactions built from what a sender reads land later, in any order, or never |
| `AgedBalance` | the aged-balance engine, a pure function |
| `Indexer` | slots in and out of order, the file store write by write, crashes; asks `AgedBalance` as the round builder would |
| `RoundBuilder` | weights, shares, buckets, Merkle tree and proofs, round file and its check in the browser |
| `ElectionApi`, `Electable` | the election service; the gates and the proposal for the allowlist |
| `Round` | a coin's rounds end to end: composes `RoundBuilder`, `ElectionApi` and `Electable` with the keeper's fallback and schedule, settlement, swaps, distribution and publication |
| `App` | the web application in one tab: composes `ElectionApi` and the lookup table lists of `Client` with router, pages, wallet, election and launch |
| `GateScript` | the four Phase-0 scripts, a step at a time |
| `MC*` | small instances for TLC |
| `*Proofs` | the proofs (section 5) |

`Payout` sees one coin and the arrival of its holders' share (`SweepCredit`); `Coin` models `claim_and_sweep` itself and stops at the credit of `payout`, which is that same account. `Distribution` looks at one bucket of `Payout` more closely: its `DistributeBatch` is the instruction of `Payout` with the list and the cursor kept and the rest dropped. `Round` takes the program's three instructions only as far as the keeper's plan depends on them, and distributes a bucket in one step; `Session` takes all instructions, but of their effects only which accounts exist and what `GlobalConfig` says.

### How state and actions correspond

**Payout.** One variable per account type, a function of the account's seeds; an account never created is its zero record with `settled` or `swapped` FALSE, which is how `init` constraints become guards. `ata` has the balances of the PayoutAuthority's token accounts: all epochs of a coin share one account per mint, as in the program. A recipient is a position of its bucket's list. Jupiter is the operator `Venue`: the swap takes exactly `amount_in` of WSOL and adds any amount of the bucket's mint, and `swap_payout` accepts what clears both floors. The order of the checks does not matter, since a failed instruction changes nothing.

**Distribution.** `distributeBucket` is a loop over one awaited call, so its state is a program counter, the cursor it read, and what became of the transaction it awaits. `view[d]` is the cursor as driver `d`'s RPC node knows it; `flight` has the transactions that may still land, including those whose sender has given up or crashed, and one may land more than once.

**Coin.** `dbc_pool[c]` and `position_fees[c]` are what the two venues hold for a coin, `fee_ata[c]` is the WSOL account a claim fills and the split empties. `claim_and_sweep` is one action with its two rails as disjuncts; the split is `SplitOf` (floor, floor, remainder) with the program's own checks that nothing remains. A cp-amm pool is named by the coin it pairs with WSOL, because that is all `sync_graduation` asks of it; positions are locked, held by the fee PDA, or foreign. `accrued` and `overridden` are auxiliary. The optional dev buy of `launch_coin` is left out: it moves the creator's own tokens, and can only make the launch fail.

**Session.** An address is what it is derived from; an account meta has its address and its two flags. A struct is the sequence of its accounts' checks, in the order of the source. `venue` is the venue that the deployed build is pinned to, either one. `flight` has transactions with what their sender saw (`seen`) and wanted (`means`); `accounts` has the accounts that exist with what the checks read of them. An encoder compares what it decodes with what it was given, as `index.ts:149-163` does, and throws otherwise.

**Indexer.** Handlers are synchronous, so memory changes in one step; the writes they make are queued in `todo` and reach the disk one by one, and a crash may tear the one at the front. A line of the file parses or does not. `processSlot`, `backfill`, `trackCoin`, `prune` and `Restart` are the operations.

**Round.** `job` is what the keeper has in memory: its plan and where each bucket landed. A crash forgets it; `Resume` builds the plan again for the frozen amount and list, and takes a bucket that exists on chain to be swapped. The repository has the keeper's parts but not the loop that calls them: the order of the calls is external, taken from their documentation (`round-builder.ts:10-14`, `keeper.ts:1-8`, `round-publisher.ts:17`): a file may be published as soon as the swaps are on chain, before, between or after the payments, and published again. Hashes are ideal: a hash is what was hashed.

**App.** JavaScript runs to the next await, so an action is what happens between two awaits; every call in progress is a member of `views`, `posts`, `attempts` or `grid` with its place. What the page shows is a small set of marks (`dom`).

**GateScript.** A script is a sequence of steps, each of which loads or makes a key, or sends a transaction and confirms it; `disk` has the key files, `mem` what the running process knows, `net` the transactions under way, `sol` the balances of the wallets. A blockhash may expire while its transaction lands; a key's file may be cut short by a crash, and then does not parse. A purchase is paid by the trader, accounts by who makes them; a top-up is sent only when the balance read is below its target (`prove-pda-feeclaimer.ts:349-362`, `task03-graduation.ts:228-235`), and nothing tops up task02's trader. In task02's last steps another wallet claims pool C to its own accounts (`task02-global-claimer.ts:486-537`).

## 3. What is checked

| run | instance | question | result |
|---|---|---|---|
| `payout_rounds` | 2 mints (WSOL and one more), 2 epochs, balances to 2, the allowlist edited | totals, cursors, completion, backing, funding, frozen records; refinement of `PayoutPromise` | holds |
| `payout_overlap` | the same without edits | "nothing double-spent" | violated: finding 2 |
| `payout_paused` | 1 epoch, pause | "`paused` stops distribution" | violated: finding 1 |
| `distribution` | 2 drivers, 5 recipients in batches of 2, 2 crashes | paid once, in order, completely; everyone in the end | holds |
| `coin` | 2 coins, 2 configs, 3 splits (one is not a whole), 2 floors, both pauses, payout list of capacity 1, overrides onto any coin's position, fees in threes to 6 | no fee lost, shares add up, graduation on its own pool, splits exact, one-way life; a sweepable fee is swept | holds |
| `coin_graduation` | 1 coin | "not for fee capture" | violated: finding 3 |
| `indexer` | 2 histories of 4 slots, 1 slot out of turn, 1 crash | aged balances of wallets seen in turn are true, what is acknowledged is kept, the file follows memory, the indexer catches up | holds |
| `indexer_replay` | the same with no slot out of turn | "idempotent replay" | violated: finding 4 |
| `round` | 3 wallets, 3 mints, 1 epoch, 2 weighings, 2 routes that may degrade, 1 crash | file and proofs verify, the plan fits, what the keeper tries to swap is accepted but for a USDC that is off the list or taken, what a published file says is never exceeded and in the end paid | holds |
| `app` | 2 wallets, 2 mints, 1 coin's card, 5 clicks, 3 routes | what was submitted is kept, a launch that succeeded is its screen's last, tables cover, every screen settles | holds |
| `client` | 5 stages of a deployment, 2 venues of the build, 3 transactions, 2 in flight | fresh transactions pass the account checks, swaps in the stub's build alone; the configuration changes as meant | holds |
| `gate` | 4 scripts, 3 pools, 2 balances of the payer, 3 of the trader, 2 faults | no funded key lost, fees of pools apart, a re-run completes where funds and keys allow | holds |

### The exceptions the properties name

Some properties hold but for a case that the code does not handle; the property names it, so that it says exactly what holds.

- `FileVerifies` and `PublishedIsPaid` except rounds for which an election was accepted after the plan was built (`reelected`): the service takes elections for any epoch, and a plan built again after a crash then differs.
- `PublishedIsPaid` except rounds that froze more than their plan was built for and were then resumed (`grown`), and `Swappable` and `PublishedIsPaid` except rounds in which a fallback landed and the keeper's memory of it was lost (`forgotten`).
- `Swappable` says what the keeper tries next for a bucket, its own mint or USDC over a degraded route, and that the program accepts it, but for USDC where the round's list lacks it or another bucket of the round has taken it. Such a bucket stalls, and so does USDC's own over a degraded route: section 4.
- `AgedTrue` for wallets whose records came in the order of the chain, each once (`InTurn`), once no slot still to come has the time at which the window ends (`Sealed`), and for files in which no record was lost to a torn line that was continued (`cut`). The cases left out - a slot delivered again after a crash among its writes, a slot filled in late, two slots of one time, a torn line - do make the number wrong: finding 4 and section 4. `Acknowledged` too excludes `cut`, and `FileFollowsMemory` says how much a `cut` costs: two neighbouring records at most.
- `FileFollowsMemory` is about records and the latest balances that a reload makes of them; of the latest balances it excludes files that were pruned after records came out of turn. `pending`, `highest` and `excluded` are on no file and a restart begins without them, which the model has and no property denies.
- `SubmittedIsKept` until the service restarts, which forgets nonces. It is about what was signed and sent; the line on the screen names the mint picked when the answer comes, which may be another (section 4).
- `LaunchedLast` is about launches that the page did not report as failed. After an error the button is active again, and when the error was only a lost confirmation a second coin is launched.
- `TablesCover` for launches whose table extensions landed.
- `AcceptedWhenFresh` has the two builds of the program and says of each what becomes of a swap: the client's names the stub venue always (`index.ts:112`), so it passes in the stub's build and in no other (section 4).
- `Completes` except task04, which is not made to be repeated; the case in which a migration sent by a dead run lands after the next run has written another position key over its file (`overtaken`); and scripts that have come to a step which no further run can do: a key's file was cut short (`Unreadable`), the payer has less than prove asks for or than a step costs, or task02's trader has less than its next purchase (`Lacking`).

### The bounds, and why they are enough

- **Payout.** Two mints let WSOL buckets and swapped buckets interact; two epochs give every interaction of an earlier and a later round, overlapping or not. Balances of 2 with amounts 1 and 2 allow one bucket to take part or all of a frozen amount, a second one to take the rest or be refused, a fee to arrive in between, and a bucket to be paid in one batch, in two, or not at all; counts 0 to 2 include the bucket without recipients and the one with more recipients than units. The allowlist is edited by the one mint that is not WSOL, which is enough to take a mint off it between settle and swap. Changes of `epoch_seconds` and of the slippage limits are not in the instance; the theorems cover them. `MaxBalance`, `MaxTime`, `MaxEpoch` appear only in guards of the environment's steps and in the set of epochs.
- **Distribution.** Five recipients in batches of two end in a short batch, and two drivers with two crashes include every interleaving of a slow driver, its successor and the transactions either left behind. The shares sum to exactly `AmountOut`, so the overpayment check is at its edge.
- **Coin.** Two coins are enough for one coin's fees, pool or position to be taken for the other's; each may earn twice, so that a rail may be left with a fee on it and be taken up again. Accruals of 3 do not divide under any of the splits. The initial state ranges over all configurations; there is one platform wallet, and `CoinProofs` has any number.
- **Indexer.** Four slots: one before, one that arrives out of turn, one after it, and one more that shares its time or is empty; one history ends after a time at which there is no block, so that a gate which opened too early would show. The histories have a transaction that nets to nothing, legs of one wallet twice in a transaction, the pool before and after it is tracked, and a wallet that goes to 0. One crash falls between any two writes, or inside any, and one detour is any slot at any time. `indexer_replay` needs the crash alone.
- **Round.** Three wallets with one over the cap, one that held nothing, one whose share is dust; three mints so that a default, an election and the fallback differ; fees to 3, so that shares do not divide; the routes of the default and of USDC degrade and recover; one crash before, between and after any call. Epochs are independent but for the money an earlier one leaves, which `PayoutRounds` has; the theorems are for any number of epochs and crashes.
- **App.** Five clicks are enough for connect, pick, submit, switch the wallet, submit again; or for two launches with an error between them. 18 addresses are what `launchtx.ts` sends at once.
- **Session.** Every instruction is sent from every one of five stages (nothing, initialised, with lists, with a coin, with a settled epoch) with two transactions in flight, so that each pair of instructions crosses. Each stage is there in either build of the program, but for the one with a swapped bucket, which this client can have made in the stub's build alone.
- **GateScript.** Two faults: a transaction that lands unseen, a crash or a torn key, and another of the re-run; faults after which a script runs on for want of funds need no fault of their own. Three pools as in `POOL_PLAN`, two that the fee claimer's own claims serve and one that is redirected. A purchase costs one unit (pool C's two), an account one, and the trader is topped up to 5; a payer of 10 lasts for one run and not always for a second, one of 40 for all; a trader of 6 lasts for one run of task02, one of 20 for all, one of 0 for none. Network fees are left out, being far below either. The curve for the dev buy is a table with a plateau at the cap.
- `CHECK_DEADLOCK FALSE` stands where the bounded environment ends: clocks, balances, clicks, slots or faults reach their bound. `distribution` checks deadlock.

Each property of a passing run has a mutant in `PROJECT.json`: a plausible bug of the code under which TLC finds that property violated.

### Fairness

- `Distribution`: weak fairness of each driver's step (the keeper's loop is scheduled, and an await ends by confirmation or timeout, after which the caller starts again) and of each node's refresh (RPC nodes catch up); strong fairness of "some transaction in flight lands": the network may lose any number, but a keeper that sends again and again at last gets one through. Crashes are bounded. `EveryonePaid` needs all three: without a refresh the same stale batch is sent forever.
- `Coin`: weak fairness of `ClaimAndSweep` for each coin, since the keeper polls every coin, dormant ones hourly (`keeper.ts:11-25`), and anyone else may sweep. `FeesArrive` claims only that a fee does not stay sweepable forever; no fairness says that a pause or a rotation ends.
- `Indexer`: weak fairness of "restart, write, or deliver the slot after the watermark": a supervisor restarts the process, a running handler makes its writes, and the caller resumes at the watermark, as `indexer.ts:25` tells it to. Delivery out of turn is not fair.
- `App`: weak fairness of the steps that answer a read, a request or a wallet prompt, since each ends or fails. The user's clicks are not fair.
- `GateScript`: weak fairness of the script's next step and of "a transaction under way lands or fails"; faults are bounded.
- `Payout`, `Round` and `Session` have safety properties only: their keeper and admin decide what to do.

## 4. Findings

These are disagreements of the code with a document or comment, each with a run that shows it.

1. **Pause does not stop distribution.** `lib.rs:356` and `specs/H2E_ARCHITECTURE_v3.md:465` say that `paused` stops distribution. Only `claim_and_sweep` reads the flag; `settle_epoch`, `swap_payout` and `distribute_batch` go on. Run `payout_paused`.
2. **Overlapping rounds freeze the same WSOL twice.** `settle_epoch` freezes the whole balance of the payout WSOL account, including what an unfinished earlier epoch still owes or may still swap. The buckets of both are then given more than was credited, and not all recipients can be paid; `specs/H2E_ARCHITECTURE_v3.md:309-311` promises "nothing double-spent". Run `payout_overlap`. `RoundFunded` states the discipline that avoids it - finish the WSOL buckets of a round and its swaps before settling the next - and that it is enough.
3. **Fees may stay on the curve.** After `sync_graduation` sweeps use the pool's rail only, and anyone may call it without a claim first; what the curve still holds for the coin waits until the admin sets the status back by hand. `specs/H2E_ARCHITECTURE_v3.md:342-343` says that the keeper's liveness does not matter for fee capture. Run `coin_graduation`. `FeesAccounted` shows that such fees are not lost.
4. **A replay is not idempotent.** `processSlot` appends the records of a slot one by one and writes the watermark last; a slot above the watermark is taken as new (`indexer.ts:81`, "idempotent replay"), and no record is recognised by its `seq`. When the process dies after the records and before the watermark, the slot is delivered again and each of its deltas is added to a balance that has it already; the number behind the gate is then wrong. Run `indexer_replay`: after one slot and one crash a wallet that holds 3 has 6. `store.ts:13-16` calls the log "crash-safe", and `:36-38` says that "a restart reproduces state exactly"; it does reproduce the records, and so the half-done slot.

The same modelling met other places where a statement of the repository is not what the code does. They have no run of their own; each is a case that a property names as its exception (section 3) or that follows from one line.

- **A slot filled in late** adds its delta to the latest balance (`indexer.ts:91`, `:69`), so its record carries a balance from the future of its own time, and the smallest balance over a window may be wrong. `indexer.test.ts:102` has a window closed by such a backfill as "now safe".
- **The gate** asks for a watermark at the window's end or later (`indexer.ts:30-31`, "Block time up to which history is provably complete"; `:121`), but the next slot may have the same block time and still be missing.
- **A torn line that is continued** takes the record that is appended to it along: `reload` drops both, the second of them whole and acknowledged (`store.ts:79`). `store.ts:14-15` says that "a torn final line is dropped on reload and everything before it is intact"; what comes after it is not.
- **A restart** (`store.ts:36-38`) begins without `pending`, `highest` and the excluded addresses: slots above a gap are indexed again, `gaps` does not report the hole until a higher slot comes, and a pool is counted as a holder until its coin is tracked again. And `prune` keeps of each wallet the last record by time and `seq`, while memory has the last that came.
- **A bucket may stall in spite of its fallback** (`keeper.ts:65-71`): the fallback is to USDC alone, and one bucket of a round may be in USDC; when USDC has its own bucket, or a second bucket degrades, or USDC is off the list, the program refuses. `Swappable` names these.
- **The page names another mint than the one that was signed.** The picker stays active while the wallet signs and the request is under way, and the line reads "you will be paid in" the mint picked last (`election.ts:65`).
- **An election is for epoch 0 always.** The page elects for `current_epoch`, which `launch_coin` sets to 0 and nothing advances (`lib.rs:285`), while it says "next round" (`election.ts:46`, `:65`). After the first round that is so no longer; the model takes the epoch as given.
- **A second coin.** A launch whose confirmation is lost is reported as failed and may be pressed again, although it landed (`launch.ts:154-170`).
- **The client's swaps are for the stub's build.** `index.ts:110-112` says "Jupiter v6 in production. Must match the program's `JUPITER_PROGRAM` const" and has the stub's address. `DEPLOY.md:3-6` and `:136-138` build without the stub, and `DEPLOY.md:49` says that all builders are in this client: a program so built refuses every `swap_payout` that the client builds. `AcceptedWhenFresh` states it for either build.
- **task02's verdict.** It compares the whole balance of a destination with one claim (`task02-global-claimer.ts:482`), so what it prints is wrong when it is run again over a pool that was claimed before, although the fees are where they belong (`FeesApart`).

## 5. What is proved

All proofs hold for every value of the constants under the assumptions named in the modules: finitely many mints, coins and wallets; amounts, counts and floors natural numbers; the list of `Distribution` within what the swap measured, every share positive; no mint named `"none"`, the mark of a bucket that has not landed (`Round`); blocks whose times do not run backwards and that have at most `SEQ_MULT` transactions, as `indexer.ts:11` demands, and histories in which nobody but the pool ever holds less than nothing (`Indexer`).

Each invariant below was checked by TLC on the instance of its run before it was proved, those of `Round` and `Indexer` also on larger ones (two epochs; two crashes).

**Sums** (`UnitSumsProofs`). `UnitsFinite`, `TotalUpdate`, `TotalZero`, `TotalMonotone`, `TotalGiven`: a sum over accounts is a natural number, changes by what one account changes, and so on. `TotalPlus`, `TotalTimes`, `TotalOfParts`, `TotalSplit`: sums of sums, multiples, and of accounts put into groups. They follow from bijections between units and the library's facts on cardinalities; the one induction, over the factor of `TotalTimes`, goes through the least number that is missing from a set (`InductiveSet`), which `IndexerProofs` uses for its recursive functions too. `Ranked` numbers the members of a finite set of naturals, which is what `Picked` and `InOrder` do.

**Payout** (`PayoutProofs`). `Inv` is inductive: the checked invariants with two strengthenings. `UncreatedIsBlank` says that an account never created is all zero, so that a bucket or an epoch starts its sums and counts from nothing; `SettledIsOver` that a settled epoch's end has passed, which a new bucket inherits. Per instruction, one lemma gives its effect, one shows that it preserves `Inv`. From it: `TypeCorrect`, `SpentCorrect`, `BoundsCorrect`, `CompletionCorrect`, `SnapshotCorrect`, `OutputsCorrect`, `FrozenCorrect`, and `PromiseKept`, that every step is a step of `PayoutPromise` or leaves it alone.

**Rounds** (`PayoutProofs`, second part). `RoundsInv` adds that a WSOL bucket owes no more than its epoch spent. From it: `RoundFundedCorrect` and `WsolConservedCorrect`. A settlement makes its round the current one, whose unswapped rest is the whole balance, so nothing may be owed at that moment - which is what `overlapped` records.

**Distribution** (`DistributionProofs`). The invariant is `TypeOK`, `PaidInOrder`, the tally, and that no driver's view is ahead of the cursor (`ViewsBehind`), which is why a driver that returns has nothing left to pay. From it: `PaidInOrderCorrect`, `TallyCorrect`, `ReturnsCorrect`, `PaysOnceCorrect`, for any number of drivers, crashes, recipients and batch sizes.

**Coin** (`CoinProofs`). `Inv` is `TypeOK`, `FeesAccounted`, `SharesAddUp`, `GraduatedOnOwnPool`, and that a coin not launched has claimed nothing. `SplitFacts` is the arithmetic of the split: three natural numbers that sum to the claim, two of them floors, for every amount and every whole split. From these: `TypeCorrect`, `FeesCorrect`, `SharesCorrect`, `GraduationCorrect`, `SplitCorrect`, `LifeCorrect`.

**Round** (`RoundProofs`). `SharesFit`: for any weights and any amount, the rounded shares add up to no more than the amount, and leave less than a unit for each wallet; `BuildFits`: so do the buckets of a plan and the shares it drops. `BuildRoot`: the root of a plan depends on weights, elections and list, not on the amount. `Inv` adds what a job in memory has to do with the chain: a plan not yet settled was made from no more than the account has (`PlanFits`), and every anchored root is the one that a plan of its epoch would have now, unless an election came late (`AnchorsStand`, `JobRoot`) - that is why a plan built again after a crash has the same root. From it: `FitsFrozenCorrect`, `FileVerifiesCorrect`. What `Distribution` assumes of its list - the same for every driver, and shares within what was swapped - rests on these two.

`Swappable` and `PublishedIsPaid` need the books of a round beside the job, the invariant `Ledger`. `Blank` and `OneRound`: a round that is not settled has no bucket, no payment and no file, at most one settled round is unfinished, and the keeper is at that one or about to settle the next. `JobPays`: each bucket of the plan has an amount and someone to pay. `JobStands`: unless an election came late, the plan in memory is the one that would be built now, so a resumed round goes on with the same buckets. `Money`: the account has what the round may still swap and what its WSOL bucket still owes. `Placed`: the buckets on chain come from different buckets of the plan, each in its own mint or in USDC, and took together no more than those - hence `SwappableCorrect`. `Received`: a wallet has had one payment if the bucket it belongs to is paid out, and none otherwise. A file may be there before the payments, so of a published round this gives that nobody has more than the file says, and equality when the round has nothing left to pay: `PublishedIsPaidCorrect`.

`ProofsVerifyCorrect` is about trees of every height. `LevelsIs` and `HeightIs`: each level of more than one node is longer than the next, so the levels end in one node; `PlacesIs`: a leaf's place on each level is within it; `ProofVerifies`: by induction over the levels, the hash of a leaf with the siblings so far is the node at its place, so that at last it is the root - both at an odd end, where a node is paired with itself, and at any other.

**App** (`AppProofs`). For `SubmittedIsKeptCorrect`, `Inv` says of every submission in progress what it will send and what the service knows of it (`PostsTrue`), and of everything told that the service has it as it was sent, or a newer one (`AllTold`), with nonces that only grow. For `LaunchedLastCorrect`, `LaunchInv` says that of the launches of a screen only the newest may be one that did not fail (`Certain`), and that while it may land the button is off.

`TablesCoverCorrect` is about a launch while it fills its table: `TablesOK` says of an attempt that the table has all the addresses it has gone past, unless one of its transactions failed, and that it polls and launches only when it has gone past all. The rest is a comparison of the address lists of `Client`, instruction by instruction.

**Session** (`SessionProofs`). `Inv` says that a transaction in flight carries, as what it says, what its sender meant, and names and lets sign the admin its sender saw (`FlightsOK`); that a deployment that is not initialised has no instruction that could pass (`NeedsGlobal`). `Lands` goes through the instructions that write `GlobalConfig`. From it: `AdminMeantCorrect`. `AcceptedCorrect` goes through all instructions of the client, account by account. Its invariant `Fresh` says that every account holds what its address stands for (`AllStand`) and rests on others that are still there - a coin on the configuration and the list, an epoch on its coin, its list and its WSOL account, a bucket on the account it pays from (`AllRest`) - and that a transaction in flight was accepted by what its sender saw (`FlightsFresh`): that is shown when it is sent, and stands while nothing moves. It is for either build: only `swap_payout` looks at the venue (`VenueOnlyForSwaps`), and its check of the venue's account compares the client's constant with the program's (`lib.rs:1104`, `:1632`, `index.ts:112`).

**Indexer** (`IndexerProofs`). The first part computes what the code's loops compute, for sequences of every length: `Net`, `Affected`, `BalancesAfter`, `RecordsOf`, `Advanced`, `Kept`, and what a reload reads (`FlattenConcat`, `LatestOfConcat`). `RecordsIs`: a slot yields, for each of its transactions and each counted wallet it moves, one record of its own.

`AcknowledgedCorrect` follows from `Durable`. `FileKept`: the file followed by the writes still to be made is what memory has, or a rewrite of all of it is under way. `Acked`: the records on disk cover every slot up to the watermark on disk, those in memory also the slots that wait above it, and a watermark still to be written covers no more than memory has. `LinesFirst`: a handler's records are written before the watermark that covers them, so that a crash between two writes loses nothing that was acknowledged (that it counts the slot twice is finding 4). `Unstarted`: before the baseline is on disk nothing is acknowledged, so a crash within the first slot starts over. All are conditional on `cut`, which records the one way a whole line is lost: a torn line that is continued after a restart (`store.ts:79`), or a torn rewrite.

`FileFollowsCorrect` keeps, beside those, what a cut newline does to the file. `OneEach`: a queued write of a line is of one record, so that a continued torn line takes one record along and no more. `Trails`: the file followed by the queued writes has the records of memory, but for two neighbours at most when a line was cut (`TrailsFollow`: with `LatestKept` that is the property). The latest balances need `LatestKept` and `StraightKept` besides. `prune` keeps, of each wallet, the last record before its bound by time and `seq`, while `reload` takes the last line of the file: the two agree only as long as records lie in the order of the chain. `StraightKept` says that they do, that none is beyond the watermark and that none of a slot up to it is missing but those that pruning dropped, until a slot came out of turn or a handler was interrupted (`Ordered`, `Upto`, `Complete`).

`AgedTrueCorrect` relates a minimum over records to what happened on the chain, and needs three invariants beside those (`Reproducible`). `Sourced`: each record is of a transaction that moved its wallet and, until history is pruned, carries the balance of that wallet's previous record and the transaction's net. `Truthful`: while slots come in turn, each record carries the wallet's true balance. `Stamped`: the time beside the watermark is no later than that of any slot above it, also while a watermark waits to be written; so behind the gate no slot to come falls into the window (`GateCloses`). The argument then has two halves. That the records tell the truth: `Chronicle` numbers the transactions of a history, `TruthIs` gives the true balance after each, and if a wallet's records came in turn and none is missing, their balances are the true ones (`AllTrue`, by induction over the records; the floor of `indexer.ts:91` never bites, as nobody holds less than nothing). And that the engine's minimum is the one asked for: the wallet's balance when the window opens is that of its last earlier record, each change within is a record, and no record there is of anything else (`ClosedKnown`), so both minima are over the same balances (`KnownAged`); a history whose early records are cut off has no balance for the start of the window, or the right one, hence 0 or the same minimum. Of the gate's two conditions the proof uses the watermark's time; that no slot waits above it (`Missing = {}`) is not needed.

**Only model-checked:** liveness (`EveryonePaid`, `FeesArrive`, `CatchesUp`, `ScreenSettles`, `Completes`), which is out of the prover's reach; `KeysKept` and `FeesApart` of the Phase-0 scripts, tools of a test network; and the four violated properties.

## 6. What is assumed or left out

Assumed:

- Solana: atomic transactions, signature and owner checks; derived addresses and hashes have no collisions.
- Jupiter's data is opaque to the program; the venue is assumed to spend exactly `amount_in`, as an exact-in route does. The stub's own program is not modelled beyond that.
- Recipients have a token account for their bucket's mint, and none of them is the payout account itself. One without an account fails its batch, and strict order stops its bucket there.
- Donations to the payout accounts are not modelled, apart from `SendToFeeAta` for the fee account. They could only add to balances that are compared by `>=`.
- Amounts are natural numbers. The program computes in checked `u64` and in `u128`, so an overflow is a refused instruction, and no balance can exceed the supply of a mint.
- Every DBC config the admin names has the fee PDA as its fee claimer (`lib.rs:325-326` warns of others); fees of a position that is not the locked one are nobody's in the model.
- `sync_graduation` does not establish that the pool it records is the one the coin migrated to, only that it has the pair; `GraduatedOnOwnPool` claims no more.
- In `Round` no two rounds of a coin overlap: a keeper that lets them meets finding 2.
- A block's time never runs backwards along the chain, and no holder's true balance is ever negative.

Not modelled, and why:

- `claimTier` and `epochPhaseOffset` (`keeper.ts:16-42`): pure functions that decide only when something is called; every time is covered.
- The election service's `tally`, `payoutVaultBalance` and other reads for display; formatting, styling, pictures (`placeholder-art.ts`), the site's markup: no state, and no claim depends on them.
- HTTP servers and RPC transport: I/O; what they can lose, repeat or delay is in the models.
- The asset catalog: a static table of mints.
- prove-pda's two claim attempts that lack the fee claimer's signature (they change nothing, and either outcome is caught), and what the Phase-0 scripts only print. Network fees in `GateScript`: balances are in units far above them.
- The Phase-0 fee claimer program: a prototype superseded by `claim_and_sweep`; its claims are external steps of `GateScript`.
- The other scripts (`sweep.mjs`, `create-platform-config`, generators, measurements) and the tests: tools that set up or print; read as documentation of what is intended.

## 7. What is left

In the order of what it would add:

1. `Round` with two epochs at once over one account: the discipline of finding 2 is external today.
2. A second tab, and the browser's storage, in `App`.
3. `KeysKept` and `FeesApart` as theorems.
4. Epochs in `App`: an election for epoch 0 against rounds that go on, which today is a remark in section 4.
