-------------------------------- MODULE Coin --------------------------------
(***************************************************************************)
(* The life of the coins and the road of their fees, as the instructions   *)
(* of programs/h2e/src/lib.rs run them: launch_coin, claim_and_sweep on    *)
(* both rails, sync_graduation, set_graduation, retire_coin, and the admin *)
(* instructions they read.                                                 *)
(*                                                                         *)
(* A coin bonds on a DBC curve, whose fees claim_trading_fee collects;     *)
(* when the curve completes it migrates to a cp-amm pool of its own, whose *)
(* fees claim_position_fee collects for the locked position.  The program  *)
(* learns of the migration only when someone calls sync_graduation.        *)
(*                                                                         *)
(* A cp-amm pool is named by the coin it pairs with WSOL, which is all the *)
(* program asks of it.  Of the positions in such pools one is locked for   *)
(* the platform by the migration; others are held by the fee PDA as well,  *)
(* or by somebody else.  The optional dev buy of launch_coin moves only    *)
(* the creator's own tokens and can only make the launch fail; it is left  *)
(* out, and its trading fee is a TradeOnCurve.                             *)
(***************************************************************************)
EXTENDS Integers, FiniteSets, UnitSums

CONSTANTS
  Coins,         \* base mints
  Configs,       \* DBC partner configs, each with the fee PDA as its fee claimer
  Wallets,       \* wallets the admin may name as the platform's
  PayoutMints,   \* mints the admin may allow as payout assets
  Splits,        \* splits the admin may ask for, the invalid ones included
  MinSweeps,     \* values of min_sweep_lamports
  CreationFees,  \* values of pool_creation_fee_lamports
  Pauses,        \* pairs of paused and pause_launches the admin may set
  Overrides,     \* graduations the admin may set by hand
  Accruals,      \* u64 amounts by which fees accrue
  MaxAccrued,    \* bound on what all coins ever accrue
  MaxPlatformAllowlist,  \* MAX_PLATFORM_ALLOWLIST
  None

Split == [holder_bps : Nat, h2e_bps : Nat, platform_bps : Nat]
Statuses == {"Bonding", "Graduated", "Retired"}
Positions == [pool : Coins, kind : {"Locked", "Held", "Foreign"}]
Graduation ==
  [status : Statuses, damm_pool : Coins \cup {None},
   locked_position : Positions \cup {None}]

ASSUME CoinsAssumption == IsFiniteSet(Coins) /\ None \notin Coins
ASSUME WalletsAssumption == IsFiniteSet(Wallets)
ASSUME InputsAssumption ==
  /\ Splits \subseteq Split
  /\ MinSweeps \subseteq Nat /\ CreationFees \subseteq Nat
  /\ Pauses \subseteq [paused : BOOLEAN, pause_launches : BOOLEAN] /\ Overrides \subseteq Graduation
  /\ Accruals \subseteq Nat \ {0}
  /\ MaxAccrued \in Nat /\ MaxPlatformAllowlist \in Nat

VARIABLES
  global_config,       \* the fields of GlobalConfig read here
  platform_allowlist,  \* PlatformAllowlist.mints
  coin_config,         \* CoinConfig accounts, by mint
  dbc_pool,            \* the coins' curves
  position_fees,       \* fees claimable by the locked position, by pool
  fee_ata,             \* FeeAuthority's WSOL account, by coin
  payout,              \* WSOL ever credited to the PayoutAuthority, by coin
  revenue,             \* WSOL ever credited to the RevenueAuthority
  platform,            \* WSOL ever credited to each platform wallet
  creation_fees,       \* pool creation fees ever paid to each platform wallet
  accrued,             \* auxiliary: what each coin ever accrued
  overridden           \* auxiliary: coins the admin has set by hand

chain == <<dbc_pool, position_fees>>
shares == <<payout, revenue, platform>>
vars == <<global_config, platform_allowlist, coin_config, chain, fee_ata,
          shares, creation_fees, accrued, overridden>>

(* The three shares are the whole.                                         *)
ValidSplitUnchecked(s) == TRUE

ValidSplit(s) == s.holder_bps + s.h2e_bps + s.platform_bps = 10000

GlobalConfig ==
  [paused : BOOLEAN, pause_launches : BOOLEAN,
   platform_config_key : Configs, platform_wallet : Wallets,
   split : Splits, min_sweep_lamports : MinSweeps,
   pool_creation_fee_lamports : CreationFees]

CoinConfig ==
  [status : Statuses \cup {"None"}, damm_pool : Coins \cup {None},
   locked_position : Positions \cup {None},
   default_payout_mint : PayoutMints \cup {None}, total_claimed : Nat]

DbcPool == [config : Configs \cup {None}, is_migrated : BOOLEAN, fees : Nat]

NoCoin ==
  [status |-> "None", damm_pool |-> None, locked_position |-> None,
   default_payout_mint |-> None, total_claimed |-> 0]

NoPool == [config |-> None, is_migrated |-> FALSE, fees |-> 0]

TypeOK ==
  /\ global_config \in GlobalConfig
  /\ LET s == global_config.split
     IN  s.holder_bps + s.h2e_bps + s.platform_bps = 10000
  /\ platform_allowlist \in SUBSET PayoutMints
  /\ IsFiniteSet(platform_allowlist)
  /\ Cardinality(platform_allowlist) <= MaxPlatformAllowlist
  /\ coin_config \in [Coins -> CoinConfig]
  /\ dbc_pool \in [Coins -> DbcPool]
  /\ position_fees \in [Coins -> Nat]
  /\ fee_ata \in [Coins -> Nat]
  /\ payout \in [Coins -> Nat]
  /\ revenue \in Nat
  /\ platform \in [Wallets -> Nat]
  /\ creation_fees \in [Wallets -> Nat]
  /\ accrued \in [Coins -> Nat]
  /\ overridden \in SUBSET Coins

(* initialize_global and init_platform_allowlist have run; no coin is      *)
(* launched.                                                               *)
Init ==
  /\ global_config \in GlobalConfig
  /\ [paused |-> global_config.paused,
      pause_launches |-> global_config.pause_launches] \in Pauses
  /\ ValidSplit(global_config.split)
  /\ platform_allowlist = {}
  /\ coin_config = [c \in Coins |-> NoCoin]
  /\ dbc_pool = [c \in Coins |-> NoPool]
  /\ position_fees = [c \in Coins |-> 0]
  /\ fee_ata = [c \in Coins |-> 0]
  /\ payout = [c \in Coins |-> 0]
  /\ revenue = 0
  /\ platform = [w \in Wallets |-> 0]
  /\ creation_fees = [w \in Wallets |-> 0]
  /\ accrued = [c \in Coins |-> 0]
  /\ overridden = {}

Launched(c) == coin_config[c].status # "None"

----------------------------------------------------------------------------
(* Admin instructions.                                                     *)

Configure(new_config) ==
  /\ global_config' = new_config
  /\ UNCHANGED <<platform_allowlist, coin_config, chain, fee_ata, shares,
                 creation_fees, accrued, overridden>>

SetParams(split, min_sweep, creation_fee) ==
  /\ ValidSplit(split)
  /\ Configure([global_config EXCEPT
       !.split = split, !.min_sweep_lamports = min_sweep,
       !.pool_creation_fee_lamports = creation_fee])

SetPlatformWallet(w) == Configure([global_config EXCEPT !.platform_wallet = w])

SetPlatformConfigKey(k) ==
  Configure([global_config EXCEPT !.platform_config_key = k])

Pause(p) ==
  Configure([global_config EXCEPT
    !.paused = p.paused, !.pause_launches = p.pause_launches])

SetPlatformAllowlist(mint, add) ==
  /\ add /\ mint \notin platform_allowlist =>
       Cardinality(platform_allowlist) < MaxPlatformAllowlist
  /\ platform_allowlist' =
       IF add THEN platform_allowlist \cup {mint} ELSE platform_allowlist \ {mint}
  /\ UNCHANGED <<global_config, coin_config, chain, fee_ata, shares,
                 creation_fees, accrued, overridden>>

RecordCoin(c, cc) ==
  /\ coin_config' = [coin_config EXCEPT ![c] = cc]
  /\ UNCHANGED <<global_config, platform_allowlist, chain, fee_ata, shares,
                 creation_fees, accrued>>

RetireCoin(c) ==
  /\ Launched(c)
  /\ RecordCoin(c, [coin_config[c] EXCEPT !.status = "Retired"])
  /\ UNCHANGED overridden

WithGraduation(cc, status, pool, position) ==
  [cc EXCEPT !.status = status, !.damm_pool = pool, !.locked_position = position]

SetGraduation(c, status, pool, position) ==
  /\ Launched(c)
  /\ RecordCoin(c, WithGraduation(coin_config[c], status, pool, position))
  /\ overridden' = overridden \cup {c}

----------------------------------------------------------------------------
(* A creator launches a coin on the platform's config of the day.          *)
LaunchCoin(c, mint) ==
  /\ ~Launched(c)
  /\ ~global_config.pause_launches
  /\ mint \in platform_allowlist
  /\ coin_config' = [coin_config EXCEPT ![c] =
       [NoCoin EXCEPT !.status = "Bonding", !.default_payout_mint = mint]]
  /\ dbc_pool' = [dbc_pool EXCEPT ![c].config = global_config.platform_config_key]
  /\ creation_fees' = [creation_fees EXCEPT ![global_config.platform_wallet] =
       @ + global_config.pool_creation_fee_lamports]
  /\ UNCHANGED <<global_config, platform_allowlist, position_fees, fee_ata,
                 shares, accrued, overridden>>

(* External: trading brings fees, on the curve and then in the pool; WSOL  *)
(* may also be sent to the fee account by a plain transfer.                *)
Earn(c, amount) ==
  /\ Launched(c)
  /\ Total(accrued) + amount <= MaxAccrued
  /\ accrued' = [accrued EXCEPT ![c] = @ + amount]
  /\ UNCHANGED <<global_config, platform_allowlist, coin_config, shares,
                 creation_fees, overridden>>

TradeOnCurve(c, amount) ==
  /\ Earn(c, amount)
  /\ ~dbc_pool[c].is_migrated
  /\ dbc_pool' = [dbc_pool EXCEPT ![c].fees = @ + amount]
  /\ UNCHANGED <<position_fees, fee_ata>>

TradeInPool(c, amount) ==
  /\ Earn(c, amount)
  /\ dbc_pool[c].is_migrated
  /\ position_fees' = [position_fees EXCEPT ![c] = @ + amount]
  /\ UNCHANGED <<dbc_pool, fee_ata>>

SendToFeeAta(c, amount) ==
  /\ Earn(c, amount)
  /\ fee_ata' = [fee_ata EXCEPT ![c] = @ + amount]
  /\ UNCHANGED chain

(* External: the curve completes and anyone migrates it.  Fees not claimed *)
(* yet stay with the curve.                                                *)
Migrate(c) ==
  /\ Launched(c)
  /\ ~dbc_pool[c].is_migrated
  /\ dbc_pool' = [dbc_pool EXCEPT ![c].is_migrated = TRUE]
  /\ UNCHANGED <<global_config, platform_allowlist, coin_config, position_fees,
                 fee_ata, shares, creation_fees, accrued, overridden>>

----------------------------------------------------------------------------
(* The checks of sync_graduation on what its caller supplies.  A pool      *)
(* exists once its coin has migrated; it may be any pool of the pair, and  *)
(* the position any that the fee PDA holds there.  Bugs: the pool's mint,  *)
(* or the coin's status, is not looked at.                                 *)
Held(position) == position.kind # "Foreign"

GraduatedToAnyPool(c, pool, position) ==
  /\ coin_config[c].status = "Bonding"
  /\ dbc_pool[c].is_migrated
  /\ dbc_pool[pool].is_migrated
  /\ position.pool = pool
  /\ Held(position)

GraduatedAgain(c, pool, position) ==
  /\ Launched(c)
  /\ dbc_pool[c].is_migrated
  /\ pool = c
  /\ position.pool = pool
  /\ Held(position)

GraduatedTo(c, pool, position) ==
  /\ coin_config[c].status = "Bonding"
  /\ dbc_pool[c].is_migrated
  /\ pool = c
  /\ position.pool = pool
  /\ Held(position)

SyncGraduation(c, pool, position) ==
  /\ GraduatedTo(c, pool, position)
  /\ RecordCoin(c, WithGraduation(coin_config[c], "Graduated", pool, position))
  /\ UNCHANGED overridden

(* What a claim brings to the fee account, on the rail of the coin's       *)
(* status, and whether the venue accepts it: DBC wants the config of the   *)
(* pool, and claim_and_sweep passes the platform's of the day; cp-amm      *)
(* wants a pool that exists, its mint, and a position of it that the       *)
(* signer holds.                                                           *)
(* A position that is not the locked one brings nothing of the coin's fees.*)
OnLockedPosition(c) ==
  coin_config[c].locked_position = [pool |-> c, kind |-> "Locked"]

ClaimTradingFee(c) ==
  /\ coin_config[c].status = "Bonding"
  /\ dbc_pool[c].config = global_config.platform_config_key
  /\ dbc_pool' = [dbc_pool EXCEPT ![c].fees = 0]
  /\ UNCHANGED position_fees

ClaimPositionFee(c) ==
  /\ coin_config[c].status = "Graduated"
  /\ dbc_pool[c].is_migrated
  /\ coin_config[c].damm_pool = c
  /\ coin_config[c].locked_position \in {p \in Positions : p.pool = c /\ Held(p)}
  /\ position_fees' =
       IF OnLockedPosition(c) THEN [position_fees EXCEPT ![c] = 0] ELSE position_fees
  /\ UNCHANGED dbc_pool

Claimed(c) ==
  fee_ata[c] +
    CASE coin_config[c].status = "Bonding" -> dbc_pool[c].fees
      [] coin_config[c].status # "Bonding" /\ OnLockedPosition(c) -> position_fees[c]
      [] OTHER -> 0

(* floor, floor, and the remainder; as a bug, three floors.                *)
SplitOfFloored(claimed, s) ==
  [holder |-> (claimed * s.holder_bps) \div 10000,
   h2e |-> (claimed * s.h2e_bps) \div 10000,
   platform |-> (claimed * s.platform_bps) \div 10000]

SplitOf(claimed, s) ==
  LET holder == (claimed * s.holder_bps) \div 10000
      h2e == (claimed * s.h2e_bps) \div 10000
  IN  [holder |-> holder, h2e |-> h2e, platform |-> claimed - holder - h2e]

(* The total forgets earlier claims; only the platform's part is counted.  *)
AccountOverwritten(cc, claimed) == [cc EXCEPT !.total_claimed = claimed]
AccountSkipped(cc, claimed) == cc

Account(cc, claimed) == [cc EXCEPT !.total_claimed = @ + claimed]

(* Permissionless.                                                         *)
ClaimAndSweep(c) ==
  LET claimed == Claimed(c)
      part == SplitOf(claimed, global_config.split)
      w == global_config.platform_wallet
  IN  /\ ~global_config.paused
      /\ ClaimTradingFee(c) \/ ClaimPositionFee(c)
      /\ claimed >= global_config.min_sweep_lamports
      /\ part.platform >= 0
      /\ part.holder + part.h2e + part.platform = claimed
      /\ payout' = [payout EXCEPT ![c] = @ + part.holder]
      /\ revenue' = revenue + part.h2e
      /\ platform' = [platform EXCEPT ![w] = @ + part.platform]
      /\ fee_ata' = [fee_ata EXCEPT ![c] = 0]
      /\ coin_config' = [coin_config EXCEPT ![c] = Account(@, claimed)]
      /\ UNCHANGED <<global_config, platform_allowlist, creation_fees, accrued,
                     overridden>>

----------------------------------------------------------------------------
AdminStep ==
  \/ \E s \in Splits, m \in MinSweeps, f \in CreationFees : SetParams(s, m, f)
  \/ \E w \in Wallets : SetPlatformWallet(w)
  \/ \E k \in Configs : SetPlatformConfigKey(k)
  \/ \E p \in Pauses : Pause(p)
  \/ \E mint \in PayoutMints, add \in BOOLEAN : SetPlatformAllowlist(mint, add)
  \/ \E c \in Coins : RetireCoin(c)
  \/ \E c \in Coins, g \in Overrides :
       SetGraduation(c, g.status, g.damm_pool, g.locked_position)

MarketStep(c) ==
  \/ \E m \in PayoutMints : LaunchCoin(c, m)
  \/ \E a \in Accruals :
       TradeOnCurve(c, a) \/ TradeInPool(c, a) \/ SendToFeeAta(c, a)
  \/ Migrate(c)

Next ==
  \/ AdminStep
  \/ \E c \in Coins :
       \/ MarketStep(c)
       \/ \E pool \in Coins, position \in Positions :
            SyncGraduation(c, pool, position)
       \/ ClaimAndSweep(c)

Spec == Init /\ [][Next]_vars

(* The keeper polls every coin, the dormant ones hourly, and sweeps when a *)
(* claim clears the floor; anyone else may sweep as well.                  *)
Fairness == \A c \in Coins : WF_vars(ClaimAndSweep(c))

FairSpec == Spec /\ Fairness

----------------------------------------------------------------------------
(* Whatever a coin accrued is still to be claimed on one of its rails, or  *)
(* was claimed for that coin: no rail change, override or rotation loses a *)
(* fee or books it to another coin.                                        *)
FeesAccounted ==
  \A c \in Coins :
    accrued[c] = dbc_pool[c].fees + position_fees[c] + fee_ata[c]
                 + coin_config[c].total_claimed

(* What was claimed for all coins is what the holders, $H2E and all        *)
(* platform wallets got, across every change of split and wallet.          *)
SharesAddUp ==
  Total([c \in Coins |-> coin_config[c].total_claimed])
    = Total(payout) + revenue + Total(platform)

(* A coin that sync_graduation graduated has migrated, and is bound to a   *)
(* pool of its own pair and to a position there that the fee PDA holds, so *)
(* that cp-amm accepts the claims of its sweeps.                           *)
GraduatedOnOwnPool ==
  \A c \in Coins \ overridden :
    coin_config[c].status = "Graduated" =>
      /\ dbc_pool[c].is_migrated
      /\ coin_config[c].damm_pool = c
      /\ coin_config[c].locked_position \in {p \in Positions : p.pool = c /\ Held(p)}

(* A sweep gives each party its share to the lamport: holders and $H2E     *)
(* never more and less than one unit short, the platform never less, which *)
(* rests on set_params having refused every split that is not a whole.     *)
SharesOfSweep(c) ==
  LET s == global_config.split
      got == coin_config'[c].total_claimed - coin_config[c].total_claimed
      holder == 10000 * (payout'[c] - payout[c])
      h2e == 10000 * (revenue' - revenue)
      rest == 10000 * (Total(platform') - Total(platform))
  IN  got > 0 =>
        /\ holder <= got * s.holder_bps /\ got * s.holder_bps < holder + 10000
        /\ h2e <= got * s.h2e_bps /\ got * s.h2e_bps < h2e + 10000
        /\ got * s.platform_bps <= rest
        /\ \A d \in Coins \ {c} : payout'[d] = payout[d]

SplitRespected == [][\A c \in Coins : SharesOfSweep(c)]_vars

(* The life of a coin runs one way unless the admin sets it by hand: it    *)
(* bonds, graduates, retires; a retired coin is swept no more, and what    *)
(* its creator chose and the config it was launched on never change.       *)
LifeOf(c) ==
  LET before == coin_config[c]
      after == coin_config'[c]
  IN  before.status # "None" =>
        /\ after.default_payout_mint = before.default_payout_mint
        /\ dbc_pool'[c].config = dbc_pool[c].config
        /\ after.total_claimed >= before.total_claimed
        /\ before.status = "Retired" => after.total_claimed = before.total_claimed
        /\ after.status # before.status /\ c \notin overridden' =>
             \/ after.status = "Retired"
             \/ before.status = "Bonding" /\ after.status = "Graduated"

OneWayLife == [][\A c \in Coins : LifeOf(c)]_vars

(* A fee that clears the floor on a rail that works is swept in the end,   *)
(* whatever the amount and the split, unless it stops being so: paused,    *)
(* config or floor changed, or retired.  A coin that graduated by itself   *)
(* is on a rail that works.                                                *)
Sweepable(c) ==
  /\ ~global_config.paused
  /\ \/ /\ coin_config[c].status = "Bonding"
        /\ dbc_pool[c].config = global_config.platform_config_key
     \/ coin_config[c].status = "Graduated" /\ c \notin overridden
  /\ Claimed(c) > 0
  /\ Claimed(c) >= global_config.min_sweep_lamports

FeesArrive == \A c \in Coins : []<>~Sweepable(c)

(* "Keeper liveness then only matters for distribution, not for fee        *)
(* capture" (architecture, section 5): a coin that graduates leaves no fee *)
(* on the rail that sweeps no longer use.                                  *)
NoFeeLeftBehind ==
  \A c \in Coins \ overridden :
    coin_config[c].status = "Graduated" => dbc_pool[c].fees = 0
=============================================================================
