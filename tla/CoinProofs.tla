----------------------------- MODULE CoinProofs -----------------------------
(***************************************************************************)
(* Proofs about module Coin: its types, that no fee is lost and no share   *)
(* leaks, that graduated coins are on a rail that works, and that a split  *)
(* is exact to the lamport, for every number of coins and wallets and all  *)
(* amounts, splits and overrides.                                          *)
(***************************************************************************)
EXTENDS Coin, UnitSumsProofs, FiniteSetTheorems, TLAPS

(* What a split gives, in units of a basis point: floor, floor, remainder. *)
LEMMA SplitFacts ==
  ASSUME NEW claimed \in Nat, NEW s \in Split, ValidSplit(s)
  PROVE  LET part == SplitOf(claimed, s)
         IN  /\ part.holder \in Nat /\ part.h2e \in Nat /\ part.platform \in Nat
             /\ part.holder + part.h2e + part.platform = claimed
             /\ 10000 * part.holder <= claimed * s.holder_bps
             /\ claimed * s.holder_bps < 10000 * part.holder + 10000
             /\ 10000 * part.h2e <= claimed * s.h2e_bps
             /\ claimed * s.h2e_bps < 10000 * part.h2e + 10000
             /\ claimed * s.platform_bps <= 10000 * part.platform
<1> DEFINE x == claimed * s.holder_bps
           y == claimed * s.h2e_bps
           z == claimed * s.platform_bps
           holder == x \div 10000
           h2e == y \div 10000
<1>1. s.holder_bps \in Nat /\ s.h2e_bps \in Nat /\ s.platform_bps \in Nat
  BY DEF Split
<1>2. x \in Nat /\ y \in Nat /\ z \in Nat
  BY <1>1
<1>3. x + y + z = 10000 * claimed
  <2>1. x + y + z = claimed * (s.holder_bps + s.h2e_bps + s.platform_bps)
    BY <1>1
  <2> QED
    BY <2>1 DEF ValidSplit
<1>4. SplitOf(claimed, s) =
        [holder |-> holder, h2e |-> h2e, platform |-> claimed - holder - h2e]
  BY DEF SplitOf
<1> HIDE DEF x, y, z
<1>5. /\ holder \in Nat /\ 10000 * holder <= x /\ x < 10000 * holder + 10000
      /\ h2e \in Nat /\ 10000 * h2e <= y /\ y < 10000 * h2e + 10000
  BY <1>2
<1> HIDE DEF holder, h2e
<1>6. claimed - holder - h2e \in Nat /\ z <= 10000 * (claimed - holder - h2e)
  BY <1>2, <1>3, <1>5
<1>7. holder + h2e + (claimed - holder - h2e) = claimed
  BY <1>5
<1> QED
  BY <1>4, <1>5, <1>6, <1>7 DEF x, y, z

----------------------------------------------------------------------------
(* The steps that touch neither coins nor money: the admin's.              *)
Money == <<chain, fee_ata, shares, accrued>>

ConfigStep ==
  \/ \E s \in Splits, m \in MinSweeps, f \in CreationFees : SetParams(s, m, f)
  \/ \E w \in Wallets : SetPlatformWallet(w)
  \/ \E k \in Configs : SetPlatformConfigKey(k)
  \/ \E p \in Pauses : Pause(p)
  \/ \E mint \in PayoutMints, add \in BOOLEAN : SetPlatformAllowlist(mint, add)

LEMMA AllowlistType ==
  ASSUME TypeOK, NEW mint \in PayoutMints, NEW add \in BOOLEAN,
         SetPlatformAllowlist(mint, add)
  PROVE  /\ platform_allowlist' \in SUBSET PayoutMints
         /\ IsFiniteSet(platform_allowlist')
         /\ Cardinality(platform_allowlist') <= MaxPlatformAllowlist
<1> DEFINE A == platform_allowlist
<1>1. /\ A \in SUBSET PayoutMints /\ IsFiniteSet(A)
      /\ Cardinality(A) \in Nat /\ Cardinality(A) <= MaxPlatformAllowlist
      /\ MaxPlatformAllowlist \in Nat
  BY FS_CardinalityType, InputsAssumption DEF TypeOK
<1>2. CASE add
  <2>1. A' = A \cup {mint}
    BY <1>2 DEF SetPlatformAllowlist
  <2>2. IsFiniteSet(A \cup {mint})
        /\ Cardinality(A \cup {mint}) =
             IF mint \in A THEN Cardinality(A) ELSE Cardinality(A) + 1
    BY <1>1, FS_AddElement
  <2>3. mint \notin A => Cardinality(A) < MaxPlatformAllowlist
    BY <1>2 DEF SetPlatformAllowlist
  <2>4. Cardinality(A \cup {mint}) <= MaxPlatformAllowlist
    BY <1>1, <2>2, <2>3
  <2> QED
    BY <1>1, <2>1, <2>2, <2>4
<1>3. CASE ~add
  <2>1. A' = A \ {mint}
    BY <1>3 DEF SetPlatformAllowlist
  <2>2. IsFiniteSet(A \ {mint}) /\ Cardinality(A \ {mint}) <= Cardinality(A)
    BY <1>1, FS_Subset
  <2>3. Cardinality(A \ {mint}) \in Nat
    BY <2>2, FS_CardinalityType
  <2>4. Cardinality(A \ {mint}) <= MaxPlatformAllowlist
    BY <1>1, <2>2, <2>3
  <2> QED
    BY <1>1, <2>1, <2>2, <2>4
<1> QED
  BY <1>2, <1>3

LEMMA ConfigFields ==
  ASSUME NEW g \in GlobalConfig
  PROVE  /\ \A w \in Wallets :
              LET new == [g EXCEPT !.platform_wallet = w]
              IN  new \in GlobalConfig /\ new.split = g.split
         /\ \A k \in Configs :
              LET new == [g EXCEPT !.platform_config_key = k]
              IN  new \in GlobalConfig /\ new.split = g.split
         /\ \A p, l \in BOOLEAN :
              LET new == [g EXCEPT !.paused = p, !.pause_launches = l]
              IN  new \in GlobalConfig /\ new.split = g.split
<1>1. ASSUME NEW w \in Wallets
      PROVE  LET new == [g EXCEPT !.platform_wallet = w]
             IN  new \in GlobalConfig /\ new.split = g.split
  BY Zenon DEF GlobalConfig
<1>2. ASSUME NEW k \in Configs
      PROVE  LET new == [g EXCEPT !.platform_config_key = k]
             IN  new \in GlobalConfig /\ new.split = g.split
  BY Zenon DEF GlobalConfig
<1>3. ASSUME NEW p \in BOOLEAN, NEW l \in BOOLEAN
      PROVE  LET new == [g EXCEPT !.paused = p, !.pause_launches = l]
             IN  new \in GlobalConfig /\ new.split = g.split
  BY Zenon DEF GlobalConfig
<1> QED
  BY <1>1, <1>2, <1>3

LEMMA ConfigEffect ==
  ASSUME TypeOK, ConfigStep \/ UNCHANGED vars
  PROVE  TypeOK' /\ UNCHANGED <<coin_config, Money, overridden>>
<1>1. ASSUME NEW s \in Splits, NEW m \in MinSweeps, NEW f \in CreationFees,
             SetParams(s, m, f)
      PROVE  TypeOK' /\ UNCHANGED <<coin_config, Money, overridden>>
  <2> DEFINE new == [global_config EXCEPT
                       !.split = s, !.min_sweep_lamports = m,
                       !.pool_creation_fee_lamports = f]
  <2>1. global_config' = new
    BY <1>1 DEF SetParams, Configure
  <2>2. global_config \in GlobalConfig
    BY DEF TypeOK
  <2>3. new \in GlobalConfig /\ new.split = s
    BY <2>2, Zenon DEF GlobalConfig
  <2> HIDE DEF new
  <2> QED
    BY <2>1, <2>3, <1>1 DEF TypeOK, SetParams, Configure, ValidSplit, Money, chain, shares
<1>2. ASSUME NEW w \in Wallets, SetPlatformWallet(w)
      PROVE  TypeOK' /\ UNCHANGED <<coin_config, Money, overridden>>
  <2>1. global_config' = [global_config EXCEPT !.platform_wallet = w]
    BY <1>2 DEF SetPlatformWallet, Configure
  <2>2. global_config \in GlobalConfig
    BY DEF TypeOK
  <2>3. global_config' \in GlobalConfig /\ global_config'.split = global_config.split
    BY <2>1, <2>2, ConfigFields, Zenon
  <2> QED
    BY <2>3, <1>2 DEF TypeOK, SetPlatformWallet, Configure, Money, chain, shares
<1>3. ASSUME NEW k \in Configs, SetPlatformConfigKey(k)
      PROVE  TypeOK' /\ UNCHANGED <<coin_config, Money, overridden>>
  <2>1. global_config' = [global_config EXCEPT !.platform_config_key = k]
    BY <1>3 DEF SetPlatformConfigKey, Configure
  <2>2. global_config \in GlobalConfig
    BY DEF TypeOK
  <2>3. global_config' \in GlobalConfig /\ global_config'.split = global_config.split
    BY <2>1, <2>2, ConfigFields, Zenon
  <2> QED
    BY <2>3, <1>3 DEF TypeOK, SetPlatformConfigKey, Configure, Money, chain, shares
<1>4. ASSUME NEW p \in Pauses, Pause(p)
      PROVE  TypeOK' /\ UNCHANGED <<coin_config, Money, overridden>>
  <2> DEFINE new == [global_config EXCEPT
                       !.paused = p.paused, !.pause_launches = p.pause_launches]
  <2>1. global_config' = new
    BY <1>4 DEF Pause, Configure
  <2>2. global_config \in GlobalConfig
    BY DEF TypeOK
  <2>3. p.paused \in BOOLEAN /\ p.pause_launches \in BOOLEAN
    BY InputsAssumption
  <2>4. new \in GlobalConfig /\ new.split = global_config.split
    BY <2>2, <2>3, ConfigFields
  <2> HIDE DEF new
  <2> QED
    BY <2>1, <2>4, <1>4 DEF TypeOK, Pause, Configure, Money, chain, shares
<1>5. ASSUME NEW mint \in PayoutMints, NEW add \in BOOLEAN,
             SetPlatformAllowlist(mint, add)
      PROVE  TypeOK' /\ UNCHANGED <<coin_config, Money, overridden>>
  <2>1. /\ platform_allowlist' \in SUBSET PayoutMints
        /\ IsFiniteSet(platform_allowlist')
        /\ Cardinality(platform_allowlist') <= MaxPlatformAllowlist
    BY <1>5, AllowlistType
  <2> QED
    BY <2>1, <1>5 DEF TypeOK, SetPlatformAllowlist, Money, chain, shares
<1>6. CASE UNCHANGED vars
  BY <1>6 DEF TypeOK, vars, Money, chain, shares
<1> QED
  BY <1>1, <1>2, <1>3, <1>4, <1>5, <1>6 DEF ConfigStep

----------------------------------------------------------------------------
(* The steps that write a CoinConfig and move no money.                    *)
Recorded(c, cc) ==
  /\ RecordCoin(c, cc)
  /\ cc \in CoinConfig
  /\ Launched(c)
  /\ cc.status # "None"
  /\ cc.total_claimed = coin_config[c].total_claimed
  /\ cc.default_payout_mint = coin_config[c].default_payout_mint

LEMMA StatusFields ==
  ASSUME NEW old \in CoinConfig, NEW s \in Statuses,
         NEW pool \in Coins \cup {None}, NEW position \in Positions \cup {None}
  PROVE  LET new == WithGraduation(old, s, pool, position)
         IN  /\ new \in CoinConfig
             /\ new.status = s /\ new.damm_pool = pool
             /\ new.locked_position = position
             /\ new.total_claimed = old.total_claimed
             /\ new.default_payout_mint = old.default_payout_mint
<1> DEFINE new == WithGraduation(old, s, pool, position)
<1>1. new \in CoinConfig
  BY Zenon DEF CoinConfig, WithGraduation
<1>2. new.status = s /\ new.damm_pool = pool /\ new.locked_position = position
  BY Zenon DEF CoinConfig, WithGraduation
<1>3. new.total_claimed = old.total_claimed
  BY Zenon DEF CoinConfig, WithGraduation
<1>4. new.default_payout_mint = old.default_payout_mint
  BY Zenon DEF CoinConfig, WithGraduation
<1> QED
  BY <1>1, <1>2, <1>3, <1>4

LEMMA RetireFields ==
  ASSUME NEW old \in CoinConfig
  PROVE  LET new == [old EXCEPT !.status = "Retired"]
         IN  /\ new \in CoinConfig
             /\ new.status = "Retired"
             /\ new.total_claimed = old.total_claimed
             /\ new.default_payout_mint = old.default_payout_mint
<1> DEFINE new == [old EXCEPT !.status = "Retired"]
<1>1. new \in CoinConfig
  BY Zenon DEF CoinConfig, Statuses
<1>2. new.status = "Retired" /\ new.total_claimed = old.total_claimed
  BY Zenon DEF CoinConfig
<1>3. new.default_payout_mint = old.default_payout_mint
  BY Zenon DEF CoinConfig
<1> QED
  BY <1>1, <1>2, <1>3

LEMMA RetireEffect ==
  ASSUME TypeOK, NEW c \in Coins, RetireCoin(c)
  PROVE  \E cc : Recorded(c, cc) /\ cc.status = "Retired" /\ UNCHANGED overridden
<1> DEFINE cc == [coin_config[c] EXCEPT !.status = "Retired"]
<1>1. coin_config[c] \in CoinConfig
  BY DEF TypeOK
<1>2. RecordCoin(c, cc) /\ Launched(c) /\ UNCHANGED overridden
  BY DEF RetireCoin
<1>3. /\ cc \in CoinConfig /\ cc.status = "Retired"
      /\ cc.total_claimed = coin_config[c].total_claimed
      /\ cc.default_payout_mint = coin_config[c].default_payout_mint
  BY <1>1, RetireFields
<1> HIDE DEF cc
<1> QED
  BY <1>2, <1>3 DEF Recorded

LEMMA OverrideEffect ==
  ASSUME TypeOK, NEW c \in Coins, NEW s \in Statuses,
         NEW pool \in Coins \cup {None}, NEW position \in Positions \cup {None},
         SetGraduation(c, s, pool, position)
  PROVE  /\ \E cc : Recorded(c, cc)
         /\ overridden' = overridden \cup {c}
<1> DEFINE cc == WithGraduation(coin_config[c], s, pool, position)
<1>1. coin_config[c] \in CoinConfig
  BY DEF TypeOK
<1>2. RecordCoin(c, cc) /\ Launched(c) /\ overridden' = overridden \cup {c}
  BY DEF SetGraduation
<1>3. /\ cc \in CoinConfig /\ cc.status = s
      /\ cc.total_claimed = coin_config[c].total_claimed
      /\ cc.default_payout_mint = coin_config[c].default_payout_mint
  BY <1>1, StatusFields
<1>4. cc.status # "None"
  BY <1>3 DEF Statuses
<1> HIDE DEF cc
<1> QED
  BY <1>2, <1>3, <1>4 DEF Recorded

LEMMA SyncEffect ==
  ASSUME TypeOK, NEW c \in Coins, NEW pool \in Coins, NEW position \in Positions,
         SyncGraduation(c, pool, position)
  PROVE  /\ \E cc : /\ Recorded(c, cc)
                    /\ cc.status = "Graduated" /\ cc.damm_pool = c
                    /\ cc.locked_position = position
         /\ coin_config[c].status = "Bonding"
         /\ dbc_pool[c].is_migrated
         /\ position.pool = c /\ Held(position)
         /\ UNCHANGED overridden
<1> DEFINE cc == WithGraduation(coin_config[c], "Graduated", pool, position)
<1>1. coin_config[c] \in CoinConfig
  BY DEF TypeOK
<1>2. /\ coin_config[c].status = "Bonding" /\ dbc_pool[c].is_migrated
      /\ pool = c /\ position.pool = c /\ Held(position)
  BY DEF SyncGraduation, GraduatedTo
<1>3. RecordCoin(c, cc) /\ UNCHANGED overridden
  BY DEF SyncGraduation
<1>4. "Graduated" \in Statuses
  BY DEF Statuses
<1>5. /\ cc \in CoinConfig /\ cc.status = "Graduated" /\ cc.damm_pool = pool
      /\ cc.locked_position = position
      /\ cc.total_claimed = coin_config[c].total_claimed
      /\ cc.default_payout_mint = coin_config[c].default_payout_mint
  BY <1>1, <1>4, StatusFields
<1>6. Launched(c)
  BY <1>2 DEF Launched
<1> HIDE DEF cc
<1> QED
  BY <1>2, <1>3, <1>5, <1>6 DEF Recorded

LEMMA RecordedEffect ==
  ASSUME TypeOK, NEW c \in Coins, NEW cc, Recorded(c, cc),
         overridden' \in SUBSET Coins
  PROVE  /\ TypeOK'
         /\ UNCHANGED Money
         /\ coin_config'[c] = cc
         /\ \A d \in Coins \ {c} : coin_config'[d] = coin_config[d]
<1>1. coin_config' = [coin_config EXCEPT ![c] = cc] /\ cc \in CoinConfig
  BY DEF Recorded, RecordCoin
<1> QED
  BY <1>1 DEF TypeOK, Recorded, RecordCoin, Money, chain, shares

----------------------------------------------------------------------------
(* Launches and what happens outside the program.                          *)
LEMMA PoolFields ==
  ASSUME NEW old \in DbcPool
  PROVE  /\ \A k \in Configs :
              LET new == [old EXCEPT !.config = k]
              IN  /\ new \in DbcPool /\ new.config = k
                  /\ new.is_migrated = old.is_migrated /\ new.fees = old.fees
         /\ \A n \in Nat :
              LET new == [old EXCEPT !.fees = n]
              IN  /\ new \in DbcPool /\ new.fees = n
                  /\ new.is_migrated = old.is_migrated /\ new.config = old.config
         /\ LET new == [old EXCEPT !.is_migrated = TRUE]
            IN  /\ new \in DbcPool /\ new.is_migrated
                /\ new.fees = old.fees /\ new.config = old.config
<1>1. ASSUME NEW k \in Configs
      PROVE  LET new == [old EXCEPT !.config = k]
             IN  /\ new \in DbcPool /\ new.config = k
                 /\ new.is_migrated = old.is_migrated /\ new.fees = old.fees
  BY Zenon DEF DbcPool
<1>2. ASSUME NEW n \in Nat
      PROVE  LET new == [old EXCEPT !.fees = n]
             IN  /\ new \in DbcPool /\ new.fees = n
                 /\ new.is_migrated = old.is_migrated /\ new.config = old.config
  BY Zenon DEF DbcPool
<1>3. LET new == [old EXCEPT !.is_migrated = TRUE]
      IN  /\ new \in DbcPool /\ new.is_migrated
          /\ new.fees = old.fees /\ new.config = old.config
  BY Zenon DEF DbcPool
<1> QED
  BY <1>1, <1>2, <1>3

LEMMA LaunchedFields ==
  ASSUME NEW mint \in PayoutMints
  PROVE  LET new == [NoCoin EXCEPT !.status = "Bonding", !.default_payout_mint = mint]
         IN  /\ new \in CoinConfig
             /\ new.status = "Bonding" /\ new.total_claimed = 0
  BY DEF NoCoin, CoinConfig, Statuses

LEMMA LaunchEffect ==
  ASSUME TypeOK, NEW c \in Coins, NEW mint \in PayoutMints, LaunchCoin(c, mint)
  PROVE  /\ TypeOK'
         /\ ~Launched(c)
         /\ coin_config'[c].status = "Bonding" /\ coin_config'[c].total_claimed = 0
         /\ \A d \in Coins \ {c} : coin_config'[d] = coin_config[d]
         /\ \A d \in Coins \ {c} : dbc_pool'[d] = dbc_pool[d]
         /\ dbc_pool'[c].fees = dbc_pool[c].fees
         /\ dbc_pool'[c].is_migrated = dbc_pool[c].is_migrated
         /\ UNCHANGED <<position_fees, fee_ata, shares, accrued, overridden>>
<1> DEFINE cc == [NoCoin EXCEPT !.status = "Bonding", !.default_payout_mint = mint]
           pool == [dbc_pool[c] EXCEPT !.config = global_config.platform_config_key]
           w == global_config.platform_wallet
           fee == global_config.pool_creation_fee_lamports
<1>1. /\ w \in Wallets /\ fee \in Nat
      /\ global_config.platform_config_key \in Configs
      /\ dbc_pool[c] \in DbcPool
  <2>1. global_config \in GlobalConfig /\ dbc_pool[c] \in DbcPool
    BY DEF TypeOK
  <2>2. /\ w \in Wallets /\ fee \in CreationFees
        /\ global_config.platform_config_key \in Configs
    BY <2>1 DEF GlobalConfig
  <2> QED
    BY <2>1, <2>2, InputsAssumption
<1>2. /\ ~Launched(c)
      /\ coin_config' = [coin_config EXCEPT ![c] = cc]
      /\ dbc_pool' = [dbc_pool EXCEPT ![c] = pool]
      /\ creation_fees' = [creation_fees EXCEPT ![w] = @ + fee]
      /\ UNCHANGED <<global_config, platform_allowlist, position_fees, fee_ata,
                     shares, accrued, overridden>>
  BY DEF LaunchCoin
<1>3. cc \in CoinConfig /\ cc.status = "Bonding" /\ cc.total_claimed = 0
  BY LaunchedFields
<1>4. /\ pool \in DbcPool /\ pool.fees = dbc_pool[c].fees
      /\ pool.is_migrated = dbc_pool[c].is_migrated
  BY <1>1, PoolFields
<1> HIDE DEF cc, pool, w, fee
<1>5. creation_fees' \in [Wallets -> Nat]
  BY <1>1, <1>2 DEF TypeOK
<1>6. coin_config' \in [Coins -> CoinConfig] /\ dbc_pool' \in [Coins -> DbcPool]
  BY <1>2, <1>3, <1>4 DEF TypeOK
<1>7. TypeOK'
  BY <1>2, <1>5, <1>6 DEF TypeOK, shares
<1>8. coin_config'[c] = cc /\ dbc_pool'[c] = pool
  BY <1>2 DEF TypeOK
<1>9. \A d \in Coins \ {c} :
        coin_config'[d] = coin_config[d] /\ dbc_pool'[d] = dbc_pool[d]
  BY <1>2 DEF TypeOK
<1> QED
  BY <1>2, <1>3, <1>4, <1>7, <1>8, <1>9

(* A step outside the program moves no share and records nothing.          *)
MarketEvent(c) ==
  \/ \E a \in Accruals :
       TradeOnCurve(c, a) \/ TradeInPool(c, a) \/ SendToFeeAta(c, a)
  \/ Migrate(c)

InFlight(c) == dbc_pool[c].fees + position_fees[c] + fee_ata[c]

LEMMA MarketEffect ==
  ASSUME TypeOK, NEW c \in Coins, MarketEvent(c)
  PROVE  /\ TypeOK'
         /\ UNCHANGED <<coin_config, shares, overridden>>
         /\ \A d \in Coins : accrued'[d] - InFlight(d)' = accrued[d] - InFlight(d)
         /\ \A d \in Coins : dbc_pool[d].is_migrated => dbc_pool'[d].is_migrated
         /\ \A d \in Coins : dbc_pool'[d].config = dbc_pool[d].config
<1> DEFINE Goal ==
      /\ TypeOK'
      /\ UNCHANGED <<coin_config, shares, overridden>>
      /\ \A d \in Coins : accrued'[d] - InFlight(d)' = accrued[d] - InFlight(d)
      /\ \A d \in Coins : dbc_pool[d].is_migrated => dbc_pool'[d].is_migrated
      /\ \A d \in Coins : dbc_pool'[d].config = dbc_pool[d].config
<1>1. ASSUME NEW a \in Accruals, TradeOnCurve(c, a)
      PROVE  Goal
  <2> DEFINE pool == [dbc_pool[c] EXCEPT !.fees = @ + a]
  <2>1. a \in Nat /\ dbc_pool[c] \in DbcPool /\ dbc_pool[c].fees + a \in Nat
    BY InputsAssumption DEF TypeOK, DbcPool
  <2>2. /\ pool \in DbcPool /\ pool.fees = dbc_pool[c].fees + a
        /\ pool.is_migrated = dbc_pool[c].is_migrated
        /\ pool.config = dbc_pool[c].config
    BY <2>1, PoolFields
  <2>3. /\ dbc_pool' = [dbc_pool EXCEPT ![c] = pool]
        /\ accrued' = [accrued EXCEPT ![c] = @ + a]
        /\ UNCHANGED <<global_config, platform_allowlist, coin_config, shares,
                       creation_fees, overridden, position_fees, fee_ata>>
    BY <1>1 DEF TradeOnCurve, Earn
  <2> HIDE DEF pool
  <2>4. TypeOK'
    BY <2>1, <2>2, <2>3 DEF TypeOK, shares
  <2>5. \A d \in Coins : /\ dbc_pool'[d] = IF d = c THEN pool ELSE dbc_pool[d]
                         /\ accrued'[d] = accrued[d] + IF d = c THEN a ELSE 0
    BY <2>1, <2>3 DEF TypeOK
  <2>6. \A d \in Coins : /\ dbc_pool[d].fees \in Nat /\ position_fees[d] \in Nat
                         /\ fee_ata[d] \in Nat /\ accrued[d] \in Nat
    BY DEF TypeOK, DbcPool
  <2>7. \A d \in Coins : accrued'[d] - InFlight(d)' = accrued[d] - InFlight(d)
    BY <2>1, <2>2, <2>3, <2>5, <2>6 DEF InFlight
  <2> QED
    BY <2>2, <2>3, <2>4, <2>5, <2>7
<1>2. ASSUME NEW a \in Accruals, TradeInPool(c, a)
      PROVE  Goal
  <2>1. /\ a \in Nat
        /\ accrued' = [accrued EXCEPT ![c] = @ + a]
        /\ position_fees' = [position_fees EXCEPT ![c] = @ + a]
        /\ UNCHANGED <<global_config, platform_allowlist, coin_config, shares,
                       creation_fees, overridden, dbc_pool, fee_ata>>
    BY <1>2, InputsAssumption DEF TradeInPool, Earn
  <2>2. TypeOK'
    BY <2>1 DEF TypeOK, shares
  <2>3. \A d \in Coins : /\ dbc_pool[d].fees \in Nat /\ position_fees[d] \in Nat
                         /\ fee_ata[d] \in Nat /\ accrued[d] \in Nat
    BY DEF TypeOK, DbcPool
  <2>4. \A d \in Coins : accrued'[d] - InFlight(d)' = accrued[d] - InFlight(d)
    BY <2>1, <2>3 DEF InFlight, TypeOK
  <2> QED
    BY <2>1, <2>2, <2>4
<1>3. ASSUME NEW a \in Accruals, SendToFeeAta(c, a)
      PROVE  Goal
  <2>1. /\ a \in Nat
        /\ accrued' = [accrued EXCEPT ![c] = @ + a]
        /\ fee_ata' = [fee_ata EXCEPT ![c] = @ + a]
        /\ UNCHANGED <<global_config, platform_allowlist, coin_config, shares,
                       creation_fees, overridden, dbc_pool, position_fees>>
    BY <1>3, InputsAssumption DEF SendToFeeAta, Earn, chain
  <2>2. TypeOK'
    BY <2>1 DEF TypeOK, shares
  <2>3. \A d \in Coins : /\ dbc_pool[d].fees \in Nat /\ position_fees[d] \in Nat
                         /\ fee_ata[d] \in Nat /\ accrued[d] \in Nat
    BY DEF TypeOK, DbcPool
  <2>4. \A d \in Coins : accrued'[d] - InFlight(d)' = accrued[d] - InFlight(d)
    BY <2>1, <2>3 DEF InFlight, TypeOK
  <2> QED
    BY <2>1, <2>2, <2>4
<1>4. ASSUME Migrate(c)
      PROVE  Goal
  <2> DEFINE pool == [dbc_pool[c] EXCEPT !.is_migrated = TRUE]
  <2>1. dbc_pool[c] \in DbcPool
    BY DEF TypeOK
  <2>2. /\ pool \in DbcPool /\ pool.fees = dbc_pool[c].fees
        /\ pool.is_migrated /\ pool.config = dbc_pool[c].config
    BY <2>1, PoolFields
  <2>3. /\ dbc_pool' = [dbc_pool EXCEPT ![c] = pool]
        /\ UNCHANGED <<global_config, platform_allowlist, coin_config, shares,
                       creation_fees, accrued, overridden, position_fees, fee_ata>>
    BY <1>4 DEF Migrate
  <2> HIDE DEF pool
  <2>4. TypeOK'
    BY <2>2, <2>3 DEF TypeOK, shares
  <2>5. \A d \in Coins : dbc_pool'[d] = IF d = c THEN pool ELSE dbc_pool[d]
    BY <2>3 DEF TypeOK
  <2>6. \A d \in Coins : accrued'[d] - InFlight(d)' = accrued[d] - InFlight(d)
    BY <2>2, <2>3, <2>5 DEF InFlight
  <2> QED
    BY <2>2, <2>3, <2>4, <2>5, <2>6
<1> QED
  BY <1>1, <1>2, <1>3, <1>4 DEF MarketEvent

----------------------------------------------------------------------------
(* A sweep.                                                                *)
LEMMA AccountFields ==
  ASSUME NEW old \in CoinConfig, NEW n \in Nat
  PROVE  LET new == Account(old, n)
         IN  /\ new \in CoinConfig
             /\ new.total_claimed = old.total_claimed + n
             /\ new.status = old.status
             /\ new.damm_pool = old.damm_pool
             /\ new.locked_position = old.locked_position
             /\ new.default_payout_mint = old.default_payout_mint
<1> DEFINE sum == old.total_claimed + n
           new == [old EXCEPT !.total_claimed = sum]
<1>1. sum \in Nat
  BY DEF CoinConfig
<1>2. Account(old, n) = new
  BY DEF Account
<1> HIDE DEF sum
<1>3. new \in CoinConfig /\ new.total_claimed = sum
  BY <1>1, Zenon DEF CoinConfig
<1>4. new.status = old.status /\ new.damm_pool = old.damm_pool
  BY Zenon DEF CoinConfig
<1>5. new.locked_position = old.locked_position
  BY Zenon DEF CoinConfig
<1>6. new.default_payout_mint = old.default_payout_mint
  BY Zenon DEF CoinConfig
<1> HIDE DEF new
<1> QED
  BY <1>2, <1>3, <1>4, <1>5, <1>6 DEF sum

(* What a claim takes is what was in flight on the coin's rail.            *)
LEMMA ClaimEffect ==
  ASSUME TypeOK, NEW c \in Coins, ClaimTradingFee(c) \/ ClaimPositionFee(c),
         fee_ata' = [fee_ata EXCEPT ![c] = 0]
  PROVE  /\ Claimed(c) \in Nat
         /\ InFlight(c)' = InFlight(c) - Claimed(c)
         /\ \A d \in Coins \ {c} : InFlight(d)' = InFlight(d)
         /\ dbc_pool' \in [Coins -> DbcPool]
         /\ position_fees' \in [Coins -> Nat]
         /\ \A d \in Coins : /\ dbc_pool'[d].is_migrated = dbc_pool[d].is_migrated
                             /\ dbc_pool'[d].config = dbc_pool[d].config
<1> DEFINE Goal ==
      /\ Claimed(c) \in Nat
      /\ InFlight(c)' = InFlight(c) - Claimed(c)
      /\ \A d \in Coins \ {c} : InFlight(d)' = InFlight(d)
      /\ dbc_pool' \in [Coins -> DbcPool]
      /\ position_fees' \in [Coins -> Nat]
      /\ \A d \in Coins : /\ dbc_pool'[d].is_migrated = dbc_pool[d].is_migrated
                          /\ dbc_pool'[d].config = dbc_pool[d].config
<1>1. \A d \in Coins : /\ dbc_pool[d].fees \in Nat /\ position_fees[d] \in Nat
                       /\ fee_ata[d] \in Nat
  BY DEF TypeOK, DbcPool
<1>2. fee_ata'[c] = 0 /\ \A d \in Coins \ {c} : fee_ata'[d] = fee_ata[d]
  BY DEF TypeOK
<1>3. ASSUME ClaimTradingFee(c)
      PROVE  Goal
  <2> DEFINE pool == [dbc_pool[c] EXCEPT !.fees = 0]
  <2>1. dbc_pool[c] \in DbcPool
    BY DEF TypeOK
  <2>2. /\ pool \in DbcPool /\ pool.fees = 0
        /\ pool.is_migrated = dbc_pool[c].is_migrated
        /\ pool.config = dbc_pool[c].config
    BY <2>1, PoolFields
  <2>3. /\ dbc_pool' = [dbc_pool EXCEPT ![c] = pool]
        /\ position_fees' = position_fees
        /\ coin_config[c].status = "Bonding"
    BY <1>3 DEF ClaimTradingFee
  <2> HIDE DEF pool
  <2>4. Claimed(c) = fee_ata[c] + dbc_pool[c].fees
    BY <2>3 DEF Claimed
  <2>5. \A d \in Coins : dbc_pool'[d] = IF d = c THEN pool ELSE dbc_pool[d]
    BY <2>3 DEF TypeOK
  <2>6. dbc_pool' \in [Coins -> DbcPool] /\ position_fees' \in [Coins -> Nat]
    BY <2>2, <2>3 DEF TypeOK
  <2>7. InFlight(c)' = position_fees[c]
    BY <1>1, <1>2, <2>2, <2>3, <2>5 DEF InFlight
  <2>8. \A d \in Coins \ {c} : InFlight(d)' = InFlight(d)
    BY <1>2, <2>3, <2>5 DEF InFlight
  <2>9. InFlight(c) - Claimed(c) = position_fees[c] /\ Claimed(c) \in Nat
    BY <1>1, <2>4 DEF InFlight
  <2> QED
    BY <2>2, <2>5, <2>6, <2>7, <2>8, <2>9
<1>4. ASSUME ClaimPositionFee(c)
      PROVE  Goal
  <2>1. /\ coin_config[c].status # "Bonding"
        /\ dbc_pool' = dbc_pool
        /\ position_fees' = IF OnLockedPosition(c)
                              THEN [position_fees EXCEPT ![c] = 0] ELSE position_fees
    BY <1>4 DEF ClaimPositionFee
  <2>2. Claimed(c) = fee_ata[c] + IF OnLockedPosition(c) THEN position_fees[c] ELSE 0
    BY <2>1 DEF Claimed
  <2>3. /\ position_fees' \in [Coins -> Nat]
        /\ position_fees'[c] = IF OnLockedPosition(c) THEN 0 ELSE position_fees[c]
        /\ \A d \in Coins \ {c} : position_fees'[d] = position_fees[d]
    BY <2>1 DEF TypeOK
  <2>4. Claimed(c) \in Nat /\ InFlight(c)' = InFlight(c) - Claimed(c)
    BY <1>1, <1>2, <2>1, <2>2, <2>3 DEF InFlight
  <2>5. \A d \in Coins \ {c} : InFlight(d)' = InFlight(d)
    BY <1>2, <2>1, <2>3 DEF InFlight
  <2> QED
    BY <2>1, <2>3, <2>4, <2>5 DEF TypeOK
<1> QED
  BY <1>3, <1>4

LEMMA SplitOfToday ==
  ASSUME TypeOK
  PROVE  /\ global_config.split \in Split /\ ValidSplit(global_config.split)
         /\ global_config.platform_wallet \in Wallets
<1>1. global_config \in GlobalConfig
  BY DEF TypeOK
<1>2. global_config.split \in Splits /\ global_config.platform_wallet \in Wallets
  BY <1>1 DEF GlobalConfig
<1> QED
  BY <1>2, InputsAssumption DEF TypeOK, ValidSplit

LEMMA SweepEffect ==
  ASSUME TypeOK, NEW c \in Coins, ClaimAndSweep(c)
  PROVE  LET got == Claimed(c)
             part == SplitOf(got, global_config.split)
             old == coin_config[c]
             new == coin_config'[c]
         IN  /\ TypeOK'
             /\ got \in Nat
             /\ old.status = "Bonding" \/ old.status = "Graduated"
             /\ new.status = old.status /\ new.damm_pool = old.damm_pool
             /\ new.locked_position = old.locked_position
             /\ new.default_payout_mint = old.default_payout_mint
             /\ new.total_claimed = old.total_claimed + got
             /\ \A d \in Coins \ {c} : coin_config'[d] = coin_config[d]
             /\ InFlight(c)' = InFlight(c) - got
             /\ \A d \in Coins \ {c} : InFlight(d)' = InFlight(d)
             /\ \A d \in Coins : /\ dbc_pool'[d].is_migrated = dbc_pool[d].is_migrated
                                 /\ dbc_pool'[d].config = dbc_pool[d].config
             /\ payout'[c] = payout[c] + part.holder
             /\ \A d \in Coins \ {c} : payout'[d] = payout[d]
             /\ revenue' = revenue + part.h2e
             /\ platform' = [platform EXCEPT ![global_config.platform_wallet] =
                                               @ + part.platform]
             /\ UNCHANGED <<global_config, accrued, overridden>>
<1> DEFINE got == Claimed(c)
           part == SplitOf(got, global_config.split)
           old == coin_config[c]
           new == Account(old, got)
           w == global_config.platform_wallet
<1>1. /\ ClaimTradingFee(c) \/ ClaimPositionFee(c)
      /\ payout' = [payout EXCEPT ![c] = @ + part.holder]
      /\ revenue' = revenue + part.h2e
      /\ platform' = [platform EXCEPT ![w] = @ + part.platform]
      /\ fee_ata' = [fee_ata EXCEPT ![c] = 0]
      /\ coin_config' = [coin_config EXCEPT ![c] = new]
      /\ UNCHANGED <<global_config, platform_allowlist, creation_fees, accrued,
                     overridden>>
  BY DEF ClaimAndSweep
<1>2. old.status = "Bonding" \/ old.status = "Graduated"
  BY <1>1 DEF ClaimTradingFee, ClaimPositionFee
<1>3. /\ got \in Nat
      /\ InFlight(c)' = InFlight(c) - got
      /\ \A d \in Coins \ {c} : InFlight(d)' = InFlight(d)
      /\ dbc_pool' \in [Coins -> DbcPool]
      /\ position_fees' \in [Coins -> Nat]
      /\ \A d \in Coins : /\ dbc_pool'[d].is_migrated = dbc_pool[d].is_migrated
                          /\ dbc_pool'[d].config = dbc_pool[d].config
  BY <1>1, ClaimEffect
<1>4. old \in CoinConfig
  BY DEF TypeOK
<1> HIDE DEF got
<1>5. /\ new \in CoinConfig /\ new.total_claimed = old.total_claimed + got
      /\ new.status = old.status /\ new.damm_pool = old.damm_pool
      /\ new.locked_position = old.locked_position
      /\ new.default_payout_mint = old.default_payout_mint
  BY <1>3, <1>4, AccountFields
<1>6. part.holder \in Nat /\ part.h2e \in Nat /\ part.platform \in Nat
  <2> DEFINE s == global_config.split
  <2>1. s \in Split /\ ValidSplit(s)
    BY SplitOfToday
  <2> HIDE DEF s
  <2>2. SplitOf(got, s).holder \in Nat /\ SplitOf(got, s).h2e \in Nat
    BY <1>3, <2>1, SplitFacts
  <2>3. SplitOf(got, s).platform \in Nat
    BY <1>3, <2>1, SplitFacts
  <2> QED
    BY <2>2, <2>3 DEF s
<1> HIDE DEF part, new
<1>7. /\ coin_config' \in [Coins -> CoinConfig] /\ coin_config'[c] = new
      /\ \A d \in Coins \ {c} : coin_config'[d] = coin_config[d]
  BY <1>1, <1>5 DEF TypeOK
<1>8. /\ payout' \in [Coins -> Nat] /\ payout'[c] = payout[c] + part.holder
      /\ \A d \in Coins \ {c} : payout'[d] = payout[d]
      /\ revenue' \in Nat /\ platform' \in [Wallets -> Nat]
      /\ fee_ata' \in [Coins -> Nat]
  BY <1>1, <1>6, SplitOfToday DEF TypeOK
<1>9. TypeOK'
  BY <1>1, <1>3, <1>7, <1>8 DEF TypeOK
<1> QED
  BY <1>1, <1>2, <1>3, <1>5, <1>7, <1>8, <1>9 DEF got, part

----------------------------------------------------------------------------
LEMMA TypeInit == Init => TypeOK
<1> SUFFICES ASSUME Init PROVE TypeOK
  OBVIOUS
<1>1. NoCoin \in CoinConfig /\ NoPool \in DbcPool
  BY DEF NoCoin, CoinConfig, NoPool, DbcPool
<1>2. IsFiniteSet({}) /\ Cardinality({}) = 0
  BY FS_EmptySet
<1>3. Cardinality(platform_allowlist) <= MaxPlatformAllowlist
  BY <1>2, InputsAssumption DEF Init
<1> QED
  BY <1>1, <1>2, <1>3 DEF Init, TypeOK, ValidSplit

(* Every step is one of those above.                                       *)
LEMMA StepCases ==
  ASSUME [Next]_vars
  PROVE  \/ ConfigStep \/ UNCHANGED vars
         \/ \E c \in Coins : RetireCoin(c)
         \/ \E c \in Coins, s \in Statuses, pool \in Coins \cup {None},
               position \in Positions \cup {None} : SetGraduation(c, s, pool, position)
         \/ \E c \in Coins, m \in PayoutMints : LaunchCoin(c, m)
         \/ \E c \in Coins : MarketEvent(c)
         \/ \E c \in Coins, pool \in Coins, position \in Positions :
              SyncGraduation(c, pool, position)
         \/ \E c \in Coins : ClaimAndSweep(c)
<1>1. \A g \in Overrides : /\ g.status \in Statuses /\ g.damm_pool \in Coins \cup {None}
                           /\ g.locked_position \in Positions \cup {None}
  BY InputsAssumption DEF Graduation
<1>2. CASE AdminStep
  BY <1>1, <1>2 DEF AdminStep, ConfigStep
<1>3. ASSUME NEW c \in Coins, MarketStep(c)
      PROVE  (\E m \in PayoutMints : LaunchCoin(c, m)) \/ MarketEvent(c)
  BY <1>3 DEF MarketStep, MarketEvent
<1> QED
  BY <1>2, <1>3 DEF Next

LEMMA TypeStep == TypeOK /\ [Next]_vars => TypeOK'
<1> SUFFICES ASSUME TypeOK, [Next]_vars PROVE TypeOK'
  OBVIOUS
<1>1. CASE ConfigStep \/ UNCHANGED vars
  BY <1>1, ConfigEffect
<1>2. ASSUME NEW c \in Coins, RetireCoin(c)
      PROVE  TypeOK'
  <2>1. PICK cc : Recorded(c, cc) /\ UNCHANGED overridden
    BY <1>2, RetireEffect
  <2> QED
    BY <2>1, RecordedEffect DEF TypeOK
<1>3. ASSUME NEW c \in Coins, NEW s \in Statuses, NEW pool \in Coins \cup {None},
             NEW position \in Positions \cup {None}, SetGraduation(c, s, pool, position)
      PROVE  TypeOK'
  <2>1. PICK cc : Recorded(c, cc)
    BY <1>3, OverrideEffect
  <2>2. overridden' = overridden \cup {c}
    BY <1>3, OverrideEffect
  <2>3. overridden' \in SUBSET Coins
    BY <2>2 DEF TypeOK
  <2> QED
    BY <2>1, <2>3, RecordedEffect
<1>4. ASSUME NEW c \in Coins, NEW pool \in Coins, NEW position \in Positions,
             SyncGraduation(c, pool, position)
      PROVE  TypeOK'
  <2>1. PICK cc : Recorded(c, cc)
    BY <1>4, SyncEffect
  <2>2. overridden' = overridden
    BY <1>4, SyncEffect
  <2> QED
    BY <2>1, <2>2, RecordedEffect DEF TypeOK
<1> QED
  BY <1>1, <1>2, <1>3, <1>4, StepCases, LaunchEffect, MarketEffect, SweepEffect

(* The types of the accounts; in particular that the split in force is     *)
(* always a whole and the payout list within its capacity.                 *)
THEOREM TypeCorrect == Spec => []TypeOK
  BY TypeInit, TypeStep, PTL DEF Spec

----------------------------------------------------------------------------
(* The inductive invariant: the invariants that TLC checks, and that a     *)
(* coin starts from zero, which its launch relies on.                      *)
UnlaunchedClaimedNothing ==
  \A c \in Coins : ~Launched(c) => coin_config[c].total_claimed = 0

Inv ==
  /\ TypeOK
  /\ UnlaunchedClaimedNothing
  /\ FeesAccounted
  /\ SharesAddUp
  /\ GraduatedOnOwnPool

AllClaimed == Total([c \in Coins |-> coin_config[c].total_claimed])

LEMMA AllClaimedSame ==
  ASSUME \A c \in Coins : coin_config'[c].total_claimed = coin_config[c].total_claimed,
         UNCHANGED shares, SharesAddUp
  PROVE  SharesAddUp'
<1>1. [c \in Coins |-> coin_config'[c].total_claimed]
        = [c \in Coins |-> coin_config[c].total_claimed]
  OBVIOUS
<1> QED
  BY <1>1 DEF SharesAddUp, shares

(* A step that records a coin, or nothing, leaves the ledgers alone.       *)
LEMMA LedgerSame ==
  ASSUME Inv, UNCHANGED Money,
         \A c \in Coins : coin_config'[c].total_claimed = coin_config[c].total_claimed
  PROVE  FeesAccounted' /\ SharesAddUp'
<1>1. FeesAccounted'
  BY DEF Inv, FeesAccounted, Money, chain
<1> QED
  BY <1>1, AllClaimedSame DEF Inv, Money

LEMMA InvInit == Init => Inv
<1> SUFFICES ASSUME Init PROVE Inv
  OBVIOUS
<1>1. TypeOK
  BY TypeInit
<1>2. \A c \in Coins : coin_config[c] = NoCoin /\ dbc_pool[c] = NoPool
  BY DEF Init
<1>3. \A c \in Coins : /\ coin_config[c].status = "None"
                       /\ coin_config[c].total_claimed = 0
                       /\ dbc_pool[c].fees = 0
  BY <1>2 DEF NoCoin, NoPool
<1>4. FeesAccounted
  BY <1>3 DEF Init, FeesAccounted
<1>5. SharesAddUp
  <2> DEFINE claims == [c \in Coins |-> coin_config[c].total_claimed]
  <2>1. claims \in [Coins -> Nat] /\ \A c \in Coins : claims[c] = 0
    BY <1>3
  <2> HIDE DEF claims
  <2>2. Total(claims) = 0
    BY <2>1, TotalZero
  <2>3. payout \in [Coins -> Nat] /\ \A c \in Coins : payout[c] = 0
    BY DEF Init
  <2>4. Total(payout) = 0
    BY <2>3, TotalZero
  <2>5. platform \in [Wallets -> Nat] /\ \A w \in Wallets : platform[w] = 0
    BY DEF Init
  <2>6. Total(platform) = 0
    BY <2>5, TotalZero
  <2>7. revenue = 0
    BY DEF Init
  <2> QED
    BY <2>2, <2>4, <2>6, <2>7 DEF SharesAddUp, claims
<1> QED
  BY <1>1, <1>3, <1>4, <1>5 DEF Inv, UnlaunchedClaimedNothing, GraduatedOnOwnPool

LEMMA InvConfig ==
  ASSUME Inv, ConfigStep \/ UNCHANGED vars PROVE Inv'
<1>1. TypeOK' /\ UNCHANGED <<coin_config, Money, overridden>>
  BY ConfigEffect DEF Inv
<1>2. FeesAccounted' /\ SharesAddUp'
  BY <1>1, LedgerSame
<1> QED
  BY <1>1, <1>2
     DEF Inv, UnlaunchedClaimedNothing, Launched, GraduatedOnOwnPool, Money, chain

(* What is left to show of a step that records a coin is that the coin, if *)
(* it now counts as graduated by itself, is on its own pool.               *)
LEMMA InvRecorded ==
  ASSUME Inv, NEW c \in Coins, NEW cc, Recorded(c, cc),
         overridden \subseteq overridden', overridden' \in SUBSET Coins,
         c \notin overridden' /\ cc.status = "Graduated" =>
           /\ dbc_pool[c].is_migrated
           /\ cc.damm_pool = c
           /\ cc.locked_position \in {p \in Positions : p.pool = c /\ Held(p)}
  PROVE  Inv'
<1>1. /\ TypeOK' /\ UNCHANGED Money /\ coin_config'[c] = cc
      /\ \A d \in Coins \ {c} : coin_config'[d] = coin_config[d]
  BY RecordedEffect DEF Inv
<1>2. /\ cc.status # "None"
      /\ cc.total_claimed = coin_config[c].total_claimed
  BY DEF Recorded
<1>3. \A d \in Coins : coin_config'[d].total_claimed = coin_config[d].total_claimed
  BY <1>1, <1>2
<1>4. FeesAccounted' /\ SharesAddUp'
  BY <1>1, <1>3, LedgerSame
<1>5. UnlaunchedClaimedNothing'
  BY <1>1, <1>2 DEF Inv, UnlaunchedClaimedNothing, Launched
<1>6. GraduatedOnOwnPool'
  BY <1>1 DEF Inv, GraduatedOnOwnPool, Money, chain
<1> QED
  BY <1>1, <1>4, <1>5, <1>6 DEF Inv

LEMMA InvRetire ==
  ASSUME Inv, NEW c \in Coins, RetireCoin(c) PROVE Inv'
<1>1. PICK cc : Recorded(c, cc) /\ cc.status = "Retired" /\ UNCHANGED overridden
  BY RetireEffect DEF Inv
<1> QED
  BY <1>1, InvRecorded DEF Inv, TypeOK

LEMMA InvOverride ==
  ASSUME Inv, NEW c \in Coins, NEW s \in Statuses, NEW pool \in Coins \cup {None},
         NEW position \in Positions \cup {None}, SetGraduation(c, s, pool, position)
  PROVE  Inv'
<1>1. overridden' = overridden \cup {c} /\ \E cc : Recorded(c, cc)
  BY OverrideEffect DEF Inv
<1>2. PICK cc : Recorded(c, cc)
  BY <1>1
<1> QED
  BY <1>1, <1>2, InvRecorded DEF Inv, TypeOK

LEMMA InvSync ==
  ASSUME Inv, NEW c \in Coins, NEW pool \in Coins, NEW position \in Positions,
         SyncGraduation(c, pool, position)
  PROVE  Inv'
<1>1. /\ \E cc : Recorded(c, cc) /\ cc.damm_pool = c /\ cc.locked_position = position
      /\ dbc_pool[c].is_migrated /\ position.pool = c /\ Held(position)
      /\ UNCHANGED overridden
  BY SyncEffect DEF Inv
<1>2. PICK cc : Recorded(c, cc) /\ cc.damm_pool = c /\ cc.locked_position = position
  BY <1>1
<1>3. cc.locked_position \in {p \in Positions : p.pool = c /\ Held(p)}
  BY <1>1, <1>2
<1> QED
  BY <1>1, <1>2, <1>3, InvRecorded DEF Inv, TypeOK

LEMMA InvLaunch ==
  ASSUME Inv, NEW c \in Coins, NEW mint \in PayoutMints, LaunchCoin(c, mint)
  PROVE  Inv'
<1>1. /\ TypeOK' /\ ~Launched(c)
      /\ coin_config'[c].status = "Bonding" /\ coin_config'[c].total_claimed = 0
      /\ \A d \in Coins \ {c} : coin_config'[d] = coin_config[d]
      /\ \A d \in Coins \ {c} : dbc_pool'[d] = dbc_pool[d]
      /\ dbc_pool'[c].fees = dbc_pool[c].fees
      /\ dbc_pool'[c].is_migrated = dbc_pool[c].is_migrated
      /\ UNCHANGED <<position_fees, fee_ata, shares, accrued, overridden>>
  BY LaunchEffect DEF Inv
<1>2. coin_config[c].total_claimed = 0
  BY <1>1 DEF Inv, UnlaunchedClaimedNothing
<1>3. \A d \in Coins : /\ coin_config'[d].total_claimed = coin_config[d].total_claimed
                       /\ dbc_pool'[d].fees = dbc_pool[d].fees
                       /\ dbc_pool'[d].is_migrated = dbc_pool[d].is_migrated
  BY <1>1, <1>2
<1>4. FeesAccounted'
  BY <1>1, <1>3 DEF Inv, FeesAccounted
<1>5. SharesAddUp'
  BY <1>1, <1>3, AllClaimedSame DEF Inv
<1>6. UnlaunchedClaimedNothing'
  BY <1>1 DEF Inv, UnlaunchedClaimedNothing, Launched
<1>7. GraduatedOnOwnPool'
  BY <1>1 DEF Inv, GraduatedOnOwnPool
<1> QED
  BY <1>1, <1>4, <1>5, <1>6, <1>7 DEF Inv

LEMMA InFlightNat ==
  ASSUME TypeOK, NEW c \in Coins
  PROVE  /\ InFlight(c) \in Nat /\ accrued[c] \in Nat
         /\ coin_config[c].total_claimed \in Nat
<1>1. coin_config[c] \in CoinConfig /\ dbc_pool[c] \in DbcPool
  BY DEF TypeOK
<1>2. coin_config[c].total_claimed \in Nat /\ dbc_pool[c].fees \in Nat
  BY <1>1 DEF CoinConfig, DbcPool
<1> QED
  BY <1>2 DEF TypeOK, InFlight

LEMMA InFlightNatNext ==
  ASSUME TypeOK', NEW c \in Coins
  PROVE  InFlight(c)' \in Nat /\ accrued'[c] \in Nat
<1>1. dbc_pool'[c] \in DbcPool
  BY DEF TypeOK
<1>2. dbc_pool'[c].fees \in Nat
  BY <1>1 DEF DbcPool
<1> QED
  BY <1>2 DEF TypeOK, InFlight

LEMMA AccountedIsLedger ==
  FeesAccounted
    <=> \A c \in Coins : accrued[c] = InFlight(c) + coin_config[c].total_claimed
  BY DEF FeesAccounted, InFlight

LEMMA InvMarket ==
  ASSUME Inv, NEW c \in Coins, MarketEvent(c) PROVE Inv'
<1>1. /\ TypeOK' /\ UNCHANGED <<coin_config, shares, overridden>>
      /\ \A d \in Coins : accrued'[d] - InFlight(d)' = accrued[d] - InFlight(d)
      /\ \A d \in Coins : dbc_pool[d].is_migrated => dbc_pool'[d].is_migrated
  BY MarketEffect DEF Inv
<1>2. ASSUME NEW d \in Coins
      PROVE  accrued'[d] = InFlight(d)' + coin_config'[d].total_claimed
  <2>1. accrued[d] = InFlight(d) + coin_config[d].total_claimed
    BY AccountedIsLedger DEF Inv
  <2>2. /\ InFlight(d) \in Nat /\ accrued[d] \in Nat
        /\ coin_config[d].total_claimed \in Nat
        /\ InFlight(d)' \in Nat /\ accrued'[d] \in Nat
    BY <1>1, InFlightNat, InFlightNatNext DEF Inv
  <2> QED
    BY <1>1, <2>1, <2>2
<1>3. FeesAccounted'
  BY <1>2 DEF FeesAccounted, InFlight
<1>4. SharesAddUp'
  BY <1>1, AllClaimedSame DEF Inv
<1> QED
  BY <1>1, <1>3, <1>4 DEF Inv, UnlaunchedClaimedNothing, Launched, GraduatedOnOwnPool

LEMMA InvSweep ==
  ASSUME Inv, NEW c \in Coins, ClaimAndSweep(c) PROVE Inv'
<1> DEFINE got == Claimed(c)
           part == SplitOf(got, global_config.split)
           w == global_config.platform_wallet
<1>1. /\ TypeOK' /\ got \in Nat
      /\ coin_config[c].status = "Bonding" \/ coin_config[c].status = "Graduated"
      /\ coin_config'[c].status = coin_config[c].status
      /\ coin_config'[c].damm_pool = coin_config[c].damm_pool
      /\ coin_config'[c].locked_position = coin_config[c].locked_position
      /\ coin_config'[c].total_claimed = coin_config[c].total_claimed + got
      /\ \A d \in Coins \ {c} : coin_config'[d] = coin_config[d]
      /\ InFlight(c)' = InFlight(c) - got
      /\ \A d \in Coins \ {c} : InFlight(d)' = InFlight(d)
      /\ \A d \in Coins : dbc_pool'[d].is_migrated = dbc_pool[d].is_migrated
      /\ payout'[c] = payout[c] + part.holder
      /\ \A d \in Coins \ {c} : payout'[d] = payout[d]
      /\ revenue' = revenue + part.h2e
      /\ platform' = [platform EXCEPT ![w] = @ + part.platform]
      /\ UNCHANGED <<accrued, overridden>>
  BY SweepEffect DEF Inv
<1>2. TypeOK /\ FeesAccounted /\ SharesAddUp
  BY DEF Inv
<1>3. global_config.split \in Split /\ ValidSplit(global_config.split) /\ w \in Wallets
  BY <1>2, SplitOfToday
<1>4. /\ part.holder \in Nat /\ part.h2e \in Nat /\ part.platform \in Nat
      /\ part.holder + part.h2e + part.platform = got
  BY <1>1, <1>3, SplitFacts
<1> HIDE DEF got, part, w
<1>5. FeesAccounted'
  <2>1. ASSUME NEW d \in Coins
        PROVE  accrued'[d] = InFlight(d)' + coin_config'[d].total_claimed
    <3>1. accrued[d] = InFlight(d) + coin_config[d].total_claimed
      BY <1>2, AccountedIsLedger
    <3>2. /\ InFlight(d) \in Nat /\ coin_config[d].total_claimed \in Nat
          /\ InFlight(d)' \in Nat
      BY <1>1, <1>2, InFlightNat, InFlightNatNext
    <3>3. CASE d = c
      BY <1>1, <3>1, <3>2, <3>3
    <3>4. CASE d # c
      BY <1>1, <3>1, <3>4
    <3> QED
      BY <3>3, <3>4
  <2> QED
    BY <2>1 DEF FeesAccounted, InFlight
<1>6. SharesAddUp'
  <2> DEFINE f == [d \in Coins |-> coin_config[d].total_claimed]
             g == [d \in Coins |-> coin_config'[d].total_claimed]
  <2>1. f \in [Coins -> Nat] /\ g \in [Coins -> Nat]
    BY <1>1, <1>2, InFlightNat
  <2>2. /\ g[c] = f[c] + got
        /\ \A d \in Coins \ {c} : g[d] = f[d]
    BY <1>1
  <2>3. Total(f) = Total(payout) + revenue + Total(platform)
    BY <1>2 DEF SharesAddUp
  <2> HIDE DEF f, g
  <2>4. f[c] \in Nat /\ g[c] \in Nat /\ Total(f) \in Nat /\ Total(g) \in Nat
    BY <2>1, CoinsAssumption, UnitsFinite
  <2>5. Total(g) + f[c] = Total(f) + g[c]
    BY <2>1, <2>2, CoinsAssumption, TotalUpdate
  <2>6. Total(g) = Total(f) + got
    BY <1>1, <2>2, <2>4, <2>5
  <2>7. /\ payout \in [Coins -> Nat] /\ payout' \in [Coins -> Nat]
        /\ platform \in [Wallets -> Nat] /\ platform' \in [Wallets -> Nat]
        /\ revenue \in Nat
    BY <1>1, <1>2 DEF TypeOK
  <2>8. /\ Total(payout) \in Nat /\ Total(payout') \in Nat
        /\ Total(platform) \in Nat /\ Total(platform') \in Nat
    BY <2>7, CoinsAssumption, WalletsAssumption, UnitsFinite
  <2>9. Total(payout') + payout[c] = Total(payout) + payout'[c]
    BY <1>1, <2>7, CoinsAssumption, TotalUpdate
  <2>10. payout[c] \in Nat /\ payout'[c] = payout[c] + part.holder
    BY <1>1, <2>7
  <2>11. Total(payout') = Total(payout) + part.holder
    BY <1>4, <2>8, <2>9, <2>10
  <2>12. platform[w] \in Nat /\ platform'[w] = platform[w] + part.platform
    BY <1>1, <1>3, <2>7
  <2>13. \A v \in Wallets \ {w} : platform'[v] = platform[v]
    BY <1>1, <2>7
  <2>14. Total(platform') + platform[w] = Total(platform) + platform'[w]
    BY <1>3, <2>7, <2>13, WalletsAssumption, TotalUpdate
  <2>15. Total(platform') = Total(platform) + part.platform
    BY <1>4, <2>8, <2>12, <2>14
  <2>16. Total(g) = Total(payout') + revenue' + Total(platform')
    BY <1>1, <1>4, <2>3, <2>4, <2>6, <2>7, <2>8, <2>11, <2>15
  <2> QED
    BY <2>16 DEF SharesAddUp, g
<1>7. UnlaunchedClaimedNothing'
  BY <1>1 DEF Inv, UnlaunchedClaimedNothing, Launched
<1>8. GraduatedOnOwnPool'
  BY <1>1 DEF Inv, GraduatedOnOwnPool
<1> QED
  BY <1>1, <1>5, <1>6, <1>7, <1>8 DEF Inv

LEMMA InvStep == Inv /\ [Next]_vars => Inv'
  BY StepCases, InvConfig, InvRetire, InvOverride, InvLaunch, InvMarket, InvSync,
     InvSweep

THEOREM InvCorrect == Spec => []Inv
  BY InvInit, InvStep, PTL DEF Spec

(* No fee of any coin is lost or booked to another, whatever the rails it  *)
(* moves between and whatever the admin sets.                              *)
THEOREM FeesCorrect == Spec => []FeesAccounted
<1>1. Inv => FeesAccounted
  BY DEF Inv
<1> QED
  BY <1>1, InvCorrect, PTL

(* What was claimed is what the three parties got, to the lamport.         *)
THEOREM SharesCorrect == Spec => []SharesAddUp
<1>1. Inv => SharesAddUp
  BY DEF Inv
<1> QED
  BY <1>1, InvCorrect, PTL

(* A coin that sync_graduation graduated is on a rail that works.          *)
THEOREM GraduationCorrect == Spec => []GraduatedOnOwnPool
<1>1. Inv => GraduatedOnOwnPool
  BY DEF Inv
<1> QED
  BY <1>1, InvCorrect, PTL

----------------------------------------------------------------------------
(* The action properties, from the same invariant.                         *)
LEMMA OnlySweepsClaim ==
  ASSUME Inv, [Next]_vars, \A c \in Coins : ~ClaimAndSweep(c)
  PROVE  \A d \in Coins : coin_config'[d].total_claimed = coin_config[d].total_claimed
<1> DEFINE Goal ==
      \A d \in Coins : coin_config'[d].total_claimed = coin_config[d].total_claimed
<1>1. TypeOK
  BY DEF Inv
<1>2. ASSUME NEW c \in Coins, NEW cc, Recorded(c, cc)
      PROVE  Goal
  BY <1>1, <1>2 DEF Recorded, RecordCoin, TypeOK
<1>3. ASSUME NEW c \in Coins, RetireCoin(c)
      PROVE  Goal
  BY <1>1, <1>2, <1>3, RetireEffect
<1>4. ASSUME NEW c \in Coins, NEW s \in Statuses, NEW pool \in Coins \cup {None},
             NEW position \in Positions \cup {None}, SetGraduation(c, s, pool, position)
      PROVE  Goal
  BY <1>1, <1>2, <1>4, OverrideEffect
<1>5. ASSUME NEW c \in Coins, NEW pool \in Coins, NEW position \in Positions,
             SyncGraduation(c, pool, position)
      PROVE  Goal
  BY <1>1, <1>2, <1>5, SyncEffect
<1>6. ASSUME NEW c \in Coins, NEW mint \in PayoutMints, LaunchCoin(c, mint)
      PROVE  Goal
  <2>1. /\ ~Launched(c) /\ coin_config'[c].total_claimed = 0
        /\ \A d \in Coins \ {c} : coin_config'[d] = coin_config[d]
    BY <1>1, <1>6, LaunchEffect
  <2> QED
    BY <2>1 DEF Inv, UnlaunchedClaimedNothing
<1>7. ASSUME NEW c \in Coins, MarketEvent(c)
      PROVE  Goal
  BY <1>1, <1>7, MarketEffect
<1>8. CASE ConfigStep \/ UNCHANGED vars
  BY <1>1, <1>8, ConfigEffect
<1> QED
  BY <1>3, <1>4, <1>5, <1>6, <1>7, <1>8, StepCases

LEMMA PlatformGets ==
  ASSUME TypeOK, TypeOK', NEW w \in Wallets,
         \A v \in Wallets \ {w} : platform'[v] = platform[v]
  PROVE  Total(platform') - Total(platform) = platform'[w] - platform[w]
<1> DEFINE f == platform
           g == platform'
<1>1. f \in [Wallets -> Nat] /\ g \in [Wallets -> Nat]
  BY DEF TypeOK
<1>2. \A v \in Wallets \ {w} : g[v] = f[v]
  OBVIOUS
<1> HIDE DEF f, g
<1>3. Total(g) + f[w] = Total(f) + g[w]
  BY <1>1, <1>2, WalletsAssumption, TotalUpdate
<1>4. Total(f) \in Nat /\ Total(g) \in Nat /\ f[w] \in Nat /\ g[w] \in Nat
  BY <1>1, WalletsAssumption, UnitsFinite
<1>5. Total(g) - Total(f) = g[w] - f[w]
  BY <1>3, <1>4
<1> QED
  BY <1>5 DEF f, g

LEMMA SharesOfThatSweep ==
  ASSUME Inv, NEW c \in Coins, ClaimAndSweep(c) PROVE SharesOfSweep(c)
<1> DEFINE got == Claimed(c)
           s == global_config.split
           part == SplitOf(got, s)
           w == global_config.platform_wallet
<1>1. /\ TypeOK' /\ got \in Nat
      /\ coin_config'[c].total_claimed = coin_config[c].total_claimed + got
      /\ payout'[c] = payout[c] + part.holder
      /\ \A d \in Coins \ {c} : payout'[d] = payout[d]
      /\ revenue' = revenue + part.h2e
      /\ platform' = [platform EXCEPT ![w] = @ + part.platform]
  BY SweepEffect DEF Inv
<1>2. TypeOK
  BY DEF Inv
<1>3. s \in Split /\ ValidSplit(s) /\ w \in Wallets
  BY <1>2, SplitOfToday
<1>4. /\ part.holder \in Nat /\ part.h2e \in Nat /\ part.platform \in Nat
      /\ 10000 * part.holder <= got * s.holder_bps
      /\ got * s.holder_bps < 10000 * part.holder + 10000
      /\ 10000 * part.h2e <= got * s.h2e_bps
      /\ got * s.h2e_bps < 10000 * part.h2e + 10000
      /\ got * s.platform_bps <= 10000 * part.platform
  BY <1>1, <1>3, SplitFacts
<1> HIDE DEF got, part, w
<1>5. Total(platform') - Total(platform) = part.platform
  <2>1. \A v \in Wallets \ {w} : platform'[v] = platform[v]
    BY <1>1, <1>2 DEF TypeOK
  <2>2. platform[w] \in Nat /\ platform'[w] = platform[w] + part.platform
    BY <1>1, <1>2, <1>3 DEF TypeOK
  <2>3. Total(platform') - Total(platform) = platform'[w] - platform[w]
    BY <1>1, <1>2, <1>3, <2>1, PlatformGets
  <2> QED
    BY <1>4, <2>2, <2>3
<1>6. coin_config[c].total_claimed \in Nat /\ payout[c] \in Nat /\ revenue \in Nat
  BY <1>2, InFlightNat DEF TypeOK
<1>7. /\ coin_config'[c].total_claimed - coin_config[c].total_claimed = got
      /\ payout'[c] - payout[c] = part.holder
      /\ revenue' - revenue = part.h2e
  BY <1>1, <1>4, <1>6
<1> QED
  BY <1>1, <1>4, <1>5, <1>7 DEF SharesOfSweep

LEMMA SharesStep ==
  ASSUME Inv, [Next]_vars, NEW c \in Coins PROVE SharesOfSweep(c)
<1>1. CASE ClaimAndSweep(c)
  BY <1>1, SharesOfThatSweep
<1>2. ASSUME coin_config'[c].total_claimed = coin_config[c].total_claimed
      PROVE  SharesOfSweep(c)
  <2>1. coin_config[c].total_claimed \in Nat
    BY InFlightNat DEF Inv
  <2>2. ~(coin_config'[c].total_claimed - coin_config[c].total_claimed > 0)
    BY <1>2, <2>1
  <2> QED
    BY <2>2 DEF SharesOfSweep
<1>3. ASSUME NEW d \in Coins \ {c}, ClaimAndSweep(d)
      PROVE  SharesOfSweep(c)
  <2>1. coin_config'[c] = coin_config[c]
    BY <1>3, SweepEffect DEF Inv
  <2> QED
    BY <2>1, <1>2
<1>4. ASSUME \A d \in Coins : ~ClaimAndSweep(d)
      PROVE  SharesOfSweep(c)
  BY <1>2, <1>4, OnlySweepsClaim
<1> QED
  BY <1>1, <1>3, <1>4

(* Every sweep under every split gives each party its share: floor, floor, *)
(* and the remainder to the platform.                                      *)
THEOREM SplitCorrect == Spec => SplitRespected
<1>1. Inv /\ [Next]_vars => [\A c \in Coins : SharesOfSweep(c)]_vars
  BY SharesStep
<1> QED
  BY <1>1, InvCorrect, PTL DEF Spec, SplitRespected

(* A coin that a step leaves alone lives on as it was.                     *)
LEMMA LifeUntouched ==
  ASSUME TypeOK, NEW c \in Coins, coin_config'[c] = coin_config[c],
         dbc_pool'[c].config = dbc_pool[c].config
  PROVE  LifeOf(c)
<1>1. coin_config[c].total_claimed \in Nat
  BY InFlightNat
<1> QED
  BY <1>1 DEF LifeOf

(* Of a step that records a coin, what is left to show is the new status.  *)
LEMMA LifeRecorded ==
  ASSUME TypeOK, NEW c \in Coins, NEW d \in Coins, NEW cc, Recorded(d, cc),
         ~(coin_config[d].status = "Bonding" /\ cc.status = "Graduated")
           => d \in overridden' \/ cc.status = "Retired"
  PROVE  LifeOf(c)
<1>1. /\ coin_config'[d] = cc
      /\ \A x \in Coins \ {d} : coin_config'[x] = coin_config[x]
      /\ dbc_pool' = dbc_pool
      /\ cc.total_claimed = coin_config[d].total_claimed
      /\ cc.default_payout_mint = coin_config[d].default_payout_mint
  BY DEF Recorded, RecordCoin, TypeOK, chain
<1>2. CASE c # d
  BY <1>1, <1>2, LifeUntouched
<1>3. CASE c = d
  <2>1. coin_config[d].total_claimed \in Nat
    BY InFlightNat
  <2> QED
    BY <1>1, <1>3, <2>1 DEF LifeOf
<1> QED
  BY <1>2, <1>3

LEMMA LifeStep ==
  ASSUME Inv, [Next]_vars, NEW c \in Coins PROVE LifeOf(c)
<1>1. TypeOK
  BY DEF Inv
<1>2. ASSUME NEW d \in Coins, RetireCoin(d)
      PROVE  LifeOf(c)
  <2>1. PICK cc : Recorded(d, cc) /\ cc.status = "Retired"
    BY <1>1, <1>2, RetireEffect
  <2>2. Recorded(d, cc) /\ (~(d \in overridden') => cc.status = "Retired")
    BY <2>1
  <2> QED
    BY <1>1, <2>2, LifeRecorded
<1>3. ASSUME NEW d \in Coins, NEW s \in Statuses, NEW pool \in Coins \cup {None},
             NEW position \in Positions \cup {None}, SetGraduation(d, s, pool, position)
      PROVE  LifeOf(c)
  <2>1. (\E cc : Recorded(d, cc)) /\ overridden' = overridden \cup {d}
    BY <1>1, <1>3, OverrideEffect
  <2>2. PICK cc : Recorded(d, cc)
    BY <2>1
  <2>3. d \in overridden'
    BY <2>1
  <2> QED
    BY <1>1, <2>2, <2>3, LifeRecorded
<1>4. ASSUME NEW d \in Coins, NEW pool \in Coins, NEW position \in Positions,
             SyncGraduation(d, pool, position)
      PROVE  LifeOf(c)
  <2>1. PICK cc : Recorded(d, cc) /\ cc.status = "Graduated"
    BY <1>1, <1>4, SyncEffect
  <2>2. coin_config[d].status = "Bonding"
    BY <1>1, <1>4, SyncEffect
  <2> QED
    BY <1>1, <2>1, <2>2, LifeRecorded
<1>5. ASSUME NEW d \in Coins, NEW mint \in PayoutMints, LaunchCoin(d, mint)
      PROVE  LifeOf(c)
  <2>1. /\ ~Launched(d)
        /\ \A x \in Coins \ {d} : coin_config'[x] = coin_config[x]
        /\ \A x \in Coins \ {d} : dbc_pool'[x] = dbc_pool[x]
    BY <1>1, <1>5, LaunchEffect
  <2>2. CASE c = d
    BY <2>1, <2>2 DEF LifeOf, Launched
  <2>3. CASE c # d
    BY <1>1, <2>1, <2>3, LifeUntouched
  <2> QED
    BY <2>2, <2>3
<1>6. ASSUME NEW d \in Coins, MarketEvent(d)
      PROVE  LifeOf(c)
  <2>1. coin_config' = coin_config /\ dbc_pool'[c].config = dbc_pool[c].config
    BY <1>1, <1>6, MarketEffect
  <2> QED
    BY <1>1, <2>1, LifeUntouched
<1>7. ASSUME NEW d \in Coins, ClaimAndSweep(d)
      PROVE  LifeOf(c)
  <2> DEFINE got == Claimed(d)
  <2>1. /\ got \in Nat
        /\ coin_config[d].status = "Bonding" \/ coin_config[d].status = "Graduated"
        /\ coin_config'[d].status = coin_config[d].status
        /\ coin_config'[d].default_payout_mint = coin_config[d].default_payout_mint
        /\ coin_config'[d].total_claimed = coin_config[d].total_claimed + got
        /\ \A x \in Coins \ {d} : coin_config'[x] = coin_config[x]
        /\ dbc_pool'[c].config = dbc_pool[c].config
    BY <1>1, <1>7, SweepEffect
  <2> HIDE DEF got
  <2>2. CASE c = d
    <3>1. coin_config[d].total_claimed \in Nat
      BY <1>1, InFlightNat
    <3> QED
      BY <2>1, <2>2, <3>1 DEF LifeOf
  <2>3. CASE c # d
    BY <1>1, <2>1, <2>3, LifeUntouched
  <2> QED
    BY <2>2, <2>3
<1>8. CASE ConfigStep \/ UNCHANGED vars
  <2>1. coin_config' = coin_config /\ dbc_pool' = dbc_pool
    BY <1>1, <1>8, ConfigEffect DEF Money, chain
  <2> QED
    BY <1>1, <2>1, LifeUntouched
<1> QED
  BY <1>2, <1>3, <1>4, <1>5, <1>6, <1>7, <1>8, StepCases

(* A coin's life runs one way, whatever the order of the steps.            *)
THEOREM LifeCorrect == Spec => OneWayLife
<1>1. Inv /\ [Next]_vars => [\A c \in Coins : LifeOf(c)]_vars
  BY LifeStep
<1> QED
  BY <1>1, InvCorrect, PTL DEF Spec, OneWayLife
=============================================================================
