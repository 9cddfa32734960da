------------------------------ MODULE Session ------------------------------
(***************************************************************************)
(* The client and the program together: transactions are built by the      *)
(* client's encoders (module Client) from what a sender reads on chain,    *)
(* and land later, in any order, or never; the program's structs (module   *)
(* H2eAccounts) check the accounts they name, and the handlers of lib.rs   *)
(* those that the structs leave to them.                                   *)
(*                                                                         *)
(* Amounts, times and balances are left to Payout and Coin: what a handler *)
(* may refuse for them is a transaction that is dropped.  External are the *)
(* runtime, the network, and the programs that own other accounts.         *)
(***************************************************************************)
EXTENDS Client, FiniteSets

CONSTANTS
  People,      \* who may be admin, keeper, platform wallet
  Deployer,    \* the upgrade authority of the program
  Mints,       \* payout mints
  Configs,     \* curve configurations
  Coins,       \* mints of coins
  Outset,      \* how far the deployment is at first: a set of stages
  Venues,      \* the venues that a build of the program may be pinned to
  MaxSent, MaxFlight, MaxEpoch \* bounds on transactions sent, in flight,
                               \* and on the epochs settled

ASSUME SessionAssumption ==
  /\ Deployer \in People
  /\ WSOL_MINT \in Mints
  /\ Outset \subseteq 0..4
  /\ MaxSent \in Nat /\ MaxFlight \in Nat /\ MaxEpoch \in Nat

VARIABLES
  venue,     \* the venue that the deployed build is pinned to
  config,    \* what GlobalConfig holds
  accounts,  \* the accounts there are, and what they hold
  flight,    \* transactions sent that have not landed
  sent

vars == <<venue, config, accounts, flight, sent>>

----------------------------------------------------------------------------
(* Accounts.                                                               *)

NoConfig ==
  [admin |-> Zero, keeper |-> Zero, platform_wallet |-> Zero,
   platform_config_key |-> Zero, usdc_mint |-> Zero, h2e_bps |-> Zero,
   h2e_mint |-> Zero, paused |-> Zero, pause_launches |-> Zero]

Yes == <<"bool", TRUE>>
No == <<"bool", FALSE>>

GlobalConfig == [type |-> "GlobalConfig", of |-> Zero]
TokenAccount == [type |-> "TokenAccount", of |-> Zero]

PlatformAllowlist(mints) ==
  [type |-> "PlatformAllowlist", of |-> Zero, mints |-> mints]

Denylist(entries) == [type |-> "Denylist", of |-> Zero, entries |-> entries]

CoinConfig(mint, pool, status) ==
  [type |-> "CoinConfig", of |-> mint, dbc_pool |-> pool, status |-> status,
   damm_pool |-> Zero, locked_position |-> Zero]

EpochState(mint, i) == [type |-> "EpochState", of |-> mint, index |-> i]

AllowlistState(mint, mints) ==
  [type |-> "AllowlistState", of |-> mint, mints |-> mints]

BucketState(epoch, out) ==
  [type |-> "BucketState", of |-> epoch, out_mint |-> out]

Put(acc, address, held) ==
  [a \in DOMAIN acc \cup {address} |-> IF a = address THEN held ELSE acc[a]]

CreateAtas(acc, atas) ==
  [a \in DOMAIN acc \cup atas |-> IF a \in DOMAIN acc THEN acc[a]
                                  ELSE TokenAccount]

Close(acc, atas) == [a \in DOMAIN acc \ atas |-> acc[a]]

(* The fields of m, and of g where m has none.                             *)
Override(g, m) == [f \in DOMAIN g |-> IF f \in DOMAIN m THEN m[f] ELSE g[f]]

----------------------------------------------------------------------------
(* What the program does with an instruction.                              *)

Setters == {"set_params", "set_keeper", "set_admin", "set_platform_wallet",
            "set_platform_config_key", "set_usdc_mint", "set_h2e_mint",
            "pause"}

EpochOf(ix) == IF ix.name = "settle_epoch" THEN ix.data.epoch_index[2]
               ELSE ix.data._epoch_index[2]

(* The addresses of the accounts given, none where none is given.          *)
Given(ix) == [n \in 1..32 |-> IF n \in DOMAIN ix.keys THEN ix.keys[n].key ELSE Zero]

CoinAt(acc, address) == IF address \in DOMAIN acc THEN acc[address].of ELSE Zero

Struct(ix, g, acc, pinned) ==
  LET k == Given(ix) IN
  CASE ix.name \in Setters -> AdminOnly(g)
    [] ix.name = "initialize_global" -> InitializeGlobal(Key(Deployer))
    [] ix.name = "init_denylist" -> InitDenylist(g)
    [] ix.name = "set_denylist" -> SetDenylist(g)
    [] ix.name = "init_platform_allowlist" -> InitPlatformAllowlist(g)
    [] ix.name = "set_platform_allowlist" -> SetPlatformAllowlist(g)
    [] ix.name = "retire_coin" -> RetireCoin(g, CoinAt(acc, k[3]))
    [] ix.name = "set_graduation" -> SetGraduation(g, CoinAt(acc, k[3]))
    [] ix.name = "launch_coin" -> LaunchCoin(k)
    [] ix.name = "claim_and_sweep" -> ClaimAndSweep(k)
    [] ix.name = "sync_graduation" -> SyncGraduation(k)
    [] ix.name = "settle_epoch" -> SettleEpoch(k, g, EpochOf(ix))
    [] ix.name = "swap_payout" -> SwapPayout(k, g, EpochOf(ix), pinned)
    [] ix.name = "distribute_batch" -> DistributeBatch(k, g, EpochOf(ix))

(* What handlers, and constraints between accounts, ask of the accounts    *)
(* that a struct leaves unchecked.                                         *)
LaunchAllows(ix, g, acc) ==
  LET k == Given(ix) IN
  /\ g.pause_launches = No
  /\ ix.data.default_payout_mint \in acc[platform_allowlist].mints
  /\ k[5] = g.platform_config_key
  /\ k[16] = g.platform_wallet

ClaimAllows(ix, g, acc) ==
  LET k == Given(ix)
      coin == acc[k[3]] IN
  /\ coin.status # "retired"
  /\ k[18] = coin.dbc_pool
  /\ g.paused = No
  /\ k[16] = g.platform_config_key
  /\ k[14] = g.platform_wallet
  /\ coin.status = "graduated" =>
       /\ Len(ix.keys) = 31
       /\ k[31] = CP_AMM_PROGRAM
       /\ k[24] = CP_AMM_POOL_AUTHORITY
       /\ k[30] = CP_AMM_EVENT_AUTHORITY
       /\ k[25] = coin.damm_pool
       /\ k[26] = coin.locked_position

Allows(ix, g, acc) ==
  LET k == Given(ix) IN
  CASE ix.name = "launch_coin" -> LaunchAllows(ix, g, acc)
    [] ix.name = "claim_and_sweep" -> ClaimAllows(ix, g, acc)
    [] ix.name = "sync_graduation" ->
         acc[k[2]].status = "bonding" /\ acc[k[2]].dbc_pool = k[5]
    [] ix.name = "set_h2e_mint" -> ~(ix.data.enable = Yes /\ ix.data.mint = Zero)
    [] ix.name = "settle_epoch" ->
         ix.data.allowed_mints[2] \subseteq acc[platform_allowlist].mints
    [] ix.name = "swap_payout" -> k[9] \in acc[k[7]].mints
    [] ix.name = "distribute_batch" ->
         LET recipients == ix.data.recipients[2] IN
         /\ acc[k[5]].of = k[4]
         /\ Len(ix.keys) = 9 + Len(recipients)
         /\ \A n \in DOMAIN recipients : k[9 + n] = Ata(k[6], recipients[n])
    [] OTHER -> TRUE

(* The runtime: who must sign has signed.                                  *)
SignersSigned(ix, signers) ==
  \A n \in DOMAIN ix.keys : ix.keys[n].signer => ix.keys[n].key \in signers

Accepted(t, g, acc, pinned) ==
  LET before == CreateAtas(acc, t.creates) IN
  /\ SignersSigned(t.ix, t.signers)
  /\ Validates(Struct(t.ix, g, before, pinned), t.ix.keys, DOMAIN before)
  /\ Allows(t.ix, g, before)

(* What the handler writes to GlobalConfig.                                *)
Settings(ix) ==
  LET d == ix.data IN
  CASE ix.name \in {"initialize_global", "set_params", "pause"} -> d
    [] ix.name = "set_keeper" -> [keeper |-> d.new_keeper]
    [] ix.name = "set_admin" -> [admin |-> d.new_admin]
    [] ix.name = "set_platform_wallet" -> [platform_wallet |-> d.new_wallet]
    [] ix.name = "set_platform_config_key" ->
         [platform_config_key |-> d.new_config]
    [] ix.name = "set_usdc_mint" -> [usdc_mint |-> d.new_usdc_mint]
    [] ix.name = "set_h2e_mint" -> [h2e_mint |-> d.mint]
    [] OTHER -> <<>>

(* What the handler writes to other accounts.                              *)
Entries(list, entry, add) ==
  IF add = Yes THEN list \cup {entry} ELSE list \ {entry}

Writes(ix, acc) ==
  LET k == Given(ix)
      d == ix.data IN
  CASE ix.name = "initialize_global" -> Put(acc, k[2], GlobalConfig)
    [] ix.name = "init_denylist" -> Put(acc, k[3], Denylist({}))
    [] ix.name = "set_denylist" ->
         Put(acc, k[3], Denylist(Entries(acc[k[3]].entries,
                                         <<d.kind[2], d.key>>, d.add)))
    [] ix.name = "init_platform_allowlist" ->
         Put(acc, k[3], PlatformAllowlist({}))
    [] ix.name = "set_platform_allowlist" ->
         Put(acc, k[3], PlatformAllowlist(Entries(acc[k[3]].mints, d.mint, d.add)))
    [] ix.name = "retire_coin" -> [acc EXCEPT ![k[3]].status = "retired"]
    [] ix.name = "set_graduation" ->
         [acc EXCEPT ![k[3]].status = norm(d.status)[2],
                     ![k[3]].damm_pool = d.damm_pool,
                     ![k[3]].locked_position = d.locked_position]
    [] ix.name = "launch_coin" ->
         Put(acc, k[15], CoinConfig(k[2], k[8], "bonding"))
    [] ix.name = "sync_graduation" ->
         [acc EXCEPT ![k[2]].status = "graduated",
                     ![k[2]].damm_pool = k[6],
                     ![k[2]].locked_position = k[7]]
    [] ix.name = "settle_epoch" ->
         Put(Put(acc, k[8], EpochState(k[4], EpochOf(ix))),
             k[9], AllowlistState(k[4], d.allowed_mints[2]))
    [] ix.name = "swap_payout" -> Put(acc, k[8], BucketState(k[6], k[9]))
    [] OTHER -> acc

(* A transaction lands: token accounts are created, the instruction is     *)
(* executed, token accounts are closed, or none of it.                     *)
Land(t) ==
  /\ Accepted(t, config, accounts, venue)
  /\ flight' = flight \ {t}
  /\ config' = Override(config, Settings(t.ix))
  /\ accounts' = Close(Writes(t.ix, CreateAtas(accounts, t.creates)), t.closes)
  /\ UNCHANGED <<venue, sent>>

(* It is refused, by these checks or by others, or lost.                   *)
Drop(t) ==
  /\ flight' = flight \ {t}
  /\ UNCHANGED <<venue, config, accounts, sent>>

----------------------------------------------------------------------------
(* What senders build, from what they see.  means is what the sender wants *)
(* GlobalConfig to hold afterwards.                                        *)

Transaction(ix, signers, creates, closes, means) ==
  [ix |-> ix, signers |-> signers, creates |-> creates, closes |-> closes,
   means |-> means, seen |-> <<config, accounts>>]

Submit(t) ==
  /\ ~t.ix.throws
  /\ sent < MaxSent
  /\ Cardinality(flight) < MaxFlight
  /\ sent' = sent + 1
  /\ flight' = flight \cup {t}
  /\ UNCHANGED <<venue, config, accounts>>

Send(ix, signer) == Submit(Transaction(ix, {signer}, {}, {}, <<>>))

Configure(ix, means) ==
  /\ global_config \in DOMAIN accounts
  /\ Submit(Transaction(ix, {config.admin}, {}, {}, means))

Keys == {Key(p) : p \in People}
Flags == {Yes, No}
Bps == {<<"bps", 3000>>, <<"bps", 2000>>}
FirstBps == <<"bps", 3000>>
Mint(c) == Key(c)

FirstConfig ==
  [admin |-> Key(Deployer), keeper |-> Key(Deployer),
   platform_wallet |-> Key(Deployer),
   platform_config_key |-> (CHOOSE c \in Configs : TRUE),
   usdc_mint |-> WSOL_MINT, h2e_bps |-> FirstBps, paused |-> No,
   pause_launches |-> No]

InitializeGlobalSent ==
  /\ global_config \notin DOMAIN accounts
  /\ Submit(Transaction(initializeGlobalIx(FirstConfig, Key(Deployer)),
       {Key(Deployer)}, {}, {}, FirstConfig))

(* The caller names the fields as the program does, or as the generated    *)
(* types do.                                                               *)
SetParamsSent ==
  \E bps \in Bps, mint \in Mints, named \in {"h2e_bps", "h2eBps"} :
    LET means == [h2e_bps |-> bps, usdc_mint |-> mint]
        args == IF named = "h2e_bps" THEN means
                ELSE [h2eBps |-> bps, usdc_mint |-> mint] IN
    Configure(setParamsIx(args, config.admin), means)

SetKeeperSent ==
  \E k \in Keys : Configure(setKeeperIx(k, config.admin), [keeper |-> k])

SetAdminSent ==
  \E k \in Keys : Configure(setAdminIx(k, config.admin), [admin |-> k])

SetPlatformWalletSent ==
  \E k \in Keys :
    Configure(setPlatformWalletIx(k, config.admin), [platform_wallet |-> k])

SetPlatformConfigKeySent ==
  \E c \in Configs :
    Configure(setPlatformConfigKeyIx(c, config.admin),
              [platform_config_key |-> c])

SetUsdcMintSent ==
  \E m \in Mints : Configure(setUsdcMintIx(m, config.admin), [usdc_mint |-> m])

SetH2eMintSent ==
  \E m \in {Zero} \cup {Mint(c) : c \in Coins} :
    Configure(setH2eMintIx(m, IF m = Zero THEN No ELSE Yes, config.admin),
              [h2e_mint |-> m])

PauseSent ==
  \E p \in Flags, l \in Flags :
    Configure(pauseIx(p, l, config.admin), [paused |-> p, pause_launches |-> l])

InitDenylistSent ==
  /\ denylist_state \notin DOMAIN accounts
  /\ Configure(initDenylistIx(config.admin), <<>>)

SetDenylistSent ==
  /\ denylist_state \in DOMAIN accounts
  /\ \E kind \in {"PayoutAddress", "PayoutMint"}, add \in Flags :
       Configure(setDenylistIx(kind, WSOL_MINT, add, config.admin), <<>>)

InitPlatformAllowlistSent ==
  /\ platform_allowlist \notin DOMAIN accounts
  /\ Configure(initPlatformAllowlistIx(config.admin), <<>>)

SetPlatformAllowlistSent ==
  /\ platform_allowlist \in DOMAIN accounts
  /\ \E m \in Mints, add \in Flags :
       Configure(setPlatformAllowlistIx(m, add, config.admin), <<>>)

Launched == {accounts[a].of : a \in allCoinConfigs(accounts)}
CoinHeld(mint) == accounts[pdas_coinConfig(mint)]

RetireCoinSent ==
  \E mint \in Launched : Configure(retireCoinIx(mint, config.admin), <<>>)

SetGraduationSent ==
  \E mint \in Launched, status \in {"Bonding", "Graduated"} :
    Configure(
      setGraduationIx(mint, status,
        IF status = "Bonding" THEN Zero ELSE DammPool(mint),
        IF status = "Bonding" THEN Zero ELSE Position(mint), config.admin),
      <<>>)

(* launchtx.ts: an own mint, the accounts that the configuration names; a  *)
(* dev buy has its lamports wrapped, and what is left unwrapped.           *)
LaunchSent ==
  /\ global_config \in DOMAIN accounts
  /\ config.pause_launches = No
  /\ \E c \in Coins, p \in Keys, out \in platformAllowlistMints(accounts),
        wraps \in BOOLEAN :
       /\ pdas_coinConfig(Mint(c)) \notin DOMAIN accounts
       /\ Submit(Transaction(
            launchCoinIx([dev_buy_lamports |-> IF wraps THEN Yes ELSE No,
                          default_payout_mint |-> out],
              [payer |-> p, baseMint |-> Mint(c),
               config |-> config.platform_config_key,
               platformWallet |-> config.platform_wallet]),
            {p, Mint(c)},
            IF wraps THEN wrapSolIxs(p) ELSE {},
            IF wraps THEN closeWsolIx(p) ELSE {}, <<>>))

(* The coin was launched with the configuration its pool names.            *)
ClaimAndSweepSent ==
  \E mint \in Launched, caller \in Keys :
    LET graduated == CoinHeld(mint).status = "graduated" IN
    /\ config.paused = No
    /\ CoinHeld(mint).status # "retired"
    /\ CoinHeld(mint).dbc_pool = Pool(mint, config.platform_config_key)
    /\ graduated => CoinHeld(mint).damm_pool # Zero
    /\ Submit(Transaction(
         claimAndSweepIx([caller |-> caller, mint |-> mint,
             config |-> config.platform_config_key,
             platformWallet |-> config.platform_wallet], graduated),
         {caller}, sweepAtaIxs(mint, config.platform_wallet), {}, <<>>))

SyncGraduationSent ==
  \E mint \in Launched, caller \in Keys :
    /\ CoinHeld(mint).status = "bonding"
    /\ Send(syncGraduationIx(caller, mint, CoinHeld(mint).dbc_pool), caller)

SettleEpochSent ==
  \E mint \in Launched, i \in 0..MaxEpoch,
     allowed \in SUBSET platformAllowlistMints(accounts) :
    /\ Ata(WSOL_MINT, payout_authority(mint)) \in DOMAIN accounts
    /\ i \notin {accounts[e].index : e \in epochsForMint(accounts, mint)}
    /\ Send(settleEpochIx(i, allowed, mint, config.keeper), config.keeper)

(* Buckets not there yet; the keeper creates the account they pay from.    *)
SwapPayoutSent ==
  \E mint \in Launched :
    \E e \in epochsForMint(accounts, mint) :
      LET i == accounts[e].index IN
      \E out \in accounts[allowlist_state(mint, i)].mints :
        /\ out \notin {accounts[b].out_mint : b \in bucketsForEpoch(accounts, e)}
        /\ Submit(Transaction(
             swapPayoutIx(i, out, IF out = WSOL_MINT THEN <<>>
                                  ELSE <<rw(Ata(out, payout_authority(mint)))>>,
                          mint, config.keeper),
             {config.keeper}, {Ata(out, payout_authority(mint))}, {}, <<>>))

DistributeBatchSent ==
  \E mint \in Launched :
    \E e \in epochsForMint(accounts, mint) :
      \E b \in bucketsForEpoch(accounts, e) :
        Send(distributeBatchIx(accounts[e].index, accounts[b].out_mint,
                               <<Key(Deployer)>>, mint, config.keeper),
             config.keeper)

----------------------------------------------------------------------------
(* How far a deployment may be: nothing is there; initialised, with WSOL   *)
(* as a payout mint; a coin launched and swept; a round settled; a bucket  *)
(* of it swapped, which this client can only have done at its own venue.   *)
FirstAccounts(stage) ==
  LET coin == Mint(CHOOSE c \in Coins : TRUE)
      wallet == Key(Deployer)
      key == FirstConfig.platform_config_key
      none == [a \in {} |-> TokenAccount]
      ready == Put(Put(none, global_config, GlobalConfig), platform_allowlist,
                   PlatformAllowlist({WSOL_MINT}))
      swept == CreateAtas(Put(ready, coin_config(coin),
                              CoinConfig(coin, Pool(coin, key), "bonding")),
                          sweepAtaIxs(coin, wallet))
      settled == Put(Put(swept, epoch_state(coin, 0), EpochState(coin, 0)),
                     allowlist_state(coin, 0), AllowlistState(coin, Mints))
      swapped == Put(settled, bucket_state(coin, 0, WSOL_MINT),
                     BucketState(epoch_state(coin, 0), WSOL_MINT)) IN
  CASE stage = 0 -> none [] stage = 1 -> ready [] stage = 2 -> swept
    [] stage = 3 -> settled [] stage = 4 -> swapped

Init ==
  /\ \E stage \in Outset :
       /\ accounts = FirstAccounts(stage)
       /\ venue \in Venues
       /\ stage = 4 => venue = JUPITER_PROGRAM
       /\ config = IF stage = 0 THEN NoConfig ELSE Override(NoConfig, FirstConfig)
  /\ flight = {}
  /\ sent = 0

Next ==
  \/ InitializeGlobalSent \/ SetParamsSent \/ SetKeeperSent \/ SetAdminSent
  \/ SetPlatformWalletSent \/ SetPlatformConfigKeySent \/ SetUsdcMintSent
  \/ SetH2eMintSent \/ PauseSent \/ InitDenylistSent \/ SetDenylistSent
  \/ InitPlatformAllowlistSent \/ SetPlatformAllowlistSent \/ RetireCoinSent
  \/ SetGraduationSent \/ LaunchSent \/ ClaimAndSweepSent
  \/ SyncGraduationSent \/ SettleEpochSent \/ SwapPayoutSent
  \/ DistributeBatchSent
  \/ \E t \in flight : Land(t) \/ Drop(t)

Spec == Init /\ [][Next]_vars
----------------------------------------------------------------------------
(* index.ts:282, 559: the accounts an encoder gives are those the program  *)
(* asks for, in its order and with its flags: a transaction built from     *)
(* what is still so when it lands passes every check of accounts, however  *)
(* the roles, lists and coins have changed before.  The exception is       *)
(* swap_payout: of any outMint, it passes where the program is pinned to   *)
(* the venue the client has written in (index.ts:112), the stub's, and     *)
(* nowhere else, as in a build for production (lib.rs:1104, 1632).         *)
AcceptedWhenFresh ==
  \A t \in flight : t.seen = <<config, accounts>> =>
    (Accepted(t, config, accounts, venue)
       <=> (t.ix.name = "swap_payout" => venue = JUPITER_PROGRAM))

(* lib.rs:338-339 and index.ts:149-153: whatever is in flight when roles   *)
(* change hands, GlobalConfig changes only by a transaction that the       *)
(* admin of the moment has signed, or the deployer at first, and to what   *)
(* its sender wanted.                                                      *)
AsTheAdminMeant ==
  [][config' # config =>
       \E t \in flight \ flight' :
         /\ (IF config = NoConfig THEN Key(Deployer) ELSE config.admin) \in t.signers
         /\ config' = Override(config, t.means)]_vars
=============================================================================
