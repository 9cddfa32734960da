------------------------------- MODULE Client -------------------------------
(***************************************************************************)
(* The client (h2e/client/index.ts): for each instruction, the accounts it *)
(* gives, in order, and its arguments, through an encoder that decodes     *)
(* what it has encoded; the lists of addresses that callers load into a    *)
(* lookup table before they send it; and the reads by which callers        *)
(* discover coins, epochs and buckets.                                     *)
(***************************************************************************)
EXTENDS H2eAccounts

pdas_global == Pda(<<"global">>)
pdas_programData == <<"programdata", PROGRAM_ID>>
pdas_coinConfig(mint) == Pda(<<"coin", mint>>)
pdas_feeClaimer == Pda(<<"fee">>)
pdas_feeAuthority(mint) == Pda(<<"vault", mint>>)
pdas_payoutAuthority(mint) == Pda(<<"payout", mint>>)
pdas_revenueAuthority == Pda(<<"revenue">>)
pdas_denylist == Pda(<<"denylist">>)
pdas_epochState(mint, i) == Pda(<<"epoch", mint, i>>)
pdas_bucketState(mint, i, outMint) == Pda(<<"bucket", mint, i, outMint>>)
pdas_allowlistState(mint, i) == Pda(<<"allow", mint, i>>)
pdas_platformAllowlist == Pda(<<"allowlist">>)

(* The venue is the stub's, whatever build of the program is deployed.     *)
JUPITER_PROGRAM == Program("Stub")

(* Accounts of other programs, derived from the pool they belong to.       *)
Pool(mint, config) == <<"pool", mint, config>>
Vault(pool, mint) == <<"vault", pool, mint>>

----------------------------------------------------------------------------
(* Encoding.  An argument is a value that says of which kind it is; that   *)
(* of a struct is given by the struct's fields, of which only those that   *)
(* matter here are.  The coder gives a field it is not given by the name   *)
(* in the interface of the program no value but zero; it decodes the       *)
(* variants of an enum with a lower-case initial.                          *)

Zero == <<"zero">>

Structs == {"initialize_global", "set_params"}

LowerInitial ==
  [Bonding |-> "bonding", Graduated |-> "graduated", Retired |-> "retired",
   PayoutAddress |-> "payoutAddress", PayoutMint |-> "payoutMint"]

norm(v) == IF v[1] = "variant" /\ v[2] \in DOMAIN LowerInitial
           THEN <<"variant", LowerInitial[v[2]]>> ELSE v

(* A struct is compared as a whole, arguments one by one.                  *)
encodeChecked(name, args, data) ==
  /\ name \in Structs => DOMAIN args = DOMAIN data
  /\ \A f \in DOMAIN args : f \in DOMAIN data /\ norm(args[f]) = norm(data[f])

encode(fields, args) ==
  [f \in fields |-> IF f \in DOMAIN args THEN args[f] ELSE Zero]

(* throws: no instruction is built.                                        *)
Instruction(name, fields, args, keys) ==
  LET data == encode(fields, args) IN
  [name |-> name, data |-> data, keys |-> keys,
   throws |-> ~encodeChecked(name, args, data)]

ro(key) == [key |-> key, signer |-> FALSE, writable |-> FALSE]
rw(key) == [key |-> key, signer |-> FALSE, writable |-> TRUE]
Signed(meta) == [meta EXCEPT !.signer = TRUE]

----------------------------------------------------------------------------
(* The instructions of the admin.                                          *)

initializeGlobalIx(params, authority) ==
  Instruction("initialize_global",
    {"admin", "keeper", "platform_wallet", "platform_config_key", "usdc_mint",
     "h2e_bps", "paused", "pause_launches"}, params,
    <<Signed(rw(authority)), rw(pdas_global), ro(PROGRAM_ID),
      ro(pdas_programData), ro(SYSTEM_PROGRAM)>>)

adminKeys(admin) == <<rw(pdas_global), Signed(ro(admin))>>

setParamsIx(args, admin) ==
  Instruction("set_params", {"h2e_bps", "usdc_mint"}, args, adminKeys(admin))

setKeeperIx(newKeeper, admin) ==
  Instruction("set_keeper", {"new_keeper"}, [new_keeper |-> newKeeper],
              adminKeys(admin))

setAdminIx(newAdmin, admin) ==
  Instruction("set_admin", {"new_admin"}, [new_admin |-> newAdmin],
              adminKeys(admin))

setPlatformWalletIx(newWallet, admin) ==
  Instruction("set_platform_wallet", {"new_wallet"},
              [new_wallet |-> newWallet], adminKeys(admin))

setPlatformConfigKeyIx(newConfig, admin) ==
  Instruction("set_platform_config_key", {"new_config"},
              [new_config |-> newConfig], adminKeys(admin))

setUsdcMintIx(newUsdcMint, admin) ==
  Instruction("set_usdc_mint", {"new_usdc_mint"},
              [new_usdc_mint |-> newUsdcMint], adminKeys(admin))

setH2eMintIx(mint, enable, admin) ==
  Instruction("set_h2e_mint", {"mint", "enable"},
              [mint |-> mint, enable |-> enable], adminKeys(admin))

pauseIx(paused, pauseLaunches, admin) ==
  Instruction("pause", {"paused", "pause_launches"},
              [paused |-> paused, pause_launches |-> pauseLaunches],
              adminKeys(admin))

retireCoinIx(mint, admin) ==
  Instruction("retire_coin", {}, <<>>,
    <<ro(pdas_global), Signed(ro(admin)), rw(pdas_coinConfig(mint))>>)

setGraduationIx(mint, status, dammPool, lockedPosition, admin) ==
  Instruction("set_graduation", {"status", "damm_pool", "locked_position"},
    [status |-> <<"variant", status>>, damm_pool |-> dammPool,
     locked_position |-> lockedPosition],
    <<ro(pdas_global), Signed(ro(admin)), rw(pdas_coinConfig(mint))>>)

initDenylistIx(admin) ==
  Instruction("init_denylist", {}, <<>>,
    <<ro(pdas_global), Signed(rw(admin)), rw(pdas_denylist),
      ro(SYSTEM_PROGRAM)>>)

setDenylistIx(kind, key, add, admin) ==
  Instruction("set_denylist", {"kind", "key", "add"},
    [kind |-> <<"variant", kind>>, key |-> key, add |-> add],
    <<ro(pdas_global), Signed(ro(admin)), rw(pdas_denylist)>>)

initPlatformAllowlistIx(admin) ==
  Instruction("init_platform_allowlist", {}, <<>>,
    <<ro(pdas_global), Signed(rw(admin)), rw(pdas_platformAllowlist),
      ro(SYSTEM_PROGRAM)>>)

setPlatformAllowlistIx(mint, add, admin) ==
  Instruction("set_platform_allowlist", {"mint", "add"},
    [mint |-> mint, add |-> add],
    <<ro(pdas_global), Signed(ro(admin)), rw(pdas_platformAllowlist)>>)

----------------------------------------------------------------------------
(* launch_coin.  a has payer, baseMint, config and platformWallet.         *)

launchCoinDerived(a) ==
  LET pool == Pool(a.baseMint, a.config) IN
  [pool |-> pool,
   baseVault |-> Vault(pool, a.baseMint),
   quoteVault |-> Vault(pool, WSOL_MINT),
   mintMetadata |-> <<"metadata", a.baseMint>>,
   devQuoteAta |-> Ata(WSOL_MINT, a.payer),
   devBaseAta |-> Ata(a.baseMint, a.payer),
   coinConfig |-> pdas_coinConfig(a.baseMint)]

launchCoinAltAddresses(a) ==
  LET d == launchCoinDerived(a) IN
  <<pdas_global, pdas_platformAllowlist, a.config, DBC_POOL_AUTHORITY,
    WSOL_MINT, d.pool, d.baseVault, d.quoteVault, d.mintMetadata,
    METADATA_PROGRAM, d.devQuoteAta, d.devBaseAta, d.coinConfig,
    a.platformWallet, TOKEN_PROGRAM, ATA_PROGRAM, DBC_EVENT_AUTHORITY,
    DBC_PROGRAM, SYSTEM_PROGRAM, PROGRAM_ID>>

launchCoinIx(params, a) ==
  LET d == launchCoinDerived(a) IN
  Instruction("launch_coin", {"dev_buy_lamports", "default_payout_mint"},
    params,
    <<Signed(rw(a.payer)), Signed(rw(a.baseMint)), ro(pdas_global),
      ro(pdas_platformAllowlist), ro(a.config), ro(DBC_POOL_AUTHORITY),
      ro(WSOL_MINT), rw(d.pool), rw(d.baseVault), rw(d.quoteVault),
      rw(d.mintMetadata), ro(METADATA_PROGRAM), rw(d.devQuoteAta),
      rw(d.devBaseAta), rw(d.coinConfig), rw(a.platformWallet),
      ro(TOKEN_PROGRAM), ro(TOKEN_PROGRAM), ro(ATA_PROGRAM),
      ro(DBC_EVENT_AUTHORITY), ro(DBC_PROGRAM), ro(SYSTEM_PROGRAM)>>)

(* The token account they create, if it is not there, and close again.     *)
wrapSolIxs(payer) == {Ata(WSOL_MINT, payer)}
closeWsolIx(payer) == {Ata(WSOL_MINT, payer)}

----------------------------------------------------------------------------
(* claim_and_sweep.  a has caller, mint, config and platformWallet.        *)

sweepAtas(mint, platformWallet) ==
  [feeAuthority |-> pdas_feeAuthority(mint),
   feeWsolAta |-> Ata(WSOL_MINT, pdas_feeAuthority(mint)),
   feeBaseAta |-> Ata(mint, pdas_feeAuthority(mint)),
   payoutAuthority |-> pdas_payoutAuthority(mint),
   payoutWsolAta |-> Ata(WSOL_MINT, pdas_payoutAuthority(mint)),
   revenueAuthority |-> pdas_revenueAuthority,
   revenueWsolAta |-> Ata(WSOL_MINT, pdas_revenueAuthority),
   platformWsolAta |-> Ata(WSOL_MINT, platformWallet)]

(* The token accounts they create, if they are not there.                  *)
sweepAtaIxs(mint, platformWallet) ==
  LET s == sweepAtas(mint, platformWallet) IN
  {s.feeWsolAta, s.feeBaseAta, s.payoutWsolAta, s.revenueWsolAta,
   s.platformWsolAta}

(* GraduatedRail: the coin's accounts after graduation.                    *)
DammPool(mint) == <<"damm", mint>>
Position(mint) == <<"position", mint>>
Rail(mint) ==
  <<ro(CP_AMM_POOL_AUTHORITY), ro(DammPool(mint)), rw(Position(mint)),
    rw(<<"tokenAVault", mint>>), rw(<<"tokenBVault", mint>>),
    ro(<<"positionNft", mint>>), ro(CP_AMM_EVENT_AUTHORITY),
    ro(CP_AMM_PROGRAM)>>

KeysOf(metas) == {metas[n].key : n \in DOMAIN metas}

claimAndSweepAltAddresses(a, graduated) ==
  LET s == sweepAtas(a.mint, a.platformWallet)
      pool == Pool(a.mint, a.config) IN
  {pdas_global, pdas_coinConfig(a.mint), a.mint, WSOL_MINT, pdas_feeClaimer,
   s.feeAuthority, s.feeWsolAta, s.feeBaseAta, s.payoutAuthority,
   s.payoutWsolAta, s.revenueAuthority, s.revenueWsolAta, a.platformWallet,
   s.platformWsolAta, a.config, DBC_POOL_AUTHORITY, pool,
   Vault(pool, a.mint), Vault(pool, WSOL_MINT), DBC_EVENT_AUTHORITY,
   DBC_PROGRAM, TOKEN_PROGRAM, PROGRAM_ID}
  \cup (IF graduated THEN KeysOf(Rail(a.mint)) ELSE {})

(* Bug: the revenue and the payout account change places.                  *)
claimAndSweepSwapped(a, graduated) ==
  LET s == sweepAtas(a.mint, a.platformWallet)
      pool == Pool(a.mint, a.config) IN
  Instruction("claim_and_sweep", {}, <<>>,
    <<Signed(ro(a.caller)), ro(pdas_global), rw(pdas_coinConfig(a.mint)),
      ro(a.mint), ro(WSOL_MINT), ro(pdas_feeClaimer), ro(s.feeAuthority),
      rw(s.feeWsolAta), rw(s.feeBaseAta), ro(s.revenueAuthority),
      rw(s.revenueWsolAta), ro(s.payoutAuthority), rw(s.payoutWsolAta),
      ro(a.platformWallet), rw(s.platformWsolAta), ro(a.config),
      ro(DBC_POOL_AUTHORITY), rw(pool), rw(Vault(pool, a.mint)),
      rw(Vault(pool, WSOL_MINT)), ro(DBC_EVENT_AUTHORITY), ro(DBC_PROGRAM),
      ro(TOKEN_PROGRAM)>> \o (IF graduated THEN Rail(a.mint) ELSE <<>>))

claimAndSweepIx(a, graduated) ==
  LET s == sweepAtas(a.mint, a.platformWallet)
      pool == Pool(a.mint, a.config) IN
  Instruction("claim_and_sweep", {}, <<>>,
    <<Signed(ro(a.caller)), ro(pdas_global), rw(pdas_coinConfig(a.mint)),
      ro(a.mint), ro(WSOL_MINT), ro(pdas_feeClaimer), ro(s.feeAuthority),
      rw(s.feeWsolAta), rw(s.feeBaseAta), ro(s.payoutAuthority),
      rw(s.payoutWsolAta), ro(s.revenueAuthority), rw(s.revenueWsolAta),
      ro(a.platformWallet), rw(s.platformWsolAta), ro(a.config),
      ro(DBC_POOL_AUTHORITY), rw(pool), rw(Vault(pool, a.mint)),
      rw(Vault(pool, WSOL_MINT)), ro(DBC_EVENT_AUTHORITY), ro(DBC_PROGRAM),
      ro(TOKEN_PROGRAM)>> \o (IF graduated THEN Rail(a.mint) ELSE <<>>))

syncGraduationIx(caller, mint, dbcPool) ==
  Instruction("sync_graduation", {}, <<>>,
    <<Signed(ro(caller)), rw(pdas_coinConfig(mint)), ro(mint),
      ro(pdas_feeClaimer), ro(dbcPool), ro(DammPool(mint)),
      ro(Position(mint)), ro(<<"positionNft", mint>>)>>)

----------------------------------------------------------------------------
(* Rounds.                                                                 *)

settleEpochIx(epochIndex, allowedMints, mint, keeper) ==
  LET payoutAuthority == pdas_payoutAuthority(mint) IN
  Instruction("settle_epoch", {"epoch_index", "allowed_mints"},
    [epoch_index |-> <<"u32", epochIndex>>,
     allowed_mints |-> <<"mints", allowedMints>>],
    <<ro(pdas_global), Signed(rw(keeper)), ro(pdas_coinConfig(mint)),
      ro(mint), ro(payoutAuthority), ro(WSOL_MINT),
      ro(Ata(WSOL_MINT, payoutAuthority)),
      rw(pdas_epochState(mint, epochIndex)),
      rw(pdas_allowlistState(mint, epochIndex)),
      ro(pdas_platformAllowlist), ro(SYSTEM_PROGRAM)>>)

swapPayoutIx(epochIndex, outMint, route, mint, keeper) ==
  LET payoutAuthority == pdas_payoutAuthority(mint) IN
  Instruction("swap_payout", {"_epoch_index"},
    [_epoch_index |-> <<"u32", epochIndex>>],
    <<ro(pdas_global), Signed(rw(keeper)), ro(pdas_coinConfig(mint)),
      ro(mint), ro(payoutAuthority), rw(pdas_epochState(mint, epochIndex)),
      ro(pdas_allowlistState(mint, epochIndex)),
      rw(pdas_bucketState(mint, epochIndex, outMint)), ro(outMint),
      ro(WSOL_MINT), rw(Ata(WSOL_MINT, payoutAuthority)),
      rw(Ata(outMint, payoutAuthority)), ro(JUPITER_PROGRAM),
      ro(TOKEN_PROGRAM), ro(SYSTEM_PROGRAM)>> \o route)

distributeBatchIx(epochIndex, outMint, recipients, mint, keeper) ==
  LET payoutAuthority == pdas_payoutAuthority(mint) IN
  Instruction("distribute_batch", {"_epoch_index", "recipients"},
    [_epoch_index |-> <<"u32", epochIndex>>,
     recipients |-> <<"recipients", recipients>>],
    <<ro(pdas_global), Signed(ro(keeper)), ro(mint),
      rw(pdas_epochState(mint, epochIndex)),
      rw(pdas_bucketState(mint, epochIndex, outMint)), ro(outMint),
      ro(payoutAuthority), rw(Ata(outMint, payoutAuthority)),
      ro(TOKEN_PROGRAM)>>
    \o [n \in DOMAIN recipients |-> rw(Ata(outMint, recipients[n]))])

(* The static side of the table: recipients are left out.                  *)
distributeBatchAltAddresses(mint, i, outMint) ==
  {pdas_global, mint, pdas_epochState(mint, i),
   pdas_bucketState(mint, i, outMint), outMint, pdas_payoutAuthority(mint),
   Ata(outMint, pdas_payoutAuthority(mint)), TOKEN_PROGRAM, PROGRAM_ID}

(* What a table leaves to be named in full by the transaction.             *)
Uncovered(ix, table) ==
  LET Signers == {n \in DOMAIN ix.keys : ix.keys[n].signer} IN
  ({ix.keys[n].key : n \in DOMAIN ix.keys} \cup {PROGRAM_ID})
    \ (table \cup {ix.keys[n].key : n \in Signers})

----------------------------------------------------------------------------
(* Discovery.  accounts maps addresses to what they hold: type is the      *)
(* account's discriminator, of the key that follows it.                    *)

Discovered(accounts, type, of) ==
  {a \in DOMAIN accounts : accounts[a].type = type /\ accounts[a].of = of}

allCoinConfigs(accounts) ==
  {a \in DOMAIN accounts : accounts[a].type = "CoinConfig"}

epochsForMint(accounts, mint) == Discovered(accounts, "EpochState", mint)

bucketsForEpoch(accounts, epochStatePk) ==
  Discovered(accounts, "BucketState", epochStatePk)

platformAllowlistMints(accounts) ==
  IF pdas_platformAllowlist \in DOMAIN accounts
  THEN accounts[pdas_platformAllowlist].mints ELSE {}
=============================================================================
