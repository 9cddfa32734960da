---------------------------- MODULE H2eAccounts ----------------------------
(***************************************************************************)
(* What the program (h2e/programs/h2e/src/lib.rs) demands of the accounts  *)
(* of an instruction before its handler runs: the structs that derive      *)
(* Accounts, one check for each account, in the order of the struct.       *)
(*                                                                         *)
(* An address is symbolic: what it is derived from.  Derivations are taken *)
(* to have no collisions.                                                  *)
(***************************************************************************)
EXTENDS Integers, Sequences

Key(x) == <<"key", x>>           \* an address that is not derived
Program(name) == <<"program", name>>
Pda(seeds) == <<"pda">> \o seeds
Ata(mint, owner) == <<"ata", mint, owner>>

WSOL_MINT == Program("WSOL")
DBC_POOL_AUTHORITY == Program("DBC_POOL_AUTHORITY")
DBC_EVENT_AUTHORITY == Program("DBC_EVENT_AUTHORITY")
DBC_PROGRAM == Program("DBC")
METADATA_PROGRAM == Program("METADATA")
ATA_PROGRAM == Program("ATA")
TOKEN_PROGRAM == Program("TOKEN")
SYSTEM_PROGRAM == Program("System")
CP_AMM_PROGRAM == Program("CP_AMM")
CP_AMM_POOL_AUTHORITY == Program("CP_AMM_POOL_AUTHORITY")
CP_AMM_EVENT_AUTHORITY == Program("CP_AMM_EVENT_AUTHORITY")
PROGRAM_ID == Program("H2E")

(* The seeds of the program's own addresses.                               *)
global_config == Pda(<<"global">>)
coin_config(mint) == Pda(<<"coin", mint>>)
fee_claimer == Pda(<<"fee">>)
fee_authority(mint) == Pda(<<"vault", mint>>)
payout_authority(mint) == Pda(<<"payout", mint>>)
revenue_authority == Pda(<<"revenue">>)
epoch_state(mint, i) == Pda(<<"epoch", mint, i>>)
bucket_state(mint, i, out) == Pda(<<"bucket", mint, i, out>>)
allowlist_state(mint, i) == Pda(<<"allow", mint, i>>)
platform_allowlist == Pda(<<"allowlist">>)
denylist_state == Pda(<<"denylist">>)

----------------------------------------------------------------------------
(* The check of one account: who must sign, what is written, which address *)
(* it must have (none given: any), and whether an account must be there.   *)

UncheckedAccount == [signer |-> FALSE, mut |-> FALSE, at |-> {}, there |-> "any"]
Address(x) == [UncheckedAccount EXCEPT !.at = {x}]
Account(x) == [Address(x) EXCEPT !.there = "yes"]
Mut(check) == [check EXCEPT !.mut = TRUE]
Created(x) == Mut([Address(x) EXCEPT !.there = "no"])
Signer == [UncheckedAccount EXCEPT !.signer = TRUE]
Is(role) == [Signer EXCEPT !.at = {role}]   \* has_one of GlobalConfig

Checked(check, meta, there) ==
  /\ check.signer => meta.signer
  /\ check.mut => meta.writable
  /\ check.at # {} => meta.key \in check.at
  /\ check.there = "yes" => meta.key \in there
  /\ check.there = "no" => meta.key \notin there

(* The accounts an instruction gives to a struct; those after are the      *)
(* remaining accounts.  The runtime has checked that signers signed.       *)
Validates(struct, keys, there) ==
  /\ Len(struct) <= Len(keys)
  /\ \A n \in DOMAIN struct : Checked(struct[n], keys[n], there)

----------------------------------------------------------------------------
(* The structs.  k[n] is the address of the n-th account, g the global     *)
(* configuration, i the epoch of the instruction's data.                   *)

InitializeGlobal(upgrade_authority) ==
  <<Mut(Is(upgrade_authority)), Created(global_config), Address(PROGRAM_ID),
    Address(<<"programdata", PROGRAM_ID>>), Address(SYSTEM_PROGRAM)>>

LaunchCoin(k) ==
  <<Mut(Signer), Mut(Signer), Account(global_config),
    Account(platform_allowlist), UncheckedAccount,
    Address(DBC_POOL_AUTHORITY), Address(WSOL_MINT),
    Mut(UncheckedAccount), Mut(UncheckedAccount), Mut(UncheckedAccount),
    Mut(UncheckedAccount), Address(METADATA_PROGRAM),
    Mut(UncheckedAccount), Mut(UncheckedAccount),
    Created(coin_config(k[2])), Mut(UncheckedAccount),
    Address(TOKEN_PROGRAM), Address(TOKEN_PROGRAM), Address(ATA_PROGRAM),
    Address(DBC_EVENT_AUTHORITY), Address(DBC_PROGRAM),
    Address(SYSTEM_PROGRAM)>>

(* Bug: has_one is missing.                                                *)
AdminUnbound(g) == <<Mut(Account(global_config)), Signer>>

AdminOnly(g) == <<Mut(Account(global_config)), Is(g.admin)>>

InitDenylist(g) ==
  <<Account(global_config), Mut(Is(g.admin)), Created(denylist_state),
    Address(SYSTEM_PROGRAM)>>

SetDenylist(g) ==
  <<Account(global_config), Is(g.admin), Mut(Account(denylist_state))>>

InitPlatformAllowlist(g) ==
  <<Account(global_config), Mut(Is(g.admin)), Created(platform_allowlist),
    Address(SYSTEM_PROGRAM)>>

SetPlatformAllowlist(g) ==
  <<Account(global_config), Is(g.admin), Mut(Account(platform_allowlist))>>

(* The coin's address is derived from the mint that the account holds.     *)
RetireCoin(g, mint) ==
  <<Account(global_config), Is(g.admin), Mut(Account(coin_config(mint)))>>

SetGraduation(g, mint) == RetireCoin(g, mint)

ClaimAndSweep(k) ==
  LET mint == k[4]
      AtaOf(m, owner) == Mut(Account(Ata(m, owner))) IN
  <<Signer, Account(global_config), Mut(Account(coin_config(mint))),
    UncheckedAccount, Address(WSOL_MINT), Address(fee_claimer),
    Address(fee_authority(mint)), AtaOf(WSOL_MINT, fee_authority(mint)),
    AtaOf(mint, fee_authority(mint)), Address(payout_authority(mint)),
    AtaOf(WSOL_MINT, payout_authority(mint)), Address(revenue_authority),
    AtaOf(WSOL_MINT, revenue_authority), UncheckedAccount,
    AtaOf(WSOL_MINT, k[14]), UncheckedAccount, Address(DBC_POOL_AUTHORITY),
    Mut(UncheckedAccount), Mut(UncheckedAccount), Mut(UncheckedAccount),
    Address(DBC_EVENT_AUTHORITY), Address(DBC_PROGRAM),
    Address(TOKEN_PROGRAM)>>

SyncGraduation(k) ==
  <<Signer, Mut(Account(coin_config(k[3]))), UncheckedAccount,
    Address(fee_claimer), UncheckedAccount, UncheckedAccount,
    UncheckedAccount, UncheckedAccount>>

SettleEpoch(k, g, i) ==
  LET mint == k[4] IN
  <<Account(global_config), Mut(Is(g.keeper)), Account(coin_config(mint)),
    UncheckedAccount, Address(payout_authority(mint)), Address(WSOL_MINT),
    Account(Ata(WSOL_MINT, payout_authority(mint))),
    Created(epoch_state(mint, i)), Created(allowlist_state(mint, i)),
    Account(platform_allowlist), Address(SYSTEM_PROGRAM)>>

(* JUPITER_PROGRAM is the stub's, or Jupiter's, by the build.              *)
SwapPayout(k, g, i, JUPITER_PROGRAM) ==
  LET mint == k[4] IN
  <<Account(global_config), Mut(Is(g.keeper)), Account(coin_config(mint)),
    UncheckedAccount, Address(payout_authority(mint)),
    Mut(Account(epoch_state(mint, i))), Account(allowlist_state(mint, i)),
    Created(bucket_state(mint, i, k[9])), UncheckedAccount, Address(WSOL_MINT),
    Mut(Account(Ata(WSOL_MINT, payout_authority(mint)))),
    Mut(Account(Ata(k[9], payout_authority(mint)))),
    Address(JUPITER_PROGRAM), Address(TOKEN_PROGRAM),
    Address(SYSTEM_PROGRAM)>>

DistributeBatch(k, g, i) ==
  LET mint == k[3] IN
  <<Account(global_config), Is(g.keeper), UncheckedAccount,
    Mut(Account(epoch_state(mint, i))),
    Mut(Account(bucket_state(mint, i, k[6]))), UncheckedAccount,
    Address(payout_authority(mint)),
    Mut(Account(Ata(k[6], payout_authority(mint)))), Address(TOKEN_PROGRAM)>>
=============================================================================
