--------------------------- MODULE SessionProofs ---------------------------
(***************************************************************************)
(* Proofs about module Session: whatever is in flight, and in whatever     *)
(* order it lands, GlobalConfig changes only by what the admin of the      *)
(* moment has signed, and to what that sender wanted (AdminMeantCorrect);  *)
(* and what an encoder builds from accounts that are still so when it      *)
(* lands, the program's checks accept, but for a swap where the program is *)
(* pinned to another venue than the client (AcceptedCorrect); for all      *)
(* people, mints, coins, venues and any number of transactions.            *)
(***************************************************************************)
EXTENDS Session, SequenceTheorems, TLAPS

(* The instructions whose handlers write to GlobalConfig.                  *)
Changers == Setters \cup {"initialize_global"}

LEMMA AtasAreNot ==
  ASSUME NEW mint, NEW owner
  PROVE  Ata(mint, owner) # global_config
<1>1. <<"pda">> \in Seq({"pda", "global"}) /\ <<"global">> \in Seq({"pda", "global"})
  OBVIOUS
<1>2. global_config[1] = "pda"
  BY <1>1, ConcatProperties DEF global_config, Pda
<1>3. Ata(mint, owner)[1] = "ata"
  BY DEF Ata
<1> QED
  BY <1>2, <1>3

LEMMA InstructionFields ==
  ASSUME NEW name, NEW fields, NEW args, NEW keys
  PROVE  /\ Instruction(name, fields, args, keys).name = name
         /\ Instruction(name, fields, args, keys).data = encode(fields, args)
         /\ Instruction(name, fields, args, keys).keys = keys
         /\ Instruction(name, fields, args, keys).throws <=>
              ~encodeChecked(name, args, encode(fields, args))
<1> DEFINE throws == ~encodeChecked(name, args, encode(fields, args))
<1>1. Instruction(name, fields, args, keys) =
        [name |-> name, data |-> encode(fields, args), keys |-> keys,
         throws |-> throws]
  BY DEF Instruction
<1> HIDE DEF throws
<1>2. Instruction(name, fields, args, keys).throws = throws
  BY <1>1
<1>3. Instruction(name, fields, args, keys).throws <=> throws
  BY <1>2, Zenon
<1> QED
  BY <1>1, <1>3 DEF throws

LEMMA TransactionFields ==
  ASSUME NEW ix, NEW signers, NEW creates, NEW closes, NEW means
  PROVE  /\ Transaction(ix, signers, creates, closes, means).ix = ix
         /\ Transaction(ix, signers, creates, closes, means).creates = creates
         /\ Transaction(ix, signers, creates, closes, means).closes = closes
         /\ Transaction(ix, signers, creates, closes, means).means = means
  BY DEF Transaction

(* What an encoder is given by name is what it writes.                     *)
LEMMA Encodes ==
  ASSUME NEW fields, NEW args, DOMAIN args = fields,
         args = [f \in fields |-> args[f]]
  PROVE  encode(fields, args) = args
  BY DEF encode

----------------------------------------------------------------------------
(* A transaction in flight: an instruction that changes GlobalConfig says  *)
(* what its sender meant, and none creates or closes that account          *)
(* otherwise.                                                              *)
SaysWhatItMeans(ix, means) ==
  ix.name \in Changers =>
    /\ Settings(ix) = means
    /\ {1, 2} \subseteq DOMAIN ix.keys
    /\ "admin" \in DOMAIN means => means.admin \in Keys
    /\ ix.name = "initialize_global" => "admin" \in DOMAIN means

FlightOK(t) ==
  /\ global_config \notin t.creates
  /\ global_config \notin t.closes
  /\ SaysWhatItMeans(t.ix, t.means)

Sends == \E t : Submit(t) /\ FlightOK(t)

LEMMA OthersSend ==
  ASSUME NEW ix, NEW signers, NEW creates, NEW closes, NEW means,
         SaysWhatItMeans(ix, means),
         global_config \notin creates, global_config \notin closes,
         Submit(Transaction(ix, signers, creates, closes, means))
  PROVE  Sends
<1>1. FlightOK(Transaction(ix, signers, creates, closes, means))
  BY TransactionFields DEF FlightOK
<1> QED
  BY <1>1 DEF Sends

(* The setters.                                                            *)
LEMMA SettersSay ==
  ASSUME NEW x, NEW y, NEW admin
  PROVE  /\ SaysWhatItMeans(setKeeperIx(x, admin), [keeper |-> x])
         /\ x \in Keys => SaysWhatItMeans(setAdminIx(x, admin), [admin |-> x])
         /\ SaysWhatItMeans(setPlatformWalletIx(x, admin), [platform_wallet |-> x])
         /\ SaysWhatItMeans(setPlatformConfigKeyIx(x, admin),
                            [platform_config_key |-> x])
         /\ SaysWhatItMeans(setUsdcMintIx(x, admin), [usdc_mint |-> x])
         /\ SaysWhatItMeans(setH2eMintIx(x, y, admin), [h2e_mint |-> x])
         /\ SaysWhatItMeans(pauseIx(x, y, admin), [paused |-> x, pause_launches |-> y])
<1>1. {1, 2} \subseteq DOMAIN adminKeys(admin)
  BY DEF adminKeys
<1>2. SaysWhatItMeans(setKeeperIx(x, admin), [keeper |-> x])
  BY <1>1, InstructionFields DEF setKeeperIx, SaysWhatItMeans, Settings, encode
<1>3. x \in Keys => SaysWhatItMeans(setAdminIx(x, admin), [admin |-> x])
  BY <1>1, InstructionFields DEF setAdminIx, SaysWhatItMeans, Settings, encode
<1>4. SaysWhatItMeans(setPlatformWalletIx(x, admin), [platform_wallet |-> x])
  BY <1>1, InstructionFields
     DEF setPlatformWalletIx, SaysWhatItMeans, Settings, encode
<1>5. SaysWhatItMeans(setPlatformConfigKeyIx(x, admin), [platform_config_key |-> x])
  BY <1>1, InstructionFields
     DEF setPlatformConfigKeyIx, SaysWhatItMeans, Settings, encode
<1>6. SaysWhatItMeans(setUsdcMintIx(x, admin), [usdc_mint |-> x])
  BY <1>1, InstructionFields DEF setUsdcMintIx, SaysWhatItMeans, Settings, encode
<1>7. SaysWhatItMeans(setH2eMintIx(x, y, admin), [h2e_mint |-> x])
  BY <1>1, InstructionFields DEF setH2eMintIx, SaysWhatItMeans, Settings, encode
<1>8. SaysWhatItMeans(pauseIx(x, y, admin), [paused |-> x, pause_launches |-> y])
  BY <1>1, InstructionFields DEF pauseIx, SaysWhatItMeans, Settings, encode
<1> QED
  BY <1>2, <1>3, <1>4, <1>5, <1>6, <1>7, <1>8

(* An encoder of a struct checks that it was given all fields by name.     *)
LEMMA SetParamsSay ==
  ASSUME NEW args, NEW admin, ~setParamsIx(args, admin).throws,
         args = [f \in DOMAIN args |-> args[f]]
  PROVE  SaysWhatItMeans(setParamsIx(args, admin), args)
<1> DEFINE fields == {"h2e_bps", "usdc_mint"}
<1>1. /\ setParamsIx(args, admin).name = "set_params"
      /\ setParamsIx(args, admin).data = encode(fields, args)
      /\ setParamsIx(args, admin).keys = adminKeys(admin)
      /\ encodeChecked("set_params", args, encode(fields, args))
  <2> HIDE DEF fields
  <2>1. setParamsIx(args, admin) = Instruction("set_params", fields, args, adminKeys(admin))
    BY DEF setParamsIx, fields
  <2> QED
    BY <2>1, InstructionFields
<1>2. DOMAIN args = fields
  BY <1>1 DEF encodeChecked, Structs, encode
<1>3. encode(fields, args) = args
  BY <1>2, Encodes
<1>4. {1, 2} \subseteq DOMAIN adminKeys(admin)
  BY DEF adminKeys
<1>5. Settings(setParamsIx(args, admin)) = args
  BY <1>1, <1>3 DEF Settings
<1> QED
  BY <1>1, <1>2, <1>4, <1>5 DEF SaysWhatItMeans

LEMMA InitializeSays ==
  ASSUME ~initializeGlobalIx(FirstConfig, Key(Deployer)).throws
  PROVE  SaysWhatItMeans(initializeGlobalIx(FirstConfig, Key(Deployer)), FirstConfig)
<1> DEFINE ix == initializeGlobalIx(FirstConfig, Key(Deployer))
           fields == {"admin", "keeper", "platform_wallet", "platform_config_key",
                      "usdc_mint", "h2e_bps", "paused", "pause_launches"}
<1>1. /\ ix.name = "initialize_global"
      /\ ix.data = encode(fields, FirstConfig)
      /\ {1, 2} \subseteq DOMAIN ix.keys
  BY InstructionFields DEF initializeGlobalIx
<1>2. /\ DOMAIN FirstConfig = fields
      /\ FirstConfig = [f \in fields |-> FirstConfig[f]]
      /\ FirstConfig.admin = Key(Deployer)
  BY DEF FirstConfig
<1>3. encode(fields, FirstConfig) = FirstConfig
  BY <1>2, Encodes
<1>4. Key(Deployer) \in Keys
  BY SessionAssumption DEF Keys
<1> HIDE DEF ix
<1>5. Settings(ix) = FirstConfig
  BY <1>1, <1>3 DEF Settings
<1> QED
  BY <1>1, <1>2, <1>4, <1>5 DEF SaysWhatItMeans, ix

----------------------------------------------------------------------------
(* What every sender submits says what it means.                           *)
LEMMA ConfigureSends ==
  ASSUME NEW ix, NEW means, Configure(ix, means),
         ~ix.throws => SaysWhatItMeans(ix, means)
  PROVE  Sends
<1>1. Submit(Transaction(ix, {config.admin}, {}, {}, means))
  BY DEF Configure
<1>2. ~ix.throws
  BY <1>1, TransactionFields DEF Submit
<1> QED
  BY <1>1, <1>2, OthersSend

LEMMA OtherSays ==
  ASSUME NEW ix, NEW means, ix.name \notin Changers
  PROVE  SaysWhatItMeans(ix, means)
  BY DEF SaysWhatItMeans

LEMMA SettersSent ==
  \/ InitializeGlobalSent \/ SetParamsSent \/ SetKeeperSent \/ SetAdminSent
  \/ SetPlatformWalletSent \/ SetPlatformConfigKeySent \/ SetUsdcMintSent
  \/ SetH2eMintSent \/ PauseSent
  => Sends
<1>1. ASSUME InitializeGlobalSent PROVE Sends
  <2> DEFINE ix == initializeGlobalIx(FirstConfig, Key(Deployer))
  <2>1. Submit(Transaction(ix, {Key(Deployer)}, {}, {}, FirstConfig))
    BY <1>1 DEF InitializeGlobalSent
  <2>2. ~ix.throws
    BY <2>1, TransactionFields DEF Submit
  <2> QED
    BY <2>1, <2>2, InitializeSays, OthersSend
<1>2. ASSUME SetParamsSent PROVE Sends
  <2>1. PICK bps \in Bps, mint \in Mints, named \in {"h2e_bps", "h2eBps"} :
          LET means == [h2e_bps |-> bps, usdc_mint |-> mint]
              args == IF named = "h2e_bps" THEN means
                      ELSE [h2eBps |-> bps, usdc_mint |-> mint]
          IN  Configure(setParamsIx(args, config.admin), means)
    BY <1>2 DEF SetParamsSent
  <2> DEFINE means == [h2e_bps |-> bps, usdc_mint |-> mint]
             other == [h2eBps |-> bps, usdc_mint |-> mint]
  <2>2. CASE named = "h2e_bps"
    <3>1. Configure(setParamsIx(means, config.admin), means)
      BY <2>1, <2>2
    <3>2. means = [f \in DOMAIN means |-> means[f]]
      OBVIOUS
    <3> HIDE DEF means
    <3> QED
      BY <3>1, <3>2, SetParamsSay, ConfigureSends
  <2>3. CASE named = "h2eBps"
    <3>1. Configure(setParamsIx(other, config.admin), means)
      BY <2>1, <2>3
    <3>2. DOMAIN other # {"h2e_bps", "usdc_mint"}
      <4>1. "h2eBps" \in DOMAIN other
        OBVIOUS
      <4> QED
        BY <4>1
    <3> HIDE DEF other, means
    <3>3. setParamsIx(other, config.admin).throws
      <4> DEFINE fields == {"h2e_bps", "usdc_mint"}
      <4>1. ~encodeChecked("set_params", other, encode(fields, other))
        BY <3>2 DEF encodeChecked, Structs, encode
      <4>2. setParamsIx(other, config.admin) =
              Instruction("set_params", fields, other, adminKeys(config.admin))
        BY DEF setParamsIx
      <4> HIDE DEF fields
      <4> QED
        BY <4>1, <4>2, InstructionFields
    <3> QED
      BY <3>1, <3>3, ConfigureSends
  <2> QED
    BY <2>2, <2>3
<1>3. ASSUME SetKeeperSent PROVE Sends
  BY <1>3, SettersSay, ConfigureSends DEF SetKeeperSent
<1>4. ASSUME SetAdminSent PROVE Sends
  BY <1>4, SettersSay, ConfigureSends DEF SetAdminSent
<1>5. ASSUME SetPlatformWalletSent PROVE Sends
  BY <1>5, SettersSay, ConfigureSends DEF SetPlatformWalletSent
<1>6. ASSUME SetPlatformConfigKeySent PROVE Sends
  BY <1>6, SettersSay, ConfigureSends DEF SetPlatformConfigKeySent
<1>7. ASSUME SetUsdcMintSent PROVE Sends
  BY <1>7, SettersSay, ConfigureSends DEF SetUsdcMintSent
<1>8. ASSUME SetH2eMintSent PROVE Sends
  BY <1>8, SettersSay, ConfigureSends DEF SetH2eMintSent
<1>9. ASSUME PauseSent PROVE Sends
  BY <1>9, SettersSay, ConfigureSends DEF PauseSent
<1> QED
  BY <1>1, <1>2, <1>3, <1>4, <1>5, <1>6, <1>7, <1>8, <1>9

(* The instructions that leave GlobalConfig alone.                         *)
LEMMA OtherNames ==
  ASSUME NEW x, NEW y, NEW z, NEW u, NEW v
  PROVE  /\ initDenylistIx(x).name \notin Changers
         /\ setDenylistIx(x, y, z, u).name \notin Changers
         /\ initPlatformAllowlistIx(x).name \notin Changers
         /\ setPlatformAllowlistIx(x, y, z).name \notin Changers
         /\ retireCoinIx(x, y).name \notin Changers
         /\ setGraduationIx(x, y, z, u, v).name \notin Changers
         /\ launchCoinIx(x, y).name \notin Changers
         /\ claimAndSweepIx(x, y).name \notin Changers
         /\ syncGraduationIx(x, y, z).name \notin Changers
         /\ settleEpochIx(x, y, z, u).name \notin Changers
         /\ swapPayoutIx(x, y, z, u, v).name \notin Changers
         /\ distributeBatchIx(x, y, z, u, v).name \notin Changers
  BY InstructionFields
     DEF initDenylistIx, setDenylistIx, initPlatformAllowlistIx,
         setPlatformAllowlistIx, retireCoinIx, setGraduationIx, launchCoinIx,
         claimAndSweepIx, syncGraduationIx, settleEpochIx, swapPayoutIx,
         distributeBatchIx, Changers, Setters

LEMMA AtaSets ==
  ASSUME NEW x, NEW y
  PROVE  /\ global_config \notin wrapSolIxs(x)
         /\ global_config \notin closeWsolIx(x)
         /\ global_config \notin sweepAtaIxs(x, y)
         /\ global_config \notin {Ata(x, y)}
  BY AtasAreNot DEF wrapSolIxs, closeWsolIx, sweepAtaIxs, sweepAtas

LEMMA OthersSent ==
  \/ InitDenylistSent \/ SetDenylistSent
  \/ InitPlatformAllowlistSent \/ SetPlatformAllowlistSent \/ RetireCoinSent
  \/ SetGraduationSent \/ LaunchSent \/ ClaimAndSweepSent
  \/ SyncGraduationSent \/ SettleEpochSent \/ SwapPayoutSent
  \/ DistributeBatchSent
  => Sends
<1>1. ASSUME NEW ix, NEW signer, Send(ix, signer), ix.name \notin Changers
      PROVE  Sends
  BY <1>1, OtherSays, OthersSend DEF Send
<1>2. ASSUME NEW ix, NEW means, Configure(ix, means), ix.name \notin Changers
      PROVE  Sends
  BY <1>2, OtherSays, ConfigureSends
<1>3. ASSUME InitDenylistSent PROVE Sends
  BY <1>2, <1>3, OtherNames DEF InitDenylistSent
<1>4. ASSUME SetDenylistSent PROVE Sends
  BY <1>2, <1>4, OtherNames DEF SetDenylistSent
<1>5. ASSUME InitPlatformAllowlistSent PROVE Sends
  BY <1>2, <1>5, OtherNames DEF InitPlatformAllowlistSent
<1>6. ASSUME SetPlatformAllowlistSent PROVE Sends
  BY <1>2, <1>6, OtherNames DEF SetPlatformAllowlistSent
<1>7. ASSUME RetireCoinSent PROVE Sends
  BY <1>2, <1>7, OtherNames DEF RetireCoinSent
<1>8. ASSUME SetGraduationSent PROVE Sends
  BY <1>2, <1>8, OtherNames DEF SetGraduationSent
<1>9. ASSUME LaunchSent PROVE Sends
  BY <1>9, OtherNames, AtaSets, OtherSays, OthersSend DEF LaunchSent
<1>10. ASSUME ClaimAndSweepSent PROVE Sends
  BY <1>10, OtherNames, AtaSets, OtherSays, OthersSend DEF ClaimAndSweepSent
<1>11. ASSUME SyncGraduationSent PROVE Sends
  BY <1>1, <1>11, OtherNames DEF SyncGraduationSent
<1>12. ASSUME SettleEpochSent PROVE Sends
  BY <1>1, <1>12, OtherNames DEF SettleEpochSent
<1>13. ASSUME SwapPayoutSent PROVE Sends
  BY <1>13, OtherNames, AtaSets, OtherSays, OthersSend DEF SwapPayoutSent
<1>14. ASSUME DistributeBatchSent PROVE Sends
  BY <1>1, <1>14, OtherNames DEF DistributeBatchSent
<1> QED
  BY <1>3, <1>4, <1>5, <1>6, <1>7, <1>8, <1>9, <1>10, <1>11, <1>12, <1>13, <1>14

----------------------------------------------------------------------------
(* GlobalConfig is written when, and only when, there is such an account,  *)
(* and from then on has an admin.                                          *)
ConfigOK ==
  /\ DOMAIN config = DOMAIN NoConfig
  /\ config = [f \in DOMAIN config |-> config[f]]

Initialised ==
  IF global_config \in DOMAIN accounts THEN config.admin \in Keys
  ELSE config = NoConfig

FlightsOK == \A t \in flight : FlightOK(t)

Inv == ConfigOK /\ Initialised /\ FlightsOK

LEMMA AdminIsSomebody ==
  ASSUME NEW k \in Keys
  PROVE  k # Zero
<1>1. PICK p \in People : k = <<"key", p>>
  BY DEF Keys, Key
<1>2. k[1] = "key" /\ Zero[1] = "zero"
  BY <1>1 DEF Zero
<1> QED
  BY <1>2

LEMMA CreateDomain ==
  ASSUME NEW acc, NEW atas
  PROVE  DOMAIN CreateAtas(acc, atas) = DOMAIN acc \cup atas
  BY DEF CreateAtas

LEMMA NoConfigFacts ==
  /\ "admin" \in DOMAIN NoConfig
  /\ NoConfig.admin = Zero
  /\ NoConfig = [f \in DOMAIN NoConfig |-> NoConfig[f]]
  BY DEF NoConfig

LEMMA FirstConfigAdmin ==
  "admin" \in DOMAIN FirstConfig /\ FirstConfig.admin \in Keys
  BY SessionAssumption DEF FirstConfig, Keys

LEMMA Overrides ==
  ASSUME NEW m, ConfigOK
  PROVE  /\ DOMAIN Override(config, m) = DOMAIN NoConfig
         /\ Override(config, m) = [f \in DOMAIN NoConfig |-> Override(config, m)[f]]
         /\ Override(config, m).admin =
              IF "admin" \in DOMAIN m THEN m.admin ELSE config.admin
  BY NoConfigFacts DEF ConfigOK, Override

LEMMA InitCorrect == Init => Inv
<1> SUFFICES ASSUME Init PROVE Inv
  OBVIOUS
<1>1. PICK stage \in Outset :
        /\ accounts = FirstAccounts(stage)
        /\ config = IF stage = 0 THEN NoConfig ELSE Override(NoConfig, FirstConfig)
  BY DEF Init
<1>2. stage \in 0 .. 4
  BY SessionAssumption
<1>3. FlightsOK
  BY DEF Init, FlightsOK
<1>4. CASE stage = 0
  <2>1. DOMAIN accounts = {}
    BY <1>1, <1>4 DEF FirstAccounts
  <2> QED
    BY <1>1, <1>3, <1>4, <2>1, NoConfigFacts DEF Inv, ConfigOK, Initialised
<1>5. CASE stage # 0
  <2>1. global_config \in DOMAIN accounts
    <3> DEFINE coin == Mint(CHOOSE c \in Coins : TRUE)
               wallet == Key(Deployer)
               key == FirstConfig.platform_config_key
               none == [a \in {} |-> TokenAccount]
               ready == Put(Put(none, global_config, GlobalConfig),
                            platform_allowlist, PlatformAllowlist({WSOL_MINT}))
               swept == CreateAtas(Put(ready, coin_config(coin),
                          CoinConfig(coin, Pool(coin, key), "bonding")),
                          sweepAtaIxs(coin, wallet))
               settled == Put(Put(swept, epoch_state(coin, 0), EpochState(coin, 0)),
                              allowlist_state(coin, 0), AllowlistState(coin, Mints))
               swapped == Put(settled, bucket_state(coin, 0, WSOL_MINT),
                              BucketState(epoch_state(coin, 0), WSOL_MINT))
    <3>1. global_config \in DOMAIN ready
      BY DEF Put
    <3> HIDE DEF ready
    <3>2. global_config \in DOMAIN swept
      BY <3>1 DEF Put, CreateAtas
    <3> HIDE DEF swept
    <3>3. global_config \in DOMAIN settled
      BY <3>2 DEF Put
    <3> HIDE DEF settled
    <3>4. global_config \in DOMAIN swapped
      BY <3>3 DEF Put
    <3>5. FirstAccounts(stage) = IF stage = 1 THEN ready ELSE IF stage = 2 THEN swept
                                 ELSE IF stage = 3 THEN settled ELSE swapped
      BY <1>2, <1>5 DEF FirstAccounts, ready, swept, settled
    <3> HIDE DEF swapped
    <3> QED
      BY <1>1, <3>1, <3>2, <3>3, <3>4, <3>5
  <2>2. config = Override(NoConfig, FirstConfig)
    BY <1>1, <1>5
  <2>3. ConfigOK
    BY <2>2 DEF ConfigOK, Override
  <2>4. config.admin \in Keys
    BY <2>2, NoConfigFacts, FirstConfigAdmin DEF Override
  <2> QED
    BY <1>3, <2>1, <2>3, <2>4 DEF Inv, Initialised
<1> QED
  BY <1>4, <1>5

----------------------------------------------------------------------------
(* What a check of the structs establishes.                                *)
LEMMA ChecksGlobal ==
  ASSUME NEW struct, NEW keys, NEW there, Validates(struct, keys, there),
         NEW n \in DOMAIN struct,
         struct[n] \in {Account(global_config), Mut(Account(global_config))}
  PROVE  global_config \in there
<1>1. struct[n].at = {global_config} /\ struct[n].there = "yes"
  BY DEF Account, Address, Mut, UncheckedAccount
<1>2. Checked(struct[n], keys[n], there)
  BY DEF Validates
<1> QED
  BY <1>1, <1>2 DEF Checked

LEMMA ChecksSigner ==
  ASSUME NEW ix, NEW signers, SignersSigned(ix, signers),
         NEW struct, NEW there, Validates(struct, ix.keys, there),
         NEW n \in DOMAIN struct, n \in DOMAIN ix.keys,
         NEW role, struct[n] \in {Is(role), Mut(Is(role))}
  PROVE  role \in signers
<1>1. struct[n].at = {role} /\ struct[n].signer
  BY DEF Is, Signer, Mut, UncheckedAccount
<1>2. Checked(struct[n], ix.keys[n], there)
  BY DEF Validates
<1>3. ix.keys[n].signer /\ ix.keys[n].key = role
  BY <1>1, <1>2 DEF Checked
<1> QED
  BY <1>3 DEF SignersSigned

(* The instructions that create accounts read GlobalConfig, all but the    *)
(* one that creates it.                                                    *)
Creators == {"init_denylist", "set_denylist", "init_platform_allowlist",
             "set_platform_allowlist", "launch_coin", "settle_epoch",
             "swap_payout"}

LEMMA NeedsGlobal ==
  ASSUME NEW ix, NEW g, NEW acc, NEW pinned, ix.name \in Creators \cup Setters,
         Validates(Struct(ix, g, acc, pinned), ix.keys, DOMAIN acc)
  PROVE  global_config \in DOMAIN acc
<1> DEFINE struct == Struct(ix, g, acc, pinned)
           k == Given(ix)
           Reads(n) == /\ n \in DOMAIN struct
                       /\ struct[n] \in {Account(global_config),
                                         Mut(Account(global_config))}
<1> SUFFICES \E n : Reads(n)
  BY ChecksGlobal
<1>1. CASE ix.name \in Setters
  <2>1. struct = AdminOnly(g)
    BY <1>1 DEF Struct, Setters
  <2> QED
    BY <2>1 DEF AdminOnly
<1>2. CASE ix.name = "init_denylist"
  <2>1. struct = InitDenylist(g)
    BY <1>2 DEF Struct, Setters
  <2> QED
    BY <2>1 DEF InitDenylist
<1>3. CASE ix.name = "set_denylist"
  <2>1. struct = SetDenylist(g)
    BY <1>3 DEF Struct, Setters
  <2> QED
    BY <2>1 DEF SetDenylist
<1>4. CASE ix.name = "init_platform_allowlist"
  <2>1. struct = InitPlatformAllowlist(g)
    BY <1>4 DEF Struct, Setters
  <2> QED
    BY <2>1 DEF InitPlatformAllowlist
<1>5. CASE ix.name = "set_platform_allowlist"
  <2>1. struct = SetPlatformAllowlist(g)
    BY <1>5 DEF Struct, Setters
  <2> QED
    BY <2>1 DEF SetPlatformAllowlist
<1>6. CASE ix.name = "launch_coin"
  <2>1. struct = LaunchCoin(k)
    BY <1>6 DEF Struct, Setters
  <2>2. 3 \in DOMAIN struct /\ struct[3] = Account(global_config)
    BY <2>1 DEF LaunchCoin
  <2> QED
    BY <2>2
<1>7. CASE ix.name = "settle_epoch"
  <2>1. struct = SettleEpoch(k, g, EpochOf(ix))
    BY <1>7 DEF Struct, Setters
  <2>2. 1 \in DOMAIN struct /\ struct[1] = Account(global_config)
    BY <2>1 DEF SettleEpoch
  <2> QED
    BY <2>2
<1>8. CASE ix.name = "swap_payout"
  <2>1. struct = SwapPayout(k, g, EpochOf(ix), pinned)
    BY <1>8 DEF Struct, Setters
  <2>2. 1 \in DOMAIN struct /\ struct[1] = Account(global_config)
    BY <2>1 DEF SwapPayout
  <2> QED
    BY <2>2
<1> QED
  BY <1>1, <1>2, <1>3, <1>4, <1>5, <1>6, <1>7, <1>8 DEF Creators

LEMMA WritesDomain ==
  ASSUME NEW ix, NEW acc
  PROVE  /\ DOMAIN acc \subseteq DOMAIN Writes(ix, acc)
         /\ ix.name \notin Creators \cup {"initialize_global"} =>
              DOMAIN Writes(ix, acc) = DOMAIN acc
         /\ ix.name = "initialize_global" =>
              DOMAIN Writes(ix, acc) = DOMAIN acc \cup {Given(ix)[2]}
<1> DEFINE k == Given(ix)
           d == ix.data
<1>1. CASE ix.name = "initialize_global"
  <2>1. Writes(ix, acc) = Put(acc, k[2], GlobalConfig)
    BY <1>1 DEF Writes
  <2>2. DOMAIN Writes(ix, acc) = DOMAIN acc \cup {k[2]}
    BY <2>1 DEF Put
  <2> QED
    BY <1>1, <2>2 DEF Creators
<1>2. CASE ix.name \in Creators
  <2>1. ASSUME ix.name # "settle_epoch"
        PROVE  \E address, held : Writes(ix, acc) = Put(acc, address, held)
    <3>1. CASE ix.name = "init_denylist"
      BY <3>1 DEF Writes
    <3>2. CASE ix.name = "set_denylist"
      BY <3>2 DEF Writes
    <3>3. CASE ix.name = "init_platform_allowlist"
      BY <3>3 DEF Writes
    <3>4. CASE ix.name = "set_platform_allowlist"
      BY <3>4 DEF Writes
    <3>5. CASE ix.name = "launch_coin"
      BY <3>5 DEF Writes
    <3>6. CASE ix.name = "swap_payout"
      BY <3>6 DEF Writes
    <3> QED
      BY <1>2, <2>1, <3>1, <3>2, <3>3, <3>4, <3>5, <3>6 DEF Creators
  <2>2. DOMAIN acc \subseteq DOMAIN Writes(ix, acc)
    <3>1. CASE ix.name # "settle_epoch"
      <4>1. PICK address, held : Writes(ix, acc) = Put(acc, address, held)
        BY <2>1, <3>1
      <4> QED
        BY <4>1 DEF Put
    <3>2. CASE ix.name = "settle_epoch"
      <4>1. \E x, y, p, q : Writes(ix, acc) = Put(Put(acc, x, y), p, q)
        BY <3>2 DEF Writes
      <4> QED
        BY <4>1 DEF Put
    <3> QED
      BY <3>1, <3>2
  <2> QED
    BY <1>2, <2>2 DEF Creators
<1>3. CASE ix.name \notin Creators \cup {"initialize_global"}
  <2>1. CASE ix.name = "retire_coin"
    <3>1. Writes(ix, acc) = [acc EXCEPT ![k[3]].status = "retired"]
      BY <2>1 DEF Writes
    <3> QED
      BY <1>3, <3>1
  <2>2. CASE ix.name = "set_graduation"
    <3>1. Writes(ix, acc) =
            [acc EXCEPT ![k[3]].status = norm(d.status)[2],
                        ![k[3]].damm_pool = d.damm_pool,
                        ![k[3]].locked_position = d.locked_position]
      BY <2>2 DEF Writes
    <3> QED
      BY <1>3, <3>1
  <2>3. CASE ix.name = "sync_graduation"
    <3>1. Writes(ix, acc) =
            [acc EXCEPT ![k[2]].status = "graduated",
                        ![k[2]].damm_pool = k[6],
                        ![k[2]].locked_position = k[7]]
      BY <2>3 DEF Writes
    <3> QED
      BY <1>3, <3>1
  <2>4. CASE ix.name \notin {"retire_coin", "set_graduation", "sync_graduation"}
    <3>1. Writes(ix, acc) = acc
      BY <1>3, <2>4 DEF Writes, Creators
    <3> QED
      BY <1>3, <3>1
  <2> QED
    BY <2>1, <2>2, <2>3, <2>4
<1> QED
  BY <1>1, <1>2, <1>3 DEF Creators

(* A transaction that lands: it initialises GlobalConfig, as the deployer, *)
(* or is the admin's, or leaves it alone.                                  *)
LEMMA Lands ==
  ASSUME Inv, NEW t \in flight, Land(t)
  PROVE  \/ /\ t.ix.name = "initialize_global"
            /\ global_config \notin DOMAIN accounts
            /\ global_config \in DOMAIN accounts'
            /\ Key(Deployer) \in t.signers
            /\ config' = Override(config, t.means)
         \/ /\ t.ix.name \in Setters
            /\ global_config \in DOMAIN accounts
            /\ global_config \in DOMAIN accounts'
            /\ config.admin \in t.signers
            /\ config' = Override(config, t.means)
         \/ /\ global_config \in DOMAIN accounts' <=> global_config \in DOMAIN accounts
            /\ config' = config
<1> DEFINE before == CreateAtas(accounts, t.creates)
           ix == t.ix
           after == Writes(ix, before)
<1>1. FlightOK(t)
  BY DEF Inv, FlightsOK
<1>2. /\ SignersSigned(ix, t.signers)
      /\ Validates(Struct(ix, config, before, venue), ix.keys, DOMAIN before)
      /\ config' = Override(config, Settings(ix))
      /\ accounts' = Close(after, t.closes)
  BY DEF Land, Accepted
<1>3. global_config \in DOMAIN before <=> global_config \in DOMAIN accounts
  BY <1>1, CreateDomain DEF FlightOK
<1>4. global_config \in DOMAIN accounts' <=> global_config \in DOMAIN after
  BY <1>1, <1>2 DEF FlightOK, Close
<1> HIDE DEF before, after
<1>5. CASE ix.name = "initialize_global"
  <2> DEFINE struct == InitializeGlobal(Key(Deployer))
  <2>1. Struct(ix, config, before, venue) = struct
    BY <1>5 DEF Struct, Setters
  <2>2. /\ 1 \in DOMAIN struct /\ struct[1] = Mut(Is(Key(Deployer)))
        /\ 2 \in DOMAIN struct /\ struct[2] = Created(global_config)
    BY DEF InitializeGlobal
  <2>3. /\ Settings(ix) = t.means /\ 1 \in DOMAIN ix.keys /\ 2 \in DOMAIN ix.keys
    BY <1>1, <1>5 DEF FlightOK, SaysWhatItMeans, Changers
  <2> HIDE DEF struct
  <2>4. Key(Deployer) \in t.signers
    BY <1>2, <2>1, <2>2, <2>3, ChecksSigner
  <2>5. ix.keys[2].key = global_config /\ global_config \notin DOMAIN before
    <3>1. Checked(Created(global_config), ix.keys[2], DOMAIN before)
      BY <1>2, <2>1, <2>2 DEF Validates
    <3>2. Created(global_config).at = {global_config} /\ Created(global_config).there = "no"
      BY DEF Created, Address, Mut, UncheckedAccount
    <3> QED
      BY <3>1, <3>2 DEF Checked
  <2>6. Given(ix)[2] = global_config
    BY <2>3, <2>5 DEF Given
  <2>7. global_config \in DOMAIN after
    BY <1>5, <2>6, WritesDomain DEF after
  <2> QED
    BY <1>2, <1>3, <1>4, <1>5, <2>3, <2>4, <2>5, <2>7
<1>6. CASE ix.name \in Setters
  <2>1. global_config \in DOMAIN before
    BY <1>2, <1>6, NeedsGlobal
  <2>2. global_config \in DOMAIN after
    BY <2>1, WritesDomain DEF after
  <2>3. Settings(ix) = t.means /\ 2 \in DOMAIN ix.keys
    BY <1>1, <1>6 DEF FlightOK, SaysWhatItMeans, Changers
  <2>4. Struct(ix, config, before, venue) = AdminOnly(config)
    BY <1>6 DEF Struct, Setters
  <2>5. 2 \in DOMAIN AdminOnly(config) /\ AdminOnly(config)[2] = Is(config.admin)
    BY DEF AdminOnly
  <2>6. config.admin \in t.signers
    BY <1>2, <2>3, <2>4, <2>5, ChecksSigner
  <2> QED
    BY <1>2, <1>3, <1>4, <1>6, <2>1, <2>2, <2>3, <2>6
<1>7. CASE ix.name \notin Changers
  <2>1. Settings(ix) = <<>>
    BY <1>7 DEF Settings, Changers, Setters
  <2>2. config' = config
    <3>1. DOMAIN <<>> = {}
      OBVIOUS
    <3>2. Override(config, <<>>) = [f \in DOMAIN config |-> config[f]]
      BY <3>1 DEF Override
    <3> QED
      BY <1>2, <2>1, <3>2 DEF Inv, ConfigOK
  <2>3. global_config \in DOMAIN after <=> global_config \in DOMAIN before
    <3>1. CASE ix.name \in Creators
      <4>1. global_config \in DOMAIN before
        BY <1>2, <3>1, NeedsGlobal
      <4> QED
        BY <4>1, WritesDomain DEF after
    <3>2. CASE ix.name \notin Creators
      BY <1>7, <3>2, WritesDomain DEF after, Changers
    <3> QED
      BY <3>1, <3>2
  <2> QED
    BY <1>3, <1>4, <2>2, <2>3
<1> QED
  BY <1>5, <1>6, <1>7 DEF Changers

LEMMA NextSends ==
  ASSUME Next
  PROVE  Sends \/ \E t \in flight : Land(t) \/ Drop(t)
  BY SettersSent, OthersSent DEF Next

LEMMA NextKeeps == Inv /\ [Next]_vars => Inv'
<1> SUFFICES ASSUME Inv, [Next]_vars PROVE Inv'
  OBVIOUS
<1>1. CASE Sends
  <2>1. PICK t : Submit(t) /\ FlightOK(t)
    BY <1>1 DEF Sends
  <2> QED
    BY <2>1 DEF Submit, Inv, ConfigOK, Initialised, FlightsOK
<1>2. ASSUME NEW t \in flight, Drop(t) PROVE Inv'
  BY <1>2 DEF Drop, Inv, ConfigOK, Initialised, FlightsOK
<1>3. ASSUME NEW t \in flight, Land(t) PROVE Inv'
  <2>1. FlightsOK'
    BY <1>3 DEF Land, Inv, FlightsOK
  <2>2. SaysWhatItMeans(t.ix, t.means)
    BY DEF Inv, FlightsOK, FlightOK
  <2>3. ConfigOK'
    <3>1. config' = config \/ \E m : config' = Override(config, m)
      BY <1>3 DEF Land
    <3> QED
      BY <3>1, Overrides DEF Inv, ConfigOK
  <2>4. Initialised'
    <3>1. CASE /\ t.ix.name = "initialize_global"
               /\ global_config \in DOMAIN accounts'
               /\ config' = Override(config, t.means)
      <4>1. "admin" \in DOMAIN t.means /\ t.means.admin \in Keys
        BY <2>2, <3>1 DEF SaysWhatItMeans, Changers
      <4> QED
        BY <3>1, <4>1, Overrides DEF Inv, Initialised
    <3>2. CASE /\ t.ix.name \in Setters
               /\ global_config \in DOMAIN accounts
               /\ global_config \in DOMAIN accounts'
               /\ config' = Override(config, t.means)
      <4>1. "admin" \in DOMAIN t.means => t.means.admin \in Keys
        BY <2>2, <3>2 DEF SaysWhatItMeans, Changers
      <4> QED
        BY <3>2, <4>1, Overrides DEF Inv, Initialised
    <3>3. CASE /\ global_config \in DOMAIN accounts' <=> global_config \in DOMAIN accounts
               /\ config' = config
      BY <3>3 DEF Inv, Initialised
    <3> QED
      BY <1>3, <3>1, <3>2, <3>3, Lands
  <2> QED
    BY <2>1, <2>3, <2>4 DEF Inv
<1>4. CASE UNCHANGED vars
  BY <1>4 DEF vars, Inv, ConfigOK, Initialised, FlightsOK
<1> QED
  BY <1>1, <1>2, <1>3, <1>4, NextSends

LEMMA MeansWhatItSays ==
  Inv /\ [Next]_vars =>
    (config' # config =>
       \E t \in flight \ flight' :
         /\ (IF config = NoConfig THEN Key(Deployer) ELSE config.admin) \in t.signers
         /\ config' = Override(config, t.means))
<1> SUFFICES ASSUME Inv, [Next]_vars, config' # config
             PROVE  \E t \in flight \ flight' :
                      /\ (IF config = NoConfig THEN Key(Deployer) ELSE config.admin)
                           \in t.signers
                      /\ config' = Override(config, t.means)
  OBVIOUS
<1>1. PICK t \in flight : Land(t)
  <2>1. ~Sends
    BY DEF Sends, Submit
  <2>2. Next
    BY DEF vars
  <2> QED
    BY <2>1, <2>2, NextSends DEF Drop
<1>2. t \in flight \ flight'
  BY <1>1 DEF Land
<1>3. global_config \in DOMAIN accounts => config # NoConfig
  BY AdminIsSomebody, NoConfigFacts DEF Inv, Initialised
<1>4. global_config \notin DOMAIN accounts => config = NoConfig
  BY DEF Inv, Initialised
<1> QED
  BY <1>1, <1>2, <1>3, <1>4, Lands

(* Whatever is in flight when roles change hands, GlobalConfig changes     *)
(* only by a transaction that the admin of the moment has signed, or the   *)
(* deployer at first, and to what its sender wanted (lib.rs:338-339,       *)
(* index.ts:149-153).                                                      *)
THEOREM AdminMeantCorrect == Spec => AsTheAdminMeant
<1>1. Spec => []Inv
  BY InitCorrect, NextKeeps, PTL DEF Spec
<1> QED
  BY <1>1, MeansWhatItSays, PTL DEF Spec, AsTheAdminMeant

----------------------------------------------------------------------------
(* Addresses: a program's address is its seeds, behind a tag.              *)
LEMMA PdaTuple ==
  ASSUME NEW S, "pda" \in S, NEW s \in Seq(S), NEW w \in Seq(S),
         Len(w) = Len(s) + 1, w[1] = "pda", \A i \in 1 .. Len(s) : w[i + 1] = s[i]
  PROVE  Pda(s) = w
<1>1. <<"pda">> \in Seq(S) /\ Len(<<"pda">>) = 1 /\ <<"pda">>[1] = "pda"
  OBVIOUS
<1>2. /\ <<"pda">> \o s \in Seq(S)
      /\ Len(<<"pda">> \o s) = 1 + Len(s)
      /\ \A i \in 1 .. (1 + Len(s)) :
           (<<"pda">> \o s)[i] = IF i <= 1 THEN "pda" ELSE s[i - 1]
  BY <1>1, ConcatProperties
<1>3. Len(s) \in Nat
  BY LenProperties
<1>4. \A i \in 1 .. (1 + Len(s)) : (<<"pda">> \o s)[i] = w[i]
  BY <1>2, <1>3
<1> QED
  BY <1>2, <1>3, <1>4, SeqEqual DEF Pda

LEMMA PdaIs ==
  ASSUME NEW x, NEW y, NEW z
  PROVE  /\ Pda(<<x>>) = <<"pda", x>>
         /\ Pda(<<x, y>>) = <<"pda", x, y>>
         /\ Pda(<<x, y, z>>) = <<"pda", x, y, z>>
<1> DEFINE S == {"pda", x, y, z}
<1>1. Pda(<<x>>) = <<"pda", x>>
  <2> DEFINE s == <<x>>  w == <<"pda", x>>
  <2>1. "pda" \in S /\ s \in Seq(S) /\ w \in Seq(S)
    OBVIOUS
  <2>2. Len(s) = 1 /\ Len(w) = 2 /\ w[1] = "pda"
    OBVIOUS
  <2>3. w[2] = s[1]
    OBVIOUS
  <2> HIDE DEF s, w, S
  <2>4. \A i \in 1 .. Len(s) : w[i + 1] = s[i]
    BY <2>2, <2>3
  <2>5. Pda(s) = w
    <3>1. Len(w) = Len(s) + 1
      BY <2>2
    <3> QED
      BY <2>1, <2>2, <2>4, <3>1, PdaTuple
  <2> QED
    BY <2>5 DEF s, w
<1>2. Pda(<<x, y>>) = <<"pda", x, y>>
  <2> DEFINE s == <<x, y>>  w == <<"pda", x, y>>
  <2>1. "pda" \in S /\ s \in Seq(S) /\ w \in Seq(S)
    OBVIOUS
  <2>2. Len(s) = 2 /\ Len(w) = 3 /\ w[1] = "pda"
    OBVIOUS
  <2>3. w[2] = s[1] /\ w[3] = s[2]
    OBVIOUS
  <2> HIDE DEF s, w, S
  <2>4. \A i \in 1 .. Len(s) : w[i + 1] = s[i]
    BY <2>2, <2>3
  <2>5. Pda(s) = w
    <3>1. Len(w) = Len(s) + 1
      BY <2>2
    <3> QED
      BY <2>1, <2>2, <2>4, <3>1, PdaTuple
  <2> QED
    BY <2>5 DEF s, w
<1>3. Pda(<<x, y, z>>) = <<"pda", x, y, z>>
  <2> DEFINE s == <<x, y, z>>  w == <<"pda", x, y, z>>
  <2>1. "pda" \in S /\ s \in Seq(S) /\ w \in Seq(S)
    OBVIOUS
  <2>2. Len(s) = 3 /\ Len(w) = 4 /\ w[1] = "pda"
    OBVIOUS
  <2>3. w[2] = s[1] /\ w[3] = s[2] /\ w[4] = s[3]
    OBVIOUS
  <2> HIDE DEF s, w, S
  <2>4. \A i \in 1 .. Len(s) : w[i + 1] = s[i]
    BY <2>2, <2>3
  <2>5. Pda(s) = w
    <3>1. Len(w) = Len(s) + 1
      BY <2>2
    <3> QED
      BY <2>1, <2>2, <2>4, <3>1, PdaTuple
  <2> QED
    BY <2>5 DEF s, w
<1> QED
  BY <1>1, <1>2, <1>3

LEMMA PdaOfFour ==
  ASSUME NEW x, NEW y, NEW z, NEW u
  PROVE  Pda(<<x, y, z, u>>) = <<"pda", x, y, z, u>>
<1> DEFINE S == {"pda", x, y, z, u}
<1> DEFINE s == <<x, y, z, u>>  w == <<"pda", x, y, z, u>>
<1>1. "pda" \in S /\ s \in Seq(S) /\ w \in Seq(S)
  OBVIOUS
<1>2. Len(s) = 4 /\ Len(w) = 5 /\ w[1] = "pda"
  OBVIOUS
<1>3. w[2] = s[1] /\ w[3] = s[2] /\ w[4] = s[3] /\ w[5] = s[4]
  OBVIOUS
<1> HIDE DEF s, w, S
<1>4. \A i \in 1 .. Len(s) : w[i + 1] = s[i]
  BY <1>2, <1>3
<1>5. Pda(s) = w
  <2>1. Len(w) = Len(s) + 1
    BY <1>2
  <2> QED
    BY <1>1, <1>2, <1>4, <2>1, PdaTuple
<1> QED
  BY <1>5 DEF s, w

(* What each address is.                                                   *)
LEMMA Addresses ==
  ASSUME NEW m, NEW i, NEW o
  PROVE  /\ global_config = <<"pda", "global">>
         /\ platform_allowlist = <<"pda", "allowlist">>
         /\ denylist_state = <<"pda", "denylist">>
         /\ coin_config(m) = <<"pda", "coin", m>>
         /\ payout_authority(m) = <<"pda", "payout", m>>
         /\ epoch_state(m, i) = <<"pda", "epoch", m, i>>
         /\ allowlist_state(m, i) = <<"pda", "allow", m, i>>
         /\ bucket_state(m, i, o) = <<"pda", "bucket", m, i, o>>
         /\ Ata(m, o) = <<"ata", m, o>>
<1>1. /\ global_config = <<"pda", "global">>
      /\ platform_allowlist = <<"pda", "allowlist">>
      /\ denylist_state = <<"pda", "denylist">>
  BY PdaIs, Zenon DEF global_config, platform_allowlist, denylist_state
<1>2. /\ coin_config(m) = <<"pda", "coin", m>>
      /\ payout_authority(m) = <<"pda", "payout", m>>
  BY PdaIs, Zenon DEF coin_config, payout_authority
<1>3. /\ epoch_state(m, i) = <<"pda", "epoch", m, i>>
      /\ allowlist_state(m, i) = <<"pda", "allow", m, i>>
  BY PdaIs, Zenon DEF epoch_state, allowlist_state
<1>4. bucket_state(m, i, o) = <<"pda", "bucket", m, i, o>>
  BY PdaOfFour DEF bucket_state
<1> QED
  BY <1>1, <1>2, <1>3, <1>4 DEF Ata

----------------------------------------------------------------------------
(* The second invariant, Fresh: the accounts there are hold what their     *)
(* addresses stand for and rest on others that are still there, which is   *)
(* why an address that a sender derives names the account it means; and    *)
(* what is in flight was accepted by what its sender saw.                  *)
(* An account holds what its address stands for.                           *)
Stands(a, held) ==
  \/ /\ held.type = "GlobalConfig"
     /\ a = global_config
  \/ /\ held.type = "PlatformAllowlist"
     /\ a = platform_allowlist
     /\ held = PlatformAllowlist(held.mints)
  \/ /\ held.type = "Denylist"
     /\ a = denylist_state
     /\ held = Denylist(held.entries)
  \/ /\ held.type = "TokenAccount"
     /\ a = Ata(a[2], a[3])
  \/ /\ held.type = "CoinConfig"
     /\ a = coin_config(held.of)
     /\ held = [type |-> "CoinConfig", of |-> held.of,
                dbc_pool |-> held.dbc_pool, status |-> held.status,
                damm_pool |-> held.damm_pool,
                locked_position |-> held.locked_position]
     /\ held.damm_pool # Zero =>
          /\ held.damm_pool = DammPool(held.of)
          /\ held.locked_position = Position(held.of)
  \/ /\ held.type = "EpochState"
     /\ a = epoch_state(held.of, held.index)
     /\ held = EpochState(held.of, held.index)
  \/ /\ held.type = "AllowlistState"
     /\ a = allowlist_state(held.of, a[4])
     /\ held = AllowlistState(held.of, held.mints)
  \/ /\ held.type = "BucketState"
     /\ a = bucket_state(a[3], a[4], held.out_mint)
     /\ held = BucketState(epoch_state(a[3], a[4]), held.out_mint)

AllStand(acc) == \A a \in DOMAIN acc : Stands(a, acc[a])

(* What an account was made from is still there.                           *)
Rests(a, held, there) ==
  /\ held.type = "CoinConfig" =>
       {global_config, platform_allowlist} \subseteq there
  /\ held.type = "EpochState" =>
       {coin_config(held.of), allowlist_state(held.of, held.index),
        Ata(WSOL_MINT, payout_authority(held.of))} \subseteq there
  /\ held.type = "AllowlistState" => epoch_state(held.of, a[4]) \in there
  /\ held.type = "BucketState" =>
       Ata(held.out_mint, payout_authority(a[3])) \in there

AllRest(acc) == \A a \in DOMAIN acc : Rests(a, acc[a], DOMAIN acc)

Names == Setters \cup
  {"initialize_global", "init_denylist", "set_denylist",
   "init_platform_allowlist", "set_platform_allowlist", "retire_coin",
   "set_graduation", "launch_coin", "claim_and_sweep", "sync_graduation",
   "settle_epoch", "swap_payout", "distribute_batch"}

(* The accounts of a pool after graduation are named as the coin's are.    *)
NamesPool(of, damm_pool, locked_position) ==
  damm_pool # Zero =>
    damm_pool = DammPool(of) /\ locked_position = Position(of)

(* What an encoder may give.                                               *)
Encoded(ix) ==
  /\ ix.name \in Names
  /\ Len(ix.keys) \in Nat
  /\ DOMAIN ix.keys = 1 .. Len(ix.keys)
  /\ ix.name = "set_graduation" =>
       NamesPool(Given(ix)[3][3], ix.data.damm_pool, ix.data.locked_position)
  /\ ix.name = "sync_graduation" =>
       NamesPool(Given(ix)[2][3], Given(ix)[6], Given(ix)[7])

FlightFresh(t) ==
  /\ Encoded(t.ix)
  /\ \A a \in t.creates : a = Ata(a[2], a[3])
  /\ \A a \in t.closes : \E k \in Keys : a = Ata(WSOL_MINT, k)
  /\ Accepted(t, t.seen[1], t.seen[2], JUPITER_PROGRAM)

IsFunction(f) == f = [x \in DOMAIN f |-> f[x]]

Tidy(acc) == IsFunction(acc) /\ AllStand(acc) /\ AllRest(acc)

FlightsFresh == \A t \in flight : FlightFresh(t)

Fresh == Tidy(accounts) /\ FlightsFresh

----------------------------------------------------------------------------
(* What keeps accounts tidy.                                               *)
LEMMA RestsOnMore ==
  ASSUME NEW a, NEW held, NEW there, NEW more, there \subseteq more,
         Rests(a, held, there)
  PROVE  Rests(a, held, more)
  BY DEF Rests

LEMMA AtaStands ==
  ASSUME NEW a, a = Ata(a[2], a[3]), NEW there
  PROVE  Stands(a, TokenAccount) /\ Rests(a, TokenAccount, there)
  BY DEF Stands, Rests, TokenAccount

LEMMA CreateTidy ==
  ASSUME NEW acc, Tidy(acc), NEW atas, \A a \in atas : a = Ata(a[2], a[3])
  PROVE  /\ Tidy(CreateAtas(acc, atas))
         /\ DOMAIN CreateAtas(acc, atas) = DOMAIN acc \cup atas
         /\ \A a \in DOMAIN acc : CreateAtas(acc, atas)[a] = acc[a]
<1> DEFINE made == CreateAtas(acc, atas)
<1>1. /\ DOMAIN made = DOMAIN acc \cup atas
      /\ IsFunction(made)
      /\ \A a \in DOMAIN made :
           made[a] = IF a \in DOMAIN acc THEN acc[a] ELSE TokenAccount
  BY DEF CreateAtas, IsFunction
<1> HIDE DEF made
<1>2. ASSUME NEW a \in DOMAIN made
      PROVE  Stands(a, made[a]) /\ Rests(a, made[a], DOMAIN made)
  <2>1. CASE a \in DOMAIN acc
    <3>1. made[a] = acc[a]
      BY <1>1, <2>1
    <3>2. Stands(a, acc[a]) /\ Rests(a, acc[a], DOMAIN acc)
      BY <2>1 DEF Tidy, AllStand, AllRest
    <3> QED
      BY <1>1, <3>1, <3>2, RestsOnMore
  <2>2. CASE a \notin DOMAIN acc
    <3>1. made[a] = TokenAccount /\ a \in atas
      BY <1>1, <2>2
    <3> QED
      BY <3>1, AtaStands
  <2> QED
    BY <2>1, <2>2
<1> QED
  BY <1>1, <1>2 DEF Tidy, AllStand, AllRest, made

LEMMA PutTidy ==
  ASSUME NEW acc, Tidy(acc), NEW a, NEW held, Stands(a, held),
         Rests(a, held, DOMAIN acc \cup {a})
  PROVE  Tidy(Put(acc, a, held))
<1> DEFINE after == Put(acc, a, held)
<1>1. /\ DOMAIN after = DOMAIN acc \cup {a}
      /\ IsFunction(after)
      /\ \A b \in DOMAIN after : after[b] = IF b = a THEN held ELSE acc[b]
  BY DEF Put, IsFunction
<1> HIDE DEF after
<1>2. ASSUME NEW b \in DOMAIN after
      PROVE  Stands(b, after[b]) /\ Rests(b, after[b], DOMAIN after)
  <2>1. CASE b = a
    BY <1>1, <2>1
  <2>2. CASE b # a
    <3>1. after[b] = acc[b] /\ b \in DOMAIN acc
      BY <1>1, <2>2
    <3>2. Stands(b, acc[b]) /\ Rests(b, acc[b], DOMAIN acc)
      BY <3>1 DEF Tidy, AllStand, AllRest
    <3> QED
      BY <1>1, <3>1, <3>2, RestsOnMore
  <2> QED
    BY <2>1, <2>2
<1> QED
  BY <1>1, <1>2 DEF Tidy, AllStand, AllRest, after

(* Only accounts of keys are closed, and nothing rests on those.           *)
LEMMA CloseTidy ==
  ASSUME NEW acc, Tidy(acc), NEW atas,
         \A a \in atas : \E k \in Keys : a = Ata(WSOL_MINT, k)
  PROVE  Tidy(Close(acc, atas))
<1> DEFINE after == Close(acc, atas)
<1>1. /\ DOMAIN after = DOMAIN acc \ atas
      /\ IsFunction(after)
      /\ \A a \in DOMAIN after : after[a] = acc[a]
  BY DEF Close, IsFunction
<1> HIDE DEF after
<1>2. ASSUME NEW m, NEW i, NEW o
      PROVE  /\ global_config \notin atas /\ platform_allowlist \notin atas
             /\ coin_config(m) \notin atas /\ epoch_state(m, i) \notin atas
             /\ allowlist_state(m, i) \notin atas
             /\ Ata(o, payout_authority(m)) \notin atas
  <2>1. ASSUME NEW a \in atas PROVE a[1] = "ata" /\ a[3][1] = "key"
    <3>1. PICK k \in Keys : a = Ata(WSOL_MINT, k)
      OBVIOUS
    <3>2. a[1] = "ata" /\ a[3] = k
      BY <3>1 DEF Ata
    <3>3. k[1] = "key"
      BY DEF Keys, Key
    <3> QED
      BY <3>2, <3>3
  <2>2. /\ global_config[1] = "pda" /\ platform_allowlist[1] = "pda"
        /\ coin_config(m)[1] = "pda" /\ epoch_state(m, i)[1] = "pda"
        /\ allowlist_state(m, i)[1] = "pda"
        /\ payout_authority(m)[1] = "pda"
    BY Addresses
  <2>3. Ata(o, payout_authority(m))[3] = payout_authority(m)
    BY DEF Ata
  <2> QED
    BY <2>1, <2>2, <2>3
<1>3. ASSUME NEW a \in DOMAIN after
      PROVE  Stands(a, after[a]) /\ Rests(a, after[a], DOMAIN after)
  <2>1. after[a] = acc[a] /\ a \in DOMAIN acc
    BY <1>1
  <2>2. Stands(a, acc[a]) /\ Rests(a, acc[a], DOMAIN acc)
    BY <2>1 DEF Tidy, AllStand, AllRest
  <2>3. Rests(a, acc[a], DOMAIN after)
    BY <1>1, <1>2, <2>2 DEF Rests
  <2> QED
    BY <2>1, <2>2, <2>3
<1> QED
  BY <1>1, <1>3 DEF Tidy, AllStand, AllRest, after

----------------------------------------------------------------------------
(* What the structs establish about the addresses given.                   *)
KeysInOrder(ix) == Len(ix.keys) \in Nat /\ DOMAIN ix.keys = 1 .. Len(ix.keys)

LEMMA ChecksAddress ==
  ASSUME NEW ix, KeysInOrder(ix), NEW struct, NEW there,
         Validates(struct, ix.keys, there),
         NEW n \in 1 .. 32, n \in DOMAIN struct, n <= Len(struct),
         Len(struct) \in Nat, NEW x
  PROVE  /\ struct[n] \in {Address(x), Account(x), Mut(Account(x)), Created(x)}
              => Given(ix)[n] = x
         /\ struct[n] \in {Account(x), Mut(Account(x))} => x \in there
         /\ struct[n] = Created(x) => x \notin there
<1>1. Checked(struct[n], ix.keys[n], there)
  BY DEF Validates
<1>2. n \in DOMAIN ix.keys
  BY DEF Validates, KeysInOrder
<1>3. Given(ix)[n] = ix.keys[n].key
  BY <1>2 DEF Given
<1>4. ASSUME struct[n] \in {Address(x), Account(x), Mut(Account(x)), Created(x)}
      PROVE  struct[n].at = {x}
  BY <1>4 DEF Address, Account, Created, Mut, UncheckedAccount
<1>5. ASSUME struct[n] \in {Account(x), Mut(Account(x))}
      PROVE  struct[n].there = "yes" /\ struct[n].at = {x}
  BY <1>5 DEF Address, Account, Created, Mut, UncheckedAccount
<1>6. ASSUME struct[n] = Created(x)
      PROVE  struct[n].there = "no" /\ struct[n].at = {x}
  BY <1>6 DEF Address, Account, Created, Mut, UncheckedAccount
<1> QED
  BY <1>1, <1>3, <1>4, <1>5, <1>6 DEF Checked

(* The kind of an account is that of its address.                          *)
LEMMA KindOf ==
  ASSUME NEW a, NEW held, Stands(a, held), a[1] = "pda"
  PROVE  /\ a[2] = "allowlist" => held.type = "PlatformAllowlist"
         /\ a[2] = "coin" => held.type = "CoinConfig"
         /\ a[2] = "epoch" => held.type = "EpochState"
         /\ a[2] = "allow" => held.type = "AllowlistState"
         /\ a[2] = "bucket" => held.type = "BucketState"
<1>1. ASSUME NEW m, NEW i, NEW o
      PROVE  /\ global_config[2] = "global"
             /\ platform_allowlist[2] = "allowlist"
             /\ denylist_state[2] = "denylist" /\ coin_config(m)[2] = "coin"
             /\ epoch_state(m, i)[2] = "epoch"
             /\ allowlist_state(m, i)[2] = "allow"
             /\ bucket_state(m, i, o)[2] = "bucket" /\ Ata(m, o)[1] = "ata"
  BY Addresses
<1> QED
  BY <1>1 DEF Stands

(* A coin's account, when it is there.                                     *)
LEMMA CoinStands ==
  ASSUME NEW acc, Tidy(acc), NEW m, coin_config(m) \in DOMAIN acc
  PROVE  LET held == acc[coin_config(m)] IN
         /\ held.type = "CoinConfig"
         /\ held.of = m
         /\ held = [type |-> "CoinConfig", of |-> m, dbc_pool |-> held.dbc_pool,
                    status |-> held.status, damm_pool |-> held.damm_pool,
                    locked_position |-> held.locked_position]
         /\ NamesPool(m, held.damm_pool, held.locked_position)
         /\ {global_config, platform_allowlist} \subseteq DOMAIN acc
<1> DEFINE a == coin_config(m)
           held == acc[a]
<1>1. Stands(a, held) /\ Rests(a, held, DOMAIN acc)
  BY DEF Tidy, AllStand, AllRest
<1>2. a = <<"pda", "coin", m>>
  BY Addresses
<1> HIDE DEF held
<1>3. held.type = "CoinConfig" /\ a = coin_config(held.of)
  BY <1>1, <1>2, KindOf DEF Stands
<1>4. held.of = m
  BY <1>2, <1>3, Addresses
<1>5. /\ held = [type |-> "CoinConfig", of |-> held.of,
                 dbc_pool |-> held.dbc_pool, status |-> held.status,
                 damm_pool |-> held.damm_pool,
                 locked_position |-> held.locked_position]
      /\ NamesPool(held.of, held.damm_pool, held.locked_position)
  BY <1>1, <1>3 DEF Stands, NamesPool
<1>6. {global_config, platform_allowlist} \subseteq DOMAIN acc
  BY <1>1, <1>3 DEF Rests
<1> QED
  BY <1>3, <1>4, <1>5, <1>6 DEF held

LEMMA EpochStands ==
  ASSUME NEW acc, Tidy(acc), NEW m, NEW i, epoch_state(m, i) \in DOMAIN acc
  PROVE  LET held == acc[epoch_state(m, i)] IN
         held.type = "EpochState" /\ held.of = m /\ held.index = i
<1> DEFINE a == epoch_state(m, i)
           held == acc[a]
<1>1. Stands(a, held)
  BY DEF Tidy, AllStand
<1>2. a = <<"pda", "epoch", m, i>>
  BY Addresses
<1> HIDE DEF held
<1>3. held.type = "EpochState" /\ a = epoch_state(held.of, held.index)
  BY <1>1, <1>2, KindOf DEF Stands
<1>4. a = <<"pda", "epoch", held.of, held.index>>
  BY <1>3, Addresses
<1> QED
  BY <1>2, <1>3, <1>4 DEF held

LEMMA AllowlistStands ==
  ASSUME NEW acc, Tidy(acc), NEW m, NEW i, allowlist_state(m, i) \in DOMAIN acc
  PROVE  epoch_state(m, i) \in DOMAIN acc
<1> DEFINE a == allowlist_state(m, i)
           held == acc[a]
<1>1. Stands(a, held) /\ Rests(a, held, DOMAIN acc)
  BY DEF Tidy, AllStand, AllRest
<1>2. a = <<"pda", "allow", m, i>>
  BY Addresses
<1> HIDE DEF held
<1>3. held.type = "AllowlistState" /\ a = allowlist_state(held.of, a[4])
  BY <1>1, <1>2, KindOf DEF Stands
<1>4. a = <<"pda", "allow", held.of, a[4]>>
  BY <1>3, Addresses
<1>5. held.of = m /\ a[4] = i
  BY <1>2, <1>4
<1> QED
  BY <1>1, <1>3, <1>5 DEF Rests

LEMMA BucketStands ==
  ASSUME NEW acc, Tidy(acc), NEW m, NEW i, NEW o,
         bucket_state(m, i, o) \in DOMAIN acc
  PROVE  LET held == acc[bucket_state(m, i, o)] IN
         held.type = "BucketState" /\ held.of = epoch_state(m, i) /\ held.out_mint = o
<1> DEFINE a == bucket_state(m, i, o)
           held == acc[a]
<1>1. Stands(a, held)
  BY DEF Tidy, AllStand
<1>2. a = <<"pda", "bucket", m, i, o>>
  BY Addresses
<1> HIDE DEF held
<1>3. /\ held.type = "BucketState"
      /\ a = bucket_state(a[3], a[4], held.out_mint)
      /\ held = BucketState(epoch_state(a[3], a[4]), held.out_mint)
  BY <1>1, <1>2, KindOf DEF Stands
<1>4. a = <<"pda", "bucket", a[3], a[4], held.out_mint>>
  BY <1>3, Addresses
<1>5. a[3] = m /\ a[4] = i /\ held.out_mint = o
  BY <1>2, <1>4
<1>6. held.of = epoch_state(m, i)
  BY <1>3, <1>5 DEF BucketState
<1> QED
  BY <1>3, <1>5, <1>6 DEF held

(* A coin whose status or pool is written anew still stands.               *)
LEMMA CoinRewritten ==
  ASSUME NEW acc, Tidy(acc), NEW m, coin_config(m) \in DOMAIN acc,
         NEW status, NEW pool, NEW position, NamesPool(m, pool, position)
  PROVE  /\ Tidy([acc EXCEPT ![coin_config(m)].status = status,
                             ![coin_config(m)].damm_pool = pool,
                             ![coin_config(m)].locked_position = position])
         /\ Tidy([acc EXCEPT ![coin_config(m)].status = status])
<1> DEFINE a == coin_config(m)
           held == acc[a]
           now == [type |-> "CoinConfig", of |-> m, dbc_pool |-> held.dbc_pool,
                   status |-> status, damm_pool |-> pool,
                   locked_position |-> position]
           still == [type |-> "CoinConfig", of |-> m, dbc_pool |-> held.dbc_pool,
                     status |-> status, damm_pool |-> held.damm_pool,
                     locked_position |-> held.locked_position]
<1>1. /\ held = [type |-> "CoinConfig", of |-> m, dbc_pool |-> held.dbc_pool,
                 status |-> held.status, damm_pool |-> held.damm_pool,
                 locked_position |-> held.locked_position]
      /\ {global_config, platform_allowlist} \subseteq DOMAIN acc
      /\ NamesPool(m, held.damm_pool, held.locked_position)
      /\ a \in DOMAIN acc
  BY CoinStands
<1>2. /\ now = [held EXCEPT !.status = status, !.damm_pool = pool,
                            !.locked_position = position]
      /\ still = [held EXCEPT !.status = status]
  <2> HIDE DEF held
  <2>1. now = [held EXCEPT !.status = status, !.damm_pool = pool,
                           !.locked_position = position]
    <3> DEFINE then == [held EXCEPT !.status = status, !.damm_pool = pool,
                                    !.locked_position = position]
               F == {"type", "of", "dbc_pool", "status", "damm_pool",
                     "locked_position"}
    <3>1. DOMAIN held = F /\ held.type = "CoinConfig" /\ held.of = m
      BY <1>1
    <3>2. now = [f \in F |-> now[f]] /\ then = [f \in F |-> then[f]]
      BY <3>1
    <3>3. /\ now.type = "CoinConfig" /\ now.of = m /\ now.dbc_pool = held.dbc_pool
          /\ now.status = status /\ now.damm_pool = pool
          /\ now.locked_position = position
      OBVIOUS
    <3>4. /\ then.type = "CoinConfig" /\ then.of = m /\ then.dbc_pool = held.dbc_pool
          /\ then.status = status /\ then.damm_pool = pool
          /\ then.locked_position = position
      BY <3>1
    <3> HIDE DEF now, then
    <3>5. \A f \in F : now[f] = then[f]
      BY <3>3, <3>4
    <3> HIDE DEF F
    <3>6. now = then
      BY <3>2, <3>5
    <3> QED
      BY <3>6 DEF then
  <2>2. still = [held EXCEPT !.status = status]
    BY <1>1
  <2> QED
    BY <2>1, <2>2
<1>3. /\ Put(acc, a, now) = [acc EXCEPT ![a].status = status, ![a].damm_pool = pool,
                                        ![a].locked_position = position]
      /\ Put(acc, a, still) = [acc EXCEPT ![a].status = status]
  <2> HIDE DEF a, now, still
  <2>1. Put(acc, a, now) = [acc EXCEPT ![a].status = status, ![a].damm_pool = pool,
                                       ![a].locked_position = position]
    BY <1>1, <1>2 DEF Put
  <2>2. Put(acc, a, still) = [acc EXCEPT ![a].status = status]
    BY <1>1, <1>2 DEF Put
  <2> QED
    BY <2>1, <2>2
<1>4. ASSUME NEW p, NEW l, NamesPool(m, p, l),
             NEW h, h = [type |-> "CoinConfig", of |-> m, dbc_pool |-> held.dbc_pool,
                         status |-> status, damm_pool |-> p, locked_position |-> l]
      PROVE  Tidy(Put(acc, a, h))
  <2> HIDE DEF held
  <2>1. /\ h.type = "CoinConfig" /\ h.of = m /\ h.dbc_pool = held.dbc_pool
        /\ h.status = status /\ h.damm_pool = p /\ h.locked_position = l
    BY <1>4
  <2>2. Stands(a, h)
    BY <1>4, <2>1 DEF Stands, NamesPool
  <2>3. Rests(a, h, DOMAIN acc \cup {a})
    BY <1>1, <2>1 DEF Rests
  <2> HIDE DEF a
  <2> QED
    BY <2>2, <2>3, PutTidy
<1>5. Tidy(Put(acc, a, now)) /\ Tidy(Put(acc, a, still))
  BY <1>1, <1>4
<1> QED
  BY <1>3, <1>5

(* A round's account and that of its mints rest on each other.             *)
LEMMA RoundTidy ==
  ASSUME NEW acc, Tidy(acc), NEW m, NEW i, NEW mints,
         {coin_config(m), Ata(WSOL_MINT, payout_authority(m))} \subseteq DOMAIN acc
  PROVE  LET after == Put(Put(acc, epoch_state(m, i), EpochState(m, i)),
                          allowlist_state(m, i), AllowlistState(m, mints)) IN
         Tidy(after)
<1> DEFINE e == epoch_state(m, i)
           w == allowlist_state(m, i)
           after == Put(Put(acc, e, EpochState(m, i)), w, AllowlistState(m, mints))
<1> HIDE DEF e, w
<1>1. /\ DOMAIN after = DOMAIN acc \cup {e, w}
      /\ IsFunction(after)
      /\ \A a \in DOMAIN after :
           after[a] = IF a = w THEN AllowlistState(m, mints)
                      ELSE IF a = e THEN EpochState(m, i) ELSE acc[a]
  BY DEF Put, IsFunction
<1>2. /\ Stands(e, EpochState(m, i))
      /\ Rests(e, EpochState(m, i), DOMAIN acc \cup {e, w})
  BY DEF Stands, Rests, EpochState, e, w
<1>3. w[4] = i
  BY Addresses DEF w
<1>4. /\ Stands(w, AllowlistState(m, mints))
      /\ Rests(w, AllowlistState(m, mints), DOMAIN acc \cup {e, w})
  <2>1. /\ AllowlistState(m, mints).type = "AllowlistState"
        /\ AllowlistState(m, mints).of = m
        /\ AllowlistState(m, mints).mints = mints
    BY DEF AllowlistState
  <2> QED
    BY <1>3, <2>1 DEF Stands, Rests, w, e
<1>5. ASSUME NEW a \in DOMAIN acc
      PROVE  Stands(a, acc[a]) /\ Rests(a, acc[a], DOMAIN acc \cup {e, w})
  <2>1. Stands(a, acc[a]) /\ Rests(a, acc[a], DOMAIN acc)
    BY DEF Tidy, AllStand, AllRest
  <2> QED
    BY <2>1, RestsOnMore
<1> HIDE DEF after
<1>6. \A a \in DOMAIN after : Stands(a, after[a]) /\ Rests(a, after[a], DOMAIN after)
  BY <1>1, <1>2, <1>4, <1>5
<1>7. Tidy(after)
  BY <1>1, <1>6 DEF Tidy, AllStand, AllRest
<1> QED
  BY <1>1, <1>7 DEF after, e, w

(* What a handler writes leaves the accounts tidy: its struct has checked  *)
(* the addresses it writes to.                                             *)
LEMMA WritesTidy ==
  ASSUME NEW ix, Encoded(ix), NEW g, NEW acc, NEW pinned, Tidy(acc),
         Validates(Struct(ix, g, acc, pinned), ix.keys, DOMAIN acc)
  PROVE  Tidy(Writes(ix, acc))
<1> DEFINE k == Given(ix)
           d == ix.data
           i == EpochOf(ix)
           struct == Struct(ix, g, acc, pinned)
<1>1. KeysInOrder(ix) /\ ix.name \in Names
  BY DEF Encoded, KeysInOrder
<1>a. ASSUME NEW n \in 1 .. 32, n \in DOMAIN struct, n <= Len(struct),
             Len(struct) \in Nat, NEW x
      PROVE  /\ struct[n] \in {Address(x), Account(x), Mut(Account(x)), Created(x)}
                  => k[n] = x
             /\ struct[n] \in {Account(x), Mut(Account(x))} => x \in DOMAIN acc
  <2> HIDE DEF struct
  <2>1. Validates(struct, ix.keys, DOMAIN acc)
    BY DEF struct
  <2> QED
    BY <1>1, <1>a, <2>1, ChecksAddress, ZenonT(60)
<1>2. CASE ix.name = "initialize_global"
  <2>1. struct = InitializeGlobal(Key(Deployer))
    BY <1>2 DEF Struct, Setters
  <2> HIDE DEF struct
  <2>2. struct[2] = Created(global_config) /\ Len(struct) = 5 /\ 2 \in DOMAIN struct
    BY <2>1 DEF InitializeGlobal
  <2>3. k[2] = global_config
    BY <1>a, <2>2
  <2>4. Writes(ix, acc) = Put(acc, global_config, GlobalConfig)
    BY <1>2, <2>3 DEF Writes
  <2>5. Stands(global_config, GlobalConfig) /\ \A S : Rests(global_config, GlobalConfig, S)
    BY DEF Stands, Rests, GlobalConfig
  <2> QED
    BY <2>4, <2>5, PutTidy
<1>3. CASE ix.name \in {"init_denylist", "set_denylist"}
  <2>1. struct = IF ix.name = "init_denylist" THEN InitDenylist(g) ELSE SetDenylist(g)
    BY <1>3 DEF Struct, Setters
  <2> HIDE DEF struct
  <2>2. /\ struct[3] \in {Created(denylist_state), Mut(Account(denylist_state))}
        /\ Len(struct) \in {3, 4} /\ 3 \in DOMAIN struct
    BY <2>1 DEF InitDenylist, SetDenylist
  <2>3. k[3] = denylist_state
    BY <1>a, <2>2
  <2>4. \E entries : Writes(ix, acc) = Put(acc, denylist_state, Denylist(entries))
    BY <1>3, <2>3 DEF Writes
  <2>5. ASSUME NEW entries
        PROVE  /\ Stands(denylist_state, Denylist(entries))
               /\ \A S : Rests(denylist_state, Denylist(entries), S)
    BY DEF Stands, Rests, Denylist
  <2> QED
    BY <2>4, <2>5, PutTidy
<1>4. CASE ix.name \in {"init_platform_allowlist", "set_platform_allowlist"}
  <2>1. struct = IF ix.name = "init_platform_allowlist" THEN InitPlatformAllowlist(g)
                 ELSE SetPlatformAllowlist(g)
    BY <1>4 DEF Struct, Setters
  <2> HIDE DEF struct
  <2>2. /\ struct[3] \in {Created(platform_allowlist), Mut(Account(platform_allowlist))}
        /\ Len(struct) \in {3, 4} /\ 3 \in DOMAIN struct
    BY <2>1 DEF InitPlatformAllowlist, SetPlatformAllowlist
  <2>3. k[3] = platform_allowlist
    BY <1>a, <2>2
  <2>4. \E mints : Writes(ix, acc) = Put(acc, platform_allowlist, PlatformAllowlist(mints))
    BY <1>4, <2>3 DEF Writes
  <2>5. ASSUME NEW mints
        PROVE  /\ Stands(platform_allowlist, PlatformAllowlist(mints))
               /\ \A S : Rests(platform_allowlist, PlatformAllowlist(mints), S)
    BY DEF Stands, Rests, PlatformAllowlist
  <2> QED
    BY <2>4, <2>5, PutTidy
<1>5. CASE ix.name \in {"retire_coin", "set_graduation"}
  <2> DEFINE m == CoinAt(acc, k[3])
  <2>1. struct = RetireCoin(g, m)
    BY <1>5 DEF Struct, Setters, SetGraduation
  <2> HIDE DEF m, struct
  <2>2. /\ struct[3] = Mut(Account(coin_config(m)))
        /\ Len(struct) = 3 /\ 3 \in DOMAIN struct
    BY <2>1 DEF RetireCoin
  <2>3. k[3] = coin_config(m) /\ coin_config(m) \in DOMAIN acc
    BY <1>a, <2>2
  <2>6. NamesPool(m, Zero, Zero)
    BY DEF NamesPool
  <2>4. CASE ix.name = "retire_coin"
    <3>1. Writes(ix, acc) = [acc EXCEPT ![coin_config(m)].status = "retired"]
      BY <2>3, <2>4 DEF Writes
    <3>2. Tidy([acc EXCEPT ![coin_config(m)].status = "retired"])
      BY <2>3, <2>6, CoinRewritten
    <3> QED
      BY <3>1, <3>2
  <2>5. CASE ix.name = "set_graduation"
    <3>1. Writes(ix, acc) =
            [acc EXCEPT ![coin_config(m)].status = norm(d.status)[2],
                        ![coin_config(m)].damm_pool = d.damm_pool,
                        ![coin_config(m)].locked_position = d.locked_position]
      BY <2>3, <2>5 DEF Writes
    <3>2. coin_config(m)[3] = m
      BY Addresses
    <3>3. NamesPool(m, d.damm_pool, d.locked_position)
      BY <2>3, <2>5, <3>2 DEF Encoded
    <3>4. Tidy([acc EXCEPT ![coin_config(m)].status = norm(d.status)[2],
                           ![coin_config(m)].damm_pool = d.damm_pool,
                           ![coin_config(m)].locked_position = d.locked_position])
      BY <2>3, <3>3, CoinRewritten
    <3> QED
      BY <3>1, <3>4
  <2> QED
    BY <1>5, <2>4, <2>5
<1>6. CASE ix.name = "launch_coin"
  <2>1. struct = LaunchCoin(k)
    BY <1>6 DEF Struct, Setters
  <2>2. /\ struct[3] = Account(global_config)
        /\ struct[4] = Account(platform_allowlist)
        /\ struct[15] = Created(coin_config(k[2]))
        /\ Len(struct) = 22 /\ {3, 4, 15} \subseteq DOMAIN struct
    BY <2>1 DEF LaunchCoin
  <2> HIDE DEF struct
  <2>3. k[15] = coin_config(k[2])
    BY <1>a, <2>2
  <2>4. global_config \in DOMAIN acc /\ platform_allowlist \in DOMAIN acc
    BY <1>a, <2>2
  <2> DEFINE a == coin_config(k[2])
             held == CoinConfig(k[2], k[8], "bonding")
  <2>5. Writes(ix, acc) = Put(acc, a, held)
    BY <1>6, <2>3 DEF Writes
  <2>6. Stands(a, held) /\ Rests(a, held, DOMAIN acc \cup {a})
    BY <2>4 DEF Stands, Rests, CoinConfig
  <2> HIDE DEF a, held
  <2> QED
    BY <2>5, <2>6, PutTidy
<1>7. CASE ix.name = "sync_graduation"
  <2> DEFINE m == k[3]
  <2>1. struct = SyncGraduation(k)
    BY <1>7 DEF Struct, Setters
  <2>2. /\ struct[2] = Mut(Account(coin_config(m)))
        /\ Len(struct) = 8 /\ 2 \in DOMAIN struct
    BY <2>1 DEF SyncGraduation
  <2> HIDE DEF struct, m
  <2>3. k[2] = coin_config(m) /\ coin_config(m) \in DOMAIN acc
    BY <1>a, <2>2
  <2>4. Writes(ix, acc) =
          [acc EXCEPT ![coin_config(m)].status = "graduated",
                      ![coin_config(m)].damm_pool = k[6],
                      ![coin_config(m)].locked_position = k[7]]
    BY <1>7, <2>3 DEF Writes
  <2>5. coin_config(m)[3] = m
    BY Addresses
  <2>6. NamesPool(m, k[6], k[7])
    BY <1>7, <2>3, <2>5 DEF Encoded
  <2>7. Tidy([acc EXCEPT ![coin_config(m)].status = "graduated",
                         ![coin_config(m)].damm_pool = k[6],
                         ![coin_config(m)].locked_position = k[7]])
    <3> HIDE DEF k
    <3> QED
      BY <2>3, <2>6, CoinRewritten
  <2> QED
    BY <2>4, <2>7
<1>8. CASE ix.name = "settle_epoch"
  <2> DEFINE m == k[4]
             e == epoch_state(m, i)
             w == allowlist_state(m, i)
             mints == d.allowed_mints[2]
             mid == Put(acc, e, EpochState(m, i))
             after == Put(mid, w, AllowlistState(m, mints))
  <2>1. struct = SettleEpoch(k, g, i)
    BY <1>8 DEF Struct, Setters
  <2>2. /\ struct[3] = Account(coin_config(m))
        /\ struct[7] = Account(Ata(WSOL_MINT, payout_authority(m)))
        /\ struct[8] = Created(e) /\ struct[9] = Created(w)
        /\ Len(struct) = 11 /\ {3, 7, 8, 9} \subseteq DOMAIN struct
    BY <2>1 DEF SettleEpoch
  <2> HIDE DEF struct, m, e, w, i, mints
  <2>3. k[8] = e /\ k[9] = w
    BY <1>a, <2>2
  <2>4. {coin_config(m), Ata(WSOL_MINT, payout_authority(m))} \subseteq DOMAIN acc
    BY <1>a, <2>2
  <2>5. Writes(ix, acc) = after
    BY <1>8, <2>3 DEF Writes, m, i, mints
  <2> HIDE DEF d
  <2>6. Tidy(after)
    BY <2>4, RoundTidy DEF e, w
  <2> QED
    BY <2>5, <2>6
<1>9. CASE ix.name = "swap_payout"
  <2> DEFINE m == k[4]
             out == k[9]
             b == bucket_state(m, i, out)
             held == BucketState(epoch_state(m, i), out)
  <2>1. struct = SwapPayout(k, g, i, pinned)
    BY <1>9 DEF Struct, Setters
  <2>2. /\ struct[6] = Mut(Account(epoch_state(m, i)))
        /\ struct[8] = Created(b)
        /\ struct[12] = Mut(Account(Ata(out, payout_authority(m))))
        /\ Len(struct) = 15 /\ {6, 8, 12} \subseteq DOMAIN struct
    BY <2>1 DEF SwapPayout
  <2> HIDE DEF struct, m, out, b, i
  <2>3. k[6] = epoch_state(m, i) /\ k[8] = b
    BY <1>a, <2>2
  <2>4. Ata(out, payout_authority(m)) \in DOMAIN acc
    BY <1>a, <2>2
  <2>5. Writes(ix, acc) = Put(acc, b, held)
    BY <1>9, <2>3 DEF Writes, out
  <2>6. b[3] = m /\ b[4] = i /\ b = bucket_state(m, i, out)
    BY Addresses DEF b
  <2>7. held.type = "BucketState" /\ held.out_mint = out
    BY DEF BucketState
  <2>8. Stands(b, held)
    BY <2>6, <2>7 DEF Stands
  <2>9. Rests(b, held, DOMAIN acc \cup {b})
    BY <2>4, <2>6, <2>7 DEF Rests
  <2> HIDE DEF held
  <2> QED
    BY <2>5, <2>8, <2>9, PutTidy
<1>10. CASE ix.name \in Setters \cup {"claim_and_sweep", "distribute_batch"}
  <2>1. Writes(ix, acc) = acc
    BY <1>10 DEF Writes, Setters
  <2> QED
    BY <2>1
<1> QED
  BY <1>1, <1>2, <1>3, <1>4, <1>5, <1>6, <1>7, <1>8, <1>9, <1>10 DEF Names

----------------------------------------------------------------------------
(* What the client's reads find.                                           *)
LEMMA Pdas ==
  ASSUME NEW m, NEW i, NEW o
  PROVE  /\ pdas_global = global_config
         /\ pdas_denylist = denylist_state
         /\ pdas_platformAllowlist = platform_allowlist
         /\ pdas_coinConfig(m) = coin_config(m)
         /\ pdas_feeClaimer = fee_claimer
         /\ pdas_feeAuthority(m) = fee_authority(m)
         /\ pdas_payoutAuthority(m) = payout_authority(m)
         /\ pdas_revenueAuthority = revenue_authority
         /\ pdas_epochState(m, i) = epoch_state(m, i)
         /\ pdas_allowlistState(m, i) = allowlist_state(m, i)
         /\ pdas_bucketState(m, i, o) = bucket_state(m, i, o)
  BY DEF pdas_global, pdas_denylist, pdas_platformAllowlist, pdas_coinConfig,
       pdas_feeClaimer, pdas_feeAuthority, pdas_payoutAuthority,
       pdas_revenueAuthority, pdas_epochState, pdas_allowlistState,
       pdas_bucketState, global_config, denylist_state, platform_allowlist,
       coin_config, fee_claimer, fee_authority, payout_authority,
       revenue_authority, epoch_state, allowlist_state, bucket_state

LEMMA LaunchedIs ==
  ASSUME Tidy(accounts), NEW m \in Launched
  PROVE  /\ coin_config(m) \in DOMAIN accounts
         /\ CoinHeld(m) = accounts[coin_config(m)]
         /\ accounts[coin_config(m)].of = m
         /\ NamesPool(m, CoinHeld(m).damm_pool, CoinHeld(m).locked_position)
         /\ {global_config, platform_allowlist} \subseteq DOMAIN accounts
<1>1. PICK a \in DOMAIN accounts : accounts[a].type = "CoinConfig" /\ m = accounts[a].of
  BY DEF Launched, allCoinConfigs
<1>2. a = coin_config(m)
  <2>1. Stands(a, accounts[a])
    BY DEF Tidy, AllStand
  <2> QED
    BY <1>1, <2>1 DEF Stands
<1>3. CoinHeld(m) = accounts[coin_config(m)]
  BY Pdas DEF CoinHeld
<1> QED
  BY <1>1, <1>2, <1>3, CoinStands

LEMMA EpochFound ==
  ASSUME Tidy(accounts), NEW m, NEW e \in epochsForMint(accounts, m)
  PROVE  /\ e \in DOMAIN accounts
         /\ e = epoch_state(m, accounts[e].index)
         /\ coin_config(m) \in DOMAIN accounts
         /\ allowlist_state(m, accounts[e].index) \in DOMAIN accounts
         /\ Ata(WSOL_MINT, payout_authority(m)) \in DOMAIN accounts
<1> DEFINE held == accounts[e]
<1>1. e \in DOMAIN accounts /\ held.type = "EpochState" /\ held.of = m
  BY DEF epochsForMint, Discovered
<1>2. Stands(e, held) /\ Rests(e, held, DOMAIN accounts)
  BY <1>1 DEF Tidy, AllStand, AllRest
<1> HIDE DEF held
<1>3. e = epoch_state(m, held.index)
  BY <1>1, <1>2 DEF Stands
<1> QED
  BY <1>1, <1>2, <1>3 DEF Rests, held

LEMMA BucketFound ==
  ASSUME Tidy(accounts), NEW m, NEW i,
         NEW b \in bucketsForEpoch(accounts, epoch_state(m, i))
  PROVE  /\ b \in DOMAIN accounts
         /\ b = bucket_state(m, i, accounts[b].out_mint)
         /\ Ata(accounts[b].out_mint, payout_authority(m)) \in DOMAIN accounts
<1> DEFINE held == accounts[b]
<1>1. b \in DOMAIN accounts /\ held.type = "BucketState" /\ held.of = epoch_state(m, i)
  BY DEF bucketsForEpoch, Discovered
<1>2. Stands(b, held) /\ Rests(b, held, DOMAIN accounts)
  BY <1>1 DEF Tidy, AllStand, AllRest
<1> HIDE DEF held
<1>3. /\ b = bucket_state(b[3], b[4], held.out_mint)
      /\ held = BucketState(epoch_state(b[3], b[4]), held.out_mint)
  BY <1>1, <1>2 DEF Stands
<1>4. epoch_state(b[3], b[4]) = epoch_state(m, i)
  BY <1>1, <1>3 DEF BucketState
<1>5. b[3] = m /\ b[4] = i
  <2>1. <<"pda", "epoch", b[3], b[4]>> = <<"pda", "epoch", m, i>>
    BY <1>4, Addresses
  <2> QED
    BY <2>1
<1>6. Ata(held.out_mint, payout_authority(m)) \in DOMAIN accounts
  BY <1>1, <1>2, <1>5 DEF Rests
<1> QED
  BY <1>1, <1>3, <1>5, <1>6 DEF held

----------------------------------------------------------------------------
(* The flags an encoder gives meet the check of the struct.                *)
LEMMA Passes ==
  ASSUME NEW x, NEW there
  PROVE  /\ Checked(UncheckedAccount, ro(x), there)
         /\ Checked(Mut(UncheckedAccount), rw(x), there)
         /\ Checked(Address(x), ro(x), there)
         /\ Checked(Signer, Signed(ro(x)), there)
         /\ Checked(Mut(Signer), Signed(rw(x)), there)
         /\ Checked(Is(x), Signed(ro(x)), there)
         /\ Checked(Mut(Is(x)), Signed(rw(x)), there)
         /\ x \in there => Checked(Account(x), ro(x), there)
         /\ x \in there => Checked(Mut(Account(x)), rw(x), there)
         /\ x \notin there => Checked(Created(x), rw(x), there)
<1> USE DEF Checked, UncheckedAccount, Mut, Address, Signer, Is, Account, Created,
            Signed, ro, rw
<1>1. /\ Checked(UncheckedAccount, ro(x), there)
      /\ Checked(Mut(UncheckedAccount), rw(x), there)
      /\ Checked(Address(x), ro(x), there)
  OBVIOUS
<1>2. /\ Checked(Signer, Signed(ro(x)), there)
      /\ Checked(Mut(Signer), Signed(rw(x)), there)
  OBVIOUS
<1>3. /\ Checked(Is(x), Signed(ro(x)), there)
      /\ Checked(Mut(Is(x)), Signed(rw(x)), there)
  OBVIOUS
<1>4. /\ x \in there => Checked(Account(x), ro(x), there)
      /\ x \in there => Checked(Mut(Account(x)), rw(x), there)
      /\ x \notin there => Checked(Created(x), rw(x), there)
  OBVIOUS
<1> QED
  BY <1>1, <1>2, <1>3, <1>4

LEMMA Metas ==
  ASSUME NEW x
  PROVE  /\ ro(x).key = x /\ rw(x).key = x
         /\ Signed(ro(x)).key = x /\ Signed(rw(x)).key = x
         /\ ~ro(x).signer /\ ~rw(x).signer
  BY DEF ro, rw, Signed

LEMMA GivenIs ==
  ASSUME NEW ix, KeysInOrder(ix), Len(ix.keys) <= 32
  PROVE  \A n \in 1 .. Len(ix.keys) : Given(ix)[n] = ix.keys[n].key
  BY DEF Given, KeysInOrder

(* The same before an instruction is in a transaction.                     *)
AcceptedNow(ix, signers, creates) ==
  LET before == CreateAtas(accounts, creates) IN
  /\ SignersSigned(ix, signers)
  /\ Validates(Struct(ix, config, before, JUPITER_PROGRAM), ix.keys, DOMAIN before)
  /\ Allows(ix, config, before)

LEMMA SubmitFresh ==
  ASSUME Fresh, NEW ix, NEW signers, NEW creates, NEW closes, NEW means,
         Submit(Transaction(ix, signers, creates, closes, means)),
         Encoded(ix), AcceptedNow(ix, signers, creates),
         \A a \in creates : a = Ata(a[2], a[3]),
         \A a \in closes : \E k \in Keys : a = Ata(WSOL_MINT, k)
  PROVE  Fresh'
<1>1. PICK t : t = Transaction(ix, signers, creates, closes, means)
  OBVIOUS
<1>2. /\ t.ix = ix /\ t.creates = creates /\ t.closes = closes
      /\ t.signers = signers /\ t.seen = <<config, accounts>>
  BY <1>1 DEF Transaction
<1>3. t.seen[1] = config /\ t.seen[2] = accounts
  BY <1>2
<1>4. FlightFresh(t)
  <2>1. Accepted(t, config, accounts, JUPITER_PROGRAM)
    BY <1>2 DEF Accepted, AcceptedNow
  <2> QED
    BY <1>2, <1>3, <2>1 DEF FlightFresh
<1>5. flight' = flight \cup {t} /\ accounts' = accounts
  BY <1>1 DEF Submit
<1> QED
  BY <1>4, <1>5 DEF Fresh, FlightsFresh

(* Where no account is created first.                                      *)
LEMMA PlainFresh ==
  ASSUME Fresh, NEW ix, NEW signer, NEW means,
         Submit(Transaction(ix, {signer}, {}, {}, means)),
         Encoded(ix), SignersSigned(ix, {signer}),
         Validates(Struct(ix, config, accounts, JUPITER_PROGRAM), ix.keys, DOMAIN accounts),
         Allows(ix, config, accounts)
  PROVE  Fresh'
<1>1. CreateAtas(accounts, {}) = accounts
  BY DEF CreateAtas, Fresh, Tidy, IsFunction
<1>2. AcceptedNow(ix, {signer}, {})
  BY <1>1 DEF AcceptedNow
<1> QED
  BY <1>2, SubmitFresh

----------------------------------------------------------------------------
(* The instructions of the admin.                                          *)
LEMMA SetterFresh ==
  ASSUME Fresh, NEW ix, NEW means, Configure(ix, means), ix.name \in Setters,
         ix.keys = adminKeys(config.admin), Allows(ix, config, accounts)
  PROVE  Fresh'
<1>1. /\ ix.keys = <<rw(global_config), Signed(ro(config.admin))>>
      /\ global_config \in DOMAIN accounts
      /\ Submit(Transaction(ix, {config.admin}, {}, {}, means))
  BY Pdas DEF adminKeys, Configure
<1>2. Encoded(ix)
  BY <1>1 DEF Encoded, Names, Setters
<1>3. Struct(ix, config, accounts, JUPITER_PROGRAM) = <<Mut(Account(global_config)), Is(config.admin)>>
  BY DEF Struct, Setters, AdminOnly
<1>4. Validates(Struct(ix, config, accounts, JUPITER_PROGRAM), ix.keys, DOMAIN accounts)
  BY <1>1, <1>3, Passes DEF Validates
<1>5. SignersSigned(ix, {config.admin})
  BY <1>1, Metas DEF SignersSigned
<1> QED
  BY <1>1, <1>2, <1>4, <1>5, PlainFresh

LEMMA SettersFresh ==
  ASSUME Fresh,
         \/ SetParamsSent \/ SetKeeperSent \/ SetAdminSent
         \/ SetPlatformWalletSent \/ SetPlatformConfigKeySent
         \/ SetUsdcMintSent \/ SetH2eMintSent \/ PauseSent
  PROVE  Fresh'
<1>1. ASSUME NEW ix, NEW means, Configure(ix, means),
             ix.name \in Setters \ {"set_h2e_mint"},
             ix.keys = adminKeys(config.admin)
      PROVE  Fresh'
  <2>1. Allows(ix, config, accounts)
    BY <1>1 DEF Allows, Setters
  <2> QED
    BY <1>1, <2>1, SetterFresh
<1>2. ASSUME NEW x, NEW y, NEW admin
      PROVE  /\ setParamsIx(x, admin).name \in Setters \ {"set_h2e_mint"}
             /\ setParamsIx(x, admin).keys = adminKeys(admin)
             /\ setKeeperIx(x, admin).name \in Setters \ {"set_h2e_mint"}
             /\ setKeeperIx(x, admin).keys = adminKeys(admin)
             /\ setAdminIx(x, admin).name \in Setters \ {"set_h2e_mint"}
             /\ setAdminIx(x, admin).keys = adminKeys(admin)
             /\ setPlatformWalletIx(x, admin).name \in Setters \ {"set_h2e_mint"}
             /\ setPlatformWalletIx(x, admin).keys = adminKeys(admin)
             /\ setPlatformConfigKeyIx(x, admin).name \in Setters \ {"set_h2e_mint"}
             /\ setPlatformConfigKeyIx(x, admin).keys = adminKeys(admin)
             /\ setUsdcMintIx(x, admin).name \in Setters \ {"set_h2e_mint"}
             /\ setUsdcMintIx(x, admin).keys = adminKeys(admin)
             /\ pauseIx(x, y, admin).name \in Setters \ {"set_h2e_mint"}
             /\ pauseIx(x, y, admin).keys = adminKeys(admin)
  BY InstructionFields
     DEF setParamsIx, setKeeperIx, setAdminIx, setPlatformWalletIx,
         setPlatformConfigKeyIx, setUsdcMintIx, pauseIx, Setters
<1>3. CASE SetParamsSent
  <2>1. \E x, means : Configure(setParamsIx(x, config.admin), means)
    BY <1>3 DEF SetParamsSent
  <2> QED
    BY <1>1, <1>2, <2>1
<1>4. CASE SetKeeperSent
  BY <1>1, <1>2, <1>4 DEF SetKeeperSent
<1>5. CASE SetAdminSent
  BY <1>1, <1>2, <1>5 DEF SetAdminSent
<1>6. CASE SetPlatformWalletSent
  BY <1>1, <1>2, <1>6 DEF SetPlatformWalletSent
<1>7. CASE SetPlatformConfigKeySent
  BY <1>1, <1>2, <1>7 DEF SetPlatformConfigKeySent
<1>8. CASE SetUsdcMintSent
  BY <1>1, <1>2, <1>8 DEF SetUsdcMintSent
<1>9. CASE PauseSent
  BY <1>1, <1>2, <1>9 DEF PauseSent
<1>10. CASE SetH2eMintSent
  <2>1. PICK m : Configure(setH2eMintIx(m, IF m = Zero THEN No ELSE Yes, config.admin),
                           [h2e_mint |-> m])
    BY <1>10 DEF SetH2eMintSent
  <2> DEFINE enable == IF m = Zero THEN No ELSE Yes
             ix == setH2eMintIx(m, enable, config.admin)
  <2>2. /\ ix.name = "set_h2e_mint" /\ ix.keys = adminKeys(config.admin)
        /\ ix.data = encode({"mint", "enable"}, [mint |-> m, enable |-> enable])
    BY InstructionFields DEF setH2eMintIx
  <2>3. ix.data.mint = m /\ ix.data.enable = enable
    BY <2>2 DEF encode
  <2>4. Yes # No
    BY DEF Yes, No
  <2> HIDE DEF ix
  <2>5. Allows(ix, config, accounts)
    BY <2>2, <2>3, <2>4 DEF Allows
  <2> QED
    BY <2>1, <2>2, <2>5, SetterFresh DEF Setters, ix
<1> QED
  BY <1>3, <1>4, <1>5, <1>6, <1>7, <1>8, <1>9, <1>10

LEMMA InitializeFresh ==
  ASSUME Fresh, InitializeGlobalSent
  PROVE  Fresh'
<1> DEFINE ix == initializeGlobalIx(FirstConfig, Key(Deployer))
<1>1. /\ ix.name = "initialize_global"
      /\ ix.keys = <<Signed(rw(Key(Deployer))), rw(global_config), ro(PROGRAM_ID),
                     ro(pdas_programData), ro(SYSTEM_PROGRAM)>>
  BY InstructionFields, Pdas DEF initializeGlobalIx
<1>2. /\ global_config \notin DOMAIN accounts
      /\ Submit(Transaction(ix, {Key(Deployer)}, {}, {}, FirstConfig))
  BY DEF InitializeGlobalSent
<1> HIDE DEF ix
<1>3. Encoded(ix)
  BY <1>1 DEF Encoded, Names
<1>4. Struct(ix, config, accounts, JUPITER_PROGRAM) =
        <<Mut(Is(Key(Deployer))), Created(global_config), Address(PROGRAM_ID),
          Address(pdas_programData), Address(SYSTEM_PROGRAM)>>
  BY <1>1 DEF Struct, Setters, InitializeGlobal, pdas_programData
<1>5. Validates(Struct(ix, config, accounts, JUPITER_PROGRAM), ix.keys, DOMAIN accounts)
  BY <1>1, <1>2, <1>4, Passes DEF Validates
<1>6. SignersSigned(ix, {Key(Deployer)})
  BY <1>1, Metas DEF SignersSigned
<1>7. Allows(ix, config, accounts)
  BY <1>1 DEF Allows
<1> QED
  BY <1>2, <1>3, <1>5, <1>6, <1>7, PlainFresh

LEMMA ListsFresh ==
  ASSUME Fresh,
         \/ InitDenylistSent \/ SetDenylistSent
         \/ InitPlatformAllowlistSent \/ SetPlatformAllowlistSent
  PROVE  Fresh'
<1>1. ASSUME NEW ix, NEW list, Configure(ix, <<>>),
             \/ /\ ix.name = "init_denylist"
                /\ list = denylist_state
             \/ /\ ix.name = "init_platform_allowlist"
                /\ list = platform_allowlist,
             list \notin DOMAIN accounts,
             ix.keys = <<ro(global_config), Signed(rw(config.admin)), rw(list),
                         ro(SYSTEM_PROGRAM)>>
      PROVE  Fresh'
  <2>1. /\ global_config \in DOMAIN accounts
        /\ Submit(Transaction(ix, {config.admin}, {}, {}, <<>>))
    BY <1>1 DEF Configure
  <2>2. Encoded(ix)
    BY <1>1 DEF Encoded, Names
  <2>3. Struct(ix, config, accounts, JUPITER_PROGRAM) =
          <<Account(global_config), Mut(Is(config.admin)), Created(list),
            Address(SYSTEM_PROGRAM)>>
    BY <1>1 DEF Struct, Setters, InitDenylist, InitPlatformAllowlist
  <2>4. Validates(Struct(ix, config, accounts, JUPITER_PROGRAM), ix.keys, DOMAIN accounts)
    BY <1>1, <2>1, <2>3, Passes DEF Validates
  <2>5. SignersSigned(ix, {config.admin})
    BY <1>1, Metas DEF SignersSigned
  <2>6. Allows(ix, config, accounts)
    BY <1>1 DEF Allows
  <2> QED
    BY <2>1, <2>2, <2>4, <2>5, <2>6, PlainFresh
<1>2. ASSUME NEW ix, NEW list, Configure(ix, <<>>),
             \/ /\ ix.name = "set_denylist"
                /\ list = denylist_state
             \/ /\ ix.name = "set_platform_allowlist"
                /\ list = platform_allowlist,
             list \in DOMAIN accounts,
             ix.keys = <<ro(global_config), Signed(ro(config.admin)), rw(list)>>
      PROVE  Fresh'
  <2>1. /\ global_config \in DOMAIN accounts
        /\ Submit(Transaction(ix, {config.admin}, {}, {}, <<>>))
    BY <1>2 DEF Configure
  <2>2. Encoded(ix)
    BY <1>2 DEF Encoded, Names
  <2>3. Struct(ix, config, accounts, JUPITER_PROGRAM) =
          <<Account(global_config), Is(config.admin), Mut(Account(list))>>
    BY <1>2 DEF Struct, Setters, SetDenylist, SetPlatformAllowlist
  <2>4. Validates(Struct(ix, config, accounts, JUPITER_PROGRAM), ix.keys, DOMAIN accounts)
    BY <1>2, <2>1, <2>3, Passes DEF Validates
  <2>5. SignersSigned(ix, {config.admin})
    BY <1>2, Metas DEF SignersSigned
  <2>6. Allows(ix, config, accounts)
    BY <1>2 DEF Allows
  <2> QED
    BY <2>1, <2>2, <2>4, <2>5, <2>6, PlainFresh
<1>3. CASE InitDenylistSent
  <2> DEFINE ix == initDenylistIx(config.admin)
  <2>1. /\ ix.name = "init_denylist"
        /\ ix.keys = <<ro(global_config), Signed(rw(config.admin)),
                       rw(denylist_state), ro(SYSTEM_PROGRAM)>>
    BY InstructionFields, Pdas DEF initDenylistIx
  <2>2. Configure(ix, <<>>) /\ denylist_state \notin DOMAIN accounts
    BY <1>3 DEF InitDenylistSent
  <2> HIDE DEF ix
  <2> QED
    BY <1>1, <2>1, <2>2
<1>4. CASE InitPlatformAllowlistSent
  <2> DEFINE ix == initPlatformAllowlistIx(config.admin)
  <2>1. /\ ix.name = "init_platform_allowlist"
        /\ ix.keys = <<ro(global_config), Signed(rw(config.admin)),
                       rw(platform_allowlist), ro(SYSTEM_PROGRAM)>>
    BY InstructionFields, Pdas DEF initPlatformAllowlistIx
  <2>2. Configure(ix, <<>>) /\ platform_allowlist \notin DOMAIN accounts
    BY <1>4 DEF InitPlatformAllowlistSent
  <2> HIDE DEF ix
  <2> QED
    BY <1>1, <2>1, <2>2
<1>5. CASE SetDenylistSent
  <2>1. PICK kind, add : Configure(setDenylistIx(kind, WSOL_MINT, add, config.admin), <<>>)
    BY <1>5 DEF SetDenylistSent
  <2> DEFINE ix == setDenylistIx(kind, WSOL_MINT, add, config.admin)
  <2>2. /\ ix.name = "set_denylist"
        /\ ix.keys = <<ro(global_config), Signed(ro(config.admin)), rw(denylist_state)>>
    BY InstructionFields, Pdas DEF setDenylistIx
  <2>3. Configure(ix, <<>>) /\ denylist_state \in DOMAIN accounts
    BY <1>5, <2>1 DEF SetDenylistSent
  <2> HIDE DEF ix
  <2> QED
    BY <1>2, <2>2, <2>3
<1>6. CASE SetPlatformAllowlistSent
  <2>1. PICK m, add : Configure(setPlatformAllowlistIx(m, add, config.admin), <<>>)
    BY <1>6 DEF SetPlatformAllowlistSent
  <2> DEFINE ix == setPlatformAllowlistIx(m, add, config.admin)
  <2>2. /\ ix.name = "set_platform_allowlist"
        /\ ix.keys = <<ro(global_config), Signed(ro(config.admin)),
                       rw(platform_allowlist)>>
    BY InstructionFields, Pdas DEF setPlatformAllowlistIx
  <2>3. Configure(ix, <<>>) /\ platform_allowlist \in DOMAIN accounts
    BY <1>6, <2>1 DEF SetPlatformAllowlistSent
  <2> HIDE DEF ix
  <2> QED
    BY <1>2, <2>2, <2>3
<1> QED
  BY <1>3, <1>4, <1>5, <1>6

LEMMA CoinAdminFresh ==
  ASSUME Fresh, RetireCoinSent \/ SetGraduationSent
  PROVE  Fresh'
<1>1. ASSUME NEW ix, NEW m \in Launched, Configure(ix, <<>>),
             ix.name \in {"retire_coin", "set_graduation"}, Encoded(ix),
             ix.keys = <<ro(global_config), Signed(ro(config.admin)), rw(coin_config(m))>>
      PROVE  Fresh'
  <2>1. /\ global_config \in DOMAIN accounts
        /\ Submit(Transaction(ix, {config.admin}, {}, {}, <<>>))
    BY <1>1 DEF Configure
  <2>2. coin_config(m) \in DOMAIN accounts /\ accounts[coin_config(m)].of = m
    BY LaunchedIs DEF Fresh
  <2>3. Given(ix)[3] = coin_config(m)
    BY <1>1, Metas DEF Given
  <2>4. CoinAt(accounts, Given(ix)[3]) = m
    BY <2>2, <2>3 DEF CoinAt
  <2>5. Struct(ix, config, accounts, JUPITER_PROGRAM) =
          <<Account(global_config), Is(config.admin), Mut(Account(coin_config(m)))>>
    BY <1>1, <2>4 DEF Struct, Setters, RetireCoin, SetGraduation
  <2>6. Validates(Struct(ix, config, accounts, JUPITER_PROGRAM), ix.keys, DOMAIN accounts)
    BY <1>1, <2>1, <2>2, <2>5, Passes DEF Validates
  <2>7. SignersSigned(ix, {config.admin})
    BY <1>1, Metas DEF SignersSigned
  <2>8. Allows(ix, config, accounts)
    BY <1>1 DEF Allows
  <2> QED
    BY <1>1, <2>1, <2>6, <2>7, <2>8, PlainFresh
<1>2. CASE RetireCoinSent
  <2>1. PICK m \in Launched : Configure(retireCoinIx(m, config.admin), <<>>)
    BY <1>2 DEF RetireCoinSent
  <2> DEFINE ix == retireCoinIx(m, config.admin)
  <2>2. /\ ix.name = "retire_coin"
        /\ ix.keys = <<ro(global_config), Signed(ro(config.admin)), rw(coin_config(m))>>
    BY InstructionFields, Pdas DEF retireCoinIx
  <2> HIDE DEF ix
  <2>3. Encoded(ix)
    BY <2>2 DEF Encoded, Names
  <2> QED
    BY <1>1, <2>1, <2>2, <2>3 DEF ix
<1>3. CASE SetGraduationSent
  <2>1. PICK m \in Launched, status \in {"Bonding", "Graduated"} :
          Configure(setGraduationIx(m, status,
                      IF status = "Bonding" THEN Zero ELSE DammPool(m),
                      IF status = "Bonding" THEN Zero ELSE Position(m), config.admin),
                    <<>>)
    BY <1>3 DEF SetGraduationSent
  <2> DEFINE pool == IF status = "Bonding" THEN Zero ELSE DammPool(m)
             position == IF status = "Bonding" THEN Zero ELSE Position(m)
             ix == setGraduationIx(m, status, pool, position, config.admin)
  <2>2. /\ ix.name = "set_graduation"
        /\ ix.keys = <<ro(global_config), Signed(ro(config.admin)), rw(coin_config(m))>>
        /\ ix.data.damm_pool = pool /\ ix.data.locked_position = position
    BY InstructionFields, Pdas DEF setGraduationIx, encode
  <2>3. Configure(ix, <<>>)
    BY <2>1
  <2> HIDE DEF ix
  <2>4. Given(ix)[3] = coin_config(m)
    BY <2>2, Metas DEF Given
  <2>5. Given(ix)[3][3] = m
    BY <2>4, Addresses
  <2>6. Encoded(ix)
    BY <2>2, <2>5 DEF Encoded, Names, NamesPool
  <2> QED
    BY <1>1, <2>2, <2>3, <2>6
<1> QED
  BY <1>2, <1>3

----------------------------------------------------------------------------
(* The instructions on coins.                                              *)
LEMMA SyncFresh ==
  ASSUME Fresh, SyncGraduationSent
  PROVE  Fresh'
<1>1. PICK m \in Launched, caller \in Keys :
        /\ CoinHeld(m).status = "bonding"
        /\ Send(syncGraduationIx(caller, m, CoinHeld(m).dbc_pool), caller)
  BY DEF SyncGraduationSent
<1> DEFINE pool == CoinHeld(m).dbc_pool
           ix == syncGraduationIx(caller, m, pool)
           k == Given(ix)
<1>2. /\ ix.name = "sync_graduation"
      /\ ix.keys = <<Signed(ro(caller)), rw(coin_config(m)), ro(m), ro(fee_claimer),
                     ro(pool), ro(DammPool(m)), ro(Position(m)),
                     ro(<<"positionNft", m>>)>>
  BY InstructionFields, Pdas DEF syncGraduationIx
<1>3. Submit(Transaction(ix, {caller}, {}, {}, <<>>))
  BY <1>1 DEF Send
<1>4. coin_config(m) \in DOMAIN accounts /\ CoinHeld(m) = accounts[coin_config(m)]
  BY LaunchedIs DEF Fresh
<1> HIDE DEF ix
<1>5. /\ k[2] = coin_config(m) /\ k[3] = m /\ k[5] = pool
      /\ k[6] = DammPool(m) /\ k[7] = Position(m)
  BY <1>2, Metas DEF Given
<1>6. Encoded(ix)
  <2>1. k[2][3] = m
    BY <1>5, Addresses
  <2>2. Len(ix.keys) = 8 /\ DOMAIN ix.keys = 1 .. 8
    BY <1>2
  <2> HIDE DEF k
  <2>3. NamesPool(k[2][3], k[6], k[7])
    BY <1>5, <2>1 DEF NamesPool
  <2> QED
    BY <1>2, <2>2, <2>3 DEF Encoded, Names, k
<1>7. Struct(ix, config, accounts, JUPITER_PROGRAM) =
        <<Signer, Mut(Account(coin_config(m))), UncheckedAccount,
          Address(fee_claimer), UncheckedAccount, UncheckedAccount,
          UncheckedAccount, UncheckedAccount>>
  BY <1>2, <1>5 DEF Struct, Setters, SyncGraduation
<1>8. Validates(Struct(ix, config, accounts, JUPITER_PROGRAM), ix.keys, DOMAIN accounts)
  BY <1>2, <1>4, <1>7, Passes DEF Validates
<1>9. SignersSigned(ix, {caller})
  BY <1>2, Metas DEF SignersSigned
<1>10. Allows(ix, config, accounts)
  BY <1>1, <1>2, <1>4, <1>5 DEF Allows
<1> QED
  BY <1>3, <1>6, <1>8, <1>9, <1>10, PlainFresh

(* What is created first is not what the struct wants to be new, and what  *)
(* is there stays.                                                         *)
LEMMA CreatedFirst ==
  ASSUME Fresh, NEW atas, \A a \in atas : a = Ata(a[2], a[3])
  PROVE  LET before == CreateAtas(accounts, atas) IN
         /\ DOMAIN before = DOMAIN accounts \cup atas
         /\ \A a \in DOMAIN accounts : before[a] = accounts[a]
         /\ \A a : a[1] = "pda" /\ a \notin DOMAIN accounts => a \notin DOMAIN before
<1>1. \A a \in atas : a[1] = "ata"
  <2> TAKE a \in atas
  <2> QED
    BY DEF Ata
<1> QED
  BY <1>1, CreateTidy DEF Fresh

LEMMA LaunchFresh ==
  ASSUME Fresh, LaunchSent
  PROVE  Fresh'
<1>1. PICK c \in Coins, p \in Keys, out \in platformAllowlistMints(accounts),
           wraps \in BOOLEAN :
        LET creates == IF wraps THEN wrapSolIxs(p) ELSE {}
            closes == IF wraps THEN closeWsolIx(p) ELSE {} IN
        /\ pdas_coinConfig(Mint(c)) \notin DOMAIN accounts
        /\ Submit(Transaction(
             launchCoinIx([dev_buy_lamports |-> IF wraps THEN Yes ELSE No,
                           default_payout_mint |-> out],
               [payer |-> p, baseMint |-> Mint(c),
                config |-> config.platform_config_key,
                platformWallet |-> config.platform_wallet]),
             {p, Mint(c)}, creates, closes, <<>>))
  BY DEF LaunchSent
<1>2. global_config \in DOMAIN accounts /\ config.pause_launches = No
  BY DEF LaunchSent
<1> DEFINE m == Mint(c)
           creates == IF wraps THEN wrapSolIxs(p) ELSE {}
           closes == IF wraps THEN closeWsolIx(p) ELSE {}
           buys == IF wraps THEN Yes ELSE No
           params == [dev_buy_lamports |-> buys, default_payout_mint |-> out]
           a == [payer |-> p, baseMint |-> m, config |-> config.platform_config_key,
                 platformWallet |-> config.platform_wallet]
           ix == launchCoinIx(params, a)
           before == CreateAtas(accounts, creates)
           k == Given(ix)
<1>3. /\ coin_config(m) \notin DOMAIN accounts
      /\ Submit(Transaction(ix, {p, m}, creates, closes, <<>>))
  BY <1>1, Pdas
<1>4. /\ platform_allowlist \in DOMAIN accounts
      /\ out \in accounts[platform_allowlist].mints
  BY Pdas DEF platformAllowlistMints
<1>5. PICK pool, baseVault, quoteVault, metadata, quoteAta, baseAta :
        ix.keys =
          <<Signed(rw(p)), Signed(rw(m)), ro(global_config), ro(platform_allowlist),
            ro(config.platform_config_key), ro(DBC_POOL_AUTHORITY), ro(WSOL_MINT),
            rw(pool), rw(baseVault), rw(quoteVault), rw(metadata),
            ro(METADATA_PROGRAM), rw(quoteAta), rw(baseAta), rw(coin_config(m)),
            rw(config.platform_wallet), ro(TOKEN_PROGRAM), ro(TOKEN_PROGRAM),
            ro(ATA_PROGRAM), ro(DBC_EVENT_AUTHORITY), ro(DBC_PROGRAM),
            ro(SYSTEM_PROGRAM)>>
  <2>1. a.payer = p /\ a.baseMint = m /\ a.config = config.platform_config_key
        /\ a.platformWallet = config.platform_wallet
    OBVIOUS
  <2> HIDE DEF a, params, m
  <2>2. launchCoinDerived(a).coinConfig = coin_config(m)
    BY <2>1, Pdas DEF launchCoinDerived
  <2> DEFINE d == launchCoinDerived(a)
  <2>3. ix.keys =
          <<Signed(rw(p)), Signed(rw(m)), ro(global_config), ro(platform_allowlist),
            ro(config.platform_config_key), ro(DBC_POOL_AUTHORITY), ro(WSOL_MINT),
            rw(d.pool), rw(d.baseVault), rw(d.quoteVault), rw(d.mintMetadata),
            ro(METADATA_PROGRAM), rw(d.devQuoteAta), rw(d.devBaseAta),
            rw(coin_config(m)),
            rw(config.platform_wallet), ro(TOKEN_PROGRAM), ro(TOKEN_PROGRAM),
            ro(ATA_PROGRAM), ro(DBC_EVENT_AUTHORITY), ro(DBC_PROGRAM),
            ro(SYSTEM_PROGRAM)>>
    BY <2>1, <2>2, InstructionFields, Pdas DEF launchCoinIx
  <2> QED
    BY <2>3
<1>6. ix.name = "launch_coin" /\ ix.data.default_payout_mint = out
  <2>1. ix.name = "launch_coin"
        /\ ix.data = encode({"dev_buy_lamports", "default_payout_mint"}, params)
    <3> HIDE DEF params, a
    <3> QED
      BY InstructionFields DEF launchCoinIx
  <2>2. "default_payout_mint" \in DOMAIN params /\ params.default_payout_mint = out
    OBVIOUS
  <2> HIDE DEF params, ix
  <2> QED
    BY <2>1, <2>2 DEF encode
<1> HIDE DEF ix
<1>7. /\ k[2] = m /\ k[5] = config.platform_config_key
      /\ k[16] = config.platform_wallet
  <2>1. Len(ix.keys) = 22 /\ DOMAIN ix.keys = 1 .. 22
    BY <1>5
  <2>2. /\ ix.keys[2] = Signed(rw(m)) /\ ix.keys[5] = ro(config.platform_config_key)
        /\ ix.keys[16] = rw(config.platform_wallet)
    BY <1>5
  <2> QED
    BY <2>1, <2>2, Metas DEF Given
<1>8. Encoded(ix)
  <2>1. Len(ix.keys) = 22 /\ DOMAIN ix.keys = 1 .. 22
    BY <1>5
  <2> QED
    BY <1>6, <2>1 DEF Encoded, Names
<1>9. /\ \A x \in creates : x = Ata(x[2], x[3])
      /\ \A x \in closes : \E y \in Keys : x = Ata(WSOL_MINT, y)
  BY DEF wrapSolIxs, closeWsolIx, Ata
<1>10. /\ DOMAIN before = DOMAIN accounts \cup creates
       /\ \A x \in DOMAIN accounts : before[x] = accounts[x]
       /\ coin_config(m) \notin DOMAIN before
  <2>1. coin_config(m)[1] = "pda"
    BY Addresses
  <2> HIDE DEF creates, m
  <2> QED
    BY <1>3, <1>9, <2>1, CreatedFirst
<1> HIDE DEF before, creates, closes, m, k
<1>11. Struct(ix, config, before, JUPITER_PROGRAM) = LaunchCoin(k)
  BY <1>6 DEF Struct, Setters, k
<1>12. Validates(LaunchCoin(k), ix.keys, DOMAIN before)
  <2> DEFINE Ok(n) == Checked(LaunchCoin(k)[n], ix.keys[n], DOMAIN before)
  <2>1. Len(LaunchCoin(k)) = 22 /\ DOMAIN LaunchCoin(k) = 1 .. 22 /\ Len(ix.keys) = 22
    BY <1>5 DEF LaunchCoin
  <2>2. global_config \in DOMAIN before /\ platform_allowlist \in DOMAIN before
    BY <1>2, <1>4, <1>10
  <2>3. Ok(1) /\ Ok(2) /\ Ok(3) /\ Ok(4) /\ Ok(5) /\ Ok(6) /\ Ok(7)
    BY <1>5, <2>2, Passes DEF LaunchCoin
  <2>4. Ok(8) /\ Ok(9) /\ Ok(10) /\ Ok(11) /\ Ok(12) /\ Ok(13) /\ Ok(14)
    BY <1>5, Passes DEF LaunchCoin
  <2>5. Ok(15) /\ Ok(16) /\ Ok(17) /\ Ok(18)
    BY <1>5, <1>7, <1>10, Passes DEF LaunchCoin
  <2>6. Ok(19) /\ Ok(20) /\ Ok(21) /\ Ok(22)
    BY <1>5, Passes DEF LaunchCoin
  <2> HIDE DEF Ok
  <2>7. \A n \in 1 .. 22 : Ok(n)
    BY <2>3, <2>4, <2>5, <2>6
  <2> QED
    BY <2>1, <2>7 DEF Validates, Ok
<1>13. SignersSigned(ix, {p, m})
  <2>1. ASSUME NEW n \in 1 .. 22, n > 2 PROVE ~ix.keys[n].signer
    <3> DEFINE Unsigned(i) == ~ix.keys[i].signer
    <3>1. Unsigned(3) /\ Unsigned(4) /\ Unsigned(5) /\ Unsigned(6) /\ Unsigned(7)
      BY <1>5, Metas
    <3>2. Unsigned(8) /\ Unsigned(9) /\ Unsigned(10) /\ Unsigned(11) /\ Unsigned(12)
      BY <1>5, Metas
    <3>3. Unsigned(13) /\ Unsigned(14) /\ Unsigned(15) /\ Unsigned(16) /\ Unsigned(17)
      BY <1>5, Metas
    <3>4. Unsigned(18) /\ Unsigned(19) /\ Unsigned(20) /\ Unsigned(21) /\ Unsigned(22)
      BY <1>5, Metas
    <3> HIDE DEF Unsigned
    <3>5. Unsigned(n)
      BY <2>1, <3>1, <3>2, <3>3, <3>4
    <3> QED
      BY <3>5 DEF Unsigned
  <2>2. DOMAIN ix.keys = 1 .. 22 /\ ix.keys[1].key = p /\ ix.keys[2].key = m
    BY <1>5, Metas
  <2> QED
    BY <2>1, <2>2 DEF SignersSigned
<1>14. Allows(ix, config, before)
  <2>1. before[platform_allowlist] = accounts[platform_allowlist]
    BY <1>4, <1>10
  <2>2. LaunchAllows(ix, config, before)
    BY <1>2, <1>4, <1>6, <1>7, <2>1 DEF LaunchAllows, k
  <2> QED
    BY <1>6, <2>2 DEF Allows
<1>15. AcceptedNow(ix, {p, m}, creates)
  BY <1>11, <1>12, <1>13, <1>14 DEF AcceptedNow, before
<1> QED
  BY <1>3, <1>8, <1>9, <1>15, SubmitFresh

(* A sequence and what is appended to it.                                  *)
Sequential(s) == Len(s) \in Nat /\ s = [n \in 1 .. Len(s) |-> s[n]]

LEMMA AppendedIs ==
  ASSUME NEW s, NEW r, Sequential(s), Sequential(r)
  PROVE  /\ Len(s \o r) = Len(s) + Len(r)
         /\ DOMAIN (s \o r) = 1 .. (Len(s) + Len(r))
         /\ \A i \in 1 .. (Len(s) + Len(r)) :
              (s \o r)[i] = IF i <= Len(s) THEN s[i] ELSE r[i - Len(s)]
<1> DEFINE S == {s[n] : n \in 1 .. Len(s)} \cup {r[n] : n \in 1 .. Len(r)}
<1>1. s \in Seq(S)
  <2>1. [n \in 1 .. Len(s) |-> s[n]] \in [1 .. Len(s) -> S]
    OBVIOUS
  <2> HIDE DEF S
  <2> QED
    BY <2>1 DEF Sequential
<1>2. r \in Seq(S)
  <2>1. [n \in 1 .. Len(r) |-> r[n]] \in [1 .. Len(r) -> S]
    OBVIOUS
  <2> HIDE DEF S
  <2> QED
    BY <2>1 DEF Sequential
<1> HIDE DEF S
<1>3. /\ s \o r \in Seq(S)
      /\ Len(s \o r) = Len(s) + Len(r)
      /\ \A n \in 1 .. (Len(s) + Len(r)) :
           (s \o r)[n] = IF n <= Len(s) THEN s[n] ELSE r[n - Len(s)]
  BY <1>1, <1>2, ConcatProperties
<1>4. DOMAIN (s \o r) = 1 .. (Len(s) + Len(r))
  BY <1>3, LenProperties
<1> QED
  BY <1>3, <1>4

LEMMA AppendedAt ==
  ASSUME NEW s, NEW r, Sequential(s), Sequential(r), NEW n \in 1 .. Len(r)
  PROVE  (s \o r)[Len(s) + n] = r[n]
<1> DEFINE j == Len(s) + n
           whole == s \o r
<1>1. /\ j \in 1 .. (Len(s) + Len(r)) /\ ~(j <= Len(s)) /\ j - Len(s) = n
  BY DEF Sequential
<1>2. \A i \in 1 .. (Len(s) + Len(r)) :
        whole[i] = IF i <= Len(s) THEN s[i] ELSE r[i - Len(s)]
  BY AppendedIs, Zenon
<1> HIDE DEF j, whole
<1>3. whole[j] = r[n]
  BY <1>1, <1>2
<1> QED
  BY <1>3 DEF j, whole

LEMMA RailIs ==
  ASSUME NEW m
  PROVE  /\ Sequential(Rail(m)) /\ Len(Rail(m)) = 8
         /\ Rail(m)[1] = ro(CP_AMM_POOL_AUTHORITY)
         /\ Rail(m)[2] = ro(DammPool(m)) /\ Rail(m)[3] = rw(Position(m))
         /\ Rail(m)[7] = ro(CP_AMM_EVENT_AUTHORITY)
         /\ Rail(m)[8] = ro(CP_AMM_PROGRAM)
         /\ \A n \in 1 .. 8 : ~Rail(m)[n].signer
<1>1. Sequential(Rail(m)) /\ Len(Rail(m)) = 8
  BY DEF Rail, Sequential
<1>2. \A n \in 1 .. 8 : ~Rail(m)[n].signer
  BY Metas DEF Rail
<1> QED
  BY <1>1, <1>2 DEF Rail

(* The accounts given, when some are appended to the first.                *)
MoreGiven(ix, own, rest) ==
  /\ KeysInOrder(ix)
  /\ Len(ix.keys) = Len(own) + Len(rest)
  /\ \A n \in 1 .. Len(own) : ix.keys[n] = own[n] /\ Given(ix)[n] = own[n].key
  /\ \A n \in 1 .. Len(rest) :
       /\ ix.keys[Len(own) + n] = rest[n]
       /\ Given(ix)[Len(own) + n] = rest[n].key

LEMMA GivenMore ==
  ASSUME NEW own, Sequential(own), NEW rest, Sequential(rest),
         Len(own) + Len(rest) <= 32, NEW ix, ix.keys = own \o rest
  PROVE  MoreGiven(ix, own, rest)
<1>1. Len(own) \in Nat /\ Len(rest) \in Nat
  BY DEF Sequential
<1>2. /\ Len(ix.keys) = Len(own) + Len(rest)
      /\ DOMAIN ix.keys = 1 .. (Len(own) + Len(rest))
  BY AppendedIs, Zenon
<1>3. ASSUME NEW n \in 1 .. Len(own) PROVE ix.keys[n] = own[n]
  <2>1. \A i \in 1 .. (Len(own) + Len(rest)) :
          (own \o rest)[i] = IF i <= Len(own) THEN own[i] ELSE rest[i - Len(own)]
    BY AppendedIs, Zenon
  <2> QED
    BY <1>1, <2>1
<1>4. ASSUME NEW n \in 1 .. Len(rest) PROVE ix.keys[Len(own) + n] = rest[n]
  <2>1. (own \o rest)[Len(own) + n] = rest[n]
    BY AppendedAt, Zenon
  <2> QED
    BY <2>1
<1>5. KeysInOrder(ix) /\ Len(ix.keys) <= 32
  BY <1>1, <1>2 DEF KeysInOrder
<1>6. ASSUME NEW n \in 1 .. Len(ix.keys) PROVE Given(ix)[n] = ix.keys[n].key
  BY <1>5, GivenIs, Zenon
<1>7. ASSUME NEW n \in 1 .. Len(own) PROVE Given(ix)[n] = own[n].key
  <2>1. n \in 1 .. Len(ix.keys)
    BY <1>1, <1>2
  <2> QED
    BY <1>3, <1>6, <2>1
<1>8. ASSUME NEW n \in 1 .. Len(rest) PROVE Given(ix)[Len(own) + n] = rest[n].key
  <2>1. Len(own) + n \in 1 .. Len(ix.keys)
    BY <1>1, <1>2
  <2> QED
    BY <1>4, <1>6, <2>1
<1> QED
  BY <1>2, <1>3, <1>4, <1>5, <1>7, <1>8 DEF MoreGiven

LEMMA ClaimFresh ==
  ASSUME Fresh, ClaimAndSweepSent
  PROVE  Fresh'
<1>1. PICK m \in Launched, caller \in Keys :
        LET graduated == CoinHeld(m).status = "graduated" IN
        /\ config.paused = No
        /\ CoinHeld(m).status # "retired"
        /\ CoinHeld(m).dbc_pool = Pool(m, config.platform_config_key)
        /\ graduated => CoinHeld(m).damm_pool # Zero
        /\ Submit(Transaction(
             claimAndSweepIx([caller |-> caller, mint |-> m,
                 config |-> config.platform_config_key,
                 platformWallet |-> config.platform_wallet], graduated),
             {caller}, sweepAtaIxs(m, config.platform_wallet), {}, <<>>))
  BY DEF ClaimAndSweepSent
<1>status. PICK status : status = CoinHeld(m).status
  OBVIOUS
<1> DEFINE graduated == status = "graduated"
           key == config.platform_config_key
           wallet == config.platform_wallet
           a == [caller |-> caller, mint |-> m, config |-> key, platformWallet |-> wallet]
           pool == Pool(m, key)
           ix == claimAndSweepIx(a, graduated)
           creates == sweepAtaIxs(m, wallet)
           before == CreateAtas(accounts, creates)
           k == Given(ix)
           feeWsol == Ata(WSOL_MINT, fee_authority(m))
           feeBase == Ata(m, fee_authority(m))
           payoutWsol == Ata(WSOL_MINT, payout_authority(m))
           revenueWsol == Ata(WSOL_MINT, revenue_authority)
           platformWsol == Ata(WSOL_MINT, wallet)
           own == <<Signed(ro(caller)), ro(global_config), rw(coin_config(m)), ro(m),
                    ro(WSOL_MINT), ro(fee_claimer), ro(fee_authority(m)), rw(feeWsol),
                    rw(feeBase), ro(payout_authority(m)), rw(payoutWsol),
                    ro(revenue_authority), rw(revenueWsol), ro(wallet),
                    rw(platformWsol), ro(key), ro(DBC_POOL_AUTHORITY), rw(pool),
                    rw(Vault(pool, m)), rw(Vault(pool, WSOL_MINT)),
                    ro(DBC_EVENT_AUTHORITY), ro(DBC_PROGRAM), ro(TOKEN_PROGRAM)>>
<1>2. /\ Submit(Transaction(ix, {caller}, creates, {}, <<>>))
      /\ config.paused = No /\ CoinHeld(m).status # "retired"
      /\ CoinHeld(m).dbc_pool = pool
      /\ graduated => CoinHeld(m).damm_pool # Zero
  BY <1>1, <1>status
<1>3. /\ coin_config(m) \in DOMAIN accounts /\ CoinHeld(m) = accounts[coin_config(m)]
      /\ NamesPool(m, CoinHeld(m).damm_pool, CoinHeld(m).locked_position)
      /\ global_config \in DOMAIN accounts
  BY LaunchedIs DEF Fresh
<1>4. creates = {feeWsol, feeBase, payoutWsol, revenueWsol, platformWsol}
  BY Pdas DEF sweepAtaIxs, sweepAtas
<1>5. /\ ix.name = "claim_and_sweep"
      /\ ix.keys = own \o (IF graduated THEN Rail(m) ELSE <<>>)
  <2>1. a.caller = caller /\ a.mint = m /\ a.config = key /\ a.platformWallet = wallet
    OBVIOUS
  <2> HIDE DEF a
  <2> DEFINE s == sweepAtas(m, wallet)
  <2>2. /\ s.feeAuthority = fee_authority(m) /\ s.feeWsolAta = feeWsol
        /\ s.feeBaseAta = feeBase /\ s.payoutAuthority = payout_authority(m)
        /\ s.payoutWsolAta = payoutWsol /\ s.revenueAuthority = revenue_authority
        /\ s.revenueWsolAta = revenueWsol /\ s.platformWsolAta = platformWsol
    BY Pdas DEF sweepAtas
  <2> HIDE DEF s, feeWsol, feeBase, payoutWsol, revenueWsol, platformWsol
  <2> DEFINE rail == IF graduated THEN Rail(m) ELSE <<>>
             keys ==
               <<Signed(ro(caller)), ro(global_config), rw(coin_config(m)), ro(m),
                 ro(WSOL_MINT), ro(fee_claimer), ro(s.feeAuthority), rw(s.feeWsolAta),
                 rw(s.feeBaseAta), ro(s.payoutAuthority), rw(s.payoutWsolAta),
                 ro(s.revenueAuthority), rw(s.revenueWsolAta), ro(wallet),
                 rw(s.platformWsolAta), ro(key), ro(DBC_POOL_AUTHORITY), rw(pool),
                 rw(Vault(pool, m)), rw(Vault(pool, WSOL_MINT)),
                 ro(DBC_EVENT_AUTHORITY), ro(DBC_PROGRAM), ro(TOKEN_PROGRAM)>>
  <2>3. ix = Instruction("claim_and_sweep", {}, <<>>, keys \o rail)
    BY <2>1, Pdas DEF claimAndSweepIx, s
  <2>4. ix.name = "claim_and_sweep" /\ ix.keys = keys \o rail
    <3> HIDE DEF keys, rail, ix
    <3> DEFINE all == keys \o rail
    <3>1. ix = Instruction("claim_and_sweep", {}, <<>>, all)
      BY <2>3
    <3> HIDE DEF all
    <3>2. ix.name = "claim_and_sweep" /\ ix.keys = all
      BY <3>1, InstructionFields
    <3> QED
      BY <3>2 DEF all
  <2>5. keys = own
    BY <2>2
  <2> HIDE DEF keys, own, ix
  <2> QED
    BY <2>4, <2>5
<1> HIDE DEF ix, feeWsol, feeBase, payoutWsol, revenueWsol, platformWsol, pool
<1>6. Sequential(own) /\ Len(own) = 23
  BY DEF Sequential
<1> HIDE DEF own
<1>7. PICK rest : /\ graduated => rest = Rail(m)
                  /\ ~graduated => rest = <<>>
                  /\ ix.keys = own \o rest
  BY <1>5
<1>8. /\ Sequential(rest) /\ Len(rest) <= 8
      /\ graduated => rest = Rail(m) /\ Len(rest) = 8
      /\ ~graduated => Len(rest) = 0
  <2>1. CASE graduated
    <3>1. rest = Rail(m)
      BY <1>7, <2>1
    <3>2. Sequential(Rail(m)) /\ Len(Rail(m)) = 8
      BY RailIs, Zenon
    <3> QED
      BY <2>1, <3>1, <3>2
  <2>2. CASE ~graduated
    <3>1. rest = <<>>
      BY <1>7, <2>2
    <3>2. Sequential(<<>>) /\ Len(<<>>) = 0
      BY DEF Sequential
    <3> QED
      BY <2>2, <3>1, <3>2
  <2> QED
    BY <2>1, <2>2
<1>9. /\ KeysInOrder(ix) /\ Len(ix.keys) = 23 + Len(rest)
      /\ \A n \in 1 .. 23 : ix.keys[n] = own[n] /\ k[n] = own[n].key
      /\ \A n \in 1 .. Len(rest) :
           ix.keys[23 + n] = rest[n] /\ k[23 + n] = rest[n].key
  <2>1. ix.keys = own \o rest /\ Len(own) + Len(rest) <= 32
    BY <1>6, <1>7, <1>8
  <2>2. MoreGiven(ix, own, rest)
    BY <1>6, <1>8, <2>1, GivenMore, ZenonT(60)
  <2> QED
    BY <1>6, <2>2 DEF MoreGiven
<1>first. \A n \in 1 .. 23 : ix.keys[n] = own[n]
  BY <1>9
<1>more. \A n \in 1 .. Len(rest) : ix.keys[23 + n] = rest[n]
  BY <1>9
<1>10. /\ k[3] = coin_config(m) /\ k[4] = m /\ k[14] = wallet /\ k[16] = key
       /\ k[18] = pool
  <2>1. /\ k[3] = own[3].key /\ k[4] = own[4].key /\ k[14] = own[14].key
        /\ k[16] = own[16].key /\ k[18] = own[18].key
    <3> HIDE DEF k
    <3> QED
      BY <1>9
  <2>2. /\ own[3] = rw(coin_config(m)) /\ own[4] = ro(m) /\ own[14] = ro(wallet)
        /\ own[16] = ro(key) /\ own[18] = rw(pool)
    BY DEF own
  <2> HIDE DEF k
  <2> QED
    BY <2>1, <2>2, Metas
<1>11. Encoded(ix)
  BY <1>5, <1>9 DEF Encoded, Names, KeysInOrder
<1>12. \A x \in creates : x = Ata(x[2], x[3])
  BY <1>4 DEF Ata, feeWsol, feeBase, payoutWsol, revenueWsol, platformWsol
<1>13. /\ DOMAIN before = DOMAIN accounts \cup creates
       /\ \A x \in DOMAIN accounts : before[x] = accounts[x]
  <2> HIDE DEF creates
  <2> QED
    BY <1>12, CreatedFirst
<1> HIDE DEF before, creates, k, a
<1>14. Struct(ix, config, before, JUPITER_PROGRAM) = ClaimAndSweep(k)
  BY <1>5 DEF Struct, Setters, k
<1>15. ClaimAndSweep(k) =
         <<Signer, Account(global_config), Mut(Account(coin_config(m))),
           UncheckedAccount, Address(WSOL_MINT), Address(fee_claimer),
           Address(fee_authority(m)), Mut(Account(feeWsol)),
           Mut(Account(feeBase)), Address(payout_authority(m)),
           Mut(Account(payoutWsol)), Address(revenue_authority),
           Mut(Account(revenueWsol)), UncheckedAccount,
           Mut(Account(platformWsol)), UncheckedAccount, Address(DBC_POOL_AUTHORITY),
           Mut(UncheckedAccount), Mut(UncheckedAccount), Mut(UncheckedAccount),
           Address(DBC_EVENT_AUTHORITY), Address(DBC_PROGRAM),
           Address(TOKEN_PROGRAM)>>
  BY <1>10 DEF ClaimAndSweep, feeWsol, feeBase, payoutWsol, revenueWsol, platformWsol
<1>16. Validates(ClaimAndSweep(k), ix.keys, DOMAIN before)
  <2> DEFINE Ok(n) == Checked(ClaimAndSweep(k)[n], own[n], DOMAIN before)
  <2>1. Len(ClaimAndSweep(k)) = 23 /\ DOMAIN ClaimAndSweep(k) = 1 .. 23
    BY <1>15
  <2>2. {global_config, coin_config(m), feeWsol, feeBase, payoutWsol, revenueWsol,
         platformWsol} \subseteq DOMAIN before
    BY <1>3, <1>4, <1>13
  <2>3. Ok(1) /\ Ok(2) /\ Ok(3) /\ Ok(4) /\ Ok(5) /\ Ok(6)
    BY <1>15, <2>2, Passes DEF own
  <2>4. Ok(7) /\ Ok(8) /\ Ok(9) /\ Ok(10) /\ Ok(11) /\ Ok(12)
    BY <1>15, <2>2, Passes DEF own
  <2>5. Ok(13) /\ Ok(14) /\ Ok(15) /\ Ok(16) /\ Ok(17) /\ Ok(18)
    BY <1>15, <2>2, Passes DEF own
  <2>6. Ok(19) /\ Ok(20) /\ Ok(21) /\ Ok(22) /\ Ok(23)
    BY <1>15, Passes DEF own
  <2> HIDE DEF Ok
  <2>7. \A n \in 1 .. 23 : Ok(n)
    BY <2>3, <2>4, <2>5, <2>6
  <2> QED
    BY <1>8, <1>9, <2>1, <2>7 DEF Validates, Ok, Sequential
<1>17. SignersSigned(ix, {caller})
  <2> DEFINE Unsigned(i) == ~own[i].signer
  <2>1. Unsigned(2) /\ Unsigned(3) /\ Unsigned(4) /\ Unsigned(5) /\ Unsigned(6)
    BY Metas DEF own
  <2>2. Unsigned(7) /\ Unsigned(8) /\ Unsigned(9) /\ Unsigned(10) /\ Unsigned(11)
    BY Metas DEF own
  <2>3. Unsigned(12) /\ Unsigned(13) /\ Unsigned(14) /\ Unsigned(15) /\ Unsigned(16)
    BY Metas DEF own
  <2>4. Unsigned(17) /\ Unsigned(18) /\ Unsigned(19) /\ Unsigned(20)
    BY Metas DEF own
  <2>5. Unsigned(21) /\ Unsigned(22) /\ Unsigned(23)
    BY Metas DEF own
  <2>6. own[1].key = caller
    BY Metas DEF own
  <2> HIDE DEF Unsigned
  <2>7. ASSUME NEW n \in 2 .. 23 PROVE ~ix.keys[n].signer
    <3>1. Unsigned(n)
      BY <2>1, <2>2, <2>3, <2>4, <2>5
    <3> QED
      BY <1>first, <3>1 DEF Unsigned
  <2>8. ASSUME NEW n \in 1 .. Len(rest) PROVE ~ix.keys[23 + n].signer
    <3>1. graduated /\ n \in 1 .. 8
      <4> HIDE DEF graduated
      <4> QED
        BY <1>8
    <3>2. ix.keys[23 + n] = Rail(m)[n]
      BY <1>7, <1>more, <3>1
    <3> QED
      BY <3>1, <3>2, RailIs
  <2>9. ix.keys[1].key = caller
    BY <1>first, <2>6
  <2>10. ASSUME NEW n \in DOMAIN ix.keys, ix.keys[n].signer PROVE n = 1
    <3>1. n \in 1 .. (23 + Len(rest)) /\ Len(rest) \in Nat
      BY <1>8, <1>9 DEF KeysInOrder, Sequential
    <3>2. n <= 23
      <4>1. ASSUME n > 23 PROVE FALSE
        <5>1. n - 23 \in 1 .. Len(rest) /\ 23 + (n - 23) = n
          BY <3>1, <4>1
        <5>2. ~ix.keys[23 + (n - 23)].signer
          BY <2>8, <5>1
        <5> QED
          BY <2>10, <5>1, <5>2
      <4> QED
        BY <3>1, <4>1
    <3>3. n \notin 2 .. 23
      BY <2>7, <2>10
    <3> QED
      BY <3>1, <3>2, <3>3
  <2> QED
    BY <2>9, <2>10 DEF SignersSigned
<1>18. Allows(ix, config, before)
  <2>1. before[k[3]] = CoinHeld(m)
    BY <1>3, <1>10, <1>13
  <2>2. ASSUME graduated
        PROVE  /\ Len(ix.keys) = 31 /\ k[31] = CP_AMM_PROGRAM
               /\ k[24] = CP_AMM_POOL_AUTHORITY /\ k[30] = CP_AMM_EVENT_AUTHORITY
               /\ k[25] = CoinHeld(m).damm_pool
               /\ k[26] = CoinHeld(m).locked_position
    <3>1. rest = Rail(m) /\ Len(rest) = 8 /\ Len(ix.keys) = 31
      <4>1. rest = Rail(m)
        BY <1>7, <2>2
      <4>2. Len(rest) = 8
        BY <1>8, <2>2
      <4> QED
        BY <1>9, <4>1, <4>2
    <3>2. \A n \in 1 .. 8 : k[23 + n] = Rail(m)[n].key
      BY <1>9, <3>1
    <3>3. /\ k[24] = Rail(m)[1].key /\ k[25] = Rail(m)[2].key
          /\ k[26] = Rail(m)[3].key /\ k[30] = Rail(m)[7].key
          /\ k[31] = Rail(m)[8].key
      BY <3>2
    <3>4. CoinHeld(m).damm_pool = DammPool(m) /\ CoinHeld(m).locked_position = Position(m)
      BY <1>2, <1>3, <2>2 DEF NamesPool
    <3> QED
      BY <3>1, <3>3, <3>4, RailIs, Metas
  <2>3. ClaimAllows(ix, config, before)
    BY <1>status, <1>2, <1>10, <2>1, <2>2 DEF ClaimAllows, k
  <2> QED
    BY <1>5, <2>3 DEF Allows
<1>19. AcceptedNow(ix, {caller}, creates)
  BY <1>14, <1>16, <1>17, <1>18 DEF AcceptedNow, before
<1> QED
  BY <1>2, <1>11, <1>12, <1>19, SubmitFresh

(* A round is settled once: its account, and that of its mints, are new.   *)
LEMMA SettleFresh ==
  ASSUME Fresh, SettleEpochSent
  PROVE  Fresh'
<1>1. PICK m \in Launched, i \in 0 .. MaxEpoch,
           allowed \in SUBSET platformAllowlistMints(accounts) :
        /\ Ata(WSOL_MINT, payout_authority(m)) \in DOMAIN accounts
        /\ i \notin {accounts[e].index : e \in epochsForMint(accounts, m)}
        /\ Send(settleEpochIx(i, allowed, m, config.keeper), config.keeper)
  BY DEF SettleEpochSent
<1> DEFINE ix == settleEpochIx(i, allowed, m, config.keeper)
           k == Given(ix)
           payoutWsol == Ata(WSOL_MINT, payout_authority(m))
<1>2. Submit(Transaction(ix, {config.keeper}, {}, {}, <<>>))
  BY <1>1 DEF Send
<1>3. /\ coin_config(m) \in DOMAIN accounts /\ global_config \in DOMAIN accounts
      /\ platform_allowlist \in DOMAIN accounts
  BY LaunchedIs DEF Fresh
<1>4. allowed \subseteq accounts[platform_allowlist].mints
  BY <1>3, Pdas DEF platformAllowlistMints
<1>5. epoch_state(m, i) \notin DOMAIN accounts
  <2>1. SUFFICES ASSUME epoch_state(m, i) \in DOMAIN accounts PROVE FALSE
    OBVIOUS
  <2> DEFINE e == epoch_state(m, i)
  <2>2. accounts[e].type = "EpochState" /\ accounts[e].of = m /\ accounts[e].index = i
    BY <2>1, EpochStands DEF Fresh
  <2>3. e \in epochsForMint(accounts, m)
    BY <2>1, <2>2 DEF epochsForMint, Discovered
  <2> QED
    BY <1>1, <2>2, <2>3
<1>6. allowlist_state(m, i) \notin DOMAIN accounts
  BY <1>5, AllowlistStands DEF Fresh
<1>7. /\ ix.name = "settle_epoch"
      /\ ix.data = encode({"epoch_index", "allowed_mints"},
                     [epoch_index |-> <<"u32", i>>, allowed_mints |-> <<"mints", allowed>>])
      /\ ix.keys =
           <<ro(global_config), Signed(rw(config.keeper)), ro(coin_config(m)), ro(m),
             ro(payout_authority(m)), ro(WSOL_MINT), ro(payoutWsol),
             rw(epoch_state(m, i)), rw(allowlist_state(m, i)),
             ro(platform_allowlist), ro(SYSTEM_PROGRAM)>>
  BY InstructionFields, Pdas DEF settleEpochIx
<1>8. ix.data.epoch_index[2] = i /\ ix.data.allowed_mints[2] = allowed
  <2> HIDE DEF ix
  <2> QED
    BY <1>7 DEF encode
<1> HIDE DEF ix, payoutWsol
<1>9. Len(ix.keys) = 11 /\ DOMAIN ix.keys = 1 .. 11
  BY <1>7
<1>10. k[4] = m
  BY <1>7, Metas DEF Given
<1>11. Encoded(ix)
  BY <1>7, <1>9 DEF Encoded, Names
<1> HIDE DEF k
<1>12. Struct(ix, config, accounts, JUPITER_PROGRAM) =
        <<Account(global_config), Mut(Is(config.keeper)), Account(coin_config(m)),
          UncheckedAccount, Address(payout_authority(m)), Address(WSOL_MINT),
          Account(payoutWsol), Created(epoch_state(m, i)),
          Created(allowlist_state(m, i)), Account(platform_allowlist),
          Address(SYSTEM_PROGRAM)>>
  <2>1. Struct(ix, config, accounts, JUPITER_PROGRAM) = SettleEpoch(k, config, i)
    BY <1>7, <1>8 DEF Struct, Setters, EpochOf, k
  <2> QED
    BY <1>10, <2>1 DEF SettleEpoch, payoutWsol
<1>13. Validates(Struct(ix, config, accounts, JUPITER_PROGRAM), ix.keys, DOMAIN accounts)
  <2> DEFINE Ok(n) == Checked(Struct(ix, config, accounts, JUPITER_PROGRAM)[n], ix.keys[n], DOMAIN accounts)
  <2>1. payoutWsol \in DOMAIN accounts
    BY <1>1 DEF payoutWsol
  <2>2. Ok(1) /\ Ok(2) /\ Ok(3) /\ Ok(4) /\ Ok(5) /\ Ok(6)
    BY <1>3, <1>7, <1>12, Passes
  <2>3. Ok(7) /\ Ok(8) /\ Ok(9) /\ Ok(10) /\ Ok(11)
    BY <1>3, <1>5, <1>6, <1>7, <1>12, <2>1, Passes
  <2>4. Len(Struct(ix, config, accounts, JUPITER_PROGRAM)) = 11
        /\ DOMAIN Struct(ix, config, accounts, JUPITER_PROGRAM) = 1 .. 11
    BY <1>12
  <2> HIDE DEF Ok
  <2>5. \A n \in 1 .. 11 : Ok(n)
    BY <2>2, <2>3
  <2> QED
    BY <1>9, <2>4, <2>5 DEF Validates, Ok
<1>14. SignersSigned(ix, {config.keeper})
  BY <1>7, Metas DEF SignersSigned
<1>15. Allows(ix, config, accounts)
  BY <1>4, <1>7, <1>8 DEF Allows
<1> QED
  BY <1>2, <1>11, <1>13, <1>14, <1>15, PlainFresh

(* A bucket is swapped once, into a mint that its round allows.            *)
LEMMA SwapFresh ==
  ASSUME Fresh, SwapPayoutSent
  PROVE  Fresh'
<1>1. PICK m \in Launched : \E e \in epochsForMint(accounts, m) :
        LET i == accounts[e].index IN
        \E out \in accounts[allowlist_state(m, i)].mints :
          /\ out \notin {accounts[b].out_mint : b \in bucketsForEpoch(accounts, e)}
          /\ Submit(Transaction(
               swapPayoutIx(i, out, IF out = WSOL_MINT THEN <<>>
                                    ELSE <<rw(Ata(out, payout_authority(m)))>>,
                            m, config.keeper),
               {config.keeper}, {Ata(out, payout_authority(m))}, {}, <<>>))
  BY DEF SwapPayoutSent
<1>2. PICK e \in epochsForMint(accounts, m) :
        LET i == accounts[e].index IN
        \E out \in accounts[allowlist_state(m, i)].mints :
          /\ out \notin {accounts[b].out_mint : b \in bucketsForEpoch(accounts, e)}
          /\ Submit(Transaction(
               swapPayoutIx(i, out, IF out = WSOL_MINT THEN <<>>
                                    ELSE <<rw(Ata(out, payout_authority(m)))>>,
                            m, config.keeper),
               {config.keeper}, {Ata(out, payout_authority(m))}, {}, <<>>))
  BY <1>1
<1>index. PICK i : i = accounts[e].index
  OBVIOUS
<1>3. PICK out \in accounts[allowlist_state(m, i)].mints :
        /\ out \notin {accounts[b].out_mint : b \in bucketsForEpoch(accounts, e)}
        /\ Submit(Transaction(
             swapPayoutIx(i, out, IF out = WSOL_MINT THEN <<>>
                                  ELSE <<rw(Ata(out, payout_authority(m)))>>,
                          m, config.keeper),
             {config.keeper}, {Ata(out, payout_authority(m))}, {}, <<>>))
  BY <1>2, <1>index
<1>route. PICK rest : rest = IF out = WSOL_MINT THEN <<>>
                             ELSE <<rw(Ata(out, payout_authority(m)))>>
  OBVIOUS
<1> DEFINE ix == swapPayoutIx(i, out, rest, m, config.keeper)
           creates == {Ata(out, payout_authority(m))}
           before == CreateAtas(accounts, creates)
           k == Given(ix)
           payoutWsol == Ata(WSOL_MINT, payout_authority(m))
           payoutOut == Ata(out, payout_authority(m))
           own == <<ro(global_config), Signed(rw(config.keeper)), ro(coin_config(m)),
                    ro(m), ro(payout_authority(m)), rw(epoch_state(m, i)),
                    ro(allowlist_state(m, i)), rw(bucket_state(m, i, out)), ro(out),
                    ro(WSOL_MINT), rw(payoutWsol), rw(payoutOut), ro(JUPITER_PROGRAM),
                    ro(TOKEN_PROGRAM), ro(SYSTEM_PROGRAM)>>
<1>4. Submit(Transaction(ix, {config.keeper}, creates, {}, <<>>))
  BY <1>3, <1>route
<1>5. /\ coin_config(m) \in DOMAIN accounts /\ global_config \in DOMAIN accounts
  BY LaunchedIs DEF Fresh
<1>6. /\ epoch_state(m, i) \in DOMAIN accounts /\ e = epoch_state(m, i)
      /\ allowlist_state(m, i) \in DOMAIN accounts
      /\ payoutWsol \in DOMAIN accounts
  BY <1>index, EpochFound DEF Fresh
<1>7. bucket_state(m, i, out) \notin DOMAIN accounts
  <2>1. SUFFICES ASSUME bucket_state(m, i, out) \in DOMAIN accounts PROVE FALSE
    OBVIOUS
  <2> DEFINE b == bucket_state(m, i, out)
  <2>2. /\ accounts[b].type = "BucketState" /\ accounts[b].of = epoch_state(m, i)
        /\ accounts[b].out_mint = out
    BY <2>1, BucketStands DEF Fresh
  <2>3. b \in bucketsForEpoch(accounts, e)
    BY <1>6, <2>1, <2>2 DEF bucketsForEpoch, Discovered
  <2> QED
    BY <1>3, <2>2, <2>3
<1>8. /\ ix.name = "swap_payout"
      /\ ix.data = encode({"_epoch_index"}, [_epoch_index |-> <<"u32", i>>])
      /\ ix.keys = own \o rest
  <2> DEFINE all == own \o rest
  <2>1. ix = Instruction("swap_payout", {"_epoch_index"},
               [_epoch_index |-> <<"u32", i>>], all)
    BY Pdas DEF swapPayoutIx
  <2> HIDE DEF all, ix
  <2>2. /\ ix.name = "swap_payout"
        /\ ix.data = encode({"_epoch_index"}, [_epoch_index |-> <<"u32", i>>])
        /\ ix.keys = all
    BY <2>1, InstructionFields
  <2> QED
    BY <2>2 DEF all
<1>9. ix.data._epoch_index[2] = i
  <2> HIDE DEF ix
  <2> QED
    BY <1>8 DEF encode
<1>10. Sequential(own) /\ Len(own) = 15
  BY DEF Sequential
<1> HIDE DEF ix, own
<1>11. /\ Sequential(rest) /\ Len(rest) <= 1
       /\ \A n \in 1 .. Len(rest) : ~rest[n].signer
  <2>1. CASE out = WSOL_MINT
    <3>1. rest = <<>>
      BY <1>route, <2>1
    <3>2. Sequential(<<>>) /\ Len(<<>>) = 0
      BY DEF Sequential
    <3> QED
      BY <3>1, <3>2
  <2>2. CASE out # WSOL_MINT
    <3>1. rest = <<rw(payoutOut)>>
      BY <1>route, <2>2
    <3>2. Sequential(<<rw(payoutOut)>>) /\ Len(<<rw(payoutOut)>>) = 1
      BY DEF Sequential
    <3> QED
      BY <3>1, <3>2, Metas
  <2> QED
    BY <2>1, <2>2
<1> HIDE DEF payoutWsol, payoutOut, k
<1>12. MoreGiven(ix, own, rest)
  <2>1. ix.keys = own \o rest /\ Len(own) + Len(rest) <= 32
    BY <1>8, <1>10, <1>11 DEF Sequential
  <2> QED
    BY <1>10, <1>11, <2>1, GivenMore, ZenonT(60)
<1>first. \A n \in 1 .. 15 : ix.keys[n] = own[n] /\ k[n] = own[n].key
  BY <1>10, <1>12 DEF MoreGiven, k
<1>more. \A n \in 1 .. Len(rest) : ~ix.keys[15 + n].signer
  BY <1>10, <1>11, <1>12 DEF MoreGiven
<1>13. KeysInOrder(ix) /\ Len(ix.keys) = 15 + Len(rest)
  BY <1>10, <1>12 DEF MoreGiven
<1>14. k[4] = m /\ k[9] = out /\ k[7] = allowlist_state(m, i)
  <2>1. k[4] = own[4].key /\ k[9] = own[9].key /\ k[7] = own[7].key
    BY <1>first
  <2>2. own[4] = ro(m) /\ own[9] = ro(out) /\ own[7] = ro(allowlist_state(m, i))
    BY DEF own
  <2> QED
    BY <2>1, <2>2, Metas
<1>15. Encoded(ix)
  BY <1>8, <1>13 DEF Encoded, Names, KeysInOrder
<1>16. \A x \in creates : x = Ata(x[2], x[3])
  BY DEF Ata
<1>17. /\ DOMAIN before = DOMAIN accounts \cup creates
       /\ \A x \in DOMAIN accounts : before[x] = accounts[x]
       /\ bucket_state(m, i, out) \notin DOMAIN before
  <2>1. bucket_state(m, i, out)[1] = "pda"
    BY Addresses
  <2> HIDE DEF creates
  <2> QED
    BY <1>7, <1>16, <2>1, CreatedFirst
<1>18. payoutOut \in DOMAIN before
  BY <1>17 DEF payoutOut
<1> HIDE DEF before, creates
<1>19. Struct(ix, config, before, JUPITER_PROGRAM) =
         <<Account(global_config), Mut(Is(config.keeper)), Account(coin_config(m)),
           UncheckedAccount, Address(payout_authority(m)),
           Mut(Account(epoch_state(m, i))), Account(allowlist_state(m, i)),
           Created(bucket_state(m, i, out)), UncheckedAccount, Address(WSOL_MINT),
           Mut(Account(payoutWsol)), Mut(Account(payoutOut)),
           Address(JUPITER_PROGRAM), Address(TOKEN_PROGRAM),
           Address(SYSTEM_PROGRAM)>>
  <2>1. Struct(ix, config, before, JUPITER_PROGRAM) = SwapPayout(k, config, i, JUPITER_PROGRAM)
    BY <1>8, <1>9 DEF Struct, Setters, EpochOf, k
  <2> QED
    BY <1>14, <2>1 DEF SwapPayout, payoutWsol, payoutOut
<1>20. Validates(Struct(ix, config, before, JUPITER_PROGRAM), ix.keys, DOMAIN before)
  <2> DEFINE Ok(n) == Checked(Struct(ix, config, before, JUPITER_PROGRAM)[n], own[n], DOMAIN before)
  <2>1. {global_config, coin_config(m), epoch_state(m, i), allowlist_state(m, i),
         payoutWsol} \subseteq DOMAIN before
    BY <1>5, <1>6, <1>17
  <2>2. Ok(1) /\ Ok(2) /\ Ok(3) /\ Ok(4) /\ Ok(5)
    BY <1>19, <2>1, Passes DEF own
  <2>3. Ok(6) /\ Ok(7) /\ Ok(8) /\ Ok(9) /\ Ok(10)
    BY <1>17, <1>19, <2>1, Passes DEF own
  <2>4. Ok(11) /\ Ok(12) /\ Ok(13) /\ Ok(14) /\ Ok(15)
    BY <1>18, <1>19, <2>1, Passes DEF own
  <2>5. Len(Struct(ix, config, before, JUPITER_PROGRAM)) = 15
        /\ DOMAIN Struct(ix, config, before, JUPITER_PROGRAM) = 1 .. 15
    BY <1>19
  <2>6. Len(rest) \in Nat
    BY <1>11 DEF Sequential
  <2> HIDE DEF Ok
  <2>7. \A n \in 1 .. 15 : Ok(n)
    BY <2>2, <2>3, <2>4
  <2> QED
    BY <1>first, <1>13, <2>5, <2>6, <2>7 DEF Validates, Ok
<1>21. SignersSigned(ix, {config.keeper})
  <2> DEFINE Unsigned(j) == ~own[j].signer
  <2>1. Unsigned(1) /\ Unsigned(3) /\ Unsigned(4) /\ Unsigned(5) /\ Unsigned(6)
    BY Metas DEF own
  <2>2. Unsigned(7) /\ Unsigned(8) /\ Unsigned(9) /\ Unsigned(10) /\ Unsigned(11)
    BY Metas DEF own
  <2>3. Unsigned(12) /\ Unsigned(13) /\ Unsigned(14) /\ Unsigned(15)
    BY Metas DEF own
  <2>4. own[2].key = config.keeper
    BY Metas DEF own
  <2> HIDE DEF Unsigned
  <2>5. ix.keys[2].key = config.keeper
    BY <1>first, <2>4
  <2>6. ASSUME NEW n \in 1 .. 15, n # 2 PROVE ~ix.keys[n].signer
    <3>1. Unsigned(n)
      BY <2>1, <2>2, <2>3, <2>6
    <3> QED
      BY <1>first, <3>1 DEF Unsigned
  <2>7. ASSUME NEW n \in DOMAIN ix.keys, ix.keys[n].signer PROVE n = 2
    <3>1. n \in 1 .. (15 + Len(rest)) /\ Len(rest) \in Nat
      BY <1>11, <1>13 DEF KeysInOrder, Sequential
    <3>2. n <= 15
      <4>1. ASSUME n > 15 PROVE FALSE
        <5>1. n - 15 \in 1 .. Len(rest) /\ 15 + (n - 15) = n
          BY <3>1, <4>1
        <5>2. ~ix.keys[15 + (n - 15)].signer
          BY <1>more, <5>1
        <5> QED
          BY <2>7, <5>1, <5>2
      <4> QED
        BY <3>1, <4>1
    <3> QED
      BY <2>6, <2>7, <3>1, <3>2
  <2> QED
    BY <2>5, <2>7 DEF SignersSigned
<1>22. Allows(ix, config, before)
  <2>1. before[allowlist_state(m, i)] = accounts[allowlist_state(m, i)]
    BY <1>6, <1>17
  <2> QED
    BY <1>3, <1>8, <1>14, <2>1 DEF Allows, k
<1>23. AcceptedNow(ix, {config.keeper}, creates)
  BY <1>20, <1>21, <1>22 DEF AcceptedNow, before
<1> QED
  BY <1>4, <1>15, <1>16, <1>23, SubmitFresh

(* A batch names an account per recipient.                                 *)
LEMMA DistributeFresh ==
  ASSUME Fresh, DistributeBatchSent
  PROVE  Fresh'
<1>m. PICK m \in Launched : \E e \in epochsForMint(accounts, m) :
        \E b \in bucketsForEpoch(accounts, e) :
          Send(distributeBatchIx(accounts[e].index, accounts[b].out_mint,
                                 <<Key(Deployer)>>, m, config.keeper),
               config.keeper)
  BY DEF DistributeBatchSent
<1>e. PICK e \in epochsForMint(accounts, m) :
        \E b \in bucketsForEpoch(accounts, e) :
          Send(distributeBatchIx(accounts[e].index, accounts[b].out_mint,
                                 <<Key(Deployer)>>, m, config.keeper),
               config.keeper)
  BY <1>m
<1>1. PICK b \in bucketsForEpoch(accounts, e) :
        Send(distributeBatchIx(accounts[e].index, accounts[b].out_mint,
                               <<Key(Deployer)>>, m, config.keeper),
             config.keeper)
  BY <1>e
<1>index. PICK i : i = accounts[e].index
  OBVIOUS
<1>out. PICK out : out = accounts[b].out_mint
  OBVIOUS
<1>paid. PICK recipients : recipients = <<Key(Deployer)>>
  OBVIOUS
<1>rest. PICK rest : rest = [n \in DOMAIN recipients |-> rw(Ata(out, recipients[n]))]
  OBVIOUS
<1> DEFINE ix == distributeBatchIx(i, out, recipients, m, config.keeper)
           k == Given(ix)
           payoutOut == Ata(out, payout_authority(m))
           own == <<ro(global_config), Signed(ro(config.keeper)), ro(m),
                    rw(epoch_state(m, i)), rw(bucket_state(m, i, out)), ro(out),
                    ro(payout_authority(m)), rw(payoutOut), ro(TOKEN_PROGRAM)>>
           data == [_epoch_index |-> <<"u32", i>>,
                    recipients |-> <<"recipients", recipients>>]
<1>2. Submit(Transaction(ix, {config.keeper}, {}, {}, <<>>))
  BY <1>1, <1>index, <1>out, <1>paid DEF Send
<1>3. global_config \in DOMAIN accounts
  BY LaunchedIs DEF Fresh
<1>4. epoch_state(m, i) \in DOMAIN accounts /\ e = epoch_state(m, i)
  BY <1>index, EpochFound DEF Fresh
<1>5. /\ bucket_state(m, i, out) \in DOMAIN accounts
      /\ payoutOut \in DOMAIN accounts
      /\ accounts[bucket_state(m, i, out)].of = epoch_state(m, i)
  <2>1. b \in bucketsForEpoch(accounts, epoch_state(m, i))
    BY <1>4
  <2>2. b \in DOMAIN accounts /\ b = bucket_state(m, i, out) /\ payoutOut \in DOMAIN accounts
    BY <1>out, <2>1, BucketFound DEF Fresh
  <2>3. accounts[b].of = epoch_state(m, i)
    BY <2>1 DEF bucketsForEpoch, Discovered
  <2> QED
    BY <2>2, <2>3
<1>6. /\ Sequential(rest) /\ Len(rest) = 1 /\ rest[1] = rw(Ata(out, recipients[1]))
      /\ DOMAIN recipients = 1 .. 1 /\ Len(recipients) = 1
  <2>1. DOMAIN recipients = 1 .. 1 /\ Len(recipients) = 1
    BY <1>paid
  <2>2. rest = <<rw(Ata(out, recipients[1]))>>
    BY <1>rest, <2>1
  <2>3. /\ Sequential(<<rw(Ata(out, recipients[1]))>>)
        /\ Len(<<rw(Ata(out, recipients[1]))>>) = 1
    BY DEF Sequential
  <2> QED
    BY <2>1, <2>2, <2>3
<1>7. /\ ix.name = "distribute_batch" /\ ix.keys = own \o rest
      /\ ix.data = encode({"_epoch_index", "recipients"}, data)
  <2> DEFINE all == own \o rest
  <2>1. ix = Instruction("distribute_batch", {"_epoch_index", "recipients"}, data, all)
    BY <1>rest, Pdas DEF distributeBatchIx
  <2> HIDE DEF all, ix, data
  <2>2. /\ ix.name = "distribute_batch" /\ ix.keys = all
        /\ ix.data = encode({"_epoch_index", "recipients"}, data)
    BY <2>1, InstructionFields
  <2> QED
    BY <2>2 DEF all
<1>8. ix.data._epoch_index[2] = i /\ ix.data.recipients[2] = recipients
  <2> HIDE DEF ix
  <2> QED
    BY <1>7 DEF encode
<1>9. Sequential(own) /\ Len(own) = 9
  BY DEF Sequential
<1> HIDE DEF ix, own, payoutOut, k, data
<1>10. MoreGiven(ix, own, rest)
  <2>1. ix.keys = own \o rest /\ Len(own) + Len(rest) <= 32
    BY <1>6, <1>7, <1>9
  <2> QED
    BY <1>6, <1>9, <2>1, GivenMore, ZenonT(60)
<1>first. \A n \in 1 .. 9 : ix.keys[n] = own[n] /\ k[n] = own[n].key
  BY <1>9, <1>10 DEF MoreGiven, k
<1>last. ix.keys[10] = rest[1] /\ k[10] = Ata(out, recipients[1])
  <2>1. ix.keys[9 + 1] = rest[1] /\ k[9 + 1] = rest[1].key
    BY <1>6, <1>9, <1>10 DEF MoreGiven, k
  <2> QED
    BY <1>6, <2>1, Metas
<1>11. KeysInOrder(ix) /\ Len(ix.keys) = 10
  BY <1>6, <1>9, <1>10 DEF MoreGiven
<1>12. k[3] = m /\ k[4] = epoch_state(m, i) /\ k[5] = bucket_state(m, i, out) /\ k[6] = out
  <2>1. k[3] = own[3].key /\ k[4] = own[4].key /\ k[5] = own[5].key /\ k[6] = own[6].key
    BY <1>first
  <2>2. /\ own[3] = ro(m) /\ own[4] = rw(epoch_state(m, i))
        /\ own[5] = rw(bucket_state(m, i, out)) /\ own[6] = ro(out)
    BY DEF own
  <2> QED
    BY <2>1, <2>2, Metas
<1>13. Encoded(ix)
  BY <1>7, <1>11 DEF Encoded, Names, KeysInOrder
<1>14. Struct(ix, config, accounts, JUPITER_PROGRAM) =
         <<Account(global_config), Is(config.keeper), UncheckedAccount,
           Mut(Account(epoch_state(m, i))), Mut(Account(bucket_state(m, i, out))),
           UncheckedAccount, Address(payout_authority(m)), Mut(Account(payoutOut)),
           Address(TOKEN_PROGRAM)>>
  <2>1. Struct(ix, config, accounts, JUPITER_PROGRAM) = DistributeBatch(k, config, i)
    BY <1>7, <1>8 DEF Struct, Setters, EpochOf, k
  <2> QED
    BY <1>12, <2>1 DEF DistributeBatch, payoutOut
<1>15. Validates(Struct(ix, config, accounts, JUPITER_PROGRAM), ix.keys, DOMAIN accounts)
  <2> DEFINE Ok(n) == Checked(Struct(ix, config, accounts, JUPITER_PROGRAM)[n], own[n], DOMAIN accounts)
  <2>1. Ok(1) /\ Ok(2) /\ Ok(3) /\ Ok(4) /\ Ok(5)
    BY <1>3, <1>4, <1>5, <1>14, Passes DEF own
  <2>2. Ok(6) /\ Ok(7) /\ Ok(8) /\ Ok(9)
    BY <1>5, <1>14, Passes DEF own
  <2>3. Len(Struct(ix, config, accounts, JUPITER_PROGRAM)) = 9
        /\ DOMAIN Struct(ix, config, accounts, JUPITER_PROGRAM) = 1 .. 9
    BY <1>14
  <2> HIDE DEF Ok
  <2>4. \A n \in 1 .. 9 : Ok(n)
    BY <2>1, <2>2
  <2> QED
    BY <1>first, <1>11, <2>3, <2>4 DEF Validates, Ok
<1>16. SignersSigned(ix, {config.keeper})
  <2> DEFINE Unsigned(j) == ~own[j].signer
  <2>1. Unsigned(1) /\ Unsigned(3) /\ Unsigned(4) /\ Unsigned(5)
    BY Metas DEF own
  <2>2. Unsigned(6) /\ Unsigned(7) /\ Unsigned(8) /\ Unsigned(9)
    BY Metas DEF own
  <2>3. own[2].key = config.keeper
    BY Metas DEF own
  <2>4. ~rest[1].signer
    BY <1>6, Metas
  <2> HIDE DEF Unsigned
  <2>5. ix.keys[2].key = config.keeper /\ ~ix.keys[10].signer
    BY <1>first, <1>last, <2>3, <2>4
  <2>6. ASSUME NEW n \in 1 .. 9, n # 2 PROVE ~ix.keys[n].signer
    <3>1. Unsigned(n)
      BY <2>1, <2>2, <2>6
    <3> QED
      BY <1>first, <3>1 DEF Unsigned
  <2> QED
    BY <1>11, <2>5, <2>6 DEF SignersSigned, KeysInOrder
<1>17. Allows(ix, config, accounts)
  <2>1. /\ accounts[k[5]].of = k[4] /\ Len(ix.keys) = 9 + Len(recipients)
        /\ \A n \in DOMAIN recipients : k[9 + n] = Ata(k[6], recipients[n])
    BY <1>5, <1>6, <1>11, <1>12, <1>last
  <2> QED
    BY <1>7, <1>8, <2>1 DEF Allows, k
<1> QED
  BY <1>2, <1>13, <1>15, <1>16, <1>17, PlainFresh

----------------------------------------------------------------------------
(* What lands.                                                             *)
LEMMA LandFresh ==
  ASSUME Fresh, NEW t \in flight, Land(t)
  PROVE  Fresh'
<1> DEFINE before == CreateAtas(accounts, t.creates)
           after == Writes(t.ix, before)
<1>1. /\ Encoded(t.ix)
      /\ \A a \in t.creates : a = Ata(a[2], a[3])
      /\ \A a \in t.closes : \E k \in Keys : a = Ata(WSOL_MINT, k)
  BY DEF Fresh, FlightsFresh, FlightFresh
<1>2. Tidy(before)
  BY <1>1, CreateTidy DEF Fresh
<1>3. Validates(Struct(t.ix, config, before, venue), t.ix.keys, DOMAIN before)
  BY DEF Land, Accepted
<1> HIDE DEF before
<1>4. Tidy(after)
  BY <1>1, <1>2, <1>3, WritesTidy
<1> HIDE DEF after
<1>5. Tidy(Close(after, t.closes))
  BY <1>1, <1>4, CloseTidy
<1>6. accounts' = Close(after, t.closes) /\ flight' = flight \ {t}
  BY DEF Land, after, before
<1>7. FlightsFresh'
  BY <1>6 DEF Fresh, FlightsFresh, FlightFresh
<1>8. Tidy(accounts)'
  BY <1>5, <1>6 DEF Tidy, AllStand, AllRest, IsFunction
<1> QED
  BY <1>7, <1>8 DEF Fresh

LEMMA NextFresh ==
  ASSUME Fresh, [Next]_vars
  PROVE  Fresh'
<1>1. CASE InitializeGlobalSent
  BY <1>1, InitializeFresh
<1>2. CASE \/ SetParamsSent \/ SetKeeperSent \/ SetAdminSent
           \/ SetPlatformWalletSent \/ SetPlatformConfigKeySent
           \/ SetUsdcMintSent \/ SetH2eMintSent \/ PauseSent
  BY <1>2, SettersFresh
<1>3. CASE \/ InitDenylistSent \/ SetDenylistSent
           \/ InitPlatformAllowlistSent \/ SetPlatformAllowlistSent
  BY <1>3, ListsFresh
<1>4. CASE RetireCoinSent \/ SetGraduationSent
  BY <1>4, CoinAdminFresh
<1>5. CASE LaunchSent
  BY <1>5, LaunchFresh
<1>6. CASE ClaimAndSweepSent
  BY <1>6, ClaimFresh
<1>7. CASE SyncGraduationSent
  BY <1>7, SyncFresh
<1>8. CASE SettleEpochSent
  BY <1>8, SettleFresh
<1>9. CASE SwapPayoutSent
  BY <1>9, SwapFresh
<1>10. CASE DistributeBatchSent
  BY <1>10, DistributeFresh
<1>11. ASSUME NEW t \in flight, Land(t) PROVE Fresh'
  BY <1>11, LandFresh
<1>12. ASSUME NEW t \in flight, Drop(t) PROVE Fresh'
  BY <1>12 DEF Drop, Fresh, FlightsFresh, FlightFresh, Tidy, AllStand, AllRest, IsFunction
<1>13. CASE UNCHANGED vars
  BY <1>13 DEF vars, Fresh, FlightsFresh, FlightFresh, Tidy, AllStand, AllRest, IsFunction
<1> QED
  BY <1>1, <1>2, <1>3, <1>4, <1>5, <1>6, <1>7, <1>8, <1>9, <1>10, <1>11, <1>12,
     <1>13 DEF Next

(* Every stage a deployment may be at first is tidy.                       *)
LEMMA InitFresh ==
  ASSUME Init
  PROVE  Fresh
<1> DEFINE coin == Mint(CHOOSE c \in Coins : TRUE)
           wallet == Key(Deployer)
           key == FirstConfig.platform_config_key
           none == [a \in {} |-> TokenAccount]
           one == Put(none, global_config, GlobalConfig)
           ready == Put(one, platform_allowlist, PlatformAllowlist({WSOL_MINT}))
           launched == Put(ready, coin_config(coin),
                           CoinConfig(coin, Pool(coin, key), "bonding"))
           swept == CreateAtas(launched, sweepAtaIxs(coin, wallet))
           settled == Put(Put(swept, epoch_state(coin, 0), EpochState(coin, 0)),
                          allowlist_state(coin, 0), AllowlistState(coin, Mints))
           swapped == Put(settled, bucket_state(coin, 0, WSOL_MINT),
                          BucketState(epoch_state(coin, 0), WSOL_MINT))
           payoutWsol == Ata(WSOL_MINT, payout_authority(coin))
<1>1. PICK stage \in 0 .. 4 : accounts = FirstAccounts(stage)
  BY SessionAssumption DEF Init
<1>2. FirstAccounts(stage) = IF stage = 0 THEN none ELSE IF stage = 1 THEN ready
                             ELSE IF stage = 2 THEN swept
                             ELSE IF stage = 3 THEN settled ELSE swapped
  BY DEF FirstAccounts
<1>3. Tidy(none)
  BY DEF Tidy, AllStand, AllRest, IsFunction
<1> HIDE DEF none
<1>4. Tidy(one) /\ global_config \in DOMAIN one
  <2>1. /\ Stands(global_config, GlobalConfig)
        /\ Rests(global_config, GlobalConfig, DOMAIN none \cup {global_config})
    BY DEF Stands, Rests, GlobalConfig
  <2>2. global_config \in DOMAIN one
    BY DEF Put
  <2> QED
    BY <1>3, <2>1, <2>2, PutTidy
<1> HIDE DEF one
<1>5. Tidy(ready) /\ {global_config, platform_allowlist} \subseteq DOMAIN ready
  <2> DEFINE held == PlatformAllowlist({WSOL_MINT})
  <2>1. /\ Stands(platform_allowlist, held)
        /\ Rests(platform_allowlist, held, DOMAIN one \cup {platform_allowlist})
    BY DEF Stands, Rests, PlatformAllowlist
  <2> HIDE DEF held
  <2>2. DOMAIN Put(one, platform_allowlist, held) = DOMAIN one \cup {platform_allowlist}
    BY DEF Put
  <2>3. Tidy(Put(one, platform_allowlist, held))
    BY <1>4, <2>1, PutTidy
  <2> QED
    BY <1>4, <2>2, <2>3 DEF held
<1> HIDE DEF ready
<1>6. /\ Tidy(launched)
      /\ {global_config, platform_allowlist, coin_config(coin)} \subseteq DOMAIN launched
  <2> DEFINE held == CoinConfig(coin, Pool(coin, key), "bonding")
             a == coin_config(coin)
  <2> HIDE DEF coin, key
  <2>1. held.type = "CoinConfig" /\ held.of = coin /\ held.damm_pool = Zero
    BY DEF CoinConfig
  <2>2. Stands(a, held)
    BY <2>1 DEF Stands, CoinConfig
  <2>3. Rests(a, held, DOMAIN ready \cup {a})
    BY <1>5, <2>1 DEF Rests
  <2> HIDE DEF held, a
  <2>4. DOMAIN Put(ready, a, held) = DOMAIN ready \cup {a}
    BY DEF Put
  <2>5. Tidy(Put(ready, a, held))
    BY <1>5, <2>2, <2>3, PutTidy
  <2> QED
    BY <1>5, <2>4, <2>5 DEF held, a, coin, key
<1> HIDE DEF launched, coin, wallet
<1>7. /\ Tidy(swept) /\ {coin_config(coin), payoutWsol} \subseteq DOMAIN swept
  <2> DEFINE atas == sweepAtaIxs(coin, wallet)
  <2>1. payoutWsol \in atas /\ \A a \in atas : a = Ata(a[2], a[3])
    BY Pdas DEF sweepAtaIxs, sweepAtas, Ata
  <2> HIDE DEF atas
  <2>2. Tidy(CreateAtas(launched, atas))
        /\ DOMAIN CreateAtas(launched, atas) = DOMAIN launched \cup atas
    BY <1>6, <2>1, CreateTidy
  <2> QED
    BY <1>6, <2>1, <2>2 DEF atas
<1> HIDE DEF swept, payoutWsol
<1> DEFINE ep == epoch_state(coin, 0)
           al == allowlist_state(coin, 0)
           bu == bucket_state(coin, 0, WSOL_MINT)
           atEp == EpochState(coin, 0)
           atAl == AllowlistState(coin, Mints)
           atBu == BucketState(ep, WSOL_MINT)
<1>8. /\ Stands(ep, atEp) /\ Stands(al, atAl) /\ Stands(bu, atBu)
      /\ atEp.type = "EpochState" /\ atEp.of = coin /\ atEp.index = 0
      /\ atAl.type = "AllowlistState" /\ atAl.of = coin /\ al[4] = 0
      /\ atBu.type = "BucketState" /\ atBu.out_mint = WSOL_MINT /\ bu[3] = coin
  <2>1. al[4] = 0 /\ bu[3] = coin /\ bu[4] = 0
    BY Addresses
  <2>2. /\ atEp.type = "EpochState" /\ atEp.of = coin /\ atEp.index = 0
        /\ atAl.type = "AllowlistState" /\ atAl.of = coin /\ atAl.mints = Mints
        /\ atBu.type = "BucketState" /\ atBu.out_mint = WSOL_MINT
    BY DEF EpochState, AllowlistState, BucketState
  <2> HIDE DEF ep, al, bu, atEp, atAl, atBu
  <2>3. Stands(ep, atEp)
    BY <2>2 DEF Stands, ep, atEp
  <2>4. Stands(al, atAl)
    BY <2>1, <2>2 DEF Stands, al, atAl
  <2>5. Stands(bu, atBu)
    BY <2>1, <2>2 DEF Stands, bu, atBu, ep
  <2> QED
    BY <2>1, <2>2, <2>3, <2>4, <2>5
<1>9. Tidy(settled) /\ {payoutWsol, ep} \subseteq DOMAIN settled
  <2>1. {coin_config(coin), Ata(WSOL_MINT, payout_authority(coin))} \subseteq DOMAIN swept
    BY <1>7 DEF payoutWsol
  <2> DEFINE made == Put(Put(swept, epoch_state(coin, 0), EpochState(coin, 0)),
                         allowlist_state(coin, 0), AllowlistState(coin, Mints))
  <2>2. settled = made
    BY DEF ep, al, atEp, atAl
  <2>3. Tidy(made)
    <3> HIDE DEF swept, coin
    <3> QED
      BY <1>7, <2>1, RoundTidy
  <2>4. ep \in DOMAIN made
    BY DEF Put, ep
  <2>5. payoutWsol \in DOMAIN made
    <3> HIDE DEF swept, coin
    <3> QED
      BY <1>7 DEF Put
  <2> HIDE DEF made
  <2> QED
    BY <2>2, <2>3, <2>4, <2>5
<1>10. Tidy(swapped)
  <2>1. Rests(bu, atBu, DOMAIN settled \cup {bu})
    BY <1>8, <1>9 DEF Rests, payoutWsol
  <2> HIDE DEF settled
  <2>2. Tidy(Put(settled, bu, atBu))
    BY <1>8, <1>9, <2>1, PutTidy
  <2> QED
    BY <2>2 DEF bu, atBu, ep
<1> HIDE DEF settled, swapped
<1>11. Tidy(accounts)
  BY <1>1, <1>2, <1>3, <1>5, <1>7, <1>9, <1>10
<1>12. FlightsFresh
  BY DEF Init, FlightsFresh
<1> QED
  BY <1>11, <1>12 DEF Fresh

(* The venue of a build matters to a swap only, which names the client's.  *)
LEMMA VenueOnlyForSwaps ==
  ASSUME NEW t, NEW g, NEW acc, NEW pinned, Accepted(t, g, acc, JUPITER_PROGRAM)
  PROVE  Accepted(t, g, acc, pinned)
           <=> (t.ix.name = "swap_payout" => pinned = JUPITER_PROGRAM)
<1> DEFINE before == CreateAtas(acc, t.creates)
           k == Given(t.ix)
           i == EpochOf(t.ix)
<1>1. CASE t.ix.name # "swap_payout"
  <2>1. Struct(t.ix, g, before, pinned) = Struct(t.ix, g, before, JUPITER_PROGRAM)
    BY <1>1 DEF Struct
  <2> QED
    BY <1>1, <2>1 DEF Accepted
<1>2. CASE t.ix.name = "swap_payout" /\ pinned = JUPITER_PROGRAM
  BY <1>2
<1>3. CASE t.ix.name = "swap_payout" /\ pinned # JUPITER_PROGRAM
  <2>1. ASSUME NEW v
        PROVE  /\ 13 \in DOMAIN Struct(t.ix, g, before, v)
               /\ Struct(t.ix, g, before, v)[13] = Address(v)
    <3>1. Struct(t.ix, g, before, v) = SwapPayout(k, g, i, v)
      BY <1>3 DEF Struct, Setters
    <3> HIDE DEF k, i
    <3>2. 13 \in DOMAIN SwapPayout(k, g, i, v) /\ SwapPayout(k, g, i, v)[13] = Address(v)
      BY DEF SwapPayout
    <3> QED
      BY <3>1, <3>2
  <2>2. ASSUME NEW v, Accepted(t, g, acc, v)
        PROVE  t.ix.keys[13].key = v
    <3>1. Checked(Address(v), t.ix.keys[13], DOMAIN before)
      BY <2>1, <2>2 DEF Accepted, Validates
    <3>2. Address(v).at = {v}
      BY DEF Address, UncheckedAccount
    <3> QED
      BY <3>1, <3>2 DEF Checked
  <2>3. ~Accepted(t, g, acc, pinned)
    BY <1>3, <2>2
  <2> QED
    BY <1>3, <2>3
<1> QED
  BY <1>1, <1>2, <1>3

(* index.ts:282, 559: the accounts that an encoder gives are those that    *)
(* the program's struct and handler ask for: while the accounts a sender   *)
(* has read are those on chain, its transaction passes every check of      *)
(* accounts and signers, whatever venue the deployed build is pinned to,   *)
(* but for a swap, which passes where that is the client's (index.ts:112)  *)
(* and nowhere else.                                                       *)
THEOREM AcceptedCorrect == Spec => []AcceptedWhenFresh
<1>1. Init => Fresh
  BY InitFresh
<1>2. Fresh /\ [Next]_vars => Fresh'
  BY NextFresh
<1>3. Fresh => AcceptedWhenFresh
  <2> SUFFICES ASSUME Fresh, NEW t \in flight, t.seen = <<config, accounts>>
               PROVE  Accepted(t, config, accounts, venue)
                        <=> (t.ix.name = "swap_payout" => venue = JUPITER_PROGRAM)
    BY DEF AcceptedWhenFresh
  <2>1. Accepted(t, t.seen[1], t.seen[2], JUPITER_PROGRAM)
    BY DEF Fresh, FlightsFresh, FlightFresh
  <2>2. Accepted(t, config, accounts, JUPITER_PROGRAM)
    BY <2>1
  <2> QED
    BY <2>2, VenueOnlyForSwaps
<1> QED
  BY <1>1, <1>2, <1>3, PTL DEF Spec
=============================================================================
