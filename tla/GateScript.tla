----------------------------- MODULE GateScript -----------------------------
(***************************************************************************)
(* The scripts that try the design out on a test network                   *)
(* (prove-pda-feeclaimer.ts, task02-global-claimer.ts,                     *)
(* task03-graduation.ts, task04-launch.ts).  A script goes through its     *)
(* steps: it loads or makes a key, or sends a transaction and waits for    *)
(* it.  It may die at any step, leaving its key files, the one it was      *)
(* writing cut short, and the transactions that are under way, and is run  *)
(* again from the start.  What it buys and makes is paid for from the      *)
(* balances of its wallets, which no run gives back.                       *)
(*                                                                         *)
(* External are the programs that own pools, the network and its clock: a  *)
(* transaction under way lands at some time, or its blockhash expires.     *)
(***************************************************************************)
EXTENDS Integers, SequencesExt

CONSTANTS
  Scripts,     \* those that are run
  Plan,        \* POOL_PLAN: labels of pools, with the amounts of their buys
  ToClaim,     \* labels of the pools that are claimed, in order
  Redirected,  \* label of the pool whose fees another wallet claims
  PayerSol, TraderSol, \* balances the wallets may start with
  PayerLeast,  \* what prove asks of the payer
  TraderTarget,   \* TRADER_TARGET, NEED: what the trader is topped up to
  AttackerTarget, \* what the other wallet is given, when it has less
  CurveBuys,   \* buys that complete a bonding curve
  MaxBuys,     \* buys a script tries for that
  MaxTries,    \* times a transaction is sent
  Curve,       \* tokens quoted for lamports; more lamports have no quote
  Cap, Target, \* the cap on a dev buy, and what is aimed at below it
  Least, Most, \* lamports the search for it starts between
  Rounds,      \* rounds of that search
  MaxFaults    \* bound on what goes wrong

ASSUME GateAssumption ==
  /\ Scripts \subseteq {"prove", "task02", "task03", "task04"}
  /\ CurveBuys <= MaxBuys
  /\ MaxTries \in Nat \ {0}
  /\ TraderTarget <= PayerLeast
  /\ Least \in DOMAIN Curve /\ Curve[Least] <= Target /\ Target <= Cap
  /\ \A x, y \in DOMAIN Curve : x <= y => Curve[x] <= Curve[y]

VARIABLES
  script, pc,  \* the script, and the step it is at
  mem, disk,   \* keys by name: those of this run, and those in files
  at,          \* ready for the step, to send, waiting, answered, or done
  tx,          \* the transaction that is sent
  tries, buys, \* of this step
  net,         \* transactions under way
  made,        \* accounts there are on chain
  sol,         \* balances, by key
  accrued,     \* fees in pools
  received,    \* fees claimed, by the key they are held by
  bought,      \* buys that the curves of pools have taken
  faults,
  \* auxiliary: no guard of the actions reads these
  funded,      \* keys that control funds
  paid,        \* fees that trades have paid to a pool
  overtaken    \* a migration was begun while another was under way

chain == <<made, sol, accrued, received, bought, funded, paid>>
vars == <<script, pc, mem, disk, at, tx, tries, buys, net, chain,
          faults, overtaken>>

Get(f, k) == IF k \in DOMAIN f THEN f[k] ELSE 0
Put(f, k, v) == [x \in DOMAIN f \cup {k} |-> IF x = k THEN v ELSE f[x]]
Plus(f, k, n) == Put(f, k, Get(f, k) + n)

----------------------------------------------------------------------------
(* Steps.  A key is named by its file; an account by its kind and the      *)
(* names of the keys that it is derived from.                              *)

payer == <<"payer">>
trader == <<"trader">>
config == <<"config">>
nft == <<"nft">>
mint == <<"mint">>
receiver == <<"lp-fee-receiver">>

Config == <<"config", config>>
Pool(m) == <<"pool", m, config>>
Metadata(m) == <<"metadata", m>>
DammPool(m) == <<"damm", m>>
Position == <<"position", nft>>
Atas(owner) == <<"atas", owner>>

Load(name) == [do |-> "load", name |-> name]
Persist(name) == [do |-> "persist", name |-> name]
Generate(name) == [do |-> "generate", name |-> name]
Require(account) == [do |-> "require", account |-> account]
Create(account, needs, unless) ==
  [do |-> "create", account |-> account, needs |-> needs, unless |-> unless]
Holds(name, least) == [do |-> "holds", name |-> name, least |-> least]
TopUp(name, below) ==
  [do |-> "fund", name |-> name, below |-> below, whole |-> FALSE]
Give(name, below) ==
  [do |-> "fund", name |-> name, below |-> below, whole |-> TRUE]
Buy(pool, name, amount) ==
  [do |-> "trade", pool |-> pool, name |-> name, amount |-> amount]
Sell(pool, name) == Buy(pool, name, 0)
Fill(pool, name) == [do |-> "fill", pool |-> pool, name |-> name]
Migrate(m) == [do |-> "migrate", mint |-> m]
MakeAtas(owners, by) == [do |-> "atas", owners |-> owners, name |-> by]

Anew(account, needs) == Create(account, needs, FALSE)

(* Not when the account is there.  Bug: whether it is or not.              *)
UnlessThereBlind(account, needs) == Create(account, needs, FALSE)
UnlessThere(account, needs) == Create(account, needs, TRUE)

(* The fees of a pool, to the accounts of an owner.  Bug: of another.      *)
(* caught: the script goes on when it fails.                               *)
buildClaimIxMixed(pool, owner, caught) ==
  [do |-> "claim", pool |-> pool, caught |-> caught,
   name |-> IF owner[1] = "dest" THEN <<"dest", ToClaim[1]>> ELSE owner]
buildClaimIx(pool, owner, caught) ==
  [do |-> "claim", pool |-> pool, name |-> owner, caught |-> caught]

launchIx(m, lamports, caught) ==
  [do |-> "launch", account |-> Pool(m), lamports |-> lamports,
   caught |-> caught]

----------------------------------------------------------------------------
(* prove-pda-feeclaimer.ts: the mint and the config are new in every run.  *)
(* Its two claims at the end lack the signature of the fee claimer and     *)
(* change nothing, whatever becomes of them.                               *)

provePayer == <<Holds(payer, PayerLeast)>>
proveConfig == <<Generate(mint), Generate(config), Anew(Config, {})>>
provePool == <<Anew(Pool(mint), {Config})>>
proveTrader == <<Persist(trader), TopUp(trader, TraderTarget)>>
proveSwaps ==
  <<Buy(Pool(mint), trader, 1), Buy(Pool(mint), trader, 1),
    Sell(Pool(mint), trader), Buy(Pool(mint), trader, 1)>>

prove == provePayer \o proveConfig \o provePool \o proveTrader \o proveSwaps

(* task02-global-claimer.ts: pools of one config, claimed one by one; the  *)
(* last pool's fees are claimed by another wallet, to its own accounts,    *)
(* which nothing forbids it.                                               *)

attacker == <<"attacker">>

task02Config == <<Persist(config), UnlessThere(Config, {})>>

task02Pools ==
  FlattenSeq([i \in DOMAIN Plan |->
    LET m == <<"mint", Plan[i].label>> IN
    <<Persist(m), Persist(<<"dest", Plan[i].label>>),
      UnlessThere(Pool(m), {Config})>>])

task02Trades ==
  <<Load(trader)>> \o
  FlattenSeq([i \in DOMAIN Plan |->
    [b \in DOMAIN Plan[i].buys |->
      Buy(Pool(<<"mint", Plan[i].label>>), trader, Plan[i].buys[b])]])

task02Atas ==
  <<MakeAtas({<<"dest", Plan[i].label>> : i \in DOMAIN Plan}, payer)>>

task02Claims ==
  [i \in DOMAIN ToClaim |->
    buildClaimIx(Pool(<<"mint", ToClaim[i]>>), <<"dest", ToClaim[i]>>, FALSE)]

task02Redirect ==
  <<Persist(attacker), Give(attacker, AttackerTarget),
    MakeAtas({attacker}, attacker),
    buildClaimIx(Pool(<<"mint", Redirected>>), attacker, TRUE)>>

task02 ==
  task02Config \o task02Pools \o task02Trades \o task02Atas
    \o task02Claims \o task02Redirect

(* task03-graduation.ts: a curve is completed and its pool migrated; the   *)
(* fees of the locked position are claimed.                                *)

task03Config == <<Persist(config), UnlessThere(Config, {})>>
task03Pool == <<Persist(mint), UnlessThere(Pool(mint), {Config})>>
task03Fund == <<Load(trader), TopUp(trader, TraderTarget)>>
task03Fill == <<Fill(Pool(mint), trader)>>
task03Metadata == <<UnlessThere(Metadata(mint), {Pool(mint)})>>
task03Migrate == <<Migrate(mint)>>
task03Position == <<Require(Position)>>
task03Swaps == [i \in 1..3 |-> Buy(DammPool(mint), trader, 1)]
task03Receiver == <<Persist(receiver), MakeAtas({receiver}, payer)>>
task03Claim == <<buildClaimIx(DammPool(mint), receiver, FALSE)>>

task03 ==
  task03Config \o task03Pool \o task03Fund \o task03Fill \o task03Metadata
    \o task03Migrate \o task03Position \o task03Swaps \o task03Receiver
    \o task03Claim

(* task04-launch.ts: three launches, with no dev buy, one just below the   *)
(* cap and one above it, sized by quotes of the first pool.                *)

tokensFor(lamports) == Curve[lamports]
Throws(lamports) == lamports \notin DOMAIN Curve

Halve(s) ==
  LET mid == (s.lo + s.hi) \div 2 IN
  IF s.lo > s.hi THEN s
  ELSE IF Throws(mid) THEN [s EXCEPT !.hi = mid]
  ELSE IF tokensFor(mid) <= Target
       THEN [s EXCEPT !.under = mid, !.lo = mid + 1]
       ELSE [s EXCEPT !.hi = mid - 1]

case2Lamports ==
  LET search[i \in 0..Rounds] ==
        IF i = 0 THEN [lo |-> Least, hi |-> Most, under |-> Least]
        ELSE Halve(search[i - 1]) IN
  search[Rounds].under

case3Lamports ==
  LET grown(x) == (x * 115) \div 100 + Least
      over[i \in 0..Rounds] ==
        IF i = 0 THEN case2Lamports
        ELSE LET x == over[i - 1] IN
             IF i > 1 /\ (Throws(x) \/ tokensFor(x) > Cap) THEN x ELSE grown(x)
  IN over[Rounds]

(* The search ends at lamports that have a quote; else the script cannot   *)
(* go on.                                                                  *)
ASSUME QuoteAssumption == ~Throws(case3Lamports) /\ tokensFor(case3Lamports) > Cap

task04Config == <<Persist(config), UnlessThere(Config, {})>>
task04Case1 ==
  <<Persist(<<"mint", "case1">>), launchIx(<<"mint", "case1">>, 0, FALSE)>>
task04Case2 ==
  <<Persist(<<"mint", "case2">>),
    launchIx(<<"mint", "case2">>, case2Lamports, FALSE)>>
task04Case3 ==
  <<Persist(<<"mint", "case3">>),
    launchIx(<<"mint", "case3">>, case3Lamports, TRUE)>>
task04Trade == <<Buy(Pool(<<"mint", "case2">>), payer, 1)>>

task04 ==
  task04Config \o task04Case1 \o task04Case2 \o task04Case3 \o task04Trade

Program ==
  [prove |-> prove, task02 |-> task02, task03 |-> task03, task04 |-> task04]

step == Program[script][pc]

----------------------------------------------------------------------------
(* Keys and accounts.                                                      *)

Resolve(names, account) ==
  [n \in DOMAIN account |-> IF n = 1 THEN account[1] ELSE names[account[n]]]

At(account) == Resolve(mem, account)
Complete(pool) == Get(bought, pool) = CurveBuys

Proceed ==
  /\ IF pc = Len(Program[script]) THEN at' = "done" /\ UNCHANGED pc
     ELSE at' = "ready" /\ pc' = pc + 1
  /\ tx' = <<>>
  /\ tries' = 0
  /\ buys' = 0

(* The process ends, and is started again with the payer's key.            *)
Restart ==
  /\ pc' = 1
  /\ mem' = Put(<<>>, payer, disk[payer])
  /\ at' = "ready"
  /\ tx' = <<>>
  /\ tries' = 0
  /\ buys' = 0
  /\ UNCHANGED <<script, chain, overtaken>>

Again == Restart /\ UNCHANGED disk

(* A key that is nowhere yet.                                              *)
Used ==
  LET sent == IF tx = <<>> THEN net ELSE net \cup {tx}
      accounts == made \cup UNION {t.makes : t \in sent} IN
  Range(mem) \cup Range(disk) \cup funded
    \cup UNION {{a[n] : n \in 2..Len(a)} : a \in accounts}

NewKey == Min((1..Cardinality(Used) + 1) \ Used)

(* What is in a file that was cut short: JSON.parse throws.  No key has    *)
(* this number.                                                            *)
Torn == 0

Migrated == At(DammPool(step.mint)) \in made

(* The step reads a key's file, or makes one.                              *)
Opens(name) ==
  \/ step.do \in {"persist", "load"} /\ step.name = name
  \/ step.do = "migrate" /\ Migrated /\ name = nft
Writes(name) ==
  \/ step.do = "persist" /\ step.name = name /\ name \notin DOMAIN disk
  \/ step.do = "migrate" /\ ~Migrated /\ name = nft

Unreadable == \E name \in DOMAIN disk : Opens(name) /\ disk[name] = Torn

(* A key is taken from its file, or made and written.  Bug: not written.   *)
persistedKeypairLost(name) ==
  IF name \in DOMAIN disk
  THEN mem' = Put(mem, name, disk[name]) /\ UNCHANGED disk
  ELSE /\ mem' = Put(mem, name, NewKey)
       /\ disk' = disk

persistedKeypair(name) ==
  IF name \in DOMAIN disk
  THEN mem' = Put(mem, name, disk[name]) /\ UNCHANGED disk
  ELSE /\ mem' = Put(mem, name, NewKey)
       /\ disk' = Put(disk, name, NewKey)

PersistKey ==
  /\ at = "ready" /\ step.do = "persist" /\ ~Unreadable
  /\ persistedKeypair(step.name)
  /\ Proceed
  /\ UNCHANGED <<script, net, chain, faults, overtaken>>

GenerateKey ==
  /\ at = "ready" /\ step.do = "generate"
  /\ mem' = Put(mem, step.name, NewKey)
  /\ Proceed
  /\ UNCHANGED <<script, disk, net, chain, faults, overtaken>>

LoadKey ==
  /\ at = "ready" /\ step.do = "load" /\ ~Unreadable
  /\ mem' = Put(mem, step.name, disk[step.name])
  /\ Proceed
  /\ UNCHANGED <<script, disk, net, chain, faults, overtaken>>

----------------------------------------------------------------------------
(* What a step reads on chain decides what it does next.                   *)

Transaction(do, from, spends) ==
  [do |-> do, from |-> from, spends |-> spends, fresh |-> FALSE, makes |-> {},
   needs |-> {}, pool |-> <<>>, to |-> 0, era |-> 0]

(* What is spent, and the rent of accounts that are not there.             *)
Cost(t) == t.spends + Cardinality(t.makes \ made)
Affords(t) == Get(sol, t.from) >= Cost(t)

Send(t) ==
  /\ at' = "send"
  /\ tx' = t
  /\ UNCHANGED <<script, pc, tries, buys, net, chain, faults>>

NoKeys == UNCHANGED <<mem, disk, overtaken>>

Balance == Get(sol, mem[step.name])

Skip ==
  /\ at = "ready"
  /\ \/ step.do = "require" /\ At(step.account) \in made
     \/ step.do = "create" /\ step.unless /\ At(step.account) \in made
     \/ step.do = "fill" /\ Complete(At(step.pool))
     \/ step.do = "holds" /\ Balance >= step.least
     \/ step.do = "fund" /\ Balance >= step.below
  /\ Proceed /\ NoKeys
  /\ UNCHANGED <<script, net, chain, faults>>

(* An account it needs is not there, the curve was not completed, the      *)
(* payer has too little, or a key's file was cut short.                    *)
GiveUp ==
  /\ at = "ready"
  /\ \/ step.do = "require" /\ At(step.account) \notin made
     \/ step.do = "fill" /\ ~Complete(At(step.pool)) /\ buys = MaxBuys
     \/ step.do = "holds" /\ Balance < step.least
     \/ Unreadable
  /\ Again
  /\ UNCHANGED <<net, faults>>

(* The transaction of a step.                                              *)
Sends ==
  \/ step.do = "create" /\ (step.unless => At(step.account) \notin made)
  \/ step.do = "fund" /\ Balance < step.below
  \/ step.do = "fill" /\ ~Complete(At(step.pool)) /\ buys < MaxBuys
  \/ step.do \in {"launch", "trade", "atas", "claim"}
  \/ step.do = "migrate" /\ ~Migrated

Request ==
  LET By(name, spends) == Transaction(step.do, mem[name], spends) IN
  CASE step.do = "create" ->
         [By(payer, 0) EXCEPT !.fresh = TRUE, !.makes = {At(step.account)},
            !.needs = {At(a) : a \in step.needs}]
    [] step.do = "launch" ->
         [By(payer, step.lamports) EXCEPT !.fresh = TRUE,
            !.makes = {At(step.account)}, !.needs = {At(Config)},
            !.to = mem[payer]]
    [] step.do = "fund" ->
         [By(payer, IF step.whole THEN step.below ELSE step.below - Balance)
            EXCEPT !.to = mem[step.name]]
    [] step.do = "trade" ->
         [By(step.name, step.amount) EXCEPT !.needs = {At(step.pool)},
            !.pool = At(step.pool), !.to = mem[step.name]]
    [] step.do = "fill" ->
         [By(step.name, 1) EXCEPT !.needs = {At(step.pool)},
            !.pool = At(step.pool), !.to = mem[step.name]]
    [] step.do = "atas" ->
         [By(step.name, 0) EXCEPT !.makes = {At(Atas(o)) : o \in step.owners}]
    [] step.do = "claim" ->
         [By(IF step.name = attacker THEN attacker ELSE payer, 0)
            EXCEPT !.needs = {At(step.pool), At(Atas(step.name))},
            !.pool = At(step.pool), !.to = mem[step.name]]
    [] step.do = "migrate" ->
         [By(payer, 0) EXCEPT !.fresh = TRUE,
            !.makes = {At(DammPool(step.mint)), <<"position", NewKey>>},
            !.needs = {At(Metadata(step.mint))}, !.pool = At(Pool(step.mint))]

Build ==
  /\ at = "ready" /\ step.do # "migrate"
  /\ Sends
  /\ Send(Request)
  /\ NoKeys

(* When there is a pool, the key of the position is in a file; else it is  *)
(* made, and written over one that is there, before the migration is sent. *)
ReadPosition ==
  /\ at = "ready" /\ step.do = "migrate" /\ Migrated /\ ~Unreadable
  /\ mem' = Put(mem, nft, disk[nft])
  /\ Proceed
  /\ UNCHANGED <<script, disk, net, chain, faults, overtaken>>

BuildMigrate ==
  /\ at = "ready" /\ step.do = "migrate"
  /\ Sends
  /\ mem' = Put(mem, nft, NewKey)
  /\ disk' = Put(disk, nft, NewKey)
  /\ Send(Request)
  /\ overtaken' = (overtaken \/ \E t \in net : t.do = "migrate")

----------------------------------------------------------------------------
(* send: a transaction gets a new blockhash, and is sent again when that   *)
(* has expired, also when it had landed unseen; at an error the script     *)
(* ends.                                                                   *)

SendTx ==
  /\ at = "send"
  /\ tx' = [tx EXCEPT !.era = faults]
  /\ net' = net \cup {tx'}
  /\ at' = "wait"
  /\ tries' = tries + 1
  /\ UNCHANGED <<script, pc, mem, disk, buys, chain, faults, overtaken>>

Fault == faults < MaxFaults /\ faults' = faults + 1

Thrown ==
  IF step.do \in {"launch", "claim"} /\ step.caught
  THEN Proceed /\ NoKeys /\ UNCHANGED <<script, chain>>
  ELSE Again

Stale ==
  /\ Fault
  /\ IF tries < MaxTries
     THEN /\ at' = "send"
          /\ UNCHANGED <<script, pc, mem, disk, tx, tries, buys, chain,
                         overtaken>>
     ELSE Thrown

(* Reported as expired, it landed at the last moment, or never will.       *)
LandedUnseen == at = "landed" /\ Stale /\ UNCHANGED net

Expires(t) == t = tx /\ at = "wait" /\ Stale /\ net' = net \ {t}

Confirmed ==
  /\ at = "landed"
  /\ IF step.do = "fill"
     THEN /\ at' = "ready" /\ tx' = <<>> /\ tries' = 0 /\ buys' = buys + 1
          /\ UNCHANGED pc
     ELSE Proceed
  /\ NoKeys
  /\ UNCHANGED <<script, net, chain, faults>>

Refused ==
  /\ at = "failed"
  /\ Thrown
  /\ UNCHANGED <<net, faults>>

(* A request fails more often than retry tries, or with another error: the *)
(* transaction may be under way, or have landed.  A claim reads the pool   *)
(* before it.                                                              *)
Errs ==
  /\ at \in {"send", "wait", "landed"} \/ (at = "ready" /\ step.do = "claim")
  /\ Fault
  /\ Thrown
  /\ UNCHANGED net

(* Killed while it writes a key's file.                                    *)
Tears ==
  /\ at = "ready"
  /\ Fault
  /\ \E name \in {nft} \cup (IF step.do = "persist" THEN {step.name} ELSE {}) :
       Writes(name) /\ disk' = Put(disk, name, Torn)
  /\ Restart
  /\ UNCHANGED net

(* Killed, or a read fails.                                                *)
Die ==
  /\ at # "done"
  /\ Fault
  /\ Again
  /\ UNCHANGED net

----------------------------------------------------------------------------
(* The chain.                                                              *)

Answered(t, answer) == at' = IF t = tx /\ at = "wait" THEN answer ELSE at

Valid(t) ==
  /\ t.needs \subseteq made
  /\ t.fresh => t.makes \cap made = {}
  /\ t.do = "fill" => ~Complete(t.pool)
  /\ t.do = "migrate" => Complete(t.pool)
  /\ Affords(t)

(* The fee falls with time, so a pool may give a token less than the quote *)
(* of an older one.                                                        *)
Acquires(t) ==
  IF t.do # "launch" \/ t.spends = 0 THEN {0}
  ELSE {tokensFor(t.spends), tokensFor(t.spends) - 1}

Pays(t) == t.do \in {"trade", "fill"}

Lands(t) ==
  /\ t \in net
  /\ Valid(t)
  /\ \E n \in Acquires(t) : n <= Cap
  /\ net' = net \ {t}
  /\ made' = made \cup t.makes
  /\ sol' = LET left == Plus(sol, t.from, -Cost(t)) IN
            IF t.do = "fund" THEN Plus(left, t.to, t.spends) ELSE left
  /\ accrued' = CASE Pays(t) -> Plus(accrued, t.pool, 1)
                  [] t.do = "claim" -> Put(accrued, t.pool, 0)
                  [] OTHER -> accrued
  /\ paid' = IF Pays(t) THEN Plus(paid, t.pool, 1) ELSE paid
  /\ bought' = IF t.do = "fill" THEN Plus(bought, t.pool, 1) ELSE bought
  /\ received' = IF t.do = "claim"
                 THEN Plus(received, t.to, Get(accrued, t.pool))
                 ELSE received
  /\ funded' = funded \cup (IF t.to = 0 THEN {} ELSE {t.to})
  /\ Answered(t, "landed")
  /\ UNCHANGED <<script, pc, mem, disk, tx, tries, buys, faults,
                 overtaken>>

Fails(t) ==
  /\ t \in net
  /\ ~Valid(t) \/ \E n \in Acquires(t) : n > Cap
  /\ net' = net \ {t}
  /\ Answered(t, "failed")
  /\ UNCHANGED <<script, pc, mem, disk, tx, tries, buys, chain, faults,
                 overtaken>>

(* A transaction nobody waits for any more expires.                        *)
Lapses(t) ==
  /\ t \in net
  /\ t # tx
  /\ net' = net \ {t}
  /\ UNCHANGED <<script, pc, mem, disk, at, tx, tries, buys, chain,
                 faults, overtaken>>

----------------------------------------------------------------------------
Init ==
  /\ script \in Scripts
  /\ pc = 1
  /\ mem = Put(<<>>, payer, 1)
  /\ disk \in {Put(<<>>, payer, 1), Put(Put(<<>>, payer, 1), trader, 2)}
  /\ script # "prove" => trader \in DOMAIN disk
  /\ at = "ready"
  /\ tx = <<>>
  /\ tries = 0 /\ buys = 0
  /\ net = {}
  /\ made = {}
  /\ \E p \in PayerSol, t \in TraderSol :
       /\ sol = <<p, t>>
       /\ trader \notin DOMAIN disk => t = 0
  /\ accrued = <<>> /\ received = <<>> /\ bought = <<>> /\ paid = <<>>
  /\ faults = 0
  /\ funded = {1}
  /\ overtaken = FALSE

Running ==
  \/ PersistKey \/ GenerateKey \/ LoadKey
  \/ Skip \/ GiveUp \/ Build \/ ReadPosition \/ BuildMigrate
  \/ SendTx \/ Confirmed \/ Refused

Chain == \E t \in net : Lands(t) \/ Fails(t)

Next ==
  \/ Running \/ Chain
  \/ LandedUnseen \/ Errs \/ Tears \/ Die
  \/ \E t \in net : Expires(t) \/ Lapses(t)

(* The script runs on, and what is waited for lands in the end.            *)
Spec == Init /\ [][Next]_vars /\ WF_vars(Running) /\ WF_vars(Chain)
----------------------------------------------------------------------------
(* task02:96, prove-pda:336-337 ("an ephemeral in-memory keypair strands   *)
(* its funds unrecoverably if the script dies mid-run"): a key that        *)
(* controls funds is in a file, wherever the script dies.                  *)
KeysKept == funded \subseteq {disk[name] : name \in DOMAIN disk}

(* task02:6-12: one claimer serves all pools, and they stay apart: a       *)
(* pool's fees are all in the pool or where its own claims took them,      *)
(* through claims sent twice and scripts run again.  Any wallet may send a *)
(* claim (task02:9-10), and the one that takes the last pool's fees to its *)
(* own accounts (486-537) moves nothing of the others'.                    *)
OwnerOf(account) ==
  LET Files(a) == \A n \in 2..Len(a) : a[n] \in DOMAIN disk
      Is(a) == Files(a) /\ account = Resolve(disk, a) IN
  {<<"dest", ToClaim[i]>> : i \in {j \in DOMAIN ToClaim :
                                     Is(Pool(<<"mint", ToClaim[j]>>))}}
  \cup (IF Is(Pool(<<"mint", Redirected>>)) THEN {attacker} ELSE {})
  \cup (IF Is(DammPool(mint)) THEN {receiver} ELSE {})

FeesApart ==
  \A pool \in DOMAIN paid :
    LET held == {Get(received, Get(disk, o)) : o \in OwnerOf(pool)} IN
    paid[pool] = Get(accrued, pool) + (IF held = {} THEN 0
                                       ELSE CHOOSE h \in held : TRUE)

(* The steps at which every further run ends too: a key's file was cut     *)
(* short; the payer has less than prove asks for; the payer has less than  *)
(* the step costs, or the trader has, when the script tops up no trader.   *)
TopsUp(name) ==
  \E i \in DOMAIN Program[script] :
    Program[script][i].do = "fund" /\ Program[script][i].name = name

Lacking ==
  \/ step.do = "holds" /\ Balance < step.least
  \/ /\ Sends /\ ~Affords(Request)
     /\ \A name \in {trader, attacker} :
          TopsUp(name) => Request.from # Get(mem, name)

(* task02:306, task03:223 ("exists, reusing"): a script that is run again  *)
(* after it has died comes to its end, and what it has made and bought     *)
(* does not stop it.  It does not when a step of it can never be done, for *)
(* want of funds or of a key (nothing tops up task02's trader, 372-394,    *)
(* and every run buys again); when a migration was begun again while       *)
(* another was under way, whose position is then lost to the script; and   *)
(* task04's launches are not made to be repeated.                          *)
Completes ==
  <>(\/ at = "done"
     \/ at = "ready" /\ (Unreadable \/ Lacking)
     \/ overtaken
     \/ script = "task04" /\ faults > 0)
=============================================================================
