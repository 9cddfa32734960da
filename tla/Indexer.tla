------------------------------ MODULE Indexer ------------------------------
(***************************************************************************)
(* The indexer (offchain/src/indexer/indexer.ts) and its file store        *)
(* (indexer/store.ts): slots of the chain become balances after each       *)
(* transaction, in memory and in an append-only file, with a watermark for *)
(* the last slot below which none is missing.                              *)
(*                                                                         *)
(* Slots may come out of order, twice, or late, and the process may crash  *)
(* between two writes of a handler or in the middle of one.  Handlers are  *)
(* synchronous, so memory changes in one step; the writes they make are    *)
(* queued in todo and reach the disk one by one.                           *)
(*                                                                         *)
(* One mint is modelled: those of others share the files and the watermark *)
(* but no balance.  A line of the file is a sequence of at most one        *)
(* record: <<r>> if it parses, <<>> if it does not.                        *)
(***************************************************************************)
EXTENDS AgedBalance, SequencesExt

CONSTANTS
  Wallets,     \* whose balances change, the pool included
  Pools,       \* the coin's pool and vaults, which trackCoin excludes
  LastSlot,    \* the newest slot of the chain
  Chains,      \* the histories considered: a block per slot
  MaxTime,     \* bound on the times at which the engine is asked
  MaxCrashes,  \* bound on crashes
  MaxDetours   \* bound on slots delivered out of turn

Slots == 0 .. LastSlot
Times == 0 .. MaxTime

SEQ_MULT == 100000

(* Each block has its time and its transactions, a transaction its legs;   *)
(* time does not run backwards along the chain, and a block has no more    *)
(* transactions than SEQ_MULT makes room for.                              *)
Legs == [wallet : Wallets, delta : Int]
Blocks == [ts : Times, txs : Seq(Seq(Legs))]

ASSUME ChainAssumption ==
  /\ LastSlot \in Nat
  /\ MaxTime \in Nat
  /\ \A chain \in Chains :
       /\ chain \in [Slots -> Blocks]
       /\ \A s \in Slots : Len(chain[s].txs) <= SEQ_MULT
       /\ \A s, t \in Slots : s <= t => chain[s].ts <= chain[t].ts

ASSUME BoundsAssumption == MaxCrashes \in Nat /\ MaxDetours \in Nat

VARIABLES
  chain,     \* what happened on the chain
  lines,     \* balances.jsonl
  ended,     \* whether that file ends in a newline
  meta,      \* meta.json, in memory and on disk
  up,        \* whether the process runs
  balances,  \* the records in memory
  latest,    \* the latest balance of each wallet, in memory
  pending,   \* the slots processed above the watermark
  highest,   \* the highest slot seen
  excluded,  \* the excluded wallets
  todo,      \* the writes the running handler has still to make
  \* auxiliary: no guard of the indexer's actions reads these
  base,        \* the slot before the first one ever delivered
  detours,     \* how many slots were delivered out of turn
  interrupted, \* a crash has interrupted a handler
  cut,         \* a record that was whole, or whole in memory, was lost
  pruned,      \* the latest time up to which history was pruned
  crashes

disk == <<lines, ended, meta>>
memory == <<balances, latest, pending, highest, excluded>>
faults == <<base, detours, interrupted, cut, pruned, crashes>>
vars == <<chain, disk, up, memory, todo, faults>>

(* A key that is missing from meta.json.  Number(undefined) is not a       *)
(* number, and like -1 it is at or past no time.                           *)
Undefined == -2
NoMeta == [started |-> FALSE, watermark |-> Undefined, watermarkTs |-> -1]

(* The elements of a sequence at some indexes, in order.                   *)
Picked(seq, at) ==
  [n \in 1 .. Cardinality(at) |->
     seq[CHOOSE i \in at : Cardinality({j \in at : j < i}) = n - 1]]

----------------------------------------------------------------------------
(* The store.                                                              *)

WriteTo(key, value) == [to |-> key, value |-> value, recs |-> <<>>]
WriteLine(r) == [to |-> "line", value |-> 0, recs |-> <<r>>]
Rewrite(recs) == [to |-> "log", value |-> 0, recs |-> recs]

(* What reload reads back: the lines that parse, and per wallet the last   *)
(* of them.                                                                *)
LatestOf(recs) ==
  [w \in Wallets |->
     LET mine == {i \in DOMAIN recs : recs[i].wallet = w}
     IN IF mine = {} THEN 0 ELSE recs[Max(mine)].balance]

(* Bug: it stops at the first line that does not parse.                    *)
ReloadedToTorn ==
  LET whole == {n \in 0 .. Len(lines) : \A i \in 1 .. n : lines[i] # <<>>}
  IN FlattenSeq(SubSeq(lines, 1, Max(whole)))

Reloaded == FlattenSeq(lines)

(* The events of each wallet that has any at or after since.               *)
historyFor(since) ==
  LET recent == {i \in DOMAIN balances : balances[i].ts >= since}
  IN [w \in {balances[i].wallet : i \in recent} |->
        Picked(balances, {i \in recent : balances[i].wallet = w})]

(* The records that prune keeps: those at or after before, and for each    *)
(* wallet the last one earlier than that.  Bug: none earlier is kept.      *)
KeptNone(recs, before) ==
  Picked(recs, {i \in DOMAIN recs : recs[i].ts >= before})

Kept(recs, before) ==
  LET older(w) == {i \in DOMAIN recs : recs[i].wallet = w /\ recs[i].ts < before}
      later(i, j) == \/ recs[j].ts > recs[i].ts
                     \/ recs[j].ts = recs[i].ts /\ recs[j].seq > recs[i].seq
      \* the first of the latest, if two are equally late
      last(w) == CHOOSE i \in older(w) :
                   \A j \in older(w) : ~later(i, j) /\
                     (j < i => later(j, i))
  IN Picked(recs, {i \in DOMAIN recs :
                     recs[i].ts >= before \/ i = last(recs[i].wallet)})

----------------------------------------------------------------------------
(* The indexer.                                                            *)

(* The legs of a transaction, netted by wallet.                            *)
Net(tx, w) ==
  LET sum[i \in 0 .. Len(tx)] ==
        IF i = 0 THEN 0
        ELSE sum[i - 1] + (IF tx[i].wallet = w THEN tx[i].delta ELSE 0)
  IN sum[Len(tx)]

(* The wallets that get a record, in the order of their first legs.        *)
Affected(tx, out) ==
  LET first(i) == \A j \in 1 .. i - 1 : tx[j].wallet # tx[i].wallet
      gets(w) == w \notin out /\ Net(tx, w) # 0
      picked == Picked(tx, {i \in DOMAIN tx : first(i) /\ gets(tx[i].wallet)})
  IN [k \in DOMAIN picked |-> picked[k].wallet]

(* ingestTx, over the transactions of slot s: the balances after the first *)
(* i of them, and the records written.  What has not been seen to arrive   *)
(* cannot leave: a balance stops at 0.                                     *)
BalancesAfter(s) ==
  LET after[i \in 0 .. Len(chain[s].txs)] ==
        IF i = 0 THEN latest
        ELSE [w \in Wallets |->
                IF w \in excluded THEN latest[w]
                ELSE Max({0, after[i - 1][w] + Net(chain[s].txs[i], w)})]
  IN after

RecordsOf(s, after) ==
  FlattenSeq([i \in DOMAIN chain[s].txs |->
    LET who == Affected(chain[s].txs[i], excluded) IN
    [k \in DOMAIN who |->
       [wallet |-> who[k], balance |-> after[i][who[k]],
        ts |-> chain[s].ts, seq |-> s * SEQ_MULT + i]]])

(* The watermark after wm, with the slots of waiting processed.  Bugs: it  *)
(* jumps to the highest of them; it stops one short.                       *)
AdvancedShort(wm, waiting) ==
  Max({wm} \cup {s \in waiting : wm < s /\ wm + 1 .. s + 1 \subseteq waiting})

AdvancedOver(wm, waiting) == Max(waiting \cup {wm})

Advanced(wm, waiting) ==
  Max({wm} \cup {s \in waiting : wm < s /\ wm + 1 .. s \subseteq waiting})

(* The common part of processSlot and backfill: ingest the slot, then      *)
(* advance.  first has the writes that baseline makes, from is the         *)
(* watermark it leaves.                                                    *)
IngestSlot(s, from, first) ==
  \E recs \in {RecordsOf(s, BalancesAfter(s))} :
  \E wm \in {Advanced(from, pending \cup {s})} :
    /\ balances' = balances \o recs
    /\ latest' = BalancesAfter(s)[Len(chain[s].txs)]
    /\ pending' = {t \in pending \cup {s} : t > wm}
    /\ highest' = Max({highest, s})
    /\ todo' = first \o [i \in DOMAIN recs |-> WriteLine(recs[i])] \o
         IF wm = from THEN <<>>
         ELSE <<WriteTo("watermark", wm), WriteTo("watermarkTs", chain[wm].ts)>>

(* The caller delivers slot s.  The first slot ever seen sets the          *)
(* baseline; one at or below the watermark is a replay and changes         *)
(* nothing.                                                                *)
processSlot(s) ==
  /\ up
  /\ todo = <<>>
  /\ IF meta.started
     THEN /\ s > meta.watermark
          /\ s # meta.watermark + 1 => detours < MaxDetours
          /\ IngestSlot(s, meta.watermark, <<>>)
          /\ detours' = detours + (IF s = meta.watermark + 1 THEN 0 ELSE 1)
          /\ UNCHANGED base
     ELSE /\ IngestSlot(s, s - 1, <<WriteTo("started", 1),
                                    WriteTo("watermark", s - 1),
                                    WriteTo("watermarkTs", 0)>>)
          /\ base' = s - 1
          /\ UNCHANGED detours
  /\ UNCHANGED <<chain, disk, up, excluded, interrupted, cut, pruned, crashes>>

(* gaps: the missing slots between the watermark and the highest seen.     *)
Missing == {s \in meta.watermark + 1 .. highest : s \notin pending}

(* A gap is filled.  Only slots that gaps reports are asked for.           *)
backfill(s) ==
  /\ up
  /\ todo = <<>>
  /\ s \in Missing
  /\ IngestSlot(s, meta.watermark, <<>>)
  /\ UNCHANGED <<chain, disk, up, excluded, faults>>

(* The gate of a round that ends at time at.                               *)
windowComplete(at) == meta.watermarkTs >= at /\ Missing = {}

(* A coin is registered: its pool and vaults no longer count.  putCoin     *)
(* writes a coin to its own file, which nothing here reads.                *)
trackCoin ==
  /\ up
  /\ todo = <<>>
  /\ excluded # Pools
  /\ excluded' = excluded \cup Pools
  /\ UNCHANGED <<chain, disk, up, balances, latest, pending, highest, todo,
                 faults>>

prune(before) ==
  /\ up
  /\ todo = <<>>
  /\ before > pruned
  /\ pruned' = before
  /\ balances' = Kept(balances, before)
  /\ todo' = <<Rewrite(Kept(balances, before))>>
  /\ UNCHANGED <<chain, disk, up, latest, pending, highest, excluded, base,
                 detours, interrupted, cut, crashes>>

----------------------------------------------------------------------------
(* The disk.                                                               *)

(* A line is added to a file that does not end in a newline: it continues  *)
(* the torn one, and neither parses.                                       *)
WithLine(line) ==
  IF ended THEN Append(lines, line)
  ELSE Append(Front(lines), <<>>)

(* The next write is made whole.                                           *)
Flush ==
  /\ up
  /\ todo # <<>>
  /\ todo' = Tail(todo)
  /\ LET w == Head(todo) IN
     CASE w.to = "line" ->
            /\ lines' = WithLine(w.recs)
            /\ ended' = TRUE
            /\ cut' = (cut \/ ~ended)
            /\ UNCHANGED meta
       [] w.to = "log" ->
            /\ lines' = [i \in DOMAIN w.recs |-> <<w.recs[i]>>]
            /\ ended' = TRUE
            /\ UNCHANGED <<meta, cut>>
       [] w.to = "started" ->
            /\ meta' = [meta EXCEPT !.started = TRUE]
            /\ UNCHANGED <<lines, ended, cut>>
       [] OTHER ->
            /\ meta' = [meta EXCEPT ![w.to] = w.value]
            /\ UNCHANGED <<lines, ended, cut>>
  /\ UNCHANGED <<chain, up, memory, base, detours, interrupted, pruned,
                 crashes>>

(* The next write is torn by a crash: a record loses its end, or only its  *)
(* newline; a file that is written anew is empty, or ends anywhere.        *)
TornWrite ==
  LET w == Head(todo) IN
  \/ /\ w.to = "line"
     /\ \E line \in {<<>>, w.recs} : lines' = WithLine(line)
     /\ ended' = FALSE
     /\ cut' = (cut \/ ~ended)
     /\ UNCHANGED meta
  \/ /\ w.to = "log"
     /\ \E n \in 0 .. Len(w.recs) - 1 :
          lines' = [i \in 1 .. n |-> <<w.recs[i]>>]
     /\ ended' = TRUE
     /\ cut' = TRUE
     /\ UNCHANGED meta
  \/ /\ w.to \in {"started", "watermark", "watermarkTs"}
     /\ meta' = NoMeta
     /\ UNCHANGED <<lines, ended, cut>>

(* The process ends; memory is lost, and with it the writes not yet made.  *)
Crash ==
  /\ up
  /\ crashes < MaxCrashes
  /\ crashes' = crashes + 1
  /\ up' = FALSE
  /\ balances' = <<>>
  /\ latest' = [w \in Wallets |-> 0]
  /\ pending' = {}
  /\ highest' = -1
  /\ excluded' = {}
  /\ todo' = <<>>
  /\ interrupted' = (interrupted \/ todo # <<>>)
  /\ \/ todo # <<>> /\ TornWrite
     \/ UNCHANGED <<disk, cut>>
  /\ UNCHANGED <<chain, base, detours, pruned>>

(* The constructors: reload, then an initial watermark if there is none.   *)
Restart ==
  /\ ~up
  /\ up' = TRUE
  /\ balances' = Reloaded
  /\ latest' = LatestOf(Reloaded)
  /\ todo' = IF meta.watermark = Undefined
             THEN <<WriteTo("watermark", -1), WriteTo("watermarkTs", 0)>>
             ELSE <<>>
  /\ UNCHANGED <<chain, disk, pending, highest, excluded, faults>>

----------------------------------------------------------------------------
Init ==
  /\ chain \in Chains
  /\ lines = <<>>
  /\ ended = TRUE
  /\ meta = NoMeta
  /\ up = FALSE
  /\ balances = <<>>
  /\ latest = [w \in Wallets |-> 0]
  /\ pending = {}
  /\ highest = -1
  /\ excluded = {}
  /\ todo = <<>>
  /\ base = -1
  /\ detours = 0
  /\ interrupted = FALSE
  /\ cut = FALSE
  /\ pruned = 0
  /\ crashes = 0

Next ==
  \/ \E s \in Slots : processSlot(s) \/ backfill(s)
  \/ trackCoin
  \/ \E t \in Times : prune(t)
  \/ Flush
  \/ Crash
  \/ Restart

Spec == Init /\ [][Next]_vars

(* The caller resumes at the slot after the watermark.                      *)
DeliverNext == \E s \in Slots : s = meta.watermark + 1 /\ processSlot(s)

(* Exactly one of the three is possible until the end of the chain.        *)
FairSpec == Spec /\ WF_vars(Restart \/ Flush \/ DeliverNext)

----------------------------------------------------------------------------
(* What really happened: the transactions of a history in order, the       *)
(* balance of a wallet after the first n of them, and the balances it held *)
(* at some time from windowStart to at.                                    *)
Happened(history) ==
  FlattenSeq([k \in 1 .. LastSlot + 1 |->
    [i \in DOMAIN history[k - 1].txs |->
       [ts |-> history[k - 1].ts, legs |-> history[k - 1].txs[i]]]])

TrueBalance(history, w, n) ==
  LET sum[i \in 0 .. n] ==
        IF i = 0 THEN 0 ELSE sum[i - 1] + Net(Happened(history)[i].legs, w)
  IN sum[n]

(* No holder ever has less than nothing.                                   *)
ASSUME HistoryAssumption ==
  \A history \in Chains : \A w \in Wallets \ Pools :
    \A n \in 0 .. Len(Happened(history)) : TrueBalance(history, w, n) >= 0

HeldDuring(w, windowStart, at) ==
  LET txs == Happened(chain) IN
  {TrueBalance(chain, w, n) : n \in
     {k \in 0 .. Len(txs) :
        /\ k = 0 \/ txs[k].ts <= at
        /\ k = Len(txs) \/ txs[k + 1].ts > windowStart}}

(* What the engine is told of a wallet.                                    *)
AgedOf(w, since, windowStart, at) ==
  LET round == computeRound(historyFor(since), windowStart, at, {})
  IN IF w \in DOMAIN round THEN round[w] ELSE 0

(* The coin has no transfer before the first slot delivered.               *)
FromTheStart == \A s \in 0 .. base : chain[s].txs = <<>>

(* The chain has moved on from at: no slot still to come has that time.    *)
(* windowComplete does not ask for this, and two slots may have one time.  *)
Sealed(at) == \A s \in meta.watermark + 1 .. LastSlot : chain[s].ts # at

(* The records of a wallet came in the order of the chain, each once.      *)
InTurn(w) ==
  \A i, j \in DOMAIN balances :
    /\ i < j
    /\ balances[i].wallet = w
    /\ balances[j].wallet = w
    => balances[i].seq < balances[j].seq

(* The questions a round may be built on: the gate is open for at, and     *)
(* history is kept from the start of the window.                           *)
Asked(windowStart, at) ==
  /\ up
  /\ todo = <<>>
  /\ windowStart < at
  /\ windowComplete(at)
  /\ Sealed(at)
  /\ FromTheStart
  /\ pruned <= windowStart + 1
  /\ ~cut

(* aged-balance.ts:5-6, indexer.ts:119-121: behind the gate, the engine's  *)
(* number is the smallest balance the wallet held in the window, as long   *)
(* as this wallet's own records came in the order of the chain, each once, *)
(* and no slot is still to come at the gate's time: whatever came late,    *)
(* twice or not at all for others, and whatever crashed.  A slot replayed  *)
(* after a crash among its writes, or filled in late, does put the records *)
(* of its wallets out of turn: see ReplayIdempotent.  A history cut at any *)
(* time can only turn the number into 0.                                   *)
AgedTrue ==
  \A windowStart, at \in Times : Asked(windowStart, at) =>
    \A w \in Wallets \ Pools :
      /\ InTurn(w)
      /\ pruned = 0 \/ (detours = 0 /\ ~interrupted)
      => LET aged == Smallest(HeldDuring(w, windowStart, at)) IN
         /\ AgedOf(w, 0, windowStart, at) = aged
         /\ \A since \in Times :
              AgedOf(w, since, windowStart, at) \in {0, aged}

(* "idempotent replay" (indexer.ts:81): with no slot late and nothing      *)
(* pruned, the number behind the gate is right for every wallet, although  *)
(* a slot is delivered again after a crash.                                *)
ReplayIdempotent ==
  detours = 0 /\ pruned = 0 =>
    \A windowStart, at \in Times : Asked(windowStart, at) =>
      \A w \in Wallets \ Pools :
        AgedOf(w, 0, windowStart, at) = Smallest(HeldDuring(w, windowStart, at))

(* store.ts:14-16: the watermark on disk never runs ahead of the records:  *)
(* each transfer of the slots it covers is in the file, unless a torn line *)
(* was continued or a rewrite torn.                                        *)
Acknowledged ==
  ~cut =>
    \A s \in base + 1 .. meta.watermark :
      chain[s].ts >= pruned =>
        \A i \in DOMAIN chain[s].txs : \A w \in Wallets \ Pools :
          Net(chain[s].txs[i], w) # 0 =>
            \E k \in DOMAIN Reloaded :
              /\ Reloaded[k].wallet = w
              /\ Reloaded[k].seq = s * SEQ_MULT + i

(* The records on file, with those whose writes are still queued.          *)
OnFile ==
  IF todo # <<>> /\ Head(todo).to = "log" THEN Head(todo).recs
  ELSE Reloaded \o FlattenSeq([j \in DOMAIN todo |-> todo[j].recs])

(* How much less than "a restart reproduces state exactly" (store.ts:36):  *)
(* at every moment, inside a handler too, the file and the writes queued   *)
(* have the records of memory, but for at most two neighbours, whose lines *)
(* met where a crash cut a newline; so a crash loses these, and what was   *)
(* not yet written.  The latest balances of memory are what a reload makes *)
(* of its records, unless a prune met records out of turn.                 *)
FileFollowsMemory ==
  up =>
    /\ \E i \in 0 .. Len(balances), n \in 0 .. 2 :
         /\ n > 0 => cut
         /\ OnFile = SubSeq(balances, 1, i)
                       \o SubSeq(balances, i + n + 1, Len(balances))
    /\ pruned = 0 \/ (detours = 0 /\ ~interrupted) => latest = LatestOf(balances)

(* indexer.ts:25: as long as the caller resumes at the watermark, it       *)
(* reaches the end of the chain, through gaps, replays and crashes.        *)
CatchesUp == <>[](meta.watermark = LastSlot)

=============================================================================
