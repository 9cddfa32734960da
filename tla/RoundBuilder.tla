---------------------------- MODULE RoundBuilder ----------------------------
(***************************************************************************)
(* The round builder (offchain/src/round-builder.ts): from the aged        *)
(* balances of a round to its buckets and its Merkle root; and the check   *)
(* of a published round in the browser (app/src/verify.ts).                *)
(*                                                                         *)
(* A wallet is a number, the place of its key in the order of the keys.    *)
(* Lists in the order of the keys are sets of wallets, except the leaves   *)
(* of the tree, where positions matter.  Hashes are ideal: a hash is what  *)
(* was hashed, a pair's the set of the two, since they are hashed in order *)
(* of size.                                                                *)
(***************************************************************************)
EXTENDS AgedBalance, SequencesExt, UnitSums

(* Bug: an elected mint counts though the list has dropped it since.       *)
resolveAssetAny(in, w) ==
  CASE w \in DOMAIN in.elections -> in.elections[w]
    [] in.defaultPayoutMint \in in.allowlist -> in.defaultPayoutMint
    [] OTHER -> in.usdcMint

(* An elected mint counts if the round's allowlist has it; then the coin's *)
(* default if the list has that; then USDC, in any case.                   *)
resolveAsset(in, w) ==
  CASE w \in DOMAIN in.elections /\ in.elections[w] \in in.allowlist ->
         in.elections[w]
    [] in.defaultPayoutMint \in in.allowlist -> in.defaultPayoutMint
    [] OTHER -> in.usdcMint

Eligible(in) ==
  {w \in DOMAIN in.aged : isEligible(in.aged[w], in.supply, in.capBps)}

Weights(in) == [w \in Eligible(in) |-> in.aged[w]]

(* The part of amount that weights give to each wallet, rounded down.      *)
(* Bug: rounded to the nearest.                                            *)
SharesRounded(weights, amount) ==
  [w \in DOMAIN weights |->
     (2 * weights[w] * amount + Total(weights)) \div (2 * Total(weights))]

Shares(weights, amount) ==
  [w \in DOMAIN weights |-> (weights[w] * amount) \div Total(weights)]

(* Shares below the rent are not sent.                                     *)
Paid(in) ==
  {w \in Eligible(in) :
     Shares(Weights(in), in.payoutAmount)[w] >= in.minShareLamports}

Part(f, S) == Total([x \in S |-> f[x]])

(* A set of wallets in the order of their keys.                            *)
InOrder(S) ==
  [i \in 1 .. Cardinality(S) |->
     CHOOSE w \in S : Cardinality({v \in S : v < w}) = i - 1]

(* Bug: the tree has the paid wallets only.                                *)
EntriesPaid(in) ==
  LET order == InOrder(Paid(in))
  IN [i \in DOMAIN order |->
        [wallet |-> order[i], outMint |-> resolveAsset(in, order[i]),
         weight |-> in.aged[order[i]]]]

(* All eligible wallets, paid or not, in the order of the leaves.          *)
Entries(in) ==
  LET order == InOrder(Eligible(in))
  IN [i \in DOMAIN order |->
        [wallet |-> order[i], outMint |-> resolveAsset(in, order[i]),
         weight |-> in.aged[order[i]]]]

----------------------------------------------------------------------------
(* The tree.                                                               *)

leafFor(entry) == <<"leaf", entry.wallet, entry.outMint, entry.weight>>

pairHash(l, r) == <<"pair", {l, r}>>

(* The level above: pairs, an odd last one paired with itself.             *)
Above(level) ==
  [i \in 1 .. (Len(level) + 1) \div 2 |->
     pairHash(level[2 * i - 1],
              IF 2 * i <= Len(level) THEN level[2 * i] ELSE level[2 * i - 1])]

(* The levels of the tree, from the leaves on.                             *)
LevelsOf(leaves) ==
  LET levels[k \in 0 .. Len(leaves)] ==
        IF k = 0 THEN leaves ELSE Above(levels[k - 1])
  IN levels

(* The number of the level that has one node.                              *)
Height(leaves) ==
  LET levels == LevelsOf(leaves)
  IN CHOOSE k \in 0 .. Len(leaves) :
       Len(levels[k]) = 1 /\ \A j \in 0 .. k - 1 : Len(levels[j]) > 1

merkleRoot(leaves) ==
  IF leaves = <<>> THEN <<"zero">> ELSE LevelsOf(leaves)[Height(leaves)][1]

(* The place of leaf index on each level, counted from 0.                  *)
PlacesOf(leaves, index) ==
  LET places[k \in 0 .. Len(leaves)] ==
        IF k = 0 THEN index - 1 ELSE places[k - 1] \div 2
  IN places

(* The sibling of leaf index on each level, itself at an odd end.  Bug: at *)
(* an odd end the first of the level.                                      *)
merkleProofWrapped(leaves, index) ==
  [k \in 1 .. Height(leaves) |->
     LET level == LevelsOf(leaves)[k - 1]
         i == PlacesOf(leaves, index)[k - 1]
         sibling == IF i % 2 = 1 THEN i - 1 ELSE i + 1
     IN level[IF sibling < Len(level) THEN sibling + 1 ELSE 1]]

merkleProof(leaves, index) ==
  [k \in 1 .. Height(leaves) |->
     LET level == LevelsOf(leaves)[k - 1]
         i == PlacesOf(leaves, index)[k - 1]
         sibling == IF i % 2 = 1 THEN i - 1 ELSE i + 1
     IN level[IF sibling < Len(level) THEN sibling + 1 ELSE i + 1]]

verifyLeaf(leaf, proof, root) == FoldLeft(pairHash, leaf, proof) = root

----------------------------------------------------------------------------
(* The plan of a round, what is published of it, and the check of that.    *)

build(in) ==
  LET weights == Weights(in)
      share == Shares(weights, in.payoutAmount)
      into(m) == {w \in Paid(in) : resolveAsset(in, w) = m}
      dropped == Eligible(in) \ Paid(in)
      entries == Entries(in)
  IN [epochIndex |-> in.epochIndex,
      totalWeight |-> Total(weights),
      payoutAmount |-> in.payoutAmount,
      buckets |-> [m \in {resolveAsset(in, w) : w \in Paid(in)} |->
                     [amountIn |-> Part(share, into(m)),
                      recipients |-> into(m)]],
      merkleRoot |-> merkleRoot([i \in DOMAIN entries |-> leafFor(entries[i])]),
      droppedSubRent |-> dropped,
      droppedShareLamports |-> Part(share, dropped),
      entries |-> entries]

buildRoundFile(plan) ==
  [epochIndex |-> plan.epochIndex,
   totalWeight |-> plan.totalWeight,
   payoutAmount |-> plan.payoutAmount,
   droppedShareLamports |-> plan.droppedShareLamports,
   merkleRoot |-> plan.merkleRoot,
   entries |-> [i \in DOMAIN plan.entries |->
     [wallet |-> plan.entries[i].wallet, outMint |-> plan.entries[i].outMint,
      weight |-> plan.entries[i].weight,
      dropped |-> plan.entries[i].wallet \in plan.droppedSubRent]]]

(* In the browser: the root is computed anew from the entries of the file. *)
verifyRoundFile(file, onChainRoot) ==
  merkleRoot([i \in DOMAIN file.entries |-> leafFor(file.entries[i])])
    = onChainRoot

=============================================================================
