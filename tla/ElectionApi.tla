---------------------------- MODULE ElectionApi ----------------------------
(***************************************************************************)
(* The election API (offchain/src/election-api.ts): a holder signs which   *)
(* mint to be paid in, for one coin and one epoch; the service keeps the   *)
(* newest choice of each wallet, in memory.  One coin is modelled.         *)
(*                                                                         *)
(* A signature is who made it: a message names the wallet it is sent for   *)
(* and the one that signed it.  What was signed once may be sent again at  *)
(* any time, by anyone.                                                    *)
(***************************************************************************)
EXTENDS Integers, FiniteSets

CONSTANTS
  Electors,  \* wallets that elect
  Mints,     \* mints that may be paid in
  Epochs,    \* epochs elected for
  MaxNonce   \* bound on nonces

ASSUME ElectionAssumption == Epochs \subseteq Nat /\ MaxNonce \in Nat

VARIABLES
  signed,    \* messages that exist
  elections  \* the service's store

Message == [wallet : Electors, signer : Electors, epochIndex : Epochs,
            outMint : Mints, nonce : 1 .. MaxNonce]

(* No election is stored: below every nonce.                               *)
NoElection == [outMint |-> "none", nonce |-> 0]

ElectionTypeOK ==
  /\ signed \subseteq Message
  /\ DOMAIN elections = Epochs \X Electors
  /\ \A k \in Epochs \X Electors :
       \/ elections[k] = NoElection
       \/ elections[k].outMint \in Mints /\ elections[k].nonce \in 1 .. MaxNonce

ElectionInit ==
  /\ signed = {}
  /\ elections = [k \in Epochs \X Electors |-> NoElection]

(* The wallet signs a message for the epoch.                               *)
Sign(message) == signed' = signed \cup {message}

(* The nonce is newer than the one stored.  Bug: it may be the same.       *)
NewerOrSame(message, stored) == message.nonce >= stored.nonce

Newer(message, stored) == message.nonce > stored.nonce

(* submit: the signature is by the wallet, the mint is in the round's      *)
(* allowlist, the nonce is newer than the one stored; else an error.       *)
Accepted(message, allowlist) ==
  /\ message.signer = message.wallet
  /\ message.outMint \in allowlist
  /\ Newer(message, elections[<<message.epochIndex, message.wallet>>])

submit(message, allowlist) ==
  /\ message \in signed
  /\ Accepted(message, allowlist)
  /\ elections' = [elections EXCEPT ![<<message.epochIndex, message.wallet>>] =
       [outMint |-> message.outMint, nonce |-> message.nonce]]

(* What the round builder reads: wallet -> elected mint.                   *)
electionsForRound(e) ==
  [w \in {x \in Electors : elections[<<e, x>>] # NoElection} |->
     elections[<<e, w>>].outMint]

(* The process is started again: the store is in memory.                   *)
RestartApi == elections' = [k \in Epochs \X Electors |-> NoElection]
=============================================================================
