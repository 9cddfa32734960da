--------------------------- MODULE PayoutPromise ---------------------------
(***************************************************************************)
(* What a coin's payout rounds promise, without accounts, clocks, lists or *)
(* balances: a round is frozen once and only ever spent from; a bucket is  *)
(* opened once, out of its round's unspent rest, with a pot and a queue of *)
(* recipients; and recipients leave the queue, each with at least one unit *)
(* of the pot, never to be served again.                                   *)
(***************************************************************************)
EXTENDS Integers

CONSTANTS Rounds, Assets

VARIABLES
  rest,    \* unspent WSOL of a round
  frozen,  \* the rounds that are frozen
  opened,  \* the buckets that are open, by round and asset
  pot,     \* what a bucket may still pay
  queue    \* how many of a bucket's recipients are still unpaid

promise == <<rest, frozen, opened, pot, queue>>

PromiseInit ==
  /\ rest = [r \in Rounds |-> 0]
  /\ frozen = {}
  /\ opened = {}
  /\ pot = [r \in Rounds |-> [a \in Assets |-> 0]]
  /\ queue = [r \in Rounds |-> [a \in Assets |-> 0]]

Freeze(r) ==
  /\ r \notin frozen
  /\ frozen' = frozen \cup {r}
  /\ rest'[r] >= 0
  /\ rest' = [rest EXCEPT ![r] = rest'[r]]
  /\ UNCHANGED <<opened, pot, queue>>

Open(r, a) ==
  /\ r \in frozen
  /\ <<r, a>> \notin opened
  /\ opened' = opened \cup {<<r, a>>}
  /\ 0 <= rest'[r] /\ rest'[r] < rest[r]
  /\ rest' = [rest EXCEPT ![r] = rest'[r]]
  /\ pot'[r][a] > 0
  /\ pot' = [pot EXCEPT ![r][a] = pot'[r][a]]
  /\ queue'[r][a] >= 0
  /\ queue' = [queue EXCEPT ![r][a] = queue'[r][a]]
  /\ UNCHANGED frozen

Serve(r, a) ==
  /\ <<r, a>> \in opened
  /\ 0 <= queue'[r][a] /\ queue'[r][a] < queue[r][a]
  /\ queue' = [queue EXCEPT ![r][a] = queue'[r][a]]
  /\ 0 <= pot'[r][a]
  /\ pot[r][a] - pot'[r][a] >= queue[r][a] - queue'[r][a]
  /\ pot' = [pot EXCEPT ![r][a] = pot'[r][a]]
  /\ UNCHANGED <<rest, frozen, opened>>

PromiseNext ==
  \E r \in Rounds : Freeze(r) \/ \E a \in Assets : Open(r, a) \/ Serve(r, a)

PromiseSpec == PromiseInit /\ [][PromiseNext]_promise
=============================================================================
