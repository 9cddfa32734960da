---------------------------- MODULE Distribution ----------------------------
(***************************************************************************)
(* The distribution of one bucket: the keeper's resumable driver           *)
(* (distributeBucket in offchain/src/keeper.ts) against the program's      *)
(* distribute_batch, through an RPC that answers late and a network that   *)
(* loses, delays and repeats transactions.                                 *)
(*                                                                         *)
(* The driver is a loop: read the cursor, stop if it is past the list,     *)
(* else send the next batch from there and await it.  Any error is thrown  *)
(* to the caller, which calls the driver again; a crash is the same, a     *)
(* fresh call that remembers nothing.  Several drivers may run on the same *)
(* bucket: a restarted keeper beside one that was only slow.  All of them  *)
(* have the same list, which the round builder computes the same way each  *)
(* time.                                                                   *)
(***************************************************************************)
EXTENDS Integers, FiniteSets, UnitSums

CONSTANTS
  Drivers,        \* running or restarted drivers of this bucket
  RecipientCount, \* length of the list, and the recipient_count of the bucket
  BatchSize,      \* recipients per transaction
  Share,          \* amounts of the list, by position
  AmountOut,      \* what the bucket's swap measured
  MaxCrashes      \* bound on the number of crashes

Positions == 0 .. RecipientCount - 1

ASSUME DriversAssumption ==
  /\ RecipientCount \in Nat \ {0}
  /\ BatchSize \in Nat \ {0}
  /\ MaxCrashes \in Nat

(* distribute_batch refuses a zero amount, and the list is within what the *)
(* swap measured.                                                          *)
ASSUME ShareAssumption ==
  /\ Share \in [Positions -> Nat \ {0}]
  /\ AmountOut \in Nat
  /\ Total(Share) <= AmountOut

VARIABLES
  cursor,       \* BucketState.cursor
  paid_amount,  \* BucketState.paid_amount
  complete,     \* BucketState.complete
  received,     \* tokens received, by position of the list
  view,         \* the cursor as the RPC node of each driver knows it
  pc,           \* what each driver is doing
  start,        \* the startIndex each driver sent last
  answer,       \* what became of the transaction each driver awaits
  flight,       \* transactions in flight: who sent them, and from where
  crashes

bucket == <<cursor, paid_amount, complete, received>>
driver == <<pc, start, answer>>
vars == <<bucket, view, driver, flight, crashes>>

Tx == [by : Drivers, start : Positions]

TypeOK ==
  /\ cursor \in 0 .. RecipientCount
  /\ paid_amount \in Nat
  /\ complete \in BOOLEAN
  /\ received \in [Positions -> Nat]
  /\ view \in [Drivers -> 0 .. RecipientCount]
  /\ pc \in [Drivers -> {"idle", "reading", "sending"}]
  /\ start \in [Drivers -> Positions]
  /\ answer \in [Drivers -> {"none", "ok", "error"}]
  /\ flight \subseteq Tx
  /\ crashes \in 0 .. MaxCrashes

Init ==
  /\ cursor = 0
  /\ paid_amount = 0
  /\ complete = FALSE
  /\ received = [p \in Positions |-> 0]
  /\ view = [d \in Drivers |-> 0]
  /\ pc = [d \in Drivers |-> "idle"]
  /\ start = [d \in Drivers |-> 0]
  /\ answer = [d \in Drivers |-> "none"]
  /\ flight = {}
  /\ crashes = 0

(* recipients.slice(from, from + batchSize)                                *)
Slice(from) == {p \in Positions : from <= p /\ p < from + BatchSize}

----------------------------------------------------------------------------
(* The driver.                                                             *)

Call(d) ==
  /\ pc[d] = "idle"
  /\ pc' = [pc EXCEPT ![d] = "reading"]
  /\ UNCHANGED <<bucket, view, start, answer, flight, crashes>>

(* The list is exhausted; the call returns.  Off by one, the loop runs on  *)
(* or stops with the last batch unsent.                                    *)
DoneBeyond(at) == at > RecipientCount
DoneEarly(at) == at + BatchSize >= RecipientCount

DoneAt(at) == at >= RecipientCount

Finish(d) ==
  /\ pc[d] = "reading"
  /\ DoneAt(view[d])
  /\ pc' = [pc EXCEPT ![d] = "idle"]
  /\ UNCHANGED <<bucket, view, start, answer, flight, crashes>>

(* Nothing is awaited between reading the cursor and sending the batch.    *)
SendBatch(d) ==
  /\ pc[d] = "reading"
  /\ ~DoneAt(view[d])
  /\ pc' = [pc EXCEPT ![d] = "sending"]
  /\ start' = [start EXCEPT ![d] = view[d]]
  /\ answer' = [answer EXCEPT ![d] = "none"]
  /\ flight' = flight \cup {[by |-> d, start |-> view[d]]}
  /\ UNCHANGED <<bucket, view, crashes>>

(* The transaction was confirmed: on to the next batch.                    *)
Confirmed(d) ==
  /\ pc[d] = "sending"
  /\ answer[d] = "ok"
  /\ pc' = [pc EXCEPT ![d] = "reading"]
  /\ UNCHANGED <<bucket, view, start, answer, flight, crashes>>

(* It failed, or no answer came in time: sendBatch throws.  A transaction  *)
(* that was only late is still in flight, or has landed.                   *)
Throw(d) ==
  /\ pc[d] = "sending"
  /\ answer[d] # "ok"
  /\ pc' = [pc EXCEPT ![d] = "idle"]
  /\ UNCHANGED <<bucket, view, start, answer, flight, crashes>>

Crash(d) ==
  /\ crashes < MaxCrashes
  /\ pc[d] # "idle"
  /\ pc' = [pc EXCEPT ![d] = "idle"]
  /\ crashes' = crashes + 1
  /\ UNCHANGED <<bucket, view, start, answer, flight>>

----------------------------------------------------------------------------
(* The cluster.                                                            *)

(* External: a driver's RPC node catches up.                               *)
Refresh(d) ==
  /\ view[d] # cursor
  /\ view' = [view EXCEPT ![d] = cursor]
  /\ UNCHANGED <<bucket, driver, flight, crashes>>

(* External: the transaction tx leaves the network and its sender, if it   *)
(* still awaits it, learns how it ended.  A batch that a driver has signed *)
(* again is the same element of flight, so one copy may go unnoticed while *)
(* another remains.                                                        *)
Resolved(tx, outcome) ==
  \/ /\ flight' = flight \ {tx}
     /\ answer' = IF pc[tx.by] = "sending" /\ start[tx.by] = tx.start
                  THEN [answer EXCEPT ![tx.by] = outcome]
                  ELSE answer
  \/ UNCHANGED <<flight, answer>>

(* The checks of distribute_batch, in the bucket's terms.  Bugs: any batch *)
(* within the list is taken; the overpayment check is off by one.          *)
AcceptedAnywhere(from) ==
  /\ ~complete
  /\ cursor + Cardinality(Slice(from)) <= RecipientCount
  /\ paid_amount + Total([p \in Slice(from) |-> Share[p]]) <= AmountOut

AcceptedBelow(from) ==
  /\ ~complete
  /\ from = cursor
  /\ cursor + Cardinality(Slice(from)) <= RecipientCount
  /\ paid_amount + Total([p \in Slice(from) |-> Share[p]]) < AmountOut

Accepted(from) ==
  /\ ~complete
  /\ from = cursor
  /\ cursor + Cardinality(Slice(from)) <= RecipientCount
  /\ paid_amount + Total([p \in Slice(from) |-> Share[p]]) <= AmountOut

DistributeBatch(from) ==
  /\ Accepted(from)
  /\ received' = [p \in Positions |->
       IF p \in Slice(from) THEN received[p] + Share[p] ELSE received[p]]
  /\ cursor' = cursor + Cardinality(Slice(from))
  /\ paid_amount' = paid_amount + Total([p \in Slice(from) |-> Share[p]])
  /\ complete' = (cursor' = RecipientCount)

Land(tx) ==
  /\ DistributeBatch(tx.start)
  /\ Resolved(tx, "ok")
  /\ UNCHANGED <<view, pc, start, crashes>>

(* Refused by the program, or never included.                              *)
Fail(tx) ==
  /\ Resolved(tx, "error")
  /\ UNCHANGED <<bucket, view, pc, start, crashes>>

----------------------------------------------------------------------------
DriverStep(d) ==
  Call(d) \/ Finish(d) \/ SendBatch(d) \/ Confirmed(d) \/ Throw(d)

Next ==
  \/ \E d \in Drivers : DriverStep(d) \/ Crash(d) \/ Refresh(d)
  \/ \E tx \in flight : Land(tx) \/ Fail(tx)

Spec == Init /\ [][Next]_vars

(* The keeper's loop runs and its timeouts fire; RPC nodes catch up; and a *)
(* batch that is sent again and again, valid each time, at last lands.     *)
Fairness ==
  /\ \A d \in Drivers : WF_vars(DriverStep(d)) /\ WF_vars(Refresh(d))
  /\ SF_vars(\E tx \in flight : Land(tx))

FairSpec == Spec /\ Fairness

----------------------------------------------------------------------------
(* The cursor is the single source of truth: exactly the positions before  *)
(* it have their share, to the unit, whichever drivers sent what, and      *)
(* complete means that everyone has.                                       *)
PaidInOrder ==
  /\ \A p \in Positions : received[p] = IF p < cursor THEN Share[p] ELSE 0
  /\ complete <=> cursor = RecipientCount

(* The bucket's tally is what its recipients received, and a valid batch   *)
(* is never refused as an overpayment.                                     *)
TallyMatches ==
  /\ paid_amount = Total(received)
  /\ ~complete => Accepted(cursor)

(* A driver that returns has nothing left to pay: its caller may take the  *)
(* bucket for done.                                                        *)
ReturnsWhenPaid == [][\A d \in Drivers : Finish(d) => complete]_vars

(* Each recipient is paid its share, whole and once.                       *)
Once == INSTANCE PaidOnce WITH Recipients <- Positions

PaysOnce == Once!PaidSpec

(* Everyone is paid in the end, although drivers may crash.                *)
EveryonePaid == <>[](complete /\ Once!Everyone)
=============================================================================
