------------------------- MODULE DistributionProofs -------------------------
(***************************************************************************)
(* Proofs about the distribution of a bucket: whatever the drivers, the    *)
(* RPC nodes and the network do, every recipient is paid once.             *)
(***************************************************************************)
EXTENDS Distribution, UnitSumsProofs

(* A view never runs ahead of the cursor, so it is safe to act on.         *)
ViewsBehind == \A d \in Drivers : view[d] <= cursor

Inv ==
  /\ TypeOK
  /\ ViewsBehind
  /\ PaidInOrder
  /\ paid_amount = Total(received)

Wages(from) == [p \in Slice(from) |-> Share[p]]

LEMMA PositionsFinite == IsFiniteSet(Positions) /\ Positions \subseteq Nat
  BY DriversAssumption, FS_Interval DEF Positions

(* A batch is what is left of the list, but at most BatchSize long.        *)
LEMMA SliceLength ==
  ASSUME NEW from \in Positions
  PROVE  LET end == from + Cardinality(Slice(from))
         IN  /\ Slice(from) \in SUBSET Positions
             /\ end \in Nat /\ from < end /\ end <= RecipientCount
             /\ \A p \in Positions : p \in Slice(from) <=> from <= p /\ p < end
<1> DEFINE end == IF from + BatchSize < RecipientCount
                  THEN from + BatchSize ELSE RecipientCount
<1>1. /\ from \in Nat /\ from < RecipientCount
      /\ BatchSize \in Nat /\ BatchSize > 0 /\ RecipientCount \in Nat
  BY DriversAssumption DEF Positions
<1>2. end \in Nat /\ from < end /\ end <= RecipientCount
  BY <1>1
<1>3. Slice(from) = from .. end - 1
  BY <1>1 DEF Slice, Positions
<1>4. Cardinality(from .. end - 1) = end - from
  <2> HIDE DEF end
  <2>1. Cardinality(from .. end - 1) =
          IF from > end - 1 THEN 0 ELSE (end - 1) - from + 1
    BY <1>1, <1>2, FS_Interval
  <2> QED
    BY <1>1, <1>2, <2>1
<1>5. from + Cardinality(Slice(from)) = end
  <2> HIDE DEF end
  <2> QED
    BY <1>1, <1>2, <1>3, <1>4
<1>6. \A p \in Positions : p \in Slice(from) <=> from <= p /\ p < end
  BY <1>1 DEF Slice, Positions
<1>7. Slice(from) \in SUBSET Positions
  BY DEF Slice
<1> HIDE DEF end
<1> QED
  BY <1>2, <1>5, <1>6, <1>7

----------------------------------------------------------------------------
(* What a batch that lands does.                                           *)
LEMMA BatchEffect ==
  ASSUME Inv, NEW from \in Positions, DistributeBatch(from)
  PROVE  /\ from = cursor /\ ~complete
         /\ cursor' \in 0 .. RecipientCount /\ cursor' > cursor
         /\ received' \in [Positions -> Nat]
         /\ paid_amount' \in Nat
         /\ PaidInOrder'
         /\ paid_amount' = Total(received')
         /\ \A p \in Slice(from) : received[p] = 0
         /\ received' = [p \in Positions |->
              IF p \in Slice(from) THEN Share[p] ELSE received[p]]
<1>1. /\ from = cursor /\ ~complete
      /\ cursor' = cursor + Cardinality(Slice(from))
      /\ received' = [p \in Positions |->
           IF p \in Slice(from) THEN received[p] + Share[p] ELSE received[p]]
      /\ paid_amount' = paid_amount + Total(Wages(from))
      /\ complete' = (cursor' = RecipientCount)
  BY DEF DistributeBatch, Accepted, Wages
<1>2. /\ Slice(from) \in SUBSET Positions
      /\ cursor' \in Nat /\ cursor < cursor' /\ cursor' <= RecipientCount
      /\ \A p \in Positions : p \in Slice(from) <=> cursor <= p /\ p < cursor'
  BY <1>1, SliceLength
<1>3. cursor \in Nat /\ RecipientCount \in Nat
  BY DriversAssumption DEF Inv, TypeOK
<1>4. \A p \in Positions : received[p] = IF p < cursor THEN Share[p] ELSE 0
  BY DEF Inv, PaidInOrder
<1>5. Positions \subseteq Nat /\ \A p \in Positions : Share[p] \in Nat
  BY PositionsFinite, ShareAssumption
<1>6. ASSUME NEW p \in Slice(from)
      PROVE  received[p] = 0
  <2>1. p \in Positions /\ p \in Nat
    BY <1>2, <1>5
  <2>2. cursor <= p
    BY <1>2, <2>1
  <2>3. ~(p < cursor)
    BY <1>3, <2>1, <2>2
  <2> QED
    BY <1>4, <2>1, <2>3
<1>7. received' = [p \in Positions |->
         IF p \in Slice(from) THEN Share[p] ELSE received[p]]
  BY <1>1, <1>2, <1>5, <1>6
<1>8. received' \in [Positions -> Nat]
  BY <1>5, <1>7 DEF Inv, TypeOK
<1>9. \A p \in Positions : received'[p] = IF p < cursor' THEN Share[p] ELSE 0
  BY <1>2, <1>3, <1>4, <1>5, <1>7
<1>10. PaidInOrder'
  <2>1. complete' <=> cursor' = RecipientCount
    BY <1>1, Zenon
  <2> QED
    BY <1>9, <2>1 DEF PaidInOrder
<1>11. paid_amount' = Total(received')
  <2>1. Wages(from) \in [Slice(from) -> Nat]
    BY <1>2, <1>5 DEF Wages
  <2>2. /\ \A p \in Slice(from) : received[p] = 0 /\ received'[p] = Wages(from)[p]
        /\ \A p \in Positions \ Slice(from) : received'[p] = received[p]
    BY <1>2, <1>6, <1>7 DEF Wages
  <2>3. received \in [Positions -> Nat]
    BY DEF Inv, TypeOK
  <2>4. Total(received') = Total(received) + Total(Wages(from))
    <3> DEFINE h == Wages(from)
               g == received'
    <3>1. g \in [Positions -> Nat]
      BY <1>8
    <3>2. h \in [Slice(from) -> Nat]
      BY <2>1
    <3>3. \A p \in Slice(from) : received[p] = 0 /\ g[p] = h[p]
      BY <2>2
    <3>4. \A p \in Positions \ Slice(from) : g[p] = received[p]
      BY <2>2
    <3>5. IsFiniteSet(Positions) /\ Slice(from) \in SUBSET Positions
      BY <1>2, PositionsFinite
    <3> HIDE DEF h, g
    <3>6. Total(g) = Total(received) + Total(h)
      BY <2>3, <3>1, <3>2, <3>3, <3>4, <3>5, TotalGiven
    <3> QED
      BY <3>6 DEF g, h
  <2> QED
    BY <1>1, <2>4 DEF Inv
<1>12. paid_amount' \in Nat
  BY <1>8, <1>11, PositionsFinite, UnitsFinite
<1>13. cursor' \in 0 .. RecipientCount
  BY <1>2, <1>3
<1> QED
  BY <1>1, <1>2, <1>6, <1>7, <1>8, <1>10, <1>11, <1>12, <1>13

LEMMA InvInit == Init => Inv
<1> SUFFICES ASSUME Init PROVE Inv
  OBVIOUS
<1>1. RecipientCount \in Nat /\ 0 \in Positions /\ 0 \in 0 .. RecipientCount
      /\ RecipientCount > 0 /\ MaxCrashes \in Nat /\ 0 \in 0 .. MaxCrashes
  BY DriversAssumption DEF Positions
<1>2. TypeOK
  BY <1>1 DEF Init, TypeOK
<1>3. ViewsBehind
  BY <1>1 DEF Init, ViewsBehind
<1>4. PaidInOrder
  BY <1>1, PositionsFinite DEF Init, PaidInOrder
<1>5. paid_amount = Total(received)
  <2>1. received \in [Positions -> Nat] /\ \A p \in Positions : received[p] = 0
    BY DEF Init
  <2>2. Total(received) = 0
    BY <2>1, TotalZero
  <2> QED
    BY <2>2 DEF Init
<1> QED
  BY <1>2, <1>3, <1>4, <1>5 DEF Inv

LEMMA ResolvedTypes ==
  ASSUME TypeOK, NEW tx \in flight, NEW outcome \in {"ok", "error"},
         Resolved(tx, outcome)
  PROVE  /\ tx \in Tx /\ tx.start \in Positions
         /\ flight' \subseteq Tx
         /\ answer' \in [Drivers -> {"none", "ok", "error"}]
<1>1. tx \in Tx
  BY DEF TypeOK
<1>2. tx.start \in Positions /\ tx.by \in Drivers
  BY <1>1 DEF Tx
<1> QED
  BY <1>1, <1>2 DEF Resolved, TypeOK

LEMMA InvStep == Inv /\ [Next]_vars => Inv'
<1> SUFFICES ASSUME Inv, [Next]_vars PROVE Inv'
  OBVIOUS
<1> USE DEF bucket, driver
<1>0. TypeOK /\ ViewsBehind /\ PaidInOrder /\ paid_amount = Total(received)
  BY DEF Inv
<1>1. ASSUME UNCHANGED bucket, UNCHANGED view, TypeOK'
      PROVE  Inv'
  BY <1>0, <1>1 DEF Inv, ViewsBehind, PaidInOrder
<1>2. ASSUME NEW d \in Drivers, Call(d) \/ Finish(d) \/ Confirmed(d) \/ Throw(d)
      PROVE  Inv'
  BY <1>0, <1>1, <1>2 DEF Call, Finish, Confirmed, Throw, TypeOK
<1>3. ASSUME NEW d \in Drivers, SendBatch(d)
      PROVE  Inv'
  <2>1. view[d] \in Positions
    BY <1>0, <1>3, DriversAssumption DEF SendBatch, DoneAt, TypeOK, Positions
  <2>2. flight' \subseteq Tx
    BY <1>0, <1>3, <2>1 DEF SendBatch, TypeOK, Tx
  <2>3. TypeOK'
    BY <1>0, <1>3, <2>1, <2>2 DEF SendBatch, TypeOK
  <2> QED
    BY <1>1, <1>3, <2>3 DEF SendBatch
<1>4. ASSUME NEW d \in Drivers, Crash(d)
      PROVE  Inv'
  <2>1. crashes' \in 0 .. MaxCrashes
    BY <1>0, <1>4, DriversAssumption DEF Crash, TypeOK
  <2>2. TypeOK'
    BY <1>0, <1>4, <2>1 DEF Crash, TypeOK
  <2> QED
    BY <1>1, <1>4, <2>2 DEF Crash
<1>5. ASSUME NEW d \in Drivers, Refresh(d)
      PROVE  Inv'
  <2>1. TypeOK'
    BY <1>0, <1>5 DEF Refresh, TypeOK
  <2>2. ViewsBehind'
    BY <1>0, <1>5, DriversAssumption DEF Refresh, ViewsBehind, TypeOK
  <2> QED
    BY <1>0, <1>5, <2>1, <2>2 DEF Refresh, Inv, PaidInOrder
<1>6. ASSUME NEW tx \in flight, Land(tx)
      PROVE  Inv'
  <2>1. /\ tx.start \in Positions
        /\ flight' \subseteq Tx
        /\ answer' \in [Drivers -> {"none", "ok", "error"}]
    BY <1>0, <1>6, ResolvedTypes DEF Land
  <2>2. /\ cursor' \in 0 .. RecipientCount /\ cursor' > cursor
        /\ received' \in [Positions -> Nat] /\ paid_amount' \in Nat
        /\ PaidInOrder' /\ paid_amount' = Total(received')
    BY <1>6, <2>1, BatchEffect DEF Land
  <2>3. complete' \in BOOLEAN
    BY <1>6 DEF Land, DistributeBatch
  <2>4. UNCHANGED <<view, pc, start, crashes>>
    BY <1>6 DEF Land
  <2>5. TypeOK'
    BY <1>0, <2>1, <2>2, <2>3, <2>4 DEF TypeOK
  <2>6. ViewsBehind'
    BY <1>0, <2>2, <2>4, DriversAssumption DEF ViewsBehind, TypeOK
  <2> QED
    BY <2>2, <2>5, <2>6 DEF Inv
<1>7. ASSUME NEW tx \in flight, Fail(tx)
      PROVE  Inv'
  <2>1. /\ flight' \subseteq Tx
        /\ answer' \in [Drivers -> {"none", "ok", "error"}]
    BY <1>0, <1>7, ResolvedTypes DEF Fail
  <2>2. TypeOK'
    BY <1>0, <1>7, <2>1 DEF Fail, TypeOK
  <2> QED
    BY <1>1, <1>7, <2>2 DEF Fail
<1>8. CASE UNCHANGED vars
  BY <1>0, <1>1, <1>8 DEF vars, TypeOK
<1> QED
  BY <1>2, <1>3, <1>4, <1>5, <1>6, <1>7, <1>8 DEF Next, DriverStep

THEOREM InvCorrect == Spec => []Inv
  BY InvInit, InvStep, PTL DEF Spec

(* Exactly the positions before the cursor are paid, each its share.       *)
THEOREM PaidInOrderCorrect == Spec => []PaidInOrder
<1>1. Inv => PaidInOrder
  BY DEF Inv
<1> QED
  BY <1>1, InvCorrect, PTL

(* The next batch is always within what is left of the bucket.             *)
LEMMA NextBatchFits == Inv => TallyMatches
<1> SUFFICES ASSUME Inv, ~complete PROVE Accepted(cursor)
  BY DEF Inv, TallyMatches
<1>1. cursor \in Positions
  BY DriversAssumption DEF Inv, TypeOK, PaidInOrder, Positions
<1>2. /\ Slice(cursor) \in SUBSET Positions
      /\ cursor + Cardinality(Slice(cursor)) <= RecipientCount
      /\ \A p \in Slice(cursor) : cursor <= p
  BY <1>1, SliceLength
<1>3. /\ cursor \in Nat /\ Positions \subseteq Nat
      /\ Share \in [Positions -> Nat] /\ received \in [Positions -> Nat]
      /\ \A p \in Positions : received[p] = IF p < cursor THEN Share[p] ELSE 0
  BY <1>1, PositionsFinite, ShareAssumption DEF Inv, TypeOK, PaidInOrder
<1> DEFINE after == [p \in Positions |->
                       IF p \in Slice(cursor) THEN Share[p] ELSE received[p]]
<1>4. /\ after \in [Positions -> Nat]
      /\ \A p \in Slice(cursor) : after[p] = Wages(cursor)[p]
      /\ \A p \in Positions \ Slice(cursor) : after[p] = received[p]
  BY <1>2, <1>3 DEF Wages
<1>5. ASSUME NEW p \in Slice(cursor)
      PROVE  received[p] = 0
  <2>1. p \in Positions
    BY <1>2
  <2>2. p \in Nat /\ cursor <= p
    BY <1>2, <1>3, <2>1
  <2>3. ~(p < cursor)
    BY <1>3, <2>2
  <2> QED
    BY <1>3, <2>1, <2>3
<1>6. ASSUME NEW p \in Positions
      PROVE  after[p] <= Share[p]
  <2>1. Share[p] \in Nat /\ (received[p] = Share[p] \/ received[p] = 0)
    BY <1>3
  <2> QED
    BY <2>1
<1>7. Wages(cursor) \in [Slice(cursor) -> Nat]
  BY <1>2, <1>3 DEF Wages
<1> HIDE DEF after
<1>8. Total(after) = Total(received) + Total(Wages(cursor))
  <2> DEFINE h == Wages(cursor)
  <2>1. h \in [Slice(cursor) -> Nat]
    BY <1>7
  <2>2. \A p \in Slice(cursor) : received[p] = 0 /\ after[p] = h[p]
    BY <1>4, <1>5
  <2>3. /\ IsFiniteSet(Positions) /\ Slice(cursor) \in SUBSET Positions
        /\ received \in [Positions -> Nat] /\ after \in [Positions -> Nat]
    BY <1>2, <1>3, <1>4, PositionsFinite
  <2>4. \A p \in Positions \ Slice(cursor) : after[p] = received[p]
    BY <1>4
  <2> HIDE DEF h
  <2>5. Total(after) = Total(received) + Total(h)
    BY <2>1, <2>2, <2>3, <2>4, TotalGiven
  <2> QED
    BY <2>5 DEF h
<1>9. Total(after) <= Total(Share)
  BY <1>3, <1>4, <1>6, PositionsFinite, TotalMonotone
<1>10. /\ Total(after) \in Nat /\ Total(Share) \in Nat
      /\ AmountOut \in Nat /\ Total(Share) <= AmountOut
  BY <1>3, <1>4, PositionsFinite, UnitsFinite, ShareAssumption
<1>11. paid_amount + Total(Wages(cursor)) <= AmountOut
  BY <1>8, <1>9, <1>10 DEF Inv
<1> QED
  BY <1>2, <1>11 DEF Accepted, Wages

(* The tally is what was received, and no valid batch is an overpayment.   *)
THEOREM TallyCorrect == Spec => []TallyMatches
  BY InvCorrect, NextBatchFits, PTL

(* A driver returns only when everyone is paid.                            *)
THEOREM ReturnsCorrect == Spec => ReturnsWhenPaid
<1>1. Inv /\ [Next]_vars => [\A d \in Drivers : Finish(d) => complete]_vars
  <2> SUFFICES ASSUME Inv, NEW d \in Drivers, Finish(d) PROVE complete
    OBVIOUS
  <2>1. view[d] >= RecipientCount /\ view[d] <= cursor
    BY DEF Finish, DoneAt, Inv, ViewsBehind
  <2>2. /\ view[d] \in Nat /\ cursor \in Nat /\ cursor <= RecipientCount
        /\ RecipientCount \in Nat
    BY DriversAssumption DEF Inv, TypeOK
  <2>3. cursor = RecipientCount
    BY <2>1, <2>2
  <2> QED
    BY <2>3 DEF Inv, PaidInOrder
<1> QED
  BY <1>1, InvCorrect, PTL DEF Spec, ReturnsWhenPaid

----------------------------------------------------------------------------
(* Every step pays a group that had nothing, or nobody.                    *)
LEMMA OnceStep == Inv /\ [Next]_vars => [Once!PaidNext]_received
<1> SUFFICES ASSUME Inv, [Next]_vars, received' # received
             PROVE  Once!PaidNext
  OBVIOUS
<1>1. PICK tx \in flight : Land(tx)
  BY DEF Next, DriverStep, Call, Finish, SendBatch, Confirmed, Throw, Crash,
         Refresh, Fail, vars, bucket
<1>2. tx.start \in Positions
  BY <1>1, ResolvedTypes DEF Inv, Land
<1>3. /\ \A p \in Slice(tx.start) : received[p] = 0
      /\ received' = [p \in Positions |->
           IF p \in Slice(tx.start) THEN Share[p] ELSE received[p]]
  BY <1>1, <1>2, BatchEffect DEF Land
<1>4. Slice(tx.start) \in SUBSET Positions
  BY DEF Slice
<1>5. Once!Pay(Slice(tx.start))
  BY <1>3 DEF Once!Pay
<1> QED
  BY <1>4, <1>5 DEF Once!PaidNext

(* Each recipient is paid its share, whole and once.                       *)
THEOREM PaysOnceCorrect == Spec => PaysOnce
<1>1. Init => Once!PaidInit
  BY DEF Init, Once!PaidInit
<1> QED
  BY <1>1, OnceStep, InvCorrect, PTL DEF Spec, PaysOnce, Once!PaidSpec
=============================================================================
