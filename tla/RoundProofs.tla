---------------------------- MODULE RoundProofs ----------------------------
(***************************************************************************)
(* Proofs about module Round: a published file verifies against the root   *)
(* on chain and says what was paid; a plan fits the amount that was frozen *)
(* for it; a bucket that has not been swapped can be.                      *)
(***************************************************************************)
EXTENDS Round, UnitSumsProofs, SequenceTheorems

----------------------------------------------------------------------------
(* Sums.                                                                   *)

(* A unit is one of an account, and one of its amount. *)
LEMMA UnitOf ==
  ASSUME NEW S, NEW f \in [S -> Nat], NEW u \in Units(f)
  PROVE  /\ u[1] \in S
         /\ u[2] \in 1 .. f[u[1]]
         /\ f[u[1]] \in Nat
         /\ u = <<u[1], u[2]>>
BY DEF Units

(* And the other way round. *)
LEMMA OfUnit ==
  ASSUME NEW S, NEW f \in [S -> Nat], NEW k \in S, NEW i \in 1 .. f[k]
  PROVE  <<k, i>> \in Units(f)
BY DEF Units

(* The sum of the amounts of two kinds is the sum of their sums. *)
LEMMA TotalPlus ==
  ASSUME NEW S, IsFiniteSet(S), NEW f \in [S -> Nat], NEW g \in [S -> Nat],
         NEW h \in [S -> Nat], \A k \in S : h[k] = f[k] + g[k]
  PROVE  Total(h) = Total(f) + Total(g)
<1> DEFINE shift == [u \in Units(g) |-> <<u[1], f[u[1]] + u[2]>>]
           more == {<<u[1], f[u[1]] + u[2]>> : u \in Units(g)}
<1>1. IsFiniteSet(Units(f)) /\ IsFiniteSet(Units(g))
  BY UnitsFinite
<1>2. \A k \in S : f[k] \in Nat /\ g[k] \in Nat /\ h[k] = f[k] + g[k]
  OBVIOUS
<1>3. shift \in Bijection(Units(g), more)
  <2>1. shift \in [Units(g) -> more]
    OBVIOUS
  <2>2. ASSUME NEW u \in Units(g), NEW v \in Units(g), shift[u] = shift[v]
        PROVE  u = v
    <3>1. /\ u[1] \in S /\ u[2] \in 1 .. g[u[1]] /\ u = <<u[1], u[2]>>
          /\ v[1] \in S /\ v[2] \in 1 .. g[v[1]] /\ v = <<v[1], v[2]>>
      BY UnitOf
    <3>2. u[1] = v[1] /\ f[u[1]] + u[2] = f[v[1]] + v[2]
      BY <2>2
    <3>3. u[2] = v[2]
      BY <1>2, <3>1, <3>2
    <3> QED
      BY <3>1, <3>2, <3>3
  <2>3. \A y \in more : \E u \in Units(g) : shift[u] = y
    OBVIOUS
  <2> HIDE DEF shift, more
  <2> QED
    BY <2>1, <2>2, <2>3 DEF Bijection, Injection, Surjection, IsInjective
<1>4. IsFiniteSet(more) /\ Cardinality(more) = Cardinality(Units(g))
  <2>1. ExistsBijection(Units(g), more)
    BY <1>3 DEF ExistsBijection
  <2> HIDE DEF more
  <2> QED
    BY <1>1, <2>1, FS_Bijection
<1>5. Units(f) \cap more = {}
  <2> SUFFICES ASSUME NEW x \in Units(f), NEW u \in Units(g),
                      x = <<u[1], f[u[1]] + u[2]>>
               PROVE  FALSE
    OBVIOUS
  <2>1. x[1] \in S /\ x[2] \in 1 .. f[x[1]]
    BY UnitOf
  <2>2. u[1] \in S /\ u[2] \in 1 .. g[u[1]]
    BY UnitOf
  <2>3. x[1] = u[1] /\ x[2] = f[u[1]] + u[2]
    OBVIOUS
  <2> QED
    BY <1>2, <2>1, <2>2, <2>3
<1>6. Units(h) = Units(f) \cup more
  <2>1. ASSUME NEW x \in Units(h)
        PROVE  x \in Units(f) \cup more
    <3>1. x[1] \in S /\ x[2] \in 1 .. h[x[1]] /\ x = <<x[1], x[2]>>
      BY UnitOf
    <3>2. CASE x[2] <= f[x[1]]
      <4>1. x[2] \in 1 .. f[x[1]]
        BY <1>2, <3>1, <3>2
      <4> QED
        BY <3>1, <4>1, OfUnit
    <3>3. CASE x[2] > f[x[1]]
      <4> DEFINE u == <<x[1], x[2] - f[x[1]]>>
      <4>1. x[2] - f[x[1]] \in 1 .. g[x[1]]
        BY <1>2, <3>1, <3>3
      <4>2. u \in Units(g)
        BY <3>1, <4>1, OfUnit
      <4>3. f[u[1]] + u[2] = x[2]
        BY <1>2, <3>1
      <4>4. x = <<u[1], f[u[1]] + u[2]>>
        BY <3>1, <4>3
      <4> QED
        BY <4>2, <4>4
    <3> QED
      BY <1>2, <3>1, <3>2, <3>3
  <2>2. ASSUME NEW x \in Units(f)
        PROVE  x \in Units(h)
    <3>1. x[1] \in S /\ x[2] \in 1 .. f[x[1]] /\ x = <<x[1], x[2]>>
      BY UnitOf
    <3>2. x[2] \in 1 .. h[x[1]]
      BY <1>2, <3>1
    <3> QED
      BY <3>1, <3>2, OfUnit
  <2>3. ASSUME NEW u \in Units(g)
        PROVE  <<u[1], f[u[1]] + u[2]>> \in Units(h)
    <3>1. u[1] \in S /\ u[2] \in 1 .. g[u[1]]
      BY UnitOf
    <3>2. f[u[1]] + u[2] \in 1 .. h[u[1]]
      BY <1>2, <3>1
    <3> QED
      BY <3>1, <3>2, OfUnit
  <2> QED
    BY <2>1, <2>2, <2>3
<1> HIDE DEF more
<1>7. Cardinality(Units(h)) = Cardinality(Units(f)) + Cardinality(more)
                                - Cardinality(Units(f) \cap more)
  BY <1>1, <1>4, <1>6, FS_Union
<1>8. Cardinality(Units(f) \cap more) = 0
  BY <1>5, FS_EmptySet
<1>9. Cardinality(Units(f)) \in Nat /\ Cardinality(Units(g)) \in Nat
  BY <1>1, FS_CardinalityType
<1> QED
  BY <1>4, <1>7, <1>8, <1>9 DEF Total


(* The sum of multiples is the multiple of the sum. *)
LEMMA TotalTimes ==
  ASSUME NEW S, IsFiniteSet(S), NEW f \in [S -> Nat], NEW c \in Nat
  PROVE  Total([k \in S |-> c * f[k]]) = c * Total(f)
<1> DEFINE times(n) == [k \in S |-> n * f[k]]
           T == {n \in Nat : Total(times(n)) = n * Total(f)}
<1>1. Total(f) \in Nat /\ \A n \in Nat : times(n) \in [S -> Nat]
  BY UnitsFinite
<1>2. 0 \in T
  <2>1. times(0) \in [S -> Nat] /\ \A k \in S : times(0)[k] = 0
    OBVIOUS
  <2> HIDE DEF times
  <2>2. Total(times(0)) = 0
    BY <2>1, TotalZero
  <2> QED
    BY <1>1, <2>2
<1>3. ASSUME NEW n \in T
      PROVE  n + 1 \in T
  <2>1. n \in Nat /\ n + 1 \in Nat /\ Total(times(n)) = n * Total(f)
    OBVIOUS
  <2>2. \A k \in S : times(n + 1)[k] = times(n)[k] + f[k]
    <3> SUFFICES ASSUME NEW k \in S
                 PROVE  (n + 1) * f[k] = n * f[k] + f[k]
      OBVIOUS
    <3> QED
      BY <2>1
  <2>3. times(n) \in [S -> Nat] /\ times(n + 1) \in [S -> Nat]
    BY <1>1, <2>1
  <2> HIDE DEF times, T
  <2>4. Total(times(n + 1)) = Total(times(n)) + Total(f)
    BY <2>2, <2>3, TotalPlus
  <2>5. n * Total(f) + Total(f) = (n + 1) * Total(f)
    BY <1>1, <2>1
  <2> QED
    BY <2>1, <2>4, <2>5 DEF T
<1>4. T = Nat
  <2>1. T \in SUBSET Nat
    OBVIOUS
  <2> HIDE DEF T
  <2> QED
    BY <1>2, <1>3, <2>1, InductiveSet
<1> QED
  BY <1>4


(* One unit for each account adds up to the number of accounts. *)
LEMMA TotalOnes ==
  ASSUME NEW S, IsFiniteSet(S)
  PROVE  Total([k \in S |-> 1]) = Cardinality(S)
<1> DEFINE one == [k \in S |-> 1]
           g == [k \in S |-> <<k, 1>>]
<1>1. g \in Bijection(S, Units(one))
  <2>1. \A k \in S : 1 \in 1 .. one[k]
    OBVIOUS
  <2>2. one \in [S -> Nat]
    OBVIOUS
  <2>3. \A k \in S : <<k, 1>> \in Units(one)
    BY <2>1, <2>2, OfUnit
  <2>4. g \in [S -> Units(one)]
    BY <2>3
  <2>5. \A j, k \in S : g[j] = g[k] => j = k
    OBVIOUS
  <2>6. ASSUME NEW u \in Units(one)
        PROVE  \E k \in S : g[k] = u
    <3>1. u[1] \in S /\ u[2] \in 1 .. one[u[1]] /\ u = <<u[1], u[2]>>
      BY <2>2, UnitOf
    <3>2. u[2] = 1
      BY <3>1
    <3> QED
      BY <3>1, <3>2
  <2> HIDE DEF g, one
  <2> QED
    BY <2>4, <2>5, <2>6 DEF Bijection, Injection, Surjection, IsInjective
<1>2. ExistsBijection(S, Units(one))
  BY <1>1 DEF ExistsBijection
<1> QED
  BY <1>2, FS_Bijection DEF Total

(* Accounts put into groups: the sums of the groups add up to the sum. *)
LEMMA TotalOfParts ==
  ASSUME NEW S, IsFiniteSet(S), NEW f \in [S -> Nat],
         NEW M, IsFiniteSet(M), NEW h \in [S -> M]
  PROVE  /\ [m \in M |-> Part(f, {k \in S : h[k] = m})] \in [M -> Nat]
         /\ Total([m \in M |-> Part(f, {k \in S : h[k] = m})]) = Total(f)
<1> DEFINE group(m) == {k \in S : h[k] = m}
           part(m) == [k \in group(m) |-> f[k]]
           P == [m \in M |-> Part(f, group(m))]
           bij == [m \in M |-> CHOOSE b : b \in Bijection(1 .. P[m],
                                                          Units(part(m)))]
           g == [u \in Units(P) |-> bij[u[1]][u[2]]]
<1>1. \A m : IsFiniteSet(group(m)) /\ part(m) \in [group(m) -> Nat]
  <2> TAKE m
  <2>1. group(m) \in SUBSET S
    OBVIOUS
  <2>2. IsFiniteSet(group(m))
    BY <2>1, FS_Subset
  <2>3. part(m) \in [group(m) -> Nat]
    OBVIOUS
  <2> QED
    BY <2>2, <2>3
<1>2. \A m : IsFiniteSet(Units(part(m))) /\ Total(part(m)) \in Nat
  <2> TAKE m
  <2> HIDE DEF part, group
  <2> QED
    BY <1>1, UnitsFinite
<1>3. \A m \in M : P[m] = Cardinality(Units(part(m)))
  BY DEF Part, Total
<1>4. P \in [M -> Nat]
  <2>1. \A m : Part(f, group(m)) = Total(part(m))
    BY DEF Part
  <2> HIDE DEF part, group
  <2>2. \A m \in M : Part(f, group(m)) \in Nat
    BY <1>2, <2>1
  <2> QED
    BY <2>2
<1>5. \A m \in M : bij[m] \in Bijection(1 .. P[m], Units(part(m)))
  <2> TAKE m \in M
  <2> HIDE DEF part, P
  <2>1. ExistsBijection(1 .. P[m], Units(part(m)))
    BY <1>2, <1>3, FS_CardinalityType
  <2> QED
    BY <2>1 DEF ExistsBijection
<1>6. \A m \in M : \A u \in Units(part(m)) :
        u \in Units(f) /\ h[u[1]] = m
  <2> TAKE m \in M
  <2> TAKE u \in Units(part(m))
  <2>1. /\ u[1] \in group(m) /\ u[2] \in 1 .. part(m)[u[1]]
        /\ u = <<u[1], u[2]>>
    BY <1>1, UnitOf
  <2>2. u[1] \in S /\ h[u[1]] = m /\ u[2] \in 1 .. f[u[1]]
    BY <2>1
  <2>3. <<u[1], u[2]>> \in Units(f)
    BY <2>2, OfUnit
  <2> QED
    BY <2>1, <2>2, <2>3
<1>7. ASSUME NEW x \in Units(f)
      PROVE  h[x[1]] \in M /\ x \in Units(part(h[x[1]]))
  <2>1. x[1] \in S /\ x[2] \in 1 .. f[x[1]] /\ x = <<x[1], x[2]>>
    BY UnitOf
  <2>2. h[x[1]] \in M /\ x[1] \in group(h[x[1]])
    BY <2>1
  <2>3. x[2] \in 1 .. part(h[x[1]])[x[1]]
    BY <2>1, <2>2
  <2>4. part(h[x[1]]) \in [group(h[x[1]]) -> Nat]
    BY <1>1
  <2> HIDE DEF part, group
  <2>5. <<x[1], x[2]>> \in Units(part(h[x[1]]))
    BY <2>2, <2>3, <2>4, OfUnit
  <2> QED
    BY <2>1, <2>2, <2>5
<1>8. \A u \in Units(P) :
        u[1] \in M /\ u[2] \in 1 .. P[u[1]] /\ u = <<u[1], u[2]>>
  <2> HIDE DEF P
  <2> QED
    BY <1>4, UnitOf
<1> HIDE DEF part, group, P, bij
<1>9. g \in Bijection(Units(P), Units(f))
  <2>1. \A u \in Units(P) : g[u] \in Units(part(u[1]))
    BY <1>5, <1>8 DEF Bijection, Injection
  <2>2. g \in [Units(P) -> Units(f)]
    BY <1>6, <1>8, <2>1
  <2>3. ASSUME NEW u \in Units(P), NEW v \in Units(P), g[u] = g[v]
        PROVE  u = v
    <3>1. u[1] = v[1]
      BY <1>6, <1>8, <2>1, <2>3
    <3>2. bij[u[1]][u[2]] = bij[u[1]][v[2]]
      BY <2>3, <3>1
    <3>3. u[2] = v[2]
      BY <1>5, <1>8, <3>1, <3>2 DEF Bijection, Injection, IsInjective
    <3> QED
      BY <1>8, <3>1, <3>3
  <2>4. ASSUME NEW x \in Units(f)
        PROVE  \E u \in Units(P) : g[u] = x
    <3> DEFINE m == h[x[1]]
    <3>1. m \in M /\ x \in Units(part(m))
      BY <1>7
    <3>2. PICK i \in 1 .. P[m] : bij[m][i] = x
      BY <1>5, <3>1 DEF Bijection, Surjection
    <3>3. <<m, i>> \in Units(P)
      BY <1>4, <3>1, <3>2, OfUnit
    <3>4. g[<<m, i>>] = x
      BY <3>2, <3>3
    <3> QED
      BY <3>3, <3>4
  <2> HIDE DEF g
  <2> QED
    BY <2>2, <2>3, <2>4 DEF Bijection, Injection, Surjection, IsInjective
<1>10. ExistsBijection(Units(P), Units(f)) /\ IsFiniteSet(Units(P))
  BY <1>4, <1>9, UnitsFinite DEF ExistsBijection
<1>11. Total(P) = Total(f)
  BY <1>10, FS_Bijection DEF Total
<1> QED
  BY <1>4, <1>11 DEF P, group


(* What a division leaves over is less than the divisor. *)
LEMMA Divided ==
  ASSUME NEW x \in Nat, NEW d \in Nat, d > 0
  PROVE  /\ x \div d \in Nat
         /\ d * (x \div d) <= x
         /\ x + 1 <= d * ((x \div d) + 1)
OBVIOUS

(* The order of multiples is that of what is multiplied. *)
LEMMA LessTimes ==
  ASSUME NEW d \in Nat, d > 0, NEW x \in Int, NEW y \in Int
  PROVE  /\ d * x <= d * y => x <= y
         /\ d * x < d * y => x < y
OBVIOUS

(* The shares of an amount add up to no more than it, and what rounding    *)
(* leaves over is less than a unit for each wallet.                        *)
LEMMA SharesFit ==
  ASSUME NEW S, IsFiniteSet(S), NEW weights \in [S -> Nat \ {0}],
         NEW amount \in Nat
  PROVE  /\ Shares(weights, amount) \in [S -> Nat]
         /\ Total(Shares(weights, amount)) \in Nat
         /\ Total(Shares(weights, amount)) <= amount
         /\ S # {} => amount - Total(Shares(weights, amount)) < Cardinality(S)
<1> DEFINE W == Total(weights)
           share == Shares(weights, amount)
<1>1. weights \in [S -> Nat] /\ W \in Nat
  BY UnitsFinite
<1>2. CASE S = {}
  <2>1. share \in [S -> Nat] /\ \A k \in S : share[k] = 0
    BY <1>2 DEF Shares
  <2>2. Total(share) = 0
    BY <2>1, TotalZero
  <2> QED
    BY <1>2, <2>1, <2>2
<1>3. CASE S # {}
  <2>1. W > 0
    <3>1. PICK k \in S : TRUE
      BY <1>3
    <3>2. 1 \in 1 .. weights[k]
      OBVIOUS
    <3>3. <<k, 1>> \in Units(weights)
      BY <1>1, <3>2, OfUnit
    <3>4. IsFiniteSet(Units(weights)) /\ Units(weights) # {}
      BY <1>1, <3>3, UnitsFinite
    <3>5. Cardinality(Units(weights)) # 0
      BY <3>4, FS_EmptySet
    <3> QED
      BY <1>1, <3>5 DEF Total
  <2> HIDE DEF W
  <2>2. \A k \in S : /\ weights[k] * amount \in Nat
                     /\ amount * weights[k] = weights[k] * amount
    <3> TAKE k \in S
    <3>1. weights[k] \in Nat
      OBVIOUS
    <3> QED
      BY <3>1
  <2>3. share = [k \in S |-> (weights[k] * amount) \div W]
    BY DEF Shares, W
  <2>4. \A k \in S : /\ share[k] \in Nat
                     /\ W * share[k] <= weights[k] * amount
                     /\ weights[k] * amount + 1 <= W * (share[k] + 1)
    BY <1>1, <2>1, <2>2, <2>3, Divided
  <2>5. share \in [S -> Nat]
    BY <2>3, <2>4
  <2> HIDE DEF share
  <2> DEFINE n == Cardinality(S)
             one == [k \in S |-> 1]
             more == [k \in S |-> share[k] + 1]
             given == [k \in S |-> amount * weights[k]]
             givenMore == [k \in S |-> amount * weights[k] + 1]
             times == [k \in S |-> W * share[k]]
             timesMore == [k \in S |-> W * more[k]]
  <2>6. /\ one \in [S -> Nat] /\ more \in [S -> Nat] /\ given \in [S -> Nat]
        /\ givenMore \in [S -> Nat] /\ times \in [S -> Nat]
        /\ timesMore \in [S -> Nat]
    <3>1. \A k \in S : W * share[k] \in Nat /\ share[k] + 1 \in Nat
      BY <1>1, <2>4
    <3>2. \A k \in S : W * (share[k] + 1) \in Nat
      BY <1>1, <3>1
    <3>3. \A k \in S : amount * weights[k] \in Nat
      BY <2>2
    <3> QED
      BY <3>1, <3>2, <3>3
  <2>7. \A k \in S : times[k] <= given[k] /\ givenMore[k] <= timesMore[k]
    BY <2>2, <2>4
  <2>8. \A k \in S : more[k] = share[k] + one[k]
    OBVIOUS
  <2>9. \A k \in S : givenMore[k] = given[k] + one[k]
    OBVIOUS
  <2>10. Total(one) = n /\ n \in Nat
    BY TotalOnes, FS_CardinalityType
  <2>11. Total(given) = amount * W
    BY <1>1, TotalTimes DEF W
  <2>12. Total(times) = W * Total(share)
    BY <1>1, <2>5, TotalTimes
  <2>13. Total(timesMore) = W * Total(more)
    <3> HIDE DEF more
    <3> QED
      BY <1>1, <2>6, TotalTimes
  <2> HIDE DEF one, more, given, givenMore, times, timesMore, n
  <2>14. Total(more) = Total(share) + n
    BY <2>5, <2>6, <2>8, <2>10, TotalPlus
  <2>15. Total(givenMore) = amount * W + n
    BY <2>6, <2>9, <2>10, <2>11, TotalPlus
  <2>16. W * Total(share) <= amount * W
    BY <2>6, <2>7, <2>11, <2>12, TotalMonotone
  <2>17. amount * W + n <= W * (Total(share) + n)
    BY <2>6, <2>7, <2>13, <2>14, <2>15, TotalMonotone
  <2>18. Total(share) \in Nat
    BY <2>5, UnitsFinite
  <2>19. n > 0
    BY <1>3, <2>10, FS_EmptySet DEF n
  <2>20. amount * W = W * amount
    BY <1>1
  <2>21. Total(share) <= amount
    BY <1>1, <2>1, <2>16, <2>18, <2>20, LessTimes
  <2>22. W * amount < W * (Total(share) + n)
    <3> DEFINE left == W * amount
               right == W * (Total(share) + n)
    <3>1. left \in Nat /\ right \in Nat
      BY <1>1, <2>10, <2>18
    <3>2. left + n <= right
      BY <2>17, <2>20
    <3> HIDE DEF left, right
    <3>3. left < right
      BY <2>10, <2>19, <3>1, <3>2
    <3> QED
      BY <3>3 DEF left, right
  <2>23. amount < Total(share) + n
    BY <1>1, <2>1, <2>10, <2>18, <2>22, LessTimes
  <2>24. amount - Total(share) < n
    BY <2>10, <2>18, <2>23
  <2> QED
    BY <2>5, <2>18, <2>21, <2>24 DEF share, n
<1> QED
  BY <1>2, <1>3


(* Accounts put into two groups. *)
LEMMA TotalSplit ==
  ASSUME NEW S, IsFiniteSet(S), NEW f \in [S -> Nat], NEW T \in SUBSET S
  PROVE  /\ Part(f, T) \in Nat
         /\ Part(f, S \ T) \in Nat
         /\ Part(f, T) + Part(f, S \ T) = Total(f)
<1> DEFINE a == [k \in T |-> f[k]]
           b == [k \in S \ T |-> f[k]]
<1>1. a \in [T -> Nat] /\ b \in [S \ T -> Nat]
  OBVIOUS
<1>2. IsFiniteSet(T) /\ IsFiniteSet(S \ T)
  BY FS_Subset
<1>3. Units(f) = Units(a) \cup Units(b)
  BY DEF Units
<1>4. Units(a) \cap Units(b) = {}
  BY DEF Units
<1> HIDE DEF a, b
<1>5. /\ IsFiniteSet(Units(a)) /\ IsFiniteSet(Units(b))
      /\ Total(a) \in Nat /\ Total(b) \in Nat
  BY <1>1, <1>2, UnitsFinite
<1>6. Cardinality(Units(f)) = Cardinality(Units(a)) + Cardinality(Units(b))
                                - Cardinality(Units(a) \cap Units(b))
  BY <1>3, <1>5, FS_Union
<1>7. Cardinality(Units(a) \cap Units(b)) = 0
  BY <1>4, FS_EmptySet
<1>8. Total(f) = Total(a) + Total(b)
  BY <1>5, <1>6, <1>7 DEF Total
<1>9. Part(f, T) = Total(a) /\ Part(f, S \ T) = Total(b)
  BY DEF Part, a, b
<1> QED
  BY <1>5, <1>8, <1>9

----------------------------------------------------------------------------
(* The plan.                                                               *)

(* A plan is within its own amount, and leaves less than a unit for each   *)
(* wallet.                                                                 *)
Fits(plan) ==
  /\ plan.payoutAmount \in Nat
  /\ Given(plan) \in Nat
  /\ \A m \in DOMAIN plan.buckets : plan.buckets[m].amountIn \in Nat
  /\ Given(plan) <= plan.payoutAmount
  /\ Who(plan) # {} =>
       plan.payoutAmount - Given(plan) < Cardinality(Who(plan))

(* The eligible wallets have weights. *)
LEMMA EligibleWeights ==
  ASSUME NEW in, in.aged \in [Wallets -> Nat], IsFiniteSet(Wallets)
  PROVE  /\ IsFiniteSet(Eligible(in))
         /\ Weights(in) \in [Eligible(in) -> Nat \ {0}]
         /\ Paid(in) \in SUBSET Eligible(in)
         /\ IsFiniteSet(Paid(in))
<1>1. Eligible(in) \in SUBSET Wallets
  BY DEF Eligible
<1>2. IsFiniteSet(Eligible(in))
  BY <1>1, FS_Subset
<1>3. \A w \in Eligible(in) : in.aged[w] \in Nat \ {0}
  BY DEF Eligible, isEligible
<1>4. Weights(in) \in [Eligible(in) -> Nat \ {0}]
  BY <1>3 DEF Weights
<1>5. Paid(in) \in SUBSET Eligible(in)
  BY DEF Paid
<1> QED
  BY <1>2, <1>4, <1>5, FS_Subset

(* What build makes is a plan that fits. *)
LEMMA BuildFits ==
  ASSUME NEW in, in.aged \in [Wallets -> Nat], IsFiniteSet(Wallets),
         in.payoutAmount \in Nat
  PROVE  /\ Fits(build(in))
         /\ build(in).payoutAmount = in.payoutAmount
         /\ build(in).epochIndex = in.epochIndex
<1> DEFINE S == Eligible(in)
           share == Shares(Weights(in), in.payoutAmount)
           asset == [w \in Paid(in) |-> resolveAsset(in, w)]
           into(m) == {w \in Paid(in) : resolveAsset(in, w) = m}
           M == {resolveAsset(in, w) : w \in Paid(in)}
           dropped == Eligible(in) \ Paid(in)
           buckets == [m \in M |-> [amountIn |-> Part(share, into(m)),
                                    recipients |-> into(m)]]
           paid == [w \in Paid(in) |-> share[w]]
           plan == build(in)
<1>1. /\ plan.payoutAmount = in.payoutAmount
      /\ plan.epochIndex = in.epochIndex
      /\ plan.buckets = buckets
      /\ plan.droppedSubRent = dropped
      /\ plan.droppedShareLamports = Part(share, dropped)
  BY DEF build
<1> HIDE DEF plan
<1>2. /\ IsFiniteSet(S)
      /\ Weights(in) \in [S -> Nat \ {0}]
      /\ Paid(in) \in SUBSET S
      /\ IsFiniteSet(Paid(in))
  BY EligibleWeights
<1>3. /\ share \in [S -> Nat]
      /\ Total(share) \in Nat
      /\ Total(share) <= in.payoutAmount
      /\ S # {} => in.payoutAmount - Total(share) < Cardinality(S)
  <2> HIDE DEF S
  <2> QED
    BY <1>2, SharesFit
<1> HIDE DEF share
<1>4. /\ Part(share, Paid(in)) \in Nat /\ Part(share, dropped) \in Nat
      /\ Part(share, Paid(in)) + Part(share, dropped) = Total(share)
  BY <1>2, <1>3, TotalSplit
<1>5. asset \in [Paid(in) -> M] /\ asset \in Surjection(Paid(in), M)
  BY DEF Surjection
<1>6. IsFiniteSet(M)
  BY <1>2, <1>5, FS_Surjection
<1>7. paid \in [Paid(in) -> Nat]
  BY <1>2, <1>3
<1>8. \A m : /\ into(m) = {w \in Paid(in) : asset[w] = m}
             /\ Part(share, into(m)) = Part(paid, into(m))
  <2> TAKE m
  <2>1. into(m) = {w \in Paid(in) : asset[w] = m}
    OBVIOUS
  <2>2. [w \in into(m) |-> share[w]] = [w \in into(m) |-> paid[w]]
    OBVIOUS
  <2> QED
    BY <2>1, <2>2 DEF Part
<1>9. Total(paid) = Part(share, Paid(in))
  BY DEF Part
<1>10. Total([m \in M |-> Part(share, into(m))]) = Part(share, Paid(in))
  <2> HIDE DEF asset, M, paid
  <2>1. Total([m \in M |-> Part(paid, {w \in Paid(in) : asset[w] = m})])
          = Total(paid)
    BY <1>2, <1>5, <1>6, <1>7, TotalOfParts
  <2>2. [m \in M |-> Part(paid, {w \in Paid(in) : asset[w] = m})]
          = [m \in M |-> Part(share, into(m))]
    BY <1>8
  <2> QED
    BY <1>9, <2>1, <2>2
<1>11. \A m \in M : Part(share, into(m)) \in Nat
  <2> HIDE DEF asset, M, paid
  <2> DEFINE parts == [m \in M |-> Part(paid, {w \in Paid(in) : asset[w] = m})]
  <2>1. parts \in [M -> Nat] /\ Total(parts) = Total(paid)
    BY <1>2, <1>5, <1>6, <1>7, TotalOfParts
  <2>2. \A m \in M : Part(paid, {w \in Paid(in) : asset[w] = m}) \in Nat
    BY <2>1
  <2> QED
    BY <1>8, <2>2
<1>12. [m \in DOMAIN plan.buckets |-> plan.buckets[m].amountIn]
         = [m \in M |-> Part(share, into(m))]
  <2> HIDE DEF into, M
  <2> QED
    BY <1>1
<1>13. Given(plan) = Total(share)
  BY <1>1, <1>4, <1>10, <1>12 DEF Given
<1>14. Who(plan) = S
  <2>1. UNION {plan.buckets[m].recipients : m \in DOMAIN plan.buckets}
          = Paid(in)
    <3>1. \A m \in M : plan.buckets[m].recipients = into(m)
      BY <1>1
    <3>2. DOMAIN plan.buckets = M
      BY <1>1
    <3>3. UNION {into(m) : m \in M} = Paid(in)
      OBVIOUS
    <3> HIDE DEF M, into
    <3> QED
      BY <3>1, <3>2, <3>3
  <2> QED
    BY <1>1, <1>2, <2>1 DEF Who
<1>15. \A m \in DOMAIN plan.buckets : plan.buckets[m].amountIn \in Nat
  <2> HIDE DEF into, M
  <2> QED
    BY <1>1, <1>11
<1> QED
  BY <1>1, <1>3, <1>13, <1>14, <1>15 DEF Fits, plan


----------------------------------------------------------------------------
(* The root.                                                               *)

RootOf(entries) == merkleRoot([i \in DOMAIN entries |-> leafFor(entries[i])])

(* The root of a round: of its weights, elections and list, whatever the   *)
(* amount.                                                                 *)
RootFrom(weights, elected, list) ==
  RootOf(Entries(
    [epochIndex |-> 0, aged |-> weights, supply |-> Supply, capBps |-> CapBps,
     payoutAmount |-> 0, elections |-> elected,
     defaultPayoutMint |-> defaultPayoutMint, usdcMint |-> usdcMint,
     allowlist |-> list, minShareLamports |-> minShareLamports]))

RootAt(e, list) == RootFrom(aged[e], electionsForRound(e), list)

(* The entries of a plan do not depend on the amount, nor on the epoch's   *)
(* number.                                                                 *)
LEMMA SameEntries ==
  ASSUME NEW a, NEW b,
         a.aged = b.aged, a.supply = b.supply, a.capBps = b.capBps,
         a.elections = b.elections, a.allowlist = b.allowlist,
         a.defaultPayoutMint = b.defaultPayoutMint, a.usdcMint = b.usdcMint
  PROVE  Entries(a) = Entries(b)
<1>1. Eligible(a) = Eligible(b)
  BY DEF Eligible
<1>2. \A w : resolveAsset(a, w) = resolveAsset(b, w)
  BY DEF resolveAsset
<1> QED
  BY <1>1, <1>2 DEF Entries

LEMMA BuildRoot ==
  ASSUME NEW e, NEW amount, NEW list
  PROVE  LET plan == build(Inputs(e, amount, list)) IN
         /\ plan.merkleRoot = RootAt(e, list)
         /\ plan.merkleRoot = RootOf(plan.entries)
<1> DEFINE in == Inputs(e, amount, list)
           elected == electionsForRound(e)
           in0 == [epochIndex |-> 0, aged |-> aged[e], supply |-> Supply,
                   capBps |-> CapBps, payoutAmount |-> 0,
                   elections |-> elected,
                   defaultPayoutMint |-> defaultPayoutMint,
                   usdcMint |-> usdcMint, allowlist |-> list,
                   minShareLamports |-> minShareLamports]
<1>1. /\ build(in).entries = Entries(in)
      /\ build(in).merkleRoot = RootOf(Entries(in))
  BY DEF build, RootOf
<1> HIDE DEF elected
<1>2. /\ in.aged = in0.aged /\ in.supply = in0.supply
      /\ in.capBps = in0.capBps /\ in.elections = in0.elections
      /\ in.allowlist = in0.allowlist
      /\ in.defaultPayoutMint = in0.defaultPayoutMint
      /\ in.usdcMint = in0.usdcMint
  BY DEF Inputs, elected
<1>3. RootAt(e, list) = RootOf(Entries(in0))
  BY DEF RootAt, RootFrom, elected
<1> HIDE DEF in, in0
<1>4. Entries(in) = Entries(in0)
  BY <1>2, SameEntries
<1> QED
  BY <1>1, <1>3, <1>4 DEF in

(* A file has the leaves of its plan. *)
LEMMA FileRoot ==
  ASSUME NEW plan, NEW root
  PROVE  verifyRoundFile(buildRoundFile(plan), root)
           <=> RootOf(plan.entries) = root
<1> DEFINE file == buildRoundFile(plan)
           entries == plan.entries
<1>1. file.entries = [i \in DOMAIN entries |->
        [wallet |-> entries[i].wallet, outMint |-> entries[i].outMint,
         weight |-> entries[i].weight,
         dropped |-> entries[i].wallet \in plan.droppedSubRent]]
  BY DEF buildRoundFile
<1>2. DOMAIN file.entries = DOMAIN entries
  BY <1>1
<1>3. \A i \in DOMAIN entries :
        /\ file.entries[i].wallet = entries[i].wallet
        /\ file.entries[i].outMint = entries[i].outMint
        /\ file.entries[i].weight = entries[i].weight
  <2> HIDE DEF entries
  <2> QED
    BY <1>1
<1> HIDE DEF file, entries
<1>4. \A i \in DOMAIN entries : leafFor(file.entries[i]) = leafFor(entries[i])
  BY <1>3 DEF leafFor
<1>5. [i \in DOMAIN file.entries |-> leafFor(file.entries[i])]
        = [i \in DOMAIN entries |-> leafFor(entries[i])]
  BY <1>2, <1>4
<1> QED
  BY <1>5 DEF verifyRoundFile, RootOf, file, entries

----------------------------------------------------------------------------
(* The invariant.                                                          *)

Whole(r) ==
  r = [settled |-> r.settled, payout_amount |-> r.payout_amount,
       swapped_in |-> r.swapped_in, merkle_root |-> r.merkle_root,
       bucket_count |-> r.bucket_count,
       buckets_complete |-> r.buckets_complete, allowed |-> r.allowed]

WholeBucket(b) ==
  b = [swapped |-> b.swapped, amount_in |-> b.amount_in,
       recipient_count |-> b.recipient_count, cursor |-> b.cursor,
       complete |-> b.complete]

Shapes ==
  /\ aged \in [Epochs -> [Wallets -> Nat]]
  /\ elections = [k \in Epochs \X Electors |-> elections[k]]
  /\ published = [e \in Epochs |-> published[e]]
  /\ payout_wsol \in Nat
  /\ epoch_state = [e \in Epochs |-> epoch_state[e]]
  /\ \A e \in Epochs : Whole(epoch_state[e])
                       /\ epoch_state[e].payout_amount \in Nat
  /\ bucket_state = [k \in Epochs \X Mints |-> bucket_state[k]]
  /\ \A k \in Epochs \X Mints : WholeBucket(bucket_state[k])
                                /\ bucket_state[k].amount_in \in Nat

JobShape ==
  job # Idle =>
    /\ job = Work(job.at, job.plan, job.landed, job.allowed)
    /\ job.at \in {"built", "working"}
    /\ job.plan.epochIndex \in Epochs

(* The plan in work fits an amount that is or will be frozen. *)
PlanFits ==
  job # Idle =>
    LET r == epoch_state[job.plan.epochIndex] IN
    /\ Fits(job.plan)
    /\ job.at = "built" => job.plan.payoutAmount <= payout_wsol
    /\ job.at = "working" => /\ r.settled
                             /\ job.plan.payoutAmount <= r.payout_amount

PublishedSettled ==
  \A e \in Epochs : published[e] # {} => epoch_state[e].settled

(* The anchored root is the one that the plan of the epoch would have now. *)
AnchorsStand ==
  \A e \in Epochs \ reelected :
    epoch_state[e].settled =>
      epoch_state[e].merkle_root = RootAt(e, epoch_state[e].allowed)

(* So is the root of the plan in work, and it is of the plan's entries.    *)
JobRoot ==
  job # Idle =>
    LET e == job.plan.epochIndex IN
    /\ job.plan.merkleRoot = RootOf(job.plan.entries)
    /\ e \notin reelected =>
         /\ job.at = "built" => job.plan.merkleRoot = RootAt(e, job.allowed)
         /\ job.at = "working" =>
              job.plan.merkleRoot = epoch_state[e].merkle_root

RootsStand == PublishedSettled /\ AnchorsStand /\ JobRoot /\ FileVerifies

Inv == Shapes /\ JobShape /\ PlanFits /\ RootsStand


LEMMA InitInv == ASSUME RoundAssumption, Init PROVE Inv
<1>1. Shapes
  <2>1. aged \in [Epochs -> [Wallets -> Nat]]
    BY DEF Init, RoundAssumption
  <2>2. elections = [k \in Epochs \X Electors |-> elections[k]]
    BY DEF Init, ElectionInit
  <2>3. published = [e \in Epochs |-> published[e]] /\ payout_wsol \in Nat
    BY DEF Init
  <2>4. epoch_state = [e \in Epochs |-> epoch_state[e]]
    BY DEF Init
  <2>5. \A e \in Epochs : Whole(epoch_state[e])
                          /\ epoch_state[e].payout_amount \in Nat
    BY DEF Init, Whole, Unsettled
  <2>6. bucket_state = [k \in Epochs \X Mints |-> bucket_state[k]]
    BY DEF Init
  <2>7. \A k \in Epochs \X Mints : WholeBucket(bucket_state[k])
                                   /\ bucket_state[k].amount_in \in Nat
    BY DEF Init, WholeBucket, NoBucket
  <2> QED
    BY <2>1, <2>2, <2>3, <2>4, <2>5, <2>6, <2>7 DEF Shapes
<1>2. job = Idle /\ \A e \in Epochs : published[e] = {}
                                      /\ ~epoch_state[e].settled
  BY DEF Init, Unsettled
<1> QED
  BY <1>1, <1>2 DEF Inv, JobShape, PlanFits, RootsStand, PublishedSettled,
      AnchorsStand, JobRoot, FileVerifies

(* Idle is no work. *)
LEMMA WorkIsNotIdle ==
  ASSUME NEW at \in {"built", "working"}, NEW plan, NEW landed, NEW allowed
  PROVE  /\ Work(at, plan, landed, allowed) # Idle
         /\ Work(at, plan, landed, allowed).at = at
         /\ Work(at, plan, landed, allowed).plan = plan
         /\ Work(at, plan, landed, allowed).landed = landed
         /\ Work(at, plan, landed, allowed).allowed = allowed
<1>1. /\ Work(at, plan, landed, allowed).at = at
      /\ Work(at, plan, landed, allowed).plan = plan
      /\ Work(at, plan, landed, allowed).landed = landed
      /\ Work(at, plan, landed, allowed).allowed = allowed
  BY DEF Work
<1>2. Idle.at = "idle"
  BY DEF Idle
<1>3. at # "idle"
  OBVIOUS
<1> QED
  BY <1>1, <1>2, <1>3

LEMMA AtIsNotIdle ==
  ASSUME job.at \in {"built", "working"}
  PROVE  job # Idle
BY DEF Idle

(* A step that leaves what the round has anchored, elected and published,  *)
(* and gives its job up or goes on with the same plan.                     *)
Aside ==
  /\ \A e \in Epochs :
       /\ epoch_state'[e].settled = epoch_state[e].settled
       /\ epoch_state'[e].payout_amount = epoch_state[e].payout_amount
       /\ epoch_state'[e].merkle_root = epoch_state[e].merkle_root
       /\ epoch_state'[e].allowed = epoch_state[e].allowed
  /\ UNCHANGED <<aged, elections, published, reelected>>
  /\ job' # Idle => /\ job # Idle
                    /\ job'.plan = job.plan
                    /\ job'.at = job.at
                    /\ job'.allowed = job.allowed
                    /\ job.at = "built" => payout_wsol <= payout_wsol'

LEMMA AsideKeeps ==
  ASSUME Inv, Aside, payout_wsol \in Nat, payout_wsol' \in Nat
  PROVE  PlanFits' /\ RootsStand'
<1>1. \A e, list : RootFrom(aged'[e], electionsForRound(e)', list)
                     = RootAt(e, list)
  BY DEF Aside, RootAt, electionsForRound
<1>2. PlanFits'
  <2> SUFFICES ASSUME job' # Idle
               PROVE  PlanFits'
    BY DEF PlanFits
  <2> DEFINE e == job.plan.epochIndex
  <2>1. /\ job # Idle /\ job'.plan = job.plan /\ job'.at = job.at
        /\ job.at = "built" => payout_wsol <= payout_wsol'
        /\ e \in Epochs
    BY DEF Aside, Inv, JobShape
  <2>2. /\ Fits(job.plan)
        /\ job.at = "built" => job.plan.payoutAmount <= payout_wsol
        /\ job.at = "working" =>
             /\ epoch_state[e].settled
             /\ job.plan.payoutAmount <= epoch_state[e].payout_amount
    BY <2>1 DEF Inv, PlanFits
  <2>3. /\ epoch_state'[e].settled = epoch_state[e].settled
        /\ epoch_state'[e].payout_amount = epoch_state[e].payout_amount
    BY <2>1 DEF Aside
  <2>4. Fits(job'.plan)
    BY <2>1, <2>2
  <2>5. job'.at = "built" => job'.plan.payoutAmount <= payout_wsol'
    <3>1. job.plan.payoutAmount \in Nat
      BY <2>2 DEF Fits
    <3> QED
      BY <2>1, <2>2, <3>1
  <2>6. job'.at = "working" =>
          /\ epoch_state'[e].settled
          /\ job'.plan.payoutAmount <= epoch_state'[e].payout_amount
    BY <2>1, <2>2, <2>3
  <2> QED
    BY <2>1, <2>4, <2>5, <2>6 DEF PlanFits
<1>3. PublishedSettled'
  BY DEF Aside, Inv, RootsStand, PublishedSettled
<1>4. AnchorsStand'
  <2> SUFFICES ASSUME NEW e \in Epochs, e \notin reelected',
                      epoch_state'[e].settled
               PROVE  epoch_state'[e].merkle_root =
                        RootFrom(aged'[e], electionsForRound(e)',
                                 epoch_state'[e].allowed)
    BY DEF AnchorsStand, RootAt
  <2>1. /\ e \notin reelected /\ epoch_state[e].settled
        /\ epoch_state'[e].merkle_root = epoch_state[e].merkle_root
        /\ epoch_state'[e].allowed = epoch_state[e].allowed
    BY DEF Aside
  <2>2. epoch_state[e].merkle_root = RootAt(e, epoch_state[e].allowed)
    BY <2>1 DEF Inv, RootsStand, AnchorsStand
  <2> QED
    BY <1>1, <2>1, <2>2
<1>5. JobRoot'
  <2> SUFFICES ASSUME job' # Idle
               PROVE  JobRoot'
    BY DEF JobRoot
  <2>1. /\ job # Idle /\ job'.plan = job.plan /\ job'.at = job.at
        /\ job'.allowed = job.allowed /\ reelected' = reelected
        /\ job.plan.epochIndex \in Epochs
    BY DEF Aside, Inv, JobShape
  <2> DEFINE e == job.plan.epochIndex
  <2>2. epoch_state'[e].merkle_root = epoch_state[e].merkle_root
    BY <2>1 DEF Aside
  <2>3. /\ job.plan.merkleRoot = RootOf(job.plan.entries)
        /\ e \notin reelected =>
             /\ job.at = "built" =>
                  job.plan.merkleRoot = RootAt(e, job.allowed)
             /\ job.at = "working" =>
                  job.plan.merkleRoot = epoch_state[e].merkle_root
    BY <2>1 DEF Inv, RootsStand, JobRoot
  <2> QED
    BY <2>1, <2>2, <2>3, <1>1 DEF JobRoot, RootAt
<1>6. FileVerifies'
  <2>1. \A e \in Epochs :
          epoch_state'[e].merkle_root = epoch_state[e].merkle_root
    BY DEF Aside
  <2> QED
    BY <2>1 DEF Aside, Inv, RootsStand, FileVerifies
<1> QED
  BY <1>2, <1>3, <1>4, <1>5, <1>6 DEF RootsStand


(* A step that changes nothing the invariant reads. *)
Elsewhere == UNCHANGED <<aged, elections, published, reelected, payout_wsol,
                         epoch_state, bucket_state, job>>

LEMMA ElsewhereKeeps ==
  ASSUME Inv, Elsewhere
  PROVE  Inv'
<1>1. Shapes' /\ JobShape'
  BY DEF Elsewhere, Inv, Shapes, JobShape
<1>2. Aside
  BY DEF Elsewhere, Aside, Inv, Shapes
<1>3. payout_wsol \in Nat /\ payout_wsol' \in Nat
  BY DEF Elsewhere, Inv, Shapes
<1> QED
  BY <1>1, <1>2, <1>3, AsideKeeps DEF Inv

LEMMA CreditKeeps ==
  ASSUME Inv, Credit
  PROVE  Inv'
<1>1. payout_wsol \in Nat /\ payout_wsol' \in Nat /\ payout_wsol <= payout_wsol'
  BY DEF Credit, Inv, Shapes
<1>2. UNCHANGED <<aged, elections, published, reelected, epoch_state,
                  bucket_state, job>>
  BY DEF Credit, service, aux
<1>3. Shapes' /\ JobShape'
  BY <1>1, <1>2 DEF Inv, Shapes, JobShape
<1>4. Aside
  BY <1>1, <1>2 DEF Aside
<1> QED
  BY <1>1, <1>3, <1>4, AsideKeeps DEF Inv

LEMMA CrashKeeps ==
  ASSUME Inv, Crash
  PROVE  Inv'
<1>1. /\ UNCHANGED <<aged, elections, published, reelected, payout_wsol,
                     epoch_state, bucket_state>>
      /\ job' = Idle
  BY DEF Crash, Forget, chain, service
<1>2. Shapes' /\ JobShape'
  BY <1>1 DEF Inv, Shapes, JobShape
<1>3. Aside
  BY <1>1 DEF Aside
<1>4. payout_wsol \in Nat /\ payout_wsol' \in Nat
  BY <1>1 DEF Inv, Shapes
<1> QED
  BY <1>2, <1>3, <1>4, AsideKeeps DEF Inv

LEMMA FinishKeeps ==
  ASSUME Inv, Finish
  PROVE  Inv'
<1>1. /\ UNCHANGED <<aged, elections, published, reelected, payout_wsol,
                     epoch_state, bucket_state>>
      /\ job' = Idle
  BY DEF Finish, chain, service, aux
<1>2. Shapes' /\ JobShape'
  BY <1>1 DEF Inv, Shapes, JobShape
<1>3. Aside
  BY <1>1 DEF Aside
<1>4. payout_wsol \in Nat /\ payout_wsol' \in Nat
  BY <1>1 DEF Inv, Shapes
<1> QED
  BY <1>2, <1>3, <1>4, AsideKeeps DEF Inv

(* A new plan is built as the round is now. *)
LEMMA NewPlan ==
  ASSUME RoundAssumption, Inv, NEW e \in Epochs, NEW amount \in Nat, NEW list
  PROVE  LET plan == build(Inputs(e, amount, list)) IN
         /\ plan.epochIndex = e
         /\ plan.payoutAmount = amount
         /\ Fits(plan)
         /\ plan.merkleRoot = RootAt(e, list)
         /\ plan.merkleRoot = RootOf(plan.entries)
<1> DEFINE in == Inputs(e, amount, list)
<1>1. in.aged = aged[e] /\ in.payoutAmount = amount /\ in.epochIndex = e
  BY DEF Inputs
<1>2. in.aged \in [Wallets -> Nat] /\ IsFiniteSet(Wallets)
  BY <1>1 DEF Inv, Shapes, RoundAssumption
<1>3. build(in).merkleRoot = RootAt(e, list)
      /\ build(in).merkleRoot = RootOf(build(in).entries)
  BY BuildRoot
<1> HIDE DEF in
<1>4. Fits(build(in)) /\ build(in).payoutAmount = amount
      /\ build(in).epochIndex = e
  BY <1>1, <1>2, BuildFits
<1> QED
  BY <1>3, <1>4 DEF in

LEMMA BuildKeeps ==
  ASSUME RoundAssumption, Inv, Build
  PROVE  Inv'
<1> DEFINE e == settleableEpoch(now)
           plan == build(Inputs(e, payout_wsol, platform))
<1>1. /\ e \in Epochs
      /\ job' = Work("built", plan, NotSwapped(plan), platform)
      /\ UNCHANGED <<aged, elections, published, reelected, payout_wsol,
                     epoch_state, bucket_state>>
  BY DEF Build, chain, service, aux
<1>2. payout_wsol \in Nat
  BY DEF Inv, Shapes
<1>3. /\ plan.epochIndex = e /\ plan.payoutAmount = payout_wsol
      /\ Fits(plan)
      /\ plan.merkleRoot = RootAt(e, platform)
      /\ plan.merkleRoot = RootOf(plan.entries)
  BY <1>1, <1>2, NewPlan
<1> HIDE DEF plan, e
<1>4. /\ job' # Idle /\ job'.at = "built" /\ job'.plan = plan
      /\ job'.landed = NotSwapped(plan) /\ job'.allowed = platform
  BY <1>1, WorkIsNotIdle
<1>5. Shapes'
  BY <1>1 DEF Inv, Shapes
<1>6. JobShape'
  BY <1>1, <1>3, <1>4 DEF JobShape
<1>7. PlanFits'
  BY <1>1, <1>2, <1>3, <1>4 DEF PlanFits
<1>8. RootsStand'
  <2>1. \A f, l : RootFrom(aged'[f], electionsForRound(f)', l) = RootAt(f, l)
    BY <1>1 DEF RootAt, electionsForRound
  <2>2. PublishedSettled' /\ FileVerifies'
    BY <1>1 DEF Inv, RootsStand, PublishedSettled, FileVerifies
  <2>3. AnchorsStand'
    <3> SUFFICES ASSUME NEW f \in Epochs, f \notin reelected',
                        epoch_state'[f].settled
                 PROVE  epoch_state'[f].merkle_root =
                          RootFrom(aged'[f], electionsForRound(f)',
                                   epoch_state'[f].allowed)
      BY DEF AnchorsStand, RootAt
    <3> QED
      BY <1>1, <2>1 DEF Inv, RootsStand, AnchorsStand
  <2>4. JobRoot'
    <3>1. job'.plan.merkleRoot = RootOf(job'.plan.entries)
      BY <1>3, <1>4
    <3>2. RootAt(job.plan.epochIndex, job.allowed)' = RootAt(e, platform)
      BY <1>3, <1>4, <2>1 DEF RootAt
    <3>3. job'.plan.merkleRoot = RootAt(job.plan.epochIndex, job.allowed)'
      BY <1>3, <1>4, <3>2
    <3> QED
      BY <1>4, <3>1, <3>3 DEF JobRoot
  <2> QED
    BY <2>2, <2>3, <2>4 DEF RootsStand
<1> QED
  BY <1>5, <1>6, <1>7, <1>8 DEF Inv

LEMMA ResumeKeeps ==
  ASSUME RoundAssumption, Inv, NEW e \in Epochs, Resume(e)
  PROVE  Inv'
<1> DEFINE r == epoch_state[e]
           plan == build(Inputs(e, r.payout_amount, r.allowed))
           landed == [m \in DOMAIN plan.buckets |->
                        IF bucket_state[<<e, m>>].swapped THEN m ELSE "none"]
<1>1. /\ r.settled
      /\ job' = Work("working", plan, landed, r.allowed)
      /\ UNCHANGED <<aged, elections, published, reelected, payout_wsol,
                     epoch_state, bucket_state>>
  BY DEF Resume, Unfinished, chain, service, aux
<1>2. r.payout_amount \in Nat
  BY DEF Inv, Shapes
<1>3. /\ plan.epochIndex = e /\ plan.payoutAmount = r.payout_amount
      /\ Fits(plan)
      /\ plan.merkleRoot = RootAt(e, r.allowed)
      /\ plan.merkleRoot = RootOf(plan.entries)
  BY <1>2, NewPlan
<1> HIDE DEF plan, landed
<1>4. /\ job' # Idle /\ job'.at = "working" /\ job'.plan = plan
      /\ job'.landed = landed /\ job'.allowed = r.allowed
  BY <1>1, WorkIsNotIdle
<1>5. Shapes'
  BY <1>1 DEF Inv, Shapes
<1>6. JobShape'
  BY <1>1, <1>3, <1>4 DEF JobShape
<1>7. PlanFits'
  BY <1>1, <1>2, <1>3, <1>4 DEF PlanFits
<1>8. RootsStand'
  <2>1. \A f, l : RootFrom(aged'[f], electionsForRound(f)', l) = RootAt(f, l)
    BY <1>1 DEF RootAt, electionsForRound
  <2>2. PublishedSettled' /\ FileVerifies'
    BY <1>1 DEF Inv, RootsStand, PublishedSettled, FileVerifies
  <2>3. AnchorsStand'
    <3> SUFFICES ASSUME NEW f \in Epochs, f \notin reelected',
                        epoch_state'[f].settled
                 PROVE  epoch_state'[f].merkle_root =
                          RootFrom(aged'[f], electionsForRound(f)',
                                   epoch_state'[f].allowed)
      BY DEF AnchorsStand, RootAt
    <3> QED
      BY <1>1, <2>1 DEF Inv, RootsStand, AnchorsStand
  <2>4. e \notin reelected => plan.merkleRoot = r.merkle_root
    BY <1>1, <1>3 DEF Inv, RootsStand, AnchorsStand
  <2>5. JobRoot'
    BY <1>1, <1>3, <1>4, <2>4 DEF JobRoot
  <2> QED
    BY <2>2, <2>3, <2>5 DEF RootsStand
<1> QED
  BY <1>5, <1>6, <1>7, <1>8 DEF Inv


LEMMA SettleKeeps ==
  ASSUME Inv, Settle
  PROVE  Inv'
<1> DEFINE e == job.plan.epochIndex
           plan == job.plan
           rec == [settled |-> TRUE, payout_amount |-> payout_wsol,
                   swapped_in |-> 0, merkle_root |-> plan.merkleRoot,
                   bucket_count |-> Cardinality(DOMAIN plan.buckets),
                   buckets_complete |-> 0, allowed |-> job.allowed]
<1>1. /\ job.at = "built"
      /\ ~epoch_state[e].settled
      /\ epoch_state' = [epoch_state EXCEPT ![e] = rec]
      /\ job' = [job EXCEPT !.at = "working"]
      /\ UNCHANGED <<aged, elections, published, reelected, payout_wsol,
                     bucket_state>>
  BY DEF Settle, settle_epoch, settleEpochIx, service
<1>2. /\ job # Idle /\ e \in Epochs
      /\ job = Work("built", job.plan, job.landed, job.allowed)
  BY <1>1, AtIsNotIdle DEF Inv, JobShape
<1>3. job' = Work("working", job.plan, job.landed, job.allowed)
  BY <1>1, <1>2 DEF Work
<1>4. /\ job' # Idle /\ job'.at = "working" /\ job'.plan = plan
      /\ job'.landed = job.landed /\ job'.allowed = job.allowed
  BY <1>3, WorkIsNotIdle
<1>5. /\ Fits(plan) /\ plan.payoutAmount <= payout_wsol
      /\ payout_wsol \in Nat
      /\ plan.merkleRoot = RootOf(plan.entries)
      /\ e \notin reelected => plan.merkleRoot = RootAt(e, job.allowed)
  BY <1>1, <1>2 DEF Inv, Shapes, PlanFits, RootsStand, JobRoot
<1>6. /\ rec.settled /\ rec.payout_amount = payout_wsol
      /\ rec.merkle_root = plan.merkleRoot /\ rec.allowed = job.allowed
      /\ Whole(rec)
  BY DEF Whole
<1> HIDE DEF rec
<1>7. /\ epoch_state'[e] = rec
      /\ \A f \in Epochs \ {e} : epoch_state'[f] = epoch_state[f]
      /\ epoch_state' = [f \in Epochs |-> epoch_state'[f]]
  BY <1>1, <1>2 DEF Inv, Shapes
<1>8. Shapes'
  <2>1. \A f \in Epochs : Whole(epoch_state'[f])
                          /\ epoch_state'[f].payout_amount \in Nat
    BY <1>5, <1>6, <1>7 DEF Inv, Shapes
  <2>2. \A f \in Epochs : Whole(epoch_state[f])'
                          /\ epoch_state'[f].payout_amount \in Nat
    BY <2>1 DEF Whole
  <2> QED
    BY <1>1, <1>7, <2>2 DEF Inv, Shapes
<1>9. JobShape'
  BY <1>2, <1>3, <1>4 DEF JobShape
<1>10. PlanFits'
  BY <1>4, <1>5, <1>6, <1>7 DEF PlanFits
<1>11. RootsStand'
  <2>1. \A f, l : RootFrom(aged'[f], electionsForRound(f)', l) = RootAt(f, l)
    BY <1>1 DEF RootAt, electionsForRound
  <2>2. PublishedSettled'
    BY <1>1, <1>6, <1>7 DEF Inv, RootsStand, PublishedSettled
  <2>3. published[e] = {}
    BY <1>1, <1>2 DEF Inv, RootsStand, PublishedSettled
  <2>4. FileVerifies'
    BY <1>1, <1>7, <2>3 DEF Inv, RootsStand, FileVerifies
  <2>5. AnchorsStand'
    <3> SUFFICES ASSUME NEW f \in Epochs, f \notin reelected',
                        epoch_state'[f].settled
                 PROVE  epoch_state'[f].merkle_root =
                          RootFrom(aged'[f], electionsForRound(f)',
                                   epoch_state'[f].allowed)
      BY DEF AnchorsStand, RootAt
    <3>1. CASE f = e
      BY <1>1, <1>5, <1>6, <1>7, <2>1, <3>1
    <3>2. CASE f # e
      BY <1>1, <1>7, <2>1, <3>2 DEF Inv, RootsStand, AnchorsStand
    <3> QED
      BY <3>1, <3>2
  <2>6. JobRoot'
    BY <1>4, <1>5, <1>6, <1>7 DEF JobRoot
  <2> QED
    BY <2>2, <2>4, <2>5, <2>6 DEF RootsStand
<1> QED
  BY <1>8, <1>9, <1>10, <1>11 DEF Inv

LEMMA PublishKeeps ==
  ASSUME Inv, Publish
  PROVE  Inv'
<1> DEFINE e == job.plan.epochIndex
           file == buildRoundFile(job.plan)
<1>1. /\ job.at = "working"
      /\ published' = [published EXCEPT ![e] = {file}]
      /\ UNCHANGED <<aged, elections, reelected, payout_wsol, epoch_state,
                     bucket_state, job>>
  BY DEF Publish, chain, aux
<1>2. job # Idle /\ e \in Epochs
  BY <1>1, AtIsNotIdle DEF Inv, JobShape
<1>3. /\ epoch_state[e].settled
      /\ job.plan.merkleRoot = RootOf(job.plan.entries)
      /\ e \notin reelected =>
           job.plan.merkleRoot = epoch_state[e].merkle_root
  BY <1>1, <1>2 DEF Inv, PlanFits, RootsStand, JobRoot
<1>4. e \notin reelected =>
        verifyRoundFile(file, epoch_state[e].merkle_root)
  BY <1>3, FileRoot
<1> HIDE DEF file
<1>5. /\ published'[e] = {file}
      /\ \A f \in Epochs \ {e} : published'[f] = published[f]
      /\ published' = [f \in Epochs |-> published'[f]]
  BY <1>1, <1>2 DEF Inv, Shapes
<1>6. Shapes'
  BY <1>1, <1>5 DEF Inv, Shapes
<1>7. JobShape' /\ PlanFits' /\ JobRoot'
  <2>1. \A f, l : RootAt(f, l)' = RootAt(f, l)
    BY <1>1 DEF RootAt, electionsForRound
  <2>2. JobShape' /\ PlanFits'
    BY <1>1 DEF Inv, JobShape, PlanFits
  <2>3. JobRoot'
    BY <1>1, <2>1 DEF Inv, RootsStand, JobRoot, RootAt, electionsForRound
  <2> QED
    BY <2>2, <2>3
<1>8. PublishedSettled'
  BY <1>1, <1>3, <1>5 DEF Inv, RootsStand, PublishedSettled
<1>9. FileVerifies'
  BY <1>1, <1>4, <1>5 DEF Inv, RootsStand, FileVerifies
<1>10. AnchorsStand'
  <2>1. \A f, l : RootFrom(aged'[f], electionsForRound(f)', l) = RootAt(f, l)
    BY <1>1 DEF RootAt, electionsForRound
  <2> SUFFICES ASSUME NEW f \in Epochs, f \notin reelected',
                      epoch_state'[f].settled
               PROVE  epoch_state'[f].merkle_root =
                        RootFrom(aged'[f], electionsForRound(f)',
                                 epoch_state'[f].allowed)
    BY DEF AnchorsStand, RootAt
  <2> QED
    BY <1>1, <2>1 DEF Inv, RootsStand, AnchorsStand
<1> QED
  BY <1>6, <1>7, <1>8, <1>9, <1>10 DEF Inv, RootsStand

(* An election that comes after the plan takes its epoch out of the claim. *)
LEMMA SubmitKeeps ==
  ASSUME Inv, NEW message \in Message, SubmitElection(message)
  PROVE  Inv'
<1> DEFINE e == message.epochIndex
           w == message.wallet
           new == [outMint |-> message.outMint, nonce |-> message.nonce]
<1>1. /\ elections' = [elections EXCEPT ![<<e, w>>] = new]
      /\ reelected' = IF Begun(e) THEN reelected \cup {e} ELSE reelected
      /\ UNCHANGED <<aged, published, payout_wsol, epoch_state, bucket_state,
                     job>>
  BY DEF SubmitElection, submit, chain
<1>2. e \in Epochs /\ w \in Electors
  BY DEF Message
<1>3. \A f \in Epochs : f # e => electionsForRound(f)' = electionsForRound(f)
  <2> SUFFICES ASSUME NEW f \in Epochs, f # e
               PROVE  electionsForRound(f)' = electionsForRound(f)
    OBVIOUS
  <2>1. \A x \in Electors : elections'[<<f, x>>] = elections[<<f, x>>]
    BY <1>1, <1>2 DEF Inv, Shapes
  <2> QED
    BY <2>1 DEF electionsForRound
<1>4. \A f \in Epochs : \A l : f # e =>
        RootFrom(aged'[f], electionsForRound(f)', l) = RootAt(f, l)
  BY <1>1, <1>3 DEF RootAt
<1>5. Shapes'
  <2>1. elections' = [k \in Epochs \X Electors |-> elections'[k]]
    BY <1>1 DEF Inv, Shapes
  <2> QED
    BY <1>1, <2>1 DEF Inv, Shapes
<1>6. JobShape' /\ PlanFits' /\ PublishedSettled'
  BY <1>1 DEF Inv, JobShape, PlanFits, RootsStand, PublishedSettled
<1>7. FileVerifies'
  BY <1>1 DEF Inv, RootsStand, FileVerifies
<1>8. \A f \in Epochs : f \notin reelected' /\ epoch_state[f].settled =>
        f # e /\ f \notin reelected
  BY <1>1 DEF Begun
<1>9. AnchorsStand'
  <2> SUFFICES ASSUME NEW f \in Epochs, f \notin reelected',
                      epoch_state'[f].settled
               PROVE  epoch_state'[f].merkle_root =
                        RootFrom(aged'[f], electionsForRound(f)',
                                 epoch_state'[f].allowed)
    BY DEF AnchorsStand, RootAt
  <2>1. f # e /\ f \notin reelected /\ epoch_state'[f] = epoch_state[f]
    BY <1>1, <1>8
  <2>2. epoch_state[f].merkle_root = RootAt(f, epoch_state[f].allowed)
    BY <1>1, <2>1 DEF Inv, RootsStand, AnchorsStand
  <2> QED
    BY <1>4, <2>1, <2>2
<1>10. JobRoot'
  <2> SUFFICES ASSUME job # Idle
               PROVE  JobRoot'
    BY <1>1 DEF JobRoot
  <2> DEFINE f == job.plan.epochIndex
  <2>1. f \in Epochs /\ job.at \in {"built", "working"}
    BY DEF Inv, JobShape
  <2>2. /\ job.plan.merkleRoot = RootOf(job.plan.entries)
        /\ f \notin reelected =>
             /\ job.at = "built" =>
                  job.plan.merkleRoot = RootAt(f, job.allowed)
             /\ job.at = "working" =>
                  job.plan.merkleRoot = epoch_state[f].merkle_root
    BY DEF Inv, RootsStand, JobRoot
  <2>3. Begun(f)
    BY <2>1 DEF Inv, PlanFits, Begun
  <2>4. f \notin reelected' => f # e /\ f \notin reelected
    BY <1>1, <2>3
  <2>5. f # e => RootAt(job.plan.epochIndex, job.allowed)'
                   = RootAt(f, job.allowed)
    BY <1>1, <1>4, <2>1 DEF RootAt
  <2> QED
    BY <1>1, <2>2, <2>4, <2>5 DEF JobRoot
<1> QED
  BY <1>5, <1>6, <1>7, <1>9, <1>10 DEF Inv, RootsStand


(* A change of a counter of an epoch keeps what was frozen. *)
LEMMA CounterKept ==
  ASSUME NEW r, Whole(r), NEW x
  PROVE  /\ Whole([r EXCEPT !.swapped_in = x])
         /\ Whole([r EXCEPT !.buckets_complete = x])
         /\ \A t \in {[r EXCEPT !.swapped_in = x],
                      [r EXCEPT !.buckets_complete = x]} :
              /\ t.settled = r.settled
              /\ t.payout_amount = r.payout_amount
              /\ t.merkle_root = r.merkle_root
              /\ t.allowed = r.allowed
<1>1. [r EXCEPT !.swapped_in = x] =
        [settled |-> r.settled, payout_amount |-> r.payout_amount,
         swapped_in |-> x, merkle_root |-> r.merkle_root,
         bucket_count |-> r.bucket_count,
         buckets_complete |-> r.buckets_complete, allowed |-> r.allowed]
  BY DEF Whole
<1>2. [r EXCEPT !.buckets_complete = x] =
        [settled |-> r.settled, payout_amount |-> r.payout_amount,
         swapped_in |-> r.swapped_in, merkle_root |-> r.merkle_root,
         bucket_count |-> r.bucket_count,
         buckets_complete |-> x, allowed |-> r.allowed]
  BY DEF Whole
<1> QED
  BY <1>1, <1>2 DEF Whole

(* And so do the batches of a bucket what it was given. *)
LEMMA BatchKept ==
  ASSUME NEW b, WholeBucket(b), b.amount_in \in Nat, NEW n, NEW full
  PROVE  LET t == [[b EXCEPT !.cursor = n] EXCEPT !.complete = full] IN
         WholeBucket(t) /\ t.amount_in \in Nat
<1> DEFINE c == [b EXCEPT !.cursor = n]
           t == [c EXCEPT !.complete = full]
<1>1. c = [swapped |-> b.swapped, amount_in |-> b.amount_in,
           recipient_count |-> b.recipient_count, cursor |-> n,
           complete |-> b.complete]
  BY DEF WholeBucket
<1> HIDE DEF c
<1>2. t = [swapped |-> b.swapped, amount_in |-> b.amount_in,
           recipient_count |-> b.recipient_count, cursor |-> n,
           complete |-> full]
  BY <1>1
<1> HIDE DEF t
<1>3. WholeBucket(t) /\ t.amount_in \in Nat
  BY <1>2 DEF WholeBucket
<1> QED
  BY <1>3 DEF t, c

(* The epoch's record after a swap or a batch. *)
EpochCounted(e) ==
  \E x : epoch_state' = [epoch_state EXCEPT ![e].swapped_in = x]
         \/ epoch_state' = [epoch_state EXCEPT ![e].buckets_complete = x]

LEMMA CountedKeeps ==
  ASSUME Shapes, NEW e \in Epochs, EpochCounted(e)
  PROVE  /\ epoch_state' = [f \in Epochs |-> epoch_state'[f]]
         /\ \A f \in Epochs :
              /\ Whole(epoch_state'[f])
              /\ epoch_state'[f].payout_amount \in Nat
              /\ epoch_state'[f].settled = epoch_state[f].settled
              /\ epoch_state'[f].payout_amount = epoch_state[f].payout_amount
              /\ epoch_state'[f].merkle_root = epoch_state[f].merkle_root
              /\ epoch_state'[f].allowed = epoch_state[f].allowed
<1>1. PICK x :
        \/ epoch_state' = [epoch_state EXCEPT ![e].swapped_in = x]
        \/ epoch_state' = [epoch_state EXCEPT ![e].buckets_complete = x]
  BY DEF EpochCounted
<1>2. /\ epoch_state' = [f \in Epochs |-> epoch_state'[f]]
      /\ \A f \in Epochs \ {e} : epoch_state'[f] = epoch_state[f]
      /\ epoch_state'[e] \in {[epoch_state[e] EXCEPT !.swapped_in = x],
                              [epoch_state[e] EXCEPT !.buckets_complete = x]}
  BY <1>1 DEF Shapes
<1>3. \A f \in Epochs : Whole(epoch_state[f])
                        /\ epoch_state[f].payout_amount \in Nat
  BY DEF Shapes
<1>4. /\ Whole(epoch_state'[e])
      /\ epoch_state'[e].settled = epoch_state[e].settled
      /\ epoch_state'[e].payout_amount = epoch_state[e].payout_amount
      /\ epoch_state'[e].merkle_root = epoch_state[e].merkle_root
      /\ epoch_state'[e].allowed = epoch_state[e].allowed
  <2> DEFINE r == epoch_state[e]
  <2>1. Whole(r)
    BY <1>3
  <2> HIDE DEF r
  <2>2. /\ Whole([r EXCEPT !.swapped_in = x])
        /\ Whole([r EXCEPT !.buckets_complete = x])
        /\ \A t \in {[r EXCEPT !.swapped_in = x],
                     [r EXCEPT !.buckets_complete = x]} :
             /\ t.settled = r.settled
             /\ t.payout_amount = r.payout_amount
             /\ t.merkle_root = r.merkle_root
             /\ t.allowed = r.allowed
    BY <2>1, CounterKept
  <2>3. epoch_state'[e] \in {[r EXCEPT !.swapped_in = x],
                             [r EXCEPT !.buckets_complete = x]}
    BY <1>2 DEF r
  <2>4. Whole(epoch_state'[e])
    BY <2>2, <2>3
  <2> QED
    BY <2>2, <2>3, <2>4 DEF r
<1> QED
  BY <1>2, <1>3, <1>4

(* A step of the job in hand that changes a bucket and a counter, and      *)
(* spends what the account has. *)
LEMMA BucketStepKeeps ==
  ASSUME Inv, job.at = "working", EpochCounted(job.plan.epochIndex),
         UNCHANGED <<aged, elections, published, reelected>>,
         payout_wsol' \in Nat,
         bucket_state' = [k \in Epochs \X Mints |-> bucket_state'[k]],
         \A k \in Epochs \X Mints : WholeBucket(bucket_state'[k])
                                    /\ bucket_state'[k].amount_in \in Nat,
         job' = Idle \/ \E l : job' = [job EXCEPT !.landed = l]
  PROVE  Inv'
<1>1. /\ job # Idle /\ job.plan.epochIndex \in Epochs
      /\ job = Work("working", job.plan, job.landed, job.allowed)
  BY AtIsNotIdle DEF Inv, JobShape
<1>2. /\ epoch_state' = [f \in Epochs |-> epoch_state'[f]]
      /\ \A f \in Epochs :
           /\ Whole(epoch_state'[f])
           /\ epoch_state'[f].payout_amount \in Nat
           /\ epoch_state'[f].settled = epoch_state[f].settled
           /\ epoch_state'[f].payout_amount = epoch_state[f].payout_amount
           /\ epoch_state'[f].merkle_root = epoch_state[f].merkle_root
           /\ epoch_state'[f].allowed = epoch_state[f].allowed
  BY <1>1, CountedKeeps DEF Inv
<1>3. job' # Idle =>
        /\ job' = Work("working", job.plan, job'.landed, job.allowed)
        /\ job'.at = job.at /\ job'.plan = job.plan
        /\ job'.allowed = job.allowed
  <2> SUFFICES ASSUME NEW l, job' = [job EXCEPT !.landed = l]
               PROVE  <1>3!2
    OBVIOUS
  <2>1. job' = Work("working", job.plan, l, job.allowed)
    BY <1>1 DEF Work
  <2>2. /\ job'.landed = l /\ job'.at = "working" /\ job'.plan = job.plan
        /\ job'.allowed = job.allowed
    BY <2>1, WorkIsNotIdle
  <2> QED
    BY <2>1, <2>2
<1>4. Shapes'
  <2>1. \A f \in Epochs : Whole(epoch_state[f])'
                          /\ epoch_state'[f].payout_amount \in Nat
    BY <1>2 DEF Whole
  <2>2. \A k \in Epochs \X Mints : WholeBucket(bucket_state[k])'
                                   /\ bucket_state'[k].amount_in \in Nat
    BY DEF WholeBucket
  <2> QED
    BY <1>2, <2>1, <2>2 DEF Inv, Shapes
<1>5. JobShape'
  BY <1>1, <1>3 DEF JobShape
<1>6. Aside
  BY <1>1, <1>2, <1>3 DEF Aside
<1> QED
  BY <1>4, <1>5, <1>6, AsideKeeps DEF Inv, Shapes

LEMMA SwapKeeps ==
  ASSUME Inv, NEW m \in Mints, SwapBucket(m)
  PROVE  Inv'
<1> DEFINE e == job.plan.epochIndex
           amount == job.plan.buckets[m].amountIn
           args == swapPayoutIx(job.plan, m, Target(m))
           out == Target(m)
           new == [swapped |-> TRUE, amount_in |-> amount,
                   recipient_count |-> args.recipient_count, cursor |-> 0,
                   complete |-> FALSE]
<1>1. /\ job.at = "working"
      /\ m \in DOMAIN job.plan.buckets
      /\ swap_payout(args)
      /\ UNCHANGED <<aged, elections, published, reelected>>
  BY DEF SwapBucket, service
<1>2. args.epoch_index = e /\ args.out_mint = out /\ args.amount_in = amount
  BY DEF swapPayoutIx
<1>3. job' = Idle \/ \E l : job' = [job EXCEPT !.landed = l]
  BY DEF SwapBucket, Forget
<1>4. job # Idle
  BY <1>1, AtIsNotIdle
<1>5. amount \in Nat /\ payout_wsol \in Nat
  BY <1>1, <1>4 DEF Inv, Shapes, PlanFits, Fits
<1> HIDE DEF args, out, amount
<1>6. /\ EpochCounted(e)
      /\ amount <= payout_wsol
      /\ payout_wsol' = payout_wsol \/ payout_wsol' = payout_wsol - amount
      /\ bucket_state' = [bucket_state EXCEPT ![<<e, out>>] = new]
  BY <1>1, <1>2 DEF swap_payout, SwapAccepted, EpochCounted
<1>7. payout_wsol' \in Nat
  BY <1>5, <1>6
<1>8. WholeBucket(new) /\ new.amount_in \in Nat
  BY <1>5 DEF WholeBucket
<1> HIDE DEF new
<1>9. /\ bucket_state' = [k \in Epochs \X Mints |-> bucket_state'[k]]
      /\ \A k \in Epochs \X Mints :
           bucket_state'[k] \in {new, bucket_state[k]}
  BY <1>6 DEF Inv, Shapes
<1>10. \A k \in Epochs \X Mints : WholeBucket(bucket_state'[k])
                                  /\ bucket_state'[k].amount_in \in Nat
  BY <1>8, <1>9 DEF Inv, Shapes
<1> QED
  BY <1>1, <1>3, <1>6, <1>7, <1>9, <1>10, BucketStepKeeps

LEMMA DistributeKeeps ==
  ASSUME RoundAssumption, Inv, NEW m \in Mints, Distribute(m)
  PROVE  Inv'
<1> DEFINE e == job.plan.epochIndex
           n == Cardinality(job.plan.buckets[m].recipients)
           out == job.landed[m]
           b == bucket_state[<<e, out>>]
           full == n = b.recipient_count
<1>1. /\ job.at = "working"
      /\ distribute(e, out, n)
      /\ UNCHANGED <<aged, elections, published, reelected, job>>
  BY DEF Distribute, service
<1>2. job # Idle /\ e \in Epochs
  BY <1>1, AtIsNotIdle DEF Inv, JobShape
<1>3. EpochCounted(e)
  <2>1. epoch_state' = [epoch_state EXCEPT ![e].buckets_complete =
                          IF full THEN epoch_state[e].buckets_complete + 1
                          ELSE epoch_state[e].buckets_complete]
    BY <1>1 DEF distribute
  <2> QED
    BY <2>1 DEF EpochCounted
<1>4. payout_wsol' \in Nat
  <2>1. CASE out = wsolMint
    <3>1. <<e, out>> \in Epochs \X Mints
      BY <1>2, <2>1 DEF RoundAssumption
    <3>2. b.amount_in \in Nat /\ payout_wsol \in Nat
      BY <3>1 DEF Inv, Shapes
    <3>3. b.amount_in <= payout_wsol /\ payout_wsol' = payout_wsol - b.amount_in
      BY <1>1, <2>1 DEF distribute
    <3> QED
      BY <3>2, <3>3
  <2>2. CASE out # wsolMint
    BY <1>1, <2>2 DEF distribute, Inv, Shapes
  <2> QED
    BY <2>1, <2>2
<1>5. bucket_state' = [bucket_state EXCEPT ![<<e, out>>].cursor = n,
                                           ![<<e, out>>].complete = full]
  BY <1>1 DEF distribute
<1> DEFINE next(c) == [[c EXCEPT !.cursor = n] EXCEPT !.complete = full]
<1>6. \A k \in Epochs \X Mints :
        bucket_state'[k] \in {next(bucket_state[k]), bucket_state[k]}
  BY <1>5 DEF Inv, Shapes
<1>7. bucket_state' = [k \in Epochs \X Mints |-> bucket_state'[k]]
  BY <1>5 DEF Inv, Shapes
<1>8. ASSUME NEW c, WholeBucket(c), c.amount_in \in Nat
      PROVE  WholeBucket(next(c)) /\ next(c).amount_in \in Nat
  BY <1>8, BatchKept
<1> HIDE DEF next
<1>9. \A k \in Epochs \X Mints : WholeBucket(bucket_state'[k])
                                 /\ bucket_state'[k].amount_in \in Nat
  BY <1>6, <1>8 DEF Inv, Shapes
<1>10. job' = [job EXCEPT !.landed = job.landed]
  <2>1. job = Work("working", job.plan, job.landed, job.allowed)
    BY <1>1, <1>2 DEF Inv, JobShape
  <2> QED
    BY <1>1, <2>1 DEF Work
<1> QED
  BY <1>1, <1>3, <1>4, <1>7, <1>9, <1>10, BucketStepKeeps

LEMMA NextKeeps ==
  ASSUME RoundAssumption, Inv, [Next]_vars
  PROVE  Inv'
<1>1. CASE Build
  BY <1>1, BuildKeeps
<1>2. CASE Settle
  BY <1>2, SettleKeeps
<1>3. CASE Publish
  BY <1>3, PublishKeeps
<1>4. CASE Crash
  BY <1>4, CrashKeeps
<1>5. ASSUME NEW e \in Epochs, Resume(e)
      PROVE  Inv'
  BY <1>5, ResumeKeeps
<1>6. ASSUME NEW e \in Epochs, Index(e)
      PROVE  Inv'
  <2>1. Elsewhere
    BY <1>6 DEF Index, Elsewhere, chain, aux
  <2> QED
    BY <2>1, ElsewhereKeeps
<1>7. ASSUME NEW m \in Mints, SwapBucket(m)
      PROVE  Inv'
  BY <1>7, SwapKeeps
<1>8. ASSUME NEW m \in Mints, Distribute(m)
      PROVE  Inv'
  BY <1>8, DistributeKeeps
<1>9. CASE Tick
  <2>1. Elsewhere
    BY <1>9 DEF Tick, Elsewhere, service, aux
  <2> QED
    BY <2>1, ElsewhereKeeps
<1>10. CASE Credit
  BY <1>10, CreditKeeps
<1>11. CASE ApplyProposal
  <2>1. Elsewhere
    BY <1>11 DEF ApplyProposal, Elsewhere, service, aux
  <2> QED
    BY <2>1, ElsewhereKeeps
<1>12. ASSUME NEW m \in Degrading, Route(m)
       PROVE  Inv'
  <2>1. Elsewhere
    BY <1>12 DEF Route, Elsewhere, chain, service, aux
  <2> QED
    BY <2>1, ElsewhereKeeps
<1>13. ASSUME NEW message \in Message, Elect(message)
       PROVE  Inv'
  <2>1. Elsewhere
    BY <1>13 DEF Elect, Elsewhere, chain, aux
  <2> QED
    BY <2>1, ElsewhereKeeps
<1>14. ASSUME NEW message \in Message, SubmitElection(message)
       PROVE  Inv'
  BY <1>14, SubmitKeeps
<1>15. CASE UNCHANGED vars
  <2>1. Elsewhere
    BY <1>15 DEF vars, Elsewhere, chain, service, aux
  <2> QED
    BY <2>1, ElsewhereKeeps
<1>16. CASE Finish
  BY <1>16, FinishKeeps
<1> QED
  BY <1>1, <1>2, <1>3, <1>4, <1>5, <1>6, <1>7, <1>8, <1>9, <1>10, <1>11,
     <1>12, <1>13, <1>14, <1>15, <1>16 DEF Next

THEOREM InvCorrect == Spec => []Inv
<1>1. Init => Inv
  BY InitInv, RoundAssumption
<1>2. Inv /\ [Next]_vars => Inv'
  BY NextKeeps, RoundAssumption
<1> QED
  BY <1>1, <1>2, PTL DEF Spec

(* For any number of wallets, epochs and crashes, every list and every     *)
(* amount: a published file verifies against the root on chain, also when  *)
(* the plan was built again.                                               *)
THEOREM FileVerifiesCorrect == Spec => []FileVerifies
<1>1. Inv => FileVerifies
  BY DEF Inv, RootsStand
<1> QED
  BY <1>1, InvCorrect, PTL

(* For any weights and amounts: the buckets of a plan and the shares it    *)
(* drops fit the frozen amount, and rounding leaves over less than a unit  *)
(* for each wallet.                                                        *)
THEOREM FitsFrozenCorrect == Spec => []FitsFrozen
<1>1. Inv => FitsFrozen
  <2> SUFFICES ASSUME Inv, job.at = "working"
               PROVE  /\ Given(job.plan) <=
                           epoch_state[job.plan.epochIndex].payout_amount
                      /\ Who(job.plan) # {} =>
                           job.plan.payoutAmount - Given(job.plan)
                             < Cardinality(Who(job.plan))
    BY DEF FitsFrozen
  <2> DEFINE plan == job.plan
             frozen == epoch_state[plan.epochIndex].payout_amount
  <2>1. /\ Fits(plan) /\ plan.payoutAmount <= frozen
        /\ frozen \in Nat
    BY AtIsNotIdle DEF Inv, JobShape, PlanFits, Shapes
  <2>2. Given(plan) <= frozen
    BY <2>1 DEF Fits
  <2>3. Who(plan) # {} =>
          plan.payoutAmount - Given(plan) < Cardinality(Who(plan))
    BY <2>1 DEF Fits
  <2> QED
    BY <2>2, <2>3
<1> QED
  BY <1>1, InvCorrect, PTL

----------------------------------------------------------------------------
(* What a plan promises, and what more money adds to it.                   *)

(* The sum over fewer accounts, of no larger amounts, is no larger. *)
LEMMA PartLess ==
  ASSUME NEW U, IsFiniteSet(U), NEW T \in SUBSET U, NEW f, NEW g,
         \A k \in T : f[k] \in Nat /\ f[k] <= g[k],
         \A k \in U : g[k] \in Nat
  PROVE  /\ Part(f, T) \in Nat
         /\ Part(g, U) \in Nat
         /\ Part(f, T) <= Part(g, U)
<1> DEFINE few == [k \in T |-> f[k]]
           more == [k \in T |-> g[k]]
           all == [k \in U |-> g[k]]
<1>1. IsFiniteSet(T)
  BY FS_Subset
<1>2. few \in [T -> Nat] /\ more \in [T -> Nat] /\ all \in [U -> Nat]
  OBVIOUS
<1>3. \A k \in T : few[k] <= more[k]
  OBVIOUS
<1>4. [k \in T |-> all[k]] = more
  OBVIOUS
<1>5. Part(f, T) = Total(few) /\ Part(g, U) = Total(all)
      /\ Part(all, T) = Total(more)
  BY <1>4 DEF Part
<1> HIDE DEF few, more, all
<1>6. Total(few) \in Nat /\ Total(more) \in Nat /\ Total(all) \in Nat
  BY <1>1, <1>2, UnitsFinite
<1>7. Total(few) <= Total(more)
  BY <1>1, <1>2, <1>3, TotalMonotone
<1>8. Part(all, U \ T) \in Nat /\ Part(all, T) + Part(all, U \ T) = Total(all)
  BY <1>2, TotalSplit
<1> QED
  BY <1>5, <1>6, <1>7, <1>8

(* One account more. *)
LEMMA PartAdd ==
  ASSUME NEW T, IsFiniteSet(T), NEW m, m \notin T, NEW f,
         \A k \in T \cup {m} : f[k] \in Nat
  PROVE  /\ Part(f, T) \in Nat
         /\ Part(f, T \cup {m}) = Part(f, T) + f[m]
<1> DEFINE U == T \cup {m}
           all == [k \in U |-> f[k]]
           one == [k \in {m} |-> f[k]]
<1>1. IsFiniteSet(U)
  BY FS_AddElement
<1>2. all \in [U -> Nat] /\ T \in SUBSET U
  OBVIOUS
<1>3. /\ [k \in T |-> all[k]] = [k \in T |-> f[k]]
      /\ [k \in {m} |-> all[k]] = one
      /\ U \ T = {m}
  OBVIOUS
<1>4. /\ Part(all, T) = Part(f, T) /\ Part(all, U \ T) = Total(one)
      /\ Total(all) = Part(f, U)
  BY <1>3 DEF Part
<1>5. Units(one) = {m} \X (1 .. f[m])
  BY DEF Units
<1>6. Total(one) = f[m]
  BY <1>5, UnitsOfOne DEF Total
<1> HIDE DEF U, all, one
<1>7. Part(all, T) \in Nat /\ Part(all, T) + Part(all, U \ T) = Total(all)
  BY <1>1, <1>2, TotalSplit
<1> QED
  BY <1>4, <1>6, <1>7 DEF U

Into(in, m) == {w \in Paid(in) : resolveAsset(in, w) = m}

Amounts(plan) == [m \in DOMAIN plan.buckets |-> plan.buckets[m].amountIn]

(* What build gives a bucket. *)
LEMMA BuildBuckets ==
  ASSUME NEW in
  PROVE  /\ DOMAIN build(in).buckets = {resolveAsset(in, w) : w \in Paid(in)}
         /\ \A m \in DOMAIN build(in).buckets :
              /\ build(in).buckets[m].amountIn =
                   Part(Shares(Weights(in), in.payoutAmount), Into(in, m))
              /\ build(in).buckets[m].recipients = Into(in, m)
         /\ build(in).droppedSubRent = Eligible(in) \ Paid(in)
         /\ build(in).entries = Entries(in)
BY DEF build, Into

(* Each bucket has someone to pay, and something; all of them together are *)
(* within the amount. *)
LEMMA BuildPays ==
  ASSUME NEW in, in.aged \in [Wallets -> Nat], IsFiniteSet(Wallets),
         in.payoutAmount \in Nat, in.minShareLamports \in Nat \ {0}
  PROVE  LET plan == build(in) IN
         /\ IsFiniteSet(DOMAIN plan.buckets)
         /\ Amounts(plan) \in [DOMAIN plan.buckets -> Nat]
         /\ Total(Amounts(plan)) <= in.payoutAmount
         /\ \A m \in DOMAIN plan.buckets :
              /\ plan.buckets[m].amountIn > 0
              /\ Cardinality(plan.buckets[m].recipients) \in Nat \ {0}
<1> DEFINE share == Shares(Weights(in), in.payoutAmount)
           plan == build(in)
           asset == [w \in Paid(in) |-> resolveAsset(in, w)]
           M == {resolveAsset(in, w) : w \in Paid(in)}
<1>1. /\ DOMAIN plan.buckets = M
      /\ \A m \in DOMAIN plan.buckets :
           /\ plan.buckets[m].amountIn = Part(share, Into(in, m))
           /\ plan.buckets[m].recipients = Into(in, m)
  BY BuildBuckets
<1>2. plan.droppedShareLamports = Part(share, Eligible(in) \ Paid(in))
  BY DEF build
<1>3. Fits(plan) /\ plan.payoutAmount = in.payoutAmount
  BY BuildFits
<1>4. /\ IsFiniteSet(Eligible(in)) /\ IsFiniteSet(Paid(in))
      /\ Weights(in) \in [Eligible(in) -> Nat \ {0}]
      /\ Paid(in) \in SUBSET Eligible(in)
  BY EligibleWeights
<1>5. share \in [Eligible(in) -> Nat]
  BY <1>4, SharesFit
<1>6. \A w \in Paid(in) : share[w] >= in.minShareLamports
  BY DEF Paid
<1> HIDE DEF share, plan
<1>7. asset \in Surjection(Paid(in), M)
  BY DEF Surjection
<1>8. IsFiniteSet(M)
  BY <1>4, <1>7, FS_Surjection
<1> HIDE DEF M, asset
<1>9. Part(share, Eligible(in) \ Paid(in)) \in Nat
  BY <1>4, <1>5, TotalSplit
<1>10. Amounts(plan) \in [DOMAIN plan.buckets -> Nat]
  BY <1>3 DEF Amounts, Fits
<1>11. Total(Amounts(plan)) \in Nat
  BY <1>1, <1>8, <1>10, UnitsFinite
<1>12. Total(Amounts(plan)) <= in.payoutAmount
  BY <1>2, <1>3, <1>9, <1>11 DEF Fits, Given, Amounts
<1>13. ASSUME NEW m \in DOMAIN plan.buckets
       PROVE  /\ plan.buckets[m].amountIn > 0
              /\ Cardinality(plan.buckets[m].recipients) \in Nat \ {0}
  <2>1. PICK w \in Into(in, m) : TRUE
    BY <1>1, <1>13 DEF M, Into
  <2>2. Into(in, m) \in SUBSET Paid(in)
    BY DEF Into
  <2>3. IsFiniteSet(Into(in, m))
    BY <1>4, <2>2, FS_Subset
  <2>4. Cardinality(Into(in, m)) \in Nat \ {0}
    BY <2>1, <2>3, FS_EmptySet, FS_CardinalityType
  <2>5. share[w] \in Nat /\ share[w] > 0
    BY <1>4, <1>5, <1>6, <2>1, <2>2
  <2>6. \A k \in Into(in, m) : share[k] \in Nat
    BY <1>4, <1>5, <2>2
  <2>7. Part(share, {}) \in Nat /\ Part(share, {} \cup {w}) = Part(share, {}) + share[w]
    BY <2>5, FS_EmptySet, PartAdd, Zenon
  <2>8. Part(share, {w}) <= Part(share, Into(in, m))
        /\ Part(share, Into(in, m)) \in Nat
    BY <2>1, <2>3, <2>5, <2>6, PartLess
  <2>9. Part(share, Into(in, m)) > 0
    BY <2>5, <2>7, <2>8
  <2> QED
    BY <1>1, <2>4, <2>9
<1> QED
  BY <1>1, <1>8, <1>10, <1>12, <1>13 DEF plan

(* A larger amount has no smaller quotient. *)
LEMMA LargerQuotient ==
  ASSUME NEW d \in Nat, d > 0, NEW x \in Nat, NEW y \in Nat, x <= y
  PROVE  x \div d <= y \div d
<1> DEFINE p == x \div d
           q == y \div d
<1>1. /\ p \in Nat /\ q \in Nat
      /\ d * p <= x /\ y + 1 <= d * (q + 1)
  BY Divided
<1> HIDE DEF p, q
<1>2. d * p \in Int /\ d * (q + 1) \in Int
  BY <1>1
<1>3. d * p < d * (q + 1)
  <2> DEFINE left == d * p
             right == d * (q + 1)
  <2>1. left \in Int /\ right \in Int /\ left <= x /\ y + 1 <= right
    BY <1>1, <1>2
  <2> HIDE DEF left, right
  <2>2. left < right
    BY <2>1
  <2> QED
    BY <2>2 DEF left, right
<1>4. p < q + 1
  <2>1. p \in Int /\ q + 1 \in Int
    BY <1>1
  <2> QED
    BY <1>3, <2>1, LessTimes
<1>5. p <= q
  BY <1>1, <1>4
<1> QED
  BY <1>5 DEF p, q

(* More money takes no bucket away, and gives none less. *)
LEMMA BuildGrows ==
  ASSUME NEW a, NEW b, a.aged \in [Wallets -> Nat], IsFiniteSet(Wallets),
         a.payoutAmount \in Nat, b.payoutAmount \in Nat,
         a.payoutAmount <= b.payoutAmount,
         a.minShareLamports \in Nat \ {0},
         a.aged = b.aged, a.supply = b.supply, a.capBps = b.capBps,
         a.elections = b.elections, a.allowlist = b.allowlist,
         a.defaultPayoutMint = b.defaultPayoutMint, a.usdcMint = b.usdcMint,
         a.minShareLamports = b.minShareLamports
  PROVE  /\ DOMAIN build(a).buckets \subseteq DOMAIN build(b).buckets
         /\ \A m \in DOMAIN build(a).buckets :
              build(a).buckets[m].amountIn <= build(b).buckets[m].amountIn
<1> DEFINE S == Eligible(a)
           W == Total(Weights(a))
           x == Shares(Weights(a), a.payoutAmount)
           y == Shares(Weights(b), b.payoutAmount)
<1>1. Eligible(b) = S /\ Weights(b) = Weights(a)
  BY DEF Eligible, Weights
<1>2. \A w : resolveAsset(a, w) = resolveAsset(b, w)
  BY DEF resolveAsset
<1>3. /\ IsFiniteSet(S) /\ Weights(a) \in [S -> Nat \ {0}]
      /\ Paid(a) \in SUBSET S /\ IsFiniteSet(Paid(a))
  BY EligibleWeights
<1>4. IsFiniteSet(Paid(b)) /\ Paid(b) \in SUBSET S
  <2>1. b.aged \in [Wallets -> Nat]
    OBVIOUS
  <2> QED
    BY <1>1, <2>1, EligibleWeights
<1>5. x \in [S -> Nat] /\ y \in [S -> Nat]
  BY <1>1, <1>3, SharesFit
<1>6. ASSUME NEW w \in S
      PROVE  x[w] <= y[w]
  <2> DEFINE p == Weights(a)[w] * a.payoutAmount
             q == Weights(a)[w] * b.payoutAmount
  <2>1. Weights(a) \in [S -> Nat] /\ Weights(a)[w] \in Nat \ {0}
    BY <1>3
  <2>2. W \in Nat /\ W > 0
    <3>1. Part(Weights(a), {}) \in Nat
          /\ Part(Weights(a), {} \cup {w}) =
               Part(Weights(a), {}) + Weights(a)[w]
      BY <2>1, FS_EmptySet, PartAdd, Zenon
    <3>2. Part(Weights(a), {w}) <= Part(Weights(a), S)
          /\ Part(Weights(a), S) \in Nat
      BY <1>3, <2>1, PartLess
    <3>3. Weights(a) = [k \in S |-> Weights(a)[k]]
      BY <1>3
    <3>4. Part(Weights(a), S) = W
      BY <3>3 DEF Part
    <3> QED
      BY <2>1, <3>1, <3>2, <3>4
  <2>3. p \in Nat /\ q \in Nat /\ p <= q
    <3> DEFINE k == Weights(a)[w]
               d == b.payoutAmount - a.payoutAmount
    <3>1. k \in Nat /\ d \in Nat /\ b.payoutAmount = a.payoutAmount + d
      BY <2>1
    <3> HIDE DEF k, d
    <3>2. k * (a.payoutAmount + d) = k * a.payoutAmount + k * d
          /\ k * d \in Nat /\ k * a.payoutAmount \in Nat
      BY <3>1
    <3>3. k * a.payoutAmount <= k * (a.payoutAmount + d)
          /\ k * (a.payoutAmount + d) \in Nat
      BY <3>2
    <3> QED
      BY <3>1, <3>2, <3>3 DEF k
  <2>4. w \in DOMAIN Weights(a) /\ x[w] = p \div W /\ y[w] = q \div W
    BY <1>1, <1>3 DEF Shares
  <2> HIDE DEF p, q, W, x, y
  <2>5. p \div W <= q \div W
    BY <2>2, <2>3, LargerQuotient
  <2> QED
    BY <2>4, <2>5
<1>7. /\ \A w \in Paid(a) : x[w] >= a.minShareLamports
      /\ \A w \in S : y[w] >= a.minShareLamports => w \in Paid(b)
  BY <1>1 DEF Paid
<1>8. /\ DOMAIN build(a).buckets = {resolveAsset(a, w) : w \in Paid(a)}
      /\ \A m \in DOMAIN build(a).buckets :
           build(a).buckets[m].amountIn = Part(x, Into(a, m))
      /\ DOMAIN build(b).buckets = {resolveAsset(b, w) : w \in Paid(b)}
      /\ \A m \in DOMAIN build(b).buckets :
           build(b).buckets[m].amountIn = Part(y, Into(b, m))
  BY BuildBuckets
<1> HIDE DEF x, y, S
<1>9. Paid(a) \subseteq Paid(b)
  <2> SUFFICES ASSUME NEW w \in Paid(a)
               PROVE  w \in Paid(b)
    OBVIOUS
  <2>1. w \in S /\ x[w] \in Nat /\ y[w] \in Nat /\ x[w] <= y[w]
    BY <1>3, <1>5, <1>6
  <2>2. y[w] >= a.minShareLamports
    BY <1>7, <2>1
  <2> QED
    BY <1>7, <2>1, <2>2
<1>10. DOMAIN build(a).buckets \subseteq DOMAIN build(b).buckets
  BY <1>2, <1>8, <1>9
<1>11. ASSUME NEW m \in DOMAIN build(a).buckets
       PROVE  build(a).buckets[m].amountIn <= build(b).buckets[m].amountIn
  <2>1. Into(a, m) \in SUBSET Into(b, m) /\ Into(b, m) \in SUBSET Paid(b)
    BY <1>2, <1>9 DEF Into
  <2>2. IsFiniteSet(Into(b, m))
    BY <1>4, <2>1, FS_Subset
  <2>3. \A k \in Into(b, m) : k \in S /\ y[k] \in Nat
    BY <1>4, <1>5, <2>1
  <2>4. \A k \in Into(a, m) : x[k] \in Nat /\ x[k] <= y[k]
    BY <1>5, <1>6, <2>1, <2>3
  <2>5. Part(x, Into(a, m)) <= Part(y, Into(b, m))
    BY <2>1, <2>2, <2>3, <2>4, PartLess
  <2> QED
    BY <1>8, <1>10, <2>5
<1> QED
  BY <1>10, <1>11

(* Each of a finite set of numbers has its place in their order. *)
LEMMA OrderHasEach ==
  ASSUME NEW S \in SUBSET Nat, IsFiniteSet(S)
  PROVE  /\ \A w \in S : \E i \in DOMAIN InOrder(S) : InOrder(S)[i] = w
         /\ \A i \in DOMAIN InOrder(S) : InOrder(S)[i] \in S
BY Ranked DEF InOrder

(* The file of a plan says of exactly those wallets that they were paid    *)
(* that the plan's buckets pay. *)
LEMMA FilePays ==
  ASSUME NEW in, in.aged \in [Wallets -> Nat], IsFiniteSet(Wallets),
         Wallets \subseteq Nat, NEW w
  PROVE  LET plan == build(in)
             file == buildRoundFile(plan) IN
         (\E i \in DOMAIN file.entries :
            file.entries[i].wallet = w /\ ~file.entries[i].dropped)
           <=> (\E m \in DOMAIN plan.buckets : w \in plan.buckets[m].recipients)
<1> DEFINE plan == build(in)
           file == buildRoundFile(plan)
           S == Eligible(in)
           order == InOrder(S)
<1>1. S \in SUBSET Nat /\ IsFiniteSet(S) /\ Paid(in) \in SUBSET S
  BY EligibleWeights DEF Eligible
<1>2. /\ plan.entries = Entries(in)
      /\ plan.droppedSubRent = S \ Paid(in)
      /\ DOMAIN plan.buckets = {resolveAsset(in, x) : x \in Paid(in)}
      /\ \A m \in DOMAIN plan.buckets :
           plan.buckets[m].recipients = Into(in, m)
  BY BuildBuckets
<1>3. /\ DOMAIN Entries(in) = DOMAIN order
      /\ \A i \in DOMAIN order : Entries(in)[i].wallet = order[i]
  BY DEF Entries
<1>4. /\ DOMAIN file.entries = DOMAIN plan.entries
      /\ \A i \in DOMAIN plan.entries :
           /\ file.entries[i].wallet = plan.entries[i].wallet
           /\ file.entries[i].dropped =
                (plan.entries[i].wallet \in plan.droppedSubRent)
  <2> HIDE DEF plan
  <2> QED
    BY DEF buildRoundFile
<1> HIDE DEF plan, file, S
<1>5. /\ \A x \in S : \E i \in DOMAIN order : order[i] = x
      /\ \A i \in DOMAIN order : order[i] \in S
  BY <1>1, OrderHasEach
<1> HIDE DEF order
<1>6. (\E i \in DOMAIN file.entries :
         file.entries[i].wallet = w /\ ~file.entries[i].dropped)
        <=> w \in Paid(in)
  <2>1. /\ DOMAIN file.entries = DOMAIN order
        /\ \A i \in DOMAIN order :
             /\ file.entries[i].wallet = order[i]
             /\ file.entries[i].dropped = (order[i] \in S \ Paid(in))
    BY <1>2, <1>3, <1>4
  <2>2. ASSUME NEW i \in DOMAIN order
        PROVE  ~file.entries[i].dropped <=> order[i] \in Paid(in)
    BY <1>5, <2>1
  <2>3. ASSUME w \in Paid(in)
        PROVE  \E i \in DOMAIN order : order[i] = w
    BY <1>1, <1>5, <2>3
  <2> QED
    BY <2>1, <2>2, <2>3
<1>7. (\E m \in DOMAIN plan.buckets : w \in plan.buckets[m].recipients)
        <=> w \in Paid(in)
  BY <1>2 DEF Into
<1> QED
  BY <1>6, <1>7 DEF plan, file

----------------------------------------------------------------------------
(* The second invariant: where the buckets of an open round have gone, what *)
(* they took from the account, and who was paid of them.                    *)

InWork(e) == job.at = "working" /\ job.plan.epochIndex = e

(* The round is in work, or waits for the keeper to come back to it.       *)
Open(e) == Unfinished(e) \/ InWork(e)

(* What the plan of an open round would be now.                            *)
PlanOf(e) ==
  build(Inputs(e, epoch_state[e].payout_amount, epoch_state[e].allowed))

(* Where the buckets have gone: as the keeper knows, or would find when it *)
(* comes back.                                                             *)
Landed(landed) ==
  [m \in {x \in DOMAIN landed : landed[x] # "none"} |-> landed[m]]

Swapped(e) == {m \in Mints : bucket_state[<<e, m>>].swapped}

PaidOut(e) == {m \in Mints : bucket_state[<<e, m>>].cursor > 0}

Places(e) ==
  IF InWork(e) THEN Landed(job.landed) ELSE [m \in Swapped(e) |-> m]

Counters ==
  /\ \A e \in Epochs : epoch_state[e].swapped_in \in Nat
  /\ \A k \in Epochs \X Mints : bucket_state[k].cursor \in Nat
  /\ received = [k \in Epochs \X Wallets |-> received[k]]
  /\ \A k \in Epochs \X Electors :
       elections[k] = NoElection \/ elections[k].outMint \in Mints

(* Nothing has happened to a round that is not settled.                    *)
Blank ==
  \A e \in Epochs : ~epoch_state[e].settled =>
    /\ published[e] = {}
    /\ Swapped(e) = {}
    /\ \A w \in Wallets : received[<<e, w>>] = 0

OneRound ==
  /\ \A e, f \in Epochs : Open(e) /\ Open(f) => e = f
  /\ job.at = "built" =>
       /\ ~epoch_state[job.plan.epochIndex].settled
       /\ \A e \in Epochs : ~Open(e)
       /\ job.landed = NotSwapped(job.plan)
  /\ job.at = "working" =>
       LET e == job.plan.epochIndex IN
       /\ \A f \in Epochs : Open(f) => f = e
       /\ job.allowed = epoch_state[e].allowed
       /\ DOMAIN job.landed = DOMAIN job.plan.buckets
       /\ e \notin grown =>
            job.plan.payoutAmount = epoch_state[e].payout_amount

(* The buckets of the plan in work have someone to pay, and something.     *)
Pays(plan, list) ==
  \A m \in DOMAIN plan.buckets :
    /\ m \in Mints
    /\ m \in list \cup {usdcMint}
    /\ plan.buckets[m].amountIn > 0
    /\ Cardinality(plan.buckets[m].recipients) \in Nat \ {0}

JobPays == job # Idle => Pays(job.plan, job.allowed)

(* The plan in work is that of the elections and balances of now.          *)
JobStands ==
  job # Idle =>
    LET e == job.plan.epochIndex IN
    e \notin reelected =>
      job.plan = build(Inputs(e, job.plan.payoutAmount, job.allowed))

(* What is swapped and not yet paid out of the WSOL account.               *)
Owed(e) ==
  LET b == bucket_state[<<e, wsolMint>>]
  IN IF b.swapped /\ b.cursor = 0 THEN b.amount_in ELSE 0

Money ==
  \A e \in Epochs : Open(e) =>
    epoch_state[e].payout_amount + Owed(e)
      <= payout_wsol + epoch_state[e].swapped_in

(* The buckets of plan that have gone, and where; together they took s.    *)
Fit(plan, q, swapped, s) ==
  /\ DOMAIN q \subseteq DOMAIN plan.buckets
  /\ \A m \in swapped : \E x \in DOMAIN q : q[x] = m
  /\ \A x \in DOMAIN q : q[x] \in {x, usdcMint} \cap swapped
  /\ \A x, y \in DOMAIN q : q[x] = q[y] => x = y
  /\ s <= Part(Amounts(plan), DOMAIN q)

Placed ==
  \A e \in Epochs \ (reelected \cup forgotten) :
    Open(e) => Fit(PlanOf(e), Places(e), Swapped(e), epoch_state[e].swapped_in)

(* The payments a wallet had, when the buckets in paid are paid out.       *)
Payments(plan, q, paid, w) ==
  IF \E x \in DOMAIN q : w \in plan.buckets[x].recipients /\ q[x] \in paid
  THEN 1 ELSE 0

Received ==
  \A e \in Epochs \ (reelected \cup grown \cup forgotten) :
    Open(e) => \A w \in Wallets :
      received[<<e, w>>] = Payments(PlanOf(e), Places(e), PaidOut(e), w)

(* The file of an open round is that of its plan, and each bucket of it    *)
(* has gone.                                                               *)
FileStands ==
  \A e \in Epochs \ (reelected \cup grown \cup forgotten) :
    Open(e) => \A file \in published[e] :
      /\ file = buildRoundFile(PlanOf(e))
      /\ DOMAIN PlanOf(e).buckets \subseteq DOMAIN Places(e)

(* What the file of a round that is not open says was paid.                *)
Closed ==
  \A e \in Epochs \ (reelected \cup grown \cup forgotten) :
    ~Open(e) => \A file \in published[e] : \A w \in Wallets :
      received[<<e, w>>] = Told(file, w)

Filed == FileStands /\ Closed

Steady == Counters /\ Blank /\ OneRound /\ JobPays /\ JobStands

Ledger == Steady /\ Money /\ Placed /\ Received /\ Filed

(* A bucket goes to its mint, or to USDC. *)
LEMMA FitOneMore ==
  ASSUME NEW plan, NEW q, NEW swapped, NEW s \in Nat,
         Fit(plan, q, swapped, s),
         IsFiniteSet(DOMAIN plan.buckets),
         Amounts(plan) \in [DOMAIN plan.buckets -> Nat],
         NEW m \in DOMAIN plan.buckets, m \notin DOMAIN q,
         NEW y \in {m, usdcMint}, y \notin swapped,
         NEW a \in Nat, a <= plan.buckets[m].amountIn,
         NEW r, DOMAIN r = DOMAIN q \cup {m}, r[m] = y,
         \A x \in DOMAIN q : r[x] = q[x]
  PROVE  Fit(plan, r, swapped \cup {y}, s + a)
<1> DEFINE f == Amounts(plan)
           D == DOMAIN q
<1>1. D \subseteq DOMAIN plan.buckets
  BY DEF Fit
<1>2. IsFiniteSet(D)
  BY <1>1, FS_Subset
<1>3. \A k \in D \cup {m} : f[k] \in Nat
  BY <1>1
<1>4. f[m] = plan.buckets[m].amountIn
  BY DEF Amounts
<1> HIDE DEF f
<1>5. Part(f, D) \in Nat /\ Part(f, D \cup {m}) = Part(f, D) + f[m]
  BY <1>2, <1>3, PartAdd
<1>6. s <= Part(f, D)
  BY DEF Fit, f
<1>7. s + a <= Part(f, DOMAIN r)
  BY <1>3, <1>4, <1>5, <1>6
<1>8. /\ \A z \in swapped : \E x \in D : q[x] = z
      /\ \A x \in D : q[x] \in {x, usdcMint} \cap swapped
      /\ \A x, z \in D : q[x] = q[z] => x = z
  BY DEF Fit
<1>9. DOMAIN r \subseteq DOMAIN plan.buckets
  BY <1>1
<1>10. \A z \in swapped \cup {y} : \E x \in DOMAIN r : r[x] = z
  BY <1>8
<1>11. \A x \in DOMAIN r : r[x] \in {x, usdcMint} \cap (swapped \cup {y})
  BY <1>8
<1>12. \A x, z \in DOMAIN r : r[x] = r[z] => x = z
  BY <1>8
<1> QED
  BY <1>7, <1>9, <1>10, <1>11, <1>12 DEF Fit, f

(* When none fell back, the chain shows where all went. *)
LEMMA FitNoFallback ==
  ASSUME NEW plan, NEW q, NEW swapped, NEW s, Fit(plan, q, swapped, s),
         \A x \in DOMAIN q : q[x] = x, q = [x \in DOMAIN q |-> q[x]]
  PROVE  q = [x \in swapped |-> x]
<1>1. DOMAIN q = swapped
  BY DEF Fit
<1> QED
  BY <1>1

(* What a plan of the round now is like. *)
LEMMA PlanPays ==
  ASSUME RoundAssumption, Shapes, Counters,
         NEW e \in Epochs, NEW amount \in Nat, NEW list
  PROVE  LET plan == build(Inputs(e, amount, list)) IN
         /\ plan.epochIndex = e
         /\ plan.payoutAmount = amount
         /\ IsFiniteSet(DOMAIN plan.buckets)
         /\ Amounts(plan) \in [DOMAIN plan.buckets -> Nat]
         /\ Total(Amounts(plan)) <= amount
         /\ Pays(plan, list)
         /\ \A m, n \in DOMAIN plan.buckets : \A w :
              /\ w \in plan.buckets[m].recipients
              /\ w \in plan.buckets[n].recipients
              => m = n
<1> DEFINE in == Inputs(e, amount, list)
           plan == build(in)
           elected == electionsForRound(e)
<1>1. \A w \in DOMAIN elected : elected[w] \in Mints
  BY DEF Counters, electionsForRound
<1> HIDE DEF elected
<1>2. /\ in.aged = aged[e] /\ in.payoutAmount = amount /\ in.epochIndex = e
      /\ in.elections = elected /\ in.allowlist = list
      /\ in.defaultPayoutMint = defaultPayoutMint /\ in.usdcMint = usdcMint
      /\ in.minShareLamports = minShareLamports
  BY DEF Inputs, elected
<1> HIDE DEF in
<1>3. in.aged \in [Wallets -> Nat] /\ IsFiniteSet(Wallets)
      /\ in.minShareLamports \in Nat \ {0}
  BY <1>2 DEF Shapes, RoundAssumption
<1>4. \A w : resolveAsset(in, w) \in Mints /\ resolveAsset(in, w) \in list \cup {usdcMint}
  BY <1>1, <1>2 DEF resolveAsset, RoundAssumption
<1>5. /\ DOMAIN plan.buckets = {resolveAsset(in, w) : w \in Paid(in)}
      /\ \A m \in DOMAIN plan.buckets :
           plan.buckets[m].recipients = Into(in, m)
  BY BuildBuckets
<1>6. /\ IsFiniteSet(DOMAIN plan.buckets)
      /\ Amounts(plan) \in [DOMAIN plan.buckets -> Nat]
      /\ Total(Amounts(plan)) <= amount
      /\ \A m \in DOMAIN plan.buckets :
           /\ plan.buckets[m].amountIn > 0
           /\ Cardinality(plan.buckets[m].recipients) \in Nat \ {0}
  BY <1>2, <1>3, BuildPays
<1>7. plan.epochIndex = e /\ plan.payoutAmount = amount
  BY <1>2 DEF build
<1> HIDE DEF plan
<1>8. Pays(plan, list)
  BY <1>4, <1>5, <1>6 DEF Pays
<1>9. \A m, n \in DOMAIN plan.buckets : \A w :
        /\ w \in plan.buckets[m].recipients
        /\ w \in plan.buckets[n].recipients
        => m = n
  BY <1>5 DEF Into
<1> QED
  BY <1>6, <1>7, <1>8, <1>9 DEF plan, in

(* A plan for less has no bucket that the plan for more has not. *)
LEMMA PlanGrows ==
  ASSUME RoundAssumption, Shapes, NEW e \in Epochs, NEW list,
         NEW x \in Nat, NEW y \in Nat, x <= y
  PROVE  LET a == build(Inputs(e, x, list))
             b == build(Inputs(e, y, list)) IN
         /\ DOMAIN a.buckets \subseteq DOMAIN b.buckets
         /\ \A m \in DOMAIN a.buckets :
              a.buckets[m].amountIn <= b.buckets[m].amountIn
<1> DEFINE a == Inputs(e, x, list)
           b == Inputs(e, y, list)
           elected == electionsForRound(e)
<1> HIDE DEF elected
<1>1. /\ a.aged = aged[e] /\ b.aged = aged[e]
      /\ a.payoutAmount = x /\ b.payoutAmount = y
      /\ a.supply = b.supply /\ a.capBps = b.capBps
      /\ a.elections = b.elections /\ a.allowlist = b.allowlist
      /\ a.defaultPayoutMint = b.defaultPayoutMint /\ a.usdcMint = b.usdcMint
      /\ a.minShareLamports = minShareLamports
      /\ a.minShareLamports = b.minShareLamports
  BY DEF Inputs
<1>2. aged[e] \in [Wallets -> Nat] /\ IsFiniteSet(Wallets)
      /\ minShareLamports \in Nat \ {0}
  BY DEF Shapes, RoundAssumption
<1> HIDE DEF a, b
<1>3. /\ DOMAIN build(a).buckets \subseteq DOMAIN build(b).buckets
      /\ \A m \in DOMAIN build(a).buckets :
           build(a).buckets[m].amountIn <= build(b).buckets[m].amountIn
  BY <1>1, <1>2, BuildGrows
<1> QED
  BY <1>3 DEF a, b

(* What a swap and a batch change in the records. *)
LEMMA CounterIs ==
  ASSUME NEW r, Whole(r), NEW x
  PROVE  /\ [r EXCEPT !.swapped_in = x].swapped_in = x
         /\ [r EXCEPT !.buckets_complete = x].swapped_in = r.swapped_in
BY DEF Whole

LEMMA BatchIs ==
  ASSUME NEW b, WholeBucket(b), NEW n, NEW full
  PROVE  LET t == [[b EXCEPT !.cursor = n] EXCEPT !.complete = full] IN
         t.swapped = b.swapped /\ t.amount_in = b.amount_in /\ t.cursor = n
<1>1. [b EXCEPT !.cursor = n] =
        [swapped |-> b.swapped, amount_in |-> b.amount_in,
         recipient_count |-> b.recipient_count, cursor |-> n,
         complete |-> b.complete]
  BY DEF WholeBucket
<1> QED
  BY <1>1

(* The plan of a round, while what it is made from stays. *)
LEMMA PlanStays ==
  ASSUME NEW e, aged'[e] = aged[e],
         electionsForRound(e)' = electionsForRound(e),
         epoch_state'[e].payout_amount = epoch_state[e].payout_amount,
         epoch_state'[e].allowed = epoch_state[e].allowed
  PROVE  PlanOf(e)' = PlanOf(e)
BY DEF PlanOf, Inputs

LEMMA InitLedger == ASSUME RoundAssumption, Init PROVE Ledger
<1>1. /\ job = Idle
      /\ \A e \in Epochs : /\ published[e] = {}
                           /\ epoch_state[e] = Unsettled
                           /\ ~epoch_state[e].settled
                           /\ epoch_state[e].swapped_in = 0
      /\ \A k \in Epochs \X Mints : /\ bucket_state[k].cursor = 0
                                    /\ ~bucket_state[k].swapped
      /\ received = [k \in Epochs \X Wallets |-> 0]
      /\ \A k \in Epochs \X Electors : elections[k] = NoElection
  BY DEF Init, Unsettled, NoBucket, ElectionInit
<1>2. job.at = "idle"
  BY <1>1 DEF Idle
<1>3. Counters
  BY <1>1 DEF Counters
<1>4. Blank
  BY <1>1 DEF Blank, Swapped
<1>5. \A e \in Epochs : ~Open(e)
  BY <1>1, <1>2 DEF Open, Unfinished, InWork
<1> QED
  BY <1>1, <1>2, <1>3, <1>4, <1>5 DEF Ledger, Steady, OneRound, JobPays,
      JobStands, Money, Placed, Received, Filed, FileStands, Closed

(* A step of the surroundings, that at most credits the account. *)
Quiet == UNCHANGED <<epoch_state, bucket_state, published, received, elections,
                     aged, reelected, grown, forgotten, job>>

LEMMA QuietKeeps ==
  ASSUME RoundAssumption, Inv, Ledger, Quiet,
         payout_wsol' \in Nat, payout_wsol <= payout_wsol'
  PROVE  Ledger'
<1>1. Steady'
  <2>1. Counters' /\ Blank'
    BY DEF Quiet, Ledger, Steady, Counters, Blank, Swapped
  <2>2. OneRound' /\ JobPays'
    BY DEF Quiet, Ledger, Steady, OneRound, JobPays, Open, Unfinished, InWork
  <2>3. \A e, amount, list :
          Inputs(e, amount, list)' = Inputs(e, amount, list)
    BY DEF Quiet, Inputs, electionsForRound
  <2>4. JobStands'
    BY <2>3 DEF Quiet, Ledger, Steady, JobStands, Inputs, electionsForRound
  <2> QED
    BY <2>1, <2>2, <2>4 DEF Steady
<1>2. Money'
  <2> SUFFICES ASSUME NEW e \in Epochs, Open(e)'
               PROVE  epoch_state'[e].payout_amount + Owed(e)'
                        <= payout_wsol' + epoch_state'[e].swapped_in
    BY DEF Money
  <2>1. /\ Open(e) /\ Owed(e)' = Owed(e) /\ epoch_state' = epoch_state
    BY DEF Quiet, Open, Unfinished, InWork, Owed
  <2>2. epoch_state[e].payout_amount + Owed(e)
          <= payout_wsol + epoch_state[e].swapped_in
    BY <2>1 DEF Ledger, Money
  <2>3. /\ epoch_state[e].payout_amount \in Nat
        /\ epoch_state[e].swapped_in \in Nat /\ payout_wsol \in Nat
    BY DEF Inv, Shapes, Ledger, Steady, Counters
  <2>4. Owed(e) \in Nat
    BY DEF Owed, Inv, Shapes, RoundAssumption
  <2> QED
    BY <2>1, <2>2, <2>3, <2>4
<1>3. \A e : /\ PlanOf(e)' = PlanOf(e) /\ Places(e)' = Places(e)
             /\ Swapped(e)' = Swapped(e) /\ PaidOut(e)' = PaidOut(e)
             /\ Open(e)' = Open(e)
  BY DEF Quiet, PlanOf, Inputs, electionsForRound, Places, InWork, Swapped,
      PaidOut, Open, Unfinished
<1>4. Placed' /\ Received' /\ Filed'
  <2>1. Placed'
    BY <1>3 DEF Quiet, Ledger, Placed
  <2>2. Received'
    BY <1>3 DEF Quiet, Ledger, Received
  <2>3. Filed'
    BY <1>3 DEF Quiet, Ledger, Filed, FileStands, Closed
  <2> QED
    BY <2>1, <2>2, <2>3
<1> QED
  BY <1>1, <1>2, <1>4 DEF Ledger

(* A step in the keeper's memory only. *)
Kept == /\ UNCHANGED <<payout_wsol, epoch_state, bucket_state, published,
                       received, elections, aged, reelected, grown>>
        /\ forgotten \subseteq forgotten'

LEMMA KeptKeeps ==
  ASSUME Ledger, Kept,
         \A e \in Epochs : Open(e)' => Open(e),
         \A e \in Epochs \ (reelected \cup forgotten') :
           Open(e)' => Places(e)' = Places(e),
         \A e \in Epochs \ (reelected \cup grown \cup forgotten') :
           Open(e) /\ ~Open(e)' =>
             \A file \in published[e] : \A w \in Wallets :
               received[<<e, w>>] = Told(file, w)
  PROVE  /\ Counters' /\ Blank' /\ Money' /\ Placed' /\ Received' /\ Filed'
<1>1. \A e : /\ PlanOf(e)' = PlanOf(e)
             /\ Swapped(e)' = Swapped(e) /\ PaidOut(e)' = PaidOut(e)
             /\ Owed(e)' = Owed(e)
  BY DEF Kept, PlanOf, Inputs, electionsForRound, Swapped, PaidOut, Owed
<1>2. Counters' /\ Blank'
  BY DEF Kept, Ledger, Steady, Counters, Blank, Swapped
<1>3. Money'
  BY <1>1 DEF Kept, Ledger, Money
<1>4. Placed'
  BY <1>1 DEF Kept, Ledger, Placed
<1>5. Received'
  BY <1>1 DEF Kept, Ledger, Received
<1>6. FileStands'
  BY <1>1 DEF Kept, Ledger, Filed, FileStands
<1>7. Closed'
  BY <1>1 DEF Kept, Ledger, Filed, Closed
<1> QED
  BY <1>2, <1>3, <1>4, <1>5, <1>6, <1>7 DEF Filed

(* What the file of an open round says is not exceeded, and is what was    *)
(* paid when nothing of the round is left to pay. *)
LEMMA FilePaid ==
  ASSUME RoundAssumption, Inv, Ledger,
         NEW e \in Epochs \ (reelected \cup grown \cup forgotten), Open(e),
         NEW file \in published[e], NEW w \in Wallets
  PROVE  /\ received[<<e, w>>] <= Told(file, w)
         /\ ~Unfinished(e) => received[<<e, w>>] = Told(file, w)
<1> DEFINE plan == PlanOf(e)
           q == Places(e)
<1>1. received[<<e, w>>] = Payments(plan, q, PaidOut(e), w)
  BY DEF Ledger, Received
<1>2. Fit(plan, q, Swapped(e), epoch_state[e].swapped_in)
  BY DEF Ledger, Placed
<1>3. file = buildRoundFile(plan) /\ DOMAIN plan.buckets \subseteq DOMAIN q
  BY DEF Ledger, Filed, FileStands
<1>4. (\E i \in DOMAIN file.entries :
         file.entries[i].wallet = w /\ ~file.entries[i].dropped)
        <=> (\E m \in DOMAIN plan.buckets :
               w \in plan.buckets[m].recipients)
  <2> DEFINE in == Inputs(e, epoch_state[e].payout_amount,
                          epoch_state[e].allowed)
  <2>1. in.aged = aged[e]
    BY DEF Inputs
  <2>2. plan = build(in) /\ file = buildRoundFile(build(in))
    BY <1>3 DEF PlanOf
  <2> HIDE DEF in, plan
  <2>3. in.aged \in [Wallets -> Nat] /\ IsFiniteSet(Wallets)
        /\ Wallets \subseteq Nat
    BY <2>1 DEF Inv, Shapes, RoundAssumption
  <2> QED
    BY <2>2, <2>3, FilePays
<1> HIDE DEF plan, q
<1>5. DOMAIN q \subseteq DOMAIN plan.buckets
  BY <1>2 DEF Fit
<1>6. Payments(plan, q, PaidOut(e), w) <= Told(file, w)
  BY <1>4, <1>5 DEF Payments, Told
<1>7. ASSUME ~Unfinished(e)
      PROVE  Payments(plan, q, PaidOut(e), w) = Told(file, w)
  <2>1. epoch_state[e].settled
    BY DEF Inv, RootsStand, PublishedSettled
  <2>2. \A m \in Swapped(e) : m \in PaidOut(e)
    <3> SUFFICES ASSUME NEW m \in Mints, bucket_state[<<e, m>>].swapped
                 PROVE  bucket_state[<<e, m>>].cursor > 0
      BY DEF Swapped, PaidOut
    <3>1. bucket_state[<<e, m>>].cursor # 0
      BY <1>7, <2>1 DEF Unfinished
    <3>2. bucket_state[<<e, m>>].cursor \in Nat
      BY DEF Ledger, Steady, Counters
    <3> QED
      BY <3>1, <3>2
  <2>3. \A x \in DOMAIN q : q[x] \in PaidOut(e)
    BY <1>2, <2>2 DEF Fit
  <2> QED
    BY <1>3, <1>4, <1>5, <2>3 DEF Payments, Told
<1> QED
  BY <1>1, <1>6, <1>7

LEMMA BuildLedger ==
  ASSUME RoundAssumption, Inv, Ledger, Build
  PROVE  Ledger'
<1> DEFINE e == settleableEpoch(now)
           plan == build(Inputs(e, payout_wsol, platform))
<1>1. /\ e \in Epochs /\ ~epoch_state[e].settled
      /\ job = Idle
      /\ \A f \in Epochs : ~Unfinished(f)
      /\ job' = Work("built", plan, NotSwapped(plan), platform)
      /\ Kept
  BY DEF Build, chain, service, aux, Kept
<1>2. payout_wsol \in Nat /\ Shapes /\ Counters
  BY DEF Inv, Shapes, Ledger, Steady
<1>3. plan.epochIndex = e /\ plan.payoutAmount = payout_wsol
      /\ Pays(plan, platform)
  BY <1>1, <1>2, PlanPays
<1>4. /\ job' # Idle /\ job'.at = "built" /\ job'.plan = plan
      /\ job'.landed = NotSwapped(plan) /\ job'.allowed = platform
  <2> HIDE DEF plan
  <2> QED
    BY <1>1, WorkIsNotIdle
<1>6. \A f : ~InWork(f) /\ ~InWork(f)'
  BY <1>1, <1>4 DEF InWork, Idle
<1>5. \A f \in Epochs : ~Open(f) /\ ~Open(f)'
  BY <1>1, <1>6 DEF Open, Unfinished, Kept
<1>7. \A f : Places(f)' = Places(f)
  BY <1>1, <1>6 DEF Places, Swapped, Kept
<1>8. /\ Counters' /\ Blank' /\ Money' /\ Placed' /\ Received' /\ Filed'
  BY <1>1, <1>5, <1>7, KeptKeeps
<1>9. OneRound'
  <2> HIDE DEF plan, e
  <2>1. ~epoch_state'[e].settled
    BY <1>1 DEF Kept
  <2> QED
    BY <1>3, <1>4, <1>5, <2>1 DEF OneRound
<1>10. JobPays'
  BY <1>3, <1>4 DEF JobPays
<1>11. JobStands'
  <2>1. Inputs(job.plan.epochIndex, job.plan.payoutAmount, job.allowed)'
          = Inputs(e, payout_wsol, platform)
    <3> HIDE DEF plan, e
    <3> QED
      BY <1>1, <1>3, <1>4 DEF Inputs, electionsForRound, Kept
  <2> QED
    BY <1>4, <2>1 DEF JobStands
<1> QED
  BY <1>8, <1>9, <1>10, <1>11 DEF Ledger, Steady

LEMMA ResumeLedger ==
  ASSUME RoundAssumption, Inv, Ledger, NEW e \in Epochs, Resume(e)
  PROVE  Ledger'
<1> DEFINE r == epoch_state[e]
           plan == PlanOf(e)
           landed == [m \in DOMAIN plan.buckets |->
                        IF bucket_state[<<e, m>>].swapped THEN m ELSE "none"]
<1>1. /\ Open(e) /\ Unfinished(e) /\ job = Idle
      /\ job' = Work("working", plan, landed, r.allowed)
      /\ Kept
  BY DEF Resume, Open, PlanOf, chain, service, aux, Kept
<1>2. r.payout_amount \in Nat /\ Shapes /\ Counters
  BY DEF Inv, Shapes, Ledger, Steady
<1>3. plan.epochIndex = e /\ plan.payoutAmount = r.payout_amount
      /\ Pays(plan, r.allowed)
  BY <1>2, PlanPays DEF PlanOf
<1>4. plan = build(Inputs(e, r.payout_amount, r.allowed))
  BY DEF PlanOf
<1> HIDE DEF plan
<1>5. /\ job' # Idle /\ job'.at = "working" /\ job'.plan = plan
      /\ job'.landed = landed /\ job'.allowed = r.allowed
  <2> HIDE DEF landed
  <2> QED
    BY <1>1, WorkIsNotIdle
<1>6. \A f \in Epochs : Open(f)' <=> Open(f)
  <2>1. \A f \in Epochs : Unfinished(f)' <=> Unfinished(f)
    BY <1>1 DEF Unfinished, Kept
  <2>2. \A f \in Epochs : ~InWork(f) /\ (InWork(f)' => f = e)
    BY <1>1, <1>3, <1>5 DEF InWork, Idle
  <2> QED
    BY <1>1, <2>1, <2>2 DEF Open
<1>7. ASSUME NEW f \in Epochs \ (reelected \cup forgotten'), Open(f)
      PROVE  Places(f)' = Places(f)
  <2>1. f = e
    BY <1>1, <1>7 DEF Ledger, Steady, OneRound
  <2>2. ~InWork(e) /\ InWork(e)'
    BY <1>1, <1>3, <1>5 DEF InWork, Idle
  <2>3. Fit(plan, [m \in Swapped(e) |-> m], Swapped(e), r.swapped_in)
    BY <1>1, <1>7, <2>1, <2>2 DEF Ledger, Placed, Places, Kept, plan
  <2>4. Swapped(e) \subseteq DOMAIN plan.buckets
    BY <2>3 DEF Fit
  <2>5. \A m \in DOMAIN plan.buckets : m \in Mints /\ m # "none"
    BY <1>3 DEF Pays, RoundAssumption
  <2>6. Landed(landed) = [m \in Swapped(e) |-> m]
    BY <2>4, <2>5 DEF Landed, Swapped
  <2> HIDE DEF landed
  <2> QED
    BY <1>5, <2>1, <2>2, <2>6 DEF Places
<1>8. /\ Counters' /\ Blank' /\ Money' /\ Placed' /\ Received' /\ Filed'
  BY <1>1, <1>6, <1>7, KeptKeeps
<1>9. epoch_state'[e].payout_amount = r.payout_amount
      /\ epoch_state'[e].allowed = r.allowed
  BY <1>1 DEF Kept
<1>10. OneRound'
  <2>1. DOMAIN landed = DOMAIN plan.buckets
    OBVIOUS
  <2>2. \A f, g \in Epochs : Open(f)' /\ Open(g)' => f = g
    BY <1>6 DEF Ledger, Steady, OneRound
  <2>3. \A f \in Epochs : Open(f)' => f = e
    BY <1>1, <1>6, <2>2
  <2> HIDE DEF landed
  <2> QED
    BY <1>3, <1>5, <1>9, <2>1, <2>2, <2>3 DEF OneRound
<1>11. JobPays'
  BY <1>3, <1>5 DEF JobPays
<1>12. JobStands'
  <2>1. Inputs(job.plan.epochIndex, job.plan.payoutAmount, job.allowed)'
          = Inputs(e, r.payout_amount, r.allowed)
    <3> HIDE DEF landed
    <3> QED
      BY <1>1, <1>3, <1>5 DEF Inputs, electionsForRound, Kept
  <2> QED
    BY <1>4, <1>5, <2>1 DEF JobStands
<1> QED
  BY <1>8, <1>10, <1>11, <1>12 DEF Ledger, Steady

(* The keeper's memory is lost; what its swaps landed in is on the chain,  *)
(* unless one fell back. *)
LEMMA ForgetPlaces ==
  ASSUME NEW plan, NEW landed, NEW swapped, NEW s,
         Fit(plan, Landed(landed), swapped, s),
         ~ \E m \in DOMAIN landed : landed[m] \notin {m, "none"}
  PROVE  Landed(landed) = [m \in swapped |-> m]
<1> DEFINE q == Landed(landed)
<1>1. /\ \A x \in DOMAIN q : q[x] = x
      /\ q = [x \in DOMAIN q |-> q[x]]
  BY DEF Landed
<1> HIDE DEF q
<1>2. q = [x \in swapped |-> x]
  BY <1>1, FitNoFallback DEF q
<1> QED
  BY <1>2 DEF q

LEMMA CrashLedger ==
  ASSUME RoundAssumption, Inv, Ledger, Crash
  PROVE  Ledger'
<1>1. /\ job # Idle /\ job' = Idle
      /\ Forget(job.landed)
      /\ Kept
  BY DEF Crash, Forget, chain, service, Kept
<1>2. job'.at = "idle"
  BY <1>1 DEF Idle
<1>3. \A f : ~InWork(f)'
  BY <1>2 DEF InWork
<1>4. job.at \in {"built", "working"}
  BY <1>1 DEF Inv, JobShape
<1>8. \A e \in Epochs : Open(e)' <=> Unfinished(e)
  BY <1>1, <1>3 DEF Open, Unfinished, Kept
<1>5. ASSUME NEW e \in Epochs \ (reelected \cup forgotten'), Open(e)
      PROVE  Places(e)' = Places(e)
  <2>1. job.at = "working" /\ job.plan.epochIndex = e
    BY <1>1, <1>4, <1>5 DEF Ledger, Steady, OneRound, Inv, JobShape
  <2>2. InWork(e)
    BY <2>1 DEF InWork
  <2>3. ~ \E m \in DOMAIN job.landed : job.landed[m] \notin {m, "none"}
    BY <1>1, <1>5, <2>1 DEF Forget
  <2>4. Fit(PlanOf(e), Landed(job.landed), Swapped(e),
            epoch_state[e].swapped_in)
    BY <1>1, <1>5, <2>2 DEF Kept, Ledger, Placed, Places
  <2>5. Landed(job.landed) = [m \in Swapped(e) |-> m]
    BY <2>3, <2>4, ForgetPlaces
  <2>6. Swapped(e)' = Swapped(e)
    BY <1>1 DEF Kept, Swapped
  <2> QED
    BY <1>3, <2>2, <2>5, <2>6 DEF Places
<1>6. /\ Counters' /\ Blank' /\ Money' /\ Placed' /\ Received' /\ Filed'
  <2>1. \A e \in Epochs : Open(e)' => Open(e)
    BY <1>8 DEF Open
  <2>2. ASSUME NEW e \in Epochs \ (reelected \cup grown \cup forgotten'),
               Open(e), ~Open(e)', NEW file \in published[e], NEW w \in Wallets
        PROVE  received[<<e, w>>] = Told(file, w)
    <3>1. e \notin forgotten /\ ~Unfinished(e)
      BY <1>1, <1>8, <2>2 DEF Kept
    <3> QED
      BY <2>2, <3>1, FilePaid
  <2> QED
    BY <1>1, <1>5, <2>1, <2>2, KeptKeeps
<1>7. OneRound'
  <2>1. \A e, f \in Epochs : Open(e)' /\ Open(f)' => e = f
    BY <1>8 DEF Open, Ledger, Steady, OneRound
  <2> QED
    BY <1>2, <2>1 DEF OneRound
<1> QED
  BY <1>1, <1>6, <1>7 DEF Ledger, Steady, JobPays, JobStands


LEMMA SettleLedger ==
  ASSUME RoundAssumption, Inv, Ledger, Settle
  PROVE  Ledger'
<1>0. PICK e : e = job.plan.epochIndex
  OBVIOUS
<1> DEFINE plan == job.plan
           rec == [settled |-> TRUE, payout_amount |-> payout_wsol,
                   swapped_in |-> 0, merkle_root |-> plan.merkleRoot,
                   bucket_count |-> Cardinality(DOMAIN plan.buckets),
                   buckets_complete |-> 0, allowed |-> job.allowed]
<1>1. /\ job.at = "built"
      /\ ~epoch_state[e].settled
      /\ epoch_state' = [epoch_state EXCEPT ![e] = rec]
      /\ job' = [job EXCEPT !.at = "working"]
      /\ grown' = IF payout_wsol = plan.payoutAmount THEN grown
                  ELSE grown \cup {e}
      /\ UNCHANGED <<aged, elections, published, reelected, forgotten,
                     payout_wsol, bucket_state, received>>
  BY <1>0 DEF Settle, settle_epoch, settleEpochIx, service
<1>2. /\ job # Idle /\ e \in Epochs
      /\ job = Work("built", plan, job.landed, job.allowed)
  BY <1>0, <1>1, AtIsNotIdle DEF Inv, JobShape
<1>3. job' = Work("working", plan, job.landed, job.allowed)
  BY <1>1, <1>2 DEF Work
<1>4. /\ job' # Idle /\ job'.at = "working" /\ job'.plan = plan
      /\ job'.landed = job.landed /\ job'.allowed = job.allowed
  BY <1>3, WorkIsNotIdle
<1>5. /\ rec.settled /\ rec.payout_amount = payout_wsol
      /\ rec.swapped_in = 0 /\ rec.allowed = job.allowed
  OBVIOUS
<1> HIDE DEF rec
<1>6. /\ epoch_state'[e] = rec
      /\ \A f \in Epochs \ {e} : epoch_state'[f] = epoch_state[f]
  BY <1>1, <1>2 DEF Inv, Shapes
<1>7. /\ job.landed = NotSwapped(plan)
      /\ \A f \in Epochs : ~Open(f)
      /\ published[e] = {} /\ Swapped(e) = {}
      /\ \A w \in Wallets : received[<<e, w>>] = 0
  BY <1>0, <1>1, <1>2 DEF Ledger, Steady, OneRound, Blank
<1>8. \A f \in Epochs : (Open(f)' <=> f = e)
                        /\ Swapped(f)' = Swapped(f)
  <2>1. \A f \in Epochs : InWork(f)' <=> f = e
    BY <1>0, <1>4 DEF InWork
  <2>2. \A f \in Epochs \ {e} : ~Unfinished(f)'
    BY <1>1, <1>6, <1>7 DEF Open, Unfinished
  <2> QED
    BY <1>1, <2>1, <2>2 DEF Open, Swapped
<1>9. Steady'
  <2>1. Counters'
    BY <1>1, <1>5, <1>6 DEF Ledger, Steady, Counters
  <2>2. Blank'
    BY <1>1, <1>5, <1>6, <1>8 DEF Ledger, Steady, Blank
  <2>3. OneRound'
    BY <1>0, <1>1, <1>2, <1>4, <1>5, <1>6, <1>7, <1>8 DEF OneRound, NotSwapped
  <2>4. JobPays'
    BY <1>2, <1>4 DEF Ledger, Steady, JobPays
  <2>5. JobStands'
    <3>1. Inputs(job.plan.epochIndex, job.plan.payoutAmount, job.allowed)'
            = Inputs(e, plan.payoutAmount, job.allowed)
      BY <1>0, <1>1, <1>4 DEF Inputs, electionsForRound
    <3> QED
      BY <1>0, <1>1, <1>2, <1>4, <3>1 DEF Ledger, Steady, JobStands
  <2> QED
    BY <2>1, <2>2, <2>3, <2>4, <2>5 DEF Steady
<1>10. Money'
  <2>1. Owed(e)' = 0
    BY <1>1, <1>7 DEF Owed, Swapped, RoundAssumption
  <2>2. payout_wsol \in Nat
    BY DEF Inv, Shapes
  <2> QED
    BY <1>1, <1>5, <1>6, <1>8, <2>1, <2>2 DEF Money
<1>11. Places(e)' = Landed(job.landed) /\ DOMAIN Landed(job.landed) = {}
  BY <1>0, <1>4, <1>7 DEF Places, InWork, Landed, NotSwapped
<1>12. Placed'
  <2> DEFINE q == Landed(job.landed)
             none == [x \in {} |-> Amounts(PlanOf(e)')[x]]
  <2>1. Total(none) = 0
    <3>1. none \in [{} -> Nat] /\ \A k \in {} : none[k] = 0
      OBVIOUS
    <3> HIDE DEF none
    <3> QED
      BY <3>1, TotalZero
  <2>2. Part(Amounts(PlanOf(e)'), {}) = 0
    BY <2>1 DEF Part
  <2>3. Fit(PlanOf(e)', q, {}, 0)
    BY <1>11, <2>2 DEF Fit
  <2>4. Places(e)' = q /\ Swapped(e)' = {} /\ epoch_state'[e].swapped_in = 0
    BY <1>2, <1>5, <1>6, <1>7, <1>8, <1>11
  <2> HIDE DEF q, none
  <2> SUFFICES ASSUME NEW f \in Epochs, Open(f)'
               PROVE  Fit(PlanOf(f)', Places(f)', Swapped(f)',
                          epoch_state'[f].swapped_in)
    BY DEF Placed
  <2>5. f = e
    BY <1>8
  <2> QED
    BY <2>3, <2>4, <2>5
<1>13. Received'
  <2>1. \A w : Payments(PlanOf(e)', Places(e)', PaidOut(e)', w) = 0
    BY <1>11 DEF Payments
  <2> QED
    BY <1>1, <1>7, <1>8, <2>1 DEF Received
<1>14. Filed'
  <2>1. FileStands'
    BY <1>1, <1>7, <1>8 DEF FileStands
  <2>2. Closed'
    <3>1. \A f \in Epochs : ~Open(f)' => ~Open(f)
      BY <1>7
    <3>2. grown \subseteq grown'
      BY <1>1
    <3> QED
      BY <1>1, <3>1, <3>2 DEF Ledger, Filed, Closed
  <2> QED
    BY <2>1, <2>2 DEF Filed
<1> QED
  BY <1>9, <1>10, <1>12, <1>13, <1>14 DEF Ledger

LEMMA SubmitLedger ==
  ASSUME RoundAssumption, Inv, Ledger, NEW message \in Message,
         SubmitElection(message)
  PROVE  Ledger'
<1> DEFINE e == message.epochIndex
           w == message.wallet
           new == [outMint |-> message.outMint, nonce |-> message.nonce]
<1>1. /\ elections' = [elections EXCEPT ![<<e, w>>] = new]
      /\ reelected' = IF Begun(e) THEN reelected \cup {e} ELSE reelected
      /\ UNCHANGED <<aged, published, payout_wsol, epoch_state, bucket_state,
                     job, received, grown, forgotten>>
  BY DEF SubmitElection, submit, chain
<1>2. e \in Epochs /\ w \in Electors /\ new.outMint \in Mints
  BY DEF Message
<1>3. \A f \in Epochs : f # e => electionsForRound(f)' = electionsForRound(f)
  <2> SUFFICES ASSUME NEW f \in Epochs, f # e
               PROVE  electionsForRound(f)' = electionsForRound(f)
    OBVIOUS
  <2>1. \A x \in Electors : elections'[<<f, x>>] = elections[<<f, x>>]
    BY <1>1, <1>2 DEF Inv, Shapes
  <2> QED
    BY <2>1 DEF electionsForRound
<1>4. \A f : /\ Open(f)' = Open(f) /\ Places(f)' = Places(f)
             /\ Swapped(f)' = Swapped(f) /\ PaidOut(f)' = PaidOut(f)
             /\ Owed(f)' = Owed(f)
  BY <1>1 DEF Open, Unfinished, Places, InWork, Swapped, PaidOut, Owed
<1>5. \A f \in Epochs : f # e => PlanOf(f)' = PlanOf(f)
  <2> SUFFICES ASSUME NEW f \in Epochs, f # e
               PROVE  PlanOf(f)' = PlanOf(f)
    OBVIOUS
  <2> QED
    BY <1>1, <1>3, PlanStays
<1>6. \A f : Open(f) /\ f \notin reelected' => f # e
  <2>1. \A f : Open(f) => epoch_state[f].settled
    BY AtIsNotIdle DEF Open, Unfinished, InWork, Inv, PlanFits
  <2> QED
    BY <1>1, <2>1 DEF Begun
<1>7. Steady'
  <2>1. Counters'
    <3> DEFINE K == Epochs \X Electors
    <3>1. \A k \in K :
            elections[k] = NoElection \/ elections[k].outMint \in Mints
      BY DEF Ledger, Steady, Counters
    <3>2. \A k \in K : elections'[k] \in {new, elections[k]}
      BY <1>1 DEF Inv, Shapes
    <3> HIDE DEF new
    <3>3. \A k \in K :
            elections'[k] = NoElection \/ elections'[k].outMint \in Mints
      BY <1>2, <3>1, <3>2
    <3> QED
      BY <1>1, <3>3 DEF Ledger, Steady, Counters
  <2>2. Blank' /\ OneRound' /\ JobPays'
    BY <1>1, <1>4 DEF Ledger, Steady, Blank, OneRound, JobPays
  <2>3. JobStands'
    <3> SUFFICES ASSUME job # Idle, job.plan.epochIndex \notin reelected'
                 PROVE  job.plan = build(Inputs(job.plan.epochIndex,
                                    job.plan.payoutAmount, job.allowed))'
      BY <1>1 DEF JobStands
    <3> DEFINE f == job.plan.epochIndex
    <3>1. f \in Epochs /\ job.at \in {"built", "working"}
      BY DEF Inv, JobShape
    <3>2. Begun(f)
      BY <3>1 DEF Inv, PlanFits, Begun
    <3>3. f # e /\ f \notin reelected
      BY <1>1, <3>2
    <3>4. Inputs(job.plan.epochIndex, job.plan.payoutAmount, job.allowed)'
            = Inputs(f, job.plan.payoutAmount, job.allowed)
      BY <1>1, <1>3, <3>1, <3>3 DEF Inputs
    <3> QED
      BY <3>3, <3>4 DEF Ledger, Steady, JobStands
  <2> QED
    BY <2>1, <2>2, <2>3 DEF Steady
<1>8. Money'
  BY <1>1, <1>4 DEF Ledger, Money
<1>9. Placed'
  BY <1>1, <1>4, <1>5, <1>6 DEF Ledger, Placed
<1>10. Received'
  BY <1>1, <1>4, <1>5, <1>6 DEF Ledger, Received
<1>11. Filed'
  <2>1. reelected \subseteq reelected'
    BY <1>1
  <2>2. FileStands'
    BY <1>1, <1>4, <1>5, <1>6, <2>1 DEF Ledger, Filed, FileStands
  <2>3. Closed'
    BY <1>1, <1>4, <2>1 DEF Ledger, Filed, Closed
  <2> QED
    BY <2>2, <2>3 DEF Filed
<1> QED
  BY <1>7, <1>8, <1>9, <1>10, <1>11 DEF Ledger

(* The round in work: its plan, when no election came late, and where its  *)
(* buckets have gone. *)
LEMMA AtWork ==
  ASSUME RoundAssumption, Inv, Ledger, job.at = "working",
         NEW e, e = job.plan.epochIndex
  PROVE  /\ job # Idle /\ e \in Epochs /\ Open(e) /\ epoch_state[e].settled
         /\ job = Work("working", job.plan, job.landed, job.allowed)
         /\ \A f \in Epochs : Open(f) => f = e
         /\ Pays(job.plan, job.allowed)
         /\ DOMAIN job.landed = DOMAIN job.plan.buckets
         /\ Places(e) = Landed(job.landed)
         /\ DOMAIN Landed(job.landed) =
              {x \in DOMAIN job.plan.buckets : job.landed[x] # "none"}
         /\ \A x \in DOMAIN Landed(job.landed) :
              Landed(job.landed)[x] = job.landed[x]
         /\ e \notin reelected =>
              /\ DOMAIN job.plan.buckets \subseteq DOMAIN PlanOf(e).buckets
              /\ \A m \in DOMAIN job.plan.buckets :
                   job.plan.buckets[m].amountIn
                     <= PlanOf(e).buckets[m].amountIn
         /\ e \notin reelected \cup grown => job.plan = PlanOf(e)
<1> DEFINE r == epoch_state[e]
           x == job.plan.payoutAmount
<1>1. /\ job # Idle /\ e \in Epochs
      /\ job = Work("working", job.plan, job.landed, job.allowed)
  BY AtIsNotIdle DEF Inv, JobShape
<1>2. /\ Open(e) /\ \A f \in Epochs : Open(f) => f = e
      /\ Pays(job.plan, job.allowed)
      /\ job.allowed = r.allowed
      /\ DOMAIN job.landed = DOMAIN job.plan.buckets
      /\ e \notin grown => x = r.payout_amount
  BY <1>1 DEF Ledger, Steady, OneRound, JobPays, Open, InWork
<1>3. /\ Places(e) = Landed(job.landed)
      /\ DOMAIN Landed(job.landed) =
           {y \in DOMAIN job.plan.buckets : job.landed[y] # "none"}
      /\ \A y \in DOMAIN Landed(job.landed) :
           Landed(job.landed)[y] = job.landed[y]
  BY <1>2 DEF Places, InWork, Landed
<1>4. x \in Nat /\ r.payout_amount \in Nat /\ x <= r.payout_amount
  BY <1>1 DEF Inv, PlanFits, Fits, Shapes
<1>5. e \notin reelected => job.plan = build(Inputs(e, x, r.allowed))
  BY <1>1, <1>2 DEF Ledger, Steady, JobStands
<1>6. PlanOf(e) = build(Inputs(e, r.payout_amount, r.allowed))
  BY DEF PlanOf
<1>7. LET a == build(Inputs(e, x, r.allowed))
          b == PlanOf(e) IN
      /\ DOMAIN a.buckets \subseteq DOMAIN b.buckets
      /\ \A m \in DOMAIN a.buckets :
           a.buckets[m].amountIn <= b.buckets[m].amountIn
  BY <1>1, <1>4, <1>6, PlanGrows DEF Inv
<1>8. e \notin reelected =>
        /\ DOMAIN job.plan.buckets \subseteq DOMAIN PlanOf(e).buckets
        /\ \A m \in DOMAIN job.plan.buckets :
             job.plan.buckets[m].amountIn
               <= PlanOf(e).buckets[m].amountIn
  BY <1>5, <1>7
<1>9. e \notin reelected \cup grown => job.plan = PlanOf(e)
  BY <1>2, <1>5, <1>6
<1>10. r.settled
  BY <1>1 DEF Inv, PlanFits
<1> QED
  BY <1>1, <1>2, <1>3, <1>8, <1>9, <1>10

(* The keeper is through with a round: nothing of it is left to pay. *)
LEMMA FinishLedger ==
  ASSUME RoundAssumption, Inv, Ledger, Finish
  PROVE  Ledger'
<1>0. PICK e : e = job.plan.epochIndex
  OBVIOUS
<1>1. /\ job.at = "working" /\ job' = Idle
      /\ published[e] # {}
      /\ \A m \in DOMAIN job.plan.buckets :
           /\ job.landed[m] # "none"
           /\ bucket_state[<<e, job.landed[m]>>].cursor > 0
      /\ Kept /\ forgotten' = forgotten
  BY <1>0 DEF Finish, chain, service, aux, Kept
<1>2. job'.at = "idle"
  BY <1>1 DEF Idle
<1>3. \A f : ~InWork(f)'
  BY <1>2 DEF InWork
<1>4. \A f \in Epochs : Open(f)' <=> Unfinished(f)
  BY <1>1, <1>3 DEF Open, Unfinished, Kept
<1>5. /\ e \in Epochs /\ Open(e)
      /\ \A f \in Epochs : Open(f) => f = e
      /\ Places(e) = Landed(job.landed)
      /\ DOMAIN Landed(job.landed) =
           {x \in DOMAIN job.plan.buckets : job.landed[x] # "none"}
      /\ \A x \in DOMAIN Landed(job.landed) :
           Landed(job.landed)[x] = job.landed[x]
  BY <1>0, <1>1, AtWork
<1>6. ASSUME NEW f \in Epochs \ (reelected \cup forgotten)
      PROVE  ~Open(f)'
  <2> SUFFICES ASSUME Unfinished(f)
               PROVE  FALSE
    BY <1>4
  <2>1. f = e
    BY <1>5 DEF Open
  <2>2. Fit(PlanOf(e), Landed(job.landed), Swapped(e),
            epoch_state[e].swapped_in)
    BY <1>5, <1>6, <2>1 DEF Ledger, Placed
  <2>3. \A m \in Swapped(e) : bucket_state[<<e, m>>].cursor > 0
    BY <1>1, <1>5, <2>2 DEF Fit
  <2>4. PICK m \in Mints : /\ bucket_state[<<e, m>>].swapped
                           /\ bucket_state[<<e, m>>].cursor = 0
    BY <1>1, <2>1 DEF Unfinished
  <2>5. bucket_state[<<e, m>>].cursor > 0
    BY <2>3, <2>4 DEF Swapped
  <2> QED
    BY <2>4, <2>5
<1>7. /\ Counters' /\ Blank' /\ Money' /\ Placed' /\ Received' /\ Filed'
  <2>1. \A f \in Epochs : Open(f)' => Open(f)
    BY <1>4 DEF Open
  <2>2. \A f \in Epochs \ (reelected \cup forgotten') :
          Open(f)' => Places(f)' = Places(f)
    BY <1>1, <1>6
  <2>3. ASSUME NEW f \in Epochs \ (reelected \cup grown \cup forgotten'),
               Open(f), ~Open(f)', NEW file \in published[f], NEW w \in Wallets
        PROVE  received[<<f, w>>] = Told(file, w)
    BY <1>1, <1>4, <2>3, FilePaid
  <2> QED
    BY <1>1, <2>1, <2>2, <2>3, KeptKeeps
<1>8. OneRound'
  <2>1. \A f, g \in Epochs : Open(f)' /\ Open(g)' => f = g
    BY <1>4 DEF Open, Ledger, Steady, OneRound
  <2> QED
    BY <1>2, <2>1 DEF OneRound
<1> QED
  BY <1>1, <1>7, <1>8 DEF Ledger, Steady, JobPays, JobStands

LEMMA SwapLedger ==
  ASSUME RoundAssumption, Inv, Ledger, NEW m \in Mints, SwapBucket(m)
  PROVE  Ledger'
<1>0. PICK e : e = job.plan.epochIndex
  OBVIOUS
<1>1. PICK y : y = Target(m)
  OBVIOUS
<1> DEFINE r == epoch_state[e]
           plan == job.plan
           a == plan.buckets[m].amountIn
           n == Cardinality(plan.buckets[m].recipients)
           s == r.swapped_in
           new == [swapped |-> TRUE, amount_in |-> a, recipient_count |-> n,
                   cursor |-> 0, complete |-> FALSE]
           next == [job.landed EXCEPT ![m] = y]
<1>2. /\ job.at = "working"
      /\ m \in DOMAIN plan.buckets
      /\ job.landed[m] = "none"
      /\ r.settled /\ y \notin Swapped(e) /\ y \in r.allowed
      /\ s + a <= r.payout_amount /\ a <= payout_wsol
      /\ epoch_state' = [epoch_state EXCEPT ![e].swapped_in = s + a]
      /\ bucket_state' = [bucket_state EXCEPT ![<<e, y>>] = new]
      /\ payout_wsol' = IF y = wsolMint THEN payout_wsol ELSE payout_wsol - a
      /\ UNCHANGED <<aged, elections, published, reelected, grown, received>>
      /\ y \in {m, usdcMint}
  BY <1>0, <1>1 DEF SwapBucket, swap_payout, SwapAccepted, swapPayoutIx,
       service, Target, Swapped
<1>3. \/ job' = [job EXCEPT !.landed[m] = y] /\ forgotten' = forgotten
      \/ Forget(next)
  BY <1>1 DEF SwapBucket
<1>4. /\ job # Idle /\ e \in Epochs /\ Open(e)
      /\ job = Work("working", job.plan, job.landed, job.allowed)
      /\ \A f \in Epochs : Open(f) => f = e
      /\ Pays(plan, job.allowed)
      /\ DOMAIN job.landed = DOMAIN plan.buckets
      /\ Places(e) = Landed(job.landed)
      /\ DOMAIN Landed(job.landed) =
           {x \in DOMAIN plan.buckets : job.landed[x] # "none"}
      /\ \A x \in DOMAIN Landed(job.landed) :
           Landed(job.landed)[x] = job.landed[x]
      /\ e \notin reelected =>
           /\ m \in DOMAIN PlanOf(e).buckets
           /\ a <= PlanOf(e).buckets[m].amountIn
  BY <1>0, <1>2, AtWork
<1>5. /\ y \in Mints /\ m # "none" /\ y # "none" /\ "none" \notin Mints
  BY <1>2, <1>4 DEF RoundAssumption
<1>6. /\ a \in Nat /\ s \in Nat /\ payout_wsol \in Nat
      /\ r.payout_amount \in Nat /\ Whole(r)
  BY <1>2, <1>4 DEF Inv, Shapes, PlanFits, Fits, Ledger, Steady, Counters
<1>7. new.swapped /\ new.amount_in = a /\ new.cursor = 0
  OBVIOUS
<1> HIDE DEF a, s, n, new, plan
<1>8. /\ epoch_state'[e] = [r EXCEPT !.swapped_in = s + a]
      /\ \A f \in Epochs \ {e} : epoch_state'[f] = epoch_state[f]
  BY <1>2, <1>4 DEF Inv, Shapes
<1>9. /\ epoch_state'[e].swapped_in = s + a
      /\ \A f \in Epochs :
           /\ epoch_state'[f].settled = epoch_state[f].settled
           /\ epoch_state'[f].payout_amount = epoch_state[f].payout_amount
           /\ epoch_state'[f].allowed = epoch_state[f].allowed
  <2>1. EpochCounted(e)
    BY <1>2 DEF EpochCounted
  <2>2. \A f \in Epochs :
           /\ epoch_state'[f].settled = epoch_state[f].settled
           /\ epoch_state'[f].payout_amount = epoch_state[f].payout_amount
           /\ epoch_state'[f].allowed = epoch_state[f].allowed
    BY <1>4, <2>1, CountedKeeps DEF Inv
  <2> HIDE DEF r
  <2>3. [r EXCEPT !.swapped_in = s + a].swapped_in = s + a
    BY <1>6, CounterIs
  <2> QED
    BY <1>8, <2>2, <2>3
<1>10. /\ bucket_state'[<<e, y>>] = new
       /\ \A k \in Epochs \X Mints :
            k # <<e, y>> => bucket_state'[k] = bucket_state[k]
  BY <1>2, <1>4, <1>5 DEF Inv, Shapes
<1>11. /\ Swapped(e)' = Swapped(e) \cup {y}
       /\ PaidOut(e)' = PaidOut(e) \ {y}
       /\ \A f \in Epochs \ {e} : Swapped(f)' = Swapped(f)
  <2>1. \A z \in Mints \ {y} :
          bucket_state'[<<e, z>>] = bucket_state[<<e, z>>]
    BY <1>4, <1>10
  <2>2. \A f \in Epochs \ {e} : \A z \in Mints :
          bucket_state'[<<f, z>>] = bucket_state[<<f, z>>]
    BY <1>4, <1>10
  <2>3. ~(0 > 0)
    OBVIOUS
  <2> QED
    BY <1>5, <1>7, <1>10, <2>1, <2>2, <2>3, Zenon DEF Swapped, PaidOut
<1>13. \/ /\ job' = Idle /\ job'.at = "idle"
          /\ forgotten \subseteq forgotten'
          /\ e \notin forgotten' =>
               ~ \E x \in DOMAIN next : next[x] \notin {x, "none"}
       \/ /\ job' = Work("working", plan, next, job.allowed)
          /\ job'.at = "working" /\ job'.plan = plan
          /\ job'.landed = next /\ job'.allowed = job.allowed
          /\ forgotten' = forgotten
  <2>1. CASE job' = [job EXCEPT !.landed[m] = y] /\ forgotten' = forgotten
    <3>1. job' = Work("working", plan, next, job.allowed)
      BY <1>4, <2>1 DEF Work, plan
    <3> HIDE DEF next
    <3>2. /\ job'.at = "working" /\ job'.plan = plan
          /\ job'.landed = next /\ job'.allowed = job.allowed
      BY <3>1, WorkIsNotIdle
    <3>3. forgotten' = forgotten
      BY <2>1
    <3> QED
      BY <3>1, <3>2, <3>3
  <2>2. CASE Forget(next)
    <3> HIDE DEF next
    <3> QED
      BY <1>0, <2>2 DEF Forget, Idle
  <2> HIDE DEF next
  <2> QED
    BY <1>3, <2>1, <2>2
<1>12. \A f \in Epochs : Open(f)' <=> Open(f)
  <2> HIDE DEF next
  <2>1. Unfinished(e)'
    <3>1. epoch_state'[e].settled
      BY <1>2, <1>4, <1>9
    <3>2. bucket_state'[<<e, y>>].swapped /\ bucket_state'[<<e, y>>].cursor = 0
      BY <1>7, <1>10
    <3> QED
      BY <1>5, <3>1, <3>2 DEF Unfinished
  <2>2. ASSUME NEW f \in Epochs, f # e
        PROVE  ~Open(f) /\ ~Open(f)'
    <3>1. ~Open(f)
      BY <1>4, <2>2
    <3>2. \A z \in Mints : bucket_state'[<<f, z>>] = bucket_state[<<f, z>>]
      BY <1>10, <2>2
    <3>3. ~Unfinished(f)'
      BY <1>2, <1>9, <3>1, <3>2 DEF Open, Unfinished
    <3>4. ~InWork(f)'
      BY <1>0, <1>13, <2>2 DEF InWork, plan
    <3> QED
      BY <3>1, <3>3, <3>4 DEF Open
  <2> QED
    BY <1>4, <2>1, <2>2 DEF Open
<1>14. Steady'
  <2>1. Counters'
    <3>1. \A f \in Epochs : epoch_state'[f].swapped_in \in Nat
      <4>1. s + a \in Nat
        BY <1>6
      <4> QED
        BY <1>8, <1>9, <4>1 DEF Ledger, Steady, Counters
    <3>2. \A k \in Epochs \X Mints : bucket_state'[k].cursor \in Nat
      BY <1>7, <1>10 DEF Ledger, Steady, Counters
    <3> QED
      BY <1>2, <3>1, <3>2 DEF Ledger, Steady, Counters
  <2>2. Blank'
    BY <1>2, <1>9, <1>11 DEF Ledger, Steady, Blank
  <2>3. OneRound'
    <3>1. \A f, g \in Epochs : Open(f)' /\ Open(g)' => f = g
      BY <1>4, <1>12
    <3>2. job.allowed = r.allowed
          /\ (e \notin grown => plan.payoutAmount = r.payout_amount)
      BY <1>0, <1>2 DEF Ledger, Steady, OneRound, plan
    <3>3. DOMAIN next = DOMAIN plan.buckets
      BY <1>4
    <3> HIDE DEF next
    <3>4. CASE job'.at = "idle"
      BY <3>1, <3>4 DEF OneRound
    <3>5. CASE /\ job'.at = "working" /\ job'.plan = plan
               /\ job'.landed = next /\ job'.allowed = job.allowed
      <4>1. job'.plan.epochIndex = e
        BY <1>0, <3>5 DEF plan
      <4> QED
        BY <1>2, <1>4, <1>9, <1>12, <3>1, <3>2, <3>3, <3>5, <4>1 DEF OneRound
    <3> QED
      BY <1>13, <3>4, <3>5
  <2>4. JobPays'
    BY <1>4, <1>13 DEF JobPays
  <2>5. JobStands'
    <3>1. CASE job' = Idle
      BY <3>1 DEF JobStands
    <3>2. CASE job'.plan = plan /\ job'.allowed = job.allowed
      <4>1. Inputs(job.plan.epochIndex, job.plan.payoutAmount, job.allowed)'
              = Inputs(e, plan.payoutAmount, job.allowed)
        BY <1>0, <1>2, <3>2 DEF Inputs, electionsForRound, plan
      <4> QED
        BY <1>0, <1>2, <1>4, <3>2, <4>1 DEF Ledger, Steady, JobStands, plan
    <3> QED
      BY <1>13, <3>1, <3>2
  <2> QED
    BY <2>1, <2>2, <2>3, <2>4, <2>5 DEF Steady
<1>15. Money'
  <2> SUFFICES r.payout_amount + Owed(e)' <= payout_wsol' + (s + a)
    BY <1>4, <1>9, <1>12 DEF Money
  <2>1. r.payout_amount + Owed(e) <= payout_wsol + s
    BY <1>4 DEF Ledger, Money, s
  <2>2. Owed(e) \in Nat
    BY <1>4 DEF Owed, Inv, Shapes, RoundAssumption
  <2>3. CASE y = wsolMint
    <3>1. Owed(e) = 0
      BY <1>2, <1>5, <2>3 DEF Owed, Swapped
    <3>2. Owed(e)' = a
      BY <1>7, <1>10, <2>3 DEF Owed
    <3> QED
      BY <1>2, <1>6, <2>1, <2>3, <3>1, <3>2
  <2>4. CASE y # wsolMint
    <3>1. <<e, wsolMint>> \in Epochs \X Mints /\ <<e, wsolMint>> # <<e, y>>
      BY <1>4, <2>4 DEF RoundAssumption
    <3>2. Owed(e)' = Owed(e)
      BY <1>10, <3>1 DEF Owed
    <3>3. payout_wsol' = payout_wsol - a
      BY <1>2, <2>4
    <3> QED
      BY <1>6, <2>1, <2>2, <3>2, <3>3
  <2> QED
    BY <2>3, <2>4
<1> DEFINE q == Landed(job.landed)
           q2 == Landed(next)
<1>16. /\ m \notin DOMAIN q
       /\ DOMAIN q2 = DOMAIN q \cup {m}
       /\ q2[m] = y
       /\ \A x \in DOMAIN q : q2[x] = q[x]
  BY <1>2, <1>4, <1>5 DEF Landed, plan
<1>17. PlanOf(e)' = PlanOf(e)
  <2>1. electionsForRound(e)' = electionsForRound(e)
    BY <1>2 DEF electionsForRound
  <2> QED
    BY <1>2, <1>4, <1>9, <2>1, PlanStays
<1> HIDE DEF next, q, q2
<1>18. ASSUME e \notin reelected \cup forgotten'
       PROVE  /\ Fit(PlanOf(e), q, Swapped(e), s)
              /\ Fit(PlanOf(e), q2, Swapped(e) \cup {y}, s + a)
              /\ Places(e)' = q2
  <2>1. Fit(PlanOf(e), q, Swapped(e), s)
    BY <1>4, <1>13, <1>18 DEF Ledger, Placed, s, q
  <2>2. /\ IsFiniteSet(DOMAIN PlanOf(e).buckets)
        /\ Amounts(PlanOf(e)) \in [DOMAIN PlanOf(e).buckets -> Nat]
    BY <1>4, <1>6, PlanPays DEF Inv, Ledger, Steady, PlanOf
  <2>3. Fit(PlanOf(e), q2, Swapped(e) \cup {y}, s + a)
    <3>1. /\ m \in DOMAIN PlanOf(e).buckets /\ y \in {m, usdcMint}
          /\ y \notin Swapped(e) /\ a <= PlanOf(e).buckets[m].amountIn
      BY <1>2, <1>4, <1>18
    <3> QED
      BY <1>6, <1>16, <2>1, <2>2, <3>1, FitOneMore, ZenonT(60)
  <2>4. ASSUME job' = Idle
        PROVE  Places(e)' = q2
    <3>1. ~InWork(e)'
      BY <1>13, <2>4 DEF InWork, Idle
    <3>2. ~ \E x \in DOMAIN next : next[x] \notin {x, "none"}
      <4>1. job'.at # "working"
        BY <2>4 DEF Idle
      <4> QED
        BY <1>13, <1>18, <4>1
    <3>3. q2 = [x \in Swapped(e) \cup {y} |-> x]
      BY <2>3, <3>2, ForgetPlaces DEF q2
    <3> QED
      BY <1>11, <3>1, <3>3 DEF Places
  <2>5. ASSUME job'.at = "working", job'.plan = plan, job'.landed = next
        PROVE  Places(e)' = q2
    <3>1. InWork(e)'
      BY <1>0, <2>5 DEF InWork, plan
    <3> QED
      BY <2>5, <3>1 DEF Places, q2
  <2> QED
    BY <1>13, <2>1, <2>3, <2>4, <2>5
<1>19. Placed'
  <2> SUFFICES ASSUME NEW f \in Epochs \ (reelected' \cup forgotten'), Open(f)'
               PROVE  Fit(PlanOf(f)', Places(f)', Swapped(f)',
                          epoch_state'[f].swapped_in)
    BY DEF Placed
  <2>1. f = e /\ e \notin reelected \cup forgotten'
    BY <1>2, <1>4, <1>12
  <2> QED
    BY <1>9, <1>11, <1>17, <1>18, <2>1
<1>20. Received'
  <2> SUFFICES ASSUME NEW f \in Epochs \ (reelected' \cup grown' \cup forgotten'),
                      Open(f)', NEW w \in Wallets
               PROVE  received'[<<f, w>>] =
                        Payments(PlanOf(f)', Places(f)', PaidOut(f)', w)
    BY DEF Received
  <2>1. f = e /\ e \notin reelected \cup grown \cup forgotten'
    BY <1>2, <1>4, <1>12
  <2>2. e \notin forgotten
    BY <1>13, <2>1
  <2>3. received[<<e, w>>] = Payments(PlanOf(e), q, PaidOut(e), w)
    BY <1>4, <2>1, <2>2 DEF Ledger, Received, q
  <2>4. Fit(PlanOf(e), q, Swapped(e), s) /\ Places(e)' = q2
    BY <1>18, <2>1
  <2>5. \A x \in DOMAIN q : q[x] # y
    BY <1>2, <2>4 DEF Fit
  <2>6. Payments(PlanOf(e), q2, PaidOut(e) \ {y}, w)
          = Payments(PlanOf(e), q, PaidOut(e), w)
    BY <1>16, <2>5 DEF Payments
  <2> QED
    BY <1>2, <1>11, <1>17, <2>1, <2>3, <2>4, <2>6
<1>21. Filed'
  <2>1. forgotten \subseteq forgotten'
    BY <1>13
  <2>2. /\ published' = published /\ received' = received
        /\ reelected' = reelected /\ grown' = grown
    BY <1>2
  <2>3. \A f : f \in Epochs \ (reelected' \cup grown' \cup forgotten')
                => f \in Epochs \ (reelected \cup grown \cup forgotten)
    BY <2>1, <2>2
  <2>4. FileStands'
    <3> SUFFICES ASSUME NEW f \in Epochs \ (reelected' \cup grown' \cup forgotten'),
                        Open(f)', NEW file \in published'[f]
                 PROVE  /\ file = buildRoundFile(PlanOf(f)')
                        /\ DOMAIN PlanOf(f)'.buckets \subseteq DOMAIN Places(f)'
      BY DEF FileStands, buildRoundFile
    <3>1. f = e /\ e \notin reelected \cup grown \cup forgotten
          /\ e \notin forgotten'
      BY <1>4, <1>12, <2>3
    <3>2. file = buildRoundFile(PlanOf(e))
          /\ DOMAIN PlanOf(e).buckets \subseteq DOMAIN Places(e)
      BY <1>4, <2>2, <3>1 DEF Ledger, Filed, FileStands
    <3>3. DOMAIN Places(e) \subseteq DOMAIN Places(e)'
      BY <1>4, <1>16, <1>18, <3>1 DEF q
    <3> QED
      BY <1>17, <3>1, <3>2, <3>3
  <2>5. Closed'
    BY <1>12, <2>2, <2>3 DEF Ledger, Filed, Closed
  <2> QED
    BY <2>4, <2>5 DEF Filed
<1> QED
  BY <1>14, <1>15, <1>19, <1>20, <1>21 DEF Ledger

LEMMA DistributeLedger ==
  ASSUME RoundAssumption, Inv, Ledger, NEW m \in Mints, Distribute(m)
  PROVE  Ledger'
<1>0. PICK e : e = job.plan.epochIndex
  OBVIOUS
<1>1. PICK y : y = job.landed[m]
  OBVIOUS
<1>2. PICK who : who = job.plan.buckets[m].recipients
  OBVIOUS
<1> DEFINE b == bucket_state[<<e, y>>]
           n == Cardinality(who)
           full == n = b.recipient_count
           r == epoch_state[e]
           count == IF full THEN r.buckets_complete + 1 ELSE r.buckets_complete
<1>3. /\ job.at = "working"
      /\ m \in DOMAIN job.plan.buckets
      /\ y # "none"
      /\ b.swapped /\ b.cursor = 0
      /\ y = wsolMint => b.amount_in <= payout_wsol
      /\ bucket_state' = [bucket_state EXCEPT ![<<e, y>>].cursor = n,
                                              ![<<e, y>>].complete = full]
      /\ epoch_state' = [epoch_state EXCEPT ![e].buckets_complete = count]
      /\ payout_wsol' = IF y = wsolMint THEN payout_wsol - b.amount_in
                        ELSE payout_wsol
  BY <1>0, <1>1, <1>2 DEF Distribute, distribute
<1>4. /\ received' = [k \in Epochs \X Wallets |->
                        IF k[1] = e /\ k[2] \in who THEN received[k] + 1
                        ELSE received[k]]
      /\ UNCHANGED <<aged, elections, published, reelected, grown, forgotten,
                     job>>
  BY <1>0, <1>2 DEF Distribute, service
<1>5. /\ job # Idle /\ e \in Epochs /\ Open(e) /\ epoch_state[e].settled
      /\ \A f \in Epochs : Open(f) => f = e
      /\ Pays(job.plan, job.allowed)
      /\ Places(e) = Landed(job.landed)
      /\ DOMAIN Landed(job.landed) =
           {x \in DOMAIN job.plan.buckets : job.landed[x] # "none"}
      /\ \A x \in DOMAIN Landed(job.landed) :
           Landed(job.landed)[x] = job.landed[x]
      /\ e \notin reelected \cup grown => job.plan = PlanOf(e)
  BY <1>0, <1>3, AtWork
<1>6. n \in Nat /\ n > 0
  BY <1>2, <1>3, <1>5 DEF Pays
<1>7. \A f \in Epochs :
           /\ epoch_state'[f].settled = epoch_state[f].settled
           /\ epoch_state'[f].payout_amount = epoch_state[f].payout_amount
           /\ epoch_state'[f].allowed = epoch_state[f].allowed
           /\ epoch_state'[f].swapped_in = epoch_state[f].swapped_in
  <2>1. EpochCounted(e)
    BY <1>3 DEF EpochCounted
  <2>2. \A f \in Epochs :
           /\ epoch_state'[f].settled = epoch_state[f].settled
           /\ epoch_state'[f].payout_amount = epoch_state[f].payout_amount
           /\ epoch_state'[f].allowed = epoch_state[f].allowed
    BY <1>5, <2>1, CountedKeeps DEF Inv
  <2>3. Whole(r)
    BY <1>5 DEF Inv, Shapes
  <2> HIDE DEF count, r
  <2>4. [r EXCEPT !.buckets_complete = count].swapped_in = r.swapped_in
    BY <2>3, CounterIs
  <2>5. epoch_state'[e] = [r EXCEPT !.buckets_complete = count]
        /\ \A f \in Epochs \ {e} : epoch_state'[f] = epoch_state[f]
    BY <1>3, <1>5 DEF Inv, Shapes, r
  <2> QED
    BY <2>2, <2>4, <2>5 DEF r
<1>8. \A k \in Epochs \X Mints :
        /\ bucket_state'[k].swapped = bucket_state[k].swapped
        /\ bucket_state'[k].amount_in = bucket_state[k].amount_in
        /\ bucket_state'[k].cursor =
             IF k = <<e, y>> THEN n ELSE bucket_state[k].cursor
  <2> DEFINE next(c) == [[c EXCEPT !.cursor = n] EXCEPT !.complete = full]
  <2>1. \A k \in Epochs \X Mints :
          bucket_state'[k] = IF k = <<e, y>> THEN next(bucket_state[k])
                             ELSE bucket_state[k]
    BY <1>3 DEF Inv, Shapes
  <2>2. \A k \in Epochs \X Mints : WholeBucket(bucket_state[k])
    BY DEF Inv, Shapes
  <2> HIDE DEF n, full
  <2>3. \A c : WholeBucket(c) =>
          /\ next(c).swapped = c.swapped /\ next(c).amount_in = c.amount_in
          /\ next(c).cursor = n
    BY BatchIs
  <2> HIDE DEF next
  <2> QED
    BY <2>1, <2>2, <2>3
<1> HIDE DEF count, n, full
<1>9. /\ \A f \in Epochs : Swapped(f)' = Swapped(f)
      /\ y \in Mints => PaidOut(e)' = PaidOut(e) \cup {y}
      /\ y \notin PaidOut(e)
  <2>1. \A f \in Epochs : Swapped(f)' = Swapped(f)
    BY <1>8 DEF Swapped
  <2>2. y \in Mints => PaidOut(e)' = PaidOut(e) \cup {y}
    <3> SUFFICES ASSUME y \in Mints
                 PROVE  PaidOut(e)' = PaidOut(e) \cup {y}
      OBVIOUS
    <3>1. \A z \in Mints : bucket_state'[<<e, z>>].cursor =
            IF z = y THEN n ELSE bucket_state[<<e, z>>].cursor
      BY <1>5, <1>8
    <3> QED
      BY <1>6, <3>1 DEF PaidOut
  <2>3. y \notin PaidOut(e)
    BY <1>3 DEF PaidOut
  <2> QED
    BY <2>1, <2>2, <2>3
<1>10. \A f \in Epochs : Open(f)' <=> Open(f)
  <2>1. ASSUME NEW f \in Epochs, f # e
        PROVE  Unfinished(f)' <=> Unfinished(f)
    <3>1. \A z \in Mints :
            /\ bucket_state'[<<f, z>>].swapped = bucket_state[<<f, z>>].swapped
            /\ bucket_state'[<<f, z>>].cursor = bucket_state[<<f, z>>].cursor
      BY <1>8, <2>1
    <3> QED
      BY <1>4, <1>7, <3>1 DEF Unfinished
  <2>2. \A f : InWork(f)' <=> InWork(f)
    BY <1>4 DEF InWork
  <2>3. InWork(e)
    BY <1>0, <1>3 DEF InWork
  <2> QED
    BY <2>1, <2>2, <2>3 DEF Open
<1>11. \A f \in Epochs : Places(f)' = Places(f)
  BY <1>4, <1>9 DEF Places, InWork
<1>12. \A f \in Epochs : PlanOf(f)' = PlanOf(f)
  <2> SUFFICES ASSUME NEW f \in Epochs
               PROVE  PlanOf(f)' = PlanOf(f)
    OBVIOUS
  <2>1. electionsForRound(f)' = electionsForRound(f)
    BY <1>4 DEF electionsForRound
  <2> QED
    BY <1>4, <1>7, <2>1, PlanStays
<1>13. \A f \in Epochs : \A w \in Wallets :
         received'[<<f, w>>] = IF f = e /\ w \in who THEN received[<<f, w>>] + 1
                               ELSE received[<<f, w>>]
  BY <1>4
<1>14. Steady'
  <2>1. Counters'
    <3>1. \A f \in Epochs : epoch_state'[f].swapped_in \in Nat
      BY <1>7 DEF Ledger, Steady, Counters
    <3>2. \A k \in Epochs \X Mints : bucket_state'[k].cursor \in Nat
      BY <1>6, <1>8 DEF Ledger, Steady, Counters
    <3>3. received' = [k \in Epochs \X Wallets |-> received'[k]]
      BY <1>4
    <3> QED
      BY <1>4, <3>1, <3>2, <3>3 DEF Ledger, Steady, Counters
  <2>2. Blank'
    <3>1. e \in Epochs /\ epoch_state[e].settled
      BY <1>5
    <3> QED
      BY <1>4, <1>7, <1>9, <1>13, <3>1 DEF Ledger, Steady, Blank
  <2>3. OneRound'
    <3>1. job.plan.epochIndex \in Epochs
      BY <1>0, <1>5
    <3> QED
      BY <1>4, <1>7, <1>10, <3>1 DEF Ledger, Steady, OneRound
  <2>4. JobPays'
    BY <1>4 DEF Ledger, Steady, JobPays
  <2>5. JobStands'
    <3>1. Inputs(job.plan.epochIndex, job.plan.payoutAmount, job.allowed)'
            = Inputs(job.plan.epochIndex, job.plan.payoutAmount, job.allowed)
      BY <1>4 DEF Inputs, electionsForRound
    <3> QED
      BY <1>4, <3>1 DEF Ledger, Steady, JobStands
  <2> QED
    BY <2>1, <2>2, <2>3, <2>4, <2>5 DEF Steady
<1>15. Money'
  <2> SUFFICES r.payout_amount + Owed(e)' <= payout_wsol' + r.swapped_in
    BY <1>5, <1>7, <1>10 DEF Money
  <2>1. r.payout_amount + Owed(e) <= payout_wsol + r.swapped_in
    BY <1>5 DEF Ledger, Money
  <2>2. /\ r.payout_amount \in Nat /\ r.swapped_in \in Nat
        /\ payout_wsol \in Nat
    BY <1>5 DEF Inv, Shapes, Ledger, Steady, Counters
  <2>3. <<e, wsolMint>> \in Epochs \X Mints
    BY <1>5 DEF RoundAssumption
  <2>4. CASE y = wsolMint
    <3>1. Owed(e) = b.amount_in /\ b.amount_in \in Nat
      BY <1>3, <2>3, <2>4 DEF Owed, Inv, Shapes
    <3>2. Owed(e)' = 0
      <4>1. bucket_state'[<<e, wsolMint>>].cursor = n
        BY <1>8, <2>3, <2>4
      <4> QED
        BY <1>6, <4>1 DEF Owed
    <3>3. payout_wsol' = payout_wsol - b.amount_in
      BY <1>3, <2>4
    <3> QED
      BY <2>1, <2>2, <3>1, <3>2, <3>3
  <2>5. CASE y # wsolMint
    <3>1. Owed(e)' = Owed(e)
      BY <1>8, <2>3, <2>5 DEF Owed
    <3>2. payout_wsol' = payout_wsol
      BY <1>3, <2>5
    <3> QED
      BY <2>1, <3>1, <3>2
  <2> QED
    BY <2>4, <2>5
<1>16. Placed'
  BY <1>4, <1>7, <1>9, <1>10, <1>11, <1>12 DEF Ledger, Placed
<1>17. Received'
  <2> SUFFICES ASSUME NEW f \in Epochs \ (reelected' \cup grown' \cup forgotten'),
                      Open(f)', NEW w \in Wallets
               PROVE  received'[<<f, w>>] =
                        Payments(PlanOf(f)', Places(f)', PaidOut(f)', w)
    BY DEF Received
  <2> DEFINE plan == PlanOf(e)
             q == Landed(job.landed)
  <2>1. f = e /\ e \notin reelected \cup grown \cup forgotten
    BY <1>4, <1>5, <1>10
  <2>2. received[<<e, w>>] = Payments(plan, q, PaidOut(e), w)
    BY <1>5, <2>1 DEF Ledger, Received
  <2>3. Fit(plan, q, Swapped(e), r.swapped_in)
    BY <1>5, <2>1 DEF Ledger, Placed
  <2>4. plan = job.plan
    BY <1>5, <2>1
  <2>5. m \in DOMAIN q /\ q[m] = y
    BY <1>1, <1>3, <1>5
  <2>6. y \in Mints
    BY <2>3, <2>5 DEF Fit, Swapped
  <2>7. \A x, z \in DOMAIN plan.buckets : \A v :
          v \in plan.buckets[x].recipients /\ v \in plan.buckets[z].recipients
            => x = z
    <3>1. r.payout_amount \in Nat
      BY <1>5 DEF Inv, Shapes
    <3>2. plan = build(Inputs(e, r.payout_amount, r.allowed))
      BY DEF PlanOf
    <3> HIDE DEF plan
    <3> QED
      BY <1>5, <3>1, <3>2, PlanPays DEF Inv, Ledger, Steady
  <2>8. who = plan.buckets[m].recipients
    BY <1>2, <2>4
  <2> HIDE DEF plan, q
  <2>9. DOMAIN q \subseteq DOMAIN plan.buckets
        /\ \A x, z \in DOMAIN q : q[x] = q[z] => x = z
    BY <2>3 DEF Fit
  <2>10. CASE w \in who
    <3>1. \A x \in DOMAIN q : w \in plan.buckets[x].recipients => x = m
      BY <2>5, <2>7, <2>8, <2>9, <2>10
    <3>2. Payments(plan, q, PaidOut(e), w) = 0
      BY <1>9, <2>5, <3>1 DEF Payments
    <3>3. Payments(plan, q, PaidOut(e) \cup {y}, w) = 1
      BY <2>5, <2>8, <2>10 DEF Payments
    <3>4. received'[<<e, w>>] = 1
      BY <1>5, <1>13, <2>2, <2>10, <3>2
    <3> QED
      BY <1>5, <1>9, <1>11, <1>12, <2>1, <2>6, <3>3, <3>4 DEF plan, q
  <2>11. CASE w \notin who
    <3>1. \A x \in DOMAIN q : w \in plan.buckets[x].recipients => q[x] # y
      BY <2>5, <2>8, <2>9, <2>11
    <3>2. Payments(plan, q, PaidOut(e) \cup {y}, w)
            = Payments(plan, q, PaidOut(e), w)
      BY <3>1 DEF Payments
    <3>3. received'[<<e, w>>] = received[<<e, w>>]
      BY <1>5, <1>13, <2>11
    <3> QED
      BY <1>5, <1>9, <1>11, <1>12, <2>1, <2>2, <2>6, <3>2, <3>3 DEF plan, q
  <2> QED
    BY <2>10, <2>11
<1>18. Filed'
  <2>1. FileStands'
    BY <1>4, <1>10, <1>11, <1>12 DEF Ledger, Filed, FileStands
  <2>2. Closed'
    <3> SUFFICES ASSUME NEW f \in Epochs \ (reelected \cup grown \cup forgotten),
                        ~Open(f)', NEW g \in published[f], NEW w \in Wallets
                 PROVE  received'[<<f, w>>] = Told(g, w)
      BY <1>4 DEF Closed, Told
    <3>1. ~Open(f) /\ f # e
      BY <1>5, <1>10
    <3>2. received'[<<f, w>>] = received[<<f, w>>]
      BY <1>13, <3>1
    <3> QED
      BY <3>1, <3>2 DEF Ledger, Filed, Closed
  <2> QED
    BY <2>1, <2>2 DEF Filed
<1> QED
  BY <1>14, <1>15, <1>16, <1>17, <1>18 DEF Ledger

(* The file is written: that of the plan in work, whose buckets have gone. *)
LEMMA PublishLedger ==
  ASSUME RoundAssumption, Inv, Ledger, Publish
  PROVE  Ledger'
<1>0. PICK e : e = job.plan.epochIndex
  OBVIOUS
<1> DEFINE q == Landed(job.landed)
           file == buildRoundFile(job.plan)
<1>1. /\ job.at = "working"
      /\ \A m \in DOMAIN job.plan.buckets : job.landed[m] # "none"
      /\ published' = [published EXCEPT ![e] = {file}]
      /\ UNCHANGED <<payout_wsol, epoch_state, bucket_state, elections, aged,
                     received, reelected, grown, forgotten, job>>
  BY <1>0 DEF Publish, chain, aux
<1>2. /\ job # Idle /\ e \in Epochs /\ Open(e) /\ epoch_state[e].settled
      /\ \A f \in Epochs : Open(f) => f = e
      /\ Places(e) = q
      /\ DOMAIN q = {x \in DOMAIN job.plan.buckets : job.landed[x] # "none"}
      /\ e \notin reelected \cup grown => job.plan = PlanOf(e)
  BY <1>0, <1>1, AtWork
<1> HIDE DEF q, file
<1>3. /\ published'[e] = {file}
      /\ \A f \in Epochs \ {e} : published'[f] = published[f]
  BY <1>1, <1>2 DEF Inv, Shapes
<1>4. /\ \A f : InWork(f)' <=> InWork(f)
      /\ InWork(e)
      /\ \A f \in Epochs \ {e} : Unfinished(f)' <=> Unfinished(f)
  BY <1>0, <1>1, <1>3 DEF InWork, Unfinished
<1>5. \A f \in Epochs : Open(f)' <=> Open(f)
  BY <1>4 DEF Open
<1>6. \A f : /\ PlanOf(f)' = PlanOf(f) /\ Places(f)' = Places(f)
             /\ Swapped(f)' = Swapped(f) /\ PaidOut(f)' = PaidOut(f)
             /\ Owed(f)' = Owed(f)
  BY <1>1 DEF PlanOf, Inputs, electionsForRound, Places, InWork, Swapped,
      PaidOut, Owed
<1>7. Steady'
  <2>1. Counters'
    BY <1>1 DEF Ledger, Steady, Counters
  <2>2. Blank'
    BY <1>1, <1>2, <1>3, <1>6 DEF Ledger, Steady, Blank
  <2>3. OneRound'
    <3>1. job.plan.epochIndex \in Epochs
      BY <1>0, <1>2
    <3> QED
      BY <1>1, <1>5, <3>1 DEF Ledger, Steady, OneRound
  <2>4. JobPays'
    BY <1>1 DEF Ledger, Steady, JobPays
  <2>5. JobStands'
    <3>1. Inputs(job.plan.epochIndex, job.plan.payoutAmount, job.allowed)'
            = Inputs(job.plan.epochIndex, job.plan.payoutAmount, job.allowed)
      BY <1>1 DEF Inputs, electionsForRound
    <3> QED
      BY <1>1, <3>1 DEF Ledger, Steady, JobStands
  <2> QED
    BY <2>1, <2>2, <2>3, <2>4, <2>5 DEF Steady
<1>8. Money' /\ Placed' /\ Received'
  <2>1. Money'
    BY <1>1, <1>5, <1>6 DEF Ledger, Money
  <2>2. Placed'
    BY <1>1, <1>5, <1>6 DEF Ledger, Placed
  <2>3. Received'
    BY <1>1, <1>5, <1>6 DEF Ledger, Received
  <2> QED
    BY <2>1, <2>2, <2>3
<1>9. Filed'
  <2>1. FileStands'
    <3> SUFFICES ASSUME NEW f \in Epochs \ (reelected \cup grown \cup forgotten),
                        Open(f), NEW g \in published'[f]
                 PROVE  /\ g = buildRoundFile(PlanOf(f))
                        /\ DOMAIN PlanOf(f).buckets \subseteq DOMAIN Places(f)
      BY <1>1, <1>5, <1>6 DEF FileStands, buildRoundFile
    <3>1. f = e /\ g = file
      BY <1>2, <1>3
    <3>2. job.plan = PlanOf(e)
      BY <1>2, <3>1
    <3>3. DOMAIN q = DOMAIN job.plan.buckets
      BY <1>1, <1>2
    <3> QED
      BY <1>2, <3>1, <3>2, <3>3 DEF file
  <2>2. Closed'
    <3> SUFFICES ASSUME NEW f \in Epochs \ (reelected \cup grown \cup forgotten),
                        ~Open(f), NEW g \in published'[f], NEW w \in Wallets
                 PROVE  received[<<f, w>>] = Told(g, w)
      BY <1>1, <1>5 DEF Closed, Told
    <3>1. f # e
      BY <1>2
    <3> QED
      BY <1>3, <3>1 DEF Ledger, Filed, Closed
  <2> QED
    BY <2>1, <2>2 DEF Filed
<1> QED
  BY <1>7, <1>8, <1>9 DEF Ledger

LEMMA NextLedger ==
  ASSUME RoundAssumption, Inv, Ledger, [Next]_vars
  PROVE  Ledger'
<1>1. CASE Build
  BY <1>1, BuildLedger
<1>2. CASE Settle
  BY <1>2, SettleLedger
<1>3. CASE Publish
  BY <1>3, PublishLedger
<1>4. CASE Crash
  BY <1>4, CrashLedger
<1>5. ASSUME NEW e \in Epochs, Resume(e)
      PROVE  Ledger'
  BY <1>5, ResumeLedger
<1>6. ASSUME NEW m \in Mints, SwapBucket(m)
      PROVE  Ledger'
  BY <1>6, SwapLedger
<1>7. ASSUME NEW m \in Mints, Distribute(m)
      PROVE  Ledger'
  BY <1>7, DistributeLedger
<1>8. ASSUME NEW message \in Message, SubmitElection(message)
      PROVE  Ledger'
  BY <1>8, SubmitLedger
<1>9. ASSUME \/ \E e \in Epochs : Index(e)
             \/ Tick \/ Credit \/ ApplyProposal
             \/ \E m \in Degrading : Route(m)
             \/ \E message \in Message : Elect(message)
             \/ UNCHANGED vars
      PROVE  Ledger'
  <2>1. Quiet
    BY <1>9 DEF Index, Tick, Credit, ApplyProposal, Route, Elect, vars, Quiet,
        chain, service, aux
  <2>2. payout_wsol \in Nat
    BY DEF Inv, Shapes
  <2>3. payout_wsol' \in {payout_wsol, payout_wsol + 1}
    BY <1>9 DEF Index, Tick, Credit, ApplyProposal, Route, Elect, vars, chain
  <2>4. payout_wsol' \in Nat /\ payout_wsol <= payout_wsol'
    BY <2>2, <2>3
  <2> QED
    BY <2>1, <2>4, QuietKeeps
<1>10. CASE Finish
  BY <1>10, FinishLedger
<1> QED
  BY <1>1, <1>2, <1>3, <1>4, <1>5, <1>6, <1>7, <1>8, <1>9, <1>10 DEF Next

THEOREM LedgerCorrect == Spec => [](Inv /\ Ledger)
<1>1. Init => Inv /\ Ledger
  BY InitInv, InitLedger, RoundAssumption
<1>2. Inv /\ Ledger /\ [Next]_vars => Inv' /\ Ledger'
  BY NextKeeps, NextLedger, RoundAssumption
<1> QED
  BY <1>1, <1>2, PTL DEF Spec

(* For any number of wallets, mints, epochs and crashes, every weights,    *)
(* lists and elections, over every route: what the keeper tries for a      *)
(* bucket that has not gone is accepted, unless it is a USDC that is off   *)
(* the list or taken.                                                      *)
THEOREM SwappableCorrect == Spec => []Swappable
<1>1. Inv /\ Ledger => Swappable
  <2> SUFFICES ASSUME Inv, Ledger, job.at = "working",
                      NEW e, e = job.plan.epochIndex,
                      NEW m \in DOMAIN job.plan.buckets,
                      NEW t, t = Target(m), t # "none",
                      job.landed[m] = "none",
                      e \notin reelected \cup forgotten,
                      t = usdcMint =>
                        /\ usdcMint \in job.allowed
                        /\ ~bucket_state[<<e, usdcMint>>].swapped
               PROVE  SwapAccepted(swapPayoutIx(job.plan, m, t))
    BY DEF Swappable
  <2> DEFINE r == epoch_state[e]
             a == job.plan.buckets[m].amountIn
             s == r.swapped_in
             q == Landed(job.landed)
             plan == PlanOf(e)
             f == Amounts(plan)
             D == DOMAIN q
  <2>1. /\ job # Idle /\ e \in Epochs /\ Open(e)
        /\ Pays(job.plan, job.allowed)
        /\ DOMAIN job.landed = DOMAIN job.plan.buckets
        /\ Places(e) = q
        /\ D = {x \in DOMAIN job.plan.buckets : job.landed[x] # "none"}
        /\ \A x \in D : q[x] = job.landed[x]
        /\ m \in DOMAIN plan.buckets
        /\ a <= plan.buckets[m].amountIn
    BY RoundAssumption, AtWork
  <2>2. r.settled /\ job.allowed = r.allowed
    BY <2>1 DEF Inv, PlanFits, Ledger, Steady, OneRound
  <2>3. m \in Mints /\ a > 0 /\ t \in {m, usdcMint} /\ t \in r.allowed
    BY <2>1, <2>2 DEF Pays, Target
  <2>4. /\ a \in Nat /\ s \in Nat /\ payout_wsol \in Nat
        /\ r.payout_amount \in Nat
    BY <2>1 DEF Inv, Shapes, PlanFits, Fits, Ledger, Steady, Counters
  <2>5. Fit(plan, q, Swapped(e), s)
    BY <2>1 DEF Ledger, Placed
  <2>6. t \notin Swapped(e)
    <3> SUFFICES ASSUME t \in Swapped(e)
                 PROVE  FALSE
      OBVIOUS
    <3>4. t = m /\ m # usdcMint
      BY <2>3 DEF Swapped
    <3>1. PICK x \in D : q[x] = m
      BY <2>5, <3>4 DEF Fit
    <3>2. q[x] \in {x, usdcMint} /\ job.landed[x] = m /\ m # "none"
      BY <2>1, <2>3, <2>5, <3>1, RoundAssumption DEF Fit, RoundAssumption
    <3>3. x # m
      BY <3>2
    <3> QED
      BY <2>1, <3>1, <3>2, <3>3, <3>4
  <2>7. /\ IsFiniteSet(DOMAIN plan.buckets)
        /\ f \in [DOMAIN plan.buckets -> Nat]
        /\ Total(f) <= r.payout_amount
    BY <2>1, <2>4, PlanPays, RoundAssumption DEF Inv, Ledger, Steady, PlanOf
  <2>8. D \cup {m} \in SUBSET DOMAIN plan.buckets /\ m \notin D
        /\ f[m] = plan.buckets[m].amountIn
        /\ s <= Part(f, D)
    BY <2>1, <2>5 DEF Fit, Amounts
  <2> HIDE DEF plan, f, q, r, a, s
  <2>9. IsFiniteSet(D) /\ \A k \in D \cup {m} : f[k] \in Nat
    <3>1. D \in SUBSET DOMAIN plan.buckets
      BY <2>8
    <3>2. IsFiniteSet(D)
      BY <2>7, <3>1, FS_Subset
    <3> QED
      BY <2>7, <2>8, <3>2
  <2>10. Part(f, D) \in Nat /\ Part(f, D \cup {m}) = Part(f, D) + f[m]
    BY <2>8, <2>9, PartAdd
  <2>11. Part(f, D \cup {m}) <= Part(f, DOMAIN plan.buckets)
    BY <2>7, <2>8, <2>9, PartLess
  <2>12. Part(f, DOMAIN plan.buckets) = Total(f)
    <3>1. f = [x \in DOMAIN plan.buckets |-> f[x]]
      BY <2>7
    <3> QED
      BY <3>1 DEF Part
  <2>13. s + a <= r.payout_amount
    <3>1. f[m] \in Nat /\ a <= f[m] /\ Total(f) \in Nat
      BY <2>1, <2>7, <2>8, UnitsFinite
    <3> QED
      BY <2>4, <2>7, <2>8, <2>10, <2>11, <2>12, <3>1
  <2>14. a <= payout_wsol
    <3>1. r.payout_amount + Owed(e) <= payout_wsol + s
      BY <2>1 DEF Ledger, Money, r, s
    <3>2. Owed(e) \in Nat
      BY <2>1, RoundAssumption DEF Owed, Inv, Shapes, RoundAssumption
    <3> QED
      BY <2>4, <2>13, <3>1, <3>2
  <2> QED
    BY <2>2, <2>3, <2>6, <2>13, <2>14
       DEF SwapAccepted, swapPayoutIx, Swapped, r, a, s
<1> QED
  BY <1>1, LedgerCorrect, PTL

(* For any number of wallets, mints, epochs and crashes, wherever in the   *)
(* payments the file is published: nobody is paid more than it says, and   *)
(* when nothing of the round is left to pay, what it says was paid, over   *)
(* crashes and fallbacks, but for the rounds named.                        *)
THEOREM PublishedIsPaidCorrect == Spec => []PublishedIsPaid
<1>1. Inv /\ Ledger => PublishedIsPaid
  <2> SUFFICES ASSUME Inv, Ledger,
                      NEW e \in Epochs \ (reelected \cup grown \cup forgotten),
                      NEW file \in published[e], NEW w \in Wallets
               PROVE  /\ received[<<e, w>>] <= Told(file, w)
                      /\ ~Unfinished(e) => received[<<e, w>>] = Told(file, w)
    BY DEF PublishedIsPaid
  <2>1. CASE Open(e)
    BY <2>1, FilePaid, RoundAssumption
  <2>2. CASE ~Open(e)
    <3>1. received[<<e, w>>] = Told(file, w)
      BY <2>2 DEF Ledger, Filed, Closed
    <3>2. Told(file, w) \in {0, 1}
      BY DEF Told
    <3> QED
      BY <3>1, <3>2
  <2> QED
    BY <2>1, <2>2
<1> QED
  BY <1>1, LedgerCorrect, PTL

----------------------------------------------------------------------------
(* The Merkle tree: a proof holds every sibling on the way to the root.   *)

(* A function on 1 .. n is a sequence. *)
LEMMA ListIs ==
  ASSUME NEW n \in Nat, NEW f, f = [i \in 1 .. n |-> f[i]]
  PROVE  Len(f) = n /\ DOMAIN f = 1 .. n
<1> DEFINE T == {f[i] : i \in 1 .. n}
<1>1. \A i \in 1 .. n : f[i] \in T
  OBVIOUS
<1> HIDE DEF T
<1>2. f \in [1 .. n -> T]
  BY <1>1
<1>3. f \in Seq(T)
  BY <1>2, IsASeq
<1> QED
  BY <1>2, <1>3, LenProperties

IsList(f, n) == f = [i \in 1 .. n |-> f[i]] /\ n \in Nat \ {0}

LEMMA AboveIs ==
  ASSUME NEW level, NEW n, IsList(level, n)
  PROVE  /\ IsList(Above(level), (n + 1) \div 2)
         /\ Len(level) = n
         /\ \A j \in 1 .. (n + 1) \div 2 :
              Above(level)[j] =
                pairHash(level[2 * j - 1],
                         IF 2 * j <= n THEN level[2 * j] ELSE level[2 * j - 1])
<1>1. n \in Nat \ {0} /\ level = [i \in 1 .. n |-> level[i]]
  BY DEF IsList
<1>2. Len(level) = n
  BY <1>1, ListIs
<1>3. (n + 1) \div 2 \in Nat \ {0}
  BY <1>1
<1> QED
  BY <1>2, <1>3 DEF Above, IsList

LEMMA LevelSteps ==
  ASSUME NEW leaves, NEW n \in Nat
  PROVE  \E f : f = [k \in 0 .. n |-> IF k = 0 THEN leaves ELSE Above(f[k - 1])]
<1> DEFINE D == {m \in Nat :
                   \E f : f = [k \in 0 .. m |-> IF k = 0 THEN leaves
                                                ELSE Above(f[k - 1])]}
<1>1. 0 \in D
  <2> DEFINE f == [k \in 0 .. 0 |-> leaves]
  <2>1. f = [k \in 0 .. 0 |-> IF k = 0 THEN leaves ELSE Above(f[k - 1])]
    OBVIOUS
  <2> QED
    BY <2>1
<1>2. ASSUME NEW m \in D
      PROVE  m + 1 \in D
  <2>1. PICK f : f = [k \in 0 .. m |-> IF k = 0 THEN leaves ELSE Above(f[k - 1])]
    OBVIOUS
  <2> DEFINE g == [k \in 0 .. m + 1 |-> IF k <= m THEN f[k] ELSE Above(f[m])]
  <2>2. ASSUME NEW k \in 0 .. m + 1
        PROVE  g[k] = IF k = 0 THEN leaves ELSE Above(g[k - 1])
    <3>1. CASE k <= m
      <4>1. k \in 0 .. m /\ g[k] = f[k]
        BY <3>1
      <4>2. f[k] = IF k = 0 THEN leaves ELSE Above(f[k - 1])
        BY <2>1, <4>1
      <4>3. k # 0 => k - 1 \in 0 .. m + 1 /\ k - 1 <= m
        BY <3>1
      <4>4. k # 0 => g[k - 1] = f[k - 1]
        BY <4>3
      <4> QED
        BY <4>1, <4>2, <4>4
    <3>2. CASE ~(k <= m)
      <4>1. k = m + 1 /\ k # 0 /\ k - 1 = m /\ m \in 0 .. m + 1
        BY <3>2
      <4>2. g[m] = f[m]
        BY <4>1
      <4> QED
        BY <3>2, <4>1, <4>2
    <3> QED
      BY <3>1, <3>2
  <2>3. g = [k \in 0 .. m + 1 |-> g[k]]
    OBVIOUS
  <2> HIDE DEF g
  <2>4. g = [k \in 0 .. m + 1 |-> IF k = 0 THEN leaves ELSE Above(g[k - 1])]
    BY <2>2, <2>3
  <2>5. m + 1 \in Nat
    OBVIOUS
  <2>6. \E h : h = [k \in 0 .. m + 1 |-> IF k = 0 THEN leaves ELSE Above(h[k - 1])]
    BY <2>4
  <2> QED
    BY <2>5, <2>6
<1> HIDE DEF D
<1>3. D = Nat
  <2>1. D \in SUBSET Nat
    BY DEF D
  <2> QED
    BY <1>1, <1>2, <2>1, InductiveSet
<1> QED
  BY <1>3 DEF D

(* The levels of n leaves, as many of them as needed. *)
Narrows(levels, n, k, m) ==
  /\ IsList(levels[k], m)
  /\ m = 1 \/ m + k <= n

LEMMA LevelsIs ==
  ASSUME NEW leaves, NEW n, IsList(leaves, n)
  PROVE  LET levels == LevelsOf(leaves) IN
         /\ Len(leaves) = n
         /\ levels[0] = leaves
         /\ \A k \in 1 .. n : levels[k] = Above(levels[k - 1])
         /\ \A k \in 0 .. n : \E m \in Nat \ {0} : Narrows(levels, n, k, m)
<1> DEFINE levels == LevelsOf(leaves)
<1>1. n \in Nat \ {0} /\ Len(leaves) = n
  BY ListIs DEF IsList
<1>2. levels = [k \in 0 .. n |-> IF k = 0 THEN leaves ELSE Above(levels[k - 1])]
  <2> DEFINE f == CHOOSE f : f = [k \in 0 .. n |-> IF k = 0 THEN leaves
                                                   ELSE Above(f[k - 1])]
  <2>1. f = [k \in 0 .. n |-> IF k = 0 THEN leaves ELSE Above(f[k - 1])]
    BY <1>1, LevelSteps
  <2>2. levels = f
    BY <1>1 DEF LevelsOf
  <2> QED
    BY <2>1, <2>2
<1> HIDE DEF levels
<1>3. levels[0] = leaves
  BY <1>1, <1>2
<1>4. \A k \in 1 .. n : levels[k] = Above(levels[k - 1])
  <2> SUFFICES ASSUME NEW k \in 1 .. n
               PROVE  levels[k] = Above(levels[k - 1])
    OBVIOUS
  <2>1. k \in 0 .. n /\ k # 0
    BY <1>1
  <2> QED
    BY <1>2, <2>1
<1> DEFINE D == {k \in Nat : k <= n => \E m \in Nat \ {0} : Narrows(levels, n, k, m)}
<1>5. 0 \in D
  BY <1>1, <1>3 DEF Narrows
<1>6. ASSUME NEW k \in D
      PROVE  k + 1 \in D
  <2> SUFFICES ASSUME k + 1 <= n
               PROVE  \E m \in Nat \ {0} : Narrows(levels, n, k + 1, m)
    OBVIOUS
  <2>1. k \in Nat /\ k <= n /\ k + 1 \in 1 .. n /\ (k + 1) - 1 = k
    BY <1>1
  <2>2. PICK m \in Nat \ {0} : Narrows(levels, n, k, m)
    BY <2>1
  <2> HIDE DEF D
  <2>3. IsList(Above(levels[k]), (m + 1) \div 2)
    BY <2>2, AboveIs DEF Narrows
  <2>4. levels[k + 1] = Above(levels[k])
    BY <1>4, <2>1
  <2>5. (m + 1) \div 2 \in Nat \ {0}
    BY <2>2
  <2>6. (m + 1) \div 2 = 1 \/ (m + 1) \div 2 + (k + 1) <= n
    <3>1. m = 1 \/ m + k <= n
      BY <2>2 DEF Narrows
    <3> QED
      BY <1>1, <2>1, <3>1
  <2> QED
    BY <2>3, <2>4, <2>5, <2>6 DEF Narrows
<1>7. D = Nat
  <2>1. D \in SUBSET Nat
    OBVIOUS
  <2> HIDE DEF D
  <2> QED
    BY <1>5, <1>6, <2>1, InductiveSet
<1>8. \A k \in 0 .. n : \E m \in Nat \ {0} : Narrows(levels, n, k, m)
  <2> SUFFICES ASSUME NEW k \in 0 .. n
               PROVE  \E m \in Nat \ {0} : Narrows(levels, n, k, m)
    OBVIOUS
  <2>1. k \in Nat /\ k <= n
    BY <1>1
  <2>2. k \in D
    BY <1>7, <2>1
  <2> QED
    BY <2>1, <2>2
<1> QED
  BY <1>1, <1>3, <1>4, <1>8 DEF levels

(* The tree ends in one node. *)
LEMMA HeightIs ==
  ASSUME NEW leaves, NEW n, IsList(leaves, n)
  PROVE  LET h == Height(leaves) IN
         /\ h \in 0 .. n
         /\ Len(LevelsOf(leaves)[h]) = 1
<1> DEFINE levels == LevelsOf(leaves)
           S == {k \in 0 .. n : Len(levels[k]) = 1}
<1>1. n \in Nat \ {0} /\ Len(leaves) = n
  BY ListIs DEF IsList
<1>2. \A k \in 0 .. n : Len(levels[k]) \in Nat \ {0}
                        /\ (Len(levels[k]) = 1 \/ Len(levels[k]) + k <= n)
  <2> SUFFICES ASSUME NEW k \in 0 .. n
               PROVE  Len(levels[k]) \in Nat \ {0}
                      /\ (Len(levels[k]) = 1 \/ Len(levels[k]) + k <= n)
    OBVIOUS
  <2>1. PICK m \in Nat \ {0} : Narrows(levels, n, k, m)
    BY LevelsIs
  <2> HIDE DEF levels
  <2>2. Len(levels[k]) = m
    BY <2>1, ListIs DEF Narrows, IsList
  <2> QED
    BY <2>1, <2>2 DEF Narrows
<1> HIDE DEF levels
<1>3. n - 1 \in S
  <2>1. n - 1 \in 0 .. n
    BY <1>1
  <2>2. \/ Len(levels[n - 1]) = 1
        \/ Len(levels[n - 1]) \in Nat \ {0} /\ Len(levels[n - 1]) + (n - 1) <= n
    BY <1>2, <2>1
  <2>3. \A x \in Nat \ {0} : x + (n - 1) <= n => x = 1
    BY <1>1
  <2>4. Len(levels[n - 1]) = 1
    BY <2>2, <2>3
  <2> QED
    BY <2>1, <2>4
<1>4. PICK h \in S : \A k \in S : h <= k
  <2>1. S \in SUBSET Nat /\ S # {}
    BY <1>1, <1>3
  <2> HIDE DEF S
  <2> QED
    BY <2>1, LeastOf
<1>5. h \in 0 .. n /\ Len(levels[h]) = 1
  OBVIOUS
<1>6. \A j \in 0 .. h - 1 : Len(levels[j]) > 1
  <2> SUFFICES ASSUME NEW j \in 0 .. h - 1
               PROVE  Len(levels[j]) > 1
    OBVIOUS
  <2>1. j \in 0 .. n /\ ~(h <= j)
    BY <1>1, <1>5
  <2>2. j \notin S
    BY <1>4, <2>1
  <2>3. Len(levels[j]) # 1
    BY <2>1, <2>2
  <2>4. Len(levels[j]) \in Nat \ {0}
    BY <1>2, <2>1
  <2>5. \A x \in Nat \ {0} : x # 1 => x > 1
    OBVIOUS
  <2> QED
    BY <2>3, <2>4, <2>5
<1>7. Height(leaves) \in 0 .. n /\ Len(levels[Height(leaves)]) = 1
  BY <1>1, <1>5, <1>6 DEF Height, levels
<1> QED
  BY <1>7 DEF levels

(* A leaf's place on each level: its pair's on the level below. *)
LEMMA PlaceSteps ==
  ASSUME NEW i, NEW n \in Nat
  PROVE  \E f : f = [k \in 0 .. n |-> IF k = 0 THEN i - 1 ELSE f[k - 1] \div 2]
<1> DEFINE D == {m \in Nat :
                   \E f : f = [k \in 0 .. m |-> IF k = 0 THEN i - 1
                                                ELSE f[k - 1] \div 2]}
<1>1. 0 \in D
  <2> DEFINE f == [k \in 0 .. 0 |-> i - 1]
  <2>1. f = [k \in 0 .. 0 |-> IF k = 0 THEN i - 1 ELSE f[k - 1] \div 2]
    OBVIOUS
  <2> QED
    BY <2>1
<1>2. ASSUME NEW m \in D
      PROVE  m + 1 \in D
  <2>1. PICK f : f = [k \in 0 .. m |-> IF k = 0 THEN i - 1 ELSE f[k - 1] \div 2]
    OBVIOUS
  <2> DEFINE g == [k \in 0 .. m + 1 |-> IF k <= m THEN f[k] ELSE f[m] \div 2]
  <2>2. ASSUME NEW k \in 0 .. m + 1
        PROVE  g[k] = IF k = 0 THEN i - 1 ELSE g[k - 1] \div 2
    <3>1. CASE k <= m
      <4>1. k \in 0 .. m /\ g[k] = f[k]
        BY <3>1
      <4>2. f[k] = IF k = 0 THEN i - 1 ELSE f[k - 1] \div 2
        BY <2>1, <4>1
      <4>3. k # 0 => k - 1 \in 0 .. m + 1 /\ k - 1 <= m
        BY <3>1
      <4>4. k # 0 => g[k - 1] = f[k - 1]
        BY <4>3
      <4> QED
        BY <4>1, <4>2, <4>4
    <3>2. CASE ~(k <= m)
      <4>1. k = m + 1 /\ k # 0 /\ k - 1 = m /\ m \in 0 .. m + 1
        BY <3>2
      <4>2. g[m] = f[m]
        BY <4>1
      <4> QED
        BY <3>2, <4>1, <4>2
    <3> QED
      BY <3>1, <3>2
  <2>3. g = [k \in 0 .. m + 1 |-> g[k]]
    OBVIOUS
  <2> HIDE DEF g
  <2>4. g = [k \in 0 .. m + 1 |-> IF k = 0 THEN i - 1 ELSE g[k - 1] \div 2]
    BY <2>2, <2>3
  <2>5. m + 1 \in Nat
    OBVIOUS
  <2>6. \E h : h = [k \in 0 .. m + 1 |-> IF k = 0 THEN i - 1 ELSE h[k - 1] \div 2]
    BY <2>4
  <2> QED
    BY <2>5, <2>6
<1> HIDE DEF D
<1>3. D = Nat
  <2>1. D \in SUBSET Nat
    BY DEF D
  <2> QED
    BY <1>1, <1>2, <2>1, InductiveSet
<1> QED
  BY <1>3 DEF D

(* Each level has a node where the leaf's place is. *)
LEMMA PlacesIs ==
  ASSUME NEW leaves, NEW n, IsList(leaves, n), NEW i \in 1 .. n
  PROVE  LET places == PlacesOf(leaves, i) IN
         /\ places[0] = i - 1
         /\ \A k \in 1 .. n : places[k] = places[k - 1] \div 2
         /\ \A k \in 0 .. n : \E m \in Nat \ {0} :
              Narrows(LevelsOf(leaves), n, k, m) /\ places[k] \in 0 .. m - 1
<1> DEFINE places == PlacesOf(leaves, i)
           levels == LevelsOf(leaves)
<1>1. n \in Nat \ {0} /\ Len(leaves) = n
  BY ListIs DEF IsList
<1>2. places = [k \in 0 .. n |-> IF k = 0 THEN i - 1 ELSE places[k - 1] \div 2]
  <2> DEFINE f == CHOOSE f : f = [k \in 0 .. n |-> IF k = 0 THEN i - 1
                                                   ELSE f[k - 1] \div 2]
  <2>1. f = [k \in 0 .. n |-> IF k = 0 THEN i - 1 ELSE f[k - 1] \div 2]
    <3>1. n \in Nat
      BY <1>1
    <3>2. \E g : g = [k \in 0 .. n |-> IF k = 0 THEN i - 1 ELSE g[k - 1] \div 2]
      BY <3>1, PlaceSteps
    <3> QED
      BY <3>2, Zenon
  <2>2. places = f
    BY <1>1 DEF PlacesOf
  <2> QED
    BY <2>1, <2>2
<1> HIDE DEF places
<1>3. places[0] = i - 1
  BY <1>1, <1>2
<1>4. \A k \in 1 .. n : places[k] = places[k - 1] \div 2
  <2> SUFFICES ASSUME NEW k \in 1 .. n
               PROVE  places[k] = places[k - 1] \div 2
    OBVIOUS
  <2>1. k \in 0 .. n /\ k # 0
    BY <1>1
  <2> QED
    BY <1>2, <2>1
<1>5. /\ levels[0] = leaves
      /\ \A k \in 1 .. n : levels[k] = Above(levels[k - 1])
      /\ \A k \in 0 .. n : \E m \in Nat \ {0} : Narrows(levels, n, k, m)
  BY LevelsIs
<1> HIDE DEF levels
<1> DEFINE In(k, m) == Narrows(levels, n, k, m) /\ places[k] \in 0 .. m - 1
           D == {k \in Nat : k <= n => \E m \in Nat \ {0} : In(k, m)}
<1>6. 0 \in D
  <2>1. Narrows(levels, n, 0, n)
    BY <1>1, <1>5 DEF Narrows
  <2>2. places[0] \in 0 .. n - 1
    BY <1>1, <1>3
  <2> QED
    BY <1>1, <2>1, <2>2
<1>7. ASSUME NEW k \in D
      PROVE  k + 1 \in D
  <2> SUFFICES ASSUME k + 1 <= n
               PROVE  \E m \in Nat \ {0} : In(k + 1, m)
    OBVIOUS
  <2>1. k \in Nat /\ k <= n /\ k + 1 \in 1 .. n /\ (k + 1) - 1 = k
        /\ k + 1 \in 0 .. n
    BY <1>1
  <2>2. PICK m \in Nat \ {0} : In(k, m)
    BY <2>1
  <2> HIDE DEF D
  <2>3. PICK l \in Nat \ {0} : Narrows(levels, n, k + 1, l)
    BY <1>5, <2>1
  <2>4. levels[k + 1] = Above(levels[k])
    BY <1>5, <2>1
  <2>5. IsList(levels[k + 1], (m + 1) \div 2)
    BY <2>2, <2>4, AboveIs DEF Narrows
  <2>6. l = (m + 1) \div 2
    <3>1. Len(levels[k + 1]) = l
      BY <2>3, ListIs DEF Narrows, IsList
    <3>2. Len(levels[k + 1]) = (m + 1) \div 2
      BY <2>5, ListIs DEF IsList
    <3> QED
      BY <3>1, <3>2
  <2>7. places[k + 1] = places[k] \div 2
    BY <1>4, <2>1
  <2>8. places[k + 1] \in 0 .. l - 1
    <3>1. \A x \in 0 .. m - 1 : x \div 2 \in 0 .. (m + 1) \div 2 - 1
      BY <2>2
    <3> QED
      BY <2>2, <2>6, <2>7, <3>1
  <2> QED
    BY <2>3, <2>8
<1>8. D = Nat
  <2>1. D \in SUBSET Nat
    OBVIOUS
  <2> HIDE DEF D
  <2> QED
    BY <1>6, <1>7, <2>1, InductiveSet
<1>9. \A k \in 0 .. n : \E m \in Nat \ {0} : In(k, m)
  <2> SUFFICES ASSUME NEW k \in 0 .. n
               PROVE  \E m \in Nat \ {0} : In(k, m)
    OBVIOUS
  <2>1. k \in Nat /\ k <= n
    BY <1>1
  <2>2. k \in D
    BY <1>8, <2>1
  <2> QED
    BY <2>1, <2>2
<1> QED
  BY <1>3, <1>4, <1>9 DEF places, levels

(* The last of 1 .. m + 1. *)
LEMMA TopIs ==
  ASSUME NEW m \in Nat, NEW s \in SUBSET (1 .. m + 1), m + 1 \in s
  PROVE  Max(s) = m + 1
<1>1. \A y \in s : m + 1 >= y
  OBVIOUS
<1>2. \A x \in s : (\A y \in s : x >= y) => x = m + 1
  <2> SUFFICES ASSUME NEW x \in s, \A y \in s : x >= y
               PROVE  x = m + 1
    OBVIOUS
  <2>1. x >= m + 1 /\ x \in 1 .. m + 1
    OBVIOUS
  <2> QED
    BY <2>1
<1> QED
  BY <1>1, <1>2 DEF Max

(* What a verifier computes, over the parts of a proof. *)
Folds(leaf, proof, n, f) ==
  f = [s \in SUBSET (1 .. n) |->
         IF s = {} THEN leaf ELSE pairHash(f[s \ {Max(s)}], proof[Max(s)])]

LEMMA FoldSteps ==
  ASSUME NEW leaf, NEW proof, NEW n \in Nat
  PROVE  \E f : Folds(leaf, proof, n, f)
<1> DEFINE D == {m \in Nat :
                   \E f : f = [s \in SUBSET (1 .. m) |->
                      IF s = {} THEN leaf
                      ELSE pairHash(f[s \ {Max(s)}], proof[Max(s)])]}
<1>1. 0 \in D
  <2> DEFINE f == [s \in SUBSET (1 .. 0) |-> leaf]
  <2>1. \A s \in SUBSET (1 .. 0) : s = {}
    OBVIOUS
  <2>2. f = [s \in SUBSET (1 .. 0) |->
               IF s = {} THEN leaf
               ELSE pairHash(f[s \ {Max(s)}], proof[Max(s)])]
    BY <2>1
  <2> QED
    BY <2>2
<1>2. ASSUME NEW m \in D
      PROVE  m + 1 \in D
  <2>0. m \in Nat
    OBVIOUS
  <2>1. PICK f : f = [s \in SUBSET (1 .. m) |->
                      IF s = {} THEN leaf
                      ELSE pairHash(f[s \ {Max(s)}], proof[Max(s)])]
    OBVIOUS
  <2> DEFINE g == [s \in SUBSET (1 .. m + 1) |->
                     IF s \in SUBSET (1 .. m) THEN f[s]
                     ELSE pairHash(f[s \ {m + 1}], proof[m + 1])]
  <2>2. ASSUME NEW s \in SUBSET (1 .. m + 1)
        PROVE  g[s] = IF s = {} THEN leaf
                      ELSE pairHash(g[s \ {Max(s)}], proof[Max(s)])
    <3>1. CASE s \in SUBSET (1 .. m)
      <4>1. g[s] = f[s]
        BY <3>1
      <4>2. f[s] = IF s = {} THEN leaf
                   ELSE pairHash(f[s \ {Max(s)}], proof[Max(s)])
        BY <2>1, <3>1
      <4>3. /\ s \ {Max(s)} \in SUBSET (1 .. m)
            /\ s \ {Max(s)} \in SUBSET (1 .. m + 1)
        BY <3>1
      <4>4. g[s \ {Max(s)}] = f[s \ {Max(s)}]
        BY <4>3
      <4> QED
        BY <4>1, <4>2, <4>4
    <3>2. CASE s \notin SUBSET (1 .. m)
      <4>1. m + 1 \in s
        BY <2>0, <3>2
      <4>2. Max(s) = m + 1 /\ s # {}
        BY <2>0, <4>1, TopIs
      <4>3. /\ s \ {m + 1} \in SUBSET (1 .. m)
            /\ s \ {m + 1} \in SUBSET (1 .. m + 1)
        BY <2>0
      <4>4. g[s \ {m + 1}] = f[s \ {m + 1}]
        BY <4>3
      <4>5. g[s] = pairHash(f[s \ {m + 1}], proof[m + 1])
        BY <3>2
      <4> QED
        BY <4>2, <4>4, <4>5
    <3> QED
      BY <3>1, <3>2
  <2>3. g = [s \in SUBSET (1 .. m + 1) |-> g[s]]
    OBVIOUS
  <2> HIDE DEF g
  <2>4. g = [s \in SUBSET (1 .. m + 1) |->
               IF s = {} THEN leaf
               ELSE pairHash(g[s \ {Max(s)}], proof[Max(s)])]
    BY <2>2, <2>3, Zenon
  <2>5. m + 1 \in Nat
    BY <2>0
  <2>6. \E h : h = [s \in SUBSET (1 .. m + 1) |->
               IF s = {} THEN leaf
               ELSE pairHash(h[s \ {Max(s)}], proof[Max(s)])]
    BY <2>4
  <2> QED
    BY <2>5, <2>6
<1> HIDE DEF D
<1>3. D = Nat
  <2>1. D \in SUBSET Nat
    BY DEF D
  <2> QED
    BY <1>1, <1>2, <2>1, InductiveSet
<1> QED
  BY <1>3 DEF D, Folds

(* Verification takes the parts of a proof in their order. *)
Verifies(leaf, proof, root, n, f) ==
  /\ f[{}] = leaf
  /\ \A k \in 1 .. n : f[1 .. k] = pairHash(f[1 .. k - 1], proof[k])
  /\ verifyLeaf(leaf, proof, root) <=> f[1 .. n] = root

LEMMA VerifyIs ==
  ASSUME NEW leaf, NEW proof, NEW root, NEW n \in Nat, DOMAIN proof = 1 .. n
  PROVE  \E f : Verifies(leaf, proof, root, n, f)
<1> DEFINE f == CHOOSE f : f = [s \in SUBSET (1 .. n) |->
                      IF s = {} THEN leaf
                      ELSE pairHash(f[s \ {Max(s)}], proof[Max(s)])]
<1>1. f = [s \in SUBSET (1 .. n) |->
             IF s = {} THEN leaf
             ELSE pairHash(f[s \ {Max(s)}], proof[Max(s)])]
  <2>1. \E g : Folds(leaf, proof, n, g)
    BY FoldSteps
  <2> QED
    BY <2>1, Zenon DEF Folds
<1>2. verifyLeaf(leaf, proof, root) <=> f[1 .. n] = root
  BY DEF verifyLeaf, FoldLeft, MapThenFoldSet
<1> HIDE DEF f
<1>3. f[{}] = leaf
  BY <1>1
<1>4. ASSUME NEW k \in 1 .. n
      PROVE  f[1 .. k] = pairHash(f[1 .. k - 1], proof[k])
  <2>1. k - 1 \in Nat /\ (k - 1) + 1 = k
    OBVIOUS
  <2>2. 1 .. k \in SUBSET (1 .. n) /\ 1 .. k # {} /\ k \in 1 .. k
    BY <2>1
  <2>3. Max(1 .. k) = k
    <3>1. 1 .. k \in SUBSET (1 .. (k - 1) + 1) /\ (k - 1) + 1 \in 1 .. k
      BY <2>1, <2>2
    <3>2. Max(1 .. k) = (k - 1) + 1
      BY <2>1, <3>1, TopIs
    <3> QED
      BY <2>1, <3>2
  <2>4. (1 .. k) \ {k} = 1 .. k - 1
    OBVIOUS
  <2>5. f[1 .. k] = pairHash(f[(1 .. k) \ {Max(1 .. k)}], proof[Max(1 .. k)])
    BY <1>1, <2>2
  <2> QED
    BY <2>3, <2>4, <2>5
<1> QED
  BY <1>2, <1>3, <1>4 DEF Verifies

(* A leaf, hashed with its siblings from level to level, is the root. *)
LEMMA ProofVerifies ==
  ASSUME NEW leaves, NEW n, IsList(leaves, n), NEW i \in 1 .. n
  PROVE  verifyLeaf(leaves[i], merkleProof(leaves, i), merkleRoot(leaves))
<1> DEFINE levels == LevelsOf(leaves)
           places == PlacesOf(leaves, i)
           h == Height(leaves)
           proof == merkleProof(leaves, i)
           sibling(k) == IF places[k] % 2 = 1 THEN places[k] - 1
                         ELSE places[k] + 1
<1>1. n \in Nat \ {0} /\ Len(leaves) = n
  BY ListIs DEF IsList
<1>2. h \in 0 .. n /\ Len(levels[h]) = 1
  BY HeightIs
<1>3. /\ levels[0] = leaves
      /\ \A k \in 1 .. n : levels[k] = Above(levels[k - 1])
  BY LevelsIs
<1>4. /\ places[0] = i - 1
      /\ \A k \in 1 .. n : places[k] = places[k - 1] \div 2
      /\ \A k \in 0 .. n : \E m \in Nat \ {0} :
           Narrows(levels, n, k, m) /\ places[k] \in 0 .. m - 1
  BY PlacesIs
<1>5. /\ DOMAIN proof = 1 .. h
      /\ \A k \in 1 .. h :
           proof[k] = levels[k - 1][IF sibling(k - 1) < Len(levels[k - 1])
                                    THEN sibling(k - 1) + 1
                                    ELSE places[k - 1] + 1]
  BY DEF merkleProof
<1>6. merkleRoot(leaves) = levels[h][1]
  <2>1. leaves # <<>>
    BY <1>1
  <2> QED
    BY <2>1 DEF merkleRoot
<1> HIDE DEF levels, places, h, proof
<1>7. PICK f : Verifies(leaves[i], proof, levels[h][1], h, f)
  <2>1. h \in Nat
    BY <1>1, <1>2
  <2>2. \E f : Verifies(leaves[i], proof, levels[h][1], h, f)
    BY <1>5, <2>1, VerifyIs
  <2> QED
    BY <2>2
<1>8. /\ f[{}] = leaves[i]
      /\ \A k \in 1 .. h : f[1 .. k] = pairHash(f[1 .. k - 1], proof[k])
      /\ verifyLeaf(leaves[i], proof, levels[h][1]) <=> f[1 .. h] = levels[h][1]
  BY <1>7 DEF Verifies
<1> DEFINE D == {k \in Nat : k <= h => f[1 .. k] = levels[k][places[k] + 1]}
<1>9. 0 \in D
  <2>1. 1 .. 0 = {} /\ (i - 1) + 1 = i
    BY <1>1
  <2> QED
    BY <1>3, <1>4, <1>8, <2>1
<1>10. ASSUME NEW k \in D
       PROVE  k + 1 \in D
  <2> SUFFICES ASSUME k + 1 <= h
               PROVE  f[1 .. k + 1] = levels[k + 1][places[k + 1] + 1]
    OBVIOUS
  <2>1. /\ k \in Nat /\ k <= h /\ k + 1 \in 1 .. h /\ k + 1 \in 1 .. n
        /\ k \in 0 .. n /\ (k + 1) - 1 = k
    BY <1>1, <1>2
  <2>2. f[1 .. k] = levels[k][places[k] + 1]
    BY <2>1
  <2> HIDE DEF D
  <2>3. PICK m \in Nat \ {0} : Narrows(levels, n, k, m) /\ places[k] \in 0 .. m - 1
    BY <1>4, <2>1
  <2>4. places[k + 1] = places[k] \div 2 /\ levels[k + 1] = Above(levels[k])
    BY <1>3, <1>4, <2>1
  <2> DEFINE level == levels[k]
             p == places[k]
             q == p \div 2 + 1
             s == sibling(k)
  <2>5. f[1 .. k + 1] = pairHash(level[p + 1], proof[k + 1])
    BY <1>8, <2>1, <2>2
  <2>6. /\ Len(level) = m
        /\ \A j \in 1 .. (m + 1) \div 2 :
             Above(level)[j] =
               pairHash(level[2 * j - 1],
                        IF 2 * j <= m THEN level[2 * j] ELSE level[2 * j - 1])
    BY <2>3, AboveIs DEF Narrows
  <2>7. proof[k + 1] = level[IF s < m THEN s + 1 ELSE p + 1]
    BY <1>5, <2>1, <2>6
  <2>8. p \in 0 .. m - 1
    BY <2>3
  <2> HIDE DEF level, p
  <2>9. /\ q \in 1 .. (m + 1) \div 2
        /\ p % 2 = 1 => 2 * q <= m /\ 2 * q = p + 1 /\ p - 1 < m
                        /\ 2 * q - 1 = (p - 1) + 1
        /\ p % 2 # 1 => 2 * q - 1 = p + 1 /\ (2 * q <= m <=> p + 1 < m)
                        /\ 2 * q = (p + 1) + 1
    BY <2>8
  <2>10. Above(level)[q] =
           pairHash(level[2 * q - 1],
                    IF 2 * q <= m THEN level[2 * q] ELSE level[2 * q - 1])
    BY <2>6, <2>9
  <2>11. s = IF p % 2 = 1 THEN p - 1 ELSE p + 1
    BY DEF p
  <2> HIDE DEF q, s
  <2>12. \A l, r : pairHash(l, r) = pairHash(r, l)
    BY DEF pairHash
  <2>13. Above(level)[q] = pairHash(level[p + 1], proof[k + 1])
    <3>1. CASE p % 2 = 1
      <4>1. proof[k + 1] = level[(p - 1) + 1]
        BY <2>7, <2>9, <2>11, <3>1
      <4>2. Above(level)[q] = pairHash(level[(p - 1) + 1], level[p + 1])
        BY <2>9, <2>10, <3>1
      <4> QED
        BY <2>12, <4>1, <4>2
    <3>2. CASE p % 2 # 1
      <4>1. proof[k + 1] = level[IF p + 1 < m THEN (p + 1) + 1 ELSE p + 1]
        BY <2>7, <2>11, <3>2
      <4>2. Above(level)[q] = pairHash(level[p + 1], IF p + 1 < m THEN level[(p + 1) + 1]
                                                     ELSE level[p + 1])
        BY <2>9, <2>10, <3>2
      <4> QED
        BY <4>1, <4>2
    <3> QED
      BY <3>1, <3>2
  <2> QED
    BY <2>4, <2>5, <2>13 DEF level, p, q
<1>11. f[1 .. h] = levels[h][places[h] + 1]
  <2>1. D = Nat
    <3>1. D \in SUBSET Nat
      OBVIOUS
    <3> HIDE DEF D
    <3> QED
      BY <1>9, <1>10, <3>1, InductiveSet
  <2>2. h \in Nat /\ h <= h
    BY <1>1, <1>2
  <2>3. h \in D
    BY <2>1, <2>2
  <2> QED
    BY <2>2, <2>3
<1>12. places[h] = 0
  <2>1. PICK m \in Nat \ {0} : Narrows(levels, n, h, m) /\ places[h] \in 0 .. m - 1
    BY <1>2, <1>4
  <2>2. Len(levels[h]) = m
    BY <2>1, ListIs DEF Narrows, IsList
  <2>3. m = 1
    BY <1>2, <2>2
  <2> QED
    BY <2>1, <2>3
<1>13. f[1 .. h] = levels[h][1]
  BY <1>11, <1>12
<1> QED
  BY <1>6, <1>8, <1>13 DEF proof

----------------------------------------------------------------------------
(* The last invariant: a plan's entries are a list.                        *)
EntriesListed(plan) == \E n \in Nat : DOMAIN plan.entries = 1 .. n

Listed == job # Idle => EntriesListed(job.plan)

(* What build makes has one. *)
LEMMA BuildLists ==
  ASSUME RoundAssumption, Inv, NEW e \in Epochs, NEW amount, NEW list
  PROVE  EntriesListed(build(Inputs(e, amount, list)))
<1> DEFINE in == Inputs(e, amount, list)
<1>1. in.aged \in [Wallets -> Nat] /\ IsFiniteSet(Wallets)
  BY DEF Inv, Shapes, RoundAssumption, Inputs
<1> HIDE DEF in
<1>2. IsFiniteSet(Eligible(in))
  BY <1>1, EligibleWeights
<1>3. Cardinality(Eligible(in)) \in Nat
  BY <1>2, FS_CardinalityType
<1>4. DOMAIN Entries(in) = 1 .. Cardinality(Eligible(in))
  BY DEF Entries, InOrder
<1>5. build(in).entries = Entries(in)
  BY DEF build
<1> QED
  BY <1>3, <1>4, <1>5 DEF EntriesListed, in

(* No step makes another plan than Build and Resume. *)
LEMMA NextListed ==
  ASSUME RoundAssumption, Inv, Listed, [Next]_vars
  PROVE  Listed'
<1>1. ASSUME Build
      PROVE  Listed'
  <2>1. /\ settleableEpoch(now) \in Epochs
        /\ job' = Work("built", build(Inputs(settleableEpoch(now), payout_wsol, platform)),
                       NotSwapped(build(Inputs(settleableEpoch(now), payout_wsol,
                                               platform))), platform)
    BY <1>1 DEF Build
  <2>2. EntriesListed(build(Inputs(settleableEpoch(now), payout_wsol, platform)))
    BY <2>1, BuildLists
  <2>3. job'.plan = build(Inputs(settleableEpoch(now), payout_wsol, platform))
    BY <2>1, WorkIsNotIdle
  <2> QED
    BY <2>2, <2>3 DEF Listed, EntriesListed
<1>2. ASSUME NEW e \in Epochs, Resume(e)
      PROVE  Listed'
  <2> DEFINE plan == build(Inputs(e, epoch_state[e].payout_amount,
                                  epoch_state[e].allowed))
  <2>1. job' = Work("working", plan,
                    [m \in DOMAIN plan.buckets |->
                       IF bucket_state[<<e, m>>].swapped THEN m ELSE "none"],
                    epoch_state[e].allowed)
    BY <1>2 DEF Resume
  <2>2. EntriesListed(plan)
    BY BuildLists
  <2> HIDE DEF plan
  <2>3. job'.plan = plan
    BY <2>1, WorkIsNotIdle
  <2> QED
    BY <2>2, <2>3 DEF Listed, EntriesListed
<1>3. ASSUME job' # Idle => job # Idle /\ job'.plan = job.plan
      PROVE  Listed'
  BY <1>3 DEF Listed, EntriesListed
<1>4. CASE Settle
  <2>1. job # Idle /\ job' = [job EXCEPT !.at = "working"]
    BY <1>4, AtIsNotIdle DEF Settle
  <2>2. job = Work(job.at, job.plan, job.landed, job.allowed)
    BY <2>1 DEF Inv, JobShape
  <2>3. job'.plan = job.plan
    BY <2>1, <2>2 DEF Work
  <2> QED
    BY <1>3, <2>1, <2>3
<1>5. CASE Publish \/ Finish \/ Crash
  <2>1. job' = Idle \/ job' = job
    BY <1>5 DEF Publish, Finish, Crash, Forget
  <2> QED
    BY <1>3, <2>1
<1>6. ASSUME NEW m \in Mints, SwapBucket(m)
      PROVE  Listed'
  <2>1. job # Idle
    BY <1>6, AtIsNotIdle DEF SwapBucket
  <2>2. job = Work(job.at, job.plan, job.landed, job.allowed)
    BY <2>1 DEF Inv, JobShape
  <2>3. job' = Idle \/ job' = [job EXCEPT !.landed[m] = Target(m)]
    BY <1>6 DEF SwapBucket, Forget
  <2>4. job' = Idle \/ job'.plan = job.plan
    BY <2>2, <2>3 DEF Work
  <2> QED
    BY <1>3, <2>1, <2>4
<1>7. ASSUME NEW m \in Mints, Distribute(m)
      PROVE  Listed'
  BY <1>3, <1>7 DEF Distribute
<1>8. CASE \/ \E e \in Epochs : Index(e)
           \/ Tick \/ Credit \/ ApplyProposal
           \/ \E m \in Degrading : Route(m)
           \/ \E message \in Message : Elect(message) \/ SubmitElection(message)
           \/ UNCHANGED vars
  <2>1. job' = job
    BY <1>8 DEF Index, Tick, Credit, ApplyProposal, Route, Elect,
        SubmitElection, vars
  <2> QED
    BY <1>3, <2>1
<1> QED
  BY <1>1, <1>2, <1>4, <1>5, <1>6, <1>7, <1>8 DEF Next

(* For any number of wallets, hence trees of every height: each eligible   *)
(* wallet of a plan has a proof of its leaf against the root that is going *)
(* to be anchored.                                                         *)
THEOREM ProofsVerifyCorrect == Spec => []ProofsVerify
<1>1. Init => Listed
  BY DEF Init, Listed
<1>2. Inv /\ Listed /\ [Next]_vars => Listed'
  BY NextListed, RoundAssumption
<1>3. Inv /\ Listed => ProofsVerify
  <2> SUFFICES ASSUME Inv, Listed, job.at = "built"
               PROVE  LET entries == job.plan.entries
                          leaves == [i \in DOMAIN entries |-> leafFor(entries[i])]
                      IN \A i \in DOMAIN leaves :
                           verifyLeaf(leaves[i], merkleProof(leaves, i),
                                      job.plan.merkleRoot)
    BY DEF ProofsVerify
  <2> DEFINE entries == job.plan.entries
             leaves == [i \in DOMAIN entries |-> leafFor(entries[i])]
  <2>1. job # Idle
    BY AtIsNotIdle
  <2>2. job.plan.merkleRoot = merkleRoot(leaves)
    BY <2>1 DEF Inv, RootsStand, JobRoot, RootOf
  <2>3. PICK n \in Nat : DOMAIN entries = 1 .. n
    BY <2>1 DEF Listed, EntriesListed
  <2>4. leaves = [i \in 1 .. n |-> leaves[i]] /\ DOMAIN leaves = 1 .. n
    BY <2>3
  <2> HIDE DEF leaves, entries
  <2>5. ASSUME NEW i \in DOMAIN leaves
        PROVE  verifyLeaf(leaves[i], merkleProof(leaves, i), merkleRoot(leaves))
    <3>1. i \in 1 .. n /\ IsList(leaves, n)
      BY <2>4 DEF IsList
    <3> QED
      BY <3>1, ProofVerifies
  <2> QED
    BY <2>2, <2>5 DEF leaves, entries
<1> QED
  BY <1>1, <1>2, <1>3, InvCorrect, PTL DEF Spec

=============================================================================
