--------------------------- MODULE UnitSumsProofs ---------------------------
(***************************************************************************)
(* What the sums of UnitSums satisfy, and two facts about sets of numbers. *)
(* These are the only facts about sums that the proofs use.                *)
(***************************************************************************)
EXTENDS UnitSums, FiniteSetTheorems, WellFoundedInduction, TLAPS

(* A set of numbers that has 0, and the next of each it has, has them all. *)
LEMMA InductiveSet ==
  ASSUME NEW T \in SUBSET Nat, 0 \in T, \A n \in T : n + 1 \in T
  PROVE  T = Nat
<1> DEFINE R == OpToRel(<, Nat)
           missing == Nat \ T
<1>1. \A m, n \in Nat : m < n => <<m, n>> \in R
  BY DEF OpToRel
<1>2. IsWellFoundedOn(R, Nat)
  BY NatLessThanWellFounded
<1> HIDE DEF R
<1> SUFFICES ASSUME missing # {}
             PROVE  FALSE
  OBVIOUS
<1>3. missing \subseteq Nat
  OBVIOUS
<1> HIDE DEF missing
<1>4. PICK n \in missing : \A m \in missing : ~ (<<m, n>> \in R)
  BY <1>2, <1>3, WFMin
<1> USE DEF missing
<1>5. n \in Nat /\ n # 0
  OBVIOUS
<1>6. n - 1 \in Nat /\ n - 1 < n /\ (n - 1) + 1 = n
  BY <1>5
<1>7. n - 1 \in T
  BY <1>1, <1>4, <1>5, <1>6
<1> QED
  BY <1>6, <1>7

(* A set of naturals has a least element. *)
LEMMA LeastOf ==
  ASSUME NEW S \in SUBSET Nat, S # {}
  PROVE  \E x \in S : \A y \in S : x <= y
<1> DEFINE D == {m \in Nat : \A y \in S : m <= y}
<1>1. 0 \in D
  OBVIOUS
<1>2. D # Nat
  <2>1. PICK y \in S : TRUE
    OBVIOUS
  <2>2. y + 1 \in Nat /\ ~(y + 1 <= y)
    OBVIOUS
  <2>3. y + 1 \notin D
    BY <2>2
  <2> QED
    BY <2>2, <2>3
<1>3. PICK m \in D : m + 1 \notin D
  <2>1. D \in SUBSET Nat
    OBVIOUS
  <2> HIDE DEF D
  <2> QED
    BY <1>1, <1>2, <2>1, InductiveSet
<1>4. PICK y \in S : ~(m + 1 <= y)
  <2>1. m \in Nat /\ m + 1 \in Nat
    OBVIOUS
  <2> QED
    BY <1>3, <2>1
<1>5. m \in Nat /\ y \in Nat /\ \A z \in S : m <= z
  OBVIOUS
<1>6. y = m
  BY <1>4, <1>5
<1> QED
  BY <1>5, <1>6

(* The numbers of a finite set, each in the place that its rank gives it. *)
LEMMA Ranked ==
  ASSUME NEW S \in SUBSET Nat, IsFiniteSet(S)
  PROVE  LET n == Cardinality(S)
             p == [i \in 1 .. n |->
                     CHOOSE w \in S : Cardinality({v \in S : v < w}) = i - 1]
         IN  /\ n \in Nat
             /\ \A w \in S : \E i \in 1 .. n : p[i] = w
             /\ \A i \in 1 .. n : p[i] \in S
             /\ \A i, j \in 1 .. n : i < j => p[i] < p[j]
<1> DEFINE n == Cardinality(S)
           below(w) == {v \in S : v < w}
           p == [i \in 1 .. n |->
                   CHOOSE w \in S : Cardinality({v \in S : v < w}) = i - 1]
           rank == [w \in S |-> Cardinality(below(w))]
<1>1. n \in Nat
  BY FS_CardinalityType
<1>2. ASSUME NEW w \in S
      PROVE  /\ IsFiniteSet(below(w))
             /\ Cardinality(below(w)) \in Nat
             /\ Cardinality(below(w)) < n
  <2>1. below(w) \in SUBSET S /\ w \notin below(w)
    OBVIOUS
  <2> HIDE DEF below
  <2>2. IsFiniteSet(below(w)) /\ Cardinality(below(w)) <= n
        /\ (n = Cardinality(below(w)) => S = below(w))
    BY <2>1, FS_Subset
  <2>3. Cardinality(below(w)) \in Nat
    BY <2>2, FS_CardinalityType
  <2> QED
    BY <1>1, <2>1, <2>2, <2>3
<1>3. ASSUME NEW v \in S, NEW w \in S, v < w
      PROVE  Cardinality(below(v)) < Cardinality(below(w))
  <2>1. \A u \in S : u < v => u < w
    BY <1>3
  <2>2. ~(v < v)
    OBVIOUS
  <2>3. below(v) \in SUBSET below(w) /\ v \in below(w) /\ v \notin below(v)
    BY <1>3, <2>1, <2>2, Zenon
  <2> HIDE DEF below
  <2>4. Cardinality(below(v)) <= Cardinality(below(w))
        /\ (Cardinality(below(w)) = Cardinality(below(v)) => below(w) = below(v))
    BY <1>2, <2>3, FS_Subset
  <2> QED
    BY <1>2, <2>3, <2>4
<1>4. \A v, w \in S : Cardinality(below(v)) = Cardinality(below(w)) => v = w
  <2> SUFFICES ASSUME NEW v \in S, NEW w \in S, v # w
               PROVE  Cardinality(below(v)) # Cardinality(below(w))
    OBVIOUS
  <2>1. v < w \/ w < v
    OBVIOUS
  <2> HIDE DEF below
  <2>2. Cardinality(below(v)) \in Nat /\ Cardinality(below(w)) \in Nat
    BY <1>2
  <2> QED
    BY <1>3, <2>1, <2>2
<1>5. p = [i \in 1 .. n |->
               CHOOSE w \in S : Cardinality(below(w)) = i - 1]
  OBVIOUS
<1> HIDE DEF below, p
<1>6. rank \in Injection(S, 0 .. n - 1)
  <2>1. rank \in [S -> 0 .. n - 1]
    BY <1>1, <1>2
  <2>2. \A v, w \in S : rank[v] = rank[w] => v = w
    BY <1>4
  <2> HIDE DEF rank
  <2> QED
    BY <2>1, <2>2 DEF Injection, IsInjective
<1>7. IsFiniteSet(0 .. n - 1) /\ Cardinality(0 .. n - 1) = n
  <2> HIDE DEF n
  <2>1. 0 \in Int /\ n - 1 \in Int
    BY <1>1
  <2>2. IsFiniteSet(0 .. n - 1)
        /\ Cardinality(0 .. n - 1) = IF 0 > n - 1 THEN 0 ELSE (n - 1) - 0 + 1
    BY <2>1, FS_Interval
  <2> QED
    BY <1>1, <2>2
<1>8. rank \in Surjection(S, 0 .. n - 1)
  <2> HIDE DEF rank
  <2> QED
    BY <1>6, <1>7, FS_Injection
<1>9. \A i \in 1 .. n : \E w \in S : Cardinality(below(w)) = i - 1
  <2> TAKE i \in 1 .. n
  <2>1. i - 1 \in 0 .. n - 1
    BY <1>1
  <2>2. \E w \in S : rank[w] = i - 1
    <3> HIDE DEF rank
    <3> QED
      BY <1>8, <2>1 DEF Surjection
  <2> QED
    BY <2>2
<1>10. \A i \in 1 .. n : /\ p[i] \in S
                         /\ Cardinality(below(p[i])) = i - 1
  BY <1>5, <1>9
<1>11. ASSUME NEW w \in S
       PROVE  \E i \in 1 .. n : p[i] = w
  <2> DEFINE i == Cardinality(below(w)) + 1
  <2>1. i \in 1 .. n /\ i - 1 = Cardinality(below(w))
    BY <1>1, <1>2
  <2>2. p[i] \in S
        /\ Cardinality(below(p[i])) = Cardinality(below(w))
    BY <1>10, <2>1
  <2> QED
    BY <1>4, <2>1, <2>2
<1>12. ASSUME NEW i \in 1 .. n, NEW j \in 1 .. n, i < j
       PROVE  p[i] < p[j]
  <2>1. p[i] \in S /\ p[j] \in S
        /\ Cardinality(below(p[i])) = i - 1 /\ Cardinality(below(p[j])) = j - 1
    BY <1>10
  <2>2. p[i] \in Nat /\ p[j] \in Nat
    BY <2>1
  <2>3. CASE p[j] < p[i]
    <3>1. Cardinality(below(p[j])) < Cardinality(below(p[i]))
      BY <1>3, <2>1, <2>3
    <3> QED
      BY <1>1, <1>12, <2>1, <3>1
  <2>4. p[i] # p[j]
    BY <1>1, <1>12, <2>1
  <2> QED
    BY <2>2, <2>3, <2>4
<1> HIDE DEF n
<1>13. /\ n \in Nat
       /\ \A w \in S : \E i \in 1 .. n : p[i] = w
       /\ \A i \in 1 .. n : p[i] \in S
       /\ \A i, j \in 1 .. n : i < j => p[i] < p[j]
  BY <1>1, <1>10, <1>11, <1>12
<1> QED
  BY <1>13 DEF n, p

(* The units of one account are as many as its amount. *)
LEMMA UnitsOfOne ==
  ASSUME NEW k, NEW n \in Nat
  PROVE  /\ IsFiniteSet({k} \X (1 .. n))
         /\ Cardinality({k} \X (1 .. n)) = n
<1> DEFINE g == [i \in 1 .. n |-> <<k, i>>]
<1>1. IsFiniteSet(1 .. n) /\ Cardinality(1 .. n) = n
  BY FS_Interval
<1>2. g \in Bijection(1 .. n, {k} \X (1 .. n))
  <2>1. g \in [1 .. n -> {k} \X (1 .. n)]
    OBVIOUS
  <2>2. \A i, j \in 1 .. n : g[i] = g[j] => i = j
    OBVIOUS
  <2>3. ASSUME NEW u \in {k} \X (1 .. n)
        PROVE  \E i \in 1 .. n : g[i] = u
    <3>1. u[2] \in 1 .. n /\ u = <<k, u[2]>>
      OBVIOUS
    <3> QED
      BY <3>1
  <2> HIDE DEF g
  <2> QED
    BY <2>1, <2>2, <2>3 DEF Bijection, Injection, Surjection, IsInjective
<1>3. ExistsBijection(1 .. n, {k} \X (1 .. n))
  BY <1>2 DEF ExistsBijection
<1> QED
  BY <1>1, <1>3, FS_Bijection

(* A sum over finitely many accounts is a natural number. *)
LEMMA UnitsFinite ==
  ASSUME NEW S, IsFiniteSet(S), NEW f \in [S -> Nat]
  PROVE  /\ IsFiniteSet(Units(f))
         /\ Total(f) \in Nat
<1> DEFINE parts == {{k} \X (1 .. f[k]) : k \in S}
           g == [k \in S |-> {k} \X (1 .. f[k])]
<1>1. g \in Surjection(S, parts)
  BY DEF Surjection
<1>2. IsFiniteSet(parts)
  BY <1>1, FS_Surjection
<1>3. ASSUME NEW p \in parts
      PROVE  IsFiniteSet(p)
  <2>1. PICK k \in S : p = {k} \X (1 .. f[k])
    OBVIOUS
  <2>2. f[k] \in Nat
    OBVIOUS
  <2> QED
    BY <2>1, <2>2, UnitsOfOne
<1>4. IsFiniteSet(UNION parts)
  BY <1>2, <1>3, FS_UNION
<1>5. Units(f) = UNION parts
  BY DEF Units
<1> QED
  BY <1>4, <1>5, FS_CardinalityType DEF Total

(* Changing the amount of one account changes the sum by the difference. *)
LEMMA TotalUpdate ==
  ASSUME NEW S, IsFiniteSet(S), NEW f \in [S -> Nat], NEW g \in [S -> Nat],
         NEW s \in S, \A k \in S \ {s} : g[k] = f[k]
  PROVE  Total(g) + f[s] = Total(f) + g[s]
<1> DEFINE rest == UNION {{k} \X (1 .. f[k]) : k \in S \ {s}}
           mine(n) == {s} \X (1 .. n)
<1>1. Units(f) = rest \cup mine(f[s])
  BY DEF Units
<1>2. Units(g) = rest \cup mine(g[s])
  BY DEF Units
<1>3. IsFiniteSet(Units(f)) /\ rest \in SUBSET Units(f)
  BY <1>1, UnitsFinite
<1>4. IsFiniteSet(rest)
  BY <1>3, FS_Subset
<1>5. rest \cap mine(f[s]) = {} /\ rest \cap mine(g[s]) = {}
  OBVIOUS
<1>6. Cardinality({}) = 0 /\ Cardinality(rest) \in Nat
  BY <1>4, FS_EmptySet, FS_CardinalityType
<1>7. /\ IsFiniteSet(mine(f[s])) /\ Cardinality(mine(f[s])) = f[s]
      /\ IsFiniteSet(mine(g[s])) /\ Cardinality(mine(g[s])) = g[s]
  BY UnitsOfOne
<1>8. Total(f) = Cardinality(rest) + f[s]
  <2> HIDE DEF rest, mine
  <2>1. Cardinality(rest \cup mine(f[s])) =
          Cardinality(rest) + Cardinality(mine(f[s]))
            - Cardinality(rest \cap mine(f[s]))
    BY <1>4, <1>7, FS_Union
  <2>2. Cardinality(rest \cap mine(f[s])) = 0
    BY <1>5, <1>6
  <2>3. Total(f) = Cardinality(rest \cup mine(f[s]))
    BY <1>1 DEF Total
  <2>4. f[s] \in Nat
    OBVIOUS
  <2> QED
    BY <2>1, <2>2, <2>3, <2>4, <1>6, <1>7
<1>9. Total(g) = Cardinality(rest) + g[s]
  <2> HIDE DEF rest, mine
  <2>1. Cardinality(rest \cup mine(g[s])) =
          Cardinality(rest) + Cardinality(mine(g[s]))
            - Cardinality(rest \cap mine(g[s]))
    BY <1>4, <1>7, FS_Union
  <2>2. Cardinality(rest \cap mine(g[s])) = 0
    BY <1>5, <1>6
  <2>3. Total(g) = Cardinality(rest \cup mine(g[s]))
    BY <1>2 DEF Total
  <2>4. g[s] \in Nat
    OBVIOUS
  <2> QED
    BY <2>1, <2>2, <2>3, <2>4, <1>6, <1>7
<1> QED
  <2> HIDE DEF rest, mine
  <2> QED BY <1>6, <1>8, <1>9

(* Amounts that are all zero add up to zero. *)
LEMMA TotalZero ==
  ASSUME NEW S, NEW f \in [S -> Nat], \A k \in S : f[k] = 0
  PROVE  Total(f) = 0
<1>1. Units(f) = {}
  BY DEF Units
<1> QED
  BY <1>1, FS_EmptySet DEF Total

(* Larger amounts have a larger sum. *)
LEMMA TotalMonotone ==
  ASSUME NEW S, IsFiniteSet(S), NEW f \in [S -> Nat], NEW g \in [S -> Nat],
         \A k \in S : f[k] <= g[k]
  PROVE  Total(f) <= Total(g)
<1>1. ASSUME NEW k \in S, NEW i \in 1 .. f[k]
      PROVE  i \in 1 .. g[k]
  <2>1. f[k] \in Nat /\ g[k] \in Nat /\ f[k] <= g[k]
    OBVIOUS
  <2> QED
    BY <2>1
<1>2. Units(f) \in SUBSET Units(g)
  BY <1>1 DEF Units
<1>3. IsFiniteSet(Units(g))
  BY UnitsFinite
<1> QED
  BY <1>2, <1>3, FS_Subset DEF Total

(* Amounts given to accounts that had none add to the sum. *)
LEMMA TotalGiven ==
  ASSUME NEW S, IsFiniteSet(S), NEW f \in [S -> Nat], NEW T \in SUBSET S,
         NEW h \in [T -> Nat], NEW g \in [S -> Nat],
         \A k \in T : f[k] = 0 /\ g[k] = h[k],
         \A k \in S \ T : g[k] = f[k]
  PROVE  Total(g) = Total(f) + Total(h)
<1>1. Units(g) = Units(f) \cup Units(h)
  <2>1. \A k \in T : {k} \X (1 .. f[k]) = {}
    OBVIOUS
  <2>2. Units(f) = UNION {{k} \X (1 .. f[k]) : k \in S \ T}
    BY <2>1 DEF Units
  <2>3. Units(h) = UNION {{k} \X (1 .. g[k]) : k \in T}
    BY DEF Units
  <2>4. Units(g) = (UNION {{k} \X (1 .. g[k]) : k \in S \ T})
                     \cup (UNION {{k} \X (1 .. g[k]) : k \in T})
    BY DEF Units
  <2>5. UNION {{k} \X (1 .. f[k]) : k \in S \ T} =
          UNION {{k} \X (1 .. g[k]) : k \in S \ T}
    OBVIOUS
  <2> QED
    BY <2>2, <2>3, <2>4, <2>5
<1>2. Units(f) \cap Units(h) = {}
  BY DEF Units
<1>3. IsFiniteSet(T)
  BY FS_Subset
<1>4. /\ IsFiniteSet(Units(f)) /\ IsFiniteSet(Units(h))
      /\ Total(f) \in Nat /\ Total(h) \in Nat
  BY <1>3, UnitsFinite
<1>5. Cardinality(Units(f) \cup Units(h)) =
        Cardinality(Units(f)) + Cardinality(Units(h))
          - Cardinality(Units(f) \cap Units(h))
  BY <1>4, FS_Union
<1> QED
  BY <1>1, <1>2, <1>4, <1>5, FS_EmptySet DEF Total
=============================================================================
