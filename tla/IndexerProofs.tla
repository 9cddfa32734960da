--------------------------- MODULE IndexerProofs ---------------------------
(***************************************************************************)
(* Proofs about the indexer and its file store, module Indexer.            *)
(***************************************************************************)
EXTENDS Indexer, UnitSumsProofs, SequenceTheorems

----------------------------------------------------------------------------
(* Sequences.                                                              *)

(* What FlattenSeq is made of, a sequence at a time. *)
LEMMA FlattenSteps ==
  ASSUME NEW s, NEW n \in Nat
  PROVE  \E f : f = [i \in 1 .. n |-> IF i = 1 THEN s[i] ELSE f[i - 1] \o s[i]]
<1> DEFINE D == {m \in Nat :
                   \E f : f = [i \in 1 .. m |-> IF i = 1 THEN s[i]
                                                ELSE f[i - 1] \o s[i]]}
<1>1. 0 \in D
  <2> DEFINE f == [i \in 1 .. 0 |-> 0]
  <2>1. f = [i \in 1 .. 0 |-> IF i = 1 THEN s[i] ELSE f[i - 1] \o s[i]]
    OBVIOUS
  <2> QED
    BY <2>1
<1>2. ASSUME NEW m \in D
      PROVE  m + 1 \in D
  <2>1. PICK f : f = [i \in 1 .. m |-> IF i = 1 THEN s[i] ELSE f[i - 1] \o s[i]]
    OBVIOUS
  <2> DEFINE g == [i \in 1 .. m + 1 |-> IF i <= m THEN f[i]
                                        ELSE IF i = 1 THEN s[i]
                                        ELSE f[m] \o s[i]]
  <2>2. ASSUME NEW i \in 1 .. m + 1
        PROVE  g[i] = IF i = 1 THEN s[i] ELSE g[i - 1] \o s[i]
    <3>1. CASE i <= m
      <4>1. i \in 1 .. m /\ g[i] = f[i]
        BY <3>1
      <4>2. f[i] = IF i = 1 THEN s[i] ELSE f[i - 1] \o s[i]
        BY <2>1, <4>1
      <4>3. i # 1 => i - 1 \in 1 .. m + 1 /\ i - 1 <= m
        BY <3>1
      <4>4. i # 1 => g[i - 1] = f[i - 1]
        BY <4>3
      <4> QED
        BY <4>1, <4>2, <4>4
    <3>2. CASE ~(i <= m)
      <4>1. i = m + 1
        BY <3>2
      <4>2. i # 1 => g[m] = f[m]
        BY <4>1
      <4> QED
        BY <3>2, <4>1, <4>2
    <3> QED
      BY <3>1, <3>2
  <2>3. DOMAIN g = 1 .. m + 1 /\ g = [i \in 1 .. m + 1 |-> g[i]]
    OBVIOUS
  <2> HIDE DEF g
  <2>4. g = [i \in 1 .. m + 1 |-> IF i = 1 THEN s[i] ELSE g[i - 1] \o s[i]]
    BY <2>2, <2>3
  <2>5. m + 1 \in Nat
    OBVIOUS
  <2>6. \E h : h = [i \in 1 .. m + 1 |-> IF i = 1 THEN s[i]
                                          ELSE h[i - 1] \o s[i]]
    BY <2>4
  <2> QED
    BY <2>5, <2>6
<1> HIDE DEF D
<1>3. D = Nat
  <2>1. D \in SUBSET Nat
    BY DEF D
  <2> QED
    BY <1>1, <1>2, <2>1, InductiveSet
<1> QED
  BY <1>3 DEF D

(* FlattenSeq, as the last of its steps. *)
LEMMA FlattenIs ==
  ASSUME NEW s, Len(s) \in Nat, Len(s) # 0
  PROVE  \E f : /\ f = [i \in 1 .. Len(s) |-> IF i = 1 THEN s[i]
                                              ELSE f[i - 1] \o s[i]]
                /\ FlattenSeq(s) = f[Len(s)]
<1> DEFINE f == CHOOSE f : f = [i \in 1 .. Len(s) |-> IF i = 1 THEN s[i]
                                              ELSE f[i - 1] \o s[i]]
<1>1. f = [i \in 1 .. Len(s) |-> IF i = 1 THEN s[i] ELSE f[i - 1] \o s[i]]
  BY FlattenSteps
<1>2. FlattenSeq(s) = f[Len(s)]
  BY DEF FlattenSeq
<1> QED
  BY <1>1, <1>2

(* A sequence more is appended to the flattened ones. *)
LEMMA FlattenLast ==
  ASSUME NEW T, NEW s \in Seq(Seq(T)), NEW x \in Seq(T)
  PROVE  FlattenSeq(Append(s, x)) = FlattenSeq(s) \o x
<1> DEFINE a == Append(s, x)
           n == Len(s)
<1>1. /\ a \in Seq(Seq(T)) /\ Len(a) = n + 1 /\ n \in Nat
      /\ \A i \in 1 .. n : a[i] = s[i]
      /\ a[n + 1] = x
  BY AppendProperties, LenProperties
<1> HIDE DEF a
<1>2. PICK g : /\ g = [i \in 1 .. Len(a) |-> IF i = 1 THEN a[i]
                                              ELSE g[i - 1] \o a[i]]
               /\ FlattenSeq(a) = g[Len(a)]
  <2>1. Len(a) \in Nat /\ Len(a) # 0
    BY <1>1
  <2> QED
    BY <2>1, FlattenIs
<1>3. CASE n = 0
  <2>1. s = <<>>
    BY <1>3, EmptySeq
  <2>2. FlattenSeq(s) = <<>>
    BY <1>3, <2>1 DEF FlattenSeq
  <2>3. FlattenSeq(a) = x
    BY <1>1, <1>2, <1>3
  <2> QED
    BY <2>2, <2>3, ConcatEmptySeq DEF a
<1>4. CASE n # 0
  <2>1. PICK f : /\ f = [i \in 1 .. Len(s) |-> IF i = 1 THEN s[i]
                                                ELSE f[i - 1] \o s[i]]
                 /\ FlattenSeq(s) = f[Len(s)]
    BY <1>1, <1>4, FlattenIs
  <2> DEFINE D == {m \in Nat : m + 1 \in 1 .. n => f[m + 1] = g[m + 1]}
  <2>2. \A i \in 1 .. n : f[i] = IF i = 1 THEN s[i] ELSE f[i - 1] \o s[i]
    BY <2>1
  <2>3. \A i \in 1 .. n + 1 : g[i] = IF i = 1 THEN a[i] ELSE g[i - 1] \o a[i]
    BY <1>1, <1>2
  <2>4. 0 \in D
    BY <1>1, <2>2, <2>3
  <2>5. ASSUME NEW m \in D
        PROVE  m + 1 \in D
    <3> SUFFICES ASSUME (m + 1) + 1 \in 1 .. n
                 PROVE  f[(m + 1) + 1] = g[(m + 1) + 1]
      OBVIOUS
    <3>1. m + 1 \in 1 .. n /\ f[m + 1] = g[m + 1] /\ (m + 1) + 1 # 1
          /\ ((m + 1) + 1) - 1 = m + 1 /\ (m + 1) + 1 \in 1 .. n + 1
      OBVIOUS
    <3> QED
      BY <1>1, <2>2, <2>3, <3>1
  <2>6. D = Nat
    <3>1. D \in SUBSET Nat
      OBVIOUS
    <3> HIDE DEF D
    <3> QED
      BY <2>4, <2>5, <3>1, InductiveSet
  <2>7. f[n] = g[n]
    <3>1. n - 1 \in Nat /\ (n - 1) + 1 = n /\ n \in 1 .. n
      BY <1>1, <1>4
    <3>2. n - 1 \in D
      BY <2>6, <3>1
    <3> QED
      BY <3>1, <3>2
  <2>8. g[n + 1] = g[n] \o x
    <3>1. n + 1 \in 1 .. n + 1 /\ n + 1 # 1 /\ (n + 1) - 1 = n
      BY <1>1, <1>4
    <3>2. g[n + 1] = g[(n + 1) - 1] \o a[n + 1]
      BY <2>3, <3>1
    <3> QED
      BY <1>1, <3>1, <3>2
  <2> QED
    BY <1>1, <1>2, <2>1, <2>7, <2>8 DEF a
<1> QED
  BY <1>3, <1>4

(* Nothing, flattened. *)
LEMMA FlattenEmpty == FlattenSeq(<<>>) = <<>>
BY DEF FlattenSeq

(* Any sequence but the empty one is another with an element appended. *)
LEMMA Shorter ==
  ASSUME NEW S, NEW s \in Seq(S), NEW m \in Nat, Len(s) = m + 1
  PROVE  \E r \in Seq(S), x \in S : s = Append(r, x) /\ Len(r) = m
<1>1. s # <<>>
  BY EmptySeq
<1>2. PICK r \in Seq(S), x \in S : s = Append(r, x)
  BY <1>1, SequenceEmptyOrAppend
<1>3. Len(r) \in Nat /\ Len(s) = Len(r) + 1
  BY <1>2, AppendProperties, LenProperties
<1> QED
  BY <1>2, <1>3

(* Sequences of sequences flatten to a sequence of their elements. *)
LEMMA FlattenType ==
  ASSUME NEW T, NEW s \in Seq(Seq(T))
  PROVE  FlattenSeq(s) \in Seq(T)
<1> DEFINE D == {m \in Nat : \A r \in Seq(Seq(T)) :
                               Len(r) = m => FlattenSeq(r) \in Seq(T)}
<1>1. 0 \in D
  <2>1. ASSUME NEW r \in Seq(Seq(T)), Len(r) = 0
        PROVE  FlattenSeq(r) \in Seq(T)
    <3>1. r = <<>>
      BY <2>1, EmptySeq
    <3> QED
      BY <3>1, FlattenEmpty, EmptySeq
  <2> QED
    BY <2>1
<1>2. ASSUME NEW m \in D
      PROVE  m + 1 \in D
  <2>1. ASSUME NEW r \in Seq(Seq(T)), Len(r) = m + 1
        PROVE  FlattenSeq(r) \in Seq(T)
    <3>1. m \in Nat
      OBVIOUS
    <3> HIDE DEF D
    <3>2. PICK q \in Seq(Seq(T)), x \in Seq(T) : r = Append(q, x) /\ Len(q) = m
      BY <2>1, <3>1, Shorter
    <3>3. FlattenSeq(q) \in Seq(T)
      BY <3>2 DEF D
    <3> QED
      BY <3>2, <3>3, FlattenLast, ConcatProperties
  <2> QED
    BY <2>1
<1>3. D = Nat
  <2>1. D \in SUBSET Nat
    OBVIOUS
  <2> HIDE DEF D
  <2> QED
    BY <1>1, <1>2, <2>1, InductiveSet
<1> QED
  BY <1>3, LenProperties

(* Flattening distributes over concatenation. *)
LEMMA FlattenConcat ==
  ASSUME NEW T, NEW s \in Seq(Seq(T)), NEW t \in Seq(Seq(T))
  PROVE  FlattenSeq(s \o t) = FlattenSeq(s) \o FlattenSeq(t)
<1> DEFINE D == {m \in Nat : \A r \in Seq(Seq(T)) :
                   Len(r) = m =>
                     FlattenSeq(s \o r) = FlattenSeq(s) \o FlattenSeq(r)}
<1>0. FlattenSeq(s) \in Seq(T)
  BY FlattenType
<1>1. 0 \in D
  <2>1. ASSUME NEW r \in Seq(Seq(T)), Len(r) = 0
        PROVE  FlattenSeq(s \o r) = FlattenSeq(s) \o FlattenSeq(r)
    <3>1. r = <<>>
      BY <2>1, EmptySeq
    <3>2. s \o <<>> = s /\ FlattenSeq(s) \o <<>> = FlattenSeq(s)
      BY <1>0, ConcatEmptySeq
    <3> QED
      BY <3>1, <3>2, FlattenEmpty
  <2> QED
    BY <2>1
<1>2. ASSUME NEW m \in D
      PROVE  m + 1 \in D
  <2>1. ASSUME NEW r \in Seq(Seq(T)), Len(r) = m + 1
        PROVE  FlattenSeq(s \o r) = FlattenSeq(s) \o FlattenSeq(r)
    <3>1. m \in Nat
      OBVIOUS
    <3> HIDE DEF D
    <3>2. PICK q \in Seq(Seq(T)), x \in Seq(T) : r = Append(q, x) /\ Len(q) = m
      BY <2>1, <3>1, Shorter
    <3>3. FlattenSeq(s \o q) = FlattenSeq(s) \o FlattenSeq(q)
      BY <3>2 DEF D
    <3>4. s \o r = Append(s \o q, x) /\ s \o q \in Seq(Seq(T))
      <4>1. r = q \o <<x>> /\ <<x>> \in Seq(Seq(T))
        BY <3>2, AppendIsConcat
      <4>2. (s \o q) \o <<x>> = s \o (q \o <<x>>)
        BY <4>1, ConcatAssociative
      <4>3. s \o q \in Seq(Seq(T))
        BY ConcatProperties
      <4> QED
        BY <4>1, <4>2, <4>3, AppendIsConcat
    <3>5. FlattenSeq(q) \in Seq(T)
      BY FlattenType
    <3>6. FlattenSeq(s \o r) = (FlattenSeq(s) \o FlattenSeq(q)) \o x
      BY <3>3, <3>4, FlattenLast
    <3>7. FlattenSeq(r) = FlattenSeq(q) \o x
      BY <3>2, FlattenLast
    <3>8. (FlattenSeq(s) \o FlattenSeq(q)) \o x
            = FlattenSeq(s) \o (FlattenSeq(q) \o x)
      BY <1>0, <3>5, ConcatAssociative
    <3> QED
      BY <3>6, <3>7, <3>8
  <2> QED
    BY <2>1
<1>3. D = Nat
  <2>1. D \in SUBSET Nat
    OBVIOUS
  <2> HIDE DEF D
  <2> QED
    BY <1>1, <1>2, <2>1, InductiveSet
<1> QED
  BY <1>3, LenProperties

(* One sequence, flattened. *)
LEMMA FlattenOne ==
  ASSUME NEW T, NEW x \in Seq(T)
  PROVE  FlattenSeq(<<x>>) = x
<1>1. <<x>> = Append(<<>>, x) /\ <<>> \in Seq(Seq(T))
  BY EmptySeq
<1>2. FlattenSeq(<<x>>) = <<>> \o x
  BY <1>1, FlattenLast, FlattenEmpty
<1> QED
  BY <1>2, ConcatEmptySeq

(* Flattening a sequence of single elements gives them back. *)
LEMMA FlattenSingles ==
  ASSUME NEW T, NEW r \in Seq(T)
  PROVE  FlattenSeq([i \in DOMAIN r |-> <<r[i]>>]) = r
<1> DEFINE singles(q) == [i \in DOMAIN q |-> <<q[i]>>]
           D == {m \in Nat : \A q \in Seq(T) :
                   Len(q) = m => FlattenSeq(singles(q)) = q}
<1>1. 0 \in D
  <2>1. ASSUME NEW q \in Seq(T), Len(q) = 0
        PROVE  FlattenSeq(singles(q)) = q
    <3>1. q = <<>>
      BY <2>1, EmptySeq
    <3>2. singles(q) = <<>>
      BY <3>1
    <3> QED
      BY <3>1, <3>2, FlattenEmpty
  <2> QED
    BY <2>1
<1>2. ASSUME NEW m \in D
      PROVE  m + 1 \in D
  <2>1. ASSUME NEW q \in Seq(T), Len(q) = m + 1
        PROVE  FlattenSeq(singles(q)) = q
    <3>1. m \in Nat
      OBVIOUS
    <3> HIDE DEF D
    <3>2. PICK p \in Seq(T), x \in T : q = Append(p, x) /\ Len(p) = m
      BY <2>1, <3>1, Shorter
    <3>3. FlattenSeq(singles(p)) = p
      BY <3>2 DEF D
    <3>4. /\ DOMAIN q = 1 .. m + 1 /\ DOMAIN p = 1 .. m
          /\ \A i \in 1 .. m : q[i] = p[i]
          /\ q[m + 1] = x
      BY <2>1, <3>2, LenProperties, AppendProperties
    <3>5. singles(p) \in Seq(Seq(T)) /\ Len(singles(p)) = m
      <4>1. ASSUME NEW i \in 1 .. m
            PROVE  <<p[i]>> \in Seq(T)
        <5>1. p[i] \in T
          BY <3>2, ElementOfSeq
        <5> QED
          BY <5>1
      <4>2. singles(p) = [i \in 1 .. m |-> <<p[i]>>]
        BY <3>4
      <4> HIDE DEF singles
      <4> QED
        BY <3>1, <4>1, <4>2
    <3>6. singles(q) = Append(singles(p), <<x>>)
      <4>1. <<x>> \in Seq(T)
        OBVIOUS
      <4>2. /\ Append(singles(p), <<x>>) \in Seq(Seq(T))
            /\ Len(Append(singles(p), <<x>>)) = m + 1
            /\ \A i \in 1 .. m : Append(singles(p), <<x>>)[i] = singles(p)[i]
            /\ Append(singles(p), <<x>>)[m + 1] = <<x>>
        <5> HIDE DEF singles
        <5> QED
          BY <3>5, <4>1, AppendProperties
      <4> DEFINE b == Append(singles(p), <<x>>)
      <4>3. b = [i \in 1 .. m + 1 |-> b[i]]
        <5> HIDE DEF b
        <5>1. b \in Seq(Seq(T)) /\ Len(b) = m + 1
          BY <4>2 DEF b
        <5> QED
          BY <5>1
      <4>4. ASSUME NEW i \in 1 .. m + 1
            PROVE  b[i] = <<q[i]>>
        <5>1. CASE i \in 1 .. m
          <6>1. singles(p)[i] = <<p[i]>> /\ q[i] = p[i]
            BY <3>4, <5>1
          <6> QED
            BY <4>2, <5>1, <6>1
        <5>2. CASE i = m + 1
          <6>1. b[m + 1] = <<x>>
            BY <4>2
          <6> HIDE DEF b
          <6> QED
            BY <3>4, <5>2, <6>1
        <5>3. i \in 1 .. m \/ i = m + 1
          BY <3>1
        <5> QED
          BY <5>1, <5>2, <5>3
      <4> HIDE DEF b
      <4> QED
        BY <3>4, <4>3, <4>4 DEF b
    <3>7. p \o <<x>> = q
      BY <3>2, AppendIsConcat
    <3>8. <<x>> \in Seq(T)
      OBVIOUS
    <3> HIDE DEF singles
    <3> QED
      BY <3>3, <3>5, <3>6, <3>7, <3>8, FlattenLast
  <2> QED
    BY <2>1
<1>3. D = Nat
  <2>1. D \in SUBSET Nat
    OBVIOUS
  <2> HIDE DEF D
  <2> QED
    BY <1>1, <1>2, <2>1, InductiveSet
<1> QED
  BY <1>3, LenProperties

(* Sequences that are all empty flatten to nothing. *)
LEMMA FlattenNone ==
  ASSUME NEW T, NEW s \in Seq(Seq(T)), \A i \in 1 .. Len(s) : s[i] = <<>>
  PROVE  FlattenSeq(s) = <<>>
<1> DEFINE Blank(r) == \A i \in 1 .. Len(r) : r[i] = <<>>
           D == {m \in Nat : \A r \in Seq(Seq(T)) :
                   Len(r) = m /\ Blank(r) => FlattenSeq(r) = <<>>}
<1>1. 0 \in D
  <2>1. ASSUME NEW r \in Seq(Seq(T)), Len(r) = 0
        PROVE  FlattenSeq(r) = <<>>
    <3>1. r = <<>>
      BY <2>1, EmptySeq
    <3> QED
      BY <3>1, FlattenEmpty
  <2> QED
    BY <2>1
<1>2. ASSUME NEW m \in D
      PROVE  m + 1 \in D
  <2>1. ASSUME NEW r \in Seq(Seq(T)), Len(r) = m + 1, Blank(r)
        PROVE  FlattenSeq(r) = <<>>
    <3>1. m \in Nat
      OBVIOUS
    <3> HIDE DEF D
    <3>2. PICK q \in Seq(Seq(T)), x \in Seq(T) : r = Append(q, x) /\ Len(q) = m
      BY <2>1, <3>1, Shorter
    <3>3. \A i \in 1 .. m : r[i] = q[i]
      BY <3>2, AppendProperties
    <3>4. r[m + 1] = x
      BY <3>2, AppendProperties
    <3>5. Blank(q) /\ x = <<>>
      BY <2>1, <3>1, <3>2, <3>3, <3>4
    <3>6. FlattenSeq(q) = <<>>
      BY <3>2, <3>5 DEF D
    <3>7. FlattenSeq(r) = <<>> \o <<>>
      BY <3>2, <3>5, <3>6, FlattenLast
    <3> QED
      BY <3>7, ConcatEmptySeq, EmptySeq
  <2> HIDE DEF Blank
  <2> QED
    BY <2>1
<1>3. D = Nat
  <2>1. D \in SUBSET Nat
    OBVIOUS
  <2> HIDE DEF D
  <2> QED
    BY <1>1, <1>2, <2>1, InductiveSet
<1>4. Len(s) \in Nat /\ Blank(s)
  BY LenProperties
<1> QED
  BY <1>3, <1>4

----------------------------------------------------------------------------
(* Numbers.                                                                *)

(* Max of a set that has a bound is in it, and none of it is larger. *)
LEMMA MaxIs ==
  ASSUME NEW S \in SUBSET Int, S # {}, NEW c \in Int, \A x \in S : x <= c
  PROVE  Max(S) \in S /\ \A y \in S : y <= Max(S)
<1> DEFINE D == {c - x : x \in S}
<1>1. D \in SUBSET Nat /\ D # {}
  <2>1. \A x \in S : c - x \in Nat
    OBVIOUS
  <2>2. PICK x \in S : TRUE
    OBVIOUS
  <2>3. c - x \in D
    OBVIOUS
  <2> QED
    BY <2>1, <2>3
<1>2. PICK d \in D : \A e \in D : d <= e
  <2> HIDE DEF D
  <2> QED
    BY <1>1, LeastOf
<1>3. PICK x \in S : d = c - x
  OBVIOUS
<1>4. ASSUME NEW y \in S
      PROVE  y <= x
  <2>1. c - x <= c - y
    BY <1>2, <1>3
  <2> QED
    BY <2>1
<1>5. \E z \in S : \A y \in S : z >= y
  BY <1>4
<1>6. Max(S) \in S /\ \A y \in S : Max(S) >= y
  BY <1>5 DEF Max
<1> QED
  BY <1>6

(* A number cut off below 0, as ingestTx does it. *)
LEMMA MaxOfTwo ==
  ASSUME NEW x \in Int
  PROVE  Max({0, x}) = IF x >= 0 THEN x ELSE 0
<1>1. Max({0, x}) \in {0, x} /\ \A y \in {0, x} : y <= Max({0, x})
  <2>1. {0, x} \in SUBSET Int /\ {0, x} # {}
    OBVIOUS
  <2>2. \A y \in {0, x} : y <= (IF x >= 0 THEN x ELSE 0)
    OBVIOUS
  <2>3. (IF x >= 0 THEN x ELSE 0) \in Int
    OBVIOUS
  <2> QED
    BY <2>1, <2>2, <2>3, MaxIs
<1> QED
  BY <1>1

(* The elements that are picked keep their order. *)
LEMMA PickedIs ==
  ASSUME NEW at \in SUBSET Nat, IsFiniteSet(at)
  PROVE  \E p : /\ Cardinality(at) \in Nat
                /\ p \in [1 .. Cardinality(at) -> at]
                /\ \A w \in at : \E i \in 1 .. Cardinality(at) : p[i] = w
                /\ \A i, j \in 1 .. Cardinality(at) : i < j => p[i] < p[j]
                /\ \A seq : Picked(seq, at)
                              = [n \in 1 .. Cardinality(at) |-> seq[p[n]]]
<1> DEFINE n == Cardinality(at)
           p == [i \in 1 .. n |->
                   CHOOSE w \in at : Cardinality({v \in at : v < w}) = i - 1]
<1>1. /\ n \in Nat
      /\ \A w \in at : \E i \in 1 .. n : p[i] = w
      /\ \A i \in 1 .. n : p[i] \in at
      /\ \A i, j \in 1 .. n : i < j => p[i] < p[j]
  BY Ranked
<1>2. ASSUME NEW seq
      PROVE  Picked(seq, at) = [i \in 1 .. n |-> seq[p[i]]]
  BY DEF Picked
<1>3. p \in [1 .. n -> at]
  BY <1>1
<1> HIDE DEF p
<1> QED
  BY <1>1, <1>2, <1>3

(* Picked gives the elements at its indexes and no others. *)
LEMMA PickedType ==
  ASSUME NEW T, NEW seq \in Seq(T), NEW at \in SUBSET DOMAIN seq
  PROVE  /\ IsFiniteSet(at) /\ at \in SUBSET Nat
         /\ Picked(seq, at) \in Seq(T)
         /\ \A i \in at : \E n \in DOMAIN Picked(seq, at) : Picked(seq, at)[n] = seq[i]
         /\ \A n \in DOMAIN Picked(seq, at) : \E i \in at : Picked(seq, at)[n] = seq[i]
<1>1. IsFiniteSet(at) /\ at \in SUBSET Nat
  <2>1. Len(seq) \in Nat /\ DOMAIN seq = 1 .. Len(seq)
    BY LenProperties
  <2>2. IsFiniteSet(1 .. Len(seq))
    BY <2>1, FS_Interval
  <2> QED
    BY <2>1, <2>2, FS_Subset
<1>2. PICK p : /\ Cardinality(at) \in Nat
               /\ p \in [1 .. Cardinality(at) -> at]
               /\ \A w \in at : \E i \in 1 .. Cardinality(at) : p[i] = w
               /\ Picked(seq, at) = [n \in 1 .. Cardinality(at) |-> seq[p[n]]]
  BY <1>1, PickedIs
<1>3. \A i \in at : seq[i] \in T
  BY LenProperties
<1> DEFINE q == Picked(seq, at)
<1>4. q \in Seq(T)
  <2>1. \A n \in 1 .. Cardinality(at) : seq[p[n]] \in T
    BY <1>2, <1>3
  <2>2. [n \in 1 .. Cardinality(at) |-> seq[p[n]]] \in Seq(T)
    BY <1>2, <2>1
  <2> QED
    BY <1>2, <2>2
<1>5. DOMAIN q = 1 .. Cardinality(at)
      /\ \A n \in 1 .. Cardinality(at) : q[n] = seq[p[n]] /\ p[n] \in at
  BY <1>2
<1> HIDE DEF q
<1>6. \A i \in at : \E n \in DOMAIN q : q[n] = seq[i]
  BY <1>2, <1>5
<1>7. \A n \in DOMAIN q : \E i \in at : q[n] = seq[i]
  BY <1>5
<1> QED
  BY <1>1, <1>4, <1>6, <1>7 DEF q

(* A sum, a term at a time. *)
LEMMA SumSteps ==
  ASSUME NEW d, NEW n \in Nat, \A i \in 1 .. n : d[i] \in Int
  PROVE  \E f \in [0 .. n -> Int] :
           f = [i \in 0 .. n |-> IF i = 0 THEN 0 ELSE f[i - 1] + d[i]]
<1> DEFINE D == {m \in Nat : m <= n =>
                   \E f \in [0 .. m -> Int] :
                     f = [i \in 0 .. m |-> IF i = 0 THEN 0 ELSE f[i - 1] + d[i]]}
<1>1. 0 \in D
  <2> DEFINE f == [i \in 0 .. 0 |-> 0]
  <2>1. f = [i \in 0 .. 0 |-> IF i = 0 THEN 0 ELSE f[i - 1] + d[i]]
    OBVIOUS
  <2>2. f \in [0 .. 0 -> Int]
    OBVIOUS
  <2> QED
    BY <2>1, <2>2
<1>2. ASSUME NEW m \in D
      PROVE  m + 1 \in D
  <2> SUFFICES ASSUME m + 1 <= n
               PROVE  \E f \in [0 .. m + 1 -> Int] :
                        f = [i \in 0 .. m + 1 |->
                               IF i = 0 THEN 0 ELSE f[i - 1] + d[i]]
    OBVIOUS
  <2>0. m \in Nat /\ m <= n /\ m + 1 \in 1 .. n
    OBVIOUS
  <2>1. PICK f \in [0 .. m -> Int] :
               f = [i \in 0 .. m |-> IF i = 0 THEN 0 ELSE f[i - 1] + d[i]]
    BY <2>0
  <2> HIDE DEF D
  <2> DEFINE g == [i \in 0 .. m + 1 |-> IF i <= m THEN f[i] ELSE f[m] + d[i]]
  <2>2. ASSUME NEW i \in 0 .. m + 1
        PROVE  g[i] = IF i = 0 THEN 0 ELSE g[i - 1] + d[i]
    <3>1. CASE i <= m
      <4>1. i \in 0 .. m /\ g[i] = f[i]
        BY <2>0, <3>1
      <4>2. f[i] = IF i = 0 THEN 0 ELSE f[i - 1] + d[i]
        BY <2>1, <4>1
      <4>3. i # 0 => i - 1 \in 0 .. m + 1 /\ i - 1 <= m
        BY <2>0, <3>1
      <4>4. i # 0 => g[i - 1] = f[i - 1]
        BY <4>3
      <4> QED
        BY <4>1, <4>2, <4>4
    <3>2. CASE ~(i <= m)
      <4>1. i = m + 1 /\ i # 0 /\ i - 1 = m /\ m \in 0 .. m + 1
        BY <2>0, <3>2
      <4>2. g[m] = f[m]
        BY <2>0, <4>1
      <4> QED
        BY <3>2, <4>1, <4>2
    <3> QED
      BY <3>1, <3>2
  <2>3. g = [i \in 0 .. m + 1 |-> g[i]]
    OBVIOUS
  <2>4. g \in [0 .. m + 1 -> Int]
    <3>1. ASSUME NEW i \in 0 .. m + 1
          PROVE  (IF i <= m THEN f[i] ELSE f[m] + d[i]) \in Int
      <4>1. f[m] \in Int /\ d[m + 1] \in Int /\ (i <= m => i \in 0 .. m)
            /\ (~(i <= m) => i = m + 1)
        BY <2>0
      <4> QED
        BY <4>1
    <3> QED
      BY <3>1
  <2> HIDE DEF g
  <2>5. g = [i \in 0 .. m + 1 |-> IF i = 0 THEN 0 ELSE g[i - 1] + d[i]]
    BY <2>2, <2>3
  <2> QED
    BY <2>4, <2>5
<1>3. n \in D
  <2>1. D \in SUBSET Nat
    OBVIOUS
  <2> HIDE DEF D
  <2> QED
    BY <1>1, <1>2, <2>1, InductiveSet
<1>4. n <= n
  OBVIOUS
<1> QED
  BY <1>3, <1>4

(* The sum of zeros. *)
LEMMA SumOfNone ==
  ASSUME NEW d, NEW n \in Nat, \A i \in 1 .. n : d[i] = 0,
         NEW f, f = [i \in 0 .. n |-> IF i = 0 THEN 0 ELSE f[i - 1] + d[i]]
  PROVE  f[n] = 0
<1> DEFINE D == {m \in Nat : m <= n => f[m] = 0}
<1>1. \A i \in 0 .. n : f[i] = IF i = 0 THEN 0 ELSE f[i - 1] + d[i]
  OBVIOUS
<1>2. 0 \in D
  BY <1>1
<1>3. ASSUME NEW m \in D
      PROVE  m + 1 \in D
  <2> SUFFICES ASSUME m + 1 <= n
               PROVE  f[m + 1] = 0
    OBVIOUS
  <2>1. m <= n /\ m + 1 \in 0 .. n /\ m + 1 \in 1 .. n /\ (m + 1) - 1 = m
        /\ m + 1 # 0
    OBVIOUS
  <2>2. f[m] = 0
    BY <2>1
  <2>3. f[m + 1] = f[(m + 1) - 1] + d[m + 1]
    BY <1>1, <2>1
  <2> QED
    BY <2>1, <2>2, <2>3
<1>4. n \in D
  <2>1. D \in SUBSET Nat
    OBVIOUS
  <2> HIDE DEF D
  <2> QED
    BY <1>2, <1>3, <2>1, InductiveSet
<1>5. n <= n
  OBVIOUS
<1> QED
  BY <1>4, <1>5

----------------------------------------------------------------------------
(* What the handlers compute.                                              *)

Records == [wallet : Wallets, balance : Nat, ts : Times, seq : Nat]

(* Whatever satisfies the equation of the sum is one of numbers. *)
LEMMA SumStepsInt ==
  ASSUME NEW d, NEW n \in Nat, \A i \in 1 .. n : d[i] \in Int,
         NEW f, f = [i \in 0 .. n |-> IF i = 0 THEN 0 ELSE f[i - 1] + d[i]]
  PROVE  f \in [0 .. n -> Int]
<1> DEFINE D == {m \in Nat : m <= n => f[m] \in Int}
<1>1. \A i \in 0 .. n : f[i] = IF i = 0 THEN 0 ELSE f[i - 1] + d[i]
  OBVIOUS
<1>2. 0 \in D
  BY <1>1
<1>3. ASSUME NEW m \in D
      PROVE  m + 1 \in D
  <2> SUFFICES ASSUME m + 1 <= n
               PROVE  f[m + 1] \in Int
    OBVIOUS
  <2>1. m <= n /\ m + 1 \in 0 .. n /\ m + 1 \in 1 .. n /\ (m + 1) - 1 = m
        /\ m + 1 # 0
    OBVIOUS
  <2>2. f[m] \in Int /\ d[m + 1] \in Int
    BY <2>1
  <2>3. f[m + 1] = f[(m + 1) - 1] + d[m + 1]
    BY <1>1, <2>1
  <2> QED
    BY <2>1, <2>2, <2>3
<1>4. D = Nat
  <2>1. D \in SUBSET Nat
    OBVIOUS
  <2> HIDE DEF D
  <2> QED
    BY <1>2, <1>3, <2>1, InductiveSet
<1>5. ASSUME NEW i \in 0 .. n
      PROVE  f[i] \in Int
  <2>1. i \in Nat /\ i <= n
    OBVIOUS
  <2>2. i \in D
    BY <1>4, <2>1
  <2> QED
    BY <2>1, <2>2
<1>6. f = [i \in 0 .. n |-> f[i]]
  OBVIOUS
<1> HIDE DEF D
<1> QED
  BY <1>5, <1>6

(* The net change of a wallet: a number, and 0 without a leg of it. *)
LEMMA NetIs ==
  ASSUME NEW tx \in Seq(Legs), NEW w
  PROVE  /\ Net(tx, w) \in Int
         /\ (\A i \in DOMAIN tx : tx[i].wallet # w) => Net(tx, w) = 0
<1> DEFINE n == Len(tx)
           d == [i \in 1 .. n |-> IF tx[i].wallet = w THEN tx[i].delta ELSE 0]
<1>1. n \in Nat /\ DOMAIN tx = 1 .. n /\ \A i \in 1 .. n : tx[i] \in Legs
  BY LenProperties, ElementOfSeq
<1>2. \A i \in 1 .. n : d[i] \in Int
  BY <1>1 DEF Legs
<1> HIDE DEF n
<1>3. ASSUME NEW f
      PROVE  (f = [i \in 0 .. n |-> IF i = 0 THEN 0 ELSE f[i - 1] + d[i]])
               <=> (f = [i \in 0 .. n |->
                           IF i = 0 THEN 0
                           ELSE f[i - 1] + (IF tx[i].wallet = w
                                            THEN tx[i].delta ELSE 0)])
  <2>1. \A i \in 0 .. n : i # 0 => i \in 1 .. n
    BY <1>1
  <2>2. \A i \in 0 .. n :
          (IF i = 0 THEN 0 ELSE f[i - 1] + d[i])
            = (IF i = 0 THEN 0 ELSE f[i - 1] + (IF tx[i].wallet = w
                                                THEN tx[i].delta ELSE 0))
    BY <2>1
  <2>3. [i \in 0 .. n |-> IF i = 0 THEN 0 ELSE f[i - 1] + d[i]]
          = [i \in 0 .. n |-> IF i = 0 THEN 0
                              ELSE f[i - 1] + (IF tx[i].wallet = w
                                               THEN tx[i].delta ELSE 0)]
    BY <2>2
  <2> QED
    BY <2>3
<1> HIDE DEF d
<1> DEFINE f == CHOOSE f : f = [i \in 0 .. n |->
                           IF i = 0 THEN 0
                           ELSE f[i - 1] + (IF tx[i].wallet = w
                                            THEN tx[i].delta ELSE 0)]
<1>4. PICK g \in [0 .. n -> Int] :
              g = [i \in 0 .. n |-> IF i = 0 THEN 0 ELSE g[i - 1] + d[i]]
  BY <1>1, <1>2, SumSteps
<1>5. Net(tx, w) = f[n]
  BY DEF Net, n
<1>6. f = [i \in 0 .. n |-> IF i = 0 THEN 0 ELSE f[i - 1] + d[i]]
  <2>1. \E h : h = [i \in 0 .. n |->
                      IF i = 0 THEN 0
                      ELSE h[i - 1] + (IF tx[i].wallet = w
                                       THEN tx[i].delta ELSE 0)]
    BY <1>3, <1>4
  <2>2. f = [i \in 0 .. n |->
                      IF i = 0 THEN 0
                      ELSE f[i - 1] + (IF tx[i].wallet = w
                                       THEN tx[i].delta ELSE 0)]
    BY <2>1
  <2> HIDE DEF f
  <2> QED
    BY <1>3, <2>2
<1> HIDE DEF f
<1>7. f[n] \in Int
  <2>1. f \in [0 .. n -> Int]
    BY <1>1, <1>2, <1>6, SumStepsInt, ZenonT(60)
  <2>2. n \in 0 .. n
    BY <1>1
  <2> QED
    BY <2>1, <2>2
<1>8. ASSUME \A i \in DOMAIN tx : tx[i].wallet # w
      PROVE  Net(tx, w) = 0
  <2>1. \A i \in 1 .. n : d[i] = 0
    BY <1>1, <1>8 DEF d
  <2> QED
    BY <1>1, <1>5, <1>6, <2>1, SumOfNone
<1> QED
  BY <1>5, <1>7, <1>8

(* The watermark moves over slots that have been processed, and over the   *)
(* next one if it has.                                                     *)
LEMMA AdvancedIs ==
  ASSUME NEW wm \in Int, NEW waiting \in SUBSET Slots
  PROVE  LET new == Advanced(wm, waiting) IN
         /\ new \in Int /\ wm <= new
         /\ wm + 1 .. new \subseteq waiting
         /\ new = wm \/ new \in waiting
         /\ wm + 1 \in waiting => wm < new
<1> DEFINE S == {wm} \cup {s \in waiting : wm < s /\ wm + 1 .. s \subseteq waiting}
           c == IF wm > LastSlot THEN wm ELSE LastSlot
<1>1. S \in SUBSET Int /\ S # {}
  <2>1. \A s \in waiting : s \in Int
    BY DEF Slots
  <2> QED
    BY <2>1
<1>2. c \in Int /\ \A x \in S : x <= c
  BY ChainAssumption DEF Slots
<1>3. Max(S) \in S /\ \A y \in S : y <= Max(S)
  <2> HIDE DEF S, c
  <2> QED
    BY <1>1, <1>2, MaxIs
<1>4. Advanced(wm, waiting) = Max(S)
  BY DEF Advanced
<1>5. wm + 1 \in waiting => wm + 1 \in S
  <2>1. wm + 1 .. wm + 1 = {wm + 1} /\ wm < wm + 1
    OBVIOUS
  <2> QED
    BY <2>1
<1>6. wm \in S /\ \A x \in S : x = wm \/ (x \in waiting /\ wm < x
                                         /\ wm + 1 .. x \subseteq waiting)
  OBVIOUS
<1> DEFINE new == Max(S)
<1>7. new \in S /\ new \in Int /\ wm <= new
  BY <1>1, <1>3, <1>6
<1>8. wm + 1 .. wm = {}
  OBVIOUS
<1> HIDE DEF S, new
<1>9. wm + 1 \in waiting => wm < new
  BY <1>3, <1>5, <1>7 DEF new
<1>10. wm + 1 .. new \subseteq waiting /\ (new = wm \/ new \in waiting)
  BY <1>6, <1>7, <1>8
<1> QED
  BY <1>4, <1>7, <1>9, <1>10 DEF new

(* Each wallet whose balance changes gets one record, unless excluded.     *)
LEMMA AffectedIs ==
  ASSUME NEW tx \in Seq(Legs), NEW out
  PROVE  LET who == Affected(tx, out) IN
         /\ who \in Seq(Wallets)
         /\ \A k \in DOMAIN who : who[k] \notin out /\ Net(tx, who[k]) # 0
         /\ \A w : w \notin out /\ Net(tx, w) # 0 =>
              \E k \in DOMAIN who : who[k] = w
         /\ \A k, l \in DOMAIN who : who[k] = who[l] => k = l
<1> DEFINE First(i) == \A j \in 1 .. i - 1 : tx[j].wallet # tx[i].wallet
           gets(w) == w \notin out /\ Net(tx, w) # 0
           at == {i \in DOMAIN tx : First(i) /\ gets(tx[i].wallet)}
           picked == Picked(tx, at)
           who == [k \in DOMAIN picked |-> picked[k].wallet]
<1>1. Affected(tx, out) = who
  BY DEF Affected
<1>2. /\ Len(tx) \in Nat /\ DOMAIN tx = 1 .. Len(tx)
      /\ \A i \in DOMAIN tx : tx[i] \in Legs
  BY LenProperties, ElementOfSeq
<1>3. at \in SUBSET DOMAIN tx
  OBVIOUS
<1>4. \A i \in at : i \in DOMAIN tx /\ First(i) /\ gets(tx[i].wallet)
  OBVIOUS
<1>5. \A i \in DOMAIN tx : First(i) /\ gets(tx[i].wallet) => i \in at
  OBVIOUS
<1> HIDE DEF at
<1>6. IsFiniteSet(at) /\ at \in SUBSET Nat
  BY <1>3, PickedType
<1>7. PICK p : /\ Cardinality(at) \in Nat
               /\ p \in [1 .. Cardinality(at) -> at]
               /\ \A w \in at : \E i \in 1 .. Cardinality(at) : p[i] = w
               /\ \A i, j \in 1 .. Cardinality(at) : i < j => p[i] < p[j]
               /\ picked = [n \in 1 .. Cardinality(at) |-> tx[p[n]]]
  BY <1>6, PickedIs
<1> DEFINE n == Cardinality(at)
<1>8. DOMAIN who = 1 .. n /\ \A k \in 1 .. n : who[k] = tx[p[k]].wallet /\ p[k] \in at
  BY <1>7
<1>9. who \in Seq(Wallets)
  <2>1. \A k \in 1 .. n : tx[p[k]].wallet \in Wallets
    BY <1>2, <1>3, <1>8 DEF Legs
  <2>2. who = [k \in 1 .. n |-> tx[p[k]].wallet]
    BY <1>7
  <2> HIDE DEF who
  <2> QED
    BY <1>7, <2>1, <2>2
<1> HIDE DEF who, n
<1>10. \A k \in DOMAIN who : gets(who[k])
  BY <1>4, <1>8
<1>11. ASSUME NEW w, gets(w)
       PROVE  \E k \in DOMAIN who : who[k] = w
  <2> DEFINE I == {i \in DOMAIN tx : tx[i].wallet = w}
  <2>1. I # {} /\ I \in SUBSET Nat
    BY <1>2, <1>11, NetIs
  <2>2. PICK i \in I : \A j \in I : i <= j
    <3> HIDE DEF I
    <3> QED
      BY <2>1, LeastOf
  <2>3. i \in DOMAIN tx /\ tx[i].wallet = w /\ i \in 1 .. Len(tx)
    BY <1>2
  <2>4. First(i)
    <3>1. ASSUME NEW j \in 1 .. i - 1
          PROVE  tx[j].wallet # tx[i].wallet
      <4>1. j \in 1 .. Len(tx) /\ ~(i <= j)
        BY <1>2, <2>3
      <4> QED
        BY <1>2, <2>2, <2>3, <4>1
    <3> QED
      BY <3>1
  <2>5. i \in at
    BY <1>5, <1>11, <2>3, <2>4
  <2>6. PICK k \in 1 .. n : p[k] = i
    BY <1>7, <2>5 DEF n
  <2> QED
    BY <1>8, <2>3, <2>6
<1>12. ASSUME NEW k \in DOMAIN who, NEW l \in DOMAIN who, k < l
       PROVE  who[k] # who[l]
  <2>1. k \in 1 .. n /\ l \in 1 .. n /\ p[k] < p[l] /\ p[k] \in at /\ p[l] \in at
    BY <1>7, <1>8, <1>12 DEF n
  <2>2. p[k] \in 1 .. p[l] - 1
    BY <1>2, <1>3, <2>1
  <2>3. First(p[l])
    BY <1>4, <2>1
  <2> QED
    BY <1>8, <2>1, <2>2, <2>3
<1>13. ASSUME NEW k \in DOMAIN who, NEW l \in DOMAIN who, who[k] = who[l]
       PROVE  k = l
  <2>1. k \in Nat /\ l \in Nat
    BY <1>7, <1>8 DEF n
  <2> QED
    BY <1>12, <1>13, <2>1
<1> QED
  BY <1>1, <1>9, <1>10, <1>11, <1>13

(* The balances after each transaction of a slot.                          *)
LEMMA BalancesIs ==
  ASSUME NEW s, chain[s].txs \in Seq(Seq(Legs)), latest \in [Wallets -> Nat]
  PROVE  LET after == BalancesAfter(s)
             txs == chain[s].txs IN
         /\ after \in [0 .. Len(txs) -> [Wallets -> Nat]]
         /\ after[0] = latest
         /\ \A i \in 1 .. Len(txs), w \in Wallets :
              after[i][w] = IF w \in excluded THEN latest[w]
                            ELSE IF after[i - 1][w] + Net(txs[i], w) >= 0
                            THEN after[i - 1][w] + Net(txs[i], w) ELSE 0
<1> DEFINE txs == chain[s].txs
           n == Len(txs)
           Moved(x, i) == [w \in Wallets |->
                             IF w \in excluded THEN latest[w]
                             ELSE Max({0, x[w] + Net(txs[i], w)})]
           Is(f, m) == f = [i \in 0 .. m |-> IF i = 0 THEN latest
                                             ELSE Moved(f[i - 1], i)]
<1>1. n \in Nat /\ \A i \in 1 .. n : txs[i] \in Seq(Legs)
  BY LenProperties, ElementOfSeq
<1>2. \E f : Is(f, n)
  <2> DEFINE D == {m \in Nat : \E f : Is(f, m)}
  <2>1. 0 \in D
    <3> DEFINE f == [i \in 0 .. 0 |-> latest]
    <3> HIDE DEF Moved
    <3>1. f = [i \in 0 .. 0 |-> IF i = 0 THEN latest ELSE Moved(f[i - 1], i)]
      OBVIOUS
    <3> HIDE DEF f
    <3>2. Is(f, 0)
      BY <3>1
    <3> HIDE DEF Is
    <3> QED
      BY <3>2
  <2>2. ASSUME NEW m \in D
        PROVE  m + 1 \in D
    <3>0. m \in Nat /\ m + 1 \in Nat
      OBVIOUS
    <3>1. PICK f : Is(f, m)
      OBVIOUS
    <3> HIDE DEF D, Moved
    <3> DEFINE g == [i \in 0 .. m + 1 |-> IF i <= m THEN f[i] ELSE Moved(f[m], i)]
    <3>2. ASSUME NEW i \in 0 .. m + 1
          PROVE  g[i] = IF i = 0 THEN latest ELSE Moved(g[i - 1], i)
      <4>1. CASE i <= m
        <5>1. i \in 0 .. m /\ g[i] = f[i]
          BY <3>0, <4>1
        <5>2. f[i] = IF i = 0 THEN latest ELSE Moved(f[i - 1], i)
          BY <3>1, <5>1
        <5>3. i # 0 => i - 1 \in 0 .. m + 1 /\ i - 1 <= m
          BY <3>0, <4>1
        <5>4. i # 0 => g[i - 1] = f[i - 1]
          BY <5>3
        <5> QED
          BY <5>1, <5>2, <5>4
      <4>2. CASE ~(i <= m)
        <5>1. i = m + 1 /\ i # 0 /\ i - 1 = m /\ m \in 0 .. m + 1
          BY <3>0, <4>2
        <5>2. g[m] = f[m]
          BY <3>0, <5>1
        <5> QED
          BY <4>2, <5>1, <5>2
      <4> QED
        BY <4>1, <4>2
    <3>3. g = [i \in 0 .. m + 1 |-> g[i]]
      OBVIOUS
    <3> HIDE DEF g
    <3>4. Is(g, m + 1)
      BY <3>2, <3>3
    <3> HIDE DEF Is
    <3> QED
      BY <3>0, <3>4 DEF D
  <2>3. D = Nat
    <3>1. D \in SUBSET Nat
      OBVIOUS
    <3> HIDE DEF D
    <3> QED
      BY <2>1, <2>2, <3>1, InductiveSet
  <2> HIDE DEF Is
  <2> QED
    BY <1>1, <2>3
<1> DEFINE f == CHOOSE f : Is(f, n)
<1>3. BalancesAfter(s) = f
  BY DEF BalancesAfter
<1>4. Is(f, n)
  <2> HIDE DEF Is
  <2> QED
    BY <1>2
<1> HIDE DEF f
<1>5. f[0] = latest /\ f = [i \in 0 .. n |-> f[i]]
      /\ \A i \in 1 .. n : f[i] = Moved(f[i - 1], i)
  <2> HIDE DEF Moved, n
  <2>1. f = [i \in 0 .. n |-> IF i = 0 THEN latest ELSE Moved(f[i - 1], i)]
    BY <1>4
  <2>2. 0 \in 0 .. n /\ \A i \in 1 .. n : i \in 0 .. n /\ i # 0
    BY <1>1
  <2> QED
    BY <2>1, <2>2
<1> HIDE DEF Is
<1>6. ASSUME NEW x \in [Wallets -> Nat], NEW i \in 1 .. n, NEW w \in Wallets
      PROVE  /\ Moved(x, i)[w] = IF w \in excluded THEN latest[w]
                                 ELSE IF x[w] + Net(txs[i], w) >= 0
                                 THEN x[w] + Net(txs[i], w) ELSE 0
             /\ Moved(x, i)[w] \in Nat
  <2>1. x[w] + Net(txs[i], w) \in Int /\ latest[w] \in Nat
    BY <1>1, NetIs
  <2> DEFINE y == x[w] + Net(txs[i], w)
  <2>2. Moved(x, i)[w] = IF w \in excluded THEN latest[w] ELSE Max({0, y})
    OBVIOUS
  <2> HIDE DEF y, Moved
  <2>3. y \in Int
    BY <2>1 DEF y
  <2>4. Max({0, y}) = IF y >= 0 THEN y ELSE 0
    BY <2>3, MaxOfTwo
  <2>5. /\ Moved(x, i)[w] = IF w \in excluded THEN latest[w]
                            ELSE IF y >= 0 THEN y ELSE 0
        /\ Moved(x, i)[w] \in Nat
    BY <2>1, <2>2, <2>3, <2>4
  <2> QED
    BY <2>5 DEF y
<1>7. ASSUME NEW x \in [Wallets -> Nat], NEW i \in 1 .. n
      PROVE  Moved(x, i) \in [Wallets -> Nat]
  <2>1. Moved(x, i) = [w \in Wallets |-> Moved(x, i)[w]]
    OBVIOUS
  <2>2. \A w \in Wallets : Moved(x, i)[w] \in Nat
    BY <1>6
  <2> HIDE DEF Moved
  <2> QED
    BY <2>1, <2>2
<1> HIDE DEF Moved
<1> DEFINE D == {m \in Nat : m <= n => f[m] \in [Wallets -> Nat]}
<1>8. \A m \in Nat : m \in D
  <2>1. 0 \in D
    BY <1>5
  <2>2. ASSUME NEW m \in D
        PROVE  m + 1 \in D
    <3>1. CASE m + 1 <= n
      <4>1. m \in Nat /\ m <= n /\ m + 1 \in 1 .. n /\ (m + 1) - 1 = m
        BY <1>1, <3>1
      <4>2. f[m] \in [Wallets -> Nat]
        BY <4>1
      <4>3. f[m + 1] \in [Wallets -> Nat]
        BY <1>5, <1>7, <4>1, <4>2
      <4> QED
        BY <4>1, <4>3
    <3> QED
      BY <3>1
  <2>3. D \in SUBSET Nat
    OBVIOUS
  <2> HIDE DEF D
  <2> QED
    BY <2>1, <2>2, <2>3, InductiveSet
<1>9. \A i \in 0 .. n : f[i] \in [Wallets -> Nat]
  <2> TAKE i \in 0 .. n
  <2>1. i \in Nat /\ i <= n
    BY <1>1
  <2>2. i \in D
    BY <1>8, <2>1
  <2> QED
    BY <2>1, <2>2
<1>10. f \in [0 .. n -> [Wallets -> Nat]]
  BY <1>5, <1>9
<1>11. \A i \in 1 .. n, w \in Wallets :
         f[i][w] = IF w \in excluded THEN latest[w]
                   ELSE IF f[i - 1][w] + Net(txs[i], w) >= 0
                   THEN f[i - 1][w] + Net(txs[i], w) ELSE 0
  <2> TAKE i \in 1 .. n, w \in Wallets
  <2>1. i - 1 \in 0 .. n
    BY <1>1
  <2>2. f[i - 1] \in [Wallets -> Nat] /\ f[i] = Moved(f[i - 1], i)
    BY <1>5, <1>9, <2>1
  <2> DEFINE x == f[i - 1]
  <2>3. x \in [Wallets -> Nat]
    BY <2>2
  <2> HIDE DEF x, n
  <2>4. Moved(x, i)[w] = IF w \in excluded THEN latest[w]
                         ELSE IF x[w] + Net(txs[i], w) >= 0
                         THEN x[w] + Net(txs[i], w) ELSE 0
    BY <1>6, <2>3
  <2> QED
    BY <2>2, <2>4 DEF x
<1> QED
  BY <1>3, <1>5, <1>10, <1>11

(* The last record of a wallet, and the balance it has.                    *)
LastOf(recs, w, k) ==
  /\ k \in DOMAIN recs /\ recs[k].wallet = w
  /\ \A j \in DOMAIN recs : recs[j].wallet = w => j <= k

(* The latest balance of a wallet is that of its last record, or 0. *)
LEMMA LatestIs ==
  ASSUME NEW recs \in Seq(Records), NEW w \in Wallets
  PROVE  /\ (\A k \in DOMAIN recs : recs[k].wallet # w) => LatestOf(recs)[w] = 0
         /\ \A k : LastOf(recs, w, k) => LatestOf(recs)[w] = recs[k].balance
         /\ (\E j \in DOMAIN recs : recs[j].wallet = w)
              => \E k \in DOMAIN recs : LastOf(recs, w, k)
         /\ LatestOf(recs)[w] \in Nat
<1> DEFINE mine == {i \in DOMAIN recs : recs[i].wallet = w}
<1>1. LatestOf(recs)[w] = IF mine = {} THEN 0 ELSE recs[Max(mine)].balance
  BY DEF LatestOf
<1>2. /\ Len(recs) \in Nat /\ DOMAIN recs = 1 .. Len(recs)
      /\ \A k \in DOMAIN recs : recs[k] \in Records
  BY LenProperties, ElementOfSeq
<1>3. mine # {} => Max(mine) \in mine /\ \A k \in mine : k <= Max(mine)
  <2>1. mine \in SUBSET Int /\ Len(recs) \in Int /\ \A k \in mine : k <= Len(recs)
    BY <1>2
  <2> HIDE DEF mine
  <2> QED
    BY <2>1, MaxIs
<1>4. \A k : k \in mine <=> k \in DOMAIN recs /\ recs[k].wallet = w
  OBVIOUS
<1>5. ASSUME NEW k, LastOf(recs, w, k)
      PROVE  LatestOf(recs)[w] = recs[k].balance
  <2>1. k \in mine /\ mine # {} /\ \A j \in mine : j <= k
    BY <1>5 DEF LastOf
  <2>2. Max(mine) = k
    <3>1. Max(mine) <= k /\ k <= Max(mine) /\ Max(mine) \in 1 .. Len(recs)
          /\ k \in 1 .. Len(recs)
      BY <1>2, <1>3, <1>4, <2>1
    <3> HIDE DEF mine
    <3> QED
      BY <1>2, <3>1
  <2> QED
    BY <1>1, <2>1, <2>2
<1>6. mine # {} => LastOf(recs, w, Max(mine))
  BY <1>3, <1>4 DEF LastOf
<1> HIDE DEF mine
<1>7. LatestOf(recs)[w] \in Nat
  BY <1>1, <1>2, <1>3, <1>4 DEF Records
<1>8. ASSUME NEW j \in DOMAIN recs, recs[j].wallet = w
      PROVE  \E k \in DOMAIN recs : LastOf(recs, w, k)
  <2>1. mine # {}
    BY <1>4, <1>8
  <2> QED
    BY <1>3, <1>4, <1>6, <2>1
<1>9. (\A k \in DOMAIN recs : recs[k].wallet # w) => LatestOf(recs)[w] = 0
  BY <1>1, <1>4
<1> QED
  BY <1>5, <1>7, <1>8, <1>9

(* A wallet's latest balance is not negative. *)
LEMMA LatestType ==
  ASSUME NEW recs \in Seq(Records)
  PROVE  LatestOf(recs) \in [Wallets -> Nat]
<1>1. LatestOf(recs) = [w \in Wallets |-> LatestOf(recs)[w]]
  BY DEF LatestOf
<1>2. \A w \in Wallets : LatestOf(recs)[w] \in Nat
  BY LatestIs
<1> QED
  BY <1>1, <1>2

(* Elements of two sequences, one after the other.                         *)
LEMMA ConcatIs ==
  ASSUME NEW T, NEW r \in Seq(T), NEW q \in Seq(T)
  PROVE  /\ r \o q \in Seq(T)
         /\ Len(r) \in Nat /\ Len(q) \in Nat
         /\ DOMAIN r = 1 .. Len(r) /\ DOMAIN q = 1 .. Len(q)
         /\ Len(r \o q) = Len(r) + Len(q)
         /\ DOMAIN (r \o q) = 1 .. Len(r) + Len(q)
         /\ \A i \in 1 .. Len(r) : (r \o q)[i] = r[i]
         /\ \A i \in 1 .. Len(q) : (r \o q)[Len(r) + i] = q[i]
         /\ \A i \in DOMAIN (r \o q) :
              \/ i \in 1 .. Len(r) /\ (r \o q)[i] = r[i]
              \/ i - Len(r) \in 1 .. Len(q) /\ (r \o q)[i] = q[i - Len(r)]
<1> DEFINE c == r \o q
<1>1. /\ c \in Seq(T) /\ Len(c) = Len(r) + Len(q)
      /\ \A i \in 1 .. Len(r) + Len(q) : c[i] = IF i <= Len(r) THEN r[i]
                                                ELSE q[i - Len(r)]
  BY ConcatProperties
<1> HIDE DEF c
<1>2. /\ Len(r) \in Nat /\ Len(q) \in Nat
      /\ DOMAIN r = 1 .. Len(r) /\ DOMAIN q = 1 .. Len(q)
      /\ DOMAIN c = 1 .. Len(c)
  BY <1>1, LenProperties
<1>3. ASSUME NEW i \in 1 .. Len(r)
      PROVE  c[i] = r[i]
  BY <1>1, <1>2
<1>4. ASSUME NEW i \in 1 .. Len(q)
      PROVE  c[Len(r) + i] = q[i]
  <2>1. Len(r) + i \in 1 .. Len(r) + Len(q) /\ ~(Len(r) + i <= Len(r))
        /\ (Len(r) + i) - Len(r) = i
    BY <1>2
  <2> QED
    BY <1>1, <2>1
<1>5. ASSUME NEW i \in DOMAIN c
      PROVE  \/ i \in 1 .. Len(r) /\ c[i] = r[i]
             \/ i - Len(r) \in 1 .. Len(q) /\ c[i] = q[i - Len(r)]
  BY <1>1, <1>2
<1> QED
  BY <1>1, <1>2, <1>3, <1>4, <1>5 DEF c

(* Later records decide for the wallets they have. *)
LEMMA LatestOfConcat ==
  ASSUME NEW r \in Seq(Records), NEW q \in Seq(Records), NEW w \in Wallets
  PROVE  /\ (\E k \in DOMAIN q : q[k].wallet = w)
              => LatestOf(r \o q)[w] = LatestOf(q)[w]
         /\ (\A k \in DOMAIN q : q[k].wallet # w)
              => LatestOf(r \o q)[w] = LatestOf(r)[w]
<1> DEFINE c == r \o q
<1>1. /\ c \in Seq(Records)
      /\ Len(r) \in Nat /\ Len(q) \in Nat
      /\ DOMAIN r = 1 .. Len(r) /\ DOMAIN q = 1 .. Len(q)
      /\ DOMAIN c = 1 .. Len(r) + Len(q)
      /\ \A i \in 1 .. Len(r) : c[i] = r[i]
      /\ \A i \in 1 .. Len(q) : c[Len(r) + i] = q[i]
      /\ \A i \in DOMAIN c :
              \/ i \in 1 .. Len(r) /\ c[i] = r[i]
              \/ i - Len(r) \in 1 .. Len(q) /\ c[i] = q[i - Len(r)]
  BY ConcatIs
<1> HIDE DEF c
<1>2. ASSUME NEW j \in DOMAIN q, q[j].wallet = w
      PROVE  LatestOf(c)[w] = LatestOf(q)[w]
  <2>1. PICK k \in DOMAIN q : LastOf(q, w, k)
    BY <1>2, LatestIs
  <2>2. LatestOf(q)[w] = q[k].balance
    BY <2>1, LatestIs
  <2>3. LastOf(c, w, Len(r) + k)
    <3>1. k \in 1 .. Len(q) /\ Len(r) + k \in DOMAIN c /\ c[Len(r) + k] = q[k]
          /\ q[k].wallet = w
      BY <1>1, <2>1 DEF LastOf
    <3>2. ASSUME NEW i \in DOMAIN c, c[i].wallet = w
          PROVE  i <= Len(r) + k
      <4>1. CASE i \in 1 .. Len(r)
        BY <1>1, <3>1, <4>1
      <4>2. CASE i - Len(r) \in 1 .. Len(q) /\ c[i] = q[i - Len(r)]
        <5>1. i - Len(r) <= k
          BY <1>1, <2>1, <3>2, <4>2 DEF LastOf
        <5> QED
          BY <1>1, <3>1, <5>1
      <4> QED
        BY <1>1, <4>1, <4>2
    <3> QED
      BY <3>1, <3>2 DEF LastOf
  <2> QED
    BY <1>1, <2>2, <2>3, LatestIs
<1>3. ASSUME \A k \in DOMAIN q : q[k].wallet # w
      PROVE  LatestOf(c)[w] = LatestOf(r)[w]
  <2>1. CASE \A k \in DOMAIN r : r[k].wallet # w
    <3>1. \A k \in DOMAIN c : c[k].wallet # w
      BY <1>1, <1>3, <2>1
    <3>2. LatestOf(c)[w] = 0
      BY <1>1, <3>1, LatestIs
    <3>3. LatestOf(r)[w] = 0
      BY <2>1, LatestIs
    <3> QED
      BY <3>2, <3>3
  <2>2. CASE \E k \in DOMAIN r : r[k].wallet = w
    <3>1. PICK k \in DOMAIN r : LastOf(r, w, k)
      BY <2>2, LatestIs
    <3>2. LatestOf(r)[w] = r[k].balance
      BY <3>1, LatestIs
    <3>3. LastOf(c, w, k)
      <4>1. k \in DOMAIN c /\ c[k] = r[k] /\ r[k].wallet = w
        BY <1>1, <3>1 DEF LastOf
      <4>2. ASSUME NEW i \in DOMAIN c, c[i].wallet = w
            PROVE  i <= k
        <5>1. i \in 1 .. Len(r) /\ c[i] = r[i]
          BY <1>1, <1>3, <4>2
        <5> QED
          BY <1>1, <3>1, <4>2, <5>1 DEF LastOf
      <4> QED
        BY <4>1, <4>2 DEF LastOf
    <3>4. c[k] = r[k]
      BY <1>1, <3>1
    <3> QED
      BY <1>1, <3>2, <3>3, <3>4, LatestIs
  <2> QED
    BY <2>1, <2>2
<1> QED
  BY <1>2, <1>3 DEF c

(* The records of one transaction, and of the first m of a slot.           *)
BatchOf(s, after, i) ==
  LET who == Affected(chain[s].txs[i], excluded) IN
  [k \in DOMAIN who |-> [wallet |-> who[k], balance |-> after[i][who[k]],
                         ts |-> chain[s].ts, seq |-> s * SEQ_MULT + i]]

FirstOf(s, after, m) == FlattenSeq([i \in 1 .. m |-> BatchOf(s, after, i)])

(* What the assumption on the chain says of a slot. *)
LEMMA BlockIs ==
  ASSUME chain \in Chains, NEW s \in Slots
  PROVE  /\ chain[s].ts \in Times /\ s \in Nat /\ chain \in [Slots -> Blocks]
         /\ chain[s].txs \in Seq(Seq(Legs))
         /\ Len(chain[s].txs) \in 0 .. SEQ_MULT
         /\ DOMAIN chain[s].txs = 1 .. Len(chain[s].txs)
         /\ \A i \in DOMAIN chain[s].txs : chain[s].txs[i] \in Seq(Legs)
         /\ \A t \in Slots : s <= t => chain[s].ts <= chain[t].ts
<1>1. chain[s] \in Blocks
  BY ChainAssumption
<1>2. chain[s].ts \in Times /\ chain[s].txs \in Seq(Seq(Legs))
  BY <1>1 DEF Blocks
<1>3. Len(chain[s].txs) \in Nat /\ Len(chain[s].txs) <= SEQ_MULT
  BY <1>2, LenProperties, ChainAssumption
<1>4. Len(chain[s].txs) \in 0 .. SEQ_MULT
  <2> DEFINE n == Len(chain[s].txs)
  <2> HIDE DEF n
  <2>1. n \in Nat /\ n <= SEQ_MULT /\ SEQ_MULT \in Nat
    BY <1>3 DEF n, SEQ_MULT
  <2>2. n \in 0 .. SEQ_MULT
    BY <2>1
  <2> QED
    BY <2>2 DEF n
<1>5. s \in Nat
  BY DEF Slots
<1> QED
  BY <1>2, <1>4, <1>5, LenProperties, ElementOfSeq, ChainAssumption

(* The records of one transaction: of those it affects, each once. *)
LEMMA BatchIs ==
  ASSUME chain \in Chains, NEW s \in Slots, latest \in [Wallets -> Nat],
         NEW i \in 1 .. Len(chain[s].txs), NEW after, after = BalancesAfter(s)
  PROVE  LET batch == BatchOf(s, after, i)
             tx == chain[s].txs[i] IN
         /\ batch \in Seq(Records)
         /\ \A k \in DOMAIN batch :
              /\ batch[k].ts = chain[s].ts
              /\ batch[k].seq = s * SEQ_MULT + i
              /\ batch[k].wallet \notin excluded
              /\ Net(tx, batch[k].wallet) # 0
              /\ batch[k].balance = after[i][batch[k].wallet]
         /\ \A w : w \notin excluded /\ Net(tx, w) # 0 =>
              \E k \in DOMAIN batch : batch[k].wallet = w
         /\ \A k, l \in DOMAIN batch : batch[k].wallet = batch[l].wallet => k = l
<1> DEFINE tx == chain[s].txs[i]
           who == Affected(tx, excluded)
           batch == [k \in DOMAIN who |->
                       [wallet |-> who[k], balance |-> after[i][who[k]],
                        ts |-> chain[s].ts, seq |-> s * SEQ_MULT + i]]
<1>1. /\ chain[s].ts \in Times /\ s \in Nat
      /\ chain[s].txs \in Seq(Seq(Legs)) /\ tx \in Seq(Legs)
      /\ Len(chain[s].txs) \in Nat
  BY BlockIs
<1>2. i \in 0 .. Len(chain[s].txs)
  BY <1>1
<1>3. after[i] \in [Wallets -> Nat]
  BY <1>1, <1>2, BalancesIs
<1> HIDE DEF tx
<1>4. /\ who \in Seq(Wallets)
      /\ \A k \in DOMAIN who : who[k] \notin excluded /\ Net(tx, who[k]) # 0
      /\ \A w : w \notin excluded /\ Net(tx, w) # 0 =>
           \E k \in DOMAIN who : who[k] = w
      /\ \A k, l \in DOMAIN who : who[k] = who[l] => k = l
  BY <1>1, AffectedIs
<1> HIDE DEF who
<1>5. DOMAIN who = 1 .. Len(who) /\ Len(who) \in Nat
      /\ \A k \in DOMAIN who : who[k] \in Wallets
  BY <1>4, LenProperties, ElementOfSeq
<1>6. BatchOf(s, after, i) = batch
  BY DEF BatchOf, who, tx
<1>7. s * SEQ_MULT + i \in Nat
  BY <1>1 DEF SEQ_MULT
<1>8. \A k \in DOMAIN who : batch[k] \in Records
  BY <1>1, <1>3, <1>5, <1>7 DEF Records
<1>9. DOMAIN batch = DOMAIN who
      /\ \A k \in DOMAIN who : /\ batch[k].wallet = who[k]
                               /\ batch[k].balance = after[i][who[k]]
                               /\ batch[k].ts = chain[s].ts
                               /\ batch[k].seq = s * SEQ_MULT + i
  OBVIOUS
<1>10. batch = [k \in 1 .. Len(who) |-> batch[k]]
  BY <1>5
<1> HIDE DEF batch
<1>11. batch \in Seq(Records)
  BY <1>5, <1>8, <1>10
<1>12. \A k \in DOMAIN batch :
              /\ batch[k].ts = chain[s].ts
              /\ batch[k].seq = s * SEQ_MULT + i
              /\ batch[k].wallet \notin excluded
              /\ Net(tx, batch[k].wallet) # 0
              /\ batch[k].balance = after[i][batch[k].wallet]
  BY <1>4, <1>9
<1>13. \A w : w \notin excluded /\ Net(tx, w) # 0 =>
              \E k \in DOMAIN batch : batch[k].wallet = w
  BY <1>4, <1>9
<1>14. \A k, l \in DOMAIN batch : batch[k].wallet = batch[l].wallet => k = l
  BY <1>4, <1>9
<1> QED
  BY <1>6, <1>11, <1>12, <1>13, <1>14 DEF tx

(* The records of a slot, a transaction at a time. *)
LEMMA FirstIs ==
  ASSUME chain \in Chains, NEW s \in Slots, latest \in [Wallets -> Nat],
         NEW after, after = BalancesAfter(s)
  PROVE  /\ FirstOf(s, after, 0) = <<>>
         /\ \A m \in 0 .. Len(chain[s].txs) : FirstOf(s, after, m) \in Seq(Records)
         /\ \A m \in 0 .. Len(chain[s].txs) - 1 :
              FirstOf(s, after, m + 1)
                = FirstOf(s, after, m) \o BatchOf(s, after, m + 1)
         /\ RecordsOf(s, after) = FirstOf(s, after, Len(chain[s].txs))
<1> DEFINE n == Len(chain[s].txs)
           these(m) == [i \in 1 .. m |-> BatchOf(s, after, i)]
<1>1. n \in Nat /\ DOMAIN chain[s].txs = 1 .. n
  BY BlockIs
<1>2. \A i \in 1 .. n : BatchOf(s, after, i) \in Seq(Records)
  BY BatchIs
<1>3. \A m \in 0 .. n : these(m) \in Seq(Seq(Records))
  <2> TAKE m \in 0 .. n
  <2>1. \A i \in 1 .. m : BatchOf(s, after, i) \in Seq(Records)
    BY <1>1, <1>2
  <2> QED
    BY <1>1, <2>1
<1>4. FirstOf(s, after, 0) = <<>>
  <2>1. these(0) = <<>>
    OBVIOUS
  <2> QED
    BY <2>1, FlattenEmpty DEF FirstOf
<1>5. \A m \in 0 .. n : FirstOf(s, after, m) \in Seq(Records)
  <2> HIDE DEF these
  <2>1. \A m \in 0 .. n : FlattenSeq(these(m)) \in Seq(Records)
    BY <1>3, FlattenType
  <2> QED
    BY <2>1 DEF FirstOf, these
<1>6. ASSUME NEW m \in 0 .. n - 1
      PROVE  FirstOf(s, after, m + 1) = FirstOf(s, after, m) \o BatchOf(s, after, m + 1)
  <2>1. m \in 0 .. n /\ m + 1 \in 0 .. n /\ m + 1 \in 1 .. n
    BY <1>1
  <2> DEFINE x == BatchOf(s, after, m + 1)
             b == Append(these(m), x)
  <2>2. x \in Seq(Records) /\ these(m) \in Seq(Seq(Records))
        /\ these(m + 1) \in Seq(Seq(Records))
    BY <1>2, <1>3, <2>1
  <2>3. Len(these(m)) = m /\ Len(these(m + 1)) = m + 1
    BY <1>1, <2>1
  <2>4. /\ b \in Seq(Seq(Records)) /\ Len(b) = m + 1
        /\ \A i \in 1 .. m : b[i] = these(m)[i]
        /\ b[m + 1] = x
    <3> HIDE DEF x, these
    <3> QED
      BY <2>2, <2>3, AppendProperties
  <2>5. ASSUME NEW i \in 1 .. m + 1
        PROVE  b[i] = these(m + 1)[i]
    <3>1. CASE i \in 1 .. m
      <4>1. these(m)[i] = BatchOf(s, after, i) /\ these(m + 1)[i] = BatchOf(s, after, i)
        BY <3>1
      <4> QED
        BY <2>4, <3>1, <4>1
    <3>2. CASE i = m + 1
      <4>1. these(m + 1)[i] = x
        BY <3>2
      <4> QED
        BY <2>4, <3>2, <4>1
    <3>3. i \in 1 .. m \/ i = m + 1
      BY <1>1, <2>1
    <3> QED
      BY <3>1, <3>2, <3>3
  <2> HIDE DEF x, these, b
  <2>6. these(m + 1) = b
    BY <2>2, <2>3, <2>4, <2>5, SeqEqual
  <2>7. FlattenSeq(these(m + 1)) = FlattenSeq(these(m)) \o x
    BY <2>2, <2>6, FlattenLast DEF b
  <2> QED
    BY <2>7 DEF FirstOf, these, x
<1>7. RecordsOf(s, after) = FirstOf(s, after, n)
  BY <1>1 DEF RecordsOf, FirstOf, BatchOf
<1> QED
  BY <1>4, <1>5, <1>6, <1>7

(* What has not been seen to arrive cannot leave.                          *)
NotNegative(x) == IF x >= 0 THEN x ELSE 0

(* x is the balance that a wallet has before record k of it.               *)
Prior(recs, k, x) ==
  \/ x = 0 /\ \A j \in 1 .. k - 1 : recs[j].wallet # recs[k].wallet
  \/ \E p \in 1 .. k - 1 :
       /\ recs[p].wallet = recs[k].wallet
       /\ \A j \in p + 1 .. k - 1 : recs[j].wallet # recs[k].wallet
       /\ x = recs[p].balance

(* Record k is what transaction i of slot s makes of the balance before.   *)
Follows(recs, k, s, i) ==
  /\ recs[k].seq = s * SEQ_MULT + i
  /\ \E x \in Nat :
       /\ Prior(recs, k, x)
       /\ recs[k].balance
            = NotNegative(x + Net(chain[s].txs[i], recs[k].wallet))

(* It depends on the records up to it only. *)
LEMMA PriorSame ==
  ASSUME NEW r, NEW q, NEW k \in Nat, \A j \in 1 .. k : r[j] = q[j],
         k >= 1, NEW x, Prior(r, k, x)
  PROVE  r[k] = q[k] /\ Prior(q, k, x)
<1>1. r[k] = q[k]
  OBVIOUS
<1>2. \A j \in 1 .. k - 1 : r[j] = q[j]
  OBVIOUS
<1>3. CASE x = 0 /\ \A j \in 1 .. k - 1 : r[j].wallet # r[k].wallet
  BY <1>1, <1>2, <1>3 DEF Prior
<1>4. ASSUME NEW p \in 1 .. k - 1, r[p].wallet = r[k].wallet,
             \A j \in p + 1 .. k - 1 : r[j].wallet # r[k].wallet,
             x = r[p].balance
      PROVE  Prior(q, k, x)
  <2>1. \A j \in p + 1 .. k - 1 : j \in 1 .. k - 1
    OBVIOUS
  <2>2. \A j \in p + 1 .. k - 1 : q[j].wallet # q[k].wallet
    BY <1>1, <1>2, <1>4, <2>1
  <2> QED
    BY <1>1, <1>2, <1>4, <2>2 DEF Prior
<1> QED
  BY <1>1, <1>3, <1>4 DEF Prior

(* So does what follows from it. *)
LEMMA FollowsSame ==
  ASSUME NEW r, NEW q, NEW k \in Nat, \A j \in 1 .. k : r[j] = q[j],
         k >= 1, NEW s, NEW i, Follows(r, k, s, i)
  PROVE  Follows(q, k, s, i)
<1>1. PICK x \in Nat :
        /\ Prior(r, k, x)
        /\ r[k].balance = NotNegative(x + Net(chain[s].txs[i], r[k].wallet))
  BY DEF Follows
<1>2. r[k] = q[k] /\ Prior(q, k, x)
  BY <1>1, PriorSame
<1> QED
  BY <1>1, <1>2 DEF Follows

(* Before the first record of a wallet in a batch comes its latest one. *)
LEMMA PriorIs ==
  ASSUME NEW e \in Seq(Records), NEW b \in Seq(Records), NEW l \in DOMAIN b,
         \A j \in 1 .. l - 1 : b[j].wallet # b[l].wallet
  PROVE  /\ LatestOf(e)[b[l].wallet] \in Nat
         /\ Prior(e \o b, Len(e) + l, LatestOf(e)[b[l].wallet])
<1> DEFINE c == e \o b
           k == Len(e) + l
<1> PICK w : w = b[l].wallet
  OBVIOUS
<1>1. /\ Len(e) \in Nat /\ Len(b) \in Nat
      /\ DOMAIN e = 1 .. Len(e) /\ DOMAIN b = 1 .. Len(b)
      /\ \A i \in 1 .. Len(e) : c[i] = e[i]
      /\ \A i \in 1 .. Len(b) : c[Len(e) + i] = b[i]
  BY ConcatIs
<1>2. b[l] \in Records
  BY <1>1, ElementOfSeq
<1>3. w \in Wallets /\ c[k].wallet = w /\ l \in 1 .. Len(b)
  BY <1>1, <1>2 DEF Records
<1> HIDE DEF c
<1>4. \A j \in Len(e) + 1 .. k - 1 : c[j].wallet # w
  <2> SUFFICES ASSUME NEW j \in Len(e) + 1 .. k - 1
               PROVE  c[j].wallet # w
    OBVIOUS
  <2>1. PICK i \in 1 .. l - 1 : j = Len(e) + i /\ i \in 1 .. Len(b)
    <3>1. j - Len(e) \in 1 .. l - 1 /\ j = Len(e) + (j - Len(e))
          /\ j - Len(e) \in 1 .. Len(b)
      BY <1>1, <1>3
    <3> QED
      BY <3>1
  <2> QED
    BY <1>1, <2>1
<1>5. LatestOf(e)[w] \in Nat
  BY <1>3, LatestIs
<1>6. CASE \E j \in DOMAIN e : e[j].wallet = w
  <2>1. PICK p \in DOMAIN e : LastOf(e, w, p)
    BY <1>3, <1>6, LatestIs
  <2>2. LatestOf(e)[w] = e[p].balance
    BY <1>3, <2>1, LatestIs
  <2>3. /\ p \in 1 .. Len(e) /\ e[p].wallet = w
        /\ \A j \in 1 .. Len(e) : e[j].wallet = w => j <= p
    BY <1>1, <2>1 DEF LastOf
  <2>4. p \in 1 .. k - 1 /\ c[p] = e[p]
    BY <1>1, <1>3, <2>3
  <2>5. ASSUME NEW j \in p + 1 .. k - 1
        PROVE  c[j].wallet # w
    <3>1. CASE j \in 1 .. Len(e)
      <4>1. ~(j <= p)
        BY <2>3
      <4> QED
        BY <1>1, <2>3, <3>1, <4>1
    <3>2. CASE j \notin 1 .. Len(e)
      <4>1. j \in Len(e) + 1 .. k - 1
        BY <1>1, <1>3, <2>3, <3>2
      <4> QED
        BY <1>4, <4>1
    <3> QED
      BY <3>1, <3>2
  <2>6. Prior(c, k, e[p].balance)
    BY <1>3, <2>3, <2>4, <2>5 DEF Prior
  <2> QED
    BY <1>5, <2>2, <2>6 DEF c
<1>7. CASE \A j \in DOMAIN e : e[j].wallet # w
  <2>1. LatestOf(e)[w] = 0
    BY <1>3, <1>7, LatestIs
  <2>2. ASSUME NEW j \in 1 .. k - 1
        PROVE  c[j].wallet # w
    <3>1. CASE j \in 1 .. Len(e)
      BY <1>1, <1>7, <3>1
    <3>2. CASE j \notin 1 .. Len(e)
      <4>1. j \in Len(e) + 1 .. k - 1
        BY <1>1, <1>3, <3>2
      <4> QED
        BY <1>4, <4>1
    <3> QED
      BY <3>1, <3>2
  <2>3. Prior(c, k, 0)
    BY <1>3, <2>2 DEF Prior
  <2> QED
    BY <1>5, <2>1, <2>3 DEF c
<1> QED
  BY <1>6, <1>7

(* Records of which none is older, in the order of the chain, than one     *)
(* before it, and of which no two are of the same wallet and transaction.  *)
Ordered(recs) ==
  \A i, j \in DOMAIN recs :
    i < j => /\ recs[i].ts <= recs[j].ts
             /\ recs[i].seq <= recs[j].seq
             /\ recs[i].wallet = recs[j].wallet => recs[i].seq < recs[j].seq

(* What is true of the records of the first m transactions of a slot.      *)
Recorded(s, after, m, recs) ==
  /\ \A k \in DOMAIN recs :
       /\ recs[k].ts = chain[s].ts
       /\ recs[k].wallet \notin excluded
       /\ \E i \in 1 .. m : /\ recs[k].seq = s * SEQ_MULT + i
                            /\ Net(chain[s].txs[i], recs[k].wallet) # 0
  /\ \A i \in 1 .. m : \A w :
       w \notin excluded /\ Net(chain[s].txs[i], w) # 0 =>
         \E k \in DOMAIN recs : recs[k].wallet = w /\ recs[k].seq = s * SEQ_MULT + i
  /\ Ordered(recs)
  /\ \A old \in Seq(Records) :
       LatestOf(old) = latest =>
         /\ LatestOf(old \o recs) = after[m]
         /\ \A k \in DOMAIN recs : \E i \in 1 .. m :
              Follows(old \o recs, Len(old) + k, s, i)

(* The records of a slot: ordered, complete, and leading to its balances. *)
LEMMA RecordsIs ==
  ASSUME chain \in Chains, NEW s \in Slots, latest \in [Wallets -> Nat],
         NEW after, after = BalancesAfter(s)
  PROVE  /\ RecordsOf(s, after) \in Seq(Records)
         /\ Recorded(s, after, Len(chain[s].txs), RecordsOf(s, after))
<1> DEFINE n == Len(chain[s].txs)
           txs == chain[s].txs
           R(m) == FirstOf(s, after, m)
           B(m) == BatchOf(s, after, m)
           D == {m \in Nat : m <= n => Recorded(s, after, m, R(m))}
<1>1. n \in Nat /\ s \in Nat /\ n <= SEQ_MULT /\ SEQ_MULT \in Nat
      /\ txs \in Seq(Seq(Legs)) /\ \A i \in 1 .. n : txs[i] \in Seq(Legs)
  <2>1. n \in 0 .. SEQ_MULT /\ s \in Nat /\ txs \in Seq(Seq(Legs))
        /\ \A i \in 1 .. n : txs[i] \in Seq(Legs)
    BY BlockIs
  <2>2. SEQ_MULT \in Nat
    BY DEF SEQ_MULT
  <2> HIDE DEF n, txs
  <2>3. n \in Nat /\ n <= SEQ_MULT
    BY <2>1, <2>2
  <2> QED
    BY <2>1, <2>2, <2>3
<1>2. /\ R(0) = <<>>
      /\ \A m \in 0 .. n : R(m) \in Seq(Records)
      /\ \A m \in 0 .. n - 1 : R(m + 1) = R(m) \o B(m + 1)
      /\ RecordsOf(s, after) = R(n)
  BY FirstIs
<1>3. /\ after \in [0 .. n -> [Wallets -> Nat]]
      /\ after[0] = latest
      /\ \A i \in 1 .. n, w \in Wallets :
           after[i][w] = IF w \in excluded THEN latest[w]
                         ELSE IF after[i - 1][w] + Net(txs[i], w) >= 0
                         THEN after[i - 1][w] + Net(txs[i], w) ELSE 0
  BY <1>1, BalancesIs
<1>4. \A m \in 1 .. n :
         /\ B(m) \in Seq(Records)
         /\ \A k \in DOMAIN B(m) :
              /\ B(m)[k].ts = chain[s].ts
              /\ B(m)[k].seq = s * SEQ_MULT + m
              /\ B(m)[k].wallet \notin excluded
              /\ Net(txs[m], B(m)[k].wallet) # 0
              /\ B(m)[k].balance = after[m][B(m)[k].wallet]
         /\ \A w : w \notin excluded /\ Net(txs[m], w) # 0 =>
              \E k \in DOMAIN B(m) : B(m)[k].wallet = w
         /\ \A k, l \in DOMAIN B(m) : B(m)[k].wallet = B(m)[l].wallet => k = l
  BY BatchIs
<1>5. 0 \in D
  <2>1. Recorded(s, after, 0, <<>>)
    <3>1. Ordered(<<>>)
      BY DEF Ordered
    <3>2. \A old \in Seq(Records) : old \o <<>> = old
      BY ConcatEmptySeq
    <3>3. DOMAIN <<>> = {} /\ 1 .. 0 = {}
      OBVIOUS
    <3> QED
      BY <1>3, <3>1, <3>2, <3>3 DEF Recorded
  <2> QED
    BY <1>2, <2>1
<1> HIDE DEF R, B
<1>6. ASSUME NEW m \in D
      PROVE  m + 1 \in D
  <2> SUFFICES ASSUME m + 1 <= n
               PROVE  Recorded(s, after, m + 1, R(m + 1))
    OBVIOUS
  <2>1. m \in Nat /\ m <= n /\ Recorded(s, after, m, R(m)) /\ m + 1 \in 1 .. n
        /\ m \in 0 .. n /\ m \in 0 .. n - 1 /\ m + 1 \in 0 .. n /\ (m + 1) - 1 = m
        /\ m + 1 \in 1 .. m + 1
    BY <1>1
  <2> DEFINE r == R(m)
             b == B(m + 1)
             c == r \o b
             tx == txs[m + 1]
  <2>2. r \in Seq(Records) /\ b \in Seq(Records) /\ R(m + 1) = c
    BY <1>2, <1>4, <2>1
  <2> HIDE DEF D
  <2>3. /\ \A k \in DOMAIN b :
              /\ b[k].ts = chain[s].ts
              /\ b[k].seq = s * SEQ_MULT + (m + 1)
              /\ b[k].wallet \notin excluded
              /\ Net(tx, b[k].wallet) # 0
              /\ b[k].balance = after[m + 1][b[k].wallet]
        /\ \A w : w \notin excluded /\ Net(tx, w) # 0 =>
             \E k \in DOMAIN b : b[k].wallet = w
        /\ \A k, l \in DOMAIN b : b[k].wallet = b[l].wallet => k = l
    BY <1>4, <2>1
  <2> HIDE DEF r, b, c
  <2>4. /\ c \in Seq(Records)
        /\ Len(r) \in Nat /\ Len(b) \in Nat
        /\ DOMAIN r = 1 .. Len(r) /\ DOMAIN b = 1 .. Len(b)
        /\ DOMAIN c = 1 .. Len(r) + Len(b)
        /\ \A i \in 1 .. Len(r) : c[i] = r[i]
        /\ \A i \in 1 .. Len(b) : c[Len(r) + i] = b[i]
        /\ \A i \in DOMAIN c :
              \/ i \in 1 .. Len(r) /\ c[i] = r[i]
              \/ i - Len(r) \in 1 .. Len(b) /\ c[i] = b[i - Len(r)]
    BY <2>2, ConcatIs DEF c
  <2>5. ASSUME NEW k \in DOMAIN c
        PROVE  /\ c[k].ts = chain[s].ts
               /\ c[k].wallet \notin excluded
               /\ \E i \in 1 .. m + 1 : /\ c[k].seq = s * SEQ_MULT + i
                                        /\ Net(txs[i], c[k].wallet) # 0
    <3>1. CASE k \in 1 .. Len(r) /\ c[k] = r[k]
      <4>1. /\ r[k].ts = chain[s].ts
            /\ r[k].wallet \notin excluded
            /\ \E i \in 1 .. m : /\ r[k].seq = s * SEQ_MULT + i
                                 /\ Net(txs[i], r[k].wallet) # 0
        BY <2>1, <2>4, <3>1 DEF Recorded, r
      <4>2. \A i \in 1 .. m : i \in 1 .. m + 1
        BY <2>1
      <4> QED
        BY <3>1, <4>1, <4>2
    <3>2. CASE k - Len(r) \in 1 .. Len(b) /\ c[k] = b[k - Len(r)]
      <4> DEFINE l == k - Len(r)
      <4>1. l \in DOMAIN b /\ c[k] = b[l]
        BY <2>4, <3>2
      <4> HIDE DEF l
      <4>2. /\ c[k].ts = chain[s].ts /\ c[k].wallet \notin excluded
            /\ c[k].seq = s * SEQ_MULT + (m + 1)
            /\ Net(txs[m + 1], c[k].wallet) # 0
        BY <2>3, <4>1
      <4> QED
        BY <2>1, <4>2
    <3> QED
      BY <2>4, <3>1, <3>2
  <2>6. ASSUME NEW i \in 1 .. m + 1, NEW w, w \notin excluded, Net(txs[i], w) # 0
        PROVE  \E k \in DOMAIN c : c[k].wallet = w /\ c[k].seq = s * SEQ_MULT + i
    <3>1. CASE i \in 1 .. m
      <4>1. PICK k \in DOMAIN r : r[k].wallet = w /\ r[k].seq = s * SEQ_MULT + i
        BY <2>1, <2>6, <3>1 DEF Recorded, r
      <4>2. k \in DOMAIN c /\ c[k] = r[k]
        BY <2>4
      <4> QED
        BY <4>1, <4>2
    <3>2. CASE i = m + 1
      <4>0. w \notin excluded /\ Net(tx, w) # 0
        BY <2>6, <3>2
      <4>1. PICK k \in DOMAIN b : b[k].wallet = w
        <5> HIDE DEF tx
        <5> QED
          BY <2>3, <4>0
      <4>2. Len(r) + k \in DOMAIN c /\ c[Len(r) + k] = b[k]
        BY <2>4
      <4> QED
        BY <2>3, <3>2, <4>1, <4>2
    <3>3. i \in 1 .. m \/ i = m + 1
      BY <2>1
    <3> QED
      BY <3>1, <3>2, <3>3
  <2>7. Ordered(c)
    <3> SUFFICES ASSUME NEW i \in DOMAIN c, NEW j \in DOMAIN c, i < j
                 PROVE  /\ c[i].ts <= c[j].ts
                        /\ c[i].seq <= c[j].seq
                        /\ c[i].wallet = c[j].wallet => c[i].seq < c[j].seq
      BY DEF Ordered
    <3>0. chain[s].ts \in Int /\ s * SEQ_MULT \in Int
      BY <1>1, BlockIs DEF Times
    <3>1. c[i].ts <= c[j].ts
      BY <2>5, <3>0
    <3>2. CASE j \in 1 .. Len(r) /\ c[j] = r[j]
      <4>1. i \in 1 .. Len(r) /\ c[i] = r[i]
        BY <2>4, <3>2
      <4>2. Ordered(r)
        BY <2>1 DEF Recorded, r
      <4> QED
        BY <2>4, <3>1, <3>2, <4>1, <4>2 DEF Ordered
    <3>3. CASE j - Len(r) \in 1 .. Len(b) /\ c[j] = b[j - Len(r)]
      <4>1. c[j].seq = s * SEQ_MULT + (m + 1)
        BY <2>3, <2>4, <3>3
      <4>2. CASE i \in 1 .. Len(r) /\ c[i] = r[i]
        <5>1. PICK l \in 1 .. m : r[i].seq = s * SEQ_MULT + l
          BY <2>1, <2>4, <4>2 DEF Recorded, r
        <5>2. c[i].seq < c[j].seq
          BY <2>1, <3>0, <4>1, <4>2, <5>1
        <5>3. c[i].seq <= c[j].seq
          BY <2>1, <3>0, <4>1, <4>2, <5>1
        <5> QED
          BY <3>1, <5>2, <5>3
      <4>3. CASE i - Len(r) \in 1 .. Len(b) /\ c[i] = b[i - Len(r)]
        <5>1. c[i].seq = s * SEQ_MULT + (m + 1)
          BY <2>3, <2>4, <4>3
        <5>2. c[i].wallet # c[j].wallet
          <6>1. i - Len(r) # j - Len(r)
            BY <2>4
          <6> QED
            BY <2>3, <2>4, <3>3, <4>3, <6>1
        <5>3. c[i].seq <= c[j].seq
          BY <2>1, <3>0, <4>1, <5>1
        <5> QED
          BY <3>1, <5>2, <5>3
      <4> QED
        BY <2>4, <4>2, <4>3
    <3> QED
      BY <2>4, <3>2, <3>3
  <2>8. ASSUME NEW old \in Seq(Records), LatestOf(old) = latest
        PROVE  LatestOf(old \o c) = after[m + 1]
    <3>1. old \o c = (old \o r) \o b /\ old \o r \in Seq(Records)
          /\ old \o c \in Seq(Records)
      BY <2>2, <2>4, ConcatAssociative, ConcatProperties DEF c
    <3>2. LatestOf(old \o r) = after[m]
      BY <2>1, <2>8 DEF Recorded, r
    <3>3. after[m] \in [Wallets -> Nat] /\ after[m + 1] \in [Wallets -> Nat]
          /\ latest \in [Wallets -> Nat]
      BY <1>3, <2>1
    <3>4. LatestOf(old \o c) \in [Wallets -> Nat]
      BY <3>1, LatestType
    <3>5. ASSUME NEW w \in Wallets
          PROVE  LatestOf(old \o c)[w] = after[m + 1][w]
      <4>0. after[m + 1][w] = IF w \in excluded THEN latest[w]
                              ELSE IF after[m][w] + Net(tx, w) >= 0
                              THEN after[m][w] + Net(tx, w) ELSE 0
        BY <1>3, <2>1
      <4> DEFINE e == old \o r
      <4>9. e \in Seq(Records) /\ old \o c = e \o b /\ LatestOf(e) = after[m]
        BY <3>1, <3>2
      <4> HIDE DEF e, tx
      <4>1. CASE \E k \in DOMAIN b : b[k].wallet = w
        <5>1. LatestOf(e \o b)[w] = LatestOf(b)[w]
          BY <2>2, <4>9, <4>1, LatestOfConcat
        <5>2. PICK k \in DOMAIN b : LastOf(b, w, k)
          BY <2>2, <4>1, LatestIs
        <5>3. LatestOf(b)[w] = b[k].balance
          BY <2>2, <5>2, LatestIs
        <5>4. b[k].wallet = w
          BY <5>2 DEF LastOf
        <5>5. b[k].balance = after[m + 1][b[k].wallet]
          BY <2>3, <5>2
        <5> QED
          BY <4>9, <5>1, <5>3, <5>4, <5>5
      <4>2. CASE \A k \in DOMAIN b : b[k].wallet # w
        <5>1. LatestOf(old \o c)[w] = after[m][w]
          <6>1. LatestOf(e \o b)[w] = LatestOf(e)[w]
            BY <2>2, <4>9, <4>2, LatestOfConcat
          <6> QED
            BY <4>9, <6>1
        <5>2. w \in excluded \/ Net(tx, w) = 0
          BY <2>3, <4>2
        <5>3. CASE w \notin excluded
          BY <3>3, <4>0, <5>1, <5>2, <5>3
        <5>4. CASE w \in excluded
          <6>1. after[m][w] = latest[w]
            <7>1. CASE m = 0
              BY <1>3, <7>1
            <7>2. CASE m # 0
              <8>1. m \in 1 .. n
                BY <2>1, <7>2
              <8> QED
                BY <1>3, <5>4, <8>1
            <7> QED
              BY <7>1, <7>2
          <6> QED
            BY <4>0, <5>1, <5>4, <6>1
        <5> QED
          BY <5>3, <5>4
      <4> QED
        BY <4>1, <4>2
    <3> QED
      BY <3>3, <3>4, <3>5
  <2>9. ASSUME NEW old \in Seq(Records), LatestOf(old) = latest, NEW k \in DOMAIN c
        PROVE  \E i \in 1 .. m + 1 : Follows(old \o c, Len(old) + k, s, i)
    <3> DEFINE e == old \o r
               all == old \o c
    <3>1. all = e \o b /\ e \in Seq(Records)
      BY <2>2, <2>4, ConcatAssociative, ConcatProperties DEF c
    <3>2. /\ LatestOf(e) = after[m]
          /\ \A j \in DOMAIN r : \E i \in 1 .. m : Follows(e, Len(old) + j, s, i)
      BY <2>1, <2>9 DEF Recorded, r
    <3>3. /\ Len(old) \in Nat /\ Len(e) = Len(old) + Len(r)
          /\ \A i \in 1 .. Len(e) : all[i] = e[i]
          /\ \A i \in 1 .. Len(b) : all[Len(e) + i] = b[i]
      BY <2>2, <3>1, ConcatIs
    <3> HIDE DEF e, all
    <3>4. CASE k \in 1 .. Len(r)
      <4>1. PICK i \in 1 .. m : Follows(e, Len(old) + k, s, i)
        BY <2>4, <3>2, <3>4
      <4>2. /\ Len(old) + k \in Nat /\ Len(old) + k >= 1
            /\ \A j \in 1 .. Len(old) + k : e[j] = all[j]
        <5>1. \A j \in 1 .. Len(old) + k : j \in 1 .. Len(e)
          BY <2>4, <3>3, <3>4
        <5> QED
          BY <3>3, <3>4, <5>1
      <4>3. Follows(all, Len(old) + k, s, i)
        BY <4>1, <4>2, FollowsSame
      <4> QED
        BY <2>1, <4>3 DEF all
    <3>5. CASE k - Len(r) \in 1 .. Len(b)
      <4>1. PICK l \in DOMAIN b : k = Len(r) + l
        <5>1. k - Len(r) \in DOMAIN b /\ k = Len(r) + (k - Len(r))
          BY <2>4, <3>5
        <5> QED
          BY <5>1
      <4>2. Len(old) + k = Len(e) + l /\ l \in 1 .. Len(b)
        BY <2>4, <3>3, <4>1
      <4> PICK w : w = b[l].wallet
        OBVIOUS
      <4>3. \A j \in 1 .. l - 1 : b[j].wallet # b[l].wallet
        <5> SUFFICES ASSUME NEW j \in 1 .. l - 1
                     PROVE  b[j].wallet # b[l].wallet
          OBVIOUS
        <5>1. j \in DOMAIN b /\ j # l
          BY <2>4, <4>2
        <5> QED
          BY <2>3, <5>1
      <4>4. /\ after[m][w] \in Nat
            /\ Prior(all, Len(e) + l, after[m][w])
        BY <2>2, <3>1, <3>2, <4>3, PriorIs
      <4>5. all[Len(e) + l] = b[l]
        BY <3>3, <4>2
      <4>6. /\ b[l].seq = s * SEQ_MULT + (m + 1) /\ w \notin excluded
            /\ b[l].balance = after[m + 1][w]
        BY <2>3
      <4>7. w \in Wallets
        <5>1. \A rec \in Records : rec.wallet \in Wallets
          BY DEF Records
        <5>2. b[l] \in Records
          BY <2>2, <4>2, ElementOfSeq
        <5> QED
          BY <5>1, <5>2
      <4>8. b[l].balance = NotNegative(after[m][w] + Net(tx, w))
        <5>1. after[m + 1][w] = IF w \in excluded THEN latest[w]
                                ELSE IF after[m][w] + Net(tx, w) >= 0
                                THEN after[m][w] + Net(tx, w) ELSE 0
          BY <1>3, <2>1, <4>7
        <5> HIDE DEF tx
        <5> QED
          BY <4>6, <5>1 DEF NotNegative
      <4>9. Follows(all, Len(e) + l, s, m + 1)
        BY <4>4, <4>5, <4>6, <4>8 DEF Follows
      <4> QED
        BY <2>1, <4>2, <4>9 DEF all
    <3> QED
      BY <2>4, <3>4, <3>5
  <2> HIDE DEF tx
  <2>10. Recorded(s, after, m + 1, c)
    BY <2>5, <2>6, <2>7, <2>8, <2>9 DEF Recorded
  <2> QED
    BY <2>2, <2>10
<1>7. n \in D
  <2>1. D \in SUBSET Nat
    OBVIOUS
  <2> HIDE DEF D
  <2> QED
    BY <1>1, <1>5, <1>6, <2>1, InductiveSet
<1>8. n <= n /\ n \in 0 .. n
  BY <1>1
<1> QED
  BY <1>2, <1>7, <1>8

----------------------------------------------------------------------------
(* What prune keeps.                                                       *)

(* r is the record q, or a later one of its wallet that is still old.      *)
Outlives(r, q, before) ==
  /\ r.wallet = q.wallet
  /\ r.seq >= q.seq
  /\ r = q \/ r.ts < before

(* prune keeps all that is recent, makes up nothing and, of records in     *)
(* order, leaves each wallet its latest balance.                           *)
LEMMA KeptIs ==
  ASSUME NEW recs \in Seq(Records), NEW before \in Int
  PROVE  LET kept == Kept(recs, before) IN
         /\ kept \in Seq(Records)
         /\ \A i \in DOMAIN recs : recs[i].ts >= before =>
              \E n \in DOMAIN kept : kept[n] = recs[i]
         /\ \A n \in DOMAIN kept : \E i \in DOMAIN recs : kept[n] = recs[i]
         /\ Ordered(recs) => Ordered(kept) /\ LatestOf(kept) = LatestOf(recs)
         /\ Ordered(recs) => \A i \in DOMAIN recs :
              \E n \in DOMAIN kept : Outlives(kept[n], recs[i], before)
<1> DEFINE older(w) == {i \in DOMAIN recs : recs[i].wallet = w /\ recs[i].ts < before}
           later(i, j) == \/ recs[j].ts > recs[i].ts
                          \/ recs[j].ts = recs[i].ts /\ recs[j].seq > recs[i].seq
           last(w) == CHOOSE i \in older(w) :
                        \A j \in older(w) : ~later(i, j) /\ (j < i => later(j, i))
           at == {i \in DOMAIN recs :
                    recs[i].ts >= before \/ i = last(recs[i].wallet)}
           kept == Picked(recs, at)
<1>1. Kept(recs, before) = kept
  BY DEF Kept
<1>2. at \in SUBSET DOMAIN recs
  OBVIOUS
<1>3. /\ DOMAIN recs = 1 .. Len(recs) /\ Len(recs) \in Nat
      /\ \A i \in DOMAIN recs :
           /\ recs[i] \in Records /\ recs[i].ts \in Nat /\ recs[i].seq \in Nat
           /\ recs[i].wallet \in Wallets
  <2>1. DOMAIN recs = 1 .. Len(recs) /\ Len(recs) \in Nat
        /\ \A i \in DOMAIN recs : recs[i] \in Records
    OBVIOUS
  <2> QED
    BY <2>1 DEF Records, Times
<1>4. /\ \A i \in DOMAIN recs : recs[i].ts >= before => i \in at
      /\ \A i \in DOMAIN recs : i = last(recs[i].wallet) => i \in at
  OBVIOUS
<1> HIDE DEF at
<1>5. /\ IsFiniteSet(at) /\ at \in SUBSET Nat
      /\ kept \in Seq(Records)
      /\ \A i \in at : \E n \in DOMAIN kept : kept[n] = recs[i]
      /\ \A n \in DOMAIN kept : \E i \in at : kept[n] = recs[i]
  BY <1>2, PickedType
<1>6. PICK p : /\ Cardinality(at) \in Nat
               /\ p \in [1 .. Cardinality(at) -> at]
               /\ \A w \in at : \E i \in 1 .. Cardinality(at) : p[i] = w
               /\ \A i, j \in 1 .. Cardinality(at) : i < j => p[i] < p[j]
               /\ \A seq : Picked(seq, at)
                             = [n \in 1 .. Cardinality(at) |-> seq[p[n]]]
  BY <1>5, PickedIs
<1>7. /\ DOMAIN kept = 1 .. Cardinality(at)
      /\ \A n \in DOMAIN kept : p[n] \in at /\ p[n] \in DOMAIN recs
                                /\ kept[n] = recs[p[n]]
      /\ \A i, j \in DOMAIN kept : i < j => p[i] < p[j]
      /\ \A w \in at : \E i \in DOMAIN kept : p[i] = w
  BY <1>2, <1>6
<1> HIDE DEF kept
<1>8. ASSUME Ordered(recs)
      PROVE  Ordered(kept)
  BY <1>7, <1>8 DEF Ordered
<1>9. ASSUME Ordered(recs), NEW w \in Wallets
      PROVE  LatestOf(kept)[w] = LatestOf(recs)[w]
  <2>1. CASE \A k \in DOMAIN recs : recs[k].wallet # w
    <3>1. \A n \in DOMAIN kept : kept[n].wallet # w
      BY <1>7, <2>1
    <3>2. LatestOf(recs)[w] = 0
      BY <2>1, LatestIs
    <3>3. LatestOf(kept)[w] = 0
      BY <1>5, <3>1, LatestIs
    <3> QED
      BY <3>2, <3>3
  <2>2. CASE \E k \in DOMAIN recs : recs[k].wallet = w
    <3>1. PICK k \in DOMAIN recs : LastOf(recs, w, k)
      BY <2>2, LatestIs
    <3>2. recs[k].wallet = w /\ \A j \in DOMAIN recs : recs[j].wallet = w => j <= k
      BY <3>1 DEF LastOf
    <3>3. k \in at
      <4>1. CASE recs[k].ts >= before
        BY <1>4, <4>1
      <4>2. CASE recs[k].ts < before
        <5>1. k \in older(w)
          BY <3>2, <4>2
        <5>2. \A j \in older(w) : j \in DOMAIN recs /\ j <= k /\ recs[j].wallet = w
          BY <3>2
        <5>3. \A j \in older(w) : j # k => later(j, k) /\ ~later(k, j)
          <6> SUFFICES ASSUME NEW j \in older(w), j # k
                       PROVE  later(j, k) /\ ~later(k, j)
            OBVIOUS
          <6>1. j < k /\ j \in DOMAIN recs /\ recs[j].wallet = w
            BY <1>3, <5>2
          <6>2. /\ recs[j].ts <= recs[k].ts
                /\ recs[j].seq < recs[k].seq
            BY <1>9, <3>2, <6>1 DEF Ordered
          <6> QED
            BY <1>3, <6>1, <6>2
        <5>4. ~later(k, k)
          BY <1>3
        <5> DEFINE good(i) == \A j \in older(w) : ~later(i, j) /\ (j < i => later(j, i))
        <5>5. good(k)
          BY <1>3, <5>2, <5>3, <5>4
        <5>6. \A i \in older(w) : good(i) => i = k
          BY <5>1, <5>3
        <5> HIDE DEF older, later
        <5>7. last(w) = k
          BY <5>1, <5>5, <5>6
        <5> QED
          BY <1>4, <3>2, <5>7
      <4> QED
        BY <1>3, <4>1, <4>2
    <3>4. PICK n \in DOMAIN kept : p[n] = k
      BY <1>7, <3>3
    <3>5. kept[n] = recs[k]
      BY <1>7, <3>4
    <3>6. \A m \in DOMAIN kept : kept[m].wallet = w => m <= n
      <4> SUFFICES ASSUME NEW m \in DOMAIN kept, kept[m].wallet = w, n < m
                   PROVE  FALSE
        BY <1>6, <1>7
      <4>1. p[m] \in DOMAIN recs /\ recs[p[m]].wallet = w /\ p[n] < p[m]
        BY <1>7
      <4> QED
        BY <1>3, <3>2, <3>4, <4>1
    <3>7. LastOf(kept, w, n)
      BY <3>2, <3>5, <3>6 DEF LastOf
    <3>8. LatestOf(kept)[w] = kept[n].balance
      BY <1>5, <3>7, LatestIs
    <3>9. LatestOf(recs)[w] = recs[k].balance
      BY <3>1, LatestIs
    <3> QED
      BY <3>5, <3>8, <3>9
  <2> QED
    BY <2>1, <2>2
<1>10. ASSUME Ordered(recs)
       PROVE  LatestOf(kept) = LatestOf(recs)
  <2>1. LatestOf(kept) \in [Wallets -> Nat] /\ LatestOf(recs) \in [Wallets -> Nat]
    BY <1>5, LatestType
  <2>2. \A w \in Wallets : LatestOf(kept)[w] = LatestOf(recs)[w]
    BY <1>9, <1>10
  <2> QED
    BY <2>1, <2>2
<1>11. \A i \in DOMAIN recs : recs[i].ts >= before =>
          \E n \in DOMAIN kept : kept[n] = recs[i]
  BY <1>4, <1>5
<1>12. \A n \in DOMAIN kept : \E i \in DOMAIN recs : kept[n] = recs[i]
  BY <1>2, <1>5
<1>13. ASSUME Ordered(recs), NEW i \in DOMAIN recs
       PROVE  \E n \in DOMAIN kept : Outlives(kept[n], recs[i], before)
  <2>1. CASE recs[i].ts >= before
    <3>1. PICK n \in DOMAIN kept : kept[n] = recs[i]
      BY <1>11, <2>1
    <3> QED
      BY <1>3, <3>1 DEF Outlives
  <2>2. CASE recs[i].ts < before
    <3> PICK w : w = recs[i].wallet
      OBVIOUS
    <3> DEFINE O == older(w)
    <3>1. O # {} /\ O \in SUBSET Int /\ Len(recs) \in Int /\ \A k \in O : k <= Len(recs)
      BY <1>3, <2>2
    <3>2. PICK k \in O : \A j \in O : j <= k
      <4> HIDE DEF O
      <4> QED
        BY <3>1, MaxIs
    <3>3. /\ k \in DOMAIN recs /\ recs[k].wallet = w /\ recs[k].ts < before
          /\ \A j \in O : j \in DOMAIN recs /\ j <= k /\ recs[j].wallet = w
          /\ i \in O
      BY <2>2, <3>2
    <3>4. \A j \in O : j # k => later(j, k) /\ ~later(k, j)
      <4> SUFFICES ASSUME NEW j \in O, j # k
                   PROVE  later(j, k) /\ ~later(k, j)
        OBVIOUS
      <4>1. j < k /\ j \in DOMAIN recs /\ recs[j].wallet = w
        BY <1>3, <3>3
      <4>2. recs[j].ts <= recs[k].ts /\ recs[j].seq < recs[k].seq
        BY <1>13, <3>3, <4>1 DEF Ordered
      <4> QED
        BY <1>3, <3>3, <4>1, <4>2
    <3>5. ~later(k, k)
      BY <1>3, <3>3
    <3> DEFINE good(m) == \A j \in O : ~later(m, j) /\ (j < m => later(j, m))
    <3>6. good(k) /\ \A m \in O : good(m) => m = k
      BY <1>3, <3>2, <3>3, <3>4, <3>5
    <3>7. last(w) = CHOOSE m \in O : good(m)
      OBVIOUS
    <3> HIDE DEF O, later, last, good
    <3>8. last(w) = k
      BY <3>2, <3>6, <3>7
    <3>9. k \in at
      BY <1>4, <3>3, <3>8
    <3>10. PICK n \in DOMAIN kept : kept[n] = recs[k]
      BY <1>5, <3>9
    <3>11. recs[k].seq >= recs[i].seq
      <4>1. i = k \/ i < k
        BY <1>3, <3>3
      <4>2. i < k => recs[i].seq < recs[k].seq
        BY <1>13, <3>3 DEF Ordered
      <4> QED
        BY <1>3, <3>3, <4>1, <4>2
    <3> QED
      BY <3>3, <3>10, <3>11 DEF Outlives
  <2> QED
    BY <1>3, <2>1, <2>2
<1> QED
  BY <1>1, <1>5, <1>8, <1>10, <1>11, <1>12, <1>13

----------------------------------------------------------------------------
(* The inductive invariants.                                               *)

(* The writes of a handler: one that is not to the log carries no record.  *)
Writes ==
  {w \in [to : {"line", "log", "started", "watermark", "watermarkTs"},
          value : Int, recs : Seq(Records)] :
     /\ w.to \notin {"line", "log"} => w.recs = <<>>
     /\ w.to = "watermark" => w.value \in -1 .. LastSlot}

Metas == [started : BOOLEAN, watermark : -2 .. LastSlot, watermarkTs : Int]

Typed ==
  /\ chain \in Chains
  /\ lines \in Seq(Seq(Records))
  /\ meta \in Metas
  /\ balances \in Seq(Records)
  /\ latest \in [Wallets -> Nat]
  /\ pending \in SUBSET Slots
  /\ highest \in Int
  /\ excluded \in SUBSET Pools
  /\ todo \in Seq(Writes)
  /\ base \in Int /\ base >= -1
  /\ detours \in Nat
  /\ pruned \in Times
  /\ ~up => pending = {} /\ highest = -1 /\ todo = <<>>

(* The records that writes still to be made will add to the file.          *)
RecsOf(writes) == FlattenSeq([j \in DOMAIN writes |-> writes[j].recs])

(* What is on disk and what is still to be written there are what memory   *)
(* has, unless a record was lost.                                          *)
FileKept ==
  up /\ ~cut =>
    \/ todo = <<Rewrite(balances)>>
    \/ /\ \A j \in DOMAIN todo : todo[j].to # "log"
       /\ Reloaded \o RecsOf(todo) = balances

(* Each transfer of slot s to or from a holder has its record.             *)
Has(recs, s) ==
  \A i \in DOMAIN chain[s].txs : \A w \in Wallets \ Pools :
    Net(chain[s].txs[i], w) # 0 =>
      \E k \in DOMAIN recs : /\ recs[k].wallet = w
                             /\ recs[k].seq = s * SEQ_MULT + i
                             /\ recs[k].ts = chain[s].ts

Covers(recs, slots, since) ==
  \A s \in slots : chain[s].ts >= since => Has(recs, s)

(* The file covers the slots up to the watermark on disk; memory covers    *)
(* these, the slots waiting above it, and those up to a watermark still to *)
(* be written.                                                             *)
Acked ==
  ~cut =>
    /\ Covers(Reloaded, base + 1 .. meta.watermark, pruned)
    /\ up => /\ Covers(balances, pending \cup (base + 1 .. meta.watermark), pruned)
             /\ \A j \in DOMAIN todo : todo[j].to = "watermark" =>
                  Covers(balances, base + 1 .. todo[j].value, pruned)

(* A handler writes its records before the watermark that covers them.     *)
LinesFirst ==
  \A i, j \in DOMAIN todo :
    /\ todo[i].to \in {"line", "log"}
    /\ todo[j].to = "watermark"
    /\ todo[j].value > base
    => i < j

(* Before the baseline is on disk, nothing is acknowledged.                *)
Unstarted ==
  ~meta.started =>
    /\ meta.watermark <= -1
    /\ pending = {}
    /\ (\A j \in DOMAIN todo : todo[j].to # "started") => highest = -1
    /\ \A j \in DOMAIN todo :
         todo[j].to = "watermark" /\ todo[j].value > -1 =>
           \E i \in 1 .. j - 1 : todo[i].to = "started"

Durable == Typed /\ FileKept /\ Acked /\ LinesFirst /\ Unstarted

(* No slot came out of turn and no handler was interrupted.                *)
Straight == detours = 0 /\ ~interrupted

(* No record is later than slot v.                                         *)
Upto(recs, v) ==
  \A k \in DOMAIN recs :
    /\ v \in Slots
    /\ recs[k].seq <= v * SEQ_MULT + SEQ_MULT
    /\ recs[k].ts <= chain[v].ts

(* Each transfer of slot s to or from a holder has its record, or a later  *)
(* one that a prune left of the wallet.                                    *)
HasLater(recs, s) ==
  \A i \in DOMAIN chain[s].txs : \A w \in Wallets \ Pools :
    Net(chain[s].txs[i], w) # 0 =>
      \E k \in DOMAIN recs :
        /\ recs[k].wallet = w
        /\ recs[k].seq >= s * SEQ_MULT + i
        /\ recs[k].seq = s * SEQ_MULT + i \/ recs[k].ts < pruned

(* That is so of the slots delivered up to slot v.                         *)
Complete(recs, v) == \A s \in Slots : base < s /\ s <= v => HasLater(recs, s)

(* The watermark that meta will have when the writes are made.             *)
Mark(v) ==
  \/ \E j \in DOMAIN todo :
       /\ todo[j].to = "watermark" /\ todo[j].value = v
       /\ \A i \in DOMAIN todo : i > j => todo[i].to # "watermark"
  \/ /\ v = meta.watermark
     /\ \A j \in DOMAIN todo : todo[j].to # "watermark"

(* Until something is out of turn, memory has its records in order, all up *)
(* to the watermark and none beyond.                                       *)
StraightKept ==
  /\ ~interrupted => ended /\ ~cut
  /\ Straight /\ ~up =>
       /\ Ordered(Reloaded) /\ Upto(Reloaded, meta.watermark)
       /\ Complete(Reloaded, meta.watermark)
       /\ ~meta.started => Reloaded = <<>>
  /\ Straight /\ up =>
       /\ Ordered(balances) /\ pending = {}
       /\ \E v \in -2 .. LastSlot :
            /\ Mark(v) /\ Upto(balances, v) /\ Complete(balances, v)
            /\ highest = -1 \/ highest <= v
       /\ ~meta.started /\ (\A j \in DOMAIN todo : todo[j].to # "started")
            => balances = <<>>

(* latest is what a restart would make of the records in memory.           *)
LatestKept ==
  up /\ (pruned = 0 \/ Straight) => LatestOf(balances) = latest

Reproducible == Durable /\ StraightKept /\ LatestKept

----------------------------------------------------------------------------
(* Writes and the records they carry.                                      *)

(* What a write is. *)
LEMMA WriteIs ==
  ASSUME NEW w \in Writes
  PROVE  /\ w.to \in {"line", "log", "started", "watermark", "watermarkTs"}
         /\ w.value \in Int /\ w.recs \in Seq(Records)
         /\ w.to \notin {"line", "log"} => w.recs = <<>>
         /\ w.to = "watermark" => w.value \in -1 .. LastSlot
BY DEF Writes

(* Writes carry records. *)
LEMMA RecsOfType ==
  ASSUME NEW p \in Seq(Writes)
  PROVE  /\ [j \in DOMAIN p |-> p[j].recs] \in Seq(Seq(Records))
         /\ RecsOf(p) \in Seq(Records)
<1>1. \A j \in DOMAIN p : p[j].recs \in Seq(Records)
  BY WriteIs
<1>2. [j \in DOMAIN p |-> p[j].recs] \in Seq(Seq(Records))
  BY <1>1
<1> QED
  BY <1>2, FlattenType DEF RecsOf

(* Writes one after the other add their records one after the other. *)
LEMMA RecsOfConcat ==
  ASSUME NEW p \in Seq(Writes), NEW q \in Seq(Writes)
  PROVE  RecsOf(p \o q) = RecsOf(p) \o RecsOf(q)
<1> DEFINE r(x) == [j \in DOMAIN x |-> x[j].recs]
<1>1. r(p) \in Seq(Seq(Records)) /\ r(q) \in Seq(Seq(Records))
  BY RecsOfType
<1>2. p \o q \in Seq(Writes)
  OBVIOUS
<1>3. r(p \o q) = r(p) \o r(q)
  <2>1. /\ Len(p) \in Nat /\ Len(q) \in Nat
        /\ DOMAIN p = 1 .. Len(p) /\ DOMAIN q = 1 .. Len(q)
        /\ DOMAIN (p \o q) = 1 .. Len(p) + Len(q)
        /\ \A i \in 1 .. Len(p) : (p \o q)[i] = p[i]
        /\ \A i \in 1 .. Len(q) : (p \o q)[Len(p) + i] = q[i]
    BY ConcatIs
  <2>2. /\ Len(r(p)) = Len(p) /\ Len(r(q)) = Len(q)
        /\ \A i \in 1 .. Len(p) : r(p)[i] = p[i].recs
        /\ \A i \in 1 .. Len(q) : r(q)[i] = q[i].recs
    BY <2>1
  <2>3. /\ DOMAIN r(p \o q) = 1 .. Len(p) + Len(q)
        /\ \A i \in 1 .. Len(p) + Len(q) : r(p \o q)[i] = (p \o q)[i].recs
    BY <2>1
  <2>4. r(p \o q) \in Seq(Seq(Records))
    BY <1>2, RecsOfType
  <2> HIDE DEF r
  <2>5. /\ DOMAIN (r(p) \o r(q)) = 1 .. Len(p) + Len(q)
        /\ \A i \in 1 .. Len(p) : (r(p) \o r(q))[i] = r(p)[i]
        /\ \A i \in 1 .. Len(q) : (r(p) \o r(q))[Len(p) + i] = r(q)[i]
        /\ r(p) \o r(q) \in Seq(Seq(Records))
    <3>1. \A a, b \in Seq(Seq(Records)) :
            /\ a \o b \in Seq(Seq(Records))
            /\ DOMAIN (a \o b) = 1 .. Len(a) + Len(b)
            /\ \A i \in 1 .. Len(a) : (a \o b)[i] = a[i]
            /\ \A i \in 1 .. Len(b) : (a \o b)[Len(a) + i] = b[i]
      BY ConcatIs
    <3>2. /\ r(p) \o r(q) \in Seq(Seq(Records))
          /\ DOMAIN (r(p) \o r(q)) = 1 .. Len(r(p)) + Len(r(q))
          /\ \A i \in 1 .. Len(r(p)) : (r(p) \o r(q))[i] = r(p)[i]
          /\ \A i \in 1 .. Len(r(q)) : (r(p) \o r(q))[Len(r(p)) + i] = r(q)[i]
      BY ONLY <1>1, <3>1
    <3> QED
      BY ONLY <2>2, <3>2
  <2>6. ASSUME NEW i \in 1 .. Len(p) + Len(q)
        PROVE  r(p \o q)[i] = (r(p) \o r(q))[i]
    <3>1. CASE i \in 1 .. Len(p)
      <4>1. r(p \o q)[i] = (p \o q)[i].recs
        BY <2>3
      <4> QED
        BY <2>1, <2>2, <2>5, <3>1, <4>1
    <3>2. CASE i - Len(p) \in 1 .. Len(q)
      <4>1. PICK k \in 1 .. Len(q) : k = i - Len(p)
        BY <3>2
      <4>2. i = Len(p) + k
        BY <2>1, <4>1
      <4> QED
        <5>1. r(p \o q)[i] = (p \o q)[i].recs
          BY <2>3
        <5>2. (p \o q)[Len(p) + k] = q[k] /\ r(q)[k] = q[k].recs
          BY <2>1, <2>2, <4>1
        <5>3. (r(p) \o r(q))[Len(p) + k] = r(q)[k]
          BY <2>5, <4>1
        <5> QED
          BY <4>2, <5>1, <5>2, <5>3
    <3>3. i \in 1 .. Len(p) \/ i - Len(p) \in 1 .. Len(q)
      BY <2>1
    <3> QED
      BY <3>1, <3>2, <3>3
  <2>7. Len(r(p \o q)) = Len(r(p) \o r(q))
    BY <2>1, <2>3, <2>4, <2>5
  <2>8. \A i \in 1 .. Len(r(p \o q)) : r(p \o q)[i] = (r(p) \o r(q))[i]
    <3>1. Len(r(p \o q)) = Len(p) + Len(q)
      BY <2>1, <2>3, <2>4
    <3> QED
      BY <2>6, <3>1
  <2> QED
    BY <2>4, <2>5, <2>7, <2>8, SeqEqual
<1> HIDE DEF r
<1>4. FlattenSeq(r(p) \o r(q)) = FlattenSeq(r(p)) \o FlattenSeq(r(q))
  BY <1>1, FlattenConcat
<1> QED
  BY <1>3, <1>4 DEF RecsOf, r

(* Writes to meta.json carry no record. *)
LEMMA RecsOfNone ==
  ASSUME NEW p \in Seq(Writes),
         \A j \in DOMAIN p : p[j].to \notin {"line", "log"}
  PROVE  RecsOf(p) = <<>>
<1> DEFINE r == [j \in DOMAIN p |-> p[j].recs]
<1>1. r \in Seq(Seq(Records))
  BY RecsOfType
<1>2. \A i \in 1 .. Len(r) : r[i] = <<>>
  BY WriteIs
<1> HIDE DEF r
<1>3. FlattenSeq(r) = <<>>
  BY <1>1, <1>2, FlattenNone
<1> QED
  BY <1>3 DEF RecsOf, r

(* The lines of a handler. *)
LinesOf(recs) == [i \in DOMAIN recs |-> WriteLine(recs[i])]

(* The lines of a handler carry its records. *)
LEMMA RecsOfLines ==
  ASSUME NEW recs \in Seq(Records)
  PROVE  /\ LinesOf(recs) \in Seq(Writes)
         /\ \A j \in DOMAIN LinesOf(recs) : /\ LinesOf(recs)[j].to = "line"
                                            /\ Len(LinesOf(recs)[j].recs) = 1
         /\ RecsOf(LinesOf(recs)) = recs
<1> DEFINE p == LinesOf(recs)
<1>1. \A i \in DOMAIN recs : WriteLine(recs[i]) \in Writes
  BY DEF WriteLine, Writes
<1>2. p \in Seq(Writes)
  BY <1>1 DEF LinesOf
<1>3. [j \in DOMAIN p |-> p[j].recs] = [i \in DOMAIN recs |-> <<recs[i]>>]
  BY DEF LinesOf, WriteLine
<1>4. RecsOf(p) = recs
  BY <1>3, FlattenSingles DEF RecsOf
<1>5. \A j \in DOMAIN p : p[j].to = "line" /\ Len(p[j].recs) = 1
  BY DEF LinesOf, WriteLine
<1> QED
  BY <1>2, <1>4, <1>5

(* The next write's records come first. *)
LEMMA RecsOfHead ==
  ASSUME NEW p \in Seq(Writes), p # <<>>
  PROVE  /\ Head(p) \in Writes /\ Tail(p) \in Seq(Writes)
         /\ RecsOf(p) = Head(p).recs \o RecsOf(Tail(p))
<1>1. Head(p) \in Writes /\ Tail(p) \in Seq(Writes) /\ <<Head(p)>> \in Seq(Writes)
  OBVIOUS
<1>2. p = <<Head(p)>> \o Tail(p)
  OBVIOUS
<1>3. Head(p).recs \in Seq(Records)
  BY <1>1, WriteIs
<1>4. [j \in DOMAIN <<Head(p)>> |-> <<Head(p)>>[j].recs] = <<Head(p).recs>>
  OBVIOUS
<1>5. RecsOf(<<Head(p)>>) = Head(p).recs
  BY <1>3, <1>4, FlattenOne DEF RecsOf
<1>6. RecsOf(<<Head(p)>> \o Tail(p)) = RecsOf(<<Head(p)>>) \o RecsOf(Tail(p))
  BY <1>1, RecsOfConcat
<1> QED
  BY <1>1, <1>2, <1>5, <1>6

(* The writes after the first one are where they were, one place nearer. *)
LEMMA TailIs ==
  ASSUME NEW p \in Seq(Writes), p # <<>>
  PROVE  /\ 1 \in DOMAIN p /\ Head(p) = p[1]
         /\ DOMAIN p = 1 .. Len(p) /\ Len(p) \in Nat
         /\ \A j \in DOMAIN Tail(p) :
              j \in Nat /\ j + 1 \in DOMAIN p /\ Tail(p)[j] = p[j + 1]
         /\ \A j \in DOMAIN p : j # 1 =>
              j - 1 \in DOMAIN Tail(p) /\ Tail(p)[j - 1] = p[j]
<1>1. /\ Tail(p) \in Seq(Writes) /\ Len(Tail(p)) = Len(p) - 1
      /\ \A i \in 1 .. Len(Tail(p)) : Tail(p)[i] = p[i + 1]
  BY HeadTailProperties
<1>2. /\ Len(p) \in Nat /\ Len(p) # 0 /\ DOMAIN p = 1 .. Len(p)
      /\ Head(p) = p[1] /\ DOMAIN Tail(p) = 1 .. Len(p) - 1
  BY <1>1
<1> QED
  BY <1>1, <1>2

----------------------------------------------------------------------------
(* Coverage.                                                               *)

(* Adding records uncovers no slot. *)
LEMMA CoversMore ==
  ASSUME NEW r \in Seq(Records), NEW q \in Seq(Records), NEW slots, NEW since,
         Covers(r, slots, since)
  PROVE  Covers(r \o q, slots, since)
<1>1. \A k \in DOMAIN r : k \in DOMAIN (r \o q) /\ (r \o q)[k] = r[k]
  BY ConcatIs
<1> QED
  BY <1>1 DEF Covers, Has

(* What covers slots covers fewer of them. *)
LEMMA CoversLess ==
  ASSUME NEW r, NEW slots, NEW fewer, fewer \subseteq slots, NEW since,
         Covers(r, slots, since)
  PROVE  Covers(r, fewer, since)
BY DEF Covers

(* Two sets of slots that are covered are covered together. *)
LEMMA CoversBoth ==
  ASSUME NEW r, NEW S, NEW T, NEW since, Covers(r, S, since), Covers(r, T, since)
  PROVE  Covers(r, S \cup T, since)
BY DEF Covers

(* History that was cut later asks for less. *)
LEMMA CoversLater ==
  ASSUME chain \in Chains, NEW r, NEW slots \in SUBSET Slots, NEW since \in Times,
         NEW before \in Times, before >= since, Covers(r, slots, since)
  PROVE  Covers(r, slots, before)
<1>1. \A s \in slots : chain[s].ts \in Times
  BY BlockIs
<1>2. \A s \in slots : chain[s].ts >= before => chain[s].ts >= since
  BY <1>1 DEF Times
<1> QED
  BY <1>2 DEF Covers

(* A prune keeps what covers the slots after its time. *)
LEMMA CoversKept ==
  ASSUME NEW r \in Seq(Records), NEW slots \in SUBSET Slots, NEW before \in Times,
         Covers(r, slots, before)
  PROVE  Covers(Kept(r, before), slots, before)
<1>1. before \in Int
  BY DEF Times
<1>2. \A i \in DOMAIN r : r[i].ts >= before =>
        \E n \in DOMAIN Kept(r, before) : Kept(r, before)[n] = r[i]
  BY <1>1, KeptIs
<1> QED
  BY <1>2 DEF Covers, Has

(* Ingesting a slot covers it. *)
LEMMA CoversNew ==
  ASSUME chain \in Chains, NEW s \in Slots, latest \in [Wallets -> Nat],
         excluded \in SUBSET Pools, NEW since, NEW old \in Seq(Records)
  PROVE  /\ RecordsOf(s, BalancesAfter(s)) \in Seq(Records)
         /\ Covers(old \o RecordsOf(s, BalancesAfter(s)), {s}, since)
<1> DEFINE after == BalancesAfter(s)
           recs == RecordsOf(s, after)
           n == Len(chain[s].txs)
<1>1. recs \in Seq(Records) /\ Recorded(s, after, n, recs)
  BY RecordsIs
<1>2. DOMAIN chain[s].txs = 1 .. n
  BY BlockIs
<1>3. \A k \in DOMAIN recs : recs[k].ts = chain[s].ts
  BY <1>1 DEF Recorded
<1>4. \A i \in 1 .. n : \A w :
        w \notin excluded /\ Net(chain[s].txs[i], w) # 0 =>
          \E k \in DOMAIN recs : recs[k].wallet = w /\ recs[k].seq = s * SEQ_MULT + i
  BY <1>1 DEF Recorded
<1> HIDE DEF after, recs, n
<1>5. \A i \in 1 .. n : \A w \in Wallets \ Pools :
        Net(chain[s].txs[i], w) # 0 =>
          \E k \in DOMAIN recs : recs[k].wallet = w /\ recs[k].seq = s * SEQ_MULT + i
  BY <1>4
<1>6. Has(recs, s)
  BY <1>2, <1>3, <1>5 DEF Has
<1>7. \A k \in DOMAIN recs : /\ Len(old) + k \in DOMAIN (old \o recs)
                             /\ (old \o recs)[Len(old) + k] = recs[k]
  BY <1>1, ConcatIs
<1>8. Has(old \o recs, s)
  <2> SUFFICES ASSUME NEW i \in DOMAIN chain[s].txs, NEW w \in Wallets \ Pools,
                      Net(chain[s].txs[i], w) # 0
               PROVE  \E k \in DOMAIN (old \o recs) :
                        /\ (old \o recs)[k].wallet = w
                        /\ (old \o recs)[k].seq = s * SEQ_MULT + i
                        /\ (old \o recs)[k].ts = chain[s].ts
    BY DEF Has
  <2>1. PICK k \in DOMAIN recs : /\ recs[k].wallet = w
                                 /\ recs[k].seq = s * SEQ_MULT + i
                                 /\ recs[k].ts = chain[s].ts
    BY <1>6 DEF Has
  <2> QED
    BY <1>7, <2>1
<1> QED
  BY <1>1, <1>8 DEF Covers, recs, after

----------------------------------------------------------------------------
(* Ingesting a slot.                                                       *)

(* The writes at the end of the handler, when the watermark moves. *)
MarkOf(from, wm) ==
  IF wm = from THEN <<>>
  ELSE <<WriteTo("watermark", wm), WriteTo("watermarkTs", chain[wm].ts)>>

(* Where the writes of three parts of a handler are. *)
Places(p, q, r, all) ==
  /\ all \in Seq(Writes)
  /\ Len(p) \in Nat /\ Len(q) \in Nat /\ Len(r) \in Nat
  /\ \A j \in DOMAIN p : j \in 1 .. Len(p) /\ j \in DOMAIN all /\ all[j] = p[j]
  /\ \A k \in DOMAIN r : Len(p) + Len(q) + k \in DOMAIN all
                         /\ all[Len(p) + Len(q) + k] = r[k]
  /\ \A j \in DOMAIN all :
       \/ j \in 1 .. Len(p) /\ j \in DOMAIN p /\ all[j] = p[j]
       \/ \E k \in DOMAIN q : j = Len(p) + k /\ all[j] = q[k]
                              /\ k \in 1 .. Len(q)
       \/ \E k \in DOMAIN r : j = Len(p) + Len(q) + k /\ all[j] = r[k]
                              /\ k \in 1 .. Len(r)

(* Concatenation puts the parts one after the other. *)
LEMMA PlacesIs ==
  ASSUME NEW p \in Seq(Writes), NEW q \in Seq(Writes), NEW r \in Seq(Writes)
  PROVE  Places(p, q, r, p \o q \o r)
<1> DEFINE pq == p \o q
<1>1. /\ pq \in Seq(Writes) /\ Len(p) \in Nat /\ Len(q) \in Nat
      /\ DOMAIN p = 1 .. Len(p) /\ DOMAIN q = 1 .. Len(q)
      /\ Len(pq) = Len(p) + Len(q)
      /\ DOMAIN pq = 1 .. Len(p) + Len(q)
      /\ \A i \in 1 .. Len(p) : pq[i] = p[i]
      /\ \A i \in DOMAIN pq :
           \/ i \in 1 .. Len(p) /\ pq[i] = p[i]
           \/ i - Len(p) \in 1 .. Len(q) /\ pq[i] = q[i - Len(p)]
  BY ConcatIs
<1> HIDE DEF pq
<1>2. /\ pq \o r \in Seq(Writes) /\ Len(r) \in Nat
      /\ DOMAIN r = 1 .. Len(r)
      /\ DOMAIN (pq \o r) = 1 .. Len(pq) + Len(r)
      /\ \A i \in 1 .. Len(pq) : (pq \o r)[i] = pq[i]
      /\ \A i \in 1 .. Len(r) : (pq \o r)[Len(pq) + i] = r[i]
      /\ \A i \in DOMAIN (pq \o r) :
           \/ i \in 1 .. Len(pq) /\ (pq \o r)[i] = pq[i]
           \/ i - Len(pq) \in 1 .. Len(r) /\ (pq \o r)[i] = r[i - Len(pq)]
  <2>1. pq \in Seq(Writes)
    BY <1>1
  <2> QED
    BY ONLY <2>1, ConcatIs, r \in Seq(Writes)
<1> DEFINE all == pq \o r
<1> HIDE DEF all
<1>3. \A j \in DOMAIN p : j \in 1 .. Len(p) /\ j \in DOMAIN all /\ all[j] = p[j]
  BY <1>1, <1>2 DEF all
<1>4. \A k \in DOMAIN r : Len(p) + Len(q) + k \in DOMAIN all
                          /\ all[Len(p) + Len(q) + k] = r[k]
  BY <1>1, <1>2 DEF all
<1>5. ASSUME NEW j \in DOMAIN all
      PROVE  \/ j \in 1 .. Len(p) /\ j \in DOMAIN p /\ all[j] = p[j]
             \/ \E k \in DOMAIN q : j = Len(p) + k /\ all[j] = q[k]
                                    /\ k \in 1 .. Len(q)
             \/ \E k \in DOMAIN r : j = Len(p) + Len(q) + k /\ all[j] = r[k]
                                    /\ k \in 1 .. Len(r)
  <2>1. j \in Nat
    BY <1>1, <1>2 DEF all
  <2>2. CASE j \in 1 .. Len(pq) /\ all[j] = pq[j]
    <3>1. j \in DOMAIN pq
      BY <1>1, <2>2
    <3>2. CASE j \in 1 .. Len(p) /\ pq[j] = p[j]
      BY <1>1, <2>2, <3>2
    <3>3. CASE j - Len(p) \in 1 .. Len(q) /\ pq[j] = q[j - Len(p)]
      <4>1. PICK k \in 1 .. Len(q) : k = j - Len(p)
        BY <3>3
      <4>2. j = Len(p) + k /\ k \in DOMAIN q /\ all[j] = q[k]
        BY <1>1, <2>1, <2>2, <3>3, <4>1
      <4> QED
        BY <4>2
    <3> QED
      BY <1>1, <3>1, <3>2, <3>3
  <2>3. CASE j - Len(pq) \in 1 .. Len(r) /\ all[j] = r[j - Len(pq)]
    <3>1. PICK k \in 1 .. Len(r) : k = j - Len(pq)
      BY <2>3
    <3>2. j = Len(p) + Len(q) + k /\ k \in DOMAIN r /\ all[j] = r[k]
      BY <1>1, <1>2, <2>1, <2>3, <3>1
    <3> QED
      BY <3>2
  <2> QED
    BY <1>2, <2>2, <2>3 DEF all
<1> QED
  BY <1>1, <1>2, <1>3, <1>4, <1>5 DEF all, pq, Places

(* Writes to meta.json. *)
LEMMA MarkWriteIs ==
  ASSUME NEW v \in Int
  PROVE  /\ v \in -1 .. LastSlot => WriteTo("watermark", v) \in Writes
         /\ WriteTo("watermarkTs", v) \in Writes
         /\ WriteTo("started", v) \in Writes
         /\ \A key : /\ WriteTo(key, v).to = key
                    /\ WriteTo(key, v).value = v
<1>1. <<>> \in Seq(Records)
  OBVIOUS
<1> QED
  BY <1>1 DEF WriteTo, Writes

(* What ingesting slot s does to memory and leaves to be written: recs are  *)
(* its records and wm is the watermark after it.                           *)
Ingested(s, from, first, recs, wm) ==
  /\ recs \in Seq(Records) /\ balances' = balances \o recs
  /\ balances' \in Seq(Records)
  /\ latest' = BalancesAfter(s)[Len(chain[s].txs)]
  /\ latest' \in [Wallets -> Nat]
  /\ wm \in -2 .. LastSlot /\ from <= wm
  /\ from + 1 .. wm \subseteq pending \cup {s}
  /\ pending' \in SUBSET Slots /\ pending' \subseteq pending \cup {s}
  /\ \A t \in pending' : t > wm
  /\ from + 1 = s => from < wm
  /\ highest' \in Int /\ (highest <= s => highest' = s)
  /\ todo' \in Seq(Writes) /\ RecsOf(todo') = recs
  /\ \A j \in DOMAIN todo' : todo'[j].to # "log"
  /\ \A j \in DOMAIN todo' : todo'[j].to = "line" => Len(todo'[j].recs) <= 1
  /\ \A j \in DOMAIN first : j \in DOMAIN todo' /\ todo'[j] = first[j]
  /\ \A i, j \in DOMAIN todo' : todo'[j].to = "watermark" =>
       \/ j \in DOMAIN first /\ todo'[j] = first[j]
       \/ /\ todo'[j].value = wm /\ wm # from
          /\ todo'[i].to = "line" => i < j
          /\ todo'[i].to = "watermark" => i <= j
  /\ wm # from => \E j \in DOMAIN todo' :
       todo'[j].to = "watermark" /\ todo'[j].value = wm
  /\ \A j \in DOMAIN todo' : todo'[j].to = "started" => j \in DOMAIN first

(* Ingesting a slot does what Ingested says. *)
LEMMA IngestIs ==
  ASSUME Typed, NEW s \in Slots, NEW from \in -2 .. LastSlot,
         NEW first \in Seq(Writes),
         \A j \in DOMAIN first : first[j].to \notin {"line", "log"},
         IngestSlot(s, from, first),
         NEW recs, recs = RecordsOf(s, BalancesAfter(s)),
         NEW wm, wm = Advanced(from, pending \cup {s})
  PROVE  Ingested(s, from, first, recs, wm)
<1> DEFINE rest == MarkOf(from, wm)
           L == LinesOf(recs)
<1>1. /\ balances' = balances \o recs
      /\ latest' = BalancesAfter(s)[Len(chain[s].txs)]
      /\ pending' = {t \in pending \cup {s} : t > wm}
      /\ highest' = Max({highest, s})
      /\ todo' = first \o L \o rest
  BY DEF IngestSlot, LinesOf, MarkOf
<1>2. chain \in Chains /\ latest \in [Wallets -> Nat] /\ pending \in SUBSET Slots
      /\ balances \in Seq(Records) /\ highest \in Int /\ excluded \in SUBSET Pools
  BY DEF Typed
<1>3. recs \in Seq(Records) /\ balances \o recs \in Seq(Records)
  <2>1. RecordsOf(s, BalancesAfter(s)) \in Seq(Records)
    BY <1>2, RecordsIs
  <2>2. recs \in Seq(Records)
    BY ONLY <2>1, recs = RecordsOf(s, BalancesAfter(s))
  <2> QED
    BY <1>2, <2>2, ConcatProperties
<1>4. latest' \in [Wallets -> Nat]
  <2>1. chain[s].txs \in Seq(Seq(Legs)) /\ Len(chain[s].txs) \in Nat
    BY <1>2, BlockIs
  <2>2. BalancesAfter(s) \in [0 .. Len(chain[s].txs) -> [Wallets -> Nat]]
    BY <1>2, <2>1, BalancesIs
  <2>3. Len(chain[s].txs) \in 0 .. Len(chain[s].txs)
    BY <2>1
  <2> QED
    BY ONLY <1>1, <2>2, <2>3
<1>5. /\ wm \in Int /\ from <= wm
      /\ from + 1 .. wm \subseteq pending \cup {s}
      /\ wm = from \/ wm \in pending \cup {s}
      /\ from + 1 = s => from < wm
  <2>1. from \in Int /\ pending \cup {s} \in SUBSET Slots
    BY <1>2
  <2>2. from + 1 = s => from + 1 \in pending \cup {s}
    OBVIOUS
  <2> QED
    BY <2>1, <2>2, AdvancedIs
<1>6. LastSlot \in Nat /\ Slots = 0 .. LastSlot
  BY ChainAssumption DEF Slots
<1>7. wm \in -2 .. LastSlot /\ (wm # from => wm \in Slots)
  BY <1>2, <1>5, <1>6
<1>8. /\ pending' \in SUBSET Slots /\ pending' \subseteq pending \cup {s}
      /\ \A t \in pending' : t > wm
  BY <1>1, <1>2
<1>9. highest' \in Int /\ (highest <= s => highest' = s)
  <2>1. s \in Int
    BY <1>6
  <2>2. \E c \in Int : \A x \in {highest, s} : x <= c
    <3>1. highest <= s => \A x \in {highest, s} : x <= s
      BY <1>2, <2>1
    <3>2. s <= highest => \A x \in {highest, s} : x <= highest
      BY <1>2, <2>1
    <3>3. highest <= s \/ s <= highest
      BY <1>2, <2>1
    <3> QED
      BY <1>2, <2>1, <3>1, <3>2, <3>3
  <2>3. PICK c \in Int : \A x \in {highest, s} : x <= c
    BY <2>2
  <2>4. {highest, s} \in SUBSET Int /\ {highest, s} # {}
    BY <1>2, <2>1
  <2>5. Max({highest, s}) \in {highest, s} /\ s <= Max({highest, s})
    BY <2>3, <2>4, MaxIs
  <2> QED
    BY <1>1, <1>2, <2>1, <2>5
<1>10. /\ L \in Seq(Writes)
       /\ \A j \in DOMAIN L : L[j].to = "line" /\ Len(L[j].recs) = 1
       /\ RecsOf(L) = recs
  BY <1>3, RecsOfLines
<1>11. /\ rest \in Seq(Writes)
       /\ \A j \in DOMAIN rest : rest[j].to \in {"watermark", "watermarkTs"}
       /\ \A j \in DOMAIN rest : rest[j].to = "watermark" =>
            j = 1 /\ rest[j].value = wm /\ wm # from
       /\ wm # from => 1 \in DOMAIN rest /\ rest[1].to = "watermark"
                       /\ rest[1].value = wm
  <2>1. CASE wm = from
    <3>1. rest = <<>>
      BY <2>1 DEF MarkOf
    <3>2. rest \in Seq(Writes) /\ DOMAIN rest = {}
      BY <3>1
    <3> HIDE DEF rest
    <3> QED
      BY <2>1, <3>2
  <2>2. CASE wm # from
    <3>1. chain[wm].ts \in Int /\ wm \in -1 .. LastSlot
      BY <1>2, <1>6, <1>7, <2>2, BlockIs DEF Times
    <3>2. rest = <<WriteTo("watermark", wm), WriteTo("watermarkTs", chain[wm].ts)>>
      BY <2>2 DEF MarkOf
    <3>3. /\ WriteTo("watermark", wm) \in Writes
          /\ WriteTo("watermarkTs", chain[wm].ts) \in Writes
          /\ WriteTo("watermark", wm).to = "watermark"
          /\ WriteTo("watermark", wm).value = wm
          /\ WriteTo("watermarkTs", chain[wm].ts).to = "watermarkTs"
      BY <3>1, MarkWriteIs
    <3>4. DOMAIN rest = 1 .. 2 /\ Len(rest) = 2 /\ rest \in Seq(Writes)
          /\ rest[1] = WriteTo("watermark", wm)
          /\ rest[2] = WriteTo("watermarkTs", chain[wm].ts)
      <4>1. \A v, w \in Writes : /\ DOMAIN <<v, w>> = 1 .. 2 /\ Len(<<v, w>>) = 2
                                 /\ <<v, w>> \in Seq(Writes)
                                 /\ <<v, w>>[1] = v /\ <<v, w>>[2] = w
        OBVIOUS
      <4> HIDE DEF rest
      <4> QED
        BY <3>2, <3>3, <4>1
    <3>5. \A j \in DOMAIN rest : j = 1 \/ j = 2
      BY <3>4
    <3> HIDE DEF rest
    <3> QED
      BY <2>2, <3>3, <3>4, <3>5
  <2> QED
    BY <2>1, <2>2
<1> HIDE DEF L, rest
<1>12. /\ todo' \in Seq(Writes)
       /\ Len(first) \in Nat /\ Len(L) \in Nat
       /\ \A j \in DOMAIN first : j \in 1 .. Len(first) /\ j \in DOMAIN todo'
                                  /\ todo'[j] = first[j]
       /\ \A k \in DOMAIN rest : Len(first) + Len(L) + k \in DOMAIN todo'
                                 /\ todo'[Len(first) + Len(L) + k] = rest[k]
       /\ \A j \in DOMAIN todo' :
            \/ j \in 1 .. Len(first) /\ j \in DOMAIN first /\ todo'[j] = first[j]
            \/ \E k \in DOMAIN L : j = Len(first) + k /\ todo'[j] = L[k]
                                   /\ k \in 1 .. Len(L)
            \/ \E k \in DOMAIN rest : j = Len(first) + Len(L) + k /\ todo'[j] = rest[k]
                                      /\ k \in 1 .. Len(rest)
  <2>1. Places(first, L, rest, first \o L \o rest)
    BY <1>10, <1>11, PlacesIs
  <2>2. Places(first, L, rest, todo')
    BY <1>1, <2>1
  <2> QED
    BY <2>2 DEF Places
<1>13. RecsOf(todo') = recs
  <2>1. first \o L \in Seq(Writes)
    BY <1>10
  <2>2. RecsOf(todo') = RecsOf(first \o L) \o RecsOf(rest)
    BY <1>1, <1>11, <2>1, RecsOfConcat
  <2>3. RecsOf(first \o L) = RecsOf(first) \o recs
    BY <1>10, RecsOfConcat
  <2>4. RecsOf(first) = <<>>
    BY RecsOfNone
  <2>5. \A j \in DOMAIN rest : rest[j].to \notin {"line", "log"}
    BY <1>11
  <2>6. RecsOf(rest) = <<>>
    BY <1>11, <2>5, RecsOfNone
  <2> QED
    BY <1>3, <2>2, <2>3, <2>4, <2>6, ConcatEmptySeq
<1>14. \A j \in DOMAIN todo' : todo'[j].to # "log"
  BY <1>10, <1>11, <1>12
<1>20. ASSUME NEW j \in DOMAIN todo', todo'[j].to = "line"
       PROVE  Len(todo'[j].recs) <= 1
  <2>1. \A k \in DOMAIN rest : rest[k].to # "line"
    BY <1>11
  <2>2. ~(j \in DOMAIN first /\ todo'[j] = first[j])
    BY <1>20
  <2>3. PICK k \in DOMAIN L : todo'[j] = L[k]
    BY <1>12, <1>20, <2>1, <2>2
  <2>4. Len(L[k].recs) = 1
    BY <1>10
  <2> QED
    BY <2>3, <2>4
<1>15. ASSUME NEW i \in DOMAIN todo', NEW j \in DOMAIN todo', todo'[j].to = "watermark"
       PROVE  \/ j \in DOMAIN first /\ todo'[j] = first[j]
              \/ /\ todo'[j].value = wm /\ wm # from
                 /\ todo'[i].to = "line" => i < j
                 /\ todo'[i].to = "watermark" => i <= j
  <2>1. CASE j \in DOMAIN first
    BY <1>12, <2>1
  <2>2. CASE \E k \in DOMAIN L : j = Len(first) + k /\ todo'[j] = L[k]
    BY <1>10, <1>15, <2>2
  <2>3. CASE \E k \in DOMAIN rest : j = Len(first) + Len(L) + k /\ todo'[j] = rest[k]
    <3>1. PICK k \in DOMAIN rest : j = Len(first) + Len(L) + k /\ todo'[j] = rest[k]
      BY <2>3
    <3>2. k = 1 /\ rest[k].value = wm /\ wm # from
      BY <1>11, <1>15, <3>1
    <3>3. j = Len(first) + Len(L) + 1 /\ todo'[j].value = wm
      BY <3>1, <3>2
    <3>4. CASE i \in 1 .. Len(first)
      BY <1>12, <3>2, <3>3, <3>4
    <3>5. CASE \E l \in 1 .. Len(L) : i = Len(first) + l
      BY <1>12, <3>2, <3>3, <3>5
    <3>6. CASE \E l \in DOMAIN rest : i = Len(first) + Len(L) + l /\ todo'[i] = rest[l]
      <4>1. PICK l \in DOMAIN rest : i = Len(first) + Len(L) + l /\ todo'[i] = rest[l]
        BY <3>6
      <4>2. todo'[i].to # "line"
        BY <1>11, <4>1
      <4>3. todo'[i].to = "watermark" => i = j
        BY <1>11, <3>3, <4>1
      <4>4. i = j => i <= j
        BY <1>12, <3>3
      <4> QED
        BY <3>2, <3>3, <4>2, <4>3, <4>4
    <3> QED
      BY <1>12, <3>4, <3>5, <3>6
  <2> QED
    BY <1>12, <2>1, <2>2, <2>3
<1>16. wm # from => \E j \in DOMAIN todo' :
          todo'[j].to = "watermark" /\ todo'[j].value = wm
  BY <1>11, <1>12
<1>17. \A j \in DOMAIN todo' : todo'[j].to = "started" => j \in DOMAIN first
  BY <1>10, <1>11, <1>12
<1>18. balances' \in Seq(Records)
  BY <1>1, <1>3
<1>19. \A j \in DOMAIN first : j \in DOMAIN todo' /\ todo'[j] = first[j]
  BY <1>12
<1> QED
  BY <1>1, <1>3, <1>4, <1>5, <1>7, <1>8, <1>9, <1>12, <1>13, <1>14, <1>15, <1>16,
     <1>17, <1>18, <1>19, <1>20 DEF Ingested

(* The writes that set the baseline before slot s. *)
Baseline(s) == <<WriteTo("started", 1), WriteTo("watermark", s - 1),
                 WriteTo("watermarkTs", 0)>>

(* The writes of the baseline: started first, then a watermark before s. *)
LEMMA BaselineIs ==
  ASSUME NEW s \in Slots
  PROVE  /\ Baseline(s) \in Seq(Writes)
         /\ DOMAIN Baseline(s) = 1 .. 3
         /\ \A j \in DOMAIN Baseline(s) : Baseline(s)[j].to \notin {"line", "log"}
         /\ \A j \in DOMAIN Baseline(s) : Baseline(s)[j].to = "watermark" =>
              j = 2 /\ Baseline(s)[j].value = s - 1
         /\ Baseline(s)[1].to = "started"
         /\ s - 1 \in -1 .. LastSlot
<1>1. s \in Nat /\ s - 1 \in -1 .. LastSlot
  BY ChainAssumption DEF Slots
<1>2. \A u, v, w \in Writes : /\ DOMAIN <<u, v, w>> = 1 .. 3
                              /\ <<u, v, w>> \in Seq(Writes)
                              /\ <<u, v, w>>[1] = u /\ <<u, v, w>>[2] = v
                              /\ <<u, v, w>>[3] = w
  OBVIOUS
<1>3. /\ WriteTo("started", 1) \in Writes /\ WriteTo("started", 1).to = "started"
      /\ WriteTo("watermark", s - 1) \in Writes
      /\ WriteTo("watermark", s - 1).to = "watermark"
      /\ WriteTo("watermark", s - 1).value = s - 1
      /\ WriteTo("watermarkTs", 0) \in Writes
      /\ WriteTo("watermarkTs", 0).to = "watermarkTs"
  <2>1. 1 \in Int /\ 0 \in Int /\ s - 1 \in Int
    BY <1>1
  <2> QED
    BY <1>1, <2>1, MarkWriteIs
<1>4. /\ DOMAIN Baseline(s) = 1 .. 3 /\ Baseline(s) \in Seq(Writes)
      /\ Baseline(s)[1] = WriteTo("started", 1)
      /\ Baseline(s)[2] = WriteTo("watermark", s - 1)
      /\ Baseline(s)[3] = WriteTo("watermarkTs", 0)
  BY <1>2, <1>3 DEF Baseline
<1>5. \A j \in DOMAIN Baseline(s) : j = 1 \/ j = 2 \/ j = 3
  BY <1>4
<1> QED
  BY <1>1, <1>3, <1>4, <1>5

(* Ingesting a slot leaves what must reach the disk to the writes, and the *)
(* records it acknowledges before their watermark.                         *)
LEMMA IngestKeeps ==
  ASSUME Typed, FileKept, Acked, up, todo = <<>>,
         NEW s \in Slots, NEW from \in -2 .. LastSlot,
         NEW first \in Seq(Writes),
         \A j \in DOMAIN first : first[j].to \notin {"line", "log"},
         IngestSlot(s, from, first),
         UNCHANGED <<chain, disk, up, excluded, cut, pruned>>,
         base' \in Int, base' >= -1, detours' \in Nat,
         meta.watermark <= from,
         ~cut => /\ Covers(balances, base' + 1 .. from, pruned)
                 /\ Covers(Reloaded, base' + 1 .. meta.watermark, pruned),
         \A j \in DOMAIN first : first[j].to = "watermark" =>
           first[j].value <= base'
  PROVE  Typed' /\ FileKept' /\ Acked' /\ LinesFirst'
<1> PICK recs : recs = RecordsOf(s, BalancesAfter(s))
  OBVIOUS
<1> PICK wm : wm = Advanced(from, pending \cup {s})
  OBVIOUS
<1>1. /\ recs \in Seq(Records) /\ balances' = balances \o recs
      /\ balances' \in Seq(Records)
      /\ latest' \in [Wallets -> Nat]
      /\ wm \in -2 .. LastSlot /\ from <= wm
      /\ from + 1 .. wm \subseteq pending \cup {s}
      /\ pending' \in SUBSET Slots /\ pending' \subseteq pending \cup {s}
      /\ highest' \in Int
      /\ todo' \in Seq(Writes) /\ RecsOf(todo') = recs
      /\ \A j \in DOMAIN todo' : todo'[j].to # "log"
      /\ \A i, j \in DOMAIN todo' : todo'[j].to = "watermark" =>
           \/ j \in DOMAIN first /\ todo'[j] = first[j]
           \/ todo'[j].value = wm /\ (todo'[i].to = "line" => i < j)
  <2>1. Ingested(s, from, first, recs, wm)
    BY IngestIs
  <2> QED
    BY <2>1 DEF Ingested
<1>2. chain' = chain /\ lines' = lines /\ ended' = ended /\ meta' = meta /\ up' = up
      /\ excluded' = excluded /\ cut' = cut /\ pruned' = pruned
  BY DEF disk
<1>3. /\ chain \in Chains /\ lines \in Seq(Seq(Records)) /\ meta \in Metas
      /\ excluded \in SUBSET Pools /\ pruned \in Times /\ balances \in Seq(Records)
      /\ pending \in SUBSET Slots /\ latest \in [Wallets -> Nat]
  BY DEF Typed
<1>4. Typed'
  BY <1>1, <1>2, <1>3 DEF Typed
<1>5. Reloaded' = Reloaded
  BY <1>2 DEF Reloaded
<1>6. FileKept'
  <2>1. ~cut => Reloaded \o RecsOf(todo) = balances
    BY DEF FileKept
  <2>2. RecsOf(todo) = <<>>
    <3>1. <<>> \in Seq(Writes) /\ DOMAIN <<>> = {}
      OBVIOUS
    <3>2. \A p \in Seq(Writes) : DOMAIN p = {} => RecsOf(p) = <<>>
      BY RecsOfNone
    <3> QED
      BY <3>1, <3>2
  <2>3. Reloaded \in Seq(Records)
    BY <1>3, FlattenType DEF Reloaded
  <2>4. ~cut => Reloaded = balances
    BY <2>1, <2>2, <2>3, ConcatEmptySeq
  <2>5. Reloaded' \o RecsOf(todo') = Reloaded \o recs
    BY <1>1, <1>5
  <2> QED
    BY <1>1, <1>2, <2>4, <2>5 DEF FileKept
<1>7. Acked'
  <2> SUFFICES ASSUME ~cut
               PROVE  Acked'
    BY <1>2 DEF Acked
  <2> DEFINE new == balances \o recs
  <2>1. Covers(new, {s}, pruned)
    BY <1>3, CoversNew
  <2>2. Covers(new, pending, pruned)
    <3>1. Covers(balances, pending \cup (base + 1 .. meta.watermark), pruned)
      BY DEF Acked
    <3>2. Covers(balances, pending, pruned)
      BY <3>1, CoversLess
    <3> QED
      BY <1>1, <1>3, <3>2, CoversMore
  <2>3. Covers(new, base' + 1 .. from, pruned)
    BY <1>1, <1>3, CoversMore
  <2> HIDE DEF new
  <2>4. Covers(new, pending \cup {s}, pruned)
    BY <2>1, <2>2, CoversBoth
  <2>5. Covers(new, (pending \cup {s}) \cup (base' + 1 .. from), pruned)
    BY <2>3, <2>4, CoversBoth
  <2>6. base' + 1 .. wm \subseteq (pending \cup {s}) \cup (base' + 1 .. from)
    <3> SUFFICES ASSUME NEW t \in base' + 1 .. wm, t \notin base' + 1 .. from
                 PROVE  t \in from + 1 .. wm
      BY <1>1
    <3> QED
      BY <1>1
  <2>7. Covers(new, base' + 1 .. wm, pruned)
    BY <2>5, <2>6, CoversLess
  <2>8. pending' \cup (base' + 1 .. meta.watermark)
          \subseteq (pending \cup {s}) \cup (base' + 1 .. from)
    <3>1. meta.watermark \in Int
      BY <1>3 DEF Metas
    <3> QED
      BY <1>1, <3>1
  <2>9. Covers(new, pending' \cup (base' + 1 .. meta.watermark), pruned)
    BY <2>5, <2>8, CoversLess
  <2>10. ASSUME NEW j \in DOMAIN todo', todo'[j].to = "watermark"
         PROVE  Covers(new, base' + 1 .. todo'[j].value, pruned)
    <3>1. CASE j \in DOMAIN first /\ todo'[j] = first[j]
      <4>1. first[j].value <= base'
        BY <2>10, <3>1
      <4>2. first[j].value \in Int
        BY <3>1, WriteIs
      <4>3. base' + 1 .. first[j].value = {}
        BY <4>1, <4>2
      <4> QED
        BY <3>1, <4>3 DEF Covers
    <3>2. CASE todo'[j].value = wm
      BY <2>7, <3>2
    <3> QED
      BY <1>1, <2>10, <3>1, <3>2
  <2>11. balances' = new
    BY <1>1 DEF new
  <2> HIDE DEF new
  <2>12. Covers(Reloaded, base + 1 .. meta.watermark, pruned)'
    <3>1. PICK r : r = Reloaded
      OBVIOUS
    <3>2. Covers(r, base' + 1 .. meta.watermark, pruned) /\ r = Reloaded'
      BY <1>5, <3>1
    <3>3. Covers(r, base' + 1 .. meta'.watermark, pruned')
      BY <1>2, <3>2
    <3> HIDE DEF Reloaded
    <3>4. \A t \in base' + 1 .. meta'.watermark : chain'[t].ts >= pruned' => Has(r, t)
      BY <1>2, <3>3 DEF Covers
    <3>5. \A t : Has(r, t) => Has(Reloaded, t)'
      BY <1>2, <3>2 DEF Has
    <3> QED
      BY <3>4, <3>5 DEF Covers
  <2>13. Covers(balances, pending \cup (base + 1 .. meta.watermark), pruned)'
    BY <1>2, <2>9, <2>11 DEF Covers, Has
  <2>14. \A j \in DOMAIN todo' : todo'[j].to = "watermark" =>
           Covers(balances, base + 1 .. todo[j].value, pruned)'
    <3>1. \A t : Has(new, t) => Has(balances, t)'
      BY <1>2, <2>11 DEF Has
    <3>2. \A j \in DOMAIN todo' : todo'[j].to = "watermark" =>
            \A t \in base' + 1 .. todo'[j].value :
              chain'[t].ts >= pruned' => Has(new, t)
      BY <1>2, <2>10 DEF Covers
    <3> QED
      BY <3>1, <3>2 DEF Covers
  <2> QED
    BY <2>12, <2>13, <2>14 DEF Acked
<1>8. LinesFirst'
  <2> SUFFICES ASSUME NEW i \in DOMAIN todo', NEW j \in DOMAIN todo',
                      todo'[i].to \in {"line", "log"}, todo'[j].to = "watermark",
                      todo'[j].value > base'
               PROVE  i < j
    BY DEF LinesFirst
  <2>1. todo'[i].to = "line"
    BY <1>1
  <2>2. CASE j \in DOMAIN first /\ todo'[j] = first[j]
    <3>1. first[j].value \in Int /\ first[j].value <= base'
      BY <2>2, WriteIs
    <3> QED
      BY <2>2, <3>1
  <2>3. CASE todo'[i].to = "line" => i < j
    BY <2>1, <2>3
  <2> QED
    BY <1>1, <2>2, <2>3
<1> QED
  BY <1>4, <1>6, <1>7, <1>8

(* processSlot keeps the invariant, with and without a baseline. *)
LEMMA ProcessKeeps ==
  ASSUME Durable, NEW s \in Slots, processSlot(s)
  PROVE  Durable'
<1>1. /\ Typed /\ FileKept /\ Acked /\ Unstarted
      /\ up /\ todo = <<>>
      /\ UNCHANGED <<chain, disk, up, excluded, interrupted, cut, pruned, crashes>>
  BY DEF Durable, processSlot
<1>2. /\ meta \in Metas /\ base \in Int /\ base >= -1 /\ detours \in Nat
      /\ meta.watermark \in -2 .. LastSlot /\ s \in Nat /\ s <= LastSlot
      /\ LastSlot \in Nat /\ pending \in SUBSET Slots
  BY <1>1, ChainAssumption DEF Typed, Metas, Slots
<1>3. meta' = meta
  BY <1>1 DEF disk
<1>4. UNCHANGED <<chain, disk, up, excluded, cut, pruned>>
  BY <1>1
<1>5. CASE meta.started
  <2>1. /\ IngestSlot(s, meta.watermark, <<>>)
        /\ detours' = detours + (IF s = meta.watermark + 1 THEN 0 ELSE 1)
        /\ base' = base
    BY <1>5 DEF processSlot
  <2>2. detours' \in Nat /\ base' \in Int /\ base' >= -1
    BY <1>2, <2>1
  <2>3. ~cut => /\ Covers(balances, base' + 1 .. meta.watermark, pruned)
                /\ Covers(Reloaded, base' + 1 .. meta.watermark, pruned)
    <3> SUFFICES ASSUME ~cut
                 PROVE  /\ Covers(balances, base + 1 .. meta.watermark, pruned)
                        /\ Covers(Reloaded, base + 1 .. meta.watermark, pruned)
      BY <2>1
    <3>1. /\ Covers(Reloaded, base + 1 .. meta.watermark, pruned)
          /\ Covers(balances, pending \cup (base + 1 .. meta.watermark), pruned)
      BY <1>1 DEF Acked
    <3> QED
      BY <3>1, CoversLess
  <2>4. <<>> \in Seq(Writes) /\ DOMAIN <<>> = {}
    OBVIOUS
  <2>5. \A first \in Seq(Writes) : DOMAIN first = {} /\ IngestSlot(s, meta.watermark, first)
          => Typed' /\ FileKept' /\ Acked' /\ LinesFirst'
    <3> SUFFICES ASSUME NEW first \in Seq(Writes), DOMAIN first = {},
                        IngestSlot(s, meta.watermark, first)
                 PROVE  Typed' /\ FileKept' /\ Acked' /\ LinesFirst'
      OBVIOUS
    <3>1. /\ \A j \in DOMAIN first : first[j].to \notin {"line", "log"}
          /\ \A j \in DOMAIN first : first[j].to = "watermark" => first[j].value <= base'
          /\ meta.watermark <= meta.watermark
      BY <1>2
    <3> QED
      BY <1>1, <1>2, <1>4, <2>2, <2>3, <3>1, IngestKeeps
  <2>6. Typed' /\ FileKept' /\ Acked' /\ LinesFirst'
    BY <2>1, <2>4, <2>5
  <2>7. Unstarted'
    BY <1>3, <1>5 DEF Unstarted
  <2> QED
    BY <2>6, <2>7 DEF Durable
<1>6. CASE ~meta.started
  <2>1. /\ IngestSlot(s, s - 1, Baseline(s))
        /\ base' = s - 1 /\ detours' = detours
    BY <1>6 DEF processSlot, Baseline
  <2>2. detours' \in Nat /\ base' \in Int /\ base' >= -1
    BY <1>2, <2>1
  <2>3. meta.watermark <= -1 /\ pending = {}
    BY <1>1, <1>6 DEF Unstarted
  <2>4. /\ Baseline(s) \in Seq(Writes) /\ DOMAIN Baseline(s) = 1 .. 3
        /\ \A j \in DOMAIN Baseline(s) : Baseline(s)[j].to \notin {"line", "log"}
        /\ \A j \in DOMAIN Baseline(s) : Baseline(s)[j].to = "watermark" =>
             j = 2 /\ Baseline(s)[j].value = s - 1
        /\ Baseline(s)[1].to = "started"
        /\ s - 1 \in -1 .. LastSlot
    BY BaselineIs
  <2>5. PICK first \in Seq(Writes) : first = Baseline(s)
    BY <2>4
  <2>6. /\ \A j \in DOMAIN first : first[j].to \notin {"line", "log"}
        /\ \A j \in DOMAIN first : first[j].to = "watermark" => first[j].value <= base'
        /\ IngestSlot(s, s - 1, first)
        /\ s - 1 \in -2 .. LastSlot /\ meta.watermark <= s - 1
    <3>1. \A j \in DOMAIN first : first[j].to \notin {"line", "log"}
      BY <2>4, <2>5
    <3>2. \A j \in DOMAIN first : first[j].to = "watermark" => first[j].value <= base'
      BY <1>2, <2>1, <2>4, <2>5
    <3> QED
      BY <1>2, <2>1, <2>3, <2>5, <3>1, <3>2
  <2>7. /\ Covers(balances, base' + 1 .. s - 1, pruned)
        /\ Covers(Reloaded, base' + 1 .. meta.watermark, pruned)
    <3>1. base' + 1 .. s - 1 = {} /\ base' + 1 .. meta.watermark = {}
      BY <1>2, <2>1, <2>3
    <3> QED
      BY <3>1 DEF Covers
  <2>8. Typed' /\ FileKept' /\ Acked' /\ LinesFirst'
    <3> PICK from : from = s - 1
      OBVIOUS
    <3>1. /\ from \in -2 .. LastSlot /\ IngestSlot(s, from, first)
          /\ meta.watermark <= from
          /\ ~cut => /\ Covers(balances, base' + 1 .. from, pruned)
                     /\ Covers(Reloaded, base' + 1 .. meta.watermark, pruned)
      BY <2>6, <2>7
    <3> QED
      BY <1>1, <1>4, <2>2, <2>6, <3>1, IngestKeeps
  <2>9. Unstarted'
    <3> PICK recs : recs = RecordsOf(s, BalancesAfter(s))
      OBVIOUS
    <3> PICK wm : wm = Advanced(s - 1, pending \cup {s})
      OBVIOUS
    <3>1. Ingested(s, s - 1, first, recs, wm)
      BY <1>1, <2>6, IngestIs
    <3>2. /\ wm \in -2 .. LastSlot
          /\ pending' \subseteq pending \cup {s}
          /\ \A t \in pending' : t > wm
          /\ (s - 1) + 1 = s => s - 1 < wm
          /\ \A j \in DOMAIN first : j \in DOMAIN todo' /\ todo'[j] = first[j]
          /\ \A i, j \in DOMAIN todo' : todo'[j].to = "watermark" =>
               (j \in DOMAIN first /\ todo'[j] = first[j]) \/ todo'[j].value = wm
          /\ todo' \in Seq(Writes)
      BY <3>1 DEF Ingested
    <3>3. pending' = {}
      <4>1. s <= wm
        BY <1>2, <3>2
      <4>2. \A t \in pending' : t = s /\ t > wm
        BY <2>3, <3>2
      <4>3. ASSUME NEW t \in pending'
            PROVE  FALSE
        <5>1. t = s /\ t > wm
          BY <4>2
        <5>2. s > wm /\ s \in Int /\ wm \in Int
          BY <1>2, <3>2, <5>1
        <5> QED
          BY <4>1, <5>2
      <4> QED
        BY <4>3
    <3>4. 1 \in DOMAIN todo' /\ todo'[1].to = "started"
      BY <2>4, <2>5, <3>2
    <3>5. \A j \in DOMAIN todo' : j \in Nat /\ j >= 1
      BY <3>2
    <3>6. \A j \in DOMAIN todo' : todo'[j].to = "watermark" => 1 \in 1 .. j - 1
      <4> SUFFICES ASSUME NEW j \in DOMAIN todo', todo'[j].to = "watermark"
                   PROVE  1 \in 1 .. j - 1
        OBVIOUS
      <4>1. j # 1
        BY <3>4
      <4> QED
        BY <3>5, <4>1
    <3> QED
      BY <1>3, <2>3, <3>3, <3>4, <3>6 DEF Unstarted
  <2> QED
    BY <2>8, <2>9 DEF Durable
<1> QED
  BY <1>5, <1>6

(* backfill keeps it: there is no gap before the baseline. *)
LEMMA BackfillKeeps ==
  ASSUME Durable, NEW s \in Slots, backfill(s)
  PROVE  Durable'
<1>1. /\ Typed /\ FileKept /\ Acked /\ Unstarted
      /\ up /\ todo = <<>> /\ s \in Missing
      /\ IngestSlot(s, meta.watermark, <<>>)
      /\ UNCHANGED <<chain, disk, up, excluded, cut, pruned>>
      /\ base' = base /\ detours' = detours
  BY DEF Durable, backfill, faults
<1>2. /\ base \in Int /\ base >= -1 /\ detours \in Nat
      /\ meta.watermark \in -2 .. LastSlot /\ meta.watermark \in Int
      /\ s \in Nat /\ highest \in Int
  BY <1>1, ChainAssumption DEF Typed, Metas, Slots
<1>3. meta.started
  <2> SUFFICES ASSUME ~meta.started
               PROVE  FALSE
    OBVIOUS
  <2>1. DOMAIN todo = {}
    BY <1>1
  <2>2. highest = -1
    BY <1>1, <2>1 DEF Unstarted
  <2>3. s <= highest
    BY <1>1, <1>2 DEF Missing
  <2> QED
    BY <1>2, <2>2, <2>3
<1>4. ~cut => /\ Covers(balances, base' + 1 .. meta.watermark, pruned)
              /\ Covers(Reloaded, base' + 1 .. meta.watermark, pruned)
  <2> SUFFICES ASSUME ~cut
               PROVE  /\ Covers(balances, base + 1 .. meta.watermark, pruned)
                      /\ Covers(Reloaded, base + 1 .. meta.watermark, pruned)
    BY <1>1
  <2>1. /\ Covers(Reloaded, base + 1 .. meta.watermark, pruned)
        /\ Covers(balances, pending \cup (base + 1 .. meta.watermark), pruned)
    BY <1>1 DEF Acked
  <2> QED
    BY <2>1, CoversLess
<1>5. <<>> \in Seq(Writes) /\ DOMAIN <<>> = {}
  OBVIOUS
<1>6. \A first \in Seq(Writes) : DOMAIN first = {} /\ IngestSlot(s, meta.watermark, first)
        => Typed' /\ FileKept' /\ Acked' /\ LinesFirst'
  <2> SUFFICES ASSUME NEW first \in Seq(Writes), DOMAIN first = {},
                      IngestSlot(s, meta.watermark, first)
               PROVE  Typed' /\ FileKept' /\ Acked' /\ LinesFirst'
    OBVIOUS
  <2>1. /\ \A j \in DOMAIN first : first[j].to \notin {"line", "log"}
        /\ \A j \in DOMAIN first : first[j].to = "watermark" => first[j].value <= base'
        /\ meta.watermark <= meta.watermark
        /\ base' \in Int /\ base' >= -1 /\ detours' \in Nat
    BY <1>1, <1>2
  <2> QED
    BY <1>1, <1>2, <1>4, <2>1, IngestKeeps
<1>7. Typed' /\ FileKept' /\ Acked' /\ LinesFirst'
  BY <1>1, <1>5, <1>6
<1>8. Unstarted'
  BY <1>1, <1>3 DEF Unstarted, disk
<1> QED
  BY <1>7, <1>8 DEF Durable

----------------------------------------------------------------------------
(* The disk.                                                               *)

(* No write, no record. *)
LEMMA RecsOfEmpty == RecsOf(<<>>) = <<>>
<1>1. <<>> \in Seq(Writes) /\ DOMAIN <<>> = {}
  OBVIOUS
<1>2. \A p \in Seq(Writes) : DOMAIN p = {} => RecsOf(p) = <<>>
  BY RecsOfNone
<1> QED
  BY <1>1, <1>2

(* What is read back is records. *)
LEMMA ReloadedType ==
  ASSUME Typed
  PROVE  Reloaded \in Seq(Records)
BY FlattenType DEF Typed, Reloaded

(* A line added to a whole file is read back after the others. *)
LEMMA WithLineIs ==
  ASSUME lines \in Seq(Seq(Records)), NEW x \in Seq(Records)
  PROVE  /\ WithLine(x) \in Seq(Seq(Records))
         /\ ended => FlattenSeq(WithLine(x)) = Reloaded \o x
<1>1. CASE ended
  <2>1. WithLine(x) = Append(lines, x)
    BY <1>1 DEF WithLine
  <2> QED
    BY <2>1, FlattenLast DEF Reloaded
<1>2. CASE ~ended
  <2>1. WithLine(x) = Append(Front(lines), <<>>)
    BY <1>2 DEF WithLine
  <2>2. Front(lines) \in Seq(Seq(Records))
    <3>1. Len(lines) \in Nat /\ Len(lines) - 1 \in Int /\ 1 \in Int
      OBVIOUS
    <3>2. \A i \in 1 .. Len(lines) - 1 : lines[i] \in Seq(Records)
      OBVIOUS
    <3> QED
      BY <3>1, <3>2, SubSeqProperties DEF Front
  <2> QED
    BY <1>2, <2>1, <2>2
<1> QED
  BY <1>1, <1>2

(* What the next write does to the disk. *)
LEMMA FlushIs ==
  ASSUME Typed, Flush, NEW w, w = Head(todo)
  PROVE  /\ w \in Writes /\ w = todo[1] /\ todo # <<>> /\ up
         /\ todo' = Tail(todo) /\ todo' \in Seq(Writes)
         /\ RecsOf(todo) = w.recs \o RecsOf(todo')
         /\ lines' \in Seq(Seq(Records)) /\ meta' \in Metas
         /\ cut => cut'
         /\ w.to = "line" => /\ meta' = meta /\ ended'
                             /\ ~cut' => ended
                             /\ ended => (cut' => cut) /\ Reloaded' = Reloaded \o w.recs
         /\ w.to = "log" => /\ meta' = meta /\ ended' /\ cut' = cut
                            /\ Reloaded' = w.recs
         /\ w.to \notin {"line", "log"} =>
              lines' = lines /\ ended' = ended /\ cut' = cut /\ Reloaded' = Reloaded
         /\ w.to = "started" => meta' = [meta EXCEPT !.started = TRUE]
         /\ w.to # "started" => meta'.started = meta.started
         /\ w.to = "watermark" => meta'.watermark = w.value
         /\ w.to # "watermark" => meta'.watermark = meta.watermark
<1>1. /\ todo \in Seq(Writes) /\ todo # <<>> /\ up /\ todo' = Tail(todo)
      /\ lines \in Seq(Seq(Records)) /\ meta \in Metas
  BY DEF Typed, Flush
<1>2. /\ w \in Writes /\ w = todo[1] /\ todo' \in Seq(Writes)
      /\ RecsOf(todo) = w.recs \o RecsOf(todo')
  BY <1>1, RecsOfHead, TailIs
<1>3. /\ w.to \in {"line", "log", "started", "watermark", "watermarkTs"}
      /\ w.value \in Int /\ w.recs \in Seq(Records)
      /\ w.to = "watermark" => w.value \in -1 .. LastSlot
  BY <1>2, WriteIs
<1>4. /\ w.to = "line" => /\ lines' = WithLine(w.recs) /\ ended' = TRUE
                          /\ cut' = (cut \/ ~ended) /\ meta' = meta
      /\ w.to = "log" => /\ lines' = [i \in DOMAIN w.recs |-> <<w.recs[i]>>]
                         /\ ended' = TRUE /\ meta' = meta /\ cut' = cut
      /\ w.to = "started" => /\ meta' = [meta EXCEPT !.started = TRUE]
                             /\ lines' = lines /\ ended' = ended /\ cut' = cut
      /\ w.to \in {"watermark", "watermarkTs"} =>
           /\ meta' = [meta EXCEPT ![w.to] = w.value]
           /\ lines' = lines /\ ended' = ended /\ cut' = cut
  BY DEF Flush
<1>5. CASE w.to = "line"
  <2>1. /\ WithLine(w.recs) \in Seq(Seq(Records))
        /\ ended => FlattenSeq(WithLine(w.recs)) = Reloaded \o w.recs
    BY <1>1, <1>3, WithLineIs
  <2>2. ended => Reloaded' = Reloaded \o w.recs
    BY <1>4, <1>5, <2>1 DEF Reloaded
  <2> QED
    <3>1. /\ lines' \in Seq(Seq(Records)) /\ meta' \in Metas /\ meta' = meta
          /\ ended' /\ (~cut' => ended) /\ (cut => cut') /\ (ended => (cut' => cut))
      BY <1>1, <1>4, <1>5, <2>1
    <3> QED
      BY <1>1, <1>2, <1>5, <2>2, <3>1
<1>6. CASE w.to = "log"
  <2>1. [i \in DOMAIN w.recs |-> <<w.recs[i]>>] \in Seq(Seq(Records))
    <3>1. \A r \in Seq(Records) : [i \in DOMAIN r |-> <<r[i]>>] \in Seq(Seq(Records))
      <4> SUFFICES ASSUME NEW r \in Seq(Records)
                   PROVE  [i \in DOMAIN r |-> <<r[i]>>] \in Seq(Seq(Records))
        OBVIOUS
      <4>1. \A i \in DOMAIN r : r[i] \in Records
        OBVIOUS
      <4>2. \A x \in Records : <<x>> \in Seq(Records)
        OBVIOUS
      <4>3. \A i \in DOMAIN r : <<r[i]>> \in Seq(Records)
        BY <4>1, <4>2
      <4>4. PICK f : f = [i \in DOMAIN r |-> <<r[i]>>]
        OBVIOUS
      <4>5. DOMAIN r = 1 .. Len(r) /\ Len(r) \in Nat
        OBVIOUS
      <4>6. f \in [1 .. Len(r) -> Seq(Records)]
        BY <4>3, <4>4, <4>5
      <4>7. f \in Seq(Seq(Records))
        BY <4>5, <4>6
      <4> QED
        BY <4>4, <4>7
    <3> QED
      BY <1>3, <3>1
  <2>2. FlattenSeq([i \in DOMAIN w.recs |-> <<w.recs[i]>>]) = w.recs
    BY <1>3, FlattenSingles
  <2>3. Reloaded' = w.recs
    BY <1>4, <1>6, <2>2 DEF Reloaded
  <2> QED
    <3>1. /\ lines' \in Seq(Seq(Records)) /\ meta' \in Metas /\ meta' = meta
          /\ ended' /\ cut' = cut
      BY <1>1, <1>4, <1>6, <2>1
    <3> QED
      BY <1>1, <1>2, <1>6, <2>3, <3>1
<1>7. CASE w.to \notin {"line", "log"}
  <2>1. lines' = lines /\ ended' = ended /\ cut' = cut
    BY <1>3, <1>4, <1>7
  <2>2. Reloaded' = Reloaded
    BY <2>1 DEF Reloaded
  <2>3. /\ meta' \in Metas
        /\ w.to = "started" => /\ meta' = [meta EXCEPT !.started = TRUE]
        /\ w.to # "started" => meta'.started = meta.started
        /\ w.to = "watermark" => meta'.watermark = w.value
        /\ w.to # "watermark" => meta'.watermark = meta.watermark
    <3>1. CASE w.to = "started"
      BY <1>1, <1>4, <3>1 DEF Metas
    <3>2. CASE w.to = "watermark"
      <4>1. meta' = [meta EXCEPT !["watermark"] = w.value]
        BY <1>4, <3>2
      <4> QED
        BY <1>1, <1>3, <3>2, <4>1 DEF Metas
    <3>3. CASE w.to = "watermarkTs"
      <4>1. meta' = [meta EXCEPT !["watermarkTs"] = w.value]
        BY <1>4, <3>3
      <4> QED
        BY <1>1, <1>3, <3>3, <4>1 DEF Metas
    <3> QED
      BY <1>3, <1>7, <3>1, <3>2, <3>3
  <2> QED
    BY <1>1, <1>2, <1>7, <2>1, <2>2, <2>3
<1> QED
  BY <1>5, <1>6, <1>7

(* A write keeps it: a watermark is written after its records. *)
LEMMA FlushKeeps ==
  ASSUME Durable, Flush
  PROVE  Durable'
<1> PICK w : w = Head(todo)
  OBVIOUS
<1>1. /\ Typed /\ FileKept /\ Acked /\ LinesFirst /\ Unstarted
      /\ chain' = chain /\ up' = up /\ balances' = balances /\ latest' = latest
      /\ pending' = pending /\ highest' = highest /\ excluded' = excluded
      /\ base' = base /\ detours' = detours /\ pruned' = pruned
  BY DEF Durable, Flush, memory
<1>2. /\ w \in Writes /\ w = todo[1] /\ todo # <<>> /\ up
      /\ todo' = Tail(todo) /\ todo' \in Seq(Writes)
      /\ RecsOf(todo) = w.recs \o RecsOf(todo')
      /\ lines' \in Seq(Seq(Records)) /\ meta' \in Metas
      /\ cut => cut'
  BY <1>1, FlushIs
<1>3. /\ w.to = "line" => /\ meta' = meta /\ ended'
                          /\ ~cut' => ended
                          /\ ended => (cut' => cut) /\ Reloaded' = Reloaded \o w.recs
      /\ w.to = "log" => /\ meta' = meta /\ ended' /\ cut' = cut
                         /\ Reloaded' = w.recs
      /\ w.to \notin {"line", "log"} =>
           lines' = lines /\ ended' = ended /\ cut' = cut /\ Reloaded' = Reloaded
      /\ w.to = "started" => meta' = [meta EXCEPT !.started = TRUE]
      /\ w.to # "started" => meta'.started = meta.started
      /\ w.to = "watermark" => meta'.watermark = w.value
      /\ w.to # "watermark" => meta'.watermark = meta.watermark
  BY <1>1, FlushIs
<1>4. /\ chain \in Chains /\ meta \in Metas /\ balances \in Seq(Records)
      /\ todo \in Seq(Writes) /\ base \in Int /\ base >= -1
      /\ Reloaded \in Seq(Records)
  BY <1>1, ReloadedType DEF Typed
<1>5. /\ w.to \in {"line", "log", "started", "watermark", "watermarkTs"}
      /\ w.value \in Int /\ w.recs \in Seq(Records)
      /\ w.to \notin {"line", "log"} => w.recs = <<>>
  BY <1>2, WriteIs
<1>6. /\ 1 \in DOMAIN todo
      /\ \A j \in DOMAIN todo' :
           j \in Nat /\ j + 1 \in DOMAIN todo /\ todo'[j] = todo[j + 1]
      /\ \A j \in DOMAIN todo : j # 1 =>
           j - 1 \in DOMAIN todo' /\ todo'[j - 1] = todo[j]
      /\ \A j \in DOMAIN todo : j \in Nat /\ j >= 1
  BY <1>2, <1>4, TailIs
<1>7. Typed'
  BY <1>1, <1>2 DEF Typed
<1>8. RecsOf(todo') \in Seq(Records)
  BY <1>2, RecsOfType
<1>9. FileKept'
  <2>1. CASE cut'
    BY <2>1 DEF FileKept
  <2>2. CASE ~cut' /\ todo = <<Rewrite(balances)>>
    <3>1. w = Rewrite(balances) /\ todo' = <<>>
      BY <1>2, <2>2
    <3>2. Reloaded' = balances
      BY <1>3, <3>1 DEF Rewrite
    <3>3. RecsOf(todo') = <<>>
      BY <3>1, RecsOfEmpty
    <3>4. DOMAIN todo' = {}
      BY <3>1
    <3>5. Reloaded' \o RecsOf(todo') = balances'
      BY <1>1, <1>4, <3>2, <3>3, ConcatEmptySeq
    <3> QED
      BY <3>4, <3>5 DEF FileKept
  <2>3. CASE /\ ~cut' /\ \A j \in DOMAIN todo : todo[j].to # "log"
             /\ Reloaded \o RecsOf(todo) = balances
    <3>1. w.to # "log"
      BY <1>2, <1>6, <2>3
    <3>2. Reloaded' = Reloaded \o w.recs
      <4>1. CASE w.to = "line"
        BY <1>3, <2>3, <4>1
      <4>2. CASE w.to # "line"
        BY <1>3, <1>4, <1>5, <3>1, <4>2, ConcatEmptySeq
      <4> QED
        BY <4>1, <4>2
    <3>3. Reloaded \o (w.recs \o RecsOf(todo')) = (Reloaded \o w.recs) \o RecsOf(todo')
      <4>1. \A x, y, z \in Seq(Records) : (x \o y) \o z = x \o (y \o z)
        BY ConcatAssociative
      <4> QED
        BY <1>4, <1>5, <1>8, <4>1
    <3>4. Reloaded' \o RecsOf(todo') = balances'
      BY <1>1, <1>2, <2>3, <3>2, <3>3
    <3>5. \A j \in DOMAIN todo' : todo'[j].to # "log"
      BY <1>6, <2>3
    <3> QED
      BY <3>4, <3>5 DEF FileKept
  <2> QED
    BY <1>1, <1>2, <2>1, <2>2, <2>3 DEF FileKept
<1>10. Acked'
  <2> SUFFICES ASSUME ~cut'
               PROVE  Acked'
    BY DEF Acked
  <2>1. ~cut
    BY <1>2
  <2>2. /\ Covers(Reloaded, base + 1 .. meta.watermark, pruned)
        /\ Covers(balances, pending \cup (base + 1 .. meta.watermark), pruned)
        /\ \A j \in DOMAIN todo : todo[j].to = "watermark" =>
             Covers(balances, base + 1 .. todo[j].value, pruned)
    BY <1>1, <1>2, <2>1 DEF Acked
  <2>3. PICK now : now = Reloaded'
    OBVIOUS
  <2>4. /\ Covers(now, base + 1 .. meta'.watermark, pruned)
        /\ Covers(balances, pending \cup (base + 1 .. meta'.watermark), pruned)
    <3>1. CASE w.to # "watermark"
      <4>1. meta'.watermark = meta.watermark
        BY <1>3, <3>1
      <4>2. \/ \E q \in Seq(Records) : now = Reloaded \o q
            \/ now = balances
            \/ now = Reloaded
        <5>1. CASE w.to = "line"
          BY <1>3, <1>5, <2>3, <5>1
        <5>2. CASE w.to = "log"
          <6>1. todo = <<Rewrite(balances)>>
            BY <1>1, <1>2, <1>6, <2>1, <5>2 DEF FileKept
          <6>2. w = Rewrite(balances)
            BY <1>2, <6>1
          <6> QED
            BY <1>3, <2>3, <6>2 DEF Rewrite
        <5>3. CASE w.to \notin {"line", "log"}
          BY <1>3, <2>3, <5>3
        <5> QED
          BY <5>1, <5>2, <5>3
      <4>3. Covers(balances, base + 1 .. meta.watermark, pruned)
        BY <2>2, CoversLess
      <4>4. Covers(now, base + 1 .. meta.watermark, pruned)
        <5>1. ASSUME NEW q \in Seq(Records), now = Reloaded \o q
              PROVE  Covers(now, base + 1 .. meta.watermark, pruned)
          BY <1>4, <2>2, <5>1, CoversMore
        <5> QED
          BY <2>2, <4>2, <4>3, <5>1
      <4> QED
        BY <2>2, <4>1, <4>4
    <3>2. CASE w.to = "watermark"
      <4>1. meta'.watermark = w.value /\ now = Reloaded
        BY <1>3, <2>3, <3>2
      <4>2. Covers(balances, base + 1 .. w.value, pruned)
        BY <1>2, <1>6, <2>2, <3>2
      <4>3. Covers(balances, pending, pruned)
        BY <2>2, CoversLess
      <4>4. Covers(balances, pending \cup (base + 1 .. w.value), pruned)
        BY <4>2, <4>3, CoversBoth
      <4>5. Covers(now, base + 1 .. w.value, pruned)
        <5>1. CASE w.value <= base
          <6>1. base + 1 .. w.value = {}
            BY <1>4, <1>5, <5>1
          <6> QED
            BY <6>1 DEF Covers
        <5>2. CASE w.value > base
          <6>1. \A i \in DOMAIN todo : todo[i].to \notin {"line", "log"}
            <7> SUFFICES ASSUME NEW i \in DOMAIN todo, todo[i].to \in {"line", "log"}
                         PROVE  FALSE
              OBVIOUS
            <7>1. i < 1
              BY <1>1, <1>2, <1>6, <3>2, <5>2 DEF LinesFirst
            <7> QED
              BY <1>6, <7>1
          <6>2. RecsOf(todo) = <<>>
            BY <1>4, <6>1, RecsOfNone
          <6>3. todo # <<Rewrite(balances)>>
            BY <1>2, <3>2 DEF Rewrite
          <6>4. Reloaded \o RecsOf(todo) = balances
            BY <1>1, <1>2, <2>1, <6>3 DEF FileKept
          <6>5. Reloaded = balances
            BY <1>4, <6>2, <6>4, ConcatEmptySeq
          <6> QED
            BY <4>1, <4>2, <6>5
        <5> QED
          BY <1>4, <1>5, <5>1, <5>2
      <4> QED
        BY <4>1, <4>4, <4>5
    <3> QED
      BY <3>1, <3>2
  <2>5. \A j \in DOMAIN todo' : todo'[j].to = "watermark" =>
          Covers(balances, base + 1 .. todo'[j].value, pruned)
    BY <1>6, <2>2
  <2>6. /\ \A t : Has(now, t) => Has(Reloaded, t)'
        /\ \A t : Has(balances, t) => Has(balances, t)'
    BY <1>1, <2>3 DEF Has
  <2>7. Covers(Reloaded, base + 1 .. meta.watermark, pruned)'
    <3>1. \A t \in base' + 1 .. meta'.watermark : chain'[t].ts >= pruned' => Has(now, t)
      BY <1>1, <2>4 DEF Covers
    <3> QED
      BY <2>6, <3>1 DEF Covers
  <2>8. Covers(balances, pending \cup (base + 1 .. meta.watermark), pruned)'
    <3>1. \A t \in pending' \cup (base' + 1 .. meta'.watermark) :
            chain'[t].ts >= pruned' => Has(balances, t)
      BY <1>1, <2>4 DEF Covers
    <3> QED
      BY <2>6, <3>1 DEF Covers
  <2>9. \A j \in DOMAIN todo' : todo'[j].to = "watermark" =>
          Covers(balances, base + 1 .. todo[j].value, pruned)'
    <3>1. \A j \in DOMAIN todo' : todo'[j].to = "watermark" =>
            \A t \in base' + 1 .. todo'[j].value :
              chain'[t].ts >= pruned' => Has(balances, t)
      BY <1>1, <2>5 DEF Covers
    <3> QED
      BY <2>6, <3>1 DEF Covers
  <2> QED
    BY <2>7, <2>8, <2>9 DEF Acked
<1>11. LinesFirst'
  <2> SUFFICES ASSUME NEW i \in DOMAIN todo', NEW j \in DOMAIN todo',
                      todo'[i].to \in {"line", "log"}, todo'[j].to = "watermark",
                      todo'[j].value > base'
               PROVE  i < j
    BY DEF LinesFirst
  <2>1. i + 1 < j + 1
    BY <1>1, <1>6 DEF LinesFirst
  <2> QED
    BY <1>6, <2>1
<1>12. Unstarted'
  <2> SUFFICES ASSUME ~meta'.started
               PROVE  /\ meta'.watermark <= -1
                      /\ pending' = {}
                      /\ (\A j \in DOMAIN todo' : todo'[j].to # "started") => highest' = -1
                      /\ \A j \in DOMAIN todo' :
                           todo'[j].to = "watermark" /\ todo'[j].value > -1 =>
                             \E i \in 1 .. j - 1 : todo'[i].to = "started"
    BY DEF Unstarted
  <2>1. w.to # "started"
    BY <1>3, <1>4 DEF Metas
  <2>2. ~meta.started
    BY <1>3, <2>1
  <2>3. /\ meta.watermark <= -1 /\ pending = {}
        /\ (\A j \in DOMAIN todo : todo[j].to # "started") => highest = -1
        /\ \A j \in DOMAIN todo :
             todo[j].to = "watermark" /\ todo[j].value > -1 =>
               \E i \in 1 .. j - 1 : todo[i].to = "started"
    BY <1>1, <2>2 DEF Unstarted
  <2>4. meta'.watermark <= -1
    <3>1. CASE w.to # "watermark"
      BY <1>3, <2>3, <3>1
    <3>2. CASE w.to = "watermark"
      <4>1. ~(w.value > -1)
        BY <1>2, <1>6, <2>3, <3>2
      <4> QED
        BY <1>3, <1>5, <3>2, <4>1
    <3> QED
      BY <3>1, <3>2
  <2>5. (\A j \in DOMAIN todo' : todo'[j].to # "started") => highest' = -1
    <3> SUFFICES ASSUME \A j \in DOMAIN todo' : todo'[j].to # "started"
                 PROVE  \A j \in DOMAIN todo : todo[j].to # "started"
      BY <1>1, <2>3
    <3> QED
      BY <1>2, <1>6, <2>1
  <2>6. ASSUME NEW j \in DOMAIN todo', todo'[j].to = "watermark", todo'[j].value > -1
        PROVE  \E i \in 1 .. j - 1 : todo'[i].to = "started"
    <3>1. PICK i \in 1 .. (j + 1) - 1 : todo[i].to = "started"
      BY <1>6, <2>3, <2>6
    <3>2. i # 1
      BY <1>2, <2>1, <3>1
    <3>3. i \in DOMAIN todo
      <4>1. j + 1 \in DOMAIN todo /\ DOMAIN todo = 1 .. Len(todo) /\ Len(todo) \in Nat
        BY <1>4, <1>6
      <4> QED
        BY <1>6, <3>1, <4>1
    <3>4. i - 1 \in 1 .. j - 1
      BY <1>6, <3>1, <3>2
    <3> QED
      BY <1>6, <3>1, <3>2, <3>3, <3>4
  <2> QED
    BY <1>1, <2>3, <2>4, <2>5, <2>6
<1> QED
  BY <1>7, <1>9, <1>10, <1>11, <1>12 DEF Durable

(* The records that a torn write adds: none, or those of its line.         *)
Torn(q) == q = <<>> \/ (todo # <<>> /\ Head(todo).to = "line" /\ q = Head(todo).recs)

(* What a torn write leaves on the disk. *)
LEMMA TornIs ==
  ASSUME Typed, todo # <<>>, TornWrite
  PROVE  /\ lines' \in Seq(Seq(Records)) /\ meta' \in Metas
         /\ meta' = meta \/ meta' = NoMeta
         /\ cut => cut'
         /\ ~cut' => \E q \in Seq(Records) : Reloaded' = Reloaded \o q /\ Torn(q)
<1> PICK w : w = Head(todo)
  OBVIOUS
<1>1. /\ todo \in Seq(Writes) /\ lines \in Seq(Seq(Records)) /\ meta \in Metas
      /\ Reloaded \in Seq(Records)
  BY ReloadedType DEF Typed
<1>2. w \in Writes
  BY <1>1
<1>3. w.recs \in Seq(Records)
  BY <1>2, WriteIs
<1>4. NoMeta \in Metas
  <2>1. LastSlot \in Nat
    BY ChainAssumption
  <2> QED
    BY <2>1 DEF NoMeta, Metas, Undefined
<1>5. CASE /\ w.to = "line"
           /\ \E line \in {<<>>, w.recs} : lines' = WithLine(line)
           /\ ended' = FALSE
           /\ cut' = (cut \/ ~ended)
           /\ UNCHANGED meta
  <2>1. PICK line \in {<<>>, w.recs} : lines' = WithLine(line)
    BY <1>5
  <2>2. line \in Seq(Records)
    <3>1. <<>> \in Seq(Records)
      OBVIOUS
    <3> QED
      BY <1>3, <2>1, <3>1
  <2>3. /\ WithLine(line) \in Seq(Seq(Records))
        /\ ended => FlattenSeq(WithLine(line)) = Reloaded \o line
    BY <1>1, <2>2, WithLineIs
  <2>4. ended => Reloaded' = Reloaded \o line
    BY <2>1, <2>3 DEF Reloaded
  <2>5. ~cut' => ended
    BY <1>5
  <2>6. Torn(line)
    BY <1>5, <2>1 DEF Torn
  <2> QED
    BY <1>1, <1>5, <2>1, <2>2, <2>3, <2>4, <2>5, <2>6
<1>6. CASE /\ w.to = "log"
           /\ \E n \in 0 .. Len(w.recs) - 1 :
                lines' = [i \in 1 .. n |-> <<w.recs[i]>>]
           /\ ended' = TRUE
           /\ cut' = TRUE
           /\ UNCHANGED meta
  <2>1. PICK n \in 0 .. Len(w.recs) - 1 : lines' = [i \in 1 .. n |-> <<w.recs[i]>>]
    BY <1>6
  <2>2. n \in Nat
    OBVIOUS
  <2>3. \A i \in 1 .. n : w.recs[i] \in Records
    <3>1. \A r \in Seq(Records) : Len(r) \in Nat /\ \A i \in 1 .. Len(r) : r[i] \in Records
      OBVIOUS
    <3> QED
      BY <1>3, <3>1
  <2>4. \A x \in Records : <<x>> \in Seq(Records)
    OBVIOUS
  <2>5. \A i \in 1 .. n : <<w.recs[i]>> \in Seq(Records)
    BY <2>3, <2>4
  <2>6. PICK f : f = [i \in 1 .. n |-> <<w.recs[i]>>]
    OBVIOUS
  <2>7. f \in [1 .. n -> Seq(Records)]
    BY <2>5, <2>6
  <2>8. f \in Seq(Seq(Records))
    BY <2>2, <2>7
  <2> QED
    BY <1>1, <1>6, <2>1, <2>6, <2>8
<1>7. CASE /\ w.to \in {"started", "watermark", "watermarkTs"}
           /\ meta' = NoMeta
           /\ UNCHANGED <<lines, ended, cut>>
  <2>1. Reloaded' = Reloaded \o <<>>
    BY <1>1, <1>7, ConcatEmptySeq DEF Reloaded
  <2>2. <<>> \in Seq(Records) /\ Torn(<<>>)
    BY DEF Torn
  <2> QED
    BY <1>1, <1>4, <1>7, <2>1, <2>2
<1> QED
  BY <1>5, <1>6, <1>7 DEF TornWrite

(* Coverage by the same records of the same chain. *)
LEMMA CoversThen ==
  ASSUME NEW r, r = Reloaded', chain' = chain, pruned' = pruned, base' = base,
         Covers(r, base + 1 .. meta'.watermark, pruned)
  PROVE  Covers(Reloaded, base + 1 .. meta.watermark, pruned)'
<1>1. \A t : Has(r, t) => Has(Reloaded, t)'
  BY DEF Has
<1>2. \A t \in base' + 1 .. meta'.watermark : chain'[t].ts >= pruned' => Has(r, t)
  BY DEF Covers
<1> QED
  BY <1>1, <1>2 DEF Covers

(* What a crash leaves on the disk. *)
LEMMA CrashIs ==
  ASSUME Typed, Crash
  PROVE  /\ lines' \in Seq(Seq(Records)) /\ meta' \in Metas
         /\ meta' = meta \/ meta' = NoMeta
         /\ cut => cut'
         /\ ~cut' => \E q \in Seq(Records) : Reloaded' = Reloaded \o q /\ Torn(q)
<1>1. CASE todo # <<>> /\ TornWrite
  BY <1>1, TornIs
<1>2. CASE UNCHANGED <<disk, cut>>
  <2>1. Reloaded \in Seq(Records) /\ lines \in Seq(Seq(Records)) /\ meta \in Metas
    BY ReloadedType DEF Typed
  <2>2. Reloaded' = Reloaded \o <<>> /\ <<>> \in Seq(Records) /\ Torn(<<>>)
    BY <1>2, <2>1, ConcatEmptySeq DEF Reloaded, disk, Torn
  <2> QED
    BY <1>2, <2>1, <2>2 DEF disk
<1> QED
  BY <1>1, <1>2 DEF Crash

(* A crash keeps it: what was acknowledged is on the disk. *)
LEMMA CrashKeeps ==
  ASSUME Durable, Crash
  PROVE  Durable'
<1>1. /\ Typed /\ Acked /\ Unstarted /\ up
      /\ up' = FALSE /\ balances' = <<>> /\ latest' = [w \in Wallets |-> 0]
      /\ pending' = {} /\ highest' = -1 /\ excluded' = {} /\ todo' = <<>>
      /\ chain' = chain /\ base' = base /\ detours' = detours /\ pruned' = pruned
  BY DEF Durable, Crash
<1>2. /\ lines' \in Seq(Seq(Records)) /\ meta' \in Metas
      /\ meta' = meta \/ meta' = NoMeta
      /\ cut => cut'
      /\ ~cut' => \E q \in Seq(Records) : Reloaded' = Reloaded \o q
  BY <1>1, CrashIs
<1>3. Typed'
  <2>1. <<>> \in Seq(Records) /\ <<>> \in Seq(Writes)
        /\ [w \in Wallets |-> 0] \in [Wallets -> Nat] /\ -1 \in Int
    OBVIOUS
  <2> QED
    BY <1>1, <1>2, <2>1 DEF Typed
<1>4. FileKept'
  BY <1>1 DEF FileKept
<1>5. Acked'
  <2> SUFFICES ASSUME ~cut'
               PROVE  Covers(Reloaded, base + 1 .. meta.watermark, pruned)'
    BY <1>1 DEF Acked
  <2>1. PICK q \in Seq(Records) : Reloaded' = Reloaded \o q
    BY <1>2
  <2>2. Reloaded \in Seq(Records) /\ base \in Int /\ base >= -1
    BY <1>1, ReloadedType DEF Typed
  <2>3. Covers(Reloaded \o q, base + 1 .. meta.watermark, pruned)
    <3>1. Covers(Reloaded, base + 1 .. meta.watermark, pruned)
      BY <1>1, <1>2 DEF Acked
    <3> QED
      BY <2>2, <3>1, CoversMore
  <2>4. Covers(Reloaded \o q, base + 1 .. meta'.watermark, pruned)
    <3>1. CASE meta' = meta
      BY <2>3, <3>1
    <3>2. CASE meta' = NoMeta
      <4>1. base + 1 .. meta'.watermark = {}
        BY <2>2, <3>2 DEF NoMeta, Undefined
      <4> QED
        BY <4>1 DEF Covers
    <3> QED
      BY <1>2, <3>1, <3>2
  <2>5. PICK r : r = Reloaded \o q
    OBVIOUS
  <2> QED
    BY <1>1, <2>1, <2>4, <2>5, CoversThen
<1>6. LinesFirst'
  BY <1>1 DEF LinesFirst
<1>7. Unstarted'
  <2>1. meta'.started \/ meta'.watermark <= -1
    <3>1. CASE meta' = meta
      BY <1>1, <3>1 DEF Unstarted
    <3>2. CASE meta' = NoMeta
      BY <3>2 DEF NoMeta, Undefined
    <3> QED
      BY <1>2, <3>1, <3>2
  <2> QED
    BY <1>1, <2>1 DEF Unstarted
<1> QED
  BY <1>3, <1>4, <1>5, <1>6, <1>7 DEF Durable

(* What the constructors write when meta.json has no watermark. *)
Fresh == <<WriteTo("watermark", -1), WriteTo("watermarkTs", 0)>>

(* Those writes, one by one. *)
LEMMA FreshIs ==
  /\ Fresh \in Seq(Writes) /\ DOMAIN Fresh = 1 .. 2
  /\ Fresh[1].to = "watermark" /\ Fresh[1].value = -1
  /\ Fresh[2].to = "watermarkTs"
<1>1. \A v, w \in Writes : /\ DOMAIN <<v, w>> = 1 .. 2
                           /\ <<v, w>> \in Seq(Writes)
                           /\ <<v, w>>[1] = v /\ <<v, w>>[2] = w
  OBVIOUS
<1>2. /\ WriteTo("watermark", -1) \in Writes /\ WriteTo("watermarkTs", 0) \in Writes
      /\ WriteTo("watermark", -1).to = "watermark"
      /\ WriteTo("watermark", -1).value = -1
      /\ WriteTo("watermarkTs", 0).to = "watermarkTs"
  <2>1. -1 \in Int /\ 0 \in Int /\ -1 \in -1 .. LastSlot
    BY ChainAssumption
  <2> QED
    BY <2>1, MarkWriteIs
<1> QED
  BY <1>1, <1>2 DEF Fresh

(* What the constructors do. *)
LEMMA RestartIs ==
  ASSUME Typed, Restart
  PROVE  /\ up' /\ chain' = chain /\ lines' = lines /\ ended' = ended /\ meta' = meta
         /\ balances' = Reloaded /\ latest' = LatestOf(Reloaded)
         /\ pending' = {} /\ highest' = -1 /\ excluded' = excluded
         /\ base' = base /\ detours' = detours /\ interrupted' = interrupted
         /\ cut' = cut /\ pruned' = pruned
         /\ Reloaded' = Reloaded /\ Reloaded \in Seq(Records)
         /\ todo' \in Seq(Writes) /\ RecsOf(todo') = <<>>
         /\ meta.watermark = Undefined => todo' = Fresh
         /\ meta.watermark # Undefined => todo' = <<>>
         /\ \A j \in DOMAIN todo' : /\ todo'[j].to \in {"watermark", "watermarkTs"}
                                    /\ todo'[j].to = "watermark" => todo'[j].value = -1
<1>1. /\ ~up /\ up' = TRUE /\ balances' = Reloaded /\ latest' = LatestOf(Reloaded)
      /\ todo' = IF meta.watermark = Undefined THEN Fresh ELSE <<>>
      /\ chain' = chain /\ lines' = lines /\ ended' = ended /\ meta' = meta
      /\ pending' = pending /\ highest' = highest /\ excluded' = excluded
      /\ base' = base /\ detours' = detours /\ interrupted' = interrupted
      /\ cut' = cut /\ pruned' = pruned
  BY DEF Restart, Fresh, disk, faults
<1>2. pending = {} /\ highest = -1
  BY <1>1 DEF Typed
<1>3. Reloaded' = Reloaded /\ Reloaded \in Seq(Records)
  BY <1>1, ReloadedType DEF Reloaded
<1>4. /\ todo' \in Seq(Writes)
      /\ \A j \in DOMAIN todo' : /\ todo'[j].to \in {"watermark", "watermarkTs"}
                                 /\ todo'[j].to = "watermark" => todo'[j].value = -1
  <2>1. CASE todo' = Fresh
    <3>1. /\ Fresh \in Seq(Writes) /\ DOMAIN Fresh = 1 .. 2
          /\ Fresh[1].to = "watermark" /\ Fresh[1].value = -1
          /\ Fresh[2].to = "watermarkTs"
      BY FreshIs
    <3>2. \A j \in DOMAIN Fresh : j = 1 \/ j = 2
      BY <3>1
    <3> QED
      BY <2>1, <3>1, <3>2
  <2>2. CASE todo' = <<>>
    BY <2>2
  <2> QED
    BY <1>1, <2>1, <2>2
<1>5. RecsOf(todo') = <<>>
  <2>1. \A p \in Seq(Writes) : (\A j \in DOMAIN p : p[j].to \notin {"line", "log"})
          => RecsOf(p) = <<>>
    BY RecsOfNone
  <2> QED
    BY <1>4, <2>1
<1> QED
  BY <1>1, <1>2, <1>3, <1>4, <1>5

(* A restart keeps it. *)
LEMMA RestartKeeps ==
  ASSUME Durable, Restart
  PROVE  Durable'
<1>1. Typed /\ Acked /\ Unstarted
  BY DEF Durable
<1>2. /\ up' /\ chain' = chain /\ lines' = lines /\ meta' = meta
      /\ balances' = Reloaded /\ latest' = LatestOf(Reloaded)
      /\ pending' = {} /\ highest' = -1 /\ excluded' = excluded
      /\ base' = base /\ detours' = detours
      /\ cut' = cut /\ pruned' = pruned
      /\ Reloaded' = Reloaded /\ Reloaded \in Seq(Records)
      /\ todo' \in Seq(Writes) /\ RecsOf(todo') = <<>>
      /\ \A j \in DOMAIN todo' : /\ todo'[j].to \in {"watermark", "watermarkTs"}
                                 /\ todo'[j].to = "watermark" => todo'[j].value = -1
  BY <1>1, RestartIs
<1>3. Typed'
  <2>1. latest' \in [Wallets -> Nat]
    BY <1>2, LatestType
  <2> QED
    BY <1>1, <1>2, <2>1 DEF Typed
<1>4. FileKept'
  <2>1. Reloaded' \o RecsOf(todo') = balances'
    BY <1>2, ConcatEmptySeq
  <2>2. \A j \in DOMAIN todo' : todo'[j].to # "log"
    BY <1>2
  <2> QED
    BY <2>1, <2>2 DEF FileKept
<1>5. Acked'
  <2> SUFFICES ASSUME ~cut
               PROVE  Acked'
    BY <1>2 DEF Acked
  <2>1. PICK r : r = Reloaded
    OBVIOUS
  <2>2. Covers(r, base + 1 .. meta.watermark, pruned)
    BY <1>1, <2>1 DEF Acked
  <2>3. Covers(Reloaded, base + 1 .. meta.watermark, pruned)'
    BY <1>2, <2>1, <2>2, CoversThen
  <2>4. \A t : Has(r, t) => Has(balances, t)'
    BY <1>2, <2>1 DEF Has
  <2>5. Covers(balances, pending \cup (base + 1 .. meta.watermark), pruned)'
    <3>1. \A t \in pending' \cup (base' + 1 .. meta'.watermark) :
            chain'[t].ts >= pruned' => Has(r, t)
      BY <1>2, <2>2 DEF Covers
    <3> QED
      BY <2>4, <3>1 DEF Covers
  <2>6. \A j \in DOMAIN todo' : todo'[j].to = "watermark" =>
          Covers(balances, base + 1 .. todo[j].value, pruned)'
    <3>1. base' + 1 .. -1 = {}
      BY <1>1, <1>2 DEF Typed
    <3>2. \A j \in DOMAIN todo' : todo'[j].to = "watermark" =>
            base' + 1 .. todo'[j].value = {}
      BY <1>2, <3>1
    <3> QED
      BY <3>2 DEF Covers
  <2> QED
    BY <2>3, <2>5, <2>6 DEF Acked
<1>6. LinesFirst'
  BY <1>2 DEF LinesFirst
<1>7. Unstarted'
  BY <1>1, <1>2 DEF Unstarted
<1> QED
  BY <1>3, <1>4, <1>5, <1>6, <1>7 DEF Durable

(* The write of a prune. *)
LEMMA RewriteIs ==
  ASSUME NEW r \in Seq(Records)
  PROVE  /\ <<Rewrite(r)>> \in Seq(Writes) /\ DOMAIN <<Rewrite(r)>> = {1}
         /\ <<Rewrite(r)>>[1].to = "log"
<1>1. Rewrite(r) \in Writes /\ Rewrite(r).to = "log"
  BY DEF Rewrite, Writes
<1>2. \A w \in Writes : <<w>> \in Seq(Writes) /\ DOMAIN <<w>> = {1} /\ <<w>>[1] = w
  OBVIOUS
<1> QED
  BY <1>1, <1>2

(* A prune keeps it. *)
LEMMA PruneKeeps ==
  ASSUME Durable, NEW before \in Times, prune(before)
  PROVE  Durable'
<1> PICK kept : kept = Kept(balances, before)
  OBVIOUS
<1>1. /\ Typed /\ FileKept /\ Acked /\ Unstarted
      /\ up /\ todo = <<>> /\ before > pruned
      /\ pruned' = before /\ balances' = kept /\ todo' = <<Rewrite(kept)>>
      /\ chain' = chain /\ lines' = lines /\ ended' = ended /\ meta' = meta /\ up' = up
      /\ latest' = latest /\ pending' = pending /\ highest' = highest
      /\ excluded' = excluded /\ base' = base /\ detours' = detours /\ cut' = cut
  BY DEF Durable, prune, disk
<1>2. /\ chain \in Chains /\ balances \in Seq(Records) /\ before \in Int
      /\ pruned \in Times /\ before >= pruned /\ Reloaded \in Seq(Records)
      /\ pending \in SUBSET Slots /\ meta \in Metas /\ base \in Int /\ base >= -1
  BY <1>1, ReloadedType DEF Typed, Times
<1>3. kept \in Seq(Records)
  BY <1>2, KeptIs
<1>4. /\ todo' \in Seq(Writes) /\ DOMAIN todo' = {1} /\ todo'[1].to = "log"
  BY <1>1, <1>3, RewriteIs
<1>5. Typed'
  BY <1>1, <1>3, <1>4 DEF Typed
<1>6. FileKept'
  BY <1>1 DEF FileKept
<1>7. Acked'
  <2> SUFFICES ASSUME ~cut
               PROVE  Acked'
    BY <1>1 DEF Acked
  <2> DEFINE some == pending \cup (base + 1 .. meta.watermark)
  <2>1. /\ some \in SUBSET Slots /\ base + 1 .. meta.watermark \in SUBSET Slots
    <3>1. meta.watermark \in Int /\ meta.watermark <= LastSlot /\ LastSlot \in Nat
      BY <1>2, ChainAssumption DEF Metas
    <3>2. base + 1 .. meta.watermark \in SUBSET (0 .. LastSlot)
      BY <1>2, <3>1
    <3> QED
      BY <1>2, <3>2 DEF Slots
  <2>2. /\ Covers(Reloaded, base + 1 .. meta.watermark, pruned)
        /\ Covers(balances, some, pruned)
    BY <1>1 DEF Acked
  <2> HIDE DEF some
  <2>3. Covers(Reloaded, base + 1 .. meta.watermark, before)
    BY <1>2, <2>1, <2>2, CoversLater
  <2>4. Covers(balances, some, before)
    BY <1>2, <2>1, <2>2, CoversLater
  <2>5. Covers(kept, some, before)
    BY <1>2, <2>1, <2>4, CoversKept
  <2>6. PICK r : r = Reloaded /\ r = Reloaded'
    BY <1>1 DEF Reloaded
  <2>7. /\ \A t : Has(kept, t) => Has(balances, t)'
        /\ \A t : Has(r, t) => Has(Reloaded, t)'
    BY <1>1, <2>6 DEF Has
  <2>8. Covers(Reloaded, base + 1 .. meta.watermark, pruned)'
    <3>1. \A t \in base' + 1 .. meta'.watermark : chain'[t].ts >= pruned' => Has(r, t)
      BY <1>1, <2>3, <2>6 DEF Covers
    <3> QED
      BY <2>7, <3>1 DEF Covers
  <2>9. Covers(balances, pending \cup (base + 1 .. meta.watermark), pruned)'
    <3>1. \A t \in pending' \cup (base' + 1 .. meta'.watermark) :
            chain'[t].ts >= pruned' => Has(kept, t)
      BY <1>1, <2>5 DEF Covers, some
    <3> QED
      BY <2>7, <3>1 DEF Covers
  <2>10. \A j \in DOMAIN todo' : todo'[j].to # "watermark"
    BY <1>4
  <2> QED
    BY <2>8, <2>9, <2>10 DEF Acked
<1>8. LinesFirst'
  BY <1>4 DEF LinesFirst
<1>9. Unstarted'
  <2>1. (\A j \in DOMAIN todo : todo[j].to # "started")
    BY <1>1
  <2> QED
    BY <1>1, <1>4, <2>1 DEF Unstarted
<1> QED
  BY <1>5, <1>6, <1>7, <1>8, <1>9 DEF Durable

(* Registering a coin keeps it: what is excluded is in Pools. *)
LEMMA TrackKeeps ==
  ASSUME Durable, trackCoin
  PROVE  Durable'
<1>1. /\ Typed /\ FileKept /\ Acked /\ LinesFirst /\ Unstarted
      /\ excluded' = excluded \cup Pools
      /\ chain' = chain /\ lines' = lines /\ meta' = meta /\ up' = up
      /\ balances' = balances /\ latest' = latest /\ pending' = pending
      /\ highest' = highest /\ todo' = todo /\ base' = base /\ detours' = detours
      /\ cut' = cut /\ pruned' = pruned
  BY DEF Durable, trackCoin, disk, faults
<1>2. Typed'
  BY <1>1 DEF Typed
<1>3. FileKept' /\ Acked' /\ LinesFirst' /\ Unstarted'
  BY <1>1 DEF FileKept, Acked, LinesFirst, Unstarted, Reloaded, Covers, Has
<1> QED
  BY <1>2, <1>3 DEF Durable

(* So does a step of something else. *)
LEMMA StutterKeeps ==
  ASSUME Durable, UNCHANGED vars
  PROVE  Durable'
<1>1. /\ Typed /\ FileKept /\ Acked /\ LinesFirst /\ Unstarted
      /\ excluded' = excluded
      /\ chain' = chain /\ lines' = lines /\ meta' = meta /\ up' = up
      /\ balances' = balances /\ latest' = latest /\ pending' = pending
      /\ highest' = highest /\ todo' = todo /\ base' = base /\ detours' = detours
      /\ cut' = cut /\ pruned' = pruned
  BY DEF Durable, vars, disk, memory, faults
<1>2. Typed'
  BY <1>1 DEF Typed
<1>3. FileKept' /\ Acked' /\ LinesFirst' /\ Unstarted'
  BY <1>1 DEF FileKept, Acked, LinesFirst, Unstarted, Reloaded, Covers, Has
<1> QED
  BY <1>2, <1>3 DEF Durable

(* The empty store. *)
LEMMA InitDurable == Init => Durable
<1> SUFFICES ASSUME Init
             PROVE  Durable
  OBVIOUS
<1>1. Typed
  <2>1. LastSlot \in Nat /\ MaxTime \in Nat
    BY ChainAssumption
  <2>2. NoMeta \in Metas /\ 0 \in Times
    BY <2>1 DEF NoMeta, Metas, Undefined, Times
  <2>3. <<>> \in Seq(Seq(Records)) /\ <<>> \in Seq(Records) /\ <<>> \in Seq(Writes)
        /\ [w \in Wallets |-> 0] \in [Wallets -> Nat] /\ -1 \in Int /\ -1 >= -1
    OBVIOUS
  <2> QED
    BY <2>2, <2>3 DEF Init, Typed
<1>2. FileKept
  BY DEF Init, FileKept
<1>3. Acked
  <2>1. base + 1 .. meta.watermark = {}
    BY DEF Init, NoMeta, Undefined
  <2> QED
    BY <2>1 DEF Init, Acked, Covers
<1>4. LinesFirst /\ Unstarted
  BY DEF Init, LinesFirst, Unstarted, NoMeta, Undefined
<1> QED
  BY <1>1, <1>2, <1>3, <1>4 DEF Durable

(* Durable is inductive. *)
LEMMA NextDurable == Durable /\ [Next]_vars => Durable'
<1> SUFFICES ASSUME Durable, [Next]_vars
             PROVE  Durable'
  OBVIOUS
<1>1. ASSUME NEW s \in Slots, processSlot(s)
      PROVE  Durable'
  BY <1>1, ProcessKeeps
<1>2. ASSUME NEW s \in Slots, backfill(s)
      PROVE  Durable'
  BY <1>2, BackfillKeeps
<1>3. CASE trackCoin
  BY <1>3, TrackKeeps
<1>4. ASSUME NEW t \in Times, prune(t)
      PROVE  Durable'
  BY <1>4, PruneKeeps
<1>5. CASE Flush
  BY <1>5, FlushKeeps
<1>6. CASE Crash
  BY <1>6, CrashKeeps
<1>7. CASE Restart
  BY <1>7, RestartKeeps
<1>8. CASE UNCHANGED vars
  BY <1>8, StutterKeeps
<1> QED
  BY <1>1, <1>2, <1>3, <1>4, <1>5, <1>6, <1>7, <1>8 DEF Next

(* It is stronger than what was to be shown. *)
LEMMA DurableAcknowledged == Durable => Acknowledged
<1> SUFFICES ASSUME Durable, ~cut
             PROVE  Acknowledged
  BY DEF Acknowledged
<1>1. Covers(Reloaded, base + 1 .. meta.watermark, pruned)
  BY DEF Durable, Acked
<1> QED
  BY <1>1 DEF Acknowledged, Covers, Has

(* store.ts:14-16: whatever is delivered late, twice or never, and         *)
(* wherever the process crashes, each transfer of the slots that the       *)
(* watermark on disk covers is in the file.                                *)
THEOREM AcknowledgedCorrect == Spec => []Acknowledged
<1>1. Spec => []Durable
  BY InitDurable, NextDurable, PTL DEF Spec
<1> QED
  BY <1>1, DurableAcknowledged, PTL

----------------------------------------------------------------------------
(* Until something is out of turn.                                         *)

(* Records of a later slot may follow records in order. *)
LEMMA OrderedConcat ==
  ASSUME chain \in Chains, NEW r \in Seq(Records), NEW q \in Seq(Records),
         Ordered(r), Ordered(q), NEW v \in Int, Upto(r, v),
         NEW s \in Slots, v < s,
         \A k \in DOMAIN q : /\ q[k].ts = chain[s].ts
                             /\ \E i \in 1 .. Len(chain[s].txs) :
                                  q[k].seq = s * SEQ_MULT + i
  PROVE  Ordered(r \o q) /\ Upto(r \o q, s)
<1>1. /\ s \in Nat /\ chain[s].ts \in Nat /\ Len(chain[s].txs) \in Nat
      /\ Len(chain[s].txs) <= SEQ_MULT
  <2>1. /\ s \in Nat /\ chain[s].ts \in Times /\ Len(chain[s].txs) \in 0 .. SEQ_MULT
    BY BlockIs
  <2>2. SEQ_MULT \in Nat
    BY DEF SEQ_MULT
  <2> QED
    BY <2>1, <2>2 DEF Times
<1>2. \A x \in Records : x.ts \in Nat /\ x.seq \in Nat
  BY DEF Records, Times
<1>3. \A k \in DOMAIN r : /\ r[k].ts \in Nat /\ r[k].seq \in Nat
                          /\ r[k].ts <= chain[s].ts
                          /\ r[k].seq <= s * SEQ_MULT
  <2> SUFFICES ASSUME NEW k \in DOMAIN r
               PROVE  /\ r[k].ts \in Nat /\ r[k].seq \in Nat
                      /\ r[k].ts <= chain[s].ts
                      /\ r[k].seq <= s * SEQ_MULT
    OBVIOUS
  <2>1. r[k].ts \in Nat /\ r[k].seq \in Nat
    BY <1>2
  <2>2. /\ v \in Slots /\ r[k].seq <= v * SEQ_MULT + SEQ_MULT
        /\ r[k].ts <= chain[v].ts
    BY DEF Upto
  <2>3. /\ v \in Nat /\ chain[v].ts \in Times
        /\ \A t \in Slots : v <= t => chain[v].ts <= chain[t].ts
    BY <2>2, BlockIs
  <2>4. chain[v].ts <= chain[s].ts /\ chain[v].ts \in Nat
    BY <1>1, <2>3 DEF Times
  <2>5. v * SEQ_MULT + SEQ_MULT <= s * SEQ_MULT
    BY <1>1, <2>3 DEF SEQ_MULT
  <2>6. v * SEQ_MULT + SEQ_MULT \in Int /\ s * SEQ_MULT \in Int
    BY <1>1, <2>3 DEF SEQ_MULT
  <2> QED
    BY <1>1, <2>1, <2>2, <2>4, <2>5, <2>6
<1>4. \A k \in DOMAIN q : /\ q[k].ts = chain[s].ts /\ q[k].seq \in Nat
                          /\ q[k].seq > s * SEQ_MULT
                          /\ q[k].seq <= s * SEQ_MULT + SEQ_MULT
  <2> SUFFICES ASSUME NEW k \in DOMAIN q
               PROVE  /\ q[k].seq \in Nat
                      /\ q[k].seq > s * SEQ_MULT
                      /\ q[k].seq <= s * SEQ_MULT + SEQ_MULT
    OBVIOUS
  <2>1. PICK i \in 1 .. Len(chain[s].txs) : q[k].seq = s * SEQ_MULT + i
    OBVIOUS
  <2>2. i \in Nat /\ i >= 1 /\ i <= SEQ_MULT
    BY <1>1 DEF SEQ_MULT
  <2> QED
    BY <1>1, <2>1, <2>2 DEF SEQ_MULT
<1>5. /\ Len(r) \in Nat /\ DOMAIN r = 1 .. Len(r) /\ DOMAIN q = 1 .. Len(q)
      /\ \A i \in DOMAIN (r \o q) :
           /\ i \in Nat
           /\ \/ i \in 1 .. Len(r) /\ (r \o q)[i] = r[i]
              \/ i - Len(r) \in 1 .. Len(q) /\ (r \o q)[i] = q[i - Len(r)]
  <2>1. /\ Len(r) \in Nat /\ DOMAIN r = 1 .. Len(r) /\ DOMAIN q = 1 .. Len(q)
        /\ Len(q) \in Nat
        /\ DOMAIN (r \o q) = 1 .. Len(r) + Len(q)
        /\ \A i \in DOMAIN (r \o q) :
             \/ i \in 1 .. Len(r) /\ (r \o q)[i] = r[i]
             \/ i - Len(r) \in 1 .. Len(q) /\ (r \o q)[i] = q[i - Len(r)]
    BY ConcatIs
  <2> QED
    BY <2>1
<1>6. s * SEQ_MULT \in Int /\ s * SEQ_MULT + SEQ_MULT \in Int
      /\ s * SEQ_MULT <= s * SEQ_MULT + SEQ_MULT
  BY <1>1 DEF SEQ_MULT
<1> PICK base1 : base1 = s * SEQ_MULT
  OBVIOUS
<1> PICK top : top = s * SEQ_MULT + SEQ_MULT
  OBVIOUS
<1> PICK all : all = r \o q
  OBVIOUS
<1>7. Ordered(all)
  <2> SUFFICES ASSUME NEW i \in DOMAIN all, NEW j \in DOMAIN all, i < j
               PROVE  /\ all[i].ts <= all[j].ts
                      /\ all[i].seq <= all[j].seq
                      /\ all[i].wallet = all[j].wallet => all[i].seq < all[j].seq
    BY DEF Ordered
  <2>1. CASE i \in 1 .. Len(r) /\ j \in 1 .. Len(r)
    <3>1. all[i] = r[i] /\ all[j] = r[j]
      BY <1>5, <2>1
    <3> QED
      BY <1>5, <2>1, <3>1 DEF Ordered
  <2>2. CASE i \in 1 .. Len(r) /\ j - Len(r) \in 1 .. Len(q)
    <3>1. all[i] = r[i] /\ all[j] = q[j - Len(r)]
      BY <1>5, <2>2
    <3>2. /\ r[i].ts <= chain[s].ts /\ r[i].seq <= base1 /\ r[i].seq \in Nat
      BY <1>3, <1>5, <2>2
    <3>3. q[j - Len(r)].ts = chain[s].ts /\ q[j - Len(r)].seq > base1
          /\ q[j - Len(r)].seq \in Nat
      BY <1>4, <1>5, <2>2
    <3>4. r[i].seq < q[j - Len(r)].seq
      BY <1>6, <3>2, <3>3
    <3> QED
      BY <3>1, <3>2, <3>3, <3>4
  <2>3. CASE i - Len(r) \in 1 .. Len(q) /\ j - Len(r) \in 1 .. Len(q)
    <3>1. all[i] = q[i - Len(r)] /\ all[j] = q[j - Len(r)]
      BY <1>5, <2>3
    <3>2. i - Len(r) < j - Len(r)
      BY <1>5
    <3>3. PICK k \in DOMAIN q : k = i - Len(r)
      BY <1>5, <2>3
    <3>4. PICK l \in DOMAIN q : l = j - Len(r)
      BY <1>5, <2>3
    <3>5. /\ q[k].ts <= q[l].ts
          /\ q[k].seq <= q[l].seq
          /\ q[k].wallet = q[l].wallet => q[k].seq < q[l].seq
      BY <3>2, <3>3, <3>4 DEF Ordered
    <3> QED
      BY <3>1, <3>3, <3>4, <3>5
  <2>4. \/ i \in 1 .. Len(r) /\ j \in 1 .. Len(r)
        \/ i \in 1 .. Len(r) /\ j - Len(r) \in 1 .. Len(q)
        \/ i - Len(r) \in 1 .. Len(q) /\ j - Len(r) \in 1 .. Len(q)
    BY <1>5
  <2> QED
    BY <2>1, <2>2, <2>3, <2>4
<1>8. Upto(all, s)
  <2> SUFFICES ASSUME NEW k \in DOMAIN all
               PROVE  all[k].seq <= top /\ all[k].ts <= chain[s].ts
    BY DEF Upto
  <2>1. CASE k \in 1 .. Len(r) /\ all[k] = r[k]
    <3>1. r[k].ts <= chain[s].ts /\ r[k].seq <= base1 /\ r[k].seq \in Nat
      BY <1>3, <1>5, <2>1
    <3> QED
      BY <1>6, <2>1, <3>1
  <2>2. CASE k - Len(r) \in 1 .. Len(q) /\ all[k] = q[k - Len(r)]
    <3>1. q[k - Len(r)].ts = chain[s].ts /\ q[k - Len(r)].seq <= top
      BY <1>4, <1>5, <2>2
    <3> QED
      BY <1>1, <2>2, <3>1
  <2> QED
    BY <1>5, <2>1, <2>2
<1> QED
  BY <1>7, <1>8

(* A slot in turn leaves records in order, none beyond the watermark. *)
LEMMA IngestStraight ==
  ASSUME Typed, up, todo = <<>>, NEW s \in Slots, NEW from \in -2 .. LastSlot,
         from + 1 = s, NEW first \in Seq(Writes),
         \A j \in DOMAIN first : first[j].to \notin {"line", "log"},
         \A j \in DOMAIN first : first[j].to = "watermark" => first[j].value < s,
         IngestSlot(s, from, first), chain' = chain,
         pending = {}, highest <= s, Ordered(balances),
         NEW v \in Int, v < s, Upto(balances, v),
         meta'.started \/ \E j \in DOMAIN first : first[j].to = "started",
         pruned' = pruned,
         \A t \in Slots : base' < t /\ t < s => HasLater(balances, t)
  PROVE  /\ Ordered(balances') /\ pending' = {}
         /\ \E w \in -2 .. LastSlot :
              /\ Mark(w)' /\ Upto(balances, w)' /\ Complete(balances, w)'
              /\ highest' = -1 \/ highest' <= w
         /\ meta'.started \/ \E j \in DOMAIN todo' : todo'[j].to = "started"
<1> PICK after : after = BalancesAfter(s)
  OBVIOUS
<1> PICK recs : recs = RecordsOf(s, after)
  OBVIOUS
<1> PICK wm : wm = Advanced(from, pending \cup {s})
  OBVIOUS
<1>1. Ingested(s, from, first, recs, wm)
  BY IngestIs
<1>2. /\ recs \in Seq(Records) /\ balances' = balances \o recs
      /\ from <= wm /\ from + 1 .. wm \subseteq pending \cup {s}
      /\ wm \in -2 .. LastSlot
      /\ pending' \in SUBSET Slots /\ pending' \subseteq pending \cup {s}
      /\ \A t \in pending' : t > wm
      /\ from + 1 = s => from < wm
      /\ highest <= s => highest' = s
      /\ todo' \in Seq(Writes)
      /\ \A j \in DOMAIN first : j \in DOMAIN todo' /\ todo'[j] = first[j]
      /\ \A i, j \in DOMAIN todo' : todo'[j].to = "watermark" =>
           \/ j \in DOMAIN first /\ todo'[j] = first[j]
           \/ todo'[i].to = "watermark" => i <= j
      /\ wm # from => \E j \in DOMAIN todo' :
           todo'[j].to = "watermark" /\ todo'[j].value = wm
  BY <1>1 DEF Ingested
<1>3. /\ chain \in Chains /\ balances \in Seq(Records) /\ latest \in [Wallets -> Nat]
      /\ s \in Nat /\ s \in -2 .. LastSlot /\ from \in Int
  BY ChainAssumption DEF Typed, Slots
<1>4. wm = s
  <2>1. from < wm /\ wm \in Int
    <3>1. wm \in -2 .. LastSlot /\ (from + 1 = s => from < wm)
      BY <1>2
    <3> QED
      BY ONLY <3>1, from + 1 = s
  <2>2. wm \in from + 1 .. wm
    BY <1>3, <2>1
  <2> QED
    BY <1>2, <2>2
<1>5. pending' = {}
  <2> SUFFICES ASSUME NEW t \in pending'
               PROVE  FALSE
    OBVIOUS
  <2>1. t = s /\ t > s
    BY <1>2, <1>4
  <2>2. s > s
    BY <2>1
  <2> QED
    BY <1>3, <2>2
<1>6. Ordered(balances \o recs) /\ Upto(balances \o recs, s)
  <2>1. Recorded(s, after, Len(chain[s].txs), recs)
    BY <1>3, RecordsIs
  <2>2. /\ Ordered(recs)
        /\ \A k \in DOMAIN recs : /\ recs[k].ts = chain[s].ts
                                  /\ \E i \in 1 .. Len(chain[s].txs) :
                                       recs[k].seq = s * SEQ_MULT + i
    BY <2>1 DEF Recorded
  <2> QED
    BY <1>2, <1>3, <2>2, OrderedConcat
<1>7. Ordered(balances')
  BY <1>2, <1>6
<1>8. Upto(balances, s)'
  <2>1. Upto(balances', s)
    BY <1>2, <1>6
  <2> QED
    BY <2>1 DEF Upto
<1>9. Mark(s)'
  <2>1. PICK j \in DOMAIN todo' : todo'[j].to = "watermark" /\ todo'[j].value = s
    <3>1. wm # from
      BY ONLY <1>3, <1>4, from + 1 = s
    <3>2. wm # from => \E j \in DOMAIN todo' :
            todo'[j].to = "watermark" /\ todo'[j].value = wm
      BY <1>2
    <3> QED
      BY ONLY <1>4, <3>1, <3>2
  <2>2. ~(j \in DOMAIN first /\ todo'[j] = first[j])
    <3> SUFFICES ASSUME j \in DOMAIN first, todo'[j] = first[j]
                 PROVE  FALSE
      OBVIOUS
    <3>1. s < s
      BY <2>1
    <3> QED
      BY <1>3, <3>1
  <2>3. \A i \in DOMAIN todo' : todo'[i].to = "watermark" => i <= j
    BY <1>2, <2>1, <2>2
  <2>4. \A i \in DOMAIN todo' : i \in Nat
    BY <1>2
  <2>5. \A i \in DOMAIN todo' : i > j => todo'[i].to # "watermark"
    BY <2>3, <2>4
  <2> QED
    BY <2>1, <2>5 DEF Mark
<1>10. highest' <= s
  BY <1>2, <1>3
<1>11. meta'.started \/ \E j \in DOMAIN todo' : todo'[j].to = "started"
  BY <1>2
<1>12. Complete(balances, s)'
  <2>1. /\ Recorded(s, after, Len(chain[s].txs), recs)
        /\ DOMAIN chain[s].txs = 1 .. Len(chain[s].txs)
        /\ \A w \in Wallets \ Pools : w \notin excluded
    BY <1>3, RecordsIs, BlockIs DEF Typed
  <2>2. ASSUME NEW i \in DOMAIN chain[s].txs, NEW w \in Wallets \ Pools,
               Net(chain[s].txs[i], w) # 0
        PROVE  \E k \in DOMAIN recs : recs[k].wallet = w /\ recs[k].seq = s * SEQ_MULT + i
    BY <2>1, <2>2 DEF Recorded
  <2>3. \A k \in DOMAIN recs : recs[k].seq \in Nat
    <3>1. \A r \in Records : r.seq \in Nat
      BY DEF Records
    <3> QED
      BY <1>2, <3>1, ElementOfSeq
  <2>4. HasLater(recs, s)
    <3> SUFFICES ASSUME NEW i \in DOMAIN chain[s].txs, NEW w \in Wallets \ Pools,
                        Net(chain[s].txs[i], w) # 0
                 PROVE  \E k \in DOMAIN recs :
                          /\ recs[k].wallet = w
                          /\ recs[k].seq >= s * SEQ_MULT + i
                          /\ recs[k].seq = s * SEQ_MULT + i \/ recs[k].ts < pruned
      BY DEF HasLater
    <3>1. PICK k \in DOMAIN recs : recs[k].wallet = w /\ recs[k].seq = s * SEQ_MULT + i
      BY <2>2
    <3>2. recs[k].seq >= s * SEQ_MULT + i
      BY <2>3, <3>1
    <3> QED
      BY <3>1, <3>2
  <2>5. ASSUME NEW t \in Slots, base' < t, t <= s
        PROVE  HasLater(balances', t)
    <3>1. /\ \A k \in DOMAIN balances :
               k \in DOMAIN balances' /\ balances'[k] = balances[k]
          /\ \A k \in DOMAIN recs : Len(balances) + k \in DOMAIN balances'
                                    /\ balances'[Len(balances) + k] = recs[k]
      <4> PICK c : c = balances \o recs
        OBVIOUS
      <4>1. /\ Len(balances) \in Nat /\ Len(recs) \in Nat
            /\ DOMAIN balances = 1 .. Len(balances) /\ DOMAIN recs = 1 .. Len(recs)
            /\ DOMAIN c = 1 .. Len(balances) + Len(recs)
            /\ \A k \in 1 .. Len(balances) : c[k] = balances[k]
            /\ \A k \in 1 .. Len(recs) : c[Len(balances) + k] = recs[k]
        BY <1>2, <1>3, ConcatIs
      <4>2. /\ \A k \in DOMAIN balances : k \in DOMAIN c /\ c[k] = balances[k]
            /\ \A k \in DOMAIN recs : Len(balances) + k \in DOMAIN c
                                      /\ c[Len(balances) + k] = recs[k]
        BY <4>1
      <4> QED
        BY <1>2, <4>2
    <3>2. CASE t = s
      BY <2>4, <3>1, <3>2 DEF HasLater
    <3>3. CASE t < s
      <4>1. HasLater(balances, t)
        BY <2>5, <3>3
      <4> QED
        BY <3>1, <4>1 DEF HasLater
    <3>4. t \in Nat
      BY DEF Slots
    <3> QED
      BY <1>3, <2>5, <3>2, <3>3, <3>4
  <2>6. PICK r : r = balances'
    OBVIOUS
  <2>7. \A t \in Slots : base' < t /\ t <= s => HasLater(r, t)
    BY <2>5, <2>6
  <2>8. \A t \in Slots : HasLater(r, t) => HasLater(balances, t)'
    BY <2>6 DEF HasLater
  <2> QED
    BY <2>7, <2>8 DEF Complete
<1> QED
  BY <1>3, <1>5, <1>7, <1>8, <1>9, <1>10, <1>11, <1>12

(* With nothing left to write, the file has what memory has. *)
LEMMA Settled ==
  ASSUME Durable, up, ~cut, todo = <<>>
  PROVE  Reloaded = balances
<1>1. Reloaded \o RecsOf(todo) = balances
  BY DEF Durable, FileKept
<1>2. Reloaded \in Seq(Records)
  BY ReloadedType DEF Durable
<1> QED
  BY <1>1, <1>2, RecsOfEmpty, ConcatEmptySeq

(* What is so between two handlers. *)
LEMMA Between ==
  ASSUME Durable, StraightKept, Straight, up, todo = <<>>
  PROVE  /\ Ordered(balances) /\ pending = {} /\ ended /\ ~cut
         /\ Upto(balances, meta.watermark) /\ Complete(balances, meta.watermark)
         /\ highest = -1 \/ highest <= meta.watermark
         /\ ~meta.started => balances = <<>>
         /\ meta.watermark \in -2 .. LastSlot /\ highest \in Int
<1>1. DOMAIN todo = {}
  OBVIOUS
<1>2. /\ Ordered(balances) /\ pending = {}
      /\ \E v \in -2 .. LastSlot :
            /\ Mark(v) /\ Upto(balances, v) /\ Complete(balances, v)
            /\ highest = -1 \/ highest <= v
      /\ ~meta.started /\ (\A j \in DOMAIN todo : todo[j].to # "started")
           => balances = <<>>
  BY DEF StraightKept
<1>3. PICK v \in -2 .. LastSlot : /\ Mark(v) /\ Upto(balances, v)
                                  /\ Complete(balances, v)
                                  /\ highest = -1 \/ highest <= v
  BY <1>2
<1>4. v = meta.watermark
  BY <1>1, <1>3 DEF Mark
<1>5. ended /\ ~cut
  BY DEF StraightKept, Straight
<1>6. meta.watermark \in -2 .. LastSlot /\ highest \in Int
  BY <1>4 DEF Durable, Typed
<1> QED
  BY <1>1, <1>2, <1>3, <1>4, <1>5, <1>6

(* processSlot keeps the order while slots come in turn. *)
LEMMA ProcessStraight ==
  ASSUME Durable, StraightKept, NEW s \in Slots, processSlot(s)
  PROVE  StraightKept'
<1>1. /\ Typed /\ Unstarted /\ up /\ todo = <<>>
      /\ chain' = chain /\ meta' = meta /\ ended' = ended /\ up' = up
      /\ cut' = cut /\ interrupted' = interrupted /\ pruned' = pruned
  BY DEF Durable, processSlot, disk
<1>2. /\ detours \in Nat /\ s \in Nat /\ meta.watermark \in Int
      /\ meta.watermark \in -2 .. LastSlot /\ LastSlot \in Nat /\ s <= LastSlot
  BY <1>1, ChainAssumption DEF Typed, Slots, Metas
<1>3. ~interrupted' => ended' /\ ~cut'
  BY <1>1 DEF StraightKept
<1> SUFFICES ASSUME Straight'
             PROVE  /\ Ordered(balances') /\ pending' = {}
                    /\ \E w \in -2 .. LastSlot :
                         /\ Mark(w)' /\ Upto(balances, w)' /\ Complete(balances, w)'
                         /\ highest' = -1 \/ highest' <= w
                    /\ meta'.started \/ \E j \in DOMAIN todo' : todo'[j].to = "started"
  BY <1>1, <1>3 DEF StraightKept
<1>4. CASE meta.started
  <2>1. /\ IngestSlot(s, meta.watermark, <<>>)
        /\ detours' = detours + (IF s = meta.watermark + 1 THEN 0 ELSE 1)
        /\ base' = base
    BY <1>4 DEF processSlot
  <2>2. s = meta.watermark + 1 /\ detours = 0
    BY <1>2, <2>1 DEF Straight
  <2>3. Straight
    BY <1>1, <2>2 DEF Straight
  <2>4. /\ Ordered(balances) /\ pending = {} /\ highest \in Int
        /\ Upto(balances, meta.watermark) /\ Complete(balances, meta.watermark)
        /\ highest = -1 \/ highest <= meta.watermark
    BY <1>1, <2>3, Between
  <2>5. highest <= s /\ meta.watermark < s /\ meta.watermark + 1 = s
    BY <1>2, <2>2, <2>4
  <2>6. <<>> \in Seq(Writes) /\ DOMAIN <<>> = {}
    OBVIOUS
  <2>7. PICK first \in Seq(Writes) : first = <<>>
    BY <2>6
  <2>8. /\ IngestSlot(s, meta.watermark, first)
        /\ \A j \in DOMAIN first : first[j].to \notin {"line", "log"}
        /\ \A j \in DOMAIN first : first[j].to = "watermark" => first[j].value < s
    BY <2>1, <2>6, <2>7
  <2>9. meta'.started \/ \E j \in DOMAIN first : first[j].to = "started"
    BY <1>1, <1>4
  <2>10. PICK from : from = meta.watermark
    OBVIOUS
  <2>11. /\ from \in -2 .. LastSlot /\ from \in Int /\ from + 1 = s /\ from < s
         /\ IngestSlot(s, from, first) /\ Upto(balances, from)
    BY <1>2, <2>4, <2>5, <2>8, <2>10
  <2>12. \A t \in Slots : base' < t /\ t < s => HasLater(balances, t)
    <3>1. \A t \in Slots : t < s => t <= meta.watermark
      BY <1>2, <2>2 DEF Slots
    <3> QED
      BY <2>1, <2>4, <3>1 DEF Complete
  <2> QED
    BY <1>1, <2>4, <2>5, <2>8, <2>9, <2>11, <2>12, IngestStraight
<1>5. CASE ~meta.started
  <2>1. /\ IngestSlot(s, s - 1, Baseline(s)) /\ detours' = detours /\ base' = s - 1
    BY <1>5 DEF processSlot, Baseline
  <2>2. Straight
    BY <1>1, <2>1 DEF Straight
  <2>3. balances = <<>> /\ pending = {}
    BY <1>1, <1>5, <2>2, Between
  <2>4. highest = -1
    <3>1. DOMAIN todo = {}
      BY <1>1
    <3> QED
      BY <1>1, <1>5, <3>1 DEF Unstarted
  <2>5. /\ Baseline(s) \in Seq(Writes) /\ DOMAIN Baseline(s) = 1 .. 3
        /\ \A j \in DOMAIN Baseline(s) : Baseline(s)[j].to \notin {"line", "log"}
        /\ \A j \in DOMAIN Baseline(s) : Baseline(s)[j].to = "watermark" =>
             j = 2 /\ Baseline(s)[j].value = s - 1
        /\ Baseline(s)[1].to = "started"
        /\ s - 1 \in -1 .. LastSlot
    BY BaselineIs
  <2>6. PICK first \in Seq(Writes) : first = Baseline(s)
    BY <2>5
  <2>7. PICK from : from = s - 1
    OBVIOUS
  <2>8. /\ from \in -2 .. LastSlot /\ from \in Int /\ from + 1 = s /\ from < s
    BY <1>2, <2>7
  <2>9. IngestSlot(s, from, first)
    BY <2>1, <2>6, <2>7
  <2>10. \A j \in DOMAIN first : first[j].to \notin {"line", "log"}
    BY <2>5, <2>6
  <2>11. \A j \in DOMAIN first : first[j].to = "watermark" => first[j].value < s
    BY <1>2, <2>5, <2>6
  <2>12. \E j \in DOMAIN first : first[j].to = "started"
    BY <2>5, <2>6
  <2>13. Ordered(balances) /\ Upto(balances, from) /\ highest <= s
    <3>1. DOMAIN balances = {}
      BY <2>3
    <3> QED
      BY <1>2, <2>4, <3>1 DEF Ordered, Upto
  <2>14. \A t \in Slots : base' < t /\ t < s => HasLater(balances, t)
    <3>1. \A t \in Slots : ~(s - 1 < t /\ t < s)
      BY <1>2 DEF Slots
    <3> QED
      BY <2>1, <3>1
  <2> QED
    BY <1>1, <2>3, <2>8, <2>9, <2>10, <2>11, <2>12, <2>13, <2>14, IngestStraight
<1> QED
  BY <1>4, <1>5

(* While slots come in turn there is no gap to fill. *)
LEMMA BackfillStraight ==
  ASSUME Durable, StraightKept, NEW s \in Slots, backfill(s)
  PROVE  StraightKept'
<1>1. /\ Typed /\ up /\ todo = <<>> /\ s \in Missing
      /\ ended' = ended /\ cut' = cut /\ interrupted' = interrupted
      /\ detours' = detours /\ up' = up
  BY DEF Durable, backfill, disk, faults
<1>2. ~interrupted' => ended' /\ ~cut'
  BY <1>1 DEF StraightKept
<1>3. ~Straight
  <2> SUFFICES ASSUME Straight
               PROVE  FALSE
    OBVIOUS
  <2>1. /\ highest = -1 \/ highest <= meta.watermark
        /\ meta.watermark \in -2 .. LastSlot /\ highest \in Int
    BY <1>1, Between
  <2>2. s \in Nat
    BY DEF Slots
  <2>3. s \in meta.watermark + 1 .. highest
    BY <1>1 DEF Missing
  <2> QED
    BY <2>1, <2>2, <2>3
<1>4. ~Straight'
  BY <1>1, <1>3 DEF Straight
<1> QED
  BY <1>1, <1>2, <1>4 DEF StraightKept

(* A write moves the watermark to where it was to be. *)
LEMMA FlushStraight ==
  ASSUME Durable, StraightKept, Flush
  PROVE  StraightKept'
<1> PICK w : w = Head(todo)
  OBVIOUS
<1>1. /\ Typed
      /\ chain' = chain /\ up' = up /\ balances' = balances
      /\ pending' = pending /\ highest' = highest
      /\ detours' = detours /\ interrupted' = interrupted
      /\ base' = base /\ pruned' = pruned
  BY DEF Durable, Flush, memory
<1>2. /\ w = todo[1] /\ todo # <<>> /\ up
      /\ todo' = Tail(todo) /\ todo' \in Seq(Writes)
      /\ w.to = "line" => ended' /\ (ended => (cut' => cut))
      /\ w.to = "log" => ended' /\ cut' = cut
      /\ w.to \notin {"line", "log"} => ended' = ended /\ cut' = cut
      /\ w.to = "started" => meta' = [meta EXCEPT !.started = TRUE]
      /\ w.to # "started" => meta'.started = meta.started
      /\ w.to = "watermark" => meta'.watermark = w.value
      /\ w.to # "watermark" => meta'.watermark = meta.watermark
  BY <1>1, FlushIs
<1>3. meta \in Metas /\ todo \in Seq(Writes)
  BY <1>1 DEF Typed
<1>4. /\ 1 \in DOMAIN todo
      /\ \A j \in DOMAIN todo' :
           j \in Nat /\ j + 1 \in DOMAIN todo /\ todo'[j] = todo[j + 1]
      /\ \A j \in DOMAIN todo : j # 1 =>
           j - 1 \in DOMAIN todo' /\ todo'[j - 1] = todo[j]
      /\ \A j \in DOMAIN todo : j \in Nat /\ j >= 1
  BY <1>2, <1>3, TailIs
<1>5. ~interrupted' => ended' /\ ~cut'
  <2> SUFFICES ASSUME ~interrupted
               PROVE  ended' /\ ~cut'
    BY <1>1
  <2>1. ended /\ ~cut
    BY DEF StraightKept
  <2>2. CASE w.to = "line"
    BY <1>2, <2>1, <2>2
  <2>3. CASE w.to = "log"
    <3>1. ended' /\ cut' = cut
      BY <1>2, <2>3
    <3> QED
      BY <2>1, <3>1
  <2>4. CASE w.to \notin {"line", "log"}
    <3>1. w.to \notin {"line", "log"} => ended' = ended /\ cut' = cut
      BY <1>2
    <3>2. ended' = ended /\ cut' = cut
      BY <2>4, <3>1
    <3> QED
      BY <2>1, <3>2
  <2> QED
    BY <2>2, <2>3, <2>4
<1> SUFFICES ASSUME Straight'
             PROVE  /\ Ordered(balances') /\ pending' = {}
                    /\ \E v \in -2 .. LastSlot :
                         /\ Mark(v)' /\ Upto(balances, v)' /\ Complete(balances, v)'
                         /\ highest' = -1 \/ highest' <= v
                    /\ ~meta'.started /\ (\A j \in DOMAIN todo' : todo'[j].to # "started")
                         => balances' = <<>>
  BY <1>1, <1>2, <1>5 DEF StraightKept
<1>6. Straight
  BY <1>1 DEF Straight
<1>7. /\ Ordered(balances) /\ pending = {}
      /\ \E v \in -2 .. LastSlot :
            /\ Mark(v) /\ Upto(balances, v) /\ Complete(balances, v)
            /\ highest = -1 \/ highest <= v
      /\ ~meta.started /\ (\A j \in DOMAIN todo : todo[j].to # "started")
           => balances = <<>>
  BY <1>2, <1>6 DEF StraightKept
<1>8. PICK v \in -2 .. LastSlot : /\ Mark(v) /\ Upto(balances, v)
                                  /\ Complete(balances, v)
                                  /\ highest = -1 \/ highest <= v
  BY <1>7
<1>9. Upto(balances, v)' /\ Complete(balances, v)'
  BY <1>1, <1>8 DEF Upto, Complete, HasLater
<1>10. Mark(v)'
  <2>1. CASE v = meta.watermark /\ \A j \in DOMAIN todo : todo[j].to # "watermark"
    <3>1. w.to # "watermark"
      BY <1>2, <1>4, <2>1
    <3>2. \A j \in DOMAIN todo' : todo'[j].to # "watermark"
      BY <1>4, <2>1
    <3> QED
      BY <1>2, <2>1, <3>1, <3>2 DEF Mark
  <2>2. ASSUME NEW j \in DOMAIN todo, todo[j].to = "watermark", todo[j].value = v,
               \A i \in DOMAIN todo : i > j => todo[i].to # "watermark"
        PROVE  Mark(v)'
    <3>1. CASE j = 1
      <4>1. meta'.watermark = v
        BY <1>2, <2>2, <3>1
      <4>2. \A i \in DOMAIN todo' : todo'[i].to # "watermark"
        <5> SUFFICES ASSUME NEW i \in DOMAIN todo'
                     PROVE  todo'[i].to # "watermark"
          OBVIOUS
        <5>1. i + 1 \in DOMAIN todo /\ i + 1 > 1 /\ todo'[i] = todo[i + 1]
          <6>1. i \in DOMAIN todo' /\ i >= 1
            BY <1>2
          <6> QED
            BY <1>4, <6>1
        <5> QED
          BY <2>2, <3>1, <5>1
      <4> QED
        BY <4>1, <4>2 DEF Mark
    <3>2. CASE j # 1
      <4>1. PICK k \in DOMAIN todo' : k = j - 1 /\ todo'[k] = todo[j]
        BY <1>4, <3>2
      <4>2. \A i \in DOMAIN todo' : i > k => todo'[i].to # "watermark"
        <5> SUFFICES ASSUME NEW i \in DOMAIN todo', i > k
                     PROVE  todo'[i].to # "watermark"
          OBVIOUS
        <5>1. i + 1 \in DOMAIN todo /\ i + 1 > j /\ todo'[i] = todo[i + 1]
          BY <1>4, <4>1
        <5> QED
          BY <2>2, <5>1
      <4> QED
        BY <2>2, <4>1, <4>2 DEF Mark
    <3> QED
      BY <3>1, <3>2
  <2> QED
    BY <1>8, <2>1, <2>2 DEF Mark
<1>11. ASSUME ~meta'.started, \A j \in DOMAIN todo' : todo'[j].to # "started"
       PROVE  balances' = <<>>
  <2>1. w.to # "started"
    BY <1>2, <1>3, <1>11 DEF Metas
  <2>2. ~meta.started
    BY <1>2, <1>11, <2>1
  <2>3. \A j \in DOMAIN todo : todo[j].to # "started"
    BY <1>2, <1>4, <1>11, <2>1
  <2> QED
    BY <1>1, <1>7, <2>2, <2>3
<1> QED
  BY <1>1, <1>7, <1>8, <1>9, <1>10, <1>11

(* A crash between two handlers leaves the file in order. *)
LEMMA CrashStraight ==
  ASSUME Durable, StraightKept, Crash
  PROVE  StraightKept'
<1>1. /\ up /\ up' = FALSE /\ chain' = chain /\ detours' = detours
      /\ interrupted' = (interrupted \/ todo # <<>>)
      /\ base' = base /\ pruned' = pruned
      /\ (todo # <<>> /\ TornWrite) \/ UNCHANGED <<disk, cut>>
  BY DEF Crash
<1>2. CASE interrupted'
  BY <1>1, <1>2 DEF StraightKept, Straight
<1>3. CASE ~interrupted'
  <2>1. todo = <<>> /\ ~interrupted /\ lines' = lines /\ ended' = ended /\ meta' = meta
        /\ cut' = cut
    BY <1>1, <1>3 DEF disk
  <2>2. ended' /\ ~cut'
    BY <2>1 DEF StraightKept
  <2> SUFFICES ASSUME Straight'
               PROVE  /\ Ordered(Reloaded)' /\ Upto(Reloaded, meta.watermark)'
                      /\ Complete(Reloaded, meta.watermark)'
                      /\ ~meta'.started => Reloaded' = <<>>
    BY <1>1, <2>2 DEF StraightKept
  <2>3. Straight
    BY <1>1, <2>1 DEF Straight
  <2>4. /\ Ordered(balances) /\ Upto(balances, meta.watermark)
        /\ Complete(balances, meta.watermark)
        /\ ~meta.started => balances = <<>>
    BY <1>1, <2>1, <2>3, Between
  <2>5. Reloaded = balances
    BY <1>1, <2>1, <2>2, Settled
  <2>6. Reloaded' = Reloaded
    BY <2>1 DEF Reloaded
  <2>7. Reloaded' = balances
    BY <2>5, <2>6
  <2>8. Ordered(Reloaded)'
    BY <2>4, <2>7 DEF Ordered
  <2>9. Upto(Reloaded, meta.watermark)'
    BY <1>1, <2>1, <2>4, <2>7 DEF Upto
  <2>10. Complete(Reloaded, meta.watermark)'
    BY <1>1, <2>1, <2>4, <2>7 DEF Complete, HasLater
  <2> QED
    BY <2>1, <2>4, <2>7, <2>8, <2>9, <2>10
<1> QED
  BY <1>2, <1>3

(* A restart takes the order over from the file. *)
LEMMA RestartStraight ==
  ASSUME Durable, StraightKept, Restart
  PROVE  StraightKept'
<1>1. /\ Typed /\ ~up
      /\ up' /\ chain' = chain /\ lines' = lines /\ ended' = ended /\ meta' = meta
      /\ balances' = Reloaded
      /\ pending' = {} /\ highest' = -1
      /\ detours' = detours /\ interrupted' = interrupted
      /\ cut' = cut /\ base' = base /\ pruned' = pruned
      /\ meta.watermark = Undefined => todo' = Fresh
      /\ meta.watermark # Undefined => todo' = <<>>
  BY RestartIs DEF Durable, Restart, faults
<1>2. ~interrupted' => ended' /\ ~cut'
  BY <1>1 DEF StraightKept
<1> SUFFICES ASSUME Straight'
             PROVE  /\ Ordered(balances)'
                    /\ \E v \in -2 .. LastSlot :
                         Mark(v)' /\ Upto(balances, v)' /\ Complete(balances, v)'
                    /\ ~meta'.started => balances' = <<>>
  BY <1>1, <1>2 DEF StraightKept
<1>3. Straight
  BY <1>1 DEF Straight
<1>4. /\ Ordered(Reloaded) /\ Upto(Reloaded, meta.watermark)
      /\ Complete(Reloaded, meta.watermark)
      /\ ~meta.started => Reloaded = <<>>
  BY <1>1, <1>3 DEF StraightKept
<1>5. Ordered(balances)'
  BY <1>1, <1>4 DEF Ordered
<1>6. PICK r : r = Reloaded
  OBVIOUS
<1>7. /\ \A v : Upto(r, v) => Upto(balances, v)'
      /\ \A v : Complete(r, v) => Complete(balances, v)'
  BY <1>1, <1>6 DEF Upto, Complete, HasLater
<1>8. meta.watermark \in -2 .. LastSlot /\ LastSlot \in Nat
  BY <1>1, ChainAssumption DEF Typed, Metas
<1>9. \E v \in -2 .. LastSlot : Mark(v)' /\ Upto(r, v) /\ Complete(r, v)
  <2>1. CASE meta.watermark = Undefined
    <3>1. /\ todo' = Fresh /\ DOMAIN Fresh = 1 .. 2
          /\ Fresh[1].to = "watermark" /\ Fresh[1].value = -1
          /\ Fresh[2].to = "watermarkTs"
      BY <1>1, <2>1, FreshIs
    <3>2. \A i \in DOMAIN todo' : i = 1 \/ i = 2
      BY <3>1
    <3>3. 1 \in DOMAIN todo' /\ \A i \in DOMAIN todo' : i > 1 => todo'[i].to # "watermark"
      BY <3>1, <3>2
    <3>4. Mark(-1)'
      BY <3>1, <3>3 DEF Mark
    <3>5. DOMAIN r = {}
      <4>1. Undefined \notin Slots
        BY DEF Undefined, Slots
      <4> QED
        BY <1>4, <1>6, <2>1, <4>1 DEF Upto
    <3>6. Upto(r, -1)
      BY <3>5 DEF Upto
    <3>7. Complete(r, -1)
      BY <1>1 DEF Complete, Slots, Typed
    <3> QED
      BY <1>8, <3>4, <3>6, <3>7
  <2>2. CASE meta.watermark # Undefined
    <3>1. DOMAIN todo' = {} /\ meta'.watermark = meta.watermark
      BY <1>1, <2>2
    <3>2. Mark(meta.watermark)'
      BY <3>1 DEF Mark
    <3>3. PICK v : v = meta.watermark /\ v = meta'.watermark
      BY <3>1
    <3>4. Mark(v)'
      BY <3>1, <3>3 DEF Mark
    <3>5. Upto(r, v) /\ Complete(r, v)
      BY <1>4, <1>6, <3>3
    <3> QED
      BY <1>8, <3>3, <3>4, <3>5
  <2> QED
    BY <2>1, <2>2
<1> QED
  BY <1>1, <1>4, <1>5, <1>7, <1>9

(* A prune keeps records in order. *)
LEMMA PruneStraight ==
  ASSUME Durable, StraightKept, NEW before \in Times, prune(before)
  PROVE  StraightKept'
<1> PICK kept : kept = Kept(balances, before)
  OBVIOUS
<1>1. /\ Typed /\ up /\ todo = <<>> /\ up' = up
      /\ balances' = kept /\ todo' = <<Rewrite(kept)>>
      /\ chain' = chain /\ ended' = ended /\ meta' = meta
      /\ pending' = pending /\ highest' = highest /\ detours' = detours
      /\ interrupted' = interrupted /\ cut' = cut
      /\ base' = base /\ before > pruned /\ pruned' = before
  BY DEF Durable, prune, disk
<1>2. ~interrupted' => ended' /\ ~cut'
  BY <1>1 DEF StraightKept
<1> SUFFICES ASSUME Straight'
             PROVE  /\ Ordered(balances)' /\ pending' = {}
                    /\ \E v \in -2 .. LastSlot :
                         /\ Mark(v)' /\ Upto(balances, v)' /\ Complete(balances, v)'
                         /\ highest' = -1 \/ highest' <= v
                    /\ ~meta'.started => balances' = <<>>
  BY <1>1, <1>2 DEF StraightKept
<1>3. Straight
  BY <1>1 DEF Straight
<1>4. /\ Ordered(balances) /\ pending = {}
      /\ Upto(balances, meta.watermark) /\ Complete(balances, meta.watermark)
      /\ highest = -1 \/ highest <= meta.watermark
      /\ ~meta.started => balances = <<>>
      /\ meta.watermark \in -2 .. LastSlot
  BY <1>1, <1>3, Between
<1>5. balances \in Seq(Records) /\ before \in Int
  BY <1>1 DEF Typed, Times
<1>6. /\ kept \in Seq(Records)
      /\ \A n \in DOMAIN kept : \E i \in DOMAIN balances : kept[n] = balances[i]
      /\ Ordered(kept)
      /\ \A i \in DOMAIN balances :
           \E n \in DOMAIN kept : Outlives(kept[n], balances[i], before)
  BY <1>4, <1>5, KeptIs
<1>7. DOMAIN todo' = {1} /\ todo'[1].to = "log"
  BY <1>1, <1>6, RewriteIs
<1>8. PICK v : v = meta.watermark
  OBVIOUS
<1>9. Mark(v)'
  BY <1>1, <1>7, <1>8 DEF Mark
<1>10. Upto(kept, v)
  BY <1>4, <1>6, <1>8 DEF Upto
<1>11. Upto(balances, v)'
  BY <1>1, <1>10 DEF Upto
<1>12. Ordered(balances)'
  BY <1>1, <1>6 DEF Ordered
<1>13. ~meta'.started => balances' = <<>>
  <2> SUFFICES ASSUME ~meta.started
               PROVE  kept = <<>>
    BY <1>1
  <2>1. DOMAIN balances = {}
    BY <1>4
  <2>2. DOMAIN kept = {}
    BY <1>6, <2>1
  <2> QED
    BY <1>6, <2>2
<1>14. ASSUME NEW s \in Slots, HasLater(balances, s)
       PROVE  HasLater(balances, s)'
  <2> SUFFICES ASSUME NEW i \in DOMAIN chain[s].txs, NEW w \in Wallets \ Pools,
                      Net(chain[s].txs[i], w) # 0
               PROVE  \E k \in DOMAIN kept :
                        /\ kept[k].wallet = w
                        /\ kept[k].seq >= s * SEQ_MULT + i
                        /\ kept[k].seq = s * SEQ_MULT + i \/ kept[k].ts < before
    BY <1>1 DEF HasLater
  <2>0. s * SEQ_MULT + i \in Int
    <3>1. s \in Nat /\ DOMAIN chain[s].txs = 1 .. Len(chain[s].txs)
          /\ Len(chain[s].txs) \in Nat
      BY <1>1, BlockIs DEF Typed
    <3>2. s * SEQ_MULT \in Int
      BY <3>1 DEF SEQ_MULT
    <3>3. i \in Int
      BY <3>1
    <3> QED
      BY <3>2, <3>3
  <2> PICK x \in Int : x = s * SEQ_MULT + i
    BY <2>0
  <2>1. PICK k \in DOMAIN balances : /\ balances[k].wallet = w
                                     /\ balances[k].seq >= x
                                     /\ balances[k].seq = x \/ balances[k].ts < pruned
    BY <1>14 DEF HasLater
  <2>2. PICK n \in DOMAIN kept : Outlives(kept[n], balances[k], before)
    BY <1>6
  <2>3. /\ balances[k].seq \in Nat /\ balances[k].ts \in Nat
        /\ kept[n].seq \in Nat /\ kept[n].ts \in Nat /\ pruned \in Nat
    <3>1. balances[k] \in Records /\ kept[n] \in Records
      BY <1>5, <1>6, ElementOfSeq
    <3> QED
      BY <1>1, <3>1 DEF Records, Times, Typed
  <2>4. /\ kept[n].wallet = w /\ kept[n].seq >= x
        /\ kept[n].seq = x \/ kept[n].ts < before
    BY <1>1, <1>5, <2>1, <2>2, <2>3 DEF Outlives
  <2> QED
    BY <2>4
<1>15. Complete(balances, v)'
  BY <1>1, <1>4, <1>8, <1>14 DEF Complete
<1> QED
  BY <1>1, <1>4, <1>8, <1>9, <1>11, <1>12, <1>13, <1>15

(* Steps that touch no record. *)
LEMMA OtherStraight ==
  ASSUME Durable, StraightKept, trackCoin \/ UNCHANGED vars
  PROVE  StraightKept'
<1>1. /\ chain' = chain /\ lines' = lines /\ ended' = ended /\ meta' = meta /\ up' = up
      /\ balances' = balances /\ pending' = pending
      /\ highest' = highest /\ todo' = todo /\ detours' = detours
      /\ interrupted' = interrupted /\ cut' = cut
      /\ base' = base /\ pruned' = pruned
  BY DEF trackCoin, vars, disk, memory, faults
<1> QED
  BY <1>1 DEF StraightKept, Straight, Reloaded, Ordered, Upto, Complete, HasLater, Mark

(* The empty store is in order. *)
LEMMA InitStraight == Init => StraightKept /\ LatestKept
<1> SUFFICES ASSUME Init
             PROVE  StraightKept /\ LatestKept
  OBVIOUS
<1>1. Reloaded = <<>>
  BY FlattenEmpty DEF Init, Reloaded
<1>2. PICK r : r = Reloaded /\ r = <<>>
  BY <1>1
<1>3. DOMAIN r = {}
  BY <1>2
<1>4. Ordered(r) /\ Upto(r, meta.watermark)
  BY <1>3 DEF Ordered, Upto
<1>5. Complete(r, meta.watermark)
  BY DEF Init, Complete, Slots, NoMeta, Undefined
<1> QED
  BY <1>2, <1>4, <1>5 DEF Init, StraightKept, LatestKept

(* StraightKept is inductive relative to Durable. *)
LEMMA NextStraight == Durable /\ StraightKept /\ [Next]_vars => StraightKept'
<1> SUFFICES ASSUME Durable, StraightKept, [Next]_vars
             PROVE  StraightKept'
  OBVIOUS
<1>1. ASSUME NEW s \in Slots, processSlot(s)
      PROVE  StraightKept'
  BY <1>1, ProcessStraight
<1>2. ASSUME NEW s \in Slots, backfill(s)
      PROVE  StraightKept'
  BY <1>2, BackfillStraight
<1>3. CASE trackCoin \/ UNCHANGED vars
  BY <1>3, OtherStraight
<1>4. ASSUME NEW t \in Times, prune(t)
      PROVE  StraightKept'
  BY <1>4, PruneStraight
<1>5. CASE Flush
  BY <1>5, FlushStraight
<1>6. CASE Crash
  BY <1>6, CrashStraight
<1>7. CASE Restart
  BY <1>7, RestartStraight
<1> QED
  BY <1>1, <1>2, <1>3, <1>4, <1>5, <1>6, <1>7 DEF Next

(* The latest balances in memory follow the records in memory. *)
LEMMA IngestLatest ==
  ASSUME Typed, NEW s \in Slots, NEW from, NEW first,
         IngestSlot(s, from, first), LatestOf(balances) = latest
  PROVE  LatestOf(balances') = latest'
<1> PICK after : after = BalancesAfter(s)
  OBVIOUS
<1> PICK recs : recs = RecordsOf(s, after)
  OBVIOUS
<1>1. /\ balances' = balances \o recs
      /\ latest' = after[Len(chain[s].txs)]
  BY DEF IngestSlot
<1>2. Recorded(s, after, Len(chain[s].txs), recs)
  BY RecordsIs DEF Typed
<1>3. \A old \in Seq(Records) :
        LatestOf(old) = latest => LatestOf(old \o recs) = after[Len(chain[s].txs)]
  BY <1>2 DEF Recorded
<1>4. balances \in Seq(Records)
  BY DEF Typed
<1> QED
  BY <1>1, <1>3, <1>4

(* What a handler of a slot does besides, and leaves alone. *)
LEMMA IngestStep ==
  ASSUME Typed, NEW s \in Slots, processSlot(s) \/ backfill(s)
  PROVE  /\ up /\ up' /\ todo = <<>> /\ chain' = chain /\ Reloaded' = Reloaded
         /\ cut' = cut /\ pruned' = pruned /\ interrupted' = interrupted
         /\ detours' \in {detours, detours + 1}
         /\ \E from, first : IngestSlot(s, from, first)
<1>1. CASE processSlot(s)
  <2>1. /\ up /\ up' /\ todo = <<>> /\ chain' = chain /\ Reloaded' = Reloaded
        /\ cut' = cut /\ pruned' = pruned /\ interrupted' = interrupted
    BY <1>1 DEF processSlot, disk, Reloaded
  <2>2. CASE meta.started
    <3>1. /\ IngestSlot(s, meta.watermark, <<>>)
          /\ detours' = detours + (IF s = meta.watermark + 1 THEN 0 ELSE 1)
      BY <1>1, <2>2 DEF processSlot
    <3>2. detours' \in {detours, detours + 1}
      BY <3>1 DEF Typed
    <3> QED
      BY <2>1, <3>1, <3>2
  <2>3. CASE ~meta.started
    <3>1. IngestSlot(s, s - 1, Baseline(s)) /\ detours' = detours
      BY <1>1, <2>3 DEF processSlot, Baseline
    <3> QED
      BY <2>1, <3>1
  <2> QED
    BY <2>2, <2>3
<1>2. CASE backfill(s)
  BY <1>2 DEF backfill, disk, faults, Reloaded
<1> QED
  BY <1>1, <1>2

(* LatestKept is inductive relative to both. *)
LEMMA NextLatest == Reproducible /\ [Next]_vars => LatestKept'
<1> SUFFICES ASSUME Reproducible, [Next]_vars,
                    up', pruned' = 0 \/ Straight'
             PROVE  LatestOf(balances)' = latest'
  BY DEF LatestKept
<1>1. Durable /\ StraightKept /\ LatestKept /\ Typed
  BY DEF Reproducible, Durable
<1>2. detours \in Nat /\ pruned \in Times
  BY <1>1 DEF Typed
<1>3. \A r : r = balances' => LatestOf(r) = LatestOf(balances)'
  BY DEF LatestOf
<1>4. ASSUME NEW s \in Slots, processSlot(s) \/ backfill(s)
      PROVE  LatestOf(balances') = latest'
  <2>1. /\ up /\ cut' = cut /\ pruned' = pruned /\ interrupted' = interrupted
        /\ detours' \in {detours, detours + 1}
        /\ \E from, first : IngestSlot(s, from, first)
    BY <1>1, <1>4, IngestStep
  <2>2. pruned = 0 \/ Straight
    BY <1>2, <2>1 DEF Straight
  <2>3. LatestOf(balances) = latest
    BY <1>1, <2>1, <2>2 DEF LatestKept
  <2> QED
    BY <1>1, <2>1, <2>3, IngestLatest
<1>5. CASE trackCoin \/ UNCHANGED vars
  <2>1. /\ up' = up /\ balances' = balances /\ latest' = latest
        /\ cut' = cut /\ pruned' = pruned /\ interrupted' = interrupted
        /\ detours' = detours
    BY <1>5 DEF trackCoin, vars, memory, faults
  <2> QED
    BY <1>1, <2>1 DEF LatestKept, Straight
<1>6. ASSUME NEW before \in Times, prune(before)
      PROVE  LatestOf(balances') = latest'
  <2>1. /\ up /\ todo = <<>> /\ before > pruned /\ pruned' = before
        /\ balances' = Kept(balances, before) /\ latest' = latest
        /\ detours' = detours /\ interrupted' = interrupted /\ cut' = cut
    BY <1>6 DEF prune
  <2>2. before # 0
    BY <1>2, <2>1 DEF Times
  <2>3. Straight
    BY <2>1, <2>2 DEF Straight
  <2>4. Ordered(balances) /\ balances \in Seq(Records) /\ before \in Int
    BY <1>1, <2>1, <2>3, Between DEF Typed, Times
  <2>5. LatestOf(Kept(balances, before)) = LatestOf(balances)
    BY <2>4, KeptIs
  <2>6. LatestOf(balances) = latest
    BY <1>1, <2>1, <2>3 DEF LatestKept
  <2> QED
    BY <2>1, <2>5, <2>6
<1>7. CASE Flush
  <2>1. /\ up' = up /\ balances' = balances /\ latest' = latest
        /\ pruned' = pruned /\ interrupted' = interrupted
        /\ detours' = detours
    BY <1>7 DEF Flush, memory
  <2> QED
    BY <1>1, <2>1 DEF LatestKept, Straight
<1>8. CASE Crash
  BY <1>8 DEF Crash
<1>9. CASE Restart
  <2>1. balances' = Reloaded /\ latest' = LatestOf(Reloaded)
    BY <1>1, <1>9, RestartIs
  <2> QED
    BY <2>1
<1> QED
  BY <1>3, <1>4, <1>5, <1>6, <1>7, <1>8, <1>9 DEF Next

(* What a handler of a slot adds to memory is what it has still to write. *)
LEMMA IngestMade ==
  ASSUME Typed, NEW s \in Slots, processSlot(s) \/ backfill(s)
  PROVE  /\ \A j \in DOMAIN todo' : todo'[j].to = "line" => Len(todo'[j].recs) <= 1
         /\ \A j \in DOMAIN todo' : todo'[j].to # "log"
         /\ \E recs \in Seq(Records) : /\ balances' = balances \o recs
                                       /\ RecsOf(todo') = recs
<1>1. meta.watermark \in -2 .. LastSlot /\ s - 1 \in -2 .. LastSlot
  <2>1. s \in Nat /\ s <= LastSlot /\ LastSlot \in Nat
    BY ChainAssumption DEF Slots
  <2> QED
    BY <2>1 DEF Typed, Metas
<1>2. <<>> \in Seq(Writes) /\ DOMAIN <<>> = {}
  OBVIOUS
<1>3. /\ Baseline(s) \in Seq(Writes)
      /\ \A j \in DOMAIN Baseline(s) : Baseline(s)[j].to \notin {"line", "log"}
  BY BaselineIs
<1>4. \E from \in -2 .. LastSlot, first \in Seq(Writes) :
        /\ \A j \in DOMAIN first : first[j].to \notin {"line", "log"}
        /\ IngestSlot(s, from, first)
  <2>1. CASE IngestSlot(s, meta.watermark, <<>>)
    BY <1>1, <1>2, <2>1
  <2>2. CASE IngestSlot(s, s - 1, Baseline(s))
    BY <1>1, <1>3, <2>2
  <2> QED
    BY <2>1, <2>2 DEF processSlot, backfill, Baseline
<1>5. PICK from \in -2 .. LastSlot, first \in Seq(Writes) :
        /\ \A j \in DOMAIN first : first[j].to \notin {"line", "log"}
        /\ IngestSlot(s, from, first)
  BY <1>4
<1> PICK recs : recs = RecordsOf(s, BalancesAfter(s))
  OBVIOUS
<1> PICK wm : wm = Advanced(from, pending \cup {s})
  OBVIOUS
<1>6. Ingested(s, from, first, recs, wm)
  BY <1>5, IngestIs
<1> QED
  BY <1>6 DEF Ingested

(* A line of the file, and a line still to be written, has a record at     *)
(* most.                                                                   *)
OneEach ==
  /\ \A j \in DOMAIN lines : Len(lines[j]) <= 1
  /\ \A j \in DOMAIN todo : todo[j].to = "line" => Len(todo[j].recs) <= 1

(* Memory is p, lost and q, one after the other; the file, with what is    *)
(* still to be written, is p and q.                                        *)
Trailing(held, file, p, lost, q) ==
  /\ held = p \o (lost \o q)
  /\ file = p \o q
  /\ Len(lost) <= 2
  /\ lost # <<>> => ended /\ cut

(* The file has what memory has, but for the two lines that met at a torn  *)
(* newline; while the newline is missing, no line has met another.         *)
Trails ==
  /\ ~ended => lines # <<>>
  /\ up =>
       \/ todo = <<Rewrite(balances)>>
       \/ /\ \A j \in DOMAIN todo : todo[j].to # "log"
          /\ \E p, lost, q \in Seq(Records) :
               Trailing(balances, Reloaded \o RecsOf(todo), p, lost, q)

(* A line added to a torn one takes it along. *)
LEMMA TornLine ==
  ASSUME Typed, OneEach, ~ended, lines # <<>>, NEW x \in Seq(Records)
  PROVE  /\ WithLine(x) # <<>>
         /\ \A j \in DOMAIN WithLine(x) : Len(WithLine(x)[j]) <= 1
         /\ FlattenSeq(WithLine(x)) \in Seq(Records)
         /\ \E r \in Seq(Records) : /\ Len(r) <= 1
                                    /\ Reloaded = FlattenSeq(WithLine(x)) \o r
<1>1. lines \in Seq(Seq(Records))
  BY DEF Typed
<1>2. PICK n \in Nat : Len(lines) = n + 1
  <2>1. Len(lines) \in Nat /\ Len(lines) # 0
    BY <1>1, EmptySeq
  <2>2. Len(lines) - 1 \in Nat /\ Len(lines) = (Len(lines) - 1) + 1
    BY <2>1
  <2> QED
    BY <2>2
<1>3. PICK f \in Seq(Seq(Records)), r \in Seq(Records) :
        lines = Append(f, r) /\ Len(f) = n
  BY <1>1, <1>2, Shorter
<1>4. /\ \A j \in 1 .. n : lines[j] = f[j]
      /\ lines[n + 1] = r /\ DOMAIN lines = 1 .. n + 1
  BY <1>3, AppendProperties
<1>5. Front(lines) = f
  <2>1. Front(lines) = SubSeq(lines, 1, n)
    BY <1>2 DEF Front
  <2>2. \A i \in 1 .. n : lines[i] \in Seq(Records)
    BY <1>1, <1>2
  <2>3. /\ SubSeq(lines, 1, n) \in Seq(Seq(Records))
        /\ Len(SubSeq(lines, 1, n)) = n
        /\ \A i \in 1 .. n : SubSeq(lines, 1, n)[i] = lines[i]
    BY <2>2, SubSeqProperties
  <2> QED
    BY <1>3, <1>4, <2>1, <2>3, SeqEqual
<1>6. WithLine(x) = Append(f, <<>>) /\ <<>> \in Seq(Records) /\ Len(<<>>) = 0
  BY <1>5 DEF WithLine
<1>7. /\ \A j \in 1 .. n : Append(f, <<>>)[j] = f[j]
      /\ Append(f, <<>>)[n + 1] = <<>>
      /\ Len(Append(f, <<>>)) = n + 1 /\ DOMAIN Append(f, <<>>) = 1 .. n + 1
  BY <1>3, <1>6, AppendProperties
<1>8. \A j \in DOMAIN WithLine(x) : Len(WithLine(x)[j]) <= 1
  <2> SUFFICES ASSUME NEW j \in 1 .. n + 1
               PROVE  Len(Append(f, <<>>)[j]) <= 1
    BY <1>6, <1>7
  <2>1. CASE j = n + 1
    BY <1>6, <1>7, <2>1
  <2>2. CASE j # n + 1
    <3>1. j \in 1 .. n /\ j \in DOMAIN lines
      BY <1>4, <2>2
    <3> QED
      BY <1>4, <1>7, <3>1 DEF OneEach
  <2> QED
    BY <2>1, <2>2
<1>9. FlattenSeq(WithLine(x)) = FlattenSeq(f) /\ FlattenSeq(f) \in Seq(Records)
  <2>1. FlattenSeq(f) \in Seq(Records)
    BY FlattenType
  <2>2. FlattenSeq(Append(f, <<>>)) = FlattenSeq(f) \o <<>>
    BY <1>6, FlattenLast
  <2> QED
    BY <1>6, <2>1, <2>2, ConcatEmptySeq
<1>10. Reloaded = FlattenSeq(f) \o r /\ Len(r) <= 1
  <2>1. n + 1 \in DOMAIN lines
    BY <1>4
  <2> QED
    BY <1>3, <1>4, <2>1, FlattenLast DEF Reloaded, OneEach
<1>11. WithLine(x) # <<>>
  BY <1>6, <1>7
<1> QED
  BY <1>8, <1>9, <1>10, <1>11

(* A line added to a whole file keeps lines short. *)
LEMMA WholeLine ==
  ASSUME Typed, OneEach, ended, NEW x \in Seq(Records), Len(x) <= 1
  PROVE  /\ WithLine(x) # <<>>
         /\ \A j \in DOMAIN WithLine(x) : Len(WithLine(x)[j]) <= 1
<1>1. lines \in Seq(Seq(Records)) /\ WithLine(x) = Append(lines, x)
  BY DEF Typed, WithLine
<1>2. /\ \A j \in 1 .. Len(lines) : Append(lines, x)[j] = lines[j]
      /\ Append(lines, x)[Len(lines) + 1] = x
      /\ DOMAIN Append(lines, x) = 1 .. Len(lines) + 1
      /\ Len(lines) \in Nat /\ DOMAIN lines = 1 .. Len(lines)
  BY <1>1, AppendProperties
<1>3. ASSUME NEW j \in 1 .. Len(lines) + 1
      PROVE  Len(Append(lines, x)[j]) <= 1
  <2>1. CASE j = Len(lines) + 1
    BY <1>2, <2>1
  <2>2. CASE j # Len(lines) + 1
    <3>1. j \in DOMAIN lines
      BY <1>2, <2>2
    <3> QED
      BY <1>2, <3>1 DEF OneEach
  <2> QED
    BY <2>1, <2>2
<1> QED
  BY <1>1, <1>2, <1>3

(* Lines stay short. *)
LEMMA NextOneEach == Typed /\ OneEach /\ Trails /\ [Next]_vars => OneEach'
<1> SUFFICES ASSUME Typed, OneEach, Trails, [Next]_vars
             PROVE  OneEach'
  OBVIOUS
<1>1. ASSUME NEW s \in Slots, processSlot(s) \/ backfill(s)
      PROVE  OneEach'
  <2>1. lines' = lines
    BY <1>1 DEF processSlot, backfill, disk
  <2>2. \A j \in DOMAIN todo' : todo'[j].to = "line" => Len(todo'[j].recs) <= 1
    BY <1>1, IngestMade DEF Ingested
  <2> QED
    BY <2>1, <2>2 DEF OneEach
<1>2. CASE trackCoin \/ UNCHANGED vars
  <2>1. lines' = lines /\ todo' = todo
    BY <1>2 DEF trackCoin, vars, disk
  <2> QED
    BY <2>1 DEF OneEach
<1>3. ASSUME NEW before \in Times, prune(before)
      PROVE  OneEach'
  <2> PICK r : r = Rewrite(Kept(balances, before))
    OBVIOUS
  <2>1. lines' = lines /\ todo' = <<r>> /\ r.to = "log"
    BY <1>3 DEF prune, disk, Rewrite
  <2>2. \A j \in DOMAIN todo' : todo'[j].to = "log"
    BY <2>1
  <2> QED
    BY <2>1, <2>2 DEF OneEach
<1>4. ASSUME NEW w \in Writes, w = Head(todo), todo # <<>>,
             \/ lines' = lines
             \/ w.to = "line" /\ \E x \in {<<>>, w.recs} : lines' = WithLine(x)
             \/ \E n \in Int : lines' = [i \in 1 .. n |-> <<w.recs[i]>>]
      PROVE  \A j \in DOMAIN lines' : Len(lines'[j]) <= 1
  <2>1. CASE lines' = lines
    BY <2>1 DEF OneEach
  <2>2. CASE w.to = "line" /\ \E x \in {<<>>, w.recs} : lines' = WithLine(x)
    <3>1. PICK x \in {<<>>, w.recs} : lines' = WithLine(x)
      BY <2>2
    <3>2. todo \in Seq(Writes)
      BY DEF Typed
    <3>3. 1 \in DOMAIN todo /\ w = todo[1] /\ w.recs \in Seq(Records)
      BY <1>4, <3>2, TailIs, WriteIs
    <3>4. Len(w.recs) <= 1
      BY <2>2, <3>3 DEF OneEach
    <3>5. x \in Seq(Records) /\ Len(x) <= 1
      <4>1. CASE x = <<>>
        BY <4>1
      <4>2. CASE x = w.recs
        BY <3>3, <3>4, <4>2
      <4> QED
        BY <3>1, <4>1, <4>2
    <3>6. ~ended => lines # <<>>
      BY DEF Trails
    <3>7. CASE ended
      BY <3>1, <3>5, <3>7, WholeLine
    <3>8. CASE ~ended
      BY <3>1, <3>5, <3>6, <3>8, TornLine
    <3> QED
      BY <3>7, <3>8
  <2>3. CASE \E n \in Int : lines' = [i \in 1 .. n |-> <<w.recs[i]>>]
    <3>1. PICK n \in Int : lines' = [i \in 1 .. n |-> <<w.recs[i]>>]
      BY <2>3
    <3>2. \A y : Len(<<y>>) = 1
      OBVIOUS
    <3> QED
      BY <3>1, <3>2
  <2> QED
    BY <1>4, <2>1, <2>2, <2>3
<1>5. ASSUME todo # <<>>
      PROVE  \A w : w = Head(todo) => w \in Writes /\ w.recs \in Seq(Records)
  <2>1. \A w : w = Head(todo) => w \in Writes
    BY <1>5 DEF Typed
  <2> QED
    BY <2>1, WriteIs
<1>6. CASE Flush
  <2> PICK w : w = Head(todo)
    OBVIOUS
  <2>1. todo # <<>> /\ todo' = Tail(todo) /\ todo \in Seq(Writes)
    BY <1>6 DEF Flush, Typed
  <2>2. \A j \in DOMAIN todo' : j + 1 \in DOMAIN todo /\ todo'[j] = todo[j + 1]
    BY <2>1, TailIs
  <2>3. \A j \in DOMAIN todo' : todo'[j].to = "line" => Len(todo'[j].recs) <= 1
    BY <2>2 DEF OneEach
  <2>4. /\ w.to = "line" => lines' = WithLine(w.recs)
        /\ w.to = "log" => lines' = [i \in DOMAIN w.recs |-> <<w.recs[i]>>]
        /\ w.to \notin {"line", "log"} => lines' = lines
    <3>1. w.to \in {"line", "log", "started", "watermark", "watermarkTs"}
      BY <1>5, <2>1, WriteIs
    <3> QED
      BY <1>6, <3>1 DEF Flush
  <2>5. w \in Writes /\ DOMAIN w.recs = 1 .. Len(w.recs) /\ Len(w.recs) \in Int
    <3>1. w.recs \in Seq(Records) /\ w \in Writes
      BY <1>5, <2>1
    <3> QED
      BY <3>1
  <2>6. \A j \in DOMAIN lines' : Len(lines'[j]) <= 1
    BY <1>4, <2>1, <2>4, <2>5
  <2> QED
    BY <2>3, <2>6 DEF OneEach
<1>7. CASE Crash
  <2> PICK w : w = Head(todo)
    OBVIOUS
  <2>1. todo' = <<>> /\ (lines' = lines \/ (todo # <<>> /\ TornWrite))
    BY <1>7 DEF Crash, disk
  <2>2. CASE todo # <<>> /\ TornWrite
    <3>1. w \in Writes /\ w.recs \in Seq(Records)
      BY <1>5, <2>2
    <3>2. Len(w.recs) - 1 \in Int
      BY <3>1
    <3>3. \/ lines' = lines
          \/ w.to = "line" /\ \E x \in {<<>>, w.recs} : lines' = WithLine(x)
          \/ \E n \in 0 .. Len(w.recs) - 1 : lines' = [i \in 1 .. n |-> <<w.recs[i]>>]
      BY <2>2 DEF TornWrite
    <3>4. \A j \in DOMAIN lines' : Len(lines'[j]) <= 1
      <4>1. \A n \in 0 .. Len(w.recs) - 1 : n \in Int
        BY <3>2
      <4> QED
        BY <1>4, <2>2, <3>1, <3>3, <4>1
    <3>5. DOMAIN todo' = {}
      BY <2>1
    <3> QED
      BY <3>4, <3>5 DEF OneEach
  <2>3. CASE lines' = lines
    <3>1. DOMAIN todo' = {}
      BY <2>1
    <3> QED
      BY <2>3, <3>1 DEF OneEach
  <2> QED
    BY <2>1, <2>2, <2>3
<1>8. CASE Restart
  <2>1. lines' = lines /\ \A j \in DOMAIN todo' : todo'[j].to \in {"watermark", "watermarkTs"}
    BY <1>8, RestartIs
  <2> QED
    BY <2>1 DEF OneEach
<1> QED
  BY <1>1, <1>2, <1>3, <1>6, <1>7, <1>8 DEF Next

(* The order in which records are put together does not matter. *)
LEMMA RecsAssociate ==
  ASSUME NEW x \in Seq(Records), NEW y \in Seq(Records), NEW z \in Seq(Records)
  PROVE  (x \o y) \o z = x \o (y \o z)
BY ConcatAssociative

(* No records are records. *)
LEMMA NoRecs ==
  /\ <<>> \in Seq(Records)
  /\ Len(<<>>) = 0
  /\ \A x \in Seq(Records) : x \o <<>> = x /\ <<>> \o x = x
<1>1. \A x \in Seq(Records) : x \o <<>> = x /\ <<>> \o x = x
  BY ConcatEmptySeq
<1>2. <<>> \in Seq(Records) /\ Len(<<>>) = 0
  BY EmptySeq
<1> QED
  BY <1>1, <1>2

(* More at the end of memory and of what is to be written. *)
LEMMA TrailsMore ==
  ASSUME NEW held, NEW file, NEW p \in Seq(Records), NEW lost \in Seq(Records),
         NEW q \in Seq(Records), NEW r \in Seq(Records),
         Trailing(held, file, p, lost, q)
  PROVE  Trailing(held \o r, file \o r, p, lost, q \o r)
<1>2. lost \o q \in Seq(Records)
  BY ConcatProperties
<1>3. (p \o (lost \o q)) \o r = p \o ((lost \o q) \o r)
  BY <1>2, RecsAssociate
<1>4. (lost \o q) \o r = lost \o (q \o r) /\ (p \o q) \o r = p \o (q \o r)
  BY RecsAssociate
<1> QED
  BY <1>3, <1>4 DEF Trailing

(* Nothing lost. *)
LEMMA TrailsWhole ==
  ASSUME NEW held \in Seq(Records)
  PROVE  /\ \E p, lost, q \in Seq(Records) : Trailing(held, held, p, lost, q)
         /\ \E p, lost, q \in Seq(Records) :
              /\ held = p \o (lost \o q) /\ held = p \o q
              /\ Len(lost) <= 2 /\ lost = <<>>
<1>1. /\ <<>> \in Seq(Records)
      /\ Len(<<>>) <= 2
      /\ <<>> \o <<>> = <<>>
      /\ held = held \o <<>>
  BY NoRecs
<1>2. Trailing(held, held, held, <<>>, <<>>)
  BY <1>1 DEF Trailing
<1> QED
  BY <1>1, <1>2

(* A write keeps memory's records, but for the two that meet. *)
LEMMA FlushTrails ==
  ASSUME Typed, OneEach, Trails, Flush
  PROVE  Trails'
<1> PICK w : w = Head(todo)
  OBVIOUS
<1>1. /\ up /\ up' /\ balances' = balances /\ balances \in Seq(Records)
      /\ todo \in Seq(Writes) /\ Reloaded \in Seq(Records)
      /\ lines \in Seq(Seq(Records))
  BY ReloadedType DEF Flush, memory, Typed
<1>2. /\ w \in Writes /\ w = todo[1] /\ todo # <<>>
      /\ todo' = Tail(todo) /\ todo' \in Seq(Writes)
      /\ RecsOf(todo) = w.recs \o RecsOf(todo')
  BY FlushIs
<1>3. /\ w.to = "log" => ended' /\ cut' = cut /\ Reloaded' = w.recs
      /\ w.to \notin {"line", "log"} =>
           lines' = lines /\ ended' = ended /\ cut' = cut /\ Reloaded' = Reloaded
  BY FlushIs
<1>4. w.to = "line" => lines' = WithLine(w.recs) /\ ended' = TRUE /\ cut' = (cut \/ ~ended)
  BY DEF Flush
<1>5. /\ w.recs \in Seq(Records) /\ RecsOf(todo') \in Seq(Records)
      /\ w.to \in {"line", "log", "started", "watermark", "watermarkTs"}
      /\ w.to \notin {"line", "log"} => w.recs = <<>>
  BY <1>2, WriteIs, RecsOfType
<1>6. /\ 1 \in DOMAIN todo
      /\ \A j \in DOMAIN todo' : j + 1 \in DOMAIN todo /\ todo'[j] = todo[j + 1]
  BY <1>1, <1>2, TailIs
<1>7. ~ended => lines # <<>>
  BY DEF Trails
<1>8. ~ended' => lines' # <<>>
  BY <1>3, <1>4, <1>5, <1>7
<1>9. ASSUME \A j \in DOMAIN todo : todo[j].to # "log"
      PROVE  \A j \in DOMAIN todo' : todo'[j].to # "log"
  BY <1>6, <1>9
<1>10. CASE todo = <<Rewrite(balances)>>
  <2>1. w = Rewrite(balances) /\ todo' = <<>>
    BY <1>2, <1>10
  <2>2. Reloaded' = balances
    BY <1>3, <2>1 DEF Rewrite
  <2>3. RecsOf(todo') = <<>> /\ DOMAIN todo' = {}
    BY <2>1, RecsOfEmpty
  <2>4. Reloaded' \o RecsOf(todo') = balances'
    BY <1>1, <2>2, <2>3, ConcatEmptySeq
  <2>5. \E p, lost, q \in Seq(Records) :
          /\ balances = p \o (lost \o q) /\ balances = p \o q
          /\ Len(lost) <= 2 /\ lost = <<>>
    BY <1>1, TrailsWhole
  <2>6. \E p, lost, q \in Seq(Records) :
          Trailing(balances, Reloaded \o RecsOf(todo), p, lost, q)'
    BY <1>1, <2>4, <2>5 DEF Trailing
  <2> QED
    BY <1>8, <2>3, <2>6 DEF Trails
<1>11. CASE todo # <<Rewrite(balances)>>
  <2>1. /\ \A j \in DOMAIN todo : todo[j].to # "log"
        /\ \E p, lost, q \in Seq(Records) :
             Trailing(balances, Reloaded \o RecsOf(todo), p, lost, q)
    BY <1>1, <1>11 DEF Trails
  <2>2. w.to # "log"
    BY <1>2, <1>6, <2>1
  <2>3. \A x, y, z \in Seq(Records) : (x \o y) \o z = x \o (y \o z)
    BY RecsAssociate
  <2>4. CASE w.to # "line" \/ ended
    <3>1. Reloaded' = Reloaded \o w.recs
      <4>1. CASE w.to = "line"
        <5>1. FlattenSeq(WithLine(w.recs)) = Reloaded \o w.recs
          BY <1>1, <1>5, <2>4, <4>1, WithLineIs
        <5> QED
          BY <1>4, <4>1, <5>1 DEF Reloaded
      <4>2. CASE w.to # "line"
        BY <1>1, <1>3, <1>5, <2>2, <4>2, ConcatEmptySeq
      <4> QED
        BY <4>1, <4>2
    <3>2. Reloaded' \o RecsOf(todo') = Reloaded \o RecsOf(todo)
      <4>1. (Reloaded \o w.recs) \o RecsOf(todo') = Reloaded \o (w.recs \o RecsOf(todo'))
        BY <1>1, <1>5, RecsAssociate
      <4>2. Reloaded' \o RecsOf(todo') = (Reloaded \o w.recs) \o RecsOf(todo')
        BY <3>1
      <4>3. PICK b : b = RecsOf(todo)
        OBVIOUS
      <4>4. w.recs \o RecsOf(todo') = b
        BY <1>2, <4>3
      <4>5. Reloaded \o (w.recs \o RecsOf(todo')) = Reloaded \o b
        BY <4>4
      <4>6. Reloaded' \o RecsOf(todo') = Reloaded \o b
        BY <4>1, <4>2, <4>5, Zenon
      <4> QED
        BY <4>3, <4>6, Zenon
    <3>3. (ended => ended') /\ (cut => cut')
      <4>1. CASE w.to = "line"
        BY <1>4, <4>1, Zenon
      <4>2. CASE w.to # "line"
        <5>1. w.to \notin {"line", "log"}
          BY <2>2, <4>2
        <5>2. ended' = ended /\ cut' = cut
          <6>1. w.to \notin {"line", "log"} => ended' = ended /\ cut' = cut
            BY <1>3, Zenon
          <6> QED
            BY <5>1, <6>1, Zenon
        <5> QED
          BY <5>2, Zenon
      <4> QED
        BY <4>1, <4>2, Zenon
    <3>4. PICK p \in Seq(Records), lost \in Seq(Records), q \in Seq(Records) :
            Trailing(balances, Reloaded \o RecsOf(todo), p, lost, q)
      BY <2>1
    <3>5. Trailing(balances, Reloaded \o RecsOf(todo), p, lost, q)'
      BY <1>1, <3>2, <3>3, <3>4 DEF Trailing
    <3> QED
      BY <1>8, <1>9, <2>1, <3>5 DEF Trails
  <2>5. CASE w.to = "line" /\ ~ended
    <3> PICK now : now = FlattenSeq(WithLine(w.recs))
      OBVIOUS
    <3>1. now \in Seq(Records) /\ Reloaded' = now
      BY <1>4, <1>5, <1>7, <2>5, TornLine DEF Reloaded
    <3>2. PICK r \in Seq(Records) : Len(r) <= 1 /\ Reloaded = now \o r
      BY <1>5, <1>7, <2>5, TornLine
    <3>3. Len(w.recs) <= 1
      BY <1>2, <1>6, <2>5 DEF OneEach
    <3>4. PICK lost : lost = r \o w.recs
      OBVIOUS
    <3>5. lost \in Seq(Records) /\ Len(lost) <= 2
      <4>1. Len(r) \in Nat /\ Len(w.recs) \in Nat
        BY <1>5
      <4> QED
        BY <1>5, <3>2, <3>3, <3>4, <4>1, ConcatProperties
    <3>6. balances = Reloaded \o RecsOf(todo)
      <4>1. PICK p \in Seq(Records), gone \in Seq(Records), q \in Seq(Records) :
              Trailing(balances, Reloaded \o RecsOf(todo), p, gone, q)
        BY <2>1
      <4>2. gone = <<>>
        BY <2>5, <4>1 DEF Trailing
      <4>3. gone \o q = q
        BY <4>2, ConcatEmptySeq
      <4> QED
        BY <4>1, <4>3 DEF Trailing
    <3>7. balances = now \o (lost \o RecsOf(todo'))
      <4>1. balances = (now \o r) \o (w.recs \o RecsOf(todo'))
        BY <1>2, <3>2, <3>6
      <4>2. w.recs \o RecsOf(todo') \in Seq(Records)
        BY <1>5, ConcatProperties
      <4>3. (now \o r) \o (w.recs \o RecsOf(todo')) = now \o (r \o (w.recs \o RecsOf(todo')))
        BY <2>3, <3>1, <4>2
      <4>4. r \o (w.recs \o RecsOf(todo')) = (r \o w.recs) \o RecsOf(todo')
        BY <1>5, <2>3
      <4> QED
        BY <3>4, <4>1, <4>3, <4>4
    <3>8. ended' /\ cut'
      BY <1>4, <2>5
    <3>9. Trailing(balances, Reloaded \o RecsOf(todo), now, lost, RecsOf(todo))'
        <=> /\ balances' = now' \o (lost' \o RecsOf(todo'))
            /\ Reloaded' \o RecsOf(todo') = now' \o RecsOf(todo')
            /\ Len(lost') <= 2
            /\ lost' # <<>> => ended' /\ cut'
      BY DEF Trailing
    <3>10. \E p, gone, q \in Seq(Records) :
             Trailing(balances, Reloaded \o RecsOf(todo), p, gone, q)'
      <4>1. /\ balances' = now \o (lost \o RecsOf(todo'))
            /\ Reloaded' \o RecsOf(todo') = now \o RecsOf(todo')
        BY <1>1, <3>1, <3>7
      <4> QED
        BY <1>5, <3>1, <3>5, <3>8, <4>1 DEF Trailing
    <3> QED
      BY <1>8, <1>9, <2>1, <3>10 DEF Trails
  <2> QED
    BY <2>4, <2>5
<1> QED
  BY <1>10, <1>11

(* No step takes more. *)
LEMMA NextTrails == Typed /\ OneEach /\ Trails /\ [Next]_vars => Trails'
<1> SUFFICES ASSUME Typed, OneEach, Trails, [Next]_vars
             PROVE  Trails'
  OBVIOUS
<1>0. /\ Reloaded \in Seq(Records) /\ balances \in Seq(Records)
      /\ ~ended => lines # <<>>
  BY ReloadedType DEF Typed, Trails
<1>1. ASSUME NEW s \in Slots, processSlot(s) \/ backfill(s)
      PROVE  Trails'
  <2>1. /\ lines' = lines /\ ended' = ended /\ cut' = cut /\ up /\ up' /\ todo = <<>>
        /\ Reloaded' = Reloaded
    BY <1>1 DEF processSlot, backfill, disk, faults, Reloaded
  <2>2. PICK recs \in Seq(Records) : balances' = balances \o recs /\ RecsOf(todo') = recs
    BY <1>1, IngestMade
  <2>3. \A j \in DOMAIN todo' : todo'[j].to # "log"
    BY <1>1, IngestMade
  <2>4. Reloaded \o RecsOf(todo) = Reloaded
    BY <1>0, <2>1, RecsOfEmpty, ConcatEmptySeq
  <2>5. PICK p \in Seq(Records), lost \in Seq(Records), q \in Seq(Records) :
          Trailing(balances, Reloaded, p, lost, q)
    BY <2>1, <2>4 DEF Trails
  <2>6. Trailing(balances \o recs, Reloaded \o recs, p, lost, q \o recs)
    BY <2>5, TrailsMore
  <2>7. q \o recs \in Seq(Records)
    BY ConcatProperties
  <2>8. \E p1, lost1, q1 \in Seq(Records) :
          Trailing(balances, Reloaded \o RecsOf(todo), p1, lost1, q1)'
    BY <2>1, <2>2, <2>6, <2>7 DEF Trailing
  <2> QED
    BY <1>0, <2>1, <2>3, <2>8 DEF Trails
<1>2. CASE trackCoin \/ UNCHANGED vars
  <2>1. /\ lines' = lines /\ ended' = ended /\ cut' = cut /\ up' = up /\ todo' = todo
        /\ balances' = balances
    BY <1>2 DEF trackCoin, vars, disk, memory, faults
  <2> QED
    BY <2>1 DEF Trails, Trailing, Reloaded
<1>3. ASSUME NEW before \in Times, prune(before)
      PROVE  Trails'
  <2>1. /\ lines' = lines /\ ended' = ended /\ todo' = <<Rewrite(balances')>>
    BY <1>3 DEF prune, disk
  <2> QED
    BY <1>0, <2>1 DEF Trails, Rewrite
<1>4. CASE Flush
  BY <1>4, FlushTrails
<1>5. CASE Crash
  <2>1. ~up' /\ (UNCHANGED <<disk, cut>> \/ (todo # <<>> /\ TornWrite))
    BY <1>5 DEF Crash
  <2>2. CASE UNCHANGED <<disk, cut>>
    BY <1>0, <2>1, <2>2 DEF Trails, disk
  <2>3. CASE todo # <<>> /\ TornWrite
    <3> PICK w : w = Head(todo)
      OBVIOUS
    <3>1. \/ w.to = "line" /\ \E x \in {<<>>, w.recs} : lines' = WithLine(x)
          \/ ended' = TRUE
          \/ UNCHANGED <<lines, ended, cut>>
      BY <2>3 DEF TornWrite
    <3>2. CASE w.to = "line" /\ \E x \in {<<>>, w.recs} : lines' = WithLine(x)
      <4>1. PICK x \in {<<>>, w.recs} : lines' = WithLine(x)
        BY <3>2
      <4>2. w \in Writes /\ w = todo[1] /\ 1 \in DOMAIN todo
        BY <2>3 DEF Typed
      <4>3. w.recs \in Seq(Records) /\ Len(w.recs) <= 1
        BY <3>2, <4>2, WriteIs DEF OneEach
      <4>4. x \in Seq(Records) /\ Len(x) <= 1
        <5>1. CASE x = <<>>
          BY <5>1
        <5>2. CASE x = w.recs
          BY <4>3, <5>2
        <5> QED
          BY <4>1, <5>1, <5>2
      <4>5. lines' # <<>>
        BY <1>0, <4>1, <4>4, TornLine, WholeLine
      <4> QED
        BY <2>1, <4>5 DEF Trails
    <3>3. CASE ended' = TRUE
      BY <2>1, <3>3 DEF Trails
    <3>4. CASE UNCHANGED <<lines, ended, cut>>
      BY <1>0, <2>1, <3>4 DEF Trails
    <3> QED
      BY <3>1, <3>2, <3>3, <3>4
  <2> QED
    BY <2>1, <2>2, <2>3
<1>6. CASE Restart
  <2>1. /\ lines' = lines /\ ended' = ended /\ balances' = Reloaded
        /\ Reloaded' = Reloaded /\ RecsOf(todo') = <<>>
        /\ \A j \in DOMAIN todo' : todo'[j].to \in {"watermark", "watermarkTs"}
    BY <1>6, RestartIs
  <2>2. Reloaded' \o RecsOf(todo') = Reloaded
    BY <1>0, <2>1, ConcatEmptySeq
  <2>3. \E p, lost, q \in Seq(Records) :
          Trailing(balances, Reloaded \o RecsOf(todo), p, lost, q)'
    <3>1. PICK p \in Seq(Records), lost \in Seq(Records), q \in Seq(Records) :
            /\ Reloaded = p \o (lost \o q) /\ Reloaded = p \o q
            /\ Len(lost) <= 2 /\ lost = <<>>
      BY <1>0, TrailsWhole
    <3> QED
      BY <2>1, <2>2, <3>1 DEF Trailing
  <2>4. \A j \in DOMAIN todo' : todo'[j].to # "log"
    BY <2>1
  <2> QED
    BY <1>0, <2>1, <2>3, <2>4 DEF Trails
<1> QED
  BY <1>1, <1>2, <1>3, <1>4, <1>5, <1>6 DEF Next

(* Parts of a concatenation. *)
LEMMA PartsIs ==
  ASSUME NEW held, NEW file, NEW p \in Seq(Records), NEW lost \in Seq(Records),
         NEW q \in Seq(Records), Trailing(held, file, p, lost, q)
  PROVE  \E i \in 0 .. Len(held), n \in 0 .. 2 :
           /\ n > 0 => cut
           /\ file = SubSeq(held, 1, i) \o SubSeq(held, i + n + 1, Len(held))
<1> DEFINE i == Len(p)
           n == Len(lost)
           l == Len(q)
<1>1. i \in Nat /\ n \in Nat /\ l \in Nat
  OBVIOUS
<1>2. /\ lost \o q \in Seq(Records) /\ Len(lost \o q) = n + l
      /\ \A k \in 1 .. n + l : (lost \o q)[k] = IF k <= n THEN lost[k] ELSE q[k - n]
  BY ConcatProperties
<1>3. /\ held \in Seq(Records) /\ Len(held) = i + (n + l)
      /\ \A k \in 1 .. i + (n + l) :
           held[k] = IF k <= i THEN p[k] ELSE (lost \o q)[k - i]
  BY <1>2, ConcatProperties DEF Trailing
<1> HIDE DEF i, n, l
<1>4. /\ SubSeq(held, 1, i) \in Seq(Records) /\ Len(SubSeq(held, 1, i)) = i
      /\ \A k \in 1 .. i : SubSeq(held, 1, i)[k] = held[k]
  <2>1. \A k \in 1 .. i : held[k] \in Records
    BY <1>1, <1>3
  <2> QED
    BY <1>1, <2>1, SubSeqProperties
<1>5. SubSeq(held, 1, i) = p
  <2>1. \A k \in 1 .. i : held[k] = p[k]
    BY <1>1, <1>3
  <2>2. Len(p) = i
    BY DEF i
  <2> QED
    BY <1>1, <1>4, <2>1, <2>2, SeqEqual
<1> PICK from : from = i + n + 1
  OBVIOUS
<1>6. /\ SubSeq(held, from, Len(held)) \in Seq(Records)
      /\ Len(SubSeq(held, from, Len(held))) = l
      /\ \A k \in 1 .. l : SubSeq(held, from, Len(held))[k] = held[from + k - 1]
  <2>1. \A k \in from .. Len(held) : held[k] \in Records
    BY <1>1, <1>3
  <2>2. from \in Int /\ Len(held) \in Int /\ Len(held) - from + 1 = l
    BY <1>1, <1>3
  <2>3. (IF from <= Len(held) THEN Len(held) - from + 1 ELSE 0) = l
    BY <1>1, <2>2
  <2>4. /\ SubSeq(held, from, Len(held)) \in Seq(Records)
        /\ Len(SubSeq(held, from, Len(held)))
             = IF from <= Len(held) THEN Len(held) - from + 1 ELSE 0
        /\ \A k \in 1 .. Len(held) - from + 1 :
             SubSeq(held, from, Len(held))[k] = held[from + k - 1]
    BY <2>1, <2>2, SubSeqProperties
  <2> QED
    BY <2>2, <2>3, <2>4
<1>7. SubSeq(held, from, Len(held)) = q
  <2>1. ASSUME NEW k \in 1 .. l
        PROVE  held[from + k - 1] = q[k]
    <3>1. /\ from + k - 1 \in 1 .. i + (n + l) /\ ~(from + k - 1 <= i)
          /\ (from + k - 1) - i = n + k
      BY <1>1
    <3>2. held[from + k - 1] = (lost \o q)[n + k]
      BY <1>3, <3>1
    <3>3. n + k \in 1 .. n + l /\ ~(n + k <= n) /\ (n + k) - n = k
      BY <1>1
    <3> QED
      BY <1>2, <3>2, <3>3 DEF n, l
  <2>2. Len(q) = l
    BY DEF l
  <2> QED
    BY <1>1, <1>6, <2>1, <2>2, SeqEqual
<1>8. file = SubSeq(held, 1, i) \o SubSeq(held, i + n + 1, Len(held))
  BY <1>5, <1>7 DEF Trailing
<1>9. n <= 2 /\ (n > 0 => cut)
  <2>1. lost = <<>> => n = 0
    BY DEF n
  <2> QED
    BY <2>1 DEF Trailing, n
<1>10. i \in 0 .. Len(held) /\ n \in 0 .. 2
  BY <1>1, <1>3, <1>9
<1> QED
  BY <1>8, <1>9, <1>10

(* That is what was to be shown. *)
LEMMA TrailsFollow == Typed /\ Trails /\ LatestKept => FileFollowsMemory
<1> SUFFICES ASSUME Typed, Trails, LatestKept, up
             PROVE  /\ \E i \in 0 .. Len(balances), n \in 0 .. 2 :
                         /\ n > 0 => cut
                         /\ OnFile = SubSeq(balances, 1, i)
                                       \o SubSeq(balances, i + n + 1, Len(balances))
                    /\ pruned = 0 \/ (detours = 0 /\ ~interrupted) =>
                         latest = LatestOf(balances)
  BY DEF FileFollowsMemory
<1>1. balances \in Seq(Records) /\ todo \in Seq(Writes)
  BY DEF Typed
<1>2. \E p, lost, q \in Seq(Records) : Trailing(balances, OnFile, p, lost, q)
  <2>1. CASE todo = <<Rewrite(balances)>>
    <3>1. todo # <<>> /\ Head(todo) = Rewrite(balances)
      BY <2>1
    <3>2. OnFile = balances
      BY <3>1 DEF OnFile, Rewrite
    <3> QED
      BY <1>1, <3>2, TrailsWhole
  <2>2. CASE todo # <<Rewrite(balances)>>
    <3>1. \A j \in DOMAIN todo : todo[j].to # "log"
      BY <2>2 DEF Trails
    <3>2. todo # <<>> => 1 \in DOMAIN todo /\ Head(todo) = todo[1]
      BY <1>1
    <3>3. OnFile = Reloaded \o RecsOf(todo)
      BY <3>1, <3>2 DEF OnFile, RecsOf
    <3> QED
      BY <2>2, <3>3 DEF Trails
  <2> QED
    BY <2>1, <2>2
<1>3. latest = LatestOf(balances) \/ ~(pruned = 0 \/ (detours = 0 /\ ~interrupted))
  BY DEF LatestKept, Straight
<1> QED
  BY <1>2, <1>3, PartsIs

(* indexer/store.ts: at every moment the file and the writes queued have   *)
(* the records of memory, but for two neighbours at a torn newline, and    *)
(* the latest balances are what a reload makes of these records, unless a  *)
(* prune met records out of turn.                                          *)
THEOREM FileFollowsCorrect == Spec => []FileFollowsMemory
<1>1. Init => Reproducible /\ OneEach /\ Trails
  <2>1. Init => Reproducible
    BY InitDurable, InitStraight DEF Reproducible
  <2>2. Init => OneEach /\ Trails
    <3>1. DOMAIN <<>> = {}
      OBVIOUS
    <3> QED
      BY <3>1 DEF Init, OneEach, Trails
  <2> QED
    BY <2>1, <2>2
<1>2. Reproducible => Typed /\ LatestKept
  BY DEF Reproducible, Durable
<1>3. Reproducible /\ OneEach /\ Trails /\ [Next]_vars =>
        (Reproducible /\ OneEach /\ Trails)'
  BY <1>2, NextDurable, NextStraight, NextLatest, NextOneEach, NextTrails DEF Reproducible
<1>4. Spec => [](Reproducible /\ OneEach /\ Trails)
  BY <1>1, <1>3, PTL DEF Spec
<1>5. Reproducible /\ OneEach /\ Trails => FileFollowsMemory
  BY <1>2, TrailsFollow
<1> QED
  BY <1>4, <1>5, PTL

----------------------------------------------------------------------------
(* What really happened, transaction by transaction.                       *)

(* The first sequences of a family, flattened one by one.                  *)
FirstFlat(f, m) == FlattenSeq([i \in 1 .. m |-> f[i]])

FlatSteps(f, n) ==
  /\ FirstFlat(f, 0) = <<>>
  /\ \A m \in Nat : m + 1 <= n => FirstFlat(f, m + 1) = FirstFlat(f, m) \o f[m + 1]

(* Each adds its own elements. *)
LEMMA FirstFlatSteps ==
  ASSUME NEW T, NEW n \in Nat, NEW f, \A i \in 1 .. n : f[i] \in Seq(T)
  PROVE  FlatSteps(f, n)
<1> DEFINE these(m) == [i \in 1 .. m |-> f[i]]
<1>1. \A m \in 0 .. n : these(m) \in Seq(Seq(T))
  <2> TAKE m \in 0 .. n
  <2>1. \A i \in 1 .. m : f[i] \in Seq(T)
    OBVIOUS
  <2> QED
    BY <2>1
<1>2. FirstFlat(f, 0) = <<>>
  <2>1. these(0) = <<>>
    OBVIOUS
  <2> QED
    BY <2>1, FlattenEmpty DEF FirstFlat
<1>3. ASSUME NEW m \in Nat, m + 1 <= n
      PROVE  FirstFlat(f, m + 1) = FirstFlat(f, m) \o f[m + 1]
  <2>1. m \in 0 .. n /\ m + 1 \in 0 .. n /\ m + 1 \in 1 .. n
    BY <1>3
  <2> DEFINE x == f[m + 1]
             b == Append(these(m), x)
  <2>2. x \in Seq(T) /\ these(m) \in Seq(Seq(T)) /\ these(m + 1) \in Seq(Seq(T))
    BY <1>1, <2>1
  <2>3. Len(these(m)) = m /\ Len(these(m + 1)) = m + 1
    BY <2>1
  <2>4. /\ b \in Seq(Seq(T)) /\ Len(b) = m + 1
        /\ \A i \in 1 .. m : b[i] = these(m)[i]
        /\ b[m + 1] = x
    <3> HIDE DEF x, these
    <3> QED
      BY <2>2, <2>3, AppendProperties
  <2>5. ASSUME NEW i \in 1 .. m + 1
        PROVE  b[i] = these(m + 1)[i]
    <3>1. CASE i \in 1 .. m
      <4>1. these(m)[i] = f[i] /\ these(m + 1)[i] = f[i]
        BY <3>1
      <4> QED
        BY <2>4, <3>1, <4>1
    <3>2. CASE i = m + 1
      <4>1. these(m + 1)[i] = x
        BY <3>2
      <4> QED
        BY <2>4, <3>2, <4>1
    <3>3. i \in 1 .. m \/ i = m + 1
      BY <2>1
    <3> QED
      BY <3>1, <3>2, <3>3
  <2> HIDE DEF x, these, b
  <2>6. these(m + 1) = b
    BY <2>2, <2>3, <2>4, <2>5, SeqEqual
  <2>7. FlattenSeq(these(m + 1)) = FlattenSeq(these(m)) \o x
    BY <2>2, <2>6, FlattenLast DEF b
  <2> QED
    BY <2>7 DEF FirstFlat, these, x
<1> QED
  BY <1>2, <1>3 DEF FlatSteps

(* c is r followed by q.                                                   *)
Joined(r, q, c) ==
  /\ Len(r) \in Nat /\ Len(q) \in Nat
  /\ DOMAIN r = 1 .. Len(r) /\ DOMAIN q = 1 .. Len(q)
  /\ Len(c) = Len(r) + Len(q) /\ DOMAIN c = 1 .. Len(c)
  /\ \A i \in 1 .. Len(r) : c[i] = r[i]
  /\ \A i \in 1 .. Len(q) : c[Len(r) + i] = q[i]

(* Concatenation is. *)
LEMMA JoinedIs ==
  ASSUME NEW T, NEW r \in Seq(T), NEW q \in Seq(T)
  PROVE  r \o q \in Seq(T) /\ Joined(r, q, r \o q)
<1> PICK c : c = r \o q
  OBVIOUS
<1>1. /\ c \in Seq(T)
      /\ Len(r) \in Nat /\ Len(q) \in Nat
      /\ DOMAIN r = 1 .. Len(r) /\ DOMAIN q = 1 .. Len(q)
      /\ Len(c) = Len(r) + Len(q)
      /\ DOMAIN c = 1 .. Len(r) + Len(q)
      /\ \A i \in 1 .. Len(r) : c[i] = r[i]
      /\ \A i \in 1 .. Len(q) : c[Len(r) + i] = q[i]
  BY ConcatIs
<1>2. Joined(r, q, c)
  BY <1>1 DEF Joined
<1> QED
  BY <1>1, <1>2

(* The place a transaction of a slot has in the order of the chain.        *)
SeqNo(s, i) == s * SEQ_MULT + i

(* Places follow each other slot by slot. *)
LEMMA SeqNoIs ==
  ASSUME NEW s \in Nat, NEW t \in Nat, NEW i \in 1 .. SEQ_MULT,
         NEW j \in 1 .. SEQ_MULT
  PROVE  /\ SeqNo(s, i) \in Nat
         /\ s < t => SeqNo(s, i) < SeqNo(t, j)
         /\ SeqNo(s, i) <= SeqNo(t, j) => s <= t
         /\ s = t => (SeqNo(s, i) <= SeqNo(t, j) <=> i <= j)
         /\ SeqNo(s, i) = SeqNo(t, j) => s = t /\ i = j
<1>1. /\ s * SEQ_MULT \in Nat /\ t * SEQ_MULT \in Nat /\ SEQ_MULT \in Nat
      /\ s < t => s * SEQ_MULT + SEQ_MULT <= t * SEQ_MULT
      /\ t < s => t * SEQ_MULT + SEQ_MULT <= s * SEQ_MULT
  BY DEF SEQ_MULT
<1> PICK x \in Nat : x = s * SEQ_MULT
  BY <1>1
<1> PICK y \in Nat : y = t * SEQ_MULT
  BY <1>1
<1> PICK c \in Nat : c = SEQ_MULT
  BY <1>1
<1>2. /\ s < t => x + c <= y
      /\ t < s => y + c <= x
      /\ s = t => x = y
  BY <1>1
<1>3. i \in 1 .. c /\ j \in 1 .. c /\ SeqNo(s, i) = x + i /\ SeqNo(t, j) = y + j
  BY DEF SeqNo
<1> QED
  BY <1>2, <1>3

TxsAt(s) ==
  [i \in DOMAIN chain[s].txs |-> [ts |-> chain[s].ts, legs |-> chain[s].txs[i]]]
SeqsAt(s) == [i \in DOMAIN chain[s].txs |-> SeqNo(s, i)]

(* The place of each transaction that happened.                            *)
SeqAt == FlattenSeq([k \in 1 .. LastSlot + 1 |-> SeqsAt(k - 1)])

(* h has the transactions of the slots below top, and q their places.      *)
Placed(h, q, top) ==
  /\ h \in Seq([ts : Times, legs : Seq(Legs)]) /\ q \in Seq(Nat)
  /\ Len(q) = Len(h)
  /\ \A n \in 1 .. Len(h) :
       \E s \in Slots : \E i \in DOMAIN chain[s].txs :
         /\ s < top
         /\ q[n] = SeqNo(s, i)
         /\ h[n] = [ts |-> chain[s].ts, legs |-> chain[s].txs[i]]
  /\ \A m, n \in 1 .. Len(h) : m < n => q[m] < q[n]
  /\ \A s \in Slots : s < top =>
       \A i \in DOMAIN chain[s].txs : \E n \in 1 .. Len(h) : q[n] = SeqNo(s, i)

(* One more slot. *)
LEMMA PlacedMore ==
  ASSUME chain \in Chains, NEW top \in Slots, NEW h, NEW q, Placed(h, q, top)
  PROVE  Placed(h \o TxsAt(top), q \o SeqsAt(top), top + 1)
<1> DEFINE T == [ts : Times, legs : Seq(Legs)]
           x == TxsAt(top)
           y == SeqsAt(top)
           c == h \o x
           d == q \o y
           n0 == Len(chain[top].txs)
<1>1. /\ top \in Nat /\ n0 \in Nat /\ n0 <= SEQ_MULT /\ SEQ_MULT \in Nat
      /\ DOMAIN chain[top].txs = 1 .. n0
      /\ chain[top].ts \in Times
      /\ \A i \in 1 .. n0 : chain[top].txs[i] \in Seq(Legs)
  <2>1. /\ top \in Nat /\ n0 \in 0 .. SEQ_MULT
        /\ DOMAIN chain[top].txs = 1 .. n0
        /\ chain[top].ts \in Times
        /\ \A i \in 1 .. n0 : chain[top].txs[i] \in Seq(Legs)
    BY BlockIs
  <2>2. SEQ_MULT \in Nat
    BY DEF SEQ_MULT
  <2> HIDE DEF n0
  <2> QED
    BY <2>1, <2>2
<1>2. \A s \in Slots : \A i \in DOMAIN chain[s].txs : s \in Nat /\ i \in 1 .. SEQ_MULT
  <2> SUFFICES ASSUME NEW s \in Slots, NEW i \in DOMAIN chain[s].txs
               PROVE  s \in Nat /\ i \in 1 .. SEQ_MULT
    OBVIOUS
  <2>1. s \in Nat /\ Len(chain[s].txs) \in 0 .. SEQ_MULT
        /\ DOMAIN chain[s].txs = 1 .. Len(chain[s].txs)
    BY BlockIs
  <2> QED
    BY <1>1, <2>1
<1>3. x \in Seq(T) /\ y \in Seq(Nat) /\ Len(x) = n0 /\ Len(y) = n0
      /\ \A i \in 1 .. n0 : /\ x[i] = [ts |-> chain[top].ts, legs |-> chain[top].txs[i]]
                            /\ y[i] = SeqNo(top, i)
  <2>1. \A i \in 1 .. n0 : SeqNo(top, i) \in Nat
    <3>1. top * SEQ_MULT \in Nat
      BY <1>1 DEF SEQ_MULT
    <3> HIDE DEF n0
    <3> QED
      BY <3>1 DEF SeqNo
  <2>2. x = [i \in 1 .. n0 |-> [ts |-> chain[top].ts, legs |-> chain[top].txs[i]]]
    BY <1>1 DEF TxsAt
  <2>3. y = [i \in 1 .. n0 |-> SeqNo(top, i)]
    BY <1>1 DEF SeqsAt
  <2> HIDE DEF x, y
  <2>4. \A i \in 1 .. n0 : x[i] \in T
    BY <1>1, <2>2
  <2> HIDE DEF T, n0
  <2>5. /\ \A i \in 1 .. n0 : [ts |-> chain[top].ts, legs |-> chain[top].txs[i]] \in T
        /\ \A i \in 1 .. n0 : x[i] = [ts |-> chain[top].ts, legs |-> chain[top].txs[i]]
        /\ \A i \in 1 .. n0 : y[i] = SeqNo(top, i)
    BY <2>2, <2>3, <2>4
  <2>6. x \in Seq(T) /\ Len(x) = n0
    BY <1>1, <2>2, <2>5
  <2>7. y \in Seq(Nat) /\ Len(y) = n0
    BY <1>1, <2>1, <2>3
  <2> QED
    BY <2>5, <2>6, <2>7
<1>4. /\ h \in Seq(T) /\ q \in Seq(Nat) /\ Len(q) = Len(h)
      /\ \A n \in 1 .. Len(h) :
           \E s \in Slots : \E i \in DOMAIN chain[s].txs :
             /\ s < top
             /\ q[n] = SeqNo(s, i)
             /\ h[n] = [ts |-> chain[s].ts, legs |-> chain[s].txs[i]]
      /\ \A m, n \in 1 .. Len(h) : m < n => q[m] < q[n]
      /\ \A s \in Slots : s < top =>
           \A i \in DOMAIN chain[s].txs : \E n \in 1 .. Len(h) : q[n] = SeqNo(s, i)
  BY DEF Placed
<1> HIDE DEF T, x, y, n0
<1>5. /\ c \in Seq(T) /\ d \in Seq(Nat) /\ Len(h) \in Nat
      /\ Len(c) = Len(h) + n0 /\ Len(d) = Len(h) + n0
      /\ \A n \in 1 .. Len(h) : c[n] = h[n] /\ d[n] = q[n]
      /\ \A i \in 1 .. n0 : c[Len(h) + i] = x[i] /\ d[Len(h) + i] = y[i]
  <2>1. /\ h \in Seq(T) /\ x \in Seq(T) /\ q \in Seq(Nat) /\ y \in Seq(Nat)
        /\ Len(q) = Len(h) /\ Len(x) = n0 /\ Len(y) = n0
    BY <1>3, <1>4
  <2>2. c \in Seq(T) /\ Joined(h, x, c)
    BY <2>1, JoinedIs
  <2>3. d \in Seq(Nat) /\ Joined(q, y, d)
    BY <2>1, JoinedIs
  <2> HIDE DEF c, d
  <2> QED
    BY <2>1, <2>2, <2>3 DEF Joined
<1> HIDE DEF c, d
<1>6. \A n \in 1 .. Len(h) + n0 :
        n \in 1 .. Len(h) \/ \E i \in 1 .. n0 : n = Len(h) + i
  <2> TAKE n \in 1 .. Len(h) + n0
  <2>1. CASE n > Len(h)
    <3>1. n - Len(h) \in 1 .. n0 /\ n = Len(h) + (n - Len(h))
      BY <1>1, <1>5, <2>1
    <3> QED
      BY <3>1
  <2>2. CASE ~(n > Len(h))
    BY <1>1, <1>5, <2>2
  <2> QED
    BY <2>1, <2>2
<1>7. ASSUME NEW n \in 1 .. Len(h) + n0
      PROVE  \E s \in Slots : \E i \in DOMAIN chain[s].txs :
               /\ s < top + 1
               /\ d[n] = SeqNo(s, i)
               /\ c[n] = [ts |-> chain[s].ts, legs |-> chain[s].txs[i]]
  <2>1. CASE n \in 1 .. Len(h)
    <3>1. PICK s \in Slots : \E i \in DOMAIN chain[s].txs :
             /\ s < top
             /\ q[n] = SeqNo(s, i)
             /\ h[n] = [ts |-> chain[s].ts, legs |-> chain[s].txs[i]]
      BY <1>4, <2>1
    <3>2. s \in Nat
      BY DEF Slots
    <3>3. s < top + 1 /\ c[n] = h[n] /\ d[n] = q[n]
      BY <1>1, <1>5, <2>1, <3>1, <3>2
    <3> QED
      BY <3>1, <3>3
  <2>2. ASSUME NEW i \in 1 .. n0, n = Len(h) + i
        PROVE  \E s \in Slots : \E j \in DOMAIN chain[s].txs :
                 /\ s < top + 1
                 /\ d[n] = SeqNo(s, j)
                 /\ c[n] = [ts |-> chain[s].ts, legs |-> chain[s].txs[j]]
    <3>1. i \in DOMAIN chain[top].txs /\ top < top + 1
      BY <1>1
    <3>2. /\ d[n] = SeqNo(top, i)
          /\ c[n] = [ts |-> chain[top].ts, legs |-> chain[top].txs[i]]
      BY <1>3, <1>5, <2>2
    <3> QED
      BY <3>1, <3>2
  <2> QED
    BY <1>6, <2>1, <2>2
<1>8. ASSUME NEW m \in 1 .. Len(h) + n0, NEW n \in 1 .. Len(h) + n0, m < n
      PROVE  d[m] < d[n]
  <2>1. CASE n \in 1 .. Len(h)
    <3>1. m \in 1 .. Len(h)
      BY <1>5, <1>8, <2>1
    <3> QED
      BY <1>4, <1>5, <1>8, <2>1, <3>1
  <2>2. ASSUME NEW i \in 1 .. n0, n = Len(h) + i
        PROVE  d[m] < d[n]
    <3>1. d[n] = SeqNo(top, i) /\ i \in 1 .. SEQ_MULT
      BY <1>1, <1>3, <1>5, <2>2
    <3>2. CASE m \in 1 .. Len(h)
      <4>1. PICK s \in Slots : \E j \in DOMAIN chain[s].txs :
                                s < top /\ q[m] = SeqNo(s, j)
        BY <1>4, <3>2
      <4> PICK j \in DOMAIN chain[s].txs : s < top /\ q[m] = SeqNo(s, j)
        BY <4>1
      <4>2. s \in Nat /\ s < top /\ j \in 1 .. SEQ_MULT
        BY <1>2, <4>1
      <4>3. SeqNo(s, j) < SeqNo(top, i)
        BY <1>1, <3>1, <4>2, SeqNoIs
      <4> QED
        BY <1>5, <3>1, <3>2, <4>3
    <3>3. ASSUME NEW j \in 1 .. n0, m = Len(h) + j
          PROVE  d[m] < d[n]
      <4>1. d[m] = SeqNo(top, j) /\ j < i
        BY <1>1, <1>3, <1>5, <1>8, <2>2, <3>3
      <4>2. SeqNo(top, j) < SeqNo(top, i)
        BY <1>1, <4>1 DEF SeqNo, SEQ_MULT
      <4> QED
        BY <3>1, <4>1, <4>2
    <3> QED
      BY <1>6, <3>2, <3>3
  <2> QED
    BY <1>6, <2>1, <2>2
<1>9. ASSUME NEW s \in Slots, s < top + 1, NEW i \in DOMAIN chain[s].txs
      PROVE  \E n \in 1 .. Len(h) + n0 : d[n] = SeqNo(s, i)
  <2>1. CASE s < top
    <3>1. PICK n \in 1 .. Len(h) : q[n] = SeqNo(s, i)
      BY <1>4, <2>1
    <3>2. n \in 1 .. Len(h) + n0 /\ d[n] = q[n]
      BY <1>1, <1>5
    <3> QED
      BY <3>1, <3>2
  <2>2. CASE s = top
    <3>1. i \in 1 .. n0
      BY <1>1, <2>2
    <3>2. Len(h) + i \in 1 .. Len(h) + n0 /\ d[Len(h) + i] = SeqNo(s, i)
      BY <1>1, <1>3, <1>5, <2>2, <3>1
    <3> QED
      BY <3>2
  <2>3. s \in Nat
    BY DEF Slots
  <2> QED
    BY <1>1, <1>9, <2>1, <2>2, <2>3
<1>10. Placed(c, d, top + 1)
  <2>1. /\ c \in Seq([ts : Times, legs : Seq(Legs)])
        /\ Len(c) = Len(h) + n0 /\ Len(d) = Len(c)
    BY <1>5 DEF T
  <2>2. d \in Seq(Nat) /\ 1 .. Len(c) = 1 .. Len(h) + n0
    BY <1>5
  <2>3. \A n \in 1 .. Len(c) :
          \E s \in Slots : \E i \in DOMAIN chain[s].txs :
            /\ s < top + 1
            /\ d[n] = SeqNo(s, i)
            /\ c[n] = [ts |-> chain[s].ts, legs |-> chain[s].txs[i]]
    BY <1>7, <2>2
  <2>4. \A m, n \in 1 .. Len(c) : m < n => d[m] < d[n]
    BY <1>8, <2>2
  <2>5. \A s \in Slots : s < top + 1 =>
          \A i \in DOMAIN chain[s].txs : \E n \in 1 .. Len(c) : d[n] = SeqNo(s, i)
    BY <1>9, <2>2
  <2> QED
    BY <2>1, <2>2, <2>3, <2>4, <2>5 DEF Placed
<1> QED
  BY <1>10 DEF c, d, x, y

(* What really happened, in order: each transaction has a place, places     *)
(* and times go up, and each place of the chain is that of a transaction.  *)
Chronicle ==
  /\ Happened(chain) \in Seq([ts : Times, legs : Seq(Legs)])
  /\ Len(Happened(chain)) \in Nat
  /\ \A n \in 1 .. Len(Happened(chain)) :
       /\ SeqAt[n] \in Nat
       /\ Happened(chain)[n].ts \in Nat
       /\ Happened(chain)[n].legs \in Seq(Legs)
       /\ \E s \in Slots : \E i \in DOMAIN chain[s].txs :
            /\ SeqAt[n] = SeqNo(s, i)
            /\ Happened(chain)[n] = [ts |-> chain[s].ts, legs |-> chain[s].txs[i]]
  /\ \A m, n \in 1 .. Len(Happened(chain)) :
       /\ m < n <=> SeqAt[m] < SeqAt[n]
       /\ m <= n => Happened(chain)[m].ts <= Happened(chain)[n].ts
  /\ \A s \in Slots : \A i \in DOMAIN chain[s].txs :
       \E n \in 1 .. Len(Happened(chain)) :
         /\ SeqAt[n] = SeqNo(s, i)
         /\ Happened(chain)[n] = [ts |-> chain[s].ts, legs |-> chain[s].txs[i]]

(* The transactions of the whole chain have their places. *)
LEMMA AllPlaced ==
  ASSUME chain \in Chains
  PROVE  Placed(Happened(chain), SeqAt, LastSlot + 1)
<1> DEFINE T == [ts : Times, legs : Seq(Legs)]
           N == LastSlot + 1
           f == [k \in 1 .. N |-> TxsAt(k - 1)]
           g == [k \in 1 .. N |-> SeqsAt(k - 1)]
           D == {m \in Nat : m <= N => Placed(FirstFlat(f, m), FirstFlat(g, m), m)}
<1>1. LastSlot \in Nat /\ N \in Nat /\ Slots = 0 .. LastSlot
  BY ChainAssumption DEF Slots
<1>2. ASSUME NEW s \in Slots
      PROVE  /\ TxsAt(s) \in Seq(T) /\ SeqsAt(s) \in Seq(Nat)
  <2> DEFINE n == Len(chain[s].txs)
  <2>1. /\ s \in Nat /\ n \in 0 .. SEQ_MULT
        /\ DOMAIN chain[s].txs = 1 .. n
        /\ chain[s].ts \in Times
        /\ \A i \in 1 .. n : chain[s].txs[i] \in Seq(Legs)
    BY BlockIs
  <2> HIDE DEF n
  <2>0. SEQ_MULT \in Nat
    BY DEF SEQ_MULT
  <2>2. n \in Nat /\ \A i \in 1 .. n : i \in 1 .. SEQ_MULT
    BY <2>0, <2>1
  <2>3. \A i \in 1 .. n : [ts |-> chain[s].ts, legs |-> chain[s].txs[i]] \in T
    BY <2>1
  <2>4. \A i \in 1 .. n : SeqNo(s, i) \in Nat
    BY <2>1, <2>2, SeqNoIs
  <2> HIDE DEF T
  <2>5. [i \in 1 .. n |-> [ts |-> chain[s].ts, legs |-> chain[s].txs[i]]] \in Seq(T)
    <3> DEFINE e(i) == [ts |-> chain[s].ts, legs |-> chain[s].txs[i]]
    <3>1. \A i \in 1 .. n : e(i) \in T
      BY <2>3
    <3> HIDE DEF e
    <3>2. [i \in 1 .. n |-> e(i)] \in Seq(T)
      BY <2>2, <3>1
    <3> QED
      BY <3>2 DEF e
  <2>6. [i \in 1 .. n |-> SeqNo(s, i)] \in Seq(Nat)
    BY <2>2, <2>4
  <2> QED
    BY <2>1, <2>5, <2>6 DEF TxsAt, SeqsAt
<1>3. \A k \in 1 .. N : f[k] \in Seq(T) /\ g[k] \in Seq(Nat)
  <2>1. \A k \in 1 .. N : k - 1 \in Slots
    BY <1>1
  <2> HIDE DEF T
  <2> QED
    BY <1>2, <2>1
<1>4. /\ FirstFlat(f, 0) = <<>>
      /\ \A m \in Nat : m + 1 <= N => FirstFlat(f, m + 1) = FirstFlat(f, m) \o f[m + 1]
  <2>1. FlatSteps(f, N)
    <3> HIDE DEF f, N, T
    <3> QED
      BY <1>1, <1>3, FirstFlatSteps
  <2> QED
    BY <2>1 DEF FlatSteps
<1>5. /\ FirstFlat(g, 0) = <<>>
      /\ \A m \in Nat : m + 1 <= N => FirstFlat(g, m + 1) = FirstFlat(g, m) \o g[m + 1]
  <2>1. FlatSteps(g, N)
    <3> HIDE DEF g, N, T
    <3> QED
      BY <1>1, <1>3, FirstFlatSteps
  <2> QED
    BY <2>1 DEF FlatSteps
<1>6. 0 \in D
  <2>1. Placed(<<>>, <<>>, 0)
    <3>1. \A s \in Slots : ~(s < 0)
      BY <1>1
    <3>2. /\ <<>> \in Seq([ts : Times, legs : Seq(Legs)]) /\ <<>> \in Seq(Nat)
          /\ 1 .. Len(<<>>) = {}
      OBVIOUS
    <3> QED
      BY <3>1, <3>2 DEF Placed
  <2> HIDE DEF f, g
  <2> QED
    BY <1>4, <1>5, <2>1
<1>7. ASSUME NEW m \in D
      PROVE  m + 1 \in D
  <2> SUFFICES ASSUME m + 1 <= N
               PROVE  Placed(FirstFlat(f, m + 1), FirstFlat(g, m + 1), m + 1)
    OBVIOUS
  <2>1. m \in Nat /\ m <= N /\ m \in Slots /\ m + 1 \in 1 .. N /\ (m + 1) - 1 = m
    BY <1>1
  <2>2. Placed(FirstFlat(f, m), FirstFlat(g, m), m)
    BY <2>1
  <2>3. f[m + 1] = TxsAt(m) /\ g[m + 1] = SeqsAt(m)
    BY <2>1
  <2> HIDE DEF f, g, D
  <2>4. Placed(FirstFlat(f, m) \o TxsAt(m), FirstFlat(g, m) \o SeqsAt(m), m + 1)
    BY <2>1, <2>2, PlacedMore
  <2> QED
    BY <1>4, <1>5, <2>1, <2>3, <2>4
<1>8. N \in D
  <2>1. D \in SUBSET Nat
    OBVIOUS
  <2> HIDE DEF D
  <2> QED
    BY <1>1, <1>6, <1>7, <2>1, InductiveSet
<1>9. Happened(chain) = FirstFlat(f, N) /\ SeqAt = FirstFlat(g, N)
  <2>1. [i \in 1 .. N |-> f[i]] = [k \in 1 .. N |-> TxsAt(k - 1)]
    OBVIOUS
  <2>2. [i \in 1 .. N |-> g[i]] = [k \in 1 .. N |-> SeqsAt(k - 1)]
    OBVIOUS
  <2>3. Happened(chain) = FlattenSeq([k \in 1 .. N |-> TxsAt(k - 1)])
    BY DEF Happened, TxsAt
  <2>4. SeqAt = FlattenSeq([k \in 1 .. N |-> SeqsAt(k - 1)])
    BY DEF SeqAt
  <2> HIDE DEF f, g, N
  <2> QED
    BY <2>1, <2>2, <2>3, <2>4 DEF FirstFlat
<1> HIDE DEF f, g
<1>10. Placed(FirstFlat(f, N), FirstFlat(g, N), N)
  BY <1>1, <1>8
<1> QED
  BY <1>9, <1>10

(* They make up a chronicle. *)
LEMMA ChronicleIs ==
  ASSUME chain \in Chains
  PROVE  Chronicle
<1> DEFINE T == [ts : Times, legs : Seq(Legs)]
<1> PICK h : h = Happened(chain)
  OBVIOUS
<1> PICK q : q = SeqAt
  OBVIOUS
<1>1. /\ h \in Seq(T) /\ q \in Seq(Nat)
      /\ Len(q) = Len(h)
      /\ \A n \in 1 .. Len(h) :
           \E s \in Slots : \E i \in DOMAIN chain[s].txs :
             /\ q[n] = SeqNo(s, i)
             /\ h[n] = [ts |-> chain[s].ts, legs |-> chain[s].txs[i]]
      /\ \A m, n \in 1 .. Len(h) : m < n => q[m] < q[n]
      /\ \A s \in Slots : s < LastSlot + 1 =>
           \A i \in DOMAIN chain[s].txs : \E n \in 1 .. Len(h) : q[n] = SeqNo(s, i)
  <2>1. Placed(h, q, LastSlot + 1)
    BY AllPlaced
  <2> QED
    BY <2>1 DEF Placed
<1>2. Len(h) \in Nat /\ \A n \in 1 .. Len(h) : h[n] \in T /\ q[n] \in Nat
  <2> HIDE DEF T
  <2>1. Len(h) \in Nat /\ DOMAIN h = 1 .. Len(h) /\ DOMAIN q = 1 .. Len(q)
    BY <1>1, LenProperties
  <2>2. \A n \in 1 .. Len(h) : h[n] \in T
    BY <1>1, <2>1, ElementOfSeq
  <2>3. \A n \in 1 .. Len(q) : q[n] \in Nat
    BY <1>1, <2>1, ElementOfSeq
  <2> QED
    BY <1>1, <2>1, <2>2, <2>3
<1>3. \A n \in 1 .. Len(h) : h[n].ts \in Nat /\ h[n].legs \in Seq(Legs)
  BY <1>2 DEF Times
<1>4. \A m, n \in 1 .. Len(h) : m < n <=> q[m] < q[n]
  <2> SUFFICES ASSUME NEW m \in 1 .. Len(h), NEW n \in 1 .. Len(h), q[m] < q[n]
               PROVE  m < n
    BY <1>1
  <2>1. CASE m = n
    BY <1>2, <2>1
  <2>2. CASE n < m
    <3>1. q[n] < q[m] /\ q[n] \in Nat /\ q[m] \in Nat
      BY <1>1, <1>2, <2>2
    <3> QED
      BY <3>1
  <2> QED
    BY <1>2, <2>1, <2>2
<1>5. \A s \in Slots : \A i \in DOMAIN chain[s].txs :
        /\ s \in Nat /\ i \in 1 .. SEQ_MULT /\ chain[s].ts \in Nat
        /\ \A t \in Slots : s <= t => chain[s].ts <= chain[t].ts
  <2> SUFFICES ASSUME NEW s \in Slots, NEW i \in DOMAIN chain[s].txs
               PROVE  /\ s \in Nat /\ i \in 1 .. SEQ_MULT /\ chain[s].ts \in Nat
                      /\ \A t \in Slots : s <= t => chain[s].ts <= chain[t].ts
    OBVIOUS
  <2>1. s \in Nat /\ Len(chain[s].txs) \in 0 .. SEQ_MULT
        /\ DOMAIN chain[s].txs = 1 .. Len(chain[s].txs)
        /\ chain[s].ts \in Times
        /\ \A t \in Slots : s <= t => chain[s].ts <= chain[t].ts
    BY BlockIs
  <2>2. SEQ_MULT \in Nat
    BY DEF SEQ_MULT
  <2> QED
    BY <2>1, <2>2 DEF Times
<1>6. ASSUME NEW m \in 1 .. Len(h), NEW n \in 1 .. Len(h), m <= n
      PROVE  h[m].ts <= h[n].ts
  <2>1. PICK s \in Slots : \E i \in DOMAIN chain[s].txs :
             /\ q[m] = SeqNo(s, i)
             /\ h[m] = [ts |-> chain[s].ts, legs |-> chain[s].txs[i]]
    BY <1>1
  <2> PICK i \in DOMAIN chain[s].txs :
             /\ q[m] = SeqNo(s, i)
             /\ h[m] = [ts |-> chain[s].ts, legs |-> chain[s].txs[i]]
    BY <2>1
  <2>2. PICK t \in Slots : \E j \in DOMAIN chain[t].txs :
             /\ q[n] = SeqNo(t, j)
             /\ h[n] = [ts |-> chain[t].ts, legs |-> chain[t].txs[j]]
    BY <1>1
  <2> PICK j \in DOMAIN chain[t].txs :
             /\ q[n] = SeqNo(t, j)
             /\ h[n] = [ts |-> chain[t].ts, legs |-> chain[t].txs[j]]
    BY <2>2
  <2>3. q[m] <= q[n]
    <3>1. m < n => q[m] < q[n] /\ q[m] \in Nat /\ q[n] \in Nat
      BY <1>1, <1>2
    <3>2. m = n => q[m] <= q[n]
      BY <1>2
    <3> QED
      BY <1>2, <1>6, <3>1, <3>2
  <2>4. s <= t
    <3>1. s \in Nat /\ t \in Nat /\ i \in 1 .. SEQ_MULT /\ j \in 1 .. SEQ_MULT
      BY <1>5
    <3> QED
      BY <2>3, <3>1, SeqNoIs
  <2>5. chain[s].ts <= chain[t].ts
    BY <1>5, <2>4
  <2> QED
    BY <2>5
<1>7. ASSUME NEW s \in Slots, NEW i \in DOMAIN chain[s].txs
      PROVE  \E n \in 1 .. Len(h) :
               /\ q[n] = SeqNo(s, i)
               /\ h[n] = [ts |-> chain[s].ts, legs |-> chain[s].txs[i]]
  <2>1. s < LastSlot + 1
    BY ChainAssumption DEF Slots
  <2>2. PICK n \in 1 .. Len(h) : q[n] = SeqNo(s, i)
    BY <1>1, <2>1
  <2>3. PICK t \in Slots : \E j \in DOMAIN chain[t].txs :
             /\ q[n] = SeqNo(t, j)
             /\ h[n] = [ts |-> chain[t].ts, legs |-> chain[t].txs[j]]
    BY <1>1
  <2> PICK j \in DOMAIN chain[t].txs :
             /\ q[n] = SeqNo(t, j)
             /\ h[n] = [ts |-> chain[t].ts, legs |-> chain[t].txs[j]]
    BY <2>3
  <2>4. s \in Nat /\ t \in Nat /\ i \in 1 .. SEQ_MULT /\ j \in 1 .. SEQ_MULT
    BY <1>5
  <2>5. SeqNo(s, i) = SeqNo(t, j)
    BY <2>2
  <2>6. s = t /\ i = j
    BY <2>4, <2>5, SeqNoIs
  <2> QED
    BY <2>2, <2>6
<1> QED
  BY <1>1, <1>2, <1>3, <1>4, <1>6, <1>7 DEF Chronicle

----------------------------------------------------------------------------
(* What a wallet really had.                                               *)

Change(w, n) == Net(Happened(chain)[n].legs, w)

Sums(d, n, f) == f = [i \in 0 .. n |-> IF i = 0 THEN 0 ELSE f[i - 1] + d[i]]

(* Sums of the same terms agree as far as both go. *)
LEMMA SumSame ==
  ASSUME NEW d, NEW n \in Nat, NEW k \in Nat, k <= n,
         NEW f, NEW g, Sums(d, n, f), Sums(d, k, g)
  PROVE  f[k] = g[k]
<1> DEFINE D == {m \in Nat : m <= k => f[m] = g[m]}
<1>1. /\ \A i \in 0 .. n : f[i] = IF i = 0 THEN 0 ELSE f[i - 1] + d[i]
      /\ \A i \in 0 .. k : g[i] = IF i = 0 THEN 0 ELSE g[i - 1] + d[i]
  BY DEF Sums
<1>2. 0 \in D
  BY <1>1
<1>3. ASSUME NEW m \in D
      PROVE  m + 1 \in D
  <2> SUFFICES ASSUME m + 1 <= k
               PROVE  f[m + 1] = g[m + 1]
    OBVIOUS
  <2>1. /\ m <= k /\ m + 1 \in 0 .. n /\ m + 1 \in 0 .. k /\ (m + 1) - 1 = m
        /\ m + 1 # 0
    OBVIOUS
  <2>2. f[m] = g[m]
    BY <2>1
  <2>3. f[m + 1] = f[m] + d[m + 1] /\ g[m + 1] = g[m] + d[m + 1]
    BY <1>1, <2>1
  <2> QED
    BY <2>2, <2>3
<1>4. k \in D
  <2>1. D \in SUBSET Nat
    OBVIOUS
  <2> HIDE DEF D
  <2> QED
    BY <1>2, <1>3, <2>1, InductiveSet
<1>5. k <= k
  OBVIOUS
<1> QED
  BY <1>4, <1>5

(* What is true of the balances of a holder.                               *)
Truth(w) ==
  /\ TrueBalance(chain, w, 0) = 0
  /\ \A n \in 0 .. Len(Happened(chain)) : TrueBalance(chain, w, n) \in Nat
  /\ \A n \in 1 .. Len(Happened(chain)) :
       /\ Change(w, n) \in Int
       /\ TrueBalance(chain, w, n) = TrueBalance(chain, w, n - 1) + Change(w, n)

(* They start at 0 and change by what happens. *)
LEMMA TruthIs ==
  ASSUME chain \in Chains, NEW w \in Wallets \ Pools
  PROVE  Truth(w)
<1> DEFINE L == Len(Happened(chain))
           d == [i \in 1 .. L |-> Change(w, i)]
           T(n) == TrueBalance(chain, w, n)
<1>1. L \in Nat /\ \A n \in 1 .. L : Change(w, n) \in Int
  <2>1. Chronicle
    BY ChronicleIs
  <2>2. L \in Nat /\ \A n \in 1 .. L : Happened(chain)[n].legs \in Seq(Legs)
    BY <2>1 DEF Chronicle
  <2> HIDE DEF L
  <2> QED
    BY <2>2, NetIs DEF Change
<1> HIDE DEF L
<1>2. ASSUME NEW n \in 0 .. L
      PROVE  \E f \in [0 .. n -> Int] : Sums(d, n, f) /\ T(n) = f[n]
  <2>0. n \in Nat /\ \A i \in 1 .. n : i \in 1 .. L /\ d[i] = Change(w, i) /\ d[i] \in Int
    BY <1>1
  <2> DEFINE Is(f) == f = [i \in 0 .. n |->
                             IF i = 0 THEN 0
                             ELSE f[i - 1] + Net(Happened(chain)[i].legs, w)]
             f == CHOOSE f : Is(f)
  <2>1. ASSUME NEW g
        PROVE  Sums(d, n, g) <=> Is(g)
    <3>1. \A i \in 0 .. n : i # 0 => d[i] = Net(Happened(chain)[i].legs, w)
      BY <2>0 DEF Change
    <3> HIDE DEF d
    <3>2. [i \in 0 .. n |-> IF i = 0 THEN 0 ELSE g[i - 1] + d[i]]
            = [i \in 0 .. n |-> IF i = 0 THEN 0
                                ELSE g[i - 1] + Net(Happened(chain)[i].legs, w)]
      BY <3>1
    <3> QED
      BY <3>2 DEF Sums
  <2> HIDE DEF d
  <2>2. \E g \in [0 .. n -> Int] : Sums(d, n, g)
    BY <2>0, SumSteps DEF Sums
  <2>3. Is(f)
    <3>1. \E g : Is(g)
      BY <2>1, <2>2
    <3> HIDE DEF Is
    <3> QED
      BY <3>1
  <2>4. T(n) = f[n]
    BY DEF TrueBalance
  <2> HIDE DEF f, T, Is
  <2>5. Sums(d, n, f)
    BY <2>1, <2>3
  <2>6. f \in [0 .. n -> Int]
    BY <2>0, <2>5, SumStepsInt, ZenonT(60) DEF Sums
  <2> QED
    BY <2>4, <2>5, <2>6
<1>3. ASSUME NEW n \in 0 .. L
      PROVE  T(n) \in Nat
  <2>1. T(n) \in Int
    <3>1. PICK f \in [0 .. n -> Int] : Sums(d, n, f) /\ T(n) = f[n]
      BY <1>2
    <3>2. n \in 0 .. n
      BY <1>1
    <3> HIDE DEF T
    <3> QED
      BY <3>1, <3>2
  <2>2. T(n) >= 0
    BY HistoryAssumption DEF L
  <2> HIDE DEF T
  <2> QED
    BY <2>1, <2>2
<1>4. T(0) = 0
  <2>1. 0 \in 0 .. L
    BY <1>1
  <2>2. PICK f \in [0 .. 0 -> Int] : Sums(d, 0, f) /\ T(0) = f[0]
    BY <1>2, <2>1
  <2> HIDE DEF T, d
  <2>3. f[0] = IF 0 = 0 THEN 0 ELSE f[0 - 1] + d[0]
    BY <2>2 DEF Sums
  <2> QED
    BY <2>2, <2>3
<1>5. ASSUME NEW n \in 1 .. L
      PROVE  T(n) = T(n - 1) + Change(w, n)
  <2>1. n \in 0 .. L /\ n - 1 \in 0 .. L /\ n \in Nat /\ n - 1 \in Nat /\ n - 1 <= n
        /\ n # 0 /\ n \in 0 .. n
    BY <1>1
  <2>2. PICK f \in [0 .. n -> Int] : Sums(d, n, f) /\ T(n) = f[n]
    BY <1>2, <2>1
  <2>3. PICK k : k = n - 1
    OBVIOUS
  <2>4. k \in 0 .. L /\ k \in Nat /\ k <= n
    BY <2>1, <2>3
  <2>5. PICK g \in [0 .. k -> Int] : Sums(d, k, g) /\ T(k) = g[k]
    BY <1>2, <2>4
  <2>6. d[n] = Change(w, n)
    OBVIOUS
  <2> HIDE DEF T, d
  <2>7. f[k] = g[k]
    BY <2>1, <2>2, <2>4, <2>5, SumSame
  <2>8. f[n] = f[n - 1] + d[n]
    BY <2>1, <2>2 DEF Sums
  <2> QED
    BY <2>2, <2>3, <2>5, <2>6, <2>7, <2>8
<1> QED
  BY <1>1, <1>3, <1>4, <1>5 DEF Truth, L

(* Nothing happens to a wallet after m, up to n.                           *)
Still(w, m, n) == \A k \in m + 1 .. n : Change(w, k) = 0

(* Then it has what it had. *)
LEMMA StillIs ==
  ASSUME NEW w, Truth(w), Len(Happened(chain)) \in Nat,
         NEW n \in 0 .. Len(Happened(chain)), NEW m \in 0 .. n, Still(w, m, n)
  PROVE  TrueBalance(chain, w, n) = TrueBalance(chain, w, m)
<1> PICK L \in Nat : L = Len(Happened(chain))
  OBVIOUS
<1> DEFINE T(k) == TrueBalance(chain, w, k)
           D == {k \in Nat : m + k <= n => T(m + k) = T(m)}
<1>1. /\ \A k \in 0 .. L : T(k) \in Nat
      /\ \A k \in 1 .. L : T(k) = T(k - 1) + Change(w, k)
      /\ n \in 0 .. L /\ m \in Nat /\ n \in Nat /\ m <= n /\ n <= L
  BY DEF Truth
<1> HIDE DEF T
<1>2. 0 \in D
  BY <1>1
<1>3. ASSUME NEW k \in D
      PROVE  k + 1 \in D
  <2> SUFFICES ASSUME m + (k + 1) <= n
               PROVE  T(m + (k + 1)) = T(m)
    OBVIOUS
  <2>1. PICK j : j = m + (k + 1)
    OBVIOUS
  <2>2. k \in Nat /\ m + k <= n /\ j \in m + 1 .. n /\ j \in 1 .. L /\ j - 1 = m + k
        /\ m + k \in 0 .. L /\ m \in 0 .. L
    BY <1>1, <2>1
  <2>3. T(m + k) = T(m)
    BY <2>2
  <2>4. T(j) = T(j - 1) + Change(w, j) /\ Change(w, j) = 0
    BY <1>1, <2>2 DEF Still
  <2>5. T(j - 1) = T(m) /\ T(m) \in Nat
    BY <1>1, <2>2, <2>3
  <2> HIDE DEF D
  <2> QED
    BY <2>1, <2>4, <2>5
<1>4. n - m \in D
  <2>1. D \in SUBSET Nat /\ n - m \in Nat
    BY <1>1
  <2> HIDE DEF D
  <2> QED
    BY <1>2, <1>3, <2>1, InductiveSet
<1>5. m + (n - m) <= n /\ m + (n - m) = n
  BY <1>1
<1>6. T(m + (n - m)) = T(m)
  BY <1>4, <1>5
<1> QED
  BY <1>5, <1>6 DEF T

(* A record is of transaction n of those that happened.                    *)
OfTx(r, n) ==
  /\ n \in 1 .. Len(Happened(chain))
  /\ r.seq = SeqAt[n]
  /\ r.ts = Happened(chain)[n].ts
  /\ Change(r.wallet, n) # 0

(* Its balance is the one the wallet really had then.                      *)
Tells(r) ==
  \E n \in 1 .. Len(Happened(chain)) :
    r.seq = SeqAt[n] /\ r.balance = TrueBalance(chain, r.wallet, n)

(* Record k is what transaction n makes of the wallet's record before.     *)
FollowsAt(recs, k, n) ==
  /\ OfTx(recs[k], n)
  /\ \E x \in Nat :
       /\ Prior(recs, k, x)
       /\ recs[k].balance = NotNegative(x + Change(recs[k].wallet, n))

(* The records of a wallet from index i to j are in turn.                  *)
Rising(recs, w, k) ==
  \A i, j \in 1 .. k :
    i < j /\ recs[i].wallet = w /\ recs[j].wallet = w => recs[i].seq < recs[j].seq

(* Each change of the wallet before n has a record as late before k.       *)
Caught(recs, w, k, n) ==
  \A q \in 1 .. n - 1 : Change(w, q) # 0 =>
    \E j \in 1 .. k - 1 : recs[j].wallet = w /\ recs[j].seq >= SeqAt[q]

(* What follows the truth, with nothing missed, is true. *)
LEMMA NextTrue ==
  ASSUME Chronicle, NEW recs \in Seq(Records), NEW k \in DOMAIN recs,
         NEW w, recs[k].wallet = w, Truth(w), NEW n, FollowsAt(recs, k, n),
         Rising(recs, w, k), Caught(recs, w, k, n),
         \A j \in 1 .. k - 1 : recs[j].wallet = w => Tells(recs[j])
  PROVE  Tells(recs[k])
<1> PICK L : L = Len(Happened(chain))
  OBVIOUS
<1> DEFINE T(i) == TrueBalance(chain, w, i)
<1>1. /\ L \in Nat /\ n \in 1 .. L
      /\ \A i \in 1 .. L : SeqAt[i] \in Nat
      /\ \A i, j \in 1 .. L : i < j <=> SeqAt[i] < SeqAt[j]
      /\ recs[k].seq = SeqAt[n]
  BY DEF Chronicle, FollowsAt, OfTx
<1>2. /\ DOMAIN recs = 1 .. Len(recs) /\ Len(recs) \in Nat /\ k \in 1 .. Len(recs)
      /\ \A j \in 1 .. Len(recs) : recs[j].seq \in Nat
  <2>1. \A j \in DOMAIN recs : recs[j] \in Records
    BY ElementOfSeq, LenProperties
  <2> QED
    BY <2>1, LenProperties DEF Records
<1>3. /\ T(0) = 0
      /\ \A i \in 0 .. L : T(i) \in Nat
      /\ T(n) = T(n - 1) + Change(w, n) /\ Change(w, n) \in Int
  BY <1>1 DEF Truth
<1>4. PICK x \in Nat : Prior(recs, k, x) /\ recs[k].balance = NotNegative(x + Change(w, n))
  BY DEF FollowsAt
<1>5. ASSUME NEW m \in 0 .. n - 1, T(m) = x,
             \A j \in 1 .. k - 1 : recs[j].wallet = w =>
               m # 0 /\ recs[j].seq <= SeqAt[m]
      PROVE  Tells(recs[k])
  <2>1. Still(w, m, n - 1)
    <3> SUFFICES ASSUME NEW q \in m + 1 .. n - 1, Change(w, q) # 0
                 PROVE  FALSE
      BY DEF Still
    <3>1. q \in 1 .. n - 1 /\ q \in 1 .. L /\ m < q
      BY <1>1
    <3>2. PICK j \in 1 .. k - 1 : recs[j].wallet = w /\ recs[j].seq >= SeqAt[q]
      BY <3>1 DEF Caught
    <3>3. m # 0 /\ recs[j].seq <= SeqAt[m]
      BY <1>5, <3>2
    <3>4. m \in 1 .. L /\ recs[j].seq \in Nat /\ SeqAt[m] \in Nat /\ SeqAt[q] \in Nat
          /\ SeqAt[m] < SeqAt[q]
      BY <1>1, <1>2, <3>1, <3>3
    <3> QED
      BY <3>2, <3>3, <3>4
  <2>2. T(n - 1) = x
    <3>1. PICK i : i = n - 1
      OBVIOUS
    <3>2. i \in 0 .. L /\ m \in 0 .. i /\ L \in Nat
      BY <1>1, <3>1
    <3>3. Still(w, m, i)
      BY <2>1, <3>1
    <3>4. TrueBalance(chain, w, i) = TrueBalance(chain, w, m)
      BY <3>2, <3>3, StillIs
    <3> QED
      BY <1>5, <3>1, <3>4
  <2> HIDE DEF T
  <2>3. T(n) = x + Change(w, n) /\ T(n) \in Nat
    BY <1>1, <1>3, <2>2
  <2>4. recs[k].balance = T(n)
    BY <1>4, <2>3 DEF NotNegative
  <2> QED
    BY <1>1, <2>4 DEF Tells, T
<1>6. CASE x = 0 /\ \A j \in 1 .. k - 1 : recs[j].wallet # recs[k].wallet
  <2>1. 0 \in 0 .. n - 1 /\ T(0) = x
    BY <1>1, <1>3, <1>6
  <2> QED
    BY <1>5, <1>6, <2>1
<1>7. ASSUME NEW p \in 1 .. k - 1, recs[p].wallet = recs[k].wallet,
             \A j \in p + 1 .. k - 1 : recs[j].wallet # recs[k].wallet,
             x = recs[p].balance
      PROVE  Tells(recs[k])
  <2>1. PICK m \in 1 .. L : recs[p].seq = SeqAt[m] /\ recs[p].balance = T(m)
    BY <1>7 DEF Tells
  <2>2. p \in 1 .. k /\ k \in 1 .. k /\ p < k
    BY <1>2
  <2>3. SeqAt[m] < SeqAt[n]
    BY <1>1, <1>7, <2>1, <2>2 DEF Rising
  <2>4. m \in 0 .. n - 1 /\ m # 0
    BY <1>1, <2>3
  <2>5. ASSUME NEW j \in 1 .. k - 1, recs[j].wallet = w
        PROVE  recs[j].seq <= SeqAt[m]
    <3>1. ~(j \in p + 1 .. k - 1)
      BY <1>7, <2>5
    <3>2. j \in 1 .. k /\ (j = p \/ j < p)
      BY <1>2, <3>1
    <3>3. j < p => recs[j].seq < recs[p].seq
      BY <1>7, <2>2, <2>5, <3>2 DEF Rising
    <3>4. recs[j].seq \in Nat /\ recs[p].seq \in Nat
      BY <1>2
    <3> QED
      BY <2>1, <3>2, <3>3, <3>4
  <2> HIDE DEF T
  <2> QED
    BY <1>5, <1>7, <2>1, <2>4, <2>5
<1> QED
  BY <1>4, <1>6, <1>7 DEF Prior

(* From index m on, all records of a wallet up to some time are. *)
LEMMA AllTrue ==
  ASSUME Chronicle, NEW recs \in Seq(Records), NEW w, Truth(w),
         NEW m \in 0 .. Len(recs), NEW t \in Int,
         Rising(recs, w, Len(recs)),
         \A k \in 1 .. m : recs[k].wallet = w /\ recs[k].ts <= t => Tells(recs[k]),
         \A k \in 1 .. Len(recs) : recs[k].wallet = w => \E n : OfTx(recs[k], n),
         \A k \in m + 1 .. Len(recs) : recs[k].wallet = w /\ recs[k].ts <= t =>
           \E n : FollowsAt(recs, k, n) /\ Caught(recs, w, k, n)
  PROVE  \A k \in 1 .. Len(recs) : recs[k].wallet = w /\ recs[k].ts <= t =>
           Tells(recs[k])
<1> PICK N \in Nat : N = Len(recs)
  BY LenProperties
<1> DEFINE D == {i \in Nat : i <= N => \A k \in 1 .. i :
                   recs[k].wallet = w /\ recs[k].ts <= t => Tells(recs[k])}
<1>1. DOMAIN recs = 1 .. N /\ \A k \in 1 .. N : recs[k].seq \in Nat /\ recs[k].ts \in Nat
  <2>1. DOMAIN recs = 1 .. N /\ \A j \in DOMAIN recs : recs[j] \in Records
    BY ElementOfSeq, LenProperties
  <2>2. \A r \in Records : r.seq \in Nat /\ r.ts \in Nat
    BY DEF Records, Times
  <2> QED
    BY <2>1, <2>2
<1>2. 0 \in D
  OBVIOUS
<1>3. ASSUME NEW i \in D
      PROVE  i + 1 \in D
  <2> PICK k : k = i + 1
    OBVIOUS
  <2> SUFFICES ASSUME k <= N, recs[k].wallet = w, recs[k].ts <= t
               PROVE  Tells(recs[k])
    <3>1. i \in Nat /\ \A j \in 1 .. k : j \in 1 .. i \/ j = k
      OBVIOUS
    <3>2. k <= N => \A j \in 1 .. i : recs[j].wallet = w /\ recs[j].ts <= t => Tells(recs[j])
      OBVIOUS
    <3> QED
      BY <3>1, <3>2
  <2>1. /\ i \in Nat /\ k \in 1 .. N /\ i = k - 1
        /\ \A j \in 1 .. k - 1 : recs[j].wallet = w /\ recs[j].ts <= t => Tells(recs[j])
    OBVIOUS
  <2> HIDE DEF D
  <2>2. CASE k \in 1 .. m
    BY <2>2
  <2>3. CASE k \in m + 1 .. N
    <3>1. PICK n : FollowsAt(recs, k, n) /\ Caught(recs, w, k, n)
      BY <2>3
    <3>2. Rising(recs, w, k)
      <4>1. \A j \in 1 .. k : j \in 1 .. N
        BY <2>1
      <4> QED
        BY <4>1 DEF Rising
    <3>3. ASSUME NEW j \in 1 .. k - 1, recs[j].wallet = w
          PROVE  recs[j].ts <= t
      <4>1. j \in 1 .. N /\ j < k
        BY <2>1
      <4>2. PICK q : OfTx(recs[j], q)
        BY <3>3, <4>1
      <4>3. recs[j].seq < recs[k].seq
        BY <2>1, <3>3, <4>1 DEF Rising
      <4>4. /\ q \in 1 .. Len(Happened(chain)) /\ n \in 1 .. Len(Happened(chain))
            /\ SeqAt[q] < SeqAt[n]
            /\ recs[j].ts = Happened(chain)[q].ts /\ recs[k].ts = Happened(chain)[n].ts
        BY <3>1, <4>2, <4>3 DEF FollowsAt, OfTx
      <4>5. recs[j].ts <= recs[k].ts
        <5>1. q < n /\ q \in Int /\ n \in Int
          BY <4>4 DEF Chronicle
        <5>2. q <= n
          BY <5>1
        <5> QED
          BY <4>4, <5>2 DEF Chronicle
      <4> QED
        BY <1>1, <2>1, <4>1, <4>5
    <3>4. \A j \in 1 .. k - 1 : recs[j].wallet = w => Tells(recs[j])
      BY <2>1, <3>3
    <3>5. k \in DOMAIN recs
      BY <1>1, <2>1
    <3> QED
      BY <3>1, <3>2, <3>4, <3>5, NextTrue
  <2> QED
    BY <2>1, <2>2, <2>3
<1>4. N \in D
  <2>1. D \in SUBSET Nat
    OBVIOUS
  <2> HIDE DEF D
  <2> QED
    BY <1>2, <1>3, <2>1, InductiveSet
<1>5. N <= N
  OBVIOUS
<1> QED
  BY <1>4, <1>5

AllOfTx(recs) == \A k \in DOMAIN recs : \E n : OfTx(recs[k], n)
AllFollow(recs) == \A k \in DOMAIN recs : \E n : FollowsAt(recs, k, n)
AllTell(recs) == \A k \in DOMAIN recs : recs[k].wallet \notin Pools => Tells(recs[k])

(* The records of slot s: of its transactions and of all of them, in order.*)
News(s, recs) ==
  /\ Ordered(recs)
  /\ AllOfTx(recs)
  /\ \A k \in DOMAIN recs : \E i \in DOMAIN chain[s].txs : recs[k].seq = SeqNo(s, i)
  /\ \A i \in DOMAIN chain[s].txs : \A w \in Wallets \ Pools :
       Net(chain[s].txs[i], w) # 0 =>
         \E k \in DOMAIN recs : recs[k].wallet = w /\ recs[k].seq = SeqNo(s, i)

(* The records that ingesting a slot adds are such, and follow the latest  *)
(* balances. *)
LEMMA IngestNews ==
  ASSUME Typed, NEW s \in Slots, NEW from, NEW first, IngestSlot(s, from, first)
  PROVE  \E recs \in Seq(Records) :
           /\ balances' = balances \o recs
           /\ News(s, recs)
           /\ LatestOf(balances) = latest =>
                \A k \in DOMAIN recs : \E n : FollowsAt(balances \o recs, Len(balances) + k, n)
<1> PICK after : after = BalancesAfter(s)
  OBVIOUS
<1> PICK recs : recs = RecordsOf(s, after)
  OBVIOUS
<1> PICK all : all = balances \o recs
  OBVIOUS
<1> DEFINE N == Len(chain[s].txs)
<1>1. balances' = balances \o recs
  BY DEF IngestSlot
<1>2. /\ chain \in Chains /\ balances \in Seq(Records) /\ latest \in [Wallets -> Nat]
      /\ \A w \in Wallets \ Pools : w \notin excluded
  BY DEF Typed
<1>3. recs \in Seq(Records) /\ Recorded(s, after, N, recs)
  BY <1>2, RecordsIs
<1>4. DOMAIN chain[s].txs = 1 .. N
  BY <1>2, BlockIs
<1>5. Chronicle
  BY <1>2, ChronicleIs
<1> HIDE DEF N
<1>6. /\ Ordered(recs)
      /\ \A k \in DOMAIN recs :
           /\ recs[k].ts = chain[s].ts
           /\ \E i \in 1 .. N : /\ recs[k].seq = s * SEQ_MULT + i
                                /\ Net(chain[s].txs[i], recs[k].wallet) # 0
      /\ \A i \in 1 .. N : \A w :
           w \notin excluded /\ Net(chain[s].txs[i], w) # 0 =>
             \E k \in DOMAIN recs : recs[k].wallet = w /\ recs[k].seq = s * SEQ_MULT + i
      /\ LatestOf(balances) = latest =>
           \A k \in DOMAIN recs : \E i \in 1 .. N : Follows(all, Len(balances) + k, s, i)
  BY <1>2, <1>3 DEF Recorded
<1>7. ASSUME NEW i \in 1 .. N, NEW r, r.seq = SeqNo(s, i), r.ts = chain[s].ts,
             Net(chain[s].txs[i], r.wallet) # 0
      PROVE  \E n : OfTx(r, n) /\ Change(r.wallet, n) = Net(chain[s].txs[i], r.wallet)
  <2>1. PICK n \in 1 .. Len(Happened(chain)) :
             /\ SeqAt[n] = SeqNo(s, i)
             /\ Happened(chain)[n] = [ts |-> chain[s].ts, legs |-> chain[s].txs[i]]
    BY <1>4, <1>5 DEF Chronicle
  <2>2. Change(r.wallet, n) = Net(chain[s].txs[i], r.wallet)
    BY <2>1 DEF Change
  <2> QED
    BY <1>7, <2>1, <2>2 DEF OfTx
<1>8. AllOfTx(recs)
  <2> SUFFICES ASSUME NEW k \in DOMAIN recs
               PROVE  \E n : OfTx(recs[k], n)
    BY DEF AllOfTx
  <2>1. PICK i \in 1 .. N : /\ recs[k].seq = s * SEQ_MULT + i
                            /\ Net(chain[s].txs[i], recs[k].wallet) # 0
    BY <1>6
  <2> QED
    BY <1>6, <1>7, <2>1 DEF SeqNo
<1>9. News(s, recs)
  <2>1. \A k \in DOMAIN recs : \E i \in DOMAIN chain[s].txs : recs[k].seq = SeqNo(s, i)
    BY <1>4, <1>6 DEF SeqNo
  <2>2. \A i \in DOMAIN chain[s].txs : \A w \in Wallets \ Pools :
          Net(chain[s].txs[i], w) # 0 =>
            \E k \in DOMAIN recs : recs[k].wallet = w /\ recs[k].seq = SeqNo(s, i)
    BY <1>2, <1>4, <1>6 DEF SeqNo
  <2> QED
    BY <1>6, <1>8, <2>1, <2>2 DEF News
<1>10. ASSUME LatestOf(balances) = latest, NEW k \in DOMAIN recs
       PROVE  \E n : FollowsAt(all, Len(balances) + k, n)
  <2> PICK m : m = Len(balances) + k
    OBVIOUS
  <2>1. all[m] = recs[k]
    BY <1>2, <1>3, ConcatIs
  <2>2. PICK i \in 1 .. N : Follows(all, m, s, i)
    BY <1>6, <1>10
  <2>3. all[m].seq = SeqNo(s, i)
    BY <2>2 DEF Follows, SeqNo
  <2>4. Net(chain[s].txs[i], all[m].wallet) # 0
    <3>1. PICK j \in 1 .. N : /\ recs[k].seq = SeqNo(s, j)
                              /\ Net(chain[s].txs[j], recs[k].wallet) # 0
      BY <1>6 DEF SeqNo
    <3>2. SeqNo(s, i) = SeqNo(s, j) /\ s \in Nat
          /\ i \in 1 .. SEQ_MULT /\ j \in 1 .. SEQ_MULT
      <4>1. N \in 0 .. SEQ_MULT /\ s \in Nat
        BY <1>2, BlockIs DEF N
      <4>2. SEQ_MULT \in Nat
        BY DEF SEQ_MULT
      <4> QED
        BY <2>1, <2>3, <3>1, <4>1, <4>2
    <3>3. i = j
      BY <3>2, SeqNoIs
    <3> QED
      BY <2>1, <3>1, <3>3
  <2>5. PICK n : OfTx(all[m], n) /\ Change(all[m].wallet, n) = Net(chain[s].txs[i], all[m].wallet)
    BY <1>6, <1>7, <2>1, <2>3, <2>4
  <2>6. FollowsAt(all, m, n)
    BY <2>2, <2>5 DEF Follows, FollowsAt
  <2> QED
    BY <2>6
<1> QED
  BY <1>1, <1>3, <1>9, <1>10

(* r is how q begins.                                                      *)
Begins(r, q) ==
  \A k \in DOMAIN r : k \in Nat /\ k >= 1 /\ \A j \in 1 .. k : j \in DOMAIN q /\ r[j] = q[j]

(* A sequence begins what is made by adding to it. *)
LEMMA BeginsIs ==
  ASSUME NEW r \in Seq(Records), NEW q \in Seq(Records)
  PROVE  Begins(r, r \o q)
<1> PICK c : c = r \o q
  OBVIOUS
<1>1. Joined(r, q, c)
  BY JoinedIs
<1>2. Begins(r, c)
  BY <1>1 DEF Joined, Begins
<1> QED
  BY <1>2

(* What is so of records is so of those they begin with. *)
LEMMA BeginsAll ==
  ASSUME NEW r, NEW q, Begins(r, q)
  PROVE  /\ AllOfTx(q) => AllOfTx(r)
         /\ AllFollow(q) => AllFollow(r)
         /\ AllFollow(r) =>
              \A k \in DOMAIN r : \E n : FollowsAt(q, k, n)
<1>1. \A k \in DOMAIN r : k \in DOMAIN q /\ r[k] = q[k]
  BY DEF Begins
<1>2. ASSUME NEW k \in DOMAIN r, NEW n, FollowsAt(q, k, n)
      PROVE  FollowsAt(r, k, n)
  <2>1. k \in Nat /\ k >= 1 /\ \A j \in 1 .. k : q[j] = r[j]
    BY DEF Begins
  <2>2. PICK x \in Nat : Prior(q, k, x) /\ q[k].balance = NotNegative(x + Change(q[k].wallet, n))
    BY <1>2 DEF FollowsAt
  <2>3. q[k] = r[k] /\ Prior(r, k, x)
    BY <2>1, <2>2, PriorSame
  <2> QED
    BY <1>2, <2>2, <2>3 DEF FollowsAt
<1>3. ASSUME NEW k \in DOMAIN r, NEW n, FollowsAt(r, k, n)
      PROVE  FollowsAt(q, k, n)
  <2>1. k \in Nat /\ k >= 1 /\ \A j \in 1 .. k : r[j] = q[j]
    BY DEF Begins
  <2>2. PICK x \in Nat : Prior(r, k, x) /\ r[k].balance = NotNegative(x + Change(r[k].wallet, n))
    BY <1>3 DEF FollowsAt
  <2>3. q[k] = r[k] /\ Prior(q, k, x)
    BY <2>1, <2>2, PriorSame
  <2> QED
    BY <1>3, <2>2, <2>3 DEF FollowsAt
<1> QED
  BY <1>1, <1>2, <1>3 DEF AllOfTx, AllFollow

(* Until a record is lost, a write, torn or not, leaves in the file what   *)
(* memory begins with, or what was there. *)
LEMMA FileBegins ==
  ASSUME Durable, up, Flush \/ Crash, ~cut'
  PROVE  ~cut /\ (Reloaded' = Reloaded \/ Begins(Reloaded', balances))
<1> PICK w : w = Head(todo)
  OBVIOUS
<1>1. /\ Typed /\ todo \in Seq(Writes) /\ balances \in Seq(Records)
      /\ Reloaded \in Seq(Records)
  BY ReloadedType DEF Durable, Typed
<1>2. ~cut
  BY <1>1, FlushIs, CrashIs
<1>3. \/ todo = <<Rewrite(balances)>>
      \/ /\ \A j \in DOMAIN todo : todo[j].to # "log"
         /\ Reloaded \o RecsOf(todo) = balances
  BY <1>2 DEF Durable, FileKept
<1>4. /\ todo # <<>> => w = todo[1] /\ 1 \in DOMAIN todo /\ w.recs \in Seq(Records)
      /\ todo = <<Rewrite(balances)>> => w.to = "log" /\ w.recs = balances
  <2>1. todo # <<>> => w = todo[1] /\ 1 \in DOMAIN todo /\ w \in Writes
    BY <1>1
  <2>2. todo = <<Rewrite(balances)>> => w = Rewrite(balances)
    OBVIOUS
  <2> QED
    BY <2>1, <2>2, WriteIs DEF Rewrite
<1>5. ASSUME todo # <<>>, w.to = "line", NEW c, c = Reloaded \o w.recs
      PROVE  Begins(c, balances)
  <2>1. Reloaded \o RecsOf(todo) = balances
    BY <1>3, <1>4, <1>5
  <2>2. RecsOf(todo) = w.recs \o RecsOf(Tail(todo)) /\ RecsOf(Tail(todo)) \in Seq(Records)
    <3>1. Tail(todo) \in Seq(Writes)
      BY <1>1, <1>5
    <3> QED
      BY <1>1, <1>5, <3>1, RecsOfHead, RecsOfType
  <2>3. balances = c \o RecsOf(Tail(todo))
    <3>1. \A x, y, z \in Seq(Records) : (x \o y) \o z = x \o (y \o z)
      BY ConcatAssociative
    <3>2. (Reloaded \o w.recs) \o RecsOf(Tail(todo)) = Reloaded \o (w.recs \o RecsOf(Tail(todo)))
      BY <1>1, <1>4, <1>5, <2>2, <3>1
    <3> QED
      BY <1>5, <2>1, <2>2, <3>2
  <2>4. c \in Seq(Records)
    BY <1>1, <1>4, <1>5
  <2> QED
    BY <2>2, <2>3, <2>4, BeginsIs
<1>6. CASE Flush
  <2>1. /\ todo # <<>>
        /\ w.to = "line" => Reloaded' = Reloaded \o w.recs
        /\ w.to = "log" => Reloaded' = w.recs
        /\ w.to \notin {"line", "log"} => Reloaded' = Reloaded
    <3>1. w.to \notin {"line", "log"} => Reloaded' = Reloaded
      BY <1>1, <1>6, FlushIs
    <3> QED
      BY <1>1, <1>2, <1>6, <3>1, FlushIs
  <2>2. CASE w.to = "line"
    BY <1>2, <1>5, <2>1, <2>2
  <2>3. CASE w.to = "log"
    <3>1. Reloaded' = balances
      BY <1>3, <1>4, <2>1, <2>3
    <3>2. Begins(balances, balances)
      <4>1. Len(balances) \in Nat /\ DOMAIN balances = 1 .. Len(balances)
        BY <1>1, LenProperties
      <4> QED
        BY <4>1 DEF Begins
    <3> QED
      BY <1>2, <3>1, <3>2
  <2>4. CASE w.to \notin {"line", "log"}
    <3>1. w.to \notin {"line", "log"} => Reloaded' = Reloaded
      BY <2>1
    <3> QED
      BY <1>2, <2>4, <3>1
  <2> QED
    BY <2>2, <2>3, <2>4
<1>7. CASE Crash
  <2>1. PICK q \in Seq(Records) : Reloaded' = Reloaded \o q /\ Torn(q)
    BY <1>1, <1>7, CrashIs
  <2>2. CASE q = <<>>
    BY <1>1, <1>2, <2>1, <2>2, ConcatEmptySeq
  <2>3. CASE q # <<>>
    BY <1>2, <1>5, <2>1, <2>3 DEF Torn
  <2> QED
    BY <2>2, <2>3
<1> QED
  BY <1>6, <1>7

(* Until a record is lost, each record is of a transaction, and until one  *)
(* is pruned it follows the one of its wallet before it.                   *)
Sourced ==
  ~cut =>
    /\ AllOfTx(Reloaded) /\ (up => AllOfTx(balances))
    /\ pruned = 0 => AllFollow(Reloaded) /\ (up => AllFollow(balances))

(* Until something is out of turn, the balances are the true ones.         *)
Truthful ==
  Straight /\ FromTheStart =>
    /\ up => AllTell(balances)
    /\ ~up => AllTell(Reloaded)

(* On the same chain the same is so of the same records. *)
LEMMA SoStill ==
  ASSUME chain' = chain, NEW r
  PROVE  /\ r = Reloaded' =>
              /\ AllOfTx(r) => AllOfTx(Reloaded)'
              /\ AllFollow(r) => AllFollow(Reloaded)'
              /\ AllTell(r) => AllTell(Reloaded)'
         /\ r = balances' =>
              /\ AllOfTx(r) => AllOfTx(balances)'
              /\ AllFollow(r) => AllFollow(balances)'
              /\ AllTell(r) => AllTell(balances)'
<1>1. SeqAt' = SeqAt
  BY DEF SeqAt, SeqsAt, SeqNo
<1>2. ASSUME r = Reloaded'
      PROVE  /\ AllOfTx(r) => AllOfTx(Reloaded)'
             /\ AllFollow(r) => AllFollow(Reloaded)'
             /\ AllTell(r) => AllTell(Reloaded)'
  <2>1. AllOfTx(r) => AllOfTx(Reloaded)'
    BY <1>1, <1>2 DEF AllOfTx, OfTx, Change
  <2>2. AllFollow(r) => AllFollow(Reloaded)'
    BY <1>1, <1>2 DEF AllFollow, FollowsAt, OfTx, Change, Prior
  <2>3. AllTell(r) => AllTell(Reloaded)'
    BY <1>1, <1>2 DEF AllTell, Tells
  <2> QED
    BY <2>1, <2>2, <2>3
<1>3. ASSUME r = balances'
      PROVE  /\ AllOfTx(r) => AllOfTx(balances)'
             /\ AllFollow(r) => AllFollow(balances)'
             /\ AllTell(r) => AllTell(balances)'
  <2>1. AllOfTx(r) => AllOfTx(balances)'
    BY <1>1, <1>3 DEF AllOfTx, OfTx, Change
  <2>2. AllFollow(r) => AllFollow(balances)'
    BY <1>1, <1>3 DEF AllFollow, FollowsAt, OfTx, Change, Prior
  <2>3. AllTell(r) => AllTell(balances)'
    BY <1>1, <1>3 DEF AllTell, Tells
  <2> QED
    BY <2>1, <2>2, <2>3
<1> QED
  BY <1>2, <1>3

(* Each element of a joint sequence is of one of the two. *)
LEMMA JoinedEach ==
  ASSUME NEW r, NEW q, NEW c, Joined(r, q, c), NEW k \in DOMAIN c
  PROVE  \/ k \in DOMAIN r /\ c[k] = r[k]
         \/ \E l \in DOMAIN q : k = Len(r) + l /\ c[k] = q[l]
<1> SUFFICES ASSUME k \notin DOMAIN r
             PROVE  \E l \in DOMAIN q : k = Len(r) + l /\ c[k] = q[l]
  BY DEF Joined
<1>1. k - Len(r) \in DOMAIN q /\ k = Len(r) + (k - Len(r))
  BY DEF Joined
<1> QED
  BY <1>1 DEF Joined

(* Sourced is inductive relative to Reproducible. *)
LEMMA NextSourced == Reproducible /\ Sourced /\ [Next]_vars => Sourced'
<1> SUFFICES ASSUME Reproducible, Sourced, [Next]_vars, ~cut'
             PROVE  /\ AllOfTx(Reloaded)' /\ (up' => AllOfTx(balances)')
                    /\ pruned' = 0 => AllFollow(Reloaded)' /\ (up' => AllFollow(balances)')
  BY DEF Sourced
<1>1. Durable /\ LatestKept /\ Typed /\ balances \in Seq(Records)
  BY DEF Reproducible, Durable, Typed
<1>2. /\ ~cut => AllOfTx(Reloaded) /\ (up => AllOfTx(balances))
      /\ ~cut /\ pruned = 0 => AllFollow(Reloaded) /\ (up => AllFollow(balances))
  BY DEF Sourced
<1> PICK r : r = Reloaded'
  OBVIOUS
<1> PICK q : q = balances'
  OBVIOUS
<1> SUFFICES ASSUME chain' = chain =>
                      /\ AllOfTx(r) => AllOfTx(Reloaded)'
                      /\ AllFollow(r) => AllFollow(Reloaded)'
                      /\ AllOfTx(q) => AllOfTx(balances)'
                      /\ AllFollow(q) => AllFollow(balances)'
             PROVE  /\ chain' = chain
                    /\ AllOfTx(r) /\ (up' => AllOfTx(q))
                    /\ pruned' = 0 => AllFollow(r) /\ (up' => AllFollow(q))
  BY SoStill
<1>3. ASSUME NEW s \in Slots, processSlot(s) \/ backfill(s)
      PROVE  /\ chain' = chain /\ AllOfTx(r) /\ AllOfTx(q)
             /\ pruned' = 0 => AllFollow(r) /\ AllFollow(q)
  <2>1. /\ up /\ up' /\ chain' = chain /\ r = Reloaded
        /\ cut' = cut /\ pruned' = pruned
        /\ \E from, first : IngestSlot(s, from, first)
    BY <1>1, <1>3, IngestStep
  <2>2. PICK recs \in Seq(Records) :
           /\ q = balances \o recs
           /\ News(s, recs)
           /\ LatestOf(balances) = latest =>
                \A k \in DOMAIN recs : \E n : FollowsAt(q, Len(balances) + k, n)
    BY <1>1, <2>1, IngestNews
  <2>3. Begins(balances, q) /\ Joined(balances, recs, q)
    BY <1>1, <2>2, BeginsIs, JoinedIs
  <2>4. AllOfTx(r) /\ AllOfTx(balances) /\ (pruned = 0 => AllFollow(r) /\ AllFollow(balances))
    BY <1>2, <2>1
  <2>5. \A k \in DOMAIN q : \/ k \in DOMAIN balances /\ q[k] = balances[k]
                            \/ \E l \in DOMAIN recs : k = Len(balances) + l /\ q[k] = recs[l]
    BY <2>3, JoinedEach
  <2>6. AllOfTx(q)
    BY <2>2, <2>4, <2>5 DEF AllOfTx, News
  <2>7. ASSUME pruned = 0
        PROVE  AllFollow(q)
    <3>1. LatestOf(balances) = latest
      BY <1>1, <2>1, <2>7 DEF LatestKept
    <3>2. \A k \in DOMAIN balances : \E n : FollowsAt(q, k, n)
      BY <2>3, <2>4, <2>7, BeginsAll
    <3>3. \A l \in DOMAIN recs : \E n : FollowsAt(q, Len(balances) + l, n)
      BY <2>2, <3>1
    <3> QED
      BY <2>5, <3>2, <3>3 DEF AllFollow
  <2> QED
    BY <2>1, <2>4, <2>6, <2>7
<1>4. CASE trackCoin \/ UNCHANGED vars
  <2>1. /\ chain' = chain /\ r = Reloaded /\ q = balances /\ up' = up
        /\ cut' = cut /\ pruned' = pruned
    BY <1>4 DEF trackCoin, vars, disk, memory, faults, Reloaded
  <2> QED
    BY <1>2, <2>1
<1>5. ASSUME NEW before \in Times, prune(before)
      PROVE  /\ chain' = chain /\ AllOfTx(r) /\ AllOfTx(q) /\ pruned' # 0
  <2>1. /\ chain' = chain /\ r = Reloaded /\ q = Kept(balances, before) /\ up
        /\ cut' = cut /\ pruned' = before /\ before > pruned
    BY <1>5 DEF prune, disk, Reloaded
  <2>2. pruned \in Nat /\ before \in Int
    BY <1>1 DEF Typed, Times
  <2>3. \A n \in DOMAIN q : \E i \in DOMAIN balances : q[n] = balances[i]
    BY <1>1, <2>1, <2>2, KeptIs
  <2>4. AllOfTx(r) /\ AllOfTx(balances)
    BY <1>2, <2>1
  <2> QED
    BY <2>1, <2>2, <2>3, <2>4 DEF AllOfTx
<1>6. CASE Flush \/ Crash
  <2>1. up /\ chain' = chain /\ pruned' = pruned /\ (up' => q = balances)
    BY <1>6 DEF Flush, Crash, memory
  <2>2. ~cut /\ (r = Reloaded \/ Begins(r, balances))
    BY <1>1, <1>6, <2>1, FileBegins
  <2>3. /\ AllOfTx(Reloaded) /\ AllOfTx(balances)
        /\ pruned = 0 => AllFollow(Reloaded) /\ AllFollow(balances)
    BY <1>2, <2>1, <2>2
  <2>4. AllOfTx(r) /\ (pruned = 0 => AllFollow(r))
    BY <2>2, <2>3, BeginsAll
  <2> QED
    BY <2>1, <2>3, <2>4
<1>7. CASE Restart
  <2>1. /\ chain' = chain /\ r = Reloaded /\ q = Reloaded
        /\ cut' = cut /\ pruned' = pruned
    BY <1>1, <1>7, RestartIs
  <2> QED
    BY <1>2, <2>1
<1> QED
  BY <1>3, <1>4, <1>5, <1>6, <1>7 DEF Next

(* A slot in turn adds true balances to true ones. *)
LEMMA IngestTrue ==
  ASSUME chain \in Chains, NEW old \in Seq(Records), NEW s \in Slots,
         NEW recs \in Seq(Records), NEW all, all = old \o recs, News(s, recs),
         \A k \in DOMAIN recs : \E n : FollowsAt(all, Len(old) + k, n),
         AllOfTx(old), AllTell(old), Ordered(all),
         NEW from \in Int,
         \A t \in Slots : t <= from => chain[t].txs = <<>>,
         \A t \in Slots : from < t /\ t < s => HasLater(old, t)
  PROVE  AllTell(all)
<1> SUFFICES ASSUME NEW w \in Wallets \ Pools
             PROVE  \A k \in DOMAIN all : all[k].wallet = w => Tells(all[k])
  <2>1. all \in Seq(Records)
    BY JoinedIs
  <2>2. \A k \in DOMAIN all : all[k] \in Records
    BY <2>1, ElementOfSeq, LenProperties
  <2>3. \A k \in DOMAIN all : all[k].wallet \in Wallets
    BY <2>2 DEF Records
  <2> QED
    BY <2>3 DEF AllTell
<1> DEFINE m == Len(old)
<1>1. all \in Seq(Records) /\ Joined(old, recs, all) /\ Chronicle /\ Truth(w)
  BY JoinedIs, ChronicleIs, TruthIs
<1>2. /\ m \in Nat /\ DOMAIN old = 1 .. m /\ DOMAIN all = 1 .. Len(all)
      /\ Len(all) \in Nat /\ m \in 0 .. Len(all) /\ Len(recs) \in Nat
      /\ DOMAIN recs = 1 .. Len(recs) /\ Len(all) = m + Len(recs)
      /\ \A k \in 1 .. m : all[k] = old[k]
      /\ \A l \in DOMAIN recs : all[m + l] = recs[l]
  BY <1>1 DEF Joined
<1> HIDE DEF m
<1>3. \A k \in DOMAIN all : all[k].seq \in Nat /\ all[k].ts \in Nat /\ all[k].ts <= MaxTime
  <2>1. \A r \in Records : r.seq \in Nat /\ r.ts \in Nat /\ r.ts <= MaxTime
    BY DEF Records, Times
  <2> QED
    BY <1>1, <1>2, <2>1, ElementOfSeq
<1>4. Rising(all, w, Len(all))
  <2> SUFFICES ASSUME NEW i \in DOMAIN all, NEW j \in DOMAIN all, i < j,
                      all[i].wallet = w, all[j].wallet = w
               PROVE  all[i].seq < all[j].seq
    BY <1>2 DEF Rising
  <2> QED
    BY DEF Ordered
<1>5. \A k \in 1 .. m : all[k].wallet = w => Tells(all[k])
  BY <1>2 DEF AllTell
<1>6. \A k \in 1 .. Len(all) : \E n : OfTx(all[k], n)
  <2> SUFFICES ASSUME NEW k \in DOMAIN all
               PROVE  \E n : OfTx(all[k], n)
    BY <1>2
  <2>1. \/ k \in DOMAIN old /\ all[k] = old[k]
        \/ \E l \in DOMAIN recs : k = Len(old) + l /\ all[k] = recs[l]
    BY <1>1, JoinedEach
  <2> QED
    BY <2>1 DEF AllOfTx, News
<1>7. ASSUME NEW k \in m + 1 .. Len(all), all[k].wallet = w
      PROVE  \E n : FollowsAt(all, k, n) /\ Caught(all, w, k, n)
  <2>1. PICK l \in DOMAIN recs : k = m + l
    <3>1. k - m \in DOMAIN recs /\ k = m + (k - m)
      BY <1>2
    <3> QED
      BY <3>1
  <2>2. PICK n : FollowsAt(all, k, n)
    BY <2>1 DEF m
  <2>3. n \in 1 .. Len(Happened(chain)) /\ all[k].seq = SeqAt[n]
    BY <2>2 DEF FollowsAt, OfTx
  <2>4. PICK e \in DOMAIN chain[s].txs : SeqAt[n] = SeqNo(s, e)
    BY <1>2, <2>1, <2>3 DEF News
  <2>5. ASSUME NEW q \in 1 .. n - 1, Change(w, q) # 0
        PROVE  \E j \in 1 .. k - 1 : all[j].wallet = w /\ all[j].seq >= SeqAt[q]
    <3>1. q \in 1 .. Len(Happened(chain)) /\ q < n
      BY <1>1, <2>3 DEF Chronicle
    <3>2. SeqAt[q] < SeqAt[n] /\ SeqAt[q] \in Nat /\ SeqAt[n] \in Nat
      BY <1>1, <2>3, <3>1 DEF Chronicle
    <3>3. PICK t \in Slots : \E i \in DOMAIN chain[t].txs :
            /\ SeqAt[q] = SeqNo(t, i)
            /\ Happened(chain)[q] = [ts |-> chain[t].ts, legs |-> chain[t].txs[i]]
      BY <1>1, <3>1 DEF Chronicle
    <3>4. PICK i \in DOMAIN chain[t].txs :
            /\ SeqAt[q] = SeqNo(t, i)
            /\ Happened(chain)[q] = [ts |-> chain[t].ts, legs |-> chain[t].txs[i]]
      BY <3>3
    <3>5. Net(chain[t].txs[i], w) # 0
      BY <2>5, <3>4 DEF Change
    <3>6. t <= s /\ t \in Nat /\ s \in Nat
      <4>1. /\ t \in Nat /\ s \in Nat
            /\ DOMAIN chain[t].txs = 1 .. Len(chain[t].txs)
            /\ Len(chain[t].txs) \in 0 .. SEQ_MULT
            /\ DOMAIN chain[s].txs = 1 .. Len(chain[s].txs)
            /\ Len(chain[s].txs) \in 0 .. SEQ_MULT
        BY BlockIs
      <4>2. SEQ_MULT \in Nat
        BY DEF SEQ_MULT
      <4>3. i \in 1 .. SEQ_MULT /\ e \in 1 .. SEQ_MULT
        BY <4>1, <4>2
      <4>4. SeqNo(t, i) <= SeqNo(s, e)
        BY <2>4, <3>2, <3>4
      <4> QED
        BY <4>1, <4>3, <4>4, SeqNoIs
    <3>7. from < t
      <4>1. chain[t].txs # <<>>
        OBVIOUS
      <4> QED
        BY <3>6, <4>1
    <3>8. CASE t < s
      <4>1. HasLater(old, t)
        BY <3>7, <3>8
      <4>2. PICK j \in DOMAIN old : old[j].wallet = w /\ old[j].seq >= SeqNo(t, i)
        BY <3>5, <4>1 DEF HasLater, SeqNo
      <4>3. j \in 1 .. k - 1 /\ all[j] = old[j]
        BY <1>2, <2>1
      <4> QED
        BY <3>4, <4>2, <4>3
    <3>9. CASE t = s
      <4>1. PICK d \in DOMAIN recs : recs[d].wallet = w /\ recs[d].seq = SeqNo(s, i)
        BY <3>5, <3>9 DEF News
      <4>2. PICK j : j = m + d
        OBVIOUS
      <4>3. j \in DOMAIN all /\ all[j].wallet = w /\ all[j].seq = SeqAt[q]
        BY <1>2, <3>4, <3>9, <4>1, <4>2
      <4>4. j < k
        <5>1. j \in 1 .. Len(all) /\ k \in 1 .. Len(all) /\ j \in Nat /\ k \in Nat
          BY <1>2, <4>3
        <5>2. CASE k < j
          <6>1. all[k].seq < all[j].seq
            BY <1>4, <1>7, <4>3, <5>1, <5>2 DEF Rising
          <6> QED
            BY <2>3, <3>2, <4>3, <6>1
        <5>3. CASE k = j
          BY <2>3, <3>2, <4>3, <5>3
        <5> QED
          BY <5>1, <5>2, <5>3
      <4>5. j \in 1 .. k - 1 /\ all[j].seq >= SeqAt[q]
        BY <1>2, <3>2, <4>3, <4>4
      <4> QED
        BY <4>3, <4>5
    <3> QED
      BY <3>6, <3>8, <3>9
  <2> QED
    BY <2>2, <2>5 DEF Caught
<1>8. MaxTime \in Int
  BY ChainAssumption
<1>9. \A k \in 1 .. Len(all) : all[k].wallet = w /\ all[k].ts <= MaxTime => Tells(all[k])
  <2>1. \A k \in 1 .. m : all[k].wallet = w /\ all[k].ts <= MaxTime => Tells(all[k])
    BY <1>5
  <2>2. \A k \in 1 .. Len(all) : all[k].wallet = w => \E n : OfTx(all[k], n)
    BY <1>6
  <2>3. \A k \in m + 1 .. Len(all) : all[k].wallet = w /\ all[k].ts <= MaxTime =>
          \E n : FollowsAt(all, k, n) /\ Caught(all, w, k, n)
    BY <1>7
  <2> QED
    BY <1>1, <1>2, <1>4, <1>8, <2>1, <2>2, <2>3, AllTrue
<1> QED
  BY <1>2, <1>3, <1>9

(* What precedes a slot that comes in turn: no transfer that counts, up to *)
(* where the balances are true. *)
LEMMA InTurnIs ==
  ASSUME Reproducible, Truthful, NEW s \in Slots, processSlot(s) \/ backfill(s),
         Straight', FromTheStart'
  PROVE  /\ Straight /\ ~cut /\ base' \in Int
         /\ AllTell(balances)
         /\ \A t \in Slots : t <= base' => chain[t].txs = <<>>
         /\ \A t \in Slots : base' < t /\ t < s => HasLater(balances, t)
<1>1. Durable /\ StraightKept /\ Typed
  BY DEF Reproducible, Durable
<1>2. /\ up /\ todo = <<>> /\ chain' = chain /\ interrupted' = interrupted
      /\ detours' \in {detours, detours + 1} /\ detours \in Nat /\ base \in Int
      /\ s \in Nat
  BY <1>1, IngestStep DEF Typed, Slots
<1>3. Straight
  BY <1>2 DEF Straight
<1>4. /\ ~cut /\ Complete(balances, meta.watermark)
      /\ highest = -1 \/ highest <= meta.watermark
      /\ ~meta.started => balances = <<>>
      /\ meta.watermark \in -2 .. LastSlot /\ highest \in Int
  BY <1>1, <1>2, <1>3, Between
<1>5. ~backfill(s)
  <2> SUFFICES ASSUME backfill(s)
               PROVE  FALSE
    OBVIOUS
  <2>1. s \in meta.watermark + 1 .. highest
    BY DEF backfill, Missing
  <2> QED
    BY <1>2, <1>4, <2>1
<1>6. base' \in Int => \A t \in Slots : t <= base' => chain[t].txs = <<>>
  BY <1>2 DEF FromTheStart, Slots
<1>7. CASE meta.started
  <2>1. /\ detours' = detours + (IF s = meta.watermark + 1 THEN 0 ELSE 1)
        /\ base' = base
    BY <1>5, <1>7 DEF processSlot
  <2>2. s = meta.watermark + 1
    BY <1>2, <2>1 DEF Straight
  <2>3. FromTheStart
    BY <1>2, <2>1 DEF FromTheStart
  <2>4. AllTell(balances)
    BY <1>2, <1>3, <2>3 DEF Truthful
  <2>5. \A t \in Slots : t < s => t <= meta.watermark
    BY <1>2, <1>4, <2>2 DEF Slots
  <2> QED
    BY <1>2, <1>3, <1>4, <1>6, <2>1, <2>4, <2>5 DEF Complete
<1>8. CASE ~meta.started
  <2>1. base' = s - 1
    BY <1>5, <1>8 DEF processSlot
  <2>2. DOMAIN balances = {}
    BY <1>4, <1>8
  <2>3. \A t \in Slots : ~(s - 1 < t /\ t < s)
    BY <1>2 DEF Slots
  <2>4. AllTell(balances)
    BY <2>2 DEF AllTell
  <2>5. base' \in Int
    BY <1>2, <2>1
  <2>6. \A t \in Slots : ~(base' < t /\ t < s)
    BY <2>1, <2>3
  <2> QED
    BY <1>3, <1>4, <1>6, <2>4, <2>5, <2>6
<1> QED
  BY <1>7, <1>8

(* Truthful is inductive relative to both. *)
LEMMA NextTruthful ==
  Reproducible /\ Sourced /\ Truthful /\ [Next]_vars => Truthful'
<1> SUFFICES ASSUME Reproducible, Sourced, Truthful, [Next]_vars, Straight', FromTheStart'
             PROVE  /\ up' => AllTell(balances)'
                    /\ ~up' => AllTell(Reloaded)'
  BY DEF Truthful
<1>1. Durable /\ StraightKept /\ LatestKept /\ Typed /\ balances \in Seq(Records)
      /\ chain \in Chains
  BY DEF Reproducible, Durable, Typed
<1>2. StraightKept'
  BY <1>1, NextStraight
<1> PICK r : r = Reloaded'
  OBVIOUS
<1> PICK q : q = balances'
  OBVIOUS
<1> SUFFICES ASSUME chain' = chain =>
                      /\ AllTell(r) => AllTell(Reloaded)'
                      /\ AllTell(q) => AllTell(balances)'
             PROVE  chain' = chain /\ (up' => AllTell(q)) /\ (~up' => AllTell(r))
  BY SoStill
<1>3. ASSUME NEW s \in Slots, processSlot(s) \/ backfill(s)
      PROVE  chain' = chain /\ up' /\ AllTell(q)
  <2>1. /\ up /\ up' /\ chain' = chain /\ \E f, g : IngestSlot(s, f, g)
    BY <1>1, <1>3, IngestStep
  <2>2. PICK from \in Int : from = base'
    BY <1>3, InTurnIs
  <2>3. /\ Straight /\ ~cut /\ AllTell(balances)
        /\ \A t \in Slots : t <= from => chain[t].txs = <<>>
        /\ \A t \in Slots : from < t /\ t < s => HasLater(balances, t)
    BY <1>3, <2>2, InTurnIs
  <2>4. PICK recs \in Seq(Records) :
           /\ q = balances \o recs
           /\ News(s, recs)
           /\ LatestOf(balances) = latest =>
                \A k \in DOMAIN recs : \E n : FollowsAt(q, Len(balances) + k, n)
    BY <1>1, <2>1, IngestNews
  <2>5. LatestOf(balances) = latest /\ AllOfTx(balances)
    BY <1>1, <2>1, <2>3 DEF LatestKept, Sourced
  <2>6. Ordered(q)
    <3>1. Ordered(balances)'
      BY <1>2, <2>1 DEF StraightKept
    <3> QED
      BY <3>1 DEF Ordered
  <2> QED
    BY <1>1, <2>1, <2>3, <2>4, <2>5, <2>6, IngestTrue
<1>4. ASSUME base' = base, chain' = chain
      PROVE  FromTheStart
  BY <1>4 DEF FromTheStart
<1>5. CASE trackCoin \/ UNCHANGED vars
  <2>1. /\ chain' = chain /\ r = Reloaded /\ q = balances /\ up' = up /\ base' = base
        /\ detours' = detours /\ interrupted' = interrupted
    BY <1>5 DEF trackCoin, vars, disk, memory, faults, Reloaded
  <2> QED
    BY <1>4, <2>1 DEF Truthful, Straight
<1>6. ASSUME NEW before \in Times, prune(before)
      PROVE  chain' = chain /\ up' /\ AllTell(q)
  <2>1. /\ chain' = chain /\ q = Kept(balances, before) /\ up /\ up' /\ base' = base
        /\ detours' = detours /\ interrupted' = interrupted
    BY <1>6 DEF prune
  <2>2. before \in Int
    BY DEF Times
  <2>3. \A n \in DOMAIN q : \E i \in DOMAIN balances : q[n] = balances[i]
    BY <1>1, <2>1, <2>2, KeptIs
  <2>4. AllTell(balances)
    BY <1>4, <2>1 DEF Truthful, Straight
  <2> QED
    BY <2>1, <2>3, <2>4 DEF AllTell
<1>7. CASE Flush
  <2>1. /\ chain' = chain /\ q = balances /\ up /\ up' /\ base' = base
        /\ detours' = detours /\ interrupted' = interrupted
    BY <1>7 DEF Flush, memory
  <2> QED
    BY <1>4, <2>1 DEF Truthful, Straight
<1>8. CASE Crash
  <2>1. /\ up /\ ~up' /\ chain' = chain /\ base' = base /\ detours' = detours
        /\ interrupted' = (interrupted \/ todo # <<>>)
        /\ (todo # <<>> /\ TornWrite) \/ UNCHANGED <<disk, cut>>
    BY <1>8 DEF Crash
  <2>2. todo = <<>> /\ ~interrupted /\ Straight
    BY <2>1 DEF Straight
  <2>3. ~cut
    BY <2>2 DEF StraightKept, Reproducible
  <2>4. r = balances
    <3>1. r = Reloaded
      BY <2>1, <2>2 DEF Reloaded, disk
    <3> QED
      BY <1>1, <2>1, <2>2, <2>3, <3>1, Settled
  <2> QED
    BY <1>4, <2>1, <2>2, <2>4 DEF Truthful
<1>9. CASE Restart
  <2>1. /\ ~up /\ up' /\ chain' = chain /\ q = Reloaded /\ base' = base
        /\ detours' = detours /\ interrupted' = interrupted
    BY <1>1, <1>9, RestartIs DEF Restart
  <2> QED
    BY <1>4, <2>1 DEF Truthful, Straight
<1> QED
  BY <1>3, <1>5, <1>6, <1>7, <1>8, <1>9 DEF Next

----------------------------------------------------------------------------
(* What the engine makes of the records.                                   *)

(* The smallest of a set of numbers. *)
LEMMA SmallestIs ==
  ASSUME NEW S \in SUBSET Nat, NEW x \in S, \A y \in S : x <= y
  PROVE  Smallest(S) = x
<1>1. \A z \in S : (\A y \in S : z <= y) => z = x
  <2> SUFFICES ASSUME NEW z \in S, \A y \in S : z <= y
               PROVE  z = x
    OBVIOUS
  <2>1. z <= x /\ x <= z /\ z \in Nat /\ x \in Nat
    OBVIOUS
  <2> QED
    BY <2>1
<1> QED
  BY <1>1 DEF Smallest

(* A set of numbers has one. *)
LEMMA SmallestIn ==
  ASSUME NEW S \in SUBSET Nat, S # {}
  PROVE  Smallest(S) \in S /\ \A y \in S : Smallest(S) <= y
<1>1. PICK x \in S : \A y \in S : x <= y
  BY LeastOf
<1> QED
  BY <1>1, SmallestIs

(* The records of a wallet since a time: those up to the start of a window,*)
(* and the balances after those within it.                                 *)
MineOf(w, since) ==
  {k \in DOMAIN balances : balances[k].wallet = w /\ balances[k].ts >= since}

EarlyOf(w, since, windowStart) ==
  {k \in MineOf(w, since) : balances[k].ts <= windowStart}

InsideOf(w, since, windowStart, at) ==
  {balances[k].balance :
     k \in {i \in MineOf(w, since) : windowStart < balances[i].ts /\ balances[i].ts <= at}}

(* The records of a wallet are in turn, and in the order of time.          *)
Timely(w) ==
  \A i, j \in DOMAIN balances :
    i < j /\ balances[i].wallet = w /\ balances[j].wallet = w =>
      balances[i].seq < balances[j].seq /\ balances[i].ts <= balances[j].ts

(* The engine takes the last record up to the start of the window, or 0,   *)
(* and those within it. *)
LEMMA AgedOfIs ==
  ASSUME balances \in Seq(Records), NEW w, Timely(w),
         NEW since \in Int, NEW windowStart \in Int, NEW at \in Int
  PROVE  /\ MineOf(w, since) = {} => AgedOf(w, since, windowStart, at) = 0
         /\ MineOf(w, since) # {} /\ EarlyOf(w, since, windowStart) = {} =>
              AgedOf(w, since, windowStart, at)
                = Smallest({0} \cup InsideOf(w, since, windowStart, at))
         /\ \A k \in EarlyOf(w, since, windowStart) :
              (\A j \in EarlyOf(w, since, windowStart) : j <= k) =>
                AgedOf(w, since, windowStart, at)
                  = Smallest({balances[k].balance} \cup InsideOf(w, since, windowStart, at))
<1> DEFINE recent == {i \in DOMAIN balances : balances[i].ts >= since}
           S == {i \in recent : balances[i].wallet = w}
           events == Picked(balances, S)
           round == computeRound(historyFor(since), windowStart, at, {})
<1>1. /\ DOMAIN historyFor(since) = {balances[i].wallet : i \in recent}
      /\ w \in DOMAIN historyFor(since) => historyFor(since)[w] = events
  BY DEF historyFor
<1>2. /\ DOMAIN round = DOMAIN historyFor(since)
      /\ \A v \in DOMAIN round : round[v] = agedBalance(historyFor(since)[v], windowStart, at)
  BY DEF computeRound
<1>3. S = MineOf(w, since)
  BY DEF MineOf
<1>4. w \in DOMAIN historyFor(since) <=> S # {}
  BY <1>1
<1>5. AgedOf(w, since, windowStart, at)
        = IF S = {} THEN 0 ELSE agedBalance(events, windowStart, at)
  <2> HIDE DEF recent, S, events
  <2>1. AgedOf(w, since, windowStart, at) = IF w \in DOMAIN round THEN round[w] ELSE 0
    BY DEF AgedOf
  <2> HIDE DEF round
  <2> QED
    BY <1>1, <1>2, <1>4, <2>1
<1>6. /\ DOMAIN balances = 1 .. Len(balances) /\ Len(balances) \in Nat
      /\ \A i \in DOMAIN balances : balances[i].ts \in Nat /\ balances[i].seq \in Nat
  <2>1. \A r \in Records : r.ts \in Nat /\ r.seq \in Nat
    BY DEF Records, Times
  <2>2. DOMAIN balances = 1 .. Len(balances) /\ Len(balances) \in Nat
    BY LenProperties
  <2> QED
    BY <2>1, <2>2, ElementOfSeq
<1>7. IsFiniteSet(S) /\ S \in SUBSET Nat
  <2>1. S \in SUBSET DOMAIN balances
    OBVIOUS
  <2> HIDE DEF S
  <2> QED
    BY <2>1, PickedType
<1> DEFINE C == Cardinality(S)
<1>8. PICK p : /\ C \in Nat
               /\ p \in [1 .. C -> S]
               /\ \A k \in S : \E i \in 1 .. C : p[i] = k
               /\ \A i, j \in 1 .. C : i < j => p[i] < p[j]
               /\ events = [n \in 1 .. C |-> balances[p[n]]]
  <2> HIDE DEF S
  <2> QED
    BY <1>7, PickedIs
<1>9. \A k \in S : k \in DOMAIN balances /\ balances[k].wallet = w /\ k \in Nat
  BY <1>6
<1> HIDE DEF S, C, recent, round
<1>10. DOMAIN events = 1 .. C /\ \A i \in 1 .. C : events[i] = balances[p[i]] /\ p[i] \in S
  BY <1>8
<1> HIDE DEF events
<1>11. ASSUME NEW i \in 1 .. C, NEW j \in 1 .. C, p[i] < p[j]
       PROVE  /\ events[i].seq < events[j].seq /\ events[i].ts <= events[j].ts
              /\ events[i].ts \in Nat /\ events[j].ts \in Nat
              /\ events[i].seq \in Nat /\ events[j].seq \in Nat
  BY <1>6, <1>9, <1>10, <1>11 DEF Timely
<1> DEFINE upTo == {i \in DOMAIN events : events[i].ts <= windowStart}
           inside == {i \in DOMAIN events :
                        windowStart < events[i].ts /\ events[i].ts <= at}
<1>12. {events[i].balance : i \in inside} = InsideOf(w, since, windowStart, at)
  <2>1. ASSUME NEW i \in inside
        PROVE  events[i].balance \in InsideOf(w, since, windowStart, at)
    BY <1>3, <1>10 DEF InsideOf
  <2>2. ASSUME NEW k \in MineOf(w, since), windowStart < balances[k].ts, balances[k].ts <= at
        PROVE  \E i \in inside : balances[k].balance = events[i].balance
    <3>1. PICK i \in 1 .. C : p[i] = k
      BY <1>3, <1>8
    <3> QED
      BY <1>10, <2>2, <3>1
  <2> HIDE DEF inside
  <2> QED
    BY <2>1, <2>2 DEF InsideOf
<1>13. agedBalance(events, windowStart, at)
         = Smallest({Carried(events, windowStart)} \cup InsideOf(w, since, windowStart, at))
  BY <1>12 DEF agedBalance
<1>14. ASSUME EarlyOf(w, since, windowStart) = {}
       PROVE  Carried(events, windowStart) = 0
  <2>1. upTo = {}
    BY <1>3, <1>10, <1>14 DEF EarlyOf
  <2> QED
    BY <2>1 DEF Carried
<1>15. ASSUME NEW k \in EarlyOf(w, since, windowStart),
              \A j \in EarlyOf(w, since, windowStart) : j <= k
       PROVE  S # {} /\ Carried(events, windowStart) = balances[k].balance
  <2>1. k \in S /\ balances[k].ts <= windowStart
    BY <1>3 DEF EarlyOf
  <2>2. PICK i \in 1 .. C : p[i] = k
    BY <1>8, <2>1
  <2>3. i \in upTo
    BY <1>10, <2>1, <2>2
  <2>4. ASSUME NEW j \in upTo \ {i}
        PROVE  Before(events, j, i) /\ ~Before(events, i, j)
    <3>1. j \in 1 .. C /\ p[j] \in EarlyOf(w, since, windowStart) /\ j # i
      BY <1>3, <1>10 DEF EarlyOf
    <3>2. p[j] < p[i]
      <4>1. p[j] <= p[i]
        BY <1>15, <2>2, <3>1
      <4>2. p[j] # p[i]
        <5>1. i < j \/ j < i
          BY <3>1
        <5>2. /\ i < j => p[i] < p[j]
              /\ j < i => p[j] < p[i]
          BY <1>8, <3>1
        <5>3. p[i] \in Nat /\ p[j] \in Nat
          BY <1>9, <1>10, <3>1
        <5> QED
          BY <5>1, <5>2, <5>3
      <4>3. p[i] \in Nat /\ p[j] \in Nat
        BY <1>9, <1>10, <3>1
      <4> QED
        BY <4>1, <4>2, <4>3
    <3> QED
      BY <1>11, <3>1, <3>2 DEF Before
  <2> DEFINE Latest(m) == \A j \in upTo \ {m} : Before(events, j, m)
  <2>5. Latest(i) /\ \A m \in upTo : Latest(m) => m = i
    BY <2>3, <2>4
  <2>6. Carried(events, windowStart) = events[CHOOSE m \in upTo : Latest(m)].balance
    BY <2>3 DEF Carried
  <2> HIDE DEF upTo, Latest
  <2>7. (CHOOSE m \in upTo : Latest(m)) = i
    BY <2>3, <2>5
  <2> QED
    BY <1>10, <2>1, <2>2, <2>6, <2>7
<1> QED
  BY <1>3, <1>5, <1>13, <1>14, <1>15

(* Up to the end of a window all is known of a wallet: its records are     *)
(* true and in turn, and each change has one, or a later one from before   *)
(* the window.                                                             *)
Known(w, windowStart, at) ==
  /\ Timely(w)
  /\ \A k \in DOMAIN balances : balances[k].wallet = w /\ balances[k].ts <= at =>
       /\ balances[k].balance \in Nat
       /\ \E n : OfTx(balances[k], n) /\ balances[k].balance = TrueBalance(chain, w, n)
  /\ \A n \in 1 .. Len(Happened(chain)) :
       Change(w, n) # 0 /\ Happened(chain)[n].ts <= at =>
         \E k \in DOMAIN balances :
           /\ balances[k].wallet = w
           /\ \/ OfTx(balances[k], n)
              \/ balances[k].seq >= SeqAt[n] /\ balances[k].ts <= windowStart

(* The window opens after the first so many transactions, and what is held *)
(* in it is the balance then and those after the transactions within it.   *)
Opens(windowStart, first) ==
  /\ first \in 0 .. Len(Happened(chain))
  /\ \A n \in 1 .. Len(Happened(chain)) :
       n > first <=> Happened(chain)[n].ts > windowStart

Spans(w, windowStart, at, first) ==
  /\ Opens(windowStart, first)
  /\ TrueBalance(chain, w, first) \in HeldDuring(w, windowStart, at)
  /\ \A n \in 1 .. Len(Happened(chain)) :
       n > first /\ Happened(chain)[n].ts <= at =>
         TrueBalance(chain, w, n) \in HeldDuring(w, windowStart, at)
  /\ \A x \in HeldDuring(w, windowStart, at) :
       \E n \in first .. Len(Happened(chain)) :
         /\ x = TrueBalance(chain, w, n)
         /\ n = first \/ Happened(chain)[n].ts <= at

(* The balances that a wallet held in a window: from the last transaction  *)
(* up to its start, with what that left, to the last up to its end.        *)
LEMMA HeldIs ==
  ASSUME chain \in Chains, NEW w \in Wallets \ Pools,
         NEW windowStart \in Nat, NEW at \in Nat, windowStart < at
  PROVE  /\ HeldDuring(w, windowStart, at) \in SUBSET Nat
         /\ \E first \in 0 .. Len(Happened(chain)) : Spans(w, windowStart, at, first)
<1> PICK h : h = Happened(chain)
  OBVIOUS
<1> DEFINE L == Len(h)
           T(n) == TrueBalance(chain, w, n)
           E == {n \in 0 .. L : n = 0 \/ h[n].ts <= windowStart}
           R == {k \in 0 .. L : /\ k = 0 \/ h[k].ts <= at
                                /\ k = L \/ h[k + 1].ts > windowStart}
<1>1. Truth(w) /\ Chronicle
  BY TruthIs, ChronicleIs
<1>2. /\ L \in Nat
      /\ \A n \in 1 .. L : h[n].ts \in Nat
      /\ \A m, n \in 1 .. L : m <= n => h[m].ts <= h[n].ts
      /\ \A n \in 0 .. L : T(n) \in Nat
  BY <1>1 DEF Chronicle, Truth
<1>3. HeldDuring(w, windowStart, at) = {T(n) : n \in R}
  BY DEF HeldDuring
<1> HIDE DEF L, T
<1>4. PICK first \in E : \A n \in E : n <= first
  <2>1. E \in SUBSET Int /\ 0 \in E /\ L \in Int /\ \A n \in E : n <= L
    BY <1>2
  <2> HIDE DEF E
  <2> QED
    BY <2>1, MaxIs
<1>5. first \in 0 .. L /\ (first = 0 \/ h[first].ts <= windowStart)
  OBVIOUS
<1>6. ASSUME NEW n \in 1 .. L
      PROVE  n > first <=> h[n].ts > windowStart
  <2>1. CASE n > first
    <3>1. n \notin E
      BY <1>2, <1>4, <1>5, <2>1
    <3> QED
      BY <1>2, <2>1, <3>1
  <2>2. CASE n <= first
    <3>1. first \in 1 .. L /\ h[first].ts <= windowStart /\ h[n].ts <= h[first].ts
      BY <1>2, <1>5, <2>2
    <3>2. h[n].ts \in Nat /\ h[first].ts \in Nat
      BY <1>2, <3>1
    <3> QED
      BY <1>2, <1>5, <2>2, <3>1, <3>2
  <2> QED
    BY <1>2, <1>5, <2>1, <2>2
<1> HIDE DEF E
<1>7. first \in R
  <2>1. first = 0 \/ h[first].ts <= at
    <3>1. first # 0 => h[first].ts \in Nat
      BY <1>2, <1>5
    <3> QED
      BY <1>5, <3>1
  <2>2. first # L => first + 1 \in 1 .. L /\ first + 1 > first
    BY <1>2, <1>5
  <2>3. first # L => h[first + 1].ts > windowStart
    BY <1>6, <2>2
  <2> QED
    BY <1>5, <2>1, <2>3
<1>8. ASSUME NEW n \in 1 .. L, n > first, h[n].ts <= at
      PROVE  n \in R
  <2>1. n # L => n + 1 \in 1 .. L /\ n + 1 > first
    BY <1>2, <1>5, <1>8
  <2>2. n # L => h[n + 1].ts > windowStart
    BY <1>6, <2>1
  <2> QED
    BY <1>2, <1>8, <2>2
<1>9. ASSUME NEW n \in R
      PROVE  n \in first .. L /\ (n = first \/ h[n].ts <= at)
  <2>1. n \in 0 .. L /\ (n = 0 \/ h[n].ts <= at) /\ (n = L \/ h[n + 1].ts > windowStart)
    OBVIOUS
  <2>2. n >= first
    <3> SUFFICES ASSUME n < first
                 PROVE  FALSE
      BY <1>5, <2>1
    <3>1. n # L /\ n + 1 \in 1 .. L /\ ~(n + 1 > first)
      BY <1>2, <1>5, <2>1
    <3> QED
      BY <1>6, <2>1, <3>1
  <2>3. n = first \/ h[n].ts <= at
    BY <1>5, <2>1, <2>2
  <2> QED
    BY <1>2, <1>5, <2>1, <2>2, <2>3
<1>10. R \in SUBSET (0 .. L)
  OBVIOUS
<1> HIDE DEF R
<1>11. HeldDuring(w, windowStart, at) \in SUBSET Nat
  BY <1>2, <1>3, <1>10
<1>12. /\ T(first) \in HeldDuring(w, windowStart, at)
       /\ \A n \in 1 .. L : n > first /\ h[n].ts <= at => T(n) \in HeldDuring(w, windowStart, at)
       /\ \A x \in HeldDuring(w, windowStart, at) :
            \E n \in first .. L : x = T(n) /\ (n = first \/ h[n].ts <= at)
  BY <1>3, <1>7, <1>8, <1>9
<1>13. Opens(windowStart, first)
  BY <1>5, <1>6 DEF Opens, L
<1>14. Spans(w, windowStart, at, first)
  BY <1>12, <1>13 DEF Spans, L, T
<1>15. first \in 0 .. Len(Happened(chain))
  BY <1>5 DEF L
<1> QED
  BY <1>11, <1>14, <1>15

(* No change comes between the last record up to the start of a window and *)
(* that start. *)
LEMMA CalmBefore ==
  ASSUME Chronicle, balances \in Seq(Records), NEW w,
         NEW windowStart \in Nat, NEW at \in Nat, windowStart < at,
         Known(w, windowStart, at), NEW first, Opens(windowStart, first),
         NEW m \in 0 .. first,
         \A k \in DOMAIN balances :
           balances[k].wallet = w /\ balances[k].ts <= windowStart =>
             m > 0 /\ balances[k].seq <= SeqAt[m]
  PROVE  Still(w, m, first)
<1> SUFFICES ASSUME NEW q \in m + 1 .. first, Change(w, q) # 0
             PROVE  FALSE
  BY DEF Still
<1> PICK L \in Nat : L = Len(Happened(chain))
  BY DEF Chronicle
<1>1. first \in 0 .. L /\ q \in 1 .. L /\ q <= first /\ m < q /\ m \in Nat
  BY DEF Opens
<1>2. Happened(chain)[q].ts \in Nat /\ SeqAt[q] \in Nat
  BY <1>1 DEF Chronicle
<1>3. Happened(chain)[q].ts <= windowStart
  <2>1. ~(q > first)
    BY <1>1
  <2>2. ~(Happened(chain)[q].ts > windowStart)
    BY <1>1, <2>1 DEF Opens
  <2> QED
    BY <1>2, <2>2
<1>4. Happened(chain)[q].ts <= at
  BY <1>2, <1>3
<1>5. PICK k \in DOMAIN balances :
        /\ balances[k].wallet = w
        /\ \/ OfTx(balances[k], q)
           \/ balances[k].seq >= SeqAt[q] /\ balances[k].ts <= windowStart
  BY <1>1, <1>4 DEF Known
<1>6. balances[k].ts <= windowStart /\ balances[k].seq >= SeqAt[q]
  <2>1. CASE OfTx(balances[k], q)
    BY <1>2, <1>3, <2>1 DEF OfTx
  <2> QED
    BY <1>5, <2>1
<1>7. m > 0 /\ balances[k].seq <= SeqAt[m]
  BY <1>5, <1>6
<1>8. m \in 1 .. L /\ SeqAt[m] \in Nat /\ SeqAt[m] < SeqAt[q]
  <2>1. m \in 1 .. L
    BY <1>1, <1>7
  <2>2. SeqAt[m] \in Nat /\ (m < q <=> SeqAt[m] < SeqAt[q])
    BY <1>1, <2>1 DEF Chronicle
  <2> QED
    BY <1>1, <2>1, <2>2
<1>9. balances[k].seq \in Nat
  <2>1. \A r \in Records : r.seq \in Nat
    BY DEF Records
  <2> QED
    BY <2>1, ElementOfSeq, <1>5
<1> QED
  BY <1>2, <1>6, <1>7, <1>8, <1>9

(* The last record up to the start of a window has the balance at that     *)
(* start. *)
LEMMA LastEarly ==
  ASSUME Chronicle, balances \in Seq(Records), NEW w, Truth(w),
         NEW since \in Nat, NEW windowStart \in Nat, NEW at \in Nat, windowStart < at,
         Known(w, windowStart, at), NEW first, Opens(windowStart, first),
         NEW k \in EarlyOf(w, since, windowStart),
         \A j \in EarlyOf(w, since, windowStart) : j <= k
  PROVE  balances[k].balance = TrueBalance(chain, w, first) /\ since <= windowStart
<1> PICK L \in Nat : L = Len(Happened(chain))
  BY DEF Chronicle
<1>1. /\ DOMAIN balances \in SUBSET Int
      /\ \A j \in DOMAIN balances : balances[j].seq \in Nat /\ balances[j].ts \in Nat
  <2>1. \A r \in Records : r.seq \in Nat /\ r.ts \in Nat
    BY DEF Records, Times
  <2>2. DOMAIN balances = 1 .. Len(balances) /\ Len(balances) \in Nat
    BY LenProperties
  <2> QED
    BY <2>1, <2>2, ElementOfSeq
<1>2. /\ k \in DOMAIN balances /\ balances[k].wallet = w
      /\ balances[k].ts >= since /\ balances[k].ts <= windowStart
  BY DEF EarlyOf, MineOf
<1>3. since <= windowStart
  BY <1>1, <1>2
<1>4. balances[k].ts <= at
  BY <1>1, <1>2
<1>5. PICK n : OfTx(balances[k], n) /\ balances[k].balance = TrueBalance(chain, w, n)
  BY <1>2, <1>4 DEF Known
<1>6. /\ n \in 1 .. L /\ balances[k].seq = SeqAt[n]
      /\ balances[k].ts = Happened(chain)[n].ts
  BY <1>5 DEF OfTx
<1>7. n \in 0 .. first
  <2>1. ~(Happened(chain)[n].ts > windowStart)
    BY <1>1, <1>2, <1>6
  <2>2. ~(n > first) /\ first \in 0 .. L
    BY <1>6, <2>1 DEF Opens
  <2> QED
    BY <1>6, <2>2
<1>8. ASSUME NEW j \in DOMAIN balances, balances[j].wallet = w,
             balances[j].ts <= windowStart
      PROVE  n > 0 /\ balances[j].seq <= SeqAt[n]
  <2>1. CASE j <= k
    <3>1. j = k \/ j < k
      BY <1>1, <1>2, <2>1
    <3>2. j < k => balances[j].seq < balances[k].seq
      BY <1>2, <1>8 DEF Known, Timely
    <3> QED
      BY <1>1, <1>2, <1>6, <3>1, <3>2
  <2>2. CASE k < j
    <3>1. balances[k].ts <= balances[j].ts
      BY <1>2, <1>8, <2>2 DEF Known, Timely
    <3>2. balances[j].ts >= since
      BY <1>1, <1>2, <3>1
    <3>3. j \in EarlyOf(w, since, windowStart)
      BY <1>8, <3>2 DEF EarlyOf, MineOf
    <3> QED
      BY <1>1, <1>2, <2>2, <3>3
  <2> QED
    BY <1>1, <1>2, <2>1, <2>2
<1>9. Still(w, n, first)
  BY <1>7, <1>8, CalmBefore
<1>10. first \in 0 .. L
  BY DEF Opens
<1>11. TrueBalance(chain, w, first) = TrueBalance(chain, w, n)
  BY <1>7, <1>9, <1>10, StillIs
<1> QED
  BY <1>3, <1>5, <1>11

(* Without any record up to the start of a window, nothing was held then.  *)
LEMMA NoneEarly ==
  ASSUME Chronicle, balances \in Seq(Records), NEW w, Truth(w),
         NEW windowStart \in Nat, NEW at \in Nat, windowStart < at,
         Known(w, windowStart, at), NEW first, Opens(windowStart, first),
         EarlyOf(w, 0, windowStart) = {}
  PROVE  TrueBalance(chain, w, first) = 0
<1> PICK L \in Nat : L = Len(Happened(chain))
  BY DEF Chronicle
<1>1. ASSUME NEW j \in DOMAIN balances
      PROVE  balances[j].ts >= 0
  <2>1. \A r \in Records : r.ts \in Nat
    BY DEF Records, Times
  <2>2. balances[j].ts \in Nat
    BY <2>1, ElementOfSeq
  <2> QED
    BY <2>2
<1>2. ASSUME NEW j \in DOMAIN balances, balances[j].wallet = w,
             balances[j].ts <= windowStart
      PROVE  FALSE
  <2>1. j \in EarlyOf(w, 0, windowStart)
    BY <1>1, <1>2 DEF EarlyOf, MineOf
  <2> QED
    BY <2>1
<1>3. first \in 0 .. L /\ 0 \in 0 .. first
  BY DEF Opens
<1>4. Still(w, 0, first)
  BY <1>2, <1>3, CalmBefore
<1>5. TrueBalance(chain, w, first) = TrueBalance(chain, w, 0)
  BY <1>3, <1>4, StillIs
<1> QED
  BY <1>5 DEF Truth

(* The balances recorded within a window were held in it. *)
LEMMA InsideHeld ==
  ASSUME Chronicle, balances \in Seq(Records), NEW w,
         NEW since \in Nat, NEW windowStart \in Nat, NEW at \in Nat, windowStart < at,
         Known(w, windowStart, at), NEW first, Opens(windowStart, first),
         NEW held,
         \A n \in 1 .. Len(Happened(chain)) :
           n > first /\ Happened(chain)[n].ts <= at => TrueBalance(chain, w, n) \in held
  PROVE  InsideOf(w, since, windowStart, at) \in SUBSET held
<1> SUFFICES ASSUME NEW k \in MineOf(w, since), windowStart < balances[k].ts,
                    balances[k].ts <= at
             PROVE  balances[k].balance \in held
  BY DEF InsideOf
<1>1. k \in DOMAIN balances /\ balances[k].wallet = w
  BY DEF MineOf
<1>2. PICK n : OfTx(balances[k], n) /\ balances[k].balance = TrueBalance(chain, w, n)
  BY <1>1 DEF Known
<1>3. n \in 1 .. Len(Happened(chain)) /\ balances[k].ts = Happened(chain)[n].ts
  BY <1>2 DEF OfTx
<1>4. n > first
  BY <1>3 DEF Opens
<1> QED
  BY <1>2, <1>3, <1>4

(* Each change within a window has its own record there. *)
LEMMA ChangeInside ==
  ASSUME Chronicle, balances \in Seq(Records), NEW w,
         NEW since \in Nat, NEW windowStart \in Nat, NEW at \in Nat, windowStart < at,
         since <= windowStart, Known(w, windowStart, at),
         NEW q \in 1 .. Len(Happened(chain)), Change(w, q) # 0,
         windowStart < Happened(chain)[q].ts, Happened(chain)[q].ts <= at
  PROVE  TrueBalance(chain, w, q) \in InsideOf(w, since, windowStart, at)
<1> PICK L \in Nat : L = Len(Happened(chain))
  BY DEF Chronicle
<1>1. Happened(chain)[q].ts \in Nat /\ SeqAt[q] \in Nat
  BY DEF Chronicle
<1>2. PICK k \in DOMAIN balances :
        /\ balances[k].wallet = w
        /\ \/ OfTx(balances[k], q)
           \/ balances[k].seq >= SeqAt[q] /\ balances[k].ts <= windowStart
  BY DEF Known
<1>3. balances[k].seq \in Nat /\ balances[k].ts \in Nat
  <2>1. \A r \in Records : r.seq \in Nat /\ r.ts \in Nat
    BY DEF Records, Times
  <2> QED
    BY <2>1, ElementOfSeq, <1>2
<1>4. OfTx(balances[k], q)
  <2> SUFFICES ASSUME balances[k].seq >= SeqAt[q], balances[k].ts <= windowStart
               PROVE  FALSE
    BY <1>2
  <2>1. balances[k].ts <= at
    BY <1>3
  <2>2. PICK n : OfTx(balances[k], n)
    BY <1>2, <2>1 DEF Known
  <2>3. n \in 1 .. L /\ balances[k].seq = SeqAt[n] /\ balances[k].ts = Happened(chain)[n].ts
    BY <2>2 DEF OfTx
  <2>4. ~(SeqAt[n] < SeqAt[q])
    BY <1>1, <1>3, <2>3
  <2>5. ~(n < q) /\ q \in 1 .. L
    BY <2>3, <2>4 DEF Chronicle
  <2>6. q <= n
    BY <2>3, <2>5
  <2>7. Happened(chain)[q].ts <= Happened(chain)[n].ts
    BY <2>3, <2>5, <2>6 DEF Chronicle
  <2> QED
    BY <1>1, <1>3, <2>3, <2>7
<1>5. balances[k].ts = Happened(chain)[q].ts /\ balances[k].seq = SeqAt[q]
  BY <1>4 DEF OfTx
<1>6. PICK n : OfTx(balances[k], n) /\ balances[k].balance = TrueBalance(chain, w, n)
  BY <1>2, <1>5 DEF Known
<1>7. n = q
  <2>1. n \in 1 .. L /\ q \in 1 .. L /\ SeqAt[n] = SeqAt[q]
    BY <1>5, <1>6 DEF OfTx
  <2>2. SeqAt[n] \in Nat /\ (n < q <=> SeqAt[n] < SeqAt[q]) /\ (q < n <=> SeqAt[q] < SeqAt[n])
    BY <2>1 DEF Chronicle
  <2> QED
    BY <1>1, <2>1, <2>2
<1>8. k \in MineOf(w, since)
  BY <1>1, <1>2, <1>3, <1>5 DEF MineOf
<1> QED
  BY <1>5, <1>6, <1>7, <1>8 DEF InsideOf

(* A balance held in a window is the one at its start, or one recorded     *)
(* within it. *)
LEMMA HeldFound ==
  ASSUME Chronicle, balances \in Seq(Records), NEW w, Truth(w),
         NEW since \in Nat, NEW windowStart \in Nat, NEW at \in Nat, windowStart < at,
         since <= windowStart, Known(w, windowStart, at),
         NEW first, Opens(windowStart, first),
         NEW n \in first .. Len(Happened(chain)),
         n = first \/ Happened(chain)[n].ts <= at
  PROVE  TrueBalance(chain, w, n)
           \in {TrueBalance(chain, w, first)} \cup InsideOf(w, since, windowStart, at)
<1> PICK L \in Nat : L = Len(Happened(chain))
  BY DEF Chronicle
<1> DEFINE Q == {j \in first .. n : j = first \/ Change(w, j) # 0}
<1>1. first \in 0 .. L /\ n \in first .. L
  BY DEF Opens
<1>2. PICK q \in Q : \A j \in Q : j <= q
  <2>1. Q \in SUBSET Int /\ first \in Q /\ n \in Int /\ \A j \in Q : j <= n
    BY <1>1
  <2> HIDE DEF Q
  <2> QED
    BY <2>1, MaxIs
<1>3. q \in first .. n /\ (q = first \/ Change(w, q) # 0)
  OBVIOUS
<1>4. Still(w, q, n)
  <2> SUFFICES ASSUME NEW j \in q + 1 .. n, Change(w, j) # 0
               PROVE  FALSE
    BY DEF Still
  <2>1. j \in first .. n /\ j > q /\ q \in Int
    BY <1>1, <1>3
  <2>2. j \in Q
    BY <2>1
  <2>3. j <= q /\ j \in Int
    BY <1>2, <2>1, <2>2
  <2> QED
    BY <2>1, <2>3
<1> HIDE DEF Q
<1>5. n \in 0 .. L /\ q \in 0 .. n
  BY <1>1, <1>3
<1>6. TrueBalance(chain, w, n) = TrueBalance(chain, w, q)
  BY <1>4, <1>5, StillIs
<1>7. ASSUME q # first
      PROVE  TrueBalance(chain, w, q) \in InsideOf(w, since, windowStart, at)
  <2>1. q \in 1 .. L /\ q > first /\ n \in 1 .. L /\ q <= n /\ n # first
    BY <1>1, <1>3, <1>7
  <2>2. Happened(chain)[q].ts > windowStart
    BY <2>1 DEF Opens
  <2>3. /\ Happened(chain)[q].ts <= Happened(chain)[n].ts
        /\ Happened(chain)[q].ts \in Nat /\ Happened(chain)[n].ts \in Nat
    BY <2>1 DEF Chronicle
  <2>4. windowStart < Happened(chain)[q].ts /\ Happened(chain)[q].ts <= at
    BY <2>1, <2>2, <2>3
  <2> QED
    BY <1>3, <1>7, <2>1, <2>4, ChangeInside
<1> QED
  BY <1>6, <1>7

(* Where all is known, the engine's number is the smallest balance held,   *)
(* and a history cut at any time can only turn it into 0. *)
LEMMA KnownAged ==
  ASSUME chain \in Chains, balances \in Seq(Records), NEW w \in Wallets \ Pools,
         NEW since \in Nat, NEW windowStart \in Nat, NEW at \in Nat, windowStart < at,
         Known(w, windowStart, at), NEW aged,
         aged = Smallest(HeldDuring(w, windowStart, at))
  PROVE  /\ AgedOf(w, since, windowStart, at) \in {0, aged}
         /\ since = 0 => AgedOf(w, since, windowStart, at) = aged
<1>1. Truth(w) /\ Chronicle
  BY TruthIs, ChronicleIs
<1> PICK held : held = HeldDuring(w, windowStart, at)
  OBVIOUS
<1> PICK inside : inside = InsideOf(w, since, windowStart, at)
  OBVIOUS
<1> PICK L \in Nat : L = Len(Happened(chain))
  BY <1>1 DEF Chronicle
<1>2. PICK first \in 0 .. Len(Happened(chain)) : Spans(w, windowStart, at, first)
  BY HeldIs
<1> PICK x0 : x0 = TrueBalance(chain, w, first)
  OBVIOUS
<1>3. /\ Opens(windowStart, first)
      /\ x0 \in held
      /\ \A n \in 1 .. Len(Happened(chain)) :
           n > first /\ Happened(chain)[n].ts <= at => TrueBalance(chain, w, n) \in held
      /\ \A x \in held :
           \E n \in first .. Len(Happened(chain)) :
             /\ x = TrueBalance(chain, w, n)
             /\ n = first \/ Happened(chain)[n].ts <= at
  BY <1>2 DEF Spans
<1>4. held \in SUBSET Nat /\ x0 \in held
  BY <1>3, HeldIs
<1>5. inside \in SUBSET held
  BY <1>1, <1>3, InsideHeld
<1>6. since <= windowStart => held \in SUBSET ({x0} \cup inside)
  <2> SUFFICES ASSUME since <= windowStart, NEW x \in held
               PROVE  x \in {x0} \cup inside
    OBVIOUS
  <2>1. PICK n \in first .. Len(Happened(chain)) :
          /\ x = TrueBalance(chain, w, n)
          /\ n = first \/ Happened(chain)[n].ts <= at
    BY <1>3
  <2> QED
    BY <1>1, <1>3, <2>1, HeldFound
<1>7. Timely(w) /\ since \in Int /\ windowStart \in Int /\ at \in Int
  BY DEF Known
<1> PICK a0 : a0 = AgedOf(w, since, windowStart, at)
  OBVIOUS
<1>8. /\ MineOf(w, since) = {} => a0 = 0
      /\ MineOf(w, since) # {} /\ EarlyOf(w, since, windowStart) = {} =>
           a0 = Smallest({0} \cup inside)
      /\ \A k \in EarlyOf(w, since, windowStart) :
           (\A j \in EarlyOf(w, since, windowStart) : j <= k) =>
             a0 = Smallest({balances[k].balance} \cup inside)
  BY <1>7, AgedOfIs
<1>9. CASE EarlyOf(w, since, windowStart) = {}
  <2>1. a0 = 0
    <3>1. \A y \in {0} \cup inside : 0 <= y
      BY <1>4, <1>5
    <3>2. {0} \cup inside \in SUBSET Nat /\ 0 \in {0} \cup inside
      BY <1>4, <1>5
    <3>3. Smallest({0} \cup inside) = 0
      BY <3>1, <3>2, SmallestIs
    <3> QED
      BY <1>8, <1>9, <3>3
  <2>2. ASSUME since = 0
        PROVE  aged = 0
    <3>1. EarlyOf(w, 0, windowStart) = {}
      BY <1>9, <2>2
    <3>2. x0 = 0
      BY <1>1, <1>3, <3>1, NoneEarly
    <3>3. 0 \in held /\ \A y \in held : 0 <= y
      BY <1>4, <3>2
    <3> QED
      BY <1>4, <3>3, SmallestIs
  <2> QED
    BY <2>1, <2>2
<1>10. CASE EarlyOf(w, since, windowStart) # {}
  <2> PICK early : early = EarlyOf(w, since, windowStart)
    OBVIOUS
  <2>1. PICK k \in early : \A j \in early : j <= k
    <3> DEFINE N == Len(balances)
    <3>1. N \in Nat /\ early \in SUBSET (1 .. N)
      <4>1. Len(balances) \in Nat /\ DOMAIN balances = 1 .. Len(balances)
        BY LenProperties
      <4> QED
        BY <4>1 DEF EarlyOf, MineOf
    <3> HIDE DEF N
    <3>2. early \in SUBSET Int /\ \A j \in early : j <= N
      BY <3>1
    <3>3. PICK j0 : j0 \in early
      BY <1>10
    <3>4. N \in Int /\ early # {}
      BY <3>1, <3>3
    <3> QED
      BY <3>2, <3>4, MaxIs
  <2>2. balances[k].balance = x0 /\ since <= windowStart
    BY <1>1, <1>3, <2>1, LastEarly
  <2>3. a0 = Smallest({x0} \cup inside)
    BY <1>8, <2>1, <2>2
  <2>4. {x0} \cup inside = held
    BY <1>4, <1>5, <1>6, <2>2
  <2> QED
    BY <2>3, <2>4
<1> QED
  BY <1>9, <1>10

(* A record with the place of a transaction is of that transaction. *)
LEMMA OfItsTx ==
  ASSUME Chronicle, NEW r, NEW n, OfTx(r, n),
         NEW m \in 1 .. Len(Happened(chain)), r.seq = SeqAt[m]
  PROVE  m = n
<1> PICK L \in Nat : L = Len(Happened(chain))
  BY DEF Chronicle
<1>1. m \in 1 .. L /\ n \in 1 .. L /\ SeqAt[m] = SeqAt[n]
  BY DEF OfTx
<1>2. SeqAt[n] \in Nat /\ (n < m <=> SeqAt[n] < SeqAt[m]) /\ (m < n <=> SeqAt[m] < SeqAt[n])
  BY <1>1 DEF Chronicle
<1> QED
  BY <1>1, <1>2

(* Records in turn are in the order of time. *)
LEMMA TurnTimely ==
  ASSUME Chronicle, balances \in Seq(Records), AllOfTx(balances), NEW w, InTurn(w)
  PROVE  Timely(w)
<1> SUFFICES ASSUME NEW i \in DOMAIN balances, NEW j \in DOMAIN balances, i < j,
                    balances[i].wallet = w, balances[j].wallet = w
             PROVE  balances[i].seq < balances[j].seq /\ balances[i].ts <= balances[j].ts
  BY DEF Timely
<1> PICK L \in Nat : L = Len(Happened(chain))
  BY DEF Chronicle
<1>1. balances[i].seq < balances[j].seq
  BY DEF InTurn
<1>2. PICK m : OfTx(balances[i], m)
  BY DEF AllOfTx
<1>3. PICK n : OfTx(balances[j], n)
  BY DEF AllOfTx
<1>4. /\ m \in 1 .. L /\ n \in 1 .. L
      /\ SeqAt[m] < SeqAt[n]
      /\ balances[i].ts = Happened(chain)[m].ts /\ balances[j].ts = Happened(chain)[n].ts
  BY <1>1, <1>2, <1>3 DEF OfTx
<1>5. m < n
  BY <1>4 DEF Chronicle
<1>6. m <= n
  BY <1>4, <1>5
<1>7. Happened(chain)[m].ts <= Happened(chain)[n].ts
  BY <1>4, <1>6 DEF Chronicle
<1> QED
  BY <1>1, <1>4, <1>7

(* No slot above the watermark has a time within at.                       *)
Closed(at) == \A s \in Slots : meta.watermark < s => chain[s].ts > at

(* Each change within at has its record, or a later one from before what   *)
(* was pruned.                                                             *)
Accounted(w, at) ==
  \A n \in 1 .. Len(Happened(chain)) :
    Change(w, n) # 0 /\ Happened(chain)[n].ts <= at =>
      \E k \in DOMAIN balances :
        /\ balances[k].wallet = w
        /\ \/ OfTx(balances[k], n)
           \/ balances[k].seq >= SeqAt[n] /\ balances[k].ts < pruned

LEMMA ClosedAccounted ==
  ASSUME Durable, StraightKept, AllOfTx(balances), up, todo = <<>>, ~cut,
         FromTheStart, NEW at \in Nat, Closed(at), NEW w \in Wallets \ Pools,
         pruned = 0 \/ Straight
  PROVE  Accounted(w, at)
<1>1. /\ Typed /\ Acked /\ chain \in Chains /\ base \in Int /\ meta.watermark \in Int
      /\ balances \in Seq(Records)
  BY DEF Durable, Typed, Metas
<1>2. Chronicle
  BY <1>1, ChronicleIs
<1> SUFFICES ASSUME NEW n \in 1 .. Len(Happened(chain)), Change(w, n) # 0,
                    Happened(chain)[n].ts <= at
             PROVE  \E k \in DOMAIN balances :
                      /\ balances[k].wallet = w
                      /\ \/ OfTx(balances[k], n)
                         \/ balances[k].seq >= SeqAt[n] /\ balances[k].ts < pruned
  BY DEF Accounted
<1>3. \E s \in Slots : \E i \in DOMAIN chain[s].txs :
        /\ SeqAt[n] = SeqNo(s, i)
        /\ Happened(chain)[n] = [ts |-> chain[s].ts, legs |-> chain[s].txs[i]]
  BY <1>2 DEF Chronicle
<1>4. PICK s \in Slots : \E i \in DOMAIN chain[s].txs :
        /\ SeqAt[n] = SeqNo(s, i)
        /\ Happened(chain)[n] = [ts |-> chain[s].ts, legs |-> chain[s].txs[i]]
  BY <1>3
<1>5. PICK i \in DOMAIN chain[s].txs :
        /\ SeqAt[n] = SeqNo(s, i)
        /\ Happened(chain)[n] = [ts |-> chain[s].ts, legs |-> chain[s].txs[i]]
  BY <1>4
<1>6. /\ Net(chain[s].txs[i], w) # 0
      /\ chain[s].ts <= at
      /\ SeqAt[n] = s * SEQ_MULT + i
  BY <1>5 DEF Change, SeqNo
<1>7. s \in Nat /\ chain[s].ts \in Nat
  <2>1. s \in Nat /\ chain \in [Slots -> Blocks]
    BY <1>1, ChainAssumption DEF Slots
  <2> QED
    BY <2>1 DEF Blocks, Times
<1>8. base < s
  <2> SUFFICES ASSUME s <= base
               PROVE  FALSE
    BY <1>1, <1>7
  <2>1. s \in 0 .. base
    BY <1>1, <1>7
  <2>2. chain[s].txs = <<>>
    BY <2>1 DEF FromTheStart
  <2> QED
    BY <1>5, <2>2
<1>9. s <= meta.watermark
  BY <1>1, <1>6, <1>7 DEF Closed
<1>10. \E k \in DOMAIN balances :
         /\ balances[k].wallet = w
         /\ balances[k].seq >= SeqAt[n]
         /\ balances[k].seq = SeqAt[n] \/ balances[k].ts < pruned
  <2>1. CASE Straight
    <3>1. Complete(balances, meta.watermark)
      BY <2>1, Between
    <3>2. HasLater(balances, s)
      BY <1>8, <1>9, <3>1 DEF Complete
    <3> QED
      BY <1>6, <3>2 DEF HasLater
  <2>2. CASE pruned = 0
    <3>1. s \in pending \cup (base + 1 .. meta.watermark)
      BY <1>1, <1>7, <1>8, <1>9
    <3>2. Covers(balances, pending \cup (base + 1 .. meta.watermark), pruned)
      BY <1>1 DEF Acked
    <3>3. Has(balances, s)
      BY <1>7, <2>2, <3>1, <3>2 DEF Covers
    <3>4. PICK k \in DOMAIN balances :
            balances[k].wallet = w /\ balances[k].seq = SeqAt[n]
      BY <1>6, <3>3 DEF Has
    <3>5. SeqAt[n] \in Nat
      BY <1>2 DEF Chronicle
    <3> QED
      BY <3>4, <3>5
  <2> QED
    BY <2>1, <2>2
<1>11. PICK k \in DOMAIN balances :
         /\ balances[k].wallet = w
         /\ balances[k].seq >= SeqAt[n]
         /\ balances[k].seq = SeqAt[n] \/ balances[k].ts < pruned
  BY <1>10
<1>12. ASSUME balances[k].seq = SeqAt[n]
       PROVE  OfTx(balances[k], n)
  <2>1. PICK m : OfTx(balances[k], m)
    BY DEF AllOfTx
  <2>2. n = m
    BY <1>2, <1>12, <2>1, OfItsTx
  <2> QED
    BY <2>1, <2>2
<1> QED
  BY <1>11, <1>12

(* Each record within at has the true balance. *)
LEMMA AccountedTrue ==
  ASSUME Reproducible, Sourced, Truthful, up, ~cut, FromTheStart,
         NEW at \in Nat, NEW w \in Wallets \ Pools, InTurn(w), Accounted(w, at),
         pruned = 0 \/ Straight,
         NEW k \in DOMAIN balances, balances[k].wallet = w, balances[k].ts <= at
  PROVE  Tells(balances[k])
<1>1. balances \in Seq(Records) /\ chain \in Chains
  BY DEF Reproducible, Durable, Typed
<1>2. Chronicle /\ Truth(w)
  BY <1>1, ChronicleIs, TruthIs
<1>3. CASE Straight
  <2>1. AllTell(balances)
    BY <1>3 DEF Truthful
  <2> QED
    BY <2>1 DEF AllTell
<1>4. CASE pruned = 0
  <2> PICK N \in Nat : N = Len(balances) /\ DOMAIN balances = 1 .. N
    BY <1>1, LenProperties
  <2> PICK L \in Nat : L = Len(Happened(chain))
    BY <1>2 DEF Chronicle
  <2>1. AllOfTx(balances) /\ AllFollow(balances)
    BY <1>4 DEF Sourced
  <2>2. Rising(balances, w, Len(balances))
    BY DEF InTurn, Rising
  <2>3. ASSUME NEW i \in 1 .. N, balances[i].wallet = w, balances[i].ts <= at
        PROVE  \E n : FollowsAt(balances, i, n) /\ Caught(balances, w, i, n)
    <3>1. PICK n : FollowsAt(balances, i, n)
      BY <2>1 DEF AllFollow
    <3>2. /\ n \in 1 .. L /\ balances[i].seq = SeqAt[n]
          /\ balances[i].ts = Happened(chain)[n].ts
      BY <3>1 DEF FollowsAt, OfTx
    <3>3. ASSUME NEW q \in 1 .. n - 1, Change(w, q) # 0
          PROVE  \E j \in 1 .. i - 1 : balances[j].wallet = w /\ balances[j].seq >= SeqAt[q]
      <4>1. q \in 1 .. L /\ q < n /\ q <= n
        BY <3>2
      <4>2. /\ Happened(chain)[q].ts \in Nat /\ Happened(chain)[n].ts \in Nat
            /\ Happened(chain)[q].ts <= Happened(chain)[n].ts
            /\ SeqAt[q] \in Nat /\ SeqAt[n] \in Nat /\ SeqAt[q] < SeqAt[n]
        <5>1. /\ Happened(chain)[q].ts \in Nat /\ Happened(chain)[n].ts \in Nat
              /\ SeqAt[q] \in Nat /\ SeqAt[n] \in Nat
          BY <1>2, <3>2, <4>1 DEF Chronicle
        <5>2. SeqAt[q] < SeqAt[n]
          BY <1>2, <3>2, <4>1 DEF Chronicle
        <5>3. Happened(chain)[q].ts <= Happened(chain)[n].ts
          BY <1>2, <3>2, <4>1 DEF Chronicle
        <5> QED
          BY <5>1, <5>2, <5>3
      <4>3. Happened(chain)[q].ts <= at
        BY <2>3, <3>2, <4>2
      <4>4. PICK j \in DOMAIN balances :
              /\ balances[j].wallet = w
              /\ \/ OfTx(balances[j], q)
                 \/ balances[j].seq >= SeqAt[q] /\ balances[j].ts < pruned
        BY <3>3, <4>1, <4>3 DEF Accounted
      <4>5. balances[j].seq = SeqAt[q]
        <5>1. balances[j].ts \in Nat
          <6>1. \A r \in Records : r.ts \in Nat
            BY DEF Records, Times
          <6> QED
            BY <1>1, <6>1, ElementOfSeq, <4>4
        <5>2. OfTx(balances[j], q)
          BY <1>4, <4>4, <5>1
        <5> QED
          BY <5>2 DEF OfTx
      <4>6. j < i
        <5>1. j # i
          BY <3>2, <4>2, <4>5
        <5>2. ~(i < j)
          <6> SUFFICES ASSUME i < j
                       PROVE  FALSE
            OBVIOUS
          <6>1. balances[i].seq < balances[j].seq
            BY <2>3, <4>4 DEF InTurn
          <6> QED
            BY <3>2, <4>2, <4>5, <6>1
        <5> QED
          BY <5>1, <5>2
      <4>7. j \in 1 .. i - 1
        BY <4>6
      <4> QED
        BY <4>2, <4>4, <4>5, <4>7
    <3>4. Caught(balances, w, i, n)
      BY <3>3 DEF Caught
    <3> QED
      BY <3>1, <3>4
  <2>4. /\ \A i \in 1 .. 0 : balances[i].wallet = w /\ balances[i].ts <= at => Tells(balances[i])
        /\ \A i \in 1 .. Len(balances) : balances[i].wallet = w => \E n : OfTx(balances[i], n)
        /\ \A i \in 0 + 1 .. Len(balances) : balances[i].wallet = w /\ balances[i].ts <= at =>
             \E n : FollowsAt(balances, i, n) /\ Caught(balances, w, i, n)
        /\ 0 \in 0 .. Len(balances) /\ at \in Int
    BY <2>1, <2>3 DEF AllOfTx
  <2>5. \A i \in 1 .. Len(balances) : balances[i].wallet = w /\ balances[i].ts <= at =>
          Tells(balances[i])
    BY <1>1, <1>2, <2>2, <2>4, AllTrue
  <2> QED
    BY <2>5
<1> QED
  BY <1>3, <1>4

(* Behind the gate, all is known of a wallet whose records came in turn. *)
LEMMA ClosedKnown ==
  ASSUME Reproducible, Sourced, Truthful, up, todo = <<>>, ~cut, FromTheStart,
         NEW windowStart \in Nat, NEW at \in Nat, Closed(at),
         pruned <= windowStart + 1, NEW w \in Wallets \ Pools, InTurn(w),
         pruned = 0 \/ Straight
  PROVE  Known(w, windowStart, at)
<1>1. /\ balances \in Seq(Records) /\ chain \in Chains /\ pruned \in Nat
      /\ Durable /\ StraightKept /\ AllOfTx(balances)
  BY DEF Reproducible, Durable, Typed, Sourced, Times
<1>2. Chronicle /\ Truth(w)
  BY <1>1, ChronicleIs, TruthIs
<1>3. Timely(w)
  BY <1>1, <1>2, TurnTimely
<1>4. Accounted(w, at)
  BY <1>1, ClosedAccounted
<1>5. ASSUME NEW k \in DOMAIN balances, balances[k].wallet = w, balances[k].ts <= at
      PROVE  /\ balances[k].balance \in Nat
             /\ \E n : OfTx(balances[k], n) /\ balances[k].balance = TrueBalance(chain, w, n)
  <2>1. Tells(balances[k])
    BY <1>4, <1>5, AccountedTrue
  <2>2. PICK m \in 1 .. Len(Happened(chain)) :
          balances[k].seq = SeqAt[m] /\ balances[k].balance = TrueBalance(chain, w, m)
    BY <1>5, <2>1 DEF Tells
  <2>3. PICK n : OfTx(balances[k], n)
    BY <1>1 DEF AllOfTx
  <2>4. m = n
    BY <1>2, <2>2, <2>3, OfItsTx
  <2>5. m \in 0 .. Len(Happened(chain))
    BY <1>2 DEF Chronicle
  <2>6. TrueBalance(chain, w, m) \in Nat
    BY <1>2, <2>5 DEF Truth
  <2> QED
    BY <2>2, <2>3, <2>4, <2>6
<1>6. ASSUME NEW n \in 1 .. Len(Happened(chain)), Change(w, n) # 0,
             Happened(chain)[n].ts <= at
      PROVE  \E k \in DOMAIN balances :
               /\ balances[k].wallet = w
               /\ \/ OfTx(balances[k], n)
                  \/ balances[k].seq >= SeqAt[n] /\ balances[k].ts <= windowStart
  <2>1. PICK k \in DOMAIN balances :
          /\ balances[k].wallet = w
          /\ \/ OfTx(balances[k], n)
             \/ balances[k].seq >= SeqAt[n] /\ balances[k].ts < pruned
    BY <1>4, <1>6 DEF Accounted
  <2>2. balances[k].ts \in Nat
    <3>1. \A r \in Records : r.ts \in Nat
      BY DEF Records, Times
    <3> QED
      BY <1>1, <3>1, ElementOfSeq, <2>1
  <2>3. balances[k].ts < pruned => balances[k].ts <= windowStart
    BY <1>1, <2>2
  <2> QED
    BY <2>1, <2>3
<1> QED
  BY <1>3, <1>5, <1>6 DEF Known

(* Writes p move the watermark up from mark, and the time they put beside  *)
(* it is not later than that of any slot above it.                         *)
Stamps(p, mark) ==
  \A j \in DOMAIN p :
    /\ p[j].to = "watermark" =>
         /\ mark <= p[j].value
         /\ \A i \in DOMAIN p : i < j /\ p[i].to = "watermark" => p[i].value <= p[j].value
    /\ p[j].to = "watermarkTs" =>
         \A s \in Slots :
           \/ p[j].value <= chain[s].ts
           \/ s <= mark
           \/ \E i \in DOMAIN p : i < j /\ p[i].to = "watermark" /\ s <= p[i].value

(* So it is with the writes to be made, and what they start from.          *)
Stamped ==
  /\ \A s \in Slots : meta.watermark < s => meta.watermarkTs <= chain[s].ts
  /\ Stamps(todo, meta.watermark)

(* The times of slots are numbers and go up. *)
LEMMA TimesIs ==
  ASSUME chain \in Chains
  PROVE  /\ \A s \in Slots : s \in Nat /\ chain[s].ts \in Nat
         /\ \A s, t \in Slots : s <= t => chain[s].ts <= chain[t].ts
<1>1. chain \in [Slots -> Blocks] /\ LastSlot \in Nat /\ MaxTime \in Nat
      /\ \A s, t \in Slots : s <= t => chain[s].ts <= chain[t].ts
  BY ChainAssumption
<1>2. \A s \in Slots : chain[s].ts \in Times
  BY <1>1 DEF Blocks
<1> QED
  BY <1>1, <1>2 DEF Slots, Times

(* The writes of a handler of a slot do. *)
LEMMA IngestStamps ==
  ASSUME Typed, NEW s \in Slots, NEW from \in -2 .. LastSlot,
         NEW first \in Seq(Writes), IngestSlot(s, from, first),
         \A j \in DOMAIN first : first[j].to = "watermark" => first[j].value = from,
         \A j \in DOMAIN first : first[j].to = "watermarkTs" => first[j].value = 0,
         NEW mark \in Int, mark <= from
  PROVE  Stamps(todo', mark)
<1> PICK recs : recs = RecordsOf(s, BalancesAfter(s))
  OBVIOUS
<1> PICK wm : wm = Advanced(from, pending \cup {s})
  OBVIOUS
<1> PICK L : L = LinesOf(recs)
  OBVIOUS
<1> PICK rest : rest = MarkOf(from, wm)
  OBVIOUS
<1> PICK all : all = todo'
  OBVIOUS
<1>1. all = first \o L \o rest
  BY DEF IngestSlot, LinesOf, MarkOf
<1>2. chain \in Chains /\ latest \in [Wallets -> Nat] /\ pending \in SUBSET Slots
      /\ excluded \in SUBSET Pools
  BY DEF Typed
<1>3. recs \in Seq(Records)
  <2>1. RecordsOf(s, BalancesAfter(s)) \in Seq(Records)
    BY <1>2, RecordsIs
  <2> QED
    BY ONLY <2>1, recs = RecordsOf(s, BalancesAfter(s))
<1>4. /\ wm \in Int /\ from <= wm /\ from \in Int
      /\ wm # from => wm \in Slots
  <2>1. from \in Int /\ pending \cup {s} \in SUBSET Slots /\ Slots \in SUBSET Int
    BY <1>2, ChainAssumption DEF Slots
  <2>2. wm \in Int /\ from <= wm /\ (wm = from \/ wm \in pending \cup {s})
    BY <1>2, <2>1, AdvancedIs
  <2> QED
    BY <2>1, <2>2
<1>5. /\ L \in Seq(Writes)
      /\ \A j \in DOMAIN L : L[j].to = "line"
  BY <1>3, RecsOfLines
<1>6. /\ rest \in Seq(Writes)
      /\ \A k \in DOMAIN rest :
           \/ k = 1 /\ rest[k].to = "watermark" /\ rest[k].value = wm
           \/ k = 2 /\ rest[k].to = "watermarkTs" /\ rest[k].value = chain[wm].ts
                    /\ wm \in Slots
      /\ 2 \in DOMAIN rest => 1 \in DOMAIN rest
  <2>1. CASE wm = from
    <3>1. rest = <<>>
      BY <2>1 DEF MarkOf
    <3>2. rest \in Seq(Writes) /\ DOMAIN rest = {}
      BY <3>1
    <3> QED
      BY <3>2
  <2>2. CASE wm # from
    <3>1. chain[wm].ts \in Int /\ wm \in -1 .. LastSlot /\ wm \in Slots
      BY <1>2, <1>4, <2>2, TimesIs DEF Slots
    <3>2. rest = <<WriteTo("watermark", wm), WriteTo("watermarkTs", chain[wm].ts)>>
      BY <2>2 DEF MarkOf
    <3>3. /\ WriteTo("watermark", wm) \in Writes
          /\ WriteTo("watermarkTs", chain[wm].ts) \in Writes
          /\ WriteTo("watermark", wm).to = "watermark"
          /\ WriteTo("watermark", wm).value = wm
          /\ WriteTo("watermarkTs", chain[wm].ts).to = "watermarkTs"
          /\ WriteTo("watermarkTs", chain[wm].ts).value = chain[wm].ts
      BY <1>4, <3>1, MarkWriteIs
    <3> PICK v \in Writes : v = WriteTo("watermark", wm)
      BY <3>3
    <3> PICK w \in Writes : w = WriteTo("watermarkTs", chain[wm].ts)
      BY <3>3
    <3>4. /\ DOMAIN <<v, w>> = 1 .. 2 /\ <<v, w>> \in Seq(Writes)
          /\ <<v, w>>[1] = v /\ <<v, w>>[2] = w
      OBVIOUS
    <3>5. DOMAIN rest = 1 .. 2 /\ rest \in Seq(Writes)
          /\ rest[1] = WriteTo("watermark", wm)
          /\ rest[2] = WriteTo("watermarkTs", chain[wm].ts)
      BY <3>2, <3>4
    <3>6. \A k \in DOMAIN rest : k = 1 \/ k = 2
      BY <3>5
    <3>7. 1 \in DOMAIN rest
      BY <3>5
    <3> QED
      BY <3>1, <3>3, <3>5, <3>6, <3>7
  <2> QED
    BY <2>1, <2>2
<1>7. Places(first, L, rest, all)
  BY <1>1, <1>5, <1>6, PlacesIs
<1> PICK c \in Nat : c = Len(first) + Len(L)
  BY <1>7 DEF Places
<1>8. /\ \A k \in DOMAIN rest : c + k \in DOMAIN all /\ all[c + k] = rest[k]
      /\ Len(first) \in Nat /\ Len(first) <= c
  <2>1. Len(first) \in Nat /\ Len(L) \in Nat
    BY <1>7 DEF Places
  <2>2. \A k \in DOMAIN rest : Len(first) + Len(L) + k \in DOMAIN all
                              /\ all[Len(first) + Len(L) + k] = rest[k]
    BY <1>7 DEF Places
  <2>3. \A k \in DOMAIN rest : c + k \in DOMAIN all /\ all[c + k] = rest[k]
    BY <2>2
  <2>4. Len(first) <= c
    BY <2>1
  <2> QED
    BY <2>1, <2>3, <2>4
<1>9. ASSUME NEW j \in DOMAIN all
      PROVE  \/ j \in 1 .. Len(first) /\ j \in DOMAIN first /\ all[j] = first[j]
             \/ all[j].to = "line"
             \/ /\ j = c + 1 /\ all[j].to = "watermark" /\ all[j].value = wm
             \/ /\ j = c + 2 /\ all[j].to = "watermarkTs" /\ all[j].value = chain[wm].ts
                /\ wm \in Slots /\ c + 1 \in DOMAIN all
                /\ all[c + 1].to = "watermark" /\ all[c + 1].value = wm
  <2>1. \A k \in DOMAIN rest : k = 1 \/ k = 2
    BY <1>6
  <2>2. CASE \E k \in DOMAIN L : all[j] = L[k]
    BY <1>5, <2>2
  <2>3. CASE \E k \in DOMAIN rest : j = c + k /\ all[j] = rest[k]
    <3>1. PICK k \in DOMAIN rest : j = c + k /\ all[j] = rest[k]
      BY <2>3
    <3>2. CASE k = 1
      <4>1. k # 2
        BY <3>2
      <4>2. rest[k].to = "watermark" /\ rest[k].value = wm
        BY <1>6, <4>1
      <4>3. all[j].to = "watermark" /\ all[j].value = wm /\ j = c + 1
        BY <3>1, <3>2, <4>2
      <4> QED
        BY <4>3
    <3>3. CASE k = 2
      <4>1. 1 \in DOMAIN rest
        BY <1>6, <3>3
      <4>2. c + 1 \in DOMAIN all /\ all[c + 1] = rest[1]
        BY <1>8, <4>1
      <4>3. rest[1].to = "watermark" /\ rest[1].value = wm
        <5>1. 1 # 2
          OBVIOUS
        <5> QED
          BY <1>6, <4>1, <5>1
      <4> QED
        BY <1>6, <3>1, <3>3, <4>2, <4>3
    <3> QED
      BY <2>1, <3>1, <3>2, <3>3
  <2>4. \/ j \in 1 .. Len(first) /\ j \in DOMAIN first /\ all[j] = first[j]
        \/ \E k \in DOMAIN L : all[j] = L[k]
        \/ \E k \in DOMAIN rest : j = c + k /\ all[j] = rest[k]
    <3>1. \/ j \in 1 .. Len(first) /\ j \in DOMAIN first /\ all[j] = first[j]
          \/ \E k \in DOMAIN L : j = Len(first) + k /\ all[j] = L[k]
                                 /\ k \in 1 .. Len(L)
          \/ \E k \in DOMAIN rest : j = Len(first) + Len(L) + k /\ all[j] = rest[k]
                                    /\ k \in 1 .. Len(rest)
      BY <1>7 DEF Places
    <3> QED
      BY <3>1
  <2> QED
    BY <2>2, <2>3, <2>4
<1>10. ASSUME NEW j \in DOMAIN all, all[j].to = "watermark"
       PROVE  \/ j \in 1 .. Len(first) /\ all[j].value = from
              \/ j = c + 1 /\ all[j].value = wm
  BY <1>9, <1>10
<1>11. ASSUME NEW j \in DOMAIN all, all[j].to = "watermark"
       PROVE  /\ mark <= all[j].value
              /\ \A i \in DOMAIN all : i < j /\ all[i].to = "watermark" =>
                   all[i].value <= all[j].value
  <2>1. all[j].value = from \/ all[j].value = wm
    BY <1>10, <1>11
  <2>4. mark <= from /\ mark <= wm
    BY <1>4
  <2>2. ASSUME NEW i \in DOMAIN all, i < j, all[i].to = "watermark"
        PROVE  all[i].value <= all[j].value
    <3>1. \/ i \in 1 .. Len(first) /\ all[i].value = from
          \/ i = c + 1 /\ all[i].value = wm
      BY <1>10, <2>2
    <3>2. \/ j \in 1 .. Len(first) /\ all[j].value = from
          \/ j = c + 1 /\ all[j].value = wm
      BY <1>10, <1>11
    <3> QED
      BY <1>4, <1>8, <2>2, <3>1, <3>2
  <2> QED
    BY <2>1, <2>2, <2>4
<1>12. ASSUME NEW j \in DOMAIN all, all[j].to = "watermarkTs", NEW t \in Slots
       PROVE  \/ all[j].value <= chain[t].ts
              \/ \E i \in DOMAIN all : i < j /\ all[i].to = "watermark" /\ t <= all[i].value
  <2>1. t \in Nat /\ chain[t].ts \in Nat
    BY <1>2, TimesIs
  <2>2. CASE j \in 1 .. Len(first) /\ j \in DOMAIN first /\ all[j] = first[j]
    BY <1>12, <2>1, <2>2
  <2>3. CASE /\ j = c + 2 /\ all[j].to = "watermarkTs" /\ all[j].value = chain[wm].ts
             /\ wm \in Slots /\ c + 1 \in DOMAIN all
             /\ all[c + 1].to = "watermark" /\ all[c + 1].value = wm
    <3>1. CASE t <= wm
      <4>1. c + 1 < j
        BY <2>3
      <4> QED
        BY <2>3, <3>1, <4>1
    <3>2. CASE wm <= t
      <4>1. chain[wm].ts <= chain[t].ts
        BY <1>2, <2>3, <3>2, TimesIs
      <4> QED
        BY <2>3, <4>1
    <3> QED
      BY <1>4, <2>1, <3>1, <3>2
  <2> QED
    BY <1>9, <1>12, <2>2, <2>3
<1>13. Stamps(all, mark)
  BY <1>11, <1>12 DEF Stamps
<1> QED
  BY <1>13

(* They still do when the first of them is made. *)
LEMMA StampsTail ==
  ASSUME NEW p \in Seq(Writes), p # <<>>, NEW mark \in Int, Stamps(p, mark),
         NEW m \in Int,
         p[1].to = "watermark" => m = p[1].value,
         p[1].to # "watermark" => m = mark
  PROVE  Stamps(Tail(p), m) /\ mark <= m
<1> PICK q : q = Tail(p)
  OBVIOUS
<1>1. /\ 1 \in DOMAIN p
      /\ \A j \in DOMAIN q : j \in Nat /\ j + 1 \in DOMAIN p /\ q[j] = p[j + 1]
      /\ \A j \in DOMAIN p : j # 1 => j - 1 \in DOMAIN q /\ q[j - 1] = p[j]
      /\ DOMAIN p \in SUBSET Nat /\ DOMAIN q \in SUBSET Nat
  <2>1. /\ 1 \in DOMAIN p
        /\ \A j \in DOMAIN q : j \in Nat /\ j + 1 \in DOMAIN p /\ q[j] = p[j + 1]
        /\ \A j \in DOMAIN p : j # 1 => j - 1 \in DOMAIN q /\ q[j - 1] = p[j]
    BY TailIs
  <2>2. DOMAIN p \in SUBSET Nat
    BY TailIs
  <2> QED
    BY <2>1, <2>2
<1>2. \A j \in DOMAIN p : p[j].value \in Int
  BY WriteIs
<1>3. mark <= m
  BY <1>1, <1>2 DEF Stamps
<1>4. ASSUME NEW j \in DOMAIN q, q[j].to = "watermark"
      PROVE  /\ m <= q[j].value
             /\ \A i \in DOMAIN q : i < j /\ q[i].to = "watermark" => q[i].value <= q[j].value
  <2>1. j + 1 \in DOMAIN p /\ p[j + 1].to = "watermark" /\ q[j] = p[j + 1] /\ j \in Nat
        /\ j > 0
    <3>1. j # 0
      <4>1. \A k \in DOMAIN p : k # 0
        BY TailIs
      <4>2. DOMAIN q = 1 .. Len(q)
        OBVIOUS
      <4> QED
        BY <4>2
    <3> QED
      BY <1>1, <1>4, <3>1
  <2>2. /\ mark <= p[j + 1].value
        /\ \A i \in DOMAIN p : i < j + 1 /\ p[i].to = "watermark" =>
             p[i].value <= p[j + 1].value
    BY <2>1 DEF Stamps
  <2>3. m <= q[j].value
    <3>1. 1 < j + 1
      BY <2>1
    <3>2. CASE p[1].to = "watermark"
      BY <1>1, <2>1, <2>2, <3>1, <3>2
    <3>3. CASE p[1].to # "watermark"
      BY <2>1, <2>2, <3>3
    <3> QED
      BY <3>2, <3>3
  <2>4. ASSUME NEW i \in DOMAIN q, i < j, q[i].to = "watermark"
        PROVE  q[i].value <= q[j].value
    <3>1. i + 1 \in DOMAIN p /\ q[i] = p[i + 1] /\ i + 1 < j + 1
      BY <1>1, <2>1, <2>4
    <3> QED
      BY <2>1, <2>2, <2>4, <3>1
  <2> QED
    BY <2>3, <2>4
<1>5. ASSUME NEW j \in DOMAIN q, q[j].to = "watermarkTs", NEW s \in Slots
      PROVE  \/ q[j].value <= chain[s].ts
             \/ s <= m
             \/ \E i \in DOMAIN q : i < j /\ q[i].to = "watermark" /\ s <= q[i].value
  <2>1. j + 1 \in DOMAIN p /\ p[j + 1].to = "watermarkTs" /\ q[j] = p[j + 1] /\ j \in Nat
    BY <1>1, <1>5
  <2>2. \/ p[j + 1].value <= chain[s].ts
        \/ s <= mark
        \/ \E i \in DOMAIN p : i < j + 1 /\ p[i].to = "watermark" /\ s <= p[i].value
    BY <2>1 DEF Stamps
  <2>3. s \in Int
    BY ChainAssumption DEF Slots
  <2>4. ASSUME NEW i \in DOMAIN p, i < j + 1, p[i].to = "watermark", s <= p[i].value
        PROVE  \/ s <= m
               \/ \E k \in DOMAIN q : k < j /\ q[k].to = "watermark" /\ s <= q[k].value
    <3>1. CASE i = 1
      BY <2>4, <3>1
    <3>2. CASE i # 1
      <4>1. i - 1 \in DOMAIN q /\ q[i - 1] = p[i] /\ i - 1 < j
        BY <1>1, <2>1, <2>4, <3>2
      <4> QED
        BY <2>4, <4>1
    <3> QED
      BY <3>1, <3>2
  <2> QED
    BY <1>3, <2>1, <2>2, <2>3, <2>4
<1>6. Stamps(q, m)
  BY <1>4, <1>5 DEF Stamps
<1> QED
  BY <1>3, <1>6

(* The writes of the baseline have its time. *)
LEMMA BaselineTimes ==
  ASSUME NEW s \in Slots
  PROVE  \A j \in DOMAIN Baseline(s) :
           Baseline(s)[j].to = "watermarkTs" => Baseline(s)[j].value = 0
<1>1. s - 1 \in Int /\ 1 \in Int /\ 0 \in Int /\ s - 1 \in -1 .. LastSlot
  BY ChainAssumption DEF Slots
<1>2. /\ WriteTo("started", 1) \in Writes /\ WriteTo("started", 1).to = "started"
      /\ WriteTo("watermark", s - 1) \in Writes
      /\ WriteTo("watermark", s - 1).to = "watermark"
      /\ WriteTo("watermarkTs", 0) \in Writes
      /\ WriteTo("watermarkTs", 0).value = 0
  BY <1>1, MarkWriteIs
<1> PICK u \in Writes : u = WriteTo("started", 1)
  BY <1>2
<1> PICK v \in Writes : v = WriteTo("watermark", s - 1)
  BY <1>2
<1> PICK w \in Writes : w = WriteTo("watermarkTs", 0)
  BY <1>2
<1>3. DOMAIN <<u, v, w>> = 1 .. 3 /\ <<u, v, w>>[1] = u /\ <<u, v, w>>[2] = v
      /\ <<u, v, w>>[3] = w
  OBVIOUS
<1>4. Baseline(s) = <<u, v, w>>
  BY DEF Baseline
<1>5. \A j \in 1 .. 3 : j = 1 \/ j = 2 \/ j = 3
  OBVIOUS
<1> QED
  BY <1>2, <1>3, <1>4, <1>5

(* On the same chain the same writes are so still. *)
LEMMA StampsStill ==
  ASSUME chain' = chain, NEW p, p = todo', NEW mark, mark = meta'.watermark,
         Stamps(p, mark)
  PROVE  Stamps(todo, meta.watermark)'
BY DEF Stamps

(* Stamped is inductive relative to Durable. *)
LEMMA NextStamped == Durable /\ Stamped /\ [Next]_vars => Stamped'
<1> SUFFICES ASSUME Durable, Stamped, [Next]_vars
             PROVE  Stamped'
  OBVIOUS
<1>1. Typed /\ Unstarted /\ chain \in Chains /\ meta \in Metas /\ todo \in Seq(Writes)
  BY DEF Durable, Typed
<1>2. /\ meta.watermark \in -2 .. LastSlot /\ meta.watermark \in Int
      /\ meta.watermarkTs \in Int
  BY <1>1 DEF Metas
<1>3. /\ \A s \in Slots : s \in Nat /\ chain[s].ts \in Nat
      /\ \A s \in Slots : meta.watermark < s => meta.watermarkTs <= chain[s].ts
      /\ Stamps(todo, meta.watermark)
  BY <1>1, TimesIs DEF Stamped
<1>4. ASSUME NEW p, p = todo', DOMAIN p = {}
      PROVE  \A mark : Stamps(p, mark)
  BY <1>4 DEF Stamps
<1>5. ASSUME chain' = chain, meta' = meta, NEW p, p = todo',
             Stamps(p, meta.watermark)
      PROVE  Stamped'
  BY <1>3, <1>5, StampsStill DEF Stamped
<1>6. ASSUME NEW s \in Slots, processSlot(s)
      PROVE  Stamped'
  <2>1. chain' = chain /\ meta' = meta
    BY <1>6 DEF processSlot, disk
  <2> PICK p : p = todo'
    OBVIOUS
  <2>2. CASE meta.started
    <3>1. IngestSlot(s, meta.watermark, <<>>)
      BY <1>6, <2>2 DEF processSlot
    <3>2. <<>> \in Seq(Writes) /\ DOMAIN <<>> = {} /\ meta.watermark <= meta.watermark
      BY <1>2
    <3>3. Stamps(p, meta.watermark)
      BY <1>1, <1>2, <3>1, <3>2, IngestStamps
    <3> QED
      BY <1>5, <2>1, <3>3
  <2>3. CASE ~meta.started
    <3>1. IngestSlot(s, s - 1, Baseline(s))
      BY <1>6, <2>3 DEF processSlot, Baseline
    <3>2. meta.watermark <= -1
      BY <1>1, <2>3 DEF Unstarted
    <3>3. s - 1 \in -2 .. LastSlot /\ meta.watermark <= s - 1
      BY <1>2, <1>3, <3>2, ChainAssumption DEF Slots
    <3>4. /\ Baseline(s) \in Seq(Writes)
          /\ \A j \in DOMAIN Baseline(s) : Baseline(s)[j].to = "watermark" =>
               Baseline(s)[j].value = s - 1
          /\ \A j \in DOMAIN Baseline(s) : Baseline(s)[j].to = "watermarkTs" =>
               Baseline(s)[j].value = 0
      BY BaselineIs, BaselineTimes
    <3>5. Stamps(p, meta.watermark)
      BY <1>1, <1>2, <3>1, <3>3, <3>4, IngestStamps
    <3> QED
      BY <1>5, <2>1, <3>5
  <2> QED
    BY <2>2, <2>3
<1>7. ASSUME NEW s \in Slots, backfill(s)
      PROVE  Stamped'
  <2>1. chain' = chain /\ meta' = meta /\ IngestSlot(s, meta.watermark, <<>>)
    BY <1>7 DEF backfill, disk
  <2> PICK p : p = todo'
    OBVIOUS
  <2>2. <<>> \in Seq(Writes) /\ DOMAIN <<>> = {} /\ meta.watermark <= meta.watermark
    BY <1>2
  <2>3. Stamps(p, meta.watermark)
    BY <1>1, <1>2, <2>1, <2>2, IngestStamps
  <2> QED
    BY <1>5, <2>1, <2>3
<1>8. CASE trackCoin \/ UNCHANGED vars
  <2>1. chain' = chain /\ meta' = meta /\ todo = todo'
    BY <1>8 DEF trackCoin, vars, disk
  <2> QED
    BY <1>3, <1>5, <2>1
<1>9. ASSUME NEW t \in Times, prune(t)
      PROVE  Stamped'
  <2>1. chain' = chain /\ meta' = meta /\ todo' = <<Rewrite(Kept(balances, t))>>
    BY <1>9 DEF prune, disk
  <2> PICK w : w = Rewrite(Kept(balances, t))
    OBVIOUS
  <2>2. w.to = "log"
    BY DEF Rewrite
  <2> PICK p : p = todo'
    OBVIOUS
  <2>3. \A j \in DOMAIN p : p[j].to = "log"
    BY <2>1, <2>2
  <2>4. Stamps(p, meta.watermark)
    BY <2>3 DEF Stamps
  <2> QED
    BY <1>5, <2>1, <2>4
<1>10. CASE Flush
  <2> PICK w : w = Head(todo)
    OBVIOUS
  <2> PICK p : p = todo'
    OBVIOUS
  <2> PICK m : m = meta'.watermark
    OBVIOUS
  <2>1. /\ w = todo[1] /\ todo # <<>> /\ p = Tail(todo) /\ meta' \in Metas
        /\ w.to = "watermark" => m = w.value
        /\ w.to # "watermark" => m = meta.watermark
        /\ w \in Writes
    BY <1>1, <1>10, FlushIs
  <2>2. chain' = chain
    BY <1>10 DEF Flush
  <2>3. m \in Int
    BY <2>1 DEF Metas
  <2>4. Stamps(p, m) /\ meta.watermark <= m
    BY <1>1, <1>2, <1>3, <2>1, <2>3, StampsTail
  <2>5. Stamps(todo, meta.watermark)'
    BY <2>2, <2>4, StampsStill
  <2>6. ASSUME NEW s \in Slots, m < s
        PROVE  meta'.watermarkTs <= chain[s].ts
    <3>1. meta.watermark < s
      BY <1>2, <1>3, <2>3, <2>4, <2>6
    <3>2. CASE w.to = "watermarkTs"
      <4>1. meta' = [meta EXCEPT !["watermarkTs"] = w.value]
        BY <1>10, <3>2 DEF Flush
      <4>2. meta'.watermarkTs = w.value
        BY <1>1, <4>1 DEF Metas
      <4>3. 1 \in DOMAIN todo /\ \A i \in DOMAIN todo : ~(i < 1)
        BY <1>1, <2>1, TailIs
      <4>4. w.value <= chain[s].ts \/ s <= meta.watermark
        BY <1>3, <2>1, <3>2, <4>3 DEF Stamps
      <4> QED
        BY <1>2, <1>3, <3>1, <4>2, <4>4
    <3>3. CASE w.to # "watermarkTs"
      <4>1. w.to \in {"line", "log", "started", "watermark"}
        BY <2>1, <3>3, WriteIs
      <4>2. \/ meta' = meta
            \/ meta' = [meta EXCEPT !.started = TRUE]
            \/ meta' = [meta EXCEPT !["watermark"] = w.value]
        BY <1>10, <4>1 DEF Flush
      <4>3. meta'.watermarkTs = meta.watermarkTs
        BY <1>1, <4>2 DEF Metas
      <4> QED
        BY <1>3, <3>1, <4>3
    <3> QED
      BY <3>2, <3>3
  <2> QED
    BY <2>2, <2>5, <2>6 DEF Stamped
<1>11. CASE Crash
  <2>1. chain' = chain /\ todo' = <<>>
    BY <1>11 DEF Crash
  <2>2. meta' = meta \/ meta' = NoMeta
    BY <1>1, <1>11, CrashIs
  <2> PICK p : p = todo'
    OBVIOUS
  <2>3. DOMAIN p = {}
    BY <2>1
  <2>4. Stamps(p, meta'.watermark)
    BY <1>4, <2>3
  <2>5. NoMeta.watermarkTs = -1
    BY DEF NoMeta
  <2>6. \A s \in Slots : meta'.watermark < s => meta'.watermarkTs <= chain[s].ts
    BY <1>3, <2>2, <2>5
  <2>7. Stamps(todo, meta.watermark)'
    BY <2>1, <2>4, StampsStill
  <2> QED
    BY <2>1, <2>6, <2>7 DEF Stamped
<1>12. CASE Restart
  <2>1. /\ chain' = chain /\ meta' = meta
        /\ meta.watermark = Undefined => todo' = Fresh
        /\ meta.watermark # Undefined => todo' = <<>>
    BY <1>1, <1>12, RestartIs
  <2> PICK p : p = todo'
    OBVIOUS
  <2>2. CASE meta.watermark = Undefined
    <3>1. p = <<WriteTo("watermark", -1), WriteTo("watermarkTs", 0)>>
      BY <2>1, <2>2 DEF Fresh
    <3>2. -1 \in Int /\ 0 \in Int /\ -1 \in -1 .. LastSlot
      BY ChainAssumption
    <3>3. /\ WriteTo("watermark", -1).to = "watermark"
          /\ WriteTo("watermark", -1).value = -1
          /\ WriteTo("watermarkTs", 0).to = "watermarkTs"
          /\ WriteTo("watermarkTs", 0).value = 0
      BY <3>2, MarkWriteIs
    <3>4. /\ DOMAIN p = 1 .. 2
          /\ p[1] = WriteTo("watermark", -1) /\ p[2] = WriteTo("watermarkTs", 0)
      BY <3>1
    <3>5. \A j \in DOMAIN p : j = 1 \/ j = 2
      BY <3>4
    <3>6. ASSUME NEW j \in DOMAIN p, p[j].to = "watermark"
          PROVE  /\ meta.watermark <= p[j].value
                 /\ \A i \in DOMAIN p : i < j /\ p[i].to = "watermark" =>
                      p[i].value <= p[j].value
      <4>1. j = 1
        BY <3>3, <3>4, <3>5, <3>6
      <4> QED
        BY <2>2, <3>3, <3>4, <3>5, <4>1 DEF Undefined
    <3>7. ASSUME NEW j \in DOMAIN p, p[j].to = "watermarkTs", NEW s \in Slots
          PROVE  p[j].value <= chain[s].ts
      <4>1. p[j].value = 0
        BY <3>3, <3>4, <3>5, <3>7
      <4> QED
        BY <1>3, <4>1
    <3>8. Stamps(p, meta.watermark)
      BY <3>6, <3>7 DEF Stamps
    <3> QED
      BY <1>5, <2>1, <3>8
  <2>3. CASE meta.watermark # Undefined
    <3>1. DOMAIN p = {}
      BY <2>1, <2>3
    <3>2. Stamps(p, meta.watermark)
      BY <1>4, <3>1
    <3> QED
      BY <1>5, <2>1, <3>2
  <2> QED
    BY <2>2, <2>3
<1> QED
  BY <1>6, <1>7, <1>8, <1>9, <1>10, <1>11, <1>12 DEF Next

(* Behind the gate no slot to come has a time within at. *)
LEMMA GateCloses ==
  ASSUME Durable, Stamped, NEW at \in Nat, windowComplete(at), Sealed(at)
  PROVE  Closed(at)
<1> SUFFICES ASSUME NEW s \in Slots, meta.watermark < s
             PROVE  chain[s].ts > at
  BY DEF Closed
<1>1. chain \in Chains /\ meta.watermark \in Int /\ meta.watermarkTs \in Int
  BY DEF Durable, Typed, Metas
<1>2. s \in Nat /\ s <= LastSlot /\ chain[s].ts \in Nat
  BY <1>1, TimesIs, ChainAssumption DEF Slots
<1>3. meta.watermarkTs <= chain[s].ts
  BY DEF Stamped
<1>4. meta.watermarkTs >= at
  BY DEF windowComplete
<1>5. s \in meta.watermark + 1 .. LastSlot
  BY <1>1, <1>2, ChainAssumption
<1>6. chain[s].ts # at
  BY <1>5 DEF Sealed
<1> QED
  BY <1>1, <1>2, <1>3, <1>4, <1>6

(* At first there is nothing to be wrong. *)
LEMMA InitAged == Init => Reproducible /\ Sourced /\ Truthful /\ Stamped
<1> SUFFICES ASSUME Init
             PROVE  Reproducible /\ Sourced /\ Truthful /\ Stamped
  OBVIOUS
<1>1. Reproducible
  BY InitDurable, InitStraight DEF Reproducible
<1>2. Reloaded = <<>> /\ ~up
  BY FlattenEmpty DEF Init, Reloaded
<1> PICK r : r = Reloaded
  OBVIOUS
<1>3. DOMAIN r = {}
  BY <1>2
<1>4. Sourced /\ Truthful
  BY <1>2, <1>3 DEF Sourced, Truthful, AllOfTx, AllFollow, AllTell
<1>5. Stamped
  <2>1. chain \in Chains /\ DOMAIN todo = {} /\ meta.watermarkTs = -1
    BY DEF Init, NoMeta
  <2>2. \A s \in Slots : chain[s].ts \in Nat
    BY <2>1, TimesIs
  <2> QED
    BY <2>1, <2>2 DEF Stamped, Stamps
<1> QED
  BY <1>1, <1>4, <1>5

(* The four are stronger than what was to be shown. *)
LEMMA AgedIsTrue == Reproducible /\ Sourced /\ Truthful /\ Stamped => AgedTrue
<1> SUFFICES ASSUME Reproducible, Sourced, Truthful, Stamped,
                    NEW windowStart \in Times, NEW at \in Times, Asked(windowStart, at),
                    NEW w \in Wallets \ Pools, InTurn(w), pruned = 0 \/ Straight,
                    NEW aged, aged = Smallest(HeldDuring(w, windowStart, at))
             PROVE  /\ AgedOf(w, 0, windowStart, at) = aged
                    /\ \A since \in Times : AgedOf(w, since, windowStart, at) \in {0, aged}
  BY DEF AgedTrue, Straight
<1>1. /\ up /\ todo = <<>> /\ windowStart < at /\ windowComplete(at) /\ Sealed(at)
      /\ FromTheStart /\ pruned <= windowStart + 1 /\ ~cut
  BY DEF Asked
<1>2. /\ Durable /\ chain \in Chains /\ balances \in Seq(Records)
      /\ windowStart \in Nat /\ at \in Nat /\ \A t \in Times : t \in Nat
  BY DEF Reproducible, Durable, Typed, Times
<1>3. Closed(at)
  BY <1>1, <1>2, GateCloses
<1>4. Known(w, windowStart, at)
  BY <1>1, <1>2, <1>3, ClosedKnown
<1>5. ASSUME NEW since \in Nat
      PROVE  /\ AgedOf(w, since, windowStart, at) \in {0, aged}
             /\ since = 0 => AgedOf(w, since, windowStart, at) = aged
  BY <1>1, <1>2, <1>4, KnownAged
<1>6. AgedOf(w, 0, windowStart, at) = aged
  BY <1>5
<1> QED
  BY <1>2, <1>5, <1>6

(* aged-balance.ts:5-6, indexer.ts:119-121: behind the gate, the engine's  *)
(* number is the smallest balance the wallet held in the window, whatever  *)
(* was delivered late or twice and whatever crashed, as long as this       *)
(* wallet's own records came in turn; and a history cut at any time can    *)
(* only turn it into 0.                                                    *)
THEOREM AgedTrueCorrect == Spec => []AgedTrue
<1>1. Init => Reproducible /\ Sourced /\ Truthful /\ Stamped
  BY InitAged
<1>2. Reproducible /\ Sourced /\ Truthful /\ Stamped /\ [Next]_vars
        => (Reproducible /\ Sourced /\ Truthful /\ Stamped)'
  BY NextDurable, NextStraight, NextLatest, NextSourced, NextTruthful, NextStamped
     DEF Reproducible
<1>3. Spec => [](Reproducible /\ Sourced /\ Truthful /\ Stamped)
  BY <1>1, <1>2, PTL DEF Spec
<1> QED
  BY <1>3, AgedIsTrue, PTL
=============================================================================
