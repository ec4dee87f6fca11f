-------------------------------- MODULE Sums --------------------------------
(***************************************************************************)
(* Sums over sequences of numbers, as FoldSeq computes them: the fold takes *)
(* the indices in an order of its own, which addition does not see.         *)
(***************************************************************************)
EXTENDS Naturals, Sequences, SequencesExt, FiniteSetTheorems, SequenceTheorems, WellFoundedInduction, TLAPS

\* G adds up the values v over every set of indices up to n.
AddsUp(v, n, G) ==
    /\ G \in [SUBSET (1..n) -> Nat]
    /\ G[{}] = 0
    /\ \A s \in SUBSET (1..n) : \A i \in s : G[s] = v[i] + G[s \ {i}]

\* The equation of MapThenFoldSet's iteration.
Pick(s) == CHOOSE x \in s : TRUE
Steps(v, S, H) == [s \in SUBSET S |-> IF s = {} THEN 0 ELSE v[Pick(s)] + H[s \ {Pick(s)}]]
-----------------------------------------------------------------------------
\* A set of naturals has a least element.
LEMMA Least ==
    ASSUME NEW T \in SUBSET Nat, T # {}
    PROVE  \E x \in T : \A y \in T : x <= y
<1>1. PICK x \in T : \A y \in T : ~(<<y, x>> \in OpToRel(<, Nat))
  BY WFMin, NatLessThanWellFounded
<1>2. \A y \in T : ~(y < x)
  BY <1>1 DEF OpToRel
<1> QED  BY <1>2

\* A set of naturals that has 0 and every successor has all.
LEMMA Induction ==
    ASSUME NEW T, 0 \in T, \A n \in Nat : n \in T => n + 1 \in T
    PROVE  Nat \subseteq T
<1>1. SUFFICES ASSUME Nat \ T # {} PROVE FALSE
  OBVIOUS
<1>2. PICK x \in Nat \ T : \A y \in Nat \ T : x <= y
  BY <1>1, Least
<1>3. x - 1 \in Nat /\ (x - 1) + 1 = x /\ ~(x <= x - 1)
  BY <1>2
<1> QED  BY <1>2, <1>3

\* Every finite list of numbers can be added up.
LEMMA SumExists ==
    ASSUME NEW n \in Nat, NEW v \in [1..n -> Nat]
    PROVE  \E G : AddsUp(v, n, G)
<1> DEFINE T == {m \in Nat : \A u \in [1..m -> Nat] : \E G \in [SUBSET (1..m) -> Nat] : AddsUp(u, m, G)}
<1>1. 0 \in T
  <2>1. ASSUME NEW u \in [1..0 -> Nat] PROVE \E G \in [SUBSET (1..0) -> Nat] : AddsUp(u, 0, G)
    <3>1. 1..0 = {}
      OBVIOUS
    <3>2. PICK G : G = [s \in SUBSET (1..0) |-> 0]
      OBVIOUS
    <3>3. G \in [SUBSET (1..0) -> Nat] /\ G[{}] = 0
      BY <3>2
    <3>4. \A s \in SUBSET (1..0) : s = {}
      BY <3>1
    <3> QED  BY <3>3, <3>4 DEF AddsUp
  <2> QED  BY <2>1
<1>2. ASSUME NEW m \in Nat, m \in T PROVE m + 1 \in T
  <2>1. ASSUME NEW u \in [1..(m + 1) -> Nat]
        PROVE  \E G \in [SUBSET (1..(m + 1)) -> Nat] : AddsUp(u, m + 1, G)
    <3>1. /\ 1..m \subseteq 1..(m + 1) /\ m + 1 \in 1..(m + 1) /\ m + 1 \notin 1..m
          /\ \A i \in 1..(m + 1) : i # m + 1 => i \in 1..m
      OBVIOUS
    <3>2. PICK w : w = [i \in 1..m |-> u[i]]
      OBVIOUS
    <3>3. w \in [1..m -> Nat] /\ \A i \in 1..m : w[i] = u[i]
      BY <3>1, <3>2
    <3>4. PICK F \in [SUBSET (1..m) -> Nat] : AddsUp(w, m, F)
      BY <1>2, <3>3
    <3>5. PICK G : G = [s \in SUBSET (1..(m + 1)) |-> IF m + 1 \in s THEN u[m + 1] + F[s \ {m + 1}] ELSE F[s]]
      OBVIOUS
    <3>6. ASSUME NEW s \in SUBSET (1..(m + 1))
          PROVE  /\ s \ {m + 1} \in SUBSET (1..m) /\ F[s \ {m + 1}] \in Nat /\ u[m + 1] \in Nat
                 /\ m + 1 \notin s => s \in SUBSET (1..m)
      <4>1. s \ {m + 1} \in SUBSET (1..m) /\ (m + 1 \notin s => s \in SUBSET (1..m))
        BY <3>1
      <4> QED  BY <3>1, <3>4, <4>1
    <3>7. G \in [SUBSET (1..(m + 1)) -> Nat]
      <4>1. \A s \in SUBSET (1..(m + 1)) : (IF m + 1 \in s THEN u[m + 1] + F[s \ {m + 1}] ELSE F[s]) \in Nat
        BY <3>4, <3>6
      <4> QED  BY <3>5, <4>1
    <3>8. G[{}] = 0
      BY <3>4, <3>5 DEF AddsUp
    <3>9. ASSUME NEW s \in SUBSET (1..(m + 1)), NEW i \in s PROVE G[s] = u[i] + G[s \ {i}]
      <4>1. s \ {i} \in SUBSET (1..(m + 1)) /\ i \in 1..(m + 1) /\ u[i] \in Nat
        BY <3>9
      <4>2. CASE i = m + 1
        BY <3>5, <4>1, <4>2
      <4>3. CASE i # m + 1 /\ m + 1 \in s
        <5>1. /\ G[s] = u[m + 1] + F[s \ {m + 1}] /\ G[s \ {i}] = u[m + 1] + F[(s \ {i}) \ {m + 1}]
          BY <3>5, <4>1, <4>3
        <5>2. (s \ {i}) \ {m + 1} = (s \ {m + 1}) \ {i} /\ i \in s \ {m + 1} /\ i \in 1..m
          BY <3>1, <4>1, <4>3
        <5>3. F[s \ {m + 1}] = w[i] + F[(s \ {m + 1}) \ {i}]
          BY <3>4, <3>6, <5>2 DEF AddsUp
        <5>4. F[s \ {m + 1}] \in Nat /\ F[(s \ {m + 1}) \ {i}] \in Nat /\ u[m + 1] \in Nat
          BY <3>4, <3>6
        <5>5. PICK a, b, c : a = u[m + 1] /\ b = F[s \ {m + 1}] /\ c = F[(s \ {m + 1}) \ {i}]
          OBVIOUS
        <5>6. G[s] = a + b /\ G[s \ {i}] = a + c /\ b = u[i] + c
          BY <3>3, <5>1, <5>2, <5>3, <5>5
        <5>7. a \in Nat /\ b \in Nat /\ c \in Nat /\ u[i] \in Nat
          BY <4>1, <5>4, <5>5
        <5> QED  BY <5>6, <5>7
      <4>4. CASE m + 1 \notin s
        <5>1. s \in SUBSET (1..m) /\ i \in 1..m /\ G[s] = F[s] /\ G[s \ {i}] = F[s \ {i}]
          BY <3>5, <3>6, <4>1, <4>4
        <5> QED  BY <3>3, <3>4, <5>1 DEF AddsUp
      <4> QED  BY <4>2, <4>3, <4>4
    <3>10. AddsUp(u, m + 1, G)
      BY <3>7, <3>8, <3>9 DEF AddsUp
    <3> QED  BY <3>7, <3>10
  <2>2. m + 1 \in Nat
    OBVIOUS
  <2> QED  BY <2>1, <2>2, Zenon
<1>3. Nat \subseteq T
  <2> HIDE DEF T
  <2> QED  BY <1>1, <1>2, Induction
<1> QED  BY <1>3

\* The iteration of the fold computes the sum.
LEMMA SumUnique ==
    ASSUME NEW n \in Nat, NEW v \in [1..n -> Nat], NEW G, AddsUp(v, n, G)
    PROVE  G = Steps(v, 1..n, G) /\ \A H : H = Steps(v, 1..n, H) => H = G
<1>1. ASSUME NEW s \in SUBSET (1..n), s # {} PROVE Pick(s) \in s /\ s \ {Pick(s)} \in SUBSET (1..n)
  BY <1>1 DEF Pick
<1>2. G \in [SUBSET (1..n) -> Nat] /\ G[{}] = 0
  BY DEF AddsUp
<1>3. G = Steps(v, 1..n, G)
  <2>1. \A s \in SUBSET (1..n) : G[s] = IF s = {} THEN 0 ELSE v[Pick(s)] + G[s \ {Pick(s)}]
    BY <1>1, <1>2 DEF AddsUp
  <2> QED  BY <1>2, <2>1 DEF Steps
<1>4. ASSUME NEW H, H = Steps(v, 1..n, H) PROVE H = G
  <2>1. \A s \in SUBSET (1..n) : H[s] = IF s = {} THEN 0 ELSE v[Pick(s)] + H[s \ {Pick(s)}]
    BY <1>4 DEF Steps
  <2>2. ASSUME NEW s \in SUBSET (1..n) PROVE IsFiniteSet(s) /\ Cardinality(s) \in Nat
    <3>1. IsFiniteSet(1..n)
      BY FS_Interval
    <3> QED  BY <3>1, FS_Subset, FS_CardinalityType
  <2> DEFINE Bad == {m \in Nat : \E s \in SUBSET (1..n) : Cardinality(s) = m /\ H[s] # G[s]}
  <2>3. Bad = {}
    <3>1. SUFFICES ASSUME Bad # {} PROVE FALSE
      OBVIOUS
    <3>2. PICK m \in Bad : \A k \in Bad : m <= k
      <4> HIDE DEF Bad
      <4>1. Bad \in SUBSET Nat
        BY DEF Bad
      <4> QED  BY <3>1, <4>1, Least
    <3>3. PICK s \in SUBSET (1..n) : Cardinality(s) = m /\ H[s] # G[s]
      BY <3>2
    <3>4. s # {}
      BY <1>2, <2>1, <3>3
    <3>5. PICK r : r = s \ {Pick(s)}
      OBVIOUS
    <3>6. r \in SUBSET (1..n) /\ Cardinality(r) = Cardinality(s) - 1
      BY <1>1, <2>2, <3>4, <3>5, FS_RemoveElement
    <3>7. H[r] # G[r]
      <4>1. H[s] = v[Pick(s)] + H[r] /\ G[s] = v[Pick(s)] + G[r]
        BY <1>1, <2>1, <3>4, <3>5 DEF AddsUp
      <4> QED  BY <3>3, <4>1
    <3>8. Cardinality(r) \in Bad /\ Cardinality(r) \in Nat
      BY <2>2, <3>6, <3>7
    <3> QED  BY <2>2, <3>2, <3>3, <3>6, <3>8
  <2>4. \A s \in SUBSET (1..n) : H[s] = G[s]
    BY <2>2, <2>3
  <2>5. H = [s \in SUBSET (1..n) |-> H[s]]
    BY <1>4 DEF Steps
  <2> QED  BY <1>2, <2>4, <2>5
<1> QED  BY <1>3, <1>4
-----------------------------------------------------------------------------
\* The sum of a sequence of numbers.
SumOf(q) == FoldSeq(+, 0, q)

\* It is what any way to add up gives.
LEMMA SumValue ==
    ASSUME NEW q \in Seq(Nat), NEW G, AddsUp(q, Len(q), G)
    PROVE  SumOf(q) = G[1..Len(q)] /\ SumOf(q) \in Nat
<1>1. Len(q) \in Nat /\ q \in [1..Len(q) -> Nat] /\ DOMAIN q = 1..Len(q)
  BY LenProperties
<1>2. G = Steps(q, DOMAIN q, G) /\ \A H : H = Steps(q, DOMAIN q, H) => H = G
  BY <1>1, SumUnique
<1>3. FoldSeq(+, 0, q) = G[DOMAIN q]
  BY <1>2 DEF FoldSeq, FoldFunction, FoldFunctionOnSet, MapThenFoldSet, Steps, Pick
<1>4. G[1..Len(q)] \in Nat
  BY DEF AddsUp
<1> QED  BY <1>1, <1>3, <1>4 DEF SumOf

\* And there is one.
LEMMA SumAdds ==
    ASSUME NEW q \in Seq(Nat)
    PROVE  \E G : AddsUp(q, Len(q), G) /\ SumOf(q) = G[1..Len(q)] /\ SumOf(q) \in Nat
<1>1. Len(q) \in Nat /\ q \in [1..Len(q) -> Nat]
  BY LenProperties
<1>2. PICK G : AddsUp(q, Len(q), G)
  BY <1>1, SumExists
<1> QED  BY <1>2, SumValue

\* The sum of no number.
LEMMA SumEmpty == SumOf(<<>>) = 0
<1>1. <<>> \in Seq(Nat) /\ Len(<<>>) = 0
  BY EmptySeq
<1>2. PICK G : AddsUp(<<>>, 0, G) /\ SumOf(<<>>) = G[1..0]
  BY <1>1, SumAdds
<1>3. 1..0 = {}
  OBVIOUS
<1> QED  BY <1>2, <1>3 DEF AddsUp

\* A number that is appended is added.
LEMMA SumAppend ==
    ASSUME NEW q \in Seq(Nat), NEW x \in Nat
    PROVE  SumOf(Append(q, x)) = SumOf(q) + x
<1>1. PICK n, p : n = Len(q) /\ p = Append(q, x)
  OBVIOUS
<1>2. n \in Nat /\ p \in Seq(Nat) /\ Len(p) = n + 1 /\ p[n + 1] = x /\ \A i \in 1..n : p[i] = q[i]
  BY <1>1, AppendProperties, LenProperties
<1>3. PICK G : AddsUp(p, n + 1, G) /\ SumOf(p) = G[1..(n + 1)] /\ SumOf(p) \in Nat
  BY <1>2, SumAdds
<1>4. 1..n \in SUBSET (1..(n + 1)) /\ (1..(n + 1)) \ {n + 1} = 1..n /\ n + 1 \in 1..(n + 1)
  BY <1>2
<1>5. SUBSET (1..n) \subseteq SUBSET (1..(n + 1))
  BY <1>4
<1>6. PICK R : R = [s \in SUBSET (1..n) |-> G[s]]
  OBVIOUS
<1>7. AddsUp(q, n, R)
  <2>1. R \in [SUBSET (1..n) -> Nat] /\ R[{}] = 0
    BY <1>3, <1>5, <1>6 DEF AddsUp
  <2>2. ASSUME NEW s \in SUBSET (1..n), NEW i \in s PROVE R[s] = q[i] + R[s \ {i}]
    <3>1. s \in SUBSET (1..(n + 1)) /\ s \ {i} \in SUBSET (1..n) /\ i \in 1..n
      BY <1>5
    <3>2. G[s] = p[i] + G[s \ {i}]
      BY <1>3, <3>1 DEF AddsUp
    <3> QED  BY <1>2, <1>6, <3>1, <3>2
  <2> QED  BY <2>1, <2>2 DEF AddsUp
<1>8. SumOf(q) = R[1..n] /\ SumOf(q) \in Nat
  BY <1>1, <1>7, SumValue
<1>9. G[1..(n + 1)] = p[n + 1] + G[(1..(n + 1)) \ {n + 1}]
  <2>1. \A s \in SUBSET (1..(n + 1)) : \A i \in s : G[s] = p[i] + G[s \ {i}]
    BY <1>3 DEF AddsUp
  <2>2. 1..(n + 1) \in SUBSET (1..(n + 1))
    OBVIOUS
  <2> QED  BY <1>4, <2>1, <2>2, Zenon
<1>10. R[1..n] = G[1..n]
  BY <1>6
<1>11. SumOf(p) = x + SumOf(q)
  BY <1>2, <1>3, <1>4, <1>8, <1>9, <1>10
<1> QED  BY <1>1, <1>8, <1>11

\* The head's share of the sum.
LEMMA SumTail ==
    ASSUME NEW q \in Seq(Nat), q # <<>>
    PROVE  SumOf(q) = Head(q) + SumOf(Tail(q)) /\ Head(q) \in Nat /\ Tail(q) \in Seq(Nat)
<1>1. PICK n, t : n = Len(q) - 1 /\ t = Tail(q)
  OBVIOUS
<1>2. n \in Nat /\ Len(q) = n + 1 /\ t \in Seq(Nat) /\ Len(t) = n /\ q[1] = Head(q) /\ Head(q) \in Nat
  BY <1>1, HeadTailProperties, LenProperties, EmptySeq
<1>3. \A i \in 1..n : t[i] = q[i + 1]
  BY <1>1, <1>2, HeadTailProperties
<1>4. PICK G : AddsUp(q, n + 1, G) /\ SumOf(q) = G[1..(n + 1)] /\ SumOf(q) \in Nat
  BY <1>2, SumAdds
<1> DEFINE Shift(s) == {i + 1 : i \in s}
<1>5. ASSUME NEW s \in SUBSET (1..n)
      PROVE  Shift(s) \in SUBSET (1..(n + 1)) /\ \A i \in s : i + 1 \in Shift(s) /\ Shift(s \ {i}) = Shift(s) \ {i + 1}
  <2>1. \A i \in s : i \in Nat /\ i + 1 \in 1..(n + 1)
    BY <1>2
  <2>2. ASSUME NEW i \in s PROVE Shift(s \ {i}) = Shift(s) \ {i + 1}
    <3>1. \A j \in s : j + 1 = i + 1 => j = i
      BY <2>1
    <3> QED  BY <3>1
  <2> QED  BY <2>1, <2>2
<1>6. Shift({}) = {} /\ Shift(1..n) = (1..(n + 1)) \ {1}
  <2>1. \A k \in (1..(n + 1)) \ {1} : k - 1 \in 1..n /\ (k - 1) + 1 = k
    BY <1>2
  <2>2. \A i \in 1..n : i + 1 \in (1..(n + 1)) \ {1}
    BY <1>2
  <2> QED  BY <2>1, <2>2
<1>7. PICK R : R = [s \in SUBSET (1..n) |-> G[Shift(s)]]
  OBVIOUS
<1> HIDE DEF Shift
<1>8. AddsUp(t, n, R)
  <2>1. /\ G \in [SUBSET (1..(n + 1)) -> Nat] /\ G[{}] = 0
        /\ \A u \in SUBSET (1..(n + 1)) : \A j \in u : G[u] = q[j] + G[u \ {j}]
    BY <1>4 DEF AddsUp
  <2>2. R \in [SUBSET (1..n) -> Nat] /\ R[{}] = 0
    BY <1>5, <1>6, <1>7, <2>1
  <2>3. ASSUME NEW s \in SUBSET (1..n), NEW i \in s PROVE R[s] = t[i] + R[s \ {i}]
    <3>1. i \in 1..n /\ s \ {i} \in SUBSET (1..n)
      OBVIOUS
    <3>2. G[Shift(s)] = q[i + 1] + G[Shift(s) \ {i + 1}]
      <4>1. Shift(s) \in SUBSET (1..(n + 1)) /\ i + 1 \in Shift(s)
        BY <1>5
      <4> QED  BY <2>1, <4>1, Zenon
    <3>3. R[s] = G[Shift(s)] /\ R[s \ {i}] = G[Shift(s) \ {i + 1}]
      BY <1>5, <1>7, <3>1
    <3> QED  BY <1>3, <3>1, <3>2, <3>3
  <2> QED  BY <2>2, <2>3 DEF AddsUp
<1>9. SumOf(t) = R[1..n]
  BY <1>2, <1>8, SumValue
<1>10. 1 \in 1..(n + 1)
  BY <1>2
<1>11. G[1..(n + 1)] = q[1] + G[(1..(n + 1)) \ {1}]
  <2>1. \A u \in SUBSET (1..(n + 1)) : \A j \in u : G[u] = q[j] + G[u \ {j}]
    BY <1>4 DEF AddsUp
  <2>2. 1..(n + 1) \in SUBSET (1..(n + 1))
    OBVIOUS
  <2> QED  BY <1>10, <2>1, <2>2, Zenon
<1>12. R[1..n] = G[(1..(n + 1)) \ {1}]
  BY <1>6, <1>7
<1> QED  BY <1>1, <1>2, <1>4, <1>9, <1>11, <1>12

\* The sum of numbers up to m, and so their mean, is bounded.
LEMMA SumBound ==
    ASSUME NEW m \in Nat, NEW q \in Seq(0..m)
    PROVE  SumOf(q) \in Nat /\ SumOf(q) <= Len(q) * m
<1> DEFINE T == {n \in Nat : \A p \in Seq(0..m) : Len(p) = n => SumOf(p) <= n * m}
<1>1. \A p \in Seq(0..m) : p \in Seq(Nat) /\ SumOf(p) \in Nat
  <2>1. ASSUME NEW p \in Seq(0..m) PROVE p \in Seq(Nat)
    BY 0..m \subseteq Nat
  <2> QED  BY <2>1, SumAdds
<1>2. 0 \in T
  <2>1. \A p \in Seq(0..m) : Len(p) = 0 => p = <<>>
    BY EmptySeq
  <2> QED  BY <2>1, SumEmpty
<1>3. ASSUME NEW n \in Nat, n \in T PROVE n + 1 \in T
  <2>1. ASSUME NEW p \in Seq(0..m), Len(p) = n + 1 PROVE SumOf(p) <= (n + 1) * m
    <3>1. p # <<>>
      BY <2>1, EmptySeq
    <3>2. SumOf(p) = Head(p) + SumOf(Tail(p))
      BY <1>1, <3>1, SumTail
    <3>3. Head(p) \in 0..m /\ Tail(p) \in Seq(0..m) /\ Len(Tail(p)) = n
      BY <2>1, <3>1, HeadTailProperties
    <3>4. SumOf(Tail(p)) <= n * m /\ SumOf(Tail(p)) \in Nat
      BY <1>1, <1>3, <3>3
    <3>5. PICK a, b : a = Head(p) /\ b = SumOf(Tail(p))
      OBVIOUS
    <3>6. a \in Nat /\ a <= m /\ b \in Nat /\ b <= n * m /\ SumOf(p) = a + b
      BY <3>2, <3>3, <3>4, <3>5
    <3>7. (n + 1) * m = n * m + m /\ n * m \in Nat
      OBVIOUS
    <3> QED  BY <3>6, <3>7
  <2>2. n + 1 \in Nat
    OBVIOUS
  <2> QED  BY <2>1, <2>2, Zenon
<1>4. Nat \subseteq T
  <2> HIDE DEF T
  <2> QED  BY <1>2, <1>3, Induction
<1>5. Len(q) \in Nat
  BY LenProperties
<1> QED  BY <1>1, <1>4, <1>5
=============================================================================
