------------------------- MODULE AttemptOrderProofs -------------------------
EXTENDS AttemptOrder, TLAPS, FiniteSetTheorems, SequenceTheorems, WellFoundedInduction

LEMMA MinNat ==
  ASSUME NEW T \in SUBSET Nat, T # {}
  PROVE  \E x \in T : \A y \in T : x <= y
<1> DEFINE R == OpToRel(<, Nat)
<1>1. IsWellFoundedOn(R, Nat)
  BY NatLessThanWellFounded
<1>2. R = {ss \in Nat \X Nat : ss[1] < ss[2]}
  BY DEF OpToRel
<1>3. ASSUME NEW x \in Nat, NEW y \in Nat, ~ <<y, x>> \in R PROVE x <= y
  <2>1. <<y, x>> \in Nat \X Nat
    OBVIOUS
  <2>2. ~ y < x
    BY <2>1, <1>2, <1>3
  <2> QED BY <2>2
<1> HIDE DEF R
<1>4. PICK x \in T : \A y \in T : ~ (<<y, x>> \in R)
  BY <1>1, WFMin
<1>5. x \in T /\ \A y \in T : x <= y
  BY <1>3, <1>4
<1> QED BY <1>5

(* Positions in a part that follows a others.                              *)
LEMMA Shifted ==
  ASSUME NEW a \in Nat, NEW b \in Nat, NEW j \in 1..b
  PROVE  a + j \in 1..(a + b) /\ ~ a + j <= a /\ a + j - a = j
OBVIOUS

LEMMA Unshifted ==
  ASSUME NEW a \in Nat, NEW b \in Nat, NEW p \in Nat, a < p, p <= a + b
  PROVE  p - a \in 1..b /\ a + (p - a) = p
OBVIOUS

-----------------------------------------------------------------------------
(* FlattenSeq.  A layout says where each part of a flattened sequence is:  *)
(* part i follows the first off[i] elements.                               *)
IsLayout(ss, flat, off) ==
  /\ off \in [1..(Len(ss) + 1) -> Nat]
  /\ off[1] = 0 /\ off[Len(ss) + 1] = Len(flat)
  /\ \A i \in 1..Len(ss) : off[i + 1] = off[i] + Len(ss[i])
  /\ \A i \in 1..Len(ss) : \A j \in 1..Len(ss[i]) : flat[off[i] + j] = ss[i][j]

Flattener(ss, n, f) ==
  f = [i \in 1..n |-> IF i = 1 THEN ss[i] ELSE f[i - 1] \o ss[i]]

LEMMA FlattenerExists ==
  ASSUME NEW ss, NEW n \in Nat \ {0}
  PROVE  \E f : Flattener(ss, n, f)
<1> DEFINE T == {m \in Nat \ {0} : ~ \E f : Flattener(ss, m, f)}
<1> SUFFICES ASSUME T # {} PROVE FALSE
  OBVIOUS
<1>1. PICK m \in T : \A k \in T : m <= k
  <2>1. T \in SUBSET Nat
    OBVIOUS
  <2> HIDE DEF T
  <2> QED BY <2>1, MinNat
<1>2. CASE m = 1
  <2> DEFINE f == [i \in 1..1 |-> ss[i]]
  <2>1. Flattener(ss, 1, f)
    BY DEF Flattener
  <2> QED BY <1>1, <1>2, <2>1
<1>3. CASE m # 1
  <2>1. m \in Nat /\ m - 1 \in Nat \ {0} /\ m - 1 \notin T
    BY <1>1, <1>3
  <2>2. PICK f : Flattener(ss, m - 1, f)
    BY <2>1
  <2> DEFINE g == [i \in 1..m |-> IF i = m THEN f[m - 1] \o ss[m] ELSE f[i]]
  <2> HIDE DEF T
  <2>3. ASSUME NEW i \in 1..(m - 1)
        PROVE  g[i] = f[i] /\ f[i] = (IF i = 1 THEN ss[i] ELSE f[i - 1] \o ss[i])
    <3>1. i \in 1..m /\ i # m
      BY <2>1
    <3>2. g[i] = f[i]
      BY <3>1
    <3>3. f[i] = (IF i = 1 THEN ss[i] ELSE f[i - 1] \o ss[i])
      <4> HIDE DEF g
      <4> QED BY <2>2 DEF Flattener
    <3> QED BY <3>2, <3>3
  <2>4. ASSUME NEW i \in 1..m PROVE g[i] = (IF i = 1 THEN ss[i] ELSE g[i - 1] \o ss[i])
    <3>1. CASE i = m
      <4>1. m - 1 \in 1..(m - 1)
        BY <2>1
      <4>2. g[m - 1] = f[m - 1]
        BY <2>3, <4>1
      <4>3. g[m] = f[m - 1] \o ss[m]
        BY <3>1
      <4> HIDE DEF g
      <4> QED BY <1>3, <3>1, <4>2, <4>3
    <3>2. CASE i # m
      <4>1. i \in 1..(m - 1) /\ (i # 1 => i - 1 \in 1..(m - 1))
        BY <2>1, <3>2
      <4>2. i # 1 => g[i - 1] = f[i - 1]
        BY <2>3, <4>1
      <4> HIDE DEF g
      <4> QED BY <2>3, <4>1, <4>2
    <3> QED BY <3>1, <3>2
  <2>5. g = [i \in 1..m |-> IF i = 1 THEN ss[i] ELSE g[i - 1] \o ss[i]]
    <3>1. g = [i \in 1..m |-> g[i]]
      OBVIOUS
    <3> HIDE DEF g
    <3> QED BY <2>4, <3>1
  <2> HIDE DEF g
  <2>6. Flattener(ss, m, g)
    BY <2>5 DEF Flattener
  <2> QED BY <1>1, <2>6 DEF T
<1> QED BY <1>2, <1>3

LEMMA FlattenIsFlattener ==
  ASSUME NEW S, NEW ss \in Seq(S), ss # << >>
  PROVE  \E f : Flattener(ss, Len(ss), f) /\ FlattenSeq(ss) = f[Len(ss)]
<1> DEFINE f == CHOOSE g : Flattener(ss, Len(ss), g)
<1>1. Len(ss) \in Nat \ {0}
  BY EmptySeq
<1>2. Flattener(ss, Len(ss), f)
  BY <1>1, FlattenerExists
<1>3. FlattenSeq(ss) = f[Len(ss)]
  BY <1>1 DEF FlattenSeq, Flattener
<1> QED BY <1>2, <1>3

LEMMA FlattenHasLayout ==
  ASSUME NEW S, NEW ss \in Seq(Seq(S))
  PROVE  FlattenSeq(ss) \in Seq(S) /\ \E off : IsLayout(ss, FlattenSeq(ss), off)
<1> DEFINE n == Len(ss)
<1>1. n \in Nat /\ DOMAIN ss = 1..n /\ \A i \in 1..n : ss[i] \in Seq(S) /\ Len(ss[i]) \in Nat
  BY LenProperties, ElementOfSeq
<1>2. CASE ss = << >>
  <2> DEFINE off == [i \in 1..1 |-> 0]
  <2>1. FlattenSeq(ss) = << >> /\ n = 0
    BY <1>2 DEF FlattenSeq
  <2>2. IsLayout(ss, << >>, off)
    BY <1>2, <2>1 DEF IsLayout
  <2> QED BY <2>1, <2>2
<1>3. CASE ss # << >>
  <2>1. n \in Nat \ {0}
    BY <1>3, <1>1, EmptySeq
  <2>2. PICK f : Flattener(ss, n, f) /\ FlattenSeq(ss) = f[n]
    BY <1>3, FlattenIsFlattener
  <2>3. \A i \in 1..n : f[i] = (IF i = 1 THEN ss[i] ELSE f[i - 1] \o ss[i])
    BY <2>2 DEF Flattener
  <2> DEFINE off == [i \in 1..(n + 1) |-> IF i = 1 THEN 0 ELSE Len(f[i - 1])]
             P(k) == /\ f[k] \in Seq(S)
                     /\ Len(f[k]) = off[k] + Len(ss[k])
                     /\ \A i \in 1..k : \A j \in 1..Len(ss[i]) :
                          off[i] + j \in 1..Len(f[k]) /\ f[k][off[i] + j] = ss[i][j]
  <2>4. P(1)
    <3>1. f[1] = ss[1] /\ off[1] = 0 /\ ss[1] \in Seq(S) /\ Len(ss[1]) \in Nat
      BY <1>1, <2>1, <2>3
    <3>2. \A i \in 1..1 : i = 1
      OBVIOUS
    <3> HIDE DEF off
    <3> QED BY <3>1, <3>2
  <2>5. ASSUME NEW k \in 1..n, k # 1, P(k - 1) PROVE P(k)
    <3>1. k - 1 \in 1..n /\ k \in 1..(n + 1)
      BY <2>1, <2>5
    <3>2. f[k] = f[k - 1] \o ss[k] /\ off[k] = Len(f[k - 1])
      BY <2>3, <2>5, <3>1
    <3>3. f[k - 1] \in Seq(S) /\ ss[k] \in Seq(S) /\ Len(f[k - 1]) \in Nat /\ Len(ss[k]) \in Nat
      BY <1>1, <2>5, LenProperties
    <3>4. /\ f[k] \in Seq(S) /\ Len(f[k]) = Len(f[k - 1]) + Len(ss[k])
          /\ \A p \in 1..(Len(f[k - 1]) + Len(ss[k])) :
               f[k][p] = IF p <= Len(f[k - 1]) THEN f[k - 1][p] ELSE ss[k][p - Len(f[k - 1])]
      <4> DEFINE a == f[k - 1]
                 b == ss[k]
      <4>1. a \in Seq(S) /\ b \in Seq(S) /\ f[k] = a \o b
        BY <3>2, <3>3
      <4> HIDE DEF a, b
      <4>2. /\ a \o b \in Seq(S) /\ Len(a \o b) = Len(a) + Len(b)
            /\ \A p \in 1..(Len(a) + Len(b)) :
                 (a \o b)[p] = IF p <= Len(a) THEN a[p] ELSE b[p - Len(a)]
        BY <4>1, ConcatProperties
      <4> QED BY <4>1, <4>2 DEF a, b
    <3>5. ASSUME NEW i \in 1..k, NEW j \in 1..Len(ss[i])
          PROVE  off[i] + j \in 1..Len(f[k]) /\ f[k][off[i] + j] = ss[i][j]
      <4>1. CASE i = k
        <5> HIDE DEF off
        <5> DEFINE p == off[k] + j
        <5>1. j \in 1..Len(ss[k]) /\ off[k] = Len(f[k - 1])
          BY <3>2, <4>1
        <5>2. p \in 1..(Len(f[k - 1]) + Len(ss[k]))
          BY <3>3, <5>1, Shifted
        <5>3. ~ p <= Len(f[k - 1])
          BY <3>3, <5>1, Shifted
        <5>4. p - Len(f[k - 1]) = j
          BY <3>3, <5>1, Shifted
        <5> HIDE DEF p
        <5>5. p \in 1..Len(f[k]) /\ f[k][p] = ss[k][j]
          BY <3>4, <5>2, <5>3, <5>4
        <5> QED BY <4>1, <5>5 DEF p
      <4>2. CASE i # k
        <5>1. i \in 1..(k - 1)
          BY <3>1, <4>2
        <5>2. off[i] + j \in 1..Len(f[k - 1]) /\ f[k - 1][off[i] + j] = ss[i][j]
          BY <2>5, <5>1
        <5> DEFINE p == off[i] + j
        <5>3. p \in 1..(Len(f[k - 1]) + Len(ss[k])) /\ p <= Len(f[k - 1]) /\ f[k - 1][p] = ss[i][j]
          <6>1. \A a, b \in Nat : \A q \in 1..a : q \in 1..(a + b) /\ q <= a
            OBVIOUS
          <6> HIDE DEF off
          <6>2. p \in 1..Len(f[k - 1]) /\ f[k - 1][p] = ss[i][j]
            BY <5>2
          <6> HIDE DEF p
          <6> QED BY <3>3, <6>1, <6>2
        <5> HIDE DEF p
        <5>4. p \in 1..Len(f[k]) /\ f[k][p] = ss[i][j]
          BY <3>4, <5>3
        <5> QED BY <5>4 DEF p
      <4> QED BY <4>1, <4>2
    <3> HIDE DEF off
    <3> QED BY <3>2, <3>4, <3>5
  <2> HIDE DEF P
  <2>6. \A k \in 1..n : P(k)
    <3> DEFINE T == {k \in 1..n : ~P(k)}
    <3> SUFFICES ASSUME T # {} PROVE FALSE
      OBVIOUS
    <3>1. T \in SUBSET Nat
      BY <2>1
    <3>2. PICK k \in T : \A l \in T : k <= l
      <4> HIDE DEF T
      <4> QED BY <3>1, MinNat
    <3>3. k \in 1..n /\ ~P(k)
      OBVIOUS
    <3>4. k # 1
      BY <2>4, <3>3
    <3>5. k - 1 \in 1..n /\ ~ k <= k - 1
      BY <2>1, <3>3, <3>4
    <3>6. P(k - 1)
      BY <3>2, <3>5
    <3> QED BY <2>5, <3>3, <3>4, <3>6
  <2>7. \A k \in 1..n : off[k + 1] = Len(f[k]) /\ Len(f[k]) \in Nat
    <3> TAKE k \in 1..n
    <3>1. k + 1 \in 1..(n + 1) /\ k + 1 # 1 /\ k + 1 - 1 = k
      BY <2>1
    <3>2. f[k] \in Seq(S)
      BY <2>6 DEF P
    <3> QED BY <3>1, <3>2, LenProperties
  <2>8. off[1] = 0 /\ 1 \in 1..(n + 1)
    BY <2>1
  <2>9. off \in [1..(n + 1) -> Nat]
    <3>1. ASSUME NEW i \in 1..(n + 1) PROVE off[i] \in Nat
      <4>1. CASE i = 1
        BY <2>8, <4>1
      <4>2. CASE i # 1
        <5>1. i - 1 \in 1..n /\ i - 1 + 1 = i
          BY <2>1, <4>2
        <5> HIDE DEF off
        <5> QED BY <2>7, <5>1
      <4> QED BY <4>1, <4>2
    <3> QED BY <3>1
  <2>10. n \in 1..n
    BY <2>1
  <2>11. off[n + 1] = Len(f[n]) /\ f[n] \in Seq(S)
    BY <2>6, <2>7, <2>10 DEF P
  <2>12. ASSUME NEW i \in 1..n PROVE off[i + 1] = off[i] + Len(ss[i])
    BY <2>6, <2>7 DEF P
  <2>13. ASSUME NEW i \in 1..n, NEW j \in 1..Len(ss[i]) PROVE f[n][off[i] + j] = ss[i][j]
    BY <2>6, <2>10 DEF P
  <2> HIDE DEF off
  <2>14. IsLayout(ss, f[n], off)
    BY <2>8, <2>9, <2>11, <2>12, <2>13 DEF IsLayout
  <2> QED BY <2>2, <2>11, <2>14
<1> QED BY <1>2, <1>3

LEMMA LayoutClimbs ==
  ASSUME NEW S, NEW ss \in Seq(Seq(S)), NEW flat, NEW off, IsLayout(ss, flat, off),
         NEW i \in 1..(Len(ss) + 1), NEW k \in 1..(Len(ss) + 1), i <= k
  PROVE  off[i] <= off[k]
<1> DEFINE T == {m \in 1..(Len(ss) + 1) : i <= m /\ off[m] < off[i]}
<1>1. Len(ss) \in Nat /\ \A m \in 1..Len(ss) : Len(ss[m]) \in Nat
  BY LenProperties, ElementOfSeq
<1>2. \A m \in 1..(Len(ss) + 1) : off[m] \in Nat
  BY DEF IsLayout
<1>3. T = {}
  <2> SUFFICES ASSUME T # {} PROVE FALSE
    OBVIOUS
  <2>1. T \in SUBSET Nat
    OBVIOUS
  <2>2. PICK m \in T : \A l \in T : m <= l
    <3> HIDE DEF T
    <3> QED BY <2>1, MinNat
  <2>3. m # i /\ m \in Nat
    BY <1>2
  <2>4. m - 1 \in 1..Len(ss) /\ m - 1 \in 1..(Len(ss) + 1) /\ i <= m - 1 /\ m - 1 + 1 = m
    BY <1>1, <2>3
  <2>5. off[m] = off[m - 1] + Len(ss[m - 1])
    BY <2>4 DEF IsLayout
  <2>6. off[m - 1] < off[i]
    <3>1. \A a, b, c, d \in Nat : a < b /\ a = c + d => c < b
      OBVIOUS
    <3>2. off[m] < off[i]
      OBVIOUS
    <3>3. off[m] \in Nat /\ off[i] \in Nat /\ off[m - 1] \in Nat /\ Len(ss[m - 1]) \in Nat
      BY <1>1, <1>2, <2>4
    <3> QED BY <2>5, <3>1, <3>2, <3>3
  <2>7. m - 1 \in T /\ ~ m <= m - 1
    BY <2>3, <2>4, <2>6
  <2> QED BY <2>2, <2>7
<1>4. ~ off[k] < off[i]
  BY <1>3
<1>5. off[i] \in Nat /\ off[k] \in Nat
  BY <1>2
<1>6. \A a, b \in Nat : ~ b < a => a <= b
  OBVIOUS
<1> QED BY <1>4, <1>5, <1>6

(* Every element of a flattened sequence is in one of the parts.           *)
LEMMA LayoutCovers ==
  ASSUME NEW S, NEW ss \in Seq(Seq(S)), NEW flat \in Seq(S), NEW off, IsLayout(ss, flat, off),
         NEW p \in 1..Len(flat)
  PROVE  \E i \in 1..Len(ss) : p - off[i] \in 1..Len(ss[i]) /\ flat[p] = ss[i][p - off[i]]
<1> DEFINE T == {m \in 1..(Len(ss) + 1) : p <= off[m]}
<1>1. Len(ss) \in Nat /\ Len(flat) \in Nat /\ \A m \in 1..Len(ss) : Len(ss[m]) \in Nat
  BY LenProperties, ElementOfSeq
<1>2. \A m \in 1..(Len(ss) + 1) : off[m] \in Nat
  BY DEF IsLayout
<1>3. Len(ss) + 1 \in T
  BY <1>1 DEF IsLayout
<1>4. PICK m \in T : \A l \in T : m <= l
  <2>1. T \in SUBSET Nat
    OBVIOUS
  <2> HIDE DEF T
  <2> QED BY <1>3, <2>1, MinNat
<1>5. m # 1 /\ m \in Nat
  BY DEF IsLayout
<1>6. m - 1 \in 1..Len(ss) /\ m - 1 \in 1..(Len(ss) + 1) /\ ~ m <= m - 1 /\ m - 1 + 1 = m
  BY <1>1, <1>5
<1>7. ~ p <= off[m - 1]
  BY <1>4, <1>6
<1>8. p <= off[m - 1] + Len(ss[m - 1])
  BY <1>6 DEF IsLayout
<1> DEFINE j == p - off[m - 1]
<1>9. j \in 1..Len(ss[m - 1]) /\ p = off[m - 1] + j
  <2>1. off[m - 1] \in Nat /\ Len(ss[m - 1]) \in Nat /\ p \in Nat
    BY <1>1, <1>2, <1>6
  <2>2. off[m - 1] < p
    BY <1>7, <2>1
  <2> QED BY <1>8, <2>1, <2>2, Unshifted
<1>10. flat[p] = ss[m - 1][j]
  <2> HIDE DEF j
  <2> QED BY <1>6, <1>9 DEF IsLayout
<1> QED BY <1>6, <1>9, <1>10

(* ... and every element of a part is in the flattened sequence.           *)
LEMMA LayoutHolds ==
  ASSUME NEW S, NEW ss \in Seq(Seq(S)), NEW flat \in Seq(S), NEW off, IsLayout(ss, flat, off),
         NEW i \in 1..Len(ss), NEW j \in 1..Len(ss[i])
  PROVE  off[i] \in Nat /\ off[i] + j \in 1..Len(flat) /\ flat[off[i] + j] = ss[i][j]
<1>1. Len(ss) \in Nat /\ Len(ss[i]) \in Nat /\ j \in Nat /\ 1 <= j
  BY LenProperties, ElementOfSeq
<1>2. i \in 1..(Len(ss) + 1) /\ i + 1 \in 1..(Len(ss) + 1) /\ Len(ss) + 1 \in 1..(Len(ss) + 1)
      /\ i + 1 <= Len(ss) + 1
  BY <1>1
<1>3. off[i + 1] <= off[Len(ss) + 1]
  BY <1>2, LayoutClimbs
<1>4. /\ off[i + 1] = off[i] + Len(ss[i]) /\ off[Len(ss) + 1] = Len(flat)
      /\ off[i] \in Nat /\ flat[off[i] + j] = ss[i][j]
  BY <1>2 DEF IsLayout
<1>5. off[i] + j \in 1..(off[i] + Len(ss[i]))
  BY <1>1, <1>4, Shifted
<1>6. off[i] + Len(ss[i]) <= Len(flat) /\ off[i] + Len(ss[i]) \in Nat /\ Len(flat) \in Nat
  BY <1>1, <1>3, <1>4, LenProperties
<1>7. \A a, b \in Nat : a <= b => 1..a \subseteq 1..b
  OBVIOUS
<1> QED BY <1>4, <1>5, <1>6, <1>7

LEMMA FlattenElements ==
  ASSUME NEW S, NEW ss \in Seq(Seq(S)), NEW x
  PROVE  x \in ToSet(FlattenSeq(ss)) <=> \E i \in 1..Len(ss) : x \in ToSet(ss[i])
<1>1. FlattenSeq(ss) \in Seq(S)
  BY FlattenHasLayout
<1>2. PICK off : IsLayout(ss, FlattenSeq(ss), off)
  BY FlattenHasLayout
<1> DEFINE flat == FlattenSeq(ss)
<1> HIDE DEF flat
<1>3. flat \in Seq(S) /\ IsLayout(ss, flat, off) /\ DOMAIN flat = 1..Len(flat)
  BY <1>1, <1>2, LenProperties DEF flat
<1>4. \A i \in 1..Len(ss) : ss[i] \in Seq(S) /\ DOMAIN ss[i] = 1..Len(ss[i])
  BY ElementOfSeq, LenProperties
<1>5. ASSUME NEW p \in 1..Len(flat), x = flat[p]
      PROVE  \E i \in 1..Len(ss) : x \in ToSet(ss[i])
  <2>1. PICK i \in 1..Len(ss) : p - off[i] \in 1..Len(ss[i]) /\ flat[p] = ss[i][p - off[i]]
    <3>1. \A q \in 1..Len(flat) : \E i \in 1..Len(ss) :
            q - off[i] \in 1..Len(ss[i]) /\ flat[q] = ss[i][q - off[i]]
      <4>1. IsLayout(ss, flat, off) /\ flat \in Seq(S)
        BY <1>3
      <4> QED BY <4>1, LayoutCovers
    <3> QED BY <3>1
  <2> DEFINE j == p - off[i]
  <2> HIDE DEF j
  <2>2. j \in DOMAIN ss[i] /\ x = ss[i][j]
    BY <1>4, <1>5, <2>1 DEF j
  <2> QED BY <2>2 DEF ToSet
<1>6. ASSUME NEW i \in 1..Len(ss), NEW j \in 1..Len(ss[i]), x = ss[i][j]
      PROVE  x \in ToSet(flat)
  BY <1>3, <1>6, LayoutHolds DEF ToSet
<1>7. x \in ToSet(flat) <=> \E i \in 1..Len(ss) : x \in ToSet(ss[i])
  BY <1>3, <1>4, <1>5, <1>6 DEF ToSet
<1> QED BY <1>7 DEF flat

(* Part i is found in one piece in the flattened sequence ...              *)
LEMMA FlattenPart ==
  ASSUME NEW S, NEW ss \in Seq(Seq(S)), NEW i \in 1..Len(ss)
  PROVE  \E b \in Nat : \A j \in 1..Len(ss[i]) :
           b + j \in 1..Len(FlattenSeq(ss)) /\ FlattenSeq(ss)[b + j] = ss[i][j]
<1> DEFINE flat == FlattenSeq(ss)
<1>1. flat \in Seq(S) /\ \E off : IsLayout(ss, flat, off)
  BY FlattenHasLayout
<1> HIDE DEF flat
<1>2. PICK off : IsLayout(ss, flat, off)
  BY <1>1
<1>3. flat \in Seq(S) /\ IsLayout(ss, flat, off)
  BY <1>1, <1>2
<1>4. off[i] \in Nat
  <2>1. i \in 1..(Len(ss) + 1)
    BY LenProperties
  <2> QED BY <1>3, <2>1 DEF IsLayout
<1>5. \A j \in 1..Len(ss[i]) : off[i] + j \in 1..Len(flat) /\ flat[off[i] + j] = ss[i][j]
  BY <1>3, LayoutHolds
<1> QED BY <1>4, <1>5 DEF flat

(* ... and after the parts before it.                                      *)
LEMMA FlattenSource ==
  ASSUME NEW S, NEW ss \in Seq(Seq(S))
  PROVE  \E src \in [1..Len(FlattenSeq(ss)) -> 1..Len(ss)] :
           /\ \A p \in 1..Len(FlattenSeq(ss)) :
                \E j \in 1..Len(ss[src[p]]) : FlattenSeq(ss)[p] = ss[src[p]][j]
           /\ \A p, q \in 1..Len(FlattenSeq(ss)) : src[p] < src[q] => p < q
<1> DEFINE flat == FlattenSeq(ss)
<1>1. flat \in Seq(S) /\ \E off : IsLayout(ss, flat, off)
  BY FlattenHasLayout
<1> HIDE DEF flat
<1>2. PICK off : IsLayout(ss, flat, off)
  BY <1>1
<1>3. flat \in Seq(S) /\ IsLayout(ss, flat, off) /\ Len(ss) \in Nat /\ Len(flat) \in Nat
  BY <1>1, <1>2, LenProperties
<1> DEFINE From(p, i) == p - off[i] \in 1..Len(ss[i]) /\ flat[p] = ss[i][p - off[i]]
           src == [p \in 1..Len(flat) |-> CHOOSE i \in 1..Len(ss) : From(p, i)]
<1>4. \A p \in 1..Len(flat) : \E i \in 1..Len(ss) : From(p, i)
  <2>1. IsLayout(ss, flat, off) /\ flat \in Seq(S)
    BY <1>3
  <2> QED BY <2>1, LayoutCovers
<1>5. ASSUME NEW p \in 1..Len(flat) PROVE src[p] \in 1..Len(ss) /\ From(p, src[p])
  <2> HIDE DEF From
  <2> QED BY <1>4
<1>6. src \in [1..Len(flat) -> 1..Len(ss)]
  <2> HIDE DEF From
  <2> QED BY <1>4
<1> HIDE DEF src
<1>7. ASSUME NEW p \in 1..Len(flat), NEW q \in 1..Len(flat), src[p] < src[q]
      PROVE  p < q
  <2> DEFINE i == src[p]
             k == src[q]
  <2>1. /\ i \in 1..Len(ss) /\ k \in 1..Len(ss) /\ From(p, i) /\ From(q, k)
        /\ i + 1 <= k
    BY <1>5, <1>7
  <2> HIDE DEF i, k
  <2>2. i \in 1..(Len(ss) + 1) /\ i + 1 \in 1..(Len(ss) + 1) /\ k \in 1..(Len(ss) + 1)
    BY <1>3, <2>1
  <2>3. off[i + 1] <= off[k]
    BY <1>3, <2>1, <2>2, LayoutClimbs
  <2>4. off[i + 1] = off[i] + Len(ss[i])
    BY <1>3, <2>1 DEF IsLayout
  <2>5. off[i] \in Nat /\ off[k] \in Nat /\ Len(ss[i]) \in Nat /\ Len(ss[k]) \in Nat
    BY <1>3, <2>1, <2>2, ElementOfSeq, LenProperties DEF IsLayout
  <2>6. \A x, a, b \in Nat : x - a \in 1..b => x <= a + b /\ a < x
    OBVIOUS
  <2>7. p \in Nat /\ q \in Nat
    OBVIOUS
  <2>8. p <= off[i] + Len(ss[i]) /\ off[k] < q
    BY <2>1, <2>5, <2>6, <2>7
  <2>9. \A x, y, a, b, c \in Nat : x <= a + b /\ a + b <= c /\ c < y => x < y
    OBVIOUS
  <2>10. off[i] + Len(ss[i]) <= off[k]
    BY <2>3, <2>4
  <2> QED BY <2>5, <2>7, <2>8, <2>9, <2>10
<1>8. \A p \in 1..Len(flat) : \E j \in 1..Len(ss[src[p]]) : flat[p] = ss[src[p]][j]
  BY <1>5
<1> QED BY <1>6, <1>7, <1>8 DEF flat

-----------------------------------------------------------------------------
(* What repeating, rotating and shuffling keep.                            *)
LEMMA FunIsSeq ==
  ASSUME NEW S, NEW n \in Nat, NEW f \in [1..n -> S]
  PROVE  f \in Seq(S) /\ Len(f) = n /\ DOMAIN f = 1..n
<1>1. f \in Seq(S)
  BY SeqDef
<1> QED BY <1>1, LenProperties

LEMMA CopiesOf ==
  ASSUME NEW S, NEW x \in S, NEW n \in Nat
  PROVE  /\ Copies(n, x) \in Seq(S) /\ Len(Copies(n, x)) = n
         /\ \A j \in 1..n : Copies(n, x)[j] = x
<1>1. Copies(n, x) \in [1..n -> S] /\ \A j \in 1..n : Copies(n, x)[j] = x
  BY DEF Copies
<1> QED BY <1>1, FunIsSeq

LEMMA RotateKeeps ==
  ASSUME NEW S, NEW s \in Seq(S), NEW n \in 0..Len(s)
  PROVE  Rotate(s, n) \in Seq(S) /\ ToSet(Rotate(s, n)) = ToSet(s)
<1>1. Len(s) \in Nat /\ n \in Int /\ n + 1 \in Int /\ DOMAIN s = 1..Len(s)
  BY LenProperties
<1>2. \A i \in (n + 1)..Len(s) : s[i] \in S
  BY <1>1, ElementOfSeq
<1>3. \A i \in 1..n : s[i] \in S
  BY <1>1, ElementOfSeq
<1> DEFINE u == SubSeq(s, n + 1, Len(s))
           v == SubSeq(s, 1, n)
<1>4. /\ u \in Seq(S) /\ Len(u) = Len(s) - n
      /\ \A i \in 1..(Len(s) - n) : u[i] = s[n + i]
  <2>1. /\ u \in Seq(S) /\ Len(u) = IF n + 1 <= Len(s) THEN Len(s) - (n + 1) + 1 ELSE 0
        /\ \A i \in 1..(Len(s) - (n + 1) + 1) : u[i] = s[(n + 1) + i - 1]
    BY <1>1, <1>2, SubSeqProperties
  <2> HIDE DEF u
  <2>2. Len(s) - (n + 1) + 1 = Len(s) - n
    BY <1>1
  <2>3. Len(u) = Len(s) - n
    <3>1. \A a \in Nat : \A m \in 0..a : ~ m + 1 <= a => a - m = 0
      OBVIOUS
    <3>2. ~ n + 1 <= Len(s) => Len(s) - n = 0
      BY <1>1, <3>1
    <3> QED BY <2>1, <2>2, <3>2
  <2>4. ASSUME NEW i \in 1..(Len(s) - n) PROVE u[i] = s[n + i]
    <3>1. (n + 1) + i - 1 = n + i
      BY <1>1
    <3> QED BY <2>1, <2>2, <3>1
  <2> QED BY <2>1, <2>3, <2>4
<1>5. v \in Seq(S) /\ Len(v) = n /\ \A i \in 1..n : v[i] = s[i]
  <2>1. /\ v \in Seq(S) /\ Len(v) = IF 1 <= n THEN n - 1 + 1 ELSE 0
        /\ \A i \in 1..(n - 1 + 1) : v[i] = s[1 + i - 1]
    BY <1>1, <1>3, SubSeqProperties
  <2> HIDE DEF v
  <2> QED BY <1>1, <2>1
<1> HIDE DEF u, v
<1>6. /\ u \o v \in Seq(S) /\ Len(u \o v) = Len(s)
      /\ \A i \in 1..Len(s) : (u \o v)[i] = IF i <= Len(s) - n THEN s[n + i] ELSE s[i - (Len(s) - n)]
  <2>1. /\ u \o v \in Seq(S) /\ Len(u \o v) = Len(u) + Len(v)
        /\ \A i \in 1..(Len(u) + Len(v)) : (u \o v)[i] = IF i <= Len(u) THEN u[i] ELSE v[i - Len(u)]
    BY <1>4, <1>5, ConcatProperties
  <2>2. Len(u) + Len(v) = Len(s)
    BY <1>1, <1>4, <1>5
  <2>3. ASSUME NEW i \in 1..Len(s)
        PROVE  (u \o v)[i] = IF i <= Len(s) - n THEN s[n + i] ELSE s[i - (Len(s) - n)]
    <3>1. CASE i <= Len(s) - n
      <4>1. i \in 1..(Len(s) - n) /\ i <= Len(u)
        BY <1>1, <1>4, <3>1
      <4> QED BY <1>4, <2>1, <2>2, <3>1, <4>1
    <3>2. CASE ~ i <= Len(s) - n
      <4>1. i - (Len(s) - n) \in 1..n /\ ~ i <= Len(u)
        BY <1>1, <1>4, <3>2
      <4> QED BY <1>4, <1>5, <2>1, <2>2, <3>2, <4>1
    <3> QED BY <3>1, <3>2
  <2> QED BY <2>1, <2>2, <2>3
<1> DEFINE w == u \o v
<1> HIDE DEF w
<1>7. w \in Seq(S) /\ DOMAIN w = 1..Len(s)
  BY <1>6, LenProperties DEF w
<1>8. ASSUME NEW i \in 1..Len(s) PROVE \E k \in 1..Len(s) : w[i] = s[k]
  <2>1. CASE i <= Len(s) - n
    <3>1. n + i \in 1..Len(s)
      BY <1>1, <2>1
    <3> QED BY <1>6, <2>1, <3>1 DEF w
  <2>2. CASE ~ i <= Len(s) - n
    <3>1. i - (Len(s) - n) \in 1..Len(s)
      BY <1>1, <2>2
    <3> QED BY <1>6, <2>2, <3>1 DEF w
  <2> QED BY <2>1, <2>2
<1>9. ASSUME NEW k \in 1..Len(s) PROVE \E i \in 1..Len(s) : w[i] = s[k]
  <2>1. CASE n < k
    <3> DEFINE i == k - n
    <3>1. i \in 1..Len(s) /\ i <= Len(s) - n /\ n + i = k
      BY <1>1, <2>1
    <3> HIDE DEF i
    <3> QED BY <1>6, <3>1 DEF w
  <2>2. CASE ~ n < k
    <3> DEFINE i == k + (Len(s) - n)
    <3>1. i \in 1..Len(s) /\ ~ i <= Len(s) - n /\ i - (Len(s) - n) = k
      BY <1>1, <2>2
    <3> HIDE DEF i
    <3> QED BY <1>6, <3>1 DEF w
  <2> QED BY <2>1, <2>2
<1>10. ToSet(w) = ToSet(s)
  <2>1. \A x : x \in ToSet(w) <=> \E i \in 1..Len(s) : x = w[i]
    BY <1>7 DEF ToSet
  <2>2. \A x : x \in ToSet(s) <=> \E i \in 1..Len(s) : x = s[i]
    BY <1>1 DEF ToSet
  <2> QED BY <1>8, <1>9, <2>1, <2>2
<1>11. Rotate(s, n) = w
  BY DEF Rotate, u, v, w
<1> QED BY <1>7, <1>10, <1>11

LEMMA ShufflesKeep ==
  ASSUME NEW S, NEW s \in Seq(S), NEW t \in Shuffles(s)
  PROVE  t \in Seq(S) /\ ToSet(t) = ToSet(s)
<1> DEFINE n == Len(s)
<1>1. n \in Nat /\ DOMAIN s = 1..n /\ s \in [1..n -> S]
  BY LenProperties
<1>2. IsFiniteSet(1..n) /\ Cardinality(1..n) = n
  BY <1>1, FS_Interval
<1>3. PICK perm \in [1..n -> 1..n] :
        /\ \A i, j \in 1..n : i # j => perm[i] # perm[j]
        /\ t = [i \in 1..n |-> s[perm[i]]]
  <2>1. PICK perm \in SetToSeqs(1..n) : t = [i \in 1..n |-> s[perm[i]]]
    BY <1>1 DEF Shuffles
  <2>2. perm \in [1..n -> 1..n] /\ \A i, j \in 1..n : i # j => perm[i] # perm[j]
    BY <1>2 DEF SetToSeqs
  <2> QED BY <2>1, <2>2
<1>4. perm \in Injection(1..n, 1..n)
  BY <1>3 DEF Injection, IsInjective
<1>5. perm \in Surjection(1..n, 1..n)
  BY <1>2, <1>4, FS_Injection
<1>6. \A k \in 1..n : \E i \in 1..n : perm[i] = k
  BY <1>5 DEF Surjection
<1> HIDE DEF n
<1>7. t \in [1..n -> S] /\ \A i \in 1..n : t[i] = s[perm[i]]
  BY <1>1, <1>3
<1>8. t \in Seq(S) /\ DOMAIN t = 1..n
  BY <1>1, <1>7, FunIsSeq
<1> QED BY <1>1, <1>3, <1>6, <1>7, <1>8 DEF ToSet

-----------------------------------------------------------------------------
(* The lexicographic order of ranks, and Ascending.                        *)
LEMMA LexIrreflexive ==
  ASSUME NEW n \in Nat, NEW x \in [1..n -> Int]
  PROVE  ~LexBefore(x, x)
BY DEF LexBefore

LEMMA LexTransitive ==
  ASSUME NEW n \in Nat, NEW x \in [1..n -> Int], NEW y \in [1..n -> Int], NEW z \in [1..n -> Int],
         LexBefore(x, y), LexBefore(y, z)
  PROVE  LexBefore(x, z)
<1>1. PICK i \in 1..n : x[i] < y[i] /\ \A j \in 1..(i - 1) : x[j] = y[j]
  BY DEF LexBefore
<1>2. PICK k \in 1..n : y[k] < z[k] /\ \A j \in 1..(k - 1) : y[j] = z[j]
  BY DEF LexBefore
<1>3. \A j \in 1..n : x[j] \in Int /\ y[j] \in Int /\ z[j] \in Int
  OBVIOUS
<1>4. \A a, b, c \in Int : a < b /\ b < c => a < c
  OBVIOUS
<1>5. CASE i < k
  <2>1. i \in 1..(k - 1) /\ \A j \in 1..(i - 1) : j \in 1..(k - 1)
    BY <1>5
  <2>2. x[i] < z[i] /\ \A j \in 1..(i - 1) : x[j] = z[j]
    BY <1>1, <1>2, <2>1
  <2> QED BY <2>2 DEF LexBefore
<1>6. CASE i = k
  <2>1. x[i] < z[i]
    BY <1>1, <1>2, <1>3, <1>4, <1>6
  <2>2. \A j \in 1..(i - 1) : x[j] = z[j]
    BY <1>1, <1>2, <1>6
  <2> QED BY <2>1, <2>2 DEF LexBefore
<1>7. CASE k < i
  <2>1. k \in 1..(i - 1) /\ \A j \in 1..(k - 1) : j \in 1..(i - 1)
    BY <1>7
  <2>2. x[k] < z[k] /\ \A j \in 1..(k - 1) : x[j] = z[j]
    BY <1>1, <1>2, <2>1
  <2> QED BY <2>2 DEF LexBefore
<1> QED BY <1>5, <1>6, <1>7

LEMMA LexTotal ==
  ASSUME NEW n \in Nat, NEW x \in [1..n -> Int], NEW y \in [1..n -> Int], x # y
  PROVE  LexBefore(x, y) \/ LexBefore(y, x)
<1> DEFINE T == {i \in 1..n : x[i] # y[i]}
<1>1. T \in SUBSET Nat /\ T # {}
  OBVIOUS
<1>2. PICK i \in T : \A j \in T : i <= j
  <2> HIDE DEF T
  <2> QED BY <1>1, MinNat
<1>3. i \in 1..n /\ x[i] # y[i]
  OBVIOUS
<1>4. \A j \in 1..(i - 1) : x[j] = y[j]
  <2> SUFFICES ASSUME NEW j \in 1..(i - 1), x[j] # y[j] PROVE FALSE
    OBVIOUS
  <2>1. j \in 1..n /\ ~ i <= j
    BY <1>3
  <2> QED BY <1>2, <2>1
<1>5. x[i] < y[i] \/ y[i] < x[i]
  <2>1. \A a, b \in Int : a # b => a < b \/ b < a
    OBVIOUS
  <2> QED BY <1>3, <2>1
<1> HIDE DEF T
<1> QED BY <1>3, <1>4, <1>5 DEF LexBefore

StrictOrder(R, D) ==
  /\ \A x \in D : <<x, x>> \notin R
  /\ \A x, y, z \in D : <<x, y>> \in R /\ <<y, z>> \in R => <<x, z>> \in R
  /\ \A x, y \in D : x # y => <<x, y>> \in R \/ <<y, x>> \in R

(* A finite set ordered by R can be listed in that order: the place of an  *)
(* element is the number of those before it.                               *)
LEMMA OrderedListing ==
  ASSUME NEW D, IsFiniteSet(D), NEW R, StrictOrder(R, D)
  PROVE  \E s \in SetToSeqs(D) : \A i, j \in DOMAIN s : i < j => <<s[i], s[j]>> \in R
<1> USE DEF StrictOrder
<1> DEFINE N == Cardinality(D)
           Below(x) == {y \in D : <<y, x>> \in R}
           f == [x \in D |-> Cardinality(Below(x)) + 1]
<1>1. N \in Nat
  BY FS_CardinalityType
<1>2. ASSUME NEW x \in D
      PROVE  IsFiniteSet(Below(x)) /\ Cardinality(Below(x)) \in Nat /\ Cardinality(Below(x)) < N
  <2>1. Below(x) \in SUBSET D /\ Below(x) # D
    OBVIOUS
  <2> HIDE DEF Below
  <2>2. IsFiniteSet(Below(x)) /\ Cardinality(Below(x)) <= N /\ Cardinality(Below(x)) # N
    BY <2>1, FS_Subset
  <2>3. Cardinality(Below(x)) \in Nat
    BY <2>2, FS_CardinalityType
  <2> QED BY <1>1, <2>2, <2>3
<1>3. ASSUME NEW x \in D, NEW y \in D, <<x, y>> \in R
      PROVE  f[x] < f[y]
  <2>1. Below(x) \in SUBSET Below(y) /\ Below(x) # Below(y)
    BY <1>3
  <2>2. f[x] = Cardinality(Below(x)) + 1 /\ f[y] = Cardinality(Below(y)) + 1
    OBVIOUS
  <2> HIDE DEF Below, f
  <2>3. Cardinality(Below(x)) <= Cardinality(Below(y)) /\ Cardinality(Below(x)) # Cardinality(Below(y))
    BY <1>2, <2>1, FS_Subset
  <2> QED BY <1>2, <2>2, <2>3
<1>4. f \in [D -> 1..N]
  <2>1. \A x \in D : Cardinality(Below(x)) + 1 \in 1..N
    <3> TAKE x \in D
    <3> HIDE DEF Below, N
    <3> QED BY <1>1, <1>2
  <2> HIDE DEF Below, N
  <2> QED BY <2>1
<1>5. \A x \in D : f[x] \in 1..N
  <2> HIDE DEF f
  <2> QED BY <1>4
<1> HIDE DEF f, Below, N
<1>6. ASSUME NEW x \in D, NEW y \in D, f[x] = f[y] PROVE x = y
  <2>1. ~ f[x] < f[y] /\ ~ f[y] < f[x]
    BY <1>5, <1>6
  <2> QED BY <1>3, <2>1
<1>7. f \in Injection(D, 1..N)
  BY <1>4, <1>6 DEF Injection, IsInjective
<1>8. IsFiniteSet(1..N) /\ Cardinality(1..N) = N
  BY <1>1, FS_Interval
<1>9. f \in Surjection(D, 1..N)
  BY <1>7, <1>8, FS_Injection DEF N
<1>10. \A i \in 1..N : \E x \in D : f[x] = i
  BY <1>9 DEF Surjection
<1> DEFINE s == [i \in 1..N |-> CHOOSE x \in D : f[x] = i]
<1>11. \A i \in 1..N : s[i] \in D /\ f[s[i]] = i
  BY <1>10
<1>12. s \in [1..N -> D] /\ DOMAIN s = 1..N
  BY <1>10
<1> HIDE DEF s
<1>13. s \in SetToSeqs(D)
  BY <1>11, <1>12 DEF SetToSeqs, N
<1>14. ASSUME NEW i \in 1..N, NEW j \in 1..N, i < j PROVE <<s[i], s[j]>> \in R
  <2>1. s[i] \in D /\ s[j] \in D /\ f[s[i]] = i /\ f[s[j]] = j
    BY <1>11
  <2>2. s[i] # s[j] /\ ~ j < i
    BY <1>14, <2>1
  <2>3. <<s[j], s[i]>> \notin R
    BY <1>3, <2>1, <2>2
  <2> QED BY <2>1, <2>2, <2>3
<1> QED BY <1>12, <1>13, <1>14

LEMMA AscendingSorts ==
  ASSUME NEW D, IsFiniteSet(D), NEW n \in Nat, NEW rank \in [D -> [1..n -> Int]],
         \A x, y \in D : rank[x] = rank[y] => x = y
  PROVE  /\ Ascending(rank) \in Seq(D) /\ ToSet(Ascending(rank)) = D
         /\ \A i, j \in 1..Len(Ascending(rank)) :
              i < j => LexBefore(rank[Ascending(rank)[i]], rank[Ascending(rank)[j]])
<1> DEFINE R == {pair \in D \X D : LexBefore(rank[pair[1]], rank[pair[2]])}
           Sorted(s) == \A i, j \in DOMAIN s : i < j => LexBefore(rank[s[i]], rank[s[j]])
<1>1. \A x \in D : rank[x] \in [1..n -> Int]
  OBVIOUS
<1>2. \A x, y \in D : <<x, y>> \in R <=> LexBefore(rank[x], rank[y])
  OBVIOUS
<1> HIDE DEF R
<1>3. \A x \in D : <<x, x>> \notin R
  BY <1>1, <1>2, LexIrreflexive
<1>4. \A x, y, z \in D : <<x, y>> \in R /\ <<y, z>> \in R => <<x, z>> \in R
  BY <1>1, <1>2, LexTransitive
<1>5. \A x, y \in D : x # y => <<x, y>> \in R \/ <<y, x>> \in R
  BY <1>1, <1>2, LexTotal
<1>6. PICK s \in SetToSeqs(D) : \A i, j \in DOMAIN s : i < j => <<s[i], s[j]>> \in R
  <2>1. StrictOrder(R, D)
    BY <1>3, <1>4, <1>5 DEF StrictOrder
  <2> QED BY <2>1, OrderedListing
<1>7. s \in [1..Cardinality(D) -> D]
  BY DEF SetToSeqs
<1>8. Sorted(s)
  BY <1>2, <1>6, <1>7
<1> DEFINE t == Ascending(rank)
<1>9. t \in SetToSeqs(D) /\ Sorted(t)
  <2>1. t = CHOOSE u \in SetToSeqs(D) : Sorted(u)
    BY DEF Ascending
  <2> HIDE DEF t, Sorted
  <2> QED BY <1>8, <2>1
<1> HIDE DEF t
<1> DEFINE N == Cardinality(D)
<1>10. N \in Nat /\ IsFiniteSet(1..N) /\ Cardinality(1..N) = N
  BY FS_CardinalityType, FS_Interval
<1>11. t \in [1..N -> D] /\ \A i, j \in 1..N : i # j => t[i] # t[j]
  BY <1>9 DEF SetToSeqs
<1>12. t \in Injection(1..N, D)
  BY <1>11 DEF Injection, IsInjective
<1>13. t \in Surjection(1..N, D)
  BY <1>10, <1>12, FS_Injection
<1> HIDE DEF N
<1>14. t \in Seq(D) /\ Len(t) = N /\ DOMAIN t = 1..N
  BY <1>10, <1>11, FunIsSeq
<1>15. ToSet(t) = D
  BY <1>11, <1>13, <1>14 DEF ToSet, Surjection
<1>16. \A i, j \in 1..Len(t) : i < j => LexBefore(rank[t[i]], rank[t[j]])
  BY <1>9, <1>14
<1> QED BY <1>14, <1>15, <1>16 DEF t

-----------------------------------------------------------------------------
(* The lists of visits.  OrderSetting is what they need of a setting.      *)
OrderSetting ==
  /\ FormatsOf \in [Provider -> SUBSET Format]
  /\ ModelsOf \in [Provider -> Seq(UpstreamModel)]
  /\ FormatOrder \in Seq(Format)
  /\ Weight \in [Provider -> Nat \ {0}]
  /\ \A p \in Provider : KeyOrder[p] \in Seq(Key)

LEMMA VisitsAreFinite ==
  ASSUME OrderSetting, NEW items \in Seq(Provider)
  PROVE  IsFiniteSet(Visits(items)) /\ Visits(items) \subseteq Visit
<1> DEFINE I == 1..Len(items)
           F == 1..Len(FormatOrder)
           f == [x \in I \X F |-> [provider |-> items[x[1]], format |-> FormatOrder[x[2]]]]
<1>1. /\ Len(items) \in Nat /\ DOMAIN items = I /\ \A i \in I : items[i] \in Provider
      /\ Len(FormatOrder) \in Nat /\ DOMAIN FormatOrder = F /\ \A i \in F : FormatOrder[i] \in Format
  BY LenProperties, ElementOfSeq DEF OrderSetting
<1>2. IsFiniteSet(I) /\ IsFiniteSet(F)
  BY <1>1, FS_Interval
<1> HIDE DEF I, F
<1>3. IsFiniteSet(I \X F)
  BY <1>2, FS_Product
<1>4. \A v \in Visits(items) : v \in Visit /\ \E x \in I \X F : f[x] = v
  <2> TAKE v \in Visits(items)
  <2>1. PICK i \in I, k \in F : v = [provider |-> items[i], format |-> FormatOrder[k]]
    BY <1>1 DEF Visits
  <2>2. <<i, k>> \in I \X F /\ f[<<i, k>>] = v
    BY <2>1
  <2>3. v \in Visit
    BY <1>1, <2>1 DEF Visit
  <2> HIDE DEF f
  <2> QED BY <2>2, <2>3
<1>5. \A x \in I \X F : f[x] \in Visits(items)
  BY <1>1 DEF Visits
<1>6. f \in [I \X F -> Visits(items)]
  BY <1>5
<1> HIDE DEF f
<1>7. f \in Surjection(I \X F, Visits(items))
  BY <1>4, <1>6 DEF Surjection
<1>8. IsFiniteSet(Visits(items))
  BY <1>3, <1>7, FS_Surjection
<1> QED BY <1>4, <1>8

LEMMA PlaceOf ==
  ASSUME OrderSetting, NEW items \in Seq(Provider), NEW v \in Visits(items)
  PROVE  /\ Place(items, v)[1] \in Int /\ Place(items, v)[2] \in Int
         /\ items[Place(items, v)[1]] = v.provider
         /\ FormatOrder[Place(items, v)[2]] = v.format
<1>1. PICK i \in DOMAIN items, k \in DOMAIN FormatOrder :
        v = [provider |-> items[i], format |-> FormatOrder[k]]
  BY DEF Visits
<1>2. DOMAIN items \subseteq Int /\ DOMAIN FormatOrder \subseteq Int
  BY LenProperties DEF OrderSetting
<1> DEFINE a == CHOOSE j \in DOMAIN items : items[j] = v.provider
           b == CHOOSE j \in DOMAIN FormatOrder : FormatOrder[j] = v.format
<1>3. a \in DOMAIN items /\ items[a] = v.provider
  BY <1>1
<1>4. b \in DOMAIN FormatOrder /\ FormatOrder[b] = v.format
  BY <1>1
<1>5. Place(items, v) = <<a, b>>
  BY DEF Place
<1> HIDE DEF a, b
<1> QED BY <1>2, <1>3, <1>4, <1>5

LEMMA PlacesDiffer ==
  ASSUME OrderSetting, NEW items \in Seq(Provider), NEW v \in Visits(items), NEW w \in Visits(items),
         Place(items, v)[1] = Place(items, w)[1], Place(items, v)[2] = Place(items, w)[2]
  PROVE  v = w
<1>1. v.provider = w.provider /\ v.format = w.format
  BY PlaceOf
<1>2. v \in Visit /\ w \in Visit
  BY VisitsAreFinite
<1> QED BY <1>1, <1>2 DEF Visit

LEMMA PoolHas ==
  ASSUME OrderSetting, NEW items \in Seq(Provider), NEW flag
  PROVE  /\ PoolOf(items, flag) \in Seq(Visit)
         /\ ToSet(PoolOf(items, flag)) =
              {v \in Visits(items) : Speaks(v) /\ NativeFlag(v) = flag}
<1> DEFINE D == {v \in Visits(items) : Speaks(v) /\ NativeFlag(v) = flag}
           rank == [v \in D |-> Place(items, v)]
<1>1. IsFiniteSet(D) /\ D \subseteq Visit
  <2>1. D \in SUBSET Visits(items)
    OBVIOUS
  <2> HIDE DEF D
  <2> QED BY <2>1, VisitsAreFinite, FS_Subset
<1>2. \A v \in D : v \in Visits(items)
  OBVIOUS
<1> HIDE DEF D
<1>3. \A v \in D : Place(items, v) \in [1..2 -> Int]
  <2> TAKE v \in D
  <2>1. Place(items, v)[1] \in Int /\ Place(items, v)[2] \in Int
    BY <1>2, PlaceOf
  <2>2. Place(items, v) = <<Place(items, v)[1], Place(items, v)[2]>>
    BY DEF Place
  <2> QED BY <2>1, <2>2
<1>4. rank \in [D -> [1..2 -> Int]]
  BY <1>3
<1>5. \A v, w \in D : rank[v] = rank[w] => v = w
  <2> TAKE v, w \in D
  <2>1. rank[v] = Place(items, v) /\ rank[w] = Place(items, w)
    OBVIOUS
  <2> QED BY <1>2, <2>1, PlacesDiffer
<1>6. PoolOf(items, flag) = Ascending(rank)
  BY DEF PoolOf, D
<1> HIDE DEF rank
<1>7. Ascending(rank) \in Seq(D) /\ ToSet(Ascending(rank)) = D
  BY <1>1, <1>4, <1>5, AscendingSorts
<1>8. PoolOf(items, flag) \in Seq(Visit)
  BY <1>1, <1>6, <1>7, SeqMonotonic
<1> QED BY <1>6, <1>7, <1>8 DEF D

LEMMA WeightedKeeps ==
  ASSUME OrderSetting, NEW pool \in Seq(Visit)
  PROVE  Weighted(pool) \in Seq(Visit) /\ ToSet(Weighted(pool)) = ToSet(pool)
<1> DEFINE n(i) == IF Mode = "weighted_rr" THEN Weight[pool[i].provider] ELSE 1
           parts == [i \in DOMAIN pool |-> Copies(n(i), pool[i])]
<1>1. Len(pool) \in Nat /\ DOMAIN pool = 1..Len(pool) /\ \A i \in 1..Len(pool) : pool[i] \in Visit
  BY LenProperties, ElementOfSeq
<1>2. ASSUME NEW i \in 1..Len(pool)
      PROVE  /\ parts[i] \in Seq(Visit) /\ ToSet(parts[i]) = {pool[i]}
  <2>1. pool[i] \in Visit /\ pool[i].provider \in Provider
    BY <1>1 DEF Visit
  <2>2. n(i) \in Nat /\ n(i) >= 1
    BY <2>1 DEF OrderSetting
  <2>3. parts[i] = Copies(n(i), pool[i])
    BY <1>1
  <2> HIDE DEF n
  <2> DEFINE c == Copies(n(i), pool[i])
  <2>4. c \in Seq(Visit) /\ Len(c) = n(i) /\ \A j \in 1..n(i) : c[j] = pool[i]
    BY <2>1, <2>2, CopiesOf
  <2> HIDE DEF c
  <2>5. DOMAIN c = 1..n(i) /\ 1 \in 1..n(i)
    BY <2>2, <2>4, LenProperties
  <2>6. ToSet(c) = {pool[i]}
    BY <2>4, <2>5 DEF ToSet
  <2> QED BY <2>3, <2>4, <2>6 DEF c
<1>3. Weighted(pool) = FlattenSeq(parts)
  BY DEF Weighted
<1>4. parts \in [1..Len(pool) -> Seq(Visit)]
  <2>1. DOMAIN parts = 1..Len(pool) /\ parts = [i \in 1..Len(pool) |-> parts[i]]
    BY <1>1
  <2> HIDE DEF parts
  <2> QED BY <1>2, <2>1
<1> HIDE DEF parts
<1>5. parts \in Seq(Seq(Visit)) /\ Len(parts) = Len(pool)
  BY <1>1, <1>4, FunIsSeq
<1>6. FlattenSeq(parts) \in Seq(Visit)
  BY <1>5, FlattenHasLayout
<1>7. \A x : x \in ToSet(FlattenSeq(parts)) <=> \E i \in 1..Len(pool) : x \in ToSet(parts[i])
  BY <1>5, FlattenElements
<1>8. \A x : x \in ToSet(pool) <=> \E i \in 1..Len(pool) : x = pool[i]
  BY <1>1 DEF ToSet
<1>9. ToSet(FlattenSeq(parts)) = ToSet(pool)
  <2>1. \A i \in 1..Len(pool) : \A x : x \in ToSet(parts[i]) <=> x = pool[i]
    BY <1>2
  <2>2. \A x : x \in ToSet(FlattenSeq(parts)) <=> x \in ToSet(pool)
    BY <1>7, <1>8, <2>1
  <2> QED BY <2>2
<1> QED BY <1>3, <1>6, <1>9

-----------------------------------------------------------------------------
(* The visits of priority_failover.                                        *)
LEMMA SortKeyOf ==
  ASSUME OrderSetting, NEW items \in Seq(Provider), NEW prio \in [Provider -> Int],
         NEW v \in Visits(items)
  PROVE  /\ SortKey(items, prio, v) \in [1..4 -> Int]
         /\ SortKey(items, prio, v)[3] = Place(items, v)[1]
         /\ SortKey(items, prio, v)[4] = Place(items, v)[2]
<1> DEFINE a == -prio[v.provider]
           b == NativeFlag(v)
           c == Place(items, v)[1]
           d == Place(items, v)[2]
<1>1. c \in Int /\ d \in Int
  BY PlaceOf
<1>2. a \in Int
  <2>1. v.provider \in Provider
    BY VisitsAreFinite DEF Visit
  <2> QED BY <2>1
<1>3. b \in Int
  BY DEF NativeFlag
<1>4. \/ SortKey(items, prio, v) = <<a, b, c, d>>
      \/ SortKey(items, prio, v) = <<b, a, c, d>>
  BY DEF SortKey
<1> HIDE DEF a, b, c, d
<1>5. SortKey(items, prio, v) \in [1..4 -> Int] /\ SortKey(items, prio, v)[3] = c
      /\ SortKey(items, prio, v)[4] = d
  BY <1>1, <1>2, <1>3, <1>4
<1> QED BY <1>5 DEF c, d

SortedVisits(items, prio) ==
  Ascending([v \in {w \in Visits(items) : Speaks(w)} |-> SortKey(items, prio, v)])

LEMMA SortedVisitsAre ==
  ASSUME OrderSetting, NEW items \in Seq(Provider), NEW prio \in [Provider -> Int]
  PROVE  /\ SortedVisits(items, prio) \in Seq(Visit)
         /\ ToSet(SortedVisits(items, prio)) = {v \in Visits(items) : Speaks(v)}
         /\ \A i, j \in 1..Len(SortedVisits(items, prio)) :
              i < j => LexBefore(SortKey(items, prio, SortedVisits(items, prio)[i]),
                                 SortKey(items, prio, SortedVisits(items, prio)[j]))
<1> DEFINE D == {v \in Visits(items) : Speaks(v)}
           rank == [v \in D |-> SortKey(items, prio, v)]
           s == SortedVisits(items, prio)
<1>1. IsFiniteSet(D) /\ D \subseteq Visit
  <2>1. D \in SUBSET Visits(items)
    OBVIOUS
  <2> HIDE DEF D
  <2> QED BY <2>1, VisitsAreFinite, FS_Subset
<1>2. \A v \in D : v \in Visits(items)
  OBVIOUS
<1>3. s = Ascending(rank)
  BY DEF SortedVisits
<1> HIDE DEF D
<1>4. \A v \in D : SortKey(items, prio, v) \in [1..4 -> Int]
  BY <1>2, SortKeyOf
<1>5. rank \in [D -> [1..4 -> Int]] /\ \A v \in D : rank[v] = SortKey(items, prio, v)
  BY <1>4
<1> HIDE DEF rank
<1>6. \A v, w \in D : rank[v] = rank[w] => v = w
  <2> SUFFICES ASSUME NEW v \in D, NEW w \in D, rank[v] = rank[w] PROVE v = w
    OBVIOUS
  <2>1. SortKey(items, prio, v) = SortKey(items, prio, w) /\ v \in Visits(items) /\ w \in Visits(items)
    BY <1>2, <1>5
  <2>2. Place(items, v)[1] = Place(items, w)[1] /\ Place(items, v)[2] = Place(items, w)[2]
    BY <2>1, SortKeyOf
  <2> QED BY <2>1, <2>2, PlacesDiffer
<1>7. /\ Ascending(rank) \in Seq(D) /\ ToSet(Ascending(rank)) = D
      /\ \A i, j \in 1..Len(Ascending(rank)) :
           i < j => LexBefore(rank[Ascending(rank)[i]], rank[Ascending(rank)[j]])
  BY <1>1, <1>5, <1>6, AscendingSorts
<1> HIDE DEF s
<1>8. s \in Seq(D) /\ ToSet(s) = D /\ \A i, j \in 1..Len(s) : i < j => LexBefore(rank[s[i]], rank[s[j]])
  BY <1>3, <1>7
<1>9. s \in Seq(Visit)
  BY <1>1, <1>8, SeqMonotonic
<1>10. \A i \in 1..Len(s) : s[i] \in D
  BY <1>8, ElementOfSeq
<1>11. \A i, j \in 1..Len(s) : i < j => LexBefore(SortKey(items, prio, s[i]), SortKey(items, prio, s[j]))
  BY <1>5, <1>8, <1>10
<1> QED BY <1>8, <1>9, <1>11 DEF s, D

(* As many copies of each visit as its provider has keys, and at least one.*)
KeyCopies(v) == Max({1, Len(KeyOrder[v.provider])})

LEMMA KeyCopiesCount ==
  ASSUME OrderSetting, NEW v \in Visit
  PROVE  KeyCopies(v) \in Nat /\ KeyCopies(v) >= 1 /\ KeyCopies(v) >= Len(KeyOrder[v.provider])
<1> DEFINE n == Len(KeyOrder[v.provider])
<1>1. n \in Nat
  BY LenProperties DEF OrderSetting, Visit
<1>2. KeyCopies(v) = Max({1, n})
  BY DEF KeyCopies
<1> HIDE DEF n
<1>3. Max({1, n}) \in {1, n} /\ Max({1, n}) >= 1 /\ Max({1, n}) >= n
  <2>1. \E x \in {1, n} : \A y \in {1, n} : x >= y
    <3>1. CASE n >= 1
      BY <1>1, <3>1
    <3>2. CASE ~ n >= 1
      BY <1>1, <3>2
    <3> QED BY <3>1, <3>2
  <2>2. Max({1, n}) = CHOOSE x \in {1, n} : \A y \in {1, n} : x >= y
    BY DEF Max
  <2>3. Max({1, n}) \in {1, n} /\ \A y \in {1, n} : Max({1, n}) >= y
    BY <2>1, <2>2
  <2> QED BY <2>3
<1> QED BY <1>1, <1>2, <1>3 DEF n

FailoverParts(items, prio) ==
  [i \in DOMAIN SortedVisits(items, prio) |->
     Copies(KeyCopies(SortedVisits(items, prio)[i]), SortedVisits(items, prio)[i])]

LEMMA FailoverPartsAre ==
  ASSUME OrderSetting, NEW items \in Seq(Provider), NEW prio \in [Provider -> Int]
  PROVE  /\ FailoverVisits(items, prio) = FlattenSeq(FailoverParts(items, prio))
         /\ FailoverParts(items, prio) \in Seq(Seq(Visit))
         /\ Len(FailoverParts(items, prio)) = Len(SortedVisits(items, prio))
         /\ \A i \in 1..Len(SortedVisits(items, prio)) :
              LET v == SortedVisits(items, prio)[i]
                  part == FailoverParts(items, prio)[i]
              IN  Len(part) = KeyCopies(v) /\ \A j \in 1..Len(part) : part[j] = v
<1> DEFINE s == SortedVisits(items, prio)
           parts == FailoverParts(items, prio)
<1>1. FailoverVisits(items, prio) = FlattenSeq(parts)
  BY DEF FailoverVisits, FailoverParts, SortedVisits, KeyCopies
<1>2. s \in Seq(Visit)
  BY SortedVisitsAre
<1>3. parts = [i \in DOMAIN s |-> Copies(KeyCopies(s[i]), s[i])]
  BY DEF FailoverParts
<1> HIDE DEF s, parts
<1>4. Len(s) \in Nat /\ DOMAIN s = 1..Len(s) /\ \A i \in 1..Len(s) : s[i] \in Visit
  BY <1>2, LenProperties, ElementOfSeq
<1>5. ASSUME NEW i \in 1..Len(s)
      PROVE  /\ parts[i] \in Seq(Visit) /\ Len(parts[i]) = KeyCopies(s[i])
             /\ \A j \in 1..Len(parts[i]) : parts[i][j] = s[i]
  <2>1. s[i] \in Visit /\ KeyCopies(s[i]) \in Nat
    BY <1>4, KeyCopiesCount
  <2>2. parts[i] = Copies(KeyCopies(s[i]), s[i])
    BY <1>3, <1>4
  <2> DEFINE c == Copies(KeyCopies(s[i]), s[i])
  <2>3. /\ c \in Seq(Visit) /\ Len(c) = KeyCopies(s[i])
        /\ \A j \in 1..KeyCopies(s[i]) : c[j] = s[i]
    BY <2>1, CopiesOf
  <2> HIDE DEF c
  <2>4. parts[i] = c
    BY <2>2 DEF c
  <2> QED BY <2>3, <2>4
<1>6. parts \in [1..Len(s) -> Seq(Visit)]
  <2>1. DOMAIN parts = 1..Len(s) /\ parts = [i \in 1..Len(s) |-> parts[i]]
    BY <1>3, <1>4
  <2> QED BY <1>5, <2>1
<1>7. parts \in Seq(Seq(Visit)) /\ Len(parts) = Len(s)
  BY <1>4, <1>6, FunIsSeq
<1> QED BY <1>1, <1>5, <1>7 DEF s, parts

LEMMA FailoverBlocks ==
  ASSUME OrderSetting, NEW items \in Seq(Provider), NEW prio \in [Provider -> Int],
         NEW v \in Visits(items), Speaks(v)
  PROVE  /\ FailoverVisits(items, prio) \in Seq(Visit)
         /\ \E b \in Nat : \A j \in 1..KeyCopies(v) :
              /\ b + j \in 1..Len(FailoverVisits(items, prio))
              /\ FailoverVisits(items, prio)[b + j] = v
<1> DEFINE s == SortedVisits(items, prio)
           parts == FailoverParts(items, prio)
<1>1. s \in Seq(Visit) /\ v \in ToSet(s)
  BY SortedVisitsAre
<1>2. /\ FailoverVisits(items, prio) = FlattenSeq(parts) /\ parts \in Seq(Seq(Visit))
      /\ Len(parts) = Len(s)
      /\ \A i \in 1..Len(s) : Len(parts[i]) = KeyCopies(s[i])
                              /\ \A j \in 1..Len(parts[i]) : parts[i][j] = s[i]
  BY FailoverPartsAre
<1> HIDE DEF s, parts
<1>3. PICK i \in 1..Len(s) : s[i] = v
  BY <1>1, LenProperties DEF ToSet
<1>4. PICK b \in Nat : \A j \in 1..Len(parts[i]) :
        b + j \in 1..Len(FlattenSeq(parts)) /\ FlattenSeq(parts)[b + j] = parts[i][j]
  <2>1. parts \in Seq(Seq(Visit)) /\ i \in 1..Len(parts)
    BY <1>2
  <2> QED BY <2>1, FlattenPart
<1>5. FlattenSeq(parts) \in Seq(Visit)
  BY <1>2, FlattenHasLayout
<1> QED BY <1>2, <1>3, <1>4, <1>5

LEMMA FailoverOrdered ==
  ASSUME OrderSetting, NEW items \in Seq(Provider), NEW prio \in [Provider -> Int]
  PROVE  /\ FailoverVisits(items, prio) \in Seq(Visit)
         /\ \A i, k \in 1..Len(FailoverVisits(items, prio)) :
              LexBefore(SortKey(items, prio, FailoverVisits(items, prio)[i]),
                        SortKey(items, prio, FailoverVisits(items, prio)[k])) => i < k
<1> DEFINE s == SortedVisits(items, prio)
           parts == FailoverParts(items, prio)
           flat == FlattenSeq(parts)
           KeyOf(v) == SortKey(items, prio, v)
<1>1. /\ s \in Seq(Visit) /\ ToSet(s) \subseteq Visits(items)
      /\ \A i, j \in 1..Len(s) : i < j => LexBefore(KeyOf(s[i]), KeyOf(s[j]))
  BY SortedVisitsAre
<1>2. /\ FailoverVisits(items, prio) = flat /\ parts \in Seq(Seq(Visit))
      /\ Len(parts) = Len(s)
      /\ \A i \in 1..Len(s) : \A j \in 1..Len(parts[i]) : parts[i][j] = s[i]
  BY FailoverPartsAre
<1>3. \A v \in Visits(items) : KeyOf(v) \in [1..4 -> Int]
  BY SortKeyOf
<1> HIDE DEF s, parts
<1>4. flat \in Seq(Visit)
  BY <1>2, FlattenHasLayout
<1>5. PICK src \in [1..Len(flat) -> 1..Len(parts)] :
        /\ \A p \in 1..Len(flat) : \E j \in 1..Len(parts[src[p]]) : flat[p] = parts[src[p]][j]
        /\ \A p, q \in 1..Len(flat) : src[p] < src[q] => p < q
  BY <1>2, FlattenSource
<1> HIDE DEF flat
<1>6. \A p \in 1..Len(flat) : src[p] \in 1..Len(s) /\ flat[p] = s[src[p]]
  BY <1>2, <1>5
<1>7. \A i \in 1..Len(s) : s[i] \in Visits(items)
  BY <1>1, LenProperties DEF ToSet
<1> HIDE DEF KeyOf
<1>8. ASSUME NEW p \in 1..Len(flat), NEW q \in 1..Len(flat), LexBefore(KeyOf(flat[p]), KeyOf(flat[q]))
      PROVE  p < q
  <2> DEFINE x == KeyOf(flat[p])
             y == KeyOf(flat[q])
  <2>1. x \in [1..4 -> Int] /\ y \in [1..4 -> Int] /\ LexBefore(x, y)
    BY <1>3, <1>6, <1>7, <1>8
  <2>2. src[p] # src[q]
    <3>1. ~LexBefore(x, x)
      BY <2>1, LexIrreflexive
    <3> QED BY <1>6, <2>1, <3>1
  <2>3. ~ src[q] < src[p]
    <3> SUFFICES ASSUME src[q] < src[p] PROVE FALSE
      OBVIOUS
    <3>1. LexBefore(y, x)
      BY <1>1, <1>6
    <3> HIDE DEF x, y
    <3>2. LexBefore(x, x)
      BY <2>1, <3>1, LexTransitive
    <3> QED BY <2>1, <3>2, LexIrreflexive
  <2>4. src[p] < src[q]
    BY <1>6, <2>2, <2>3
  <2> QED BY <1>5, <2>4
<1> QED BY <1>2, <1>4, <1>8 DEF KeyOf

-----------------------------------------------------------------------------
(* The slots made of a list of visits.                                     *)
LEMMA RunLengthIs ==
  ASSUME NEW S, NEW s \in Seq(S), NEW i \in 1..Len(s)
  PROVE  /\ RunLength(s, i) \in Nat
         /\ \A n \in Nat : (\A j \in i..(i + n - 1) : j \in 1..Len(s) /\ s[j] = s[i])
                             => RunLength(s, i) >= n
<1> DEFINE T == {j \in (i + 1)..(Len(s) + 1) : j = Len(s) + 1 \/ s[j] # s[i]}
<1>1. Len(s) \in Nat /\ i \in Nat
  BY LenProperties
<1>2. T \in SUBSET Nat /\ Len(s) + 1 \in T
  BY <1>1
<1>3. RunLength(s, i) = Min(T) - i
  BY DEF RunLength
<1>4. \A j \in T : j \in (i + 1)..(Len(s) + 1) /\ (j = Len(s) + 1 \/ s[j] # s[i])
  OBVIOUS
<1> HIDE DEF T
<1>5. Min(T) \in T
  <2>1. \E x \in T : \A y \in T : x <= y
    BY <1>2, MinNat
  <2>2. Min(T) = CHOOSE x \in T : \A y \in T : x <= y
    BY DEF Min
  <2> QED BY <2>1, <2>2
<1> DEFINE e == Min(T)
<1>6. e \in (i + 1)..(Len(s) + 1) /\ (e = Len(s) + 1 \/ s[e] # s[i])
  BY <1>4, <1>5
<1> HIDE DEF e
<1>7. e - i \in Nat
  BY <1>1, <1>6
<1>8. ASSUME NEW n \in Nat, \A j \in i..(i + n - 1) : j \in 1..Len(s) /\ s[j] = s[i], ~ e - i >= n
      PROVE  FALSE
  <2>1. e \in i..(i + n - 1)
    BY <1>1, <1>6, <1>8
  <2>2. e \in 1..Len(s) /\ s[e] = s[i]
    BY <1>8, <2>1
  <2> QED BY <1>1, <1>6, <2>2
<1>9. RunLength(s, i) = e - i
  BY <1>3 DEF e
<1> QED BY <1>7, <1>8, <1>9

LEMMA RunHasStart ==
  ASSUME NEW S, NEW s \in Seq(S), NEW p \in 1..Len(s)
  PROVE  \E i \in 1..p : StartsRun(s, i) /\ \A j \in i..p : s[j] = s[p]
<1> DEFINE T == {m \in 1..p : \A x \in m..p : s[x] = s[p]}
<1>1. T \in SUBSET Nat /\ p \in T
  OBVIOUS
<1>2. PICK i \in T : \A m \in T : i <= m
  <2> HIDE DEF T
  <2> QED BY <1>1, MinNat
<1>3. i \in 1..p /\ \A x \in i..p : s[x] = s[p]
  OBVIOUS
<1>4. ASSUME i # 1, s[i - 1] = s[i] PROVE FALSE
  <2>1. i - 1 \in 1..p /\ ~ i <= i - 1
    BY <1>3, <1>4
  <2>2. ASSUME NEW x \in (i - 1)..p PROVE s[x] = s[p]
    <3>1. x = i - 1 \/ x \in i..p
      BY <1>3
    <3>2. i \in i..p
      BY <1>3
    <3> QED BY <1>3, <1>4, <3>1, <3>2
  <2>3. i - 1 \in T
    BY <2>1, <2>2
  <2> QED BY <1>2, <2>1, <2>3
<1> QED BY <1>3, <1>4 DEF StartsRun

SlotOfVisit(v, name) == [provider |-> v.provider, format |-> v.format, model |-> name]
VisitOfSlot(slot) == [provider |-> slot.provider, format |-> slot.format]

NameParts(s, i) ==
  [m \in DOMAIN ModelsOf[s[i].provider] |->
     Copies(RunLength(s, i), SlotOfVisit(s[i], ModelsOf[s[i].provider][m]))]
SlotGroup(s, i) == IF ~StartsRun(s, i) THEN << >> ELSE FlattenSeq(NameParts(s, i))
SlotGroups(s) == [i \in DOMAIN s |-> SlotGroup(s, i)]

LEMMA NamePartsAre ==
  ASSUME OrderSetting, NEW s \in Seq(Visit), NEW i \in 1..Len(s)
  PROVE  /\ ModelsOf[s[i].provider] \in Seq(UpstreamModel)
         /\ NameParts(s, i) \in Seq(Seq(Slot))
         /\ Len(NameParts(s, i)) = Len(ModelsOf[s[i].provider])
         /\ \A m \in 1..Len(ModelsOf[s[i].provider]) :
              /\ Len(NameParts(s, i)[m]) = RunLength(s, i)
              /\ \A j \in 1..RunLength(s, i) :
                   NameParts(s, i)[m][j] = SlotOfVisit(s[i], ModelsOf[s[i].provider][m])
<1> DEFINE v == s[i]
           names == ModelsOf[v.provider]
           n == RunLength(s, i)
           parts == NameParts(s, i)
<1>1. v \in Visit
  BY ElementOfSeq
<1>2. v.provider \in Provider /\ v.format \in Format
  BY <1>1 DEF Visit
<1>3. names \in Seq(UpstreamModel) /\ n \in Nat
  BY <1>2, RunLengthIs DEF OrderSetting
<1>4. parts = [m \in DOMAIN names |-> Copies(n, SlotOfVisit(v, names[m]))]
  BY DEF NameParts
<1> HIDE DEF v, names, n, parts
<1>5. /\ Len(names) \in Nat /\ DOMAIN names = 1..Len(names)
      /\ \A m \in 1..Len(names) : names[m] \in UpstreamModel
  BY <1>3, LenProperties, ElementOfSeq
<1>6. ASSUME NEW m \in 1..Len(names)
      PROVE  /\ parts[m] \in Seq(Slot) /\ Len(parts[m]) = n
             /\ \A j \in 1..n : parts[m][j] = SlotOfVisit(v, names[m])
  <2>1. SlotOfVisit(v, names[m]) \in Slot
    BY <1>2, <1>5 DEF SlotOfVisit, Slot
  <2> DEFINE c == Copies(n, SlotOfVisit(v, names[m]))
  <2>2. c \in Seq(Slot) /\ Len(c) = n /\ \A j \in 1..n : c[j] = SlotOfVisit(v, names[m])
    BY <1>3, <2>1, CopiesOf
  <2>3. parts[m] = c
    BY <1>4, <1>5
  <2> HIDE DEF c
  <2> QED BY <2>2, <2>3
<1>7. parts \in [1..Len(names) -> Seq(Slot)]
  <2>1. DOMAIN parts = 1..Len(names) /\ parts = [m \in 1..Len(names) |-> parts[m]]
    BY <1>4, <1>5
  <2> QED BY <1>6, <2>1
<1>8. parts \in Seq(Seq(Slot)) /\ Len(parts) = Len(names)
  BY <1>5, <1>7, FunIsSeq
<1> QED BY <1>3, <1>6, <1>8 DEF v, names, n, parts

LEMMA SlotGroupIs ==
  ASSUME OrderSetting, NEW s \in Seq(Visit), NEW i \in 1..Len(s)
  PROVE  /\ SlotGroup(s, i) \in Seq(Slot)
         /\ \A j \in 1..Len(SlotGroup(s, i)) : VisitOfSlot(SlotGroup(s, i)[j]) = s[i]
<1>1. s[i] \in Visit
  BY ElementOfSeq
<1>2. CASE ~StartsRun(s, i)
  BY <1>2, EmptySeq DEF SlotGroup
<1>3. CASE StartsRun(s, i)
  <2> DEFINE v == s[i]
             names == ModelsOf[v.provider]
             n == RunLength(s, i)
             parts == NameParts(s, i)
             flat == FlattenSeq(parts)
  <2>1. /\ names \in Seq(UpstreamModel)
        /\ parts \in Seq(Seq(Slot)) /\ Len(parts) = Len(names)
        /\ \A m \in 1..Len(names) :
             Len(parts[m]) = n /\ \A j \in 1..n : parts[m][j] = SlotOfVisit(v, names[m])
    BY NamePartsAre
  <2>2. SlotGroup(s, i) = flat
    BY <1>3 DEF SlotGroup
  <2> HIDE DEF names, n, parts
  <2>3. flat \in Seq(Slot)
    BY <2>1, FlattenHasLayout
  <2>4. PICK src \in [1..Len(flat) -> 1..Len(parts)] :
          \A p \in 1..Len(flat) : \E j \in 1..Len(parts[src[p]]) : flat[p] = parts[src[p]][j]
    BY <2>1, FlattenSource
  <2> HIDE DEF flat
  <2>5. ASSUME NEW p \in 1..Len(flat) PROVE VisitOfSlot(flat[p]) = v
    <3>1. PICK m \in 1..Len(names), j \in 1..n : flat[p] = parts[m][j]
      BY <2>1, <2>4
    <3>2. flat[p] = SlotOfVisit(v, names[m])
      BY <2>1, <3>1
    <3> QED BY <1>1, <3>2 DEF SlotOfVisit, VisitOfSlot, Visit
  <2> QED BY <2>2, <2>3, <2>5
<1> QED BY <1>2, <1>3

LEMMA SlotGroupsAre ==
  ASSUME OrderSetting, NEW s \in Seq(Visit)
  PROVE  /\ Slots(s) = FlattenSeq(SlotGroups(s))
         /\ SlotGroups(s) \in Seq(Seq(Slot)) /\ Len(SlotGroups(s)) = Len(s)
         /\ \A i \in 1..Len(s) : SlotGroups(s)[i] = SlotGroup(s, i)
<1>1. Slots(s) = FlattenSeq(SlotGroups(s))
  BY DEF Slots, SlotGroups, SlotGroup, NameParts, SlotOfVisit
<1>2. Len(s) \in Nat /\ DOMAIN s = 1..Len(s)
  BY LenProperties
<1>3. \A i \in 1..Len(s) : SlotGroups(s)[i] = SlotGroup(s, i)
  BY <1>2 DEF SlotGroups
<1>4. SlotGroups(s) \in [1..Len(s) -> Seq(Slot)]
  BY <1>2, SlotGroupIs DEF SlotGroups
<1>5. SlotGroups(s) \in Seq(Seq(Slot)) /\ Len(SlotGroups(s)) = Len(s)
  BY <1>2, <1>4, FunIsSeq
<1> QED BY <1>1, <1>3, <1>5

(* The slots of one visit come before those of another if the visits do.   *)
LEMMA SlotsOrdered ==
  ASSUME OrderSetting, NEW s \in Seq(Visit), NEW v, NEW w,
         \A i, k \in 1..Len(s) : s[i] = v /\ s[k] = w => i < k
  PROVE  /\ Slots(s) \in Seq(Slot)
         /\ \A p, q \in 1..Len(Slots(s)) :
              VisitOfSlot(Slots(s)[p]) = v /\ VisitOfSlot(Slots(s)[q]) = w => p < q
<1> DEFINE groups == SlotGroups(s)
           flat == FlattenSeq(groups)
<1>1. /\ Slots(s) = flat /\ groups \in Seq(Seq(Slot)) /\ Len(groups) = Len(s)
      /\ \A i \in 1..Len(s) : groups[i] = SlotGroup(s, i)
  BY SlotGroupsAre
<1> HIDE DEF groups
<1>2. flat \in Seq(Slot)
  BY <1>1, FlattenHasLayout
<1>3. PICK src \in [1..Len(flat) -> 1..Len(groups)] :
        /\ \A p \in 1..Len(flat) : \E j \in 1..Len(groups[src[p]]) : flat[p] = groups[src[p]][j]
        /\ \A p, q \in 1..Len(flat) : src[p] < src[q] => p < q
  BY <1>1, FlattenSource
<1> HIDE DEF flat
<1>4. ASSUME NEW p \in 1..Len(flat)
      PROVE  src[p] \in 1..Len(s) /\ VisitOfSlot(flat[p]) = s[src[p]]
  <2>1. src[p] \in 1..Len(s)
    BY <1>1
  <2>2. PICK j \in 1..Len(SlotGroup(s, src[p])) : flat[p] = SlotGroup(s, src[p])[j]
    BY <1>1, <1>3, <2>1
  <2> QED BY <2>1, <2>2, SlotGroupIs
<1>5. ASSUME NEW p \in 1..Len(flat), NEW q \in 1..Len(flat),
             VisitOfSlot(flat[p]) = v, VisitOfSlot(flat[q]) = w
      PROVE  p < q
  <2>1. src[p] < src[q]
    BY <1>4, <1>5
  <2> QED BY <1>3, <2>1
<1> QED BY <1>1, <1>2, <1>5

(* A block of visits gives each name of the model a block of slots.        *)
LEMMA SlotsBlock ==
  ASSUME OrderSetting, NEW s \in Seq(Visit), NEW v, NEW b0 \in Nat, NEW n \in Nat, n >= 1,
         \A j \in 1..n : b0 + j \in 1..Len(s) /\ s[b0 + j] = v,
         NEW m \in 1..Len(ModelsOf[v.provider])
  PROVE  \E b \in Nat : \A j \in 1..n :
           /\ b + j \in 1..Len(Slots(s))
           /\ Slots(s)[b + j] = SlotOfVisit(v, ModelsOf[v.provider][m])
<1> DEFINE p == b0 + 1
           slot == SlotOfVisit(v, ModelsOf[v.provider][m])
<1>1. p \in 1..Len(s) /\ s[p] = v /\ Len(s) \in Nat
  <2>1. 1 \in 1..n
    OBVIOUS
  <2> QED BY <2>1, LenProperties
<1> HIDE DEF p
<1>2. PICK i \in 1..p : StartsRun(s, i) /\ \A j \in i..p : s[j] = s[p]
  BY <1>1, RunHasStart
<1>3. i \in 1..Len(s) /\ i \in i..p /\ s[i] = v
  <2>1. i \in i..p /\ i \in 1..Len(s)
    BY <1>1
  <2> QED BY <1>1, <1>2, <2>1
<1>4. RunLength(s, i) \in Nat /\ RunLength(s, i) >= n
  <2>1. ASSUME NEW j \in i..(i + n - 1) PROVE j \in 1..Len(s) /\ s[j] = s[i]
    <3>1. CASE j <= p
      <4>1. j \in i..p /\ j \in 1..Len(s)
        BY <1>1, <3>1
      <4> QED BY <1>1, <1>2, <1>3, <4>1
    <3>2. CASE ~ j <= p
      <4>1. j - b0 \in 1..n /\ b0 + (j - b0) = j
        BY <1>1, <3>2 DEF p
      <4> DEFINE k == j - b0
      <4> HIDE DEF k
      <4>2. b0 + k \in 1..Len(s) /\ s[b0 + k] = v /\ b0 + k = j
        BY <4>1 DEF k
      <4> QED BY <1>3, <4>2
    <3> QED BY <3>1, <3>2
  <2> QED BY <1>3, <2>1, RunLengthIs
<1> DEFINE r == RunLength(s, i)
           names == ModelsOf[v.provider]
           parts == NameParts(s, i)
           group == SlotGroup(s, i)
<1>5. /\ group = FlattenSeq(parts) /\ parts \in Seq(Seq(Slot)) /\ Len(parts) = Len(names)
      /\ Len(parts[m]) = r /\ \A j \in 1..r : parts[m][j] = slot
  BY <1>2, <1>3, NamePartsAre DEF SlotGroup
<1>6. m \in 1..Len(names)
  OBVIOUS
<1> HIDE DEF parts, names, slot, r
<1>7. PICK b1 \in Nat : \A j \in 1..r : b1 + j \in 1..Len(group) /\ group[b1 + j] = slot
  <2>1. parts \in Seq(Seq(Slot)) /\ m \in 1..Len(parts)
    BY <1>5, <1>6
  <2>2. PICK b1 \in Nat : \A j \in 1..Len(parts[m]) :
          b1 + j \in 1..Len(FlattenSeq(parts)) /\ FlattenSeq(parts)[b1 + j] = parts[m][j]
    BY <2>1, FlattenPart
  <2> QED BY <1>5, <2>2
<1> DEFINE groups == SlotGroups(s)
<1>8. /\ Slots(s) = FlattenSeq(groups) /\ groups \in Seq(Seq(Slot)) /\ i \in 1..Len(groups)
      /\ groups[i] = group
  BY <1>3, SlotGroupsAre
<1> HIDE DEF group, groups
<1>9. PICK b2 \in Nat : \A j \in 1..Len(group) :
        b2 + j \in 1..Len(FlattenSeq(groups)) /\ FlattenSeq(groups)[b2 + j] = group[j]
  <2>1. groups \in Seq(Seq(Slot)) /\ i \in 1..Len(groups)
    BY <1>8
  <2>2. PICK b2 \in Nat : \A j \in 1..Len(groups[i]) :
          b2 + j \in 1..Len(FlattenSeq(groups)) /\ FlattenSeq(groups)[b2 + j] = groups[i][j]
    BY <2>1, FlattenPart
  <2> QED BY <1>8, <2>2
<1>10. ASSUME NEW j \in 1..n
       PROVE  (b2 + b1) + j \in 1..Len(Slots(s)) /\ Slots(s)[(b2 + b1) + j] = slot
  <2>1. j \in 1..r
    BY <1>4 DEF r
  <2> DEFINE k == b1 + j
  <2>2. k \in 1..Len(group) /\ group[k] = slot
    BY <1>7, <2>1
  <2> HIDE DEF k
  <2>3. b2 + k \in 1..Len(Slots(s)) /\ Slots(s)[b2 + k] = slot
    BY <1>8, <1>9, <2>2
  <2>4. b2 + k = (b2 + b1) + j
    BY DEF k
  <2> QED BY <2>3, <2>4
<1>11. b2 + b1 \in Nat
  OBVIOUS
<1> QED BY <1>10, <1>11 DEF slot
=============================================================================
