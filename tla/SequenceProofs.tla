---------------------------- MODULE SequenceProofs ----------------------------
(***************************************************************************)
(* What the proofs of several components need of numbers and sequences:    *)
(* induction over sets of numbers, sums up to an index, and where each of  *)
(* the sequences lies that FlattenSeq puts one behind the other. That is a *)
(* recursive function: that there is one is shown by induction over its    *)
(* domain.                                                                 *)
(***************************************************************************)
EXTENDS Integers, SequencesExt, SequenceTheorems, WellFoundedInduction, TLAPS

----------------------------------------------------------------------------
(* Part 1: numbers.                                                        *)

\* Every set of natural numbers but the empty one has a least element.
LEMMA LeastNat ==
  ASSUME NEW T, T \subseteq Nat, T # {}
  PROVE  \E x \in T : \A y \in T : x <= y
<1>1. PICK x \in T : \A y \in T : ~(<<y, x>> \in OpToRel(<, Nat))
  BY NatLessThanWellFounded, WFMin, Zenon
<1>2. \A y \in T : ~(y < x)
  BY <1>1 DEF OpToRel
<1> QED
  BY <1>2

\* Induction over the numbers up to n, for sets.
LEMMA SetInductionTo ==
  ASSUME NEW n \in Nat, NEW S, 0 \in S,
         \A m \in 0 .. n - 1 : m \in S => m + 1 \in S
  PROVE  0 .. n \subseteq S
<1> SUFFICES ASSUME (0 .. n) \ S # {} PROVE FALSE
  OBVIOUS
<1> DEFINE R == (0 .. n) \ S
<1>0. R \subseteq Nat /\ R # {}
  OBVIOUS
<1> HIDE DEF R
<1>1. PICK x \in R : \A y \in R : x <= y
  BY <1>0, LeastNat
<1> USE DEF R
<1>2. x # 0 /\ x - 1 \in 0 .. n - 1 /\ x - 1 \in S
  BY <1>1
<1> QED
  BY <1>1, <1>2

\* The largest of some numbers up to n.
LEMMA MaxIsLargest ==
  ASSUME NEW n \in Nat, NEW t, t \subseteq 1 .. n, t # {}
  PROVE  Max(t) \in t /\ \A y \in t : y <= Max(t)
<1> DEFINE Bounds == {m \in Nat : \A y \in t : y <= m}
<1>1. n \in Bounds
  OBVIOUS
<1>2. PICK m \in Bounds : \A k \in Bounds : m <= k
  BY <1>1, LeastNat
<1>3. m \in t
  <2> SUFFICES ASSUME m \notin t PROVE FALSE
    OBVIOUS
  <2>0. m \in Nat /\ \A y \in t : y \in Nat /\ y >= 1 /\ y <= m /\ y # m
    BY <1>2
  <2>1. \A y \in t : y <= m - 1
    BY <2>0
  <2>2. m - 1 \in Bounds
    <3>0. PICK y \in t : TRUE
      OBVIOUS
    <3>1. m - 1 \in Nat
      BY <2>0, <3>0
    <3> QED
      BY <3>1, <2>1
  <2> QED
    BY <2>2, <1>2
<1>4. \A y \in t : m >= y
  BY <1>2
<1> QED
  BY <1>3, <1>4 DEF Max

\* Induction over the natural numbers, for sets.
LEMMA SetInduction ==
  ASSUME NEW S, 0 \in S, \A n \in Nat : n \in S => n + 1 \in S
  PROVE  Nat \subseteq S
<1> SUFFICES ASSUME Nat \ S # {} PROVE FALSE
  OBVIOUS
<1>1. PICK x \in Nat \ S : \A y \in Nat \ S : x <= y
  BY LeastNat
<1>2. x - 1 \in Nat /\ x - 1 \in S
  BY <1>1
<1> QED
  BY <1>2

----------------------------------------------------------------------------
(* Part 2: sums.                                                            *)

\* p has the sums of x up to each index, from 0.
Sums(p, x, n) ==
    /\ p \in [0 .. n -> Nat] /\ p[0] = 0
    /\ \A k \in 1 .. n : p[k] = p[k - 1] + x[k]

\* There is one way to add up.
LEMMA SumsUnique ==
  ASSUME NEW n \in Nat, NEW x \in [1 .. n -> Nat], NEW p, Sums(p, x, n), NEW q, Sums(q, x, n)
  PROVE  p = q
<1> DEFINE S == {k \in 0 .. n : p[k] = q[k]}
<1>1. 0 \in S
  BY DEF Sums
<1>2. ASSUME NEW m \in 0 .. n - 1, m \in S PROVE m + 1 \in S
  <2>1. m + 1 \in 1 .. n /\ (m + 1) - 1 = m
    OBVIOUS
  <2> QED
    BY <2>1, <1>2 DEF Sums
<1> HIDE DEF S
<1>3. 0 .. n \subseteq S
  BY <1>1, <1>2, SetInductionTo
<1> QED
  BY <1>3 DEF Sums, S

\* The sums are ordered as the indices are.
LEMMA SumsAscend ==
  ASSUME NEW n \in Nat, NEW x \in [1 .. n -> Nat], NEW p, Sums(p, x, n),
         NEW i \in 0 .. n, NEW j \in i .. n
  PROVE  p[i] <= p[j] /\ p[i] \in Nat /\ p[j] \in Nat
<1>0. \A k \in 0 .. n : p[k] \in Nat
  BY DEF Sums
<1> DEFINE S == {k \in 0 .. n - i : p[i] <= p[i + k]}
           m == n - i
<1>1. m \in Nat /\ \A k \in 0 .. m : i + k \in 0 .. n
  OBVIOUS
<1>2. 0 \in S
  BY <1>0
<1>3. ASSUME NEW k \in 0 .. m - 1, k \in S PROVE k + 1 \in S
  <2>1. i + (k + 1) \in 1 .. n /\ (i + (k + 1)) - 1 = i + k /\ k + 1 \in 0 .. m
    BY <1>1
  <2>2. p[i + (k + 1)] = p[i + k] + x[i + (k + 1)]
    BY <2>1 DEF Sums
  <2>3. x[i + (k + 1)] \in Nat
    BY <2>1
  <2>4. p[i + k] \in Nat /\ p[i] <= p[i + k] /\ p[i] \in Nat
    BY <1>0, <1>1, <1>3
  <2>5. p[i] <= p[i + (k + 1)]
    BY <2>2, <2>3, <2>4
  <2> QED
    BY <2>1, <2>5
<1> HIDE DEF S, m
<1>4. 0 .. m \subseteq S
  BY <1>1, <1>2, <1>3, SetInductionTo
<1>5. j - i \in 0 .. m /\ i + (j - i) = j
  BY DEF m
<1>6. p[i] <= p[i + (j - i)]
  BY <1>4, <1>5 DEF S
<1> QED
  BY <1>0, <1>5, <1>6

InParts(i, p, x, n) == \E k \in 1 .. n : \E j \in 1 .. x[k] : i = p[k - 1] + j

\* A number up to the sum of all is in the part of one.
LEMMA SumsCover ==
  ASSUME NEW n \in Nat, NEW x \in [1 .. n -> Nat], NEW p, Sums(p, x, n), NEW i \in 1 .. p[n]
  PROVE  InParts(i, p, x, n)
<1>0. (\A k \in 0 .. n : p[k] \in Nat) /\ p[0] = 0
  BY DEF Sums
<1> DEFINE R == {k \in 0 .. n : i <= p[k]}
<1>1. n \in R /\ R \subseteq Nat
  BY <1>0
<1>2. PICK k \in R : \A m \in R : k <= m
  BY <1>1, LeastNat
<1>3. k \in 1 .. n
  BY <1>0, <1>2
<1>4. k - 1 \in 0 .. n /\ k - 1 \notin R
  BY <1>2, <1>3
<1>5. p[k - 1] < i /\ i <= p[k] /\ p[k] = p[k - 1] + x[k]
  BY <1>0, <1>2, <1>3, <1>4 DEF Sums
<1> DEFINE j == i - p[k - 1]
<1>6. j \in 1 .. x[k] /\ i = p[k - 1] + j
  BY <1>0, <1>3, <1>4, <1>5
<1> QED
  BY <1>3, <1>6 DEF InParts

----------------------------------------------------------------------------
(* Part 3: sequences one behind the other.                                 *)

\* f has the concatenations of the sequences ws up to each of them.
Flat(f, ws, n) ==
    f = [i \in 1 .. n |-> IF i = 1 THEN ws[i] ELSE f[i - 1] \o ws[i]]

LEMMA FlatExists ==
  ASSUME NEW n \in Nat, NEW ws
  PROVE  \E f : Flat(f, ws, n)
<1> DEFINE S == {m \in Nat : \E f : Flat(f, ws, m)}
<1>1. 0 \in S
  <2> DEFINE f == [i \in 1 .. 0 |-> <<>>]
  <2>1. f = [i \in 1 .. 0 |-> IF i = 1 THEN ws[i] ELSE f[i - 1] \o ws[i]]
    OBVIOUS
  <2> HIDE DEF f
  <2> QED
    BY <2>1 DEF Flat
<1>2. ASSUME NEW m \in Nat, m \in S
      PROVE  m + 1 \in S
  <2>1. PICK f : Flat(f, ws, m)
    BY <1>2
  <2> DEFINE last == IF m = 0 THEN ws[1] ELSE f[m] \o ws[m + 1]
             g == [i \in 1 .. m + 1 |-> IF i = m + 1 THEN last ELSE f[i]]
             rhs(i) == IF i = 1 THEN ws[i] ELSE g[i - 1] \o ws[i]
  <2>2. ASSUME NEW i \in 1 .. m + 1 PROVE g[i] = rhs(i)
    <3>1. CASE i = m + 1
      BY <3>1
    <3>2. CASE i # m + 1
      <4>1. i \in 1 .. m /\ (i # 1 => i - 1 \in 1 .. m /\ i - 1 # m + 1)
        BY <3>2
      <4>2. f[i] = IF i = 1 THEN ws[i] ELSE f[i - 1] \o ws[i]
        BY <4>1, <2>1 DEF Flat
      <4> QED
        BY <3>2, <4>1, <4>2
    <3> QED
      BY <3>1, <3>2
  <2>3. g = [i \in 1 .. m + 1 |-> rhs(i)]
    BY <2>2
  <2> HIDE DEF g
  <2>4. Flat(g, ws, m + 1)
    BY <2>3 DEF Flat
  <2> QED
    BY <2>4
<1> HIDE DEF S
<1>3. 0 .. n \subseteq S
  BY <1>1, <1>2, SetInductionTo
<1>4. n \in S
  BY <1>3
<1> QED
  BY <1>4 DEF S

LEMMA FlattenIsFlat ==
  ASSUME NEW ws, Len(ws) \in Nat \ {0}
  PROVE  \E f : Flat(f, ws, Len(ws)) /\ FlattenSeq(ws) = f[Len(ws)]
<1> DEFINE f == CHOOSE f : f = [i \in 1 .. Len(ws) |->
                                  IF i = 1 THEN ws[i] ELSE f[i - 1] \o ws[i]]
<1>1. FlattenSeq(ws) = f[Len(ws)]
  BY DEF FlattenSeq
<1>2. Flat(f, ws, Len(ws))
  BY FlatExists DEF Flat
<1> HIDE DEF f
<1> QED
  BY <1>1, <1>2

Lengths(ws) == [k \in 1 .. Len(ws) |-> Len(ws[k])]

\* At p[k - 1] + 1 and up lies the k-th of the sequences.
LaidAt(s, ws, p) ==
    \A k \in 1 .. Len(ws) : \A j \in 1 .. Len(ws[k]) : s[p[k - 1] + j] = ws[k][j]

\* Where each sequence is in the concatenation.
LEMMA FlattenLaid ==
  ASSUME NEW T, NEW ws \in Seq(Seq(T))
  PROVE  /\ FlattenSeq(ws) \in Seq(T)
         /\ \E p : /\ Sums(p, Lengths(ws), Len(ws)) /\ Len(FlattenSeq(ws)) = p[Len(ws)]
                   /\ LaidAt(FlattenSeq(ws), ws, p)
<1> DEFINE n == Len(ws)
<1>0. n \in Nat /\ \A k \in 1 .. n : ws[k] \in Seq(T) /\ Len(ws[k]) \in Nat
  OBVIOUS
<1>1. CASE n = 0
  <2>1. FlattenSeq(ws) = <<>> /\ ws = <<>>
    BY <1>1 DEF FlattenSeq
  <2> DEFINE p == [k \in 0 .. n |-> 0]
  <2>2. Sums(p, Lengths(ws), n) /\ Len(<<>>) = p[n] /\ LaidAt(<<>>, ws, p)
    BY <1>1 DEF Sums, LaidAt
  <2>3. <<>> \in Seq(T)
    OBVIOUS
  <2> HIDE DEF p
  <2> QED
    BY <2>1, <2>2, <2>3
<1>2. CASE n # 0
  <2>1. PICK f : Flat(f, ws, n) /\ FlattenSeq(ws) = f[n]
    BY <1>0, <1>2, FlattenIsFlat
  <2> DEFINE p == [k \in 0 .. n |-> IF k = 0 THEN 0 ELSE Len(f[k])]
             Holds(k) == /\ f[k] \in Seq(T) /\ p[k] = Len(f[k])
                         /\ \A i \in 1 .. k : p[i] = p[i - 1] + Len(ws[i])
                         /\ \A i \in 0 .. k : p[i] \in Nat /\ p[i] <= p[k]
                         /\ \A i \in 1 .. k : \A j \in 1 .. Len(ws[i]) :
                              f[k][p[i - 1] + j] = ws[i][j]
             S == {k \in 0 .. n : k # 0 => Holds(k)}
  <2> HIDE DEF n
  <2>2. 0 \in S
    BY <1>0
  <2>3. ASSUME NEW k \in 0 .. n - 1, k \in S PROVE k + 1 \in S
    <3>1. k + 1 \in 1 .. n /\ ws[k + 1] \in Seq(T) /\ (k + 1) - 1 = k
      BY <1>0
    <3>2. CASE k = 0
      <4>0. k + 1 = 1 /\ 1 \in 1 .. n /\ 1 \in 0 .. n /\ 0 \in 0 .. n
        BY <3>1, <3>2, <1>0
      <4>1. f[1] = ws[1] /\ p[0] = 0 /\ p[1] = Len(f[1])
        BY <4>0, <2>1 DEF Flat
      <4>2. Len(ws[1]) \in Nat
        BY <4>1, <1>0
      <4> HIDE DEF p
      <4>3. \A i \in 1 .. 1 : i = 1
        OBVIOUS
      <4>4. \A i \in 0 .. 1 : i = 0 \/ i = 1
        OBVIOUS
      <4>5. Holds(1)
        BY <4>1, <4>2, <4>3, <4>4, <3>1, <3>2
      <4> HIDE DEF Holds
      <4> QED
        BY <4>0, <4>5
    <3>3. CASE k # 0
      <4>1. Holds(k)
        BY <2>3, <3>3
      <4>0. k + 1 # 1 /\ k + 1 # 0 /\ k + 1 \in 0 .. n /\ k \in 1 .. n
        BY <3>1, <3>3, <1>0
      <4>2. f[k + 1] = f[k] \o ws[k + 1] /\ p[k + 1] = Len(f[k + 1])
        BY <3>1, <4>0, <2>1 DEF Flat
      <4> DEFINE s1 == f[k]  s2 == ws[k + 1]  s3 == f[k + 1]
      <4>3. s1 \in Seq(T) /\ s2 \in Seq(T) /\ s3 = s1 \o s2
        BY <4>1, <4>2, <3>1
      <4> HIDE DEF s1, s2, s3
      <4>4. /\ s3 \in Seq(T) /\ Len(s3) = Len(s1) + Len(s2)
            /\ \A i \in 1 .. Len(s1) : s3[i] = s1[i]
            /\ \A i \in 1 .. Len(s2) : s3[Len(s1) + i] = s2[i]
            /\ Len(s1) \in Nat /\ Len(s2) \in Nat
        BY <4>3
      <4> DEFINE a == Len(s1)  b == Len(s2)
      <4>5. p[k] = a /\ p[k + 1] = a + b /\ a \in Nat /\ b \in Nat
        BY <4>1, <4>2, <4>4 DEF s1, s3
      <4> HIDE DEF p
      <4>6. \A i \in 1 .. k + 1 : p[i] = p[i - 1] + Len(ws[i])
        <5> TAKE i \in 1 .. k + 1
        <5>1. CASE i = k + 1
          BY <5>1, <4>5, <3>1 DEF s2
        <5>2. CASE i # k + 1
          <6>1. i \in 1 .. k
            BY <5>2
          <6> QED
            BY <6>1, <4>1
        <5> QED
          BY <5>1, <5>2
      <4>7. \A i \in 0 .. k + 1 : p[i] \in Nat /\ p[i] <= p[k + 1]
        <5> TAKE i \in 0 .. k + 1
        <5>1. CASE i = k + 1
          BY <5>1, <4>5
        <5>2. CASE i # k + 1
          <6>1. i \in 0 .. k
            BY <5>2
          <6>2. p[i] \in Nat /\ p[i] <= a
            BY <6>1, <4>1, <4>5
          <6> QED
            BY <6>2, <4>5
        <5> QED
          BY <5>1, <5>2
      <4>8. ASSUME NEW i \in 1 .. k + 1, NEW j \in 1 .. Len(ws[i])
            PROVE  f[k + 1][p[i - 1] + j] = ws[i][j]
        <5>1. CASE i = k + 1
          <6>1. i - 1 = k /\ j \in 1 .. b
            BY <5>1 DEF s2
          <6>2. s3[a + j] = s2[j]
            BY <6>1, <4>4
          <6> QED
            BY <5>1, <6>1, <6>2, <4>5 DEF s2, s3
        <5>2. CASE i # k + 1
          <6>1. i \in 1 .. k /\ i - 1 \in 0 .. k /\ i \in 0 .. k /\ i \in 1 .. n
            BY <5>2, <1>0, <3>1
          <6>2. p[i - 1] \in Nat /\ p[i] <= a /\ p[i] = p[i - 1] + Len(ws[i])
                /\ f[k][p[i - 1] + j] = ws[i][j] /\ Len(ws[i]) \in Nat
            BY <6>1, <4>1, <4>5, <1>0
          <6> DEFINE q == p[i - 1] + j
          <6> DEFINE l == Len(ws[i])  r == p[i - 1]
          <6>5. r \in Nat /\ l \in Nat /\ r + l <= a /\ j \in 1 .. l
            BY <6>2
          <6>3. q \in 1 .. a
            <7> HIDE DEF l, r
            <7>1. r + j \in 1 .. a
              BY <6>5, <4>5
            <7> QED
              BY <7>1 DEF r
          <6> HIDE DEF q
          <6>4. s3[q] = s1[q]
            BY <6>3, <4>4
          <6> QED
            BY <6>4, <6>2 DEF s1, s3, q
        <5> QED
          BY <5>1, <5>2
      <4>9. f[k + 1] \in Seq(T) /\ p[k + 1] = Len(f[k + 1])
        BY <4>4, <4>2 DEF s3
      <4>10. Holds(k + 1)
        BY <4>6, <4>7, <4>8, <4>9
      <4> HIDE DEF Holds
      <4> QED
        BY <4>10, <3>1
    <3> QED
      BY <3>2, <3>3
  <2> HIDE DEF S
  <2>4. 0 .. n \subseteq S
    BY <1>0, <2>2, <2>3, SetInductionTo
  <2>5. Holds(n)
    <3>1. n \in S
      BY <1>0, <2>4
    <3> HIDE DEF Holds
    <3> QED
      BY <3>1, <1>2 DEF S
  <2>6. p \in [0 .. n -> Nat]
    <3>1. \A k \in 0 .. n : p[k] \in Nat
      BY <2>5
    <3> HIDE DEF Holds
    <3> QED
      BY <3>1
  <2>7. p[0] = 0
    BY <1>0
  <2> HIDE DEF p
  <2>8. Sums(p, Lengths(ws), n)
    <3>1. \A k \in 1 .. n : Lengths(ws)[k] = Len(ws[k])
      BY DEF Lengths, n
    <3> QED
      BY <2>5, <2>6, <2>7, <3>1 DEF Sums
  <2>9. LaidAt(f[n], ws, p) /\ Len(f[n]) = p[n] /\ f[n] \in Seq(T)
    BY <2>5 DEF LaidAt, n
  <2> HIDE DEF Holds
  <2> QED
    BY <2>1, <2>8, <2>9 DEF n
<1> QED
  BY <1>1, <1>2

\* Another sequence after the others.
LEMMA FlattenAppend ==
  ASSUME NEW T, NEW ws \in Seq(Seq(T)), NEW vs \in Seq(Seq(T)), Len(vs) = Len(ws) + 1,
         \A k \in 1 .. Len(ws) : vs[k] = ws[k]
  PROVE  FlattenSeq(vs) = FlattenSeq(ws) \o vs[Len(vs)]
<1> DEFINE n == Len(ws)
<1>0. n \in Nat /\ Len(vs) = n + 1 /\ n + 1 \in 1 .. n + 1 /\ vs[n + 1] \in Seq(T)
  OBVIOUS
<1>1. PICK g : Flat(g, vs, n + 1) /\ FlattenSeq(vs) = g[n + 1]
  <2>1. Len(vs) \in Nat \ {0}
    BY <1>0
  <2>2. \E g : Flat(g, vs, Len(vs)) /\ FlattenSeq(vs) = g[Len(vs)]
    BY <2>1, FlattenIsFlat
  <2> HIDE DEF n
  <2> QED
    BY <2>2, <1>0
<1>2. CASE n = 0
  <2>1. FlattenSeq(ws) = <<>>
    BY <1>2 DEF FlattenSeq
  <2>2. g[1] = vs[1]
    BY <1>1, <1>2 DEF Flat
  <2>3. <<>> \o vs[1] = vs[1]
    BY <1>0, <1>2
  <2> QED
    BY <1>0, <1>1, <1>2, <2>1, <2>2, <2>3
<1>3. CASE n # 0
  <2>1. PICK f : Flat(f, ws, n) /\ FlattenSeq(ws) = f[n]
    BY <1>0, <1>3, FlattenIsFlat
  <2> DEFINE S == {k \in 0 .. n : k # 0 => f[k] = g[k]}
  <2> HIDE DEF n
  <2>2. 0 \in S
    BY <1>0
  <2>3. ASSUME NEW k \in 0 .. n - 1, k \in S PROVE k + 1 \in S
    <3>1. k + 1 \in 1 .. n /\ k + 1 \in 1 .. n + 1 /\ (k + 1) - 1 = k /\ ws[k + 1] = vs[k + 1]
      BY <1>0 DEF n
    <3>2. f[k + 1] = IF k + 1 = 1 THEN ws[k + 1] ELSE f[k] \o ws[k + 1]
      BY <3>1, <2>1 DEF Flat
    <3>3. g[k + 1] = IF k + 1 = 1 THEN vs[k + 1] ELSE g[k] \o vs[k + 1]
      BY <3>1, <1>1 DEF Flat
    <3> QED
      BY <3>1, <3>2, <3>3, <2>3
  <2> HIDE DEF S
  <2>4. 0 .. n \subseteq S
    BY <1>0, <2>2, <2>3, SetInductionTo
  <2>5. f[n] = g[n]
    BY <1>0, <1>3, <2>4 DEF S
  <2>6. g[n + 1] = g[n] \o vs[n + 1]
    <3>1. (n + 1) - 1 = n /\ n + 1 # 1
      BY <1>0, <1>3
    <3> QED
      BY <1>0, <1>1, <3>1 DEF Flat
  <2> QED
    BY <1>0, <1>1, <2>1, <2>5, <2>6
<1> QED
  BY <1>2, <1>3
=============================================================================
