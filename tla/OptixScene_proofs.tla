------------------------- MODULE OptixScene_proofs -------------------------
(* Proofs about OptixScene, for every model, environment, batch, size of a      *)
(* launch and number of queries on one workspace.                              *)
EXTENDS OptixScene, SequencesExt, FiniteSetTheorems, WellFoundedInduction, TLAPS

-------------------------------------------------------------------------------
(* Definitions by recursion on 1 .. n, flattened sequences, rows and columns *)

(* Every non-empty set of natural numbers has a least element. *)
LEMMA LeastElement ==
  ASSUME NEW T \in SUBSET Nat, T # {}
  PROVE  \E x \in T : \A y \in T : x <= y
<1>1. PICK x \in T : \A y \in T : ~ (<<y, x>> \in OpToRel(<, Nat))
  BY NatLessThanWellFounded, WFMin
<1>2. \A y \in T : ~ (y < x)
  BY <1>1 DEF OpToRel
<1>. QED
  BY <1>2

(* A recursive definition over 1 .. len has a solution, and only one. *)
Recursion(len, S, base, op) == base \in S /\ op \in [1 .. len -> [S -> S]]

HasSolution(len, S, base, op) ==
  \E f \in [1 .. len -> S] : f[1] = base /\ \A i \in 2 .. len : f[i] = op[i][f[i - 1]]

LEMMA Iteration ==
  ASSUME NEW len \in Nat \ {0}, NEW S, NEW base, NEW op, Recursion(len, S, base, op)
  PROVE  HasSolution(len, S, base, op)
<1> USE DEF Recursion
<1> DEFINE Table(m, f) == f[1] = base /\ \A i \in 2 .. m : f[i] = op[i][f[i - 1]]
           Untabled == {m \in 1 .. len : \A f \in [1 .. m -> S] : ~ Table(m, f)}
<1>1. Untabled = {}
  <2>1. SUFFICES ASSUME Untabled # {}
                 PROVE  FALSE
    OBVIOUS
  <2>2. PICK m \in Untabled : \A k \in Untabled : m <= k
    <3>1. Untabled \in SUBSET Nat
      OBVIOUS
    <3> HIDE DEF Untabled
    <3>. QED
      BY <2>1, <3>1, LeastElement
  <2>3. m # 1
    <3>1. [i \in 1 .. 1 |-> base] \in [1 .. 1 -> S] /\ Table(1, [i \in 1 .. 1 |-> base])
      OBVIOUS
    <3>. QED
      BY ZenonT(30), <2>2, <3>1
  <2>4. m - 1 \in 1 .. len /\ m - 1 \notin Untabled
    <3>1. m \in 1 .. len /\ m - 1 \in 1 .. len /\ ~ (m <= m - 1)
      BY <2>2, <2>3
    <3> HIDE DEF Untabled
    <3>. QED
      BY <2>2, <3>1
  <2>5. PICK f \in [1 .. m - 1 -> S] : Table(m - 1, f)
    BY <2>4
  <2> DEFINE g == [i \in 1 .. m |-> IF i = m THEN op[m][f[m - 1]] ELSE f[i]]
  <2>6. m \in 1 .. len /\ f[m - 1] \in S /\ op[m][f[m - 1]] \in S
    BY <2>2, <2>3
  <2>7. g \in [1 .. m -> S]
    BY <2>2, <2>3, <2>6
  <2>8. g[1] = base
    BY <2>2, <2>3, <2>5
  <2>9. ASSUME NEW i \in 2 .. m
        PROVE  g[i] = op[i][g[i - 1]]
    <3>1. i \in 1 .. m /\ i - 1 \in 1 .. m /\ i - 1 # m
      BY <2>2, <2>9
    <3>2. g[i - 1] = f[i - 1]
      BY <3>1
    <3>3. CASE i = m
      BY <3>1, <3>2, <3>3
    <3>4. CASE i # m
      <4>1. g[i] = f[i] /\ i \in 2 .. m - 1
        BY <2>6, <2>9, <3>1, <3>4
      <4>. QED
        BY <2>5, <3>2, <4>1
    <3>. QED
      BY <3>3, <3>4
  <2>. QED
    BY <2>6, <2>7, <2>8, <2>9
<1>2. len \in 1 .. len /\ len \notin Untabled
  <2>1. len \in 1 .. len
    OBVIOUS
  <2> HIDE DEF Untabled
  <2>. QED
    BY <1>1, <2>1
<1>3. \E f \in [1 .. len -> S] : Table(len, f)
  <2> HIDE DEF Table
  <2>. QED
    BY <1>2
<1>. QED
  BY <1>3 DEF HasSolution

SameRecursion(len, f, g) ==
  /\ f = [i \in 1 .. len |-> f[i]] /\ g = [i \in 1 .. len |-> g[i]]
  /\ len > 0 => g[1] = f[1]
  /\ \A i \in 2 .. len : g[i - 1] = f[i - 1] => g[i] = f[i]

LEMMA IterationUnique ==
  ASSUME NEW len \in Nat, NEW f, NEW g, SameRecursion(len, f, g)
  PROVE  g = f
<1> USE DEF SameRecursion
<1> DEFINE Differ == {i \in 1 .. len : g[i] # f[i]}
<1>1. SUFFICES ASSUME Differ # {}
               PROVE  FALSE
  <2>1. (\A i \in 1 .. len : g[i] = f[i]) => g = f
    OBVIOUS
  <2>. QED
    BY <2>1
<1>2. PICK i \in Differ : \A j \in Differ : i <= j
  <2>1. Differ \in SUBSET Nat
    OBVIOUS
  <2> HIDE DEF Differ
  <2>. QED
    BY <1>1, <2>1, LeastElement
<1>3. i \in 2 .. len /\ i - 1 \in 1 .. len /\ ~ (i <= i - 1) /\ i \in Differ
  BY <1>2
<1>4. i - 1 \notin Differ
  <2> HIDE DEF Differ
  <2>. QED
    BY <1>2, <1>3
<1>. QED
  BY <1>3, <1>4

(* FlattenSeq is the last of the partial concatenations. *)
Concatenations(ss, len, f) ==
  f[1] = ss[1] /\ \A i \in 2 .. len : f[i] = f[i - 1] \o ss[i]

LEMMA FlattenTable ==
  ASSUME NEW S, NEW ss \in Seq(Seq(S)), Len(ss) # 0
  PROVE  \E f \in [1 .. Len(ss) -> Seq(S)] :
           Concatenations(ss, Len(ss), f) /\ FlattenSeq(ss) = f[Len(ss)]
<1> DEFINE len == Len(ss)
           T == Seq(S)
           Rec(f) == f = [i \in 1 .. len |-> IF i = 1 THEN ss[i] ELSE f[i - 1] \o ss[i]]
           flat == CHOOSE f : Rec(f)
           op == [i \in 1 .. len |-> [x \in T |-> x \o ss[i]]]
<1>1. len \in Nat \ {0} /\ \A i \in 1 .. len : ss[i] \in T
  OBVIOUS
<1>2. \A x \in T : \A y \in T : x \o y \in T
  OBVIOUS
<1>3. FlattenSeq(ss) = flat[len]
  BY DEF FlattenSeq
<1> HIDE DEF T, len
<1>4. Recursion(len, T, ss[1], op)
  BY <1>1, <1>2 DEF Recursion
<1>5. \A i \in 2 .. len : \A x \in T : op[i][x] = x \o ss[i]
  BY <1>1, SMTT(30)
<1> HIDE DEF op
<1>6. PICK f \in [1 .. len -> T] : f[1] = ss[1] /\ \A i \in 2 .. len : f[i] = op[i][f[i - 1]]
  <2>1. HasSolution(len, T, ss[1], op)
    BY <1>1, <1>4, Iteration
  <2>. QED
    BY <2>1 DEF HasSolution
<1>7. \A i \in 2 .. len : f[i - 1] \in T /\ f[i] = f[i - 1] \o ss[i]
  <2>1. \A i \in 2 .. len : f[i - 1] \in T
    BY <1>1
  <2>. QED
    BY <1>5, <1>6, <2>1
<1>8. Rec(f)
  <2>1. f = [i \in 1 .. len |-> f[i]]
    BY <1>6
  <2>2. \A i \in 1 .. len : i # 1 => i \in 2 .. len
    BY <1>1
  <2>3. \A i \in 1 .. len : f[i] = IF i = 1 THEN ss[i] ELSE f[i - 1] \o ss[i]
    BY <1>6, <1>7, <2>2
  <2>. QED
    BY <2>1, <2>3
<1>9. Rec(flat)
  <2> HIDE DEF Rec
  <2>. QED
    BY <1>8
<1>10. flat = f
  <2> HIDE DEF flat
  <2>1. 1 \in 1 .. len /\ \A i \in 2 .. len : i \in 1 .. len /\ i # 1
    BY <1>1
  <2>2. flat[1] = ss[1] /\ \A i \in 2 .. len : flat[i] = flat[i - 1] \o ss[i]
    BY <1>9, <2>1
  <2>3. f = [i \in 1 .. len |-> f[i]] /\ flat = [i \in 1 .. len |-> flat[i]]
    BY <1>6, <1>9
  <2>4. SameRecursion(len, f, flat)
    BY <1>6, <1>7, <2>2, <2>3 DEF SameRecursion
  <2>. QED
    BY <1>1, <2>4, IterationUnique
<1>11. Concatenations(ss, len, f) /\ FlattenSeq(ss) = f[len]
  <2> HIDE DEF flat
  <2>. QED
    BY <1>3, <1>6, <1>7, <1>10 DEF Concatenations
<1>. QED
  BY <1>6, <1>11 DEF len, T

(* FlattenSeq gives a sequence over the same elements. *)
LEMMA FlattenType ==
  ASSUME NEW S, NEW ss \in Seq(Seq(S))
  PROVE  FlattenSeq(ss) \in Seq(S)
<1>1. CASE Len(ss) = 0
  <2>1. ss = <<>>
    BY <1>1
  <2>. QED
    BY <1>1, <2>1 DEF FlattenSeq
<1>2. CASE Len(ss) # 0
  <2>1. PICK f \in [1 .. Len(ss) -> Seq(S)] : FlattenSeq(ss) = f[Len(ss)]
    BY <1>2, FlattenTable
  <2>2. Len(ss) \in 1 .. Len(ss)
    BY <1>2
  <2>. QED
    BY <2>1, <2>2
<1>. QED
  BY <1>1, <1>2

LEMMA ConcatSecond ==
  ASSUME NEW S, NEW u \in Seq(S), NEW v \in Seq(S), NEW k \in 1 .. Len(v)
  PROVE  (u \o v)[Len(u) + k] = v[k]
<1> DEFINE i == Len(u) + k
<1>1. Len(u) \in Nat /\ Len(v) \in Nat
  OBVIOUS
<1>2. i \in 1 .. Len(u) + Len(v) /\ ~ (i <= Len(u)) /\ i - Len(u) = k
  BY <1>1
<1> HIDE DEF i
<1>3. (u \o v)[i] = v[i - Len(u)]
  BY <1>2
<1>. QED
  BY <1>2, <1>3 DEF i

(* Two sequences of sequences of equal lengths stay side by side when flattened:
   each place of the two results holds the same place of the same part of them,
   and every place of every part is there. *)
SameShape(ss, tt) == Len(ss) = Len(tt) /\ \A i \in 1 .. Len(ss) : Len(ss[i]) = Len(tt[i])

Place(ss, tt, i, k, u, v) == u = ss[i][k] /\ v = tt[i][k]

SideBySide(ss, tt, len, f, g) ==
  /\ Len(f) = Len(g)
  /\ \A x \in 1 .. Len(f) : \E i \in 1 .. len : \E k \in 1 .. Len(ss[i]) : Place(ss, tt, i, k, f[x], g[x])
  /\ \A i \in 1 .. len : \A k \in 1 .. Len(ss[i]) : \E x \in 1 .. Len(f) : Place(ss, tt, i, k, f[x], g[x])

LEMMA FlattenTogether ==
  ASSUME NEW S, NEW T, NEW ss \in Seq(Seq(S)), NEW tt \in Seq(Seq(T)), SameShape(ss, tt)
  PROVE  SideBySide(ss, tt, Len(ss), FlattenSeq(ss), FlattenSeq(tt))
<1> DEFINE len == Len(ss)
<1>1. len \in Nat /\ len = Len(tt) /\ \A i \in 1 .. len : ss[i] \in Seq(S) /\ tt[i] \in Seq(T) /\ Len(ss[i]) = Len(tt[i])
  BY DEF SameShape
<1>2. CASE len = 0
  <2>1. ss = <<>> /\ tt = <<>>
    <3>1. Len(ss) = 0 /\ Len(tt) = 0
      BY <1>1, <1>2
    <3>. QED
      BY <3>1
  <2>2. FlattenSeq(ss) = <<>> /\ FlattenSeq(tt) = <<>>
    BY <2>1 DEF FlattenSeq
  <2>. QED
    BY <2>1, <2>2 DEF SideBySide
<1>3. CASE len # 0
  <2>1. PICK f \in [1 .. len -> Seq(S)] : Concatenations(ss, len, f) /\ FlattenSeq(ss) = f[len]
    BY <1>3, FlattenTable
  <2>2. PICK g \in [1 .. len -> Seq(T)] : Concatenations(tt, len, g) /\ FlattenSeq(tt) = g[len]
    BY <1>1, <1>3, FlattenTable
  <2> DEFINE Apart == {m \in 1 .. len : ~ SideBySide(ss, tt, m, f[m], g[m])}
  <2> HIDE DEF len
  <2>3. Apart = {}
    <3>1. SUFFICES ASSUME Apart # {}
                   PROVE  FALSE
      OBVIOUS
    <3>2. PICK m \in Apart : \A j \in Apart : m <= j
      <4>1. Apart \in SUBSET Nat
        BY <1>1
      <4> HIDE DEF Apart
      <4>. QED
        BY <3>1, <4>1, LeastElement
    <3>3. m \in 1 .. len /\ m \in Nat /\ ~ SideBySide(ss, tt, m, f[m], g[m])
      BY <1>1, <3>2
    <3>4. CASE m = 1
      <4>1. f[1] = ss[1] /\ g[1] = tt[1] /\ 1 \in 1 .. len
        BY <2>1, <2>2, <3>3, <3>4 DEF Concatenations
      <4>2. Len(f[1]) = Len(g[1]) /\ Len(ss[1]) = Len(f[1])
        BY <1>1, <4>1
      <4>3. \A i \in 1 .. 1 : i = 1
        OBVIOUS
      <4>4. \A k \in 1 .. Len(ss[1]) : Place(ss, tt, 1, k, f[1][k], g[1][k])
        BY <4>1 DEF Place
      <4>. QED
        BY <3>3, <3>4, <4>2, <4>3, <4>4 DEF SideBySide
    <3>5. CASE m # 1
      <4> DEFINE a == f[m - 1]
                 b == g[m - 1]
      <4>1. m \in 2 .. len /\ m - 1 \in 1 .. len /\ ~ (m <= m - 1) /\ m - 1 \in Nat
        BY <1>1, <3>3, <3>5
      <4>2. SideBySide(ss, tt, m - 1, a, b)
        <5>1. m - 1 \notin Apart
          <6> HIDE DEF Apart
          <6>. QED
            BY <3>2, <4>1
        <5>. QED
          BY <4>1, <5>1
      <4>3. f[m] = a \o ss[m] /\ g[m] = b \o tt[m]
        BY <2>1, <2>2, <4>1 DEF Concatenations
      <4>4. a \in Seq(S) /\ b \in Seq(T) /\ ss[m] \in Seq(S) /\ tt[m] \in Seq(T)
        BY <1>1, <2>1, <2>2, <3>3, <4>1
      <4>5. Len(a) = Len(b) /\ Len(ss[m]) = Len(tt[m]) /\ Len(a) \in Nat /\ Len(ss[m]) \in Nat
        BY <1>1, <3>3, <4>2, <4>4, SMTT(30) DEF SideBySide
      <4> HIDE DEF a, b
      <4>6. Len(f[m]) = Len(a) + Len(ss[m]) /\ Len(g[m]) = Len(f[m]) /\ Len(f[m]) \in Nat
        <5>1. Len(a \o ss[m]) = Len(a) + Len(ss[m]) /\ Len(b \o tt[m]) = Len(b) + Len(tt[m])
          BY <4>4
        <5>. QED
          BY <4>3, <4>5, <5>1
      <4>7. \A x \in 1 .. Len(a) : x \in 1 .. Len(f[m]) /\ f[m][x] = a[x] /\ g[m][x] = b[x]
        BY <4>3, <4>4, <4>5, <4>6
      <4>8. \A k \in 1 .. Len(ss[m]) :
              Len(a) + k \in 1 .. Len(f[m]) /\ Place(ss, tt, m, k, f[m][Len(a) + k], g[m][Len(a) + k])
        <5> TAKE k \in 1 .. Len(ss[m])
        <5>1. (a \o ss[m])[Len(a) + k] = ss[m][k]
          BY <4>4, ConcatSecond
        <5>3. (b \o tt[m])[Len(b) + k] = tt[m][k]
          <6>1. k \in 1 .. Len(tt[m])
            BY <4>5
          <6>. QED
            BY <4>4, <6>1, ConcatSecond
        <5>2. Len(a) + k \in 1 .. Len(f[m])
          BY <4>5, <4>6
        <5>. QED
          BY <4>3, <4>5, <5>1, <5>2, <5>3 DEF Place
      <4>9. \A i \in 1 .. m : i = m \/ i \in 1 .. m - 1
        BY <4>1
      <4>10. m \in 1 .. m /\ \A i \in 1 .. m - 1 : i \in 1 .. m
        BY <4>1
      <4>11. \A x \in 1 .. Len(f[m]) :
               \E i \in 1 .. m : \E k \in 1 .. Len(ss[i]) : Place(ss, tt, i, k, f[m][x], g[m][x])
        <5> TAKE x \in 1 .. Len(f[m])
        <5>1. CASE x \in 1 .. Len(a)
          <6>1. PICK i \in 1 .. m - 1 : \E k \in 1 .. Len(ss[i]) : Place(ss, tt, i, k, a[x], b[x])
            BY <4>2, <5>1 DEF SideBySide
          <6>. QED
            BY <4>7, <4>10, <5>1, <6>1
        <5>2. CASE x \notin 1 .. Len(a)
          <6>1. x - Len(a) \in 1 .. Len(ss[m]) /\ x = Len(a) + (x - Len(a))
            BY <4>5, <4>6, <5>2
          <6>2. Place(ss, tt, m, x - Len(a), f[m][x], g[m][x])
            BY <4>8, <6>1
          <6>. QED
            BY <4>10, <6>1, <6>2
        <5>. QED
          BY <5>1, <5>2
      <4>12. \A i \in 1 .. m : \A k \in 1 .. Len(ss[i]) :
               \E x \in 1 .. Len(f[m]) : Place(ss, tt, i, k, f[m][x], g[m][x])
        <5> TAKE i \in 1 .. m
        <5> TAKE k \in 1 .. Len(ss[i])
        <5>1. CASE i = m
          BY <4>8, <5>1
        <5>2. CASE i \in 1 .. m - 1
          <6>1. PICK x \in 1 .. Len(a) : Place(ss, tt, i, k, a[x], b[x])
            BY <4>2, <5>2 DEF SideBySide
          <6>. QED
            BY <4>7, <6>1
        <5>. QED
          BY <4>9, <5>1, <5>2
      <4>. QED
        BY <3>3, <4>6, <4>11, <4>12 DEF SideBySide
    <3>. QED
      BY <3>4, <3>5
  <2>4. len \in 1 .. len
    BY <1>1, <1>3
  <2>5. SideBySide(ss, tt, len, f[len], g[len])
    BY <2>3, <2>4
  <2>. QED
    BY <2>1, <2>2, <2>5 DEF len
<1>. QED
  BY <1>2, <1>3

(* In particular FlattenSeq keeps every element of every part and adds none. *)
Covered(ss, f) ==
  /\ \A x \in 1 .. Len(f) : \E i \in 1 .. Len(ss) : \E k \in 1 .. Len(ss[i]) : f[x] = ss[i][k]
  /\ \A i \in 1 .. Len(ss) : \A k \in 1 .. Len(ss[i]) : \E x \in 1 .. Len(f) : f[x] = ss[i][k]

LEMMA FlattenCovers ==
  ASSUME NEW S, NEW ss \in Seq(Seq(S))
  PROVE  Covered(ss, FlattenSeq(ss))
<1>1. SideBySide(ss, ss, Len(ss), FlattenSeq(ss), FlattenSeq(ss))
  <2>1. SameShape(ss, ss)
    BY DEF SameShape
  <2>. QED
    BY <2>1, FlattenTogether
<1>. QED
  BY <1>1 DEF SideBySide, Place, Covered

(* Division with remainder has one answer, so a row-major index gives back its
   row and its column. *)
LEMMA DivisionUnique ==
  ASSUME NEW w \in Nat \ {0}, NEW q \in Int, NEW p \in Int,
         NEW r \in 0 .. w - 1, NEW t \in 0 .. w - 1, q * w + r = p * w + t
  PROVE  q = p /\ r = t
<1>1. \A a \in Int : \A b \in Int : a < b => (b - a - 1) * w >= 0 /\ (b - a - 1) * w = b * w - a * w - w
  OBVIOUS
<1>2. ~ (q < p)
  BY <1>1
<1>3. ~ (p < q)
  BY <1>1
<1>4. q = p
  BY <1>2, <1>3
<1>. QED
  BY <1>4

LEMMA DivisionType ==
  ASSUME NEW w \in Nat \ {0}, NEW a \in Nat
  PROVE  a \div w \in Nat /\ a % w \in 0 .. w - 1 /\ a = (a \div w) * w + (a % w)
OBVIOUS

LEMMA RowMajor ==
  ASSUME NEW w \in Nat \ {0}, NEW h \in Nat, NEW i \in 1 .. h, NEW j \in 1 .. w
  PROVE  /\ (i - 1) * w + j \in 1 .. h * w
         /\ ((i - 1) * w + j - 1) \div w = i - 1
         /\ ((i - 1) * w + j - 1) % w = j - 1
<1> DEFINE a == (i - 1) * w + j - 1
<1>1. (i - 1) * w >= 0 /\ (h - i) * w >= 0 /\ (h - i) * w = h * w - i * w /\ (i - 1) * w = i * w - w
  OBVIOUS
<1>2. (i - 1) * w \in Int /\ i * w \in Int /\ h * w \in Int /\ i \in Int /\ j \in Int
  OBVIOUS
<1>3. (i - 1) * w + j \in 1 .. h * w
  BY <1>1, <1>2
<1>4. a \in Nat
  BY <1>3
<1>5. a = (i - 1) * w + (j - 1) /\ i - 1 \in Int /\ j - 1 \in 0 .. w - 1
  BY <1>2
<1> HIDE DEF a
<1>6. a \div w \in Nat /\ a % w \in 0 .. w - 1 /\ a = (a \div w) * w + (a % w)
  BY <1>4, DivisionType
<1>7. a \div w = i - 1 /\ a % w = j - 1
  <2> DEFINE q == a \div w
             r == a % w
             p == i - 1
             t == j - 1
  <2>1. q \in Int /\ r \in 0 .. w - 1 /\ p \in Int /\ t \in 0 .. w - 1 /\ q * w + r = p * w + t
    BY <1>5, <1>6
  <2> HIDE DEF q, r, p, t
  <2>2. q = p /\ r = t
    BY <2>1, DivisionUnique
  <2>. QED
    BY <2>2 DEF q, r, p, t
<1>. QED
  BY <1>3, <1>7 DEF a

LEMMA RowAndColumn ==
  ASSUME NEW w \in Nat \ {0}, NEW h \in Nat, NEW x \in 1 .. h * w
  PROVE  ((x - 1) \div w) + 1 \in 1 .. h /\ ((x - 1) % w) + 1 \in 1 .. w
<1> DEFINE a == x - 1
           q == a \div w
           r == a % w
<1>1. a \in Nat /\ a < h * w
  <2>1. h * w \in Int
    OBVIOUS
  <2>. QED
    BY <2>1
<1> HIDE DEF a
<1>2. q \in Nat /\ r \in 0 .. w - 1 /\ a = q * w + r
  BY <1>1, DivisionType
<1> HIDE DEF q, r
<1>3. q < h
  <2>1. SUFFICES ASSUME h <= q
                 PROVE  FALSE
    BY <1>2
  <2>2. (q - h) * w >= 0 /\ (q - h) * w = q * w - h * w
    BY <1>2, <2>1
  <2>3. q * w \in Int /\ h * w \in Int
    BY <1>2
  <2>. QED
    BY <1>1, <1>2, <2>2, <2>3
<1>4. q + 1 \in 1 .. h /\ r + 1 \in 1 .. w
  BY <1>2, <1>3
<1>. QED
  BY <1>4 DEF a, q, r

-------------------------------------------------------------------------------
(* What the constructor uploads *)

LEMMA ConstantsType ==
  /\ Len(Links) \in Nat /\ DOMAIN Links = 1 .. Len(Links)
  /\ Len(Objects) \in Nat /\ DOMAIN Objects = 1 .. Len(Objects)
  /\ \A o \in DOMAIN Objects : Objects[o].tris \in Nat
  /\ \A l \in DOMAIN Links :
       /\ Geoms[l] \in Seq(Nat)
       /\ Len(Geoms[l]) \in Nat /\ DOMAIN Geoms[l] = 1 .. Len(Geoms[l])
       /\ \A g \in DOMAIN Geoms[l] : Geoms[l][g] \in Nat
<1>1. Links \in Seq(STRING) /\ Objects \in Seq([id : STRING, tris : Nat, solid : BOOLEAN])
  BY OptixAssumption
<1>2. Geoms \in [DOMAIN Links -> Seq(Nat)]
  BY OptixAssumption
<1>3. \A o \in DOMAIN Objects : Objects[o] \in [id : STRING, tris : Nat, solid : BOOLEAN]
  <2> DEFINE R == [id : STRING, tris : Nat, solid : BOOLEAN]
  <2>1. Objects \in Seq(R)
    BY <1>1
  <2> HIDE DEF R
  <2>2. \A o \in DOMAIN Objects : Objects[o] \in R
    BY <2>1
  <2>. QED
    BY <2>2 DEF R
<1>. QED
  BY <1>1, <1>2, <1>3

(* A link's rays are those of its geometries, all of them. *)
LEMMA RaysOfLink ==
  ASSUME NEW l \in DOMAIN Links
  PROVE  /\ RaysOf(l) \in Seq(Rays)
         /\ \A x \in 1 .. Len(RaysOf(l)) : RaysOf(l)[x][1] = l
         /\ \A ray \in Rays : ray[1] = l => \E x \in 1 .. Len(RaysOf(l)) : RaysOf(l)[x] = ray
<1> DEFINE part(g) == [k \in 1 .. Geoms[l][g] |-> <<l, g, k>>]
           ss == [g \in DOMAIN Geoms[l] |-> part(g)]
<1>1. \A g \in DOMAIN Geoms[l] :
        /\ g \in Nat /\ Geoms[l][g] \in Nat
        /\ \A k \in 1 .. Geoms[l][g] : <<l, g, k>> \in Rays
  <2> TAKE g \in DOMAIN Geoms[l]
  <2>1. g \in Nat /\ Geoms[l][g] \in Nat
    <3>1. g \in 1 .. Len(Geoms[l]) /\ Len(Geoms[l]) \in Nat
      BY ConstantsType
    <3>2. g \in Nat
      BY <3>1
    <3>. QED
      BY <3>2, ConstantsType
  <2>2. ASSUME NEW k \in 1 .. Geoms[l][g]
        PROVE  <<l, g, k>> \in Rays
    <3>1. k \in Nat
      BY <2>1
    <3>2. <<l, g>> \in Points
      BY <2>1 DEF Points
    <3>. QED
      BY <2>1, <3>1, <3>2 DEF Rays
  <2>. QED
    BY <2>1, <2>2
<1>2. \A g \in DOMAIN Geoms[l] : part(g) \in Seq(Rays) /\ Len(part(g)) = Geoms[l][g]
  BY <1>1
<1>3. ss \in Seq(Seq(Rays)) /\ Len(ss) = Len(Geoms[l])
  <2> HIDE DEF part
  <2>. QED
    BY SMTT(30), <1>2, ConstantsType
<1>4. RaysOf(l) = FlattenSeq(ss)
  BY DEF RaysOf, Flatten
<1>5. \A g \in 1 .. Len(ss) : g \in DOMAIN Geoms[l] /\ Len(ss[g]) = Geoms[l][g]
                            /\ \A k \in 1 .. Len(ss[g]) : ss[g][k] = <<l, g, k>>
  BY <1>2, <1>3, ConstantsType
<1> HIDE DEF ss
<1>6. RaysOf(l) \in Seq(Rays)
  BY <1>3, <1>4, FlattenType
<1>7. Covered(ss, RaysOf(l))
  BY <1>3, <1>4, FlattenCovers
<1>8. ASSUME NEW x \in 1 .. Len(RaysOf(l))
      PROVE  RaysOf(l)[x][1] = l
  <2>1. PICK g \in 1 .. Len(ss) : \E k \in 1 .. Len(ss[g]) : RaysOf(l)[x] = ss[g][k]
    BY <1>7 DEF Covered
  <2>2. PICK k \in 1 .. Len(ss[g]) : RaysOf(l)[x] = ss[g][k]
    BY <2>1
  <2>3. RaysOf(l)[x] = <<l, g, k>>
    BY <1>5, <2>2
  <2>. QED
    BY <2>3
<1>9. ASSUME NEW ray \in Rays, ray[1] = l
      PROVE  \E x \in 1 .. Len(RaysOf(l)) : RaysOf(l)[x] = ray
  <2>1. ray = <<l, ray[2], ray[3]>> /\ ray[2] \in DOMAIN Geoms[l] /\ ray[3] \in 1 .. Geoms[l][ray[2]]
    BY <1>9 DEF Rays, Points
  <2>2. ray[2] \in 1 .. Len(ss) /\ ray[3] \in 1 .. Len(ss[ray[2]])
    BY <1>3, <1>5, <2>1, ConstantsType
  <2>3. ss[ray[2]][ray[3]] = ray
    BY <1>5, <2>1, <2>2
  <2>4. \E x \in 1 .. Len(RaysOf(l)) : RaysOf(l)[x] = ss[ray[2]][ray[3]]
    BY <1>7, <2>2 DEF Covered
  <2>. QED
    BY <2>3, <2>4
<1>. QED
  BY <1>6, <1>8, <1>9

(* Every link with a ray has a slot. *)
LEMMA SlotsOfLinks ==
  /\ SlotLinks \in Seq(DOMAIN Links) /\ NumSlots \in Nat /\ Slots = 1 .. NumSlots
  /\ \A s \in Slots : SlotLinks[s] \in DOMAIN Links
  /\ \A l \in DOMAIN Links : RaysOf(l) # <<>> => \E s \in Slots : SlotLinks[s] = l
<1> DEFINE ss == [l \in DOMAIN Links |-> IF RaysOf(l) = <<>> THEN <<>> ELSE <<l>>]
<1>1. ss \in Seq(Seq(DOMAIN Links)) /\ Len(ss) = Len(Links)
  <2>1. \A l \in DOMAIN Links : ss[l] \in Seq(DOMAIN Links)
    <3>1. \A l \in DOMAIN Links : <<l>> \in Seq(DOMAIN Links) /\ <<>> \in Seq(DOMAIN Links)
      OBVIOUS
    <3>. QED
      BY <3>1
  <2>. QED
    BY <2>1, ConstantsType
<1>2. SlotLinks = FlattenSeq(ss)
  BY DEF SlotLinks, Flatten
<1>3. \A l \in DOMAIN Links : RaysOf(l) # <<>> => l \in 1 .. Len(ss) /\ 1 \in 1 .. Len(ss[l]) /\ ss[l][1] = l
  BY <1>1, ConstantsType
<1> HIDE DEF ss
<1>4. SlotLinks \in Seq(DOMAIN Links)
  BY <1>1, <1>2, FlattenType
<1>5. Covered(ss, SlotLinks)
  BY <1>1, <1>2, FlattenCovers
<1>6. NumSlots \in Nat /\ Slots = 1 .. NumSlots
  BY <1>4 DEF NumSlots, Slots
<1>7. ASSUME NEW l \in DOMAIN Links, RaysOf(l) # <<>>
      PROVE  \E s \in Slots : SlotLinks[s] = l
  <2>1. \E s \in 1 .. Len(SlotLinks) : SlotLinks[s] = ss[l][1]
    BY <1>3, <1>5, <1>7 DEF Covered
  <2>. QED
    BY <1>3, <1>6, <1>7, <2>1 DEF NumSlots
<1>. QED
  BY <1>4, <1>6, <1>7 DEF Slots

(* A ray's slot is that of its link, and all rays are uploaded. *)
LEMMA RaysUploaded ==
  /\ RayData \in Seq(Rays) /\ Len(RayData) \in Nat /\ DOMAIN RayData = 1 .. Len(RayData)
  /\ \A r \in DOMAIN RayData :
       /\ RayData[r] \in Rays /\ RayLink[r] \in Slots
       /\ RayData[r][1] = SlotLinks[RayLink[r]]
  /\ \A ray \in Rays : \E r \in DOMAIN RayData : RayData[r] = ray
<1> DEFINE ss == [s \in Slots |-> RaysOf(SlotLinks[s])]
           tt == [s \in Slots |-> [r \in DOMAIN RaysOf(SlotLinks[s]) |-> s]]
<1>1. \A s \in Slots : SlotLinks[s] \in DOMAIN Links
  BY SlotsOfLinks
<1>2. \A s \in Slots : RaysOf(SlotLinks[s]) \in Seq(Rays)
  BY <1>1, RaysOfLink
<1>3. ss \in Seq(Seq(Rays)) /\ Len(ss) = NumSlots /\ \A s \in Slots : ss[s] = RaysOf(SlotLinks[s])
  BY <1>2, SlotsOfLinks
<1>4. \A s \in Slots : tt[s] \in Seq(Slots) /\ Len(tt[s]) = Len(ss[s]) /\ \A k \in 1 .. Len(ss[s]) : tt[s][k] = s
  BY <1>2
<1>5. tt \in Seq(Seq(Slots)) /\ Len(tt) = NumSlots
  <2>1. DOMAIN tt = Slots
    OBVIOUS
  <2>2. tt = [s \in 1 .. NumSlots |-> tt[s]]
    BY SlotsOfLinks
  <2> HIDE DEF tt
  <2>. QED
    BY <1>4, <2>2, SlotsOfLinks
<1>6. RayData = FlattenSeq(ss) /\ RayLink = FlattenSeq(tt)
  BY DEF RayData, RayLink, Flatten
<1> HIDE DEF ss, tt
<1>7. SameShape(ss, tt)
  BY <1>3, <1>4, <1>5, SlotsOfLinks DEF SameShape
<1>8. RayData \in Seq(Rays) /\ RayLink \in Seq(Slots)
  BY <1>3, <1>5, <1>6, FlattenType
<1>9. SideBySide(ss, tt, NumSlots, RayData, RayLink)
  BY <1>3, <1>5, <1>6, <1>7, FlattenTogether
<1>10. ASSUME NEW r \in DOMAIN RayData
       PROVE  RayData[r] \in Rays /\ RayLink[r] \in Slots /\ RayData[r][1] = SlotLinks[RayLink[r]]
  <2>1. r \in 1 .. Len(RayData) /\ RayData[r] \in Rays
    BY <1>8
  <2>2. PICK s \in 1 .. NumSlots : \E k \in 1 .. Len(ss[s]) : Place(ss, tt, s, k, RayData[r], RayLink[r])
    BY <1>9, <2>1 DEF SideBySide
  <2>3. PICK k \in 1 .. Len(ss[s]) : RayData[r] = ss[s][k] /\ RayLink[r] = tt[s][k]
    BY <2>2 DEF Place
  <2>4. s \in Slots
    BY SlotsOfLinks
  <2>5. RayData[r] = RaysOf(SlotLinks[s])[k] /\ k \in 1 .. Len(RaysOf(SlotLinks[s]))
    <3>1. ss[s] = RaysOf(SlotLinks[s])
      BY <1>3, <2>4
    <3>. QED
      BY <2>3, <3>1
  <2>6. RayLink[r] = s
    BY <1>4, <2>3, <2>4
  <2>. QED
    BY <1>1, <2>1, <2>4, <2>5, <2>6, RaysOfLink
<1>11. ASSUME NEW ray \in Rays
       PROVE  \E r \in DOMAIN RayData : RayData[r] = ray
  <2>1. ray[1] \in DOMAIN Links
    BY DEF Rays
  <2>2. PICK k \in 1 .. Len(RaysOf(ray[1])) : RaysOf(ray[1])[k] = ray
    BY <2>1, RaysOfLink
  <2>3. RaysOf(ray[1]) # <<>>
    BY <2>1, <2>2, RaysOfLink
  <2>4. PICK s \in Slots : SlotLinks[s] = ray[1]
    BY <2>1, <2>3, SlotsOfLinks
  <2>5. s \in 1 .. NumSlots /\ k \in 1 .. Len(ss[s]) /\ ss[s][k] = ray
    BY <1>3, <2>2, <2>4, SlotsOfLinks
  <2>6. PICK r \in 1 .. Len(RayData) : Place(ss, tt, s, k, RayData[r], RayLink[r])
    BY <1>9, <2>5 DEF SideBySide
  <2>. QED
    BY <1>8, <2>5, <2>6 DEF Place
<1>. QED
  BY <1>8, <1>10, <1>11

(* A triangle's object is the one it belongs to, and all triangles are uploaded. *)
LEMMA TrianglesUploaded ==
  /\ TriData \in Seq(Triangles) /\ Len(TriData) \in Nat /\ DOMAIN TriData = 1 .. Len(TriData)
  /\ \A i \in DOMAIN TriData :
       /\ TriData[i] \in Triangles /\ TriObject[i] \in DOMAIN Objects
       /\ TriData[i][1] = TriObject[i]
  /\ \A x \in Triangles : \E i \in DOMAIN TriData : TriData[i] = x
<1> DEFINE ss == [o \in DOMAIN Objects |-> [k \in 1 .. Objects[o].tris |-> <<o, k>>]]
           tt == [o \in DOMAIN Objects |-> [k \in 1 .. Objects[o].tris |-> o]]
           m == Len(Objects)
<1>1. \A o \in DOMAIN Objects : Objects[o].tris \in Nat
  BY ConstantsType
<1>2. \A o \in DOMAIN Objects :
        /\ ss[o] \in Seq(Triangles) /\ Len(ss[o]) = Objects[o].tris
        /\ \A k \in 1 .. Objects[o].tris : ss[o][k] = <<o, k>>
  <2>1. \A o \in DOMAIN Objects : \A k \in 1 .. Objects[o].tris : <<o, k>> \in Triangles
    BY <1>1 DEF Triangles
  <2>. QED
    BY <1>1, <2>1
<1>3. \A o \in DOMAIN Objects :
        /\ tt[o] \in Seq(DOMAIN Objects) /\ Len(tt[o]) = Objects[o].tris
        /\ \A k \in 1 .. Objects[o].tris : tt[o][k] = o
  BY <1>1
<1>4. ss \in Seq(Seq(Triangles)) /\ Len(ss) = m
  <2>1. ss = [o \in 1 .. m |-> ss[o]]
    BY ConstantsType
  <2> HIDE DEF ss
  <2>. QED
    BY <1>2, <2>1, ConstantsType
<1>5. tt \in Seq(Seq(DOMAIN Objects)) /\ Len(tt) = m
  <2>1. tt = [o \in 1 .. m |-> tt[o]]
    BY ConstantsType
  <2> HIDE DEF tt
  <2>. QED
    BY <1>3, <2>1, ConstantsType
<1>6. TriData = FlattenSeq(ss) /\ TriObject = FlattenSeq(tt)
  BY DEF TriData, TriObject, Flatten
<1> HIDE DEF ss, tt
<1>7. SameShape(ss, tt)
  BY <1>2, <1>3, <1>4, <1>5, ConstantsType DEF SameShape
<1>8. TriData \in Seq(Triangles) /\ TriObject \in Seq(DOMAIN Objects)
  BY <1>4, <1>5, <1>6, FlattenType
<1>9. SideBySide(ss, tt, m, TriData, TriObject)
  BY <1>4, <1>5, <1>6, <1>7, FlattenTogether
<1>10. ASSUME NEW i \in DOMAIN TriData
       PROVE  TriData[i] \in Triangles /\ TriObject[i] \in DOMAIN Objects /\ TriData[i][1] = TriObject[i]
  <2>1. i \in 1 .. Len(TriData) /\ TriData[i] \in Triangles
    BY <1>8
  <2>2. PICK o \in 1 .. m : \E k \in 1 .. Len(ss[o]) : Place(ss, tt, o, k, TriData[i], TriObject[i])
    BY <1>9, <2>1 DEF SideBySide
  <2>3. PICK k \in 1 .. Len(ss[o]) : TriData[i] = ss[o][k] /\ TriObject[i] = tt[o][k]
    BY <2>2 DEF Place
  <2>. QED
    BY SMTT(30), <1>2, <1>3, <2>1, <2>3, ConstantsType
<1>11. ASSUME NEW x \in Triangles
       PROVE  \E i \in DOMAIN TriData : TriData[i] = x
  <2>1. x = <<x[1], x[2]>> /\ x[1] \in DOMAIN Objects /\ x[2] \in 1 .. Objects[x[1]].tris
    BY DEF Triangles
  <2>2. x[1] \in 1 .. m /\ x[2] \in 1 .. Len(ss[x[1]]) /\ ss[x[1]][x[2]] = x
    BY <1>2, <2>1, ConstantsType
  <2>3. PICK i \in 1 .. Len(TriData) : Place(ss, tt, x[1], x[2], TriData[i], TriObject[i])
    BY <1>9, <2>2 DEF SideBySide
  <2>. QED
    BY <1>8, <2>2, <2>3 DEF Place
<1>. QED
  BY <1>8, <1>10, <1>11

(* Every interior point is kept with its link. *)
LEMMA PointsKept ==
  /\ Interior \in Seq(Points)
  /\ \A x \in Points : \E i \in DOMAIN Interior : Interior[i] = x
<1> DEFINE ss == [l \in DOMAIN Links |-> [g \in DOMAIN Geoms[l] |-> <<l, g>>]]
<1>1. \A l \in DOMAIN Links :
        /\ ss[l] \in Seq(Points) /\ Len(ss[l]) = Len(Geoms[l])
        /\ \A g \in DOMAIN Geoms[l] : ss[l][g] = <<l, g>>
  <2> TAKE l \in DOMAIN Links
  <2>1. \A g \in DOMAIN Geoms[l] : <<l, g>> \in Points
    BY ConstantsType DEF Points
  <2>. QED
    BY <2>1, ConstantsType
<1>2. ss \in Seq(Seq(Points)) /\ Len(ss) = Len(Links)
  <2>1. ss = [l \in 1 .. Len(Links) |-> ss[l]]
    BY ConstantsType
  <2> HIDE DEF ss
  <2>. QED
    BY <1>1, <2>1, ConstantsType
<1>3. Interior = FlattenSeq(ss)
  BY DEF Interior, Flatten
<1> HIDE DEF ss
<1>4. Interior \in Seq(Points)
  BY <1>2, <1>3, FlattenType
<1>5. Covered(ss, Interior)
  BY <1>2, <1>3, FlattenCovers
<1>6. ASSUME NEW x \in Points
      PROVE  \E i \in DOMAIN Interior : Interior[i] = x
  <2>1. x = <<x[1], x[2]>> /\ x[1] \in DOMAIN Links /\ x[2] \in DOMAIN Geoms[x[1]]
    BY DEF Points
  <2>2. x[1] \in 1 .. Len(ss) /\ x[2] \in 1 .. Len(ss[x[1]]) /\ ss[x[1]][x[2]] = x
    BY <1>1, <1>2, <2>1, ConstantsType
  <2>3. PICK i \in 1 .. Len(Interior) : Interior[i] = ss[x[1]][x[2]]
    BY <1>5, <2>2 DEF Covered
  <2>. QED
    BY <1>4, <2>2, <2>3
<1>. QED
  BY <1>4, <1>6

-------------------------------------------------------------------------------
(* The inductive invariant *)

Stages == {"idle", "pose", "upload", "clear", "mask", "launch", "self", "join", "contain", "returned"}

\* What the host puts on the stream; no parameters are of a query to come.
Param == [query : 0 .. query, pose : Nat, configs : Nat, out : Nat, masked : BOOLEAN]
Copies == [do : {"copy_poses", "clear", "copy_hits"}, size : Nat]
Loads == [do : {"copy_params"}, p : Param]
Commands == Copies \cup Loads \cup {[do |-> "launch"]}

ThreadsOf(p) == (DOMAIN RayData) \X (1 .. p.configs)

StreamFits ==
  \A i \in DOMAIN stream :
    /\ stream[i].do = "copy_poses" => stream[i].size <= Len(h_pose) /\ stream[i].size <= Len(d_pose)
    /\ stream[i].do \in {"clear", "copy_hits"} => stream[i].size <= Len(d_out)
    /\ stream[i].do = "copy_hits" => stream[i].size <= Len(h_hits)

\* Each launch comes right after its parameters.
Paired ==
  \A i \in DOMAIN stream :
    /\ stream[i].do = "copy_params" => i + 1 \in DOMAIN stream /\ stream[i + 1].do = "launch"
    /\ stream[i].do = "launch" => IF i = 1 THEN d_params \in Param ELSE stream[i - 1].do = "copy_params"

HostInv ==
  /\ world \in Worlds
  /\ query \in 0 .. MaxQueries
  /\ call.batch \in Seq(Configs)
  /\ pc \in Stages
  /\ result \in [DOMAIN call.batch -> {0, 1}]
  /\ c0 \in 0 .. n
  /\ contain_skip = {p \in (DOMAIN Links) \X (DOMAIN Objects) : Allowed(p[1], p[2], call.acm)}
  /\ env_allowed = EnvAllowed(contain_skip)

BufferInv ==
  /\ h_pose \in Seq(PoseValue) /\ d_pose \in Seq(PoseValue)
  /\ h_hits \in Seq(HitValue) /\ d_out \in Seq(HitValue)
  /\ d_allowed \subseteq 1 .. NumSlots * Len(Objects)

StreamInv ==
  /\ stream \in Seq(Commands)
  /\ StreamFits
  /\ Paired

DeviceInv ==
  /\ d_params \in Param \cup {None}
  /\ launch # None =>
       /\ launch = [p |-> launch.p, todo |-> launch.todo, tracing |-> launch.tracing]
       /\ launch.p \in Param
       /\ launch.todo \subseteq ThreadsOf(launch.p) /\ launch.tracing \subseteq ThreadsOf(launch.p)

StageInv ==
  /\ pc \in {"upload", "clear", "mask", "launch"} => DoGpu
  /\ pc \in {"upload", "clear"} => n * NumSlots <= Len(h_pose)
  /\ pc \in {"mask", "launch"} => n <= Len(d_out)
  /\ pc \in {"pose", "upload", "clear", "mask"} => c0 = 0

TInv == HostInv /\ BufferInv /\ StreamInv /\ DeviceInv /\ StageInv

\* Parameters of the query in progress: enqueued, on the device, being run.
Mine(p) == p.query = query
Queued(i) == stream[i].do = "copy_params" /\ Mine(stream[i].p)
Loaded == d_params \in Param /\ Mine(d_params)
Running == launch # None /\ Mine(launch.p)
InFlight == Loaded \/ Running \/ \E i \in DOMAIN stream : Queued(i)

PosesIn(buf) ==
  /\ n * NumSlots <= Len(buf)
  /\ \A i \in 1 .. n * NumSlots : buf[i] = PoseEntry(i)

\* The device has the query's transforms when it comes to the i-th command.
PosedBefore(i) ==
  \/ PosesIn(d_pose)
  \/ \E j \in DOMAIN stream : j < i /\ stream[j] = [do |-> "copy_poses", size |-> n * NumSlots]

\* Parameters that are a chunk of the batch.
Chunk(p) == p.pose = p.out * NumSlots /\ p.out + p.configs <= n /\ p.masked = (env_allowed # {})

PoseInv ==
  /\ InFlight => pc \notin {"pose", "upload", "clear", "mask"}
  /\ InFlight \/ pc \in {"upload", "clear", "mask", "launch"} => PosesIn(h_pose)
  /\ pc \in {"clear", "mask", "launch"} => PosedBefore(Len(stream) + 1)
  /\ \A i \in DOMAIN stream : Queued(i) => PosedBefore(i) /\ Chunk(stream[i].p)
  /\ Loaded => PosesIn(d_pose) /\ Chunk(d_params)
  /\ Running => PosesIn(d_pose) /\ Chunk(launch.p)
  /\ InFlight \/ pc = "launch" => env_allowed = {} \/ d_allowed = env_allowed

\* The part of the answer the device finds, for a configuration and for a ray.
EnvHit(q) == \E x \in world.cross : x[1] = q /\ ~ Allowed(x[2][1], x[3][1], call.acm)
SelfHit(q) == call.self /\ q \in world.self
Crosses(r, c) ==
  \E i \in DOMAIN TriData :
    /\ <<call.batch[c], RayData[r], TriData[i]>> \in world.cross
    /\ ~ Allowed(RayData[r][1], TriData[i][1], call.acm)

Covers(p, c) == p.out < c /\ c <= p.out + p.configs

\* Where the query of a configuration stands on the device.
InStream(c, k) == \E i \in k + 1 .. Len(stream) : stream[i].do = "copy_params" /\ Covers(stream[i].p, c)
AboutToRun(c) == stream # <<>> /\ stream[1].do = "launch" /\ Loaded /\ Covers(d_params, c)
UnderWay(c) ==
  /\ Running
  /\ Covers(launch.p, c)
  /\ \A r \in DOMAIN RayData : Crosses(r, c) => d_out[c] # 0 \/ <<r, c - launch.p.out>> \in Threads
Told(c) == EnvHit(call.batch[c]) => d_out[c] # 0

Own(i) ==
  /\ stream[i].do \in {"copy_params", "launch", "copy_hits"}
  /\ stream[i].do = "copy_params" => Mine(stream[i].p)
  /\ stream[i].do = "copy_hits" => i = Len(stream) /\ stream[i].size = n /\ pc \in {"self", "join"}

HitsRight == \A c \in 1 .. n : (h_hits[c] # 0) = EnvHit(call.batch[c])

\* The results are cleared, and what runs or is about to is this query's.
Cleared ==
  /\ \A c \in 1 .. n : d_out[c] # 0 => EnvHit(call.batch[c])
  /\ launch # None => Running
  /\ stream # <<>> => (stream[1].do = "launch" => Loaded)

\* The read-back is enqueued last, or done.
Closing(k) ==
  /\ c0 = n
  /\ \/ k < Len(stream) /\ stream[Len(stream)].do = "copy_hits"
     \/ k = 0 /\ stream = <<>> /\ launch = None /\ HitsRight

\* The commands after the k-th are this query's and follow its clear, which is the
\* k-th command or, for k = 0, done.
Since(k) ==
  /\ \A i \in k + 1 .. Len(stream) : Own(i)
  /\ IF k = 0 THEN Cleared ELSE stream[k] = [do |-> "clear", size |-> n]
  /\ \A c \in 1 .. c0 : InStream(c, k) \/ (k = 0 /\ (AboutToRun(c) \/ UnderWay(c) \/ Told(c)))
  /\ pc \in {"self", "join"} => Closing(k)

Asking == pc \in {"mask", "launch"} \/ (pc \in {"self", "join"} /\ DoGpu)

AnswerInv ==
  /\ Asking => n <= Len(d_out) /\ \E k \in 0 .. Len(stream) : Since(k)
  /\ pc = "join" => \A c \in DOMAIN result : (result[c] = 1) = SelfHit(call.batch[c])
  /\ pc = "contain" => \A c \in DOMAIN result :
       (result[c] = 1) = (SelfHit(call.batch[c]) \/ EnvHit(call.batch[c]))
  /\ AnswersRight
-------------------------------------------------------------------------------
(* Transforms, mask, buffers *)

LEMMA SlotsThere ==
  ASSUME RayData # <<>>
  PROVE  NumSlots \in Nat \ {0} /\ Slots = 1 .. NumSlots
<1>1. 1 \in DOMAIN RayData
  BY RaysUploaded
<1>2. RayLink[1] \in Slots
  BY <1>1, RaysUploaded
<1>. QED
  BY <1>2, SlotsOfLinks

LEMMA PoseEntryType ==
  ASSUME HostInv, RayData # <<>>, NEW i \in 1 .. n * NumSlots
  PROVE  PoseEntry(i) \in PoseValue
<1> DEFINE c == ((i - 1) \div NumSlots) + 1
           s == ((i - 1) % NumSlots) + 1
<1>1. n \in Nat /\ \A k \in 1 .. n : call.batch[k] \in Configs
  BY DEF HostInv, n
<1>2. c \in 1 .. n /\ s \in 1 .. NumSlots
  BY <1>1, SlotsThere, RowAndColumn
<1>3. SlotLinks[s] \in DOMAIN Links
  BY <1>2, SlotsOfLinks
<1>4. query \in 0 .. MaxQueries /\ Cull \in BOOLEAN
  BY OptixAssumption DEF HostInv
<1> DEFINE far == Cull /\ <<call.batch[c], SlotLinks[s]>> \in world.far
<1>5. far \in BOOLEAN
  BY <1>4
<1>6. PoseEntry(i) = <<query, call.batch[c], SlotLinks[s], far>>
  BY DEF PoseEntry
<1>7. call.batch[c] \in Configs
  BY <1>1, <1>2
<1> HIDE DEF c, s, far
<1>8. <<query, call.batch[c], SlotLinks[s], far>> \in (0 .. MaxQueries) \X Configs \X (DOMAIN Links) \X BOOLEAN
  BY <1>3, <1>4, <1>5, <1>7
<1>. QED
  BY <1>6, <1>8 DEF PoseValue

(* The transform of a slot in a configuration is where a thread looks for it. *)
LEMMA PoseEntryAt ==
  ASSUME HostInv, RayData # <<>>, NEW c \in 1 .. n, NEW s \in Slots
  PROVE  /\ (c - 1) * NumSlots + s \in 1 .. n * NumSlots
         /\ PoseEntry((c - 1) * NumSlots + s) =
              <<query, call.batch[c], SlotLinks[s], Cull /\ <<call.batch[c], SlotLinks[s]>> \in world.far>>
<1> DEFINE i == (c - 1) * NumSlots + s
<1>1. n \in Nat /\ NumSlots \in Nat \ {0} /\ s \in 1 .. NumSlots
  BY SlotsThere DEF HostInv, n
<1>2. i \in 1 .. n * NumSlots /\ (i - 1) \div NumSlots = c - 1 /\ (i - 1) % NumSlots = s - 1
  BY <1>1, RowMajor
<1> HIDE DEF i
<1>3. ((i - 1) \div NumSlots) + 1 = c /\ ((i - 1) % NumSlots) + 1 = s
  BY <1>1, <1>2
<1>4. PoseEntry(i) = <<query, call.batch[c], SlotLinks[s], Cull /\ <<call.batch[c], SlotLinks[s]>> \in world.far>>
  BY <1>3 DEF PoseEntry
<1>. QED
  BY <1>2, <1>4 DEF i

LEMMA MaskType ==
  ASSUME NEW pairs
  PROVE  EnvAllowed(pairs) \subseteq 1 .. NumSlots * Len(Objects)
<1>1. SUFFICES ASSUME NEW x \in Slots \X (DOMAIN Objects)
               PROVE  (x[1] - 1) * Len(Objects) + x[2] \in 1 .. NumSlots * Len(Objects)
  BY DEF EnvAllowed
<1>2. x[1] \in 1 .. NumSlots /\ x[2] \in 1 .. Len(Objects)
  BY SlotsOfLinks, ConstantsType
<1>3. Len(Objects) \in Nat \ {0} /\ NumSlots \in Nat
  BY <1>2, SlotsOfLinks, ConstantsType
<1>. QED
  BY <1>2, <1>3, RowMajor

(* The flat mask says of a slot and an object what the ACM says of their names. *)
LEMMA MaskRight ==
  ASSUME HostInv, NEW s \in Slots, NEW o \in DOMAIN Objects
  PROVE  (s - 1) * Len(Objects) + o \in env_allowed <=> Allowed(SlotLinks[s], o, call.acm)
<1> DEFINE w == Len(Objects)
           At(x) == (x[1] - 1) * w + x[2]
<1>1. env_allowed = {At(x) : x \in {y \in Slots \X (DOMAIN Objects) : <<SlotLinks[y[1]], y[2]>> \in contain_skip}}
  BY DEF HostInv, EnvAllowed
<1>2. \A t \in Slots : \A p \in DOMAIN Objects : <<SlotLinks[t], p>> \in contain_skip <=> Allowed(SlotLinks[t], p, call.acm)
  BY SlotsOfLinks DEF HostInv
<1>3. w \in Nat \ {0}
  BY ConstantsType
<1>4. ASSUME Allowed(SlotLinks[s], o, call.acm)
      PROVE  (s - 1) * w + o \in env_allowed
  <2>1. <<s, o>> \in {y \in Slots \X (DOMAIN Objects) : <<SlotLinks[y[1]], y[2]>> \in contain_skip}
    BY <1>2, <1>4
  <2>2. At(<<s, o>>) = (s - 1) * w + o
    OBVIOUS
  <2>. QED
    BY <1>1, <2>1, <2>2
<1>5. ASSUME (s - 1) * w + o \in env_allowed
      PROVE  Allowed(SlotLinks[s], o, call.acm)
  <2>1. PICK y \in Slots \X (DOMAIN Objects) :
          <<SlotLinks[y[1]], y[2]>> \in contain_skip /\ (s - 1) * w + o = At(y)
    BY <1>1, <1>5
  <2>2. s - 1 \in Int /\ y[1] - 1 \in Int /\ o - 1 \in 0 .. w - 1 /\ y[2] - 1 \in 0 .. w - 1
        /\ y[1] \in Slots /\ y[2] \in DOMAIN Objects
    BY SlotsOfLinks, ConstantsType
  <2> DEFINE q == s - 1
             p == y[1] - 1
             r == o - 1
             t == y[2] - 1
             a == q * w
             b == p * w
  <2>3. q * w + r = p * w + t
    <3>1. a \in Int /\ b \in Int /\ o \in Int /\ y[2] \in Int
      BY <1>3, <2>2, ConstantsType
    <3>2. a + o = b + y[2]
      BY <2>1
    <3>3. a + (o - 1) = b + (y[2] - 1)
      <4> HIDE DEF a, b
      <4>. QED
        BY <3>1, <3>2
    <3>. QED
      BY <3>3
  <2>4. q = p /\ r = t
    <3>1. q \in Int /\ p \in Int /\ r \in 0 .. w - 1 /\ t \in 0 .. w - 1
      BY <2>2
    <3> HIDE DEF q, p, r, t, w
    <3>. QED
      BY <1>3, <2>3, <3>1, DivisionUnique
  <2>5. s = y[1] /\ o = y[2]
    BY SMTT(30), <2>2, <2>4, SlotsOfLinks, ConstantsType
  <2>. QED
    BY <1>2, <2>1, <2>5
<1>. QED
  BY <1>4, <1>5

LEMMA GrowType ==
  ASSUME NEW V, NEW buf \in Seq(V), NEW size \in Nat, NEW junk \in V
  PROVE  /\ Grow(buf, size, junk) \in Seq(V)
         /\ size <= Len(Grow(buf, size, junk)) /\ Len(buf) <= Len(Grow(buf, size, junk))
<1>1. Len(buf) \in Nat
  OBVIOUS
<1>2. CASE size <= Len(buf)
  BY <1>1, <1>2 DEF Grow
<1>3. CASE ~ (size <= Len(buf))
  <2> DEFINE m == IF size > 2 * Len(buf) THEN size ELSE 2 * Len(buf)
  <2>1. m \in Nat /\ size <= m /\ Len(buf) <= m
    BY <1>1, <1>3
  <2>2. Grow(buf, size, junk) = [i \in 1 .. m |-> junk]
    BY <1>3 DEF Grow
  <2> HIDE DEF m
  <2>3. [i \in 1 .. m |-> junk] \in Seq(V) /\ Len([i \in 1 .. m |-> junk]) = m
    BY <2>1
  <2>. QED
    BY <2>1, <2>2, <2>3
<1>. QED
  BY <1>2, <1>3

LEMMA OverwriteType ==
  ASSUME NEW V, NEW buf \in Seq(V), NEW with, NEW size \in Nat,
         size <= Len(buf), \A i \in 1 .. size : with[i] \in V
  PROVE  /\ Overwrite(buf, with, size) \in Seq(V)
         /\ Len(Overwrite(buf, with, size)) = Len(buf)
         /\ \A i \in 1 .. Len(buf) : Overwrite(buf, with, size)[i] = IF i <= size THEN with[i] ELSE buf[i]
<1>1. Len(buf) \in Nat /\ DOMAIN buf = 1 .. Len(buf) /\ \A i \in 1 .. Len(buf) : buf[i] \in V
  OBVIOUS
<1>2. \A i \in 1 .. Len(buf) : i <= size => i \in 1 .. size
  BY <1>1
<1>3. Overwrite(buf, with, size) = [i \in 1 .. Len(buf) |-> IF i <= size THEN with[i] ELSE buf[i]]
  BY <1>1 DEF Overwrite
<1>4. \A i \in 1 .. Len(buf) : (IF i <= size THEN with[i] ELSE buf[i]) \in V
  BY <1>1, <1>2
<1>. QED
  BY <1>1, <1>3, <1>4

(* The stream: commands leave at the front and join at the end. *)
LEMMA PopFacts ==
  ASSUME NEW S, NEW s \in Seq(S), s # <<>>
  PROVE  /\ Len(s) \in Nat \ {0} /\ s[1] \in S
         /\ Tail(s) \in Seq(S) /\ Len(Tail(s)) = Len(s) - 1
         /\ \A i \in 1 .. Len(Tail(s)) : i + 1 \in 1 .. Len(s) /\ Tail(s)[i] = s[i + 1]
OBVIOUS

LEMMA PushFacts ==
  ASSUME NEW S, NEW s \in Seq(S), NEW x \in S
  PROVE  /\ Append(s, x) \in Seq(S) /\ Len(Append(s, x)) = Len(s) + 1 /\ Len(s) \in Nat
         /\ \A i \in 1 .. Len(s) : Append(s, x)[i] = s[i]
         /\ Append(s, x)[Len(s) + 1] = x
OBVIOUS

LEMMA PushTwoFacts ==
  ASSUME NEW S, NEW s \in Seq(S), NEW x \in S, NEW y \in S
  PROVE  /\ s \o <<x, y>> \in Seq(S) /\ Len(s \o <<x, y>>) = Len(s) + 2 /\ Len(s) \in Nat
         /\ \A i \in 1 .. Len(s) : (s \o <<x, y>>)[i] = s[i]
         /\ (s \o <<x, y>>)[Len(s) + 1] = x
         /\ (s \o <<x, y>>)[Len(s) + 2] = y
<1>1. <<x, y>> \in Seq(S) /\ Len(<<x, y>>) = 2
  OBVIOUS
<1>2. Len(s) \in Nat
  OBVIOUS
<1>3. (s \o <<x, y>>)[Len(s) + 1] = <<x, y>>[1] /\ (s \o <<x, y>>)[Len(s) + 2] = <<x, y>>[2]
  <2>1. 1 \in 1 .. Len(<<x, y>>) /\ 2 \in 1 .. Len(<<x, y>>)
    BY <1>1
  <2> DEFINE v == <<x, y>>
  <2>2. v \in Seq(S) /\ 1 \in 1 .. Len(v) /\ 2 \in 1 .. Len(v)
    BY <1>1, <2>1
  <2> HIDE DEF v
  <2>3. (s \o v)[Len(s) + 1] = v[1]
    BY <2>2, ConcatSecond
  <2>4. (s \o v)[Len(s) + 2] = v[2]
    BY <2>2, ConcatSecond
  <2>. QED
    BY <2>3, <2>4 DEF v
<1>. QED
  BY <1>1, <1>2, <1>3

-------------------------------------------------------------------------------
(* Type correctness *)

LEMMA InitTInv == Init => TInv
<1> SUFFICES ASSUME Init
             PROVE  TInv
  OBVIOUS
<1>1. n = 0 /\ MaxQueries \in Nat
  BY OptixAssumption DEF Init, n
<1>2. EnvAllowed({}) = {}
  BY DEF EnvAllowed
<1>3. \A p \in (DOMAIN Links) \X (DOMAIN Objects) : ~ Allowed(p[1], p[2], call.acm)
  BY DEF Init, Allowed
<1>4. HostInv
  BY <1>1, <1>2, <1>3 DEF Init, HostInv, Stages, n
<1>5. BufferInv
  BY DEF Init, BufferInv
<1>6. StreamInv
  <2>1. stream = <<>> /\ DOMAIN stream = {}
    BY DEF Init
  <2>. QED
    BY <2>1 DEF StreamInv, StreamFits, Paired
<1>7. DeviceInv
  BY DEF Init, DeviceInv, None
<1>8. StageInv
  <2>1. pc = "idle"
    BY DEF Init
  <2>. QED
    BY <2>1 DEF StageInv
<1>. QED
  BY <1>4, <1>5, <1>6, <1>7, <1>8 DEF TInv

LEMMA CommandFields ==
  ASSUME NEW c \in Commands
  PROVE  /\ c.do \in {"copy_poses", "clear", "copy_hits"} => c \in Copies /\ c.size \in Nat
         /\ c.do = "copy_params" => c.p \in Param
BY DEF Commands, Copies, Loads

LEMMA HostTyped ==
  ASSUME TInv, [Next]_vars
  PROVE  HostInv'
<1>1. CASE \E batch \in Batches, acm \in Acms, self \in BOOLEAN : Query(batch, acm, self)
  <2>1. PICK batch \in Batches, acm \in Acms, self \in BOOLEAN : Query(batch, acm, self)
    BY <1>1
  <2>2. batch \in Seq(Configs) /\ MaxQueries \in Nat
    BY OptixAssumption
  <2>3. call' = [batch |-> batch, acm |-> acm, self |-> self] /\ query' = query + 1 /\ query < MaxQueries
        /\ result' = [c \in DOMAIN batch |-> 0] /\ c0' = 0 /\ pc' = "pose" /\ world' = world
    BY <2>1 DEF Query, Goto
  <2>4. contain_skip' = {p \in (DOMAIN Links) \X (DOMAIN Objects) : Allowed(p[1], p[2], acm)}
        /\ env_allowed' = EnvAllowed(contain_skip')
    BY <2>1 DEF Query
  <2>5. call.batch' = batch /\ call.acm' = acm /\ n' = Len(batch) /\ n' \in Nat
    BY <2>2, <2>3 DEF n
  <2>6. contain_skip' = {p \in (DOMAIN Links) \X (DOMAIN Objects) : Allowed(p[1], p[2], call.acm')}
    BY <2>4, <2>5
  <2>7. query' \in 0 .. MaxQueries /\ world' \in Worlds /\ pc' \in Stages /\ c0' \in 0 .. n'
    BY <2>2, <2>3, <2>5 DEF TInv, HostInv, Stages
  <2>8. result' \in [DOMAIN call.batch' -> {0, 1}]
    BY <2>3, <2>5
  <2>. QED
    BY <2>2, <2>4, <2>5, <2>6, <2>7, <2>8 DEF HostInv
<1>2. CASE HostStep \/ Throw
  <2>1. UNCHANGED <<world, query, call, env_allowed, contain_skip>>
    BY <1>2 DEF HostStep, Throw, Pose, UploadPoses, Clear, UploadMask, Launch, ReadBack, SelfPass, Join, Contain
  <2>2. pc' \in Stages
    BY <1>2 DEF TInv, HostInv, Stages, Goto, HostStep, Throw, Pose, UploadPoses, Clear, UploadMask, Launch, ReadBack,
                SelfPass, Join, Contain
  <2>3. result' \in [DOMAIN call.batch -> {0, 1}]
    <3>1. DOMAIN result = DOMAIN call.batch /\ \A c \in DOMAIN result : result[c] \in {0, 1}
      BY DEF TInv, HostInv
    <3>2. CASE SelfPass
      BY <3>1, <3>2 DEF SelfPass
    <3>3. CASE Join
      <4>1. \A c \in DOMAIN result : (IF DoGpu /\ h_hits[c] # 0 THEN 1 ELSE result[c]) \in {0, 1}
        BY <3>1
      <4>. QED
        BY <3>1, <3>3, <4>1 DEF Join
    <3>4. CASE Contain
      <4>1. \A c \in DOMAIN result : (IF DoContain /\ InsideOf(call.batch[c]) THEN 1 ELSE result[c]) \in {0, 1}
        BY <3>1
      <4>. QED
        BY <3>1, <3>4, <4>1 DEF Contain
    <3>5. CASE UNCHANGED result
      BY <3>5 DEF TInv, HostInv
    <3>. QED
      BY <1>2, <3>2, <3>3, <3>4, <3>5 DEF HostStep, Throw, Pose, UploadPoses, Clear, UploadMask, Launch, ReadBack
  <2>4. c0' \in 0 .. n
    <3>1. n \in Nat /\ c0 \in 0 .. n
      BY DEF TInv, HostInv, n
    <3>2. CASE Launch
      <4>1. RayData # <<>>
        BY <3>2 DEF Launch, TInv, StageInv, DoGpu
      <4>2. Len(RayData) \in Nat \ {0} /\ MaxThreads \in Nat \ {0}
        BY <4>1, RaysUploaded, OptixAssumption
      <4>3. MaxConfigs \in Nat
        <5>1. MaxThreads \div Len(RayData) \in Nat
          BY <4>2, DivisionType
        <5>. QED
          BY <5>1 DEF MaxConfigs
      <4>4. Smaller(MaxConfigs, n - c0) \in Nat /\ Smaller(MaxConfigs, n - c0) <= n - c0
        BY <3>1, <4>3 DEF Smaller
      <4>5. c0' = c0 + Smaller(MaxConfigs, n - c0)
        BY <3>2 DEF Launch
      <4>. QED
        BY <3>1, <4>4, <4>5
    <3>3. CASE UNCHANGED c0
      BY <3>1, <3>3
    <3>. QED
      BY <1>2, <3>2, <3>3 DEF HostStep, Throw, Pose, UploadPoses, Clear, UploadMask, ReadBack, SelfPass, Join, Contain
  <2>5. n' = n
    BY <2>1 DEF n
  <2>. QED
    BY <2>1, <2>2, <2>3, <2>4, <2>5 DEF TInv, HostInv
<1>3. CASE UNCHANGED <<world, host>>
  BY <1>3 DEF TInv, HostInv, host, n
<1>4. CASE DeviceStep
  <2>1. UNCHANGED <<world, host>>
    BY <1>4 DEF DeviceStep, CopyPoses, ZeroHits, CopyParams, BeginLaunch, EndLaunch, CopyHits, Look, Trace
  <2>. QED
    BY <1>3, <2>1
<1>. QED
  BY <1>1, <1>2, <1>3, <1>4 DEF Next, vars

(* Buffers only grow, and hold what may be written there. *)
BuffersGrow ==
  /\ Len(h_pose) <= Len(h_pose') /\ Len(d_pose) <= Len(d_pose')
  /\ Len(h_hits) <= Len(h_hits') /\ Len(d_out) <= Len(d_out')

\* A command at the front is one of the stream.
LEMMA FirstCommand ==
  ASSUME TInv, stream # <<>>
  PROVE  /\ 1 \in DOMAIN stream /\ stream[1] \in Commands
         /\ stream[1].do = "copy_poses" => stream[1].size \in Nat /\ stream[1].size <= Len(h_pose) /\ stream[1].size <= Len(d_pose)
         /\ stream[1].do \in {"clear", "copy_hits"} => stream[1].size \in Nat /\ stream[1].size <= Len(d_out)
         /\ stream[1].do = "copy_hits" => stream[1].size <= Len(h_hits)
         /\ stream[1].do = "copy_params" => stream[1].p \in Param
<1>1. stream \in Seq(Commands)
  BY DEF TInv, StreamInv
<1>2. 1 \in DOMAIN stream /\ stream[1] \in Commands
  BY <1>1
<1>3. StreamFits
  BY DEF TInv, StreamInv
<1>. QED
  BY <1>2, <1>3, CommandFields DEF StreamFits

LEMMA BuffersTyped ==
  ASSUME TInv, [Next]_vars
  PROVE  BufferInv' /\ BuffersGrow
<1>1. /\ h_pose \in Seq(PoseValue) /\ d_pose \in Seq(PoseValue)
      /\ h_hits \in Seq(HitValue) /\ d_out \in Seq(HitValue)
      /\ d_allowed \subseteq 1 .. NumSlots * Len(Objects)
      /\ JunkPose \in PoseValue /\ JunkHit \in HitValue
      /\ Len(h_pose) \in Nat /\ Len(d_pose) \in Nat /\ Len(h_hits) \in Nat /\ Len(d_out) \in Nat
  BY DEF TInv, BufferInv, PoseValue, HitValue
<1>2. n \in Nat /\ NumSlots \in Nat /\ n * NumSlots \in Nat
  BY SlotsOfLinks DEF TInv, HostInv, n
<1>3. CASE UNCHANGED <<h_pose, h_hits, d_pose, d_out, d_allowed>>
  BY <1>1, <1>3 DEF BufferInv, BuffersGrow
<1>4. CASE Pose
  <2>1. CASE DoGpu
    <3> DEFINE grown == Grow(h_pose, n * NumSlots, JunkPose)
               entries == [i \in 1 .. n * NumSlots |-> PoseEntry(i)]
    <3>1. grown \in Seq(PoseValue) /\ n * NumSlots <= Len(grown) /\ Len(h_pose) <= Len(grown)
      BY <1>1, <1>2, GrowType
    <3>2. \A i \in 1 .. n * NumSlots : entries[i] \in PoseValue
      BY <2>1, PoseEntryType DEF TInv, DoGpu
    <3>3. h_pose' = Overwrite(grown, entries, n * NumSlots)
      BY <1>4, <2>1 DEF Pose
    <3> HIDE DEF grown, entries
    <3>4. h_pose' \in Seq(PoseValue) /\ Len(h_pose') = Len(grown)
      BY <1>2, <3>1, <3>2, <3>3, OverwriteType
    <3>. QED
      BY <1>1, <1>4, <3>1, <3>4 DEF Pose, device, BufferInv, BuffersGrow
  <2>2. CASE ~ DoGpu
    BY <1>3, <1>4, <2>2 DEF Pose, device
  <2>. QED
    BY <2>1, <2>2
<1>5. CASE UploadPoses
  <2>1. d_pose' = Grow(d_pose, n * NumSlots, JunkPose)
    BY <1>5 DEF UploadPoses
  <2>2. d_pose' \in Seq(PoseValue) /\ Len(d_pose) <= Len(d_pose')
    BY <1>1, <1>2, <2>1, GrowType
  <2>. QED
    BY <1>1, <1>5, <2>2 DEF UploadPoses, BufferInv, BuffersGrow
<1>6. CASE Clear
  <2>1. d_out' = Grow(d_out, n, JunkHit)
    BY <1>6 DEF Clear
  <2>2. d_out' \in Seq(HitValue) /\ Len(d_out) <= Len(d_out')
    BY <1>1, <1>2, <2>1, GrowType
  <2>. QED
    BY <1>1, <1>6, <2>2 DEF Clear, BufferInv, BuffersGrow
<1>7. CASE ReadBack
  <2>1. h_hits' = Grow(h_hits, n, JunkHit)
    BY <1>7 DEF ReadBack
  <2>2. h_hits' \in Seq(HitValue) /\ Len(h_hits) <= Len(h_hits')
    BY <1>1, <1>2, <2>1, GrowType
  <2>. QED
    BY <1>1, <1>7, <2>2 DEF ReadBack, device, BufferInv, BuffersGrow
<1>8. CASE UploadMask
  <2>1. env_allowed \subseteq 1 .. NumSlots * Len(Objects)
    BY MaskType DEF TInv, HostInv
  <2>2. d_allowed' \subseteq 1 .. NumSlots * Len(Objects)
    BY <1>1, <1>8, <2>1 DEF UploadMask
  <2>. QED
    BY <1>1, <1>8, <2>2 DEF UploadMask, device, BufferInv, BuffersGrow
<1>9. CASE CopyPoses
  <2> DEFINE m == stream[1].size
  <2>1. m \in Nat /\ m <= Len(h_pose) /\ m <= Len(d_pose) /\ d_pose' = Overwrite(d_pose, h_pose, m)
    BY <1>9, FirstCommand DEF CopyPoses, Command
  <2>2. \A i \in 1 .. m : h_pose[i] \in PoseValue
    BY <1>1, <2>1
  <2> HIDE DEF m
  <2>3. d_pose' \in Seq(PoseValue) /\ Len(d_pose') = Len(d_pose)
    BY <1>1, <2>1, <2>2, OverwriteType
  <2>. QED
    BY <1>1, <1>9, <2>3 DEF CopyPoses, BufferInv, BuffersGrow
<1>10. CASE ZeroHits
  <2>1. d_out' \in Seq(HitValue) /\ Len(d_out') = Len(d_out)
    <3>1. d_out' = [i \in 1 .. Len(d_out) |-> IF i <= stream[1].size THEN 0 ELSE d_out[i]]
      BY <1>1, <1>10 DEF ZeroHits
    <3>2. \A i \in 1 .. Len(d_out) : (IF i <= stream[1].size THEN 0 ELSE d_out[i]) \in HitValue
      BY <1>1 DEF HitValue
    <3>. QED
      BY <1>1, <3>1, <3>2
  <2>. QED
    BY <1>1, <1>10, <2>1 DEF ZeroHits, BufferInv, BuffersGrow
<1>11. CASE CopyHits
  <2> DEFINE m == stream[1].size
  <2>1. m \in Nat /\ m <= Len(d_out) /\ m <= Len(h_hits) /\ h_hits' = Overwrite(h_hits, d_out, m)
    BY <1>11, FirstCommand DEF CopyHits, Command
  <2>2. \A i \in 1 .. m : d_out[i] \in HitValue
    BY <1>1, <2>1
  <2> HIDE DEF m
  <2>3. h_hits' \in Seq(HitValue) /\ Len(h_hits') = Len(h_hits)
    BY <1>1, <2>1, <2>2, OverwriteType
  <2>. QED
    BY <1>1, <1>11, <2>3 DEF CopyHits, device, BufferInv, BuffersGrow
<1>12. CASE \E t \in Threads : Trace(t)
  <2>1. PICK t \in Threads : Trace(t)
    BY <1>12
  <2>2. d_out' = d_out \/ d_out' = [d_out EXCEPT ![Out(t[2])] = 1]
    BY <2>1 DEF Trace
  <2>3. d_out' \in Seq(HitValue) /\ Len(d_out') = Len(d_out)
    <3> DEFINE o == Out(t[2])
    <3>1. d_out' = d_out \/ d_out' = [i \in 1 .. Len(d_out) |-> IF i = o THEN 1 ELSE d_out[i]]
      BY <1>1, <2>2
    <3> HIDE DEF o
    <3>2. \A i \in 1 .. Len(d_out) : (IF i = o THEN 1 ELSE d_out[i]) \in HitValue
      BY <1>1 DEF HitValue
    <3>. QED
      BY <1>1, <3>1, <3>2
  <2>. QED
    BY <1>1, <2>1, <2>3 DEF Trace, BufferInv, BuffersGrow
<1>13. CASE \E batch \in Batches, acm \in Acms, self \in BOOLEAN : Query(batch, acm, self)
  BY <1>3, <1>13 DEF Query, device
<1>14. CASE Launch \/ SelfPass \/ Join \/ Contain \/ Throw \/ UNCHANGED vars
  BY <1>3, <1>14 DEF Launch, SelfPass, Join, Contain, Throw, vars, device
<1>15. CASE CopyParams \/ BeginLaunch \/ EndLaunch \/ \E t \in Threads : Look(t)
  BY <1>3, <1>15 DEF CopyParams, BeginLaunch, EndLaunch, Look, device
<1>. QED
  BY <1>4, <1>5, <1>6, <1>7, <1>8, <1>9, <1>10, <1>11, <1>12, <1>13, <1>14, <1>15 DEF Next, HostStep, DeviceStep

LEMMA ParamsGrow ==
  ASSUME query \in Nat, query' \in Nat, query <= query'
  PROVE  Param \subseteq Param' /\ Commands \subseteq Commands'
<1>1. 0 .. query \subseteq 0 .. query'
  OBVIOUS
<1>2. Param \subseteq Param'
  BY <1>1 DEF Param
<1>3. Loads \subseteq Loads' /\ Copies = Copies'
  BY <1>2 DEF Loads, Copies
<1>. QED
  BY <1>2, <1>3 DEF Commands

LEMMA StreamKept ==
  ASSUME TInv, query' \in Nat, query <= query', stream' = stream, d_params' = d_params, BuffersGrow, BufferInv'
  PROVE  StreamInv'
<1>1. Param \subseteq Param' /\ Commands \subseteq Commands'
  BY ParamsGrow DEF TInv, HostInv
<1>2. stream \in Seq(Commands) /\ \A i \in DOMAIN stream : stream[i] \in Commands
  BY DEF TInv, StreamInv
<1>3. stream' \in Seq(Commands')
  BY <1>1, <1>2
<1>4. /\ Len(h_pose) \in Nat /\ Len(d_pose) \in Nat /\ Len(h_hits) \in Nat /\ Len(d_out) \in Nat
      /\ Len(h_pose') \in Nat /\ Len(d_pose') \in Nat /\ Len(h_hits') \in Nat /\ Len(d_out') \in Nat
  BY DEF TInv, BufferInv
<1>5. ASSUME NEW i \in DOMAIN stream
      PROVE  /\ stream[i].do = "copy_poses" => stream[i].size <= Len(h_pose') /\ stream[i].size <= Len(d_pose')
             /\ stream[i].do \in {"clear", "copy_hits"} => stream[i].size <= Len(d_out')
             /\ stream[i].do = "copy_hits" => stream[i].size <= Len(h_hits')
  <2>1. stream[i].do \in {"copy_poses", "clear", "copy_hits"} => stream[i].size \in Nat
    BY <1>2, CommandFields
  <2>2. StreamFits
    BY DEF TInv, StreamInv
  <2>. QED
    BY <1>4, <2>1, <2>2 DEF StreamFits, BuffersGrow
<1>6. StreamFits'
  BY <1>5 DEF StreamFits
<1>7. Paired'
  <2>1. Paired
    BY DEF TInv, StreamInv
  <2>. QED
    BY <1>1, <2>1 DEF Paired
<1>. QED
  BY <1>3, <1>6, <1>7 DEF StreamInv

LEMMA StreamPopped ==
  ASSUME TInv, query' = query, stream # <<>>, stream' = Tail(stream), BuffersGrow, BufferInv',
         IF stream[1].do = "copy_params" THEN d_params' = stream[1].p ELSE d_params' = d_params
  PROVE  StreamInv'
<1>1. Param' = Param /\ Commands' = Commands
  BY DEF Param, Commands, Loads, Copies
<1>2. stream \in Seq(Commands)
  BY DEF TInv, StreamInv
<1>3. /\ Len(stream) \in Nat \ {0} /\ stream[1] \in Commands
      /\ stream' \in Seq(Commands) /\ Len(stream') = Len(stream) - 1
      /\ \A i \in 1 .. Len(stream') : i + 1 \in 1 .. Len(stream) /\ stream'[i] = stream[i + 1]
  BY <1>2, PopFacts
<1>4. DOMAIN stream = 1 .. Len(stream) /\ DOMAIN stream' = 1 .. Len(stream')
  BY <1>2, <1>3
<1>5. /\ Len(h_pose) \in Nat /\ Len(d_pose) \in Nat /\ Len(h_hits) \in Nat /\ Len(d_out) \in Nat
      /\ Len(h_pose') \in Nat /\ Len(d_pose') \in Nat /\ Len(h_hits') \in Nat /\ Len(d_out') \in Nat
  BY DEF TInv, BufferInv
<1>6. ASSUME NEW i \in DOMAIN stream'
      PROVE  /\ stream'[i].do = "copy_poses" => stream'[i].size <= Len(h_pose') /\ stream'[i].size <= Len(d_pose')
             /\ stream'[i].do \in {"clear", "copy_hits"} => stream'[i].size <= Len(d_out')
             /\ stream'[i].do = "copy_hits" => stream'[i].size <= Len(h_hits')
  <2>1. i + 1 \in DOMAIN stream /\ stream'[i] = stream[i + 1] /\ stream[i + 1] \in Commands
    BY <1>2, <1>3, <1>4
  <2>2. stream[i + 1].do \in {"copy_poses", "clear", "copy_hits"} => stream[i + 1].size \in Nat
    BY <2>1, CommandFields
  <2>3. StreamFits
    BY DEF TInv, StreamInv
  <2>. QED
    BY <1>5, <2>1, <2>2, <2>3 DEF StreamFits, BuffersGrow
<1>7. StreamFits'
  BY <1>6 DEF StreamFits
<1>8. ASSUME NEW i \in DOMAIN stream'
      PROVE  /\ stream'[i].do = "copy_params" => i + 1 \in DOMAIN stream' /\ stream'[i + 1].do = "launch"
             /\ stream'[i].do = "launch" => IF i = 1 THEN d_params' \in Param ELSE stream'[i - 1].do = "copy_params"
  <2>1. i \in 1 .. Len(stream') /\ i \in Nat /\ i + 1 \in DOMAIN stream /\ stream'[i] = stream[i + 1]
    BY <1>3, <1>4
  <2>2. /\ stream[i + 1].do = "copy_params" => i + 2 \in DOMAIN stream /\ stream[i + 2].do = "launch"
        /\ stream[i + 1].do = "launch" => stream[i].do = "copy_params"
    <3>1. (i + 1) + 1 = i + 2 /\ (i + 1) - 1 = i /\ i + 1 # 1
      BY <2>1
    <3>2. Paired
      BY DEF TInv, StreamInv
    <3>. QED
      BY <2>1, <3>1, <3>2 DEF Paired
  <2>3. stream'[i].do = "copy_params" => i + 1 \in DOMAIN stream' /\ stream'[i + 1].do = "launch"
    <3>1. i + 2 \in DOMAIN stream => i + 1 \in 1 .. Len(stream')
      BY <1>3, <1>4, <2>1
    <3>2. i + 1 \in 1 .. Len(stream') => stream'[i + 1] = stream[(i + 1) + 1] /\ (i + 1) + 1 = i + 2
      BY <1>3, <2>1
    <3>. QED
      BY <1>4, <2>1, <2>2, <3>1, <3>2
  <2>4. ASSUME stream'[i].do = "launch"
        PROVE  IF i = 1 THEN d_params' \in Param ELSE stream'[i - 1].do = "copy_params"
    <3>1. stream[i].do = "copy_params"
      BY <2>1, <2>2, <2>4
    <3>2. CASE i = 1
      <4>1. d_params' = stream[1].p
        BY <3>1, <3>2
      <4>. QED
        BY <1>3, <3>1, <3>2, <4>1, CommandFields
    <3>3. CASE i # 1
      <4>1. i - 1 \in 1 .. Len(stream') /\ (i - 1) + 1 = i
        BY <1>3, <2>1, <3>3
      <4>2. stream'[i - 1] = stream[(i - 1) + 1]
        BY <1>3, <4>1
      <4>. QED
        BY <3>1, <3>3, <4>1, <4>2
    <3>. QED
      BY <3>2, <3>3
  <2>. QED
    BY <2>3, <2>4
<1>9. Paired'
  BY <1>1, <1>8 DEF Paired
<1>. QED
  BY <1>1, <1>3, <1>7, <1>9 DEF StreamInv

LEMMA StreamPushed ==
  ASSUME TInv, query' = query, d_params' = d_params, BuffersGrow, BufferInv',
         NEW c \in Copies, stream' = Append(stream, c),
         c.do = "copy_poses" => c.size <= Len(h_pose') /\ c.size <= Len(d_pose'),
         c.do \in {"clear", "copy_hits"} => c.size <= Len(d_out'),
         c.do = "copy_hits" => c.size <= Len(h_hits')
  PROVE  StreamInv'
<1>1. Param' = Param /\ Commands' = Commands
  BY DEF Param, Commands, Loads, Copies
<1>2. stream \in Seq(Commands) /\ c \in Commands
  BY DEF TInv, StreamInv, Commands
<1>3. /\ stream' \in Seq(Commands) /\ Len(stream') = Len(stream) + 1 /\ Len(stream) \in Nat
      /\ \A i \in 1 .. Len(stream) : stream'[i] = stream[i]
      /\ stream'[Len(stream) + 1] = c
  BY <1>2, PushFacts
<1>4. DOMAIN stream = 1 .. Len(stream) /\ DOMAIN stream' = 1 .. Len(stream')
  BY <1>2, <1>3
<1>5. /\ Len(h_pose) \in Nat /\ Len(d_pose) \in Nat /\ Len(h_hits) \in Nat /\ Len(d_out) \in Nat
      /\ Len(h_pose') \in Nat /\ Len(d_pose') \in Nat /\ Len(h_hits') \in Nat /\ Len(d_out') \in Nat
  BY DEF TInv, BufferInv
<1>6. \A i \in DOMAIN stream' : (i \in DOMAIN stream /\ stream'[i] = stream[i]) \/ (i = Len(stream) + 1 /\ stream'[i] = c)
  BY <1>3, <1>4
<1>7. ASSUME NEW i \in DOMAIN stream'
      PROVE  /\ stream'[i].do = "copy_poses" => stream'[i].size <= Len(h_pose') /\ stream'[i].size <= Len(d_pose')
             /\ stream'[i].do \in {"clear", "copy_hits"} => stream'[i].size <= Len(d_out')
             /\ stream'[i].do = "copy_hits" => stream'[i].size <= Len(h_hits')
  <2>1. CASE i \in DOMAIN stream /\ stream'[i] = stream[i]
    <3>1. stream[i].do \in {"copy_poses", "clear", "copy_hits"} => stream[i].size \in Nat
      BY <1>2, <2>1, CommandFields
    <3>2. StreamFits
      BY DEF TInv, StreamInv
    <3>. QED
      BY <1>5, <2>1, <3>1, <3>2 DEF StreamFits, BuffersGrow
  <2>2. CASE stream'[i] = c
    BY <2>2
  <2>. QED
    BY <1>6, <2>1, <2>2
<1>8. StreamFits'
  BY <1>7 DEF StreamFits
<1>9. ASSUME NEW i \in DOMAIN stream'
      PROVE  /\ stream'[i].do = "copy_params" => i + 1 \in DOMAIN stream' /\ stream'[i + 1].do = "launch"
             /\ stream'[i].do = "launch" => IF i = 1 THEN d_params' \in Param ELSE stream'[i - 1].do = "copy_params"
  <2>1. CASE i \in DOMAIN stream /\ stream'[i] = stream[i]
    <3>1. Paired
      BY DEF TInv, StreamInv
    <3>2. \A j \in DOMAIN stream : j \in DOMAIN stream' /\ stream'[j] = stream[j]
      BY <1>3, <1>4
    <3>3. i # 1 => i - 1 \in DOMAIN stream
      BY <1>4, <2>1, <1>3
    <3>. QED
      BY <2>1, <3>1, <3>2, <3>3 DEF Paired
  <2>2. CASE stream'[i] = c
    BY <2>2 DEF Copies
  <2>. QED
    BY <1>6, <2>1, <2>2
<1>10. Paired'
  BY <1>1, <1>9 DEF Paired
<1>. QED
  BY <1>1, <1>3, <1>8, <1>10 DEF StreamInv

LEMMA ParamsType ==
  ASSUME TInv, NEW size \in Nat
  PROVE  Params(size) \in Param
<1>1. query \in 0 .. query /\ c0 \in Nat /\ c0 * NumSlots \in Nat /\ (env_allowed # {}) \in BOOLEAN
  BY SlotsOfLinks DEF TInv, HostInv, n
<1>. QED
  BY <1>1 DEF Params, Param

\* The chunk about to be launched.
LEMMA ChunkSize ==
  ASSUME TInv, pc = "launch", c0 < n
  PROVE  Smaller(MaxConfigs, n - c0) \in Nat /\ c0 + Smaller(MaxConfigs, n - c0) <= n
<1>1. n \in Nat /\ c0 \in 0 .. n
  BY DEF TInv, HostInv, n
<1>2. RayData # <<>>
  BY DEF TInv, StageInv, DoGpu
<1>3. Len(RayData) \in Nat \ {0} /\ MaxThreads \in Nat \ {0}
  BY <1>2, RaysUploaded, OptixAssumption
<1>4. MaxConfigs \in Nat
  <2>1. MaxThreads \div Len(RayData) \in Nat
    BY <1>3, DivisionType
  <2>. QED
    BY <2>1 DEF MaxConfigs
<1>. QED
  BY <1>1, <1>4 DEF Smaller

LEMMA StreamLaunched ==
  ASSUME TInv, Launch
  PROVE  StreamInv'
<1> DEFINE c == [do |-> "copy_params", p |-> Params(Smaller(MaxConfigs, n - c0))]
           d == [do |-> "launch"]
<1>1. Param' = Param /\ Commands' = Commands
  BY DEF Launch, Param, Commands, Loads, Copies
<1>2. stream \in Seq(Commands) /\ c \in Commands /\ d \in Commands
  <2>1. Params(Smaller(MaxConfigs, n - c0)) \in Param
    BY ChunkSize, ParamsType DEF Launch
  <2>. QED
    BY <2>1 DEF TInv, StreamInv, Commands, Loads
<1>3. stream' = stream \o <<c, d>>
  BY DEF Launch
<1>4. UNCHANGED <<h_pose, h_hits, d_pose, d_out, d_params>>
  BY DEF Launch, device
<1> DEFINE L == Len(stream)
<1>5. c.do = "copy_params" /\ d.do = "launch"
  OBVIOUS
<1> HIDE DEF c, d
<1>6. /\ stream' \in Seq(Commands) /\ Len(stream') = L + 2 /\ L \in Nat
      /\ \A i \in 1 .. L : stream'[i] = stream[i]
      /\ stream'[L + 1] = c /\ stream'[L + 2] = d
  BY <1>2, <1>3, PushTwoFacts
<1>7. DOMAIN stream = 1 .. L /\ DOMAIN stream' = 1 .. L + 2
  BY <1>2, <1>6
<1> HIDE DEF L
<1>8. \A i \in DOMAIN stream' : (i \in DOMAIN stream /\ stream'[i] = stream[i]) \/ (i = L + 1 /\ stream'[i] = c) \/ (i = L + 2 /\ stream'[i] = d)
  BY <1>6, <1>7
<1>9. StreamFits'
  <2>1. StreamFits
    BY DEF TInv, StreamInv
  <2>. QED
    BY <1>4, <1>5, <1>8, <2>1 DEF StreamFits
<1>10. ASSUME NEW i \in DOMAIN stream'
       PROVE  /\ stream'[i].do = "copy_params" => i + 1 \in DOMAIN stream' /\ stream'[i + 1].do = "launch"
              /\ stream'[i].do = "launch" => IF i = 1 THEN d_params' \in Param ELSE stream'[i - 1].do = "copy_params"
  <2>1. CASE i \in DOMAIN stream /\ stream'[i] = stream[i]
    <3>1. Paired
      BY DEF TInv, StreamInv
    <3>2. \A j \in DOMAIN stream : j \in DOMAIN stream' /\ stream'[j] = stream[j]
      BY <1>6, <1>7
    <3>3. i # 1 => i - 1 \in DOMAIN stream
      BY <1>6, <1>7, <2>1
    <3>. QED
      BY <1>4, <2>1, <3>1, <3>2, <3>3 DEF Paired
  <2>2. CASE i = L + 1 /\ stream'[i] = c
    <3>1. (L + 1) + 1 = L + 2 /\ L + 2 \in DOMAIN stream'
      BY <1>6, <1>7
    <3>. QED
      BY <1>5, <1>6, <2>2, <3>1
  <2>3. CASE i = L + 2 /\ stream'[i] = d
    <3>1. (L + 2) - 1 = L + 1 /\ L + 2 # 1
      BY <1>6
    <3>. QED
      BY <1>5, <1>6, <2>3, <3>1
  <2>. QED
    BY <1>8, <2>1, <2>2, <2>3
<1>11. Paired'
  BY <1>1, <1>10 DEF Paired
<1>. QED
  BY <1>1, <1>6, <1>9, <1>11 DEF StreamInv

LEMMA StreamTyped ==
  ASSUME TInv, [Next]_vars
  PROVE  StreamInv'
<1>1. BufferInv' /\ BuffersGrow
  BY BuffersTyped
<1>2. n \in Nat /\ NumSlots \in Nat /\ n * NumSlots \in Nat /\ query \in Nat /\ query <= query
  BY SlotsOfLinks DEF TInv, HostInv, n
<1>3. /\ h_pose \in Seq(PoseValue) /\ d_pose \in Seq(PoseValue) /\ h_hits \in Seq(HitValue) /\ d_out \in Seq(HitValue)
      /\ JunkPose \in PoseValue /\ JunkHit \in HitValue
  BY DEF TInv, BufferInv, PoseValue, HitValue
<1>4. CASE UploadPoses
  <2> DEFINE c == [do |-> "copy_poses", size |-> n * NumSlots]
  <2>1. c \in Copies /\ c.do = "copy_poses" /\ c.size = n * NumSlots
    BY <1>2 DEF Copies
  <2>2. d_pose' = Grow(d_pose, n * NumSlots, JunkPose) /\ h_pose' = h_pose
    BY <1>4 DEF UploadPoses
  <2>3. n * NumSlots <= Len(d_pose')
    BY <1>2, <1>3, <2>2, GrowType
  <2>4. n * NumSlots <= Len(h_pose')
    BY <1>4, <2>2 DEF UploadPoses, TInv, StageInv
  <2>5. stream' = Append(stream, c) /\ UNCHANGED <<query, d_params>>
    BY <1>4 DEF UploadPoses
  <2> HIDE DEF c
  <2>. QED
    BY <1>1, <2>1, <2>3, <2>4, <2>5, StreamPushed
<1>5. CASE Clear
  <2> DEFINE c == [do |-> "clear", size |-> n]
  <2>1. c \in Copies /\ c.do = "clear" /\ c.size = n
    BY <1>2 DEF Copies
  <2>2. d_out' = Grow(d_out, n, JunkHit)
    BY <1>5 DEF Clear
  <2>3. n <= Len(d_out')
    BY <1>2, <1>3, <2>2, GrowType
  <2>4. stream' = Append(stream, c) /\ UNCHANGED <<query, d_params>>
    BY <1>5 DEF Clear
  <2> HIDE DEF c
  <2>. QED
    BY <1>1, <2>1, <2>3, <2>4, StreamPushed
<1>6. CASE ReadBack
  <2> DEFINE c == [do |-> "copy_hits", size |-> n]
  <2>1. c \in Copies /\ c.do = "copy_hits" /\ c.size = n
    BY <1>2 DEF Copies
  <2>2. h_hits' = Grow(h_hits, n, JunkHit) /\ d_out' = d_out
    BY <1>6 DEF ReadBack, device
  <2>3. n <= Len(h_hits')
    BY <1>2, <1>3, <2>2, GrowType
  <2>4. n <= Len(d_out')
    BY <1>6, <2>2 DEF ReadBack, TInv, StageInv
  <2>5. stream' = Append(stream, c) /\ UNCHANGED <<query, d_params>>
    BY <1>6 DEF ReadBack, device
  <2> HIDE DEF c
  <2>. QED
    BY <1>1, <2>1, <2>3, <2>4, <2>5, StreamPushed
<1>7. CASE Launch
  BY <1>7, StreamLaunched
<1>8. CASE \E batch \in Batches, acm \in Acms, self \in BOOLEAN : Query(batch, acm, self)
  <2>1. query' = query + 1 /\ UNCHANGED <<stream, d_params>>
    BY <1>8 DEF Query, device
  <2>2. query' \in Nat /\ query <= query'
    BY <1>2, <2>1
  <2>. QED
    BY <1>1, <2>1, <2>2, StreamKept
<1>9. CASE UNCHANGED <<query, stream, d_params>>
  BY <1>1, <1>2, <1>9, StreamKept
<1>10. CASE Pose \/ UploadMask \/ SelfPass \/ Join \/ Contain \/ Throw \/ UNCHANGED vars
  BY <1>9, <1>10 DEF Pose, UploadMask, SelfPass, Join, Contain, Throw, vars, device, host
<1>11. CASE EndLaunch \/ \E t \in Threads : Look(t) \/ Trace(t)
  BY <1>9, <1>11 DEF EndLaunch, Look, Trace, device, host
<1>12. CASE CopyPoses \/ ZeroHits \/ BeginLaunch \/ CopyHits
  <2>1. stream # <<>> /\ stream' = Tail(stream) /\ UNCHANGED <<query, d_params>> /\ stream[1].do # "copy_params"
    BY <1>12 DEF CopyPoses, ZeroHits, BeginLaunch, CopyHits, Command, device, host
  <2>. QED
    BY <1>1, <2>1, StreamPopped
<1>13. CASE CopyParams
  <2>1. stream # <<>> /\ stream' = Tail(stream) /\ query' = query /\ d_params' = stream[1].p /\ stream[1].do = "copy_params"
    BY <1>13 DEF CopyParams, Command, host
  <2>. QED
    BY <1>1, <2>1, StreamPopped
<1>. QED
  BY <1>4, <1>5, <1>6, <1>7, <1>8, <1>10, <1>11, <1>12, <1>13 DEF Next, HostStep, DeviceStep

(* What a thread's step does to the launch it is part of. *)
LEMMA ThreadSteps ==
  ASSUME DeviceInv, launch # None, NEW t, Look(t) \/ Trace(t)
  PROVE  /\ launch' = [p |-> launch'.p, todo |-> launch'.todo, tracing |-> launch'.tracing]
         /\ launch'.p = launch.p
         /\ launch'.todo \subseteq launch.todo
         /\ launch'.tracing \subseteq launch.tracing \cup {t}
         /\ Look(t) => /\ launch'.todo = launch.todo \ {t}
                       /\ launch'.tracing =
                            IF d_out[Out(t[2])] # 0 \/ PoseFor(t)[4] THEN launch.tracing ELSE launch.tracing \cup {t}
         /\ Trace(t) => launch'.todo = launch.todo /\ launch'.tracing = launch.tracing \ {t}
<1>1. launch = [p |-> launch.p, todo |-> launch.todo, tracing |-> launch.tracing]
  BY DEF DeviceInv
<1> DEFINE cur == IF d_out[Out(t[2])] # 0 \/ PoseFor(t)[4] THEN launch.tracing ELSE launch.tracing \cup {t}
<1>2. Look(t) => launch' = [p |-> launch.p, todo |-> launch.todo \ {t}, tracing |-> cur]
  <2>1. Look(t) => launch' = [launch EXCEPT !.todo = launch.todo \ {t}, !.tracing = cur]
    BY DEF Look
  <2> HIDE DEF cur
  <2>. QED
    BY <1>1, <2>1
<1>3. Trace(t) => launch' = [p |-> launch.p, todo |-> launch.todo, tracing |-> launch.tracing \ {t}]
  BY <1>1 DEF Trace
<1>4. launch.tracing \subseteq cur /\ cur \subseteq launch.tracing \cup {t}
  OBVIOUS
<1> HIDE DEF cur
<1>5. CASE Look(t)
  <2>1. launch'.p = launch.p /\ launch'.todo = launch.todo \ {t} /\ launch'.tracing = cur
    BY <1>2, <1>5
  <2>. QED
    BY <1>2, <1>3, <1>4, <1>5, <2>1 DEF cur
<1>6. CASE Trace(t)
  BY <1>2, <1>3, <1>6 DEF cur
<1>. QED
  BY <1>5, <1>6

LEMMA DeviceTyped ==
  ASSUME TInv, [Next]_vars
  PROVE  DeviceInv'
<1>1. DeviceInv /\ query \in Nat
  BY DEF TInv, HostInv
<1>2. CASE UNCHANGED <<query, d_params, launch>>
  <2>1. Param' = Param
    BY <1>2 DEF Param
  <2>. QED
    BY <1>1, <1>2, <2>1 DEF DeviceInv
<1>3. CASE \E batch \in Batches, acm \in Acms, self \in BOOLEAN : Query(batch, acm, self)
  <2>1. query' = query + 1 /\ UNCHANGED <<d_params, launch>>
    BY <1>3 DEF Query, device
  <2>2. Param \subseteq Param'
    <3>1. query' \in Nat /\ query <= query'
      BY <1>1, <2>1
    <3>. QED
      BY <1>1, <3>1, ParamsGrow
  <2>. QED
    BY <1>1, <2>1, <2>2 DEF DeviceInv
<1>4. CASE HostStep \/ Throw \/ UNCHANGED vars
  BY <1>2, <1>4 DEF HostStep, Throw, Pose, UploadPoses, Clear, UploadMask, Launch, ReadBack, SelfPass, Join, Contain,
             vars, device, host
<1>5. CASE CopyPoses \/ ZeroHits \/ CopyHits
  BY <1>2, <1>5 DEF CopyPoses, ZeroHits, CopyHits, device, host
<1>6. CASE CopyParams
  <2>1. d_params' \in Param /\ launch' = launch /\ query' = query
    BY <1>6, FirstCommand DEF CopyParams, Command, host
  <2>2. Param' = Param
    BY <2>1 DEF Param
  <2>. QED
    BY <1>1, <2>1, <2>2 DEF DeviceInv
<1>7. CASE BeginLaunch
  <2>1. d_params \in Param
    <3>1. 1 \in DOMAIN stream /\ stream[1].do = "launch"
      BY <1>7, FirstCommand DEF BeginLaunch, Command
    <3>2. Paired
      BY DEF TInv, StreamInv
    <3>. QED
      BY <3>1, <3>2 DEF Paired
  <2>2. /\ launch' = [p |-> d_params, todo |-> ThreadsOf(d_params), tracing |-> {}]
        /\ launch'.p = d_params /\ launch'.todo = ThreadsOf(d_params) /\ launch'.tracing = {}
    BY <1>7 DEF BeginLaunch, ThreadsOf
  <2>3. UNCHANGED <<query, d_params>> /\ Param' = Param
    BY <1>7 DEF BeginLaunch, host, device, Param
  <2>. QED
    BY <1>1, <2>1, <2>2, <2>3 DEF DeviceInv
<1>8. CASE EndLaunch
  <2>1. launch' = None /\ UNCHANGED <<query, d_params>> /\ Param' = Param
    BY <1>8 DEF EndLaunch, host, device, Param
  <2>. QED
    BY <1>1, <2>1 DEF DeviceInv
<1>9. CASE \E t \in Threads : Look(t) \/ Trace(t)
  <2>1. PICK t \in Threads : Look(t) \/ Trace(t)
    BY <1>9
  <2>2. launch # None /\ UNCHANGED <<query, d_params>> /\ Param' = Param
    BY <2>1 DEF Look, Trace, host, device, Param
  <2>3. t \in launch.todo \cup launch.tracing
    BY <2>2 DEF Threads
  <2>4. /\ launch' = [p |-> launch'.p, todo |-> launch'.todo, tracing |-> launch'.tracing]
        /\ launch'.p = launch.p /\ launch'.todo \subseteq launch.todo /\ launch'.tracing \subseteq launch.tracing \cup {t}
    BY <1>1, <2>1, <2>2, ThreadSteps
  <2>. QED
    BY <1>1, <2>2, <2>3, <2>4 DEF DeviceInv
<1>. QED
  BY <1>3, <1>4, <1>5, <1>6, <1>7, <1>8, <1>9 DEF Next, DeviceStep

LEMMA StageTyped ==
  ASSUME TInv, [Next]_vars
  PROVE  StageInv'
<1>1. StageInv /\ BufferInv /\ HostInv /\ BufferInv' /\ BuffersGrow
  BY BuffersTyped DEF TInv
<1>2. n \in Nat /\ NumSlots \in Nat /\ n * NumSlots \in Nat
  BY SlotsOfLinks DEF TInv, HostInv, n
<1>3. /\ Len(h_pose) \in Nat /\ Len(h_pose') \in Nat /\ Len(d_out) \in Nat /\ Len(d_out') \in Nat
      /\ h_pose \in Seq(PoseValue) /\ d_out \in Seq(HitValue) /\ JunkPose \in PoseValue /\ JunkHit \in HitValue
  BY <1>1 DEF BufferInv, PoseValue, HitValue
<1>4. CASE UNCHANGED host
  <2>1. UNCHANGED <<pc, n, DoGpu, c0>>
    BY <1>4 DEF host, n, DoGpu
  <2>. QED
    BY <1>1, <1>2, <1>3, <2>1 DEF StageInv, BuffersGrow
<1>5. CASE \E batch \in Batches, acm \in Acms, self \in BOOLEAN : Query(batch, acm, self)
  <2>1. pc' = "pose" /\ c0' = 0
    BY <1>5 DEF Query, Goto
  <2>. QED
    BY <2>1 DEF StageInv
<1>6. CASE Pose
  <2>1. CASE DoGpu
    <3>1. n * NumSlots <= Len(h_pose')
      <4> DEFINE grown == Grow(h_pose, n * NumSlots, JunkPose)
                 entries == [i \in 1 .. n * NumSlots |-> PoseEntry(i)]
      <4>1. grown \in Seq(PoseValue) /\ n * NumSlots <= Len(grown)
        BY <1>2, <1>3, GrowType
      <4>2. \A i \in 1 .. n * NumSlots : entries[i] \in PoseValue
        BY <1>1, <2>1, PoseEntryType DEF DoGpu
      <4>3. h_pose' = Overwrite(grown, entries, n * NumSlots)
        BY <1>6, <2>1 DEF Pose
      <4> HIDE DEF grown, entries
      <4>4. Len(h_pose') = Len(grown)
        BY <1>2, <4>1, <4>2, <4>3, OverwriteType
      <4>. QED
        BY <4>1, <4>4
    <3>2. pc = "pose" /\ pc' = "upload" /\ c0' = c0 /\ n' = n /\ DoGpu'
      BY <1>6, <2>1 DEF Pose, Goto, n, DoGpu
    <3>. QED
      BY <1>1, <3>1, <3>2 DEF StageInv
  <2>2. CASE ~ DoGpu
    <3>1. pc' = "self"
      BY <1>6, <2>2 DEF Pose, Goto
    <3>. QED
      BY <3>1 DEF StageInv
  <2>. QED
    BY <2>1, <2>2
<1>7. CASE UploadPoses
  <2>1. pc = "upload" /\ pc' = "clear" /\ c0' = c0 /\ n' = n /\ DoGpu' = DoGpu /\ h_pose' = h_pose
    BY <1>7 DEF UploadPoses, Goto, n, DoGpu
  <2>. QED
    BY <1>1, <2>1 DEF StageInv
<1>8. CASE Clear
  <2>1. pc = "clear" /\ pc' = "mask" /\ c0' = c0 /\ n' = n /\ DoGpu' = DoGpu
    BY <1>8 DEF Clear, Goto, n, DoGpu
  <2>2. n <= Len(d_out')
    BY <1>2, <1>3, <1>8, GrowType DEF Clear
  <2>. QED
    BY <1>1, <2>1, <2>2 DEF StageInv
<1>9. CASE UploadMask
  <2>1. pc = "mask" /\ pc' = "launch" /\ c0' = c0 /\ n' = n /\ DoGpu' = DoGpu /\ d_out' = d_out
    BY <1>9 DEF UploadMask, Goto, n, DoGpu, device
  <2>. QED
    BY <1>1, <2>1 DEF StageInv
<1>10. CASE Launch
  <2>1. pc = "launch" /\ pc' = "launch" /\ n' = n /\ DoGpu' = DoGpu /\ d_out' = d_out
    BY <1>10 DEF Launch, n, DoGpu, device
  <2>. QED
    BY <1>1, <2>1 DEF StageInv
<1>11. CASE ReadBack \/ SelfPass \/ Join \/ Contain \/ Throw
  <2>1. pc' \in {"self", "join", "contain", "returned", "idle"}
    BY <1>11 DEF ReadBack, SelfPass, Join, Contain, Throw, Goto
  <2>. QED
    BY <2>1 DEF StageInv
<1>12. CASE DeviceStep \/ UNCHANGED vars
  <2>1. UNCHANGED host
    BY <1>12 DEF DeviceStep, CopyPoses, ZeroHits, CopyParams, BeginLaunch, EndLaunch, CopyHits, Look, Trace, vars
  <2>. QED
    BY <1>4, <2>1
<1>. QED
  BY <1>5, <1>6, <1>7, <1>8, <1>9, <1>10, <1>11, <1>12 DEF Next, HostStep

LEMMA TypePreserved == TInv /\ [Next]_vars => TInv'
BY HostTyped, BuffersTyped, StreamTyped, DeviceTyped, StageTyped DEF TInv

(* Every reachable state of a workspace and its stream is well typed: whatever is
   enqueued, by this query or by one that threw, fits the buffers it reads and
   writes (DeviceBuffer::alloc, PinnedBuffer::reserve, query_batch). *)
THEOREM TypeCorrect == Spec => []TypeOK
<1>1. TInv => TypeOK
  <2> SUFFICES ASSUME TInv
               PROVE  TypeOK
    OBVIOUS
  <2>1. {h_pose, d_pose} \subseteq Seq(PoseValue) /\ {h_hits, d_out} \subseteq Seq(HitValue)
        /\ d_allowed \subseteq 1 .. NumSlots * Len(Objects)
        /\ Len(h_pose) \in Nat /\ Len(d_pose) \in Nat
    BY DEF TInv, BufferInv
  <2>2. \A i \in DOMAIN stream : stream[i].do = "copy_poses" => stream[i].size <= Smaller(Len(h_pose), Len(d_pose))
    BY <2>1 DEF TInv, StreamInv, StreamFits, Smaller
  <2>. QED
    BY <2>1, <2>2 DEF TypeOK, TInv, HostInv, StreamInv, StreamFits, Stages
<1>. QED
  BY InitTInv, TypePreserved, <1>1, PTL DEF Spec

-------------------------------------------------------------------------------
(* Each launch sees its own transforms *)

LEMMA Framed ==
  ASSUME UNCHANGED <<world, query, call>>
  PROVE  n' = n /\ Param' = Param /\ \A i : PoseEntry(i)' = PoseEntry(i)
<1>1. n' = n /\ Param' = Param
  BY DEF n, Param
<1>2. \A i : PoseEntry(i)' = PoseEntry(i)
  BY DEF PoseEntry
<1>. QED
  BY <1>1, <1>2

\* How the stream's places move when its first command goes to the device.
LEMMA Popped ==
  ASSUME TInv, stream # <<>>, stream' = Tail(stream)
  PROVE  /\ 1 \in DOMAIN stream /\ Len(stream) \in Nat \ {0} /\ Len(stream') = Len(stream) - 1
         /\ DOMAIN stream = 1 .. Len(stream) /\ DOMAIN stream' = 1 .. Len(stream) - 1
         /\ \A i \in DOMAIN stream' : i + 1 \in DOMAIN stream /\ stream'[i] = stream[i + 1]
<1>1. stream \in Seq(Commands)
  BY DEF TInv, StreamInv
<1>2. /\ Len(stream) \in Nat \ {0} /\ stream' \in Seq(Commands) /\ Len(stream') = Len(stream) - 1
      /\ \A i \in 1 .. Len(stream') : i + 1 \in 1 .. Len(stream) /\ stream'[i] = stream[i + 1]
  BY <1>1, PopFacts
<1>. QED
  BY <1>1, <1>2

LEMMA Pushed ==
  ASSUME TInv, NEW c \in Commands, stream' = Append(stream, c)
  PROVE  /\ Len(stream) \in Nat /\ Len(stream') = Len(stream) + 1
         /\ DOMAIN stream = 1 .. Len(stream) /\ DOMAIN stream' = 1 .. Len(stream) + 1
         /\ \A i \in DOMAIN stream : i \in DOMAIN stream' /\ stream'[i] = stream[i]
         /\ stream'[Len(stream) + 1] = c
<1>1. stream \in Seq(Commands)
  BY DEF TInv, StreamInv
<1>2. /\ stream' \in Seq(Commands) /\ Len(stream') = Len(stream) + 1 /\ Len(stream) \in Nat
      /\ \A i \in 1 .. Len(stream) : stream'[i] = stream[i]
      /\ stream'[Len(stream) + 1] = c
  BY <1>1, PushFacts
<1>. QED
  BY <1>1, <1>2

LEMMA PosePopped ==
  ASSUME TInv, PoseInv, UNCHANGED <<world, host, h_pose, d_allowed>>, stream # <<>>, stream' = Tail(stream),
         PosesIn(h_pose) /\ PosesIn(d_pose) => PosesIn(d_pose)',
         PosesIn(h_pose) /\ stream[1] = [do |-> "copy_poses", size |-> n * NumSlots] => PosesIn(d_pose)',
         d_params' = d_params \/ (stream[1].do = "copy_params" /\ d_params' = stream[1].p),
         launch' = launch \/ (d_params \in Param /\ launch'.p = d_params)
  PROVE  PoseInv'
<1>1. n' = n /\ Param' = Param /\ \A i : PoseEntry(i)' = PoseEntry(i)
  BY Framed DEF host
<1>2. UNCHANGED <<pc, query, env_allowed, h_pose, d_allowed>>
  BY DEF host
<1>3. /\ 1 \in DOMAIN stream /\ Len(stream) \in Nat \ {0} /\ Len(stream') = Len(stream) - 1
      /\ DOMAIN stream = 1 .. Len(stream) /\ DOMAIN stream' = 1 .. Len(stream) - 1
      /\ \A i \in DOMAIN stream' : i + 1 \in DOMAIN stream /\ stream'[i] = stream[i + 1]
  BY Popped
<1>4. PosesIn(h_pose)' = PosesIn(h_pose) /\ \A p : Chunk(p)' = Chunk(p) /\ Mine(p)' = Mine(p)
  BY <1>1, <1>2 DEF PosesIn, Chunk, Mine
<1>5. \A i \in DOMAIN stream' : Queued(i)' = Queued(i + 1)
  BY <1>3, <1>4 DEF Queued, Mine
<1>6. ASSUME Loaded'
      PROVE  /\ d_params' = d_params => Loaded
             /\ d_params' # d_params => Queued(1) /\ d_params' = stream[1].p
  BY <1>1, <1>2, <1>6 DEF Loaded, Mine, Queued
<1>7. ASSUME Running'
      PROVE  IF launch' = launch THEN Running ELSE Loaded /\ launch'.p = d_params
  BY <1>2, <1>7 DEF Running, Mine, Loaded
<1>8. InFlight' => InFlight
  <2>1. ASSUME NEW i \in DOMAIN stream', Queued(i)'
        PROVE  InFlight
    BY <1>3, <1>5, <2>1 DEF InFlight
  <2>2. Loaded' => InFlight
    BY <1>3, <1>6 DEF InFlight
  <2>3. Running' => InFlight
    BY <1>7 DEF InFlight
  <2>. QED
    BY <2>1, <2>2, <2>3 DEF InFlight
<1>9. ASSUME NEW i \in Nat \ {0}, PosedBefore(i + 1), PosesIn(h_pose)
      PROVE  PosedBefore(i)'
  <2>1. CASE PosesIn(d_pose)
    BY <1>9, <2>1 DEF PosedBefore
  <2>2. ASSUME NEW j \in DOMAIN stream, j < i + 1, stream[j] = [do |-> "copy_poses", size |-> n * NumSlots]
        PROVE  PosedBefore(i)'
    <3>1. CASE j = 1
      BY <1>9, <2>2, <3>1 DEF PosedBefore
    <3>2. CASE j # 1
      <4>1. j - 1 \in DOMAIN stream' /\ j - 1 < i /\ (j - 1) + 1 = j
        BY <1>3, <1>9, <2>2, <3>2
      <4>2. stream'[j - 1] = [do |-> "copy_poses", size |-> n' * NumSlots]
        BY <1>1, <1>3, <2>2, <4>1
      <4>. QED
        BY <4>1, <4>2 DEF PosedBefore
    <3>. QED
      BY <3>1, <3>2
  <2>. QED
    BY <1>9, <2>1, <2>2 DEF PosedBefore
<1>10. InFlight \/ pc \in {"upload", "clear", "mask", "launch"} => PosesIn(h_pose)
  BY DEF PoseInv
<1>11. PosedBefore(1) => PosesIn(d_pose)
  <2>1. \A j \in DOMAIN stream : ~ (j < 1)
    BY <1>3
  <2>. QED
    BY <2>1 DEF PosedBefore
<1>12. InFlight' => pc' \notin {"pose", "upload", "clear", "mask"}
  BY <1>2, <1>8 DEF PoseInv
<1>13. InFlight' \/ pc' \in {"upload", "clear", "mask", "launch"} => PosesIn(h_pose)'
  BY <1>2, <1>4, <1>8, <1>10
<1>14. ASSUME pc' \in {"clear", "mask", "launch"}
       PROVE  PosedBefore(Len(stream) + 1)'
  <2>1. PosedBefore(Len(stream) + 1) /\ PosesIn(h_pose)
    BY <1>2, <1>14 DEF PoseInv
  <2>2. PICK m \in Nat \ {0} : m = Len(stream)
    BY <1>3
  <2>3. PosedBefore(m)'
    BY <1>9, <2>1, <2>2
  <2>4. Len(stream') + 1 = m
    BY <1>3, <2>2
  <2>. QED
    BY <2>3, <2>4 DEF PosedBefore
<1>15. ASSUME NEW i \in DOMAIN stream', Queued(i)'
       PROVE  PosedBefore(i)' /\ Chunk(stream[i].p)'
  <2>1. i \in Nat \ {0} /\ i + 1 \in DOMAIN stream /\ Queued(i + 1) /\ stream'[i] = stream[i + 1]
    BY <1>3, <1>5, <1>15
  <2>2. InFlight
    BY <2>1 DEF InFlight
  <2>3. PosedBefore(i + 1) /\ Chunk(stream[i + 1].p) /\ PosesIn(h_pose)
    BY <1>10, <2>1, <2>2 DEF PoseInv
  <2>4. PosedBefore(i)'
    BY <1>9, <2>1, <2>3
  <2>. QED
    BY <1>1, <1>2, <2>1, <2>3, <2>4 DEF Chunk
<1>16. ASSUME Loaded'
       PROVE  PosesIn(d_pose)' /\ Chunk(d_params)'
  <2>1. CASE d_params' = d_params
    <3>1. PosesIn(d_pose) /\ Chunk(d_params) /\ PosesIn(h_pose)
      BY <1>6, <1>10, <1>16, <2>1 DEF PoseInv, InFlight
    <3>. QED
      BY <1>1, <1>2, <2>1, <3>1 DEF Chunk
  <2>2. CASE d_params' # d_params
    <3>1. Queued(1) /\ d_params' = stream[1].p
      BY <1>6, <1>16, <2>2
    <3>2. PosesIn(d_pose) /\ Chunk(stream[1].p) /\ PosesIn(h_pose)
      BY <1>3, <1>10, <1>11, <3>1 DEF PoseInv, InFlight
    <3>. QED
      BY <1>1, <1>2, <3>1, <3>2 DEF Chunk
  <2>. QED
    BY <2>1, <2>2
<1>17. ASSUME Running'
       PROVE  PosesIn(d_pose)' /\ Chunk(launch.p)'
  <2>1. PosesIn(d_pose) /\ Chunk(launch'.p) /\ PosesIn(h_pose)
    BY <1>7, <1>10, <1>17 DEF PoseInv, InFlight
  <2>. QED
    BY <1>1, <1>2, <2>1 DEF Chunk
<1>18. InFlight' \/ pc' = "launch" => env_allowed' = {} \/ d_allowed' = env_allowed'
  BY <1>2, <1>8 DEF PoseInv
<1>. QED
  BY <1>12, <1>13, <1>14, <1>15, <1>16, <1>17, <1>18 DEF PoseInv

\* What CopyPoses leaves on the device.
LEMMA PosesCopied ==
  ASSUME TInv, CopyPoses, PosesIn(h_pose), PosesIn(d_pose) \/ stream[1].size = n * NumSlots
  PROVE  PosesIn(d_pose)'
<1> DEFINE m == stream[1].size
           k == n * NumSlots
<1>1. n' = n /\ \A i : PoseEntry(i)' = PoseEntry(i)
  BY Framed DEF CopyPoses, host
<1>2. n \in Nat /\ NumSlots \in Nat /\ k \in Nat
  BY SlotsOfLinks DEF TInv, HostInv, n
<1>3. m \in Nat /\ m <= Len(h_pose) /\ m <= Len(d_pose) /\ d_pose' = Overwrite(d_pose, h_pose, m)
  BY FirstCommand DEF CopyPoses, Command
<1>4. h_pose \in Seq(PoseValue) /\ d_pose \in Seq(PoseValue) /\ Len(h_pose) \in Nat /\ Len(d_pose) \in Nat
  BY DEF TInv, BufferInv
<1>5. \A i \in 1 .. m : h_pose[i] \in PoseValue
  BY <1>3, <1>4
<1>6. (\A i \in 1 .. k : h_pose[i] = PoseEntry(i)) /\ (k = m \/ (k <= Len(d_pose) /\ \A i \in 1 .. k : d_pose[i] = PoseEntry(i)))
  BY DEF PosesIn
<1> HIDE DEF m, k
<1>7. /\ Len(d_pose') = Len(d_pose)
      /\ \A i \in 1 .. Len(d_pose) : d_pose'[i] = IF i <= m THEN h_pose[i] ELSE d_pose[i]
  BY <1>3, <1>4, <1>5, OverwriteType
<1>8. k <= Len(d_pose)
  BY <1>3, <1>6
<1>9. \A i \in 1 .. k : d_pose'[i] = PoseEntry(i)
  BY <1>2, <1>3, <1>4, <1>6, <1>7, <1>8
<1>10. k <= Len(d_pose') /\ \A i \in 1 .. k : d_pose'[i] = PoseEntry(i)'
  BY <1>1, <1>7, <1>8, <1>9
<1>11. k = n' * NumSlots
  BY <1>1 DEF k
<1>. QED
  BY <1>10, <1>11 DEF PosesIn

\* What the FK pass leaves in the pinned block.
LEMMA PosesFilled ==
  ASSUME TInv, Pose, DoGpu
  PROVE  PosesIn(h_pose)'
<1> DEFINE k == n * NumSlots
           grown == Grow(h_pose, k, JunkPose)
           entries == [i \in 1 .. k |-> PoseEntry(i)]
<1>1. n' = n /\ \A i : PoseEntry(i)' = PoseEntry(i)
  BY Framed DEF Pose
<1>2. k \in Nat
  BY SlotsOfLinks DEF TInv, HostInv, n
<1>3. h_pose \in Seq(PoseValue) /\ JunkPose \in PoseValue
  BY DEF TInv, BufferInv, PoseValue
<1>4. grown \in Seq(PoseValue) /\ k <= Len(grown)
  <2> HIDE DEF k
  <2>. QED
    BY <1>2, <1>3, GrowType
<1>5. \A i \in 1 .. k : entries[i] = PoseEntry(i) /\ entries[i] \in PoseValue
  BY PoseEntryType DEF TInv, DoGpu
<1>6. h_pose' = Overwrite(grown, entries, k)
  BY DEF Pose
<1>7. k = n' * NumSlots
  BY <1>1
<1> HIDE DEF k, grown, entries
<1>8. /\ Len(h_pose') = Len(grown)
      /\ \A i \in 1 .. Len(grown) : h_pose'[i] = IF i <= k THEN entries[i] ELSE grown[i]
  BY <1>2, <1>4, <1>5, <1>6, OverwriteType
<1>9. \A i \in 1 .. k : i \in 1 .. Len(grown) /\ i <= k
  <2>1. Len(grown) \in Nat
    BY <1>4
  <2>. QED
    BY <1>2, <1>4, <2>1
<1>10. k <= Len(h_pose') /\ \A i \in 1 .. k : h_pose'[i] = PoseEntry(i)'
  BY <1>1, <1>4, <1>5, <1>8, <1>9
<1>. QED
  BY <1>7, <1>10 DEF PosesIn

\* A launch takes the next chunk.
LEMMA ChunkLaunched ==
  ASSUME TInv, Launch
  PROVE  /\ Params(Smaller(MaxConfigs, n - c0)) \in Param
         /\ Mine(Params(Smaller(MaxConfigs, n - c0))) /\ Chunk(Params(Smaller(MaxConfigs, n - c0)))
         /\ Len(stream) \in Nat /\ Len(stream') = Len(stream) + 2
         /\ DOMAIN stream = 1 .. Len(stream) /\ DOMAIN stream' = 1 .. Len(stream) + 2
         /\ \A i \in DOMAIN stream : i \in DOMAIN stream' /\ stream'[i] = stream[i]
         /\ stream'[Len(stream) + 1] = [do |-> "copy_params", p |-> Params(Smaller(MaxConfigs, n - c0))]
         /\ stream'[Len(stream) + 2] = [do |-> "launch"]
<1> DEFINE size == Smaller(MaxConfigs, n - c0)
           c == [do |-> "copy_params", p |-> Params(size)]
           d == [do |-> "launch"]
<1>1. size \in Nat /\ c0 + size <= n
  BY ChunkSize DEF Launch
<1>2. Params(size) \in Param
  BY <1>1, ParamsType
<1>3. Mine(Params(size)) /\ Chunk(Params(size))
  <2> HIDE DEF size
  <2>. QED
    BY <1>1 DEF Mine, Chunk, Params
<1>4. stream \in Seq(Commands) /\ c \in Commands /\ d \in Commands
  BY <1>2 DEF TInv, StreamInv, Commands, Loads
<1>5. stream' = stream \o <<c, d>>
  BY DEF Launch
<1> HIDE DEF size, c, d
<1>6. /\ stream' \in Seq(Commands) /\ Len(stream') = Len(stream) + 2 /\ Len(stream) \in Nat
      /\ \A i \in 1 .. Len(stream) : stream'[i] = stream[i]
      /\ stream'[Len(stream) + 1] = c /\ stream'[Len(stream) + 2] = d
  BY <1>4, <1>5, PushTwoFacts
<1>7. DOMAIN stream = 1 .. Len(stream) /\ DOMAIN stream' = 1 .. Len(stream) + 2
  BY <1>4, <1>6
<1>8. \A i \in DOMAIN stream : i \in DOMAIN stream'
  BY <1>6, <1>7
<1>. QED
  BY <1>2, <1>3, <1>6, <1>7, <1>8 DEF size, c, d

LEMMA PoseInit == Init => PoseInv
<1> SUFFICES ASSUME Init
             PROVE  PoseInv
  OBVIOUS
<1>1. stream = <<>> /\ DOMAIN stream = {} /\ launch = None /\ pc = "idle" /\ d_params = <<>>
  BY DEF Init
<1>2. ~ Loaded
  BY <1>1 DEF Loaded, Param
<1>3. ~ InFlight /\ ~ Running
  BY <1>1, <1>2 DEF InFlight, Running
<1>. QED
  BY <1>1, <1>2, <1>3 DEF PoseInv

\* Steps that leave the stream and the transforms alone.
LEMMA PoseStill ==
  ASSUME PoseInv, UNCHANGED <<world, query, call, env_allowed, h_pose, d_pose, d_params, d_allowed, stream>>,
         Running' => Running /\ launch'.p = launch.p,
         pc' \in {pc, "idle", "self", "join", "contain", "returned"}
  PROVE  PoseInv'
<1>1. n' = n /\ Param' = Param /\ \A i : PoseEntry(i)' = PoseEntry(i)
  BY Framed
<1>2. PosesIn(h_pose)' = PosesIn(h_pose) /\ PosesIn(d_pose)' = PosesIn(d_pose)
  BY <1>1 DEF PosesIn
<1>3. \A p : Chunk(p)' = Chunk(p) /\ Mine(p)' = Mine(p)
  BY <1>1 DEF Chunk, Mine
<1>4. \A i : Queued(i)' = Queued(i) /\ PosedBefore(i)' = PosedBefore(i)
  BY <1>1, <1>2 DEF Queued, Mine, PosedBefore
<1>5. Loaded' = Loaded
  BY <1>1 DEF Loaded, Mine
<1>6. InFlight' => InFlight
  BY <1>4, <1>5 DEF InFlight
<1>7. \A i \in DOMAIN stream' : Queued(i)' => PosedBefore(i)' /\ Chunk(stream[i].p)'
  BY <1>1, <1>4 DEF PoseInv, Chunk
<1>8. Loaded' => PosesIn(d_pose)' /\ Chunk(d_params)'
  BY <1>1, <1>2, <1>5 DEF PoseInv, Chunk
<1>9. Running' => PosesIn(d_pose)' /\ Chunk(launch.p)'
  BY <1>1, <1>2 DEF PoseInv, Chunk
<1>10. pc' \in {"clear", "mask", "launch"} => PosedBefore(Len(stream) + 1)'
  <2>1. PosedBefore(Len(stream) + 1)' = PosedBefore(Len(stream) + 1)
    BY <1>1, <1>2 DEF PosedBefore
  <2>. QED
    BY <2>1 DEF PoseInv
<1>11. /\ InFlight' => pc' \notin {"pose", "upload", "clear", "mask"}
       /\ InFlight' \/ pc' \in {"upload", "clear", "mask", "launch"} => PosesIn(h_pose)'
       /\ InFlight' \/ pc' = "launch" => env_allowed' = {} \/ d_allowed' = env_allowed'
  BY <1>2, <1>6 DEF PoseInv
<1>. QED
  BY <1>7, <1>8, <1>9, <1>10, <1>11 DEF PoseInv

\* A copy or a clear is enqueued.
LEMMA PosePushed ==
  ASSUME TInv, PoseInv, UNCHANGED <<world, query, call, env_allowed, h_pose, d_params, d_allowed, launch>>,
         NEW c \in Copies, stream' = Append(stream, c),
         \/ pc = "upload" /\ pc' = "clear" /\ c = [do |-> "copy_poses", size |-> n * NumSlots]
         \/ pc = "clear" /\ pc' = "mask" /\ d_pose' = d_pose
         \/ pc = "launch" /\ pc' = "self" /\ d_pose' = d_pose
  PROVE  PoseInv'
<1>1. n' = n /\ Param' = Param /\ \A i : PoseEntry(i)' = PoseEntry(i)
  BY Framed
<1>2. c \in Commands /\ c.do # "copy_params"
  BY DEF Commands, Copies
<1>3. /\ Len(stream) \in Nat /\ Len(stream') = Len(stream) + 1
      /\ DOMAIN stream = 1 .. Len(stream) /\ DOMAIN stream' = 1 .. Len(stream) + 1
      /\ \A i \in DOMAIN stream : i \in DOMAIN stream' /\ stream'[i] = stream[i]
      /\ stream'[Len(stream) + 1] = c
  BY <1>2, Pushed
<1>4. PosesIn(h_pose)' = PosesIn(h_pose) /\ (d_pose' = d_pose => PosesIn(d_pose)' = PosesIn(d_pose))
  BY <1>1 DEF PosesIn
<1>5. \A i \in DOMAIN stream' : Queued(i)' => i \in DOMAIN stream /\ Queued(i) /\ stream'[i] = stream[i]
  BY <1>2, <1>3 DEF Queued, Mine
<1>6. Loaded' = Loaded /\ Running' = Running
  BY <1>1 DEF Loaded, Running, Mine
<1>7. InFlight' => InFlight
  BY <1>5, <1>6 DEF InFlight
<1>8. CASE pc = "upload" /\ pc' = "clear" /\ c = [do |-> "copy_poses", size |-> n * NumSlots]
  <2>1. ~ InFlight /\ ~ InFlight'
    BY <1>7, <1>8 DEF PoseInv
  <2>2. PosedBefore(Len(stream) + 1)'
    <3>1. Len(stream) + 1 \in DOMAIN stream' /\ Len(stream) + 1 < Len(stream') + 1
      BY <1>3
    <3>2. stream'[Len(stream) + 1] = [do |-> "copy_poses", size |-> n' * NumSlots]
      BY <1>1, <1>3, <1>8
    <3>. QED
      BY <3>1, <3>2 DEF PosedBefore
  <2>3. PosesIn(h_pose)'
    BY <1>4, <1>8 DEF PoseInv
  <2>4. ~ Loaded' /\ ~ Running' /\ \A i \in DOMAIN stream' : ~ Queued(i)'
    BY <2>1 DEF InFlight
  <2>. QED
    BY <1>8, <2>1, <2>2, <2>3, <2>4 DEF PoseInv
<1>9. CASE d_pose' = d_pose /\ ((pc = "clear" /\ pc' = "mask") \/ (pc = "launch" /\ pc' = "self"))
  <2>1. PosesIn(d_pose)' = PosesIn(d_pose)
    BY <1>4, <1>9
  <2>2. \A i : PosedBefore(i) => PosedBefore(i)'
    BY <1>1, <1>3, <2>1 DEF PosedBefore
  <2>3. pc' \in {"clear", "mask", "launch"} => PosedBefore(Len(stream) + 1)'
    <3>1. PosedBefore(Len(stream) + 1)
      BY <1>9 DEF PoseInv
    <3>2. Len(stream') + 1 > Len(stream) + 1
      BY <1>3
    <3>3. \A j \in DOMAIN stream : j < Len(stream) + 1 => j < Len(stream') + 1
      BY <1>3
    <3>. QED
      BY <1>1, <1>3, <2>1, <3>1, <3>3 DEF PosedBefore
  <2>4. \A i \in DOMAIN stream' : Queued(i)' => PosedBefore(i)' /\ Chunk(stream[i].p)'
    BY <1>1, <1>5, <2>2 DEF PoseInv, Chunk
  <2>5. Loaded' => PosesIn(d_pose)' /\ Chunk(d_params)'
    BY <1>1, <1>6, <2>1 DEF PoseInv, Chunk
  <2>6. Running' => PosesIn(d_pose)' /\ Chunk(launch.p)'
    BY <1>1, <1>6, <2>1 DEF PoseInv, Chunk
  <2>7. /\ InFlight' => pc' \notin {"pose", "upload", "clear", "mask"}
        /\ InFlight' \/ pc' \in {"upload", "clear", "mask", "launch"} => PosesIn(h_pose)'
        /\ InFlight' \/ pc' = "launch" => env_allowed' = {} \/ d_allowed' = env_allowed'
    BY <1>4, <1>7, <1>9 DEF PoseInv
  <2>. QED
    BY <2>3, <2>4, <2>5, <2>6, <2>7 DEF PoseInv
<1>. QED
  BY <1>8, <1>9

LEMMA PoseLaunched ==
  ASSUME TInv, PoseInv, Launch
  PROVE  PoseInv'
<1> DEFINE p == Params(Smaller(MaxConfigs, n - c0))
<1>1. UNCHANGED <<world, query, call, env_allowed, h_pose, d_pose, d_params, d_allowed, launch, pc>> /\ pc = "launch"
  BY DEF Launch, device
<1>2. n' = n /\ Param' = Param /\ \A i : PoseEntry(i)' = PoseEntry(i)
  BY <1>1, Framed
<1>3. /\ Mine(p) /\ Chunk(p)
      /\ Len(stream) \in Nat /\ Len(stream') = Len(stream) + 2
      /\ DOMAIN stream = 1 .. Len(stream) /\ DOMAIN stream' = 1 .. Len(stream) + 2
      /\ \A i \in DOMAIN stream : i \in DOMAIN stream' /\ stream'[i] = stream[i]
      /\ stream'[Len(stream) + 1] = [do |-> "copy_params", p |-> p]
      /\ stream'[Len(stream) + 2] = [do |-> "launch"]
  BY ChunkLaunched
<1> HIDE DEF p
<1>4. PosesIn(h_pose)' = PosesIn(h_pose) /\ PosesIn(d_pose)' = PosesIn(d_pose)
  BY <1>1, <1>2 DEF PosesIn
<1>5. Loaded' = Loaded /\ Running' = Running
  BY <1>1, <1>2 DEF Loaded, Running, Mine
<1>6. \A i : PosedBefore(i) => PosedBefore(i)'
  BY <1>2, <1>3, <1>4 DEF PosedBefore
<1>7. PosedBefore(Len(stream) + 1) /\ PosesIn(h_pose) /\ (env_allowed = {} \/ d_allowed = env_allowed)
  BY <1>1 DEF PoseInv
<1>8. PosedBefore(Len(stream) + 1)'
  <2>1. \A j \in DOMAIN stream : j < Len(stream) + 1 => j < Len(stream') + 1
    BY <1>3
  <2>. QED
    BY <1>2, <1>3, <1>4, <1>7, <2>1 DEF PosedBefore
<1>9. ASSUME NEW i \in DOMAIN stream', Queued(i)'
      PROVE  PosedBefore(i)' /\ Chunk(stream[i].p)'
  <2>1. CASE i \in DOMAIN stream
    <3>1. Queued(i) /\ stream'[i] = stream[i]
      BY <1>1, <1>3, <1>9, <2>1 DEF Queued, Mine
    <3>. QED
      BY <1>1, <1>2, <1>6, <2>1, <3>1 DEF PoseInv, Chunk
  <2>2. CASE i = Len(stream) + 1
    <3>1. stream'[i].p = p
      BY <1>3, <2>2
    <3>2. PosedBefore(i)'
      BY <1>6, <1>7, <2>2
    <3>. QED
      BY <1>1, <1>2, <1>3, <3>1, <3>2 DEF Chunk
  <2>3. CASE i = Len(stream) + 2
    BY <1>3, <1>9, <2>3 DEF Queued
  <2>. QED
    BY <1>3, <2>1, <2>2, <2>3
<1>10. Loaded' => PosesIn(d_pose)' /\ Chunk(d_params)'
  BY <1>1, <1>2, <1>4, <1>5 DEF PoseInv, Chunk
<1>11. Running' => PosesIn(d_pose)' /\ Chunk(launch.p)'
  BY <1>1, <1>2, <1>4, <1>5 DEF PoseInv, Chunk
<1>. QED
  BY <1>1, <1>4, <1>7, <1>8, <1>9, <1>10, <1>11 DEF PoseInv

LEMMA PosePreserved ==
  ASSUME TInv, PoseInv, [Next]_vars
  PROVE  PoseInv'
<1>1. CASE \E batch \in Batches, acm \in Acms, self \in BOOLEAN : Query(batch, acm, self)
  <2>1. query' = query + 1 /\ pc' = "pose" /\ UNCHANGED <<stream, d_params, launch>>
    BY <1>1 DEF Query, Goto, device
  <2>2. query \in Nat /\ \A p \in Param : p.query <= query
    BY DEF TInv, HostInv, Param
  <2>3. \A p \in Param : p.query # query'
    <3>1. \A p \in Param : p.query \in 0 .. query
      BY DEF Param
    <3>. QED
      BY <2>1, <2>2, <3>1
  <2>4. ~ Loaded' /\ ~ Running'
    <3>1. launch # None => launch.p \in Param
      BY DEF TInv, DeviceInv
    <3>2. d_params \in Param \cup {None} /\ None \notin Param'
      BY DEF TInv, DeviceInv, None, Param
    <3>. QED
      BY <2>1, <2>3, <3>1, <3>2 DEF Loaded, Running, Mine
  <2>5. ASSUME NEW i \in DOMAIN stream'
        PROVE  ~ Queued(i)'
    <3>1. stream[i] \in Commands
      BY <2>1 DEF TInv, StreamInv
    <3>2. stream[i].do = "copy_params" => stream[i].p \in Param
      BY <3>1, CommandFields
    <3>. QED
      BY <2>1, <2>3, <3>2 DEF Queued, Mine
  <2>6. ~ InFlight'
    BY <2>4, <2>5 DEF InFlight
  <2>. QED
    BY <2>1, <2>4, <2>5, <2>6 DEF PoseInv
<1>2. CASE Pose
  <2>1. UNCHANGED <<world, query, call, env_allowed, d_pose, d_params, d_allowed, stream, launch>> /\ pc = "pose"
    BY <1>2 DEF Pose, device
  <2>2. CASE DoGpu
    <3>1. pc' = "upload"
      BY <1>2, <2>2 DEF Pose, Goto
    <3>2. PosesIn(h_pose)'
      BY <1>2, <2>2, PosesFilled
    <3>3. ~ InFlight
      BY <2>1 DEF PoseInv
    <3>4. ~ Loaded' /\ ~ Running' /\ \A i \in DOMAIN stream' : ~ Queued(i)'
      BY <2>1, <3>3, Framed DEF InFlight, Loaded, Running, Queued, Mine
    <3>5. ~ InFlight'
      BY <3>4 DEF InFlight
    <3>. QED
      BY <3>1, <3>2, <3>4, <3>5 DEF PoseInv
  <2>3. CASE ~ DoGpu
    <3>1. pc' = "self" /\ h_pose' = h_pose
      BY <1>2, <2>3 DEF Pose, Goto
    <3>2. Running' => Running /\ launch'.p = launch.p
      BY <2>1 DEF Running, Mine
    <3>. QED
      BY <2>1, <3>1, <3>2, PoseStill
  <2>. QED
    BY <2>2, <2>3
<1>3. CASE UploadPoses
  <2> DEFINE c == [do |-> "copy_poses", size |-> n * NumSlots]
  <2>1. UNCHANGED <<world, query, call, env_allowed, h_pose, d_params, d_allowed, launch>>
        /\ stream' = Append(stream, c) /\ pc = "upload" /\ pc' = "clear"
    BY <1>3 DEF UploadPoses, Goto
  <2>2. c \in Copies
    <3>1. n * NumSlots \in Nat
      BY SlotsOfLinks DEF TInv, HostInv, n
    <3>. QED
      BY <3>1 DEF Copies
  <2>. QED
    BY <2>1, <2>2, PosePushed
<1>4. CASE Clear
  <2> DEFINE c == [do |-> "clear", size |-> n]
  <2>1. UNCHANGED <<world, query, call, env_allowed, h_pose, d_pose, d_params, d_allowed, launch>>
        /\ stream' = Append(stream, c) /\ pc = "clear" /\ pc' = "mask"
    BY <1>4 DEF Clear, Goto
  <2>2. c \in Copies
    BY DEF TInv, HostInv, n, Copies
  <2> HIDE DEF c
  <2>. QED
    BY <2>1, <2>2, PosePushed
<1>5. CASE UploadMask
  <2>1. UNCHANGED <<world, query, call, env_allowed, h_pose, d_pose, d_params, stream, launch>>
        /\ pc = "mask" /\ pc' = "launch" /\ (env_allowed = {} \/ d_allowed' = env_allowed)
    BY <1>5 DEF UploadMask, Goto, device
  <2>2. ~ InFlight /\ PosesIn(h_pose) /\ PosedBefore(Len(stream) + 1)
    BY <2>1 DEF PoseInv
  <2>3. n' = n /\ Param' = Param /\ \A i : PoseEntry(i)' = PoseEntry(i)
    BY <2>1, Framed
  <2>4. ~ Loaded' /\ ~ Running' /\ \A i \in DOMAIN stream' : ~ Queued(i)'
    BY <2>1, <2>2, <2>3 DEF InFlight, Loaded, Running, Queued, Mine
  <2>5. ~ InFlight'
    BY <2>4 DEF InFlight
  <2>6. PosesIn(h_pose)' /\ PosedBefore(Len(stream) + 1)'
    BY <2>1, <2>2, <2>3 DEF PosesIn, PosedBefore
  <2>. QED
    BY <2>1, <2>4, <2>5, <2>6 DEF PoseInv
<1>6. CASE Launch
  BY <1>6, PoseLaunched
<1>7. CASE ReadBack
  <2> DEFINE c == [do |-> "copy_hits", size |-> n]
  <2>1. UNCHANGED <<world, query, call, env_allowed, h_pose, d_pose, d_params, d_allowed, launch>>
        /\ stream' = Append(stream, c) /\ pc = "launch" /\ pc' = "self"
    BY <1>7 DEF ReadBack, Goto, device
  <2>2. c \in Copies
    BY DEF TInv, HostInv, n, Copies
  <2> HIDE DEF c
  <2>. QED
    BY <2>1, <2>2, PosePushed
<1>8. CASE SelfPass \/ Join \/ Contain \/ Throw \/ UNCHANGED vars
  <2>1. UNCHANGED <<world, query, call, env_allowed, h_pose, d_pose, d_params, d_allowed, stream, launch>>
        /\ pc' \in {pc, "idle", "self", "join", "contain", "returned"}
    BY <1>8 DEF SelfPass, Join, Contain, Throw, vars, host, device, Goto
  <2>2. Running' => Running /\ launch'.p = launch.p
    BY <2>1 DEF Running, Mine
  <2>. QED
    BY <2>1, <2>2, PoseStill
<1>9. CASE EndLaunch \/ \E t \in Threads : Look(t) \/ Trace(t)
  <2>1. UNCHANGED <<world, query, call, env_allowed, h_pose, d_pose, d_params, d_allowed, stream, pc>>
    BY <1>9 DEF EndLaunch, Look, Trace, host, device
  <2>2. Running' => Running /\ launch'.p = launch.p
    <3>1. CASE EndLaunch
      BY <3>1 DEF EndLaunch, Running
    <3>2. ASSUME NEW t \in Threads, Look(t) \/ Trace(t)
          PROVE  launch # None /\ launch'.p = launch.p
      BY <3>2, ThreadSteps DEF TInv, Look, Trace
    <3>. QED
      BY <1>9, <2>1, <3>1, <3>2 DEF Running, Mine
  <2>. QED
    BY <2>1, <2>2, PoseStill
<1>10. CASE CopyPoses
  <2>1. stream # <<>> /\ stream' = Tail(stream) /\ UNCHANGED <<world, host, h_pose, d_allowed, d_params, launch>>
    BY <1>10 DEF CopyPoses, Command
  <2>2. PosesIn(h_pose) /\ PosesIn(d_pose) => PosesIn(d_pose)'
    BY <1>10, PosesCopied
  <2>3. PosesIn(h_pose) /\ stream[1] = [do |-> "copy_poses", size |-> n * NumSlots] => PosesIn(d_pose)'
    BY <1>10, PosesCopied
  <2>. QED
    BY <2>1, <2>2, <2>3, PosePopped
<1>11. CASE ZeroHits \/ CopyParams \/ BeginLaunch \/ CopyHits
  <2>1. stream # <<>> /\ stream' = Tail(stream) /\ UNCHANGED <<world, host, h_pose, d_allowed, d_pose>>
        /\ stream[1].do # "copy_poses"
    BY <1>11 DEF ZeroHits, CopyParams, BeginLaunch, CopyHits, Command, device
  <2>2. d_params' = d_params \/ (stream[1].do = "copy_params" /\ d_params' = stream[1].p)
    BY <1>11 DEF ZeroHits, CopyParams, BeginLaunch, CopyHits, Command, device
  <2>3. launch' = launch \/ (d_params \in Param /\ launch'.p = d_params)
    <3>1. CASE BeginLaunch
      <4>1. 1 \in DOMAIN stream /\ stream[1].do = "launch" /\ launch'.p = d_params
        BY <3>1, FirstCommand DEF BeginLaunch, Command
      <4>2. Paired
        BY DEF TInv, StreamInv
      <4>. QED
        BY <4>1, <4>2 DEF Paired
    <3>. QED
      BY <1>11, <3>1 DEF ZeroHits, CopyParams, CopyHits
  <2>4. PosesIn(d_pose) => PosesIn(d_pose)'
    BY <2>1, Framed DEF PosesIn, host
  <2>. QED
    BY <2>1, <2>2, <2>3, <2>4, PosePopped
<1>. QED
  BY <1>1, <1>2, <1>3, <1>4, <1>5, <1>6, <1>7, <1>8, <1>9, <1>10, <1>11 DEF Next, HostStep, DeviceStep

\* Where a thread of a chunk finds its transform.
LEMMA PoseFound ==
  ASSUME TInv, PoseInv, Running, NEW t \in ThreadsOf(launch.p)
  PROVE  /\ t[1] \in DOMAIN RayData /\ t[2] \in 1 .. launch.p.configs /\ Out(t[2]) \in 1 .. n
         /\ PoseFor(t)[1] = query /\ PoseFor(t)[2] = call.batch[Out(t[2])] /\ PoseFor(t)[3] = RayData[t[1]][1]
         /\ PoseFor(t)[4] = (Cull /\ <<call.batch[Out(t[2])], RayData[t[1]][1]>> \in world.far)
<1> DEFINE p == launch.p
           c == Out(t[2])
           s == RayLink[t[1]]
<1>1. p.out \in Nat /\ p.configs \in Nat /\ p.pose \in Nat
  BY DEF TInv, DeviceInv, Running, Param
<1>2. t[1] \in DOMAIN RayData /\ t[2] \in 1 .. p.configs
  BY DEF ThreadsOf
<1>3. PosesIn(d_pose) /\ p.pose = p.out * NumSlots /\ p.out + p.configs <= n
  BY DEF PoseInv, Chunk
<1>4. n \in Nat /\ NumSlots \in Nat
  BY SlotsOfLinks DEF TInv, HostInv, n
<1>5. s \in Slots /\ RayData[t[1]][1] = SlotLinks[s] /\ RayData # <<>> /\ s \in Nat
  BY <1>2, RaysUploaded, SlotsOfLinks
<1>6. c = p.out + t[2]
  BY DEF Out
<1> HIDE DEF c, p, s
<1>7. c \in 1 .. n /\ c - 1 = p.out + (t[2] - 1)
  BY <1>1, <1>2, <1>3, <1>4, <1>6
<1>8. /\ (c - 1) * NumSlots + s \in 1 .. n * NumSlots
      /\ PoseEntry((c - 1) * NumSlots + s) =
           <<query, call.batch[c], SlotLinks[s], Cull /\ <<call.batch[c], SlotLinks[s]>> \in world.far>>
  BY <1>5, <1>7, PoseEntryAt DEF TInv
<1>9. p.pose + (t[2] - 1) * NumSlots + s = (c - 1) * NumSlots + s
  <2>1. (c - 1) * NumSlots = p.out * NumSlots + (t[2] - 1) * NumSlots
    <3>1. c - 1 = p.out + (t[2] - 1) /\ p.out \in Int /\ t[2] - 1 \in Int /\ NumSlots \in Int
      BY <1>1, <1>2, <1>4, <1>7
    <3>2. \A a, b, k \in Int : (a + b) * k = a * k + b * k
      OBVIOUS
    <3>. QED
      BY <3>1, <3>2
  <2>2. p.out * NumSlots \in Nat /\ (t[2] - 1) * NumSlots \in Nat
    BY <1>1, <1>2, <1>4
  <2>. QED
    BY <1>3, <1>5, <2>1, <2>2
<1>10. PoseFor(t) = d_pose[(c - 1) * NumSlots + s]
  BY <1>9 DEF PoseFor, p, s
<1> DEFINE culled == Cull /\ <<call.batch[c], SlotLinks[s]>> \in world.far
<1>11. PoseFor(t) = <<query, call.batch[c], SlotLinks[s], culled>>
  BY <1>3, <1>8, <1>10 DEF PosesIn
<1> HIDE DEF culled
<1>12. PoseFor(t)[1] = query /\ PoseFor(t)[2] = call.batch[c] /\ PoseFor(t)[3] = SlotLinks[s] /\ PoseFor(t)[4] = culled
  BY <1>11
<1>. QED
  BY <1>2, <1>5, <1>7, <1>12 DEF c, p, culled

(* A thread of a query's launch sees its own ray's link posed in its own
   configuration (the transforms' places in OptixScene::query_batch and in
   __raygen__rg): not another chunk's, and not what an earlier query, one that
   threw half way included, left in the buffers or on the stream. *)
THEOREM OwnPoses == Spec => []LaunchesReadOwnPoses
<1>1. Init => TInv /\ PoseInv
  BY InitTInv, PoseInit
<1>2. TInv /\ PoseInv /\ [Next]_vars => TInv' /\ PoseInv'
  BY TypePreserved, PosePreserved
<1>3. TInv /\ PoseInv => LaunchesReadOwnPoses
  <2> SUFFICES ASSUME TInv, PoseInv, launch # None, launch.p.query = query, NEW t \in Threads
               PROVE  /\ PoseFor(t)[1] = query
                      /\ PoseFor(t)[2] = call.batch[Out(t[2])]
                      /\ PoseFor(t)[3] = RayData[t[1]][1]
    BY DEF LaunchesReadOwnPoses
  <2>1. Running
    BY DEF Running, Mine
  <2>2. t \in ThreadsOf(launch.p)
    BY DEF Threads, TInv, DeviceInv
  <2>. QED
    BY <2>1, <2>2, PoseFound
<1>. QED
  BY <1>1, <1>2, <1>3, PTL DEF Spec

-------------------------------------------------------------------------------
(* The answer *)

LEMMA AnswerFramed ==
  ASSUME UNCHANGED <<world, query, call>>
  PROVE  /\ n' = n /\ Param' = Param /\ DoGpu' = DoGpu
         /\ \A q : EnvHit(q)' = EnvHit(q) /\ SelfHit(q)' = SelfHit(q)
         /\ \A r, c : Crosses(r, c)' = Crosses(r, c)
         /\ \A p : Mine(p)' = Mine(p)
<1>1. n' = n /\ Param' = Param /\ DoGpu' = DoGpu
  BY DEF n, Param, DoGpu
<1>2. \A q : EnvHit(q)' = EnvHit(q) /\ SelfHit(q)' = SelfHit(q)
  BY DEF EnvHit, SelfHit
<1>3. \A r, c : Crosses(r, c)' = Crosses(r, c)
  BY DEF Crosses
<1>4. \A p : Mine(p)' = Mine(p)
  BY DEF Mine
<1>. QED
  BY <1>1, <1>2, <1>3, <1>4

LEMMA WorldType ==
  ASSUME HostInv
  PROVE  /\ \A x \in world.cross : /\ x = <<x[1], x[2], x[3]>> /\ x[2] \in Rays /\ x[3] \in Triangles
                                   /\ <<x[1], x[2][1]>> \notin world.far
         /\ \A x \in world.inside : x = <<x[1], x[2], x[3]>> /\ x[2] \in Points /\ x[3] \in DOMAIN Objects
<1>1. world \in Worlds
  BY DEF HostInv
<1>2. /\ world.cross \subseteq Configs \X Rays \X Triangles
      /\ world.inside \subseteq Configs \X Points \X (DOMAIN Objects)
      /\ \A x \in world.cross : <<x[1], x[2][1]>> \notin world.far
  BY <1>1, OptixAssumption
<1>3. \A x \in Configs \X Rays \X Triangles : x = <<x[1], x[2], x[3]>> /\ x[2] \in Rays /\ x[3] \in Triangles
  OBVIOUS
<1>4. \A x \in Configs \X Points \X (DOMAIN Objects) : x = <<x[1], x[2], x[3]>> /\ x[2] \in Points /\ x[3] \in DOMAIN Objects
  OBVIOUS
<1>. QED
  BY <1>2, <1>3, <1>4

(* A ray hits, or its link is culled, as the world and the ACM say. *)
LEMMA RayHits ==
  ASSUME TInv, PoseInv, Running, NEW t \in ThreadsOf(launch.p)
  PROVE  /\ Hits(t) <=> Crosses(t[1], Out(t[2]))
         /\ PoseFor(t)[4] => ~ Crosses(t[1], Out(t[2]))
<1> DEFINE c == Out(t[2])
           r == t[1]
           ray == RayData[r]
           s == RayLink[r]
           pose == PoseFor(t)
           q == call.batch[c]
<1>1. r \in DOMAIN RayData /\ pose[2] = q /\ pose[3] = ray[1] /\ (pose[4] => <<q, ray[1]>> \in world.far)
  BY PoseFound
<1>2. ray \in Rays /\ s \in Slots /\ ray[1] = SlotLinks[s]
  BY <1>1, RaysUploaded
<1>3. launch.p.masked = (env_allowed # {}) /\ (env_allowed = {} \/ d_allowed = env_allowed)
  BY DEF PoseInv, InFlight, Chunk
<1>4. Hits(t) <=> \E i \in DOMAIN TriData :
                    /\ pose[3] = ray[1]
                    /\ <<pose[2], ray, TriData[i]>> \in world.cross
                    /\ launch.p.masked => (s - 1) * Len(Objects) + TriObject[i] \notin d_allowed
  BY DEF Hits
<1>5. Crosses(r, c) <=> \E i \in DOMAIN TriData :
                          /\ <<q, ray, TriData[i]>> \in world.cross
                          /\ ~ Allowed(ray[1], TriData[i][1], call.acm)
  BY DEF Crosses
<1> HIDE DEF c, r, ray, s, pose, q
<1>6. ASSUME NEW i \in DOMAIN TriData
      PROVE  (launch.p.masked => (s - 1) * Len(Objects) + TriObject[i] \notin d_allowed)
               <=> ~ Allowed(ray[1], TriData[i][1], call.acm)
  <2>1. TriObject[i] \in DOMAIN Objects /\ TriData[i][1] = TriObject[i]
    BY TrianglesUploaded
  <2>2. (s - 1) * Len(Objects) + TriObject[i] \in env_allowed <=> Allowed(SlotLinks[s], TriObject[i], call.acm)
    BY <1>2, <2>1, MaskRight DEF TInv
  <2> DEFINE place == (s - 1) * Len(Objects) + TriObject[i]
             allowed == Allowed(SlotLinks[s], TriObject[i], call.acm)
  <2>3. place \in env_allowed <=> allowed
    BY <2>2
  <2>4. Allowed(ray[1], TriData[i][1], call.acm) = allowed
    BY <1>2, <2>1
  <2> HIDE DEF place, allowed
  <2>5. (launch.p.masked => place \notin d_allowed) <=> ~ allowed
    BY <1>3, <2>3
  <2>. QED
    BY <2>4, <2>5 DEF place
<1>7. Hits(t) <=> Crosses(r, c)
  BY <1>1, <1>4, <1>5, <1>6
<1>8. pose[4] => ~ Crosses(r, c)
  <2> SUFFICES ASSUME pose[4], NEW i \in DOMAIN TriData, <<q, ray, TriData[i]>> \in world.cross
               PROVE  FALSE
    BY <1>5
  <2> DEFINE x == <<q, ray, TriData[i]>>
  <2>1. x[1] = q /\ x[2] = ray /\ x \in world.cross
    OBVIOUS
  <2> HIDE DEF x
  <2>2. <<x[1], x[2][1]>> \notin world.far
    BY <2>1, WorldType DEF TInv
  <2>. QED
    BY <1>1, <2>1, <2>2
<1>. QED
  BY <1>7, <1>8 DEF c, r, pose

(* The rays find what there is to find. *)
LEMMA RaysTell ==
  ASSUME HostInv, NEW c \in 1 .. n
  PROVE  EnvHit(call.batch[c]) <=> \E r \in DOMAIN RayData : Crosses(r, c)
<1> DEFINE q == call.batch[c]
<1>1. ASSUME EnvHit(q)
      PROVE  \E r \in DOMAIN RayData : Crosses(r, c)
  <2>1. PICK x \in world.cross : x[1] = q /\ ~ Allowed(x[2][1], x[3][1], call.acm)
    BY <1>1 DEF EnvHit
  <2>2. x = <<x[1], x[2], x[3]>> /\ x[2] \in Rays /\ x[3] \in Triangles
    BY WorldType
  <2>3. PICK r \in DOMAIN RayData : RayData[r] = x[2]
    BY <2>2, RaysUploaded
  <2>4. PICK i \in DOMAIN TriData : TriData[i] = x[3]
    BY <2>2, TrianglesUploaded
  <2>5. <<q, RayData[r], TriData[i]>> \in world.cross
    BY <2>1, <2>2, <2>3, <2>4
  <2>. QED
    BY <2>1, <2>3, <2>4, <2>5 DEF Crosses
<1>2. ASSUME NEW r \in DOMAIN RayData, Crosses(r, c)
      PROVE  EnvHit(q)
  <2>1. PICK i \in DOMAIN TriData :
          <<q, RayData[r], TriData[i]>> \in world.cross /\ ~ Allowed(RayData[r][1], TriData[i][1], call.acm)
    BY <1>2 DEF Crosses
  <2> DEFINE x == <<q, RayData[r], TriData[i]>>
  <2>2. x \in world.cross /\ x[1] = q /\ x[2] = RayData[r] /\ x[3] = TriData[i]
    BY <2>1
  <2> HIDE DEF x
  <2>. QED
    BY <2>1, <2>2 DEF EnvHit
<1>. QED
  BY <1>1, <1>2

LEMMA NothingToTrace ==
  ASSUME HostInv, ~ DoGpu, NEW c \in 1 .. n
  PROVE  ~ EnvHit(call.batch[c])
<1>1. n \in Nat /\ n > 0
  BY DEF HostInv, n
<1>2. RayData = <<>> \/ TriData = <<>>
  BY <1>1 DEF DoGpu, Gas
<1>3. \A r \in DOMAIN RayData : ~ Crosses(r, c)
  <2>1. CASE RayData = <<>>
    <3>1. DOMAIN RayData = {}
      BY <2>1
    <3>. QED
      BY <3>1
  <2>2. CASE TriData = <<>>
    <3>1. DOMAIN TriData = {}
      BY <2>2
    <3>. QED
      BY <3>1 DEF Crosses
  <2>. QED
    BY <1>2, <2>1, <2>2
<1>. QED
  BY <1>3, RaysTell

(* The containment pass finds the solids a link's point lies in. *)
LEMMA PointsTell ==
  ASSUME HostInv, NEW c \in 1 .. n
  PROVE  (DoContain /\ InsideOf(call.batch[c])) <=>
           \E x \in world.inside : x[1] = call.batch[c] /\ x[3] \in Solids /\ ~ Allowed(x[2][1], x[3], call.acm)
<1> DEFINE q == call.batch[c]
<1>1. n \in Nat /\ n > 0
  BY DEF HostInv, n
<1>2. \A l \in DOMAIN Links : \A o \in DOMAIN Objects : <<l, o>> \in contain_skip <=> Allowed(l, o, call.acm)
  BY DEF HostInv
<1>3. \A x \in Points : x[1] \in DOMAIN Links
  BY DEF Points
<1>4. \A o \in Solids : o \in DOMAIN Objects
  BY DEF Solids
<1>5. ASSUME NEW x \in world.inside, x[1] = q, x[3] \in Solids, ~ Allowed(x[2][1], x[3], call.acm)
      PROVE  DoContain /\ InsideOf(q)
  <2>1. x = <<x[1], x[2], x[3]>> /\ x[2] \in Points
    BY WorldType
  <2>2. PICK i \in DOMAIN Interior : Interior[i] = x[2]
    BY <2>1, PointsKept
  <2>3. <<q, Interior[i], x[3]>> \in world.inside /\ <<Interior[i][1], x[3]>> \notin contain_skip
    BY <1>2, <1>3, <1>4, <1>5, <2>1, <2>2
  <2>4. Interior # <<>>
    BY <2>2
  <2>. QED
    BY <1>1, <1>5, <2>3, <2>4 DEF DoContain, InsideOf
<1>6. ASSUME InsideOf(q)
      PROVE  \E x \in world.inside : x[1] = q /\ x[3] \in Solids /\ ~ Allowed(x[2][1], x[3], call.acm)
  <2>1. PICK i \in DOMAIN Interior, o \in Solids :
          <<q, Interior[i], o>> \in world.inside /\ <<Interior[i][1], o>> \notin contain_skip
    BY <1>6 DEF InsideOf
  <2>2. Interior[i] \in Points
    BY PointsKept
  <2>3. ~ Allowed(Interior[i][1], o, call.acm)
    BY <1>2, <1>3, <1>4, <2>1, <2>2
  <2> DEFINE x == <<q, Interior[i], o>>
  <2>4. x \in world.inside /\ x[1] = q /\ x[2] = Interior[i] /\ x[3] = o
    BY <2>1
  <2> HIDE DEF x
  <2>. QED
    BY <2>1, <2>3, <2>4
<1>. QED
  BY <1>5, <1>6

\* The commands that stay when the first one goes to the device.
LEMMA OwnPopped ==
  ASSUME TInv, UNCHANGED <<world, host>>, stream # <<>>, stream' = Tail(stream)
  PROVE  /\ \A i \in 1 .. Len(stream) - 1 : Own(i + 1) => Own(i)'
         /\ \A k \in 0 .. Len(stream) - 1 : \A c : InStream(c, k + 1) => InStream(c, k)'
         /\ \A c : InStream(c, 0) => InStream(c, 1) \/ (stream[1].do = "copy_params" /\ Covers(stream[1].p, c))
<1>1. /\ 1 \in DOMAIN stream /\ Len(stream) \in Nat \ {0} /\ Len(stream') = Len(stream) - 1
      /\ DOMAIN stream = 1 .. Len(stream) /\ DOMAIN stream' = 1 .. Len(stream) - 1
      /\ \A i \in DOMAIN stream' : i + 1 \in DOMAIN stream /\ stream'[i] = stream[i + 1]
  BY Popped
<1>2. n' = n /\ pc' = pc /\ \A p : Mine(p)' = Mine(p)
  BY AnswerFramed DEF host
<1>3. ASSUME NEW i \in 1 .. Len(stream) - 1, Own(i + 1)
      PROVE  Own(i)'
  <2>1. stream'[i] = stream[i + 1] /\ (i = Len(stream') <=> i + 1 = Len(stream))
    BY <1>1
  <2>2. stream[i + 1].do = "copy_params" => Mine(stream[i + 1].p)
    BY <1>3 DEF Own
  <2>3. stream'[i].do = "copy_params" => Mine(stream[i].p)'
    BY <1>2, <2>1, <2>2 DEF Mine, host
  <2>. QED
    BY <1>2, <1>3, <2>1, <2>3 DEF Own
<1>4. ASSUME NEW k \in 0 .. Len(stream) - 1, NEW c, InStream(c, k + 1)
      PROVE  InStream(c, k)'
  <2>1. PICK i \in (k + 1) + 1 .. Len(stream) : stream[i].do = "copy_params" /\ Covers(stream[i].p, c)
    BY <1>4 DEF InStream
  <2>2. i - 1 \in k + 1 .. Len(stream') /\ i - 1 \in DOMAIN stream' /\ (i - 1) + 1 = i
    BY <1>1, <2>1
  <2>3. stream'[i - 1] = stream[i]
    BY <1>1, <2>2
  <2>. QED
    BY <2>1, <2>2, <2>3 DEF InStream, Covers
<1>5. ASSUME NEW c, InStream(c, 0)
      PROVE  InStream(c, 1) \/ (stream[1].do = "copy_params" /\ Covers(stream[1].p, c))
  <2>1. PICK i \in 0 + 1 .. Len(stream) : stream[i].do = "copy_params" /\ Covers(stream[i].p, c)
    BY <1>5 DEF InStream
  <2>2. i = 1 \/ i \in 1 + 1 .. Len(stream)
    BY <1>1, <2>1
  <2>. QED
    BY <2>1, <2>2 DEF InStream
<1>. QED
  BY <1>3, <1>4, <1>5

\* A command of an earlier query goes to the device.
LEMMA SincePopped ==
  ASSUME TInv, UNCHANGED <<world, host>>, stream # <<>>, stream' = Tail(stream),
         NEW k \in 2 .. Len(stream), Since(k)
  PROVE  k - 1 \in 0 .. Len(stream') /\ Since(k - 1)'
<1>1. /\ Len(stream) \in Nat \ {0} /\ Len(stream') = Len(stream) - 1 /\ DOMAIN stream' = 1 .. Len(stream) - 1
      /\ \A i \in DOMAIN stream' : stream'[i] = stream[i + 1]
  BY Popped
<1>2. n' = n /\ pc' = pc /\ c0' = c0
  BY AnswerFramed DEF host
<1>3. PICK m \in Nat \ {0} : m = k - 1 /\ m + 1 = k /\ m \in 0 .. Len(stream) - 1
  OBVIOUS
<1>4. \A i \in m + 1 .. Len(stream') : Own(i)'
  <2>1. \A i \in m + 1 .. Len(stream') : i \in 1 .. Len(stream) - 1 /\ i + 1 \in k + 1 .. Len(stream)
    BY <1>1, <1>3
  <2>. QED
    BY <2>1, OwnPopped DEF Since
<1>5. stream'[m] = [do |-> "clear", size |-> n']
  <2>1. m \in DOMAIN stream' /\ stream'[m] = stream[k]
    BY <1>1, <1>3
  <2>. QED
    BY <1>2, <2>1 DEF Since
<1>6. \A c \in 1 .. c0' : InStream(c, m)'
  <2>1. \A c \in 1 .. c0 : InStream(c, m + 1)
    BY <1>3 DEF Since
  <2>. QED
    BY <1>2, <1>3, <2>1, OwnPopped
<1>7. pc' \in {"self", "join"} => Closing(m)'
  <2> SUFFICES ASSUME pc \in {"self", "join"}
               PROVE  Closing(m)'
    BY <1>2
  <2>1. c0 = n /\ k < Len(stream) /\ stream[Len(stream)].do = "copy_hits"
    BY <1>3 DEF Since, Closing
  <2>2. m < Len(stream') /\ stream'[Len(stream')] = stream[Len(stream)]
    <3>1. Len(stream') \in DOMAIN stream' /\ Len(stream') + 1 = Len(stream) /\ m < Len(stream')
      BY <1>1, <1>3, <2>1
    <3>. QED
      BY <1>1, <3>1
  <2>. QED
    BY <1>2, <2>1, <2>2 DEF Closing
<1>8. Since(m)'
  BY <1>3, <1>4, <1>5, <1>6, <1>7 DEF Since
<1>. QED
  BY <1>1, <1>3, <1>8

\* Nothing but the device's part changes under commands of an earlier query.
LEMMA SinceLater ==
  ASSUME UNCHANGED <<world, host, stream>>, NEW k \in 1 .. Len(stream), Since(k)
  PROVE  Since(k)'
<1>1. n' = n /\ pc' = pc /\ c0' = c0 /\ \A p : Mine(p)' = Mine(p)
  BY AnswerFramed DEF host
<1>2. \A i : Own(i) => Own(i)'
  BY <1>1 DEF Own, Mine, host
<1>3. \A c : InStream(c, k) => InStream(c, k)'
  BY DEF InStream, Covers
<1>4. Closing(k) => Closing(k)'
  BY <1>1 DEF Closing
<1>. QED
  BY <1>1, <1>2, <1>3, <1>4 DEF Since

\* The host goes on; the stream and the device stand still.
LEMMA SinceStill ==
  ASSUME UNCHANGED <<world, query, call, c0, d_out, d_params, h_hits, stream, launch>>,
         (pc = "mask" /\ pc' = "launch") \/ (pc = "self" /\ pc' = "join"),
         NEW k \in 0 .. Len(stream), Since(k)
  PROVE  Since(k)'
<1>1. /\ n' = n /\ Param' = Param
      /\ \A q : EnvHit(q)' = EnvHit(q)
      /\ \A r, c : Crosses(r, c)' = Crosses(r, c)
      /\ \A p : Mine(p)' = Mine(p)
  BY AnswerFramed
<1>2. \A i : Own(i) => Own(i)'
  BY <1>1 DEF Own, Mine
<1>3. \A c : InStream(c, k) => InStream(c, k)'
  BY DEF InStream, Covers
<1>4. Loaded' = Loaded /\ Running' = Running
  BY <1>1 DEF Loaded, Running, Mine
<1>5. Cleared => Cleared'
  BY <1>1, <1>4 DEF Cleared
<1>6. \A c : AboutToRun(c) => AboutToRun(c)'
  BY <1>4 DEF AboutToRun, Covers
<1>7. \A c : UnderWay(c) => UnderWay(c)'
  BY <1>1, <1>4 DEF UnderWay, Covers, Threads
<1>8. \A c : Told(c) => Told(c)'
  BY <1>1 DEF Told
<1>9. Closing(k) => Closing(k)'
  <2>1. HitsRight => HitsRight'
    BY <1>1 DEF HitsRight
  <2>. QED
    BY <1>1, <2>1 DEF Closing
<1>. QED
  BY <1>2, <1>3, <1>5, <1>6, <1>7, <1>8, <1>9, <1>1 DEF Since

\* A clear is enqueued: nothing follows it yet.
LEMMA SinceClear ==
  ASSUME TInv, Clear
  PROVE  \E k \in 0 .. Len(stream') : Since(k)'
<1> DEFINE c == [do |-> "clear", size |-> n]
<1>1. stream' = Append(stream, c) /\ UNCHANGED <<world, query, call, c0>> /\ pc = "clear" /\ pc' = "mask"
  BY DEF Clear, Goto
<1>2. c \in Commands
  BY DEF TInv, HostInv, n, Copies, Commands
<1>3. n' = n /\ c0' = 0
  BY <1>1, AnswerFramed DEF TInv, StageInv
<1> HIDE DEF c
<1>4. /\ Len(stream) \in Nat /\ Len(stream') = Len(stream) + 1
      /\ stream'[Len(stream) + 1] = c
  BY <1>1, <1>2, Pushed
<1>5. PICK k \in Nat \ {0} : k = Len(stream) + 1 /\ k = Len(stream') /\ k \in 0 .. Len(stream')
  BY <1>4
<1>6. \A i \in k + 1 .. Len(stream') : FALSE
  BY <1>5
<1>7. stream'[k] = [do |-> "clear", size |-> n']
  BY <1>3, <1>4, <1>5 DEF c
<1>8. \A i \in 1 .. c0' : FALSE
  BY <1>3
<1>9. pc' \notin {"self", "join"}
  BY <1>1
<1>10. Since(k)'
  BY <1>5, <1>6, <1>7, <1>8, <1>9 DEF Since
<1>. QED
  BY <1>5, <1>10

\* The part of Since that a longer stream does not disturb.
LEMMA SincePushed ==
  ASSUME UNCHANGED <<world, query, call, d_out, d_params, launch>>,
         Len(stream) \in Nat, Len(stream') \in Nat, Len(stream) <= Len(stream'),
         \A i \in 1 .. Len(stream) : stream'[i] = stream[i],
         stream # <<>> => stream' # <<>> /\ 1 \in 1 .. Len(stream)
  PROVE  /\ \A k \in 0 .. Len(stream) : \A c : InStream(c, k) => InStream(c, k)'
         /\ \A c : AboutToRun(c) => AboutToRun(c)'
         /\ \A c : UnderWay(c) => UnderWay(c)'
         /\ \A c : Told(c) => Told(c)'
         /\ Cleared /\ (stream = <<>> => stream'[1].do # "launch") => Cleared'
<1>1. /\ n' = n /\ Param' = Param
      /\ \A q : EnvHit(q)' = EnvHit(q)
      /\ \A r, c : Crosses(r, c)' = Crosses(r, c)
      /\ \A p : Mine(p)' = Mine(p)
  BY AnswerFramed
<1>2. \A k \in 0 .. Len(stream) : \A c : InStream(c, k) => InStream(c, k)'
  <2> TAKE k \in 0 .. Len(stream)
  <2> TAKE c
  <2>1. \A i \in k + 1 .. Len(stream) : i \in k + 1 .. Len(stream') /\ stream'[i] = stream[i]
    OBVIOUS
  <2>. QED
    BY <2>1 DEF InStream, Covers
<1>3. Loaded' = Loaded /\ Running' = Running
  BY <1>1 DEF Loaded, Running, Mine
<1>4. \A c : AboutToRun(c) => AboutToRun(c)'
  BY <1>3 DEF AboutToRun, Covers
<1>5. \A c : UnderWay(c) => UnderWay(c)'
  BY <1>1, <1>3 DEF UnderWay, Covers, Threads
<1>6. \A c : Told(c) => Told(c)'
  BY <1>1 DEF Told
<1>7. Cleared /\ (stream = <<>> => stream'[1].do # "launch") => Cleared'
  <2> SUFFICES ASSUME Cleared, stream = <<>> => stream'[1].do # "launch"
               PROVE  Cleared'
    OBVIOUS
  <2>1. \A c \in 1 .. n' : d_out'[c] # 0 => EnvHit(call.batch[c])'
    BY <1>1 DEF Cleared
  <2>2. launch' # None => Running'
    BY <1>3 DEF Cleared
  <2>3. stream' # <<>> => (stream'[1].do = "launch" => Loaded')
    BY <1>3 DEF Cleared
  <2>. QED
    BY <2>1, <2>2, <2>3 DEF Cleared
<1>. QED
  BY <1>2, <1>4, <1>5, <1>6, <1>7

LEMMA SinceLaunch ==
  ASSUME TInv, Launch, NEW k \in 0 .. Len(stream), Since(k)
  PROVE  k \in 0 .. Len(stream') /\ Since(k)'
<1> DEFINE size == Smaller(MaxConfigs, n - c0)
           p == Params(size)
<1>1. UNCHANGED <<world, query, call, d_out, d_params, launch, pc>> /\ pc = "launch" /\ c0' = c0 + size
  BY DEF Launch, device
<1>2. /\ Mine(p)
      /\ Len(stream) \in Nat /\ Len(stream') = Len(stream) + 2
      /\ DOMAIN stream = 1 .. Len(stream) /\ DOMAIN stream' = 1 .. Len(stream) + 2
      /\ \A i \in DOMAIN stream : i \in DOMAIN stream' /\ stream'[i] = stream[i]
      /\ stream'[Len(stream) + 1] = [do |-> "copy_params", p |-> p]
      /\ stream'[Len(stream) + 2] = [do |-> "launch"]
  BY ChunkLaunched
<1>3. size \in Nat /\ c0 \in Nat /\ p.out = c0 /\ p.configs = size
  BY ChunkSize DEF Launch, TInv, HostInv, n, Params
<1> HIDE DEF size, p
<1>4. n' = n /\ \A pp : Mine(pp)' = Mine(pp)
  BY <1>1, AnswerFramed
<1>5. /\ \A kk \in 0 .. Len(stream) : \A c : InStream(c, kk) => InStream(c, kk)'
      /\ \A c : AboutToRun(c) => AboutToRun(c)'
      /\ \A c : UnderWay(c) => UnderWay(c)'
      /\ \A c : Told(c) => Told(c)'
      /\ Cleared /\ (stream = <<>> => stream'[1].do # "launch") => Cleared'
  <2>1. Len(stream') \in Nat /\ Len(stream) <= Len(stream')
    BY <1>2
  <2>2. \A i \in 1 .. Len(stream) : stream'[i] = stream[i]
    BY <1>2
  <2>3. stream # <<>> => stream' # <<>> /\ 1 \in 1 .. Len(stream)
    BY <1>2 DEF TInv, StreamInv
  <2>. QED
    BY <1>1, <1>2, <2>1, <2>2, <2>3, SincePushed
<1>6. ASSUME NEW i \in k + 1 .. Len(stream')
      PROVE  Own(i)'
  <2>1. CASE i <= Len(stream)
    <3>1. i \in k + 1 .. Len(stream) /\ i \in DOMAIN stream
      BY <1>2, <2>1
    <3>2. Own(i) /\ stream'[i] = stream[i] /\ stream[i].do # "copy_hits"
      BY <1>1, <1>2, <3>1 DEF Since, Own
    <3>. QED
      BY <1>1, <1>4, <3>2 DEF Own, Mine
  <2>2. CASE i = Len(stream) + 1
    BY <1>1, <1>2, <1>4, <2>2 DEF Own, Mine
  <2>3. CASE i = Len(stream) + 2
    BY <1>2, <2>3 DEF Own
  <2>. QED
    BY <1>2, <2>1, <2>2, <2>3
<1>7. k = 0 => Cleared'
  <2>1. stream = <<>> => stream'[1].do # "launch"
    <3>1. stream = <<>> => Len(stream) + 1 = 1
      OBVIOUS
    <3>. QED
      BY <1>2, <3>1
  <2>. QED
    BY <1>5, <2>1 DEF Since
<1>8. k # 0 => stream'[k] = [do |-> "clear", size |-> n']
  BY <1>2, <1>4 DEF Since
<1>9. ASSUME NEW c \in 1 .. c0'
      PROVE  InStream(c, k)' \/ (k = 0 /\ (AboutToRun(c)' \/ UnderWay(c)' \/ Told(c)'))
  <2>1. CASE c \in 1 .. c0
    BY <1>5, <2>1 DEF Since
  <2>2. CASE c \notin 1 .. c0
    <3>1. p.out < c /\ c <= p.out + p.configs
      BY <1>1, <1>3, <2>2
    <3>2. Len(stream) + 1 \in k + 1 .. Len(stream')
      BY <1>2
    <3>3. stream'[Len(stream) + 1].do = "copy_params" /\ stream'[Len(stream) + 1].p = p
      BY <1>2
    <3>4. Covers(stream'[Len(stream) + 1].p, c)
      BY <3>1, <3>3 DEF Covers
    <3>. QED
      BY <3>2, <3>3, <3>4 DEF InStream, Covers
  <2>. QED
    BY <2>1, <2>2
<1>10. pc' \notin {"self", "join"}
  BY <1>1
<1>11. k \in 0 .. Len(stream')
  BY <1>2
<1>. QED
  BY <1>6, <1>7, <1>8, <1>9, <1>10, <1>11 DEF Since

LEMMA SinceReadBack ==
  ASSUME TInv, ReadBack, NEW k \in 0 .. Len(stream), Since(k)
  PROVE  k \in 0 .. Len(stream') /\ Since(k)'
<1> DEFINE d == [do |-> "copy_hits", size |-> n]
<1>1. UNCHANGED <<world, query, call, d_out, d_params, launch, c0>> /\ pc = "launch" /\ pc' = "self"
      /\ stream' = Append(stream, d)
  BY DEF ReadBack, device, Goto
<1>2. d \in Commands
  BY DEF TInv, HostInv, n, Copies, Commands
<1>3. d.do = "copy_hits" /\ d.size = n
  OBVIOUS
<1> HIDE DEF d
<1>4. /\ Len(stream) \in Nat /\ Len(stream') = Len(stream) + 1
      /\ DOMAIN stream = 1 .. Len(stream) /\ DOMAIN stream' = 1 .. Len(stream) + 1
      /\ \A i \in DOMAIN stream : i \in DOMAIN stream' /\ stream'[i] = stream[i]
      /\ stream'[Len(stream) + 1] = d
  BY <1>1, <1>2, Pushed
<1>5. n' = n /\ \A pp : Mine(pp)' = Mine(pp)
  BY <1>1, AnswerFramed
<1>6. /\ \A kk \in 0 .. Len(stream) : \A c : InStream(c, kk) => InStream(c, kk)'
      /\ \A c : AboutToRun(c) => AboutToRun(c)'
      /\ \A c : UnderWay(c) => UnderWay(c)'
      /\ \A c : Told(c) => Told(c)'
      /\ Cleared /\ (stream = <<>> => stream'[1].do # "launch") => Cleared'
  <2>1. Len(stream') \in Nat /\ Len(stream) <= Len(stream')
    BY <1>4
  <2>2. \A i \in 1 .. Len(stream) : stream'[i] = stream[i]
    BY <1>4
  <2>3. stream # <<>> => stream' # <<>> /\ 1 \in 1 .. Len(stream)
    BY <1>4 DEF TInv, StreamInv
  <2>. QED
    BY <1>1, <1>4, <2>1, <2>2, <2>3, SincePushed
<1>7. ASSUME NEW i \in k + 1 .. Len(stream')
      PROVE  Own(i)'
  <2>1. CASE i <= Len(stream)
    <3>1. i \in k + 1 .. Len(stream) /\ i \in DOMAIN stream
      BY <1>4, <2>1
    <3>2. Own(i) /\ stream'[i] = stream[i] /\ stream[i].do # "copy_hits"
      BY <1>1, <1>4, <3>1 DEF Since, Own
    <3>. QED
      BY <1>1, <1>5, <3>2 DEF Own, Mine
  <2>2. CASE i = Len(stream) + 1
    BY <1>1, <1>3, <1>4, <1>5, <2>2 DEF Own
  <2>. QED
    BY <1>4, <2>1, <2>2
<1>8. k = 0 => Cleared'
  <2>1. stream = <<>> => stream'[1].do # "launch"
    <3>1. stream = <<>> => Len(stream) + 1 = 1
      OBVIOUS
    <3>. QED
      BY <1>3, <1>4, <3>1
  <2>. QED
    BY <1>6, <2>1 DEF Since
<1>9. k # 0 => stream'[k] = [do |-> "clear", size |-> n']
  BY <1>4, <1>5 DEF Since
<1>10. \A c \in 1 .. c0' : InStream(c, k)' \/ (k = 0 /\ (AboutToRun(c)' \/ UnderWay(c)' \/ Told(c)'))
  BY <1>1, <1>6 DEF Since
<1>11. Closing(k)'
  <2>1. c0 = n
    BY DEF ReadBack, TInv, HostInv, n
  <2>2. k < Len(stream') /\ stream'[Len(stream')].do = "copy_hits"
    BY <1>3, <1>4
  <2>. QED
    BY <1>1, <1>5, <2>1, <2>2 DEF Closing
<1>12. k \in 0 .. Len(stream')
  BY <1>4
<1>. QED
  BY <1>7, <1>8, <1>9, <1>10, <1>11, <1>12 DEF Since

\* Behind any other command there is no launch.
LEMMA LaunchFollows ==
  ASSUME TInv, stream # <<>>, stream' = Tail(stream), stream' # <<>>, stream'[1].do = "launch"
  PROVE  stream[1].do = "copy_params"
<1>1. /\ DOMAIN stream = 1 .. Len(stream) /\ DOMAIN stream' = 1 .. Len(stream) - 1
      /\ \A i \in DOMAIN stream' : i + 1 \in DOMAIN stream /\ stream'[i] = stream[i + 1]
  BY Popped
<1>2. 1 \in DOMAIN stream'
  <2>1. stream' \in Seq(Commands)
    BY DEF TInv, StreamInv
  <2>. QED
    BY <2>1
<1>3. PICK m \in Nat : m = 1
  OBVIOUS
<1>4. m + 1 \in DOMAIN stream /\ stream[m + 1].do = "launch"
  BY <1>1, <1>2, <1>3
<1>5. (m + 1) - 1 = m /\ m + 1 # 1
  BY <1>3
<1>6. Paired
  BY DEF TInv, StreamInv
<1>7. stream[m].do = "copy_params"
  BY <1>4, <1>5, <1>6 DEF Paired
<1>. QED
  BY <1>3, <1>7

LEMMA SinceZeroed ==
  ASSUME TInv, ZeroHits, n <= Len(d_out), Since(1)
  PROVE  Since(0)'
<1>1. UNCHANGED <<world, host>> /\ stream # <<>> /\ stream' = Tail(stream) /\ launch = None /\ launch' = launch
  BY DEF ZeroHits, Command
<1>2. /\ 1 \in DOMAIN stream /\ Len(stream) \in Nat \ {0} /\ Len(stream') = Len(stream) - 1
      /\ DOMAIN stream = 1 .. Len(stream) /\ DOMAIN stream' = 1 .. Len(stream) - 1
      /\ \A i \in DOMAIN stream' : i + 1 \in DOMAIN stream /\ stream'[i] = stream[i + 1]
  BY <1>1, Popped
<1>3. n' = n /\ pc' = pc /\ c0' = c0 /\ n \in Nat
  BY <1>1, AnswerFramed DEF host, TInv, HostInv, n
<1>4. stream[1] = [do |-> "clear", size |-> n]
  BY DEF Since
<1>5. \A i \in 0 + 1 .. Len(stream') : Own(i)'
  <2>1. \A i \in 0 + 1 .. Len(stream') : i \in 1 .. Len(stream) - 1 /\ i + 1 \in 1 + 1 .. Len(stream)
    BY <1>2
  <2>. QED
    BY <1>1, <2>1, OwnPopped DEF Since
<1>6. Cleared'
  <2>1. \A c \in 1 .. n' : d_out'[c] = 0
    <3>1. d_out' = [i \in DOMAIN d_out |-> IF i <= stream[1].size THEN 0 ELSE d_out[i]]
      BY DEF ZeroHits
    <3>2. stream[1].size = n
      BY <1>4
    <3>3. \A c \in 1 .. n : c \in DOMAIN d_out /\ c <= n
      BY <1>3 DEF TInv, BufferInv
    <3>. QED
      BY <1>3, <3>1, <3>2, <3>3
  <2>2. stream' # <<>> => stream'[1].do # "launch"
    BY <1>1, <1>4, LaunchFollows
  <2>. QED
    BY <1>1, <2>1, <2>2 DEF Cleared
<1>7. \A c \in 1 .. c0' : InStream(c, 0)'
  <2>1. \A c \in 1 .. c0 : InStream(c, 0 + 1)
    BY DEF Since
  <2>2. 0 \in 0 .. Len(stream) - 1
    BY <1>2
  <2>. QED
    BY <1>1, <1>3, <2>1, <2>2, OwnPopped
<1>8. pc' \in {"self", "join"} => Closing(0)'
  <2> SUFFICES ASSUME pc \in {"self", "join"}
               PROVE  Closing(0)'
    BY <1>3
  <2>1. c0 = n /\ 1 < Len(stream) /\ stream[Len(stream)].do = "copy_hits"
    BY DEF Since, Closing
  <2>2. 0 < Len(stream') /\ stream'[Len(stream')] = stream[Len(stream)]
    <3>1. Len(stream') \in DOMAIN stream' /\ Len(stream') + 1 = Len(stream) /\ 0 < Len(stream')
      BY <1>2, <2>1
    <3>. QED
      BY <1>2, <3>1
  <2>. QED
    BY <1>3, <2>1, <2>2 DEF Closing
<1>. QED
  BY <1>5, <1>6, <1>7, <1>8 DEF Since

\* The stream's first command is the query's own: where that leaves the others.
LEMMA SinceOwn ==
  ASSUME TInv, UNCHANGED <<world, host>>, stream # <<>>, stream' = Tail(stream), launch = None, Since(0)
  PROVE  /\ Own(1)
         /\ \A i \in 0 + 1 .. Len(stream') : Own(i)'
         /\ \A c : InStream(c, 0) => InStream(c, 0)' \/ (stream[1].do = "copy_params" /\ Covers(stream[1].p, c))
         /\ stream[1].do # "copy_hits" /\ pc' \in {"self", "join"} => Closing(0)'
         /\ \A c : ~ UnderWay(c)
<1>1. /\ 1 \in DOMAIN stream /\ Len(stream) \in Nat \ {0} /\ Len(stream') = Len(stream) - 1
      /\ DOMAIN stream = 1 .. Len(stream) /\ DOMAIN stream' = 1 .. Len(stream) - 1
      /\ \A i \in DOMAIN stream' : i + 1 \in DOMAIN stream /\ stream'[i] = stream[i + 1]
  BY Popped
<1>2. n' = n /\ pc' = pc /\ c0' = c0
  BY AnswerFramed DEF host
<1>3. \A i \in 0 + 1 .. Len(stream) : Own(i)
  BY DEF Since
<1>4. Own(1)
  BY <1>1, <1>3
<1>5. \A i \in 0 + 1 .. Len(stream') : Own(i)'
  <2>1. \A i \in 0 + 1 .. Len(stream') : i \in 1 .. Len(stream) - 1 /\ i + 1 \in 0 + 1 .. Len(stream)
    BY <1>1
  <2>. QED
    BY <1>3, <2>1, OwnPopped
<1>6. ASSUME NEW c, InStream(c, 0), ~ (stream[1].do = "copy_params" /\ Covers(stream[1].p, c))
      PROVE  InStream(c, 0)'
  <2>1. InStream(c, 0 + 1)
    BY <1>6, OwnPopped
  <2>2. 0 \in 0 .. Len(stream) - 1
    BY <1>1
  <2>. QED
    BY <2>1, <2>2, OwnPopped
<1>7. ASSUME stream[1].do # "copy_hits", pc \in {"self", "join"}
      PROVE  Closing(0)'
  <2>1. c0 = n /\ 0 < Len(stream) /\ stream[Len(stream)].do = "copy_hits"
    BY <1>7 DEF Since, Closing
  <2>2. 0 < Len(stream') /\ stream'[Len(stream')] = stream[Len(stream)]
    <3>1. Len(stream) # 1
      BY <1>7, <2>1
    <3>2. Len(stream') \in DOMAIN stream' /\ Len(stream') + 1 = Len(stream) /\ 0 < Len(stream')
      BY <1>1, <3>1
    <3>. QED
      BY <1>1, <3>2
  <2>. QED
    BY <1>2, <2>1, <2>2 DEF Closing
<1>8. \A c : ~ UnderWay(c)
  BY DEF UnderWay, Running
<1>. QED
  BY <1>2, <1>4, <1>5, <1>6, <1>7, <1>8

LEMMA SinceParams ==
  ASSUME TInv, CopyParams, Since(0)
  PROVE  Since(0)'
<1>1. UNCHANGED <<world, host, d_out, h_hits, launch>> /\ stream # <<>> /\ stream' = Tail(stream) /\ launch = None
      /\ stream[1].do = "copy_params" /\ d_params' = stream[1].p
  BY DEF CopyParams, Command
<1>2. /\ 1 \in DOMAIN stream /\ Len(stream) \in Nat \ {0} /\ DOMAIN stream' = 1 .. Len(stream) - 1
      /\ \A i \in DOMAIN stream' : stream'[i] = stream[i + 1]
  BY <1>1, Popped
<1>3. /\ Own(1)
      /\ \A i \in 0 + 1 .. Len(stream') : Own(i)'
      /\ \A c : InStream(c, 0) => InStream(c, 0)' \/ (stream[1].do = "copy_params" /\ Covers(stream[1].p, c))
      /\ stream[1].do # "copy_hits" /\ pc' \in {"self", "join"} => Closing(0)'
      /\ \A c : ~ UnderWay(c)
  BY <1>1, SinceOwn
<1>4. n' = n /\ c0' = c0 /\ Param' = Param /\ (\A q : EnvHit(q)' = EnvHit(q)) /\ \A p : Mine(p)' = Mine(p)
  BY <1>1, AnswerFramed DEF host
<1>5. Loaded'
  <2>1. stream[1].p \in Param /\ Mine(stream[1].p)
    BY <1>1, <1>3, FirstCommand DEF Own
  <2>. QED
    BY <1>1, <1>4, <2>1 DEF Loaded, Mine, host
<1>6. stream' # <<>> /\ stream'[1].do = "launch"
  <2>1. 2 \in DOMAIN stream /\ stream[2].do = "launch"
    <3>1. 1 + 1 \in DOMAIN stream /\ stream[1 + 1].do = "launch"
      BY <1>1, <1>2 DEF TInv, StreamInv, Paired
    <3>. QED
      BY <3>1
  <2>2. DOMAIN stream = 1 .. Len(stream)
    BY DEF TInv, StreamInv
  <2>3. 1 \in DOMAIN stream'
    BY <1>2, <2>1, <2>2
  <2>. QED
    BY <1>2, <2>1, <2>3
<1>7. Cleared'
  <2>1. \A c \in 1 .. n' : d_out'[c] # 0 => EnvHit(call.batch[c])'
    BY <1>1, <1>4 DEF Since, Cleared, host
  <2>. QED
    BY <1>1, <1>5, <2>1 DEF Cleared
<1>8. ASSUME NEW c \in 1 .. c0'
      PROVE  InStream(c, 0)' \/ AboutToRun(c)' \/ Told(c)'
  <2>1. InStream(c, 0) \/ AboutToRun(c) \/ Told(c)
    BY <1>3, <1>4 DEF Since
  <2>2. ~ AboutToRun(c)
    BY <1>1 DEF AboutToRun
  <2>3. Told(c) => Told(c)'
    BY <1>1, <1>4 DEF Told, host
  <2>4. ASSUME Covers(stream[1].p, c)
        PROVE  AboutToRun(c)'
    BY <1>1, <1>5, <1>6, <2>4 DEF AboutToRun, Covers
  <2>. QED
    BY <1>3, <2>1, <2>2, <2>3, <2>4
<1>. QED
  BY <1>1, <1>3, <1>7, <1>8 DEF Since

LEMMA SinceBegun ==
  ASSUME TInv, BeginLaunch, Since(0)
  PROVE  Since(0)'
<1>1. UNCHANGED <<world, host, d_out, d_params, h_hits>> /\ stream # <<>> /\ stream' = Tail(stream) /\ launch = None
      /\ stream[1].do = "launch"
      /\ launch' = [p |-> d_params, todo |-> ThreadsOf(d_params), tracing |-> {}]
  BY DEF BeginLaunch, Command, device, ThreadsOf
<1>2. /\ 1 \in DOMAIN stream /\ Len(stream) \in Nat \ {0}
      /\ DOMAIN stream = 1 .. Len(stream) /\ DOMAIN stream' = 1 .. Len(stream) - 1
      /\ \A i \in DOMAIN stream' : i + 1 \in DOMAIN stream /\ stream'[i] = stream[i + 1]
  BY <1>1, Popped
<1>3. /\ Own(1)
      /\ \A i \in 0 + 1 .. Len(stream') : Own(i)'
      /\ \A c : InStream(c, 0) => InStream(c, 0)' \/ (stream[1].do = "copy_params" /\ Covers(stream[1].p, c))
      /\ stream[1].do # "copy_hits" /\ pc' \in {"self", "join"} => Closing(0)'
      /\ \A c : ~ UnderWay(c)
  BY <1>1, SinceOwn
<1>4. /\ n' = n /\ c0' = c0 /\ Param' = Param
      /\ \A q : EnvHit(q)' = EnvHit(q)
      /\ \A r, c : Crosses(r, c)' = Crosses(r, c)
      /\ \A p : Mine(p)' = Mine(p)
  BY <1>1, AnswerFramed DEF host
<1>5. Loaded
  BY <1>1 DEF Since, Cleared
<1>6. launch' # None /\ launch'.p = d_params /\ launch'.todo = ThreadsOf(d_params)
  <2>1. launch'.p = d_params /\ launch'.todo = ThreadsOf(d_params)
    BY <1>1
  <2>2. DOMAIN launch' = {"p", "todo", "tracing"}
    BY <1>1
  <2>3. DOMAIN None = {}
    BY DEF None
  <2>. QED
    BY <2>1, <2>2, <2>3
<1>7. Running'
  BY <1>1, <1>4, <1>5, <1>6 DEF Running, Loaded, Mine, host
<1>8. stream' # <<>> => stream'[1].do # "launch"
  BY <1>1, LaunchFollows
<1>9. Cleared'
  <2>1. \A c \in 1 .. n' : d_out'[c] # 0 => EnvHit(call.batch[c])'
    BY <1>1, <1>4 DEF Since, Cleared, host
  <2>. QED
    BY <1>7, <1>8, <2>1 DEF Cleared
<1>10. ASSUME NEW c \in 1 .. c0'
       PROVE  InStream(c, 0)' \/ UnderWay(c)' \/ Told(c)'
  <2>1. InStream(c, 0) \/ AboutToRun(c) \/ Told(c)
    BY <1>3, <1>4 DEF Since
  <2>2. Told(c) => Told(c)'
    BY <1>1, <1>4 DEF Told, host
  <2>3. ASSUME AboutToRun(c)
        PROVE  UnderWay(c)'
    <3>1. Covers(d_params, c)
      BY <2>3 DEF AboutToRun
    <3>2. d_params.out \in Nat /\ d_params.configs \in Nat
      BY <1>5 DEF Loaded, Param
    <3>3. c - d_params.out \in 1 .. d_params.configs
      <4>1. c \in Nat
        BY <1>4 DEF TInv, HostInv, n
      <4>. QED
        BY <3>1, <3>2, <4>1 DEF Covers
    <3>4. \A r \in DOMAIN RayData : <<r, c - launch'.p.out>> \in Threads'
      BY <1>6, <3>3 DEF Threads, ThreadsOf
    <3>. QED
      BY <1>6, <1>7, <3>1, <3>4 DEF UnderWay, Covers
  <2>. QED
    BY <1>1, <1>3, <2>1, <2>2, <2>3
<1>. QED
  BY <1>1, <1>3, <1>9, <1>10 DEF Since

LEMMA SinceRead ==
  ASSUME TInv, CopyHits, Since(0)
  PROVE  Since(0)'
<1>1. UNCHANGED <<world, host, d_out, d_params, launch>> /\ stream # <<>> /\ stream' = Tail(stream) /\ launch = None
      /\ stream[1].do = "copy_hits" /\ h_hits' = Overwrite(h_hits, d_out, stream[1].size)
  BY DEF CopyHits, Command, device
<1>2. Len(stream) \in Nat \ {0} /\ Len(stream') = Len(stream) - 1
  BY <1>1, Popped
<1>3. Own(1) /\ \A c : ~ UnderWay(c)
  BY <1>1, SinceOwn
<1>4. Len(stream) = 1 /\ stream[1].size = n /\ pc \in {"self", "join"} /\ c0 = n
  BY <1>1, <1>3 DEF Own, Since, Closing
<1>5. stream' = <<>> /\ Len(stream') = 0
  <2>1. stream' \in Seq(Commands) /\ Len(stream') = 0
    BY <1>1, <1>2, <1>4 DEF TInv, StreamInv
  <2>. QED
    BY <2>1
<1>6. n' = n /\ c0' = c0 /\ (\A q : EnvHit(q)' = EnvHit(q)) /\ n \in Nat
  BY <1>1, AnswerFramed DEF host, TInv, HostInv, n
<1>7. ASSUME NEW c \in 1 .. n
      PROVE  (d_out[c] # 0) = EnvHit(call.batch[c])
  <2>1. ~ AboutToRun(c)
    BY <1>1 DEF AboutToRun
  <2>2. ~ InStream(c, 0)
    BY <1>1, <1>4 DEF InStream
  <2>3. Told(c)
    BY <1>3, <1>4, <2>1, <2>2 DEF Since
  <2>4. d_out[c] # 0 => EnvHit(call.batch[c])
    BY DEF Since, Cleared
  <2>5. EnvHit(call.batch[c]) \in BOOLEAN
    BY DEF EnvHit
  <2>. QED
    BY <2>3, <2>4, <2>5 DEF Told
<1>8. \A c \in 1 .. n : h_hits'[c] = d_out[c]
  <2>1. n <= Len(d_out) /\ n <= Len(h_hits) /\ h_hits' = Overwrite(h_hits, d_out, n)
    BY <1>1, <1>4, FirstCommand
  <2>2. h_hits \in Seq(HitValue) /\ d_out \in Seq(HitValue) /\ Len(h_hits) \in Nat
    BY DEF TInv, BufferInv
  <2>3. \A i \in 1 .. n : d_out[i] \in HitValue
    BY <1>6, <2>1, <2>2
  <2>4. \A i \in 1 .. Len(h_hits) : h_hits'[i] = IF i <= n THEN d_out[i] ELSE h_hits[i]
    BY SMTT(30), <1>6, <2>1, <2>2, <2>3, OverwriteType
  <2>. QED
    BY <1>6, <2>1, <2>2, <2>4
<1>9. HitsRight'
  BY <1>1, <1>6, <1>7, <1>8 DEF HitsRight, host
<1>10. Cleared'
  BY <1>1, <1>5, <1>6 DEF Since, Cleared, host
<1>11. \A c \in 1 .. c0' : Told(c)'
  <2>1. \A c \in 1 .. n : Told(c)
    BY <1>7 DEF Told
  <2>. QED
    BY <1>1, <1>4, <1>6, <2>1 DEF Told, host
<1>12. Closing(0)'
  BY <1>1, <1>4, <1>5, <1>6, <1>9 DEF Closing
<1>13. \A i \in 0 + 1 .. Len(stream') : Own(i)'
  BY <1>5
<1>. QED
  BY <1>10, <1>11, <1>12, <1>13 DEF Since

LEMMA SinceEnded ==
  ASSUME TInv, EndLaunch, Since(0)
  PROVE  Since(0)'
<1>1. UNCHANGED <<world, host, d_out, d_params, h_hits, stream>> /\ launch # None /\ launch' = None
      /\ launch.todo = {} /\ launch.tracing = {}
  BY DEF EndLaunch, device
<1>2. /\ n' = n /\ c0' = c0 /\ pc' = pc /\ Param' = Param
      /\ \A q : EnvHit(q)' = EnvHit(q)
      /\ \A p : Mine(p)' = Mine(p)
  BY <1>1, AnswerFramed DEF host
<1>3. \A i \in 0 + 1 .. Len(stream') : Own(i)'
  BY <1>1, <1>2 DEF Since, Own, Mine, host
<1>4. Loaded' = Loaded
  BY <1>1, <1>2 DEF Loaded, Mine, host
<1>5. Cleared'
  BY <1>1, <1>2, <1>4 DEF Since, Cleared, host
<1>6. ASSUME NEW c \in 1 .. c0'
      PROVE  InStream(c, 0)' \/ AboutToRun(c)' \/ Told(c)'
  <2>1. InStream(c, 0) \/ AboutToRun(c) \/ UnderWay(c) \/ Told(c)
    BY <1>2 DEF Since
  <2>2. InStream(c, 0) => InStream(c, 0)'
    BY <1>1 DEF InStream, Covers
  <2>3. AboutToRun(c) => AboutToRun(c)'
    BY <1>1, <1>4 DEF AboutToRun, Covers
  <2>4. Told(c) => Told(c)'
    BY <1>1, <1>2 DEF Told, host
  <2>5. ASSUME UnderWay(c)
        PROVE  Told(c)
    <3>1. \A r \in DOMAIN RayData : Crosses(r, c) => d_out[c] # 0
      BY <1>1, <2>5 DEF UnderWay, Threads
    <3>2. c \in 1 .. n
      BY <1>2 DEF TInv, HostInv, n
    <3>. QED
      BY <3>1, <3>2, RaysTell DEF TInv, Told
  <2>. QED
    BY <2>1, <2>2, <2>3, <2>4, <2>5
<1>7. pc' \in {"self", "join"} => Closing(0)'
  <2>1. pc \in {"self", "join"} => Closing(0)
    BY DEF Since
  <2>. QED
    BY <1>1, <1>2, <2>1 DEF Closing
<1>. QED
  BY <1>3, <1>5, <1>6, <1>7 DEF Since

LEMMA SinceThread ==
  ASSUME TInv, PoseInv, n <= Len(d_out), NEW t \in Threads, Look(t) \/ Trace(t), Since(0)
  PROVE  Since(0)'
<1>1. UNCHANGED <<world, host, d_params, h_hits, stream>> /\ launch # None
  BY DEF Look, Trace, device
<1>2. /\ n' = n /\ c0' = c0 /\ pc' = pc /\ Param' = Param
      /\ \A q : EnvHit(q)' = EnvHit(q)
      /\ \A r, c : Crosses(r, c)' = Crosses(r, c)
      /\ \A p : Mine(p)' = Mine(p)
  BY <1>1, AnswerFramed DEF host
<1>3. Running
  BY <1>1 DEF Since, Cleared
<1>4. t \in ThreadsOf(launch.p)
  BY <1>1 DEF Threads, TInv, DeviceInv
<1>5. /\ launch' = [p |-> launch'.p, todo |-> launch'.todo, tracing |-> launch'.tracing]
      /\ launch'.p = launch.p
      /\ Look(t) => /\ launch'.todo = launch.todo \ {t}
                    /\ launch'.tracing =
                         IF d_out[Out(t[2])] # 0 \/ PoseFor(t)[4] THEN launch.tracing ELSE launch.tracing \cup {t}
      /\ Trace(t) => launch'.todo = launch.todo /\ launch'.tracing = launch.tracing \ {t}
  BY <1>1, ThreadSteps DEF TInv
<1>6. launch' # None
  <2>1. DOMAIN launch' = {"p", "todo", "tracing"}
    BY <1>5
  <2>. QED
    BY <2>1 DEF None
<1>7. Running' /\ Loaded' = Loaded
  BY <1>1, <1>2, <1>3, <1>5, <1>6 DEF Running, Loaded, Mine, host
<1>8. Hits(t) <=> Crosses(t[1], Out(t[2]))
  BY <1>3, <1>4, RayHits
<1>9. PoseFor(t)[4] => ~ Crosses(t[1], Out(t[2]))
  BY <1>3, <1>4, RayHits
<1>10. t[1] \in DOMAIN RayData /\ Out(t[2]) \in 1 .. n /\ t = <<t[1], t[2]>>
       /\ launch.p.out \in Nat /\ t[2] \in Nat
  <2>1. t[1] \in DOMAIN RayData /\ Out(t[2]) \in 1 .. n
    BY <1>3, <1>4, PoseFound
  <2>2. t = <<t[1], t[2]>> /\ t[2] \in 1 .. launch.p.configs
    BY <1>4 DEF ThreadsOf
  <2>3. launch.p.out \in Nat /\ launch.p.configs \in Nat
    BY <1>3 DEF TInv, DeviceInv, Running, Param
  <2>. QED
    BY <2>1, <2>2, <2>3
<1>11. /\ Out(t[2]) \in DOMAIN d_out
       /\ \A c \in 1 .. n : c \in DOMAIN d_out
  BY <1>10 DEF TInv, BufferInv, HostInv, n
\* Nothing found is lost.
<1>12. \A c \in 1 .. n : d_out[c] # 0 => d_out'[c] # 0
  BY <1>11 DEF Look, Trace, device
<1>13. Trace(t) /\ Hits(t) => d_out'[Out(t[2])] # 0
  BY <1>11 DEF Look, Trace, device
\* Nothing is found that is not there.
<1>14. \A c \in 1 .. n : d_out'[c] # 0 => EnvHit(call.batch[c])
  <2>1. \A c \in 1 .. n : d_out[c] # 0 => EnvHit(call.batch[c])
    BY DEF Since, Cleared
  <2>2. CASE d_out' = d_out
    BY <2>1, <2>2
  <2>3. CASE d_out' = [d_out EXCEPT ![Out(t[2])] = 1] /\ Hits(t)
    <3>1. EnvHit(call.batch[Out(t[2])])
      BY <1>8, <1>10, <2>3, RaysTell DEF TInv
    <3> DEFINE o == Out(t[2])
    <3>2. d_out' = [d_out EXCEPT ![o] = 1]
      BY <2>3
    <3>3. EnvHit(call.batch[o])
      BY <3>1
    <3> HIDE DEF o
    <3>4. \A c \in 1 .. n : c # o => d_out'[c] = d_out[c]
      BY <1>11, <3>2
    <3>. QED
      BY <2>1, <3>3, <3>4
  <2>. QED
    BY <2>2, <2>3 DEF Look, Trace, device
<1>15. \A i \in 0 + 1 .. Len(stream') : Own(i)'
  BY <1>1, <1>2 DEF Since, Own, Mine, host
<1>16. Cleared'
  <2>1. \A c \in 1 .. n' : d_out'[c] # 0 => EnvHit(call.batch[c])'
    BY <1>1, <1>2, <1>14 DEF host
  <2>2. stream' # <<>> => (stream'[1].do = "launch" => Loaded')
    BY <1>1, <1>7 DEF Since, Cleared
  <2>. QED
    BY <1>7, <2>1, <2>2 DEF Cleared
<1>17. ASSUME NEW c \in 1 .. c0'
       PROVE  InStream(c, 0)' \/ AboutToRun(c)' \/ UnderWay(c)' \/ Told(c)'
  <2>1. InStream(c, 0) \/ AboutToRun(c) \/ UnderWay(c) \/ Told(c)
    BY <1>2 DEF Since
  <2>2. c \in 1 .. n /\ c \in Nat
    BY <1>2 DEF TInv, HostInv, n
  <2>3. InStream(c, 0) => InStream(c, 0)'
    BY <1>1 DEF InStream, Covers
  <2>4. AboutToRun(c) => AboutToRun(c)'
    BY <1>1, <1>7 DEF AboutToRun, Covers
  <2>5. Told(c) => Told(c)'
    BY <1>1, <1>2, <1>12, <2>2 DEF Told, host
  <2>6. ASSUME UnderWay(c)
        PROVE  UnderWay(c)'
    <3>1. ASSUME NEW r \in DOMAIN RayData, Crosses(r, c)
          PROVE  d_out'[c] # 0 \/ <<r, c - launch.p.out>> \in launch'.todo \cup launch'.tracing
      <4> DEFINE u == <<r, c - launch.p.out>>
      <4>1. d_out[c] # 0 \/ u \in launch.todo \cup launch.tracing
        BY <1>1, <2>6, <3>1 DEF UnderWay, Threads
      <4>2. CASE d_out[c] # 0
        BY <1>12, <2>2, <4>2
      <4>3. CASE u = t
        <5>1. t[1] = r /\ Out(t[2]) = c
          <6>1. u[1] = r /\ u[2] = c - launch.p.out
            OBVIOUS
          <6>2. t[1] = r /\ t[2] = c - launch.p.out
            BY <4>3, <6>1
          <6>. QED
            BY <1>10, <2>2, <6>2 DEF Out
        <5>2. Hits(t) /\ ~ PoseFor(t)[4]
          BY <1>8, <1>9, <3>1, <5>1
        <5>3. CASE Look(t)
          BY <1>5, <1>12, <2>2, <4>3, <5>1, <5>2, <5>3
        <5>4. CASE Trace(t)
          BY <1>13, <5>1, <5>2, <5>4
        <5>. QED
          BY <5>3, <5>4
      <4>4. CASE u \in (launch.todo \cup launch.tracing) \ {t}
        <5>1. u \in launch'.todo \cup launch'.tracing
          <6> HIDE DEF u
          <6>. QED
            BY <1>5, <4>4
        <5>. QED
          BY <5>1
      <4>. QED
        BY <4>1, <4>2, <4>3, <4>4
    <3>2. Covers(launch.p, c)
      BY <2>6 DEF UnderWay
    <3>. QED
      BY <1>2, <1>5, <1>6, <1>7, <3>1, <3>2 DEF UnderWay, Threads, Covers
  <2>. QED
    BY <2>1, <2>3, <2>4, <2>5, <2>6
<1>18. pc' \in {"self", "join"} => Closing(0)'
  <2>1. pc \in {"self", "join"} => Closing(0)
    BY DEF Since
  <2>2. Closing(0) => c0 = n /\ 0 < Len(stream) /\ stream[Len(stream)].do = "copy_hits"
    BY <1>1 DEF Closing
  <2>. QED
    BY <1>1, <1>2, <2>1, <2>2 DEF Closing
<1>. QED
  BY <1>15, <1>16, <1>17, <1>18 DEF Since

\* Where the clear is after a step of the device.
LEMMA SinceDevice ==
  ASSUME TInv, PoseInv, DeviceStep, n <= Len(d_out), NEW k \in 0 .. Len(stream), Since(k)
  PROVE  \E m \in 0 .. Len(stream') : Since(m)'
<1>1. CASE CopyPoses \/ ZeroHits \/ CopyParams \/ BeginLaunch \/ CopyHits
  <2>1. UNCHANGED <<world, host>> /\ stream # <<>> /\ stream' = Tail(stream) /\ launch = None
    BY <1>1 DEF CopyPoses, ZeroHits, CopyParams, BeginLaunch, CopyHits, Command
  <2>2. Len(stream) \in Nat \ {0} /\ Len(stream') = Len(stream) - 1
    BY <2>1, Popped
  <2>3. 0 \in 0 .. Len(stream')
    BY <2>2
  <2>4. CASE k = 0
    <3>1. Own(1)
      BY <2>1, <2>4, SinceOwn
    <3>2. ~ CopyPoses /\ ~ ZeroHits
      BY <3>1 DEF Own, CopyPoses, ZeroHits, Command
    <3>3. Since(0)'
      BY <1>1, <2>4, <3>2, SinceParams, SinceBegun, SinceRead
    <3>. QED
      BY <2>3, <3>3
  <2>5. CASE k = 1
    <3>1. stream[1].do = "clear"
      BY <2>5 DEF Since
    <3>2. ZeroHits
      BY <1>1, <3>1 DEF CopyPoses, ZeroHits, CopyParams, BeginLaunch, CopyHits, Command
    <3>3. Since(0)'
      BY <2>5, <3>2, SinceZeroed
    <3>. QED
      BY <2>3, <3>3
  <2>6. CASE k \in 2 .. Len(stream)
    <3>1. k - 1 \in 0 .. Len(stream') /\ Since(k - 1)'
      BY <2>1, <2>6, SincePopped
    <3>. QED
      BY <3>1
  <2>. QED
    BY <2>2, <2>4, <2>5, <2>6
<1>2. CASE EndLaunch \/ \E t \in Threads : Look(t) \/ Trace(t)
  <2>1. UNCHANGED <<world, host, stream>>
    BY <1>2 DEF EndLaunch, Look, Trace
  <2>2. CASE k = 0
    BY <1>2, <2>1, <2>2, SinceEnded, SinceThread
  <2>3. CASE k \in 1 .. Len(stream)
    BY <2>1, <2>3, SinceLater
  <2>. QED
    BY <2>2, <2>3
<1>. QED
  BY <1>1, <1>2 DEF DeviceStep

LEMMA AnswerInit == Init => AnswerInv
<1> SUFFICES ASSUME Init
             PROVE  AnswerInv
  OBVIOUS
<1>1. pc = "idle"
  BY DEF Init
<1>. QED
  BY <1>1 DEF AnswerInv, Asking, AnswersRight

\* The passes of the host: each adds its own part to the results.
LEMMA ResultsMerged ==
  ASSUME TInv, AnswerInv, SelfPass \/ Join \/ Contain
  PROVE  /\ pc' = "join" => \A c \in DOMAIN result' : (result'[c] = 1) = SelfHit(call.batch[c])'
         /\ pc' = "contain" => \A c \in DOMAIN result' :
              (result'[c] = 1) = (SelfHit(call.batch[c])' \/ EnvHit(call.batch[c])')
         /\ AnswersRight'
<1>1. /\ DOMAIN result = 1 .. n /\ n \in Nat
      /\ \A c \in 1 .. n : result[c] \in {0, 1}
  BY DEF TInv, HostInv, n
<1>2. UNCHANGED <<world, query, call>>
  BY DEF SelfPass, Join, Contain
<1>3. \A q : EnvHit(q)' = EnvHit(q) /\ SelfHit(q)' = SelfHit(q)
  BY <1>2, AnswerFramed
<1>4. \A q : EnvHit(q) \in BOOLEAN /\ SelfHit(q) \in BOOLEAN
  BY DEF EnvHit, SelfHit
<1>5. CASE SelfPass
  <2>1. pc' = "join" /\ result' = [c \in DOMAIN result |-> IF call.self /\ call.batch[c] \in world.self THEN 1 ELSE 0]
    BY <1>5 DEF SelfPass, Goto
  <2>2. \A c \in DOMAIN result' : (result'[c] = 1) <=> SelfHit(call.batch[c])
    BY <2>1 DEF SelfHit
  <2>3. \A c \in DOMAIN result' : (result'[c] = 1) = SelfHit(call.batch[c])'
    BY <1>2, <1>3, <1>4, <2>2
  <2>. QED
    BY <2>1, <2>3 DEF AnswersRight
<1>6. CASE Join
  <2>1. /\ pc = "join" /\ pc' = "contain" /\ (DoGpu => Quiet)
        /\ result' = [c \in DOMAIN result |-> IF DoGpu /\ h_hits[c] # 0 THEN 1 ELSE result[c]]
    BY <1>6 DEF Join, Goto
  <2>2. \A c \in 1 .. n : (result[c] = 1) <=> SelfHit(call.batch[c])
    BY <1>1, <2>1 DEF AnswerInv
  <2>3. \A c \in 1 .. n : (DoGpu /\ h_hits[c] # 0) <=> EnvHit(call.batch[c])
    <3>1. CASE ~ DoGpu
      BY <3>1, NothingToTrace DEF TInv
    <3>2. CASE DoGpu
      <4>1. stream = <<>> /\ Asking
        BY <2>1, <3>2 DEF Quiet, Asking
      <4>2. PICK k \in 0 .. Len(stream) : Since(k)
        BY <4>1 DEF AnswerInv
      <4>3. Len(stream) = 0 /\ k = 0
        BY <4>1, <4>2
      <4>4. HitsRight
        BY <2>1, <4>2, <4>3 DEF Since, Closing
      <4>. QED
        BY <3>2, <4>4 DEF HitsRight
    <3>. QED
      BY <3>1, <3>2
  <2>4. \A c \in DOMAIN result' : (result'[c] = 1) <=> (SelfHit(call.batch[c]) \/ EnvHit(call.batch[c]))
    BY <1>1, <2>1, <2>2, <2>3
  <2>5. \A c \in DOMAIN result' : (result'[c] = 1) = (SelfHit(call.batch[c])' \/ EnvHit(call.batch[c])')
    BY <1>2, <1>3, <1>4, <2>4
  <2>. QED
    BY <2>1, <2>5 DEF AnswersRight
<1>7. CASE Contain
  <2>1. /\ pc = "contain" /\ pc' = "returned"
        /\ result' = [c \in DOMAIN result |-> IF DoContain /\ InsideOf(call.batch[c]) THEN 1 ELSE result[c]]
    BY <1>7 DEF Contain, Goto
  <2>2. \A c \in 1 .. n : (result[c] = 1) <=> (SelfHit(call.batch[c]) \/ EnvHit(call.batch[c]))
    BY <1>1, <2>1 DEF AnswerInv
  <2>3. \A c \in 1 .. n : (result'[c] = 1) <=>
          (SelfHit(call.batch[c]) \/ EnvHit(call.batch[c]) \/ (DoContain /\ InsideOf(call.batch[c])))
    BY <1>1, <2>1, <2>2
  <2>4. \A c \in 1 .. n : (result'[c] = 1) <=> Colliding(call.batch[c], call)
    <3> TAKE c \in 1 .. n
    <3> DEFINE q == call.batch[c]
    <3>1. Colliding(q, call) <=> \/ SelfHit(q) \/ EnvHit(q)
                                 \/ \E x \in world.inside : x[1] = q /\ x[3] \in Solids /\ ~ Allowed(x[2][1], x[3], call.acm)
      BY DEF Colliding, SelfHit, EnvHit
    <3>2. Colliding(q, call) <=> (SelfHit(q) \/ EnvHit(q) \/ (DoContain /\ InsideOf(q)))
      BY <3>1, PointsTell DEF TInv
    <3>. QED
      BY <2>3, <3>2
  <2>5. \A q : Colliding(q, call)' = Colliding(q, call)
    BY <1>2 DEF Colliding
  <2>6. \A q : Colliding(q, call) \in BOOLEAN
    BY DEF Colliding
  <2>7. DOMAIN result' = 1 .. n
    BY <1>1, <2>1
  <2>8. \A c \in DOMAIN result' : (result'[c] = 1) = Colliding(call.batch[c], call)'
    BY <1>2, <2>4, <2>5, <2>6, <2>7
  <2>. QED
    BY <2>1, <2>8 DEF AnswersRight
<1>. QED
  BY <1>5, <1>6, <1>7

LEMMA AnswerPreserved ==
  ASSUME TInv, PoseInv, AnswerInv, [Next]_vars
  PROVE  AnswerInv'
<1>1. BuffersGrow /\ Len(d_out) \in Nat /\ Len(d_out') \in Nat /\ n \in Nat
  BY BuffersTyped DEF TInv, BufferInv, HostInv, n
<1>2. ASSUME Asking
      PROVE  n <= Len(d_out) /\ \E k \in 0 .. Len(stream) : Since(k)
  BY <1>2 DEF AnswerInv
<1>3. CASE \/ \E batch \in Batches, acm \in Acms, self \in BOOLEAN : Query(batch, acm, self)
           \/ UploadPoses \/ Throw
  <2>1. pc' \in {"pose", "clear", "idle"}
    BY <1>3 DEF Query, UploadPoses, Throw, Goto
  <2>. QED
    BY <2>1 DEF AnswerInv, Asking, AnswersRight
<1>4. CASE Pose
  <2>1. pc' \in {"upload", "self"} /\ (pc' = "self" => ~ DoGpu) /\ UNCHANGED <<world, query, call>>
    BY <1>4 DEF Pose, Goto
  <2>2. DoGpu' = DoGpu
    BY <2>1, AnswerFramed
  <2>. QED
    BY <2>1, <2>2 DEF AnswerInv, Asking, AnswersRight
<1>5. CASE Clear \/ UploadMask \/ Launch \/ ReadBack
  <2>1. /\ UNCHANGED <<world, query, call>>
        /\ pc' \in {"mask", "launch", "self"}
    BY <1>5 DEF Clear, UploadMask, Launch, ReadBack, Goto
  <2>2. n' = n
    BY <2>1, AnswerFramed
  <2>3. n' <= Len(d_out')
    <3>1. CASE Clear
      <4>1. StageInv' /\ pc' = "mask"
        BY <3>1, StageTyped DEF Clear, Goto
      <4>. QED
        BY <4>1 DEF StageInv
    <3>2. CASE UploadMask \/ Launch \/ ReadBack
      <4>1. Asking
        BY <3>2 DEF Asking, UploadMask, Launch, ReadBack
      <4>. QED
        BY <1>1, <1>2, <2>2, <4>1 DEF BuffersGrow
    <3>. QED
      BY <1>5, <3>1, <3>2
  <2>4. \E k \in 0 .. Len(stream') : Since(k)'
    <3>1. CASE Clear
      BY <3>1, SinceClear
    <3>2. CASE UploadMask \/ Launch \/ ReadBack
      <4>1. Asking
        BY <3>2 DEF Asking, UploadMask, Launch, ReadBack
      <4>2. PICK k \in 0 .. Len(stream) : Since(k)
        BY <1>2, <4>1
      <4>3. CASE UploadMask
        <5>1. UNCHANGED <<world, query, call, c0, d_out, d_params, h_hits, stream, launch>> /\ pc = "mask" /\ pc' = "launch"
          BY <4>3 DEF UploadMask, device, Goto
        <5>2. Since(k)'
          BY <4>2, <5>1, SinceStill
        <5>. QED
          BY <4>2, <5>1, <5>2
      <4>4. CASE Launch
        BY <4>2, <4>4, SinceLaunch
      <4>5. CASE ReadBack
        BY <4>2, <4>5, SinceReadBack
      <4>. QED
        BY <3>2, <4>3, <4>4, <4>5
    <3>. QED
      BY <1>5, <3>1, <3>2
  <2>. QED
    BY <2>1, <2>3, <2>4 DEF AnswerInv, AnswersRight
<1>6. CASE SelfPass \/ Join \/ Contain
  <2>1. UNCHANGED <<world, query, call, c0, d_out, d_params, h_hits, stream, launch>>
    BY <1>6 DEF SelfPass, Join, Contain, device
  <2>2. n' = n /\ DoGpu' = DoGpu
    BY <2>1, AnswerFramed
  <2>3. ASSUME Asking'
        PROVE  n' <= Len(d_out') /\ \E k \in 0 .. Len(stream') : Since(k)'
    <3>1. pc = "self" /\ pc' = "join" /\ DoGpu
      BY <1>6, <2>2, <2>3 DEF Asking, SelfPass, Join, Contain, Goto
    <3>2. Asking
      BY <3>1 DEF Asking
    <3>3. PICK k \in 0 .. Len(stream) : Since(k)
      BY <1>2, <3>2
    <3>4. Since(k)'
      BY <2>1, <3>1, <3>3, SinceStill
    <3>. QED
      BY <1>2, <2>1, <2>2, <3>2, <3>3, <3>4
  <2>. QED
    BY <1>6, <2>3, ResultsMerged DEF AnswerInv
<1>7. CASE DeviceStep \/ UNCHANGED vars
  <2>1. UNCHANGED <<world, host>>
    BY <1>7 DEF DeviceStep, CopyPoses, ZeroHits, CopyParams, BeginLaunch, EndLaunch, CopyHits, Look, Trace, vars
  <2>2. UNCHANGED <<world, query, call, pc, result, c0>>
    BY <2>1 DEF host
  <2>3. n' = n /\ DoGpu' = DoGpu /\ \A q : EnvHit(q)' = EnvHit(q) /\ SelfHit(q)' = SelfHit(q)
    BY <2>2, AnswerFramed
  <2>4. ASSUME Asking'
        PROVE  n' <= Len(d_out') /\ \E k \in 0 .. Len(stream') : Since(k)'
    <3>1. Asking
      BY <2>2, <2>3, <2>4 DEF Asking
    <3>2. n' <= Len(d_out')
      BY <1>1, <1>2, <2>3, <3>1 DEF BuffersGrow
    <3>3. PICK k \in 0 .. Len(stream) : Since(k)
      BY <1>2, <3>1
    <3>4. CASE DeviceStep
      BY <1>2, <3>1, <3>2, <3>3, <3>4, SinceDevice
    <3>5. CASE UNCHANGED vars
      <4>1. UNCHANGED <<world, query, call, c0, d_out, d_params, h_hits, stream, launch, pc>>
        BY <3>5 DEF vars, host, device
      <4>2. /\ Param' = Param /\ (\A r, c : Crosses(r, c)' = Crosses(r, c)) /\ \A p : Mine(p)' = Mine(p)
        BY <4>1, AnswerFramed
      <4>3. Since(k)'
        BY <2>3, <3>3, <4>1, <4>2 DEF Since, Own, Cleared, Closing, InStream, AboutToRun, UnderWay, Told, Covers,
               Loaded, Running, Mine, Threads, HitsRight
      <4>. QED
        BY <3>2, <3>3, <4>1, <4>3
    <3>. QED
      BY <1>7, <3>4, <3>5
  <2>5. AnswersRight'
    <3>1. \A q : Colliding(q, call)' = Colliding(q, call)
      BY <2>2 DEF Colliding
    <3>. QED
      BY <2>2, <3>1 DEF AnswerInv, AnswersRight
  <2>. QED
    BY <2>2, <2>3, <2>4, <2>5 DEF AnswerInv
<1>. QED
  BY <1>3, <1>4, <1>5, <1>6, <1>7 DEF Next, HostStep

(* A query that returns has found for every configuration of its batch whether it
   collides (OptixScene::query_batch with the programs it launches): for every
   model, environment and ACM, for every size of a launch and so every split of a
   batch into chunks, whatever the buffers and the stream hold of queries before,
   in whatever order the threads of a launch look and trace, with and without the
   cull (ADR-012, ADR-014). *)
THEOREM RightAnswers == Spec => []AnswersRight
<1>1. Init => TInv /\ PoseInv /\ AnswerInv
  BY InitTInv, PoseInit, AnswerInit
<1>2. TInv /\ PoseInv /\ AnswerInv /\ [Next]_vars => TInv' /\ PoseInv' /\ AnswerInv'
  BY TypePreserved, PosePreserved, AnswerPreserved
<1>3. AnswerInv => AnswersRight
  BY DEF AnswerInv
<1>. QED
  BY <1>1, <1>2, <1>3, PTL DEF Spec

===============================================================================
