----------------------- MODULE ClearanceField_proofs -----------------------
(* Proofs about ClearanceField, for every set of segments, every margin, every    *)
(* number of threads, and wherever and however often the device fails: the seeds,  *)
(* what the flood keeps of them, and the signs.                                    *)
EXTENDS ClearanceField, SequencesExt, FiniteSetTheorems, WellFoundedInduction, TLAPS

-------------------------------------------------------------------------------
(* Extrema, definitions by recursion on 1 .. n, flattened sequences *)

(* Every non-empty set of natural numbers has a least element. *)
LEMMA LeastElement ==
  ASSUME NEW T \in SUBSET Nat, T # {}
  PROVE  \E x \in T : \A y \in T : x <= y
<1>1. PICK x \in T : \A y \in T : ~ (<<y, x>> \in OpToRel(<, Nat))
  BY NatLessThanWellFounded, WFMin
<1>2. \A y \in T : ~ (y < x)
  BY <1>1 DEF OpToRel
<1>. QED
  BY <1>2

(* A non-empty finite set of integers has a least and a greatest element: Min and
   Max of it are what their names say. *)
LEMMA FiniteLeast ==
  ASSUME NEW S \in SUBSET Int, IsFiniteSet(S), S # {}
  PROVE  \E x \in S : \A y \in S : x <= y
<1> DEFINE Under(x) == {y \in S : y < x}
           Ranks == {Cardinality(Under(x)) : x \in S}
<1>1. \A x \in S : IsFiniteSet(Under(x)) /\ Cardinality(Under(x)) \in Nat
  BY FS_Subset, FS_CardinalityType
<1>2. PICK r \in Ranks : \A k \in Ranks : r <= k
  <2>1. Ranks \in SUBSET Nat /\ Ranks # {}
    BY <1>1
  <2> HIDE DEF Ranks
  <2>. QED
    BY <2>1, LeastElement
<1>3. PICK x \in S : r = Cardinality(Under(x))
  OBVIOUS
<1>4. ASSUME NEW y \in S, y < x
      PROVE  FALSE
  <2>1. Under(y) \in SUBSET Under(x) /\ y \in Under(x) /\ y \notin Under(y)
    <3>1. \A z \in S : z < y => z < x
      BY <1>4
    <3>2. ~ (y < y)
      BY <1>4
    <3>. QED
      BY <1>4, <3>1, <3>2
  <2>2. Cardinality(Under(x)) <= Cardinality(Under(y))
    BY <1>2, <1>3
  <2>3. Cardinality(Under(y)) <= Cardinality(Under(x))
    BY <1>1, <2>1, FS_Subset
  <2>4. Cardinality(Under(y)) \in Nat /\ Cardinality(Under(x)) \in Nat
    BY <1>1
  <2> HIDE DEF Under
  <2>. QED
    BY <1>1, <2>1, <2>2, <2>3, <2>4, FS_Subset
<1>. QED
  BY <1>4

LEMMA FiniteGreatest ==
  ASSUME NEW S \in SUBSET Int, IsFiniteSet(S), S # {}
  PROVE  \E x \in S : \A y \in S : y <= x
<1> DEFINE Mirror == {0 - x : x \in S}
           flip == [x \in S |-> 0 - x]
<1>1. Mirror \in SUBSET Int /\ Mirror # {}
  <2>1. \A x \in S : 0 - x \in Int
    OBVIOUS
  <2>2. \E x \in S : 0 - x \in Mirror
    OBVIOUS
  <2>. QED
    BY <2>1, <2>2
<1>2. IsFiniteSet(Mirror)
  <2>1. flip \in Surjection(S, Mirror)
    BY DEF Surjection
  <2> HIDE DEF flip, Mirror
  <2>. QED
    BY <2>1, FS_Surjection
<1>3. PICK m \in Mirror : \A k \in Mirror : m <= k
  <2> HIDE DEF Mirror
  <2>. QED
    BY <1>1, <1>2, FiniteLeast
<1>4. PICK x \in S : m = 0 - x
  OBVIOUS
<1>5. ASSUME NEW y \in S
      PROVE  y <= x
  <2>1. m <= 0 - y /\ x \in Int /\ y \in Int
    BY <1>3
  <2>. QED
    BY <1>4, <2>1
<1>. QED
  BY <1>5

(* A recursive definition over 1 .. n has a solution, and only one. *)
Recursion(n, S, base, op) == base \in S /\ op \in [1 .. n -> [S -> S]]

HasSolution(n, S, base, op) ==
  \E f \in [1 .. n -> S] : f[1] = base /\ \A i \in 2 .. n : f[i] = op[i][f[i - 1]]

LEMMA Iteration ==
  ASSUME NEW n \in Nat \ {0}, NEW S, NEW base, NEW op, Recursion(n, S, base, op)
  PROVE  HasSolution(n, S, base, op)
<1> USE DEF Recursion
<1> DEFINE Table(m, f) == f[1] = base /\ \A i \in 2 .. m : f[i] = op[i][f[i - 1]]
           Untabled == {m \in 1 .. n : \A f \in [1 .. m -> S] : ~ Table(m, f)}
<1>1. Untabled = {}
  <2>1. SUFFICES ASSUME Untabled # {}
                 PROVE  FALSE
    OBVIOUS
  <2>2. PICK m \in Untabled : \A k \in Untabled : m <= k
    <3>1. Untabled \in SUBSET Nat
      OBVIOUS
    <3> HIDE DEF Untabled
    <3>. QED
      BY <2>1, <3>1, LeastElement
  <2>3. m # 1
    <3>1. [i \in 1 .. 1 |-> base] \in [1 .. 1 -> S] /\ Table(1, [i \in 1 .. 1 |-> base])
      OBVIOUS
    <3>. QED
      BY ZenonT(30), <2>2, <3>1
  <2>4. m - 1 \in 1 .. n /\ m - 1 \notin Untabled
    <3>1. m \in 1 .. n /\ m - 1 \in 1 .. n /\ ~ (m <= m - 1)
      BY <2>2, <2>3
    <3> HIDE DEF Untabled
    <3>. QED
      BY <2>2, <3>1
  <2>5. PICK f \in [1 .. m - 1 -> S] : Table(m - 1, f)
    BY <2>4
  <2> DEFINE g == [i \in 1 .. m |-> IF i = m THEN op[m][f[m - 1]] ELSE f[i]]
  <2>6. m \in 1 .. n /\ f[m - 1] \in S /\ op[m][f[m - 1]] \in S
    BY <2>2, <2>3
  <2>7. g \in [1 .. m -> S]
    BY <2>2, <2>3, <2>6
  <2>8. g[1] = base
    BY <2>2, <2>3, <2>5
  <2>9. ASSUME NEW i \in 2 .. m
        PROVE  g[i] = op[i][g[i - 1]]
    <3>1. i \in 1 .. m /\ i - 1 \in 1 .. m /\ i - 1 # m
      BY <2>2, <2>9
    <3>2. g[i - 1] = f[i - 1]
      BY <3>1
    <3>3. CASE i = m
      BY <3>1, <3>2, <3>3
    <3>4. CASE i # m
      <4>1. g[i] = f[i] /\ i \in 2 .. m - 1
        BY <2>6, <2>9, <3>1, <3>4
      <4>. QED
        BY <2>5, <3>2, <4>1
    <3>. QED
      BY <3>3, <3>4
  <2>. QED
    BY <2>6, <2>7, <2>8, <2>9
<1>2. n \in 1 .. n /\ n \notin Untabled
  <2>1. n \in 1 .. n
    OBVIOUS
  <2> HIDE DEF Untabled
  <2>. QED
    BY <1>1, <2>1
<1>3. \E f \in [1 .. n -> S] : Table(n, f)
  <2> HIDE DEF Table
  <2>. QED
    BY <1>2
<1>. QED
  BY <1>3 DEF HasSolution

SameRecursion(n, f, g) ==
  /\ f = [i \in 1 .. n |-> f[i]] /\ g = [i \in 1 .. n |-> g[i]]
  /\ n > 0 => g[1] = f[1]
  /\ \A i \in 2 .. n : g[i - 1] = f[i - 1] => g[i] = f[i]

LEMMA IterationUnique ==
  ASSUME NEW n \in Nat, NEW f, NEW g, SameRecursion(n, f, g)
  PROVE  g = f
<1> USE DEF SameRecursion
<1> DEFINE Differ == {i \in 1 .. n : g[i] # f[i]}
<1>1. SUFFICES ASSUME Differ # {}
               PROVE  FALSE
  <2>1. (\A i \in 1 .. n : g[i] = f[i]) => g = f
    OBVIOUS
  <2>. QED
    BY <2>1
<1>2. PICK i \in Differ : \A j \in Differ : i <= j
  <2>1. Differ \in SUBSET Nat
    OBVIOUS
  <2> HIDE DEF Differ
  <2>. QED
    BY <1>1, <2>1, LeastElement
<1>3. i \in 2 .. n /\ i - 1 \in 1 .. n /\ ~ (i <= i - 1) /\ i \in Differ
  BY <1>2
<1>4. i - 1 \notin Differ
  <2> HIDE DEF Differ
  <2>. QED
    BY <1>2, <1>3
<1>. QED
  BY <1>3, <1>4

(* FlattenSeq is the last of the partial concatenations. *)
Concatenations(ss, n, f) ==
  f[1] = ss[1] /\ \A i \in 2 .. n : f[i] = f[i - 1] \o ss[i]

LEMMA FlattenTable ==
  ASSUME NEW S, NEW ss \in Seq(Seq(S)), Len(ss) # 0
  PROVE  \E f \in [1 .. Len(ss) -> Seq(S)] :
           Concatenations(ss, Len(ss), f) /\ FlattenSeq(ss) = f[Len(ss)]
<1> DEFINE n == Len(ss)
           T == Seq(S)
           Rec(f) == f = [i \in 1 .. n |-> IF i = 1 THEN ss[i] ELSE f[i - 1] \o ss[i]]
           flat == CHOOSE f : Rec(f)
           op == [i \in 1 .. n |-> [x \in T |-> x \o ss[i]]]
<1>1. n \in Nat \ {0} /\ \A i \in 1 .. n : ss[i] \in T
  OBVIOUS
<1>2. \A x \in T : \A y \in T : x \o y \in T
  OBVIOUS
<1>3. FlattenSeq(ss) = flat[n]
  BY DEF FlattenSeq
<1> HIDE DEF T, n
<1>4. Recursion(n, T, ss[1], op)
  BY <1>1, <1>2 DEF Recursion
<1>5. \A i \in 2 .. n : \A x \in T : op[i][x] = x \o ss[i]
  BY <1>1, SMTT(30)
<1> HIDE DEF op
<1>6. PICK f \in [1 .. n -> T] : f[1] = ss[1] /\ \A i \in 2 .. n : f[i] = op[i][f[i - 1]]
  <2>1. HasSolution(n, T, ss[1], op)
    BY <1>1, <1>4, Iteration
  <2>. QED
    BY <2>1 DEF HasSolution
<1>7. \A i \in 2 .. n : f[i - 1] \in T /\ f[i] = f[i - 1] \o ss[i]
  <2>1. \A i \in 2 .. n : f[i - 1] \in T
    BY <1>1
  <2>. QED
    BY <1>5, <1>6, <2>1
<1>8. Rec(f)
  <2>1. f = [i \in 1 .. n |-> f[i]]
    BY <1>6
  <2>2. \A i \in 1 .. n : i # 1 => i \in 2 .. n
    BY <1>1
  <2>3. \A i \in 1 .. n : f[i] = IF i = 1 THEN ss[i] ELSE f[i - 1] \o ss[i]
    BY <1>6, <1>7, <2>2
  <2>. QED
    BY <2>1, <2>3
<1>9. Rec(flat)
  <2> HIDE DEF Rec
  <2>. QED
    BY <1>8
<1>10. flat = f
  <2> HIDE DEF flat
  <2>1. 1 \in 1 .. n /\ \A i \in 2 .. n : i \in 1 .. n /\ i # 1
    BY <1>1
  <2>2. flat[1] = ss[1] /\ \A i \in 2 .. n : flat[i] = flat[i - 1] \o ss[i]
    BY <1>9, <2>1
  <2>3. f = [i \in 1 .. n |-> f[i]] /\ flat = [i \in 1 .. n |-> flat[i]]
    BY <1>6, <1>9
  <2>4. SameRecursion(n, f, flat)
    BY <1>6, <1>7, <2>2, <2>3 DEF SameRecursion
  <2>. QED
    BY <1>1, <2>4, IterationUnique
<1>11. Concatenations(ss, n, f) /\ FlattenSeq(ss) = f[n]
  <2> HIDE DEF flat
  <2>. QED
    BY <1>3, <1>6, <1>7, <1>10 DEF Concatenations
<1>. QED
  BY <1>6, <1>11 DEF n, T

(* FlattenSeq gives a sequence over the same elements. *)
LEMMA FlattenType ==
  ASSUME NEW S, NEW ss \in Seq(Seq(S))
  PROVE  FlattenSeq(ss) \in Seq(S)
<1>1. CASE Len(ss) = 0
  <2>1. ss = <<>>
    BY <1>1
  <2>. QED
    BY <1>1, <2>1 DEF FlattenSeq
<1>2. CASE Len(ss) # 0
  <2>1. PICK f \in [1 .. Len(ss) -> Seq(S)] : FlattenSeq(ss) = f[Len(ss)]
    BY <1>2, FlattenTable
  <2>2. Len(ss) \in 1 .. Len(ss)
    BY <1>2
  <2>. QED
    BY <2>1, <2>2
<1>. QED
  BY <1>1, <1>2

-------------------------------------------------------------------------------
(* The grid *)

LEMMA MinProperties ==
  ASSUME NEW S \in SUBSET Int, IsFiniteSet(S), S # {}
  PROVE  Min(S) \in S /\ \A y \in S : Min(S) <= y
BY FiniteLeast DEF Min

LEMMA MaxProperties ==
  ASSUME NEW S \in SUBSET Int, IsFiniteSet(S), S # {}
  PROVE  Max(S) \in S /\ \A y \in S : y <= Max(S)
BY FiniteGreatest DEF Max

LEMMA MinMaxOfTwo ==
  ASSUME NEW a \in Int, NEW b \in Int
  PROVE  /\ Min({a, b}) = IF a <= b THEN a ELSE b
         /\ Max({a, b}) = IF a <= b THEN b ELSE a
<1>1. IsFiniteSet({a, b})
  <2>1. {a, b} = {a} \cup {b}
    OBVIOUS
  <2>2. IsFiniteSet({a}) /\ IsFiniteSet({b})
    BY FS_Singleton
  <2>. QED
    BY <2>1, <2>2, FS_Union
<1>2. {a, b} \in SUBSET Int /\ {a, b} # {}
  OBVIOUS
<1>3. Min({a, b}) \in {a, b} /\ Min({a, b}) <= a /\ Min({a, b}) <= b
  BY <1>1, <1>2, MinProperties
<1>4. Max({a, b}) \in {a, b} /\ a <= Max({a, b}) /\ b <= Max({a, b})
  BY <1>1, <1>2, MaxProperties
<1>. QED
  BY <1>3, <1>4

(* The ends of a segment are ordered on each axis. *)
LEMMA SegmentsType ==
  ASSUME scene \in Scenes
  PROVE  /\ Segments \in Seq(Segment) /\ Len(Segments) \in Nat /\ Tris = 1 .. Len(Segments)
         /\ scene.margin \in Nat /\ scene.threads \in Nat \ {0}
         /\ \A t \in Tris, i \in {1, 2} :
              /\ Segments[t][1][i] \in Int /\ Segments[t][2][i] \in Int
              /\ Segments[t][1][i] <= Segments[t][2][i]
<1>1. scene.objects \in Seq(Seq(Segment)) /\ scene.margin \in Nat /\ scene.threads \in Nat \ {0}
  BY FieldAssumption
<1>2. Segments \in Seq(Segment)
  BY <1>1, FlattenType DEF Segments
<1>3. Len(Segments) \in Nat /\ Tris = 1 .. Len(Segments) /\ \A t \in Tris : Segments[t] \in Segment
  BY <1>2 DEF Tris
<1>. QED
  BY <1>1, <1>2, <1>3 DEF Segment, Point

LEMMA GridType ==
  ASSUME scene \in Scenes, Segments # <<>>, NEW i \in {1, 2}
  PROVE  Origin[i] \in Int /\ Side(i) \in Int
<1> DEFINE On == {p[i] : p \in Ends}
<1>1. Tris # {} /\ IsFiniteSet(Tris)
  <2>1. Len(Segments) # 0
    BY SegmentsType
  <2>2. Len(Segments) \in Nat /\ Tris = 1 .. Len(Segments)
    BY SegmentsType
  <2>3. 1 \in Tris
    BY <2>1, <2>2
  <2>4. IsFiniteSet(1 .. Len(Segments))
    BY <2>2, FS_Interval
  <2>. QED
    BY <2>2, <2>3, <2>4
<1>2. On \in SUBSET Int /\ On # {}
  BY <1>1, SegmentsType DEF Ends
<1>3. IsFiniteSet(On)
  <2> DEFINE low == [t \in Tris |-> Segments[t][1][i]]
             high == [t \in Tris |-> Segments[t][2][i]]
             Lows == {Segments[t][1][i] : t \in Tris}
             Highs == {Segments[t][2][i] : t \in Tris}
  <2>1. low \in Surjection(Tris, Lows) /\ high \in Surjection(Tris, Highs)
    BY DEF Surjection
  <2>2. IsFiniteSet(Lows) /\ IsFiniteSet(Highs)
    <3> HIDE DEF low, high, Lows, Highs
    <3>. QED
      BY <1>1, <2>1, FS_Surjection
  <2>3. On = Lows \cup Highs
    BY DEF Ends
  <2> HIDE DEF On, Lows, Highs
  <2>. QED
    BY <2>2, <2>3, FS_Union
<1> HIDE DEF On
<1>4. Min(On) \in Int /\ Max(On) \in Int
  BY <1>2, <1>3, MinProperties, MaxProperties
<1>5. Origin[i] = Min(On) - scene.margin
  BY DEF Origin, On
<1>6. Origin[i] \in Int
  BY <1>4, <1>5, SegmentsType
<1>7. Side(i) = ((Max(On) + scene.margin - Origin[i] + 1) \div 2) + 1
  BY DEF Side, On
<1>. QED
  BY <1>4, <1>6, <1>7, SegmentsType

(* The voxels a triangle is written to lie in the grid, and at most five half
   voxels from it on each axis: nearer than the code for "no triangle". *)
LEMMA ReachType ==
  ASSUME scene \in Scenes, NEW t \in Tris, NEW i \in {1, 2}, NEW n \in Reach(t, i)
  PROVE  /\ n \in Nat /\ n \in 0 .. Side(i) - 1
         /\ Segments[t][1][i] - 5 <= Origin[i] + 2 * n
         /\ Origin[i] + 2 * n <= Segments[t][2][i] + 5
<1> DEFINE a == Segments[t][1][i]
           b == Segments[t][2][i]
           o == Origin[i]
           m == Side(i) - 1
           lo == (5 * (a - o) - 18) \div 10
           hi == (5 * (b - o) + 18) \div 10
<1>1. Segments # <<>>
  BY SegmentsType DEF Tris
<1>2. a \in Int /\ b \in Int /\ o \in Int /\ m \in Int
  BY <1>1, SegmentsType, GridType
<1>3. n \in Max({0, lo}) .. Min({m, hi})
  BY DEF Reach
<1> HIDE DEF a, b, o, m
<1>4. lo \in Int /\ hi \in Int
  BY <1>2
<1>5. n \in Int /\ 0 <= n /\ lo <= n /\ n <= m /\ n <= hi
  <2> HIDE DEF lo, hi
  <2>1. Max({0, lo}) = IF 0 <= lo THEN lo ELSE 0
    BY <1>4, MinMaxOfTwo
  <2>2. Min({m, hi}) = IF m <= hi THEN m ELSE hi
    BY <1>2, <1>4, MinMaxOfTwo
  <2>3. Max({0, lo}) \in Int /\ Min({m, hi}) \in Int
    BY <1>2, <1>4, <2>1, <2>2
  <2>. QED
    BY <1>2, <1>3, <1>4, <2>1, <2>2, <2>3
<1>6. 5 * (a - o) - 18 < 10 * (lo + 1) /\ 10 * hi <= 5 * (b - o) + 18
  BY <1>2
<1> HIDE DEF lo, hi
<1>7. a - 5 <= o + 2 * n /\ o + 2 * n <= b + 5
  BY <1>2, <1>4, <1>5, <1>6
<1>. QED
  BY <1>2, <1>5, <1>7 DEF a, b, o, m

LEMMA ClampProperties ==
  ASSUME NEW n \in Int, NEW lo \in Int, NEW hi \in Int, lo <= hi
  PROVE  /\ Clamp(n, lo, hi) \in lo .. hi
         /\ Clamp(n, lo, hi) = IF n < lo THEN lo ELSE IF n > hi THEN hi ELSE n
<1>1. Min({n, hi}) = IF n <= hi THEN n ELSE hi
  BY MinMaxOfTwo
<1>2. Min({n, hi}) \in Int
  BY <1>1
<1>3. Max({lo, Min({n, hi})}) = IF lo <= Min({n, hi}) THEN Min({n, hi}) ELSE lo
  BY <1>2, MinMaxOfTwo
<1>. QED
  BY <1>1, <1>2, <1>3 DEF Clamp

Pairs == Nat \X Nat

LEMMA CodeType ==
  ASSUME scene \in Scenes, NEW t \in Tris, NEW v \in Near(t)
  PROVE  v \in Voxels /\ Code(v, t) \in Pairs /\ Below(Code(v, t), Empty) /\ Code(v, t) # Empty
<1>1. v[1] \in Reach(t, 1) /\ v[2] \in Reach(t, 2) /\ v = <<v[1], v[2]>>
  BY DEF Near
<1> DEFINE c == Center(v)
           p == Closest(c, t)
<1>2. Segments # <<>> /\ t \in Nat /\ t # 0
  BY SegmentsType DEF Tris
<1>3. /\ v[1] \in Nat /\ v[1] \in 0 .. Side(1) - 1 /\ v[2] \in Nat /\ v[2] \in 0 .. Side(2) - 1
      /\ Segments[t][1][1] - 5 <= Origin[1] + 2 * v[1] /\ Origin[1] + 2 * v[1] <= Segments[t][2][1] + 5
      /\ Segments[t][1][2] - 5 <= Origin[2] + 2 * v[2] /\ Origin[2] + 2 * v[2] <= Segments[t][2][2] + 5
  BY <1>1, ReachType
<1>4. c[1] = Origin[1] + 2 * v[1] /\ c[2] = Origin[2] + 2 * v[2]
  BY DEF Center
<1>5. Origin[1] \in Int /\ Origin[2] \in Int
  BY <1>2, GridType
<1>6. c[1] \in Int /\ c[2] \in Int
  BY <1>3, <1>4, <1>5
<1> HIDE DEF c
<1>7. ASSUME NEW i \in {1, 2}
      PROVE  p[i] \in Int /\ c[i] - p[i] \in -5 .. 5
  <2>1. p[i] = Clamp(c[i], Segments[t][1][i], Segments[t][2][i])
    BY DEF Closest
  <2>2. /\ Segments[t][1][i] \in Int /\ Segments[t][2][i] \in Int
        /\ Segments[t][1][i] <= Segments[t][2][i] /\ c[i] \in Int
    BY <1>6, SegmentsType
  <2>3. Segments[t][1][i] - 5 <= c[i] /\ c[i] <= Segments[t][2][i] + 5
    BY <1>3, <1>4
  <2> DEFINE a == Segments[t][1][i]
             b == Segments[t][2][i]
  <2> HIDE DEF p
  <2>4. p[i] = IF c[i] < a THEN a ELSE IF c[i] > b THEN b ELSE c[i]
    BY <2>1, <2>2, ClampProperties
  <2> HIDE DEF a, b
  <2>5. a \in Int /\ b \in Int /\ c[i] \in Int /\ a - 5 <= c[i] /\ c[i] <= b + 5
    BY <2>2, <2>3 DEF a, b
  <2>. QED
    BY <2>4, <2>5
<1>8. \A d \in -5 .. 5 : d * d \in 0 .. 25
  BY SMT
<1>9. (c[1] - p[1]) * (c[1] - p[1]) \in 0 .. 25 /\ (c[2] - p[2]) * (c[2] - p[2]) \in 0 .. 25
  BY <1>7, <1>8
<1>10. Square(c, p) \in 0 .. 50
  <2> DEFINE x == (c[1] - p[1]) * (c[1] - p[1])
             y == (c[2] - p[2]) * (c[2] - p[2])
  <2>1. Square(c, p) = x + y
    BY DEF Square
  <2> HIDE DEF x, y, p
  <2>2. x \in 0 .. 25 /\ y \in 0 .. 25
    BY <1>9 DEF x, y, p
  <2>. QED
    BY <2>1, <2>2
<1>11. Code(v, t) = <<Square(c, p), t>>
  BY DEF Code, c
<1>12. v \in Voxels
  BY <1>1, <1>3 DEF Voxels
<1> HIDE DEF p
<1>13. Square(c, p) \in Nat /\ Square(c, p) < 30000
  BY <1>10
<1>14. Code(v, t)[1] = Square(c, p) /\ Code(v, t)[2] = t /\ Empty[1] = 30000 /\ Empty[2] = 0
  BY <1>11 DEF Empty, Infinite
<1>. QED
  BY <1>2, <1>11, <1>12, <1>13, <1>14 DEF Pairs, Below

(* Codes are ordered by distance, then by triangle. *)
LEMMA BelowOrder ==
  ASSUME NEW c \in Pairs, NEW d \in Pairs, NEW e \in Pairs
  PROVE  /\ ~ Below(c, c)
         /\ ~ Below(c, d) /\ ~ Below(d, e) => ~ Below(c, e)
         /\ Below(c, d) => ~ Below(d, c)
BY DEF Pairs, Below

-------------------------------------------------------------------------------
(* Seeding *)

Grid == Nat \X Nat
Work == [tri : Nat, left : SUBSET Grid, loaded : BOOLEAN, current : Pairs]

(* The triangle a voxel holds is one of those near it. *)
Found(v) == best[v] = Empty \/ \E t \in Tris : v \in Near(t) /\ best[v] = Code(v, t)

(* Some thread still has triangle t to try on voxel v. *)
Pending(v, t) == \E i \in DOMAIN thread : thread[i].tri = t /\ v \in thread[i].left

(* Each triangle handed out has been tried on each of its voxels, or will be. *)
Tried(v) ==
  \A t \in Tris : t < next /\ v \in Near(t) => Pending(v, t) \/ ~ Below(Code(v, t), best[v])

(* A thread works on a triangle handed out; what it read of a voxel can only have
   been improved upon since. *)
AtWork(i) ==
  /\ thread[i].left # {} => thread[i].tri \in Tris /\ thread[i].tri < next
  /\ thread[i].left # {} => thread[i].left \subseteq Near(thread[i].tri)
  /\ thread[i].loaded => thread[i].left # {} /\ ~ Below(thread[i].current, best[Voxel(i)])

Exact(v) == Found(v) /\ \A t \in Tris : v \in Near(t) => ~ Below(Code(v, t), best[v])

Seeds(v) == IF best[v] = Empty THEN NoSeed ELSE Closest(Center(v), best[v][2])

Stages == {"start", "thrown", "seed", "device", "host", "distances", "sign", "built"}

FieldInv ==
  /\ scene \in Scenes
  /\ pc \in Stages
  /\ pc = "start" => thread = [i \in 1 .. scene.threads |-> Idle] /\ next = 1
  /\ pc = "seed" =>
       /\ next \in Nat \ {0} /\ next <= Len(Segments) + 1
       /\ thread \in [1 .. scene.threads -> Work]
       /\ best \in [Voxels -> Pairs]
       /\ \A i \in DOMAIN thread : AtWork(i)
       /\ \A v \in Voxels : Found(v) /\ Tried(v)
  /\ pc \in {"device", "host", "distances", "sign", "built"} =>
       \A v \in Voxels : best[v] \in Pairs /\ Exact(v)
  /\ pc \in {"seed", "device", "host"} => Segments # <<>>
  /\ pc = "host" => step \in Int /\ step <= FirstStep
  /\ pc = "device" => scene.gpu
  /\ pc = "host" /\ ~ scene.gpu /\ step = FirstStep => \A v \in Voxels : ids[v] = Seeds(v)

LEMMA GridUnchanged ==
  ASSUME scene' = scene
  PROVE  /\ Segments' = Segments /\ Tris' = Tris /\ Voxels' = Voxels /\ FirstStep' = FirstStep
         /\ \A t : Near(t)' = Near(t)
         /\ \A v : Center(v)' = Center(v)
         /\ \A v, t : Code(v, t)' = Code(v, t) /\ Closest(v, t)' = Closest(v, t)
BY DEF Segments, Tris, Voxels, FirstStep, Near, Reach, Code, Closest, Center, Side, Origin, Ends

LEMMA NearGrid ==
  ASSUME scene \in Scenes, NEW t \in Tris
  PROVE  Near(t) \subseteq Grid
<1>1. ASSUME NEW v \in Near(t)
      PROVE  v \in Grid
  <2>1. v[1] \in Reach(t, 1) /\ v[2] \in Reach(t, 2) /\ v = <<v[1], v[2]>>
    BY DEF Near
  <2>2. v[1] \in Nat /\ v[2] \in Nat
    BY <2>1, ReachType
  <2>. QED
    BY <2>1, <2>2 DEF Grid
<1>. QED
  BY <1>1

(* Row by row, a set of voxels has a first one. *)
LEMMA VoxelChosen ==
  ASSUME NEW i, thread[i].left \subseteq Grid, thread[i].left # {}
  PROVE  Voxel(i) \in thread[i].left
<1> DEFINE left == thread[i].left
           First(v) == \A w \in left : v[2] < w[2] \/ (v[2] = w[2] /\ v[1] <= w[1])
           Rows == {v[2] : v \in left}
<1>1. PICK y \in Rows : \A z \in Rows : y <= z
  <2>1. Rows \in SUBSET Nat /\ Rows # {}
    BY DEF Grid
  <2> HIDE DEF Rows
  <2>. QED
    BY <2>1, LeastElement
<1> DEFINE Row == {v[1] : v \in {w \in left : w[2] = y}}
<1>2. PICK x \in Row : \A z \in Row : x <= z
  <2>1. Row \in SUBSET Nat /\ Row # {}
    BY DEF Grid
  <2> HIDE DEF Row
  <2>. QED
    BY <2>1, LeastElement
<1>3. PICK v \in left : v[2] = y /\ v[1] = x
  OBVIOUS
<1>4. First(v)
  <2>1. SUFFICES ASSUME NEW w \in left
                 PROVE  v[2] < w[2] \/ (v[2] = w[2] /\ v[1] <= w[1])
    OBVIOUS
  <2>2. v[1] \in Nat /\ v[2] \in Nat /\ w[1] \in Nat /\ w[2] \in Nat
    BY DEF Grid
  <2>3. y <= w[2] /\ (w[2] = y => x <= w[1])
    BY <1>1, <1>2
  <2>. QED
    BY <1>3, <2>2, <2>3
<1>5. Voxel(i) = CHOOSE u \in left : First(u)
  BY DEF Voxel
<1> HIDE DEF First, left
<1>6. Voxel(i) \in left
  BY <1>3, <1>4, <1>5
<1>. QED
  BY <1>6 DEF left

LEMMA FirstStepType ==
  ASSUME scene \in Scenes, Segments # <<>>
  PROVE  FirstStep \in Int
<1>1. Side(1) \in Int /\ Side(2) \in Int
  BY GridType
<1>2. Max({Side(1), Side(2)}) \in Int
  BY <1>1, MinMaxOfTwo
<1>. QED
  BY <1>2 DEF FirstStep

LEMMA EmptyPair == Empty \in Pairs
BY DEF Empty, Infinite, Pairs

(* The new best of a voxel is a triangle near it, and no triangle tried on it so
   far is nearer: the step of one voxel under a step of one thread. *)
LEMMA WorkPreserves ==
  ASSUME FieldInv, pc = "seed", pc' = "seed", UNCHANGED <<scene, next>>,
         NEW i \in DOMAIN thread, NEW w \in Work, thread' = [thread EXCEPT ![i] = w],
         best' \in [Voxels -> Pairs],
         AtWork(i)',
         w.left \subseteq thread[i].left, w.tri = thread[i].tri \/ w.left = {},
         \A v \in Voxels : best'[v] = best[v] \/ Below(best'[v], best[v]),
         \A v \in Voxels : Found(v)',
         \A v \in thread[i].left \ w.left : ~ Below(Code(v, thread[i].tri), best'[v])
  PROVE  FieldInv'
<1>1. /\ scene \in Scenes /\ scene' = scene /\ next' = next
      /\ next \in Nat \ {0} /\ next <= Len(Segments) + 1 /\ Segments # <<>>
      /\ thread \in [1 .. scene.threads -> Work] /\ best \in [Voxels -> Pairs]
      /\ \A j \in DOMAIN thread : AtWork(j)
      /\ \A v \in Voxels : Found(v) /\ Tried(v)
  BY DEF FieldInv
<1>2. /\ thread' \in [1 .. scene.threads -> Work] /\ DOMAIN thread' = DOMAIN thread
      /\ thread'[i] = w /\ \A j \in DOMAIN thread : j # i => thread'[j] = thread[j]
  BY <1>1
<1>3. \A v \in Voxels : best[v] \in Pairs /\ best'[v] \in Pairs
  BY <1>1
<1>4. ASSUME NEW j \in DOMAIN thread, j # i
      PROVE  AtWork(j)'
  <2>1. thread'[j] = thread[j] /\ thread[j] \in Work
    BY <1>1, <1>2, <1>4
  <2>2. Voxel(j)' = Voxel(j)
    BY <2>1 DEF Voxel
  <2>3. AtWork(j)
    BY <1>1
  <2>4. ASSUME thread[j].loaded
        PROVE  ~ Below(thread[j].current, best'[Voxel(j)])
    <3>1. thread[j].left # {} /\ ~ Below(thread[j].current, best[Voxel(j)])
      BY <2>3, <2>4 DEF AtWork
    <3>2. thread[j].tri \in Tris /\ thread[j].left \subseteq Near(thread[j].tri)
      BY <2>3, <3>1 DEF AtWork
    <3>3. Voxel(j) \in Voxels
      BY <1>1, <3>1, <3>2, NearGrid, VoxelChosen, CodeType
    <3>4. thread[j].current \in Pairs
      BY <2>1 DEF Work
    <3>5. best'[Voxel(j)] = best[Voxel(j)] \/ ~ Below(best[Voxel(j)], best'[Voxel(j)])
      BY <1>3, <3>3, BelowOrder
    <3>6. CASE best'[Voxel(j)] = best[Voxel(j)]
      BY <3>1, <3>6
    <3>7. CASE ~ Below(best[Voxel(j)], best'[Voxel(j)])
      BY <1>3, <3>1, <3>3, <3>4, <3>7, BelowOrder
    <3>. QED
      BY <3>5, <3>6, <3>7
  <2>. QED
    BY <1>1, <2>1, <2>2, <2>3, <2>4, GridUnchanged DEF AtWork
<1>5. ASSUME NEW v \in Voxels
      PROVE  Tried(v)'
  <2>1. SUFFICES ASSUME NEW t \in Tris, t < next, v \in Near(t), ~ Pending(v, t)'
                 PROVE  ~ Below(Code(v, t), best'[v])
    BY <1>1, GridUnchanged DEF Tried
  <2>2. Code(v, t) \in Pairs
    BY <1>1, <2>1, CodeType
  <2>3. CASE Pending(v, t)
    <3>1. PICK j \in DOMAIN thread : thread[j].tri = t /\ v \in thread[j].left
      BY <2>3 DEF Pending
    <3>2. ~ (thread'[j].tri = t /\ v \in thread'[j].left)
      BY <1>2, <2>1, <3>1 DEF Pending
    <3>3. j = i
      BY <1>2, <3>1, <3>2
    <3>. QED
      BY <1>2, <3>1, <3>2, <3>3
  <2>4. CASE ~ Pending(v, t)
    <3>1. ~ Below(Code(v, t), best[v])
      BY <1>1, <2>1, <2>4 DEF Tried
    <3>2. best'[v] = best[v] \/ ~ Below(best[v], best'[v])
      BY <1>3, BelowOrder
    <3>. QED
      BY <1>3, <2>2, <3>1, <3>2, BelowOrder
  <2>. QED
    BY <2>3, <2>4
<1>6. \A j \in DOMAIN thread' : AtWork(j)'
  BY <1>2, <1>4
<1>7. \A v \in Voxels' : Found(v)' /\ Tried(v)'
  BY <1>1, <1>5, GridUnchanged
<1>. QED
  BY <1>1, <1>2, <1>6, <1>7, GridUnchanged DEF FieldInv, Stages

LEMMA LoadPreserves ==
  ASSUME FieldInv, NEW i \in DOMAIN thread, Load(i)
  PROVE  FieldInv'
<1> DEFINE w == [thread[i] EXCEPT !.loaded = TRUE, !.current = best[Voxel(i)]]
<1>1. /\ pc = "seed" /\ pc' = "seed" /\ scene' = scene /\ next' = next /\ best' = best
      /\ thread[i].left # {} /\ thread' = [thread EXCEPT ![i] = w]
  BY DEF Load
<1>2. /\ scene \in Scenes /\ thread \in [1 .. scene.threads -> Work] /\ best \in [Voxels -> Pairs]
      /\ AtWork(i) /\ \A v \in Voxels : Found(v) /\ Tried(v)
  BY <1>1 DEF FieldInv
<1>3. thread[i] \in Work /\ thread[i].tri \in Tris /\ thread[i].left \subseteq Near(thread[i].tri)
  BY <1>1, <1>2 DEF AtWork
<1>4. Voxel(i) \in Voxels
  BY <1>1, <1>2, <1>3, NearGrid, VoxelChosen, CodeType
<1>5. best[Voxel(i)] \in Pairs
  BY <1>2, <1>4
<1>6. w \in Work /\ w.left = thread[i].left /\ w.tri = thread[i].tri /\ w.current = best[Voxel(i)]
  BY <1>3, <1>5 DEF Work
<1>7. thread'[i] = w
  BY <1>1, <1>2
<1> HIDE DEF w
<1>8. Voxel(i)' = Voxel(i)
  BY <1>6, <1>7 DEF Voxel
<1>9. AtWork(i)'
  BY <1>1, <1>2, <1>3, <1>5, <1>6, <1>7, <1>8, GridUnchanged, BelowOrder DEF AtWork
<1>10. \A v \in Voxels : Found(v)'
  BY <1>1, <1>2, GridUnchanged DEF Found
<1>. QED
  BY <1>1, <1>2, <1>6, <1>9, <1>10, WorkPreserves

LEMMA AdvanceType ==
  ASSUME NEW i, thread[i] \in Work
  PROVE  /\ Advance(i) \in Work /\ Advance(i).left = thread[i].left \ {Voxel(i)}
         /\ Advance(i).tri = thread[i].tri /\ Advance(i).loaded = FALSE
BY EmptyPair DEF Advance, Work

LEMMA ExchangePreserves ==
  ASSUME FieldInv, NEW i \in DOMAIN thread, Exchange(i)
  PROVE  FieldInv'
<1> DEFINE v == Voxel(i)
           c == Code(v, thread[i].tri)
<1>1. pc = "seed" /\ pc' = "seed" /\ scene' = scene /\ next' = next /\ thread[i].loaded
  BY DEF Exchange
<1>2. /\ scene \in Scenes /\ thread \in [1 .. scene.threads -> Work] /\ best \in [Voxels -> Pairs]
      /\ AtWork(i) /\ \A u \in Voxels : Found(u) /\ Tried(u)
  BY <1>1 DEF FieldInv
<1>3. /\ thread[i] \in Work /\ thread[i].left # {} /\ thread[i].tri \in Tris /\ thread[i].tri < next
      /\ thread[i].left \subseteq Near(thread[i].tri)
      /\ ~ Below(thread[i].current, best[v])
  BY <1>1, <1>2 DEF AtWork
<1>4. v \in thread[i].left /\ v \in Near(thread[i].tri) /\ v \in Voxels /\ c \in Pairs
  BY <1>2, <1>3, NearGrid, VoxelChosen, CodeType
<1>5. best[v] \in Pairs /\ thread[i].current \in Pairs
  BY <1>2, <1>3, <1>4 DEF Work
<1>6. /\ Advance(i) \in Work /\ Advance(i).left = thread[i].left \ {v}
      /\ Advance(i).tri = thread[i].tri /\ Advance(i).loaded = FALSE
  BY <1>3, AdvanceType
<1>7. ASSUME thread' = [thread EXCEPT ![i] = Advance(i)]
      PROVE  AtWork(i)'
  <2>1. thread'[i] = Advance(i)
    BY <1>2, <1>7
  <2>. QED
    BY <1>1, <1>2, <1>3, <1>6, <2>1, GridUnchanged DEF AtWork
<1>8. CASE ~ Below(c, thread[i].current) /\ thread' = [thread EXCEPT ![i] = Advance(i)] /\ best' = best
  <2>1. ~ Below(c, best'[v])
    BY <1>3, <1>4, <1>5, <1>8, BelowOrder
  <2>2. \A u \in Voxels : Found(u)'
    BY <1>1, <1>2, <1>8, GridUnchanged DEF Found
  <2>3. \A u \in thread[i].left \ Advance(i).left : ~ Below(Code(u, thread[i].tri), best'[u])
    BY <1>6, <2>1
  <2> HIDE DEF v, c
  <2>. QED
    BY <1>1, <1>2, <1>6, <1>7, <1>8, <2>2, <2>3, WorkPreserves
<1>9. CASE /\ Below(c, thread[i].current) /\ best[v] = thread[i].current
           /\ best' = [best EXCEPT ![v] = c] /\ thread' = [thread EXCEPT ![i] = Advance(i)]
  <2>1. best' \in [Voxels -> Pairs] /\ best'[v] = c /\ \A u \in Voxels : u # v => best'[u] = best[u]
    BY <1>2, <1>4, <1>9
  <2>2. Below(best'[v], best[v]) /\ ~ Below(c, best'[v])
    BY <1>4, <1>9, <2>1, BelowOrder
  <2>3. ASSUME NEW u \in Voxels
        PROVE  Found(u)'
    <3>1. CASE u = v
      BY <1>1, <1>3, <1>4, <2>1, <3>1, GridUnchanged DEF Found
    <3>2. CASE u # v
      BY <1>1, <1>2, <2>1, <3>2, GridUnchanged DEF Found
    <3>. QED
      BY <3>1, <3>2
  <2>4. \A u \in thread[i].left \ Advance(i).left : ~ Below(Code(u, thread[i].tri), best'[u])
    BY <1>6, <2>2
  <2>5. \A u \in Voxels : best'[u] = best[u] \/ Below(best'[u], best[u])
    BY <2>1, <2>2
  <2> HIDE DEF v, c
  <2>. QED
    BY <1>1, <1>2, <1>6, <1>7, <1>9, <2>1, <2>3, <2>4, <2>5, WorkPreserves
<1>10. CASE /\ Below(c, thread[i].current) /\ best[v] # thread[i].current
            /\ thread' = [thread EXCEPT ![i].current = best[v]] /\ best' = best
  <2> DEFINE w == [thread[i] EXCEPT !.current = best[v]]
  <2>1. w \in Work /\ w.left = thread[i].left /\ w.tri = thread[i].tri /\ w.current = best[v]
    BY <1>3, <1>5 DEF Work
  <2>2. thread' = [thread EXCEPT ![i] = w] /\ thread'[i] = w
    BY <1>2, <1>10
  <2> HIDE DEF w
  <2>3. Voxel(i)' = v
    BY <2>1, <2>2 DEF Voxel
  <2>4. AtWork(i)'
    BY <1>1, <1>2, <1>3, <1>5, <1>10, <2>1, <2>2, <2>3, GridUnchanged, BelowOrder DEF AtWork
  <2>5. \A u \in Voxels : Found(u)'
    BY <1>1, <1>2, <1>10, GridUnchanged DEF Found
  <2> HIDE DEF v, c
  <2>. QED
    BY <1>1, <1>2, <1>10, <2>1, <2>2, <2>4, <2>5, WorkPreserves
<1>. QED
  BY <1>8, <1>9, <1>10 DEF Exchange

LEMMA StartPreserves ==
  ASSUME FieldInv, Start
  PROVE  FieldInv'
<1>1. /\ pc = "start" /\ pc' = "seed" /\ scene' = scene /\ next' = next /\ thread' = thread
      /\ Segments # <<>> /\ best' = [v \in Voxels |-> Empty]
  BY DEF Start
<1>2. scene \in Scenes /\ thread = [i \in 1 .. scene.threads |-> Idle] /\ next = 1
  BY <1>1 DEF FieldInv
<1>3. best' \in [Voxels -> Pairs] /\ \A v \in Voxels : best'[v] = Empty
  BY <1>1, EmptyPair
<1>4. Idle \in Work /\ Idle.left = {} /\ Idle.loaded = FALSE
  BY EmptyPair DEF Idle, Work
<1>5. thread' \in [1 .. scene.threads -> Work] /\ \A i \in DOMAIN thread' : AtWork(i)'
  BY <1>1, <1>2, <1>4 DEF AtWork
<1>6. \A v \in Voxels : Found(v)'
  BY <1>3 DEF Found
<1>7. \A v \in Voxels : Tried(v)'
  BY <1>1, <1>2, SegmentsType, GridUnchanged DEF Tried
<1>8. Len(Segments) \in Nat /\ Len(Segments) >= 1
  BY <1>1, <1>2, SegmentsType
<1>. QED
  BY <1>1, <1>2, <1>3, <1>5, <1>6, <1>7, <1>8, GridUnchanged DEF FieldInv, Stages

LEMMA TakePreserves ==
  ASSUME FieldInv, NEW i \in DOMAIN thread, Take(i)
  PROVE  FieldInv'
<1> DEFINE w == [Idle EXCEPT !.tri = next, !.left = Near(next)]
<1>1. /\ pc = "seed" /\ pc' = "seed" /\ scene' = scene /\ best' = best /\ next' = next + 1
      /\ thread[i].left = {} /\ next \in Tris /\ thread' = [thread EXCEPT ![i] = w]
  BY DEF Take
<1>2. /\ scene \in Scenes /\ thread \in [1 .. scene.threads -> Work] /\ best \in [Voxels -> Pairs]
      /\ next \in Nat \ {0} /\ Segments # <<>>
      /\ \A j \in DOMAIN thread : AtWork(j)
      /\ \A v \in Voxels : Found(v) /\ Tried(v)
  BY <1>1 DEF FieldInv
<1>3. w \in Work /\ w.tri = next /\ w.left = Near(next) /\ w.loaded = FALSE
  BY <1>1, <1>2, NearGrid, EmptyPair DEF Idle, Work
<1> HIDE DEF w
<1>4. /\ thread' \in [1 .. scene.threads -> Work] /\ DOMAIN thread' = DOMAIN thread
      /\ thread'[i] = w /\ \A j \in DOMAIN thread : j # i => thread'[j] = thread[j]
  BY <1>1, <1>2, <1>3
<1>5. next' \in Nat \ {0} /\ next' <= Len(Segments) + 1 /\ \A t \in Tris : t < next' <=> t < next \/ t = next
  BY <1>1, <1>2, SegmentsType
<1>6. ASSUME NEW j \in DOMAIN thread
      PROVE  AtWork(j)'
  <2>1. CASE j = i
    BY <1>1, <1>3, <1>4, <1>5, <2>1, GridUnchanged DEF AtWork
  <2>2. CASE j # i
    <3>1. thread'[j] = thread[j] /\ AtWork(j)
      BY <1>2, <1>4, <2>2
    <3>2. Voxel(j)' = Voxel(j)
      BY <3>1 DEF Voxel
    <3>. QED
      BY <1>1, <1>5, <3>1, <3>2, GridUnchanged DEF AtWork
  <2>. QED
    BY <2>1, <2>2
<1>7. \A v \in Voxels : Found(v)'
  BY <1>1, <1>2, GridUnchanged DEF Found
<1>8. ASSUME NEW v \in Voxels
      PROVE  Tried(v)'
  <2>1. SUFFICES ASSUME NEW t \in Tris, t < next', v \in Near(t)
                 PROVE  Pending(v, t)' \/ ~ Below(Code(v, t), best[v])
    BY <1>1, GridUnchanged DEF Tried
  <2>2. CASE t = next
    BY <1>3, <1>4, <2>1, <2>2 DEF Pending
  <2>3. CASE t # next
    <3>1. t < next
      BY <1>5, <2>1, <2>3
    <3>2. CASE Pending(v, t)
      <4>1. PICK j \in DOMAIN thread : thread[j].tri = t /\ v \in thread[j].left
        BY <3>2 DEF Pending
      <4>2. j # i
        BY <1>1, <4>1
      <4>. QED
        BY <1>4, <4>1, <4>2 DEF Pending
    <3>. QED
      BY <1>2, <2>1, <3>1, <3>2 DEF Tried
  <2>. QED
    BY <2>2, <2>3
<1>. QED
  BY <1>1, <1>2, <1>4, <1>5, <1>6, <1>7, <1>8, GridUnchanged DEF FieldInv, Stages

(* The threads are done: nothing is pending, so every triangle has been tried. *)
LEMMA CompactPreserves ==
  ASSUME FieldInv, Compact
  PROVE  FieldInv'
<1>1. /\ pc = "seed" /\ pc' = (IF scene.gpu THEN "device" ELSE "host")
      /\ scene' = scene /\ best' = best /\ step' = FirstStep
      /\ next \notin Tris /\ \A i \in DOMAIN thread : thread[i].left = {}
      /\ ids' = [v \in Voxels |-> Seeds(v)]
  BY DEF Compact, Seeds
<1>2. /\ scene \in Scenes /\ best \in [Voxels -> Pairs] /\ Segments # <<>>
      /\ next \in Nat \ {0} /\ next <= Len(Segments) + 1
      /\ \A v \in Voxels : Found(v) /\ Tried(v)
  BY <1>1 DEF FieldInv
<1>3. Len(Segments) \in Nat /\ Tris = 1 .. Len(Segments)
  BY <1>2, SegmentsType
<1>4. \A t \in Tris : t < next
  BY <1>1, <1>2, <1>3
<1>5. \A v \in Voxels : best[v] \in Pairs /\ Exact(v)
  BY <1>1, <1>2, <1>4 DEF Exact, Tried, Pending
<1>6. \A v \in Voxels : best'[v] \in Pairs /\ Exact(v)'
  BY <1>1, <1>5, GridUnchanged DEF Exact, Found
<1>7. \A v \in Voxels : ids'[v] = Seeds(v)'
  BY <1>1, GridUnchanged DEF Seeds
<1>8. FirstStep \in Int /\ FirstStep <= FirstStep
  BY <1>2, FirstStepType
<1>. QED
  BY <1>1, <1>2, <1>6, <1>7, <1>8, GridUnchanged DEF FieldInv, Stages

(* The flood and what follows leave the seeds' codes alone. *)
LEMMA FloodPreserves ==
  ASSUME FieldInv, UNCHANGED <<scene, best>>,
         pc \in {"device", "host", "distances", "sign", "built"},
         pc' \in {"host", "device", "distances", "sign", "built"},
         pc' \in {"device", "host"} => pc \in {"device", "host"},
         pc' = "device" => pc = "device",
         pc' = "host" => step' \in Int /\ step' <= FirstStep,
         pc' = "host" /\ ~ scene.gpu /\ step' = FirstStep =>
           pc = "host" /\ step = FirstStep /\ ids' = ids
  PROVE  FieldInv'
<1>1. scene' = scene /\ best' = best /\ scene \in Scenes
  BY DEF FieldInv
<1>2. \A v \in Voxels : best[v] \in Pairs /\ Exact(v)
  BY DEF FieldInv
<1>3. \A v \in Voxels : best'[v] \in Pairs /\ Exact(v)'
  BY <1>1, <1>2, GridUnchanged DEF Exact, Found
<1>4. \A v \in Voxels : Seeds(v)' = Seeds(v)
  BY <1>1, GridUnchanged DEF Seeds
<1>. QED
  BY <1>1, <1>3, <1>4, GridUnchanged DEF FieldInv, Stages

LEMMA FieldInvPreserved ==
  ASSUME FieldInv, [Next]_vars
  PROVE  FieldInv'
<1>1. CASE Throw
  BY <1>1, GridUnchanged DEF Throw, FieldInv, Stages
<1>2. CASE \E i \in DOMAIN thread : Take(i) \/ Load(i) \/ Exchange(i)
  BY <1>2, TakePreserves, LoadPreserves, ExchangePreserves
<1>3. CASE HostPass
  <2>1. /\ pc = "host" /\ pc' = "host" /\ scene' = scene /\ best' = best
        /\ step >= 1 /\ step' = step \div 2
    BY <1>3 DEF HostPass
  <2>2. step \in Int /\ step <= FirstStep /\ FirstStep \in Int
    BY <2>1, FirstStepType DEF FieldInv
  <2>3. step' \in Int /\ step' < step
    BY <2>1, <2>2
  <2>4. step' <= FirstStep /\ step' # FirstStep
    BY <2>2, <2>3
  <2>. QED
    BY <2>1, <2>3, <2>4, FloodPreserves
<1>4. CASE DevicePass \/ DeviceDone
  <2>1. pc = "device" /\ pc' \in {"device", "distances"} /\ scene' = scene /\ best' = best
    BY <1>4 DEF DevicePass, DeviceDone
  <2>. QED
    BY <2>1, FloodPreserves
<1>5. CASE DeviceFails
  <2>1. pc = "device" /\ pc' = "host" /\ scene' = scene /\ best' = best /\ step' = FirstStep
    BY <1>5 DEF DeviceFails
  <2>2. scene.gpu /\ FirstStep \in Int /\ FirstStep <= FirstStep
    BY <2>1, FirstStepType DEF FieldInv
  <2>. QED
    BY <2>1, <2>2, FloodPreserves
<1>6. CASE HostDone \/ Distances \/ Sign
  <2>1. /\ pc \in {"host", "distances", "sign"} /\ pc' \in {"distances", "sign", "built"}
        /\ scene' = scene /\ best' = best
    BY <1>6 DEF HostDone, Distances, Sign
  <2>. QED
    BY <2>1, FloodPreserves
<1>7. CASE UNCHANGED vars
  <2>1. /\ scene' = scene /\ pc' = pc /\ thread' = thread /\ next' = next /\ best' = best
        /\ step' = step /\ ids' = ids
    BY <1>7 DEF vars
  <2>2. /\ \A i : AtWork(i)' <=> AtWork(i)
        /\ \A v \in Voxels : /\ Found(v)' <=> Found(v)
                             /\ Tried(v)' <=> Tried(v)
                             /\ Exact(v)' <=> Exact(v)
                             /\ Seeds(v)' = Seeds(v)
    BY <2>1, GridUnchanged DEF AtWork, Voxel, Found, Tried, Pending, Exact, Seeds
  <2>. QED
    BY <2>1, <2>2, GridUnchanged DEF FieldInv
<1>. QED
  BY <1>1, <1>2, <1>3, <1>4, <1>5, <1>6, <1>7, StartPreserves, CompactPreserves DEF Next, Done

(* However many threads seed the field and however their reads and exchanges
   interleave, each voxel ends with the nearest of the triangles near it, of
   equally near ones the first, and the host floods from its surface point. *)
THEOREM SeedsAreExact == Spec => []SeedsExact
<1>1. Init => FieldInv
  BY DEF Init, FieldInv, Stages
<1>2. FieldInv => SeedsExact
  <2>1. SUFFICES ASSUME FieldInv, pc \in {"host", "device"}, step = FirstStep, NEW v \in Voxels
                 PROVE  LET codes == {Code(v, t) : t \in {u \in Tris : v \in Near(u)}}
                        IN  /\ (best[v] = Empty) = (codes = {})
                            /\ codes # {} =>
                                 /\ best[v] \in codes
                                 /\ \A c \in codes :
                                      c[1] > best[v][1] \/ (c[1] = best[v][1] /\ c[2] >= best[v][2])
                            /\ codes # {} /\ ~ scene.gpu => ids[v] = Closest(Center(v), best[v][2])
    BY DEF SeedsExact
  <2> DEFINE near == {u \in Tris : v \in Near(u)}
             codes == {Code(v, t) : t \in near}
  <2>2. scene \in Scenes /\ best[v] \in Pairs /\ Exact(v)
    BY <2>1 DEF FieldInv
  <2>3. \A c \in codes : c \in Pairs /\ Below(c, Empty) /\ c # Empty /\ ~ Below(c, best[v])
    BY <2>2, CodeType DEF Exact
  <2>4. best[v] = Empty \/ best[v] \in codes
    BY <2>2 DEF Exact, Found
  <2>5. (best[v] = Empty) = (codes = {})
    BY <2>3, <2>4
  <2>6. codes # {} => best[v] \in codes
    BY <2>4, <2>5
  <2>7. \A c \in codes : c[1] > best[v][1] \/ (c[1] = best[v][1] /\ c[2] >= best[v][2])
    BY <2>2, <2>3 DEF Below, Pairs
  <2>8. ASSUME codes # {}, ~ scene.gpu
        PROVE  ids[v] = Closest(Center(v), best[v][2])
    <3>1. ids[v] = Seeds(v)
      BY <2>1, <2>8 DEF FieldInv
    <3>. QED
      BY <2>5, <2>8, <3>1 DEF Seeds
  <2> HIDE DEF codes
  <2>9. /\ (best[v] = Empty) = (codes = {})
        /\ codes # {} => /\ best[v] \in codes
                         /\ \A c \in codes : c[1] > best[v][1] \/ (c[1] = best[v][1] /\ c[2] >= best[v][2])
        /\ codes # {} /\ ~ scene.gpu => ids[v] = Closest(Center(v), best[v][2])
    BY <2>5, <2>6, <2>7, <2>8
  <2>. QED
    BY <2>9 DEF codes
<1>. QED
  BY <1>1, <1>2, FieldInvPreserved, PTL DEF Spec
-------------------------------------------------------------------------------
(* Distances on the grid *)

LEMMA VoxelType ==
  ASSUME scene \in Scenes, Segments # <<>>, NEW v \in Voxels
  PROVE  /\ v = <<v[1], v[2]>>
         /\ \A i \in {1, 2} : /\ v[i] \in Int /\ 0 <= v[i] /\ v[i] <= Side(i) - 1
                              /\ Origin[i] \in Int /\ Side(i) \in Int
                              /\ Center(v)[i] = Origin[i] + 2 * v[i] /\ Center(v)[i] \in Int
<1>1. /\ Origin[1] \in Int /\ Side(1) \in Int /\ Origin[2] \in Int /\ Side(2) \in Int
  BY GridType
<1>2. v = <<v[1], v[2]>> /\ v[1] \in 0 .. Side(1) - 1 /\ v[2] \in 0 .. Side(2) - 1
  BY DEF Voxels
<1>3. Center(v)[1] = Origin[1] + 2 * v[1] /\ Center(v)[2] = Origin[2] + 2 * v[2]
  BY DEF Center
<1>4. /\ v[1] \in Int /\ 0 <= v[1] /\ v[1] <= Side(1) - 1
      /\ v[2] \in Int /\ 0 <= v[2] /\ v[2] <= Side(2) - 1
  <2> DEFINE m == Side(1) - 1
             n == Side(2) - 1
  <2>1. m \in Int /\ n \in Int /\ v[1] \in 0 .. m /\ v[2] \in 0 .. n
    BY <1>1, <1>2
  <2> HIDE DEF m, n
  <2>2. v[1] \in Int /\ 0 <= v[1] /\ v[1] <= m /\ v[2] \in Int /\ 0 <= v[2] /\ v[2] <= n
    BY <2>1
  <2>. QED
    BY <2>2 DEF m, n
<1>5. Center(v)[1] \in Int /\ Center(v)[2] \in Int
  <2>1. \A a, b \in Int : a + 2 * b \in Int
    OBVIOUS
  <2>2. Origin[1] \in Int /\ v[1] \in Int /\ Origin[2] \in Int /\ v[2] \in Int
    BY <1>1, <1>4
  <2>. QED
    BY ONLY <1>3, <2>1, <2>2
<1>. QED
  BY <1>1, <1>2, <1>3, <1>4, <1>5

LEMMA SquaresOrdered ==
  ASSUME NEW x \in Int, NEW y \in Int
  PROVE  /\ x * x \in Nat /\ (x * x = 0 => x = 0)
         /\ 0 <= x /\ x <= y => x * x <= y * y
         /\ y <= x /\ x <= 0 => x * x <= y * y
         /\ x * x <= 12 => -3 <= x /\ x <= 3
<1>1. x * x \in Nat
  <2>1. CASE x >= 0
    BY <2>1, SMTT(30)
  <2>2. CASE x < 0
    BY <2>2, SMTT(30)
  <2>. QED
    BY <2>1, <2>2
<1>2. x * x = 0 => x = 0
  BY SMTT(30)
<1>3. 0 <= x /\ x <= y => x * x <= y * y
  <2>1. SUFFICES ASSUME 0 <= x, x <= y PROVE x * x <= y * y
    OBVIOUS
  <2>2. y * y = x * x + (y - x) * (y + x)
    BY SMTT(30)
  <2>3. (y - x) * (y + x) \in Nat
    BY <2>1, SMTT(30)
  <2>4. x * x \in Int /\ y * y \in Int
    OBVIOUS
  <2>. QED
    BY <2>2, <2>3, <2>4
<1>4. y <= x /\ x <= 0 => x * x <= y * y
  <2>1. SUFFICES ASSUME y <= x, x <= 0 PROVE x * x <= y * y
    OBVIOUS
  <2>2. y * y = x * x + (x - y) * ((0 - x) - y)
    BY SMTT(30)
  <2>3. (x - y) * ((0 - x) - y) \in Nat
    BY <2>1, SMTT(30)
  <2>4. x * x \in Int /\ y * y \in Int
    OBVIOUS
  <2>. QED
    BY <2>2, <2>3, <2>4
<1>5. x * x <= 12 => -3 <= x /\ x <= 3
  BY SMTT(30)
<1>. QED
  BY <1>1, <1>2, <1>3, <1>4, <1>5

LEMMA SquareProperties ==
  ASSUME NEW p, NEW q, p[1] \in Int, p[2] \in Int, q[1] \in Int, q[2] \in Int
  PROVE  /\ Square(p, q) \in Nat
         /\ Square(p, q) = 0 => p[1] = q[1] /\ p[2] = q[2]
<1> DEFINE x == p[1] - q[1]
           y == p[2] - q[2]
<1>1. x \in Int /\ y \in Int
  OBVIOUS
<1>2. Square(p, q) = x * x + y * y
  BY DEF Square
<1>3. x = 0 => p[1] = q[1]
  OBVIOUS
<1>4. y = 0 => p[2] = q[2]
  OBVIOUS
<1> HIDE DEF x, y
<1>5. x * x \in Nat /\ y * y \in Nat /\ (x * x = 0 => x = 0) /\ (y * y = 0 => y = 0)
  BY <1>1, SquaresOrdered
<1>6. x * x + y * y \in Nat /\ (x * x + y * y = 0 => x * x = 0 /\ y * y = 0)
  BY <1>5
<1>. QED
  BY <1>2, <1>3, <1>4, <1>5, <1>6

LEMMA ClosestType ==
  ASSUME scene \in Scenes, NEW t \in Tris, NEW p, p[1] \in Int, p[2] \in Int
  PROVE  /\ Closest(p, t) \in [{1, 2} -> Int]
         /\ \A i \in {1, 2} :
              /\ Segments[t][1][i] \in Int /\ Segments[t][2][i] \in Int
              /\ Segments[t][1][i] <= Segments[t][2][i]
              /\ Closest(p, t)[i] = IF p[i] < Segments[t][1][i] THEN Segments[t][1][i]
                                    ELSE IF p[i] > Segments[t][2][i] THEN Segments[t][2][i] ELSE p[i]
<1>1. ASSUME NEW i \in {1, 2}
      PROVE  /\ Segments[t][1][i] \in Int /\ Segments[t][2][i] \in Int
             /\ Segments[t][1][i] <= Segments[t][2][i] /\ p[i] \in Int
  BY SegmentsType
<1>2. ASSUME NEW i \in {1, 2}
      PROVE  Clamp(p[i], Segments[t][1][i], Segments[t][2][i]) =
               IF p[i] < Segments[t][1][i] THEN Segments[t][1][i]
               ELSE IF p[i] > Segments[t][2][i] THEN Segments[t][2][i] ELSE p[i]
  BY <1>1, ClampProperties
<1>3. ASSUME NEW i \in {1, 2}
      PROVE  Clamp(p[i], Segments[t][1][i], Segments[t][2][i]) \in Int
  BY <1>1, <1>2
<1>. QED
  BY <1>1, <1>2, <1>3 DEF Closest

(* No point of a segment is nearer than the clamped one. *)
LEMMA ClosestIsNearest ==
  ASSUME scene \in Scenes, NEW t \in Tris,
         NEW p, p[1] \in Int, p[2] \in Int, NEW q, q[1] \in Int, q[2] \in Int
  PROVE  Square(p, Closest(p, t)) <= Square(p, Closest(q, t))
<1> DEFINE c == Closest(p, t)
           d == Closest(q, t)
<1>1. \A i \in {1, 2} : c[i] \in Int /\ d[i] \in Int
  BY ClosestType
<1>2. ASSUME NEW i \in {1, 2}
      PROVE  (p[i] - c[i]) * (p[i] - c[i]) <= (p[i] - d[i]) * (p[i] - d[i])
  <2> DEFINE a == Segments[t][1][i]
             b == Segments[t][2][i]
             u == p[i]
             w == q[i]
  <2>1. /\ a \in Int /\ b \in Int /\ a <= b /\ u \in Int /\ w \in Int
        /\ c[i] = IF u < a THEN a ELSE IF u > b THEN b ELSE u
        /\ d[i] = IF w < a THEN a ELSE IF w > b THEN b ELSE w
    BY ClosestType
  <2> HIDE DEF a, b, u, w, c, d
  <2> DEFINE x == u - c[i]
             y == u - d[i]
  <2>2. x \in Int /\ y \in Int /\ ((0 <= x /\ x <= y) \/ (y <= x /\ x <= 0))
    BY <2>1
  <2> HIDE DEF x, y
  <2>3. x * x <= y * y
    BY <2>2, SquaresOrdered
  <2>. QED
    BY <2>3 DEF x, y, u
<1> HIDE DEF c, d
<1> DEFINE x == p[1] - c[1]
           y == p[2] - c[2]
           z == p[1] - d[1]
           w == p[2] - d[2]
<1>3. x \in Int /\ y \in Int /\ z \in Int /\ w \in Int
  BY <1>1
<1>4. x * x <= z * z /\ y * y <= w * w
  BY <1>2
<1>5. Square(p, c) = x * x + y * y /\ Square(p, d) = z * z + w * w
  BY DEF Square
<1> HIDE DEF x, y, z, w
<1>6. x * x \in Int /\ y * y \in Int /\ z * z \in Int /\ w * w \in Int
  BY <1>3
<1>7. Square(p, c) <= Square(p, d)
  BY <1>4, <1>5, <1>6
<1>. QED
  BY <1>7 DEF c, d

(* A voxel within 1.8 voxels of a segment is one the segment is written to. *)
LEMMA WithinReach ==
  ASSUME scene \in Scenes, NEW t \in Tris, NEW v \in Voxels,
         Square(Center(v), Closest(Center(v), t)) <= 12
  PROVE  v \in Near(t)
<1> DEFINE c == Center(v)
           p == Closest(c, t)
<1>1. Segments # <<>>
  BY SegmentsType DEF Tris
<1>2. /\ v = <<v[1], v[2]>>
      /\ \A i \in {1, 2} : /\ v[i] \in Int /\ 0 <= v[i] /\ v[i] <= Side(i) - 1
                           /\ Origin[i] \in Int /\ Side(i) \in Int
                           /\ c[i] = Origin[i] + 2 * v[i] /\ c[i] \in Int
  BY <1>1, VoxelType
<1> HIDE DEF c
<1>3. \A i \in {1, 2} : /\ Segments[t][1][i] \in Int /\ Segments[t][2][i] \in Int
                        /\ Segments[t][1][i] <= Segments[t][2][i] /\ p[i] \in Int
                        /\ p[i] = IF c[i] < Segments[t][1][i] THEN Segments[t][1][i]
                                  ELSE IF c[i] > Segments[t][2][i] THEN Segments[t][2][i] ELSE c[i]
  BY <1>2, ClosestType
<1> HIDE DEF p
<1>4. \A i \in {1, 2} : -3 <= c[i] - p[i] /\ c[i] - p[i] <= 3
  <2> DEFINE x == c[1] - p[1]
             y == c[2] - p[2]
  <2>1. x \in Int /\ y \in Int
    BY <1>2, <1>3
  <2>2. x * x + y * y <= 12
    BY DEF Square, c, p
  <2> HIDE DEF x, y
  <2>3. x * x \in Nat /\ y * y \in Nat
    BY <2>1, SquaresOrdered
  <2>4. x * x <= 12 /\ y * y <= 12
    BY <2>2, <2>3
  <2>5. -3 <= x /\ x <= 3 /\ -3 <= y /\ y <= 3
    BY <2>1, <2>4, SquaresOrdered
  <2>. QED
    BY <2>5 DEF x, y
<1>5. ASSUME NEW i \in {1, 2}
      PROVE  v[i] \in Reach(t, i)
  <2> DEFINE a == Segments[t][1][i]
             b == Segments[t][2][i]
             o == Origin[i]
             m == Side(i) - 1
             lo == (5 * (a - o) - 18) \div 10
             hi == (5 * (b - o) + 18) \div 10
             n == v[i]
  <2>1. /\ a \in Int /\ b \in Int /\ o \in Int /\ m \in Int /\ n \in Int /\ 0 <= n /\ n <= m
        /\ a <= b /\ a - 3 <= o + 2 * n /\ o + 2 * n <= b + 3
    <3>1. c[i] - p[i] >= -3 /\ c[i] - p[i] <= 3 /\ c[i] \in Int /\ p[i] \in Int
      BY <1>2, <1>3, <1>4
    <3>2. a - 3 <= c[i] /\ c[i] <= b + 3
      BY <1>3, <3>1
    <3>. QED
      BY <1>2, <1>3, <3>2
  <2>2. Reach(t, i) = Max({0, lo}) .. Min({m, hi})
    BY DEF Reach
  <2> HIDE DEF a, b, o, m, n
  <2>3. lo \in Int /\ hi \in Int /\ lo <= n /\ n <= hi
    BY <2>1
  <2> HIDE DEF lo, hi
  <2>4. Max({0, lo}) = (IF 0 <= lo THEN lo ELSE 0) /\ Min({m, hi}) = (IF m <= hi THEN m ELSE hi)
    BY <2>1, <2>3, MinMaxOfTwo
  <2>5. Max({0, lo}) \in Int /\ Min({m, hi}) \in Int /\ Max({0, lo}) <= n /\ n <= Min({m, hi})
    BY <2>1, <2>3, <2>4
  <2>6. n \in Reach(t, i)
    BY <2>1, <2>2, <2>5
  <2>. QED
    BY <2>6 DEF n
<1>6. v[1] \in Reach(t, 1) /\ v[2] \in Reach(t, 2)
  BY <1>5
<1>. QED
  BY <1>2, <1>6 DEF Near

-------------------------------------------------------------------------------
(* The flood *)

SurfacePoints == {Closest(Center(u), t) : u \in Voxels, t \in Tris}

(* What a voxel may hold during the flood: nothing or a point of some surface, and
   once a triangle was written to it, one no farther than that triangle. *)
Worth(v) ==
  {p \in SurfacePoints \cup {NoSeed} :
     best[v] # Empty => p # NoSeed /\ Square(Center(v), p) <= best[v][1]}

Flooded(grid) == DOMAIN grid = Voxels /\ \A v \in Voxels : grid[v] \in Worth(v)

Raw(v) == IF ids[v] = NoSeed THEN Infinite ELSE Square(Center(v), ids[v])

FloodInv ==
  /\ FieldInv
  /\ pc \notin {"start", "thrown"} => Segments # <<>>
  /\ pc \in {"device", "host", "distances", "sign", "built"} => Flooded(ids)
  /\ pc = "device" => Flooded(device)
  /\ pc = "sign" => dist = [v \in Voxels |-> Raw(v)]
  /\ pc = "built" => dist = [v \in Voxels |-> IF Inside(v) THEN -Raw(v) ELSE Raw(v)]

LEMMA SurfacePointType ==
  ASSUME scene \in Scenes, Segments # <<>>, NEW v \in Voxels, NEW p \in SurfacePoints
  PROVE  /\ p \in [{1, 2} -> Int] /\ Square(Center(v), p) \in Nat
         /\ \E t \in Tris : Square(Center(v), Closest(Center(v), t)) <= Square(Center(v), p)
<1>1. PICK u \in Voxels, t \in Tris : p = Closest(Center(u), t)
  BY DEF SurfacePoints
<1>2. /\ Center(u)[1] \in Int /\ Center(u)[2] \in Int
      /\ Center(v)[1] \in Int /\ Center(v)[2] \in Int
  BY VoxelType
<1>3. p \in [{1, 2} -> Int]
  BY <1>1, <1>2, ClosestType
<1>4. Square(Center(v), p) \in Nat
  <2>1. p[1] \in Int /\ p[2] \in Int
    BY <1>3
  <2>. QED
    BY <1>2, <2>1, SquareProperties
<1>5. Square(Center(v), Closest(Center(v), t)) <= Square(Center(v), p)
  BY <1>1, <1>2, ClosestIsNearest
<1>. QED
  BY <1>3, <1>4, <1>5

LEMMA WorthUnchanged ==
  ASSUME scene' = scene, best' = best
  PROVE  /\ \A v : Worth(v)' = Worth(v)
         /\ \A g : (DOMAIN g = Voxels /\ \A v \in Voxels : g[v] \in Worth(v)) <=>
                   (DOMAIN g = Voxels' /\ \A v \in Voxels' : g[v] \in Worth(v)')
<1>1. SurfacePoints' = SurfacePoints
  BY GridUnchanged DEF SurfacePoints
<1>2. \A v, p : Square(Center(v), p)' = Square(Center(v), p)
  BY GridUnchanged DEF Square
<1>3. \A v : Worth(v)' = Worth(v)
  BY <1>1, <1>2 DEF Worth, NoSeed, Empty, Infinite
<1>4. Voxels' = Voxels
  BY GridUnchanged
<1>. QED
  BY <1>3, <1>4

(* A neighbour's point replaces a voxel's only if the voxel has none or it is nearer. *)
LEMMA NearerKeeps ==
  ASSUME scene \in Scenes, Segments # <<>>, NEW grid, Flooded(grid),
         NEW v \in Voxels, best[v] \in Pairs, NEW s, NEW o, NEW id \in Worth(v)
  PROVE  Nearer(grid, s, v, o, id) \in Worth(v)
<1> DEFINE w == <<v[1] + o[1] * s, v[2] + o[2] * s>>
           q == grid[w]
<1>1. Nearer(grid, s, v, o, id) =
        IF w \notin DOMAIN grid \/ q = NoSeed THEN id
        ELSE IF id = NoSeed \/ Square(Center(v), q) < Square(Center(v), id) THEN q ELSE id
  BY DEF Nearer
<1>2. w \in DOMAIN grid => q \in SurfacePoints \cup {NoSeed}
  BY DEF Flooded, Worth
<1> HIDE DEF q, w
<1>3. ASSUME w \in DOMAIN grid, q # NoSeed,
             id = NoSeed \/ Square(Center(v), q) < Square(Center(v), id)
      PROVE  q \in Worth(v)
  <2>1. q \in SurfacePoints
    BY <1>2, <1>3
  <2>2. CASE best[v] = Empty
    BY <2>1, <2>2 DEF Worth
  <2>3. CASE best[v] # Empty
    <3>1. id # NoSeed /\ id \in SurfacePoints /\ Square(Center(v), id) <= best[v][1]
      BY <2>3 DEF Worth
    <3>2. Square(Center(v), q) \in Nat /\ Square(Center(v), id) \in Nat
      BY <2>1, <3>1, SurfacePointType
    <3>3. best[v][1] \in Nat
      BY DEF Pairs
    <3>4. Square(Center(v), q) <= best[v][1]
      BY <1>3, <3>1, <3>2, <3>3
    <3>. QED
      BY <1>3, <2>1, <3>4 DEF Worth
  <2>. QED
    BY <2>2, <2>3
<1>. QED
  BY <1>1, <1>3

LEMMA AskedKeeps ==
  ASSUME scene \in Scenes, Segments # <<>>, NEW grid, Flooded(grid),
         NEW v \in Voxels, best[v] \in Pairs, NEW s
  PROVE  Asked(grid, s, v) \in Worth(v)
<1> DEFINE W == Worth(v)
           Step(n, id) == Nearer(grid, s, v, Offsets[n - 1], id)
           Rec(f) == f = [n \in 1 .. 9 |-> IF n = 1 THEN grid[v] ELSE Step(n, f[n - 1])]
           seen == CHOOSE f : Rec(f)
           op == [n \in 1 .. 9 |-> [id \in W |-> Step(n, id)]]
<1>1. Asked(grid, s, v) = seen[9]
  BY DEF Asked
<1>2. \A n : \A id \in W : Step(n, id) \in W
  BY NearerKeeps
<1>3. grid[v] \in W
  BY DEF Flooded
<1> HIDE DEF W, Step
<1>4. Recursion(9, W, grid[v], op)
  BY <1>2, <1>3 DEF Recursion
<1>5. \A n \in 2 .. 9 : \A id \in W : op[n][id] = Step(n, id)
  OBVIOUS
<1> HIDE DEF op
<1>6. PICK f \in [1 .. 9 -> W] : f[1] = grid[v] /\ \A n \in 2 .. 9 : f[n] = op[n][f[n - 1]]
  <2>1. HasSolution(9, W, grid[v], op)
    <3>1. 9 \in Nat \ {0}
      OBVIOUS
    <3>. QED
      BY <1>4, <3>1, Iteration
  <2>. QED
    BY <2>1 DEF HasSolution
<1>7. Rec(f)
  <2>1. \A n \in 2 .. 9 : f[n - 1] \in W
    BY <1>6
  <2>2. \A n \in 1 .. 9 : f[n] = IF n = 1 THEN grid[v] ELSE Step(n, f[n - 1])
    <3>1. ASSUME NEW n \in 1 .. 9, n # 1
          PROVE  f[n] = Step(n, f[n - 1])
      <4>1. n \in 2 .. 9
        BY <3>1
      <4>. QED
        BY <1>5, <1>6, <2>1, <4>1
    <3>. QED
      BY <1>6, <3>1
  <2>3. f = [n \in 1 .. 9 |-> f[n]]
    BY <1>6
  <2>. QED
    BY <2>2, <2>3
<1>8. Rec(seen)
  <2> HIDE DEF Rec
  <2>. QED
    BY <1>7
<1> HIDE DEF seen
<1>9. seen[1] \in W /\ \A n \in 2 .. 9 : seen[n - 1] \in W => seen[n] \in W
  <2>1. seen[1] = grid[v]
    BY <1>8
  <2>2. \A n \in 2 .. 9 : n \in 1 .. 9 /\ n # 1
    OBVIOUS
  <2>3. \A n \in 2 .. 9 : seen[n] = Step(n, seen[n - 1])
    BY <1>8, <2>2
  <2>. QED
    BY <1>2, <1>3, <2>1, <2>3
<1> HIDE DEF Rec
<1>10. seen[2] \in W /\ seen[3] \in W /\ seen[4] \in W /\ seen[5] \in W
  <2>1. /\ 2 \in 2 .. 9 /\ 3 \in 2 .. 9 /\ 4 \in 2 .. 9 /\ 5 \in 2 .. 9
        /\ 2 - 1 = 1 /\ 3 - 1 = 2 /\ 4 - 1 = 3 /\ 5 - 1 = 4
    OBVIOUS
  <2>. QED
    BY <1>9, <2>1
<1>11. seen[6] \in W /\ seen[7] \in W /\ seen[8] \in W /\ seen[9] \in W
  <2>1. /\ 6 \in 2 .. 9 /\ 7 \in 2 .. 9 /\ 8 \in 2 .. 9 /\ 9 \in 2 .. 9
        /\ 6 - 1 = 5 /\ 7 - 1 = 6 /\ 8 - 1 = 7 /\ 9 - 1 = 8
    OBVIOUS
  <2>. QED
    BY <1>9, <1>10, <2>1
<1>. QED
  BY <1>1, <1>11 DEF W

LEMMA PassKeeps ==
  ASSUME scene \in Scenes, Segments # <<>>, \A v \in Voxels : best[v] \in Pairs,
         NEW grid, Flooded(grid), NEW s
  PROVE  Flooded(Pass(grid, s))
<1>1. DOMAIN grid = Voxels
  BY DEF Flooded
<1>2. Pass(grid, s) = [v \in Voxels |-> Asked(grid, s, v)]
  BY <1>1 DEF Pass
<1>3. \A v \in Voxels : Asked(grid, s, v) \in Worth(v)
  BY AskedKeeps
<1>. QED
  BY <1>2, <1>3 DEF Flooded

(* The seeds are surface points, each as far as the code of its triangle says. *)
LEMMA SeedsWorth ==
  ASSUME scene \in Scenes, NEW v \in Voxels, Found(v)
  PROVE  Seeds(v) \in Worth(v)
<1>1. CASE best[v] = Empty
  BY <1>1 DEF Worth, Seeds
<1>2. CASE best[v] # Empty
  <2>1. PICK t \in Tris : v \in Near(t) /\ best[v] = Code(v, t)
    BY <1>2 DEF Found
  <2>2. best[v] = <<Square(Center(v), Closest(Center(v), t)), t>>
    BY <2>1 DEF Code
  <2>3. best[v][1] = Square(Center(v), Closest(Center(v), t)) /\ best[v][2] = t
    BY <2>2
  <2>4. Seeds(v) = Closest(Center(v), t)
    BY <1>2, <2>3 DEF Seeds
  <2>5. Seeds(v) \in SurfacePoints
    BY <2>4 DEF SurfacePoints
  <2>6. Segments # <<>>
    BY SegmentsType DEF Tris
  <2>7. Seeds(v) # NoSeed /\ Square(Center(v), Seeds(v)) \in Nat
    <3>1. Seeds(v) \in [{1, 2} -> Int]
      BY <2>5, <2>6, SurfacePointType
    <3>2. DOMAIN Seeds(v) = {1, 2} /\ DOMAIN NoSeed = {}
      BY <3>1 DEF NoSeed
    <3>. QED
      BY <2>5, <2>6, <3>2, SurfacePointType
  <2>8. Square(Center(v), Seeds(v)) <= best[v][1]
    BY <2>3, <2>4, <2>7
  <2>. QED
    BY <2>5, <2>7, <2>8 DEF Worth
<1>. QED
  BY <1>1, <1>2

LEMMA InsideUnchanged ==
  ASSUME scene' = scene
  PROVE  \A v : Inside(v)' <=> Inside(v)
<1>1. /\ \A v : Center(v)' = Center(v)
      /\ \A a, b : Columns(a, b)' = Columns(a, b)
  BY GridUnchanged DEF Columns, Side, Origin, Ends
<1>2. \A x, s : Crosses(x, s)' <=> Crosses(x, s)
  BY <1>1 DEF Crosses
<1>3. \A x : Crossings(x)' = Crossings(x)
  <2>1. ASSUME NEW x
        PROVE  Crossings(x)' = Crossings(x)
    <3> DEFINE E == UNION {{<<k, t>> : t \in DOMAIN scene.objects[k]} : k \in DOMAIN scene.objects}
               Seg(e) == scene.objects[e[1]][e[2]]
    <3>1. Crossings(x) = {e \in E : IsWatertight(scene.objects[e[1]]) /\ Crosses(x, Seg(e))}
      BY DEF Crossings
    <3>2. Crossings(x)' = {e \in E' : IsWatertight(scene'.objects[e[1]]) /\ Crosses(x, Seg(e))'}
      BY DEF Crossings
    <3>3. E' = E /\ \A e : Crosses(x, Seg(e))' <=> Crosses(x, Seg(e))
      BY <1>2
    <3>4. \A e : IsWatertight(scene'.objects[e[1]]) <=> IsWatertight(scene.objects[e[1]])
      OBVIOUS
    <3> HIDE DEF E, Seg
    <3>. QED
      BY <3>1, <3>2, <3>3, <3>4
  <2>. QED
    BY <2>1
<1>. QED
  BY <1>1, <1>3 DEF Inside

LEMMA FloodInvPreserved ==
  ASSUME FloodInv, [Next]_vars
  PROVE  FloodInv'
<1>1. FieldInv /\ FieldInv' /\ scene \in Scenes /\ pc \in Stages
  BY FieldInvPreserved DEF FloodInv, FieldInv
<1>2. CASE Throw
  BY <1>1, <1>2 DEF Throw, FloodInv
<1>3. CASE Start
  <2>1. pc' = "seed" /\ Segments # <<>> /\ scene' = scene
    BY <1>3 DEF Start
  <2>. QED
    BY <1>1, <2>1, GridUnchanged DEF FloodInv
<1>4. CASE \E i \in DOMAIN thread : Take(i) \/ Load(i) \/ Exchange(i)
  <2>1. pc' = "seed" /\ pc = "seed" /\ scene' = scene
    BY <1>4 DEF Take, Load, Exchange
  <2>. QED
    BY <1>1, <2>1, GridUnchanged DEF FloodInv
<1>5. CASE Compact
  <2>1. /\ pc = "seed" /\ pc' \in {"device", "host"} /\ scene' = scene /\ best' = best
        /\ ids' = [v \in Voxels |-> Seeds(v)] /\ (pc' = "device" => device' = ids')
    BY <1>5 DEF Compact, Seeds
  <2>2. Segments # <<>> /\ \A v \in Voxels : Found(v)
    BY <1>1, <2>1 DEF FieldInv
  <2>3. Flooded(ids')
    BY <1>1, <2>1, <2>2, SeedsWorth DEF Flooded
  <2>4. Flooded(ids)'
    BY <2>1, <2>3, WorthUnchanged DEF Flooded
  <2>5. pc' = "device" => Flooded(device)'
    BY <2>1, <2>3, WorthUnchanged DEF Flooded
  <2>. QED
    BY <1>1, <2>1, <2>2, <2>4, <2>5, GridUnchanged DEF FloodInv
<1>6. CASE HostPass
  <2>1. /\ pc = "host" /\ pc' = "host" /\ scene' = scene /\ best' = best /\ ids' = Pass(ids, step)
    BY <1>6 DEF HostPass
  <2>2. Segments # <<>> /\ Flooded(ids) /\ \A v \in Voxels : best[v] \in Pairs
    BY <1>1, <2>1 DEF FloodInv, FieldInv
  <2>3. Flooded(ids')
    BY <1>1, <2>1, <2>2, PassKeeps
  <2>4. Flooded(ids)'
    BY <2>1, <2>3, WorthUnchanged DEF Flooded
  <2>. QED
    BY <1>1, <2>1, <2>2, <2>4, GridUnchanged DEF FloodInv
<1>7. CASE DevicePass
  <2>1. /\ pc = "device" /\ pc' = "device" /\ scene' = scene /\ best' = best /\ ids' = ids
        /\ device' = Pass(device, step)
    BY <1>7 DEF DevicePass
  <2>2. Segments # <<>> /\ Flooded(device) /\ Flooded(ids) /\ \A v \in Voxels : best[v] \in Pairs
    BY <1>1, <2>1 DEF FloodInv, FieldInv
  <2>3. Flooded(device')
    BY <1>1, <2>1, <2>2, PassKeeps
  <2>4. Flooded(device)' /\ Flooded(ids)'
    BY <2>1, <2>2, <2>3, WorthUnchanged DEF Flooded
  <2>. QED
    BY <1>1, <2>1, <2>2, <2>4, GridUnchanged DEF FloodInv
<1>8. CASE DeviceDone \/ DeviceFails
  <2>1. /\ pc = "device" /\ pc' \in {"host", "distances"} /\ scene' = scene /\ best' = best
        /\ ids' = ids \/ ids' = device
    BY <1>8 DEF DeviceDone, DeviceFails
  <2>2. Segments # <<>> /\ Flooded(device) /\ Flooded(ids)
    BY <2>1 DEF FloodInv
  <2>3. Flooded(ids)'
    BY <2>1, <2>2, WorthUnchanged DEF Flooded
  <2>. QED
    BY <1>1, <2>1, <2>2, <2>3, GridUnchanged DEF FloodInv
<1>9. CASE HostDone
  <2>1. pc = "host" /\ pc' = "distances" /\ scene' = scene /\ best' = best /\ ids' = ids
    BY <1>9 DEF HostDone
  <2>2. Segments # <<>> /\ Flooded(ids)
    BY <2>1 DEF FloodInv
  <2>3. Flooded(ids)'
    BY <2>1, <2>2, WorthUnchanged DEF Flooded
  <2>. QED
    BY <1>1, <2>1, <2>2, <2>3, GridUnchanged DEF FloodInv
<1>10. CASE Distances \/ Sign
  <2>1. /\ pc \in {"distances", "sign"} /\ pc' \in {"sign", "built"}
        /\ scene' = scene /\ best' = best /\ ids' = ids
    BY <1>10 DEF Distances, Sign
  <2>2. Segments # <<>> /\ Flooded(ids)
    BY <2>1 DEF FloodInv
  <2>3. Flooded(ids)'
    BY <2>1, <2>2, WorthUnchanged DEF Flooded
  <2>4. Voxels' = Voxels /\ \A v : Raw(v)' = Raw(v)
    BY <2>1, GridUnchanged DEF Raw, Square, NoSeed, Infinite
  <2>5. \A v : Inside(v)' <=> Inside(v)
    BY <2>1, InsideUnchanged
  <2>6. pc' = "sign" => dist' = [v \in Voxels |-> Raw(v)]
    BY <1>10 DEF Distances, Sign, Raw
  <2>7. pc' = "built" => dist' = [v \in Voxels |-> IF Inside(v) THEN -Raw(v) ELSE Raw(v)]
    <3>1. SUFFICES ASSUME pc' = "built"
                   PROVE  dist' = [v \in Voxels |-> IF Inside(v) THEN -Raw(v) ELSE Raw(v)]
      OBVIOUS
    <3>2. dist' = [v \in Voxels |-> IF Inside(v) THEN -dist[v] ELSE dist[v]] /\ pc = "sign"
      BY <1>10, <3>1 DEF Distances, Sign
    <3>3. \A v \in Voxels : dist[v] = Raw(v)
      BY <3>2 DEF FloodInv
    <3>. QED
      BY <3>2, <3>3
  <2>8. /\ pc' = "sign" => dist' = [v \in Voxels' |-> Raw(v)']
        /\ pc' = "built" => dist' = [v \in Voxels' |-> IF Inside(v)' THEN -Raw(v)' ELSE Raw(v)']
    BY <2>4, <2>5, <2>6, <2>7
  <2>. QED
    BY <1>1, <2>1, <2>2, <2>3, <2>8, GridUnchanged DEF FloodInv
<1>11. CASE UNCHANGED vars
  <2>1. /\ pc' = pc /\ scene' = scene /\ best' = best /\ ids' = ids /\ device' = device
        /\ dist' = dist
    BY <1>11 DEF vars
  <2>2. Voxels' = Voxels /\ \A v : Raw(v)' = Raw(v)
    BY <2>1, GridUnchanged DEF Raw, Square, NoSeed, Infinite
  <2>3. \A v : Inside(v)' <=> Inside(v)
    BY <2>1, InsideUnchanged
  <2>4. Flooded(ids)' <=> Flooded(ids)
    BY <2>1, WorthUnchanged DEF Flooded
  <2>5. Flooded(device)' <=> Flooded(device)
    BY <2>1, WorthUnchanged DEF Flooded
  <2>6. /\ pc = "sign" => dist' = [v \in Voxels' |-> Raw(v)']
        /\ pc = "built" => dist' = [v \in Voxels' |-> IF Inside(v)' THEN -Raw(v)' ELSE Raw(v)']
    BY <2>1, <2>2, <2>3 DEF FloodInv
  <2>. QED
    BY <1>1, <2>1, <2>4, <2>5, <2>6, GridUnchanged DEF FloodInv
<1>. QED
  BY <1>2, <1>3, <1>4, <1>5, <1>6, <1>7, <1>8, <1>9, <1>10, <1>11 DEF Next, Done

(* The squared distance to the nearest surface. *)
Nearest(v) == Min({Square(Center(v), Closest(Center(v), t)) : t \in Tris})
Unsigned(v) == Max({dist[v], -dist[v]})

(* A distance known is that of a point of a surface, so never less than the true one. *)
NeverTooNear ==
  pc = "built" => \A v \in Voxels : ids[v] # NoSeed => Unsigned(v) >= Nearest(v)

(* Within 1.8 voxels of a surface the distance is exact. *)
ExactNearSurfaces ==
  pc = "built" => \A v \in Voxels : Nearest(v) <= 12 => Unsigned(v) = Nearest(v)

LEMMA NearestProperties ==
  ASSUME scene \in Scenes, Segments # <<>>, NEW v \in Voxels
  PROVE  /\ \A t \in Tris : /\ Square(Center(v), Closest(Center(v), t)) \in Nat
                            /\ Nearest(v) <= Square(Center(v), Closest(Center(v), t))
         /\ \E t \in Tris : Nearest(v) = Square(Center(v), Closest(Center(v), t))
<1> DEFINE d == [t \in Tris |-> Square(Center(v), Closest(Center(v), t))]
           D == {Square(Center(v), Closest(Center(v), t)) : t \in Tris}
<1>1. Center(v)[1] \in Int /\ Center(v)[2] \in Int
  BY VoxelType
<1>2. ASSUME NEW t \in Tris
      PROVE  Square(Center(v), Closest(Center(v), t)) \in Nat
  <2>1. Closest(Center(v), t)[1] \in Int /\ Closest(Center(v), t)[2] \in Int
    BY <1>1, ClosestType
  <2>. QED
    BY <1>1, <2>1, SquareProperties
<1>3. Tris # {} /\ IsFiniteSet(Tris)
  <2>1. Len(Segments) # 0 /\ Len(Segments) \in Nat /\ Tris = 1 .. Len(Segments)
    BY SegmentsType
  <2>2. 1 \in Tris
    BY <2>1
  <2>3. IsFiniteSet(1 .. Len(Segments))
    BY <2>1, FS_Interval
  <2>. QED
    BY <2>1, <2>2, <2>3
<1>4. D \in SUBSET Int /\ D # {}
  BY <1>2, <1>3
<1>5. IsFiniteSet(D)
  <2>1. d \in Surjection(Tris, D)
    BY DEF Surjection
  <2> HIDE DEF d, D
  <2>. QED
    BY <1>3, <2>1, FS_Surjection
<1>6. Nearest(v) = Min(D)
  BY DEF Nearest
<1>7. \A t \in Tris : Square(Center(v), Closest(Center(v), t)) \in D
  OBVIOUS
<1>8. Nearest(v) \in D /\ \A y \in D : Nearest(v) <= y
  <2> HIDE DEF D
  <2>. QED
    BY <1>4, <1>5, <1>6, MinProperties
<1>. QED
  BY <1>2, <1>7, <1>8

LEMMA UnsignedRaw ==
  ASSUME FloodInv, pc = "built", NEW v \in Voxels
  PROVE  Raw(v) \in Nat /\ Unsigned(v) = Raw(v)
<1>1. scene \in Scenes /\ Segments # <<>> /\ ids[v] \in Worth(v)
  BY DEF FloodInv, FieldInv, Flooded
<1>2. Raw(v) \in Nat
  BY <1>1, SurfacePointType DEF Raw, Worth, Infinite
<1>3. dist[v] = IF Inside(v) THEN -Raw(v) ELSE Raw(v)
  BY DEF FloodInv
<1>4. Max({dist[v], -dist[v]}) = Raw(v)
  <2> DEFINE a == dist[v]
  <2>1. a \in Int /\ (a = Raw(v) \/ a = -Raw(v))
    BY <1>2, <1>3
  <2> HIDE DEF a
  <2>2. Max({a, -a}) = IF a <= -a THEN -a ELSE a
    BY <2>1, MinMaxOfTwo
  <2>3. Max({a, -a}) = Raw(v)
    BY <1>2, <2>1, <2>2
  <2>. QED
    BY <2>3 DEF a
<1>. QED
  BY <1>2, <1>4 DEF Unsigned

LEMMA SpecFlooded == Spec => []FloodInv
<1>1. Init => FloodInv
  <2>1. Init => FieldInv
    BY DEF Init, FieldInv, Stages
  <2>. QED
    BY <2>1 DEF Init, FloodInv
<1>. QED
  BY <1>1, FloodInvPreserved, PTL DEF Spec

(* However the threads seeded the field and wherever it was flooded, a device that
   failed half-way included, no distance is less than the true one. *)
THEOREM DistancesNeverTooNear == Spec => []NeverTooNear
<1>1. FloodInv => NeverTooNear
  <2>1. SUFFICES ASSUME FloodInv, pc = "built", NEW v \in Voxels, ids[v] # NoSeed
                 PROVE  Unsigned(v) >= Nearest(v)
    BY DEF NeverTooNear
  <2>2. scene \in Scenes /\ Segments # <<>> /\ ids[v] \in SurfacePoints
    BY <2>1 DEF FloodInv, FieldInv, Flooded, Worth
  <2>3. Unsigned(v) = Square(Center(v), ids[v]) /\ Unsigned(v) \in Nat
    BY <2>1, UnsignedRaw DEF Raw
  <2>4. PICK t \in Tris : Square(Center(v), Closest(Center(v), t)) <= Square(Center(v), ids[v])
    BY <2>2, SurfacePointType
  <2>5. /\ Square(Center(v), Closest(Center(v), t)) \in Nat
        /\ Nearest(v) <= Square(Center(v), Closest(Center(v), t))
        /\ Nearest(v) \in Nat
    BY <2>2, NearestProperties
  <2>. QED
    BY <2>3, <2>4, <2>5
<1>. QED
  BY <1>1, SpecFlooded, PTL

(* Near a surface, where a clearance decides anything, the distance is exact: the
   voxel was seeded with its nearest triangle and the flood can only improve on it. *)
THEOREM DistancesExactNearSurfaces == Spec => []ExactNearSurfaces
<1>1. FloodInv => ExactNearSurfaces
  <2>1. SUFFICES ASSUME FloodInv, pc = "built", NEW v \in Voxels, Nearest(v) <= 12
                 PROVE  Unsigned(v) = Nearest(v)
    BY DEF ExactNearSurfaces
  <2>2. /\ scene \in Scenes /\ Segments # <<>> /\ ids[v] \in Worth(v)
        /\ best[v] \in Pairs /\ Exact(v)
    BY <2>1 DEF FloodInv, FieldInv, Flooded
  <2>3. PICK t \in Tris : Nearest(v) = Square(Center(v), Closest(Center(v), t))
    BY <2>2, NearestProperties
  <2>4. v \in Near(t)
    BY <2>1, <2>2, <2>3, WithinReach
  <2>5. Code(v, t) \in Pairs /\ Below(Code(v, t), Empty) /\ ~ Below(Code(v, t), best[v])
    BY <2>2, <2>4, CodeType DEF Exact
  <2>6. best[v] # Empty
    BY <2>5
  <2>7. Code(v, t)[1] = Nearest(v) /\ Nearest(v) \in Nat
    BY <2>2, <2>3, NearestProperties DEF Code
  <2>8. best[v][1] \in Nat /\ best[v][1] <= Nearest(v)
    BY <2>2, <2>5, <2>7 DEF Below, Pairs
  <2>9. ids[v] # NoSeed /\ ids[v] \in SurfacePoints /\ Square(Center(v), ids[v]) <= best[v][1]
    BY <2>2, <2>6 DEF Worth
  <2>10. Unsigned(v) = Square(Center(v), ids[v]) /\ Unsigned(v) \in Nat
    BY <2>1, <2>9, UnsignedRaw DEF Raw
  <2>11. PICK u \in Tris : Square(Center(v), Closest(Center(v), u)) <= Square(Center(v), ids[v])
    BY <2>2, <2>9, SurfacePointType
  <2>12. /\ Square(Center(v), Closest(Center(v), u)) \in Nat
         /\ Nearest(v) <= Square(Center(v), Closest(Center(v), u))
    BY <2>2, NearestProperties
  <2>. QED
    BY <2>7, <2>8, <2>9, <2>10, <2>11, <2>12
<1>. QED
  BY <1>1, SpecFlooded, PTL

-------------------------------------------------------------------------------
(* Signs *)

(* A pairing of a set: mate is an involution that leaves low for its complement. *)
Paired(S, mate, low) ==
  /\ mate \in [S -> S]
  /\ \A x \in S : mate[mate[x]] = x /\ (x \in low <=> mate[x] \notin low)

Even(n) == n \in Nat /\ n % 2 = 0

LEMMA EvenDoubles ==
  /\ \A n \in Nat : Even(2 * n)
  /\ \A n \in Nat : Even(n) => \E k \in Nat : n = 2 * k
  /\ \A m, n \in Nat : Even(m) => (Even(m + n) <=> Even(n))
  /\ \A n \in Nat : ~ Even(n) <=> n % 2 = 1
<1>1. \A n \in Nat : Even(2 * n)
  BY DEF Even
<1>2. \A n \in Nat : Even(n) => \E k \in Nat : n = 2 * k
  <2>1. \A n \in Nat : n % 2 = 0 => n = 2 * (n \div 2) /\ n \div 2 \in Nat
    OBVIOUS
  <2>. QED
    BY <2>1 DEF Even
<1>3. \A m, n \in Nat : Even(m) => (Even(m + n) <=> Even(n))
  <2>1. \A m, n \in Nat : m % 2 = 0 => (m + n) % 2 = n % 2
    OBVIOUS
  <2>. QED
    BY <2>1 DEF Even
<1>4. \A n \in Nat : ~ Even(n) <=> n % 2 = 1
  BY DEF Even
<1>. QED
  BY <1>1, <1>2, <1>3, <1>4

(* A finite set that can be paired off has an even number of elements. *)
LEMMA PairedEven ==
  ASSUME NEW S, IsFiniteSet(S), NEW mate, NEW low, Paired(S, mate, low)
  PROVE  Even(Cardinality(S))
<1> DEFINE A == {x \in S : x \in low}
           B == {x \in S : x \notin low}
           f == [x \in A |-> mate[x]]
<1>1. IsFiniteSet(A) /\ IsFiniteSet(B)
  BY FS_Subset
<1>2. f \in Bijection(A, B)
  <2>1. f \in [A -> B]
    BY DEF Paired
  <2>2. \A x, y \in A : f[x] = f[y] => x = y
    BY DEF Paired
  <2>3. \A y \in B : \E x \in A : f[x] = y
    <3>1. SUFFICES ASSUME NEW y \in B
                   PROVE  \E x \in A : f[x] = y
      OBVIOUS
    <3>2. mate[y] \in A /\ mate[mate[y]] = y
      BY DEF Paired
    <3>. QED
      BY <3>2
  <2> HIDE DEF f, A, B
  <2>. QED
    BY <2>1, <2>2, <2>3 DEF Bijection, Injection, Surjection, IsInjective
<1>3. Cardinality(A) = Cardinality(B)
  <2>1. ExistsBijection(A, B)
    BY <1>2 DEF ExistsBijection
  <2>. QED
    BY <1>1, <2>1, FS_Bijection
<1>4. S = A \cup B /\ A \cap B = {}
  OBVIOUS
<1>5. Cardinality(A \cap B) = 0 /\ Cardinality(A) \in Nat
  BY <1>1, <1>4, FS_EmptySet, FS_CardinalityType
<1> HIDE DEF A, B
<1>6. Cardinality(S) = Cardinality(A) + Cardinality(B) - Cardinality(A \cap B)
  BY <1>1, <1>4, FS_Union
<1>7. Cardinality(S) = 2 * Cardinality(A)
  BY <1>3, <1>5, <1>6
<1>. QED
  BY <1>5, <1>7, EvenDoubles

(* Conversely, a finite set of even size can be paired off. *)
LEMMA EvenPaired ==
  ASSUME NEW S, IsFiniteSet(S), Even(Cardinality(S))
  PROVE  \E mate, low : Paired(S, mate, low)
<1> DEFINE n == Cardinality(S)
           N == 1 .. n
           Flip(i) == IF i % 2 = 1 THEN i + 1 ELSE i - 1
<1>1. n \in Nat /\ n % 2 = 0
  BY DEF Even
<1>2. PICK f \in Bijection(N, S) : TRUE
  <2>1. \E k \in Nat : ExistsBijection(1 .. k, S)
    BY FS_NatBijection
  <2>2. PICK k \in Nat : ExistsBijection(1 .. k, S)
    BY <2>1
  <2>3. k = n
    BY <2>2, FS_CountingElements
  <2>. QED
    BY <2>2, <2>3 DEF ExistsBijection
<1>3. /\ f \in [N -> S] /\ \A i, j \in N : f[i] = f[j] => i = j
      /\ \A x \in S : \E i \in N : f[i] = x
  BY <1>2 DEF Bijection, Injection, Surjection, IsInjective
<1>4. \A i \in N : Flip(i) \in N /\ Flip(Flip(i)) = i /\ (i % 2 = 1 <=> Flip(i) % 2 # 1)
  <2> HIDE DEF n
  <2>. QED
    BY <1>1
<1> DEFINE At(x) == CHOOSE i \in N : f[i] = x
           mate == [x \in S |-> f[Flip(At(x))]]
           low == {x \in S : At(x) % 2 = 1}
<1>5. \A x \in S : At(x) \in N /\ f[At(x)] = x
  BY <1>3
<1>6. \A i \in N : At(f[i]) = i
  <2>1. \A i \in N : f[i] \in S
    BY <1>3
  <2>2. \A i \in N : At(f[i]) \in N /\ f[At(f[i])] = f[i]
    BY <1>5, <2>1
  <2>. QED
    BY <1>3, <2>2
<1> HIDE DEF N, Flip, At
<1>7. \A x \in S : mate[x] \in S /\ At(mate[x]) = Flip(At(x))
  BY <1>3, <1>4, <1>5, <1>6
<1>8. \A x \in S : mate[mate[x]] = x
  BY <1>4, <1>5, <1>7
<1>9. \A x \in S : x \in low <=> mate[x] \notin low
  BY <1>4, <1>5, <1>7
<1>10. mate \in [S -> S]
  BY <1>7
<1>. QED
  BY <1>8, <1>9, <1>10 DEF Paired

(* Elements tagged with where they come from. *)
Tagged(K, F) == UNION {{<<k, t>> : t \in F[k]} : k \in K}

(* Finitely many sets of even size have an even number of tagged elements. *)
LEMMA EvenTogether ==
  ASSUME NEW K, IsFiniteSet(K), NEW F, \A k \in K : IsFiniteSet(F[k]) /\ Even(Cardinality(F[k]))
  PROVE  IsFiniteSet(Tagged(K, F)) /\ Even(Cardinality(Tagged(K, F)))
<1> DEFINE Part(k) == {<<k, t>> : t \in F[k]}
           Parts == {Part(k) : k \in K}
           S == Tagged(K, F)
<1>1. \A k \in K : IsFiniteSet(Part(k))
  <2>1. SUFFICES ASSUME NEW k \in K
                 PROVE  IsFiniteSet(Part(k))
    OBVIOUS
  <2> DEFINE f == [t \in F[k] |-> <<k, t>>]
  <2>2. f \in Surjection(F[k], Part(k))
    BY DEF Surjection
  <2>3. IsFiniteSet(F[k])
    OBVIOUS
  <2> HIDE DEF f, Part
  <2>. QED
    BY <2>2, <2>3, FS_Surjection
<1>2. IsFiniteSet(Parts)
  <2> DEFINE f == [k \in K |-> Part(k)]
  <2>1. f \in Surjection(K, Parts)
    BY DEF Surjection
  <2> HIDE DEF f, Parts
  <2>. QED
    BY <2>1, FS_Surjection
<1>3. IsFiniteSet(S)
  <2>1. \A T \in Parts : IsFiniteSet(T)
    BY <1>1
  <2>2. S = UNION Parts
    BY DEF Tagged
  <2> HIDE DEF Parts, S
  <2>. QED
    BY <1>2, <2>1, <2>2, FS_UNION
<1> DEFINE Mate(k) == CHOOSE mate : \E low : Paired(F[k], mate, low)
           Low(k) == CHOOSE low : Paired(F[k], Mate(k), low)
           mates == [e \in S |-> <<e[1], Mate(e[1])[e[2]]>>]
           lows == {e \in S : e[2] \in Low(e[1])}
<1>4. ASSUME NEW k \in K
      PROVE  Paired(F[k], Mate(k), Low(k))
  <2>1. \E mate, low : Paired(F[k], mate, low)
    BY EvenPaired
  <2>2. \E low : Paired(F[k], Mate(k), low)
    BY <2>1
  <2>. QED
    BY <2>2
<1>5. \A e : e \in S <=> \E k \in K : \E t \in F[k] : e = <<k, t>>
  BY DEF Tagged
<1> HIDE DEF S, Mate, Low
<1>6. ASSUME NEW e \in S
      PROVE  /\ mates[e] \in S /\ mates[mates[e]] = e
             /\ e \in lows <=> mates[e] \notin lows
  <2>1. PICK k \in K : \E t \in F[k] : e = <<k, t>>
    BY <1>5
  <2>2. PICK t \in F[k] : e = <<k, t>>
    BY <2>1
  <2>3. /\ Mate(k)[t] \in F[k] /\ Mate(k)[Mate(k)[t]] = t
        /\ t \in Low(k) <=> Mate(k)[t] \notin Low(k)
    BY <1>4 DEF Paired
  <2>4. mates[e] = <<k, Mate(k)[t]>>
    BY <2>2
  <2>5. mates[e] \in S
    BY <1>5, <2>3, <2>4
  <2>6. mates[mates[e]] = <<k, Mate(k)[Mate(k)[t]]>>
    BY <2>4, <2>5
  <2>7. (e \in lows <=> t \in Low(k)) /\ (mates[e] \in lows <=> Mate(k)[t] \in Low(k))
    BY <2>2, <2>4, <2>5
  <2>. QED
    BY <2>2, <2>3, <2>5, <2>6, <2>7
<1>7. Paired(S, mates, lows)
  <2>1. mates \in [S -> S]
    BY <1>6
  <2> HIDE DEF mates, lows
  <2>. QED
    BY <1>6, <2>1 DEF Paired
<1>8. Even(Cardinality(S))
  BY <1>3, <1>7, PairedEven
<1>. QED
  BY <1>3, <1>8 DEF S

(* The floors of an object under a point. *)
Floors(o, p) ==
  {t \in DOMAIN o : o[t][1][1] <= p[1] /\ p[1] < o[t][2][1] /\ o[t][1][2] < p[2]}

LEMMA SegmentEnds ==
  ASSUME NEW o \in Seq(Segment), NEW t \in DOMAIN o
  PROVE  /\ o[t][1][1] \in Int /\ o[t][1][2] \in Int /\ o[t][2][1] \in Int /\ o[t][2][2] \in Int
         /\ o[t][1][1] <= o[t][2][1] /\ o[t][1][2] <= o[t][2][2]
         /\ o[t][1][1] = o[t][2][1] \/ o[t][1][2] = o[t][2][2]
<1>1. o[t] \in Segment
  OBVIOUS
<1>. QED
  BY <1>1 DEF Segment, Point

(* A closed outline has as many floors below a point as walls left of it, up to an even
   number: count the ends of its segments that lie below and left of the point, two at
   every such vertex, two of every segment that lies there, and one of each floor and
   wall that leads out. *)
LEMMA FloorsLikeWalls ==
  ASSUME NEW o \in Seq(Segment), IsWatertight(o), NEW p, p[1] \in Int, p[2] \in Int
  PROVE  /\ IsFiniteSet(Floors(o, p)) /\ IsFiniteSet(Walls(o, p))
         /\ Even(Cardinality(Floors(o, p))) <=> Even(Cardinality(Walls(o, p)))
<1> DEFINE End(h) == o[h[1]][h[2]]
           A == {h \in Halves(o) : End(h)[1] <= p[1] /\ End(h)[2] < p[2]}
           Twin(h) == <<h[1], 3 - h[2]>>
           B == {h \in A : Twin(h) \in A}
           F == Floors(o, p)
           W == Walls(o, p)
           C == {<<t, 1>> : t \in F \cup W}
<1>1. DOMAIN o \subseteq Nat /\ IsFiniteSet(DOMAIN o)
  <2>1. DOMAIN o = 1 .. Len(o) /\ Len(o) \in Nat
    OBVIOUS
  <2>. QED
    BY <2>1, FS_Interval
<1>2. IsFiniteSet(Halves(o)) /\ \A h \in Halves(o) : h = <<h[1], h[2]>> /\ h[1] \in DOMAIN o /\ h[2] \in {1, 2}
  <2>1. IsFiniteSet({1, 2})
    <3>1. {1, 2} = {1} \cup {2}
      OBVIOUS
    <3>2. IsFiniteSet({1}) /\ IsFiniteSet({2})
      BY FS_Singleton
    <3>3. IsFiniteSet({1} \cup {2})
      BY ONLY <3>2, FS_Union
    <3>. QED
      BY <3>1, <3>3
  <2>. QED
    BY <1>1, <2>1, FS_Product DEF Halves
<1>3. IsFiniteSet(A) /\ IsFiniteSet(B) /\ IsFiniteSet(F) /\ IsFiniteSet(W)
  <2>1. A \subseteq Halves(o) /\ B \subseteq Halves(o) /\ F \subseteq DOMAIN o /\ W \subseteq DOMAIN o
    BY DEF Floors, Walls
  <2> HIDE DEF A, B, F, W
  <2>. QED
    BY <1>1, <1>2, <2>1, FS_Subset
<1>4. Even(Cardinality(A))
  <2> DEFINE Same(h) == {g \in Halves(o) : End(g) = End(h)}
             Mate(h) == CHOOSE g \in Same(h) : g # h
             Before(h, g) == h[1] < g[1] \/ (h[1] = g[1] /\ h[2] < g[2])
             mates == [h \in A |-> Mate(h)]
             low == {h \in A : Before(h, Mate(h))}
  <2>1. ASSUME NEW h \in Halves(o)
        PROVE  \E g \in Same(h) : Same(h) = {h, g} /\ g # h
    <3>1. Cardinality(Same(h)) = 2 /\ IsFiniteSet(Same(h)) /\ h \in Same(h)
      <4>1. Cardinality(Same(h)) = 2
        BY DEF IsWatertight
      <4>2. IsFiniteSet(Same(h))
        BY <1>2, FS_Subset
      <4>. QED
        BY <4>1, <4>2
    <3> HIDE DEF Same
    <3>2. IsFiniteSet(Same(h) \ {h}) /\ Cardinality(Same(h) \ {h}) = 1
      BY <3>1, FS_RemoveElement
    <3>3. PICK g : Same(h) \ {h} = {g}
      BY <3>2, FS_Singleton
    <3>. QED
      BY <3>1, <3>3
  <2>2. \A h \in Halves(o) : Mate(h) \in Same(h) /\ Mate(h) # h /\ Same(h) = {h, Mate(h)}
    <3>1. \A h \in Halves(o) : Mate(h) \in Same(h) /\ Mate(h) # h
      BY <2>1
    <3> HIDE DEF Mate, Same
    <3>. QED
      BY <2>1, <3>1
  <2>3. \A h \in Halves(o) : Mate(h) \in Halves(o) /\ End(Mate(h)) = End(h)
    BY <2>2
  <2>4. \A h \in Halves(o) : Same(Mate(h)) = Same(h)
    BY <2>3
  <2> HIDE DEF Mate, Same
  <2>5. \A h \in Halves(o) : Mate(Mate(h)) = h
    BY <2>2, <2>3, <2>4
  <2>6. \A h, g \in Halves(o) : h # g => (Before(h, g) <=> ~ Before(g, h))
    BY <1>1, <1>2
  <2> HIDE DEF Before, End
  <2>7. \A h \in A : Mate(h) \in A
    BY <2>3
  <2>8. Paired(A, mates, low)
    <3>1. A \subseteq Halves(o)
      OBVIOUS
    <3> HIDE DEF A
    <3>2. mates \in [A -> A]
      BY <2>7
    <3>3. \A h \in A : mates[mates[h]] = h
      BY <2>5, <2>7, <3>1
    <3>4. \A h \in A : h \in low <=> mates[h] \notin low
      <4>1. SUFFICES ASSUME NEW h \in A
                     PROVE  Before(h, Mate(h)) <=> ~ Before(Mate(h), h)
        BY <2>5, <2>7, <3>1
      <4>. QED
        BY <2>2, <2>3, <2>6, <3>1
    <3>. QED
      BY <3>2, <3>3, <3>4 DEF Paired
  <2>. QED
    BY <1>3, <2>8, PairedEven
<1>5. Even(Cardinality(B))
  <2> DEFINE twins == [h \in B |-> Twin(h)]
             low == {h \in B : h[2] = 1}
  <2>1. \A h \in Halves(o) : Twin(Twin(h)) = h /\ Twin(h)[1] = h[1] /\ (h[2] = 1 <=> Twin(h)[2] # 1)
    BY <1>2
  <2>2. B \subseteq Halves(o) /\ \A h \in B : Twin(h) \in A
    OBVIOUS
  <2> HIDE DEF Twin
  <2>3. \A h \in B : Twin(h) \in B
    BY <2>1, <2>2
  <2> HIDE DEF B
  <2>4. Paired(B, twins, low)
    BY <2>1, <2>2, <2>3 DEF Paired
  <2>. QED
    BY <1>3, <2>4, PairedEven
<1>6. A = B \cup C /\ B \cap C = {}
  <2>1. ASSUME NEW t \in DOMAIN o
        PROVE  /\ <<t, 1>> \in Halves(o) /\ <<t, 2>> \in Halves(o)
               /\ <<t, 2>> \in A => <<t, 1>> \in A
               /\ t \in F \cup W <=> <<t, 1>> \in A /\ <<t, 2>> \notin A
    <3>1. <<t, 1>> \in Halves(o) /\ <<t, 2>> \in Halves(o)
      BY DEF Halves
    <3>2. /\ <<t, 1>> \in A <=> o[t][1][1] <= p[1] /\ o[t][1][2] < p[2]
          /\ <<t, 2>> \in A <=> o[t][2][1] <= p[1] /\ o[t][2][2] < p[2]
      BY <3>1
    <3>3. t \in F \cup W <=> \/ o[t][1][1] <= p[1] /\ p[1] < o[t][2][1] /\ o[t][1][2] < p[2]
                             \/ o[t][1][1] <= p[1] /\ o[t][1][2] < p[2] /\ p[2] <= o[t][2][2]
      BY DEF Floors, Walls
    <3> HIDE DEF A, F, W
    <3>. QED
      BY <3>1, <3>2, <3>3, SegmentEnds
  <2>2. \A t : Twin(<<t, 1>>) = <<t, 2>> /\ Twin(<<t, 2>>) = <<t, 1>>
    OBVIOUS
  <2>3. \A h \in A : h[1] \in DOMAIN o /\ (h = <<h[1], 1>> \/ h = <<h[1], 2>>)
    BY <1>2
  <2>4. \A h : h \in B <=> h \in A /\ Twin(h) \in A
    OBVIOUS
  <2>5. \A t \in F \cup W : t \in DOMAIN o
    BY DEF Floors, Walls
  <2> HIDE DEF A, B, F, W, Twin
  <2>6. \A h \in A : h \in B \/ h \in C
    BY <2>1, <2>2, <2>3, <2>4
  <2>7. \A h \in C : h \in A /\ h \notin B
    BY <2>1, <2>2, <2>4, <2>5
  <2>. QED
    BY <2>4, <2>6, <2>7
<1>7. IsFiniteSet(C) /\ Cardinality(C) = Cardinality(F \cup W) /\ IsFiniteSet(F \cup W)
  <2> DEFINE f == [t \in F \cup W |-> <<t, 1>>]
  <2>1. IsFiniteSet(F \cup W)
    BY <1>3, FS_Union
  <2>2. f \in Bijection(F \cup W, C)
    <3>1. f \in [F \cup W -> C]
      OBVIOUS
    <3>2. \A a, b \in F \cup W : f[a] = f[b] => a = b
      OBVIOUS
    <3>3. \A e \in C : \E t \in F \cup W : f[t] = e
      OBVIOUS
    <3> HIDE DEF f, C
    <3>. QED
      BY <3>1, <3>2, <3>3 DEF Bijection, Injection, Surjection, IsInjective
  <2>3. ExistsBijection(F \cup W, C)
    BY <2>2 DEF ExistsBijection
  <2>. QED
    BY <2>1, <2>3, FS_Bijection
<1>8. F \cap W = {}
  <2>1. ASSUME NEW t \in F, t \in W
        PROVE  FALSE
    <3>1. /\ t \in DOMAIN o
          /\ o[t][1][1] <= p[1] /\ p[1] < o[t][2][1] /\ o[t][1][2] < p[2] /\ p[2] <= o[t][2][2]
      BY <2>1 DEF Floors, Walls
    <3>. QED
      BY <3>1, SegmentEnds
  <2>. QED
    BY <2>1
<1> HIDE DEF A, B, C, F, W
<1>9. /\ Cardinality(A) = Cardinality(B) + Cardinality(C)
      /\ Cardinality(C) = Cardinality(F) + Cardinality(W)
      /\ Cardinality(B) \in Nat /\ Cardinality(C) \in Nat /\ Cardinality(F) \in Nat /\ Cardinality(W) \in Nat
  <2>1. /\ Cardinality(B) \in Nat /\ Cardinality(C) \in Nat
        /\ Cardinality(F) \in Nat /\ Cardinality(W) \in Nat
    BY <1>3, <1>7, FS_CardinalityType
  <2>2. Cardinality(B \cap C) = 0 /\ Cardinality(F \cap W) = 0
    BY <1>6, <1>8, FS_EmptySet
  <2>3. Cardinality(B \cup C) = Cardinality(B) + Cardinality(C) - Cardinality(B \cap C)
    BY <1>3, <1>7, FS_Union
  <2>4. Cardinality(F \cup W) = Cardinality(F) + Cardinality(W) - Cardinality(F \cap W)
    BY <1>3, FS_Union
  <2>. QED
    BY <1>6, <1>7, <2>1, <2>2, <2>3, <2>4
<1>10. Even(Cardinality(F) + Cardinality(W))
  BY <1>4, <1>5, <1>9, EvenDoubles
<1>11. \A m, n \in Nat : Even(m + n) => (Even(m) <=> Even(n))
  <2>1. \A m, n \in Nat : (m + n) % 2 = 0 => (m % 2 = 0 <=> n % 2 = 0)
    OBVIOUS
  <2>. QED
    BY <2>1 DEF Even
<1>. QED
  BY <1>3, <1>9, <1>10, <1>11 DEF F, W

(* The range of columns looked at leaves out none that crosses. *)
LEMMA CrossesColumn ==
  ASSUME scene \in Scenes, Segments # <<>>, NEW v \in Voxels, NEW s, s[1][1] \in Int, s[2][1] \in Int
  PROVE  Crosses(v[1], s) <=> s[1][1] <= Center(v)[1] /\ Center(v)[1] < s[2][1]
<1> DEFINE a == s[1][1]
           b == s[2][1]
           o == Origin[1]
           m == Side(1) - 1
           x == v[1]
           lo == ((a - o + 1) \div 2) - 1
           hi == ((b - o) \div 2) + 1
<1>1. /\ Center(v)[1] = o + 2 * x /\ x \in Int /\ 0 <= x /\ x <= m
      /\ o \in Int /\ m \in Int /\ a \in Int /\ b \in Int
  BY VoxelType
<1>2. Center(<<x, 0>>)[1] = o + 2 * x
  BY DEF Center
<1>3. Crosses(x, s) <=> x \in Max({0, lo}) .. Min({m, hi}) /\ a <= o + 2 * x /\ o + 2 * x < b
  BY <1>2 DEF Crosses, Columns
<1> HIDE DEF a, b, o, m, x
<1>4. ASSUME a <= o + 2 * x, o + 2 * x < b
      PROVE  x \in Max({0, lo}) .. Min({m, hi})
  <2>1. lo \in Int /\ hi \in Int /\ lo <= x /\ x <= hi
    BY <1>1, <1>4
  <2> HIDE DEF lo, hi
  <2>2. Max({0, lo}) = IF 0 <= lo THEN lo ELSE 0
    <3>1. 0 \in Int /\ lo \in Int
      BY <2>1
    <3>. QED
      BY ONLY <3>1, MinMaxOfTwo
  <2>3. m \in Int
    BY <1>1
  <2>4. Min({m, hi}) = IF m <= hi THEN m ELSE hi
    BY <2>1, <2>3, MinMaxOfTwo
  <2>5. Max({0, lo}) \in Int /\ Min({m, hi}) \in Int /\ Max({0, lo}) <= x /\ x <= Min({m, hi})
    BY <1>1, <2>1, <2>2, <2>4
  <2>. QED
    BY <1>1, <2>5
<1>5. Crosses(x, s) <=> a <= o + 2 * x /\ o + 2 * x < b
  BY <1>3, <1>4
<1>. QED
  BY <1>1, <1>5 DEF a, b, o, x

Closed == {k \in DOMAIN scene.objects : IsWatertight(scene.objects[k])}
Under(v) == {e \in Crossings(v[1]) : scene.objects[e[1]][e[2]][1][2] < Center(v)[2]}

(* The surfaces below a voxel are the floors of the closed objects. *)
LEMMA UnderFloors ==
  ASSUME scene \in Scenes, Segments # <<>>, NEW v \in Voxels
  PROVE  Under(v) = Tagged(Closed, [k \in Closed |-> Floors(scene.objects[k], Center(v))])
<1> DEFINE F == [k \in Closed |-> Floors(scene.objects[k], Center(v))]
<1>1. ASSUME NEW k \in Closed
      PROVE  scene.objects[k] \in Seq(Segment) /\ k \in DOMAIN scene.objects
  BY FieldAssumption DEF Closed
<1>2. \A k \in DOMAIN scene.objects : \A t \in DOMAIN scene.objects[k] :
        <<k, t>> \in Under(v) <=>
          /\ IsWatertight(scene.objects[k]) /\ Crosses(v[1], scene.objects[k][t])
          /\ scene.objects[k][t][1][2] < Center(v)[2]
  <2>1. SUFFICES ASSUME NEW k \in DOMAIN scene.objects, NEW t \in DOMAIN scene.objects[k]
                 PROVE  <<k, t>> \in Under(v) <=>
                          /\ IsWatertight(scene.objects[k]) /\ Crosses(v[1], scene.objects[k][t])
                          /\ scene.objects[k][t][1][2] < Center(v)[2]
    OBVIOUS
  <2> DEFINE e == <<k, t>>
  <2>2. e \in UNION {{<<j, u>> : u \in DOMAIN scene.objects[j]} : j \in DOMAIN scene.objects}
    OBVIOUS
  <2>3. e[1] = k /\ e[2] = t
    OBVIOUS
  <2> HIDE DEF e
  <2>4. e \in Under(v) <=> /\ IsWatertight(scene.objects[k]) /\ Crosses(v[1], scene.objects[k][t])
                           /\ scene.objects[k][t][1][2] < Center(v)[2]
    BY <2>2, <2>3 DEF Under, Crossings
  <2>. QED
    BY <2>4 DEF e
<1>3. \A e \in Under(v) : \E k \in DOMAIN scene.objects : \E t \in DOMAIN scene.objects[k] : e = <<k, t>>
  BY DEF Under, Crossings
<1>4. \A k \in Closed : \A t \in DOMAIN scene.objects[k] :
        Crosses(v[1], scene.objects[k][t]) <=>
          scene.objects[k][t][1][1] <= Center(v)[1] /\ Center(v)[1] < scene.objects[k][t][2][1]
  <2>1. SUFFICES ASSUME NEW k \in Closed, NEW t \in DOMAIN scene.objects[k]
                 PROVE  Crosses(v[1], scene.objects[k][t]) <=>
                          scene.objects[k][t][1][1] <= Center(v)[1] /\ Center(v)[1] < scene.objects[k][t][2][1]
    OBVIOUS
  <2>2. scene.objects[k][t][1][1] \in Int /\ scene.objects[k][t][2][1] \in Int
    BY <1>1, SegmentEnds
  <2>. QED
    BY <2>2, CrossesColumn
<1>5. \A k \in Closed : \A t : t \in F[k] <=>
        /\ t \in DOMAIN scene.objects[k] /\ Crosses(v[1], scene.objects[k][t])
        /\ scene.objects[k][t][1][2] < Center(v)[2]
  BY <1>4 DEF Floors
<1>6. \A e : e \in Tagged(Closed, F) <=> \E k \in Closed : \E t \in F[k] : e = <<k, t>>
  BY DEF Tagged
<1> HIDE DEF F
<1>7. \A k \in DOMAIN scene.objects : IsWatertight(scene.objects[k]) <=> k \in Closed
  BY DEF Closed
<1>8. ASSUME NEW e \in Under(v)
      PROVE  e \in Tagged(Closed, F)
  BY <1>2, <1>3, <1>5, <1>6, <1>7
<1>9. ASSUME NEW e \in Tagged(Closed, F)
      PROVE  e \in Under(v)
  BY <1>1, <1>2, <1>5, <1>6, <1>7
<1>10. Under(v) = Tagged(Closed, F)
  BY <1>8, <1>9
<1>. QED
  BY <1>10 DEF F

(* A column's surfaces below a voxel that at most one closed object holds are odd in
   number exactly if one holds it. *)
LEMMA InsideHeld ==
  ASSUME scene \in Scenes, Segments # <<>>, NEW v \in Voxels, Cardinality(Holders(v)) <= 1
  PROVE  Inside(v) <=> Holders(v) # {}
<1> DEFINE p == Center(v)
           F == [k \in Closed |-> Floors(scene.objects[k], p)]
           K == Closed \ Holders(v)
<1>1. /\ IsFiniteSet(Closed) /\ Holders(v) \subseteq Closed /\ IsFiniteSet(Holders(v)) /\ IsFiniteSet(K)
      /\ \A k \in Closed : scene.objects[k] \in Seq(Segment) /\ IsWatertight(scene.objects[k])
  <2>1. scene.objects \in Seq(Seq(Segment))
    BY FieldAssumption
  <2>2. Len(scene.objects) \in Nat /\ DOMAIN scene.objects = 1 .. Len(scene.objects)
    BY <2>1
  <2>3. IsFiniteSet(1 .. Len(scene.objects))
    BY <2>2, FS_Interval
  <2>4. Closed \subseteq 1 .. Len(scene.objects) /\ Holders(v) \subseteq Closed /\ K \subseteq Closed
    BY <2>2 DEF Closed, Holders
  <2>5. \A k \in Closed : scene.objects[k] \in Seq(Segment) /\ IsWatertight(scene.objects[k])
    BY <2>1 DEF Closed
  <2>6. IsFiniteSet(Closed)
    BY <2>3, <2>4, FS_Subset
  <2>. QED
    BY <2>4, <2>5, <2>6, FS_Subset
<1>2. p[1] \in Int /\ p[2] \in Int
  BY VoxelType
<1>3. \A k \in Closed : /\ IsFiniteSet(F[k]) /\ Cardinality(F[k]) \in Nat
                        /\ k \in Holders(v) <=> ~ Even(Cardinality(F[k]))
  <2>1. SUFFICES ASSUME NEW k \in Closed
                 PROVE  /\ IsFiniteSet(F[k]) /\ Cardinality(F[k]) \in Nat
                        /\ k \in Holders(v) <=> ~ Even(Cardinality(F[k]))
    OBVIOUS
  <2> DEFINE o == scene.objects[k]
  <2>2. o \in Seq(Segment) /\ IsWatertight(o) /\ k \in DOMAIN scene.objects
    BY <1>1 DEF Closed
  <2>3. k \in Holders(v) <=> Cardinality(Walls(o, p)) % 2 = 1
    BY <2>2 DEF Holders, Holds
  <2>4. F[k] = Floors(o, p)
    OBVIOUS
  <2> HIDE DEF o, p, F
  <2>5. /\ IsFiniteSet(Floors(o, p)) /\ IsFiniteSet(Walls(o, p))
        /\ Even(Cardinality(Floors(o, p))) <=> Even(Cardinality(Walls(o, p)))
    BY <1>2, <2>2, FloorsLikeWalls
  <2>6. Cardinality(Walls(o, p)) \in Nat /\ Cardinality(Floors(o, p)) \in Nat
    BY <2>5, FS_CardinalityType
  <2>. QED
    BY <2>3, <2>4, <2>5, <2>6, EvenDoubles
<1>4. Under(v) = Tagged(Closed, F)
  BY UnderFloors
<1>5. Inside(v) <=> Cardinality(Under(v)) % 2 = 1
  BY DEF Inside, Under
<1> HIDE DEF F, p
<1>6. IsFiniteSet(Tagged(K, F)) /\ Even(Cardinality(Tagged(K, F)))
  <2>1. \A k \in K : IsFiniteSet(F[k]) /\ Even(Cardinality(F[k]))
    BY <1>3
  <2> HIDE DEF K
  <2>. QED
    BY <1>1, <2>1, EvenTogether
<1>7. CASE Holders(v) = {}
  <2>1. K = Closed
    BY <1>7
  <2>2. Even(Cardinality(Under(v)))
    BY <1>4, <1>6, <2>1
  <2>. QED
    BY <1>5, <1>7, <2>2 DEF Even
<1>8. CASE Holders(v) # {}
  <2>1. PICK j : Holders(v) = {j}
    <3>1. Cardinality(Holders(v)) \in Nat /\ Cardinality(Holders(v)) # 0
      BY <1>1, <1>8, FS_CardinalityType, FS_EmptySet
    <3>2. Cardinality(Holders(v)) = 1
      BY <3>1
    <3>. QED
      BY <1>1, <3>2, FS_Singleton
  <2> DEFINE J == {<<j, t>> : t \in F[j]}
             f == [t \in F[j] |-> <<j, t>>]
  <2>2. j \in Closed /\ j \in Holders(v) /\ K = Closed \ {j}
    BY <1>1, <2>1
  <2>3. Tagged(Closed, F) = J \cup Tagged(K, F) /\ J \cap Tagged(K, F) = {}
    <3>1. Tagged(Closed, F) = J \cup Tagged(K, F)
      BY <2>2 DEF Tagged
    <3>2. J \cap Tagged(K, F) = {}
      BY <2>2 DEF Tagged
    <3>. QED
      BY <3>1, <3>2
  <2>4. IsFiniteSet(J) /\ Cardinality(J) = Cardinality(F[j])
    <3>1. f \in Bijection(F[j], J)
      <4>1. f \in [F[j] -> J]
        OBVIOUS
      <4>2. \A a, b \in F[j] : f[a] = f[b] => a = b
        OBVIOUS
      <4>3. \A e \in J : \E t \in F[j] : f[t] = e
        OBVIOUS
      <4> HIDE DEF f, J
      <4>. QED
        BY <4>1, <4>2, <4>3 DEF Bijection, Injection, Surjection, IsInjective
    <3>2. ExistsBijection(F[j], J)
      BY <3>1 DEF ExistsBijection
    <3>. QED
      BY <1>3, <2>2, <3>2, FS_Bijection
  <2>5. ~ Even(Cardinality(J)) /\ Cardinality(J) \in Nat
    BY <1>3, <2>2, <2>4
  <2> HIDE DEF J, K
  <2>6. Cardinality(Tagged(Closed, F)) = Cardinality(Tagged(K, F)) + Cardinality(J)
    <3>1. Cardinality(J \cup Tagged(K, F)) =
            Cardinality(J) + Cardinality(Tagged(K, F)) - Cardinality(J \cap Tagged(K, F))
      BY <1>6, <2>4, FS_Union
    <3>2. Cardinality(J \cap Tagged(K, F)) = 0
      BY <2>3, FS_EmptySet
    <3>3. Cardinality(Tagged(K, F)) \in Nat
      BY <1>6 DEF Even
    <3>. QED
      BY <2>3, <2>5, <3>1, <3>2, <3>3
  <2>7. Cardinality(Tagged(K, F)) \in Nat
    BY <1>6 DEF Even
  <2>8. ~ Even(Cardinality(Under(v))) /\ Cardinality(Under(v)) \in Nat
    <3>1. PICK c \in Nat, d \in Nat : c = Cardinality(Tagged(K, F)) /\ d = Cardinality(J)
      BY <2>5, <2>7
    <3>2. Even(c) /\ ~ Even(d) /\ Cardinality(Under(v)) = c + d
      BY <1>4, <1>6, <2>5, <2>6, <3>1
    <3>3. ~ Even(c + d) /\ c + d \in Nat
      BY <3>2, EvenDoubles
    <3>. QED
      BY <3>2, <3>3
  <2>. QED
    BY <1>5, <1>8, <2>8, EvenDoubles
<1>. QED
  BY <1>7, <1>8

(* Columns agree with rows: for any closed outlines, beside any open ones, a built field is
   negative exactly at the voxels inside a closed object that are on no surface, wherever
   no two closed objects overlap. *)
THEOREM SignsAreRight == Spec => []SignsRight
<1>1. FloodInv => SignsRight
  <2>1. SUFFICES ASSUME FloodInv, pc = "built", NEW v \in Voxels, Cardinality(Holders(v)) <= 1
                 PROVE  (dist[v] < 0) = (Holders(v) # {} /\ ids[v] # Center(v))
    BY DEF SignsRight
  <2>2. /\ scene \in Scenes /\ Segments # <<>> /\ ids[v] \in Worth(v)
        /\ dist[v] = IF Inside(v) THEN -Raw(v) ELSE Raw(v)
    BY <2>1 DEF FloodInv, FieldInv, Flooded
  <2>3. Raw(v) \in Nat
    BY <2>1, UnsignedRaw
  <2>4. Center(v)[1] \in Int /\ Center(v)[2] \in Int
    BY <2>2, VoxelType
  <2>5. Raw(v) = 0 => ids[v] = Center(v)
    <3>1. SUFFICES ASSUME Raw(v) = 0
                   PROVE  ids[v] = Center(v)
      OBVIOUS
    <3>2. ids[v] # NoSeed /\ Square(Center(v), ids[v]) = 0
      BY <3>1 DEF Raw, Infinite
    <3>3. ids[v] \in SurfacePoints
      BY <2>2, <3>2 DEF Worth
    <3>4. ids[v] \in [{1, 2} -> Int]
      BY <2>2, <3>3, SurfacePointType
    <3>5. ids[v][1] \in Int /\ ids[v][2] \in Int
      BY <3>4
    <3>6. ids[v][1] = Center(v)[1] /\ ids[v][2] = Center(v)[2]
      BY <2>4, <3>2, <3>5, SquareProperties
    <3>7. DOMAIN Center(v) = {1, 2} /\ Center(v) = <<Center(v)[1], Center(v)[2]>>
      BY DEF Center
    <3>8. ids[v] = [i \in {1, 2} |-> Center(v)[i]]
      BY <3>4, <3>6
    <3>9. Center(v) = [i \in {1, 2} |-> Center(v)[i]]
      BY <3>7
    <3>. QED
      BY <3>8, <3>9
  <2>6. ids[v] = Center(v) => Raw(v) = 0
    <3>1. SUFFICES ASSUME ids[v] = Center(v)
                   PROVE  Raw(v) = 0
      OBVIOUS
    <3>2. ids[v] # NoSeed
      BY <3>1 DEF Center, NoSeed
    <3>3. Square(Center(v), Center(v)) = 0
      BY <2>4 DEF Square
    <3>. QED
      BY <3>1, <3>2, <3>3 DEF Raw
  <2>7. Inside(v) <=> Holders(v) # {}
    BY <2>1, <2>2, InsideHeld
  <2>8. dist[v] < 0 <=> Inside(v) /\ Raw(v) # 0
    BY <2>2, <2>3
  <2>9. (dist[v] < 0) \in BOOLEAN
    BY <2>2, <2>3
  <2>. QED
    BY <2>5, <2>6, <2>7, <2>8, <2>9
<1>. QED
  BY <1>1, SpecFlooded, PTL

===============================================================================
