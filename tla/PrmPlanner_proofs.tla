--------------------------- MODULE PrmPlanner_proofs ---------------------------
(***************************************************************************)
(* Proofs about PrmPlanner and the roadmap it builds, for every metric     *)
(* space, sample sequence, scene, goal list and number of neighbours.      *)
(***************************************************************************)
EXTENDS PrmPlanner, FiniteSetTheorems, WellFoundedInduction, TLAPS

-------------------------------------------------------------------------------
(* Natural numbers, finite sets, recursion *)

(* Every non-empty set of natural numbers has a least element. *)
LEMMA LeastElement ==
  ASSUME NEW S \in SUBSET Nat, S # {}
  PROVE  \E m \in S : \A n \in S : m <= n
<1>1. PICK m \in S : \A n \in S : ~ (<<n, m>> \in OpToRel(<, Nat))
  BY NatLessThanWellFounded, WFMin
<1>2. \A n \in S : ~ (n < m)
  BY <1>1 DEF OpToRel
<1>. QED
  BY <1>2

\* R is a strict total order of S.
Orders(R, S) ==
  /\ \A x, y \in S : x # y => <<x, y>> \in R \/ <<y, x>> \in R
  /\ \A x \in S : <<x, x>> \notin R
  /\ \A x, y, z \in S : <<x, y>> \in R /\ <<y, z>> \in R => <<x, z>> \in R

(* A strict total order of a finite set gives every rank to one of its elements. *)
LEMMA EveryRankTaken ==
  ASSUME NEW S, IsFiniteSet(S), NEW R, Orders(R, S), NEW r \in 1 .. Cardinality(S)
  PROVE  \E i \in S : Cardinality({j \in S : <<j, i>> \in R}) = r - 1
<1> DEFINE Under(i) == {j \in S : <<j, i>> \in R}
           n == Cardinality(S)
           rank == [i \in S |-> Cardinality(Under(i))]
<1>1. n \in Nat /\ \A i \in S : IsFiniteSet(Under(i)) /\ Cardinality(Under(i)) \in Nat
  BY FS_CardinalityType, FS_Subset
<1>2. ASSUME NEW i \in S
      PROVE  Cardinality(Under(i)) \in 0 .. n - 1
  <2>1. Under(i) \in SUBSET S /\ Under(i) # S
    BY DEF Orders
  <2> HIDE DEF Under
  <2>2. Cardinality(Under(i)) <= n /\ Cardinality(Under(i)) # n
    BY <2>1, FS_Subset
  <2>. QED
    BY <1>1, <2>2
<1>3. ASSUME NEW x \in S, NEW y \in S, <<x, y>> \in R
      PROVE  Cardinality(Under(x)) # Cardinality(Under(y))
  <2>1. Under(x) \in SUBSET Under(y) /\ x \in Under(y) /\ x \notin Under(x)
    BY <1>3 DEF Orders
  <2> HIDE DEF Under
  <2>. QED
    BY <1>1, <2>1, FS_Subset
<1>4. rank \in Injection(S, 0 .. n - 1)
  <2>1. rank \in [S -> 0 .. n - 1]
    BY <1>2
  <2>2. ASSUME NEW x \in S, NEW y \in S, x # y
        PROVE  rank[x] # rank[y]
    <3>1. Cardinality(Under(x)) # Cardinality(Under(y))
      <4>1. <<x, y>> \in R \/ <<y, x>> \in R
        BY <2>2 DEF Orders
      <4> HIDE DEF Under
      <4>. QED
        BY <1>3, <4>1
    <3> HIDE DEF Under
    <3>. QED
      BY <3>1
  <2> HIDE DEF rank
  <2>. QED
    BY <2>1, <2>2 DEF Injection, IsInjective
<1>5. IsFiniteSet(0 .. n - 1) /\ Cardinality(0 .. n - 1) = n
  <2>1. 0 \in Int /\ n - 1 \in Int /\ (0 > n - 1 <=> n = 0) /\ (n - 1) - 0 + 1 = n
    BY <1>1
  <2> HIDE DEF n
  <2>. QED
    BY <2>1, FS_Interval
<1>6. rank \in Surjection(S, 0 .. n - 1)
  <2> HIDE DEF rank
  <2>. QED
    BY <1>4, <1>5, FS_Injection
<1>7. r - 1 \in 0 .. n - 1
  BY <1>1
<1>8. PICK i \in S : rank[i] = r - 1
  <2> HIDE DEF rank
  <2>. QED
    BY <1>6, <1>7 DEF Surjection
<1>. QED
  BY <1>8

\* f is the function that starts at base and takes each value by op from the one before.
Recurrence(S, base, op, f) ==
  /\ f = [n \in Nat |-> IF n = 0 THEN base ELSE op[f[n - 1]]]
  /\ f \in [Nat -> S]

(* A function on the natural numbers may be defined from its value one before. *)
LEMMA RecurrenceExists ==
  ASSUME NEW S, NEW base \in S, NEW op \in [S -> S]
  PROVE  \E f : Recurrence(S, base, op, f)
<1> DEFINE Table(m, f) == f[0] = base /\ \A i \in 1 .. m : f[i] = op[f[i - 1]]
           Tabled(m) == \E f \in [0 .. m -> S] : Table(m, f)
           Missing == {m \in Nat : ~ Tabled(m)}
<1>1. Missing = {}
  <2>1. SUFFICES ASSUME Missing # {}
                 PROVE  FALSE
    OBVIOUS
  <2>2. PICK m \in Missing : \A k \in Missing : m <= k
    <3>1. Missing \in SUBSET Nat
      OBVIOUS
    <3> HIDE DEF Missing
    <3>. QED
      BY <2>1, <3>1, LeastElement
  <2>3. m # 0
    <3>1. [i \in 0 .. 0 |-> base] \in [0 .. 0 -> S] /\ Table(0, [i \in 0 .. 0 |-> base])
      OBVIOUS
    <3>2. Tabled(0)
      BY <3>1
    <3>. QED
      BY <2>2, <3>2
  <2>4. m - 1 \in Nat /\ Tabled(m - 1)
    <3>1. m \in Nat /\ m - 1 \in Nat /\ ~ (m <= m - 1)
      BY <2>2, <2>3
    <3>. QED
      BY <2>2, <3>1
  <2>5. PICK f \in [0 .. m - 1 -> S] : Table(m - 1, f)
    BY <2>4
  <2> DEFINE g == [i \in 0 .. m |-> IF i = m THEN op[f[m - 1]] ELSE f[i]]
  <2>6. f[m - 1] \in S /\ m \in Nat
    BY <2>2, <2>4
  <2>7. g \in [0 .. m -> S]
    BY <2>6
  <2>8. g[0] = base
    BY <2>3, <2>5, <2>6
  <2>9. ASSUME NEW i \in 1 .. m
        PROVE  g[i] = op[g[i - 1]]
    <3>1. i \in 0 .. m /\ i - 1 \in 0 .. m /\ i - 1 # m
      BY <2>6
    <3>2. g[i - 1] = f[i - 1]
      BY <3>1
    <3>3. CASE i = m
      BY <3>1, <3>2, <3>3
    <3>4. CASE i # m
      <4>1. g[i] = f[i] /\ i \in 1 .. m - 1
        BY <2>6, <3>1, <3>4
      <4>. QED
        BY <2>5, <3>2, <4>1
    <3>. QED
      BY <3>3, <3>4
  <2> HIDE DEF g
  <2>10. Tabled(m)
    BY <2>7, <2>8, <2>9
  <2>. QED
    BY <2>2, <2>10
<1>2. \A m \in Nat : Tabled(m)
  BY <1>1
<1> DEFINE table(m) == CHOOSE f \in [0 .. m -> S] : Table(m, f)
           f == [m \in Nat |-> table(m)[m]]
<1>3. \A m \in Nat : table(m) \in [0 .. m -> S] /\ Table(m, table(m))
  <2> HIDE DEF Table
  <2>. QED
    BY <1>2
<1>4. ASSUME NEW m \in Nat \ {0}
      PROVE  table(m)[m - 1] = table(m - 1)[m - 1]
  <2> DEFINE a == table(m)
             b == table(m - 1)
             Differ == {i \in 0 .. m - 1 : a[i] # b[i]}
  <2>1. /\ m \in Nat /\ m - 1 \in Nat
        /\ a[0] = base /\ \A i \in 1 .. m : a[i] = op[a[i - 1]]
        /\ b[0] = base /\ \A i \in 1 .. m - 1 : b[i] = op[b[i - 1]]
    <3>1. m \in Nat /\ m - 1 \in Nat
      OBVIOUS
    <3> HIDE DEF table
    <3>. QED
      BY <1>3, <3>1
  <2> HIDE DEF table
  <2>2. SUFFICES Differ = {}
    <3>1. m - 1 \in 0 .. m - 1
      BY <2>1
    <3> HIDE DEF a, b
    <3>2. Differ = {} => a[m - 1] = b[m - 1]
      BY <3>1
    <3>. QED
      BY <3>2 DEF a, b
  <2> HIDE DEF a, b
  <2>3. SUFFICES ASSUME Differ # {}
                 PROVE  FALSE
    OBVIOUS
  <2>4. PICK i \in Differ : \A k \in Differ : i <= k
    <3>1. Differ \in SUBSET Nat
      OBVIOUS
    <3> HIDE DEF Differ
    <3>. QED
      BY <2>3, <3>1, LeastElement
  <2>5. i \in 0 .. m - 1 /\ a[i] # b[i]
    BY <2>4
  <2>6. i # 0
    BY <2>1, <2>5
  <2>7. i - 1 \in 0 .. m - 1 /\ ~ (i <= i - 1) /\ i \in 1 .. m - 1 /\ i \in 1 .. m
    BY <2>1, <2>5, <2>6
  <2>8. a[i - 1] = b[i - 1]
    BY <2>4, <2>7
  <2>. QED
    BY <2>1, <2>5, <2>7, <2>8
<1>5. f \in [Nat -> S]
  <2>1. \A m \in Nat : m \in 0 .. m
    OBVIOUS
  <2> HIDE DEF table
  <2>. QED
    BY <1>3, <2>1
<1>6. \A n \in Nat : f[n] = IF n = 0 THEN base ELSE op[f[n - 1]]
  <2> TAKE n \in Nat
  <2>1. CASE n = 0
    BY <1>3, <2>1
  <2>2. CASE n # 0
    <3>1. n \in Nat \ {0} /\ n \in 1 .. n /\ n - 1 \in Nat
      BY <2>2
    <3>2. table(n)[n] = op[table(n)[n - 1]]
      BY <1>3, <3>1
    <3>3. table(n)[n - 1] = table(n - 1)[n - 1]
      BY <1>4, <3>1
    <3> HIDE DEF table
    <3>. QED
      BY <2>2, <3>1, <3>2, <3>3
  <2>. QED
    BY <2>1, <2>2
<1>7. f = [n \in Nat |-> IF n = 0 THEN base ELSE op[f[n - 1]]]
  <2> HIDE DEF table
  <2>1. f = [n \in Nat |-> f[n]]
    OBVIOUS
  <2> HIDE DEF f
  <2>. QED
    BY <1>6, <2>1
<1>. QED
  BY <1>5, <1>7 DEF Recurrence

\* w is what the loop that moves by next until it stops returns from each place.
Loop(S, stop, next, w) == w = [s \in S |-> IF s \in stop THEN s ELSE w[next[s]]]

(* A loop that moves from place to place until it stops has a result: the one the
   recursive function says, at least where it does stop. *)
LEMMA LoopExists ==
  ASSUME NEW S, NEW stop, NEW next \in [S -> S]
  PROVE  \E w \in [S -> S] : Loop(S, stop, next, w)
<1> DEFINE T == [S -> S]
           base == [s \in S |-> s]
           op == [f \in T |-> [s \in S |-> f[next[s]]]]
<1>1. PICK it : Recurrence(T, base, op, it)
  <2>1. base \in T /\ op \in [T -> T]
    OBVIOUS
  <2> HIDE DEF T, base, op
  <2>. QED
    BY <2>1, RecurrenceExists
<1>2. /\ it \in [Nat -> T]
      /\ \A s \in S : it[0][s] = s
      /\ \A n \in Nat, s \in S : it[n + 1][s] = it[n][next[s]]
  <2>1. it \in [Nat -> T] /\ it = [n \in Nat |-> IF n = 0 THEN base ELSE op[it[n - 1]]]
    BY <1>1 DEF Recurrence
  <2>2. it[0] = base
    <3> HIDE DEF T, base, op
    <3>. QED
      BY <2>1
  <2>3. ASSUME NEW n \in Nat
        PROVE  it[n + 1] = op[it[n]]
    <3>1. n + 1 \in Nat /\ n + 1 # 0 /\ (n + 1) - 1 = n
      OBVIOUS
    <3> HIDE DEF T, base, op
    <3>2. it[n + 1] = IF n + 1 = 0 THEN base ELSE op[it[(n + 1) - 1]]
      BY <2>1, <3>1
    <3>. QED
      BY <3>1, <3>2
  <2>4. \A n \in Nat, s \in S : it[n + 1][s] = it[n][next[s]]
    <3> TAKE n \in Nat, s \in S
    <3>1. it[n] \in T
      BY <2>1
    <3>2. op[it[n]] = [x \in S |-> it[n][next[x]]]
      BY <3>1
    <3>3. op[it[n]][s] = it[n][next[s]]
      BY <3>2
    <3> HIDE DEF T, base, op
    <3>. QED
      BY <2>3, <3>3
  <2>. QED
    BY <2>1, <2>2, <2>4
<1> HIDE DEF T, base, op
<1> DEFINE Ends(s) == {n \in Nat : it[n][s] \in stop}
           first(s) == CHOOSE n \in Ends(s) : \A k \in Ends(s) : n <= k
           some == CHOOSE s \in S : TRUE
           w == [s \in S |-> IF Ends(s) = {} THEN some ELSE it[first(s)][s]]
<1>3. \A s \in S : Ends(s) # {} => first(s) \in Ends(s) /\ \A k \in Ends(s) : first(s) <= k
  <2> TAKE s \in S
  <2>1. Ends(s) \in SUBSET Nat
    OBVIOUS
  <2> HIDE DEF Ends
  <2>. QED
    BY <2>1, LeastElement
<1>4. \A s \in S, n \in Nat : it[n][s] \in S
  BY <1>2 DEF T
<1>5. w \in [S -> S]
  <2>1. ASSUME NEW s \in S
        PROVE  (IF Ends(s) = {} THEN some ELSE it[first(s)][s]) \in S
    <3>1. some \in S
      OBVIOUS
    <3>2. Ends(s) # {} => first(s) \in Nat
      <4>1. Ends(s) \in SUBSET Nat
        OBVIOUS
      <4> HIDE DEF Ends, first
      <4>. QED
        BY <1>3, <4>1
    <3> HIDE DEF Ends, first, some
    <3>. QED
      BY <1>4, <3>1, <3>2
  <2> HIDE DEF Ends, first, some
  <2>. QED
    BY <2>1
<1>6. ASSUME NEW s \in S
      PROVE  w[s] = IF s \in stop THEN s ELSE w[next[s]]
  <2>1. CASE s \in stop
    <3>1. 0 \in Ends(s)
      BY <1>2, <2>1
    <3>2. first(s) = 0
      <4>1. first(s) \in Nat /\ first(s) <= 0
        BY <1>3, <3>1
      <4> HIDE DEF first
      <4>. QED
        BY <4>1
    <3>3. w[s] = it[0][s]
      <4>1. Ends(s) # {}
        BY <3>1
      <4> HIDE DEF Ends, first
      <4>. QED
        BY <3>2, <4>1
    <3>. QED
      BY <1>2, <2>1, <3>3
  <2>2. CASE s \notin stop
    <3> DEFINE t == next[s]
    <3>1. t \in S
      OBVIOUS
    <3>2. \A n \in Ends(t) : n + 1 \in Ends(s)
      BY <1>2
    <3>3. \A n \in Ends(s) : n # 0 /\ n - 1 \in Ends(t)
      <4> TAKE n \in Ends(s)
      <4>1. n \in Nat /\ it[n][s] \in stop
        OBVIOUS
      <4>2. n # 0
        BY <1>2, <2>2, <4>1
      <4>3. n - 1 \in Nat /\ (n - 1) + 1 = n
        BY <4>1, <4>2
      <4>4. it[(n - 1) + 1][s] = it[n - 1][t]
        BY <1>2, <4>3
      <4>. QED
        BY <4>1, <4>2, <4>3, <4>4
    <3>4. Ends(s) \in SUBSET Nat /\ Ends(t) \in SUBSET Nat
      OBVIOUS
    <3>5. CASE Ends(t) = {}
      <4>1. Ends(s) = {}
        BY <3>3, <3>5
      <4> HIDE DEF Ends, first, some
      <4>. QED
        BY <2>2, <3>1, <3>5, <4>1
    <3>6. CASE Ends(t) # {}
      <4>1. first(t) \in Ends(t) /\ \A k \in Ends(t) : first(t) <= k
        BY <1>3, <3>1, <3>6
      <4>2. Ends(s) # {}
        BY <3>2, <4>1
      <4>3. first(s) \in Ends(s) /\ \A k \in Ends(s) : first(s) <= k
        BY <1>3, <4>2
      <4> HIDE DEF Ends, first, t
      <4>4. first(s) <= first(t) + 1 /\ first(s) # 0 /\ first(t) <= first(s) - 1
        BY <3>2, <3>3, <4>1, <4>3
      <4>5. first(s) = first(t) + 1 /\ first(t) \in Nat
        BY <3>4, <4>1, <4>3, <4>4
      <4>6. it[first(s)][s] = it[first(t)][t]
        BY <1>2, <4>5 DEF t
      <4>7. w[s] = it[first(s)][s] /\ w[t] = it[first(t)][t]
        BY <3>1, <3>6, <4>2
      <4>8. w[s] = w[t]
        BY <4>6, <4>7
      <4> HIDE DEF w
      <4>. QED
        BY <2>2, <4>8 DEF t
    <3>. QED
      BY <3>5, <3>6
  <2>. QED
    BY <2>1, <2>2
<1>7. Loop(S, stop, next, w)
  <2>1. w = [s \in S |-> w[s]]
    <3> HIDE DEF Ends, first, some
    <3>. QED
      OBVIOUS
  <2> HIDE DEF w
  <2>. QED
    BY <1>6, <2>1 DEF Loop
<1>. QED
  BY <1>5, <1>7

-------------------------------------------------------------------------------
(* The operators of the construction *)

(* Kept holds elements of s at the places asked. *)
LEMMA KeptType ==
  ASSUME NEW T, NEW s, NEW K, IsFiniteSet(K), K \in SUBSET Nat, \A i \in K : s[i] \in T
  PROVE  Kept(s, K) \in Seq(T)
<1> DEFINE R == {e \in K \X K : e[1] < e[2]}
           n == Cardinality(K)
<1>1. n \in Nat
  BY FS_CardinalityType
<1>2. \A i, j \in K : <<j, i>> \in R <=> j < i
  OBVIOUS
<1>3. Orders(R, K)
  BY <1>2 DEF Orders
<1>4. ASSUME NEW r \in 1 .. n
      PROVE  Place(K, r) \in K
  <2>1. PICK i \in K : Cardinality({j \in K : <<j, i>> \in R}) = r - 1
    <3>1. IsFiniteSet(K) /\ r \in 1 .. Cardinality(K)
      OBVIOUS
    <3> HIDE DEF R, n
    <3>. QED
      BY ONLY <1>3, <3>1, EveryRankTaken
  <2>2. {j \in K : <<j, i>> \in R} = {j \in K : j < i}
    BY <1>2
  <2>3. Cardinality({j \in K : j < i}) = r - 1
    BY <2>1, <2>2
  <2>. QED
    BY <2>3 DEF Place
<1>5. \A r \in 1 .. n : s[Place(K, r)] \in T
  BY <1>4
<1>6. Kept(s, K) = [r \in 1 .. n |-> s[Place(K, r)]]
  BY DEF Kept
<1> HIDE DEF n
<1>. QED
  BY <1>1, <1>5, <1>6

(* The r-th nearest of some nodes is one of them. *)
LEMMA NthType ==
  ASSUME nodes \in Seq(Cfg), NEW from \in Cfg, NEW S \in SUBSET DOMAIN nodes,
         NEW r \in 1 .. Cardinality(S)
  PROVE  Nth(from, S, r) \in S
<1> DEFINE R == {e \in S \X S : Before(from, e[1], e[2])}
<1>1. IsFiniteSet(S) /\ \A i \in S : i \in Nat
  <2>1. DOMAIN nodes = 1 .. Len(nodes) /\ Len(nodes) \in Nat
    OBVIOUS
  <2>2. IsFiniteSet(1 .. Len(nodes))
    BY <2>1, FS_Interval
  <2>. QED
    BY <2>1, <2>2, FS_Subset
<1>2. \A i, j \in S : <<j, i>> \in R <=> Before(from, j, i)
  OBVIOUS
<1>3. \A i \in S : Dist[nodes[i]][from] \in Nat
  BY SpaceAssumption
<1>4. Orders(R, S)
  <2> DEFINE d == [i \in S |-> Dist[nodes[i]][from]]
  <2>1. \A i, j \in S : <<j, i>> \in R <=> d[j] < d[i] \/ (d[j] = d[i] /\ j < i)
    BY <1>2 DEF Before
  <2>2. \A i \in S : d[i] \in Nat
    BY <1>3
  <2> HIDE DEF R, d
  <2>3. \A x, y \in S : x # y => <<x, y>> \in R \/ <<y, x>> \in R
    BY <1>1, <2>1, <2>2
  <2>4. \A x \in S : <<x, x>> \notin R
    BY <1>1, <2>1, <2>2
  <2>5. \A x, y, z \in S : <<x, y>> \in R /\ <<y, z>> \in R => <<x, z>> \in R
    BY <1>1, <2>1, <2>2
  <2>. QED
    BY <2>3, <2>4, <2>5 DEF Orders
<1>5. PICK i \in S : Cardinality({j \in S : <<j, i>> \in R}) = r - 1
  <2> HIDE DEF R
  <2>. QED
    BY <1>1, <1>4, EveryRankTaken
<1>6. {j \in S : <<j, i>> \in R} = {j \in S : Before(from, j, i)}
  BY <1>2
<1>7. Cardinality({j \in S : Before(from, j, i)}) = r - 1
  BY <1>5, <1>6
<1>. QED
  BY <1>7 DEF Nth

-------------------------------------------------------------------------------
(* The union-find *)

\* A forest whose nodes have smaller parents, or none.
Forest(p, n) == p \in [1 .. n -> 1 .. n] /\ \A i \in 1 .. n : p[i] <= i

\* rt gives each node the root of its tree.
Roots(p, n, rt) == rt \in [1 .. n -> 1 .. n] /\ \A i \in 1 .. n : rt[i] = IF p[i] = i THEN i ELSE rt[p[i]]

\* No tree has nodes both in C and outside.
Keeps(p, n, C) == \A i \in 1 .. n : i \in C <=> p[i] \in C

Halved(p, x) == [p EXCEPT ![x] = p[p[x]]]

(* One turn of the loop of find. *)
LEMMA FindStep ==
  ASSUME NEW n \in Nat, NEW p \in [1 .. n -> 1 .. n], NEW x \in 1 .. n
  PROVE  Find(p, x) = IF p[x] = x THEN <<p, x>> ELSE Find(Halved(p, x), p[p[x]])
<1> DEFINE D == 1 .. n
           S == [D -> D] \X D
           next == [s \in S |-> <<Halved(s[1], s[2]), s[1][s[1][s[2]]]>>]
           stop == {s \in S : s[1][s[2]] = s[2]}
           Rec(w) == w = [s \in S |->
             LET q == s[1]
                 y == s[2]
             IN  IF q[y] = y THEN <<q, y>>
                 ELSE LET h == [q EXCEPT ![y] = q[q[y]]] IN w[<<h, h[y]>>]]
           walk == CHOOSE w : Rec(w)
<1>1. ASSUME NEW s \in S
      PROVE  /\ s[1] \in [D -> D] /\ s[2] \in D /\ s = <<s[1], s[2]>>
             /\ Halved(s[1], s[2]) \in [D -> D] /\ s[1][s[1][s[2]]] \in D
             /\ Halved(s[1], s[2])[s[2]] = s[1][s[1][s[2]]]
  <2>1. s[1] \in [D -> D] /\ s[2] \in D /\ s = <<s[1], s[2]>>
    BY SMTT(30)
  <2> DEFINE q == s[1]
             y == s[2]
  <2> HIDE DEF q, y, D
  <2>2. q \in [D -> D] /\ y \in D
    BY <2>1 DEF q, y
  <2>3. q[q[y]] \in D
    BY <2>2
  <2>4. Halved(q, y) \in [D -> D] /\ Halved(q, y)[y] = q[q[y]]
    BY <2>2, <2>3 DEF Halved
  <2>. QED
    BY <2>1, <2>3, <2>4 DEF q, y
<1>2. next \in [S -> S]
  BY <1>1
<1>3. PICK w \in [S -> S] : Loop(S, stop, next, w)
  <2> HIDE DEF S, next, stop
  <2>. QED
    BY <1>2, LoopExists
<1>4. Rec(w)
  <2>1. ASSUME NEW s \in S
        PROVE  (IF s \in stop THEN s ELSE w[next[s]]) =
                 (LET q == s[1]
                      y == s[2]
                  IN  IF q[y] = y THEN <<q, y>>
                      ELSE LET h == [q EXCEPT ![y] = q[q[y]]] IN w[<<h, h[y]>>])
    <3>1. next[s] = <<Halved(s[1], s[2]), Halved(s[1], s[2])[s[2]]>>
      BY <1>1
    <3>2. s \in stop <=> s[1][s[2]] = s[2]
      OBVIOUS
    <3> HIDE DEF S, next, stop
    <3>. QED
      BY <1>1, <3>1, <3>2 DEF Halved
  <2> HIDE DEF S, next, stop
  <2>2. w = [s \in S |-> IF s \in stop THEN s ELSE w[next[s]]]
    BY <1>3 DEF Loop
  <2>. QED
    BY <2>1, <2>2
<1>5. Rec(walk)
  <2> HIDE DEF Rec
  <2>. QED
    BY <1>4
<1>6. \A q \in [D -> D], y \in D : Find(q, y) = walk[<<q, y>>]
  <2> TAKE q \in [D -> D], y \in D
  <2>1. DOMAIN q = D
    OBVIOUS
  <2> HIDE DEF D
  <2>. QED
    BY <2>1 DEF Find
<1> HIDE DEF walk
<1>7. ASSUME NEW s \in S
      PROVE  walk[s] = IF s[1][s[2]] = s[2] THEN <<s[1], s[2]>>
                       ELSE walk[<<Halved(s[1], s[2]), Halved(s[1], s[2])[s[2]]>>]
  <2> HIDE DEF S
  <2>. QED
    BY <1>5 DEF Halved
<1>8. <<p, x>> \in S /\ <<p, x>>[1] = p /\ <<p, x>>[2] = x
  OBVIOUS
<1>9. walk[<<p, x>>] = IF p[x] = x THEN <<p, x>> ELSE walk[<<Halved(p, x), Halved(p, x)[x]>>]
  <2> HIDE DEF S
  <2>. QED
    BY <1>7, <1>8
<1>10. Halved(p, x) \in [D -> D] /\ p[p[x]] \in D /\ Halved(p, x)[x] = p[p[x]]
  BY DEF Halved
<1>11. Find(p, x) = walk[<<p, x>>] /\ Find(Halved(p, x), p[p[x]]) = walk[<<Halved(p, x), p[p[x]]>>]
  BY <1>6, <1>10
<1>. QED
  BY <1>9, <1>10, <1>11

(* A node's root is a root, lies in the same sets, and is no later. *)
LEMMA RootFacts ==
  ASSUME NEW n \in Nat, NEW p, NEW rt, NEW C, Forest(p, n), Roots(p, n, rt), Keeps(p, n, C), NEW x \in 1 .. n
  PROVE  /\ p[rt[x]] = rt[x] /\ rt[rt[x]] = rt[x] /\ rt[x] <= x
         /\ x \in C <=> rt[x] \in C
<1> DEFINE Good(i) == /\ p[rt[i]] = rt[i] /\ rt[rt[i]] = rt[i] /\ rt[i] <= i
                      /\ i \in C <=> rt[i] \in C
           Bad == {i \in 1 .. n : ~ Good(i)}
<1>1. SUFFICES ASSUME Bad # {}
               PROVE  FALSE
  OBVIOUS
<1>2. PICK i \in Bad : \A j \in Bad : i <= j
  <2>1. Bad \in SUBSET Nat
    OBVIOUS
  <2> HIDE DEF Bad
  <2>. QED
    BY <1>1, <2>1, LeastElement
<1>3. i \in 1 .. n /\ p[i] \in 1 .. n /\ p[i] <= i /\ (i \in C <=> p[i] \in C) /\ rt[i] \in 1 .. n
  BY <1>2 DEF Forest, Roots, Keeps
<1>4. CASE p[i] = i
  <2>1. rt[i] = i
    BY <1>3, <1>4 DEF Roots
  <2>2. Good(i)
    BY <1>3, <1>4, <2>1
  <2>. QED
    BY <1>2, <2>2
<1>5. CASE p[i] # i
  <2>1. rt[i] = rt[p[i]]
    BY <1>3, <1>5 DEF Roots
  <2>2. Good(p[i])
    <3>1. ~ (i <= p[i])
      BY <1>3, <1>5
    <3> HIDE DEF Good
    <3>. QED
      BY <1>2, <1>3, <3>1
  <2>3. rt[p[i]] <= i
    BY <1>3, <2>1, <2>2
  <2>4. Good(i)
    BY <1>3, <2>1, <2>2, <2>3
  <2>. QED
    BY <1>2, <2>4
<1>. QED
  BY <1>4, <1>5

(* Halving changes neither the roots nor which sets the trees keep to. *)
LEMMA HalvedGood ==
  ASSUME NEW n \in Nat, NEW p, NEW rt, NEW C, Forest(p, n), Roots(p, n, rt), Keeps(p, n, C), NEW x \in 1 .. n,
         p[x] # x
  PROVE  /\ Forest(Halved(p, x), n) /\ Roots(Halved(p, x), n, rt) /\ Keeps(Halved(p, x), n, C)
         /\ p[p[x]] \in 1 .. n /\ p[p[x]] < x /\ rt[p[p[x]]] = rt[x]
<1> DEFINE h == Halved(p, x)
<1>1. /\ p \in [1 .. n -> 1 .. n] /\ \A i \in 1 .. n : p[i] <= i
      /\ p[x] \in 1 .. n /\ p[p[x]] \in 1 .. n
  BY DEF Forest
<1>2. h \in [1 .. n -> 1 .. n] /\ h[x] = p[p[x]] /\ \A i \in 1 .. n : i # x => h[i] = p[i]
  BY <1>1 DEF Halved
<1>3. p[p[x]] <= p[x] /\ p[x] < x
  BY <1>1
<1>4. p[p[x]] < x
  BY <1>1, <1>3
<1>5. rt[p[p[x]]] = rt[x]
  <2>1. rt[x] = rt[p[x]]
    BY DEF Roots
  <2>2. rt[p[x]] = rt[p[p[x]]]
    BY <1>1 DEF Roots
  <2>. QED
    BY <2>1, <2>2
<1> HIDE DEF h
<1>6. Forest(h, n)
  <2>1. h[x] <= x
    BY <1>1, <1>2, <1>4
  <2>2. \A i \in 1 .. n : h[i] <= i
    BY <1>1, <1>2, <2>1
  <2>. QED
    BY <1>2, <2>2 DEF Forest
<1>7. Keeps(h, n, C)
  BY <1>1, <1>2 DEF Keeps
<1>8. Roots(h, n, rt)
  <2>1. \A i \in 1 .. n : rt[i] = IF p[i] = i THEN i ELSE rt[p[i]]
    BY DEF Roots
  <2>2. h[x] # x /\ rt[x] = rt[h[x]]
    BY <1>1, <1>2, <1>4, <1>5
  <2>3. \A i \in 1 .. n : i # x => rt[i] = IF h[i] = i THEN i ELSE rt[h[i]]
    BY <1>2, <2>1
  <2>4. \A i \in 1 .. n : rt[i] = IF h[i] = i THEN i ELSE rt[h[i]]
    BY <2>2, <2>3
  <2>. QED
    BY <2>4 DEF Roots
<1>. QED
  BY <1>1, <1>4, <1>5, <1>6, <1>7, <1>8 DEF h

(* find returns the root and leaves the same trees. *)
LEMMA FindRoot ==
  ASSUME NEW n \in Nat, NEW rt, NEW C, NEW p, Forest(p, n), Roots(p, n, rt), Keeps(p, n, C), NEW x \in 1 .. n
  PROVE  /\ Find(p, x)[2] = rt[x]
         /\ Forest(Find(p, x)[1], n) /\ Roots(Find(p, x)[1], n, rt) /\ Keeps(Find(p, x)[1], n, C)
<1> DEFINE Good(q) == Forest(q, n) /\ Roots(q, n, rt) /\ Keeps(q, n, C)
           Right(q, y) == Find(q, y)[2] = rt[y] /\ Good(Find(q, y)[1])
           Bad == {y \in 1 .. n : \E q : Good(q) /\ ~ Right(q, y)}
<1>1. SUFFICES ASSUME Bad # {}
               PROVE  FALSE
  <2>1. Good(p)
    OBVIOUS
  <2> HIDE DEF Right, Good
  <2>2. Bad = {} => Right(p, x)
    BY <2>1
  <2>. QED
    BY <2>2 DEF Right, Good
<1>2. PICK y \in Bad : \A z \in Bad : y <= z
  <2>1. Bad \in SUBSET Nat
    OBVIOUS
  <2> HIDE DEF Bad
  <2>. QED
    BY <1>1, <2>1, LeastElement
<1>3. PICK q : Good(q) /\ ~ Right(q, y)
  BY <1>2
<1>4. y \in 1 .. n /\ q \in [1 .. n -> 1 .. n]
  BY <1>2, <1>3 DEF Forest
<1>5. Find(q, y) = IF q[y] = y THEN <<q, y>> ELSE Find(Halved(q, y), q[q[y]])
  BY <1>4, FindStep
<1>6. CASE q[y] = y
  <2>1. rt[y] = y
    BY <1>3, <1>4, <1>6 DEF Roots
  <2>2. Find(q, y)[1] = q /\ Find(q, y)[2] = y
    BY <1>5, <1>6
  <2>. QED
    BY <1>3, <2>1, <2>2
<1>7. CASE q[y] # y
  <2> DEFINE z == q[q[y]]
             h == Halved(q, y)
  <2>1. Good(h) /\ z \in 1 .. n /\ z < y /\ rt[z] = rt[y]
    <3>1. Forest(q, n) /\ Roots(q, n, rt) /\ Keeps(q, n, C)
      BY <1>3
    <3>. QED
      BY ONLY n \in Nat, <3>1, <1>4, <1>7, HalvedGood
  <2> HIDE DEF h, z
  <2>2. Right(h, z)
    <3>1. z \notin Bad
      <4>1. ~ (y <= z)
        BY <1>4, <2>1
      <4> HIDE DEF Bad
      <4>. QED
        BY <1>2, <4>1
    <3> HIDE DEF Good, Right
    <3>. QED
      BY <2>1, <3>1
  <2>3. Find(q, y) = Find(h, z)
    BY <1>5, <1>7 DEF h, z
  <2>. QED
    BY <1>3, <2>1, <2>2, <2>3
<1>. QED
  BY <1>6, <1>7

(* Every forest has its roots. *)
LEMMA RootsExist ==
  ASSUME NEW n \in Nat, NEW p, Forest(p, n)
  PROVE  \E rt : Roots(p, n, rt)
<1> DEFINE S == 1 .. n
           stop == {i \in S : p[i] = i}
<1>1. p \in [S -> S]
  BY DEF Forest
<1>2. PICK rt \in [S -> S] : Loop(S, stop, p, rt)
  <2> HIDE DEF S, stop
  <2>. QED
    BY <1>1, LoopExists
<1>3. \A i \in S : rt[i] = IF p[i] = i THEN i ELSE rt[p[i]]
  BY <1>2 DEF Loop
<1>. QED
  BY <1>2, <1>3 DEF Roots

(* Linking two roots joins their trees and no others. *)
LEMMA LinkJoins ==
  ASSUME NEW n \in Nat, NEW p, NEW rt, Forest(p, n), Roots(p, n, rt), NEW a \in 1 .. n, NEW b \in 1 .. n
  PROVE  /\ Forest(Link(p, a, b), n)
         /\ \E r2 : /\ Roots(Link(p, a, b), n, r2) /\ r2[a] = r2[b]
                    /\ \A i, j \in 1 .. n : rt[i] = rt[j] => r2[i] = r2[j]
         /\ \A C : Keeps(p, n, C) /\ (a \in C <=> b \in C) => Keeps(Link(p, a, b), n, C)
<1> DEFINE q == Find(p, a)[1]
           h == Find(q, b)[1]
           ra == rt[a]
           rb == rt[b]
           lo == Lesser(ra, rb)
           hi == Greater(ra, rb)
           l == IF ra = rb THEN h ELSE [h EXCEPT ![hi] = lo]
           r2 == [i \in 1 .. n |-> IF ra # rb /\ rt[i] = hi THEN lo ELSE rt[i]]
<1>1. ASSUME NEW C, Keeps(p, n, C)
      PROVE  Keeps(h, n, C)
  <2>1. Forest(q, n) /\ Roots(q, n, rt) /\ Keeps(q, n, C)
    BY ONLY n \in Nat, a \in 1 .. n, Forest(p, n), Roots(p, n, rt), <1>1, FindRoot
  <2> HIDE DEF q
  <2>. QED
    BY ONLY n \in Nat, b \in 1 .. n, <2>1, FindRoot
<1>2. /\ Find(p, a)[2] = ra /\ Find(q, b)[2] = rb
      /\ Forest(h, n) /\ Roots(h, n, rt)
  <2>1. Keeps(p, n, {})
    BY DEF Keeps
  <2>2. Find(p, a)[2] = ra /\ Forest(q, n) /\ Roots(q, n, rt) /\ Keeps(q, n, {})
    BY ONLY n \in Nat, a \in 1 .. n, Forest(p, n), Roots(p, n, rt), <2>1, FindRoot
  <2> HIDE DEF q
  <2>3. Find(q, b)[2] = rb /\ Forest(h, n) /\ Roots(h, n, rt)
    BY ONLY n \in Nat, b \in 1 .. n, <2>2, FindRoot
  <2>. QED
    BY <2>2, <2>3
<1>3. Link(p, a, b) = l
  BY <1>2 DEF Link
<1> HIDE DEF q, h
<1>4. /\ ra \in 1 .. n /\ rb \in 1 .. n /\ lo \in 1 .. n /\ hi \in 1 .. n
      /\ {ra, rb} = {lo, hi} /\ (ra # rb => lo < hi)
  BY DEF Roots, Lesser, Greater
<1>5. /\ h \in [1 .. n -> 1 .. n] /\ \A i \in 1 .. n : h[i] <= i
      /\ \A i \in 1 .. n : rt[i] \in 1 .. n /\ rt[i] = IF h[i] = i THEN i ELSE rt[h[i]]
  BY <1>2 DEF Forest, Roots
<1>6. /\ h[lo] = lo /\ h[hi] = hi /\ rt[lo] = lo /\ rt[hi] = hi
  <2>1. Keeps(h, n, {})
    BY <1>5 DEF Keeps
  <2>2. \A x \in 1 .. n : h[rt[x]] = rt[x] /\ rt[rt[x]] = rt[x]
    BY ONLY n \in Nat, <1>2, <2>1, RootFacts
  <2> HIDE DEF lo, hi
  <2>. QED
    BY <1>4, <2>2
<1> HIDE DEF lo, hi, ra, rb
<1>7. /\ l \in [1 .. n -> 1 .. n]
      /\ \A i \in 1 .. n : l[i] = IF ra # rb /\ i = hi THEN lo ELSE h[i]
  BY <1>4, <1>5
<1>8. r2 \in [1 .. n -> 1 .. n] /\ \A i \in 1 .. n : r2[i] = IF ra # rb /\ rt[i] = hi THEN lo ELSE rt[i]
  BY <1>4, <1>5
<1> HIDE DEF l, r2
<1>9. Forest(l, n)
  <2>1. ASSUME NEW i \in 1 .. n
        PROVE  l[i] <= i
    <3>1. CASE ra # rb /\ i = hi
      <4>1. l[i] = lo /\ lo < i
        BY <1>4, <1>7, <3>1
      <4>. QED
        BY <1>4, <4>1
    <3>2. CASE ~ (ra # rb /\ i = hi)
      BY <1>5, <1>7, <3>2
    <3>. QED
      BY <3>1, <3>2
  <2>. QED
    BY <1>7, <2>1 DEF Forest
<1>10. Roots(l, n, r2)
  <2>1. ASSUME NEW i \in 1 .. n
        PROVE  r2[i] = IF l[i] = i THEN i ELSE r2[l[i]]
    <3>1. CASE ra # rb /\ i = hi
      <4>1. l[i] = lo /\ lo # i
        BY <1>4, <1>7, <3>1
      <4>2. r2[i] = lo
        BY <1>6, <1>8, <3>1
      <4>3. r2[lo] = lo
        BY <1>4, <1>6, <1>8
      <4>. QED
        BY <4>1, <4>2, <4>3
    <3>2. CASE ~ (ra # rb /\ i = hi)
      <4>1. l[i] = h[i] /\ h[i] \in 1 .. n
        BY <1>5, <1>7, <3>2
      <4>2. CASE h[i] = i
        <5>1. rt[i] = i
          BY <1>5, <4>2
        <5>. QED
          BY <1>8, <3>2, <4>1, <4>2, <5>1
      <4>3. CASE h[i] # i
        <5>1. rt[i] = rt[h[i]]
          BY <1>5, <4>3
        <5>. QED
          BY <1>8, <4>1, <4>3, <5>1
      <4>. QED
        BY <4>2, <4>3
    <3>. QED
      BY <3>1, <3>2
  <2>. QED
    BY <1>8, <2>1 DEF Roots
<1>11. r2[a] = r2[b]
  <2>1. rt[a] = ra /\ rt[b] = rb
    BY DEF ra, rb
  <2>. QED
    BY <1>4, <1>8, <2>1
<1>12. \A i, j \in 1 .. n : rt[i] = rt[j] => r2[i] = r2[j]
  BY <1>8
<1>13. ASSUME NEW C, Keeps(p, n, C), a \in C <=> b \in C
       PROVE  Keeps(l, n, C)
  <2>1. Keeps(h, n, C)
    BY <1>1, <1>13
  <2>2. \A x \in 1 .. n : x \in C <=> rt[x] \in C
    BY ONLY n \in Nat, <1>2, <2>1, RootFacts
  <2>3. lo \in C <=> hi \in C
    <3>1. ra \in C <=> rb \in C
      BY <1>13, <2>2 DEF ra, rb
    <3>. QED
      BY <1>4, <3>1
  <2>4. \A i \in 1 .. n : i \in C <=> l[i] \in C
    BY <1>7, <2>1, <2>3 DEF Keeps
  <2>. QED
    BY <2>4 DEF Keeps
<1>. QED
  BY <1>3, <1>9, <1>10, <1>11, <1>12, <1>13

\* The roots of the first m nodes, and the first node of the same tree.
Seen(rt, m) == {rt[j] : j \in 1 .. m}
First(rt, n, i) == CHOOSE j \in 1 .. n : rt[j] = rt[i] /\ \A k \in 1 .. j - 1 : rt[k] # rt[i]

(* Every tree has a first node, and no node of it comes before that one. *)
LEMMA FirstFacts ==
  ASSUME NEW n \in Nat, NEW rt, NEW i \in 1 .. n
  PROVE  /\ First(rt, n, i) \in 1 .. i /\ rt[First(rt, n, i)] = rt[i]
         /\ \A k \in 1 .. First(rt, n, i) - 1 : rt[k] # rt[i]
<1> DEFINE Same == {j \in 1 .. n : rt[j] = rt[i]}
<1>1. PICK m \in Same : \A j \in Same : m <= j
  <2>1. Same \in SUBSET Nat /\ i \in Same
    OBVIOUS
  <2> HIDE DEF Same
  <2>. QED
    BY <2>1, LeastElement
<1>2. m \in 1 .. n /\ rt[m] = rt[i] /\ \A k \in 1 .. m - 1 : rt[k] # rt[i]
  <2>1. m \in 1 .. n /\ rt[m] = rt[i]
    OBVIOUS
  <2>2. ASSUME NEW k \in 1 .. m - 1
        PROVE  k \notin Same
    <3>1. ~ (m <= k)
      BY <2>1
    <3> HIDE DEF Same
    <3>. QED
      BY <1>1, <3>1
  <2>3. \A k \in 1 .. m - 1 : k \in 1 .. n
    BY <2>1
  <2>. QED
    BY <2>1, <2>2, <2>3
<1> DEFINE f == First(rt, n, i)
<1>3. f \in 1 .. n /\ rt[f] = rt[i] /\ \A k \in 1 .. f - 1 : rt[k] # rt[i]
  BY <1>2 DEF First
<1> HIDE DEF f
<1>4. f <= i
  BY <1>3
<1>. QED
  BY <1>3, <1>4 DEF f

(* Nodes have equal labels just when they have one root; labels leave no gap. *)
LEMMA LabelsOfRoots ==
  ASSUME NEW n \in Nat, NEW p, NEW rt, Forest(p, n), Roots(p, n, rt)
  PROVE  /\ Labels(p) \in [1 .. n -> Nat]
         /\ \A i, j \in 1 .. n : Labels(p)[i] = Labels(p)[j] <=> rt[i] = rt[j]
         /\ \A i \in 1 .. n : Labels(p)[i] > 0 =>
              \E k \in 1 .. i - 1 : Labels(p)[k] = Labels(p)[i] - 1 \/ Labels(p)[k] = Labels(p)[i]
<1> DEFINE f(i) == First(rt, n, i)
           seen(m) == Seen(rt, m)
           L == [i \in 1 .. n |-> Cardinality(seen(f(i) - 1))]
<1>1. \A i \in 1 .. n : Find(p, i)[2] = rt[i]
  <2>1. Keeps(p, n, {})
    BY DEF Keeps
  <2>. QED
    BY ONLY n \in Nat, Forest(p, n), Roots(p, n, rt), <2>1, FindRoot
<1>2. \A i \in 1 .. n : /\ f(i) \in 1 .. i /\ rt[f(i)] = rt[i]
                        /\ \A k \in 1 .. f(i) - 1 : rt[k] # rt[i]
  BY FirstFacts
<1>3. Labels(p) = L
  <2>1. DOMAIN p = 1 .. n
    BY DEF Forest
  <2>2. ASSUME NEW i \in 1 .. n
        PROVE  (LET root(j) == Find(p, j)[2]
                    first == CHOOSE j \in 1 .. n : /\ root(j) = root(i)
                                                   /\ \A k \in 1 .. j - 1 : root(k) # root(i)
                IN  Cardinality({root(j) : j \in 1 .. first - 1})) = L[i]
    <3> DEFINE A(j) == Find(p, j)[2] = Find(p, i)[2] /\ \A k \in 1 .. j - 1 : Find(p, k)[2] # Find(p, i)[2]
               B(j) == rt[j] = rt[i] /\ \A k \in 1 .. j - 1 : rt[k] # rt[i]
    <3>1. \A j \in 1 .. n : A(j) <=> B(j)
      <4> TAKE j \in 1 .. n
      <4>1. \A k \in 1 .. j - 1 : k \in 1 .. n
        OBVIOUS
      <4>. QED
        BY <1>1, <4>1
    <3>2. (CHOOSE j \in 1 .. n : A(j)) = CHOOSE j \in 1 .. n : B(j)
      <4> HIDE DEF A, B
      <4>. QED
        BY <3>1
    <3>3. (CHOOSE j \in 1 .. n : A(j)) = f(i)
      BY <3>2 DEF First
    <3>4. {Find(p, j)[2] : j \in 1 .. f(i) - 1} = seen(f(i) - 1)
      <4>1. \A j \in 1 .. f(i) - 1 : j \in 1 .. n
        BY <1>2
      <4>. QED
        BY <1>1, <4>1 DEF Seen
    <3>5. L[i] = Cardinality(seen(f(i) - 1))
      OBVIOUS
    <3>6. (LET first == CHOOSE j \in 1 .. n : A(j)
           IN  Cardinality({Find(p, j)[2] : j \in 1 .. first - 1})) =
            Cardinality({Find(p, j)[2] : j \in 1 .. f(i) - 1})
      <4> HIDE DEF A, f
      <4>. QED
        BY <3>3
    <3>. QED
      BY <3>4, <3>5, <3>6
  <2> HIDE DEF L
  <2>3. L = [i \in 1 .. n |-> L[i]]
    BY DEF L
  <2>. QED
    BY <2>1, <2>2, <2>3 DEF Labels
<1>4. \A m \in Nat : IsFiniteSet(seen(m)) /\ Cardinality(seen(m)) \in Nat
  <2> TAKE m \in Nat
  <2>1. IsFiniteSet(1 .. m)
    BY FS_Interval
  <2>2. IsFiniteSet(seen(m))
    <3>1. seen(m) = {rt[j] : j \in 1 .. m}
      BY DEF Seen
    <3> DEFINE g == [j \in 1 .. m |-> rt[j]]
    <3>2. g \in Surjection(1 .. m, seen(m))
      <4>1. g \in [1 .. m -> seen(m)] /\ \A y \in seen(m) : \E x \in 1 .. m : g[x] = y
        BY <3>1
      <4> HIDE DEF g
      <4>. QED
        BY <4>1 DEF Surjection
    <3> HIDE DEF g
    <3>. QED
      BY <2>1, <3>2, FS_Surjection
  <2>. QED
    BY <2>2, FS_CardinalityType
<1>5. \A i \in 1 .. n : L[i] = Cardinality(seen(f(i) - 1)) /\ f(i) - 1 \in Nat
  BY <1>2
<1>6. L \in [1 .. n -> Nat]
  <2>1. \A i \in 1 .. n : L[i] \in Nat
    BY <1>4, <1>5
  <2>. QED
    BY <2>1
<1>7. ASSUME NEW i \in 1 .. n, NEW j \in 1 .. n, rt[i] = rt[j]
      PROVE  L[i] = L[j]
  <2>1. f(i) = f(j)
    BY <1>7 DEF First
  <2> HIDE DEF f, seen
  <2>. QED
    BY <1>5, <2>1
<1>8. ASSUME NEW i \in 1 .. n, NEW j \in 1 .. n, f(i) < f(j)
      PROVE  L[i] # L[j]
  <2>1. f(i) - 1 \in Nat /\ f(j) - 1 \in Nat /\ f(i) \in 1 .. f(j) - 1
    BY <1>2, <1>8
  <2>2. seen(f(i) - 1) \in SUBSET seen(f(j) - 1)
    BY <1>8, <2>1 DEF Seen
  <2>3. rt[f(i)] \in seen(f(j) - 1)
    BY <2>1 DEF Seen
  <2>4. rt[f(i)] \notin seen(f(i) - 1)
    BY <1>2 DEF Seen
  <2> HIDE DEF f, seen, L
  <2>. QED
    BY <1>4, <1>5, <2>1, <2>2, <2>3, <2>4, FS_Subset
<1>9. ASSUME NEW i \in 1 .. n, NEW j \in 1 .. n, rt[i] # rt[j]
      PROVE  L[i] # L[j]
  <2>1. f(i) \in Int /\ f(j) \in Int /\ f(i) # f(j)
    BY <1>2, <1>9
  <2>2. f(i) < f(j) \/ f(j) < f(i)
    BY <2>1
  <2> HIDE DEF f, L
  <2>. QED
    BY <1>8, <2>2
<1>10. ASSUME NEW i \in 1 .. n, L[i] > 0
       PROVE  \E k \in 1 .. i - 1 : L[k] = L[i] - 1 \/ L[k] = L[i]
  <2>1. CASE f(i) # i
    <3>1. f(i) \in 1 .. i - 1 /\ f(i) \in 1 .. n /\ rt[f(i)] = rt[i]
      BY <1>2, <2>1
    <3> HIDE DEF f, L
    <3>. QED
      BY <1>7, <3>1
  <2>2. CASE f(i) = i
    <3> DEFINE Whole == {j \in 0 .. i - 1 : seen(j) = seen(i - 1)}
    <3>1. PICK m \in Whole : \A j \in Whole : m <= j
      <4>1. Whole \in SUBSET Nat /\ i - 1 \in Whole
        OBVIOUS
      <4> HIDE DEF Whole
      <4>. QED
        BY <4>1, LeastElement
    <3>2. m \in 0 .. i - 1 /\ seen(m) = seen(i - 1)
      OBVIOUS
    <3>3. L[i] = Cardinality(seen(m))
      BY <1>5, <2>2, <3>2
    <3>4. m # 0
      <4>1. seen(0) = {}
        BY DEF Seen
      <4>2. Cardinality({}) = 0
        BY FS_EmptySet
      <4> HIDE DEF L, seen
      <4>. QED
        BY <1>10, <3>3, <4>1, <4>2
    <3>5. m \in 1 .. i - 1 /\ m \in 1 .. n /\ m - 1 \in 0 .. i - 1 /\ ~ (m <= m - 1)
      BY <3>2, <3>4
    <3>6. seen(m - 1) # seen(m)
      <4>1. m - 1 \notin Whole
        <5> HIDE DEF Whole
        <5>. QED
          BY <3>1, <3>5
      <4>. QED
        BY <3>2, <3>5, <4>1
    <3>7. seen(m) = seen(m - 1) \cup {rt[m]}
      BY <3>5 DEF Seen
    <3>8. rt[m] \notin seen(m - 1)
      BY <3>6, <3>7
    <3>9. f(m) = m
      <4>1. f(m) \in 1 .. m /\ rt[f(m)] = rt[m]
        BY <1>2, <3>5
      <4>2. f(m) \notin 1 .. m - 1
        BY <3>8, <4>1 DEF Seen
      <4> HIDE DEF f
      <4>. QED
        BY <3>5, <4>1, <4>2
    <3>10. L[m] = Cardinality(seen(m - 1))
      BY <1>5, <3>5, <3>9
    <3>11. Cardinality(seen(m)) = Cardinality(seen(m - 1)) + 1 /\ Cardinality(seen(m - 1)) \in Nat
      <4>1. m - 1 \in Nat
        BY <3>5
      <4> HIDE DEF seen
      <4>. QED
        BY <1>4, <3>7, <3>8, <4>1, FS_AddElement
    <3>12. L[m] = L[i] - 1
      BY <3>3, <3>10, <3>11
    <3> HIDE DEF L
    <3>. QED
      BY <3>5, <3>12
  <2>. QED
    BY <2>1, <2>2
<1> HIDE DEF L
<1>. QED
  BY <1>3, <1>6, <1>7, <1>9, <1>10

-------------------------------------------------------------------------------
(* The search, on any weighted graph with a consistent heuristic *)

\* v: vertices; s: where it starts; t: goals; nb: neighbours; w: weights;
\* h: heuristic; at: the configuration of a vertex.
GraphOK(G) ==
  /\ IsFiniteSet(G.v) /\ G.s \in G.v /\ G.t \subseteq G.v /\ G.s \notin G.t
  /\ G.nb \in [G.v -> SUBSET G.v]
  /\ G.w \in [G.v -> [G.v -> Nat]]
  /\ G.h \in [G.v -> Nat]
  /\ G.at \in [G.v -> Cfg]
  /\ \A u, v \in G.v : G.h[u] <= G.w[u][v] + G.h[v]
  /\ \A v \in G.t : G.h[v] = 0

Entry(G, g, v) == <<g[v] + G.h[v], g[v], v>>

\* Vertices reached whose current entry is no longer in the heap: the expanded ones.
Closed(G, g, o) == {v \in DOMAIN g : Entry(G, g, v) \notin o}

CostsOK(G, g) ==
  /\ DOMAIN g \subseteq G.v
  /\ \A v \in DOMAIN g : g[v] \in Nat
  /\ G.s \in DOMAIN g /\ g[G.s] = 0

\* An entry may be out of date but never better than the cost on record.
HeapOK(G, g, o) ==
  \A e \in o : /\ e[3] \in DOMAIN g /\ e[2] \in Nat /\ g[e[3]] <= e[2]
               /\ e = <<e[2] + G.h[e[3]], e[2], e[3]>>

\* Every vertex but the start was reached from an expanded one, at its cost.
ParentsOK(G, g, c, o) ==
  /\ DOMAIN c = DOMAIN g \ {G.s}
  /\ \A v \in DOMAIN c : /\ c[v] \in Closed(G, g, o) /\ v \in G.nb[c[v]]
                         /\ g[v] = g[c[v]] + G.w[c[v]][v]

\* What was expanded is no goal, passed its cost on, and is no further than the heap.
ClosedOK(G, g, o) ==
  \A x \in Closed(G, g, o) :
     /\ x \notin G.t
     /\ \A v \in G.nb[x] : v \in DOMAIN g /\ g[v] <= g[x] + G.w[x][v]
     /\ \A e \in o : g[x] + G.h[x] <= e[1]

\* wk gives each vertex reached the walk on record, no longer than the number of
\* expansions allows.
Walks(G, g, c, o, wk) ==
  /\ DOMAIN wk = DOMAIN g
  /\ wk[G.s] = <<G.at[G.s]>>
  /\ \A v \in DOMAIN c : wk[v] = Append(wk[c[v]], G.at[v])
  /\ \A v \in DOMAIN g : wk[v] \in Seq(Cfg) /\ Len(wk[v]) <= Cardinality(Closed(G, g, o)) + 1

SearchOK(G, g, c, o) ==
  /\ CostsOK(G, g) /\ HeapOK(G, g, o) /\ ParentsOK(G, g, c, o) /\ ClosedOK(G, g, o)
  /\ \E wk : Walks(G, g, c, o, wk)

(* The expanded vertices are finitely many. *)
LEMMA ClosedFinite ==
  ASSUME NEW G, NEW g, NEW o, GraphOK(G), CostsOK(G, g)
  PROVE  IsFiniteSet(Closed(G, g, o)) /\ Cardinality(Closed(G, g, o)) \in Nat
         /\ Cardinality(Closed(G, g, o)) <= Cardinality(G.v)
<1>1. Closed(G, g, o) \in SUBSET G.v /\ IsFiniteSet(G.v)
  BY DEF Closed, CostsOK, GraphOK
<1>. QED
  BY <1>1, FS_Subset, FS_CardinalityType

(* The search starts right. *)
LEMMA SearchStarts ==
  ASSUME NEW G, NEW g, NEW c, NEW o, GraphOK(G),
         g = [v \in {G.s} |-> 0], DOMAIN c = {}, o = {<<G.h[G.s], 0, G.s>>}
  PROVE  SearchOK(G, g, c, o)
<1>1. DOMAIN g = {G.s} /\ g[G.s] = 0 /\ G.s \in G.v /\ G.h[G.s] \in Nat /\ G.at[G.s] \in Cfg
  BY DEF GraphOK
<1>2. Closed(G, g, o) = {}
  <2>1. Entry(G, g, G.s) \in o
    BY <1>1 DEF Entry
  <2>. QED
    BY <1>1, <2>1 DEF Closed
<1>3. CostsOK(G, g)
  BY <1>1 DEF CostsOK
<1>4. HeapOK(G, g, o)
  BY <1>1 DEF HeapOK
<1>5. ParentsOK(G, g, c, o)
  BY <1>1 DEF ParentsOK
<1>6. ClosedOK(G, g, o)
  BY <1>2 DEF ClosedOK
<1>7. Walks(G, g, c, o, [v \in {G.s} |-> <<G.at[G.s]>>])
  <2>1. Cardinality(Closed(G, g, o)) = 0
    BY <1>2, FS_EmptySet
  <2>2. <<G.at[G.s]>> \in Seq(Cfg) /\ Len(<<G.at[G.s]>>) = 1
    BY <1>1
  <2>. QED
    BY <1>1, <2>1, <2>2 DEF Walks
<1>. QED
  BY <1>3, <1>4, <1>5, <1>6, <1>7 DEF SearchOK

(* An out-of-date entry is no loss. *)
LEMMA StaleDropped ==
  ASSUME NEW G, NEW g, NEW c, NEW o, SearchOK(G, g, c, o), NEW e \in o, e[2] > g[e[3]]
  PROVE  SearchOK(G, g, c, o \ {e}) /\ Closed(G, g, o \ {e}) = Closed(G, g, o)
<1> DEFINE q == o \ {e}
<1>1. CostsOK(G, g) /\ HeapOK(G, g, o) /\ ParentsOK(G, g, c, o) /\ ClosedOK(G, g, o)
  BY DEF SearchOK
<1>2. Closed(G, g, q) = Closed(G, g, o)
  <2>1. ASSUME NEW v \in DOMAIN g
        PROVE  Entry(G, g, v) # e
    <3>1. g[v] \in Nat /\ e[2] \in Nat /\ g[e[3]] <= e[2]
      BY <1>1 DEF CostsOK, HeapOK
    <3>2. SUFFICES ASSUME Entry(G, g, v) = e
                   PROVE  FALSE
      OBVIOUS
    <3>3. e[3] = v /\ e[2] = g[v]
      BY <3>2 DEF Entry
    <3>. QED
      BY <3>1, <3>3
  <2>. QED
    BY <2>1 DEF Closed
<1>3. HeapOK(G, g, q)
  BY <1>1 DEF HeapOK
<1>4. ParentsOK(G, g, c, q)
  BY <1>1, <1>2 DEF ParentsOK
<1>5. ClosedOK(G, g, q)
  BY <1>1, <1>2 DEF ClosedOK
<1>6. \E wk : Walks(G, g, c, q, wk)
  BY <1>2 DEF SearchOK, Walks
<1>. QED
  BY <1>1, <1>2, <1>3, <1>4, <1>5, <1>6 DEF SearchOK

\* What Expand does to the costs, the parents and the heap.
Gains(G, g, e) ==
  [u \in {u \in G.nb[e[3]] : u \in DOMAIN g => e[2] + G.w[e[3]][u] < g[u]} |-> e[2] + G.w[e[3]][u]]
Pushed(G, new) == {<<new[u] + G.h[u], new[u], u>> : u \in DOMAIN new}

(* Expanding the top of the heap keeps all of it: by the triangle inequality no
   expanded vertex is improved, and the one expanded is new among them. *)
LEMMA Expanded ==
  ASSUME NEW G, NEW g, NEW c, NEW o, GraphOK(G), SearchOK(G, g, c, o),
         NEW e \in o, e[2] <= g[e[3]], e[3] \notin G.t, \A r \in o : e[1] <= r[1],
         NEW new, new = Gains(G, g, e)
  PROVE  /\ SearchOK(G, Over(new, g), Over([u \in DOMAIN new |-> e[3]], c), (o \ {e}) \cup Pushed(G, new))
         /\ Closed(G, Over(new, g), (o \ {e}) \cup Pushed(G, new)) = Closed(G, g, o) \cup {e[3]}
         /\ e[3] \notin Closed(G, g, o)
<1> DEFINE x == e[3]
           N == DOMAIN new
           g2 == Over(new, g)
           c2 == Over([u \in N |-> x], c)
           o2 == (o \ {e}) \cup Pushed(G, new)
           K == Closed(G, g, o)
           K2 == Closed(G, g2, o2)
<1>1. CostsOK(G, g) /\ HeapOK(G, g, o) /\ ParentsOK(G, g, c, o) /\ ClosedOK(G, g, o)
  BY DEF SearchOK
<1>2. /\ x \in DOMAIN g /\ x \in G.v /\ g[x] \in Nat /\ e[2] = g[x]
      /\ e = <<g[x] + G.h[x], g[x], x>> /\ G.h[x] \in Nat /\ e[1] = g[x] + G.h[x]
  <2>1. x \in DOMAIN g /\ e[2] \in Nat /\ g[x] <= e[2] /\ e = <<e[2] + G.h[x], e[2], x>>
    BY <1>1 DEF HeapOK
  <2>2. x \in G.v /\ g[x] \in Nat
    BY <1>1, <2>1 DEF CostsOK
  <2>3. e[2] = g[x]
    BY <2>1, <2>2
  <2>4. e = <<g[x] + G.h[x], g[x], x>>
    BY <2>1, <2>3
  <2>5. G.h[x] \in Nat
    BY <2>2 DEF GraphOK
  <2>. QED
    BY <2>1, <2>2, <2>3, <2>4, <2>5
<1>3. /\ N = {u \in G.nb[x] : u \in DOMAIN g => g[x] + G.w[x][u] < g[u]}
      /\ \A u \in N : new[u] = g[x] + G.w[x][u]
  <2>1. e[2] = g[e[3]]
    BY <1>2
  <2>. QED
    BY <2>1 DEF Gains
<1>4. G.nb[x] \subseteq G.v /\ \A u \in G.v : /\ G.w[x][u] \in Nat /\ G.h[u] \in Nat /\ G.h[x] <= G.w[x][u] + G.h[u]
                                              /\ G.at[u] \in Cfg
  BY <1>2 DEF GraphOK
<1>5. \A u \in N : u \in G.v /\ u \in G.nb[x] /\ new[u] \in Nat /\ new[u] = g[x] + G.w[x][u] /\ e[1] <= new[u] + G.h[u]
  <2> TAKE u \in N
  <2>1. u \in G.v /\ u \in G.nb[x] /\ new[u] = g[x] + G.w[x][u]
    BY <1>3, <1>4
  <2>. QED
    BY <1>2, <1>4, <2>1
<1>6. \A v \in DOMAIN g : g[v] \in Nat /\ v \in G.v /\ G.h[v] \in Nat
  BY <1>1 DEF CostsOK, GraphOK
<1>7. \A y \in K : y \in DOMAIN g /\ y \notin N
  <2> TAKE y \in K
  <2>1. y \in DOMAIN g /\ g[y] + G.h[y] <= e[1]
    BY <1>1 DEF ClosedOK, Closed
  <2>2. SUFFICES ASSUME y \in N
                 PROVE  FALSE
    BY <2>1
  <2>3. g[x] + G.w[x][y] < g[y] /\ y \in G.v
    BY <1>3, <1>5, <2>1, <2>2
  <2>4. G.h[x] <= G.w[x][y] + G.h[y] /\ G.w[x][y] \in Nat /\ G.h[y] \in Nat /\ g[y] \in Nat
    BY <1>4, <1>6, <2>1, <2>3
  <2>. QED
    BY <1>2, <2>1, <2>3, <2>4
<1>8. x \notin N
  <2>1. SUFFICES ASSUME x \in N
                 PROVE  FALSE
    OBVIOUS
  <2>2. g[x] + G.w[x][x] < g[x] /\ G.w[x][x] \in Nat
    BY <1>2, <1>3, <1>4, <2>1
  <2>. QED
    BY <1>2, <2>2
<1>9. G.s \notin N /\ G.s \in DOMAIN g /\ g[G.s] = 0
  <2>1. G.s \in DOMAIN g /\ g[G.s] = 0
    BY <1>1 DEF CostsOK
  <2>2. SUFFICES ASSUME G.s \in N
                 PROVE  FALSE
    BY <2>1
  <2>3. g[x] + G.w[x][G.s] < 0 /\ G.w[x][G.s] \in Nat
    BY <1>3, <1>4, <1>5, <2>1, <2>2
  <2>. QED
    BY <1>2, <2>3
<1>10. /\ DOMAIN g2 = N \cup DOMAIN g
       /\ \A v \in N : g2[v] = new[v]
       /\ \A v \in DOMAIN g : v \notin N => g2[v] = g[v]
  BY DEF Over
<1>11. /\ DOMAIN c2 = N \cup DOMAIN c
       /\ \A v \in N : c2[v] = x
       /\ \A v \in DOMAIN c : v \notin N => c2[v] = c[v]
  BY DEF Over
<1>12. \A r : r \in o2 <=> (r \in o /\ r # e) \/ \E u \in N : r = <<new[u] + G.h[u], new[u], u>>
  BY DEF Pushed
<1>13. \A r \in o2 : /\ r \notin o => \E u \in N : r[1] = new[u] + G.h[u] /\ r[2] = new[u] /\ r[3] = u
                                                /\ r = <<r[2] + G.h[r[3]], r[2], r[3]>>
                     /\ e[1] <= r[1]
  <2> TAKE r \in o2
  <2>1. CASE r \in o
    BY <2>1
  <2>2. CASE r \notin o
    <3>1. PICK u \in N : r = <<new[u] + G.h[u], new[u], u>>
      BY <1>12, <2>2
    <3>2. r[1] = new[u] + G.h[u] /\ r[2] = new[u] /\ r[3] = u
      BY <3>1
    <3>. QED
      BY <1>5, <3>1, <3>2
  <2>. QED
    BY <2>1, <2>2
<1> HIDE DEF x, N, g2, c2, o2
<1>14. K2 = K \cup {x}
  <2>1. ASSUME NEW v \in K2
        PROVE  v \in K \cup {x}
    <3>1. v \in N \cup DOMAIN g /\ Entry(G, g2, v) \notin o2
      BY <1>10 DEF Closed
    <3>2. v \notin N
      <4>1. ASSUME v \in N
            PROVE  Entry(G, g2, v) = <<new[v] + G.h[v], new[v], v>>
        BY <1>10, <4>1 DEF Entry
      <4>. QED
        BY <1>12, <3>1, <4>1
    <3>3. Entry(G, g2, v) = Entry(G, g, v)
      BY <1>10, <3>1, <3>2 DEF Entry
    <3>4. Entry(G, g, v) \notin o \/ Entry(G, g, v) = e
      BY <1>12, <3>1, <3>3
    <3>5. ASSUME Entry(G, g, v) = e
          PROVE  v = x
      <4>1. e[3] = v
        BY <3>5 DEF Entry
      <4>. QED
        BY <4>1 DEF x
    <3>. QED
      BY <3>1, <3>2, <3>4, <3>5 DEF Closed
  <2>2. ASSUME NEW v, v \in K \cup {x}
        PROVE  v \in K2
    <3>1. v \in DOMAIN g /\ v \notin N
      BY <1>2, <1>7, <1>8, <2>2
    <3>2. Entry(G, g2, v) = Entry(G, g, v) /\ Entry(G, g, v) = <<g[v] + G.h[v], g[v], v>>
      BY <1>10, <3>1 DEF Entry
    <3>3. Entry(G, g, v) \notin o \/ Entry(G, g, v) = e
      BY <1>2, <2>2, <3>2 DEF Closed
    <3>4. \A u \in N : Entry(G, g, v) # <<new[u] + G.h[u], new[u], u>>
      BY <3>1, <3>2
    <3>. QED
      BY <1>10, <1>12, <3>1, <3>2, <3>3, <3>4 DEF Closed
  <2>. QED
    BY <2>1, <2>2
<1>15. x \notin K
  BY <1>2 DEF Closed, Entry
<1> HIDE DEF K, K2
<1>16. \A v \in DOMAIN g : g2[v] \in Nat /\ g2[v] <= g[v]
  <2> TAKE v \in DOMAIN g
  <2>1. CASE v \in N
    <3>1. g[x] + G.w[x][v] < g[v] /\ g2[v] = g[x] + G.w[x][v] /\ g2[v] \in Nat
      BY <1>3, <1>5, <1>10, <2>1
    <3>. QED
      BY <1>6, <3>1
  <2>2. CASE v \notin N
    BY <1>6, <1>10, <2>2
  <2>. QED
    BY <2>1, <2>2
<1>17. CostsOK(G, g2)
  <2>1. \A v \in DOMAIN g2 : v \in G.v /\ g2[v] \in Nat
    BY <1>5, <1>6, <1>10, <1>16
  <2>. QED
    BY <1>9, <1>10, <2>1 DEF CostsOK
<1>18. HeapOK(G, g2, o2)
  <2> SUFFICES ASSUME NEW r \in o2
               PROVE  /\ r[3] \in DOMAIN g2 /\ r[2] \in Nat /\ g2[r[3]] <= r[2]
                      /\ r = <<r[2] + G.h[r[3]], r[2], r[3]>>
    BY DEF HeapOK
  <2>1. CASE r \in o
    <3>1. r[3] \in DOMAIN g /\ r[2] \in Nat /\ g[r[3]] <= r[2] /\ r = <<r[2] + G.h[r[3]], r[2], r[3]>>
      BY <1>1, <2>1 DEF HeapOK
    <3>2. g2[r[3]] \in Nat /\ g2[r[3]] <= g[r[3]] /\ g[r[3]] \in Nat
      BY <1>6, <1>16, <3>1
    <3>3. g2[r[3]] <= r[2]
      BY <3>1, <3>2
    <3>. QED
      BY <1>10, <3>1, <3>3
  <2>2. CASE r \notin o
    <3>1. PICK u \in N : r[2] = new[u] /\ r[3] = u /\ r = <<r[2] + G.h[r[3]], r[2], r[3]>>
      BY <1>13, <2>2
    <3>2. new[u] \in Nat /\ g2[u] = new[u]
      BY <1>5, <1>10
    <3>. QED
      BY <1>10, <3>1, <3>2
  <2>. QED
    BY <2>1, <2>2
<1>19. ParentsOK(G, g2, c2, o2)
  <2>1. DOMAIN c2 = DOMAIN g2 \ {G.s}
    BY <1>1, <1>9, <1>10, <1>11 DEF ParentsOK
  <2>2. ASSUME NEW v \in DOMAIN c2
        PROVE  c2[v] \in K2 /\ v \in G.nb[c2[v]] /\ g2[v] = g2[c2[v]] + G.w[c2[v]][v]
    <3>1. CASE v \in N
      <4>1. c2[v] = x /\ v \in G.nb[x] /\ g2[v] = g[x] + G.w[x][v]
        BY <1>5, <1>10, <1>11, <3>1
      <4>2. g2[x] = g[x] /\ x \in K2
        BY <1>2, <1>8, <1>10, <1>14
      <4>. QED
        BY <4>1, <4>2
    <3>2. CASE v \notin N
      <4>1. v \in DOMAIN c /\ c2[v] = c[v]
        BY <1>11, <3>2
      <4>2. v \in DOMAIN g /\ c[v] \in K /\ v \in G.nb[c[v]] /\ g[v] = g[c[v]] + G.w[c[v]][v]
        BY <1>1, <4>1 DEF ParentsOK, K
      <4>3. g2[v] = g[v] /\ g2[c[v]] = g[c[v]]
        BY <1>7, <1>10, <3>2, <4>2
      <4>. QED
        BY <1>14, <4>1, <4>2, <4>3
    <3>. QED
      BY <3>1, <3>2
  <2>. QED
    BY <2>1, <2>2 DEF ParentsOK, K2
<1>20. ClosedOK(G, g2, o2)
  <2> SUFFICES ASSUME NEW y \in K2
               PROVE  /\ y \notin G.t
                      /\ \A v \in G.nb[y] : v \in DOMAIN g2 /\ g2[v] <= g2[y] + G.w[y][v]
                      /\ \A r \in o2 : g2[y] + G.h[y] <= r[1]
    BY DEF ClosedOK, K2
  <2>1. CASE y \in K
    <3>1. /\ y \in DOMAIN g /\ y \notin N /\ g2[y] = g[y] /\ y \notin G.t
          /\ \A v \in G.nb[y] : v \in DOMAIN g /\ g[v] <= g[y] + G.w[y][v]
          /\ \A r \in o : g[y] + G.h[y] <= r[1]
      BY <1>1, <1>7, <1>10, <2>1 DEF ClosedOK, K
    <3>2. ASSUME NEW v \in G.nb[y]
          PROVE  v \in DOMAIN g2 /\ g2[v] <= g2[y] + G.w[y][v]
      <4>1. v \in DOMAIN g /\ g[v] <= g[y] + G.w[y][v] /\ G.w[y][v] \in Nat
        <5>1. y \in G.v /\ v \in G.v
          BY <1>6, <3>1 DEF GraphOK
        <5>. QED
          BY <3>1, <5>1 DEF GraphOK
      <4>2. g2[v] \in Nat /\ g2[v] <= g[v] /\ g[v] \in Nat /\ g[y] \in Nat
        BY <1>6, <1>16, <3>1, <4>1
      <4>. QED
        BY <1>10, <3>1, <4>1, <4>2
    <3>3. ASSUME NEW r \in o2
          PROVE  g2[y] + G.h[y] <= r[1]
      <4>1. CASE r \in o
        BY <3>1, <4>1
      <4>2. CASE r \notin o
        <5>1. PICK u \in N : r[1] = new[u] + G.h[u]
          BY <1>13, <4>2
        <5>2. e[1] <= r[1] /\ g[y] + G.h[y] <= e[1] /\ r[1] \in Nat /\ e[1] \in Nat
          BY <1>2, <1>4, <1>5, <3>1, <5>1
        <5>3. g[y] + G.h[y] \in Nat
          BY <1>6, <3>1
        <5>. QED
          BY <3>1, <5>2, <5>3
      <4>. QED
        BY <4>1, <4>2
    <3>. QED
      BY <3>1, <3>2, <3>3
  <2>2. CASE y = x
    <3>1. g2[x] = g[x] /\ x \notin G.t
      BY <1>2, <1>8, <1>10 DEF x
    <3>2. ASSUME NEW v \in G.nb[x]
          PROVE  v \in DOMAIN g2 /\ g2[v] <= g2[x] + G.w[x][v]
      <4>1. CASE v \in N
        BY <1>2, <1>5, <1>10, <3>1, <4>1
      <4>2. CASE v \notin N
        <5>1. v \in DOMAIN g /\ ~ (g[x] + G.w[x][v] < g[v])
          BY <1>3, <4>2
        <5>2. v \in G.v /\ g[v] \in Nat /\ G.w[x][v] \in Nat
          BY <1>4, <1>6, <5>1
        <5>. QED
          BY <1>2, <1>10, <3>1, <4>2, <5>1, <5>2
      <4>. QED
        BY <4>1, <4>2
    <3>3. \A r \in o2 : g[x] + G.h[x] <= r[1]
      BY <1>2, <1>13
    <3>. QED
      BY <2>2, <3>1, <3>2, <3>3
  <2>. QED
    BY <1>14, <2>1, <2>2
<1>21. PICK wk : Walks(G, g, c, o, wk)
  BY DEF SearchOK
<1> DEFINE wk2 == [v \in DOMAIN g2 |-> IF v \in N THEN Append(wk[x], G.at[v]) ELSE wk[v]]
<1>22. Walks(G, g2, c2, o2, wk2)
  <2>1. /\ DOMAIN wk2 = DOMAIN g2
        /\ \A v \in N : wk2[v] = Append(wk[x], G.at[v])
        /\ \A v \in DOMAIN g : v \notin N => wk2[v] = wk[v]
    BY <1>10
  <2>2. /\ wk[G.s] = <<G.at[G.s]>>
        /\ \A v \in DOMAIN c : wk[v] = Append(wk[c[v]], G.at[v])
        /\ \A v \in DOMAIN g : wk[v] \in Seq(Cfg) /\ Len(wk[v]) <= Cardinality(K) + 1
    BY <1>21 DEF Walks, K
  <2> HIDE DEF wk2
  <2>3. wk2[G.s] = <<G.at[G.s]>>
    BY <1>9, <2>1, <2>2
  <2>4. ASSUME NEW v \in DOMAIN c2
        PROVE  wk2[v] = Append(wk2[c2[v]], G.at[v])
    <3>1. CASE v \in N
      <4>1. c2[v] = x /\ wk2[x] = wk[x]
        BY <1>2, <1>8, <1>11, <2>1, <3>1
      <4>. QED
        BY <2>1, <3>1, <4>1
    <3>2. CASE v \notin N
      <4>1. v \in DOMAIN c /\ c2[v] = c[v] /\ c[v] \in K /\ v \in DOMAIN g
        BY <1>1, <1>11, <3>2 DEF ParentsOK, K
      <4>2. wk2[v] = wk[v] /\ wk2[c[v]] = wk[c[v]]
        BY <1>7, <2>1, <3>2, <4>1
      <4>. QED
        BY <2>2, <4>1, <4>2
    <3>. QED
      BY <3>1, <3>2
  <2>5. Cardinality(K2) = Cardinality(K) + 1 /\ Cardinality(K) \in Nat
    <3>1. IsFiniteSet(K) /\ Cardinality(K) \in Nat
      BY <1>1, ClosedFinite DEF K
    <3>. QED
      BY <1>14, <1>15, <3>1, FS_AddElement
  <2>6. ASSUME NEW v \in DOMAIN g2
        PROVE  wk2[v] \in Seq(Cfg) /\ Len(wk2[v]) <= Cardinality(K2) + 1
    <3>1. CASE v \in N
      <4>1. wk[x] \in Seq(Cfg) /\ Len(wk[x]) <= Cardinality(K) + 1 /\ G.at[v] \in Cfg
        BY <1>2, <1>4, <1>5, <2>2, <3>1
      <4>2. wk2[v] \in Seq(Cfg) /\ Len(wk2[v]) = Len(wk[x]) + 1 /\ Len(wk[x]) \in Nat
        BY <2>1, <3>1, <4>1, SMTT(30)
      <4>. QED
        BY <2>5, <4>1, <4>2
    <3>2. CASE v \notin N
      <4>1. wk2[v] = wk[v] /\ wk[v] \in Seq(Cfg) /\ Len(wk[v]) <= Cardinality(K) + 1
        BY <1>10, <2>1, <2>2, <3>2
      <4>2. Len(wk[v]) \in Nat
        BY <4>1
      <4>. QED
        BY <2>5, <4>1, <4>2
    <3>. QED
      BY <3>1, <3>2
  <2>. QED
    BY <2>1, <2>3, <2>4, <2>6 DEF Walks, K2
<1>23. SearchOK(G, g2, c2, o2)
  BY <1>17, <1>18, <1>19, <1>20, <1>22 DEF SearchOK
<1>. QED
  BY <1>14, <1>15, <1>23 DEF K, K2, g2, c2, o2, N, x

(* What holds at the start and passes along came_from holds wherever the search has been. *)
LEMMA AlongTheWalk ==
  ASSUME NEW G, NEW g, NEW c, NEW o, GraphOK(G), SearchOK(G, g, c, o),
         NEW S, G.s \in S, \A v \in DOMAIN c : c[v] \in S => v \in S
  PROVE  DOMAIN g \subseteq S
<1>1. CostsOK(G, g) /\ ParentsOK(G, g, c, o)
  BY DEF SearchOK
<1>2. PICK wk : Walks(G, g, c, o, wk)
  BY DEF SearchOK
<1> DEFINE Left == DOMAIN g \ S
           Lens == {Len(wk[v]) : v \in Left}
<1>3. SUFFICES ASSUME Left # {}
               PROVE  FALSE
  OBVIOUS
<1>4. \A v \in DOMAIN g : wk[v] \in Seq(Cfg) /\ Len(wk[v]) \in Nat
  BY <1>2 DEF Walks
<1>5. PICK m \in Lens : \A k \in Lens : m <= k
  <2>1. Lens \in SUBSET Nat /\ Lens # {}
    BY <1>3, <1>4
  <2> HIDE DEF Lens
  <2>. QED
    BY <2>1, LeastElement
<1>6. PICK v \in Left : m = Len(wk[v])
  OBVIOUS
<1>7. v \in DOMAIN c
  BY <1>1, <1>6 DEF ParentsOK
<1>8. c[v] \in DOMAIN g /\ c[v] \notin S
  BY <1>1, <1>6, <1>7 DEF ParentsOK, Closed
<1>9. Len(wk[v]) = Len(wk[c[v]]) + 1
  <2>1. wk[v] = Append(wk[c[v]], G.at[v])
    BY <1>2, <1>7 DEF Walks
  <2>2. G.at[v] \in Cfg
    <3>1. v \in G.v
      BY <1>1, <1>6 DEF CostsOK
    <3>. QED
      BY <3>1 DEF GraphOK
  <2>. QED
    BY <1>4, <1>8, <2>1, <2>2
<1>10. Len(wk[v]) <= Len(wk[c[v]])
  BY <1>5, <1>6, <1>8
<1>. QED
  BY <1>4, <1>8, <1>9, <1>10

\* The forest joins what the edges taken in so far join, and nothing else.
Merged ==
  LET n == Len(nodes)
  IN  /\ Forest(parent, n)
      /\ \E rt : Roots(parent, n, rt) /\ \A k \in 1 .. united : rt[edges[k][1]] = rt[edges[k][2]]
      /\ \A C : (\A k \in 1 .. united : edges[k][1] \in C <=> edges[k][2] \in C) => Keeps(parent, n, C)

RoadmapInv ==
  /\ hits \subseteq Cfg /\ mid \subseteq SUBSET Cfg
  /\ stage \in {"sample", "propose", "unite", "ready"}
  /\ nodes \in Seq(Cfg \ hits) /\ turn \in 1 .. Len(nodes) + 1
  /\ cand \in Seq(Pairs) /\ edges \in Seq(Pairs) /\ united \in 0 .. Len(edges)
  /\ \A k \in DOMAIN edges : FreeSegment(nodes[edges[k][1]], nodes[edges[k][2]])
  /\ stage = "sample" => nodes = <<>> /\ turn = 1 /\ cand = <<>>
  /\ stage \in {"sample", "propose"} => edges = <<>> /\ united = 0
  /\ stage \in {"propose", "unite"} => Merged
  /\ stage \in {"sample", "ready"} => parent = <<>>
  /\ ComponentsRight

\* The joined graph, as the search sees it.
Graph ==
  [v |-> Vertices, s |-> StartIdx, t |-> GoalIdx,
   nb |-> [v \in Vertices |-> Neighbors(v)],
   w |-> [u \in Vertices |-> [v \in Vertices |-> Weight(u, v)]],
   h |-> [v \in Vertices |-> Heuristic(v)],
   at |-> [v \in Vertices |-> ConfigAt(v)]]

\* The scene's free goals and the free segments that join them and the start.
JoinedInv ==
  /\ wanted \in GoalLists
  /\ goals \in Seq(Cfg \ hits)
  /\ \A k \in DOMAIN goals : \E i \in DOMAIN wanted : goals[k] = wanted[i]
  /\ joined \in 0 .. Len(goals) + 1
  /\ extra \subseteq Vertices \X Vertices
  /\ \A e \in extra : <<e[2], e[1]>> \in extra /\ FreeSegment(ConfigAt(e[1]), ConfigAt(e[2]))

PhaseInv ==
  /\ pc \in {"idle", "validate", "connect", "search", "smooth", "done"}
  /\ pc = "idle" <=> stage # "ready"
  /\ pc \in {"idle", "validate"} => goals = <<>> /\ joined = 0 /\ extra = {}
  /\ pc \in {"connect", "search", "smooth"} => FreeCfg(Start) /\ goals # <<>>
  /\ pc \in {"idle", "validate", "connect", "search"} => path = <<>> /\ why = "none"
  /\ status \in {"none", "Success", "NoSolution", "InvalidProblem"}
  /\ status = "none" <=> pc # "done"
  /\ status = "Success" \/ pc = "smooth" => path # <<>>

QueryInv == JoinedInv /\ PhaseInv

\* Before the search, and when plan() returned without one.
NoSearch == g_cost = <<>> /\ came_from = <<>> /\ open = {} /\ path = <<>> /\ why = "none"

Searched == goals # <<>> /\ FreeCfg(Start) /\ SearchOK(Graph, g_cost, came_from, open)

\* A free path from the start to a goal at the top of the heap.
PathInv ==
  /\ path \in Seq(Cfg) /\ Len(path) >= 2
  /\ path[1] = Start
  /\ \A i \in 1 .. Len(path) - 1 : FreeSegment(path[i], path[i + 1])
  /\ \E t \in open : IsTop(t) /\ ~ Stale(t) /\ t[3] \in GoalIdx /\ ConfigAt(t[3]) = path[Len(path)]

SearchInv ==
  /\ pc \in {"idle", "validate", "connect"} => NoSearch
  /\ pc \in {"search", "smooth"} => Searched
  /\ pc = "done" => NoSearch \/ Searched
  /\ path # <<>> => Searched /\ PathInv
  /\ why # "none" => open = {} /\ Searched

Inv == RoadmapInv /\ QueryInv /\ SearchInv

-------------------------------------------------------------------------------
(* The joined graph *)

(* What the fields of the joined graph are. *)
LEMMA GraphFields ==
  /\ Graph.v = Vertices /\ Graph.s = StartIdx /\ Graph.t = GoalIdx
  /\ Graph.nb = [v \in Vertices |-> Neighbors(v)]
  /\ Graph.w = [u \in Vertices |-> [v \in Vertices |-> Weight(u, v)]]
  /\ Graph.h = [v \in Vertices |-> Heuristic(v)]
  /\ Graph.at = [v \in Vertices |-> ConfigAt(v)]
  BY DEF Graph

(* Nodes, start and goals are different vertices, and each has its configuration, a free
   one once the start has been found free. *)
LEMMA VertexFacts ==
  ASSUME RoadmapInv, QueryInv
  PROVE  /\ Len(nodes) \in Nat /\ Len(goals) \in Nat /\ StartIdx \in Nat
         /\ DOMAIN nodes = 1 .. Len(nodes) /\ DOMAIN goals = 1 .. Len(goals)
         /\ StartIdx \in Vertices /\ GoalIdx \subseteq Vertices /\ StartIdx \notin GoalIdx
         /\ DOMAIN nodes \subseteq Vertices /\ IsFiniteSet(Vertices)
         /\ ConfigAt(StartIdx) = Start /\ \A i \in DOMAIN nodes : ConfigAt(i) = nodes[i]
         /\ \A k \in DOMAIN goals : ConfigAt(StartIdx + k) = goals[k]
         /\ \A v \in Vertices : ConfigAt(v) \in Cfg /\ (FreeCfg(Start) => FreeCfg(ConfigAt(v)))
<1>1. nodes \in Seq(Cfg \ hits) /\ goals \in Seq(Cfg \ hits) /\ Start \in Cfg
  BY QueryAssumption DEF RoadmapInv, QueryInv, JoinedInv
<1>2. /\ Len(nodes) \in Nat /\ Len(goals) \in Nat /\ StartIdx \in Nat
      /\ DOMAIN nodes = 1 .. Len(nodes) /\ DOMAIN goals = 1 .. Len(goals)
      /\ \A i \in DOMAIN nodes : nodes[i] \in Cfg \ hits
      /\ \A i \in DOMAIN goals : goals[i] \in Cfg \ hits
  BY <1>1 DEF StartIdx
<1>3. StartIdx \in Vertices /\ GoalIdx \subseteq Vertices /\ StartIdx \notin GoalIdx
  <2>1. StartIdx \in 1 .. StartIdx + Len(goals)
    BY <1>2 DEF StartIdx
  <2>2. ASSUME NEW x \in GoalIdx
        PROVE  x \in 1 .. StartIdx + Len(goals) /\ x # StartIdx
    <3>1. PICK k \in 1 .. Len(goals) : x = StartIdx + k
      BY <1>2 DEF GoalIdx
    <3>. QED
      BY <1>2, <3>1
  <2>. QED
    BY <2>1, <2>2 DEF Vertices
<1>4. DOMAIN nodes \subseteq Vertices
  BY <1>2 DEF Vertices, StartIdx
<1>5. IsFiniteSet(Vertices)
  BY <1>2, FS_Interval DEF Vertices
<1>6. ConfigAt(StartIdx) = Start /\ \A i \in DOMAIN nodes : ConfigAt(i) = nodes[i]
  BY <1>2 DEF ConfigAt, StartIdx
<1>7. ASSUME NEW k \in DOMAIN goals
      PROVE  ConfigAt(StartIdx + k) = goals[k]
  <2>1. StartIdx + k \notin DOMAIN nodes /\ StartIdx + k # StartIdx /\ (StartIdx + k) - StartIdx = k
    BY <1>2 DEF StartIdx
  <2>. QED
    BY <2>1 DEF ConfigAt
<1>8. ASSUME NEW v \in Vertices
      PROVE  ConfigAt(v) \in Cfg /\ (FreeCfg(Start) => FreeCfg(ConfigAt(v)))
  <2>1. CASE v \in DOMAIN nodes
    BY <1>2, <1>6, <2>1 DEF FreeCfg
  <2>2. CASE v = StartIdx
    BY <1>1, <1>6, <2>2
  <2>3. CASE v \notin DOMAIN nodes /\ v # StartIdx
    <3>1. v - StartIdx \in DOMAIN goals
      BY <1>2, <2>3 DEF Vertices, StartIdx
    <3>. QED
      BY <1>2, <2>3, <3>1 DEF ConfigAt, FreeCfg
  <2>. QED
    BY <2>1, <2>2, <2>3
<1>. QED
  BY <1>2, <1>3, <1>4, <1>5, <1>6, <1>7, <1>8

(* The walks of the search go along free segments, and may be entered at either end. *)
LEMMA NeighborsFree ==
  ASSUME RoadmapInv, QueryInv, NEW u \in Vertices
  PROVE  /\ Neighbors(u) \subseteq Vertices /\ Linked(u) = Neighbors(u)
         /\ \A v \in Neighbors(u) : FreeSegment(ConfigAt(u), ConfigAt(v)) /\ u \in Neighbors(v)
<1>1. /\ DOMAIN nodes \subseteq Vertices /\ \A i \in DOMAIN nodes : ConfigAt(i) = nodes[i]
  BY VertexFacts
<1>2. Neighbors(u) \subseteq Vertices
  BY <1>1 DEF Neighbors, Adjacent
<1>3. Linked(u) = Neighbors(u)
  BY DEF Linked, Neighbors, QueryInv, JoinedInv
<1>4. ASSUME NEW v \in Adjacent(u)
      PROVE  FreeSegment(ConfigAt(u), ConfigAt(v)) /\ u \in Adjacent(v)
  <2>1. PICK k \in DOMAIN edges : edges[k] = <<u, v>> \/ edges[k] = <<v, u>>
    BY DEF Adjacent
  <2>2. edges[k][1] \in DOMAIN nodes /\ edges[k][2] \in DOMAIN nodes
    BY DEF RoadmapInv, Pairs
  <2>3. u \in DOMAIN nodes /\ v \in DOMAIN nodes
    BY <2>1, <2>2
  <2>4. FreeSegment(nodes[edges[k][1]], nodes[edges[k][2]])
    BY DEF RoadmapInv
  <2>5. FreeSegment(nodes[u], nodes[v])
    <3>1. CASE edges[k] = <<u, v>>
      BY <2>4, <3>1
    <3>2. CASE edges[k] = <<v, u>>
      <4>1. FreeSegment(nodes[v], nodes[u]) /\ {nodes[u], nodes[v]} = {nodes[v], nodes[u]}
        BY <2>4, <3>2
      <4>. QED
        BY <4>1 DEF FreeSegment
    <3>. QED
      BY <2>1, <3>1, <3>2
  <2>6. u \in Adjacent(v)
    BY <2>1, <2>3 DEF Adjacent
  <2>. QED
    BY <1>1, <2>3, <2>5, <2>6
<1>5. ASSUME NEW v \in Vertices, <<u, v>> \in extra
      PROVE  FreeSegment(ConfigAt(u), ConfigAt(v)) /\ <<v, u>> \in extra
  BY <1>5 DEF QueryInv, JoinedInv
<1>6. \A v \in Neighbors(u) : FreeSegment(ConfigAt(u), ConfigAt(v)) /\ u \in Neighbors(v)
  BY <1>4, <1>5 DEF Neighbors
<1>. QED
  BY <1>2, <1>3, <1>6

(* Least is the least of the natural numbers it is given. *)
LEMMA LeastFacts ==
  ASSUME NEW S \in SUBSET Nat, S # {}
  PROVE  Least(S) \in S /\ \A x \in S : Least(S) <= x
  BY LeastElement DEF Least

(* The heuristic is consistent: it obeys the triangle inequality of the metric. *)
LEMMA GraphRight ==
  ASSUME RoadmapInv, QueryInv, goals # <<>>
  PROVE  GraphOK(Graph)
<1>1. /\ Len(goals) \in Nat /\ DOMAIN goals = 1 .. Len(goals)
      /\ StartIdx \in Vertices /\ GoalIdx \subseteq Vertices /\ StartIdx \notin GoalIdx
      /\ IsFiniteSet(Vertices) /\ \A v \in Vertices : ConfigAt(v) \in Cfg
  BY VertexFacts
<1>2. \A u, v \in Vertices : Weight(u, v) \in Nat /\ Weight(u, u) = 0
  BY <1>1, SpaceAssumption DEF Weight
<1>3. \A u, v, x \in Vertices : Weight(u, x) <= Weight(u, v) + Weight(v, x)
  BY <1>1, SpaceAssumption DEF Weight
<1>4. GoalIdx # {}
  <2>1. 1 \in DOMAIN goals
    BY <1>1 DEF QueryInv, JoinedInv
  <2>. QED
    BY <2>1 DEF GoalIdx
<1>5. \A v \in Vertices : /\ \E x \in GoalIdx : Heuristic(v) = Weight(v, x)
                          /\ \A x \in GoalIdx : Heuristic(v) <= Weight(v, x)
  <2> TAKE v \in Vertices
  <2> DEFINE S == {Weight(v, x) : x \in GoalIdx}
  <2>1. S \in SUBSET Nat /\ S # {}
    BY <1>1, <1>2, <1>4
  <2>2. Least(S) \in S /\ \A x \in S : Least(S) <= x
    <3> HIDE DEF S
    <3>. QED
      BY <2>1, LeastFacts
  <2>. QED
    BY <2>2 DEF Heuristic
<1>6. \A v \in Vertices : Heuristic(v) \in Nat
  BY <1>1, <1>2, <1>5
<1>7. ASSUME NEW u \in Vertices, NEW v \in Vertices
      PROVE  Heuristic(u) <= Weight(u, v) + Heuristic(v)
  <2>1. PICK x \in GoalIdx : Heuristic(v) = Weight(v, x)
    BY <1>5
  <2>2. x \in Vertices /\ Heuristic(u) <= Weight(u, x)
    BY <1>1, <1>5
  <2>3. Weight(u, x) <= Weight(u, v) + Weight(v, x)
    BY <1>3, <2>2
  <2>. QED
    BY <1>2, <1>6, <2>1, <2>2, <2>3
<1>8. ASSUME NEW v \in GoalIdx
      PROVE  Heuristic(v) = 0
  <2>1. v \in Vertices /\ Heuristic(v) <= Weight(v, v) /\ Weight(v, v) = 0
    BY <1>1, <1>2, <1>5
  <2>. QED
    BY <1>6, <2>1
<1>9. \A v \in Vertices : Neighbors(v) \in SUBSET Vertices
  BY NeighborsFree
<1>10. /\ Graph.nb \in [Vertices -> SUBSET Vertices] /\ Graph.h \in [Vertices -> Nat]
       /\ Graph.at \in [Vertices -> Cfg]
  BY <1>1, <1>6, <1>9, GraphFields
<1>11. Graph.w \in [Vertices -> [Vertices -> Nat]]
  BY <1>2, GraphFields
<1>12. \A u, v \in Vertices : Graph.h[u] <= Graph.w[u][v] + Graph.h[v]
  BY <1>7, GraphFields
<1>13. \A v \in GoalIdx : Graph.h[v] = 0
  BY <1>1, <1>8, GraphFields
<1>14. Graph.v = Vertices /\ Graph.s = StartIdx /\ Graph.t = GoalIdx
  BY GraphFields
<1>. QED
  BY <1>1, <1>10, <1>11, <1>12, <1>13, <1>14 DEF GraphOK

-------------------------------------------------------------------------------
(* What came_from and the heap say of the walks of the graph *)

(* The walk on record to a goal is a free one from the start. *)
LEMMA WalkRight ==
  ASSUME RoadmapInv, QueryInv, Searched, NEW t \in GoalIdx, t \in DOMAIN g_cost
  PROVE  /\ WalkTo(t) \in Seq(Cfg) /\ Len(WalkTo(t)) >= 2
         /\ WalkTo(t)[1] = Start /\ WalkTo(t)[Len(WalkTo(t))] = ConfigAt(t)
         /\ \A i \in 1 .. Len(WalkTo(t)) - 1 : FreeSegment(WalkTo(t)[i], WalkTo(t)[i + 1])
<1> DEFINE c == came_from
           Rec(f) == f = [v \in Vertices |-> IF v \in DOMAIN c THEN Append(f[c[v]], ConfigAt(v))
                                             ELSE <<ConfigAt(v)>>]
           walk == CHOOSE f : Rec(f)
           Good(p, v) == /\ p \in Seq(Cfg) /\ Len(p) >= 1 /\ (v # StartIdx => Len(p) >= 2)
                         /\ p[1] = Start /\ p[Len(p)] = ConfigAt(v)
                         /\ \A i \in 1 .. Len(p) - 1 : FreeSegment(p[i], p[i + 1])
           S == {v \in DOMAIN g_cost : Good(walk[v], v)}
<1>1. GraphOK(Graph) /\ SearchOK(Graph, g_cost, c, open)
  BY GraphRight DEF Searched
<1>2. CostsOK(Graph, g_cost) /\ ParentsOK(Graph, g_cost, c, open)
  BY <1>1 DEF SearchOK
<1>3. /\ DOMAIN g_cost \subseteq Vertices /\ StartIdx \in DOMAIN g_cost /\ DOMAIN c = DOMAIN g_cost \ {StartIdx}
      /\ \A v \in DOMAIN c : c[v] \in DOMAIN g_cost /\ v \in Neighbors(c[v])
  <2>1. DOMAIN g_cost \subseteq Vertices /\ StartIdx \in DOMAIN g_cost /\ DOMAIN c = DOMAIN g_cost \ {StartIdx}
    BY <1>2, GraphFields DEF CostsOK, ParentsOK
  <2>2. \A v \in DOMAIN c : c[v] \in DOMAIN g_cost /\ v \in Graph.nb[c[v]]
    BY <1>2 DEF ParentsOK, Closed
  <2>3. \A v \in DOMAIN c : Graph.nb[c[v]] = Neighbors(c[v])
    BY <2>1, <2>2, GraphFields
  <2>. QED
    BY <2>1, <2>2, <2>3
<1>4. PICK wk : Walks(Graph, g_cost, c, open, wk)
  BY <1>1 DEF SearchOK
<1>5. Rec(walk)
  <2> DEFINE f == [v \in Vertices |-> IF v \in DOMAIN g_cost THEN wk[v] ELSE <<ConfigAt(v)>>]
  <2>1. \A v \in Vertices : Graph.at[v] = ConfigAt(v)
    BY GraphFields
  <2>2. /\ \A v \in DOMAIN c : wk[v] = Append(wk[c[v]], ConfigAt(v))
        /\ wk[StartIdx] = <<ConfigAt(StartIdx)>>
    BY <1>3, <1>4, <2>1, GraphFields DEF Walks
  <2>3. ASSUME NEW v \in Vertices
        PROVE  f[v] = IF v \in DOMAIN c THEN Append(f[c[v]], ConfigAt(v)) ELSE <<ConfigAt(v)>>
    <3>1. CASE v \in DOMAIN c
      <4>1. v \in DOMAIN g_cost /\ c[v] \in DOMAIN g_cost /\ c[v] \in Vertices
        BY <1>3, <3>1
      <4>2. f[v] = wk[v] /\ f[c[v]] = wk[c[v]]
        BY <4>1
      <4> HIDE DEF f, c
      <4>. QED
        BY <2>2, <3>1, <4>2
    <3>2. CASE v \notin DOMAIN c
      BY <1>3, <2>2, <3>2
    <3>. QED
      BY <3>1, <3>2
  <2>4. Rec(f)
    <3>1. f = [v \in Vertices |-> f[v]]
      OBVIOUS
    <3> HIDE DEF f, c
    <3>. QED
      BY <2>3, <3>1
  <2> HIDE DEF Rec
  <2>. QED
    BY <2>4
<1>6. WalkTo(t) = walk[t]
  BY DEF WalkTo
<1> HIDE DEF walk
<1>7. StartIdx \in S
  <2>1. ConfigAt(StartIdx) = Start /\ Start \in Cfg /\ StartIdx \in Vertices
    BY VertexFacts, QueryAssumption
  <2>2. walk[StartIdx] = <<Start>>
    BY <1>3, <1>5, <2>1
  <2>3. Good(<<Start>>, StartIdx)
    BY <2>1
  <2>. QED
    BY <1>3, <2>2, <2>3
<1>8. ASSUME NEW v \in DOMAIN c, c[v] \in S
      PROVE  v \in S
  <2> DEFINE p == walk[c[v]]
             q == Append(p, ConfigAt(v))
  <2>1. v \in Vertices /\ v \in DOMAIN g_cost /\ c[v] \in Vertices
    BY <1>3
  <2>2. walk[v] = q
    BY <1>5, <2>1
  <2>3. ConfigAt(v) \in Cfg /\ FreeSegment(ConfigAt(c[v]), ConfigAt(v))
    BY <1>3, <2>1, VertexFacts, NeighborsFree
  <2>4. Good(p, c[v])
    BY <1>8
  <2> HIDE DEF p, c
  <2>5. /\ q \in Seq(Cfg) /\ Len(q) = Len(p) + 1 /\ Len(p) \in Nat /\ q[Len(q)] = ConfigAt(v)
        /\ \A i \in 1 .. Len(p) : q[i] = p[i]
    BY <2>3, <2>4
  <2>6. q[1] = Start /\ Len(q) >= 2
    BY <2>4, <2>5
  <2>7. ASSUME NEW i \in 1 .. Len(q) - 1
        PROVE  FreeSegment(q[i], q[i + 1])
    <3>1. CASE i = Len(p)
      <4>1. q[i] = ConfigAt(c[v]) /\ q[i + 1] = ConfigAt(v)
        BY <2>4, <2>5, <3>1
      <4>. QED
        BY <2>3, <4>1
    <3>2. CASE i # Len(p)
      <4>1. i \in 1 .. Len(p) - 1 /\ q[i] = p[i] /\ q[i + 1] = p[i + 1]
        BY <2>5, <3>2
      <4>. QED
        BY <2>4, <4>1
    <3>. QED
      BY <3>1, <3>2
  <2> HIDE DEF q
  <2>8. Good(q, v)
    BY <2>5, <2>6, <2>7
  <2>. QED
    BY <2>1, <2>2, <2>8
<1>9. DOMAIN g_cost \subseteq S
  <2>1. Graph.s \in S
    BY <1>7, GraphFields
  <2> HIDE DEF S, c
  <2>. QED
    BY ONLY <1>1, <1>8, <2>1, AlongTheWalk
<1>10. Good(walk[t], t) /\ t # StartIdx
  BY <1>9, VertexFacts
<1>. QED
  BY <1>6, <1>10

(* The cost on record is that of the walk on record. *)
LEMMA CostRight ==
  ASSUME RoadmapInv, QueryInv, Searched, NEW t \in DOMAIN g_cost
  PROVE  g_cost[t] = RecordedCost(t)
<1> DEFINE c == came_from
           Rec(f) == f = [u \in Vertices |-> IF u \in DOMAIN c THEN f[c[u]] + Weight(c[u], u) ELSE 0]
           cost == CHOOSE f : Rec(f)
           S == {v \in DOMAIN g_cost : g_cost[v] = cost[v]}
<1>1. GraphOK(Graph) /\ SearchOK(Graph, g_cost, c, open)
  BY GraphRight DEF Searched
<1>2. CostsOK(Graph, g_cost) /\ ParentsOK(Graph, g_cost, c, open)
  BY <1>1 DEF SearchOK
<1>3. /\ DOMAIN g_cost \subseteq Vertices /\ StartIdx \in DOMAIN g_cost /\ g_cost[StartIdx] = 0
      /\ DOMAIN c = DOMAIN g_cost \ {StartIdx}
      /\ \A v \in DOMAIN c : c[v] \in DOMAIN g_cost /\ g_cost[v] = g_cost[c[v]] + Weight(c[v], v)
  <2>1. /\ DOMAIN g_cost \subseteq Vertices /\ StartIdx \in DOMAIN g_cost /\ g_cost[StartIdx] = 0
        /\ DOMAIN c = DOMAIN g_cost \ {StartIdx}
    BY <1>2, GraphFields DEF CostsOK, ParentsOK
  <2>2. \A v \in DOMAIN c : c[v] \in DOMAIN g_cost /\ g_cost[v] = g_cost[c[v]] + Graph.w[c[v]][v]
    BY <1>2 DEF ParentsOK, Closed
  <2>3. ASSUME NEW v \in DOMAIN c
        PROVE  Graph.w[c[v]][v] = Weight(c[v], v)
    <3>1. c[v] \in Vertices /\ v \in Vertices
      BY <2>1, <2>2
    <3> HIDE DEF c
    <3>2. Graph.w[c[v]] = [x \in Vertices |-> Weight(c[v], x)]
      BY <3>1, GraphFields
    <3>. QED
      BY <3>1, <3>2
  <2>. QED
    BY <2>1, <2>2, <2>3
<1>4. Rec(cost)
  <2> DEFINE f == [v \in Vertices |-> IF v \in DOMAIN g_cost THEN g_cost[v] ELSE 0]
  <2>1. ASSUME NEW v \in Vertices
        PROVE  f[v] = IF v \in DOMAIN c THEN f[c[v]] + Weight(c[v], v) ELSE 0
    <3>1. CASE v \in DOMAIN c
      <4>1. v \in DOMAIN g_cost /\ c[v] \in DOMAIN g_cost /\ c[v] \in Vertices
        BY <1>3, <3>1
      <4>2. f[v] = g_cost[v] /\ f[c[v]] = g_cost[c[v]]
        BY <4>1
      <4> HIDE DEF f, c
      <4>. QED
        BY <1>3, <3>1, <4>2
    <3>2. CASE v \notin DOMAIN c
      BY <1>3, <3>2
    <3>. QED
      BY <3>1, <3>2
  <2>2. Rec(f)
    <3>1. f = [v \in Vertices |-> f[v]]
      OBVIOUS
    <3> HIDE DEF f, c
    <3>. QED
      BY <2>1, <3>1
  <2> HIDE DEF Rec
  <2>. QED
    BY <2>2
<1>5. RecordedCost(t) = cost[t]
  BY DEF RecordedCost
<1> HIDE DEF cost
<1>6. StartIdx \in S
  <2>1. cost[StartIdx] = 0
    BY <1>3, <1>4
  <2>. QED
    BY <1>3, <2>1
<1>7. ASSUME NEW v \in DOMAIN c, c[v] \in S
      PROVE  v \in S
  BY <1>3, <1>4, <1>7
<1>8. DOMAIN g_cost \subseteq S
  <2>1. Graph.s \in S
    BY <1>6, GraphFields
  <2> HIDE DEF S, c
  <2>. QED
    BY ONLY <1>1, <1>7, <2>1, AlongTheWalk
<1>. QED
  BY <1>5, <1>8

\* One step of the definition of the cheapest walks.
Longer(A) == UNION {{<<u, t[2] + Weight(t[1], u)>> : u \in Linked(t[1])} : t \in A}
Within(W) == W = [n \in Nat |-> IF n = 0 THEN {<<StartIdx, 0>>} ELSE Cheapest(W[n - 1] \cup Longer(W[n - 1]))]

(* Of every walk, one as cheap to the same vertex is kept. *)
LEMMA CheapestFacts ==
  ASSUME NEW A \in SUBSET (Vertices \X Nat), NEW p \in A
  PROVE  \E q \in Cheapest(A) : q[1] = p[1] /\ q[2] <= p[2]
<1> DEFINE Same == {q \in A : q[1] = p[1]}
           S == {q[2] : q \in Same}
<1>1. PICK m \in S : \A k \in S : m <= k
  <2>1. S \in SUBSET Nat /\ S # {}
    OBVIOUS
  <2> HIDE DEF S
  <2>. QED
    BY <2>1, LeastElement
<1>2. PICK q \in Same : m = q[2]
  OBVIOUS
<1>3. \A u \in A : u[1] = q[1] => q[2] <= u[2]
  BY <1>1, <1>2
<1>4. q \in Cheapest(A)
  BY <1>3 DEF Cheapest
<1>. QED
  BY <1>1, <1>2, <1>4

(* The walks that define Reference. *)
LEMMA ReferenceIs ==
  ASSUME RoadmapInv, QueryInv
  PROVE  \E W : /\ Reference = W[Cardinality(Vertices)]
                /\ W[0] = {<<StartIdx, 0>>}
                /\ \A n \in Nat : W[n + 1] = Cheapest(W[n] \cup Longer(W[n]))
                /\ \A n \in Nat : W[n] \in SUBSET (Vertices \X Nat) /\ Longer(W[n]) \in SUBSET (Vertices \X Nat)
<1> DEFINE T == SUBSET (Vertices \X Nat)
           base == {<<StartIdx, 0>>}
           op == [A \in T |-> Cheapest(A \cup Longer(A))]
           W == CHOOSE f : Within(f)
<1>1. StartIdx \in Vertices /\ \A v \in Vertices : ConfigAt(v) \in Cfg /\ Linked(v) \subseteq Vertices
  BY VertexFacts, NeighborsFree
<1>2. \A u, v \in Vertices : Weight(u, v) \in Nat
  BY <1>1, SpaceAssumption DEF Weight
<1>3. ASSUME NEW A \in T
      PROVE  Longer(A) \in T /\ Cheapest(A \cup Longer(A)) \in T
  <2>1. ASSUME NEW p \in Longer(A)
        PROVE  p \in Vertices \X Nat
    <3>1. PICK t \in A : \E u \in Linked(t[1]) : p = <<u, t[2] + Weight(t[1], u)>>
      BY DEF Longer
    <3>2. PICK u \in Linked(t[1]) : p = <<u, t[2] + Weight(t[1], u)>>
      BY <3>1
    <3>3. t[1] \in Vertices /\ t[2] \in Nat
      OBVIOUS
    <3>4. u \in Vertices /\ Weight(t[1], u) \in Nat
      BY <1>1, <1>2, <3>2, <3>3
    <3>. QED
      BY <3>2, <3>3, <3>4
  <2>. QED
    BY <2>1 DEF Cheapest
<1>4. base \in T /\ op \in [T -> T]
  BY <1>1, <1>3
<1>5. \E f : Within(f)
  <2>1. PICK f : Recurrence(T, base, op, f)
    <3> HIDE DEF T, base, op
    <3>. QED
      BY <1>4, RecurrenceExists
  <2>2. f \in [Nat -> T] /\ f = [n \in Nat |-> IF n = 0 THEN base ELSE op[f[n - 1]]]
    BY <2>1 DEF Recurrence
  <2>3. ASSUME NEW n \in Nat
        PROVE  f[n] = IF n = 0 THEN base ELSE Cheapest(f[n - 1] \cup Longer(f[n - 1]))
    <3>1. CASE n = 0
      <4> HIDE DEF T, base, op
      <4>. QED
        BY <2>2, <3>1
    <3>2. CASE n # 0
      <4>1. n - 1 \in Nat /\ f[n - 1] \in T
        <5>1. n - 1 \in Nat
          BY <3>2
        <5> HIDE DEF T
        <5>. QED
          BY <2>2, <5>1
      <4>2. op[f[n - 1]] = Cheapest(f[n - 1] \cup Longer(f[n - 1]))
        <5> HIDE DEF T
        <5>. QED
          BY <4>1
      <4> HIDE DEF T, base, op
      <4>. QED
        BY <2>2, <3>2, <4>2
    <3>. QED
      BY <3>1, <3>2
  <2>4. f = [n \in Nat |-> IF n = 0 THEN base ELSE Cheapest(f[n - 1] \cup Longer(f[n - 1]))]
    <3>1. f = [n \in Nat |-> f[n]]
      <4> HIDE DEF T
      <4>. QED
        BY <2>2
    <3> HIDE DEF T, base, op
    <3>. QED
      BY <2>3, <3>1
  <2>. QED
    BY <2>4 DEF Within
<1>6. W = [n \in Nat |-> IF n = 0 THEN {<<StartIdx, 0>>} ELSE Cheapest(W[n - 1] \cup Longer(W[n - 1]))]
  <2>1. Within(W)
    BY <1>5
  <2> HIDE DEF W
  <2>. QED
    BY <2>1 DEF Within
<1>7. Reference = W[Cardinality(Vertices)]
  BY DEF Reference, Within, Longer
<1> HIDE DEF W
<1>8. W[0] = base
  BY <1>6
<1>9. ASSUME NEW n \in Nat
      PROVE  W[n + 1] = Cheapest(W[n] \cup Longer(W[n]))
  <2>1. n + 1 \in Nat /\ n + 1 # 0 /\ (n + 1) - 1 = n
    OBVIOUS
  <2>2. W[n + 1] = Cheapest(W[(n + 1) - 1] \cup Longer(W[(n + 1) - 1]))
    BY <1>6, <2>1
  <2>. QED
    BY <2>1, <2>2
<1>10. \A n \in Nat : W[n] \in T
  <2> DEFINE Bad == {n \in Nat : W[n] \notin T}
  <2>1. SUFFICES ASSUME Bad # {}
                 PROVE  FALSE
    OBVIOUS
  <2>2. PICK m \in Bad : \A k \in Bad : m <= k
    <3>1. Bad \in SUBSET Nat
      OBVIOUS
    <3> HIDE DEF Bad
    <3>. QED
      BY <2>1, <3>1, LeastElement
  <2>3. m # 0
    BY <1>4, <1>8
  <2>4. m - 1 \in Nat /\ (m - 1) + 1 = m /\ ~ (m <= m - 1)
    BY <2>3
  <2>5. W[m - 1] \in T
    BY <2>2, <2>4
  <2>6. W[m] = Cheapest(W[m - 1] \cup Longer(W[m - 1]))
    BY <1>9, <2>4
  <2>7. W[m] \in T
    <3> HIDE DEF T
    <3>. QED
      BY <1>3, <2>5, <2>6
  <2>. QED
    BY <2>7
<1>. QED
  BY <1>3, <1>7, <1>8, <1>9, <1>10

(* No walk to a goal is cheaper than the top of the heap: where it leaves the
   expanded vertices there is an entry that promises no more than its cost. *)
LEMMA NothingCheaper ==
  ASSUME RoadmapInv, QueryInv, Searched, NEW d \in GoalCosts
  PROVE  d \in Nat /\ \E e \in open : e[1] <= d
<1> DEFINE K == Closed(Graph, g_cost, open)
           Bounded(p) == \/ p[1] \in K /\ g_cost[p[1]] <= p[2]
                         \/ \E e \in open : e[1] <= p[2] + Heuristic(p[1])
<1>1. GraphOK(Graph) /\ SearchOK(Graph, g_cost, came_from, open)
  BY GraphRight DEF Searched
<1>2. CostsOK(Graph, g_cost) /\ HeapOK(Graph, g_cost, open) /\ ClosedOK(Graph, g_cost, open)
  BY <1>1 DEF SearchOK
<1>3. /\ StartIdx \in Vertices /\ \A v \in Vertices : Neighbors(v) \subseteq Vertices /\ Linked(v) = Neighbors(v)
      /\ GoalIdx \subseteq Vertices
  BY VertexFacts, NeighborsFree
<1>4. \A u, v \in Vertices : /\ Weight(u, v) \in Nat /\ Heuristic(u) \in Nat
                             /\ Heuristic(u) <= Weight(u, v) + Heuristic(v)
  <2> TAKE u \in Vertices, v \in Vertices
  <2>1. Graph.w[u] = [x \in Vertices |-> Weight(u, x)] /\ Graph.h[u] = Heuristic(u) /\ Graph.h[v] = Heuristic(v)
    BY GraphFields
  <2>2. Graph.w[u][v] = Weight(u, v)
    BY <2>1
  <2>3. u \in Graph.v /\ v \in Graph.v
    BY GraphFields
  <2>4. Graph.w[u][v] \in Nat /\ Graph.h[u] \in Nat /\ Graph.h[u] <= Graph.w[u][v] + Graph.h[v]
    BY <1>1, <2>3 DEF GraphOK
  <2>. QED
    BY <2>1, <2>2, <2>4
<1>5. \A v \in DOMAIN g_cost : v \in Vertices /\ g_cost[v] \in Nat
  BY <1>2, GraphFields DEF CostsOK
<1>6. \A v \in DOMAIN g_cost : v \in K \/ \E e \in open : e[1] = g_cost[v] + Heuristic(v)
  <2> TAKE v \in DOMAIN g_cost
  <2>1. SUFFICES ASSUME v \notin K
                 PROVE  \E e \in open : e[1] = g_cost[v] + Heuristic(v)
    OBVIOUS
  <2>2. Entry(Graph, g_cost, v) \in open
    BY <2>1 DEF Closed
  <2>3. Entry(Graph, g_cost, v)[1] = g_cost[v] + Heuristic(v)
    BY <1>5, GraphFields DEF Entry
  <2>. QED
    BY <2>2, <2>3
<1>7. \A e \in open : e[1] \in Nat
  <2> TAKE e \in open
  <2>1. e[3] \in DOMAIN g_cost /\ e[2] \in Nat /\ e = <<e[2] + Graph.h[e[3]], e[2], e[3]>>
    BY <1>2 DEF HeapOK
  <2>2. Graph.h[e[3]] \in Nat
    BY <1>4, <1>5, <2>1, GraphFields
  <2>. QED
    BY <2>1, <2>2
<1>8. \A x \in K : /\ x \in DOMAIN g_cost /\ x \notin GoalIdx
                   /\ \A v \in Neighbors(x) : v \in DOMAIN g_cost /\ g_cost[v] <= g_cost[x] + Weight(x, v)
  <2> TAKE x \in K
  <2>1. x \in DOMAIN g_cost /\ x \in Vertices
    BY <1>5 DEF Closed
  <2>2. Graph.nb[x] = Neighbors(x) /\ Graph.t = GoalIdx /\ Graph.w[x] = [v \in Vertices |-> Weight(x, v)]
    BY <2>1, GraphFields
  <2>3. \A v \in Neighbors(x) : Graph.w[x][v] = Weight(x, v)
    BY <1>3, <2>1, <2>2
  <2>4. x \notin Graph.t /\ \A v \in Graph.nb[x] : v \in DOMAIN g_cost /\ g_cost[v] <= g_cost[x] + Graph.w[x][v]
    BY <1>2 DEF ClosedOK
  <2>. QED
    BY <2>1, <2>2, <2>3, <2>4
<1> HIDE DEF K
<1>9. PICK W : /\ Reference = W[Cardinality(Vertices)]
               /\ W[0] = {<<StartIdx, 0>>}
               /\ \A n \in Nat : W[n + 1] = Cheapest(W[n] \cup Longer(W[n]))
               /\ \A n \in Nat : W[n] \in SUBSET (Vertices \X Nat) /\ Longer(W[n]) \in SUBSET (Vertices \X Nat)
  BY ReferenceIs
<1>10. Bounded(<<StartIdx, 0>>)
  <2>1. StartIdx \in DOMAIN g_cost /\ g_cost[StartIdx] = 0
    BY <1>2, GraphFields DEF CostsOK
  <2>2. CASE StartIdx \in K
    BY <2>1, <2>2
  <2>3. CASE StartIdx \notin K
    <3>1. PICK e \in open : e[1] = g_cost[StartIdx] + Heuristic(StartIdx)
      BY <1>6, <2>1, <2>3
    <3>. QED
      BY <1>3, <1>4, <2>1, <3>1
  <2>. QED
    BY <2>2, <2>3
<1>11. ASSUME NEW A \in SUBSET (Vertices \X Nat), \A p \in A : Bounded(p), NEW r \in Longer(A)
       PROVE  Bounded(r)
  <2>1. PICK p \in A : \E u \in Linked(p[1]) : r = <<u, p[2] + Weight(p[1], u)>>
    BY DEF Longer
  <2>2. PICK u \in Linked(p[1]) : r = <<u, p[2] + Weight(p[1], u)>>
    BY <2>1
  <2>3. /\ p[1] \in Vertices /\ p[2] \in Nat /\ u \in Neighbors(p[1]) /\ u \in Vertices
        /\ r[1] = u /\ r[2] = p[2] + Weight(p[1], u)
    <3>1. p[1] \in Vertices /\ p[2] \in Nat
      OBVIOUS
    <3>. QED
      BY <1>3, <2>2, <3>1
  <2>4. Weight(p[1], u) \in Nat /\ Heuristic(p[1]) <= Weight(p[1], u) + Heuristic(u)
        /\ Heuristic(u) \in Nat /\ Heuristic(p[1]) \in Nat
    BY <1>4, <2>3
  <2>5. CASE p[1] \in K /\ g_cost[p[1]] <= p[2]
    <3>1. u \in DOMAIN g_cost /\ g_cost[u] <= g_cost[p[1]] + Weight(p[1], u)
      BY <1>8, <2>3, <2>5
    <3>2. g_cost[u] <= r[2] /\ g_cost[u] \in Nat /\ r[2] \in Nat
      <4>1. g_cost[p[1]] \in Nat /\ g_cost[u] \in Nat
        BY <1>5, <1>8, <2>5, <3>1
      <4>. QED
        BY <2>3, <2>4, <2>5, <3>1, <4>1
    <3>3. CASE u \in K
      BY <2>3, <3>2, <3>3
    <3>4. CASE u \notin K
      <4>1. PICK e \in open : e[1] = g_cost[u] + Heuristic(u)
        BY <1>6, <3>1, <3>4
      <4>2. e[1] <= r[2] + Heuristic(r[1])
        BY <2>3, <2>4, <3>2, <4>1
      <4>. QED
        BY <4>2
    <3>. QED
      BY <3>3, <3>4
  <2>6. CASE \E e \in open : e[1] <= p[2] + Heuristic(p[1])
    <3>1. PICK e \in open : e[1] <= p[2] + Heuristic(p[1])
      BY <2>6
    <3>2. e[1] <= r[2] + Heuristic(r[1])
      BY <1>7, <2>3, <2>4, <3>1
    <3>. QED
      BY <3>2
  <2>. QED
    BY <1>11, <2>5, <2>6
<1>12. \A n \in Nat : \A p \in W[n] : Bounded(p)
  <2> DEFINE Bad == {n \in Nat : ~ \A p \in W[n] : Bounded(p)}
  <2>1. SUFFICES ASSUME Bad # {}
                 PROVE  FALSE
    OBVIOUS
  <2>2. PICK m \in Bad : \A k \in Bad : m <= k
    <3>1. Bad \in SUBSET Nat
      OBVIOUS
    <3> HIDE DEF Bad
    <3>. QED
      BY <2>1, <3>1, LeastElement
  <2> HIDE DEF Bounded
  <2>3. m # 0
    BY <1>9, <1>10, <2>2
  <2>4. m - 1 \in Nat /\ (m - 1) + 1 = m /\ ~ (m <= m - 1)
    BY <2>3
  <2>5. \A p \in W[m - 1] : Bounded(p)
    BY <2>2, <2>4
  <2>6. W[m] = Cheapest(W[m - 1] \cup Longer(W[m - 1])) /\ W[m - 1] \in SUBSET (Vertices \X Nat)
    BY <1>9, <2>4
  <2>7. \A p \in W[m] : p \in W[m - 1] \/ p \in Longer(W[m - 1])
    BY <2>6 DEF Cheapest
  <2>8. \A p \in Longer(W[m - 1]) : Bounded(p)
    BY <1>11, <2>5, <2>6
  <2>. QED
    BY <2>2, <2>5, <2>7, <2>8
<1>13. Cardinality(Vertices) \in Nat
  BY VertexFacts, FS_CardinalityType
<1>14. PICK p \in Reference : p[1] \in GoalIdx /\ d = p[2]
  BY DEF GoalCosts
<1>15. Bounded(p) /\ p \in Vertices \X Nat
  BY <1>9, <1>12, <1>13
<1>16. p[1] \notin K
  BY <1>8, <1>14
<1>17. PICK e \in open : e[1] <= p[2] + Heuristic(p[1])
  BY <1>15, <1>16
<1>18. Heuristic(p[1]) = 0
  <2>1. Graph.h[p[1]] = 0
    BY <1>1, <1>14, GraphFields DEF GraphOK
  <2>. QED
    BY <1>3, <1>14, <2>1, GraphFields
<1>. QED
  BY <1>14, <1>15, <1>17, <1>18

(* The walk on record is one of those Reference considers. *)
LEMMA AsCheap ==
  ASSUME RoadmapInv, QueryInv, Searched, NEW t \in GoalIdx, t \in DOMAIN g_cost
  PROVE  \E d \in GoalCosts : d <= g_cost[t]
<1> DEFINE c == came_from
           K == Closed(Graph, g_cost, open)
<1>1. GraphOK(Graph) /\ SearchOK(Graph, g_cost, c, open)
  BY GraphRight DEF Searched
<1>2. CostsOK(Graph, g_cost) /\ ParentsOK(Graph, g_cost, c, open)
  BY <1>1 DEF SearchOK
<1>3. /\ DOMAIN g_cost \subseteq Vertices /\ StartIdx \in DOMAIN g_cost /\ g_cost[StartIdx] = 0
      /\ \A v \in DOMAIN g_cost : g_cost[v] \in Nat
      /\ DOMAIN c = DOMAIN g_cost \ {StartIdx}
      /\ \A v \in DOMAIN c : /\ c[v] \in DOMAIN g_cost /\ v \in Linked(c[v])
                             /\ g_cost[v] = g_cost[c[v]] + Weight(c[v], v)
  <2>1. /\ DOMAIN g_cost \subseteq Vertices /\ StartIdx \in DOMAIN g_cost /\ g_cost[StartIdx] = 0
        /\ \A v \in DOMAIN g_cost : g_cost[v] \in Nat
        /\ DOMAIN c = DOMAIN g_cost \ {StartIdx}
    BY <1>2, GraphFields DEF CostsOK, ParentsOK
  <2>2. ASSUME NEW v \in DOMAIN c
        PROVE  c[v] \in DOMAIN g_cost /\ v \in Linked(c[v]) /\ g_cost[v] = g_cost[c[v]] + Weight(c[v], v)
    <3>1. c[v] \in DOMAIN g_cost /\ v \in Graph.nb[c[v]] /\ g_cost[v] = g_cost[c[v]] + Graph.w[c[v]][v]
      BY <1>2 DEF ParentsOK, Closed
    <3>2. c[v] \in Vertices /\ v \in Vertices
      BY <2>1, <3>1
    <3> HIDE DEF c
    <3>3. Graph.w[c[v]] = [x \in Vertices |-> Weight(c[v], x)] /\ Graph.nb[c[v]] = Neighbors(c[v])
      BY <3>2, GraphFields
    <3>4. Graph.w[c[v]][v] = Weight(c[v], v)
      BY <3>2, <3>3
    <3>5. Linked(c[v]) = Neighbors(c[v])
      BY <3>2, NeighborsFree
    <3>. QED
      BY <3>1, <3>3, <3>4, <3>5
  <2>. QED
    BY <2>1, <2>2
<1>4. PICK wk : Walks(Graph, g_cost, c, open, wk)
  BY <1>1 DEF SearchOK
<1>5. PICK W : /\ Reference = W[Cardinality(Vertices)]
               /\ W[0] = {<<StartIdx, 0>>}
               /\ \A n \in Nat : W[n + 1] = Cheapest(W[n] \cup Longer(W[n]))
               /\ \A n \in Nat : W[n] \in SUBSET (Vertices \X Nat) /\ Longer(W[n]) \in SUBSET (Vertices \X Nat)
  BY ReferenceIs
<1> DEFINE Has(n, v) == \E q \in W[n] : q[1] = v /\ q[2] <= g_cost[v]
           S == {v \in DOMAIN g_cost : Has(Len(wk[v]) - 1, v)}
<1>6. /\ \A v \in DOMAIN g_cost : wk[v] \in Seq(Cfg) /\ Len(wk[v]) \in Nat /\ Len(wk[v]) <= Cardinality(K) + 1
      /\ wk[StartIdx] = <<Graph.at[StartIdx]>>
      /\ \A v \in DOMAIN c : wk[v] = Append(wk[c[v]], Graph.at[v])
  <2>1. /\ \A v \in DOMAIN g_cost : wk[v] \in Seq(Cfg) /\ Len(wk[v]) <= Cardinality(K) + 1
        /\ \A v \in DOMAIN c : wk[v] = Append(wk[c[v]], Graph.at[v])
    BY <1>4 DEF Walks
  <2>2. wk[Graph.s] = <<Graph.at[Graph.s]>> /\ Graph.s = StartIdx
    BY <1>4, GraphFields DEF Walks
  <2>3. \A v \in DOMAIN g_cost : Len(wk[v]) \in Nat
    BY <2>1
  <2>. QED
    BY <2>1, <2>2, <2>3
<1>7. \A v \in DOMAIN c : Len(wk[v]) = Len(wk[c[v]]) + 1
  <2> TAKE v \in DOMAIN c
  <2>1. Graph.at[v] \in Cfg
    <3>1. v \in Graph.v
      BY <1>3, GraphFields
    <3>. QED
      BY <1>1, <3>1 DEF GraphOK
  <2>2. wk[c[v]] \in Seq(Cfg) /\ wk[v] = Append(wk[c[v]], Graph.at[v])
    BY <1>3, <1>6
  <2>. QED
    BY <2>1, <2>2
<1>8. ASSUME NEW n \in Nat, NEW p \in W[n] \cup Longer(W[n])
      PROVE  \E q \in W[n + 1] : q[1] = p[1] /\ q[2] <= p[2]
  <2>1. W[n + 1] = Cheapest(W[n] \cup Longer(W[n])) /\ W[n] \cup Longer(W[n]) \in SUBSET (Vertices \X Nat)
    BY <1>5
  <2>. QED
    BY <2>1, CheapestFacts
<1>9. StartIdx \in S
  <2>1. Len(wk[StartIdx]) - 1 = 0
    BY <1>6
  <2>2. Has(0, StartIdx)
    BY <1>3, <1>5
  <2>. QED
    BY <1>3, <2>1, <2>2
<1>10. ASSUME NEW v \in DOMAIN c, c[v] \in S
       PROVE  v \in S
  <2> DEFINE x == c[v]
             n == Len(wk[x]) - 1
  <2>1. PICK p \in W[n] : p[1] = x /\ p[2] <= g_cost[x]
    BY <1>10
  <2>2. x \in DOMAIN g_cost /\ v \in DOMAIN g_cost /\ v \in Linked(x) /\ g_cost[v] = g_cost[x] + Weight(x, v)
    BY <1>3
  <2>3. n \in Nat /\ Len(wk[v]) - 1 = n + 1
    <3>1. Len(wk[x]) # 0
      <4>1. CASE x = StartIdx
        BY <1>6, <4>1
      <4>2. CASE x # StartIdx
        <5>1. x \in DOMAIN c
          BY <1>3, <2>2, <4>2
        <5>. QED
          BY <1>3, <1>6, <1>7, <5>1
      <4>. QED
        BY <4>1, <4>2
    <3>. QED
      BY <1>6, <1>7, <2>2, <3>1
  <2> HIDE DEF n, x, c
  <2>4. p[2] \in Nat /\ Weight(x, v) \in Nat /\ g_cost[x] \in Nat
    <3>1. p \in Vertices \X Nat
      BY <1>5, <2>1, <2>3
    <3>2. x \in Vertices /\ v \in Vertices
      BY <1>3, <2>2
    <3>3. ConfigAt(x) \in Cfg /\ ConfigAt(v) \in Cfg
      BY <3>2, VertexFacts
    <3>. QED
      BY <1>3, <2>2, <3>1, <3>3, SpaceAssumption DEF Weight
  <2>5. <<v, p[2] + Weight(x, v)>> \in Longer(W[n])
    BY <2>1, <2>2 DEF Longer
  <2>6. PICK q \in W[n + 1] : q[1] = v /\ q[2] <= p[2] + Weight(x, v)
    BY <1>8, <2>3, <2>5
  <2>7. q[2] \in Nat
    <3>1. q \in Vertices \X Nat
      BY <1>5, <2>3, <2>6
    <3>. QED
      BY <3>1
  <2>8. q[2] <= g_cost[v]
    BY <2>1, <2>2, <2>4, <2>6, <2>7
  <2>. QED
    BY <2>2, <2>3, <2>6, <2>8
<1>11. t \in S
  <2>1. Graph.s \in S
    BY <1>9, GraphFields
  <2> HIDE DEF S, c
  <2>2. DOMAIN g_cost \subseteq S
    BY ONLY <1>1, <1>10, <2>1, AlongTheWalk
  <2>. QED
    BY <2>2
<1>12. ASSUME NEW n \in Nat, Has(n, t), n <= Cardinality(Vertices)
       PROVE  Has(Cardinality(Vertices), t)
  <2> DEFINE N == Cardinality(Vertices)
             Good == {k \in Nat : k <= N /\ Has(N - k, t)}
  <2>1. N \in Nat
    BY VertexFacts, FS_CardinalityType
  <2> HIDE DEF N
  <2>2. N - n \in Good
    <3>1. N - n \in Nat /\ N - n <= N /\ N - (N - n) = n
      BY <1>12, <2>1 DEF N
    <3>. QED
      BY <1>12, <3>1
  <2>3. PICK m \in Good : \A k \in Good : m <= k
    <3>1. Good \in SUBSET Nat
      OBVIOUS
    <3> HIDE DEF Good
    <3>. QED
      BY <2>2, <3>1, LeastElement
  <2>4. m = 0
    <3>1. SUFFICES ASSUME m # 0
                   PROVE  FALSE
      OBVIOUS
    <3>2. m - 1 \in Nat /\ m - 1 <= N /\ N - m \in Nat /\ N - (m - 1) = (N - m) + 1 /\ ~ (m <= m - 1)
      BY <2>1, <3>1
    <3>3. PICK p \in W[N - m] : p[1] = t /\ p[2] <= g_cost[t]
      BY <2>3
    <3>4. PICK q \in W[(N - m) + 1] : q[1] = t /\ q[2] <= p[2]
      BY <1>8, <3>2, <3>3
    <3>5. q[2] <= g_cost[t]
      <4>1. p \in Vertices \X Nat /\ q \in Vertices \X Nat
        BY <1>5, <3>2, <3>3, <3>4
      <4>2. p[2] \in Nat /\ q[2] \in Nat /\ g_cost[t] \in Nat
        BY <1>3, <4>1
      <4>. QED
        BY <3>3, <3>4, <4>2
    <3>6. Has(N - (m - 1), t)
      BY <3>2, <3>4, <3>5
    <3>7. m - 1 \in Good
      BY <3>2, <3>6
    <3> HIDE DEF Good
    <3>. QED
      BY <2>3, <3>2, <3>7
  <2>5. Has(N - 0, t) /\ N - 0 = N
    BY <2>1, <2>3, <2>4
  <2>6. Has(N, t)
    BY <2>5
  <2>. QED
    BY <2>6 DEF N
<1>13. Has(Cardinality(Vertices), t)
  <2>1. Has(Len(wk[t]) - 1, t)
    BY <1>11
  <2>2. Cardinality(K) \in Nat /\ Cardinality(K) <= Cardinality(Vertices)
    BY <1>1, <1>2, ClosedFinite, GraphFields
  <2>3. Cardinality(Vertices) \in Nat
    BY VertexFacts, FS_CardinalityType
  <2>4. Len(wk[t]) \in Nat /\ Len(wk[t]) <= Cardinality(K) + 1
    BY <1>6
  <2>5. Len(wk[t]) # 0
    <3>1. CASE t = StartIdx
      BY <1>6, <3>1
    <3>2. CASE t # StartIdx
      <4>1. t \in DOMAIN c
        BY <1>3, <3>2
      <4>. QED
        BY <1>3, <1>6, <1>7, <4>1
    <3>. QED
      BY <3>1, <3>2
  <2>6. Len(wk[t]) - 1 \in Nat /\ Len(wk[t]) - 1 <= Cardinality(Vertices)
    <3> HIDE DEF K
    <3>. QED
      BY <2>2, <2>3, <2>4, <2>5
  <2> HIDE DEF Has, K
  <2>. QED
    BY <1>12, <2>1, <2>6
<1>14. PICK q \in Reference : q[1] = t /\ q[2] <= g_cost[t]
  BY <1>5, <1>13
<1>15. q[2] \in GoalCosts
  BY <1>14 DEF GoalCosts
<1>. QED
  BY <1>14, <1>15

-------------------------------------------------------------------------------
(* The components *)

(* Induction over the natural numbers, for a set. *)
LEMMA Induction ==
  ASSUME NEW S, 0 \in S, \A n \in Nat : n \in S => n + 1 \in S
  PROVE  Nat \subseteq S
<1> DEFINE Bad == Nat \ S
<1>1. SUFFICES ASSUME Bad # {}
               PROVE  FALSE
  OBVIOUS
<1>2. PICK m \in Bad : \A k \in Bad : m <= k
  <2>1. Bad \in SUBSET Nat
    OBVIOUS
  <2> HIDE DEF Bad
  <2>. QED
    BY <1>1, <2>1, LeastElement
<1>3. m - 1 \in Nat /\ (m - 1) + 1 = m /\ ~ (m <= m - 1)
  BY <1>2
<1>4. m - 1 \in S
  BY <1>2, <1>3
<1>. QED
  BY <1>2, <1>3, <1>4

\* Adjacent and Connected, for any nodes and edges.
AdjacentIn(N, E, j) == {k \in DOMAIN N : \E m \in DOMAIN E : E[m] \in {<<j, k>>, <<k, j>>}}
ConnectedIn(N, E, i) ==
  LET ball[n \in Nat] ==
        IF n = 0 THEN {i}
        ELSE LET near == ball[n - 1] IN near \cup UNION {AdjacentIn(N, E, j) : j \in near}
  IN  ball[Len(N)]

(* The two ways of writing Connected and Adjacent agree. *)
LEMMA ConnectedSame ==
  \A i : Connected(i) = ConnectedIn(nodes, edges, i) /\ Adjacent(i) = AdjacentIn(nodes, edges, i)
  BY DEF Connected, Adjacent, ConnectedIn, AdjacentIn

(* What chains of edges reach is the smallest set with the node that no edge leaves:
   a ball that is not yet closed grows, and there are only so many nodes. *)
LEMMA ConnectedFacts ==
  ASSUME NEW N \in Seq(Cfg), NEW E, NEW i \in DOMAIN N
  PROVE  LET C == ConnectedIn(N, E, i)
         IN  /\ i \in C /\ C \subseteq DOMAIN N
             /\ \A j \in C : AdjacentIn(N, E, j) \subseteq C
             /\ \A S : i \in S /\ (\A j \in S : AdjacentIn(N, E, j) \subseteq S) => C \subseteq S
<1> DEFINE T == SUBSET DOMAIN N
           grown(A) == A \cup UNION {AdjacentIn(N, E, j) : j \in A}
           Rec(f) == f = [n \in Nat |-> IF n = 0 THEN {i} ELSE grown(f[n - 1])]
           ball == CHOOSE f : Rec(f)
           op == [A \in T |-> grown(A)]
<1>1. Len(N) \in Nat /\ DOMAIN N = 1 .. Len(N) /\ IsFiniteSet(DOMAIN N) /\ Cardinality(DOMAIN N) = Len(N)
  <2>1. Len(N) \in Nat /\ DOMAIN N = 1 .. Len(N)
    OBVIOUS
  <2>2. IsFiniteSet(1 .. Len(N)) /\ Cardinality(1 .. Len(N)) = Len(N)
    <3>1. 1 \in Int /\ Len(N) \in Int /\ (1 > Len(N) <=> Len(N) = 0) /\ Len(N) - 1 + 1 = Len(N)
      BY <2>1
    <3>. QED
      BY <3>1, FS_Interval
  <2>. QED
    BY <2>1, <2>2
<1>2. \A A \in T : grown(A) \in T
  BY DEF AdjacentIn
<1>3. {i} \in T /\ op \in [T -> T]
  BY <1>2
<1> HIDE DEF grown
<1>4. \E f : Rec(f)
  <2>1. PICK f : Recurrence(T, {i}, op, f)
    <3> HIDE DEF T, op
    <3>. QED
      BY <1>3, RecurrenceExists
  <2>2. f \in [Nat -> T] /\ f = [n \in Nat |-> IF n = 0 THEN {i} ELSE op[f[n - 1]]]
    BY <2>1 DEF Recurrence
  <2>3. ASSUME NEW n \in Nat
        PROVE  f[n] = IF n = 0 THEN {i} ELSE grown(f[n - 1])
    <3>1. CASE n = 0
      <4> HIDE DEF T, op
      <4>. QED
        BY <2>2, <3>1
    <3>2. CASE n # 0
      <4>1. n - 1 \in Nat
        BY <3>2
      <4>2. f[n - 1] \in T
        <5> HIDE DEF T
        <5>. QED
          BY <2>2, <4>1
      <4>3. op[f[n - 1]] = grown(f[n - 1])
        BY <4>2
      <4> HIDE DEF T, op
      <4>. QED
        BY <2>2, <3>2, <4>3
    <3>. QED
      BY <3>1, <3>2
  <2>4. f = [n \in Nat |-> f[n]]
    <3> HIDE DEF T, op
    <3>. QED
      BY <2>2
  <2> HIDE DEF T, op
  <2>. QED
    BY <2>3, <2>4
<1>5. Rec(ball)
  <2> HIDE DEF Rec
  <2>. QED
    BY <1>4
<1>6. ConnectedIn(N, E, i) = ball[Len(N)]
  BY DEF ConnectedIn, grown
<1> HIDE DEF ball
<1>7. ball[0] = {i} /\ \A n \in Nat : ball[n + 1] = grown(ball[n])
  <2>1. ball[0] = {i}
    BY <1>5
  <2>2. ASSUME NEW n \in Nat
        PROVE  ball[n + 1] = grown(ball[n])
    <3>1. n + 1 \in Nat /\ n + 1 # 0 /\ (n + 1) - 1 = n
      OBVIOUS
    <3>2. ball[n + 1] = grown(ball[(n + 1) - 1])
      BY <1>5, <3>1
    <3>. QED
      BY <3>1, <3>2
  <2>. QED
    BY <2>1, <2>2
<1> HIDE DEF Rec, op
<1>8. \A n \in Nat : ball[n] \in T /\ i \in ball[n]
  <2> DEFINE S == {n \in Nat : ball[n] \in T /\ i \in ball[n]}
  <2>1. 0 \in S
    BY <1>7
  <2>2. ASSUME NEW n \in Nat, n \in S
        PROVE  n + 1 \in S
    <3>1. ball[n + 1] = grown(ball[n]) /\ ball[n] \in T /\ i \in ball[n]
      BY <1>7, <2>2
    <3>2. i \in grown(ball[n])
      BY <3>1 DEF grown
    <3>. QED
      BY <1>2, <3>1, <3>2
  <2>3. Nat \subseteq S
    <3> HIDE DEF S
    <3>. QED
      BY <2>1, <2>2, Induction
  <2>. QED
    BY <2>3
<1>9. ASSUME NEW S, i \in S, \A j \in S : AdjacentIn(N, E, j) \subseteq S
      PROVE  \A n \in Nat : ball[n] \subseteq S
  <2> DEFINE M == {n \in Nat : ball[n] \subseteq S}
  <2>1. 0 \in M
    BY <1>7, <1>9
  <2>2. ASSUME NEW n \in Nat, n \in M
        PROVE  n + 1 \in M
    <3>1. ball[n + 1] = grown(ball[n]) /\ ball[n] \subseteq S
      BY <1>7, <2>2
    <3>2. grown(ball[n]) \subseteq S
      BY <1>9, <3>1 DEF grown
    <3>. QED
      BY <3>1, <3>2
  <2>3. Nat \subseteq M
    <3> HIDE DEF M
    <3>. QED
      BY <2>1, <2>2, Induction
  <2>. QED
    BY <2>3
<1>10. \A n \in Nat : ball[n + 1] = ball[n] \/ Cardinality(ball[n]) >= n + 1
  <2> DEFINE M == {n \in Nat : ball[n + 1] = ball[n] \/ Cardinality(ball[n]) >= n + 1}
  <2>0. \A n \in Nat : IsFiniteSet(ball[n]) /\ Cardinality(ball[n]) \in Nat /\ Cardinality(ball[n]) <= Len(N)
    BY <1>1, <1>8, FS_Subset, FS_CardinalityType
  <2>1. 0 \in M
    <3>1. Cardinality(ball[0]) = 1
      BY <1>7, FS_Singleton
    <3>. QED
      BY <3>1
  <2>2. ASSUME NEW n \in Nat, n \in M
        PROVE  n + 1 \in M
    <3>1. n + 1 \in Nat /\ ball[n + 1] = grown(ball[n]) /\ ball[(n + 1) + 1] = grown(ball[n + 1])
      <4>1. n + 1 \in Nat
        OBVIOUS
      <4> HIDE DEF grown
      <4>. QED
        BY <1>7, <4>1
    <3>2. CASE ball[n + 1] = ball[n]
      BY <3>1, <3>2
    <3>3. CASE ball[n + 1] # ball[n]
      <4>1. Cardinality(ball[n]) >= n + 1
        BY <2>2, <3>3
      <4>2. ball[n] \subseteq ball[n + 1]
        BY <3>1 DEF grown
      <4>3. Cardinality(ball[n]) <= Cardinality(ball[n + 1]) /\ Cardinality(ball[n]) # Cardinality(ball[n + 1])
        BY <2>0, <3>1, <3>3, <4>2, FS_Subset
      <4>4. Cardinality(ball[n + 1]) >= (n + 1) + 1
        BY <2>0, <3>1, <4>1, <4>3
      <4>. QED
        BY <3>1, <4>4
    <3>. QED
      BY <3>2, <3>3
  <2>3. Nat \subseteq M
    <3> HIDE DEF M
    <3>. QED
      BY <2>1, <2>2, Induction
  <2>. QED
    BY <2>3
<1>11. ball[Len(N) + 1] = ball[Len(N)]
  <2>1. Cardinality(ball[Len(N)]) \in Nat /\ Cardinality(ball[Len(N)]) <= Len(N)
    BY <1>1, <1>8, FS_Subset, FS_CardinalityType
  <2>. QED
    BY <1>1, <1>10, <2>1
<1>12. \A j \in ball[Len(N)] : AdjacentIn(N, E, j) \subseteq ball[Len(N)]
  <2>1. grown(ball[Len(N)]) = ball[Len(N)]
    BY <1>1, <1>7, <1>11
  <2>. QED
    BY <2>1 DEF grown
<1>. QED
  BY <1>1, <1>6, <1>8, <1>9, <1>12

(* The labels of the forest are those of the components, once all edges are in. *)
LEMMA LabelsRight ==
  ASSUME RoadmapInv, Merged, united = Len(edges)
  PROVE  \A i \in DOMAIN nodes :
           /\ {j \in DOMAIN nodes : Labels(parent)[j] = Labels(parent)[i]} = Connected(i)
           /\ Labels(parent)[i] > 0 =>
                \E k \in 1 .. i - 1 : Labels(parent)[k] = Labels(parent)[i] - 1 \/ Labels(parent)[k] = Labels(parent)[i]
<1> DEFINE n == Len(nodes)
           L == Labels(parent)
<1>1. /\ nodes \in Seq(Cfg) /\ n \in Nat /\ DOMAIN nodes = 1 .. n
      /\ edges \in Seq(Pairs) /\ DOMAIN edges = 1 .. united
  BY DEF RoadmapInv
<1>2. /\ Forest(parent, n)
      /\ \A C : (\A k \in 1 .. united : edges[k][1] \in C <=> edges[k][2] \in C) => Keeps(parent, n, C)
  BY DEF Merged
<1>3. PICK rt : Roots(parent, n, rt) /\ \A k \in 1 .. united : rt[edges[k][1]] = rt[edges[k][2]]
  BY DEF Merged
<1>4. /\ \A i, j \in 1 .. n : L[i] = L[j] <=> rt[i] = rt[j]
      /\ \A i \in 1 .. n : L[i] > 0 => \E k \in 1 .. i - 1 : L[k] = L[i] - 1 \/ L[k] = L[i]
  <2> HIDE DEF n
  <2>1. /\ \A i, j \in 1 .. n : Labels(parent)[i] = Labels(parent)[j] <=> rt[i] = rt[j]
        /\ \A i \in 1 .. n : Labels(parent)[i] > 0 =>
             \E k \in 1 .. i - 1 : Labels(parent)[k] = Labels(parent)[i] - 1 \/ Labels(parent)[k] = Labels(parent)[i]
    <3>1. n \in Nat /\ Forest(parent, n) /\ Roots(parent, n, rt)
      BY <1>1, <1>2, <1>3
    <3>. QED
      BY ONLY <3>1, LabelsOfRoots
  <2>. QED
    BY <2>1
<1>5. \A k \in 1 .. united : /\ edges[k] = <<edges[k][1], edges[k][2]>>
                             /\ edges[k][1] \in DOMAIN nodes /\ edges[k][2] \in DOMAIN nodes
                             /\ edges[k][1] \in Adjacent(edges[k][2]) /\ edges[k][2] \in Adjacent(edges[k][1])
  <2> TAKE k \in 1 .. united
  <2>1. edges[k] \in Pairs
    BY <1>1
  <2>2. edges[k] = <<edges[k][1], edges[k][2]>> /\ edges[k][1] \in DOMAIN nodes /\ edges[k][2] \in DOMAIN nodes
    BY <2>1 DEF Pairs
  <2>. QED
    BY <1>1, <2>2 DEF Adjacent
<1> HIDE DEF L
<1>6. ASSUME NEW i \in DOMAIN nodes
      PROVE  {j \in DOMAIN nodes : L[j] = L[i]} = Connected(i)
  <2> DEFINE C == Connected(i)
             Same == {j \in DOMAIN nodes : L[j] = L[i]}
  <2>1. /\ i \in C /\ C \subseteq DOMAIN nodes
        /\ \A j \in C : Adjacent(j) \subseteq C
        /\ \A S : i \in S /\ (\A j \in S : Adjacent(j) \subseteq S) => C \subseteq S
    BY <1>1, ConnectedSame, ConnectedFacts
  <2>2. \A j \in Same : Adjacent(j) \subseteq Same
    <3> SUFFICES ASSUME NEW j \in Same, NEW x \in Adjacent(j)
                 PROVE  x \in Same
      OBVIOUS
    <3>1. PICK k \in 1 .. united : edges[k] = <<j, x>> \/ edges[k] = <<x, j>>
      BY <1>1 DEF Adjacent
    <3>2. rt[j] = rt[x] /\ x \in DOMAIN nodes
      <4>1. rt[edges[k][1]] = rt[edges[k][2]]
        BY <1>3
      <4>. QED
        BY <3>1, <4>1 DEF Adjacent
    <3>3. L[x] = L[j] /\ L[j] = L[i]
      BY <1>1, <1>4, <3>2
    <3>. QED
      BY <3>2, <3>3
  <2>3. C \subseteq Same
    <3>1. i \in Same
      OBVIOUS
    <3> HIDE DEF Same
    <3>. QED
      BY <2>1, <2>2, <3>1
  <2> HIDE DEF C
  <2>4. Keeps(parent, n, C)
    <3>1. \A k \in 1 .. united : edges[k][1] \in C <=> edges[k][2] \in C
      BY <1>5, <2>1
    <3>. QED
      BY <1>2, <3>1
  <2>5. \A x \in 1 .. n : x \in C <=> rt[x] \in C
    <3> HIDE DEF n
    <3>. QED
      BY ONLY <1>1, <1>2, <1>3, <2>4, RootFacts
  <2>6. Same \subseteq C
    <3> SUFFICES ASSUME NEW j \in Same
                 PROVE  j \in C
      OBVIOUS
    <3>1. rt[j] = rt[i]
      BY <1>1, <1>4
    <3>. QED
      BY <1>1, <2>1, <2>5, <3>1
  <2>. QED
    BY <2>3, <2>6 DEF C
<1>. QED
  BY <1>1, <1>4, <1>6 DEF L

-------------------------------------------------------------------------------
(* The construction keeps its invariant *)

(* The construction starts with the invariant. *)
LEMMA RoadmapStarts ==
  ASSUME InitRoadmap
  PROVE  RoadmapInv
<1>1. hits \subseteq Cfg /\ mid \subseteq SUBSET Cfg
  <2>1. \A e \in MayBlock : e \in SUBSET Cfg
    BY RoadmapAssumption
  <2>. QED
    BY <2>1, RoadmapAssumption DEF InitRoadmap
<1>2. nodes = <<>> /\ cand = <<>> /\ edges = <<>> /\ parent = <<>> /\ turn = 1 /\ united = 0 /\ stage = "sample"
  BY DEF InitRoadmap
<1>3. nodes \in Seq(Cfg \ hits) /\ cand \in Seq(Pairs) /\ edges \in Seq(Pairs) /\ Len(nodes) = 0 /\ Len(edges) = 0
      /\ DOMAIN edges = {}
  BY <1>2
<1>4. ComponentsRight
  BY <1>2 DEF ComponentsRight
<1>. QED
  BY <1>1, <1>2, <1>3, <1>4 DEF RoadmapInv

(* The samples kept are free, and the forest of lone nodes joins nothing. *)
LEMMA SampleStep ==
  ASSUME RoadmapInv, SampleNodes
  PROVE  RoadmapInv'
<1>1. PICK s \in Samples : nodes' = Kept(s, {i \in DOMAIN s : FreeCfg(s[i])})
  BY DEF SampleNodes
<1>2. /\ stage = "sample" /\ nodes = <<>> /\ turn = 1 /\ edges = <<>> /\ united = 0 /\ cand \in Seq(Pairs)
      /\ hits \subseteq Cfg /\ mid \subseteq SUBSET Cfg
  BY DEF RoadmapInv, SampleNodes
<1>3. /\ hits' = hits /\ mid' = mid /\ turn' = turn /\ cand' = cand /\ edges' = edges /\ united' = united
      /\ stage' \in {"propose", "unite"} /\ parent' = [i \in DOMAIN nodes' |-> i]
  BY DEF SampleNodes, scene
<1>4. nodes' \in Seq(Cfg \ hits)
  <2> DEFINE K == {i \in DOMAIN s : FreeCfg(s[i])}
  <2>1. s \in Seq(Cfg) /\ Len(s) \in Nat /\ DOMAIN s = 1 .. Len(s)
    BY RoadmapAssumption
  <2>2. IsFiniteSet(K)
    <3>1. IsFiniteSet(1 .. Len(s))
      BY <2>1, FS_Interval
    <3>. QED
      BY <2>1, <3>1, FS_Subset
  <2>3. K \in SUBSET Nat /\ \A i \in K : s[i] \in Cfg \ hits
    BY <2>1 DEF FreeCfg
  <2> HIDE DEF K
  <2>4. Kept(s, K) \in Seq(Cfg \ hits)
    BY ONLY <2>2, <2>3, KeptType
  <2>. QED
    BY <1>1, <2>4 DEF K
<1>5. cand = <<>>
  BY DEF RoadmapInv, SampleNodes
<1>6. Merged'
  <2> DEFINE n == Len(nodes')
  <2>1. n \in Nat /\ DOMAIN nodes' = 1 .. n
    BY <1>4
  <2>2. parent' = [i \in 1 .. n |-> i] /\ united' = 0
    BY <1>2, <1>3, <2>1
  <2> HIDE DEF n
  <2>3. Forest(parent', n) /\ Roots(parent', n, parent') /\ \A C : Keeps(parent', n, C)
    BY <2>1, <2>2 DEF Forest, Roots, Keeps
  <2>4. \A k : k \notin 1 .. united'
    BY <2>2
  <2>. QED
    BY <2>3, <2>4 DEF Merged, n
<1>7. turn' \in 1 .. Len(nodes') + 1
  BY <1>2, <1>3, <1>4
<1>8. cand' \in Seq(Pairs') /\ edges' \in Seq(Pairs') /\ united' \in 0 .. Len(edges') /\ DOMAIN edges' = {}
  BY <1>2, <1>3, <1>5
<1>9. ComponentsRight'
  BY <1>3 DEF ComponentsRight
<1>. QED
  BY <1>2, <1>3, <1>4, <1>6, <1>7, <1>8, <1>9 DEF RoadmapInv

(* The pairs a node proposes are pairs of nodes, lesser first. *)
LEMMA ProposeStep ==
  ASSUME RoadmapInv, ProposeEdges
  PROVE  RoadmapInv'
<1>1. /\ hits' = hits /\ mid' = mid /\ nodes' = nodes /\ stage' = stage /\ edges' = edges
      /\ united' = united /\ parent' = parent /\ turn' = turn + 1 /\ stage = "propose" /\ turn \in DOMAIN nodes
  BY DEF ProposeEdges, scene
<1>2. /\ hits \subseteq Cfg /\ mid \subseteq SUBSET Cfg
      /\ nodes \in Seq(Cfg \ hits) /\ nodes \in Seq(Cfg) /\ cand \in Seq(Pairs) /\ edges \in Seq(Pairs) /\ united = 0 /\ edges = <<>> /\ Merged
  BY <1>1 DEF RoadmapInv
<1>3. Pairs' = Pairs
  BY <1>1 DEF Pairs
<1>4. PICK near \in KNearest(nodes[turn], turn) : cand' = cand \o NewPairs(turn, near)
  BY DEF ProposeEdges
<1>5. near \in SUBSET (DOMAIN nodes \ {turn})
  BY DEF KNearest, KFirst, InRadius, Others
<1>6. NewPairs(turn, near) \in Seq(Pairs)
  <2> DEFINE pair(j) == <<Lesser(turn, j), Greater(turn, j)>>
             new == {j \in near : \A k \in DOMAIN cand : cand[k] # pair(j)}
  <2>1. \A j \in near : pair(j) \in Pairs
    <3>1. DOMAIN nodes = 1 .. Len(nodes) /\ Len(nodes) \in Nat
      BY <1>2
    <3>. QED
      BY <1>1, <1>5, <3>1 DEF Pairs, Lesser, Greater
  <2>2. new \in SUBSET DOMAIN nodes /\ new \subseteq near
    BY <1>5
  <2>3. nodes[turn] \in Cfg
    BY <1>1, <1>2
  <2>4. Cardinality(new) \in Nat
    <3>1. IsFiniteSet(1 .. Len(nodes)) /\ DOMAIN nodes = 1 .. Len(nodes)
      BY <1>2, FS_Interval
    <3>. QED
      BY <2>2, <3>1, FS_Subset, FS_CardinalityType
  <2>5. NewPairs(turn, near) = [r \in 1 .. Cardinality(new) |-> pair(Nth(nodes[turn], new, r))]
    BY DEF NewPairs
  <2> HIDE DEF new, pair
  <2>6. \A r \in 1 .. Cardinality(new) : Nth(nodes[turn], new, r) \in new
    BY <1>2, <2>2, <2>3, NthType
  <2>7. \A r \in 1 .. Cardinality(new) : pair(Nth(nodes[turn], new, r)) \in Pairs
    BY <2>1, <2>2, <2>6
  <2>. QED
    BY <2>4, <2>5, <2>7
<1>7. cand' \in Seq(Pairs)
  BY <1>2, <1>4, <1>6
<1>8. Merged'
  BY <1>1, <1>2 DEF Merged
<1>9. ComponentsRight'
  BY <1>1 DEF ComponentsRight
<1>10. turn' \in 1 .. Len(nodes') + 1
  BY <1>1, <1>2
<1>11. DOMAIN edges' = {} /\ Len(edges') = 0
  BY <1>1, <1>2
<1>. QED
  BY <1>1, <1>2, <1>3, <1>7, <1>8, <1>9, <1>10, <1>11 DEF RoadmapInv

(* The edges kept are the free ones of the candidates. *)
LEMMA ValidateStep ==
  ASSUME RoadmapInv, ValidateEdges
  PROVE  RoadmapInv'
<1>1. /\ hits' = hits /\ mid' = mid /\ nodes' = nodes /\ stage' = "unite" /\ stage = "propose" /\ turn' = turn
      /\ united' = united /\ parent' = parent /\ cand' = <<>>
      /\ edges' = Kept(cand, {k \in DOMAIN cand : FreeSegment(nodes[cand[k][1]], nodes[cand[k][2]])})
  BY DEF ValidateEdges, scene
<1>2. /\ hits \subseteq Cfg /\ mid \subseteq SUBSET Cfg /\ turn \in 1 .. Len(nodes) + 1
      /\ nodes \in Seq(Cfg \ hits) /\ cand \in Seq(Pairs) /\ united = 0 /\ Merged
  BY <1>1 DEF RoadmapInv
<1>3. Pairs' = Pairs
  BY <1>1 DEF Pairs
<1> DEFINE K == {k \in DOMAIN cand : FreeSegment(nodes[cand[k][1]], nodes[cand[k][2]])}
           T == {e \in Pairs : FreeSegment(nodes[e[1]], nodes[e[2]])}
<1>4. edges' \in Seq(T)
  <2>1. Len(cand) \in Nat /\ DOMAIN cand = 1 .. Len(cand)
    BY <1>2
  <2>2. IsFiniteSet(K)
    <3>1. IsFiniteSet(1 .. Len(cand))
      BY <2>1, FS_Interval
    <3>. QED
      BY <2>1, <3>1, FS_Subset
  <2>3. K \in SUBSET Nat /\ \A i \in K : cand[i] \in T
    BY <1>2, <2>1
  <2> HIDE DEF K, T
  <2>4. Kept(cand, K) \in Seq(T)
    BY ONLY <2>2, <2>3, KeptType
  <2>. QED
    BY <1>1, <2>4 DEF K
<1>5. edges' \in Seq(Pairs) /\ Len(edges') \in Nat /\ \A k \in DOMAIN edges' : edges'[k] \in T
  <2>1. T \in SUBSET Pairs
    OBVIOUS
  <2> HIDE DEF T
  <2>. QED
    BY <1>4, <2>1
<1>6. \A k \in DOMAIN edges' : FreeSegment(nodes[edges'[k][1]], nodes[edges'[k][2]])
  BY <1>5
<1>7. \A p, q : FreeSegment(p, q)' <=> FreeSegment(p, q)
  BY <1>1 DEF FreeSegment, FreeCfg
<1>8. Merged'
  <2>1. \A k : k \notin 1 .. united
    BY <1>2
  <2>. QED
    BY <1>1, <1>2, <2>1 DEF Merged
<1>9. ComponentsRight'
  BY <1>1 DEF ComponentsRight
<1>10. cand' \in Seq(Pairs) /\ united' \in 0 .. Len(edges')
  BY <1>1, <1>2, <1>5
<1>11. \A k \in DOMAIN edges' : FreeSegment(nodes[edges[k][1]], nodes[edges[k][2]])'
  BY <1>1, <1>6 DEF FreeSegment, FreeCfg
<1>. QED
  BY <1>1, <1>2, <1>3, <1>5, <1>8, <1>9, <1>10, <1>11 DEF RoadmapInv

(* Taking in an edge joins the trees of its two ends and no others. *)
LEMMA UniteStep ==
  ASSUME RoadmapInv, UniteEdge
  PROVE  RoadmapInv'
<1> DEFINE n == Len(nodes)
           a == edges[united + 1][1]
           b == edges[united + 1][2]
<1>1. /\ hits' = hits /\ mid' = mid /\ nodes' = nodes /\ stage' = stage /\ stage = "unite" /\ turn' = turn
      /\ cand' = cand /\ edges' = edges /\ united < Len(edges) /\ united' = united + 1
      /\ parent' = Link(parent, a, b)
  BY DEF UniteEdge, scene
<1>2. /\ hits \subseteq Cfg /\ mid \subseteq SUBSET Cfg /\ turn \in 1 .. Len(nodes) + 1
      /\ nodes \in Seq(Cfg \ hits) /\ cand \in Seq(Pairs) /\ edges \in Seq(Pairs) /\ united \in 0 .. Len(edges)
      /\ Merged /\ \A k \in DOMAIN edges : FreeSegment(nodes[edges[k][1]], nodes[edges[k][2]])
  BY <1>1 DEF RoadmapInv
<1>3. Pairs' = Pairs
  BY <1>1 DEF Pairs
<1>4. n \in Nat /\ a \in 1 .. n /\ b \in 1 .. n /\ united' \in 0 .. Len(edges) /\ united + 1 \in 1 .. united + 1
  <2>1. united + 1 \in DOMAIN edges /\ united' \in 0 .. Len(edges) /\ united + 1 \in 1 .. united + 1
    BY <1>1, <1>2
  <2>2. edges[united + 1] \in Pairs /\ DOMAIN nodes = 1 .. n /\ n \in Nat
    BY <1>2, <2>1
  <2>. QED
    BY <2>1, <2>2 DEF Pairs
<1>5. /\ Forest(parent, n)
      /\ \A C : (\A k \in 1 .. united : edges[k][1] \in C <=> edges[k][2] \in C) => Keeps(parent, n, C)
  BY <1>2 DEF Merged
<1>6. PICK rt : Roots(parent, n, rt) /\ \A k \in 1 .. united : rt[edges[k][1]] = rt[edges[k][2]]
  BY <1>2 DEF Merged
<1>7. /\ Forest(Link(parent, a, b), n)
      /\ \E r2 : /\ Roots(Link(parent, a, b), n, r2) /\ r2[a] = r2[b]
                 /\ \A i, j \in 1 .. n : rt[i] = rt[j] => r2[i] = r2[j]
      /\ \A C : Keeps(parent, n, C) /\ (a \in C <=> b \in C) => Keeps(Link(parent, a, b), n, C)
  <2>1. n \in Nat /\ a \in 1 .. n /\ b \in 1 .. n /\ Forest(parent, n) /\ Roots(parent, n, rt)
    BY <1>4, <1>5, <1>6
  <2> HIDE DEF n, a, b
  <2>. QED
    BY ONLY <2>1, LinkJoins
<1>8. PICK r2 : /\ Roots(Link(parent, a, b), n, r2) /\ r2[a] = r2[b]
                /\ \A i, j \in 1 .. n : rt[i] = rt[j] => r2[i] = r2[j]
  BY <1>7
<1>9. \A k \in 1 .. united : k \in 1 .. united' /\ edges[k][1] \in 1 .. n /\ edges[k][2] \in 1 .. n
  <2>1. \A k \in 1 .. united : k \in 1 .. united' /\ edges[k] \in Pairs
    BY <1>1, <1>2
  <2>2. DOMAIN nodes = 1 .. n
    BY <1>2
  <2>. QED
    BY <2>1, <2>2 DEF Pairs
<1>10. \A k \in 1 .. united' : k \in 1 .. united \/ k = united + 1
  BY <1>1, <1>2
<1> HIDE DEF n
<1>11. \A k \in 1 .. united' : r2[edges[k][1]] = r2[edges[k][2]]
  BY <1>6, <1>8, <1>9, <1>10
<1>12. ASSUME NEW C, \A k \in 1 .. united' : edges[k][1] \in C <=> edges[k][2] \in C
       PROVE  Keeps(Link(parent, a, b), n, C)
  <2>1. a \in C <=> b \in C
    BY <1>1, <1>4, <1>12
  <2>2. Keeps(parent, n, C)
    BY <1>5, <1>9, <1>12
  <2>. QED
    BY <1>7, <2>1, <2>2
<1>13. Merged'
  <2>1. n' = n
    BY <1>1 DEF n
  <2>2. Forest(parent', n) /\ Roots(parent', n, r2) /\ \A k \in 1 .. united' : r2[edges'[k][1]] = r2[edges'[k][2]]
    BY <1>1, <1>7, <1>8, <1>11
  <2>3. \A C : (\A k \in 1 .. united' : edges'[k][1] \in C <=> edges'[k][2] \in C) => Keeps(parent', n, C)
    BY <1>1, <1>12
  <2>. QED
    BY <2>1, <2>2, <2>3 DEF Merged, n
<1>14. ComponentsRight'
  BY <1>1 DEF ComponentsRight
<1>15. \A k \in DOMAIN edges' : FreeSegment(nodes[edges[k][1]], nodes[edges[k][2]])'
  BY <1>1, <1>2 DEF FreeSegment, FreeCfg
<1>. QED
  BY <1>1, <1>2, <1>3, <1>4, <1>13, <1>14, <1>15 DEF RoadmapInv

(* With every edge taken in, the trees are the components. *)
LEMMA LabelStep ==
  ASSUME RoadmapInv, LabelComponents
  PROVE  RoadmapInv'
<1>1. /\ hits' = hits /\ mid' = mid /\ nodes' = nodes /\ stage' = "ready" /\ stage = "unite" /\ turn' = turn
      /\ cand' = cand /\ edges' = edges /\ united' = united /\ united = Len(edges) /\ parent' = <<>>
      /\ comp' = Labels(parent)
  BY DEF LabelComponents, scene
<1>2. Pairs' = Pairs
  BY <1>1 DEF Pairs
<1>3. \A i : Connected(i)' = Connected(i)
  <2>1. \A i : Connected(i) = ConnectedIn(nodes, edges, i)
    BY ConnectedSame
  <2>2. \A i : Connected(i)' = ConnectedIn(nodes', edges', i)
    BY DEF Connected, Adjacent, ConnectedIn, AdjacentIn
  <2>. QED
    BY <1>1, <2>1, <2>2
<1>4. ComponentsRight'
  <2>1. \A i \in DOMAIN nodes :
           /\ {j \in DOMAIN nodes : comp'[j] = comp'[i]} = Connected(i)
           /\ comp'[i] > 0 => \E k \in 1 .. i - 1 : comp'[k] = comp'[i] - 1 \/ comp'[k] = comp'[i]
    <3>1. Merged
      BY <1>1 DEF RoadmapInv
    <3>. QED
      BY <1>1, <3>1, LabelsRight
  <2>. QED
    BY <1>1, <1>3, <2>1 DEF ComponentsRight
<1>5. \A k \in DOMAIN edges' : FreeSegment(nodes[edges[k][1]], nodes[edges[k][2]])'
  BY <1>1 DEF FreeSegment, FreeCfg, RoadmapInv
<1>. QED
  BY <1>1, <1>2, <1>4, <1>5 DEF RoadmapInv

(* What plan() does leaves the roadmap alone. *)
LEMMA RoadmapKept ==
  ASSUME RoadmapInv, UNCHANGED <<scene, roadmap>>
  PROVE  RoadmapInv'
<1>1. /\ hits' = hits /\ mid' = mid /\ nodes' = nodes /\ stage' = stage /\ turn' = turn
      /\ cand' = cand /\ edges' = edges /\ united' = united /\ parent' = parent /\ comp' = comp
  BY DEF scene, roadmap
<1>2. Pairs' = Pairs /\ (Merged' <=> Merged)
  BY <1>1 DEF Pairs, Merged
<1>3. \A i : Connected(i)' = Connected(i)
  <2>1. \A i : Connected(i) = ConnectedIn(nodes, edges, i)
    BY ConnectedSame
  <2>2. \A i : Connected(i)' = ConnectedIn(nodes', edges', i)
    BY DEF Connected, Adjacent, ConnectedIn, AdjacentIn
  <2>. QED
    BY <1>1, <2>1, <2>2
<1>4. ComponentsRight'
  BY <1>1, <1>3 DEF ComponentsRight, RoadmapInv
<1>5. \A k \in DOMAIN edges' : FreeSegment(nodes[edges[k][1]], nodes[edges[k][2]])'
  BY <1>1 DEF FreeSegment, FreeCfg, RoadmapInv
<1>. QED
  BY <1>1, <1>2, <1>4, <1>5 DEF RoadmapInv

-------------------------------------------------------------------------------
(* The query keeps its invariant *)

(* The joined graph depends on nodes, edges, goals and connections alone. *)
LEMMA GraphKept ==
  ASSUME UNCHANGED <<nodes, edges, goals, extra>>
  PROVE  /\ Graph' = Graph /\ StartIdx' = StartIdx /\ GoalIdx' = GoalIdx /\ Vertices' = Vertices
         /\ \A v : ConfigAt(v)' = ConfigAt(v)
<1>1. StartIdx' = StartIdx /\ GoalIdx' = GoalIdx /\ Vertices' = Vertices
  BY DEF StartIdx, GoalIdx, Vertices
<1>2. \A v : ConfigAt(v)' = ConfigAt(v)
  BY <1>1 DEF ConfigAt
<1>3. \A u, v : Weight(u, v)' = Weight(u, v)
  BY <1>2 DEF Weight
<1>4. \A v : Heuristic(v)' = Heuristic(v)
  <2> TAKE v
  <2>1. {Weight(v, t) : t \in GoalIdx}' = {Weight(v, t) : t \in GoalIdx}
    BY <1>1, <1>3
  <2> DEFINE S == {Weight(v, t) : t \in GoalIdx}
  <2>2. Heuristic(v) = Least(S) /\ Heuristic(v)' = Least(S')
    BY DEF Heuristic, Least
  <2> HIDE DEF S
  <2>3. S' = S
    BY <2>1 DEF S
  <2>. QED
    BY <2>2, <2>3
<1>5. \A v : Adjacent(v)' = Adjacent(v)
  BY DEF Adjacent
<1>6. \A v : Neighbors(v)' = Neighbors(v)
  BY <1>1, <1>5 DEF Neighbors
<1>7. Graph' = Graph
  BY <1>1, <1>2, <1>3, <1>4, <1>6 DEF Graph
<1>. QED
  BY <1>1, <1>2, <1>7

(* What is known of the connections stays known while they do not change. *)
LEMMA JoinedKept ==
  ASSUME JoinedInv, UNCHANGED <<scene, roadmap, wanted, goals, joined, extra>>
  PROVE  JoinedInv'
<1>1. hits' = hits /\ mid' = mid /\ nodes' = nodes /\ edges' = edges
  BY DEF scene, roadmap
<1>2. Vertices' = Vertices /\ \A v : ConfigAt(v)' = ConfigAt(v)
  BY <1>1, GraphKept
<1>3. \A p, q : FreeSegment(p, q)' <=> FreeSegment(p, q)
  BY <1>1 DEF FreeSegment, FreeCfg
<1>4. \A e : FreeSegment(ConfigAt(e[1]), ConfigAt(e[2]))' <=> FreeSegment(ConfigAt(e[1]), ConfigAt(e[2]))
  BY <1>1, <1>2 DEF FreeSegment, FreeCfg
<1>. QED
  BY <1>1, <1>2, <1>4 DEF JoinedInv

(* What is known of the search stays known while the search does not change. *)
LEMMA SearchedKept ==
  ASSUME Searched, UNCHANGED <<scene, roadmap, search>>
  PROVE  Searched'
<1>1. /\ hits' = hits /\ nodes' = nodes /\ edges' = edges /\ goals' = goals /\ extra' = extra
      /\ g_cost' = g_cost /\ came_from' = came_from /\ open' = open
  BY DEF scene, roadmap, search
<1>2. Graph' = Graph
  BY <1>1, GraphKept
<1>. QED
  BY <1>1, <1>2 DEF Searched, FreeCfg

\* A path that begins at the start and ends at a goal on top of the heap.
EndsRight(p) ==
  /\ p[1] = Start
  /\ \E t \in open : IsTop(t) /\ ~ Stale(t) /\ t[3] \in GoalIdx /\ ConfigAt(t[3]) = p[Len(p)]

(* A free path to the goal on top of the heap stays one while the search does not change. *)
LEMMA PathKept ==
  ASSUME NEW p \in Seq(Cfg), Len(p) >= 2, EndsRight(p), \A i \in 1 .. Len(p) - 1 : FreeSegment(p[i], p[i + 1]),
         path' = p, UNCHANGED <<scene, roadmap, search>>
  PROVE  PathInv'
<1>1. /\ hits' = hits /\ mid' = mid /\ nodes' = nodes /\ edges' = edges /\ goals' = goals /\ extra' = extra
      /\ g_cost' = g_cost /\ open' = open
  BY DEF scene, roadmap, search
<1>2. GoalIdx' = GoalIdx /\ \A v : ConfigAt(v)' = ConfigAt(v)
  BY <1>1, GraphKept
<1>3. PICK t \in open : IsTop(t) /\ ~ Stale(t) /\ t[3] \in GoalIdx /\ ConfigAt(t[3]) = p[Len(p)]
  BY DEF EndsRight
<1>4. t \in open' /\ IsTop(t)' /\ ~ Stale(t)' /\ t[3] \in GoalIdx' /\ ConfigAt(t[3])' = path'[Len(path')]
  BY <1>1, <1>2, <1>3 DEF IsTop, Stale
<1>5. \A i \in 1 .. Len(path') - 1 : FreeSegment(path[i], path[i + 1])'
  BY <1>1 DEF FreeSegment, FreeCfg
<1>6. path' \in Seq(Cfg) /\ Len(path') >= 2 /\ path'[1] = Start
  BY DEF EndsRight
<1>. QED
  BY <1>4, <1>5, <1>6 DEF PathInv

(* Before the call there are no goals, no connections and no search. *)
LEMMA QueryStarts ==
  ASSUME Init
  PROVE  QueryInv /\ SearchInv
<1>1. /\ wanted \in GoalLists /\ pc = "idle" /\ goals = <<>> /\ joined = 0 /\ extra = {} /\ g_cost = <<>>
      /\ came_from = <<>> /\ open = {} /\ path = <<>> /\ why = "none" /\ status = "none" /\ stage = "sample"
  BY DEF Init, InitRoadmap
<1>2. goals \in Seq(Cfg \ hits) /\ DOMAIN goals = {} /\ Len(goals) = 0
  BY <1>1
<1>3. JoinedInv
  BY <1>1, <1>2 DEF JoinedInv
<1>4. PhaseInv
  BY <1>1 DEF PhaseInv
<1>5. SearchInv
  BY <1>1 DEF SearchInv, NoSearch
<1>. QED
  BY <1>3, <1>4, <1>5 DEF QueryInv

(* The construction leaves the query where it starts. *)
LEMMA ConstructStep ==
  ASSUME Inv, Construct
  PROVE  QueryInv' /\ SearchInv'
<1>1. /\ pc = "idle" /\ pc' = (IF stage' = "ready" THEN "validate" ELSE "idle")
      /\ wanted' = wanted /\ goals' = goals /\ joined' = joined /\ extra' = extra /\ g_cost' = g_cost
      /\ came_from' = came_from /\ open' = open /\ path' = path /\ why' = why /\ status' = status
  BY DEF Construct, search
<1>2. /\ wanted \in GoalLists /\ goals = <<>> /\ joined = 0 /\ extra = {} /\ path = <<>> /\ why = "none"
      /\ status = "none" /\ NoSearch
  BY <1>1 DEF Inv, QueryInv, JoinedInv, PhaseInv, SearchInv
<1>3. goals' \in Seq((Cfg \ hits)') /\ DOMAIN goals' = {} /\ Len(goals') = 0
  BY <1>1, <1>2
<1>4. JoinedInv'
  BY <1>1, <1>2, <1>3 DEF JoinedInv
<1>5. PhaseInv'
  BY <1>1, <1>2 DEF PhaseInv
<1>6. SearchInv'
  BY <1>1, <1>2 DEF SearchInv, NoSearch
<1>. QED
  BY <1>4, <1>5, <1>6 DEF QueryInv

(* A call that fails early has searched nothing. *)
LEMMA FailStep ==
  ASSUME Inv, Reject \/ Infeasible
  PROVE  QueryInv' /\ SearchInv'
<1>1. /\ pc = "validate" /\ pc' = "done" /\ status' \in {"InvalidProblem", "NoSolution"}
      /\ UNCHANGED <<scene, roadmap, wanted, search, path, why>>
  BY DEF Reject, Infeasible, Fail, Finish
<1>2. JoinedInv /\ PhaseInv /\ NoSearch
  BY <1>1 DEF Inv, QueryInv, SearchInv
<1>3. JoinedInv'
  BY <1>1, <1>2, JoinedKept DEF search
<1>4. stage' = stage /\ path' = path /\ path = <<>> /\ why' = "none" /\ stage = "ready"
  BY <1>1, <1>2 DEF PhaseInv, roadmap
<1>5. PhaseInv'
  BY <1>1, <1>4 DEF PhaseInv
<1>6. NoSearch'
  BY <1>1, <1>2 DEF NoSearch, search
<1>7. SearchInv'
  BY <1>1, <1>4, <1>6 DEF SearchInv
<1>. QED
  BY <1>3, <1>5, <1>7 DEF QueryInv

(* The goals kept are free ones among those wanted. *)
LEMMA ProbeStep ==
  ASSUME Inv, Probe
  PROVE  QueryInv' /\ SearchInv'
<1>1. /\ pc = "validate" /\ pc' = "connect" /\ goals' = FreeGoals /\ FreeCfg(Start) /\ FreeGoals # <<>>
      /\ hits' = hits /\ nodes' = nodes /\ stage' = stage
      /\ wanted' = wanted /\ joined' = joined /\ extra' = extra /\ g_cost' = g_cost /\ came_from' = came_from
      /\ open' = open /\ path' = path /\ why' = why /\ status' = status
  BY DEF Probe, Hopeless, scene, roadmap
<1>2. /\ wanted \in GoalLists /\ joined = 0 /\ extra = {} /\ path = <<>> /\ why = "none" /\ status = "none"
      /\ stage = "ready" /\ NoSearch
  BY <1>1 DEF Inv, QueryInv, JoinedInv, PhaseInv, SearchInv
<1> DEFINE T == {x \in Cfg \ hits : \E i \in DOMAIN wanted : x = wanted[i]}
           K == {i \in DOMAIN wanted : FreeCfg(wanted[i])}
<1>3. goals' \in Seq(T)
  <2>1. wanted \in Seq(Cfg) /\ Len(wanted) \in Nat /\ DOMAIN wanted = 1 .. Len(wanted)
    BY <1>2, QueryAssumption
  <2>2. IsFiniteSet(K)
    <3>1. IsFiniteSet(1 .. Len(wanted))
      BY <2>1, FS_Interval
    <3>. QED
      BY <2>1, <3>1, FS_Subset
  <2>3. K \in SUBSET Nat /\ \A i \in K : wanted[i] \in T
    BY <2>1 DEF FreeCfg
  <2> HIDE DEF K, T
  <2>4. Kept(wanted, K) \in Seq(T)
    BY ONLY <2>2, <2>3, KeptType
  <2>. QED
    BY <1>1, <2>4 DEF K, FreeGoals
<1>4. goals' \in Seq(Cfg \ hits) /\ Len(goals') \in Nat /\ \A k \in DOMAIN goals' : goals'[k] \in T
  <2>1. T \in SUBSET (Cfg \ hits)
    OBVIOUS
  <2> HIDE DEF T
  <2>. QED
    BY <1>3, <2>1
<1>5. JoinedInv'
  BY <1>1, <1>2, <1>4 DEF JoinedInv
<1>6. PhaseInv'
  BY <1>1, <1>2 DEF PhaseInv, FreeCfg
<1>7. SearchInv'
  BY <1>1, <1>2 DEF SearchInv, NoSearch
<1>. QED
  BY <1>5, <1>6, <1>7 DEF QueryInv

(* A vertex is joined by free segments, each entered at both ends. *)
LEMMA ConnectStep ==
  ASSUME Inv, Connect
  PROVE  QueryInv' /\ SearchInv'
<1> DEFINE v == StartIdx + joined
<1>1. PICK free \in Connections(v) :
        extra' = extra \cup {<<v, u>> : u \in free} \cup {<<u, v>> : u \in free}
  BY DEF Connect
<1>2. /\ pc = "connect" /\ pc' = pc /\ joined <= Len(goals) /\ joined' = joined + 1
      /\ hits' = hits /\ mid' = mid /\ nodes' = nodes /\ stage' = stage
      /\ wanted' = wanted /\ goals' = goals /\ g_cost' = g_cost /\ came_from' = came_from
      /\ open' = open /\ path' = path /\ why' = why /\ status' = status
  BY DEF Connect, scene, roadmap
<1>3. /\ JoinedInv /\ PhaseInv /\ RoadmapInv /\ QueryInv /\ NoSearch /\ path = <<>> /\ why = "none"
  BY <1>2 DEF Inv, QueryInv, PhaseInv, SearchInv
<1>4. StartIdx' = StartIdx /\ GoalIdx' = GoalIdx /\ Vertices' = Vertices /\ \A u : ConfigAt(u)' = ConfigAt(u)
  <2>1. StartIdx' = StartIdx /\ GoalIdx' = GoalIdx /\ Vertices' = Vertices
    BY <1>2 DEF StartIdx, GoalIdx, Vertices
  <2>. QED
    BY <1>2, <2>1 DEF ConfigAt
<1>5. v \in Vertices
  <2>1. joined \in 0 .. Len(goals) /\ StartIdx \in Nat /\ Len(goals) \in Nat
    BY <1>2, <1>3, VertexFacts DEF JoinedInv
  <2>2. StartIdx >= 1
    BY <1>3, VertexFacts DEF Vertices
  <2>. QED
    BY <2>1, <2>2 DEF Vertices
<1> HIDE DEF v
<1>6. \A u \in free : u \in Vertices /\ FreeSegment(ConfigAt(v), ConfigAt(u)) /\ FreeSegment(ConfigAt(u), ConfigAt(v))
  <2>1. PICK near \in KNearest(ConfigAt(v), 0) :
          free = {u \in near \cup (IF v = StartIdx THEN GoalIdx ELSE {}) : FreeSegment(ConfigAt(v), ConfigAt(u))}
    BY DEF Connections
  <2>2. near \subseteq DOMAIN nodes
    BY DEF KNearest, KFirst, InRadius, Others
  <2>3. near \subseteq Vertices /\ GoalIdx \subseteq Vertices
    BY <1>3, <2>2, VertexFacts
  <2>4. \A u \in free : u \in Vertices /\ FreeSegment(ConfigAt(v), ConfigAt(u))
    BY <2>1, <2>3
  <2>5. \A p, q : FreeSegment(p, q) => FreeSegment(q, p)
    <3>1. \A p, q : {p, q} = {q, p}
      OBVIOUS
    <3>. QED
      BY <3>1 DEF FreeSegment
  <2>. QED
    BY <2>4, <2>5
<1>7. extra' \subseteq Vertices \X Vertices
  BY <1>1, <1>3, <1>5, <1>6 DEF JoinedInv
<1>8. ASSUME NEW e \in extra'
      PROVE  <<e[2], e[1]>> \in extra' /\ FreeSegment(ConfigAt(e[1]), ConfigAt(e[2]))
  <2>1. CASE e \in extra
    BY <1>1, <1>3, <2>1 DEF JoinedInv
  <2>2. CASE \E u \in free : e = <<v, u>> \/ e = <<u, v>>
    <3>1. PICK u \in free : e = <<v, u>> \/ e = <<u, v>>
      BY <2>2
    <3>2. <<v, u>> \in extra' /\ <<u, v>> \in extra'
      BY <1>1
    <3>3. CASE e = <<v, u>>
      BY <1>6, <3>2, <3>3
    <3>4. CASE e = <<u, v>>
      BY <1>6, <3>2, <3>4
    <3>. QED
      BY <3>1, <3>3, <3>4
  <2>. QED
    BY <1>1, <2>1, <2>2
<1>9. \A e \in extra' : FreeSegment(ConfigAt(e[1]), ConfigAt(e[2]))'
  BY <1>2, <1>4, <1>8 DEF FreeSegment, FreeCfg
<1>10. joined' \in 0 .. Len(goals) + 1
  BY <1>2, <1>3 DEF JoinedInv
<1>11. JoinedInv'
  BY <1>2, <1>3, <1>4, <1>7, <1>8, <1>9, <1>10 DEF JoinedInv
<1>12. PhaseInv'
  BY <1>2, <1>3 DEF PhaseInv, FreeCfg
<1>13. SearchInv'
  BY <1>2, <1>3 DEF SearchInv, NoSearch
<1>. QED
  BY <1>11, <1>12, <1>13 DEF QueryInv

(* The steps of the search leave the graph alone. *)
LEMMA SearchStep ==
  ASSUME Inv, pc \in {"connect", "search"}, pc' = "search",
         UNCHANGED <<scene, roadmap, wanted, goals, extra, path, why, status>>, joined' = joined,
         SearchOK(Graph, g_cost', came_from', open')
  PROVE  QueryInv' /\ SearchInv'
<1>1. JoinedInv /\ PhaseInv /\ path = <<>> /\ why = "none" /\ FreeCfg(Start) /\ goals # <<>>
  BY DEF Inv, QueryInv, PhaseInv
<1>2. /\ hits' = hits /\ nodes' = nodes /\ edges' = edges /\ stage' = stage
      /\ path' = path /\ why' = why /\ status' = status /\ goals' = goals
  BY DEF scene, roadmap
<1>3. JoinedInv'
  BY <1>1, JoinedKept
<1>4. PhaseInv'
  BY <1>1, <1>2 DEF PhaseInv, FreeCfg
<1>5. Graph' = Graph
  BY <1>2, GraphKept
<1>6. Searched'
  BY <1>1, <1>2, <1>5 DEF Searched, FreeCfg
<1>7. SearchInv'
  BY <1>1, <1>2, <1>6 DEF SearchInv
<1>. QED
  BY <1>3, <1>4, <1>7 DEF QueryInv

(* The search begins with the start alone, at cost 0. *)
LEMMA BeginStep ==
  ASSUME Inv, BeginSearch
  PROVE  QueryInv' /\ SearchInv'
<1>1. /\ pc = "connect" /\ pc' = "search" /\ g_cost' = [v \in {StartIdx} |-> 0] /\ came_from' = came_from
      /\ open' = {<<Heuristic(StartIdx), 0, StartIdx>>} /\ joined' = joined
      /\ UNCHANGED <<scene, roadmap, wanted, goals, extra, path, why, status>>
  BY DEF BeginSearch
<1>2. RoadmapInv /\ QueryInv /\ goals # <<>> /\ came_from = <<>>
  BY <1>1 DEF Inv, QueryInv, PhaseInv, SearchInv, NoSearch
<1>3. GraphOK(Graph)
  BY <1>2, GraphRight
<1>4. Graph.s = StartIdx /\ Graph.h[Graph.s] = Heuristic(StartIdx)
  BY <1>2, GraphFields, VertexFacts
<1>5. g_cost' = [v \in {Graph.s} |-> 0] /\ DOMAIN came_from' = {} /\ open' = {<<Graph.h[Graph.s], 0, Graph.s>>}
  BY <1>1, <1>2, <1>4
<1>6. SearchOK(Graph, g_cost', came_from', open')
  BY ONLY <1>3, <1>5, SearchStarts
<1>. QED
  BY <1>1, <1>6, SearchStep

(* An entry that is out of date may go: the vertex has a better one, or was expanded. *)
LEMMA DropStep ==
  ASSUME Inv, DropStale
  PROVE  QueryInv' /\ SearchInv'
<1>1. PICK t \in open : IsTop(t) /\ Stale(t) /\ open' = open \ {t}
  BY DEF DropStale
<1>2. /\ pc = "search" /\ pc' = "search" /\ g_cost' = g_cost /\ came_from' = came_from /\ joined' = joined
      /\ UNCHANGED <<scene, roadmap, wanted, goals, extra, path, why, status>>
  BY DEF DropStale
<1>3. SearchOK(Graph, g_cost, came_from, open)
  BY <1>2 DEF Inv, SearchInv, Searched
<1>4. t[2] > g_cost[t[3]]
  BY <1>1 DEF Stale
<1>5. SearchOK(Graph, g_cost, came_from, open \ {t})
  BY ONLY <1>3, <1>4, t \in open, StaleDropped
<1>6. SearchOK(Graph, g_cost', came_from', open')
  BY <1>1, <1>2, <1>5
<1>. QED
  BY <1>2, <1>6, SearchStep

(* Expanding the top of the heap, the cheapest there is, is the expansion of the
   joined graph's search. *)
LEMMA ExpandIs ==
  ASSUME Inv, Expand
  PROVE  \E t \in open : \E new :
           /\ DOMAIN new \subseteq Vertices /\ t[3] \in Vertices
           /\ open' = (open \ {t}) \cup Pushed(Graph, new)
           /\ SearchOK(Graph, g_cost', came_from', open')
           /\ Closed(Graph, g_cost', open') = Closed(Graph, g_cost, open) \cup {t[3]}
           /\ t[3] \notin Closed(Graph, g_cost, open)
<1>1. PICK t \in open :
        /\ IsTop(t) /\ ~ Stale(t) /\ t[3] \notin GoalIdx
        /\ \E new \in {Improved(t[3], t[2])} :
             /\ Improve(t[3], new)
             /\ open' = (open \ {t}) \cup {<<new[u] + Heuristic(u), new[u], u>> : u \in DOMAIN new}
  BY DEF Expand
<1> DEFINE new == Improved(t[3], t[2])
<1>2. /\ pc = "search" /\ pc' = "search" /\ joined' = joined
      /\ UNCHANGED <<scene, roadmap, wanted, goals, extra, path, why, status>>
  BY DEF Expand
<1>3. RoadmapInv /\ QueryInv /\ Searched /\ goals # <<>>
  BY <1>2 DEF Inv, SearchInv, Searched
<1>4. GraphOK(Graph) /\ SearchOK(Graph, g_cost, came_from, open)
  BY <1>3, GraphRight DEF Searched
<1>5. /\ t[3] \in DOMAIN g_cost /\ t[3] \in Vertices /\ t[2] \in Nat /\ g_cost[t[3]] \in Nat
  <2>1. t[3] \in DOMAIN g_cost /\ t[2] \in Nat
    BY <1>4 DEF SearchOK, HeapOK
  <2>. QED
    BY <1>4, <2>1, GraphFields DEF SearchOK, CostsOK
<1>6. t[2] <= g_cost[t[3]]
  BY <1>1, <1>5 DEF Stale
<1>7. \A r \in open : t[1] <= r[1]
  <2> TAKE r \in open
  <2>1. t[1] \in Nat /\ r[1] \in Nat
    <3>1. \A e \in open : e[1] \in Nat
      <4> TAKE e \in open
      <4>1. e[3] \in DOMAIN g_cost /\ e[2] \in Nat /\ e = <<e[2] + Graph.h[e[3]], e[2], e[3]>>
        BY <1>4 DEF SearchOK, HeapOK
      <4>2. e[3] \in Graph.v
        BY <1>4, <4>1 DEF SearchOK, CostsOK
      <4>3. Graph.h[e[3]] \in Nat
        BY <1>4, <4>2 DEF GraphOK
      <4>. QED
        BY <4>1, <4>3
    <3>. QED
      BY <3>1
  <2>. QED
    BY <1>1, <2>1 DEF IsTop, LessEq
<1>8. t[3] \notin Graph.t
  BY <1>1, GraphFields
<1>9. new = Gains(Graph, g_cost, t)
  <2> DEFINE x == t[3]
             N == {u \in Neighbors(x) : u \in DOMAIN g_cost => t[2] + Weight(x, u) < g_cost[u]}
             M == {u \in Graph.nb[x] : u \in DOMAIN g_cost => t[2] + Graph.w[x][u] < g_cost[u]}
  <2>1. Graph.nb[x] = Neighbors(x) /\ Graph.w[x] = [v \in Vertices |-> Weight(x, v)]
    BY <1>5, GraphFields
  <2>2. Neighbors(x) \subseteq Vertices
    BY <1>3, <1>5, NeighborsFree
  <2>3. \A u \in Neighbors(x) : Graph.w[x][u] = Weight(x, u)
    BY <2>1, <2>2
  <2> HIDE DEF x
  <2>4. M = N
    BY <2>1, <2>3
  <2>5. [u \in N |-> t[2] + Weight(x, u)] = [u \in M |-> t[2] + Graph.w[x][u]]
    <3>1. \A u \in N : Weight(x, u) = Graph.w[x][u]
      BY <2>3
    <3> HIDE DEF N, M
    <3>. QED
      BY <2>4, <3>1
  <2>. QED
    BY <2>5 DEF Improved, Gains, x
<1>10. \A u \in DOMAIN new : u \in Vertices
  <2>1. Neighbors(t[3]) \subseteq Vertices
    BY <1>3, <1>5, NeighborsFree
  <2>. QED
    BY <2>1 DEF Improved
<1> HIDE DEF new
<1>11. /\ g_cost' = Over(new, g_cost) /\ came_from' = Over([u \in DOMAIN new |-> t[3]], came_from)
       /\ open' = (open \ {t}) \cup {<<new[u] + Heuristic(u), new[u], u>> : u \in DOMAIN new}
  BY <1>1 DEF Improve, new
<1>12. Pushed(Graph, new) = {<<new[u] + Heuristic(u), new[u], u>> : u \in DOMAIN new}
  <2>1. \A u \in DOMAIN new : Graph.h[u] = Heuristic(u)
    BY <1>10, GraphFields
  <2>. QED
    BY <2>1 DEF Pushed
<1>13. /\ SearchOK(Graph, Over(new, g_cost), Over([u \in DOMAIN new |-> t[3]], came_from), (open \ {t}) \cup Pushed(Graph, new))
       /\ Closed(Graph, Over(new, g_cost), (open \ {t}) \cup Pushed(Graph, new)) = Closed(Graph, g_cost, open) \cup {t[3]}
       /\ t[3] \notin Closed(Graph, g_cost, open)
  BY ONLY <1>4, <1>6, <1>7, <1>8, <1>9, t \in open, Expanded
<1>14. open' = (open \ {t}) \cup Pushed(Graph, new)
  BY <1>11, <1>12
<1>15. /\ SearchOK(Graph, g_cost', came_from', open')
       /\ Closed(Graph, g_cost', open') = Closed(Graph, g_cost, open) \cup {t[3]}
  BY <1>11, <1>13, <1>14
<1>16. DOMAIN new \subseteq Vertices
  BY <1>10
<1>. QED
  BY <1>5, <1>13, <1>14, <1>15, <1>16

(* So it keeps the search right. *)
LEMMA ExpandStep ==
  ASSUME Inv, Expand
  PROVE  QueryInv' /\ SearchInv'
<1>1. SearchOK(Graph, g_cost', came_from', open')
  BY ExpandIs
<1>2. /\ pc = "search" /\ pc' = "search" /\ joined' = joined
      /\ UNCHANGED <<scene, roadmap, wanted, goals, extra, path, why, status>>
  BY DEF Expand
<1>. QED
  BY <1>1, <1>2, SearchStep

(* A goal on top of the heap gives the walk on record, a free path to it. *)
LEMMA ReachedStep ==
  ASSUME Inv, Reached
  PROVE  QueryInv' /\ SearchInv'
<1>1. PICK t \in open : IsTop(t) /\ ~ Stale(t) /\ t[3] \in GoalIdx /\ path' = WalkTo(t[3])
  BY DEF Reached
<1>2. /\ pc = "search" /\ UNCHANGED <<scene, roadmap, wanted, search, why>>
      /\ \/ pc' = "smooth" /\ status' = status
         \/ pc' = "done" /\ status' = "Success"
  BY DEF Reached, Finish
<1>3. RoadmapInv /\ QueryInv /\ Searched /\ JoinedInv /\ PhaseInv /\ why = "none" /\ status = "none"
  BY <1>2 DEF Inv, SearchInv, QueryInv, PhaseInv
<1> DEFINE p == WalkTo(t[3])
<1>4. t[3] \in DOMAIN g_cost
  BY <1>3 DEF Searched, SearchOK, HeapOK
<1>5. /\ p \in Seq(Cfg) /\ Len(p) >= 2 /\ p[1] = Start /\ p[Len(p)] = ConfigAt(t[3])
      /\ \A i \in 1 .. Len(p) - 1 : FreeSegment(p[i], p[i + 1])
  BY <1>1, <1>3, <1>4, WalkRight
<1>6. path' = p
  BY <1>1
<1> HIDE DEF p
<1>7. EndsRight(p)
  BY <1>1, <1>5 DEF EndsRight
<1>8. PathInv'
  BY <1>2, <1>5, <1>6, <1>7, PathKept
<1>9. Searched'
  BY <1>2, <1>3, SearchedKept
<1>10. JoinedInv'
  BY <1>2, <1>3, JoinedKept DEF search
<1>11. path' # <<>> /\ why' = "none"
  BY <1>2, <1>3, <1>5, <1>6
<1>12. PhaseInv'
  <2>1. FreeCfg(Start)' /\ goals' # <<>> /\ stage' = stage /\ stage = "ready"
    BY <1>2, <1>3 DEF PhaseInv, FreeCfg, scene, roadmap, search
  <2>. QED
    BY <1>2, <1>3, <1>11, <2>1 DEF PhaseInv
<1>13. SearchInv'
  BY <1>2, <1>8, <1>9, <1>11 DEF SearchInv
<1>. QED
  BY <1>10, <1>12, <1>13 DEF QueryInv

(* What is left when the waypoints between i and j are cut. *)
\* Sequence s without what lies between its elements i and j.
Cut(s, i, j) == SubSeq(s, 1, i) \o SubSeq(s, j, Len(s))

(* A cut keeps the elements up to i and those from j on. *)
LEMMA CutShape ==
  ASSUME NEW s \in Seq(Cfg), NEW i \in 1 .. Len(s), NEW j \in 1 .. Len(s), i < j
  PROVE  /\ Cut(s, i, j) \in Seq(Cfg) /\ Len(Cut(s, i, j)) = i + (Len(s) - j + 1)
         /\ \A k \in 1 .. Len(Cut(s, i, j)) :
               Cut(s, i, j)[k] = IF k <= i THEN s[k] ELSE s[(k - i) + (j - 1)]
<1> DEFINE n == Len(s)
           l == SubSeq(s, 1, i)
           r == SubSeq(s, j, n)
<1>1. n \in Nat /\ i \in Nat /\ j \in Nat /\ i <= n /\ j <= n /\ 1 <= i
  OBVIOUS
<1>2. l \in Seq(Cfg) /\ Len(l) = i /\ \A k \in 1 .. i : l[k] = s[k]
  OBVIOUS
<1>3. r \in Seq(Cfg) /\ Len(r) = n - j + 1 /\ \A k \in 1 .. n - j + 1 : r[k] = s[j + k - 1]
  OBVIOUS
<1>4. /\ l \o r \in Seq(Cfg) /\ Len(l \o r) = i + (n - j + 1)
      /\ \A k \in 1 .. i + (n - j + 1) : (l \o r)[k] = IF k <= i THEN l[k] ELSE r[k - i]
  BY <1>1, <1>2, <1>3
<1> HIDE DEF l, r, n
<1>5. ASSUME NEW k \in 1 .. i + (n - j + 1)
      PROVE  (l \o r)[k] = IF k <= i THEN s[k] ELSE s[(k - i) + (j - 1)]
  <2>1. CASE k <= i
    <3>1. k \in 1 .. i
      BY <2>1
    <3>. QED
      BY <1>2, <1>4, <2>1, <3>1
  <2>2. CASE ~ (k <= i)
    <3>1. k - i \in 1 .. n - j + 1 /\ j + (k - i) - 1 = (k - i) + (j - 1)
      BY <1>1, <2>2
    <3>2. (l \o r)[k] = r[k - i]
      BY <1>4, <2>2
    <3>3. r[k - i] = s[j + (k - i) - 1]
      BY <1>3, <3>1
    <3>. QED
      BY <2>2, <3>1, <3>2, <3>3
  <2>. QED
    BY <2>1, <2>2
<1>6. Cut(s, i, j) = l \o r
  BY DEF Cut, l, r, n
<1>. QED
  BY <1>4, <1>5, <1>6 DEF n

(* A free shortcut keeps both ends of the path, and every segment free. *)
LEMMA ShortenStep ==
  ASSUME Inv, Shorten
  PROVE  QueryInv' /\ SearchInv'
<1>1. PICK i, j \in DOMAIN path :
        i + 1 < j /\ FreeSegment(path[i], path[j]) /\ path' = SubSeq(path, 1, i) \o SubSeq(path, j, Len(path))
  BY DEF Shorten
<1>2. pc = "smooth" /\ pc' = pc /\ status' = status /\ UNCHANGED <<scene, roadmap, wanted, search, why>>
  BY DEF Shorten
<1>3. Searched /\ JoinedInv /\ PhaseInv /\ PathInv /\ status = "none"
  BY <1>2 DEF Inv, SearchInv, QueryInv, PhaseInv
<1> DEFINE n == Len(path)
           p == Cut(path, i, j)
<1>4. /\ path \in Seq(Cfg) /\ n \in Nat /\ i \in 1 .. n /\ j \in 1 .. n
      /\ \A k \in 1 .. n - 1 : FreeSegment(path[k], path[k + 1])
  BY <1>3 DEF PathInv
<1>5. /\ p \in Seq(Cfg) /\ Len(p) = i + (n - j + 1)
      /\ \A k \in 1 .. Len(p) : p[k] = IF k <= i THEN path[k] ELSE path[(k - i) + (j - 1)]
  <2>1. path \in Seq(Cfg) /\ i \in 1 .. Len(path) /\ j \in 1 .. Len(path) /\ i < j
    BY <1>1, <1>4
  <2> HIDE DEF p, n
  <2>2. /\ Cut(path, i, j) \in Seq(Cfg) /\ Len(Cut(path, i, j)) = i + (Len(path) - j + 1)
        /\ \A k \in 1 .. Len(Cut(path, i, j)) :
              Cut(path, i, j)[k] = IF k <= i THEN path[k] ELSE path[(k - i) + (j - 1)]
    BY ONLY <2>1, CutShape
  <2>. QED
    BY <2>2 DEF p, n
<1>6. path' = p
  BY <1>1 DEF Cut
<1>7. i \in Nat /\ j \in Nat /\ 1 <= i /\ i < j /\ j <= n /\ Len(p) \in Nat /\ Len(p) >= 2
  <2>1. i + 1 < j /\ n \in Nat /\ i \in 1 .. n /\ j \in 1 .. n /\ Len(p) = i + (n - j + 1)
    BY <1>1, <1>4, <1>5
  <2> HIDE DEF p, n
  <2>. QED
    BY <2>1
<1> HIDE DEF p, n
<1>8. p[1] = path[1] /\ p[Len(p)] = path[n]
  <2>1. n \in Nat /\ Len(p) = i + (n - j + 1)
    BY <1>4, <1>5
  <2>2. 1 \in 1 .. Len(p) /\ Len(p) \in 1 .. Len(p)
    BY <1>7
  <2>3. ~ (Len(p) <= i) /\ (Len(p) - i) + (j - 1) = n
    BY <1>7, <2>1
  <2>. QED
    BY <1>5, <1>7, <2>2, <2>3
<1>9. ASSUME NEW k \in 1 .. Len(p) - 1
      PROVE  FreeSegment(p[k], p[k + 1])
  <2>0. k \in Nat /\ k \in 1 .. Len(p) /\ k + 1 \in 1 .. Len(p)
    BY <1>7
  <2>1. CASE k < i
    <3>1. k <= i /\ k + 1 <= i /\ k \in 1 .. n - 1
      BY <1>4, <1>7, <2>0, <2>1
    <3>2. p[k] = path[k] /\ p[k + 1] = path[k + 1]
      BY <1>5, <2>0, <3>1
    <3>. QED
      BY <1>4, <3>1, <3>2
  <2>2. CASE k = i
    <3>1. k <= i /\ ~ (k + 1 <= i) /\ ((k + 1) - i) + (j - 1) = j
      BY <1>7, <2>2
    <3>2. p[k] = path[i] /\ p[k + 1] = path[j]
      BY <1>5, <2>0, <2>2, <3>1
    <3>. QED
      BY <1>1, <3>2
  <2>3. CASE k > i
    <3> DEFINE m == (k - i) + (j - 1)
    <3>1. ~ (k <= i) /\ ~ (k + 1 <= i) /\ ((k + 1) - i) + (j - 1) = m + 1
      BY <1>7, <2>0, <2>3
    <3>0. n \in Nat /\ Len(p) = i + (n - j + 1) /\ k <= Len(p) - 1
      BY <1>4, <1>5, <1>7, <1>9
    <3>2. m \in 1 .. n - 1
      BY <1>7, <2>0, <2>3, <3>0, SMTT(30)
    <3>3. p[k] = path[m] /\ p[k + 1] = path[m + 1]
      BY <1>5, <2>0, <3>1
    <3> HIDE DEF m
    <3>. QED
      BY <1>4, <3>2, <3>3
  <2>. QED
    BY <1>7, <2>0, <2>1, <2>2, <2>3
<1>10. EndsRight(p)
  BY <1>3, <1>8 DEF PathInv, n, EndsRight
<1>11. PathInv'
  BY <1>2, <1>5, <1>6, <1>7, <1>9, <1>10, PathKept
<1>12. Searched'
  BY <1>2, <1>3, SearchedKept
<1>13. JoinedInv'
  BY <1>2, <1>3, JoinedKept DEF search
<1>14. path' # <<>> /\ path # <<>>
  <2>1. Len(path') >= 2 /\ Len(path) >= 2
    BY <1>3, <1>6, <1>7 DEF PathInv
  <2>. QED
    BY <2>1
<1>15. PhaseInv'
  <2>1. FreeCfg(Start)' /\ goals' # <<>> /\ stage' = stage /\ stage = "ready"
    BY <1>2, <1>3 DEF PhaseInv, FreeCfg, scene, roadmap, search
  <2>. QED
    BY <1>2, <1>3, <1>14, <2>1 DEF PhaseInv
<1>16. SearchInv'
  BY <1>2, <1>11, <1>12, <1>14 DEF SearchInv, Inv, search
<1>. QED
  BY <1>13, <1>15, <1>16 DEF QueryInv

(* Answering after smoothing changes no more than the status. *)
LEMMA SmoothedStep ==
  ASSUME Inv, Smoothed
  PROVE  QueryInv' /\ SearchInv'
<1>1. /\ pc = "smooth" /\ pc' = "done" /\ status' = "Success" /\ UNCHANGED <<scene, roadmap, wanted, search, path, why>>
  BY DEF Smoothed, Finish
<1>2. Searched /\ JoinedInv /\ PhaseInv /\ PathInv /\ path # <<>> /\ (why # "none" => open = {})
  BY <1>1 DEF Inv, SearchInv, QueryInv, PhaseInv
<1>3. PathInv'
  <2>1. path \in Seq(Cfg) /\ Len(path) >= 2 /\ EndsRight(path)
        /\ \A i \in 1 .. Len(path) - 1 : FreeSegment(path[i], path[i + 1])
    BY <1>2 DEF PathInv, EndsRight
  <2>2. path' = path
    BY <1>1
  <2>. QED
    BY <1>1, <2>1, <2>2, PathKept
<1>4. Searched'
  BY <1>1, <1>2, SearchedKept
<1>5. JoinedInv'
  BY <1>1, <1>2, JoinedKept DEF search
<1>6. PhaseInv'
  <2>1. stage' = stage /\ stage = "ready" /\ path' = path
    BY <1>1, <1>2 DEF PhaseInv, roadmap
  <2>. QED
    BY <1>1, <1>2, <2>1 DEF PhaseInv
<1>7. SearchInv'
  BY <1>1, <1>2, <1>3, <1>4 DEF SearchInv, search
<1>. QED
  BY <1>5, <1>6, <1>7 DEF QueryInv

(* Giving up leaves the search as it is, with an empty heap. *)
LEMMA ExhaustedStep ==
  ASSUME Inv, Exhausted
  PROVE  QueryInv' /\ SearchInv'
<1>1. /\ pc = "search" /\ open = {} /\ pc' = "done" /\ status' = "NoSolution"
      /\ UNCHANGED <<scene, roadmap, wanted, search, path>>
  BY DEF Exhausted, Finish
<1>2. Searched /\ JoinedInv /\ PhaseInv /\ path = <<>>
  BY <1>1 DEF Inv, SearchInv, QueryInv, PhaseInv
<1>3. Searched'
  BY <1>1, <1>2, SearchedKept
<1>4. JoinedInv'
  BY <1>1, <1>2, JoinedKept DEF search
<1>5. PhaseInv'
  <2>1. stage' = stage /\ stage = "ready" /\ path' = path
    BY <1>1, <1>2 DEF PhaseInv, roadmap
  <2>. QED
    BY <1>1, <1>2, <2>1 DEF PhaseInv
<1>6. SearchInv'
  BY <1>1, <1>2, <1>3 DEF SearchInv, search
<1>. QED
  BY <1>4, <1>5, <1>6 DEF QueryInv

-------------------------------------------------------------------------------
(* The invariant, and what it gives *)

(* A step of the construction keeps the roadmap's invariant. *)
LEMMA BuildStep ==
  ASSUME RoadmapInv, Build
  PROVE  RoadmapInv'
  BY SampleStep, ProposeStep, ValidateStep, UniteStep, LabelStep DEF Build

(* A step that changes nothing keeps what is known of the query. *)
LEMMA QueryKept ==
  ASSUME Inv, UNCHANGED vars
  PROVE  QueryInv' /\ SearchInv'
<1>1. /\ UNCHANGED <<scene, roadmap, search>> /\ UNCHANGED <<scene, roadmap, wanted, goals, joined, extra>>
      /\ stage' = stage /\ pc' = pc /\ path' = path /\ why' = why /\ status' = status /\ hits' = hits
      /\ goals' = goals /\ joined' = joined /\ extra' = extra
      /\ g_cost' = g_cost /\ came_from' = came_from /\ open' = open
  BY DEF vars, search, scene, roadmap
<1>2. JoinedInv'
  BY <1>1, JoinedKept DEF Inv, QueryInv
<1>3. PhaseInv'
  <2>1. PhaseInv
    BY DEF Inv, QueryInv
  <2>2. FreeCfg(Start)' <=> FreeCfg(Start)
    BY <1>1 DEF FreeCfg
  <2>. QED
    BY <1>1, <2>1, <2>2 DEF PhaseInv
<1>4. Searched => Searched'
  BY <1>1, SearchedKept
<1>5. NoSearch => NoSearch'
  BY <1>1 DEF NoSearch
<1>6. PathInv => PathInv'
  <2> SUFFICES ASSUME PathInv
               PROVE  PathInv'
    OBVIOUS
  <2>1. path \in Seq(Cfg) /\ Len(path) >= 2 /\ EndsRight(path)
        /\ \A i \in 1 .. Len(path) - 1 : FreeSegment(path[i], path[i + 1])
    BY DEF PathInv, EndsRight
  <2>2. path' = path /\ UNCHANGED <<scene, roadmap, search>>
    BY <1>1
  <2>. QED
    BY ONLY <2>1, <2>2, PathKept
<1>7. SearchInv'
  BY <1>1, <1>4, <1>5, <1>6 DEF Inv, SearchInv
<1>. QED
  BY <1>2, <1>3, <1>7 DEF QueryInv

(* The inductive invariant holds from the construction to the end of plan(). *)
LEMMA Invariance == Spec => []Inv
<1>1. Init => Inv
  BY RoadmapStarts, QueryStarts DEF Init, Inv
<1>2. Inv /\ [Next]_vars => Inv'
  <2> SUFFICES ASSUME Inv, [Next]_vars
               PROVE  Inv'
    OBVIOUS
  <2>1. RoadmapInv'
    <3>1. RoadmapInv
      BY DEF Inv
    <3>2. CASE Construct
      BY <3>1, <3>2, BuildStep DEF Construct
    <3>3. CASE ~ Construct
      <4>1. UNCHANGED <<scene, roadmap>>
        BY <3>3 DEF Next, vars, Reject, Infeasible, Fail, Probe, Connect, BeginSearch, DropStale, Expand,
           Reached, Shorten, Smoothed, Exhausted
      <4>. QED
        BY <3>1, <4>1, RoadmapKept
    <3>. QED
      BY <3>2, <3>3
  <2>2. QueryInv' /\ SearchInv'
    <3>1. CASE Construct
      BY <3>1, ConstructStep
    <3>2. CASE Reject \/ Infeasible
      BY <3>2, FailStep
    <3>3. CASE Probe
      BY <3>3, ProbeStep
    <3>4. CASE Connect
      BY <3>4, ConnectStep
    <3>5. CASE BeginSearch
      BY <3>5, BeginStep
    <3>6. CASE DropStale
      BY <3>6, DropStep
    <3>7. CASE Expand
      BY <3>7, ExpandStep
    <3>8. CASE Reached
      BY <3>8, ReachedStep
    <3>9. CASE Shorten
      BY <3>9, ShortenStep
    <3>10. CASE Smoothed
      BY <3>10, SmoothedStep
    <3>11. CASE Exhausted
      BY <3>11, ExhaustedStep
    <3>12. CASE UNCHANGED vars
      BY <3>12, QueryKept
    <3>. QED
      BY <3>1, <3>2, <3>3, <3>4, <3>5, <3>6, <3>7, <3>8, <3>9, <3>10, <3>11, <3>12 DEF Next
  <2>. QED
    BY <2>1, <2>2 DEF Inv
<1>. QED
  BY <1>1, <1>2, PTL DEF Spec

(* The variables of the construction and of the query have their types; in particular
   every parent in the union-find is no later than its node, and every vertex the
   search has reached but the start was reached from another. *)
THEOREM TypeCorrect == Spec => []TypeOK
<1>1. Inv => TypeOK
  <2> SUFFICES ASSUME Inv
               PROVE  TypeOK
    OBVIOUS
  <2>1. RoadmapInv /\ QueryInv /\ JoinedInv /\ PhaseInv /\ SearchInv
    BY DEF Inv, QueryInv
  <2>2. \A i \in DOMAIN parent : parent[i] \in 1 .. i
    <3>1. CASE stage \in {"sample", "ready"}
      BY <2>1, <3>1 DEF RoadmapInv
    <3>2. CASE stage \in {"propose", "unite"}
      <4>1. Forest(parent, Len(nodes))
        BY <2>1, <3>2 DEF RoadmapInv, Merged
      <4>. QED
        BY <4>1 DEF Forest
    <3>. QED
      BY <2>1, <3>1, <3>2 DEF RoadmapInv
  <2>3. NoSearch \/ Searched
    BY <2>1 DEF SearchInv, PhaseInv
  <2>4. /\ DOMAIN g_cost \subseteq Vertices
        /\ \A v \in DOMAIN came_from : v \in DOMAIN g_cost /\ came_from[v] \in DOMAIN g_cost
        /\ \A t \in open : t[3] \in DOMAIN g_cost
    <3>1. CASE NoSearch
      BY <3>1 DEF NoSearch
    <3>2. CASE Searched
      <4>1. /\ CostsOK(Graph, g_cost) /\ HeapOK(Graph, g_cost, open)
            /\ ParentsOK(Graph, g_cost, came_from, open)
        BY <3>2 DEF Searched, SearchOK
      <4>2. DOMAIN g_cost \subseteq Vertices
        BY <4>1, GraphFields DEF CostsOK
      <4>3. \A v \in DOMAIN came_from : v \in DOMAIN g_cost /\ came_from[v] \in DOMAIN g_cost
        BY <4>1 DEF ParentsOK, Closed
      <4>4. \A t \in open : t[3] \in DOMAIN g_cost
        BY <4>1 DEF HeapOK
      <4>. QED
        BY <4>2, <4>3, <4>4
    <3>. QED
      BY <2>3, <3>1, <3>2
  <2>5. path \in Seq(Cfg)
    <3>1. CASE path = <<>>
      BY <3>1
    <3>2. CASE path # <<>>
      BY <2>1, <3>2 DEF SearchInv, PathInv
    <3>. QED
      BY <3>1, <3>2
  <2>. QED
    BY <2>1, <2>2, <2>4, <2>5 DEF TypeOK, RoadmapInv, JoinedInv, PhaseInv
<1>. QED
  BY <1>1, Invariance, PTL

(* The labels the union-find hands out are those of the connected components of the
   kept edges, numbered from 0 in the order of their first nodes. *)
THEOREM ComponentsAreRight == Spec => []ComponentsRight
<1>1. Inv => ComponentsRight
  BY DEF Inv, RoadmapInv
<1>. QED
  BY <1>1, Invariance, PTL

(* The cost on record of a vertex is at every moment the length of the walk that
   came_from records: no vertex is improved once it has passed its cost on. *)
THEOREM CostsAreExact == Spec => []CostsExact
<1>1. Inv => CostsExact
  <2> SUFFICES ASSUME Inv
               PROVE  CostsExact
    OBVIOUS
  <2>1. RoadmapInv /\ QueryInv /\ PhaseInv /\ SearchInv
    BY DEF Inv, QueryInv
  <2>2. CASE NoSearch
    BY <2>2 DEF NoSearch, CostsExact
  <2>3. CASE Searched
    BY <2>1, <2>3, CostRight DEF CostsExact
  <2>. QED
    BY <2>1, <2>2, <2>3 DEF SearchInv, PhaseInv
<1>. QED
  BY <1>1, Invariance, PTL

(* The path found ends at a goal that no walk through the joined graph reaches
   cheaper, nor any other goal: the heuristic never promises too much. *)
THEOREM FoundIsShortest == Spec => []ShortestFound
<1>1. Inv => ShortestFound
  <2> SUFFICES ASSUME Inv, path # <<>>
               PROVE  \E x \in GoalIdx \cap DOMAIN g_cost :
                         ConfigAt(x) = path[Len(path)] /\ g_cost[x] = Least(GoalCosts)
    BY DEF ShortestFound
  <2>1. RoadmapInv /\ QueryInv /\ Searched /\ PathInv
    BY DEF Inv, SearchInv
  <2>2. PICK t \in open : IsTop(t) /\ ~ Stale(t) /\ t[3] \in GoalIdx /\ ConfigAt(t[3]) = path[Len(path)]
    BY <2>1 DEF PathInv
  <2> DEFINE x == t[3]
  <2>3. GraphOK(Graph) /\ CostsOK(Graph, g_cost) /\ HeapOK(Graph, g_cost, open)
    BY <2>1, GraphRight DEF Searched, SearchOK
  <2>4. x \in DOMAIN g_cost /\ g_cost[x] \in Nat
    BY <2>2, <2>3 DEF HeapOK, CostsOK
  <2>5. t[1] = g_cost[x]
    <3>1. t[2] \in Nat /\ g_cost[x] <= t[2] /\ t[1] = t[2] + Graph.h[x]
      BY <2>2, <2>3 DEF HeapOK
    <3>2. Graph.h[x] = 0
      BY <2>2, <2>3, GraphFields DEF GraphOK
    <3>3. ~ (t[2] > g_cost[x])
      BY <2>2 DEF Stale
    <3>. QED
      BY <2>4, <3>1, <3>2, <3>3
  <2>6. \A d \in GoalCosts : d \in Nat /\ g_cost[x] <= d
    <3> TAKE d \in GoalCosts
    <3>1. d \in Nat
      BY <2>1, NothingCheaper
    <3>2. PICK e \in open : e[1] <= d
      BY <2>1, NothingCheaper
    <3>3. t[1] <= e[1]
      <4>1. LessEq(t, e)
        BY <2>2 DEF IsTop
      <4>2. e[1] \in Nat
        <5>1. e[2] \in Nat /\ e[3] \in DOMAIN g_cost /\ e[1] = e[2] + Graph.h[e[3]]
          BY <2>3 DEF HeapOK
        <5>2. Graph.h[e[3]] \in Nat
          BY <2>3, <5>1 DEF GraphOK, CostsOK
        <5>. QED
          BY <5>1, <5>2
      <4>. QED
        BY <2>4, <2>5, <4>1, <4>2 DEF LessEq
    <3>4. e[1] \in Nat
      <4>1. e[2] \in Nat /\ e[3] \in DOMAIN g_cost /\ e[1] = e[2] + Graph.h[e[3]]
        BY <2>3 DEF HeapOK
      <4>2. Graph.h[e[3]] \in Nat
        BY <2>3, <4>1 DEF GraphOK, CostsOK
      <4>. QED
        BY <4>1, <4>2
    <3>. QED
      BY <2>4, <2>5, <3>1, <3>2, <3>3, <3>4
  <2>7. g_cost[x] \in GoalCosts
    <3>1. PICK d \in GoalCosts : d <= g_cost[x]
      BY <2>1, <2>2, <2>4, AsCheap
    <3>. QED
      BY <2>4, <2>6, <3>1
  <2>8. g_cost[x] = Least(GoalCosts)
    <3>1. GoalCosts \in SUBSET Nat /\ GoalCosts # {}
      BY <2>6, <2>7
    <3>2. Least(GoalCosts) \in GoalCosts /\ \A d \in GoalCosts : Least(GoalCosts) <= d
      BY <3>1, LeastFacts
    <3>. QED
      BY <2>4, <2>6, <2>7, <3>2
  <2>. QED
    BY <2>2, <2>4, <2>8
<1>. QED
  BY <1>1, Invariance, PTL

(* A search that gives up has emptied the heap, so no walk joins the start to a goal. *)
THEOREM SearchIsComplete == Spec => []SearchComplete
<1>1. Inv => SearchComplete
  <2> SUFFICES ASSUME Inv, why # "none", NEW d \in GoalCosts
               PROVE  FALSE
    BY DEF SearchComplete
  <2>1. RoadmapInv /\ QueryInv /\ Searched /\ open = {}
    BY DEF Inv, SearchInv
  <2>. QED
    BY <2>1, NothingCheaper
<1>. QED
  BY <1>1, Invariance, PTL

(* When plan() blames disjoint components, no component touches both the start and a
   goal: the search has closed every node of each component the start touches. *)
THEOREM DiagnosisIsRight == Spec => []DiagnosisRight
<1>1. Inv => DiagnosisRight
  <2> SUFFICES ASSUME Inv, why = "disjoint_components", NEW l \in StartComps \cap GoalComps
               PROVE  FALSE
    BY DEF DiagnosisRight
  <2>1. RoadmapInv /\ QueryInv /\ JoinedInv /\ PhaseInv /\ Searched /\ open = {}
    BY DEF Inv, SearchInv, QueryInv
  <2>2. stage = "ready"
    BY <2>1 DEF PhaseInv
  <2> DEFINE K == DOMAIN g_cost
             S == K \cap DOMAIN nodes
  <2>3. StartIdx \in K /\ \A v \in K : v \notin GoalIdx /\ Neighbors(v) \subseteq K
    <3>1. CostsOK(Graph, g_cost) /\ ClosedOK(Graph, g_cost, open)
      BY <2>1 DEF Searched, SearchOK
    <3>2. Closed(Graph, g_cost, open) = K
      BY <2>1 DEF Closed
    <3>3. \A v \in K : v \in Vertices /\ v \notin GoalIdx /\ Graph.nb[v] \subseteq K
      BY <3>1, <3>2, GraphFields DEF ClosedOK, CostsOK
    <3>. QED
      BY <3>1, <3>3, GraphFields DEF CostsOK
  <2>4. PICK u \in DOMAIN nodes : <<StartIdx, u>> \in extra /\ comp[u] = l
    BY DEF StartComps, Touches
  <2>5. PICK t \in GoalIdx : \E v \in DOMAIN nodes : <<t, v>> \in extra /\ comp[v] = l
    BY DEF GoalComps, Touches
  <2>6. PICK v \in DOMAIN nodes : <<t, v>> \in extra /\ comp[v] = l
    BY <2>5
  <2>7. u \in S
    BY <2>1, <2>3, <2>4, VertexFacts DEF Neighbors
  <2>8. v \in S
    <3>1. v \in ConnectedIn(nodes, edges, u)
      <4>1. v \in Connected(u)
        BY <2>1, <2>2, <2>4, <2>6 DEF RoadmapInv, ComponentsRight
      <4>. QED
        BY <4>1, ConnectedSame
    <3>2. \A j \in S : AdjacentIn(nodes, edges, j) \subseteq S
      <4> TAKE j \in S
      <4>1. Adjacent(j) \subseteq Neighbors(j) /\ Adjacent(j) \subseteq DOMAIN nodes /\ Neighbors(j) \subseteq K
        BY <2>3 DEF Neighbors, Adjacent
      <4>2. AdjacentIn(nodes, edges, j) = Adjacent(j)
        BY ConnectedSame
      <4>. QED
        BY <4>1, <4>2
    <3>3. nodes \in Seq(Cfg) /\ u \in DOMAIN nodes
      BY <2>1 DEF RoadmapInv
    <3> HIDE DEF S
    <3>4. ConnectedIn(nodes, edges, u) \subseteq S
      BY <2>7, <3>2, <3>3, ConnectedFacts
    <3>. QED
      BY <3>1, <3>4
  <2>9. t \in Neighbors(v)
    BY <2>1, <2>6, VertexFacts DEF Neighbors, JoinedInv
  <2>. QED
    BY <2>3, <2>8, <2>9
<1>. QED
  BY <1>1, Invariance, PTL

-------------------------------------------------------------------------------
(* How long the search can take *)

\* The vertices expanded so far.
Settled == Closed(Graph, g_cost, open)

\* The pops of the heap that are left at most: an expansion pushes fewer entries
\* than there are vertices, and each vertex has one.
PopsLeft == (Cardinality(Vertices) - Cardinality(Settled)) * Cardinality(Vertices) + Cardinality(open)

(* What is expanded is among the vertices, and those are finitely many. *)
LEMMA SettledBound ==
  ASSUME GraphOK(Graph), SearchOK(Graph, g_cost, came_from, open)
  PROVE  /\ IsFiniteSet(Vertices) /\ IsFiniteSet(Settled)
         /\ Cardinality(Vertices) \in Nat /\ Cardinality(Settled) \in Nat
         /\ Cardinality(Settled) <= Cardinality(Vertices)
<1>1. Graph.v = Vertices
  BY GraphFields
<1>2. CostsOK(Graph, g_cost)
  BY DEF SearchOK
<1>3. /\ IsFiniteSet(Closed(Graph, g_cost, open)) /\ Cardinality(Closed(Graph, g_cost, open)) \in Nat
      /\ Cardinality(Closed(Graph, g_cost, open)) <= Cardinality(Graph.v)
  BY ONLY <1>2, GraphOK(Graph), ClosedFinite
<1>4. IsFiniteSet(Graph.v)
  BY DEF GraphOK
<1>. QED
  BY <1>1, <1>3, <1>4, FS_CardinalityType DEF Settled

LEMMA PushedFinite ==
  ASSUME NEW G, NEW V, IsFiniteSet(V), NEW new, DOMAIN new \subseteq V
  PROVE  IsFiniteSet(Pushed(G, new)) /\ Cardinality(Pushed(G, new)) <= Cardinality(V)
<1> DEFINE N == DOMAIN new
           P == Pushed(G, new)
           f == [u \in N |-> <<new[u] + G.h[u], new[u], u>>]
<1>1. IsFiniteSet(N) /\ Cardinality(N) <= Cardinality(V) /\ Cardinality(N) \in Nat /\ Cardinality(V) \in Nat
  BY FS_Subset, FS_CardinalityType
<1>2. f \in Surjection(N, P)
  <2>1. \A u \in N : f[u] \in P
    BY DEF Pushed
  <2>2. f \in [N -> P]
    BY <2>1
  <2>3. \A x \in P : \E u \in N : f[u] = x
    BY DEF Pushed
  <2> HIDE DEF f, P, N
  <2>. QED
    BY <2>2, <2>3 DEF Surjection
<1> HIDE DEF f, N
<1>3. IsFiniteSet(P) /\ Cardinality(P) <= Cardinality(N)
  BY <1>1, <1>2, FS_Surjection
<1>4. Cardinality(P) \in Nat
  BY <1>3, FS_CardinalityType
<1>. QED
  BY <1>1, <1>3, <1>4

(* While it searches. *)
LEMMA SearchRight ==
  ASSUME Inv, pc = "search"
  PROVE  GraphOK(Graph) /\ SearchOK(Graph, g_cost, came_from, open)
<1>1. RoadmapInv /\ QueryInv /\ Searched
  BY DEF Inv, SearchInv
<1>2. goals # <<>>
  BY <1>1 DEF Searched
<1>. QED
  BY <1>1, <1>2, GraphRight DEF Searched

LEMMA OpenFinite == Spec => []IsFiniteSet(open)
<1>1. Init => IsFiniteSet(open)
  BY FS_EmptySet DEF Init
<1>2. Inv /\ IsFiniteSet(open) /\ [Next]_vars => IsFiniteSet(open)'
  <2> SUFFICES ASSUME Inv, IsFiniteSet(open), [Next]_vars
               PROVE  IsFiniteSet(open)'
    OBVIOUS
  <2>1. CASE BeginSearch
    BY <2>1, FS_Singleton DEF BeginSearch
  <2>2. CASE DropStale
    BY <2>2, FS_RemoveElement DEF DropStale
  <2>3. CASE Expand
    <3>1. PICK t, new : t \in open /\ DOMAIN new \subseteq Vertices /\ open' = (open \ {t}) \cup Pushed(Graph, new)
      BY <2>3, ExpandIs
    <3>2. IsFiniteSet(Vertices)
      BY <2>3, SearchRight, SettledBound DEF Expand
    <3>3. IsFiniteSet(open \ {t}) /\ IsFiniteSet(Pushed(Graph, new))
      BY <3>1, <3>2, PushedFinite, FS_RemoveElement
    <3>. QED
      BY <3>1, <3>3, FS_Union
  <2>4. CASE open' = open
    BY <2>4
  <2>. QED
    BY <2>1, <2>2, <2>3, <2>4 DEF Next, vars, search, Construct, Reject, Infeasible, Fail, Probe, Connect,
       Reached, Shorten, Smoothed, Exhausted
<1>. QED
  BY <1>1, <1>2, Invariance, PTL DEF Spec

(* Dropping an out-of-date entry shortens the heap and settles nothing. *)
LEMMA DropUses ==
  ASSUME Inv, IsFiniteSet(open), DropStale
  PROVE  Settled' = Settled /\ PopsLeft' < PopsLeft
<1>1. PICK t \in open : Stale(t) /\ open' = open \ {t}
  BY DEF DropStale
<1>2. pc = "search" /\ g_cost' = g_cost /\ UNCHANGED <<nodes, edges, goals, extra>>
  BY DEF DropStale, roadmap
<1>3. SearchOK(Graph, g_cost, came_from, open) /\ GraphOK(Graph)
  BY <1>2, SearchRight
<1>4. t[2] > g_cost[t[3]]
  BY <1>1 DEF Stale
<1>5. Closed(Graph, g_cost, open \ {t}) = Closed(Graph, g_cost, open)
  BY ONLY <1>3, <1>4, t \in open, StaleDropped
<1>6. Graph' = Graph /\ Vertices' = Vertices
  BY <1>2, GraphKept
<1>7. Settled' = Settled
  BY <1>1, <1>2, <1>5, <1>6 DEF Settled, Closed, Entry
<1>8. PICK n \in Nat, c \in Nat : n = Cardinality(Vertices) /\ c = Cardinality(Settled) /\ c <= n
  BY <1>3, SettledBound
<1>9. PICK k \in Nat, k2 \in Nat : k = Cardinality(open) /\ k2 = Cardinality(open') /\ k2 = k - 1
  <2>1. /\ Cardinality(open) \in Nat
        /\ Cardinality(open \ {t}) \in Nat /\ Cardinality(open \ {t}) = Cardinality(open) - 1
    BY FS_RemoveElement, FS_CardinalityType
  <2>. QED
    BY <1>1, <2>1
<1>10. PICK m \in Int : m = (n - c) * n
  OBVIOUS
<1>11. PopsLeft = m + k /\ PopsLeft' = m + k2
  BY <1>6, <1>7, <1>8, <1>9, <1>10 DEF PopsLeft
<1>. QED
  BY <1>7, <1>9, <1>11

(* An expansion settles a vertex for good and pushes at most one entry for each. *)
LEMMA ExpandUses ==
  ASSUME Inv, IsFiniteSet(open), Expand
  PROVE  Settled \subseteq Settled' /\ PopsLeft' < PopsLeft
<1>1. PICK t, new :
        /\ t \in open /\ DOMAIN new \subseteq Vertices /\ t[3] \in Vertices
        /\ open' = (open \ {t}) \cup Pushed(Graph, new)
        /\ SearchOK(Graph, g_cost', came_from', open')
        /\ Closed(Graph, g_cost', open') = Closed(Graph, g_cost, open) \cup {t[3]}
        /\ t[3] \notin Closed(Graph, g_cost, open)
  BY ExpandIs
<1>2. pc = "search" /\ UNCHANGED <<nodes, edges, goals, extra>>
  BY DEF Expand, roadmap
<1>3. SearchOK(Graph, g_cost, came_from, open) /\ GraphOK(Graph)
  BY <1>2, SearchRight
<1>4. Graph' = Graph /\ Vertices' = Vertices
  BY <1>2, GraphKept
<1>5. Settled' = Closed(Graph, g_cost', open')
  BY <1>4 DEF Settled, Closed, Entry
<1>6. Settled' = Settled \cup {t[3]} /\ t[3] \notin Settled
  BY <1>1, <1>5 DEF Settled
<1>7. IsFiniteSet(Settled) /\ IsFiniteSet(Vertices)
  BY <1>3, SettledBound
<1>8. PICK n \in Nat, c \in Nat : n = Cardinality(Vertices) /\ c = Cardinality(Settled) /\ c <= n
  BY <1>3, SettledBound
<1>9. Cardinality(Settled') = c + 1
  BY <1>6, <1>7, <1>8, FS_AddElement
<1>10. PICK k \in Nat, k2 \in Nat : k = Cardinality(open) /\ k2 = Cardinality(open') /\ k2 <= k - 1 + n
  <2>1. PICK p \in Nat : p = Cardinality(Pushed(Graph, new)) /\ p <= n
    <3>1. IsFiniteSet(Pushed(Graph, new)) /\ Cardinality(Pushed(Graph, new)) <= n
      BY <1>1, <1>7, <1>8, PushedFinite
    <3>. QED
      BY <3>1, FS_CardinalityType
  <2>2. IsFiniteSet(Pushed(Graph, new)) /\ IsFiniteSet(open \ {t})
    BY <1>1, <1>7, PushedFinite, FS_RemoveElement
  <2>3. PICK k \in Nat, d \in Nat : k = Cardinality(open) /\ d = Cardinality(open \ {t}) /\ d = k - 1
    <3>1. IsFiniteSet(open \ {t}) /\ Cardinality(open \ {t}) = Cardinality(open) - 1
      BY <1>1, FS_RemoveElement
    <3>2. Cardinality(open) \in Nat /\ Cardinality(open \ {t}) \in Nat
      BY <3>1, FS_CardinalityType
    <3>. QED
      BY <3>1, <3>2
  <2>4. PICK i \in Nat : i = Cardinality((open \ {t}) \cap Pushed(Graph, new))
    <3>1. IsFiniteSet((open \ {t}) \cap Pushed(Graph, new))
      BY <2>2, FS_Intersection
    <3>. QED
      BY <3>1, FS_CardinalityType
  <2>5. Cardinality(open') = d + p - i
    BY <1>1, <2>1, <2>2, <2>3, <2>4, FS_Union
  <2>6. Cardinality(open') \in Nat
    BY <1>1, <2>2, FS_Union, FS_CardinalityType
  <2>. QED
    BY <2>1, <2>3, <2>4, <2>5, <2>6
<1>11. PICK m \in Int : m = (n - c) * n
  OBVIOUS
<1>12. (n - (c + 1)) * n = m - n
  BY <1>11
<1>13. PopsLeft = m + k /\ PopsLeft' = (n - (c + 1)) * n + k2
  BY <1>4, <1>8, <1>9, <1>10, <1>11 DEF PopsLeft
<1>. QED
  BY <1>6, <1>10, <1>12, <1>13

(* The search starts with its one entry. *)
LEMMA BeginUses ==
  ASSUME Inv, Inv', BeginSearch
  PROVE  PopsLeft' = Cardinality(Vertices) * Cardinality(Vertices) + 1
<1>1. /\ g_cost' = [v \in {StartIdx} |-> 0] /\ open' = {<<Heuristic(StartIdx), 0, StartIdx>>}
      /\ UNCHANGED <<nodes, edges, goals, extra>> /\ pc' = "search"
  BY DEF BeginSearch, roadmap
<1>2. Graph' = Graph /\ Vertices' = Vertices
  BY <1>1, GraphKept
<1>3. Graph.h[StartIdx] = Heuristic(StartIdx) /\ StartIdx \in Vertices /\ Cardinality(Vertices) \in Nat
  <2>1. IsFiniteSet(Vertices) /\ StartIdx \in Vertices
    BY VertexFacts DEF Inv
  <2>. QED
    BY <2>1, GraphFields, FS_CardinalityType
<1>4. Settled' = Closed(Graph, g_cost', open')
  BY <1>2 DEF Settled, Closed, Entry
<1>5. Closed(Graph, g_cost', open') = {}
  <2>1. DOMAIN g_cost' = {StartIdx} /\ g_cost'[StartIdx] = 0
    BY <1>1
  <2>2. Heuristic(StartIdx) \in Nat
    <3>1. GraphOK(Graph)
      <4>1. RoadmapInv /\ QueryInv /\ goals # <<>>
        BY DEF Inv, QueryInv, PhaseInv, BeginSearch
      <4>. QED
        BY <4>1, GraphRight
    <3>2. Graph.h[StartIdx] \in Nat
      BY <1>3, <3>1, GraphFields DEF GraphOK
    <3>. QED
      BY <1>3, <3>2
  <2>3. Entry(Graph, g_cost', StartIdx) = <<Heuristic(StartIdx), 0, StartIdx>>
    BY <1>3, <2>1, <2>2 DEF Entry
  <2>. QED
    BY <1>1, <2>1, <2>3 DEF Closed
<1>6. Cardinality(Settled') = 0 /\ Cardinality(open') = 1
  BY <1>1, <1>4, <1>5, FS_EmptySet, FS_Singleton
<1>7. PICK n \in Nat : n = Cardinality(Vertices)
  BY <1>3
<1>8. PopsLeft' = (n - 0) * n + 1
  BY <1>2, <1>6, <1>7 DEF PopsLeft
<1>. QED
  BY <1>7, <1>8

(* A* settles each vertex once: what it has expanded stays expanded, whatever cheaper
   ways it finds to the others, so that after at most as many pops of the heap as
   there are pairs of vertices, and one, the search has an answer. *)
THEOREM SearchesAreBounded ==
  Spec => /\ [](pc = "search" => PopsLeft \in Nat)
          /\ [][BeginSearch => PopsLeft' = Cardinality(Vertices) * Cardinality(Vertices) + 1]_vars
          /\ [][pc = "search" /\ pc' = "search" => Settled \subseteq Settled' /\ PopsLeft' < PopsLeft]_vars
<1>1. Inv /\ IsFiniteSet(open) => (pc = "search" => PopsLeft \in Nat)
  <2> SUFFICES ASSUME Inv, IsFiniteSet(open), pc = "search"
               PROVE  PopsLeft \in Nat
    OBVIOUS
  <2>1. PICK n \in Nat, c \in Nat : n = Cardinality(Vertices) /\ c = Cardinality(Settled) /\ c <= n
    BY SearchRight, SettledBound
  <2>2. PICK k \in Nat : k = Cardinality(open)
    BY FS_CardinalityType
  <2>3. PICK d \in Nat : d = n - c
    BY <2>1
  <2>4. PopsLeft = d * n + k
    BY <2>1, <2>2, <2>3 DEF PopsLeft
  <2>5. d * n \in Nat
    OBVIOUS
  <2>. QED
    BY <2>4, <2>5
<1>2. Inv /\ Inv' /\ [Next]_vars =>
        [BeginSearch => PopsLeft' = Cardinality(Vertices) * Cardinality(Vertices) + 1]_vars
  BY BeginUses
<1>3. Inv /\ IsFiniteSet(open) /\ [Next]_vars =>
        [pc = "search" /\ pc' = "search" => Settled \subseteq Settled' /\ PopsLeft' < PopsLeft]_vars
  <2> SUFFICES ASSUME Inv, IsFiniteSet(open), Next, pc = "search", pc' = "search"
               PROVE  Settled \subseteq Settled' /\ PopsLeft' < PopsLeft
    OBVIOUS
  <2>1. CASE DropStale
    BY <2>1, DropUses
  <2>2. CASE Expand
    BY <2>2, ExpandUses
  <2>3. ~ (Construct \/ Reject \/ Infeasible \/ Probe \/ Connect \/ BeginSearch \/ Reached \/ Shorten
           \/ Smoothed \/ Exhausted)
    BY DEF Construct, Reject, Infeasible, Fail, Finish, Probe, Connect, BeginSearch, Reached, Shorten,
       Smoothed, Exhausted
  <2>. QED
    BY <2>1, <2>2, <2>3 DEF Next
<1>. QED
  BY <1>1, <1>2, <1>3, Invariance, OpenFinite, PTL DEF Spec

-------------------------------------------------------------------------------
(* The contract *)

(* A free path from the start to a goal is a solution of the contract, with no
   waypoint of it in collision. *)
LEMMA FreeIsSolution ==
  ASSUME NEW p \in Seq(Cfg), Len(p) >= 2, p[1] = Start, \E i \in DOMAIN wanted : p[Len(p)] = wanted[i],
         \A i \in 1 .. Len(p) - 1 : FreeSegment(p[i], p[i + 1])
  PROVE  Contract!IsSolution(p)
<1>1. {i \in DOMAIN p : p[i] \in hits} = {}
  <2> SUFFICES ASSUME NEW i \in 1 .. Len(p)
               PROVE  p[i] \notin hits
    OBVIOUS
  <2>1. CASE i <= Len(p) - 1
    <3>1. i \in 1 .. Len(p) - 1
      BY <2>1
    <3>. QED
      BY <3>1 DEF FreeSegment, FreeCfg
  <2>2. CASE i = Len(p)
    <3>1. i - 1 \in 1 .. Len(p) - 1 /\ (i - 1) + 1 = i
      BY <2>2
    <3>2. FreeSegment(p[i - 1], p[i])
      BY <3>1
    <3>. QED
      BY <3>2 DEF FreeSegment, FreeCfg
  <2>. QED
    BY <2>1, <2>2
<1>2. Cardinality({i \in DOMAIN p : p[i] \in hits}) <= 0
  <2> DEFINE S == {i \in DOMAIN p : p[i] \in hits}
  <2>1. S = {}
    BY <1>1
  <2> HIDE DEF S
  <2>2. Cardinality(S) = 0
    BY <2>1, FS_EmptySet
  <2>3. Cardinality(S) <= 0
    BY <2>2
  <2>. QED
    BY <2>3 DEF S
<1>3. \A i \in 1 .. Len(p) - 1 : Contract!EdgeClear(p[i], p[i + 1])
  BY DEF FreeSegment, Contract!EdgeClear
<1>. QED
  BY <1>2, <1>3 DEF Contract!IsSolution, Cardinality, Contract!Cardinality

(* A construction and a call of plan() take the steps of the contract: one answer, a
   path only with Success, and that path free at every waypoint and edge. *)
THEOREM StepsImplementContract == Spec => Contract!Init /\ [][Contract!Next]_Contract!vars
<1>1. Init => Contract!Init
  <2> SUFFICES ASSUME Init
               PROVE  Contract!Init
    OBVIOUS
  <2>1. hits \subseteq Cfg /\ mid \subseteq SUBSET Cfg
    BY RoadmapStarts DEF Init, RoadmapInv
  <2>2. wanted \in Seq(Cfg) /\ status = "none"
    BY QueryAssumption DEF Init
  <2>. QED
    BY <2>1, <2>2 DEF Contract!Init
<1>2. Inv /\ Inv' /\ [Next]_vars => [Contract!Next]_Contract!vars
  <2> SUFFICES ASSUME Inv, Inv', [Next]_vars
               PROVE  [Contract!Next]_Contract!vars
    OBVIOUS
  <2>1. hits' = hits /\ mid' = mid /\ wanted' = wanted
    BY DEF Next, vars, scene, Construct, Build, SampleNodes, ProposeEdges, ValidateEdges, UniteEdge, LabelComponents,
       Reject, Infeasible, Fail, Probe, Connect, BeginSearch, DropStale, Expand, Reached, Shorten, Smoothed, Exhausted
  <2>2. status = "none" <=> pc # "done"
    BY DEF Inv, QueryInv, PhaseInv
  <2>3. CASE status' = status /\ (path' = path \/ status # "Success")
    BY <2>1, <2>3 DEF Contract!vars
  <2>4. CASE status = "none" /\ status' \in {"NoSolution", "InvalidProblem"}
    BY <2>1, <2>4 DEF Contract!Next, Contract!Fail, Contract!Failure
  <2>5. CASE status = "none" /\ status' = "Success"
    <3>1. path' # <<>> /\ JoinedInv'
      BY <2>5 DEF Inv, QueryInv, PhaseInv
    <3>2. PathInv' /\ RoadmapInv' /\ QueryInv'
      BY <3>1 DEF Inv, SearchInv
    <3>3. PICK x \in GoalIdx' : ConfigAt(x)' = path'[Len(path')]
      BY <3>2 DEF PathInv
    <3>4. \E i \in DOMAIN wanted : path'[Len(path')] = wanted[i]
      <4>1. PICK k \in DOMAIN goals' : x = StartIdx' + k
        BY DEF GoalIdx
      <4>2. ConfigAt(x)' = goals'[k]
        <5>1. /\ Len(nodes') \in Nat /\ DOMAIN nodes' = 1 .. Len(nodes') /\ DOMAIN goals' \subseteq Nat \ {0}
          BY <3>1, <3>2 DEF RoadmapInv, JoinedInv
        <5>2. x \notin DOMAIN nodes' /\ x # StartIdx' /\ x - StartIdx' = k
          BY <4>1, <5>1 DEF StartIdx
        <5>. QED
          BY <5>2 DEF ConfigAt
      <4>3. \E i \in DOMAIN wanted' : goals'[k] = wanted'[i]
        BY <3>1 DEF JoinedInv
      <4>. QED
        BY <2>1, <3>3, <4>2, <4>3
    <3>5. /\ path' \in Seq(Cfg) /\ Len(path') >= 2 /\ path'[1] = Start
          /\ \A i \in 1 .. Len(path') - 1 : FreeSegment(path'[i], path'[i + 1])
      BY <2>1, <3>2 DEF PathInv, FreeSegment, FreeCfg
    <3>6. Contract!IsSolution(path')
      BY <3>4, <3>5, FreeIsSolution
    <3>. QED
      BY <2>1, <2>5, <3>6 DEF Contract!Next, Contract!Solve
  <2>6. CASE Construct \/ Probe \/ Connect \/ BeginSearch \/ DropStale \/ Expand \/ Shorten
    <3>1. status' = status /\ pc # "done"
      BY <2>6 DEF Construct, Probe, Connect, BeginSearch, DropStale, Expand, Shorten
    <3>. QED
      BY <2>2, <2>3, <3>1
  <2>7. CASE Reject \/ Infeasible \/ Exhausted
    BY <2>2, <2>4, <2>7 DEF Reject, Infeasible, Exhausted, Fail, Finish
  <2>8. CASE Reached \/ Smoothed
    <3>1. pc # "done" /\ (status' = status \/ status' = "Success")
      BY <2>8 DEF Reached, Smoothed, Finish
    <3>. QED
      BY <2>2, <2>3, <2>5, <3>1
  <2>9. CASE UNCHANGED vars
    BY <2>3, <2>9 DEF vars
  <2>. QED
    BY <2>6, <2>7, <2>8, <2>9 DEF Next
<1>. QED
  BY <1>1, <1>2, Invariance, PTL DEF Spec
===============================================================================
