---------------------- MODULE TrajectoryRefiner_proofs ----------------------
(* Proofs about TrajectoryRefiner and the IK solver it calls, for every       *)
(* lattice, seed, goal list, environment and budget that their assumptions    *)
(* allow.                                                                     *)
EXTENDS TrajectoryRefiner, SequencesExt, FiniteSetTheorems, WellFoundedInduction, TLAPS

-------------------------------------------------------------------------------
(* Natural numbers, definitions by recursion on 1 .. n *)

(* Every non-empty set of natural numbers has a least element. *)
LEMMA LeastElement ==
  ASSUME NEW T \in SUBSET Nat, T # {}
  PROVE  \E x \in T : \A y \in T : x <= y
<1>1. PICK x \in T : \A y \in T : ~ (<<y, x>> \in OpToRel(<, Nat))
  BY NatLessThanWellFounded, WFMin
<1>2. \A y \in T : ~ (y < x)
  BY <1>1 DEF OpToRel
<1>. QED
  BY <1>2

(* A recursive definition over 1 .. n has a solution, and only one. *)
Recursion(n, S, base, op) == base \in S /\ op \in [1 .. n -> [S -> S]]

HasSolution(n, S, base, op) ==
  \E f \in [1 .. n -> S] : f[1] = base /\ \A i \in 2 .. n : f[i] = op[i][f[i - 1]]

LEMMA Iteration ==
  ASSUME NEW n \in Nat \ {0}, NEW S, NEW base, NEW op, Recursion(n, S, base, op)
  PROVE  HasSolution(n, S, base, op)
<1> USE DEF Recursion
<1> DEFINE Table(m, f) == f[1] = base /\ \A i \in 2 .. m : f[i] = op[i][f[i - 1]]
           Untabled == {m \in 1 .. n : \A f \in [1 .. m -> S] : ~ Table(m, f)}
<1>1. Untabled = {}
  <2>1. SUFFICES ASSUME Untabled # {}
                 PROVE  FALSE
    OBVIOUS
  <2>2. PICK m \in Untabled : \A k \in Untabled : m <= k
    <3>1. Untabled \in SUBSET Nat
      OBVIOUS
    <3> HIDE DEF Untabled
    <3>. QED
      BY <2>1, <3>1, LeastElement
  <2>3. m # 1
    <3>1. [i \in 1 .. 1 |-> base] \in [1 .. 1 -> S] /\ Table(1, [i \in 1 .. 1 |-> base])
      OBVIOUS
    <3>. QED
      BY ZenonT(30), <2>2, <3>1
  <2>4. m - 1 \in 1 .. n /\ m - 1 \notin Untabled
    <3>1. m \in 1 .. n /\ m - 1 \in 1 .. n /\ ~ (m <= m - 1)
      BY <2>2, <2>3
    <3> HIDE DEF Untabled
    <3>. QED
      BY <2>2, <3>1
  <2>5. PICK f \in [1 .. m - 1 -> S] : Table(m - 1, f)
    BY <2>4
  <2> DEFINE g == [i \in 1 .. m |-> IF i = m THEN op[m][f[m - 1]] ELSE f[i]]
  <2>6. m \in 1 .. n /\ f[m - 1] \in S /\ op[m][f[m - 1]] \in S
    BY <2>2, <2>3
  <2>7. g \in [1 .. m -> S]
    BY <2>2, <2>3, <2>6
  <2>8. g[1] = base
    BY <2>2, <2>3, <2>5
  <2>9. ASSUME NEW i \in 2 .. m
        PROVE  g[i] = op[i][g[i - 1]]
    <3>1. i \in 1 .. m /\ i - 1 \in 1 .. m /\ i - 1 # m
      BY <2>2, <2>9
    <3>2. g[i - 1] = f[i - 1]
      BY <3>1
    <3>3. CASE i = m
      BY <3>1, <3>2, <3>3
    <3>4. CASE i # m
      <4>1. g[i] = f[i] /\ i \in 2 .. m - 1
        BY <2>6, <2>9, <3>1, <3>4
      <4>. QED
        BY <2>5, <3>2, <4>1
    <3>. QED
      BY <3>3, <3>4
  <2>. QED
    BY <2>6, <2>7, <2>8, <2>9
<1>2. n \in 1 .. n /\ n \notin Untabled
  <2>1. n \in 1 .. n
    OBVIOUS
  <2> HIDE DEF Untabled
  <2>. QED
    BY <1>1, <2>1
<1>3. \E f \in [1 .. n -> S] : Table(n, f)
  <2> HIDE DEF Table
  <2>. QED
    BY <1>2
<1>. QED
  BY <1>3 DEF HasSolution

SameRecursion(n, f, g) ==
  /\ f = [i \in 1 .. n |-> f[i]] /\ g = [i \in 1 .. n |-> g[i]]
  /\ n > 0 => g[1] = f[1]
  /\ \A i \in 2 .. n : g[i - 1] = f[i - 1] => g[i] = f[i]

LEMMA IterationUnique ==
  ASSUME NEW n \in Nat, NEW f, NEW g, SameRecursion(n, f, g)
  PROVE  g = f
<1> USE DEF SameRecursion
<1> DEFINE Differ == {i \in 1 .. n : g[i] # f[i]}
<1>1. SUFFICES ASSUME Differ # {}
               PROVE  FALSE
  <2>1. (\A i \in 1 .. n : g[i] = f[i]) => g = f
    OBVIOUS
  <2>. QED
    BY <2>1
<1>2. PICK i \in Differ : \A j \in Differ : i <= j
  <2>1. Differ \in SUBSET Nat
    OBVIOUS
  <2> HIDE DEF Differ
  <2>. QED
    BY <1>1, <2>1, LeastElement
<1>3. i \in 2 .. n /\ i - 1 \in 1 .. n /\ ~ (i <= i - 1) /\ i \in Differ
  BY <1>2
<1>4. i - 1 \notin Differ
  <2> HIDE DEF Differ
  <2>. QED
    BY <1>2, <1>3
<1>. QED
  BY <1>3, <1>4

-------------------------------------------------------------------------------
(* Inverse kinematics *)

(* The two records of the closest posture, the attempt's and the call's, hold
   errors that were evaluated, and the smaller of the two is the least of all:
   at any moment what the end of the attempt will return is the right answer. *)
IkInv ==
  /\ IkTypeOK
  /\ \A r \in {attempt, best} : r.err = Inf \/ (r.err < Inf /\ Err[r.q] = r.err)
  /\ ik_pc = "iterate" => nearest = Least(attempt.err, best.err)
  /\ ik_pc \in {"idle", "restart", "failed"} => nearest = best.err
  /\ ik_pc = "solved" => Err[best.q] = 0

LEMMA IkAssumed ==
  /\ Zero \in Postures /\ Inf \in Nat
  /\ \A c \in Postures : Err[c] \in Nat /\ Err[c] < Inf
  /\ MaxRestarts \in Nat /\ MaxIters \in Nat
  /\ StallIters \in Nat \ {0}
BY IkAssumption

LEMMA IkInitInv == IkInit => IkInv
BY IkAssumed DEF IkInit, IkInv, IkTypeOK, Closest

LEMMA IkResetInv ==
  ASSUME NEW at \in {"idle", "restart"}, IkReset(at)
  PROVE  IkInv'
BY IkAssumed DEF IkReset, IkInv, IkTypeOK, Closest

LEMMA IkStepInv ==
  ASSUME IkInv, IkNext
  PROVE  IkInv'
<1> USE IkAssumed DEF IkInv, IkTypeOK, Closest, Least
<1>1. CASE Restart
  BY <1>1 DEF Restart
<1>2. CASE GiveUp
  BY <1>2 DEF GiveUp
<1>3. CASE Reach
  BY <1>3 DEF Reach
<1>4. CASE Iterate
  <2>1. /\ ik_pc = "iterate" /\ iteration \in 0 .. MaxIters /\ iteration < MaxIters
        /\ q \in Postures /\ Err[q] \in Nat /\ Err[q] < Inf
    BY <1>4 DEF Iterate
  <2>2. attempt' \in Closest /\ attempt'.err = Least(Err[q], attempt.err)
    BY <1>4, <2>1 DEF Iterate, Progress
  <2>3. attempt'.err = Inf \/ (attempt'.err < Inf /\ Err[attempt'.q] = attempt'.err)
    BY <1>4, <2>1 DEF Iterate, Progress
  <2>4. nearest' = Least(attempt'.err, best.err)
    BY <1>4, <2>1, <2>2 DEF Iterate
  <2>5. stall' \in 0 .. StallIters /\ restart' = restart
    BY <1>4 DEF Iterate, Progress
  <2>6. CASE q' \in Postures /\ iteration' = iteration + 1 /\ UNCHANGED <<ik_pc, best>>
    BY <2>1, <2>2, <2>3, <2>4, <2>5, <2>6
  <2>7. CASE best' = Better(attempt', best) /\ ik_pc' = "restart" /\ UNCHANGED <<q, iteration>>
    <3>1. best' \in {attempt', best} /\ best'.err = Least(attempt'.err, best.err)
      BY <2>2, <2>7 DEF Better
    <3>. QED
      BY <2>1, <2>2, <2>3, <2>4, <2>5, <2>7, <3>1
  <2>. QED
    BY <1>4, <2>6, <2>7 DEF Iterate
<1>5. CASE Exhaust
  <2>1. best' \in {attempt, best} /\ best'.err = Least(attempt.err, best.err)
    BY <1>5 DEF Exhaust, Better
  <2>. QED
    BY <1>5, <2>1 DEF Exhaust
<1>. QED
  BY <1>1, <1>2, <1>3, <1>4, <1>5 DEF IkNext

LEMMA IkUnchanged ==
  ASSUME IkInv, UNCHANGED ik
  PROVE  IkInv'
BY DEF IkInv, IkTypeOK, ik

(* A step of plan() is a step of the solver, a call of it or its return, or none
   of its business. *)
LEMMA IkInvPreserved ==
  ASSUME IkInv, [Next]_vars
  PROVE  IkInv'
<1>1. CASE Reject \/ FromSeed \/ Resolve \/ TakeJoint \/ PoseDone \/ NoGoal \/ StraightLine
        \/ Optimise \/ StopOptimising \/ CertifyRefined \/ Refuse \/ FallBack
  <2>1. UNCHANGED ik
    BY <1>1 DEF Reject, FromSeed, Resolve, TakeJoint, PoseDone, NoGoal, StraightLine, Optimise,
       StopOptimising, CertifyRefined, Refuse, FallBack, Fail, Begin, Return
  <2>. QED
    BY <2>1, IkUnchanged
<1>2. CASE CallIk
  BY <1>2, IkResetInv DEF CallIk
<1>3. CASE SolveIk
  BY <1>3, IkStepInv DEF SolveIk
<1>4. CASE IkReturned
  BY <1>4, IkResetInv DEF IkReturned
<1>5. CASE UNCHANGED vars
  BY <1>5, IkUnchanged DEF vars
<1>. QED
  BY <1>1, <1>2, <1>3, <1>4, <1>5 DEF Next, Done

(* Whatever the attempts meet, wherever they stall and however many there are, a
   failed solve() returns the closest posture it evaluated and a successful one a
   posture within tolerance. *)
THEOREM IkIsBestEffort == Spec => []BestEffort
<1>1. Init => IkInv
  BY IkInitInv DEF Init
<1>2. IkInv /\ [Next]_vars => IkInv'
  BY IkInvPreserved
<1>3. IkInv => BestEffort
  BY IkAssumed DEF IkInv, BestEffort, IkTypeOK, Closest
<1>. QED
  BY <1>1, <1>2, <1>3, PTL DEF Spec

-------------------------------------------------------------------------------
(* Resampling *)

LEMMA PairIsPoint ==
  ASSUME NEW f \in [Axes -> Int]
  PROVE  f \in Points
BY DEF Axes, Points

LEMMA PointIsPair ==
  ASSUME NEW p \in Points
  PROVE  /\ p \in [Axes -> Int]
         /\ p[1] \in Int /\ p[2] \in Int
         /\ p = [i \in Axes |-> p[i]]
BY DEF Axes, Points

LEMMA LengthNat ==
  ASSUME NEW a \in Points, NEW b \in Points
  PROVE  Length(a, b) \in Nat /\ (Length(a, b) = 0 => a = b)
BY PointIsPair DEF Length, Abs, Points

LEMMA MType == M \in Nat /\ M >= 3
BY RefinerAssumption DEF M

(* The arc length is 0 at the first point and grows by the length of each segment. *)
LEMMA CumProperties ==
  ASSUME NEW poly \in Seq(Points), Len(poly) >= 1
  PROVE  /\ Cum(poly) \in [1 .. Len(poly) -> Nat]
         /\ Cum(poly)[1] = 0
         /\ \A i \in 2 .. Len(poly) : Cum(poly)[i] = Cum(poly)[i - 1] + Length(poly[i - 1], poly[i])
<1> DEFINE n == Len(poly)
           gap == [i \in 1 .. n |-> IF i = 1 THEN 0 ELSE Length(poly[i - 1], poly[i])]
           Rec(f) == f = [i \in DOMAIN poly |-> IF i = 1 THEN 0 ELSE f[i - 1] + Length(poly[i - 1], poly[i])]
<1>1. n \in Nat \ {0} /\ DOMAIN poly = 1 .. n
  OBVIOUS
<1>2. \A i \in 2 .. n : Length(poly[i - 1], poly[i]) \in Nat
  <2>1. \A i \in 2 .. n : poly[i - 1] \in Points /\ poly[i] \in Points
    BY <1>1
  <2> HIDE DEF n, gap
  <2>. QED
    BY <2>1, LengthNat
<1>3. gap \in [1 .. n -> Nat] /\ \A i \in 2 .. n : gap[i] = Length(poly[i - 1], poly[i])
  BY <1>1, <1>2
<1>4. PICK f \in [1 .. n -> Nat] : f[1] = 0 /\ \A i \in 2 .. n : f[i] = f[i - 1] + Length(poly[i - 1], poly[i])
  <2> DEFINE op == [i \in 1 .. n |-> [x \in Nat |-> x + gap[i]]]
  <2> HIDE DEF gap, n
  <2>1. op \in [1 .. n -> [Nat -> Nat]]
    BY <1>3
  <2>2. \A i \in 2 .. n : \A x \in Nat : op[i][x] = x + gap[i]
    BY <1>1
  <2> HIDE DEF op
  <2>3. PICK f \in [1 .. n -> Nat] : f[1] = 0 /\ \A i \in 2 .. n : f[i] = op[i][f[i - 1]]
    <3>1. n \in Nat \ {0} /\ 0 \in Nat
      BY <1>1
    <3>2. Recursion(n, Nat, 0, op)
      BY <2>1, <3>1 DEF Recursion
    <3>3. HasSolution(n, Nat, 0, op)
      BY <3>1, <3>2, Iteration
    <3>. QED
      BY <3>3 DEF HasSolution
  <2>4. \A i \in 2 .. n : f[i] = f[i - 1] + Length(poly[i - 1], poly[i])
    <3>1. \A i \in 2 .. n : f[i - 1] \in Nat
      BY <1>1
    <3>. QED
      BY ZenonT(90), <1>3, <2>2, <2>3, <3>1
  <2>. QED
    BY <2>3, <2>4
<1>5. Rec(f)
  BY <1>1, <1>4
<1>6. Cum(poly) = CHOOSE h : Rec(h)
  BY DEF Cum
<1>7. Rec(Cum(poly))
  <2> HIDE DEF Rec
  <2>. QED
    BY <1>5, <1>6
<1> DEFINE c == Cum(poly)
<1>8. DOMAIN c = 1 .. n
  BY <1>1, <1>7
<1>9. c[1] = 0 /\ \A i \in 2 .. n : c[i] = c[i - 1] + Length(poly[i - 1], poly[i])
  <2>1. c = [i \in 1 .. n |-> IF i = 1 THEN 0 ELSE c[i - 1] + Length(poly[i - 1], poly[i])]
    BY <1>1, <1>7
  <2>2. 1 \in 1 .. n /\ \A i \in 2 .. n : i \in 1 .. n /\ i # 1
    BY <1>1
  <2> HIDE DEF c, n
  <2>. QED
    BY <2>1, <2>2
<1>10. c = f
  <2>1. f = [i \in 1 .. n |-> f[i]] /\ c = [i \in 1 .. n |-> c[i]]
    BY <1>1, <1>4, <1>7
  <2> HIDE DEF c, n
  <2>2. \A i \in 2 .. n : c[i - 1] = f[i - 1] => c[i] = f[i]
    BY <1>4, <1>9
  <2>3. n \in Nat /\ (n > 0 => c[1] = f[1])
    BY <1>1, <1>4, <1>9
  <2>4. SameRecursion(n, f, c)
    BY <2>1, <2>2, <2>3 DEF SameRecursion
  <2>. QED
    BY <2>3, <2>4, IterationUnique
<1>. QED
  BY <1>4, <1>10

(* When the total is 0, all the points are one. *)
LEMMA NoLengthOnePoint ==
  ASSUME NEW poly \in Seq(Points), Len(poly) >= 1, Cum(poly)[Len(poly)] = 0
  PROVE  \A i \in 1 .. Len(poly) : poly[i] = poly[1]
<1> DEFINE n == Len(poly)
           cum == Cum(poly)
<1>1. /\ n \in Nat \ {0} /\ cum \in [1 .. n -> Nat] /\ cum[n] = 0
      /\ \A i \in 2 .. n : /\ cum[i] = cum[i - 1] + Length(poly[i - 1], poly[i])
                           /\ Length(poly[i - 1], poly[i]) \in Nat
                           /\ Length(poly[i - 1], poly[i]) = 0 => poly[i - 1] = poly[i]
  <2>1. \A i \in 2 .. n : poly[i - 1] \in Points /\ poly[i] \in Points
    OBVIOUS
  <2>2. \A i \in 2 .. n : /\ Length(poly[i - 1], poly[i]) \in Nat
                          /\ Length(poly[i - 1], poly[i]) = 0 => poly[i - 1] = poly[i]
    <3> HIDE DEF n
    <3>. QED
      BY <2>1, LengthNat
  <2>3. n \in Nat \ {0}
    OBVIOUS
  <2>. QED
    BY <2>2, <2>3, CumProperties
<1> HIDE DEF cum, n
<1>2. \A i \in 1 .. n : cum[i] = 0
  <2> DEFINE Above == {k \in 0 .. n : k < n /\ cum[n - k] # 0}
  <2>1. SUFFICES ASSUME Above # {}
                 PROVE  FALSE
    <3>1. SUFFICES ASSUME NEW i \in 1 .. n, cum[i] # 0
                   PROVE  FALSE
      OBVIOUS
    <3>2. n - i \in Above
      <4>1. n - i \in 0 .. n /\ n - i < n /\ n - (n - i) = i
        BY <1>1, <3>1
      <4>. QED
        BY <3>1, <4>1
    <3>. QED
      BY <2>1, <3>2
  <2>2. PICK k \in Above : \A j \in Above : k <= j
    <3>1. Above \in SUBSET Nat
      BY <1>1
    <3> HIDE DEF Above
    <3>. QED
      BY <2>1, <3>1, LeastElement
  <2>3. k # 0
    BY <1>1, <2>2
  <2>4. k - 1 \in 0 .. n /\ k - 1 < n /\ k - 1 \notin Above
    <3>1. k \in 0 .. n /\ k - 1 \in 0 .. n /\ k - 1 < n /\ ~ (k <= k - 1)
      BY <1>1, <2>2, <2>3
    <3> HIDE DEF Above
    <3>. QED
      BY <2>2, <3>1
  <2>5. n - (k - 1) \in 2 .. n /\ (n - (k - 1)) - 1 = n - k /\ n - k \in 1 .. n
    BY <1>1, <2>2, <2>3
  <2>6. cum[n - (k - 1)] = 0
    BY <2>4
  <2>7. 0 = cum[n - k] + Length(poly[n - k], poly[n - (k - 1)])
    BY <1>1, <2>5, <2>6
  <2>8. cum[n - k] \in Nat /\ Length(poly[n - k], poly[n - (k - 1)]) \in Nat /\ cum[n - k] # 0
    BY <1>1, <2>2, <2>5
  <2>. QED
    BY <2>7, <2>8
<1>3. \A i \in 2 .. n : poly[i - 1] = poly[i]
  <2>1. SUFFICES ASSUME NEW i \in 2 .. n
                 PROVE  poly[i - 1] = poly[i]
    OBVIOUS
  <2>2. i - 1 \in 1 .. n /\ i \in 1 .. n
    BY <1>1, <2>1
  <2>3. cum[i] = 0 /\ cum[i - 1] = 0
    BY <1>2, <2>2
  <2>. QED
    BY <1>1, <2>1, <2>3
<1>4. SUFFICES \A i \in 1 .. n : poly[i] = poly[1]
  BY DEF n
<1> DEFINE Other == {i \in 1 .. n : poly[i] # poly[1]}
<1>5. SUFFICES ASSUME Other # {}
               PROVE  FALSE
  OBVIOUS
<1>6. PICK i \in Other : \A j \in Other : i <= j
  <2>1. Other \in SUBSET Nat
    OBVIOUS
  <2> HIDE DEF Other
  <2>. QED
    BY <1>5, <2>1, LeastElement
<1>7. i \in 2 .. n /\ i - 1 \in 1 .. n /\ i - 1 \notin Other
  <2>1. i \in 2 .. n /\ i - 1 \in 1 .. n /\ ~ (i <= i - 1)
    BY <1>1, <1>6
  <2> HIDE DEF Other
  <2>. QED
    BY <1>6, <2>1
<1>. QED
  BY <1>3, <1>6, <1>7

(* The share k of n of the way from a to b. *)
LEMMA BetweenPoints ==
  ASSUME NEW a \in Points, NEW b \in Points, NEW k \in Int, NEW n \in Nat \ {0}
  PROVE  /\ Between(a, b, k, n) \in Points
         /\ k = 0 => Between(a, b, k, n) = a
<1>1. \A i \in Axes : a[i] \in Int /\ b[i] \in Int
  BY PointIsPair
<1>2. \A i \in Axes : (b[i] - a[i]) * k \in Int
  BY <1>1
<1>3. \A i \in Axes : a[i] + ((b[i] - a[i]) * k) \div n \in Int
  BY <1>1, <1>2
<1>4. Between(a, b, k, n) \in [Axes -> Int]
  BY <1>3 DEF Between
<1>5. ASSUME k = 0
      PROVE  Between(a, b, k, n) = a
  <2>1. \A i \in Axes : (b[i] - a[i]) * k = 0
    BY <1>1, <1>5
  <2>2. 0 \div n = 0
    OBVIOUS
  <2>3. \A i \in Axes : a[i] + ((b[i] - a[i]) * k) \div n = a[i]
    BY <1>1, <2>1, <2>2
  <2>. QED
    BY <2>3, PointIsPair DEF Between
<1>. QED
  BY <1>4, <1>5, PairIsPoint

(* The place at arc length s: on a segment, and the first point when s is 0. *)
LEMMA AtProperties ==
  ASSUME NEW poly \in Seq(Points), Len(poly) >= 2, NEW s \in Nat
  PROVE  /\ At(poly, Cum(poly), s) \in Points
         /\ s = 0 => At(poly, Cum(poly), s) = poly[1]
<1> DEFINE cum == Cum(poly)
           last == Len(poly) - 1
           First(i) == (i = last \/ cum[i + 1] >= s) /\ \A j \in 1 .. i - 1 : cum[j + 1] < s
           seg == CHOOSE i \in 1 .. last : First(i)
           len == cum[seg + 1] - cum[seg]
<1>1. /\ Len(poly) \in Nat /\ last \in Nat \ {0}
      /\ cum \in [1 .. last + 1 -> Nat] /\ cum[1] = 0
      /\ \A i \in 1 .. last : cum[i + 1] = cum[i] + Length(poly[i], poly[i + 1])
  <2>1. Len(poly) \in Nat /\ last \in Nat \ {0} /\ Len(poly) = last + 1
    <3> DEFINE n == Len(poly)
    <3>1. n \in Nat /\ n >= 2
      OBVIOUS
    <3> HIDE DEF n
    <3>2. n - 1 \in Nat \ {0} /\ n = (n - 1) + 1
      BY <3>1
    <3>. QED
      BY <3>1, <3>2 DEF n
  <2>2. \A i \in 1 .. last : i + 1 \in 2 .. Len(poly) /\ (i + 1) - 1 = i
    BY <2>1
  <2>. QED
    BY <2>1, <2>2, CumProperties
<1>2. \A i \in 1 .. last : poly[i] \in Points /\ poly[i + 1] \in Points
  BY <1>1
<1>3. \A i \in 1 .. last : Length(poly[i], poly[i + 1]) \in Nat
  BY <1>2, LengthNat
<1> HIDE DEF cum, last
<1>4. \E i \in 1 .. last : First(i)
  <2> DEFINE Stops == {i \in 1 .. last : i = last \/ cum[i + 1] >= s}
  <2>1. PICK i \in Stops : \A j \in Stops : i <= j
    <3>1. Stops \in SUBSET Nat /\ last \in Stops
      BY <1>1
    <3> HIDE DEF Stops
    <3>. QED
      BY <3>1, LeastElement
  <2>2. ASSUME NEW j \in 1 .. i - 1
        PROVE  cum[j + 1] < s
    <3>1. j \in 1 .. last /\ j # last /\ ~ (i <= j) /\ j + 1 \in 1 .. last + 1
      BY <1>1, <2>1, <2>2
    <3>2. ~ (cum[j + 1] >= s)
      BY <2>1, <3>1
    <3>. QED
      BY <1>1, <3>1, <3>2
  <2>. QED
    BY <2>1, <2>2
<1>5. seg \in 1 .. last /\ First(seg)
  <2> HIDE DEF First
  <2>. QED
    BY <1>4
<1>6. s = 0 => seg = 1
  <2>1. SUFFICES ASSUME s = 0, seg # 1
                 PROVE  FALSE
    OBVIOUS
  <2>2. 1 \in 1 .. seg - 1 /\ 1 + 1 \in 1 .. last + 1
    BY <1>1, <1>5, <2>1
  <2>3. cum[1 + 1] < 0 /\ cum[1 + 1] \in Nat
    BY <1>1, <1>5, <2>1, <2>2
  <2>. QED
    BY <2>3
<1>7. At(poly, cum, s) = IF len = 0 THEN poly[seg] ELSE Between(poly[seg], poly[seg + 1], s - cum[seg], len)
  BY DEF At, last
<1>8. len \in Nat /\ cum[seg] \in Nat
  <2>1. seg \in 1 .. last + 1 /\ cum[seg] \in Nat
    BY <1>1, <1>5
  <2>2. cum[seg + 1] = cum[seg] + Length(poly[seg], poly[seg + 1])
    BY <1>1, <1>5
  <2>3. Length(poly[seg], poly[seg + 1]) \in Nat
    BY <1>3, <1>5
  <2> HIDE DEF seg
  <2>. QED
    BY <2>1, <2>2, <2>3
<1>9. poly[seg] \in Points /\ poly[seg + 1] \in Points
  BY <1>2, <1>5
<1>10. s = 0 => s - cum[seg] = 0
  <2> HIDE DEF seg
  <2>. QED
    BY <1>1, <1>6
<1> HIDE DEF seg, len
<1>11. At(poly, cum, s) \in Points
  <2>1. s - cum[seg] \in Int
    BY <1>8
  <2>. QED
    BY <1>7, <1>8, <1>9, <2>1, BetweenPoints
<1>12. ASSUME s = 0
       PROVE  At(poly, cum, s) = poly[1]
  <2>1. s - cum[seg] \in Int
    BY <1>8
  <2>2. seg = 1 /\ s - cum[seg] = 0
    BY <1>6, <1>10, <1>12
  <2>3. CASE len = 0
    BY <1>7, <2>2, <2>3
  <2>4. CASE len # 0
    <3>1. Between(poly[seg], poly[seg + 1], s - cum[seg], len) = poly[seg]
      BY <1>8, <1>9, <2>1, <2>2, <2>4, BetweenPoints
    <3>. QED
      BY <1>7, <2>2, <2>4, <3>1
  <2>. QED
    BY <2>3, <2>4
<1>. QED
  BY <1>11, <1>12 DEF cum

(* Resampling gives M points and keeps both ends. *)
LEMMA ResampleKeepsEnds ==
  ASSUME NEW poly \in Seq(Points), Len(poly) >= 2
  PROVE  /\ Resample(poly) \in [1 .. M -> Points]
         /\ Resample(poly)[1] = poly[1]
         /\ Resample(poly)[M] = poly[Len(poly)]
<1> DEFINE cum == Cum(poly)
           total == cum[Len(poly)]
           Point(k) == IF total = 0 THEN poly[1]
                       ELSE IF k = M THEN poly[Len(poly)]
                       ELSE At(poly, cum, (total * (k - 1)) \div (M - 1))
<1>1. Resample(poly) = [k \in 1 .. M |-> Point(k)]
  BY DEF Resample
<1>2. M \in Nat /\ M >= 3 /\ M - 1 \in Nat \ {0} /\ Len(poly) \in Nat \ {0}
  BY MType
<1>3. total \in Nat
  BY <1>2, CumProperties
<1>4. poly[1] \in Points /\ poly[Len(poly)] \in Points
  BY <1>2
<1>5. total = 0 => poly[Len(poly)] = poly[1]
  BY <1>2, NoLengthOnePoint
<1> HIDE DEF total
<1>6. ASSUME NEW k \in 1 .. M
      PROVE  Point(k) \in Points
  <2>1. total * (k - 1) \in Nat
    BY <1>2, <1>3
  <2>2. (total * (k - 1)) \div (M - 1) \in Nat
    BY <1>2, <2>1
  <2>. QED
    BY <1>4, <2>2, AtProperties
<1>7. Point(1) = poly[1]
  <2>1. total * (1 - 1) = 0
    BY <1>3
  <2>2. 0 \div (M - 1) = 0
    BY <1>2
  <2>3. M # 1
    BY <1>2
  <2>. QED
    BY <2>1, <2>2, <2>3, AtProperties
<1>8. Point(M) = poly[Len(poly)]
  BY <1>5
<1> HIDE DEF Point
<1>. QED
  BY <1>1, <1>2, <1>6, <1>7, <1>8

-------------------------------------------------------------------------------
(* Sampling *)

LEMMA StepsType ==
  ASSUME NEW a \in Points, NEW b \in Points
  PROVE  Steps(a, b) \in Nat \ {0} /\ Steps(b, a) = Steps(a, b)
<1> DEFINE da == Abs(b[1] - a[1])
           db == Abs(b[2] - a[2])
<1>1. a[1] \in Int /\ a[2] \in Int /\ b[1] \in Int /\ b[2] \in Int
  BY PointIsPair
<1>2. da \in Nat /\ db \in Nat /\ Abs(a[1] - b[1]) = da /\ Abs(a[2] - b[2]) = db
  BY <1>1 DEF Abs
<1>3. Levers[1] \in Nat /\ Levers[2] \in Nat /\ MaxSweep \in Nat /\ Resolution \in Nat \ {0}
  BY RefinerAssumption DEF Axes
<1> DEFINE sweep == Levers[1] * da + Levers[2] * db
<1>4. sweep \in Nat
  BY <1>2, <1>3
<1>5. Larger(da, db) \in Nat
  BY <1>2 DEF Larger
<1>6. MaxSweep > 0 => Larger(1, Ceil(sweep, MaxSweep)) \in Nat \ {0}
  <2> HIDE DEF sweep
  <2>1. MaxSweep > 0 => Ceil(sweep, MaxSweep) \in Int
    BY <1>3, <1>4 DEF Ceil
  <2>. QED
    BY <2>1 DEF Larger
<1>7. Larger(1, Ceil(Larger(da, db), Resolution)) \in Nat \ {0}
  <2>1. Ceil(Larger(da, db), Resolution) \in Int
    BY <1>3, <1>5 DEF Ceil
  <2>. QED
    BY <2>1 DEF Larger
<1>8. Steps(a, b) = IF MaxSweep > 0 THEN Larger(1, Ceil(sweep, MaxSweep))
                    ELSE Larger(1, Ceil(Larger(da, db), Resolution))
  BY DEF Steps, Axes
<1>9. Steps(b, a) = IF MaxSweep > 0 THEN Larger(1, Ceil(sweep, MaxSweep))
                    ELSE Larger(1, Ceil(Larger(da, db), Resolution))
  BY <1>2 DEF Steps, Axes
<1>. QED
  BY <1>6, <1>7, <1>8, <1>9

(* An edge and its reverse are sampled in the same cells. *)
LEMMA CellReversed ==
  ASSUME NEW a \in Points, NEW b \in Points, NEW n \in Nat \ {0}, NEW k \in 0 .. n
  PROVE  Cell(b, a, n - k, n) = Cell(a, b, k, n)
<1>1. ASSUME NEW i \in Axes
      PROVE  b[i] * n + (a[i] - b[i]) * (n - k) = a[i] * n + (b[i] - a[i]) * k
  <2>1. ASSUME NEW x \in Int, NEW y \in Int
        PROVE  y * n + (x - y) * (n - k) = x * n + (y - x) * k
    BY <2>1
  <2>2. a[i] \in Int /\ b[i] \in Int
    BY PointIsPair
  <2>. QED
    BY <2>1, <2>2
<1>. QED
  BY <1>1 DEF Cell

LEMMA BlockedReversed ==
  ASSUME NEW o, NEW a \in Points, NEW b \in Points, Blocked(o, b, a)
  PROVE  Blocked(o, a, b)
<1> DEFINE n == Steps(a, b)
<1>1. n \in Nat \ {0} /\ Steps(b, a) = n
  BY StepsType
<1> HIDE DEF n
<1>2. PICK k \in 0 .. n : Cell(b, a, k, n) \in o
  BY <1>1 DEF Blocked
<1>3. n - k \in 0 .. n /\ n - (n - k) = k
  BY <1>1
<1>4. Cell(b, a, k, n) = Cell(a, b, n - k, n)
  BY <1>1, <1>3, CellReversed
<1>. QED
  BY <1>2, <1>3, <1>4 DEF Blocked, n

(* The samples of an edge include its ends. *)
LEMMA Quotient ==
  ASSUME NEW x \in Int, NEW n \in Nat \ {0}
  PROVE  (2 * (x * n) + n) \div (2 * n) = x
<1> DEFINE w == 2 * n
<1>1. w \in Nat \ {0} /\ n < w
  OBVIOUS
<1>2. 2 * (x * n) + n = w * x + n
  OBVIOUS
<1>3. ASSUME NEW d \in Nat \ {0}, NEW e \in Nat, e < d
      PROVE  (d * x + e) \div d = x
  BY <1>3
<1> HIDE DEF w
<1>4. (w * x + n) \div w = x
  BY <1>1, <1>3
<1>. QED
  BY <1>2, <1>4 DEF w

LEMMA EndsSampled ==
  ASSUME NEW a \in Points, NEW b \in Points, NEW o, ~ Blocked(o, a, b)
  PROVE  a \notin o /\ b \notin o
<1> DEFINE n == Steps(a, b)
<1>1. n \in Nat \ {0}
  BY StepsType
<1> HIDE DEF n
<1>2. 0 \in 0 .. n /\ n \in 0 .. n
  BY <1>1
<1>3. ASSUME NEW i \in Axes
      PROVE  /\ (2 * (a[i] * n + (b[i] - a[i]) * 0) + n) \div (2 * n) = a[i]
             /\ (2 * (a[i] * n + (b[i] - a[i]) * n) + n) \div (2 * n) = b[i]
  <2>1. ASSUME NEW x \in Int, NEW y \in Int
        PROVE  x * n + (y - x) * 0 = x * n /\ x * n + (y - x) * n = y * n
    BY <1>1
  <2>2. a[i] \in Int /\ b[i] \in Int
    BY PointIsPair
  <2>. QED
    BY <1>1, <2>1, <2>2, Quotient
<1>4. Cell(a, b, 0, n) = a /\ Cell(a, b, n, n) = b
  BY <1>3, PointIsPair DEF Cell
<1>. QED
  BY <1>2, <1>4 DEF Blocked, n

-------------------------------------------------------------------------------
(* The planner *)

(* A trajectory that joins the start to a configuration the goal asks for. *)
Ends(t) == t \in [1 .. M -> Points] /\ t[1] = Start /\ t[M] \in Wanted

(* What plan() knows of its problem, of the goal configurations it has found and
   of the trajectory it works on: updates hold the ends, and what it returns has
   been certified. *)
PlanInv ==
  /\ TypeOK
  /\ goal \in Targets /\ seed \in Seeds /\ hits \in Obstacles /\ SeedFits
  /\ local \in Seq(Wanted) /\ found \in Seq(Wanted)
  /\ ik_pc # "idle" => pc = "resolve" /\ sub < Len(goal) /\ Current = Pose
  /\ pc \in {"optimise", "certify"} => Ends(init) /\ Ends(traj)
  /\ pc = "done" <=> status # "none"
  /\ status # "Success" => path = <<>>
  /\ status = "Success" => Ends(path) /\ Certified(path)

LEMMA Assumed ==
  /\ Cfg \subseteq Points /\ Postures \subseteq Cfg /\ IsFiniteSet(Cfg)
  /\ Start \in Cfg /\ Start \in Points
  /\ \A g \in Targets : g \in Seq(Cfg \cup {Pose})
  /\ \A s \in Seeds : s \in Seq(Cfg) /\ s \in Seq(Points)
  /\ \A o \in Obstacles : o \subseteq Cfg
  /\ MaxIterations \in Nat /\ MaxAttempts \in Nat \ {0}
  /\ Moves \subseteq Points
<1>1. \A s \in Seeds : s \in Seq(Points)
  BY RefinerAssumption
<1>. QED
  BY <1>1, RefinerAssumption

LEMMA EndsType ==
  ASSUME NEW t \in [1 .. M -> Points]
  PROVE  Trajectory(t) /\ t \in Seq(Points) /\ Len(t) = M /\ DOMAIN t = 1 .. M
BY MType DEF Trajectory

LEMMA WantedType == Wanted \subseteq Cfg
BY DEF Wanted

LEMMA CurrentWanted ==
  ASSUME goal \in Targets, sub \in 0 .. Len(goal), sub < Len(goal)
  PROVE  /\ Current \in Cfg \cup {Pose}
         /\ Current # Pose => Current \in Wanted
         /\ \A c \in Postures : Current = Pose /\ Err[c] = 0 => c \in Wanted
<1>1. goal \in Seq(Cfg \cup {Pose}) /\ sub + 1 \in 1 .. Len(goal) /\ sub + 1 \in DOMAIN goal
  BY Assumed
<1>2. Current \in Cfg \cup {Pose}
  BY <1>1 DEF Current
<1>. QED
  BY <1>1, <1>2, Assumed DEF Wanted, Satisfies, Current

LEMMA WantedUnchanged ==
  ASSUME UNCHANGED given
  PROVE  /\ goal' = goal /\ seed' = seed /\ hits' = hits
         /\ Wanted' = Wanted /\ (SeedFits' <=> SeedFits) /\ (Standalone' <=> Standalone)
         /\ \A t : (Ends(t)' <=> Ends(t)) /\ (Certified(t)' <=> Certified(t))
BY DEF given, Wanted, SeedFits, Standalone, Ends, Certified

LEMMA ClampPoint ==
  ASSUME NEW p \in Points
  PROVE  Clamp(p) \in Points
<1>1. ASSUME NEW i \in Axes
      PROVE  Bounds(i) = <<>> \/ (Bounds(i)[1] \in Int /\ Bounds(i)[2] \in Int)
  <2>1. Limits[i] = <<>> \/ (Limits[i][1] \in Int /\ Limits[i][2] \in Int)
    BY RefinerAssumption, PointIsPair
  <2>2. JointBounds = <<>> \/ (JointBounds[i][1] \in Int /\ JointBounds[i][2] \in Int)
    BY RefinerAssumption, PointIsPair
  <2>3. CASE JointBounds = <<>>
    BY <2>1, <2>3 DEF Bounds
  <2>4. CASE JointBounds # <<>> /\ Limits[i] = <<>>
    BY <2>2, <2>4 DEF Bounds
  <2>5. CASE JointBounds # <<>> /\ Limits[i] # <<>>
    <3>1. Bounds(i) = <<Larger(Limits[i][1], JointBounds[i][1]), Least(Limits[i][2], JointBounds[i][2])>>
      BY <2>5 DEF Bounds
    <3>2. /\ Larger(Limits[i][1], JointBounds[i][1]) \in Int
          /\ Least(Limits[i][2], JointBounds[i][2]) \in Int
      BY <2>1, <2>2, <2>5 DEF Larger, Least
    <3>. QED
      BY <3>1, <3>2
  <2>. QED
    BY <2>3, <2>4, <2>5
<1>2. ASSUME NEW i \in Axes
      PROVE  (IF Bounds(i) = <<>> THEN p[i] ELSE Larger(Bounds(i)[1], Least(p[i], Bounds(i)[2]))) \in Int
  <2>1. p[i] \in Int
    BY PointIsPair
  <2>. QED
    BY <1>1, <2>1 DEF Larger, Least
<1>3. Clamp(p) \in [Axes -> Int]
  BY <1>2 DEF Clamp
<1>. QED
  BY <1>3, PairIsPoint

LEMMA UpdatedEnds ==
  ASSUME Ends(traj), NEW step \in [Interior -> Moves]
  PROVE  Ends(Updated(step))
<1>1. 1 \in 1 .. M /\ M \in 1 .. M /\ 1 \notin Interior /\ M \notin Interior
  BY MType DEF Interior
<1>2. ASSUME NEW k \in 1 .. M
      PROVE  (IF k \in Interior THEN Clamp(Moved(traj[k], step[k])) ELSE traj[k]) \in Points
  <2>1. traj[k] \in Points
    BY DEF Ends
  <2>2. ASSUME k \in Interior
        PROVE  Moved(traj[k], step[k]) \in Points
    <3>1. step[k] \in Points
      BY <2>2, Assumed
    <3>2. Moved(traj[k], step[k]) \in [Axes -> Int]
      BY <2>1, <3>1, PointIsPair DEF Moved
    <3>. QED
      BY <3>2, PairIsPoint
  <2>. QED
    BY <2>1, <2>2, ClampPoint
<1>. QED
  BY <1>1, <1>2 DEF Ends, Updated

LEMMA SeedEnds ==
  ASSUME seed \in Seeds, SeedFits, Len(seed) >= 2
  PROVE  Ends(Resample(seed))
BY Assumed, ResampleKeepsEnds DEF SeedFits, Ends

LEMMA LineEnds ==
  ASSUME NEW c \in Wanted
  PROVE  Ends(Resample(<<Start, c>>))
<1> DEFINE line == <<Start, c>>
<1>1. line \in Seq(Points) /\ Len(line) = 2 /\ line[1] = Start /\ line[2] = c
  BY Assumed, WantedType
<1> HIDE DEF line
<1>2. Ends(Resample(line))
  BY <1>1, ResampleKeepsEnds DEF Ends
<1>. QED
  BY <1>2 DEF line

LEMMA InitPlanInv == Init => PlanInv /\ IkInv
<1> SUFFICES ASSUME Init
             PROVE  PlanInv /\ IkInv
  OBVIOUS
<1>1. IkInv
  BY IkInitInv DEF Init
<1>2. Len(goal) \in Nat
  BY Assumed DEF Init
<1>3. TypeOK
  BY <1>1, <1>2, Assumed DEF Init, TypeOK, IkInv, Trajectory
<1>. QED
  BY <1>1, <1>3 DEF Init, PlanInv, IkInit

(* Steps that leave the trajectories alone. *)
LEMMA SearchPreserves ==
  ASSUME PlanInv, IkInv, IkInv', UNCHANGED <<given, init, traj, path, updates>>,
         sub' \in 0 .. Len(goal), tries' \in 0 .. MaxAttempts,
         local' \in Seq(Wanted), found' \in Seq(Wanted),
         ik_pc' # "idle" => pc' = "resolve" /\ sub' < Len(goal) /\ Current' = Pose,
         \/ pc' \in {"validate", "resolve", "certify"} /\ pc # "done" /\ status' = status
         \/ pc' = "done" /\ status' \in {"NoSolution", "InvalidProblem"},
         pc' = "certify" => pc \in {"optimise", "certify"},
         pc # "done"
  PROVE  PlanInv'
<1>1. local' \in Seq(Cfg) /\ found' \in Seq(Cfg)
  BY WantedType
<1>2. path = <<>> /\ status = "none"
  BY DEF PlanInv
<1>3. /\ init' = init /\ traj' = traj /\ path' = path /\ updates' = updates
  OBVIOUS
<1>4. TypeOK'
  BY <1>1, <1>2, <1>3, WantedUnchanged DEF PlanInv, TypeOK, IkInv, Trajectory
<1>5. pc' \in {"optimise", "certify"} => Ends(init)' /\ Ends(traj)'
  BY <1>3, WantedUnchanged DEF PlanInv, Ends
<1>. QED
  BY <1>2, <1>3, <1>4, <1>5, WantedUnchanged DEF PlanInv

LEMMA FailPreserves ==
  ASSUME PlanInv, IkInv, IkInv', NEW s \in {"NoSolution", "InvalidProblem"}, Fail(s), pc # "done",
         ik_pc = "idle"
  PROVE  PlanInv'
<1>1. UNCHANGED <<given, init, traj, path, updates, sub, tries, local, found>> /\ ik_pc' = "idle"
  BY DEF Fail, ik
<1>2. pc' = "done" /\ status' = s
  BY DEF Fail, Finish
<1>3. /\ sub' \in 0 .. Len(goal) /\ tries' \in 0 .. MaxAttempts
      /\ local' \in Seq(Wanted) /\ found' \in Seq(Wanted)
  BY <1>1 DEF PlanInv, TypeOK
<1>. QED
  BY <1>1, <1>2, <1>3, SearchPreserves

LEMMA NextSubPreserves ==
  ASSUME PlanInv, IkInv, IkInv', NEW configs \in Seq(Wanted), NextSub(configs), UNCHANGED ik,
         pc = "resolve", sub < Len(goal), ik_pc = "idle"
  PROVE  PlanInv'
<1>1. goal \in Seq(Cfg \cup {Pose}) /\ Len(goal) \in Nat
  BY Assumed DEF PlanInv
<1>2. sub' \in 0 .. Len(goal) /\ tries' \in 0 .. MaxAttempts
  BY <1>1, Assumed DEF PlanInv, TypeOK, NextSub
<1>3. local' \in Seq(Wanted) /\ found' \in Seq(Wanted)
  BY DEF NextSub, PlanInv
<1>4. UNCHANGED <<given, init, traj, path, updates, pc, status>> /\ ik_pc' = "idle"
  BY DEF NextSub, ik
<1>. QED
  BY <1>2, <1>3, <1>4, SearchPreserves

LEMMA PlanInvPreserved ==
  ASSUME PlanInv, IkInv, IkInv', [Next]_vars
  PROVE  PlanInv'
<1>1. CASE Reject
  <2>1. pc = "validate" /\ Fail("InvalidProblem")
    BY <1>1 DEF Reject
  <2>. QED
    BY <2>1, FailPreserves DEF PlanInv
<1>2. CASE NoGoal
  <2>1. pc = "resolve" /\ sub = Len(goal) /\ Fail("NoSolution") /\ Len(goal) \in Nat
    BY <1>2, Assumed DEF NoGoal, PlanInv
  <2>2. ik_pc = "idle"
    BY <2>1 DEF PlanInv
  <2>. QED
    BY <2>1, <2>2, FailPreserves
<1>3. CASE Refuse \/ (FallBack /\ Fail("NoSolution"))
  <2>1. pc = "certify" /\ Fail("NoSolution")
    BY <1>3 DEF Refuse, FallBack
  <2>. QED
    BY <2>1, FailPreserves DEF PlanInv
<1>4. CASE Resolve
  <2>1. /\ UNCHANGED <<given, init, traj, path, updates, sub, tries, local, found, status>>
        /\ pc = "validate" /\ pc' = "resolve" /\ ik_pc' = ik_pc
    BY <1>4 DEF Resolve, ik
  <2>2. /\ sub' \in 0 .. Len(goal) /\ tries' \in 0 .. MaxAttempts /\ ik_pc = "idle"
        /\ local' \in Seq(Wanted) /\ found' \in Seq(Wanted)
    BY <2>1 DEF PlanInv, TypeOK
  <2>. QED
    BY <2>1, <2>2, SearchPreserves
<1>5. CASE TakeJoint
  <2>1. pc = "resolve" /\ sub < Len(goal) /\ Current # Pose /\ NextSub(<<Current>>) /\ UNCHANGED ik
    BY <1>5 DEF TakeJoint
  <2>2. Current \in Wanted /\ ik_pc = "idle"
    BY <2>1, CurrentWanted DEF PlanInv, TypeOK
  <2>3. <<Current>> \in Seq(Wanted)
    BY <2>2
  <2>. QED
    BY <2>1, <2>2, <2>3, NextSubPreserves
<1>6. CASE CallIk
  <2>1. /\ UNCHANGED <<given, init, traj, path, updates, pc, sub, local, found, status>>
        /\ pc = "resolve" /\ sub < Len(goal) /\ Current = Pose /\ tries < MaxAttempts /\ tries' = tries + 1
    BY <1>6 DEF CallIk
  <2>2. /\ sub' \in 0 .. Len(goal) /\ tries' \in 0 .. MaxAttempts
        /\ local' \in Seq(Wanted) /\ found' \in Seq(Wanted)
    BY <2>1, Assumed DEF PlanInv, TypeOK
  <2>3. Current' = Current
    BY <2>1 DEF Current, given
  <2>. QED
    BY <2>1, <2>2, <2>3, SearchPreserves
<1>7. CASE SolveIk
  <2>1. /\ UNCHANGED <<given, init, traj, path, updates, pc, sub, tries, local, found, status>>
        /\ pc = "resolve" /\ IkNext
    BY <1>7 DEF SolveIk
  <2>2. /\ sub' \in 0 .. Len(goal) /\ tries' \in 0 .. MaxAttempts
        /\ local' \in Seq(Wanted) /\ found' \in Seq(Wanted)
    BY <2>1 DEF PlanInv, TypeOK
  <2>3. ik_pc # "idle"
    BY <2>1 DEF IkNext, Restart, GiveUp, Reach, Iterate, Exhaust
  <2>4. Current' = Current
    BY <2>1 DEF Current, given
  <2>5. sub < Len(goal) /\ Current = Pose
    BY <2>3 DEF PlanInv
  <2>. QED
    BY <2>1, <2>2, <2>4, <2>5, SearchPreserves
<1>8. CASE IkReturned
  <2>1. /\ UNCHANGED <<given, init, traj, path, updates, pc, sub, tries, found, status>>
        /\ pc = "resolve" /\ ik_pc \in {"solved", "failed"} /\ ik_pc' = "idle"
        /\ local' = IF ik_pc = "failed" \/ Contains(local, best.q) THEN local ELSE Append(local, best.q)
    BY <1>8 DEF IkReturned, IkReset
  <2>2. /\ sub' \in 0 .. Len(goal) /\ tries' \in 0 .. MaxAttempts /\ found' \in Seq(Wanted)
    BY <2>1 DEF PlanInv, TypeOK
  <2>3. best.q \in Postures
    BY DEF IkInv, IkTypeOK, Closest
  <2>4. ASSUME ik_pc = "solved"
        PROVE  best.q \in Wanted
    <3>1. Err[best.q] = 0
      BY <2>4 DEF IkInv
    <3>2. sub < Len(goal) /\ Current = Pose /\ goal \in Targets /\ sub \in 0 .. Len(goal)
      BY <2>4 DEF PlanInv, TypeOK
    <3>. QED
      BY <2>3, <3>1, <3>2, CurrentWanted
  <2>5. local' \in Seq(Wanted)
    BY <2>1, <2>4 DEF PlanInv
  <2>. QED
    BY <2>1, <2>2, <2>5, SearchPreserves
<1>9. CASE PoseDone
  <2>1. pc = "resolve" /\ sub < Len(goal) /\ ik_pc = "idle" /\ NextSub(local) /\ UNCHANGED ik
    BY <1>9 DEF PoseDone
  <2>2. local \in Seq(Wanted)
    BY DEF PlanInv
  <2>. QED
    BY <2>1, <2>2, NextSubPreserves
<1>10. CASE StopOptimising
  <2>1. /\ UNCHANGED <<given, init, traj, path, updates, sub, tries, local, found, status>>
        /\ pc = "optimise" /\ pc' = "certify" /\ ik_pc' = ik_pc
    BY <1>10 DEF StopOptimising, ik
  <2>2. /\ sub' \in 0 .. Len(goal) /\ tries' \in 0 .. MaxAttempts /\ ik_pc = "idle"
        /\ local' \in Seq(Wanted) /\ found' \in Seq(Wanted)
    BY <2>1 DEF PlanInv, TypeOK
  <2>. QED
    BY <2>1, <2>2, SearchPreserves
<1>11. ASSUME NEW t, Begin(t), Ends(t), pc \in {"validate", "resolve"}, ik_pc = "idle"
       PROVE  PlanInv'
  <2>1. /\ UNCHANGED <<given, sub, tries, local, found, updates, path, status>>
        /\ init' = t /\ traj' = t /\ pc' = "optimise" /\ ik_pc' = "idle"
    BY <1>11 DEF Begin, ik
  <2>2. path = <<>> /\ status = "none"
    BY <1>11 DEF PlanInv
  <2>3. Trajectory(t)
    BY <1>11, EndsType DEF Ends
  <2>4. TypeOK'
    BY <2>1, <2>2, <2>3, WantedUnchanged DEF PlanInv, TypeOK, IkInv, Trajectory
  <2>5. Ends(init)' /\ Ends(traj)'
    BY <1>11, <2>1, WantedUnchanged DEF Ends
  <2>. QED
    BY <2>1, <2>2, <2>4, <2>5, WantedUnchanged DEF PlanInv
<1>12. CASE FromSeed
  <2>1. pc = "validate" /\ Len(seed) >= 2 /\ Begin(Resample(seed))
    BY <1>12 DEF FromSeed
  <2>2. seed \in Seeds /\ SeedFits /\ ik_pc = "idle"
    BY <2>1 DEF PlanInv
  <2>. QED
    BY <1>11, <2>1, <2>2, SeedEnds
<1>13. CASE StraightLine
  <2>1. PICK i \in DOMAIN found : Begin(Resample(<<Start, found[i]>>))
    BY <1>13 DEF StraightLine
  <2>2. pc = "resolve" /\ sub = Len(goal) /\ Len(goal) \in Nat
    BY <1>13, Assumed DEF StraightLine, PlanInv
  <2>3. ik_pc = "idle"
    BY <2>2 DEF PlanInv
  <2>4. found[i] \in Wanted
    BY <2>1 DEF PlanInv
  <2>. QED
    BY <1>11, <2>1, <2>2, <2>3, <2>4, LineEnds
<1>14. CASE Optimise
  <2>1. PICK step \in [Interior -> Moves] : traj' = Updated(step)
    BY <1>14 DEF Optimise
  <2>2. /\ UNCHANGED <<given, sub, tries, local, found, init, path, status>>
        /\ pc = "optimise" /\ pc' \in {"optimise", "certify"} /\ ik_pc' = ik_pc
        /\ updates < MaxIterations /\ updates' = updates + 1
    BY <1>14 DEF Optimise, ik
  <2>3. path = <<>> /\ status = "none" /\ ik_pc = "idle"
    BY <2>2 DEF PlanInv
  <2>4. Ends(traj')
    BY <2>1, <2>2, UpdatedEnds DEF PlanInv
  <2>5. Trajectory(traj')
    BY <2>4, EndsType DEF Ends
  <2>6. TypeOK'
    BY <2>2, <2>3, <2>5, Assumed, WantedUnchanged DEF PlanInv, TypeOK, IkInv, Trajectory
  <2>7. Ends(init)' /\ Ends(traj)'
    BY <2>2, <2>4, WantedUnchanged DEF Ends, PlanInv
  <2>. QED
    BY <2>2, <2>3, <2>6, <2>7, WantedUnchanged DEF PlanInv
<1>15. ASSUME NEW t, Return(t), Ends(t), Certified(t), pc = "certify"
       PROVE  PlanInv'
  <2>1. /\ UNCHANGED <<given, sub, tries, local, found, updates, init, traj>> /\ ik_pc' = ik_pc
        /\ path' = t /\ pc' = "done" /\ status' = "Success"
    BY <1>15 DEF Return, Finish, ik
  <2>2. ik_pc = "idle"
    BY <1>15 DEF PlanInv
  <2>3. Trajectory(t)
    BY <1>15, EndsType DEF Ends
  <2>4. TypeOK'
    BY <2>1, <2>3, WantedUnchanged DEF PlanInv, TypeOK, IkInv, Trajectory
  <2>5. Ends(path)' /\ Certified(path)'
    BY <1>15, <2>1, WantedUnchanged DEF Ends, Certified
  <2>. QED
    BY <2>1, <2>2, <2>4, <2>5, WantedUnchanged DEF PlanInv
<1>16. CASE CertifyRefined
  BY <1>15, <1>16 DEF CertifyRefined, PlanInv
<1>17. CASE FallBack /\ ~ Fail("NoSolution")
  BY <1>15, <1>17 DEF FallBack, PlanInv
<1>18. CASE UNCHANGED vars
  <2>1. /\ UNCHANGED <<given, sub, tries, local, found, updates, init, traj, path, status, pc>> /\ ik_pc' = ik_pc
    BY <1>18 DEF vars, ik
  <2>2. TypeOK'
    BY <2>1, WantedUnchanged DEF PlanInv, TypeOK, IkInv, Trajectory
  <2>3. Current' = Current
    BY <2>1 DEF Current, given
  <2>4. /\ Ends(init)' <=> Ends(init)
        /\ Ends(traj)' <=> Ends(traj)
        /\ Ends(path)' <=> Ends(path)
        /\ Certified(path)' <=> Certified(path)
    BY <2>1, WantedUnchanged DEF Ends, Certified
  <2>. QED
    BY <2>1, <2>2, <2>3, <2>4, WantedUnchanged DEF PlanInv
<1>. QED
  BY <1>1, <1>2, <1>3, <1>4, <1>5, <1>6, <1>7, <1>8, <1>9, <1>10, <1>12, <1>13, <1>14, <1>16, <1>17, <1>18
  DEF Next, Done

LEMMA Invariance == Spec => [](PlanInv /\ IkInv)
<1>1. PlanInv /\ IkInv /\ [Next]_vars => (PlanInv /\ IkInv)'
  BY PlanInvPreserved, IkInvPreserved
<1>. QED
  BY <1>1, InitPlanInv, PTL DEF Spec

(* Every reachable state of plan() and of the solver it calls is well typed: the
   sub-goals are not overrun and a trajectory keeps its M waypoints. *)
THEOREM TypeCorrect == Spec => []TypeOK
<1>1. PlanInv => TypeOK
  BY DEF PlanInv
<1>. QED
  BY <1>1, Invariance, PTL

(* A Success path, refined or fallen back to, has M waypoints, runs from
   problem.start to a configuration the goal asks for, and none of the samples of
   its edges collides, wherever the updates took it. *)
PathCertified ==
  status = "Success" => Len(path) = M /\ path[1] = Start /\ path[M] \in Wanted /\ Certified(path)

THEOREM PathsCertified == Spec => []PathCertified
<1>1. PlanInv => PathCertified
  BY EndsType DEF PlanInv, PathCertified, Ends
<1>. QED
  BY <1>1, Invariance, PTL

-------------------------------------------------------------------------------
(* The planner contract *)

(* SetToSeq lists a finite set. *)
LEMMA Listed ==
  ASSUME NEW S, IsFiniteSet(S)
  PROVE  SetToSeq(S) \in Seq(S) /\ \A x \in S : \E i \in DOMAIN SetToSeq(S) : x = SetToSeq(S)[i]
<1> DEFINE n == Cardinality(S)
           f == SetToSeq(S)
<1>1. n \in Nat /\ ExistsBijection(1 .. n, S)
  BY FS_CardinalityType
<1>2. \E g \in [1 .. n -> S] : IsInjective(g)
  BY <1>1 DEF ExistsBijection, Bijection, Injection
<1>3. f \in [1 .. n -> S] /\ IsInjective(f)
  BY <1>2 DEF SetToSeq
<1>4. IsFiniteSet(1 .. n) /\ Cardinality(1 .. n) = n
  BY <1>1, FS_Interval
<1>5. f \in Injection(1 .. n, S)
  BY <1>3 DEF Injection
<1> HIDE DEF f
<1>6. f \in Surjection(1 .. n, S)
  BY <1>4, <1>5, FS_Injection
<1>7. \A x \in S : \E i \in 1 .. n : f[i] = x
  BY <1>6 DEF Surjection
<1>. QED
  BY <1>1, <1>3, <1>7 DEF f

LEMMA WantedListed ==
  /\ SetToSeq(Wanted) \in Seq(Cfg)
  /\ \A c \in Wanted : \E i \in DOMAIN SetToSeq(Wanted) : c = SetToSeq(Wanted)[i]
<1>1. IsFiniteSet(Wanted)
  BY WantedType, Assumed, FS_Subset
<1>. QED
  BY <1>1, Listed, WantedType

LEMMA ClearEdge ==
  ASSUME hits \in Obstacles, NEW a \in Points, NEW b \in Points, ~ Blocked(hits, a, b)
  PROVE  {a, b} \notin EdgesHit[hits]
<1>1. SUFFICES ASSUME {a, b} \in EdgesHit[hits]
               PROVE  FALSE
  OBVIOUS
<1>2. PICK x \in Cfg, y \in Cfg : {a, b} = {x, y} /\ Blocked(hits, x, y)
  BY <1>1 DEF EdgesHit
<1>3. (x = a /\ y = b) \/ (x = b /\ y = a)
  BY <1>2
<1>. QED
  BY <1>2, <1>3, BlockedReversed

(* What certify() passes is what the contract calls a solution, with no waypoint
   in collision. *)
LEMMA CertifiedIsSolution ==
  ASSUME hits \in Obstacles, NEW w, Ends(w), Certified(w)
  PROVE  Contract!IsSolution(w)
<1>1. /\ w \in [1 .. M -> Points] /\ Len(w) = M /\ DOMAIN w = 1 .. M
      /\ M \in Nat /\ M >= 3
      /\ w[1] = Start /\ w[M] \in Wanted
  BY EndsType, MType DEF Ends
<1>2. \A i \in 1 .. M - 1 : /\ w[i] \in Points /\ w[i + 1] \in Points
                            /\ ~ Blocked(hits, w[i], w[i + 1])
  BY <1>1 DEF Certified
<1>3. \A i \in 1 .. M - 1 : Contract!EdgeClear(w[i], w[i + 1])
  BY <1>2, ClearEdge DEF Contract!EdgeClear
<1>4. \A i \in 1 .. M - 1 : w[i] \notin hits /\ w[i + 1] \notin hits
  BY <1>2, EndsSampled
<1>5. \A i \in 1 .. M : w[i] \notin hits
  <2>1. ASSUME NEW i \in 1 .. M
        PROVE  w[i] \notin hits
    <3>1. CASE i = M
      <4>1. M - 1 \in 1 .. M - 1 /\ (M - 1) + 1 = M
        BY <1>1
      <4>. QED
        BY <1>4, <3>1, <4>1
    <3>2. CASE i # M
      BY <1>1, <1>4, <3>2
    <3>. QED
      BY <3>1, <3>2
  <2>. QED
    BY <2>1
<1>6. {i \in DOMAIN w : w[i] \in hits} = {}
  BY <1>1, <1>5
<1>7. Cardinality({i \in DOMAIN w : w[i] \in hits}) <= 0
  BY <1>6, FS_EmptySet
<1>8. \E i \in DOMAIN SetToSeq(Wanted) : w[Len(w)] = SetToSeq(Wanted)[i]
  BY <1>1, WantedListed
<1>9. Len(w) >= 2 /\ Len(w) = M
  BY <1>1
<1>. QED
  BY <1>1, <1>3, <1>7, <1>8, <1>9 DEF Contract!IsSolution, Cardinality, Contract!Cardinality

(* The safety part of the planner contract with Slack 0: a call of plan() starts
   where the contract starts, and each of its steps is one of its steps or
   invisible to it. *)
THEOREM StepsImplementContract == Spec => Contract!Init /\ [][Contract!Next]_Contract!vars
<1>1. Init => Contract!Init
  <2> SUFFICES ASSUME Init
               PROVE  Contract!Init
    OBVIOUS
  <2>1. hits \in Obstacles /\ hits \subseteq Cfg
    BY Assumed DEF Init
  <2>2. EdgesHit[hits] \subseteq SUBSET Cfg
    BY <2>1 DEF EdgesHit
  <2>. QED
    BY <2>1, <2>2, WantedListed DEF Init, Contract!Init
<1>2. PlanInv /\ IkInv /\ PlanInv' /\ [Next]_vars => [Contract!Next]_Contract!vars
  <2> SUFFICES ASSUME PlanInv, IkInv, PlanInv', [Next]_vars
               PROVE  [Contract!Next]_Contract!vars
    OBVIOUS
  <2>1. UNCHANGED given
    BY DEF Next, vars, Reject, FromSeed, Resolve, TakeJoint, CallIk, SolveIk, IkReturned, PoseDone,
       NoGoal, StraightLine, Optimise, StopOptimising, CertifyRefined, Refuse, FallBack, Done,
       Fail, Begin, Return, NextSub
  <2>2. hits' = hits /\ Wanted' = Wanted /\ EdgesHit[hits]' = EdgesHit[hits]
    BY <2>1, WantedUnchanged
  <2>3. SetToSeq(Wanted)' = SetToSeq(Wanted)
    BY <2>2
  <2>4. CASE status' = status /\ path' = path
    BY <2>2, <2>3, <2>4 DEF Contract!vars
  <2>5. CASE status = "none" /\ status' = "Success"
    <3>1. Ends(path') /\ Certified(path') /\ hits \in Obstacles
      BY <2>1, <2>2, <2>5 DEF PlanInv, Ends, Certified
    <3>2. Contract!IsSolution(path')
      BY <3>1, CertifiedIsSolution
    <3>3. Contract!Solve
      BY <2>2, <2>3, <2>5, <3>2 DEF Contract!Solve
    <3>. QED
      BY <3>3 DEF Contract!Next
  <2>6. CASE status = "none" /\ status' \in {"NoSolution", "InvalidProblem"} /\ path' = path
    BY <2>2, <2>3, <2>6 DEF Contract!Next, Contract!Fail, Contract!Failure
  <2>7. pc # "done" => status = "none"
    BY DEF PlanInv
  <2>8. CASE Reject \/ NoGoal \/ Refuse \/ (FallBack /\ Fail("NoSolution"))
    BY <2>6, <2>7, <2>8 DEF Reject, NoGoal, Refuse, FallBack, Fail, Finish
  <2>9. CASE CertifyRefined \/ (FallBack /\ ~ Fail("NoSolution"))
    BY <2>5, <2>7, <2>9 DEF CertifyRefined, FallBack, Return, Finish
  <2>10. CASE FromSeed \/ Resolve \/ TakeJoint \/ CallIk \/ SolveIk \/ IkReturned \/ PoseDone
           \/ StraightLine \/ Optimise \/ StopOptimising
    BY <2>4, <2>10 DEF FromSeed, Resolve, TakeJoint, CallIk, SolveIk, IkReturned, PoseDone,
       StraightLine, Optimise, StopOptimising, Begin, NextSub
  <2>11. CASE UNCHANGED vars
    BY <2>4, <2>11 DEF vars
  <2>. QED
    BY <2>8, <2>9, <2>10, <2>11 DEF Next, Done
<1>. QED
  BY <1>1, <1>2, Invariance, PTL DEF Spec

-------------------------------------------------------------------------------
(* What resampling keeps of a seed *)

(* y lies from x to z, in either direction; the cells from a to b. *)
Amid(x, y, z) == (x <= y /\ y <= z) \/ (z <= y /\ y <= x)

Spans(a, b) == {c \in Points : \A i \in Axes : Amid(a[i], c[i], b[i])}

Parallel(a, b) == a[1] = b[1] \/ a[2] = b[2]

AxisParallel(t) == \A i \in 1 .. Len(t) - 1 : Parallel(t[i], t[i + 1])

LEMMA FloorBounds ==
  ASSUME NEW n \in Nat \ {0}, NEW p \in Int, NEW lo \in Int, NEW hi \in Int,
         n * lo <= p, p < n * (hi + 1)
  PROVE  p \div n \in Int /\ lo <= p \div n /\ p \div n <= hi
<1> DEFINE f == p \div n
           r == p % n
<1>1. f \in Int /\ r \in Nat /\ r < n /\ p = n * f + r
  OBVIOUS
<1> HIDE DEF f, r
<1>2. ASSUME f < lo
      PROVE  FALSE
  <2>1. n * (f + 1) <= n * lo
    <3>1. \A x, y \in Int : x <= y => n * x <= n * y
      OBVIOUS
    <3>. QED
      BY <1>1, <1>2, <3>1
  <2>2. n * (f + 1) = n * f + n
    BY <1>1
  <2>. QED
    BY <1>1, <2>1, <2>2
<1>3. ASSUME f > hi
      PROVE  FALSE
  <2>1. n * (hi + 1) <= n * f
    <3>1. \A x, y \in Int : x <= y => n * x <= n * y
      OBVIOUS
    <3>. QED
      BY <1>1, <1>3, <3>1
  <2>. QED
    BY <1>1, <2>1
<1>4. lo <= f /\ f <= hi
  BY <1>1, <1>2, <1>3
<1>. QED
  BY <1>1, <1>4 DEF f

(* A share of a difference lies between nothing and all of it. *)
LEMMA ShareBounds ==
  ASSUME NEW d \in Int, NEW n \in Nat \ {0}, NEW k \in 0 .. n
  PROVE  /\ d * k \in Int /\ d * n \in Int
         /\ d >= 0 => 0 <= d * k /\ d * k <= n * d
         /\ d <= 0 => n * d <= d * k /\ d * k <= 0
<1>1. ASSUME NEW x \in Nat
      PROVE  x * k \in Nat /\ x * k <= n * x
  <2>1. n - k \in Nat
    OBVIOUS
  <2>2. x * (n - k) \in Nat
    BY <2>1
  <2>3. x * (n - k) = n * x - x * k
    OBVIOUS
  <2>4. x * k \in Nat /\ n * x \in Nat
    OBVIOUS
  <2>. QED
    BY <2>2, <2>3, <2>4
<1>2. CASE d >= 0
  <2>1. d \in Nat
    BY <1>2
  <2>2. d * k \in Nat /\ d * k <= n * d
    BY <1>1, <2>1
  <2>3. d <= 0 => d = 0
    BY <1>2
  <2>4. d = 0 => d * k = 0 /\ n * d = 0
    OBVIOUS
  <2>5. n * d \in Int /\ d * n \in Int
    OBVIOUS
  <2>. QED
    BY <2>2, <2>3, <2>4, <2>5, <1>2
<1>3. CASE d < 0
  <2>1. -d \in Nat
    BY <1>3
  <2>2. (-d) * k \in Nat /\ (-d) * k <= n * (-d)
    BY <1>1, <2>1
  <2>3. (-d) * k = -(d * k) /\ n * (-d) = -(n * d)
    OBVIOUS
  <2>4. d * k \in Int /\ n * d \in Int /\ d * n \in Int
    OBVIOUS
  <2>. QED
    BY <2>2, <2>3, <2>4, <1>3
<1>. QED
  BY <1>2, <1>3

(* A share of the way from a to b lies in a cell from a to b, the whole way in b. *)
LEMMA BetweenSpans ==
  ASSUME NEW a \in Points, NEW b \in Points, NEW n \in Nat \ {0}, NEW k \in 0 .. n
  PROVE  /\ Between(a, b, k, n) \in Spans(a, b)
         /\ Between(a, b, n, n) = b
<1>1. \A i \in Axes : a[i] \in Int /\ b[i] \in Int
  BY PointIsPair
<1>2. ASSUME NEW x \in Int, NEW y \in Int
      PROVE  /\ x + ((y - x) * k) \div n \in Int
             /\ Amid(x, x + ((y - x) * k) \div n, y)
             /\ x + ((y - x) * n) \div n = y
  <2> DEFINE d == y - x
             p == d * k
  <2>1. d \in Int
    OBVIOUS
  <2> HIDE DEF d
  <2>2. /\ p \in Int
        /\ d >= 0 => 0 <= p /\ p <= n * d
        /\ d <= 0 => n * d <= p /\ p <= 0
    BY <2>1, ShareBounds
  <2>3. n * 0 = 0 /\ n * (0 + 1) = n /\ n * (d + 1) = n * d + n /\ n * d \in Int
    BY <2>1
  <2> HIDE DEF p
  <2>4. ASSUME d >= 0
        PROVE  p \div n \in Int /\ 0 <= p \div n /\ p \div n <= d
    <3>1. n * 0 <= p /\ p < n * (d + 1)
      BY <2>2, <2>3, <2>4
    <3>. QED
      BY <2>1, <2>2, <3>1, FloorBounds
  <2>5. ASSUME d < 0
        PROVE  p \div n \in Int /\ d <= p \div n /\ p \div n <= 0
    <3>1. n * d <= p /\ p < n * (0 + 1)
      BY <2>1, <2>2, <2>3, <2>5
    <3>. QED
      BY <2>1, <2>2, <3>1, FloorBounds
  <2>6. p \div n \in Int /\ Amid(x, x + p \div n, y)
    <3> DEFINE f == p \div n
    <3>1. f \in Int /\ (d >= 0 => 0 <= f /\ f <= d) /\ (d < 0 => d <= f /\ f <= 0)
      BY <2>1, <2>4, <2>5
    <3> HIDE DEF f
    <3>2. f \in Int /\ Amid(x, x + f, y)
      BY <3>1 DEF Amid, d
    <3>. QED
      BY <3>2 DEF f
  <2>7. (d * n) \div n = d
    <3>1. ASSUME NEW m \in Nat \ {0}
          PROVE  (d * m) \div m = d
      BY <2>1, <3>1
    <3>. QED
      BY <3>1
  <2>8. x + d = y
    BY DEF d
  <2>. QED
    BY <2>6, <2>7, <2>8 DEF d, p
<1>3. Between(a, b, k, n) \in [Axes -> Int] /\ Between(a, b, n, n) = b
  BY <1>1, <1>2, PointIsPair DEF Between
<1>4. \A i \in Axes : Amid(a[i], Between(a, b, k, n)[i], b[i])
  BY <1>1, <1>2 DEF Between
<1>. QED
  BY <1>3, <1>4, PairIsPoint DEF Spans

(* An edge along an axis is sampled in every cell it crosses, and no other. *)
LEMMA CellsSpan ==
  ASSUME Resolution = 1, MaxSweep = 0, NEW a \in Points, NEW b \in Points, Parallel(a, b)
  PROVE  /\ \A k \in 0 .. Steps(a, b) : Cell(a, b, k, Steps(a, b)) \in Spans(a, b)
         /\ \A c \in Spans(a, b) : \E k \in 0 .. Steps(a, b) : Cell(a, b, k, Steps(a, b)) = c
<1> DEFINE n == Steps(a, b)
           d1 == Abs(b[1] - a[1])
           d2 == Abs(b[2] - a[2])
<1>1. a[1] \in Int /\ a[2] \in Int /\ b[1] \in Int /\ b[2] \in Int
  BY PointIsPair
<1>2. n \in Nat \ {0}
  BY StepsType
<1>3. n = Larger(1, Larger(d1, d2))
  <2>1. d1 \in Nat /\ d2 \in Nat
    BY <1>1 DEF Abs
  <2>2. Larger(d1, d2) \in Nat
    BY <2>1 DEF Larger
  <2>3. Ceil(Larger(d1, d2), 1) = Larger(d1, d2)
    <3>1. \A x \in Nat : (x + 1 - 1) \div 1 = x
      OBVIOUS
    <3>. QED
      BY <2>2, <3>1 DEF Ceil
  <2>4. n = Larger(1, Ceil(Larger(d1, d2), 1))
    BY DEF Steps, Axes
  <2>. QED
    BY <2>3, <2>4
<1> HIDE DEF n
<1>4. ASSUME NEW k \in 0 .. n, NEW x \in Int, NEW y \in Int
      PROVE  /\ (2 * (x * n + (y - x) * k) + n) \div (2 * n) \in Int
             /\ Amid(x, (2 * (x * n + (y - x) * k) + n) \div (2 * n), y)
  <2> DEFINE d == y - x
             p == d * k
             w == 2 * n
             v == 2 * (x * n + p) + n
  <2>1. d \in Int /\ w \in Nat \ {0} /\ y = x + d
    BY <1>2
  <2> HIDE DEF d
  <2>2. /\ p \in Int
        /\ d >= 0 => 0 <= p /\ p <= n * d
        /\ d <= 0 => n * d <= p /\ p <= 0
    BY <1>2, <2>1, ShareBounds
  <2> HIDE DEF p
  <2>3. x * n \in Int /\ n * d \in Int /\ y * n = x * n + n * d
    BY <1>2, <2>1
  <2>4. /\ w * x = 2 * (x * n) /\ w * (x + 1) = 2 * (x * n) + 2 * n
        /\ w * y = 2 * (y * n) /\ w * (y + 1) = 2 * (y * n) + 2 * n
    BY <1>2
  <2>5. v \in Int
    BY <1>2, <2>2, <2>3
  <2>6. ASSUME d >= 0
        PROVE  v \div w \in Int /\ x <= v \div w /\ v \div w <= y
    <3>1. w * x <= v /\ v < w * (y + 1)
      BY <1>2, <2>2, <2>3, <2>4, <2>6
    <3> HIDE DEF w, v
    <3>. QED
      BY <2>1, <2>5, <3>1, FloorBounds
  <2>7. ASSUME d < 0
        PROVE  v \div w \in Int /\ y <= v \div w /\ v \div w <= x
    <3>1. w * y <= v /\ v < w * (x + 1)
      BY <1>2, <2>1, <2>2, <2>3, <2>4, <2>7
    <3> HIDE DEF w, v
    <3>. QED
      BY <2>1, <2>5, <3>1, FloorBounds
  <2>8. v \div w \in Int /\ Amid(x, v \div w, y)
    <3> HIDE DEF v, w
    <3>. QED
      BY <2>1, <2>6, <2>7 DEF Amid
  <2>. QED
    BY <2>8 DEF v, w, p, d
<1>5. ASSUME NEW k \in 0 .. n
      PROVE  Cell(a, b, k, n) \in Spans(a, b)
  <2>1. \A i \in Axes : a[i] \in Int /\ b[i] \in Int
    BY PointIsPair
  <2>2. Cell(a, b, k, n) \in [Axes -> Int]
    BY <1>4, <2>1 DEF Cell
  <2>3. \A i \in Axes : Amid(a[i], Cell(a, b, k, n)[i], b[i])
    BY <1>4, <2>1 DEF Cell
  <2>. QED
    BY <2>2, <2>3, PairIsPoint DEF Spans
<1>6. ASSUME NEW c \in Spans(a, b)
      PROVE  \E k \in 0 .. n : Cell(a, b, k, n) = c
  <2>1. c \in Points /\ Amid(a[1], c[1], b[1]) /\ Amid(a[2], c[2], b[2])
    BY DEF Spans, Axes
  <2>2. c[1] \in Int /\ c[2] \in Int
    BY <2>1, PointIsPair
  <2> DEFINE e1 == Abs(c[1] - a[1])
             e2 == Abs(c[2] - a[2])
             k == Larger(e1, e2)
  <2>3. e1 \in Nat /\ e2 \in Nat /\ d1 \in Nat /\ d2 \in Nat /\ e1 <= d1 /\ e2 <= d2
    BY <1>1, <2>1, <2>2 DEF Amid, Abs
  <2>4. k \in 0 .. n
    <3> HIDE DEF e1, e2, d1, d2
    <3>. QED
      BY <1>3, <2>3 DEF Larger
  <2>5. ASSUME NEW x \in Int, NEW y \in Int, NEW z \in Int, (y - x) * k = (z - x) * n
        PROVE  (2 * (x * n + (y - x) * k) + n) \div (2 * n) = z
    <3>1. x * n + (z - x) * n = z * n
      BY <1>2
    <3>2. (2 * (z * n) + n) \div (2 * n) = z
      BY <1>2, Quotient
    <3> HIDE DEF k
    <3>. QED
      BY <2>5, <3>1, <3>2
  <2>6. ASSUME NEW x \in Int, NEW y \in Int, NEW z \in Int, NEW m \in Nat, Amid(x, z, y),
               m = Abs(y - x), m # 0
        PROVE  (y - x) * Abs(z - x) = (z - x) * m
    <3>1. CASE y >= x
      <4>1. m = y - x /\ Abs(z - x) = z - x
        BY <2>6, <3>1 DEF Amid, Abs
      <4>. QED
        BY <4>1
    <3>2. CASE y < x
      <4>1. m = -(y - x) /\ Abs(z - x) = -(z - x)
        BY <2>6, <3>2 DEF Amid, Abs
      <4>2. \A x1, x2 \in Int : x1 * (-x2) = x2 * (-x1)
        OBVIOUS
      <4>. QED
        BY <4>1, <4>2
    <3>. QED
      BY <3>1, <3>2
  <2>7. ASSUME NEW i \in Axes, a[i] = b[i]
        PROVE  (b[i] - a[i]) * k = (c[i] - a[i]) * n
    <3>1. b[i] - a[i] = 0 /\ c[i] - a[i] = 0
      BY <1>1, <2>1, <2>2, <2>7 DEF Amid, Axes
    <3>2. k \in Int /\ n \in Int
      BY <1>2, <2>4
    <3> HIDE DEF k
    <3>3. 0 * k = 0 /\ 0 * n = 0
      BY <3>2
    <3>. QED
      BY <3>1, <3>3
  <2>8. (b[1] - a[1]) * k = (c[1] - a[1]) * n /\ (b[2] - a[2]) * k = (c[2] - a[2]) * n
    <3>1. k \in Int /\ n \in Int
      BY <1>2, <2>4
    <3>2. CASE a[1] = b[1] /\ a[2] # b[2]
      <4>1. d1 = 0 /\ e1 = 0 /\ d2 # 0
        BY <1>1, <2>1, <2>2, <3>2 DEF Abs, Amid
      <4>2. k = e2 /\ n = d2
        <5> HIDE DEF e1, e2, d1, d2
        <5>. QED
          BY <1>3, <2>3, <4>1 DEF Larger
      <4>3. (b[2] - a[2]) * e2 = (c[2] - a[2]) * d2
        BY <1>1, <2>1, <2>2, <2>3, <2>6, <4>1
      <4>4. (b[1] - a[1]) * k = (c[1] - a[1]) * n
        <5> HIDE DEF k
        <5>. QED
          BY <2>7, <3>2 DEF Axes
      <4>. QED
        BY <4>2, <4>3, <4>4
    <3>3. CASE a[2] = b[2] /\ a[1] # b[1]
      <4>1. d2 = 0 /\ e2 = 0 /\ d1 # 0
        BY <1>1, <2>1, <2>2, <3>3 DEF Abs, Amid
      <4>2. k = e1 /\ n = d1
        <5> HIDE DEF e1, e2, d1, d2
        <5>. QED
          BY <1>3, <2>3, <4>1 DEF Larger
      <4>3. (b[1] - a[1]) * e1 = (c[1] - a[1]) * d1
        BY <1>1, <2>1, <2>2, <2>3, <2>6, <4>1
      <4>4. (b[2] - a[2]) * k = (c[2] - a[2]) * n
        <5> HIDE DEF k
        <5>. QED
          BY <2>7, <3>3 DEF Axes
      <4>. QED
        BY <4>2, <4>3, <4>4
    <3>4. CASE a[1] = b[1] /\ a[2] = b[2]
      <4> HIDE DEF k
      <4>. QED
        BY <2>7, <3>4 DEF Axes
    <3>. QED
      BY <3>2, <3>3, <3>4 DEF Parallel
  <2> HIDE DEF k
  <2>9. Cell(a, b, k, n) = [i \in Axes |-> c[i]]
    <3>1. \A i \in Axes : /\ a[i] \in Int /\ b[i] \in Int /\ c[i] \in Int
                          /\ (b[i] - a[i]) * k = (c[i] - a[i]) * n
      BY <1>1, <2>2, <2>8 DEF Axes
    <3>2. \A i \in Axes : (2 * (a[i] * n + (b[i] - a[i]) * k) + n) \div (2 * n) = c[i]
      BY <2>5, <3>1
    <3>. QED
      BY <3>2 DEF Cell
  <2>. QED
    BY <2>1, <2>4, <2>9, PointIsPair
<1>. QED
  BY <1>5, <1>6 DEF n

(* A part of an edge along an axis collides only where the edge does. *)
LEMMA PartFree ==
  ASSUME Resolution = 1, MaxSweep = 0, NEW a \in Points, NEW b \in Points, Parallel(a, b), NEW o,
         ~ Blocked(o, a, b), NEW x \in Spans(a, b), NEW y \in Spans(a, b)
  PROVE  ~ Blocked(o, x, y)
<1>1. x \in Points /\ y \in Points /\ \A i \in Axes : Amid(a[i], x[i], b[i]) /\ Amid(a[i], y[i], b[i])
  BY DEF Spans
<1>2. \A i \in Axes : a[i] \in Int /\ b[i] \in Int /\ x[i] \in Int /\ y[i] \in Int
  BY <1>1, PointIsPair
<1>3. Parallel(x, y)
  BY <1>1, <1>2 DEF Parallel, Amid, Axes
<1>4. Spans(x, y) \subseteq Spans(a, b)
  <2>1. ASSUME NEW c \in Spans(x, y), NEW i \in Axes
        PROVE  Amid(a[i], c[i], b[i])
    <3>1. c[i] \in Int /\ Amid(x[i], c[i], y[i])
      BY PointIsPair DEF Spans
    <3>. QED
      BY <1>1, <1>2, <3>1 DEF Amid
  <2>. QED
    BY <2>1 DEF Spans
<1>5. SUFFICES ASSUME Blocked(o, x, y)
               PROVE  FALSE
  OBVIOUS
<1>6. PICK c \in Spans(x, y) : c \in o
  BY <1>1, <1>3, <1>5, CellsSpan DEF Blocked
<1>. QED
  BY <1>4, <1>6, CellsSpan DEF Blocked

(* The arc length never falls, and points of equal arc length are one. *)
LEMMA CumGrows ==
  ASSUME NEW poly \in Seq(Points), Len(poly) >= 1,
         NEW a \in 1 .. Len(poly), NEW b \in 1 .. Len(poly), a <= b
  PROVE  /\ Cum(poly)[a] <= Cum(poly)[b]
         /\ Cum(poly)[a] = Cum(poly)[b] => poly[a] = poly[b]
<1> DEFINE n == Len(poly)
           cum == Cum(poly)
           Good(j) == cum[a] <= cum[j] /\ (cum[a] = cum[j] => poly[a] = poly[j])
           Bad == {j \in a .. n : ~ Good(j)}
<1>1. n \in Nat \ {0} /\ a \in 1 .. n /\ cum \in [1 .. n -> Nat]
  BY CumProperties
<1>2. \A i \in 2 .. n : /\ cum[i] = cum[i - 1] + Length(poly[i - 1], poly[i])
                        /\ Length(poly[i - 1], poly[i]) \in Nat
                        /\ Length(poly[i - 1], poly[i]) = 0 => poly[i - 1] = poly[i]
  <2>1. \A i \in 2 .. n : poly[i - 1] \in Points /\ poly[i] \in Points
    OBVIOUS
  <2>2. \A i \in 2 .. n : /\ Length(poly[i - 1], poly[i]) \in Nat
                          /\ Length(poly[i - 1], poly[i]) = 0 => poly[i - 1] = poly[i]
    <3> HIDE DEF n
    <3>. QED
      BY <2>1, LengthNat
  <2>. QED
    BY <2>2, CumProperties
<1> HIDE DEF n, cum
<1>3. SUFFICES ASSUME Bad # {}
               PROVE  FALSE
  <2>1. b \in a .. n
    BY DEF n
  <2> SUFFICES Good(b)
    BY DEF cum
  <2> HIDE DEF Good
  <2>. QED
    BY <2>1
<1>4. PICK j \in Bad : \A i \in Bad : j <= i
  <2>1. Bad \in SUBSET Nat
    BY <1>1
  <2> HIDE DEF Bad
  <2>. QED
    BY <1>3, <2>1, LeastElement
<1>5. Good(a)
  BY <1>1
<1>6. j # a
  BY <1>4, <1>5
<1>7. j \in 2 .. n /\ j - 1 \in a .. n /\ j - 1 \in 1 .. n /\ j \in 1 .. n /\ ~ (j <= j - 1)
  BY <1>1, <1>4, <1>6
<1>8. Good(j - 1)
  <2>1. j - 1 \notin Bad
    <3> HIDE DEF Bad
    <3>. QED
      BY <1>4, <1>7
  <2> HIDE DEF Good
  <2>. QED
    BY <1>7, <2>1
<1>9. ~ Good(j)
  BY <1>4
<1> DEFINE gap == Length(poly[j - 1], poly[j])
<1>10. /\ cum[a] \in Nat /\ cum[j - 1] \in Nat /\ cum[j] = cum[j - 1] + gap /\ gap \in Nat
       /\ gap = 0 => poly[j - 1] = poly[j]
  BY <1>1, <1>2, <1>7
<1> HIDE DEF gap
<1>11. cum[a] <= cum[j]
  BY <1>8, <1>10
<1>12. cum[a] = cum[j] => gap = 0 /\ cum[a] = cum[j - 1]
  BY <1>8, <1>10
<1>. QED
  BY <1>8, <1>9, <1>10, <1>11, <1>12

(* The segment that holds arc length s, the first such one, and the place on it. *)
Segment(poly, s, i) ==
  /\ i \in 1 .. Len(poly) - 1
  /\ Cum(poly)[i] <= s /\ s <= Cum(poly)[i + 1]
  /\ i = 1 \/ Cum(poly)[i] < s

LEMMA AtPlace ==
  ASSUME NEW poly \in Seq(Points), Len(poly) >= 2, NEW s \in 0 .. Cum(poly)[Len(poly)]
  PROVE  \E i \in 1 .. Len(poly) - 1 :
           /\ Segment(poly, s, i)
           /\ At(poly, Cum(poly), s)
                = IF Cum(poly)[i + 1] - Cum(poly)[i] = 0 THEN poly[i]
                  ELSE Between(poly[i], poly[i + 1], s - Cum(poly)[i], Cum(poly)[i + 1] - Cum(poly)[i])
<1> DEFINE cum == Cum(poly)
           last == Len(poly) - 1
           First(i) == (i = last \/ cum[i + 1] >= s) /\ \A j \in 1 .. i - 1 : cum[j + 1] < s
           seg == CHOOSE i \in 1 .. last : First(i)
           len == cum[seg + 1] - cum[seg]
<1>1. Len(poly) \in Nat /\ last \in Nat \ {0} /\ Len(poly) = last + 1
  <2> DEFINE n == Len(poly)
  <2>1. n \in Nat /\ n >= 2
    OBVIOUS
  <2> HIDE DEF n
  <2>2. n - 1 \in Nat \ {0} /\ n = (n - 1) + 1
    BY <2>1
  <2>. QED
    BY <2>1, <2>2 DEF n
<1>2. cum \in [1 .. last + 1 -> Nat] /\ cum[1] = 0 /\ s \in 0 .. cum[last + 1]
  BY <1>1, CumProperties
<1> HIDE DEF cum, last
<1>3. \E i \in 1 .. last : First(i)
  <2> DEFINE Stops == {i \in 1 .. last : i = last \/ cum[i + 1] >= s}
  <2>1. PICK i \in Stops : \A j \in Stops : i <= j
    <3>1. Stops \in SUBSET Nat /\ last \in Stops
      BY <1>1
    <3> HIDE DEF Stops
    <3>. QED
      BY <3>1, LeastElement
  <2>2. ASSUME NEW j \in 1 .. i - 1
        PROVE  cum[j + 1] < s
    <3>1. j \in 1 .. last /\ j # last /\ ~ (i <= j) /\ j + 1 \in 1 .. last + 1
      BY <1>1, <2>1, <2>2
    <3>2. ~ (cum[j + 1] >= s)
      BY <2>1, <3>1
    <3>. QED
      BY <1>2, <3>1, <3>2
  <2>. QED
    BY <2>1, <2>2
<1>4. seg \in 1 .. last /\ First(seg)
  <2> HIDE DEF First
  <2>. QED
    BY <1>3
<1>5. At(poly, cum, s) = IF len = 0 THEN poly[seg] ELSE Between(poly[seg], poly[seg + 1], s - cum[seg], len)
  BY DEF At, last
<1>6. Segment(poly, s, seg)
  <2> HIDE DEF seg
  <2>1. s <= cum[seg + 1]
    <3>1. seg + 1 \in 1 .. last + 1
      BY <1>1, <1>4
    <3>2. CASE seg = last
      BY <1>2, <3>2
    <3>3. CASE seg # last
      BY <1>2, <1>4, <3>1, <3>3
    <3>. QED
      BY <3>2, <3>3
  <2>2. CASE seg = 1
    BY <1>1, <1>2, <1>4, <2>1, <2>2 DEF Segment, cum, last
  <2>3. CASE seg # 1
    <3>1. seg - 1 \in 1 .. seg - 1 /\ (seg - 1) + 1 = seg /\ seg \in 1 .. last + 1
      BY <1>1, <1>4, <2>3
    <3>2. cum[seg] < s /\ cum[seg] \in Nat
      BY <1>2, <1>4, <3>1
    <3>3. cum[seg] <= s
      BY <1>2, <3>2
    <3>. QED
      BY <1>4, <2>1, <3>2, <3>3 DEF Segment, cum, last
  <2>. QED
    BY <2>2, <2>3
<1> HIDE DEF seg
<1>. QED
  BY <1>4, <1>5, <1>6 DEF cum, last

(* At the arc length of a corner, the corner. *)
LEMMA CornerPlace ==
  ASSUME NEW poly \in Seq(Points), Len(poly) >= 2, NEW c \in 1 .. Len(poly)
  PROVE  At(poly, Cum(poly), Cum(poly)[c]) = poly[c]
<1> DEFINE cum == Cum(poly)
           n == Len(poly)
<1>1. n \in Nat /\ n >= 2 /\ cum \in [1 .. n -> Nat] /\ cum[1] = 0 /\ c \in 1 .. n /\ n \in 1 .. n
  BY CumProperties
<1>2. \A i, j \in 1 .. n : i <= j => cum[i] <= cum[j] /\ (cum[i] = cum[j] => poly[i] = poly[j])
  BY <1>1, CumGrows
<1>3. cum[c] \in 0 .. cum[n]
  BY <1>1, <1>2
<1>4. PICK i \in 1 .. n - 1 :
        /\ Segment(poly, cum[c], i)
        /\ At(poly, cum, cum[c])
             = IF cum[i + 1] - cum[i] = 0 THEN poly[i]
               ELSE Between(poly[i], poly[i + 1], cum[c] - cum[i], cum[i + 1] - cum[i])
  BY <1>3, AtPlace
<1>5. /\ i \in 1 .. n /\ i + 1 \in 1 .. n /\ i <= i + 1
      /\ cum[i] <= cum[c] /\ cum[c] <= cum[i + 1] /\ (i = 1 \/ cum[i] < cum[c])
  BY <1>1, <1>4 DEF Segment
<1>6. poly[i] \in Points /\ poly[i + 1] \in Points /\ poly[c] \in Points
  BY <1>5
<1> HIDE DEF cum, n
<1>7. cum[i] \in Nat /\ cum[i + 1] \in Nat /\ cum[c] \in Nat
  BY <1>1, <1>5
<1>8. CASE cum[c] = cum[i]
  <2>1. i = 1 /\ cum[i] = cum[1]
    BY <1>5, <1>7, <1>8
  <2>2. poly[c] = poly[i]
    BY <1>1, <1>2, <1>8, <2>1
  <2>3. CASE cum[i + 1] - cum[i] = 0
    BY <1>4, <2>2, <2>3 DEF cum
  <2>4. CASE cum[i + 1] - cum[i] # 0
    <3>1. cum[i + 1] - cum[i] \in Nat \ {0} /\ cum[c] - cum[i] = 0
      BY <1>5, <1>7, <1>8, <2>4
    <3>2. Between(poly[i], poly[i + 1], cum[c] - cum[i], cum[i + 1] - cum[i]) = poly[i]
      BY <1>6, <3>1, BetweenPoints
    <3>. QED
      BY <1>4, <2>2, <2>4, <3>2 DEF cum
  <2>. QED
    BY <2>3, <2>4
<1>9. CASE cum[c] # cum[i]
  <2>1. i + 1 <= c
    <3>1. ~ (c <= i)
      BY <1>1, <1>2, <1>5, <1>7, <1>9
    <3>. QED
      BY <1>1, <1>5, <3>1
  <2>2. cum[i + 1] = cum[c] /\ poly[i + 1] = poly[c]
    BY <1>1, <1>2, <1>5, <1>7, <2>1
  <2>3. cum[i + 1] - cum[i] \in Nat \ {0}
    BY <1>5, <1>7, <1>9, <2>2
  <2>4. cum[i + 1] - cum[i] \in 0 .. cum[i + 1] - cum[i]
    BY <2>3
  <2>5. Between(poly[i], poly[i + 1], cum[i + 1] - cum[i], cum[i + 1] - cum[i]) = poly[i + 1]
    BY <1>6, <2>3, <2>4, BetweenSpans
  <2>. QED
    BY <1>4, <2>2, <2>3, <2>5 DEF cum
<1>. QED
  BY <1>8, <1>9

(* Every corner is sampled, if its arc length is a share of the whole. *)
LEMMA CornerSampled ==
  ASSUME NEW total \in Nat \ {0}, NEW m \in Nat \ {0}
  PROVE  \A c \in 0 .. total : (c * m) % total = 0 => \E j \in 0 .. m : (total * j) \div m = c
<1> SUFFICES ASSUME NEW c \in 0 .. total, (c * m) % total = 0
             PROVE  \E j \in 0 .. m : (total * j) \div m = c
  OBVIOUS
<1> DEFINE j == (c * m) \div total
<1>1. c * m \in Nat
  OBVIOUS
<1>2. j \in Int /\ c * m = total * j
  <2>1. \A x \in Nat : x % total = 0 => x \div total \in Int /\ x = total * (x \div total)
    OBVIOUS
  <2>. QED
    BY <1>1, <2>1
<1>3. 0 <= j /\ j <= m
  <2> DEFINE p == c * m
  <2>1. total * 0 <= p
    BY <1>1
  <2>2. p < total * (m + 1)
    <3>1. p <= total * m
      <4>1. m * c <= m * total
        <5>1. m * (total - c) \in Nat
          <6>1. total - c \in Nat
            OBVIOUS
          <6>. QED
            BY <6>1
        <5>2. m * (total - c) = m * total - m * c
          OBVIOUS
        <5>3. m * total \in Nat /\ m * c \in Nat
          OBVIOUS
        <5>. QED
          BY <5>1, <5>2, <5>3
      <4>2. m * c = p /\ m * total = total * m
        OBVIOUS
      <4>. QED
        BY <4>1, <4>2
    <3>2. total * (m + 1) = total * m + total /\ total * m \in Nat
      OBVIOUS
    <3> HIDE DEF p
    <3>. QED
      BY <1>1, <3>1, <3>2 DEF p
  <2> HIDE DEF p
  <2>. QED
    BY <1>1, <2>1, <2>2, FloorBounds DEF p
<1> HIDE DEF j
<1>4. (c * m) \div m = c
  OBVIOUS
<1>5. j \in 0 .. m
  BY <1>2, <1>3
<1>. QED
  BY <1>2, <1>4, <1>5

(* Later samples lie no earlier. *)
LEMMA SharesOrdered ==
  ASSUME NEW total \in Nat, NEW m \in Nat \ {0}, NEW j \in 0 .. m, NEW k \in 0 .. m, j <= k
  PROVE  /\ (total * j) \div m \in 0 .. total /\ (total * k) \div m \in 0 .. total
         /\ (total * j) \div m <= (total * k) \div m
<1>1. ASSUME NEW i \in 0 .. m
      PROVE  total * i \in Nat /\ total * i <= m * total /\ (total * i) \div m \in 0 .. total
  <2>1. total * i \in Nat /\ total * i <= m * total
    BY ShareBounds
  <2>2. m * 0 = 0 /\ m * (total + 1) = m * total + m /\ m * total \in Nat
    OBVIOUS
  <2> DEFINE p == total * i
  <2>3. p \in Int /\ m * 0 <= p /\ p < m * (total + 1)
    BY <2>1, <2>2
  <2> HIDE DEF p
  <2>4. p \div m \in Int /\ 0 <= p \div m /\ p \div m <= total
    BY <2>3, FloorBounds
  <2>. QED
    BY <2>1, <2>4 DEF p
<1>2. total * j <= total * k
  <2>1. \A x \in Nat : total * x \in Nat
    OBVIOUS
  <2>2. total * (k - j) \in Nat /\ total * (k - j) = total * k - total * j
    BY <2>1
  <2>3. total * j \in Nat /\ total * k \in Nat
    BY <2>1
  <2>. QED
    BY <2>2, <2>3
<1> DEFINE p == total * j
           r == total * k
           f == r \div m
<1>3. p \in Nat /\ r \in Nat /\ p <= r
  BY <1>1, <1>2
<1> HIDE DEF p, r
<1>4. f \in Int /\ r < m * (f + 1)
  <2> DEFINE e == r % m
  <2>1. r = m * f + e /\ e < m /\ f \in Int /\ e \in Int
    BY <1>3
  <2> HIDE DEF e, f
  <2>2. m * (f + 1) = m * f + m /\ m * f \in Int
    BY <2>1
  <2>. QED
    BY <1>3, <2>1, <2>2
<1> HIDE DEF f
<1>5. p < m * (f + 1)
  <2>1. m * (f + 1) \in Int
    BY <1>4
  <2>. QED
    BY <1>3, <1>4, <2>1
<1>6. m * 0 <= p
  BY <1>3
<1>7. p \div m <= f
  BY <1>3, <1>4, <1>5, <1>6, FloorBounds
<1>. QED
  BY <1>1, <1>7 DEF p, r, f

(* Two samples that follow each other lie on one segment: a corner between them
   would have been sampled. *)
LEMMA OneSegment ==
  ASSUME NEW poly \in Seq(Points), Len(poly) >= 2, Cum(poly)[Len(poly)] # 0,
         \A c \in DOMAIN poly : (Cum(poly)[c] * (M - 1)) % Cum(poly)[Len(poly)] = 0,
         NEW k \in 1 .. M - 1
  PROVE  \E i \in 1 .. Len(poly) - 1 :
           {Resample(poly)[k], Resample(poly)[k + 1]} \subseteq Spans(poly[i], poly[i + 1])
<1> DEFINE cum == Cum(poly)
           n == Len(poly)
           total == cum[n]
           m == M - 1
           Arc(j) == (total * (j - 1)) \div m
<1>1. /\ n \in Nat /\ n >= 2 /\ cum \in [1 .. n -> Nat] /\ cum[1] = 0 /\ n \in 1 .. n
      /\ DOMAIN poly = 1 .. n
  BY CumProperties
<1>2. \A i, j \in 1 .. n : i <= j => cum[i] <= cum[j] /\ (cum[i] = cum[j] => poly[i] = poly[j])
  BY <1>1, CumGrows
<1>3. m \in Nat \ {0} /\ M = m + 1 /\ M \in Nat
  BY MType
<1>4. total \in Nat \ {0}
  BY <1>1
<1>5. \A j \in 1 .. M : Resample(poly)[j] = IF j = M THEN poly[n] ELSE At(poly, cum, Arc(j))
  BY <1>4 DEF Resample
<1>6. \A c \in 1 .. n : At(poly, cum, cum[c]) = poly[c]
  BY CornerPlace
<1>7. \A c \in 1 .. n : (cum[c] * m) % total = 0
  BY <1>1
<1>8. \A i \in 1 .. n - 1 : i \in 1 .. n /\ i + 1 \in 1 .. n /\ i <= i + 1
  BY <1>1
<1>9. \A s \in 0 .. total :
        \E i \in 1 .. n - 1 :
          /\ Segment(poly, s, i)
          /\ At(poly, cum, s)
               = IF cum[i + 1] - cum[i] = 0 THEN poly[i]
                 ELSE Between(poly[i], poly[i + 1], s - cum[i], cum[i + 1] - cum[i])
  BY AtPlace
<1>10. \A i \in 1 .. n - 1 : \A s :
         Segment(poly, s, i) <=> cum[i] <= s /\ s <= cum[i + 1] /\ (i = 1 \/ cum[i] < s)
  BY DEF Segment
<1>11. \A i \in 1 .. n : poly[i] \in Points
  BY <1>1
<1>12. k \in 1 .. m
  OBVIOUS
<1> HIDE DEF cum, n, total, m
<1>13. \A c \in 1 .. n : cum[c] \in 0 .. total
  <2>1. \A c \in 1 .. n : cum[c] \in Nat /\ c <= n
    BY <1>1
  <2>. QED
    BY <1>1, <1>2, <2>1 DEF total
<1>14. \A j \in 1 .. M : Arc(j) \in 0 .. total
  <2>1. ASSUME NEW j \in 1 .. M
        PROVE  Arc(j) \in 0 .. total
    <3>1. j - 1 \in 0 .. m /\ j - 1 <= j - 1
      BY <1>3
    <3>2. (total * (j - 1)) \div m \in 0 .. total
      BY ONLY <1>3, <1>4, <3>1, SharesOrdered
    <3>. QED
      BY <3>2
  <2>. QED
    BY <2>1
<1>15. \A j, l \in 1 .. M : j <= l => Arc(j) <= Arc(l)
  <2>1. ASSUME NEW j \in 1 .. M, NEW l \in 1 .. M, j <= l
        PROVE  Arc(j) <= Arc(l)
    <3>1. j - 1 \in 0 .. m /\ l - 1 \in 0 .. m /\ j - 1 <= l - 1
      BY <1>3, <2>1
    <3>2. (total * (j - 1)) \div m <= (total * (l - 1)) \div m
      BY ONLY <1>3, <1>4, <3>1, SharesOrdered
    <3>. QED
      BY <3>2
  <2>. QED
    BY <2>1
<1>16. Arc(M) = total
  <2>1. (total * m) \div m = total
    <3>1. \A x \in Nat \ {0} : (total * x) \div x = total
      BY <1>4
    <3>. QED
      BY <1>3, <3>1
  <2>2. M - 1 = m
    BY <1>3
  <2>. QED
    BY <2>1, <2>2
<1>17. \A c \in 1 .. n : \E j \in 1 .. M : Arc(j) = cum[c]
  <2>1. \A x \in 0 .. total : (x * m) % total = 0 => \E j \in 0 .. m : (total * j) \div m = x
    BY ONLY <1>3, <1>4, CornerSampled
  <2>2. ASSUME NEW c \in 1 .. n
        PROVE  \E j \in 1 .. M : Arc(j) = cum[c]
    <3>1. cum[c] \in 0 .. total /\ (cum[c] * m) % total = 0
      BY <1>7, <1>13
    <3>2. PICK j \in 0 .. m : (total * j) \div m = cum[c]
      BY <3>1, <2>1
    <3>3. j + 1 \in 1 .. M /\ (j + 1) - 1 = j
      BY <1>3
    <3>4. Arc(j + 1) = cum[c]
      BY <3>2, <3>3
    <3>. QED
      BY <3>3, <3>4
  <2>. QED
    BY <2>2
<1> HIDE DEF Arc
<1>18. \A j \in 1 .. M : Resample(poly)[j] = At(poly, cum, Arc(j))
  <2>1. At(poly, cum, total) = poly[n]
    BY <1>1, <1>6 DEF total
  <2>. QED
    BY <1>5, <1>16, <2>1
<1>19. k \in 1 .. M /\ k + 1 \in 1 .. M /\ k <= k + 1
  BY <1>3, <1>12
<1> DEFINE s == Arc(k)
           t == Arc(k + 1)
<1>20. s \in 0 .. total /\ t \in 0 .. total /\ s <= t
  BY <1>14, <1>15, <1>19
<1>21. PICK i \in 1 .. n - 1 :
         /\ Segment(poly, t, i)
         /\ At(poly, cum, t)
              = IF cum[i + 1] - cum[i] = 0 THEN poly[i]
                ELSE Between(poly[i], poly[i + 1], t - cum[i], cum[i + 1] - cum[i])
  BY <1>9, <1>20
<1>22. cum[i] <= t /\ t <= cum[i + 1] /\ (i = 1 \/ cum[i] < t)
  BY <1>10, <1>21
<1>23. i \in 1 .. n /\ i + 1 \in 1 .. n /\ cum[i] \in Nat /\ cum[i + 1] \in Nat
  BY <1>1, <1>8, <1>21
<1>24. cum[i] <= s
  <2>1. CASE i = 1
    BY <1>1, <1>20, <2>1
  <2>2. CASE cum[i] < t
    <3>1. PICK j \in 1 .. M : Arc(j) = cum[i]
      BY <1>17, <1>23
    <3>2. ~ (k + 1 <= j)
      <4>1. k + 1 <= j => t <= cum[i]
        BY <1>15, <1>19, <3>1
      <4>. QED
        BY <1>20, <1>23, <2>2, <4>1
    <3>3. j <= k
      BY <1>19, <3>1, <3>2
    <3>. QED
      BY <1>15, <1>19, <3>1, <3>3
  <2>. QED
    BY <1>22, <2>1, <2>2
<1> HIDE DEF s, t
<1> DEFINE a == poly[i]
           b == poly[i + 1]
           len == cum[i + 1] - cum[i]
<1>25. a \in Points /\ b \in Points /\ len \in Nat /\ s \in Nat /\ t \in Nat
  BY <1>11, <1>20, <1>22, <1>23
<1>26. \A r \in Nat : cum[i] <= r /\ r <= cum[i + 1] => r - cum[i] \in 0 .. len
  BY <1>23
<1>27. s - cum[i] \in 0 .. len /\ t - cum[i] \in 0 .. len
  <2>1. s <= cum[i + 1]
    BY <1>20, <1>22, <1>23, <1>25
  <2>2. s - cum[i] \in 0 .. len
    BY <1>24, <1>25, <1>26, <2>1
  <2>3. t - cum[i] \in 0 .. len
    BY <1>22, <1>25, <1>26
  <2>. QED
    BY <2>2, <2>3
<1>28. a \in Spans(a, b)
  <2>1. \A x \in Axes : a[x] \in Int /\ b[x] \in Int
    BY <1>25, PointIsPair
  <2>2. \A x \in Axes : Amid(a[x], a[x], b[x])
    BY <2>1 DEF Amid
  <2>. QED
    BY <1>25, <2>2 DEF Spans
<1>29. \A r \in 0 .. len : len # 0 => Between(a, b, r, len) \in Spans(a, b)
  <2> HIDE DEF a, b, len
  <2>. QED
    BY <1>25, BetweenSpans
<1>30. At(poly, cum, t) \in Spans(a, b)
  <2>1. CASE len = 0
    BY <1>21, <1>28, <2>1
  <2>2. CASE len # 0
    BY <1>21, <1>27, <1>29, <2>2
  <2>. QED
    BY <2>1, <2>2
<1>31. At(poly, cum, s) \in Spans(a, b)
  <2>1. CASE s = cum[i]
    BY <1>6, <1>23, <1>28, <2>1
  <2>2. CASE s # cum[i]
    <3>1. PICK j \in 1 .. n - 1 :
            /\ Segment(poly, s, j)
            /\ At(poly, cum, s)
                 = IF cum[j + 1] - cum[j] = 0 THEN poly[j]
                   ELSE Between(poly[j], poly[j + 1], s - cum[j], cum[j + 1] - cum[j])
      BY <1>9, <1>20
    <3>2. cum[j] <= s /\ s <= cum[j + 1] /\ (j = 1 \/ cum[j] < s)
      BY <1>10, <3>1
    <3>3. j \in 1 .. n /\ j + 1 \in 1 .. n /\ cum[j] \in Nat /\ cum[j + 1] \in Nat
      BY <1>1, <1>8, <3>1
    <3>4. s \in Nat /\ t \in Nat /\ cum[i] < s /\ s <= cum[i + 1]
      <4>1. cum[i] < s
        BY <1>23, <1>24, <1>25, <2>2
      <4>2. s <= cum[i + 1]
        BY <1>20, <1>22, <1>23, <1>25
      <4>. QED
        BY <1>25, <4>1, <4>2
    <3>5. ~ (j + 1 <= i)
      <4>1. j + 1 <= i => cum[j + 1] <= cum[i]
        BY <1>2, <1>23, <3>3
      <4>. QED
        BY <1>23, <3>2, <3>3, <3>4, <4>1
    <3>6. ~ (i + 1 <= j)
      <4>1. i + 1 <= j => cum[i + 1] <= cum[j]
        BY <1>2, <1>23, <3>3
      <4>2. i + 1 <= j => j # 1
        BY <1>23, <3>3
      <4>. QED
        BY <1>23, <3>2, <3>3, <3>4, <4>1, <4>2
    <3>7. j = i
      BY <1>23, <3>3, <3>5, <3>6
    <3>8. len # 0
      BY <1>23, <3>4
    <3>. QED
      BY <1>27, <1>29, <3>1, <3>7, <3>8
  <2>. QED
    BY <2>1, <2>2
<1>32. Resample(poly)[k] = At(poly, cum, s) /\ Resample(poly)[k + 1] = At(poly, cum, t)
  BY <1>18, <1>19 DEF s, t
<1>33. {Resample(poly)[k], Resample(poly)[k + 1]} \subseteq Spans(a, b)
  BY <1>30, <1>31, <1>32
<1>. QED
  BY <1>21, <1>33 DEF n

(* Hence resampling a free seed along the axes whose corners it keeps gives a free
   trajectory. *)
LEMMA KeptCertified ==
  ASSUME seed \in Seq(Points), Len(seed) >= 2, AxisParallel(seed), SeedKept, Certified(seed)
  PROVE  Certified(Resample(seed))
<1> DEFINE n == Len(seed)
           r == Resample(seed)
<1>1. /\ n \in Nat /\ n >= 2 /\ r \in [1 .. M -> Points] /\ Len(r) = M
      /\ M \in Nat /\ M >= 3
  <2>1. r \in [1 .. M -> Points]
    BY ResampleKeepsEnds
  <2> HIDE DEF r
  <2>. QED
    BY <2>1, EndsType, MType
<1>2. \A i \in 1 .. n - 1 : seed[i] \in Points /\ seed[i + 1] \in Points /\ i \in 1 .. n /\ i + 1 \in 1 .. n
  BY <1>1
<1>3. \A i \in 1 .. n - 1 : Parallel(seed[i], seed[i + 1]) /\ ~ Blocked(hits, seed[i], seed[i + 1])
  BY DEF AxisParallel, Certified
<1>4. Resolution = 1 /\ MaxSweep = 0
  BY DEF SeedKept
<1>5. \A k \in 1 .. M - 1 : \E i \in 1 .. n - 1 : {r[k], r[k + 1]} \subseteq Spans(seed[i], seed[i + 1])
  <2>1. CASE Cum(seed)[n] # 0
    <3>1. \A c \in DOMAIN seed : (Cum(seed)[c] * (M - 1)) % Cum(seed)[n] = 0
      BY <2>1 DEF SeedKept
    <3>. QED
      BY <2>1, <3>1, OneSegment
  <2>2. CASE Cum(seed)[n] = 0
    <3>1. \A k \in 1 .. M : r[k] = seed[1]
      BY <2>2 DEF Resample
    <3>2. 1 \in 1 .. n - 1 /\ \A k \in 1 .. M - 1 : k \in 1 .. M /\ k + 1 \in 1 .. M
      BY <1>1
    <3>3. seed[1] \in Spans(seed[1], seed[1 + 1])
      <4>1. \A i \in Axes : seed[1][i] \in Int /\ seed[1 + 1][i] \in Int
        BY <1>2, <3>2, PointIsPair
      <4>2. \A i \in Axes : Amid(seed[1][i], seed[1][i], seed[1 + 1][i])
        BY <4>1 DEF Amid
      <4>. QED
        BY <1>2, <3>2, <4>2 DEF Spans
    <3> HIDE DEF r, n
    <3>4. \A k \in 1 .. M - 1 : {r[k], r[k + 1]} \subseteq Spans(seed[1], seed[1 + 1])
      BY <3>1, <3>2, <3>3
    <3>. QED
      BY <3>2, <3>4
  <2>. QED
    BY <2>1, <2>2
<1> HIDE DEF n, r
<1>6. ASSUME NEW k \in 1 .. M - 1
      PROVE  ~ Blocked(hits, r[k], r[k + 1])
  <2>1. PICK i \in 1 .. n - 1 : {r[k], r[k + 1]} \subseteq Spans(seed[i], seed[i + 1])
    BY <1>5
  <2>2. r[k] \in Spans(seed[i], seed[i + 1]) /\ r[k + 1] \in Spans(seed[i], seed[i + 1])
    BY <2>1
  <2>. QED
    BY <1>2, <1>3, <1>4, <2>2, PartFree
<1>7. \A k \in 1 .. Len(r) - 1 : ~ Blocked(hits, r[k], r[k + 1])
  BY <1>1, <1>6
<1>. QED
  BY <1>7 DEF Certified, r

(* In refiner mode the initial trajectory is the resampled seed and nothing else,
   and a refusal means that it is not free. *)
KeptInv ==
  /\ pc = "resolve" => Standalone
  /\ pc \in {"optimise", "certify"} /\ ~ Standalone => init = Resample(seed) /\ Len(seed) >= 2
  /\ status = "NoSolution" /\ ~ Standalone => Len(seed) >= 2 /\ ~ Certified(Resample(seed))

LEMMA KeptInvPreserved ==
  ASSUME PlanInv, PlanInv', KeptInv, [Next]_vars
  PROVE  KeptInv'
<1>1. UNCHANGED given
  BY DEF Next, vars, Reject, FromSeed, Resolve, TakeJoint, CallIk, SolveIk, IkReturned, PoseDone,
     NoGoal, StraightLine, Optimise, StopOptimising, CertifyRefined, Refuse, FallBack, Done,
     Fail, Begin, Return, NextSub
<1>2. seed' = seed /\ Resample(seed)' = Resample(seed) /\ (Standalone' <=> Standalone)
      /\ (Certified(Resample(seed))' <=> Certified(Resample(seed)))
  BY <1>1, WantedUnchanged DEF Certified
<1>3. CASE Reject
  BY <1>2, <1>3 DEF Reject, Fail, Finish, KeptInv
<1>4. CASE FromSeed
  <2>1. /\ pc' = "optimise" /\ init' = Resample(seed) /\ Len(seed) >= 2
        /\ status' = status /\ status = "none"
    BY <1>4 DEF FromSeed, Begin, PlanInv
  <2>. QED
    BY <1>2, <2>1 DEF KeptInv
<1>5. CASE Resolve \/ TakeJoint \/ CallIk \/ SolveIk \/ IkReturned \/ PoseDone
  <2>1. pc' = "resolve" /\ status' = status /\ Standalone
    BY <1>5 DEF Resolve, TakeJoint, CallIk, SolveIk, IkReturned, PoseDone, NextSub, KeptInv
  <2>. QED
    BY <1>2, <2>1 DEF KeptInv
<1>6. CASE NoGoal \/ StraightLine \/ Refuse
  <2>1. Standalone /\ pc' # "resolve"
    BY <1>6 DEF NoGoal, StraightLine, Refuse, Fail, Finish, Begin, KeptInv
  <2>. QED
    BY <1>2, <2>1 DEF KeptInv
<1>7. CASE Optimise \/ StopOptimising
  <2>1. pc = "optimise" /\ pc' \in {"optimise", "certify"} /\ init' = init /\ status' = status
    BY <1>7 DEF Optimise, StopOptimising
  <2>. QED
    BY <1>2, <2>1 DEF KeptInv
<1>8. CASE CertifyRefined \/ (FallBack /\ Certified(init))
  <2>1. pc' = "done" /\ status' = "Success"
    BY <1>8 DEF CertifyRefined, FallBack, Return, Finish
  <2>. QED
    BY <2>1 DEF KeptInv
<1>9. CASE FallBack /\ ~ Certified(init)
  <2>1. pc = "certify" /\ ~ Standalone /\ pc' = "done"
    BY <1>9 DEF FallBack, Fail, Finish
  <2>2. init = Resample(seed) /\ Len(seed) >= 2
    BY <2>1 DEF KeptInv
  <2>. QED
    BY <1>2, <1>9, <2>1, <2>2 DEF KeptInv
<1>10. CASE UNCHANGED vars
  BY <1>2, <1>10 DEF vars, KeptInv
<1>. QED
  BY <1>3, <1>4, <1>5, <1>6, <1>7, <1>8, <1>9, <1>10 DEF Next, Done

(* A refinement is refused for one reason only, whatever the seed, the updates and the
   timeout: the seed as resampled is not free (and resampling keeps its ends).  So a
   collision-free seed is lost only where resampling changes it: never when its segments
   are along the axes and its corners are kept. *)
THEOREM SeedsLostOnlyByResampling ==
  Spec => [](status = "NoSolution" /\ ~ Standalone =>
               /\ ~ Certified(Resample(seed))
               /\ Resample(seed)[1] = seed[1] /\ Resample(seed)[M] = seed[Len(seed)]
               /\ AxisParallel(seed) /\ SeedKept => ~ Certified(seed))
<1> DEFINE Lost == status = "NoSolution" /\ ~ Standalone =>
                     /\ ~ Certified(Resample(seed))
                     /\ Resample(seed)[1] = seed[1] /\ Resample(seed)[M] = seed[Len(seed)]
                     /\ AxisParallel(seed) /\ SeedKept => ~ Certified(seed)
<1>1. Init => KeptInv
  BY DEF Init, KeptInv
<1>2. PlanInv /\ PlanInv' /\ KeptInv /\ [Next]_vars => KeptInv'
  BY KeptInvPreserved
<1>3. PlanInv /\ KeptInv => Lost
  <2> SUFFICES ASSUME PlanInv, KeptInv, status = "NoSolution", ~ Standalone
               PROVE  /\ ~ Certified(Resample(seed))
                      /\ Resample(seed)[1] = seed[1] /\ Resample(seed)[M] = seed[Len(seed)]
                      /\ AxisParallel(seed) /\ SeedKept => ~ Certified(seed)
    OBVIOUS
  <2>1. Len(seed) >= 2 /\ ~ Certified(Resample(seed))
    BY DEF KeptInv
  <2>2. seed \in Seq(Points)
    BY Assumed DEF PlanInv
  <2>3. Resample(seed)[1] = seed[1] /\ Resample(seed)[M] = seed[Len(seed)]
    BY <2>1, <2>2, ResampleKeepsEnds
  <2>. QED
    BY <2>1, <2>2, <2>3, KeptCertified
<1>. QED
  BY <1>1, <1>2, <1>3, Invariance, PTL DEF Spec


-------------------------------------------------------------------------------
(* How long a call can take *)

(* What a restart of the solver may use, and a call of it. *)
PerRestart == MaxIters + 2
IkBound == (MaxRestarts + 1) * PerRestart + 1

IkLeft ==
  CASE ik_pc = "restart" -> (MaxRestarts + 1 - restart) * PerRestart + 1
    [] ik_pc = "iterate" -> (MaxRestarts + 1 - restart) * PerRestart + 2 + (MaxIters - iteration)
    [] OTHER -> 0

(* What a sub-goal may use. *)
PerSub == MaxAttempts * (IkBound + 2) + 1

(* The steps of plan(), the solver's included, that are left at most. *)
Left ==
  CASE pc = "validate" -> Len(goal) * PerSub + MaxIterations + 4
    [] pc = "resolve"  -> (Len(goal) - sub) * PerSub - tries * (IkBound + 2) + MaxIterations + 3
                          + IF ik_pc = "idle" THEN 0 ELSE IkLeft + 1
    [] pc = "optimise" -> MaxIterations - updates + 2
    [] pc = "certify"  -> 1
    [] pc = "done"     -> 0

(* Calls of the solver are counted for a sub-goal there is. *)
CountInv ==
  /\ pc = "validate" => sub = 0 /\ tries = 0
  /\ tries # 0 => sub < Len(goal)

LEMMA CountInvPreserved ==
  ASSUME CountInv, [Next]_vars
  PROVE  CountInv'
<1>1. CASE TakeJoint \/ PoseDone
  BY <1>1 DEF TakeJoint, PoseDone, NextSub, CountInv
<1>2. CASE CallIk
  BY <1>2 DEF CallIk, CountInv, given
<1>3. CASE ~ (TakeJoint \/ PoseDone \/ CallIk)
  <2>1. sub' = sub /\ tries' = tries /\ goal' = goal /\ (pc' = "validate" => pc = "validate")
    BY <1>3 DEF Next, vars, given, Reject, FromSeed, Resolve, SolveIk, IkReturned, NoGoal, StraightLine,
       Optimise, StopOptimising, CertifyRefined, Refuse, FallBack, Done, Fail, Finish, Begin, Return
  <2>. QED
    BY <2>1 DEF CountInv
<1>. QED
  BY <1>1, <1>2, <1>3

LEMMA Products ==
  ASSUME NEW x \in Nat, NEW y \in Nat, NEW z \in Nat
  PROVE  /\ x * z \in Nat
         /\ x <= y => x * z <= y * z
         /\ (x + 1) * z = x * z + z /\ (x - 1) * z = x * z - z /\ 0 * z = 0
<1>1. x * z \in Nat
  OBVIOUS
<1>2. (x + 1) * z = x * z + z /\ (x - 1) * z = x * z - z /\ 0 * z = 0
  OBVIOUS
<1>3. ASSUME x <= y
      PROVE  x * z <= y * z
  <2>1. PICK d \in Nat : y = x + d
    <3>1. y - x \in Nat /\ y = x + (y - x)
      BY <1>3
    <3>. QED
      BY <3>1
  <2>2. y * z = x * z + d * z
    BY <2>1
  <2>3. d * z \in Nat
    OBVIOUS
  <2>. QED
    BY <1>1, <2>2, <2>3
<1>. QED
  BY <1>1, <1>2, <1>3

(* The numbers the solver's steps change, named. *)
LEMMA IkLeftIs ==
  ASSUME IkInv
  PROVE  \E k, e, i, m \in Nat :
           /\ k = PerRestart /\ k = MaxIters + 2
           /\ e = MaxRestarts + 1 - restart /\ i = MaxIters - iteration /\ m = e * k
           /\ IkLeft = CASE ik_pc = "restart" -> m + 1
                         [] ik_pc = "iterate" -> m + 2 + i
                         [] OTHER -> 0
<1>1. /\ restart \in 0 .. MaxRestarts + 1 /\ iteration \in 0 .. MaxIters
      /\ MaxRestarts \in Nat /\ MaxIters \in Nat
  BY IkAssumed DEF IkInv, IkTypeOK
<1>2. PICK k \in Nat : k = PerRestart /\ k = MaxIters + 2
  BY <1>1 DEF PerRestart
<1>3. PICK e \in Nat, i \in Nat : e = MaxRestarts + 1 - restart /\ i = MaxIters - iteration
  <2>1. MaxRestarts + 1 - restart \in Nat /\ MaxIters - iteration \in Nat
    BY <1>1
  <2>. QED
    BY <2>1
<1>4. PICK m \in Nat : m = e * k
  BY Products
<1>5. IkLeft = CASE ik_pc = "restart" -> m + 1
                 [] ik_pc = "iterate" -> m + 2 + i
                 [] OTHER -> 0
  BY <1>2, <1>3, <1>4 DEF IkLeft
<1>. QED
  BY <1>2, <1>3, <1>4, <1>5

LEMMA IkLeftNat ==
  ASSUME IkInv
  PROVE  IkLeft \in Nat
<1>1. PICK k, e, i, m \in Nat :
        /\ k = PerRestart /\ k = MaxIters + 2
        /\ e = MaxRestarts + 1 - restart /\ i = MaxIters - iteration /\ m = e * k
        /\ IkLeft = CASE ik_pc = "restart" -> m + 1
                      [] ik_pc = "iterate" -> m + 2 + i
                      [] OTHER -> 0
  BY IkLeftIs
<1>. QED
  BY <1>1

(* Every step of the solver uses up some of what a call of it may. *)
LEMMA IkLeftFalls ==
  ASSUME IkInv, IkNext
  PROVE  IkLeft' < IkLeft
<1>1. PICK k, e, i, m \in Nat :
        /\ k = PerRestart /\ k = MaxIters + 2
        /\ e = MaxRestarts + 1 - restart /\ i = MaxIters - iteration /\ m = e * k
        /\ IkLeft = CASE ik_pc = "restart" -> m + 1
                      [] ik_pc = "iterate" -> m + 2 + i
                      [] OTHER -> 0
  BY IkLeftIs
<1>2. /\ restart \in 0 .. MaxRestarts + 1 /\ iteration \in 0 .. MaxIters
      /\ MaxRestarts \in Nat /\ MaxIters \in Nat
  BY IkAssumed DEF IkInv, IkTypeOK
<1>3. CASE Restart
  <2>1. ik_pc = "restart" /\ ik_pc' = "iterate" /\ restart' = restart + 1 /\ iteration' = 0 /\ e >= 1
    BY <1>1, <1>2, <1>3 DEF Restart
  <2>2. MaxRestarts + 1 - restart' = e - 1 /\ MaxIters - iteration' = MaxIters
    BY <1>1, <1>2, <2>1
  <2>3. (e - 1) * k = m - k
    BY <1>1, Products
  <2>4. IkLeft' = (MaxRestarts + 1 - restart') * k + 2 + (MaxIters - iteration')
    BY <1>1, <2>1 DEF IkLeft, PerRestart
  <2>5. IkLeft' = m - k + 2 + MaxIters
    BY <2>2, <2>3, <2>4
  <2>6. IkLeft = m + 1
    BY <1>1, <2>1
  <2>. QED
    BY <1>1, <1>2, <2>5, <2>6
<1>4. CASE GiveUp \/ Reach
  <2>1. ik_pc \in {"restart", "iterate"} /\ ik_pc' \in {"failed", "solved"}
    BY <1>4 DEF GiveUp, Reach
  <2>2. IkLeft' = 0
    BY <2>1 DEF IkLeft
  <2>3. IkLeft > 0
    BY <1>1, <2>1
  <2>. QED
    BY <1>1, <2>2, <2>3
<1>5. CASE (Iterate \/ Exhaust) /\ ik_pc' = "restart"
  <2>1. ik_pc = "iterate" /\ restart' = restart
    BY <1>5 DEF Iterate, Exhaust
  <2>2. IkLeft' = e * k + 1
    BY <1>1, <1>5, <2>1 DEF IkLeft, PerRestart
  <2>3. IkLeft = m + 2 + i
    BY <1>1, <2>1
  <2>. QED
    BY <1>1, <2>2, <2>3
<1>6. CASE Iterate /\ ik_pc' # "restart"
  <2>1. ik_pc = "iterate" /\ ik_pc' = "iterate" /\ restart' = restart /\ iteration' = iteration + 1
    BY <1>6 DEF Iterate
  <2>2. MaxIters - iteration' = i - 1
    BY <1>1, <1>2, <2>1
  <2>3. IkLeft' = e * k + 2 + (MaxIters - iteration')
    BY <1>1, <2>1 DEF IkLeft, PerRestart
  <2>4. IkLeft = m + 2 + i /\ IkLeft' = m + 2 + (i - 1)
    BY <1>1, <2>1, <2>2, <2>3
  <2>. QED
    BY <2>4
<1>. QED
  BY <1>3, <1>4, <1>5, <1>6 DEF IkNext, Exhaust

LEMMA Differences ==
  ASSUME NEW h \in Nat, NEW k \in Nat, k <= h
  PROVE  \E d \in Nat : d = h - k /\ h = d + k
<1>1. h - k \in Nat /\ h = (h - k) + k
  OBVIOUS
<1>. QED
  BY <1>1

(* What a sub-goal may use covers the calls of the solver made for it. *)
Covers(p, b, a, t, l, s, u, n, g, w) ==
  /\ p = PerSub /\ b = IkBound + 2 /\ a = MaxAttempts /\ t = tries
  /\ l = Len(goal) /\ s = sub /\ u = updates /\ n = MaxIterations
  /\ s <= l /\ u <= n /\ t <= a /\ g = (l - s) * p /\ w = t * b
  /\ w < p /\ w <= g /\ (t = 0 => w = 0) /\ b >= 2

LEMMA PerSubCovers ==
  ASSUME PlanInv, CountInv
  PROVE  \E p, b, a, t, l, s, u, n, g, w \in Nat : Covers(p, b, a, t, l, s, u, n, g, w)
<1>1. /\ sub \in 0 .. Len(goal) /\ tries \in 0 .. MaxAttempts /\ updates \in 0 .. MaxIterations
      /\ MaxIterations \in Nat /\ MaxAttempts \in Nat
  BY Assumed DEF PlanInv, TypeOK
<1>2. Len(goal) \in Nat
  BY Assumed DEF PlanInv
<1>3. IkBound \in Nat
  <2>1. PICK k \in Nat, r \in Nat : k = PerRestart /\ r = MaxRestarts + 1
    BY IkAssumed DEF PerRestart
  <2>2. r * k \in Nat
    BY Products
  <2>. QED
    BY <2>1, <2>2 DEF IkBound
<1>4. PICK a, b, t \in Nat : a = MaxAttempts /\ b = IkBound + 2 /\ t = tries /\ t <= a /\ b >= 2
  <2>1. IkBound + 2 \in Nat /\ IkBound + 2 >= 2
    BY <1>3
  <2>2. MaxAttempts \in Nat /\ tries \in Nat /\ tries <= MaxAttempts
    BY <1>1
  <2>. QED
    BY <2>1, <2>2
<1>5. PICK c, w \in Nat : c = a * b /\ w = t * b /\ w <= c /\ (t = 0 => w = 0)
  <2>1. a * b \in Nat /\ t * b \in Nat /\ t * b <= a * b /\ 0 * b = 0
    BY <1>4, Products
  <2>. QED
    BY <2>1
<1>6. PICK p \in Nat : p = PerSub /\ p = c + 1
  BY <1>4, <1>5 DEF PerSub
<1>7. PICK l, s, u, n \in Nat : /\ l = Len(goal) /\ s = sub /\ u = updates /\ n = MaxIterations
                                /\ s <= l /\ u <= n
  BY <1>1, <1>2
<1>8. PICK d \in Nat : d = l - s /\ l = d + s
  <2>1. s <= l
    BY ONLY <1>7
  <2>. QED
    BY ONLY <2>1, Differences, l \in Nat, s \in Nat
<1>9. PICK g \in Nat : g = (l - s) * p /\ g = d * p
  <2>1. d * p \in Nat
    BY ONLY Products, d \in Nat, p \in Nat
  <2>. QED
    BY ONLY <2>1, <1>8
<1>10. w <= g
  <2>1. CASE t = 0
    BY <1>5, <2>1
  <2>2. CASE t # 0
    <3>1. s < l
      BY <1>4, <1>7, <2>2 DEF CountInv
    <3>2. 1 <= d
      BY <1>7, <1>8, <3>1
    <3>3. 1 * p <= d * p
      BY <3>2, Products
    <3>. QED
      BY <1>5, <1>6, <1>9, <3>3
  <2>. QED
    BY <2>1, <2>2
<1>11. w < p
  BY <1>5, <1>6
<1>12. g = (l - s) * p /\ w = t * b
  BY ONLY <1>5, <1>9
<1>13. Covers(p, b, a, t, l, s, u, n, g, w)
  BY ONLY <1>4, <1>5, <1>6, <1>7, <1>10, <1>11, <1>12 DEF Covers
<1>. QED
  BY ONLY <1>13, p \in Nat, b \in Nat, a \in Nat, t \in Nat, l \in Nat, s \in Nat, u \in Nat,
     n \in Nat, g \in Nat, w \in Nat

LEMMA IkLeftIsNat == IkInv => IkLeft \in Nat
BY IkLeftNat

LEMMA NextIkLeftNat ==
  ASSUME IkInv'
  PROVE  IkLeft' \in Nat
<1>1. IkInv' => (IkLeft \in Nat)'
  BY IkLeftIsNat, PTL
<1>. QED
  BY <1>1

LEMMA LeftNat ==
  ASSUME PlanInv, IkInv, CountInv
  PROVE  Left \in Nat
<1>0. PICK p, b, a, t, l, s, u, n, g, w \in Nat : Covers(p, b, a, t, l, s, u, n, g, w)
  BY PerSubCovers
<1>1. /\ p = PerSub /\ b = IkBound + 2 /\ a = MaxAttempts /\ t = tries
      /\ l = Len(goal) /\ s = sub /\ u = updates /\ n = MaxIterations
      /\ s <= l /\ u <= n /\ t <= a /\ g = (l - s) * p /\ w = t * b
      /\ w < p /\ w <= g /\ (t = 0 => w = 0) /\ b >= 2
  BY <1>0 DEF Covers
<1>2. PICK x \in Nat : x = IF ik_pc = "idle" THEN 0 ELSE IkLeft + 1
  BY IkLeftNat
<1>3. CASE pc = "validate"
  <2>1. PICK c \in Nat : c = l * p
    BY Products
  <2>2. Left = c + n + 4
    BY <1>1, <1>3, <2>1 DEF Left
  <2>. QED
    BY <2>2
<1>4. CASE pc = "resolve"
  <2>1. Left = g - w + n + 3 + x
    BY <1>1, <1>2, <1>4 DEF Left
  <2>1a. w <= g
    BY ONLY <1>1
  <2>2. PICK d \in Nat : d = g - w /\ g = d + w
    BY ONLY <2>1a, Differences, g \in Nat, w \in Nat
  <2>3. Left = d + n + 3 + x
    BY <2>1, <2>2
  <2>. QED
    BY ONLY <2>3, d \in Nat, n \in Nat, x \in Nat
<1>5. CASE pc = "optimise"
  <2>1. Left = n - u + 2
    BY <1>1, <1>5 DEF Left
  <2>. QED
    BY <1>1, <2>1
<1>6. CASE pc \in {"certify", "done"}
  BY <1>6 DEF Left
<1>. QED
  BY <1>3, <1>4, <1>5, <1>6 DEF PlanInv, TypeOK

(* Every step of plan() uses up some of what is left. *)
LEMMA LeftFalls ==
  ASSUME PlanInv, PlanInv', IkInv, IkInv', CountInv, Next, ~ Done
  PROVE  Left' < Left
<1>0. PICK p, b, a, t, l, s, u, n, g, w \in Nat : Covers(p, b, a, t, l, s, u, n, g, w)
  BY PerSubCovers
<1>1. /\ p = PerSub /\ b = IkBound + 2 /\ a = MaxAttempts /\ t = tries
      /\ l = Len(goal) /\ s = sub /\ u = updates /\ n = MaxIterations
      /\ s <= l /\ u <= n /\ t <= a /\ g = (l - s) * p /\ w = t * b
      /\ w < p /\ w <= g /\ (t = 0 => w = 0) /\ b >= 2
  BY <1>0 DEF Covers
<1>2. PICK x \in Nat : x = IF ik_pc = "idle" THEN 0 ELSE IkLeft + 1
  BY IkLeftNat
<1>3. PICK y \in Nat : y = IF ik_pc' = "idle" THEN 0 ELSE IkLeft' + 1
  BY NextIkLeftNat
<1>4. goal' = goal
  BY DEF Next, vars, given, Reject, FromSeed, Resolve, TakeJoint, CallIk, SolveIk, IkReturned, PoseDone,
     NoGoal, StraightLine, Optimise, StopOptimising, CertifyRefined, Refuse, FallBack, Done,
     Fail, Begin, Return, NextSub
<1>5. pc = "validate" => \E c \in Nat : c = l * p /\ Left = c + n + 4
  <2>1. l * p \in Nat
    BY Products
  <2>. QED
    BY <1>1, <2>1 DEF Left
<1>6. pc = "resolve" => Left = g - w + n + 3 + x
  BY <1>1, <1>2 DEF Left
<1>6a. PICK d \in Nat : d = g - w /\ g = d + w
  <2>1. w <= g
    BY ONLY <1>1
  <2>. QED
    BY ONLY <2>1, Differences, g \in Nat, w \in Nat
<1>6b. pc = "resolve" => Left = d + n + 3 + x
  BY ONLY <1>6, <1>6a
<1>7. pc = "optimise" => Left = n - u + 2
  BY <1>1 DEF Left
<1>8. pc = "certify" => Left = 1
  BY DEF Left
<1>9. pc' = "done" => Left' = 0
  BY DEF Left
<1>10. pc' = "optimise" /\ updates' = updates => Left' = n - u + 2
  BY <1>1 DEF Left
<1>11. CASE Reject \/ NoGoal \/ CertifyRefined \/ Refuse \/ FallBack
  <2>1. pc' = "done" /\ pc \in {"validate", "resolve", "certify"}
    BY <1>11 DEF Reject, NoGoal, CertifyRefined, Refuse, FallBack, Fail, Return, Finish
  <2>2. Left > 0
    <3>1. CASE pc = "validate"
      BY <1>5, <3>1
    <3>2. CASE pc = "resolve"
      BY ONLY <1>6b, <3>2, d \in Nat, n \in Nat, x \in Nat
    <3>3. CASE pc = "certify"
      BY <1>8, <3>3
    <3>. QED
      BY <2>1, <3>1, <3>2, <3>3
  <2>. QED
    BY <1>9, <2>1, <2>2
<1>12. CASE FromSeed
  <2>1. pc = "validate" /\ pc' = "optimise" /\ updates' = updates
    BY <1>12 DEF FromSeed, Begin
  <2>2. PICK c \in Nat : Left = c + n + 4
    BY <1>5, <2>1
  <2>. QED
    BY <1>1, <1>10, <2>1, <2>2
<1>13. CASE Resolve
  <2>1. pc = "validate" /\ pc' = "resolve" /\ sub' = 0 /\ tries' = 0 /\ ik_pc' = "idle"
    BY <1>13 DEF Resolve, ik, PlanInv, CountInv
  <2>2. PICK c \in Nat : c = l * p /\ Left = c + n + 4
    BY <1>5, <2>1
  <2>3. Left' = (l - 0) * p - 0 * b + n + 3 + 0
    BY <1>1, <1>4, <2>1 DEF Left, PerSub, IkBound, PerRestart
  <2>4. l - 0 = l /\ 0 * b = 0
    OBVIOUS
  <2>5. Left' = c + n + 3
    BY <2>2, <2>3, <2>4
  <2>. QED
    BY <2>2, <2>5
<1>14. CASE TakeJoint \/ PoseDone
  <2>1. pc = "resolve" /\ pc' = "resolve" /\ sub' = sub + 1 /\ tries' = 0 /\ UNCHANGED ik /\ sub < Len(goal)
    BY <1>14 DEF TakeJoint, PoseDone, NextSub
  <2>0. s <= l
    BY <1>1
  <2>2. PICK e \in Nat : e = l - s /\ l = e + s
    BY ONLY <2>0, Differences, l \in Nat, s \in Nat
  <2>2a. g = e * p /\ e >= 1
    BY <1>1, <2>1, <2>2
  <2>3. (e - 1) * p = g - p /\ 0 * b = 0
    BY ONLY <2>2a, Products, e \in Nat, p \in Nat, b \in Nat
  <2>4. IkLeft' = IkLeft /\ ik_pc' = ik_pc
    BY <2>1 DEF ik, IkLeft
  <2>5. y = x
    BY <1>2, <1>3, <2>4
  <2>6. Len(goal') - sub' = e - 1
    <3>1. Len(goal') = l /\ sub' = s + 1
      BY <1>1, <1>4, <2>1
    <3>2. l - (s + 1) = e - 1
      BY ONLY <2>2, l \in Nat, s \in Nat, e \in Nat
    <3>. QED
      BY ONLY <3>1, <3>2
  <2>7. Left' = (Len(goal') - sub') * p - 0 * b + n + 3 + y
    BY <1>1, <1>3, <2>1 DEF Left, PerSub, IkBound, PerRestart
  <2>8. Left' = g - p + n + 3 + x
    <3>1. Left' = (e - 1) * p - 0 * b + n + 3 + x
      BY ONLY <2>5, <2>6, <2>7
    <3>2. Left' = g - p - 0 + n + 3 + x
      BY ONLY <2>3, <3>1
    <3>. QED
      BY ONLY <3>2, g \in Nat, p \in Nat, n \in Nat, x \in Nat
  <2>9. w < p
    BY <1>1
  <2>10. Left = g - w + n + 3 + x
    BY <1>6, <2>1
  <2>. QED
    BY ONLY <2>8, <2>9, <2>10, g \in Nat, w \in Nat, p \in Nat, n \in Nat, x \in Nat
<1>15. CASE CallIk
  <2>1. /\ pc = "resolve" /\ pc' = "resolve" /\ sub' = sub /\ tries' = tries + 1 /\ ik_pc = "idle"
        /\ ik_pc' = "restart" /\ restart' = 0
    BY <1>15 DEF CallIk, IkReset
  <2>2. IkLeft' = (MaxRestarts + 1 - 0) * PerRestart + 1
    BY <2>1 DEF IkLeft, PerRestart
  <2>3. MaxRestarts + 1 - 0 = MaxRestarts + 1
    BY IkAssumed
  <2>4. IkLeft' = IkBound
    BY <2>2, <2>3 DEF IkBound
  <2>5. x = 0 /\ y = IkBound + 1
    BY <1>2, <1>3, <2>1, <2>4
  <2>6. y = b - 1
    <3>1. PICK z \in Nat : z = IkBound
      BY <2>4, NextIkLeftNat
    <3>. QED
      BY <1>1, <2>5, <3>1
  <2>7. (t + 1) * b = w + b
    BY <1>1, Products
  <2>8. Left' = (l - s) * p - (t + 1) * b + n + 3 + y
    BY <1>1, <1>3, <1>4, <2>1 DEF Left, PerSub, IkBound, PerRestart
  <2>9. Left' = g - (w + b) + n + 3 + (b - 1)
    BY <1>1, <2>6, <2>7, <2>8
  <2>. QED
    BY <1>6, <2>1, <2>5, <2>9
<1>16. CASE SolveIk \/ IkReturned
  <2>1. pc = "resolve" /\ pc' = "resolve" /\ sub' = sub /\ tries' = tries
    BY <1>16 DEF SolveIk, IkReturned
  <2>2. y < x
    <3>1. CASE SolveIk
      <4>1. IkLeft' < IkLeft /\ ik_pc # "idle" /\ ik_pc' # "idle"
        BY <3>1, IkLeftFalls DEF SolveIk, IkNext, Restart, GiveUp, Reach, Iterate, Exhaust
      <4>2. PICK i0 \in Nat, i1 \in Nat : i0 = IkLeft /\ i1 = IkLeft'
        BY IkLeftNat, NextIkLeftNat
      <4>. QED
        <5>1. x = i0 + 1 /\ y = i1 + 1
          BY <1>2, <1>3, <4>1, <4>2
        <5>2. i1 < i0
          BY <4>1, <4>2
        <5>. QED
          BY ONLY <5>1, <5>2, i0 \in Nat, i1 \in Nat
    <3>2. CASE IkReturned
      <4>1. ik_pc \in {"solved", "failed"} /\ ik_pc' = "idle"
        BY <3>2 DEF IkReturned, IkReset
      <4>2. x = 0 + 1 /\ y = 0
        BY <1>2, <1>3, <4>1 DEF IkLeft
      <4>. QED
        BY <4>2
    <3>. QED
      BY <1>16, <3>1, <3>2
  <2>3. Left' = g - w + n + 3 + y
    BY <1>1, <1>3, <1>4, <2>1 DEF Left, PerSub, IkBound, PerRestart
  <2>. QED
    BY <1>6, <2>1, <2>2, <2>3
<1>17. CASE StraightLine
  <2>1. pc = "resolve" /\ pc' = "optimise" /\ updates' = updates
    BY <1>17 DEF StraightLine, Begin
  <2>2. Left = d + n + 3 + x /\ Left' = n - u + 2
    BY <1>10, <1>6b, <2>1
  <2>. QED
    BY ONLY <2>2, d \in Nat, n \in Nat, u \in Nat, x \in Nat
<1>18. CASE Optimise
  <2>1. pc = "optimise" /\ pc' \in {"optimise", "certify"} /\ updates < MaxIterations /\ updates' = updates + 1
    BY <1>18 DEF Optimise
  <2>2. CASE pc' = "optimise"
    <3>1. Left' = n - (u + 1) + 2
      BY <1>1, <2>1, <2>2 DEF Left
    <3>. QED
      BY <1>1, <1>7, <2>1, <3>1
  <2>3. CASE pc' = "certify"
    <3>1. Left' = 1
      BY <2>3 DEF Left
    <3>. QED
      BY <1>1, <1>7, <2>1, <3>1
  <2>. QED
    BY <2>1, <2>2, <2>3
<1>19. CASE StopOptimising
  <2>1. pc = "optimise" /\ pc' = "certify"
    BY <1>19 DEF StopOptimising
  <2>2. Left' = 1
    BY <2>1 DEF Left
  <2>. QED
    BY <1>1, <1>7, <2>1, <2>2
<1>. QED
  BY <1>11, <1>12, <1>13, <1>14, <1>15, <1>16, <1>17, <1>18, <1>19 DEF Next

(* Whatever the solver meets and the optimiser does, a call of plan() takes at most
   this many steps: the attempts, restarts and iterations of every sub-goal's
   solver calls and the updates are all counted down. *)
THEOREM CallsAreBounded ==
  Spec => /\ Left = Len(goal) * PerSub + MaxIterations + 4
          /\ [](Left \in Nat)
          /\ [][Left' < Left]_vars
<1>1. Init => CountInv /\ Left = Len(goal) * PerSub + MaxIterations + 4
  BY DEF Init, CountInv, Left
<1>2. CountInv /\ [Next]_vars => CountInv'
  BY CountInvPreserved
<1>3. PlanInv /\ IkInv /\ CountInv => Left \in Nat
  BY LeftNat
<1>4. PlanInv /\ PlanInv' /\ IkInv /\ IkInv' /\ CountInv /\ [Next]_vars => [Left' < Left]_vars
  BY LeftFalls DEF Done
<1>. QED
  BY <1>1, <1>2, <1>3, <1>4, Invariance, PTL DEF Spec
===============================================================================
