-------------------------- MODULE TimeParameterization --------------------------
(***************************************************************************)
(* parametrize (src/parameterization/parameterize.cpp): the squared speed  *)
(* beta_k at each of N + 1 nodes of a path, from rest to rest.  A backward *)
(* pass computes which speeds can still stop, a forward pass rides the     *)
(* largest of them, and the jerk kernel dips the result.  A constraint is  *)
(* a row  |a u + b beta| <= h  at both ends of an interval, with           *)
(* u = (beta_(k+1) - beta_k) / (2 delta), delta = 1/N.  Numbers are exact: *)
(* the tolerances of the code are left out.                                *)
(***************************************************************************)
EXTENDS Integers, FiniteSetsExt, SequencesExt, Fractions

CONSTANTS
  Problems,       \* the paths and limits posed, see below
  BetaCap,        \* beta at a node no velocity limit binds; 1e12 in the code
  PassBudgets,    \* the values of max_jerk_passes
  MaxDenominator  \* bound: the kernel is followed on even N and profiles of this denominator

\* A problem: dof, N and per node k \in 0 .. N the path derivatives d1[k], d2[k], d3[k]
\* (one number per joint) and the tip's path velocity and curvature tip[k]; the limits
\* vmax, amax, jmax per joint and vtip, atip, where 0 is "off" but for vmax.
ASSUME TimingAssumption ==
  /\ BetaCap \in Nat \ {0} /\ PassBudgets \subseteq Nat /\ MaxDenominator \in Nat \ {0}
  /\ \A p \in Problems :
       /\ p.N \in Nat /\ \A i \in DOMAIN p.vmax : p.vmax[i] >= 0
       /\ p.vtip >= 0 /\ p.atip >= 0

VARIABLES
  pc,       \* the stage reached
  p,        \* the problem
  at,       \* the node the pass has reached
  kLo, kHi, \* the controllable interval of each node
  beta,     \* the profile of the convex phase
  mant, ex, \* the kernel's profile: mant[k] / (denominator * 4^ex)
  passes, budget, width,
  message   \* "" while undecided, "solved", or why not

vars == <<pc, p, at, kLo, kHi, beta, mant, ex, passes, budget, width, message>>

-------------------------------------------------------------------------------
(* The constraints *)

Abs(n) == IF n < 0 THEN -n ELSE n
Joints == 1 .. p.dof
Nodes == 0 .. p.N
Inner == 1 .. p.N - 1

Row(a, b, h) == [a |-> a, b |-> b, h |-> h]

NodeRows(k) ==
  {Row(p.d1[k][i], p.d2[k][i], p.amax[i]) : i \in {j \in Joints : p.amax[j] > 0}}
    \cup (IF p.atip > 0 THEN {Row(p.tip[k][1], p.tip[k][2], p.atip)} ELSE {})

BetaMax(k) ==
  Least({Whole(BetaCap)}
    \cup {Frac(p.vmax[i] * p.vmax[i], p.d1[k][i] * p.d1[k][i]) : i \in {j \in Joints : p.d1[k][j] # 0}}
    \cup (IF p.vtip > 0 /\ p.tip[k][1] # 0
            THEN {Frac(p.vtip * p.vtip, p.tip[k][1] * p.tip[k][1])} ELSE {}))

\* Rows of the interval from x = beta_k to y = beta_(k+1), doubled to stay whole: the
\* row's value is px x + py y, between -h and h.
AtLeft(r) == [px |-> 2 * r.b - p.N * r.a, py |-> p.N * r.a, h |-> Whole(2 * r.h)]
AtRight(r) == [px |-> -(p.N * r.a), py |-> p.N * r.a + 2 * r.b, h |-> Whole(2 * r.h)]
Spans(k) == {AtLeft(r) : r \in NodeRows(k)} \cup {AtRight(r) : r \in NodeRows(k + 1)}

Half(px, py, h) == [px |-> px, py |-> py, h |-> h]
Box_NextLimit(k, yLo, yHi) ==                 \* Mutant: beta_k bounded by the limit of node k + 1
  {Half(-1, 0, Zero), Half(1, 0, BetaMax(k + 1)), Half(0, -1, Scale(-1, yLo)), Half(0, 1, yHi)}

Box(k, yLo, yHi) ==
  {Half(-1, 0, Zero), Half(1, 0, BetaMax(k)), Half(0, -1, Scale(-1, yLo)), Half(0, 1, yHi)}

IntervalRows(k, yLo, yHi) ==
  Box(k, yLo, yHi) \cup Spans(k) \cup {Half(-s.px, -s.py, s.h) : s \in Spans(k)}

Value(r, x, y) == Plus(Scale(r.px, x), Scale(r.py, y))

\* The vertices of the polygon the rows bound: where two of them meet and all hold.
Vertices(rows) ==
  LET Det(r, s) == r.px * s.py - r.py * s.px
      Meet(r, s) ==
        << Over(Minus(Scale(s.py, r.h), Scale(r.py, s.h)), Det(r, s)),
           Over(Minus(Scale(r.px, s.h), Scale(s.px, r.h)), Det(r, s)) >>
      corners == {Meet(r, s) : <<r, s>> \in {t \in rows \X rows : Det(t[1], t[2]) > 0}}
  IN  {v \in corners : \A r \in rows : AtMost(Value(r, v[1], v[2]), r.h)}

-------------------------------------------------------------------------------
(* Phase A *)

Stop(why) == message' = why /\ pc' = "done"

Init ==
  /\ p \in Problems
  /\ pc = "check" /\ message = "" /\ at = 0
  /\ kLo = <<>> /\ kHi = <<>> /\ beta = <<>>
  /\ mant = <<>> /\ ex = 0 /\ passes = 0 /\ width = 0
  /\ budget \in PassBudgets

Reject ==
  /\ pc = "check"
  /\ \/ p.N < 2
     \/ Len(p.vmax) # p.dof \/ Len(p.amax) # p.dof
     \/ Len(p.d1[0]) # p.dof
  /\ Stop("rejected")
  /\ UNCHANGED <<p, at, kLo, kHi, beta, mant, ex, passes, budget, width>>

Begin ==
  /\ pc = "check"
  /\ p.N >= 2 /\ Len(p.vmax) = p.dof /\ Len(p.amax) = p.dof /\ Len(p.d1[0]) = p.dof
  /\ kLo' = [k \in Nodes |-> Zero] /\ kHi' = [k \in Nodes |-> Zero]
  /\ pc' = "backward" /\ at' = p.N - 1
  /\ UNCHANGED <<p, beta, mant, ex, passes, budget, width, message>>

Controllable_NearRows(k) ==                   \* Mutant: the rows of node k + 1 are left out
  LET near == {AtLeft(r) : r \in NodeRows(k)}
  IN  {v[1] : v \in Vertices(Box(k, kLo[k + 1], kHi[k + 1]) \cup near
                              \cup {Half(-s.px, -s.py, s.h) : s \in near})}

\* The values of beta_k from which the controllable interval of node k + 1 is reached.
Controllable(k) == {v[1] : v \in Vertices(IntervalRows(k, kLo[k + 1], kHi[k + 1]))}

BackwardNode ==
  /\ pc = "backward" /\ at >= 0
  /\ \E xs \in {Controllable(at)} :
       IF xs = {}
         THEN Stop("not_controllable") /\ UNCHANGED <<kLo, kHi, at>>
         ELSE /\ kHi' = [kHi EXCEPT ![at] = Greatest({Zero, Greatest(xs)})]
              /\ kLo' = [kLo EXCEPT ![at] = Greatest({Zero, Least(xs)})]
              /\ at' = at - 1 /\ UNCHANGED <<pc, message>>
  /\ UNCHANGED <<p, beta, mant, ex, passes, budget, width>>

Turn ==
  /\ pc = "backward" /\ at < 0
  /\ IF Less(Zero, kLo[0])
       THEN Stop("rest_start") /\ UNCHANGED <<beta, at>>
       ELSE /\ beta' = [k \in Nodes |-> Zero] /\ at' = 0
            /\ pc' = "forward" /\ UNCHANGED message
  /\ UNCHANGED <<p, kLo, kHi, mant, ex, passes, budget, width>>

Clip_NearRows(k) ==                           \* Mutant: the rows of node k + 1 are not clipped
  LET x == beta[k]
      Ends(s) == {Over(Minus(h, Scale(s.px, x)), s.py) : h \in {s.h, Scale(-1, s.h)}}
      cuts == {Ends(AtLeft(r)) : r \in {t \in NodeRows(k) : t.a # 0}}
  IN  << Greatest({kLo[k + 1]} \cup {Least(c) : c \in cuts}),
         Least({kHi[k + 1], BetaMax(k + 1)} \cup {Greatest(c) : c \in cuts}) >>

\* What the rows of interval k leave of beta_(k+1) once beta_k is chosen: each row that
\* involves it cuts a lower and an upper end.
Clip(k) ==
  LET x == beta[k]
      Ends(s) == {Over(Minus(h, Scale(s.px, x)), s.py) : h \in {s.h, Scale(-1, s.h)}}
      cuts == {Ends(s) : s \in {t \in Spans(k) : t.py # 0}}
  IN  << Greatest({kLo[k + 1]} \cup {Least(c) : c \in cuts}),
         Least({kHi[k + 1], BetaMax(k + 1)} \cup {Greatest(c) : c \in cuts}) >>

ForwardNode ==
  /\ pc = "forward" /\ at < p.N
  /\ \E y \in {Clip(at)} :
       IF Less(y[2], y[1])
         THEN Stop("infeasible") /\ UNCHANGED <<beta, at>>
         ELSE /\ beta' = [beta EXCEPT ![at + 1] = Greatest({Zero, y[2]})]
              /\ at' = at + 1 /\ UNCHANGED <<pc, message>>
  /\ UNCHANGED <<p, kLo, kHi, mant, ex, passes, budget, width>>

-------------------------------------------------------------------------------
(* Stage 2: the velocity-reduction kernel.  Dips are kept to quarters, and *)
(* rounded down to them: the kernel aims below the limit too.              *)

Denominator == CommonDenominator({beta[k] : k \in Nodes})
Unit == Denominator * 4^ex

\* The bracket of the node jerk  sqrt(beta) (q' u' + 3 q'' u + q''' beta), in units.
Bracket(i, k) ==
    ((p.N * p.N) \div 2) * p.d1[k][i] * (mant[k + 1] - 2 * mant[k] + mant[k - 1])
      + 3 * (p.N \div 2) * p.d2[k][i] * (mant[k + 1] - mant[k])
      + p.d3[k][i] * mant[k]

\* Some joint's jerk at node k is more than sqrt(n/d) of its limit.
JerkOver(k, n, d) ==
  /\ k \in Inner /\ mant[k] > 0
  /\ \E i \in Joints :
       /\ p.jmax[i] > 0
       /\ d * Bracket(i, k) * Bracket(i, k)
            > (n * p.jmax[i] * p.jmax[i] * Unit * Unit * Unit) \div mant[k]
TooJerky == \E k \in Inner : JerkOver(k, 1, 1)

\* The dip in quarters that the alpha^3 law asks of node k, at most a fourth in a pass.
Dip(k) ==
  IF ~JerkOver(k, 1, 1) THEN 4
  ELSE Max({1} \cup {q \in 2 .. 3 : ~JerkOver(k, 64, q * q * q)})

Window(k, w) == Nodes \cap (k - w) .. (k + w)
Mean(f, S) == FoldSet(LAMBDA j, sum : f[j] + sum, 0, S) \div Cardinality(S)

Envelope(w) ==
  LET cap == [k \in Nodes |-> Dip(k)]
      low == [k \in Nodes |-> Min({cap[j] : j \in Window(k, w)})]
      h == Max({1, w \div 2})
      once == [k \in Nodes |-> Mean(low, Window(k, h))]
  IN  [k \in Nodes |-> Mean(once, Window(k, h))]

\* The acceleration rows hold between neighbours of the profile m / u.
RowsHoldFor(m, u) ==
  \A k \in 0 .. p.N - 1 : \A s \in Spans(k) :
    Abs(s.px * m[k] + s.py * m[k + 1]) <= s.h[1] * u

StartKernel ==
  /\ pc = "forward" /\ at = p.N
  /\ \E i \in DOMAIN p.jmax : Len(p.jmax) = p.dof /\ p.jmax[i] > 0
  /\ Denominator <= MaxDenominator /\ p.N % 2 = 0
  /\ mant' = [k \in Nodes |-> (beta[k][1] * Denominator) \div beta[k][2]]
  /\ width' = Max({2, p.N \div 50})
  /\ pc' = "kernel"
  /\ UNCHANGED <<p, at, kLo, kHi, beta, ex, passes, budget, message>>

KernelPass ==
  /\ pc = "kernel" /\ passes < budget /\ TooJerky
  /\ passes' = passes + 1
  /\ \E env \in {Envelope(width)} :
       \E m \in {[k \in Nodes |-> mant[k] * env[k]]} :
         IF RowsHoldFor(m, Unit * 4)
           THEN mant' = m /\ ex' = ex + 1 /\ UNCHANGED width
           ELSE width' = Min({2 * width, p.N}) /\ UNCHANGED <<mant, ex>>
  /\ UNCHANGED <<pc, p, at, kLo, kHi, beta, budget, message>>

Alpha_FirstNode == CHOOSE j \in 1 .. 8 :        \* Mutant: scaled for node 1, not the worst
  /\ ~JerkOver(1, 64^j, 1)
  /\ j = 1 \/ JerkOver(1, 64^(j - 1), 1)

\* A uniform beta alpha^2 scales every jerk by alpha^3; alpha is rounded down to a power
\* of two.
Alpha == CHOOSE j \in 1 .. 8 :
  /\ \A k \in Inner : ~JerkOver(k, 64^j, 1)
  /\ j = 1 \/ \E k \in Inner : JerkOver(k, 64^(j - 1), 1)

LeaveKernel ==
  /\ pc = "kernel" /\ (passes >= budget \/ ~TooJerky)
  /\ ex' = IF TooJerky THEN ex + Alpha ELSE ex
  /\ pc' = "certify"
  /\ UNCHANGED <<p, at, kLo, kHi, beta, mant, passes, budget, width, message>>

-------------------------------------------------------------------------------
(* The trajectory *)

Speed(k) == IF mant = <<>> THEN beta[k] ELSE Frac(mant[k], Unit)
Stalls == \E k \in 1 .. p.N : Speed(k - 1) = Zero /\ Speed(k) = Zero

Finish ==
  /\ \/ pc = "forward" /\ at = p.N
     \/ pc = "certify"
  /\ Stop(IF Stalls THEN "stalls"
          ELSE IF pc = "certify" /\ TooJerky THEN "not_certified"
          ELSE "solved")
  /\ UNCHANGED <<p, at, kLo, kHi, beta, mant, ex, passes, budget, width>>

Done == pc = "done" /\ UNCHANGED vars

Next == \/ Reject \/ Begin \/ BackwardNode \/ Turn \/ ForwardNode
        \/ StartKernel \/ KernelPass \/ LeaveKernel \/ Finish \/ Done

Spec == Init /\ [][Next]_vars

-------------------------------------------------------------------------------
(* Properties *)

Solved == message = "solved"

\* Every acceleration row holds exactly at both ends of every interval, every velocity
\* bound at every node, and the robot starts and ends at rest: for the convex profile and
\* for what the kernel makes of it, though a dip at one node changes the row of its
\* neighbours.
RowsHold ==
  Solved =>
    /\ Speed(0) = Zero /\ Speed(p.N) = Zero
    /\ \A k \in Nodes : AtMost(Zero, Speed(k)) /\ AtMost(Speed(k), BetaMax(k))
    /\ \A k \in 0 .. p.N - 1 : \A s \in Spans(k) :
         \E v \in {Value(s, Speed(k), Speed(k + 1))} :
           AtMost(v, s.h) /\ AtMost(Scale(-1, s.h), v)

\* Limits are symmetric, so the path can always be crawled: a well-formed problem whose
\* velocity limits are positive is always solved.  The forward pass never meets a node
\* the backward pass did not prepare, and no two neighbours are at rest.
AlwaysSolved ==
  pc = "done" /\ message # "rejected" /\ (\A i \in DOMAIN p.vmax : p.vmax[i] > 0) => Solved

\* What the kernel hands over keeps every jerk limit, however its passes ended.
JerkCertified == pc \in {"certify", "done"} /\ mant # <<>> => ~TooJerky

\* Profiles in steps of 1/2 that keep every limit.
Feasible ==
  {f \in [Nodes -> 0 .. 2 * BetaCap] :
     /\ f[0] = 0 /\ f[p.N] = 0
     /\ \A k \in Inner : AtMost(Frac(f[k], 2), BetaMax(k))
     /\ RowsHoldFor(f, 2)}

\* A higher speed at a node never lowers the highest one reachable at the next.
Monotone ==
  \A k \in 0 .. p.N - 1 :
    /\ \A r \in NodeRows(k) : r.a # 0 => 2 * Abs(r.b) <= p.N * Abs(r.a)
    /\ \A r \in NodeRows(k + 1) : r.a # 0 => 2 * Abs(r.b) <= p.N * Abs(r.a)

ConvexSolved == pc = "done" /\ Solved /\ mant = <<>>

\* The convex profile is the fastest: no profile that keeps the limits is faster at any
\* node, where the rows are monotone.
Fastest ==
  ConvexSolved /\ p.N <= 4 /\ Monotone =>
    \A f \in Feasible : \A k \in Nodes : AtMost(Frac(f[k], 2), beta[k])
================================================================================
