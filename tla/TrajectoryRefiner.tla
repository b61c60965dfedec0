--------------------------- MODULE TrajectoryRefiner ---------------------------
(***************************************************************************)
(* TrajectoryRefiner::plan (src/planning/trajectory_refiner.cpp): a        *)
(* trajectory of M configurations, resampled from the caller's seed or     *)
(* from a straight line to a goal, is moved step by step with its ends     *)
(* held, and then certified edge by edge; a refined seed that fails is     *)
(* exchanged for the resampled seed.  Configurations are lattice points    *)
(* and an obstacle is a set of cells around them, so that resampling and   *)
(* the samples of an edge are computed as the code computes them.  A CHOMP *)
(* update is any combination of Moves: it is the clearance field and the   *)
(* smoothness metric that choose, and plan() trusts neither.  Nothing      *)
(* compares the seed's ends with the problem (refiner.hpp says "they must  *)
(* match"); the seeds given here do match it.                              *)
(***************************************************************************)
EXTENDS NumericalIk, Sequences, SequencesExt, FiniteSets

CONSTANTS
  Cfg,           \* joint configurations: points of a lattice
  Start,         \* problem.start
  Targets,       \* the lists of sub-goals of the problems asked: a sub-goal is a
                 \* JointGoal's target, or Pose
  Seeds,         \* params.seed, <<>> in standalone mode
  Waypoints,     \* params.waypoints
  MaxIterations, \* params.max_iterations
  MaxAttempts,   \* IK calls for a PoseGoal; 4 in the code
  Limits,        \* position limits of an axis, <<lower, upper>>; <<>> for none
  JointBounds,   \* problem.constraints.joint_bounds, one pair per axis, or <<>>
  Moves,         \* updates of one waypoint; convergence is too small to be one
  Obstacles,     \* the environments: sets of colliding cells
  Resolution,    \* params.edge_resolution
  MaxSweep,      \* params.max_link_sweep, 0 for steps by resolution
  Levers         \* params.lever_weights

Axes == 1 .. 2
Points == Int \X Int
Moved(p, d) == [i \in Axes |-> p[i] + d[i]]
Still == <<0, 0>>
Pose == <<>> \* a PoseGoal
M == IF Waypoints < 3 THEN 3 ELSE Waypoints
Interior == 2 .. M - 1

ASSUME RefinerAssumption ==
  /\ Cfg \subseteq Points /\ Postures \subseteq Cfg /\ IsFiniteSet(Cfg)
  /\ Start \in Cfg /\ Targets \subseteq Seq(Cfg \cup {Pose})
  /\ Limits \in [Axes -> {<<>>} \cup Points] /\ JointBounds \in {<<>>} \cup [Axes -> Points]
  /\ Waypoints \in Nat /\ MaxIterations \in Nat
  /\ MaxAttempts \in Nat \ {0} /\ Resolution \in Nat \ {0}
  /\ MaxSweep \in Nat /\ Levers \in [Axes -> Nat]
  /\ Still \in Moves /\ Moves \subseteq Points
  /\ \A o \in Obstacles : o \subseteq Cfg
  /\ \A s \in Seeds : s \in Seq(Cfg)

VARIABLES
  goal,      \* the list of sub-goals of this problem
  seed,      \* params.seed of this refiner
  hits,      \* the cells in collision
  pc,        \* where plan() stands
  sub,       \* sub-goals resolved
  tries,     \* IK calls made for this one
  local,     \* configurations found for it
  found,     \* configurations found for the goal
  init,      \* the resampled trajectory
  traj,      \* the trajectory being optimised
  updates,   \* stats.iterations
  path,      \* result.path
  status     \* result.status, "none" while plan() runs

given == <<goal, seed, hits>>
vars == <<ik, given, pc, sub, tries, local, found, init, traj, updates, path, status>>

Standalone == seed = <<>>

-------------------------------------------------------------------------------
(* resample: M points at equal arc length along the polyline *)

Abs(n) == IF n < 0 THEN -n ELSE n
Larger(m, n) == IF m < n THEN n ELSE m

\* Segments are parallel to an axis, or the polyline is one segment; so shares
\* of this length are shares of the Euclidean one.
Length(a, b) == Abs(b[1] - a[1]) + Abs(b[2] - a[2])

Between(a, b, k, n) == [i \in Axes |-> a[i] + ((b[i] - a[i]) * k) \div n]

\* cum[i]: the arc length up to the i-th point.
Cum(poly) ==
  LET cum[i \in DOMAIN poly] == IF i = 1 THEN 0 ELSE cum[i - 1] + Length(poly[i - 1], poly[i])
  IN  cum

At(poly, cum, s) ==
  LET last == Len(poly) - 1
      seg == CHOOSE i \in 1 .. last :
               /\ i = last \/ cum[i + 1] >= s
               /\ \A j \in 1 .. i - 1 : cum[j + 1] < s
      len == cum[seg + 1] - cum[seg]
  IN  IF len = 0 THEN poly[seg] ELSE Between(poly[seg], poly[seg + 1], s - cum[seg], len)

Resample(poly) ==
  LET cum == Cum(poly)
      total == cum[Len(poly)]
  IN  [k \in 1 .. M |->
         IF total = 0 THEN poly[1]
         ELSE IF k = M THEN poly[Len(poly)]
         ELSE At(poly, cum, (total * (k - 1)) \div (M - 1))]

-------------------------------------------------------------------------------
(* certify: the samples of an edge, ends included, against the scene *)

Ceil(n, d) == (n + d - 1) \div d

Steps(a, b) ==
  LET delta == [i \in Axes |-> Abs(b[i] - a[i])]
  IN  IF MaxSweep > 0 THEN Larger(1, Ceil(Levers[1] * delta[1] + Levers[2] * delta[2], MaxSweep))
      ELSE Larger(1, Ceil(Larger(delta[1], delta[2]), Resolution))

\* The cell of the k-th of n steps from a to b.
Cell(a, b, k, n) ==
  [i \in Axes |-> (2 * (a[i] * n + (b[i] - a[i]) * k) + n) \div (2 * n)]

Blocked(o, a, b) == \E k \in 0 .. Steps(a, b) : Cell(a, b, k, Steps(a, b)) \in o

\* Mutant: only the waypoints are checked.
Certified_Waypoints(t) == \A i \in DOMAIN t : t[i] \notin hits

Certified(t) == \A i \in 1 .. Len(t) - 1 : ~ Blocked(hits, t[i], t[i + 1])

-------------------------------------------------------------------------------
Satisfies(c, g) == IF g = Pose THEN c \in Postures /\ Err[c] = 0 ELSE c = g

Wanted == {c \in Cfg : \E i \in DOMAIN goal : Satisfies(c, goal[i])}

\* A seed runs from problem.start to a configuration that satisfies the goal.
SeedFits ==
  Len(seed) >= 2 => seed[1] = Start /\ seed[Len(seed)] \in Wanted

Init ==
  /\ IkInit
  /\ goal \in Targets
  /\ seed \in Seeds
  /\ SeedFits
  /\ hits \in Obstacles
  /\ pc = "validate"
  /\ sub = 0
  /\ tries = 0
  /\ local = <<>>
  /\ found = <<>>
  /\ init = <<>>
  /\ traj = <<>>
  /\ updates = 0
  /\ path = <<>>
  /\ status = "none"

Finish(s) ==
  /\ pc' = "done"
  /\ status' = s

Fail(s) ==
  /\ Finish(s)
  /\ UNCHANGED <<ik, given, sub, tries, local, found, init, traj, updates, path>>

\* validate() finds fault, or a seed of one configuration.
Reject ==
  /\ pc = "validate"
  /\ Fail("InvalidProblem")

Begin(t) ==
  /\ init' = t
  /\ traj' = t
  /\ pc' = "optimise"
  /\ UNCHANGED <<ik, given, sub, tries, local, found, updates, path, status>>

FromSeed ==
  /\ pc = "validate"
  /\ Len(seed) >= 2
  /\ Begin(Resample(seed))

Resolve ==
  /\ pc = "validate"
  /\ Standalone
  /\ pc' = "resolve"
  /\ UNCHANGED <<ik, given, sub, tries, local, found, init, traj, updates, path, status>>

Current == goal[sub + 1]

NextSub(configs) ==
  /\ found' = found \o configs
  /\ sub' = sub + 1
  /\ tries' = 0
  /\ local' = <<>>
  /\ UNCHANGED <<given, pc, init, traj, updates, path, status>>

TakeJoint ==
  /\ pc = "resolve"
  /\ sub < Len(goal)
  /\ Current # Pose
  /\ NextSub(<<Current>>)
  /\ UNCHANGED ik

CallIk ==
  /\ pc = "resolve"
  /\ sub < Len(goal)
  /\ Current = Pose
  /\ ik_pc = "idle"
  /\ tries < MaxAttempts
  /\ IkReset("restart")
  /\ tries' = tries + 1
  /\ UNCHANGED <<given, pc, sub, local, found, init, traj, updates, path, status>>

SolveIk ==
  /\ pc = "resolve"
  /\ IkNext
  /\ UNCHANGED <<given, pc, sub, tries, local, found, init, traj, updates, path, status>>

\* A solution new among this sub-goal's is kept; a failed call is passed over.
IkReturned ==
  /\ pc = "resolve"
  /\ ik_pc \in {"solved", "failed"}
  /\ local' = IF ik_pc = "failed" \/ Contains(local, best.q) THEN local ELSE Append(local, best.q)
  /\ IkReset("idle")
  /\ UNCHANGED <<given, pc, sub, tries, found, init, traj, updates, path, status>>

PoseDone ==
  /\ pc = "resolve"
  /\ sub < Len(goal)
  /\ Current = Pose
  /\ ik_pc = "idle"
  /\ tries = MaxAttempts
  /\ NextSub(local)
  /\ UNCHANGED ik

SquaredDistance(c) == (c[1] - Start[1]) * (c[1] - Start[1]) + (c[2] - Start[2]) * (c[2] - Start[2])

\* The first of the nearest ones.
Nearest(i) ==
  \A j \in DOMAIN found :
    IF j < i THEN SquaredDistance(found[i]) < SquaredDistance(found[j])
    ELSE SquaredDistance(found[i]) <= SquaredDistance(found[j])

NoGoal ==
  /\ pc = "resolve"
  /\ sub = Len(goal)
  /\ found = <<>>
  /\ Fail("NoSolution")

StraightLine ==
  /\ pc = "resolve"
  /\ sub = Len(goal)
  /\ \E i \in DOMAIN found : Nearest(i) /\ Begin(Resample(<<Start, found[i]>>))

-------------------------------------------------------------------------------
\* The limits of an axis, narrowed by joint_bounds.  (validate() lets bounds
\* through that leave nothing, for which std::clamp is undefined; the constants
\* here leave something.)
Bounds(i) ==
  IF JointBounds = <<>> THEN Limits[i]
  ELSE IF Limits[i] = <<>> THEN JointBounds[i]
  ELSE <<Larger(Limits[i][1], JointBounds[i][1]), Least(Limits[i][2], JointBounds[i][2])>>

Clamp(p) ==
  [i \in Axes |-> IF Bounds(i) = <<>> THEN p[i] ELSE Larger(Bounds(i)[1], Least(p[i], Bounds(i)[2]))]

Updated(step) ==
  [k \in 1 .. M |-> IF k \in Interior THEN Clamp(Moved(traj[k], step[k])) ELSE traj[k]]

\* One CHOMP iteration.  An update of zero everywhere may be below
\* convergence_tol, which ends the loop.
Optimise ==
  /\ pc = "optimise"
  /\ updates < MaxIterations
  /\ updates' = updates + 1
  /\ \E step \in [Interior -> Moves] :
       /\ traj' = Updated(step)
       /\ \/ pc' = pc
          \/ (\A k \in Interior : step[k] = Still) /\ pc' = "certify"
  /\ UNCHANGED <<ik, given, sub, tries, local, found, init, path, status>>

\* The iterations or problem.timeout are used up.
StopOptimising ==
  /\ pc = "optimise"
  /\ pc' = "certify"
  /\ UNCHANGED <<ik, given, sub, tries, local, found, init, traj, updates, path, status>>

Return(t) ==
  /\ path' = t
  /\ Finish("Success")
  /\ UNCHANGED <<ik, given, sub, tries, local, found, init, traj, updates>>

CertifyRefined ==
  /\ pc = "certify"
  /\ Certified(traj)
  /\ Return(traj)

\* Standalone mode has nothing to fall back to.
Refuse ==
  /\ pc = "certify"
  /\ ~ Certified(traj)
  /\ Standalone
  /\ Fail("NoSolution")

\* Mutant: the fall-back certifies the refined trajectory once more.
FallBack_Refined ==
  /\ pc = "certify"
  /\ ~ Certified(traj)
  /\ ~ Standalone
  /\ IF Certified(traj) THEN Return(init) ELSE Fail("NoSolution")

FallBack ==
  /\ pc = "certify"
  /\ ~ Certified(traj)
  /\ ~ Standalone
  /\ IF Certified(init) THEN Return(init) ELSE Fail("NoSolution")

Done == pc = "done" /\ UNCHANGED vars

Next ==
  \/ Reject \/ FromSeed \/ Resolve
  \/ TakeJoint \/ CallIk \/ SolveIk \/ IkReturned \/ PoseDone \/ NoGoal \/ StraightLine
  \/ Optimise \/ StopOptimising \/ CertifyRefined \/ Refuse \/ FallBack \/ Done

\* plan() runs to its end in the caller's thread.
Spec == Init /\ [][Next]_vars /\ WF_vars(Next)

-------------------------------------------------------------------------------
Trajectory(t) == t = <<>> \/ (t \in Seq(Points) /\ Len(t) = M)

\* Types of the variables; a trajectory keeps its M waypoints throughout, which an
\* update may take anywhere on the lattice.
TypeOK ==
  /\ IkTypeOK
  /\ pc \in {"validate", "resolve", "optimise", "certify", "done"}
  /\ sub \in 0 .. Len(goal)
  /\ tries \in 0 .. MaxAttempts
  /\ {local, found} \subseteq Seq(Cfg)
  /\ \A t \in {init, traj, path} : Trajectory(t)
  /\ updates \in 0 .. MaxIterations
  /\ status \in {"none", "Success", "NoSolution", "InvalidProblem"}

\* The waypoints of the seed are among those resampling gives, and an edge is
\* sampled in every cell it crosses.
SeedKept ==
  LET cum == Cum(seed)
  IN  /\ Resolution = 1 /\ MaxSweep = 0
      /\ \A i \in DOMAIN seed : cum[Len(seed)] # 0 => (cum[i] * (M - 1)) % cum[Len(seed)] = 0

\* What the fall-back is for (trajectory_refiner.cpp:403): a collision-free seed
\* that resampling keeps is never lost, wherever the updates take the
\* trajectory and whenever they stop.
KeptSeedSurvives ==
  status = "NoSolution" /\ ~ Standalone => ~ (SeedKept /\ Certified(seed))

EdgesHit == [o \in Obstacles |-> UNION {{{a, b} : b \in {x \in Cfg : Blocked(o, a, x)}} : a \in Cfg}]

Contract == INSTANCE PlannerContract WITH
  Slack <- 0, wanted <- SetToSeq(Wanted), mid <- EdgesHit[hits]

\* The refiner is a planner like the others (planner.hpp): whatever mode, updates
\* and moment of the timeout, one answer, and a Success path that starts at the
\* start, ends at the goal and is free along every edge.
ImplementsContract == Contract!Spec
===============================================================================
