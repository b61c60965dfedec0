-------------------------------- MODULE PathFit --------------------------------
(***************************************************************************)
(* PathSpline::fit and fit_collision_free                                  *)
(* (src/parameterization/path_spline.cpp): a curve through the waypoints   *)
(* is sampled as finely as planner edges are, checked in one batch, and on *)
(* a collision fitted again through twice the points.  The spline itself   *)
(* is Eigen's: here any curve through its points that bends off one        *)
(* segment by a bulge of one joint.                                        *)
(***************************************************************************)
EXTENDS EdgeDiscretization

CONSTANTS
  Inputs,   \* [robot, waypoints, obstacles, joint_resolution, max_link_sweep, lever_weights, max_rounds]
  Bulges,   \* how far a segment may bend
  MaxDepth  \* halvings of a segment (24 in the code)

ASSUME FitAssumption ==
  /\ MaxDepth \in Nat /\ Bulges \subseteq Int
  /\ \A input \in Inputs : input.max_rounds \in Nat /\ input.joint_resolution \in Int
                           /\ input.max_link_sweep \in Nat

VARIABLES
  pc,
  input,
  disc,    \* the spacing policy
  pts,     \* the path the next curve interpolates
  round,
  curve,   \* [points, segment, joint, bulge]
  result   \* [samples, bad]: parameters <<segment, k>> and the first of them that collides

vars == <<pc, input, disc, pts, round, curve, result>>

-------------------------------------------------------------------------------
(* Paths *)

Dedup(path) ==
  FoldLeft(LAMBDA out, p : IF out # <<>> /\ Last(out) = p THEN out ELSE Append(out, p), <<>>, path)

Densify_PastEdge(path) ==                     \* Mutant: a midpoint is pushed out along its edge
  [i \in 1 .. 2 * Len(path) - 1 |->
     IF i % 2 = 1 THEN path[(i + 1) \div 2]
     ELSE [j \in DOMAIN path[1] |-> 2 * path[(i \div 2) + 1][j] - path[i \div 2][j]]]

Densify(path) ==
  [i \in 1 .. 2 * Len(path) - 1 |->
     IF i % 2 = 1 THEN path[(i + 1) \div 2]
     ELSE [j \in DOMAIN path[1] |-> (path[i \div 2][j] + path[(i \div 2) + 1][j]) \div 2]]

RECURSIVE Grown(_)
Grown(path) == IF Len(path) < 6 THEN Grown(Densify(path)) ELSE path

-------------------------------------------------------------------------------
(* Curves.  A parameter is a segment and a fraction k / T of it; a configuration of the *)
(* curve is in units of 1 / T^2. *)

T == 2 ^ MaxDepth
Fine(n) == n * T * T

Eval(c, i, k) ==
  [j \in DOMAIN c.points[1] |->
     Fine(c.points[i][j]) + (c.points[i + 1][j] - c.points[i][j]) * k * T
       + (IF c.segment = i /\ c.joint = j THEN 4 * c.bulge * k * (T - k) ELSE 0)]

Curves(points) ==
  [points : {points}, segment : 1 .. Len(points) - 1, joint : DOMAIN points[1], bulge : Bulges]

FineDisc == [disc EXCEPT !.joint_resolution = Fine(@), !.max_link_sweep = Fine(@)]

\* Halve a segment until two neighbours are one step apart; the end of each piece is a sample.
RECURSIVE Refine(_, _, _, _, _)
Refine(c, i, a, b, depth) ==
  IF depth < MaxDepth /\ Steps(FineDisc, Between(Eval(c, i, a), Eval(c, i, b))) > 1
    THEN Refine(c, i, a, (a + b) \div 2, depth + 1) \o Refine(c, i, (a + b) \div 2, b, depth + 1)
    ELSE << <<i, b>> >>

Samples(c) ==
  << <<1, 0>> >> \o FlattenSeq([i \in 1 .. Len(c.points) - 1 |-> Refine(c, i, 0, T, 0)])

\* query_batch on one configuration: obstacles and robot come down to boxes of colliding
\* configurations, <<low, high>> per joint.
Hit(q) == \E box \in input.obstacles : \A j \in DOMAIN q : Fine(box[j][1]) <= q[j] /\ q[j] <= Fine(box[j][2])

-------------------------------------------------------------------------------
(* fit_collision_free *)

NoCurve == [points |-> <<>>]
NoResult == [samples |-> <<>>, bad |-> 0]

Init ==
  /\ input \in Inputs
  /\ pc = "make" /\ disc = <<>> /\ pts = <<>> /\ round = 0
  /\ curve = NoCurve /\ result = NoResult

MakeFails ==
  MakeThrows(input.joint_resolution, input.max_link_sweep, input.lever_weights, input.robot)

Make ==
  /\ pc = "make" /\ ~MakeFails
  /\ disc' = MakeEdgeDiscretization(input.joint_resolution, input.max_link_sweep, input.lever_weights, input.robot)
  /\ pts' = input.waypoints /\ round' = 1
  /\ pc' = IF input.max_rounds = 0 THEN "failed" ELSE "fit"
  /\ UNCHANGED <<input, curve, result>>

\* PathSpline::fit throws without two distinct waypoints.
Throw ==
  /\ \/ pc = "make" /\ MakeFails
     \/ pc = "fit" /\ Len(Dedup(pts)) < 2
  /\ pc' = "thrown"
  /\ UNCHANGED <<input, disc, pts, round, curve, result>>

Fit ==
  /\ pc = "fit" /\ Len(Dedup(pts)) >= 2
  /\ curve' \in Curves(Grown(Dedup(pts)))
  /\ pc' = "check"
  /\ UNCHANGED <<input, disc, pts, round, result>>

\* One batch; the first sample in collision is reported.
Batch ==
  LET samples == Samples(curve)
      bad == {k \in DOMAIN samples : Hit(Eval(curve, samples[k][1], samples[k][2]))}
  IN  [samples |-> samples, bad |-> IF bad = {} THEN 0 ELSE Min(bad)]

Check ==
  /\ pc = "check"
  /\ result' = Batch
  /\ IF result'.bad = 0
       THEN pc' = "fitted" /\ UNCHANGED <<pts, round>>
       ELSE /\ pts' = Densify(pts)
            /\ round' = round + 1
            /\ pc' = IF round < input.max_rounds THEN "fit" ELSE "failed"
  /\ UNCHANGED <<input, disc, curve>>

Done == pc \in {"fitted", "failed", "thrown"} /\ UNCHANGED vars

Next == Make \/ Throw \/ Fit \/ Check \/ Done
Spec == Init /\ [][Next]_vars

-------------------------------------------------------------------------------
(* Properties *)

\* Where the robot's geometry is at q, in whole units and quarter turns (exact, where the
\* code has floating-point kinematics).
Turned(p, n) == CASE n % 4 = 0 -> p [] n % 4 = 1 -> <<-p[2], p[1]>>
                  [] n % 4 = 2 -> <<-p[1], -p[2]>> [] n % 4 = 3 -> <<p[2], -p[1]>>

RECURSIVE Placed(_, _, _, _)
Placed(robot, q, link, p) ==
  LET into == {j \in Joints(robot) : robot.joints[j].child = link}
  IN  IF into = {} THEN p
      ELSE \* the one joint that carries this link
        LET j == CHOOSE j \in into : TRUE
            joint == robot.joints[j]
            moved == CASE joint.type = "fixed" -> p
                       [] joint.type = "revolute" -> Turned(p, q[j])
                       [] joint.type = "prismatic" ->
                            <<p[1] + q[j] * joint.along[1], p[2] + q[j] * joint.along[2]>>
        IN  Placed(robot, q, joint.parent, <<moved[1] + joint.origin[1], moved[2] + joint.origin[2]>>)

\* Points of the robot: of each ball the centre and its four extremes.
Points(robot) ==
  UNION {{<<link, <<shape.at[1] + shape.radius * d[1], shape.at[2] + shape.radius * d[2]>> >> :
            shape \in robot.links[link], d \in {<<0, 0>>, <<1, 0>>, <<-1, 0>>, <<0, 1>>, <<0, -1>>}} :
         link \in DOMAIN robot.links}

Values(joint) ==
  CASE joint.type = "fixed" -> {0} [] joint.type = "revolute" -> 0 .. 3
    [] joint.type = "prismatic" -> joint.limits[1] .. joint.limits[2]

\* No point of the robot moves farther than the weights say, whatever the posture: the
\* guarantee edges are spaced by.  A quarter turn is taken as 3/2 rad, less than it is.
SweepBounded ==
  pc = "fit" /\ round = 1 /\ disc.max_link_sweep > 0 /\ input.lever_weights = <<>> =>
    LET robot == input.robot
        movable == Movable(robot)
        postures == {q \in [Joints(robot) -> -3 .. 3] : \A j \in Joints(robot) : q[j] \in Values(robot.joints[j])}
        Turns(q, r, i) == LET j == movable[i] IN
          IF robot.joints[j].type = "prismatic" THEN 2 * Size(r[j] - q[j])
          ELSE 3 * (IF Size(r[j] - q[j]) = 3 THEN 1 ELSE Size(r[j] - q[j]))
    IN  \A q, r \in postures : \A point \in Points(robot) :
          LET from == Placed(robot, q, point[1], point[2])
              to == Placed(robot, r, point[1], point[2])
              bound == Swept(disc, [i \in DOMAIN movable |-> Turns(q, r, i)])
          IN  4 * ((to[1] - from[1]) * (to[1] - from[1]) + (to[2] - from[2]) * (to[2] - from[2])) <= bound * bound

\* An accepted curve was checked from its first point to its last, free at every sample, and
\* between two samples neither does a link sweep nor (without sweeps) a joint move by more
\* than the spacing allows.
CurveSampled ==
  pc = "fitted" =>
    LET s == result.samples
        At(k) == Eval(curve, s[k][1], s[k][2])
    IN  /\ s[1] = <<1, 0>> /\ Last(s) = <<Len(curve.points) - 1, T>>
        /\ \A k \in DOMAIN s : ~Hit(At(k))
        /\ \A k \in 1 .. Len(s) - 1 :
             LET delta == Between(At(k), At(k + 1))
             IN  /\ s[k][1] < s[k + 1][1] \/ (s[k][1] = s[k + 1][1] /\ s[k][2] < s[k + 1][2])
                 /\ IF disc.max_link_sweep > 0 THEN Swept(disc, delta) <= Fine(disc.max_link_sweep)
                    ELSE \A j \in DOMAIN delta : Size(delta[j]) <= Fine(disc.joint_resolution)

OnEdge(p, a, b) ==
  /\ \A i \in DOMAIN p : Min({a[i], b[i]}) <= p[i] /\ p[i] <= Max({a[i], b[i]})
  /\ \A i, j \in DOMAIN p : (p[i] - a[i]) * (b[j] - a[j]) = (p[j] - a[j]) * (b[i] - a[i])

\* Every curve interpolates all the waypoints, and else only points of the checked edges
\* between them, however often it was refitted.
StaysOnPolyline ==
  pc \in {"check", "fitted"} =>
    /\ curve.points[1] = input.waypoints[1] /\ Last(curve.points) = Last(input.waypoints)
    /\ Range(input.waypoints) \subseteq Range(curve.points)
    /\ \A k \in 1 .. Len(curve.points) - 1 :
         \E e \in 1 .. Len(input.waypoints) - 1 : \A p \in {curve.points[k], curve.points[k + 1]} :
           OnEdge(p, input.waypoints[e], input.waypoints[e + 1])
================================================================================
