--------------------------- MODULE EdgeDiscretization ---------------------------
(***************************************************************************)
(* How far apart the samples of an edge may be                             *)
(* (src/collision/edge_discretization.cpp, edge_check.cpp).  A robot is a  *)
(* tree of links in the plane: [radius, joints], per link a set of shapes  *)
(* [at, radius] (a ball, the ball around a box or a cylinder, or a vertex  *)
(* of a mesh), per joint [type, parent, child, origin, along, limits].     *)
(* Offsets lie on an axis, so that norms are whole.                        *)
(***************************************************************************)
EXTENDS Integers, Sequences, FiniteSetsExt, SequencesExt

Size(n) == IF n < 0 THEN -n ELSE n
Norm(p) == Size(p[1]) + Size(p[2])
CeilDiv(m, n) == (m + n - 1) \div n

-------------------------------------------------------------------------------
(* Lever weights *)

Joints(robot) == DOMAIN robot.joints
ChildJoints(robot, link) == {j \in Joints(robot) : robot.joints[j].parent = link}

\* The joints that move, in the order of their dof_index.
Movable(robot) == SelectSeq([j \in Joints(robot) |-> j], LAMBDA j : robot.joints[j].type # "fixed")
Dof(robot) == Len(Movable(robot))

\* geometry_radius, over the shapes of a link.
LinkRadius(robot, link) ==
  Max({0} \cup {Norm(shape.at) + shape.radius : shape \in robot.links[link]})

Travel(joint) ==
  IF joint.type = "prismatic" THEN Max({Size(joint.limits[1]), Size(joint.limits[2])}) ELSE 0

Reach_NoTravel(robot) ==                      \* Mutant: a sliding child is taken at rest
  LET reach[j \in Joints(robot)] ==
        LET link == robot.joints[j].child
        IN  Max({LinkRadius(robot, link)} \cup
                {Norm(robot.joints[k].origin) + reach[k] : k \in ChildJoints(robot, link)})
  IN  reach

\* Per joint, how far from it any geometry beyond it can ever be.
Reach(robot) ==
  LET reach[j \in Joints(robot)] ==
        LET link == robot.joints[j].child
        IN  Max({LinkRadius(robot, link)} \cup
                {Norm(robot.joints[k].origin) + Travel(robot.joints[k]) + reach[k] :
                   k \in ChildJoints(robot, link)})
  IN  reach

\* Reaching past a slide without limits throws; a slide that no hinge carries is never asked.
Beyond(robot) ==
  LET beyond[j \in Joints(robot)] ==
        LET next == ChildJoints(robot, robot.joints[j].child)
        IN  next \cup UNION {beyond[k] : k \in next}
  IN  beyond
WeightsThrow(robot) ==
  \E i \in DOMAIN Movable(robot) :
    LET j == Movable(robot)[i]
    IN  /\ robot.joints[j].type # "prismatic"
        /\ \E k \in Beyond(robot)[j] : robot.joints[k].type = "prismatic" /\ robot.joints[k].limits = <<>>

LeverWeights(robot) ==
  [i \in 1 .. Dof(robot) |->
     LET j == Movable(robot)[i]
     IN  IF robot.joints[j].type = "prismatic" THEN 1 ELSE Reach(robot)[j]]

-------------------------------------------------------------------------------
(* Steps of an edge; disc is [joint_resolution, max_link_sweep, lever_weights] *)

MakeThrows(resolution, sweep, weights, robot) ==
  \/ resolution <= 0
  \/ sweep > 0 /\ weights = <<>> /\ WeightsThrow(robot)
  \/ sweep > 0 /\ weights # <<>> /\ Len(weights) # Dof(robot)

MakeEdgeDiscretization(resolution, sweep, weights, robot) ==
  [joint_resolution |-> resolution, max_link_sweep |-> sweep,
   lever_weights |-> IF sweep = 0 THEN <<>> ELSE IF weights = <<>> THEN LeverWeights(robot) ELSE weights]

Swept(disc, delta) ==
  FoldLeft(+, 0, [i \in DOMAIN delta |-> Size(disc.lever_weights[i]) * Size(delta[i])])

Steps_Down(disc, delta) ==                    \* Mutant: the quotient is rounded down
  IF disc.max_link_sweep > 0
    THEN Max({1, Swept(disc, delta) \div disc.max_link_sweep})
    ELSE Max({1, Max({0} \cup {Size(delta[i]) : i \in DOMAIN delta}) \div disc.joint_resolution})

\* Lever weights of another size than delta throw; a caller's are refused earlier (MakeThrows).
Steps(disc, delta) ==
  IF disc.max_link_sweep > 0
    THEN Max({1, CeilDiv(Swept(disc, delta), disc.max_link_sweep)})
    ELSE Max({1, CeilDiv(Max({0} \cup {Size(delta[i]) : i \in DOMAIN delta}), disc.joint_resolution)})

Between(p, q) == [i \in DOMAIN p |-> q[i] - p[i]]

\* check_edge among boxes of colliding configurations: valid, and the first colliding
\* sample k out of n as <<k, n>>.
CheckEdge(disc, boxes, p, q) ==
  LET n == Steps(disc, Between(p, q))
      Sample(k) == [i \in DOMAIN p |-> p[i] + (k * (q[i] - p[i])) \div n]
      hits == {k \in 0 .. n : \E box \in boxes : \A i \in DOMAIN p : Sample(k)[i] \in box[i][1] .. box[i][2]}
  IN  IF hits = {} THEN [valid |-> TRUE, contact |-> <<n, n>>]
      ELSE [valid |-> FALSE, contact |-> <<Min(hits), n>>]
================================================================================
