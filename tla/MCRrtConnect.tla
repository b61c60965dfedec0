---------------------------- MODULE MCRrtConnect ----------------------------
(* Instances of RrtConnect for TLC: configurations are points of a grid. *)
EXTENDS RrtConnect, FiniteSets

Abs(n) == IF n < 0 THEN -n ELSE n
Larger(m, n) == IF m < n THEN n ELSE m

Squared(p, q) == (p[1] - q[1]) * (p[1] - q[1]) + (p[2] - q[2]) * (p[2] - q[2])

DistanceOn(C) == [p \in C |-> [q \in C |-> Squared(p, q)]]

\* max_extension is one diagonal grid step; beyond it a step ends on the grid
\* neighbour nearest to the target.
SteerOn(C) ==
  [p \in C |-> [q \in C |->
     LET reach == {c \in C \ {p} : Squared(p, c) <= 2}
     IN  IF Squared(p, q) <= 2 THEN q
         ELSE CHOOSE c \in reach : \A b \in reach : Squared(c, q) <= Squared(b, q)]]

\* edge_resolution is one grid step of the fastest joint.
StepsOn(C) ==
  [p \in C |-> [q \in C |-> Larger(1, Larger(Abs(p[1] - q[1]), Abs(p[2] - q[2])))]]

s  == <<0, 0>>
a  == <<1, 1>>
b  == <<2, 1>>
g  == <<3, 0>>
g2 == <<0, 1>>

\* Two goal configurations; resolve_goal may also fail or repeat one; the joint
\* bounds leave out one of them.
GridCfg == {s, a, b, g, g2}
GridDist == DistanceOn(GridCfg)
GridSteer == SteerOn(GridCfg)
GridSteps == StepsOn(GridCfg)
GridBounds == {s, a, b, g}
GridGoals == {<<>>, <<g>>, <<g, g2>>, <<g2, g2>>, <<g2, g>>}
=============================================================================
