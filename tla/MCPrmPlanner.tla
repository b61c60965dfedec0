------------------------------ MODULE MCPrmPlanner ------------------------------
(* An instance of PrmPlanner for TLC: configurations are points of a grid. *)
EXTENDS PrmPlanner

Abs(n) == IF n < 0 THEN -n ELSE n

s == <<0, 0>>
a == <<2, 0>>
b == <<0, 2>>
c == <<1, 4>>
d == <<3, 5>>
g == <<6, 2>>
h == <<7, 6>>

GridCfg == {s, a, b, c, d, g, h}
GridDist == [p \in GridCfg |-> [q \in GridCfg |-> Abs(p[1] - q[1]) + Abs(p[2] - q[2])]]

\* Four nodes; three with a repeated sample; two that may both collide.
GridSamples == {<<c, a, d, b>>, <<b, c, b>>, <<b, d>>}
GridGoals == {<<>>, <<g>>, <<g, h>>}
GridMayCollide == {s, b, g}

\* From a the goal looks near, so a is tried before b, but c is nearer through b.
GridMayBlock ==
  {{a, c}, {a, d}, {b, c}, {c, d}, {s, a}, {s, g}, {s, h}, {a, g}, {d, g}}
===============================================================================
