-------------------------- MODULE MCTrajectoryRefiner --------------------------
(* An instance of TrajectoryRefiner for TLC: a lattice of 7 by 7 and three     *)
(* segments, so that a third of a segment is a lattice point.                  *)
EXTENDS TrajectoryRefiner

Lattice == (0 .. 6) \X (0 .. 6)
s == <<0, 3>>
g == <<6, 3>>
far == <<6, 6>>
mid == <<3, 3>>

\* Two configurations reach the pose; the others are nearer or farther.
LatticePostures == {<<0, 0>>, g, far, mid}
LatticeErr == [c \in LatticePostures |-> IF c \in {g, far} THEN 0 ELSE IF c = mid THEN 1 ELSE 2]

GoalLists == {<<g>>, <<far, g>>, <<Pose>>, <<far, Pose>>}

\* None; too short; straight; all one point; a detour whose corners resampling
\* keeps, one whose corners it cuts.
SeedPaths == {<<>>, <<s>>, <<s, g>>, <<s, s>>, <<s, <<3, 3>>, <<3, 0>>, <<6, 0>>, g>>,
              <<s, <<0, 6>>, <<6, 6>>, g>>, <<s, <<0, 6>>, far>>, <<s, <<3, 3>>, <<3, 6>>, far>>}

ZeroPosture == <<0, 0>>
AxisLimits == <<<<0, 6>>, <<0, 6>>>>
Tighter == <<<<0, 9>>, <<1, 6>>>>
UnitLevers == <<1, 1>>
SmallMoves == {<<0, 0>>, <<0, 1>>, <<1, -1>>, <<0, -2>>}
Environments == {{}, {<<3, 3>>}, {<<2, 2>>, <<3, 4>>}, {<<1, 4>>, <<4, 4>>}, {<<6, 5>>}}
===============================================================================
