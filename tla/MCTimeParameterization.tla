------------------------ MODULE MCTimeParameterization ------------------------
(* Instances of TimeParameterization for TLC. *)
EXTENDS TimeParameterization

\* The slope and the curvature of a joint's path at a node.
Slopes == {<<1, 0>>, <<2, 1>>, <<0, 1>>, <<-1, 2>>}
Paths(n, S) == [0 .. n -> S]

\* The tip follows the joint with twice its curvature.
OneJoint(n, path, v, a, j) ==
  [dof |-> 1, N |-> n,
   d1 |-> [k \in 0 .. n |-> <<path[k][1]>>],
   d2 |-> [k \in 0 .. n |-> <<path[k][2]>>],
   d3 |-> [k \in 0 .. n |-> <<path[k][2]>>],
   tip |-> [k \in 0 .. n |-> <<path[k][1], 2 * path[k][2]>>],
   vmax |-> v, amax |-> a, jmax |-> j, vtip |-> 0, atip |-> 0]

\* A second joint that moves at a constant slope while the first one turns.
TwoJoints(n, path, j) ==
  [OneJoint(n, path, <<2, 2>>, <<2, 1>>, <<j, 0>>) EXCEPT
     !.dof = 2,
     !.d1 = [k \in 0 .. n |-> <<path[k][1], 1>>],
     !.d2 = [k \in 0 .. n |-> <<path[k][2], 0>>],
     !.d3 = [k \in 0 .. n |-> <<path[k][2], 0>>]]

Straight(n) == [k \in 0 .. n |-> <<1, 0>>]

Singles == {OneJoint(4, f, <<2>>, <<1>>, <<2>>) : f \in Paths(4, Slopes)}
Pairs == {TwoJoints(4, f, 1) : f \in Paths(4, {<<1, 0>>, <<0, 1>>, <<-1, 3>>})}
Tips == {[OneJoint(3, f, <<2>>, <<a>>, <<>>) EXCEPT !.vtip = 1, !.atip = 2] :
           f \in Paths(3, {<<1, 0>>, <<2, -1>>, <<1, 2>>}), a \in {0, 2}}
\* Longer paths with room to accelerate, on which the kernel's envelopes are not flat,
\* and a sharp wiggle at one node.
Long == {OneJoint(8, [Straight(8) EXCEPT ![k] = c], <<2>>, <<4>>, <<j>>) :
           k \in {2, 4, 7}, c \in {<<1, 0>>, <<2, 0>>, <<1, 1>>, <<1, -1>>}, j \in {2, 8}}
Wiggle(k, w) == [OneJoint(8, Straight(8), <<2>>, <<4>>, <<130>>) EXCEPT !.d3[k] = <<w>>]
Wiggles == {Wiggle(k, w) : k \in 4 .. 7, w \in {-300, 200, 900}}
Odd == {OneJoint(1, Straight(1), <<2>>, <<1>>, <<1>>), OneJoint(3, Straight(3), <<>>, <<1>>, <<1>>),
        OneJoint(3, Straight(3), <<0>>, <<1>>, <<1>>), OneJoint(2, Straight(2), <<1>>, <<1>>, <<0>>)}

MCProblems == Singles \cup Pairs \cup Tips \cup Long \cup Wiggles \cup Odd
MCPassBudgets == {0, 3}
================================================================================
