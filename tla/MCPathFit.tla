------------------------------- MODULE MCPathFit -------------------------------
(* Instances of PathFit for TLC.  Waypoints are multiples of 32, so that five halvings stay *)
(* whole, and their edges have been checked. *)
EXTENDS PathFit

Joint(type, parent, child, origin, along, limits) ==
  [type |-> type, parent |-> parent, child |-> child, origin |-> origin, along |-> along, limits |-> limits]
Ball(at, radius) == [at |-> at, radius |-> radius]

\* A hinge that carries a slide, two hinges with a fixed link between, a slide that carries a hinge.
HingeSlide(limits) ==
  [links |-> <<{Ball(<<0, 0>>, 1)}, {Ball(<<2, 0>>, 0)}, {Ball(<<0, -1>>, 1)}>>,
   joints |-> <<Joint("revolute", 1, 2, <<1, 0>>, <<0, 0>>, <<>>),
                Joint("prismatic", 2, 3, <<0, 2>>, <<0, 1>>, limits)>>]
TwoHinges ==
  [links |-> <<{}, {}, {Ball(<<1, 0>>, 0)}, {Ball(<<0, 2>>, 1), Ball(<<-3, 0>>, 0)}>>,
   joints |-> <<Joint("revolute", 1, 2, <<0, 1>>, <<0, 0>>, <<>>), Joint("fixed", 2, 3, <<2, 0>>, <<0, 0>>, <<>>),
                Joint("revolute", 3, 4, <<0, 1>>, <<0, 0>>, <<>>)>>]
SlideHinge ==
  [links |-> <<{}, {Ball(<<0, 1>>, 1)}, {Ball(<<2, 0>>, 0)}>>,
   joints |-> <<Joint("prismatic", 1, 2, <<0, 0>>, <<1, 0>>, <<-2, 1>>),
                Joint("revolute", 2, 3, <<0, -1>>, <<0, 0>>, <<>>)>>]

Path(points) == [i \in DOMAIN points |-> [j \in DOMAIN points[i] |-> 64 * points[i][j]]]
Input(robot, points, obstacles, resolution, sweep, weights, rounds) ==
  [robot |-> robot, waypoints |-> Path(points), obstacles |-> obstacles, joint_resolution |-> resolution,
   max_link_sweep |-> sweep, lever_weights |-> weights, max_rounds |-> rounds]

Corner == {<< <<66, 90>>, <<-10, 30>> >>}
Beside == {<< <<-20, 90>>, <<70, 90>> >>, << <<90, 99>>, <<-20, 20>> >>}
Good ==
  {Input(r, p, o, 6, s, <<>>, n) :
     r \in {HingeSlide(<<-1, 3>>), TwoHinges, SlideHinge},
     p \in {<< <<0, 0>>, <<1, 0>>, <<1, 1>> >>, << <<0, 0>>, <<0, 0>>, <<1, 1>> >>},
     o \in {Corner, Beside}, s \in {0, 20}, n \in 1 .. 3}
Odd ==
  {Input(HingeSlide(<<>>), << <<0, 0>>, <<1, 1>> >>, {}, 24, s, w, 1) : s \in {0, 90}, w \in {<<>>, <<2>>, <<5, 1>>}}
    \cup {Input(TwoHinges, << <<1, 1>>, <<1, 1>> >>, {}, 24, 0, <<>>, 1),
          Input(TwoHinges, << <<0, 0>>, <<1, 1>> >>, {}, 24, 0, <<>>, 0),
          Input(TwoHinges, << <<0, 0>>, <<1, 1>> >>, {}, 0, 0, <<>>, 1)}

\* What planners hand over: every edge was found free.
Checked(i) ==
  \/ MakeThrows(i.joint_resolution, i.max_link_sweep, i.lever_weights, i.robot)
  \/ \A e \in 1 .. Len(i.waypoints) - 1 :
       CheckEdge(MakeEdgeDiscretization(i.joint_resolution, i.max_link_sweep, i.lever_weights, i.robot),
                 i.obstacles, i.waypoints[e], i.waypoints[e + 1]).valid

MCInputs == {i \in Good \cup Odd : Checked(i)}
MCBulges == {-8, 0, 8}
================================================================================
