----------------------------- MODULE MCOptixScene -----------------------------
(* An instance of OptixScene for TLC.  The first link has a geometry without  *)
(* rays, so slots and links are numbered differently; the second object has   *)
(* no triangles, so triangles and objects are; the first and last share an id.*)
EXTENDS OptixScene

LinkNames == <<"base", "arm", "hand">>
RayCounts == <<<<0>>, <<1>>, <<0, 1>>>>
Environment == << [id |-> "box", tris |-> 1, solid |-> TRUE],
                  [id |-> "tank", tris |-> 0, solid |-> TRUE],
                  [id |-> "wall", tris |-> 1, solid |-> FALSE],
                  [id |-> "box", tris |-> 1, solid |-> FALSE] >>

Arm == <<2, 1, 1>>
Hand == <<3, 2, 1>>

\* The arm in the first box at p, the hand in the other and the wall at r, the base
\* in the tank at r; nothing touches at q, where the robot folds on itself.
Busy == [cross |-> {<<"p", Arm, <<1, 1>>>>, <<"r", Hand, <<3, 1>>>>, <<"r", Hand, <<4, 1>>>>},
         inside |-> {<<"r", <<1, 1>>, 2>>},
         self |-> {"q"},
         far |-> {<<"q", 2>>, <<"q", 3>>, <<"p", 3>>}]
\* The hand's second geometry inside the box, which casts no ray.
Swallowed == [cross |-> {<<"p", Hand, <<1, 1>>>>}, inside |-> {<<"q", <<3, 2>>, 1>>, <<"r", <<2, 1>>, 3>>},
              self |-> {}, far |-> {<<"q", 2>>}]

MCWorlds == {Busy, Swallowed}
MCAcms == {{}, {<<"hand", "wall">>, <<"box", "hand">>}, {<<"tank", "base">>, <<"arm", "box">>}}
MCBatches == {<<"p">>, <<"q", "p">>, <<"p", "r", "q">>, <<>>}
MCConfigs == {"p", "q", "r"}
===============================================================================
