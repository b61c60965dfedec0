---------------------------- MODULE MCClearanceField ----------------------------
(* Instances of ClearanceField for TLC. *)
EXTENDS ClearanceField

Box(x0, z0, x1, z1) ==
  << <<<<x0, z0>>, <<x1, z0>>>>, <<<<x1, z0>>, <<x1, z1>>>>,
     <<<<x0, z1>>, <<x1, z1>>>>, <<<<x0, z0>>, <<x0, z1>>>> >>
Plate(x0, z0, x1, z1) == << <<<<x0, z0>>, <<x1, z1>>>> >>

Scene(objects, margin, threads, gpu) ==
  [objects |-> objects, margin |-> margin, threads |-> threads, gpu |-> gpu]

\* Small scenes seeded by several threads.
Crowded ==
  {Scene(<<Plate(0, 0, 1, 0), Plate(0, z, 2, z), Plate(x, 0, x, 2)>>, 0, n, FALSE) :
     z \in 1 .. 2, x \in 0 .. 2, n \in 2 .. 3}

\* Larger ones: a box and a plate or a second box, apart or touching.
Apart ==
  {Scene(<<Box(0, 0, w, 5), o>>, m, 1, g) :
     w \in {3, 4}, m \in {1, 3}, g \in BOOLEAN,
     o \in {Box(4, 1, 9, 4), Box(4, 5, 7, 8), Plate(2, 8, 9, 8), Plate(9, 0, 9, 3), Plate(1, 2, 1, 7)}}
Odd == {Scene(<<>>, 1, 1, TRUE), Scene(<<Box(0, 0, 90, 90)>>, 1, 1, TRUE),
        Scene(<<Plate(0, 0, 1, 0), Plate(27, 28, 28, 28)>>, 2, 1, TRUE)}

\* Closed outlines that are no boxes: an L, a ring in one object and a box over a corner.
Ell == << <<<<0, 0>>, <<6, 0>>>>, <<<<6, 0>>, <<6, 3>>>>, <<<<2, 3>>, <<6, 3>>>>,
          <<<<2, 3>>, <<2, 7>>>>, <<<<0, 7>>, <<2, 7>>>>, <<<<0, 0>>, <<0, 7>>>> >>
Outlines ==
  {Scene(<<o, q>>, 2, 1, FALSE) :
     o \in {Ell, Box(0, 0, 8, 8) \o Box(2, 2, 5, 6)}, q \in {Box(4, 5, 9, 9), Plate(1, 2, 1, 9)}}

\* Plates at opposite corners: in the larger scenes two corners are out of reach of the strides.
Corners ==
  {Scene(<<Plate(0, 0, 1, 0), Plate(n - 1, n, n, n)>>, 1, 1, g) : n \in {29, 58}, g \in BOOLEAN}

MCScenes == Crowded \cup Apart \cup Odd \cup Outlines \cup Corners
================================================================================
