--------------------------- MODULE MCCollisionScene ---------------------------
(***************************************************************************)
(* A two-link robot among obstacles that are away from it, near it, cross  *)
(* its hand, or are closed surfaces around its hand.                       *)
(***************************************************************************)
EXTENDS CollisionScene, TLC

CONSTANTS hand, arm, box, shelf, away, near, across, around, q, r

MCConfigs == {q, r}
HandGap == (away :> 9) @@ (near :> 1) @@ (across :> -1) @@ (around :> 5)
ArmGap == [p \in Places |-> IF p = across THEN 1 ELSE 9]
MCGap == [c \in MCConfigs |-> (hand :> IF c = q THEN HandGap ELSE [p \in Places |-> 9])
                              @@ (arm :> ArmGap)]
MCInside == [c \in MCConfigs |->
               (hand :> IF c = q THEN {around} ELSE {}) @@ (arm :> {})]

\* Configuration r folds the robot onto itself.
MCSelfGap == [c \in MCConfigs |-> IF c = q THEN 3 ELSE -1]

Boolean(s) == [distance |-> FALSE, margin |-> 0, padding |-> 0, self |-> s]
Margin == [distance |-> FALSE, margin |-> 2, padding |-> 0, self |-> TRUE]
Padded == [distance |-> TRUE, margin |-> 0, padding |-> 2, self |-> TRUE]

MCOptions == {Boolean(TRUE), Boolean(FALSE), Margin, Padded}
OnlyBoolean == {Boolean(TRUE)}

MCAcms == {{}, {<<hand, box>>}}
NoAcm == {{}}
MCEnvironments == {<<>>, <<[id |-> box, place |-> around]>>}
ThreadSymmetry == Permutations(Threads)

MCLinks == {hand, arm}
===============================================================================
