------------------------------- MODULE Smoother -------------------------------
(***************************************************************************)
(* What Smoother::smooth promises (include/quevedomp/planning/smoother.hpp,*)
(* the comment on class Smoother): it works on the given path by replacing *)
(* a stretch of it with the straight chord between two of its nodes, only  *)
(* where the scene found that chord free, any number of times, and it      *)
(* returns.  Nodes are named by their place 1 .. size in the input, so the *)
(* path at any moment is the increasing sequence of the places it keeps;   *)
(* the ends are never inside a replaced stretch.  A path made this way is  *)
(* no longer than the input in any metric, by the triangle inequality.     *)
(***************************************************************************)
EXTENDS Naturals, Sequences

CONSTANT MaxSize \* bound on the nodes of an input path

VARIABLES
  size,     \* nodes of the input path
  blocked,  \* chords <<a, b>>, a < b, with a colliding sample
  kept,     \* places of the input still on the path
  returned  \* smooth() has returned

vars == <<size, blocked, kept, returned>>

Places == 1 .. MaxSize

Init ==
  /\ size \in 0 .. MaxSize
  /\ blocked \in SUBSET (Places \X Places)
  /\ kept = [k \in 1 .. size |-> k]
  /\ returned = FALSE

\* The nodes strictly between the i-th and the j-th go.
Shorten ==
  /\ ~returned
  /\ \E i, j \in 1 .. Len(kept) :
       /\ i + 1 < j
       /\ <<kept[i], kept[j]>> \notin blocked
       /\ kept' = SubSeq(kept, 1, i) \o SubSeq(kept, j, Len(kept))
  /\ UNCHANGED <<size, blocked, returned>>

Return ==
  /\ ~returned
  /\ returned' = TRUE
  /\ UNCHANGED <<size, blocked, kept>>

Next == Shorten \/ Return

Spec == Init /\ [][Next]_vars /\ <>returned
===============================================================================
