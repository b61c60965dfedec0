--------------------------- MODULE ShortcutSmoother ---------------------------
(***************************************************************************)
(* ShortcutSmoother::smooth (src/planning/shortcut_smoother.cpp): rounds   *)
(* that draw up to `Batch` chords with disjoint interiors, validate them   *)
(* all in one query_batch, and erase the interior of every free one, the   *)
(* rightmost first, until max_iterations chords were validated, the time   *)
(* budget is spent or no interior node is left.                            *)
(*                                                                         *)
(* A node is its place in the input path.  A chord <<i, j>> holds places   *)
(* in the current path `kept`, as the indices of the code do (counted from *)
(* 1).  The draws of the seeded Rng are any choice in the documented       *)
(* half-open ranges; the scene is the set of chords with a colliding       *)
(* sample, ends included, chosen at the start.                             *)
(***************************************************************************)
EXTENDS Integers, Sequences, FiniteSets

CONSTANTS
  MaxSize,        \* bound on the nodes of an input path
  BatchSize,      \* SmootherParams::batch_size
  MaxIterations,  \* SmootherParams::max_iterations
  HasTimeBudget   \* SmootherParams::time_budget > 0

ASSUME ParamsAssumption ==
  /\ MaxSize \in Nat /\ BatchSize \in Nat /\ MaxIterations \in Nat
  /\ HasTimeBudget \in BOOLEAN

VARIABLES
  size,      \* nodes of the input path
  blocked,   \* <<a, b>>: the chord from node a to node b collides
  kept,      \* the path p, as places in the input
  attempts,  \* chords validated so far
  draws,     \* draws of this round
  chords,    \* chords of this round still to be drawn for or decided
  free,      \* those of them the batch found free
  pc         \* "round", "draw", "accept", "done"

scene == <<size, blocked>>
vars == <<size, blocked, kept, attempts, draws, chords, free, pc>>

Places == 1 .. MaxSize
Batch == IF BatchSize = 0 THEN 1 ELSE BatchSize

Init ==
  /\ size \in 0 .. MaxSize
  /\ blocked \in SUBSET {c \in Places \X Places : c[1] + 1 < c[2]}
  /\ kept = [k \in 1 .. size |-> k]
  /\ attempts = 0
  /\ draws = 0
  /\ chords = {}
  /\ free = {}
  /\ pc = "round"

WorkLeft == attempts < MaxIterations /\ Len(kept) > 2

BeginRound ==
  /\ pc = "round"
  /\ WorkLeft
  /\ draws' = 0
  /\ pc' = "draw"
  /\ UNCHANGED <<scene, kept, attempts, chords, free>>

\* The budget of rounds, nodes or time is spent; the clock may say so before any round.
Return ==
  /\ pc = "round"
  /\ WorkLeft => HasTimeBudget
  /\ pc' = "done"
  /\ UNCHANGED <<scene, kept, attempts, draws, chords, free>>

\* Mutant: the draws of a round do not look at what is left of max_iterations.
MoreDraws_NoBudget ==
  /\ draws < 4 * Batch
  /\ Cardinality(chords) < Batch
  /\ Cardinality(chords) + 2 < Len(kept)

MoreDraws ==
  /\ draws < 4 * Batch
  /\ Cardinality(chords) < Batch
  /\ attempts + Cardinality(chords) < MaxIterations
  /\ Cardinality(chords) + 2 < Len(kept)

Overlaps(i, j) == \E c \in chords : i < c[2] /\ c[1] < j

\* At least one interior node, and never past the last node.
Drawable == {c \in (1 .. Len(kept)) \X (1 .. Len(kept)) : c[1] + 2 <= c[2]}

Draw ==
  /\ pc = "draw"
  /\ MoreDraws
  /\ draws' = draws + 1
  /\ \E c \in Drawable :
       chords' = IF Overlaps(c[1], c[2]) THEN chords ELSE chords \cup {c}
  /\ UNCHANGED <<scene, kept, attempts, free, pc>>

\* One query_batch answers for the chords as they lie on the path now.
Clear(c) == <<kept[c[1]], kept[c[2]]>> \notin blocked

\* Mutant: only chords that turn out free count as attempts.
Validate_CountsFree ==
  /\ pc = "draw"
  /\ ~MoreDraws
  /\ attempts' = attempts + Cardinality({c \in chords : Clear(c)})
  /\ free' = {c \in chords : Clear(c)}
  /\ pc' = IF chords = {} THEN "done" ELSE "accept"
  /\ UNCHANGED <<scene, kept, draws, chords>>

Validate ==
  /\ pc = "draw"
  /\ ~MoreDraws
  /\ attempts' = attempts + Cardinality(chords)
  /\ free' = {c \in chords : Clear(c)}
  /\ pc' = IF chords = {} THEN "done" ELSE "accept"
  /\ UNCHANGED <<scene, kept, draws, chords>>

\* Mutant: the node the chord ends on is erased too.
Erase_WithEnd(s, i, j) ==
  [k \in 1 .. Len(s) - (j - i) |-> IF k <= i THEN s[k] ELSE s[k + (j - i)]]

\* p.erase of the nodes strictly between places i and j.
Erase(s, i, j) ==
  [k \in 1 .. Len(s) - (j - i - 1) |-> IF k <= i THEN s[k] ELSE s[k + (j - i - 1)]]

\* Mutant: the chords are decided from the left.
IsNext_LowestFirst(c) == \A d \in chords : c[1] <= d[1]

\* The order in which the chords of a round are decided: highest i first.
IsNext(c) == \A d \in chords : d[1] <= c[1]

Decide ==
  /\ pc = "accept"
  /\ \E c \in chords :
       /\ IsNext(c)
       /\ kept' = IF c \in free THEN Erase(kept, c[1], c[2]) ELSE kept
       /\ chords' = chords \ {c}
       /\ free' = free \ {c}
       /\ pc' = IF chords = {c} THEN "round" ELSE "accept"
  /\ UNCHANGED <<scene, attempts, draws>>

Next == BeginRound \/ Return \/ Draw \/ Validate \/ Decide

\* smooth() runs in the caller's thread; nothing it does waits.
Spec == Init /\ [][Next]_vars /\ WF_vars(Next)
-------------------------------------------------------------------------------
\* Places on the path are places of the input, in their order, and every chord
\* of the round lies on the path with a node to erase.
TypeOK ==
  /\ size \in 0 .. MaxSize
  /\ blocked \subseteq Places \X Places
  /\ kept \in Seq(Places)
  /\ \A k, l \in DOMAIN kept : k < l => kept[k] < kept[l]
  /\ attempts \in Nat
  /\ draws \in 0 .. 4 * Batch
  /\ chords \subseteq Nat \X Nat
  /\ \A c \in chords : 1 <= c[1] /\ c[1] + 2 <= c[2] /\ c[2] <= Len(kept)
  /\ free \subseteq chords
  /\ pc \in {"round", "draw", "accept", "done"}

\* "every retained segment was either in the free input or a validated shortcut"
\* (smoother.hpp:61-63): an edge of the path joins neighbours of the input or is
\* a chord the scene found free, also while the chords of a round, drawn on the
\* path as it was, are applied to the path as it becomes.
SegmentsSound ==
  \A k \in 1 .. Len(kept) - 1 :
     kept[k + 1] = kept[k] + 1 \/ <<kept[k], kept[k + 1]>> \notin blocked

\* "Endpoints are never removed" (shortcut_smoother.cpp:11).
EndpointsKept ==
  size > 0 => /\ Len(kept) > 0
              /\ kept[1] = 1
              /\ kept[Len(kept)] = size

\* max_iterations bounds the chords validated "in both modes"
\* (shortcut_smoother.cpp:55) and batch_size those of a round: the chords not
\* yet counted still fit.
WorkBounded ==
  /\ attempts <= MaxIterations
  /\ Cardinality(chords) <= Batch
  /\ pc = "draw" => attempts + Cardinality(chords) <= MaxIterations

Contract == INSTANCE Smoother WITH returned <- (pc = "done")

\* Each step is a shortcut of the contract or invisible, and smooth() returns.
ImplementsContract == Contract!Spec
===============================================================================
