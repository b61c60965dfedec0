------------------------ MODULE ShortcutSmoother_proofs ------------------------
(***************************************************************************)
(* For input paths of every length, every scene and every parameter:       *)
(* whatever chords the rounds draw, applying the free ones from the right  *)
(* keeps the path sound, its ends and the budgets, and each step of        *)
(* smooth() is a shortcut of the contract of Smoother or invisible to it.  *)
(***************************************************************************)
EXTENDS ShortcutSmoother, FiniteSetTheorems, TLAPS

\* The verdicts of the batch still hold for the places the chords have now.
FreeClear == \A c \in free : Clear(c)

\* Chords of one round may touch but never share an edge of the path.
InteriorsDisjoint ==
  \A c, d \in chords : c # d => c[2] <= d[1] \/ d[2] <= c[1]

\* The inductive invariant.  Disjoint interiors are what lets an erasure leave
\* the places of the remaining chords, and so their verdicts, as they were.
Inv ==
  /\ TypeOK
  /\ IsFiniteSet(chords)
  /\ pc = "round" => chords = {}
  /\ InteriorsDisjoint
  /\ FreeClear
  /\ SegmentsSound
  /\ EndpointsKept
  /\ WorkBounded

\* What p.erase leaves: the places up to i as they were, then those from j on.
LEMMA EraseShape ==
  ASSUME NEW S, NEW s \in Seq(S), NEW i \in 1 .. Len(s), NEW j \in 1 .. Len(s),
         i + 2 <= j
  PROVE  /\ Erase(s, i, j) \in Seq(S)
         /\ Len(Erase(s, i, j)) = Len(s) - (j - i - 1)
         /\ \A k \in 1 .. i : Erase(s, i, j)[k] = s[k]
         /\ \A k \in i + 1 .. Len(s) - (j - i - 1) :
               Erase(s, i, j)[k] = s[k + (j - i - 1)]
<1> DEFINE n == Len(s) - (j - i - 1)
<1>1. n \in Nat /\ i < n
  OBVIOUS
<1>2. \A k \in 1 .. n : (IF k <= i THEN s[k] ELSE s[k + (j - i - 1)]) \in S
  OBVIOUS
<1>3. Erase(s, i, j) \in [1 .. n -> S]
  BY <1>2 DEF Erase
<1>4. Erase(s, i, j) \in Seq(S) /\ Len(Erase(s, i, j)) = n
  BY <1>1, <1>3
<1>5. \A k \in 1 .. n :
         Erase(s, i, j)[k] = IF k <= i THEN s[k] ELSE s[k + (j - i - 1)]
  BY DEF Erase
<1>6. \A k \in 1 .. i : k \in 1 .. n /\ k <= i
  BY <1>1
<1>7. \A k \in i + 1 .. n : k \in 1 .. n /\ ~(k <= i)
  BY <1>1
<1>8. \A k \in 1 .. i : Erase(s, i, j)[k] = s[k]
  BY <1>5, <1>6
<1>9. \A k \in i + 1 .. n : Erase(s, i, j)[k] = s[k + (j - i - 1)]
  BY <1>5, <1>7
<1> QED
  BY <1>4, <1>8, <1>9

\* The erasure is the cut of the contract.
LEMMA EraseIsCut ==
  ASSUME NEW S, NEW s \in Seq(S), NEW i \in 1 .. Len(s), NEW j \in 1 .. Len(s),
         i + 2 <= j
  PROVE  Erase(s, i, j) = SubSeq(s, 1, i) \o SubSeq(s, j, Len(s))
<1> DEFINE n == Len(s) - (j - i - 1)
           e == Erase(s, i, j)
           l == SubSeq(s, 1, i)
           r == SubSeq(s, j, Len(s))
<1>1. /\ e \in Seq(S) /\ Len(e) = n
      /\ \A k \in 1 .. i : e[k] = s[k]
      /\ \A k \in i + 1 .. n : e[k] = s[k + (j - i - 1)]
  BY EraseShape
<1>2. l \in Seq(S) /\ Len(l) = i /\ \A k \in 1 .. i : l[k] = s[k]
  OBVIOUS
<1>3. /\ r \in Seq(S) /\ Len(r) = Len(s) - j + 1
      /\ \A k \in 1 .. Len(s) - j + 1 : r[k] = s[j + k - 1]
  OBVIOUS
<1>4. /\ l \o r \in Seq(S) /\ Len(l \o r) = n
      /\ \A k \in 1 .. n : (l \o r)[k] = IF k <= i THEN l[k] ELSE r[k - i]
  BY <1>2, <1>3
<1>5. ASSUME NEW k \in 1 .. n
      PROVE  e[k] = (l \o r)[k]
  <2>0. i \in Nat /\ j \in Nat /\ Len(s) \in Nat /\ n \in Nat
    OBVIOUS
  <2>1. CASE k <= i
    <3>1. k \in 1 .. i
      BY <2>0, <2>1
    <3> HIDE DEF e, l, r, n
    <3>2. (l \o r)[k] = l[k]
      BY <1>4, <2>1
    <3> QED
      BY <3>1, <3>2, <1>1, <1>2
  <2>2. CASE k > i
    <3>1. k \in i + 1 .. n
      BY <2>0, <2>2
    <3>2. k - i \in 1 .. Len(s) - j + 1 /\ j + (k - i) - 1 = k + (j - i - 1)
      BY <2>2
    <3>3. ~ (k <= i)
      BY <2>0, <2>2
    <3> HIDE DEF e, l, r, n
    <3>4. e[k] = s[k + (j - i - 1)]
      BY <3>1, <1>1
    <3>5. r[k - i] = s[k + (j - i - 1)]
      BY <3>2, <1>3
    <3>6. (l \o r)[k] = r[k - i]
      BY <1>4, <3>3
    <3> QED
      BY <3>4, <3>5, <3>6
  <2> QED
    BY <2>0, <2>1, <2>2
<1>6. e = [k \in 1 .. n |-> e[k]] /\ l \o r = [k \in 1 .. n |-> (l \o r)[k]]
  <2>1. DOMAIN e = 1 .. n /\ DOMAIN (l \o r) = 1 .. n
    BY <1>1, <1>4
  <2>2. e = [k \in DOMAIN e |-> e[k]]
    BY DEF Erase
  <2>3. l \o r = [k \in DOMAIN (l \o r) |-> (l \o r)[k]]
    BY <1>4
  <2> HIDE DEF e, l, r, n
  <2> QED
    BY <2>1, <2>2, <2>3
<1> HIDE DEF e, l, r, n
<1>7. e = l \o r
  BY <1>5, <1>6
<1> QED
  BY <1>7 DEF e, l, r

\* A chord of the round lies on the path and has a node to erase.
LEMMA ChordShape ==
  ASSUME TypeOK, NEW c \in chords
  PROVE  /\ c[1] \in Nat /\ c[2] \in Nat /\ Len(kept) \in Nat
         /\ 1 <= c[1] /\ c[1] + 2 <= c[2] /\ c[2] <= Len(kept)
<1>1. c \in Nat \X Nat /\ kept \in Seq(Places)
  BY DEF TypeOK
<1>2. 1 <= c[1] /\ c[1] + 2 <= c[2] /\ c[2] <= Len(kept)
  BY DEF TypeOK
<1> QED
  BY <1>1, <1>2

LEMMA BatchPositive == Batch \in Nat /\ Batch >= 1
BY ParamsAssumption DEF Batch

LEMMA InitInv == Init => Inv
<1> SUFFICES ASSUME Init PROVE Inv
  OBVIOUS
<1>1. kept \in Seq(Places) /\ Len(kept) = size /\ size \in Nat
  BY ParamsAssumption DEF Init, Places
<1>2. TypeOK
  BY <1>1, BatchPositive DEF Init, TypeOK, Places
<1>3. IsFiniteSet(chords) /\ Cardinality(chords) = 0
  BY FS_EmptySet DEF Init
<1>4. SegmentsSound /\ EndpointsKept
  BY <1>1 DEF Init, SegmentsSound, EndpointsKept
<1>5. WorkBounded
  BY <1>3, BatchPositive, ParamsAssumption DEF Init, WorkBounded
<1> QED
  BY <1>2, <1>3, <1>4, <1>5 DEF Init, Inv, InteriorsDisjoint, FreeClear

LEMMA BeginRoundInv == Inv /\ BeginRound => Inv'
<1> SUFFICES ASSUME Inv, BeginRound PROVE Inv'
  OBVIOUS
<1>1. Cardinality(chords) = 0
  BY FS_EmptySet DEF Inv, BeginRound
<1>2. WorkBounded'
  BY <1>1, BatchPositive, ParamsAssumption DEF Inv, TypeOK, BeginRound, WorkLeft, WorkBounded
<1> QED
  BY <1>2, BatchPositive
  DEF Inv, TypeOK, BeginRound, scene, Batch, InteriorsDisjoint, FreeClear, Clear,
      SegmentsSound, EndpointsKept

LEMMA ReturnInv == Inv /\ Return => Inv'
BY DEF Inv, TypeOK, Return, scene, InteriorsDisjoint, FreeClear, Clear,
       SegmentsSound, EndpointsKept, WorkBounded

\* A chord that does not overlap the others keeps the interiors disjoint.
LEMMA DrawInv == Inv /\ Draw => Inv'
<1> SUFFICES ASSUME Inv, Draw PROVE Inv'
  OBVIOUS
<1>1. PICK c \in Drawable :
        chords' = IF Overlaps(c[1], c[2]) THEN chords ELSE chords \cup {c}
  BY DEF Draw
<1>2. /\ c \in Nat \X Nat
      /\ 1 <= c[1] /\ c[1] + 2 <= c[2] /\ c[2] <= Len(kept)
  BY DEF Drawable, Inv, TypeOK
<1>3. TypeOK'
  BY <1>1, <1>2, BatchPositive DEF Inv, TypeOK, Draw, MoreDraws, scene
<1>4. InteriorsDisjoint'
  <2>1. CASE Overlaps(c[1], c[2])
    BY <2>1, <1>1 DEF Inv, InteriorsDisjoint
  <2>2. CASE ~Overlaps(c[1], c[2])
    <3>1. chords' = chords \cup {c} /\ c[1] \in Nat /\ c[2] \in Nat
      BY <2>2, <1>1, <1>2
    <3>2. ASSUME NEW d \in chords
          PROVE  c[2] <= d[1] \/ d[2] <= c[1]
      <4>1. d[1] \in Nat /\ d[2] \in Nat
        BY <3>2, ChordShape DEF Inv
      <4>2. ~(c[1] < d[2] /\ d[1] < c[2])
        BY <2>2 DEF Overlaps
      <4> QED
        BY <3>1, <4>1, <4>2
    <3> QED
      BY <3>1, <3>2 DEF Inv, InteriorsDisjoint
  <2> QED
    BY <2>1, <2>2
<1>5. IsFiniteSet(chords) /\ Cardinality(chords) \in Nat
  BY FS_CardinalityType DEF Inv
<1>6. /\ IsFiniteSet(chords') /\ Cardinality(chords') \in Nat
      /\ Cardinality(chords') <= Cardinality(chords) + 1
  <2>1. /\ IsFiniteSet(chords \cup {c})
        /\ Cardinality(chords \cup {c}) \in {Cardinality(chords), Cardinality(chords) + 1}
    BY <1>5, FS_AddElement
  <2>2. chords' = chords \/ chords' = chords \cup {c}
    BY <1>1
  <2> QED
    BY <1>5, <2>1, <2>2
<1>7. WorkBounded'
  BY <1>5, <1>6, BatchPositive, ParamsAssumption
  DEF Inv, TypeOK, Draw, MoreDraws, WorkBounded
<1> QED
  BY <1>3, <1>4, <1>6, <1>7
  DEF Inv, Draw, scene, FreeClear, Clear, SegmentsSound, EndpointsKept

LEMMA ValidateInv == Inv /\ Validate => Inv'
<1> SUFFICES ASSUME Inv, Validate PROVE Inv'
  OBVIOUS
<1>1. Cardinality(chords) \in Nat
  BY FS_CardinalityType DEF Inv
<1>2. TypeOK'
  BY <1>1 DEF Inv, TypeOK, Validate, scene
<1>3. WorkBounded'
  BY <1>1 DEF Inv, TypeOK, Validate, WorkBounded
<1>4. FreeClear'
  BY DEF Validate, FreeClear, Clear, scene
<1> QED
  BY <1>2, <1>3, <1>4
  DEF Inv, Validate, scene, InteriorsDisjoint, SegmentsSound, EndpointsKept

\* The chord decided next lies to the right of all the others, so its erasure
\* leaves their places, their verdicts and their order alone.
LEMMA DecideInv == Inv /\ Decide => Inv'
<1> SUFFICES ASSUME Inv, Decide PROVE Inv'
  OBVIOUS
<1>1. PICK c \in chords :
        /\ IsNext(c)
        /\ kept' = IF c \in free THEN Erase(kept, c[1], c[2]) ELSE kept
        /\ chords' = chords \ {c}
        /\ free' = free \ {c}
        /\ pc' = IF chords = {c} THEN "round" ELSE "accept"
  BY DEF Decide
<1>2. PICK i \in Nat, j \in Nat, m \in Nat, L \in Nat :
         /\ i = c[1] /\ j = c[2] /\ m = j - i - 1 /\ L = Len(kept)
         /\ 1 <= i /\ 1 <= m /\ j <= L
  <2>1. /\ c[1] \in Nat /\ c[2] \in Nat /\ Len(kept) \in Nat
        /\ 1 <= c[1] /\ c[1] + 2 <= c[2] /\ c[2] <= Len(kept)
    BY ChordShape DEF Inv
  <2>2. c[2] - c[1] - 1 \in Nat /\ 1 <= c[2] - c[1] - 1
    BY <2>1
  <2> QED
    BY <2>1, <2>2
<1>arith. 1 <= i /\ 1 <= m /\ i + m + 1 <= L /\ j = i + m + 1
  <2>1. 1 <= i /\ 1 <= m /\ j <= L /\ m = j - i - 1
    BY <1>2
  <2> QED
    BY <2>1
<1>3. kept \in Seq(Places) /\ \A p, q \in 1 .. L : p < q => kept[p] < kept[q]
  <2>1. kept \in Seq(Places) /\ \A p, q \in DOMAIN kept : p < q => kept[p] < kept[q]
    BY DEF Inv, TypeOK
  <2>2. DOMAIN kept = 1 .. L
    BY <2>1, <1>2
  <2> QED
    BY <2>1, <2>2
\* The places after an erasure, and where each of them was before.
<1>4. ASSUME c \in free
      PROVE  /\ kept' \in Seq(Places) /\ Len(kept') = L - m
             /\ \A k \in 1 .. i : kept'[k] = kept[k]
             /\ \A k \in i + 1 .. L - m : kept'[k] = kept[k + m]
  <2>1. kept' = Erase(kept, i, j)
    <3>1. kept' = Erase(kept, c[1], c[2])
      BY <1>1, <1>4
    <3> QED
      BY <3>1, <1>2
  <2>2. i \in 1 .. Len(kept) /\ j \in 1 .. Len(kept) /\ i + 2 <= j
    <3>1. i \in 1 .. L /\ j \in 1 .. L /\ i + 2 <= j
      BY <1>arith
    <3> QED
      BY <3>1, <1>2
  <2>3. /\ kept' \in Seq(Places) /\ Len(kept') = Len(kept) - (j - i - 1)
        /\ \A k \in 1 .. i : kept'[k] = kept[k]
        /\ \A k \in i + 1 .. Len(kept) - (j - i - 1) : kept'[k] = kept[k + (j - i - 1)]
    BY <2>1, <2>2, <1>3, EraseShape
  <2> QED
    BY <2>3, <1>2
<1>5. ASSUME c \notin free
      PROVE  kept' = kept
  BY <1>1, <1>5
<1>6. \A d \in chords' :
         d[1] \in Nat /\ d[2] \in Nat /\ 1 <= d[1] /\ d[1] + 2 <= d[2] /\ d[2] <= i
  <2>1. SUFFICES ASSUME NEW d \in chords'
                 PROVE  d[1] \in Nat /\ d[2] \in Nat /\ 1 <= d[1] /\ d[1] + 2 <= d[2] /\ d[2] <= i
    OBVIOUS
  <2>2. d \in chords /\ d # c /\ d[1] <= i
    BY <1>1, <1>2 DEF IsNext
  <2>3. d[1] \in Nat /\ d[2] \in Nat /\ 1 <= d[1] /\ d[1] + 2 <= d[2]
    BY <2>2 DEF Inv, TypeOK
  <2>4. j <= d[1] \/ d[2] <= i
    BY <2>2, <1>1, <1>2 DEF Inv, InteriorsDisjoint
  <2> QED
    BY <2>2, <2>3, <2>4, <1>arith
<1>7. /\ kept' \in Seq(Places) /\ Len(kept') \in Nat /\ i <= Len(kept')
      /\ \A k \in 1 .. i : kept'[k] = kept[k]
  <2>1. CASE c \in free
    BY <2>1, <1>arith, <1>4
  <2>2. CASE c \notin free
    <3>1. Len(kept) \in Nat /\ i <= Len(kept)
      BY <1>2
    <3> QED
      BY <3>1, <2>2, <1>3, <1>5
  <2> QED
    BY <2>1, <2>2
<1>8. \A k, l \in DOMAIN kept' : k < l => kept'[k] < kept'[l]
  <2>1. CASE c \in free
    <3>1. SUFFICES ASSUME NEW k \in 1 .. L - m, NEW l \in 1 .. L - m, k < l
                   PROVE  kept'[k] < kept'[l]
      BY <2>1, <1>4
    <3>2. CASE l <= i
      <4>1. k \in 1 .. i /\ l \in 1 .. i /\ k \in 1 .. L /\ l \in 1 .. L
        BY <3>1, <3>2, <1>arith
      <4> QED
        BY <4>1, <3>1, <1>3, <1>7
    <3>3. CASE k > i
      <4>1. /\ k \in i + 1 .. L - m /\ l \in i + 1 .. L - m
            /\ k + m \in 1 .. L /\ l + m \in 1 .. L /\ k + m < l + m
        BY <3>1, <3>3, <1>arith
      <4> QED
        BY <4>1, <2>1, <1>3, <1>4
    <3>4. CASE k <= i /\ l > i
      <4>1. /\ k \in 1 .. i /\ l \in i + 1 .. L - m
            /\ k \in 1 .. L /\ l + m \in 1 .. L /\ k < l + m
        BY <3>1, <3>4, <1>arith
      <4> QED
        BY <4>1, <2>1, <1>3, <1>4
    <3> QED
      BY <3>2, <3>3, <3>4
  <2>2. CASE c \notin free
    BY <2>2, <1>5 DEF Inv, TypeOK
  <2> QED
    BY <2>1, <2>2
<1>9. TypeOK'
  <2>1. \A d \in chords' : 1 <= d[1] /\ d[1] + 2 <= d[2] /\ d[2] <= Len(kept')
    BY <1>6, <1>7
  <2> QED
    BY <2>1, <1>1, <1>7, <1>8, BatchPositive DEF Inv, TypeOK, Decide, scene
<1>10. /\ IsFiniteSet(chords') /\ Cardinality(chords') \in Nat
       /\ Cardinality(chords') <= Cardinality(chords) /\ Cardinality(chords) \in Nat
  <2>1. IsFiniteSet(chords) /\ Cardinality(chords) \in Nat
    BY FS_CardinalityType DEF Inv
  <2>2. /\ IsFiniteSet(chords \ {c})
        /\ Cardinality(chords \ {c}) = Cardinality(chords) - 1
    BY <2>1, <1>1, FS_RemoveElement
  <2>3. Cardinality(chords \ {c}) \in Nat
    BY <2>2, FS_CardinalityType
  <2> QED
    BY <2>1, <2>2, <2>3, <1>1
<1>11. InteriorsDisjoint'
  BY <1>1 DEF Inv, InteriorsDisjoint
<1>12. FreeClear'
  <2>1. SUFFICES ASSUME NEW d \in free' PROVE Clear(d)'
    BY DEF FreeClear
  <2>2. d \in chords' /\ Clear(d)
    BY <2>1, <1>1 DEF Inv, TypeOK, FreeClear
  <2>3. d[1] \in 1 .. i /\ d[2] \in 1 .. i
    BY <2>2, <1>6
  <2> QED
    BY <2>2, <2>3, <1>7 DEF Clear, Decide, scene
<1>13. SegmentsSound'
  <2>1. CASE c \in free
    <3>1. SUFFICES ASSUME NEW k \in 1 .. (L - m) - 1
                   PROVE  \/ kept'[k + 1] = kept'[k] + 1
                          \/ <<kept'[k], kept'[k + 1]>> \notin blocked
      BY <2>1, <1>4 DEF SegmentsSound, Decide, scene
    <3>2. \A p \in 1 .. L - 1 :
             kept[p + 1] = kept[p] + 1 \/ <<kept[p], kept[p + 1]>> \notin blocked
      BY <1>2 DEF Inv, SegmentsSound
    <3>3. CASE k < i
      <4>1. k \in 1 .. i /\ k + 1 \in 1 .. i /\ k \in 1 .. L - 1
        BY <3>1, <3>3, <1>arith
      <4> QED
        BY <4>1, <3>2, <1>7
    <3>4. CASE k = i
      <4>1. i \in 1 .. i /\ i + 1 \in i + 1 .. L - m /\ (i + 1) + m = j
        BY <1>arith
      <4>2. kept'[k] = kept[i] /\ kept'[k + 1] = kept[j]
        BY <4>1, <3>4, <2>1, <1>4
      <4>3. <<kept[i], kept[j]>> \notin blocked
        BY <2>1, <1>2 DEF Inv, FreeClear, Clear
      <4> QED
        BY <4>2, <4>3
    <3>5. CASE k > i
      <4>1. /\ k \in i + 1 .. L - m /\ k + 1 \in i + 1 .. L - m
            /\ (k + 1) + m = (k + m) + 1 /\ k + m \in 1 .. L - 1
        BY <3>1, <3>5, <1>arith
      <4>2. kept'[k] = kept[k + m] /\ kept'[k + 1] = kept[(k + m) + 1]
        BY <4>1, <2>1, <1>4
      <4> QED
        BY <4>1, <4>2, <3>2
    <3> QED
      BY <3>3, <3>4, <3>5
  <2>2. CASE c \notin free
    BY <2>2, <1>5 DEF Inv, SegmentsSound, Decide, scene
  <2> QED
    BY <2>1, <2>2
<1>14. EndpointsKept'
  <2>1. CASE c \in free
    <3>1. 1 \in 1 .. i /\ L - m \in i + 1 .. L - m /\ (L - m) + m = L /\ L - m > 0
      BY <1>arith
    <3>2. kept'[1] = kept[1] /\ kept'[L - m] = kept[L] /\ Len(kept') = L - m
      BY <3>1, <2>1, <1>4
    <3> QED
      BY <3>1, <3>2, <1>2 DEF Inv, EndpointsKept, Decide, scene
  <2>2. CASE c \notin free
    BY <2>2, <1>5 DEF Inv, EndpointsKept, Decide, scene
  <2> QED
    BY <2>1, <2>2
<1>15. WorkBounded'
  BY <1>1, <1>10, BatchPositive DEF Inv, TypeOK, WorkBounded, Decide
<1>16. pc' = "round" => chords' = {}
  BY <1>1
<1> QED
  BY <1>9, <1>10, <1>11, <1>12, <1>13, <1>14, <1>15, <1>16 DEF Inv

LEMMA StutterInv == Inv /\ UNCHANGED vars => Inv'
BY DEF Inv, TypeOK, vars, InteriorsDisjoint, FreeClear, Clear, SegmentsSound,
       EndpointsKept, WorkBounded, Batch

\* Every reachable state satisfies the inductive invariant.
LEMMA Invariance == Spec => []Inv
<1>1. Inv /\ [Next]_vars => Inv'
  BY BeginRoundInv, ReturnInv, DrawInv, ValidateInv, DecideInv, StutterInv DEF Next
<1> QED
  BY <1>1, InitInv, PTL DEF Spec

\* The path stays an increasing sequence of places of the input, and every chord
\* of a round lies on it with a node to erase.
THEOREM TypeCorrect == Spec => []TypeOK
BY Invariance, PTL DEF Inv

\* Every edge of the path, during and after smoothing, is an edge of the input
\* or a chord found free.
THEOREM PathStaysSound == Spec => []SegmentsSound
BY Invariance, PTL DEF Inv

\* The ends of the input are the ends of the path.
THEOREM EndsStay == Spec => []EndpointsKept
BY Invariance, PTL DEF Inv

\* No more chords are validated than max_iterations, or in one round than
\* batch_size.
THEOREM WorkStaysBounded == Spec => []WorkBounded
BY Invariance, PTL DEF Inv

\* The safety part of the contract of Smoother: smoothing starts where the
\* contract starts and every step is one of its steps or invisible to it.
THEOREM StepsImplementContract == Spec => Contract!Init /\ [][Contract!Next]_Contract!vars
<1>1. Init => Contract!Init
  BY DEF Init, Contract!Init, Contract!Places, Places
<1>2. Inv /\ [Next]_vars => [Contract!Next]_Contract!vars
  <2> SUFFICES ASSUME Inv, [Next]_vars PROVE [Contract!Next]_Contract!vars
    OBVIOUS
  <2>1. CASE BeginRound
    BY <2>1 DEF BeginRound, scene, Contract!vars
  <2>2. CASE Return
    BY <2>2 DEF Return, scene, Contract!Next, Contract!Return
  <2>3. CASE Draw
    BY <2>3 DEF Draw, scene, Contract!vars
  <2>4. CASE Validate
    BY <2>4 DEF Validate, scene, Contract!vars, Contract!Next, Contract!Return
  <2>5. CASE Decide
    <3>1. PICK c \in chords :
            /\ kept' = IF c \in free THEN Erase(kept, c[1], c[2]) ELSE kept
            /\ pc' \in {"round", "accept"}
      BY <2>5 DEF Decide
    <3>2. pc = "accept" /\ UNCHANGED <<size, blocked>>
      BY <2>5 DEF Decide, scene
    <3>3. CASE c \in free
      <4>1. /\ c[1] \in 1 .. Len(kept) /\ c[2] \in 1 .. Len(kept)
            /\ c[1] + 2 <= c[2] /\ c[1] + 1 < c[2] /\ kept \in Seq(Places)
        BY <3>1 DEF Inv, TypeOK
      <4>2. <<kept[c[1]], kept[c[2]]>> \notin blocked
        BY <3>3 DEF Inv, FreeClear, Clear
      <4>3. kept' = SubSeq(kept, 1, c[1]) \o SubSeq(kept, c[2], Len(kept))
        BY <3>1, <3>3, <4>1, EraseIsCut
      <4> QED
        BY <3>1, <3>2, <4>1, <4>2, <4>3 DEF Contract!Next, Contract!Shorten
    <3>4. CASE c \notin free
      BY <3>1, <3>2, <3>4 DEF Contract!vars
    <3> QED
      BY <3>3, <3>4
  <2>6. CASE UNCHANGED vars
    BY <2>6 DEF vars, Contract!vars
  <2> QED
    BY <2>1, <2>2, <2>3, <2>4, <2>5, <2>6 DEF Next
<1> QED
  BY <1>1, <1>2, Invariance, PTL DEF Spec

-------------------------------------------------------------------------------
\* How long a call can take.

\* A round is begun only while validations are left.
RoundsHaveBudget == pc = "draw" => attempts < MaxIterations

\* What one validation may use: the draws of its round and a decision for each
\* chord of the batch.
PerAttempt == 5 * Batch + 2

Unspent == MaxIterations - attempts

\* The steps that are left at most.
Left ==
  CASE pc = "round"  -> Unspent * PerAttempt + 1
    [] pc = "draw"   -> (Unspent - 1) * PerAttempt + 2 + 5 * Batch - draws
    [] pc = "accept" -> Unspent * PerAttempt + 1 + Cardinality(chords)
    [] pc = "done"   -> 0

LEMMA BudgetInv == Spec => []RoundsHaveBudget
<1>1. Init => RoundsHaveBudget
  BY DEF Init, RoundsHaveBudget
<1>2. RoundsHaveBudget /\ [Next]_vars => RoundsHaveBudget'
  BY DEF RoundsHaveBudget, Next, vars, BeginRound, WorkLeft, Return, Draw, Validate, Decide
<1> QED
  BY <1>1, <1>2, PTL DEF Spec

\* The numbers a step changes.
LEMMA Counts ==
  ASSUME Inv
  PROVE  /\ Batch \in Nat /\ Batch >= 1 /\ PerAttempt \in Nat /\ PerAttempt = 5 * Batch + 2
         /\ attempts \in Nat /\ MaxIterations \in Nat /\ Unspent \in Nat /\ Unspent = MaxIterations - attempts
         /\ Cardinality(chords) \in Nat /\ Cardinality(chords) <= Batch
         /\ draws \in Nat /\ draws <= 4 * Batch
<1>1. Batch \in Nat /\ Batch >= 1
  BY BatchPositive
<1>2. PerAttempt \in Nat /\ PerAttempt = 5 * Batch + 2
  BY <1>1 DEF PerAttempt
<1>3. attempts \in Nat /\ MaxIterations \in Nat /\ attempts <= MaxIterations
  BY ParamsAssumption DEF Inv, TypeOK, WorkBounded
<1>4. Cardinality(chords) \in Nat /\ Cardinality(chords) <= Batch
  BY FS_CardinalityType DEF Inv, WorkBounded
<1>5. Unspent \in Nat /\ Unspent = MaxIterations - attempts
  BY <1>3 DEF Unspent
<1>6. draws \in Nat /\ draws <= 4 * Batch
  BY <1>1 DEF Inv, TypeOK
<1> QED
  BY <1>1, <1>2, <1>3, <1>4, <1>5, <1>6

LEMMA Products ==
  ASSUME NEW x \in Nat, NEW y \in Nat, NEW z \in Nat
  PROVE  x * z \in Nat /\ (x <= y => x * z <= y * z) /\ (x >= 1 => (x - 1) * z = x * z - z)
<1>1. x * z \in Nat
  OBVIOUS
<1>2. (x - 1) * z = x * z - z
  OBVIOUS
<1>3. ASSUME x <= y
      PROVE  x * z <= y * z
  <2>1. PICK d \in Nat : y = x + d
    <3>1. y - x \in Nat /\ y = x + (y - x)
      BY <1>3
    <3> QED
      BY <3>1
  <2>2. y * z = x * z + d * z
    BY <2>1
  <2>3. d * z \in Nat
    OBVIOUS
  <2> QED
    BY <1>1, <2>2, <2>3
<1> QED
  BY <1>1, <1>2, <1>3

LEMMA LeftNat ==
  ASSUME Inv, RoundsHaveBudget
  PROVE  Left \in Nat
<1>1. PICK k \in Nat, u \in Nat, b \in Nat, c \in Nat, d \in Nat :
        k = PerAttempt /\ u = Unspent /\ b = Batch /\ c = Cardinality(chords) /\ d = draws
  <2>1. /\ PerAttempt \in Nat /\ Unspent \in Nat /\ Batch \in Nat
        /\ Cardinality(chords) \in Nat /\ draws \in Nat
    BY Counts
  <2> QED
    BY <2>1
<1>2. u * k \in Nat /\ d <= 4 * b
  BY <1>1, Counts
<1>3. CASE pc = "round"
  BY <1>1, <1>2, <1>3 DEF Left
<1>4. CASE pc = "draw"
  <2>1. u >= 1
    BY <1>1, <1>4, Counts DEF RoundsHaveBudget
  <2>2. PICK m \in Nat : m = (u - 1) * k
    <3>1. u - 1 \in Nat
      BY <2>1
    <3> QED
      BY <3>1
  <2>3. Left = m + 2 + 5 * b - d
    BY <1>1, <1>4, <2>2 DEF Left
  <2> QED
    BY <1>2, <2>3
<1>5. CASE pc = "accept"
  BY <1>1, <1>2, <1>5 DEF Left
<1>6. CASE pc = "done"
  BY <1>6 DEF Left
<1> QED
  BY <1>3, <1>4, <1>5, <1>6 DEF Inv, TypeOK

LEMMA LeftFalls ==
  ASSUME Inv, Inv', RoundsHaveBudget, Next
  PROVE  Left' < Left
<1>1. PICK k \in Nat, u \in Nat, b \in Nat, c \in Nat, d \in Nat :
        k = PerAttempt /\ u = Unspent /\ b = Batch /\ c = Cardinality(chords) /\ d = draws
  <2>1. /\ PerAttempt \in Nat /\ Unspent \in Nat /\ Batch \in Nat
        /\ Cardinality(chords) \in Nat /\ draws \in Nat
    BY Counts
  <2> QED
    BY <2>1
<1>2. b >= 1 /\ k = 5 * b + 2 /\ c <= b /\ d <= 4 * b /\ u = MaxIterations - attempts
  BY <1>1, Counts
<1>3. PICK m \in Nat : m = u * k
  OBVIOUS
<1>4. u >= 1 => (u - 1) * k = m - k
  BY <1>3, Products
<1>5. CASE BeginRound
  <2>1. pc = "round" /\ pc' = "draw" /\ u >= 1 /\ draws' = 0 /\ Unspent' = u
    BY <1>1, <1>2, <1>5, Counts DEF BeginRound, WorkLeft, Unspent
  <2>2. Left = m + 1
    BY <1>1, <1>3, <2>1 DEF Left
  <2>3. Left' = (m - k) + 2 + 5 * b - 0
    BY <1>1, <1>4, <2>1 DEF Left, PerAttempt
  <2> QED
    BY <1>2, <2>2, <2>3
<1>6. CASE Return
  <2>1. Left = m + 1 /\ Left' = 0
    BY <1>1, <1>3, <1>6 DEF Return, Left
  <2> QED
    BY <2>1
<1>7. CASE Draw
  <2>1. pc = "draw" /\ pc' = "draw" /\ draws' = d + 1 /\ Unspent' = u
    BY <1>1, <1>7 DEF Draw, Unspent
  <2>2. Left = (u - 1) * k + 2 + 5 * b - d /\ Left' = (u - 1) * k + 2 + 5 * b - (d + 1)
    BY <1>1, <2>1 DEF Left, PerAttempt
  <2>3. u >= 1
    BY <1>1, <1>2, <2>1, Counts DEF RoundsHaveBudget
  <2> QED
    BY <1>3, <1>4, <2>2, <2>3
<1>8. CASE Validate
  <2>1. pc = "draw" /\ chords' = chords /\ Unspent' = u - c
        /\ pc' = IF chords = {} THEN "done" ELSE "accept"
    BY <1>1, <1>2, <1>8, Counts DEF Validate, Unspent
  <2>2. u >= 1
    BY <1>1, <1>2, <2>1, Counts DEF RoundsHaveBudget
  <2>3. Left = (m - k) + 2 + 5 * b - d
    BY <1>1, <1>4, <2>1, <2>2 DEF Left
  <2>4. Left >= (m - k) + 2 + b
    BY <1>2, <2>3
  <2>5. m - k \in Nat
    <3>1. u - 1 \in Nat
      BY <2>2
    <3>2. (u - 1) * k \in Nat
      BY <3>1
    <3> QED
      BY <1>4, <2>2, <3>2
  <2>6. CASE chords = {}
    <3>1. Left' = 0
      BY <2>1, <2>6 DEF Left
    <3>2. Left \in Int /\ Left > 0
      BY <1>2, <2>3, <2>5
    <3> QED
      BY <3>1, <3>2
  <2>7. CASE chords # {}
    <3>1. c >= 1
      BY <1>1, <2>7, FS_EmptySet DEF Inv
    <3>2. Unspent' \in Nat
      <4>1. attempts' \in Nat /\ attempts' <= MaxIterations
        BY DEF Inv, TypeOK, WorkBounded
      <4>2. PICK z \in Nat, most \in Nat : z = attempts' /\ most = MaxIterations
        BY <4>1, ParamsAssumption
      <4>3. Unspent' = most - z /\ z <= most
        BY <4>1, <4>2 DEF Unspent
      <4> QED
        BY <4>3
    <3>3. PICK v \in Nat : v = u - c
      BY <2>1, <3>2
    <3>4. PICK w \in Nat : w = v * k
      OBVIOUS
    <3>5. v <= u - 1 /\ u - 1 \in Nat
      BY <2>2, <3>1, <3>3
    <3>6. w <= (u - 1) * k
      BY <3>4, <3>5, Products
    <3>7. Left' = w + 1 + c
      BY <1>1, <2>1, <2>7, <3>3, <3>4 DEF Left, PerAttempt
    <3>8. PICK y \in Nat : y = m - k
      BY <2>5
    <3>9. w <= y
      BY <1>4, <2>2, <3>6, <3>8
    <3>10. Left = y + 2 + 5 * b - d
      BY <2>3, <3>8
    <3> QED
      BY <1>2, <3>7, <3>9, <3>10
  <2> QED
    BY <2>6, <2>7
<1>9. CASE Decide
  <2>1. PICK x \in chords : /\ pc = "accept" /\ chords' = chords \ {x} /\ Unspent' = u
                            /\ pc' = IF chords = {x} THEN "round" ELSE "accept"
    BY <1>1, <1>9 DEF Decide, Unspent
  <2>2. Cardinality(chords') = c - 1 /\ c >= 1
    <3>1. IsFiniteSet(chords) /\ Cardinality(chords \ {x}) = Cardinality(chords) - 1
      BY FS_RemoveElement DEF Inv
    <3>2. Cardinality(chords \ {x}) \in Nat
      BY <3>1, FS_RemoveElement, FS_CardinalityType
    <3> QED
      BY <1>1, <2>1, <3>1, <3>2
  <2>3. Left = m + 1 + c
    BY <1>1, <1>3, <2>1 DEF Left
  <2>4. Left' = m + 1 \/ Left' = m + 1 + (c - 1)
    BY <1>1, <1>3, <2>1, <2>2 DEF Left, PerAttempt
  <2> QED
    BY <2>2, <2>3, <2>4
<1> QED
  BY <1>5, <1>6, <1>7, <1>8, <1>9 DEF Next

\* For every path, scene and sequence of draws, smooth() returns after at most
\* PerAttempt steps for each iteration it is allowed, whether a time budget is set
\* or not: a round that finds no chord ends the call, and one that finds some has
\* spent as many of its validations.
THEOREM CallsAreBounded ==
  Spec => Left = MaxIterations * PerAttempt + 1 /\ [](Left \in Nat) /\ [][Left' < Left]_vars
<1>1. Init => Left = MaxIterations * PerAttempt + 1
  <2> SUFFICES ASSUME Init
               PROVE  Left = MaxIterations * PerAttempt + 1
    OBVIOUS
  <2>1. pc = "round" /\ Unspent = MaxIterations
    BY ParamsAssumption DEF Init, Unspent
  <2> QED
    BY <2>1 DEF Left
<1>2. Inv /\ RoundsHaveBudget => Left \in Nat
  BY LeftNat
<1>3. Inv /\ Inv' /\ RoundsHaveBudget /\ [Next]_vars => [Left' < Left]_vars
  BY LeftFalls
<1> QED
  BY <1>1, <1>2, <1>3, Invariance, BudgetInv, PTL DEF Spec
================================================================================
