------------------------ MODULE CollisionScene_proofs ------------------------
(***************************************************************************)
(* What the collision scenes guarantee for every robot, every environment  *)
(* and every number of querying threads.  The types need no condition.     *)
(* That answers follow the semantic contract needs the conditions that the *)
(* violation runs show to be necessary: a robot with mesh links is queried *)
(* by one thread at a time, links without an interior point are never      *)
(* inside an object, and padding comes with a distance or a margin.        *)
(***************************************************************************)
EXTENDS CollisionScene, TLAPS

ContractConditions ==
  /\ Serial \/ MeshLinks = {}
  /\ \A q \in Configs, l \in Links \ MeshLinks : Inside[q][l] = {}
  /\ \A o \in Options : o.padding > 0 => o.distance \/ o.margin > 0

-------------------------------------------------------------------------------
\* Types: a rebuild only visits objects of the scene, and leaves none behind.
TodoOK == \A t \in Threads :
  /\ todo[t] \subseteq DOMAIN objects
  /\ pc[t] # "rebuild" => todo[t] = {}

TInv == TypeOK /\ TodoOK

LEMMA NoAskType == NoAsk \in Ask
<1>1. \E a \in Ask : TRUE
  <2>1. PICK c \in Configs, o \in Options : TRUE
    BY SceneAssumption
  <2>2. [q |-> c, opts |-> o, large |-> TRUE] \in Ask
    BY DEF Ask
  <2> QED BY <2>2
<1> QED BY <1>1 DEF NoAsk

LEMMA InitType == Init => TInv
<1> SUFFICES ASSUME Init PROVE TInv
  OBVIOUS
<1>1. gpu \in Seq(Object)
  <2>1. gpu \in Seq([id : Ids, place : Places])
    BY SceneAssumption DEF Init
  <2> QED BY <2>1 DEF Object
<1>2. Len(gpu) \in Nat /\ \A h \in 0 .. Len(gpu) - 1 : h + 1 \in 1 .. Len(gpu)
  BY <1>1
<1>3. \A h \in 0 .. Len(gpu) - 1 : gpu[h + 1] \in Object /\ gpu[h + 1].place \in Places
  <2> SUFFICES ASSUME NEW h \in 0 .. Len(gpu) - 1
               PROVE  gpu[h + 1] \in Object /\ gpu[h + 1].place \in Places
    OBVIOUS
  <2>1. h + 1 \in 1 .. Len(gpu)
    BY <1>2
  <2>2. gpu[h + 1] \in Object
    BY <1>1, <2>1
  <2> QED BY <2>2 DEF Object
<1>4. objects \in [DOMAIN objects -> Object] /\ DOMAIN objects = 0 .. Len(gpu) - 1
  BY <1>3 DEF Init
<1>5. recipe \in [DOMAIN objects -> Places]
  BY <1>3, <1>4 DEF Init
<1>6. nextHandle \in Nat /\ DOMAIN objects \subseteq 0 .. nextHandle - 1
  BY <1>2, <1>4 DEF Init
<1>7. solids \in Seq(Places) /\ index \in [DOMAIN index -> Nat]
  BY DEF Init
<1>8. acm \in SUBSET (Links \X Ids)
  BY SceneAssumption DEF Init
<1>9. ask \in [Threads -> Ask] /\ pc \in [Threads -> PC]
  BY NoAskType DEF Init, PC
<1>10. /\ todo \in [Threads -> SUBSET Nat]
       /\ built \in [Threads -> Seq(Places)]
       /\ keys \in [Threads -> SUBSET (Links \X Nat)]
       /\ skip \in [Threads -> SUBSET (Links \X Nat)]
       /\ hit \in [Threads -> BOOLEAN]
  BY DEF Init
<1>11. TodoOK
  BY DEF Init, TodoOK
<1>12. hybrid \in BOOLEAN /\ dirty \in BOOLEAN /\ stale \in BOOLEAN
  BY DEF Init
<1> QED BY <1>1, <1>4, <1>5, <1>6, <1>7, <1>8, <1>9, <1>10, <1>11, <1>12 DEF TInv, TypeOK

\* Edits keep the types: a handle in use was given out before.
LEMMA EditType == ASSUME TInv, Edit PROVE TInv'
<1> USE DEF TInv, TypeOK, TodoOK
<1>1. ASSUME NEW id \in Ids, NEW p \in Places, AddObject(id, p) PROVE TInv'
  <2> USE <1>1 DEF AddObject
  <2>1. DOMAIN objects' = DOMAIN objects \cup {nextHandle}
    OBVIOUS
  <2>2. \A h \in DOMAIN objects' : objects'[h] \in Object
    BY DEF Object
  <2>3. \A h \in DOMAIN objects' : recipe'[h] \in Places
    OBVIOUS
  <2>4. nextHandle' \in Nat /\ DOMAIN objects' \subseteq 0 .. nextHandle' - 1
    BY <2>1
  <2>5. objects' \in [DOMAIN objects' -> Object] /\ recipe' \in [DOMAIN objects' -> Places]
    BY <2>1, <2>2, <2>3
  <2>6. TypeOK'
    BY <2>4, <2>5 DEF local
  <2>7. TodoOK'
    BY <2>1 DEF local
  <2> QED BY <2>6, <2>7
<1>2. ASSUME NEW h \in 0 .. nextHandle - 1, RemoveObject(h) PROVE TInv'
  <2>1. CASE h \in DOMAIN objects
    <3>1. DOMAIN objects' = DOMAIN objects \ {h}
      BY <1>2, <2>1 DEF RemoveObject
    <3>2. objects' \in [DOMAIN objects' -> Object] /\ recipe' \in [DOMAIN objects' -> Places]
      BY <1>2, <2>1, <3>1 DEF RemoveObject
    <3>3. TypeOK'
      BY <1>2, <2>1, <3>1, <3>2 DEF RemoveObject, local
    <3>4. TodoOK'
      BY <1>2, <2>1, <3>1 DEF RemoveObject, local, Quiet
    <3> QED BY <3>3, <3>4
  <2>2. CASE h \notin DOMAIN objects
    BY <1>2, <2>2 DEF RemoveObject, local
  <2> QED BY <2>1, <2>2
<1>3. ASSUME NEW h \in 0 .. nextHandle - 1, NEW p \in Places, MoveObject(h, p) PROVE TInv'
  <2>1. CASE h \in DOMAIN objects
    <3>1. DOMAIN objects' = DOMAIN objects
      BY <1>3, <2>1 DEF MoveObject
    <3>2. objects' \in [DOMAIN objects' -> Object] /\ recipe' \in [DOMAIN objects' -> Places]
      <4>1. [id |-> objects[h].id, place |-> p] \in Object
        BY <2>1 DEF Object
      <4> QED BY ZenonT(30), <1>3, <2>1, <3>1, <4>1 DEF MoveObject
    <3>3. TypeOK'
      <4>1. nextHandle' \in Nat /\ DOMAIN objects' \subseteq 0 .. nextHandle' - 1
        BY <1>3, <3>1 DEF MoveObject
      <4> QED BY <1>3, <2>1, <3>2, <4>1 DEF MoveObject, local
    <3>4. TodoOK'
      BY <1>3, <2>1, <3>1 DEF MoveObject, local
    <3> QED BY <3>3, <3>4
  <2>2. CASE h \notin DOMAIN objects
    BY <1>3, <2>2 DEF MoveObject, local
  <2> QED BY <2>1, <2>2
<1>4. ASSUME NEW m \in Acms, SetAcm(m) PROVE TInv'
  BY <1>4, SceneAssumption DEF SetAcm, tester, local
<1> QED BY <1>1, <1>2, <1>3, <1>4 DEF Edit

\* The keys of a batch are pairs of a link and a handle in use.
LEMMA KeysType ==
  ASSUME TInv
  PROVE /\ AllowedKeys \subseteq Links \X DOMAIN objects
        /\ AllowedKeys \in SUBSET (Links \X Nat)
        /\ SkipMask(AllowedKeys) \in SUBSET (Links \X Nat)
<1>1. AllowedKeys \subseteq Links \X DOMAIN objects
  BY DEF AllowedKeys
<1>2. DOMAIN objects \subseteq Nat
  BY DEF TInv, TypeOK
<1>3. \A k \in AllowedKeys : k[1] \in Links /\ k[2] \in Nat
  BY <1>1, <1>2
<1>4. \A h \in DOMAIN index : index[h] \in Nat
  BY DEF TInv, TypeOK
<1> QED BY <1>1, <1>2, <1>3, <1>4 DEF SkipMask

LEMMA StepType == ASSUME TInv, NEW t \in Threads, Step(t) PROVE TInv'
<1> USE DEF TInv, TypeOK, TodoOK, PC, Goto
<1>1. ASSUME NEW a \in Ask, Query(t, a) PROVE TInv'
  <2>1. OptixHit(a) \in BOOLEAN
    BY DEF OptixHit
  <2> QED BY <1>1, <2>1 DEF Query, scene, tester
<1>2. CASE Ensured(t)
  BY <1>2 DEF Ensured, scene, tester, local
<1>3. CASE BeginRebuild(t)
  BY <1>3 DEF BeginRebuild, scene
<1>4. CASE Collect(t)
  <2>1. PICK h \in todo[t] :
          /\ index' = [k \in DOMAIN index \cup {h} |->
                         IF k = h THEN Len(built[t]) + 1 ELSE index[k]]
          /\ built' = [built EXCEPT ![t] = Append(@, recipe[h])]
          /\ todo' = [todo EXCEPT ![t] = @ \ {h}]
    BY <1>4 DEF Collect
  <2>2. index' \in [DOMAIN index' -> Nat]
    BY <2>1
  <2>3. built' \in [Threads -> Seq(Places)]
    <3>1. recipe[h] \in Places
      OBVIOUS
    <3>2. Append(built[t], recipe[h]) \in Seq(Places)
      BY <3>1
    <3> QED BY <2>1, <3>2
  <2>4. todo' \in [Threads -> SUBSET Nat]
    BY <2>1
  <2> QED BY <1>4, <2>1, <2>2, <2>3, <2>4 DEF Collect, scene
<1>5. CASE Replace(t)
  BY <1>5 DEF Replace, scene, local
<1>6. CASE Publish(t)
  BY <1>6 DEF Publish, scene, local
<1>7. CASE Resolve(t)
  BY <1>7, KeysType DEF Resolve, scene, tester
<1>8. CASE Judge(t)
  <2>1. SurfaceHit(ask[t], keys[t]) \in BOOLEAN
    BY DEF SurfaceHit
  <2> QED BY <1>8, <2>1 DEF Judge, scene, tester
<1>9. CASE Contain(t)
  BY <1>9 DEF Contain, ContainmentHit, scene, tester
<1>10. CASE Return(t)
  BY <1>10, NoAskType DEF Return, scene, tester
<1> QED BY <1>1, <1>2, <1>3, <1>4, <1>5, <1>6, <1>7, <1>8, <1>9, <1>10 DEF Step

LEMMA TypeInvariant == Spec => []TInv
<1>1. TInv /\ [Next]_vars => TInv'
  <2> SUFFICES ASSUME TInv, [Next]_vars PROVE TInv'
    OBVIOUS
  <2>1. CASE UNCHANGED vars
    BY <2>1 DEF vars, scene, tester, local, TInv, TypeOK, TodoOK
  <2> QED BY <2>1, EditType, StepType DEF Next
<1> QED BY <1>1, InitType, PTL DEF Spec

\* Every reachable state of the scenes is well typed, whatever the threads do:
\* a handle in use was given out, and a rebuild never reads past the recipes.
THEOREM TypeCorrect == Spec => []TypeOK
BY TypeInvariant, PTL DEF TInv
-------------------------------------------------------------------------------
\* The inductive invariant.

\* A robot with mesh links is queried by one thread at a time, one without by any
\* number of them, and those never touch the containment tester.
Exclusive == \A t, u \in Threads :
  MeshLinks # {} /\ pc[t] # "idle" /\ pc[u] # "idle" => t = u

NoTester(t) ==
  MeshLinks = {} => pc[t] \in {"idle", "resolve", "judge", "return"}

\* Every object has its recipe.
RecipesMatch ==
  /\ DOMAIN recipe = DOMAIN objects
  /\ \A h \in DOMAIN objects : recipe[h] = objects[h].place

\* The index leads one-to-one from the handles in D onto the solids in s.
Indexed(s, D) ==
  /\ DOMAIN index = D
  /\ \A h \in D : index[h] \in DOMAIN s /\ s[index[h]] = recipe[h]
  /\ \A i \in DOMAIN s : \E h \in D : index[h] = i
  /\ \A h, k \in D : index[h] = index[k] => h = k

TesterOK == ~ dirty => Indexed(solids, DOMAIN objects)

\* A rebuild has indexed what it has collected.
Rebuilding(t) ==
  pc[t] \in {"rebuild", "publish"} => dirty /\ Indexed(built[t], DOMAIN objects \ todo[t])

\* From the rebuild on, the tester a query uses is up to date,
Ready(t) ==
  pc[t] \in {"resolve", "judge", "contain"} /\ MeshLinks # {} => ~ dirty

\* its masks are those of the ACM and of this tester,
Masked(t) ==
  pc[t] \in {"judge", "contain"} =>
    /\ keys[t] = AllowedKeys
    /\ skip[t] = IF DoContainment THEN SkipMask(AllowedKeys) ELSE {}

\* the containment test starts where the surfaces are apart,
Surfaced(t) == pc[t] = "contain" => ~ SurfaceHit(ask[t], keys[t])

\* and the answer is that of the contract.
Answered(t) == pc[t] = "return" => (hit[t] <=> Collides(ask[t].q, ask[t].opts))

ThreadOK(t) ==
  NoTester(t) /\ Rebuilding(t) /\ Ready(t) /\ Masked(t) /\ Surfaced(t) /\ Answered(t)

SInv ==
  /\ Exclusive
  /\ RecipesMatch
  /\ TesterOK
  /\ SnapshotCurrent
  /\ \A t \in Threads : ThreadOK(t)

\* An idle thread has no claims.
LEMMA IdleOK ==
  ASSUME NEW t, pc[t] = "idle"
  PROVE  ThreadOK(t)
BY DEF ThreadOK, NoTester, Rebuilding, Ready, Masked, Surfaced, Answered

LEMMA InitSafe == Init => SInv
<1> SUFFICES ASSUME Init PROVE SInv
  OBVIOUS
<1>1. \A t \in Threads : pc[t] = "idle"
  BY DEF Init
<1>2. Exclusive /\ \A t \in Threads : ThreadOK(t)
  BY <1>1, IdleOK DEF Exclusive
<1>3. RecipesMatch /\ TesterOK
  BY DEF Init, RecipesMatch, TesterOK
<1>4. SnapshotCurrent
  <2>1. gpu \in Seq([id : Ids, place : Places])
    BY SceneAssumption DEF Init
  <2>2. \A i \in 1 .. Len(gpu) : i - 1 \in 0 .. Len(gpu) - 1 /\ (i - 1) + 1 = i
    BY <2>1
  <2>3. DOMAIN gpu = 1 .. Len(gpu)
    BY <2>1
  <2>4. \A i \in 1 .. Len(gpu) : objects[i - 1] = gpu[(i - 1) + 1]
    BY <2>2 DEF Init
  <2>5. \A i \in 1 .. Len(gpu) : gpu[i] = objects[i - 1]
    BY <2>2, <2>4
  <2> QED BY <2>3, <2>5 DEF Init, SnapshotCurrent
<1> QED BY <1>2, <1>3, <1>4 DEF SInv

-------------------------------------------------------------------------------
\* What the tests of one query amount to.

SurfaceCollides(q, o) ==
  \/ o.self /\ SelfGap[q] - 2 * o.padding < o.margin
  \/ \E l \in Links, h \in DOMAIN objects :
       <<l, objects[h].id>> \notin acm /\ Gap[q][l][objects[h].place] - o.padding < o.margin

InsideCollides(q) ==
  \E l \in Links, h \in DOMAIN objects :
    <<l, objects[h].id>> \notin acm /\ objects[h].place \in Inside[q][l]

LEMMA CollidesSplit ==
  ASSUME NEW q, NEW o
  PROVE  Collides(q, o) <=> SurfaceCollides(q, o) \/ InsideCollides(q)
BY DEF Collides, SurfaceCollides, InsideCollides

LEMMA AskFields ==
  ASSUME NEW a \in Ask
  PROVE  /\ a.q \in Configs /\ a.opts \in Options
         /\ a.opts.margin \in Nat /\ a.opts.padding \in Nat
         /\ a.opts.distance \in BOOLEAN /\ a.opts.self \in BOOLEAN
<1>1. a.q \in Configs /\ a.opts \in Options
  BY DEF Ask
<1>2. a.opts \in [distance : BOOLEAN, margin : Nat, padding : Nat, self : BOOLEAN]
  BY <1>1, SceneAssumption
<1> QED BY <1>1, <1>2

LEMMA Gaps ==
  ASSUME NEW q \in Configs
  PROVE  SelfGap[q] \in Int /\ \A l \in Links, p \in Places : Gap[q][l][p] \in Int
BY SceneAssumption

\* On the boolean path margin and padding are zero.
LEMMA PlainOptions ==
  ASSUME ContractConditions, NEW a \in Ask, ~ a.opts.distance, ~ (a.opts.margin > 0)
  PROVE  a.opts.margin = 0 /\ a.opts.padding = 0
<1>1. a.opts \in Options /\ a.opts.margin \in Nat /\ a.opts.padding \in Nat
  BY AskFields
<1>2. ~ (a.opts.padding > 0)
  BY <1>1 DEF ContractConditions
<1> QED BY <1>1, <1>2

\* A key of the batch's mask names a link and an object that may touch.
LEMMA KeyMeaning ==
  ASSUME NEW l \in Links, NEW h \in DOMAIN objects
  PROVE  <<l, h>> \in AllowedKeys <=> <<l, objects[h].id>> \in acm
BY DEF AllowedKeys

LEMMA SurfaceRight ==
  ASSUME ContractConditions, TInv, NEW a \in Ask
  PROVE  SurfaceHit(a, AllowedKeys) <=> SurfaceCollides(a.q, a.opts)
<1>1. /\ a.q \in Configs /\ a.opts.margin \in Nat /\ a.opts.padding \in Nat
      /\ SelfGap[a.q] \in Int
  BY AskFields, Gaps
<1>2. \A l \in Links, h \in DOMAIN objects : Gap[a.q][l][objects[h].place] \in Int
  BY <1>1, Gaps DEF TInv, TypeOK, Object
<1>3. CASE a.opts.distance \/ a.opts.margin > 0
  <2>1. SelfHit(a.q, a.opts) <=>
          (a.opts.self /\ SelfGap[a.q] - 2 * a.opts.padding < a.opts.margin)
    BY <1>3 DEF SelfHit
  <2> QED BY <1>3, <2>1, KeyMeaning DEF SurfaceHit, SurfaceCollides
<1>4. CASE ~ (a.opts.distance \/ a.opts.margin > 0)
  <2>1. a.opts.margin = 0 /\ a.opts.padding = 0
    BY <1>4, PlainOptions
  <2>2. SelfHit(a.q, a.opts) <=>
          (a.opts.self /\ SelfGap[a.q] - 2 * a.opts.padding < a.opts.margin)
    BY <1>1, <1>4, <2>1 DEF SelfHit
  <2>3. \A l \in Links, h \in DOMAIN objects :
          Gap[a.q][l][objects[h].place] < 0 <=>
          Gap[a.q][l][objects[h].place] - a.opts.padding < a.opts.margin
    BY <1>2, <2>1
  <2> QED BY <1>4, <2>2, <2>3, KeyMeaning DEF SurfaceHit, SurfaceCollides
<1> QED BY <1>3, <1>4

\* The masks of a batch, taken with an index that is one-to-one, leave out
\* exactly the solids of the objects that a link may touch.
LEMMA ContainmentRight ==
  ASSUME ContractConditions, TInv, RecipesMatch, Indexed(solids, DOMAIN objects),
         NEW q \in Configs
  PROVE  ContainmentHit(q, SkipMask(AllowedKeys)) <=> InsideCollides(q)
<1>1. ASSUME NEW l \in MeshLinks, NEW i \in DOMAIN solids,
             <<l, i>> \notin SkipMask(AllowedKeys), solids[i] \in Inside[q][l]
      PROVE  InsideCollides(q)
  <2>1. l \in Links
    BY SceneAssumption
  <2>2. PICK h \in DOMAIN objects : index[h] = i
    BY DEF Indexed
  <2>3. <<l, h>> \notin AllowedKeys
    <3>1. ASSUME <<l, h>> \in AllowedKeys PROVE FALSE
      <4>1. h \in DOMAIN index
        BY DEF Indexed
      <4>2. <<l, h>>[1] = l /\ <<l, h>>[2] = h
        OBVIOUS
      <4>3. <<l, index[h]>> \in SkipMask(AllowedKeys)
        BY <3>1, <4>1, <4>2 DEF SkipMask
      <4> QED BY <1>1, <2>2, <4>3
    <3> QED BY <3>1
  <2>4. objects[h].place = solids[i]
    BY <2>2 DEF Indexed, RecipesMatch
  <2> QED BY <1>1, <2>1, <2>3, <2>4, KeyMeaning DEF InsideCollides
<1>2. ASSUME NEW l \in Links, NEW h \in DOMAIN objects,
             <<l, objects[h].id>> \notin acm, objects[h].place \in Inside[q][l]
      PROVE  ContainmentHit(q, SkipMask(AllowedKeys))
  <2>1. l \in MeshLinks
    BY <1>2 DEF ContractConditions
  <2>2. index[h] \in DOMAIN solids /\ solids[index[h]] = objects[h].place
    BY DEF Indexed, RecipesMatch
  <2>3. ASSUME <<l, index[h]>> \in SkipMask(AllowedKeys) PROVE FALSE
    <3>1. PICK k \in AllowedKeys : k[2] \in DOMAIN index /\ <<l, index[h]>> = <<k[1], index[k[2]]>>
      BY <2>3 DEF SkipMask
    <3>2. k \in Links \X DOMAIN objects
      BY DEF AllowedKeys
    <3>3. k = <<k[1], k[2]>> /\ k[2] \in DOMAIN objects
      BY <3>2
    <3>4. k[1] = l /\ k[2] = h
      BY <3>1, <3>3 DEF Indexed
    <3>5. <<l, h>> \in AllowedKeys
      BY <3>3, <3>4
    <3> QED BY <1>2, <3>5, KeyMeaning
  <2> QED BY <1>2, <2>1, <2>2, <2>3 DEF ContainmentHit
<1> QED BY <1>1, <1>2 DEF ContainmentHit, InsideCollides

LEMMA NothingInside ==
  ASSUME ContractConditions, MeshLinks = {}, NEW q \in Configs
  PROVE  ~ InsideCollides(q)
BY DEF ContractConditions, InsideCollides

\* The GPU answers from a snapshot that is the environment.
LEMMA OptixRight ==
  ASSUME ContractConditions, TInv, SnapshotCurrent, NEW a \in Ask, ToOptix(a)
  PROVE  OptixHit(a) <=> Collides(a.q, a.opts)
<1>1. a.q \in Configs /\ a.opts.margin = 0 /\ ~ a.opts.distance /\ SelfGap[a.q] \in Int
  BY AskFields, Gaps DEF ToOptix
<1>2. a.opts.padding = 0
  BY <1>1, PlainOptions
<1>3. /\ DOMAIN gpu = 1 .. Len(gpu) /\ Len(gpu) \in Nat
      /\ DOMAIN objects = 0 .. Len(gpu) - 1
      /\ \A i \in DOMAIN gpu : gpu[i] = objects[i - 1]
  BY DEF ToOptix, SnapshotCurrent, TInv, TypeOK
<1>4. \A i \in DOMAIN gpu : i - 1 \in DOMAIN objects
  BY <1>3
<1>5. \A h \in DOMAIN objects : h + 1 \in DOMAIN gpu /\ gpu[h + 1] = objects[h]
  <2> SUFFICES ASSUME NEW h \in DOMAIN objects
               PROVE  h + 1 \in DOMAIN gpu /\ gpu[h + 1] = objects[h]
    OBVIOUS
  <2>1. h + 1 \in DOMAIN gpu /\ (h + 1) - 1 = h
    BY <1>3
  <2>2. gpu[h + 1] = objects[(h + 1) - 1]
    BY <1>3, <2>1
  <2> QED BY <2>1, <2>2
<1>6. \A l \in Links, h \in DOMAIN objects :
        Gap[a.q][l][objects[h].place] < 0 <=>
        Gap[a.q][l][objects[h].place] - a.opts.padding < a.opts.margin
  <2>1. \A l \in Links, h \in DOMAIN objects : Gap[a.q][l][objects[h].place] \in Int
    BY <1>1, Gaps DEF TInv, TypeOK, Object
  <2> QED BY <1>1, <1>2, <2>1
<1>7. (a.opts.self /\ SelfGap[a.q] < 0) <=>
      (a.opts.self /\ SelfGap[a.q] - 2 * a.opts.padding < a.opts.margin)
  BY <1>1, <1>2
<1>8. ASSUME NEW l \in Links, NEW i \in DOMAIN gpu,
             <<l, gpu[i].id>> \notin acm,
             Gap[a.q][l][gpu[i].place] < 0 \/ gpu[i].place \in Inside[a.q][l]
      PROVE  Collides(a.q, a.opts)
  BY <1>3, <1>4, <1>6, <1>8 DEF Collides
<1>9. ASSUME NEW l \in Links, NEW h \in DOMAIN objects,
             <<l, objects[h].id>> \notin acm,
             \/ Gap[a.q][l][objects[h].place] - a.opts.padding < a.opts.margin
             \/ objects[h].place \in Inside[a.q][l]
      PROVE  OptixHit(a)
  BY <1>5, <1>6, <1>9 DEF OptixHit
<1>10. ASSUME OptixHit(a) PROVE Collides(a.q, a.opts)
  BY <1>7, <1>8, <1>10 DEF OptixHit, Collides
<1>11. ASSUME Collides(a.q, a.opts) PROVE OptixHit(a)
  BY <1>7, <1>9, <1>11 DEF OptixHit, Collides
<1> QED BY <1>10, <1>11

-------------------------------------------------------------------------------
\* Edits find every thread idle.  Each marks the tester and the snapshot out of
\* date, or changes nothing they were built from.
LEMMA EditSafe ==
  ASSUME TInv, SInv, Edit
  PROVE  SInv'
<1>1. Quiet /\ UNCHANGED pc
  BY DEF Edit, AddObject, RemoveObject, MoveObject, SetAcm
<1>2. \A t \in Threads : pc'[t] = "idle"
  BY <1>1 DEF Quiet
<1>3. Exclusive' /\ \A t \in Threads : ThreadOK(t)'
  <2>1. \A t \in Threads : ThreadOK(t)'
    BY <1>2 DEF ThreadOK, NoTester, Rebuilding, Ready, Masked, Surfaced, Answered
  <2> QED BY <1>2, <2>1 DEF Exclusive
<1>4. RecipesMatch /\ TesterOK /\ SnapshotCurrent
  BY DEF SInv
<1>5. RecipesMatch' /\ TesterOK' /\ SnapshotCurrent'
  <2>1. ASSUME NEW id \in Ids, NEW p \in Places, AddObject(id, p)
        PROVE  RecipesMatch' /\ TesterOK' /\ SnapshotCurrent'
    BY <1>4, <2>1 DEF AddObject, RecipesMatch, TesterOK, SnapshotCurrent
  <2>2. ASSUME NEW h \in 0 .. nextHandle - 1, RemoveObject(h)
        PROVE  RecipesMatch' /\ TesterOK' /\ SnapshotCurrent'
    <3>1. CASE h \in DOMAIN objects
      BY <1>4, <2>2, <3>1 DEF RemoveObject, RecipesMatch, TesterOK, SnapshotCurrent
    <3>2. CASE h \notin DOMAIN objects
      BY <1>4, <2>2, <3>2 DEF RemoveObject, RecipesMatch, TesterOK, SnapshotCurrent, Indexed
    <3> QED BY <3>1, <3>2
  <2>3. ASSUME NEW h \in 0 .. nextHandle - 1, NEW p \in Places, MoveObject(h, p)
        PROVE  RecipesMatch' /\ TesterOK' /\ SnapshotCurrent'
    <3>1. CASE h \in DOMAIN objects
      <4>1. /\ objects' = [objects EXCEPT ![h] = [id |-> @.id, place |-> p]]
            /\ recipe' = [recipe EXCEPT ![h] = p] /\ dirty' = TRUE /\ stale' = TRUE
        BY <2>3, <3>1 DEF MoveObject
      <4>2. RecipesMatch'
        BY <1>4, <3>1, <4>1 DEF RecipesMatch
      <4> QED BY <4>1, <4>2 DEF TesterOK, SnapshotCurrent
    <3>2. CASE h \notin DOMAIN objects
      BY <1>4, <2>3, <3>2 DEF MoveObject, RecipesMatch, TesterOK, SnapshotCurrent, Indexed
    <3> QED BY <3>1, <3>2
  <2>4. ASSUME NEW m \in Acms, SetAcm(m)
        PROVE  RecipesMatch' /\ TesterOK' /\ SnapshotCurrent'
    BY <1>4, <2>4 DEF SetAcm, RecipesMatch, TesterOK, SnapshotCurrent, Indexed, tester
  <2> QED BY <2>1, <2>2, <2>3, <2>4 DEF Edit
<1> QED BY <1>3, <1>5 DEF SInv

\* A step of a query leaves the environment alone.
LEMMA SameScene ==
  ASSUME UNCHANGED scene
  PROVE  /\ SnapshotCurrent => SnapshotCurrent'
         /\ RecipesMatch => RecipesMatch'
         /\ \A q, o : Collides(q, o)' <=> Collides(q, o)
BY DEF scene, SnapshotCurrent, RecipesMatch, Collides

\* A thread at the tester is the only one in a call.
LEMMA Alone ==
  ASSUME SInv, NEW t \in Threads, pc[t] \in {"ensure", "rebuild", "publish", "contain"}
  PROVE  MeshLinks # {} /\ \A u \in Threads \ {t} : pc[u] = "idle"
<1>1. MeshLinks # {}
  BY DEF SInv, ThreadOK, NoTester
<1> QED BY <1>1 DEF SInv, Exclusive

\* A thread whose own state, scene and tester stay keeps what it claims.
LEMMA Elsewhere ==
  ASSUME NEW u, ThreadOK(u), UNCHANGED <<scene, tester>>, pc'[u] = pc[u],
         ask'[u] = ask[u], todo'[u] = todo[u], built'[u] = built[u],
         keys'[u] = keys[u], skip'[u] = skip[u], hit'[u] = hit[u]
  PROVE  ThreadOK(u)'
<1>1. /\ UNCHANGED <<objects, recipe, acm, dirty, solids, index>>
  BY DEF scene, tester
<1>2. NoTester(u)' /\ Ready(u)'
  BY <1>1 DEF ThreadOK, NoTester, Ready
<1>3. Rebuilding(u)'
  BY <1>1 DEF ThreadOK, Rebuilding, Indexed
<1>4. Masked(u)'
  BY <1>1 DEF ThreadOK, Masked, AllowedKeys, SkipMask, DoContainment
<1>5. Surfaced(u)'
  BY <1>1 DEF ThreadOK, Surfaced, SurfaceHit, SelfHit
<1>6. Answered(u)'
  BY <1>1 DEF ThreadOK, Answered, Collides
<1> QED BY <1>2, <1>3, <1>4, <1>5, <1>6 DEF ThreadOK

\* Steps that leave the tester alone.
LEMMA CallSafe ==
  ASSUME ContractConditions, TInv, SInv, NEW t \in Threads, NEW a \in Ask, Query(t, a)
  PROVE  SInv'
<1>1. /\ pc[t] = "idle" /\ UNCHANGED <<scene, tester, todo, built, keys, skip>>
      /\ ask' = [ask EXCEPT ![t] = a]
      /\ Serial => Quiet
  BY DEF Query
<1>2. /\ pc \in [Threads -> PC] /\ ask \in [Threads -> Ask] /\ hit \in [Threads -> BOOLEAN]
  BY DEF TInv, TypeOK
<1>3. pc'[t] \in {"return", "ensure", "resolve"}
  BY <1>2 DEF Query, Goto
<1>4. \A u \in Threads \ {t} :
        ask'[u] = ask[u] /\ pc'[u] = pc[u] /\ hit'[u] = hit[u]
  BY <1>1, <1>2 DEF Query, Goto
<1>5. Exclusive'
  <2>1. MeshLinks # {} => \A u \in Threads : pc[u] = "idle"
    BY <1>1 DEF ContractConditions, Quiet
  <2> QED BY <1>4, <2>1 DEF Exclusive
<1>6. ThreadOK(t)'
  <2>1. pc'[t] = "ensure" => MeshLinks # {}
    BY <1>2 DEF Query, Goto, DoContainment
  <2>2. pc'[t] = "resolve" => MeshLinks = {}
    BY <1>2 DEF Query, Goto, DoContainment
  <2>3. NoTester(t)' /\ Rebuilding(t)' /\ Ready(t)' /\ Masked(t)' /\ Surfaced(t)'
    BY <1>3, <2>1, <2>2 DEF NoTester, Rebuilding, Ready, Masked, Surfaced
  <2>4. Answered(t)'
    <3>1. ASSUME pc'[t] = "return" PROVE hit'[t] <=> Collides(a.q, a.opts)
      <4>1. ToOptix(a) /\ hit'[t] = OptixHit(a)
        BY <1>2, <3>1 DEF Query, Goto
      <4> QED BY <4>1, OptixRight DEF SInv
    <3>2. ask'[t] = a
      BY <1>1, <1>2
    <3>3. Collides(ask[t].q, ask[t].opts)' <=> Collides(a.q, a.opts)
      BY <1>1, <3>2 DEF scene, Collides
    <3> QED BY <3>1, <3>3 DEF Answered
  <2> QED BY <2>3, <2>4 DEF ThreadOK
<1>7. \A u \in Threads \ {t} : ThreadOK(u)'
  BY <1>1, <1>4, Elsewhere DEF SInv
<1>8. RecipesMatch' /\ TesterOK' /\ SnapshotCurrent'
  BY <1>1 DEF SInv, scene, tester, RecipesMatch, TesterOK, Indexed, SnapshotCurrent
<1> QED BY <1>5, <1>6, <1>7, <1>8 DEF SInv

\* Steps of a call past the tester: scene and tester stay, only t moves on.
LEMMA MoveOnSafe ==
  ASSUME TInv, SInv, NEW t \in Threads, UNCHANGED <<scene, tester>>, pc[t] # "idle",
         ThreadOK(t)',
         \A u \in Threads \ {t} :
           /\ pc'[u] = pc[u] /\ ask'[u] = ask[u] /\ todo'[u] = todo[u] /\ built'[u] = built[u]
           /\ keys'[u] = keys[u] /\ skip'[u] = skip[u] /\ hit'[u] = hit[u]
  PROVE  SInv'
<1>1. Exclusive'
  BY DEF SInv, Exclusive
<1>2. \A u \in Threads \ {t} : ThreadOK(u)'
  BY Elsewhere DEF SInv
<1>3. RecipesMatch' /\ TesterOK' /\ SnapshotCurrent'
  BY DEF SInv, scene, tester, RecipesMatch, TesterOK, Indexed, SnapshotCurrent
<1> QED BY <1>1, <1>2, <1>3 DEF SInv

LEMMA ResolveSafe == ASSUME TInv, SInv, NEW t \in Threads, Resolve(t) PROVE SInv'
<1>1. /\ pc[t] = "resolve" /\ UNCHANGED <<scene, tester, ask, todo, built, hit>>
      /\ pc' = [pc EXCEPT ![t] = "judge"]
      /\ keys' = [keys EXCEPT ![t] = AllowedKeys]
      /\ skip' = [skip EXCEPT ![t] = IF DoContainment THEN SkipMask(AllowedKeys) ELSE {}]
  BY DEF Resolve, Goto
<1>2. t \in DOMAIN pc /\ t \in DOMAIN keys /\ t \in DOMAIN skip
  BY DEF TInv, TypeOK
<1>3. pc'[t] = "judge"
  BY <1>1, <1>2
<1>4. AllowedKeys' = AllowedKeys /\ SkipMask(AllowedKeys)' = SkipMask(AllowedKeys)
  BY <1>1 DEF scene, tester, AllowedKeys, SkipMask
<1>5. Masked(t)'
  BY <1>1, <1>2, <1>4 DEF Masked, DoContainment
<1>6. MeshLinks # {} => ~ dirty'
  BY <1>1 DEF SInv, ThreadOK, Ready, tester
<1>7. ThreadOK(t)'
  BY <1>3, <1>5, <1>6 DEF ThreadOK, NoTester, Rebuilding, Ready, Surfaced, Answered
<1>8. \A u \in Threads \ {t} : pc'[u] = pc[u] /\ keys'[u] = keys[u] /\ skip'[u] = skip[u]
  BY <1>1 DEF TInv, TypeOK
<1> QED BY <1>1, <1>7, <1>8, MoveOnSafe

LEMMA JudgeSafe ==
  ASSUME ContractConditions, TInv, SInv, NEW t \in Threads, Judge(t)
  PROVE  SInv'
<1>1. /\ pc[t] = "judge" /\ UNCHANGED <<scene, tester, ask, todo, built, keys, skip>>
      /\ hit' = [hit EXCEPT ![t] = SurfaceHit(ask[t], keys[t])]
      /\ pc' = [pc EXCEPT ![t] = IF ~ hit'[t] /\ DoContainment THEN "contain" ELSE "return"]
  BY DEF Judge, Goto
<1>2. t \in DOMAIN pc /\ t \in DOMAIN hit /\ ask[t] \in Ask
  BY DEF TInv, TypeOK
<1>3. /\ keys[t] = AllowedKeys
      /\ MeshLinks # {} => ~ dirty
      /\ skip[t] = IF DoContainment THEN SkipMask(AllowedKeys) ELSE {}
  BY <1>1 DEF SInv, ThreadOK, Masked, Ready
<1>4. hit'[t] <=> SurfaceHit(ask[t], keys[t])
  BY <1>1, <1>2
<1>5. SurfaceHit(ask[t], keys[t]) <=> SurfaceCollides(ask[t].q, ask[t].opts)
  BY <1>2, <1>3, SurfaceRight
<1>6. /\ AllowedKeys' = AllowedKeys /\ SkipMask(AllowedKeys)' = SkipMask(AllowedKeys)
      /\ SurfaceHit(ask[t], keys[t])' <=> SurfaceHit(ask[t], keys[t])
      /\ Collides(ask[t].q, ask[t].opts)' = Collides(ask[t].q, ask[t].opts)
  BY <1>1 DEF scene, tester, AllowedKeys, SkipMask, SurfaceHit, SelfHit, Collides
<1>7. ASSUME pc'[t] = "contain" PROVE ThreadOK(t)'
  <2>1. ~ hit'[t] /\ MeshLinks # {} /\ ~ dirty'
    BY <1>1, <1>2, <1>3, <1>7 DEF DoContainment, tester
  <2>2. Masked(t)'
    BY <1>1, <1>3, <1>6 DEF Masked, DoContainment
  <2>3. Surfaced(t)'
    BY <1>4, <1>6, <2>1 DEF Surfaced
  <2> QED BY <1>7, <2>1, <2>2, <2>3 DEF ThreadOK, NoTester, Rebuilding, Ready, Answered
<1>8. ASSUME pc'[t] = "return" PROVE ThreadOK(t)'
  <2>1. hit'[t] \/ MeshLinks = {}
    BY <1>1, <1>2, <1>8 DEF DoContainment
  <2>2. ask[t].q \in Configs
    BY <1>2, AskFields
  <2>3. hit'[t] <=> Collides(ask[t].q, ask[t].opts)
    <3>1. MeshLinks = {} => ~ InsideCollides(ask[t].q)
      BY <2>2, NothingInside
    <3> QED BY <1>4, <1>5, <2>1, <3>1, CollidesSplit
  <2>4. Answered(t)'
    BY <1>1, <1>6, <2>3 DEF Answered
  <2> QED BY <1>8, <2>4 DEF ThreadOK, NoTester, Rebuilding, Ready, Masked, Surfaced
<1>9. pc'[t] \in {"contain", "return"}
  BY <1>1, <1>2
<1>10. \A u \in Threads \ {t} : pc'[u] = pc[u] /\ hit'[u] = hit[u]
  BY <1>1 DEF TInv, TypeOK
<1> QED BY <1>1, <1>7, <1>8, <1>9, <1>10, MoveOnSafe

LEMMA ContainSafe ==
  ASSUME ContractConditions, TInv, SInv, NEW t \in Threads, Contain(t)
  PROVE  SInv'
<1>1. /\ pc[t] = "contain" /\ UNCHANGED <<scene, tester, ask, todo, built, keys, skip>>
      /\ hit' = [hit EXCEPT ![t] = ContainmentHit(ask[t].q, skip[t])]
      /\ pc' = [pc EXCEPT ![t] = "return"]
  BY DEF Contain, Goto
<1>2. t \in DOMAIN pc /\ t \in DOMAIN hit /\ ask[t] \in Ask
  BY DEF TInv, TypeOK
<1>3. MeshLinks # {}
  BY <1>1, Alone
<1>4. /\ keys[t] = AllowedKeys /\ skip[t] = SkipMask(AllowedKeys) /\ ~ dirty
      /\ ~ SurfaceHit(ask[t], AllowedKeys)
  BY <1>1, <1>3 DEF SInv, ThreadOK, Masked, Ready, Surfaced, DoContainment
<1>5. Indexed(solids, DOMAIN objects) /\ RecipesMatch
  BY <1>4 DEF SInv, TesterOK
<1>6. ~ SurfaceCollides(ask[t].q, ask[t].opts)
  BY <1>2, <1>4, SurfaceRight
<1>7. ContainmentHit(ask[t].q, SkipMask(AllowedKeys)) <=> InsideCollides(ask[t].q)
  BY <1>2, <1>5, AskFields, ContainmentRight
<1>8. hit'[t] <=> Collides(ask[t].q, ask[t].opts)
  BY <1>1, <1>2, <1>4, <1>6, <1>7, CollidesSplit
<1>9. Collides(ask[t].q, ask[t].opts)' = Collides(ask[t].q, ask[t].opts)
  BY <1>1 DEF scene, Collides
<1>10. pc'[t] = "return"
  BY <1>1, <1>2
<1>11. Answered(t)'
  BY <1>1, <1>8, <1>9 DEF Answered
<1>12. ThreadOK(t)'
  BY <1>10, <1>11 DEF ThreadOK, NoTester, Rebuilding, Ready, Masked, Surfaced
<1>13. \A u \in Threads \ {t} : pc'[u] = pc[u] /\ hit'[u] = hit[u]
  BY <1>1 DEF TInv, TypeOK
<1> QED BY <1>1, <1>12, <1>13, MoveOnSafe

LEMMA ReturnSafe == ASSUME TInv, SInv, NEW t \in Threads, Return(t) PROVE SInv'
<1>1. pc[t] = "return" /\ pc' = [pc EXCEPT ![t] = "idle"] /\ UNCHANGED <<scene, tester>>
  BY DEF Return, Goto
<1>2. pc'[t] = "idle"
  BY <1>1 DEF TInv, TypeOK
<1>3. ThreadOK(t)'
  BY <1>2 DEF ThreadOK, NoTester, Rebuilding, Ready, Masked, Surfaced, Answered
<1>4. \A u \in Threads \ {t} :
        /\ pc'[u] = pc[u] /\ ask'[u] = ask[u] /\ todo'[u] = todo[u] /\ built'[u] = built[u]
        /\ keys'[u] = keys[u] /\ skip'[u] = skip[u] /\ hit'[u] = hit[u]
  BY DEF Return, Goto, TInv, TypeOK
<1> QED BY <1>1, <1>3, <1>4, MoveOnSafe

\* Steps at the tester: every other thread is idle.
LEMMA AtTester ==
  ASSUME TInv, SInv, NEW t \in Threads, pc[t] \in {"ensure", "rebuild", "publish"},
         NEW where \in PC, Goto(t, where), UNCHANGED scene, TesterOK', ThreadOK(t)'
  PROVE  SInv'
<1>1. \A u \in Threads \ {t} : pc[u] = "idle"
  BY Alone
<1>2. \A u \in Threads \ {t} : pc'[u] = "idle"
  BY <1>1 DEF Goto, TInv, TypeOK
<1>3. Exclusive'
  BY <1>2 DEF Exclusive
<1>4. \A u \in Threads \ {t} : ThreadOK(u)'
  BY <1>2 DEF ThreadOK, NoTester, Rebuilding, Ready, Masked, Surfaced, Answered
<1>5. RecipesMatch' /\ SnapshotCurrent'
  BY DEF SInv, scene, RecipesMatch, SnapshotCurrent
<1> QED BY <1>3, <1>4, <1>5 DEF SInv

LEMMA TesterSafe ==
  ASSUME TInv, SInv, NEW t \in Threads,
         Ensured(t) \/ BeginRebuild(t) \/ Collect(t) \/ Replace(t) \/ Publish(t)
  PROVE  SInv'
<1> USE DEF PC
<1>1. /\ t \in DOMAIN pc /\ t \in DOMAIN todo /\ t \in DOMAIN built
      /\ built[t] \in Seq(Places) /\ todo[t] \subseteq DOMAIN objects
  BY DEF TInv, TypeOK, TodoOK
<1>2. pc[t] \in {"ensure", "rebuild", "publish"} => MeshLinks # {}
  BY Alone
<1>3. /\ TesterOK /\ RecipesMatch
      /\ pc[t] \in {"rebuild", "publish"} =>
           dirty /\ Indexed(built[t], DOMAIN objects \ todo[t])
  BY DEF SInv, ThreadOK, Rebuilding
<1>4. CASE Ensured(t)
  <2>1. pc'[t] = "resolve" /\ MeshLinks # {}
    BY <1>1, <1>2, <1>4 DEF Ensured, Goto
  <2>2. UNCHANGED <<objects, recipe, dirty, solids, index>>
    BY <1>4 DEF Ensured, scene, tester
  <2>3. ThreadOK(t)'
    BY <1>4, <2>1, <2>2 DEF Ensured, ThreadOK, NoTester, Rebuilding, Ready, Masked, Surfaced, Answered
  <2>4. TesterOK'
    BY <1>3, <2>2 DEF TesterOK, Indexed
  <2> QED BY <1>4, <2>3, <2>4, AtTester DEF Ensured
<1>5. CASE BeginRebuild(t)
  <2>1. /\ pc'[t] = "rebuild" /\ MeshLinks # {} /\ dirty' /\ index' = <<>>
        /\ built'[t] = <<>> /\ todo'[t] = DOMAIN objects'
    BY <1>1, <1>2, <1>3, <1>5 DEF BeginRebuild, Goto, scene, RecipesMatch
  <2>2. Rebuilding(t)'
    BY <2>1 DEF Rebuilding, Indexed
  <2>3. ThreadOK(t)'
    BY <2>1, <2>2 DEF ThreadOK, NoTester, Ready, Masked, Surfaced, Answered
  <2>4. TesterOK'
    BY <2>1 DEF TesterOK
  <2> QED BY <1>5, <2>3, <2>4, AtTester DEF BeginRebuild
<1>6. CASE Collect(t)
  <2>1. PICK h \in todo[t] :
          /\ index' = [k \in DOMAIN index \cup {h} |->
                         IF k = h THEN Len(built[t]) + 1 ELSE index[k]]
          /\ built' = [built EXCEPT ![t] = Append(@, recipe[h])]
          /\ todo' = [todo EXCEPT ![t] = @ \ {h}]
    BY <1>6 DEF Collect
  <2>2. /\ pc[t] = "rebuild" /\ UNCHANGED <<scene, dirty, solids, pc>>
        /\ MeshLinks # {} /\ dirty
    BY <1>2, <1>3, <1>6 DEF Collect
  <2>3. /\ built'[t] = Append(built[t], recipe[h]) /\ todo'[t] = todo[t] \ {h}
        /\ UNCHANGED <<objects, recipe>>
    BY <1>1, <2>1, <2>2 DEF scene
  <2>4. Indexed(built[t], DOMAIN objects \ todo[t])
    BY <1>3, <2>2
  <2>5. Indexed(built[t], DOMAIN objects \ todo[t])' 
    <3> DEFINE s == built[t]
               n == Len(built[t])
               D == DOMAIN objects \ todo[t]
    <3>1. /\ n \in Nat /\ DOMAIN s = 1 .. n
          /\ built'[t] = Append(s, recipe[h])
          /\ DOMAIN built'[t] = 1 .. n + 1 /\ built'[t][n + 1] = recipe[h]
          /\ \A i \in 1 .. n : built'[t][i] = s[i]
      <4>1. recipe[h] \in Places
        BY <1>1 DEF TInv, TypeOK
      <4> QED BY <1>1, <2>3, <4>1
    <3>2. DOMAIN objects' \ todo'[t] = D \cup {h} /\ h \notin D
      BY <1>1, <2>3
    <3>3. /\ DOMAIN index' = D \cup {h} /\ index'[h] = n + 1
          /\ \A k \in D : index'[k] = index[k]
      BY <2>1, <2>4, <3>2 DEF Indexed
    <3>4. \A k \in D : index[k] \in 1 .. n /\ s[index[k]] = recipe[k]
      BY <2>4, <3>1 DEF Indexed
    <3>5. \A i \in 1 .. n : \E k \in D : index[k] = i
      BY <2>4, <3>1 DEF Indexed
    <3>6. \A k, j \in D : index[k] = index[j] => k = j
      BY <2>4 DEF Indexed
    <3>7. \A i \in 1 .. n : i \in 1 .. n + 1 /\ i # n + 1
      BY <3>1
    <3>8. \A i \in 1 .. n + 1 : i \in 1 .. n \/ i = n + 1
      BY <3>1
    <3>9. n + 1 \in 1 .. n + 1
      BY <3>1
    <3> HIDE DEF s, n, D
    <3>10. \A k \in D \cup {h} :
             index'[k] \in DOMAIN built'[t] /\ built'[t][index'[k]] = recipe'[k]
      BY <2>3, <3>1, <3>3, <3>4, <3>7, <3>9
    <3>11. \A i \in DOMAIN built'[t] : \E k \in D \cup {h} : index'[k] = i
      BY <3>1, <3>3, <3>5, <3>8
    <3>12. \A k, j \in D \cup {h} : index'[k] = index'[j] => k = j
      BY <3>3, <3>4, <3>6, <3>7
    <3> QED BY <3>2, <3>3, <3>10, <3>11, <3>12 DEF Indexed
  <2>6. Rebuilding(t)'
    BY <2>2, <2>5 DEF Rebuilding
  <2>7. ThreadOK(t)'
    BY <2>2, <2>6 DEF ThreadOK, NoTester, Ready, Masked, Surfaced, Answered
  <2>8. TesterOK'
    BY <2>2 DEF TesterOK
  <2>9. Goto(t, "rebuild")
    BY <1>1, <2>2 DEF Goto, TInv, TypeOK
  <2> QED BY <2>2, <2>7, <2>8, <2>9, AtTester
<1>7. CASE Replace(t)
  <2>1. /\ pc[t] = "rebuild" /\ pc'[t] = "publish" /\ MeshLinks # {} /\ dirty'
        /\ UNCHANGED <<objects, recipe, index, todo, built>>
    BY <1>1, <1>2, <1>3, <1>7 DEF Replace, Goto, scene, local
  <2>2. Rebuilding(t)'
    BY <1>3, <2>1 DEF Rebuilding, Indexed
  <2>3. ThreadOK(t)'
    BY <2>1, <2>2 DEF ThreadOK, NoTester, Ready, Masked, Surfaced, Answered
  <2>4. TesterOK'
    BY <2>1 DEF TesterOK
  <2> QED BY <1>7, <2>3, <2>4, AtTester DEF Replace
<1>8. CASE Publish(t)
  <2>1. /\ pc[t] = "publish" /\ pc'[t] = "resolve" /\ MeshLinks # {}
        /\ solids' = built[t] /\ dirty' = FALSE
        /\ UNCHANGED <<objects, recipe, index>>
    BY <1>1, <1>2, <1>8 DEF Publish, Goto, scene
  <2>2. todo[t] = {}
    BY <2>1 DEF TInv, TodoOK
  <2>3. TesterOK'
    BY <1>3, <2>1, <2>2 DEF TesterOK, Indexed
  <2>4. ThreadOK(t)'
    BY <2>1 DEF ThreadOK, NoTester, Rebuilding, Ready, Masked, Surfaced, Answered
  <2> QED BY <1>8, <2>3, <2>4, AtTester DEF Publish
<1> QED BY <1>4, <1>5, <1>6, <1>7, <1>8

-------------------------------------------------------------------------------
LEMMA SafeInvariant == ASSUME ContractConditions PROVE Spec => [](TInv /\ SInv)
<1>1. Init => TInv /\ SInv
  BY InitType, InitSafe
<1>2. TInv /\ SInv /\ [Next]_vars => (TInv /\ SInv)'
  <2> SUFFICES ASSUME TInv, SInv, [Next]_vars PROVE TInv' /\ SInv'
    OBVIOUS
  <2>1. TInv'
    <3>1. CASE UNCHANGED vars
      BY <3>1 DEF vars, scene, tester, local, TInv, TypeOK, TodoOK
    <3> QED BY <3>1, EditType, StepType DEF Next
  <2>2. SInv'
    <3>1. CASE UNCHANGED vars
      <4>1. \A u \in Threads : ThreadOK(u)'
        BY <3>1, Elsewhere DEF vars, local, SInv
      <4>2. Exclusive' /\ RecipesMatch' /\ TesterOK' /\ SnapshotCurrent'
        BY <3>1 DEF vars, scene, tester, SInv, Exclusive, RecipesMatch, TesterOK, Indexed,
                    SnapshotCurrent
      <4> QED BY <4>1, <4>2 DEF SInv
    <3>2. ASSUME NEW t \in Threads, Step(t) PROVE SInv'
      BY <3>2, CallSafe, TesterSafe, ResolveSafe, JudgeSafe, ContainSafe, ReturnSafe DEF Step
    <3> QED BY <3>1, <3>2, EditSafe DEF Next
  <2> QED BY <2>1, <2>2
<1> QED BY <1>1, <1>2, PTL DEF Spec

\* Under the conditions every answer, of either backend, is that of the semantic
\* contract for the environment and the ACM at the time (FclScene::query_batch).
THEOREM AnswersAreCurrent == ASSUME ContractConditions PROVE Spec => []AnswersCurrent
<1>1. SInv => AnswersCurrent
  BY DEF SInv, ThreadOK, Answered, AnswersCurrent
<1> QED BY <1>1, SafeInvariant, PTL

\* Under the conditions a containment tester not marked dirty was built from the
\* objects of the scene (FclScene::ensure_containment).
THEOREM ContainmentIsCurrent == ASSUME ContractConditions PROVE Spec => []ContainmentCurrent
<1>1. SInv => ContainmentCurrent
  BY DEF SInv, TesterOK, RecipesMatch, Indexed, ContainmentCurrent
<1> QED BY <1>1, SafeInvariant, PTL

\* While batches may go to the GPU its snapshot is the environment (HybridScene).
THEOREM SnapshotIsCurrent == ASSUME ContractConditions PROVE Spec => []SnapshotCurrent
<1>1. SInv => SnapshotCurrent
  BY DEF SInv
<1> QED BY <1>1, SafeInvariant, PTL
===============================================================================
