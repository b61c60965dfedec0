---------------------------- MODULE CollisionScene ----------------------------
(***************************************************************************)
(* The collision scenes behind make_static_scene                           *)
(* (src/src/collision/fcl_scene.cpp): the editable FCL scene with its      *)
(* lazily rebuilt containment tester, and the hybrid scene that routes a   *)
(* batch to a static OptiX snapshot or to FCL.  Geometry is a constant:    *)
(* a configuration, a link and a place (an object's shape and pose) have a *)
(* gap between their surfaces, and a link's interior point may lie inside  *)
(* the object.  Edits need exclusive access; queries are const and several *)
(* threads may run them at once, each with a workspace of its own.  A      *)
(* batch is one configuration and the fact whether it is a large one.      *)
(***************************************************************************)
EXTENDS Integers, Sequences

CONSTANTS
  Threads,       \* querying threads
  Serial,        \* callers keep at most one query in flight
  Links,         \* robot links with collision geometry
  MeshLinks,     \* those whose geometry is a mesh
  Ids,           \* caller-supplied object ids, which may repeat
  Places,        \* shapes and poses of environment objects
  Configs,       \* joint configurations
  Gap,           \* Gap[q][l][p]: what narrow_distance measures, negative for crossing surfaces
  Inside,        \* Inside[q][l]: places whose solid contains the interior point of l
  SelfGap,       \* SelfGap[q]: smallest gap of two links that may not touch
  Options,       \* QueryOptions in use: [distance, margin, padding, self]
  Acms,          \* allowed collision matrices, as sets of <<link, id>>
  Environments,  \* initial scenes: sequences of [id, place]
  MaxHandles     \* bound on the handles ever given out

ASSUME SceneAssumption ==
  /\ Serial \in BOOLEAN
  /\ MeshLinks \subseteq Links
  /\ Gap \in [Configs -> [Links -> [Places -> Int]]]
  /\ Inside \in [Configs -> [Links -> SUBSET Places]]
  /\ SelfGap \in [Configs -> Int]
  /\ Configs # {} /\ Options # {}
  /\ Options \subseteq [distance : BOOLEAN, margin : Nat, padding : Nat, self : BOOLEAN]
  /\ Acms \subseteq SUBSET (Links \X Ids)
  /\ Environments \subseteq Seq([id : Ids, place : Places])
  /\ MaxHandles \in Nat

VARIABLES
  hybrid,      \* the scene is a HybridScene
  objects,     \* env_objects_: handle -> [id, place]
  recipe,      \* env_recipe_: handle -> place
  nextHandle,  \* next_handle_
  dirty,       \* containment_dirty_
  solids,      \* containment_: the places it was built from, in build order
  index,       \* containment_index_by_handle_: handle -> position in solids
  gpu,         \* what the OptiX scene was built from
  stale,       \* optix_stale_
  acm,         \* the robot instance's link-object pairs that may touch
  pc,          \* where a thread stands in query_batch
  ask,         \* its arguments
  todo,        \* handles its rebuild has not visited yet
  built,       \* the places its rebuild has collected
  keys,        \* EnvAcm of its batch: <<link, handle>> that may touch
  skip,        \* contain_skip of its batch: <<link, position>> to leave out
  hit          \* its answer

scene == <<hybrid, objects, recipe, nextHandle, gpu, stale, acm>>
tester == <<dirty, solids, index>>
local == <<ask, todo, built, keys, skip, hit>>
vars == <<scene, tester, pc, local>>

Object == [id : Ids, place : Places]
Ask == [q : Configs, opts : Options, large : BOOLEAN]

\* The arguments of a thread that is not in a call.
NoAsk == CHOOSE a \in Ask : TRUE

DoContainment == MeshLinks # {}

\* Several threads are inside query_batch at no time when callers are serial.
Quiet == \A t \in Threads : pc[t] = "idle"

-------------------------------------------------------------------------------
\* Decisions of one query.

\* The batch goes to the GPU scene.
ToOptix(a) ==
  hybrid /\ ~ stale /\ ~ a.opts.distance /\ a.opts.margin = 0 /\ a.large

SelfHit(q, o) ==
  o.self /\ IF o.distance \/ o.margin > 0
            THEN SelfGap[q] - 2 * o.padding < o.margin
            ELSE SelfGap[q] < 0

\* boolean_query, and distance_query when a distance or a margin is wanted.
SurfaceHit(a, allowed) ==
  \/ SelfHit(a.q, a.opts)
  \/ \E l \in Links, h \in DOMAIN objects :
       /\ <<l, h>> \notin allowed
       /\ IF a.opts.distance \/ a.opts.margin > 0
          THEN Gap[a.q][l][objects[h].place] - a.opts.padding < a.opts.margin
          ELSE Gap[a.q][l][objects[h].place] < 0

\* OptixScene::query_batch over its own copy of the environment: surface rays, the
\* interior point of every link, and robot-vs-self on the CPU.
OptixHit(a) ==
  \/ a.opts.self /\ SelfGap[a.q] < 0
  \/ \E l \in Links, i \in DOMAIN gpu :
       /\ <<l, gpu[i].id>> \notin acm
       /\ Gap[a.q][l][gpu[i].place] < 0 \/ gpu[i].place \in Inside[a.q][l]

\* compute_env_acm: link-object pairs of the ACM, by handle.
AllowedKeys == {k \in Links \X DOMAIN objects : <<k[1], objects[k[2]].id>> \in acm}

\* Mutant: the mask is indexed by handle.
SkipMask_ByHandle(allowed) ==
  {<<k[1], k[2] + 1>> : k \in {k \in allowed : k[2] \in DOMAIN index}}

\* The same pairs by position in the containment tester.
SkipMask(allowed) ==
  {<<k[1], index[k[2]]>> : k \in {k \in allowed : k[2] \in DOMAIN index}}

\* The interior point of a mesh link lies in a solid that is not masked.
ContainmentHit(q, mask) ==
  \E l \in MeshLinks, i \in DOMAIN solids :
    <<l, i>> \notin mask /\ solids[i] \in Inside[q][l]

-------------------------------------------------------------------------------
\* make_static_scene.
Init ==
  /\ hybrid \in BOOLEAN
  /\ gpu \in Environments
  /\ objects = [h \in 0 .. Len(gpu) - 1 |-> gpu[h + 1]]
  /\ recipe = [h \in 0 .. Len(gpu) - 1 |-> gpu[h + 1].place]
  /\ nextHandle = Len(gpu)
  /\ dirty = TRUE
  /\ solids = <<>>
  /\ index = <<>>
  /\ stale = FALSE
  /\ acm \in Acms
  /\ pc = [t \in Threads |-> "idle"]
  /\ ask = [t \in Threads |-> NoAsk]
  /\ todo = [t \in Threads |-> {}]
  /\ built = [t \in Threads |-> <<>>]
  /\ keys = [t \in Threads |-> {}]
  /\ skip = [t \in Threads |-> {}]
  /\ hit = [t \in Threads |-> FALSE]

\* Edits.  The FCL scene follows them; the hybrid scene stops using its snapshot.

AddObject(id, p) ==
  LET new == [id |-> id, place |-> p] IN
  /\ Quiet
  /\ nextHandle < MaxHandles
  /\ objects' = [h \in DOMAIN objects \cup {nextHandle} |->
                   IF h = nextHandle THEN new ELSE objects[h]]
  /\ recipe' = [h \in DOMAIN recipe \cup {nextHandle} |->
                  IF h = nextHandle THEN p ELSE recipe[h]]
  /\ nextHandle' = nextHandle + 1
  /\ dirty' = TRUE
  /\ stale' = TRUE
  /\ UNCHANGED <<hybrid, gpu, acm, solids, index, pc, local>>

\* Mutant: removal forgets to invalidate the containment tester.
RemoveObject_KeepsContainment(h) ==
  /\ Quiet
  /\ IF h \in DOMAIN objects
     THEN /\ objects' = [k \in DOMAIN objects \ {h} |-> objects[k]]
          /\ recipe' = [k \in DOMAIN recipe \ {h} |-> recipe[k]]
     ELSE UNCHANGED <<objects, recipe>>
  /\ stale' = TRUE
  /\ UNCHANGED <<dirty, hybrid, nextHandle, gpu, acm, solids, index, pc, local>>

\* A handle that names no object leaves the FCL scene as it is.
RemoveObject(h) ==
  /\ Quiet
  /\ IF h \in DOMAIN objects
     THEN /\ objects' = [k \in DOMAIN objects \ {h} |-> objects[k]]
          /\ recipe' = [k \in DOMAIN recipe \ {h} |-> recipe[k]]
          /\ dirty' = TRUE
     ELSE UNCHANGED <<objects, recipe, dirty>>
  /\ stale' = TRUE
  /\ UNCHANGED <<hybrid, nextHandle, gpu, acm, solids, index, pc, local>>

\* Mutant: a moved object leaves the routing as it is.
MoveObject_KeepsRouting(h, p) ==
  /\ Quiet
  /\ IF h \in DOMAIN objects
     THEN /\ objects' = [objects EXCEPT ![h] = [id |-> @.id, place |-> p]]
          /\ recipe' = [recipe EXCEPT ![h] = p]
          /\ dirty' = TRUE
     ELSE UNCHANGED <<objects, recipe, dirty>>
  /\ UNCHANGED <<stale, hybrid, nextHandle, gpu, acm, solids, index, pc, local>>

MoveObject(h, p) ==
  /\ Quiet
  /\ IF h \in DOMAIN objects
     THEN /\ objects' = [objects EXCEPT ![h] = [id |-> @.id, place |-> p]]
          /\ recipe' = [recipe EXCEPT ![h] = p]
          /\ dirty' = TRUE
     ELSE UNCHANGED <<objects, recipe, dirty>>
  /\ stale' = TRUE
  /\ UNCHANGED <<hybrid, nextHandle, gpu, acm, solids, index, pc, local>>

\* The caller edits the ACM of its RobotInstance, which every batch reads anew.
SetAcm(m) ==
  /\ Quiet
  /\ acm' = m
  /\ UNCHANGED <<hybrid, objects, recipe, nextHandle, gpu, stale, tester, pc, local>>

-------------------------------------------------------------------------------
\* query_batch, one step per access to state that other threads may touch.

Goto(t, where) == pc' = [pc EXCEPT ![t] = where]

\* The call, routed: the GPU answers from immutable data in one step.
Query(t, a) ==
  /\ pc[t] = "idle"
  /\ Serial => Quiet
  /\ ask' = [ask EXCEPT ![t] = a]
  /\ IF ToOptix(a)
     THEN /\ hit' = [hit EXCEPT ![t] = OptixHit(a)]
          /\ Goto(t, "return")
     ELSE /\ hit' = [hit EXCEPT ![t] = FALSE]
          /\ Goto(t, IF DoContainment THEN "ensure" ELSE "resolve")
  /\ UNCHANGED <<scene, tester, todo, built, keys, skip>>

\* ensure_containment: an up-to-date tester is left alone ...
Ensured(t) ==
  /\ pc[t] = "ensure"
  /\ ~ dirty
  /\ Goto(t, "resolve")
  /\ UNCHANGED <<scene, tester, local>>

\* ... and a dirty one is rebuilt: the index is cleared first,
BeginRebuild(t) ==
  /\ pc[t] = "ensure"
  /\ dirty
  /\ index' = <<>>
  /\ todo' = [todo EXCEPT ![t] = DOMAIN recipe]
  /\ built' = [built EXCEPT ![t] = <<>>]
  /\ Goto(t, "rebuild")
  /\ UNCHANGED <<scene, dirty, solids, ask, keys, skip, hit>>

\* then filled object by object, in the order of the map,
Collect(t) ==
  /\ pc[t] = "rebuild"
  /\ \E h \in todo[t] :
       /\ index' = [k \in DOMAIN index \cup {h} |->
                      IF k = h THEN Len(built[t]) + 1 ELSE index[k]]
       /\ built' = [built EXCEPT ![t] = Append(@, recipe[h])]
       /\ todo' = [todo EXCEPT ![t] = @ \ {h}]
  /\ UNCHANGED <<scene, dirty, solids, pc, ask, keys, skip, hit>>

\* then the tester is replaced: its old vectors go before the new ones are in place,
Replace(t) ==
  /\ pc[t] = "rebuild"
  /\ todo[t] = {}
  /\ solids' = <<>>
  /\ Goto(t, "publish")
  /\ UNCHANGED <<scene, dirty, index, local>>

\* and last the flag is cleared.
Publish(t) ==
  /\ pc[t] = "publish"
  /\ solids' = built[t]
  /\ dirty' = FALSE
  /\ Goto(t, "resolve")
  /\ UNCHANGED <<scene, index, local>>

\* The ACM of this batch, by handle and by position in the tester.
Resolve(t) ==
  /\ pc[t] = "resolve"
  /\ keys' = [keys EXCEPT ![t] = AllowedKeys]
  /\ skip' = [skip EXCEPT ![t] = IF DoContainment THEN SkipMask(AllowedKeys) ELSE {}]
  /\ Goto(t, "judge")
  /\ UNCHANGED <<scene, tester, ask, todo, built, hit>>

Judge(t) ==
  /\ pc[t] = "judge"
  /\ hit' = [hit EXCEPT ![t] = SurfaceHit(ask[t], keys[t])]
  /\ Goto(t, IF ~ hit'[t] /\ DoContainment THEN "contain" ELSE "return")
  /\ UNCHANGED <<scene, tester, ask, todo, built, keys, skip>>

Contain(t) ==
  /\ pc[t] = "contain"
  /\ hit' = [hit EXCEPT ![t] = ContainmentHit(ask[t].q, skip[t])]
  /\ Goto(t, "return")
  /\ UNCHANGED <<scene, tester, ask, todo, built, keys, skip>>

\* The result is handed over and the locals of the call end.
Return(t) ==
  /\ pc[t] = "return"
  /\ Goto(t, "idle")
  /\ ask' = [ask EXCEPT ![t] = NoAsk]
  /\ todo' = [todo EXCEPT ![t] = {}]
  /\ built' = [built EXCEPT ![t] = <<>>]
  /\ keys' = [keys EXCEPT ![t] = {}]
  /\ skip' = [skip EXCEPT ![t] = {}]
  /\ hit' = [hit EXCEPT ![t] = FALSE]
  /\ UNCHANGED <<scene, tester>>

Edit ==
  \/ \E id \in Ids, p \in Places : AddObject(id, p)
  \/ \E h \in 0 .. nextHandle - 1 : RemoveObject(h)
  \/ \E h \in 0 .. nextHandle - 1, p \in Places : MoveObject(h, p)
  \/ \E m \in Acms : SetAcm(m)

Step(t) ==
  \/ \E a \in Ask : Query(t, a)
  \/ Ensured(t) \/ BeginRebuild(t) \/ Collect(t) \/ Replace(t) \/ Publish(t)
  \/ Resolve(t) \/ Judge(t) \/ Contain(t) \/ Return(t)

Next == Edit \/ \E t \in Threads : Step(t)

Spec == Init /\ [][Next]_vars

-------------------------------------------------------------------------------
PC == {"idle", "ensure", "rebuild", "publish", "resolve", "judge", "contain", "return"}

\* The type of a scene and of the queries in flight; in particular a handle in
\* use is one that was given out before.
TypeOK ==
  /\ hybrid \in BOOLEAN
  /\ nextHandle \in Nat
  /\ DOMAIN objects \subseteq 0 .. nextHandle - 1
  /\ objects \in [DOMAIN objects -> Object]
  /\ recipe \in [DOMAIN objects -> Places]
  /\ dirty \in BOOLEAN
  /\ solids \in Seq(Places)
  /\ index \in [DOMAIN index -> Nat]
  /\ gpu \in Seq(Object)
  /\ stale \in BOOLEAN
  /\ acm \in SUBSET (Links \X Ids)
  /\ pc \in [Threads -> PC]
  /\ ask \in [Threads -> Ask]
  /\ todo \in [Threads -> SUBSET Nat]
  /\ built \in [Threads -> Seq(Places)]
  /\ keys \in [Threads -> SUBSET (Links \X Nat)]
  /\ skip \in [Threads -> SUBSET (Links \X Nat)]
  /\ hit \in [Threads -> BOOLEAN]

\* What the semantic contract (docs/QuevedoMP-SPEC.md 4.3, ADR-012) says of a
\* configuration: an overlap of the padded robot with an object or with itself,
\* overlap meaning less than the margin, or a link inside an object.
Collides(q, o) ==
  \/ o.self /\ SelfGap[q] - 2 * o.padding < o.margin
  \/ \E l \in Links, h \in DOMAIN objects :
       /\ <<l, objects[h].id>> \notin acm
       /\ \/ Gap[q][l][objects[h].place] - o.padding < o.margin
          \/ objects[h].place \in Inside[q][l]

\* Every answer is that of the contract for the environment and the ACM as they
\* are, whichever backend gave it and however often the scene was edited.
AnswersCurrent ==
  \A t \in Threads : pc[t] = "return" => (hit[t] <=> Collides(ask[t].q, ask[t].opts))

\* A containment tester that is not marked dirty was built from the objects the
\* scene holds now, and the index leads from each handle to its solid.
ContainmentCurrent ==
  /\ DOMAIN recipe = DOMAIN objects
  /\ \A h \in DOMAIN objects : recipe[h] = objects[h].place
  /\ ~ dirty =>
       /\ DOMAIN index = DOMAIN recipe
       /\ \A h \in DOMAIN recipe : index[h] \in DOMAIN solids /\ solids[index[h]] = recipe[h]
       /\ \A i \in DOMAIN solids : \E h \in DOMAIN recipe : index[h] = i
       /\ \A h, k \in DOMAIN recipe : index[h] = index[k] => h = k

\* As long as batches may be routed to the GPU, its snapshot is the environment.
SnapshotCurrent ==
  hybrid /\ ~ stale =>
    /\ DOMAIN objects = 0 .. Len(gpu) - 1
    /\ \A i \in DOMAIN gpu : gpu[i] = objects[i - 1]
===============================================================================
