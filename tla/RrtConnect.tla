------------------------------ MODULE RrtConnect ------------------------------
(***************************************************************************)
(* RrtConnectPlanner::plan (src/src/planning/rrt_connect.cpp): batched     *)
(* bidirectional RRT-Connect.  One behaviour is one call of plan().  The   *)
(* joint space is a set of configurations with a distance, a steering      *)
(* function and a number of sub-sampling steps per edge; the scene is a    *)
(* set of colliding configurations and a set of edges with a colliding     *)
(* interior sample.  The loops of plan() are steps, so that the clock can  *)
(* run out between any two of them; indices start at 1 and 0 is the code's *)
(* parent -1.                                                              *)
(***************************************************************************)
EXTENDS Integers, Sequences

CONSTANTS
  Cfg,           \* joint configurations
  Dist,          \* Dist[p][q]: squared joint-space distance
  Steer,         \* Steer[p][q]: where a step from p toward q ends
  Steps,         \* Steps[p][q]: sub-sampling steps of the edge p -> q
  Start,         \* problem.start
  Bounds,        \* configurations within the limits and Constraints::joint_bounds
  GoalLists,     \* the lists of configurations resolve_goal may return
  BatchSize,     \* PlannerParams::batch_size
  MaxIterations  \* PlannerParams::max_iterations

ASSUME RrtAssumption ==
  /\ Start \in Cfg
  /\ Bounds \subseteq Cfg
  /\ Dist \in [Cfg -> [Cfg -> Nat]]
  /\ Steer \in [Cfg -> [Cfg -> Cfg]]
  /\ Steps \in [Cfg -> [Cfg -> Nat \ {0}]]
  /\ GoalLists \subseteq Seq(Cfg)
  /\ BatchSize \in Nat
  /\ MaxIterations \in Nat

\* EdgeDiscretization::steps looks at |q - p| only.
ASSUME StepsSymmetric == \A p, q \in Cfg : Steps[p][q] = Steps[q][p]

VARIABLES
  valid,       \* validate(problem, model) found nothing wrong
  wanted,      \* goal configurations resolve_goal returned
  hits,        \* configurations in collision
  mid,         \* edges, as sets of two configurations, with a colliding interior sample
  expired,     \* the clock has passed problem.timeout
  pc,          \* where plan() stands
  probed,      \* goal configurations looked at by the feasibility probe
  goals,       \* the free ones: roots of the goal tree
  tree,        \* tree[side]: nodes in insertion order
  active,      \* the side that grows in this iteration
  iterations,  \* growth iterations begun
  grow,        \* candidate extensions of this iteration not yet judged
  added,       \* nodes added in this iteration whose bridge is not yet judged
  at,          \* at[side]: next node of build_path's walk to the root, 0 when past it
  path,        \* the path under construction, then result.path
  status       \* result.status, "none" before plan() returns

world == <<valid, wanted, hits, mid>>
search == <<probed, goals, tree, active, iterations, grow, added, at>>
vars == <<world, expired, pc, search, path, status>>

Side == {"start", "goal"}
Other(side) == IF side = "start" THEN "goal" ELSE "start"

-------------------------------------------------------------------------------
\* batch_check: what one query_batch says of an edge.

\* Edges with samples between their ends.
LongEdges == {e \in SUBSET Cfg : \E p, q \in Cfg : e = {p, q} /\ p # q /\ Steps[p][q] > 1}

\* Sample k of the edge p -> q collides.
SampleHit(p, q, k) ==
  CASE k = 0           -> p \in hits
    [] k = Steps[p][q] -> q \in hits
    [] OTHER           -> {p, q} \in mid

\* Mutant: the scan of the samples starts after the first end.
FirstContact_SkipsFirst(p, q) ==
  LET n == Steps[p][q] IN
  CHOOSE k \in 1 .. n :
    /\ k = n \/ SampleHit(p, q, k)
    /\ \A j \in 1 .. k - 1 : ~ SampleHit(p, q, j)

\* First contact in units of 1/Steps: the first colliding sample, and the last
\* one, which stands for t = 1.0, when none collides.
FirstContact(p, q) ==
  LET n == Steps[p][q] IN
  CHOOSE k \in 0 .. n :
    /\ k = n \/ SampleHit(p, q, k)
    /\ \A j \in 0 .. k - 1 : ~ SampleHit(p, q, j)

\* Mutant: a contact just before the end of the edge is let through.
Accepted_Tolerant(p, q) == FirstContact(p, q) >= Steps[p][q] - 1

\* ts[i] >= 1.0f, the test plan() applies to every answer of batch_check.
Accepted(p, q) == FirstContact(p, q) >= Steps[p][q]

\* First index at minimal distance, as the strict comparison of the scan gives.
Nearest(nodes, q) ==
  CHOOSE i \in DOMAIN nodes : \A j \in DOMAIN nodes :
    LET di == Dist[nodes[i].q][q]
        dj == Dist[nodes[j].q][q]
    IN  di < dj \/ (di = dj /\ i <= j)

\* Targets of an extension: a sample of the box, or by goal bias the other side's roots.
Targets ==
  Bounds \cup IF active = "start" THEN {goals[i] : i \in DOMAIN goals} ELSE {Start}

-------------------------------------------------------------------------------
Init ==
  /\ valid \in BOOLEAN
  /\ wanted \in GoalLists
  /\ hits \in SUBSET Cfg
  /\ mid \in SUBSET LongEdges
  /\ expired = FALSE
  /\ pc = "validate"
  /\ probed = 0
  /\ goals = <<>>
  /\ tree = [side \in Side |-> <<>>]
  /\ active = "start"
  /\ iterations = 0
  /\ grow = <<>>
  /\ added = <<>>
  /\ at = [side \in Side |-> 0]
  /\ path = <<>>
  /\ status = "none"

Finish(s) ==
  /\ pc' = "done"
  /\ status' = s

\* The wall clock passes the timeout while plan() runs.
ClockExpires ==
  /\ ~ expired
  /\ pc # "done"
  /\ expired' = TRUE
  /\ UNCHANGED <<world, pc, search, path, status>>

\* validate() gives a reason: InvalidProblem, and nothing is searched.
Reject ==
  /\ pc = "validate"
  /\ ~ valid
  /\ Finish("InvalidProblem")
  /\ UNCHANGED <<world, expired, search, path>>

\* No goal configuration, or a start the probe finds in collision.
Infeasible ==
  /\ pc = "validate"
  /\ valid
  /\ wanted = <<>> \/ Start \in hits
  /\ Finish("NoSolution")
  /\ UNCHANGED <<world, expired, search, path>>

BeginProbe ==
  /\ pc = "validate"
  /\ valid
  /\ wanted # <<>>
  /\ Start \notin hits
  /\ pc' = "probe"
  /\ UNCHANGED <<world, expired, search, path, status>>

\* Keep the goal configurations that are free.
ProbeGoal ==
  /\ pc = "probe"
  /\ probed < Len(wanted)
  /\ probed' = probed + 1
  /\ goals' = IF wanted[probed + 1] \in hits THEN goals ELSE Append(goals, wanted[probed + 1])
  /\ UNCHANGED <<world, expired, pc, tree, active, iterations, grow, added, at, path, status>>

GoalsBlocked ==
  /\ pc = "probe"
  /\ probed = Len(wanted)
  /\ goals = <<>>
  /\ Finish("NoSolution")
  /\ UNCHANGED <<world, expired, search, path>>

Root(q) == [q |-> q, parent |-> 0]

PlantTrees ==
  /\ pc = "probe"
  /\ probed = Len(wanted)
  /\ goals # <<>>
  /\ tree' = [side \in Side |->
                IF side = "start" THEN <<Root(Start)>>
                ELSE [i \in 1 .. Len(goals) |-> Root(goals[i])]]
  /\ pc' = "direct"
  /\ UNCHANGED <<world, expired, probed, goals, active, iterations, grow, added, at, path, status>>

\* The first direct edge start -> goal that is accepted is the answer.
DirectConnection ==
  /\ pc = "direct"
  /\ \E i \in DOMAIN goals :
       /\ Accepted(Start, goals[i])
       /\ \A j \in 1 .. i - 1 : ~ Accepted(Start, goals[j])
       /\ path' = <<Start, goals[i]>>
  /\ Finish("Success")
  /\ UNCHANGED <<world, expired, search>>

NoDirectConnection ==
  /\ pc = "direct"
  /\ \A i \in DOMAIN goals : ~ Accepted(Start, goals[i])
  /\ pc' = "loop"
  /\ UNCHANGED <<world, expired, search, path, status>>

\* Mutant: the iteration budget is off by one.
GrowBatch_OffByOne ==
  /\ pc = "loop"
  /\ ~ expired
  /\ iterations <= MaxIterations
  /\ iterations' = iterations + 1
  /\ grow' = <<>>
  /\ added' = <<>>
  /\ pc' = "grow"
  /\ UNCHANGED <<world, expired, probed, goals, tree, active, at, path, status>>

\* One batch of candidate extensions, all from the active tree as it is now.
GrowBatch ==
  /\ pc = "loop"
  /\ ~ expired
  /\ iterations < MaxIterations
  /\ iterations' = iterations + 1
  /\ \E target \in [1 .. BatchSize -> Targets] :
       grow' = [j \in 1 .. BatchSize |->
                  LET near == Nearest(tree[active], target[j])
                  IN  [parent |-> near, q |-> Steer[tree[active][near].q][target[j]]]]
  /\ added' = <<>>
  /\ pc' = "grow"
  /\ UNCHANGED <<world, expired, probed, goals, tree, active, at, path, status>>

\* Mutant: the index of the new node is recorded as its own parent.
KeepCandidate_OwnParent ==
  /\ pc = "grow"
  /\ grow # <<>>
  /\ LET c == Head(grow) IN
       IF Accepted(tree[active][c.parent].q, c.q)
       THEN /\ tree' = [tree EXCEPT ![active] = Append(@, [q |-> c.q, parent |-> Len(@) + 1])]
            /\ added' = Append(added, Len(tree[active]) + 1)
       ELSE UNCHANGED <<tree, added>>
  /\ grow' = Tail(grow)
  /\ UNCHANGED <<world, expired, pc, probed, goals, active, iterations, at, path, status>>

\* Add a candidate whose edge is accepted.
KeepCandidate ==
  /\ pc = "grow"
  /\ grow # <<>>
  /\ LET c == Head(grow) IN
       IF Accepted(tree[active][c.parent].q, c.q)
       THEN /\ tree' = [tree EXCEPT ![active] = Append(@, [q |-> c.q, parent |-> c.parent])]
            /\ added' = Append(added, Len(tree[active]) + 1)
       ELSE UNCHANGED <<tree, added>>
  /\ grow' = Tail(grow)
  /\ UNCHANGED <<world, expired, pc, probed, goals, active, iterations, at, path, status>>

BeginBridge ==
  /\ pc = "grow"
  /\ grow = <<>>
  /\ added # <<>>
  /\ pc' = "bridge"
  /\ UNCHANGED <<world, expired, search, path, status>>

\* Mutant: the nearest pair is taken as connected without a look at the edge.
Bridge_Unchecked ==
  /\ pc = "bridge"
  /\ added # <<>>
  /\ LET a == Head(added)
         o == Nearest(tree[Other(active)], tree[active][a].q)
     IN  at' = [side \in Side |-> IF side = active THEN a ELSE o]
  /\ pc' = "stitch"
  /\ UNCHANGED <<world, expired, probed, goals, tree, active, iterations, grow, added, path, status>>

\* The bridge from the first unjudged new node to the nearest node of the other tree.
Bridge ==
  /\ pc = "bridge"
  /\ added # <<>>
  /\ LET a == Head(added)
         o == Nearest(tree[Other(active)], tree[active][a].q)
     IN  IF Accepted(tree[active][a].q, tree[Other(active)][o].q)
         THEN /\ at' = [side \in Side |-> IF side = active THEN a ELSE o]
              /\ pc' = "stitch"
              /\ UNCHANGED added
         ELSE /\ added' = Tail(added)
              /\ UNCHANGED <<at, pc>>
  /\ UNCHANGED <<world, expired, probed, goals, tree, active, iterations, grow, path, status>>

\* Nothing was added, or no bridge is accepted: the other tree grows next.
SwapTrees ==
  /\ pc \in {"grow", "bridge"}
  /\ grow = <<>>
  /\ added = <<>>
  /\ active' = Other(active)
  /\ pc' = "loop"
  /\ UNCHANGED <<world, expired, probed, goals, tree, iterations, grow, added, at, path, status>>

\* build_path: the start side is walked to its root and reversed ...
StitchStart ==
  /\ pc = "stitch"
  /\ at["start"] # 0
  /\ path' = <<tree["start"][at["start"]].q>> \o path
  /\ at' = [at EXCEPT !["start"] = tree["start"][@].parent]
  /\ UNCHANGED <<world, expired, pc, probed, goals, tree, active, iterations, grow, added, status>>

\* ... and the walk of the goal side to its root is appended.
StitchGoal ==
  /\ pc = "stitch"
  /\ at["start"] = 0
  /\ at["goal"] # 0
  /\ path' = Append(path, tree["goal"][at["goal"]].q)
  /\ at' = [at EXCEPT !["goal"] = tree["goal"][@].parent]
  /\ UNCHANGED <<world, expired, pc, probed, goals, tree, active, iterations, grow, added, status>>

Solved ==
  /\ pc = "stitch"
  /\ at = [side \in Side |-> 0]
  /\ Finish("Success")
  /\ UNCHANGED <<world, expired, search, path>>

\* Mutant: a spent iteration budget is reported as a timeout.
GiveUp_AlwaysTimeout ==
  /\ pc = "loop"
  /\ expired \/ iterations = MaxIterations
  /\ Finish("Timeout")
  /\ UNCHANGED <<world, expired, search, path>>

\* The time or the iteration budget is spent.
GiveUp ==
  /\ pc = "loop"
  /\ expired \/ iterations = MaxIterations
  /\ Finish(IF expired THEN "Timeout" ELSE "NoSolution")
  /\ UNCHANGED <<world, expired, search, path>>

Step ==
  \/ Reject \/ Infeasible \/ BeginProbe \/ ProbeGoal \/ GoalsBlocked \/ PlantTrees
  \/ DirectConnection \/ NoDirectConnection
  \/ GrowBatch \/ KeepCandidate \/ BeginBridge \/ Bridge \/ SwapTrees
  \/ StitchStart \/ StitchGoal \/ Solved \/ GiveUp

Next == Step \/ ClockExpires

\* plan() runs on the caller's thread and no step of it waits: weak fairness of
\* its steps.  The clock needs none.
Spec == Init /\ [][Next]_vars /\ WF_vars(Step)

-------------------------------------------------------------------------------
Node == [q : Cfg, parent : Nat]

PC == {"validate", "probe", "direct", "loop", "grow", "bridge", "stitch", "done"}

\* The type of each variable.
Types ==
  /\ valid \in BOOLEAN
  /\ wanted \in Seq(Cfg)
  /\ hits \subseteq Cfg
  /\ mid \subseteq LongEdges
  /\ expired \in BOOLEAN
  /\ pc \in PC
  /\ probed \in 0 .. Len(wanted)
  /\ goals \in Seq(Cfg)
  /\ tree \in [Side -> Seq(Node)]
  /\ active \in Side
  /\ iterations \in 0 .. MaxIterations
  /\ grow \in Seq(Node)
  /\ added \in Seq(Nat)
  /\ at \in [Side -> Nat]
  /\ path \in Seq(Cfg)
  /\ status \in {"none", "Success", "Timeout", "NoSolution", "InvalidProblem"}

\* The type of the state of one plan() call: a parent is the root mark 0 or an index
\* of the same tree, and so is a cursor of build_path's walk.
TypeOK ==
  /\ Types
  /\ \A side \in Side : \A i \in DOMAIN tree[side] :
       tree[side][i].parent \in 0 .. Len(tree[side])
  /\ pc = "stitch" => \A side \in Side : at[side] \in 0 .. Len(tree[side])

\* Parents precede children in both trees (TreeSnapshot, types.hpp), so that
\* build_path's walk to the root ends.
ParentsPrecedeChildren ==
  \A side \in Side : \A i \in DOMAIN tree[side] : tree[side][i].parent < i

EdgeClear(p, q) == {p, q} \notin mid

\* A node that collides gets into a tree only as a leaf: it is no root, nothing
\* ever grows from it, and every tree edge has a free interior.
CollidingNodesAreLeaves ==
  \A side \in Side : \A i \in DOMAIN tree[side] :
    LET node == tree[side][i]
        up   == tree[side][node.parent].q
    IN  /\ node.parent = 0 => node.q \notin hits
        /\ node.parent # 0 => up \notin hits /\ EdgeClear(up, node.q)

\* A Success path joins the start to a free goal configuration over edges with
\* free interiors, and at most one of its waypoints collides, never an end.
PathSound ==
  status = "Success" =>
    /\ Len(path) >= 2
    /\ path[1] = Start
    /\ Start \notin hits
    /\ path[Len(path)] \notin hits
    /\ \E i \in DOMAIN wanted : path[Len(path)] = wanted[i]
    /\ \A i \in 1 .. Len(path) - 1 : EdgeClear(path[i], path[i + 1])
    /\ \A i, j \in DOMAIN path : path[i] \in hits /\ path[j] \in hits => i = j

\* A failure is never reported while a way out is left: a direct connection is
\* never passed over, NoSolution needs an infeasible problem or a spent budget,
\* and Timeout needs the clock.
FailureJustified ==
  /\ status = "NoSolution" =>
       \/ Start \in hits
       \/ \A i \in DOMAIN wanted : wanted[i] \in hits
       \/ iterations = MaxIterations
  /\ status = "Timeout" => expired
  /\ status \in {"Timeout", "NoSolution"} /\ Start \notin hits =>
       \A i \in DOMAIN wanted :
         wanted[i] \in hits \/ ~ EdgeClear(Start, wanted[i])

\* What the search relies on between its steps: planted trees with the right
\* roots, indices in range, and a path under construction that still joins the
\* two cursors of build_path's walks.
SearchInv ==
  /\ status = "none" <=> pc # "done"
  /\ pc \notin {"stitch", "done"} => path = <<>>
  /\ pc \in {"validate", "probe"} => tree = [side \in Side |-> <<>>] /\ grow = <<>>
  /\ pc \notin {"validate", "done"} => Start \notin hits
  /\ \A i \in DOMAIN goals :
       goals[i] \notin hits /\ \E j \in DOMAIN wanted : goals[i] = wanted[j]
  /\ pc \in {"direct", "loop", "grow", "bridge", "stitch"} =>
       \A side \in Side : tree[side] # <<>>
  /\ \A i \in DOMAIN tree["start"] : tree["start"][i].parent = 0 => tree["start"][i].q = Start
  /\ \A i \in DOMAIN tree["goal"] : tree["goal"][i].parent = 0 =>
       \E j \in DOMAIN goals : tree["goal"][i].q = goals[j]
  /\ pc = "grow" => \A j \in DOMAIN grow : grow[j].parent \in DOMAIN tree[active]
  /\ pc \in {"grow", "bridge"} => \A j \in DOMAIN added : added[j] \in DOMAIN tree[active]

\* The two ends build_path has yet to walk from, and what it has so far.
StitchInv ==
  pc = "stitch" =>
    LET sAt == at["start"]
        gAt == at["goal"]
        sq  == tree["start"][sAt].q
        gq  == tree["goal"][gAt].q
    IN
    /\ sAt \in 0 .. Len(tree["start"])
    /\ gAt \in 0 .. Len(tree["goal"])
    /\ sAt # 0 => gAt # 0
    /\ sAt = 0 => path # <<>> /\ path[1] = Start
    /\ gAt = 0 => /\ Len(path) >= 2
                  /\ \E j \in DOMAIN goals : path[Len(path)] = goals[j]
    /\ \A i \in 1 .. Len(path) - 1 : EdgeClear(path[i], path[i + 1])
    /\ sAt # 0 /\ path # <<>> => EdgeClear(sq, path[1]) /\ sq \notin hits
    /\ sAt # 0 /\ path = <<>> => EdgeClear(sq, gq)
    /\ gAt # 0 /\ path # <<>> => EdgeClear(path[Len(path)], gq)
    /\ gAt # 0 /\ sAt # 0 /\ sq \in hits => gq \notin hits
    /\ gAt # 0 /\ (\E i \in DOMAIN path : path[i] \in hits) => gq \notin hits
    /\ \A i, j \in DOMAIN path : path[i] \in hits /\ path[j] \in hits => i = j

\* The inductive invariant behind PathSound.
IInv ==
  /\ Types
  /\ SearchInv
  /\ ParentsPrecedeChildren
  /\ CollidingNodesAreLeaves
  /\ StitchInv
  /\ PathSound

\* The path a Success returns is free at every sample, waypoints included: what
\* tests/unit/test_planner.cpp re-validates with check_edge.
PathCollisionFree ==
  status = "Success" => \A i \in DOMAIN path : path[i] \notin hits

\* plan() implements the planner contract with one colliding waypoint allowed.
Contract == INSTANCE PlannerContract WITH
  Slack <- 1, path <- IF status = "Success" THEN path ELSE <<>>
ImplementsContract == Contract!Spec
===============================================================================
