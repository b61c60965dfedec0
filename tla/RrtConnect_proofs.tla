-------------------------- MODULE RrtConnect_proofs --------------------------
(* Proofs about RrtConnect, for every configuration space, scene, goal list,  *)
(* batch size and iteration budget that its assumptions allow.                *)
EXTENDS RrtConnect, FiniteSetTheorems, WellFoundedInduction, TLAPS

-------------------------------------------------------------------------------
(* Every non-empty set of natural numbers has a least element. *)
LEMMA LeastElement ==
  ASSUME NEW T \in SUBSET Nat, T # {}
  PROVE  \E x \in T : \A y \in T : x <= y
<1>1. PICK x \in T : \A y \in T : ~ (<<y, x>> \in OpToRel(<, Nat))
  BY NatLessThanWellFounded, WFMin
<1>2. \A y \in T : ~ (y < x)
  BY <1>1 DEF OpToRel
<1>. QED
  BY <1>2

-------------------------------------------------------------------------------
(* What batch_check's scan returns: the first colliding sample, or n. *)
LEMMA FirstContactProperties ==
  ASSUME NEW p \in Cfg, NEW q \in Cfg
  PROVE  /\ FirstContact(p, q) \in 0 .. Steps[p][q]
         /\ \A j \in 0 .. FirstContact(p, q) - 1 : ~ SampleHit(p, q, j)
         /\ FirstContact(p, q) = Steps[p][q] \/ SampleHit(p, q, FirstContact(p, q))
<1> DEFINE n == Steps[p][q]
           Stop(k) == k = n \/ SampleHit(p, q, k)
           First(k) == Stop(k) /\ \A j \in 0 .. k - 1 : ~ SampleHit(p, q, j)
           Stops == {k \in 0 .. n : Stop(k)}
<1>1. n \in Nat \ {0}
  BY RrtAssumption
<1>2. PICK k \in Stops : \A j \in Stops : k <= j
  <2>1. n \in Stops
    BY <1>1
  <2>2. Stops \in SUBSET Nat
    BY <1>1
  <2> HIDE DEF Stops
  <2>. QED
    BY <2>1, <2>2, LeastElement
<1>3. k \in 0 .. n /\ First(k)
  <2>1. ASSUME NEW j \in 0 .. k - 1
        PROVE  ~ SampleHit(p, q, j)
    BY <1>1, <1>2
  <2>. QED
    BY <1>2, <2>1
<1>4. /\ FirstContact(p, q) = CHOOSE i \in 0 .. n : First(i)
  BY DEF FirstContact
<1> HIDE DEF First, n
<1>5. FirstContact(p, q) \in 0 .. n /\ First(FirstContact(p, q))
  BY <1>3, <1>4
<1>. QED
  BY <1>5 DEF First, n

(* An accepted edge starts free and has a free interior; nothing is known of
   its far end, whose sample is the one FirstContact = Steps stands for. *)
LEMMA AcceptedClear ==
  ASSUME mid \subseteq LongEdges, NEW p \in Cfg, NEW q \in Cfg, Accepted(p, q)
  PROVE  p \notin hits /\ EdgeClear(p, q) /\ EdgeClear(q, p)
<1> DEFINE n == Steps[p][q]
<1>1. n \in Nat \ {0}
  BY RrtAssumption
<1>2. \A j \in 0 .. n - 1 : ~ SampleHit(p, q, j)
  BY <1>1, FirstContactProperties DEF Accepted
<1>3. p \notin hits
  BY <1>1, <1>2 DEF SampleHit
<1>4. ASSUME {p, q} \in mid
      PROVE  FALSE
  <2>1. PICK p1 \in Cfg, q1 \in Cfg : {p, q} = {p1, q1} /\ p1 # q1 /\ Steps[p1][q1] > 1
    BY <1>4 DEF LongEdges
  <2>2. (p1 = p /\ q1 = q) \/ (p1 = q /\ q1 = p)
    BY <2>1
  <2>3. n > 1
    BY <2>1, <2>2, StepsSymmetric
  <2>4. ~ SampleHit(p, q, 1)
    BY <1>1, <1>2, <2>3
  <2>. QED
    BY <1>4, <2>3, <2>4, <1>1 DEF SampleHit
<1>5. {p, q} = {q, p}
  OBVIOUS
<1>. QED
  BY <1>3, <1>4, <1>5 DEF EdgeClear

(* An edge that starts free and has a free interior is accepted. *)
LEMMA ClearAccepted ==
  ASSUME NEW p \in Cfg, NEW q \in Cfg, p \notin hits, EdgeClear(p, q)
  PROVE  Accepted(p, q)
<1> DEFINE n == Steps[p][q]
           k == FirstContact(p, q)
<1>1. n \in Nat \ {0}
  BY RrtAssumption
<1>2. k \in 0 .. n /\ (k = n \/ SampleHit(p, q, k))
  BY FirstContactProperties
<1>3. \A j \in 0 .. n : SampleHit(p, q, j) => j = n
  BY <1>1 DEF SampleHit, EdgeClear
<1>4. k = n
  BY <1>2, <1>3
<1>. QED
  BY <1>1, <1>4 DEF Accepted

(* The scan for the nearest node of a non-empty tree finds one of its nodes. *)
LEMMA NearestInTree ==
  ASSUME NEW nodes \in Seq(Node), nodes # <<>>, NEW q \in Cfg
  PROVE  Nearest(nodes, q) \in DOMAIN nodes
<1> DEFINE d(i) == Dist[nodes[i].q][q]
           Closest(i) == \A j \in DOMAIN nodes : d(i) < d(j) \/ (d(i) = d(j) /\ i <= j)
           Ds == {d(i) : i \in DOMAIN nodes}
<1>1. DOMAIN nodes \subseteq Nat /\ 1 \in DOMAIN nodes
  <2>1. DOMAIN nodes = 1 .. Len(nodes) /\ Len(nodes) \in Nat /\ Len(nodes) # 0
    OBVIOUS
  <2>. QED
    BY <2>1
<1>2. \A i \in DOMAIN nodes : d(i) \in Nat
  <2>1. \A i \in DOMAIN nodes : nodes[i] \in Node
    OBVIOUS
  <2>2. \A i \in DOMAIN nodes : nodes[i].q \in Cfg
    BY <2>1 DEF Node
  <2>. QED
    BY <2>2, RrtAssumption
<1>3. PICK least \in Ds : \A e \in Ds : least <= e
  <2>1. Ds \in SUBSET Nat /\ Ds # {}
    BY <1>1, <1>2
  <2> HIDE DEF Ds
  <2>. QED
    BY <2>1, LeastElement
<1> DEFINE Best == {i \in DOMAIN nodes : d(i) = least}
<1>4. PICK i \in Best : \A j \in Best : i <= j
  <2>1. Best \in SUBSET Nat /\ Best # {}
    BY <1>1, <1>3
  <2> HIDE DEF Best
  <2>. QED
    BY <2>1, LeastElement
<1>5. i \in DOMAIN nodes /\ Closest(i)
  <2>1. ASSUME NEW j \in DOMAIN nodes
        PROVE  d(i) < d(j) \/ (d(i) = d(j) /\ i <= j)
    <3>1. d(i) = least /\ least <= d(j)
      BY <1>3, <1>4
    <3>2. d(j) = least => i <= j
      BY <1>4
    <3> HIDE DEF d
    <3>. QED
      BY <1>2, <1>4, <3>1, <3>2
  <2>. QED
    BY <1>4, <2>1
<1>6. Nearest(nodes, q) = CHOOSE k \in DOMAIN nodes : Closest(k)
  BY DEF Nearest
<1> HIDE DEF Closest
<1>. QED
  BY <1>5, <1>6

-------------------------------------------------------------------------------
(* Two sequences of the search: a root tree of goals, and the candidates of one
   batch. *)
LEMMA GoalRoots ==
  ASSUME NEW gs \in Seq(Cfg)
  PROVE  /\ [i \in 1 .. Len(gs) |-> Root(gs[i])] \in Seq(Node)
         /\ Len([i \in 1 .. Len(gs) |-> Root(gs[i])]) = Len(gs)
<1>1. \A i \in 1 .. Len(gs) : Root(gs[i]) \in Node
  BY DEF Root, Node
<1>2. [i \in 1 .. Len(gs) |-> Root(gs[i])] \in [1 .. Len(gs) -> Node]
  BY <1>1
<1>. QED
  BY <1>2

LEMMA TargetsAreConfigurations ==
  ASSUME goals \in Seq(Cfg)
  PROVE  Targets \subseteq Cfg
<1>1. \A i \in DOMAIN goals : goals[i] \in Cfg
  OBVIOUS
<1>. QED
  BY <1>1, RrtAssumption DEF Targets

(* A batch of candidates is well formed: each grows from a node of the tree. *)
LEMMA GrowBatchCandidates ==
  ASSUME Types, tree[active] # <<>>, GrowBatch
  PROVE  /\ grow' \in Seq(Node)
         /\ \A j \in DOMAIN grow' : grow'[j].parent \in DOMAIN tree[active]
<1> DEFINE nodes == tree[active]
           Cand(target, j) == [parent |-> Nearest(nodes, target[j]),
                               q |-> Steer[nodes[Nearest(nodes, target[j])].q][target[j]]]
<1>1. nodes \in Seq(Node) /\ nodes # <<>>
  BY DEF Types
<1>2. PICK target \in [1 .. BatchSize -> Targets] :
        grow' = [j \in 1 .. BatchSize |-> Cand(target, j)]
  BY DEF GrowBatch
<1>3. ASSUME NEW j \in 1 .. BatchSize
      PROVE  Cand(target, j) \in Node /\ Cand(target, j).parent \in DOMAIN nodes
  <2>1. target[j] \in Cfg
    BY TargetsAreConfigurations DEF Types
  <2>2. Nearest(nodes, target[j]) \in DOMAIN nodes
    BY <1>1, <2>1, NearestInTree
  <2> DEFINE near == Nearest(nodes, target[j])
  <2>3. near \in Nat /\ nodes[near].q \in Cfg
    <3>1. nodes[near] \in Node /\ DOMAIN nodes = 1 .. Len(nodes)
      BY <1>1, <2>2
    <3>. QED
      BY <3>1, <2>2 DEF Node
  <2> HIDE DEF near, nodes
  <2>4. Steer[nodes[near].q][target[j]] \in Cfg
    BY <2>1, <2>3, RrtAssumption
  <2>. QED
    BY <2>2, <2>3, <2>4 DEF Node, near
<1> HIDE DEF Cand
<1>4. grow' \in [1 .. BatchSize -> Node]
  BY <1>2, <1>3
<1>5. DOMAIN grow' = 1 .. BatchSize
  BY <1>2
<1>6. \A j \in DOMAIN grow' : grow'[j].parent \in DOMAIN nodes
  BY <1>2, <1>3, <1>5
<1>. QED
  BY <1>4, <1>6, RrtAssumption

-------------------------------------------------------------------------------
(* A cursor of build_path's walk that is not past the root is on a node. *)
LEMMA NodeInTree ==
  ASSUME Types, NEW side \in Side, NEW i \in DOMAIN tree[side]
  PROVE  tree[side][i].q \in Cfg /\ tree[side][i].parent \in Nat
<1>1. tree[side] \in Seq(Node)
  BY DEF Types
<1>2. tree[side][i] \in Node
  BY <1>1
<1>. QED
  BY <1>2 DEF Node

LEMMA InitIInv == Init => IInv
<1> SUFFICES ASSUME Init
             PROVE  IInv
  OBVIOUS
<1> USE DEF Init
<1>1. Types
  <2>1. wanted \in Seq(Cfg)
    BY RrtAssumption
  <2>2. tree \in [Side -> Seq(Node)] /\ at \in [Side -> Nat]
    OBVIOUS
  <2>3. active \in Side /\ pc \in PC
    BY DEF Side, PC
  <2>4. probed \in 0 .. Len(wanted)
    BY <2>1
  <2>5. iterations \in 0 .. MaxIterations
    BY RrtAssumption
  <2>6. goals \in Seq(Cfg) /\ grow \in Seq(Node) /\ added \in Seq(Nat) /\ path \in Seq(Cfg)
    OBVIOUS
  <2>. QED
    BY <2>1, <2>2, <2>3, <2>4, <2>5, <2>6 DEF Types
<1>2. SearchInv
  <2>1. \A side \in Side : DOMAIN tree[side] = {}
    OBVIOUS
  <2>2. "start" \in Side /\ "goal" \in Side /\ DOMAIN goals = {}
    BY DEF Side
  <2>. QED
    BY <2>1, <2>2 DEF SearchInv
<1>3. ParentsPrecedeChildren /\ CollidingNodesAreLeaves
  <2>1. \A side \in Side : DOMAIN tree[side] = {}
    OBVIOUS
  <2>. QED
    BY <2>1 DEF ParentsPrecedeChildren, CollidingNodesAreLeaves
<1>4. StitchInv /\ PathSound
  BY DEF StitchInv, PathSound
<1>. QED
  BY <1>1, <1>2, <1>3, <1>4 DEF IInv

-------------------------------------------------------------------------------
(* Type correctness is preserved; build_path's cursors stay typed because
   StitchInv keeps them inside the trees. *)
LEMMA TypePreserved ==
  ASSUME Types, SearchInv, StitchInv, [Next]_vars
  PROVE  Types'
<1> USE DEF Types, Side, PC
<1>1. CASE Reject
  BY <1>1 DEF Reject, Finish, world, search
<1>2. CASE Infeasible
  BY <1>2 DEF Infeasible, Finish, world, search
<1>3. CASE BeginProbe
  BY <1>3 DEF BeginProbe, world, search
<1>4. CASE ProbeGoal
  <2>1. probed + 1 \in 0 .. Len(wanted) /\ wanted[probed + 1] \in Cfg
    BY <1>4 DEF ProbeGoal
  <2>2. goals' \in Seq(Cfg) /\ probed' \in 0 .. Len(wanted)
    BY <1>4, <2>1 DEF ProbeGoal
  <2>. QED
    BY <1>4, <2>2 DEF ProbeGoal, world
<1>5. CASE GoalsBlocked
  BY <1>5 DEF GoalsBlocked, Finish, world, search
<1>6. CASE PlantTrees
  <2>1. Root(Start) \in Node
    BY RrtAssumption DEF Root, Node
  <2>2. [i \in 1 .. Len(goals) |-> Root(goals[i])] \in Seq(Node)
    BY GoalRoots
  <2>3. tree' \in [Side -> Seq(Node)]
    <3>1. <<Root(Start)>> \in Seq(Node)
      BY <2>1
    <3>. QED
      BY <1>6, <2>2, <3>1 DEF PlantTrees
  <2>. QED
    BY <1>6, <2>3 DEF PlantTrees, world
<1>7. CASE DirectConnection
  <2>1. path' \in Seq(Cfg)
    BY <1>7, RrtAssumption DEF DirectConnection
  <2>. QED
    BY <1>7, <2>1 DEF DirectConnection, Finish, world, search
<1>8. CASE NoDirectConnection
  BY <1>8 DEF NoDirectConnection, world, search
<1>9. CASE GrowBatch
  <2>1. grow' \in Seq(Node)
    <3>1. tree[active] # <<>>
      BY <1>9 DEF SearchInv, GrowBatch
    <3>. QED
      BY <1>9, <3>1, GrowBatchCandidates
  <2>2. iterations' \in 0 .. MaxIterations
    BY <1>9, RrtAssumption DEF GrowBatch
  <2>3. /\ pc' = "grow" /\ added' = <<>>
        /\ UNCHANGED <<world, expired, probed, goals, tree, active, at, path, status>>
    BY <1>9 DEF GrowBatch
  <2>. QED
    BY <2>1, <2>2, <2>3 DEF world
<1>10. CASE KeepCandidate
  <2> DEFINE c == Head(grow)
  <2>1. c \in Node
    BY <1>10 DEF KeepCandidate
  <2>2. [q |-> c.q, parent |-> c.parent] \in Node
    BY <2>1 DEF Node
  <2>3. tree[active] \in Seq(Node) /\ Len(tree[active]) + 1 \in Nat
    OBVIOUS
  <2>4. tree' \in [Side -> Seq(Node)] /\ added' \in Seq(Nat)
    <3> HIDE DEF c
    <3>1. Append(tree[active], [q |-> c.q, parent |-> c.parent]) \in Seq(Node)
      BY <2>2, <2>3
    <3>2. Append(added, Len(tree[active]) + 1) \in Seq(Nat)
      BY <2>3
    <3>. QED
      BY <1>10, <3>1, <3>2 DEF KeepCandidate, c
  <2>5. grow' \in Seq(Node)
    BY <1>10 DEF KeepCandidate
  <2>. QED
    BY <1>10, <2>4, <2>5 DEF KeepCandidate, world
<1>11. CASE BeginBridge
  BY <1>11 DEF BeginBridge, world, search
<1>12. CASE Bridge
  <2> DEFINE a == Head(added)
             o == Nearest(tree[Other(active)], tree[active][a].q)
  <2>1. a \in Nat /\ added \in Seq(Nat) /\ Tail(added) \in Seq(Nat)
    BY SMTT(30), <1>12 DEF Bridge
  <2>2. o \in Nat
    <3>1. a \in DOMAIN tree[active]
      BY <1>12 DEF Bridge, SearchInv
    <3>2. tree[active][a].q \in Cfg
      BY <3>1, NodeInTree
    <3>3. tree[Other(active)] \in Seq(Node) /\ tree[Other(active)] # <<>>
      BY <1>12 DEF Bridge, SearchInv, Other
    <3> HIDE DEF a
    <3>4. o \in DOMAIN tree[Other(active)]
      BY <3>2, <3>3, NearestInTree
    <3>. QED
      BY <3>3, <3>4
  <2>3. at' \in [Side -> Nat] /\ added' \in Seq(Nat)
    <3> HIDE DEF a, o
    <3>. QED
      BY <1>12, <2>1, <2>2 DEF Bridge, a, o
  <2>. QED
    BY <1>12, <2>3 DEF Bridge, world
<1>13. CASE SwapTrees
  BY <1>13 DEF SwapTrees, Other, world
<1>14. CASE StitchStart
  <2>1. at["start"] \in DOMAIN tree["start"]
    BY <1>14 DEF StitchStart, StitchInv
  <2>2. tree["start"][at["start"]].q \in Cfg /\ tree["start"][at["start"]].parent \in Nat
    BY <2>1, NodeInTree
  <2>3. path' \in Seq(Cfg) /\ at' \in [Side -> Nat]
    BY <1>14, <2>2 DEF StitchStart
  <2>. QED
    BY <1>14, <2>3 DEF StitchStart, world
<1>15. CASE StitchGoal
  <2>1. at["goal"] \in DOMAIN tree["goal"]
    BY <1>15 DEF StitchGoal, StitchInv
  <2>2. tree["goal"][at["goal"]].q \in Cfg /\ tree["goal"][at["goal"]].parent \in Nat
    BY <2>1, NodeInTree
  <2>3. path' \in Seq(Cfg) /\ at' \in [Side -> Nat]
    BY <1>15, <2>2 DEF StitchGoal
  <2>. QED
    BY <1>15, <2>3 DEF StitchGoal, world
<1>16. CASE Solved
  BY <1>16 DEF Solved, Finish, world, search
<1>17. CASE GiveUp
  BY <1>17 DEF GiveUp, Finish, world, search
<1>18. CASE ClockExpires
  BY <1>18 DEF ClockExpires, world, search
<1>19. CASE UNCHANGED vars
  BY <1>19 DEF vars, world, search
<1>. QED
  BY <1>1, <1>2, <1>3, <1>4, <1>5, <1>6, <1>7, <1>8, <1>9, <1>10, <1>11, <1>12,
     <1>13, <1>14, <1>15, <1>16, <1>17, <1>18, <1>19 DEF Next, Step

(* What KeepCandidate does to the trees, as the other lemmas need it: the
   active tree keeps its nodes and may get one more at its end, which grows
   from one of them. *)
LEMMA KeepCandidateTree ==
  ASSUME Types, SearchInv, KeepCandidate
  PROVE  LET c == Head(grow)
             n == Len(tree[active])
         IN  /\ c \in Node /\ c.parent \in 1 .. n
             /\ tree' \in [Side -> Seq(Node)]
             /\ tree'[Other(active)] = tree[Other(active)]
             /\ \A i \in 1 .. n : tree'[active][i] = tree[active][i]
             /\ \/ ~ Accepted(tree[active][c.parent].q, c.q) /\ tree' = tree /\ added' = added
                \/ /\ Accepted(tree[active][c.parent].q, c.q)
                   /\ Len(tree'[active]) = n + 1
                   /\ tree'[active][n + 1] = [q |-> c.q, parent |-> c.parent]
                   /\ added' = Append(added, n + 1)
<1> DEFINE c == Head(grow)
           n == Len(tree[active])
           new == [q |-> c.q, parent |-> c.parent]
<1>1. c \in Node /\ c.parent \in DOMAIN tree[active]
  <2>1. pc = "grow" /\ grow # <<>> /\ grow \in Seq(Node)
    BY DEF KeepCandidate, Types
  <2>2. c \in Node /\ c = grow[1] /\ 1 \in DOMAIN grow
    BY <2>1
  <2>. QED
    BY <2>1, <2>2 DEF SearchInv
<1>2. tree[active] \in Seq(Node) /\ n \in Nat /\ DOMAIN tree[active] = 1 .. n
  BY DEF Types
<1>3. new \in Node
  BY <1>1 DEF Node
<1>4. /\ Append(tree[active], new) \in Seq(Node)
      /\ Len(Append(tree[active], new)) = n + 1
      /\ Append(tree[active], new)[n + 1] = new
      /\ \A i \in 1 .. n : Append(tree[active], new)[i] = tree[active][i]
  BY <1>2, <1>3
<1>5. tree \in [Side -> Seq(Node)] /\ active \in Side /\ Other(active) \in Side /\ Other(active) # active
  BY DEF Types, Other, Side
<1>6. CASE Accepted(tree[active][c.parent].q, c.q)
  <2>1. tree' = [tree EXCEPT ![active] = Append(@, new)] /\ added' = Append(added, n + 1)
    BY <1>6 DEF KeepCandidate
  <2> HIDE DEF c, n, new
  <2>2. tree'[active] = Append(tree[active], new) /\ tree'[Other(active)] = tree[Other(active)]
    BY <1>5, <2>1
  <2>3. tree' \in [Side -> Seq(Node)]
    BY <1>4, <1>5, <2>1
  <2>. QED
    BY <1>1, <1>2, <1>4, <1>6, <2>1, <2>2, <2>3 DEF c, n, new
<1>7. CASE ~ Accepted(tree[active][c.parent].q, c.q)
  BY <1>1, <1>2, <1>5, <1>7 DEF KeepCandidate
<1>. QED
  BY <1>6, <1>7

(* SearchInv is preserved: the roots stay the start and the free goals, the
   indices that plan() keeps stay inside the trees they index. *)
LEMMA SearchPreserved ==
  ASSUME Types, SearchInv, [Next]_vars
  PROVE  SearchInv'
<1> USE DEF SearchInv
<1>1. CASE Reject
  BY <1>1 DEF Reject, Finish, world, search
<1>2. CASE Infeasible
  BY <1>2 DEF Infeasible, Finish, world, search
<1>3. CASE BeginProbe
  BY <1>3 DEF BeginProbe, world, search
<1>4. CASE ProbeGoal
  <2>1. probed + 1 \in DOMAIN wanted /\ goals \in Seq(Cfg) /\ wanted[probed + 1] \in Cfg
    BY <1>4 DEF ProbeGoal, Types
  <2>2. \A i \in DOMAIN goals' :
          goals'[i] \notin hits /\ \E j \in DOMAIN wanted : goals'[i] = wanted[j]
    <3>1. CASE wanted[probed + 1] \in hits
      BY <1>4, <3>1 DEF ProbeGoal
    <3>2. CASE wanted[probed + 1] \notin hits
      BY <1>4, <2>1, <3>2 DEF ProbeGoal
    <3>. QED
      BY <3>1, <3>2
  <2>3. \A side \in Side : tree[side] = <<>>
    BY <1>4 DEF ProbeGoal
  <2>4. "goal" \in Side /\ DOMAIN tree["goal"] = {}
    BY <2>3 DEF Side
  <2>. QED
    BY <1>4, <2>2, <2>4 DEF ProbeGoal, world
<1>5. CASE GoalsBlocked
  BY <1>5 DEF GoalsBlocked, Finish, world, search
<1>6. CASE PlantTrees
  <2>1. tree'["start"] = <<Root(Start)>>
    BY <1>6 DEF PlantTrees, Side
  <2>2. tree'["goal"] = [i \in 1 .. Len(goals) |-> Root(goals[i])]
    BY <1>6 DEF PlantTrees, Side
  <2>3. goals \in Seq(Cfg) /\ goals # <<>>
    BY <1>6 DEF PlantTrees, Types
  <2>4. Len(goals) \in Nat /\ Len(goals) # 0 /\ DOMAIN goals = 1 .. Len(goals)
    BY <2>3
  <2>5. tree'["start"] # <<>> /\ tree'["goal"] # <<>>
    <3>1. Len([i \in 1 .. Len(goals) |-> Root(goals[i])]) # 0
      BY <2>3, <2>4, GoalRoots
    <3>. QED
      BY <2>1, <2>2, <3>1
  <2>6. \A i \in DOMAIN tree'["start"] : tree'["start"][i].q = Start
    BY <2>1 DEF Root
  <2>7. \A i \in DOMAIN tree'["goal"] : \E j \in DOMAIN goals : tree'["goal"][i].q = goals[j]
    BY <2>2, <2>4 DEF Root
  <2>8. /\ pc = "probe" /\ pc' = "direct" /\ status' = status /\ path' = path /\ hits' = hits
        /\ wanted' = wanted /\ goals' = goals
    BY <1>6 DEF PlantTrees, world
  <2>9. \A side \in Side : tree'[side] # <<>>
    BY <2>5 DEF Side
  <2>. QED
    BY <2>6, <2>7, <2>8, <2>9
<1>7. CASE DirectConnection
  BY <1>7 DEF DirectConnection, Finish, world, search
<1>8. CASE NoDirectConnection
  BY <1>8 DEF NoDirectConnection, world, search
<1>9. CASE GrowBatch
  <2>1. \A j \in DOMAIN grow' : grow'[j].parent \in DOMAIN tree[active]
    <3>1. tree[active] # <<>>
      BY <1>9 DEF GrowBatch, Types
    <3>. QED
      BY <1>9, <3>1, GrowBatchCandidates
  <2>2. DOMAIN added' = {}
    BY <1>9 DEF GrowBatch
  <2>. QED
    BY <1>9, <2>1, <2>2 DEF GrowBatch, world
<1>10. CASE KeepCandidate
  <2> DEFINE c == Head(grow)
             n == Len(tree[active])
  <2>1. c \in Node /\ c.parent \in 1 .. n /\ n \in Nat /\ tree[active] \in Seq(Node)
    BY <1>10, KeepCandidateTree DEF Types
  <2>2. /\ tree' \in [Side -> Seq(Node)]
        /\ tree'[Other(active)] = tree[Other(active)]
        /\ \A i \in 1 .. n : tree'[active][i] = tree[active][i]
    BY <1>10, KeepCandidateTree
  <2>3. \/ tree' = tree /\ added' = added
        \/ /\ Len(tree'[active]) = n + 1
           /\ tree'[active][n + 1] = [q |-> c.q, parent |-> c.parent]
           /\ added' = Append(added, n + 1)
    BY <1>10, KeepCandidateTree
  <2>4. DOMAIN tree[active] = 1 .. n /\ DOMAIN tree'[active] = 1 .. Len(tree'[active])
    BY <2>1, <2>2 DEF Types
  <2>5. ASSUME NEW i \in DOMAIN tree'[active], tree'[active][i].parent = 0
        PROVE  i \in 1 .. n /\ tree'[active][i] = tree[active][i]
    <3> HIDE DEF c, n
    <3>. QED
      BY <2>1, <2>2, <2>3, <2>4, <2>5
  <2>6. \A side \in Side : side = active \/ tree'[side] = tree[side]
    BY <2>2 DEF Side, Other, Types
  <2>7. \A i \in DOMAIN tree'["start"] : tree'["start"][i].parent = 0 => tree'["start"][i].q = Start
    BY <2>4, <2>5, <2>6 DEF Side
  <2>8. \A i \in DOMAIN tree'["goal"] : tree'["goal"][i].parent = 0 =>
          \E j \in DOMAIN goals : tree'["goal"][i].q = goals[j]
    BY <2>4, <2>5, <2>6 DEF Side
  <2>9. DOMAIN tree[active] \subseteq DOMAIN tree'[active]
    BY <2>1, <2>3, <2>4
  <2>10. \A side \in Side : tree'[side] # <<>>
    <3>1. \A side \in Side : tree[side] # <<>>
      BY <1>10 DEF KeepCandidate
    <3>2. tree'[active] # <<>>
      BY <2>1, <2>4, <2>9
    <3>. QED
      BY <2>6, <3>1, <3>2
  <2>11. \A j \in DOMAIN added' : added'[j] \in DOMAIN tree'[active]
    <3>1. \A j \in DOMAIN added : added[j] \in DOMAIN tree[active]
      BY <1>10 DEF KeepCandidate
    <3>2. added \in Seq(Nat)
      BY DEF Types
    <3> HIDE DEF n, c
    <3>3. CASE added' = added
      BY <2>9, <3>1, <3>3
    <3>4. CASE Len(tree'[active]) = n + 1 /\ added' = Append(added, n + 1)
      <4>1. n + 1 \in DOMAIN tree'[active]
        BY <2>1, <2>4, <3>4
      <4>2. ASSUME NEW j \in DOMAIN added'
            PROVE  added'[j] = n + 1 \/ (j \in DOMAIN added /\ added'[j] = added[j])
        BY <3>2, <3>4, <2>1
      <4>. QED
        BY <2>9, <3>1, <4>1, <4>2
    <3>. QED
      BY <2>3, <3>3, <3>4
  <2>12. \A j \in DOMAIN grow' : grow'[j].parent \in DOMAIN tree'[active]
    <3>1. grow \in Seq(Node) /\ grow # <<>> /\ grow' = Tail(grow)
      BY <1>10 DEF KeepCandidate, Types
    <3>2. \A j \in DOMAIN grow' : j + 1 \in DOMAIN grow /\ grow'[j] = grow[j + 1]
      BY <3>1
    <3>3. \A j \in DOMAIN grow : grow[j].parent \in DOMAIN tree[active]
      BY <1>10 DEF KeepCandidate
    <3>. QED
      BY <2>9, <3>2, <3>3
  <2> HIDE DEF c, n
  <2>. QED
    BY <1>10, <2>7, <2>8, <2>10, <2>11, <2>12 DEF KeepCandidate, world
<1>11. CASE BeginBridge
  BY <1>11 DEF BeginBridge, world, search
<1>12. CASE Bridge
  <2>1. added \in Seq(Nat) /\ added # <<>>
    BY <1>12 DEF Bridge, Types
  <2>2. \A j \in DOMAIN Tail(added) : j + 1 \in DOMAIN added /\ Tail(added)[j] = added[j + 1]
    BY <2>1
  <2>3. pc' = "bridge" => \A j \in DOMAIN added' : added'[j] \in DOMAIN tree[active]
    BY <1>12, <2>2 DEF Bridge
  <2>. QED
    BY <1>12, <2>3 DEF Bridge, world
<1>13. CASE SwapTrees
  BY <1>13 DEF SwapTrees, world
<1>14. CASE StitchStart
  BY <1>14 DEF StitchStart, world
<1>15. CASE StitchGoal
  BY <1>15 DEF StitchGoal, world
<1>16. CASE Solved
  BY <1>16 DEF Solved, Finish, world, search
<1>17. CASE GiveUp
  BY <1>17 DEF GiveUp, Finish, world, search
<1>18. CASE ClockExpires
  BY <1>18 DEF ClockExpires, world, search
<1>19. CASE UNCHANGED vars
  BY <1>19 DEF vars, world, search
<1>. QED
  BY <1>1, <1>2, <1>3, <1>4, <1>5, <1>6, <1>7, <1>8, <1>9, <1>10, <1>11, <1>12,
     <1>13, <1>14, <1>15, <1>16, <1>17, <1>18, <1>19 DEF Next, Step

(* The scene, the goal list and the sampled world never change under plan(). *)
LEMMA WorldUnchanged ==
  ASSUME [Next]_vars
  PROVE  UNCHANGED world
BY DEF Next, Step, vars, Reject, Infeasible, BeginProbe, ProbeGoal, GoalsBlocked, PlantTrees,
       DirectConnection, NoDirectConnection, GrowBatch, KeepCandidate, BeginBridge, Bridge,
       SwapTrees, StitchStart, StitchGoal, Solved, GiveUp, ClockExpires

(* Only two steps touch the trees. *)
LEMMA TreeChanges ==
  ASSUME [Next]_vars
  PROVE  UNCHANGED tree \/ PlantTrees \/ KeepCandidate
BY DEF Next, Step, vars, search, Reject, Infeasible, BeginProbe, ProbeGoal, GoalsBlocked,
       DirectConnection, NoDirectConnection, GrowBatch, BeginBridge, Bridge,
       SwapTrees, StitchStart, StitchGoal, Solved, GiveUp, ClockExpires

(* Freshly planted trees consist of free roots. *)
LEMMA PlantedRoots ==
  ASSUME Types, SearchInv, PlantTrees, NEW side \in Side, NEW i \in DOMAIN tree'[side]
  PROVE  i \in Nat /\ i > 0 /\ tree'[side][i].parent = 0 /\ tree'[side][i].q \notin hits
<1>1. goals \in Seq(Cfg) /\ \A j \in DOMAIN goals : goals[j] \notin hits
  BY DEF Types, SearchInv
<1>2. CASE side = "start"
  <2>1. tree'[side] = <<Root(Start)>> /\ Start \notin hits
    BY <1>2 DEF PlantTrees, SearchInv, Side
  <2>. QED
    BY <2>1 DEF Root
<1>3. CASE side = "goal"
  <2>1. tree'[side] = [j \in 1 .. Len(goals) |-> Root(goals[j])]
    BY <1>3 DEF PlantTrees, Side
  <2>2. DOMAIN goals = 1 .. Len(goals) /\ Len(goals) \in Nat
    BY <1>1
  <2>. QED
    BY <1>1, <2>1, <2>2 DEF Root
<1>. QED
  BY <1>2, <1>3 DEF Side

(* Trees grow at their end, from nodes they already have. *)
LEMMA ParentsPreserved ==
  ASSUME Types, SearchInv, ParentsPrecedeChildren, [Next]_vars
  PROVE  ParentsPrecedeChildren'
<1>1. CASE UNCHANGED tree
  BY <1>1 DEF ParentsPrecedeChildren
<1>2. CASE PlantTrees
  BY <1>2, PlantedRoots DEF ParentsPrecedeChildren
<1>3. CASE KeepCandidate
  <2> DEFINE c == Head(grow)
             n == Len(tree[active])
  <2>1. /\ c \in Node /\ c.parent \in 1 .. n
        /\ tree' \in [Side -> Seq(Node)]
        /\ tree'[Other(active)] = tree[Other(active)]
        /\ \A i \in 1 .. n : tree'[active][i] = tree[active][i]
    BY <1>3, KeepCandidateTree
  <2>2. \/ tree' = tree
        \/ Len(tree'[active]) = n + 1 /\ tree'[active][n + 1] = [q |-> c.q, parent |-> c.parent]
    BY <1>3, KeepCandidateTree
  <2>3. active \in Side /\ tree[active] \in Seq(Node) /\ n \in Nat /\ tree'[active] \in Seq(Node)
    BY <2>1 DEF Types
  <2>4. DOMAIN tree[active] = 1 .. n /\ DOMAIN tree'[active] = 1 .. Len(tree'[active])
    BY <2>3
  <2>5. ASSUME NEW i \in DOMAIN tree'[active]
        PROVE  tree'[active][i].parent < i
    <3>1. CASE i \in 1 .. n
      BY <2>1, <2>3, <2>4, <3>1 DEF ParentsPrecedeChildren
    <3>2. CASE i \notin 1 .. n
      <4> HIDE DEF c, n
      <4>1. tree' # tree
        BY <2>4, <3>2
      <4>2. i = n + 1 /\ tree'[active][i].parent = c.parent
        BY <2>2, <2>3, <2>4, <3>2, <4>1
      <4>. QED
        BY <2>1, <2>3, <4>2
    <3>. QED
      BY <3>1, <3>2
  <2>6. \A side \in Side : side = active \/ tree'[side] = tree[side]
    BY <2>1, <2>3 DEF Side, Other
  <2>. QED
    BY <2>5, <2>6 DEF ParentsPrecedeChildren
<1>. QED
  BY <1>1, <1>2, <1>3, TreeChanges

(* A node that is grown from was accepted as the start of an edge, and the scan
   of an edge does look at its start. *)
LEMMA LeavesPreserved ==
  ASSUME Types, SearchInv, ParentsPrecedeChildren, CollidingNodesAreLeaves, [Next]_vars
  PROVE  CollidingNodesAreLeaves'
<1>1. hits' = hits /\ mid' = mid
  BY WorldUnchanged DEF world
<1>2. CASE UNCHANGED tree
  BY <1>1, <1>2 DEF CollidingNodesAreLeaves, EdgeClear
<1>3. CASE PlantTrees
  BY <1>1, <1>3, PlantedRoots DEF CollidingNodesAreLeaves
<1>4. CASE KeepCandidate
  <2> DEFINE c == Head(grow)
             n == Len(tree[active])
             up == tree[active][c.parent].q
  <2>1. /\ c \in Node /\ c.parent \in 1 .. n
        /\ tree' \in [Side -> Seq(Node)]
        /\ tree'[Other(active)] = tree[Other(active)]
        /\ \A i \in 1 .. n : tree'[active][i] = tree[active][i]
    BY <1>4, KeepCandidateTree
  <2>2. \/ tree' = tree
        \/ /\ Accepted(up, c.q)
           /\ Len(tree'[active]) = n + 1
           /\ tree'[active][n + 1] = [q |-> c.q, parent |-> c.parent]
    BY <1>4, KeepCandidateTree
  <2>3. active \in Side /\ tree[active] \in Seq(Node) /\ n \in Nat /\ tree'[active] \in Seq(Node)
    BY <2>1 DEF Types
  <2>4. DOMAIN tree[active] = 1 .. n /\ DOMAIN tree'[active] = 1 .. Len(tree'[active])
    BY <2>3
  <2>5. ASSUME NEW i \in DOMAIN tree'[active]
        PROVE  /\ tree'[active][i].parent = 0 => tree'[active][i].q \notin hits
               /\ tree'[active][i].parent # 0 =>
                    LET v == tree'[active][tree'[active][i].parent].q
                    IN  v \notin hits /\ EdgeClear(v, tree'[active][i].q)
    <3>1. CASE i \in 1 .. n
      <4>1. tree[active][i].parent \in Nat /\ tree[active][i].parent < i
        BY <2>3, <2>4, <3>1, NodeInTree DEF ParentsPrecedeChildren
      <4>2. tree[active][i].parent # 0 => tree[active][i].parent \in 1 .. n
        BY <3>1, <4>1, <2>3
      <4> HIDE DEF n
      <4>. QED
        BY <2>1, <2>3, <2>4, <3>1, <4>2 DEF CollidingNodesAreLeaves
    <3>2. CASE i \notin 1 .. n
      <4> HIDE DEF c, n
      <4>1. i = n + 1 /\ Accepted(up, c.q) /\ tree'[active][i] = [q |-> c.q, parent |-> c.parent]
        <5>1. tree' # tree
          BY <2>4, <3>2
        <5>. QED
          BY <2>2, <2>3, <2>4, <3>2, <5>1
      <4>2. c.q \in Cfg /\ up \in Cfg /\ tree'[active][c.parent].q = up /\ c.parent # 0
        <5>1. c.parent \in DOMAIN tree[active]
          BY <2>1, <2>4
        <5>. QED
          BY <2>1, <2>3, <5>1, NodeInTree, SMTT(30) DEF Node
      <4>3. up \notin hits /\ EdgeClear(up, c.q)
        BY <4>1, <4>2, AcceptedClear DEF Types
      <4>. QED
        BY <4>1, <4>2, <4>3
    <3>. QED
      BY <3>1, <3>2
  <2>6. \A side \in Side : side = active \/ tree'[side] = tree[side]
    BY <2>1, <2>3 DEF Side, Other
  <2>7. ASSUME NEW side \in Side, NEW i \in DOMAIN tree'[side]
        PROVE  /\ tree'[side][i].parent = 0 => tree'[side][i].q \notin hits
               /\ tree'[side][i].parent # 0 =>
                    LET v == tree'[side][tree'[side][i].parent].q
                    IN  v \notin hits /\ EdgeClear(v, tree'[side][i].q)
    BY <2>5, <2>6, <2>7 DEF CollidingNodesAreLeaves
  <2>. QED
    BY <1>1, <2>7 DEF CollidingNodesAreLeaves, EdgeClear
<1>. QED
  BY <1>2, <1>3, <1>4, TreeChanges

-------------------------------------------------------------------------------
LEMMA Prepend ==
  ASSUME NEW w \in Seq(Cfg), NEW q \in Cfg
  PROVE  LET v == <<q>> \o w
         IN  /\ v \in Seq(Cfg) /\ Len(v) = Len(w) + 1 /\ v[1] = q
             /\ \A i \in 2 .. Len(v) : v[i] = w[i - 1]
OBVIOUS

LEMMA Postpend ==
  ASSUME NEW w \in Seq(Cfg), NEW q \in Cfg
  PROVE  LET v == Append(w, q)
         IN  /\ v \in Seq(Cfg) /\ Len(v) = Len(w) + 1 /\ v[Len(v)] = q
             /\ \A i \in 1 .. Len(w) : v[i] = w[i]
OBVIOUS

LEMMA EdgeClearSymmetric == \A p, q : EdgeClear(p, q) <=> EdgeClear(q, p)
<1>1. \A p, q : {p, q} = {q, p}
  OBVIOUS
<1>. QED
  BY <1>1 DEF EdgeClear

(* A bridge that is accepted has its new node free; so at most one of the two
   ends collides, and it is a leaf. *)
LEMMA BridgeStitch ==
  ASSUME Types, SearchInv, Bridge
  PROVE  StitchInv'
<1> DEFINE a == Head(added)
           nodes == tree[active]
           others == tree[Other(active)]
           o == Nearest(others, nodes[a].q)
<1>1. a \in DOMAIN nodes /\ nodes[a].q \in Cfg
  <2>1. a \in DOMAIN nodes
    BY DEF Bridge, SearchInv, Types
  <2>. QED
    BY <2>1, NodeInTree DEF Types
<1>2. o \in DOMAIN others /\ others[o].q \in Cfg
  <2>1. Other(active) \in Side /\ others \in Seq(Node) /\ others # <<>>
    BY DEF Bridge, SearchInv, Other, Side, Types
  <2> HIDE DEF a
  <2>2. o \in DOMAIN others
    BY <1>1, <2>1, NearestInTree
  <2>. QED
    BY <2>1, <2>2, NodeInTree
<1>3. SUFFICES ASSUME pc' = "stitch"
               PROVE  StitchInv'
  BY DEF StitchInv
<1>4. /\ Accepted(nodes[a].q, others[o].q)
      /\ at' = [side \in Side |-> IF side = active THEN a ELSE o]
  BY <1>3 DEF Bridge
<1>5. /\ nodes[a].q \notin hits
      /\ EdgeClear(nodes[a].q, others[o].q) /\ EdgeClear(others[o].q, nodes[a].q)
  BY <1>1, <1>2, <1>4, AcceptedClear DEF Types
<1>6. path' = <<>> /\ tree' = tree /\ hits' = hits /\ mid' = mid /\ goals' = goals
  BY DEF Bridge, SearchInv, world
<1> DEFINE sAt == at'["start"]
           gAt == at'["goal"]
           sq == tree["start"][sAt].q
           gq == tree["goal"][gAt].q
<1>7. /\ sAt \in DOMAIN tree["start"] /\ gAt \in DOMAIN tree["goal"]
      /\ EdgeClear(sq, gq)
      /\ sq \in hits => gq \notin hits
  <2> HIDE DEF a, o
  <2>1. CASE active = "start"
    BY <1>1, <1>2, <1>4, <1>5, <2>1 DEF Other, Side
  <2>2. CASE active = "goal"
    BY <1>1, <1>2, <1>4, <1>5, <2>2 DEF Other, Side
  <2>. QED
    BY <2>1, <2>2 DEF Types, Side
<1>8. tree["start"] \in Seq(Node) /\ tree["goal"] \in Seq(Node)
  BY DEF Types, Side
<1>9. sAt \in 1 .. Len(tree["start"]) /\ gAt \in 1 .. Len(tree["goal"])
  BY <1>7, <1>8
<1> HIDE DEF a, o, nodes, others
<1>. QED
  BY <1>6, <1>7, <1>9 DEF StitchInv, EdgeClear

LEMMA StartStitch ==
  ASSUME Types, SearchInv, ParentsPrecedeChildren, CollidingNodesAreLeaves, StitchInv,
         StitchStart
  PROVE  StitchInv'
<1> DEFINE sAt == at["start"]
           gAt == at["goal"]
           sq == tree["start"][sAt].q
           gq == tree["goal"][gAt].q
           up == tree["start"][sAt].parent
           upq == tree["start"][up].q
<1>1. /\ pc = "stitch" /\ sAt # 0 /\ path' = <<sq>> \o path
      /\ at'["start"] = up /\ at'["goal"] = gAt
      /\ tree' = tree /\ hits' = hits /\ mid' = mid /\ goals' = goals
  BY DEF StitchStart, Types, Side, world
<1>2. sAt \in DOMAIN tree["start"] /\ "start" \in Side /\ tree["start"] \in Seq(Node)
  BY <1>1 DEF StitchInv, Types, Side
<1>3. sq \in Cfg /\ up \in Nat /\ up < sAt /\ up \in 0 .. Len(tree["start"])
  <2>1. sq \in Cfg /\ up \in Nat /\ up < sAt
    BY <1>2, NodeInTree DEF ParentsPrecedeChildren
  <2>2. sAt \in 1 .. Len(tree["start"])
    BY <1>2
  <2>. QED
    BY <2>1, <2>2
<1>4. /\ up = 0 => sq = Start
      /\ up # 0 => upq \notin hits /\ EdgeClear(upq, sq)
  BY <1>2, <1>3 DEF SearchInv, CollidingNodesAreLeaves
<1>5. path \in Seq(Cfg) /\ Len(path) \in Nat /\ DOMAIN path = 1 .. Len(path)
  BY DEF Types
<1>6. /\ path' \in Seq(Cfg) /\ Len(path') = Len(path) + 1 /\ path'[1] = sq
      /\ \A i \in 2 .. Len(path') : path'[i] = path[i - 1]
  BY <1>1, <1>3, <1>5, Prepend
<1>7. DOMAIN path' = 1 .. Len(path') /\ path' # <<>>
  BY <1>5, <1>6
<1>8. path = <<>> \/ Len(path) > 0
  BY <1>5
<1>9. /\ gAt \in 0 .. Len(tree["goal"]) /\ gAt # 0
      /\ \A i \in 1 .. Len(path) - 1 : EdgeClear(path[i], path[i + 1])
      /\ path # <<>> => EdgeClear(sq, path[1]) /\ sq \notin hits
      /\ path = <<>> => EdgeClear(sq, gq)
      /\ path # <<>> => EdgeClear(path[Len(path)], gq)
      /\ sq \in hits => gq \notin hits
      /\ (\E i \in DOMAIN path : path[i] \in hits) => gq \notin hits
      /\ \A i, j \in DOMAIN path : path[i] \in hits /\ path[j] \in hits => i = j
  BY <1>1 DEF StitchInv
<1>10. \A i \in 1 .. Len(path') - 1 : EdgeClear(path'[i], path'[i + 1])
  <2>1. SUFFICES ASSUME NEW i \in 1 .. Len(path') - 1
                 PROVE  EdgeClear(path'[i], path'[i + 1])
    OBVIOUS
  <2>2. CASE i = 1
    <3>1. path # <<>> /\ path'[2] = path[1]
      BY <1>5, <1>6, <2>2
    <3>. QED
      BY <1>6, <1>9, <2>2, <3>1
  <2>3. CASE i # 1
    <3>1. path'[i] = path[i - 1] /\ path'[i + 1] = path[i] /\ i - 1 \in 1 .. Len(path) - 1
      BY <1>5, <1>6, <2>3
    <3>2. EdgeClear(path[i - 1], path[(i - 1) + 1])
      BY <1>9, <3>1
    <3>. QED
      BY <3>1, <3>2
  <2>. QED
    BY <2>2, <2>3
<1>11. EdgeClear(path'[Len(path')], gq)
  <2>1. CASE path = <<>>
    BY <1>6, <1>9, <2>1
  <2>2. CASE path # <<>>
    <3>1. path'[Len(path')] = path[Len(path)]
      BY <1>5, <1>6, <1>8, <2>2
    <3>. QED
      BY <1>9, <2>2, <3>1
  <2>. QED
    BY <2>1, <2>2
<1>12. (\E i \in DOMAIN path' : path'[i] \in hits) => gq \notin hits
  <2>1. SUFFICES ASSUME NEW i \in DOMAIN path', path'[i] \in hits
                 PROVE  gq \notin hits
    OBVIOUS
  <2>2. CASE i = 1
    BY <1>6, <1>9, <2>1, <2>2
  <2>3. CASE i # 1
    <3>1. i - 1 \in DOMAIN path /\ path'[i] = path[i - 1]
      BY <1>5, <1>6, <1>7, <2>3
    <3>. QED
      BY <1>9, <2>1, <3>1
  <2>. QED
    BY <2>2, <2>3
<1>13. \A i, j \in DOMAIN path' : path'[i] \in hits /\ path'[j] \in hits => i = j
  <2>1. SUFFICES ASSUME NEW i \in DOMAIN path', NEW j \in DOMAIN path',
                        path'[i] \in hits, path'[j] \in hits
                 PROVE  i = j
    OBVIOUS
  <2>2. ASSUME path = <<>>
        PROVE  i = 1 /\ j = 1
    BY <1>6, <1>7, <2>2
  <2>3. ASSUME path # <<>>
        PROVE  /\ i - 1 \in DOMAIN path /\ path'[i] = path[i - 1]
               /\ j - 1 \in DOMAIN path /\ path'[j] = path[j - 1]
    <3>1. path'[1] \notin hits
      BY <1>6, <1>9, <2>3
    <3>2. i # 1 /\ j # 1
      BY <2>1, <3>1
    <3>. QED
      BY <1>5, <1>6, <1>7, <3>2
  <2>4. ASSUME path # <<>>
        PROVE  i - 1 = j - 1
    BY <1>9, <2>1, <2>3, <2>4
  <2>. QED
    BY <1>5, <1>7, <2>2, <2>4
<1>14. /\ at'["start"] # 0 => EdgeClear(upq, path'[1]) /\ upq \notin hits
       /\ at'["start"] = 0 => path'[1] = Start
  BY <1>1, <1>4, <1>6
<1> HIDE DEF sAt, gAt, sq, gq, up, upq
<1>. QED
  BY <1>1, <1>3, <1>7, <1>9, <1>10, <1>11, <1>12, <1>13, <1>14
     DEF StitchInv, EdgeClear, up, upq, gq

LEMMA GoalStitch ==
  ASSUME Types, SearchInv, ParentsPrecedeChildren, CollidingNodesAreLeaves, StitchInv,
         StitchGoal
  PROVE  StitchInv'
<1> DEFINE gAt == at["goal"]
           gq == tree["goal"][gAt].q
           up == tree["goal"][gAt].parent
           upq == tree["goal"][up].q
<1>1. /\ pc = "stitch" /\ at["start"] = 0 /\ gAt # 0 /\ path' = Append(path, gq)
      /\ at'["start"] = 0 /\ at'["goal"] = up
      /\ tree' = tree /\ hits' = hits /\ mid' = mid /\ goals' = goals
  BY DEF StitchGoal, Types, Side, world
<1>2. gAt \in DOMAIN tree["goal"] /\ "goal" \in Side /\ tree["goal"] \in Seq(Node)
  BY <1>1 DEF StitchInv, Types, Side
<1>3. gq \in Cfg /\ up \in Nat /\ up < gAt /\ up \in 0 .. Len(tree["goal"])
  <2>1. gq \in Cfg /\ up \in Nat /\ up < gAt
    BY <1>2, NodeInTree DEF ParentsPrecedeChildren
  <2>2. gAt \in 1 .. Len(tree["goal"])
    BY <1>2
  <2>. QED
    BY <2>1, <2>2
<1>4. /\ up = 0 => \E j \in DOMAIN goals : gq = goals[j]
      /\ up # 0 => upq \notin hits /\ EdgeClear(gq, upq)
  <2>1. up # 0 => upq \notin hits /\ EdgeClear(upq, gq)
    BY <1>2, <1>3 DEF CollidingNodesAreLeaves
  <2>2. up = 0 => \E j \in DOMAIN goals : gq = goals[j]
    BY <1>2 DEF SearchInv
  <2> HIDE DEF gq, upq, up
  <2>. QED
    BY <2>1, <2>2, EdgeClearSymmetric
<1>5. path \in Seq(Cfg) /\ Len(path) \in Nat /\ DOMAIN path = 1 .. Len(path)
  BY DEF Types
<1>6. /\ path' \in Seq(Cfg) /\ Len(path') = Len(path) + 1 /\ path'[Len(path')] = gq
      /\ \A i \in 1 .. Len(path) : path'[i] = path[i]
  BY <1>1, <1>3, <1>5, Postpend
<1>7. /\ path # <<>> /\ path[1] = Start
      /\ EdgeClear(path[Len(path)], gq)
      /\ \A i \in 1 .. Len(path) - 1 : EdgeClear(path[i], path[i + 1])
      /\ (\E i \in DOMAIN path : path[i] \in hits) => gq \notin hits
      /\ \A i, j \in DOMAIN path : path[i] \in hits /\ path[j] \in hits => i = j
  BY <1>1 DEF StitchInv
<1>8. Len(path) > 0 /\ Len(path') >= 2 /\ path' # <<>> /\ path'[1] = Start
  BY <1>5, <1>6, <1>7
<1>9. DOMAIN path' = 1 .. Len(path')
  BY <1>6
<1>10. \A i \in 1 .. Len(path') - 1 : EdgeClear(path'[i], path'[i + 1])
  <2>1. Len(path') - 1 = Len(path)
    BY <1>5, <1>6
  <2>2. EdgeClear(path'[Len(path)], path'[Len(path) + 1])
    BY <1>5, <1>6, <1>7, <1>8
  <2>3. \A i \in 1 .. Len(path) - 1 : EdgeClear(path'[i], path'[i + 1])
    BY <1>5, <1>6, <1>7
  <2>4. \A i \in 1 .. Len(path) : i = Len(path) \/ i \in 1 .. Len(path) - 1
    <3>1. \A n \in Nat : \A i \in 1 .. n : i = n \/ i \in 1 .. n - 1
      OBVIOUS
    <3>. QED
      BY <1>5, <3>1
  <2>. QED
    BY <2>1, <2>2, <2>3, <2>4
<1>11. \A i, j \in DOMAIN path' : path'[i] \in hits /\ path'[j] \in hits => i = j
  <2>1. SUFFICES ASSUME NEW i \in DOMAIN path', NEW j \in DOMAIN path',
                        path'[i] \in hits, path'[j] \in hits
                 PROVE  i = j
    OBVIOUS
  <2>2. CASE gq \in hits
    <3>1. \A k \in DOMAIN path' : path'[k] \in hits => k = Len(path')
      BY <1>5, <1>6, <1>7, <1>9, <2>2
    <3>. QED
      BY <2>1, <3>1
  <2>3. CASE gq \notin hits
    <3>1. \A k \in DOMAIN path' : path'[k] \in hits => k \in DOMAIN path /\ path'[k] = path[k]
      BY <1>5, <1>6, <1>9, <2>3
    <3>. QED
      BY <1>7, <2>1, <3>1
  <2>. QED
    BY <2>2, <2>3
<1>12. at'["goal"] # 0 => EdgeClear(path'[Len(path')], upq) /\ upq \notin hits
  BY <1>1, <1>4, <1>6
<1>13. at'["goal"] = 0 => \E j \in DOMAIN goals : path'[Len(path')] = goals[j]
  BY <1>1, <1>4, <1>6
<1> HIDE DEF gAt, gq, up, upq
<1>. QED
  BY <1>1, <1>3, <1>8, <1>10, <1>11, <1>12, <1>13 DEF StitchInv, EdgeClear, up, upq

LEMMA StitchPreserved ==
  ASSUME Types, SearchInv, ParentsPrecedeChildren, CollidingNodesAreLeaves, StitchInv,
         [Next]_vars
  PROVE  StitchInv'
<1>1. CASE Bridge
  BY <1>1, BridgeStitch
<1>2. CASE StitchStart
  BY <1>2, StartStitch
<1>3. CASE StitchGoal
  BY <1>3, GoalStitch
<1>4. CASE ClockExpires \/ UNCHANGED vars
  <2>1. UNCHANGED <<hits, mid, goals, tree, at, path, pc>>
    BY <1>4 DEF ClockExpires, vars, world, search
  <2>. QED
    BY <2>1 DEF StitchInv, EdgeClear
<1>5. CASE Reject \/ Infeasible \/ BeginProbe \/ ProbeGoal \/ GoalsBlocked \/ PlantTrees
           \/ DirectConnection \/ NoDirectConnection \/ GrowBatch \/ KeepCandidate
           \/ BeginBridge \/ SwapTrees \/ Solved \/ GiveUp
  <2>1. pc' # "stitch"
    BY <1>5 DEF Reject, Infeasible, BeginProbe, ProbeGoal, GoalsBlocked, PlantTrees,
                DirectConnection, NoDirectConnection, GrowBatch, KeepCandidate,
                BeginBridge, SwapTrees, Solved, GiveUp, Finish
  <2>. QED
    BY <2>1 DEF StitchInv
<1>. QED
  BY <1>1, <1>2, <1>3, <1>4, <1>5 DEF Next, Step

LEMMA PathSoundPreserved ==
  ASSUME Types, SearchInv, StitchInv, PathSound, [Next]_vars
  PROVE  PathSound'
<1>1. hits' = hits /\ mid' = mid /\ wanted' = wanted
  BY WorldUnchanged DEF world
<1>2. CASE DirectConnection
  <2>1. PICK i \in DOMAIN goals : Accepted(Start, goals[i]) /\ path' = <<Start, goals[i]>>
    BY <1>2 DEF DirectConnection
  <2>2. goals[i] \in Cfg
    BY DEF Types
  <2>3. EdgeClear(Start, goals[i]) /\ Start \notin hits
    BY <2>1, <2>2, AcceptedClear, RrtAssumption DEF Types
  <2>4. goals[i] \notin hits /\ \E j \in DOMAIN wanted : goals[i] = wanted[j]
    BY DEF SearchInv
  <2>5. Len(path') = 2 /\ path'[1] = Start /\ path'[2] = goals[i] /\ DOMAIN path' = 1 .. 2
    BY <2>1
  <2>6. \A j \in DOMAIN path' : path'[j] \notin hits
    BY <2>3, <2>4, <2>5
  <2>7. \A j \in 1 .. Len(path') - 1 : EdgeClear(path'[j], path'[j + 1])
    BY <2>3, <2>5
  <2>. QED
    BY <1>1, <2>3, <2>4, <2>5, <2>6, <2>7 DEF PathSound, EdgeClear
<1>3. CASE Solved
  <2>1. /\ pc = "stitch" /\ at["start"] = 0 /\ at["goal"] = 0 /\ path' = path /\ goals' = goals
    BY <1>3 DEF Solved, search, Side
  <2>2. \A j \in DOMAIN goals :
          goals[j] \notin hits /\ \E i \in DOMAIN wanted : goals[j] = wanted[i]
    BY DEF SearchInv
  <2>3. Start \notin hits
    BY <2>1 DEF SearchInv
  <2>. QED
    BY <1>1, <2>1, <2>2, <2>3 DEF PathSound, StitchInv, EdgeClear
<1>4. CASE status' = status /\ pc # "done" /\ status = "none"
  BY <1>4 DEF PathSound
<1>5. CASE Reject \/ Infeasible \/ GoalsBlocked \/ GiveUp
  BY <1>5 DEF Reject, Infeasible, GoalsBlocked, GiveUp, Finish, PathSound
<1>6. CASE BeginProbe \/ ProbeGoal \/ PlantTrees \/ NoDirectConnection \/ GrowBatch \/ KeepCandidate
           \/ BeginBridge \/ Bridge \/ SwapTrees \/ StitchStart \/ StitchGoal \/ ClockExpires
  <2>1. status' = status /\ pc # "done"
    BY <1>6 DEF BeginProbe, ProbeGoal, PlantTrees, NoDirectConnection, GrowBatch, KeepCandidate,
                BeginBridge, Bridge, SwapTrees, StitchStart, StitchGoal, ClockExpires
  <2>. QED
    BY <1>4, <2>1 DEF SearchInv
<1>7. CASE UNCHANGED vars
  BY <1>7 DEF vars, world, search, PathSound, EdgeClear
<1>. QED
  BY <1>2, <1>3, <1>5, <1>6, <1>7 DEF Next, Step

LEMMA IInvPreserved == IInv /\ [Next]_vars => IInv'
BY TypePreserved, SearchPreserved, ParentsPreserved, LeavesPreserved, StitchPreserved,
   PathSoundPreserved DEF IInv

(* Every reachable state of plan() is well typed: in particular the parent
   indices and build_path's cursors never leave their trees. *)
THEOREM TypeCorrect == Spec => []TypeOK
<1>1. ASSUME IInv
      PROVE  TypeOK
  <2>1. ASSUME NEW side \in Side, NEW i \in DOMAIN tree[side]
        PROVE  tree[side][i].parent \in 0 .. Len(tree[side])
    <3>1. tree[side] \in Seq(Node) /\ tree[side][i].parent \in Nat
      BY <1>1, NodeInTree DEF IInv, Types
    <3>2. i \in Nat /\ i <= Len(tree[side]) /\ Len(tree[side]) \in Nat
      BY <3>1
    <3>. QED
      BY <1>1, <3>1, <3>2 DEF IInv, ParentsPrecedeChildren
  <2>2. pc = "stitch" => \A side \in Side : at[side] \in 0 .. Len(tree[side])
    BY <1>1 DEF IInv, StitchInv, Side
  <2>. QED
    BY <1>1, <2>1, <2>2 DEF IInv, TypeOK
<1>. QED
  BY InitIInv, IInvPreserved, <1>1, PTL DEF Spec

(* In both trees parents precede children, so build_path's walk ends. *)
THEOREM ParentsFirst == Spec => []ParentsPrecedeChildren
<1>1. IInv => ParentsPrecedeChildren
  BY DEF IInv
<1>. QED
  BY InitIInv, IInvPreserved, <1>1, PTL DEF Spec

(* A node that collides enters a tree only as a leaf, although batch_check
   cannot tell an edge that ends in a collision from a free one. *)
THEOREM OnlyLeavesCollide == Spec => []CollidingNodesAreLeaves
<1>1. IInv => CollidingNodesAreLeaves
  BY DEF IInv
<1>. QED
  BY InitIInv, IInvPreserved, <1>1, PTL DEF Spec

(* A Success path starts at the start, ends at a free goal configuration, has
   free edge interiors, and at most one waypoint of it collides. *)
THEOREM PathsSound == Spec => []PathSound
<1>1. IInv => PathSound
  BY DEF IInv
<1>. QED
  BY InitIInv, IInvPreserved, <1>1, PTL DEF Spec

-------------------------------------------------------------------------------
(* What plan() knows when it gives up: every free goal configuration is among
   the goals, and no direct edge to a goal was accepted. *)
Searching == {"direct", "loop", "grow", "bridge", "stitch"}

FailInv ==
  /\ pc = "validate" => probed = 0
  /\ pc \in {"probe"} \cup Searching =>
       \A i \in 1 .. probed : wanted[i] \in hits \/ \E j \in DOMAIN goals : goals[j] = wanted[i]
  /\ pc \in Searching => probed = Len(wanted)
  /\ pc \in Searching \ {"direct"} => \A j \in DOMAIN goals : ~ Accepted(Start, goals[j])
  /\ FailureJustified

LEMMA InitFailInv == Init => FailInv
  BY DEF Init, FailInv, FailureJustified, Searching

(* A direct edge that was not accepted is no way out. *)
LEMMA NoWayOut ==
  ASSUME Types, SearchInv, FailInv, pc \in Searching \ {"direct"}
  PROVE  \A i \in DOMAIN wanted : wanted[i] \in hits \/ ~ EdgeClear(Start, wanted[i])
<1> SUFFICES ASSUME NEW i \in DOMAIN wanted, wanted[i] \notin hits
             PROVE  ~ EdgeClear(Start, wanted[i])
  OBVIOUS
<1>1. i \in 1 .. probed
  BY DEF Types, FailInv
<1>2. PICK j \in DOMAIN goals : goals[j] = wanted[i]
  BY <1>1 DEF FailInv
<1>3. goals \in Seq(Cfg) /\ Start \in Cfg /\ Start \notin hits
  BY RrtAssumption DEF Types, SearchInv, Searching
<1>4. goals[j] \in Cfg
  BY <1>3
<1>. QED
  BY <1>2, <1>3, <1>4, ClearAccepted DEF FailInv

LEMMA FailPreserved ==
  ASSUME Types, SearchInv, FailInv, [Next]_vars
  PROVE  FailInv'
<1> USE DEF FailInv, Searching
<1>0. /\ hits' = hits /\ mid' = mid /\ wanted' = wanted
      /\ \A p, q : Accepted(p, q)' <=> Accepted(p, q)
  <2>1. hits' = hits /\ mid' = mid /\ wanted' = wanted
    BY WorldUnchanged DEF world
  <2>2. \A p, q : FirstContact(p, q)' = FirstContact(p, q)
    BY <2>1 DEF FirstContact, SampleHit
  <2>. QED
    BY <2>1, <2>2 DEF Accepted
<1>1. ASSUME status' = "none" PROVE FailureJustified'
  BY <1>1 DEF FailureJustified
<1>2. pc # "done" => status = "none"
  BY DEF SearchInv
<1>3. CASE Reject
  BY <1>3 DEF Reject, Finish, FailureJustified
<1>4. CASE Infeasible
  <2>1. wanted = <<>> => DOMAIN wanted = {}
    OBVIOUS
  <2>. QED
    BY <1>0, <1>4, <2>1 DEF Infeasible, Finish, FailureJustified
<1>5. CASE BeginProbe
  BY <1>0, <1>1, <1>2, <1>5 DEF BeginProbe, search
<1>6. CASE ProbeGoal
  <2> DEFINE w == wanted[probed + 1]
  <2>1. /\ pc = "probe" /\ pc' = "probe" /\ status' = status /\ probed' = probed + 1
        /\ goals' = IF w \in hits THEN goals ELSE Append(goals, w)
    BY <1>6 DEF ProbeGoal
  <2>2. /\ goals \in Seq(Cfg) /\ probed \in Nat /\ w \in Cfg
    BY <1>6 DEF ProbeGoal, Types
  <2>3. /\ \A j \in DOMAIN goals : j \in DOMAIN goals' /\ goals'[j] = goals[j]
        /\ w \notin hits => \E j \in DOMAIN goals' : goals'[j] = w
    <3> HIDE DEF w
    <3>1. CASE w \in hits
      BY <2>1, <3>1
    <3>2. CASE w \notin hits
      <4>1. goals' = Append(goals, w)
        BY <2>1, <3>2
      <4>2. /\ Len(goals') = Len(goals) + 1 /\ goals'[Len(goals) + 1] = w
            /\ \A j \in 1 .. Len(goals) : goals'[j] = goals[j]
            /\ DOMAIN goals' = 1 .. Len(goals) + 1 /\ DOMAIN goals = 1 .. Len(goals)
        BY <2>2, <4>1
      <4>3. Len(goals) \in Nat
        BY <2>2
      <4>. QED
        BY <4>2, <4>3
    <3>. QED
      BY <3>1, <3>2
  <2>4. \A i \in 1 .. probed' : i \in 1 .. probed \/ i = probed + 1
    BY <2>1, <2>2
  <2>5. ASSUME NEW i \in 1 .. probed'
        PROVE  wanted'[i] \in hits' \/ \E j \in DOMAIN goals' : goals'[j] = wanted'[i]
    BY <1>0, <2>1, <2>3, <2>4
  <2>. QED
    BY <1>1, <1>2, <2>1, <2>5
<1>7. CASE GoalsBlocked
  <2>1. /\ pc = "probe" /\ probed = Len(wanted) /\ DOMAIN goals = {}
        /\ pc' = "done" /\ status' = "NoSolution"
    BY <1>7 DEF GoalsBlocked, Finish
  <2>2. \A i \in DOMAIN wanted : i \in 1 .. probed
    BY <2>1 DEF Types
  <2>3. \A i \in DOMAIN wanted : wanted[i] \in hits
    BY <2>1, <2>2
  <2>. QED
    BY <1>0, <2>1, <2>3 DEF FailureJustified
<1>8. CASE PlantTrees
  BY <1>0, <1>1, <1>2, <1>8 DEF PlantTrees
<1>9. CASE DirectConnection
  BY <1>9 DEF DirectConnection, Finish, FailureJustified
<1>10. CASE NoDirectConnection
  BY <1>0, <1>1, <1>2, <1>10 DEF NoDirectConnection, search
<1>11. CASE GiveUp
  <2>1. /\ pc = "loop" /\ pc' = "done" /\ iterations' = iterations /\ expired' = expired
        /\ status' = IF expired THEN "Timeout" ELSE "NoSolution"
        /\ expired \/ iterations = MaxIterations
    BY <1>11 DEF GiveUp, Finish, search
  <2>2. \A i \in DOMAIN wanted : wanted[i] \in hits \/ ~ EdgeClear(Start, wanted[i])
    BY <2>1, NoWayOut
  <2>. QED
    BY <1>0, <2>1, <2>2 DEF FailureJustified, EdgeClear
<1>12. CASE Solved
  BY <1>12 DEF Solved, Finish, FailureJustified
<1>13. CASE GrowBatch \/ KeepCandidate \/ BeginBridge \/ Bridge \/ SwapTrees \/ StitchStart \/ StitchGoal
  <2>1. /\ pc \in Searching \ {"direct"} /\ pc' \in Searching \ {"direct"} /\ pc # "done"
        /\ status' = status /\ probed' = probed /\ goals' = goals
    BY <1>13 DEF GrowBatch, KeepCandidate, BeginBridge, Bridge, SwapTrees, StitchStart, StitchGoal,
                 search
  <2>. QED
    BY <1>0, <1>1, <1>2, <2>1
<1>14. CASE ClockExpires
  BY <1>0, <1>1, <1>2, <1>14 DEF ClockExpires, search
<1>15. CASE UNCHANGED vars
  BY <1>0, <1>15 DEF vars, search, FailureJustified, EdgeClear
<1>. QED
  BY <1>3, <1>4, <1>5, <1>6, <1>7, <1>8, <1>9, <1>10, <1>11, <1>12, <1>13, <1>14, <1>15
     DEF Next, Step

LEMMA Invariance == Spec => [](IInv /\ FailInv)
<1>1. IInv => Types /\ SearchInv
  BY DEF IInv
<1>. QED
  BY InitIInv, IInvPreserved, InitFailInv, FailPreserved, <1>1, PTL DEF Spec

(* plan() never gives up with a way out left: NoSolution means an infeasible
   problem or a spent budget, Timeout means that the clock ran out, and after
   either no direct edge from a free start to a free goal was clear. *)
THEOREM FailuresJustified == Spec => []FailureJustified
<1>1. FailInv => FailureJustified
  BY DEF FailInv
<1>. QED
  BY Invariance, <1>1, PTL

-------------------------------------------------------------------------------
(* At most one: what the contract counts, the search keeps pairwise. *)
LEMMA AtMostOne ==
  ASSUME NEW w, NEW bad, \A i, j \in DOMAIN w : w[i] \in bad /\ w[j] \in bad => i = j
  PROVE  Cardinality({i \in DOMAIN w : w[i] \in bad}) <= 1
<1> DEFINE colliding == {i \in DOMAIN w : w[i] \in bad}
<1>1. CASE colliding = {}
  BY <1>1, FS_EmptySet
<1>2. CASE colliding # {}
  <2>1. PICK i \in colliding : TRUE
    BY <1>2
  <2>2. colliding = {i}
    BY <2>1
  <2>. QED
    BY <2>2, FS_Singleton
<1>. QED
  BY <1>1, <1>2

(* A sound path is a solution in the sense of the contract. *)
LEMMA SoundIsSolution ==
  ASSUME PathSound', status' = "Success", hits' = hits, mid' = mid, wanted' = wanted
  PROVE  Contract!IsSolution(path')
<1>1. /\ Len(path') >= 2 /\ path'[1] = Start
      /\ \E i \in DOMAIN wanted : path'[Len(path')] = wanted[i]
      /\ \A i \in 1 .. Len(path') - 1 : {path'[i], path'[i + 1]} \notin mid
      /\ \A i, j \in DOMAIN path' : path'[i] \in hits /\ path'[j] \in hits => i = j
  BY DEF PathSound, EdgeClear
<1>2. Cardinality({i \in DOMAIN path' : path'[i] \in hits}) <= 1
  BY <1>1, AtMostOne
<1> DEFINE w == path'
<1> HIDE DEF w
<1>3. Len(w) >= 2 /\ w[1] = Start /\ (\E i \in DOMAIN wanted : w[Len(w)] = wanted[i])
  BY <1>1 DEF w
<1>4. \A i \in 1 .. Len(w) - 1 : Contract!EdgeClear(w[i], w[i + 1])
  BY <1>1 DEF w, Contract!EdgeClear
<1>5. Cardinality({i \in DOMAIN w : w[i] \in hits}) <= 1
  BY <1>2 DEF w
<1>6. Contract!IsSolution(w)
  BY <1>3, <1>4, <1>5 DEF Contract!IsSolution, Cardinality, Contract!Cardinality
<1>. QED
  BY <1>6 DEF w

(* The safety part of the planner contract: a call of plan() starts where the
   contract starts, and each of its steps is one of its steps or invisible to
   it. *)
THEOREM StepsImplementContract == Spec => Contract!Init /\ [][Contract!Next]_Contract!vars
<1>1. Init => Contract!Init
  <2>1. LongEdges \subseteq SUBSET Cfg
    BY DEF LongEdges
  <2>. QED
    BY <2>1, RrtAssumption DEF Init, Contract!Init
<1>2. IInv /\ IInv' /\ [Next]_vars => [Contract!Next]_Contract!vars
  <2> SUFFICES ASSUME IInv, IInv', [Next]_vars
               PROVE  [Contract!Next]_Contract!vars
    OBVIOUS
  <2>1. hits' = hits /\ mid' = mid /\ wanted' = wanted
    BY WorldUnchanged DEF world, IInv
  <2>2. CASE status' = status /\ path' = path
    BY <2>1, <2>2 DEF Contract!vars
  <2>3. CASE status' = status /\ status = "none"
    BY <2>1, <2>3 DEF Contract!vars
  <2>4. CASE status = "none" /\ status' = "Success"
    <3>1. Contract!IsSolution(path')
      BY <2>1, <2>4, SoundIsSolution DEF IInv
    <3>2. Contract!Solve
      BY <2>1, <2>4, <3>1 DEF Contract!Solve
    <3>. QED
      BY <3>2 DEF Contract!Next
  <2>5. CASE status = "none" /\ status' \in {"Timeout", "NoSolution", "InvalidProblem"}
    BY <2>1, <2>5 DEF Contract!Next, Contract!Fail, Contract!Failure
  <2>6. pc # "done" => status = "none"
    BY DEF IInv, SearchInv
  <2>7. CASE Reject \/ Infeasible \/ GoalsBlocked \/ GiveUp
    BY <2>5, <2>6, <2>7 DEF Reject, Infeasible, GoalsBlocked, GiveUp, Finish
  <2>8. CASE DirectConnection \/ Solved
    BY <2>4, <2>6, <2>8 DEF DirectConnection, Solved, Finish
  <2>9. CASE BeginProbe \/ ProbeGoal \/ PlantTrees \/ NoDirectConnection \/ GrowBatch \/ KeepCandidate
             \/ BeginBridge \/ Bridge \/ SwapTrees \/ StitchStart \/ StitchGoal \/ ClockExpires
    BY <2>3, <2>6, <2>9 DEF BeginProbe, ProbeGoal, PlantTrees, NoDirectConnection, GrowBatch,
       KeepCandidate, BeginBridge, Bridge, SwapTrees, StitchStart, StitchGoal, ClockExpires
  <2>10. CASE UNCHANGED vars
    BY <2>2, <2>10 DEF vars
  <2>. QED
    BY <2>7, <2>8, <2>9, <2>10 DEF Next, Step
<1>. QED
  BY <1>1, <1>2, InitIInv, IInvPreserved, PTL DEF Spec

-------------------------------------------------------------------------------
(* How long a call can take *)

(* What one iteration may use: a step and a node for each candidate of the batch,
   a bridge for each node it added. *)
PerIteration == 3 * BatchSize + 3

Budget == (MaxIterations - iterations) * PerIteration

SizeOf(side) == Len(tree[side])

Nodes == SizeOf("start") + SizeOf("goal")

(* The steps plan() still has to take, from where it stands. *)
StepsFrom(here, budget, nodes, unprobed, free, ungrown, unbridged, unwalked) ==
  CASE here = "validate" -> budget + 2 * unprobed + free + 6
    [] here = "probe"    -> budget + 2 * unprobed + free + 5
    [] here = "direct"   -> budget + nodes + 3
    [] here = "loop"     -> budget + nodes + 2
    [] here = "grow"     -> budget + nodes + 4 + 3 * ungrown + unbridged
    [] here = "bridge"   -> budget + nodes + 3 + unbridged
    [] here = "stitch"   -> unwalked + 1
    [] here = "done"     -> 0

(* The steps that are left at most, the clock's included. *)
Left ==
  IF pc = "done" THEN 0
  ELSE StepsFrom(pc, Budget, Nodes, Len(wanted) - probed, Len(goals), Len(grow), Len(added),
                 at["start"] + at["goal"])
       + (IF expired THEN 0 ELSE 1)

CallBound == MaxIterations * PerIteration + 2 * Len(wanted) + 7

(* What is counted is never negative. *)
Sizes ==
  /\ Budget \in Nat /\ Nodes \in Nat /\ PerIteration \in Nat
  /\ Len(wanted) - probed \in Nat /\ Len(wanted) \in Nat
  /\ Len(goals) \in Nat /\ Len(grow) \in Nat /\ Len(added) \in Nat
  /\ SizeOf("start") \in Nat /\ SizeOf("goal") \in Nat
  /\ at["start"] \in Nat /\ at["goal"] \in Nat /\ at["start"] + at["goal"] \in Nat
  /\ iterations \in Nat /\ MaxIterations - iterations \in Nat

LEMMA LengthsNat == IInv => Sizes
<1> SUFFICES ASSUME IInv
             PROVE  Sizes
  OBVIOUS
<1>1. BatchSize \in Nat /\ MaxIterations \in Nat
  BY RrtAssumption
<1>2. PerIteration \in Nat
  BY <1>1 DEF PerIteration
<1>3. iterations \in Nat /\ MaxIterations - iterations \in Nat
  BY <1>1 DEF IInv, Types
<1>4. Budget \in Nat
  <2> DEFINE k == MaxIterations - iterations
             each == PerIteration
  <2>1. k \in Nat /\ each \in Nat
    BY <1>2, <1>3
  <2>2. Budget = k * each
    BY DEF Budget
  <2> HIDE DEF k, each
  <2>3. \A x, y \in Nat : x * y \in Nat
    OBVIOUS
  <2>. QED
    BY <2>1, <2>2, <2>3
<1>5. SizeOf("start") \in Nat /\ SizeOf("goal") \in Nat
  BY DEF IInv, Types, Side, SizeOf
<1>6. at["start"] \in Nat /\ at["goal"] \in Nat
  BY DEF IInv, Types, Side
<1>7. Len(wanted) \in Nat /\ probed \in 0 .. Len(wanted)
  BY DEF IInv, Types
<1>8. Len(goals) \in Nat /\ Len(grow) \in Nat /\ Len(added) \in Nat
  BY DEF IInv, Types
<1>9. Nodes \in Nat
  BY <1>5 DEF Nodes
<1>. QED
  BY <1>2, <1>3, <1>4, <1>5, <1>6, <1>7, <1>8, <1>9 DEF Sizes

LEMMA NextLengthsNat == IInv' => Sizes'
  BY LengthsNat, PTL

(* What is left, with the numbers it is made of named. *)
LEMMA LeftIs ==
  ASSUME IInv
  PROVE  \E b, n, w, g, r, a, s \in Nat :
           /\ b = Budget /\ n = Nodes /\ w = Len(wanted) - probed /\ g = Len(goals)
           /\ r = Len(grow) /\ a = Len(added) /\ s = at["start"] + at["goal"]
           /\ Left = IF pc = "done" THEN 0
                     ELSE StepsFrom(pc, b, n, w, g, r, a, s) + (IF expired THEN 0 ELSE 1)
<1>1. Sizes
  BY LengthsNat
<1>. QED
  BY <1>1 DEF Sizes, Left

LEMMA NextLeftIs ==
  ASSUME IInv'
  PROVE  \E b, n, w, g, r, a, s \in Nat :
           /\ b = Budget' /\ n = Nodes' /\ w = Len(wanted') - probed' /\ g = Len(goals')
           /\ r = Len(grow') /\ a = Len(added') /\ s = at'["start"] + at'["goal"]
           /\ Left' = IF pc' = "done" THEN 0
                      ELSE StepsFrom(pc', b, n, w, g, r, a, s) + (IF expired' THEN 0 ELSE 1)
<1>1. Sizes'
  BY NextLengthsNat
<1>. QED
  BY <1>1 DEF Sizes, Left

LEMMA StepsPositive ==
  ASSUME NEW here \in PC \ {"done"},
         NEW b \in Nat, NEW n \in Nat, NEW w \in Nat, NEW g \in Nat, NEW r \in Nat, NEW a \in Nat, NEW s \in Nat
  PROVE  StepsFrom(here, b, n, w, g, r, a, s) \in Nat \ {0}
BY DEF StepsFrom, PC

LEMMA LeftNat == IInv => Left \in Nat
<1> SUFFICES ASSUME IInv
             PROVE  Left \in Nat
  OBVIOUS
<1>1. PICK b, n, w, g, r, a, s \in Nat :
        /\ b = Budget /\ n = Nodes /\ w = Len(wanted) - probed /\ g = Len(goals)
        /\ r = Len(grow) /\ a = Len(added) /\ s = at["start"] + at["goal"]
        /\ Left = IF pc = "done" THEN 0
                  ELSE StepsFrom(pc, b, n, w, g, r, a, s) + (IF expired THEN 0 ELSE 1)
  BY LeftIs
<1>2. pc \in PC
  BY DEF IInv, Types
<1>3. CASE pc = "done"
  BY <1>1, <1>3
<1>4. CASE pc # "done"
  <2>1. PICK k \in Nat : k = StepsFrom(pc, b, n, w, g, r, a, s)
    BY <1>2, <1>4, StepsPositive
  <2>. QED
    BY <1>1, <1>4, <2>1
<1>. QED
  BY <1>3, <1>4

LEMMA TreeGrows ==
  ASSUME IInv, KeepCandidate
  PROVE  Nodes' <= Nodes + 1 /\ Nodes' \in Nat /\ Len(added') <= Len(added) + 1 /\ Len(added') \in Nat
<1> DEFINE n == Len(tree[active])
<1>1. /\ tree' \in [Side -> Seq(Node)] /\ tree'[Other(active)] = tree[Other(active)]
      /\ \/ tree' = tree /\ added' = added
         \/ Len(tree'[active]) = n + 1 /\ added' = Append(added, n + 1)
  BY KeepCandidateTree DEF IInv
<1>2. /\ added \in Seq(Nat) /\ tree \in [Side -> Seq(Node)] /\ n \in Nat
      /\ active = "start" \/ active = "goal"
  BY DEF IInv, Types, Side
<1>3. Len(added') <= Len(added) + 1 /\ Len(added') \in Nat
  BY <1>1, <1>2
<1>4. CASE tree' = tree
  <2>1. Nodes' = Nodes
    BY <1>4 DEF Nodes, SizeOf
  <2>. QED
    BY <1>3, <2>1, LengthsNat DEF Sizes
<1>5. CASE Len(tree'[active]) = n + 1
  <2>1. active' = active
    BY DEF KeepCandidate
  <2>2. SizeOf(active)' = SizeOf(active) + 1 /\ SizeOf(Other(active))' = SizeOf(Other(active))
    BY <1>1, <1>5, <2>1 DEF SizeOf, Other
  <2>3. PICK x \in Nat, y \in Nat : x = SizeOf("start") /\ y = SizeOf("goal")
    BY LengthsNat DEF Sizes
  <2>4. \/ SizeOf("start")' = x + 1 /\ SizeOf("goal")' = y
        \/ SizeOf("start")' = x /\ SizeOf("goal")' = y + 1
    <3>1. CASE active = "start"
      BY <2>1, <2>2, <2>3, <3>1 DEF Other
    <3>2. CASE active = "goal"
      BY <2>1, <2>2, <2>3, <3>2 DEF Other
    <3>. QED
      BY <1>2, <3>1, <3>2
  <2>5. Nodes = x + y /\ Nodes' = x + y + 1
    BY <2>3, <2>4 DEF Nodes
  <2>. QED
    BY <1>3, <2>5
<1>. QED
  BY <1>1, <1>4, <1>5

(* Every step uses up some of what is left. *)
LEMMA LeftFalls ==
  ASSUME IInv, IInv', Next
  PROVE  Left' < Left
<1>1. pc # "done" /\ pc \in PC
  BY DEF Next, Step, Reject, Infeasible, BeginProbe, ProbeGoal, GoalsBlocked, PlantTrees, DirectConnection,
     NoDirectConnection, GrowBatch, KeepCandidate, BeginBridge, Bridge, SwapTrees, StitchStart, StitchGoal,
     Solved, GiveUp, ClockExpires, IInv, Types
<1>2. PICK b, n, w, g, r, a, s \in Nat :
        /\ b = Budget /\ n = Nodes /\ w = Len(wanted) - probed /\ g = Len(goals)
        /\ r = Len(grow) /\ a = Len(added) /\ s = at["start"] + at["goal"]
        /\ Left = IF pc = "done" THEN 0
                  ELSE StepsFrom(pc, b, n, w, g, r, a, s) + (IF expired THEN 0 ELSE 1)
  BY LeftIs
<1>3. PICK b1, n1, w1, g1, r1, a1, s1 \in Nat :
        /\ b1 = Budget' /\ n1 = Nodes' /\ w1 = Len(wanted') - probed' /\ g1 = Len(goals')
        /\ r1 = Len(grow') /\ a1 = Len(added') /\ s1 = at'["start"] + at'["goal"]
        /\ Left' = IF pc' = "done" THEN 0
                   ELSE StepsFrom(pc', b1, n1, w1, g1, r1, a1, s1) + (IF expired' THEN 0 ELSE 1)
  BY NextLeftIs
<1>4. PICK k \in Nat : k = StepsFrom(pc, b, n, w, g, r, a, s) /\ k > 0
  <2>1. StepsFrom(pc, b, n, w, g, r, a, s) \in Nat \ {0}
    BY <1>1, StepsPositive
  <2>. QED
    BY <2>1
<1>5. Left = k + (IF expired THEN 0 ELSE 1)
  BY <1>1, <1>2, <1>4
<1>6. CASE pc' = "done"
  <2>1. Left' = 0
    BY <1>3, <1>6
  <2>2. Left = k \/ Left = k + 1
    BY <1>5
  <2>. QED
    BY <1>4, <2>1, <2>2
<1>7. ASSUME pc' # "done", expired' = expired,
             NEW k1 \in Nat, k1 = StepsFrom(pc', b1, n1, w1, g1, r1, a1, s1), k1 < k
      PROVE  Left' < Left
  <2>1. Left' = k1 + (IF expired THEN 0 ELSE 1)
    BY <1>3, <1>7
  <2>. QED
    BY <1>4, <1>5, <1>7, <2>1
<1>8. wanted' = wanted
  BY WorldUnchanged DEF world
<1>9. ASSUME tree' = tree
      PROVE  n1 = n
  BY <1>2, <1>3, <1>9 DEF Nodes, SizeOf
<1>10. ASSUME iterations' = iterations
       PROVE  b1 = b
  BY <1>2, <1>3, <1>10 DEF Budget
<1>11. CASE ClockExpires
  <2>1. /\ pc' = pc /\ ~ expired /\ expired' /\ probed' = probed /\ goals' = goals /\ grow' = grow
        /\ added' = added /\ at' = at /\ tree' = tree /\ iterations' = iterations
    BY <1>11 DEF ClockExpires, search
  <2>2. b1 = b /\ n1 = n
    BY <1>9, <1>10, <2>1
  <2>3. w1 = w /\ g1 = g /\ r1 = r /\ a1 = a /\ s1 = s
    BY <1>2, <1>3, <1>8, <2>1
  <2>4. Left' = k + 0
    BY <1>1, <1>3, <1>4, <2>1, <2>2, <2>3
  <2>. QED
    BY <1>4, <1>5, <2>1, <2>4
<1>12. CASE BeginProbe
  <2>1. /\ pc = "validate" /\ pc' = "probe" /\ expired' = expired /\ probed' = probed /\ goals' = goals
        /\ iterations' = iterations
    BY <1>12 DEF BeginProbe, search
  <2>2. b1 = b /\ w1 = w /\ g1 = g
    BY <1>2, <1>3, <1>8, <1>10, <2>1
  <2>3. k = b + 2 * w + g + 6
    BY <1>4, <2>1 DEF StepsFrom
  <2>4. PICK k1 \in Nat : k1 = StepsFrom(pc', b1, n1, w1, g1, r1, a1, s1) /\ k1 = b + 2 * w + g + 5
    BY <2>1, <2>2 DEF StepsFrom
  <2>. QED
    BY <1>7, <2>1, <2>3, <2>4
<1>13. CASE ProbeGoal
  <2>1. /\ pc = "probe" /\ pc' = "probe" /\ expired' = expired /\ probed' = probed + 1
        /\ goals' = goals \/ goals' = Append(goals, wanted[probed + 1])
        /\ iterations' = iterations /\ probed < Len(wanted)
    BY <1>13 DEF ProbeGoal
  <2>2. b1 = b
    BY <1>10, <2>1
  <2>3. w1 = w - 1
    <3>1. probed \in Nat /\ Len(wanted) \in Nat
      BY DEF IInv, Types
    <3>. QED
      BY <1>2, <1>3, <1>8, <2>1, <3>1
  <2>4. g1 <= g + 1
    <3>1. goals \in Seq(Cfg) /\ goals' \in Seq(Cfg)
      BY DEF IInv, Types
    <3>2. CASE goals' = goals
      BY <1>2, <1>3, <3>2
    <3>3. CASE goals' = Append(goals, wanted[probed + 1])
      <4>1. Len(goals') = Len(goals) + 1
        BY <3>1, <3>3
      <4>. QED
        BY <1>2, <1>3, <4>1
    <3>. QED
      BY <2>1, <3>2, <3>3
  <2>5. k = b + 2 * w + g + 5
    BY <1>4, <2>1 DEF StepsFrom
  <2>6. StepsFrom(pc', b1, n1, w1, g1, r1, a1, s1) = b1 + 2 * w1 + g1 + 5
    BY <2>1 DEF StepsFrom
  <2>7. PICK k1 \in Nat : k1 = b1 + 2 * w1 + g1 + 5
    OBVIOUS
  <2>8. k1 < k
    BY <2>2, <2>3, <2>4, <2>5, <2>7
  <2>. QED
    BY <1>7, <2>1, <2>6, <2>7, <2>8
<1>14. CASE PlantTrees
  <2>1. /\ pc = "probe" /\ pc' = "direct" /\ expired' = expired /\ probed = Len(wanted)
        /\ iterations' = iterations
    BY <1>14 DEF PlantTrees
  <2>2. n1 = g + 1
    <3>1. tree'["start"] = <<Root(Start)>> /\ tree'["goal"] = [i \in 1 .. Len(goals) |-> Root(goals[i])]
      BY <1>14 DEF PlantTrees, Side
    <3>2. SizeOf("goal")' = g
      BY <1>2, <3>1 DEF SizeOf
    <3>3. SizeOf("start")' = 1
      BY <3>1 DEF SizeOf
    <3>. QED
      BY <1>3, <3>2, <3>3 DEF Nodes
  <2>3. k = b + 2 * w + g + 5
    BY <1>4, <2>1 DEF StepsFrom
  <2>4. StepsFrom(pc', b1, n1, w1, g1, r1, a1, s1) = b1 + n1 + 3
    BY <2>1 DEF StepsFrom
  <2>5. PICK k1 \in Nat : k1 = b1 + n1 + 3
    OBVIOUS
  <2>6. b1 = b
    BY <1>10, <2>1
  <2>7. k1 < k
    BY <2>2, <2>3, <2>5, <2>6
  <2>. QED
    BY <1>7, <2>1, <2>4, <2>5, <2>7
<1>15. CASE NoDirectConnection
  <2>1. /\ pc = "direct" /\ pc' = "loop" /\ expired' = expired /\ tree' = tree /\ iterations' = iterations
    BY <1>15 DEF NoDirectConnection, search
  <2>2. k = b + n + 3
    BY <1>4, <2>1 DEF StepsFrom
  <2>3. PICK k1 \in Nat : k1 = StepsFrom(pc', b1, n1, w1, g1, r1, a1, s1) /\ k1 = b + n + 2
    BY <1>9, <1>10, <2>1 DEF StepsFrom
  <2>. QED
    BY <1>7, <2>1, <2>2, <2>3
<1>16. CASE GrowBatch
  <2>1. /\ pc = "loop" /\ pc' = "grow" /\ iterations' = iterations + 1 /\ tree' = tree
        /\ added' = <<>> /\ expired' = expired
    BY <1>16 DEF GrowBatch
  <2>2. r1 = BatchSize /\ a1 = 0
    <3>1. Len(grow') = BatchSize
      BY <1>16, RrtAssumption DEF GrowBatch
    <3>. QED
      BY <1>3, <2>1, <3>1
  <2>3. b = b1 + 3 * BatchSize + 3
    <3> DEFINE left  == MaxIterations - iterations
               left1 == MaxIterations - iterations'
    <3>1. iterations \in Int /\ MaxIterations \in Int
      BY RrtAssumption DEF IInv, Types
    <3>2. left \in Int /\ left1 = left - 1
      BY <2>1, <3>1
    <3>3. PerIteration = 3 * BatchSize + 3 /\ PerIteration \in Int
      BY RrtAssumption DEF PerIteration
    <3>4. \A x, y \in Int : (x - 1) * y = x * y - y
      OBVIOUS
    <3>5. b = left * PerIteration /\ b1 = left1 * PerIteration
      BY <1>2, <1>3 DEF Budget
    <3> HIDE DEF left, left1
    <3>6. b1 = left * PerIteration - PerIteration
      BY <3>2, <3>3, <3>4, <3>5
    <3>7. b1 = b - PerIteration
      BY <3>5, <3>6
    <3>. QED
      BY <3>3, <3>7, RrtAssumption
  <2>4. k = b + n + 2
    BY <1>4, <2>1 DEF StepsFrom
  <2>5. StepsFrom(pc', b1, n1, w1, g1, r1, a1, s1) = b1 + n1 + 4 + 3 * r1 + a1
    BY <2>1 DEF StepsFrom
  <2>6. PICK k1 \in Nat : k1 = b1 + n1 + 4 + 3 * r1 + a1
    OBVIOUS
  <2>7. n1 = n /\ BatchSize \in Nat
    BY <1>9, <2>1, RrtAssumption
  <2>8. k1 < k
    BY <2>2, <2>3, <2>4, <2>6, <2>7
  <2>. QED
    BY <1>7, <2>1, <2>5, <2>6, <2>8
<1>17. CASE KeepCandidate
  <2>1. pc = "grow" /\ pc' = "grow" /\ expired' = expired /\ iterations' = iterations
    BY <1>17 DEF KeepCandidate
  <2>2. r1 = r - 1
    <3>1. grow \in Seq(Node) /\ grow # <<>> /\ grow' = Tail(grow)
      BY <1>17 DEF KeepCandidate, IInv, Types
    <3>. QED
      BY <1>2, <1>3, <3>1
  <2>3. n1 <= n + 1 /\ a1 <= a + 1
    BY <1>2, <1>3, <1>17, TreeGrows
  <2>4. k = b + n + 4 + 3 * r + a
    BY <1>4, <2>1 DEF StepsFrom
  <2>5. PICK k1 \in Nat : k1 = StepsFrom(pc', b1, n1, w1, g1, r1, a1, s1) /\ k1 = b + n1 + 4 + 3 * r1 + a1
    BY <1>10, <2>1 DEF StepsFrom
  <2>. QED
    BY <1>7, <2>1, <2>2, <2>3, <2>4, <2>5
<1>18. CASE BeginBridge
  <2>1. /\ pc = "grow" /\ pc' = "bridge" /\ expired' = expired /\ iterations' = iterations /\ tree' = tree
        /\ added' = added
    BY <1>18 DEF BeginBridge, search
  <2>2. a1 = a
    BY <1>2, <1>3, <2>1
  <2>3. k = b + n + 4 + 3 * r + a
    BY <1>4, <2>1 DEF StepsFrom
  <2>4. PICK k1 \in Nat : k1 = StepsFrom(pc', b1, n1, w1, g1, r1, a1, s1) /\ k1 = b + n + 3 + a
    BY <1>9, <1>10, <2>1, <2>2 DEF StepsFrom
  <2>. QED
    BY <1>7, <2>1, <2>3, <2>4
<1>19. CASE Bridge
  <2>1. /\ pc = "bridge" /\ expired' = expired /\ iterations' = iterations /\ tree' = tree /\ added # <<>>
        /\ \/ pc' = "stitch"
           \/ pc' = "bridge" /\ added' = Tail(added)
    BY <1>19 DEF Bridge
  <2>2. k = b + n + 3 + a
    BY <1>4, <2>1 DEF StepsFrom
  <2>3. CASE pc' = "stitch"
    <3>1. at'["start"] \in 0 .. SizeOf("start")' /\ at'["goal"] \in 0 .. SizeOf("goal")'
      BY <2>3 DEF IInv, StitchInv, SizeOf
    <3>2. s1 <= n1
      <4>1. PICK x \in Nat, y \in Nat : x = SizeOf("start")' /\ y = SizeOf("goal")'
        BY NextLengthsNat DEF Sizes
      <4>2. n1 = x + y
        BY <1>3, <4>1 DEF Nodes
      <4>3. at'["start"] \in 0 .. x /\ at'["goal"] \in 0 .. y
        BY <3>1, <4>1
      <4>. QED
        BY <1>3, <4>2, <4>3
    <3>3. PICK k1 \in Nat : k1 = StepsFrom(pc', b1, n1, w1, g1, r1, a1, s1) /\ k1 = s1 + 1
      BY <2>3 DEF StepsFrom
    <3>. QED
      BY <1>7, <1>9, <2>1, <2>2, <2>3, <3>2, <3>3
  <2>4. CASE pc' = "bridge" /\ added' = Tail(added)
    <3>1. added \in Seq(Nat) /\ added # <<>>
      BY <2>1 DEF IInv, Types
    <3>2. a1 = a - 1
      BY <1>2, <1>3, <2>4, <3>1
    <3>3. StepsFrom(pc', b1, n1, w1, g1, r1, a1, s1) = b1 + n1 + 3 + a1
      BY <2>4 DEF StepsFrom
    <3>4. PICK k1 \in Nat : k1 = b1 + n1 + 3 + a1
      OBVIOUS
    <3>5. b1 = b /\ n1 = n
      BY <1>9, <1>10, <2>1
    <3>6. k1 < k
      BY <2>2, <3>2, <3>4, <3>5
    <3>. QED
      BY <1>7, <2>1, <2>4, <3>3, <3>4, <3>6
  <2>. QED
    BY <2>1, <2>3, <2>4
<1>20. CASE SwapTrees
  <2>1. /\ pc \in {"grow", "bridge"} /\ pc' = "loop" /\ expired' = expired /\ iterations' = iterations
        /\ tree' = tree
    BY <1>20 DEF SwapTrees
  <2>2. k >= b + n + 3
    BY <1>4, <2>1 DEF StepsFrom
  <2>3. PICK k1 \in Nat : k1 = StepsFrom(pc', b1, n1, w1, g1, r1, a1, s1) /\ k1 = b + n + 2
    BY <1>9, <1>10, <2>1 DEF StepsFrom
  <2>. QED
    BY <1>7, <2>1, <2>2, <2>3
<1>21. CASE StitchStart \/ StitchGoal
  <2>1. PICK side \in Side : /\ at[side] # 0 /\ at' = [at EXCEPT ![side] = tree[side][@].parent]
                             /\ pc = "stitch" /\ pc' = "stitch" /\ expired' = expired
    BY <1>21 DEF StitchStart, StitchGoal, Side
  <2>2. at \in [Side -> Nat] /\ at[side] \in DOMAIN tree[side]
    <3>1. at["start"] \in 0 .. SizeOf("start") /\ at["goal"] \in 0 .. SizeOf("goal")
      BY <2>1 DEF IInv, StitchInv, SizeOf
    <3>2. at \in [Side -> Nat] /\ tree[side] \in Seq(Node)
      BY DEF IInv, Types
    <3>3. DOMAIN tree[side] = 1 .. SizeOf(side) /\ SizeOf(side) \in Nat
      BY <3>2 DEF SizeOf
    <3>4. at[side] \in 0 .. SizeOf(side)
      BY <3>1 DEF Side
    <3>. QED
      BY <2>1, <3>2, <3>3, <3>4
  <2>3. tree[side][at[side]].parent < at[side]
    BY <2>2 DEF IInv, ParentsPrecedeChildren
  <2>4. at'[side] < at[side] /\ \A other \in Side : other # side => at'[other] = at[other]
    BY <2>1, <2>2, <2>3
  <2>5. at \in [Side -> Nat] /\ at' \in [Side -> Nat]
    BY DEF IInv, Types
  <2>6. s1 < s
    <3>1. PICK x, y, x1, y1 \in Nat : /\ x = at["start"] /\ y = at["goal"]
                                      /\ x1 = at'["start"] /\ y1 = at'["goal"]
      BY <2>5 DEF Side
    <3>2. (x1 < x /\ y1 = y) \/ (x1 = x /\ y1 < y)
      BY <2>4, <3>1 DEF Side
    <3>3. s = x + y /\ s1 = x1 + y1
      BY <1>2, <1>3, <3>1
    <3>. QED
      BY <3>2, <3>3
  <2>7. k = s + 1
    BY <1>4, <2>1 DEF StepsFrom
  <2>8. PICK k1 \in Nat : k1 = StepsFrom(pc', b1, n1, w1, g1, r1, a1, s1) /\ k1 = s1 + 1
    BY <2>1 DEF StepsFrom
  <2>. QED
    BY <1>7, <2>1, <2>6, <2>7, <2>8
<1>22. CASE Reject \/ Infeasible \/ GoalsBlocked \/ DirectConnection \/ Solved \/ GiveUp
  BY <1>6, <1>22 DEF Reject, Infeasible, GoalsBlocked, DirectConnection, Solved, GiveUp, Finish
<1>. QED
  BY <1>11, <1>12, <1>13, <1>14, <1>15, <1>16, <1>17, <1>18, <1>19, <1>20, <1>21, <1>22 DEF Next, Step

(* Whatever the scene, the samples and the clock, a call of plan() takes at most
   CallBound steps: what is left of them falls with each one, also while
   build_path walks trees as large as the search made them. *)
THEOREM CallsAreBounded == Spec => Left = CallBound /\ [](Left \in Nat) /\ [][Left' < Left]_vars
<1>1. Init => Left = CallBound
  <2> SUFFICES ASSUME Init
               PROVE  Left = CallBound
    OBVIOUS
  <2>1. pc = "validate" /\ ~ expired /\ iterations = 0 /\ probed = 0 /\ goals = <<>>
    BY DEF Init
  <2>2. IInv
    BY InitIInv
  <2>3. PICK b, n, w, g, r, a, s \in Nat :
          /\ b = Budget /\ n = Nodes /\ w = Len(wanted) - probed /\ g = Len(goals)
          /\ r = Len(grow) /\ a = Len(added) /\ s = at["start"] + at["goal"]
          /\ Left = IF pc = "done" THEN 0
                    ELSE StepsFrom(pc, b, n, w, g, r, a, s) + (IF expired THEN 0 ELSE 1)
    BY <2>2, LeftIs
  <2>4. b = MaxIterations * PerIteration
    BY <2>1, <2>3, RrtAssumption DEF Budget
  <2>5. Len(wanted) \in Nat
    BY <2>2 DEF IInv, Types
  <2>6. w = Len(wanted) /\ g = 0
    BY <2>1, <2>3, <2>5
  <2>7. Left = b + 2 * w + g + 6 + 1
    BY <2>1, <2>3 DEF StepsFrom
  <2>. QED
    BY <2>4, <2>6, <2>7 DEF CallBound
<1>2. IInv => Left \in Nat
  BY LeftNat
<1>3. IInv /\ IInv' /\ [Next]_vars => [Left' < Left]_vars
  BY LeftFalls
<1>. QED
  BY <1>1, <1>2, <1>3, InitIInv, IInvPreserved, PTL DEF Spec
===============================================================================
