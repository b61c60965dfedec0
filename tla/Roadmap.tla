-------------------------------- MODULE Roadmap --------------------------------
(***************************************************************************)
(* The roadmap PrmPlanner builds in its constructor (src/planning/prm.cpp, *)
(* build, k_nearest, connected_components): free samples become nodes,     *)
(* each proposes edges to its nearest neighbours, the free edges are kept, *)
(* and a union-find labels the connected components.  Joint space is a set *)
(* of configurations with a metric; a node is its index in `nodes`,        *)
(* counted from 1.  The scene is a set of colliding configurations and a   *)
(* set of edges with a colliding interior sample.                          *)
(***************************************************************************)
EXTENDS Integers, SequencesExt

CONSTANTS
  Cfg,         \* joint configurations
  Dist,        \* Dist[p][q]: joint-space distance
  Samples,     \* the sequences of num_nodes samples the seed may give
  KNeighbors,  \* PrmParams::k_neighbors
  Radius,      \* PrmParams::connection_radius, 0 for none
  MayCollide,  \* bound: configurations that collide in some scene
  MayBlock     \* bound: edges whose interior collides in some scene

ASSUME SpaceAssumption ==
  /\ Dist \in [Cfg -> [Cfg -> Nat]]
  /\ \A p \in Cfg : Dist[p][p] = 0
  /\ \A p, q \in Cfg : Dist[p][q] = Dist[q][p]
  /\ \A p, q, r \in Cfg : Dist[p][r] <= Dist[p][q] + Dist[q][r]

ASSUME RoadmapAssumption ==
  /\ Samples \subseteq Seq(Cfg)
  /\ KNeighbors \in Nat
  /\ Radius \in Nat
  /\ MayCollide \subseteq Cfg
  /\ \A e \in MayBlock : \E p, q \in Cfg : p # q /\ e = {p, q}

VARIABLES
  hits,    \* configurations in collision
  mid,     \* edges, as sets of two free configurations, with a colliding sample between
  stage,   \* "sample", "propose", "unite", "ready"
  nodes,   \* nodes_: the free samples
  turn,    \* the node whose neighbours are proposed next
  cand,    \* candidate edges <<a, b>> with a < b, in the order proposed
  edges,   \* kept_edges in that order, and with them adj_
  united,  \* how many of them the union-find has taken in
  parent,  \* the forest of the union-find
  comp     \* component_: labels counted from 0

scene == <<hits, mid>>
roadmap == <<stage, nodes, turn, cand, edges, united, parent, comp>>

FreeCfg(p) == p \notin hits

\* Mutant: the samples between the ends are not looked at.
FreeSegment_EndsOnly(p, q) == FreeCfg(p) /\ FreeCfg(q)

\* A segment is free when none of its samples collides, ends included.
FreeSegment(p, q) == FreeCfg(p) /\ FreeCfg(q) /\ {p, q} \notin mid

\* The r-th of the indices K, and the elements of s at these indices, in their order.
Place(K, r) == CHOOSE i \in K : Cardinality({j \in K : j < i}) = r - 1
Kept(s, K) == [r \in 1 .. Cardinality(K) |-> s[Place(K, r)]]

-------------------------------------------------------------------------------
\* k_nearest.

\* The order of the pairs (distance, index) that partial_sort compares.
Before(from, i, j) ==
  LET di == Dist[nodes[i]][from]
      dj == Dist[nodes[j]][from]
  IN  di < dj \/ (di = dj /\ i < j)

Others(exclude) == DOMAIN nodes \ {exclude}

\* The r-th of S in that order.
Nth(from, S, r) == CHOOSE i \in S : Cardinality({j \in S : Before(from, j, i)}) = r - 1

\* The sorted part: the k first in that order.
KFirst(from, exclude) ==
  {i \in Others(exclude) :
     Cardinality({j \in Others(exclude) : Before(from, j, i)}) < KNeighbors}

InRadius(from, exclude) ==
  {i \in Others(exclude) : Radius > 0 /\ Dist[nodes[i]][from] <= Radius}

\* partial_sort leaves the rest in an unspecified order, and the scan of it
\* stops at the first index outside the radius: it takes any of those inside,
\* or all of them when no other is left.
KNearest(from, exclude) ==
  LET rest == Others(exclude) \ KFirst(from, exclude)
      near == rest \cap InRadius(from, exclude)
  IN  {KFirst(from, exclude) \cup extra :
         extra \in IF near = rest THEN {near} ELSE SUBSET near}

-------------------------------------------------------------------------------
\* connected_components: a union-find with path halving.

Lesser(a, b) == IF a < b THEN a ELSE b
Greater(a, b) == IF a < b THEN b ELSE a

\* find(x) on the forest p: the forest it leaves and the root it returns.
Find(p, x) ==
  LET walk[s \in [DOMAIN p -> DOMAIN p] \X DOMAIN p] ==
        LET q == s[1]
            y == s[2]
        IN  IF q[y] = y THEN <<q, y>>
            ELSE LET h == [q EXCEPT ![y] = q[q[y]]] IN walk[<<h, h[y]>>]
  IN  walk[<<p, x>>]

\* Mutant: the nodes of the edge are linked, not the roots of their trees.
Link_Nodes(p, a, b) == [p EXCEPT ![Greater(a, b)] = Lesser(a, b)]

\* One edge: the larger root goes under the smaller.
Link(p, a, b) ==
  LET fa == Find(p, a)
      fb == Find(fa[1], b)
      ra == fa[2]
      rb == fb[2]
  IN  IF ra = rb THEN fb[1] ELSE [fb[1] EXCEPT ![Greater(ra, rb)] = Lesser(ra, rb)]

\* Labels are handed out in ascending node order, one to each new root.
Labels(p) ==
  [i \in DOMAIN p |->
     LET root(j) == Find(p, j)[2]
         first == CHOOSE j \in DOMAIN p : /\ root(j) = root(i)
                                         /\ \A k \in 1 .. j - 1 : root(k) # root(i)
     IN  Cardinality({root(j) : j \in 1 .. first - 1})]

-------------------------------------------------------------------------------
InitRoadmap ==
  /\ hits \in SUBSET MayCollide
  /\ mid \in SUBSET {e \in MayBlock : e \cap hits = {}}
  /\ stage = "sample"
  /\ nodes = <<>>
  /\ turn = 1
  /\ cand = <<>>
  /\ edges = <<>>
  /\ united = 0
  /\ parent = <<>>
  /\ comp = <<>>

\* The free samples of the fat batches; fewer than two nodes have no edges.
SampleNodes ==
  /\ stage = "sample"
  /\ \E s \in Samples : nodes' = Kept(s, {i \in DOMAIN s : FreeCfg(s[i])})
  /\ stage' = IF Len(nodes') >= 2 THEN "propose" ELSE "unite"
  /\ parent' = [i \in DOMAIN nodes' |-> i]
  /\ UNCHANGED <<scene, turn, cand, edges, united, comp>>

\* The pairs of node i with `near` that no earlier node proposed, nearest first
\* (partial_sort leaves the order of the extra ones open; no later step reads it).
NewPairs(i, near) ==
  LET pair(j) == <<Lesser(i, j), Greater(i, j)>>
      new == {j \in near : \A k \in DOMAIN cand : cand[k] # pair(j)}
  IN  [r \in 1 .. Cardinality(new) |-> pair(Nth(nodes[i], new, r))]

ProposeEdges ==
  /\ stage = "propose"
  /\ turn \in DOMAIN nodes
  /\ \E near \in KNearest(nodes[turn], turn) : cand' = cand \o NewPairs(turn, near)
  /\ turn' = turn + 1
  /\ UNCHANGED <<scene, stage, nodes, edges, united, parent, comp>>

ValidateEdges ==
  /\ stage = "propose"
  /\ turn \notin DOMAIN nodes
  /\ edges' = Kept(cand, {k \in DOMAIN cand : FreeSegment(nodes[cand[k][1]], nodes[cand[k][2]])})
  /\ cand' = <<>>
  /\ stage' = "unite"
  /\ UNCHANGED <<scene, nodes, turn, united, parent, comp>>

UniteEdge ==
  /\ stage = "unite"
  /\ united < Len(edges)
  /\ united' = united + 1
  /\ parent' = Link(parent, edges[united'][1], edges[united'][2])
  /\ UNCHANGED <<scene, stage, nodes, turn, cand, edges, comp>>

\* The forest is local to connected_components and dropped with it.
LabelComponents ==
  /\ stage = "unite"
  /\ united = Len(edges)
  /\ comp' = Labels(parent)
  /\ parent' = <<>>
  /\ stage' = "ready"
  /\ UNCHANGED <<scene, nodes, turn, cand, edges, united>>

Build ==
  \/ SampleNodes \/ ProposeEdges \/ ValidateEdges \/ UniteEdge \/ LabelComponents

-------------------------------------------------------------------------------
\* Nodes joined by a kept edge, in either direction: adj_.
Adjacent(i) == {j \in DOMAIN nodes : \E k \in DOMAIN edges : edges[k] \in {<<i, j>>, <<j, i>>}}

\* Nodes joined to i by a chain of kept edges, by definition.
Connected(i) ==
  LET ball[n \in Nat] ==
        IF n = 0 THEN {i}
        ELSE LET near == ball[n - 1] IN near \cup UNION {Adjacent(j) : j \in near}
  IN  ball[Len(nodes)]

\* "Connected components of an n-node undirected graph ... labels compacted to
\* [0, num_components), assigned in ascending node order" (prm.cpp:160-162).
\* The studio's diagnosis and colours rest on it.
ComponentsRight ==
  stage = "ready" =>
    \A i \in DOMAIN nodes :
       /\ {j \in DOMAIN nodes : comp[j] = comp[i]} = Connected(i)
       /\ comp[i] > 0 => \E k \in 1 .. i - 1 : comp[k] = comp[i] - 1 \/ comp[k] = comp[i]
===============================================================================
