------------------------------ MODULE PrmPlanner ------------------------------
(***************************************************************************)
(* PrmPlanner (src/planning/prm.cpp): the roadmap is built once, then      *)
(* plan() joins the start and the goals to it, searches the joined graph   *)
(* with A*, and shortens the path it finds.  One behaviour is a            *)
(* construction and one call of plan(); the graph's vertices are the nodes *)
(* 1 .. N, the start N + 1 and the free goals from N + 2 on.               *)
(***************************************************************************)
EXTENDS Roadmap

CONSTANTS
  Start,      \* problem.start
  GoalLists,  \* the lists of configurations resolve_goal may return
  Smooth      \* PrmParams::smooth

ASSUME QueryAssumption ==
  /\ Start \in Cfg
  /\ GoalLists \subseteq Seq(Cfg)
  /\ Smooth \in BOOLEAN

VARIABLES
  wanted,     \* goal configurations resolve_goal returned
  pc,         \* where plan() stands; "idle" before the call
  goals,      \* the free ones
  joined,     \* how many of start and goals have their connections
  extra,      \* connection edges, in both directions
  g_cost,     \* cost so far of the vertices reached
  came_from,  \* the vertex each of them was reached from
  open,       \* the heap, entries <<f, g, vertex>>
  path,       \* the path found, then result.path
  why,        \* what the message of a failed search says
  status      \* result.status, "none" before plan() returns

search == <<goals, joined, extra, g_cost, came_from, open>>
vars == <<scene, roadmap, wanted, pc, search, path, why, status>>

StartIdx == Len(nodes) + 1
GoalIdx == {StartIdx + k : k \in DOMAIN goals}
Vertices == 1 .. StartIdx + Len(goals)

ConfigAt(v) ==
  IF v \in DOMAIN nodes THEN nodes[v]
  ELSE IF v = StartIdx THEN Start ELSE goals[v - StartIdx]

Weight(u, v) == Dist[ConfigAt(u)][ConfigAt(v)]

Least(S) == CHOOSE x \in S : \A y \in S : x <= y

Heuristic(v) == Least({Weight(v, t) : t \in GoalIdx})

\* Mutant: roadmap edges are walked upward only.
Neighbors_Upward(v) ==
  {u \in DOMAIN nodes : \E k \in DOMAIN edges : edges[k] = <<v, u>>} \cup {u \in Vertices : <<v, u>> \in extra}

\* adj_ and the query's own edges.
Neighbors(v) == Adjacent(v) \cup {u \in Vertices : <<v, u>> \in extra}

-------------------------------------------------------------------------------
Init ==
  /\ InitRoadmap
  /\ wanted \in GoalLists
  /\ pc = "idle"
  /\ goals = <<>>
  /\ joined = 0
  /\ extra = {}
  /\ g_cost = <<>>
  /\ came_from = <<>>
  /\ open = {}
  /\ path = <<>>
  /\ why = "none"
  /\ status = "none"

Finish(s) ==
  /\ pc' = "done"
  /\ status' = s

Fail(s) ==
  /\ Finish(s)
  /\ UNCHANGED <<scene, roadmap, wanted, search, path, why>>

Construct ==
  /\ pc = "idle"
  /\ Build
  /\ pc' = IF stage' = "ready" THEN "validate" ELSE "idle"
  /\ UNCHANGED <<wanted, search, path, why, status>>

\* validate() finds fault with the problem.
Reject ==
  /\ pc = "validate"
  /\ Fail("InvalidProblem")

\* No roadmap, no goal configuration, or a colliding start or goals: one batch
\* probes the start and every goal.
FreeGoals == Kept(wanted, {i \in DOMAIN wanted : FreeCfg(wanted[i])})

Hopeless == nodes = <<>> \/ ~ FreeCfg(Start) \/ FreeGoals = <<>>

Infeasible ==
  /\ pc = "validate"
  /\ Hopeless
  /\ Fail("NoSolution")

Probe ==
  /\ pc = "validate"
  /\ ~ Hopeless
  /\ goals' = FreeGoals
  /\ pc' = "connect"
  /\ UNCHANGED <<scene, roadmap, wanted, joined, extra, g_cost, came_from, open, path, why, status>>

\* Start, then each goal, to its nearest nodes, and start to every goal directly.
\* One batch validates them all; the free ones join the graph both ways.
Connections(v) ==
  LET direct == IF v = StartIdx THEN GoalIdx ELSE {}
  IN  {{u \in near \cup direct : FreeSegment(ConfigAt(v), ConfigAt(u))} :
         near \in KNearest(ConfigAt(v), 0)}

\* Mutant: the connection edges are entered at start and goals only.
Connect_OneWay ==
  /\ pc = "connect"
  /\ joined <= Len(goals)
  /\ \E free \in Connections(StartIdx + joined) :
       extra' = extra \cup {<<StartIdx + joined, u>> : u \in free}
  /\ joined' = joined + 1
  /\ UNCHANGED <<scene, roadmap, wanted, pc, goals, g_cost, came_from, open, path, why, status>>

Connect ==
  /\ pc = "connect"
  /\ joined <= Len(goals)
  /\ \E free \in Connections(StartIdx + joined) :
       extra' = extra \cup {<<StartIdx + joined, u>> : u \in free}
                      \cup {<<u, StartIdx + joined>> : u \in free}
  /\ joined' = joined + 1
  /\ UNCHANGED <<scene, roadmap, wanted, pc, goals, g_cost, came_from, open, path, why, status>>

BeginSearch ==
  /\ pc = "connect"
  /\ joined > Len(goals)
  /\ g_cost' = [v \in {StartIdx} |-> 0]
  /\ open' = {<<Heuristic(StartIdx), 0, StartIdx>>}
  /\ pc' = "search"
  /\ UNCHANGED <<scene, roadmap, wanted, goals, joined, extra, came_from, path, why, status>>

\* The heap's order: f, then g, then the vertex.
LessEq(s, t) ==
  \/ s[1] < t[1]
  \/ s[1] = t[1] /\ (s[2] < t[2] \/ (s[2] = t[2] /\ s[3] <= t[3]))

\* Mutant: a goal is taken as soon as it is seen.
IsTop_GoalSeen(t) ==
  /\ t \in open
  /\ (\E r \in open : r[3] \in GoalIdx) => t[3] \in GoalIdx
  /\ t[3] \in GoalIdx \/ \A r \in open : LessEq(t, r)

IsTop(t) == t \in open /\ \A r \in open : LessEq(t, r)

Stale(t) == t[2] > g_cost[t[3]]

DropStale ==
  /\ pc = "search"
  /\ \E t \in open : IsTop(t) /\ Stale(t) /\ open' = open \ {t}
  /\ UNCHANGED <<scene, roadmap, wanted, pc, goals, joined, extra, g_cost, came_from, path, why,
                 status>>

\* The neighbours a walk through v reaches cheaper than any walk so far, with
\* their new costs.
Improved(v, g) ==
  [u \in {u \in Neighbors(v) : u \in DOMAIN g_cost => g + Weight(v, u) < g_cost[u]} |->
     g + Weight(v, u)]

\* The function `old` with the values `new` gives.
Over(new, old) == [u \in DOMAIN new \cup DOMAIN old |-> IF u \in DOMAIN new THEN new[u] ELSE old[u]]

\* Mutant: a cheaper walk updates the cost but not where it came from.
Improve_KeepsParent(v, new) ==
  /\ g_cost' = Over(new, g_cost)
  /\ came_from' = Over(came_from, [u \in DOMAIN new |-> v])

Improve(v, new) ==
  /\ g_cost' = Over(new, g_cost)
  /\ came_from' = Over([u \in DOMAIN new |-> v], came_from)

Expand ==
  /\ pc = "search"
  /\ \E t \in open :
       /\ IsTop(t)
       /\ ~ Stale(t)
       /\ t[3] \notin GoalIdx
       /\ \E new \in {Improved(t[3], t[2])} :
            /\ Improve(t[3], new)
            /\ open' = (open \ {t}) \cup {<<new[u] + Heuristic(u), new[u], u>> : u \in DOMAIN new}
  /\ UNCHANGED <<scene, roadmap, wanted, pc, goals, joined, extra, path, why, status>>

\* The walk along came_from, start first.
WalkTo(t) ==
  LET walk[v \in Vertices] ==
        IF v \in DOMAIN came_from THEN Append(walk[came_from[v]], ConfigAt(v))
        ELSE <<ConfigAt(v)>>
  IN  walk[t]

Reached ==
  /\ pc = "search"
  /\ \E t \in open :
       /\ IsTop(t)
       /\ ~ Stale(t)
       /\ t[3] \in GoalIdx
       /\ path' = WalkTo(t[3])
  /\ IF Smooth /\ Len(path') > 2
     THEN pc' = "smooth" /\ status' = status
     ELSE Finish("Success")
  /\ UNCHANGED <<scene, roadmap, wanted, search, why>>

\* What Smoother::smooth may do to the path: any shortcuts that are free.
Shorten ==
  /\ pc = "smooth"
  /\ \E i, j \in DOMAIN path :
       /\ i + 1 < j
       /\ FreeSegment(path[i], path[j])
       /\ path' = SubSeq(path, 1, i) \o SubSeq(path, j, Len(path))
  /\ UNCHANGED <<scene, roadmap, wanted, pc, search, why, status>>

Smoothed ==
  /\ pc = "smooth"
  /\ Finish("Success")
  /\ UNCHANGED <<scene, roadmap, wanted, search, path, why>>

\* reached_components: the labels of the nodes v is joined to.
Touches(v) == {comp[u] : u \in {u \in DOMAIN nodes : <<v, u>> \in extra}}
StartComps == Touches(StartIdx)
GoalComps == UNION {Touches(t) : t \in GoalIdx}

Exhausted ==
  /\ pc = "search"
  /\ open = {}
  /\ why' = CASE StartComps = {} /\ GoalComps = {} -> "both_isolated"
              [] StartComps = {} /\ GoalComps # {} -> "start_isolated"
              [] StartComps # {} /\ GoalComps = {} -> "goal_isolated"
              [] OTHER -> "disjoint_components"
  /\ Finish("NoSolution")
  /\ UNCHANGED <<scene, roadmap, wanted, search, path>>

Next ==
  \/ Construct \/ Reject \/ Infeasible \/ Probe \/ Connect \/ BeginSearch
  \/ DropStale \/ Expand \/ Reached \/ Shorten \/ Smoothed \/ Exhausted

\* Construction and plan() run in the caller's thread; nothing they do waits.
Spec == Init /\ [][Next]_vars /\ WF_vars(Next)
-------------------------------------------------------------------------------
Pairs == {e \in (DOMAIN nodes) \X (DOMAIN nodes) : e[1] < e[2]}

TypeOK ==
  /\ nodes \in Seq(Cfg \ hits)
  /\ turn \in 1 .. Len(nodes) + 1
  /\ edges \in Seq(Pairs)
  /\ cand \in Seq(Pairs)
  /\ united \in 0 .. Len(edges)
  /\ \A i \in DOMAIN parent : parent[i] \in 1 .. i
  /\ goals \in Seq(Cfg \ hits)
  /\ joined \in 0 .. Len(goals) + 1
  /\ extra \subseteq Vertices \X Vertices
  /\ DOMAIN g_cost \subseteq Vertices
  /\ \A v \in DOMAIN came_from : v \in DOMAIN g_cost /\ came_from[v] \in DOMAIN g_cost
  /\ \A t \in open : t[3] \in DOMAIN g_cost
  /\ path \in Seq(Cfg)
  /\ status \in {"none", "Success", "NoSolution", "InvalidProblem"}

\* Cost of the walk on record to v, edge by edge.
RecordedCost(v) ==
  LET cost[u \in Vertices] ==
        IF u \in DOMAIN came_from THEN cost[came_from[u]] + Weight(came_from[u], u) ELSE 0
  IN  cost[v]

\* At every moment of the search the cost on record of a vertex is the length of
\* the very walk came_from describes: a vertex that was expanded is never
\* improved afterwards, so nothing reached through it goes out of date.
CostsExact == \A v \in DOMAIN g_cost : g_cost[v] = RecordedCost(v)

\* Vertices joined to v by a roadmap or a connection edge, whichever end it was
\* entered at.
Linked(v) == Adjacent(v) \cup {u \in Vertices : {<<v, u>>, <<u, v>>} \cap extra # {}}

\* Vertices and costs of the cheapest walks of at most n edges from the start, by
\* definition.
Cheapest(S) == {t \in S : \A u \in S : u[1] = t[1] => t[2] <= u[2]}

Reference ==
  LET within[n \in Nat] ==
        IF n = 0 THEN {<<StartIdx, 0>>}
        ELSE LET shorter == within[n - 1]
                 longer == UNION {{<<u, t[2] + Weight(t[1], u)>> : u \in Linked(t[1])} :
                                    t \in shorter}
             IN  Cheapest(shorter \cup longer)
  IN  within[Cardinality(Vertices)]

\* What it costs to reach each goal that can be reached.
GoalCosts == {t[2] : t \in {r \in Reference : r[1] \in GoalIdx}}

\* The search stops at a goal no walk through the joined graph reaches cheaper,
\* whichever goal it is (prm.cpp:373-374: the heuristic is admissible).
ShortestFound ==
  path # <<>> =>
     \E t \in GoalIdx \cap DOMAIN g_cost :
        /\ ConfigAt(t) = path[Len(path)]
        /\ g_cost[t] = Least(GoalCosts)

\* A search that gives up has missed nothing: no walk joins the start to a goal.
SearchComplete == why # "none" => GoalCosts = {}

\* "start and goal reach DISJOINT roadmap components" (prm.cpp:470) is true when
\* reported: the labels of the build and the connections of the query agree
\* with what the search found.
DiagnosisRight ==
  why = "disjoint_components" => StartComps \cap GoalComps = {}

Contract == INSTANCE PlannerContract WITH
  Slack <- 0,
  path <- IF status = "Success" THEN path ELSE <<>>

\* The path is free at every waypoint and edge, and every call returns.
ImplementsContract == Contract!Spec
===============================================================================
