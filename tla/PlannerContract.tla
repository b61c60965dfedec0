---------------------------- MODULE PlannerContract ----------------------------
(***************************************************************************)
(* What Planner::plan promises its caller, whatever the algorithm          *)
(* (include/quevedomp/planning/planner.hpp, types.hpp): one call gives one *)
(* PlanningResult; the path is empty unless the status is Success; and a   *)
(* Success path runs from the start to one of the goal configurations      *)
(* along edges whose sampled interior is free.  Slack is the number of     *)
(* waypoints of a Success path that may themselves collide: 0 is what the  *)
(* tests of the repository re-validate, and the planners that keep it do   *)
(* so for every value of it.                                               *)
(***************************************************************************)
EXTENDS Naturals, Sequences, FiniteSets

CONSTANTS
  Cfg,    \* joint configurations
  Start,  \* problem.start
  Slack   \* how many waypoints of a solution may be in collision

VARIABLES
  wanted, \* configurations problem.goal resolves to
  hits,   \* configurations in collision
  mid,    \* edges, as sets of two configurations, with a colliding interior sample
  status, \* result.status, "none" while plan() runs
  path    \* result.path

vars == <<wanted, hits, mid, status, path>>

Failure == {"Timeout", "NoSolution", "InvalidProblem"}

EdgeClear(p, q) == {p, q} \notin mid

IsSolution(w) ==
  /\ Len(w) >= 2
  /\ w[1] = Start
  /\ \E i \in DOMAIN wanted : w[Len(w)] = wanted[i]
  /\ \A i \in 1 .. Len(w) - 1 : EdgeClear(w[i], w[i + 1])
  /\ Cardinality({i \in DOMAIN w : w[i] \in hits}) <= Slack

Init ==
  /\ wanted \in Seq(Cfg)
  /\ hits \in SUBSET Cfg
  /\ mid \in SUBSET SUBSET Cfg
  /\ status = "none"
  /\ path = <<>>

Solve ==
  /\ status = "none"
  /\ status' = "Success"
  /\ IsSolution(path')
  /\ UNCHANGED <<wanted, hits, mid>>

Fail ==
  /\ status = "none"
  /\ status' \in Failure
  /\ UNCHANGED <<wanted, hits, mid, path>>

Next == Solve \/ Fail

Answered == status # "none"

Spec == Init /\ [][Next]_vars /\ <>Answered
===============================================================================
