----------------------------- MODULE StudioSession -----------------------------
(***************************************************************************)
(* The studio's session (tools/quevedomp-studio/quevedomp_studio/          *)
(* session.py) with the handlers of the plan, trajectory and scene panels  *)
(* that drive it: UI callbacks and background threads share the session's  *)
(* obstacles, caches, attempts and trajectory without a lock.  One action  *)
(* is one statement on that shared state.  The planners are calls that may *)
(* succeed, fail or raise; an environment is where each obstacle is, or    *)
(* that it is gone.                                                        *)
(***************************************************************************)
EXTENDS Integers, Sequences, FiniteSets

CONSTANTS
  Callers,      \* threads that run UI callbacks
  Workers,      \* numbers of background threads
  Ids,          \* obstacles
  Poses,        \* where an obstacle may be
  Gone,         \* it is not in the environment
  None,         \* no cached value
  Starts,       \* start configurations
  Home,         \* the one a session begins with
  MaxCalls      \* bound on the callbacks that begin

ASSUME StudioAssumption ==
  /\ Workers \subseteq Nat /\ Callers \cap Workers = {}
  /\ Gone \notin Poses
  /\ None \notin [Ids -> Poses \cup {Gone}] /\ None \notin Workers
  /\ Home \in Starts
  /\ MaxCalls \in Nat

VARIABLES
  obstacles,    \* session.obstacles
  world,        \* what session.scene holds
  fresh,        \* ids that no obstacle has had: _obstacle_counter never gives one twice
  field,        \* _clearance_field: the environment it was built from
  prm,          \* _prm: the environment the roadmap was built over
  start,        \* session.start
  attempts,     \* session.attempts: the number and start on record, where the path begins,
                \* the position of the attempt it polishes (0 for none), success
  trajectory,   \* session.trajectory: position of the attempt it times, 0 for None
  last,         \* ctx.last_attempt, likewise
  thread,       \* _plan_thread: the worker started last
  enabled,      \* buttons that can be clicked
  pc,           \* where a thread stands
  mine,         \* its locals
  tangled,      \* history: obstacles whose last moves overlapped
  crossed,      \* history: what others did since a thread read what it will write
  late,         \* history: caches and timings stored by a call that was crossed
  refused,      \* history: grey buttons whose job was refused
  calls         \* callbacks so far

caches == <<field, prm>>
log == <<attempts, trajectory, last>>
history == <<crossed, late>>
edits == <<obstacles, world, fresh, tangled>>
buttons == <<enabled, refused>>
vars == <<edits, caches, start, log, thread, buttons, pc, mine, crossed, late, calls>>

Procs == Callers \cup Workers
Environment == [Ids -> Poses \cup {Gone}]
Buttons == {"plan", "refine", "roadmap"}
Jobs == {"plan", "chomp", "refine", "roadmap"}
Attempt == [index : Nat, start : Starts, from : Starts, seed : Nat, ok : BOOLEAN,
            crossed : SUBSET {"start", "filing"}]

Blank == [kind |-> "none", env |-> None, from |-> Home, seed |-> 0,
          index |-> 0, start |-> Home, ok |-> FALSE, at |-> 0,
          id |-> None, pose |-> Gone]

\* The panel button behind a job; a standalone refine is a planner of the plan panel.
Button(kind) == IF kind = "chomp" THEN "plan" ELSE kind

Goto(p, where) == pc' = [pc EXCEPT ![p] = where]

\* _plan_thread exists and is alive.
IsPlanning == thread # None /\ pc[thread] # "idle"

\* An attempt took the timing away and is not on display yet.
Filing(p) == pc[p] = "append" \/ (pc[p] = "report" /\ mine[p].kind # "roadmap")

\* An event crosses the threads at some places.
Cross(event, places) ==
  crossed' = [p \in Procs |-> IF pc[p] \in places THEN crossed[p] \cup {event} ELSE crossed[p]]

-------------------------------------------------------------------------------
Init ==
  /\ obstacles \in Environment
  /\ world = obstacles
  /\ fresh = {id \in Ids : obstacles[id] = Gone}
  /\ field = None
  /\ prm = None
  /\ start = Home
  /\ attempts = <<>>
  /\ trajectory = 0
  /\ last = 0
  /\ thread = None
  /\ enabled = Buttons
  /\ pc = [p \in Procs |-> "idle"]
  /\ mine = [p \in Procs |-> Blank]
  /\ crossed = [p \in Procs |-> {}]
  /\ tangled = {} /\ late = {} /\ refused = {}
  /\ calls = 0

-------------------------------------------------------------------------------
\* Obstacle edits: the change in two writes, then the two caches.

\* add_obstacle writes the scene first.
AddObstacle(c, id, pose) ==
  /\ pc[c] = "idle"
  /\ id \in fresh
  /\ fresh' = fresh \ {id}
  /\ world' = [world EXCEPT ![id] = pose]
  /\ mine' = [mine EXCEPT ![c] = [Blank EXCEPT !.kind = "add", !.id = id, !.pose = pose]]
  /\ Goto(c, "edit")
  /\ UNCHANGED <<obstacles, tangled, caches, start, log, thread, buttons, history>>

\* move_obstacle and remove_obstacle write the dictionary first.
ChangeObstacle(c, id, pose) ==
  /\ pc[c] = "idle"
  /\ obstacles[id] # Gone
  /\ obstacles' = [obstacles EXCEPT ![id] = pose]
  /\ mine' = [mine EXCEPT ![c] = [Blank EXCEPT !.kind = "change", !.id = id, !.pose = pose]]
  /\ Goto(c, "edit")
  /\ tangled' = IF pose # Gone /\ \E d \in Callers : pc[d] = "edit" /\ mine[d].id = id
                THEN tangled \cup {id} ELSE tangled \ {id}
  /\ UNCHANGED <<world, fresh, caches, start, log, thread, buttons, history>>

\* The second write; the scene ignores the handle of an object it no longer has.
FinishEdit(c) ==
  /\ pc[c] = "edit"
  /\ LET id == mine[c].id IN
     IF mine[c].kind = "add"
     THEN obstacles' = [obstacles EXCEPT ![id] = mine[c].pose] /\ UNCHANGED world
     ELSE world' = [world EXCEPT ![id] = IF @ = Gone THEN Gone ELSE mine[c].pose] /\ UNCHANGED obstacles
  /\ Goto(c, "drop_field")
  /\ UNCHANGED <<fresh, tangled, caches, start, log, thread, buttons, mine, history>>

DropField(c) ==
  /\ pc[c] = "drop_field"
  /\ field' = None
  /\ Cross("edit", {"build_field"})
  /\ Goto(c, "drop_roadmap")
  /\ UNCHANGED <<edits, prm, start, log, thread, buttons, mine, late>>

\* Mutant: an edit drops the clearance field but keeps the roadmap.
DropRoadmap_Kept(c) ==
  /\ pc[c] = "drop_roadmap"
  /\ mine' = [mine EXCEPT ![c] = Blank]
  /\ Goto(c, "idle")
  /\ UNCHANGED <<edits, caches, start, log, thread, buttons, history>>

DropRoadmap(c) ==
  /\ pc[c] = "drop_roadmap"
  /\ prm' = None
  /\ Cross("edit", {"build"})
  /\ mine' = [mine EXCEPT ![c] = Blank]
  /\ Goto(c, "idle")
  /\ UNCHANGED <<edits, field, start, log, thread, buttons, late>>

\* A job that has read the start and has not filed its attempt is crossed.
SetStart(c, s) ==
  /\ pc[c] = "idle"
  /\ s # start
  /\ start' = s
  /\ Cross("start", {"field", "build_field", "build", "search", "record"})
  /\ UNCHANGED <<edits, caches, log, thread, buttons, pc, mine, late>>

\* The clearance panel rebuilds the field on the callback's thread, one at a time (ui_lock, which
\* a timing takes too, after it has read what it times: the two have no other state in common).
ClickClearance(c) ==
  /\ pc[c] = "idle"
  /\ obstacles # [id \in Ids |-> Gone]
  /\ mine' = [mine EXCEPT ![c].kind = "clearance"]
  /\ Goto(c, "field")
  /\ UNCHANGED <<edits, caches, start, log, thread, buttons, history>>

-------------------------------------------------------------------------------
\* Starting a job.

\* _on_plan_clicked, _on_refine_clicked, _on_build_roadmap: the panel's own guard; a
\* click that it refuses changes nothing.
Click(c, kind) ==
  /\ pc[c] = "idle"
  /\ Button(kind) \in enabled
  /\ ~ IsPlanning
  /\ kind = "refine" => last # 0
  /\ mine' = [mine EXCEPT ![c].kind = kind]
  /\ Goto(c, "clicked")
  /\ UNCHANGED <<edits, caches, start, log, thread, buttons, history>>

\* Then the button goes grey.
Grey(c) ==
  /\ pc[c] = "clicked"
  /\ enabled' = enabled \ {Button(mine[c].kind)}
  /\ Goto(c, "launch")
  /\ UNCHANGED <<edits, caches, start, log, thread, refused, mine, history>>

\* plan_async, refine_async, build_roadmap_async: the guard again, which raises into
\* the callback,
Launch(c) ==
  /\ pc[c] = "launch"
  /\ IF IsPlanning
     THEN /\ refused' = refused \cup ({Button(mine[c].kind)} \ enabled)
          /\ mine' = [mine EXCEPT ![c] = Blank]
          /\ Goto(c, "idle")
     ELSE Goto(c, "spawn") /\ UNCHANGED <<refused, mine>>
  /\ UNCHANGED <<edits, caches, start, log, thread, enabled, history>>

\* or the new thread, which takes the first number that is free.
Spawn(c) ==
  /\ pc[c] = "spawn"
  /\ \E w \in Workers :
       /\ pc[w] = "idle" /\ \A v \in Workers : pc[v] = "idle" => w <= v
       /\ thread' = w
       /\ pc' = [pc EXCEPT ![w] = "begin", ![c] = "idle"]
       /\ mine' = [mine EXCEPT ![w] = [Blank EXCEPT !.kind = mine[c].kind], ![c] = Blank]
  /\ UNCHANGED <<edits, caches, start, log, buttons, history>>

\* A roadmap query runs inside the callback of the plan button.
Query(c) ==
  /\ pc[c] = "idle"
  /\ "plan" \in enabled
  /\ ~ IsPlanning
  /\ prm # None
  /\ mine' = [mine EXCEPT ![c].kind = "query"]
  /\ Goto(c, "begin")
  /\ UNCHANGED <<edits, caches, start, log, thread, buttons, history>>

-------------------------------------------------------------------------------
\* plan, refine, build_roadmap and plan_roadmap.

\* refine: its seed is the newest attempt's path, and a path it returns has that path's
\* ends whatever problem.start says; without a path it raises.
BeginRefine(p) ==
  /\ pc[p] = "begin" /\ mine[p].kind = "refine"
  /\ IF attempts = <<>> \/ ~ attempts[Len(attempts)].ok
     THEN Goto(p, "failed") /\ UNCHANGED <<mine, crossed>>
     ELSE LET from == attempts[Len(attempts)].from IN
          /\ mine' = [mine EXCEPT ![p].from = from, ![p].seed = Len(attempts)]
          /\ crossed' = [crossed EXCEPT ![p] = IF from = start THEN {} ELSE {"start"}]
          /\ Goto(p, "field")
  /\ UNCHANGED <<edits, caches, start, log, thread, buttons, late>>

\* A roadmap is built when one is asked for, and by a query that finds none.
Builds(p) == mine[p].kind = "roadmap" \/ (mine[p].kind = "query" /\ prm = None)

\* The arguments of the other calls.
Begin(p) ==
  /\ pc[p] = "begin" /\ mine[p].kind # "refine"
  /\ mine' = [mine EXCEPT ![p].from = start, ![p].env = IF Builds(p) THEN world ELSE None]
  /\ Goto(p, CASE mine[p].kind = "chomp" -> "field"
               [] Builds(p) -> "build"
               [] OTHER -> "search")
  /\ UNCHANGED <<edits, caches, start, log, thread, buttons, history>>

\* clearance_field: the cached field when its resolution is the one asked for; a click on
\* the clearance panel asks for a new one.
UseField(p) ==
  /\ pc[p] = "field"
  /\ field # None /\ mine[p].kind # "clearance"
  /\ Goto(p, "search")
  /\ UNCHANGED <<edits, caches, start, log, thread, buttons, mine, history>>

BeginField(p) ==
  /\ pc[p] = "field"
  /\ mine[p].kind = "clearance" => \A c \in Callers : pc[c] # "build_field"
  /\ mine' = [mine EXCEPT ![p].env = obstacles]
  /\ Goto(p, "build_field")
  /\ UNCHANGED <<edits, caches, start, log, thread, buttons, history>>

\* A build that was crossed leaves its mark with what it stores.
Store(p, cache) ==
  late' = IF "edit" \in crossed[p] THEN late \cup {cache} ELSE late \ {cache}

\* ClearanceField::build returns, with a field or an exception.
EndField(p) ==
  /\ pc[p] = "build_field"
  /\ \/ /\ field' = mine[p].env
        /\ Store(p, "field")
        /\ Goto(p, IF mine[p].kind = "clearance" THEN "idle" ELSE "search")
     \/ /\ UNCHANGED <<field, late>>
        /\ Goto(p, IF mine[p].kind = "clearance" THEN "idle" ELSE "failed")
  /\ mine' = [mine EXCEPT ![p] = IF @.kind = "clearance" THEN Blank ELSE [@ EXCEPT !.env = None]]
  /\ crossed' = [crossed EXCEPT ![p] = IF mine[p].kind = "clearance" THEN {} ELSE @ \ {"edit"}]
  /\ UNCHANGED <<edits, prm, start, log, thread, buttons>>

\* make_prm_planner returns, with a roadmap or an exception.
EndBuild(p) ==
  /\ pc[p] = "build"
  /\ \/ /\ prm' = mine[p].env
        /\ Store(p, "roadmap")
        /\ Goto(p, IF mine[p].kind = "query" THEN "search" ELSE "report")
     \/ UNCHANGED <<prm, late>> /\ Goto(p, "failed")
  /\ mine' = [mine EXCEPT ![p].env = None]
  /\ crossed' = [crossed EXCEPT ![p] = @ \ {"edit"}]
  /\ UNCHANGED <<edits, field, start, log, thread, buttons>>

\* The planner returns, with a result or an exception; a roadmap that is gone by now raises.
Search(p) ==
  /\ pc[p] = "search"
  /\ \/ /\ mine[p].kind = "query" => prm # None
        /\ \E ok \in BOOLEAN : mine' = [mine EXCEPT ![p].ok = ok]
        /\ Goto(p, "record")
     \/ UNCHANGED mine /\ Goto(p, "failed")
  /\ UNCHANGED <<edits, caches, start, log, thread, buttons, history>>

\* Attempt(len(self.attempts), self.start.copy(), ...).
Record(p) ==
  /\ pc[p] = "record"
  /\ mine' = [mine EXCEPT ![p].index = Len(attempts), ![p].start = start]
  /\ Goto(p, "untime")
  /\ UNCHANGED <<edits, caches, start, log, thread, buttons, history>>

\* Mutant: the previous timing survives a new attempt.
Untime_Skipped(p) ==
  /\ pc[p] = "untime"
  /\ Goto(p, "append")
  /\ UNCHANGED <<edits, caches, start, log, thread, buttons, mine, history>>

Untime(p) ==
  /\ pc[p] = "untime"
  /\ trajectory' = 0
  /\ Cross("filing", {"timing"})
  /\ Goto(p, "append")
  /\ UNCHANGED <<edits, caches, start, attempts, last, thread, buttons, mine, late>>

\* An attempt that is numbered and not yet in the log is crossed.
AppendAttempt(p) ==
  /\ pc[p] = "append"
  /\ attempts' = Append(attempts, [index |-> mine[p].index, start |-> mine[p].start,
                                   from |-> mine[p].from, seed |-> mine[p].seed,
                                   ok |-> mine[p].ok, crossed |-> crossed[p]])
  /\ mine' = [mine EXCEPT ![p].at = Len(attempts')]
  /\ Cross("filing", {"untime", "append"})
  /\ Goto(p, "report")
  /\ UNCHANGED <<edits, caches, start, trajectory, last, thread, buttons, late>>

\* on_done ends: the button comes back and the thread ends; a query's callback returns.
Finish(p) ==
  /\ IF p \in Workers
     THEN /\ enabled' = enabled \cup {Button(mine[p].kind)}
          /\ refused' = refused \ {Button(mine[p].kind)}
     ELSE UNCHANGED buttons
  /\ mine' = [mine EXCEPT ![p] = Blank]
  /\ crossed' = [crossed EXCEPT ![p] = {}]
  /\ Goto(p, "idle")

\* Mutant: the button comes back only after a success.
Fail_ButtonStaysGrey(p) ==
  /\ pc[p] = "failed"
  /\ mine' = [mine EXCEPT ![p] = Blank]
  /\ crossed' = [crossed EXCEPT ![p] = {}]
  /\ Goto(p, "idle")
  /\ UNCHANGED <<edits, caches, start, log, thread, buttons, late>>

\* An exception becomes on_done(None), or a status line.
Fail(p) ==
  /\ pc[p] = "failed"
  /\ Finish(p)
  /\ UNCHANGED <<edits, caches, start, log, thread, late>>

\* on_done shows the attempt.
ReportAttempt(p) ==
  /\ pc[p] = "report" /\ mine[p].kind # "roadmap"
  /\ last' = mine[p].at
  /\ Finish(p)
  /\ UNCHANGED <<edits, caches, start, attempts, trajectory, thread, late>>

ReportRoadmap(p) ==
  /\ pc[p] = "report" /\ mine[p].kind = "roadmap"
  /\ Finish(p)
  /\ UNCHANGED <<edits, caches, start, log, thread, late>>

-------------------------------------------------------------------------------
\* Parameterise the attempt on display; the fit and the limits may refuse it.
BeginTiming(c) ==
  /\ pc[c] = "idle"
  /\ last # 0
  /\ attempts[last].ok
  /\ mine' = [mine EXCEPT ![c].at = last]
  /\ crossed' = [crossed EXCEPT ![c] = IF \E p \in Procs : Filing(p) THEN {"filing"} ELSE {}]
  /\ Goto(c, "timing")
  /\ UNCHANGED <<edits, caches, start, log, thread, buttons, late>>

EndTiming(c) ==
  /\ pc[c] = "timing"
  /\ \/ UNCHANGED <<trajectory, late>>
     \/ /\ trajectory' = mine[c].at
        /\ late' = IF crossed[c] = {} THEN late \ {"timing"} ELSE late \cup {"timing"}
  /\ mine' = [mine EXCEPT ![c] = Blank]
  /\ crossed' = [crossed EXCEPT ![c] = {}]
  /\ Goto(c, "idle")
  /\ UNCHANGED <<edits, caches, start, attempts, last, thread, buttons>>

\* A callback begins; MaxCalls bounds how many do.
Callback(c) ==
  /\ calls < MaxCalls
  /\ calls' = calls + 1
  /\ \/ \E id \in Ids, pose \in Poses : AddObstacle(c, id, pose)
     \/ \E id \in Ids, pose \in Poses \cup {Gone} : ChangeObstacle(c, id, pose)
     \/ \E s \in Starts : SetStart(c, s)
     \/ ClickClearance(c)
     \/ \E kind \in Jobs : Click(c, kind)
     \/ Query(c)
     \/ BeginTiming(c)

\* What a callback or a worker does once it has begun.
Continue(p) ==
  /\ UNCHANGED calls
  /\ \/ FinishEdit(p) \/ DropField(p) \/ DropRoadmap(p)
     \/ Grey(p) \/ Launch(p) \/ Spawn(p)
     \/ BeginRefine(p) \/ Begin(p) \/ UseField(p) \/ BeginField(p) \/ EndField(p) \/ EndBuild(p) \/ Search(p)
     \/ Record(p) \/ Untime(p) \/ AppendAttempt(p) \/ Fail(p) \/ ReportAttempt(p) \/ ReportRoadmap(p)
     \/ EndTiming(p)

Next == \/ \E c \in Callers : Callback(c)
        \/ \E p \in Procs : Continue(p)

\* Threads are scheduled and planners return; nobody has to click.
Fairness == \A p \in Procs : WF_vars(Continue(p))

Spec == Init /\ [][Next]_vars /\ Fairness

-------------------------------------------------------------------------------
PC == {"idle", "edit", "drop_field", "drop_roadmap", "clicked", "launch", "spawn", "begin",
       "field", "build_field", "build", "search", "record", "untime", "append", "failed",
       "report", "timing"}

\* The type of a session; in particular what is shown or timed is in the log.
TypeOK ==
  /\ obstacles \in Environment /\ world \in Environment /\ fresh \subseteq Ids
  /\ field \in Environment \cup {None} /\ prm \in Environment \cup {None}
  /\ start \in Starts
  /\ attempts \in Seq(Attempt)
  /\ trajectory \in 0 .. Len(attempts)
  /\ last \in 0 .. Len(attempts)
  /\ thread \in Workers \cup {None}
  /\ enabled \subseteq Buttons
  /\ pc \in [Procs -> PC]
  /\ \A p \in Procs : mine[p].at \in 0 .. Len(attempts)
  /\ crossed \in [Procs -> SUBSET {"edit", "start", "filing"}]
  /\ calls \in 0 .. MaxCalls
  /\ tangled \subseteq Ids /\ late \subseteq {"field", "roadmap", "timing"} /\ refused \subseteq Buttons

\* An edit of the obstacle is under way.
Editing(id) == \E c \in Callers : pc[c] \in {"edit", "drop_field", "drop_roadmap"} /\ mine[c].id = id

\* An obstacle that nobody is editing is in the scene as the dictionary says, unless two moves of
\* it overlapped, and the clearance field and the roadmap that the session holds have it there,
\* unless an edit dropped them while they were being built.
CachesCurrent ==
  \A id \in Ids : ~ Editing(id) =>
    /\ id \notin tangled => world[id] = obstacles[id]
    /\ field # None /\ "field" \notin late => field[id] = obstacles[id]
    /\ prm # None /\ "roadmap" \notin late => prm[id] = world[id]

\* An attempt's number is its place in the log, unless another one was filed after it was
\* numbered.  It is on record under the start its path begins at, unless that was set meanwhile or,
\* for a refined path, was another one already.  A timing is of the attempt on display, unless it
\* overlapped the filing of one.
RecordsHonest ==
  /\ \A i \in DOMAIN attempts :
       /\ "filing" \notin attempts[i].crossed => attempts[i].index = i - 1
       /\ "start" \notin attempts[i].crossed => attempts[i].start = attempts[i].from
  /\ trajectory # 0 /\ "timing" \notin late => trajectory = last

\* A button that goes grey comes back, whether its job succeeds, fails or raises, unless the
\* guard of plan_async refuses the job.
ButtonsRecover == \A b \in Buttons : b \notin enabled ~> b \in enabled \cup refused
===============================================================================
