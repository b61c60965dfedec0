# QuevedoMP in TLA+

A verification development kept beside the QuevedoMP sources: TLA+ modules of the planners and the refiner, the path
smoother, the collision scenes (FCL, hybrid and OptiX), the clearance field, the fitting and timing of paths, and the
studio session, TLC configurations that check them on small instances, and TLAPS proofs of what
matters most for every value of the constants. Paths below are relative to the repository root. Every module file names
in its header the source it models; `PROJECT.json` maps each definition to its lines.

- To parse a module: `tlasany M.tla`. To check a run: `tlc -workers 2 -config X.cfg M`. To check proofs: `tlapm M.tla`.

## 1. The system

QuevedoMP is a C++ motion-planning library with Python bindings and a browser-based workbench, the studio.

```
 studio (Python, threads)          session, panels, playback, save/load
   |  calls that release the GIL
 bindings
   |
 planners    RrtConnect   PrmPlanner   TrajectoryRefiner          each one is a planning::Planner
   |             \            |   \          |        \
   |              \           |    ShortcutSmoother    ClearanceField
   |               \          |        |     |
 collision     batched queries: every sample of every edge in one query_batch
               HybridScene -> FclScene (editable)  or  OptixScene (static snapshot)
 robot, kinematics, parameterisation, capture
```

The library has no event loop. A planner call runs on its caller's thread and is sequential, except that collision
queries are const and may be made by several threads, each with its own workspace. The studio has UI callbacks, which may
run concurrently (`context.py:159`), background threads for plans, refinements and roadmap builds, and a playback thread.
They share the session object without a lock; `ui_lock` covers a few handlers only.

### Inventory

| Component | State | Operations | What is hard | What makes it correct |
|---|---|---|---|---|
| Planner contract (`planning/planner.hpp`, `types.hpp`) | one `PlanningResult` | `plan` | four statuses, three implementations | a Success path joins start and goal over free edges; every call returns |
| RRT-Connect (`rrt_connect.cpp`) | two trees, candidates of a batch, the path being stitched | `plan` and its loops | batches, two ways to run out, indices into whichever tree is active | trees are trees, path soundness, failures justified |
| PRM (`prm.cpp`) | roadmap, union-find, A* heap | construction, `plan` | stale heap entries, labels made at build and used at query, path halving | exact and shortest costs, completeness of the search, a true diagnosis, the contract |
| Shortcut smoother (`shortcut_smoother.cpp`) | the path, the chords of a round | `smooth` | several erasures of one path from indices drawn before the first | no edge that was not validated, ends kept, budgets |
| Refiner, CHOMP (`trajectory_refiner.cpp`) | trajectory, mode, iteration count | `plan` | seed or standalone, fall-back to the seed, time-out anywhere | only certified paths, a usable seed never lost, the contract |
| Inverse kinematics (`ik.cpp`) | best of the attempt, best of the call | `solve`, `solve_all` | stalls, restarts, best effort | a solution is within tolerance, a failure returns the closest configuration seen |
| Collision scenes (`fcl_scene.cpp`, `optix_scene.cpp`) | objects, recipes, lazily rebuilt containment tester, GPU snapshot, routing flag | `add_object`, `remove_object`, `move_object`, `query_batch` | a mutable cache in a const query, two index spaces, two backends | each answer is that of the semantic contract for the environment as it is |
| OptiX scene (`optix_scene.cpp`, `optix_programs.cu`) | pinned and device buffers of a workspace, the stream, a launch in progress | `query_batch` | host and device run at once, buffers outlive a query, chunks, a throw with work in flight | each answer is that of the semantic contract, each thread reads its own transforms |
| Edge discretisation, edge check (`edge_discretization.cpp`, `edge_check.cpp`) | none | lever weights, `steps`, `check_edge` | weights computed at one posture | no link sweeps more than the spacing between samples |
| Clearance field (`clearance_field.cpp`, `jfa.cu`) | voxel grid, immutable after the build | `build`, `query` | concurrent minimum, a device that fails midway, strides that may not reach | the nearest triangle whatever the interleaving, distances within the documented tolerance, signs |
| Path fitting (`path_spline.cpp`) | points of the next curve, the round | `fit`, `fit_collision_free` | refitting rounds, adaptive sampling | a fitted curve was checked everywhere as finely as an edge, and interpolates the path |
| Time parameterisation (`parameterize.cpp`) | none between calls | `parametrize` | two passes that must agree, a kernel that lowers speeds afterwards | limits kept at every node, fastest, refusal otherwise |
| Forward kinematics, Jacobian (`fk.cpp`, `jacobian.cpp`) | none | pure functions | | |
| Robot model, URDF, meshes | immutable; the allowed collision matrix (ACM) changes | loading, `allow`, `disallow` | third-party parsing | |
| Capture (`serialize.cpp`) | none | `serialize_*`, `deserialize_*` | versions, truncation | round trip |
| Studio session and panels (`session.py`, `modes/*.py`, `context.py`) | obstacles, caches, attempts, timing, start and goal, buttons, the planning thread | edits, plan, refine, build and query a roadmap, parameterise | callbacks beside each other and beside a running job, no lock | caches current, an honest log, buttons that come back: each but for the races the code leaves open (section 4) |
| Studio playback, save and load | `_playing`, sliders; a file | play, stop, scrub; save, load | a flag set by the thread and read by the click | stop stops; what is saved survives |
| Planner registry, validation, RNG, tessellation, visualisation, bindings, application shell, examples, benchmarks | little or none | | | |

`PROJECT.json` lists each of these with its sources, what is modelled of it and, where nothing is, why. The hazards that
the properties are for are listed there at the line where each one bites.

### How the parts interact

- Planners call `query_batch` on a scene they share by pointer. The planner modules take the scene as fixed during a call
  (a set of colliding configurations and a set of edges that collide in between). CollisionScene says when an answer of
  the scene is the right one; its conditions (section 5) are the premises under which that view of the planners is sound.
- `PrmPlanner` calls the smoother; it sees the abstract module `Smoother` ("any free shortcuts"), which ShortcutSmoother
  is shown to implement.
- `TrajectoryRefiner` calls `NumericalIk::solve` for a pose goal: the module extends `NumericalIk` and interleaves nothing
  with it. The clearance field only steers its updates; its certification asks the scene. So the refiner's updates are
  arbitrary, and ClearanceField stands on its own.
- `fit_collision_free` spaces its samples by `EdgeDiscretization`, as planner edges are; `parametrize` takes the fitted
  curve's derivatives.
- HybridScene sends large batches to a snapshot. CollisionScene takes the snapshot's answer for granted; OptixScene shows
  how one `query_batch` on the device comes to it.
- The studio calls planners from worker threads while callbacks edit obstacles. StudioSession takes a planner call as a
  beginning (arguments read), an end (result or exception) and anything in between.

## 2. Modules

| Module | Models | State |
|---|---|---|
| `PlannerContract` | what `Planner::plan` promises, abstractly | result, scene |
| `RrtConnect` | `RrtConnectPlanner::plan`, `batch_check`, `build_path` | trees, batch, stitching |
| `Roadmap` | construction of a PRM roadmap: `build`, `k_nearest`, `connected_components` | nodes, edges, forest, labels |
| `PrmPlanner` | `PrmPlanner::plan` on it | connections, A*, path, message |
| `Smoother` | what `Smoother::smooth` promises, abstractly | path |
| `ShortcutSmoother` | `ShortcutSmoother::smooth` | path, chords, budgets |
| `CollisionScene` | FclScene and HybridScene, OptiX as a snapshot | objects, tester, threads |
| `OptixScene` | `OptixScene::query_batch` and the ray programs | buffers, stream, launch, host |
| `NumericalIk` | `NumericalIk::solve` | attempt, best, restarts |
| `TrajectoryRefiner` | `TrajectoryRefiner::plan`, calling NumericalIk | trajectory, resolved goals |
| `EdgeDiscretization` | lever weights, `steps`, `check_edge` | none (operators) |
| `PathFit` | `PathSpline::fit`, `fit_collision_free` | points, curve, round |
| `Fractions` | exact rational numbers | none (operators) |
| `TimeParameterization` | `parametrize` | intervals, profile, kernel |
| `ClearanceField` | `ClearanceField::build`, `jfa.cu` | voxels, seeding threads, flood |
| `StudioSession` | `StudioSession` and the handlers that drive it | session fields, buttons, threads |
| `MC*` | instances for TLC | |
| `RrtConnect_proofs`, `CollisionScene_proofs`, `ShortcutSmoother_proofs`, `StudioSession_proofs`, `TrajectoryRefiner_proofs`, `ClearanceField_proofs`, `OptixScene_proofs`, `PrmPlanner_proofs` | theorems about the module of that name and their proofs | |

Refinements: RrtConnect, PrmPlanner and TrajectoryRefiner implement PlannerContract, ShortcutSmoother implements Smoother.
PrmPlanner extends Roadmap, TrajectoryRefiner extends NumericalIk, PathFit extends EdgeDiscretization. Operators whose
comment begins with "Mutant:" are altered forms of the definition below them, the kind of slip a change to the code could
make; each property is known to fail when one of them takes the place of its original.

### RrtConnect

One behaviour is one call of `plan()`. `Cfg` with `Dist`, `Steer` and `Steps` stands for joint space: a set with a
distance, where a steered step ends, and how many samples an edge has. The scene is `hits` (colliding configurations) and
`mid` (edges with a colliding interior sample), chosen at Init; so is what `resolve_goal` returns. The control of the code
is kept statement by statement: `Reject`, `Infeasible`, `BeginProbe`/`ProbeGoal`/`GoalsBlocked` (the feasibility probe),
`PlantTrees`, `DirectConnection`/`NoDirectConnection`, `GrowBatch`, `KeepCandidate`, `BeginBridge`, `Bridge`, `SwapTrees`,
`StitchStart`/`StitchGoal` (the two walks of `build_path`), `Solved`, `GiveUp`. `ClockExpires` may happen at any moment of
the search. `FirstContact` is the number `batch_check` computes, and `Accepted` the comparison with 1.0 that reads it.

### Roadmap and PrmPlanner

Construction, then one `plan()`. `Dist` is a metric (checked by TLC from the assumption). The samples the seed may give are
a set of sequences. `KNearest` is a set of answers: after `partial_sort` the order of the remaining indices is
unspecified, and the code stops at the first one outside the radius, so any subset of those inside may be found. The
union-find is a recursive function with path halving. A* keeps its heap as a set of entries `<<f, g, vertex>>`, with stale
ones dropped when popped, as in the code. The message of a failed search is kept as one of four verdicts.

### Smoother and ShortcutSmoother

A path is a sequence of places of the input, so "which edges are new" can be asked. A round draws chords until the batch
or the budget is full, validates them in one batch, and erases from the highest start down. The scene is the set of
colliding chords.

### CollisionScene

Objects and recipes by handle, the containment tester (`solids`) with its index from handle to position, `containment_dirty_`,
the GPU snapshot and `optix_stale_`. A query is eight steps of its thread: dirty test, rebuild (begin, one handle at a
time, replace, publish), ACM resolution, surface test, containment test, return. Edits happen while no query is in flight,
as `collision_scene.hpp` asks of callers. Geometry is a constant: the gap of a link and a place, and the places that
contain a link's interior point. `Serial` says whether callers keep one query in flight.

### OptixScene

The constructor's uploads are operators: a link with rays gets a transform slot, so links, slots and geometries are numbered
differently, and so are triangles and objects. A query is the host's sequence `Pose`, `UploadPoses`, `Clear`, `UploadMask`,
`Launch` (one chunk each), `ReadBack`, `SelfPass`, `Join`, `Contain`. Copies and launches are commands appended to the
stream; the device takes them in order, and a launch runs its threads in any order, each in two steps: `Look` (leave early
on a hit or a culled link) and `Trace`. A buffer entry is a transform tagged with query, configuration and link, so a
stale or misplaced one can be told. Buffers grow as `DeviceBuffer` and `PinnedBuffer` do, with arbitrary contents after.
`Throw` may end the host's part of a query from the filling of the transforms to the self pass; what it enqueued stays
enqueued for the next query on the workspace.

### NumericalIk and TrajectoryRefiner

One behaviour is one `plan()`. Joint space is a lattice, on which `resample` (equal arc length, the last point set) and
the samples of `certify` are computed as the code computes them. A CHOMP iteration moves every interior waypoint by any of
`Moves` and clamps it to the limits narrowed by the joint bounds; no property depends on which move the gradient picks.
`StopOptimising` is the time-out or the iteration limit. Standalone mode resolves goals first: a joint goal is
taken, a pose goal calls IK, new solutions are kept, and the nearest one ends a straight line. NumericalIk keeps the
control of `solve`: restarts from any configuration, iterations that progress, stall or run out, and the two records of
the best configuration.

### EdgeDiscretization and PathFit

A robot is a tree of links in the plane with revolute, prismatic and fixed joints and shapes on the links; the lever
weights are the code's recursion over it. Configurations are integers; steps round up as the code's do. PathFit
follows `fit_collision_free`: dedup, growth to six points, a curve through them, the recursive halving that
picks samples, one batch, and on a collision the densified path in the next round. The spline is Eigen's, so a curve here
is any that interpolates its points and bends one joint off one segment.

### TimeParameterization

`BackwardNode` and `ForwardNode` are the iterations of the two passes. Each interval's linear program is solved exactly, by
its vertices, in `Fractions`; a problem gives the path's derivatives at the nodes. `StartKernel`, `KernelPass` and
`LeaveKernel` are the velocity-reduction kernel: local dips, window minimum, two means, acceptance against the
acceleration rows, and the uniform scaling at the end.

### ClearanceField

Two axes instead of three, so a triangle is a segment. `Take`, `Load` and `Exchange` are a seeding thread's loop around
`compare_exchange_weak` on the packed word of distance and triangle. The flood is a sequence of passes from half the larger
side down to one, on the device or the host; `DeviceFails` may happen at any device step and the host starts at the
first stride. Signs come from the parity of watertight surfaces below a voxel.

### StudioSession

Each action is one statement on shared state: an obstacle edit is two writes and two cache invalidations, a click passes
the panel's guard, greys the button, passes the guard of `plan_async` and starts a thread, a job begins by
reading its arguments, ends by writing a cache or an attempt, and reports. `Callers` are the threads that run UI callbacks,
any number of them; `Workers` the background threads. Every action of one interleaves with those of all others, except that
two clearance builds exclude each other (`ui_lock`). An environment is the map from obstacles to poses, so "the roadmap was
built over this environment" is a value that can be compared. `fresh` holds the obstacle ids not yet given out.

The code leaves some races open (section 4). History variables say which of them happened, so that a property can claim
everything else, and each is set by one kind of race only:

| Variable | Set when |
|---|---|
| `tangled` | a move of an obstacle began between the two writes of another move of the same one |
| `crossed[p]` | since thread `p` read what it will write: an edit dropped the cache it builds, the start was set, or an attempt was filed |
| `late` | a cache or a timing was stored by a thread that was crossed, until one that was not stores it |
| `refused` | a button is grey whose job the guard of `plan_async` refused, until a job gives it back |

## 3. Runs

| Run | States | Shows |
|---|---|---|
| `rrt_search` | 306 thousand | trees, path soundness, justified failures, contract with at most one colliding waypoint, return |
| `rrt_waypoints` | violation | a waypoint of a Success path can collide |
| `scene` | 1.19 million | serial callers, mesh links: every answer current, tester and snapshot current |
| `scene_race` | violation | two first queries after an edit: a wrong "free" |
| `studio` | 406 thousand | two callbacks at a time beside jobs: caches, the log, buttons, each but for a named race |
| `smoother` | 1.18 million | rounds of several shortcuts stay sound, budgets, contract |
| `prm_query` | 213 thousand | labels, costs, shortest path, completeness, diagnosis, contract |
| `refiner` | 43 thousand | best effort of IK, a kept seed survives, contract in both modes |
| `optix` | 339 thousand | answers right across chunks, threads, reused buffers and throws; own transforms; queries end |
| `timing` | 39 thousand | rows and limits hold, always solved, jerk certified, fastest |
| `field` | 99 thousand | seeds exact for 2 and 3 threads, distances within 2.5 voxels where the strides reach on host, device and after a failure, signs |
| `path_fit` | 10 thousand | levers bound every sweep, fitted curves fully checked, curves stay on the polyline's points |

Each module states its type invariant `TypeOK`. `rrt_search` and `optix` check theirs; those of RrtConnect, CollisionScene,
ShortcutSmoother, StudioSession, TrajectoryRefiner and OptixScene are proved.

### Bounds, and why they are enough

- `rrt_search`: five configurations of a grid, every subset of them colliding and every subset of the long edges blocked
  (so every scene over them, 10240 initial states), goal lists that are empty, single, double, repeated; batches of two,
  so that two candidates share a parent and one bridge succeeds before the next is judged; three iterations, so that both
  sides grow twice in some order; the clock may run out before any step. One goal configuration lies outside the joint
  bounds.
- `rrt_waypoints`: the same space with batches of one and two iterations, which already reach the case.
- `prm_query`: seven configurations, nine edges that may be blocked, three configurations that may collide (start, a goal,
  a node), three sample sequences (four nodes; one with a repeated sample; one whose samples may all collide but one),
  k = 1 with a radius, so that the radius branch does the work. From the start two nodes tie or nearly tie in f, so entries
  go stale: `DropStale` fires. Two goals at different costs distinguish the first goal seen from the first goal popped.
- `smoother`: paths of up to six nodes; with two chords a round and six nodes the second erasure can lie on either side of
  the first. Three attempts give a second round on a shortened path. All sets of colliding chords.
- `scene`: two handles, so a removal leaves a gap in the handles and positions and handles differ; two ids that may
  repeat; four places; two configurations; four query options; two ACMs; two threads (symmetric).
- `studio`: two threads for callbacks, two starts, one obstacle with two poses or gone, two worker numbers, so
  that two jobs run at once or a finished worker's number and a running one coexist. `MaxCalls`, in the guard of `Callback`,
  bounds a session to three callbacks: enough for each race of section 4, which takes one to three. Every exemption of the
  properties is reached in the run. The theorems about the module are for any number of callbacks, callers, workers and obstacles.
- `refiner`: a lattice of 7 by 7 and four waypoints, so that a third of a segment is a lattice point; five environments,
  eight seeds (none, too short, straight, all one point, detours whose corners resampling keeps or cuts), goals by joint
  values, by pose, and lists of both; two updates of the two inner waypoints; IK with two calls, two attempts, three
  iterations, stall after two.
- `optix`: three links (one without rays, one with a geometry that casts none), four objects (one without triangles, two
  with the same id), batches of zero to three configurations, at most four threads a launch, so that a batch of
  three takes two chunks; two queries on one workspace, the first of which may throw, shorter or longer than the second.
- `timing`: all paths of four intervals over four kinds of node (straight, bending, standing still, running backwards)
  for one joint, over three kinds for two joints; tip limits on three intervals; eight intervals for the kernel, where its
  windows are narrower than the path. `Fastest` compares with every profile in steps of one half.
  `MaxDenominator` keeps the kernel's integers within TLC's range; `BetaCap` stands for the code's 1e12.
- `field`: grids of up to 31 by 31 voxels. Three segments and two or three threads for the interleavings; boxes, plates
  and touching or overlapping boxes, an L and a ring, with and without a device, for the flood and the signs; plates at
  opposite corners of a 17 by 17 grid, which the strides 8, 4, 2, 1 cross, and of a 31 by 31 one, where 15, 7, 3, 1 leave the
  other two corners out of reach. `MaxVoxels` bounds the grid, and one scene exceeds it.
- `path_fit`: three robots with a slide beyond a hinge, a fixed link between hinges, a hinge on a slide; every pair of postures of
  them for the levers; paths of two edges with a repeated point, obstacles a bend runs into, one to three rounds, five
  halvings (`MaxDepth`, 24 in the code; that it never cuts a halving short here is part of `CurveSampled`), spacing by
  resolution and by sweep.

Deadlock is checked except where a planner or smoother call has returned for good, in `optix` after the last query, and in
`studio`, where nobody has to click.

### Fairness

The planners, the refiner and the smoother: weak fairness of the next-state relation. A call runs on its caller's thread and
never waits, so it takes another step while it has one. That is all `<>Answered` and `<>returned` need; termination follows
from the iteration and work budgets, with a clock that need not advance. That the budgets do bound a call is also proved, for
every value of the constants (`CallsAreBounded`, `SearchesAreBounded`, section 5); that a call always has a next step until
it returns is what TLC's runs of the liveness properties add.
OptixScene: weak fairness of the host's steps and of the device's; a caller need not ask, and nothing need throw.
The studio: weak fairness of `Continue(p)` for each thread: threads are scheduled and planner calls return (they have
time-outs and iteration bounds). Callbacks have no fairness; nobody has to click. The other modules have none: only safety
is claimed.

## 4. What the runs found

1. `rrt_waypoints`. `batch_check` returns the first contact as `k / n`; an edge whose only colliding sample is its last one
   gets 1.0, which is also the value of a free edge. A colliding configuration enters the tree, and becomes a waypoint when
   a bridge from the other tree ends on it. Colliding nodes are always leaves, so a path has at most one of them, which is
   what `PathSound` says and what the contract is instantiated with (`Slack <- 1`). PrmPlanner keeps the strict contract
   (`Slack <- 0`).
2. `scene_race`. `ensure_containment` rebuilds a shared cache inside a const query without a lock.

Others met while modelling, which no run keeps. Most are shown by dropping a premise from a property named here.

Collision:
- On FCL a link of primitives inside a closed mesh is reported free: such a link has no interior point to test.
- `robot_padding` alone has no effect on the boolean path; it needs a distance or a margin request.
- `min_distance` keeps its positive value when the containment test alone reports the collision.
- `QueryOptions::per_pair_padding` is declared and never read.
- A throw from `OptixScene::query_batch` leaves copies and launches in flight, against the comment at `optix_scene.cpp:171`.
  They do no harm to the next query (`AnswersRight`), whose commands follow on the same stream.
- `DeviceBuffer::alloc` frees before it allocates; if `cudaMalloc` fails, the pointer dangles and the old size remains.

Planning:
- The refiner's fall-back certifies the resampled seed. A free seed whose corners resampling cuts can be lost, where
  ADR-019 promises a result never worse than the seed; hence `SeedKept` in `KeptSeedSurvives`. That this is the only way is
  `SeedsLostOnlyByResampling` (section 5).
- In refiner mode neither start nor goal of the problem is compared with the seed.
- A joint range that `joint_bounds` and the limits leave empty passes `validate()`, and `std::clamp` is undefined on it.
- `connection_radius` is documented to link every node within it; `k_nearest` may miss some (see `KNearest`).
- `validate()` does not hold start and goal to `Constraints::joint_bounds`.
- `uniform(a, b)` may round up to `b`, one past the last node a chord of the smoother may end on.

Fitting, timing, clearance:
- `fit_collision_free` densifies the whole path, its header says the offending segments. Between two near
  samples a curve may stray further than they are apart.
- With rows that are not monotone (zero inertia) the profile need not be the fastest at every node, against
  `parameterize.hpp:7` and `:10`; hence `Monotone` in `Fastest`.
- A velocity limit of 0 does not switch the family off as `parameterize.hpp:40` says; the path stalls.
- Where closed obstacles overlap, parity counts both surfaces and the distance comes out positive, inside both
  (`clearance_field.hpp:16`, `:53`); hence the premise of `SignsRight`.
- The strides of the flood, n/2, n/4, .. 1, carry a seed across a grid of side n only if n is a power of two. With half a voxel
  of margin, two plates at opposite corners of a 31 by 31 grid (strides 15, 7, 3, 1) leave the other two corners at infinite
  distance, against `clearance_field.hpp:82-83`, where a distance less a radius never overestimates clearance, and ADR-018's
  tolerance; hence `carried` in `WithinTolerance`.

Studio:

These races are open in the code, and each happens in the run. `CachesCurrent`, `RecordsHonest` and `ButtonsRecover` exempt what
the variable in brackets marks, and so say that there is no other way for caches, log and buttons to go wrong.

- An obstacle edit during a roadmap build leaves a roadmap of the old obstacles marked valid, against `session.py:623`;
  likewise the clearance field, against `:498-500`. No job need be running: a click on the clearance panel
  builds the field in its callback, and an edit, which takes no lock, drops the old one beside it (`late`).
- Two moves of one obstacle at once may leave it in one place in the dictionary, from which the clearance field is built, and
  in another in the scene, over which plans and roadmaps are made (`tangled`).
- The start set while a plan runs: the attempt is filed under a start its path does not begin at. Plan, set the start,
  refine: likewise, since `refine` seeds the refiner with the newest attempt's path and records the start as it is then
  (`crossed`).
- With two callbacks at once, both may pass the `is_planning` test of `plan_async` before either starts its thread, and
  two plans run, although the docstring (`:461`) promises one at a time; and a roadmap query runs beside a job that was
  launched after its test. Two attempts filed at once may get the same number (`crossed`), and reports that overlap may leave
  the older attempt on display.
- A timing that overlaps the filing of an attempt is of an attempt that is no longer on display (`late`).
- With two callbacks at once, the guard inside `plan_async` may raise after the panel greyed its button, and the exception
  passes the code that would enable it again: the job that is running restores only its own button. One click on
  Plan and one on Refine, the second launched first, leave Plan grey until the panel is rebuilt (`refused`).

Also:
- Identifiers of new obstacles count from the number of obstacles loaded, so one may be reused after a removal and a reload
  (`fresh` is about one session without a reload).

## 5. What is proved

All theorems are checked by TLAPS from the assumptions on the constants only: `RrtAssumption` and `StepsSymmetric`,
`SceneAssumption`, `ParamsAssumption`, `StudioAssumption`, `IkAssumption` and `RefinerAssumption`, `FieldAssumption`,
`OptixAssumption`, and `SpaceAssumption`, `RoadmapAssumption` and `QueryAssumption` of the roadmap. TLC evaluates each of
them in the runs. Where a theorem needs a condition on the callers or on the inputs as well, its statement names it.

**RrtConnect_proofs**, for every configuration space, distance, steering, scene, goal list, batch size and iteration budget:
`TypeCorrect` (which says of every node of both trees that its parent is none or a node of the same tree, and of
the walks of `build_path` that they stand in their trees), `ParentsFirst`, `OnlyLeavesCollide`, `PathsSound`,
`FailuresJustified`, `StepsImplementContract`. `PathSound`
speaks of returned paths only, and is not inductive. The inductive invariant `IInv` adds `SearchInv` (the trees are planted,
roots are the start and free goals, indices that a batch holds are in range) and `StitchInv`: while `build_path` walks, the
part of the path already stitched joins the two cursors over clear edges, and no colliding node can be met twice, because a
colliding node has no children. The last point is `CollidingNodesAreLeaves`: a candidate is kept only if its whole edge up
to its last sample is free, its first sample being its parent. `FailInv` follows the probe: every wanted configuration
probed so far collides or is a goal root, and no direct edge was accepted, so what the code says when it gives up is true
(this uses `StepsSymmetric`: an edge has the same samples from both ends). `StepsImplementContract` is the safety part of
the refinement of PlannerContract, with `Slack` 1 as in section 4.

`CallsAreBounded` says how long a call can take: `Left`, the steps that are left at most, is `CallBound` when plan() is
called, a natural number always, and lower after every step. An iteration is charged a step and a node for each candidate of
its batch and a bridge for each node it may add; the nodes of both trees pay for the walks of `build_path`, whose cursors
fall because parents precede children. The bound holds with a clock that never expires.

**CollisionScene_proofs**: `TypeCorrect` with no condition; `AnswersAreCurrent`, `ContainmentIsCurrent` and
`SnapshotIsCurrent` under `ContractConditions`: one query in flight or no mesh links; links without an interior point are
never inside an object; padding comes with a distance or a margin. `scene_race` breaks the first; what happens without
the other two is in section 4. The invariant follows a query through its steps: what a rebuild has collected so far, together with
the handles it still has to visit, is the environment.

**ShortcutSmoother_proofs**, for paths of every length and every batch size: `TypeCorrect`,
`PathStaysSound`, `EndsStay`, `WorkStaysBounded`, and `StepsImplementContract`, the safety part of the refinement of
`Smoother`. The inductive invariant adds `FreeClear`: a chord's verdict is about the two places it was drawn between, and
an erasure to its right leaves those places where they were. `CallsAreBounded`: at most `PerAttempt` steps for each attempt of
the budget, and one. It needs `RoundsHaveBudget`, that a round under way still has an attempt unspent, for the rounds
that shorten nothing: only what they validate counts down.

**StudioSession_proofs**, for any obstacles, poses, starts, workers, callers and number of callbacks, all overlapping as they may:
`TypeCorrect`, `CachesAreCurrent`, `RecordsAreHonest`. None of the properties is inductive. The invariants follow
the threads between their two ends:

- `Typed` says what a thread has read at each place where it may stand (`PlaceOK`).
- `EditInv` says of an obstacle how dictionary and scene differ while edits stand between their two writes: who adds it is
  alone with
  it, what is leaving is gone from the dictionary, and unless moves overlapped every mover between its writes will write to the
  scene what the dictionary has. The order of the writes, scene first for an addition and dictionary first for the others, is
  what keeps this; with any number of callers it needs that an id once removed is never given out again (`fresh`).
- `FieldInv` and `RoadmapInv` say of a cache, and of the environment of every build under way that no edit has crossed, that
  obstacles nobody is editing are where they are. The caches are dropped after the second write, so an edit that a build
  missed has
  the drop still before it.
- `AttemptsInv` says of every job that what it read (the start, then the number) is still so unless crossed, and
  `TimingInv` that a timing not crossed is of the attempt on display, with no attempt waiting to be shown.

`Keeps` and the `..Frame` lemmas reduce each invariant to the threads it speaks of, so that an action is looked at only where
it touches one of them.

**TrajectoryRefiner_proofs**, for every finite set of configurations, every waypoint count, seed, goal list, environment
and set of updates: `IkIsBestEffort` (about `NumericalIk` alone), `TypeCorrect`, `PathsCertified`, `StepsImplementContract`
(`Slack` 0). Updates are not assumed to stay inside `Cfg`. `PlanInv` keeps the ends: the trajectory begins at the start and
ends in a configuration the goal asks for, which is what a caller relies on and what no single step of the update
shows, since `resample` recomputes every waypoint. That its interpolation returns the first and the last point exactly
is `ResampleKeepsEnds`; it rests on the cumulated lengths being the ones the recursive function defines
(`IterationUnique`). `CertifiedIsSolution` turns the batch of samples into free edges.

`SeedsLostOnlyByResampling` says of every seed why a refinement can end in NoSolution: the seed as resampled, whose ends are
those of the seed, is not free; no update and no moment of the timeout is to blame. For seeds whose segments are parallel to an
axis (`AxisParallel`) and whose corners resampling keeps (`SeedKept`) it follows that the seed itself is not free: two samples
in a row
lie on one of its segments, so every sample of the edge between them is a sample of that segment. On a slanted segment
the samples of a piece need not be among those of the whole, in the code either, and a cut corner leaves the seed altogether.
`CallsAreBounded` counts down the attempts, restarts and iterations of the solver calls each sub-goal may need, and the
updates; it covers the steps of `NumericalIk` inside plan().

**OptixScene_proofs**, for every model, environment, batch size, thread limit and history of throws: `TypeCorrect`,
`OwnPoses`, `RightAnswers`. `TInv` says that everything on the stream fits the buffers it will run on, whatever query it
belongs to: buffers are only replaced when the stream is empty, and a launch comes after its parameters. `PoseInv` adds
that before the device reaches the parameters of the query in progress it has that query's transforms (`PosedBefore`: they
are there, or their copy is further ahead in the stream), and that these parameters are a chunk of the batch. Commands a
throw left behind carry another query's number and finish before. `AnswerInv` finds the place in the stream from which on
everything is this query's (`Since`): there the answers are cleared, and each configuration launched so far is in the
stream after it, about to run, under way, or told. The host reads the answers after the stream has drained, when only
the last is left. One premise is about the world: a link whose box misses that of the environment crosses no triangle.

**ClearanceField_proofs**, for every scene, grid and number of threads:

- `SeedsAreExact`. When seeding ends, each voxel has the nearest triangle among those whose voxels it lies in, of equally near
  ones the first, so the order in which the threads exchange makes no difference. The invariant `Tried` says for each triangle
  handed out and each of its voxels that a thread has still to exchange it or that the voxel holds nothing worse; a failed
  exchange leaves a fresh value, and what a thread read can only have been improved upon since.
- `DistancesNeverTooNear` and `DistancesExactNearSurfaces`: the distance of a voxel is one to a triangle there is, so it is
  never less than the nearest; and within 1.7 voxels of a surface it is the nearest one's. `FloodInv` carries both through the
  passes, on the device, on the host, and over a restart after the device failed: a pass only replaces a nearest point by a
  nearer one, and every point it spreads is some seed's. Neither needs a premise on margin or grid.
- `SignsAreRight` states `SignsRight` for closed and open outlines of any shape whose segments are along the axes, the only
  ones the module has. The code counts the surfaces below a voxel; `SignsRight` says what is inside by the walls left of it.
  That the two parities agree for a closed outline (`FloorsLikeWalls`) comes from counting the segment ends below and left of
  the voxel twice: by vertices they are even, two to each; by segments they are two of each that lies there and one of each
  floor and wall that leads out. Sets that can be paired off are even (`PairedEven`). Over several closed objects the parities
  add up (`EvenTogether`),
  so a voxel that at most one of them holds is inside exactly if one does (`InsideHeld`).

**PrmPlanner_proofs**, for every metric space, scene, sample sequence, goal list, number of neighbours and radius: all
of what `prm_query` checks but the end of the call, and the types. `TypeCorrect`; `ComponentsAreRight`;
`CostsAreExact`, `FoundIsShortest`, `SearchIsComplete`; `DiagnosisIsRight`; `StepsImplementContract` (`Slack` 0). The
argument has four parts.

- The construction. `Merged` says of the forest that the edges taken in so far have one root at both ends, and that any set
  of nodes no such edge leaves is a set no parent leaves. `FindRoot` shows what the loop of `find` does on every forest in
  which parents are no later than their nodes: it returns the root and the halving it leaves behind changes no root;
  `LinkJoins` that linking the greater root under the lesser joins two trees and no more. With every edge taken in, trees
  and components agree (`LabelsRight`), and labels are ranks of first nodes (`LabelsOfRoots`).
- The search, on any weighted graph with a consistent heuristic (`SearchOK`; that the joined graph is one is `GraphRight`,
  from the triangle inequality). A vertex whose current entry is no longer in the heap is closed. Closed vertices have
  passed their cost on and promise no more than any entry of the heap, so expanding the top improves none of them
  (`Expanded`), and every vertex was reached from a closed one at its present cost. Hence the walk on record has the cost on
  record (`CostRight`) and is free (`WalkRight`). Of any walk to a goal, the place where it leaves the closed vertices has an
  entry that promises no more than the walk costs (`NothingCheaper`): the top of the heap is as cheap as any, and an empty
  heap means there is none.
- The end of the search. `SearchesAreBounded`: a vertex once expanded stays settled, so each is expanded once, pushes at most one
  entry for every other, and the heap is popped at most `|Vertices|^2 + 1` times on every graph. With a heuristic
  that was not consistent, vertices would be reopened and the bound would fail.
- The query. `JoinedInv` says that connections are free and entered at both ends. The diagnosis follows: a search that gave
  up has closed every node of each component the start touches, and a goal joined to one of them would have been reached.

Lemmas about natural numbers, recursion on 1..n, flattened sequences and row-major indices stand at the head of the module
that needs them. No induction theorem is used: what a recursive function computes is shown from the least-number principle,
as the absence of a first place where it goes wrong.

Only model-checked:

- all of PathFit, TimeParameterization. PathFit declares a RECURSIVE operator, which keeps the SMT
  backend away; the vertices of TimeParameterization's programs are fractions, whose products are not linear arithmetic;
- the upper half of `WithinTolerance` of the clearance field, that far from a surface a distance is at most 2.5 voxels too
  long where
  the strides reach: jump flooding is approximate, and how far off it may be depends on the grid;
- `KeptSeedSurvives` for seeds with slanted segments (see above);
- liveness and termination everywhere (`ButtonsRecover` and `QueriesEnd` among them): liveness under fairness and ENABLED are
  beyond the prover;
- what the levers of EdgeDiscretization (`Reach` there) come to for every robot: sums of maxima over chains of joints.

## 6. What is abstracted or left out

- Floating point. Distances, gaps and errors are small integers, speeds are exact fractions, and gradients and IK
  steps are choices. The tolerances that guard against rounding are left out with it.
- The spacing of samples: that an edge free at the chosen resolution is free in between is a property of geometry;
  `SweepBounded` shows the part of it that the code computes, how far a link moves between samples.
- Timing: the kernel's dips are rounded down to quarters and its final factor to a power of two, its tolerances of 5 % and
  1e-2 are dropped, and it is followed on even N and profiles of small denominator only.
- Clearance field: two axes; segments parallel to an axis (so no surface is sloped); `query` (trilinear, NaN beside an
  infinite voxel) and the
  spheres that cover links are not modelled.
- Refiner: the seeds given match the problem's start and goal, as `refiner.hpp` asks.
- OptiX: a failing allocation is left out. The acceleration structure is the world's crossing relation.
  Culling is right by assumption: a link whose box misses the environment's box crosses nothing.
- Path fitting: offsets lie on axes, so norms are whole, and revolute joints make quarter turns, taken as 3/2 rad (less
  than they are, which makes `SweepBounded` stronger). The throw on waypoints of unequal size is left out.
- Studio: the draw of a new obstacle's id and the snapshot `environment()` takes are one step each; a planner call is a beginning
  and an end. The goal is left out: it is read and filed as the start is.
- Wording, statistics, logging, drawing.
- The OpenMP fan-out inside one batch, which reads shared state only and writes disjoint results.
- A data race between an obstacle edit and a planner call in C++ (undefined behaviour): StudioSession shows that nothing in
  the session prevents it, CollisionScene assumes its absence.
- Components with status `not_modelled` in `PROJECT.json`, each with its reason.

## 7. Plan

In this order, the most important behaviour first.

1. Done: PlannerContract, RrtConnect with proofs; CollisionScene with proofs; StudioSession; Smoother and
   ShortcutSmoother with proofs; Roadmap and PrmPlanner with proofs; TrajectoryRefiner with NumericalIk; OptixScene;
   TimeParameterization; ClearanceField; EdgeDiscretization and PathFit.
2. Done: proofs about RrtConnect, CollisionScene, ShortcutSmoother, StudioSession, TrajectoryRefiner, OptixScene,
   ClearanceField, Roadmap and PrmPlanner. Left: for PathFit, that the curve stays on the polyline (`StaysOnPolyline`), whose
   model would first have to do without RECURSIVE.
3. `Playback`: play, play_timed, stop, scrub, shutdown with clicks and playback threads. Properties: at most one playback,
   a stop that is followed by the end, the label agrees with the flag. Bounds: two clicks, two threads.
4. `SessionFile`: save and load with the serialisers, at the level of fields: what survives, and obstacle identifiers after
   a load.
5. `solve_all` of IK: duplicates and ordering. The clauses of `validate()` over bounded problems.
