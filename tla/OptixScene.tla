------------------------------- MODULE OptixScene -------------------------------
(***************************************************************************)
(* OptixScene::query_batch (src/collision/optix/optix_scene.cpp) with the  *)
(* ray programs it launches (optix_programs.cu).  The host fills pinned    *)
(* buffers, enqueues copies and launches on its workspace's stream, runs   *)
(* the self-collision pass while the device works, and joins the stream    *)
(* once; the buffers stay with the workspace for the next query.  A world  *)
(* says which triangles a ray of a posed link crosses and which objects    *)
(* hold an interior point; a link's pose in a configuration stands for its *)
(* transform.  The device runs the commands of a stream in order and the   *)
(* threads of a launch in any order; freeing memory waits for it.  An      *)
(* allocation that fails while a buffer grows is left out: the workspace   *)
(* is not used again after it.                                             *)
(***************************************************************************)
EXTENDS Integers, Sequences, SequencesExt

CONSTANTS
  Links,       \* the model's links in order
  Geoms,       \* for each of them, the number of rays of each collision geometry
  Objects,     \* the environment in order: [id, tris, solid]; ids may repeat
  Configs,     \* joint configurations
  Worlds,      \* [cross, inside, self, far], see below
  Acms,        \* allowed collision matrices: sets of pairs of names
  Batches,     \* the batches asked
  MaxThreads,  \* threads of one launch; 2^30 in the code
  Cull,        \* QUEVEDOMP_OPTIX_CULL is set
  MaxQueries   \* bound on the queries of one workspace

\* What there is to tell apart: the rays and interior points of the links, the
\* triangles of the objects.
Points == {x \in (DOMAIN Links) \X Nat : x[2] \in DOMAIN Geoms[x[1]]}
Rays == {x \in (DOMAIN Links) \X Nat \X Nat : <<x[1], x[2]>> \in Points /\ x[3] \in 1 .. Geoms[x[1]][x[2]]}
Triangles == {x \in (DOMAIN Objects) \X Nat : x[2] \in 1 .. Objects[x[1]].tris}

\* A link whose box misses the environment's crosses nothing.
ASSUME OptixAssumption ==
  /\ Links \in Seq(STRING)
  /\ Geoms \in [DOMAIN Links -> Seq(Nat)]
  /\ Objects \in Seq([id : STRING, tris : Nat, solid : BOOLEAN])
  /\ Batches \subseteq Seq(Configs)
  /\ \A w \in Worlds :
       /\ w.cross \subseteq Configs \X Rays \X Triangles
       /\ w.inside \subseteq Configs \X Points \X (DOMAIN Objects)
       /\ \A x \in w.cross : <<x[1], x[2][1]>> \notin w.far
  /\ MaxThreads \in Nat \ {0} /\ MaxQueries \in Nat /\ Cull \in BOOLEAN

-------------------------------------------------------------------------------
(* What the constructor uploads *)

Flatten(f) == FlattenSeq(f)

\* A link with rays gets the next transform slot.
RaysOf(l) == Flatten([g \in DOMAIN Geoms[l] |-> [k \in 1 .. Geoms[l][g] |-> <<l, g, k>>]])
SlotLinks == Flatten([l \in DOMAIN Links |-> IF RaysOf(l) = <<>> THEN <<>> ELSE <<l>>])
Slots == DOMAIN SlotLinks
RayData == Flatten([s \in Slots |-> RaysOf(SlotLinks[s])])
RayLink == Flatten([s \in Slots |-> [r \in DOMAIN RaysOf(SlotLinks[s]) |-> s]])

\* Every geometry has an interior point, rays or not.
Interior == Flatten([l \in DOMAIN Links |-> [g \in DOMAIN Geoms[l] |-> <<l, g>>]])

TriData == Flatten([o \in DOMAIN Objects |-> [k \in 1 .. Objects[o].tris |-> <<o, k>>]])

TriObject == Flatten([o \in DOMAIN Objects |-> [k \in 1 .. Objects[o].tris |-> o]])

\* Objects inside() can tell a point in: primitives and watertight meshes.
Solids == {o \in DOMAIN Objects : Objects[o].solid}

VARIABLES
  world,     \* [cross: <<q, ray, triangle>>, inside: <<q, point, object>>,
             \*  self: configurations, far: <<q, link>> clear of the environment's box]
  query,     \* queries begun
  call,      \* the arguments of the current one: [batch, acm, self]
  pc,        \* where the host stands in it; "idle" after a throw
  env_allowed, \* flat slot-by-object mask: the places set; {} for none
  contain_skip, \* <<link, object>> to leave out of containment
  c0,        \* configurations launched
  result,    \* the answers
  h_pose,    \* pinned transforms (and cull bytes)
  h_hits,    \* pinned results
  d_pose, d_out, d_params, d_allowed, \* device buffers
  stream,    \* commands enqueued and not begun
  launch     \* the launch in progress: [p, todo, tracing], or none

host == <<query, call, pc, env_allowed, contain_skip, c0, result>>
device == <<d_pose, d_out, d_params>>
vars == <<world, host, h_pose, h_hits, device, d_allowed, stream, launch>>

None == <<>>
JunkPose == <<0, "none", 0, FALSE>>
JunkHit == 2 \* what fresh memory holds
n == Len(call.batch)
NumSlots == Len(SlotLinks)
\* The acceleration structure exists.
Gas == TriData # <<>>
DoGpu == RayData # <<>> /\ Gas /\ n > 0
DoContain == Solids # {} /\ Interior # <<>> /\ n > 0

\* The answer a configuration should get: a ray of a link crosses a triangle of an
\* object, or a point of the link lies in a solid, that the ACM does not allow it
\* to touch; or the robot touches itself and the caller asked.
Allowed(l, o, acm) ==
  <<Links[l], Objects[o].id>> \in acm \/ <<Objects[o].id, Links[l]>> \in acm

Colliding(q, ask) ==
  \/ ask.self /\ q \in world.self
  \/ \E x \in world.cross : x[1] = q /\ ~ Allowed(x[2][1], x[3][1], ask.acm)
  \/ \E x \in world.inside : x[1] = q /\ x[3] \in Solids /\ ~ Allowed(x[2][1], x[3], ask.acm)

-------------------------------------------------------------------------------
Quiet == stream = <<>> /\ launch = None

\* DeviceBuffer::alloc and PinnedBuffer::reserve: a buffer too small is freed, which
\* waits for the device, and comes back at least twice as long with arbitrary
\* contents.
Grow(buf, size, junk) ==
  IF size <= Len(buf) THEN buf
  ELSE [i \in 1 .. (IF size > 2 * Len(buf) THEN size ELSE 2 * Len(buf)) |-> junk]

Fits(buf, size) == size <= Len(buf) \/ Quiet

\* The first entries of a buffer replaced by those of another.
Overwrite(buf, with, size) == [i \in DOMAIN buf |-> IF i <= size THEN with[i] ELSE buf[i]]

Init ==
  /\ world \in Worlds
  /\ query = 0
  /\ call = [batch |-> <<>>, acm |-> {}, self |-> FALSE]
  /\ pc = "idle"
  /\ env_allowed = {}
  /\ contain_skip = {}
  /\ c0 = 0
  /\ result = <<>>
  /\ h_pose = <<>>
  /\ h_hits = <<>>
  /\ d_pose = <<>>
  /\ d_out = <<>>
  /\ d_params = <<>>
  /\ d_allowed = {}
  /\ stream = <<>>
  /\ launch = None

Goto(s) == pc' = s

\* add(link, id) for both readings of every pair of the ACM; row-major by slot.
EnvAllowed(pairs) ==
  {(x[1] - 1) * Len(Objects) + x[2] : x \in {y \in Slots \X (DOMAIN Objects) : <<SlotLinks[y[1]], y[2]>> \in pairs}}

Query(batch, acm, self) ==
  LET pairs == {p \in (DOMAIN Links) \X (DOMAIN Objects) : Allowed(p[1], p[2], acm)} IN
  /\ pc \in {"idle", "returned"}
  /\ query < MaxQueries
  /\ query' = query + 1
  /\ call' = [batch |-> batch, acm |-> acm, self |-> self]
  /\ env_allowed' = EnvAllowed(pairs)
  /\ contain_skip' = pairs
  /\ result' = [c \in DOMAIN batch |-> 0]
  /\ c0' = 0
  /\ Goto("pose")
  /\ UNCHANGED <<world, h_pose, h_hits, device, d_allowed, stream, launch>>

\* The FK pass fills the pinned block, configuration by configuration and slot by
\* slot.  A cull byte is set where the link's box misses the environment's.
PoseEntry(i) ==
  LET c == ((i - 1) \div NumSlots) + 1
      l == SlotLinks[((i - 1) % NumSlots) + 1]
  IN  <<query, call.batch[c], l, Cull /\ <<call.batch[c], l>> \in world.far>>

Pose ==
  /\ pc = "pose"
  /\ IF DoGpu
     THEN /\ Fits(h_pose, n * NumSlots)
          /\ h_pose' = Overwrite(Grow(h_pose, n * NumSlots, JunkPose), [i \in 1 .. n * NumSlots |-> PoseEntry(i)], n * NumSlots)
          /\ Goto("upload")
     ELSE /\ UNCHANGED h_pose
          /\ Goto("self")
  /\ UNCHANGED <<world, query, call, env_allowed, contain_skip, c0, result, h_hits, device, d_allowed, stream, launch>>

\* Mutant: one transform for each configuration is allocated.
UploadPoses_OnePerConfig ==
  /\ pc = "upload"
  /\ Fits(d_pose, n)
  /\ d_pose' = Grow(d_pose, n, JunkPose)
  /\ stream' = Append(stream, [do |-> "copy_poses", size |-> n * NumSlots])
  /\ Goto("clear")
  /\ UNCHANGED <<world, query, call, env_allowed, contain_skip, c0, result, h_pose, h_hits, d_out, d_params, d_allowed, launch>>

\* Transforms to the device, then the results set to zero.
UploadPoses ==
  /\ pc = "upload"
  /\ Fits(d_pose, n * NumSlots)
  /\ d_pose' = Grow(d_pose, n * NumSlots, JunkPose)
  /\ stream' = Append(stream, [do |-> "copy_poses", size |-> n * NumSlots])
  /\ Goto("clear")
  /\ UNCHANGED <<world, query, call, env_allowed, contain_skip, c0, result, h_pose, h_hits, d_out, d_params, d_allowed, launch>>

\* Mutant: results are cleared only when their buffer is new.
Clear_WhenNew ==
  /\ pc = "clear"
  /\ Fits(d_out, n)
  /\ d_out' = Grow(d_out, n, JunkHit)
  /\ stream' = IF d_out' = d_out THEN stream ELSE Append(stream, [do |-> "clear", size |-> n])
  /\ Goto("mask")
  /\ UNCHANGED <<world, query, call, env_allowed, contain_skip, c0, result, h_pose, h_hits, d_pose, d_params, d_allowed, launch>>

Clear ==
  /\ pc = "clear"
  /\ Fits(d_out, n)
  /\ d_out' = Grow(d_out, n, JunkHit)
  /\ stream' = Append(stream, [do |-> "clear", size |-> n])
  /\ Goto("mask")
  /\ UNCHANGED <<world, query, call, env_allowed, contain_skip, c0, result, h_pose, h_hits, d_pose, d_params, d_allowed, launch>>

\* A synchronous copy on the default stream: it waits for this one.
UploadMask ==
  /\ pc = "mask"
  /\ IF env_allowed = {} THEN UNCHANGED d_allowed ELSE Quiet /\ d_allowed' = env_allowed
  /\ Goto("launch")
  /\ UNCHANGED <<world, query, call, env_allowed, contain_skip, c0, result, h_pose, h_hits, device, stream, launch>>

Smaller(a, b) == IF a < b THEN a ELSE b
MaxConfigs == IF MaxThreads < Len(RayData) THEN 1 ELSE MaxThreads \div Len(RayData)

\* Mutant: every chunk reads the first chunk's transforms.
Params_NoOffset(size) ==
  [query |-> query, pose |-> 0, configs |-> size, out |-> c0, masked |-> env_allowed # {}]

\* LaunchParams of the next chunk: base places in the buffers and the pointer to
\* the mask, null when it is empty.
Params(size) ==
  [query |-> query, pose |-> c0 * NumSlots, configs |-> size, out |-> c0, masked |-> env_allowed # {}]

Launch ==
  /\ pc = "launch"
  /\ c0 < n
  /\ LET size == Smaller(MaxConfigs, n - c0) IN
       /\ stream' = stream \o <<[do |-> "copy_params", p |-> Params(size)], [do |-> "launch"]>>
       /\ c0' = c0 + size
  /\ UNCHANGED <<world, query, call, pc, env_allowed, contain_skip, result, h_pose, h_hits, device, d_allowed, launch>>

ReadBack ==
  /\ pc = "launch"
  /\ c0 >= n
  /\ Fits(h_hits, n)
  /\ h_hits' = Grow(h_hits, n, JunkHit)
  /\ stream' = Append(stream, [do |-> "copy_hits", size |-> n])
  /\ Goto("self")
  /\ UNCHANGED <<world, query, call, env_allowed, contain_skip, c0, result, h_pose, device, d_allowed, launch>>

\* Robot-vs-self on the CPU, while the device works.
SelfPass ==
  /\ pc = "self"
  /\ result' = [c \in DOMAIN result |-> IF call.self /\ call.batch[c] \in world.self THEN 1 ELSE 0]
  /\ Goto("join")
  /\ UNCHANGED <<world, query, call, env_allowed, contain_skip, c0, h_pose, h_hits, device, d_allowed, stream, launch>>

\* cudaStreamSynchronize, then both passes are merged.
Join ==
  /\ pc = "join"
  /\ DoGpu => Quiet
  /\ result' = [c \in DOMAIN result |-> IF DoGpu /\ h_hits[c] # 0 THEN 1 ELSE result[c]]
  /\ Goto("contain")
  /\ UNCHANGED <<world, query, call, env_allowed, contain_skip, c0, h_pose, h_hits, device, d_allowed, stream, launch>>

InsideOf(q) ==
  \E i \in DOMAIN Interior, o \in Solids :
    <<q, Interior[i], o>> \in world.inside /\ <<Interior[i][1], o>> \notin contain_skip

Contain ==
  /\ pc = "contain"
  /\ result' = [c \in DOMAIN result |-> IF DoContain /\ InsideOf(call.batch[c]) THEN 1 ELSE result[c]]
  /\ Goto("returned")
  /\ UNCHANGED <<world, query, call, env_allowed, contain_skip, c0, h_pose, h_hits, device, d_allowed, stream, launch>>

\* FK, a CUDA call or the self pass throws; what is enqueued stays enqueued.
Throw ==
  /\ pc \in {"pose", "upload", "clear", "mask", "launch", "self"}
  /\ Goto("idle")
  /\ UNCHANGED <<world, query, call, env_allowed, contain_skip, c0, result, h_pose, h_hits, device, d_allowed, stream, launch>>

-------------------------------------------------------------------------------
(* The device *)

Command(what) == launch = None /\ stream # <<>> /\ stream[1].do = what /\ stream' = Tail(stream)

CopyPoses ==
  /\ Command("copy_poses")
  /\ d_pose' = Overwrite(d_pose, h_pose, stream[1].size)
  /\ UNCHANGED <<world, host, h_pose, h_hits, d_out, d_params, d_allowed, launch>>

ZeroHits ==
  /\ Command("clear")
  /\ d_out' = [i \in DOMAIN d_out |-> IF i <= stream[1].size THEN 0 ELSE d_out[i]]
  /\ UNCHANGED <<world, host, h_pose, h_hits, d_pose, d_params, d_allowed, launch>>

CopyParams ==
  /\ Command("copy_params")
  /\ d_params' = stream[1].p
  /\ UNCHANGED <<world, host, h_pose, h_hits, d_pose, d_out, d_allowed, launch>>

\* One thread for each ray and configuration of the chunk.
BeginLaunch ==
  /\ Command("launch")
  /\ launch' = [p |-> d_params, todo |-> (DOMAIN RayData) \X (1 .. d_params.configs), tracing |-> {}]
  /\ UNCHANGED <<world, host, h_pose, h_hits, device, d_allowed>>

Out(c) == launch.p.out + c
PoseFor(t) == d_pose[launch.p.pose + (t[2] - 1) * NumSlots + RayLink[t[1]]]

\* Mutant: a thread waits while its configuration has a hit.
Look_Waits(t) ==
  /\ launch # None
  /\ t \in launch.todo
  /\ d_out[Out(t[2])] = 0
  /\ launch' = [launch EXCEPT !.todo = @ \ {t}, !.tracing = IF PoseFor(t)[4] THEN @ ELSE @ \cup {t}]
  /\ UNCHANGED <<world, host, h_pose, h_hits, device, d_allowed, stream>>

\* __raygen__rg up to the trace: a thread leaves early when its configuration has
\* a hit already or its link is culled.
Look(t) ==
  /\ launch # None
  /\ t \in launch.todo
  /\ launch' = [launch EXCEPT !.todo = @ \ {t},
                              !.tracing = IF d_out[Out(t[2])] # 0 \/ PoseFor(t)[4] THEN @ ELSE @ \cup {t}]
  /\ UNCHANGED <<world, host, h_pose, h_hits, device, d_allowed, stream>>

\* The trace: a triangle the posed ray crosses and __anyhit__ah does not ignore.
Hits(t) ==
  LET pose == PoseFor(t)
      ray == RayData[t[1]]
  IN  \E i \in DOMAIN TriData :
        /\ pose[3] = ray[1]
        /\ <<pose[2], ray, TriData[i]>> \in world.cross
        /\ launch.p.masked => (RayLink[t[1]] - 1) * Len(Objects) + TriObject[i] \notin d_allowed

\* The trace and the atomicOr.
Trace(t) ==
  /\ launch # None
  /\ t \in launch.tracing
  /\ launch' = [launch EXCEPT !.tracing = @ \ {t}]
  /\ d_out' = IF Hits(t) THEN [d_out EXCEPT ![Out(t[2])] = 1] ELSE d_out
  /\ UNCHANGED <<world, host, h_pose, h_hits, d_pose, d_params, d_allowed, stream>>

EndLaunch ==
  /\ launch # None
  /\ launch.todo = {} /\ launch.tracing = {}
  /\ launch' = None
  /\ UNCHANGED <<world, host, h_pose, h_hits, device, d_allowed, stream>>

CopyHits ==
  /\ Command("copy_hits")
  /\ h_hits' = Overwrite(h_hits, d_out, stream[1].size)
  /\ UNCHANGED <<world, host, h_pose, device, d_allowed, launch>>

HostStep ==
  Pose \/ UploadPoses \/ Clear \/ UploadMask \/ Launch \/ ReadBack \/ SelfPass \/ Join \/ Contain

Threads == IF launch = None THEN {} ELSE launch.todo \cup launch.tracing

DeviceStep ==
  \/ CopyPoses \/ ZeroHits \/ CopyParams \/ BeginLaunch \/ EndLaunch \/ CopyHits
  \/ \E t \in Threads : Look(t) \/ Trace(t)

Next ==
  \/ \E batch \in Batches, acm \in Acms, self \in BOOLEAN : Query(batch, acm, self)
  \/ HostStep \/ Throw \/ DeviceStep

\* query_batch runs on in its thread, and the device on its own; callers need not
\* ask, and nothing need throw.
Spec == Init /\ [][Next]_vars /\ WF_vars(HostStep) /\ WF_vars(DeviceStep)

-------------------------------------------------------------------------------
HitValue == {0, 1, JunkHit}
PoseValue == {JunkPose} \cup ((0 .. MaxQueries) \X Configs \X (DOMAIN Links) \X BOOLEAN)

\* Types of the variables; what the device is asked to copy fits its buffers.
TypeOK ==
  /\ query \in 0 .. MaxQueries
  /\ pc \in {"idle", "pose", "upload", "clear", "mask", "launch", "self", "join", "contain", "returned"}
  /\ result \in [DOMAIN call.batch -> {0, 1}]
  /\ c0 \in 0 .. n
  /\ {h_pose, d_pose} \subseteq Seq(PoseValue)
  /\ {h_hits, d_out} \subseteq Seq(HitValue)
  /\ d_allowed \subseteq 1 .. NumSlots * Len(Objects)
  /\ \A i \in DOMAIN stream :
       /\ stream[i].do = "copy_poses" => stream[i].size <= Smaller(Len(h_pose), Len(d_pose))
       /\ stream[i].do \in {"clear", "copy_hits"} => stream[i].size <= Len(d_out)
       /\ stream[i].do = "copy_hits" => stream[i].size <= Len(h_hits)

\* Whatever earlier queries left in the buffers or on the stream, in whatever order
\* the threads of a launch run, and across chunks: a query that returns gives the
\* right answer for every configuration of its batch (ADR-014, ADR-012).
AnswersRight ==
  pc = "returned" =>
    \A c \in DOMAIN result : (result[c] = 1) = Colliding(call.batch[c], call)

\* A thread of the current query's launch sees its own ray's link posed in its own
\* configuration, not what another query or another chunk put there.
LaunchesReadOwnPoses ==
  launch # None => (launch.p.query = query =>
    \A t \in Threads :
      /\ PoseFor(t)[1] = query
      /\ PoseFor(t)[2] = call.batch[Out(t[2])]
      /\ PoseFor(t)[3] = RayData[t[1]][1])

\* Every query ends, with an answer or a throw, also when it has to wait for what a
\* query that threw left on the stream.
QueriesEnd == pc \notin {"idle", "returned"} ~> pc \in {"idle", "returned"}
===============================================================================
