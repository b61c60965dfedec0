----------------------------- MODULE ClearanceField -----------------------------
(***************************************************************************)
(* ClearanceField::build (src/clearance/clearance_field.cpp): threads seed *)
(* the voxels near the surfaces, a jump flood on the device or the host    *)
(* spreads the nearest surface point, and the parity of the surfaces below *)
(* a voxel signs its distance.  The model has the two axes x and z, so a   *)
(* triangle is a segment, here parallel to an axis; lengths are in half    *)
(* voxels and distances are squared.                                       *)
(***************************************************************************)
EXTENDS Integers, Sequences, FiniteSetsExt, SequencesExt

CONSTANTS
  Scenes,    \* [objects, margin, threads, gpu]: each object a sequence of segments <<a, b>>
  MaxVoxels  \* options.max_voxels

Point == Int \X Int
Segment == {e \in Point \X Point :
  e[1][1] <= e[2][1] /\ e[1][2] <= e[2][2] /\ (e[1][1] = e[2][1] \/ e[1][2] = e[2][2])}

ASSUME FieldAssumption ==
  /\ MaxVoxels \in Nat
  /\ Scenes \subseteq [objects : Seq(Seq(Segment)), margin : Nat, threads : Nat \ {0}, gpu : BOOLEAN]

VARIABLES
  pc,      \* the stage of the build
  scene,
  best,    \* per voxel the nearest triangle found, as <<distance, triangle>>
  next,    \* the triangle the next idle thread takes
  thread,  \* what each thread works on: [tri, left, current]
  ids,     \* per voxel the nearest surface point known
  device,  \* the copy of ids the device floods
  step,    \* the stride of the next flood pass
  dist     \* per voxel the squared distance, negative inside

vars == <<pc, scene, best, next, thread, ids, device, step, dist>>

-------------------------------------------------------------------------------
(* The grid *)

Segments == FlattenSeq(scene.objects)
Tris == DOMAIN Segments
Ends == {Segments[t][1] : t \in Tris} \cup {Segments[t][2] : t \in Tris}
Origin == [i \in {1, 2} |-> Min({p[i] : p \in Ends}) - scene.margin]
Side(i) == ((Max({p[i] : p \in Ends}) + scene.margin - Origin[i] + 1) \div 2) + 1
Voxels == (0 .. Side(1) - 1) \X (0 .. Side(2) - 1)

Center(v) == <<Origin[1] + 2 * v[1], Origin[2] + 2 * v[2]>>
Clamp(n, lo, hi) == Max({lo, Min({n, hi})})
Closest(p, t) == [i \in {1, 2} |-> Clamp(p[i], Segments[t][1][i], Segments[t][2][i])]
Square(p, q) == (p[1] - q[1]) * (p[1] - q[1]) + (p[2] - q[2]) * (p[2] - q[2])

\* Every voxel within 1.8 voxels of the segment's box.
Reach(t, i) ==
  Max({0, (5 * (Segments[t][1][i] - Origin[i]) - 18) \div 10})
    .. Min({Side(i) - 1, (5 * (Segments[t][2][i] - Origin[i]) + 18) \div 10})
Near(t) == Reach(t, 1) \X Reach(t, 2)

Infinite == 30000
Empty == <<Infinite, 0>>
NoSeed == <<>>
Code(v, t) == <<Square(Center(v), Closest(Center(v), t)), t>>
Below_IndexFirst(c, d) == c[2] < d[2] \/ (c[2] = d[2] /\ c[1] < d[1])   \* Mutant: halves swapped
Below(c, d) == c[1] < d[1] \/ (c[1] = d[1] /\ c[2] < d[2])

-------------------------------------------------------------------------------
(* Seeding *)

Idle == [tri |-> 0, left |-> {}, loaded |-> FALSE, current |-> Empty]

Init ==
  /\ scene \in Scenes
  /\ pc = "start" /\ next = 1 /\ step = 0
  /\ thread = [i \in 1 .. scene.threads |-> Idle]
  /\ best = <<>> /\ ids = <<>> /\ device = <<>> /\ dist = <<>>

Throw ==
  /\ pc = "start"
  /\ Segments # <<>> => Cardinality(Voxels) > MaxVoxels
  /\ pc' = "thrown"
  /\ UNCHANGED <<scene, best, next, thread, ids, device, step, dist>>

Start ==
  /\ pc = "start" /\ Segments # <<>> /\ Cardinality(Voxels) <= MaxVoxels
  /\ best' = [v \in Voxels |-> Empty]
  /\ pc' = "seed"
  /\ UNCHANGED <<scene, next, thread, ids, device, step, dist>>

\* An idle thread takes the next triangle.
Take(i) ==
  /\ pc = "seed" /\ thread[i].left = {} /\ next \in Tris
  /\ thread' = [thread EXCEPT ![i] = [Idle EXCEPT !.tri = next, !.left = Near(next)]]
  /\ next' = next + 1
  /\ UNCHANGED <<pc, scene, best, ids, device, step, dist>>

\* The voxels of a triangle, row by row.
Voxel(i) == CHOOSE v \in thread[i].left :
  \A w \in thread[i].left : v[2] < w[2] \/ (v[2] = w[2] /\ v[1] <= w[1])

Load(i) ==
  /\ pc = "seed" /\ thread[i].left # {} /\ ~thread[i].loaded
  /\ thread' = [thread EXCEPT ![i].loaded = TRUE, ![i].current = best[Voxel(i)]]
  /\ UNCHANGED <<pc, scene, best, next, ids, device, step, dist>>

Advance(i) == [thread[i] EXCEPT !.left = @ \ {Voxel(i)}, !.loaded = FALSE, !.current = Empty]

\* A candidate no better than what was read is dropped; a better one is exchanged if the
\* voxel still holds what was read, and else read again.  (compare_exchange_weak may also
\* fail on its own, which changes nothing.)
Exchange(i) ==
  /\ pc = "seed" /\ thread[i].loaded
  /\ \E v \in {Voxel(i)} : \E c \in {Code(v, thread[i].tri)} :
       \/ /\ ~Below(c, thread[i].current)
          /\ thread' = [thread EXCEPT ![i] = Advance(i)] /\ UNCHANGED best
       \/ /\ Below(c, thread[i].current) /\ best[v] = thread[i].current
          /\ best' = [best EXCEPT ![v] = c]
          /\ thread' = [thread EXCEPT ![i] = Advance(i)]
       \/ /\ Below(c, thread[i].current) /\ best[v] # thread[i].current
          /\ thread' = [thread EXCEPT ![i].current = best[v]] /\ UNCHANGED best
  /\ UNCHANGED <<pc, scene, next, ids, device, step, dist>>

FirstStep == Max({Side(1), Side(2)}) \div 2

\* The threads have joined: per seeded voxel, the surface point of its triangle.
Compact ==
  /\ pc = "seed" /\ next \notin Tris /\ \A i \in DOMAIN thread : thread[i].left = {}
  /\ ids' = [v \in Voxels |-> IF best[v] = Empty THEN NoSeed ELSE Closest(Center(v), best[v][2])]
  /\ device' = IF scene.gpu THEN ids' ELSE <<>>
  /\ step' = FirstStep
  /\ pc' = IF scene.gpu THEN "device" ELSE "host"
  /\ UNCHANGED <<scene, best, next, thread, dist>>

-------------------------------------------------------------------------------
(* The jump flood *)

\* The neighbours of a voxel, row by row.
Offsets == << <<-1, -1>>, <<0, -1>>, <<1, -1>>, <<-1, 0>>, <<1, 0>>, <<-1, 1>>, <<0, 1>>, <<1, 1>> >>

\* The seed of neighbour o of voxel v at stride s, if there is one and it is nearer.
Nearer(grid, s, v, o, id) ==
  LET w == <<v[1] + o[1] * s, v[2] + o[2] * s>>
  IN  IF w \notin DOMAIN grid \/ grid[w] = NoSeed THEN id
      ELSE IF id = NoSeed \/ Square(Center(v), grid[w]) < Square(Center(v), id) THEN grid[w] ELSE id

\* Voxel v asks its neighbours one by one.
Asked(grid, s, v) ==
  LET seen[n \in 1 .. 9] == IF n = 1 THEN grid[v] ELSE Nearer(grid, s, v, Offsets[n - 1], seen[n - 1])
  IN  seen[9]

\* A pass reads one array and writes another, so its threads do not meet.
Pass(grid, s) == [v \in DOMAIN grid |-> Asked(grid, s, v)]

HostPass ==
  /\ pc = "host" /\ step >= 1
  /\ ids' = Pass(ids, step) /\ step' = step \div 2
  /\ UNCHANGED <<pc, scene, best, next, thread, device, dist>>

DevicePass ==
  /\ pc = "device" /\ step >= 1
  /\ device' = Pass(device, step) /\ step' = step \div 2
  /\ UNCHANGED <<pc, scene, best, next, thread, ids, dist>>

DeviceDone ==
  /\ pc = "device" /\ step = 0
  /\ ids' = device /\ device' = <<>>
  /\ pc' = "distances"
  /\ UNCHANGED <<scene, best, next, thread, step, dist>>

DeviceFails_KeepsStep ==                      \* Mutant: the host goes on at the device's stride
  /\ pc = "device" /\ device' = <<>>
  /\ pc' = "host"
  /\ UNCHANGED <<scene, best, next, thread, ids, step, dist>>

\* Any CUDA error, "no device" included: the host floods from the seeds, or, when only the
\* last synchronisation failed, from the copied result.
DeviceFails ==
  /\ pc = "device" /\ device' = <<>>
  /\ ids' \in {ids} \cup {d \in {device} : step = 0}
  /\ step' = FirstStep /\ pc' = "host"
  /\ UNCHANGED <<scene, best, next, thread, dist>>

HostDone ==
  /\ pc = "host" /\ step = 0
  /\ pc' = "distances"
  /\ UNCHANGED <<scene, best, next, thread, ids, device, step, dist>>

-------------------------------------------------------------------------------
(* Distances and signs *)

Distances ==
  /\ pc = "distances"
  /\ dist' = [v \in Voxels |-> IF ids[v] = NoSeed THEN Infinite ELSE Square(Center(v), ids[v])]
  /\ pc' = "sign"
  /\ UNCHANGED <<scene, best, next, thread, ids, device, step>>

\* Every edge of the mesh is shared by two triangles: here, every end by two segments, a
\* segment without length counting twice.
Halves(o) == (DOMAIN o) \X {1, 2}
IsWatertight(o) ==
  /\ o # <<>>
  /\ \A h \in Halves(o) : Cardinality({g \in Halves(o) : o[g[1]][g[2]] = o[h[1]][h[2]]}) = 2

\* Segments of watertight objects over which column x passes, a hair to the right of its
\* voxels so that no end is hit.
Columns(a, b) == Max({0, ((a - Origin[1] + 1) \div 2) - 1}) .. Min({Side(1) - 1, ((b - Origin[1]) \div 2) + 1})
Crosses(x, s) ==
  /\ x \in Columns(s[1][1], s[2][1])
  /\ s[1][1] <= Center(<<x, 0>>)[1] /\ Center(<<x, 0>>)[1] < s[2][1]

Crossings_Open(x) ==                          \* Mutant: open objects count too
  {e \in UNION {{<<k, t>> : t \in DOMAIN scene.objects[k]} : k \in DOMAIN scene.objects} :
     Crosses(x, scene.objects[e[1]][e[2]])}

Crossings(x) ==
  {e \in UNION {{<<k, t>> : t \in DOMAIN scene.objects[k]} : k \in DOMAIN scene.objects} :
     IsWatertight(scene.objects[e[1]]) /\ Crosses(x, scene.objects[e[1]][e[2]])}

\* An odd number of surfaces below.
Inside(v) ==
  Cardinality({e \in Crossings(v[1]) : scene.objects[e[1]][e[2]][1][2] < Center(v)[2]}) % 2 = 1

Sign ==
  /\ pc = "sign"
  /\ dist' = [v \in Voxels |-> IF Inside(v) THEN -dist[v] ELSE dist[v]]
  /\ pc' = "built"
  /\ UNCHANGED <<scene, best, next, thread, ids, device, step>>

Done == pc \in {"built", "thrown"} /\ UNCHANGED vars

Next ==
  \/ Throw \/ Start
  \/ \E i \in DOMAIN thread : Take(i) \/ Load(i) \/ Exchange(i)
  \/ Compact \/ HostPass \/ DevicePass \/ DeviceDone \/ DeviceFails \/ HostDone
  \/ Distances \/ Sign \/ Done

Spec == Init /\ [][Next]_vars

-------------------------------------------------------------------------------
(* Properties *)

\* However the seeding threads interleave, each voxel ends with the nearest of all the
\* triangles near it, and of several the first; and the host floods from its surface point.
SeedsExact ==
  pc \in {"host", "device"} /\ step = FirstStep =>
    \A v \in Voxels :
      LET codes == {Code(v, t) : t \in {u \in Tris : v \in Near(u)}}
      IN  /\ (best[v] = Empty) = (codes = {})
          /\ codes # {} => /\ best[v] \in codes
                            /\ \A c \in codes : c[1] > best[v][1] \/ (c[1] = best[v][1] /\ c[2] >= best[v][2])
          /\ codes # {} /\ ~scene.gpu => ids[v] = Closest(Center(v), best[v][2])

\* How far the strides of the flood carry a seed, in voxels.
Carry ==
  LET sum[s \in Nat] == IF s = 0 THEN 0 ELSE s + sum[s \div 2] IN sum[FirstStep]

\* The distance of every voxel is that of a surface, and given a margin at most 2.5 voxels
\* more than the nearest one's (ADR-018) wherever the strides can carry that one's point:
\* on the host, on the device, and after a failed device.  Beyond their reach a voxel may
\* be left at infinity.
WithinTolerance ==
  pc = "built" =>
    \A v \in Voxels :
      LET to == [t \in Tris |-> Closest(Center(v), t)]
          true == Min({Square(Center(v), to[t]) : t \in Tris})
          got == Max({dist[v], -dist[v]})
          excess == got - true - 25
          carried == \E t \in Tris :
            /\ Square(Center(v), to[t]) = true
            /\ \A i \in {1, 2} : Center(v)[i] - to[t][i] \in -2 * Carry .. 2 * Carry
      IN  /\ got >= true
          /\ scene.margin > 0 /\ carried /\ excess > 0 => excess * excess <= 100 * true

\* By rows instead of columns: an odd number of the walls of o stand left of p.
Walls(o, p) == {t \in DOMAIN o : o[t][1][1] <= p[1] /\ o[t][1][2] < p[2] /\ p[2] <= o[t][2][2]}
Holds(o, p) == Cardinality(Walls(o, p)) % 2 = 1
Holders(v) ==
  {k \in DOMAIN scene.objects : IsWatertight(scene.objects[k]) /\ Holds(scene.objects[k], Center(v))}

\* A voxel is negative exactly if it lies in a closed object and on no surface, whatever the
\* outlines, open objects and shared faces.  (Where closed objects overlap, their surfaces
\* are counted together and cancel.)
SignsRight ==
  pc = "built" =>
    \A v \in Voxels :
      Cardinality(Holders(v)) <= 1 =>
        (dist[v] < 0) = (Holders(v) # {} /\ ids[v] # Center(v))
================================================================================
