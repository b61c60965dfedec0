------------------------- MODULE StudioSession_proofs -------------------------
(***************************************************************************)
(* Proofs about StudioSession, for any number of callers that run          *)
(* callbacks at once, and any workers, obstacles, poses and starts: its    *)
(* type, what relates the scene and the caches to the obstacles, and what  *)
(* relates the log and the timing to what was planned.                     *)
(***************************************************************************)
EXTENDS StudioSession, TLAPS

-------------------------------------------------------------------------------
(* The type of the session and of what a thread holds where it stands. *)

JobStages == {"begin", "field", "build_field", "build", "search", "record", "untime", "append",
              "failed", "report"}
Building == {"build_field", "build"}
Kinds == Jobs \cup {"query", "clearance", "add", "change", "none"}
Events == {"edit", "start", "filing"}

Locals == [kind : Kinds, env : Environment \cup {None}, from : Starts, seed : Nat,
           index : Nat, start : Starts, ok : BOOLEAN, at : Nat, id : Ids \cup {None},
           pose : Poses \cup {Gone}]

\* The locals that a thread has at the place where it stands.
PlaceOK(p) ==
  /\ pc[p] = "idle" => mine[p] = Blank
  /\ pc[p] = "edit" => mine[p].id \in Ids /\ (mine[p].kind = "add" => mine[p].pose \in Poses)
  /\ pc[p] \in Building => mine[p].env # None
  /\ pc[p] \in {"clicked", "launch", "spawn"} => mine[p].kind \in Jobs
  /\ pc[p] \in JobStages => mine[p].kind \in Jobs \cup {"query", "clearance"}
  /\ pc[p] \in JobStages /\ mine[p].kind = "clearance" => pc[p] \in {"field", "build_field"}
  /\ pc[p] = "build" => mine[p].kind \in {"roadmap", "query"}
  /\ pc[p] \in {"field", "build_field", "search", "record", "untime", "append"} => mine[p].kind # "roadmap"
  /\ p \in Workers => pc[p] \in JobStages \cup {"idle"} /\ (pc[p] # "idle" => mine[p].kind \in Jobs)

\* The session's variables have their types, and so has every local.
SharedOK ==
  /\ obstacles \in Environment /\ world \in Environment /\ fresh \subseteq Ids
  /\ field \in Environment \cup {None} /\ prm \in Environment \cup {None}
  /\ start \in Starts
  /\ attempts \in Seq(Attempt)
  /\ trajectory \in 0 .. Len(attempts) /\ last \in 0 .. Len(attempts)
  /\ thread \in Workers \cup {None}
  /\ enabled \subseteq Buttons /\ refused \subseteq Buttons
  /\ tangled \subseteq Ids /\ late \subseteq {"field", "roadmap", "timing"}

TInv ==
  /\ SharedOK
  /\ pc \in [Procs -> PC]
  /\ mine \in [Procs -> Locals]
  /\ \A p \in Procs : mine[p].at <= Len(attempts) /\ PlaceOK(p)

\* An edit crosses only builds.
XInv ==
  /\ crossed \in [Procs -> SUBSET Events]
  /\ \A p \in Procs : "edit" \in crossed[p] => pc[p] \in Building

-------------------------------------------------------------------------------
LEMMA BlankType == Blank \in Locals
  BY StudioAssumption DEF Blank, Locals, Kinds

LEMMA LastOfLog ==
  ASSUME attempts \in Seq(Attempt), attempts # <<>>
  PROVE  Len(attempts) \in Nat \ {0} /\ attempts[Len(attempts)] \in Attempt
  OBVIOUS

LEMMA InitTInv == Init => TInv /\ XInv
<1> SUFFICES ASSUME Init PROVE TInv /\ XInv
  OBVIOUS
<1> USE StudioAssumption, BlankType DEF Init
<1>1. SharedOK
  <2>1. attempts \in Seq(Attempt) /\ trajectory \in 0 .. Len(attempts) /\ last \in 0 .. Len(attempts)
    OBVIOUS
  <2>2. /\ obstacles \in Environment /\ world \in Environment /\ fresh \subseteq Ids
        /\ field \in Environment \cup {None} /\ prm \in Environment \cup {None}
        /\ start \in Starts
        /\ thread \in Workers \cup {None}
    OBVIOUS
  <2>3. /\ enabled \subseteq Buttons /\ refused \subseteq Buttons
        /\ tangled \subseteq Ids /\ late \subseteq {"field", "roadmap", "timing"}
    OBVIOUS
  <2>. QED
    BY <2>1, <2>2, <2>3 DEF SharedOK
<1>2. pc \in [Procs -> PC] /\ mine \in [Procs -> Locals]
  BY DEF PC
<1>3. ASSUME NEW p \in Procs PROVE mine[p].at <= Len(attempts) /\ PlaceOK(p)
  <2>1. pc[p] = "idle" /\ mine[p] = Blank /\ Len(attempts) = 0 /\ Blank.at = 0
    BY DEF Blank
  <2>. QED
    BY <2>1 DEF PlaceOK, JobStages, Building
<1>4. XInv
  BY DEF XInv
<1>. QED
  BY <1>1, <1>2, <1>3, <1>4 DEF TInv

\* One process moves, and only its locals change.
Moves(q) ==
  /\ pc' = [pc EXCEPT ![q] = pc'[q]]
  /\ mine' = [mine EXCEPT ![q] = mine'[q]]

LEMMA MoveTInv ==
  ASSUME TInv, NEW q \in Procs, Moves(q), SharedOK', Len(attempts) <= Len(attempts'),
         pc'[q] \in PC, mine'[q] \in Locals, mine'[q].at <= Len(attempts'), PlaceOK(q)'
  PROVE  TInv'
<1>1. pc' \in [Procs -> PC] /\ mine' \in [Procs -> Locals]
  BY DEF TInv, Moves
<1>2. ASSUME NEW p \in Procs PROVE mine'[p].at <= Len(attempts') /\ PlaceOK(p)'
  <2>1. CASE p = q
    BY <2>1
  <2>2. CASE p # q
    <3>1. /\ pc'[p] = pc[p] /\ mine'[p] = mine[p] /\ PlaceOK(p) /\ mine[p].at \in Nat
          /\ mine[p].at <= Len(attempts)
      BY <2>2 DEF TInv, Moves, Locals
    <3>2. Len(attempts) \in Nat /\ Len(attempts') \in Nat
      BY DEF TInv, SharedOK
    <3>3. PlaceOK(p)'
      BY <3>1, SMTT(30) DEF PlaceOK
    <3>. QED
      BY <3>1, <3>2, <3>3
  <2>. QED
    BY <2>1, <2>2
<1>. QED
  BY <1>1, <1>2 DEF TInv

\* A job goes on to its next stage,
LEMMA JobStep ==
  ASSUME TInv, NEW q \in Procs, Moves(q), SharedOK', Len(attempts) <= Len(attempts'),
         pc[q] \in JobStages, pc'[q] \in JobStages,
         mine'[q] \in Locals, mine'[q].kind = mine[q].kind, mine'[q].at <= Len(attempts'),
         pc'[q] \in Building => mine'[q].env # None,
         mine[q].kind # "clearance" \/ pc'[q] = "build_field",
         pc'[q] = "build" => mine[q].kind \in {"roadmap", "query"},
         pc'[q] \in {"field", "build_field", "search", "record", "untime", "append"} => mine[q].kind # "roadmap"
  PROVE  TInv'
<1>1. /\ mine[q].kind \in Jobs \cup {"query", "clearance"}
      /\ q \in Workers => mine[q].kind \in Jobs
  BY DEF TInv, PlaceOK, JobStages
<1>2. PlaceOK(q)'
  BY <1>1 DEF PlaceOK, JobStages
<1>. QED
  BY <1>2, MoveTInv DEF JobStages, PC

\* What a job has of its kind where it stands.
LEMMA KindOf ==
  ASSUME TInv, NEW q \in Procs, pc[q] \in JobStages
  PROVE  /\ pc[q] \notin {"field", "build_field"} => mine[q].kind # "clearance"
         /\ pc[q] \in {"field", "build_field", "search", "record", "untime", "append"} => mine[q].kind # "roadmap"
  BY DEF TInv, PlaceOK

\* or a process comes to rest.
LEMMA RestStep ==
  ASSUME TInv, NEW q \in Procs, Moves(q), SharedOK', attempts' = attempts,
         pc'[q] = "idle", mine'[q] = Blank
  PROVE  TInv'
<1>1. PlaceOK(q)'
  BY DEF PlaceOK, JobStages, Building
<1>2. Blank \in Locals /\ Blank.at = 0 /\ attempts \in Seq(Attempt)
  BY BlankType DEF Blank, TInv, SharedOK
<1>3. pc'[q] \in PC /\ mine'[q].at <= Len(attempts') /\ Len(attempts) <= Len(attempts')
  BY <1>2 DEF PC
<1>. QED
  BY <1>1, <1>2, <1>3, MoveTInv

LEMMA T_AddObstacle ==
  ASSUME TInv, NEW c \in Callers, NEW id \in Ids, NEW pose \in Poses, AddObstacle(c, id, pose)
  PROVE  TInv'
<1>1. SharedOK'
  BY DEF TInv, SharedOK, AddObstacle, edits, caches, log, buttons, history, Environment
<1>2. /\ Moves(c) /\ attempts' = attempts /\ c \in Procs
      /\ pc'[c] = "edit" /\ mine'[c] = [Blank EXCEPT !.kind = "add", !.id = id, !.pose = pose]
      /\ attempts \in Seq(Attempt)
  BY DEF TInv, SharedOK, PlaceOK, AddObstacle, Moves, Goto, log, Procs
<1>3. mine'[c] \in Locals /\ mine'[c].kind = "add" /\ mine'[c].at = 0 /\ mine'[c].id = id /\ mine'[c].pose = pose
  BY ZenonT(30), <1>2, BlankType, StudioAssumption DEF Locals, Blank, Kinds
<1>4. c \notin Workers
  BY StudioAssumption
<1>5. PlaceOK(c)'
  BY <1>2, <1>3, <1>4 DEF PlaceOK, JobStages, Building, Jobs
<1>6. pc'[c] \in PC /\ mine'[c].at <= Len(attempts') /\ Len(attempts) <= Len(attempts')
  BY <1>2, <1>3 DEF PC
<1>. QED
  BY <1>1, <1>2, <1>3, <1>5, <1>6, MoveTInv

LEMMA T_ChangeObstacle ==
  ASSUME TInv, NEW c \in Callers, NEW id \in Ids, NEW pose \in Poses \cup {Gone}, ChangeObstacle(c, id, pose)
  PROVE  TInv'
<1>1. SharedOK'
  BY DEF TInv, SharedOK, ChangeObstacle, edits, caches, log, buttons, history, Environment
<1>2. /\ Moves(c) /\ attempts' = attempts /\ c \in Procs
      /\ pc'[c] = "edit" /\ mine'[c] = [Blank EXCEPT !.kind = "change", !.id = id, !.pose = pose]
      /\ attempts \in Seq(Attempt)
  BY DEF TInv, SharedOK, PlaceOK, ChangeObstacle, Moves, Goto, log, Procs
<1>3. mine'[c] \in Locals /\ mine'[c].kind = "change" /\ mine'[c].at = 0 /\ mine'[c].id = id
  BY ZenonT(30), <1>2, BlankType, StudioAssumption DEF Locals, Blank, Kinds
<1>4. c \notin Workers
  BY StudioAssumption
<1>5. PlaceOK(c)'
  BY <1>2, <1>3, <1>4 DEF PlaceOK, JobStages, Building, Jobs
<1>6. pc'[c] \in PC /\ mine'[c].at <= Len(attempts') /\ Len(attempts) <= Len(attempts')
  BY <1>2, <1>3 DEF PC
<1>. QED
  BY <1>1, <1>2, <1>3, <1>5, <1>6, MoveTInv

LEMMA T_SetStart ==
  ASSUME TInv, NEW c \in Callers, NEW s \in Starts, SetStart(c, s)
  PROVE  TInv'
<1>1. SharedOK'
  BY DEF TInv, SharedOK, SetStart, edits, caches, log, buttons
<1>2. attempts' = attempts /\ pc' = pc /\ mine' = mine
  BY DEF SetStart, log
<1>3. ASSUME NEW p \in Procs PROVE PlaceOK(p)'
  BY <1>2, Zenon DEF TInv, PlaceOK
<1>. QED
  BY <1>1, <1>2, <1>3 DEF TInv

LEMMA T_ClickClearance ==
  ASSUME TInv, NEW c \in Callers, ClickClearance(c)
  PROVE  TInv'
<1>1. SharedOK'
  BY DEF TInv, SharedOK, ClickClearance, edits, caches, log, buttons, history, Environment
<1>2. /\ Moves(c) /\ attempts' = attempts /\ c \in Procs
      /\ pc'[c] = "field" /\ mine'[c] = [Blank EXCEPT !.kind = "clearance"]
      /\ attempts \in Seq(Attempt)
  BY DEF TInv, SharedOK, PlaceOK, ClickClearance, Moves, Goto, log, Procs
<1>3. mine'[c] \in Locals /\ mine'[c].kind = "clearance" /\ mine'[c].at = 0
  BY ZenonT(30), <1>2, BlankType, StudioAssumption DEF Locals, Blank, Kinds
<1>4. c \notin Workers
  BY StudioAssumption
<1>5. PlaceOK(c)'
  BY <1>2, <1>3, <1>4 DEF PlaceOK, JobStages, Building, Jobs
<1>6. pc'[c] \in PC /\ mine'[c].at <= Len(attempts') /\ Len(attempts) <= Len(attempts')
  BY <1>2, <1>3 DEF PC
<1>. QED
  BY <1>1, <1>2, <1>3, <1>5, <1>6, MoveTInv

LEMMA T_Click ==
  ASSUME TInv, NEW c \in Callers, NEW kind \in Jobs, Click(c, kind)
  PROVE  TInv'
<1>1. SharedOK'
  BY DEF TInv, SharedOK, Click, edits, caches, log, buttons, history, Environment
<1>2. /\ Moves(c) /\ attempts' = attempts /\ c \in Procs
      /\ pc'[c] = "clicked" /\ mine'[c] = [Blank EXCEPT !.kind = kind]
      /\ attempts \in Seq(Attempt)
  BY DEF TInv, SharedOK, PlaceOK, Click, Moves, Goto, log, Procs
<1>3. mine'[c] \in Locals /\ mine'[c].kind = kind /\ mine'[c].at = 0
  BY <1>2, BlankType DEF Locals, Blank, Jobs, Kinds
<1>4. c \notin Workers
  BY StudioAssumption
<1>5. PlaceOK(c)'
  BY <1>2, <1>3, <1>4 DEF PlaceOK, JobStages, Building, Jobs
<1>6. pc'[c] \in PC /\ mine'[c].at <= Len(attempts') /\ Len(attempts) <= Len(attempts')
  BY <1>2, <1>3 DEF PC
<1>. QED
  BY <1>1, <1>2, <1>3, <1>5, <1>6, MoveTInv

LEMMA T_Query ==
  ASSUME TInv, NEW c \in Callers, Query(c)
  PROVE  TInv'
<1>1. SharedOK'
  BY DEF TInv, SharedOK, Query, edits, caches, log, buttons, history, Environment
<1>2. /\ Moves(c) /\ attempts' = attempts /\ c \in Procs
      /\ pc'[c] = "begin" /\ mine'[c] = [Blank EXCEPT !.kind = "query"]
      /\ attempts \in Seq(Attempt)
  BY DEF TInv, SharedOK, PlaceOK, Query, Moves, Goto, log, Procs
<1>3. mine'[c] \in Locals /\ mine'[c].kind = "query" /\ mine'[c].at = 0
  BY ZenonT(30), <1>2, BlankType, StudioAssumption DEF Locals, Blank, Kinds
<1>4. c \notin Workers
  BY StudioAssumption
<1>5. PlaceOK(c)'
  BY <1>2, <1>3, <1>4 DEF PlaceOK, JobStages, Building, Jobs
<1>6. pc'[c] \in PC /\ mine'[c].at <= Len(attempts') /\ Len(attempts) <= Len(attempts')
  BY <1>2, <1>3 DEF PC
<1>. QED
  BY <1>1, <1>2, <1>3, <1>5, <1>6, MoveTInv

LEMMA T_BeginTiming ==
  ASSUME TInv, NEW c \in Callers, BeginTiming(c)
  PROVE  TInv'
<1>1. SharedOK'
  BY DEF TInv, SharedOK, BeginTiming, edits, caches, log, buttons, history, Environment
<1>2. /\ Moves(c) /\ attempts' = attempts /\ c \in Procs
      /\ pc'[c] = "timing" /\ mine'[c] = [Blank EXCEPT !.at = last]
      /\ attempts \in Seq(Attempt) /\ last \in 0 .. Len(attempts)
  BY DEF TInv, SharedOK, PlaceOK, BeginTiming, Moves, Goto, log, Procs
<1>3. mine'[c] \in Locals /\ mine'[c].kind = "none" /\ mine'[c].at = last
  <2>1. last \in Nat
    BY <1>2
  <2>. QED
    BY <1>2, <2>1, BlankType DEF Locals, Blank
<1>4. c \notin Workers
  BY StudioAssumption
<1>5. PlaceOK(c)'
  BY <1>2, <1>3, <1>4 DEF PlaceOK, JobStages, Building, Jobs
<1>6. pc'[c] \in PC /\ mine'[c].at <= Len(attempts') /\ Len(attempts) <= Len(attempts')
  BY <1>2, <1>3 DEF PC
<1>. QED
  BY <1>1, <1>2, <1>3, <1>5, <1>6, MoveTInv

LEMMA T_FinishEdit ==
  ASSUME TInv, NEW q \in Procs, FinishEdit(q)
  PROVE  TInv'
<1>1. /\ Moves(q) /\ attempts' = attempts /\ mine[q] \in Locals
      /\ pc[q] = "edit" /\ pc'[q] = "drop_field" /\ mine'[q] = mine[q]
      /\ attempts \in Seq(Attempt) /\ mine[q].at <= Len(attempts)
  BY DEF TInv, SharedOK, FinishEdit, Moves, Goto, log
<1>0. PlaceOK(q)
  BY DEF TInv
<1>2. mine[q].id \in Ids /\ mine[q].pose \in Poses \cup {Gone}
  BY <1>0, <1>1 DEF PlaceOK, Locals
<1>3. SharedOK'
  BY <1>2 DEF TInv, SharedOK, FinishEdit, caches, log, buttons, history, Environment
<1>4. PlaceOK(q)'
  BY <1>0, <1>1 DEF PlaceOK, JobStages, Building
<1>5. mine'[q].at <= Len(attempts') /\ Len(attempts) <= Len(attempts')
  BY <1>1
<1>. QED
  BY <1>1, <1>3, <1>4, <1>5, MoveTInv DEF PC

LEMMA T_DropField ==
  ASSUME TInv, NEW q \in Procs, DropField(q)
  PROVE  TInv'
<1>1. /\ Moves(q) /\ attempts' = attempts /\ mine[q] \in Locals
      /\ pc[q] = "drop_field" /\ pc'[q] = "drop_roadmap" /\ mine'[q] = mine[q]
      /\ attempts \in Seq(Attempt) /\ mine[q].at <= Len(attempts)
  BY DEF TInv, SharedOK, DropField, Moves, Goto, log
<1>0. PlaceOK(q)
  BY DEF TInv
<1>2. SharedOK'
  BY DEF TInv, SharedOK, DropField, edits, log, buttons
<1>3. PlaceOK(q)'
  BY <1>0, <1>1 DEF PlaceOK, JobStages, Building
<1>4. mine'[q].at <= Len(attempts') /\ Len(attempts) <= Len(attempts')
  BY <1>1
<1>. QED
  BY <1>1, <1>2, <1>3, <1>4, MoveTInv DEF PC

LEMMA T_DropRoadmap ==
  ASSUME TInv, NEW q \in Procs, DropRoadmap(q)
  PROVE  TInv'
<1>1. SharedOK'
  BY DEF TInv, SharedOK, DropRoadmap, edits, caches, log, buttons
<1>2. Moves(q) /\ attempts' = attempts /\ pc'[q] = "idle" /\ mine'[q] = Blank
  BY DEF TInv, DropRoadmap, Moves, Goto, log
<1>. QED
  BY <1>1, <1>2, RestStep

LEMMA T_Grey ==
  ASSUME TInv, NEW q \in Procs, Grey(q)
  PROVE  TInv'
<1>1. SharedOK'
  BY DEF TInv, SharedOK, Grey, edits, caches, log, history
<1>2. /\ Moves(q) /\ attempts' = attempts /\ mine[q] \in Locals /\ PlaceOK(q)
      /\ attempts \in Seq(Attempt) /\ mine[q].at <= Len(attempts) /\ pc[q] = "clicked"
      /\ pc'[q] = "launch" /\ mine'[q] = mine[q]
  BY DEF TInv, SharedOK, Grey, Moves, Goto, log
<1>3. PlaceOK(q)'
  BY <1>2 DEF PlaceOK, JobStages, Building
<1>4. mine'[q].at <= Len(attempts') /\ Len(attempts) <= Len(attempts')
  BY <1>2
<1>. QED
  BY <1>1, <1>2, <1>3, <1>4, MoveTInv DEF PC

LEMMA T_Launch ==
  ASSUME TInv, NEW q \in Procs, Launch(q)
  PROVE  TInv'
<1>0. Button(mine[q].kind) \in Buttons
  BY DEF TInv, PlaceOK, Launch, Jobs, Button, Buttons
<1>1. SharedOK'
  BY <1>0 DEF TInv, SharedOK, Launch, edits, caches, log, history
<1>2. /\ Moves(q) /\ attempts' = attempts /\ mine[q] \in Locals /\ PlaceOK(q)
      /\ attempts \in Seq(Attempt) /\ mine[q].at <= Len(attempts) /\ pc[q] = "launch"
      /\ \/ pc'[q] = "idle" /\ mine'[q] = Blank
         \/ pc'[q] = "spawn" /\ mine'[q] = mine[q]
  BY DEF TInv, SharedOK, Launch, Moves, Goto, log
<1>3. CASE pc'[q] = "idle"
  BY <1>1, <1>2, <1>3, RestStep
<1>4. CASE pc'[q] = "spawn" /\ mine'[q] = mine[q]
  <2>1. PlaceOK(q)'
    BY <1>2, <1>4 DEF PlaceOK, JobStages, Building
  <2>2. mine'[q].at <= Len(attempts') /\ Len(attempts) <= Len(attempts')
    BY <1>2, <1>4
  <2>. QED
    BY <1>1, <1>2, <1>4, <2>1, <2>2, MoveTInv DEF PC
<1>. QED
  BY <1>2, <1>3, <1>4

LEMMA T_Spawn ==
  ASSUME TInv, NEW q \in Procs, Spawn(q)
  PROVE  TInv'
<1>1. PICK w \in Workers :
        /\ pc[w] = "idle"
        /\ thread' = w
        /\ pc' = [pc EXCEPT ![w] = "begin", ![q] = "idle"]
        /\ mine' = [mine EXCEPT ![w] = [Blank EXCEPT !.kind = mine[q].kind], ![q] = Blank]
  BY DEF Spawn
<1>2. /\ pc[q] = "spawn" /\ mine[q].kind \in Jobs /\ w # q /\ w \in Procs /\ q \notin Workers
      /\ attempts' = attempts /\ attempts \in Seq(Attempt)
  BY <1>1 DEF Spawn, TInv, SharedOK, PlaceOK, JobStages, Procs, log
<1>3. SharedOK'
  BY <1>1 DEF Spawn, TInv, SharedOK, edits, caches, log, buttons, history
<1>4. /\ pc' \in [Procs -> PC] /\ pc'[w] = "begin" /\ pc'[q] = "idle"
      /\ \A p \in Procs : p # w /\ p # q => pc'[p] = pc[p]
  BY <1>1, <1>2 DEF TInv, PC
<1>5. [Blank EXCEPT !.kind = mine[q].kind] \in Locals
  BY <1>2, BlankType DEF Locals, Jobs, Kinds
<1>6. /\ mine' \in [Procs -> Locals] /\ mine'[w] = [Blank EXCEPT !.kind = mine[q].kind] /\ mine'[q] = Blank
      /\ \A p \in Procs : p # w /\ p # q => mine'[p] = mine[p]
  BY <1>1, <1>2, <1>5, BlankType DEF TInv
<1>7. Blank.at = 0 /\ mine'[w].at = 0 /\ mine'[w].kind = mine[q].kind /\ Len(attempts) \in Nat
  BY <1>2, <1>6 DEF Blank
<1>8. ASSUME NEW p \in Procs PROVE mine'[p].at <= Len(attempts') /\ PlaceOK(p)'
  <2>1. CASE p = w
    <3>1. p \notin Callers
      BY <2>1, StudioAssumption
    <3>. QED
      BY <1>2, <1>4, <1>7, <2>1, <3>1 DEF PlaceOK, JobStages, Building, Jobs
  <2>2. CASE p = q
    BY <1>2, <1>4, <1>6, <1>7, <2>2 DEF PlaceOK, JobStages, Building
  <2>3. CASE p # w /\ p # q
    <3>1. pc'[p] = pc[p] /\ mine'[p] = mine[p] /\ PlaceOK(p) /\ mine[p].at <= Len(attempts)
      BY <1>4, <1>6, <2>3 DEF TInv
    <3>. QED
      BY <1>2, <3>1, SMTT(30) DEF PlaceOK
  <2>. QED
    BY <2>1, <2>2, <2>3
<1>. QED
  BY <1>3, <1>4, <1>6, <1>8 DEF TInv

LEMMA T_BeginRefine ==
  ASSUME TInv, NEW q \in Procs, BeginRefine(q)
  PROVE  TInv'
<1>1. SharedOK'
  BY DEF TInv, SharedOK, BeginRefine, edits, caches, log, buttons, history
<1>2. /\ Moves(q) /\ attempts' = attempts /\ mine[q] \in Locals
      /\ attempts \in Seq(Attempt) /\ mine[q].at <= Len(attempts)
  BY DEF TInv, SharedOK, BeginRefine, Moves, Goto, log
<1>3. /\ pc[q] = "begin" /\ mine[q].kind = "refine"
      /\ \/ pc'[q] = "failed" /\ mine'[q] = mine[q]
         \/ /\ pc'[q] = "field" /\ attempts # <<>>
            /\ mine'[q] = [mine[q] EXCEPT !.from = attempts[Len(attempts)].from, !.seed = Len(attempts)]
  BY DEF TInv, BeginRefine, Goto
<1>4. mine'[q] \in Locals /\ mine'[q].kind = mine[q].kind /\ mine'[q].at = mine[q].at
  <2>1. CASE mine'[q] = mine[q]
    BY <1>2, <2>1
  <2>2. CASE /\ attempts # <<>>
             /\ mine'[q] = [mine[q] EXCEPT !.from = attempts[Len(attempts)].from, !.seed = Len(attempts)]
    <3>1. Len(attempts) \in Nat /\ attempts[Len(attempts)].from \in Starts
      BY <1>2, <2>2, LastOfLog DEF Attempt
    <3>. QED
      BY <1>2, <2>2, <3>1 DEF Locals
  <2>. QED
    BY <1>3, <2>1, <2>2
<1>5. mine'[q].at <= Len(attempts') /\ Len(attempts) <= Len(attempts')
  BY <1>2, <1>4
<1>. QED
  BY <1>1, <1>2, <1>3, <1>4, <1>5, JobStep, KindOf DEF JobStages, Building

LEMMA T_Begin ==
  ASSUME TInv, NEW q \in Procs, Begin(q)
  PROVE  TInv'
<1>1. SharedOK'
  BY DEF TInv, SharedOK, Begin, edits, caches, log, buttons, history
<1>2. /\ Moves(q) /\ attempts' = attempts /\ mine[q] \in Locals
      /\ attempts \in Seq(Attempt) /\ mine[q].at <= Len(attempts)
  <2>1. PICK e : mine' = [mine EXCEPT ![q].from = start, ![q].env = e]
    BY Zenon DEF Begin
  <2>2. PICK s : pc' = [pc EXCEPT ![q] = s]
    BY Zenon DEF Begin, Goto
  <2>3. attempts' = attempts
    BY Zenon DEF Begin, log
  <2>. QED
    BY <2>1, <2>2, <2>3 DEF TInv, SharedOK, Moves
<1>3. /\ pc[q] = "begin"
      /\ mine'[q] = [mine[q] EXCEPT !.from = start, !.env = IF Builds(q) THEN world ELSE None]
      /\ start \in Starts /\ world \in Environment /\ world # None /\ mine[q].kind # "clearance"
  <2>1. mine[q].kind # "clearance"
    BY DEF TInv, PlaceOK, JobStages, Begin
  <2>2. pc[q] = "begin" /\ mine'[q] = [mine[q] EXCEPT !.from = start, !.env = IF Builds(q) THEN world ELSE None]
    BY DEF TInv, Begin
  <2>. QED
    BY <2>1, <2>2, StudioAssumption DEF TInv, SharedOK, Environment
<1>6. /\ pc'[q] \in {"field", "build", "search"}
      /\ pc'[q] \in {"field", "search"} => mine[q].kind # "roadmap"
      /\ pc'[q] = "build" => mine[q].kind \in {"roadmap", "query"} /\ Builds(q)
  <2>1. pc'[q] = CASE mine[q].kind = "chomp" -> "field" [] Builds(q) -> "build" [] OTHER -> "search"
    BY DEF TInv, Begin, Goto
  <2>. QED
    BY <2>1 DEF Builds
<1>4. /\ mine'[q] \in Locals /\ mine'[q].kind = mine[q].kind /\ mine'[q].at = mine[q].at
      /\ pc'[q] = "build" => mine'[q].env # None
  <2>1. PICK e \in Environment \cup {None} :
          mine'[q] = [mine[q] EXCEPT !.from = start, !.env = e] /\ (Builds(q) => e = world)
    BY <1>3
  <2>2. mine'[q] \in Locals /\ mine'[q].kind = mine[q].kind /\ mine'[q].at = mine[q].at /\ mine'[q].env = e
    BY <1>2, <1>3, <2>1 DEF Locals
  <2>. QED
    BY <1>3, <1>6, <2>1, <2>2
<1>5. mine'[q].at <= Len(attempts') /\ Len(attempts) <= Len(attempts')
  BY <1>2, <1>4
<1>. QED
  BY <1>1, <1>2, <1>3, <1>4, <1>5, <1>6, JobStep, KindOf DEF JobStages, Building

LEMMA T_UseField ==
  ASSUME TInv, NEW q \in Procs, UseField(q)
  PROVE  TInv'
<1>1. SharedOK'
  BY DEF TInv, SharedOK, UseField, edits, caches, log, buttons, history
<1>2. /\ Moves(q) /\ attempts' = attempts /\ mine[q] \in Locals
      /\ attempts \in Seq(Attempt) /\ mine[q].at <= Len(attempts)
      /\ pc[q] = "field" /\ pc'[q] = "search" /\ mine'[q] = mine[q] /\ mine[q].kind # "clearance"
  BY DEF TInv, SharedOK, UseField, Moves, Goto, log
<1>3. mine[q].kind # "roadmap"
  BY <1>2 DEF TInv, PlaceOK
<1>4. mine'[q].at <= Len(attempts') /\ Len(attempts) <= Len(attempts')
  BY <1>2
<1>. QED
  BY <1>1, <1>2, <1>3, <1>4, JobStep, KindOf DEF JobStages, Building

LEMMA T_BeginField ==
  ASSUME TInv, NEW q \in Procs, BeginField(q)
  PROVE  TInv'
<1>1. SharedOK'
  BY DEF TInv, SharedOK, BeginField, edits, caches, log, buttons, history
<1>2. /\ Moves(q) /\ attempts' = attempts /\ mine[q] \in Locals /\ PlaceOK(q)
      /\ attempts \in Seq(Attempt) /\ mine[q].at <= Len(attempts)
      /\ pc[q] = "field" /\ pc'[q] = "build_field"
      /\ mine'[q] = [mine[q] EXCEPT !.env = obstacles] /\ obstacles \in Environment
  BY DEF TInv, SharedOK, BeginField, Moves, Goto, edits, caches, log, buttons, history
<1>3. mine'[q] \in Locals /\ mine'[q].kind = mine[q].kind /\ mine'[q].at = mine[q].at /\ mine'[q].env # None
  BY <1>2, StudioAssumption DEF Locals, Environment
<1>4. mine'[q].at <= Len(attempts') /\ Len(attempts) <= Len(attempts')
  BY <1>2, <1>3
<1>5. mine[q].kind # "roadmap"
  BY <1>2 DEF PlaceOK
<1>. QED
  BY <1>1, <1>2, <1>3, <1>4, <1>5, JobStep, KindOf DEF JobStages, Building

LEMMA T_EndField ==
  ASSUME TInv, NEW q \in Procs, EndField(q)
  PROVE  TInv'
<1>0. mine[q].env \in Environment
  BY DEF TInv, PlaceOK, EndField, Locals, Building
<1>1. SharedOK'
  BY <1>0 DEF TInv, SharedOK, EndField, Store, edits, log, buttons
<1>2. /\ Moves(q) /\ attempts' = attempts /\ mine[q] \in Locals /\ PlaceOK(q)
      /\ attempts \in Seq(Attempt) /\ mine[q].at <= Len(attempts) /\ pc[q] = "build_field"
      /\ IF mine[q].kind = "clearance"
         THEN pc'[q] = "idle" /\ mine'[q] = Blank
         ELSE pc'[q] \in {"search", "failed"} /\ mine'[q] = [mine[q] EXCEPT !.env = None]
  BY DEF TInv, SharedOK, EndField, Moves, Goto, log
<1>3. CASE mine[q].kind = "clearance"
  BY <1>1, <1>2, <1>3, RestStep
<1>4. CASE mine[q].kind # "clearance"
  <2>1. mine'[q] \in Locals /\ mine'[q].kind = mine[q].kind /\ mine'[q].at = mine[q].at
    BY <1>2, <1>4 DEF Locals
  <2>2. mine'[q].at <= Len(attempts') /\ Len(attempts) <= Len(attempts')
    BY <1>2, <2>1
  <2>. QED
    BY <1>1, <1>2, <1>4, <2>1, <2>2, JobStep, KindOf DEF JobStages, Building
<1>. QED
  BY <1>3, <1>4

LEMMA T_EndBuild ==
  ASSUME TInv, NEW q \in Procs, EndBuild(q)
  PROVE  TInv'
<1>1. mine[q].env \in Environment
  BY DEF TInv, PlaceOK, EndBuild, Locals, Building
<1>2. SharedOK'
  BY <1>1 DEF TInv, SharedOK, EndBuild, Store, edits, log, buttons
<1>3. /\ Moves(q) /\ attempts' = attempts /\ mine[q] \in Locals /\ PlaceOK(q)
      /\ attempts \in Seq(Attempt) /\ mine[q].at <= Len(attempts)
      /\ pc[q] = "build" /\ mine'[q] = [mine[q] EXCEPT !.env = None]
      /\ \/ pc'[q] = "search" /\ mine[q].kind = "query"
         \/ pc'[q] \in {"report", "failed"}
  BY DEF TInv, SharedOK, EndBuild, Moves, Goto, log
<1>5. mine'[q] \in Locals /\ mine'[q].kind = mine[q].kind /\ mine'[q].at = mine[q].at
  BY <1>3 DEF Locals
<1>4. mine'[q].at <= Len(attempts') /\ Len(attempts) <= Len(attempts')
  BY <1>3, <1>5
<1>. QED
  BY <1>2, <1>3, <1>4, <1>5, JobStep, KindOf DEF JobStages, Building

LEMMA T_Search ==
  ASSUME TInv, NEW q \in Procs, Search(q)
  PROVE  TInv'
<1>1. SharedOK'
  BY DEF TInv, SharedOK, Search, edits, caches, log, buttons, history
<1>2. /\ Moves(q) /\ attempts' = attempts /\ mine[q] \in Locals /\ PlaceOK(q)
      /\ attempts \in Seq(Attempt) /\ mine[q].at <= Len(attempts)
      /\ pc[q] = "search" /\ pc'[q] \in {"record", "failed"}
      /\ \/ mine'[q] = mine[q]
         \/ \E ok \in BOOLEAN : mine'[q] = [mine[q] EXCEPT !.ok = ok]
  BY DEF TInv, SharedOK, Search, Moves, Goto, edits, caches, log, buttons, history
<1>3. mine'[q] \in Locals /\ mine'[q].kind = mine[q].kind /\ mine'[q].at = mine[q].at
  BY <1>2 DEF Locals
<1>4. mine'[q].at <= Len(attempts') /\ Len(attempts) <= Len(attempts')
  BY <1>2, <1>3
<1>5. mine[q].kind # "roadmap"
  BY <1>2 DEF PlaceOK
<1>. QED
  BY <1>1, <1>2, <1>3, <1>4, <1>5, JobStep, KindOf DEF JobStages, Building

LEMMA T_Record ==
  ASSUME TInv, NEW q \in Procs, Record(q)
  PROVE  TInv'
<1>1. SharedOK'
  BY DEF TInv, SharedOK, Record, edits, caches, log, buttons, history
<1>2. /\ Moves(q) /\ attempts' = attempts /\ mine[q] \in Locals /\ PlaceOK(q)
      /\ attempts \in Seq(Attempt) /\ mine[q].at <= Len(attempts)
      /\ pc[q] = "record" /\ pc'[q] = "untime" /\ start \in Starts
      /\ mine'[q] = [mine[q] EXCEPT !.index = Len(attempts), !.start = start]
  BY DEF TInv, SharedOK, Record, Moves, Goto, edits, caches, log, buttons, history
<1>3. mine'[q] \in Locals /\ mine'[q].kind = mine[q].kind /\ mine'[q].at = mine[q].at
  <2>1. Len(attempts) \in Nat
    BY <1>2
  <2>. QED
    BY <1>2, <2>1 DEF Locals
<1>4. mine'[q].at <= Len(attempts') /\ Len(attempts) <= Len(attempts')
  BY <1>2, <1>3
<1>5. mine[q].kind # "roadmap"
  BY <1>2 DEF PlaceOK
<1>. QED
  BY <1>1, <1>2, <1>3, <1>4, <1>5, JobStep, KindOf DEF JobStages, Building

LEMMA T_Untime ==
  ASSUME TInv, NEW q \in Procs, Untime(q)
  PROVE  TInv'
<1>1. SharedOK'
  BY DEF TInv, SharedOK, Untime, edits, caches, buttons
<1>2. /\ Moves(q) /\ attempts' = attempts /\ mine[q] \in Locals /\ PlaceOK(q)
      /\ attempts \in Seq(Attempt) /\ mine[q].at <= Len(attempts)
      /\ pc[q] = "untime" /\ pc'[q] = "append" /\ mine'[q] = mine[q]
  BY DEF TInv, SharedOK, Untime, Moves, Goto, edits, caches, log, buttons, history
<1>3. mine'[q].at <= Len(attempts') /\ Len(attempts) <= Len(attempts')
  BY <1>2
<1>4. mine[q].kind # "roadmap"
  BY <1>2 DEF PlaceOK
<1>. QED
  BY <1>1, <1>2, <1>3, <1>4, JobStep, KindOf DEF JobStages, Building

LEMMA T_AppendAttempt ==
  ASSUME TInv, XInv, NEW q \in Procs, AppendAttempt(q)
  PROVE  TInv'
<1> DEFINE a == [index |-> mine[q].index, start |-> mine[q].start, from |-> mine[q].from,
                 seed |-> mine[q].seed, ok |-> mine[q].ok, crossed |-> crossed[q]]
<1>1. /\ Moves(q) /\ mine[q] \in Locals /\ PlaceOK(q) /\ attempts \in Seq(Attempt)
      /\ pc[q] = "append" /\ pc'[q] = "report" /\ attempts' = Append(attempts, a)
      /\ mine'[q] = [mine[q] EXCEPT !.at = Len(attempts')]
  BY DEF TInv, SharedOK, AppendAttempt, Moves, Goto
<1>2. a \in Attempt
  <2>1. crossed[q] \in SUBSET {"start", "filing"}
    BY <1>1 DEF XInv, Events, Building
  <2>. QED
    BY <1>1, <2>1 DEF Locals, Attempt
<1>3. /\ attempts' \in Seq(Attempt) /\ Len(attempts') = Len(attempts) + 1
      /\ Len(attempts) \in Nat /\ Len(attempts') \in Nat
  BY <1>1, <1>2
<1>4. SharedOK'
  BY <1>3 DEF TInv, SharedOK, AppendAttempt, edits, caches, buttons
<1>5. mine'[q] \in Locals /\ mine'[q].kind = mine[q].kind /\ mine'[q].at = Len(attempts')
  <2> DEFINE n == Len(attempts')
  <2>1. n \in Nat /\ mine'[q] = [mine[q] EXCEPT !.at = n] /\ mine[q] \in Locals
    BY <1>1, <1>3
  <2> HIDE DEF n
  <2>2. mine'[q] \in Locals /\ mine'[q].kind = mine[q].kind /\ mine'[q].at = n
    BY <2>1 DEF Locals
  <2>. QED
    BY <2>2 DEF n
<1>6. mine'[q].at <= Len(attempts') /\ Len(attempts) <= Len(attempts')
  BY <1>3, <1>5
<1>. QED
  BY <1>1, <1>4, <1>5, <1>6, JobStep, KindOf DEF JobStages, Building

LEMMA FinishStep ==
  ASSUME TInv, NEW q \in Procs, Finish(q), pc[q] \in JobStages
  PROVE  /\ enabled' \subseteq Buttons /\ refused' \subseteq Buttons
         /\ Moves(q) /\ pc'[q] = "idle" /\ mine'[q] = Blank
<1>1. q \in Workers => Button(mine[q].kind) \in Buttons
  BY DEF TInv, PlaceOK, Finish, Jobs, JobStages, Button, Buttons
<1>2. enabled' \subseteq Buttons /\ refused' \subseteq Buttons
  BY <1>1 DEF TInv, SharedOK, Finish, buttons
<1>3. Moves(q) /\ pc'[q] = "idle" /\ mine'[q] = Blank
  BY DEF TInv, Finish, Moves, Goto
<1>. QED
  BY <1>2, <1>3

LEMMA T_Fail ==
  ASSUME TInv, NEW q \in Procs, Fail(q)
  PROVE  TInv'
<1>1. Finish(q) /\ pc[q] \in JobStages
  BY DEF Fail, JobStages
<1>2. SharedOK' /\ attempts' = attempts
  BY <1>1, FinishStep DEF TInv, SharedOK, Fail, edits, caches, log
<1>. QED
  BY <1>1, <1>2, FinishStep, RestStep

LEMMA T_ReportAttempt ==
  ASSUME TInv, NEW q \in Procs, ReportAttempt(q)
  PROVE  TInv'
<1>1. Finish(q) /\ pc[q] \in JobStages
  BY DEF ReportAttempt, JobStages
<1>2. mine[q].at \in 0 .. Len(attempts)
  <2>1. mine[q] \in Locals /\ mine[q].at <= Len(attempts) /\ attempts \in Seq(Attempt)
    BY DEF TInv, SharedOK
  <2>. QED
    BY <2>1 DEF Locals
<1>3. SharedOK' /\ attempts' = attempts
  BY <1>1, <1>2, FinishStep DEF TInv, SharedOK, ReportAttempt, edits, caches
<1>. QED
  BY <1>1, <1>3, FinishStep, RestStep

LEMMA T_ReportRoadmap ==
  ASSUME TInv, NEW q \in Procs, ReportRoadmap(q)
  PROVE  TInv'
<1>1. Finish(q) /\ pc[q] \in JobStages
  BY DEF ReportRoadmap, JobStages
<1>2. SharedOK' /\ attempts' = attempts
  BY <1>1, FinishStep DEF TInv, SharedOK, ReportRoadmap, edits, caches, log
<1>. QED
  BY <1>1, <1>2, FinishStep, RestStep

LEMMA T_EndTiming ==
  ASSUME TInv, NEW q \in Procs, EndTiming(q)
  PROVE  TInv'
<1>1. mine[q].at \in 0 .. Len(attempts)
  <2>1. mine[q] \in Locals /\ mine[q].at <= Len(attempts) /\ attempts \in Seq(Attempt)
    BY DEF TInv, SharedOK
  <2>. QED
    BY <2>1 DEF Locals
<1>2. SharedOK'
  BY <1>1 DEF TInv, SharedOK, EndTiming, edits, caches, log, buttons, history
<1>3. Moves(q) /\ attempts' = attempts /\ pc'[q] = "idle" /\ mine'[q] = Blank
  BY DEF TInv, EndTiming, Moves, Goto, log
<1>. QED
  BY <1>2, <1>3, RestStep

\* A step that crosses nobody and does not end a build,
LEMMA CrossQuiet ==
  ASSUME TInv, XInv, NEW q \in Procs, Moves(q), crossed' = crossed, pc[q] \notin Building
  PROVE  XInv'
<1>1. ASSUME NEW p \in Procs, "edit" \in crossed'[p] PROVE pc'[p] \in Building
  BY <1>1 DEF TInv, XInv, Moves
<1>. QED
  BY <1>1 DEF XInv

\* one that clears what crossed the thread,
LEMMA CrossOwn ==
  ASSUME TInv, XInv, NEW q \in Procs, Moves(q), NEW S \in SUBSET Events, "edit" \notin S,
         crossed' = [crossed EXCEPT ![q] = S]
  PROVE  XInv'
<1>1. ASSUME NEW p \in Procs, "edit" \in crossed'[p] PROVE pc'[p] \in Building
  BY <1>1 DEF TInv, XInv, Moves
<1>2. crossed' \in [Procs -> SUBSET Events]
  BY DEF XInv
<1>. QED
  BY <1>1, <1>2 DEF XInv

\* and an event: edits cross builds only.
LEMMA CrossOthers ==
  ASSUME TInv, XInv, NEW q \in Procs, Moves(q), pc[q] \notin Building,
         NEW event \in Events, NEW places, Cross(event, places), event = "edit" => places \subseteq Building
  PROVE  XInv'
<1>1. crossed' \in [Procs -> SUBSET Events]
  BY DEF XInv, Cross
<1>2. ASSUME NEW p \in Procs, "edit" \in crossed'[p] PROVE pc'[p] \in Building
  <2>1. pc[p] \in Building
    BY <1>2 DEF XInv, Cross
  <2>. QED
    BY <2>1 DEF TInv, Moves
<1>. QED
  BY <1>1, <1>2 DEF XInv

LEMMA X_Callback ==
  ASSUME TInv, XInv, NEW c \in Callers, Callback(c)
  PROVE  XInv'
<1>0. c \in Procs
  BY DEF Procs
<1>1. ASSUME NEW id \in Ids, NEW pose \in Poses, AddObstacle(c, id, pose) PROVE XInv'
  <2>1. Moves(c) /\ crossed' = crossed /\ pc[c] \notin Building
    BY <1>0, <1>1 DEF AddObstacle, TInv, Moves, Goto, history, Building
  <2>. QED
    BY <1>0, <2>1, CrossQuiet
<1>2. ASSUME NEW id \in Ids, NEW pose \in Poses \cup {Gone}, ChangeObstacle(c, id, pose) PROVE XInv'
  <2>1. Moves(c) /\ crossed' = crossed /\ pc[c] \notin Building
    BY <1>0, <1>2 DEF ChangeObstacle, TInv, Moves, Goto, history, Building
  <2>. QED
    BY <1>0, <2>1, CrossQuiet
<1>3. ASSUME NEW s \in Starts, SetStart(c, s) PROVE XInv'
  <2>1. /\ Moves(c) /\ pc[c] \notin Building /\ "start" \in Events
        /\ Cross("start", {"field", "build_field", "build", "search", "record"})
    BY <1>0, <1>3 DEF SetStart, TInv, Moves, Building, Events
  <2>. QED
    BY <1>0, <2>1, CrossOthers
<1>4. CASE ClickClearance(c)
  <2>1. Moves(c) /\ crossed' = crossed /\ pc[c] \notin Building
    BY <1>0, <1>4 DEF ClickClearance, TInv, Moves, Goto, history, Building
  <2>. QED
    BY <1>0, <2>1, CrossQuiet
<1>5. ASSUME NEW kind \in Jobs, Click(c, kind) PROVE XInv'
  <2>1. Moves(c) /\ crossed' = crossed /\ pc[c] \notin Building
    BY <1>0, <1>5 DEF Click, TInv, Moves, Goto, history, Building
  <2>. QED
    BY <1>0, <2>1, CrossQuiet
<1>6. CASE Query(c)
  <2>1. Moves(c) /\ crossed' = crossed /\ pc[c] \notin Building
    BY <1>0, <1>6 DEF Query, TInv, Moves, Goto, history, Building
  <2>. QED
    BY <1>0, <2>1, CrossQuiet
<1>7. CASE BeginTiming(c)
  <2>1. PICK S \in SUBSET Events : "edit" \notin S /\ crossed' = [crossed EXCEPT ![c] = S]
    <3>1. {"filing"} \in SUBSET Events /\ {} \in SUBSET Events /\ "edit" \notin {"filing"}
      BY DEF Events
    <3>2. CASE \E p \in Procs : Filing(p)
      <4>1. crossed' = [crossed EXCEPT ![c] = {"filing"}]
        BY <1>7, <3>2 DEF BeginTiming
      <4>. QED
        BY <3>1, <4>1
    <3>3. CASE ~ \E p \in Procs : Filing(p)
      <4>1. crossed' = [crossed EXCEPT ![c] = {}]
        BY <1>7, <3>3 DEF BeginTiming
      <4>. QED
        BY <3>1, <4>1
    <3>. QED
      BY <3>2, <3>3
  <2>2. Moves(c)
    BY <1>0, <1>7 DEF BeginTiming, TInv, Moves, Goto
  <2>. QED
    BY <1>0, <2>1, <2>2, CrossOwn
<1>. QED
  BY <1>1, <1>2, <1>3, <1>4, <1>5, <1>6, <1>7 DEF Callback

LEMMA X_Continue ==
  ASSUME TInv, XInv, NEW q \in Procs, Continue(q)
  PROVE  XInv'
<1>1. CASE FinishEdit(q) \/ Grey(q) \/ Launch(q) \/ UseField(q) \/ Search(q) \/ Record(q)
  <2>1. pc[q] \notin Building /\ crossed' = crossed
    BY <1>1 DEF FinishEdit, Grey, Launch, UseField, Search, Record, Building, history
  <2>2. PICK s : pc' = [pc EXCEPT ![q] = s]
    BY <1>1 DEF FinishEdit, Grey, Launch, UseField, Search, Record, Goto
  <2>3. ASSUME NEW p \in Procs, "edit" \in crossed'[p] PROVE pc'[p] \in Building
    BY <2>1, <2>2, <2>3 DEF TInv, XInv
  <2>. QED
    BY <2>1, <2>3 DEF XInv
<1>2. CASE Begin(q) \/ BeginField(q)
  <2>1. pc[q] \notin Building /\ crossed' = crossed
    BY <1>2 DEF Begin, BeginField, Building, history
  <2>2. PICK s : pc' = [pc EXCEPT ![q] = s]
    BY <1>2, Zenon DEF Begin, BeginField, Goto
  <2>3. ASSUME NEW p \in Procs, "edit" \in crossed'[p] PROVE pc'[p] \in Building
    BY <2>1, <2>2, <2>3 DEF TInv, XInv
  <2>. QED
    BY <2>1, <2>3 DEF XInv
<1>3. CASE Spawn(q)
  <2>1. PICK w \in Workers : pc[w] = "idle" /\ pc' = [pc EXCEPT ![w] = "begin", ![q] = "idle"]
    BY <1>3 DEF Spawn
  <2>2. pc[q] = "spawn" /\ crossed' = crossed
    BY <1>3 DEF Spawn, history
  <2>3. ASSUME NEW p \in Procs, "edit" \in crossed'[p] PROVE pc'[p] \in Building
    BY <2>1, <2>2, <2>3 DEF TInv, XInv, Building
  <2>. QED
    BY <2>2, <2>3 DEF XInv
<1>4. CASE DropField(q)
  <2>1. /\ Moves(q) /\ pc[q] \notin Building /\ "edit" \in Events
        /\ Cross("edit", {"build_field"}) /\ {"build_field"} \subseteq Building
    BY <1>4 DEF DropField, TInv, Moves, Goto, Building, Events
  <2>. QED
    BY <2>1, CrossOthers
<1>5. CASE DropRoadmap(q)
  <2>1. /\ Moves(q) /\ pc[q] \notin Building /\ "edit" \in Events
        /\ Cross("edit", {"build"}) /\ {"build"} \subseteq Building
    BY <1>5 DEF DropRoadmap, TInv, Moves, Goto, Building, Events
  <2>. QED
    BY <2>1, CrossOthers
<1>6. CASE Untime(q)
  <2>1. Moves(q) /\ pc[q] \notin Building /\ "filing" \in Events /\ "filing" # "edit" /\ Cross("filing", {"timing"})
    BY <1>6 DEF Untime, TInv, Moves, Goto, Building, Events
  <2>. QED
    BY <2>1, CrossOthers
<1>7. CASE AppendAttempt(q)
  <2>1. /\ Moves(q) /\ pc[q] \notin Building /\ "filing" \in Events /\ "filing" # "edit"
        /\ Cross("filing", {"untime", "append"})
    BY <1>7 DEF AppendAttempt, TInv, Moves, Goto, Building, Events
  <2>. QED
    BY <2>1, CrossOthers
<1>8. CASE BeginRefine(q)
  <2>1. Moves(q) /\ pc[q] \notin Building
    BY <1>8 DEF BeginRefine, TInv, Moves, Goto, Building
  <2>2. CASE crossed' = crossed
    BY <2>1, <2>2, CrossQuiet
  <2>3. CASE \E S \in SUBSET Events : "edit" \notin S /\ crossed' = [crossed EXCEPT ![q] = S]
    BY <2>1, <2>3, CrossOwn
  <2>. QED
    BY <1>8, <2>2, <2>3 DEF BeginRefine, Events
<1>9. CASE EndField(q) \/ EndBuild(q)
  <2>1. PICK S \in SUBSET Events : "edit" \notin S /\ crossed' = [crossed EXCEPT ![q] = S]
    <3>1. crossed[q] \ {"edit"} \in SUBSET Events /\ "edit" \notin crossed[q] \ {"edit"} /\ {} \in SUBSET Events
      BY DEF XInv
    <3>2. \/ crossed' = [crossed EXCEPT ![q] = {}]
          \/ crossed' = [crossed EXCEPT ![q] = crossed[q] \ {"edit"}]
      BY <1>9 DEF EndField, EndBuild
    <3>. QED
      BY <3>1, <3>2
  <2>2. Moves(q)
    BY <1>9 DEF EndField, EndBuild, TInv, Moves, Goto
  <2>. QED
    BY <2>1, <2>2, CrossOwn
<1>10. CASE Fail(q) \/ ReportAttempt(q) \/ ReportRoadmap(q) \/ EndTiming(q)
  <2>1. crossed' = [crossed EXCEPT ![q] = {}] /\ {} \in SUBSET Events
    BY <1>10 DEF Fail, ReportAttempt, ReportRoadmap, EndTiming, Finish
  <2>2. Moves(q)
    BY <1>10 DEF Fail, ReportAttempt, ReportRoadmap, EndTiming, Finish, TInv, Moves, Goto
  <2>. QED
    BY <2>1, <2>2, CrossOwn
<1>. QED
  BY <1>1, <1>2, <1>3, <1>4, <1>5, <1>6, <1>7, <1>8, <1>9, <1>10 DEF Continue

LEMMA NextTInv == TInv /\ XInv /\ [Next]_vars => TInv' /\ XInv'
<1> SUFFICES ASSUME TInv, XInv, [Next]_vars PROVE TInv' /\ XInv'
  OBVIOUS
<1>1. ASSUME NEW c \in Callers, Callback(c) PROVE TInv' /\ XInv'
  <2>1. TInv'
    BY <1>1, T_AddObstacle, T_ChangeObstacle, T_SetStart, T_ClickClearance, T_Click, T_Query, T_BeginTiming
       DEF Callback
  <2>. QED
    BY <1>1, <2>1, X_Callback
<1>2. ASSUME NEW p \in Procs, Continue(p) PROVE TInv' /\ XInv'
  <2>1. TInv'
    BY <1>2, T_FinishEdit, T_DropField, T_DropRoadmap, T_Grey, T_Launch, T_Spawn,
       T_BeginRefine, T_Begin, T_UseField, T_BeginField, T_EndField, T_EndBuild, T_Search,
       T_Record, T_Untime, T_AppendAttempt, T_Fail, T_ReportAttempt, T_ReportRoadmap, T_EndTiming
       DEF Continue
  <2>. QED
    BY <1>2, <2>1, X_Continue
<1>3. CASE UNCHANGED vars
  <2>1. SharedOK'
    BY <1>3 DEF TInv, SharedOK, vars, edits, caches, log, buttons
  <2>2. ASSUME NEW p \in Procs PROVE PlaceOK(p)'
    <3>1. pc' = pc /\ mine' = mine /\ PlaceOK(p)
      BY <1>3 DEF TInv, vars
    <3>. QED
      BY <3>1, SMTT(30) DEF PlaceOK
  <2>3. XInv'
    BY <1>3 DEF XInv, vars
  <2>. QED
    BY <1>3, <2>1, <2>2, <2>3 DEF TInv, vars, log
<1>. QED
  BY <1>1, <1>2, <1>3 DEF Next

\* The type that is inductive.
Typed == TInv /\ XInv /\ calls \in 0 .. MaxCalls

LEMMA InitTyped == Init => Typed
  BY InitTInv, StudioAssumption DEF Init, Typed

LEMMA NextTyped == Typed /\ [Next]_vars => Typed'
<1>1. calls \in 0 .. MaxCalls /\ [Next]_vars => calls' \in 0 .. MaxCalls
  BY StudioAssumption DEF Next, Callback, Continue, vars
<1>. QED
  BY <1>1, NextTInv DEF Typed

LEMMA TypedOK == Typed => TypeOK
<1> SUFFICES ASSUME TInv, XInv, calls \in 0 .. MaxCalls PROVE TypeOK
  BY DEF Typed
<1>1. ASSUME NEW p \in Procs PROVE mine[p].at \in 0 .. Len(attempts)
  <2>1. mine[p] \in Locals /\ mine[p].at <= Len(attempts) /\ Len(attempts) \in Nat
    BY DEF TInv, SharedOK
  <2>2. mine[p].at \in Nat
    BY <2>1 DEF Locals
  <2>. QED
    BY <2>1, <2>2
<1>. QED
  BY <1>1 DEF TInv, XInv, Events, SharedOK, TypeOK

(* A session keeps its type, however many callbacks overlap and whatever the
   workers do: the attempt on display and the one that is timed are in the log
   (session.attempts, session.trajectory, ctx.last_attempt). *)
THEOREM TypeCorrect == Spec => []TypeOK
<1>. QED
  BY InitTyped, NextTyped, TypedOK, PTL DEF Spec
(* Frames: the threads at some places neither come nor go, and keep their locals. *)

Keeps(places) ==
  \A p \in Procs :
    /\ pc'[p] \in places <=> pc[p] \in places
    /\ pc[p] \in places => pc'[p] = pc[p] /\ mine'[p] = mine[p]

LEMMA MoveKeeps ==
  ASSUME TInv, NEW q \in Procs, Moves(q), NEW places, pc[q] \notin places, pc'[q] \notin places
  PROVE  Keeps(places)
<1> SUFFICES ASSUME NEW p \in Procs
             PROVE  /\ pc'[p] \in places <=> pc[p] \in places
                    /\ pc[p] \in places => pc'[p] = pc[p] /\ mine'[p] = mine[p]
  BY DEF Keeps
<1>1. CASE p = q
  BY <1>1
<1>2. CASE p # q
  <2>1. pc'[p] = pc[p] /\ mine'[p] = mine[p]
    BY <1>2 DEF TInv, Moves
  <2>. QED
    BY <2>1
<1>. QED
  BY <1>1, <1>2

\* Where the thread that takes a step stands before it and after it.
LEMMA Stage ==
  ASSUME TInv, NEW q \in Procs, Continue(q), ~ Spawn(q)
  PROVE  Moves(q)
<1>1. CASE FinishEdit(q) \/ DropField(q) \/ DropRoadmap(q) \/ Grey(q) \/ Launch(q) \/ Record(q) \/ Untime(q)
  BY <1>1 DEF FinishEdit, DropField, DropRoadmap, Grey, Launch, Record, Untime, TInv, Moves, Goto
<1>2. CASE BeginRefine(q) \/ UseField(q) \/ BeginField(q) \/ Search(q) \/ AppendAttempt(q)
  BY <1>2 DEF BeginRefine, UseField, BeginField, Search, AppendAttempt, TInv, Moves, Goto
<1>3. CASE Begin(q)
  <2>1. PICK s : pc' = [pc EXCEPT ![q] = s]
    BY <1>3, Zenon DEF Begin, Goto
  <2>2. PICK m : mine' = [mine EXCEPT ![q] = m]
    BY <1>3, Zenon DEF Begin
  <2>. QED
    BY <2>1, <2>2 DEF TInv, Moves
<1>4. CASE EndField(q) \/ EndBuild(q)
  BY <1>4 DEF EndField, EndBuild, TInv, Moves, Goto
<1>5. CASE Fail(q) \/ ReportAttempt(q) \/ ReportRoadmap(q) \/ EndTiming(q)
  BY <1>5 DEF Fail, ReportAttempt, ReportRoadmap, EndTiming, Finish, TInv, Moves, Goto
<1>. QED
  BY <1>1, <1>2, <1>3, <1>4, <1>5 DEF Continue

LEMMA SpawnKeeps ==
  ASSUME TInv, NEW q \in Procs, Spawn(q), NEW places, {"idle", "spawn", "begin"} \cap places = {}
  PROVE  Keeps(places)
<1>1. PICK w \in Workers :
        /\ pc[w] = "idle" /\ pc[q] = "spawn"
        /\ pc' = [pc EXCEPT ![w] = "begin", ![q] = "idle"]
        /\ mine' = [mine EXCEPT ![w] = [Blank EXCEPT !.kind = mine[q].kind], ![q] = Blank]
  BY DEF Spawn
<1>2. ASSUME NEW p \in Procs, p # w, p # q PROVE pc'[p] = pc[p] /\ mine'[p] = mine[p]
  BY <1>1, <1>2 DEF TInv
<1>3. w \in Procs /\ pc'[w] \in {"begin", "idle"} /\ pc'[q] = "idle"
  BY <1>1 DEF TInv, Procs
<1>4. ASSUME NEW p \in Procs
      PROVE  /\ pc'[p] \in places <=> pc[p] \in places
             /\ pc[p] \in places => pc'[p] = pc[p] /\ mine'[p] = mine[p]
  <2>1. CASE p = w \/ p = q
    BY <2>1, <1>1, <1>3
  <2>2. CASE p # w /\ p # q
    BY <2>2, <1>2
  <2>. QED
    BY <2>1, <2>2
<1>. QED
  BY <1>4 DEF Keeps

LEMMA StepOf ==
  ASSUME TInv, NEW q \in Procs, Continue(q)
  PROVE  /\ UNCHANGED <<obstacles, world, fresh, tangled>> \/ FinishEdit(q)
         /\ (pc[q] # "edit" /\ pc'[q] # "edit") \/ FinishEdit(q)
<1>1. CASE FinishEdit(q)
  BY <1>1
<1>2. CASE DropField(q) \/ DropRoadmap(q) \/ Grey(q) \/ Launch(q) \/ Record(q) \/ Untime(q)
  BY <1>2 DEF DropField, DropRoadmap, Grey, Launch, Record, Untime, TInv, Goto, edits
<1>3. CASE BeginRefine(q) \/ UseField(q) \/ BeginField(q) \/ Search(q) \/ AppendAttempt(q)
  BY <1>3 DEF BeginRefine, UseField, BeginField, Search, AppendAttempt, TInv, Goto, edits
<1>4. CASE Begin(q)
  BY <1>4 DEF Begin, TInv, Goto, edits
<1>5. CASE EndField(q) \/ EndBuild(q)
  BY <1>5 DEF EndField, EndBuild, TInv, Goto, edits
<1>6. CASE Fail(q) \/ ReportAttempt(q) \/ ReportRoadmap(q) \/ EndTiming(q)
  BY <1>6 DEF Fail, ReportAttempt, ReportRoadmap, EndTiming, Finish, TInv, Goto, edits
<1>7. CASE Spawn(q)
  BY <1>7 DEF Spawn, TInv, edits, Procs
<1>. QED
  BY <1>1, <1>2, <1>3, <1>4, <1>5, <1>6, <1>7 DEF Continue

-------------------------------------------------------------------------------
(* The scene beside the dictionary. *)

\* A callback stands between the two writes of an edit of the obstacle.
At(c, id) == pc[c] = "edit" /\ mine[c].id = id

\* An id that was never used is nowhere; an obstacle that is being added is in the scene and nobody
\* else edits it; one that is being removed is out of the dictionary.
NewID(id) ==
  id \in fresh => obstacles[id] = Gone /\ world[id] = Gone /\ \A c \in Callers : ~ At(c, id)
Added(id) ==
  \A c \in Callers : At(c, id) /\ mine[c].kind = "add" =>
    /\ obstacles[id] = Gone /\ world[id] = mine[c].pose
    /\ \A d \in Callers : At(d, id) => d = c
Removed(id) ==
  \A c \in Callers : At(c, id) /\ mine[c].kind # "add" /\ mine[c].pose = Gone => obstacles[id] = Gone

\* The scene has what the dictionary has, where the last mover put it; what else it has is being
\* added or removed.
Moved(id) ==
  obstacles[id] # Gone =>
    /\ world[id] # Gone
    /\ id \notin tangled =>
         /\ \A c \in Callers : At(c, id) => mine[c].pose = obstacles[id]
         /\ (\A c \in Callers : ~ At(c, id)) => world[id] = obstacles[id]
Leaving(id) ==
  obstacles[id] = Gone /\ world[id] # Gone =>
    \E c \in Callers : At(c, id) /\ (mine[c].kind = "add" \/ mine[c].pose = Gone)

EditInv == \A id \in Ids : NewID(id) /\ Added(id) /\ Removed(id) /\ Moved(id) /\ Leaving(id)

LEMMA EditFrame ==
  ASSUME EditInv, UNCHANGED <<obstacles, world, fresh, tangled>>, Keeps({"edit"})
  PROVE  EditInv'
<1> SUFFICES ASSUME NEW id \in Ids PROVE (NewID(id) /\ Added(id) /\ Removed(id) /\ Moved(id) /\ Leaving(id))'
  BY DEF EditInv
<1>1. ASSUME NEW c \in Callers PROVE At(c, id)' <=> At(c, id)
  BY <1>1 DEF Keeps, At, Procs
<1>2. ASSUME NEW c \in Callers, At(c, id) PROVE mine'[c] = mine[c]
  BY <1>2 DEF Keeps, At, Procs
<1>3. NewID(id) /\ Added(id) /\ Removed(id) /\ Moved(id) /\ Leaving(id)
  BY DEF EditInv
<1>4. NewID(id)'
  BY <1>1, <1>3 DEF NewID
<1>5. Added(id)'
  BY <1>1, <1>2, <1>3 DEF Added
<1>6. Removed(id)'
  BY <1>1, <1>2, <1>3 DEF Removed
<1>7. Moved(id)'
  BY <1>1, <1>2, <1>3 DEF Moved
<1>8. Leaving(id)'
  <2>1. CASE obstacles[id] = Gone /\ world[id] # Gone
    <3>1. PICK c \in Callers : At(c, id) /\ (mine[c].kind = "add" \/ mine[c].pose = Gone)
      BY <2>1, <1>3 DEF Leaving
    <3>2. At(c, id)' /\ (mine'[c].kind = "add" \/ mine'[c].pose = Gone)
      BY <3>1, <1>1, <1>2
    <3>. QED
      BY <3>2 DEF Leaving
  <2>. QED
    BY <2>1 DEF Leaving
<1>. QED
  BY <1>4, <1>5, <1>6, <1>7, <1>8

\* Where the callbacks stand with an obstacle when one of them moves.
LEMMA AtOthers ==
  ASSUME TInv, NEW c \in Callers, Moves(c), NEW id \in Ids, NEW d \in Callers, d # c
  PROVE  (At(d, id)' <=> At(d, id)) /\ pc'[d] = pc[d] /\ mine'[d] = mine[d]
<1>1. c \in Procs /\ d \in Procs
  BY DEF Procs
<1>. QED
  BY <1>1 DEF TInv, Moves, At

LEMMA EditAdd ==
  ASSUME TInv, EditInv, NEW c \in Callers, NEW id \in Ids, NEW pose \in Poses, AddObstacle(c, id, pose)
  PROVE  EditInv'
<1> SUFFICES ASSUME NEW o \in Ids PROVE (NewID(o) /\ Added(o) /\ Removed(o) /\ Moved(o) /\ Leaving(o))'
  BY DEF EditInv
<1>1. /\ pc[c] = "idle" /\ id \in fresh /\ fresh' = fresh \ {id} /\ tangled' = tangled /\ obstacles' = obstacles
      /\ world' = [world EXCEPT ![id] = pose] /\ world \in Environment
      /\ Moves(c) /\ pc'[c] = "edit" /\ mine'[c] = [Blank EXCEPT !.kind = "add", !.id = id, !.pose = pose]
  BY DEF AddObstacle, TInv, SharedOK, Moves, Goto, Procs
<1>2. mine'[c].kind = "add" /\ mine'[c].id = id /\ mine'[c].pose = pose /\ pose # Gone
  BY <1>1, StudioAssumption DEF Blank
<1>3. /\ NewID(o) /\ Added(o) /\ Removed(o) /\ Moved(o) /\ Leaving(o)
      /\ ~ At(c, o) /\ (At(c, o)' <=> o = id)
  BY <1>1, <1>2 DEF EditInv, At
<1>4. ASSUME NEW d \in Callers, d # c PROVE (At(d, o)' <=> At(d, o)) /\ mine'[d] = mine[d]
  BY <1>1, <1>4, AtOthers
<1>5. CASE o = id
  <2>1. obstacles[o] = Gone /\ world[o] = Gone /\ \A d \in Callers : ~ At(d, o)
    BY <1>1, <1>3, <1>5 DEF NewID
  <2>2. world'[o] = pose /\ o \notin fresh' /\ \A d \in Callers : At(d, o)' <=> d = c
    BY <1>1, <1>3, <1>4, <1>5, <2>1 DEF Environment
  <2>3. NewID(o)' /\ Added(o)' /\ Moved(o)'
    BY <1>1, <1>2, <2>1, <2>2 DEF NewID, Added, Moved
  <2>4. Removed(o)' /\ Leaving(o)'
    BY <1>1, <1>2, <2>1, <2>2 DEF Removed, Leaving
  <2>. QED
    BY <2>3, <2>4
<1>6. CASE o # id
  <2>1. /\ world'[o] = world[o] /\ (o \in fresh' <=> o \in fresh) /\ (o \in tangled' <=> o \in tangled)
        /\ \A d \in Callers : At(d, o)' <=> At(d, o)
    BY <1>1, <1>3, <1>4, <1>6 DEF Environment
  <2>2. \A d \in Callers : At(d, o) => mine'[d] = mine[d]
    BY <1>3, <1>4
  <2>3. NewID(o)' /\ Added(o)'
    BY <1>1, <1>3, <2>1, <2>2 DEF NewID, Added
  <2>4. Removed(o)' /\ Moved(o)'
    BY <1>1, <1>3, <2>1, <2>2 DEF Removed, Moved
  <2>5. Leaving(o)'
    BY <1>1, <1>3, <2>1, <2>2 DEF Leaving
  <2>. QED
    BY <2>3, <2>4, <2>5
<1>. QED
  BY <1>5, <1>6

LEMMA EditChange ==
  ASSUME TInv, EditInv, NEW c \in Callers, NEW id \in Ids, NEW pose \in Poses \cup {Gone},
         ChangeObstacle(c, id, pose)
  PROVE  EditInv'
<1> SUFFICES ASSUME NEW o \in Ids PROVE (NewID(o) /\ Added(o) /\ Removed(o) /\ Moved(o) /\ Leaving(o))'
  BY DEF EditInv
<1>1. /\ pc[c] = "idle" /\ obstacles[id] # Gone /\ fresh' = fresh /\ world' = world
      /\ obstacles' = [obstacles EXCEPT ![id] = pose] /\ obstacles \in Environment
      /\ Moves(c) /\ pc'[c] = "edit" /\ mine'[c] = [Blank EXCEPT !.kind = "change", !.id = id, !.pose = pose]
  BY DEF ChangeObstacle, TInv, SharedOK, Moves, Goto, Procs
<1>2. mine'[c].kind = "change" /\ mine'[c].id = id /\ mine'[c].pose = pose
  BY <1>1 DEF Blank
<1>3. /\ NewID(o) /\ Added(o) /\ Removed(o) /\ Moved(o) /\ Leaving(o)
      /\ ~ At(c, o) /\ (At(c, o)' <=> o = id)
  BY <1>1, <1>2 DEF EditInv, At
<1>4. ASSUME NEW d \in Callers, d # c PROVE (At(d, o)' <=> At(d, o)) /\ mine'[d] = mine[d]
  BY <1>1, <1>4, AtOthers
<1>5. CASE o = id
  <2>1. /\ world[o] # Gone /\ obstacles'[o] = pose /\ o \notin fresh
        /\ \A d \in Callers : At(d, o) => mine[d].kind # "add" /\ mine[d].pose # Gone
    BY <1>1, <1>3, <1>5 DEF NewID, Added, Removed, Moved, Environment
  <2>2. \A d \in Callers : At(d, o)' => mine'[d].kind # "add"
    BY <1>2, <1>4, <2>1
  <2>3. NewID(o)' /\ Added(o)'
    BY <1>1, <2>1, <2>2 DEF NewID, Added
  <2>4. Removed(o)'
    BY <1>2, <1>4, <2>1 DEF Removed
  <2>5. Moved(o)'
    <3>1. SUFFICES ASSUME pose # Gone, o \notin tangled'
                   PROVE  /\ \A d \in Callers : At(d, o)' => mine'[d].pose = pose
                          /\ ~ \A d \in Callers : ~ At(d, o)'
      BY <1>1, <2>1 DEF Moved
    <3>2. ~ \E d \in Callers : pc[d] = "edit" /\ mine[d].id = id
      BY <3>1, <1>5 DEF ChangeObstacle
    <3>3. \A d \in Callers : At(d, o)' => d = c
      BY <3>2, <1>4, <1>5 DEF At
    <3>. QED
      BY <3>3, <1>2, <1>3, <1>5
  <2>6. Leaving(o)'
    BY <1>2, <1>3, <1>5, <2>1 DEF Leaving
  <2>. QED
    BY <2>3, <2>4, <2>5, <2>6
<1>6. CASE o # id
  <2>1. /\ obstacles'[o] = obstacles[o] /\ \A d \in Callers : At(d, o)' <=> At(d, o)
    BY <1>1, <1>3, <1>4, <1>6 DEF Environment
  <2>2. o \in tangled' <=> o \in tangled
    BY <1>6 DEF ChangeObstacle
  <2>3. \A d \in Callers : At(d, o) => mine'[d] = mine[d]
    BY <1>3, <1>4
  <2>4. NewID(o)' /\ Added(o)'
    BY <1>1, <1>3, <2>1, <2>3 DEF NewID, Added
  <2>5. Removed(o)' /\ Moved(o)'
    BY <1>1, <1>3, <2>1, <2>2, <2>3 DEF Removed, Moved
  <2>6. Leaving(o)'
    BY <1>1, <1>3, <2>1, <2>3 DEF Leaving
  <2>. QED
    BY <2>4, <2>5, <2>6
<1>. QED
  BY <1>5, <1>6

LEMMA EditFinish ==
  ASSUME TInv, EditInv, NEW c \in Procs, FinishEdit(c)
  PROVE  EditInv'
<1>0. c \in Callers /\ mine[c].id \in Ids /\ (mine[c].kind = "add" => mine[c].pose \in Poses)
  <2>1. pc[c] = "edit" /\ PlaceOK(c)
    BY DEF TInv, FinishEdit
  <2>. QED
    BY <2>1 DEF PlaceOK, JobStages, Procs
<1> SUFFICES ASSUME NEW o \in Ids PROVE (NewID(o) /\ Added(o) /\ Removed(o) /\ Moved(o) /\ Leaving(o))'
  BY DEF EditInv
<1> DEFINE id == mine[c].id
           pose == mine[c].pose
<1>1. /\ pc[c] = "edit" /\ pc'[c] = "drop_field" /\ fresh' = fresh /\ tangled' = tangled
      /\ Moves(c) /\ obstacles \in Environment /\ world \in Environment
      /\ id \in Ids /\ (mine[c].kind = "add" => pose \in Poses)
  BY <1>0 DEF FinishEdit, TInv, SharedOK, Moves, Goto
<1>2. /\ NewID(o) /\ Added(o) /\ Removed(o) /\ Moved(o) /\ Leaving(o)
      /\ (At(c, o) <=> o = id) /\ ~ At(c, o)'
  BY <1>1 DEF EditInv, At
<1>3. ASSUME NEW d \in Callers, d # c PROVE (At(d, o)' <=> At(d, o)) /\ mine'[d] = mine[d]
  BY <1>0, <1>1, <1>3, AtOthers
<1>4. /\ mine[c].kind = "add" => obstacles' = [obstacles EXCEPT ![id] = pose] /\ world' = world
      /\ mine[c].kind # "add" =>
           /\ obstacles' = obstacles
           /\ world' = [world EXCEPT ![id] = IF world[id] = Gone THEN Gone ELSE pose]
  BY DEF FinishEdit
<1> HIDE DEF id, pose
<1>5. CASE o # id
  <2>1. /\ obstacles'[o] = obstacles[o] /\ world'[o] = world[o]
        /\ \A d \in Callers : At(d, o)' <=> At(d, o)
    BY <1>1, <1>2, <1>3, <1>4, <1>5 DEF Environment
  <2>2. \A d \in Callers : At(d, o) => mine'[d] = mine[d]
    BY <1>2, <1>3, <1>5
  <2>3. NewID(o)' /\ Added(o)'
    BY <1>1, <1>2, <2>1, <2>2 DEF NewID, Added
  <2>4. Removed(o)' /\ Moved(o)'
    BY <1>1, <1>2, <2>1, <2>2 DEF Removed, Moved
  <2>5. Leaving(o)'
    BY <1>1, <1>2, <2>1, <2>2 DEF Leaving
  <2>. QED
    BY <2>3, <2>4, <2>5
<1>6. CASE o = id /\ mine[c].kind = "add"
  <2>1. /\ At(c, o) /\ o \notin fresh /\ obstacles'[o] = pose /\ pose # Gone
        /\ world'[o] = pose /\ \A d \in Callers : ~ At(d, o)'
    BY <1>0, <1>1, <1>2, <1>3, <1>4, <1>6, StudioAssumption DEF NewID, Added, Environment, pose
  <2>2. NewID(o)' /\ Added(o)' /\ Removed(o)' /\ Moved(o)' /\ Leaving(o)'
    BY <1>1, <2>1 DEF NewID, Added, Removed, Moved, Leaving
  <2>. QED
    BY <2>2
<1>7. CASE o = id /\ mine[c].kind # "add"
  <2>1. /\ At(c, o) /\ o \notin fresh /\ obstacles'[o] = obstacles[o]
        /\ world'[o] = IF world[o] = Gone THEN Gone ELSE pose
    BY <1>0, <1>1, <1>2, <1>4, <1>7 DEF NewID, Environment
  <2>2. \A d \in Callers : At(d, o)' => d # c /\ At(d, o) /\ mine'[d] = mine[d] /\ mine[d].kind # "add"
    BY <1>0, <1>2, <1>3, <1>7, <2>1 DEF Added
  <2>3. NewID(o)' /\ Added(o)' /\ Removed(o)'
    BY <1>1, <1>2, <2>1, <2>2 DEF NewID, Added, Removed
  <2>4. Moved(o)'
    <3>1. SUFFICES ASSUME obstacles[o] # Gone
                   PROVE  /\ world'[o] # Gone
                          /\ o \notin tangled =>
                               /\ \A d \in Callers : At(d, o)' => mine'[d].pose = obstacles[o]
                               /\ (\A d \in Callers : ~ At(d, o)') => world'[o] = obstacles[o]
      BY <1>1, <2>1 DEF Moved
    <3>2. pose # Gone /\ world[o] # Gone
      BY <3>1, <2>1, <1>0, <1>2, <1>7 DEF Removed, Moved, pose
    <3>3. o \notin tangled => pose = obstacles[o] /\ \A d \in Callers : At(d, o)' => mine'[d].pose = obstacles[o]
      BY <3>1, <2>1, <2>2, <1>0, <1>2 DEF Moved, pose
    <3>. QED
      BY <3>2, <3>3, <2>1
  <2>5. Leaving(o)'
    <3>1. SUFFICES ASSUME obstacles[o] = Gone, world'[o] # Gone
                   PROVE  \E d \in Callers : At(d, o)' /\ (mine'[d].kind = "add" \/ mine'[d].pose = Gone)
      BY <2>1 DEF Leaving
    <3>2. world[o] # Gone /\ pose # Gone
      BY <3>1, <2>1
    <3>3. PICK d \in Callers : At(d, o) /\ (mine[d].kind = "add" \/ mine[d].pose = Gone)
      BY <3>1, <3>2, <1>2 DEF Leaving
    <3>4. d # c
      BY <3>2, <3>3, <2>1, <1>0, <1>7, <1>2 DEF Added, pose
    <3>. QED
      BY <3>3, <3>4, <1>3
  <2>. QED
    BY <2>3, <2>4, <2>5
<1>. QED
  BY <1>5, <1>6, <1>7

LEMMA EditStep == Typed /\ EditInv /\ [Next]_vars => EditInv'
<1> SUFFICES ASSUME TInv, EditInv, [Next]_vars PROVE EditInv'
  BY DEF Typed
<1>1. ASSUME NEW c \in Callers, Callback(c) PROVE EditInv'
  <2>0. c \in Procs
    BY DEF Procs
  <2>1. CASE \E s \in Starts : SetStart(c, s)
    <3>1. UNCHANGED <<obstacles, world, fresh, tangled>> /\ Keeps({"edit"})
      BY <2>1 DEF SetStart, edits, Keeps
    <3>. QED
      BY <3>1, EditFrame
  <2>2. CASE ClickClearance(c) \/ (\E kind \in Jobs : Click(c, kind)) \/ Query(c) \/ BeginTiming(c)
    <3>1. UNCHANGED <<obstacles, world, fresh, tangled>>
      BY <2>2 DEF ClickClearance, Click, Query, BeginTiming, edits
    <3>2. Moves(c) /\ pc[c] \notin {"edit"} /\ pc'[c] \notin {"edit"}
      BY <2>0, <2>2 DEF ClickClearance, Click, Query, BeginTiming, TInv, Moves, Goto
    <3>. QED
      BY <2>0, <3>1, <3>2, MoveKeeps, EditFrame
  <2>. QED
    BY <1>1, <2>1, <2>2, EditAdd, EditChange DEF Callback
<1>2. ASSUME NEW p \in Procs, Continue(p) PROVE EditInv'
  <2>1. CASE FinishEdit(p)
    BY <2>1, EditFinish
  <2>2. CASE Spawn(p)
    <3>1. Keeps({"edit"})
      BY <2>2, SpawnKeeps
    <3>2. UNCHANGED <<obstacles, world, fresh, tangled>>
      BY <2>2 DEF Spawn, edits
    <3>. QED
      BY <3>1, <3>2, EditFrame
  <2>3. CASE ~ FinishEdit(p) /\ ~ Spawn(p)
    <3>1. UNCHANGED <<obstacles, world, fresh, tangled>> /\ pc[p] # "edit" /\ pc'[p] # "edit" /\ Moves(p)
      BY <1>2, <2>3, StepOf, Stage
    <3>. QED
      BY <3>1, MoveKeeps, EditFrame
  <2>. QED
    BY <2>1, <2>2, <2>3
<1>3. CASE UNCHANGED vars
  <2>1. UNCHANGED <<obstacles, world, fresh, tangled>> /\ Keeps({"edit"})
    BY <1>3 DEF vars, edits, Keeps
  <2>. QED
    BY <2>1, EditFrame
<1>. QED
  BY <1>1, <1>2, <1>3 DEF Next

LEMMA InitEditInv == Init => EditInv
<1> SUFFICES ASSUME Init, NEW id \in Ids PROVE NewID(id) /\ Added(id) /\ Removed(id) /\ Moved(id) /\ Leaving(id)
  BY DEF EditInv
<1>1. world = obstacles /\ (id \in fresh <=> obstacles[id] = Gone) /\ \A c \in Callers : ~ At(c, id)
  BY DEF Init, At, Procs
<1>. QED
  BY <1>1 DEF NewID, Added, Removed, Moved, Leaving

-------------------------------------------------------------------------------
(* The caches beside the environment. *)

\* An edit of the obstacle has the field still to drop.
Fed(id) == \E c \in Callers : pc[c] \in {"edit", "drop_field"} /\ mine[c].id = id

\* The field has every other obstacle where it is, and so will the one that is being built, until an
\* edit drops it; the roadmap likewise.
FieldInv ==
  \A id \in Ids : ~ Fed(id) =>
    /\ field # None /\ "field" \notin late => field[id] = obstacles[id]
    /\ \A p \in Procs : pc[p] = "build_field" /\ "edit" \notin crossed[p] => mine[p].env[id] = obstacles[id]

RoadmapInv ==
  \A id \in Ids : ~ Editing(id) =>
    /\ prm # None /\ "roadmap" \notin late => prm[id] = world[id]
    /\ \A p \in Procs : pc[p] = "build" /\ "edit" \notin crossed[p] => mine[p].env[id] = world[id]

LEMMA FieldFrame ==
  ASSUME FieldInv, UNCHANGED <<obstacles, field>>, Keeps({"edit", "drop_field"}),
         "field" \in late => "field" \in late',
         \A p \in Procs : pc'[p] = "build_field" =>
           pc[p] = "build_field" /\ mine'[p] = mine[p] /\ ("edit" \in crossed[p] => "edit" \in crossed'[p])
  PROVE  FieldInv'
<1>1. ASSUME NEW id \in Ids PROVE Fed(id) => Fed(id)'
  <2>1. SUFFICES ASSUME NEW c \in Callers, pc[c] \in {"edit", "drop_field"}, mine[c].id = id PROVE Fed(id)'
    BY DEF Fed
  <2>2. pc'[c] = pc[c] /\ mine'[c] = mine[c]
    BY <2>1 DEF Keeps, Procs
  <2>. QED
    BY <2>1, <2>2 DEF Fed
<1>. QED
  BY <1>1 DEF FieldInv

LEMMA RoadmapFrame ==
  ASSUME RoadmapInv, UNCHANGED <<world, prm>>, Keeps({"edit", "drop_field", "drop_roadmap"}),
         "roadmap" \in late => "roadmap" \in late',
         \A p \in Procs : pc'[p] = "build" =>
           pc[p] = "build" /\ mine'[p] = mine[p] /\ ("edit" \in crossed[p] => "edit" \in crossed'[p])
  PROVE  RoadmapInv'
<1>1. ASSUME NEW id \in Ids PROVE Editing(id) => Editing(id)'
  <2>1. SUFFICES ASSUME NEW c \in Callers, pc[c] \in {"edit", "drop_field", "drop_roadmap"}, mine[c].id = id
                 PROVE  Editing(id)'
    BY DEF Editing
  <2>2. pc'[c] = pc[c] /\ mine'[c] = mine[c]
    BY <2>1 DEF Keeps, Procs
  <2>. QED
    BY <2>1, <2>2 DEF Editing
<1>. QED
  BY <1>1 DEF RoadmapInv

\* An edit is on its way with an obstacle it did not have before, or goes on with its own.
LEMMA EditStarts ==
  ASSUME TInv, FieldInv, RoadmapInv, NEW c \in Callers, NEW id \in Ids, Moves(c), UNCHANGED <<field, prm, late, crossed>>,
         pc[c] \in {"idle", "edit"}, pc'[c] \in {"edit", "drop_field"}, mine'[c].id = id,
         pc[c] = "edit" => mine[c].id = id,
         \A o \in Ids \ {id} : obstacles'[o] = obstacles[o] /\ world'[o] = world[o]
  PROVE  FieldInv' /\ RoadmapInv'
<1>0. c \in Procs
  BY DEF Procs
<1>1. ASSUME NEW p \in Procs, p # c PROVE pc'[p] = pc[p] /\ mine'[p] = mine[p]
  BY <1>0, <1>1 DEF TInv, Moves
<1>2. Fed(id)' /\ Editing(id)'
  BY DEF Fed, Editing
<1>3. ASSUME NEW o \in Ids, Fed(o) PROVE Fed(o)'
  <2>1. PICK d \in Callers : pc[d] \in {"edit", "drop_field"} /\ mine[d].id = o
    BY <1>3 DEF Fed
  <2>2. CASE d = c
    BY <2>1, <2>2, <1>2
  <2>3. CASE d # c
    BY <2>1, <2>3, <1>1 DEF Fed, Procs
  <2>. QED
    BY <2>2, <2>3
<1>4. ASSUME NEW o \in Ids, Editing(o) PROVE Editing(o)'
  <2>1. PICK d \in Callers : pc[d] \in {"edit", "drop_field", "drop_roadmap"} /\ mine[d].id = o
    BY <1>4 DEF Editing
  <2>2. CASE d = c
    BY <2>1, <2>2, <1>2
  <2>3. CASE d # c
    BY <2>1, <2>3, <1>1 DEF Editing, Procs
  <2>. QED
    BY <2>2, <2>3
<1>5. \A p \in Procs : pc'[p] \in Building => pc[p] = pc'[p] /\ mine'[p] = mine[p]
  BY <1>0, <1>1 DEF Building
<1>6. FieldInv'
  BY <1>2, <1>3, <1>5 DEF FieldInv, Building
<1>7. RoadmapInv'
  BY <1>2, <1>4, <1>5 DEF RoadmapInv, Building
<1>. QED
  BY <1>6, <1>7

LEMMA CacheAdd ==
  ASSUME TInv, FieldInv, RoadmapInv, NEW c \in Callers, NEW id \in Ids, NEW pose \in Poses, AddObstacle(c, id, pose)
  PROVE  FieldInv' /\ RoadmapInv'
<1>1. /\ Moves(c) /\ UNCHANGED <<field, prm, late, crossed>> /\ pc[c] = "idle" /\ pc'[c] = "edit"
      /\ mine'[c].id = id
      /\ \A o \in Ids \ {id} : obstacles'[o] = obstacles[o] /\ world'[o] = world[o]
  BY DEF AddObstacle, TInv, SharedOK, Environment, Moves, Goto, Procs, caches, history, Blank
<1>. QED
  BY <1>1, EditStarts

LEMMA CacheChange ==
  ASSUME TInv, FieldInv, RoadmapInv, NEW c \in Callers, NEW id \in Ids, NEW pose \in Poses \cup {Gone},
         ChangeObstacle(c, id, pose)
  PROVE  FieldInv' /\ RoadmapInv'
<1>1. /\ Moves(c) /\ UNCHANGED <<field, prm, late, crossed>> /\ pc[c] = "idle" /\ pc'[c] = "edit"
      /\ mine'[c].id = id
      /\ \A o \in Ids \ {id} : obstacles'[o] = obstacles[o] /\ world'[o] = world[o]
  BY DEF ChangeObstacle, TInv, SharedOK, Environment, Moves, Goto, Procs, caches, history, Blank
<1>. QED
  BY <1>1, EditStarts

LEMMA CacheFinish ==
  ASSUME TInv, FieldInv, RoadmapInv, NEW c \in Procs, FinishEdit(c)
  PROVE  FieldInv' /\ RoadmapInv'
<1>1. c \in Callers /\ mine[c].id \in Ids
  <2>1. pc[c] = "edit" /\ PlaceOK(c)
    BY DEF TInv, FinishEdit
  <2>. QED
    BY <2>1 DEF PlaceOK, JobStages, Procs
<1>2. /\ Moves(c) /\ UNCHANGED <<field, prm, late, crossed>> /\ pc[c] = "edit" /\ pc'[c] = "drop_field"
      /\ mine' = mine
      /\ \A o \in Ids \ {mine[c].id} : obstacles'[o] = obstacles[o] /\ world'[o] = world[o]
  BY <1>1 DEF FinishEdit, TInv, SharedOK, Environment, Moves, Goto, Procs, caches, history
<1>. QED
  BY <1>1, <1>2, EditStarts

\* Dropping a cache marks whoever builds one.
LEMMA CacheDropField ==
  ASSUME TInv, FieldInv, RoadmapInv, NEW c \in Procs, DropField(c)
  PROVE  FieldInv' /\ RoadmapInv'
<1>1. /\ pc[c] = "drop_field" /\ pc' = [pc EXCEPT ![c] = "drop_roadmap"] /\ mine' = mine
      /\ field' = None /\ UNCHANGED <<obstacles, world, prm, late>> /\ Cross("edit", {"build_field"})
  BY DEF DropField, Goto, edits
<1>2. FieldInv'
  <2>1. ASSUME NEW p \in Procs, pc'[p] = "build_field" PROVE "edit" \in crossed'[p]
    BY <1>1, <2>1 DEF TInv, Cross
  <2>. QED
    BY <1>1, <2>1 DEF FieldInv
<1>3. RoadmapInv'
  <2>1. ASSUME NEW id \in Ids, Editing(id) PROVE Editing(id)'
    <3>1. PICK d \in Callers : pc[d] \in {"edit", "drop_field", "drop_roadmap"} /\ mine[d].id = id
      BY <2>1 DEF Editing
    <3>2. pc'[d] \in {"edit", "drop_field", "drop_roadmap"} /\ mine'[d].id = id
      BY <1>1, <3>1 DEF TInv, Procs
    <3>. QED
      BY <3>2 DEF Editing
  <2>2. ASSUME NEW p \in Procs, pc'[p] = "build" PROVE pc[p] = "build" /\ ("edit" \in crossed[p] => "edit" \in crossed'[p])
    BY <1>1, <2>2 DEF TInv, Cross
  <2>. QED
    BY <1>1, <2>1, <2>2 DEF RoadmapInv
<1>. QED
  BY <1>2, <1>3

LEMMA CacheDropRoadmap ==
  ASSUME TInv, FieldInv, RoadmapInv, NEW c \in Procs, DropRoadmap(c)
  PROVE  FieldInv' /\ RoadmapInv'
<1>1. /\ pc[c] = "drop_roadmap" /\ pc' = [pc EXCEPT ![c] = "idle"] /\ mine' = [mine EXCEPT ![c] = Blank]
      /\ prm' = None /\ UNCHANGED <<obstacles, world, field, late>> /\ Cross("edit", {"build"})
  BY DEF DropRoadmap, Goto, edits
<1>2. RoadmapInv'
  <2>1. ASSUME NEW p \in Procs, pc'[p] = "build" PROVE "edit" \in crossed'[p]
    BY <1>1, <2>1 DEF TInv, Cross
  <2>. QED
    BY <1>1, <2>1 DEF RoadmapInv
<1>3. FieldInv'
  <2>1. Moves(c) /\ pc'[c] = "idle"
    BY <1>1 DEF TInv, Moves
  <2>2. Keeps({"edit", "drop_field"})
    BY <1>1, <2>1, MoveKeeps
  <2>3. ASSUME NEW p \in Procs, pc'[p] = "build_field"
        PROVE  pc[p] = "build_field" /\ mine'[p] = mine[p] /\ ("edit" \in crossed[p] => "edit" \in crossed'[p])
    BY <1>1, <2>3 DEF TInv, Cross
  <2>. QED
    BY <1>1, <2>2, <2>3, FieldFrame
<1>. QED
  BY <1>2, <1>3

\* A build takes the environment when it begins,
LEMMA CacheBeginField ==
  ASSUME TInv, FieldInv, NEW c \in Procs, BeginField(c)
  PROVE  FieldInv'
<1>1. /\ pc[c] = "field" /\ pc' = [pc EXCEPT ![c] = "build_field"] /\ mine' = [mine EXCEPT ![c].env = obstacles]
      /\ UNCHANGED <<obstacles, field, late, crossed>>
  BY DEF BeginField, Goto, edits, caches, history
<1>2. mine'[c].env = obstacles
  BY <1>1 DEF TInv, Locals
<1>3. ASSUME NEW p \in Procs, p # c PROVE pc'[p] = pc[p] /\ mine'[p] = mine[p]
  BY <1>1, <1>3 DEF TInv
<1>4. ASSUME NEW id \in Ids, Fed(id) PROVE Fed(id)'
  <2>1. PICK d \in Callers : pc[d] \in {"edit", "drop_field"} /\ mine[d].id = id
    BY <1>4 DEF Fed
  <2>2. d # c /\ d \in Procs
    BY <1>1, <2>1 DEF Procs
  <2>. QED
    BY <1>3, <2>1, <2>2 DEF Fed
<1>. QED
  BY <1>1, <1>2, <1>3, <1>4 DEF FieldInv

LEMMA CacheBegin ==
  ASSUME TInv, RoadmapInv, NEW c \in Procs, Begin(c)
  PROVE  RoadmapInv'
<1>1. /\ pc[c] = "begin" /\ UNCHANGED <<world, prm, late, crossed>>
      /\ mine' = [mine EXCEPT ![c].from = start, ![c].env = IF Builds(c) THEN world ELSE None]
  BY DEF Begin, edits, caches, history
<1>2. PICK s \in {"field", "build", "search"} : pc' = [pc EXCEPT ![c] = s] /\ (s = "build" => Builds(c))
  <2>1. CASE mine[c].kind = "chomp"
    <3>1. pc' = [pc EXCEPT ![c] = "field"]
      BY <2>1 DEF Begin, Builds, Goto
    <3>. QED
      BY <3>1
  <2>2. CASE mine[c].kind # "chomp" /\ Builds(c)
    <3>1. pc' = [pc EXCEPT ![c] = "build"]
      BY <2>2 DEF Begin, Goto
    <3>. QED
      BY <2>2, <3>1
  <2>3. CASE mine[c].kind # "chomp" /\ ~ Builds(c)
    <3>1. pc' = [pc EXCEPT ![c] = "search"]
      BY <2>3 DEF Begin, Goto
    <3>. QED
      BY <3>1
  <2>. QED
    BY <2>1, <2>2, <2>3
<1>3. Builds(c) => mine'[c].env = world
  BY <1>1 DEF TInv, Locals
<1>4. ASSUME NEW p \in Procs, p # c PROVE pc'[p] = pc[p] /\ mine'[p] = mine[p]
  BY <1>1, <1>2, <1>4 DEF TInv
<1>5. pc'[c] = s
  BY <1>2 DEF TInv
<1>6. ASSUME NEW id \in Ids, Editing(id) PROVE Editing(id)'
  <2>1. PICK d \in Callers : pc[d] \in {"edit", "drop_field", "drop_roadmap"} /\ mine[d].id = id
    BY <1>6 DEF Editing
  <2>2. d # c /\ d \in Procs
    BY <1>1, <2>1 DEF Procs
  <2>. QED
    BY <1>4, <2>1, <2>2 DEF Editing
<1>7. ASSUME NEW p \in Procs, pc'[p] = "build"
      PROVE  mine'[p].env = world \/ (p # c /\ pc[p] = "build" /\ mine'[p] = mine[p])
  BY <1>2, <1>3, <1>4, <1>5, <1>7
<1>8. ASSUME NEW id \in Ids, ~ Editing(id)', NEW p \in Procs, pc'[p] = "build", "edit" \notin crossed'[p]
      PROVE  mine'[p].env[id] = world[id]
  BY <1>1, <1>6, <1>7, <1>8 DEF RoadmapInv
<1>9. ASSUME NEW id \in Ids, ~ Editing(id)', prm' # None, "roadmap" \notin late' PROVE prm'[id] = world[id]
  BY <1>1, <1>6, <1>9 DEF RoadmapInv
<1>. QED
  BY <1>1, <1>8, <1>9 DEF RoadmapInv

\* and gives it to the cache when it ends.
LEMMA CacheEndField ==
  ASSUME TInv, FieldInv, NEW c \in Procs, EndField(c)
  PROVE  FieldInv'
<1>1. /\ pc[c] = "build_field" /\ obstacles' = obstacles
      /\ \/ field' = mine[c].env /\ ("edit" \in crossed[c] => "field" \in late')
         \/ UNCHANGED <<field, late>>
      /\ Moves(c) /\ pc'[c] \notin {"build_field", "edit", "drop_field"}
  BY DEF EndField, edits, TInv, Moves, Goto, Store
<1>2. ASSUME NEW p \in Procs, p # c PROVE pc'[p] = pc[p] /\ mine'[p] = mine[p] /\ crossed'[p] = crossed[p]
  BY <1>2 DEF EndField, TInv, Goto
<1>3. ASSUME NEW id \in Ids, Fed(id) PROVE Fed(id)'
  <2>1. PICK d \in Callers : pc[d] \in {"edit", "drop_field"} /\ mine[d].id = id
    BY <1>3 DEF Fed
  <2>2. d # c /\ d \in Procs
    BY <1>1, <2>1 DEF Procs
  <2>. QED
    BY <1>2, <2>1, <2>2 DEF Fed
<1>. QED
  BY <1>1, <1>2, <1>3 DEF FieldInv

LEMMA CacheEndBuild ==
  ASSUME TInv, RoadmapInv, NEW c \in Procs, EndBuild(c)
  PROVE  RoadmapInv'
<1>1. /\ pc[c] = "build" /\ world' = world
      /\ \/ prm' = mine[c].env /\ ("edit" \in crossed[c] => "roadmap" \in late')
         \/ UNCHANGED <<prm, late>>
      /\ Moves(c) /\ pc'[c] \notin {"build", "edit", "drop_field", "drop_roadmap"}
  BY DEF EndBuild, edits, TInv, Moves, Goto, Store
<1>2. ASSUME NEW p \in Procs, p # c PROVE pc'[p] = pc[p] /\ mine'[p] = mine[p] /\ crossed'[p] = crossed[p]
  BY <1>2 DEF EndBuild, TInv, Goto
<1>3. ASSUME NEW id \in Ids, Editing(id) PROVE Editing(id)'
  <2>1. PICK d \in Callers : pc[d] \in {"edit", "drop_field", "drop_roadmap"} /\ mine[d].id = id
    BY <1>3 DEF Editing
  <2>2. d # c /\ d \in Procs
    BY <1>1, <2>1 DEF Procs
  <2>. QED
    BY <1>2, <2>1, <2>2 DEF Editing
<1>. QED
  BY <1>1, <1>2, <1>3 DEF RoadmapInv

\* Nothing else touches an edit, a cache or what goes into one.
LEMMA CacheOthers ==
  ASSUME TInv, XInv, NEW q \in Procs, Continue(q), ~ Spawn(q),
         ~ FinishEdit(q), ~ DropField(q), ~ DropRoadmap(q)
  PROVE  /\ UNCHANGED <<obstacles, world>>
         /\ {pc[q], pc'[q]} \cap {"edit", "drop_field", "drop_roadmap"} = {}
         /\ \/ BeginField(q) \/ EndField(q)
            \/ /\ field' = field /\ ("field" \in late => "field" \in late') /\ pc'[q] # "build_field"
               /\ \A p \in Procs \ {q} : "edit" \in crossed[p] => "edit" \in crossed'[p]
         /\ \/ Begin(q) \/ EndBuild(q)
            \/ /\ prm' = prm /\ ("roadmap" \in late => "roadmap" \in late') /\ pc'[q] # "build"
               /\ \A p \in Procs \ {q} : "edit" \in crossed[p] => "edit" \in crossed'[p]
<1>1. CASE Grey(q) \/ Launch(q) \/ UseField(q) \/ Search(q) \/ Record(q)
  BY <1>1 DEF Grey, Launch, UseField, Search, Record, TInv, Goto, edits, caches, history
<1>2. CASE Untime(q) \/ AppendAttempt(q)
  BY <1>2 DEF Untime, AppendAttempt, TInv, Goto, edits, caches, Cross
<1>3. CASE BeginRefine(q)
  <2>1. \A p \in Procs \ {q} : crossed'[p] = crossed[p]
    <3>1. CASE crossed' = crossed
      BY <3>1
    <3>2. CASE crossed' = [crossed EXCEPT ![q] = IF attempts[Len(attempts)].from = start THEN {} ELSE {"start"}]
      BY <3>2 DEF XInv
    <3>. QED
      BY <1>3, <3>1, <3>2 DEF BeginRefine
  <2>. QED
    BY <1>3, <2>1 DEF BeginRefine, TInv, Goto, edits, caches
<1>4. CASE Begin(q)
  <2>1. /\ UNCHANGED <<obstacles, world, field, late, crossed>> /\ pc[q] = "begin"
        /\ pc'[q] \in {"field", "build", "search"}
    BY <1>4 DEF Begin, Goto, TInv, edits, caches, history
  <2>. QED
    BY <1>4, <2>1
<1>5. CASE BeginField(q)
  BY <1>5 DEF BeginField, TInv, Goto, edits, caches, history
<1>6. CASE EndField(q)
  <2>1. /\ UNCHANGED <<obstacles, world, prm>> /\ pc[q] = "build_field" /\ ("roadmap" \in late => "roadmap" \in late')
        /\ pc'[q] \in {"idle", "search", "failed"} /\ \A p \in Procs \ {q} : crossed'[p] = crossed[p]
    BY <1>6 DEF EndField, Store, TInv, Goto, edits
  <2>. QED
    BY <1>6, <2>1
<1>7. CASE EndBuild(q)
  <2>1. /\ UNCHANGED <<obstacles, world, field>> /\ pc[q] = "build" /\ ("field" \in late => "field" \in late')
        /\ pc'[q] \in {"report", "search", "failed"} /\ \A p \in Procs \ {q} : crossed'[p] = crossed[p]
    BY <1>7 DEF EndBuild, Store, TInv, Goto, edits
  <2>. QED
    BY <1>7, <2>1
<1>8. CASE Fail(q) \/ ReportAttempt(q) \/ ReportRoadmap(q) \/ EndTiming(q)
  <2>1. /\ UNCHANGED <<obstacles, world, field, prm>> /\ pc[q] \in {"failed", "report", "timing"}
        /\ pc'[q] = "idle" /\ \A p \in Procs \ {q} : crossed'[p] = crossed[p]
    BY <1>8 DEF Fail, ReportAttempt, ReportRoadmap, EndTiming, Finish, TInv, XInv, Goto, edits, caches
  <2>2. ("field" \in late => "field" \in late') /\ ("roadmap" \in late => "roadmap" \in late')
    BY <1>8 DEF Fail, ReportAttempt, ReportRoadmap, EndTiming
  <2>. QED
    BY <2>1, <2>2
<1>. QED
  BY <1>1, <1>2, <1>3, <1>4, <1>5, <1>6, <1>7, <1>8 DEF Continue

LEMMA CacheStep == Typed /\ FieldInv /\ RoadmapInv /\ [Next]_vars => FieldInv' /\ RoadmapInv'
<1> SUFFICES ASSUME TInv, XInv, FieldInv, RoadmapInv, [Next]_vars PROVE FieldInv' /\ RoadmapInv'
  BY DEF Typed
<1>1. ASSUME NEW c \in Callers, Callback(c) PROVE FieldInv' /\ RoadmapInv'
  <2>0. c \in Procs
    BY DEF Procs
  <2>1. CASE \E s \in Starts : SetStart(c, s)
    <3>1. /\ UNCHANGED <<obstacles, world, field, prm, pc, mine, late>>
          /\ \A p \in Procs : "edit" \in crossed[p] => "edit" \in crossed'[p]
      BY <2>1 DEF SetStart, edits, caches, Cross
    <3>2. Keeps({"edit", "drop_field"}) /\ Keeps({"edit", "drop_field", "drop_roadmap"})
      BY <3>1 DEF Keeps
    <3>. QED
      BY <3>1, <3>2, FieldFrame, RoadmapFrame
  <2>2. CASE ClickClearance(c) \/ (\E kind \in Jobs : Click(c, kind)) \/ Query(c) \/ BeginTiming(c)
    <3>1. /\ UNCHANGED <<obstacles, world, field, prm, late>> /\ pc[c] = "idle"
          /\ pc'[c] \in {"field", "clicked", "begin", "timing"} /\ Moves(c)
      BY <2>0, <2>2 DEF ClickClearance, Click, Query, BeginTiming, edits, caches, history, TInv, Moves, Goto
    <3>2. Keeps({"edit", "drop_field"}) /\ Keeps({"edit", "drop_field", "drop_roadmap"})
      BY <2>0, <3>1, MoveKeeps
    <3>3. ASSUME NEW p \in Procs, p # c
          PROVE  pc'[p] = pc[p] /\ mine'[p] = mine[p] /\ crossed'[p] = crossed[p]
      <4>1. pc'[p] = pc[p] /\ mine'[p] = mine[p]
        BY <2>0, <3>1, <3>3 DEF TInv, Moves
      <4>2. crossed'[p] = crossed[p]
        BY <2>2, <3>3 DEF ClickClearance, Click, Query, BeginTiming, history, XInv
      <4>. QED
        BY <4>1, <4>2
    <3>4. /\ \A p \in Procs : pc'[p] = "build_field" =>
               pc[p] = "build_field" /\ mine'[p] = mine[p] /\ ("edit" \in crossed[p] => "edit" \in crossed'[p])
          /\ \A p \in Procs : pc'[p] = "build" =>
               pc[p] = "build" /\ mine'[p] = mine[p] /\ ("edit" \in crossed[p] => "edit" \in crossed'[p])
      BY <3>1, <3>3
    <3>. QED
      BY <3>1, <3>2, <3>4, FieldFrame, RoadmapFrame
  <2>. QED
    BY <1>1, <2>1, <2>2, CacheAdd, CacheChange DEF Callback
<1>2. ASSUME NEW q \in Procs, Continue(q) PROVE FieldInv' /\ RoadmapInv'
  <2>1. CASE FinishEdit(q) \/ DropField(q) \/ DropRoadmap(q)
    BY <2>1, CacheFinish, CacheDropField, CacheDropRoadmap
  <2>2. CASE Spawn(q)
    <3>1. UNCHANGED <<obstacles, world, field, prm, late, crossed>>
      BY <2>2 DEF Spawn, edits, caches, history
    <3>2. /\ Keeps({"edit", "drop_field"}) /\ Keeps({"edit", "drop_field", "drop_roadmap"})
          /\ Keeps({"build_field"}) /\ Keeps({"build"})
      BY <2>2, SpawnKeeps
    <3>3. /\ \A p \in Procs : pc'[p] = "build_field" =>
               pc[p] = "build_field" /\ mine'[p] = mine[p] /\ ("edit" \in crossed[p] => "edit" \in crossed'[p])
          /\ \A p \in Procs : pc'[p] = "build" =>
               pc[p] = "build" /\ mine'[p] = mine[p] /\ ("edit" \in crossed[p] => "edit" \in crossed'[p])
      BY <3>1, <3>2 DEF Keeps
    <3>. QED
      BY <3>1, <3>2, <3>3, FieldFrame, RoadmapFrame
  <2>3. CASE ~ (FinishEdit(q) \/ DropField(q) \/ DropRoadmap(q) \/ Spawn(q))
    <3>1. Moves(q)
      BY <1>2, <2>3, Stage
    <3>2. ASSUME NEW p \in Procs, p # q PROVE pc'[p] = pc[p] /\ mine'[p] = mine[p]
      BY <3>1, <3>2 DEF TInv, Moves
    <3>3. /\ UNCHANGED <<obstacles, world>>
          /\ {pc[q], pc'[q]} \cap {"edit", "drop_field", "drop_roadmap"} = {}
      BY <1>2, <2>3, CacheOthers
    <3>4. Keeps({"edit", "drop_field"}) /\ Keeps({"edit", "drop_field", "drop_roadmap"})
      BY <3>1, <3>3, MoveKeeps
    <3>5. FieldInv'
      <4>1. CASE BeginField(q) \/ EndField(q)
        BY <4>1, CacheBeginField, CacheEndField
      <4>2. CASE ~ (BeginField(q) \/ EndField(q))
        <5>1. /\ field' = field /\ ("field" \in late => "field" \in late') /\ pc'[q] # "build_field"
              /\ \A p \in Procs \ {q} : "edit" \in crossed[p] => "edit" \in crossed'[p]
          BY <1>2, <2>3, <4>2, CacheOthers
        <5>2. \A p \in Procs : pc'[p] = "build_field" =>
                pc[p] = "build_field" /\ mine'[p] = mine[p] /\ ("edit" \in crossed[p] => "edit" \in crossed'[p])
          BY <3>2, <5>1
        <5>. QED
          BY <3>3, <3>4, <5>1, <5>2, FieldFrame
      <4>. QED
        BY <4>1, <4>2
    <3>6. RoadmapInv'
      <4>1. CASE Begin(q) \/ EndBuild(q)
        BY <4>1, CacheBegin, CacheEndBuild
      <4>2. CASE ~ (Begin(q) \/ EndBuild(q))
        <5>1. /\ prm' = prm /\ ("roadmap" \in late => "roadmap" \in late') /\ pc'[q] # "build"
              /\ \A p \in Procs \ {q} : "edit" \in crossed[p] => "edit" \in crossed'[p]
          BY <1>2, <2>3, <4>2, CacheOthers
        <5>2. \A p \in Procs : pc'[p] = "build" =>
                pc[p] = "build" /\ mine'[p] = mine[p] /\ ("edit" \in crossed[p] => "edit" \in crossed'[p])
          BY <3>2, <5>1
        <5>. QED
          BY <3>3, <3>4, <5>1, <5>2, RoadmapFrame
      <4>. QED
        BY <4>1, <4>2
    <3>. QED
      BY <3>5, <3>6
  <2>. QED
    BY <2>1, <2>2, <2>3
<1>3. CASE UNCHANGED vars
  <2>1. UNCHANGED <<obstacles, world, field, prm, pc, mine, late, crossed>>
    BY <1>3 DEF vars, edits, caches
  <2>. QED
    BY <2>1 DEF FieldInv, RoadmapInv, Fed, Editing
<1>. QED
  BY <1>1, <1>2, <1>3 DEF Next

(* Unless two moves of it overlapped, an obstacle that nobody is editing is in the scene as the
   dictionary says; and unless an edit dropped the cache while it was being built, the clearance
   field and the roadmap that the session holds have it there (_environment_changed).  It holds
   for any number of callbacks at once, beside any workers. *)
THEOREM CachesAreCurrent == Spec => []CachesCurrent
<1> DEFINE Inv == Typed /\ EditInv /\ FieldInv /\ RoadmapInv
<1>1. Init => Inv
  <2>1. Init => FieldInv /\ RoadmapInv
    BY DEF Init, FieldInv, RoadmapInv, Procs
  <2>. QED
    BY <2>1, InitTyped, InitEditInv
<1>2. Inv /\ [Next]_vars => Inv'
  BY NextTyped, EditStep, CacheStep
<1>3. Inv => CachesCurrent
  <2> SUFFICES ASSUME Inv, NEW id \in Ids, ~ Editing(id)
               PROVE  /\ id \notin tangled => world[id] = obstacles[id]
                      /\ field # None /\ "field" \notin late => field[id] = obstacles[id]
                      /\ prm # None /\ "roadmap" \notin late => prm[id] = world[id]
    BY DEF CachesCurrent
  <2>1. (\A c \in Callers : ~ At(c, id)) /\ ~ Fed(id)
    BY DEF Editing, At, Fed
  <2>2. id \notin tangled => world[id] = obstacles[id]
    BY <2>1 DEF EditInv, Moved, Leaving
  <2>. QED
    BY <2>1, <2>2 DEF FieldInv, RoadmapInv
<1>. QED
  BY <1>1, <1>2, <1>3, PTL DEF Spec

-------------------------------------------------------------------------------
(* The log beside the start and the timing. *)

\* A job has read the start and will file an attempt, or has numbered it.
Reading(p) ==
  pc[p] \in {"field", "build_field", "build", "search", "record"} /\ mine[p].kind # "clearance"
Numbered(p) == pc[p] \in {"untime", "append"}

\* What it read is still so, unless that was crossed.
ReadInv(p) ==
  /\ Reading(p) /\ "start" \notin crossed[p] => mine[p].from = start
  /\ Numbered(p) /\ "start" \notin crossed[p] => mine[p].start = mine[p].from
  /\ Numbered(p) /\ "filing" \notin crossed[p] => mine[p].index = Len(attempts)

AttemptsInv ==
  /\ \A i \in DOMAIN attempts :
       /\ "filing" \notin attempts[i].crossed => attempts[i].index = i - 1
       /\ "start" \notin attempts[i].crossed => attempts[i].start = attempts[i].from
  /\ \A p \in Procs : ReadInv(p)

\* Nobody has an attempt to show where a timing is on record, or will be, of the one on display.
Shown == \A p \in Procs : ~ Filing(p)
TimingInv ==
  /\ trajectory # 0 /\ "timing" \notin late => trajectory = last /\ Shown
  /\ \A p \in Procs : pc[p] = "timing" /\ "filing" \notin crossed[p] => mine[p].at = last /\ Shown

LEMMA ReadFrame ==
  ASSUME TInv, AttemptsInv, NEW q \in Procs, Moves(q), UNCHANGED <<attempts, start>>,
         \A p \in Procs \ {q} : crossed[p] \subseteq crossed'[p],
         ReadInv(q)'
  PROVE  AttemptsInv'
<1>1. ASSUME NEW p \in Procs, p # q PROVE ReadInv(p)'
  <2>1. pc'[p] = pc[p] /\ mine'[p] = mine[p] /\ crossed[p] \subseteq crossed'[p] /\ ReadInv(p)
    BY <1>1 DEF TInv, Moves, AttemptsInv
  <2>. QED
    BY <2>1, SMTT(30) DEF ReadInv, Reading, Numbered
<1>. QED
  BY <1>1 DEF AttemptsInv

LEMMA TimingFrame ==
  ASSUME TInv, TimingInv, NEW q \in Procs, Moves(q), UNCHANGED <<trajectory, last>>,
         "timing" \in late => "timing" \in late', Filing(q)' => Filing(q), pc'[q] # "timing",
         \A p \in Procs \ {q} : crossed[p] \subseteq crossed'[p]
  PROVE  TimingInv'
<1>1. ASSUME NEW p \in Procs, p # q PROVE pc'[p] = pc[p] /\ mine'[p] = mine[p] /\ (Filing(p)' <=> Filing(p))
  BY <1>1 DEF TInv, Moves, Filing
<1>2. Shown => Shown'
  BY <1>1 DEF Shown
<1>3. trajectory' # 0 /\ "timing" \notin late' => trajectory' = last' /\ Shown'
  BY <1>2 DEF TimingInv
<1>4. ASSUME NEW p \in Procs, pc'[p] = "timing", "filing" \notin crossed'[p] PROVE mine'[p].at = last' /\ Shown'
  <2>1. p # q /\ pc[p] = "timing" /\ "filing" \notin crossed[p] /\ mine'[p] = mine[p]
    BY <1>1, <1>4
  <2>. QED
    BY <1>2, <2>1 DEF TimingInv
<1>. QED
  BY <1>3, <1>4 DEF TimingInv

\* A job hands on what it has read.
LEMMA ReadOn ==
  ASSUME TInv, XInv, AttemptsInv, NEW q \in Procs, start' = start,
         UseField(q) \/ BeginField(q) \/ EndField(q) \/ EndBuild(q) \/ Search(q)
  PROVE  ReadInv(q)'
<1>1. /\ pc[q] \in {"field", "build_field", "build", "search"} /\ ~ Numbered(q)'
      /\ mine[q] \in Locals
  BY DEF UseField, BeginField, EndField, EndBuild, Search, TInv, Goto, Numbered
<1>2. Reading(q)' => Reading(q) /\ mine'[q].from = mine[q].from
  <2>1. CASE UseField(q)
    BY <2>1 DEF UseField, TInv, Goto, Reading
  <2>2. CASE BeginField(q)
    BY <2>2, <1>1 DEF BeginField, TInv, Goto, Reading, Locals
  <2>3. CASE EndField(q)
    BY <2>3, <1>1 DEF EndField, TInv, Goto, Reading, Locals
  <2>4. CASE EndBuild(q) \/ Search(q)
    <3>1. mine[q].kind # "clearance" /\ mine'[q].from = mine[q].from
      BY <2>4, <1>1, KindOf DEF EndBuild, Search, JobStages, Locals, TInv
    <3>. QED
      BY <3>1, <2>4 DEF EndBuild, Search, Reading
  <2>. QED
    BY <2>1, <2>2, <2>3, <2>4
<1>3. Reading(q)' /\ "start" \in crossed[q] => "start" \in crossed'[q]
  <2> SUFFICES ASSUME "start" \in crossed[q], Reading(q)' PROVE "start" \in crossed'[q]
    OBVIOUS
  <2>1. CASE crossed' = crossed
    BY <2>1
  <2>2. CASE EndField(q)
    <3>1. mine[q].kind # "clearance"
      BY <2>2 DEF EndField, TInv, Goto, Reading
    <3>2. crossed' = [crossed EXCEPT ![q] = crossed[q] \ {"edit"}]
      BY <2>2, <3>1 DEF EndField
    <3>. QED
      BY <3>2 DEF XInv
  <2>3. CASE EndBuild(q)
    BY <2>3 DEF EndBuild, XInv
  <2>. QED
    BY <2>1, <2>2, <2>3 DEF UseField, BeginField, Search, history
<1>. QED
  <2>1. Reading(q) /\ "start" \notin crossed[q] => mine[q].from = start
    BY DEF AttemptsInv, ReadInv
  <2>. QED
    BY <1>1, <1>2, <1>3, <2>1 DEF ReadInv

LEMMA ReadRefine ==
  ASSUME TInv, XInv, NEW q \in Procs, BeginRefine(q)
  PROVE  ReadInv(q)'
<1>1. ~ Numbered(q)'
  BY DEF BeginRefine, TInv, Goto, Numbered
<1>2. CASE pc'[q] = "failed"
  BY <1>1, <1>2 DEF ReadInv, Reading
<1>3. CASE pc'[q] # "failed"
  <2> DEFINE from == attempts[Len(attempts)].from
  <2>1. /\ mine' = [mine EXCEPT ![q].from = from, ![q].seed = Len(attempts)]
        /\ crossed' = [crossed EXCEPT ![q] = IF from = start THEN {} ELSE {"start"}]
        /\ start' = start
    BY <1>3 DEF BeginRefine, TInv, Goto
  <2> HIDE DEF from
  <2>2. mine'[q].from = from
    BY <2>1 DEF TInv, Locals
  <2>3. from # start => "start" \in crossed'[q]
    BY <2>1 DEF XInv
  <2>. QED
    BY <1>1, <2>1, <2>2, <2>3 DEF ReadInv
<1>. QED
  BY <1>2, <1>3

LEMMA ReadBegin ==
  ASSUME TInv, NEW q \in Procs, Begin(q), pc'[q] \notin {"untime", "append"}
  PROVE  ReadInv(q)'
<1>1. mine'[q].from = start /\ start' = start
  BY DEF Begin, TInv, Locals
<1>. QED
  BY <1>1 DEF ReadInv, Numbered

LEMMA ReadRecord ==
  ASSUME TInv, AttemptsInv, NEW q \in Procs, Record(q)
  PROVE  ReadInv(q)'
<1>1. pc[q] = "record" /\ pc'[q] = "untime" /\ UNCHANGED <<attempts, start, crossed>> /\ mine[q] \in Locals
      /\ mine'[q] = [mine[q] EXCEPT !.index = Len(attempts), !.start = start]
  BY DEF Record, TInv, Goto, log, history
<1>2. mine'[q].index = Len(attempts) /\ mine'[q].start = start /\ mine'[q].from = mine[q].from
  BY <1>1 DEF Locals
<1>3. mine[q].kind # "clearance"
  BY <1>1, KindOf DEF JobStages
<1>4. "start" \notin crossed[q] => mine[q].from = start
  BY <1>1, <1>3 DEF AttemptsInv, ReadInv, Reading
<1>5. ~ Reading(q)'
  BY <1>1 DEF Reading
<1>. QED
  BY <1>1, <1>2, <1>4, <1>5 DEF ReadInv

LEMMA ReadUntime ==
  ASSUME TInv, XInv, AttemptsInv, NEW q \in Procs, Untime(q)
  PROVE  ReadInv(q)'
<1>1. pc[q] = "untime" /\ pc'[q] = "append" /\ UNCHANGED <<attempts, start, mine>>
  BY DEF Untime, TInv, Goto
<1>2. crossed'[q] = crossed[q]
  BY <1>1 DEF Untime, Cross, XInv
<1>3. Numbered(q) /\ ~ Reading(q)'
  BY <1>1 DEF Numbered, Reading
<1>4. ReadInv(q)
  BY DEF AttemptsInv
<1>. QED
  BY <1>1, <1>2, <1>3, <1>4, Zenon DEF ReadInv

LEMMA LogStart ==
  ASSUME TInv, XInv, AttemptsInv, NEW c \in Callers, NEW s \in Starts, SetStart(c, s)
  PROVE  AttemptsInv'
<1>1. /\ UNCHANGED <<attempts, pc, mine>>
      /\ Cross("start", {"field", "build_field", "build", "search", "record"})
  BY DEF SetStart, log
<1>2. ASSUME NEW p \in Procs PROVE ReadInv(p)'
  <2>1. /\ crossed[p] \subseteq crossed'[p] /\ (Reading(p) => "start" \in crossed'[p])
        /\ (Reading(p)' <=> Reading(p)) /\ (Numbered(p)' <=> Numbered(p))
    BY <1>1 DEF Cross, Reading, Numbered
  <2>2. ReadInv(p)
    BY DEF AttemptsInv
  <2>. QED
    BY <1>1, <2>1, <2>2 DEF ReadInv
<1>. QED
  BY <1>1, <1>2 DEF AttemptsInv

LEMMA LogAppend ==
  ASSUME TInv, XInv, AttemptsInv, NEW q \in Procs, AppendAttempt(q)
  PROVE  AttemptsInv'
<1> DEFINE a == [index |-> mine[q].index, start |-> mine[q].start, from |-> mine[q].from,
                 seed |-> mine[q].seed, ok |-> mine[q].ok, crossed |-> crossed[q]]
<1>1. /\ pc[q] = "append" /\ pc'[q] = "report" /\ start' = start /\ attempts \in Seq(Attempt)
      /\ attempts' = Append(attempts, a) /\ Moves(q) /\ Cross("filing", {"untime", "append"})
  BY DEF AppendAttempt, TInv, SharedOK, Moves, Goto
<1>2. /\ "start" \notin a.crossed => a.start = a.from
      /\ "filing" \notin a.crossed => a.index = Len(attempts)
  <2>1. Numbered(q) /\ ReadInv(q)
    BY <1>1 DEF Numbered, AttemptsInv
  <2>. QED
    BY <2>1 DEF ReadInv
<1> HIDE DEF a
<1>3. ASSUME NEW i \in DOMAIN attempts'
      PROVE  /\ "filing" \notin attempts'[i].crossed => attempts'[i].index = i - 1
             /\ "start" \notin attempts'[i].crossed => attempts'[i].start = attempts'[i].from
  <2>1. CASE i \in DOMAIN attempts
    <3>1. attempts'[i] = attempts[i]
      BY <1>1, <2>1
    <3>. QED
      BY <2>1, <3>1 DEF AttemptsInv
  <2>2. CASE i \notin DOMAIN attempts
    <3>1. attempts'[i] = a /\ i = Len(attempts) + 1 /\ Len(attempts) \in Nat
      BY <1>1, <2>2
    <3>2. i - 1 = Len(attempts)
      BY <3>1
    <3>. QED
      BY <1>2, <3>1, <3>2
  <2>. QED
    BY <2>1, <2>2
<1>4. ASSUME NEW p \in Procs PROVE ReadInv(p)'
  <2>1. CASE p = q
    BY <1>1, <2>1 DEF ReadInv, Reading, Numbered
  <2>2. CASE p # q
    <3>1. pc'[p] = pc[p] /\ mine'[p] = mine[p]
      BY <1>1, <2>2 DEF TInv, Moves
    <3>2. crossed[p] \subseteq crossed'[p] /\ (Numbered(p) => "filing" \in crossed'[p])
      BY <1>1 DEF Cross, Numbered
    <3>3. (Reading(p)' <=> Reading(p)) /\ (Numbered(p)' <=> Numbered(p)) /\ ReadInv(p)
      BY <3>1 DEF Reading, Numbered, AttemptsInv
    <3>. QED
      BY <1>1, <3>1, <3>2, <3>3 DEF ReadInv
  <2>. QED
    BY <2>1, <2>2
<1>. QED
  BY <1>3, <1>4 DEF AttemptsInv

\* Who a step crosses keeps what crossed it before, but for the thread that takes the step.
LEMMA CrossedGrows ==
  ASSUME TInv, XInv, NEW q \in Procs, Continue(q), NEW p \in Procs, p # q
  PROVE  crossed[p] \subseteq crossed'[p]
<1>1. CASE crossed' = crossed
  BY <1>1
<1>2. CASE \E S : crossed' = [crossed EXCEPT ![q] = S]
  BY <1>2 DEF XInv
<1>3. CASE \E event, places : Cross(event, places)
  BY <1>3 DEF Cross
<1>4. CASE FinishEdit(q) \/ Grey(q) \/ Launch(q) \/ Spawn(q) \/ Begin(q) \/ UseField(q) \/ BeginField(q) \/ Search(q) \/ Record(q)
  <2>1. crossed' = crossed
    BY <1>4 DEF FinishEdit, Grey, Launch, Spawn, Begin, UseField, BeginField, Search, Record, history
  <2>. QED
    BY <1>1, <2>1
<1>5. CASE DropField(q) \/ DropRoadmap(q) \/ Untime(q) \/ AppendAttempt(q)
  BY <1>3, <1>5 DEF DropField, DropRoadmap, Untime, AppendAttempt
<1>6. CASE BeginRefine(q)
  BY <1>1, <1>2, <1>6 DEF BeginRefine
<1>7. CASE EndField(q) \/ EndBuild(q) \/ Fail(q) \/ ReportAttempt(q) \/ ReportRoadmap(q) \/ EndTiming(q)
  BY <1>2, <1>7 DEF EndField, EndBuild, Fail, ReportAttempt, ReportRoadmap, EndTiming, Finish
<1>. QED
  BY <1>4, <1>5, <1>6, <1>7 DEF Continue

LEMMA CallbackQuiet ==
  ASSUME TInv, XInv, NEW c \in Callers, Callback(c), ~ \E s \in Starts : SetStart(c, s)
  PROVE  /\ Moves(c) /\ UNCHANGED <<attempts, start, trajectory, last, late>>
         /\ pc'[c] \in {"edit", "field", "clicked", "begin", "timing"}
         /\ pc'[c] = "field" => mine'[c].kind = "clearance"
         /\ pc'[c] = "timing" => BeginTiming(c)
         /\ \A p \in Procs \ {c} : crossed[p] \subseteq crossed'[p]
<1>0. c \in Procs
  BY DEF Procs
<1>1. CASE (\E id \in Ids, pose \in Poses : AddObstacle(c, id, pose))
           \/ (\E id \in Ids, pose \in Poses \cup {Gone} : ChangeObstacle(c, id, pose))
  BY <1>0, <1>1 DEF AddObstacle, ChangeObstacle, TInv, Moves, Goto, log, history
<1>2. CASE ClickClearance(c)
  <2>1. mine'[c].kind = "clearance"
    BY <1>0, <1>2 DEF ClickClearance, TInv, Locals
  <2>. QED
    BY <1>0, <1>2, <2>1 DEF ClickClearance, TInv, Moves, Goto, log, history
<1>3. CASE (\E kind \in Jobs : Click(c, kind)) \/ Query(c)
  BY <1>0, <1>3 DEF Click, Query, TInv, Moves, Goto, log, history
<1>4. CASE BeginTiming(c)
  <2>1. \A p \in Procs \ {c} : crossed'[p] = crossed[p]
    <3>1. PICK S : crossed' = [crossed EXCEPT ![c] = S]
      BY <1>4 DEF BeginTiming
    <3>. QED
      BY <3>1 DEF XInv
  <2>. QED
    BY <1>0, <1>4, <2>1 DEF BeginTiming, TInv, Moves, Goto, log
<1>. QED
  BY <1>1, <1>2, <1>3, <1>4 DEF Callback

LEMMA LogStep == Typed /\ AttemptsInv /\ [Next]_vars => AttemptsInv'
<1> SUFFICES ASSUME TInv, XInv, AttemptsInv, [Next]_vars PROVE AttemptsInv'
  BY DEF Typed
<1>1. ASSUME NEW c \in Callers, Callback(c) PROVE AttemptsInv'
  <2>1. CASE \E s \in Starts : SetStart(c, s)
    BY <2>1, LogStart
  <2>2. CASE ~ \E s \in Starts : SetStart(c, s)
    <3>1. /\ Moves(c) /\ UNCHANGED <<attempts, start>>
          /\ \A p \in Procs \ {c} : crossed[p] \subseteq crossed'[p]
          /\ ~ Reading(c)' /\ ~ Numbered(c)' /\ c \in Procs
      BY <1>1, <2>2, CallbackQuiet DEF Reading, Numbered, Procs
    <3>2. ReadInv(c)'
      BY <3>1 DEF ReadInv
    <3>. QED
      BY <3>1, <3>2, ReadFrame
  <2>. QED
    BY <2>1, <2>2
<1>2. ASSUME NEW q \in Procs, Continue(q) PROVE AttemptsInv'
  <2>0. \A p \in Procs \ {q} : crossed[p] \subseteq crossed'[p]
    BY <1>2, CrossedGrows
  <2>1. CASE AppendAttempt(q)
    BY <2>1, LogAppend
  <2>2. CASE Spawn(q)
    <3>1. UNCHANGED <<attempts, start, crossed>>
      BY <2>2 DEF Spawn, log, history
    <3>2. /\ Keeps({"field", "build_field", "build", "search", "record"}) /\ Keeps({"untime", "append"})
      BY <2>2, SpawnKeeps
    <3>3. ASSUME NEW p \in Procs PROVE ReadInv(p)'
      <4>1. /\ Reading(p)' => Reading(p) /\ mine'[p] = mine[p]
            /\ Numbered(p)' => Numbered(p) /\ mine'[p] = mine[p]
            /\ ReadInv(p)
        BY <3>2 DEF Keeps, Reading, Numbered, AttemptsInv
      <4>. QED
        BY <3>1, <4>1 DEF ReadInv
    <3>. QED
      BY <3>1, <3>3 DEF AttemptsInv
  <2>3. CASE UseField(q) \/ BeginField(q) \/ EndField(q) \/ EndBuild(q) \/ Search(q)
    <3>1. UNCHANGED <<attempts, start>>
      BY <2>3 DEF UseField, BeginField, EndField, EndBuild, Search, log
    <3>2. ReadInv(q)' /\ Moves(q)
      BY <1>2, <2>3, <3>1, ReadOn, Stage DEF UseField, BeginField, EndField, EndBuild, Search, Spawn
    <3>. QED
      BY <2>0, <3>1, <3>2, ReadFrame
  <2>4. CASE BeginRefine(q) \/ Begin(q)
    <3>1. UNCHANGED <<attempts, start>> /\ ~ Spawn(q)
      BY <2>4 DEF BeginRefine, Begin, Spawn, log
    <3>2. Begin(q) => pc'[q] \in {"field", "build", "search"}
      BY DEF Begin, TInv, Goto
    <3>3. ReadInv(q)' /\ Moves(q)
      BY <1>2, <2>4, <3>1, <3>2, ReadRefine, ReadBegin, Stage
    <3>. QED
      BY <2>0, <3>1, <3>3, ReadFrame
  <2>5. CASE Record(q) \/ Untime(q)
    <3>1. UNCHANGED <<attempts, start>> /\ ~ Spawn(q)
      BY <2>5 DEF Record, Untime, Spawn, log
    <3>2. ReadInv(q)' /\ Moves(q)
      BY <1>2, <2>5, <3>1, ReadRecord, ReadUntime, Stage
    <3>. QED
      BY <2>0, <3>1, <3>2, ReadFrame
  <2>6. CASE FinishEdit(q) \/ DropField(q) \/ DropRoadmap(q) \/ Grey(q) \/ Launch(q)
    <3>1. /\ UNCHANGED <<attempts, start>> /\ ~ Spawn(q)
          /\ pc'[q] \in {"drop_field", "drop_roadmap", "idle", "launch", "spawn"}
      BY <2>6 DEF FinishEdit, DropField, DropRoadmap, Grey, Launch, Spawn, TInv, Goto, log
    <3>2. ReadInv(q)' /\ Moves(q)
      BY <1>2, <3>1, Stage DEF ReadInv, Reading, Numbered
    <3>. QED
      BY <2>0, <3>1, <3>2, ReadFrame
  <2>7. CASE Fail(q) \/ ReportAttempt(q) \/ ReportRoadmap(q) \/ EndTiming(q)
    <3>1. /\ UNCHANGED <<attempts, start>> /\ ~ Spawn(q) /\ pc'[q] = "idle"
      BY <2>7 DEF Fail, ReportAttempt, ReportRoadmap, EndTiming, Finish, Spawn, TInv, Goto, log
    <3>2. ReadInv(q)' /\ Moves(q)
      BY <1>2, <3>1, Stage DEF ReadInv, Reading, Numbered
    <3>. QED
      BY <2>0, <3>1, <3>2, ReadFrame
  <2>. QED
    BY <1>2, <2>1, <2>2, <2>3, <2>4, <2>5, <2>6, <2>7 DEF Continue
<1>3. CASE UNCHANGED vars
  <2>1. UNCHANGED <<attempts, start, crossed, pc, mine>>
    BY <1>3 DEF vars, log
  <2>. QED
    BY <2>1 DEF AttemptsInv, ReadInv, Reading, Numbered
<1>. QED
  BY <1>1, <1>2, <1>3 DEF Next

\* A new attempt takes the timing away, and whoever is timing is crossed.
LEMMA TimingUntime ==
  ASSUME TInv, XInv, NEW q \in Procs, Untime(q)
  PROVE  TimingInv'
<1>1. /\ trajectory' = 0 /\ Cross("filing", {"timing"}) /\ pc[q] = "untime"
      /\ pc' = [pc EXCEPT ![q] = "append"]
  BY DEF Untime, Goto
<1>2. ASSUME NEW p \in Procs, pc'[p] = "timing" PROVE "filing" \in crossed'[p]
  BY <1>1, <1>2 DEF TInv, Cross
<1>. QED
  BY <1>1, <1>2 DEF TimingInv

\* While an attempt is on its way to the display nothing is timed.
LEMMA TimingReport ==
  ASSUME TInv, XInv, TimingInv, NEW q \in Procs, ReportAttempt(q)
  PROVE  TimingInv'
<1>1. /\ Filing(q) /\ UNCHANGED <<trajectory, late>> /\ pc' = [pc EXCEPT ![q] = "idle"]
      /\ crossed' = [crossed EXCEPT ![q] = {}]
  BY DEF ReportAttempt, Finish, Goto, Filing
<1>2. ~ Shown
  BY <1>1 DEF Shown
<1>3. ASSUME NEW p \in Procs, pc'[p] = "timing" PROVE "filing" \in crossed'[p]
  BY <1>1, <1>2, <1>3 DEF TInv, XInv, TimingInv
<1>. QED
  BY <1>1, <1>2, <1>3 DEF TimingInv

LEMMA TimingBegin ==
  ASSUME TInv, XInv, TimingInv, NEW c \in Callers, BeginTiming(c)
  PROVE  TimingInv'
<1>0. c \in Procs
  BY DEF Procs
<1>1. /\ pc[c] = "idle" /\ pc' = [pc EXCEPT ![c] = "timing"] /\ mine' = [mine EXCEPT ![c].at = last]
      /\ UNCHANGED <<trajectory, last, late>>
  BY DEF BeginTiming, Goto, log
<1>2. Shown' <=> Shown
  <2>1. ASSUME NEW p \in Procs PROVE Filing(p)' <=> Filing(p)
    <3>1. CASE p = c
      BY <1>1, <3>1 DEF TInv, Filing
    <3>2. CASE p # c
      BY <1>0, <1>1, <3>2 DEF TInv, Filing
    <3>. QED
      BY <3>1, <3>2
  <2>. QED
    BY <2>1 DEF Shown
<1>3. ASSUME "filing" \notin crossed'[c] PROVE mine'[c].at = last /\ Shown
  <2>1. mine'[c].at = last
    BY <1>0, <1>1 DEF TInv, Locals
  <2>2. ~ \E p \in Procs : Filing(p)
    <3>1. SUFFICES ASSUME \E p \in Procs : Filing(p) PROVE FALSE
      OBVIOUS
    <3>2. crossed' = [crossed EXCEPT ![c] = {"filing"}]
      BY <3>1 DEF BeginTiming
    <3>. QED
      BY <1>0, <1>3, <3>2 DEF XInv
  <2>. QED
    BY <2>1, <2>2 DEF Shown
<1>4. ASSUME NEW p \in Procs, p # c, pc'[p] = "timing", "filing" \notin crossed'[p]
      PROVE  mine'[p].at = last /\ Shown
  <2>1. pc[p] = "timing" /\ mine'[p] = mine[p]
    BY <1>0, <1>1, <1>4 DEF TInv
  <2>2. PICK S : crossed' = [crossed EXCEPT ![c] = S]
    BY DEF BeginTiming
  <2>3. "filing" \notin crossed[p]
    BY <1>0, <1>4, <2>2 DEF XInv
  <2>. QED
    BY <2>1, <2>3 DEF TimingInv
<1>. QED
  BY <1>1, <1>2, <1>3, <1>4 DEF TimingInv

LEMMA TimingEnd ==
  ASSUME TInv, XInv, TimingInv, NEW c \in Procs, EndTiming(c)
  PROVE  TimingInv'
<1>1. /\ pc[c] = "timing" /\ pc' = [pc EXCEPT ![c] = "idle"] /\ mine' = [mine EXCEPT ![c] = Blank]
      /\ crossed' = [crossed EXCEPT ![c] = {}] /\ last' = last
  BY DEF EndTiming, Goto
<1>2. ASSUME NEW p \in Procs, p # c PROVE pc'[p] = pc[p] /\ mine'[p] = mine[p] /\ crossed'[p] = crossed[p]
  BY <1>1, <1>2 DEF TInv, XInv
<1>3. pc'[c] = "idle"
  BY <1>1 DEF TInv
<1>4. Shown' <=> Shown
  <2>1. ASSUME NEW p \in Procs PROVE Filing(p)' <=> Filing(p)
    BY <1>1, <1>2, <1>3 DEF Filing
  <2>. QED
    BY <2>1 DEF Shown
<1>5. trajectory' # 0 /\ "timing" \notin late' => trajectory' = last /\ Shown
  <2>1. CASE UNCHANGED <<trajectory, late>>
    BY <2>1 DEF TimingInv
  <2>2. CASE crossed[c] = {} /\ trajectory' = mine[c].at
    BY <1>1, <2>2 DEF TimingInv
  <2>3. CASE crossed[c] # {} /\ late' = late \cup {"timing"}
    BY <2>3
  <2>. QED
    BY <2>1, <2>2, <2>3 DEF EndTiming
<1>6. ASSUME NEW p \in Procs, pc'[p] = "timing", "filing" \notin crossed'[p] PROVE mine'[p].at = last /\ Shown
  BY <1>2, <1>3, <1>6 DEF TimingInv
<1>. QED
  BY <1>1, <1>4, <1>5, <1>6 DEF TimingInv

LEMMA TimingStep == Typed /\ TimingInv /\ [Next]_vars => TimingInv'
<1> SUFFICES ASSUME TInv, XInv, TimingInv, [Next]_vars PROVE TimingInv'
  BY DEF Typed
<1>1. ASSUME NEW c \in Callers, Callback(c) PROVE TimingInv'
  <2>0. c \in Procs
    BY DEF Procs
  <2>1. CASE \E s \in Starts : SetStart(c, s)
    <3>1. /\ UNCHANGED <<trajectory, last, late, pc, mine>>
          /\ \A p \in Procs : "filing" \in crossed[p] => "filing" \in crossed'[p]
      BY <2>1 DEF SetStart, log, Cross
    <3>. QED
      BY <3>1 DEF TimingInv, Shown, Filing
  <2>2. CASE BeginTiming(c)
    BY <2>2, TimingBegin
  <2>3. CASE ~ BeginTiming(c) /\ ~ \E s \in Starts : SetStart(c, s)
    <3>1. /\ Moves(c) /\ UNCHANGED <<trajectory, last, late>>
          /\ pc'[c] # "timing" /\ pc'[c] \notin {"append", "report"}
          /\ \A p \in Procs \ {c} : crossed[p] \subseteq crossed'[p]
      BY <1>1, <2>3, CallbackQuiet
    <3>2. ~ Filing(c)'
      BY <3>1 DEF Filing
    <3>. QED
      BY <2>0, <3>1, <3>2, TimingFrame
  <2>. QED
    BY <2>1, <2>2, <2>3
<1>2. ASSUME NEW q \in Procs, Continue(q) PROVE TimingInv'
  <2>0. \A p \in Procs \ {q} : crossed[p] \subseteq crossed'[p]
    BY <1>2, CrossedGrows
  <2>1. CASE Untime(q) \/ ReportAttempt(q) \/ EndTiming(q)
    BY <2>1, TimingUntime, TimingReport, TimingEnd
  <2>2. CASE Spawn(q)
    <3>1. UNCHANGED <<trajectory, last, late, crossed>>
      BY <2>2 DEF Spawn, log, history
    <3>2. Keeps({"append", "report"}) /\ Keeps({"timing"})
      BY <2>2, SpawnKeeps
    <3>3. \A p \in Procs : Filing(p)' => Filing(p)
      BY <3>2 DEF Keeps, Filing
    <3>. QED
      BY <3>1, <3>2, <3>3 DEF TimingInv, Shown, Keeps
  <2>3. CASE AppendAttempt(q)
    <3>1. /\ UNCHANGED <<trajectory, last, late>> /\ pc[q] = "append" /\ pc'[q] = "report" /\ ~ Spawn(q)
      BY <2>3 DEF AppendAttempt, Spawn, TInv, Goto
    <3>2. Filing(q) /\ Moves(q)
      BY <1>2, <3>1, Stage DEF Filing
    <3>. QED
      BY <2>0, <3>1, <3>2, TimingFrame
  <2>4. CASE EndField(q) \/ EndBuild(q)
    <3>1. UNCHANGED <<trajectory, last>> /\ ("timing" \in late => "timing" \in late') /\ ~ Spawn(q)
      BY <2>4 DEF EndField, EndBuild, Store, Spawn, log
    <3>2. pc'[q] # "timing" /\ ~ Filing(q)'
      <4>1. CASE EndField(q)
        BY <4>1 DEF EndField, TInv, Goto, Filing
      <4>2. CASE EndBuild(q)
        <5>1. mine[q].kind \in {"roadmap", "query"} /\ mine'[q].kind = mine[q].kind
          BY <4>2 DEF EndBuild, TInv, PlaceOK, Locals
        <5>2. pc'[q] \in {"search", "report", "failed"} /\ (pc'[q] = "report" => mine[q].kind # "query")
          BY <4>2 DEF EndBuild, TInv, Goto
        <5>. QED
          BY <5>1, <5>2 DEF Filing
      <4>. QED
        BY <2>4, <4>1, <4>2
    <3>3. Moves(q)
      BY <1>2, <3>1, Stage
    <3>. QED
      BY <2>0, <3>1, <3>2, <3>3, TimingFrame
  <2>5. CASE FinishEdit(q) \/ DropField(q) \/ DropRoadmap(q) \/ Grey(q) \/ Launch(q) \/ Fail(q) \/ ReportRoadmap(q)
    <3>1. /\ UNCHANGED <<trajectory, last, late>> /\ ~ Spawn(q)
          /\ pc'[q] \in {"drop_field", "drop_roadmap", "idle", "launch", "spawn"}
      BY <2>5 DEF FinishEdit, DropField, DropRoadmap, Grey, Launch, Fail, ReportRoadmap, Finish, Spawn,
                  TInv, Goto, log, history
    <3>2. ~ Filing(q)' /\ Moves(q)
      BY <1>2, <3>1, Stage DEF Filing
    <3>. QED
      BY <2>0, <3>1, <3>2, TimingFrame
  <2>6. CASE BeginRefine(q) \/ Begin(q) \/ UseField(q) \/ BeginField(q) \/ Search(q) \/ Record(q)
    <3>1. UNCHANGED <<trajectory, last, late>> /\ ~ Spawn(q)
      BY <2>6 DEF BeginRefine, Begin, UseField, BeginField, Search, Record, Spawn, log, history
    <3>2. pc'[q] \in {"failed", "field", "build", "search", "build_field", "record", "untime"}
      <4>1. CASE Begin(q)
        BY <4>1 DEF Begin, TInv, Goto
      <4>. QED
        BY <2>6, <4>1 DEF BeginRefine, UseField, BeginField, Search, Record, TInv, Goto
    <3>3. ~ Filing(q)' /\ Moves(q)
      BY <1>2, <3>1, <3>2, Stage DEF Filing
    <3>. QED
      BY <2>0, <3>1, <3>2, <3>3, TimingFrame
  <2>. QED
    BY <1>2, <2>1, <2>2, <2>3, <2>4, <2>5, <2>6 DEF Continue
<1>3. CASE UNCHANGED vars
  <2>1. UNCHANGED <<trajectory, last, late, crossed, pc, mine>>
    BY <1>3 DEF vars, log
  <2>. QED
    BY <2>1 DEF TimingInv, Shown, Filing
<1>. QED
  BY <1>1, <1>2, <1>3 DEF Next

(* An attempt has the number of its place in the log, unless another one was filed after it was
   numbered (Attempt(len(self.attempts), ...)); it is on record under the start its path begins
   at, unless the start was set meanwhile, or was another one already when a path was refined;
   and a timing is of the attempt on display, unless it overlapped the filing of one.  It holds
   for any number of callbacks at once, beside any workers. *)
THEOREM RecordsAreHonest == Spec => []RecordsHonest
<1> DEFINE Inv == Typed /\ AttemptsInv /\ TimingInv
<1>1. Init => Inv
  <2>1. Init => AttemptsInv /\ TimingInv
    <3> SUFFICES ASSUME Init PROVE AttemptsInv /\ TimingInv
      OBVIOUS
    <3>1. trajectory = 0 /\ \A p \in Procs : pc[p] = "idle"
      BY DEF Init
    <3>2. DOMAIN attempts = {}
      <4>1. attempts = << >>
        BY DEF Init
      <4>2. attempts \in Seq(Nat) /\ Len(attempts) = 0
        BY <4>1
      <4>. QED
        BY <4>2
    <3>. QED
      BY <3>1, <3>2 DEF AttemptsInv, ReadInv, Reading, Numbered, TimingInv
  <2>. QED
    BY <2>1, InitTyped
<1>2. Inv /\ [Next]_vars => Inv'
  BY NextTyped, LogStep, TimingStep
<1>3. Inv => RecordsHonest
  BY DEF AttemptsInv, TimingInv, RecordsHonest
<1>. QED
  BY <1>1, <1>2, <1>3, PTL DEF Spec
===============================================================================
