------------------------- MODULE SceneReview_proofs -------------------------
(***************************************************************************)
(* Proofs about SceneReview, for any number of handlers, requests,         *)
(* connections and restarts: an engine credits a surface only while its    *)
(* user's confirmation is worth something, a scene has its keyframe and no *)
(* keyframe is left over, and a deletion that was asked for is final.      *)
(*                                                                         *)
(* Layout: the inductive invariant; what a turn of a handler and a change  *)
(* of the rows leave alone; one lemma per action, with one step per        *)
(* conjunct; the theorems.                                                 *)
(***************************************************************************)
EXTENDS SceneReview, TLAPS

-----------------------------------------------------------------------------
(* The inductive invariant.                                                *)

\* Who is inside a section that a lock protects owns the lock, and nobody else.
Held ==
    \A h \in Handlers :
        /\ runtime = h <=> task[h].pc \in {"persist", "retire", "tell", "built", "review", "told", "bare"}
        /\ lock = h <=> task[h].pc \in {"persist", "retire", "unlink", "finish"}

\* Engines, connections and keyframes are numbered in the order they appear.
Numbered ==
    /\ engines <= sessions
    /\ engine # Nobody => /\ engine.id <= engines /\ engine.id # 0 /\ engine.capture # 0
                          /\ engine.active <= engine.capture /\ engine.capture <= sessions
    /\ scene # Nobody => scene.snap <= snaps
    /\ \A h \in Handlers : task[h].engine <= engines /\ (task[h].seen # Nobody => task[h].seen.snap <= snaps)

\* The keyframe being persisted is newer than every other anybody knows.
Newest ==
    \A h \in Handlers : At(h, "persist") =>
        /\ task[h].image = snaps /\ snaps \in images
        /\ scene # Nobody => scene.snap < snaps
        /\ \A g \in Handlers : task[g].seen # Nobody => task[g].seen.snap < snaps

\* What a handler has found is still so while it holds its locks.
Placed ==
    \A h \in Handlers :
        /\ task[h].pc \in {"persist", "retire", "tell"} => engine # Nobody
        /\ task[h].pc \in {"unlink", "finish"} => Pending(scene)
        /\ At(h, "persist") => ~Pending(scene)
        /\ At(h, "retire") => scene # Nobody /\ task[h].image # scene.snap
        /\ At(h, "finish") => scene.snap \notin images
        /\ task[h].pc \in {"editing", "checked", "tell"} => task[h].seen # Nobody
        /\ task[h].image # 0 => task[h].pc \in {"persist", "retire"}

\* Whatever an engine credits, or is told to, was confirmed for it; a new
\* engine has an update to apply before its first frame, unless it is bereft.
HereOf(e) ==
    /\ e.active = 0 /\ e.id \notin bereft => e.pending # Nobody \/ ~Credited(e.zones)
    /\ e.active # 0 /\ ~e.review /\ e.id \notin bereft /\ Credited(e.zones) => e.zones.engine = e.id
    /\ e.pending # Nobody /\ e.pending.confirmed /\ Credited(e.pending.zones) =>
           e.pending.zones.engine = e.id
Here ==
    /\ engine # Nobody => HereOf(engine)
    /\ \A h \in Handlers : At(h, "tell") /\ Credited(zones) => zones.engine = engine.id

\* An engine is built while there is none, and is bereft if it found no scene
\* for zones that are trusted; a patch knows the camera it began with.
Building == {"built", "review", "told", "bare"}
Built ==
    \A h \in Handlers :
        /\ task[h].pc \in Building => engine = Nobody
        /\ At(h, "bare") /\ Credited(task[h].zones) => engines + 1 \in bereft
        /\ At(h, "patch") => task[h].camera # Nobody
        /\ At(h, "zone") => task[h].op = "zone"

\* Whoever edited a zone that an engine credits, or is told to, has yet to
\* stop that engine.
Waiting == \E h \in Handlers : task[h].op = "zone" /\ At(h, "stop")
Shaped(z) == Credited(z) /\ z.edited => Waiting
EditedOf(e) ==
    /\ e.active # 0 /\ ~e.review /\ e.id \notin bereft => Shaped(e.zones)
    /\ e.pending # Nobody /\ e.pending.confirmed => Shaped(e.pending.zones)
Edited ==
    /\ engine # Nobody => EditedOf(engine)
    /\ \A h \in Handlers : At(h, "tell") => Shaped(zones)

\* And for the session of its frames, as long as no session was replaced
\* between the check of a save and the engine's word of it.
Settled(e) == e.active # 0 /\ e.capture = e.active
SessionOf(e) ==
    /\ e.active # 0 /\ ~e.review /\ Credited(e.zones) => e.zones.session = e.active
    /\ e.pending # Nobody /\ e.pending.confirmed /\ Credited(e.pending.zones) /\ Settled(e) =>
           e.pending.zones.session = e.active
Session ==
    ~overtaken /\ engine # Nobody =>
        /\ SessionOf(engine)
        /\ \A h \in Handlers :
              /\ At(h, "checked") /\ task[h].engine = engine.id /\ Settled(engine) =>
                     task[h].session = engine.active
              /\ At(h, "tell") /\ Credited(zones) /\ Settled(engine) => zones.session = engine.active

\* A save that was checked is about the session of the scene it began with.
Checked ==
    \A h \in Handlers : At(h, "checked") /\ scene # Nobody /\ scene.snap = task[h].seen.snap =>
        scene.session = task[h].session

\* ImagesAccounted, image by image.
Accounted ==
    crashes = 0 => \A i \in images : \/ i \in leftover
                                     \/ \E h \in Handlers : i = task[h].image
                                     \/ scene # Nobody /\ i = scene.snap

IInv == /\ TypeOK /\ Held /\ Numbered /\ Newest /\ Placed /\ Here /\ Session /\ Checked /\ ZonesFollowScene
        /\ KeyframeKept /\ Accounted /\ Built /\ Edited
USE DEF At, rows, locks, counters, ghosts

-----------------------------------------------------------------------------
(* What a turn of one handler leaves alone.                                *)

Turn(h) == task' \in [Handlers -> Tasks] /\ \A g \in Handlers : g # h => task'[g] = task[g]

\* A handler goes on: nothing but its place changes.
Goes(h, pc) ==
    /\ Turn(h) /\ task'[h].pc = pc /\ task'[h].op = task[h].op /\ task'[h].camera = task[h].camera
    /\ task'[h].engine = task[h].engine /\ task'[h].session = task[h].session
    /\ task'[h].seen = task[h].seen /\ task'[h].image = task[h].image
LEMMA Moves ==
    ASSUME TypeOK, NEW h \in Handlers, NEW pc \in Steps, Move(h, pc)
    PROVE  Goes(h, pc)
<1>1. task \in [Handlers -> Tasks] /\ task[h] \in Tasks
  BY DEF TypeOK
<1>2. task' = [task EXCEPT ![h] = [task[h] EXCEPT !.pc = pc]]
  BY DEF Move
<1>3. [task[h] EXCEPT !.pc = pc] \in Tasks
  BY <1>1 DEF Tasks
<1>4. Turn(h) /\ task'[h] = [task[h] EXCEPT !.pc = pc]
  BY <1>1, <1>2, <1>3 DEF Turn
<1> QED BY <1>1, <1>4 DEF Goes, Tasks

\* It takes a keyframe with it.
LEMMA Takes ==
    ASSUME TypeOK, NEW h \in Handlers, NEW pc \in Steps, NEW i \in Nat, Take(h, pc, i)
    PROVE  /\ Turn(h) /\ task'[h].pc = pc /\ task'[h].image = i
           /\ task'[h].engine = task[h].engine /\ task'[h].seen = task[h].seen
<1>1. task \in [Handlers -> Tasks] /\ task[h] \in Tasks
  BY DEF TypeOK
<1>2. task' = [task EXCEPT ![h] = [task[h] EXCEPT !.pc = pc, !.image = i]]
  BY DEF Take
<1>3. [task[h] EXCEPT !.pc = pc, !.image = i] \in Tasks
  BY <1>1 DEF Tasks
<1>4. Turn(h) /\ task'[h] = [task[h] EXCEPT !.pc = pc, !.image = i]
  BY <1>1, <1>2, <1>3 DEF Turn
<1> QED BY <1>1, <1>4 DEF Tasks

\* It is done, and forgets everything.
Ends(h) ==
    /\ Turn(h) /\ task'[h].pc = "idle" /\ task'[h].engine = 0 /\ task'[h].session = 0
    /\ task'[h].seen = Nobody /\ task'[h].image = 0
LEMMA Returns ==
    ASSUME TypeOK, NEW h \in Handlers, Return(h)
    PROVE  Ends(h)
<1>1. NoTask \in Tasks
  BY DEF NoTask, Tasks, Steps
<1>2. Turn(h) /\ task'[h] = NoTask
  BY <1>1 DEF Return, Turn, TypeOK
<1> QED BY <1>2 DEF Ends, NoTask

\* What is known of a handler by its type.
LEMMA TaskTypes ==
    ASSUME TypeOK
    PROVE  \A h \in Handlers : /\ task[h].pc \in Steps /\ task[h].engine \in Nat /\ task[h].session \in Nat
                               /\ task[h].seen \in Scenes \cup {Nobody} /\ task[h].image \in Nat
                               /\ task[h].camera \in Nat \cup {Nobody} /\ task[h].zones \in Zones \cup {Nobody}
BY DEF TypeOK, Tasks

\* The records, apart from Nobody.
LEMMA RecordTypes ==
    ASSUME TypeOK
    PROVE  /\ scene # Nobody => /\ scene \in Scenes /\ scene.version \in Nat /\ scene.snap \in Nat
                                /\ scene.session \in Nat /\ scene.sig \in Nat /\ scene.status \in Statuses
           /\ zones # Nobody => zones \in Zones
           /\ engine # Nobody => /\ engine \in Engines /\ engine.id \in Nat /\ engine.capture \in Nat
                                 /\ engine.active \in Nat /\ engine.review \in BOOLEAN
                                 /\ engine.zones \in Zones \cup {Nobody}
                                 /\ engine.pending \in Updates \cup {Nobody}
           /\ camera # Nobody => camera \in Nat
BY DEF TypeOK, Scenes, Engines

\* The numbers.
LEMMA Numbers ==
    ASSUME TypeOK
    PROVE  /\ snaps \in Nat /\ sessions \in Nat /\ engines \in Nat /\ 0 \notin images
           /\ scene # Nobody => scene.snap \in Nat
           /\ engine # Nobody => engine.id \in Nat /\ engine.capture \in Nat /\ engine.active \in Nat
           /\ \A h \in Handlers : /\ task[h].engine \in Nat /\ task[h].session \in Nat /\ task[h].image \in Nat
                                  /\ task[h].seen # Nobody => task[h].seen.snap \in Nat
<1>1. \A s \in Scenes : s.snap \in Nat
  BY DEF Scenes
<1> QED BY <1>1, TaskTypes, RecordTypes, SceneConstants DEF TypeOK

-----------------------------------------------------------------------------
(* The changes of the rows.                                                *)

LEMMA UnconfirmedIs ==
    ASSUME NEW z \in Zones \cup {Nobody}
    PROVE  Unconfirmed(z) \in Zones \cup {Nobody} /\ ~Credited(Unconfirmed(z))
<1>1. CASE z = Nobody
  BY <1>1 DEF Unconfirmed, Credited
<1>2. CASE z # Nobody
  <2>1. z \in Zones /\ Unconfirmed(z) = [z EXCEPT !.confirmed = FALSE]
    BY <1>2 DEF Unconfirmed
  <2>2. Unconfirmed(z) \in Zones /\ Unconfirmed(z).confirmed = FALSE
    BY <2>1 DEF Zones
  <2> QED BY <2>2 DEF Credited
<1> QED BY <1>1, <1>2

\* The scene goes on to its next version, on the same keyframe, and loses its
\* confirmation.
Fades(status) ==
    /\ scene # Nobody /\ scene' \in Scenes
    /\ scene'.snap = scene.snap /\ scene'.session = scene.session /\ scene'.status = status
    /\ zones' \in Zones \cup {Nobody} /\ ~Credited(zones')
LEMMA ChangedIs ==
    ASSUME NEW s \in Scenes, NEW sig \in Nat, NEW status \in Statuses
    PROVE  /\ Changed(s, sig, status) \in Scenes /\ Changed(s, sig, status).status = status
           /\ Changed(s, sig, status).snap = s.snap /\ Changed(s, sig, status).session = s.session
           /\ Changed(s, sig, status).version = s.version + 1
BY DEF Changed, Scenes
LEMMA InvalidatedFades ==
    ASSUME TypeOK, scene # Nobody, camera # Nobody, scene' = Invalidated(scene), zones' = Unconfirmed(zones)
    PROVE  Fades("needs_review")
<1>1. scene \in Scenes /\ camera \in Nat /\ "needs_review" \in Statuses
  BY RecordTypes DEF Statuses
<1>2. scene' = Changed(scene, camera, "needs_review")
  BY DEF Invalidated
<1>3. zones' \in Zones \cup {Nobody} /\ ~Credited(zones')
  BY UnconfirmedIs DEF TypeOK
<1> QED BY <1>1, <1>2, <1>3, ChangedIs DEF Fades
LEMMA MarkedFades ==
    ASSUME TypeOK, scene # Nobody, scene' = Marked(scene), zones' = Unconfirmed(zones)
    PROVE  Fades("pending_delete")
<1>1. scene \in Scenes /\ scene.sig \in Nat /\ "pending_delete" \in Statuses
  BY RecordTypes DEF Statuses
<1>2. scene' = Changed(scene, scene.sig, "pending_delete")
  BY DEF Marked
<1>3. zones' \in Zones \cup {Nobody} /\ ~Credited(zones')
  BY UnconfirmedIs DEF TypeOK
<1> QED BY <1>1, <1>2, <1>3, ChangedIs DEF Fades

\* Either nothing happens to the rows or the scene is withdrawn.
LEMMA InvalidateFades ==
    ASSUME TypeOK, Invalidate
    PROVE  lock = Nobody /\ (UNCHANGED <<scene, zones>> \/ (~Pending(scene) /\ Fades("needs_review")))
BY InvalidatedFades DEF Invalidate, Pending

-----------------------------------------------------------------------------
(* What a turn of a handler leaves alone.                                  *)

\* Every keyframe still has somebody, or its removal failed.
LEMMA AccountedOn ==
    ASSUME IInv, NEW h \in Handlers, Turn(h), UNCHANGED crashes, leftover \subseteq leftover',
           \A i \in images' : i \notin images => i = task'[h].image,
           \A i \in images' \cap images :
               i = task[h].image \/ (scene # Nobody /\ i = scene.snap) =>
                   i \in leftover' \/ i = task'[h].image \/ (scene' # Nobody /\ i = scene'.snap)
    PROVE  Accounted'
<1> SUFFICES ASSUME crashes = 0, NEW i \in images'
             PROVE  i \in leftover' \/ (\E g \in Handlers : i = task'[g].image) \/ (scene' # Nobody /\ i = scene'.snap)
  BY DEF Accounted
<1>1. CASE i \notin images
  BY <1>1
<1>2. CASE i \in images
  <2>1. i \in leftover \/ (\E g \in Handlers : i = task[g].image) \/ (scene # Nobody /\ i = scene.snap)
    BY <1>2 DEF IInv, Accounted
  <2>2. CASE i = task[h].image \/ (scene # Nobody /\ i = scene.snap)
    BY <1>2, <2>2
  <2>3. CASE \E g \in Handlers : g # h /\ i = task[g].image
    BY <2>3 DEF Turn
  <2>4. CASE i \in leftover
    BY <2>4
  <2> QED BY <2>1, <2>2, <2>3, <2>4
<1> QED BY <1>1, <1>2

\* No engine appears, and this handler does not build one.
LEMMA BuiltOn ==
    ASSUME IInv, NEW h \in Handlers, Turn(h), engine = Nobody => engine' = Nobody, UNCHANGED <<engines, bereft>>,
           task'[h].pc \notin Building, task'[h].pc \notin {"patch", "zone"}
    PROVE  Built'
BY DEF IInv, Built, Building, Turn

\* Whoever was to stop the engine still is.
LEMMA WaitsOn ==
    ASSUME NEW h \in Handlers, Turn(h), ~At(h, "stop"), Waiting
    PROVE  Waiting'
BY DEF Waiting, Turn
LEMMA EditedOn ==
    ASSUME IInv, NEW h \in Handlers, Turn(h), ~At(h, "stop"), task'[h].pc # "tell", UNCHANGED <<engine, bereft>>,
           Credited(zones') => zones' = zones
    PROVE  Edited'
<1>1. Waiting => Waiting'
  BY WaitsOn
<1>2. engine # Nobody => EditedOf(engine)'
  BY <1>1 DEF IInv, Edited, EditedOf, Shaped
<1>3. \A g \in Handlers : At(g, "tell")' => Shaped(zones)'
  BY <1>1 DEF IInv, Edited, Shaped, Turn
<1> QED BY <1>2, <1>3 DEF Edited

\* The rows stay, or the scene goes on and its zones are not trusted.
Softened ==
    /\ scene' = Nobody <=> scene = Nobody
    /\ scene # Nobody => /\ scene' \in Scenes /\ scene'.snap = scene.snap /\ scene'.session = scene.session
                         /\ Pending(scene) => Pending(scene')
    /\ zones' \in Zones \cup {Nobody}
    /\ Credited(zones') => zones' = zones /\ scene' = scene
LEMMA FadesSoftens ==
    ASSUME TypeOK, UNCHANGED <<scene, zones>> \/ (Fades("needs_review") /\ ~Pending(scene)) \/ Fades("pending_delete")
    PROVE  Softened
<1>1. CASE UNCHANGED <<scene, zones>>
  BY <1>1, RecordTypes DEF Softened, TypeOK
<1>2. CASE (Fades("needs_review") /\ ~Pending(scene)) \/ Fades("pending_delete")
  BY <1>2, SceneConstants DEF Fades, Softened, Pending
<1> QED BY <1>1, <1>2


-----------------------------------------------------------------------------
(* The steps of the handlers.                                              *)

\* A route begins with what it finds.
LEMMA BeginStep == ASSUME IInv, NEW h \in Handlers, NEW op \in Operations, Begin(h, op) PROVE IInv'
<1>0. /\ IInv /\ TypeOK
      /\ At(h, "idle") /\ requests < MaxRequests /\ camera # Nobody /\ requests' = requests + 1
      /\ UNCHANGED <<camera, scene, zones, images, engine, runtime, lock, snaps, sessions, engines, crashes, leftover, overtaken, bereft>>
  BY DEF IInv, Begin
<1>1. /\ FirstStep(op) \in Routes \cup {"editing"} /\ (FirstStep(op) = "editing" => op = "save") /\ FirstStep(op) # "save"
      /\ FirstStep(op) = "zone" => op = "zone"
  BY SceneConstants DEF FirstStep, Routes
<1>2. /\ Turn(h) /\ task'[h].pc = FirstStep(op) /\ task'[h].engine = RunningId
      /\ task'[h].seen = (IF op = "save" THEN scene ELSE Nobody) /\ task'[h].image = 0
      /\ RunningId <= engines /\ task'[h].camera = camera /\ task'[h].op = op
  <2>1. /\ op \in Routes \cup {"none"} /\ FirstStep(op) \in Steps /\ camera \in Nat
        /\ (IF engine = Nobody THEN 0 ELSE engine.capture) \in Nat
        /\ (IF op = "save" THEN scene ELSE Nobody) \in Scenes \cup {Nobody}
    BY <1>0, <1>1, RecordTypes, SceneConstants DEF Steps, TypeOK
  <2>2. RunningId \in Nat /\ RunningId <= engines
    BY <1>0, Numbers DEF RunningId, IInv, Numbered
  <2> DEFINE r == [op |-> op, pc |-> FirstStep(op), camera |-> camera, engine |-> RunningId,
                  session |-> IF engine = Nobody THEN 0 ELSE engine.capture,
                  seen |-> IF op = "save" THEN scene ELSE Nobody, image |-> 0, zones |-> Nobody]
  <2>3. r \in Tasks
    BY <2>1, <2>2 DEF Tasks
  <2>4. /\ r.pc = FirstStep(op) /\ r.engine = RunningId /\ r.image = 0
        /\ r.seen = (IF op = "save" THEN scene ELSE Nobody) /\ r.camera = camera /\ r.op = op
    OBVIOUS
  <2>5. task' = [task EXCEPT ![h] = r]
    BY DEF Begin
  <2> HIDE DEF r
  <2>6. Turn(h) /\ task'[h] = r
    BY <1>0, <2>3, <2>5 DEF TypeOK, Turn
  <2> QED BY <2>2, <2>4, <2>6
<1>3. (op = "save" => scene # Nobody) /\ (task'[h].seen # Nobody => task'[h].seen = scene)
  BY <1>2 DEF Begin
<1>4. TypeOK'
  BY <1>0, <1>1, <1>2, <1>3, SceneConstants DEF TypeOK, Turn
<1>5. Held'
  BY <1>0, <1>1, <1>2, <1>3, SceneConstants DEF IInv, Held, Routes, Turn
<1>6. Numbered'
  BY <1>0, <1>1, <1>2, <1>3, Numbers, SceneConstants DEF IInv, Numbered, Turn
<1>7. Newest'
  BY <1>0, <1>1, <1>2, <1>3, Numbers, SceneConstants DEF IInv, Newest, Numbered, Routes, Turn
<1>8. Placed'
  BY <1>0, <1>1, <1>2, <1>3, Numbers, SceneConstants DEF IInv, Placed, Routes, Turn
<1>9. Here'
  BY <1>0, <1>1, <1>2, <1>3 DEF IInv, Here, HereOf, Routes, Turn
<1>10. Session'
  BY <1>0, <1>1, <1>2, <1>3, Numbers DEF IInv, Session, Routes, Turn
<1>11. Checked'
  BY <1>0, <1>1, <1>2, <1>3, Numbers DEF IInv, Checked, Routes, Turn
<1>12. ZonesFollowScene'
  BY <1>0, <1>1, <1>2, <1>3 DEF IInv, ZonesFollowScene, Turn
<1>13. KeyframeKept'
  BY <1>0, <1>1, <1>2, <1>3, Numbers DEF IInv, KeyframeKept, Turn
<1>14. Accounted'
  BY <1>0, <1>1, <1>2, <1>3, Numbers, AccountedOn DEF IInv, Accounted, Placed, Turn
<1>15. Built'
  BY <1>0, <1>1, <1>2 DEF IInv, Built, Building, Routes, Turn
<1>16. Edited'
  BY <1>0, <1>1, <1>2, EditedOn DEF Routes
<1> QED BY <1>4, <1>5, <1>6, <1>7, <1>8, <1>9, <1>10, <1>11, <1>12, <1>13, <1>14, <1>15, <1>16 DEF IInv

\* A proposal writes its keyframe under both locks, or is refused.
LEMMA ProposeStep == ASSUME IInv, NEW h \in Handlers, Propose(h) PROVE IInv'
<1>0. /\ IInv /\ TypeOK
      /\ At(h, "propose") /\ runtime = Nobody /\ lock = Nobody
      /\ UNCHANGED <<camera, scene, zones, engine, sessions, engines, requests, crashes, leftover, overtaken, bereft>>
  BY DEF IInv, Propose
<1>1. CASE /\ ProposalFits(h) /\ runtime' = h /\ lock' = h
           /\ snaps' = snaps + 1 /\ images' = images \cup {snaps + 1}
           /\ Take(h, "persist", snaps + 1)
  <2>1. /\ Turn(h) /\ task'[h].pc = "persist" /\ task'[h].image = snaps + 1
       /\ task'[h].engine = task[h].engine /\ task'[h].seen = task[h].seen
    <3>1. snaps + 1 \in Nat /\ "persist" \in Steps
      BY <1>0, Numbers DEF Steps
    <3> QED BY <1>0, <1>1, <3>1, Takes
  <2>2. TypeOK'
    BY <1>0, <1>1, <2>1, SceneConstants DEF TypeOK, Turn
  <2>3. Held'
    BY <1>0, <1>1, <2>1, SceneConstants DEF IInv, Held, Turn
  <2>4. Numbered'
    BY <1>0, <1>1, <2>1, Numbers, SceneConstants DEF IInv, Numbered, Turn
  <2>5. Newest'
    BY <1>0, <1>1, <2>1, Numbers, SceneConstants DEF IInv, Newest, Numbered, Held, Turn
  <2>6. Placed'
    BY <1>0, <1>1, <2>1, Numbers, SceneConstants DEF IInv, Placed, ProposalFits, SameSource, RunningId, Pending, Turn
  <2>7. Here'
    BY <1>0, <1>1, <2>1 DEF IInv, Here, HereOf, Turn
  <2>8. Session'
    BY <1>0, <1>1, <2>1, Numbers DEF IInv, Session, Turn
  <2>9. Checked'
    BY <1>0, <1>1, <2>1, Numbers DEF IInv, Checked, Turn
  <2>10. ZonesFollowScene'
    BY <1>0, <1>1, <2>1 DEF IInv, ZonesFollowScene, Turn
  <2>11. KeyframeKept'
    BY <1>0, <1>1, <2>1, Numbers DEF IInv, KeyframeKept, Turn
  <2>12. Accounted'
    <3>1. task[h].image = 0 /\ \A i \in images : i # 0
      BY <1>0 DEF IInv, Placed, TypeOK
    <3> QED BY <1>0, <1>1, <2>1, <3>1, AccountedOn
  <2>13. Built'
    BY <1>0, <1>1, <2>1, BuiltOn DEF Building
  <2>14. Edited'
    BY <1>0, <1>1, <2>1, EditedOn
  <2> QED BY <2>2, <2>3, <2>4, <2>5, <2>6, <2>7, <2>8, <2>9, <2>10, <2>11, <2>12, <2>13, <2>14 DEF IInv
<1>2. CASE ~ProposalFits(h) /\ Return(h) /\ UNCHANGED <<runtime, lock, snaps, images>>
  <2>1. Ends(h)
    BY <1>0, <1>2, Returns
  <2>2. TypeOK'
    BY <1>0, <1>2, <2>1, SceneConstants DEF TypeOK, Turn, Ends
  <2>3. Held'
    BY <1>0, <1>2, <2>1, SceneConstants DEF IInv, Held, Turn, Ends
  <2>4. Numbered'
    BY <1>0, <1>2, <2>1, Numbers, SceneConstants DEF IInv, Numbered, Turn, Ends
  <2>5. Newest'
    BY <1>0, <1>2, <2>1, Numbers, SceneConstants DEF IInv, Newest, Turn, Ends
  <2>6. Placed'
    BY <1>0, <1>2, <2>1, Numbers, SceneConstants DEF IInv, Placed, Turn, Ends
  <2>7. Here'
    BY <1>0, <1>2, <2>1 DEF IInv, Here, HereOf, Turn, Ends
  <2>8. Session'
    BY <1>0, <1>2, <2>1, Numbers DEF IInv, Session, Turn, Ends
  <2>9. Checked'
    BY <1>0, <1>2, <2>1, Numbers DEF IInv, Checked, Turn, Ends
  <2>10. ZonesFollowScene'
    BY <1>0, <1>2, <2>1 DEF IInv, ZonesFollowScene, Turn, Ends
  <2>11. KeyframeKept'
    BY <1>0, <1>2, <2>1, Numbers DEF IInv, KeyframeKept, Turn, Ends
  <2>12. Accounted'
    BY <1>0, <1>2, <2>1, Numbers, AccountedOn DEF IInv, Accounted, Placed, Turn, Ends
  <2>13. Built'
    BY <1>0, <1>2, <2>1, BuiltOn DEF Ends, Building
  <2>14. Edited'
    BY <1>0, <1>2, <2>1, EditedOn DEF Ends
  <2> QED BY <2>2, <2>3, <2>4, <2>5, <2>6, <2>7, <2>8, <2>9, <2>10, <2>11, <2>12, <2>13, <2>14 DEF IInv
<1> QED BY <1>0, <1>1, <1>2 DEF Propose

\* The row of the scene takes the new keyframe.
LEMMA PersistStep == ASSUME IInv, NEW h \in Handlers, Persist(h) PROVE IInv'
<1>0. /\ IInv /\ TypeOK
      /\ At(h, "persist") /\ camera # Nobody
      /\ UNCHANGED <<camera, images, engine, runtime, lock, snaps, sessions, engines, requests, crashes, leftover, overtaken, bereft>>
  BY DEF IInv, Persist
<1>1. /\ scene' \in Scenes /\ scene'.snap = task[h].image /\ scene'.status = "needs_confirmation"
  BY <1>0, TaskTypes, RecordTypes DEF Persist, Scenes, Statuses
<1>2. zones' \in Zones \cup {Nobody} /\ ~Credited(zones')
  BY <1>0, UnconfirmedIs DEF Persist, TypeOK
<1>3. /\ Turn(h) /\ task'[h].pc = "retire" /\ task'[h].engine = task[h].engine
      /\ task'[h].image = (IF scene = Nobody THEN 0 ELSE scene.snap) /\ task'[h].seen = task[h].seen
  <2>1. (IF scene = Nobody THEN 0 ELSE scene.snap) \in Nat /\ "retire" \in Steps
    BY <1>0, Numbers DEF Steps
  <2> QED BY <1>0, <2>1, Takes DEF Persist
<1>4. task'[h].image # scene'.snap
  <2>1. snaps \in images /\ task[h].image = snaps /\ (scene # Nobody => scene.snap < snaps)
    BY <1>0 DEF IInv, Newest
  <2>2. snaps # 0
    BY <1>0, <2>1 DEF TypeOK
  <2> QED BY <1>0, <1>1, <1>3, <2>1, <2>2, Numbers
<1>5. scene' # Nobody
  BY <1>1, SceneConstants
<1>6. TypeOK'
  BY <1>0, <1>1, <1>2, <1>3, <1>4, <1>5, SceneConstants DEF TypeOK, Turn
<1>7. Held'
  BY <1>0, <1>1, <1>2, <1>3, <1>4, <1>5, SceneConstants DEF IInv, Held, Turn
<1>8. Numbered'
  BY <1>0, <1>1, <1>2, <1>3, <1>4, <1>5, Numbers, SceneConstants DEF IInv, Numbered, Newest, Turn
<1>9. Newest'
  BY <1>0, <1>1, <1>2, <1>3, <1>4, <1>5, Numbers, SceneConstants DEF IInv, Newest, Held, Turn
<1>10. Placed'
  BY <1>0, <1>1, <1>2, <1>3, <1>4, <1>5, Numbers, SceneConstants DEF IInv, Placed, Held, Newest, Pending, Turn
<1>11. Here'
  BY <1>0, <1>1, <1>2, <1>3, <1>4, <1>5 DEF IInv, Here, HereOf, Turn
<1>12. Session'
  BY <1>0, <1>1, <1>2, <1>3, <1>4, <1>5, Numbers DEF IInv, Session, Turn
<1>13. Checked'
  <2>1. \A g \in Handlers : At(g, "checked") => task[g].seen.snap < task[h].image
    BY <1>0 DEF IInv, Newest, Placed
  <2>2. \A g \in Handlers : At(g, "checked")' => g # h /\ task'[g] = task[g] /\ scene'.snap # task[g].seen.snap
    BY <1>0, <1>1, <1>3, <2>1, Numbers DEF Turn, IInv, Placed
  <2> QED BY <2>2 DEF Checked
<1>14. ZonesFollowScene'
  BY <1>0, <1>1, <1>2, <1>3, <1>4, <1>5 DEF IInv, ZonesFollowScene, Turn
<1>15. KeyframeKept'
  BY <1>0, <1>1, <1>2, <1>3, <1>4, <1>5, Numbers DEF IInv, KeyframeKept, Newest, Turn
<1>16. Accounted'
  BY <1>0, <1>1, <1>2, <1>3, <1>4, <1>5, Numbers, AccountedOn DEF IInv, Accounted, Placed, Turn
<1>17. Built'
  BY <1>0, <1>1, <1>2, <1>3, <1>4, <1>5, BuiltOn DEF Building
<1>18. Edited'
  BY <1>0, <1>1, <1>2, <1>3, <1>4, <1>5, EditedOn
<1> QED BY <1>6, <1>7, <1>8, <1>9, <1>10, <1>11, <1>12, <1>13, <1>14, <1>15, <1>16, <1>17, <1>18 DEF IInv

\* Or the write fails, and the new keyframe is deleted.
LEMMA PersistFailsStep == ASSUME IInv, NEW h \in Handlers, PersistFails(h) PROVE IInv'
<1>0. /\ IInv /\ TypeOK
      /\ At(h, "persist")
      /\ images' \subseteq images /\ leftover \subseteq leftover' /\ images \ {task[h].image} \subseteq images'
      /\ task[h].image \in images' => task[h].image \in leftover'
      /\ leftover' \subseteq leftover \cup {task[h].image}
      /\ runtime' = Nobody /\ lock' = Nobody
      /\ UNCHANGED <<camera, scene, zones, engine, snaps, sessions, engines, requests, crashes, overtaken, bereft>>
  BY DEF IInv, PersistFails, Discard
<1>1. Ends(h)
  BY <1>0, Returns DEF PersistFails
<1>2. TypeOK'
  BY <1>0, TaskTypes, <1>1, SceneConstants DEF TypeOK, Turn, Ends
<1>3. Held'
  BY <1>0, <1>1, SceneConstants DEF IInv, Held, Turn, Ends
<1>4. Numbered'
  BY <1>0, <1>1, Numbers, SceneConstants DEF IInv, Numbered, Turn, Ends
<1>5. Newest'
  BY <1>0, <1>1, Numbers, SceneConstants DEF IInv, Newest, Held, Turn, Ends
<1>6. Placed'
  BY <1>0, <1>1, Numbers, SceneConstants DEF IInv, Placed, Turn, Ends
<1>7. Here'
  BY <1>0, <1>1 DEF IInv, Here, HereOf, Turn, Ends
<1>8. Session'
  BY <1>0, <1>1, Numbers DEF IInv, Session, Turn, Ends
<1>9. Checked'
  BY <1>0, <1>1, Numbers DEF IInv, Checked, Turn, Ends
<1>10. ZonesFollowScene'
  BY <1>0, <1>1 DEF IInv, ZonesFollowScene, Turn, Ends
<1>11. KeyframeKept'
  BY <1>0, <1>1, Numbers DEF IInv, KeyframeKept, Newest, Turn, Ends
<1>12. Accounted'
  BY <1>0, <1>1, Numbers, AccountedOn DEF IInv, Accounted, Placed, Turn, Ends
<1>13. Built'
  BY <1>0, <1>1, BuiltOn DEF Ends, Building
<1>14. Edited'
  BY <1>0, <1>1, EditedOn DEF Ends
<1> QED BY <1>2, <1>3, <1>4, <1>5, <1>6, <1>7, <1>8, <1>9, <1>10, <1>11, <1>12, <1>13, <1>14 DEF IInv

\* The old keyframe is deleted, and the engine is told.
LEMMA RetireStep == ASSUME IInv, NEW h \in Handlers, Retire(h) PROVE IInv'
<1>0. /\ IInv /\ TypeOK
      /\ At(h, "retire")
      /\ images' \subseteq images /\ leftover \subseteq leftover' /\ images \ {task[h].image} \subseteq images'
      /\ task[h].image \in images' => task[h].image \in leftover'
      /\ leftover' \subseteq leftover \cup {task[h].image}
      /\ runtime' = Nobody /\ lock' = Nobody
      /\ UNCHANGED <<camera, scene, zones, snaps, sessions, engines, requests, crashes, overtaken, bereft>>
  BY DEF IInv, Retire, Discard
<1>1. Ends(h)
  BY <1>0, Returns DEF Retire
<1>2. /\ engine # Nobody /\ engine' \in Engines /\ engine'.id = engine.id
      /\ engine'.capture = engine.capture /\ engine'.active = engine.active
      /\ engine'.review = engine.review /\ engine'.zones = engine.zones
      /\ engine'.pending # Nobody /\ engine'.pending.zones = zones /\ engine'.pending.confirmed = FALSE
  <2>1. engine # Nobody /\ engine \in Engines /\ zones \in Zones \cup {Nobody}
    BY <1>0, RecordTypes DEF IInv, Placed, TypeOK
  <2>2. [zones |-> zones, confirmed |-> FALSE] \in Updates
    BY <2>1 DEF Updates
  <2> QED BY <2>1, <2>2, SceneConstants DEF Retire, Told, Engines
<1>3. TypeOK'
  BY <1>0, TaskTypes, <1>1, <1>2, SceneConstants DEF TypeOK, Turn, Ends
<1>4. Held'
  BY <1>0, <1>1, <1>2, SceneConstants DEF IInv, Held, Turn, Ends
<1>5. Numbered'
  BY <1>0, <1>1, <1>2, Numbers, SceneConstants DEF IInv, Numbered, Turn, Ends
<1>6. Newest'
  BY <1>0, <1>1, <1>2, Numbers, SceneConstants DEF IInv, Newest, Held, Turn, Ends
<1>7. Placed'
  BY <1>0, <1>1, <1>2, Numbers, SceneConstants DEF IInv, Placed, Turn, Ends
<1>8. Here'
  BY <1>0, <1>1, <1>2 DEF IInv, Here, HereOf, Turn, Ends
<1>9. Session'
  BY <1>0, <1>1, <1>2, Numbers DEF IInv, Session, SessionOf, Settled, Turn, Ends
<1>10. Checked'
  BY <1>0, <1>1, <1>2, Numbers DEF IInv, Checked, Turn, Ends
<1>11. ZonesFollowScene'
  BY <1>0, <1>1, <1>2 DEF IInv, ZonesFollowScene, Turn, Ends
<1>12. KeyframeKept'
  BY <1>0, <1>1, <1>2, Numbers DEF IInv, KeyframeKept, Placed, Turn, Ends
<1>13. Accounted'
  BY <1>0, <1>1, <1>2, Numbers, AccountedOn DEF IInv, Accounted, Placed, Turn, Ends
<1>14. Built'
  BY <1>0, <1>1, <1>2, BuiltOn DEF Ends, Building
<1>15. Edited'
  <2>1. Waiting => Waiting'
    BY <1>0, <1>1, WaitsOn DEF Ends
  <2>2. EditedOf(engine)
    BY <1>2 DEF IInv, Edited
  <2>3. EditedOf(engine)'
    BY <1>0, <1>2, <2>1, <2>2 DEF EditedOf, Shaped
  <2> QED BY <1>0, <1>1, <2>1, <2>3 DEF IInv, Edited, Shaped, Ends, Turn
<1> QED BY <1>3, <1>4, <1>5, <1>6, <1>7, <1>8, <1>9, <1>10, <1>11, <1>12, <1>13, <1>14, <1>15 DEF IInv

\* The engine is told of a save.
LEMMA TellStep == ASSUME IInv, NEW h \in Handlers, Tell(h) PROVE IInv'
<1>0. /\ IInv /\ TypeOK
      /\ At(h, "tell")
      /\ runtime' = Nobody
      /\ UNCHANGED <<camera, scene, zones, images, lock, snaps, sessions, engines, requests, crashes, leftover, overtaken, bereft>>
  BY DEF IInv, Tell
<1>1. Ends(h)
  BY <1>0, Returns DEF Tell
<1>2. /\ engine # Nobody /\ engine' \in Engines /\ engine'.id = engine.id
      /\ engine'.capture = engine.capture /\ engine'.active = engine.active
      /\ engine'.review = engine.review /\ engine'.zones = engine.zones
      /\ engine'.pending # Nobody /\ engine'.pending.zones = zones /\ engine'.pending.confirmed = TRUE
  <2>1. engine # Nobody /\ engine \in Engines /\ zones \in Zones \cup {Nobody}
    BY <1>0, RecordTypes DEF IInv, Placed, TypeOK
  <2>2. [zones |-> zones, confirmed |-> TRUE] \in Updates
    BY <2>1 DEF Updates
  <2> QED BY <2>1, <2>2, SceneConstants DEF Tell, Told, Engines
<1>3. TypeOK'
  BY <1>0, <1>1, <1>2, SceneConstants DEF TypeOK, Turn, Ends
<1>4. Held'
  BY <1>0, <1>1, <1>2, SceneConstants DEF IInv, Held, Turn, Ends
<1>5. Numbered'
  BY <1>0, <1>1, <1>2, Numbers, SceneConstants DEF IInv, Numbered, Turn, Ends
<1>6. Newest'
  BY <1>0, <1>1, <1>2, Numbers, SceneConstants DEF IInv, Newest, Turn, Ends
<1>7. Placed'
  BY <1>0, <1>1, <1>2, Numbers, SceneConstants DEF IInv, Placed, Turn, Ends
<1>8. Here'
  BY <1>0, <1>1, <1>2 DEF IInv, Here, HereOf, Turn, Ends
<1>9. Session'
  BY <1>0, <1>1, <1>2, Numbers DEF IInv, Session, SessionOf, Settled, Turn, Ends
<1>10. Checked'
  BY <1>0, <1>1, <1>2, Numbers DEF IInv, Checked, Turn, Ends
<1>11. ZonesFollowScene'
  BY <1>0, <1>1, <1>2 DEF IInv, ZonesFollowScene, Turn, Ends
<1>12. KeyframeKept'
  BY <1>0, <1>1, <1>2, Numbers DEF IInv, KeyframeKept, Turn, Ends
<1>13. Accounted'
  BY <1>0, <1>1, <1>2, Numbers, AccountedOn DEF IInv, Accounted, Placed, Turn, Ends
<1>14. Built'
  BY <1>0, <1>1, <1>2, BuiltOn DEF Ends, Building
<1>15. Edited'
  <2>1. Waiting => Waiting'
    BY <1>0, <1>1, WaitsOn DEF Ends
  <2>2. EditedOf(engine) /\ Shaped(zones)
    BY <1>0, <1>2 DEF IInv, Edited
  <2>3. EditedOf(engine)'
    BY <1>0, <1>2, <2>1, <2>2 DEF EditedOf, Shaped
  <2> QED BY <1>0, <1>1, <2>1, <2>3 DEF IInv, Edited, Shaped, Ends, Turn
<1> QED BY <1>3, <1>4, <1>5, <1>6, <1>7, <1>8, <1>9, <1>10, <1>11, <1>12, <1>13, <1>14, <1>15 DEF IInv

\* A save finds that the picture shown is one of its scene, withdraws the scene, or gives up.
LEMMA CheckSaveStep == ASSUME IInv, NEW h \in Handlers, CheckSave(h) PROVE IInv'
<1>0. /\ IInv /\ TypeOK
      /\ At(h, "editing")
      /\ UNCHANGED <<camera, images, engine, runtime, lock, snaps, sessions, engines, requests, crashes, leftover, overtaken, bereft>>
  BY DEF IInv, CheckSave
<1>1. CASE /\ engine # Nobody /\ camera # Nobody /\ scene # Nobody /\ engine.capture = scene.session
           /\ task' = [task EXCEPT ![h] = [@ EXCEPT !.pc = "checked", !.camera = camera, !.engine = engine.id,
                                                  !.session = engine.capture]]
           /\ UNCHANGED <<scene, zones>>
  <2>1. /\ Turn(h) /\ task'[h].pc = "checked" /\ task'[h].engine = engine.id
       /\ task'[h].session = engine.capture /\ task'[h].image = task[h].image /\ task'[h].seen = task[h].seen
    <3>1. task \in [Handlers -> Tasks] /\ task[h] \in Tasks /\ "checked" \in Steps
      BY <1>0 DEF TypeOK, Steps
    <3>2. engine.id \in Nat /\ engine.capture \in Nat /\ camera \in Nat
      BY <1>0, <1>1, RecordTypes
    <3>3. [task[h] EXCEPT !.pc = "checked", !.camera = camera, !.engine = engine.id, !.session = engine.capture] \in Tasks
      BY <3>1, <3>2 DEF Tasks
    <3>4. /\ Turn(h)
          /\ task'[h] = [task[h] EXCEPT !.pc = "checked", !.camera = camera, !.engine = engine.id, !.session = engine.capture]
      BY <1>1, <3>1, <3>3 DEF Turn
    <3> QED BY <3>1, <3>4 DEF Tasks
  <2>2. TypeOK'
    BY <1>0, <1>1, <2>1, SceneConstants DEF TypeOK, Turn
  <2>3. Held'
    BY <1>0, <1>1, <2>1, SceneConstants DEF IInv, Held, Turn
  <2>4. Numbered'
    BY <1>0, <1>1, <2>1, Numbers, SceneConstants DEF IInv, Numbered, Turn
  <2>5. Newest'
    BY <1>0, <1>1, <2>1, Numbers, SceneConstants DEF IInv, Newest, Turn
  <2>6. Placed'
    BY <1>0, <1>1, <2>1, Numbers, SceneConstants DEF IInv, Placed, Turn
  <2>7. Here'
    BY <1>0, <1>1, <2>1 DEF IInv, Here, HereOf, Turn
  <2>8. Session'
    BY <1>0, <1>1, <2>1, Numbers DEF IInv, Session, Settled, Turn
  <2>9. Checked'
    BY <1>0, <1>1, <2>1, Numbers DEF IInv, Checked, Turn
  <2>10. ZonesFollowScene'
    BY <1>0, <1>1, <2>1 DEF IInv, ZonesFollowScene, Turn
  <2>11. KeyframeKept'
    BY <1>0, <1>1, <2>1, Numbers DEF IInv, KeyframeKept, Turn
  <2>12. Accounted'
    BY <1>0, <1>1, <2>1, Numbers, AccountedOn DEF IInv, Accounted, Placed, Turn
  <2>13. Built'
    BY <1>0, <1>1, <2>1, BuiltOn DEF Building
  <2>14. Edited'
    BY <1>0, <1>1, <2>1, EditedOn
  <2> QED BY <2>2, <2>3, <2>4, <2>5, <2>6, <2>7, <2>8, <2>9, <2>10, <2>11, <2>12, <2>13, <2>14 DEF IInv
<1>2. CASE Invalidate /\ Return(h)
  <2>1. Ends(h)
    BY <1>0, <1>2, Returns
  <2>2. lock = Nobody /\ Softened
    BY <1>0, <1>2, InvalidateFades, FadesSoftens
  <2>3. TypeOK'
    BY <1>0, <1>2, <2>1, <2>2, SceneConstants DEF TypeOK, Turn, Ends, Softened
  <2>4. Held'
    BY <1>0, <1>2, <2>1, <2>2, SceneConstants DEF IInv, Held, Turn, Ends, Softened
  <2>5. Numbered'
    BY <1>0, <1>2, <2>1, <2>2, Numbers, SceneConstants DEF IInv, Numbered, Turn, Ends, Softened
  <2>6. Newest'
    BY <1>0, <1>2, <2>1, <2>2, Numbers, SceneConstants DEF IInv, Newest, Held, Turn, Ends, Softened
  <2>7. Placed'
    BY <1>0, <1>2, <2>1, <2>2, Numbers, SceneConstants DEF IInv, Placed, Held, Turn, Ends, Softened
  <2>8. Here'
    BY <1>0, <1>2, <2>1, <2>2 DEF IInv, Here, HereOf, Turn, Ends, Softened
  <2>9. Session'
    BY <1>0, <1>2, <2>1, <2>2, Numbers DEF IInv, Session, Turn, Ends, Softened
  <2>10. Checked'
    BY <1>0, <1>2, <2>1, <2>2, Numbers DEF IInv, Checked, Turn, Ends, Softened
  <2>11. ZonesFollowScene'
    BY <1>0, <1>2, <2>1, <2>2 DEF IInv, ZonesFollowScene, Turn, Ends, Softened
  <2>12. KeyframeKept'
    BY <1>0, <1>2, <2>1, <2>2, Numbers DEF IInv, KeyframeKept, Pending, Turn, Ends, Softened
  <2>13. Accounted'
    BY <1>0, <1>2, <2>1, <2>2, Numbers, AccountedOn DEF IInv, Accounted, Placed, Turn, Ends, Softened
  <2>14. Built'
    BY <1>0, <1>2, <2>1, <2>2, BuiltOn DEF Ends, Softened, Building
  <2>15. Edited'
    BY <1>0, <1>2, <2>1, <2>2, EditedOn DEF Ends, Softened
  <2> QED BY <2>3, <2>4, <2>5, <2>6, <2>7, <2>8, <2>9, <2>10, <2>11, <2>12, <2>13, <2>14, <2>15 DEF IInv
<1>3. CASE Return(h) /\ UNCHANGED <<scene, zones>>
  <2>1. Ends(h)
    BY <1>0, <1>3, Returns
  <2>2. TypeOK'
    BY <1>0, <1>3, <2>1, SceneConstants DEF TypeOK, Turn, Ends
  <2>3. Held'
    BY <1>0, <1>3, <2>1, SceneConstants DEF IInv, Held, Turn, Ends
  <2>4. Numbered'
    BY <1>0, <1>3, <2>1, Numbers, SceneConstants DEF IInv, Numbered, Turn, Ends
  <2>5. Newest'
    BY <1>0, <1>3, <2>1, Numbers, SceneConstants DEF IInv, Newest, Turn, Ends
  <2>6. Placed'
    BY <1>0, <1>3, <2>1, Numbers, SceneConstants DEF IInv, Placed, Turn, Ends
  <2>7. Here'
    BY <1>0, <1>3, <2>1 DEF IInv, Here, HereOf, Turn, Ends
  <2>8. Session'
    BY <1>0, <1>3, <2>1, Numbers DEF IInv, Session, Turn, Ends
  <2>9. Checked'
    BY <1>0, <1>3, <2>1, Numbers DEF IInv, Checked, Turn, Ends
  <2>10. ZonesFollowScene'
    BY <1>0, <1>3, <2>1 DEF IInv, ZonesFollowScene, Turn, Ends
  <2>11. KeyframeKept'
    BY <1>0, <1>3, <2>1, Numbers DEF IInv, KeyframeKept, Turn, Ends
  <2>12. Accounted'
    BY <1>0, <1>3, <2>1, Numbers, AccountedOn DEF IInv, Accounted, Placed, Turn, Ends
  <2>13. Built'
    BY <1>0, <1>3, <2>1, BuiltOn DEF Ends, Building
  <2>14. Edited'
    BY <1>0, <1>3, <2>1, EditedOn DEF Ends
  <2> QED BY <2>2, <2>3, <2>4, <2>5, <2>6, <2>7, <2>8, <2>9, <2>10, <2>11, <2>12, <2>13, <2>14 DEF IInv
<1> QED BY <1>0, <1>1, <1>2, <1>3 DEF CheckSave

\* The save is made, if nothing has changed since its check.
LEMMA SaveStep == ASSUME IInv, NEW h \in Handlers, Save(h) PROVE IInv'
<1>0. /\ IInv /\ TypeOK
      /\ At(h, "checked") /\ runtime = Nobody /\ lock = Nobody
      /\ UNCHANGED <<camera, images, engine, lock, snaps, sessions, engines, requests, crashes, leftover, overtaken, bereft>>
  BY DEF IInv, Save
<1>1. CASE /\ EditFits(h) /\ scene' = Changed(scene, scene.sig, "confirmed")
           /\ zones' = [version |-> scene.version + 1, snap |-> task[h].seen.snap, session |-> scene.session,
                       engine |-> task[h].engine, confirmed |-> TRUE, edited |-> FALSE]
           /\ runtime' = h /\ Move(h, "tell")
  <2>1. Goes(h, "tell")
    BY <1>0, <1>1, Moves DEF Steps, Routes
  <2>2. /\ scene # Nobody /\ scene \in Scenes /\ scene.version \in Nat /\ scene.sig \in Nat /\ "confirmed" \in Statuses
       /\ task[h].engine \in Nat
    BY <1>0, <1>1, RecordTypes, TaskTypes DEF EditFits, Statuses
  <2>3. /\ scene' \in Scenes /\ scene'.snap = scene.snap /\ scene'.session = scene.session
       /\ scene'.version = scene.version + 1 /\ scene'.status = "confirmed" /\ scene' # Nobody
    <3> DEFINE c == Changed(scene, scene.sig, "confirmed")
    <3>1. scene' = c
      BY <1>1
    <3>2. /\ c \in Scenes /\ c.status = "confirmed" /\ c.snap = scene.snap /\ c.session = scene.session
         /\ c.version = scene.version + 1
      BY <2>2, ChangedIs
    <3>3. c # Nobody
      BY <3>2, SceneConstants
    <3> HIDE DEF c
    <3> QED BY <3>1, <3>2, <3>3
  <2>4. engine # Nobody /\ task[h].engine = engine.id /\ scene.snap = task[h].seen.snap /\ ~Pending(scene')
       /\ scene.snap \in images /\ runtime' = h
    BY <1>0, <1>1, <2>3, SceneConstants DEF EditFits, SameSource, RunningId, Pending
  <2>5. /\ zones' \in Zones /\ zones'.version = scene'.version /\ zones'.snap = scene'.snap
       /\ zones'.session = scene.session /\ zones'.engine = engine.id /\ ~zones'.edited
    <3>1. scene.version + 1 \in Nat /\ scene.snap \in Nat /\ scene.session \in Nat
      BY <2>2 DEF Scenes
    <3> QED BY <1>1, <2>2, <2>3, <2>4, <3>1 DEF Zones
  <2>6. TypeOK'
    BY <1>0, <2>1, <2>2, <2>3, <2>4, <2>5, SceneConstants DEF TypeOK, Turn, Goes
  <2>7. Held'
    BY <1>0, <2>1, <2>2, <2>3, <2>4, <2>5, SceneConstants DEF IInv, Held, Turn, Goes
  <2>8. Numbered'
    BY <1>0, <2>1, <2>2, <2>3, <2>4, <2>5, Numbers, SceneConstants DEF IInv, Numbered, Turn, Goes
  <2>9. Newest'
    BY <1>0, <2>1, <2>2, <2>3, <2>4, <2>5, Numbers, SceneConstants DEF IInv, Newest, Held, Turn, Goes
  <2>10. Placed'
    BY <1>0, <2>1, <2>2, <2>3, <2>4, <2>5, Numbers, SceneConstants DEF IInv, Placed, Held, Pending, Turn, Goes
  <2>11. Here'
    BY <1>0, <2>1, <2>2, <2>3, <2>4, <2>5 DEF IInv, Here, HereOf, Turn, Goes
  <2>12. Session'
    BY <1>0, <2>1, <2>2, <2>3, <2>4, <2>5, Numbers DEF IInv, Session, Checked, Turn, Goes
  <2>13. Checked'
    BY <1>0, <2>1, <2>2, <2>3, <2>4, <2>5, Numbers DEF IInv, Checked, Turn, Goes
  <2>14. ZonesFollowScene'
    BY <1>0, <2>1, <2>2, <2>3, <2>4, <2>5 DEF IInv, ZonesFollowScene, Turn, Goes
  <2>15. KeyframeKept'
    BY <1>0, <2>1, <2>2, <2>3, <2>4, <2>5, Numbers DEF IInv, KeyframeKept, Turn, Goes
  <2>16. Accounted'
    BY <1>0, <2>1, <2>2, <2>3, <2>4, <2>5, Numbers, AccountedOn DEF IInv, Accounted, Placed, Turn, Goes
  <2>17. Built'
    BY <1>0, <2>1, <2>2, <2>3, <2>4, <2>5, BuiltOn DEF Goes, Building
  <2>18. Edited'
    <3>1. Waiting => Waiting'
      BY <1>0, <2>1, WaitsOn DEF Goes
    <3>2. EditedOf(engine)'
      BY <1>0, <2>4, <3>1 DEF IInv, Edited, EditedOf, Shaped
    <3> QED BY <1>0, <2>5, <3>2 DEF Edited, Shaped
  <2> QED BY <2>6, <2>7, <2>8, <2>9, <2>10, <2>11, <2>12, <2>13, <2>14, <2>15, <2>16, <2>17, <2>18 DEF IInv
<1>2. CASE ~EditFits(h) /\ Return(h) /\ UNCHANGED <<scene, zones, runtime>>
  <2>1. Ends(h)
    BY <1>0, <1>2, Returns
  <2>2. TypeOK'
    BY <1>0, <1>2, <2>1, SceneConstants DEF TypeOK, Turn, Ends
  <2>3. Held'
    BY <1>0, <1>2, <2>1, SceneConstants DEF IInv, Held, Turn, Ends
  <2>4. Numbered'
    BY <1>0, <1>2, <2>1, Numbers, SceneConstants DEF IInv, Numbered, Turn, Ends
  <2>5. Newest'
    BY <1>0, <1>2, <2>1, Numbers, SceneConstants DEF IInv, Newest, Turn, Ends
  <2>6. Placed'
    BY <1>0, <1>2, <2>1, Numbers, SceneConstants DEF IInv, Placed, Turn, Ends
  <2>7. Here'
    BY <1>0, <1>2, <2>1 DEF IInv, Here, HereOf, Turn, Ends
  <2>8. Session'
    BY <1>0, <1>2, <2>1, Numbers DEF IInv, Session, Turn, Ends
  <2>9. Checked'
    BY <1>0, <1>2, <2>1, Numbers DEF IInv, Checked, Turn, Ends
  <2>10. ZonesFollowScene'
    BY <1>0, <1>2, <2>1 DEF IInv, ZonesFollowScene, Turn, Ends
  <2>11. KeyframeKept'
    BY <1>0, <1>2, <2>1, Numbers DEF IInv, KeyframeKept, Turn, Ends
  <2>12. Accounted'
    BY <1>0, <1>2, <2>1, Numbers, AccountedOn DEF IInv, Accounted, Placed, Turn, Ends
  <2>13. Built'
    BY <1>0, <1>2, <2>1, BuiltOn DEF Ends, Building
  <2>14. Edited'
    BY <1>0, <1>2, <2>1, EditedOn DEF Ends
  <2> QED BY <2>2, <2>3, <2>4, <2>5, <2>6, <2>7, <2>8, <2>9, <2>10, <2>11, <2>12, <2>13, <2>14 DEF IInv
<1> QED BY <1>0, <1>1, <1>2 DEF Save

\* A look at a confirmed scene reports the review its engine asks for.
LEMMA LookStep == ASSUME IInv, NEW h \in Handlers, Look(h) PROVE IInv'
<1>0. /\ IInv /\ TypeOK
      /\ At(h, "look")
      /\ UNCHANGED <<camera, scene, zones, images, engine, runtime, lock, snaps, sessions, engines, requests, crashes, leftover, overtaken, bereft>>
  BY DEF IInv, Look
<1>1. CASE Move(h, "withdraw")
  <2>1. Goes(h, "withdraw")
    BY <1>0, <1>1, Moves DEF Steps, Routes
  <2>2. TypeOK'
    BY <1>0, <1>1, <2>1, SceneConstants DEF TypeOK, Turn, Goes
  <2>3. Held'
    BY <1>0, <1>1, <2>1, SceneConstants DEF IInv, Held, Turn, Goes
  <2>4. Numbered'
    BY <1>0, <1>1, <2>1, Numbers, SceneConstants DEF IInv, Numbered, Turn, Goes
  <2>5. Newest'
    BY <1>0, <1>1, <2>1, Numbers, SceneConstants DEF IInv, Newest, Turn, Goes
  <2>6. Placed'
    BY <1>0, <1>1, <2>1, Numbers, SceneConstants DEF IInv, Placed, Turn, Goes
  <2>7. Here'
    BY <1>0, <1>1, <2>1 DEF IInv, Here, HereOf, Turn, Goes
  <2>8. Session'
    BY <1>0, <1>1, <2>1, Numbers DEF IInv, Session, Turn, Goes
  <2>9. Checked'
    BY <1>0, <1>1, <2>1, Numbers DEF IInv, Checked, Turn, Goes
  <2>10. ZonesFollowScene'
    BY <1>0, <1>1, <2>1 DEF IInv, ZonesFollowScene, Turn, Goes
  <2>11. KeyframeKept'
    BY <1>0, <1>1, <2>1, Numbers DEF IInv, KeyframeKept, Turn, Goes
  <2>12. Accounted'
    BY <1>0, <1>1, <2>1, Numbers, AccountedOn DEF IInv, Accounted, Placed, Turn, Goes
  <2>13. Built'
    BY <1>0, <1>1, <2>1, BuiltOn DEF Goes, Building
  <2>14. Edited'
    BY <1>0, <1>1, <2>1, EditedOn DEF Goes
  <2> QED BY <2>2, <2>3, <2>4, <2>5, <2>6, <2>7, <2>8, <2>9, <2>10, <2>11, <2>12, <2>13, <2>14 DEF IInv
<1>2. CASE Return(h)
  <2>1. Ends(h)
    BY <1>0, <1>2, Returns
  <2>2. TypeOK'
    BY <1>0, <1>2, <2>1, SceneConstants DEF TypeOK, Turn, Ends
  <2>3. Held'
    BY <1>0, <1>2, <2>1, SceneConstants DEF IInv, Held, Turn, Ends
  <2>4. Numbered'
    BY <1>0, <1>2, <2>1, Numbers, SceneConstants DEF IInv, Numbered, Turn, Ends
  <2>5. Newest'
    BY <1>0, <1>2, <2>1, Numbers, SceneConstants DEF IInv, Newest, Turn, Ends
  <2>6. Placed'
    BY <1>0, <1>2, <2>1, Numbers, SceneConstants DEF IInv, Placed, Turn, Ends
  <2>7. Here'
    BY <1>0, <1>2, <2>1 DEF IInv, Here, HereOf, Turn, Ends
  <2>8. Session'
    BY <1>0, <1>2, <2>1, Numbers DEF IInv, Session, Turn, Ends
  <2>9. Checked'
    BY <1>0, <1>2, <2>1, Numbers DEF IInv, Checked, Turn, Ends
  <2>10. ZonesFollowScene'
    BY <1>0, <1>2, <2>1 DEF IInv, ZonesFollowScene, Turn, Ends
  <2>11. KeyframeKept'
    BY <1>0, <1>2, <2>1, Numbers DEF IInv, KeyframeKept, Turn, Ends
  <2>12. Accounted'
    BY <1>0, <1>2, <2>1, Numbers, AccountedOn DEF IInv, Accounted, Placed, Turn, Ends
  <2>13. Built'
    BY <1>0, <1>2, <2>1, BuiltOn DEF Ends, Building
  <2>14. Edited'
    BY <1>0, <1>2, <2>1, EditedOn DEF Ends
  <2> QED BY <2>2, <2>3, <2>4, <2>5, <2>6, <2>7, <2>8, <2>9, <2>10, <2>11, <2>12, <2>13, <2>14 DEF IInv
<1> QED BY <1>0, <1>1, <1>2 DEF Look

\* The scene is withdrawn.
LEMMA WithdrawStep == ASSUME IInv, NEW h \in Handlers, Withdraw(h) PROVE IInv'
<1>0. /\ IInv /\ TypeOK
      /\ At(h, "withdraw") /\ Invalidate
      /\ UNCHANGED <<camera, images, engine, runtime, lock, snaps, sessions, engines, requests, crashes, leftover, overtaken, bereft>>
  BY DEF IInv, Withdraw
<1>1. lock = Nobody /\ Softened
  BY <1>0, InvalidateFades, FadesSoftens
<1>2. CASE Move(h, "stop")
  <2>1. Goes(h, "stop")
    BY <1>0, <1>2, Moves DEF Steps, Routes
  <2>2. TypeOK'
    BY <1>0, <1>1, <1>2, <2>1, SceneConstants DEF TypeOK, Turn, Softened, Goes
  <2>3. Held'
    BY <1>0, <1>1, <1>2, <2>1, SceneConstants DEF IInv, Held, Turn, Softened, Goes
  <2>4. Numbered'
    BY <1>0, <1>1, <1>2, <2>1, Numbers, SceneConstants DEF IInv, Numbered, Turn, Softened, Goes
  <2>5. Newest'
    BY <1>0, <1>1, <1>2, <2>1, Numbers, SceneConstants DEF IInv, Newest, Held, Turn, Softened, Goes
  <2>6. Placed'
    BY <1>0, <1>1, <1>2, <2>1, Numbers, SceneConstants DEF IInv, Placed, Held, Turn, Softened, Goes
  <2>7. Here'
    BY <1>0, <1>1, <1>2, <2>1 DEF IInv, Here, HereOf, Turn, Softened, Goes
  <2>8. Session'
    BY <1>0, <1>1, <1>2, <2>1, Numbers DEF IInv, Session, Turn, Softened, Goes
  <2>9. Checked'
    BY <1>0, <1>1, <1>2, <2>1, Numbers DEF IInv, Checked, Turn, Softened, Goes
  <2>10. ZonesFollowScene'
    BY <1>0, <1>1, <1>2, <2>1 DEF IInv, ZonesFollowScene, Turn, Softened, Goes
  <2>11. KeyframeKept'
    BY <1>0, <1>1, <1>2, <2>1, Numbers DEF IInv, KeyframeKept, Pending, Turn, Softened, Goes
  <2>12. Accounted'
    BY <1>0, <1>1, <1>2, <2>1, Numbers, AccountedOn DEF IInv, Accounted, Placed, Turn, Softened, Goes
  <2>13. Built'
    BY <1>0, <1>1, <1>2, <2>1, BuiltOn DEF Softened, Goes, Building
  <2>14. Edited'
    BY <1>0, <1>1, <1>2, <2>1, EditedOn DEF Softened, Goes
  <2> QED BY <2>2, <2>3, <2>4, <2>5, <2>6, <2>7, <2>8, <2>9, <2>10, <2>11, <2>12, <2>13, <2>14 DEF IInv
<1>3. CASE Return(h)
  <2>1. Ends(h)
    BY <1>0, <1>3, Returns
  <2>2. TypeOK'
    BY <1>0, <1>1, <1>3, <2>1, SceneConstants DEF TypeOK, Turn, Softened, Ends
  <2>3. Held'
    BY <1>0, <1>1, <1>3, <2>1, SceneConstants DEF IInv, Held, Turn, Softened, Ends
  <2>4. Numbered'
    BY <1>0, <1>1, <1>3, <2>1, Numbers, SceneConstants DEF IInv, Numbered, Turn, Softened, Ends
  <2>5. Newest'
    BY <1>0, <1>1, <1>3, <2>1, Numbers, SceneConstants DEF IInv, Newest, Held, Turn, Softened, Ends
  <2>6. Placed'
    BY <1>0, <1>1, <1>3, <2>1, Numbers, SceneConstants DEF IInv, Placed, Held, Turn, Softened, Ends
  <2>7. Here'
    BY <1>0, <1>1, <1>3, <2>1 DEF IInv, Here, HereOf, Turn, Softened, Ends
  <2>8. Session'
    BY <1>0, <1>1, <1>3, <2>1, Numbers DEF IInv, Session, Turn, Softened, Ends
  <2>9. Checked'
    BY <1>0, <1>1, <1>3, <2>1, Numbers DEF IInv, Checked, Turn, Softened, Ends
  <2>10. ZonesFollowScene'
    BY <1>0, <1>1, <1>3, <2>1 DEF IInv, ZonesFollowScene, Turn, Softened, Ends
  <2>11. KeyframeKept'
    BY <1>0, <1>1, <1>3, <2>1, Numbers DEF IInv, KeyframeKept, Pending, Turn, Softened, Ends
  <2>12. Accounted'
    BY <1>0, <1>1, <1>3, <2>1, Numbers, AccountedOn DEF IInv, Accounted, Placed, Turn, Softened, Ends
  <2>13. Built'
    BY <1>0, <1>1, <1>3, <2>1, BuiltOn DEF Softened, Ends, Building
  <2>14. Edited'
    BY <1>0, <1>1, <1>3, <2>1, EditedOn DEF Softened, Ends
  <2> QED BY <2>2, <2>3, <2>4, <2>5, <2>6, <2>7, <2>8, <2>9, <2>10, <2>11, <2>12, <2>13, <2>14 DEF IInv
<1> QED BY <1>0, <1>2, <1>3 DEF Withdraw

\* The camera gets another source.
LEMMA PatchStep == ASSUME IInv, NEW h \in Handlers, Patch(h) PROVE IInv'
<1>0. /\ IInv /\ TypeOK
      /\ At(h, "patch") /\ runtime = Nobody /\ camera' \in Nat /\ camera' # Nobody
      /\ UNCHANGED <<scene, zones, images, engine, runtime, lock, snaps, sessions, engines, requests, crashes, leftover, overtaken, bereft>>
  <2>1. TypeOK /\ camera \in Nat \cup {Nobody} /\ task[h].camera \in Nat
    BY TaskTypes DEF IInv, TypeOK, Built, Patch
  <2>2. camera' = (IF camera = Nobody THEN task[h].camera ELSE camera) + 1
    BY DEF Patch
  <2>3. camera' \in Nat /\ camera' # Nobody
    BY <2>1, <2>2, SceneConstants
  <2> QED BY <2>1, <2>3 DEF IInv, Patch
<1>1. Goes(h, "withdraw")
  BY <1>0, Moves DEF Patch, Steps, Routes
<1>2. TypeOK'
  BY <1>0, <1>1, SceneConstants DEF TypeOK, Turn, Goes
<1>3. Held'
  BY <1>0, <1>1, SceneConstants DEF IInv, Held, Turn, Goes
<1>4. Numbered'
  BY <1>0, <1>1, Numbers, SceneConstants DEF IInv, Numbered, Turn, Goes
<1>5. Newest'
  BY <1>0, <1>1, Numbers, SceneConstants DEF IInv, Newest, Turn, Goes
<1>6. Placed'
  BY <1>0, <1>1, Numbers, SceneConstants DEF IInv, Placed, Turn, Goes
<1>7. Here'
  BY <1>0, <1>1 DEF IInv, Here, HereOf, Turn, Goes
<1>8. Session'
  BY <1>0, <1>1, Numbers DEF IInv, Session, Turn, Goes
<1>9. Checked'
  BY <1>0, <1>1, Numbers DEF IInv, Checked, Turn, Goes
<1>10. ZonesFollowScene'
  BY <1>0, <1>1 DEF IInv, ZonesFollowScene, Turn, Goes
<1>11. KeyframeKept'
  BY <1>0, <1>1, Numbers DEF IInv, KeyframeKept, Turn, Goes
<1>12. Accounted'
  BY <1>0, <1>1, Numbers, AccountedOn DEF IInv, Accounted, Placed, Turn, Goes
<1>13. Built'
  BY <1>0, <1>1, BuiltOn DEF Goes, Building
<1>14. Edited'
  BY <1>0, <1>1, EditedOn DEF Goes
<1> QED BY <1>2, <1>3, <1>4, <1>5, <1>6, <1>7, <1>8, <1>9, <1>10, <1>11, <1>12, <1>13, <1>14 DEF IInv

\* The zones are edited by hand.
LEMMA EditZoneStep == ASSUME IInv, NEW h \in Handlers, EditZone(h) PROVE IInv'
<1>0. /\ IInv /\ TypeOK
      /\ At(h, "zone")
      /\ zones' = zones \/ (zones # Nobody /\ zones' = [zones EXCEPT !.edited = TRUE]) \/ zones' = Nobody
      /\ UNCHANGED <<camera, scene, images, engine, runtime, lock, snaps, sessions, engines, requests, crashes, leftover, overtaken, bereft>>
  BY DEF IInv, EditZone
<1>1. Goes(h, "stop")
  BY <1>0, Moves DEF EditZone, Steps, Routes
<1>2. /\ zones' \in Zones \cup {Nobody}
      /\ Credited(zones') => /\ Credited(zones) /\ zones'.version = zones.version /\ zones'.snap = zones.snap
                             /\ zones'.session = zones.session /\ zones'.engine = zones.engine
  <2>1. zones \in Zones \cup {Nobody}
    BY <1>0 DEF TypeOK
  <2>2. CASE zones' = zones \/ zones' = Nobody
    BY <2>1, <2>2 DEF Credited
  <2>3. CASE zones # Nobody /\ zones' = [zones EXCEPT !.edited = TRUE]
    BY <2>1, <2>3, SceneConstants DEF Credited, Zones
  <2> QED BY <1>0, <2>2, <2>3
<1>3. TypeOK'
  BY <1>0, <1>1, <1>2, SceneConstants DEF TypeOK, Turn, Goes
<1>4. Held'
  BY <1>0, <1>1, <1>2, SceneConstants DEF IInv, Held, Turn, Goes
<1>5. Numbered'
  BY <1>0, <1>1, <1>2, Numbers, SceneConstants DEF IInv, Numbered, Turn, Goes
<1>6. Newest'
  BY <1>0, <1>1, <1>2, Numbers, SceneConstants DEF IInv, Newest, Turn, Goes
<1>7. Placed'
  BY <1>0, <1>1, <1>2, Numbers, SceneConstants DEF IInv, Placed, Turn, Goes
<1>8. Here'
  BY <1>0, <1>1, <1>2 DEF IInv, Here, HereOf, Turn, Goes
<1>9. Session'
  BY <1>0, <1>1, <1>2, Numbers DEF IInv, Session, Turn, Goes
<1>10. Checked'
  BY <1>0, <1>1, <1>2, Numbers DEF IInv, Checked, Turn, Goes
<1>11. ZonesFollowScene'
  BY <1>0, <1>1, <1>2 DEF IInv, ZonesFollowScene, Turn, Goes
<1>12. KeyframeKept'
  BY <1>0, <1>1, <1>2, Numbers DEF IInv, KeyframeKept, Turn, Goes
<1>13. Accounted'
  BY <1>0, <1>1, <1>2, Numbers, AccountedOn DEF IInv, Accounted, Placed, Turn, Goes
<1>14. Built'
  BY <1>0, <1>1, <1>2, BuiltOn DEF Goes, Building
<1>15. Edited'
  <2>1. Waiting'
    BY <1>0, <1>1 DEF IInv, Built, Waiting, Goes
  <2> QED BY <2>1 DEF Edited, EditedOf, Shaped
<1> QED BY <1>3, <1>4, <1>5, <1>6, <1>7, <1>8, <1>9, <1>10, <1>11, <1>12, <1>13, <1>14, <1>15 DEF IInv

\* The engine is stopped.
LEMMA StopStep == ASSUME IInv, NEW h \in Handlers, Stop(h) PROVE IInv'
<1>0. /\ IInv /\ TypeOK
      /\ At(h, "stop") /\ runtime = Nobody
      /\ engine' = Nobody
      /\ UNCHANGED <<camera, scene, zones, images, runtime, lock, snaps, sessions, engines, requests, crashes, leftover, overtaken, bereft>>
  BY DEF IInv, Stop
<1>1. CASE Move(h, "start")
  <2>1. Goes(h, "start")
    BY <1>0, <1>1, Moves DEF Steps, Routes
  <2>2. TypeOK'
    BY <1>0, <1>1, <2>1, SceneConstants DEF TypeOK, Turn, Goes
  <2>3. Held'
    BY <1>0, <1>1, <2>1, SceneConstants DEF IInv, Held, Turn, Goes
  <2>4. Numbered'
    BY <1>0, <1>1, <2>1, Numbers, SceneConstants DEF IInv, Numbered, Turn, Goes
  <2>5. Newest'
    BY <1>0, <1>1, <2>1, Numbers, SceneConstants DEF IInv, Newest, Turn, Goes
  <2>6. Placed'
    BY <1>0, <1>1, <2>1, Numbers, SceneConstants DEF IInv, Placed, Held, Turn, Goes
  <2>7. Here'
    BY <1>0, <1>1, <2>1, SceneConstants DEF IInv, Here, Held, Turn, Goes
  <2>8. Session'
    BY <1>0, <1>1, <2>1, Numbers DEF IInv, Session, Turn, Goes
  <2>9. Checked'
    BY <1>0, <1>1, <2>1, Numbers DEF IInv, Checked, Turn, Goes
  <2>10. ZonesFollowScene'
    BY <1>0, <1>1, <2>1 DEF IInv, ZonesFollowScene, Turn, Goes
  <2>11. KeyframeKept'
    BY <1>0, <1>1, <2>1, Numbers DEF IInv, KeyframeKept, Turn, Goes
  <2>12. Accounted'
    BY <1>0, <1>1, <2>1, Numbers, AccountedOn DEF IInv, Accounted, Placed, Turn, Goes
  <2>13. Built'
    BY <1>0, <1>1, <2>1, SceneConstants, BuiltOn DEF Goes, Building
  <2>14. Edited'
    BY <1>0, <1>1, <2>1, SceneConstants, SceneConstants DEF IInv, Edited, Held, Turn, Goes
  <2> QED BY <2>2, <2>3, <2>4, <2>5, <2>6, <2>7, <2>8, <2>9, <2>10, <2>11, <2>12, <2>13, <2>14 DEF IInv
<1>2. CASE Return(h)
  <2>1. Ends(h)
    BY <1>0, <1>2, Returns
  <2>2. TypeOK'
    BY <1>0, <1>2, <2>1, SceneConstants DEF TypeOK, Turn, Ends
  <2>3. Held'
    BY <1>0, <1>2, <2>1, SceneConstants DEF IInv, Held, Turn, Ends
  <2>4. Numbered'
    BY <1>0, <1>2, <2>1, Numbers, SceneConstants DEF IInv, Numbered, Turn, Ends
  <2>5. Newest'
    BY <1>0, <1>2, <2>1, Numbers, SceneConstants DEF IInv, Newest, Turn, Ends
  <2>6. Placed'
    BY <1>0, <1>2, <2>1, Numbers, SceneConstants DEF IInv, Placed, Held, Turn, Ends
  <2>7. Here'
    BY <1>0, <1>2, <2>1, SceneConstants DEF IInv, Here, Held, Turn, Ends
  <2>8. Session'
    BY <1>0, <1>2, <2>1, Numbers DEF IInv, Session, Turn, Ends
  <2>9. Checked'
    BY <1>0, <1>2, <2>1, Numbers DEF IInv, Checked, Turn, Ends
  <2>10. ZonesFollowScene'
    BY <1>0, <1>2, <2>1 DEF IInv, ZonesFollowScene, Turn, Ends
  <2>11. KeyframeKept'
    BY <1>0, <1>2, <2>1, Numbers DEF IInv, KeyframeKept, Turn, Ends
  <2>12. Accounted'
    BY <1>0, <1>2, <2>1, Numbers, AccountedOn DEF IInv, Accounted, Placed, Turn, Ends
  <2>13. Built'
    BY <1>0, <1>2, <2>1, SceneConstants, BuiltOn DEF Ends, Building
  <2>14. Edited'
    BY <1>0, <1>2, <2>1, SceneConstants, SceneConstants DEF IInv, Edited, Held, Turn, Ends
  <2> QED BY <2>2, <2>3, <2>4, <2>5, <2>6, <2>7, <2>8, <2>9, <2>10, <2>11, <2>12, <2>13, <2>14 DEF IInv
<1> QED BY <1>0, <1>1, <1>2 DEF Stop

\* A start that is refused.
LEMMA StartRefusedStep == ASSUME IInv, NEW h \in Handlers, StartRefused(h) PROVE IInv'
<1>0. /\ IInv /\ TypeOK
      /\ At(h, "start")
      /\ UNCHANGED <<camera, scene, zones, images, engine, runtime, lock, snaps, sessions, engines, requests, crashes, leftover, overtaken, bereft>>
  BY DEF IInv, StartRefused
<1>1. Ends(h)
  BY <1>0, Returns DEF StartRefused
<1>2. TypeOK'
  BY <1>0, <1>1, SceneConstants DEF TypeOK, Turn, Ends
<1>3. Held'
  BY <1>0, <1>1, SceneConstants DEF IInv, Held, Turn, Ends
<1>4. Numbered'
  BY <1>0, <1>1, Numbers, SceneConstants DEF IInv, Numbered, Turn, Ends
<1>5. Newest'
  BY <1>0, <1>1, Numbers, SceneConstants DEF IInv, Newest, Turn, Ends
<1>6. Placed'
  BY <1>0, <1>1, Numbers, SceneConstants DEF IInv, Placed, Turn, Ends
<1>7. Here'
  BY <1>0, <1>1 DEF IInv, Here, HereOf, Turn, Ends
<1>8. Session'
  BY <1>0, <1>1, Numbers DEF IInv, Session, Turn, Ends
<1>9. Checked'
  BY <1>0, <1>1, Numbers DEF IInv, Checked, Turn, Ends
<1>10. ZonesFollowScene'
  BY <1>0, <1>1 DEF IInv, ZonesFollowScene, Turn, Ends
<1>11. KeyframeKept'
  BY <1>0, <1>1, Numbers DEF IInv, KeyframeKept, Turn, Ends
<1>12. Accounted'
  BY <1>0, <1>1, Numbers, AccountedOn DEF IInv, Accounted, Placed, Turn, Ends
<1>13. Built'
  BY <1>0, <1>1, BuiltOn DEF Ends, Building
<1>14. Edited'
  BY <1>0, <1>1, EditedOn DEF Ends
<1> QED BY <1>2, <1>3, <1>4, <1>5, <1>6, <1>7, <1>8, <1>9, <1>10, <1>11, <1>12, <1>13, <1>14 DEF IInv

\* The engine stops before the camera is deleted.
LEMMA RemoveStep == ASSUME IInv, NEW h \in Handlers, Remove(h) PROVE IInv'
<1>0. /\ IInv /\ TypeOK
      /\ At(h, "remove") /\ runtime = Nobody
      /\ engine' = Nobody
      /\ UNCHANGED <<camera, scene, zones, images, runtime, lock, snaps, sessions, engines, requests, crashes, leftover, overtaken, bereft>>
  BY DEF IInv, Remove
<1>1. Goes(h, "mark")
  BY <1>0, Moves DEF Remove, Steps
<1>2. TypeOK'
  BY <1>0, <1>1, SceneConstants DEF TypeOK, Turn, Goes
<1>3. Held'
  BY <1>0, <1>1, SceneConstants DEF IInv, Held, Turn, Goes
<1>4. Numbered'
  BY <1>0, <1>1, Numbers, SceneConstants DEF IInv, Numbered, Turn, Goes
<1>5. Newest'
  BY <1>0, <1>1, Numbers, SceneConstants DEF IInv, Newest, Turn, Goes
<1>6. Placed'
  BY <1>0, <1>1, Numbers, SceneConstants DEF IInv, Placed, Held, Turn, Goes
<1>7. Here'
  BY <1>0, <1>1, SceneConstants DEF IInv, Here, Held, Turn, Goes
<1>8. Session'
  BY <1>0, <1>1, Numbers DEF IInv, Session, Turn, Goes
<1>9. Checked'
  BY <1>0, <1>1, Numbers DEF IInv, Checked, Turn, Goes
<1>10. ZonesFollowScene'
  BY <1>0, <1>1 DEF IInv, ZonesFollowScene, Turn, Goes
<1>11. KeyframeKept'
  BY <1>0, <1>1, Numbers DEF IInv, KeyframeKept, Turn, Goes
<1>12. Accounted'
  BY <1>0, <1>1, Numbers, AccountedOn DEF IInv, Accounted, Placed, Turn, Goes
<1>13. Built'
  BY <1>0, <1>1, SceneConstants, BuiltOn DEF Goes, Building
<1>14. Edited'
  BY <1>0, <1>1, SceneConstants, SceneConstants DEF IInv, Edited, Held, Turn, Goes
<1> QED BY <1>2, <1>3, <1>4, <1>5, <1>6, <1>7, <1>8, <1>9, <1>10, <1>11, <1>12, <1>13, <1>14 DEF IInv

\* The deletion is recorded.
LEMMA MarkStep == ASSUME IInv, NEW h \in Handlers, Mark(h) PROVE IInv'
<1>0. /\ IInv /\ TypeOK
      /\ At(h, "mark") /\ lock = Nobody
      /\ UNCHANGED <<camera, images, engine, runtime, snaps, sessions, engines, requests, crashes, leftover, overtaken, bereft>>
  BY DEF IInv, Mark
<1>1. CASE Move(h, "drop") /\ UNCHANGED <<scene, zones, lock>>
  <2>1. Goes(h, "drop")
    BY <1>0, <1>1, Moves DEF Steps, Routes
  <2>2. TypeOK'
    BY <1>0, <1>1, <2>1, SceneConstants DEF TypeOK, Turn, Goes
  <2>3. Held'
    BY <1>0, <1>1, <2>1, SceneConstants DEF IInv, Held, Turn, Goes
  <2>4. Numbered'
    BY <1>0, <1>1, <2>1, Numbers, SceneConstants DEF IInv, Numbered, Turn, Goes
  <2>5. Newest'
    BY <1>0, <1>1, <2>1, Numbers, SceneConstants DEF IInv, Newest, Turn, Goes
  <2>6. Placed'
    BY <1>0, <1>1, <2>1, Numbers, SceneConstants DEF IInv, Placed, Turn, Goes
  <2>7. Here'
    BY <1>0, <1>1, <2>1 DEF IInv, Here, HereOf, Turn, Goes
  <2>8. Session'
    BY <1>0, <1>1, <2>1, Numbers DEF IInv, Session, Turn, Goes
  <2>9. Checked'
    BY <1>0, <1>1, <2>1, Numbers DEF IInv, Checked, Turn, Goes
  <2>10. ZonesFollowScene'
    BY <1>0, <1>1, <2>1 DEF IInv, ZonesFollowScene, Turn, Goes
  <2>11. KeyframeKept'
    BY <1>0, <1>1, <2>1, Numbers DEF IInv, KeyframeKept, Turn, Goes
  <2>12. Accounted'
    BY <1>0, <1>1, <2>1, Numbers, AccountedOn DEF IInv, Accounted, Placed, Turn, Goes
  <2>13. Built'
    BY <1>0, <1>1, <2>1, BuiltOn DEF Goes, Building
  <2>14. Edited'
    BY <1>0, <1>1, <2>1, EditedOn DEF Goes
  <2> QED BY <2>2, <2>3, <2>4, <2>5, <2>6, <2>7, <2>8, <2>9, <2>10, <2>11, <2>12, <2>13, <2>14 DEF IInv
<1>2. CASE /\ scene # Nobody /\ scene' = Marked(scene) /\ zones' = Unconfirmed(zones)
           /\ lock' = h /\ Move(h, "unlink")
  <2>1. Goes(h, "unlink")
    BY <1>0, <1>2, Moves DEF Steps, Routes
  <2>2. Softened /\ Pending(scene') /\ scene # Nobody /\ lock' = h
    BY <1>0, <1>2, MarkedFades, FadesSoftens, SceneConstants DEF Fades, Pending
  <2>3. TypeOK'
    BY <1>0, <2>1, <2>2, SceneConstants DEF TypeOK, Turn, Goes, Softened
  <2>4. Held'
    BY <1>0, <2>1, <2>2, SceneConstants DEF IInv, Held, Turn, Goes, Softened
  <2>5. Numbered'
    BY <1>0, <2>1, <2>2, Numbers, SceneConstants DEF IInv, Numbered, Turn, Goes, Softened
  <2>6. Newest'
    BY <1>0, <2>1, <2>2, Numbers, SceneConstants DEF IInv, Newest, Held, Turn, Goes, Softened
  <2>7. Placed'
    BY <1>0, <2>1, <2>2, Numbers, SceneConstants DEF IInv, Placed, Held, Turn, Goes, Softened
  <2>8. Here'
    BY <1>0, <2>1, <2>2 DEF IInv, Here, HereOf, Turn, Goes, Softened
  <2>9. Session'
    BY <1>0, <2>1, <2>2, Numbers DEF IInv, Session, Turn, Goes, Softened
  <2>10. Checked'
    BY <1>0, <2>1, <2>2, Numbers DEF IInv, Checked, Turn, Goes, Softened
  <2>11. ZonesFollowScene'
    BY <1>0, <2>1, <2>2 DEF IInv, ZonesFollowScene, Turn, Goes, Softened
  <2>12. KeyframeKept'
    BY <1>0, <2>1, <2>2, Numbers DEF IInv, KeyframeKept, Pending, Turn, Goes, Softened
  <2>13. Accounted'
    BY <1>0, <2>1, <2>2, Numbers, AccountedOn DEF IInv, Accounted, Placed, Turn, Goes, Softened
  <2>14. Built'
    BY <1>0, <2>1, <2>2, BuiltOn DEF Goes, Softened, Building
  <2>15. Edited'
    BY <1>0, <2>1, <2>2, EditedOn DEF Goes, Softened
  <2> QED BY <2>3, <2>4, <2>5, <2>6, <2>7, <2>8, <2>9, <2>10, <2>11, <2>12, <2>13, <2>14, <2>15 DEF IInv
<1> QED BY <1>0, <1>1, <1>2 DEF Mark

\* Its keyframe is deleted.
LEMMA UnlinkStep == ASSUME IInv, NEW h \in Handlers, Unlink(h) PROVE IInv'
<1>0. /\ IInv /\ TypeOK
      /\ At(h, "unlink")
      /\ images' = images \ {scene.snap}
      /\ UNCHANGED <<camera, scene, zones, engine, runtime, lock, snaps, sessions, engines, requests, crashes, leftover, overtaken, bereft>>
  BY DEF IInv, Unlink
<1>1. Goes(h, "finish")
  BY <1>0, Moves DEF Unlink, Steps
<1>2. TypeOK'
  BY <1>0, <1>1, SceneConstants DEF TypeOK, Turn, Goes
<1>3. Held'
  BY <1>0, <1>1, SceneConstants DEF IInv, Held, Turn, Goes
<1>4. Numbered'
  BY <1>0, <1>1, Numbers, SceneConstants DEF IInv, Numbered, Turn, Goes
<1>5. Newest'
  BY <1>0, <1>1, Numbers, SceneConstants DEF IInv, Newest, Held, Turn, Goes
<1>6. Placed'
  BY <1>0, <1>1, Numbers, SceneConstants DEF IInv, Placed, Turn, Goes
<1>7. Here'
  BY <1>0, <1>1 DEF IInv, Here, HereOf, Turn, Goes
<1>8. Session'
  BY <1>0, <1>1, Numbers DEF IInv, Session, Turn, Goes
<1>9. Checked'
  BY <1>0, <1>1, Numbers DEF IInv, Checked, Turn, Goes
<1>10. ZonesFollowScene'
  BY <1>0, <1>1 DEF IInv, ZonesFollowScene, Turn, Goes
<1>11. KeyframeKept'
  BY <1>0, <1>1, Numbers DEF IInv, KeyframeKept, Placed, Pending, Turn, Goes
<1>12. Accounted'
  BY <1>0, <1>1, Numbers, AccountedOn DEF IInv, Accounted, Placed, Turn, Goes
<1>13. Built'
  BY <1>0, <1>1, BuiltOn DEF Goes, Building
<1>14. Edited'
  BY <1>0, <1>1, EditedOn DEF Goes
<1> QED BY <1>2, <1>3, <1>4, <1>5, <1>6, <1>7, <1>8, <1>9, <1>10, <1>11, <1>12, <1>13, <1>14 DEF IInv

\* Its rows are deleted.
LEMMA FinishStep == ASSUME IInv, NEW h \in Handlers, Finish(h) PROVE IInv'
<1>0. /\ IInv /\ TypeOK
      /\ At(h, "finish")
      /\ scene' = Nobody /\ zones' = Nobody /\ lock' = Nobody
      /\ UNCHANGED <<camera, images, engine, runtime, snaps, sessions, engines, requests, crashes, leftover, overtaken, bereft>>
  BY DEF IInv, Finish
<1>1. Goes(h, "drop")
  BY <1>0, Moves DEF Finish, Steps
<1>2. ~Credited(zones')
  BY <1>0 DEF Credited
<1>3. TypeOK'
  BY <1>0, <1>1, <1>2, SceneConstants DEF TypeOK, Turn, Goes
<1>4. Held'
  BY <1>0, <1>1, <1>2, SceneConstants DEF IInv, Held, Turn, Goes
<1>5. Numbered'
  BY <1>0, <1>1, <1>2, Numbers, SceneConstants DEF IInv, Numbered, Turn, Goes
<1>6. Newest'
  BY <1>0, <1>1, <1>2, Numbers, SceneConstants DEF IInv, Newest, Turn, Goes
<1>7. Placed'
  BY <1>0, <1>1, <1>2, Numbers, SceneConstants DEF IInv, Placed, Held, Pending, Turn, Goes
<1>8. Here'
  BY <1>0, <1>1, <1>2 DEF IInv, Here, HereOf, Turn, Goes
<1>9. Session'
  BY <1>0, <1>1, <1>2, Numbers DEF IInv, Session, Turn, Goes
<1>10. Checked'
  BY <1>0, <1>1, <1>2, Numbers DEF IInv, Checked, Turn, Goes
<1>11. ZonesFollowScene'
  BY <1>0, <1>1, <1>2 DEF IInv, ZonesFollowScene, Turn, Goes
<1>12. KeyframeKept'
  BY <1>0, <1>1, <1>2, Numbers DEF IInv, KeyframeKept, Turn, Goes
<1>13. Accounted'
  BY <1>0, <1>1, <1>2, Numbers, AccountedOn DEF IInv, Accounted, Placed, Turn, Goes
<1>14. Built'
  BY <1>0, <1>1, <1>2, BuiltOn DEF Goes, Building
<1>15. Edited'
  BY <1>0, <1>1, <1>2, EditedOn DEF Goes
<1> QED BY <1>3, <1>4, <1>5, <1>6, <1>7, <1>8, <1>9, <1>10, <1>11, <1>12, <1>13, <1>14, <1>15 DEF IInv

\* Or the deletion stays pending.
LEMMA RemoveFailsStep == ASSUME IInv, NEW h \in Handlers, RemoveFails(h) PROVE IInv'
<1>0. /\ IInv /\ TypeOK
      /\ At(h, "unlink") \/ At(h, "finish")
      /\ lock' = Nobody
      /\ UNCHANGED <<camera, scene, zones, images, engine, runtime, snaps, sessions, engines, requests, crashes, leftover, overtaken, bereft>>
  BY DEF IInv, RemoveFails
<1>1. Ends(h)
  BY <1>0, Returns DEF RemoveFails
<1>2. TypeOK'
  BY <1>0, <1>1, SceneConstants DEF TypeOK, Turn, Ends
<1>3. Held'
  BY <1>0, <1>1, SceneConstants DEF IInv, Held, Turn, Ends
<1>4. Numbered'
  BY <1>0, <1>1, Numbers, SceneConstants DEF IInv, Numbered, Turn, Ends
<1>5. Newest'
  BY <1>0, <1>1, Numbers, SceneConstants DEF IInv, Newest, Turn, Ends
<1>6. Placed'
  BY <1>0, <1>1, Numbers, SceneConstants DEF IInv, Placed, Turn, Ends
<1>7. Here'
  BY <1>0, <1>1 DEF IInv, Here, HereOf, Turn, Ends
<1>8. Session'
  BY <1>0, <1>1, Numbers DEF IInv, Session, Turn, Ends
<1>9. Checked'
  BY <1>0, <1>1, Numbers DEF IInv, Checked, Turn, Ends
<1>10. ZonesFollowScene'
  BY <1>0, <1>1 DEF IInv, ZonesFollowScene, Turn, Ends
<1>11. KeyframeKept'
  BY <1>0, <1>1, Numbers DEF IInv, KeyframeKept, Turn, Ends
<1>12. Accounted'
  BY <1>0, <1>1, Numbers, AccountedOn DEF IInv, Accounted, Placed, Turn, Ends
<1>13. Built'
  BY <1>0, <1>1, BuiltOn DEF Ends, Building
<1>14. Edited'
  BY <1>0, <1>1, EditedOn DEF Ends
<1> QED BY <1>2, <1>3, <1>4, <1>5, <1>6, <1>7, <1>8, <1>9, <1>10, <1>11, <1>12, <1>13, <1>14 DEF IInv

\* A camera with events is kept.
LEMMA RemoveRefusedStep == ASSUME IInv, NEW h \in Handlers, RemoveRefused(h) PROVE IInv'
<1>0. /\ IInv /\ TypeOK
      /\ At(h, "mark")
      /\ UNCHANGED <<camera, scene, zones, images, engine, runtime, lock, snaps, sessions, engines, requests, crashes, leftover, overtaken, bereft>>
  BY DEF IInv, RemoveRefused
<1>1. Ends(h)
  BY <1>0, Returns DEF RemoveRefused
<1>2. TypeOK'
  BY <1>0, <1>1, SceneConstants DEF TypeOK, Turn, Ends
<1>3. Held'
  BY <1>0, <1>1, SceneConstants DEF IInv, Held, Turn, Ends
<1>4. Numbered'
  BY <1>0, <1>1, Numbers, SceneConstants DEF IInv, Numbered, Turn, Ends
<1>5. Newest'
  BY <1>0, <1>1, Numbers, SceneConstants DEF IInv, Newest, Turn, Ends
<1>6. Placed'
  BY <1>0, <1>1, Numbers, SceneConstants DEF IInv, Placed, Turn, Ends
<1>7. Here'
  BY <1>0, <1>1 DEF IInv, Here, HereOf, Turn, Ends
<1>8. Session'
  BY <1>0, <1>1, Numbers DEF IInv, Session, Turn, Ends
<1>9. Checked'
  BY <1>0, <1>1, Numbers DEF IInv, Checked, Turn, Ends
<1>10. ZonesFollowScene'
  BY <1>0, <1>1 DEF IInv, ZonesFollowScene, Turn, Ends
<1>11. KeyframeKept'
  BY <1>0, <1>1, Numbers DEF IInv, KeyframeKept, Turn, Ends
<1>12. Accounted'
  BY <1>0, <1>1, Numbers, AccountedOn DEF IInv, Accounted, Placed, Turn, Ends
<1>13. Built'
  BY <1>0, <1>1, BuiltOn DEF Ends, Building
<1>14. Edited'
  BY <1>0, <1>1, EditedOn DEF Ends
<1> QED BY <1>2, <1>3, <1>4, <1>5, <1>6, <1>7, <1>8, <1>9, <1>10, <1>11, <1>12, <1>13, <1>14 DEF IInv

\* Its zones are deleted.
LEMMA DropStep == ASSUME IInv, NEW h \in Handlers, Drop(h) PROVE IInv'
<1>0. /\ IInv /\ TypeOK
      /\ At(h, "drop")
      /\ zones' = Nobody
      /\ UNCHANGED <<camera, scene, images, engine, runtime, lock, snaps, sessions, engines, requests, crashes, leftover, overtaken, bereft>>
  BY DEF IInv, Drop
<1>1. Goes(h, "forget")
  BY <1>0, Moves DEF Drop, Steps
<1>2. ~Credited(zones')
  BY <1>0 DEF Credited
<1>3. TypeOK'
  BY <1>0, <1>1, <1>2, SceneConstants DEF TypeOK, Turn, Goes
<1>4. Held'
  BY <1>0, <1>1, <1>2, SceneConstants DEF IInv, Held, Turn, Goes
<1>5. Numbered'
  BY <1>0, <1>1, <1>2, Numbers, SceneConstants DEF IInv, Numbered, Turn, Goes
<1>6. Newest'
  BY <1>0, <1>1, <1>2, Numbers, SceneConstants DEF IInv, Newest, Turn, Goes
<1>7. Placed'
  BY <1>0, <1>1, <1>2, Numbers, SceneConstants DEF IInv, Placed, Turn, Goes
<1>8. Here'
  BY <1>0, <1>1, <1>2 DEF IInv, Here, HereOf, Turn, Goes
<1>9. Session'
  BY <1>0, <1>1, <1>2, Numbers DEF IInv, Session, Turn, Goes
<1>10. Checked'
  BY <1>0, <1>1, <1>2, Numbers DEF IInv, Checked, Turn, Goes
<1>11. ZonesFollowScene'
  BY <1>0, <1>1, <1>2 DEF IInv, ZonesFollowScene, Turn, Goes
<1>12. KeyframeKept'
  BY <1>0, <1>1, <1>2, Numbers DEF IInv, KeyframeKept, Turn, Goes
<1>13. Accounted'
  BY <1>0, <1>1, <1>2, Numbers, AccountedOn DEF IInv, Accounted, Placed, Turn, Goes
<1>14. Built'
  BY <1>0, <1>1, <1>2, BuiltOn DEF Goes, Building
<1>15. Edited'
  BY <1>0, <1>1, <1>2, EditedOn DEF Goes
<1> QED BY <1>3, <1>4, <1>5, <1>6, <1>7, <1>8, <1>9, <1>10, <1>11, <1>12, <1>13, <1>14, <1>15 DEF IInv

\* The camera is deleted.
LEMMA ForgetStep == ASSUME IInv, NEW h \in Handlers, Forget(h) PROVE IInv'
<1>0. /\ IInv /\ TypeOK
      /\ At(h, "forget") /\ camera' = Nobody
      /\ UNCHANGED <<scene, zones, images, engine, runtime, lock, snaps, sessions, engines, requests, crashes, leftover, overtaken, bereft>>
  BY DEF IInv, Forget
<1>1. Ends(h)
  BY <1>0, Returns DEF Forget
<1>2. TypeOK'
  BY <1>0, <1>1, SceneConstants DEF TypeOK, Turn, Ends
<1>3. Held'
  BY <1>0, <1>1, SceneConstants DEF IInv, Held, Turn, Ends
<1>4. Numbered'
  BY <1>0, <1>1, Numbers, SceneConstants DEF IInv, Numbered, Turn, Ends
<1>5. Newest'
  BY <1>0, <1>1, Numbers, SceneConstants DEF IInv, Newest, Turn, Ends
<1>6. Placed'
  BY <1>0, <1>1, Numbers, SceneConstants DEF IInv, Placed, Turn, Ends
<1>7. Here'
  BY <1>0, <1>1 DEF IInv, Here, HereOf, Turn, Ends
<1>8. Session'
  BY <1>0, <1>1, Numbers DEF IInv, Session, Turn, Ends
<1>9. Checked'
  BY <1>0, <1>1, Numbers DEF IInv, Checked, Turn, Ends
<1>10. ZonesFollowScene'
  BY <1>0, <1>1 DEF IInv, ZonesFollowScene, Turn, Ends
<1>11. KeyframeKept'
  BY <1>0, <1>1, Numbers DEF IInv, KeyframeKept, Turn, Ends
<1>12. Accounted'
  BY <1>0, <1>1, Numbers, AccountedOn DEF IInv, Accounted, Placed, Turn, Ends
<1>13. Built'
  BY <1>0, <1>1, BuiltOn DEF Ends, Building
<1>14. Edited'
  BY <1>0, <1>1, EditedOn DEF Ends
<1> QED BY <1>2, <1>3, <1>4, <1>5, <1>6, <1>7, <1>8, <1>9, <1>10, <1>11, <1>12, <1>13, <1>14 DEF IInv

\* An engine is built on the zones of the database.
LEMMA BuildStep == ASSUME IInv, NEW h \in Handlers, Build(h) PROVE IInv'
<1>0. /\ IInv /\ TypeOK
      /\ At(h, "start") /\ runtime = Nobody /\ engine = Nobody /\ runtime' = h
      /\ UNCHANGED <<camera, scene, zones, images, engine, lock, snaps, sessions, engines, requests, crashes, leftover, overtaken, bereft>>
  BY DEF IInv, Build
<1>1. /\ Turn(h) /\ task'[h].pc = "built" /\ task'[h].engine = task[h].engine /\ task'[h].session = task[h].session
      /\ task'[h].seen = task[h].seen /\ task'[h].image = task[h].image
  <2>1. task \in [Handlers -> Tasks] /\ task[h] \in Tasks /\ zones \in Zones \cup {Nobody} /\ "built" \in Steps
    BY <1>0 DEF TypeOK, Steps
  <2>2. [task[h] EXCEPT !.pc = "built", !.zones = zones] \in Tasks
    BY <2>1 DEF Tasks
  <2>3. Turn(h) /\ task'[h] = [task[h] EXCEPT !.pc = "built", !.zones = zones]
    BY <2>1, <2>2 DEF Build, Turn
  <2> QED BY <2>1, <2>3 DEF Tasks
<1>2. TypeOK'
  BY <1>0, <1>1, SceneConstants DEF TypeOK, Turn
<1>3. Held'
  BY <1>0, <1>1, SceneConstants DEF IInv, Held, Turn
<1>4. Numbered'
  BY <1>0, <1>1, Numbers, SceneConstants DEF IInv, Numbered, Turn
<1>5. Newest'
  BY <1>0, <1>1, Numbers, SceneConstants DEF IInv, Newest, Turn
<1>6. Placed'
  BY <1>0, <1>1, Numbers, SceneConstants DEF IInv, Placed, Held, Turn
<1>7. Here'
  BY <1>0, <1>1 DEF IInv, Here, Held, Turn
<1>8. Session'
  BY <1>0, <1>1, Numbers DEF IInv, Session, Turn
<1>9. Checked'
  BY <1>0, <1>1, Numbers DEF IInv, Checked, Turn
<1>10. ZonesFollowScene'
  BY <1>0, <1>1 DEF IInv, ZonesFollowScene, Turn
<1>11. KeyframeKept'
  BY <1>0, <1>1, Numbers DEF IInv, KeyframeKept, Turn
<1>12. Accounted'
  BY <1>0, <1>1, Numbers, AccountedOn DEF IInv, Accounted, Placed, Turn
<1>13. Built'
  BY <1>0, <1>1 DEF IInv, Built, Building, Turn
<1>14. Edited'
  BY <1>0, <1>1, EditedOn
<1> QED BY <1>2, <1>3, <1>4, <1>5, <1>6, <1>7, <1>8, <1>9, <1>10, <1>11, <1>12, <1>13, <1>14 DEF IInv

\* It is bereft if it finds no scene.
LEMMA ReviewStep == ASSUME IInv, NEW h \in Handlers, Review(h) PROVE IInv'
<1>0. /\ IInv /\ TypeOK
      /\ At(h, "built") /\ engine = Nobody /\ runtime = h
      /\ bereft' = IF scene = Nobody /\ Credited(task[h].zones) THEN bereft \cup {engines + 1} ELSE bereft \ {engines + 1}
      /\ UNCHANGED <<camera, scene, zones, images, engine, runtime, lock, snaps, sessions, engines, requests, crashes, leftover, overtaken>>
  BY DEF IInv, Built, Building, Held, Review
<1>1. PICK pc \in {"bare", "told", "review"} : Move(h, pc) /\ (pc = "bare" => scene = Nobody)
  BY DEF Review
<1>2. Goes(h, pc) /\ pc \in {"bare", "told", "review"} /\ task'[h].zones = task[h].zones
  <2>1. pc \in Steps
    BY <1>1 DEF Steps
  <2>2. task' = [task EXCEPT ![h] = [task[h] EXCEPT !.pc = pc]] /\ task[h] \in Tasks /\ task \in [Handlers -> Tasks]
    BY <1>0, <1>1 DEF Move, TypeOK
  <2>3. task'[h].zones = task[h].zones
    BY <2>1, <2>2 DEF Tasks
  <2> QED BY <1>0, <1>1, <2>1, <2>3, Moves
<1>3. \A g \in Handlers : ~At(g, "tell") /\ (g # h => task[g].pc \notin Building)
  BY <1>0, SceneConstants DEF IInv, Held, Building
<1>4. TypeOK'
  <2>1. bereft' \subseteq Nat
    <3>1. bereft \subseteq Nat /\ engines + 1 \in Nat
      BY <1>0, Numbers DEF TypeOK
    <3> QED BY <1>0, <3>1
  <2> QED BY <1>0, <1>2, <2>1, SceneConstants DEF TypeOK, Turn, Goes
<1>5. Held'
  BY <1>0, <1>2, SceneConstants DEF IInv, Held, Turn, Goes
<1>6. Numbered'
  BY <1>0, <1>2, Numbers, SceneConstants DEF IInv, Numbered, Turn, Goes
<1>7. Newest'
  BY <1>0, <1>2, Numbers, SceneConstants DEF IInv, Newest, Turn, Goes
<1>8. Placed'
  BY <1>0, <1>2, Numbers, SceneConstants DEF IInv, Placed, Turn, Goes
<1>9. Here'
  BY <1>0, <1>2, <1>3 DEF Here, Turn, Goes
<1>10. Session'
  BY <1>0, <1>2, Numbers DEF IInv, Session, Turn, Goes
<1>11. Checked'
  BY <1>0, <1>2, Numbers DEF IInv, Checked, Turn, Goes
<1>12. ZonesFollowScene'
  BY <1>0, <1>2 DEF IInv, ZonesFollowScene, Turn, Goes
<1>13. KeyframeKept'
  BY <1>0, <1>2, Numbers DEF IInv, KeyframeKept, Turn, Goes
<1>14. Accounted'
  BY <1>0, <1>2, Numbers, AccountedOn DEF IInv, Accounted, Placed, Turn, Goes
<1>15. Built'
  <2>1. At(h, "bare")' /\ Credited(task'[h].zones) => engines + 1 \in bereft'
    BY <1>0, <1>1, <1>2 DEF Goes
  <2> QED BY <1>0, <1>2, <1>3, <2>1 DEF IInv, Built, Building, Turn, Goes
<1>16. Edited'
  BY <1>0, <1>2, <1>3 DEF Edited, Turn, Goes
<1> QED BY <1>4, <1>5, <1>6, <1>7, <1>8, <1>9, <1>10, <1>11, <1>12, <1>13, <1>14, <1>15, <1>16 DEF IInv

\* The saved scene is withdrawn.
LEMMA ReviewedStep == ASSUME IInv, NEW h \in Handlers, Reviewed(h) PROVE IInv'
<1>0. /\ IInv /\ TypeOK
      /\ At(h, "review") /\ Invalidate
      /\ UNCHANGED <<camera, images, engine, runtime, lock, snaps, sessions, engines, requests, crashes, leftover, overtaken, bereft>>
  BY DEF IInv, Reviewed
<1>1. lock = Nobody /\ Softened
  BY <1>0, InvalidateFades, FadesSoftens
<1>2. Goes(h, "told")
  BY <1>0, Moves DEF Reviewed, Steps
<1>3. TypeOK'
  BY <1>0, <1>1, <1>2, SceneConstants DEF TypeOK, Turn, Goes, Softened
<1>4. Held'
  BY <1>0, <1>1, <1>2, SceneConstants DEF IInv, Held, Turn, Goes, Softened
<1>5. Numbered'
  BY <1>0, <1>1, <1>2, Numbers, SceneConstants DEF IInv, Numbered, Turn, Goes, Softened
<1>6. Newest'
  BY <1>0, <1>1, <1>2, Numbers, SceneConstants DEF IInv, Newest, Held, Turn, Goes, Softened
<1>7. Placed'
  BY <1>0, <1>1, <1>2, Numbers, SceneConstants DEF IInv, Placed, Held, Turn, Goes, Softened
<1>8. Here'
  BY <1>0, <1>1, <1>2 DEF IInv, Here, HereOf, Turn, Goes, Softened
<1>9. Session'
  BY <1>0, <1>1, <1>2, Numbers DEF IInv, Session, Turn, Goes, Softened
<1>10. Checked'
  BY <1>0, <1>1, <1>2, Numbers DEF IInv, Checked, Turn, Goes, Softened
<1>11. ZonesFollowScene'
  BY <1>0, <1>1, <1>2 DEF IInv, ZonesFollowScene, Turn, Goes, Softened
<1>12. KeyframeKept'
  BY <1>0, <1>1, <1>2, Numbers DEF IInv, KeyframeKept, Pending, Turn, Goes, Softened
<1>13. Accounted'
  BY <1>0, <1>1, <1>2, Numbers, AccountedOn DEF IInv, Accounted, Placed, Turn, Goes, Softened
<1>14. Built'
  BY <1>0, <1>2 DEF IInv, Built, Building, Turn, Goes
<1>15. Edited'
  BY <1>0, <1>1, <1>2, EditedOn DEF Goes, Softened
<1> QED BY <1>3, <1>4, <1>5, <1>6, <1>7, <1>8, <1>9, <1>10, <1>11, <1>12, <1>13, <1>14, <1>15 DEF IInv

\* The engine is registered and starts, or it does not.
LEMMA PublishStep == ASSUME IInv, NEW h \in Handlers, Publish(h) PROVE IInv'
<1>0. /\ IInv /\ TypeOK
      /\ task[h].pc \in {"told", "bare"} /\ engine = Nobody /\ runtime = h /\ runtime' = Nobody
      /\ UNCHANGED <<camera, scene, zones, images, lock, snaps, requests, crashes, leftover, overtaken, bereft>>
  BY DEF IInv, Built, Building, Held, Publish
<1>1. Ends(h)
  BY <1>0, Returns DEF Publish
<1>2. \/ engine' = Nobody /\ UNCHANGED <<sessions, engines>>
      \/ /\ engine' \in Engines /\ engine' # Nobody /\ engine'.id = engines + 1
         /\ engine'.capture = sessions + 1 /\ engine'.active = 0
         /\ engine'.id \notin bereft => engine'.pending # Nobody \/ ~Credited(engine'.zones)
         /\ engine'.pending # Nobody => engine'.pending.confirmed = FALSE
         /\ sessions < MaxSessions /\ sessions' = sessions + 1 /\ engines' = engines + 1
  <2> DEFINE z == task[h].zones
             n == NewEngine(z)
  <2>1. z \in Zones \cup {Nobody}
    BY <1>0, TaskTypes
  <2>2. n \in Engines /\ n.id = engines + 1 /\ n.capture = sessions + 1 /\ n.active = 0 /\ n.zones = z /\ n.pending = Nobody
    BY <1>0, <2>1, Numbers DEF NewEngine, Engines
  <2>3. At(h, "bare") /\ Credited(z) => engines + 1 \in bereft
    BY <1>0 DEF IInv, Built
  <2> HIDE DEF z, n
  <2>4. CASE engine' = Nobody /\ UNCHANGED <<sessions, engines>>
    BY <2>4
  <2>5. CASE At(h, "bare") /\ engine' = n /\ sessions < MaxSessions /\ sessions' = sessions + 1 /\ engines' = engines + 1
    BY <2>2, <2>3, <2>5, SceneConstants
  <2>6. CASE /\ engine' = [n EXCEPT !.pending = [zones |-> zones, confirmed |-> FALSE]]
             /\ sessions < MaxSessions /\ sessions' = sessions + 1 /\ engines' = engines + 1
    <3>1. [zones |-> zones, confirmed |-> FALSE] \in Updates
      BY <1>0 DEF TypeOK, Updates
    <3> QED BY <2>2, <2>6, <3>1, SceneConstants DEF Engines
  <2> QED BY <1>0, <2>4, <2>5, <2>6 DEF Publish, z, n
<1>3. \A g \in Handlers : task[g].pc \notin {"persist", "retire", "tell"} /\ (g # h => task[g].pc \notin Building)
  BY <1>0, SceneConstants DEF IInv, Held, Building
<1>4. TypeOK'
  BY <1>0, <1>1, <1>2, SceneConstants DEF TypeOK, Numbered, IInv, Turn, Ends
<1>5. Held'
  BY <1>0, <1>1, <1>2, SceneConstants DEF IInv, Held, Turn, Ends
<1>6. Numbered'
  BY <1>0, <1>1, <1>2, Numbers, SceneConstants DEF IInv, Numbered, Turn, Ends
<1>7. Newest'
  BY <1>0, <1>1, <1>2, Numbers, SceneConstants DEF IInv, Newest, Held, Turn, Ends
<1>8. Placed'
  BY <1>0, <1>1, <1>2, <1>3, Numbers, SceneConstants DEF IInv, Placed, Turn, Ends
<1>9. Here'
  BY <1>0, <1>1, <1>2, <1>3, SceneConstants DEF Here, HereOf, Turn, Ends
<1>10. Session'
  BY <1>0, <1>1, <1>2, <1>3, Numbers DEF IInv, Session, SessionOf, Settled, Numbered, Turn, Ends
<1>11. Checked'
  BY <1>0, <1>1, <1>2, Numbers DEF IInv, Checked, Turn, Ends
<1>12. ZonesFollowScene'
  BY <1>0, <1>1, <1>2 DEF IInv, ZonesFollowScene, Turn, Ends
<1>13. KeyframeKept'
  BY <1>0, <1>1, <1>2, Numbers DEF IInv, KeyframeKept, Turn, Ends
<1>14. Accounted'
  BY <1>0, <1>1, <1>2, Numbers, AccountedOn DEF IInv, Accounted, Placed, Turn, Ends
<1>15. Built'
  BY <1>1, <1>3 DEF IInv, Built, Building, Turn, Ends
<1>16. Edited'
  BY <1>1, <1>2, <1>3 DEF Edited, EditedOf, Turn, Ends
<1> QED BY <1>4, <1>5, <1>6, <1>7, <1>8, <1>9, <1>10, <1>11, <1>12, <1>13, <1>14, <1>15, <1>16 DEF IInv

-----------------------------------------------------------------------------
(* The steps of the engine, and of the process.                            *)

LEMMA AppliedIs ==
    ASSUME NEW e \in Engines
    PROVE  /\ Applied(e) \in Engines /\ Applied(e).id = e.id /\ Applied(e).capture = e.capture
           /\ Applied(e).active = e.active /\ Applied(e).pending = Nobody
           /\ e.pending = Nobody => Applied(e) = e
           /\ e.pending # Nobody => /\ Applied(e).zones = e.pending.zones
                                    /\ Applied(e).review = ~e.pending.confirmed
<1>1. CASE e.pending = Nobody
  BY <1>1 DEF Applied
<1>2. CASE e.pending # Nobody
  <2>1. /\ Applied(e) = [e EXCEPT !.pending = Nobody, !.zones = e.pending.zones, !.review = ~e.pending.confirmed]
        /\ e.pending.zones \in Zones \cup {Nobody} /\ (~e.pending.confirmed) \in BOOLEAN
    BY <1>2 DEF Applied, Engines, Updates
  <2> QED BY <1>2, <2>1 DEF Engines
<1> QED BY <1>1, <1>2

LEMMA SwitchedIs ==
    ASSUME NEW e \in Engines
    PROVE  /\ Switched(e) \in Engines /\ Switched(e).id = e.id /\ Switched(e).capture = e.capture
           /\ Switched(e).active = e.capture /\ Switched(e).pending = e.pending
           /\ \/ Switched(e).zones = e.zones /\ Switched(e).review = e.review
                 /\ (e.active \in {0, e.capture} \/ ~Credited(e.zones))
              \/ Switched(e).zones = Nobody /\ Switched(e).review
<1>1. CASE e.active \notin {0, e.capture} /\ Credited(e.zones)
  BY <1>1 DEF Switched, Engines
<1>2. CASE ~(e.active \notin {0, e.capture} /\ Credited(e.zones))
  BY <1>2 DEF Switched, Engines
<1> QED BY <1>1, <1>2

\* The source connects again.
LEMMA ReconnectStep == ASSUME IInv, Reconnect PROVE IInv'
<1>0. /\ IInv /\ TypeOK
      /\ engine # Nobody /\ sessions < MaxSessions /\ sessions' = sessions + 1
      /\ UNCHANGED <<camera, scene, zones, images, runtime, lock, task, snaps, engines, requests, crashes, leftover, overtaken, bereft>>
  BY DEF IInv, Reconnect
<1>1. /\ engine' \in Engines /\ engine' # Nobody /\ engine'.id = engine.id /\ engine'.capture = sessions + 1
      /\ engine'.active = engine.active /\ engine'.review = engine.review /\ engine'.zones = engine.zones
      /\ engine'.pending = engine.pending
  BY <1>0, RecordTypes, Numbers, SceneConstants DEF Reconnect, Engines
<1>2. TypeOK'
  BY <1>0, <1>1, SceneConstants DEF TypeOK
<1>3. Held'
  BY <1>0, <1>1, SceneConstants DEF IInv, Held
<1>4. Numbered'
  BY <1>0, <1>1, Numbers, SceneConstants DEF IInv, Numbered
<1>5. Newest'
  BY <1>0, <1>1, Numbers, SceneConstants DEF IInv, Newest
<1>6. Placed'
  BY <1>0, <1>1, Numbers, SceneConstants DEF IInv, Placed
<1>7. Here'
  BY <1>0, <1>1 DEF IInv, Here, HereOf
<1>8. Session'
  BY <1>0, <1>1, Numbers DEF IInv, Session, SessionOf, Settled, Numbered
<1>9. Checked'
  BY <1>0, <1>1, Numbers DEF IInv, Checked
<1>10. ZonesFollowScene'
  BY <1>0, <1>1 DEF IInv, ZonesFollowScene
<1>11. KeyframeKept'
  BY <1>0, <1>1, Numbers DEF IInv, KeyframeKept
<1>12. Accounted'
  BY <1>0, <1>1, Numbers DEF IInv, Accounted
<1>13. Built'
  BY <1>0, <1>1 DEF IInv, Built, Building
<1>14. Edited'
  BY <1>0, <1>1 DEF IInv, Edited, EditedOf, Shaped, Waiting
<1> QED BY <1>2, <1>3, <1>4, <1>5, <1>6, <1>7, <1>8, <1>9, <1>10, <1>11, <1>12, <1>13, <1>14 DEF IInv

\* The engine shows its next frame.
LEMMA FrameStep == ASSUME IInv, Frame PROVE IInv'
<1>0. /\ IInv /\ TypeOK
      /\ engine # Nobody
      /\ engine \in Engines
      /\ overtaken' = (overtaken \/ (Saving /\ engine'.active # engine.active) \/ (engine.active = 0 /\ Credited(engine'.zones)))
      /\ UNCHANGED <<camera, scene, zones, images, runtime, lock, task, snaps, sessions, engines, requests, crashes,
                      leftover, bereft>>
  BY RecordTypes DEF IInv, Frame
<1>1. engine' = Switched(Applied(engine)) /\ Applied(engine) \in Engines
  BY <1>0, AppliedIs DEF Frame
<1>2. /\ engine' \in Engines /\ engine' # Nobody /\ engine'.id = engine.id /\ engine'.capture = engine.capture
      /\ engine'.active = engine.capture /\ engine'.pending = Nobody
  BY <1>0, <1>1, AppliedIs, SwitchedIs, SceneConstants
<1>3. TypeOK'
  BY <1>0, <1>1, <1>2, SceneConstants DEF TypeOK
<1>4. Held'
  BY <1>0, <1>1, <1>2, SceneConstants DEF IInv, Held
<1>5. Numbered'
  BY <1>0, <1>1, <1>2, Numbers, SceneConstants DEF IInv, Numbered
<1>6. Newest'
  BY <1>0, <1>1, <1>2, Numbers, SceneConstants DEF IInv, Newest
<1>7. Placed'
  BY <1>0, <1>1, <1>2, Numbers, SceneConstants DEF IInv, Placed
<1>8. Here'
  <2>1. ~Applied(engine).review /\ engine.id \notin bereft /\ Credited(Applied(engine).zones) =>
            Applied(engine).zones.engine = engine.id
    <3>1. HereOf(engine)
      BY <1>0 DEF IInv, Here
    <3>2. CASE engine.pending = Nobody
      BY <1>0, <3>1, <3>2, AppliedIs DEF HereOf
    <3>3. CASE engine.pending # Nobody
      BY <1>0, <3>1, <3>3, AppliedIs DEF HereOf
    <3> QED BY <3>2, <3>3
  <2>2. ~engine'.review /\ engine.id \notin bereft /\ Credited(engine'.zones) => engine'.zones.engine = engine.id
    BY <1>1, <2>1, SwitchedIs DEF Credited
  <2>3. engine'.active # 0
    BY <1>0, <1>2 DEF IInv, Numbered
  <2>4. HereOf(engine)'
    BY <1>0, <1>2, <2>2, <2>3 DEF HereOf
  <2> QED BY <1>0, <1>2, <2>4 DEF IInv, Here
<1>9. Session'
  <2> SUFFICES ASSUME ~overtaken'
               PROVE  /\ SessionOf(engine')
                      /\ \A h \in Handlers :
                            /\ At(h, "checked")' /\ task'[h].engine = engine'.id /\ Settled(engine') =>
                                   task'[h].session = engine'.active
                            /\ At(h, "tell")' /\ Credited(zones') /\ Settled(engine') =>
                                   zones'.session = engine'.active
    BY DEF Session
  <2>1. /\ ~overtaken /\ (Saving => engine'.active = engine.active)
        /\ (engine.active = 0 => ~Credited(engine'.zones))
    BY <1>0
  <2>2. SessionOf(engine)
    BY <1>0, <2>1 DEF IInv, Session
  <2>3. ASSUME ~engine'.review, Credited(engine'.zones)
        PROVE  engine'.zones.session = engine'.active
    <3>1. /\ engine'.zones = Applied(engine).zones /\ ~Applied(engine).review
          /\ Applied(engine).active \in {0, Applied(engine).capture}
      BY <1>1, <2>3, SwitchedIs DEF Credited
    <3>2. Settled(engine)
      BY <1>0, <2>1, <2>3, <3>1, AppliedIs DEF Settled
    <3>3. CASE engine.pending = Nobody
      BY <1>0, <1>2, <2>2, <2>3, <3>1, <3>2, <3>3, AppliedIs DEF SessionOf, Settled
    <3>4. CASE engine.pending # Nobody
      BY <1>0, <1>2, <2>2, <2>3, <3>1, <3>2, <3>4, AppliedIs DEF SessionOf, Settled
    <3> QED BY <3>3, <3>4
  <2>4. SessionOf(engine')
    BY <1>2, <2>3 DEF SessionOf
  <2>5. ASSUME NEW h \in Handlers, task[h].pc \in {"checked", "tell"}
        PROVE  engine'.active = engine.active /\ (Settled(engine') => Settled(engine))
    <3>1. Saving
      BY <2>5 DEF Saving
    <3> QED BY <1>2, <2>1, <3>1 DEF Settled
  <2> QED BY <1>0, <1>2, <2>1, <2>4, <2>5 DEF IInv, Session
<1>10. Checked'
  BY <1>0, <1>1, <1>2, Numbers DEF IInv, Checked
<1>11. ZonesFollowScene'
  BY <1>0, <1>1, <1>2 DEF IInv, ZonesFollowScene
<1>12. KeyframeKept'
  BY <1>0, <1>1, <1>2, Numbers DEF IInv, KeyframeKept
<1>13. Accounted'
  BY <1>0, <1>1, <1>2, Numbers DEF IInv, Accounted
<1>14. Built'
  BY <1>0, <1>1 DEF IInv, Built, Building
<1>15. Edited'
  <2>1. EditedOf(engine) /\ HereOf(engine)
    BY <1>0 DEF IInv, Edited, Here
  <2>2. ~Applied(engine).review /\ engine.id \notin bereft => Shaped(Applied(engine).zones)
    <3>1. CASE engine.pending = Nobody
      BY <1>0, <2>1, <3>1, AppliedIs DEF EditedOf, HereOf, Shaped
    <3>2. CASE engine.pending # Nobody
      BY <1>0, <2>1, <3>2, AppliedIs DEF EditedOf
    <3> QED BY <3>1, <3>2
  <2>3. ~engine'.review /\ engine.id \notin bereft => Shaped(engine'.zones)
    BY <1>1, <2>2, SwitchedIs DEF Shaped, Credited
  <2>4. Waiting => Waiting'
    BY <1>0 DEF Waiting
  <2>5. EditedOf(engine)'
    BY <1>0, <1>2, <2>3, <2>4 DEF EditedOf, Shaped
  <2> QED BY <1>0, <1>2, <2>4, <2>5 DEF IInv, Edited, Shaped
<1> QED BY <1>3, <1>4, <1>5, <1>6, <1>7, <1>8, <1>9, <1>10, <1>11, <1>12, <1>13, <1>14, <1>15 DEF IInv

\* The view has shifted.
LEMMA ShiftedStep == ASSUME IInv, Shifted PROVE IInv'
<1>0. /\ IInv /\ TypeOK
      /\ engine # Nobody
      /\ UNCHANGED <<camera, scene, zones, images, runtime, lock, task, snaps, sessions, engines, requests, crashes, leftover, overtaken, bereft>>
  BY DEF IInv, Shifted
<1>1. /\ engine' \in Engines /\ engine' # Nobody /\ engine'.id = engine.id /\ engine'.capture = engine.capture
      /\ engine'.active = engine.active /\ engine'.review = TRUE /\ engine'.zones = Nobody
      /\ engine'.pending = engine.pending /\ ~Credited(engine'.zones)
  BY <1>0, RecordTypes, SceneConstants DEF Shifted, Engines, Credited
<1>2. TypeOK'
  BY <1>0, <1>1, SceneConstants DEF TypeOK
<1>3. Held'
  BY <1>0, <1>1, SceneConstants DEF IInv, Held
<1>4. Numbered'
  BY <1>0, <1>1, Numbers, SceneConstants DEF IInv, Numbered
<1>5. Newest'
  BY <1>0, <1>1, Numbers, SceneConstants DEF IInv, Newest
<1>6. Placed'
  BY <1>0, <1>1, Numbers, SceneConstants DEF IInv, Placed
<1>7. Here'
  BY <1>0, <1>1 DEF IInv, Here, HereOf
<1>8. Session'
  BY <1>0, <1>1, Numbers DEF IInv, Session, SessionOf, Settled
<1>9. Checked'
  BY <1>0, <1>1, Numbers DEF IInv, Checked
<1>10. ZonesFollowScene'
  BY <1>0, <1>1 DEF IInv, ZonesFollowScene
<1>11. KeyframeKept'
  BY <1>0, <1>1, Numbers DEF IInv, KeyframeKept
<1>12. Accounted'
  BY <1>0, <1>1, Numbers DEF IInv, Accounted
<1>13. Built'
  BY <1>0, <1>1 DEF IInv, Built, Building
<1>14. Edited'
  BY <1>0, <1>1 DEF IInv, Edited, EditedOf, Shaped, Waiting
<1> QED BY <1>2, <1>3, <1>4, <1>5, <1>6, <1>7, <1>8, <1>9, <1>10, <1>11, <1>12, <1>13, <1>14 DEF IInv

\* The process dies; a deletion that was asked for goes on.
LEMMA CrashStep == ASSUME IInv, Crash PROVE IInv'
<1>0. /\ IInv /\ TypeOK
      /\ crashes < MaxCrashes /\ crashes' = crashes + 1
      /\ engine' = Nobody /\ runtime' = Nobody /\ lock' = Nobody
      /\ UNCHANGED <<camera, snaps, sessions, engines, requests, leftover, overtaken, bereft>>
  BY DEF IInv, Crash
<1>1. /\ task' \in [Handlers -> Tasks]
      /\ \A h \in Handlers : /\ task'[h].pc = "idle" /\ task'[h].engine = 0 /\ task'[h].image = 0
                             /\ task'[h].seen = Nobody
  <2>1. NoTask \in Tasks
    BY DEF NoTask, Tasks, Steps
  <2>2. task' = [h \in Handlers |-> NoTask]
    BY DEF Crash
  <2>3. task' \in [Handlers -> Tasks] /\ \A h \in Handlers : task'[h] = NoTask
    BY <2>1, <2>2
  <2> QED BY <2>3 DEF NoTask
<1>2. /\ images' \subseteq images
      /\ \/ scene' = Nobody /\ ~Credited(zones') /\ zones' = Nobody
         \/ Softened /\ (Pending(scene') \/ (images' = images /\ scene' = scene))
  <2>1. CASE UNCHANGED <<scene, zones, images>>
    BY <1>0, <2>1, FadesSoftens
  <2>2. CASE Pending(scene) /\ scene' = Nobody /\ zones' = Nobody /\ images' = images \ {scene.snap}
    BY <2>2 DEF Credited
  <2>3. CASE /\ Pending(scene) /\ scene' = Marked(scene) /\ zones' = Unconfirmed(zones)
             /\ images' \in {images, images \ {scene.snap}}
    <3>1. Fades("pending_delete")
      BY <1>0, <2>3, MarkedFades DEF Pending
    <3>2. Softened /\ Pending(scene')
      BY <1>0, <3>1, FadesSoftens, SceneConstants DEF Fades, Pending
    <3> QED BY <2>3, <3>2
  <2> QED BY <2>1, <2>2, <2>3 DEF Crash, Pending
<1>3. TypeOK'
  BY <1>0, <1>1, <1>2, SceneConstants DEF TypeOK, Softened
<1>4. Held'
  BY <1>0, <1>1, <1>2, SceneConstants DEF IInv, Held
<1>5. Numbered'
  BY <1>0, <1>1, <1>2, Numbers, SceneConstants DEF IInv, Numbered, Softened
<1>6. Newest'
  BY <1>0, <1>1, <1>2, Numbers, SceneConstants DEF IInv, Newest
<1>7. Placed'
  BY <1>0, <1>1, <1>2, Numbers, SceneConstants DEF IInv, Placed
<1>8. Here'
  BY <1>0, <1>1, <1>2 DEF IInv, Here
<1>9. Session'
  BY <1>0, <1>1, <1>2, Numbers DEF IInv, Session
<1>10. Checked'
  BY <1>0, <1>1, <1>2, Numbers DEF IInv, Checked
<1>11. ZonesFollowScene'
  BY <1>0, <1>1, <1>2 DEF IInv, ZonesFollowScene, Softened
<1>12. KeyframeKept'
  BY <1>0, <1>1, <1>2, Numbers DEF IInv, KeyframeKept, Softened, Pending
<1>13. Accounted'
  BY <1>0 DEF TypeOK, Accounted
<1>14. Built'
  BY <1>0, <1>1 DEF IInv, Built, Building
<1>15. Edited'
  BY <1>0, <1>1 DEF IInv, Edited, EditedOf, Shaped, Waiting
<1> QED BY <1>3, <1>4, <1>5, <1>6, <1>7, <1>8, <1>9, <1>10, <1>11, <1>12, <1>13, <1>14, <1>15 DEF IInv

-----------------------------------------------------------------------------
(* The invariant.                                                          *)

LEMMA InitOK == Init => IInv
<1> SUFFICES ASSUME Init PROVE IInv
  OBVIOUS
<1>1. NoTask \in Tasks
  BY DEF NoTask, Tasks, Steps
<1>2. task \in [Handlers -> Tasks] /\ \A h \in Handlers : task[h] = NoTask
  BY <1>1 DEF Init
<1>3. \A h \in Handlers : /\ task[h].pc = "idle" /\ task[h].engine = 0 /\ task[h].image = 0
                          /\ task[h].seen = Nobody
  BY <1>2 DEF NoTask
<1>4. /\ engine \in Engines /\ engine.id = 1 /\ engine.capture = 1 /\ engine.active = 1
      /\ engine.zones = Nobody /\ engine.pending = Nobody
  BY DEF Init, Engines
<1>5. /\ camera = 1 /\ scene = Nobody /\ zones = Nobody /\ images = {} /\ runtime = Nobody /\ lock = Nobody
      /\ snaps = 0 /\ sessions = 1 /\ engines = 1 /\ requests = 0 /\ crashes = 0
      /\ leftover = {} /\ overtaken = FALSE /\ bereft = {}
  BY DEF Init
<1>6. TypeOK
  <2>1. MaxRequests \in Nat /\ MaxSessions \in Nat /\ MaxCrashes \in Nat /\ MaxSessions # 0
    BY SceneConstants
  <2>2. 0 \in 0 .. MaxRequests /\ 0 \in 0 .. MaxCrashes /\ 1 \in 1 .. MaxSessions
    BY <2>1
  <2>3. requests \in 0 .. MaxRequests /\ {sessions, engines} \subseteq 1 .. MaxSessions /\ crashes \in 0 .. MaxCrashes
    BY <1>5, <2>2
  <2> QED BY <1>2, <1>4, <1>5, <2>3 DEF TypeOK
<1>7. Held /\ Newest /\ Placed /\ Checked
  BY <1>3, <1>5, SceneConstants DEF Held, Newest, Placed, Checked
<1>8. Numbered
  BY <1>3, <1>4, <1>5 DEF Numbered
<1>9. ~Credited(Nobody)
  BY DEF Credited
<1>10. Here /\ Session /\ ZonesFollowScene
  BY <1>3, <1>4, <1>5, <1>9 DEF Here, HereOf, Session, SessionOf, ZonesFollowScene
<1>11. KeyframeKept /\ Accounted
  BY <1>5 DEF KeyframeKept, Accounted
<1>12. Built /\ Edited
  BY <1>3, <1>4, <1>9 DEF Built, Building, Edited, EditedOf, Shaped
<1> QED BY <1>6, <1>7, <1>8, <1>10, <1>11, <1>12 DEF IInv

LEMMA StutterStep == ASSUME IInv, UNCHANGED vars PROVE IInv'
<1>1. UNCHANGED <<camera, scene, zones, images, engine, runtime, lock, task, snaps, sessions, engines, requests,
                  crashes, leftover, overtaken, bereft>>
  BY DEF vars
<1>2. TypeOK' /\ Held' /\ Numbered' /\ Newest' /\ Placed'
  BY <1>1 DEF IInv, TypeOK, Held, Numbered, Newest, Placed, Pending
<1>3. Here' /\ Session' /\ Checked' /\ ZonesFollowScene' /\ KeyframeKept' /\ Accounted'
  BY <1>1 DEF IInv, Here, HereOf, Session, Checked, ZonesFollowScene, KeyframeKept, Accounted
<1>4. Built' /\ Edited'
  BY <1>1 DEF IInv, Built, Edited, EditedOf, Shaped, Waiting
<1> QED BY <1>2, <1>3, <1>4 DEF IInv

LEMMA HandlerStep ==
    ASSUME IInv, NEW h \in Handlers, Proposes(h) \/ Saves(h) \/ Edits(h) \/ Starts(h) \/ Removes(h)
    PROVE  IInv'
<1>1. CASE Proposes(h)
  BY <1>1, ProposeStep, PersistStep, PersistFailsStep, RetireStep DEF Proposes
<1>2. CASE Saves(h)
  BY <1>2, CheckSaveStep, SaveStep, TellStep DEF Saves
<1>3. CASE Edits(h)
  BY <1>3, LookStep, WithdrawStep, PatchStep, EditZoneStep, StopStep, StartRefusedStep DEF Edits
<1>4. CASE Removes(h)
  BY <1>4, RemoveStep, MarkStep, UnlinkStep, FinishStep, RemoveRefusedStep, RemoveFailsStep, DropStep, ForgetStep DEF Removes
<1>5. CASE Starts(h)
  BY <1>5, BuildStep, ReviewStep, ReviewedStep, PublishStep DEF Starts
<1> QED BY <1>1, <1>2, <1>3, <1>4, <1>5

\* The rows, the engine, the keyframes and the handlers always fit together.
THEOREM Invariant == Spec => []IInv
<1>1. Init => IInv
  BY InitOK
<1>2. IInv /\ [Next]_vars => IInv'
  BY StutterStep, HandlerStep, BeginStep, ReconnectStep, FrameStep, ShiftedStep, CrashStep DEF Next
<1> QED BY <1>1, <1>2, PTL DEF Spec

-----------------------------------------------------------------------------
(* The theorems.                                                           *)

\* A movement is credited to a surface only if its user confirmed it in this
\* run of the engine, on a picture of the session the frames are of; and the
\* zones the database trusts are those of the scene it has.
THEOREM CreditSoundAlways == Spec => []CreditSound
<1>1. IInv => CreditSound
  <2> SUFFICES ASSUME IInv PROVE CreditSound
    OBVIOUS
  <2>1. TypeOK
    BY DEF IInv
  <2>2. ConfirmedHere
    BY DEF IInv, Here, HereOf, ConfirmedHere, Credits
  <2>3. SupportOfSession
    BY DEF IInv, Session, SessionOf, SupportOfSession, Credits
  <2>4. ZonesFollowScene
    BY DEF IInv
  <2>5. EditSettles
    BY DEF IInv, Edited, EditedOf, Shaped, Waiting, EditSettles, Credits
  <2> QED BY <2>1, <2>2, <2>3, <2>4, <2>5 DEF CreditSound
<1> QED BY <1>1, Invariant, PTL

\* A scene has its keyframe whatever failed or died while it was replaced, and
\* while the process lives no keyframe is left without a scene or a handler.
THEOREM ImagesSoundAlways == Spec => []ImagesSound
<1>1. IInv => ImagesSound
  BY DEF IInv, ImagesSound, Accounted, ImagesAccounted
<1> QED BY <1>1, Invariant, PTL

\* A scene whose deletion was asked for is deleted or stays pending, whichever
\* edit, review or restart meets it half deleted.
THEOREM DeletionFinalAlways == Spec => DeletionFinal
<1>1. ASSUME IInv, Next, Pending(scene) PROVE scene' = Nobody \/ Pending(scene')
  <2>1. scene # Nobody /\ TypeOK
    BY <1>1 DEF Pending, IInv
  <2>2. CASE UNCHANGED scene
    BY <1>1, <2>2
  <2>3. CASE \E h \in Handlers : Persist(h)
    BY <1>1, <2>3 DEF IInv, Placed, Persist
  <2>4. CASE Softened
    BY <1>1, <2>1, <2>4 DEF Softened
  <2>5. ASSUME Invalidate PROVE Softened
    BY <2>1, <2>5, InvalidateFades, FadesSoftens
  <2>6. ASSUME NEW h \in Handlers, Save(h) PROVE UNCHANGED scene
    BY <1>1, <2>6 DEF Save, EditFits, Pending
  <2>7. ASSUME NEW h \in Handlers, Starts(h) PROVE UNCHANGED scene \/ Softened
    BY <2>5, <2>7 DEF Starts, Build, Review, Reviewed, Publish
  <2>8. ASSUME NEW h \in Handlers, Mark(h) PROVE UNCHANGED scene \/ Softened
    BY <2>1, <2>8, MarkedFades, FadesSoftens DEF Mark
  <2>9. ASSUME NEW h \in Handlers, Finish(h) PROVE scene' = Nobody
    BY <2>9 DEF Finish
  <2>10. ASSUME Crash PROVE scene' = Nobody \/ Softened \/ UNCHANGED scene
    BY <2>1, <2>10, MarkedFades, FadesSoftens DEF Crash
  <2> QED
    BY <1>1, <2>2, <2>3, <2>4, <2>5, <2>6, <2>7, <2>8, <2>9, <2>10
    DEF Next, Proposes, Saves, Edits, Removes, Begin, Propose, PersistFails, Retire, CheckSave, Tell, Look, Withdraw,
        Patch, EditZone, Stop, StartRefused, Remove, Unlink, RemoveRefused, RemoveFails, Drop, Forget, Reconnect, Frame, Shifted
<1>2. IInv /\ [Next]_vars => [Pending(scene) => scene' = Nobody \/ Pending(scene')]_vars
  BY <1>1
<1> QED BY <1>2, Invariant, PTL DEF Spec, DeletionFinal
=============================================================================
