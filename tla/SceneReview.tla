----------------------------- MODULE SceneReview -----------------------------
(***************************************************************************)
(* The scene of one camera: a keyframe, the support surfaces a user draws  *)
(* on it and confirms, and the zones the running engine credits with them  *)
(* (scene.py, the scene, camera and zone routes of main.py, engine.py).    *)
(*                                                                         *)
(* A confirmation is worth what the picture it was drawn on is worth.  A   *)
(* reconnection, a shifted view, an edit of the camera or a restart        *)
(* withdraws it, in the database and in the engine, and each of the two    *)
(* learns of it on its own: the routes under Runtime.lock or               *)
(* SceneService.lock, the engine at the boundary of its next frame.        *)
(*                                                                         *)
(* Keyframes, sessions and engines are numbered in the order they appear.  *)
(* The process may be killed between any two steps.                        *)
(***************************************************************************)
EXTENDS Naturals, FiniteSets

CONSTANTS Handlers,    \* threads that serve routes
          Nobody,      \* owner of a free lock, and every other "none"
          Operations,  \* the routes that are called
          MaxRequests, \* calls of routes
          MaxSessions, \* connections of the camera's source
          MaxCrashes

Statuses == {"needs_confirmation", "confirmed", "needs_review", "pending_delete"}
Routes == {"propose", "draft", "save", "look", "patch", "zone", "start", "stop", "remove"}
Scenes == [version : Nat, snap : Nat, session : Nat, sig : Nat, status : Statuses]
Zones == [version : Nat, snap : Nat, session : Nat, engine : Nat, confirmed : BOOLEAN, edited : BOOLEAN]
Updates == [zones : Zones \cup {Nobody}, confirmed : BOOLEAN]
Engines == [id : Nat, capture : Nat, active : Nat, review : BOOLEAN, zones : Zones \cup {Nobody},
            pending : Updates \cup {Nobody}]
Steps == Routes \cup {"idle", "editing", "checked", "tell", "persist", "retire", "withdraw", "built", "review", "told",
                      "bare", "mark", "unlink", "finish", "drop", "forget"}
Tasks == [op : Routes \cup {"none"}, pc : Steps, camera : Nat \cup {Nobody}, engine : Nat, session : Nat,
          seen : Scenes \cup {Nobody}, image : Nat, zones : Zones \cup {Nobody}]

ASSUME SceneConstants ==
    /\ Nobody \notin Handlers \cup Nat \cup Scenes \cup Zones \cup Updates \cup Engines
    /\ Operations \subseteq Routes
    /\ {MaxRequests, MaxSessions, MaxCrashes} \subseteq Nat /\ MaxSessions # 0

VARIABLES camera,   \* configuration of the camera's row, or Nobody
          scene,    \* the row of the scene, or Nobody
          zones,    \* the zones the scene owns, or Nobody
          images,   \* keyframes on disk
          engine,   \* the running engine, or Nobody
          runtime,  \* owner of Runtime.lock
          lock,     \* owner of SceneService.lock
          task,     \* what each handler does
          snaps, sessions, engines, \* keyframes, sessions and engines so far
          requests, crashes,
          leftover, \* ghost: keyframes whose removal was tried and failed
          overtaken, \* ghost: a save was checked against a session the engine has left, or had not yet seen
          bereft    \* ghost: engines built on confirmed zones whose scene was deleted before they looked for it

rows == <<camera, scene, zones>>
locks == <<runtime, lock>>
counters == <<snaps, sessions, engines, requests, crashes>>
ghosts == <<leftover, overtaken, bereft>>
vars == <<rows, images, engine, locks, task, counters, ghosts>>

-----------------------------------------------------------------------------
(* Handlers. *)

NoTask == [op |-> "none", pc |-> "idle", camera |-> Nobody, engine |-> 0, session |-> 0, seen |-> Nobody, image |-> 0,
           zones |-> Nobody]
At(h, pc) == task[h].pc = pc
Move(h, pc) == task' = [task EXCEPT ![h] = [@ EXCEPT !.pc = pc]]
Take(h, pc, i) == task' = [task EXCEPT ![h] = [@ EXCEPT !.pc = pc, !.image = i]]
Return(h) == task' = [task EXCEPT ![h] = NoTask]
RunningId == IF engine = Nobody THEN 0 ELSE engine.id

(* The engine and the configuration a route began with are still those.    *)
SameSource(h) == task[h].engine = RunningId /\ task[h].engine # 0 /\ task[h].camera = camera

FirstStep(op) == CASE op = "save" -> "editing" [] op = "look" -> "look" [] op = "patch" -> "patch"
                   [] op = "zone" -> "zone" [] op = "start" -> "start" [] op = "stop" -> "stop"
                   [] op = "remove" -> "remove" [] OTHER -> "propose"

(* scene_packet: a proposal needs a picture; an edit begins with the scene *)
(* its user looks at.                                                      *)
Begin(h, op) ==
    /\ At(h, "idle") /\ requests < MaxRequests /\ camera # Nobody
    /\ op \in {"propose", "draft"} => engine # Nobody
    /\ op = "save" => scene # Nobody
    /\ requests' = requests + 1
    /\ task' = [task EXCEPT ![h] = [op |-> op, pc |-> FirstStep(op), camera |-> camera, engine |-> RunningId,
                                     session |-> IF engine = Nobody THEN 0 ELSE engine.capture,
                                     seen |-> IF op = "save" THEN scene ELSE Nobody, image |-> 0, zones |-> Nobody]]
    /\ UNCHANGED <<rows, images, engine, locks, snaps, sessions, engines, crashes, ghosts>>

-----------------------------------------------------------------------------
(* The rows.  Each change opens the next version of the scene and, but for *)
(* a save, takes the confirmation from its zones in the same transaction.  *)

Trusted == {"confirmed"}
Credited(z) == z # Nobody /\ z.confirmed
Unconfirmed(z) == IF z = Nobody THEN Nobody ELSE [z EXCEPT !.confirmed = FALSE]
Changed(s, sig, status) ==
    [version |-> s.version + 1, snap |-> s.snap, session |-> s.session, sig |-> sig, status |-> status]
Invalidated(s) == Changed(s, camera, "needs_review")

(* invalidate, under a lock no other operation of the service holds. *)
Invalidate ==
    /\ lock = Nobody
    /\ IF scene = Nobody \/ camera = Nobody \/ (scene # Nobody /\ scene.status = "pending_delete")
       THEN UNCHANGED <<scene, zones>>
       ELSE scene' = Invalidated(scene) /\ zones' = Unconfirmed(zones)

-----------------------------------------------------------------------------
(* propose: the file, the row, the old file. *)

MutantProposalFits(h) == SameSource(h) /\ (scene # Nobody => task[h].op = "propose")

ProposalFits(h) ==
    /\ SameSource(h)
    /\ scene # Nobody => task[h].op = "propose" /\ scene.status # "pending_delete"

MutantPropose(h) ==
    /\ At(h, "propose") /\ runtime = Nobody /\ lock = Nobody
    /\ IF ProposalFits(h)
       THEN /\ runtime' = h /\ lock' = h
            /\ snaps' = snaps + 1 /\ images' = {snaps + 1}
            /\ Take(h, "persist", snaps + 1)
       ELSE Return(h) /\ UNCHANGED <<locks, snaps, images>>
    /\ UNCHANGED <<rows, engine, sessions, engines, requests, crashes, ghosts>>

Propose(h) ==
    /\ At(h, "propose") /\ runtime = Nobody /\ lock = Nobody
    /\ IF ProposalFits(h)
       THEN /\ runtime' = h /\ lock' = h
            /\ snaps' = snaps + 1 /\ images' = images \cup {snaps + 1}
            /\ Take(h, "persist", snaps + 1)
       ELSE Return(h) /\ UNCHANGED <<locks, snaps, images>>
    /\ UNCHANGED <<rows, engine, sessions, engines, requests, crashes, ghosts>>

Persist(h) ==
    /\ At(h, "persist") /\ camera # Nobody
    /\ scene' = [version |-> IF scene = Nobody THEN 1 ELSE scene.version + 1, snap |-> task[h].image,
                 session |-> task[h].session, sig |-> camera, status |-> "needs_confirmation"]
    /\ zones' = Unconfirmed(zones)
    /\ Take(h, "retire", IF scene = Nobody THEN 0 ELSE scene.snap)
    /\ UNCHANGED <<camera, images, engine, locks, counters, ghosts>>

(* The removal of a picture may fail.  That of a new one whose row was not *)
(* written raises again, that of the old one is a warning in the answer.   *)
Discard(i) ==
    \/ images' = images \ {i} /\ UNCHANGED leftover
    \/ i \in images /\ leftover' = leftover \cup {i} /\ UNCHANGED images

MutantPersistFails(h) ==
    /\ At(h, "persist")
    /\ runtime' = Nobody /\ lock' = Nobody
    /\ Return(h)
    /\ UNCHANGED <<rows, images, engine, counters, ghosts>>

PersistFails(h) ==
    /\ At(h, "persist")
    /\ Discard(task[h].image)
    /\ runtime' = Nobody /\ lock' = Nobody
    /\ Return(h)
    /\ UNCHANGED <<rows, engine, counters, overtaken, bereft>>

(* update_scene replaces whatever update still waits. *)
Told(confirmed) == [engine EXCEPT !.pending = [zones |-> zones, confirmed |-> confirmed]]
Retire(h) ==
    /\ At(h, "retire")
    /\ Discard(task[h].image)
    /\ engine' = Told(FALSE)
    /\ runtime' = Nobody /\ lock' = Nobody
    /\ Return(h)
    /\ UNCHANGED <<rows, counters, overtaken, bereft>>

-----------------------------------------------------------------------------
(* The save of an edit. *)

(* The picture now shown belongs to the scene's session, and shows what    *)
(* the keyframe shows; a changed view withdraws the scene.                 *)
CheckSave(h) ==
    /\ At(h, "editing")
    /\ IF engine # Nobody /\ camera # Nobody /\ scene # Nobody /\ engine.capture = scene.session
       THEN \/ /\ task' = [task EXCEPT ![h] = [@ EXCEPT !.pc = "checked", !.camera = camera, !.engine = engine.id,
                                                      !.session = engine.capture]]
               /\ UNCHANGED <<scene, zones>>
            \/ Invalidate /\ Return(h)
       ELSE Return(h) /\ UNCHANGED <<scene, zones>>
    /\ UNCHANGED <<camera, images, engine, locks, counters, ghosts>>

MutantEditFits(h) ==
    SameSource(h) /\ scene # Nobody /\ scene.status \notin {"needs_review", "pending_delete"} /\ scene.snap \in images

EditFits(h) ==
    /\ SameSource(h)
    /\ scene # Nobody /\ scene.status \notin {"needs_review", "pending_delete"}
    /\ scene.version = task[h].seen.version /\ scene.snap = task[h].seen.snap /\ scene.sig = camera
    /\ scene.snap \in images

Save(h) ==
    /\ At(h, "checked") /\ runtime = Nobody /\ lock = Nobody
    /\ IF EditFits(h)
       THEN /\ scene' = Changed(scene, scene.sig, "confirmed")
            /\ zones' = [version |-> scene.version + 1, snap |-> task[h].seen.snap, session |-> scene.session,
                         engine |-> task[h].engine, confirmed |-> TRUE, edited |-> FALSE]
            /\ runtime' = h /\ Move(h, "tell")
       ELSE Return(h) /\ UNCHANGED <<scene, zones, runtime>>
    /\ UNCHANGED <<camera, images, engine, lock, counters, ghosts>>

Tell(h) ==
    /\ At(h, "tell")
    /\ engine' = Told(TRUE)
    /\ runtime' = Nobody
    /\ Return(h)
    /\ UNCHANGED <<rows, images, lock, counters, ghosts>>

-----------------------------------------------------------------------------
(* A look at a trusted scene (get_scene, track) reports the review its     *)
(* engine asks for.                                                        *)

Look(h) ==
    /\ At(h, "look")
    /\ IF scene # Nobody /\ scene.status \in Trusted /\ engine # Nobody /\ engine.review
       THEN Move(h, "withdraw") ELSE Return(h)
    /\ UNCHANGED <<rows, images, engine, locks, counters, ghosts>>

Withdraw(h) ==
    /\ At(h, "withdraw") /\ Invalidate
    /\ IF task[h].op = "patch" THEN Move(h, "stop") ELSE Return(h)
    /\ UNCHANGED <<camera, images, engine, locks, counters, ghosts>>

(* patch_camera with another source: the row is written whole, so that of  *)
(* a camera deleted meanwhile comes back.                                  *)
Patch(h) ==
    /\ At(h, "patch") /\ runtime = Nobody
    /\ camera' = (IF camera = Nobody THEN task[h].camera ELSE camera) + 1
    /\ Move(h, "withdraw")
    /\ UNCHANGED <<scene, zones, images, engine, locks, counters, ghosts>>

MutantEditZone(h) ==
    /\ At(h, "zone")
    /\ zones # Nobody /\ zones' = [zones EXCEPT !.edited = TRUE]
    /\ Return(h)
    /\ UNCHANGED <<camera, scene, images, engine, locks, counters, ghosts>>

(* The zone routes: another zone is added, the scene's are edited where    *)
(* they are, with the confirmation they had, or they are deleted.  The     *)
(* camera is restarted afterwards.                                         *)
EditZone(h) ==
    /\ At(h, "zone")
    /\ \/ UNCHANGED zones
       \/ zones # Nobody /\ zones' = [zones EXCEPT !.edited = TRUE]
       \/ zones' = Nobody
    /\ Move(h, "stop")
    /\ UNCHANGED <<camera, scene, images, engine, locks, counters, ghosts>>

(* Runtime.stop, and what its caller goes on with. *)
Stop(h) ==
    /\ At(h, "stop") /\ runtime = Nobody
    /\ engine' = Nobody
    /\ IF task[h].op \in {"patch", "zone"} THEN Move(h, "start") ELSE Return(h)
    /\ UNCHANGED <<rows, images, locks, counters, ghosts>>

(* Runtime.start: the engine is built on the zones of the database; a      *)
(* saved scene then needs a new review, and the new engine is told before  *)
(* its first frame.  A deletion of the scene takes no part in Runtime.lock.*)
NewEngine(z) == [id |-> engines + 1, capture |-> sessions + 1, active |-> 0, review |-> FALSE, zones |-> z, pending |-> Nobody]

(* Refused: running, gone, disabled, or the device is taken. *)
StartRefused(h) ==
    /\ At(h, "start") /\ runtime = Nobody
    /\ Return(h)
    /\ UNCHANGED <<rows, images, engine, locks, counters, ghosts>>

Build(h) ==
    /\ At(h, "start") /\ runtime = Nobody
    /\ engine = Nobody /\ camera # Nobody
    /\ runtime' = h
    /\ task' = [task EXCEPT ![h] = [@ EXCEPT !.pc = "built", !.zones = zones]]
    /\ UNCHANGED <<rows, images, engine, lock, counters, ghosts>>

MutantReview(h) ==
    /\ At(h, "built")
    /\ Move(h, "bare")
    /\ UNCHANGED <<rows, images, engine, locks, counters, ghosts>>

Review(h) ==
    /\ At(h, "built")
    /\ Move(h, IF scene = Nobody THEN "bare" ELSE IF scene.status = "needs_review" THEN "told" ELSE "review")
    /\ bereft' = IF scene = Nobody /\ Credited(task[h].zones) THEN bereft \cup {engines + 1} ELSE bereft \ {engines + 1}
    /\ UNCHANGED <<rows, images, engine, locks, counters, leftover, overtaken>>

Reviewed(h) ==
    /\ At(h, "review") /\ Invalidate
    /\ Move(h, "told")
    /\ UNCHANGED <<camera, images, engine, locks, counters, ghosts>>

Publish(h) ==
    /\ At(h, "told") \/ At(h, "bare")
    /\ \/ /\ sessions < MaxSessions
          /\ engine' = IF At(h, "bare") THEN NewEngine(task[h].zones)
                       ELSE [NewEngine(task[h].zones) EXCEPT !.pending = [zones |-> zones, confirmed |-> FALSE]]
          /\ sessions' = sessions + 1 /\ engines' = engines + 1
       \/ UNCHANGED <<engine, sessions, engines>>
    /\ runtime' = Nobody
    /\ Return(h)
    /\ UNCHANGED <<rows, images, lock, snaps, requests, crashes, ghosts>>

-----------------------------------------------------------------------------
(* delete_camera: the engine, then the scene in two phases, then the row.  *)

Remove(h) ==
    /\ At(h, "remove") /\ runtime = Nobody
    /\ engine' = Nobody
    /\ Move(h, "mark")
    /\ UNCHANGED <<rows, images, locks, counters, ghosts>>

Marked(s) == Changed(s, s.sig, "pending_delete")
Mark(h) ==
    /\ At(h, "mark") /\ lock = Nobody
    /\ IF scene = Nobody
       THEN Move(h, "drop") /\ UNCHANGED <<scene, zones, lock>>
       ELSE /\ scene' = Marked(scene) /\ zones' = Unconfirmed(zones)
            /\ lock' = h /\ Move(h, "unlink")
    /\ UNCHANGED <<camera, images, engine, runtime, counters, ghosts>>

Unlink(h) ==
    /\ At(h, "unlink")
    /\ images' = images \ {scene.snap}
    /\ Move(h, "finish")
    /\ UNCHANGED <<rows, engine, locks, counters, ghosts>>

Finish(h) ==
    /\ At(h, "finish")
    /\ scene' = Nobody /\ zones' = Nobody
    /\ lock' = Nobody
    /\ Move(h, "drop")
    /\ UNCHANGED <<camera, images, engine, runtime, counters, ghosts>>

(* A camera with events is kept. *)
RemoveRefused(h) ==
    /\ At(h, "mark")
    /\ Return(h)
    /\ UNCHANGED <<rows, images, engine, locks, counters, ghosts>>

(* A file or a row that cannot be deleted leaves the scene pending. *)
RemoveFails(h) ==
    /\ At(h, "unlink") \/ At(h, "finish")
    /\ lock' = Nobody
    /\ Return(h)
    /\ UNCHANGED <<rows, images, engine, runtime, counters, ghosts>>

Drop(h) ==
    /\ At(h, "drop")
    /\ zones' = Nobody
    /\ Move(h, "forget")
    /\ UNCHANGED <<camera, scene, images, engine, locks, counters, ghosts>>

Forget(h) ==
    /\ At(h, "forget")
    /\ camera' = Nobody
    /\ Return(h)
    /\ UNCHANGED <<scene, zones, images, engine, locks, counters, ghosts>>

-----------------------------------------------------------------------------
(* The engine. *)

Reconnect ==
    /\ engine # Nobody /\ sessions < MaxSessions
    /\ sessions' = sessions + 1
    /\ engine' = [engine EXCEPT !.capture = sessions + 1]
    /\ UNCHANGED <<rows, images, locks, task, snaps, engines, requests, crashes, ghosts>>

(* A frame: the update that waits, then the session of the frame. *)
Applied(e) ==
    IF e.pending = Nobody THEN e
    ELSE [e EXCEPT !.pending = Nobody, !.zones = e.pending.zones, !.review = ~e.pending.confirmed]
MutantSwitched(e) == [e EXCEPT !.active = e.capture]
Switched(e) ==
    IF e.active \notin {0, e.capture} /\ Credited(e.zones)
    THEN [e EXCEPT !.active = e.capture, !.review = TRUE, !.zones = Nobody]
    ELSE [e EXCEPT !.active = e.capture]
Saving == \E h \in Handlers : At(h, "checked") \/ At(h, "tell")
Frame ==
    /\ engine # Nobody
    /\ engine' = Switched(Applied(engine)) /\ engine' # engine
    /\ overtaken' = (overtaken \/ (Saving /\ engine'.active # engine.active) \/ (engine.active = 0 /\ Credited(engine'.zones)))
    /\ UNCHANGED <<rows, images, locks, task, counters, leftover, bereft>>

(* SceneGuard finds another view, or the frame has another size. *)
Shifted ==
    /\ engine # Nobody /\ ~engine.review
    /\ engine' = [engine EXCEPT !.review = TRUE, !.zones = Nobody]
    /\ UNCHANGED <<rows, images, locks, task, counters, ghosts>>

-----------------------------------------------------------------------------
(* Death; the next process resumes the deletions that were asked for.      *)

Crash ==
    /\ crashes < MaxCrashes
    /\ crashes' = crashes + 1
    /\ engine' = Nobody /\ runtime' = Nobody /\ lock' = Nobody
    /\ task' = [h \in Handlers |-> NoTask]
    /\ IF scene # Nobody /\ scene.status = "pending_delete"
       THEN \/ scene' = Nobody /\ zones' = Nobody /\ images' = images \ {scene.snap}
            \/ scene' = Marked(scene) /\ zones' = Unconfirmed(zones) /\ images' \in {images, images \ {scene.snap}}
       ELSE UNCHANGED <<scene, zones, images>>
    /\ UNCHANGED <<camera, snaps, sessions, engines, requests, ghosts>>

Init ==
    /\ camera = 1 /\ scene = Nobody /\ zones = Nobody /\ images = {}
    /\ engine = [id |-> 1, capture |-> 1, active |-> 1, review |-> FALSE, zones |-> Nobody, pending |-> Nobody]
    /\ runtime = Nobody /\ lock = Nobody /\ task = [h \in Handlers |-> NoTask]
    /\ snaps = 0 /\ sessions = 1 /\ engines = 1 /\ requests = 0 /\ crashes = 0
    /\ leftover = {} /\ overtaken = FALSE /\ bereft = {}

Proposes(h) == Propose(h) \/ Persist(h) \/ PersistFails(h) \/ Retire(h)
Saves(h) == CheckSave(h) \/ Save(h) \/ Tell(h)
Edits(h) == Look(h) \/ Withdraw(h) \/ Patch(h) \/ EditZone(h) \/ Stop(h) \/ StartRefused(h)
Starts(h) == Build(h) \/ Review(h) \/ Reviewed(h) \/ Publish(h)
Removes(h) == Remove(h) \/ Mark(h) \/ Unlink(h) \/ Finish(h) \/ RemoveRefused(h) \/ RemoveFails(h) \/ Drop(h) \/ Forget(h)
Next ==
    \/ \E h \in Handlers : \/ Proposes(h) \/ Saves(h) \/ Edits(h) \/ Starts(h) \/ Removes(h)
                           \/ \E op \in Operations : Begin(h, op)
    \/ Reconnect \/ Frame \/ Shifted \/ Crash

Spec == Init /\ [][Next]_vars

-----------------------------------------------------------------------------
(* Properties. *)

TypeOK ==
    /\ camera \in Nat \cup {Nobody} /\ scene \in Scenes \cup {Nobody} /\ zones \in Zones \cup {Nobody}
    /\ engine \in Engines \cup {Nobody}
    /\ {runtime, lock} \subseteq Handlers \cup {Nobody} /\ task \in [Handlers -> Tasks]
    /\ snaps \in Nat /\ images \subseteq 1 .. snaps
    /\ requests \in 0 .. MaxRequests /\ {sessions, engines} \subseteq 1 .. MaxSessions /\ crashes \in 0 .. MaxCrashes
    /\ leftover \subseteq Nat /\ overtaken \in BOOLEAN /\ bereft \subseteq Nat

(* The frames of the engine name a confirmed support surface. *)
Credits == engine # Nobody /\ engine.active # 0 /\ ~engine.review /\ Credited(engine.zones)

(* No confirmation survives a restart: whatever an engine credits was      *)
(* confirmed while that engine was running (main.py:831), unless the       *)
(* camera's deletion removed the scene after the new engine had read the   *)
(* zones (main.py:822) and before it looked for the scene (main.py:829).   *)
ConfirmedHere == Credits /\ engine.id \notin bereft => engine.zones.engine = engine.id

(* A zone is edited without taking its confirmation away (main.py:2040).   *)
(* An engine credits the new outline, if at all, only until the restart    *)
(* that the same edit goes on to has stopped it.                           *)
EditSettles ==
    Credits /\ engine.id \notin bereft /\ engine.zones.edited =>
        \E h \in Handlers : task[h].op = "zone" /\ At(h, "stop")

(* And it was drawn on a picture of the session the frames are of, unless  *)
(* the source was replaced after the save had checked its picture          *)
(* (main.py:1855) and before the engine was told, or the engine had zones  *)
(* to credit before its first frame: told of the save, or built on them.   *)
SupportOfSession == Credits /\ ~overtaken => engine.zones.session = engine.active

(* The zones the database calls confirmed were drawn on the keyframe the   *)
(* scene now has, by the save that made its version, and the scene is      *)
(* confirmed too.                                                          *)
ZonesFollowScene ==
    Credited(zones) =>
        scene # Nobody /\ scene.status = "confirmed" /\ zones.version = scene.version
                       /\ zones.snap = scene.snap /\ zones.session = scene.session

(* A scene has its keyframe, whatever failed or died while it was          *)
(* replaced; only a deletion takes it away.                                *)
KeyframeKept == scene # Nobody /\ scene.status # "pending_delete" => scene.snap \in images

(* While the process lives no keyframe is left without a scene, but for    *)
(* those whose own removal was tried and failed (scene.py:289, 296):       *)
(* nothing tries again.                                                    *)
ImagesAccounted ==
    crashes = 0 => images \ leftover \subseteq {task[h].image : h \in Handlers} \cup (IF scene = Nobody THEN {} ELSE {scene.snap})

(* A scene whose deletion was asked for never comes back, whichever edit,  *)
(* review or restart meets it half deleted.                                *)
Pending(s) == s # Nobody /\ s.status = "pending_delete"
DeletionFinal == [][Pending(scene) => scene' = Nobody \/ Pending(scene')]_vars

(* A movement is only credited to a surface the user confirmed on the      *)
(* picture the camera shows.                                               *)
CreditSound == TypeOK /\ ConfirmedHere /\ EditSettles /\ SupportOfSession /\ ZonesFollowScene

(* Scenes and keyframes match in both directions.                          *)
ImagesSound == KeyframeKept /\ ImagesAccounted
=============================================================================
