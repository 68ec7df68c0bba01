----------------------------- MODULE Registration -----------------------------
(***************************************************************************)
(* Registering one item by reference photographs (registration.py), the    *)
(* routes that change them, and the running camera whose matcher they      *)
(* feed (main.py, engine.py).                                              *)
(*                                                                         *)
(* Routes run on several threads.  RegistrationService.lock covers the     *)
(* rows and files of the photographs, Runtime.lock the set of engines; a   *)
(* build calls back into refresh_recognition while it holds the first.     *)
(* The rows are read for an engine under no lock, and the engine applies   *)
(* what it was given at a frame boundary of its own.                       *)
(*                                                                         *)
(* A confirmed region is the number of its confirmation, a crop the number *)
(* of the build that cut it, a vector the pair of a photograph and its     *)
(* region.  The process may be killed between any two steps; an upgrade    *)
(* may then replace the appearance model.                                  *)
(***************************************************************************)
EXTENDS Naturals, FiniteSets

CONSTANTS Refs,        \* reference photographs
          Handlers,    \* threads that serve routes
          Nobody,      \* owner of a free lock, and every other "none"
          Models,      \* appearance models an installation may hold
          Operations,  \* the routes that are called
          Stubborn,    \* files whose removal may fail when it is a clean-up
          MaxRequests, \* calls of routes
          MaxCrashes

ASSUME RegistrationConstants ==
    /\ Nobody \notin Handlers \cup Refs \cup Models /\ Refs # {} /\ IsFiniteSet(Refs) /\ Models # {}
    /\ Operations \subseteq {"upload", "capture", "confirm", "delete", "remove", "build", "test", "start"}
    /\ {MaxRequests, MaxCrashes} \subseteq Nat

VARIABLES item,         \* the row of the item exists
          refs,         \* the rows of its photographs
          profile,      \* the row of its recognition profile, or Nobody
          experimental, \* the saved detection mode looks for photographs
          disk,         \* files: <<photograph, 0>> as stored, <<photograph, n>> cut by build n
          model,        \* the installed appearance model
          service,      \* owner of RegistrationService.lock
          runtime,      \* owner of Runtime.lock
          task,         \* what each handler does
          engine,       \* the running camera, or Nobody
          candidate,    \* an identified movement on its way to the database
          requests, crashes,
          started,      \* engines ever started
          made,         \* ghost: the ready profiles there have been
          misled,       \* ghost: the database accepted an identity on other vectors
          torn,         \* ghost: a deletion ended between the row and the profile
          removed,      \* ghost: the profile of the item was removed
          halved,       \* ghost: photographs whose deletion ended between their files and their row
          leftover      \* ghost: files whose removal was tried and failed

rows == <<item, refs, profile, experimental>>
locks == <<service, runtime>>
vision == <<engine, candidate, started, misled>>
faults == <<model, requests, crashes, torn>>
ghosts == <<made, removed, halved, leftover>>
vars == <<rows, disk, locks, task, vision, faults, ghosts>>

-----------------------------------------------------------------------------
(* The saved rows. *)

NoReference == [status |-> "absent", region |-> 0, crop |-> 0]
Statuses == {"images_saved", "building", "ready", "failed"}

Saved == {r \in Refs : refs[r].status # "absent"}
Confirmed == {r \in Refs : refs[r].status = "confirmed"}
Vectors == {<<r, refs[r].region>> : r \in Confirmed}
Cuts(rs) == {<<r, refs[r].crop>> : r \in {q \in rs : refs[q].crop # 0}}
Files(rs) == (rs \X {0}) \cup Cuts(rs)

MutantInvalidated(p) ==
    IF p = Nobody THEN [status |-> "images_saved", version |-> 1, model |-> Nobody, vectors |-> {}]
    ELSE [p EXCEPT !.version = @ + 1]

(* A change of the photographs opens the next version, without vectors. *)
Invalidated(p) ==
    IF p = Nobody THEN [status |-> "images_saved", version |-> 1, model |-> Nobody, vectors |-> {}]
    ELSE [p EXCEPT !.status = "images_saved", !.version = @ + 1, !.vectors = {}]

-----------------------------------------------------------------------------
(* Handlers.  pc is the next step; build is the number of its build until  *)
(* that is over; mine are the files it wrote or is to retire.             *)

NoTask == [op |-> "none", pc |-> "idle", ref |-> Nobody, items |-> Nobody, reads |-> 0,
           activate |-> FALSE, build |-> 0, mine |-> {}]
At(h, pc) == task[h].pc = pc
Holds(h, lock) == lock = h
Free(h, lock) == lock \in {Nobody, h}
Move(h, pc) == task' = [task EXCEPT ![h] = [@ EXCEPT !.pc = pc]]
Return(h) == task' = [task EXCEPT ![h] = NoTask]

MutantRefresh(h, activate) ==
    /\ service' = Nobody /\ UNCHANGED runtime
    /\ task' = [task EXCEPT ![h] = [NoTask EXCEPT !.op = task[h].op, !.pc = "items", !.activate = activate]]
MutantGiveUp(h) == Return(h) /\ UNCHANGED <<service, runtime>>

(* The lock is given up and refresh_recognition follows. *)
Refresh(h, activate) ==
    /\ service' = Nobody
    /\ runtime' = IF Holds(h, runtime) THEN Nobody ELSE runtime
    /\ task' = [task EXCEPT ![h] = [NoTask EXCEPT !.op = task[h].op, !.pc = "items", !.activate = activate]]
GiveUp(h) ==
    /\ service' = IF Holds(h, service) THEN Nobody ELSE service
    /\ runtime' = IF Holds(h, runtime) THEN Nobody ELSE runtime
    /\ Return(h)

(* The recognition test reloads only an engine that lacks the profile. *)
Lacking == /\ engine # Nobody /\ profile # Nobody
           /\ profile.status = "ready" /\ (~engine.mode \/ engine.loaded # profile.version)

OfOne == {"upload", "capture", "confirm", "delete"}
FirstStep(op) == CASE op \in {"capture", "start"} -> "want_runtime"
                   [] op = "test" -> "items"
                   [] OTHER -> "want_service"

(* A route finds the item before it takes a lock. *)
Begin(h, op, r) ==
    /\ At(h, "idle") /\ requests < MaxRequests
    /\ item \/ op = "start"
    /\ op = "test" => Lacking
    /\ requests' = requests + 1
    /\ task' = [task EXCEPT ![h] = [NoTask EXCEPT !.op = op, !.pc = FirstStep(op),
                                  !.ref = IF op \in OfOne THEN r ELSE Nobody, !.activate = (op = "test"),
                                  !.build = IF op = "build" THEN requests + 2 ELSE 0]]
    /\ UNCHANGED <<rows, disk, locks, vision, model, crashes, torn, ghosts>>

TakeService(h) ==
    /\ At(h, "want_service") /\ Free(h, service)
    /\ service' = h
    /\ Move(h, "locked")
    /\ UNCHANGED <<rows, disk, runtime, vision, faults, ghosts>>

(* A capture holds Runtime.lock while it asks for the other one. *)
TakeRuntime(h) ==
    /\ At(h, "want_runtime") /\ Free(h, runtime)
    /\ IF (task[h].op = "capture") = (engine = Nobody)
       THEN Return(h) /\ UNCHANGED runtime
       ELSE /\ runtime' = h
            /\ Move(h, IF task[h].op = "capture" THEN "want_service" ELSE "start_items")
    /\ UNCHANGED <<rows, disk, service, vision, faults, ghosts>>

-----------------------------------------------------------------------------
(* add_batch: files first, then the rows and the profile in one            *)
(* transaction.                                                            *)

Adding(h) == task[h].op \in {"upload", "capture"}

AddDuplicate(h) ==
    /\ At(h, "locked") /\ Adding(h) /\ task[h].ref \in Saved
    /\ Refresh(h, FALSE)
    /\ UNCHANGED <<rows, disk, vision, faults, ghosts>>

(* What cannot be removed stays: no one tries again. *)
Discard(files) ==
    \E kept \in SUBSET (files \cap disk \cap Stubborn) :
        disk' = disk \ (files \ kept) /\ leftover' = leftover \cup kept

AddFiles(h) ==
    /\ At(h, "locked") /\ Adding(h) /\ task[h].ref \notin Saved
    /\ disk' = disk \cup {<<task[h].ref, 0>>} /\ leftover' = leftover \ {<<task[h].ref, 0>>}
    /\ Move(h, "staged")
    /\ UNCHANGED <<rows, locks, vision, faults, made, removed, halved>>

AddRows(h) ==
    /\ At(h, "staged")
    /\ refs' = [refs EXCEPT ![task[h].ref].status = "saved"]
    /\ profile' = Invalidated(profile)
    /\ Refresh(h, FALSE)
    /\ UNCHANGED <<item, experimental, disk, vision, faults, ghosts>>

MutantAddFails(h) ==
    /\ (At(h, "locked") /\ Adding(h) /\ task[h].ref \notin Saved) \/ At(h, "staged")
    /\ IF task[h].op = "upload" THEN Refresh(h, FALSE) ELSE GiveUp(h)
    /\ UNCHANGED <<rows, disk, vision, faults, ghosts>>

(* Only the upload refreshes in a finally. *)
AddFails(h) ==
    /\ \/ At(h, "locked") /\ Adding(h) /\ task[h].ref \notin Saved /\ UNCHANGED <<disk, leftover>>
       \/ At(h, "staged") /\ Discard({<<task[h].ref, 0>>})
    /\ IF task[h].op = "upload" THEN Refresh(h, FALSE) ELSE GiveUp(h)
    /\ UNCHANGED <<rows, vision, faults, made, removed, halved>>

Confirm(h) ==
    /\ At(h, "locked") /\ task[h].op = "confirm" /\ task[h].ref \in Saved
    /\ refs' = [refs EXCEPT ![task[h].ref].status = "confirmed", ![task[h].ref].region = @ + 1]
    /\ profile' = Invalidated(profile)
    /\ Refresh(h, FALSE)
    /\ UNCHANGED <<item, experimental, disk, vision, faults, ghosts>>

(* The photograph is not there; or the last rows of a removed item cannot  *)
(* be deleted.                                                             *)
Refused(h) ==
    /\ \/ At(h, "locked") /\ task[h].op \in {"confirm", "delete"} /\ task[h].ref \notin Saved
       \/ At(h, "locked") /\ task[h].op = "remove" /\ Saved = {}
       \/ At(h, "remove_item")
    /\ GiveUp(h)
    /\ UNCHANGED <<rows, disk, vision, faults, ghosts>>

-----------------------------------------------------------------------------
(* delete_reference, once or for every photograph of a removed item: the   *)
(* files, the row, the profile, each on its own, and each may raise.       *)

Deletes(h, r) ==
    /\ At(h, "locked") /\ r \in Saved
    /\ task[h].op = "remove" \/ (task[h].op = "delete" /\ task[h].ref = r)

Unlink(h, r) ==
    /\ Deletes(h, r)
    /\ disk' = disk \ Files({r})
    /\ task' = [task EXCEPT ![h] = [@ EXCEPT !.pc = "unlinked", !.ref = r]]
    /\ UNCHANGED <<rows, locks, vision, faults, ghosts>>

UnlinkFails(h, r) ==
    /\ Deletes(h, r)
    /\ \E kept \in SUBSET Files({r}) : disk' = disk \ (Files({r}) \ kept)
    /\ halved' = IF disk' = disk THEN halved ELSE halved \cup {r}
    /\ GiveUp(h)
    /\ UNCHANGED <<rows, vision, faults, made, removed, leftover>>

DropRow(h) ==
    /\ At(h, "unlinked")
    /\ refs' = [refs EXCEPT ![task[h].ref] = [NoReference EXCEPT !.region = refs[task[h].ref].region]]
    /\ halved' = halved \ {task[h].ref}
    /\ Move(h, "dropped")
    /\ UNCHANGED <<item, profile, experimental, disk, locks, vision, faults, made, removed, leftover>>

DropFails(h) ==
    /\ At(h, "unlinked") \/ At(h, "dropped")
    /\ halved' = IF At(h, "unlinked") THEN halved \cup {task[h].ref} ELSE halved
    /\ torn' = (torn \/ At(h, "dropped"))
    /\ GiveUp(h)
    /\ UNCHANGED <<rows, disk, vision, model, requests, crashes, made, removed, leftover>>

DropProfile(h) ==
    /\ At(h, "dropped")
    /\ profile' = Invalidated(profile)
    /\ IF task[h].op = "remove" THEN Move(h, "locked") /\ UNCHANGED locks ELSE Refresh(h, FALSE)
    /\ UNCHANGED <<item, refs, experimental, disk, vision, faults, ghosts>>

RemoveProfile(h) ==
    /\ At(h, "locked") /\ task[h].op = "remove" /\ Saved = {}
    /\ profile' = Nobody /\ removed' = TRUE
    /\ service' = Nobody
    /\ Move(h, "remove_item")
    /\ UNCHANGED <<item, refs, experimental, disk, runtime, vision, faults, made, halved, leftover>>

RemoveItem(h) ==
    /\ At(h, "remove_item")
    /\ item' = FALSE
    /\ task' = [task EXCEPT ![h] = [NoTask EXCEPT !.op = "remove", !.pc = "items"]]
    /\ UNCHANGED <<refs, profile, experimental, disk, locks, vision, faults, ghosts>>

-----------------------------------------------------------------------------
(* build. *)

BuildRefused(h) ==
    /\ At(h, "locked") /\ task[h].op = "build" /\ Confirmed = {}
    /\ Refresh(h, FALSE)
    /\ UNCHANGED <<rows, disk, vision, faults, ghosts>>

BuildBegins(h) ==
    /\ At(h, "locked") /\ task[h].op = "build" /\ Confirmed # {}
    /\ profile' = [(IF profile = Nobody THEN Invalidated(profile) ELSE profile) EXCEPT !.status = "building"]
    /\ task' = [task EXCEPT ![h] = [@ EXCEPT !.pc = "items"]]
    /\ UNCHANGED <<item, refs, experimental, disk, locks, vision, faults, ghosts>>

(* Another model than the last one gives the vectors another version. *)
NewModel(p) == p.model \notin {Nobody, model}
MutantBuilding(p) == p
Building(p) == IF NewModel(p) THEN [Invalidated(p) EXCEPT !.status = "building", !.model = model] ELSE p

Encode(h) ==
    /\ At(h, "encode") /\ Confirmed \X {0} \subseteq disk
    /\ profile' = Building(profile)
    /\ disk' = disk \cup (Confirmed \X {task[h].build})
    /\ task' = [task EXCEPT ![h] = [@ EXCEPT !.pc = "check", !.mine = Confirmed \X {task[h].build}]]
    /\ UNCHANGED <<item, refs, experimental, locks, vision, faults, ghosts>>

Check(h) ==
    /\ At(h, "check") /\ item
    /\ Move(h, "commit")
    /\ UNCHANGED <<rows, disk, locks, vision, faults, ghosts>>

(* The new crops replace the old ones only with the rows that name them. *)
Commit(h) ==
    /\ At(h, "commit")
    /\ refs' = [r \in Refs |-> IF r \in Confirmed THEN [refs[r] EXCEPT !.crop = task[h].build] ELSE refs[r]]
    /\ profile' = [profile EXCEPT !.status = "ready", !.model = model, !.vectors = Vectors]
    /\ task' = [task EXCEPT ![h] = [@ EXCEPT !.pc = "retire", !.mine = Cuts(Confirmed)]]
    /\ made' = made \cup {profile'}
    /\ UNCHANGED <<item, experimental, disk, locks, vision, faults, removed, halved, leftover>>

Retire(h) ==
    /\ At(h, "retire")
    /\ Discard(task[h].mine)
    /\ Refresh(h, TRUE)
    /\ UNCHANGED <<rows, vision, faults, made, removed, halved>>

MutantBuildFails(h) ==
    /\ task[h].pc \in {"encode", "check", "commit"}
    /\ disk' = disk \ (task[h].mine \cup Cuts(Confirmed))
    /\ profile' = [profile EXCEPT !.status = "failed", !.vectors = {}]
    /\ Refresh(h, FALSE)
    /\ UNCHANGED <<item, refs, experimental, vision, faults, ghosts>>

BuildFails(h) ==
    /\ task[h].pc \in {"encode", "check", "commit"}
    /\ Discard(task[h].mine)
    /\ profile' = [profile EXCEPT !.status = "failed", !.vectors = {}]
    /\ Refresh(h, FALSE)
    /\ UNCHANGED <<item, refs, experimental, vision, faults, made, removed, halved>>

-----------------------------------------------------------------------------
(* refresh_recognition: the rows, the encoder, the engines, one after the  *)
(* other.                                                                  *)

ReadItems(h) ==
    /\ At(h, "items")
    /\ experimental' = (experimental \/ task[h].activate)
    /\ task' = [task EXCEPT ![h] = [@ EXCEPT !.items = IF item THEN profile ELSE Nobody,
                                           !.pc = IF task[h].activate THEN "encoder" ELSE "engines"]]
    /\ UNCHANGED <<item, refs, profile, disk, locks, vision, faults, ghosts>>

ReadEncoder(h) ==
    /\ At(h, "encoder") /\ Free(h, service)
    /\ Move(h, "engines")
    /\ UNCHANGED <<rows, disk, locks, vision, faults, ghosts>>

ReadEngines(h) ==
    /\ At(h, "engines") /\ Free(h, runtime)
    /\ task' = [task EXCEPT ![h] = [@ EXCEPT !.reads = IF engine = Nobody THEN 0 ELSE engine.id, !.pc = "reload"]]
    /\ UNCHANGED <<rows, disk, locks, vision, faults, ghosts>>

(* reload_profiles; a stopped engine is reloaded in vain. *)
Reloaded(e, items, activate) ==
    [e EXCEPT !.revision = @ + 1, !.loaded = 0,
              !.pending = [items |-> items, enable |-> activate \/ (e.pending # Nobody /\ e.pending.enable)]]
Reload(h) ==
    /\ At(h, "reload")
    /\ engine' = IF engine # Nobody /\ engine.id = task[h].reads
                 THEN Reloaded(engine, task[h].items, task[h].activate) ELSE engine
    /\ IF task[h].build = 0 THEN Return(h) ELSE Move(h, "encode")
    /\ UNCHANGED <<rows, disk, locks, candidate, started, misled, faults, ghosts>>

-----------------------------------------------------------------------------
(* The engine. *)

(* The matcher of the items an engine was given: a ready profile or none. *)
Matcher(items, mode) == IF mode /\ items # Nobody /\ items.status = "ready" THEN items ELSE Nobody
VersionOf(m) == IF m = Nobody THEN 0 ELSE m.version

StartItems(h) ==
    /\ At(h, "start_items")
    /\ task' = [task EXCEPT ![h] = [@ EXCEPT !.items = IF item THEN profile ELSE Nobody, !.activate = experimental,
                                           !.pc = IF experimental THEN "start_encoder" ELSE "start"]]
    /\ UNCHANGED <<rows, disk, locks, vision, faults, ghosts>>

(* Runtime.start asks for RegistrationService.lock under Runtime.lock. *)
StartEncoder(h) ==
    /\ At(h, "start_encoder") /\ Free(h, service)
    /\ Move(h, "start")
    /\ UNCHANGED <<rows, disk, locks, vision, faults, ghosts>>

Start(h) ==
    /\ At(h, "start")
    /\ LET m == Matcher(task[h].items, task[h].activate)
       IN engine' = [id |-> started + 1, revision |-> 0, applied |-> 0, mode |-> task[h].activate,
                     pending |-> Nobody, taken |-> Nobody, matcher |-> m, loaded |-> VersionOf(m)]
    /\ started' = started + 1
    /\ GiveUp(h)
    /\ UNCHANGED <<rows, disk, candidate, misled, faults, ghosts>>

Stop ==
    /\ engine # Nobody /\ runtime = Nobody
    /\ engine' = Nobody
    /\ UNCHANGED <<rows, disk, locks, task, candidate, started, misled, faults, ghosts>>

(* _apply_profile_updates takes what waits and its revision, then loads. *)
Take ==
    /\ engine # Nobody /\ engine.pending # Nobody /\ engine.taken = Nobody
    /\ engine' = [engine EXCEPT !.pending = Nobody,
          !.taken = [items |-> engine.pending.items, enable |-> engine.pending.enable, revision |-> engine.revision]]
    /\ UNCHANGED <<rows, disk, locks, task, candidate, started, misled, faults, ghosts>>

MutantInstall ==
    /\ engine # Nobody /\ engine.taken # Nobody
    /\ LET mode == engine.mode \/ engine.taken.enable
       IN engine' = [engine EXCEPT !.mode = mode, !.matcher = Matcher(engine.taken.items, mode),
                        !.applied = engine.taken.revision, !.taken = Nobody,
                        !.loaded = IF engine.taken.revision = engine.revision THEN VersionOf(engine.taken.items) ELSE 0]
    /\ UNCHANGED <<rows, disk, locks, task, candidate, started, misled, faults, ghosts>>

Install ==
    /\ engine # Nobody /\ engine.taken # Nobody
    /\ LET mode == engine.mode \/ engine.taken.enable
           m == Matcher(engine.taken.items, mode)
       IN engine' = [engine EXCEPT !.mode = mode, !.matcher = m, !.applied = engine.taken.revision, !.taken = Nobody,
                                   !.loaded = IF engine.taken.revision = engine.revision THEN VersionOf(m) ELSE 0]
    /\ UNCHANGED <<rows, disk, locks, task, candidate, started, misled, faults, ghosts>>

(* A movement identified by the matcher, on a frame no reload overtook. *)
Recognise ==
    /\ candidate = Nobody
    /\ engine # Nobody /\ engine.matcher # Nobody /\ engine.taken = Nobody /\ engine.applied = engine.revision
    /\ candidate' = [engine |-> engine.id, generation |-> engine.applied, identity |-> engine.matcher]
    /\ UNCHANGED <<rows, disk, locks, task, engine, started, misled, faults, ghosts>>

(* photo_commit_guard, and the profile row read by the transaction. *)
CurrentEngine(c) ==
    engine # Nobody /\ engine.id = c.engine /\ c.generation = engine.applied /\ c.generation = engine.revision
MutantProfileMatches(c) == profile # Nobody /\ profile.status = "ready"
ProfileMatches(c) ==
    /\ profile # Nobody /\ profile.status = "ready"
    /\ profile.version = c.identity.version /\ profile.model = c.identity.model

Accept ==
    /\ candidate # Nobody /\ CurrentEngine(candidate) /\ ProfileMatches(candidate)
    /\ misled' = (misled \/ candidate.identity.vectors # profile.vectors)
    /\ candidate' = Nobody
    /\ UNCHANGED <<rows, disk, locks, task, engine, started, faults, ghosts>>

Reject ==
    /\ candidate # Nobody /\ ~(CurrentEngine(candidate) /\ ProfileMatches(candidate))
    /\ candidate' = Nobody
    /\ UNCHANGED <<rows, disk, locks, task, engine, started, misled, faults, ghosts>>

-----------------------------------------------------------------------------
(* Death and restart, perhaps with another model. *)

Crash ==
    /\ crashes < MaxCrashes
    /\ crashes' = crashes + 1
    /\ model' \in Models
    /\ torn' = (torn \/ \E h \in Handlers : At(h, "dropped"))
    /\ halved' = halved \cup {task[h].ref : h \in {b \in Handlers : At(b, "unlinked")}}
    /\ service' = Nobody /\ runtime' = Nobody
    /\ task' = [h \in Handlers |-> NoTask]
    /\ engine' = Nobody /\ candidate' = Nobody
    /\ UNCHANGED <<rows, disk, started, misled, requests, made, removed, leftover>>

(* Nothing is registered yet, or everything is and the camera runs. *)
Registered == [status |-> "ready", version |-> 2 * Cardinality(Refs), model |-> model, vectors |-> Refs \X {1}]
Watching == [id |-> 1, revision |-> 0, applied |-> 0, mode |-> TRUE, pending |-> Nobody, taken |-> Nobody,
             matcher |-> Registered, loaded |-> Registered.version]
Empty == /\ refs = [r \in Refs |-> NoReference] /\ profile = Nobody /\ experimental = FALSE
         /\ disk = {} /\ engine = Nobody /\ started = 0 /\ made = {}
Running == /\ refs = [r \in Refs |-> [status |-> "confirmed", region |-> 1, crop |-> 1]]
           /\ profile = Registered /\ experimental = TRUE /\ disk = Refs \X {0, 1}
           /\ engine = Watching /\ started = 1 /\ made = {Registered}
Init ==
    /\ item = TRUE /\ model \in Models
    /\ service = Nobody /\ runtime = Nobody /\ task = [h \in Handlers |-> NoTask]
    /\ candidate = Nobody /\ misled = FALSE
    /\ requests = 0 /\ crashes = 0 /\ torn = FALSE /\ removed = FALSE /\ halved = {} /\ leftover = {}
    /\ Empty \/ Running

Adds(h) == AddDuplicate(h) \/ AddFiles(h) \/ AddRows(h) \/ AddFails(h)
Edits(h) == Confirm(h) \/ Refused(h) \/ DropRow(h) \/ DropFails(h) \/ DropProfile(h) \/ RemoveProfile(h) \/ RemoveItem(h)
            \/ \E r \in Refs : Unlink(h, r) \/ UnlinkFails(h, r)
Builds(h) == BuildRefused(h) \/ BuildBegins(h) \/ Encode(h) \/ Check(h) \/ Commit(h) \/ Retire(h) \/ BuildFails(h)
Refreshes(h) == ReadItems(h) \/ ReadEncoder(h) \/ ReadEngines(h) \/ Reload(h)
Starts(h) == StartItems(h) \/ StartEncoder(h) \/ Start(h)
Serve(h) == TakeService(h) \/ TakeRuntime(h) \/ Adds(h) \/ Edits(h) \/ Builds(h) \/ Refreshes(h) \/ Starts(h)
Vision == Take \/ Install \/ Recognise \/ Accept \/ Reject
Next ==
    \/ \E h \in Handlers : Serve(h) \/ \E op \in Operations, r \in Refs : Begin(h, op, r)
    \/ Vision \/ Stop \/ Crash

Spec == Init /\ [][Next]_vars

-----------------------------------------------------------------------------
(* Properties. *)

References == [status : {"absent", "saved", "confirmed"}, region : Nat, crop : Nat]
Profiles == [status : Statuses, version : Nat \ {0}, model : Models \cup {Nobody}, vectors : SUBSET (Refs \X Nat)]
Items == Profiles \cup {Nobody}
Tasks == [op : Operations \cup {"none"},
          pc : {"idle", "want_service", "want_runtime", "locked", "staged", "unlinked", "dropped", "remove_item",
                "items", "encoder", "engines", "reload", "encode", "check", "commit", "retire", "start_items",
                "start_encoder", "start"},
          ref : Refs \cup {Nobody}, items : Items, reads : Nat, activate : BOOLEAN, build : Nat,
          mine : SUBSET (Refs \X Nat)]
Updates == [items : Items, enable : BOOLEAN]
Loads == [items : Items, enable : BOOLEAN, revision : Nat]
Engines == [id : Nat, revision : Nat, applied : Nat, mode : BOOLEAN, pending : Updates \cup {Nobody},
            taken : Loads \cup {Nobody}, matcher : Items, loaded : Nat]
Candidates == [engine : Nat, generation : Nat, identity : Profiles]
ASSUME NobodyIsNoRecord == Nobody \notin Profiles \cup Updates \cup Loads \cup Engines \cup Candidates

(* Every variable has its type. *)
TypeOK ==
    /\ {item, experimental, misled, torn, removed} \subseteq BOOLEAN /\ model \in Models
    /\ refs \in [Refs -> References] /\ profile \in Items /\ disk \subseteq Refs \X Nat
    /\ {service, runtime} \subseteq Handlers \cup {Nobody} /\ task \in [Handlers -> Tasks]
    /\ engine \in Engines \cup {Nobody} /\ candidate \in Candidates \cup {Nobody} /\ started \in Nat
    /\ requests \in 0 .. MaxRequests /\ crashes \in 0 .. MaxCrashes /\ made \subseteq Profiles
    /\ halved \subseteq Refs /\ leftover \subseteq Refs \X Nat

(* Whenever nobody is changing the photographs, a ready profile holds one  *)
(* vector for each confirmed region of the photographs there are, and no   *)
(* vector of a photograph that was deleted or of an older region.  A death *)
(* or an error between the deletion of a row and the invalidation of the   *)
(* profile (registration.py:415) breaks this for good, and is excepted.    *)
ReadyMatchesPhotographs ==
    service = Nobody /\ ~torn /\ profile # Nobody /\ profile.status = "ready" => profile.vectors = Vectors

(* A version names one generation of vectors: whatever was rebuilt, with   *)
(* whatever model, two ready profiles of a version are the same (the       *)
(* matcher and the commit compare nothing but versions).  Two things break *)
(* this: a torn deletion, and the removal of an item (registration.py:422) *)
(* that others register again before its row is gone: versions restart.    *)
Renumbered == torn \/ removed
VersionNamesVectors == ~Renumbered => \A p, q \in made : p.version = q.version => p = q

(* What RegistrationService.profile reports as loaded in a camera is what  *)
(* its matcher holds, although refreshes are applied late and in any order.*)
LoadedIsLoaded ==
    /\ ~Renumbered /\ engine # Nobody /\ profile # Nobody
    /\ profile.status = "ready" /\ engine.loaded = profile.version
    => engine.matcher # Nobody /\ engine.matcher.vectors = profile.vectors

(* No identity is stored on vectors other than those of the ready profile  *)
(* at the commit: an engine that kept an outdated matcher, because two     *)
(* refreshes swapped or because it started between them, adds nothing.     *)
CommittedCurrent == misled => Renumbered

(* No file a row names is lost: not by a build that fails or dies, nor by  *)
(* one that retires the crops it replaced.  Only the photograph whose own  *)
(* deletion is under way, or ended by an error or a death between its      *)
(* files and its row (registration.py:413), is without some of them.       *)
Unlinking(r) == \E h \in Handlers : At(h, "unlinked") /\ task[h].ref = r
FilesKept == \A r \in Saved \ halved : Unlinking(r) \/ Files({r}) \subseteq disk

(* And while the process lives, every file belongs to a row or to a        *)
(* handler that is about to store or to remove it, but for those whose own *)
(* removal was tried and failed (registration.py:190, 386, 403).           *)
InHand(h) == task[h].mine \cup (IF At(h, "staged") THEN {<<task[h].ref, 0>>} ELSE {})
FilesAccounted ==
    crashes = 0 => disk \ leftover \subseteq Files(Saved) \cup UNION {InHand(h) : h \in Handlers}

(* Some request can always go on, unless two are in each other's way: one  *)
(* holds RegistrationService.lock and asks for Runtime.lock (the refresh   *)
(* inside a build) and another holds Runtime.lock and asks for             *)
(* RegistrationService.lock (a capture, a start).                          *)
Inverted == \E a, b \in Handlers : /\ a # b /\ service = a /\ runtime = b
                                   /\ At(a, "engines") /\ task[b].pc \in {"want_service", "start_encoder"}
OnlyInversionBlocks == (\A h \in Handlers : At(h, "idle")) \/ Inverted \/ \E h \in Handlers : ENABLED Serve(h)

(* A ready profile is made of the photographs there are and is told apart  *)
(* from every other one by its version.                                    *)
ProfileSound == TypeOK /\ ReadyMatchesPhotographs /\ VersionNamesVectors

(* The engines match with the vectors they say they do, and no others      *)
(* reach the store.                                                        *)
MatcherCurrent == LoadedIsLoaded /\ CommittedCurrent

(* Rows and files match in both directions.                                *)
PhotographsKept == FilesKept /\ FilesAccounted
=============================================================================
