-------------------------- MODULE Registration_proofs --------------------------
(***************************************************************************)
(* Proofs about Registration, for any number of photographs, handlers,     *)
(* models, requests and deaths: the handlers inside the lock, the rows and *)
(* the files fit together (IInv), and therefore the files of the           *)
(* photographs are kept and accounted for, a ready profile is made of the  *)
(* photographs there are, and no identity is matched or stored on vectors  *)
(* other than those of the ready profile.                                  *)
(*                                                                         *)
(* Layout: the invariant; what a step does to the task of its handler;     *)
(* frames, one per part of the invariant; one lemma per action; the        *)
(* theorems.                                                               *)
(***************************************************************************)
EXTENDS Registration, FiniteSetTheorems, TLAPS

-----------------------------------------------------------------------------
(* The inductive invariant.                                                *)

\* A handler is inside RegistrationService.lock, or inside Runtime.lock.
Changing == {"locked", "staged", "unlinked", "dropped", "encode", "check", "commit", "retire"}
Refreshing == {"items", "encoder", "engines", "reload"}
Inside(t) == t.pc \in Changing \/ (t.pc \in Refreshing /\ t.build # 0)
Starting(t) == t.pc \in {"start_items", "start_encoder", "start"}
Owned == \A h \in Handlers : /\ Inside(task[h]) => service = h
                             /\ Starting(task[h]) => runtime = h

\* What a handler carries fits to where it is.
Shape(t) ==
    /\ t.pc \in {"want_runtime", "want_service", "locked"} /\ t.op \in OfOne => t.ref \in Refs
    /\ t.pc = "staged" => t.ref \in Refs /\ t.op \in {"upload", "capture"}
    /\ t.pc \in {"unlinked", "dropped"} => t.ref \in Refs
    /\ t.pc \in {"want_runtime", "want_service", "locked", "staged", "unlinked", "dropped"} =>
           (t.op = "build" <=> t.build # 0)
    /\ t.pc \in {"encode", "check", "commit", "retire"} => t.build # 0
    /\ t.pc = "remove_item" => t.op = "remove"
    /\ t.pc \notin {"check", "commit", "retire"} => t.mine = {}
Shaped == \A h \in Handlers : Shape(task[h])

\* What is in hand fits to the rows and the files.
UnderBuild(t) == t.build # 0 /\ t.pc \in Refreshing \cup {"encode", "check", "commit"}
AtWork(t) ==
    /\ t.pc = "staged" => t.ref \notin Saved /\ <<t.ref, 0>> \in disk
    /\ t.pc = "unlinked" => t.ref \in Saved /\ Files({t.ref}) \cap disk = {}
    /\ UnderBuild(t) => profile # Nobody /\ profile.status = "building"
    /\ t.pc \in {"check", "commit"} => /\ t.mine = Confirmed \X {t.build} /\ t.mine \subseteq disk
                                       /\ profile.model \in {Nobody, model}
    /\ t.pc = "retire" => t.mine \cap Files(Saved) = {}
Working == \A h \in Handlers : AtWork(task[h])

\* A build has a number of its own, which no row has before its commit.
Numbered ==
    /\ \A h \in Handlers : task[h].build <= requests + 1
    /\ \A a, b \in Handlers : task[a].build # 0 /\ task[a].build = task[b].build => a = b
    /\ \A r \in Refs : refs[r].crop <= requests + 1
    /\ \A r \in Refs, h \in Handlers :
           task[h].build # 0 /\ task[h].pc # "retire" => refs[r].crop # task[h].build
Cropless == \A r \in Refs : refs[r].status = "absent" => refs[r].crop = 0

\* A ready profile is that of the photographs, unless a row was just deleted.
Dropping == \E h \in Handlers : At(h, "dropped")
Ready(p) == p # Nobody /\ p.status = "ready"
Current == ~torn /\ Ready(profile) /\ ~Dropping => profile.vectors = Vectors

\* The ready profiles there have been, and the one a build will make.
Recorded == (Ready(profile) => profile \in made) /\ \A p \in made : p.status = "ready" /\ p.model \in Models
Ordered ==
    ~Renumbered => \A p \in made :
        /\ profile # Nobody /\ p.version <= profile.version
        /\ p.version = profile.version => p.model = profile.model /\ (~Dropping => p.vectors = Vectors)
Making == Recorded /\ Ordered

\* A ready profile that is carried about was a row once.
Snap(p) == Ready(p) => p \in made
Borne == \A h \in Handlers : Snap(task[h].items)
Loaded ==
    /\ engine # Nobody =>
           /\ engine.matcher # Nobody => engine.matcher \in made
           /\ engine.pending # Nobody => Snap(engine.pending.items)
           /\ engine.taken # Nobody => Snap(engine.taken.items)
           /\ engine.loaded # 0 => engine.matcher # Nobody /\ engine.loaded = engine.matcher.version
    /\ candidate # Nobody => candidate.identity \in made
Carried == Borne /\ Loaded

IInv ==
    /\ TypeOK /\ Owned /\ Shaped /\ Working /\ Numbered /\ Cropless /\ FilesKept /\ FilesAccounted
    /\ Current /\ Making /\ VersionNamesVectors /\ Carried /\ CommittedCurrent

-----------------------------------------------------------------------------
(* What a step does to the task of its handler.                            *)

Pcs == {"idle", "want_service", "want_runtime", "locked", "staged", "unlinked", "dropped", "remove_item",
        "items", "encoder", "engines", "reload", "encode", "check", "commit", "retire", "start_items",
        "start_encoder", "start"}
\* The others are where they were.
OthersSame(h) == \A b \in Handlers : b # h => task'[b] = task[b]
\* The handler carries what it carried.
Carries(h) ==
    /\ task'[h].op = task[h].op /\ task'[h].ref = task[h].ref /\ task'[h].items = task[h].items
    /\ task'[h].build = task[h].build /\ task'[h].mine = task[h].mine
\* It has nothing in hand.
Bare(h) == task'[h].items = Nobody /\ task'[h].build = 0 /\ task'[h].mine = {}

\* No task is a task.
LEMMA NoTaskTask == NoTask \in Tasks
BY DEF NoTask, Tasks, Items

\* A handler goes on to another place.
LEMMA Moved ==
    ASSUME TypeOK, NEW h \in Handlers, NEW pc \in Pcs, Move(h, pc)
    PROVE  /\ task' \in [Handlers -> Tasks] /\ OthersSame(h)
           /\ task'[h].pc = pc /\ Carries(h)
<1> DEFINE t == [task[h] EXCEPT !.pc = pc]
<1>1. task[h] \in Tasks
  BY DEF TypeOK
<1>2. /\ t \in Tasks /\ t.pc = pc /\ t.op = task[h].op /\ t.ref = task[h].ref /\ t.items = task[h].items
      /\ t.build = task[h].build /\ t.mine = task[h].mine
  BY <1>1 DEF Tasks, Pcs
<1>3. task' = [task EXCEPT ![h] = t] /\ task \in [Handlers -> Tasks]
  BY DEF Move, TypeOK
<1> HIDE DEF t
<1> QED BY <1>2, <1>3 DEF OthersSame, Carries

\* A handler returns.
LEMMA Returned ==
    ASSUME TypeOK, NEW h \in Handlers, Return(h)
    PROVE  /\ task' \in [Handlers -> Tasks] /\ OthersSame(h)
           /\ task'[h].pc = "idle" /\ Bare(h)
<1>1. task' = [task EXCEPT ![h] = NoTask] /\ task \in [Handlers -> Tasks]
  BY DEF Return, TypeOK
<1>2. /\ NoTask.pc = "idle" /\ NoTask.items = Nobody /\ NoTask.build = 0 /\ NoTask.mine = {}
  BY DEF NoTask
<1> QED BY <1>1, <1>2, NoTaskTask DEF OthersSame, Bare

\* A handler gives the lock up and goes on to refresh the engines.
LEMMA Refreshed ==
    ASSUME TypeOK, NEW h \in Handlers, NEW activate \in BOOLEAN, Refresh(h, activate)
    PROVE  /\ task' \in [Handlers -> Tasks] /\ OthersSame(h)
           /\ task'[h].pc = "items" /\ Bare(h)
           /\ service' = Nobody /\ runtime' = IF runtime = h THEN Nobody ELSE runtime
<1> DEFINE t == [NoTask EXCEPT !.op = task[h].op, !.pc = "items", !.activate = activate]
<1>1. task[h].op \in Operations \cup {"none"}
  BY DEF TypeOK, Tasks
<1>2. t \in Tasks /\ t.pc = "items" /\ t.items = Nobody /\ t.build = 0 /\ t.mine = {}
  BY <1>1, NoTaskTask DEF NoTask, Tasks
<1>3. /\ task' = [task EXCEPT ![h] = t] /\ task \in [Handlers -> Tasks]
      /\ service' = Nobody /\ runtime' = IF runtime = h THEN Nobody ELSE runtime
  BY DEF Refresh, TypeOK, Holds
<1> HIDE DEF t
<1> QED BY <1>2, <1>3 DEF OthersSame, Bare

\* A handler gives up what it holds and returns.
LEMMA GaveUp ==
    ASSUME TypeOK, NEW h \in Handlers, GiveUp(h)
    PROVE  /\ task' \in [Handlers -> Tasks] /\ OthersSame(h)
           /\ task'[h].pc = "idle" /\ Bare(h)
           /\ service' = IF service = h THEN Nobody ELSE service
           /\ runtime' = IF runtime = h THEN Nobody ELSE runtime
BY Returned DEF GiveUp, Holds

-----------------------------------------------------------------------------
(* Frames, one per part of the invariant.                                  *)

\* A step of h gives and takes no lock of another handler.
LocksOf(h) ==
    /\ \A b \in Handlers : b # h /\ service = b => service' = b
    /\ \A b \in Handlers : b # h /\ runtime = b => runtime' = b
    /\ Inside(task'[h]) => service' = h
    /\ Starting(task'[h]) => runtime' = h
LEMMA OwnedOn ==
    ASSUME Owned, NEW h \in Handlers, OthersSame(h), LocksOf(h)
    PROVE  Owned'
BY DEF Owned, OthersSame, LocksOf, Inside, Starting

LEMMA ShapedOn ==
    ASSUME Shaped, NEW h \in Handlers, OthersSame(h), Shape(task'[h])
    PROVE  Shaped'
BY DEF Shaped, OthersSame, Shape

\* Who is outside of the lock has nothing in hand that others could change.
LEMMA Outside == ASSUME NEW t, ~Inside(t) PROVE AtWork(t) /\ AtWork(t)'
BY DEF AtWork, Inside, Changing, UnderBuild

\* One handler is inside.
LEMMA Alone ==
    ASSUME Owned, NEW h \in Handlers, Inside(task[h]), NEW b \in Handlers, b # h
    PROVE  ~Inside(task[b])
BY DEF Owned

LEMMA WorkingOn ==
    ASSUME Owned, Working, NEW h \in Handlers, OthersSame(h), AtWork(task[h])',
           Inside(task[h]) \/ UNCHANGED <<refs, profile, disk, model>>
    PROVE  Working'
<1> SUFFICES ASSUME NEW b \in Handlers, b # h PROVE AtWork(task[b])'
  BY DEF Working
<1>1. task'[b] = task[b]
  BY DEF OthersSame
<1>2. CASE ~Inside(task[b])
  BY <1>1, <1>2 DEF AtWork, Inside, Changing, UnderBuild
<1>3. CASE UNCHANGED <<refs, profile, disk, model>>
  BY <1>1, <1>3 DEF Working, AtWork, UnderBuild, Saved, Confirmed, Files, Cuts
<1> QED BY <1>2, <1>3, Alone

\* A build goes on or is over, or gets the next number.
BuildOf(h) ==
    \/ task'[h].build = 0 /\ requests' \in {requests, requests + 1}
    \/ /\ task'[h].build = task[h].build /\ requests' = requests
       /\ task[h].pc = "retire" => task'[h].pc = "retire"
    \/ task'[h].build = requests + 2 /\ requests' = requests + 1
LEMMA NumberedOn ==
    ASSUME TypeOK, Numbered, NEW h \in Handlers, OthersSame(h), BuildOf(h),
           \A r \in Refs : refs'[r].crop \in {0, refs[r].crop}
    PROVE  Numbered'
<1>1. requests \in Nat /\ requests' \in {requests, requests + 1}
  BY RegistrationConstants DEF TypeOK, BuildOf
<1>2. \A b \in Handlers : task[b].build \in Nat
  BY DEF TypeOK, Tasks
<1>3. \A r \in Refs : refs[r].crop \in Nat
  BY DEF TypeOK, References
<1>4. \A b \in Handlers : task'[b].build <= requests' + 1
  BY <1>1, <1>2 DEF Numbered, OthersSame, BuildOf
<1>5. \A a, b \in Handlers : task'[a].build # 0 /\ task'[a].build = task'[b].build => a = b
  <2> SUFFICES ASSUME NEW a \in Handlers, a # h, task'[a].build # 0, task'[a].build = task'[h].build
               PROVE  FALSE
    BY DEF Numbered, OthersSame
  <2> QED BY <1>1, <1>2 DEF Numbered, OthersSame, BuildOf
<1>6. \A r \in Refs : refs'[r].crop <= requests' + 1
  BY <1>1, <1>3 DEF Numbered
<1>7. \A r \in Refs, b \in Handlers :
          task'[b].build # 0 /\ task'[b].pc # "retire" => refs'[r].crop # task'[b].build
  <2> SUFFICES ASSUME NEW r \in Refs, NEW b \in Handlers, task'[b].build # 0, task'[b].pc # "retire",
                      refs'[r].crop = task'[b].build, refs'[r].crop = refs[r].crop
               PROVE  FALSE
    OBVIOUS
  <2>1. CASE b # h
    BY <2>1 DEF Numbered, OthersSame
  <2>2. CASE b = h
    <3>1. CASE task'[h].build = requests + 2
      <4>1. refs[r].crop = requests + 2
        BY <2>2, <3>1
      <4>2. refs[r].crop <= requests + 1
        BY DEF Numbered
      <4> QED BY <4>1, <4>2, <1>1
    <3>2. CASE task'[h].build = task[h].build /\ task[h].pc # "retire"
      BY <2>2, <3>2 DEF Numbered
    <3> QED BY <2>2, <3>1, <3>2 DEF BuildOf
  <2> QED BY <2>1, <2>2
<1> QED BY <1>4, <1>5, <1>6, <1>7 DEF Numbered

\* The files of photographs, one by one.
LEMMA FilesOf ==
    ASSUME NEW S \in SUBSET Refs
    PROVE  /\ \A f : f \in Files(S) <=> \E r \in S : f = <<r, 0>> \/ f = <<r, refs[r].crop>>
           /\ \A f : f \in Files(S)' <=> \E r \in S : f = <<r, 0>> \/ f = <<r, refs'[r].crop>>
BY DEF Files, Cuts
LEMMA FilesSaved ==
    /\ \A f : f \in Files(Saved) <=> \E r \in Saved : f = <<r, 0>> \/ f = <<r, refs[r].crop>>
    /\ \A f : f \in Files(Saved)' <=> \E r \in Saved' : f = <<r, 0>> \/ f = <<r, refs'[r].crop>>
BY DEF Files, Cuts, Saved

\* Both files of a photograph are there.
There(r) == <<r, 0>> \in disk /\ <<r, refs[r].crop>> \in disk
LEMMA ThereFiles ==
    ASSUME NEW r \in Refs
    PROVE  (Files({r}) \subseteq disk <=> There(r)) /\ (Files({r}) \subseteq disk <=> There(r))'
<1>1. {r} \in SUBSET Refs
  OBVIOUS
<1> QED BY <1>1, FilesOf DEF There

\* Who is inside the lock finds every file of a row it is not deleting.
LEMMA KeptHere ==
    ASSUME IInv, NEW h \in Handlers, Inside(task[h]), NEW r \in Saved, r \notin halved,
           ~(At(h, "unlinked") /\ task[h].ref = r)
    PROVE  There(r)
<1>1. ~Unlinking(r)
  BY Alone DEF IInv, Unlinking, At, Inside, Changing
<1> QED BY <1>1, ThereFiles DEF IInv, FilesKept, Saved

LEMMA FilesKeptOn ==
    ASSUME \A r \in Saved' : r \in halved' \/ Unlinking(r)' \/ There(r)'
    PROVE  FilesKept'
<1> SUFFICES ASSUME NEW r \in Saved', r \notin halved', ~Unlinking(r)' PROVE Files({r})' \subseteq disk'
  BY DEF FilesKept
<1>1. r \in Refs /\ There(r)'
  BY DEF Saved
<1> QED BY <1>1, ThereFiles

\* No row and no file changes, and no deletion.
LEMMA FilesKeptSame ==
    ASSUME FilesKept, NEW h \in Handlers, OthersSame(h), UNCHANGED <<refs, disk, halved>>,
           task[h].pc # "unlinked"
    PROVE  FilesKept'
BY DEF FilesKept, Saved, Files, Cuts, Unlinking, At, OthersSame

\* Every file that is there after the step belongs to something then.
LEMMA AccountedOn ==
    ASSUME FilesAccounted, NEW h \in Handlers, OthersSame(h), crashes' = crashes,
           \A f \in disk' : \/ f \in leftover' \/ f \in Files(Saved)' \/ f \in InHand(h)'
                            \/ f \in disk /\ f \notin leftover /\ f \notin Files(Saved) /\ f \notin InHand(h)
    PROVE  FilesAccounted'
<1> SUFFICES ASSUME crashes' = 0, NEW f \in disk', f \notin leftover', f \notin Files(Saved)', f \notin InHand(h)'
             PROVE  \E b \in Handlers : f \in InHand(b)'
  BY DEF FilesAccounted
<1>1. PICK b \in Handlers : f \in InHand(b)
  BY DEF FilesAccounted
<1>2. b # h
  BY <1>1
<1> QED BY <1>1, <1>2 DEF InHand, At, OthersSame

LEMMA AccountedSame ==
    ASSUME FilesAccounted, NEW h \in Handlers, OthersSame(h), UNCHANGED <<refs, disk, leftover, crashes>>,
           task[h].mine = {}, task[h].pc # "staged"
    PROVE  FilesAccounted'
<1>1. InHand(h) = {} /\ (\A f \in Files(Saved) : f \in Files(Saved)')
  BY DEF InHand, At, Files, Saved, Cuts
<1> QED BY <1>1, AccountedOn

\* The photographs and the profile stay, and so does who deletes.
LEMMA ProfileSame ==
    ASSUME Current, Making, VersionNamesVectors, NEW h \in Handlers, OthersSame(h),
           UNCHANGED <<profile, made, torn, removed>>, Vectors' = Vectors, task[h].pc # "dropped"
    PROVE  Current' /\ Making' /\ VersionNamesVectors'
<1>1. Dropping => Dropping'
  BY DEF Dropping, At, OthersSame
<1> QED BY <1>1 DEF Current, Making, Recorded, Ordered, Ready, Renumbered, VersionNamesVectors

\* A change of the photographs opens the next version.
LEMMA InvalidatedType ==
    ASSUME NEW p \in Items
    PROVE  LET q == Invalidated(p)
           IN  /\ q \in Profiles /\ q.status = "images_saved"
               /\ p # Nobody => q.version = p.version + 1 /\ q.model = p.model
<1>1. CASE p = Nobody
  BY <1>1 DEF Profiles, Statuses, Invalidated
<1>2. CASE p # Nobody
  <2>1. p \in Profiles
    BY <1>2 DEF Items
  <2>2. Invalidated(p) = [p EXCEPT !.status = "images_saved", !.version = p.version + 1, !.vectors = {}]
    BY <1>2 DEF Invalidated
  <2>3. p.version + 1 \in Nat \ {0}
    BY <2>1 DEF Profiles
  <2> QED BY <2>1, <2>2, <2>3, <1>2 DEF Profiles, Statuses
<1> QED BY <1>1, <1>2
LEMMA ProfileOpened ==
    ASSUME TypeOK, Making, VersionNamesVectors,
           profile' = Invalidated(profile), UNCHANGED <<made, torn, removed>>
    PROVE  profile' \in Profiles /\ profile' # Nobody /\ Current' /\ Making' /\ VersionNamesVectors'
<1>1. profile \in Items /\ made \subseteq Profiles
  BY DEF TypeOK
<1>2. /\ profile' \in Profiles /\ profile'.status = "images_saved"
      /\ profile # Nobody => profile'.version = profile.version + 1
  BY <1>1, InvalidatedType
<1>3. profile' # Nobody
  BY <1>2, NobodyIsNoRecord
<1>4. Current' /\ Recorded'
  BY <1>2 DEF Current, Ready, Making, Recorded
<1>5. Ordered'
  <2> SUFFICES ASSUME ~Renumbered, NEW p \in made PROVE p.version < profile'.version
    BY <1>1, <1>2, <1>3 DEF Ordered, Renumbered, Profiles
  <2>1. profile # Nobody /\ p.version <= profile.version
    BY DEF Making, Ordered
  <2>2. p.version \in Nat /\ profile.version \in Nat
    BY <1>1, <2>1 DEF Items, Profiles
  <2> QED BY <1>2, <2>1, <2>2
<1>6. VersionNamesVectors'
  BY DEF VersionNamesVectors, Renumbered
<1> QED BY <1>2, <1>3, <1>4, <1>5, <1>6 DEF Making

\* What a handler and the engines carry.
LEMMA BorneOn ==
    ASSUME Borne, NEW h \in Handlers, OthersSame(h), made \subseteq made',
           task'[h].items \in {Nobody, task[h].items} \/ Snap(task'[h].items)
    PROVE  Borne'
BY DEF Borne, Snap, Ready, OthersSame
LEMMA LoadedOn ==
    ASSUME Loaded, made \subseteq made', UNCHANGED <<engine, candidate>>
    PROVE  Loaded'
BY DEF Loaded, Snap, Ready

\* A handler takes a step that changes neither rows of photographs nor files.
StepsAside(h) ==
    /\ OthersSame(h) /\ LocksOf(h) /\ Shape(task'[h]) /\ BuildOf(h)
    /\ task[h].pc \notin {"staged", "unlinked", "dropped", "check", "commit", "retire"}
    /\ AtWork(task[h])' /\ task[h].mine = {}
    /\ UNCHANGED <<refs, profile, disk, model, torn, removed, made, crashes, halved, leftover>>
LEMMA Aside ==
    ASSUME IInv, TypeOK', NEW h \in Handlers, StepsAside(h), Carried', CommittedCurrent'
    PROVE  IInv'
<1> USE DEF StepsAside
<1>1. Owned' BY OwnedOn DEF IInv
<1>2. Shaped' BY ShapedOn DEF IInv
<1>3. Working' BY WorkingOn DEF IInv
<1>4. Numbered' /\ Cropless'
  BY NumberedOn DEF IInv, Cropless
<1>5. FilesKept' BY FilesKeptSame DEF IInv
<1>6. FilesAccounted' BY AccountedSame DEF IInv
<1>7. Current' /\ Making' /\ VersionNamesVectors'
  <2>1. Vectors' = Vectors BY DEF Vectors, Confirmed
  <2> QED BY <2>1, ProfileSame DEF IInv
<1> QED BY <1>1, <1>2, <1>3, <1>4, <1>5, <1>6, <1>7 DEF IInv

-----------------------------------------------------------------------------
(* The handlers, outside of the photographs.                               *)

\* What a handler carries stays, the engines stay: nothing new is carried.
LEMMA CarriedOn ==
    ASSUME IInv, NEW h \in Handlers, OthersSame(h), UNCHANGED <<made, engine, candidate>>,
           task'[h].items \in {Nobody, task[h].items} \/ Snap(task'[h].items)
    PROVE  Carried'
BY BorneOn, LoadedOn DEF IInv, Carried

\* A ready profile that is read now is a row now.
LEMMA SnapNow == ASSUME IInv PROVE Snap(profile) /\ Snap(Nobody)
BY DEF IInv, Making, Recorded, Snap, Ready

\* Who keeps service and runtime to itself disturbs no other.
LEMMA NobodyElse == Nobody \notin Handlers
BY RegistrationConstants

\* A route is called.
LEMMA BeginTask ==
    ASSUME TypeOK, NEW h \in Handlers, NEW op \in Operations, NEW r \in Refs, Begin(h, op, r)
    PROVE  /\ task' \in [Handlers -> Tasks] /\ OthersSame(h)
           /\ task'[h].op = op /\ task'[h].pc = FirstStep(op)
           /\ task'[h].ref = (IF op \in OfOne THEN r ELSE Nobody) /\ task'[h].items = Nobody
           /\ task'[h].build = (IF op = "build" THEN requests + 2 ELSE 0) /\ task'[h].mine = {}
<1> DEFINE t == [NoTask EXCEPT !.op = op, !.pc = FirstStep(op),
                               !.ref = IF op \in OfOne THEN r ELSE Nobody, !.activate = (op = "test"),
                               !.build = IF op = "build" THEN requests + 2 ELSE 0]
<1>1. requests + 2 \in Nat
  BY RegistrationConstants DEF TypeOK
<1>2. FirstStep(op) \in {"want_runtime", "items", "want_service"}
  BY DEF FirstStep
<1>3. t \in Tasks
  BY <1>1, <1>2, NoTaskTask, ZenonT(60) DEF NoTask, Tasks
<1>4. /\ t.op = op /\ t.pc = FirstStep(op) /\ t.items = Nobody /\ t.mine = {}
      /\ t.ref = (IF op \in OfOne THEN r ELSE Nobody)
      /\ t.build = (IF op = "build" THEN requests + 2 ELSE 0)
  BY DEF NoTask
<1>5. task' = [task EXCEPT ![h] = t] /\ task \in [Handlers -> Tasks]
  BY DEF Begin, TypeOK
<1> HIDE DEF t
<1> QED BY <1>3, <1>4, <1>5 DEF OthersSame
LEMMA BeginStep ==
    ASSUME IInv, NEW h \in Handlers, NEW op \in Operations, NEW r \in Refs, Begin(h, op, r)
    PROVE  IInv'
<1>1. /\ task[h].pc = "idle" /\ requests' = requests + 1 /\ requests < MaxRequests
      /\ UNCHANGED <<item, refs, profile, experimental, disk, service, runtime, engine, candidate, started,
                     misled, model, crashes, torn, made, removed, halved, leftover>>
  BY DEF Begin, At, rows, locks, vision, ghosts
<1>2. /\ task' \in [Handlers -> Tasks] /\ OthersSame(h)
      /\ task'[h].op = op /\ task'[h].pc = FirstStep(op)
      /\ task'[h].ref = (IF op \in OfOne THEN r ELSE Nobody) /\ task'[h].items = Nobody
      /\ task'[h].build = (IF op = "build" THEN requests + 2 ELSE 0) /\ task'[h].mine = {}
  BY BeginTask DEF IInv
<1>3. TypeOK'
  BY <1>1, <1>2, RegistrationConstants DEF IInv, TypeOK
<1>4. FirstStep(op) \in {"want_runtime", "want_service"} \/ (FirstStep(op) = "items" /\ op = "test")
  BY DEF FirstStep
<1>5. ~Inside(task'[h]) /\ ~Starting(task'[h])
  BY <1>2, <1>4 DEF Inside, Changing, Starting, Refreshing
<1>6. Shape(task'[h])
  <2>1. requests + 2 # 0
    BY RegistrationConstants DEF IInv, TypeOK
  <2> QED BY <1>2, <1>4, <2>1 DEF Shape
<1>7. Shape(task[h])
  BY DEF IInv, Shaped
<1>8. StepsAside(h)
  BY <1>1, <1>2, <1>5, <1>6, <1>7, Outside DEF StepsAside, LocksOf, BuildOf, Shape, AtWork, Inside, Changing,
     UnderBuild
<1>9. Carried' /\ CommittedCurrent'
  BY <1>1, <1>2, CarriedOn DEF IInv, CommittedCurrent, Renumbered
<1> QED BY <1>3, <1>8, <1>9, Aside

\* A handler gets RegistrationService.lock.
LEMMA TakeServiceStep == ASSUME IInv, NEW h \in Handlers, TakeService(h) PROVE IInv'
<1>1. /\ task[h].pc = "want_service" /\ service \in {Nobody, h} /\ service' = h
      /\ UNCHANGED <<item, refs, profile, experimental, disk, runtime, engine, candidate, started,
                     misled, model, requests, crashes, torn, made, removed, halved, leftover>>
  BY NobodyElse DEF TakeService, At, Free, Holds, rows, locks, vision, faults, ghosts
<1>2. /\ task' \in [Handlers -> Tasks] /\ OthersSame(h)
      /\ task'[h].pc = "locked" /\ Carries(h)
  BY Moved DEF IInv, TakeService, Pcs
<1>3. TypeOK'
  BY <1>1, <1>2, NobodyElse DEF IInv, TypeOK
<1>4. /\ Shape(task[h]) /\ (UnderBuild(task[h]) => profile # Nobody /\ profile.status = "building")
      /\ Inside(task[h]) => service = h
      /\ Starting(task[h]) => runtime = h
  BY DEF IInv, Shaped, Working, AtWork, Owned
<1>5. StepsAside(h)
  BY <1>1, <1>2, <1>4, NobodyElse
     DEF StepsAside, LocksOf, BuildOf, Carries, Bare, Shape, AtWork, Owned, Inside, Changing, UnderBuild, Refreshing, Starting
<1>6. Carried' /\ CommittedCurrent'
  BY <1>1, <1>2, CarriedOn DEF IInv, CommittedCurrent, Renumbered, Carries, Bare
<1> QED BY <1>3, <1>5, <1>6, Aside

\* A capture or a start asks for Runtime.lock.
LEMMA TakeRuntimeStep == ASSUME IInv, NEW h \in Handlers, TakeRuntime(h) PROVE IInv'
<1>a. CASE (task[h].op = "capture") = (engine = Nobody)
  <2>1. /\ task[h].pc = "want_runtime"
        /\ UNCHANGED <<item, refs, profile, experimental, disk, service, runtime, engine, candidate,
                       started, misled, model, requests, crashes, torn, made, removed, halved, leftover>>
    BY <1>a, NobodyElse DEF TakeRuntime, At, Free, Holds, rows, locks, vision, faults, ghosts
  <2>2. /\ task' \in [Handlers -> Tasks] /\ OthersSame(h)
        /\ task'[h].pc = "idle" /\ Bare(h)
    BY <1>a, Returned DEF IInv, TakeRuntime
  <2>3. TypeOK'
    BY <2>1, <2>2, NobodyElse DEF IInv, TypeOK
  <2>4. /\ Shape(task[h]) /\ (UnderBuild(task[h]) => profile # Nobody /\ profile.status = "building")
        /\ Inside(task[h]) => service = h
        /\ Starting(task[h]) => runtime = h
    BY DEF IInv, Shaped, Working, AtWork, Owned
  <2>5. StepsAside(h)
    BY <2>1, <2>2, <2>4, NobodyElse
       DEF StepsAside, LocksOf, BuildOf, Carries, Bare, Shape, AtWork, Owned, Inside, Changing, UnderBuild, Refreshing, Starting
  <2>6. Carried' /\ CommittedCurrent'
    BY <2>1, <2>2, CarriedOn DEF IInv, CommittedCurrent, Renumbered, Carries, Bare
  <2> QED BY <2>3, <2>5, <2>6, Aside
<1>b. CASE (task[h].op = "capture") # (engine = Nobody) /\ task[h].op = "capture"
  <2>1. /\ task[h].pc = "want_runtime" /\ task[h].op = "capture" /\ runtime \in {Nobody, h} /\ runtime' = h
        /\ UNCHANGED <<item, refs, profile, experimental, disk, service, engine, candidate, started,
                       misled, model, requests, crashes, torn, made, removed, halved, leftover>>
    BY <1>b, NobodyElse DEF TakeRuntime, At, Free, Holds, rows, locks, vision, faults, ghosts
  <2>2. /\ task' \in [Handlers -> Tasks] /\ OthersSame(h)
        /\ task'[h].pc = "want_service" /\ Carries(h)
    BY <1>b, Moved DEF IInv, TakeRuntime, Pcs
  <2>3. TypeOK'
    BY <2>1, <2>2, NobodyElse DEF IInv, TypeOK
  <2>4. /\ Shape(task[h]) /\ (UnderBuild(task[h]) => profile # Nobody /\ profile.status = "building")
        /\ Inside(task[h]) => service = h
        /\ Starting(task[h]) => runtime = h
    BY DEF IInv, Shaped, Working, AtWork, Owned
  <2>5. StepsAside(h)
    BY <2>1, <2>2, <2>4, NobodyElse
       DEF StepsAside, LocksOf, BuildOf, Carries, Bare, Shape, AtWork, Owned, Inside, Changing, UnderBuild, Refreshing, Starting
  <2>6. Carried' /\ CommittedCurrent'
    BY <2>1, <2>2, CarriedOn DEF IInv, CommittedCurrent, Renumbered, Carries, Bare
  <2> QED BY <2>3, <2>5, <2>6, Aside
<1>c. CASE (task[h].op = "capture") # (engine = Nobody) /\ task[h].op # "capture"
  <2>1. /\ task[h].pc = "want_runtime" /\ task[h].op # "capture" /\ runtime \in {Nobody, h} /\ runtime' = h
        /\ UNCHANGED <<item, refs, profile, experimental, disk, service, engine, candidate, started,
                       misled, model, requests, crashes, torn, made, removed, halved, leftover>>
    BY <1>c, NobodyElse DEF TakeRuntime, At, Free, Holds, rows, locks, vision, faults, ghosts
  <2>2. /\ task' \in [Handlers -> Tasks] /\ OthersSame(h)
        /\ task'[h].pc = "start_items" /\ Carries(h)
    BY <1>c, Moved DEF IInv, TakeRuntime, Pcs
  <2>3. TypeOK'
    BY <2>1, <2>2, NobodyElse DEF IInv, TypeOK
  <2>4. /\ Shape(task[h]) /\ (UnderBuild(task[h]) => profile # Nobody /\ profile.status = "building")
        /\ Inside(task[h]) => service = h
        /\ Starting(task[h]) => runtime = h
    BY DEF IInv, Shaped, Working, AtWork, Owned
  <2>5. StepsAside(h)
    BY <2>1, <2>2, <2>4, NobodyElse
       DEF StepsAside, LocksOf, BuildOf, Carries, Bare, Shape, AtWork, Owned, Inside, Changing, UnderBuild, Refreshing, Starting
  <2>6. Carried' /\ CommittedCurrent'
    BY <2>1, <2>2, CarriedOn DEF IInv, CommittedCurrent, Renumbered, Carries, Bare
  <2> QED BY <2>3, <2>5, <2>6, Aside
<1> QED BY <1>a, <1>b, <1>c

\* A photograph that is stored already.
LEMMA AddDuplicateStep == ASSUME IInv, NEW h \in Handlers, AddDuplicate(h) PROVE IInv'
<1>1. /\ task[h].pc = "locked"
      /\ UNCHANGED <<item, refs, profile, experimental, disk, engine, candidate, started, misled, model,
                     requests, crashes, torn, made, removed, halved, leftover>>
  BY NobodyElse DEF AddDuplicate, At, Free, Holds, rows, locks, vision, faults, ghosts
<1>2. /\ task' \in [Handlers -> Tasks] /\ OthersSame(h)
      /\ task'[h].pc = "items" /\ Bare(h)
      /\ service' = Nobody /\ runtime' = IF runtime = h THEN Nobody ELSE runtime
  BY Refreshed DEF IInv, AddDuplicate
<1>3. TypeOK'
  BY <1>1, <1>2, NobodyElse DEF IInv, TypeOK
<1>4. /\ Shape(task[h]) /\ (UnderBuild(task[h]) => profile # Nobody /\ profile.status = "building")
      /\ Inside(task[h]) => service = h
      /\ Starting(task[h]) => runtime = h
  BY DEF IInv, Shaped, Working, AtWork, Owned
<1>5. StepsAside(h)
  BY <1>1, <1>2, <1>4, NobodyElse
     DEF StepsAside, LocksOf, BuildOf, Carries, Bare, Shape, AtWork, Owned, Inside, Changing, UnderBuild, Refreshing, Starting
<1>6. Carried' /\ CommittedCurrent'
  BY <1>1, <1>2, CarriedOn DEF IInv, CommittedCurrent, Renumbered, Carries, Bare
<1> QED BY <1>3, <1>5, <1>6, Aside

\* A photograph that is not there.
LEMMA RefusedStep == ASSUME IInv, NEW h \in Handlers, Refused(h) PROVE IInv'
<1>1. /\ task[h].pc \in {"locked", "remove_item"}
      /\ UNCHANGED <<item, refs, profile, experimental, disk, engine, candidate, started, misled, model,
                     requests, crashes, torn, made, removed, halved, leftover>>
  BY NobodyElse DEF Refused, At, Free, Holds, rows, locks, vision, faults, ghosts
<1>2. /\ task' \in [Handlers -> Tasks] /\ OthersSame(h)
      /\ task'[h].pc = "idle" /\ Bare(h)
      /\ service' = IF service = h THEN Nobody ELSE service
      /\ runtime' = IF runtime = h THEN Nobody ELSE runtime
  BY GaveUp DEF IInv, Refused
<1>3. TypeOK'
  BY <1>1, <1>2, NobodyElse DEF IInv, TypeOK
<1>4. /\ Shape(task[h]) /\ (UnderBuild(task[h]) => profile # Nobody /\ profile.status = "building")
      /\ Inside(task[h]) => service = h
      /\ Starting(task[h]) => runtime = h
  BY DEF IInv, Shaped, Working, AtWork, Owned
<1>5. StepsAside(h)
  BY <1>1, <1>2, <1>4, NobodyElse
     DEF StepsAside, LocksOf, BuildOf, Carries, Bare, Shape, AtWork, Owned, Inside, Changing, UnderBuild, Refreshing, Starting
<1>6. Carried' /\ CommittedCurrent'
  BY <1>1, <1>2, CarriedOn DEF IInv, CommittedCurrent, Renumbered, Carries, Bare
<1> QED BY <1>3, <1>5, <1>6, Aside

\* A build without confirmed photographs is refused.
LEMMA BuildRefusedStep == ASSUME IInv, NEW h \in Handlers, BuildRefused(h) PROVE IInv'
<1>1. /\ task[h].pc = "locked"
      /\ UNCHANGED <<item, refs, profile, experimental, disk, engine, candidate, started, misled, model,
                     requests, crashes, torn, made, removed, halved, leftover>>
  BY NobodyElse DEF BuildRefused, At, Free, Holds, rows, locks, vision, faults, ghosts
<1>2. /\ task' \in [Handlers -> Tasks] /\ OthersSame(h)
      /\ task'[h].pc = "items" /\ Bare(h)
      /\ service' = Nobody /\ runtime' = IF runtime = h THEN Nobody ELSE runtime
  BY Refreshed DEF IInv, BuildRefused
<1>3. TypeOK'
  BY <1>1, <1>2, NobodyElse DEF IInv, TypeOK
<1>4. /\ Shape(task[h]) /\ (UnderBuild(task[h]) => profile # Nobody /\ profile.status = "building")
      /\ Inside(task[h]) => service = h
      /\ Starting(task[h]) => runtime = h
  BY DEF IInv, Shaped, Working, AtWork, Owned
<1>5. StepsAside(h)
  BY <1>1, <1>2, <1>4, NobodyElse
     DEF StepsAside, LocksOf, BuildOf, Carries, Bare, Shape, AtWork, Owned, Inside, Changing, UnderBuild, Refreshing, Starting
<1>6. Carried' /\ CommittedCurrent'
  BY <1>1, <1>2, CarriedOn DEF IInv, CommittedCurrent, Renumbered, Carries, Bare
<1> QED BY <1>3, <1>5, <1>6, Aside

\* The task of a handler after the removal of the row, and after each of its reads.
LEMMA RemoveItemTask ==
    ASSUME IInv, NEW h \in Handlers, RemoveItem(h)
    PROVE  task' \in [Handlers -> Tasks] /\ OthersSame(h) /\ task'[h].pc = "items" /\ Bare(h)
<1> DEFINE t == [NoTask EXCEPT !.op = "remove", !.pc = "items"]
<1>1. task' = [task EXCEPT ![h] = t] /\ task \in [Handlers -> Tasks]
  BY DEF RemoveItem, IInv, TypeOK
<1>2. task[h].op = "remove" /\ task[h].op \in Operations \cup {"none"}
  BY <1>1 DEF RemoveItem, At, IInv, Shaped, Shape, Tasks
<1>3. t \in Tasks /\ t.pc = "items" /\ t.items = Nobody /\ t.build = 0 /\ t.mine = {}
  BY <1>2, NoTaskTask DEF NoTask, Tasks
<1> HIDE DEF t
<1> QED BY <1>1, <1>3 DEF OthersSame, Bare
LEMMA ReadItemsTask ==
    ASSUME IInv, NEW h \in Handlers, ReadItems(h)
    PROVE  /\ task' \in [Handlers -> Tasks] /\ OthersSame(h)
           /\ task'[h].pc \in {"encoder", "engines"} /\ task'[h].items = (IF item THEN profile ELSE Nobody)
           /\ task'[h].op = task[h].op /\ task'[h].ref = task[h].ref /\ task'[h].build = task[h].build
           /\ task'[h].mine = task[h].mine
<1> DEFINE x == IF item THEN profile ELSE Nobody
           pc == IF task[h].activate THEN "encoder" ELSE "engines"
           t == [task[h] EXCEPT !.items = x, !.pc = pc]
<1>1. task' = [task EXCEPT ![h] = t] /\ task \in [Handlers -> Tasks]
  BY DEF ReadItems, IInv, TypeOK
<1>2. x \in Items /\ pc \in {"encoder", "engines"}
  BY DEF IInv, TypeOK, Items
<1>3. /\ t \in Tasks /\ t.pc = pc /\ t.items = x /\ t.op = task[h].op /\ t.ref = task[h].ref
      /\ t.build = task[h].build /\ t.mine = task[h].mine
  <2> HIDE DEF x, pc
  <2> QED BY <1>1, <1>2, ZenonT(60) DEF Tasks
<1> HIDE DEF t
<1> QED BY <1>1, <1>2, <1>3 DEF OthersSame
LEMMA ReadEnginesTask ==
    ASSUME IInv, NEW h \in Handlers, ReadEngines(h)
    PROVE  task' \in [Handlers -> Tasks] /\ OthersSame(h) /\ task'[h].pc = "reload" /\ Carries(h)
<1> DEFINE n == IF engine = Nobody THEN 0 ELSE engine.id
           t == [task[h] EXCEPT !.reads = n, !.pc = "reload"]
<1>1. task' = [task EXCEPT ![h] = t] /\ task \in [Handlers -> Tasks]
  BY DEF ReadEngines, IInv, TypeOK
<1>2. n \in Nat
  BY DEF IInv, TypeOK, Engines
<1>3. /\ t \in Tasks /\ t.pc = "reload" /\ t.items = task[h].items /\ t.op = task[h].op /\ t.ref = task[h].ref
      /\ t.build = task[h].build /\ t.mine = task[h].mine
  <2> HIDE DEF n
  <2> QED BY <1>1, <1>2, ZenonT(60) DEF Tasks
<1> HIDE DEF t
<1> QED BY <1>1, <1>3 DEF OthersSame, Carries
LEMMA StartItemsTask ==
    ASSUME IInv, NEW h \in Handlers, StartItems(h)
    PROVE  /\ task' \in [Handlers -> Tasks] /\ OthersSame(h)
           /\ task'[h].pc \in {"start_encoder", "start"} /\ task'[h].items = (IF item THEN profile ELSE Nobody)
           /\ task'[h].op = task[h].op /\ task'[h].ref = task[h].ref /\ task'[h].build = task[h].build
           /\ task'[h].mine = task[h].mine
<1> DEFINE x == IF item THEN profile ELSE Nobody
           pc == IF experimental THEN "start_encoder" ELSE "start"
           t == [task[h] EXCEPT !.items = x, !.activate = experimental, !.pc = pc]
<1>1. task' = [task EXCEPT ![h] = t] /\ task \in [Handlers -> Tasks]
  BY DEF StartItems, IInv, TypeOK
<1>2. x \in Items /\ pc \in {"start_encoder", "start"} /\ experimental \in BOOLEAN
  BY DEF IInv, TypeOK, Items
<1>3. /\ t \in Tasks /\ t.pc = pc /\ t.items = x /\ t.op = task[h].op /\ t.ref = task[h].ref
      /\ t.build = task[h].build /\ t.mine = task[h].mine
  <2> HIDE DEF x, pc
  <2> QED BY <1>1, <1>2, ZenonT(60) DEF Tasks
<1> HIDE DEF t
<1> QED BY <1>1, <1>2, <1>3 DEF OthersSame

\* The row of the item goes.
LEMMA RemoveItemStep == ASSUME IInv, NEW h \in Handlers, RemoveItem(h) PROVE IInv'
<1>1. /\ task[h].pc = "remove_item" /\ item' = FALSE
      /\ UNCHANGED <<refs, profile, experimental, disk, service, runtime, engine, candidate, started,
                     misled, model, requests, crashes, torn, made, removed, halved, leftover>>
  BY NobodyElse DEF RemoveItem, At, Free, Holds, rows, locks, vision, faults, ghosts
<1>2. /\ task' \in [Handlers -> Tasks] /\ OthersSame(h)
      /\ task'[h].pc = "items" /\ Bare(h)
  BY RemoveItemTask DEF IInv, RemoveItem
<1>3. TypeOK'
  BY <1>1, <1>2, NobodyElse DEF IInv, TypeOK
<1>4. /\ Shape(task[h]) /\ (UnderBuild(task[h]) => profile # Nobody /\ profile.status = "building")
      /\ Inside(task[h]) => service = h
      /\ Starting(task[h]) => runtime = h
  BY DEF IInv, Shaped, Working, AtWork, Owned
<1>5. StepsAside(h)
  BY <1>1, <1>2, <1>4, NobodyElse
     DEF StepsAside, LocksOf, BuildOf, Carries, Bare, Shape, AtWork, Owned, Inside, Changing, UnderBuild, Refreshing, Starting
<1>6. Carried' /\ CommittedCurrent'
  BY <1>1, <1>2, CarriedOn DEF IInv, CommittedCurrent, Renumbered, Carries, Bare
<1> QED BY <1>3, <1>5, <1>6, Aside

\* The rows are read for the engines.
LEMMA ReadItemsStep == ASSUME IInv, NEW h \in Handlers, ReadItems(h) PROVE IInv'
<1>1. /\ task[h].pc = "items" /\ experimental' \in BOOLEAN
      /\ UNCHANGED <<item, refs, profile, disk, service, runtime, engine, candidate, started, misled,
                     model, requests, crashes, torn, made, removed, halved, leftover>>
  BY NobodyElse DEF ReadItems, At, Free, Holds, rows, locks, vision, faults, ghosts, IInv, TypeOK, Tasks
<1>2. /\ task' \in [Handlers -> Tasks] /\ OthersSame(h)
      /\ task'[h].pc \in {"encoder", "engines"} /\ task'[h].items = (IF item THEN profile ELSE Nobody)
      /\ task'[h].op = task[h].op /\ task'[h].ref = task[h].ref /\ task'[h].build = task[h].build
      /\ task'[h].mine = task[h].mine
  BY ReadItemsTask DEF IInv, ReadItems
<1>3. TypeOK'
  BY <1>1, <1>2, NobodyElse DEF IInv, TypeOK
<1>4. /\ Shape(task[h]) /\ (UnderBuild(task[h]) => profile # Nobody /\ profile.status = "building")
      /\ Inside(task[h]) => service = h
      /\ Starting(task[h]) => runtime = h
  BY DEF IInv, Shaped, Working, AtWork, Owned
<1>5. StepsAside(h)
  BY <1>1, <1>2, <1>4, NobodyElse
     DEF StepsAside, LocksOf, BuildOf, Carries, Bare, Shape, AtWork, Owned, Inside, Changing, UnderBuild, Refreshing, Starting
<1>6. Carried' /\ CommittedCurrent'
  BY <1>1, <1>2, CarriedOn, SnapNow DEF IInv, CommittedCurrent, Renumbered, Carries, Bare
<1> QED BY <1>3, <1>5, <1>6, Aside

\* The encoder is asked for.
LEMMA ReadEncoderStep == ASSUME IInv, NEW h \in Handlers, ReadEncoder(h) PROVE IInv'
<1>1. /\ task[h].pc = "encoder"
      /\ UNCHANGED <<item, refs, profile, experimental, disk, service, runtime, engine, candidate,
                     started, misled, model, requests, crashes, torn, made, removed, halved, leftover>>
  BY NobodyElse DEF ReadEncoder, At, Free, Holds, rows, locks, vision, faults, ghosts
<1>2. /\ task' \in [Handlers -> Tasks] /\ OthersSame(h)
      /\ task'[h].pc = "engines" /\ Carries(h)
  BY Moved DEF IInv, ReadEncoder, Pcs
<1>3. TypeOK'
  BY <1>1, <1>2, NobodyElse DEF IInv, TypeOK
<1>4. /\ Shape(task[h]) /\ (UnderBuild(task[h]) => profile # Nobody /\ profile.status = "building")
      /\ Inside(task[h]) => service = h
      /\ Starting(task[h]) => runtime = h
  BY DEF IInv, Shaped, Working, AtWork, Owned
<1>5. StepsAside(h)
  BY <1>1, <1>2, <1>4, NobodyElse
     DEF StepsAside, LocksOf, BuildOf, Carries, Bare, Shape, AtWork, Owned, Inside, Changing, UnderBuild, Refreshing, Starting
<1>6. Carried' /\ CommittedCurrent'
  BY <1>1, <1>2, CarriedOn DEF IInv, CommittedCurrent, Renumbered, Carries, Bare
<1> QED BY <1>3, <1>5, <1>6, Aside

\* The engines are looked up.
LEMMA ReadEnginesStep == ASSUME IInv, NEW h \in Handlers, ReadEngines(h) PROVE IInv'
<1>1. /\ task[h].pc = "engines"
      /\ UNCHANGED <<item, refs, profile, experimental, disk, service, runtime, engine, candidate,
                     started, misled, model, requests, crashes, torn, made, removed, halved, leftover>>
  BY NobodyElse DEF ReadEngines, At, Free, Holds, rows, locks, vision, faults, ghosts
<1>2. /\ task' \in [Handlers -> Tasks] /\ OthersSame(h)
      /\ task'[h].pc = "reload" /\ Carries(h)
  BY ReadEnginesTask DEF IInv, ReadEngines
<1>3. TypeOK'
  BY <1>1, <1>2, NobodyElse DEF IInv, TypeOK
<1>4. /\ Shape(task[h]) /\ (UnderBuild(task[h]) => profile # Nobody /\ profile.status = "building")
      /\ Inside(task[h]) => service = h
      /\ Starting(task[h]) => runtime = h
  BY DEF IInv, Shaped, Working, AtWork, Owned
<1>5. StepsAside(h)
  BY <1>1, <1>2, <1>4, NobodyElse
     DEF StepsAside, LocksOf, BuildOf, Carries, Bare, Shape, AtWork, Owned, Inside, Changing, UnderBuild, Refreshing, Starting
<1>6. Carried' /\ CommittedCurrent'
  BY <1>1, <1>2, CarriedOn DEF IInv, CommittedCurrent, Renumbered, Carries, Bare
<1> QED BY <1>3, <1>5, <1>6, Aside

\* The rows are read for a new engine.
LEMMA StartItemsStep == ASSUME IInv, NEW h \in Handlers, StartItems(h) PROVE IInv'
<1>1. /\ task[h].pc = "start_items"
      /\ UNCHANGED <<item, refs, profile, experimental, disk, service, runtime, engine, candidate,
                     started, misled, model, requests, crashes, torn, made, removed, halved, leftover>>
  BY NobodyElse DEF StartItems, At, Free, Holds, rows, locks, vision, faults, ghosts
<1>2. /\ task' \in [Handlers -> Tasks] /\ OthersSame(h)
      /\ task'[h].pc \in {"start_encoder", "start"} /\ task'[h].items = (IF item THEN profile ELSE Nobody)
      /\ task'[h].op = task[h].op /\ task'[h].ref = task[h].ref /\ task'[h].build = task[h].build
      /\ task'[h].mine = task[h].mine
  BY StartItemsTask DEF IInv, StartItems
<1>3. TypeOK'
  BY <1>1, <1>2, NobodyElse DEF IInv, TypeOK
<1>4. /\ Shape(task[h]) /\ (UnderBuild(task[h]) => profile # Nobody /\ profile.status = "building")
      /\ Inside(task[h]) => service = h
      /\ Starting(task[h]) => runtime = h
  BY DEF IInv, Shaped, Working, AtWork, Owned
<1>5. StepsAside(h)
  BY <1>1, <1>2, <1>4, NobodyElse
     DEF StepsAside, LocksOf, BuildOf, Carries, Bare, Shape, AtWork, Owned, Inside, Changing, UnderBuild, Refreshing, Starting
<1>6. Carried' /\ CommittedCurrent'
  BY <1>1, <1>2, CarriedOn, SnapNow DEF IInv, CommittedCurrent, Renumbered, Carries, Bare
<1> QED BY <1>3, <1>5, <1>6, Aside

\* The encoder is asked for, under Runtime.lock.
LEMMA StartEncoderStep == ASSUME IInv, NEW h \in Handlers, StartEncoder(h) PROVE IInv'
<1>1. /\ task[h].pc = "start_encoder"
      /\ UNCHANGED <<item, refs, profile, experimental, disk, service, runtime, engine, candidate,
                     started, misled, model, requests, crashes, torn, made, removed, halved, leftover>>
  BY NobodyElse DEF StartEncoder, At, Free, Holds, rows, locks, vision, faults, ghosts
<1>2. /\ task' \in [Handlers -> Tasks] /\ OthersSame(h)
      /\ task'[h].pc = "start" /\ Carries(h)
  BY Moved DEF IInv, StartEncoder, Pcs
<1>3. TypeOK'
  BY <1>1, <1>2, NobodyElse DEF IInv, TypeOK
<1>4. /\ Shape(task[h]) /\ (UnderBuild(task[h]) => profile # Nobody /\ profile.status = "building")
      /\ Inside(task[h]) => service = h
      /\ Starting(task[h]) => runtime = h
  BY DEF IInv, Shaped, Working, AtWork, Owned
<1>5. StepsAside(h)
  BY <1>1, <1>2, <1>4, NobodyElse
     DEF StepsAside, LocksOf, BuildOf, Carries, Bare, Shape, AtWork, Owned, Inside, Changing, UnderBuild, Refreshing, Starting
<1>6. Carried' /\ CommittedCurrent'
  BY <1>1, <1>2, CarriedOn DEF IInv, CommittedCurrent, Renumbered, Carries, Bare
<1> QED BY <1>3, <1>5, <1>6, Aside

-----------------------------------------------------------------------------
(* The engines.                                                            *)

\* A running engine is an engine, and what it holds is of its kind.
LEMMA EngineType ==
    ASSUME IInv, engine # Nobody
    PROVE  /\ engine \in Engines /\ engine.matcher \in Items
           /\ engine.pending # Nobody => engine.pending.items \in Items /\ engine.pending.enable \in BOOLEAN
           /\ engine.taken # Nobody => engine.taken.items \in Items /\ engine.taken.enable \in BOOLEAN
           /\ engine.taken # Nobody => engine.taken.revision \in Nat
BY DEF IInv, TypeOK, Engines, Updates, Loads

\* The matcher of items is a ready profile or none.
LEMMA MatcherOf ==
    ASSUME IInv, NEW x \in Items, Snap(x), NEW mode \in BOOLEAN
    PROVE  /\ Matcher(x, mode) \in Items
           /\ Matcher(x, mode) # Nobody => Matcher(x, mode) \in made
           /\ VersionOf(Matcher(x, mode)) \in Nat
           /\ VersionOf(Matcher(x, mode)) # 0 =>
                  Matcher(x, mode) # Nobody /\ VersionOf(Matcher(x, mode)) = Matcher(x, mode).version
<1>1. x # Nobody => x.version \in Nat
  BY DEF Items, Profiles
<1> QED BY <1>1 DEF Matcher, VersionOf, Snap, Ready, Items

\* A step of the engines.
EnginesOnly ==
    UNCHANGED <<task, service, runtime, refs, profile, disk, model, torn, removed, made, requests, crashes,
                halved, leftover>>
LEMMA EngineFrame ==
    ASSUME IInv, TypeOK', EnginesOnly, Loaded', CommittedCurrent'
    PROVE  IInv'
<1> USE DEF EnginesOnly
<1>1. Saved' = Saved /\ Confirmed' = Confirmed /\ Vectors' = Vectors
  BY DEF Saved, Confirmed, Vectors
<1>2. Files(Saved)' = Files(Saved)
  BY DEF Saved, Files, Cuts
<1>3. Owned' /\ Shaped' /\ Numbered' /\ Cropless'
  BY DEF IInv, Owned, Shaped, Numbered, Cropless
<1>4. Working'
  <2> SUFFICES ASSUME NEW h \in Handlers PROVE AtWork(task[h])'
    BY DEF Working
  <2>1. Files({task[h].ref})' = Files({task[h].ref})
    BY DEF Files, Cuts
  <2> QED BY <1>1, <1>2, <2>1 DEF IInv, Working, AtWork
<1>5. FilesKept'
  BY <1>1 DEF IInv, FilesKept, Files, Cuts, Unlinking, At
<1>6. FilesAccounted'
  BY <1>2 DEF IInv, FilesAccounted, InHand, At
<1>7. Current' /\ Making' /\ VersionNamesVectors'
  BY <1>1 DEF IInv, Current, Making, Recorded, Ordered, Ready, Renumbered, Dropping, At, VersionNamesVectors
<1>8. Carried'
  BY DEF IInv, Carried, Borne, Snap, Ready
<1> QED BY <1>3, <1>4, <1>5, <1>6, <1>7, <1>8 DEF IInv

\* The camera is stopped.
LEMMA StopStep == ASSUME IInv, Stop PROVE IInv'
<1>1. EnginesOnly /\ engine' = Nobody /\ UNCHANGED <<item, experimental, candidate, started, misled>>
  BY DEF Stop, EnginesOnly, rows, locks, faults, ghosts
<1>2. TypeOK'
  BY <1>1 DEF IInv, TypeOK, EnginesOnly
<1>3. Loaded' /\ CommittedCurrent'
  BY <1>1 DEF IInv, Carried, Loaded, CommittedCurrent, Renumbered, EnginesOnly
<1> QED BY <1>1, <1>2, <1>3, EngineFrame

\* What waits is taken.
LEMMA TakeStep == ASSUME IInv, Take PROVE IInv'
<1> DEFINE x == [items |-> engine.pending.items, enable |-> engine.pending.enable, revision |-> engine.revision]
           e == [engine EXCEPT !.pending = Nobody, !.taken = x]
<1>1. /\ engine # Nobody /\ engine.pending # Nobody /\ engine' = e
      /\ EnginesOnly /\ UNCHANGED <<item, experimental, candidate, started, misled>>
  BY DEF Take, EnginesOnly, rows, locks, faults, ghosts
<1>2. /\ engine \in Engines /\ x \in Loads /\ x # Nobody /\ x.items = engine.pending.items
      /\ Snap(engine.pending.items)
  BY <1>1, EngineType, NobodyIsNoRecord DEF Engines, Loads, IInv, Carried, Loaded
<1> HIDE DEF x
<1>3. /\ e \in Engines /\ e.pending = Nobody /\ e.taken = x /\ e.matcher = engine.matcher
      /\ e.loaded = engine.loaded
  BY <1>2 DEF Engines
<1> HIDE DEF e
<1>4. TypeOK'
  BY <1>1, <1>3 DEF IInv, TypeOK, EnginesOnly
<1>5. Loaded' /\ CommittedCurrent'
  BY <1>1, <1>2, <1>3 DEF IInv, Carried, Loaded, Snap, CommittedCurrent, Renumbered, EnginesOnly
<1> QED BY <1>1, <1>4, <1>5, EngineFrame

\* What was taken is installed, and said to be loaded if nothing waits.
LEMMA InstallStep == ASSUME IInv, Install PROVE IInv'
<1> DEFINE mode == engine.mode \/ engine.taken.enable
           m == Matcher(engine.taken.items, mode)
           v == IF engine.taken.revision = engine.revision THEN VersionOf(m) ELSE 0
           e == [engine EXCEPT !.mode = mode, !.matcher = m, !.applied = engine.taken.revision,
                               !.taken = Nobody, !.loaded = v]
<1>1. /\ engine # Nobody /\ engine.taken # Nobody /\ engine' = e
      /\ EnginesOnly /\ UNCHANGED <<item, experimental, candidate, started, misled>>
  BY DEF Install, EnginesOnly, rows, locks, faults, ghosts
<1>2. /\ engine \in Engines /\ mode \in BOOLEAN /\ engine.taken.items \in Items
      /\ engine.taken.revision \in Nat /\ Snap(engine.taken.items)
  BY <1>1, EngineType DEF Engines, IInv, Carried, Loaded
<1> HIDE DEF mode
<1>3. /\ m \in Items /\ (m # Nobody => m \in made) /\ v \in Nat
      /\ v # 0 => m # Nobody /\ v = m.version
  BY <1>2, MatcherOf
<1> HIDE DEF m, v
<1>4. /\ e \in Engines /\ e.pending = engine.pending /\ e.taken = Nobody /\ e.matcher = m /\ e.loaded = v
  BY <1>2, <1>3 DEF Engines
<1> HIDE DEF e
<1>5. TypeOK'
  BY <1>1, <1>4 DEF IInv, TypeOK, EnginesOnly
<1>6. Loaded' /\ CommittedCurrent'
  BY <1>1, <1>3, <1>4 DEF IInv, Carried, Loaded, Snap, CommittedCurrent, Renumbered, EnginesOnly
<1> QED BY <1>1, <1>5, <1>6, EngineFrame

\* A movement is identified.
LEMMA RecogniseStep == ASSUME IInv, Recognise PROVE IInv'
<1> DEFINE c == [engine |-> engine.id, generation |-> engine.applied, identity |-> engine.matcher]
<1>1. /\ engine # Nobody /\ engine.matcher # Nobody /\ candidate' = c
      /\ EnginesOnly /\ UNCHANGED <<item, experimental, engine, started, misled>>
  BY DEF Recognise, EnginesOnly, rows, locks, faults, ghosts
<1>2. engine \in Engines /\ engine.matcher \in Profiles /\ engine.matcher \in made
  BY <1>1, EngineType DEF Items, IInv, Carried, Loaded
<1>3. c \in Candidates /\ c.identity = engine.matcher
  BY <1>2 DEF Candidates, Engines
<1> HIDE DEF c
<1>4. TypeOK'
  BY <1>1, <1>3 DEF IInv, TypeOK, EnginesOnly
<1>5. Loaded' /\ CommittedCurrent'
  BY <1>1, <1>2, <1>3 DEF IInv, Carried, Loaded, Snap, Ready, CommittedCurrent, Renumbered, EnginesOnly
<1> QED BY <1>1, <1>4, <1>5, EngineFrame

\* Its identity is accepted: its version is that of the ready profile, so its
\* vectors are, because a version names one generation of vectors.
LEMMA AcceptStep == ASSUME IInv, Accept PROVE IInv'
<1>1. /\ candidate # Nobody /\ ProfileMatches(candidate) /\ candidate' = Nobody
      /\ misled' = (misled \/ candidate.identity.vectors # profile.vectors)
      /\ EnginesOnly /\ UNCHANGED <<item, experimental, engine, started>>
  BY DEF Accept, EnginesOnly, rows, locks, faults, ghosts
<1>2. misled' \in BOOLEAN
  BY <1>1 DEF IInv, TypeOK
<1>3. TypeOK'
  BY <1>1, <1>2 DEF IInv, TypeOK, EnginesOnly
<1>4. candidate.identity \in made /\ profile \in made
  BY <1>1 DEF IInv, Carried, Loaded, Making, Recorded, Ready, ProfileMatches
<1>5. ~Renumbered => candidate.identity = profile
  BY <1>1, <1>4 DEF IInv, VersionNamesVectors, ProfileMatches
<1>6. Loaded' /\ CommittedCurrent'
  BY <1>1, <1>5 DEF IInv, Carried, Loaded, Snap, Ready, CommittedCurrent, Renumbered, EnginesOnly
<1> QED BY <1>1, <1>3, <1>6, EngineFrame

\* Or refused.
LEMMA RejectStep == ASSUME IInv, Reject PROVE IInv'
<1>1. /\ candidate' = Nobody /\ EnginesOnly /\ UNCHANGED <<item, experimental, engine, started, misled>>
  BY DEF Reject, EnginesOnly, rows, locks, faults, ghosts
<1>2. TypeOK'
  BY <1>1 DEF IInv, TypeOK, EnginesOnly
<1>3. Loaded' /\ CommittedCurrent'
  BY <1>1 DEF IInv, Carried, Loaded, Snap, Ready, CommittedCurrent, Renumbered, EnginesOnly
<1> QED BY <1>1, <1>2, <1>3, EngineFrame

\* An engine is given the rows a handler has read.
LEMMA ReloadStep == ASSUME IInv, NEW h \in Handlers, Reload(h) PROVE IInv'
<1>1. /\ task[h].pc = "reload"
      /\ UNCHANGED <<item, refs, profile, experimental, disk, service, runtime, candidate, started,
                     misled, model, requests, crashes, torn, made, removed, halved, leftover>>
  BY DEF Reload, At, rows, locks, faults, ghosts
<1>2. /\ task' \in [Handlers -> Tasks] /\ OthersSame(h)
      /\ \/ task[h].build = 0 /\ task'[h].pc = "idle" /\ Bare(h)
         \/ task[h].build # 0 /\ task'[h].pc = "encode" /\ Carries(h)
  BY Returned, Moved DEF IInv, Reload, Pcs
<1> DEFINE x == task[h].items
           act == task[h].activate
           on == act \/ (engine.pending # Nobody /\ engine.pending.enable)
           p == [items |-> x, enable |-> on]
           n == engine.revision + 1
           e == Reloaded(engine, x, act)
<1>3. engine' = engine \/ (engine # Nobody /\ engine' = e)
  BY DEF Reload
<1>4. x \in Items /\ act \in BOOLEAN /\ Snap(x)
  BY DEF IInv, TypeOK, Tasks, Carried, Borne
<1>a. e = [engine EXCEPT !.revision = n, !.loaded = 0, !.pending = p]
  BY DEF Reloaded
<1>b. engine # Nobody => on \in BOOLEAN /\ n \in Nat /\ engine \in Engines
  BY <1>4, EngineType DEF Engines
<1> HIDE DEF x, act, on, n
<1>5. engine # Nobody => p \in Updates /\ p # Nobody /\ p.items = x
  BY <1>4, <1>b, NobodyIsNoRecord DEF Updates
<1>6. e = [engine EXCEPT !.revision = n, !.loaded = 0, !.pending = p]
  BY <1>a
<1> HIDE DEF p, e
<1>7. engine # Nobody => /\ e \in Engines /\ e.pending = p /\ e.taken = engine.taken
                         /\ e.matcher = engine.matcher /\ e.loaded = 0
  BY <1>5, <1>6, <1>b DEF Engines
<1>8. engine' \in Engines \cup {Nobody}
  BY <1>3, <1>7 DEF IInv, TypeOK
<1>9. TypeOK'
  BY <1>1, <1>2, <1>8 DEF IInv, TypeOK
<1>10. Loaded'
  <2>1. CASE engine' = engine
    BY <1>1, <2>1, LoadedOn DEF IInv, Carried
  <2>2. CASE engine # Nobody /\ engine' = e
    BY <1>1, <1>4, <1>5, <1>7, <2>2 DEF IInv, Carried, Loaded, Snap, Ready
  <2> QED BY <1>3, <2>1, <2>2
<1>11. Carried' /\ CommittedCurrent'
  BY <1>1, <1>2, <1>10, BorneOn DEF IInv, Carried, CommittedCurrent, Renumbered, Bare, Carries
<1>12. /\ Shape(task[h]) /\ (UnderBuild(task[h]) => profile # Nobody /\ profile.status = "building")
       /\ Inside(task[h]) => service = h
  BY DEF IInv, Shaped, Working, AtWork, Owned
<1>13. StepsAside(h)
  BY <1>1, <1>2, <1>12
     DEF StepsAside, LocksOf, BuildOf, Carries, Bare, Shape, AtWork, Inside, Changing, UnderBuild,
         Refreshing, Starting
<1> QED BY <1>9, <1>11, <1>13, Aside

\* An engine is started with the rows a handler has read.
LEMMA StartStep == ASSUME IInv, NEW h \in Handlers, Start(h) PROVE IInv'
<1> DEFINE x == task[h].items
           act == task[h].activate
           m == Matcher(x, act)
           v == VersionOf(m)
           e == [id |-> started + 1, revision |-> 0, applied |-> 0, mode |-> act,
                 pending |-> Nobody, taken |-> Nobody, matcher |-> m, loaded |-> v]
<1>1. /\ task[h].pc = "start" /\ engine' = e /\ started' = started + 1
      /\ UNCHANGED <<item, refs, profile, experimental, disk, candidate, misled, model, requests, crashes,
                     torn, made, removed, halved, leftover>>
  BY DEF Start, At, rows, faults, ghosts
<1>2. /\ task' \in [Handlers -> Tasks] /\ OthersSame(h)
      /\ task'[h].pc = "idle" /\ Bare(h)
      /\ service' = IF service = h THEN Nobody ELSE service
      /\ runtime' = IF runtime = h THEN Nobody ELSE runtime
  BY GaveUp DEF IInv, Start
<1>3. x \in Items /\ act \in BOOLEAN /\ Snap(x) /\ started \in Nat
  BY DEF IInv, TypeOK, Tasks, Carried, Borne
<1> HIDE DEF x, act
<1>4. /\ m \in Items /\ (m # Nobody => m \in made) /\ v \in Nat
      /\ v # 0 => m # Nobody /\ v = m.version
  BY <1>3, MatcherOf
<1> HIDE DEF m, v
<1>5. /\ e \in Engines /\ e.pending = Nobody /\ e.taken = Nobody /\ e.matcher = m /\ e.loaded = v
  BY <1>3, <1>4 DEF Engines
<1> HIDE DEF e
<1>6. TypeOK'
  BY <1>1, <1>2, <1>3, <1>5 DEF IInv, TypeOK
<1>7. Loaded'
  BY <1>1, <1>4, <1>5 DEF IInv, Carried, Loaded, Snap, Ready
<1>8. Carried' /\ CommittedCurrent'
  BY <1>1, <1>2, <1>7, BorneOn DEF IInv, Carried, CommittedCurrent, Renumbered, Bare
<1>9. Shape(task[h])
  BY DEF IInv, Shaped
<1>10. StepsAside(h)
  BY <1>1, <1>2, <1>9, NobodyElse
     DEF StepsAside, LocksOf, BuildOf, Bare, Shape, AtWork, Inside, Changing, UnderBuild, Refreshing, Starting
<1> QED BY <1>6, <1>8, <1>10, Aside

-----------------------------------------------------------------------------
(* The handlers inside RegistrationService.lock.                           *)

\* A handler inside the lock takes a step.
StepsWithin(h) ==
    /\ Inside(task[h]) /\ OthersSame(h) /\ LocksOf(h) /\ Shape(task'[h]) /\ AtWork(task[h])'
    /\ service' \in {service, Nobody} /\ runtime' \in {runtime, Nobody}
    /\ task' \in [Handlers -> Tasks] /\ task'[h].items \in {Nobody, task[h].items}
    /\ UNCHANGED <<item, experimental, engine, candidate, started, misled, model, requests, crashes>>
    /\ torn' \in {torn, TRUE}
\* Afterwards every row has its files, and every file belongs to something.
FilesFit(h) ==
    /\ \A r \in Saved' : r \in halved' \/ Unlinking(r)' \/ There(r)'
    /\ \A f \in disk' : \/ f \in leftover' \/ f \in Files(Saved)' \/ f \in InHand(h)'
                        \/ f \in disk /\ f \notin leftover /\ f \notin Files(Saved) /\ f \notin InHand(h)
\* The files have their types.
FilesTyped == disk \subseteq Refs \X Nat /\ halved \subseteq Refs /\ leftover \subseteq Refs \X Nat
\* And the profile is that of the photographs.
ProfileFits ==
    /\ profile' \in Items /\ made \subseteq made' /\ made' \subseteq Profiles /\ removed' \in {removed, TRUE}
    /\ Current' /\ Making' /\ VersionNamesVectors'
LEMMA Within ==
    ASSUME IInv, NEW h \in Handlers, StepsWithin(h), FilesFit(h), ProfileFits,
           refs' \in [Refs -> References], FilesTyped', Numbered', Cropless'
    PROVE  IInv'
<1>1. TypeOK'
  BY DEF IInv, TypeOK, StepsWithin, ProfileFits, FilesTyped
<1>2. Owned' /\ Shaped' /\ Working'
  BY OwnedOn, ShapedOn, WorkingOn DEF IInv, StepsWithin
<1>3. FilesKept' /\ FilesAccounted'
  BY FilesKeptOn, AccountedOn DEF IInv, StepsWithin, FilesFit
<1>4. Carried' /\ CommittedCurrent'
  <2>1. Borne'
    BY BorneOn DEF IInv, Carried, StepsWithin, ProfileFits
  <2>2. Loaded'
    BY LoadedOn DEF IInv, Carried, StepsWithin, ProfileFits
  <2>3. Renumbered => Renumbered'
    BY DEF Renumbered, StepsWithin, ProfileFits
  <2>4. CommittedCurrent'
    BY <2>3 DEF IInv, CommittedCurrent, StepsWithin
  <2> QED BY <2>1, <2>2, <2>4 DEF Carried
<1> QED BY <1>1, <1>2, <1>3, <1>4 DEF IInv, ProfileFits

\* What is known of a handler inside the lock.
LEMMA InsideFacts ==
    ASSUME IInv, NEW h \in Handlers, Inside(task[h])
    PROVE  /\ service = h /\ Shape(task[h]) /\ AtWork(task[h]) /\ task[h] \in Tasks
           /\ task[h].pc # "dropped" => ~Dropping
           /\ \A r \in Refs : refs[r] \in References
           /\ \A r \in Refs : task[h].build # 0 /\ task[h].pc # "retire" => refs[r].crop # task[h].build
<1>1. task[h].pc # "dropped" => ~Dropping
  BY Alone DEF IInv, Dropping, At, Inside, Changing
<1> QED BY <1>1 DEF IInv, Owned, Shaped, Working, Numbered, TypeOK

\* No row changes its crop.
LEMMA NumberedWithin ==
    ASSUME IInv, NEW h \in Handlers, StepsWithin(h), \A r \in Refs : refs'[r].crop = refs[r].crop,
           task'[h].build = 0 \/ (task'[h].build = task[h].build /\ task[h].pc # "retire")
    PROVE  Numbered'
BY NumberedOn DEF IInv, StepsWithin, BuildOf

\* No row changes.
LEMMA RowsSame ==
    ASSUME UNCHANGED refs
    PROVE  /\ Saved' = Saved /\ Confirmed' = Confirmed /\ Vectors' = Vectors
           /\ \A S : Files(S)' = Files(S') /\ Cuts(S)' = Cuts(S')
           /\ \A f : f \in Files(Saved)' <=> f \in Files(Saved)
BY DEF Saved, Confirmed, Vectors, Files, Cuts

\* The profile stays and no one starts or ends a deletion.
LEMMA ProfileFitsSame ==
    ASSUME IInv, NEW h \in Handlers, OthersSame(h),
           UNCHANGED <<profile, made, torn, removed>>, Vectors' = Vectors, task[h].pc # "dropped"
    PROVE  ProfileFits
BY ProfileSame DEF IInv, ProfileFits, TypeOK

\* The next version is opened.
LEMMA ProfileFitsOpened ==
    ASSUME IInv, profile' = Invalidated(profile), UNCHANGED <<made, torn, removed>>
    PROVE  ProfileFits
BY ProfileOpened DEF IInv, ProfileFits, TypeOK, Items

\* The status of a profile that is not ready changes within its version.
LEMMA ProfileFitsUnready ==
    ASSUME IInv, profile' \in Profiles, profile'.status # "ready", ~Dropping, Vectors' = Vectors,
           profile # Nobody => profile'.version = profile.version /\ profile'.model = profile.model,
           UNCHANGED <<made, torn, removed>>
    PROVE  ProfileFits
<1>1. profile' # Nobody
  BY NobodyIsNoRecord
<1>2. Current' /\ Recorded'
  BY DEF IInv, Current, Making, Recorded, Ready
<1>3. Ordered'
  BY <1>1 DEF IInv, Making, Ordered, Renumbered
<1> QED BY <1>2, <1>3 DEF IInv, ProfileFits, Making, TypeOK, Items, VersionNamesVectors, Renumbered

\* The file of a new photograph is stored.
LEMMA AddFilesStep == ASSUME IInv, NEW h \in Handlers, AddFiles(h) PROVE IInv'
<1> DEFINE x == task[h].ref
<1>1. /\ task[h].pc = "locked" /\ task[h].op \in {"upload", "capture"} /\ x \notin Saved
      /\ disk' = disk \cup {<<x, 0>>} /\ leftover' = leftover \ {<<x, 0>>}
      /\ UNCHANGED <<item, refs, profile, experimental, service, runtime, engine, candidate, started,
                     misled, model, requests, crashes, torn, made, removed, halved>>
  BY DEF AddFiles, Adding, At, rows, locks, vision, faults, ghosts
<1>2. /\ task' \in [Handlers -> Tasks] /\ OthersSame(h)
      /\ task'[h].pc = "staged" /\ Carries(h)
  BY Moved DEF IInv, AddFiles, Pcs
<1>3. Inside(task[h])
  BY <1>1 DEF Inside, Changing
<1>4. /\ service = h /\ Shape(task[h])
  BY <1>3, InsideFacts
<1>5. x \in Refs /\ task[h].mine = {} /\ task'[h].ref = x
  BY <1>1, <1>2, <1>4 DEF Shape, OfOne, Carries
<1>6. /\ Saved' = Saved /\ Vectors' = Vectors /\ \A f : f \in Files(Saved)' <=> f \in Files(Saved)
  BY <1>1, RowsSame
<1>7. StepsWithin(h)
  <2>1. LocksOf(h) /\ Shape(task'[h])
    BY <1>1, <1>2, <1>4, <1>5 DEF LocksOf, Shape, Carries, Inside, Changing, Refreshing, Starting
  <2>2. AtWork(task[h])'
    BY <1>1, <1>2, <1>5, <1>6 DEF AtWork, Carries, UnderBuild, Refreshing
  <2> QED BY <1>1, <1>2, <1>3, <2>1, <2>2 DEF StepsWithin, Carries
<1>8. FilesFit(h)
  <2>1. \A r \in Saved' : r \in halved' \/ There(r)'
    BY <1>1, <1>3, <1>6, KeptHere DEF At, There
  <2>2. InHand(h) = {} /\ <<x, 0>> \in InHand(h)'
    BY <1>1, <1>2, <1>5 DEF InHand, At
  <2> QED BY <1>1, <1>6, <2>1, <2>2 DEF FilesFit
<1>9. Numbered' /\ Cropless'
  <2>1. task'[h].build = task[h].build
    BY <1>2 DEF Carries
  <2> QED BY <1>1, <1>7, <2>1, NumberedWithin DEF IInv, Cropless
<1>10. ProfileFits
  BY <1>1, <1>2, <1>6, ProfileFitsSame
<1>11. refs' \in [Refs -> References] /\ FilesTyped'
  <2>1. <<x, 0>> \in Refs \X Nat
    BY <1>5
  <2> QED BY <1>1, <2>1 DEF IInv, TypeOK, FilesTyped
<1> HIDE DEF x
<1> QED BY <1>7, <1>8, <1>9, <1>10, <1>11, Within

\* The row of a new photograph, whose file is there.
LEMMA AddRowsStep == ASSUME IInv, NEW h \in Handlers, AddRows(h) PROVE IInv'
<1> DEFINE x == task[h].ref
<1>1. /\ task[h].pc = "staged" /\ refs' = [refs EXCEPT ![x].status = "saved"]
      /\ profile' = Invalidated(profile)
      /\ UNCHANGED <<item, experimental, disk, engine, candidate, started,
                     misled, model, requests, crashes, torn, made, removed, halved, leftover>>
  BY DEF AddRows, At, vision, faults, ghosts
<1>2. /\ task' \in [Handlers -> Tasks] /\ OthersSame(h)
      /\ task'[h].pc = "items" /\ Bare(h)
      /\ service' = Nobody /\ runtime' = IF runtime = h THEN Nobody ELSE runtime
  BY Refreshed DEF IInv, AddRows
<1>3. Inside(task[h])
  BY <1>1 DEF Inside, Changing
<1>4. /\ service = h /\ Shape(task[h]) /\ AtWork(task[h]) /\ \A r \in Refs : refs[r] \in References
  BY <1>3, InsideFacts
<1>5. x \in Refs /\ task[h].mine = {} /\ x \notin Saved /\ <<x, 0>> \in disk
  BY <1>1, <1>4 DEF Shape, AtWork
<1>6. /\ refs' \in [Refs -> References] /\ refs'[x].status = "saved" /\ refs'[x].crop = refs[x].crop
      /\ \A r \in Refs : r # x => refs'[r] = refs[r]
  <2>1. [refs[x] EXCEPT !.status = "saved"] \in References
    BY <1>4, <1>5 DEF References
  <2> QED BY <1>1, <1>4, <1>5, <2>1 DEF IInv, TypeOK, References
<1>7. refs[x].crop = 0 /\ Saved' = Saved \cup {x}
  BY <1>5, <1>6 DEF IInv, Cropless, Saved
<1>8. StepsWithin(h)
  <2>1. LocksOf(h) /\ Shape(task'[h]) /\ AtWork(task[h])'
    BY <1>2, <1>4, NobodyElse
       DEF LocksOf, Shape, Bare, Inside, Changing, Refreshing, Starting, AtWork, UnderBuild
  <2> QED BY <1>1, <1>2, <1>3, <2>1 DEF StepsWithin, Bare
<1>9. FilesFit(h)
  <2>a. \A r \in Saved : r \in halved \/ There(r)
    BY <1>1, <1>3, KeptHere DEF At
  <2>1. \A r \in Saved' : r \in halved' \/ There(r)'
    <3> SUFFICES ASSUME NEW r \in Saved', r \notin halved' PROVE There(r)'
      OBVIOUS
    <3>1. r \in Refs
      BY DEF Saved
    <3> QED BY <3>1, <1>1, <1>5, <1>6, <1>7, <2>a DEF There
  <2>2. InHand(h) = {<<x, 0>>}
    BY <1>1, <1>5 DEF InHand, At
  <2>3. \A f \in Files(Saved) : f \in Files(Saved)'
    BY <1>5, <1>6, <1>7, FilesSaved DEF Saved
  <2>4. <<x, 0>> \in Files(Saved)'
    BY <1>7, FilesSaved
  <2> QED BY <1>1, <2>1, <2>2, <2>3, <2>4 DEF FilesFit
<1>10. Numbered' /\ Cropless'
  <2>1. task'[h].build = 0 /\ \A r \in Refs : refs'[r].crop = refs[r].crop
    BY <1>2, <1>6 DEF Bare
  <2> QED BY <1>6, <1>8, <2>1, NumberedWithin DEF IInv, Cropless
<1>11. ProfileFits
  BY <1>1, ProfileFitsOpened
<1>12. FilesTyped'
  BY <1>1 DEF IInv, TypeOK, FilesTyped
<1> HIDE DEF x
<1> QED BY <1>6, <1>8, <1>9, <1>10, <1>11, <1>12, Within

\* What is discarded is gone, or known to be left.
LEMMA Discarded ==
    ASSUME NEW F, Discard(F)
    PROVE  /\ disk' \subseteq disk /\ disk \ F \subseteq disk' /\ disk' \cap F \subseteq leftover'
           /\ leftover \subseteq leftover' /\ leftover' \subseteq leftover \cup disk
BY DEF Discard

\* The photograph could not be stored: its file goes.
LEMMA AddFailsStep == ASSUME IInv, NEW h \in Handlers, AddFails(h) PROVE IInv'
<1> DEFINE x == task[h].ref
<1>1. /\ \/ task[h].pc = "locked" /\ task[h].op \in {"upload", "capture"} /\ x \notin Saved
         \/ task[h].pc = "staged"
      /\ disk' \subseteq disk /\ disk \ {<<x, 0>>} \subseteq disk'
      /\ task[h].pc = "staged" => disk' \cap {<<x, 0>>} \subseteq leftover'
      /\ leftover \subseteq leftover' /\ leftover' \subseteq leftover \cup disk
      /\ UNCHANGED <<item, refs, profile, experimental, engine, candidate, started,
                     misled, model, requests, crashes, torn, made, removed, halved>>
  BY Discarded DEF AddFails, Adding, At, rows, vision, faults
<1>2. /\ task' \in [Handlers -> Tasks] /\ OthersSame(h)
      /\ task'[h].pc \in {"items", "idle"} /\ Bare(h)
      /\ service' \in {service, Nobody} /\ (service = h => service' = Nobody)
      /\ runtime' = IF runtime = h THEN Nobody ELSE runtime
  BY Refreshed, GaveUp DEF IInv, AddFails
<1>3. Inside(task[h])
  BY <1>1 DEF Inside, Changing
<1>4. /\ service = h /\ Shape(task[h]) /\ AtWork(task[h])
  BY <1>3, InsideFacts
<1>5. x \in Refs /\ task[h].mine = {} /\ x \notin Saved
  BY <1>1, <1>4 DEF Shape, AtWork, OfOne
<1>6. /\ Saved' = Saved /\ Vectors' = Vectors /\ \A f : f \in Files(Saved)' <=> f \in Files(Saved)
  BY <1>1, RowsSame
<1>7. StepsWithin(h)
  <2>1. LocksOf(h) /\ Shape(task'[h]) /\ AtWork(task[h])'
    BY <1>2, <1>4, NobodyElse
       DEF LocksOf, Shape, Bare, Inside, Changing, Refreshing, Starting, AtWork, UnderBuild
  <2> QED BY <1>1, <1>2, <1>3, <2>1 DEF StepsWithin, Bare
<1>8. FilesFit(h)
  <2>1. \A r \in Saved' : r \in halved' \/ There(r)'
    BY <1>1, <1>3, <1>5, <1>6, KeptHere DEF At, There
  <2>2. InHand(h) \subseteq {<<x, 0>>} /\ (task[h].pc # "staged" => InHand(h) = {})
    BY <1>5 DEF InHand, At
  <2> QED BY <1>1, <1>6, <2>1, <2>2 DEF FilesFit
<1>9. Numbered' /\ Cropless'
  <2>1. task'[h].build = 0
    BY <1>2 DEF Bare
  <2> QED BY <1>1, <1>7, <2>1, NumberedWithin DEF IInv, Cropless
<1>10. ProfileFits
  BY <1>1, <1>2, <1>6, ProfileFitsSame
<1>11. refs' \in [Refs -> References] /\ FilesTyped'
  BY <1>1 DEF IInv, TypeOK, FilesTyped
<1> HIDE DEF x
<1> QED BY <1>7, <1>8, <1>9, <1>10, <1>11, Within

\* A region is confirmed: the files of the photograph stay.
LEMMA ConfirmStep == ASSUME IInv, NEW h \in Handlers, Confirm(h) PROVE IInv'
<1> DEFINE x == task[h].ref
<1>1. /\ task[h].pc = "locked" /\ x \in Saved
      /\ refs' = [refs EXCEPT ![x].status = "confirmed", ![x].region = @ + 1]
      /\ profile' = Invalidated(profile)
      /\ UNCHANGED <<item, experimental, disk, engine, candidate, started,
                     misled, model, requests, crashes, torn, made, removed, halved, leftover>>
  BY DEF Confirm, At, vision, faults, ghosts
<1>2. /\ task' \in [Handlers -> Tasks] /\ OthersSame(h)
      /\ task'[h].pc = "items" /\ Bare(h)
      /\ service' = Nobody /\ runtime' = IF runtime = h THEN Nobody ELSE runtime
  BY Refreshed DEF IInv, Confirm
<1>3. Inside(task[h])
  BY <1>1 DEF Inside, Changing
<1>4. /\ service = h /\ Shape(task[h]) /\ \A r \in Refs : refs[r] \in References
  BY <1>3, InsideFacts
<1>5. x \in Refs /\ task[h].mine = {}
  BY <1>1, <1>4 DEF Shape, Saved
<1>6. /\ refs' \in [Refs -> References] /\ refs'[x].status = "confirmed" /\ refs'[x].crop = refs[x].crop
      /\ \A r \in Refs : r # x => refs'[r] = refs[r]
  <2>1. refs[x].region + 1 \in Nat
    BY <1>4, <1>5 DEF References
  <2> QED BY <1>1, <1>4, <1>5, <2>1 DEF IInv, TypeOK, References
<1>7. Saved' = Saved
  BY <1>1, <1>6 DEF Saved
<1>8. StepsWithin(h)
  <2>1. LocksOf(h) /\ Shape(task'[h]) /\ AtWork(task[h])'
    BY <1>2, <1>4, NobodyElse
       DEF LocksOf, Shape, Bare, Inside, Changing, Refreshing, Starting, AtWork, UnderBuild
  <2> QED BY <1>1, <1>2, <1>3, <2>1 DEF StepsWithin, Bare
<1>9. FilesFit(h)
  <2>a. \A r \in Saved : r \in halved \/ There(r)
    BY <1>1, <1>3, KeptHere DEF At
  <2>1. \A r \in Saved' : r \in halved' \/ There(r)'
    <3> SUFFICES ASSUME NEW r \in Saved', r \notin halved' PROVE There(r)'
      OBVIOUS
    <3>1. r \in Refs
      BY DEF Saved
    <3> QED BY <3>1, <1>1, <1>6, <1>7, <2>a DEF There
  <2>2. InHand(h) = {}
    BY <1>1, <1>5 DEF InHand, At
  <2>3. \A f \in Files(Saved) : f \in Files(Saved)'
    BY <1>6, <1>7, FilesSaved DEF Saved
  <2> QED BY <1>1, <2>1, <2>2, <2>3 DEF FilesFit
<1>10. Numbered' /\ Cropless'
  <2>1. task'[h].build = 0 /\ \A r \in Refs : refs'[r].crop = refs[r].crop
    BY <1>2, <1>6 DEF Bare
  <2> QED BY <1>6, <1>8, <2>1, NumberedWithin DEF IInv, Cropless
<1>11. ProfileFits
  BY <1>1, ProfileFitsOpened
<1>12. FilesTyped'
  BY <1>1 DEF IInv, TypeOK, FilesTyped
<1> HIDE DEF x
<1> QED BY <1>6, <1>8, <1>9, <1>10, <1>11, <1>12, Within

\* A photograph is deleted: first its files.
LEMMA UnlinkTask ==
    ASSUME IInv, NEW h \in Handlers, NEW r \in Refs, Unlink(h, r)
    PROVE  /\ task' \in [Handlers -> Tasks] /\ OthersSame(h)
           /\ task'[h].pc = "unlinked" /\ task'[h].ref = r /\ task'[h].items = task[h].items
           /\ task'[h].op = task[h].op /\ task'[h].build = task[h].build /\ task'[h].mine = task[h].mine
<1> DEFINE t == [task[h] EXCEPT !.pc = "unlinked", !.ref = r]
<1>1. task' = [task EXCEPT ![h] = t] /\ task \in [Handlers -> Tasks]
  BY DEF Unlink, IInv, TypeOK
<1>2. /\ t \in Tasks /\ t.pc = "unlinked" /\ t.ref = r /\ t.items = task[h].items
      /\ t.op = task[h].op /\ t.build = task[h].build /\ t.mine = task[h].mine
  BY <1>1, ZenonT(60) DEF Tasks
<1> HIDE DEF t
<1> QED BY <1>1, <1>2 DEF OthersSame
LEMMA UnlinkStep == ASSUME IInv, NEW h \in Handlers, NEW x \in Refs, Unlink(h, x) PROVE IInv'
<1>1. /\ task[h].pc = "locked" /\ x \in Saved /\ disk' = disk \ Files({x})
      /\ UNCHANGED <<item, refs, profile, experimental, service, runtime, engine, candidate, started,
                     misled, model, requests, crashes, torn, made, removed, halved, leftover>>
  BY DEF Unlink, Deletes, At, rows, locks, vision, faults, ghosts
<1>2. /\ task' \in [Handlers -> Tasks] /\ OthersSame(h)
      /\ task'[h].pc = "unlinked" /\ task'[h].ref = x /\ task'[h].items = task[h].items
      /\ task'[h].op = task[h].op /\ task'[h].build = task[h].build /\ task'[h].mine = task[h].mine
  BY UnlinkTask
<1>3. Inside(task[h])
  BY <1>1 DEF Inside, Changing
<1>4. service = h /\ Shape(task[h])
  BY <1>3, InsideFacts
<1>5. task[h].mine = {}
  BY <1>1, <1>4 DEF Shape
<1>6. /\ Saved' = Saved /\ Vectors' = Vectors /\ \A f : f \in Files(Saved)' <=> f \in Files(Saved)
      /\ Files({x})' = Files({x})
  BY <1>1, RowsSame
<1>7. StepsWithin(h)
  <2>1. LocksOf(h) /\ Shape(task'[h])
    BY <1>1, <1>2, <1>4, <1>5 DEF LocksOf, Shape, Inside, Changing, Refreshing, Starting
  <2>2. Files({task[h].ref})' = Files({x})
    BY <1>1, <1>2 DEF Files, Cuts
  <2>3. AtWork(task[h])'
    BY <1>1, <1>2, <1>6, <2>2 DEF AtWork, UnderBuild, Refreshing
  <2> QED BY <1>1, <1>2, <1>3, <2>1, <2>3 DEF StepsWithin
<1>8. FilesFit(h)
  <2>1. ASSUME NEW r \in Saved', r \notin halved' PROVE Unlinking(r)' \/ There(r)'
    <3>1. CASE r = x
      BY <1>2, <3>1 DEF Unlinking, At
    <3>2. CASE r # x
      <4>1. There(r) /\ r \in Refs
        BY <1>1, <1>3, <1>6, <2>1, KeptHere DEF At, Saved
      <4>2. <<r, 0>> \notin Files({x}) /\ <<r, refs[r].crop>> \notin Files({x})
        BY <3>2, <4>1, FilesOf
      <4> QED BY <1>1, <4>1, <4>2 DEF There
    <3> QED BY <3>1, <3>2
  <2>2. InHand(h) = {}
    BY <1>1, <1>5 DEF InHand, At
  <2> QED BY <1>1, <1>6, <2>1, <2>2 DEF FilesFit
<1>9. Numbered' /\ Cropless'
  BY <1>1, <1>2, <1>7, NumberedWithin DEF IInv, Cropless
<1>10. ProfileFits
  BY <1>1, <1>2, <1>6, ProfileFitsSame
<1>11. refs' \in [Refs -> References] /\ FilesTyped'
  BY <1>1 DEF IInv, TypeOK, FilesTyped
<1> QED BY <1>7, <1>8, <1>9, <1>10, <1>11, Within

\* Or the deletion ends among its files: the row stays, without some of them.
LEMMA UnlinkFailsStep == ASSUME IInv, NEW h \in Handlers, NEW x \in Refs, UnlinkFails(h, x) PROVE IInv'
<1>1. /\ task[h].pc = "locked" /\ x \in Saved /\ disk' \subseteq disk /\ disk \ Files({x}) \subseteq disk'
      /\ halved' = IF disk' = disk THEN halved ELSE halved \cup {x}
      /\ UNCHANGED <<item, refs, profile, experimental, engine, candidate, started,
                     misled, model, requests, crashes, torn, made, removed, leftover>>
  BY DEF UnlinkFails, Deletes, At, rows, vision, faults
<1>2. /\ task' \in [Handlers -> Tasks] /\ OthersSame(h)
      /\ task'[h].pc = "idle" /\ Bare(h)
      /\ service' = IF service = h THEN Nobody ELSE service
      /\ runtime' = IF runtime = h THEN Nobody ELSE runtime
  BY GaveUp DEF IInv, UnlinkFails
<1>3. Inside(task[h])
  BY <1>1 DEF Inside, Changing
<1>4. service = h /\ Shape(task[h])
  BY <1>3, InsideFacts
<1>5. task[h].mine = {}
  BY <1>1, <1>4 DEF Shape
<1>6. /\ Saved' = Saved /\ Vectors' = Vectors /\ \A f : f \in Files(Saved)' <=> f \in Files(Saved)
  BY <1>1, RowsSame
<1>7. StepsWithin(h)
  <2>1. LocksOf(h) /\ Shape(task'[h]) /\ AtWork(task[h])'
    BY <1>2, <1>4, NobodyElse
       DEF LocksOf, Shape, Bare, Inside, Changing, Refreshing, Starting, AtWork, UnderBuild
  <2> QED BY <1>1, <1>2, <1>3, <1>4, <2>1 DEF StepsWithin, Bare
<1>8. FilesFit(h)
  <2>1. ASSUME NEW r \in Saved', r \notin halved' PROVE There(r)'
    <3>1. There(r) /\ r \in Refs
      BY <1>1, <1>3, <1>6, <2>1, KeptHere DEF At, Saved
    <3>2. CASE disk' = disk
      BY <1>1, <3>1, <3>2 DEF There
    <3>3. CASE r # x
      <4>1. <<r, 0>> \notin Files({x}) /\ <<r, refs[r].crop>> \notin Files({x})
        BY <3>3, <3>1, FilesOf
      <4> QED BY <1>1, <3>1, <4>1 DEF There
    <3> QED BY <1>1, <2>1, <3>2, <3>3
  <2>2. InHand(h) = {}
    BY <1>1, <1>5 DEF InHand, At
  <2> QED BY <1>1, <1>6, <2>1, <2>2 DEF FilesFit
<1>9. Numbered' /\ Cropless'
  <2>1. task'[h].build = 0
    BY <1>2 DEF Bare
  <2> QED BY <1>1, <1>7, <2>1, NumberedWithin DEF IInv, Cropless
<1>10. ProfileFits
  BY <1>1, <1>2, <1>6, ProfileFitsSame
<1>11. refs' \in [Refs -> References] /\ FilesTyped'
  BY <1>1 DEF IInv, TypeOK, FilesTyped
<1> QED BY <1>7, <1>8, <1>9, <1>10, <1>11, Within

\* Then its row; until the profile follows, that may hold a vector of it.
LEMMA DropRowStep == ASSUME IInv, NEW h \in Handlers, DropRow(h) PROVE IInv'
<1> DEFINE x == task[h].ref
           y == [NoReference EXCEPT !.region = refs[x].region]
<1>1. /\ task[h].pc = "unlinked" /\ refs' = [refs EXCEPT ![x] = y] /\ halved' = halved \ {x}
      /\ UNCHANGED <<item, profile, experimental, disk, service, runtime, engine, candidate, started,
                     misled, model, requests, crashes, torn, made, removed, leftover>>
  BY DEF DropRow, At, locks, vision, faults
<1>2. /\ task' \in [Handlers -> Tasks] /\ OthersSame(h)
      /\ task'[h].pc = "dropped" /\ Carries(h)
  BY Moved DEF IInv, DropRow, Pcs
<1>3. Inside(task[h])
  BY <1>1 DEF Inside, Changing
<1>4. /\ service = h /\ Shape(task[h]) /\ AtWork(task[h]) /\ \A r \in Refs : refs[r] \in References
  BY <1>3, InsideFacts
<1>5. x \in Refs /\ task[h].mine = {} /\ x \in Saved /\ Files({x}) \cap disk = {}
  BY <1>1, <1>4 DEF Shape, AtWork
<1>6. /\ refs' \in [Refs -> References] /\ refs'[x].status = "absent" /\ refs'[x].crop = 0
      /\ \A r \in Refs : r # x => refs'[r] = refs[r]
  <2>1. y \in References /\ y.status = "absent" /\ y.crop = 0
    BY <1>4, <1>5 DEF References, NoReference
  <2> HIDE DEF y
  <2> QED BY <1>1, <1>5, <2>1 DEF IInv, TypeOK
<1>7. Saved' = Saved \ {x}
  BY <1>5, <1>6 DEF Saved
<1>8. StepsWithin(h)
  <2>1. LocksOf(h) /\ Shape(task'[h])
    BY <1>1, <1>2, <1>4, <1>5 DEF LocksOf, Shape, Carries, Inside, Changing, Refreshing, Starting
  <2>2. AtWork(task[h])'
    BY <1>2 DEF AtWork, Carries, UnderBuild, Refreshing
  <2> QED BY <1>1, <1>2, <1>3, <2>1, <2>2 DEF StepsWithin, Carries
<1>9. FilesFit(h)
  <2>1. ASSUME NEW r \in Saved', r \notin halved' PROVE There(r)'
    <3>1. r \in Saved /\ r # x /\ r \in Refs /\ r \notin halved
      BY <1>1, <1>7, <2>1 DEF Saved
    <3>2. There(r)
      BY <1>3, <2>1, <3>1, KeptHere
    <3> QED BY <1>1, <1>6, <3>1, <3>2 DEF There
  <2>2. InHand(h) = {}
    BY <1>1, <1>5 DEF InHand, At
  <2>3. ASSUME NEW f \in disk, f \in Files(Saved) PROVE f \in Files(Saved)'
    <3>1. PICK r \in Saved : f = <<r, 0>> \/ f = <<r, refs[r].crop>>
      BY <2>3, FilesSaved
    <3>2. r # x
      <4>1. \A g : g \in Files({x}) <=> g = <<x, 0>> \/ g = <<x, refs[x].crop>>
        BY <1>5, FilesOf
      <4> QED BY <1>5, <2>3, <3>1, <4>1
    <3>3. r \in Refs /\ r \in Saved'
      BY <1>7, <3>2 DEF Saved
    <3> QED BY <1>6, <3>1, <3>2, <3>3, FilesSaved
  <2> QED BY <1>1, <2>1, <2>2, <2>3 DEF FilesFit
<1>10. Numbered' /\ Cropless'
  <2>1. task'[h].build = task[h].build /\ \A r \in Refs : refs'[r].crop \in {0, refs[r].crop}
    BY <1>2, <1>6 DEF Carries
  <2>2. BuildOf(h)
    BY <1>1, <2>1 DEF BuildOf
  <2> QED BY <1>2, <1>6, <2>1, <2>2, NumberedOn DEF IInv, Cropless
<1>11. ProfileFits
  <2>1. ~Dropping /\ Dropping'
    BY <1>1, <1>2, <1>3, InsideFacts DEF Dropping, At
  <2> QED BY <1>1, <2>1 DEF IInv, ProfileFits, TypeOK, Current, Making, Recorded, Ordered, Ready, Renumbered,
          VersionNamesVectors
<1>12. FilesTyped'
  BY <1>1 DEF IInv, TypeOK, FilesTyped
<1> HIDE DEF x, y
<1> QED BY <1>6, <1>8, <1>9, <1>10, <1>11, <1>12, Within

\* Or the deletion ends at the row, which stays, or at the profile, which is torn then.
LEMMA DropFailsStep == ASSUME IInv, NEW h \in Handlers, DropFails(h) PROVE IInv'
<1> DEFINE x == task[h].ref
<1>1. /\ task[h].pc \in {"unlinked", "dropped"}
      /\ halved' = IF task[h].pc = "unlinked" THEN halved \cup {x} ELSE halved
      /\ torn' = (torn \/ task[h].pc = "dropped")
      /\ UNCHANGED <<item, refs, profile, experimental, disk, engine, candidate, started,
                     misled, model, requests, crashes, made, removed, leftover>>
  BY DEF DropFails, At, rows, vision
<1>2. /\ task' \in [Handlers -> Tasks] /\ OthersSame(h)
      /\ task'[h].pc = "idle" /\ Bare(h)
      /\ service' = IF service = h THEN Nobody ELSE service
      /\ runtime' = IF runtime = h THEN Nobody ELSE runtime
  BY GaveUp DEF IInv, DropFails
<1>3. Inside(task[h])
  BY <1>1 DEF Inside, Changing
<1>4. service = h /\ Shape(task[h]) /\ torn \in BOOLEAN
  BY <1>3, InsideFacts DEF IInv, TypeOK
<1>5. task[h].mine = {} /\ x \in Refs
  BY <1>1, <1>4 DEF Shape
<1>6. /\ Saved' = Saved /\ Vectors' = Vectors /\ \A f : f \in Files(Saved)' <=> f \in Files(Saved)
  BY <1>1, RowsSame
<1>7. StepsWithin(h)
  <2>1. LocksOf(h) /\ Shape(task'[h]) /\ AtWork(task[h])'
    BY <1>2, <1>4, NobodyElse
       DEF LocksOf, Shape, Bare, Inside, Changing, Refreshing, Starting, AtWork, UnderBuild
  <2>2. torn' \in {torn, TRUE}
    BY <1>1, <1>4
  <2> QED BY <1>1, <1>2, <1>3, <1>4, <2>1, <2>2 DEF StepsWithin, Bare
<1>8. FilesFit(h)
  <2>1. ASSUME NEW r \in Saved', r \notin halved' PROVE There(r)'
    <3>1. There(r)
      BY <1>1, <1>3, <1>6, <2>1, KeptHere DEF At
    <3> QED BY <1>1, <3>1 DEF There
  <2>2. InHand(h) = {}
    BY <1>1, <1>5 DEF InHand, At
  <2> QED BY <1>1, <1>6, <2>1, <2>2 DEF FilesFit
<1>9. Numbered' /\ Cropless'
  <2>1. task'[h].build = 0
    BY <1>2 DEF Bare
  <2> QED BY <1>1, <1>7, <2>1, NumberedWithin DEF IInv, Cropless
<1>10. ProfileFits
  <2>1. CASE task[h].pc = "unlinked"
    <3>1. torn' = torn
      BY <1>1, <1>4, <2>1
    <3> QED BY <1>1, <1>2, <1>6, <2>1, <3>1, ProfileFitsSame
  <2>2. CASE task[h].pc = "dropped"
    <3>1. torn'
      BY <1>1, <2>2
    <3> QED BY <1>1, <3>1 DEF IInv, ProfileFits, TypeOK, Current, Making, Recorded, Ordered, Ready, Renumbered,
            VersionNamesVectors
  <2> QED BY <1>1, <2>1, <2>2
<1>11. refs' \in [Refs -> References] /\ FilesTyped'
  BY <1>1, <1>5 DEF IInv, TypeOK, FilesTyped
<1> HIDE DEF x
<1> QED BY <1>7, <1>8, <1>9, <1>10, <1>11, Within

\* Then the profile.
LEMMA DropProfileStep == ASSUME IInv, NEW h \in Handlers, DropProfile(h) PROVE IInv'
<1>1. /\ task[h].pc = "dropped" /\ profile' = Invalidated(profile)
      /\ UNCHANGED <<item, refs, experimental, disk, engine, candidate, started,
                     misled, model, requests, crashes, torn, made, removed, halved, leftover>>
  BY DEF DropProfile, At, vision, faults, ghosts
<1>2. /\ task' \in [Handlers -> Tasks] /\ OthersSame(h)
      /\ \/ /\ task'[h].pc = "items" /\ Bare(h)
            /\ service' = Nobody /\ runtime' = IF runtime = h THEN Nobody ELSE runtime
         \/ /\ task[h].op = "remove" /\ task'[h].pc = "locked" /\ Carries(h) /\ UNCHANGED <<service, runtime>>
  BY Refreshed, Moved DEF IInv, DropProfile, Pcs, locks
<1>3. Inside(task[h])
  BY <1>1 DEF Inside, Changing
<1>4. service = h /\ Shape(task[h])
  BY <1>3, InsideFacts
<1>5. task[h].mine = {}
  BY <1>1, <1>4 DEF Shape
<1>6. /\ Saved' = Saved /\ \A f : f \in Files(Saved)' <=> f \in Files(Saved)
  BY <1>1, RowsSame
<1>7. StepsWithin(h)
  <2>1. LocksOf(h) /\ Shape(task'[h]) /\ AtWork(task[h])'
    BY <1>1, <1>2, <1>4, NobodyElse
       DEF LocksOf, Shape, Bare, Carries, Inside, Changing, Refreshing, Starting, AtWork, UnderBuild, OfOne
  <2> QED BY <1>1, <1>2, <1>3, <2>1 DEF StepsWithin, Bare, Carries
<1>8. FilesFit(h)
  <2>1. \A r \in Saved' : r \in halved' \/ There(r)'
    BY <1>1, <1>3, <1>6, KeptHere DEF At, There
  <2>2. InHand(h) = {}
    BY <1>1, <1>5 DEF InHand, At
  <2> QED BY <1>1, <1>6, <2>1, <2>2 DEF FilesFit
<1>9. Numbered' /\ Cropless'
  <2>1. task'[h].build \in {0, task[h].build}
    BY <1>2 DEF Bare, Carries
  <2> QED BY <1>1, <1>7, <2>1, NumberedWithin DEF IInv, Cropless
<1>10. ProfileFits
  BY <1>1, ProfileFitsOpened
<1>11. refs' \in [Refs -> References] /\ FilesTyped'
  BY <1>1 DEF IInv, TypeOK, FilesTyped
<1> QED BY <1>7, <1>8, <1>9, <1>10, <1>11, Within

\* The profile of an item without photographs is removed, and the lock given up.
LEMMA RemoveProfileStep == ASSUME IInv, NEW h \in Handlers, RemoveProfile(h) PROVE IInv'
<1>1. /\ task[h].pc = "locked" /\ task[h].op = "remove" /\ profile' = Nobody /\ removed' = TRUE
      /\ service' = Nobody
      /\ UNCHANGED <<item, refs, experimental, disk, runtime, engine, candidate, started,
                     misled, model, requests, crashes, torn, made, halved, leftover>>
  BY DEF RemoveProfile, At, vision, faults
<1>2. /\ task' \in [Handlers -> Tasks] /\ OthersSame(h)
      /\ task'[h].pc = "remove_item" /\ Carries(h)
  BY Moved DEF IInv, RemoveProfile, Pcs
<1>3. Inside(task[h])
  BY <1>1 DEF Inside, Changing
<1>4. service = h /\ Shape(task[h])
  BY <1>3, InsideFacts
<1>5. task[h].mine = {}
  BY <1>1, <1>4 DEF Shape
<1>6. /\ Saved' = Saved /\ \A f : f \in Files(Saved)' <=> f \in Files(Saved)
  BY <1>1, RowsSame
<1>7. StepsWithin(h)
  <2>1. LocksOf(h) /\ Shape(task'[h]) /\ AtWork(task[h])'
    BY <1>1, <1>2, <1>4, <1>5, NobodyElse
       DEF LocksOf, Shape, Carries, Inside, Changing, Refreshing, Starting, AtWork, UnderBuild
  <2> QED BY <1>1, <1>2, <1>3, <2>1 DEF StepsWithin, Carries
<1>8. FilesFit(h)
  <2>1. \A r \in Saved' : r \in halved' \/ There(r)'
    BY <1>1, <1>3, <1>6, KeptHere DEF At, There
  <2>2. InHand(h) = {}
    BY <1>1, <1>5 DEF InHand, At
  <2> QED BY <1>1, <1>6, <2>1, <2>2 DEF FilesFit
<1>9. Numbered' /\ Cropless'
  <2>1. task'[h].build = task[h].build
    BY <1>2 DEF Carries
  <2> QED BY <1>1, <1>7, <2>1, NumberedWithin DEF IInv, Cropless
<1>10. ProfileFits
  BY <1>1 DEF ProfileFits, IInv, TypeOK, Items, Current, Making, Recorded, Ordered, Ready, VersionNamesVectors,
     Renumbered
<1>11. refs' \in [Refs -> References] /\ FilesTyped'
  BY <1>1 DEF IInv, TypeOK, FilesTyped
<1> QED BY <1>7, <1>8, <1>9, <1>10, <1>11, Within

\* A build is over: the crops it replaced go, which no row names any more.
LEMMA RetireStep == ASSUME IInv, NEW h \in Handlers, Retire(h) PROVE IInv'
<1>1. /\ task[h].pc = "retire"
      /\ disk' \subseteq disk /\ disk \ task[h].mine \subseteq disk' /\ disk' \cap task[h].mine \subseteq leftover'
      /\ leftover \subseteq leftover' /\ leftover' \subseteq leftover \cup disk
      /\ UNCHANGED <<item, refs, profile, experimental, engine, candidate, started,
                     misled, model, requests, crashes, torn, made, removed, halved>>
  BY Discarded DEF Retire, At, rows, vision, faults
<1>2. /\ task' \in [Handlers -> Tasks] /\ OthersSame(h)
      /\ task'[h].pc = "items" /\ Bare(h)
      /\ service' = Nobody /\ runtime' = IF runtime = h THEN Nobody ELSE runtime
  BY Refreshed DEF IInv, Retire
<1>3. Inside(task[h])
  BY <1>1 DEF Inside, Changing
<1>4. /\ service = h /\ Shape(task[h]) /\ AtWork(task[h])
  BY <1>3, InsideFacts
<1>5. task[h].mine \cap Files(Saved) = {}
  BY <1>1, <1>4 DEF AtWork
<1>6. /\ Saved' = Saved /\ Vectors' = Vectors /\ \A f : f \in Files(Saved)' <=> f \in Files(Saved)
  BY <1>1, RowsSame
<1>7. StepsWithin(h)
  <2>1. LocksOf(h) /\ Shape(task'[h]) /\ AtWork(task[h])'
    BY <1>2, <1>4, NobodyElse
       DEF LocksOf, Shape, Bare, Inside, Changing, Refreshing, Starting, AtWork, UnderBuild
  <2> QED BY <1>1, <1>2, <1>3, <2>1 DEF StepsWithin, Bare
<1>8. FilesFit(h)
  <2>1. ASSUME NEW r \in Saved, r \notin halved' PROVE There(r)'
    <3>1. There(r)
      BY <1>1, <1>3, <2>1, KeptHere DEF At
    <3>2. <<r, 0>> \in Files(Saved) /\ <<r, refs[r].crop>> \in Files(Saved)
      BY FilesSaved
    <3> QED BY <1>1, <1>5, <3>1, <3>2 DEF There
  <2>2. InHand(h) = task[h].mine
    BY <1>1 DEF InHand, At
  <2> QED BY <1>1, <1>6, <2>1, <2>2 DEF FilesFit
<1>9. Numbered' /\ Cropless'
  <2>1. task'[h].build = 0
    BY <1>2 DEF Bare
  <2> QED BY <1>1, <1>7, <2>1, NumberedWithin DEF IInv, Cropless
<1>10. ProfileFits
  BY <1>1, <1>2, <1>6, ProfileFitsSame
<1>11. refs' \in [Refs -> References] /\ FilesTyped'
  BY <1>1 DEF IInv, TypeOK, FilesTyped
<1> QED BY <1>7, <1>8, <1>9, <1>10, <1>11, Within

\* A build fails: its own crops go, which no row names yet.
LEMMA BuildFailsStep == ASSUME IInv, NEW h \in Handlers, BuildFails(h) PROVE IInv'
<1>1. /\ task[h].pc \in {"encode", "check", "commit"} 
      /\ disk' \subseteq disk /\ disk \ task[h].mine \subseteq disk' /\ disk' \cap task[h].mine \subseteq leftover'
      /\ leftover \subseteq leftover' /\ leftover' \subseteq leftover \cup disk
      /\ profile' = [profile EXCEPT !.status = "failed", !.vectors = {}]
      /\ UNCHANGED <<item, refs, experimental, engine, candidate, started,
                     misled, model, requests, crashes, torn, made, removed, halved>>
  BY Discarded DEF BuildFails, At, vision, faults
<1>2. /\ task' \in [Handlers -> Tasks] /\ OthersSame(h)
      /\ task'[h].pc = "items" /\ Bare(h)
      /\ service' = Nobody /\ runtime' = IF runtime = h THEN Nobody ELSE runtime
  BY Refreshed DEF IInv, BuildFails
<1>3. Inside(task[h])
  BY <1>1 DEF Inside, Changing
<1>4. /\ service = h /\ Shape(task[h]) /\ AtWork(task[h]) /\ ~Dropping
      /\ \A r \in Refs : task[h].build # 0 => refs[r].crop # task[h].build
  BY <1>1, <1>3, InsideFacts
<1>5. /\ task[h].build # 0
      /\ \A f \in task[h].mine : \E r \in Refs : f = <<r, task[h].build>>
      /\ profile # Nobody
  BY <1>1, <1>4 DEF Shape, AtWork, UnderBuild, Confirmed
<1>6. /\ Saved' = Saved /\ Vectors' = Vectors /\ \A f : f \in Files(Saved)' <=> f \in Files(Saved)
  BY <1>1, RowsSame
<1>7. StepsWithin(h)
  <2>1. LocksOf(h) /\ Shape(task'[h]) /\ AtWork(task[h])'
    BY <1>2, <1>4, NobodyElse
       DEF LocksOf, Shape, Bare, Inside, Changing, Refreshing, Starting, AtWork, UnderBuild
  <2> QED BY <1>1, <1>2, <1>3, <2>1 DEF StepsWithin, Bare
<1>8. FilesFit(h)
  <2>1. ASSUME NEW r \in Saved, r \notin halved' PROVE There(r)'
    <3>1. There(r) /\ r \in Refs
      BY <1>1, <1>3, <2>1, KeptHere DEF At, Saved
    <3>2. <<r, 0>> \notin task[h].mine /\ <<r, refs[r].crop>> \notin task[h].mine
      BY <1>4, <1>5, <3>1
    <3> QED BY <1>1, <3>1, <3>2 DEF There
  <2>2. InHand(h) = task[h].mine
    BY <1>1 DEF InHand, At
  <2> QED BY <1>1, <1>6, <2>1, <2>2 DEF FilesFit
<1>9. Numbered' /\ Cropless'
  <2>1. task'[h].build = 0
    BY <1>2 DEF Bare
  <2> QED BY <1>1, <1>7, <2>1, NumberedWithin DEF IInv, Cropless
<1>10. ProfileFits
  <2>1. profile \in Profiles
    BY <1>5 DEF IInv, TypeOK, Items
  <2>2. /\ profile' \in Profiles /\ profile'.status = "failed"
        /\ profile'.version = profile.version /\ profile'.model = profile.model
    BY <1>1, <2>1 DEF Profiles, Statuses
  <2> QED BY <1>1, <1>4, <1>6, <2>2, ProfileFitsUnready
<1>11. refs' \in [Refs -> References] /\ FilesTyped'
  BY <1>1 DEF IInv, TypeOK, FilesTyped
<1> QED BY <1>7, <1>8, <1>9, <1>10, <1>11, Within

\* A build goes on with files in hand.
LEMMA PlacedTask ==
    ASSUME TypeOK, NEW h \in Handlers, NEW pc \in Pcs, NEW mine \in SUBSET (Refs \X Nat),
           task' = [task EXCEPT ![h] = [@ EXCEPT !.pc = pc, !.mine = mine]]
    PROVE  /\ task' \in [Handlers -> Tasks] /\ OthersSame(h)
           /\ task'[h].pc = pc /\ task'[h].mine = mine /\ task'[h].items = task[h].items
           /\ task'[h].op = task[h].op /\ task'[h].ref = task[h].ref /\ task'[h].build = task[h].build
<1> DEFINE t == [task[h] EXCEPT !.pc = pc, !.mine = mine]
<1>1. task' = [task EXCEPT ![h] = t] /\ task \in [Handlers -> Tasks]
  BY DEF TypeOK
<1>2. /\ t \in Tasks /\ t.pc = pc /\ t.mine = mine /\ t.items = task[h].items
      /\ t.op = task[h].op /\ t.ref = task[h].ref /\ t.build = task[h].build
  BY <1>1, ZenonT(60) DEF Tasks, Pcs
<1> HIDE DEF t
<1> QED BY <1>1, <1>2 DEF OthersSame
\* A build begins: it keeps the lock for the refresh, and after it.
LEMMA BuildBeginsStep == ASSUME IInv, NEW h \in Handlers, BuildBegins(h) PROVE IInv'
<1> DEFINE p == IF profile = Nobody THEN Invalidated(profile) ELSE profile
<1>1. /\ task[h].pc = "locked" /\ task[h].op = "build" /\ profile' = [p EXCEPT !.status = "building"]
      /\ UNCHANGED <<item, refs, experimental, disk, service, runtime, engine, candidate, started,
                     misled, model, requests, crashes, torn, made, removed, halved, leftover>>
  BY DEF BuildBegins, At, locks, vision, faults, ghosts
<1>2. /\ task' \in [Handlers -> Tasks] /\ OthersSame(h)
      /\ task'[h].pc = "items" /\ Carries(h)
  BY Moved DEF IInv, BuildBegins, Pcs, Move
<1>3. Inside(task[h])
  BY <1>1 DEF Inside, Changing
<1>4. service = h /\ Shape(task[h]) /\ ~Dropping
  BY <1>1, <1>3, InsideFacts
<1>5. task[h].mine = {} /\ task[h].build # 0
  BY <1>1, <1>4 DEF Shape
<1>6. /\ Saved' = Saved /\ Vectors' = Vectors /\ \A f : f \in Files(Saved)' <=> f \in Files(Saved)
  BY <1>1, RowsSame
<1>7. /\ profile' \in Profiles /\ profile'.status = "building" /\ profile' # Nobody
      /\ profile # Nobody => profile'.version = profile.version /\ profile'.model = profile.model
  <2>1. p \in Profiles /\ (profile # Nobody => p = profile)
    BY InvalidatedType DEF IInv, TypeOK, Items
  <2> HIDE DEF p
  <2> QED BY <1>1, <2>1, NobodyIsNoRecord DEF Profiles, Statuses
<1> HIDE DEF p
<1>8. StepsWithin(h)
  <2>1. LocksOf(h) /\ Shape(task'[h])
    BY <1>1, <1>2, <1>4, <1>5 DEF LocksOf, Shape, Carries, Inside, Changing, Refreshing, Starting
  <2>2. AtWork(task[h])'
    BY <1>2, <1>7 DEF AtWork
  <2> QED BY <1>1, <1>2, <1>3, <2>1, <2>2 DEF StepsWithin, Carries
<1>9. FilesFit(h)
  <2>1. \A r \in Saved' : r \in halved' \/ There(r)'
    BY <1>1, <1>3, <1>6, KeptHere DEF At, There
  <2>2. InHand(h) = {}
    BY <1>1, <1>5 DEF InHand, At
  <2> QED BY <1>1, <1>6, <2>1, <2>2 DEF FilesFit
<1>10. Numbered' /\ Cropless'
  <2>1. task'[h].build = task[h].build
    BY <1>2 DEF Carries
  <2> QED BY <1>1, <1>8, <2>1, NumberedWithin DEF IInv, Cropless
<1>11. ProfileFits
  BY <1>1, <1>4, <1>6, <1>7, ProfileFitsUnready
<1>12. refs' \in [Refs -> References] /\ FilesTyped'
  BY <1>1 DEF IInv, TypeOK, FilesTyped
<1> QED BY <1>8, <1>9, <1>10, <1>11, <1>12, Within

\* A new model opens the next version.
LEMMA BuildingFits ==
    ASSUME IInv, profile # Nobody, profile.status = "building", ~Dropping, Vectors' = Vectors,
           profile' = Building(profile), UNCHANGED <<made, torn, removed>>
    PROVE  /\ ProfileFits /\ profile' # Nobody /\ profile'.status = "building"
           /\ profile'.model \in {Nobody, model}
<1>1. profile \in Profiles /\ model \in Models /\ made \subseteq Profiles
  BY DEF IInv, TypeOK, Items
<1>2. CASE ~NewModel(profile)
  <2>1. profile' = profile
    BY <1>2 DEF Building
  <2>2. ProfileFits
    BY <1>1, <2>1, ProfileFitsUnready
  <2> QED BY <1>2, <2>1, <2>2 DEF NewModel
<1>3. CASE NewModel(profile)
  <2> DEFINE q == Invalidated(profile)
  <2>1. profile' = [q EXCEPT !.status = "building", !.model = model]
    BY <1>3 DEF Building
  <2>2. q \in Profiles /\ q.version = profile.version + 1
    BY <1>1, InvalidatedType DEF Items
  <2> HIDE DEF q
  <2>3. /\ profile' \in Profiles /\ profile'.status = "building" /\ profile'.model = model
        /\ profile'.version = profile.version + 1 /\ profile' # Nobody
    <3>1. /\ profile' \in Profiles /\ profile'.status = "building" /\ profile'.model = model
          /\ profile'.version = q.version
      BY <1>1, <2>1, <2>2 DEF Profiles, Statuses
    <3> QED BY <2>2, <3>1, NobodyIsNoRecord
  <2>4. Current' /\ Recorded'
    BY <2>3 DEF IInv, Current, Making, Recorded, Ready
  <2>5. Ordered'
    <3> SUFFICES ASSUME ~Renumbered, NEW p \in made PROVE p.version < profile'.version
      BY <1>1, <2>3 DEF Ordered, Renumbered, Profiles
    <3>1. p.version <= profile.version
      BY DEF IInv, Making, Ordered
    <3>2. p.version \in Nat /\ profile.version \in Nat
      BY <1>1 DEF Profiles
    <3> QED BY <2>3, <3>1, <3>2
  <2>6. VersionNamesVectors'
    BY DEF IInv, VersionNamesVectors, Renumbered
  <2> QED BY <1>1, <2>3, <2>4, <2>5, <2>6 DEF ProfileFits, Making, Items
<1> QED BY <1>2, <1>3
\* The new crops lie beside those of the rows.
LEMMA EncodeStep == ASSUME IInv, NEW h \in Handlers, Encode(h) PROVE IInv'
<1> DEFINE new == Confirmed \X {task[h].build}
<1>1. /\ task[h].pc = "encode" /\ profile' = Building(profile) /\ disk' = disk \cup new
      /\ task' = [task EXCEPT ![h] = [@ EXCEPT !.pc = "check", !.mine = new]]
      /\ UNCHANGED <<item, refs, experimental, service, runtime, engine, candidate, started,
                     misled, model, requests, crashes, torn, made, removed, halved, leftover>>
  BY DEF Encode, At, locks, vision, faults, ghosts
<1>2. Inside(task[h])
  BY <1>1 DEF Inside, Changing
<1>3. service = h /\ Shape(task[h]) /\ AtWork(task[h]) /\ ~Dropping /\ task[h].build \in Nat
  BY <1>1, <1>2, InsideFacts DEF Tasks
<1>4. new \in SUBSET (Refs \X Nat)
  BY <1>3 DEF Confirmed
<1>5. /\ Saved' = Saved /\ Vectors' = Vectors /\ \A f : f \in Files(Saved)' <=> f \in Files(Saved)
      /\ Confirmed' = Confirmed
  BY <1>1, RowsSame
<1>6. task[h].mine = {} /\ profile # Nobody /\ profile.status = "building" /\ task[h].build # 0
  BY <1>1, <1>3 DEF Shape, AtWork, UnderBuild
<1>7. /\ ProfileFits /\ profile' # Nobody /\ profile'.status = "building" /\ profile'.model \in {Nobody, model}
  BY <1>1, <1>3, <1>5, <1>6, BuildingFits
<1>8. /\ task' \in [Handlers -> Tasks] /\ OthersSame(h)
      /\ task'[h].pc = "check" /\ task'[h].mine = new /\ task'[h].items = task[h].items
      /\ task'[h].op = task[h].op /\ task'[h].ref = task[h].ref /\ task'[h].build = task[h].build
  <2> HIDE DEF new
  <2> QED BY <1>1, <1>4, PlacedTask DEF IInv, Pcs
<1>9. StepsWithin(h)
  <2>1. LocksOf(h) /\ Shape(task'[h])
    BY <1>1, <1>3, <1>6, <1>8 DEF LocksOf, Shape, Inside, Changing, Refreshing, Starting
  <2>2. AtWork(task[h])'
    BY <1>1, <1>5, <1>7, <1>8 DEF AtWork
  <2> QED BY <1>1, <1>2, <1>8, <2>1, <2>2 DEF StepsWithin
<1>10. FilesFit(h)
  <2>1. \A r \in Saved' : r \in halved' \/ There(r)'
    BY <1>1, <1>2, <1>5, KeptHere DEF At, There
  <2>2. InHand(h) = {} /\ InHand(h)' = new
    BY <1>1, <1>6, <1>8 DEF InHand, At
  <2> QED BY <1>1, <1>5, <2>1, <2>2 DEF FilesFit
<1>11. Numbered' /\ Cropless'
  BY <1>1, <1>8, <1>9, NumberedWithin DEF IInv, Cropless
<1>12. refs' \in [Refs -> References] /\ FilesTyped'
  BY <1>1, <1>4 DEF IInv, TypeOK, FilesTyped
<1> QED BY <1>7, <1>9, <1>10, <1>11, <1>12, Within

\* The item of a build is still there.
LEMMA CheckStep == ASSUME IInv, NEW h \in Handlers, Check(h) PROVE IInv'
<1>1. /\ task[h].pc = "check"
      /\ UNCHANGED <<item, refs, profile, experimental, disk, service, runtime, engine, candidate, started,
                     misled, model, requests, crashes, torn, made, removed, halved, leftover>>
  BY DEF Check, At, rows, locks, vision, faults, ghosts
<1>2. /\ task' \in [Handlers -> Tasks] /\ OthersSame(h)
      /\ task'[h].pc = "commit" /\ Carries(h)
  BY Moved DEF IInv, Check, Pcs
<1>3. Inside(task[h])
  BY <1>1 DEF Inside, Changing
<1>4. service = h /\ Shape(task[h]) /\ AtWork(task[h])
  BY <1>3, InsideFacts
<1>5. /\ Saved' = Saved /\ Vectors' = Vectors /\ Confirmed' = Confirmed
      /\ \A f : f \in Files(Saved)' <=> f \in Files(Saved)
  BY <1>1, RowsSame
<1>6. StepsWithin(h)
  <2>1. LocksOf(h) /\ Shape(task'[h])
    BY <1>1, <1>2, <1>4 DEF LocksOf, Shape, Carries, Inside, Changing, Refreshing, Starting
  <2>2. AtWork(task[h])'
    BY <1>1, <1>2, <1>4, <1>5 DEF AtWork, Carries, UnderBuild, Refreshing
  <2> QED BY <1>1, <1>2, <1>3, <2>1, <2>2 DEF StepsWithin, Carries
<1>7. FilesFit(h)
  <2>1. \A r \in Saved' : r \in halved' \/ There(r)'
    BY <1>1, <1>3, <1>5, KeptHere DEF At, There
  <2>2. InHand(h)' = InHand(h)
    BY <1>1, <1>2 DEF InHand, At, Carries
  <2> QED BY <1>1, <1>5, <2>1, <2>2 DEF FilesFit
<1>8. Numbered' /\ Cropless'
  <2>1. task'[h].build = task[h].build
    BY <1>2 DEF Carries
  <2> QED BY <1>1, <1>6, <2>1, NumberedWithin DEF IInv, Cropless
<1>9. ProfileFits
  BY <1>1, <1>2, <1>5, ProfileFitsSame
<1>10. refs' \in [Refs -> References] /\ FilesTyped'
  BY <1>1 DEF IInv, TypeOK, FilesTyped
<1> QED BY <1>6, <1>7, <1>8, <1>9, <1>10, Within

\* The rows and the profile of a build are committed: a version that was ready
\* before had the same model, and the same vectors.
CommittedProfile == [profile EXCEPT !.status = "ready", !.model = model, !.vectors = Vectors]
LEMMA CommitFits ==
    ASSUME IInv, profile # Nobody, profile.model \in {Nobody, model}, ~Dropping, Vectors' = Vectors,
           profile' = CommittedProfile, made' = made \cup {profile'}, UNCHANGED <<torn, removed>>
    PROVE  ProfileFits
<1>1. /\ profile \in Profiles /\ model \in Models /\ made \subseteq Profiles
      /\ \A r \in Refs : refs[r] \in References
  BY DEF IInv, TypeOK, Items
<1>2. Vectors \in SUBSET (Refs \X Nat)
  BY <1>1 DEF Vectors, Confirmed, References
<1>3. /\ profile' \in Profiles /\ profile'.status = "ready" /\ profile'.model = model
      /\ profile'.version = profile.version /\ profile'.vectors = Vectors
  <2> HIDE DEF Vectors
  <2> QED BY <1>1, <1>2 DEF CommittedProfile, Profiles, Statuses
<1>4. profile' # Nobody
  BY <1>3, NobodyIsNoRecord
<1>5. Current' /\ Recorded'
  BY <1>1, <1>3 DEF IInv, Current, Making, Recorded, Ready
<1>6. ASSUME ~Renumbered, NEW p \in made, p.version = profile.version PROVE p = profile'
  <2>1. /\ p \in Profiles /\ p.status = "ready" /\ p.model \in Models /\ p.model = profile.model
        /\ p.vectors = Vectors
    BY <1>1, <1>6 DEF IInv, Making, Recorded, Ordered
  <2>2. p.model = model
    BY <2>1, RegistrationConstants
  <2> QED BY <1>3, <1>6, <2>1, <2>2 DEF Profiles
<1>7. Ordered'
  <2> SUFFICES ASSUME ~Renumbered, NEW p \in made \cup {profile'}
               PROVE  /\ p.version <= profile.version
                      /\ p.version = profile.version => p.model = model /\ p.vectors = Vectors
    BY <1>3, <1>4 DEF Ordered, Renumbered
  <2>1. CASE p = profile'
    BY <1>1, <1>3, <2>1 DEF Profiles
  <2>2. CASE p \in made
    BY <1>3, <1>6, <2>2 DEF IInv, Making, Ordered
  <2> QED BY <2>1, <2>2
<1>8. VersionNamesVectors'
  <2> SUFFICES ASSUME ~Renumbered, NEW p \in made \cup {profile'}, NEW q \in made \cup {profile'},
                      p.version = q.version
               PROVE  p = q
    BY DEF VersionNamesVectors, Renumbered
  <2> QED BY <1>3, <1>6 DEF IInv, VersionNamesVectors
<1> QED BY <1>1, <1>3, <1>5, <1>7, <1>8 DEF ProfileFits, Making, Items
LEMMA CommitStep == ASSUME IInv, NEW h \in Handlers, Commit(h) PROVE IInv'
<1> DEFINE b == task[h].build
           old == Cuts(Confirmed)
<1>1. /\ task[h].pc = "commit" /\ profile' = CommittedProfile /\ made' = made \cup {profile'}
      /\ refs' = [r \in Refs |-> IF r \in Confirmed THEN [refs[r] EXCEPT !.crop = b] ELSE refs[r]]
      /\ task' = [task EXCEPT ![h] = [@ EXCEPT !.pc = "retire", !.mine = old]]
      /\ UNCHANGED <<item, experimental, disk, service, runtime, engine, candidate, started,
                     misled, model, requests, crashes, torn, removed, halved, leftover>>
  BY DEF Commit, CommittedProfile, At, locks, vision, faults
<1>2. Inside(task[h])
  BY <1>1 DEF Inside, Changing
<1>3. /\ service = h /\ Shape(task[h]) /\ AtWork(task[h]) /\ ~Dropping /\ b \in Nat
      /\ \A r \in Refs : refs[r] \in References
  BY <1>1, <1>2, InsideFacts DEF Tasks
<1>4. /\ b # 0 /\ profile # Nobody /\ profile.model \in {Nobody, model}
      /\ task[h].mine = Confirmed \X {b} /\ Confirmed \X {b} \subseteq disk
      /\ \A r \in Refs : refs[r].crop # b
  BY <1>1, <1>2, <1>3, InsideFacts DEF Shape, AtWork, UnderBuild
<1>5. /\ refs' \in [Refs -> References]
      /\ \A r \in Refs : refs'[r].status = refs[r].status /\ refs'[r].region = refs[r].region
      /\ \A r \in Confirmed : r \in Refs /\ refs'[r].crop = b
      /\ \A r \in Refs : r \notin Confirmed => refs'[r].crop = refs[r].crop
  <2>1. ASSUME NEW r \in Refs
        PROVE  LET y == [refs[r] EXCEPT !.crop = b]
               IN  y \in References /\ y.status = refs[r].status /\ y.region = refs[r].region /\ y.crop = b
    BY <1>3 DEF References
  <2>2. Confirmed \subseteq Refs
    BY DEF Confirmed
  <2> HIDE DEF b
  <2> QED BY <1>1, <1>3, <2>1, <2>2
<1>6. Saved' = Saved /\ Confirmed' = Confirmed
  BY <1>5 DEF Saved, Confirmed
<1>7. Vectors' = Vectors
  BY <1>5, <1>6 DEF Vectors, Confirmed
<1>8. /\ old \in SUBSET (Refs \X Nat)
      /\ \A f : f \in old <=> \E r \in Confirmed : refs[r].crop # 0 /\ f = <<r, refs[r].crop>>
  BY <1>3, <1>5 DEF Cuts, References
<1> HIDE DEF old
<1>9. /\ task' \in [Handlers -> Tasks] /\ OthersSame(h)
      /\ task'[h].pc = "retire" /\ task'[h].mine = old /\ task'[h].items = task[h].items
      /\ task'[h].op = task[h].op /\ task'[h].ref = task[h].ref /\ task'[h].build = b
  BY <1>1, <1>8, PlacedTask DEF IInv, Pcs
<1> HIDE DEF b
<1>10. StepsWithin(h)
  <2>1. LocksOf(h) /\ Shape(task'[h])
    BY <1>1, <1>3, <1>4, <1>9 DEF LocksOf, Shape, Inside, Changing, Refreshing, Starting
  <2>2. ASSUME NEW f \in old, f \in Files(Saved)' PROVE FALSE
    <3>1. PICK r \in Confirmed : r \in Refs /\ refs[r].crop # 0 /\ f = <<r, refs[r].crop>>
      BY <1>5, <1>8
    <3>2. PICK q \in Saved' : f = <<q, 0>> \/ f = <<q, refs'[q].crop>>
      BY <2>2, FilesSaved
    <3> QED BY <1>4, <1>5, <3>1, <3>2
  <2>3. AtWork(task[h])'
    BY <1>9, <2>2 DEF AtWork, UnderBuild, Refreshing
  <2> QED BY <1>1, <1>2, <1>9, <2>1, <2>3 DEF StepsWithin
<1>11. FilesFit(h)
  <2>1. ASSUME NEW r \in Saved, r \notin halved' PROVE There(r)'
    <3>1. There(r) /\ r \in Refs
      BY <1>1, <1>2, <2>1, KeptHere DEF At, Saved
    <3>2. r \in Confirmed => <<r, b>> \in disk
      BY <1>4
    <3> QED BY <1>1, <1>5, <3>1, <3>2 DEF There
  <2>2. InHand(h) = Confirmed \X {b} /\ InHand(h)' = old
    BY <1>1, <1>4, <1>9 DEF InHand, At
  <2>3. ASSUME NEW f \in Files(Saved) PROVE f \in Files(Saved)' \/ f \in old
    <3>1. PICK r \in Saved : f = <<r, 0>> \/ f = <<r, refs[r].crop>>
      BY FilesSaved
    <3>2. r \in Refs /\ r \in Saved'
      BY <1>6 DEF Saved
    <3> QED BY <1>5, <1>8, <3>1, <3>2, FilesSaved
  <2>4. ASSUME NEW f \in InHand(h) PROVE f \in Files(Saved)'
    <3>1. PICK r \in Confirmed : f = <<r, b>>
      BY <2>2
    <3>2. r \in Saved'
      BY <1>6 DEF Saved, Confirmed
    <3> QED BY <1>5, <3>1, <3>2, FilesSaved
  <2> QED BY <1>1, <1>6, <2>1, <2>2, <2>3, <2>4 DEF FilesFit
<1>12. Numbered'
  <2>1. requests' = requests /\ b <= requests + 1
    BY <1>1 DEF IInv, Numbered, b
  <2>2. \A a \in Handlers : task'[a].build = task[a].build
    BY <1>9 DEF OthersSame, b
  <2>3. \A r \in Refs : refs'[r].crop \in {refs[r].crop, b}
    BY <1>5
  <2>4. ASSUME NEW r \in Refs, NEW a \in Handlers, task'[a].build # 0, task'[a].pc # "retire"
        PROVE  refs'[r].crop # task'[a].build
    <3>1. a # h /\ task'[a] = task[a]
      BY <1>9, <2>4 DEF OthersSame
    <3>2. task[a].build # b /\ refs[r].crop # task[a].build
      BY <1>4, <2>4, <3>1 DEF IInv, Numbered, b
    <3> QED BY <2>3, <3>1, <3>2
  <2> QED BY <2>1, <2>2, <2>3, <2>4 DEF IInv, Numbered
<1>13. Cropless'
  BY <1>5 DEF IInv, Cropless, Confirmed
<1>14. ProfileFits
  BY <1>1, <1>3, <1>4, <1>7, CommitFits
<1>15. FilesTyped'
  BY <1>1 DEF IInv, TypeOK, FilesTyped
<1> QED BY <1>5, <1>10, <1>11, <1>12, <1>13, <1>14, <1>15, Within

-----------------------------------------------------------------------------
(* Deaths, the initial states, and the theorems.                           *)

\* The process dies: no handler and no engine is left, and a deletion under way has
\* left the row without its files, or the profile with the vector.
LEMMA CrashStep == ASSUME IInv, Crash PROVE IInv'
<1>1. /\ crashes < MaxCrashes /\ crashes' = crashes + 1 /\ model' \in Models
      /\ torn' = (torn \/ \E h \in Handlers : task[h].pc = "dropped")
      /\ halved' = halved \cup {task[h].ref : h \in {b \in Handlers : task[b].pc = "unlinked"}}
      /\ service' = Nobody /\ runtime' = Nobody /\ engine' = Nobody /\ candidate' = Nobody
      /\ task' = [h \in Handlers |-> NoTask]
      /\ UNCHANGED <<item, refs, profile, experimental, disk, started, misled, requests, made, removed, leftover>>
  BY DEF Crash, rows, At
<1>2. /\ NoTask.pc = "idle" /\ NoTask.items = Nobody /\ NoTask.build = 0 /\ NoTask.mine = {}
  BY DEF NoTask
<1>3. task' \in [Handlers -> Tasks] /\ \A h \in Handlers : task'[h] = NoTask
  BY <1>1, NoTaskTask
<1>4. TypeOK'
  <2>1. crashes' \in 0 .. MaxCrashes /\ torn' \in BOOLEAN
    BY <1>1, RegistrationConstants DEF IInv, TypeOK
  <2>2. halved' \subseteq Refs
    BY <1>1 DEF IInv, TypeOK, Shaped, Shape
  <2> QED BY <1>1, <1>3, <2>1, <2>2 DEF IInv, TypeOK
<1>5. Owned' /\ Shaped'
  BY <1>2, <1>3 DEF Owned, Shaped, Shape, Inside, Changing, Refreshing, Starting
<1>6. Working'
  BY <1>2, <1>3 DEF Working, AtWork, UnderBuild
<1>7. Numbered' /\ Cropless'
  <2>1. requests \in Nat
    BY RegistrationConstants DEF IInv, TypeOK
  <2> QED BY <1>1, <1>2, <1>3, <2>1 DEF IInv, Numbered, Cropless
<1>8. Saved' = Saved /\ Vectors' = Vectors /\ \A S : Files(S)' = Files(S')
  BY <1>1, RowsSame
<1>9. (~torn' => ~torn /\ ~Dropping) /\ \A r \in Refs : r \notin halved' => r \notin halved /\ ~Unlinking(r)
  BY <1>1 DEF Dropping, Unlinking, At
<1>10. FilesKept'
  <2> SUFFICES ASSUME NEW r \in Saved', r \notin halved' PROVE There(r)'
    BY FilesKeptOn
  <2>1. r \in Saved /\ r \in Refs
    BY <1>8 DEF Saved
  <2>2. There(r)
    BY <1>9, <2>1, ThereFiles DEF IInv, FilesKept
  <2> QED BY <1>1, <2>2 DEF There
<1>11. FilesAccounted'
  <2>1. crashes' # 0
    BY <1>1, RegistrationConstants DEF IInv, TypeOK
  <2> QED BY <2>1 DEF FilesAccounted
<1>12. Current' /\ Making' /\ VersionNamesVectors'
  BY <1>1, <1>8, <1>9 DEF IInv, Current, Making, Recorded, Ordered, Ready, Renumbered, VersionNamesVectors
<1>13. Carried' /\ CommittedCurrent'
  BY <1>1, <1>2, <1>3 DEF IInv, Carried, Borne, Loaded, Snap, Ready, CommittedCurrent, Renumbered
<1> QED BY <1>4, <1>5, <1>6, <1>7, <1>10, <1>11, <1>12, <1>13 DEF IInv

\* Initially nothing is registered, or everything is and the camera runs.
LEMMA RegisteredType ==
    ASSUME model \in Models
    PROVE  /\ Registered \in Profiles /\ Registered.status = "ready" /\ Registered.model = model
           /\ Registered.vectors = Refs \X {1} /\ Registered.version \in Nat \ {0}
<1> DEFINE n == Cardinality(Refs)
           v == 2 * n
<1>1. n \in Nat /\ n # 0
  BY RegistrationConstants, FS_CardinalityType, FS_EmptySet
<1>2. v \in Nat \ {0}
  BY <1>1
<1>3. Registered = [status |-> "ready", version |-> v, model |-> model, vectors |-> Refs \X {1}]
  BY DEF Registered
<1>4. Refs \X {1} \in SUBSET (Refs \X Nat)
  OBVIOUS
<1> HIDE DEF v
<1> QED BY <1>2, <1>3, <1>4 DEF Profiles, Statuses
LEMMA WatchingType ==
    ASSUME model \in Models
    PROVE  /\ Watching \in Engines /\ Watching.pending = Nobody /\ Watching.taken = Nobody
           /\ Watching.matcher = Registered /\ Watching.loaded = Registered.version
<1>1. Registered \in Items /\ Registered.version \in Nat
  BY RegisteredType DEF Items
<1> QED BY <1>1 DEF Watching, Engines
LEMMA InitIInv == Init => IInv
<1> SUFFICES ASSUME Init PROVE IInv
  OBVIOUS
<1>1. /\ model \in Models /\ service = Nobody /\ runtime = Nobody /\ task = [h \in Handlers |-> NoTask]
      /\ item = TRUE /\ candidate = Nobody /\ misled = FALSE
      /\ requests = 0 /\ crashes = 0 /\ torn = FALSE /\ removed = FALSE /\ halved = {} /\ leftover = {}
  BY DEF Init
<1>2. /\ NoTask.pc = "idle" /\ NoTask.items = Nobody /\ NoTask.build = 0 /\ NoTask.mine = {}
  BY DEF NoTask
<1>3. task \in [Handlers -> Tasks] /\ \A h \in Handlers : task[h] = NoTask
  BY <1>1, NoTaskTask
<1>4. 0 \in 0 .. MaxRequests /\ 0 \in 0 .. MaxCrashes
  BY RegistrationConstants
<1>5. Owned /\ Shaped /\ Working /\ Borne /\ ~Dropping
  BY <1>2, <1>3 DEF Owned, Shaped, Shape, Inside, Changing, Refreshing, Starting, Working, AtWork, UnderBuild,
     Borne, Snap, Ready, Dropping, At
<1>6. CommittedCurrent
  BY <1>1 DEF CommittedCurrent
<1>7. CASE Empty
  <2>1. /\ refs = [r \in Refs |-> NoReference] /\ profile = Nobody /\ experimental = FALSE
        /\ disk = {} /\ engine = Nobody /\ started = 0 /\ made = {}
    BY <1>7 DEF Empty
  <2>2. NoReference \in References /\ NoReference.status = "absent" /\ NoReference.crop = 0
    BY DEF NoReference, References
  <2>3. TypeOK
    BY <1>1, <1>3, <1>4, <2>1, <2>2 DEF TypeOK, Items
  <2>4. Numbered /\ Cropless
    BY <1>1, <1>2, <1>3, <2>1, <2>2 DEF Numbered, Cropless
  <2>5. FilesKept /\ FilesAccounted
    BY <2>1, <2>2 DEF FilesKept, FilesAccounted, Saved
  <2>6. Current /\ Making /\ VersionNamesVectors /\ Loaded
    BY <1>1, <2>1 DEF Current, Making, Recorded, Ordered, Ready, VersionNamesVectors, Loaded
  <2> QED BY <1>5, <1>6, <2>3, <2>4, <2>5, <2>6 DEF IInv, Carried
<1>8. CASE Running
  <2> DEFINE y == [status |-> "confirmed", region |-> 1, crop |-> 1]
  <2>1. /\ refs = [r \in Refs |-> y] /\ profile = Registered /\ experimental = TRUE /\ disk = Refs \X {0, 1}
        /\ engine = Watching /\ started = 1 /\ made = {Registered}
    BY <1>8 DEF Running
  <2>2. y \in References /\ y.status = "confirmed" /\ y.crop = 1 /\ y.region = 1
    BY DEF References
  <2> HIDE DEF y
  <2>a. profile \in Items /\ made \subseteq Profiles /\ engine \in Engines
    BY <1>1, <2>1, RegisteredType, WatchingType DEF Items
  <2>b. refs \in [Refs -> References] /\ disk \subseteq Refs \X Nat /\ experimental \in BOOLEAN /\ started \in Nat
    BY <2>1, <2>2
  <2>3. TypeOK
    BY <1>1, <1>3, <1>4, <2>a, <2>b DEF TypeOK
  <2>4. Numbered /\ Cropless
    BY <1>1, <1>2, <1>3, <2>1, <2>2 DEF Numbered, Cropless
  <2>5. Saved = Refs /\ Confirmed = Refs
    BY <2>1, <2>2 DEF Saved, Confirmed
  <2>6. FilesKept
    <3>1. \A r \in Refs : There(r)
      BY <2>1, <2>2 DEF There
    <3> QED BY <2>5, <3>1, ThereFiles DEF FilesKept
  <2>7. FilesAccounted
    <3>1. \A f \in disk : f \in Files(Saved)
      BY <2>1, <2>2, <2>5, FilesSaved
    <3> QED BY <3>1 DEF FilesAccounted
  <2>8. Vectors = Refs \X {1}
    BY <2>1, <2>2, <2>5 DEF Vectors
  <2>9. Current /\ Making /\ VersionNamesVectors
    BY <1>1, <2>1, <2>8, RegisteredType, NobodyIsNoRecord
       DEF Current, Making, Recorded, Ordered, Ready, VersionNamesVectors
  <2>10. Loaded
    BY <1>1, <2>1, WatchingType, RegisteredType, NobodyIsNoRecord DEF Loaded
  <2> QED BY <1>5, <1>6, <2>3, <2>4, <2>6, <2>7, <2>9, <2>10 DEF IInv, Carried
<1> QED BY <1>7, <1>8 DEF Init

LEMMA StepIInv == IInv /\ [Next]_vars => IInv'
<1> SUFFICES ASSUME IInv, [Next]_vars PROVE IInv'
  OBVIOUS
<1>1. CASE UNCHANGED vars
  <2>1. /\ EnginesOnly /\ UNCHANGED <<item, experimental, engine, candidate, started, misled>>
    BY <1>1 DEF vars, rows, locks, vision, faults, ghosts, EnginesOnly
  <2>2. TypeOK' /\ Loaded' /\ CommittedCurrent'
    BY <2>1 DEF EnginesOnly, IInv, TypeOK, Carried, Loaded, Snap, Ready, CommittedCurrent, Renumbered
  <2> QED BY <2>1, <2>2, EngineFrame
<1>2. ASSUME NEW h \in Handlers, Serve(h) PROVE IInv'
  <2>1. CASE TakeService(h) \/ TakeRuntime(h)
    BY <2>1, TakeServiceStep, TakeRuntimeStep
  <2>2. CASE Adds(h)
    BY <2>2, AddDuplicateStep, AddFilesStep, AddRowsStep, AddFailsStep DEF Adds
  <2>3. CASE Edits(h)
    BY <2>3, ConfirmStep, RefusedStep, DropRowStep, DropFailsStep, DropProfileStep, RemoveProfileStep, RemoveItemStep,
       UnlinkStep, UnlinkFailsStep
       DEF Edits
  <2>4. CASE Builds(h)
    BY <2>4, BuildRefusedStep, BuildBeginsStep, EncodeStep, CheckStep, CommitStep, RetireStep, BuildFailsStep DEF Builds
  <2>5. CASE Refreshes(h)
    BY <2>5, ReadItemsStep, ReadEncoderStep, ReadEnginesStep, ReloadStep DEF Refreshes
  <2>6. CASE Starts(h)
    BY <2>6, StartItemsStep, StartEncoderStep, StartStep DEF Starts
  <2> QED BY <1>2, <2>1, <2>2, <2>3, <2>4, <2>5, <2>6 DEF Serve
<1>3. ASSUME NEW h \in Handlers, NEW op \in Operations, NEW r \in Refs, Begin(h, op, r) PROVE IInv'
  BY <1>3, BeginStep
<1>4. CASE Vision
  BY <1>4, TakeStep, InstallStep, RecogniseStep, AcceptStep, RejectStep DEF Vision
<1> QED BY <1>1, <1>2, <1>3, <1>4, StopStep, CrashStep DEF Next

\* In every reachable state the handlers inside the lock, the rows and the files
\* fit together.
THEOREM Invariant == Spec => []IInv
<1> QED BY InitIInv, StepIInv, PTL DEF Spec

\* A ready profile is made of the photographs there are, whenever nobody changes
\* them, and no two ready profiles share a version, for every run of registrations,
\* builds, deletions and deaths (registration.py:build, delete_reference).
THEOREM ProfileSoundAlways == Spec => []ProfileSound
<1>1. IInv => ProfileSound
  <2> SUFFICES ASSUME IInv PROVE ProfileSound
    OBVIOUS
  <2>1. service = Nobody => ~Dropping
    BY NobodyElse DEF IInv, Owned, Dropping, At, Inside, Changing
  <2>2. ReadyMatchesPhotographs
    BY <2>1 DEF IInv, Current, Ready, ReadyMatchesPhotographs
  <2> QED BY <2>2 DEF IInv, ProfileSound
<1> QED BY <1>1, Invariant, PTL

\* What a camera is said to have loaded is what its matcher holds, in whatever order
\* refreshes reach it, and no identity is stored on other vectors than those of the
\* ready profile (engine.py:_apply_profile_updates, main.py:photo_commit_guard).
THEOREM MatcherCurrentAlways == Spec => []MatcherCurrent
<1>1. IInv => MatcherCurrent
  <2> SUFFICES ASSUME IInv PROVE MatcherCurrent
    OBVIOUS
  <2>1. LoadedIsLoaded
    <3> SUFFICES ASSUME ~Renumbered, engine # Nobody, profile # Nobody, profile.status = "ready",
                        engine.loaded = profile.version
                 PROVE  engine.matcher # Nobody /\ engine.matcher = profile
      BY DEF LoadedIsLoaded
    <3>1. profile \in Profiles /\ profile.version # 0
      BY DEF IInv, TypeOK, Items, Profiles
    <3>2. engine.matcher # Nobody /\ engine.matcher.version = profile.version /\ engine.matcher \in made
      BY <3>1 DEF IInv, Carried, Loaded
    <3>3. profile \in made
      BY DEF IInv, Making, Recorded, Ready
    <3> QED BY <3>2, <3>3 DEF IInv, VersionNamesVectors
  <2> QED BY <2>1 DEF IInv, MatcherCurrent
<1> QED BY <1>1, Invariant, PTL

\* No file a row names is lost, by whatever fails, is retired or dies, unless its own
\* deletion is under way or ended among its files; and while the process lives every
\* file belongs to a row or to a handler, or is one whose own removal failed
\* (registration.py:add_batch, build, delete_reference).
THEOREM PhotographsKeptAlways == Spec => []PhotographsKept
<1>1. IInv => PhotographsKept
  BY DEF IInv, PhotographsKept
<1> QED BY <1>1, Invariant, PTL
=============================================================================
