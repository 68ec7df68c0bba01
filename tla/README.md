# ObjectMemory: a TLA+ development

ObjectMemory watches a desk with a camera, decides when an item was moved, and
keeps the evidence (key images and clips) for "where did I put it". This
directory models the places where that promise is made or broken, from the
frames of a hand and an item to the rows of the database and the board that
sends the frames. TLC checks the models on small instances; TLAPS proves the
safety properties that matter most for every size of the instance.

Paths below are relative to `src/`; `apps/api/app/` is written `api/` and
`services/vision/` is written `vision/`.

## 1. The system

One process runs a FastAPI application, per camera a capture thread, a vision
thread and a media worker, a thread per job of the firmware service, and a few
service threads. A second process may run in another mode ("demo" and "real")
with its own data root. The camera may be an ESP32 board with firmware of its
own.

    camera source -> CaptureWorker -> LatestFrameQueue -> VisionEngine._process
                                                             |  per item
             hands, zones, matcher of the registered photos  |
                                                             v
                              ItemMotionStateMachine.update / AcceptanceRun.observe
                                                             |  StateEvent
                     pending events + post-roll clip <-------+
                             |
                             v  _on_vision_event (main.py)
    EventService.record  --> files (event-images, event-clips)
                         --> Database.insert_event_bundle_idempotent
    EventService.observe --> Database.save_current_state_if_newer
    RetentionService     --> plan / cleanup / recover_pending / delete_event
    HTTP routes (main.py): start/stop/restart cameras, edit items, scenes and
                           zones, register photographs, conduct acceptance
                           suites, install boards, correct and delete events

### Components

| Component | State it keeps | What makes it correct |
|---|---|---|
| Movement state machine (`vision/events/state_machine.py`, `release_evidence.py`) | baseline, episode, anchor, last frame, session, last emitted id | an event is backed by one unbroken run of detections of one session; the destination was stable and free of hands; two events share no evidence |
| Hand interaction (`vision/hand_interaction.py`, `hand_actions.py`) | hand tracks; hold, co-motion and release of the item | a reported release was witnessed; only it ends a hold |
| Capture worker and vision engine (`vision/capture.py`, `engine.py`) | newest-frame queue, ring, pending events, profile generations, media slots | a clip is unbroken, of one session and one identity; slots are given back; nothing commits after `stop` |
| Acceptance run (`vision/acceptance.py`) | one trial: baseline, departure, arrival, outcome | a trial decides by what it saw; its clip has its whole pre- and post-roll |
| Acceptance service (`api/acceptance.py`) | suites and runs, mirrored status | a run and its event agree; an outcome is earned and final; no active run is orphaned |
| API runtime (`api/main.py`) | `engines`, `stopping_engines`, `Runtime.lock` | one live engine per camera; no callback of a stopped engine acts; every request returns |
| Event service, evidence database (`api/event_service.py`, `db.py`) | files and rows of the evidence | files before rows; late callbacks do not rewind; a retried callback is one event |
| Retention (`api/retention.py`) | `retention.lock`, tombstones | nothing protected is deleted; no row names a missing file; the history is bounded |
| Registration (`api/registration.py`) | photographs, profile versions, builds | a ready profile holds the vectors of the photographs there are; engines match with what they say |
| Scenes (`api/scene.py`, `scene_mapping.py`) | scene versions, keyframes, zones | a confirmation is worth what the picture it was drawn on is worth |
| Firmware service and board (`api/firmware.py`, `firmware/esp32cam`) | device rows, codes, tokens, commands | a camera streams only for a verified device; a command runs once |
| USB provisioning, mode lease (`api/firmware_usb.py`, `mode_lock.py`) | binding, receipts, recovery, lease | a board is written once per authorization; the lease covers every worker |
| Camera manager and sources (`vision/camera_manager.py`, `camera_sources/`) | leases, device handles | a device has one owner; nothing is leaked |
| Filters, detectors, trackers, preview | numeric or for display | - |
| Search, schemas, security, web interface, scripts | none | - |

### What is hard here

- **No operation on evidence is atomic.** Files live outside SQLite; a crash
  may fall between an unlink and a commit, and an unlink may fail.
- **Checks and acts are apart.** Callbacks check their generation, commits
  their profile, requests their run, and heartbeats their row, and act on it
  later without the lock under which they looked.
- **Threads outlive their joins.** Native threads may hang in a driver; joins
  are bounded; what comes late must not be able to do harm.
- **Order.** Callbacks carry media and take seconds, observations do not; two
  refreshes of one profile, two heartbeats of one board, a status and a cancel
  may arrive in either order.
- **Frames lie.** Detections vanish, frames are skipped or delivered again, the
  session restarts in the middle of a movement, profiles and scenes change
  under it; evidence must not be joined across such a break.
- **Plans go stale.** Cleanup plans, then deletes row by row.
- **Authority is spent.** A write of a board's flash, a command, a pairing
  code are used once, whatever dies in between.

`PROJECT.json` lists each of these as a hazard at the line where it bites.

## 2. The modules

| Module | Models | Checked by | Proved in |
|---|---|---|---|
| `Movement` | `ItemMotionStateMachine`, `release_evidence.verified_release`, the resets of the engine | `MC_Movement` | `Movement_proofs` |
| `HandInteraction` | the hand analyzer and the hand-object tracker, which give `Movement` its release | itself | - |
| `Pipeline` | `CaptureWorker`'s queue, the evidence path of `VisionEngine`, the evidence gate of `EventService`, the session rows of `Runtime.track` and `event` | `MC_Pipeline` | - |
| `CameraLifecycle` | `Runtime.start`, `stop`, `restart`, the browser senders, `VisionEngine.start` and `stop`, the webcam lease, the callbacks' generation checks | `MC_CameraLifecycle`, two configurations | `CameraLifecycle_proofs` |
| `AcceptanceRun`, `TrialContract` | one trial in the vision thread; what it promises | itself | - |
| `Acceptance` | `AcceptanceService`, the routes that conduct runs, the score of a suite | `MC_Acceptance` | `Acceptance_proofs` |
| `EvidenceStore` | `EventService`, the event transactions of `Database`, `RetentionService`, the event routes | `MC_EvidenceStore` | `EvidenceStore_proofs` |
| `Registration` | `RegistrationService`, `refresh_recognition`, the matcher of a running engine | `MC_Registration` | `Registration_proofs` |
| `SceneReview` | `SceneService`, the scene, camera and zone routes, the zones an engine credits | `MC_SceneReview` | `SceneReview_proofs` |
| `Firmware` | the board's firmware and the device rows of the firmware service | itself | `Firmware_proofs` |
| `UsbInstall` | `AutoUsbService`, the worker registry, shutdown and the mode lease | itself | `UsbInstall_proofs` |

They meet at promises. `CameraLifecycle` says when a callback of an engine may
still run, `Movement` and `AcceptanceRun` what an event of it means, `Pipeline`
what its clip shows, `Registration` whose identity it carries, and
`EvidenceStore` what becomes of it once `record` is called. `Movement` takes
the releases that `HandInteraction` reports as input, `Pipeline` keeps of
`Movement` a baseline, an episode and a reset. `TrialContract` is the promise
between the two acceptance modules: `AcceptanceRun` is checked to implement it
(`KeepsContract`, with `outcome` mapped to a function of the run's fields), and the
trials of `Acceptance`, seen through an instance per generation, are proved to move
as it lets them (`TrialsLawful`, part of `OutcomeEarned`).

### Movement

The variable `m` is the machine object, a record with one field per attribute.
`update()` is a prologue that every frame goes through (`Adopt`, `OutOfOrder`,
`Accept`) and then one action per way in which the frame can be handled:
`RejectFrame`, `MissItem`, `BuildBaseline`, `Rest`, `PickUp`, `MoveOn`,
`AbandonMovement` and `EmitMovement`. The helpers of the class are functions
from a machine to a machine, named as in the code. `SourceRestart`,
`EngineReset` and `ProfileRebuild` are the surroundings. `run` is an observer
that no action reads: the accepted detections since the last break of
continuity, where a break (`Broken`) is defined from the packets and not from
what the machine decided.

Abstractions: positions are points on a line; speed is a Boolean; the pair of
session id and reconnect epoch is one number; of the release proof only the
first co-motion frame is kept, and the flag `surface` stands for
`support_surface_confirmed` and `hand_model_healthy` together, which the code
only uses as a conjunction.

### HandInteraction

`tracks` are the hands of the analyzer with the frames they have been followed;
`state` is the tracker's `_State` of one item, `verdict` the `holding_status` of
the last result. A frame first goes through `Analyze` (matching under ambiguity,
new identities, tracking frames), then through the branch of `update` it
belongs to (`MultipleNear`, `HandGone`, `NearHand`, `ApartUnheld`, `Apart`,
`Undetected`, `Unhealthy`). `still` and the `run` of a track observe what the
frames showed, independently of the tracker. Places are points on a line and a
frame's number is its time; postures, gestures and replayed frames are left out.

### Pipeline

| Variable | Code |
|---|---|
| `capture`, `queue`, `clock` | the capture thread and whether its source reports `error`, `LatestFrameQueue`, monotonic time |
| `profile`, `pruning` | stored profile, `_profile_revision`, the pending update and the loaded one; a reload that has still to drop outdated events |
| `vision`, `ring`, `machine`, `pending` | the vision thread and its frame, the evidence ring, a baseline and an episode of the item, `_pending_events` |
| `jobs`, `slots`, `stop` | jobs of the media worker in order, `_media_job_slots`, progress of `stop` |
| `rows` | rows of `source_sessions`, written by tracks and by the event callback |
| `faulted` | history: sessions for which a callback has read an engine in `error` |

A frame is `BeginFrame` (profile and scene updates, session switch),
`SettleFrame` (ring, post-roll, due events), `JudgeFrame` or `ConfirmMovement`,
`FinalizeFrame` and `EmitFrame`; `Runtime.track` is `ReportTrack` (the health),
`ReadRow` and `SaveRow`; a job is `LookAtHealth`, `StampRow`, `PassGate` and
`CommitJob` or `FailJob`. Each step is one read or one write of state that
another thread writes; what a callback has read stays as it was read. A source that
reports `error` while its thread lives (`SourceFails`) is part of the health; the
other momentary statuses of a live thread are masked by the engine's own (section 7). There is one item; byte limits count frames; a frame in
the ring remembers the profile it was judged by (`identity`, an observer).

### CameraLifecycle

Every `Runtime.start` that reaches line 829 makes a new `VisionEngine` with its
own worker threads and source: a *generation*, a number in `1..born`.

| Variable | Code |
|---|---|
| `engine`, `stopping` | `engines[camera]`, `stopping_engines[camera]` |
| `lock` | the request that keeps `Runtime.lock` from one action to the next |
| `call` | per request: where in `start`, `stop` or the sender's methods it is, for which generation |
| `capture`, `vision`, `media` | per generation: its capture thread, vision thread, media worker's job |
| `session` | status of its row in `source_sessions` |
| `halted`, `failed`, `closed` | stop events set; health is `error`; media executor shut down |
| `forced` | observer: `stop` disconnected the source under its thread |
| `connected`, `handle`, `sender` | `_connect_ok`, an open device, a sender token |
| `lease` | the generation that owns the camera in `CameraManager` |

Requests go through `Call`, `CheckStale`, `Launch*`, `Started` or `StartFails`;
`Detach`, `MarkDisconnected`, `Halt`, `JoinCapture` or `DisconnectBlocked`,
`JoinVision`, `JoinMedia`, `Seal`, `Clear`; a browser sender through
`BindSender`, `SenderEnds` and `DropSender`, which enters the same path at
`Halt`. `SaveRaises` is an exception from a save of the session row, `LookRaises` one
of the database calls between the registry entry and the `try` (877-882). The threads
of a generation are `Capturing`, `Seeing` and `Persisting`; a callback checks
its generation under the lock (`TrackBegin`, `EventBegin`) and acts on it later
without (`TrackSave`, `EventLook`, `EventStamp`, `EventRecord`).

Abstractions: one row of `source_sessions` per generation; `disconnect` is one
step; frames are not counted; a start may be refused at any time. `Timeouts`
names the threads whose bounded join may run out, `FailingSaves` the database calls
that may raise (`look`, `mark`, `seal`, `drop`).

### AcceptanceRun and TrialContract

`run` is the `AcceptanceRun` object. `Observed` is `observe`, split as the code
is (`Missed`, `Calibrated`, `AtOrigin`, `Departed`, `Travels`, `Arrives`);
`PostRolled` is `observe_postroll`. `ObserveFrame` adds what the engine does with
the frame (ring, clip, pending event), `ExtendPending` the post-roll and the
submission, `EndJob` the media worker, `Monitor` the source monitor, `Cancel`,
`CheckArm`, `Arm` and `StopEngine` the requests. `still` and `seen` observe the
marker. The marker is in one of a few places, each small enough to count as
stable and far enough from the others to count as a movement.

### Acceptance

`runs` and `events` are the tables, `engine`, `stopping`, `born` and `switches`
the camera, `trial` and `job` what each generation judges and records, `call` where
each request and vision thread is. A request reads a run (`Begin`), calls its
trial off, detaches the engine, looks up the run it interrupts, joins, launches,
waits for the preflight, activates or rebinds, looks up the run, checks session and
liveness without the service's lock (`CheckArm`) and installs the trial under it
(`Arm`), each a step of its own. `JoinRaises` is the stop of a controlled reconnect
that ends with an exception outside the `try` of the route; the request stays at
`raised` to mark the run it leaves behind. `Identify`, `Apply` and `Pass` are `sync_engine_status`, which
acts on a view of the trial that may be old. One suite of one item; a trial is
what `TrialContract` promises. `Verdict` is `suite_summary`; of an event's evidence
the model keeps what the score asks for, its `fate`: intact, damaged, deleted by
retention with a receipt (written by `Tombstone` when the evidence was found intact,
completed by `Finalize`), or deleted without one.

### EvidenceStore

| Variable | Code |
|---|---|
| `files` | the directories `event-images` and `event-clips` |
| `media`, `events`, `current` | tables `event_media`, `movement_events`, one row of `item_current_state` |
| `holder`, `subject` | who holds `retention.lock`, for which event |
| `made`, `discarded` | `generated_urls` of the running writer; of callbacks that failed and have released the lock |
| `todo`, `row`, `doomed` | the rows a purge has still to visit, the row whose file it has dealt with, the events its plan deletes |
| `request` | a correction that has read its event without lock |
| `faults` | crashes and failing unlinks so far |

One action is one file operation or one committed transaction. A recording is
`RecordBegin`, `WriteMedia` twice, `RecordCommit` or `RecordFail`, and then
`DiscardFile` outside the lock. An observation is the single transaction
`Observe`, or `SnapshotBegin`, `WriteMedia`, `SnapshotCommit` and a
`recover_pending`. A cleanup is `CleanupBegin` (plan and tombstones),
`Unlink`, `CleanupDrop` and `CleanupExpire` for each row, `CleanupEvents`,
`ReclaimOrphan` and the pressure purge. The order of the two commits after an
unlink differs between `recover_pending` (event first) and cleanup (row first),
and the model keeps that difference. `Crash` clears everything volatile and
starts the process with `recover_pending`. `ReadIntegrity` and `ShownEvent` are
what a read of the evidence makes of the rows (`acceptance_evidence`).

Abstractions: one item; one key image and one clip for a movement; the time of a
movement stands for its source window, so two movements with one time are two
deliveries of one window; the reasons to refuse a callback, the age
of media and of orphan files, and the moment the storage limit is exceeded are
nondeterministic choices.

### Registration

`refs` and `profile` are rows, `disk` the stored photographs and the crops of each
build, `task` what each route's thread does, `engine` a running camera with the
update that waits, the one it has taken and its matcher, `candidate` an identified
movement on its way to the commit. `service` and `runtime` own the two locks. A
build is `BuildBegins`, a refresh (`ReadItems`, `ReadEncoder`, `ReadEngines`,
`Reload`), `Encode`, `Check` (the item is still there), `Commit`, `Retire` and another
refresh. A clean-up removes some of its files: the removals the code lets fail, those
of `Stubborn`, may leave them behind. A deletion may end with an exception between
any two of its steps. A vector is named by its photograph and the confirmation of
its region, so the ghosts `made` and `misled` can tell when a version names two sets
of vectors. `halved` and `leftover` are ghosts, too: the photographs whose deletion ended
between their files and their row, and the files whose removal has failed.

### SceneReview

`camera`, `scene` and `zones` are the rows, `images` the keyframes on disk, `engine`
the running engine with the update that waits, the zones it credits and whether it
asks for a review; `task` is where each route is. Sessions, engines and keyframes
are numbered. A start reads the zones (`Build`), then the scene (`Review`), withdraws its
confirmation (`Reviewed`) and publishes the engine (`Publish`); the deletion of a camera
drops its rows without the lock (`Drop`, `Forget`) and may fall between any two of
these. A proposal ends with `Retire` or `Discard`, a removal with `Unlink` or
`RemoveRefused`, and the unlinks may fail. A zone that `patch_zone` changes in place
keeps the confirmation it had; its field `edited` remembers that. Three ghosts:
`leftover`, the keyframes whose removal has failed; `overtaken`, the source was replaced
between the last check of a save and the step that tells the engine, or the engine
had zones to credit before its first frame; `bereft`, the engines built on confirmed
zones whose scene was deleted before they looked for it.

### Firmware

`row`, `codes` and `queue` are the device's row, enrollments and commands; `req` the
request handlers, each with the row as it read it; `rev`, `sweep` and `cable` the
administrator, the stale-device sweep and the worker at the serial port; `bind` the
progress of `bind_device` for each of them; `board` what the board keeps and has
opened, `call` the handler it waits for. A read of the row and the write that
follows are separate steps, as in the code. `slip` is a ghost, empty again with each
enrollment: what the row has lost since. `answer`, the board no longer waited for the
claim that made it; `reader`, a heartbeat decided by a row whose address or proof
had changed since it read it, the cable wrote the proof of an earlier token, or a
revocation hid the camera it should stop.

### UsbInstall

`job` is the registry of worker threads with what each does, `build` and `usb` own the
two locks, `binding`, `receipt` and `recovery` are saved, `creds` and `seen` are in
memory, `phase`, `complete`, `callback` and `lease` are the shutdown. `bound`, `grants`
and `attempts` are ghosts that count what the administrator allowed and what the tool
was started to write.

## 3. The runs

| Run | Bounds | Question |
|---|---|---|
| `movement` | 3 positions, 2 zones and none, tags for 5 frames, photographs for 8, 2 sessions | Is what an event and a verified sighting claim what the frames showed? |
| `store` | 3 callbacks, two of them deliveries of one window, 1 correction at the later of 2 times, 4 files, 1 history slot, BALANCED, 1 crash or failing unlink | Links, protections, order, media and limits under everything the store does |
| `lifecycle_webcam` | 2 requests, 2 generations, hanging capture thread | Does any overlap of starts and stops leave two live generations, a leaked device or a session that claims to stream? |
| `lifecycle_browser` | 2 senders or stops, 1 generation, hanging threads, failing look, seal and drop, fairness | Late callbacks; does every request return? |
| `pipeline` | 2 sessions, 4 ticks, ring of 4, 1 slot, at most 3 of: new session, edit, reload, failing source, stop | What reaches the media worker and the commit? |
| `acceptance_run` | 3 kinds, 8 ticks, 2 sessions, fairness | What a trial decides, what it stores, its contract |
| `acceptance` | 1 run of 3 kinds, 2 generations, 2 requests, 1 fault (a stop that raises is one), no movement spared | Do runs, events and engines agree; does a suite's verdict rest on evidence? |
| `firmware` | 2 codes, 2 addresses, 2 handlers at work, 1 incident besides a request given up | Credentials and commands |
| `usb_install` | 2 jobs, 1 version, 2 authorizations, 1 restart, fairness | Writes, records and the lease |
| `registration` | 1 photograph, 2 threads, 3 requests, 2 models, 1 death, removal of the original and of the first crop may fail | Profiles, files, matchers and locks |
| `scene_review` | 2 threads, 4 requests, 3 sessions, 1 death, removals may fail | Confirmations and keyframes |
| `hand_interaction` | 2 hands, 12 frames, 3 identities, a release valid for longer than it has to be stable | Releases and holds |

The bounds are the smallest that let the interesting cases happen. A movement
needs two frames at its origin, one to leave and two to settle: five frames
let every event happen with every kind of interruption before it; a photo
identity needs a release inside its movement and so eight. In the store, three
callbacks with one history slot make the plan choose; the last two are deliveries of
one window, as after a death between insertion and deletion, and one is newer;
two files per movement make the unlink of one and the crash before the other
possible; a second crash meets the same states as the first, since the process
starts with `recover_pending` in both cases. Two generations are enough for one
to be replaced while it is released; two requests overlap in every way that two
hands on one lock allow. In the pipeline a tagged movement is seen at times 1 to
3 and its post-roll ends at 4, so in 4 ticks it reaches the media worker and the
commit with a gap, a reconnect, an edit or a stop before any of these steps, and three
disturbances are enough for one of the source, one of the profile and the stop to
meet; a fifth tick (some 12 million states) adds a second movement that finds the media
slot taken, and has been checked too; the ring holds one frame more than the movement
needs, so a smaller one would never complete. In a suite of one run a request
starts, reconnects or polls it while another cancels it, stops or starts the camera; several
runs, spared movements and further generations are left to the proofs, which cover
any number of each. In a trial the origin, the
departure and the arrival take six ticks and the post-roll one. Twelve frames
let a second hold begin and end after a release. The proofs remove the bounds for
the properties they cover.

Deadlock is not checked in the modules whose system may stop: when every bound of
the exploration is used up, no request is at work any more; in
`lifecycle_browser` the join under the lock (section 7) stops the system.

**Fairness.** `lifecycle_browser`: request handlers and media workers wait for one
reentrant lock and for each other; strong fairness of each says that a thread that
can go on again and again does, which a fair scheduler and a lock that is not
starved for ever give. Nothing is assumed of capture and vision threads: they may
hang in a driver for ever, which is why the joins are bounded. `acceptance_run`:
time passes, the vision thread polls its queue and ends its frame, the media worker
ends its jobs (weak fairness of each); nothing is assumed of frames. `usb_install`:
the registered workers, the shutdown and the listener go on, and the tool returns:
the flash tool has a timeout that kills it, the builder has none, so that it ends is
an assumption; weak fairness of their disjunction is enough, since none
of these steps repeats without one of the administrator's or the board's.

## 4. The proofs

Everything is proved for arbitrary constants that satisfy the named assumptions
of the modules: any number of events, files, positions and frames, any
thresholds in the ranges `__init__` clamps them to, any policy, any number of
crashes. What a component refuses to be configured with is an assumption on its
constants, with the name of the check in the code (`ValidConfig`, `ValidTracker`);
TLC evaluates it in every run. The header of each proof module names its argument; here is the outline.

`Movement_proofs`:

- `TypeCorrect`: `Spec => []TypeOK`.
- `UnbrokenEvidence`: every event lies in one unbroken run of accepted
  detections of one session. `EvidenceUnbroken` speaks of the step that emits,
  so an invariant must carry what the observer knows about the machine's
  baseline and episode: while the machine holds one and has not yet noticed
  that the item is missing, the run began no later than the baseline's frame,
  and the episode is of the machine's present session. The steps that start
  from a fresh or invalidated machine need no history; the others extend the
  run exactly when the machine keeps its baseline.
- `WitnessedAlways`, `WindowsDisjointAlways`, `SightingSoundAlways`: the machine
  decides on counters, the properties speak of the frames themselves. `Witnessed`
  ties the two together: the observer's last frames are distinct (`Kept`); the
  machine never counts more stable detections than the run shows, and those an
  episode counts at its destination are the last ones, each slow, free and near
  it (`Counted`); the baseline of the session of the last event was taken no
  earlier than that event ended (`Later`), and that event lies in the past
  (`EventPast`), which is what rebuilt machines need.

`EvidenceStore_proofs` proves all six properties of the store. `RowsLinked`,
`FilesBacked`, `ProtectedSurvive` and `NoRewind` follow from one inductive invariant
`IInv` (which TLC checked before it was proved). None of them is inductive alone;
what `IInv` adds:

- `PurgeRows`, `ExpiringRow`: a purge only holds rows that are tombstoned, or,
  after `CleanupDrop`, a row that is gone. So an unlink never hits a file of an
  active row, except through sharing, which `Shared` excludes.
- `Writer`: what a writer has made or a failed callback has still to unlink is
  in no row. So `RecordFail` and `DiscardFile` never hit registered media,
  although the latter runs without the lock.
- `ManualAreCorrections`: what has a root is a correction, and only that; what a
  correction read before it had the lock is only used if its checks find the rows
  again.
- `DeletedDetached`: while an event is being deleted the current state does not
  point to it. `DoomedUnprotected`, `DoomedRetired`: the events of a cleanup's
  plan are unprotected and have no active row, until the cleanup ends. The
  second is needed because the plan counts the files of events it deletes among
  the orphans.
- `PlacedWhenSeen`: the placement time is never later than the last sighting.
  It is what makes `NoRewind` survive the two independent comparisons of
  `insert_event_bundle_idempotent`.
- `ShownRegistered`: the screenshot on display has its active row.

`MediaAccounted` and `HistoryBounded` need a second invariant on top of it, `Ledger`
(checked by TLC as well), about what an operation under way still owes:

- `Untwinned`, `ActiveMatches`, `RowUnlinked`: no row is active and tombstoned at once,
  an active row is the one its event names, and the file of a row that is about
  to go is gone unless another active row needs it. So whoever drops a row leaves
  no file behind (`FilesKnown`).
- `Retiring`, `Whole`: a purge has an event in hand only when none of its rows is
  active any more, and a confirmed event has its rows or is in such a hand. This
  carries `ConfirmedHasMedia` over the states between two commits; only a fault
  takes the hand away, which is why that part speaks of runs without one.
- `EvidenceShown` (`ImageActive`, `Attested`): the evidence of the current state has its
  active image whatever failed, which is `ShownBacked`.
- `Planned`: the plan of a cleanup stays the excess of the present tables until the
  events go, since expiring media changes neither what is protected nor what is
  retained. Under `MINIMAL`, where expiry would change the latter, nothing outside
  the plan is expired. `Stored` is finite, so removing the excess only lowers the
  number of newer events of those that remain. Windows may be equal, so the slots an
  event takes are counted by an injection of the newer events (`SlotsBound`), and the
  event that goes is among the oldest (`OldestGo` of `HistoryBoundedAlways`).
- `Windowed`: while a callback is being recorded no stored movement has its window, so
  its commit is the only one of that window (`WindowOnce`).

`ProtectedSurvive` speaks of one cleanup: plan, re-check and purge are all under
`retention.lock`, so what it tests is the choice of the plan and the re-check at the
row, not an interleaving.

`CameraLifecycle_proofs` proves, for any number of requests and generations,
`TypeOK`, `OneGeneration` (of `OneSource`), `LateEvidence`, `Attended` and
`DeviceFreed` (of `Released`) and `NoJoinDeadlock`. All assume that the save at
`main.py:887` does not raise (`"mark"` is not in `FailingSaves`): if it does,
`stop` forgets a running engine (section 7) and the invariant breaks. Its
inductive invariant `IInv`:

- `Exclusive`, `Launching`, `Releasing`, `OneReleaser`: a generation is public or
  in the stopping registry, never both are occupied; a request that launches
  holds the lock, and its engine has neither vision thread nor media job yet; a
  request that releases works on the registered generation, and is the only
  one. So a launch and a release never overlap, although the lock is held during
  the launch only.
- `HaltedBy`, `ClosedBy`, `Quiet`, `Fresh`, `Numbered`: what a release has done by
  the time it reaches a step. An executor is closed only when it has no job and
  gets none afterwards, so nothing is left to commit when `Clear` forgets the
  generation.
- `Unhalted`: every unhalted generation is public or registered, which gives
  `OneGeneration`.

`AttendedAlways` assumes in addition that neither the look (877-882) nor the save at
`main.py:960` raises, `NoJoinDeadlockAlways` that no request is `acquire`; they are exactly the
two cases section 7 reports. `NoJoinDeadlockAlways` adds `OnlyLaunchLocks`:
whoever keeps the lock across steps is launching, and a launch that fails joins
an executor without a job.

Two more invariants on top of `IInv` give the rest of `OneSource` and `Released`:

- `Gone` (`Begun`, `Joined`, `Past`): a request is past the join of a capture thread
  only when that has ended or was given up, and a generation leaves the
  registries only then. With the lease, which a thread takes before it opens the
  device, it gives `OldSourceGone` and `DeviceSharedOnlyIfForced`
  (`OneSourceAlways`).
- `Rows` (`Kept`, `Left`, `Unwritten`): a generation that leaves the registries has
  neither a vision thread nor a callback that could write its row, and the row
  was closed after the last of them. `ReleasedAlways` assumes that no save fails
  and that no vision thread outlives its join, which is what `SessionEnded` says
  in words: either of them leaves a row that claims to stream.

`UsbInstall_proofs` proves `RecordsTrue`, `WritesAuthorized` and `LeaseCovers`:

- `Shapes`, `Locks`, `Alone`: the workers about the binding come one at a time, and a
  step that creates one is under way only while there is none.
- `Bindable`, `Evidence`, `Budget`: `WritesAuthorized` counts writes, so the invariant
  must count the rights not yet used as well. `Pending` says where such a right
  is: in a worker that has not started the tool, in the listener or in the
  administrator's hand. Their sum never exceeds what was bound and granted.
- `Leased`, `Answered`: a reservation is settled by a worker that can be named, and
  the callback that gives up the lease finds no worker and admits none.

`SceneReview_proofs` proves `CreditSound`, `ImagesSound` and `DeletionFinal`:

- `Held`, `Placed`, `Newest`: what a handler has found about the scene stays true as
  long as it holds the lock under which it looked.
- `Here`, `Session`, `Checked`, `ZonesFollowScene`: a confirmation travels from the
  editor's copy of the scene through the rows and the update that waits to the zones
  the engine credits, and remains about the engine and session it was checked for.
  `Session` holds until a source is switched between the last check of a save and the
  step that tells the engine (`overtaken`, section 7).
- `Built`: an engine under construction is not yet published, and what its start has
  read of zones and scene is withdrawn before it is, or the scene was deleted in
  between (`bereft`).
- `Edited`: a confirmed zone that was changed in place is only in the row, and in an
  engine, while the request that changed it has still to stop that engine.
- `KeyframeKept`, `Accounted`: the keyframes on disk are those of the scene, those in
  hand and those whose removal failed (`leftover`).

`Firmware_proofs` proves `CredentialsAgree` and `CommandOnce`:

- `Whereabouts`: a command is in the queue, in the answer of one heartbeat, or has
  been run, and in no two of these; `CommandOnce` follows.
- `Proven`, `Compared`, `Awaited`, `Blank`: unless an overlap has gone wrong since the
  row was enrolled (`Astray`, `Unawaited`: the two values of `slip`), the proof of a row is
  of its own token, the worker at the cable writes a proof for the address of the row,
  and a board that waits for a claim finds the row that claim made.
- `Stopped`: whoever takes the proof from a running camera, or from one about to be
  opened, is on the way to stop it.
- `Binds`: who is inside `bind_device`.

`Registration_proofs` proves `ProfileSound`, `MatcherCurrent` and `PhotographsKept`:

- `Owned`, `Shaped`, `Working`: who is inside `RegistrationService.lock` owns it, and what
  it has in hand fits to rows and files: a photograph being added has no row yet,
  one being deleted has no file any more, the crops of a build lie beside those
  of the rows, and those it retires are named by none. Files that could not be removed
  (`leftover`) and photographs whose deletion ended halfway (`halved`) are excepted.
- `Numbered`, `Cropless`: builds have numbers of their own; so a build that fails
  removes no crop of a row.
- `Current`, `Making` (`Recorded`, `Ordered`): the versions of ready profiles never exceed
  that of the row, and one that equals it has the model and the vectors of the
  row. This is what makes a version a name (`VersionNamesVectors`).
- `Carried`: a ready profile that a handler, an engine or a candidate carries was a
  row once. With versions as names it follows that comparing versions compares
  vectors, in whatever order refreshes arrive.

The attempt to prove `VersionNamesVectors` found that it is false when the item is
being removed (section 7); the model's bound on requests had hidden it. The
property now excepts it (`removed`), beside the torn deletion.

`Acceptance_proofs` proves `SuiteSound`, `RunOwned` and `OutcomeEarned`, for any number
of scenarios, requests, generations, faults and spared movements. Its `IInv`:

- `Latest`, `Linked`, `EventsBelong`: only the last run may not have ended; runs,
  events, trials and media jobs refer to each other, so a run is stored with its
  event or not at all.
- `Shaped`: what a request or a vision thread carries fits to where it is.
- `Judged`, `Notified`: the state of a trial fits to the kind and the status of its
  run, and what a vision thread notifies is still the outcome of its trial, although
  the view it acts on was taken earlier.
- `Viewed` (`Seen`, `Ready`): a completed trial that somebody has seen is there until
  its run has ended. Only so is a pass earned that is written several steps after
  the trial was read.
- `Fresh` (`Older`, `Apart`): a request that has still to look up, check or arm an
  earlier run carries
  the session of an earlier generation than any later run, so its arming cannot
  replace the completed trial of a later one. `Viewed` is not inductive without it.
- `Owned` (`Owns`, `Told`): for every active run somebody can be named who will end it,
  arm it or notify it. It is stronger than `RunOwned` where that does not say which
  operation a request is part of: only the right one will do what it promises. A
  reconnect whose stop raised (`raised`) owns the run it has left.
- `Counted`: the rows stay within the bounds of the exploration.

Each action is reduced to what it may do to each part of the state (`RunsQuiet`,
`TrialsQuiet`, `CallsFair` and so on), and the parts of `IInv` are proved from these
summaries once. `TrialsLawful` relates two modules: every step of `Acceptance` is, for
the trial of each generation, a step of `TrialContract` or none. With `KeepsContract`
it says that the contract lies between what a trial does and what the service
expects of it, on both sides of the boundary.

## 5. What is only model-checked

Liveness and what speaks of `ENABLED` are out of the prover's reach: `Returns`,
`LeaseReleased`, the fairness part of `KeepsContract`, `OnlyInversionBlocks`.
The remaining properties are model-checked and not proved: those
of `Pipeline`, `AcceptanceRun` and `HandInteraction`. `Pipeline` filters its ring and its
jobs with `SelectSeq`, which is recursive, so nothing can be proved in a module that
uses it. For `AcceptanceRun` and `HandInteraction` the invariants that would be needed
speak of every frame of a window (the samples of a zone, the run of a track); there
are none yet.

## 6. The plan

The eight modules with proofs cover every safety property that the prover can
reach in them. What comes next, in the order of what it protects: the safety part of
`AcceptanceRun`'s refinement of `TrialContract` and the completeness of its clips; the
releases of `HandInteraction`; a form of `Pipeline` whose ring is a function instead of a
filtered sequence, so that its slots can be proved balanced.

## 7. Disagreements and open windows

The models show that the code does the following; none of it is asserted to be
wanted, and the properties of section 3 are stated so that they hold around it.

**Evidence store.** A correction copies `validation_run_id` (`api/main.py:2309`),
which is unique (`api/db.py:105`): for a movement of an acceptance run the
insertion is ignored (`api/event_service.py:1273-1283`) and the route answers with
the uncorrected event, although `api/main.py:2296-2297` says that a different
target "still creates a new auditable human decision". `retention.py:596-598` says
that an event that lost media "must not remain labelled as a fully evidenced
confirmed placement"; `cleanup` commits the deletion of the media row (748) before
the new label (757), and `delete_event` the last row (691) before the event (692),
so a crash in between leaves such an event and no pending row to repair it from.
A death between the commit of a pending receipt (633) and that of the deletion
lets a later deletion by the user complete the receipt with the old reason.
`db.py:520-523` says that an older confirmation "must not replace a newer evidence
link"; a movement without placement evidence carries on the placement time it
finds, so the comparison is between equal times and an older movement that
arrives later takes the link.

**Camera lifecycle.** `vision/camera_manager.py:44-46` says that every adapter holds a
lease from before it constructs `VideoCapture` until it has released it.
`CaptureWorker.stop` disconnects the source of a thread that does not end in 3 s
(`capture.py:357`); if that thread is inside `connect`, there is a lease but no
capture yet, the lease is released (`opencv_stream.py:305-307`), and the thread
then opens the device without it. `OneSource` shows that this is the only way.
`api/main.py:888-890` explains why workers must not be joined under `Runtime.lock`;
`acquire_browser_sender` (917-918) does it, through `stop` (`engine.py:799`), when the
engine it finds has failed; `NoJoinDeadlock` is checked and proved without that
request. If the save at `main.py:887` raises, `stop` forgets an engine that runs on;
if the one at 960 raises, the registry entry made at 949 stays for ever and the
camera cannot be started again (`FailingSaves`). The same becomes of the entry made
at 875 if one of the database calls before the `try` (877-882) raises: its engine runs
on unregistered and every later start is answered 409 (`LookRaises`). `main.py:836-839` says that late
callbacks cannot revive a source session; check (570-572) and save (617) of `track`
are not atomic, and `Released` shows that the release ends a revived row again.
After a reconnect without a track `stop` ends only the newest session's row (893).
`stop_all` (1101) stops at the first engine whose `stop` raises.

**Pipeline.** `Runtime.event` takes the session of the vision thread and the frame
count of the capture thread: after a reconnect that has not been processed the
row's `last_frame` belongs to the new session and the evidence gate refuses the
event. The same callback resets `continuity_ok`, which tracks keep sticky. A source
that reports `error` for a moment while its thread lives has the same effect through
`track`: the row is not continuous (595, 617) until a stamp writes it anew, and the
gate refuses good evidence of that session; `EvidenceUnbroken` says which sessions
(`faulted`). `reconnecting` and `offline` of a live capture thread
(`vision/capture.py:314-326`) do not reach these lines while the vision thread lives,
since `engine.health` replaces them (`vision/engine.py:1205-1214`). A stamp that comes
before the first track makes a row without camera, start or first frame. A job of an
old session is refused after a reconnect, although `engine.py:1315` calls it safe
to persist.

**Acceptance.** A synchronisation that read the trial's status before a controlled
reconnect and applies it after the rebind passes the run without a baseline in
the new session (`api/acceptance.py:924`). The stop of a controlled reconnect is outside
its `try` (`api/main.py:1085`): if it raises, the run stays active until somebody
cancels it, another start interrupts it or the process starts anew (`JoinRaises`);
`RunOwned` excepts that request. `P0_REAL_MOVEMENT_ACCEPTANCE.md:36` asks for
an unbroken pre-roll; continuity is judged from the arming of the trial.

**Firmware.** `api/firmware.py:1253-1254` says that "Re-enrollment rotates the token and
resets physical proof". A heartbeat that read the row before the claim writes it back
after it (1486-1527): with the address of the old row it restores the old proof, and
the camera may run for a row whose token nobody has verified. A heartbeat whose row
got another address or lost its proof in between may also find nothing to stop.
`RunningIsVerified` excepts such a row until its next enrollment (`slip`); for all
others it says that no other overlap does this. The READY of an earlier claim of the same board is accepted as the
proof of a later one (`api/firmware.py:1971`; `docs/REAL_MODE.md:71` asks for a new
one). `revoke` finds the camera through the public view of the device, which hides
the camera of an unverified one (832), so its reader runs on. The late stop of the
sweep (1162) kills the reader a fresh heartbeat has just started. A database that
fails again in the error path of a job (1665) leaves its receipt reserved.

**Registration.** A death between the deletion of a photograph's row and the
invalidation of the profile (`api/registration.py:415`) leaves a ready profile with
its vector (`torn`). The removal of an item deletes its profile (422) before its
row: a request that was let in before adds photographs and builds anew, from
version 1, and an engine that still matches with the old vectors of that version
is taken to be current (`removed`). Clean-ups that fail leave their files: the crops
of a failed build (385-387), those a build has replaced (396-403) and the uploads of
a refused batch (190), after which nothing looks for them again (`leftover`). A
deletion whose unlink or row deletion raises (413-416) leaves a row without some of
its files, and the same picture uploaded again is then taken for a duplicate
(`halved`), or a ready profile with the vector of a photograph that is gone (`torn`). A build takes `RegistrationService.lock` and then `Runtime.lock`
(321, `main.py:129`); a capture, a test and a start take them the other way round
(`main.py:2163-2176`, 821), and can block it and each other for ever.
`OnlyInversionBlocks` shows that nothing else does.

**Scenes.** The camera may be switched between the last check of a save
(`main.py:1855`) and the step that tells the engine, which then credits a scene
that was confirmed on a picture of the old source; `docs/PHOTO_MEMORY_GUIDE.md:44`
promises a review. A view change withdraws the scene in the database (697) while the
engine goes on crediting the zones it holds. `delete_camera` takes no lock (1643): a
concurrent proposal leaves a scene without a camera, a concurrent edit of the camera
makes its row again (1624), and an engine that had read the zones (822) before the
deletion and finds no scene after it (829) credits them, since only a scene that is
found withdraws their confirmation (`bereft`). An edit of a zone keeps its confirmation
(2033-2055); the row says confirmed of an outline nobody has confirmed, and only the
restart of the same request makes an engine forget it (`EditSettles`). A keyframe that
cannot be unlinked stays without a scene (289-299): the route reports
`cleanup_warning`, and nothing tries again (`leftover`).

**Hand interaction.** `hand_interaction.py:364-381` takes the separation of a frame
before it clears a release that was broken off, and may begin another release in the
same frame. If `release_valid_seconds` is longer than `release_stable_seconds`, which
`api/schemas.py:150-155` accepts (1 to 10 and 5 to 10; the defaults are 3 and 5), the
second one may rest on the co-motion of the first.

## 8. What is not modelled

Filters of one frame (gates, zones' geometry, scene guard), detectors, trackers
and projections compute on images and floating-point coordinates; where a module
depends on their verdict it is an input that may take any value. Preview and
person tracking only draw. Media encoders, drivers, serial ports and network
probing are steps that may fail. Search, schemas and authentication keep no state.
The web interface, launchers, audits and the virtual device are clients of the
API. Left out of modelled services: the purge of an isolated
mode and the trimming of builds and logs (retention), the planning of suites and marker
files (acceptance), schema migration (database), settings and read routes
(runtime), profiles and manifests of builds (firmware). `PROJECT.json` gives the
status of each component and the source lines behind each definition.
