------------------------------ MODULE Pipeline ------------------------------
(***************************************************************************)
(* CaptureWorker (services/vision/capture.py) and the evidence path of     *)
(* VisionEngine (engine.py): frames are captured, sampled by the vision    *)
(* thread, kept in a bounded ring, cut into the clip of a confirmed        *)
(* movement, extended by a post-roll and handed to the media worker, while *)
(* requests edit item profiles and stop the engine.                        *)
(*                                                                         *)
(* Abstractions.  A packet is its source session, sequence number and      *)
(* monotonic time; the pair (source_session_id, reconnect_epoch) is one    *)
(* number, since one engine changes both together.  There is one item, and *)
(* of its ItemMotionStateMachine (module Movement) only what it promises   *)
(* is kept: a baseline, whether an episode has begun, and a reset after a  *)
(* gap.  Byte limits count frames.  Acceptance runs are module Acceptance. *)
(***************************************************************************)
EXTENDS Integers, Sequences

CONSTANTS
    None,
    QueueSize,       \* capture_queue_size
    RingCapacity,    \* _ring_capacity: what the ring keeps of an idle scene
    RingMax,         \* _ring_max_bytes: what it keeps at most
    MaxGap,          \* max_frame_gap_seconds
    PostRoll,        \* post_seconds
    MaxPending,      \* _max_pending_events
    MediaSlots,      \* _media_job_capacity
    MaxSession, MaxTime, MaxEdits, MaxReloads   \* bounds of the exploration

ASSUME LimitsAssumption ==
    /\ QueueSize \in Nat \ {0} /\ RingCapacity \in Nat \ {0}
    /\ RingMax \in Nat /\ RingMax >= RingCapacity /\ MaxGap \in Nat \ {0}
    /\ PostRoll \in Nat /\ MaxPending \in Nat \ {0} /\ MediaSlots \in Nat \ {0}
ASSUME BoundsAssumption ==
    /\ MaxSession \in Nat /\ MaxTime \in Nat
    /\ MaxEdits \in Nat /\ MaxReloads \in Nat
ASSUME NoneAssumption == None \notin Nat

VARIABLES
    clock,      \* monotonic time of the last frame
    capture,    \* the capture thread: alive, its session, frames sent in it, and
                \* whether its source reports "error"
    queue,      \* LatestFrameQueue
    profile,    \* item profiles: stored, and as the engine has loaded them
    pruning,    \* reload_profiles still has to drop outdated pending events
    vision,     \* the vision thread: where it is, its frame and its session, and
                \* what Runtime.track has read for it
    ring,       \* the evidence ring
    machine,    \* the item's state machine
    pending,    \* confirmed movements that collect their post-roll
    jobs,       \* submitted to the media worker, in order; the first is running
    rows,       \* the rows of source_sessions, by session; None before the first track
    slots,      \* free media slots
    stop,       \* progress of Runtime.stop and VisionEngine.stop
    faulted     \* history: sessions for which a callback has read an engine in error

vars == <<clock, capture, queue, profile, pruning, vision, ring, machine,
          pending, jobs, rows, slots, stop, faulted>>
-----------------------------------------------------------------------------
Sessions == 1..MaxSession
Packets == [session : Sessions, sequence : Nat, time : Nat]
\* RingFrame; "identity" observes the profile version the frame was judged by.
RingFrames == [session : Sessions, sequence : Nat, time : Nat, identity : Nat]
Maybe(S) == S \cup {None}
Machines == [baseline : Maybe(Packets), moving : BOOLEAN, last : Maybe(Packets)]
NewMachine == [baseline |-> None, moving |-> FALSE, last |-> None]
\* _PendingEvent and the fields of its event that are read again.
Events == [photo : BOOLEAN, generation : Nat, version : Nat, from : Packets, upto : Packets,
           frames : Seq(RingFrames), maxFrames : Nat, finalizeAt : Nat]
Profiles == [stored : Nat, revision : Nat, applied : Nat, loaded : Nat, photo : BOOLEAN,
             waiting : Maybe([version : Nat, enable : BOOLEAN])]
\* A row of source_sessions: the frames it claims, and whether it is live and
\* continuous.  One that a stamp has made has no first frame, camera or start.
Rows == [first : Maybe(Nat), last : Nat, live : BOOLEAN]
\* A job: how far its callback is; "bound" if the health it read was of the
\* event's session, "last" the frame count and "well" the status it read with
\* it.  "sound" observes that the capture thread still worked on that session then.
Jobs == [event : Events, at : {"queued", "looked", "stamped", "valid"},
         bound : BOOLEAN, last : Nat, well : BOOLEAN, sound : BOOLEAN]
Job(e) == [event |-> e, at |-> "queued", bound |-> FALSE, last |-> 0, well |-> FALSE, sound |-> FALSE]
\* What Runtime.track reads before it saves: the engine's status, then the row.
Readings == [well : BOOLEAN, row : Maybe(Rows)]
Phases == {"waiting", "inferring", "judging", "finalizing", "emitting", "tracking", "saving", "done"}
StopPhases == {"no", "edited", "asked", "finalized", "shut", "closed"}

Last(s) == s[Len(s)]

Init ==
    /\ clock = 0
    /\ capture = [alive |-> TRUE, session |-> 1, sent |-> 0, error |-> FALSE]
    /\ queue = <<>>
    /\ profile = [stored |-> 1, revision |-> 0, applied |-> 0, loaded |-> 1,
                  photo |-> FALSE, waiting |-> None]
    /\ pruning = FALSE /\ faulted = {}
    /\ vision = [at |-> "waiting", frame |-> None, revision |-> 0, session |-> None, read |-> None]
    /\ ring = <<>> /\ machine = NewMachine /\ pending = <<>> /\ jobs = <<>>
    /\ rows = [s \in Sessions |-> None]
    /\ slots = MediaSlots /\ stop = "no"
-----------------------------------------------------------------------------
\* The capture thread.

\* put_latest makes room by dropping the oldest frame.
Latest(q, p) == IF Len(q) < QueueSize THEN Append(q, p) ELSE Append(Tail(q), p)

\* A frame without a discontinuity continues the session, however long the
\* reads before it returned nothing (fewer times than a reconnection takes).
CaptureFrame(pause) ==
    /\ capture.alive /\ clock + pause <= MaxTime
    /\ clock' = clock + pause
    /\ capture' = [capture EXCEPT !.sent = @ + 1, !.error = FALSE]
    /\ queue' = Latest(queue, [session |-> capture.session, sequence |-> capture.sent + 1, time |-> clock'])
    /\ UNCHANGED <<profile, pruning, vision, ring, machine, pending, jobs, rows, slots, stop, faulted>>

\* A reconnection, or a discontinuity the adapter reports before its next
\* frame: a new session with an empty queue.
BeginSourceSession ==
    /\ capture.alive /\ capture.session < MaxSession
    /\ capture' = [capture EXCEPT !.session = @ + 1, !.sent = 0, !.error = FALSE]
    /\ queue' = <<>>
    /\ UNCHANGED <<clock, profile, pruning, vision, ring, machine, pending, jobs, rows, slots,
                   stop, faulted>>

\* A read that the source reports as an error, or a reconnection that failed:
\* the thread goes on, in the same session until a reconnection succeeds.
SourceFails ==
    /\ capture.alive /\ ~capture.error
    /\ capture' = [capture EXCEPT !.error = TRUE]
    /\ UNCHANGED <<clock, queue, profile, pruning, vision, ring, machine, pending, jobs,
                   rows, slots, stop, faulted>>

\* An exception of the driver ends the thread and invalidates what is queued.
\* (The end of a video is a pause without end and a skipped frame.)
CaptureFails ==
    /\ capture.alive
    /\ capture' = [capture EXCEPT !.alive = FALSE, !.error = TRUE]
    /\ queue' = <<>>
    /\ UNCHANGED <<clock, profile, pruning, vision, ring, machine, pending, jobs, rows, slots,
                   stop, faulted>>
-----------------------------------------------------------------------------
\* Requests that edit profiles.

\* The registration of an item's photos is committed.
EditProfile ==
    /\ profile.stored <= MaxEdits
    /\ profile' = [profile EXCEPT !.stored = @ + 1]
    /\ UNCHANGED <<clock, capture, queue, pruning, vision, ring, machine, pending, jobs, rows,
                   slots, stop, faulted>>

\* reload_profiles: the engine shall load what is stored now; enable, once
\* asked for, is not forgotten by a later reload.
ReloadProfiles(enable) ==
    /\ ~pruning /\ profile.revision < MaxReloads
    /\ profile' = [profile EXCEPT !.revision = @ + 1,
                     !.waiting = [version |-> profile.stored,
                                  enable |-> enable \/ (@ # None /\ @.enable)]]
    /\ pruning' = TRUE
    /\ UNCHANGED <<clock, capture, queue, vision, ring, machine, pending, jobs, rows, slots,
                   stop, faulted>>

\* _event_profile_is_current
ProfileIsCurrent(e) ==
    e.photo => e.generation = profile.applied /\ e.generation = profile.revision

\* ... and drops the photo events of other generations that still collect.
PrunePending ==
    LET OfRevision(e) == e.photo => e.generation = profile.revision
    IN  /\ pruning
        /\ pruning' = FALSE
        /\ pending' = SelectSeq(pending, OfRevision)
        /\ UNCHANGED <<clock, capture, queue, profile, vision, ring, machine, jobs, rows, slots,
                       stop, faulted>>

-----------------------------------------------------------------------------
\* The vision thread.  _finalize submits what is due if its profile is
\* current, the executor open and a media slot free, and drops it otherwise.

\* For mutation: a closed executor still takes jobs.
MutantIsOpen == TRUE

IsOpen == stop \notin {"shut", "closed"}

\* The engine is the one Runtime.engines holds for the camera.
Registered == stop \in {"no", "edited"}

Submitted(due) ==
    LET current == SelectSeq(due, ProfileIsCurrent)
        count == IF ~IsOpen THEN 0 ELSE IF Len(current) < slots THEN Len(current) ELSE slots
    IN  [i \in 1..count |-> Job(current[i])]

FinalizeDue(events, time) ==
    LET Due(e) == time >= e.finalizeAt
        Waits(e) == ~Due(e)
        taken == Submitted(SelectSeq(events, Due))
    IN  /\ pending' = SelectSeq(events, Waits)
        /\ jobs' = jobs \o taken
        /\ slots' = slots - Len(taken)

Applied ==
    IF profile.waiting = None THEN profile
    ELSE [profile EXCEPT !.applied = profile.revision, !.loaded = profile.waiting.version,
                         !.photo = @ \/ profile.waiting.enable, !.waiting = None]

\* The head of _process: profile edits are applied, and an edited scene, a new
\* session, a new frame geometry or a moved camera view ends what was being
\* collected.  A scene edit waits for this step alone, so it is a choice here.
Changes == {"none", "scene", "geometry", "view"}

\* For mutation: a new session leaves the pending events alone.
MutantInterrupts(change, f) == change # "none"

Interrupts(change, f) ==
    change # "none" \/ (vision.session # None /\ f.session # vision.session)

\* For mutation: new profiles leave the machine alone.
MutantMachineFor(change, f) == IF Interrupts(change, f) THEN NewMachine ELSE machine

MachineFor(change, f) ==
    IF Interrupts(change, f) \/ profile.waiting # None THEN NewMachine ELSE machine

BeginFrame(change) ==
    LET f == Head(queue)
    IN  /\ vision.at = "waiting" /\ queue # <<>>
        /\ change \in {"geometry", "view"} => vision.session # None
        /\ queue' = Tail(queue)
        /\ profile' = Applied
        /\ vision' = [vision EXCEPT !.at = "inferring", !.frame = f, !.revision = Applied.applied,
                                    !.session = f.session]
        /\ pending' = IF Interrupts(change, f) THEN <<>> ELSE pending
        /\ machine' = MachineFor(change, f)
        /\ ring' = IF f.session # vision.session \/ change = "geometry" THEN <<>> ELSE ring
        /\ UNCHANGED <<clock, capture, pruning, jobs, rows, slots, stop, faulted>>

\* _run skips frames that come faster than inference_fps.
SkipFrame ==
    /\ vision.at = "waiting" /\ queue # <<>>
    /\ queue' = Tail(queue)
    /\ UNCHANGED <<clock, capture, profile, pruning, vision, ring, machine, pending, jobs, rows,
                   slots, stop, faulted>>

\* The loop reads the stop flag before it waits for the next frame.
Rest == [vision EXCEPT !.at = IF Registered THEN "waiting" ELSE "done", !.frame = None, !.read = None]

\* The profile changed during inference, or a detector raised.
AbandonFrame ==
    /\ vision.at = "inferring"
    /\ vision' = Rest
    /\ UNCHANGED <<clock, capture, queue, profile, pruning, ring, machine, pending, jobs, rows,
                   slots, stop, faulted>>

\* The trim loop of _append_ring: the frames from the origin of an open
\* episode on are kept beyond the capacity, but never beyond the maximum.
Fits(r) ==
    \/ Len(r) <= RingCapacity
    \/ /\ machine.moving /\ Len(r) <= RingMax
       /\ r[1].time >= machine.baseline.time \/ r[2].time > machine.baseline.time
Trimmed(r) ==
    LET From(k) == SubSeq(r, k + 1, Len(r))
    IN  From(CHOOSE k \in 0..Len(r) : Fits(From(k)) /\ \A j \in 0..(k - 1) : ~Fits(From(j)))

\* _append_pending: frames of another session, after a gap or beyond the clip's
\* limits reject the event instead of extending it.
Extends(e, f) ==
    /\ f.session = Last(e.frames).session
    /\ f.time - Last(e.frames).time <= MaxGap
    /\ Len(e.frames) < e.maxFrames /\ Len(e.frames) < RingMax
Extended(events, f) ==
    LET Accepts(e) == Extends(e, f)
        kept == SelectSeq(events, Accepts)
    IN  [i \in 1..Len(kept) |-> [kept[i] EXCEPT !.frames = Append(@, f)]]

\* The frame joins the ring and the clips that wait for it; those that are
\* complete are submitted.
SettleFrame ==
    LET p == vision.frame
        f == [session |-> p.session, sequence |-> p.sequence, time |-> p.time, identity |-> profile.loaded]
    IN  /\ vision.at = "inferring" /\ vision.revision = profile.revision
        /\ ring' = Trimmed(Append(ring, f))
        /\ FinalizeDue(Extended(pending, f), p.time)
        /\ vision' = [vision EXCEPT !.at = "judging"]
        /\ UNCHANGED <<rows, clock, capture, queue, profile, pruning, machine, stop, faulted>>

\* The machine as it meets this frame: a gap since the last one resets it.
Met ==
    IF machine.last # None /\ vision.frame.time - machine.last.time > MaxGap THEN NewMachine ELSE machine
RestingAt(p) == [baseline |-> p, moving |-> FALSE, last |-> p]

\* The item rests here, is lost, is kept in mind, or a movement begins.
Outcomes ==
    {NewMachine, RestingAt(vision.frame)}
    \cup (IF Met.baseline = None THEN {}
          ELSE [baseline : {Met.baseline}, moving : {Met.moving, TRUE}, last : {vision.frame}])

\* _emit_track and _emit_missing_track: the track of an item that is seen, or
\* kept in mind, goes to Runtime.track; that of a lost one only if it has a
\* verified sighting.  The throttle lets every frame of the vision rate pass.
Emitted(m) == IF m.last = None THEN BOOLEAN ELSE {TRUE}

\* VisionEngine.health: the status is "error" if that of the source is; while
\* the vision thread runs no other state of the source shows.
Healthy == ~capture.error

\* Runtime.track drops the track of an engine that is no longer registered or
\* whose camera was edited, reads the health of another one, ...
ReportTrack ==
    IF stop = "no"
    THEN /\ vision' = [vision EXCEPT !.at = "tracking", !.read = [well |-> Healthy, row |-> None]]
         /\ faulted' = IF Healthy THEN faulted ELSE faulted \cup {vision.frame.session}
    ELSE vision' = Rest /\ UNCHANGED faulted

\* ... reads the session's row ...
ReadRow ==
    /\ vision.at = "tracking"
    /\ vision' = [vision EXCEPT !.at = "saving", !.read.row = rows[vision.frame.session]]
    /\ UNCHANGED <<clock, capture, queue, profile, pruning, ring, machine, pending, jobs, rows,
                   slots, stop, faulted>>

\* ... and saves: the first track of a session makes its row and seals those
\* of the older ones; a later one moves its end and keeps a loss of continuity.
Sealed(p) ==
    [s \in Sessions |-> IF s # p.session /\ rows[s] # None THEN [rows[s] EXCEPT !.live = FALSE]
                         ELSE rows[s]]
Tracked(p, read) ==
    IF read.row = None
    THEN [Sealed(p) EXCEPT ![p.session] = [first |-> p.sequence, last |-> p.sequence, live |-> read.well]]
    ELSE [rows EXCEPT ![p.session] = [first |-> @.first, last |-> p.sequence,
                                      live |-> read.row.live /\ read.well]]
SaveRow ==
    /\ vision.at = "saving"
    /\ rows' = Tracked(vision.frame, vision.read)
    /\ vision' = Rest
    /\ UNCHANGED <<clock, capture, queue, profile, pruning, ring, machine, pending, jobs, slots,
                   stop, faulted>>

JudgeFrame ==
    /\ vision.at = "judging"
    /\ machine' \in Outcomes
    /\ \E emitted \in Emitted(machine') :
          IF emitted THEN ReportTrack ELSE vision' = Rest /\ UNCHANGED faulted
    /\ UNCHANGED <<clock, capture, queue, profile, pruning, ring, pending, jobs, rows, slots, stop>>

\* _queue_event selects the clip by its source facts and refuses one whose end
\* points or whose continuity the ring cannot show.
Clip(from, upto) ==
    LET Within(f) == f.session = upto.session /\ f.sequence \in from.sequence..upto.sequence
    IN  SelectSeq(ring, Within)
Continuous(clip, from, upto) ==
    /\ Len(clip) >= 2
    /\ clip[1].sequence = from.sequence /\ Last(clip).sequence = upto.sequence
    /\ \A i \in 1..(Len(clip) - 1) :
           /\ clip[i].sequence < clip[i + 1].sequence
           /\ clip[i + 1].time - clip[i].time \in 1..MaxGap
ConfirmedEvent(clip, from, upto) ==
    [photo |-> profile.photo, generation |-> profile.applied, version |-> profile.loaded,
     from |-> from, upto |-> upto, frames |-> clip,
     maxFrames |-> Len(clip) + (IF profile.photo THEN 1 ELSE PostRoll + 1),
     finalizeAt |-> upto.time + (IF profile.photo THEN 0 ELSE PostRoll)]

\* The machine confirms a movement.  A photo item's release was observed for
\* long enough, so its event is due at once.
ConfirmMovement ==
    LET p == vision.frame
        clip == Clip(Met.baseline, p)
        queued == Continuous(clip, Met.baseline, p) /\ Len(pending) < MaxPending
    IN  /\ vision.at = "judging" /\ Met.moving
        /\ machine' = RestingAt(p)
        /\ pending' = IF queued THEN Append(pending, ConfirmedEvent(clip, Met.baseline, p)) ELSE pending
        /\ IF queued /\ (profile.photo \/ PostRoll = 0)
           THEN vision' = [vision EXCEPT !.at = "finalizing"] /\ UNCHANGED faulted
           ELSE ReportTrack
        /\ UNCHANGED <<clock, capture, queue, profile, pruning, ring, jobs, rows, slots, stop>>

FinalizeFrame ==
    /\ vision.at = "finalizing"
    /\ FinalizeDue(pending, vision.frame.time)
    /\ vision' = [vision EXCEPT !.at = "emitting"]
    /\ UNCHANGED <<clock, capture, queue, profile, pruning, ring, machine, rows, stop, faulted>>

\* The track of that frame follows its event.
EmitFrame ==
    /\ vision.at = "emitting"
    /\ ReportTrack
    /\ UNCHANGED <<clock, capture, queue, profile, pruning, ring, machine, pending, jobs, rows,
                   slots, stop>>

\* The stop flag is read when no frame arrives.
VisionEnds ==
    /\ vision.at = "waiting" /\ queue = <<>> /\ ~Registered
    /\ vision' = Rest
    /\ UNCHANGED <<clock, capture, queue, profile, pruning, ring, machine, pending, jobs, rows,
                   slots, stop, faulted>>
-----------------------------------------------------------------------------
\* The media worker: one job at a time; its slot is free when it ends.

\* For mutation: a job that ends keeps its slot.
MutantEndJob == jobs' = Tail(jobs) /\ slots' = slots

EndJob == jobs' = Tail(jobs) /\ slots' = slots + 1

\* The job moves on; nothing else does.
Moves(job) ==
    /\ jobs' = [jobs EXCEPT ![1] = job]
    /\ UNCHANGED <<clock, capture, queue, profile, pruning, vision, ring, machine, pending,
                   slots, stop>>

\* _persist_event checks the profile; the callback reads the engine's health:
\* its status, and the session the vision thread works on (or, before its first
\* frame, that of the capture thread) with the frame count of the capture thread.
LookAtHealth ==
    /\ Registered
    /\ jobs # <<>> /\ jobs[1].at = "queued" /\ ProfileIsCurrent(jobs[1].event)
    /\ LET session == jobs[1].event.from.session
           active == IF vision.session = None THEN capture.session ELSE vision.session
       IN  /\ Moves([jobs[1] EXCEPT !.at = "looked", !.bound = (session = active),
                                    !.last = IF session = active THEN capture.sent ELSE 0,
                                    !.well = Healthy,
                                    !.sound = (session = active /\ session = capture.session)])
           /\ faulted' = IF Healthy THEN faulted ELSE faulted \cup {session}
    /\ UNCHANGED rows

\* The engine left the registry after the callback's first look at it: nothing
\* is stamped, and nothing says that the session has changed.
MissEngine ==
    /\ ~Registered
    /\ jobs # <<>> /\ jobs[1].at = "queued" /\ ProfileIsCurrent(jobs[1].event)
    /\ Moves([jobs[1] EXCEPT !.at = "stamped", !.bound = TRUE])
    /\ UNCHANGED <<rows, faulted>>

\* For mutation: the callback leaves the row to the tracks.
MutantStamped(job) == rows
\* The end it read is saved in the row, which is live again if the engine was
\* not in error; db.save makes a row that is missing, with nothing else in it.
Stamped(job) ==
    LET s == job.event.from.session
    IN  IF ~job.bound THEN rows
        ELSE [rows EXCEPT ![s] = [first |-> IF @ = None THEN None ELSE @.first,
                                  last |-> job.last, live |-> job.well]]
StampRow ==
    /\ jobs # <<>> /\ jobs[1].at = "looked"
    /\ rows' = Stamped(jobs[1])
    /\ Moves([jobs[1] EXCEPT !.at = "stamped"])
    /\ UNCHANGED faulted

\* The evidence gate of EventService, as far as it reads what others write: the
\* event is of a live session whose engine has not moved on, ...
SessionBound(job) ==
    LET e == job.event  row == rows[e.from.session]
    IN  /\ job.bound /\ row # None /\ row.live /\ row.first # None
        /\ row.first <= e.from.sequence /\ e.from.sequence < e.upto.sequence
        /\ e.upto.sequence <= row.last
\* ... every frame of its clip too, in order and without a gap, ...
SourceBound(e) ==
    LET row == rows[e.from.session]
    IN  /\ \A i \in 1..Len(e.frames) :
              e.frames[i].session = e.from.session /\ e.frames[i].sequence \in row.first..row.last
        /\ \A i \in 1..(Len(e.frames) - 1) :
              /\ e.frames[i].sequence < e.frames[i + 1].sequence
              /\ e.frames[i + 1].time - e.frames[i].time \in 1..MaxGap
\* ... with key frames at both ends of the movement, ...
KeyframesBound(e) ==
    /\ e.frames[1].sequence = e.from.sequence
    /\ \E i \in 2..Len(e.frames) : e.frames[i].sequence = e.upto.sequence
\* ... and a photo item is still the one that was recognised.
IdentityCurrent(e) == e.photo => e.version = profile.stored

GateOpen(job) ==
    SessionBound(job) /\ SourceBound(job.event) /\ KeyframesBound(job.event) /\ IdentityCurrent(job.event)

PassGate ==
    /\ jobs # <<>> /\ jobs[1].at = "stamped" /\ GateOpen(jobs[1])
    /\ Moves([jobs[1] EXCEPT !.at = "valid"])
    /\ UNCHANGED <<rows, faulted>>

\* An outdated profile, an engine no longer registered, a gate that refuses, or
\* a check or a save of its own data that fails.
FailJob ==
    /\ jobs # <<>>
    /\ jobs[1].at = "queued" => ~Registered \/ ~ProfileIsCurrent(jobs[1].event)
    /\ EndJob
    /\ UNCHANGED <<clock, capture, queue, profile, pruning, vision, ring, machine, pending,
                   rows, stop, faulted>>

\* For mutation: the transaction does not compare the stored profile.
MutantCommitGuard(e) == (e.photo => Registered) /\ ProfileIsCurrent(e)

\* The commit of a photo item's event holds the profile lock, looks the engine
\* up again and compares the stored profile in its transaction.
CommitGuard(e) == (e.photo => Registered) /\ ProfileIsCurrent(e) /\ IdentityCurrent(e)
CommitJob ==
    /\ jobs # <<>> /\ jobs[1].at = "valid" /\ CommitGuard(jobs[1].event)
    /\ EndJob
    /\ UNCHANGED <<clock, capture, queue, profile, pruning, vision, ring, machine, pending,
                   rows, stop, faulted>>
-----------------------------------------------------------------------------
\* VisionEngine.stop.  Its joins give up after seconds, so no step waits for
\* the capture or the vision thread; the shutdown of the executor waits for
\* the jobs.

StopStep(from, to) ==
    /\ stop = from /\ stop' = to
    /\ UNCHANGED <<clock, profile, pruning, vision, ring, machine, jobs, rows, slots, faulted>>
\* patch_camera saves another source and then has the engine stopped.
EditCamera == StopStep("no", "edited") /\ UNCHANGED <<capture, queue, pending>>
\* Runtime.stop takes the engine out of the registry before it stops it.
AskStop == (\E from \in {"no", "edited"} : StopStep(from, "asked")) /\ UNCHANGED <<capture, queue, pending>>
\* capture.stop clears the queue, _finalize_all drops what still collects.
StopFinalize == StopStep("asked", "finalized") /\ queue' = <<>> /\ pending' = <<>> /\ UNCHANGED capture
StopShut == StopStep("finalized", "shut") /\ UNCHANGED <<capture, queue, pending>>
StopClose == jobs = <<>> /\ StopStep("shut", "closed") /\ UNCHANGED <<capture, queue, pending>>

Next ==
    \/ (\E pause \in 1..(MaxGap + 1) : CaptureFrame(pause)) \/ BeginSourceSession \/ SourceFails \/ CaptureFails
    \/ EditProfile \/ (\E enable \in BOOLEAN : ReloadProfiles(enable)) \/ PrunePending
    \/ (\E change \in Changes : BeginFrame(change)) \/ SkipFrame \/ AbandonFrame \/ SettleFrame
    \/ JudgeFrame \/ ConfirmMovement \/ FinalizeFrame \/ EmitFrame \/ ReadRow \/ SaveRow \/ VisionEnds
    \/ LookAtHealth \/ MissEngine \/ StampRow \/ PassGate \/ FailJob \/ CommitJob
    \/ EditCamera \/ AskStop \/ StopFinalize \/ StopShut \/ StopClose

Spec == Init /\ [][Next]_vars
-----------------------------------------------------------------------------
TypeOK ==
    /\ clock \in Nat /\ capture \in [alive : BOOLEAN, session : Sessions, sent : Nat, error : BOOLEAN]
    /\ queue \in Seq(Packets) /\ profile \in Profiles /\ pruning \in BOOLEAN
    /\ vision \in [at : Phases, frame : Maybe(Packets), revision : Nat, session : Maybe(Sessions),
                   read : Maybe(Readings)]
    /\ ring \in Seq(RingFrames) /\ machine \in Machines /\ pending \in Seq(Events)
    /\ jobs \in Seq(Jobs) /\ rows \in [Sessions -> Maybe(Rows)] /\ slots \in Nat
    /\ stop \in StopPhases /\ faulted \subseteq Sessions

\* What a clip promises: the frames of one session, without a gap, from the
\* frame of the origin to that of the destination, and for a tagged item the
\* whole post-roll; all frames of a photo item were judged by one profile.
ClipUnbroken(e) ==
    LET clip == e.frames
    IN  /\ clip[1].sequence = e.from.sequence /\ clip[1].session = e.from.session
        /\ \E i \in 2..Len(clip) : clip[i].sequence = e.upto.sequence
        /\ \A i \in 1..(Len(clip) - 1) :
               /\ clip[i].session = clip[i + 1].session
               /\ clip[i].sequence < clip[i + 1].sequence
               /\ clip[i + 1].time - clip[i].time \in 1..MaxGap
        /\ e.photo \/ Last(clip).time >= e.upto.time + PostRoll
ClipOfOneIdentity(e) == e.photo => \A i \in 1..Len(e.frames) : e.frames[i].identity = e.version

\* Whatever reaches the media worker keeps the promise of _queue_event and
\* _append_pending, whichever reconnections, drops, edits and gaps came between.
EvidenceUnbroken ==
    \A i \in 1..Len(jobs) : ClipUnbroken(jobs[i].event) /\ ClipOfOneIdentity(jobs[i].event)

\* _switch_source_session: what collects its post-roll belongs to the session
\* the vision thread works on.
PendingOfSession ==
    \A i \in 1..Len(pending) : Last(pending[i].frames).session = vision.session

\* _finalize and _media_done: no job keeps or loses a slot.
SlotsBalanced == slots + Len(jobs) = MediaSlots

\* The row of a session, which the vision thread and the media worker both
\* read and then write, never has the gate refuse good evidence: while both
\* threads are in the event's session the row covers its clip and is continuous,
\* however tracks and stamps cross - unless a callback has read an engine in
\* error in that session, or tracks are dropped before it has a row.
GoodEvidencePasses ==
    \A i \in 1..Len(jobs) :
        LET e == jobs[i].event
        IN  /\ jobs[i].at = "stamped" /\ jobs[i].sound /\ vision.session = e.from.session
            /\ IdentityCurrent(e) /\ e.from.session \notin faulted
            /\ \/ stop = "no"
               \/ rows[e.from.session] # None /\ rows[e.from.session].first # None
            => GateOpen(jobs[i])

\* What is under way is accounted for.
UnderWay == TypeOK /\ PendingOfSession /\ SlotsBalanced /\ GoodEvidencePasses

\* photo_commit_guard and the transaction of EventService: an event of a photo
\* item is committed only while the profile all its frames were judged by is
\* the stored one and no reload is waiting.
CommittedCurrent ==
    [][CommitJob /\ jobs[1].event.photo =>
           /\ profile.waiting = None
           /\ \A i \in 1..Len(jobs[1].event.frames) : jobs[1].event.frames[i].identity = profile.stored]_vars

\* VisionEngine.stop returns with nothing under way, and a vision thread it
\* gave up on can no longer have anything committed.
SealedWhenStopped == [][stop = "closed" => UNCHANGED <<jobs, slots>>]_vars
=============================================================================
