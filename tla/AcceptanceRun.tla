---------------------------- MODULE AcceptanceRun ----------------------------
(***************************************************************************)
(* One validation trial as the vision side judges it: AcceptanceRun of     *)
(* services/vision/acceptance.py, fed with frames by the vision thread of  *)
(* VisionEngine, with the evidence ring its clip is cut from, the pending  *)
(* event that collects the post-roll, the media worker that stores it, and *)
(* requests that arm and cancel the trial or stop the engine.              *)
(*                                                                         *)
(* Abstractions.  The marker is in one of a few places, each small enough  *)
(* to count as stable and far enough from every other to count as a        *)
(* movement: some in the origin zone, some in the destination, one outside *)
(* both.  The trials that expect no movement have the origin as their      *)
(* destination, as every suite has.  The capture status that the engine    *)
(* monitors is another thread's and may be anything.  Time is counted in   *)
(* ticks, and a frame's sequence number grows with its time.               *)
(***************************************************************************)
EXTENDS Integers, Sequences

CONSTANTS
    None,
    Kinds,            \* trial_kind
    OriginZone, DestinationPlaces,  \* where the marker may rest in the two zones
    OriginFrames, DestinationFrames, ExitFrames, TransitFrames,
    StableTicks,      \* min_stable_seconds
    MaxGap,           \* max_frame_gap_seconds
    OcclusionTicks,   \* occlusion_seconds
    AbortTicks,       \* abort_lost_seconds
    RunTicks,         \* max_run_seconds
    TrialTicks,       \* minimum_duration_seconds of a trial that ends by time
    Samples,          \* how many samples are kept of a zone
    PreTicks, PostTicks,   \* ACCEPTANCE_PRE_SECONDS, ACCEPTANCE_POST_SECONDS
    RingCapacity, RingMax, \* frames the ring keeps of an idle scene, and at most
    MaxArm, MaxTime, MaxSession    \* bounds of the exploration

\* The trials that end by time; of them alone minimum_duration_seconds is used.
Timed == {"stationary", "minor_adjustment", "occlusion"}
ValidKinds == Kinds \subseteq Timed \cup {"movement", "disconnect_reconnect"}
\* What the engine parses the configuration of a trial into, or refuses it.
ValidThresholds ==
    /\ {OriginFrames, DestinationFrames, ExitFrames, TransitFrames, Samples} \subseteq Nat \ {0}
    /\ {StableTicks, OcclusionTicks, AbortTicks} \subseteq Nat /\ OcclusionTicks < AbortTicks
    /\ {MaxGap, RunTicks} \subseteq Nat \ {0}
ValidDuration == TrialTicks \in Nat /\ (Kinds \cap Timed # {} => TrialTicks > 0)
\* A zone has places in the picture; those of a movement differ.
ValidZone(zone) == zone # {}
ValidConfig ==
    /\ ValidKinds /\ ValidThresholds /\ ValidDuration
    /\ ValidZone(OriginZone) /\ ValidZone(DestinationPlaces)
    /\ "movement" \in Kinds => OriginZone # DestinationPlaces
\* What the service freezes in a suite before that: rest takes two frames and
\* some time, a zone lies inside the picture, and no place is in two zones.
FrozenThresholds ==
    /\ OriginFrames >= 2 /\ DestinationFrames >= 2 /\ StableTicks > 0
    /\ OcclusionTicks < AbortTicks
FrozenZone(zone) == zone # {} /\ zone \cap {None, "between", "lost"} = {}
FrozenZones ==
    /\ FrozenZone(OriginZone) /\ FrozenZone(DestinationPlaces)
    /\ OriginZone \cap DestinationPlaces = {}

ASSUME ConfigAssumption == ValidConfig /\ FrozenThresholds /\ FrozenZones
ASSUME EngineAssumption ==
    {PreTicks, PostTicks, RingCapacity, RingMax} \subseteq Nat \ {0} /\ RingCapacity <= RingMax
ASSUME BoundsAssumption == MaxArm \in Nat /\ MaxTime \in Nat /\ MaxSession \in Nat \ {0}
ASSUME NoneAssumption == None \notin Nat /\ None \notin STRING

VARIABLES
    kind,      \* the trial's kind
    clock,     \* monotonic time
    session,   \* _active_source_session
    ring,      \* times of the frames in the evidence ring, all of this session
    arming,    \* arm_acceptance has seen this session and not armed the trial yet
    run,       \* the AcceptanceRun, None before it is armed
    pending,   \* its event while the post-roll is collected
    job,       \* its event while the media worker stores it
    phase,     \* the vision thread: waiting for a frame, or extending pending events
    stop,      \* progress of VisionEngine.stop
    still,     \* observer: where the marker is, since when and for how many frames
    seen       \* observer: what happened in the trial so far

vars == <<kind, clock, session, ring, arming, run, pending, job, phase, stop, still, seen>>
-----------------------------------------------------------------------------
Maybe(S) == S \cup {None}
DestinationZone == IF kind = "movement" THEN DestinationPlaces ELSE OriginZone
Places == OriginZone \cup DestinationZone \cup {"between", "lost"}
Sample == [time : Nat, place : Places]
States == {"stable", "started", "transit", "stabilizing", "occluded",
           "confirmed", "aborted", "interrupted"}
Runs == [session : 1..MaxSession, state : States, done : BOOLEAN, count : 0..1,
         first : Maybe(Nat), updated : Nat, framed : BOOLEAN,
         origin : Seq(Sample), destination : Seq(Sample), path : Seq(Sample),
         baseline : Maybe(Places), before : Maybe(Nat), exits : Nat, candidate : Maybe(Nat),
         started : Maybe(Nat), transit : Nat, lostSince : Maybe(Nat), lost : BOOLEAN,
         occlusion : BOOLEAN, confirmedAt : Maybe(Nat)]
Clips == [frames : Seq(Nat), first : Nat, before : Nat, started : Nat, confirmedAt : Nat, last : Nat]

NewRun(s) ==
    [session |-> s, state |-> "stable", done |-> FALSE, count |-> 0,
     first |-> None, updated |-> clock, framed |-> FALSE,
     origin |-> <<>>, destination |-> <<>>, path |-> <<>>,
     baseline |-> None, before |-> None, exits |-> 0, candidate |-> None,
     started |-> None, transit |-> 0, lostSince |-> None, lost |-> FALSE,
     occlusion |-> FALSE, confirmedAt |-> None]

Last(s) == s[Len(s)]
\* What of a trial's frames its end is judged by.
Facts == CASE kind = "movement" -> {"between"}
           [] kind = "occlusion" -> {"occluded"}
           [] OTHER -> {"lost", "moved"}
Nowhere == [place |-> None, since |-> 0, count |-> 0]
Least(a, b) == IF a < b THEN a ELSE b
Greatest(a, b) == IF a > b THEN a ELSE b
Recent(s, n) == SubSeq(s, Greatest(1, Len(s) - n + 1), Len(s))

Terminal(r) == r.done \/ r.state \in {"confirmed", "aborted", "interrupted"}
\* Confirmed, and the event neither stored nor called off.
Undecided(r) == r.state = "confirmed" /\ r.count = 0
MutantOpen(r) == r # None => ~Terminal(r)
Open(r) == r # None => ~Terminal(r) \/ Undecided(r)
\* Of a trial that is over nothing but its outcome is read again.
Over(r, state) == [NewRun(r.session) EXCEPT !.state = state, !.updated = 0]
Interrupted(r) == IF r # None /\ Open(r) THEN Over(r, "interrupted") ELSE r
Cancelled(r) == IF r # None /\ Open(r) THEN Over(r, "aborted") ELSE r

Init ==
    /\ kind \in Kinds
    /\ clock = 0 /\ session = 1 /\ ring = <<0>>
    /\ arming = None /\ run = None /\ pending = None /\ job = None
    /\ phase = "waiting" /\ stop = "no"
    /\ still = Nowhere /\ seen = {}
-----------------------------------------------------------------------------
\* AcceptanceRun.observe: one frame of the trial at time now.

\* The most recent samples rest in one place, long and often enough.
Rests(samples, frames) ==
    \E i \in 1..(Len(samples) - frames + 1) :
        /\ Last(samples).time - samples[i].time >= StableTicks
        /\ \A j \in i..Len(samples) : samples[j].place = Last(samples).place

\* A trial that expects no movement ends well when its time is over.
MutantCompletes(r, now) ==
    r.first # None /\ now - r.first >= TrialTicks /\ r.baseline # None /\ kind # "movement"
Completes(r, now) ==
    /\ r.first # None /\ now - r.first >= TrialTicks
    /\ r.baseline # None
    /\ \/ kind \in {"stationary", "minor_adjustment"} /\ ~r.lost /\ r.started = None
       \/ kind = "occlusion" /\ r.occlusion
Completed(r, now) == IF Completes(r, now) THEN [Over(r, r.state) EXCEPT !.done = TRUE] ELSE r

OnPath(r, sample) == IF r.baseline = None THEN r ELSE [r EXCEPT !.path = Recent(Append(@, sample), OriginFrames)]

MutantMissed(r, now) == [r EXCEPT !.lost = TRUE]
\* The marker is not seen: no sample before this frame counts any more.
Missed(r, now) ==
    LET since == IF r.lostSince = None THEN now ELSE r.lostSince
        gone  == OnPath([r EXCEPT !.origin = <<>>, !.destination = <<>>, !.exits = 0, !.candidate = None,
                           !.transit = IF @ < TransitFrames THEN 0 ELSE @,
                           !.lostSince = since, !.lost = TRUE,
                           !.occlusion = @ \/ now - since >= OcclusionTicks],
                        [time |-> now, place |-> "lost"])
    IN CASE kind = "occlusion" /\ Completes(gone, now) -> Completed(gone, now)
         [] kind # "occlusion" /\ now - since >= AbortTicks -> Cancelled(gone)
         [] now - since < OcclusionTicks -> gone
         [] OTHER -> [gone EXCEPT !.state = "occluded"]

\* The origin becomes the baseline once the marker has rested in it.
Calibrated(r, now, place) ==
    LET samples == Recent(Append(r.origin, [time |-> now, place |-> place]), Samples)
    IN IF place \notin OriginZone THEN [r EXCEPT !.origin = <<>>]
       ELSE IF ~Rests(samples, OriginFrames) THEN [r EXCEPT !.origin = samples]
       ELSE [r EXCEPT !.origin = <<>>, !.baseline = place, !.before = now, !.state = "stable"]

\* In the origin zone: nothing has begun yet, or the marker has come back.
AtOrigin(r, now) ==
    LET here == [r EXCEPT !.exits = 0, !.candidate = None, !.destination = <<>>]
        back == /\ Len(r.path) >= OriginFrames
                /\ \A i \in 1..Len(r.path) : r.path[i].place = Last(r.path).place
                /\ Last(r.path).time - r.path[1].time >= StableTicks
    IN IF r.started = None THEN Completed([here EXCEPT !.before = now], now)
       ELSE IF back THEN Cancelled(here) ELSE here

\* Outside the origin zone for the exits-th frame in a row.
Leaving(r, now) ==
    [r EXCEPT !.exits = Least(@ + 1, ExitFrames), !.candidate = IF r.exits = 0 THEN now ELSE @]
\* A movement starts with the first of them, if enough of the past is kept.
Departed(r, held) ==
    IF r.started # None THEN r
    ELSE IF held < PreTicks THEN Cancelled(r)
    ELSE [r EXCEPT !.started = r.candidate, !.state = "started"]
Travels(r) ==
    LET n == Least(r.transit + 1, TransitFrames)
    IN [r EXCEPT !.transit = n, !.destination = <<>>, !.state = IF n = TransitFrames THEN "transit" ELSE @]
MutantArrives(r, now, place) ==
    LET samples == Recent(Append(r.destination, [time |-> now, place |-> place]), Samples)
    IN IF ~Rests(samples, DestinationFrames) THEN [r EXCEPT !.destination = samples, !.state = "stabilizing"]
       ELSE [r EXCEPT !.destination = samples, !.state = "confirmed", !.confirmedAt = now]
Arrives(r, now, place) ==
    LET samples == Recent(Append(r.destination, [time |-> now, place |-> place]), Samples)
    IN IF r.transit < TransitFrames THEN r
       ELSE IF ~Rests(samples, DestinationFrames) THEN [r EXCEPT !.destination = samples, !.state = "stabilizing"]
       ELSE IF kind # "movement" THEN Cancelled(r)
       ELSE [r EXCEPT !.destination = samples, !.state = "confirmed", !.confirmedAt = now]
Outside(r, now, place, held) ==
    LET away == Leaving(r, now)
        gone == Departed(away, held)
    IN IF away.started = None /\ away.exits < ExitFrames THEN away
       ELSE IF Terminal(gone) THEN gone
       ELSE IF place \in DestinationZone THEN Arrives(gone, now, place) ELSE Travels(gone)

\* The frame shows the marker in a place.
Met(r, now, place, held) ==
    LET found == OnPath([r EXCEPT !.lostSince = None], [time |-> now, place |-> place])
    IN IF r.baseline = None THEN Completed(Calibrated(found, now, place), now)
       ELSE IF kind \in {"stationary", "minor_adjustment"} /\ place # r.baseline THEN Cancelled(found)
       ELSE IF place \in OriginZone THEN AtOrigin(found, now)
       ELSE Outside(found, now, place, held)

\* Frames of another session, after a gap, or from a wall clock set back.
Broken(r, now, setBack) ==
    \/ r.session # session
    \/ r.framed /\ (now - r.updated > MaxGap \/ setBack)
MaxRun == Greatest(RunTicks, (IF kind \in {"movement", "disconnect_reconnect"} THEN 0 ELSE TrialTicks) + MaxGap)

Observed(r, now, place, setBack, held) ==
    LET first  == IF r.first = None THEN now ELSE r.first
        framed == [r EXCEPT !.first = first, !.framed = TRUE, !.updated = now]
    IN IF Terminal(r) THEN r
       ELSE IF Broken(r, now, setBack) THEN Interrupted(r)
       ELSE IF now - first > MaxRun THEN Cancelled([r EXCEPT !.first = first])
       ELSE IF place = "lost" THEN Missed(framed, now)
       ELSE Met(framed, now, place, held)

\* observe_postroll: a confirmed trial only checks that its frames continue.
PostRolled(r, now, setBack) ==
    IF Broken(r, now, setBack) THEN Interrupted(r) ELSE [r EXCEPT !.updated = now]
-----------------------------------------------------------------------------
\* The evidence ring: the pre-roll of a movement that has begun is kept.
Protected(r) == r # None /\ (r.started # None \/ r.candidate # None) /\ r.count = 0
                /\ r.state \notin {"aborted", "interrupted"}
Cutoff(r) == (IF r.started # None THEN r.started ELSE r.candidate) - PreTicks
MutantFits(frames, r) ==
    \/ Len(frames) <= RingCapacity
    \/ /\ Protected(r)
       /\ frames[1] >= Cutoff(r) \/ frames[2] > Cutoff(r)
Fits(frames, r) ==
    \/ Len(frames) <= RingCapacity
    \/ /\ Protected(r) /\ Len(frames) <= RingMax
       /\ frames[1] >= Cutoff(r) \/ frames[2] > Cutoff(r)
Trimmed(frames, r) ==
    LET kept == CHOOSE i \in 1..Len(frames) :
                   /\ Fits(SubSeq(frames, i, Len(frames)), r)
                   /\ \A j \in 1..(i - 1) : ~Fits(SubSeq(frames, j, Len(frames)), r)
    IN SubSeq(frames, kept, Len(frames))
Held(frames) == Last(frames) - frames[1]

\* _enqueue_acceptance_event_locked: the clip begins with the last frame
\* before the pre-roll does, and holds the frame that shows the stable origin.
MutantFirstOfClip(frames, r) == {1}
FirstOfClip(frames, r) ==
    {i \in 1..Len(frames) : frames[i] <= r.started - PreTicks /\
                            \A j \in (i + 1)..Len(frames) : frames[j] > r.started - PreTicks}
Clip(frames, i) == SubSeq(frames, i, Len(frames))
ClipStarts(frames, r) == {i \in FirstOfClip(frames, r) : \E j \in i..Len(frames) : frames[j] = r.before}
\* The event of a movement confirmed in this frame.
Enqueue(frames, i, r) ==
    [frames |-> Clip(frames, i), first |-> r.first, before |-> r.before, started |-> r.started,
     confirmedAt |-> r.confirmedAt, last |-> r.confirmedAt]

\* A bound: what follows a decided trial is explored only while an event of it
\* is left.
Explored == run = None \/ Open(run) \/ pending # None \/ job # None

\* One frame of the current session reaches the vision thread.
ObserveFrame(place, setBack, room) ==
    LET now    == clock
        frames == Trimmed(Append(ring, now), run)
        judged == IF run = None THEN run
                  ELSE IF Undecided(run) THEN PostRolled(run, now, setBack)
                  ELSE Observed(run, now, place, setBack, Held(frames))
        starts == IF judged # None /\ judged.confirmedAt = now THEN ClipStarts(frames, judged) ELSE {}
        queued == starts # {} /\ room
    IN /\ phase = "waiting" /\ stop = "no" /\ Last(ring) < now /\ now <= MaxTime /\ Explored
       /\ ring' = frames /\ phase' = "extending"
       /\ pending' = IF queued THEN Enqueue(frames, CHOOSE i \in starts : TRUE, judged)
                     ELSE pending
       /\ run' = IF judged # None /\ judged.confirmedAt = now /\ ~queued THEN Interrupted(judged) ELSE judged
       /\ LET go == still.place = place /\ now - Last(ring) <= MaxGap
              since == IF go THEN still.since ELSE now
          IN /\ still' = IF run = None \/ Terminal(run) THEN Nowhere ELSE [place |-> place, since |-> since,
                          count |-> IF go THEN Least(still.count + 1, Greatest(OriginFrames, DestinationFrames)) ELSE 1]
             /\ seen' = IF run = None \/ Terminal(run) THEN seen
                        ELSE seen \cup {fact \in Facts :
                               CASE fact = "lost" -> place = "lost"
                                 [] fact = "occluded" -> place = "lost" /\ now - since >= OcclusionTicks
                                 [] fact = "between" -> place = "between" /\ run.baseline # None
                                 [] fact = "moved" -> run.baseline \notin {None, place} /\ place # "lost"}
       /\ UNCHANGED <<kind, clock, session, arming, job, stop>>

\* _switch_source_session: what belongs to the old session is called off.
SwitchSession ==
    /\ phase = "waiting" /\ stop = "no" /\ session < MaxSession /\ Explored
    /\ Last(ring) < clock /\ clock <= MaxTime /\ session' = session + 1
    /\ run' = Interrupted(run) /\ pending' = None /\ ring' = <<clock>>
    /\ phase' = "extending" /\ still' = Nowhere
    /\ UNCHANGED <<kind, clock, arming, job, stop, seen>>

\* _append_pending, then _finalize_due and _finalize.
Extended(p) ==
    IF 0 < clock - p.last /\ clock - p.last <= MaxGap
    THEN [p EXCEPT !.frames = Append(@, clock), !.last = clock] ELSE p
Whole(p) == p.last - p.confirmedAt >= PostTicks
ExtendPending(submitted) ==
    /\ phase = "extending" /\ phase' = "waiting"
    /\ IF pending = None THEN UNCHANGED <<run, pending, job>>
       ELSE LET p == Extended(pending)
            IN IF clock < p.confirmedAt + PostTicks
               THEN pending' = p /\ UNCHANGED <<run, job>>
               ELSE /\ pending' = None
                    /\ IF Undecided(run) /\ Whole(p) /\ stop # "closed" /\ submitted
                       THEN job' = p /\ UNCHANGED run
                       ELSE run' = (IF Undecided(run) THEN Interrupted(run) ELSE run) /\ UNCHANGED job
    /\ UNCHANGED <<kind, clock, session, ring, arming, stop, still, seen>>

\* _media_done: the event is stored, or the backend refused it.
EndJob(stored) ==
    /\ job # None /\ job' = None
    /\ run' = IF ~stored THEN Interrupted(run)
              ELSE IF Undecided(run) THEN [run EXCEPT !.count = 1] ELSE run
    /\ UNCHANGED <<kind, clock, session, ring, arming, pending, phase, stop, still, seen>>

\* No frame arrives for a tick.
Tick ==
    /\ clock < MaxTime + MaxGap + 1 /\ clock' = clock + 1
    /\ UNCHANGED <<kind, session, ring, arming, run, pending, job, phase, stop, still, seen>>

\* _monitor_acceptance_source: no frame was in the queue, and the capture
\* thread reports a failure or the last frame is too long ago.
Monitor(failed) ==
    /\ phase = "waiting" /\ stop = "no" /\ run # None /\ Open(run)
    /\ failed \/ clock - run.updated > MaxGap
    /\ run' = Interrupted(run)
    /\ UNCHANGED <<kind, clock, session, ring, arming, pending, job, phase, stop, still, seen>>

\* arm_acceptance checks the source first and takes the lock then.
CheckArm ==
    /\ run = None /\ arming = None /\ stop = "no" /\ clock <= MaxArm
    /\ arming' = session
    /\ UNCHANGED <<kind, clock, session, ring, run, pending, job, phase, stop, still, seen>>
Arm ==
    /\ arming # None /\ arming' = None /\ run' = NewRun(arming) /\ still' = Nowhere
    /\ UNCHANGED <<kind, clock, session, ring, pending, job, phase, stop, seen>>

Cancel ==
    /\ run # None /\ Open(run)
    /\ run' = Cancelled(run) /\ pending' = None
    /\ UNCHANGED <<kind, clock, session, ring, arming, job, phase, stop, still, seen>>

\* VisionEngine.stop: interrupt, join the vision thread (or time out), drop
\* what is pending, wait for the media worker.
StopEngine ==
    /\ \/ stop = "no" /\ stop' = "asked" /\ run' = Interrupted(run) /\ UNCHANGED pending
       \/ /\ stop = "asked" /\ stop' = "drained" /\ pending' = None
          /\ run' = IF pending # None THEN Interrupted(run) ELSE run
       \/ stop = "drained" /\ job = None /\ stop' = "closed" /\ UNCHANGED <<run, pending>>
    /\ UNCHANGED <<kind, clock, session, ring, arming, job, phase, still, seen>>
-----------------------------------------------------------------------------
Next ==
    \/ \E place \in Places, setBack, room \in BOOLEAN : ObserveFrame(place, setBack, room)
    \/ SwitchSession
    \/ \E submitted \in BOOLEAN : ExtendPending(submitted)
    \/ \E stored \in BOOLEAN : EndJob(stored)
    \/ (\E failed \in BOOLEAN : Monitor(failed))
    \/ Tick \/ CheckArm \/ Arm \/ Cancel \/ StopEngine

\* Time passes, the vision thread polls its queue and finishes its frame, and
\* the media worker ends its jobs.
Fairness ==
    /\ WF_vars(Tick) /\ WF_vars(Monitor(FALSE))
    /\ WF_vars(\E submitted \in BOOLEAN : ExtendPending(submitted))
    /\ WF_vars(\E stored \in BOOLEAN : EndJob(stored))
Spec == Init /\ [][Next]_vars /\ Fairness
-----------------------------------------------------------------------------
TypeOK ==
    /\ kind \in Kinds /\ clock \in Nat /\ session \in 1..MaxSession
    /\ ring \in Seq(Nat) /\ Len(ring) <= RingMax /\ arming \in Maybe(1..MaxSession) /\ run \in Maybe(Runs)
    /\ pending \in Maybe(Clips) /\ job \in Maybe(Clips)
    /\ phase \in {"waiting", "extending"} /\ stop \in {"no", "asked", "drained", "closed"}
    /\ still \in [place : Maybe(Places), since : Nat, count : Nat]
    /\ seen \subseteq Facts
    \* an event is either pending or being stored, and only of a confirmed trial
    /\ pending = None \/ job = None
    /\ pending # None \/ job # None => run # None

\* The marker has been seen in one place of a zone, without a loss or a gap.
Rested(zone, frames) ==
    still'.place \in zone /\ clock' - still'.since >= StableTicks /\ still'.count >= frames

\* "Never stitch samples from before an occlusion to its first recovery frame":
\* a baseline needs the marker at rest in the origin, in this trial.
BaselineRested ==
    [][run # None /\ run'.baseline \notin {None, run.baseline} => Rested(OriginZone, OriginFrames)]_vars

\* A movement is confirmed only in a trial of that kind, with the marker seen
\* outside both zones after its baseline and at rest in the destination.
PlacementRested ==
    [][run # None /\ run'.confirmedAt \notin {None, run.confirmedAt} =>
          /\ kind = "movement" /\ run.baseline # None /\ "between" \in seen'
          /\ Rested(DestinationZone, DestinationFrames)]_vars

\* What reaches the media worker has the whole pre-roll and post-roll, shows
\* the stable origin, and is unbroken while the trial ran.
ClipWhole ==
    job # None =>
        /\ job.frames[1] <= job.started - PreTicks
        /\ Last(job.frames) >= job.confirmedAt + PostTicks
        /\ \E i \in 1..Len(job.frames) : job.frames[i] = job.before
        /\ \A i \in 1..(Len(job.frames) - 1) :
              job.frames[i] >= job.first => job.frames[i + 1] - job.frames[i] <= MaxGap

\* An event is held once, and its clip is whole.
EvidenceWhole == TypeOK /\ ClipWhole

\* A trial that ends well without an event has lasted its time; if it asks for
\* a marker at rest, the marker was always seen and stayed where it was; if it
\* asks for an occlusion, there was one.
TrialClean ==
    [][run # None /\ run'.done # run.done =>
          /\ clock - run.first >= TrialTicks
          /\ IF kind = "occlusion" THEN "occluded" \in seen' ELSE seen' = {}]_vars

\* So a trial sees what it decides by, whatever it decides.
TrialSound == BaselineRested /\ PlacementRested /\ TrialClean

\* The trial keeps the contract the acceptance service relies on.
Outcome == IF run = None THEN "unarmed"
           ELSE IF run.count = 1 THEN "emitted"
           ELSE IF run.state = "confirmed" THEN "confirmed"
           ELSE IF run.done THEN "completed"
           ELSE IF Terminal(run) THEN "over" ELSE "armed"
Contract == INSTANCE TrialContract WITH outcome <- Outcome
KeepsContract == Contract!Spec
=============================================================================
