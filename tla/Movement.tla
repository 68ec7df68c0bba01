------------------------------ MODULE Movement ------------------------------
(***************************************************************************)
(* ItemMotionStateMachine (services/vision/events/state_machine.py): the   *)
(* per-item state machine that turns processed camera frames into at most  *)
(* one "movement" event per complete movement.                             *)
(*                                                                         *)
(* Abstractions.  The pair (source_session_id, reconnect_epoch) is one     *)
(* stream number, because the code compares and resets them together.  An  *)
(* observation keeps what the machine branches on: its position (a point   *)
(* of a line), its zone, whether its speed exceeds stable_speed,           *)
(* hand_near, a holding_status that forbids placement, the detection mode, *)
(* support surface confirmation and the hand-release proof                 *)
(* (release_evidence.py), of which only the first co-motion frame is kept. *)
(* A detection below min_confidence is handled as no detection, as in the  *)
(* code.  Confidence values, notes and diagnostics are left out.           *)
(***************************************************************************)
EXTENDS Integers, Sequences

CONSTANTS
    Positions,           \* center_norm, scaled to integers on a line
    Zones, NoZone,       \* confirmed zones, and "outside every zone"
    Modes,               \* subset of {"aruco", "experimental"}
    None,
    MinDetectionFrames, MinStableFrames, MinStableTime, MaxFrameGap,
    MinMove, SameZoneMove, Jitter, OccludedTime, LostTime,
    Inputs,                            \* the observations detectors may report
    MaxStream, MaxFrame                \* bounds: streams, frames and time per mode

ASSUME PositionsAssumption == Positions \subseteq Int /\ None \notin Positions
ASSUME ModesAssumption == Modes \subseteq {"aruco", "experimental"}
\* __init__ clamps its parameters to these ranges.
ASSUME ThresholdAssumption ==
    /\ MinDetectionFrames \in Nat /\ MinDetectionFrames >= 2
    /\ MinStableFrames \in Nat /\ MinStableFrames >= 2
    /\ MinStableTime \in Nat /\ MaxFrameGap \in Nat \ {0}
    /\ MinMove \in Nat \ {0} /\ SameZoneMove \in Nat /\ SameZoneMove >= MinMove
    /\ Jitter \in Nat \ {0}
    /\ OccludedTime \in Nat /\ LostTime \in Nat /\ LostTime >= OccludedTime
Places == Zones \cup {NoZone}
Maybe(S) == S \cup {None}

Observations ==
    [pos : Positions, zone : Places, fast : BOOLEAN, hand : BOOLEAN,
     held : BOOLEAN, mode : Modes, surface : BOOLEAN, release : Maybe(Nat)]

ASSUME InputsAssumption == Inputs \subseteq Observations
ASSUME BoundsAssumption == MaxStream \in Nat /\ MaxFrame \in [Modes -> Nat]

VARIABLES
    m,        \* the ItemMotionStateMachine object
    stream,   \* the capture's present source session and epoch
    sent,     \* sequence number of the last new frame of that session
    now,      \* monotonic time of the last packet
    event,    \* the StateEvent update() returned last, None before the first
    active,   \* the detection mode the engine has loaded
    run       \* observer: the accepted detections since the last break

vars == <<m, stream, sent, now, event, active, run>>

States == {"UNKNOWN", "VISIBLE_STATIC", "HAND_NEAR", "PICKUP_CANDIDATE", "CARRIED",
           "PLACED_CANDIDATE", "PLACED_CONFIRMED", "OCCLUDED", "LOST"}

Baselines == [pos : Positions, zone : Places, frame : Nat, at : Nat]
Destinations == [pos : Positions, zone : Places, since : Nat]
Episodes == [stream : Nat, from : Baselines, started : Nat, detections : Nat,
             dest : Maybe(Destinations), stable : Nat]
MovementIds == [stream : Nat, started : Nat]
\* None is no value an optional field may hold.
ASSUME NoneAssumption ==
    None \notin Int /\ None \notin Baselines /\ None \notin Destinations /\ None \notin Episodes
Machines ==
    [state : States, baseline : Maybe(Baselines), episode : Maybe(Episodes),
     lastPos : Maybe(Positions), lastSeenAt : Maybe(Nat), lastVerified : Maybe(Nat),
     lastFrame : Maybe(Nat), lastFrameAt : Maybe(Nat), missingSince : Maybe(Nat),
     stream : Maybe(Nat), anchor : Maybe(Positions), anchorSince : Maybe(Nat),
     stable : Nat, detections : Nat, lastEmitted : Maybe(MovementIds)]

Events == [stream : Nat, start : Nat, end : Nat, from : Positions, to : Positions,
           fromZone : Places, toZone : Places, movement : MovementIds, mode : Modes,
           release : Maybe(Nat)]

Dist(a, b) == IF a < b THEN b - a ELSE a - b

-----------------------------------------------------------------------------
(* The machine's helpers, each a function from a machine to a machine.     *)

Fresh == [state |-> "UNKNOWN", baseline |-> None, episode |-> None, lastPos |-> None,
          lastSeenAt |-> None, lastVerified |-> None, lastFrame |-> None,
          lastFrameAt |-> None, missingSince |-> None, stream |-> None, anchor |-> None,
          anchorSince |-> None, stable |-> 0, detections |-> 0, lastEmitted |-> None]

\* reset_source_session keeps only the id of the last emitted movement.
ResetSourceSession(x, s) == [Fresh EXCEPT !.stream = s, !.lastEmitted = x.lastEmitted]

MutantKeepBaseline(x) == [x EXCEPT !.episode = None, !.detections = 0]

InvalidateEpisode(x) ==
    [x EXCEPT !.episode = None, !.baseline = None, !.anchor = None, !.anchorSince = None,
              !.stable = 0, !.detections = 0]

MutantExited(d) == IF d >= LostTime THEN "EXITED_VIEW" ELSE "UNKNOWN"

AbsentState(d) == IF d >= LostTime THEN "LOST" ELSE IF d >= OccludedTime THEN "OCCLUDED" ELSE "UNKNOWN"

HandleMissing(x, t) ==
    LET since == IF x.lastSeenAt # None THEN x.lastSeenAt ELSE t
        y == IF x.missingSince = None
             THEN [InvalidateEpisode(x) EXCEPT !.missingSince = since] ELSE x
    IN [y EXCEPT !.state = AbsentState(t - y.missingSince)]

Beside(o) == IF o.hand THEN "HAND_NEAR" ELSE "VISIBLE_STATIC"

SetBaseline(x, o, t, f) ==
    [x EXCEPT !.baseline = [pos |-> o.pos, zone |-> o.zone, frame |-> f, at |-> t],
              !.state = Beside(o), !.anchor = o.pos, !.anchorSince = t,
              !.stable = MinStableFrames, !.lastVerified = f]

IsStable(o, anchor) == ~o.fast /\ (anchor # None => Dist(anchor, o.pos) <= Jitter)

Reanchor(x, o, t) ==
    [x EXCEPT !.anchor = o.pos, !.anchorSince = t, !.stable = IF o.fast THEN 0 ELSE 1]

\* One more stable frame at the anchor; the first one fixes it.
Dwell(x, o, t) ==
    IF x.anchorSince = None
    THEN [x EXCEPT !.anchor = o.pos, !.anchorSince = t, !.stable = 1]
    ELSE [x EXCEPT !.stable = @ + 1]

Settled(x, t) == x.stable >= MinStableFrames /\ t - x.anchorSince >= MinStableTime

AccumulateBaseline(x, o, t, f) ==
    IF ~IsStable(o, x.anchor) THEN [Reanchor(x, o, t) EXCEPT !.state = "UNKNOWN"]
    ELSE LET y == Dwell(x, o, t) IN
         IF y.detections >= MinDetectionFrames /\ Settled(y, t) THEN SetBaseline(y, o, t, f) ELSE y

\* Re-anchoring of small adjustments while the item rests at its baseline.
KeepBaseline(x, o, t, f) ==
    LET y == IF IsStable(o, x.anchor) THEN Dwell(x, o, t) ELSE Reanchor(x, o, t)
        z == IF IsStable(o, x.anchor) /\ Settled(y, t) THEN SetBaseline(y, o, t, f) ELSE y
    IN [z EXCEPT !.state = Beside(o)]

StartEpisode(x, o, f) ==
    [x EXCEPT !.episode = [stream |-> x.stream, from |-> x.baseline, started |-> f,
                           detections |-> 1, dest |-> None, stable |-> 0],
              !.state = "PICKUP_CANDIDATE", !.anchor = None, !.anchorSince = None, !.stable = 0]

MutantHandIgnored(e, prev, o) ==
    /\ ~o.fast /\ ~o.held
    /\ Dist(IF prev # None THEN prev ELSE e.from.pos, o.pos) <= Jitter

\* prev is the position of the previous detection.
StableHere(e, prev, o) ==
    /\ ~o.fast /\ ~o.hand /\ ~o.held
    /\ Dist(IF prev # None THEN prev ELSE e.from.pos, o.pos) <= Jitter

\* One detection inside an episode: the destination candidate is confirmed,
\* begun or dropped.
Carry(x, prev, o, t) ==
    LET e == x.episode
        same == e.dest # None /\ o.zone = e.dest.zone /\ Dist(e.dest.pos, o.pos) <= Jitter
        seen == [e EXCEPT !.detections = @ + 1]
    IN IF StableHere(e, prev, o) /\ (e.dest = None \/ same)
       THEN [x EXCEPT !.state = "PLACED_CANDIDATE",
                      !.episode = IF e.dest = None
                                  THEN [seen EXCEPT !.stable = 1,
                                          !.dest = [pos |-> o.pos, zone |-> o.zone, since |-> t]]
                                  ELSE [seen EXCEPT !.stable = @ + 1]]
       ELSE [x EXCEPT !.state = "CARRIED", !.episode = [seen EXCEPT !.dest = None, !.stable = 0]]

DestinationStable(e, t) ==
    e.dest # None /\ e.stable >= MinStableFrames /\ t - e.dest.since >= MinStableTime

MutantAnyRelease(o, e, f) == o.release # None /\ o.release + 3 <= f

\* verified_release: the co-motion began no earlier than the origin frame,
\* lasted two steps, and the separation ended at this very frame.
VerifiedRelease(o, e, f) == o.release # None /\ e.from.frame <= o.release /\ o.release + 3 <= f

\* Photo identities wait for a verified release; tagged ones do not.
MayFinish(e, o, f) == o.mode = "experimental" => VerifiedRelease(o, e, f)

RequiredDistance(e, o) ==
    IF e.from.zone # NoZone /\ o.zone # NoZone /\ e.from.zone # o.zone THEN MinMove ELSE SameZoneMove

MovementId(e) == [stream |-> e.stream, started |-> e.started]

CompleteMovement(x, o) ==
    /\ Dist(x.episode.from.pos, o.pos) >= RequiredDistance(x.episode, o)
    /\ x.episode.detections >= MinDetectionFrames
    /\ MovementId(x.episode) # x.lastEmitted

DropEpisode(x, o, t, f) == SetBaseline([x EXCEPT !.episode = None], o, t, f)

MutantOldBaseline(x, o, t, f) ==
    [x EXCEPT !.episode = None, !.lastEmitted = MovementId(x.episode),
              !.lastVerified = f, !.state = "PLACED_CONFIRMED"]

FinishEpisode(x, o, t, f) ==
    [SetBaseline([x EXCEPT !.episode = None, !.lastEmitted = MovementId(x.episode)], o, t, f)
        EXCEPT !.state = IF o.mode = "experimental" /\ ~o.surface
                         THEN "VISIBLE_STATIC" ELSE "PLACED_CONFIRMED"]

EventOf(e, o, f) ==
    [stream |-> e.stream, start |-> e.from.frame, end |-> f, from |-> e.from.pos, to |-> o.pos,
     fromZone |-> e.from.zone, toZone |-> o.zone, movement |-> MovementId(e), mode |-> o.mode,
     release |-> o.release]

-----------------------------------------------------------------------------
(* update(): the prologue every frame goes through, then one action per    *)
(* way the frame can be handled.                                           *)

\* The first session adopted, or a changed one resetting the machine.
Adopt(x, s) ==
    IF x.stream = None THEN [x EXCEPT !.stream = s]
    ELSE IF x.stream # s THEN ResetSourceSession(x, s) ELSE x

OutOfOrder(x, f) == x.lastFrame # None /\ f <= x.lastFrame

\* Mutant: a gap of one frame more than allowed passes.
MutantGapBefore(x, t) == x.lastFrameAt # None /\ t - x.lastFrameAt > MaxFrameGap + 1
GapBefore(x, t) == x.lastFrameAt # None /\ t - x.lastFrameAt > MaxFrameGap

\* A frame gap resets the machine; the frame is then processed by the rest.
Accept(x, s, f, t) ==
    LET y == IF GapBefore(x, t) THEN ResetSourceSession(x, s) ELSE x
    IN [y EXCEPT !.lastFrame = f, !.lastFrameAt = t]

\* Reappearance after a loss starts from a clean baseline.
Reappear(x) ==
    IF x.missingSince = None THEN x
    ELSE [InvalidateEpisode(x) EXCEPT !.missingSince = None, !.state = "UNKNOWN"]

MutantCandidateVerified(x, o, t) ==
    [Reappear(x) EXCEPT !.detections = @ + 1, !.lastPos = o.pos, !.lastSeenAt = t,
                        !.lastVerified = x.lastFrame]

Detected(x, o, t) ==
    [Reappear(x) EXCEPT !.detections = @ + 1, !.lastPos = o.pos, !.lastSeenAt = t]

EmptyRun == [start |-> None, recent |-> <<>>]

LastOf(seq, n) == IF Len(seq) > n THEN SubSeq(seq, Len(seq) - n + 1, Len(seq)) ELSE seq

\* The observer forgets everything at a break and keeps the last frames else.
Extend(r, broken, o, f) ==
    LET base == IF broken THEN EmptyRun ELSE r
    IN [start |-> IF base.start = None THEN f ELSE base.start,
        recent |-> LastOf(Append(base.recent, [frame |-> f, pos |-> o.pos, zone |-> o.zone,
                          slow |-> ~o.fast, free |-> ~o.hand /\ ~o.held]), MinStableFrames)]

\* What breaks continuity at a frame, stated apart from the machine's checks.
Broken(t) ==
    \/ m.stream # stream
    \/ m.lastFrameAt # None /\ t > m.lastFrameAt + MaxFrameGap
    \/ m.missingSince # None

\* A packet: the next frame of the session, at most one tick beyond the allowed
\* gap, or the redelivery of the frame the machine processed last.
Packets == {<<sent + 1, t>> : t \in now + 1 .. now + MaxFrameGap + 1}
             \cup {<<f, now>> : f \in {sent} \cap {m.lastFrame}}

Take(f, t) ==
    /\ f <= MaxFrame[active] /\ t <= MaxFrame[active] + 1
    /\ sent' = f /\ now' = t /\ UNCHANGED <<stream, active>>

Arrived(f, t) == Accept(Adopt(m, stream), stream, f, t)

\* duplicate_or_out_of_order_frame
RejectFrame(f, t) ==
    /\ Take(f, t) /\ OutOfOrder(Adopt(m, stream), f)
    /\ m' = Adopt(m, stream)
    /\ UNCHANGED <<event, run>>

Frame(f, t) == Take(f, t) /\ ~OutOfOrder(Adopt(m, stream), f)

\* detection_missing, or a detection below min_confidence
MissItem(f, t) ==
    /\ Frame(f, t)
    /\ m' = HandleMissing(Arrived(f, t), t)
    /\ run' = EmptyRun
    /\ UNCHANGED event

\* A confident detection in an accepted frame.
Sight(f, t, o) ==
    /\ Frame(f, t)
    /\ o.release # None => o.release < f
    /\ run' = Extend(run, Broken(t), o, f)

AtBaseline(x, f) == [x EXCEPT !.lastVerified = f]

BuildBaseline(f, t, o) ==
    LET x == Detected(Arrived(f, t), o, t) IN
    /\ Sight(f, t, o) /\ x.baseline = None
    /\ m' = AccumulateBaseline(x, o, t, f)
    /\ UNCHANGED event

Rest(f, t, o) ==
    LET x == AtBaseline(Detected(Arrived(f, t), o, t), f) IN
    /\ Sight(f, t, o) /\ x.baseline # None /\ x.episode = None
    /\ Dist(x.baseline.pos, o.pos) < MinMove
    /\ m' = KeepBaseline(x, o, t, f)
    /\ UNCHANGED event

PickUp(f, t, o) ==
    LET x == AtBaseline(Detected(Arrived(f, t), o, t), f) IN
    /\ Sight(f, t, o) /\ x.baseline # None /\ x.episode = None
    /\ Dist(x.baseline.pos, o.pos) >= MinMove
    /\ m' = StartEpisode(x, o, f)
    /\ UNCHANGED event

\* The machine after the detection was counted in its episode.
Carried(f, t, o) == Carry(AtBaseline(Detected(Arrived(f, t), o, t), f), m.lastPos, o, t)

InEpisode(f, t, o) == Sight(f, t, o) /\ Detected(Arrived(f, t), o, t).episode # None

MoveOn(f, t, o) ==
    /\ InEpisode(f, t, o)
    /\ LET e == Carried(f, t, o).episode IN ~DestinationStable(e, t) \/ ~MayFinish(e, o, f)
    /\ m' = Carried(f, t, o)
    /\ UNCHANGED event

AbandonMovement(f, t, o) ==
    LET x == Carried(f, t, o) IN
    /\ InEpisode(f, t, o)
    /\ DestinationStable(x.episode, t) /\ MayFinish(x.episode, o, f)
    /\ ~CompleteMovement(x, o)
    /\ m' = DropEpisode(x, o, t, f)
    /\ UNCHANGED event

EmitMovement(f, t, o) ==
    LET x == Carried(f, t, o) IN
    /\ InEpisode(f, t, o)
    /\ DestinationStable(x.episode, t) /\ MayFinish(x.episode, o, f)
    /\ CompleteMovement(x, o)
    /\ m' = FinishEpisode(x, o, t, f)
    /\ event' = EventOf(x.episode, o, f)

\* The capture begins a new source session (reconnect, discontinuity, start).
SourceRestart ==
    /\ stream < MaxStream
    /\ stream' = stream + 1 /\ sent' = 0
    /\ UNCHANGED <<m, now, event, active, run>>

\* The engine resets the machine in place: camera view or frame geometry
\* changed, scene edited, acceptance run confirmed.
EngineReset ==
    /\ m.stream = stream
    /\ m' = ResetSourceSession(m, stream)
    /\ run' = EmptyRun
    /\ UNCHANGED <<stream, sent, now, event, active>>

\* A profile update replaces every machine by a new object.  The first photo
\* profile turns the engine from tags to photographs, never back.
ProfileRebuild ==
    /\ m' = Fresh /\ run' = EmptyRun
    /\ active' \in {active} \cup (Modes \cap {"experimental"})
    /\ UNCHANGED <<stream, sent, now, event>>

Init ==
    /\ m = Fresh /\ stream = 0 /\ sent = 0 /\ now = 0
    /\ event = None /\ active \in Modes /\ run = EmptyRun

Update ==
    \E p \in Packets :
        LET f == p[1] t == p[2] IN
        \/ RejectFrame(f, t)
        \/ MissItem(f, t)
        \/ \E o \in {i \in Inputs : i.mode = active} :
              \/ BuildBaseline(f, t, o) \/ Rest(f, t, o) \/ PickUp(f, t, o)
              \/ MoveOn(f, t, o) \/ AbandonMovement(f, t, o) \/ EmitMovement(f, t, o)

Next == Update \/ SourceRestart \/ EngineReset \/ ProfileRebuild

Spec == Init /\ [][Next]_vars

-----------------------------------------------------------------------------
(* Properties.                                                             *)

\* The machine's fields, the event it returned and the stream stay of the
\* types the code declares for them.
TypeOK ==
    /\ m \in Machines
    /\ stream \in Nat /\ sent \in Nat /\ now \in Nat
    /\ event \in Maybe(Events)
    /\ active \in Modes /\ run.start \in Maybe(Nat)

\* Every frame from an event's origin to its end was an accepted detection of
\* one source session: no loss, low confidence, gap, reset or reconnect lies
\* between ("continuous detections ... in the same source session", 104-107).
EvidenceUnbroken ==
    [][event' # event => /\ event'.stream = stream
                         /\ run'.start # None /\ run'.start <= event'.start
                         /\ event'.start < event'.end]_vars

\* The last MinStableFrames frames before a placement, each counted once, show
\* slow, hands-free detections in the destination zone near the destination,
\* whatever happened earlier in the episode, and the movement is a meaningful
\* one ("meaningful displacement and a second stable position", 104-107).
MovementWitnessed ==
    [][event' # event =>
         /\ Len(run'.recent) = MinStableFrames
         /\ \A i \in 1..MinStableFrames :
               LET r == run'.recent[i] IN
               /\ r.slow /\ r.free /\ r.zone = event'.toZone /\ Dist(r.pos, event'.to) <= 2 * Jitter
               /\ i > 1 => run'.recent[i - 1].frame < r.frame
         /\ \/ Dist(event'.from, event'.to) >= SameZoneMove
            \/ event'.fromZone # event'.toZone /\ Dist(event'.from, event'.to) >= MinMove
         /\ event'.mode = "experimental" =>
               event'.release # None /\ event'.start <= event'.release /\ event'.release < event'.end]_vars

\* Two events of one session never share evidence, across resets and rebuilt
\* machines too: the later one starts from a baseline taken no earlier than the
\* frame that ended the former.
WindowsDisjoint ==
    [][event' # event /\ event # None =>
         (event'.stream = event.stream => event'.start >= event.end)]_vars

ObservationVerified ==
    m.baseline # None /\ m.missingSince = None /\ m.lastVerified # None /\ m.lastVerified = m.lastFrame

\* observation_verified (which lets the current position be published and
\* stored) is true only inside an unbroken run of detections long enough to
\* have built the baseline the machine holds.
VerifiedSighting ==
    ObservationVerified =>
        run.start # None /\ run.start <= m.baseline.frame /\ Len(run.recent) = MinStableFrames

\* "Keep the verified last sighting through loss" (424-425): missing frames and
\* unverified reappearances neither drop nor replace it; only a gap, a new
\* session or a reset drops it, only a detection at a baseline replaces it.
SightingKept ==
    m'.lastVerified # m.lastVerified =>
        \/ m'.lastVerified # None /\ m'.lastVerified = m'.lastFrame /\ m'.baseline # None
        \/ m'.lastVerified = None /\ (m'.lastFrame = None \/ m.stream # stream \/ now' > m.lastFrameAt + MaxFrameGap)

\* What is published and stored as last seen is verified and is not lost: every
\* state keeps its types and the first of the two, every step the second.
SightingSound == [][TypeOK' /\ VerifiedSighting' /\ SightingKept]_vars
=============================================================================
