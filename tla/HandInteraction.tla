-------------------------- MODULE HandInteraction --------------------------
(* The hand analyzer (hand_actions.py), which names the hands of a frame,    *)
(* and the hand-object tracker (hand_interaction.py), which decides whether  *)
(* a hand carries the item and whether it let go of it, for one item of one  *)
(* camera.  Places are points of a line, the distance of a hand is that of   *)
(* its palm from the item, and the number of a frame is also its time, so a  *)
(* missing number is a gap of the source.  Postures and gestures, replayed   *)
(* frames (refused by both components), the expiry of old states (longer     *)
(* than a gap) and frames that reach only the analyzer are left out.         *)
EXTENDS Integers, FiniteSets, Functions, TLC

CONSTANTS None,
          Ids,             \* hand identities; a fresh one is any that nothing remembers
          Places,          \* where the item may be seen
          HandPlaces,      \* where a hand may be seen
          MaxHands,        \* hands of a frame
          MaxFrame,        \* bound: frames of the source
          MaxGap,          \* *_max_gap_seconds, the same for both components
          TrackFrames,     \* hand_action_tracking_min_frames
          MatchDistance, MatchMargin,                        \* hand_action_match_*
          Near, Separation,                                  \* hand_interaction_*_distance
          MotionFrames, MotionSeconds, MotionDistance,       \* ..._min_motion_*, min_total_distance
          MinStep, VectorError, Drift,                       \* ..._min_*_step, max_vector_error, max_relative_drift
          ReleaseFrames, ReleaseSeconds, SeparationSeconds,  \* ..._release_stable_*, separation_min_seconds
          Valid,                                             \* ..._release_valid_seconds
          Speed, Jitter, Rise                                \* ..._release_max_object_speed, position_jitter, min_distance_increase

\* The settings the two components accept; they refuse others.
ValidAnalyzer ==
    /\ {MaxHands, MaxGap, TrackFrames, MatchDistance, MatchMargin} \subseteq Nat \ {0}
    /\ TrackFrames >= 2
ValidTracker ==
    /\ {MotionSeconds, MotionDistance, MinStep, ReleaseSeconds, SeparationSeconds, Valid, Rise} \subseteq Nat \ {0}
    /\ {Near, VectorError, Drift, Speed, Jitter} \subseteq Nat
    /\ Separation > Near
    /\ MotionFrames >= 2 /\ ReleaseFrames >= 2
ASSUME SettingsAssumption == ValidAnalyzer /\ ValidTracker
ASSUME SceneAssumption ==
    /\ None \notin Int \cup Ids /\ Places \subseteq Int /\ HandPlaces \subseteq Int
    /\ MaxFrame \in Nat /\ Cardinality(Ids) > MaxHands

VARIABLES frame,    \* the last processed source frame
          tracks,   \* the analyzer's tracks: the hands of that frame
          state,    \* the tracker's _State of the item, or None
          verdict,  \* holding_status of the last result
          still,    \* history: the unbroken rest the item is in, or None
          ended     \* history: the last frame of every earlier reported release

vars == <<frame, tracks, state, verdict, still, ended>>

Verdicts == {"not_established", "nearby", "co_moving", "holding_uncertain",
             "release_candidate", "released"}
Gap(a, b) == IF a > b THEN a - b ELSE b - a
Least(a, b) == IF a < b THEN a ELSE b

-----------------------------------------------------------------------------
(* The analyzer *)

Moments == 0 .. MaxFrame
Maybe(S) == S \cup {None}
\* A track; run is history: the frames the hand has moved in step with the
\* item without a break, where that began, and whether it ever carried it.
Runs == [frames : Nat, start : Moments, origin : Maybe(Places)]
Tracks == [pos : HandPlaces, seen : 1 .. TrackFrames, run : Runs, carried : BOOLEAN]

\* Pairs of a seen hand and a track close enough to be the same.
Close(P, ts) == {<<p, h>> \in P \X DOMAIN ts : Gap(p, ts[h].pos) <= MatchDistance}
Cost(ts, c) == Gap(c[1], ts[c[2]].pos)

\* The two best pairs of one hand, or of one track, are too alike.
Contested(ts, S) ==
    \E c \in S : /\ \A x \in S : Cost(ts, c) <= Cost(ts, x)
                 /\ \E x \in S \ {c} : Cost(ts, x) - Cost(ts, c) < MatchMargin

\* The pairs left when every hand and every track of a contested choice is blocked.
Unambiguous(ts, C) ==
    LET rivals == {{c \in C : c[1] = x[1]} : x \in C} \cup {{c \in C : c[2] = x[2]} : x \in C}
        tied == UNION {S \in rivals : Contested(ts, S)}
    IN {c \in C : \A x \in tied : c[1] # x[1] /\ c[2] # x[2]}

\* The cheapest pairs first, each hand and each track once.
Matches(P, ts) ==
    LET free == Unambiguous(ts, Close(P, ts))
        clash(c, x) == c # x /\ (c[1] = x[1] \/ c[2] = x[2])
    IN CHOOSE M \in SUBSET free :
          /\ \A c, x \in M : ~clash(c, x)
          /\ \A c \in free \ M : \E x \in M : clash(c, x) /\ Cost(ts, x) <= Cost(ts, c)

NoRun == [frames |-> 0, start |-> 0, origin |-> None]
Known(ts) == DOMAIN ts

Entered(p) == [pos |-> p, seen |-> 1, run |-> NoRun, carried |-> FALSE]

\* The tracks after a frame with hands at P: a matched hand keeps its track,
\* another gets an identity that no matched track and no hold has (it stands for
\* a new uuid), and an absent or ambiguous hand lends its identity to no later one.
Analyze(P, ts, bound) ==
    LET M == Matches(P, ts)
        matched == {c[2] : c \in M}
        entered == P \ {c[1] : c \in M}
        fresh == CHOOSE f \in Injection(entered, Ids \ (matched \cup {bound})) : TRUE
        place == [h \in matched |-> (CHOOSE c \in M : c[2] = h)[1]]
    IN [h \in matched |-> [ts[h] EXCEPT !.pos = place[h], !.seen = Least(TrackFrames, @ + 1)]]
       @@ [h \in Range(fresh) |-> Entered(AntiFunction(fresh)[h])]

\* A gap resets the analyzer before it looks at the frame.
Before(f) == IF f - frame > MaxGap THEN <<>> ELSE tracks
BoundHand == IF state = None THEN None ELSE state.hand
Hands(f, P) == Analyze(P, Before(f), BoundHand)
Stable(hs, h) == hs[h].seen >= TrackFrames

-----------------------------------------------------------------------------
(* The tracker's _State *)

Motions == [frames : Moments, start : Maybe(Moments), end : Maybe(Moments),
            origin : Maybe(Places), relative : Maybe(Int)]
Releases == [frames : Moments, visible : Moments, separated : Maybe(Moments), start : Maybe(Moments),
             anchor : Maybe(Places), end : Maybe(Moments), at : Maybe(Moments)]
States == [frame : Moments, object : Maybe(Places), hand : Maybe(Ids), pos : Maybe(HandPlaces),
           armed : BOOLEAN, held : BOOLEAN, motion : Motions, release : Releases, completed : Maybe(Moments)]

NoMotion == [frames |-> 0, start |-> None, end |-> None, origin |-> None, relative |-> None]
NoRelease == [frames |-> 0, visible |-> 0, separated |-> None, start |-> None, anchor |-> None,
              end |-> None, at |-> None]
Blank(f) == [frame |-> f, object |-> None, hand |-> None, pos |-> None, armed |-> FALSE,
             held |-> FALSE, motion |-> NoMotion, release |-> NoRelease, completed |-> None]

ClearRelease(s) == [s EXCEPT !.release = NoRelease]
ClearMotion(s) == [s EXCEPT !.motion = NoMotion]
Disarm(s) == [ClearRelease(s) EXCEPT !.armed = FALSE]

MutantUncertainKeeps(s) == [s EXCEPT !.pos = None, !.armed = FALSE]
MutantUncertainLetsGo(s) == ClearMotion([Disarm(s) EXCEPT !.pos = None, !.hand = None, !.held = FALSE])
\* Doubt never ends a hold; it ends what is not yet one.
Uncertain(s) ==
    LET t == [Disarm(s) EXCEPT !.pos = None]
    IN IF s.held THEN t ELSE ClearMotion([t EXCEPT !.hand = None])

MutantReopen(s) == [Disarm(s) EXCEPT !.completed = None]
\* A released hold is over: the next one needs co-motion of its own.
EndEpisode(s) == ClearMotion([Disarm(s) EXCEPT !.held = FALSE, !.completed = None, !.hand = None, !.pos = None])

Continues(f) == state # None /\ f - state.frame <= MaxGap
Expired(f) == Continues(f) /\ state.completed # None /\ f - state.completed > Valid
Current(f) == IF ~Continues(f) THEN Blank(f) ELSE IF Expired(f) THEN EndEpisode(state) ELSE state
Status(f, v) == IF Expired(f) THEN "not_established" ELSE v
Doubt(s) == IF s.held THEN "holding_uncertain" ELSE "not_established"

Distance(hs, h, x) == Gap(hs[h].pos, x)
NearHands(hs, x) == {h \in Known(hs) : Distance(hs, h, x) <= Near}

\* What the tracker compares the hands hs of frame f with: a stable hand
\* back at the item opens a new episode.
Opened(f, hs, x) ==
    LET s == Current(f)
        near == NearHands(hs, x)
    IN IF s.completed # None /\ Cardinality(near) = 1 /\ \A h \in near : Stable(hs, h)
       THEN EndEpisode(s) ELSE s

Crowded(s, hs, x) ==
    \/ Cardinality(NearHands(hs, x)) > 1
    \/ (s.held /\ NearHands(hs, x) \ {s.hand} # {})
\* The hand the frame is judged by: the one that holds, or the only near one.
Judged(s, hs, x) ==
    {h \in Known(hs) : Stable(hs, h) /\ IF s.held THEN h = s.hand ELSE NearHands(hs, x) = {h}}

MutantSameHand(s, h) == [s EXCEPT !.hand = h]
\* Co-motion with one hand proves nothing of another.
Bind(s, h) == IF h = s.hand THEN s ELSE [ClearMotion(s) EXCEPT !.hand = h, !.pos = None]

AllClear(hs, x) == \A h \in Known(hs) : Stable(hs, h) /\ Distance(hs, h, x) >= Separation
Slow(s, f, x) == s.object # None /\ f > s.frame /\ Gap(s.object, x) <= Speed * (f - s.frame)
InPlace(s, x) == s.release.anchor # None /\ Gap(s.release.anchor, x) <= Jitter

\* Both moved, the same way and about as far.
Coupled(object, pos, x, p) ==
    /\ object # None /\ pos # None
    /\ Gap(object, x) >= MinStep /\ Gap(pos, p) >= MinStep
    /\ (x > object) = (p > pos)
    /\ Gap(x - object, p - pos) <= VectorError

\* One more step of co-motion, if the hand has not drifted along the item.
Moved(s, f, x, p) ==
    LET m == IF s.motion.frames > 0 THEN s.motion
             ELSE [s.motion EXCEPT !.start = s.frame, !.origin = s.object, !.relative = p - x]
        n == [m EXCEPT !.frames = @ + 1, !.end = f]
    IN IF Gap(p - x, m.relative) > Drift THEN [s EXCEPT !.motion = m]
       ELSE [s EXCEPT !.motion = n,
                      !.held = @ \/ /\ n.frames >= MotionFrames
                                    /\ f - n.start >= MotionSeconds
                                    /\ Gap(n.origin, x) >= MotionDistance]

MutantAnySeparation(s, f, x, visible) ==
    LET r == IF s.release.frames > 0 THEN s.release ELSE [s.release EXCEPT !.start = f, !.anchor = x]
        w == [r EXCEPT !.frames = @ + 1, !.visible = IF visible /\ r.separated = None THEN @ + 1 ELSE @,
                       !.separated = IF r.separated = None /\ visible THEN f ELSE @]
        done == w.separated # None /\ f - w.start >= ReleaseSeconds
    IN [s EXCEPT !.release = IF done THEN [w EXCEPT !.end = f, !.at = IF @ = None THEN f ELSE @] ELSE w,
                 !.completed = IF done /\ w.at = None THEN f ELSE @]
\* One more frame of the item at rest: first with the hand visibly apart,
\* then, once that separation is witnessed, also without it.
Advance(s, f, x, visible) ==
    LET r == IF s.release.frames > 0 THEN s.release ELSE [s.release EXCEPT !.start = f, !.anchor = x]
        v == IF visible /\ r.separated = None THEN r.visible + 1 ELSE r.visible
        w == [r EXCEPT !.frames = @ + 1, !.visible = v,
                       !.separated = IF /\ visible /\ @ = None
                                        /\ v >= ReleaseFrames /\ f - r.start >= SeparationSeconds
                                     THEN f ELSE @]
        done == w.separated # None /\ f - w.start >= ReleaseSeconds
    IN [s EXCEPT !.release = IF done THEN [w EXCEPT !.end = f, !.at = IF @ = None THEN f ELSE @] ELSE w,
                 !.completed = IF done /\ w.at = None THEN f ELSE @]

-----------------------------------------------------------------------------
(* History *)

Was(f) == IF Continues(f) THEN state.object ELSE None

\* Every hand's own unbroken run of steps with the item, whoever is judged.
Carried(hs, f, x) ==
    [h \in Known(hs) |->
       LET r == hs[h].run
           step == /\ hs[h].seen > 1 /\ Distance(hs, h, x) <= Near
                   /\ Coupled(Was(f), tracks[h].pos, x, hs[h].pos)
           run == IF ~step THEN NoRun
                  ELSE IF r.frames > 0 THEN [r EXCEPT !.frames = @ + 1]
                  ELSE [frames |-> 1, start |-> frame, origin |-> Was(f)]
       IN [hs[h] EXCEPT !.run = run,
                        !.carried = @ \/ (run.frames >= MotionFrames /\ f - run.start >= MotionSeconds)]]
Idle(hs) == [h \in Known(hs) |-> [hs[h] EXCEPT !.run = NoRun]]

\* The item lies still and no hand is near it; parted once a hand that has
\* carried it was seen apart for long enough.
Rested(hs, f, x) ==
    IF \/ Was(f) = None \/ Gap(Was(f), x) > Speed * (f - frame)
       \/ \E h \in Known(hs) : Distance(hs, h, x) < Separation
    THEN None
    ELSE LET r == IF still # None /\ Gap(still.anchor, x) <= Jitter THEN still
                  ELSE [since |-> f, anchor |-> x, seen |-> 0, parted |-> FALSE]
             n == IF \E h \in Known(hs) : hs[h].carried THEN r.seen + 1 ELSE 0
         IN [r EXCEPT !.seen = n,
                      !.parted = @ \/ (n >= ReleaseFrames /\ f - r.since >= SeparationSeconds)]

EndedAfter ==
    IF verdict = "released" /\ ~(verdict' = "released" /\ state'.release.at = state.release.at)
    THEN ended \cup {frame} ELSE ended

-----------------------------------------------------------------------------
(* A frame: the analyzer, then the tracker's update *)

Stays == [since : Moments, anchor : Places, seen : Nat, parted : BOOLEAN]

Crowds == {P \in SUBSET HandPlaces : Cardinality(P) <= MaxHands}

Take(f, s, v) ==
    /\ frame' = f
    /\ state' = [s EXCEPT !.frame = f]
    /\ verdict' = Status(f, v)
    /\ ended' = EndedAfter

\* detected is not True: no box of the item in this frame.
Undetected(f, hs) ==
    LET s == Current(f)
    IN /\ tracks' = Idle(hs)
       /\ still' = None
       /\ Take(f, [Uncertain(s) EXCEPT !.object = None], Doubt(s))

\* The hand model is unavailable, and the analyzer is given no hands.
Unhealthy(f, x) ==
    LET s == Current(f)
    IN /\ tracks' = <<>>
       /\ still' = None
       /\ Take(f, [Uncertain(s) EXCEPT !.object = x], Doubt(s))

Saw(f, hs, x) ==
    /\ tracks' = Carried(hs, f, x)
    /\ still' = Rested(Carried(hs, f, x), f, x)

MultipleNear(f, hs, x) ==
    LET s == Opened(f, hs, x)
    IN /\ Crowded(s, hs, x)
       /\ Saw(f, hs, x)
       /\ Take(f, [Uncertain(s) EXCEPT !.object = x], Doubt(s))

\* The hand may leave the view only once it was visibly separated.
StableClear(s, f, hs, x) ==
    s.release.separated # None /\ Slow(s, f, x) /\ InPlace(s, x) /\ AllClear(hs, x)

HandGone(f, hs, x) ==
    LET s == Opened(f, hs, x)
    IN /\ ~Crowded(s, hs, x) /\ Judged(s, hs, x) = {}
       /\ Saw(f, hs, x)
       /\ IF StableClear(s, f, hs, x)
          THEN LET t == Advance(s, f, x, FALSE)
               IN Take(f, [t EXCEPT !.object = x, !.pos = None],
                       IF t.release.end = f THEN "released" ELSE "release_candidate")
          ELSE Take(f, [Uncertain(s) EXCEPT !.object = x],
                    IF ~s.held /\ NearHands(hs, x) # {} THEN "nearby" ELSE Doubt(s))

\* The hands h the frame is judged by, and the state it is judged against.
Facing(f, hs, x) == IF Crowded(Opened(f, hs, x), hs, x) THEN {} ELSE Judged(Opened(f, hs, x), hs, x)
Facts(f, hs, x, h) == Bind(Opened(f, hs, x), h)
Placed(s, x, p) == [s EXCEPT !.object = x, !.pos = p]

\* A near hand withdraws a release under way; until the hold is established
\* one step out of time with the hand starts the co-motion over.
Follow(s, f, x, p) ==
    LET t == ClearRelease([s EXCEPT !.armed = TRUE])
        u == Moved(t, f, x, p)
    IN IF Coupled(s.object, s.pos, x, p) /\ (u.held \/ u.motion.frames > t.motion.frames) THEN u
       ELSE IF t.held THEN t ELSE ClearMotion(t)

NearHand(f, hs, x) ==
    \E h \in Facing(f, hs, x) :
        LET s == Facts(f, hs, x, h)
            t == Follow(s, f, x, hs[h].pos)
        IN /\ Distance(hs, h, x) <= Near
           /\ Saw(f, hs, x)
           /\ Take(f, Placed(t, x, hs[h].pos),
                   IF ~t.held THEN "nearby"
                   ELSE IF t.motion.frames > s.motion.frames THEN "co_moving" ELSE "holding_uncertain")

ApartUnheld(f, hs, x) ==
    \E h \in Facing(f, hs, x) :
        LET s == Facts(f, hs, x, h)
        IN /\ Distance(hs, h, x) > Near /\ ~s.held
           /\ Saw(f, hs, x)
           /\ Take(f, Placed(ClearMotion(s), x, hs[h].pos), "not_established")

\* The hand was at the item in the last frame and moved away in this one.
SeparationVisible(s, hs, h, x) ==
    s.armed /\ s.pos # None /\ s.object # None
    /\ Distance(hs, h, x) - Gap(s.pos, s.object) >= Rise

RestsApart(s, f, hs, h, x) == Slow(s, f, x) /\ Distance(hs, h, x) >= Separation /\ AllClear(hs, x)

\* A release already reported stays so for as long as nothing moves.
StillReleased(s, f, hs, h, x) ==
    s.release.at # None /\ RestsApart(s, f, hs, h, x) /\ f - s.release.at <= Valid /\ InPlace(s, x)

\* A reported release that is broken off, or outlived, is withdrawn.
Withdrawn(s, f, hs, h, x) ==
    IF s.release.at # None /\ ~StillReleased(s, f, hs, h, x) THEN Disarm(s) ELSE s

\* A rest that began with a visible separation goes on, or one begins: the
\* separation is judged by what was known before the withdrawal, so that a
\* rest may also begin in the frame that breaks a reported release.
Resting(s, f, hs, h, x) ==
    LET t == Withdrawn(s, f, hs, h, x)
    IN /\ RestsApart(s, f, hs, h, x)
       /\ IF t.release.frames > 0 THEN InPlace(t, x) ELSE SeparationVisible(s, hs, h, x)

Apart(f, hs, x) ==
    \E h \in Facing(f, hs, x) :
        LET s == Facts(f, hs, x, h)
            p == hs[h].pos
        IN /\ Distance(hs, h, x) > Near /\ s.held
           /\ Saw(f, hs, x)
           /\ \/ /\ StillReleased(s, f, hs, h, x)
                 /\ Take(f, Placed([s EXCEPT !.release.end = f], x, p), "released")
              \/ /\ ~StillReleased(s, f, hs, h, x) /\ Resting(s, f, hs, h, x)
                 /\ LET t == Advance(Withdrawn(s, f, hs, h, x), f, x, TRUE)
                    IN Take(f, Placed(t, x, p),
                            IF t.release.end = f THEN "released" ELSE "release_candidate")
              \/ /\ ~StillReleased(s, f, hs, h, x) /\ ~Resting(s, f, hs, h, x)
                 /\ Take(f, Placed(Disarm(s), x, p), "holding_uncertain")

Seen(f, hs, x) ==
    \/ MultipleNear(f, hs, x)
    \/ HandGone(f, hs, x)
    \/ NearHand(f, hs, x)
    \/ ApartUnheld(f, hs, x)
    \/ Apart(f, hs, x)

\* The interaction update raised: the item's state is forgotten, and the
\* last result is not turned into evidence for this frame.
AnalysisFails(f, hs) ==
    /\ frame' = f
    /\ tracks' = Idle(hs)
    /\ state' = None /\ still' = None
    /\ verdict' = IF verdict \in {"co_moving", "holding_uncertain", "release_candidate"}
                  THEN "holding_uncertain" ELSE "not_established"
    /\ ended' = EndedAfter

\* A new source, frame geometry or view, and a changed profile set.
ResetHandActions ==
    /\ tracks' = <<>> /\ state' = None /\ still' = None
    /\ verdict' = "not_established"
    /\ ended' = EndedAfter
    /\ UNCHANGED frame

Init ==
    /\ frame = 0 /\ tracks = <<>> /\ state = None
    /\ verdict = "not_established" /\ still = None /\ ended = {}

Next ==
    \/ \E d \in {1, MaxGap + 1} :
          /\ frame + d <= MaxFrame
          /\ \/ \E P \in Crowds :
                   LET hs == Hands(frame + d, P)
                   IN \/ \E x \in Places : Seen(frame + d, hs, x)
                      \/ Undetected(frame + d, hs)
                      \/ AnalysisFails(frame + d, hs)
             \/ \E x \in Places : Unhealthy(frame + d, x)
    \/ ResetHandActions

Spec == Init /\ [][Next]_vars

-----------------------------------------------------------------------------
(* Properties *)

TypeOK ==
    /\ frame \in Moments /\ ended \subseteq Moments
    /\ \E H \in SUBSET Ids : tracks \in [H -> Tracks] /\ Cardinality(H) <= MaxHands
    /\ state \in Maybe(States)
    /\ verdict \in Verdicts
    /\ still \in Maybe(Stays)

\* verified_release, what the event service demands of a placement's release.
VerifiedRelease(s) ==
    LET m == s.motion
        r == s.release
    IN /\ m.start < m.end /\ m.end <= r.start /\ r.start < r.separated
       /\ r.separated <= r.at /\ r.at <= r.end /\ r.end = s.frame
       /\ r.at - r.start >= ReleaseSeconds
       /\ 2 <= m.frames /\ m.frames <= m.end - m.start
       /\ 2 <= r.visible /\ r.visible <= r.separated - r.start + 1

ReleaseWitnessed ==
    verdict = "released" =>
        /\ still # None /\ still.parted
        /\ frame - still.since >= ReleaseSeconds
        /\ VerifiedRelease(state)

\* The releases reported of the present hold before this one.
Earlier == {e \in ended : e > state.motion.start}
FreshHold ==
    verdict = "released" =>
        \A e \in Earlier : state.release.start = still.since /\ still.since \in e + 1 .. e + MaxGap

\* A reported release was witnessed, whatever doubts, lost hands and new
\* identities preceded it: a hand that had carried the item was seen apart
\* from it for several frames of an unbroken rest of ReleaseSeconds, the
\* result satisfies the contract of verified_release, and its co-motion
\* began after every release reported before it, but one: a reported release
\* that is broken off while the hand moves further away may be followed by a
\* second one of the same hold, whose own rest begins in the next frame.
ReleaseSound == TypeOK /\ ReleaseWitnessed /\ FreshHold

\* Absence, doubt and another hand never end a hold and never pass it to
\* another hand: within a continuous source only a witnessed release does.
HoldKept ==
    [][(state # None /\ state.held /\ state' # None /\ frame' - frame <= MaxGap) =>
          (state.completed # None \/ (state'.held /\ state'.hand = state.hand))]_vars
=============================================================================
