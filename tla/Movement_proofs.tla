--------------------------- MODULE Movement_proofs ---------------------------
(***************************************************************************)
(* Theorems about Movement: the machine's type; that the evidence of every *)
(* emitted movement is one unbroken run of detections, witnessed at its    *)
(* end and disjoint from that of other movements; and that what is         *)
(* published as last seen is verified.                                     *)
(***************************************************************************)
EXTENDS Movement, SequenceTheorems, TLAPS

(***************************************************************************)
(* The inductive invariant, for a machine x and the first frame of the     *)
(* present run.  A baseline exists only inside a run of detections that    *)
(* began no later than it, and never while the item is missing; an episode *)
(* departs from the baseline the machine still holds, so its origin frame  *)
(* lies in that run; frames of a session increase.                         *)
(***************************************************************************)
BaselineInRun(x, start) ==
    x.baseline # None =>
        /\ x.missingSince = None /\ x.stream # None
        /\ start # None /\ start <= x.baseline.frame
        /\ x.lastFrame # None /\ x.baseline.frame <= x.lastFrame

EpisodeFromBaseline(x) ==
    x.episode # None =>
        x.baseline # None /\ x.episode.from = x.baseline /\ x.episode.stream = x.stream

Good(x, start) == x \in Machines /\ BaselineInRun(x, start) /\ EpisodeFromBaseline(x)

RunBegun == run.start # None => m.lastFrame # None /\ run.start <= m.lastFrame

IInv == TypeOK /\ Good(m, run.start) /\ RunBegun

LEMMA Nones ==
    /\ None \notin Nat /\ None \notin Positions /\ None \notin Baselines /\ None \notin Episodes
    /\ \A e \in Episodes : e.stream \in Nat /\ e.from \in Baselines
    /\ \A b \in Baselines : b.frame \in Nat
BY NoneAssumption, PositionsAssumption DEF Baselines, Episodes, Places

(***************************************************************************)
(* The helpers preserve Good.                                              *)
(***************************************************************************)
LEMMA FreshGood == ASSUME NEW start \in Maybe(Nat) PROVE Good(Fresh, start)
BY DEF Good, Fresh, Machines, BaselineInRun, EpisodeFromBaseline, States, Maybe

LEMMA ResetGood ==
    ASSUME NEW x \in Machines, NEW s \in Nat, NEW start \in Maybe(Nat)
    PROVE  /\ Good(ResetSourceSession(x, s), start)
           /\ ResetSourceSession(x, s).baseline = None
           /\ ResetSourceSession(x, s).lastFrame = None
           /\ ResetSourceSession(x, s).stream = s
BY DEF Good, ResetSourceSession, Fresh, Machines, BaselineInRun, EpisodeFromBaseline, States, Maybe

LEMMA AdoptGood ==
    ASSUME NEW x, NEW s \in Nat, NEW start \in Maybe(Nat), Good(x, start)
    PROVE  /\ Good(Adopt(x, s), start) /\ Adopt(x, s).stream = s
           /\ Adopt(x, s).baseline # None => Adopt(x, s) = x
<1>1. CASE x.stream = None
  BY <1>1, Nones DEF Adopt, Good, Machines, BaselineInRun, EpisodeFromBaseline, Maybe
<1>2. CASE x.stream # None /\ x.stream # s
  BY <1>2, ResetGood DEF Adopt, Good
<1>3. CASE x.stream = s
  BY <1>3, Nones DEF Adopt, Good
<1> QED BY <1>1, <1>2, <1>3

\* A frame the machine accepts: a baseline that survives it was not preceded by
\* any break of continuity, and is older than the frame.
LEMMA ArrivedGood ==
    ASSUME IInv, NEW f \in Nat, NEW t \in Nat, ~OutOfOrder(Adopt(m, stream), f)
    PROVE  /\ Good(Arrived(f, t), run.start)
           /\ Arrived(f, t).lastFrame = f
           /\ Arrived(f, t).stream = stream
           /\ Arrived(f, t).baseline # None => Arrived(f, t).baseline.frame < f /\ ~Broken(t)
<1> DEFINE a == Adopt(m, stream)
           y == IF GapBefore(a, t) THEN ResetSourceSession(a, stream) ELSE a
<1>1. stream \in Nat /\ run.start \in Maybe(Nat) /\ Good(m, run.start)
  BY DEF IInv, TypeOK
<1>2. /\ Good(a, run.start) /\ a.stream = stream
      /\ a.baseline # None => a = m
  BY <1>1, AdoptGood
<1>3. /\ Good(y, run.start) /\ y.stream = stream
      /\ y.baseline # None => y = a /\ ~GapBefore(a, t)
  <2>1. CASE GapBefore(a, t)
    <3>1. a \in Machines
      BY <1>2 DEF Good
    <3> QED BY <1>1, <2>1, <3>1, ResetGood
  <2>2. CASE ~GapBefore(a, t)
    BY <1>2, <2>2
  <2> QED BY <2>1, <2>2
<1>4. /\ Arrived(f, t) = [y EXCEPT !.lastFrame = f, !.lastFrameAt = t]
      /\ ~OutOfOrder(a, f)
  BY DEF Arrived, Accept
<1> HIDE DEF a, y
<1>5. y.baseline # None => y.baseline.frame < f /\ ~Broken(t)
  <2> SUFFICES ASSUME y.baseline # None PROVE y.baseline.frame < f /\ ~Broken(t)
    OBVIOUS
  <2>1. y = m /\ a = m /\ ~GapBefore(m, t) /\ m.stream = stream
    BY <1>2, <1>3
  <2>2. m.missingSince = None /\ m.lastFrame # None /\ m.baseline.frame <= m.lastFrame
    BY <1>1, <2>1 DEF Good, BaselineInRun
  <2>3. m.baseline.frame \in Nat /\ m.lastFrame \in Nat /\ m.lastFrameAt \in Maybe(Nat)
    BY <1>1, <2>1, <2>2, Nones DEF Good, Machines, Maybe
  <2>4. m.lastFrame < f
    BY <1>4, <2>1, <2>2, <2>3 DEF OutOfOrder
  <2>5. ~Broken(t)
    BY <2>1, <2>2, <2>3, ThresholdAssumption DEF Broken, GapBefore, Maybe
  <2> QED BY <2>1, <2>2, <2>3, <2>4, <2>5
<1>6. y \in Machines /\ BaselineInRun(y, run.start) /\ EpisodeFromBaseline(y)
  BY <1>3 DEF Good
<1>7. /\ Arrived(f, t) \in Machines
      /\ Arrived(f, t).lastFrame = f /\ Arrived(f, t).stream = y.stream
      /\ Arrived(f, t).baseline = y.baseline /\ Arrived(f, t).episode = y.episode
      /\ Arrived(f, t).missingSince = y.missingSince
  <2>1. f \in Maybe(Nat) /\ t \in Maybe(Nat)
    BY DEF Maybe
  <2> QED BY <1>4, <1>6, <2>1 DEF Machines
<1>8. y.baseline # None => y.baseline.frame \in Nat
  BY <1>6, Nones DEF Machines, Maybe
<1>9. Good(Arrived(f, t), run.start)
  BY <1>5, <1>6, <1>7, <1>8, Nones DEF Good, BaselineInRun, EpisodeFromBaseline
<1> QED BY <1>3, <1>5, <1>7, <1>9

LEMMA MaybeNat == \A n \in Nat : n \in Maybe(Nat)
BY DEF Maybe

LEMMA MissingGood ==
    ASSUME NEW x, NEW start \in Maybe(Nat), NEW t \in Nat, Good(x, start)
    PROVE  Good(HandleMissing(x, t), None)
<1> DEFINE since == IF x.lastSeenAt # None THEN x.lastSeenAt ELSE t
           y == IF x.missingSince = None
                THEN [InvalidateEpisode(x) EXCEPT !.missingSince = since] ELSE x
<1>1. HandleMissing(x, t) = [y EXCEPT !.state = AbsentState(t - y.missingSince)]
  BY DEF HandleMissing
<1>2. y \in Machines /\ y.baseline = None /\ y.episode = None
  <2>1. CASE x.missingSince = None
    <3>1. since \in Maybe(Nat) /\ None \in Maybe(Baselines) /\ None \in Maybe(Episodes)
          /\ None \in Maybe(Positions) /\ None \in Maybe(Nat)
      BY DEF Good, Machines, Maybe
    <3> HIDE DEF since
    <3> QED BY <2>1, <3>1 DEF Good, InvalidateEpisode, Machines
  <2>2. CASE x.missingSince # None
    BY <2>2 DEF Good, BaselineInRun, EpisodeFromBaseline
  <2> QED BY <2>1, <2>2
<1> HIDE DEF y
<1>3. AbsentState(t - y.missingSince) \in States
  BY DEF AbsentState, States
<1>4. HandleMissing(x, t) \in Machines /\ HandleMissing(x, t).baseline = None
      /\ HandleMissing(x, t).episode = None
  BY <1>1, <1>2, <1>3 DEF Machines
<1> QED BY <1>4 DEF Good, BaselineInRun, EpisodeFromBaseline

\* What a step finds once the prologue and the bookkeeping of a detection at
\* frame f are done: x is Good, it holds frame f, and the run has begun.
Sighted(x, start, f) ==
    /\ Good(x, start) /\ x.lastFrame = f
    /\ start \in Nat /\ start <= f
    /\ x.missingSince = None /\ x.stream = stream /\ x.stream \in Nat
    /\ x.baseline # None => x.baseline.frame < f

LEMMA DetectedSighted ==
    ASSUME IInv, NEW f \in Nat, NEW t \in Nat, NEW o \in Observations,
           ~OutOfOrder(Adopt(m, stream), f)
    PROVE  Sighted(Detected(Arrived(f, t), o, t), Extend(run, Broken(t), o, f).start, f)
<1> DEFINE x == Arrived(f, t)
           r == Reappear(x)
           d == Detected(x, o, t)
           start == Extend(run, Broken(t), o, f).start
<1>1. /\ Good(x, run.start) /\ x.lastFrame = f /\ x.stream = stream
      /\ x.baseline # None => x.baseline.frame < f /\ ~Broken(t)
      /\ stream \in Nat /\ run.start \in Maybe(Nat) /\ m \in Machines
  BY ArrivedGood DEF IInv, TypeOK, Good
<1>2. /\ start = IF Broken(t) \/ run.start = None THEN f ELSE run.start
      /\ start \in Nat /\ start <= f
  <2>1. start = IF Broken(t) \/ run.start = None THEN f ELSE run.start
    BY Nones DEF Extend, EmptyRun
  <2>2. ASSUME ~Broken(t), run.start # None PROVE run.start \in Nat /\ run.start <= f
    <3>1. run.start \in Nat /\ m.lastFrame # None /\ run.start <= m.lastFrame
      BY <1>1, <2>2 DEF IInv, RunBegun, Maybe
    <3>2. m.lastFrame \in Nat
      BY <1>1, <3>1 DEF Machines, Maybe
    <3>3. Adopt(m, stream) = m
      BY <1>1, <2>2, Nones DEF Broken, Adopt
    <3> QED BY <3>1, <3>2, <3>3 DEF OutOfOrder
  <2> QED BY <2>1, <2>2
<1> HIDE DEF start, x
<1>3. /\ r \in Machines /\ r.missingSince = None /\ r.lastFrame = f /\ r.stream = stream
      /\ r.baseline # None => x = r /\ x.baseline # None
      /\ r.episode # None => x = r
  <2>1. CASE x.missingSince = None
    BY <1>1, <2>1 DEF Reappear, Good
  <2>2. CASE x.missingSince # None
    <3>1. None \in Maybe(Baselines) /\ None \in Maybe(Episodes) /\ None \in Maybe(Positions)
          /\ None \in Maybe(Nat) /\ "UNKNOWN" \in States
      BY DEF Maybe, States
    <3> QED BY <1>1, <2>2, <3>1 DEF Reappear, InvalidateEpisode, Good, Machines
  <2> QED BY <2>1, <2>2
<1>4. d = [r EXCEPT !.detections = @ + 1, !.lastPos = o.pos, !.lastSeenAt = t]
  BY DEF Detected
<1> HIDE DEF r, d
<1>5. /\ d \in Machines /\ d.missingSince = None /\ d.lastFrame = f /\ d.stream = stream
      /\ d.baseline = r.baseline /\ d.episode = r.episode
  <2> DEFINE n == r.detections + 1
  <2>1. o.pos \in Maybe(Positions) /\ t \in Maybe(Nat) /\ n \in Nat
    BY <1>3 DEF Maybe, Observations, Machines
  <2>2. d = [r EXCEPT !.detections = n, !.lastPos = o.pos, !.lastSeenAt = t]
    BY <1>3, <1>4 DEF Machines
  <2> HIDE DEF n
  <2> QED BY <1>3, <2>1, <2>2 DEF Machines
<1>6. r.baseline # None =>
         start = run.start /\ run.start # None /\ r.baseline.frame < f
         /\ run.start <= r.baseline.frame /\ r.baseline.frame \in Nat
  <2> SUFFICES ASSUME r.baseline # None
               PROVE  /\ start = run.start /\ run.start # None /\ r.baseline.frame < f
                      /\ run.start <= r.baseline.frame /\ r.baseline.frame \in Nat
    OBVIOUS
  <2>1. x = r /\ x.baseline # None /\ x.baseline.frame < f /\ ~Broken(t)
    BY <1>1, <1>3
  <2>2. run.start # None /\ run.start <= x.baseline.frame
    BY <1>1, <2>1 DEF Good, BaselineInRun
  <2>3. x.baseline.frame \in Nat
    BY <1>1, <2>1, Nones DEF Good, Machines, Maybe
  <2> QED BY <1>2, <2>1, <2>2, <2>3
<1>7. Good(d, start)
  <2>1. BaselineInRun(d, start)
    BY <1>1, <1>2, <1>5, <1>6, Nones DEF BaselineInRun
  <2>2. EpisodeFromBaseline(d)
    BY <1>1, <1>3, <1>5, Nones DEF Good, EpisodeFromBaseline
  <2> QED BY <1>5, <2>1, <2>2 DEF Good
<1>8. Sighted(d, start, f)
  BY <1>1, <1>2, <1>5, <1>6, <1>7 DEF Sighted
<1> QED BY <1>8 DEF d, x, start

\* What Sighted says of the parts of x, for the helpers that follow.
LEMMA SightedParts ==
    ASSUME NEW x, NEW start, NEW f \in Nat, Sighted(x, start, f)
    PROVE  /\ x \in Machines /\ x.lastFrame = f /\ x.missingSince = None
           /\ x.stream = stream /\ x.stream \in Nat
           /\ start \in Nat /\ start <= f /\ start # None
           /\ x.baseline # None =>
                 x.baseline \in Baselines /\ start <= x.baseline.frame /\ x.baseline.frame < f
           /\ x.episode # None =>
                 x.episode \in Episodes /\ x.baseline # None /\ x.episode.from = x.baseline
                 /\ x.episode.stream = x.stream
BY Nones DEF Sighted, Good, BaselineInRun, EpisodeFromBaseline, Machines, Maybe

\* Helpers that touch neither baseline nor episode keep a sighted machine so.
LEMMA SameEvidence ==
    ASSUME NEW x, NEW y \in Machines, NEW start, NEW f \in Nat, Sighted(x, start, f),
           y.baseline = x.baseline, y.episode = x.episode, y.lastFrame = x.lastFrame,
           y.missingSince = x.missingSince, y.stream = x.stream
    PROVE  Sighted(y, start, f)
BY DEF Sighted, Good, BaselineInRun, EpisodeFromBaseline

LEMMA CountUpdate ==
    ASSUME NEW x \in Machines
    PROVE  LET y == [x EXCEPT !.stable = @ + 1] IN
           /\ y \in Machines /\ y.baseline = x.baseline /\ y.episode = x.episode
           /\ y.lastFrame = x.lastFrame /\ y.missingSince = x.missingSince /\ y.stream = x.stream
<1> DEFINE n == x.stable + 1
<1>1. n \in Nat /\ [x EXCEPT !.stable = @ + 1] = [x EXCEPT !.stable = n]
  BY DEF Machines
<1> HIDE DEF n
<1>2. LET y == [x EXCEPT !.stable = n] IN
      /\ y \in Machines /\ y.baseline = x.baseline /\ y.episode = x.episode
      /\ y.lastFrame = x.lastFrame /\ y.missingSince = x.missingSince /\ y.stream = x.stream
  BY <1>1 DEF Machines
<1> QED BY <1>1, <1>2

LEMMA ReanchorSighted ==
    ASSUME NEW x, NEW start, NEW f \in Nat, NEW t \in Nat, NEW o \in Observations,
           Sighted(x, start, f)
    PROVE  Sighted(Reanchor(x, o, t), start, f) /\ Reanchor(x, o, t).episode = x.episode
<1>1. o.pos \in Maybe(Positions) /\ t \in Maybe(Nat)
  BY DEF Maybe, Observations
<1>2. /\ Reanchor(x, o, t) \in Machines
      /\ Reanchor(x, o, t).baseline = x.baseline /\ Reanchor(x, o, t).episode = x.episode
      /\ Reanchor(x, o, t).lastFrame = x.lastFrame
      /\ Reanchor(x, o, t).missingSince = x.missingSince /\ Reanchor(x, o, t).stream = x.stream
  <2>1. x \in Machines
    BY SightedParts
  <2> DEFINE n == IF o.fast THEN 0 ELSE 1
  <2>2. n \in Nat /\ Reanchor(x, o, t) = [x EXCEPT !.anchor = o.pos, !.anchorSince = t, !.stable = n]
    BY DEF Reanchor
  <2> HIDE DEF n
  <2> QED BY <1>1, <2>1, <2>2 DEF Machines
<1> QED BY <1>2, SameEvidence

LEMMA DwellSighted ==
    ASSUME NEW x, NEW start, NEW f \in Nat, NEW t \in Nat, NEW o \in Observations,
           Sighted(x, start, f)
    PROVE  Sighted(Dwell(x, o, t), start, f) /\ Dwell(x, o, t).episode = x.episode
<1>1. o.pos \in Maybe(Positions) /\ t \in Maybe(Nat) /\ 1 \in Nat
  BY DEF Maybe, Observations
<1>2. /\ Dwell(x, o, t) \in Machines
      /\ Dwell(x, o, t).baseline = x.baseline /\ Dwell(x, o, t).episode = x.episode
      /\ Dwell(x, o, t).lastFrame = x.lastFrame
      /\ Dwell(x, o, t).missingSince = x.missingSince /\ Dwell(x, o, t).stream = x.stream
  <2>1. x \in Machines
    BY SightedParts
  <2>2. CASE x.anchorSince = None
    <3>1. Dwell(x, o, t) = [x EXCEPT !.anchor = o.pos, !.anchorSince = t, !.stable = 1]
      BY <2>2 DEF Dwell
    <3> QED BY <1>1, <2>1, <3>1, ZenonT(60) DEF Machines
  <2>3. CASE x.anchorSince # None
    BY <2>1, <2>3, CountUpdate DEF Dwell
  <2> QED BY <2>2, <2>3
<1> QED BY <1>2, SameEvidence

\* A new baseline at the present frame, once no episode is open.
LEMMA SetBaselineGood ==
    ASSUME NEW x, NEW start, NEW f \in Nat, NEW t \in Nat, NEW o \in Observations,
           x \in Machines, x.episode = None, x.lastFrame = f, x.missingSince = None,
           x.stream \in Nat, start \in Nat, start <= f
    PROVE  Good(SetBaseline(x, o, t, f), start) /\ SetBaseline(x, o, t, f).lastFrame = f
<1> DEFINE b == [pos |-> o.pos, zone |-> o.zone, frame |-> f, at |-> t]
           y == SetBaseline(x, o, t, f)
           w == Beside(o)
<1>1. y = [x EXCEPT !.baseline = b, !.state = w, !.anchor = o.pos, !.anchorSince = t,
                    !.stable = MinStableFrames, !.lastVerified = f]
  BY DEF SetBaseline
<1>2. b \in Baselines /\ b.frame = f /\ w \in States /\ MinStableFrames \in Nat
  BY ThresholdAssumption DEF Observations, Baselines, Beside, States
<1>3. /\ b \in Maybe(Baselines) /\ o.pos \in Maybe(Positions) /\ t \in Maybe(Nat)
      /\ f \in Maybe(Nat)
  BY <1>2 DEF Maybe, Observations
<1> HIDE DEF b, y, w
<1>4. /\ y \in Machines /\ y.baseline = b /\ y.episode = None /\ y.lastFrame = f
      /\ y.missingSince = None /\ y.stream = x.stream
  BY <1>1, <1>2, <1>3 DEF Machines
<1>5. Good(y, start)
  BY <1>2, <1>4, Nones DEF Good, BaselineInRun, EpisodeFromBaseline
<1> QED BY <1>4, <1>5 DEF y

LEMMA StateGood ==
    ASSUME NEW x, NEW start, NEW w \in States, Good(x, start)
    PROVE  LET y == [x EXCEPT !.state = w] IN
           Good(y, start) /\ y.lastFrame = x.lastFrame
<1> DEFINE y == [x EXCEPT !.state = w]
<1>1. /\ y \in Machines /\ y.baseline = x.baseline /\ y.episode = x.episode
      /\ y.lastFrame = x.lastFrame /\ y.missingSince = x.missingSince /\ y.stream = x.stream
  BY DEF Good, Machines
<1> HIDE DEF y
<1>2. Good(y, start) /\ y.lastFrame = x.lastFrame
  BY <1>1 DEF Good, BaselineInRun, EpisodeFromBaseline
<1> QED BY <1>2 DEF y

(***************************************************************************)
(* The ways a detection is handled.                                        *)
(***************************************************************************)
LEMMA AtBaselineSighted ==
    ASSUME NEW x, NEW start, NEW f \in Nat, Sighted(x, start, f)
    PROVE  Sighted(AtBaseline(x, f), start, f) /\ AtBaseline(x, f).episode = x.episode
           /\ AtBaseline(x, f).baseline = x.baseline
<1>1. /\ AtBaseline(x, f) \in Machines
      /\ AtBaseline(x, f).baseline = x.baseline /\ AtBaseline(x, f).episode = x.episode
      /\ AtBaseline(x, f).lastFrame = x.lastFrame
      /\ AtBaseline(x, f).missingSince = x.missingSince /\ AtBaseline(x, f).stream = x.stream
  BY SightedParts, MaybeNat DEF AtBaseline, Machines
<1> QED BY <1>1, SameEvidence

LEMMA AccumulateGood ==
    ASSUME NEW x, NEW start, NEW f \in Nat, NEW t \in Nat, NEW o \in Observations,
           Sighted(x, start, f), x.baseline = None
    PROVE  LET y == AccumulateBaseline(x, o, t, f) IN Good(y, start) /\ y.lastFrame = f
<1> DEFINE y == Dwell(x, o, t)
<1>1. x.episode = None
  BY SightedParts
<1>2. Sighted(y, start, f) /\ y.episode = None
  BY <1>1, DwellSighted
<1>3. CASE ~IsStable(o, x.anchor)
  <2>1. Sighted(Reanchor(x, o, t), start, f)
    BY ReanchorSighted
  <2>2. Good(Reanchor(x, o, t), start) /\ Reanchor(x, o, t).lastFrame = f /\ "UNKNOWN" \in States
    BY <2>1 DEF Sighted, States
  <2> QED BY <1>3, <2>2, StateGood DEF AccumulateBaseline
<1>4. CASE IsStable(o, x.anchor) /\ y.detections >= MinDetectionFrames /\ Settled(y, t)
  BY <1>2, <1>4, SightedParts, SetBaselineGood DEF AccumulateBaseline
<1>5. CASE IsStable(o, x.anchor) /\ ~(y.detections >= MinDetectionFrames /\ Settled(y, t))
  BY <1>2, <1>5 DEF AccumulateBaseline, Sighted
<1> QED BY <1>3, <1>4, <1>5

LEMMA KeepGood ==
    ASSUME NEW x, NEW start, NEW f \in Nat, NEW t \in Nat, NEW o \in Observations,
           Sighted(x, start, f), x.episode = None
    PROVE  LET y == KeepBaseline(x, o, t, f) IN Good(y, start) /\ y.lastFrame = f
<1> DEFINE y == IF IsStable(o, x.anchor) THEN Dwell(x, o, t) ELSE Reanchor(x, o, t)
           z == IF IsStable(o, x.anchor) /\ Settled(y, t) THEN SetBaseline(y, o, t, f) ELSE y
<1>1. Sighted(y, start, f) /\ y.episode = None
  BY DwellSighted, ReanchorSighted
<1> HIDE DEF y
<1>2. Good(z, start) /\ z.lastFrame = f
  <2>1. Good(SetBaseline(y, o, t, f), start) /\ SetBaseline(y, o, t, f).lastFrame = f
    BY <1>1, SightedParts, SetBaselineGood
  <2> QED BY <1>1, <2>1 DEF Sighted
<1>3. KeepBaseline(x, o, t, f) = [z EXCEPT !.state = Beside(o)]
  BY DEF KeepBaseline, y
<1> HIDE DEF z
<1>4. Beside(o) \in States
  BY DEF Beside, States
<1> QED BY <1>2, <1>3, <1>4, StateGood

LEMMA StartGood ==
    ASSUME NEW x, NEW start, NEW f \in Nat, NEW o \in Observations,
           Sighted(x, start, f), x.baseline # None
    PROVE  LET y == StartEpisode(x, o, f) IN Good(y, start) /\ y.lastFrame = f
<1> DEFINE e == [stream |-> x.stream, from |-> x.baseline, started |-> f,
                 detections |-> 1, dest |-> None, stable |-> 0]
           y == StartEpisode(x, o, f)
<1>1. y = [x EXCEPT !.episode = e, !.state = "PICKUP_CANDIDATE", !.anchor = None,
                    !.anchorSince = None, !.stable = 0]
  BY DEF StartEpisode
<1>2. e \in Episodes /\ e.from = x.baseline /\ e.stream = x.stream
  BY SightedParts DEF Episodes, Maybe
<1>3. e \in Maybe(Episodes) /\ None \in Maybe(Positions) /\ None \in Maybe(Nat)
      /\ "PICKUP_CANDIDATE" \in States
  BY <1>2 DEF Maybe, States
<1> HIDE DEF e, y
<1>4. /\ y \in Machines /\ y.baseline = x.baseline /\ y.episode = e /\ y.lastFrame = f
      /\ y.missingSince = x.missingSince /\ y.stream = x.stream
  <2>1. x \in Machines /\ x.lastFrame = f
    BY SightedParts
  <2> QED BY <1>1, <1>3, <2>1 DEF Machines
<1>5. Good(y, start)
  BY <1>2, <1>4 DEF Good, BaselineInRun, EpisodeFromBaseline, Sighted
<1> QED BY <1>4, <1>5 DEF y

LEMMA CarrySighted ==
    ASSUME NEW x, NEW start, NEW f \in Nat, NEW t \in Nat, NEW o \in Observations, NEW prev,
           Sighted(x, start, f), x.episode # None
    PROVE  LET y == Carry(x, prev, o, t) IN
           /\ Sighted(y, start, f) /\ y.episode # None
           /\ y.episode.started = x.episode.started
<1> DEFINE y == Carry(x, prev, o, t)
           e == y.episode
           d == [pos |-> o.pos, zone |-> o.zone, since |-> t]
<1>1. x \in Machines /\ x.episode \in Episodes
  BY SightedParts
<1>2. PICK n \in Nat, g \in Maybe(Destinations), k \in Nat, w \in States :
         y = [x EXCEPT !.state = w,
                !.episode = [x.episode EXCEPT !.detections = n, !.dest = g, !.stable = k]]
  <2> DEFINE n == x.episode.detections + 1
             k == x.episode.stable + 1
  <2>1. n \in Nat /\ k \in Nat /\ x.episode.stable \in Nat /\ x.episode.dest \in Maybe(Destinations)
    BY <1>1 DEF Episodes
  <2>2. d \in Maybe(Destinations) /\ None \in Maybe(Destinations)
    BY DEF Maybe, Destinations, Observations
  <2>3. "PLACED_CANDIDATE" \in States /\ "CARRIED" \in States
    BY DEF States
  <2>4. \/ y = [x EXCEPT !.state = "PLACED_CANDIDATE",
                !.episode = [x.episode EXCEPT !.detections = n, !.dest = d, !.stable = 1]]
        \/ y = [x EXCEPT !.state = "PLACED_CANDIDATE",
                !.episode = [x.episode EXCEPT !.detections = n, !.dest = x.episode.dest, !.stable = k]]
        \/ y = [x EXCEPT !.state = "CARRIED",
                !.episode = [x.episode EXCEPT !.detections = n, !.dest = None, !.stable = 0]]
    BY <1>1 DEF Carry, Episodes
  <2> HIDE DEF n, k, d, y
  <2> QED BY <2>1, <2>2, <2>3, <2>4
<1> HIDE DEF y
<1>3. /\ e \in Episodes /\ e.from = x.episode.from /\ e.stream = x.episode.stream
      /\ e.started = x.episode.started
      /\ y = [x EXCEPT !.state = w, !.episode = e]
  BY <1>1, <1>2 DEF Episodes, Machines
<1> HIDE DEF e
<1>4. /\ y \in Machines /\ y.baseline = x.baseline /\ y.lastFrame = x.lastFrame
      /\ y.episode = e /\ e \in Maybe(Episodes) /\ e # None
      /\ y.missingSince = x.missingSince /\ y.stream = x.stream
  <2>1. e \in Maybe(Episodes)
    BY <1>3 DEF Maybe
  <2>2. e # None
    BY <1>3, Nones
  <2> QED BY <1>1, <1>3, <2>1, <2>2 DEF Machines
<1>5. Sighted(y, start, f)
  BY <1>3, <1>4, SightedParts DEF Sighted, Good, BaselineInRun, EpisodeFromBaseline
<1> QED BY <1>3, <1>4, <1>5 DEF y

LEMMA PacketNat == ASSUME IInv, NEW p \in Packets PROVE p[1] \in Nat /\ p[2] \in Nat
BY ThresholdAssumption DEF IInv, TypeOK, Packets

\* Every action of a confident detection starts from a sighted machine.
LEMMA SightStep ==
    ASSUME IInv, NEW f \in Nat, NEW t \in Nat, NEW o \in Observations, Sight(f, t, o)
    PROVE  /\ Sighted(Detected(Arrived(f, t), o, t), run'.start, f)
           /\ sent' = f /\ now' = t /\ stream' = stream /\ active' = active
BY DetectedSighted DEF Sight, Frame, Take

\* And it is enough that it ends in a good machine that holds frame f.
LEMMA SightEnds ==
    ASSUME IInv, NEW f \in Nat, NEW t \in Nat, NEW o \in Observations, Sight(f, t, o),
           Good(m', run'.start), m'.lastFrame = f, event' \in Maybe(Events)
    PROVE  IInv'
<1>1. run'.start \in Nat /\ run'.start <= f
  BY SightStep, SightedParts
<1>2. TypeOK'
  BY <1>1, SightStep DEF IInv, TypeOK, Good, Maybe
<1>3. RunBegun'
  BY <1>1, Nones DEF RunBegun
<1> QED BY <1>2, <1>3 DEF IInv

LEMMA CarriedSighted ==
    ASSUME IInv, NEW f \in Nat, NEW t \in Nat, NEW o \in Observations, InEpisode(f, t, o)
    PROVE  Sighted(Carried(f, t, o), run'.start, f) /\ Carried(f, t, o).episode # None
<1> DEFINE x == Detected(Arrived(f, t), o, t)
<1>1. Sighted(x, run'.start, f) /\ x.episode # None
  BY SightStep DEF InEpisode
<1>2. Sighted(AtBaseline(x, f), run'.start, f) /\ AtBaseline(x, f).episode # None
  BY <1>1, AtBaselineSighted
<1> QED BY <1>2, CarrySighted DEF Carried

\* Closing an episode: m loses it and takes the present frame as baseline.
LEMMA CloseGood ==
    ASSUME NEW x, NEW start, NEW f \in Nat, NEW t \in Nat, NEW o \in Observations,
           Sighted(x, start, f), x.episode # None
    PROVE  /\ Good(DropEpisode(x, o, t, f), start) /\ DropEpisode(x, o, t, f).lastFrame = f
           /\ Good(FinishEpisode(x, o, t, f), start) /\ FinishEpisode(x, o, t, f).lastFrame = f
<1> DEFINE y == [x EXCEPT !.episode = None]
           id == MovementId(x.episode)
           z == [x EXCEPT !.episode = None, !.lastEmitted = id]
           w == IF o.mode = "experimental" /\ ~o.surface THEN "VISIBLE_STATIC" ELSE "PLACED_CONFIRMED"
<1>1. x \in Machines /\ x.lastFrame = f /\ x.missingSince = None /\ x.stream \in Nat
      /\ start \in Nat /\ start <= f /\ x.episode \in Episodes
  BY SightedParts
<1>2. id \in Maybe(MovementIds) /\ None \in Maybe(Episodes)
  BY <1>1 DEF MovementId, MovementIds, Maybe, Episodes
<1> HIDE DEF id
<1>3. /\ y \in Machines /\ y.episode = None /\ y.lastFrame = f /\ y.missingSince = None
      /\ y.stream \in Nat
  BY <1>1, <1>2 DEF Machines
<1>4. /\ z \in Machines /\ z.episode = None /\ z.lastFrame = f /\ z.missingSince = None
      /\ z.stream \in Nat
  BY <1>1, <1>2 DEF Machines
<1>5. w \in States
  BY DEF States
<1>6. /\ DropEpisode(x, o, t, f) = SetBaseline(y, o, t, f)
      /\ FinishEpisode(x, o, t, f) = [SetBaseline(z, o, t, f) EXCEPT !.state = w]
  BY DEF DropEpisode, FinishEpisode, id
<1> HIDE DEF y, z, w
<1>7. Good(SetBaseline(y, o, t, f), start) /\ SetBaseline(y, o, t, f).lastFrame = f
  BY <1>1, <1>3, SetBaselineGood
<1>8. Good(SetBaseline(z, o, t, f), start) /\ SetBaseline(z, o, t, f).lastFrame = f
  BY <1>1, <1>4, SetBaselineGood
<1> QED BY <1>5, <1>6, <1>7, <1>8, StateGood

\* The emitted event, its type and its evidence.
LEMMA EmitEvidence ==
    ASSUME IInv, NEW f \in Nat, NEW t \in Nat, NEW o \in Observations, EmitMovement(f, t, o)
    PROVE  /\ event' \in Events /\ event'.stream = stream
           /\ run'.start # None /\ run'.start <= event'.start /\ event'.start < event'.end
<1> DEFINE x == Carried(f, t, o)
           e == x.episode
<1>1. InEpisode(f, t, o) /\ event' = EventOf(e, o, f)
  BY DEF EmitMovement
<1>2. Sighted(x, run'.start, f) /\ e # None
  BY <1>1, CarriedSighted
<1>3. /\ e \in Episodes /\ e.from = x.baseline /\ e.stream = x.stream
      /\ run'.start # None /\ run'.start <= x.baseline.frame /\ x.baseline.frame < f
  BY <1>2, SightedParts
<1>4. x.stream = stream
  BY <1>2, SightedParts
<1> HIDE DEF x, e
<1>5. EventOf(e, o, f) \in Events /\ EventOf(e, o, f).start = e.from.frame
      /\ EventOf(e, o, f).end = f /\ EventOf(e, o, f).stream = e.stream
  BY <1>3 DEF EventOf, Events, MovementId, MovementIds, Episodes, Baselines, Observations
<1> QED BY <1>1, <1>3, <1>4, <1>5 DEF e, x

(***************************************************************************)
(* The inductive step, one case per action.                                *)
(***************************************************************************)
LEMMA UpdateStep ==
    ASSUME IInv, NEW f \in Nat, NEW t \in Nat,
           RejectFrame(f, t) \/ MissItem(f, t)
    PROVE  IInv' /\ event' = event
<1>1. stream \in Nat /\ run.start \in Maybe(Nat) /\ Good(m, run.start) /\ TypeOK
  BY DEF IInv, TypeOK
<1>2. CASE RejectFrame(f, t)
  <2>1. Good(m', run.start) /\ m' = Adopt(m, stream) /\ m'.lastFrame # None
    BY <1>1, <1>2, AdoptGood DEF RejectFrame, OutOfOrder
  <2>2. m'.lastFrame = m.lastFrame
    <3>1. m \in Machines
      BY <1>1 DEF Good
    <3>2. CASE m.stream = None
      <4>1. m' = [m EXCEPT !.stream = stream]
        BY <2>1, <3>2 DEF Adopt
      <4> QED BY <3>1, <4>1 DEF Machines
    <3>3. CASE m.stream # None
      BY <1>1, <2>1, <3>1, <3>3, ResetGood DEF Adopt
    <3> QED BY <3>2, <3>3
  <2>3. run' = run /\ event' = event /\ sent' = f /\ now' = t /\ stream' = stream /\ active' = active
    BY <1>2 DEF RejectFrame, Take
  <2>4. Good(m', run'.start)
    BY <2>1, <2>3
  <2>5. TypeOK'
    BY <1>1, <2>3, <2>4 DEF Good, TypeOK
  <2>6. RunBegun'
    BY <2>2, <2>3 DEF IInv, RunBegun
  <2> QED BY <2>3, <2>4, <2>5, <2>6 DEF IInv
<1>3. CASE MissItem(f, t)
  <2>1. Good(Arrived(f, t), run.start)
    BY <1>3, ArrivedGood DEF MissItem, Frame
  <2>2. Good(m', None)
    BY <1>1, <1>3, <2>1, MissingGood DEF MissItem
  <2>3. run' = EmptyRun /\ run'.start = None
    BY <1>3 DEF MissItem, EmptyRun
  <2> QED BY <1>1, <1>3, <2>2, <2>3
          DEF MissItem, Frame, Take, TypeOK, IInv, RunBegun, Good, Maybe
<1> QED BY <1>2, <1>3

LEMMA DetectionStep ==
    ASSUME IInv, NEW f \in Nat, NEW t \in Nat, NEW o \in Observations,
           \/ BuildBaseline(f, t, o) \/ Rest(f, t, o) \/ PickUp(f, t, o)
           \/ MoveOn(f, t, o) \/ AbandonMovement(f, t, o) \/ EmitMovement(f, t, o)
    PROVE  IInv'
<1> DEFINE d == Detected(Arrived(f, t), o, t)
           x == AtBaseline(d, f)
           c == Carried(f, t, o)
<1>1. event \in Maybe(Events)
  BY DEF IInv, TypeOK
<1>2. ASSUME Sight(f, t, o)
      PROVE  /\ Sighted(d, run'.start, f)
             /\ Sighted(x, run'.start, f) /\ x.episode = d.episode /\ x.baseline = d.baseline
  BY <1>2, SightStep, AtBaselineSighted
<1>3. ASSUME InEpisode(f, t, o) PROVE Sighted(c, run'.start, f) /\ c.episode # None /\ Sight(f, t, o)
  BY <1>3, CarriedSighted DEF InEpisode
<1>4. CASE BuildBaseline(f, t, o)
  <2>1. Sight(f, t, o) /\ d.baseline = None /\ m' = AccumulateBaseline(d, o, t, f) /\ event' = event
    BY <1>4 DEF BuildBaseline
  <2>2. Sighted(d, run'.start, f)
    BY <1>2, <2>1
  <2> HIDE DEF d
  <2>3. Good(m', run'.start) /\ m'.lastFrame = f
    BY <2>1, <2>2, AccumulateGood
  <2> QED BY <1>1, <2>1, <2>3, SightEnds
<1>5. CASE Rest(f, t, o)
  <2>1. /\ Sight(f, t, o) /\ x.episode = None /\ m' = KeepBaseline(x, o, t, f)
        /\ event' = event
    BY <1>5 DEF Rest
  <2>2. Sighted(x, run'.start, f)
    BY <1>2, <2>1
  <2> HIDE DEF x
  <2>3. Good(m', run'.start) /\ m'.lastFrame = f
    BY <2>1, <2>2, KeepGood
  <2> QED BY <1>1, <2>1, <2>3, SightEnds
<1>6. CASE PickUp(f, t, o)
  <2>1. /\ Sight(f, t, o) /\ x.baseline # None /\ m' = StartEpisode(x, o, f)
        /\ event' = event
    BY <1>6 DEF PickUp
  <2>2. Sighted(x, run'.start, f)
    BY <1>2, <2>1
  <2> HIDE DEF x
  <2>3. Good(m', run'.start) /\ m'.lastFrame = f
    BY <2>1, <2>2, StartGood
  <2> QED BY <1>1, <2>1, <2>3, SightEnds
<1>7. CASE MoveOn(f, t, o)
  <2>1. InEpisode(f, t, o) /\ m' = c /\ event' = event
    BY <1>7 DEF MoveOn
  <2>2. Good(m', run'.start) /\ m'.lastFrame = f /\ Sight(f, t, o)
    BY <1>3, <2>1 DEF Sighted
  <2> QED BY <1>1, <2>1, <2>2, SightEnds
<1>8. CASE AbandonMovement(f, t, o)
  <2>1. InEpisode(f, t, o) /\ m' = DropEpisode(c, o, t, f) /\ event' = event
    BY <1>8 DEF AbandonMovement
  <2>2. Sighted(c, run'.start, f) /\ c.episode # None /\ Sight(f, t, o)
    BY <1>3, <2>1
  <2> HIDE DEF c
  <2>3. Good(m', run'.start) /\ m'.lastFrame = f
    BY <2>1, <2>2, CloseGood
  <2> QED BY <1>1, <2>1, <2>2, <2>3, SightEnds
<1>9. CASE EmitMovement(f, t, o)
  <2>1. InEpisode(f, t, o) /\ m' = FinishEpisode(c, o, t, f)
    BY <1>9 DEF EmitMovement
  <2>2. Sighted(c, run'.start, f) /\ c.episode # None /\ Sight(f, t, o)
    BY <1>3, <2>1
  <2>3. event' \in Maybe(Events)
    BY <1>9, EmitEvidence DEF Maybe
  <2> HIDE DEF c
  <2>4. Good(m', run'.start) /\ m'.lastFrame = f
    BY <2>1, <2>2, CloseGood
  <2> QED BY <2>2, <2>3, <2>4, SightEnds
<1> QED BY <1>4, <1>5, <1>6, <1>7, <1>8, <1>9

LEMMA InputsObserved == Inputs \subseteq Observations
BY InputsAssumption

LEMMA InitIInv == Init => IInv
<1> SUFFICES ASSUME Init PROVE IInv
  OBVIOUS
<1>1. Good(Fresh, None)
  BY FreshGood DEF Maybe
<1> QED BY <1>1 DEF Init, IInv, TypeOK, RunBegun, EmptyRun, Good, Maybe

\* One step keeps the invariant, and an event it emits has its evidence.
LEMMA Inductive ==
    ASSUME IInv, [Next]_vars
    PROVE  /\ IInv'
           /\ event' # event => /\ event'.stream = stream
                                /\ run'.start # None /\ run'.start <= event'.start
                                /\ event'.start < event'.end
<1>1. CASE UNCHANGED vars
  BY <1>1 DEF vars, IInv, TypeOK, Good, BaselineInRun, EpisodeFromBaseline, RunBegun
<1>2. CASE Update
  <2>1. PICK p \in Packets :
           \/ RejectFrame(p[1], p[2]) \/ MissItem(p[1], p[2])
           \/ \E o \in Inputs :
                 \/ BuildBaseline(p[1], p[2], o) \/ Rest(p[1], p[2], o) \/ PickUp(p[1], p[2], o)
                 \/ MoveOn(p[1], p[2], o) \/ AbandonMovement(p[1], p[2], o)
                 \/ EmitMovement(p[1], p[2], o)
    BY <1>2 DEF Update
  <2> DEFINE f == p[1]
             t == p[2]
  <2>2. f \in Nat /\ t \in Nat
    BY PacketNat
  <2> HIDE DEF f, t
  <2>3. CASE RejectFrame(f, t) \/ MissItem(f, t)
    BY <2>2, <2>3, UpdateStep
  <2>4. ASSUME NEW o \in Inputs,
               \/ BuildBaseline(f, t, o) \/ Rest(f, t, o) \/ PickUp(f, t, o)
               \/ MoveOn(f, t, o) \/ AbandonMovement(f, t, o)
        PROVE  IInv' /\ event' = event
    <3>1. o \in Observations
      BY InputsObserved
    <3>2. IInv'
      BY <2>2, <2>4, <3>1, DetectionStep
    <3>3. event' = event
      BY <2>4 DEF BuildBaseline, Rest, PickUp, MoveOn, AbandonMovement
    <3> QED BY <3>2, <3>3
  <2>5. ASSUME NEW o \in Inputs, EmitMovement(f, t, o)
        PROVE  /\ IInv' /\ event'.stream = stream
               /\ run'.start # None /\ run'.start <= event'.start /\ event'.start < event'.end
    <3>1. o \in Observations
      BY InputsObserved
    <3> QED BY <2>2, <2>5, <3>1, DetectionStep, EmitEvidence
  <2> QED BY <2>1, <2>3, <2>4, <2>5 DEF f, t
<1>3. CASE SourceRestart
  <2>1. TypeOK'
    BY <1>3 DEF SourceRestart, IInv, TypeOK
  <2> QED BY <1>3, <2>1 DEF SourceRestart, IInv, Good, BaselineInRun, EpisodeFromBaseline, RunBegun
<1>4. CASE EngineReset
  <2>1. m \in Machines /\ stream \in Nat /\ None \in Maybe(Nat) /\ run' = EmptyRun /\ run'.start = None
    BY <1>4 DEF EngineReset, IInv, TypeOK, EmptyRun, Maybe
  <2>2. Good(m', None)
    BY <1>4, <2>1, ResetGood DEF EngineReset
  <2> QED BY <1>4, <2>1, <2>2 DEF EngineReset, IInv, TypeOK, RunBegun, Good
<1>5. CASE ProfileRebuild
  <2>1. None \in Maybe(Nat) /\ run' = EmptyRun /\ run'.start = None
    BY <1>5 DEF ProfileRebuild, EmptyRun, Maybe
  <2>2. Good(m', None)
    BY <1>5, <2>1, FreshGood DEF ProfileRebuild
  <2> QED BY <1>5, <2>1, <2>2 DEF ProfileRebuild, IInv, TypeOK, RunBegun, Good
<1> QED BY <1>1, <1>2, <1>3, <1>4, <1>5 DEF Next

(***************************************************************************)
(* What the observer keeps, and how the machine's counters follow it.  The *)
(* machine counts stable detections only within the present run, so it     *)
(* never claims more than the run shows; a baseline needs MinStableFrames  *)
(* of them; and the detections an episode counts at its destination are    *)
(* the last ones of the run, each slow, hands-free and near it.            *)
(***************************************************************************)
Shown == [frame : Nat, pos : Positions, zone : Places, slow : BOOLEAN, free : BOOLEAN]
Shows(o, f) ==
    [frame |-> f, pos |-> o.pos, zone |-> o.zone, slow |-> ~o.fast, free |-> ~o.hand /\ ~o.held]

Kept(rec, last) ==
    /\ rec \in Seq(Shown) /\ Len(rec) <= MinStableFrames
    /\ \A i \in 1..Len(rec) : /\ last # None /\ rec[i].frame <= last
                              /\ i > 1 => rec[i - 1].frame < rec[i].frame

Near(s, d) == s.slow /\ s.free /\ s.zone = d.zone /\ Dist(d.pos, s.pos) <= Jitter
Stood(rec, d, n) == \A i \in 1..Len(rec) : i + n > Len(rec) => Near(rec[i], d)
Full(rec) == Len(rec) = MinStableFrames

Standing(e, rec) == e # None /\ e.dest # None => Stood(rec, e.dest, e.stable)
Counted(x, rec) ==
    /\ x.stream = None => x.stable = 0
    /\ x.missingSince = None => x.stable <= Len(rec) \/ Full(rec)
    /\ x.baseline # None => Full(rec)
    /\ Standing(x.episode, rec)

\* The last event ended no later than the baseline of its session was taken,
\* and lies in the past.
Later(x) == event # None /\ x.baseline # None /\ x.stream = event.stream =>
                event.end <= x.baseline.frame
EventPast == event # None => event.stream <= stream /\ (event.stream = stream => event.end <= sent)

Witnessed == Kept(run.recent, m.lastFrame) /\ Counted(m, run.recent) /\ Later(m) /\ EventPast
Sound == IInv /\ Witnessed

\* The observer's sequence after one more detection: what it drops and keeps.
LEMMA LastOfAppend ==
    ASSUME NEW s \in Seq(Shown), NEW e \in Shown, Len(s) <= MinStableFrames
    PROVE  LET rec == LastOf(Append(s, e), MinStableFrames)
               k == IF Full(s) THEN 1 ELSE 0
           IN /\ rec \in Seq(Shown) /\ Len(rec) = Len(s) + 1 - k
              /\ rec[Len(rec)] = e
              /\ \A i \in 1..(Len(rec) - 1) : rec[i] = s[i + k] /\ i + k \in 1..Len(s)
<1> DEFINE a == Append(s, e)
           rec == LastOf(a, MinStableFrames)
           k == IF Full(s) THEN 1 ELSE 0
<1>1. /\ a \in Seq(Shown) /\ Len(a) = Len(s) + 1 /\ a[Len(s) + 1] = e
      /\ \A i \in 1..Len(s) : a[i] = s[i]
  BY AppendProperties
<1>2. Len(s) \in Nat /\ MinStableFrames \in Nat /\ MinStableFrames >= 2
  BY ThresholdAssumption
<1>3. CASE Full(s)
  <2>1. Len(s) = MinStableFrames /\ k = 1
    BY <1>3 DEF Full
  <2>2. rec = SubSeq(a, 2, Len(a))
    BY <1>1, <1>2, <2>1 DEF LastOf
  <2>3. \A i \in 2..Len(a) : a[i] \in Shown
    BY <1>1, <1>2
  <2>4. Len(a) \in Int /\ 2 \in Int /\ 2 <= Len(a)
    BY <1>1, <1>2, <2>1
  <2>5. /\ rec \in Seq(Shown) /\ Len(rec) = Len(a) - 2 + 1
        /\ \A i \in 1..(Len(a) - 2 + 1) : rec[i] = a[2 + i - 1]
    <3> HIDE DEF a, rec
    <3> QED BY <2>2, <2>3, <2>4, SubSeqProperties
  <2> HIDE DEF a, rec, k
  <2>6. rec \in Seq(Shown) /\ Len(rec) = Len(s) + 1 - k
    BY <1>1, <1>2, <2>1, <2>5
  <2>7. rec[Len(rec)] = a[Len(s) + 1]
    BY <1>1, <1>2, <2>1, <2>5
  <2>8. ASSUME NEW i \in 1..(Len(rec) - 1) PROVE rec[i] = s[i + k] /\ i + k \in 1..Len(s)
    <3>1. i \in 1..(Len(a) - 2 + 1) /\ i + k \in 1..Len(s) /\ 2 + i - 1 = i + k
      BY <1>1, <1>2, <2>1, <2>6
    <3> QED BY <1>1, <2>5, <3>1
  <2> QED BY <1>1, <2>6, <2>7, <2>8 DEF a, rec, k
<1>4. CASE ~Full(s)
  <2>1. Len(a) <= MinStableFrames /\ k = 0
    BY <1>1, <1>2, <1>4 DEF Full
  <2>2. rec = a
    BY <1>1, <1>2, <2>1 DEF LastOf
  <2> HIDE DEF a, rec, k
  <2>3. rec \in Seq(Shown) /\ Len(rec) = Len(s) + 1 - k /\ rec[Len(rec)] = e
    BY <1>1, <1>2, <2>1, <2>2
  <2>4. ASSUME NEW i \in 1..(Len(rec) - 1) PROVE rec[i] = s[i + k] /\ i + k \in 1..Len(s)
    BY <1>1, <1>2, <2>1, <2>2
  <2> QED BY <2>3, <2>4 DEF a, rec, k
<1> QED BY <1>3, <1>4

LEMMA ExtendRecent ==
    ASSUME NEW r, NEW broken \in BOOLEAN, NEW o \in Observations, NEW f \in Nat, NEW last,
           Kept(r.recent, last), ~broken => (last # None => last \in Nat /\ last < f)
    PROVE  LET rec == Extend(r, broken, o, f).recent IN
           /\ Kept(rec, f) /\ Len(rec) >= 1 /\ rec[Len(rec)] = Shows(o, f)
           /\ ~broken => Full(rec) \/ Len(rec) = Len(r.recent) + 1
           /\ ~broken /\ Full(r.recent) => Full(rec)
           /\ \A d : Near(Shows(o, f), d) => Stood(rec, d, 1)
           /\ ~broken => \A d : \A n \in Nat : 
                 Stood(r.recent, d, n) /\ Near(Shows(o, f), d) => Stood(rec, d, n + 1)
<1> DEFINE s == IF broken THEN <<>> ELSE r.recent
           e == Shows(o, f)
           rec == LastOf(Append(s, e), MinStableFrames)
           k == IF Full(s) THEN 1 ELSE 0
<1>1. Extend(r, broken, o, f).recent = rec
  BY DEF Extend, EmptyRun, Shows
<1>2. MinStableFrames \in Nat /\ MinStableFrames >= 2 /\ e \in Shown /\ e.frame = f
  BY ThresholdAssumption DEF Shows, Shown, Observations
<1>3. s \in Seq(Shown) /\ Len(s) \in Nat /\ Len(s) <= MinStableFrames
  <2>1. r.recent \in Seq(Shown) /\ Len(r.recent) <= MinStableFrames
    BY DEF Kept
  <2> QED BY <1>2, <2>1
<1>4. \A i \in 1..Len(s) : /\ s[i].frame \in Nat /\ s[i].frame < f
                           /\ i > 1 => s[i - 1].frame < s[i].frame
  <2>1. CASE broken
    <3>1. Len(s) = 0
      BY <2>1
    <3> QED BY <3>1
  <2>2. CASE ~broken
    <3>1. s = r.recent
      BY <2>2
    <3> HIDE DEF s
    <3>2. ASSUME NEW i \in 1..Len(s) PROVE /\ s[i].frame \in Nat /\ s[i].frame < f
                                           /\ i > 1 => s[i - 1].frame < s[i].frame
      <4>1. s[i] \in Shown
        BY <1>3
      <4>2. s[i].frame \in Nat
        BY <4>1 DEF Shown
      <4>3. last # None /\ s[i].frame <= last /\ (i > 1 => s[i - 1].frame < s[i].frame)
        BY <3>1 DEF Kept
      <4> QED BY <2>2, <4>2, <4>3
    <3> QED BY <3>2
  <2> QED BY <2>1, <2>2
<1> HIDE DEF e, s
<1>5. /\ rec \in Seq(Shown) /\ Len(rec) = Len(s) + 1 - k /\ rec[Len(rec)] = e
      /\ \A i \in 1..(Len(rec) - 1) : rec[i] = s[i + k] /\ i + k \in 1..Len(s)
  BY <1>2, <1>3, LastOfAppend
<1>6. k \in {0, 1} /\ (k = 1 <=> Len(s) = MinStableFrames)
  BY DEF Full
<1> HIDE DEF rec, k
<1>7. Len(rec) \in Nat /\ Len(rec) >= 1 /\ Len(rec) <= MinStableFrames
  BY <1>2, <1>3, <1>5, <1>6
<1>8. ASSUME NEW i \in 1..Len(rec) PROVE rec[i].frame <= f /\ (i > 1 => rec[i - 1].frame < rec[i].frame)
  <2>1. CASE i = Len(rec)
    <3>1. rec[i].frame = f
      BY <1>2, <1>5, <2>1
    <3>2. ASSUME i > 1 PROVE rec[i - 1].frame < f
      <4>1. i - 1 \in 1..(Len(rec) - 1)
        BY <1>7, <2>1, <3>2
      <4> QED BY <1>4, <1>5, <4>1
    <3> QED BY <3>1, <3>2
  <2>2. CASE i # Len(rec)
    <3>1. i \in 1..(Len(rec) - 1)
      BY <1>7, <2>2
    <3>2. rec[i] = s[i + k] /\ i + k \in 1..Len(s)
      BY <1>5, <3>1
    <3>3. rec[i].frame < f /\ rec[i].frame \in Nat
      BY <1>4, <3>2
    <3>4. ASSUME i > 1 PROVE rec[i - 1].frame < rec[i].frame
      <4>1. i - 1 \in 1..(Len(rec) - 1)
        BY <1>7, <3>1, <3>4
      <4>2. rec[i - 1] = s[(i - 1) + k]
        BY <1>5, <4>1
      <4>3. i + k > 1 /\ (i - 1) + k = (i + k) - 1
        BY <1>6, <3>4
      <4> QED BY <1>4, <3>2, <4>2, <4>3
    <3> QED BY <3>3, <3>4
  <2> QED BY <2>1, <2>2
<1>9. Kept(rec, f)
  BY <1>5, <1>7, <1>8, NoneAssumption DEF Kept
<1>10. ~broken => s = r.recent
  BY DEF s
<1>11. ~broken => Full(rec) \/ Len(rec) = Len(r.recent) + 1
  BY <1>3, <1>5, <1>6, <1>10 DEF Full
<1>12. ~broken /\ Full(r.recent) => Full(rec)
  BY <1>3, <1>5, <1>6, <1>10 DEF Full
<1>13. ASSUME NEW d, Near(e, d) PROVE Stood(rec, d, 1)
  <2> SUFFICES ASSUME NEW i \in 1..Len(rec), i + 1 > Len(rec) PROVE Near(rec[i], d)
    BY DEF Stood
  <2>1. i = Len(rec)
    BY <1>7
  <2> QED BY <1>5, <1>13, <2>1
<1>14. ASSUME ~broken, NEW d, NEW n \in Nat, Stood(r.recent, d, n), Near(e, d)
       PROVE  Stood(rec, d, n + 1)
  <2> SUFFICES ASSUME NEW i \in 1..Len(rec), i + (n + 1) > Len(rec) PROVE Near(rec[i], d)
    BY DEF Stood
  <2>1. CASE i = Len(rec)
    BY <1>5, <1>14, <2>1
  <2>2. CASE i # Len(rec)
    <3>1. i \in 1..(Len(rec) - 1)
      BY <1>7, <2>2
    <3>2. rec[i] = s[i + k] /\ i + k \in 1..Len(s)
      BY <1>5, <3>1
    <3>3. (i + k) + n > Len(s)
      BY <1>3, <1>5, <1>6
    <3> QED BY <1>10, <1>14, <3>2, <3>3 DEF Stood
  <2> QED BY <2>1, <2>2
<1> QED BY <1>1, <1>5, <1>7, <1>9, <1>11, <1>12, <1>13, <1>14 DEF e

(***************************************************************************)
(* What each way of handling a detection does to the counters.  Ready says *)
(* of a machine whose present detection is not yet counted what Counted    *)
(* will say once it is; Follows, that a new baseline or a new verified     *)
(* frame is the present one.                                               *)
(***************************************************************************)
Ready(x, rec) ==
    /\ Len(rec) \in 1..MinStableFrames
    /\ x.stable + 1 <= Len(rec) \/ Full(rec)
    /\ x.baseline # None => Full(rec)

Follows(y, x, f) ==
    /\ y.baseline = x.baseline \/ (y.baseline # None /\ y.baseline.frame = f)
    /\ y.lastVerified = x.lastVerified \/ (y.lastVerified = f /\ y.baseline # None)
    /\ y.stream = x.stream

SameParts(y, x) ==
    /\ y.baseline = x.baseline /\ y.lastVerified = x.lastVerified
    /\ y.stream = x.stream /\ y.missingSince = x.missingSince

\* A machine of which at most one more frame is counted.
LEMMA Recounted ==
    ASSUME NEW x, NEW y, NEW rec, NEW f \in Nat, NEW start, Sighted(x, start, f), Ready(x, rec),
           SameParts(y, x), y.episode = None, y.stable \in Nat, y.stable <= x.stable + 1 \/ y.stable <= 1
    PROVE  Counted(y, rec) /\ Follows(y, x, f)
<1>1. x.stream # None /\ x.missingSince = None /\ x.stable \in Nat
  BY SightedParts, Nones DEF Machines
<1> QED BY <1>1, Nones DEF Counted, Ready, SameParts, Follows, Standing

LEMMA ReanchorParts ==
    ASSUME NEW x \in Machines, NEW t \in Nat, NEW o \in Observations
    PROVE  LET y == Reanchor(x, o, t) IN
           SameParts(y, x) /\ y.episode = x.episode /\ y.stable \in {0, 1}
<1> DEFINE n == IF o.fast THEN 0 ELSE 1
<1>1. n \in {0, 1} /\ Reanchor(x, o, t) = [x EXCEPT !.anchor = o.pos, !.anchorSince = t, !.stable = n]
  BY DEF Reanchor
<1> HIDE DEF n
<1> QED BY <1>1 DEF Machines, SameParts

LEMMA DwellParts ==
    ASSUME NEW x \in Machines, NEW t \in Nat, NEW o \in Observations
    PROVE  LET y == Dwell(x, o, t) IN
           /\ SameParts(y, x) /\ y.episode = x.episode
           /\ y.stable \in Nat /\ (y.stable <= x.stable + 1 \/ y.stable <= 1)
<1> DEFINE y == Dwell(x, o, t)
           n == x.stable + 1
<1>1. n \in Nat
  BY DEF Machines
<1>2. CASE x.anchorSince = None
  <2>1. y = [x EXCEPT !.anchor = o.pos, !.anchorSince = t, !.stable = 1]
    BY <1>2 DEF Dwell
  <2> HIDE DEF y
  <2>2. SameParts(y, x) /\ y.episode = x.episode /\ y.stable = 1
    BY <2>1 DEF Machines, SameParts
  <2> QED BY <2>2 DEF y
<1>3. CASE x.anchorSince # None
  <2>1. y = [x EXCEPT !.stable = n]
    BY <1>3 DEF Dwell, Machines
  <2> HIDE DEF y, n
  <2>2. SameParts(y, x) /\ y.episode = x.episode /\ y.stable = n
    BY <2>1 DEF Machines, SameParts
  <2> QED BY <1>1, <2>2 DEF n, y
<1> QED BY <1>2, <1>3

LEMMA SetBaselineParts ==
    ASSUME NEW x \in Machines, NEW t \in Nat, NEW o \in Observations, NEW f \in Nat
    PROVE  LET y == SetBaseline(x, o, t, f) IN
           /\ y.baseline # None /\ y.baseline.frame = f /\ y.lastVerified = f
           /\ y.stable = MinStableFrames /\ y.episode = x.episode
           /\ y.stream = x.stream /\ y.missingSince = x.missingSince
<1> DEFINE b == [pos |-> o.pos, zone |-> o.zone, frame |-> f, at |-> t]
           w == Beside(o)
           y == SetBaseline(x, o, t, f)
<1>1. y = [x EXCEPT !.baseline = b, !.state = w, !.anchor = o.pos, !.anchorSince = t,
                    !.stable = MinStableFrames, !.lastVerified = f]
  BY DEF SetBaseline
<1>2. b \in Baselines /\ b.frame = f
  BY DEF Baselines, Observations
<1>3. b # None
  BY <1>2, Nones
<1> HIDE DEF b, w, y
<1>4. /\ y.baseline = b /\ y.lastVerified = f /\ y.stable = MinStableFrames /\ y.episode = x.episode
      /\ y.stream = x.stream /\ y.missingSince = x.missingSince
  BY <1>1 DEF Machines
<1> QED BY <1>2, <1>3, <1>4 DEF y

\* A new baseline at the present frame, of a machine without an episode.
LEMMA BaselineCounts ==
    ASSUME NEW x, NEW y \in Machines, NEW t \in Nat, NEW o \in Observations, NEW f \in Nat, NEW rec,
           y.stream # None, y.stream = x.stream, y.episode = None, Full(rec)
    PROVE  LET z == SetBaseline(y, o, t, f) IN
           /\ Counted(z, rec) /\ Follows(z, x, f) /\ z.baseline # None
           /\ z.episode = None /\ z.lastVerified = f /\ z.stream = y.stream /\ z.missingSince = y.missingSince
<1> DEFINE z == SetBaseline(y, o, t, f)
<1>1. /\ z.baseline # None /\ z.baseline.frame = f /\ z.lastVerified = f /\ z.stable = MinStableFrames
      /\ z.episode = None /\ z.stream = y.stream /\ z.missingSince = y.missingSince
  BY SetBaselineParts
<1> HIDE DEF z
<1>2. Counted(z, rec) /\ Follows(z, x, f)
  BY <1>1 DEF Counted, Follows, Standing
<1> QED BY <1>1, <1>2 DEF z

\* The state alone changes nothing of it.
LEMMA StateCounts ==
    ASSUME NEW x, NEW y \in Machines, NEW f, NEW rec, NEW w, Counted(y, rec), Follows(y, x, f)
    PROVE  LET z == [y EXCEPT !.state = w] IN Counted(z, rec) /\ Follows(z, x, f)
<1> DEFINE z == [y EXCEPT !.state = w]
<1>1. /\ z.baseline = y.baseline /\ z.lastVerified = y.lastVerified /\ z.stream = y.stream
      /\ z.missingSince = y.missingSince /\ z.stable = y.stable /\ z.episode = y.episode
  BY DEF Machines
<1> HIDE DEF z
<1>2. Counted(z, rec) /\ Follows(z, x, f)
  BY <1>1 DEF Counted, Follows
<1> QED BY <1>2 DEF z

\* MinStableFrames counted detections are as many shown ones.
LEMMA SettledFull ==
    ASSUME NEW x, NEW y, NEW rec, NEW t, Ready(x, rec), Settled(y, t), x.stable \in Nat,
           y.stable \in Nat, y.stable <= x.stable + 1 \/ y.stable <= 1
    PROVE  Full(rec)
BY ThresholdAssumption DEF Ready, Settled, Full

LEMMA AccumulateCounts ==
    ASSUME NEW x, NEW rec, NEW start, NEW f \in Nat, NEW t \in Nat, NEW o \in Observations,
           Sighted(x, start, f), x.baseline = None, Ready(x, rec)
    PROVE  LET y == AccumulateBaseline(x, o, t, f) IN Counted(y, rec) /\ Follows(y, x, f)
<1>1. x \in Machines /\ x.episode = None /\ x.stable \in Nat /\ x.stream # None
  BY SightedParts, Nones DEF Machines
<1>2. CASE ~IsStable(o, x.anchor)
  <2> DEFINE y == Reanchor(x, o, t)
  <2>1. SameParts(y, x) /\ y.episode = None /\ y.stable \in Nat /\ y.stable <= 1
    BY <1>1, ReanchorParts
  <2>2. y \in Machines
    BY ReanchorSighted, SightedParts
  <2>3. AccumulateBaseline(x, o, t, f) = [y EXCEPT !.state = "UNKNOWN"]
    BY <1>2 DEF AccumulateBaseline
  <2> HIDE DEF y
  <2>4. Counted(y, rec) /\ Follows(y, x, f)
    BY <2>1, Recounted
  <2> QED BY <2>2, <2>3, <2>4, StateCounts
<1>3. CASE IsStable(o, x.anchor)
  <2> DEFINE y == Dwell(x, o, t)
  <2>1. /\ SameParts(y, x) /\ y.episode = None /\ y.stable \in Nat
        /\ y.stable <= x.stable + 1 \/ y.stable <= 1
    BY <1>1, DwellParts
  <2>2. y \in Machines
    BY DwellSighted, SightedParts
  <2>3. AccumulateBaseline(x, o, t, f) =
          IF y.detections >= MinDetectionFrames /\ Settled(y, t) THEN SetBaseline(y, o, t, f) ELSE y
    BY <1>3 DEF AccumulateBaseline
  <2> HIDE DEF y
  <2>4. Counted(y, rec) /\ Follows(y, x, f)
    BY <2>1, Recounted
  <2>5. ASSUME Settled(y, t)
        PROVE  Counted(SetBaseline(y, o, t, f), rec) /\ Follows(SetBaseline(y, o, t, f), x, f)
    <3>1. Full(rec) /\ y.stream # None
      BY <1>1, <2>1, <2>5, SettledFull DEF SameParts
    <3> QED BY <2>1, <2>2, <3>1, BaselineCounts DEF SameParts
  <2> QED BY <2>3, <2>4, <2>5
<1> QED BY <1>2, <1>3

LEMMA KeepCounts ==
    ASSUME NEW x, NEW rec, NEW start, NEW f \in Nat, NEW t \in Nat, NEW o \in Observations,
           Sighted(x, start, f), x.baseline # None, x.episode = None, Ready(x, rec)
    PROVE  LET y == KeepBaseline(x, o, t, f) IN Counted(y, rec) /\ Follows(y, x, f)
<1> DEFINE y == IF IsStable(o, x.anchor) THEN Dwell(x, o, t) ELSE Reanchor(x, o, t)
           z == IF IsStable(o, x.anchor) /\ Settled(y, t) THEN SetBaseline(y, o, t, f) ELSE y
<1>1. x \in Machines /\ x.stable \in Nat /\ x.stream # None
  BY SightedParts, Nones DEF Machines
<1>2. /\ SameParts(y, x) /\ y.episode = None /\ y.stable \in Nat
      /\ y.stable <= x.stable + 1 \/ y.stable <= 1
  <2>1. CASE IsStable(o, x.anchor)
    BY <1>1, <2>1, DwellParts
  <2>2. CASE ~IsStable(o, x.anchor)
    BY <1>1, <2>2, ReanchorParts
  <2> QED BY <2>1, <2>2
<1>3. Sighted(y, start, f)
  BY DwellSighted, ReanchorSighted
<1>4. KeepBaseline(x, o, t, f) = [z EXCEPT !.state = Beside(o)]
  BY DEF KeepBaseline
<1> HIDE DEF y
<1>5. y \in Machines /\ y.lastFrame = f /\ y.missingSince = None /\ y.stream \in Nat /\ start \in Nat /\ start <= f
  BY <1>3, SightedParts
<1>6. Counted(y, rec) /\ Follows(y, x, f)
  BY <1>2, Recounted
<1>7. Full(rec)
  BY DEF Ready
<1>8. z \in Machines /\ Counted(z, rec) /\ Follows(z, x, f)
  <2>1. Good(SetBaseline(y, o, t, f), start)
    BY <1>2, <1>5, SetBaselineGood
  <2>2. Counted(SetBaseline(y, o, t, f), rec) /\ Follows(SetBaseline(y, o, t, f), x, f)
    BY <1>1, <1>2, <1>5, <1>7, BaselineCounts DEF SameParts
  <2> QED BY <1>5, <1>6, <2>1, <2>2 DEF Good
<1> HIDE DEF z
<1>9. LET v == [z EXCEPT !.state = Beside(o)] IN Counted(v, rec) /\ Follows(v, x, f)
  BY <1>8, StateCounts
<1> QED BY <1>4, <1>9

LEMMA StartCounts ==
    ASSUME NEW x, NEW rec, NEW start, NEW f \in Nat, NEW o \in Observations,
           Sighted(x, start, f), x.baseline # None, Ready(x, rec)
    PROVE  LET y == StartEpisode(x, o, f) IN Counted(y, rec) /\ Follows(y, x, f)
<1> DEFINE e == [stream |-> x.stream, from |-> x.baseline, started |-> f,
                 detections |-> 1, dest |-> None, stable |-> 0]
           y == StartEpisode(x, o, f)
<1>1. y = [x EXCEPT !.episode = e, !.state = "PICKUP_CANDIDATE", !.anchor = None,
                    !.anchorSince = None, !.stable = 0]
  BY DEF StartEpisode
<1>2. x \in Machines /\ x.stream # None /\ e.dest = None
  BY SightedParts, Nones
<1> HIDE DEF e, y
<1>3. /\ y.baseline = x.baseline /\ y.lastVerified = x.lastVerified /\ y.stable = 0 /\ y.episode = e
      /\ y.stream = x.stream
  BY <1>1, <1>2 DEF Machines
<1>4. Counted(y, rec) /\ Follows(y, x, f)
  BY <1>2, <1>3 DEF Counted, Ready, Follows, Standing
<1> QED BY <1>4 DEF y

\* A sequence that goes on with one shown detection.
GoesOn(rec, old, s) ==
    /\ \A d : Near(s, d) => Stood(rec, d, 1)
    /\ \A d : \A n \in Nat : Stood(old, d, n) /\ Near(s, d) => Stood(rec, d, n + 1)

LEMMA CarryCounts ==
    ASSUME NEW x, NEW rec, NEW old, NEW start, NEW f \in Nat, NEW t \in Nat, NEW o \in Observations, NEW prev,
           Sighted(x, start, f), x.episode # None, Ready(x, rec),
           Standing(x.episode, old), GoesOn(rec, old, Shows(o, f))
    PROVE  LET y == Carry(x, prev, o, t) IN
           /\ Counted(y, rec) /\ SameParts(y, x)
           /\ y.episode.dest # None => Near(Shows(o, f), y.episode.dest)
<1> DEFINE e == x.episode
           y == Carry(x, prev, o, t)
           d == [pos |-> o.pos, zone |-> o.zone, since |-> t]
           k == e.stable + 1
           here == StableHere(e, prev, o)
           same == e.dest # None /\ o.zone = e.dest.zone /\ Dist(e.dest.pos, o.pos) <= Jitter
           seen == [e EXCEPT !.detections = @ + 1]
           s == Shows(o, f)
<1> SUFFICES Counted(y, rec) /\ SameParts(y, x) /\ (y.episode.dest # None => Near(s, y.episode.dest))
  OBVIOUS
<1>1. x \in Machines /\ e \in Episodes /\ e # None /\ x.stream # None /\ x.stable \in Nat /\ x.missingSince = None
  BY SightedParts, Nones DEF Machines
<1>2. e.stable \in Nat /\ k \in Nat
  BY <1>1 DEF Episodes
<1>3. ASSUME NEW w, NEW g, NEW c, y = [x EXCEPT !.state = w,
                 !.episode = [seen EXCEPT !.dest = g, !.stable = c]],
             g # None => Near(s, g) /\ Stood(rec, g, c)
      PROVE  /\ Counted(y, rec) /\ SameParts(y, x)
             /\ y.episode.dest # None => Near(s, y.episode.dest)
  <2> DEFINE h == [seen EXCEPT !.dest = g, !.stable = c]
  <2>1. h.dest = g /\ h.stable = c
    BY <1>1 DEF Episodes
  <2>2. y = [x EXCEPT !.state = w, !.episode = h]
    BY <1>3
  <2> HIDE DEF y, h, s
  <2>3. /\ y.baseline = x.baseline /\ y.lastVerified = x.lastVerified /\ y.stream = x.stream
        /\ y.missingSince = x.missingSince /\ y.stable = x.stable /\ y.episode = h
    BY <1>1, <2>2 DEF Machines
  <2>4. Standing(y.episode, rec)
    BY <1>3, <2>1, <2>3 DEF Standing
  <2>5. Len(rec) \in Nat /\ (x.stable + 1 <= Len(rec) \/ Full(rec)) /\ (x.baseline # None => Full(rec))
    BY DEF Ready
  <2>6. y.stable <= Len(rec) \/ Full(rec)
    BY <1>1, <2>3, <2>5
  <2> QED BY <1>1, <1>3, <2>1, <2>3, <2>4, <2>5, <2>6 DEF Counted, SameParts
<1>4. CASE here /\ e.dest = None
  <2>1. y = [x EXCEPT !.state = "PLACED_CANDIDATE", !.episode = [seen EXCEPT !.dest = d, !.stable = 1]]
    <3>1. y = [x EXCEPT !.state = "PLACED_CANDIDATE", !.episode = [seen EXCEPT !.stable = 1, !.dest = d]]
      BY <1>4 DEF Carry
    <3>2. [seen EXCEPT !.stable = 1, !.dest = d] = [seen EXCEPT !.dest = d, !.stable = 1]
      BY <1>1 DEF Episodes
    <3> HIDE DEF y, d, seen
    <3> QED BY <3>1, <3>2
  <2>2. Near(s, d)
    <3>1. o.pos \in Int /\ ~o.fast /\ ~o.hand /\ ~o.held
      BY <1>4, PositionsAssumption DEF StableHere, Observations
    <3>2. Dist(d.pos, s.pos) <= Jitter
      BY <3>1, ThresholdAssumption DEF Shows, Dist
    <3> QED BY <3>1, <3>2 DEF Near, Shows
  <2>3. Stood(rec, d, 1)
    BY <2>2 DEF GoesOn
  <2> HIDE DEF y, d, seen, s
  <2> QED BY <1>3, <2>1, <2>2, <2>3
<1>5. CASE here /\ same
  <2>1. y = [x EXCEPT !.state = "PLACED_CANDIDATE", !.episode = [seen EXCEPT !.dest = e.dest, !.stable = k]]
    <3>1. y = [x EXCEPT !.state = "PLACED_CANDIDATE", !.episode = [seen EXCEPT !.stable = @ + 1]]
      BY <1>5 DEF Carry
    <3>2. [seen EXCEPT !.stable = @ + 1] = [seen EXCEPT !.dest = e.dest, !.stable = k]
      BY <1>1 DEF Episodes
    <3> HIDE DEF y, seen, k
    <3> QED BY <3>1, <3>2
  <2>2. Near(s, e.dest)
    BY <1>5 DEF StableHere, Near, Shows
  <2>3. Stood(old, e.dest, e.stable)
    BY <1>1, <1>5 DEF Standing
  <2>4. Stood(rec, e.dest, k)
    BY <1>2, <2>2, <2>3 DEF GoesOn
  <2> HIDE DEF y, seen, k, s
  <2> QED BY <1>3, <2>1, <2>2, <2>4
<1>6. CASE ~(here /\ (e.dest = None \/ same))
  <2>1. y = [x EXCEPT !.state = "CARRIED", !.episode = [seen EXCEPT !.dest = None, !.stable = 0]]
    BY <1>6 DEF Carry
  <2> HIDE DEF y, seen, s
  <2> QED BY <1>3, <2>1
<1> QED BY <1>4, <1>5, <1>6

\* An episode that closes, with its movement or without.
LEMMA CloseCounts ==
    ASSUME NEW x, NEW c, NEW rec, NEW start, NEW f \in Nat, NEW t \in Nat, NEW o \in Observations,
           Sighted(c, start, f), c.episode # None, c.stream = x.stream, Full(rec)
    PROVE  /\ Counted(DropEpisode(c, o, t, f), rec) /\ Follows(DropEpisode(c, o, t, f), x, f)
           /\ DropEpisode(c, o, t, f).baseline.frame = f
           /\ Counted(FinishEpisode(c, o, t, f), rec) /\ Follows(FinishEpisode(c, o, t, f), x, f)
           /\ FinishEpisode(c, o, t, f).baseline.frame = f
<1> DEFINE y == [c EXCEPT !.episode = None]
           id == MovementId(c.episode)
           z == [c EXCEPT !.episode = None, !.lastEmitted = id]
           w == IF o.mode = "experimental" /\ ~o.surface THEN "VISIBLE_STATIC" ELSE "PLACED_CONFIRMED"
           v == SetBaseline(z, o, t, f)
<1>1. /\ c \in Machines /\ c.episode \in Episodes /\ c.stream # None /\ c.stream \in Nat
      /\ c.lastFrame = f /\ c.missingSince = None /\ start \in Nat /\ start <= f
  BY SightedParts, Nones
<1>2. id \in Maybe(MovementIds) /\ None \in Maybe(Episodes)
  BY <1>1 DEF MovementId, MovementIds, Maybe, Episodes
<1> HIDE DEF id
<1>3. y \in Machines /\ y.episode = None /\ y.stream = c.stream /\ y.lastFrame = f /\ y.missingSince = None
  BY <1>1, <1>2 DEF Machines
<1>4. z \in Machines /\ z.episode = None /\ z.stream = c.stream /\ z.lastFrame = f /\ z.missingSince = None
  BY <1>1, <1>2 DEF Machines
<1>5. DropEpisode(c, o, t, f) = SetBaseline(y, o, t, f) /\ FinishEpisode(c, o, t, f) = [v EXCEPT !.state = w]
  BY DEF DropEpisode, FinishEpisode, id
<1> HIDE DEF y, z, w
<1>6. /\ Counted(SetBaseline(y, o, t, f), rec) /\ Follows(SetBaseline(y, o, t, f), x, f)
      /\ SetBaseline(y, o, t, f).baseline.frame = f
  <2>1. SetBaseline(y, o, t, f).baseline.frame = f
    BY <1>3, SetBaselineParts
  <2> QED BY <1>1, <1>3, <2>1, BaselineCounts
<1>7. Counted(v, rec) /\ Follows(v, x, f) /\ v.baseline.frame = f
  <2>1. v.baseline.frame = f
    BY <1>4, SetBaselineParts
  <2> QED BY <1>1, <1>4, <2>1, BaselineCounts
<1>8. v \in Machines
  BY <1>1, <1>4, SetBaselineGood DEF Good
<1> HIDE DEF v
<1>9. [v EXCEPT !.state = w].baseline = v.baseline
  BY <1>8 DEF Machines
<1>10. Counted([v EXCEPT !.state = w], rec) /\ Follows([v EXCEPT !.state = w], x, f)
  BY <1>7, <1>8, StateCounts
<1> QED BY <1>5, <1>6, <1>7, <1>9, <1>10

(***************************************************************************)
(* The prologue of a frame: what it keeps of the machine, and when.        *)
(***************************************************************************)
\* A verified sighting is dropped only by a new session or a gap.
Dropped(t) == m.stream # stream \/ (m.lastFrameAt # None /\ t > m.lastFrameAt + MaxFrameGap)

LEMMA ResetParts ==
    ASSUME NEW x, NEW s
    PROVE  LET y == ResetSourceSession(x, s) IN
           /\ y.stable = 0 /\ y.baseline = None /\ y.episode = None /\ y.lastVerified = None
           /\ y.missingSince = None /\ y.stream = s /\ y.lastFrame = None
BY DEF ResetSourceSession, Fresh

LEMMA AdoptParts ==
    ASSUME IInv
    PROVE  LET a == Adopt(m, stream) IN
           /\ a \in Machines /\ a.stream = stream
           /\ \/ /\ a.stable = m.stable /\ a.lastVerified = m.lastVerified /\ a.lastFrame = m.lastFrame
                 /\ a.baseline = m.baseline /\ a.episode = m.episode /\ a.missingSince = m.missingSince
                 /\ a.lastFrameAt = m.lastFrameAt /\ (m.stream = None \/ m.stream = stream)
              \/ /\ a.stable = 0 /\ a.lastVerified = None /\ a.lastFrame = None /\ m.stream # None
                 /\ a.baseline = None /\ a.episode = None /\ a.missingSince = None /\ m.stream # stream
<1>1. m \in Machines /\ stream \in Nat /\ stream # None /\ run.start \in Maybe(Nat) /\ Good(m, run.start)
  BY Nones DEF IInv, TypeOK
<1>2. Adopt(m, stream) \in Machines /\ Adopt(m, stream).stream = stream
  BY <1>1, AdoptGood DEF Good
<1>3. CASE m.stream = None
  <2>1. Adopt(m, stream) = [m EXCEPT !.stream = stream]
    BY <1>3 DEF Adopt
  <2> DEFINE a == Adopt(m, stream)
  <2>2. /\ a.stable = m.stable /\ a.lastVerified = m.lastVerified /\ a.lastFrame = m.lastFrame
        /\ a.baseline = m.baseline /\ a.episode = m.episode /\ a.missingSince = m.missingSince
        /\ a.lastFrameAt = m.lastFrameAt
    <3> HIDE DEF a
    <3>1. a = [m EXCEPT !.stream = stream]
      BY <2>1 DEF a
    <3> QED BY <1>1, <3>1 DEF Machines
  <2> QED BY <1>2, <1>3, <2>2
<1>4. CASE m.stream # None /\ m.stream # stream
  BY <1>1, <1>2, <1>4, ResetParts DEF Adopt
<1>5. CASE m.stream = stream
  BY <1>1, <1>2, <1>5 DEF Adopt
<1> QED BY <1>3, <1>4, <1>5

LEMMA ArrivedParts ==
    ASSUME IInv, m.stream = None => m.stable = 0, NEW f \in Nat, NEW t \in Nat
    PROVE  LET x == Arrived(f, t) IN
           /\ x.lastFrame = f /\ x.stream = stream
           /\ x.lastVerified = m.lastVerified \/ (x.lastVerified = None /\ Dropped(t))
           /\ ~Broken(t) => /\ x.stable = m.stable /\ x.baseline = m.baseline /\ x.episode = m.episode
                            /\ x.missingSince = None
           /\ Broken(t) => x.stable = 0 \/ x.missingSince # None
<1> DEFINE a == Adopt(m, stream)
           y == IF GapBefore(a, t) THEN ResetSourceSession(a, stream) ELSE a
           x == Arrived(f, t)
<1>1. /\ a \in Machines /\ a.stream = stream
      /\ \/ /\ a.stable = m.stable /\ a.lastVerified = m.lastVerified
            /\ a.baseline = m.baseline /\ a.episode = m.episode /\ a.missingSince = m.missingSince
            /\ a.lastFrameAt = m.lastFrameAt /\ (m.stream = None \/ m.stream = stream)
         \/ /\ a.stable = 0 /\ a.lastVerified = None /\ m.stream # None
            /\ a.baseline = None /\ a.episode = None /\ a.missingSince = None /\ m.stream # stream
  BY AdoptParts
<1>2. stream \in Nat /\ stream # None /\ m.lastFrameAt \in Maybe(Nat) /\ MaxFrameGap \in Nat
  BY Nones, ThresholdAssumption DEF IInv, TypeOK, Machines
<1>3. x = [y EXCEPT !.lastFrame = f, !.lastFrameAt = t]
  BY DEF Arrived, Accept
<1> HIDE DEF a, x
<1>4. /\ y \in Machines /\ y.stream = stream
      /\ \/ ~GapBefore(a, t) /\ y = a
         \/ /\ GapBefore(a, t) /\ y.stable = 0 /\ y.lastVerified = None /\ y.missingSince = None
            /\ y.baseline = None /\ y.episode = None
  <2>1. CASE GapBefore(a, t)
    <3>1. 0 \in Nat /\ None \in Maybe(Nat)
      BY DEF Maybe
    <3> QED BY <1>1, <1>2, <2>1, <3>1, ResetParts, ResetGood DEF Good
  <2>2. CASE ~GapBefore(a, t)
    BY <1>1, <2>2
  <2> QED BY <2>1, <2>2
<1> HIDE DEF y
<1>5. /\ x.lastFrame = f /\ x.stream = y.stream /\ x.lastVerified = y.lastVerified /\ x.stable = y.stable
      /\ x.baseline = y.baseline /\ x.episode = y.episode /\ x.missingSince = y.missingSince
  BY <1>3, <1>4 DEF Machines
<1>6. a.lastFrameAt = m.lastFrameAt =>
         (GapBefore(a, t) <=> m.lastFrameAt # None /\ t > m.lastFrameAt + MaxFrameGap)
  BY <1>2 DEF GapBefore, Maybe
<1>7. x.lastVerified = m.lastVerified \/ (x.lastVerified = None /\ Dropped(t))
  BY <1>1, <1>4, <1>5, <1>6 DEF Dropped
<1>8. ASSUME ~Broken(t)
      PROVE  /\ x.stable = m.stable /\ x.baseline = m.baseline /\ x.episode = m.episode
             /\ x.missingSince = None
  BY <1>1, <1>4, <1>5, <1>6, <1>8 DEF Broken
<1>9. ASSUME Broken(t) PROVE x.stable = 0 \/ x.missingSince # None
  BY <1>1, <1>2, <1>4, <1>5, <1>6, <1>9 DEF Broken
<1> QED BY <1>4, <1>5, <1>7, <1>8, <1>9 DEF x

\* A detection as the prologue leaves it, the observer's sequence grown by it.
LEMMA DetectedReady ==
    ASSUME Sound, NEW f \in Nat, NEW t \in Nat, NEW o \in Observations, Sight(f, t, o)
    PROVE  LET d == Detected(Arrived(f, t), o, t) IN
           /\ Kept(run'.recent, f) /\ Ready(d, run'.recent)
           /\ run'.recent[Len(run'.recent)] = Shows(o, f)
           /\ d.lastVerified = m.lastVerified \/ (d.lastVerified = None /\ Dropped(t))
           /\ d.baseline # None => d.baseline = m.baseline /\ m.stream = stream
           /\ d.episode # None =>
                 Standing(d.episode, run.recent) /\ GoesOn(run'.recent, run.recent, Shows(o, f))
<1> DEFINE x == Arrived(f, t)
           r == Reappear(x)
           d == Detected(x, o, t)
           rec == run'.recent
<1>1. /\ IInv /\ TypeOK /\ Kept(run.recent, m.lastFrame) /\ Counted(m, run.recent)
      /\ m \in Machines /\ Sighted(d, run'.start, f)
  BY SightStep DEF Sound, Witnessed, IInv, TypeOK
<1>2. ~OutOfOrder(Adopt(m, stream), f) /\ rec = Extend(run, Broken(t), o, f).recent
  BY DEF Sight, Frame
<1>3. m.stable \in Nat /\ (m.stream = None => m.stable = 0) /\ m.lastFrame \in Maybe(Nat)
  BY <1>1 DEF Counted, Machines
<1>4. /\ x.lastFrame = f /\ x.stream = stream
      /\ x.lastVerified = m.lastVerified \/ (x.lastVerified = None /\ Dropped(t))
      /\ ~Broken(t) => /\ x.stable = m.stable /\ x.baseline = m.baseline /\ x.episode = m.episode
                       /\ x.missingSince = None
      /\ Broken(t) => x.stable = 0 \/ x.missingSince # None
  BY <1>1, <1>3, ArrivedParts
<1>5. x \in Machines /\ (x.baseline # None => ~Broken(t))
  BY <1>1, <1>2, ArrivedGood DEF Good
<1>6. ~Broken(t) => (m.lastFrame # None => m.lastFrame \in Nat /\ m.lastFrame < f)
  <2>1. ~Broken(t) => Adopt(m, stream) = m
    BY <1>1, Nones DEF Broken, Adopt, TypeOK
  <2> QED BY <1>2, <1>3, <2>1 DEF OutOfOrder, Maybe
<1>7. Broken(t) \in BOOLEAN
  BY DEF Broken
<1>8. /\ Kept(rec, f) /\ Len(rec) >= 1 /\ rec[Len(rec)] = Shows(o, f)
      /\ ~Broken(t) => Full(rec) \/ Len(rec) = Len(run.recent) + 1
      /\ ~Broken(t) /\ Full(run.recent) => Full(rec)
      /\ \A g : Near(Shows(o, f), g) => Stood(rec, g, 1)
      /\ ~Broken(t) => \A g : \A n \in Nat :
            Stood(run.recent, g, n) /\ Near(Shows(o, f), g) => Stood(rec, g, n + 1)
  <2> DEFINE b == Broken(t)
             last == m.lastFrame
  <2>1. /\ b \in BOOLEAN /\ rec = Extend(run, b, o, f).recent /\ Kept(run.recent, last)
        /\ ~b => (last # None => last \in Nat /\ last < f)
    BY <1>1, <1>2, <1>6, <1>7
  <2> HIDE DEF b, last, rec
  <2>2. /\ Kept(rec, f) /\ Len(rec) >= 1 /\ rec[Len(rec)] = Shows(o, f)
        /\ ~b => Full(rec) \/ Len(rec) = Len(run.recent) + 1
        /\ ~b /\ Full(run.recent) => Full(rec)
        /\ \A g : Near(Shows(o, f), g) => Stood(rec, g, 1)
        /\ ~b => \A g : \A n \in Nat :
              Stood(run.recent, g, n) /\ Near(Shows(o, f), g) => Stood(rec, g, n + 1)
    BY <2>1, ExtendRecent
  <2> QED BY <2>2 DEF b, rec
<1>9. Len(rec) \in 1..MinStableFrames /\ Len(run.recent) \in Nat
  BY <1>1, <1>8, ThresholdAssumption DEF Kept
<1> HIDE DEF x, rec
<1>10. /\ r \in Machines /\ r.lastVerified = x.lastVerified
       /\ x.missingSince = None => r = x
       /\ x.missingSince # None => r.stable = 0 /\ r.baseline = None /\ r.episode = None
  <2>1. CASE x.missingSince = None
    BY <1>5, <2>1 DEF Reappear
  <2>2. CASE x.missingSince # None
    <3>1. /\ None \in Maybe(Baselines) /\ None \in Maybe(Episodes) /\ None \in Maybe(Positions)
          /\ None \in Maybe(Nat) /\ "UNKNOWN" \in States /\ 0 \in Nat
      BY DEF Maybe, States
    <3>2. r = [x EXCEPT !.episode = None, !.baseline = None, !.anchor = None, !.anchorSince = None,
                        !.stable = 0, !.detections = 0, !.missingSince = None, !.state = "UNKNOWN"]
      BY <2>2 DEF Reappear, InvalidateEpisode
    <3> HIDE DEF r
    <3> QED BY <1>5, <2>2, <3>1, <3>2 DEF Machines
  <2> QED BY <2>1, <2>2
<1>11. d = [r EXCEPT !.detections = @ + 1, !.lastPos = o.pos, !.lastSeenAt = t]
  BY DEF Detected
<1> HIDE DEF r, d
<1>12. /\ d.lastVerified = r.lastVerified /\ d.stable = r.stable /\ d.baseline = r.baseline
       /\ d.episode = r.episode
  BY <1>10, <1>11 DEF Machines
<1>13. Ready(d, rec)
  <2>1. CASE Broken(t)
    <3>1. d.stable = 0 /\ d.baseline = None
      BY <1>4, <1>5, <1>10, <1>12, <2>1
    <3> QED BY <1>9, <3>1 DEF Ready
  <2>2. CASE ~Broken(t)
    <3>1. d.stable = m.stable /\ d.baseline = m.baseline
      BY <1>4, <1>10, <1>12, <2>2
    <3>2. m.stable <= Len(run.recent) \/ Full(run.recent)
      BY <1>1, <2>2 DEF Counted, Broken
    <3>3. m.baseline # None => Full(run.recent)
      BY <1>1 DEF Counted
    <3> QED BY <1>3, <1>8, <1>9, <2>2, <3>1, <3>2, <3>3 DEF Ready
  <2> QED BY <2>1, <2>2
<1>14. ASSUME d.baseline # None PROVE d.baseline = m.baseline /\ m.stream = stream /\ ~Broken(t)
  BY <1>4, <1>5, <1>10, <1>12, <1>14 DEF Broken
<1>15. ASSUME d.episode # None PROVE Standing(d.episode, run.recent) /\ GoesOn(rec, run.recent, Shows(o, f))
  <2>1. d.baseline # None
    BY <1>1, <1>15, SightedParts
  <2>2. ~Broken(t)
    BY <1>14, <2>1
  <2>3. d.episode = m.episode
    BY <1>4, <1>10, <1>12, <2>2
  <2> QED BY <1>1, <1>8, <2>2, <2>3 DEF GoesOn, Counted
<1> QED BY <1>4, <1>8, <1>10, <1>12, <1>13, <1>14, <1>15 DEF d, rec, x

(***************************************************************************)
(* The inductive step of Sound, and what each step does to what was seen.  *)
(***************************************************************************)
LEMMA MissingParts ==
    ASSUME NEW x \in Machines, NEW t \in Nat
    PROVE  LET y == HandleMissing(x, t) IN
           y.missingSince # None /\ y.lastVerified = x.lastVerified /\ y.stream = x.stream
<1> DEFINE since == IF x.lastSeenAt # None THEN x.lastSeenAt ELSE t
           y == IF x.missingSince = None
                THEN [InvalidateEpisode(x) EXCEPT !.missingSince = since] ELSE x
           z == HandleMissing(x, t)
<1>1. z = [y EXCEPT !.state = AbsentState(t - y.missingSince)]
  BY DEF HandleMissing
<1>2. since # None /\ since \in Maybe(Nat)
  BY Nones DEF Machines, Maybe
<1> HIDE DEF z, since
<1>3. y \in Machines /\ y.missingSince # None /\ y.lastVerified = x.lastVerified /\ y.stream = x.stream
  <2>1. CASE x.missingSince = None
    <3>1. None \in Maybe(Baselines) /\ None \in Maybe(Episodes) /\ None \in Maybe(Positions)
          /\ None \in Maybe(Nat)
      BY DEF Maybe
    <3>2. y = [x EXCEPT !.episode = None, !.baseline = None, !.anchor = None, !.anchorSince = None,
                        !.stable = 0, !.detections = 0, !.missingSince = since]
      BY <2>1 DEF InvalidateEpisode
    <3> HIDE DEF y
    <3> QED BY <1>2, <3>1, <3>2 DEF Machines
  <2>2. CASE x.missingSince # None
    BY <2>2
  <2> QED BY <2>1, <2>2
<1> HIDE DEF y
<1> QED BY <1>1, <1>3 DEF Machines, z

LEMMA AtBaselineParts ==
    ASSUME NEW x \in Machines, NEW f
    PROVE  LET y == AtBaseline(x, f) IN
           /\ y.baseline = x.baseline /\ y.stable = x.stable /\ y.episode = x.episode
           /\ y.stream = x.stream /\ y.missingSince = x.missingSince /\ y.lastVerified = f
BY DEF AtBaseline, Machines

LEMMA EventTypes ==
    ASSUME TypeOK, event # None
    PROVE  event.stream \in Nat /\ event.end \in Nat
BY DEF TypeOK, Events, Maybe

\* An empty run, for a machine that counts nothing.
LEMMA NothingCounted ==
    ASSUME NEW x, x.stream = None => x.stable = 0, x.missingSince # None \/ x.stable = 0,
           x.baseline = None, x.episode = None, NEW last
    PROVE  Counted(x, <<>>) /\ Kept(<<>>, last)
<1>1. <<>> \in Seq(Shown) /\ Len(<<>>) = 0 /\ 0 <= MinStableFrames
  BY ThresholdAssumption
<1> QED BY <1>1 DEF Counted, Kept, Standing

LEMMA QuietStep ==
    ASSUME Sound, NEW f \in Nat, NEW t \in Nat, f >= sent, RejectFrame(f, t) \/ MissItem(f, t)
    PROVE  Witnessed' /\ SightingKept
<1>1. /\ IInv /\ TypeOK /\ m \in Machines /\ stream \in Nat /\ sent \in Nat /\ Good(m, run.start)
      /\ Kept(run.recent, m.lastFrame) /\ Counted(m, run.recent) /\ Later(m) /\ EventPast
  BY DEF Sound, Witnessed, IInv, TypeOK
<1>2. event' = event /\ stream' = stream /\ sent' = f /\ now' = t
  BY DEF RejectFrame, MissItem, Frame, Take
<1>3. EventPast'
  <2> SUFFICES ASSUME event # None PROVE event.stream <= stream /\ (event.stream = stream => event.end <= f)
    BY <1>2 DEF EventPast
  <2> QED BY <1>1, EventTypes DEF EventPast
<1>4. CASE RejectFrame(f, t)
  <2> DEFINE a == Adopt(m, stream)
  <2>1. m' = a /\ run' = run /\ a.lastFrame # None
    BY <1>4 DEF RejectFrame, OutOfOrder
  <2>2. /\ a.stream = stream /\ a.stable = m.stable /\ a.lastVerified = m.lastVerified /\ a.lastFrame = m.lastFrame
        /\ a.baseline = m.baseline /\ a.episode = m.episode /\ a.missingSince = m.missingSince
        /\ m.stream = None \/ m.stream = stream
    BY <1>1, <2>1, AdoptParts
  <2> HIDE DEF a
  <2>3. Kept(run'.recent, m'.lastFrame) /\ Counted(m', run'.recent)
    BY <1>1, <2>1, <2>2, Nones DEF Counted
  <2>4. m.baseline # None => m.stream = stream
    BY <1>1, <2>2 DEF Good, BaselineInRun
  <2>5. Later(m)'
    BY <1>1, <1>2, <2>1, <2>2, <2>4 DEF Later
  <2>6. SightingKept
    BY <2>1, <2>2 DEF SightingKept
  <2> QED BY <1>3, <2>3, <2>5, <2>6 DEF Witnessed
<1>5. CASE MissItem(f, t)
  <2> DEFINE x == Arrived(f, t)
  <2>1. m' = HandleMissing(x, t) /\ run' = EmptyRun /\ ~OutOfOrder(Adopt(m, stream), f)
    BY <1>5 DEF MissItem, Frame
  <2>2. Good(x, run.start) /\ run.start \in Maybe(Nat)
    BY <1>1, <2>1, ArrivedGood DEF TypeOK
  <2>3. x.stream = stream /\ (x.lastVerified = m.lastVerified \/ (x.lastVerified = None /\ Dropped(t)))
    BY <1>1, ArrivedParts DEF Counted
  <2> HIDE DEF x
  <2>4. m'.missingSince # None /\ m'.lastVerified = x.lastVerified /\ m'.stream = stream
    BY <2>1, <2>2, <2>3, MissingParts DEF Good
  <2>5. m'.baseline = None /\ m'.episode = None
    <3>1. Good(m', None)
      BY <2>1, <2>2, MissingGood
    <3> QED BY <2>4, <3>1 DEF Good, BaselineInRun, EpisodeFromBaseline
  <2>6. stream # None
    BY <1>1, Nones
  <2>7. Kept(run'.recent, m'.lastFrame) /\ Counted(m', run'.recent)
    BY <2>1, <2>4, <2>5, <2>6, NothingCounted DEF EmptyRun
  <2>8. Later(m)'
    BY <2>5 DEF Later
  <2>9. SightingKept
    BY <1>2, <2>3, <2>4 DEF SightingKept, Dropped
  <2> QED BY <1>3, <2>7, <2>8, <2>9 DEF Witnessed
<1> QED BY <1>4, <1>5

\* A detection that was handled, with no event or with one that ends in it.
LEMMA SightWitnessed ==
    ASSUME Sound, NEW f \in Nat, NEW t \in Nat, f >= sent, NEW o \in Observations, Sight(f, t, o),
           Counted(m', run'.recent), Follows(m', Detected(Arrived(f, t), o, t), f), m'.lastFrame = f,
           \/ event' = event
           \/ event'.stream = stream /\ event'.end = f /\ m'.baseline.frame = f
    PROVE  Witnessed' /\ SightingKept
<1> DEFINE d == Detected(Arrived(f, t), o, t)
<1>1. /\ Kept(run'.recent, f)
      /\ d.lastVerified = m.lastVerified \/ (d.lastVerified = None /\ Dropped(t))
      /\ d.baseline # None => d.baseline = m.baseline /\ m.stream = stream
  BY DetectedReady
<1>2. d.stream = stream /\ stream' = stream /\ sent' = f /\ now' = t
  BY SightStep, SightedParts DEF Sound
<1> HIDE DEF d
<1>3. /\ IInv /\ TypeOK /\ Later(m) /\ EventPast /\ sent \in Nat
  BY DEF Sound, Witnessed, IInv, TypeOK
<1>4. Follows(m', d, f)
  BY DEF d
<1>5. EventPast'
  <2>1. CASE event' = event
    <3> SUFFICES ASSUME event # None PROVE event.stream <= stream /\ (event.stream = stream => event.end <= f)
      BY <1>2, <2>1 DEF EventPast
    <3> QED BY <1>3, EventTypes DEF EventPast
  <2>2. CASE event' # event
    <3>1. event'.stream = stream /\ event'.end = f /\ stream \in Nat
      BY <1>3, <2>2 DEF TypeOK
    <3> QED BY <1>2, <3>1 DEF EventPast
  <2> QED BY <2>1, <2>2
<1>6. Later(m)'
  <2> SUFFICES ASSUME event' # None, m'.baseline # None, m'.stream = event'.stream
               PROVE  event'.end <= m'.baseline.frame
    BY DEF Later
  <2>1. CASE event' # event
    BY <2>1
  <2>2. CASE event' = event /\ m'.baseline = d.baseline
    <3>1. m'.baseline = m.baseline /\ m.baseline # None /\ m.stream = event.stream /\ event # None
      BY <1>1, <1>2, <1>4, <2>2 DEF Follows
    <3> QED BY <1>3, <2>2, <3>1 DEF Later
  <2>3. CASE event' = event /\ m'.baseline # d.baseline
    <3>1. m'.baseline.frame = f /\ event.stream = stream /\ event # None
      BY <1>2, <1>4, <2>3 DEF Follows
    <3>2. event.end <= sent /\ event.end \in Nat
      BY <1>3, <3>1, EventTypes DEF EventPast
    <3> QED BY <1>3, <2>3, <3>1, <3>2
  <2> QED BY <2>1, <2>2, <2>3
<1>7. SightingKept
  BY <1>1, <1>2, <1>4, Nones DEF SightingKept, Follows, Dropped
<1> QED BY <1>1, <1>5, <1>6, <1>7 DEF Witnessed

\* The machine while a detection is counted in its episode.
LEMMA CarriedCounts ==
    ASSUME Sound, NEW f \in Nat, NEW t \in Nat, NEW o \in Observations, InEpisode(f, t, o)
    PROVE  LET c == Carried(f, t, o)
               d == Detected(Arrived(f, t), o, t)
           IN /\ Sight(f, t, o) /\ Sighted(c, run'.start, f) /\ c.episode # None
              /\ Counted(c, run'.recent) /\ Follows(c, d, f) /\ c.stream = d.stream
              /\ Full(run'.recent) /\ run'.recent[Len(run'.recent)] = Shows(o, f)
              /\ c.baseline = m.baseline /\ m.stream = stream /\ c.baseline # None
              /\ c.episode.dest # None => Near(Shows(o, f), c.episode.dest)
<1> DEFINE d == Detected(Arrived(f, t), o, t)
           x == AtBaseline(d, f)
           c == Carried(f, t, o)
           rec == run'.recent
<1>1. Sight(f, t, o) /\ d.episode # None /\ c = Carry(x, m.lastPos, o, t)
  BY DEF InEpisode, Carried
<1>2. Sighted(d, run'.start, f) /\ Sighted(c, run'.start, f) /\ c.episode # None
  BY <1>1, SightStep, CarriedSighted DEF Sound
<1>3. /\ Ready(d, rec) /\ rec[Len(rec)] = Shows(o, f) /\ Standing(d.episode, run.recent)
      /\ GoesOn(rec, run.recent, Shows(o, f))
      /\ d.baseline # None => d.baseline = m.baseline /\ m.stream = stream
  BY <1>1, DetectedReady
<1> HIDE DEF d, c
<1>4. d \in Machines /\ d.baseline # None
  BY <1>1, <1>2, SightedParts
<1>5. Sighted(x, run'.start, f)
  BY <1>2, AtBaselineSighted
<1>6. /\ x.baseline = d.baseline /\ x.stable = d.stable /\ x.episode = d.episode
      /\ x.stream = d.stream /\ x.lastVerified = f
  BY <1>4, AtBaselineParts
<1> HIDE DEF x
<1>7. Ready(x, rec) /\ Full(rec)
  BY <1>3, <1>4, <1>6 DEF Ready
<1>8. /\ Counted(c, rec) /\ SameParts(c, x)
      /\ c.episode.dest # None => Near(Shows(o, f), c.episode.dest)
  BY <1>1, <1>3, <1>5, <1>6, <1>7, CarryCounts
<1>9. Follows(c, d, f)
  BY <1>4, <1>6, <1>8 DEF SameParts, Follows
<1> QED BY <1>1, <1>2, <1>3, <1>4, <1>6, <1>7, <1>8, <1>9 DEF SameParts, d, c

LEMMA HandledStep ==
    ASSUME Sound, NEW f \in Nat, NEW t \in Nat, f >= sent, NEW o \in Observations,
           \/ BuildBaseline(f, t, o) \/ Rest(f, t, o) \/ PickUp(f, t, o)
           \/ MoveOn(f, t, o) \/ AbandonMovement(f, t, o)
    PROVE  Witnessed' /\ SightingKept
<1> DEFINE d == Detected(Arrived(f, t), o, t)
           x == AtBaseline(d, f)
           c == Carried(f, t, o)
           rec == run'.recent
<1>1. Sight(f, t, o) /\ event' = event
  BY DEF BuildBaseline, Rest, PickUp, MoveOn, AbandonMovement, InEpisode
<1>2. Sighted(d, run'.start, f) /\ Ready(d, rec)
  BY <1>1, SightStep, DetectedReady DEF Sound
<1>3. Sighted(x, run'.start, f)
  BY <1>2, AtBaselineSighted
<1> SUFFICES Counted(m', rec) /\ Follows(m', d, f) /\ m'.lastFrame = f
  BY <1>1, SightWitnessed
<1>4. CASE BuildBaseline(f, t, o)
  <2>1. d.baseline = None /\ m' = AccumulateBaseline(d, o, t, f)
    BY <1>4 DEF BuildBaseline
  <2> HIDE DEF d
  <2> QED BY <1>2, <2>1, AccumulateCounts, AccumulateGood
<1>5. ASSUME d.baseline # None PROVE Ready(x, rec) /\ x.baseline # None /\ \A y : Follows(y, x, f) => Follows(y, d, f)
  <2>1. d \in Machines
    BY <1>2, SightedParts
  <2> HIDE DEF d
  <2>2. /\ x.baseline = d.baseline /\ x.stable = d.stable /\ x.episode = d.episode
        /\ x.stream = d.stream /\ x.lastVerified = f
    BY <2>1, AtBaselineParts
  <2> HIDE DEF x
  <2>3. Ready(x, rec)
    BY <1>2, <2>2 DEF Ready
  <2>4. ASSUME NEW y, Follows(y, x, f), f \in Nat PROVE Follows(y, d, f)
    BY <1>5, <2>2, <2>4, Nones DEF Follows
  <2> QED BY <1>5, <2>2, <2>3, <2>4
<1>6. CASE Rest(f, t, o)
  <2>1. d.baseline # None /\ x.episode = None /\ m' = KeepBaseline(x, o, t, f)
    <3>1. x.baseline # None /\ x.episode = None /\ m' = KeepBaseline(x, o, t, f)
      BY <1>6 DEF Rest
    <3> QED BY <1>2, <3>1, AtBaselineSighted
  <2>2. Ready(x, rec) /\ x.baseline # None /\ \A y : Follows(y, x, f) => Follows(y, d, f)
    BY <1>5, <2>1
  <2> HIDE DEF x, d
  <2> QED BY <1>3, <2>1, <2>2, KeepCounts, KeepGood
<1>7. CASE PickUp(f, t, o)
  <2>1. d.baseline # None /\ m' = StartEpisode(x, o, f)
    <3>1. x.baseline # None /\ m' = StartEpisode(x, o, f)
      BY <1>7 DEF PickUp
    <3> QED BY <1>2, <3>1, AtBaselineSighted
  <2>2. Ready(x, rec) /\ x.baseline # None /\ \A y : Follows(y, x, f) => Follows(y, d, f)
    BY <1>5, <2>1
  <2> HIDE DEF x, d
  <2> QED BY <1>3, <2>1, <2>2, StartCounts, StartGood
<1>8. CASE MoveOn(f, t, o)
  <2>1. InEpisode(f, t, o) /\ m' = c
    BY <1>8 DEF MoveOn
  <2>2. Counted(c, rec) /\ Follows(c, d, f) /\ Sighted(c, run'.start, f)
    BY <2>1, CarriedCounts
  <2> HIDE DEF c, d
  <2> QED BY <2>1, <2>2, SightedParts
<1>9. CASE AbandonMovement(f, t, o)
  <2>1. InEpisode(f, t, o) /\ m' = DropEpisode(c, o, t, f)
    BY <1>9 DEF AbandonMovement
  <2>2. Full(rec) /\ Sighted(c, run'.start, f) /\ c.episode # None /\ c.stream = d.stream
    BY <2>1, CarriedCounts
  <2> HIDE DEF c, d
  <2>3. m'.lastFrame = f
    BY <2>1, <2>2, CloseGood
  <2> QED BY <2>1, <2>2, <2>3, CloseCounts
<1> QED BY <1>4, <1>6, <1>7, <1>8, <1>9

\* Near one point, near each other.
LEMMA NearBoth ==
    ASSUME NEW a \in Int, NEW b \in Int, NEW c \in Int, Dist(a, b) <= Jitter, Dist(a, c) <= Jitter
    PROVE  Dist(b, c) <= 2 * Jitter
BY ThresholdAssumption DEF Dist

LEMMA EmitStep ==
    ASSUME Sound, NEW f \in Nat, NEW t \in Nat, f >= sent, NEW o \in Observations, EmitMovement(f, t, o)
    PROVE  /\ Witnessed' /\ SightingKept
           /\ Len(run'.recent) = MinStableFrames
           /\ \A i \in 1..MinStableFrames :
                 LET r == run'.recent[i] IN
                 /\ r.slow /\ r.free /\ r.zone = event'.toZone /\ Dist(r.pos, event'.to) <= 2 * Jitter
                 /\ i > 1 => run'.recent[i - 1].frame < r.frame
           /\ \/ Dist(event'.from, event'.to) >= SameZoneMove
              \/ event'.fromZone # event'.toZone /\ Dist(event'.from, event'.to) >= MinMove
           /\ event'.mode = "experimental" =>
                 event'.release # None /\ event'.start <= event'.release /\ event'.release < event'.end
           /\ event # None => (event'.stream = event.stream => event'.start >= event.end)
<1> DEFINE c == Carried(f, t, o)
           e == c.episode
           d == Detected(Arrived(f, t), o, t)
           rec == run'.recent
           s == Shows(o, f)
<1>1. /\ InEpisode(f, t, o) /\ DestinationStable(e, t) /\ MayFinish(e, o, f) /\ CompleteMovement(c, o)
      /\ m' = FinishEpisode(c, o, t, f) /\ event' = EventOf(e, o, f)
  BY DEF EmitMovement
<1>2. /\ Sight(f, t, o) /\ Sighted(c, run'.start, f) /\ e # None
      /\ Counted(c, rec) /\ Follows(c, d, f) /\ c.stream = d.stream
      /\ Full(rec) /\ rec[Len(rec)] = s
      /\ c.baseline = m.baseline /\ m.stream = stream /\ c.baseline # None
      /\ e.dest # None => Near(s, e.dest)
  BY <1>1, CarriedCounts
<1>3. Kept(rec, f)
  BY <1>2, DetectedReady
<1>4. /\ event'.stream = stream /\ event' \in Events
  BY EmitEvidence DEF Sound
<1> HIDE DEF c, d
<1>5. e \in Episodes /\ e.from = c.baseline /\ c.stream = e.stream
  BY <1>2, SightedParts
<1>6. /\ event'.start = e.from.frame /\ event'.end = f /\ event'.from = e.from.pos /\ event'.to = o.pos
      /\ event'.fromZone = e.from.zone /\ event'.toZone = o.zone /\ event'.mode = o.mode
      /\ event'.release = o.release
  BY <1>1 DEF EventOf
<1>7. /\ Counted(m', rec) /\ Follows(m', d, f) /\ m'.baseline.frame = f /\ m'.lastFrame = f
  BY <1>1, <1>2, CloseCounts, CloseGood
<1>9. Witnessed' /\ SightingKept
  BY <1>2, <1>4, <1>6, <1>7, SightWitnessed DEF d
<1>10. Len(rec) = MinStableFrames /\ MinStableFrames \in Nat /\ MinStableFrames >= 2
  BY <1>2, ThresholdAssumption DEF Full
<1>11. e.dest # None /\ e.stable >= MinStableFrames /\ e.stable \in Nat /\ e.dest \in Destinations
  BY <1>1, <1>5 DEF DestinationStable, Episodes, Maybe
<1>12. Near(s, e.dest) /\ Stood(rec, e.dest, e.stable)
  BY <1>2, <1>11 DEF Counted, Standing
<1>13. o.zone = e.dest.zone /\ o.pos \in Int /\ e.dest.pos \in Int /\ Dist(e.dest.pos, o.pos) <= Jitter
  BY <1>11, <1>12, PositionsAssumption DEF Near, Shows, Destinations, Observations
<1>14. ASSUME NEW i \in 1..MinStableFrames
       PROVE  /\ rec[i].slow /\ rec[i].free /\ rec[i].zone = event'.toZone
              /\ Dist(rec[i].pos, event'.to) <= 2 * Jitter
              /\ i > 1 => rec[i - 1].frame < rec[i].frame
  <2>1. i \in 1..Len(rec) /\ i + e.stable > Len(rec)
    BY <1>10, <1>11
  <2> HIDE DEF e, rec, s
  <2>2. Near(rec[i], e.dest)
    BY <1>12, <2>1 DEF Stood
  <2>3. rec[i] \in Shown
    BY <1>3, <2>1 DEF Kept
  <2>4. rec[i].pos \in Int
    BY <2>3, PositionsAssumption DEF Shown
  <2>5. rec[i].slow /\ rec[i].free /\ rec[i].zone = e.dest.zone /\ Dist(e.dest.pos, rec[i].pos) <= Jitter
    BY <2>2 DEF Near
  <2>6. Dist(rec[i].pos, o.pos) <= 2 * Jitter
    BY <1>13, <2>4, <2>5, NearBoth
  <2>7. i > 1 => rec[i - 1].frame < rec[i].frame
    BY <1>3, <2>1 DEF Kept
  <2> QED BY <1>6, <1>13, <2>5, <2>6, <2>7
<1>15. \/ Dist(event'.from, event'.to) >= SameZoneMove
       \/ event'.fromZone # event'.toZone /\ Dist(event'.from, event'.to) >= MinMove
  BY <1>1, <1>6 DEF CompleteMovement, RequiredDistance
<1>16. ASSUME event'.mode = "experimental"
       PROVE  event'.release # None /\ event'.start <= event'.release /\ event'.release < event'.end
  BY <1>1, <1>2, <1>6, <1>16 DEF MayFinish, VerifiedRelease, Sight
<1>17. ASSUME event # None, event'.stream = event.stream PROVE event'.start >= event.end
  <2>1. Later(m) /\ TypeOK
    BY DEF Sound, Witnessed, IInv
  <2>2. event.end <= m.baseline.frame
    BY <1>2, <1>4, <1>17, <2>1 DEF Later
  <2>3. event.end \in Nat /\ e.from.frame \in Nat
    BY <1>5, <1>17, <2>1, EventTypes DEF Episodes, Baselines
  <2> QED BY <1>2, <1>5, <1>6, <2>2, <2>3
<1> QED BY <1>9, <1>10, <1>14, <1>15, <1>16, <1>17 DEF rec

\* One step keeps what was witnessed; its events are witnessed and disjoint.
LEMMA SoundStep ==
    ASSUME Sound, [Next]_vars
    PROVE  /\ Sound' /\ (SightingKept \/ UNCHANGED vars)
           /\ event' # event =>
                /\ Len(run'.recent) = MinStableFrames
                /\ \A i \in 1..MinStableFrames :
                      LET r == run'.recent[i] IN
                      /\ r.slow /\ r.free /\ r.zone = event'.toZone /\ Dist(r.pos, event'.to) <= 2 * Jitter
                      /\ i > 1 => run'.recent[i - 1].frame < r.frame
                /\ \/ Dist(event'.from, event'.to) >= SameZoneMove
                   \/ event'.fromZone # event'.toZone /\ Dist(event'.from, event'.to) >= MinMove
                /\ event'.mode = "experimental" =>
                      event'.release # None /\ event'.start <= event'.release /\ event'.release < event'.end
                /\ event # None => (event'.stream = event.stream => event'.start >= event.end)
<1>1. IInv'
  BY Inductive DEF Sound
<1>2. /\ IInv /\ TypeOK /\ Witnessed /\ stream \in Nat /\ sent \in Nat
      /\ Kept(run.recent, m.lastFrame) /\ Counted(m, run.recent) /\ Later(m) /\ EventPast
  BY DEF Sound, Witnessed, IInv, TypeOK
<1>3. CASE UNCHANGED vars
  <2>1. Witnessed'
    BY <1>2, <1>3 DEF vars, Witnessed, Later, EventPast, Counted, Standing, Kept, Full, Stood
  <2> QED BY <1>1, <1>3, <2>1 DEF Sound, vars
<1>4. CASE Update
  <2>1. PICK p \in Packets :
           \/ RejectFrame(p[1], p[2]) \/ MissItem(p[1], p[2])
           \/ \E o \in Inputs :
                 \/ BuildBaseline(p[1], p[2], o) \/ Rest(p[1], p[2], o) \/ PickUp(p[1], p[2], o)
                 \/ MoveOn(p[1], p[2], o) \/ AbandonMovement(p[1], p[2], o)
                 \/ EmitMovement(p[1], p[2], o)
    BY <1>4 DEF Update
  <2> DEFINE f == p[1]
             t == p[2]
  <2>2. f \in Nat /\ t \in Nat /\ f >= sent
    BY <1>2, PacketNat DEF Packets
  <2> HIDE DEF f, t
  <2>3. CASE RejectFrame(f, t) \/ MissItem(f, t)
    <3>1. event' = event
      BY <2>3 DEF RejectFrame, MissItem
    <3> QED BY <1>1, <2>2, <2>3, <3>1, QuietStep DEF Sound
  <2>4. ASSUME NEW o \in Inputs,
               \/ BuildBaseline(f, t, o) \/ Rest(f, t, o) \/ PickUp(f, t, o)
               \/ MoveOn(f, t, o) \/ AbandonMovement(f, t, o)
        PROVE  Witnessed' /\ SightingKept /\ event' = event
    <3>1. o \in Observations
      BY InputsObserved
    <3>2. Witnessed' /\ SightingKept
      BY <2>2, <2>4, <3>1, HandledStep
    <3>3. event' = event
      BY <2>4 DEF BuildBaseline, Rest, PickUp, MoveOn, AbandonMovement
    <3> QED BY <3>2, <3>3
  <2>5. CASE \E o \in Inputs : EmitMovement(f, t, o)
    <3>1. PICK o \in Observations : EmitMovement(f, t, o)
      BY <2>5, InputsObserved
    <3>2. Witnessed' /\ SightingKept
      BY <2>2, <3>1, EmitStep
    <3> QED BY <1>1, <2>2, <3>1, <3>2, EmitStep DEF Sound
  <2> QED BY <1>1, <2>1, <2>3, <2>4, <2>5 DEF f, t, Sound
<1>5. CASE SourceRestart
  <2>1. /\ m' = m /\ run' = run /\ event' = event /\ stream' = stream + 1 /\ sent' = 0
    BY <1>5 DEF SourceRestart
  <2>2. EventPast'
    <3>1. event # None => event.stream <= stream /\ event.stream \in Nat
      BY <1>2, EventTypes DEF EventPast
    <3> QED BY <1>2, <2>1, <3>1 DEF EventPast
  <2>3. Kept(run'.recent, m'.lastFrame) /\ Counted(m', run'.recent) /\ Later(m)'
    BY <1>2, <2>1 DEF Later
  <2>4. SightingKept
    BY <2>1 DEF SightingKept
  <2> QED BY <1>1, <2>1, <2>2, <2>3, <2>4 DEF Sound, Witnessed
<1>6. CASE EngineReset \/ ProfileRebuild
  <2>1. /\ m'.stable = 0 /\ m'.baseline = None /\ m'.episode = None /\ m'.lastVerified = None
        /\ m'.lastFrame = None /\ run' = EmptyRun /\ event' = event /\ stream' = stream /\ sent' = sent
    BY <1>6, ResetParts DEF EngineReset, ProfileRebuild, Fresh
  <2>2. Kept(run'.recent, m'.lastFrame) /\ Counted(m', run'.recent)
    BY <2>1, NothingCounted DEF EmptyRun
  <2>3. Later(m)' /\ EventPast'
    BY <1>2, <2>1 DEF Later, EventPast
  <2>4. SightingKept
    BY <2>1 DEF SightingKept
  <2> QED BY <1>1, <2>1, <2>2, <2>3, <2>4 DEF Sound, Witnessed
<1> QED BY <1>3, <1>4, <1>5, <1>6 DEF Next

LEMMA InitSound == Init => Sound
<1> SUFFICES ASSUME Init PROVE Sound
  OBVIOUS
<1>1. Kept(run.recent, m.lastFrame) /\ Counted(m, run.recent)
  BY NothingCounted DEF Init, Fresh, EmptyRun
<1>2. Later(m) /\ EventPast
  BY DEF Init, Later, EventPast
<1> QED BY <1>1, <1>2, InitIInv DEF Sound, Witnessed

LEMMA Invariance == Spec => []IInv
<1>1. IInv /\ [Next]_vars => IInv'
  BY Inductive
<1> QED BY <1>1, InitIInv, PTL DEF Spec

\* The machine, the counters, the event and the observer keep their types.
THEOREM TypeCorrect == Spec => []TypeOK
<1>1. IInv => TypeOK
  BY DEF IInv
<1> QED BY <1>1, Invariance, PTL

\* Whatever the thresholds, positions and frame timing: every emitted movement
\* rests on one unbroken run of detections of one source session.
THEOREM UnbrokenEvidence == Spec => EvidenceUnbroken
<1>1. IInv /\ [Next]_vars =>
        [event' # event => /\ event'.stream = stream
                           /\ run'.start # None /\ run'.start <= event'.start
                           /\ event'.start < event'.end]_vars
  BY Inductive
<1> QED BY <1>1, Invariance, PTL DEF Spec, EvidenceUnbroken

LEMMA SoundAlways == Spec => []Sound
<1>1. Sound /\ [Next]_vars => Sound'
  BY SoundStep
<1> QED BY <1>1, InitSound, PTL DEF Spec

\* Whatever the thresholds: the last MinStableFrames frames of every emitted
\* movement show it at rest, free and near its destination, and it is a
\* meaningful one.
THEOREM WitnessedAlways == Spec => MovementWitnessed
<1>1. Sound /\ [Next]_vars =>
        [event' # event =>
           /\ Len(run'.recent) = MinStableFrames
           /\ \A i \in 1..MinStableFrames :
                 LET r == run'.recent[i] IN
                 /\ r.slow /\ r.free /\ r.zone = event'.toZone /\ Dist(r.pos, event'.to) <= 2 * Jitter
                 /\ i > 1 => run'.recent[i - 1].frame < r.frame
           /\ \/ Dist(event'.from, event'.to) >= SameZoneMove
              \/ event'.fromZone # event'.toZone /\ Dist(event'.from, event'.to) >= MinMove
           /\ event'.mode = "experimental" =>
                 event'.release # None /\ event'.start <= event'.release /\ event'.release < event'.end]_vars
  BY SoundStep
<1> QED BY <1>1, SoundAlways, PTL DEF Spec, MovementWitnessed

\* Two movements of one session never rest on a common frame, across resets and
\* rebuilt machines too.
THEOREM WindowsDisjointAlways == Spec => WindowsDisjoint
<1>1. Sound /\ [Next]_vars =>
        [event' # event /\ event # None =>
           (event'.stream = event.stream => event'.start >= event.end)]_vars
  BY SoundStep
<1> QED BY <1>1, SoundAlways, PTL DEF Spec, WindowsDisjoint

\* What is published as last seen is verified by the frames of one run, and
\* outlives losses; only a new session, a gap or a reset drops it.
THEOREM SightingSoundAlways == Spec => SightingSound
<1>1. Sound => TypeOK /\ VerifiedSighting
  BY DEF Sound, IInv, Witnessed, Counted, Full, Good, BaselineInRun, VerifiedSighting, ObservationVerified
<1>2. Sound /\ [Next]_vars => [TypeOK' /\ VerifiedSighting' /\ SightingKept]_vars
  <2> SUFFICES ASSUME Sound, [Next]_vars PROVE [TypeOK' /\ VerifiedSighting' /\ SightingKept]_vars
    OBVIOUS
  <2>1. Sound'
    BY SoundStep
  <2>2. TypeOK' /\ VerifiedSighting'
    BY <2>1
    DEF Sound, IInv, Witnessed, Counted, Full, Good, BaselineInRun, VerifiedSighting, ObservationVerified
  <2>3. SightingKept \/ UNCHANGED vars
    BY SoundStep
  <2> QED BY <2>2, <2>3
<1> QED BY <1>2, SoundAlways, PTL DEF Spec, SightingSound
=============================================================================
