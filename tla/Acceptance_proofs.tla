-------------------------- MODULE Acceptance_proofs --------------------------
(***************************************************************************)
(* Proofs about Acceptance, for any number of requests, runs, generations, *)
(* faults and movements that a suite may spare: its runs, events and       *)
(* trials tell one story, no active run is orphaned, and an outcome is     *)
(* earned and final.                                                       *)
(*                                                                         *)
(* Layout: the inductive invariant IInv; what a step may do to each part   *)
(* of the state (the summaries, one per variable); one lemma per action,   *)
(* which shows its summary; one lemma per part of the invariant, which     *)
(* uses only the summaries; the theorems.                                  *)
(***************************************************************************)
EXTENDS Acceptance, FiniteSetTheorems, TLAPS

-----------------------------------------------------------------------------
(* The inductive invariant.                                                *)

Pcs == {"idle", "begin", "look", "mark", "join", "launch", "preflight", "activate", "rebind",
        "lookup", "arm", "install", "callOff", "detach", "raised", "identify", "apply", "pass"}
Verbs == Maybe(Ops \cup {"notify", "track"})
Syncing == {"identify", "apply", "pass"}
Bound == {"activate", "rebind", "lookup", "arm", "install"}
Starters == {"start", "reconnect"}

\* The bounds of the exploration are used up by the faults.
With == {i \in DOMAIN runs : runs[i].event # None}
Counted ==
    /\ edits <= faults /\ \A g \in Gens : switches[g] <= faults
    /\ Len(events) <= faults + Cardinality(With)

\* Only the last run of the suite may not have ended.
Latest == \A i \in DOMAIN runs : ~Terminal(runs[i].status) => i = Len(runs)

\* What a thread carries fits to where it is: D are the runs there are, b the
\* generations.
OpsAt(pc) ==
    CASE pc = "begin" -> {"start", "reconnect", "cancel", "poll"}
      [] pc = "callOff" -> {"reconnect", "cancel"}
      [] pc \in {"detach", "look", "join"} -> Starters \cup {"stop"}
      [] pc = "mark" -> Starters \cup {"stop", "cancel"}
      [] pc = "launch" -> Starters \cup {"launch"}
      [] pc \in {"preflight", "lookup", "arm", "install"} -> Starters
      [] pc = "activate" -> {"start"}
      [] pc \in {"rebind", "raised"} -> {"reconnect"}
      [] OTHER -> Verbs
Fits(c, D, b) ==
    /\ c.op \in OpsAt(c.pc)
    /\ c.pc # "idle" => c.op \in {"stop", "launch"} \/ c.run \in D
    /\ c.view # None => c.view.run \in D
    /\ c.pc \in Syncing => c.run \in D /\ c.view # None /\ c.view.run = c.run
    /\ c.pc \in Bound => c.session # None /\ c.session.gen <= b
    /\ c.pc = "install" => c.session.gen = c.gen
    /\ c.pc = "mark" /\ c.op # "cancel" => c.victim \in D
Shaped ==
    /\ \A t \in Threads : Fits(call[t], DOMAIN runs, born)
    /\ \A t \in Requests : call[t].op \notin {"notify", "track"}
    /\ \A g \in Gens : call[g].pc \in {"idle"} \cup Syncing

\* Runs, events, trials and jobs refer to each other.
Linked ==
    /\ \A g \in Gens : trial[g] # None => trial[g].run \in DOMAIN runs
    /\ \A g \in Gens : job[g] # None => /\ trial[g] # None /\ job[g].run \in DOMAIN runs
                                        /\ job[g].pc = "stored" => runs[job[g].run].status = "PASSED"
    /\ \A i \in DOMAIN runs : runs[i].event # None => runs[i].status = "PASSED" /\ runs[i].event \in DOMAIN events
    /\ \A e \in DOMAIN events : events[e].run # 0 => events[e].run \in DOMAIN runs

\* The state of a trial fits to the kind of its run (kind) and to its status.
Proper(x, kind, status) ==
    /\ x.state = "completed" => x.seen /\ kind \notin {"movement", "disconnect_reconnect"}
    /\ x.state \in {"confirmed", "emitted"} => kind = "movement"
    /\ x.state = "emitted" => status = "PASSED"
    /\ x.stable => x.state = "armed"
Judged ==
    \A g \in Gens : trial[g] # None =>
        /\ Proper(trial[g], runs[trial[g].run].kind, runs[trial[g].run].status)
        /\ Open(trial[g]) => g \notin told

\* A vision thread notifies what is still the outcome of its trial.
Notified == \A g \in Gens : call[g].op = "notify" => trial[g] # None /\ call[g].view = trial[g] /\ ~Open(trial[g])

\* A completed trial that somebody has seen is there until its run has ended,
\* and what is about to pass has been earned.
Witness(i) == \E g \in Gens : trial[g] # None /\ trial[g].run = i /\ trial[g].state = "completed"
Seen(c) == c.view # None /\ c.view.state = "completed" => Terminal(runs[c.view.run].status) \/ Witness(c.view.run)
Ready(c) == c.pc = "pass" => /\ runs[c.run].kind # "movement"
                             /\ IF runs[c.run].kind = "disconnect_reconnect" THEN runs[c.run].back # None
                                ELSE c.view.state = "completed"
Viewed == \A t \in Threads : Seen(call[t]) /\ Ready(call[t])

\* A request that may still arm an earlier run does so in a session of an
\* earlier generation than that of any later run.
Older(c) == c.pc \in {"lookup", "arm", "install"}
Waiting == {"look", "mark", "join", "launch", "preflight"}
Apart(c, d) ==
    d.op \in Starters /\ d.run > c.run =>
        /\ d.pc \in Waiting => engine # c.session.gen
        /\ d.pc \in Bound => d.session.gen # c.session.gen
Fresh ==
    \A t \in Requests : Older(call[t]) =>
        /\ \A g \in Gens : trial[g] # None /\ trial[g].run > call[t].run => g # call[t].session.gen
        /\ \A u \in Requests : Apart(call[t], call[u])

\* Who will end an active run, or arm its trial.
Owns(c, i) ==
    \/ c.pc = "look"
    \/ c.pc = "mark" /\ c.op # "cancel" /\ c.victim = i
    \/ c.run = i /\ c.op = "cancel" /\ c.pc \in {"callOff", "mark"}
    \/ c.run = i /\ c.op = "reconnect"
       /\ c.pc \in {"callOff", "detach", "look", "mark", "join", "launch", "preflight", "rebind", "raised"}
    \/ c.run = i /\ c.pc = "lookup"
    \/ c.run = i /\ c.pc \in {"arm", "install"} /\ engine # 0 /\ c.gen = engine
Told(i) == engine # 0 /\ trial[engine] # None /\ trial[engine].run = i /\ engine \notin told
Owned == \A i \in ActiveRuns : (\E t \in Requests : Owns(call[t], i)) \/ Told(i)

IInv ==
    /\ TypeOK /\ Counted /\ Latest /\ Shaped /\ Linked /\ Judged /\ EventsBelong
    /\ Notified /\ Viewed /\ Fresh /\ Owned
-----------------------------------------------------------------------------
(* What a step does to the runs, the events, the trials and the calls.     *)

\* Only a run that has not ended changes; in a quiet step it neither passes
\* nor becomes active.
RowQuiet(o, n) ==
    /\ ~Terminal(o.status) /\ n.status # "PASSED"
    /\ n.kind = o.kind /\ n.event = o.event
    /\ o.back # None => n.back # None
    /\ n.status = "ACTIVE" => o.status = "ACTIVE" /\ n.session # None
RunsQuiet ==
    /\ runs' \in Seq(Runs) /\ Len(runs') = Len(runs)
    /\ \A i \in DOMAIN runs : runs'[i] = runs[i] \/ RowQuiet(runs[i], runs'[i])
RowFair(o, n) ==
    /\ ~Terminal(o.status) /\ n.kind = o.kind /\ n.event = o.event
    /\ o.back # None => n.back # None
    /\ n.status = "PASSED" => n.kind # "movement"
    /\ n.status = "ACTIVE" => n.session # None
RunsFair ==
    /\ runs' \in Seq(Runs) /\ Len(runs') = Len(runs)
    /\ \A i \in DOMAIN runs : runs'[i] = runs[i] \/ RowFair(runs[i], runs'[i])
\* In every step: a run that has ended stays as it is.
RunsMove ==
    /\ runs' \in Seq(Runs) /\ Len(runs') \in Len(runs)..MaxRuns
    /\ \A i \in DOMAIN runs : \/ runs'[i] = runs[i]
                              \/ /\ ~Terminal(runs[i].status) /\ runs'[i].kind = runs[i].kind
                                 /\ runs[i].back # None => runs'[i].back # None

\* The events there are stay those of their runs; a new one is of no run.
EventsFair ==
    /\ events' \in Seq(Events) /\ Len(events') \in Len(events)..(Len(events) + (faults' - faults))
    /\ \A e \in DOMAIN events : events'[e].run = events[e].run /\ events'[e].session = events[e].session
    /\ \A e \in DOMAIN events' : e \in DOMAIN events \/ events'[e].run = 0

\* A trial changes while it is undecided, and stays that of its run; it is not
\* armed again, and its event is emitted after its movement was confirmed.
Follows(from, to) == (to = "armed" => from = "armed") /\ (to = "emitted" => from = "confirmed")
TrialStep(g) ==
    /\ trial[g] # None /\ Open(trial[g])
    /\ trial'[g] \in Trials /\ trial'[g].run = trial[g].run /\ Follows(trial[g].state, trial'[g].state)
    /\ Proper(trial'[g], runs[trial[g].run].kind, runs[trial[g].run].status)
TrialsQuiet ==
    /\ trial' \in [Gens -> Maybe(Trials)]
    /\ \A g \in Gens : trial'[g] = trial[g] \/ TrialStep(g)

\* A trial changes, is armed, or is lost with its job.
TrialNew(g) ==
    /\ trial'[g] \in Trials /\ trial'[g].run \in DOMAIN runs
    /\ Proper(trial'[g], runs[trial'[g].run].kind, runs[trial'[g].run].status)
TrialsFair ==
    /\ trial' \in [Gens -> Maybe(Trials)]
    /\ \A g \in Gens : trial'[g] = trial[g] \/ TrialNew(g) \/ (trial'[g] = None /\ job'[g] = None)
JobsFair ==
    /\ job' \in [Gens -> Maybe(Jobs)]
    /\ \A g \in Gens : job'[g] # None =>
          \/ job'[g] = job[g]
          \/ trial[g] # None /\ job'[g].run \in DOMAIN runs /\ job'[g].pc # "stored"
ToldFair == told' \subseteq Gens /\ \A g \in told' : trial'[g] # None => ~Open(trial'[g])
CameraFair ==
    /\ engine' \in 0..born' /\ stopping' \in 0..born' /\ born' \in born..MaxGen
    /\ engine' # 0 => engine' # stopping'
CountsFair ==
    /\ faults' \in faults..MaxFaults /\ edits' \in 0..faults'
    /\ switches' \in [Gens -> 0..MaxFaults] /\ \A g \in Gens : switches'[g] <= faults'
\* What a suite makes of its runs: a run passes only if that was earned, and
\* evidence that was lost before it was checked stays lost.
Earns(i) ==
    \/ runs'[i].status # "PASSED" \/ runs[i].status = "PASSED" \/ runs[i].kind = "movement"
    \/ IF runs[i].kind = "disconnect_reconnect" THEN runs[i].back # None ELSE Witness(i)
FatesMove ==
    \A e \in DOMAIN events :
        /\ e \in DOMAIN events' /\ events'[e].run = events[e].run /\ events'[e].session = events[e].session
        /\ events[e].fate \in {"damaged", "gone"} => events'[e].fate \in {"damaged", "gone"}
\* A trial moves, is replaced by that of another run, or is lost.
TrialsMove ==
    \A g \in Gens : trial[g] = None \/ trial'[g] = None \/ trial'[g].run # trial[g].run
                   \/ trial'[g] = trial[g] \/ TrialStep(g)
Outcome == RunsMove /\ FatesMove /\ TrialsMove /\ \A i \in DOMAIN runs : Earns(i)
World == RunsFair /\ EventsFair /\ TrialsFair /\ JobsFair /\ ToldFair /\ CameraFair /\ CountsFair

\* One thread moves.
Turn(t) == call' \in [Threads -> Calls] /\ \A u \in Threads : u # t => call'[u] = call[u]

-----------------------------------------------------------------------------
(* Rows, trials and calls.                                                 *)

\* An element of a sequence is replaced.
LEMMA SeqSet ==
    ASSUME NEW S, NEW q \in Seq(S), NEW i \in DOMAIN q, NEW x \in S
    PROVE  /\ [q EXCEPT ![i] = x] \in Seq(S) /\ Len([q EXCEPT ![i] = x]) = Len(q)
           /\ DOMAIN [q EXCEPT ![i] = x] = DOMAIN q /\ [q EXCEPT ![i] = x][i] = x
           /\ \A j \in DOMAIN q : j # i => [q EXCEPT ![i] = x][j] = q[j]
OBVIOUS

LEMMA NoneIsNone ==
    None \notin Nat /\ None \notin Ops \cup {"notify", "track"} /\ None \notin Sessions /\ None \notin Trials /\ None \notin Jobs
BY NoneAssumption

LEMMA Bounds == MaxRuns \in Nat /\ Spared \in Nat /\ MaxGen \in Nat /\ MaxFaults \in Nat /\ Gens \subseteq Nat \ {0}
BY BoundsAssumption DEF Gens

\* The parts of a call.
LEMMA CallParts ==
    ASSUME NEW c \in Calls
    PROVE  /\ c.pc \in Pcs /\ c.op \in Verbs /\ c.run \in {0} \cup Scenarios /\ c.gen \in {0} \cup Gens
           /\ c.view \in Maybe(Trials) /\ c.session \in Maybe(Sessions) /\ c.victim \in {0} \cup Scenarios
BY DEF Calls, Pcs, Verbs

LEMMA CallMade ==
    ASSUME NEW pc \in Pcs, NEW op \in Verbs, NEW run \in {0} \cup Scenarios, NEW gen \in {0} \cup Gens,
           NEW view \in Maybe(Trials), NEW session \in Maybe(Sessions), NEW victim \in {0} \cup Scenarios
    PROVE  [pc |-> pc, op |-> op, run |-> run, gen |-> gen, view |-> view, session |-> session, victim |-> victim] \in Calls
BY DEF Calls, Pcs, Verbs

LEMMA IdleIsCall == Idle \in Calls /\ Idle.pc = "idle" /\ Idle.op = None /\ Idle.view = None /\ Idle.run = 0 /\ Idle.session = None
BY DEF Idle, Calls, Maybe

\* A thread takes another call.
LEMMA Turned ==
    ASSUME call \in [Threads -> Calls], NEW t \in Threads, NEW c \in Calls, call' = [call EXCEPT ![t] = c]
    PROVE  Turn(t) /\ call'[t] = c
BY DEF Turn

LEMMA Gone ==
    ASSUME call \in [Threads -> Calls], NEW t \in Threads, NEW pc \in Pcs, Goto(t, pc)
    PROVE  /\ Turn(t) /\ call'[t].pc = pc /\ call'[t].op = call[t].op /\ call'[t].run = call[t].run
           /\ call'[t].gen = call[t].gen /\ call'[t].view = call[t].view /\ call'[t].session = call[t].session
           /\ call'[t].victim = call[t].victim
<1> DEFINE c == [call[t] EXCEPT !.pc = pc]
<1>1. call[t] \in Calls
  OBVIOUS
<1>2. c \in Calls /\ c.pc = pc /\ c.op = call[t].op /\ c.run = call[t].run /\ c.gen = call[t].gen
      /\ c.view = call[t].view /\ c.session = call[t].session /\ c.victim = call[t].victim
  BY <1>1 DEF Calls, Pcs
<1>3. call' = [call EXCEPT ![t] = c]
  BY DEF Goto
<1> HIDE DEF c
<1> QED
  BY <1>2, <1>3, Turned

LEMMA Returned ==
    ASSUME call \in [Threads -> Calls], NEW t \in Threads, Return(t)
    PROVE  Turn(t) /\ call'[t] = Idle
BY Turned, IdleIsCall DEF Return

LEMMA RowSet ==
    ASSUME runs \in Seq(Runs), NEW i \in DOMAIN runs, NEW n \in Runs, RowQuiet(runs[i], n),
           runs' = [runs EXCEPT ![i] = n]
    PROVE  RunsQuiet /\ runs'[i] = n /\ \A j \in DOMAIN runs : j # i => runs'[j] = runs[j]
<1>1. /\ runs' \in Seq(Runs) /\ Len(runs') = Len(runs) /\ runs'[i] = n
      /\ \A j \in DOMAIN runs : j # i => runs'[j] = runs[j]
  BY SeqSet
<1> QED
  BY <1>1 DEF RunsQuiet

LEMMA RunsSame == ASSUME runs \in Seq(Runs), runs' = runs PROVE RunsQuiet
BY DEF RunsQuiet

\* A run that has not ended takes another status: the row.
LEMMA StatusRow ==
    ASSUME NEW o \in Runs, NEW st \in Statuses
    PROVE  LET n == [o EXCEPT !.status = st]
           IN /\ n \in Runs /\ n.status = st /\ n.kind = o.kind /\ n.event = o.event /\ n.back = o.back
              /\ n.session = o.session /\ n.executed = o.executed /\ n.before = o.before /\ n.cut = o.cut
BY DEF Runs

Endings == {"CANCELLED", "CAMERA_INTERRUPTED", "FAILED"}
LEMMA EndsQuiet ==
    ASSUME runs \in Seq(Runs), NEW i \in DOMAIN runs, NEW st \in Endings, runs' = Ended(i, st)
    PROVE  RunsQuiet /\ Terminal(runs'[i].status) /\ \A j \in DOMAIN runs : j # i => runs'[j] = runs[j]
<1> DEFINE n == [runs[i] EXCEPT !.status = st]
<1>1. runs[i] \in Runs /\ st \in Statuses /\ st # "PASSED" /\ st # "ACTIVE" /\ Terminal(st)
  BY DEF Endings, Statuses, Terminal
<1>2. /\ n \in Runs /\ n.status = st /\ n.kind = runs[i].kind /\ n.event = runs[i].event /\ n.back = runs[i].back
  BY <1>1, StatusRow
<1>3. CASE Terminal(runs[i].status)
  BY <1>3, RunsSame DEF Ended
<1>4. CASE ~Terminal(runs[i].status)
  <2>1. runs' = [runs EXCEPT ![i] = n]
    BY <1>4 DEF Ended
  <2> HIDE DEF n
  <2>2. RowQuiet(runs[i], n)
    BY <1>1, <1>2, <1>4 DEF RowQuiet
  <2> QED
    BY <2>1, <2>2, <1>1, <1>2, RowSet
<1> QED
  BY <1>3, <1>4

\* What a quiet step keeps of the table.
LEMMA QuietMoves ==
    ASSUME TypeOK, RunsQuiet
    PROVE  /\ RunsMove /\ Len(runs') <= MaxRuns /\ runs' \in Seq(Runs) /\ DOMAIN runs' = DOMAIN runs
           /\ \A i \in ActiveRuns' : runs'[i].session # None
           /\ \A i \in ActiveRuns' : i \in ActiveRuns
<1>1. runs \in Seq(Runs) /\ Len(runs) <= MaxRuns /\ \A i \in ActiveRuns : runs[i].session # None
  BY DEF TypeOK
<1>2. runs' \in Seq(Runs) /\ Len(runs') = Len(runs) /\ DOMAIN runs' = DOMAIN runs
  BY <1>1 DEF RunsQuiet
<1>3. \A i \in DOMAIN runs : runs'[i] = runs[i] \/ RowQuiet(runs[i], runs'[i])
  BY DEF RunsQuiet
<1>4. Len(runs') \in Len(runs)..MaxRuns
  BY <1>1, <1>2, Bounds
<1>5. RunsMove
  BY <1>2, <1>3, <1>4 DEF RunsMove, RowQuiet
<1>6. ASSUME NEW i \in ActiveRuns' PROVE i \in ActiveRuns /\ runs'[i].session # None
  BY <1>1, <1>2, <1>3 DEF ActiveRuns, Active, RowQuiet
<1> QED
  BY <1>1, <1>2, <1>5, <1>6

\* A trial is replaced.
LEMMA TrialSet ==
    ASSUME trial \in [Gens -> Maybe(Trials)], NEW g \in Gens, NEW x \in Trials, trial[g] # None, Open(trial[g]),
           x.run = trial[g].run, Proper(x, runs[trial[g].run].kind, runs[trial[g].run].status),
           Follows(trial[g].state, x.state), trial' = [trial EXCEPT ![g] = x]
    PROVE  TrialsQuiet /\ trial'[g] = x /\ \A h \in Gens : h # g => trial'[h] = trial[h]
<1>1. trial' \in [Gens -> Maybe(Trials)] /\ trial'[g] = x /\ \A h \in Gens : h # g => trial'[h] = trial[h]
  BY DEF Maybe
<1>2. TrialStep(g)
  BY <1>1 DEF TrialStep
<1> QED
  BY <1>1, <1>2 DEF TrialsQuiet

LEMMA QuietTrialsMove == ASSUME TrialsQuiet PROVE TrialsMove
BY DEF TrialsQuiet, TrialsMove

LEMMA TrialsSame == ASSUME trial \in [Gens -> Maybe(Trials)], trial' = trial PROVE TrialsQuiet
BY DEF TrialsQuiet

\* The parts of a trial, and the trial in another state that is not stable.
LEMMA TrialParts ==
    ASSUME NEW x \in Trials
    PROVE  /\ x.run \in Scenarios /\ x.session \in Sessions /\ x.seen \in BOOLEAN /\ x.stable \in BOOLEAN
           /\ x.state \in {"armed", "confirmed", "emitted", "completed", "over"}
BY DEF Trials
LEMMA TrialIn ==
    ASSUME NEW x \in Trials, NEW st \in {"armed", "confirmed", "emitted", "completed", "over"}
    PROVE  LET y == [x EXCEPT !.state = st, !.stable = FALSE]
           IN /\ y \in Trials /\ y.state = st /\ y.stable = FALSE /\ y.run = x.run /\ y.seen = x.seen
              /\ y.session = x.session
BY DEF Trials

LEMMA BecomesQuiet ==
    ASSUME trial \in [Gens -> Maybe(Trials)], NEW g \in Gens, trial[g] # None, Open(trial[g]),
           NEW st \in {"armed", "confirmed", "emitted", "completed", "over"}, Becomes(g, st),
           st = "completed" => trial[g].seen /\ runs[trial[g].run].kind \notin {"movement", "disconnect_reconnect"},
           st \in {"confirmed", "emitted"} => runs[trial[g].run].kind = "movement",
           st = "emitted" => runs[trial[g].run].status = "PASSED", Follows(trial[g].state, st)
    PROVE  TrialsQuiet
<1> DEFINE y == [trial[g] EXCEPT !.state = st, !.stable = FALSE]
<1>1. trial[g] \in Trials
  BY DEF Maybe
<1>2. y \in Trials /\ y.state = st /\ y.stable = FALSE /\ y.run = trial[g].run /\ y.seen = trial[g].seen
  BY <1>1, TrialIn, ZenonT(60)
<1>3. trial' = [trial EXCEPT ![g] = y]
  BY DEF Becomes
<1> HIDE DEF y
<1>4. Proper(y, runs[trial[g].run].kind, runs[trial[g].run].status)
  BY <1>2 DEF Proper
<1> QED
  BY <1>2, <1>3, <1>4, TrialSet

LEMMA CalledOffQuiet ==
    ASSUME trial \in [Gens -> Maybe(Trials)], NEW g, NEW i, trial' = CalledOff(i, g)
    PROVE  TrialsQuiet
<1>1. CASE trial' = trial
  BY <1>1, TrialsSame
<1>2. CASE trial' # trial
  <2>1. trial[g] # None /\ Open(trial[g])
    BY <1>2 DEF CalledOff
  <2>2. trial' = [trial EXCEPT ![g] = [@ EXCEPT !.state = "over", !.stable = FALSE]]
    BY <1>2 DEF CalledOff
  <2>4. g \in Gens
    BY <1>2, <2>2
  <2>3. Becomes(g, "over") /\ Follows(trial[g].state, "over")
    BY <2>1, <2>2 DEF Becomes, Follows
  <2> QED
    BY <2>1, <2>3, <2>4, BecomesQuiet
<1> QED
  BY <1>1, <1>2

LEMMA QuietFair == ASSUME RunsQuiet PROVE RunsFair
BY DEF RunsQuiet, RunsFair, RowQuiet, RowFair

LEMMA FairMoves ==
    ASSUME TypeOK, RunsFair
    PROVE  /\ RunsMove /\ Len(runs') <= MaxRuns /\ runs' \in Seq(Runs) /\ DOMAIN runs' = DOMAIN runs
           /\ \A i \in ActiveRuns' : runs'[i].session # None
           /\ \A i \in DOMAIN runs : Terminal(runs[i].status) => runs'[i] = runs[i]
           /\ \A i \in DOMAIN runs : runs'[i].kind = runs[i].kind /\ runs'[i].event = runs[i].event
<1>1. runs \in Seq(Runs) /\ Len(runs) <= MaxRuns /\ \A i \in ActiveRuns : runs[i].session # None
  BY DEF TypeOK
<1>2. runs' \in Seq(Runs) /\ Len(runs') = Len(runs) /\ DOMAIN runs' = DOMAIN runs
  BY <1>1 DEF RunsFair
<1>3. \A i \in DOMAIN runs : runs'[i] = runs[i] \/ RowFair(runs[i], runs'[i])
  BY DEF RunsFair
<1>4. Len(runs') \in Len(runs)..MaxRuns
  BY <1>1, <1>2, Bounds
<1>5. RunsMove
  BY <1>2, <1>3, <1>4 DEF RunsMove, RowFair
<1>6. ASSUME NEW i \in ActiveRuns' PROVE runs'[i].session # None
  BY <1>1, <1>2, <1>3 DEF ActiveRuns, Active, RowFair
<1>7. /\ \A i \in DOMAIN runs : Terminal(runs[i].status) => runs'[i] = runs[i]
      /\ \A i \in DOMAIN runs : runs'[i].kind = runs[i].kind /\ runs'[i].event = runs[i].event
  BY <1>3 DEF RowFair
<1> QED
  BY <1>1, <1>2, <1>5, <1>6, <1>7

LEMMA QuietTrials ==
    ASSUME Linked, trial \in [Gens -> Maybe(Trials)], TrialsQuiet
    PROVE  TrialsFair
BY DEF TrialsQuiet, TrialsFair, TrialStep, TrialNew, Linked

LEMMA QuietTold ==
    ASSUME TypeOK, Judged, TrialsQuiet, told' \subseteq told
    PROVE  ToldFair
<1>1. told \subseteq Gens
  BY DEF TypeOK
<1>2. ASSUME NEW g \in told', trial'[g] # None, Open(trial'[g]) PROVE FALSE
  <2>1. g \in Gens /\ g \in told
    BY <1>1, <1>2
  <2>2. CASE trial'[g] = trial[g]
    BY <2>1, <2>2, <1>2 DEF Judged
  <2>3. CASE TrialStep(g)
    BY <2>1, <2>3 DEF Judged, TrialStep
  <2> QED
    BY <2>1, <2>2, <2>3 DEF TrialsQuiet
<1> QED
  BY <1>1, <1>2 DEF ToldFair

-----------------------------------------------------------------------------
(* A fair step keeps the parts of the invariant that are not about calls.  *)

LEMMA WorldTyped ==
    ASSUME TypeOK, World, call' \in [Threads -> Calls]
    PROVE  TypeOK'
<1>1. Len(runs') <= MaxRuns /\ runs' \in Seq(Runs) /\ \A i \in ActiveRuns' : runs'[i].session # None
  BY FairMoves DEF World
<1>2. events' \in Seq(Events) /\ trial' \in [Gens -> Maybe(Trials)] /\ job' \in [Gens -> Maybe(Jobs)] /\ told' \subseteq Gens
  BY DEF World, EventsFair, TrialsFair, JobsFair, ToldFair
<1>3. faults \in Nat /\ born \in Nat
  BY Bounds DEF TypeOK
<1>4. /\ engine' \in 0..born' /\ stopping' \in 0..born' /\ born' \in 0..MaxGen
      /\ engine' # 0 => engine' # stopping'
  BY <1>3, Bounds DEF World, CameraFair
<1>5. faults' \in 0..MaxFaults /\ edits' \in 0..MaxFaults /\ switches' \in [Gens -> 0..MaxFaults]
  BY <1>3, Bounds DEF World, CountsFair
<1> QED
  BY <1>1, <1>2, <1>4, <1>5 DEF TypeOK

LEMMA UpTo == ASSUME NEW n \in Nat PROVE IsFiniteSet(1..n) /\ Cardinality(1..n) = n
<1>1. 1 \in Int /\ n \in Int
  OBVIOUS
<1>2. IsFiniteSet(1..n) /\ Cardinality(1..n) = IF 1 > n THEN 0 ELSE n - 1 + 1
  BY <1>1, FS_Interval, ZenonT(60)
<1>3. n = 0 \/ ~(1 > n)
  OBVIOUS
<1>4. n - 1 + 1 = n
  OBVIOUS
<1> QED
  BY <1>2, <1>3, <1>4

LEMMA WithFinite ==
    ASSUME runs \in Seq(Runs)
    PROVE  IsFiniteSet(With) /\ Cardinality(With) \in Nat /\ Cardinality(With) <= Len(runs)
<1>1. With \subseteq 1..Len(runs) /\ Len(runs) \in Nat
  BY DEF With
<1>2. IsFiniteSet(1..Len(runs)) /\ Cardinality(1..Len(runs)) = Len(runs)
  BY <1>1, UpTo
<1>3. IsFiniteSet(With) /\ Cardinality(With) <= Cardinality(1..Len(runs))
  BY <1>1, <1>2, FS_Subset
<1> QED
  BY <1>2, <1>3, FS_CardinalityType

LEMMA WorldCounted ==
    ASSUME TypeOK, Counted, World
    PROVE  Counted'
<1>1. With' = With
  BY FairMoves DEF World, With
<1>2. Cardinality(With) \in Nat /\ faults \in Nat /\ Len(events) \in Nat
  BY WithFinite, Bounds DEF TypeOK
<1>3. Len(events) <= faults + Cardinality(With)
  BY DEF Counted
<1>4. Len(events') \in Len(events)..(Len(events) + (faults' - faults)) /\ faults' \in faults..MaxFaults /\ edits' \in 0..faults'
      /\ \A g \in Gens : switches'[g] <= faults'
  BY DEF World, EventsFair, CountsFair
<1>5. edits' <= faults' /\ Len(events') <= faults' + Cardinality(With)
  BY <1>2, <1>3, <1>4, Bounds
<1> QED
  BY <1>1, <1>4, <1>5 DEF Counted

LEMMA WorldLatest ==
    ASSUME TypeOK, Latest, World
    PROVE  Latest'
<1>1. /\ DOMAIN runs' = DOMAIN runs /\ Len(runs') = Len(runs)
      /\ \A i \in DOMAIN runs : Terminal(runs[i].status) => runs'[i] = runs[i]
  BY FairMoves DEF World, RunsFair
<1> QED
  BY <1>1 DEF Latest

LEMMA WorldLinked ==
    ASSUME TypeOK, Linked, World
    PROVE  Linked'
<1>1. /\ DOMAIN runs' = DOMAIN runs
      /\ \A i \in DOMAIN runs : Terminal(runs[i].status) => runs'[i] = runs[i]
      /\ \A i \in DOMAIN runs : runs'[i].event = runs[i].event
  BY FairMoves DEF World
<1>2. \A g \in Gens : trial'[g] = trial[g] \/ TrialNew(g) \/ (trial'[g] = None /\ job'[g] = None)
  BY DEF World, TrialsFair
<1>3. \A g \in Gens : trial'[g] # None => trial'[g].run \in DOMAIN runs
  BY <1>2 DEF Linked, TrialNew
<1>4. ASSUME NEW g \in Gens, job'[g] # None
      PROVE  /\ trial'[g] # None /\ job'[g].run \in DOMAIN runs
             /\ job'[g].pc = "stored" => runs'[job'[g].run].status = "PASSED"
  <2>1. trial[g] # None /\ job'[g].run \in DOMAIN runs /\ (job'[g].pc = "stored" => runs[job'[g].run].status = "PASSED")
    BY <1>4 DEF World, JobsFair, Linked
  <2>2. trial'[g] # None
    BY <2>1, <1>2, <1>4, NoneIsNone DEF TrialNew
  <2> QED
    BY <2>1, <2>2, <1>1 DEF Terminal
<1>5. ASSUME NEW i \in DOMAIN runs, runs'[i].event # None
      PROVE  runs'[i].status = "PASSED" /\ runs'[i].event \in DOMAIN events'
  <2>1. runs[i].status = "PASSED" /\ runs[i].event \in DOMAIN events
    BY <1>1, <1>5 DEF Linked
  <2>2. DOMAIN events \subseteq DOMAIN events'
    <3>1. Len(events) \in Nat /\ Len(events') \in Nat /\ Len(events') >= Len(events)
          /\ DOMAIN events = 1..Len(events) /\ DOMAIN events' = 1..Len(events')
      BY Bounds DEF World, EventsFair, CountsFair, TypeOK
    <3> QED
      BY <3>1
  <2> QED
    BY <2>1, <2>2, <1>1 DEF Terminal
<1>6. \A e \in DOMAIN events' : events'[e].run # 0 => events'[e].run \in DOMAIN runs
  BY DEF World, EventsFair, Linked
<1> QED
  BY <1>1, <1>3, <1>4, <1>5, <1>6 DEF Linked

LEMMA WorldJudged ==
    ASSUME TypeOK, Linked, Judged, World
    PROVE  Judged'
<1>1. /\ \A i \in DOMAIN runs : Terminal(runs[i].status) => runs'[i] = runs[i]
      /\ \A i \in DOMAIN runs : runs'[i].kind = runs[i].kind
  BY FairMoves DEF World
<1>2. ASSUME NEW g \in Gens, trial'[g] # None
      PROVE  Proper(trial'[g], runs'[trial'[g].run].kind, runs'[trial'[g].run].status)
  <2>1. trial'[g].run \in DOMAIN runs /\ Proper(trial'[g], runs[trial'[g].run].kind, runs[trial'[g].run].status)
    BY <1>2 DEF World, TrialsFair, TrialNew, Linked, Judged
  <2> QED
    BY <2>1, <1>1 DEF Proper, Terminal
<1>3. \A g \in Gens : trial'[g] # None /\ Open(trial'[g]) => g \notin told'
  BY DEF World, ToldFair
<1> QED
  BY <1>2, <1>3 DEF Judged

LEMMA WorldBelongs ==
    ASSUME TypeOK, EventsBelong, Linked, World
    PROVE  EventsBelong'
<1>1. /\ DOMAIN runs' = DOMAIN runs
      /\ \A i \in DOMAIN runs : Terminal(runs[i].status) => runs'[i] = runs[i]
      /\ \A i \in DOMAIN runs : runs'[i] = runs[i] \/ RowFair(runs[i], runs'[i])
  BY FairMoves DEF World, RunsFair
<1>2. ASSUME NEW e \in DOMAIN events', events'[e].run # 0
      PROVE  LET run == runs'[events'[e].run]
             IN run.status = "PASSED" /\ run.event = e /\ run.session = events'[e].session
  <2>1. e \in DOMAIN events /\ events'[e].run = events[e].run /\ events'[e].session = events[e].session
    BY <1>2 DEF World, EventsFair
  <2>2. /\ runs[events[e].run].status = "PASSED" /\ runs[events[e].run].event = e
        /\ runs[events[e].run].session = events[e].session
    BY <2>1, <1>2 DEF EventsBelong
  <2>3. events[e].run \in DOMAIN runs
    BY <2>1, <1>2 DEF Linked
  <2> QED
    BY <2>1, <2>2, <2>3, <1>1 DEF Terminal
<1>3. \A i \in DOMAIN runs' : runs'[i].kind = "movement" /\ runs'[i].status = "PASSED" => runs'[i].event # None
  BY <1>1 DEF EventsBelong, RowFair
<1> QED
  BY <1>2, <1>3 DEF EventsBelong

-----------------------------------------------------------------------------
(* What is about calls: where they are, what they have seen.               *)

CallNew(t) ==
    /\ call'[t] \in Calls /\ Fits(call'[t], DOMAIN runs', born')
    /\ t \in Requests => call'[t].op \notin {"notify", "track"}
    /\ t \in Gens => call'[t].pc \in {"idle"} \cup Syncing
    /\ t \in Gens /\ call'[t].op = "notify" => trial'[t] # None /\ call'[t].view = trial'[t] /\ ~Open(trial'[t])
    /\ \/ call'[t].view \in {None, call[t].view}
       \/ \E g \in Gens : trial'[g] # None /\ call'[t].view = trial'[g]
    /\ Ready(call[t])'
CallsFair == call' \in [Threads -> Calls] /\ \A t \in Threads : call'[t] = call[t] \/ CallNew(t)
\* The outcome that is notified, and a completed trial that was seen, stay.
Settled ==
    /\ \A g \in Gens : call[g].op = "notify" /\ call'[g] = call[g] => trial'[g] = trial[g]
    /\ \A i \in DOMAIN runs : Witness(i) => \/ Witness(i)' \/ Terminal(runs'[i].status)
                                            \/ \A t \in Threads : call'[t].view = None
Grown == DOMAIN runs \subseteq DOMAIN runs' /\ born <= born' /\ born \in Nat /\ born' \in Nat

LEMMA FitsGrown ==
    ASSUME Grown, NEW c \in Calls, Fits(c, DOMAIN runs, born)
    PROVE  Fits(c, DOMAIN runs', born')
<1>1. c.session # None => c.session.gen \in Nat
  BY CallParts, Bounds DEF Maybe, Sessions
<1>2. c.pc \in Bound => c.session # None /\ c.session.gen <= born'
  BY <1>1 DEF Fits, Grown
<1>3. c.op \in OpsAt(c.pc)
  BY DEF Fits
<1>4. (c.pc # "idle" => c.op \in {"stop", "launch"} \/ c.run \in DOMAIN runs')
      /\ (c.view # None => c.view.run \in DOMAIN runs')
      /\ (c.pc \in Syncing => c.run \in DOMAIN runs' /\ c.view # None /\ c.view.run = c.run)
      /\ (c.pc = "mark" /\ c.op # "cancel" => c.victim \in DOMAIN runs')
      /\ (c.pc = "install" => c.session.gen = c.gen)
  BY DEF Fits, Grown
<1> QED
  BY <1>2, <1>3, <1>4 DEF Fits

LEMMA CallsShaped ==
    ASSUME TypeOK, Shaped, CallsFair, Grown
    PROVE  Shaped'
<1>1. \A t \in Threads : call[t] \in Calls /\ Fits(call[t], DOMAIN runs, born)
  BY DEF TypeOK, Shaped
<1>2. ASSUME NEW t \in Threads PROVE Fits(call'[t], DOMAIN runs', born')
  BY <1>1, FitsGrown DEF CallsFair, CallNew
<1>3. ASSUME NEW g \in Gens PROVE call'[g].pc \in {"idle"} \cup Syncing
  BY DEF CallsFair, CallNew, Shaped, Threads
<1>4. ASSUME NEW t \in Requests PROVE call'[t].op \notin {"notify", "track"}
  BY DEF CallsFair, CallNew, Shaped, Threads
<1> QED
  BY <1>2, <1>3, <1>4 DEF Shaped

LEMMA CallsNotified ==
    ASSUME Notified, CallsFair, Settled
    PROVE  Notified'
<1>1. ASSUME NEW g \in Gens, call'[g].op = "notify"
      PROVE  trial'[g] # None /\ call'[g].view = trial'[g] /\ ~Open(trial'[g])
  <2>1. CASE call'[g] = call[g]
    BY <1>1, <2>1 DEF Settled, Notified
  <2>2. CASE CallNew(g)
    BY <1>1, <2>2 DEF CallNew
  <2> QED
    BY <2>1, <2>2 DEF CallsFair, Threads
<1> QED
  BY <1>1 DEF Notified

LEMMA CallsViewed ==
    ASSUME Shaped, Viewed, CallsFair, Settled, RunsMove, Grown
    PROVE  Viewed'
<1>1. \A i \in DOMAIN runs : Terminal(runs[i].status) => Terminal(runs'[i].status)
  BY DEF RunsMove
<1>2. ASSUME NEW t \in Threads, call'[t].view # None, call'[t].view.state = "completed",
             NEW i, i = call'[t].view.run
      PROVE  Terminal(runs'[i].status) \/ Witness(i)'
  <2>1. CASE call'[t].view = call[t].view
    <3>1. Terminal(runs[i].status) \/ Witness(i)
      BY <1>2, <2>1 DEF Viewed, Seen
    <3>2. i \in DOMAIN runs
      BY <1>2, <2>1 DEF Shaped, Fits
    <3>3. Witness(i) => Witness(i)' \/ Terminal(runs'[i].status)
      BY <1>2, <3>2 DEF Settled
    <3> QED
      BY <3>1, <3>2, <3>3, <1>1
  <2>2. CASE \E g \in Gens : trial'[g] # None /\ call'[t].view = trial'[g]
    BY <1>2, <2>2 DEF Witness
  <2> QED
    BY <1>2, <2>1, <2>2 DEF CallsFair, CallNew
<1>3. ASSUME NEW t \in Threads PROVE Ready(call[t])'
  <2>1. CASE call'[t] = call[t]
    <3>1. ASSUME call'[t].pc = "pass"
          PROVE  /\ runs'[call'[t].run].kind # "movement"
                 /\ IF runs'[call'[t].run].kind = "disconnect_reconnect" THEN runs'[call'[t].run].back # None
                    ELSE call'[t].view.state = "completed"
      <4>1. call[t].pc = "pass" /\ call[t].run \in DOMAIN runs
        BY <2>1, <3>1 DEF Shaped, Fits, Syncing
      <4>2. /\ runs[call[t].run].kind # "movement"
            /\ IF runs[call[t].run].kind = "disconnect_reconnect" THEN runs[call[t].run].back # None
               ELSE call[t].view.state = "completed"
        BY <4>1 DEF Viewed, Ready
      <4>3. /\ runs'[call[t].run].kind = runs[call[t].run].kind
            /\ runs[call[t].run].back # None => runs'[call[t].run].back # None
        BY <4>1 DEF RunsMove
      <4> QED
        BY <2>1, <4>2, <4>3
    <3> QED
      BY <3>1 DEF Ready
  <2> QED
    BY <2>1 DEF CallsFair, CallNew
<1>4. ASSUME NEW t \in Threads PROVE Seen(call[t])'
  BY <1>2 DEF Seen, Witness
<1> QED
  BY <1>3, <1>4 DEF Viewed

LEMMA QuietSettled ==
    ASSUME Notified, TrialsQuiet
    PROVE  Settled
<1>1. ASSUME NEW g \in Gens, call[g].op = "notify" PROVE trial'[g] = trial[g]
  BY <1>1 DEF Notified, TrialsQuiet, TrialStep
<1>2. ASSUME NEW i \in DOMAIN runs, Witness(i) PROVE Witness(i)'
  <2>1. PICK g \in Gens : trial[g] # None /\ trial[g].run = i /\ trial[g].state = "completed"
    BY <1>2 DEF Witness
  <2>2. trial'[g] = trial[g]
    BY <2>1 DEF TrialsQuiet, TrialStep, Open
  <2> QED
    BY <2>1, <2>2 DEF Witness
<1> QED
  BY <1>1, <1>2 DEF Settled

-----------------------------------------------------------------------------
(* Who may still arm a trial, and who owns an active run.                  *)

EngineFair == engine' \in {0, engine} \/ engine' > born
Advances(u) ==
    /\ Older(call'[u]) => \/ Older(call[u]) /\ call'[u].run = call[u].run /\ call'[u].session = call[u].session
                          \/ call'[u].run = Len(runs')
    /\ call'[u].op \in Starters /\ call'[u].pc \in Waiting =>
          engine' = 0 \/ (call[u].op \in Starters /\ call[u].pc \in Waiting /\ call'[u].run = call[u].run)
    /\ call'[u].op \in Starters /\ call'[u].pc \in Bound =>
          /\ call[u].op \in Starters /\ call'[u].run = call[u].run
          /\ \/ call[u].pc \in Bound /\ call'[u].session = call[u].session
             \/ call[u].pc = "preflight" /\ call'[u].session.gen = engine
Advanced == \A u \in Requests : call'[u] = call[u] \/ Advances(u)
TrialsArmed ==
    \A g \in Gens : trial'[g] # None =>
        \/ trial[g] # None /\ trial'[g].run = trial[g].run
        \/ \E u \in Requests : call[u].pc = "install" /\ call[u].session.gen = g /\ trial'[g].run = call[u].run

LEMMA SessionGen ==
    ASSUME TypeOK, Shaped, NEW t \in Threads, call[t].pc \in Bound
    PROVE  call[t].session # None /\ call[t].session.gen \in Gens /\ call[t].session.gen \in 1..born
<1>1. call[t].session # None /\ call[t].session.gen <= born
  BY DEF Shaped, Fits
<1>2. call[t].session \in Sessions
  BY <1>1, CallParts DEF TypeOK, Maybe
<1>3. call[t].session.gen \in Gens
  BY <1>2 DEF Sessions
<1> QED
  BY <1>1, <1>3, Bounds DEF TypeOK, Gens

\* Nobody carries a run later than the last one.
LEMMA RunsBelow ==
    ASSUME runs \in Seq(Runs), Shaped, NEW t \in Threads, call[t].pc # "idle", call[t].op \in Starters
    PROVE  call[t].run \in 1..Len(runs)
BY DEF Shaped, Fits, Starters

LEMMA OlderIsStarter ==
    ASSUME Shaped, NEW t \in Threads, call[t].pc \in Bound
    PROVE  call[t].op \in Starters /\ call[t].pc # "idle"
BY DEF Shaped, Fits, OpsAt, Bound, Starters

LEMMA FreshKept ==
    ASSUME TypeOK, TypeOK', Shaped, Shaped', Linked', Fresh, EngineFair, Advanced, TrialsArmed
    PROVE  Fresh'
<1> SUFFICES ASSUME NEW t \in Requests, Older(call'[t])
             PROVE  /\ \A g \in Gens : trial'[g] # None /\ trial'[g].run > call'[t].run => g # call'[t].session.gen
                    /\ \A u \in Requests : Apart(call[t], call[u])'
  BY DEF Fresh, Older
<1>a. Requests \subseteq Threads /\ Older(call'[t]) /\ (\A x \in Requests : Older(call[x]) => call[x].pc \in Bound)
      /\ call'[t].pc \in Bound
  BY DEF Threads, Older, Bound
<1>1. CASE call'[t].run = Len(runs')
  <2>1. \A g \in Gens : trial'[g] # None => trial'[g].run <= Len(runs')
    <3>1. runs' \in Seq(Runs) /\ \A g \in Gens : trial'[g] # None => trial'[g].run \in DOMAIN runs'
      BY DEF Linked, TypeOK
    <3> QED
      BY <3>1
  <2>2. ASSUME NEW u \in Requests, call'[u].op \in Starters, call'[u].pc \in Waiting \cup Bound
        PROVE  call'[u].run <= Len(runs')
    <3>1. runs' \in Seq(Runs) /\ call'[u].pc # "idle" /\ call'[u].run \in DOMAIN runs'
      BY <2>2, <1>a DEF Shaped, Fits, TypeOK, Waiting, Bound, Starters
    <3> QED
      BY <3>1
  <2>3. Len(runs') \in Nat
    BY DEF TypeOK
  <2>4. \A g \in Gens : trial'[g] # None => trial'[g].run \in Nat
    BY Bounds, TrialParts, SMTT(30) DEF TypeOK, Maybe, Scenarios
  <2>5. \A u \in Requests : call'[u].run \in Nat
    BY <1>a, Bounds, CallParts DEF TypeOK, Scenarios
  <2>6. \A u \in Requests : Apart(call[t], call[u])'
    BY <1>1, <2>2, <2>3, <2>5 DEF Apart
  <2> QED
    BY <1>1, <2>1, <2>3, <2>4, <2>6
<1>2. CASE call'[t].run # Len(runs')
  <2>1. Older(call[t]) /\ call'[t].run = call[t].run /\ call'[t].session = call[t].session
    BY <1>a, <1>2 DEF Advanced, Advances, Older
  <2>2. /\ \A g \in Gens : trial[g] # None /\ trial[g].run > call[t].run => g # call[t].session.gen
        /\ \A u \in Requests : Apart(call[t], call[u])
    BY <2>1 DEF Fresh
  <2>3. call[t].session.gen \in Gens /\ call[t].session.gen \in 1..born /\ born \in Nat
    <3>1. t \in Threads /\ call[t].pc \in Bound
      BY <2>1, <1>a
    <3>2. born \in Nat
      BY Bounds DEF TypeOK
    <3> QED
      BY <3>1, <3>2, SessionGen
  <2>4. ASSUME NEW g \in Gens, trial'[g] # None, trial'[g].run > call[t].run PROVE g # call[t].session.gen
    <3>1. CASE trial[g] # None /\ trial'[g].run = trial[g].run
      BY <3>1, <2>2, <2>4
    <3>2. ASSUME NEW u \in Requests, call[u].pc = "install", call[u].session.gen = g, trial'[g].run = call[u].run
          PROVE  g # call[t].session.gen
      <4>1. call[u].op \in Starters /\ call[u].pc \in Bound
        BY <3>2, <1>a, OlderIsStarter DEF Older
      <4> QED
        BY <4>1, <3>2, <2>2, <2>4 DEF Apart
    <3> QED
      BY <3>1, <3>2, <2>4 DEF TrialsArmed
  <2>5. ASSUME NEW u \in Requests, call'[u].op \in Starters, call'[u].run > call[t].run
        PROVE  /\ call'[u].pc \in Waiting => engine' # call[t].session.gen
               /\ call'[u].pc \in Bound => call'[u].session.gen # call[t].session.gen
    <3>1. ASSUME call'[u].pc \in Waiting PROVE engine' # call[t].session.gen
      <4>1. engine' = 0 \/ (call[u].op \in Starters /\ call[u].pc \in Waiting /\ call'[u].run = call[u].run)
        BY <2>5, <3>1 DEF Advanced, Advances
      <4>2. engine' = 0 \/ engine # call[t].session.gen
        BY <4>1, <2>2, <2>5 DEF Apart
      <4> QED
        BY <4>2, <2>3 DEF EngineFair
    <3>2. ASSUME call'[u].pc \in Bound PROVE call'[u].session.gen # call[t].session.gen
      <4>1. call[u].op \in Starters /\ call'[u].run = call[u].run
        BY <2>5, <3>2 DEF Advanced, Advances
      <4>2. \/ call[u].pc \in Bound /\ call'[u].session = call[u].session
            \/ call[u].pc = "preflight" /\ call'[u].session.gen = engine
        BY <2>5, <3>2 DEF Advanced, Advances
      <4>3. CASE call[u].pc \in Bound /\ call'[u].session = call[u].session
        BY <4>1, <4>3, <2>2, <2>5 DEF Apart
      <4>4. CASE call[u].pc = "preflight" /\ call'[u].session.gen = engine
        BY <4>1, <4>4, <2>2, <2>5 DEF Apart, Waiting
      <4> QED
        BY <4>2, <4>3, <4>4
    <3> QED
      BY <3>1, <3>2
  <2>6. \A u \in Requests : Apart(call[t], call[u])'
    BY <2>1, <2>5 DEF Apart
  <2> QED
    BY <2>1, <2>4, <2>6
<1> QED
  BY <1>1, <1>2

\* An owner stays one, or its trial owns the run from now on.
OwnsKept(u) == \A i \in ActiveRuns' : Owns(call[u], i) => Owns(call[u], i)' \/ Told(i)'

LEMMA OwnedKept ==
    ASSUME Owned, engine' = engine \/ engine = 0, ActiveRuns' \subseteq ActiveRuns,
           \A i \in ActiveRuns' : Told(i) => Told(i)',
           \A u \in Requests : call'[u] = call[u] \/ OwnsKept(u)
    PROVE  Owned'
<1> SUFFICES ASSUME NEW i \in ActiveRuns' PROVE (\E t \in Requests : Owns(call[t], i)') \/ Told(i)'
  BY DEF Owned
<1>1. CASE Told(i)
  BY <1>1
<1>2. ASSUME NEW t \in Requests, Owns(call[t], i) PROVE Owns(call[t], i)' \/ Told(i)'
  <2>1. CASE call'[t] = call[t]
    BY <1>2, <2>1 DEF Owns
  <2>2. CASE OwnsKept(t)
    BY <1>2, <2>2 DEF OwnsKept
  <2> QED
    BY <2>1, <2>2
<1> QED
  BY <1>1, <1>2 DEF Owned

LEMMA ToldKept ==
    ASSUME TypeOK, Linked, engine' = engine \/ engine = 0, TrialsQuiet,
           NEW i, Told(i), engine \notin told'
    PROVE  Told(i)'
<1>1. engine # 0 /\ engine' = engine /\ engine \in Gens
  BY Bounds DEF Told, TypeOK, Gens
<1>2. trial'[engine] # None /\ trial'[engine].run = i
  BY <1>1, NoneIsNone DEF Told, TrialsQuiet, TrialStep
<1> QED
  BY <1>1, <1>2 DEF Told

-----------------------------------------------------------------------------
(* One step of a thread.                                                   *)

Moves(t) == Turn(t) /\ CallNew(t) /\ Advances(t) /\ (t \in Requests => OwnsKept(t))
OneMoves == call' = call \/ \E t \in Threads : Moves(t)
Still == UNCHANGED <<edits, faults, switches>>

LEMMA StillCounts == ASSUME TypeOK, Counted, Still PROVE CountsFair
<1>1. faults \in Nat /\ edits \in Nat /\ faults <= MaxFaults /\ switches \in [Gens -> 0..MaxFaults]
  BY Bounds DEF TypeOK
<1>2. edits <= faults /\ \A g \in Gens : switches[g] <= faults
  BY DEF Counted
<1> QED
  BY <1>1, <1>2, Bounds DEF Still, CountsFair

LEMMA SameCamera == ASSUME TypeOK, UNCHANGED <<engine, stopping, born>> PROVE CameraFair /\ EngineFair
BY Bounds DEF TypeOK, CameraFair, EngineFair

LEMMA SameEvents == ASSUME TypeOK, UNCHANGED <<events, faults>> PROVE EventsFair /\ FatesMove
<1>1. Len(events) \in Nat /\ faults \in Nat /\ events \in Seq(Events)
  BY Bounds DEF TypeOK
<1> QED
  BY <1>1 DEF EventsFair, FatesMove

LEMMA SameJobs == ASSUME TypeOK, job' = job PROVE JobsFair
BY DEF TypeOK, JobsFair

LEMMA MovesCalls ==
    ASSUME TypeOK, OneMoves
    PROVE  /\ CallsFair /\ Advanced
           /\ \A u \in Requests : call'[u] = call[u] \/ OwnsKept(u)
BY DEF TypeOK, OneMoves, Moves, Turn, CallsFair, Advanced, Threads

LEMMA WorldGrown == ASSUME TypeOK, RunsFair, CameraFair PROVE Grown
<1>1. DOMAIN runs' = DOMAIN runs
  BY FairMoves
<1>2. born \in Nat /\ born' \in Nat /\ born <= born'
  BY Bounds DEF TypeOK, CameraFair
<1> QED
  BY <1>1, <1>2 DEF Grown

\* A step that is fair to every part keeps the invariant.
LEMMA FairStep ==
    ASSUME IInv, World, EngineFair, CallsFair, Settled, Advanced, TrialsArmed, Owned'
    PROVE  IInv'
<1>1. TypeOK'
  BY WorldTyped DEF IInv, CallsFair
<1>2. Counted' /\ Latest' /\ Linked' /\ Judged' /\ EventsBelong'
  BY WorldCounted, WorldLatest, WorldLinked, WorldJudged, WorldBelongs DEF IInv
<1>3. Grown
  BY WorldGrown DEF IInv, World
<1>4. RunsMove
  BY FairMoves DEF IInv, World
<1>5. Shaped' /\ Notified' /\ Viewed'
  BY <1>3, <1>4, CallsShaped, CallsNotified, CallsViewed DEF IInv
<1>6. Fresh'
  BY <1>1, <1>2, <1>5, FreshKept DEF IInv
<1> QED
  BY <1>1, <1>2, <1>5, <1>6 DEF IInv

LEMMA QuietArmed == ASSUME TypeOK, TrialsQuiet PROVE TrialsArmed
BY NoneIsNone DEF TrialsQuiet, TrialStep, TrialsArmed

\* A step in which nothing passes, is activated or armed.
LEMMA QuietStep ==
    ASSUME IInv, RunsQuiet, TrialsQuiet, told' \subseteq told, EventsFair, FatesMove, JobsFair, CameraFair, CountsFair,
           EngineFair, CallsFair, Advanced, Owned'
    PROVE  IInv' /\ Outcome
<1>1. RunsFair /\ TrialsFair /\ ToldFair
  BY QuietFair, QuietTrials, QuietTold DEF IInv, TypeOK
<1>2. World
  BY <1>1 DEF World
<1>3. Settled /\ TrialsArmed
  BY QuietSettled, QuietArmed DEF IInv
<1>4. Outcome
  BY QuietMoves, QuietTrialsMove DEF IInv, Outcome, Earns, RunsQuiet, RowQuiet
<1> QED
  BY <1>2, <1>3, <1>4, FairStep

LEMMA CalmStep ==
    ASSUME IInv, RunsQuiet, TrialsQuiet, told' \subseteq told, EventsFair, FatesMove, JobsFair, CameraFair, CountsFair,
           EngineFair, engine' = engine \/ engine = 0, OneMoves
    PROVE  IInv' /\ Outcome
<1>1. CallsFair /\ Advanced /\ \A u \in Requests : call'[u] = call[u] \/ OwnsKept(u)
  BY MovesCalls DEF IInv
<1>2. ActiveRuns' \subseteq ActiveRuns
  BY QuietMoves DEF IInv
<1>3. ASSUME NEW i \in ActiveRuns', Told(i) PROVE Told(i)'
  <2>1. engine \notin told'
    BY <1>3 DEF Told
  <2> QED
    BY <1>3, <2>1, ToldKept DEF IInv
<1>4. Owned'
  BY <1>1, <1>2, <1>3, OwnedKept DEF IInv
<1> QED
  BY <1>1, <1>4, QuietStep

-----------------------------------------------------------------------------
(* How a thread goes on.                                                   *)

LEMMA Now ==
    ASSUME IInv, NEW t \in Threads
    PROVE  /\ call \in [Threads -> Calls] /\ call[t] \in Calls /\ Fits(call[t], DOMAIN runs, born)
           /\ t \in Gens => call[t].pc \in {"idle"} \cup Syncing
           /\ Seen(call[t]) /\ Ready(call[t])
           /\ runs \in Seq(Runs) /\ events \in Seq(Events) /\ trial \in [Gens -> Maybe(Trials)]
           /\ engine \in {0} \cup Gens /\ stopping \in {0} \cup Gens /\ born \in Nat /\ engine \in Nat
BY Bounds DEF IInv, TypeOK, Shaped, Viewed, Gens

LEMMA Plain == ASSUME IInv, NEW t \in Requests PROVE call[t].op \notin {"notify", "track"}
BY DEF IInv, Shaped

LEMMA Kinded ==
    \A t : /\ (t \in Requests => t \in Threads /\ t \notin Gens) /\ (t \in Gens => t \in Threads /\ t \notin Requests)
BY ThreadsAssumption DEF Threads

\* It returns.
LEMMA ReturnMoves ==
    ASSUME IInv, NEW t \in Threads, Return(t)
    PROVE  Turn(t) /\ call'[t] = Idle /\ CallNew(t) /\ Advances(t)
<1>1. Turn(t) /\ call'[t] = Idle
  BY Now, Returned
<1>2. Idle \in Calls /\ Idle.pc = "idle" /\ Idle.op = None /\ Idle.view = None
  BY IdleIsCall
<1>3. Fits(Idle, DOMAIN runs', born')
  BY <1>2 DEF Fits, OpsAt, Syncing, Bound, Verbs, Maybe
<1>4. None \notin {"notify", "track"}
  BY NoneIsNone
<1> QED
  BY <1>1, <1>2, <1>3, <1>4 DEF CallNew, Advances, Older, Waiting, Bound, Ready

\* It goes on with what it carries.
LEMMA GotoMoves ==
    ASSUME IInv, NEW t \in Requests, NEW pc \in {"mark", "detach", "join", "launch", "preflight", "raised"}, Goto(t, pc),
           call[t].pc # "idle", call[t].op \in OpsAt(pc), Grown, pc = "mark" => call[t].op = "cancel",
           engine' = 0 \/ call[t].pc \in Waiting \/ pc = "detach" \/ call[t].op \notin Starters
    PROVE  /\ Turn(t) /\ CallNew(t) /\ Advances(t)
           /\ call'[t].pc = pc /\ call'[t].op = call[t].op /\ call'[t].run = call[t].run
           /\ call'[t].gen = call[t].gen
<1>1. t \in Threads /\ t \notin Gens /\ pc \in Pcs
  BY Kinded DEF Pcs
<1>2. /\ Turn(t) /\ call'[t].pc = pc /\ call'[t].op = call[t].op /\ call'[t].run = call[t].run
      /\ call'[t].gen = call[t].gen /\ call'[t].view = call[t].view /\ call'[t].session = call[t].session
      /\ call'[t].victim = call[t].victim
  BY <1>1, Now, Gone
<1>3. Fits(call[t], DOMAIN runs', born')
  BY <1>1, Now, FitsGrown
<1>4. Fits(call'[t], DOMAIN runs', born')
  BY <1>2, <1>3 DEF Fits, Syncing, Bound
<1>5. call'[t] \in Calls
  BY <1>1, <1>2 DEF Turn
<1>6. CallNew(t)
  BY Plain, <1>1, <1>2, <1>4, <1>5 DEF CallNew, Ready
<1>7. Advances(t)
  BY <1>2 DEF Advances, Older, Bound, Waiting
<1> QED
  BY <1>2, <1>6, <1>7

-----------------------------------------------------------------------------
(* The requests.                                                           *)

\* Where a request is, it asks for this.
LEMMA AtOps ==
    ASSUME IInv, NEW t \in Requests, call[t].pc # "idle"
    PROVE  /\ call[t].op \in OpsAt(call[t].pc) /\ t \in Threads /\ t \notin Gens
           /\ call[t].op \notin {"stop", "launch"} => call[t].run \in DOMAIN runs
           /\ call[t].pc \in Syncing => call[t].run \in DOMAIN runs
BY Now, Kinded DEF Fits

LEMMA CallOffKeeps ==
    ASSUME IInv, NEW t \in Requests, CallOff(t)
    PROVE  IInv' /\ Outcome
<1>1. /\ call[t].pc = "callOff" /\ trial' = CalledOff(call[t].run, call[t].gen)
      /\ Goto(t, IF call[t].op = "cancel" THEN "mark" ELSE "detach")
      /\ UNCHANGED <<runs, events, edits, engine, stopping, born, switches, job, told, faults>>
  BY DEF CallOff, At, db, camera
<1>2. TypeOK /\ Counted /\ runs \in Seq(Runs) /\ trial \in [Gens -> Maybe(Trials)] /\ call[t] \in Calls
  BY Now, Kinded DEF IInv
<1>3. call[t].gen \in {0} \cup Gens
  BY <1>2, CallParts
<1>4. RunsQuiet /\ TrialsQuiet
  BY <1>1, <1>2, <1>3, RunsSame, CalledOffQuiet
<1>5. EventsFair /\ FatesMove /\ JobsFair /\ CameraFair /\ EngineFair /\ CountsFair
  BY <1>1, <1>2, SameEvents, SameJobs, SameCamera, StillCounts DEF Still
<1>6. Grown
  BY <1>2, <1>4, <1>5, QuietFair, WorldGrown
<1>7. call[t].op \in {"reconnect", "cancel"}
  BY <1>1, AtOps DEF OpsAt
<1> DEFINE pc == IF call[t].op = "cancel" THEN "mark" ELSE "detach"
<1>8. /\ pc \in {"mark", "detach", "join", "launch", "preflight"} /\ Goto(t, pc) /\ call[t].pc # "idle"
      /\ call[t].op \in OpsAt(pc) /\ (pc = "mark" => call[t].op = "cancel") /\ (pc = "detach" \/ call[t].op \notin Starters)
  BY <1>1, <1>7 DEF OpsAt, Starters
<1>8a. pc = IF call[t].op = "cancel" THEN "mark" ELSE "detach"
  OBVIOUS
<1> HIDE DEF pc
<1>9. /\ Turn(t) /\ CallNew(t) /\ Advances(t)
      /\ call'[t].pc = pc /\ call'[t].op = call[t].op /\ call'[t].run = call[t].run
  BY <1>6, <1>8, GotoMoves
<1>10. OwnsKept(t)
  BY <1>1, <1>7, <1>8a, <1>9 DEF OwnsKept, Owns
<1>11. OneMoves
  BY <1>9, <1>10, Kinded DEF OneMoves, Moves
<1> QED
  BY <1>1, <1>4, <1>5, <1>11, CalmStep

LEMMA SteadyGrown ==
    ASSUME IInv, RunsFair, UNCHANGED <<engine, stopping, born>>
    PROVE  Grown
BY SameCamera, WorldGrown DEF IInv

LEMMA SteadyStep ==
    ASSUME IInv, RunsQuiet, TrialsQuiet, told' \subseteq told, OneMoves,
           UNCHANGED <<events, edits, engine, stopping, born, switches, job, faults>>
    PROVE  IInv' /\ Outcome
<1>1. EventsFair /\ FatesMove /\ JobsFair /\ CameraFair /\ EngineFair /\ CountsFair
  BY SameEvents, SameJobs, SameCamera, StillCounts DEF Still, IInv
<1> QED
  BY <1>1, CalmStep

\* It goes on with the published engine.
LEMMA Took ==
    ASSUME IInv, NEW t \in Requests, NEW pc \in Pcs, call' = [call EXCEPT ![t] = [@ EXCEPT !.pc = pc, !.gen = engine]]
    PROVE  /\ Turn(t) /\ call'[t] \in Calls /\ call'[t].pc = pc /\ call'[t].op = call[t].op
           /\ call'[t].run = call[t].run /\ call'[t].gen = engine /\ call'[t].view = call[t].view
           /\ call'[t].session = call[t].session /\ call'[t].victim = call[t].victim
<1> DEFINE c == [call[t] EXCEPT !.pc = pc, !.gen = engine]
<1>1. call \in [Threads -> Calls] /\ t \in Threads /\ call[t] \in Calls /\ engine \in {0} \cup Gens
  BY Now, Kinded
<1>2. c \in Calls /\ c.pc = pc /\ c.op = call[t].op /\ c.run = call[t].run /\ c.gen = engine
      /\ c.view = call[t].view /\ c.session = call[t].session /\ c.victim = call[t].victim
  BY <1>1, ZenonT(60) DEF Calls, Pcs
<1>3. call' = [call EXCEPT ![t] = c]
  OBVIOUS
<1> HIDE DEF c
<1> QED
  BY <1>1, <1>2, <1>3, Turned

LEMMA TookMoves ==
    ASSUME IInv, NEW t \in Requests, NEW pc \in {"detach", "callOff", "mark", "look"},
           call' = [call EXCEPT ![t] = [@ EXCEPT !.pc = pc, !.gen = engine]],
           call[t].pc # "idle", call[t].op \in OpsAt(pc), Grown, pc = "mark" => call[t].op = "cancel",
           engine' = 0 \/ pc \in {"detach", "callOff"} \/ call[t].op \notin Starters
    PROVE  /\ Turn(t) /\ CallNew(t) /\ Advances(t)
           /\ call'[t].pc = pc /\ call'[t].op = call[t].op /\ call'[t].run = call[t].run
<1>1. t \in Threads /\ t \notin Gens /\ pc \in Pcs
  BY Kinded DEF Pcs
<1>2. /\ Turn(t) /\ call'[t] \in Calls /\ call'[t].pc = pc /\ call'[t].op = call[t].op
      /\ call'[t].run = call[t].run /\ call'[t].gen = engine /\ call'[t].view = call[t].view
      /\ call'[t].session = call[t].session /\ call'[t].victim = call[t].victim
  BY <1>1, Took
<1>3. Fits(call[t], DOMAIN runs', born')
  BY <1>1, Now, FitsGrown
<1>4. Fits(call'[t], DOMAIN runs', born')
  BY <1>2, <1>3 DEF Fits, Syncing, Bound
<1>5. CallNew(t)
  BY Plain, <1>1, <1>2, <1>4 DEF CallNew, Ready
<1>6. Advances(t)
  BY <1>2 DEF Advances, Older, Bound, Waiting
<1> QED
  BY <1>2, <1>5, <1>6

\* Its answer is the trial that it has just read or armed.
LEMMA ViewMoves ==
    ASSUME IInv, NEW t \in Requests, NEW g \in Gens, trial'[g] # None, trial'[g] \in Trials,
           call' = [call EXCEPT ![t] = [@ EXCEPT !.pc = "identify", !.view = trial'[g]]],
           call[t].run \in DOMAIN runs, trial'[g].run = call[t].run, call[t].op \in Verbs, Grown
    PROVE  /\ Turn(t) /\ CallNew(t) /\ Advances(t)
<1> DEFINE c == [call[t] EXCEPT !.pc = "identify", !.view = trial'[g]]
<1>1. call \in [Threads -> Calls] /\ t \in Threads /\ t \notin Gens /\ call[t] \in Calls /\ Fits(call[t], DOMAIN runs, born)
  BY Now, Kinded
<1>2. c \in Calls /\ c.pc = "identify" /\ c.op = call[t].op /\ c.run = call[t].run /\ c.view = trial'[g]
  BY <1>1 DEF Calls, Pcs, Maybe
<1>3. call' = [call EXCEPT ![t] = c]
  OBVIOUS
<1> HIDE DEF c
<1>4. Turn(t) /\ call'[t] = c
  BY <1>1, <1>2, <1>3, Turned
<1>5. Fits(call'[t], DOMAIN runs', born')
  BY <1>2, <1>4 DEF Fits, OpsAt, Syncing, Bound, Grown
<1>6. CallNew(t)
  BY Plain, <1>1, <1>2, <1>4, <1>5 DEF CallNew, Ready
<1>7. Advances(t)
  BY <1>2, <1>4 DEF Advances, Older, Bound, Waiting
<1> QED
  BY <1>4, <1>6, <1>7

\* The row of a reconnect that begins: it keeps the session it leaves.
LEMMA CutRow ==
    ASSUME NEW o \in Runs, o.session # None
    PROVE  LET n == [o EXCEPT !.cut = o.session]
           IN /\ n \in Runs /\ n.status = o.status /\ n.kind = o.kind /\ n.event = o.event /\ n.back = o.back
              /\ n.session = o.session
BY DEF Runs

LEMMA BeginReconnect ==
    ASSUME IInv, NEW t \in Requests, Begin(t), call[t].op = "reconnect"
    PROVE  /\ RunsQuiet
           /\ \/ Return(t)
              \/ call' = [call EXCEPT ![t] = [@ EXCEPT !.pc = "callOff", !.gen = engine]]
<1> DEFINE i == call[t].run
           n == [runs[i] EXCEPT !.cut = runs[i].session]
           m == [n EXCEPT !.status = "FAILED"]
<1>1. call[t].pc = "begin"
  BY DEF Begin, At
<1>2. i \in DOMAIN runs /\ runs \in Seq(Runs) /\ t \in Threads
  BY <1>1, AtOps, Now, Kinded
<1>3. IF ~Active(i) \/ runs[i].kind # "disconnect_reconnect" THEN Return(t) /\ UNCHANGED runs
      ELSE LET cut == [runs EXCEPT ![i] = [@ EXCEPT !.cut = runs[i].session]]
           IN IF engine = 0
              THEN Return(t) /\ runs' = [cut EXCEPT ![i] = [@ EXCEPT !.status = "FAILED"]]
              ELSE /\ call' = [call EXCEPT ![t] = [@ EXCEPT !.pc = "callOff", !.gen = engine]]
                   /\ runs' = cut
  BY DEF Begin
<1>4. CASE UNCHANGED runs /\ Return(t)
  BY <1>2, <1>4, RunsSame
<1>5. CASE Active(i) /\ ~(UNCHANGED runs /\ Return(t))
  <2>1. runs[i] \in Runs /\ runs[i].status = "ACTIVE" /\ runs[i].session # None
    BY <1>2, <1>5 DEF IInv, TypeOK, ActiveRuns, Active
  <2>2. /\ n \in Runs /\ n.status = "ACTIVE" /\ n.kind = runs[i].kind /\ n.event = runs[i].event
        /\ n.back = runs[i].back /\ n.session = runs[i].session
    BY <2>1, CutRow
  <2>3. /\ m \in Runs /\ m.status = "FAILED" /\ m.kind = runs[i].kind /\ m.event = runs[i].event
        /\ m.back = runs[i].back /\ m.session = runs[i].session
    <3> HIDE DEF n
    <3>1. "FAILED" \in Statuses
      BY DEF Statuses
    <3> QED
      BY <2>2, <3>1, StatusRow
  <2>4. CASE /\ call' = [call EXCEPT ![t] = [@ EXCEPT !.pc = "callOff", !.gen = engine]]
             /\ runs' = [runs EXCEPT ![i] = n]
    <3> HIDE DEF n, m
    <3>1. RowQuiet(runs[i], n)
      BY <2>1, <2>2 DEF RowQuiet, Terminal
    <3> QED
      BY <2>2, <2>4, <3>1, <1>2, RowSet
  <2>5. CASE Return(t) /\ runs' = [[runs EXCEPT ![i] = n] EXCEPT ![i] = [@ EXCEPT !.status = "FAILED"]]
    <3>1. [[runs EXCEPT ![i] = n] EXCEPT ![i] = [@ EXCEPT !.status = "FAILED"]] = [runs EXCEPT ![i] = m]
      BY <1>2
    <3> HIDE DEF n, m
    <3>2. RowQuiet(runs[i], m)
      BY <2>1, <2>3 DEF RowQuiet, Terminal
    <3> QED
      BY <2>3, <2>5, <3>1, <3>2, <1>2, RowSet
  <2> QED
    BY <1>3, <1>5, <2>4, <2>5
<1> QED
  BY <1>3, <1>4, <1>5

LEMMA BeginKeeps ==
    ASSUME IInv, NEW t \in Requests, Begin(t)
    PROVE  IInv' /\ Outcome
<1> DEFINE i == call[t].run
<1>1. /\ call[t].pc = "begin" /\ UNCHANGED <<trial, told>>
      /\ UNCHANGED <<events, edits, engine, stopping, born, switches, job, faults>>
  BY DEF Begin, At, camera
<1>2. /\ i \in DOMAIN runs /\ runs \in Seq(Runs) /\ t \in Threads /\ trial \in [Gens -> Maybe(Trials)]
      /\ call[t].op \in {"start", "reconnect", "cancel", "poll"} /\ engine \in {0} \cup Gens
  BY <1>1, AtOps, Now, Kinded DEF OpsAt
<1>3. TrialsQuiet
  BY <1>1, <1>2, TrialsSame
<1>4. OwnsKept(t)
  BY <1>1 DEF OwnsKept, Owns
<1>5. ASSUME RunsQuiet, Turn(t), CallNew(t), Advances(t) PROVE IInv' /\ Outcome
  <2>1. OneMoves
    BY <1>2, <1>4, <1>5 DEF OneMoves, Moves
  <2> QED
    BY <1>1, <1>3, <1>5, <2>1, SteadyStep
<1>6. ASSUME RunsQuiet, Return(t) PROVE IInv' /\ Outcome
  BY <1>2, <1>5, <1>6, ReturnMoves
<1>7. ASSUME RunsQuiet, NEW pc \in {"detach", "callOff", "mark"}, call[t].op \in OpsAt(pc),
             pc = "mark" => call[t].op = "cancel",
             call' = [call EXCEPT ![t] = [@ EXCEPT !.pc = pc, !.gen = engine]]
      PROVE  IInv' /\ Outcome
  <2>1. Grown
    BY <1>1, <1>7, QuietFair, SteadyGrown
  <2>2. pc \in {"detach", "callOff"} \/ call[t].op \notin Starters
    BY <1>7 DEF Starters
  <2>3. Turn(t) /\ CallNew(t) /\ Advances(t)
    BY <1>1, <1>7, <2>1, <2>2, TookMoves
  <2> QED
    BY <1>5, <1>7, <2>3
<1>8. CASE call[t].op = "start"
  <2>1. UNCHANGED runs /\ (Return(t) \/ call' = [call EXCEPT ![t] = [@ EXCEPT !.pc = "detach", !.gen = engine]])
    BY <1>8 DEF Begin
  <2>2. RunsQuiet /\ call[t].op \in OpsAt("detach")
    BY <2>1, <1>2, <1>8, RunsSame DEF OpsAt, Starters
  <2> QED
    BY <2>1, <2>2, <1>6, <1>7
<1>9. CASE call[t].op = "reconnect"
  <2>1. RunsQuiet /\ (Return(t) \/ call' = [call EXCEPT ![t] = [@ EXCEPT !.pc = "callOff", !.gen = engine]])
    BY <1>9, BeginReconnect
  <2>2. call[t].op \in OpsAt("callOff")
    BY <1>9 DEF OpsAt
  <2> QED
    BY <2>1, <2>2, <1>6, <1>7
<1>10. CASE call[t].op = "cancel"
  <2>1. /\ UNCHANGED runs
        /\ call' = [call EXCEPT ![t] = [@ EXCEPT !.pc = IF Active(i) THEN "callOff" ELSE "mark", !.gen = engine]]
    BY <1>10 DEF Begin
  <2>2. RunsQuiet /\ call[t].op \in OpsAt("callOff") /\ call[t].op \in OpsAt("mark")
    BY <2>1, <1>2, <1>10, RunsSame DEF OpsAt, Starters
  <2>3. CASE Active(i)
    BY <2>1, <2>2, <2>3, <1>7
  <2>4. CASE ~Active(i)
    BY <2>1, <2>2, <2>4, <1>7, <1>10
  <2> QED
    BY <2>3, <2>4
<1>11. CASE call[t].op = "poll"
  <2>1. /\ UNCHANGED runs
        /\ \/ Return(t)
           \/ /\ engine # 0 /\ trial[engine] # None /\ trial[engine].run = i
              /\ call' = [call EXCEPT ![t] = [@ EXCEPT !.pc = "identify", !.view = trial[engine]]]
    BY <1>11 DEF Begin
  <2>2. RunsQuiet
    BY <2>1, <1>2, RunsSame
  <2>3. ASSUME engine # 0, trial[engine] # None, trial[engine].run = i,
               call' = [call EXCEPT ![t] = [@ EXCEPT !.pc = "identify", !.view = trial[engine]]]
        PROVE  Turn(t) /\ CallNew(t) /\ Advances(t)
    <3>1. Grown
      BY <1>1, <2>2, QuietFair, SteadyGrown
    <3>2. engine \in Gens /\ trial' = trial /\ trial[engine] \in Trials /\ call[t].op \in Verbs
      BY <1>1, <1>2, <2>3, <1>11 DEF Maybe, Verbs, Ops
    <3> QED
      BY <2>3, <3>1, <3>2, <1>2, ViewMoves
  <2> QED
    BY <2>1, <2>2, <2>3, <1>5, <1>6
<1> QED
  BY <1>2, <1>8, <1>9, <1>10, <1>11

LEMMA DetachKeeps ==
    ASSUME IInv, NEW t \in Requests, Detach(t)
    PROVE  IInv' /\ Outcome
<1>1. /\ call[t].pc = "detach" /\ UNCHANGED <<runs, events, edits, born, switches, trial, job, told, faults>>
      /\ IF engine = 0
         THEN /\ IF call[t].op = "stop" THEN Return(t) ELSE Goto(t, "launch")
              /\ UNCHANGED <<engine, stopping>>
         ELSE /\ engine' = 0 /\ stopping' = engine
              /\ call' = [call EXCEPT ![t] = [@ EXCEPT !.pc = "look", !.gen = engine]]
  BY DEF Detach, At, db
<1>2. /\ runs \in Seq(Runs) /\ t \in Threads /\ trial \in [Gens -> Maybe(Trials)] /\ born \in Nat
      /\ call[t].op \in {"start", "reconnect", "stop"} /\ engine \in 0..born
  BY <1>1, AtOps, Now, Kinded DEF OpsAt, Starters, IInv, TypeOK
<1>3. RunsQuiet /\ TrialsQuiet
  BY <1>1, <1>2, RunsSame, TrialsSame
<1>4. EventsFair /\ FatesMove /\ JobsFair /\ CountsFair
  BY <1>1, SameEvents, SameJobs, StillCounts DEF Still, IInv
<1>5. CASE engine = 0
  <2>1. CameraFair /\ EngineFair
    BY <1>1, <1>5, SameCamera DEF IInv
  <2>2. Grown
    BY <1>3, <2>1, QuietFair, WorldGrown DEF IInv
  <2>3. CASE call[t].op = "stop"
    <3>1. Turn(t) /\ CallNew(t) /\ Advances(t)
      BY <1>1, <1>2, <1>5, <2>3, ReturnMoves
    <3>2. OwnsKept(t)
      BY <1>1, <2>3 DEF OwnsKept, Owns
    <3>3. OneMoves
      BY <1>2, <3>1, <3>2 DEF OneMoves, Moves
    <3> QED
      BY <1>1, <1>3, <1>4, <1>5, <2>1, <3>3, CalmStep
  <2>4. CASE Goto(t, "launch") /\ call[t].op # "stop"
    <3>1. call[t].op \in OpsAt("launch") /\ engine' = 0
      BY <1>1, <1>2, <1>5, <2>4 DEF OpsAt, Starters
    <3>2. Turn(t) /\ CallNew(t) /\ Advances(t) /\ call'[t].pc = "launch" /\ call'[t].op = call[t].op
          /\ call'[t].run = call[t].run
      BY <1>1, <2>2, <2>4, <3>1, GotoMoves
    <3>3. OwnsKept(t)
      BY <1>1, <3>2 DEF OwnsKept, Owns
    <3>4. OneMoves
      BY <1>2, <3>2, <3>3 DEF OneMoves, Moves
    <3> QED
      BY <1>1, <1>3, <1>4, <1>5, <2>1, <3>4, CalmStep
  <2> QED
    BY <1>1, <1>5, <2>3, <2>4
<1>6. CASE engine # 0
  <2>1. engine' = 0 /\ stopping' = engine /\ call' = [call EXCEPT ![t] = [@ EXCEPT !.pc = "look", !.gen = engine]]
    BY <1>1, <1>6
  <2>2. CameraFair /\ EngineFair
    BY <1>1, <1>2, <1>6, <2>1, Bounds DEF CameraFair, EngineFair, IInv, TypeOK
  <2>3. Grown
    BY <1>3, <2>2, QuietFair, WorldGrown DEF IInv
  <2>4. call[t].op \in OpsAt("look")
    BY <1>2 DEF OpsAt, Starters
  <2>5. Turn(t) /\ CallNew(t) /\ Advances(t) /\ call'[t].pc = "look"
    BY <1>1, <2>1, <2>3, <2>4, TookMoves
  <2>6. CallsFair /\ Advanced
    BY <1>2, <2>5 DEF Turn, CallsFair, Advanced, Threads
  <2>7. Owned'
    BY <2>5 DEF Owned, Owns
  <2> QED
    BY <1>1, <1>3, <1>4, <2>2, <2>6, <2>7, QuietStep
<1> QED
  BY <1>5, <1>6

LEMMA LookKeeps ==
    ASSUME IInv, NEW t \in Requests, Look(t)
    PROVE  IInv' /\ Outcome
<1> DEFINE found == ActiveRuns \ (IF call[t].op = "reconnect" THEN {call[t].run} ELSE {})
           i == CHOOSE j \in found : TRUE
<1>1. /\ call[t].pc = "look" /\ UNCHANGED <<runs, events, edits, engine, stopping, born, switches, job, told, faults>>
      /\ IF found = {} THEN Goto(t, "join") /\ UNCHANGED trial
         ELSE /\ trial' = CalledOff(i, call[t].gen)
              /\ call' = [call EXCEPT ![t] = [@ EXCEPT !.pc = "mark", !.victim = i]]
  BY DEF Look, At, db, camera
<1>2. /\ runs \in Seq(Runs) /\ t \in Threads /\ t \notin Gens /\ trial \in [Gens -> Maybe(Trials)] /\ call[t] \in Calls
      /\ call[t].op \in {"start", "reconnect", "stop"} /\ call \in [Threads -> Calls]
  BY <1>1, AtOps, Now, Kinded DEF OpsAt, Starters
<1>3. RunsQuiet
  BY <1>1, <1>2, RunsSame
<1>4. Grown
  BY <1>1, <1>3, QuietFair, SteadyGrown
<1>5. CASE found = {}
  <2>1. Goto(t, "join") /\ trial' = trial /\ call[t].op \in OpsAt("join")
    BY <1>1, <1>2, <1>5 DEF OpsAt, Starters
  <2>2. Turn(t) /\ CallNew(t) /\ Advances(t) /\ call'[t].pc = "join" /\ call'[t].op = call[t].op
        /\ call'[t].run = call[t].run
    BY <1>1, <1>4, <2>1, GotoMoves DEF Waiting
  <2>3. \A j \in ActiveRuns : call[t].op = "reconnect" /\ call[t].run = j
    BY <1>5
  <2>4. ActiveRuns' = ActiveRuns
    BY <1>1 DEF ActiveRuns, Active
  <2>5. OwnsKept(t)
    BY <2>2, <2>3, <2>4 DEF OwnsKept, Owns
  <2>6. OneMoves
    BY <1>2, <2>2, <2>5 DEF OneMoves, Moves
  <2>7. TrialsQuiet
    BY <1>2, <2>1, TrialsSame
  <2> QED
    BY <1>1, <1>3, <2>6, <2>7, SteadyStep
<1>6. CASE found # {}
  <2>1. i \in found /\ trial' = CalledOff(i, call[t].gen)
        /\ call' = [call EXCEPT ![t] = [@ EXCEPT !.pc = "mark", !.victim = i]]
    BY <1>1, <1>6
  <2>2. i \in DOMAIN runs /\ Active(i)
    BY <2>1 DEF ActiveRuns
  <2>3. i \in Scenarios
    <3>1. Len(runs) \in Nat /\ Len(runs) <= MaxRuns /\ MaxRuns \in Nat /\ DOMAIN runs = 1..Len(runs)
      BY <1>2, Bounds DEF IInv, TypeOK
    <3> HIDE DEF i
    <3> QED
      BY <3>1, <2>2 DEF Scenarios
  <2>4. \A j \in ActiveRuns : j = i \/ (call[t].op = "reconnect" /\ call[t].run = j)
    <3>1. \A j \in ActiveRuns : j = Len(runs)
      BY DEF IInv, Latest, ActiveRuns, Active, Terminal
    <3>2. i = Len(runs)
      BY <2>2, <3>1 DEF ActiveRuns
    <3> QED
      BY <3>1, <3>2
  <2> DEFINE c == [call[t] EXCEPT !.pc = "mark", !.victim = i]
  <2>a. call' = [call EXCEPT ![t] = c]
    BY <2>1
  <2>b. trial' = CalledOff(i, call[t].gen)
    BY <2>1
  <2> HIDE DEF i, found
  <2>5. c \in Calls /\ c.pc = "mark" /\ c.op = call[t].op /\ c.run = call[t].run /\ c.gen = call[t].gen
        /\ c.view = call[t].view /\ c.session = call[t].session /\ c.victim = i
    BY <1>2, <2>3 DEF Calls, Pcs
  <2> HIDE DEF c
  <2>6. Turn(t) /\ call'[t] = c
    BY <1>2, <2>5, <2>a, Turned
  <2>7. Fits(call[t], DOMAIN runs, born') /\ DOMAIN runs' = DOMAIN runs
    BY <1>1, <1>2, Now
  <2>8. Fits(c, DOMAIN runs', born')
    <3>1. call[t].op \in OpsAt("mark") /\ "mark" \notin Syncing /\ "mark" \notin Bound
      BY <1>2 DEF OpsAt, Starters, Syncing, Bound
    <3> QED
      BY <1>1, <2>2, <2>5, <2>7, <3>1 DEF Fits
  <2>9. CallNew(t)
    BY Plain, <1>2, <2>5, <2>6, <2>8 DEF CallNew, Ready
  <2>10. Advances(t)
    BY <1>1, <2>5, <2>6 DEF Advances, Older, Waiting, Bound
  <2>11. ActiveRuns' = ActiveRuns /\ c.op # "cancel"
    BY <1>1, <1>2, <2>5 DEF ActiveRuns, Active
  <2>12. OwnsKept(t)
    BY <2>4, <2>5, <2>6, <2>11 DEF OwnsKept, Owns
  <2>13. OneMoves
    BY <1>2, <2>6, <2>9, <2>10, <2>12 DEF OneMoves, Moves
  <2>14. TrialsQuiet
    <3>1. call[t].gen \in {0} \cup Gens
      BY <1>2, CallParts
    <3> QED
      BY <1>2, <2>b, <3>1, CalledOffQuiet
  <2> QED
    BY <1>1, <1>3, <2>13, <2>14, SteadyStep
<1> QED
  BY <1>5, <1>6

LEMMA MarkKeeps ==
    ASSUME IInv, NEW t \in Requests, Mark(t)
    PROVE  IInv' /\ Outcome
<1>1. /\ call[t].pc = "mark"
      /\ UNCHANGED <<events, edits, engine, stopping, born, switches, trial, job, told, faults>>
      /\ IF call[t].op = "cancel"
         THEN Return(t) /\ runs' = Ended(call[t].run, "CANCELLED")
         ELSE Goto(t, "join") /\ runs' = Ended(call[t].victim, "CAMERA_INTERRUPTED")
  BY DEF Mark, At, camera
<1>2. /\ runs \in Seq(Runs) /\ t \in Threads /\ trial \in [Gens -> Maybe(Trials)]
      /\ call[t].op \in {"start", "reconnect", "stop", "cancel"}
      /\ call[t].op # "cancel" => call[t].victim \in DOMAIN runs
  BY <1>1, AtOps, Now, Kinded DEF OpsAt, Starters, Fits
<1>3. TrialsQuiet
  BY <1>1, <1>2, TrialsSame
<1>4. CASE call[t].op = "cancel"
  <2>1. call[t].run \in DOMAIN runs
    BY <1>1, <1>4, AtOps
  <2>2. RunsQuiet /\ Terminal(runs'[call[t].run].status)
    BY <1>1, <1>2, <1>4, <2>1, EndsQuiet DEF Endings
  <2>3. Turn(t) /\ CallNew(t) /\ Advances(t)
    BY <1>1, <1>2, <1>4, ReturnMoves
  <2>4. OwnsKept(t)
    BY <1>1, <1>4, <2>2 DEF OwnsKept, Owns, ActiveRuns, Active, Terminal
  <2>5. OneMoves
    BY <1>2, <2>3, <2>4 DEF OneMoves, Moves
  <2> QED
    BY <1>1, <1>3, <2>2, <2>5, SteadyStep
<1>5. CASE call[t].op # "cancel"
  <2>1. RunsQuiet /\ Terminal(runs'[call[t].victim].status)
    BY <1>1, <1>2, <1>5, EndsQuiet DEF Endings
  <2>2. Grown
    BY <1>1, <2>1, QuietFair, SteadyGrown
  <2>3. call[t].op \in OpsAt("join") /\ call[t].pc \in Waiting
    BY <1>1, <1>2, <1>5 DEF OpsAt, Starters, Waiting
  <2>4. Turn(t) /\ CallNew(t) /\ Advances(t) /\ call'[t].pc = "join" /\ call'[t].op = call[t].op
        /\ call'[t].run = call[t].run
    BY <1>1, <1>5, <2>2, <2>3, GotoMoves
  <2>5. OwnsKept(t)
    BY <1>1, <1>5, <2>1, <2>4 DEF OwnsKept, Owns, ActiveRuns, Active, Terminal
  <2>6. OneMoves
    BY <1>2, <2>4, <2>5 DEF OneMoves, Moves
  <2> QED
    BY <1>1, <1>3, <2>1, <2>6, SteadyStep
<1> QED
  BY <1>4, <1>5

\* A generation has been joined.
LEMMA JoinedQuiet ==
    ASSUME IInv, NEW t \in Requests, Joined(t)
    PROVE  /\ RunsQuiet /\ TrialsQuiet /\ JobsFair /\ CameraFair /\ EngineFair /\ Grown
           /\ UNCHANGED <<runs, events, edits, engine, switches>> /\ told' \subseteq told
           /\ call[t].pc = "join" /\ t \in Threads /\ call[t].op \in {"start", "reconnect", "stop"}
<1> DEFINE g == call[t].gen
<1>1. /\ call[t].pc = "join" /\ UNCHANGED <<runs, events, edits, engine, born, switches, job>>
      /\ trial' = IF trial[g] = None THEN trial ELSE CalledOff(trial[g].run, g)
      /\ stopping' = IF stopping = g THEN 0 ELSE stopping
      /\ told' = told \ {g}
  BY DEF Joined, At, db
<1>2. /\ runs \in Seq(Runs) /\ t \in Threads /\ trial \in [Gens -> Maybe(Trials)] /\ call[t] \in Calls
      /\ call[t].op \in {"start", "reconnect", "stop"} /\ g \in {0} \cup Gens
  BY <1>1, AtOps, Now, Kinded, CallParts DEF OpsAt, Starters
<1>3. RunsQuiet /\ TrialsQuiet
  BY <1>1, <1>2, RunsSame, TrialsSame, CalledOffQuiet
<1>4. JobsFair
  BY <1>1, SameJobs DEF IInv
<1>5. CameraFair /\ EngineFair
  BY <1>1, Bounds DEF CameraFair, EngineFair, IInv, TypeOK
<1>6. Grown
  BY <1>3, <1>5, QuietFair, WorldGrown DEF IInv
<1> QED
  BY <1>1, <1>2, <1>3, <1>4, <1>5, <1>6

\* The request goes on with what the stop was for.
LEMMA JoinedMoves ==
    ASSUME IInv, NEW t \in Requests, Joined(t), NEW pc \in {"launch", "raised"}, Goto(t, pc),
           call[t].op \in IF pc = "raised" THEN {"reconnect"} ELSE Starters
    PROVE  Moves(t)
<1>1. t \in Threads /\ call[t].pc = "join" /\ Grown /\ engine' = engine
  BY JoinedQuiet
<1>2. call[t].op \in OpsAt(pc) /\ call[t].pc \in Waiting
  BY <1>1 DEF OpsAt, Starters, Waiting
<1>3. Turn(t) /\ CallNew(t) /\ Advances(t) /\ call'[t].pc = pc /\ call'[t].op = call[t].op
      /\ call'[t].run = call[t].run
  BY <1>1, <1>2, GotoMoves
<1>4. OwnsKept(t)
  BY <1>1, <1>3 DEF OwnsKept, Owns
<1> QED
  BY <1>3, <1>4 DEF Moves

LEMMA JoinedReturns ==
    ASSUME IInv, NEW t \in Requests, Joined(t), call[t].op # "reconnect", Return(t)
    PROVE  Moves(t)
<1>1. t \in Threads /\ call[t].pc = "join"
  BY JoinedQuiet
<1>2. OwnsKept(t)
  BY <1>1 DEF OwnsKept, Owns
<1> QED
  BY <1>1, <1>2, ReturnMoves DEF Moves

LEMMA JoinKeeps ==
    ASSUME IInv, NEW t \in Requests, Join(t)
    PROVE  IInv' /\ Outcome
<1>1. /\ Joined(t) /\ faults' = faults
      /\ IF call[t].op = "stop" THEN Return(t) ELSE Goto(t, "launch")
  BY DEF Join
<1>2. /\ RunsQuiet /\ TrialsQuiet /\ JobsFair /\ CameraFair /\ EngineFair
      /\ UNCHANGED <<runs, events, edits, engine, switches>> /\ told' \subseteq told
      /\ t \in Threads /\ call[t].op \in {"start", "reconnect", "stop"}
  BY <1>1, JoinedQuiet
<1>3. EventsFair /\ FatesMove /\ CountsFair
  BY <1>1, <1>2, SameEvents, StillCounts DEF Still, IInv
<1>4. Moves(t)
  BY <1>1, <1>2, JoinedMoves, JoinedReturns DEF Starters
<1>5. OneMoves
  BY <1>2, <1>4 DEF OneMoves
<1> QED
  BY <1>2, <1>3, <1>5, CalmStep

\* A start or a reconnect that fails ends its run.
LEMMA FailMoves ==
    ASSUME IInv, NEW t \in Requests, Fail(t), call[t].run \in DOMAIN runs, call[t].pc \notin {"look", "mark"}
    PROVE  RunsQuiet /\ Turn(t) /\ CallNew(t) /\ Advances(t) /\ OwnsKept(t)
<1>1. Return(t) /\ runs' = Ended(call[t].run, "FAILED") /\ t \in Threads /\ runs \in Seq(Runs)
  BY Now, Kinded DEF Fail
<1>2. RunsQuiet /\ Terminal(runs'[call[t].run].status)
  BY <1>1, EndsQuiet DEF Endings
<1>3. Turn(t) /\ CallNew(t) /\ Advances(t)
  BY <1>1, ReturnMoves
<1>4. OwnsKept(t)
  BY <1>2 DEF OwnsKept, Owns, ActiveRuns, Active, Terminal
<1> QED
  BY <1>2, <1>3, <1>4

LEMMA LaunchKeeps ==
    ASSUME IInv, NEW t \in Requests, NEW starts \in BOOLEAN, Launch(t, starts)
    PROVE  IInv' /\ Outcome
<1> DEFINE next == IF call[t].op = "launch" THEN Return(t) ELSE Goto(t, "preflight")
           refused == IF call[t].op = "reconnect" THEN Fail(t) ELSE Return(t) /\ UNCHANGED runs
<1>1. /\ call[t].pc = "launch" /\ UNCHANGED <<events, edits, stopping, switches, trial, job, told, faults>>
      /\ starts => born < MaxGen
      /\ \/ refused /\ UNCHANGED <<engine, born>>
         \/ next /\ UNCHANGED <<runs, engine, born>>
         \/ next /\ engine = 0 /\ stopping = 0 /\ starts /\ engine' = born + 1 /\ born' = born + 1 /\ UNCHANGED runs
  <2>1. /\ call[t].pc = "launch" /\ UNCHANGED <<events, edits, stopping, switches, trial, job, told, faults>>
        /\ starts => born < MaxGen
    BY DEF Launch, At
  <2>2. CASE stopping # 0 \/ (engine = 0 /\ ~starts)
    BY <2>1, <2>2 DEF Launch
  <2>3. CASE stopping = 0 /\ engine # 0
    BY <2>1, <2>3 DEF Launch
  <2>4. CASE stopping = 0 /\ engine = 0 /\ starts
    BY <2>1, <2>4 DEF Launch
  <2> QED
    BY <2>2, <2>3, <2>4
<1>2. /\ runs \in Seq(Runs) /\ t \in Threads /\ trial \in [Gens -> Maybe(Trials)] /\ born \in Nat
      /\ call[t].op \in {"start", "reconnect", "launch"} /\ (born < MaxGen => born + 1 \in 0..MaxGen)
  BY <1>1, AtOps, Now, Kinded, Bounds DEF OpsAt, Starters
<1>3. TrialsQuiet
  BY <1>1, <1>2, TrialsSame
<1>4. EventsFair /\ FatesMove /\ JobsFair /\ CountsFair
  BY <1>1, SameEvents, SameJobs, StillCounts DEF Still, IInv
<1>5. CameraFair /\ EngineFair /\ (engine' = engine \/ engine = 0)
  <2>1. CASE UNCHANGED <<engine, born>>
    BY <1>1, <2>1, SameCamera DEF IInv
  <2>2. CASE engine = 0 /\ stopping = 0 /\ starts /\ engine' = born + 1 /\ born' = born + 1
    BY <1>1, <1>2, <2>2, Bounds DEF CameraFair, EngineFair
  <2> QED
    BY <1>1, <2>1, <2>2
<1>6. ASSUME next, UNCHANGED runs PROVE RunsQuiet /\ Turn(t) /\ CallNew(t) /\ Advances(t) /\ OwnsKept(t)
  <2>1. RunsQuiet
    BY <1>2, <1>6, RunsSame
  <2>2. CASE call[t].op = "launch"
    <3>1. OwnsKept(t)
      BY <1>1, <2>2 DEF OwnsKept, Owns
    <3> QED
      BY <1>2, <1>6, <2>1, <2>2, <3>1, ReturnMoves
  <2>3. CASE call[t].op # "launch"
    <3>0. Goto(t, "preflight")
      BY <1>6, <2>3
    <3>a. call[t].pc = "launch"
      BY <1>1
    <3>b. call[t].op \in Starters
      BY <1>2, <2>3 DEF Starters
    <3>1. call[t].op \in OpsAt("preflight") /\ call[t].pc \in Waiting
      BY <3>a, <3>b DEF OpsAt, Waiting
    <3>2. Grown
      BY <2>1, <1>5, QuietFair, WorldGrown DEF IInv
    <3>3. Turn(t) /\ CallNew(t) /\ Advances(t) /\ call'[t].pc = "preflight" /\ call'[t].op = call[t].op
          /\ call'[t].run = call[t].run
      BY <1>1, <3>0, <3>1, <3>2, GotoMoves
    <3>4. OwnsKept(t)
      BY <1>1, <3>3 DEF OwnsKept, Owns
    <3> QED
      BY <2>1, <3>3, <3>4
  <2> QED
    BY <2>2, <2>3
<1>7. ASSUME refused PROVE RunsQuiet /\ Turn(t) /\ CallNew(t) /\ Advances(t) /\ OwnsKept(t)
  <2>1. CASE call[t].op = "reconnect"
    <3>1. call[t].run \in DOMAIN runs
      BY <1>1, <2>1, AtOps
    <3> QED
      BY <1>1, <1>7, <2>1, <3>1, FailMoves
  <2>2. CASE call[t].op # "reconnect"
    <3>1. OwnsKept(t)
      BY <1>1, <1>2, <2>2 DEF OwnsKept, Owns
    <3> QED
      BY <1>2, <1>7, <2>2, <3>1, ReturnMoves, RunsSame
  <2> QED
    BY <2>1, <2>2
<1>8. RunsQuiet /\ Turn(t) /\ CallNew(t) /\ Advances(t) /\ OwnsKept(t)
  BY <1>1, <1>6, <1>7
<1>9. OneMoves
  BY <1>2, <1>8 DEF OneMoves, Moves
<1> QED
  BY <1>1, <1>3, <1>4, <1>5, <1>8, <1>9, CalmStep

LEMMA PreflightKeeps ==
    ASSUME IInv, NEW t \in Requests, NEW ready \in BOOLEAN, Preflight(t, ready)
    PROVE  IInv' /\ Outcome
<1> DEFINE pc == IF call[t].op = "start" THEN "activate" ELSE "rebind"
<1>1. /\ call[t].pc = "preflight"
      /\ UNCHANGED <<events, edits, engine, stopping, born, switches, trial, job, told, faults>>
      /\ \/ /\ engine # 0 /\ call' = [call EXCEPT ![t] = [@ EXCEPT !.pc = pc, !.session = SessionOf(engine)]]
            /\ UNCHANGED runs
         \/ Fail(t)
  BY DEF Preflight, At, camera
<1>2. /\ runs \in Seq(Runs) /\ t \in Threads /\ t \notin Gens /\ trial \in [Gens -> Maybe(Trials)]
      /\ call \in [Threads -> Calls] /\ call[t] \in Calls
      /\ call[t].op \in {"start", "reconnect"} /\ call[t].run \in DOMAIN runs /\ engine \in {0} \cup Gens
  BY <1>1, AtOps, Now, Kinded DEF OpsAt, Starters
<1>3. TrialsQuiet
  BY <1>1, <1>2, TrialsSame
<1>4. CASE Fail(t)
  <2>1. RunsQuiet /\ Turn(t) /\ CallNew(t) /\ Advances(t) /\ OwnsKept(t)
    BY <1>1, <1>2, <1>4, FailMoves
  <2>2. OneMoves
    BY <1>2, <2>1 DEF OneMoves, Moves
  <2> QED
    BY <1>1, <1>3, <2>1, <2>2, SteadyStep
<1>5. CASE /\ engine # 0 /\ call' = [call EXCEPT ![t] = [@ EXCEPT !.pc = pc, !.session = SessionOf(engine)]]
           /\ UNCHANGED runs
  <2> DEFINE x == SessionOf(engine)
             c == [call[t] EXCEPT !.pc = pc, !.session = x]
  <2>1. x \in Sessions /\ x.gen = engine /\ x # None
    BY <1>2, <1>5, NoneIsNone DEF SessionOf, Sessions, IInv, TypeOK
  <2>2. pc \in {"activate", "rebind"} /\ call[t].op \in OpsAt(pc) /\ (call[t].op = "reconnect" => pc = "rebind")
    BY <1>2 DEF OpsAt
  <2> HIDE DEF pc, x
  <2>3. c \in Calls /\ c.pc = pc /\ c.op = call[t].op /\ c.run = call[t].run
        /\ c.view = call[t].view /\ c.session = x
    BY <1>2, <2>1, <2>2, ZenonT(60) DEF Calls, Maybe
  <2>4. call' = [call EXCEPT ![t] = c]
    BY <1>5 DEF x
  <2> HIDE DEF c
  <2>5. Turn(t) /\ call'[t] = c
    BY <1>2, <2>3, <2>4, Turned
  <2>6. RunsQuiet
    BY <1>2, <1>5, RunsSame
  <2>7. Fits(call[t], DOMAIN runs, born) /\ runs' = runs /\ born' = born /\ engine <= born
    BY <1>1, <1>2, <1>5, Now DEF IInv, TypeOK
  <2>8. Fits(c, DOMAIN runs', born')
    BY <1>1, <1>2, <2>1, <2>2, <2>3, <2>7 DEF Fits, Syncing, Bound
  <2>9. CallNew(t)
    BY Plain, <1>2, <2>2, <2>3, <2>5, <2>8 DEF CallNew, Ready
  <2>10. Advances(t)
    BY <1>1, <1>2, <2>1, <2>2, <2>3, <2>5 DEF Advances, Older, Waiting, Bound, Starters
  <2>11. OwnsKept(t)
    BY <1>1, <2>2, <2>3, <2>5 DEF OwnsKept, Owns
  <2>12. OneMoves
    BY <1>2, <2>5, <2>9, <2>10, <2>11 DEF OneMoves, Moves
  <2> QED
    BY <1>1, <1>3, <2>6, <2>12, SteadyStep
<1> QED
  BY <1>1, <1>4, <1>5

\* It goes on to look up the engine: its run is the last one.
LEMMA LookupMoves ==
    ASSUME IInv, NEW t \in Requests, Goto(t, "lookup"), Grown, call[t].pc \in {"activate", "rebind"},
           call[t].run = Len(runs')
    PROVE  /\ Turn(t) /\ CallNew(t) /\ Advances(t) /\ call'[t].pc = "lookup" /\ call'[t].op = call[t].op
           /\ call'[t].run = call[t].run
<1>1. t \in Threads /\ t \notin Gens /\ "lookup" \in Pcs /\ call[t].op \in Starters /\ call[t].pc \in Bound
  BY AtOps, Kinded DEF Pcs, OpsAt, Starters, Bound
<1>2. /\ Turn(t) /\ call'[t].pc = "lookup" /\ call'[t].op = call[t].op /\ call'[t].run = call[t].run
      /\ call'[t].gen = call[t].gen /\ call'[t].view = call[t].view /\ call'[t].session = call[t].session
      /\ call'[t].victim = call[t].victim
  BY <1>1, Now, Gone
<1>3. Fits(call[t], DOMAIN runs', born')
  BY <1>1, Now, FitsGrown
<1>4. Fits(call'[t], DOMAIN runs', born')
  BY <1>1, <1>2, <1>3 DEF Fits, OpsAt, Syncing, Bound
<1>5. call'[t] \in Calls
  BY <1>1, <1>2 DEF Turn
<1>6. CallNew(t)
  BY Plain, <1>1, <1>2, <1>4, <1>5 DEF CallNew, Ready
<1>7. Advances(t)
  BY <1>1, <1>2 DEF Advances, Older, Bound, Waiting
<1> QED
  BY <1>2, <1>6, <1>7

LEMMA ActiveRow ==
    ASSUME NEW o \in Runs, NEW x \in Sessions
    PROVE  LET n == [o EXCEPT !.status = "ACTIVE", !.session = x]
           IN /\ n \in Runs /\ n.status = "ACTIVE" /\ n.kind = o.kind /\ n.event = o.event /\ n.back = o.back
              /\ n.session = x
BY DEF Runs, Statuses, Maybe

LEMMA ActivateKeeps ==
    ASSUME IInv, NEW t \in Requests, Activate(t)
    PROVE  IInv' /\ Outcome
<1> DEFINE i == call[t].run
           n == [runs[i] EXCEPT !.status = "ACTIVE", !.session = call[t].session]
<1>1. /\ call[t].pc = "activate"
      /\ UNCHANGED <<events, edits, engine, stopping, born, switches, trial, job, told, faults>>
      /\ \/ /\ runs[i].status = "CREATED" /\ ActiveRuns = {}
            /\ runs' = [runs EXCEPT ![i] = n] /\ Goto(t, "lookup")
         \/ Return(t) /\ UNCHANGED runs
  BY DEF Activate, At, camera
<1>2. /\ runs \in Seq(Runs) /\ t \in Threads /\ t \notin Gens /\ trial \in [Gens -> Maybe(Trials)]
      /\ call \in [Threads -> Calls] /\ call[t] \in Calls
      /\ call[t].op = "start" /\ i \in DOMAIN runs
  BY <1>1, AtOps, Now, Kinded DEF OpsAt, Starters
<1>3. TrialsQuiet
  BY <1>1, <1>2, TrialsSame
<1>4. CASE Return(t) /\ UNCHANGED runs
  <2>1. RunsQuiet /\ Turn(t) /\ CallNew(t) /\ Advances(t)
    BY <1>2, <1>4, RunsSame, ReturnMoves
  <2>2. OwnsKept(t)
    BY <1>1 DEF OwnsKept, Owns
  <2>3. OneMoves
    BY <1>2, <2>1, <2>2 DEF OneMoves, Moves
  <2> QED
    BY <1>1, <1>3, <2>1, <2>3, SteadyStep
<1>5. CASE /\ runs[i].status = "CREATED" /\ ActiveRuns = {}
           /\ runs' = [runs EXCEPT ![i] = n] /\ Goto(t, "lookup")
  <2>1. call[t].session \in Sessions /\ call[t].session # None
    BY <1>1, <1>2, Now, CallParts DEF Fits, Bound, Maybe
  <2>2. runs[i] \in Runs
    BY <1>2
  <2>3. /\ n \in Runs /\ n.status = "ACTIVE" /\ n.kind = runs[i].kind /\ n.event = runs[i].event
        /\ n.back = runs[i].back /\ n.session = call[t].session
    BY <2>1, <2>2, ActiveRow
  <2>a. runs' = [runs EXCEPT ![i] = n]
    BY <1>5
  <2> HIDE DEF n
  <2>4. /\ runs' \in Seq(Runs) /\ Len(runs') = Len(runs) /\ runs'[i] = n /\ DOMAIN runs' = DOMAIN runs
        /\ \A j \in DOMAIN runs : j # i => runs'[j] = runs[j]
    BY <1>2, <2>3, <2>a, SeqSet
  <2>5. RowFair(runs[i], n)
    BY <1>5, <2>1, <2>3 DEF RowFair, Terminal
  <2>6. RunsFair
    BY <2>4, <2>5 DEF RunsFair
  <2>7. i = Len(runs')
    BY <1>2, <1>5, <2>4 DEF IInv, Latest, Terminal
  <2>8. EventsFair /\ FatesMove /\ JobsFair /\ CameraFair /\ EngineFair /\ CountsFair
    BY <1>1, SameEvents, SameJobs, SameCamera, StillCounts DEF Still, IInv
  <2>9. TrialsFair /\ ToldFair
    BY <1>1, <1>3, QuietTrials, QuietTold DEF IInv, TypeOK
  <2>10. World
    BY <2>6, <2>8, <2>9 DEF World
  <2>11. Grown
    BY <2>6, <2>8, WorldGrown DEF IInv
  <2>12. Turn(t) /\ CallNew(t) /\ Advances(t) /\ call'[t].pc = "lookup" /\ call'[t].run = i
    BY <1>1, <1>5, <2>7, <2>11, LookupMoves
  <2>13. CallsFair /\ Advanced
    BY <1>2, <2>12 DEF Turn, CallsFair, Advanced, Threads
  <2>14. Settled /\ TrialsArmed
    BY <1>3, QuietSettled, QuietArmed DEF IInv
  <2>15. Owned'
    <3>1. ASSUME NEW j \in ActiveRuns' PROVE j = i
      BY <1>5, <2>4, <3>1 DEF ActiveRuns, Active
    <3> QED
      BY <2>12, <3>1 DEF Owned, Owns
  <2>16. Outcome
    <3>1. RunsMove
      BY <2>6, FairMoves DEF IInv
    <3>2. \A j \in DOMAIN runs : Earns(j)
      BY <2>3, <2>4 DEF Earns
    <3> QED
      BY <1>3, <2>8, <3>1, <3>2, QuietTrialsMove DEF Outcome
  <2> QED
    BY <2>8, <2>10, <2>13, <2>14, <2>15, <2>16, FairStep
<1> QED
  BY <1>1, <1>4, <1>5

LEMMA BackRow ==
    ASSUME NEW o \in Runs, NEW x \in Sessions
    PROVE  LET n == [o EXCEPT !.session = x, !.executed = FALSE, !.back = x]
           IN /\ n \in Runs /\ n.status = o.status /\ n.kind = o.kind /\ n.event = o.event /\ n.back = x
              /\ n.session = x
BY DEF Runs, Statuses, Maybe

LEMMA RebindKeeps ==
    ASSUME IInv, NEW t \in Requests, Rebind(t)
    PROVE  IInv' /\ Outcome
<1> DEFINE i == call[t].run
           n == [runs[i] EXCEPT !.session = call[t].session, !.executed = FALSE, !.back = call[t].session]
<1>1. /\ call[t].pc = "rebind"
      /\ UNCHANGED <<events, edits, engine, stopping, born, switches, trial, job, told, faults>>
      /\ \/ Active(i) /\ runs' = [runs EXCEPT ![i] = n] /\ Goto(t, "lookup")
         \/ Fail(t)
  BY DEF Rebind, At, camera
<1>2. /\ runs \in Seq(Runs) /\ t \in Threads /\ t \notin Gens /\ trial \in [Gens -> Maybe(Trials)]
      /\ call \in [Threads -> Calls] /\ call[t] \in Calls
      /\ call[t].op = "reconnect" /\ i \in DOMAIN runs
  BY <1>1, AtOps, Now, Kinded DEF OpsAt
<1>3. TrialsQuiet
  BY <1>1, <1>2, TrialsSame
<1>4. CASE Fail(t)
  <2>1. RunsQuiet /\ Turn(t) /\ CallNew(t) /\ Advances(t) /\ OwnsKept(t)
    BY <1>1, <1>2, <1>4, FailMoves
  <2>2. OneMoves
    BY <1>2, <2>1 DEF OneMoves, Moves
  <2> QED
    BY <1>1, <1>3, <2>1, <2>2, SteadyStep
<1>5. CASE Active(i) /\ runs' = [runs EXCEPT ![i] = n] /\ Goto(t, "lookup")
  <2>1. call[t].session \in Sessions /\ call[t].session # None
    BY <1>1, <1>2, Now, CallParts DEF Fits, Bound, Maybe
  <2>2. runs[i] \in Runs /\ runs[i].status = "ACTIVE"
    BY <1>2, <1>5 DEF Active
  <2>3. /\ n \in Runs /\ n.status = "ACTIVE" /\ n.kind = runs[i].kind /\ n.event = runs[i].event
        /\ n.back = call[t].session /\ n.session = call[t].session
    BY <2>1, <2>2, BackRow
  <2>a. runs' = [runs EXCEPT ![i] = n]
    BY <1>5
  <2> HIDE DEF n
  <2>4. RowQuiet(runs[i], n)
    BY <2>1, <2>2, <2>3 DEF RowQuiet, Terminal
  <2>5. RunsQuiet
    BY <1>2, <2>3, <2>4, <2>a, RowSet
  <2>6. i = Len(runs')
    BY <1>2, <2>2, <2>5 DEF IInv, Latest, Terminal, RunsQuiet
  <2>7. Grown
    BY <1>1, <2>5, QuietFair, SteadyGrown
  <2>8. Turn(t) /\ CallNew(t) /\ Advances(t) /\ call'[t].pc = "lookup" /\ call'[t].run = i
    BY <1>1, <1>5, <2>6, <2>7, LookupMoves
  <2>9. OwnsKept(t)
    BY <1>1, <2>8 DEF OwnsKept, Owns
  <2>10. OneMoves
    BY <1>2, <2>8, <2>9 DEF OneMoves, Moves
  <2> QED
    BY <1>1, <1>3, <2>5, <2>10, SteadyStep
<1> QED
  BY <1>1, <1>4, <1>5

LEMMA LookupKeeps ==
    ASSUME IInv, NEW t \in Requests, Lookup(t)
    PROVE  IInv' /\ Outcome
<1>1. /\ call[t].pc = "lookup"
      /\ UNCHANGED <<events, edits, engine, stopping, born, switches, trial, job, told, faults>>
      /\ \/ Fail(t)
         \/ engine # 0 /\ call' = [call EXCEPT ![t] = [@ EXCEPT !.pc = "arm", !.gen = engine]] /\ UNCHANGED runs
  BY DEF Lookup, At, camera
<1>2. /\ runs \in Seq(Runs) /\ t \in Threads /\ t \notin Gens /\ trial \in [Gens -> Maybe(Trials)]
      /\ call[t].op \in Starters /\ call[t].run \in DOMAIN runs
  BY <1>1, AtOps, Now, Kinded DEF OpsAt, Starters
<1>3. TrialsQuiet
  BY <1>1, <1>2, TrialsSame
<1>4. CASE Fail(t)
  <2>1. RunsQuiet /\ Turn(t) /\ CallNew(t) /\ Advances(t) /\ OwnsKept(t)
    BY <1>1, <1>2, <1>4, FailMoves
  <2>2. OneMoves
    BY <1>2, <2>1 DEF OneMoves, Moves
  <2> QED
    BY <1>1, <1>3, <2>1, <2>2, SteadyStep
<1>5. CASE engine # 0 /\ call' = [call EXCEPT ![t] = [@ EXCEPT !.pc = "arm", !.gen = engine]] /\ UNCHANGED runs
  <2>1. RunsQuiet
    BY <1>2, <1>5, RunsSame
  <2>2. /\ Turn(t) /\ call'[t] \in Calls /\ call'[t].pc = "arm" /\ call'[t].op = call[t].op
        /\ call'[t].run = call[t].run /\ call'[t].gen = engine /\ call'[t].view = call[t].view
        /\ call'[t].session = call[t].session /\ call'[t].victim = call[t].victim
    BY <1>5, Took DEF Pcs
  <2>3. Grown
    BY <1>1, <2>1, QuietFair, SteadyGrown
  <2>4. Fits(call[t], DOMAIN runs', born')
    BY <1>2, <2>3, Now, FitsGrown
  <2>5. Fits(call'[t], DOMAIN runs', born')
    BY <1>1, <1>2, <2>2, <2>4 DEF Fits, OpsAt, Syncing, Bound
  <2>6. CallNew(t)
    BY Plain, <1>2, <2>2, <2>5 DEF CallNew, Ready
  <2>7. Advances(t)
    BY <1>1, <1>2, <2>2 DEF Advances, Older, Bound, Waiting
  <2>8. OwnsKept(t)
    BY <1>1, <1>5, <2>2 DEF OwnsKept, Owns
  <2>9. OneMoves
    BY <1>2, <2>2, <2>6, <2>7, <2>8 DEF OneMoves, Moves
  <2> QED
    BY <1>1, <1>3, <2>1, <2>9, SteadyStep
<1> QED
  BY <1>1, <1>4, <1>5

\* The engine refuses the trial of a request.
LEMMA DisarmKeeps ==
    ASSUME IInv, NEW t \in Requests, call[t].pc \in {"arm", "install"}, Disarm(t),
           UNCHANGED <<events, edits, engine, stopping, born, switches, job, told, faults>>
    PROVE  IInv' /\ Outcome
<1> DEFINE g == call[t].gen
           i == call[t].run
<1>1. Fail(t) /\ trial' = IF call[t].op = "start" THEN CalledOff(i, g) ELSE trial
  BY DEF Disarm
<1>2. /\ runs \in Seq(Runs) /\ t \in Threads /\ trial \in [Gens -> Maybe(Trials)]
      /\ i \in DOMAIN runs /\ call[t] \in Calls
  BY AtOps, Now, Kinded DEF OpsAt, Starters
<1>3. g \in {0} \cup Gens /\ i \in {0} \cup Scenarios
  BY <1>2, CallParts
<1>4. RunsQuiet /\ Turn(t) /\ CallNew(t) /\ Advances(t) /\ OwnsKept(t)
  BY <1>1, <1>2, FailMoves
<1>5. OneMoves
  BY <1>2, <1>4 DEF OneMoves, Moves
<1>6. TrialsQuiet
  BY <1>1, <1>2, <1>3, TrialsSame, CalledOffQuiet
<1> QED
  BY <1>4, <1>5, <1>6, SteadyStep

LEMMA CheckArmKeeps ==
    ASSUME IInv, NEW t \in Requests, CheckArm(t)
    PROVE  IInv' /\ Outcome
<1>1. /\ call[t].pc = "arm"
      /\ UNCHANGED <<events, edits, engine, stopping, born, switches, job, told, faults>>
      /\ \/ Disarm(t)
         \/ /\ Alive(call[t].gen) /\ call[t].session = SessionOf(call[t].gen)
            /\ Goto(t, "install") /\ UNCHANGED <<runs, trial>>
  BY DEF CheckArm, At, camera
<1>2. /\ runs \in Seq(Runs) /\ t \in Threads /\ t \notin Gens /\ trial \in [Gens -> Maybe(Trials)]
      /\ call[t].op \in Starters /\ call[t].run \in DOMAIN runs
  BY <1>1, AtOps, Now, Kinded DEF OpsAt, Starters
<1>3. CASE Disarm(t)
  BY <1>1, <1>3, DisarmKeeps
<1>4. CASE /\ Alive(call[t].gen) /\ call[t].session = SessionOf(call[t].gen)
           /\ Goto(t, "install") /\ UNCHANGED <<runs, trial>>
  <2>1. RunsQuiet /\ TrialsQuiet
    BY <1>2, <1>4, RunsSame, TrialsSame
  <2>2. /\ Turn(t) /\ call'[t].pc = "install" /\ call'[t].op = call[t].op
        /\ call'[t].run = call[t].run /\ call'[t].gen = call[t].gen /\ call'[t].view = call[t].view
        /\ call'[t].session = call[t].session /\ call'[t].victim = call[t].victim
    BY <1>2, <1>4, Now, Gone DEF Pcs
  <2>3. Grown
    BY <1>1, <2>1, QuietFair, SteadyGrown
  <2>4. Fits(call[t], DOMAIN runs', born')
    BY <1>2, <2>3, Now, FitsGrown
  <2>5. call'[t].session.gen = call'[t].gen
    BY <1>4, <2>2 DEF SessionOf
  <2>6. Fits(call'[t], DOMAIN runs', born')
    BY <1>1, <1>2, <2>2, <2>4, <2>5 DEF Fits, OpsAt, Syncing, Bound
  <2>7. CallNew(t)
    BY Plain, <1>2, <2>2, <2>6 DEF CallNew, Ready, Turn
  <2>8. Advances(t)
    BY <1>1, <1>2, <2>2 DEF Advances, Older, Bound, Waiting
  <2>9. OwnsKept(t)
    BY <1>1, <2>2 DEF OwnsKept, Owns
  <2>10. OneMoves
    BY <1>2, <2>2, <2>7, <2>8, <2>9 DEF OneMoves, Moves
  <2> QED
    BY <1>1, <2>1, <2>10, SteadyStep
<1> QED
  BY <1>1, <1>3, <1>4

\* The engine arms the trial of a request: no active run of another number has
\* its trial there.
LEMMA ArmsOwn ==
    ASSUME IInv, NEW t \in Requests, call[t].pc = "install", call[t].session.gen = engine, engine # 0,
           NEW i \in ActiveRuns, Told(i)
    PROVE  call[t].run = i
<1>1. engine \in Gens /\ trial[engine] # None /\ trial[engine].run = i
  BY Now, Kinded DEF Told
<1>2. ~(i > call[t].run)
  BY <1>1 DEF IInv, Fresh, Older
<1>3. i = Len(runs) /\ call[t].run \in DOMAIN runs /\ runs \in Seq(Runs)
  <2>1. i = Len(runs)
    BY DEF IInv, Latest, ActiveRuns, Active, Terminal
  <2>2. call[t].run \in DOMAIN runs
    BY AtOps DEF OpsAt, Starters
  <2> QED
    BY <2>1, <2>2, Now, Kinded
<1>4. call[t].run \in 1..Len(runs) /\ Len(runs) \in Nat
  BY <1>3
<1> QED
  BY <1>2, <1>3, <1>4

LEMMA ArmKeeps ==
    ASSUME IInv, NEW t \in Requests, Arm(t)
    PROVE  IInv' /\ Outcome
<1> DEFINE g == call[t].gen
           i == call[t].run
           new == [run |-> call[t].run, session |-> call[t].session, seen |-> FALSE, stable |-> FALSE,
                   state |-> "armed"]
<1>1. /\ call[t].pc = "install"
      /\ UNCHANGED <<events, edits, engine, stopping, born, switches, job, faults>>
      /\ \/ /\ ~Locked(g)
            /\ trial[g] # None => ~Open(trial[g]) /\ trial[g].run # i
            /\ trial' = [trial EXCEPT ![g] = new] /\ told' = told \ {g}
            /\ call' = [call EXCEPT ![t] = [@ EXCEPT !.pc = "identify", !.view = new]]
            /\ runs' = runs
         \/ Disarm(t) /\ told' = told
  BY DEF Arm, At, camera
<1>2. /\ runs \in Seq(Runs) /\ t \in Threads /\ t \notin Gens /\ trial \in [Gens -> Maybe(Trials)]
      /\ call \in [Threads -> Calls] /\ call[t] \in Calls
      /\ call[t].op \in Starters /\ i \in DOMAIN runs /\ engine \in {0} \cup Gens /\ stopping \in {0} \cup Gens
  BY <1>1, AtOps, Now, Kinded DEF OpsAt, Starters
<1>4. CASE Disarm(t) /\ told' = told
  BY <1>1, <1>4, DisarmKeeps
<1>5. CASE /\ ~Locked(g)
           /\ trial[g] # None => ~Open(trial[g]) /\ trial[g].run # i
           /\ trial' = [trial EXCEPT ![g] = new] /\ told' = told \ {g}
           /\ call' = [call EXCEPT ![t] = [@ EXCEPT !.pc = "identify", !.view = new]]
           /\ runs' = runs
  <2>1. g \in Gens /\ call[t].session \in Sessions /\ call[t].session.gen = g
    <3>2. call[t].session # None /\ call[t].session \in Maybe(Sessions) /\ call[t].session.gen = g
      BY <1>1, <1>2, Now, CallParts DEF Fits, Bound
    <3>3. call[t].session \in Sessions
      BY <3>2 DEF Maybe
    <3> QED
      BY <3>2, <3>3 DEF Sessions
  <2>2. i \in Scenarios
    <3>1. Len(runs) \in Nat /\ Len(runs) <= MaxRuns /\ MaxRuns \in Nat /\ DOMAIN runs = 1..Len(runs)
      BY <1>2, Bounds DEF IInv, TypeOK
    <3> HIDE DEF i
    <3> QED
      BY <3>1, <1>2 DEF Scenarios
  <2>3. new \in Trials /\ new.run = i /\ new.state = "armed" /\ new.seen = FALSE /\ new.stable = FALSE
    BY <2>1, <2>2 DEF Trials
  <2>4. new # None
    BY <2>3, NoneIsNone
  <2>a. /\ trial' = [trial EXCEPT ![g] = new] /\ call' = [call EXCEPT ![t] = [@ EXCEPT !.pc = "identify", !.view = new]]
    BY <1>5
  <2> HIDE DEF new
  <2>5. /\ trial' \in [Gens -> Maybe(Trials)] /\ trial'[g] = new
        /\ \A h \in Gens : h # g => trial'[h] = trial[h]
    BY <1>2, <2>1, <2>3, <2>a DEF Maybe
  <2>6. RunsQuiet
    BY <1>2, <1>5, RunsSame
  <2>7. EventsFair /\ FatesMove /\ JobsFair /\ CameraFair /\ EngineFair /\ CountsFair
    BY <1>1, SameEvents, SameJobs, SameCamera, StillCounts DEF Still, IInv
  <2>8. TrialsFair
    <3>1. TrialNew(g)
      BY <1>2, <2>3, <2>5 DEF TrialNew, Proper
    <3> QED
      BY <2>5, <3>1 DEF TrialsFair
  <2>9. ToldFair
    <3>1. told \subseteq Gens /\ \A h \in Gens : trial[h] # None /\ Open(trial[h]) => h \notin told
      BY DEF IInv, TypeOK, Judged
    <3> QED
      BY <1>5, <2>5, <3>1 DEF ToldFair
  <2>10. World
    BY <2>6, <2>7, <2>8, <2>9, QuietFair DEF World
  <2>11. Grown
    BY <2>6, <2>7, QuietFair, WorldGrown DEF IInv
  <2>12. Turn(t) /\ CallNew(t) /\ Advances(t)
    <3>1. call[t].op \in Verbs
      BY <1>2, CallParts
    <3>2. trial'[g] \in Trials /\ trial'[g] # None /\ trial'[g].run = i
      BY <2>3, <2>4, <2>5
    <3>3. call' = [call EXCEPT ![t] = [@ EXCEPT !.pc = "identify", !.view = trial'[g]]]
      BY <2>5, <2>a
    <3> QED
      BY <1>2, <2>1, <2>11, <3>1, <3>2, <3>3, ViewMoves
  <2>13. CallsFair /\ Advanced
    BY <1>2, <2>12 DEF Turn, CallsFair, Advanced, Threads
  <2>14. TrialsArmed
    BY <1>1, <2>1, <2>3, <2>5 DEF TrialsArmed
  <2>15. Settled
    <3>1. ASSUME NEW h \in Gens, call[h].op = "notify" PROVE trial'[h] = trial[h]
      <4>1. h # g
        BY <1>5, <2>1, <3>1, Bounds DEF Locked
      <4> QED
        BY <2>5, <4>1
    <3>2. ASSUME NEW j \in DOMAIN runs, Witness(j), ~Terminal(runs'[j].status) PROVE Witness(j)'
      <4>1. PICK h \in Gens : trial[h] # None /\ trial[h].run = j /\ trial[h].state = "completed"
        BY <3>2 DEF Witness
      <4>2. h # g
        <5>1. j = Len(runs)
          BY <1>5, <3>2 DEF IInv, Latest
        <5>2. ~(j > i) \/ h # g
          BY <1>1, <2>1, <4>1 DEF IInv, Fresh, Older
        <5>3. i \in 1..Len(runs) /\ Len(runs) \in Nat
          BY <1>2
        <5>4. h = g => j # i
          BY <1>5, <4>1
        <5> QED
          BY <5>1, <5>2, <5>3, <5>4
      <4> QED
        BY <2>5, <4>1, <4>2 DEF Witness
    <3> QED
      BY <3>1, <3>2 DEF Settled
  <2>16. Owned'
    <3>1. ActiveRuns' = ActiveRuns /\ engine' = engine
      BY <1>1, <1>5 DEF ActiveRuns, Active
    <3> SUFFICES ASSUME NEW j \in ActiveRuns PROVE (\E u \in Requests : Owns(call[u], j)') \/ Told(j)'
      BY <3>1 DEF Owned
    <3>2. CASE engine = g /\ i = j
      <4>1. engine' # 0 /\ engine' \notin told' /\ trial'[engine'] = new
        BY <1>1, <1>5, <2>1, <2>5, <3>2, Bounds
      <4> QED
        BY <2>3, <2>4, <3>2, <4>1 DEF Told
    <3>3. ASSUME NEW u \in Requests, Owns(call[u], j), u # t PROVE Owns(call[u], j)'
      <4>1. call'[u] = call[u]
        BY <2>12, <3>3, Kinded DEF Turn
      <4> QED
        BY <3>1, <3>3, <4>1 DEF Owns
    <3>4. CASE Owns(call[t], j)
      <4>1. engine = g /\ i = j
        BY <1>1, <3>4 DEF Owns
      <4> QED
        BY <3>2, <4>1
    <3>5. CASE Told(j) /\ ~(engine = g /\ i = j)
      <4>1. engine # g
        BY <1>1, <2>1, <3>5, ArmsOwn, Bounds
      <4>2. engine \in Gens /\ trial'[engine] = trial[engine] /\ engine \notin told'
        BY <1>2, <1>5, <2>5, <3>5, <4>1 DEF Told
      <4> QED
        BY <3>1, <3>5, <4>2 DEF Told
    <3> QED
      BY <3>2, <3>3, <3>4, <3>5 DEF IInv, Owned
  <2>17. Outcome
    <3>1. TrialsMove
      BY <1>5, <2>3, <2>5 DEF TrialsMove
    <3> QED
      BY <2>6, <2>7, <3>1, QuietMoves DEF IInv, Outcome, Earns, RunsQuiet, RowQuiet
  <2> QED
    BY <2>7, <2>10, <2>13, <2>14, <2>15, <2>16, <2>17, FairStep
<1> QED
  BY <1>1, <1>4, <1>5

LEMMA CallKeeps ==
    ASSUME IInv, NEW t \in Requests, NEW op \in OpsOf[t], NEW i \in 0..MaxRuns, Call(t, op, i)
    PROVE  IInv' /\ Outcome
<1> DEFINE c == [Idle EXCEPT !.pc = FirstStep(op), !.op = op, !.run = i]
<1>1. /\ call[t].pc = "idle" /\ (IF op \in {"stop", "launch"} THEN i = 0 ELSE i \in DOMAIN runs)
      /\ call' = [call EXCEPT ![t] = c]
      /\ UNCHANGED <<runs, events, edits, engine, stopping, born, switches, trial, job, told, faults>>
  BY DEF Call, At, db, camera
<1>2. /\ runs \in Seq(Runs) /\ t \in Threads /\ t \notin Gens /\ trial \in [Gens -> Maybe(Trials)]
      /\ call \in [Threads -> Calls] /\ op \in Ops
  BY Now, Kinded, OpsAssumption
<1>3. i \in {0} \cup Scenarios
  BY Bounds DEF Scenarios
<1>4. c \in Calls /\ c.pc = FirstStep(op) /\ c.op = op /\ c.run = i /\ c.view = None /\ c.session = None
  BY <1>2, <1>3 DEF Idle, Calls, Maybe, FirstStep, Verbs
<1> HIDE DEF c
<1>5. Turn(t) /\ call'[t] = c
  BY <1>1, <1>2, <1>4, Turned
<1>6. c.pc \in {"begin", "detach", "launch"} /\ c.op \in OpsAt(c.pc) /\ (c.pc = "launch" => c.op = "launch")
  BY <1>2, <1>4 DEF FirstStep, Ops, OpsAt, Starters
<1>7. Fits(c, DOMAIN runs', born')
  BY <1>1, <1>4, <1>6 DEF Fits, Syncing, Bound
<1>8. CallNew(t)
  BY <1>2, <1>4, <1>5, <1>6, <1>7 DEF CallNew, Ready, Ops
<1>9. Advances(t)
  BY <1>4, <1>5, <1>6 DEF Advances, Older, Waiting, Bound, Starters
<1>10. OwnsKept(t)
  BY <1>1 DEF OwnsKept, Owns
<1>11. OneMoves
  BY <1>2, <1>5, <1>8, <1>9, <1>10 DEF OneMoves, Moves
<1>12. RunsQuiet /\ TrialsQuiet
  BY <1>1, <1>2, RunsSame, TrialsSame
<1> QED
  BY <1>1, <1>11, <1>12, SteadyStep

-----------------------------------------------------------------------------
(* sync_engine_status: the threads that carry a view of a trial.           *)

LEMMA FinishMoves ==
    ASSUME IInv, NEW t \in Threads, NEW passed \in BOOLEAN, Finish(t, passed), call[t].pc \in Syncing
    PROVE  /\ Turn(t) /\ CallNew(t) /\ Advances(t) /\ OwnsKept(t) /\ TrialsQuiet /\ ToldFair
           /\ told' \subseteq told \/ (call[t].op = "notify" /\ engine = t /\ told' = told \cup {t})
<1>1. /\ Return(t) /\ told' = IF call[t].op = "notify" /\ engine = t THEN told \cup {t} ELSE told
      /\ trial' = IF call[t].op = "track" /\ passed THEN CalledOff(call[t].run, t) ELSE trial
  BY DEF Finish
<1>2. Turn(t) /\ CallNew(t) /\ Advances(t)
  BY <1>1, ReturnMoves
<1>3. OwnsKept(t)
  BY DEF OwnsKept, Owns, Syncing
<1>4. trial \in [Gens -> Maybe(Trials)] /\ engine \in {0} \cup Gens
  BY Now
<1>5. TrialsQuiet
  BY <1>1, <1>4, TrialsSame, CalledOffQuiet
<1>6. CASE told' = told
  BY <1>2, <1>3, <1>5, <1>6, QuietTold DEF IInv
<1>7. CASE call[t].op = "notify" /\ engine = t /\ told' = told \cup {t}
  <2>1. t \in Gens
    BY <1>7, Plain DEF Threads
  <2>2. trial[t] # None /\ ~Open(trial[t])
    BY <1>7, <2>1 DEF IInv, Notified
  <2>3. trial'[t] = trial[t]
    BY <2>1, <2>2, <1>5 DEF TrialsQuiet, TrialStep
  <2>4. told \subseteq Gens
    BY DEF IInv, TypeOK
  <2>5. ASSUME NEW g \in told, trial'[g] # None PROVE ~Open(trial'[g])
    <3>1. CASE trial'[g] = trial[g]
      BY <2>4, <2>5, <3>1 DEF IInv, Judged
    <3>2. CASE TrialStep(g)
      BY <2>4, <2>5, <3>2 DEF IInv, Judged, TrialStep
    <3> QED
      BY <2>4, <3>1, <3>2, <1>5 DEF TrialsQuiet
  <2>6. ToldFair
    BY <1>7, <2>1, <2>2, <2>3, <2>4, <2>5 DEF ToldFair
  <2> QED
    BY <1>2, <1>3, <1>5, <1>7, <2>6
<1> QED
  BY <1>1, <1>6, <1>7

\* A notified outcome: its run is that of the trial of this thread.
LEMMA NotifiedRun ==
    ASSUME IInv, NEW t \in Threads, call[t].op = "notify", call[t].pc \in Syncing
    PROVE  t \in Gens /\ trial[t] # None /\ trial[t].run = call[t].run /\ call[t].view = trial[t] /\ ~Open(trial[t])
<1>1. t \in Gens
  BY Plain DEF Threads
<1> QED
  BY <1>1, Now DEF IInv, Notified, Fits

LEMMA SyncStep ==
    ASSUME IInv, NEW t \in Threads, call[t].pc \in Syncing, NEW passed \in BOOLEAN, Finish(t, passed),
           UNCHANGED <<events, edits, engine, stopping, born, switches, job, faults>>,
           RunsFair, ActiveRuns' \subseteq ActiveRuns, \A i \in DOMAIN runs : Earns(i),
           call[t].op = "notify" => call[t].run \notin ActiveRuns'
    PROVE  IInv' /\ Outcome
<1>1. EventsFair /\ FatesMove /\ JobsFair /\ CameraFair /\ EngineFair /\ CountsFair
  BY SameEvents, SameJobs, SameCamera, StillCounts DEF Still, IInv
<1>2. /\ Turn(t) /\ CallNew(t) /\ Advances(t) /\ OwnsKept(t) /\ TrialsQuiet /\ ToldFair
      /\ told' \subseteq told \/ (call[t].op = "notify" /\ engine = t /\ told' = told \cup {t})
  BY FinishMoves
<1>3. World
  BY <1>1, <1>2, QuietTrials DEF World, IInv, TypeOK
<1>4. CallsFair /\ Advanced /\ \A u \in Requests : call'[u] = call[u] \/ OwnsKept(u)
  BY <1>2, MovesCalls DEF IInv, OneMoves, Moves
<1>5. Settled /\ TrialsArmed
  BY <1>2, QuietSettled, QuietArmed DEF IInv
<1>6. ASSUME NEW i \in ActiveRuns', Told(i) PROVE Told(i)'
  <2>1. engine \notin told'
    <3>1. CASE told' \subseteq told
      BY <1>6, <3>1 DEF Told
    <3>2. CASE call[t].op = "notify" /\ engine = t /\ told' = told \cup {t}
      <4>1. trial[t].run = call[t].run
        BY <3>2, NotifiedRun
      <4> QED
        BY <1>6, <3>2, <4>1 DEF Told
    <3> QED
      BY <1>2, <3>1, <3>2
  <2> QED
    BY <1>2, <1>6, <2>1, ToldKept DEF IInv
<1>7. Owned'
  BY <1>4, <1>6, OwnedKept DEF IInv
<1>8. Outcome
  BY <1>1, <1>2, FairMoves, QuietTrialsMove DEF Outcome, IInv
<1> QED
  BY <1>1, <1>3, <1>4, <1>5, <1>7, <1>8, FairStep

\* What a quiet step earns and activates: nothing.
LEMMA QuietEarns ==
    ASSUME IInv, RunsQuiet
    PROVE  RunsFair /\ ActiveRuns' \subseteq ActiveRuns /\ \A i \in DOMAIN runs : Earns(i)
<1>1. RunsFair
  BY QuietFair
<1>2. ActiveRuns' \subseteq ActiveRuns
  BY QuietMoves DEF IInv
<1>3. \A i \in DOMAIN runs : Earns(i)
  BY DEF Earns, RunsQuiet, RowQuiet
<1> QED
  BY <1>1, <1>2, <1>3

\* It goes on with its view.
LEMMA SyncGoto ==
    ASSUME IInv, NEW t \in Threads, call[t].pc \in Syncing, NEW pc \in {"apply", "pass"}, Goto(t, pc),
           UNCHANGED <<events, edits, engine, stopping, born, switches, job, faults, trial, told>>,
           RunsQuiet, Ready(call[t])'
    PROVE  IInv' /\ Outcome
<1>1. /\ call \in [Threads -> Calls] /\ runs \in Seq(Runs) /\ trial \in [Gens -> Maybe(Trials)] /\ pc \in Pcs
      /\ pc \in Syncing /\ pc \notin Bound
  BY Now DEF Pcs, Syncing, Bound
<1>2. /\ Turn(t) /\ call'[t].pc = pc /\ call'[t].op = call[t].op /\ call'[t].run = call[t].run
      /\ call'[t].gen = call[t].gen /\ call'[t].view = call[t].view /\ call'[t].session = call[t].session
      /\ call'[t].victim = call[t].victim
  BY <1>1, Gone
<1>3. Grown
  BY QuietFair, SteadyGrown
<1>4. Fits(call[t], DOMAIN runs', born')
  BY <1>1, <1>3, Now, FitsGrown
<1>5. Fits(call'[t], DOMAIN runs', born')
  BY <1>1, <1>2, <1>4, CallParts DEF Fits, OpsAt, Turn
<1>6. call'[t] \in Calls
  BY <1>2 DEF Turn
<1>7. t \in Gens /\ call'[t].op = "notify" => trial'[t] # None /\ call'[t].view = trial'[t] /\ ~Open(trial'[t])
  BY <1>2 DEF IInv, Notified
<1>8. t \in Requests => call'[t].op \notin {"notify", "track"}
  BY <1>2, Plain
<1>9. CallNew(t)
  BY <1>1, <1>2, <1>5, <1>6, <1>7, <1>8 DEF CallNew
<1>10. Advances(t)
  BY <1>1, <1>2 DEF Advances, Older, Bound, Waiting
<1>11. OwnsKept(t)
  BY DEF OwnsKept, Owns, Syncing
<1>12. OneMoves
  BY <1>2, <1>9, <1>10, <1>11 DEF OneMoves, Moves
<1>13. TrialsQuiet
  BY <1>1, TrialsSame
<1> QED
  BY <1>12, <1>13, SteadyStep

LEMMA IdentifyKeeps ==
    ASSUME IInv, NEW t \in Threads, Identify(t)
    PROVE  IInv' /\ Outcome
<1>1. /\ call[t].pc = "identify" /\ UNCHANGED <<events, edits, engine, stopping, born, switches, job, faults>>
      /\ \/ ~Active(call[t].run) /\ Finish(t, FALSE) /\ runs' = runs
         \/ Goto(t, "apply") /\ UNCHANGED <<runs, told, trial>>
         \/ Finish(t, FALSE) /\ runs' = Ended(call[t].run, "CAMERA_INTERRUPTED")
  BY DEF Identify, At, camera
<1>2. call[t].pc \in Syncing /\ call[t].run \in DOMAIN runs /\ runs \in Seq(Runs) /\ FALSE \in BOOLEAN
  BY <1>1, Now DEF Fits, Syncing
<1>3. CASE ~Active(call[t].run) /\ Finish(t, FALSE) /\ runs' = runs
  <2>1. RunsQuiet
    BY <1>2, <1>3, RunsSame
  <2>2. call[t].run \notin ActiveRuns'
    BY <1>3 DEF ActiveRuns, Active
  <2> QED
    BY <1>1, <1>2, <1>3, <2>1, <2>2, QuietEarns, SyncStep
<1>4. CASE Goto(t, "apply") /\ UNCHANGED <<runs, told, trial>>
  <2>1. RunsQuiet
    BY <1>2, <1>4, RunsSame
  <2>2. call'[t].pc = "apply"
    BY <1>4, Gone, Now DEF Pcs
  <2>3. Ready(call[t])'
    BY <2>2 DEF Ready
  <2> QED
    BY <1>1, <1>2, <1>4, <2>1, <2>3, SyncGoto
<1>5. CASE Finish(t, FALSE) /\ runs' = Ended(call[t].run, "CAMERA_INTERRUPTED")
  <2>1. RunsQuiet /\ Terminal(runs'[call[t].run].status)
    BY <1>2, <1>5, EndsQuiet DEF Endings
  <2>2. call[t].run \notin ActiveRuns'
    BY <2>1 DEF ActiveRuns, Active, Terminal
  <2> QED
    BY <1>1, <1>2, <1>5, <2>1, <2>2, QuietEarns, SyncStep
<1> QED
  BY <1>1, <1>3, <1>4, <1>5

\* The row with its progress, and the row that fails.
LEMMA WrittenRow ==
    ASSUME NEW o \in Runs, NEW b \in BOOLEAN
    PROVE  LET n == [o EXCEPT !.executed = @ \/ b]
           IN /\ n \in Runs /\ n.status = o.status /\ n.kind = o.kind /\ n.event = o.event /\ n.back = o.back
              /\ n.session = o.session /\ n.cut = o.cut /\ n.before = o.before
              /\ (b => n.executed) /\ n.executed \in BOOLEAN
BY DEF Runs

\* An outcome that is notified of an active run decides it.
LEMMA NotifiedDecides ==
    ASSUME IInv, NEW t \in Threads, call[t].op = "notify", call[t].pc \in Syncing, Active(call[t].run),
           NEW row \in Runs, row.event = runs[call[t].run].event, call[t].view.seen => row.executed,
           ~(runs[call[t].run].kind # "movement" /\ Earned(row, call[t].run, call[t].view))
    PROVE  Lost(row, call[t].run, call[t].view)
<1> DEFINE i == call[t].run
           view == call[t].view
<1>1. t \in Gens /\ trial[t] # None /\ trial[t].run = i /\ view = trial[t] /\ ~Open(view)
  BY NotifiedRun
<1>2. view \in Trials /\ i \in DOMAIN runs /\ runs[i].status = "ACTIVE"
  BY <1>1, Now DEF Maybe, Fits, Active
<1>3. Proper(view, runs[i].kind, runs[i].status)
  BY <1>1 DEF IInv, Judged
<1>4. runs[i].event = None
  BY <1>2 DEF IInv, Linked
<1>5. view.state \in {"emitted", "completed", "over"}
  BY <1>1, <1>2, TrialParts DEF Open
<1>6. view.state # "emitted" /\ ~view.stable
  BY <1>2, <1>3, <1>5 DEF Proper
<1> HIDE DEF i, view
<1>7. CASE runs[i].kind = "movement"
  BY <1>4, <1>5, <1>6, <1>7 DEF Lost, i, view
<1>8. CASE runs[i].kind = "disconnect_reconnect"
  BY <1>1, <1>6, <1>8 DEF Lost, i, view
<1>9. CASE runs[i].kind \notin {"movement", "disconnect_reconnect"}
  <2>1. view.state # "completed"
    BY <1>3, <1>9 DEF Proper, Earned, i, view
  <2> QED
    BY <1>1, <1>9, <2>1 DEF Lost, i, view
<1> QED
  BY <1>7, <1>8, <1>9

LEMMA ApplyKeeps ==
    ASSUME IInv, NEW t \in Threads, Apply(t)
    PROVE  IInv' /\ Outcome
<1> DEFINE i == call[t].run
           view == call[t].view
           row == [runs[i] EXCEPT !.executed = @ \/ view.seen]
           written == [runs EXCEPT ![i] = row]
           failed == [row EXCEPT !.status = "FAILED"]
<1>1. /\ call[t].pc = "apply" /\ UNCHANGED <<events, edits, engine, stopping, born, switches, job, faults>>
      /\ \/ ~Active(i) /\ Finish(t, runs[i].status = "PASSED") /\ UNCHANGED runs
         \/ /\ Active(i) /\ runs[i].kind # "movement" /\ Earned(row, i, view)
            /\ Goto(t, "pass") /\ runs' = written /\ UNCHANGED <<told, trial>>
         \/ Active(i) /\ Finish(t, FALSE) /\ runs' = [written EXCEPT ![i] = [@ EXCEPT !.status = "FAILED"]]
         \/ /\ Active(i) /\ ~(runs[i].kind # "movement" /\ Earned(row, i, view)) /\ ~Lost(row, i, view)
            /\ Finish(t, FALSE) /\ runs' = written
  <2>1. call[t].pc = "apply" /\ UNCHANGED <<events, edits, engine, stopping, born, switches, job, faults>>
    BY DEF Apply, At, camera
  <2>2. CASE ~Active(i)
    BY <2>1, <2>2 DEF Apply
  <2>3. CASE Active(i) /\ runs[i].kind # "movement" /\ Earned(row, i, view)
    BY <2>1, <2>3 DEF Apply
  <2>4. CASE Active(i) /\ ~(runs[i].kind # "movement" /\ Earned(row, i, view))
    BY <2>1, <2>4 DEF Apply
  <2> QED
    BY <2>2, <2>3, <2>4
<1>2. /\ call[t].pc \in Syncing /\ i \in DOMAIN runs /\ runs \in Seq(Runs) /\ FALSE \in BOOLEAN
      /\ view \in Trials /\ runs[i] \in Runs
  <2>1. call[t].pc \in Syncing /\ Fits(call[t], DOMAIN runs, born) /\ runs \in Seq(Runs) /\ call[t] \in Calls
    BY <1>1, Now DEF Syncing
  <2>2. i \in DOMAIN runs /\ view # None
    BY <2>1 DEF Fits
  <2>3. view \in Maybe(Trials)
    BY <2>1, CallParts
  <2> QED
    BY <2>1, <2>2, <2>3 DEF Maybe
<1>3. CASE ~Active(i) /\ Finish(t, runs[i].status = "PASSED") /\ UNCHANGED runs
  <2>1. RunsQuiet
    BY <1>2, <1>3, RunsSame
  <2>2. call[t].run \notin ActiveRuns'
    BY <1>3 DEF ActiveRuns, Active
  <2>3. (runs[i].status = "PASSED") \in BOOLEAN
    OBVIOUS
  <2> QED
    BY <1>1, <1>2, <1>3, <2>1, <2>2, <2>3, QuietEarns, SyncStep
<1>4. ASSUME Active(i) PROVE runs[i].status = "ACTIVE" /\ runs[i].session # None /\ i \in ActiveRuns
  BY <1>2, <1>4 DEF IInv, TypeOK, ActiveRuns, Active
<1>5. /\ row \in Runs /\ row.status = runs[i].status /\ row.kind = runs[i].kind /\ row.event = runs[i].event
      /\ row.back = runs[i].back /\ row.session = runs[i].session /\ row.cut = runs[i].cut
      /\ (view.seen => row.executed)
  <2>1. view.seen \in BOOLEAN
    BY <1>2, TrialParts
  <2> QED
    BY <1>2, <2>1, WrittenRow
<1>6. ASSUME Active(i), runs' = written PROVE RunsQuiet /\ runs'[i] = row
  <2>a. runs' = [runs EXCEPT ![i] = row]
    BY <1>6
  <2> HIDE DEF row
  <2>1. RowQuiet(runs[i], row)
    BY <1>4, <1>5, <1>6 DEF RowQuiet, Terminal
  <2> QED
    BY <1>2, <1>5, <2>1, <2>a, RowSet
<1>7. CASE /\ Active(i) /\ runs[i].kind # "movement" /\ Earned(row, i, view)
           /\ Goto(t, "pass") /\ runs' = written /\ UNCHANGED <<told, trial>>
  <2>1. RunsQuiet /\ runs'[i] = row
    BY <1>6, <1>7
  <2>a. Earned(row, i, view)
    BY <1>7
  <2>2. call'[t].pc = "pass" /\ call'[t].run = i /\ call'[t].view = view
    BY <1>7, Gone, Now DEF Pcs
  <2> HIDE DEF row, i, view
  <2>3. IF runs[i].kind = "disconnect_reconnect" THEN row.back # None ELSE view.state = "completed"
    BY <2>a DEF Earned
  <2>4. runs'[i].kind = runs[i].kind
    BY <1>5, <2>1
  <2>5. Ready(call[t])'
    BY <1>7, <2>1, <2>2, <2>3, <2>4 DEF Ready
  <2> QED
    BY <1>1, <1>2, <1>7, <2>1, <2>5, SyncGoto
<1>8. CASE Active(i) /\ Finish(t, FALSE) /\ runs' = [written EXCEPT ![i] = [@ EXCEPT !.status = "FAILED"]]
  <2>1. runs' = [runs EXCEPT ![i] = failed]
    BY <1>2, <1>8
  <2>2. /\ failed \in Runs /\ failed.status = "FAILED" /\ failed.kind = row.kind /\ failed.event = row.event
        /\ failed.back = row.back
    <3> HIDE DEF row
    <3>1. "FAILED" \in Statuses
      BY DEF Statuses
    <3> QED
      BY <1>5, <3>1, StatusRow
  <2> HIDE DEF failed, row
  <2>3. RowQuiet(runs[i], failed)
    BY <1>4, <1>5, <1>8, <2>2 DEF RowQuiet, Terminal
  <2>4. RunsQuiet /\ runs'[i] = failed
    BY <1>2, <2>1, <2>2, <2>3, RowSet
  <2>5. call[t].run \notin ActiveRuns'
    BY <2>2, <2>4 DEF ActiveRuns, Active
  <2> QED
    BY <1>1, <1>2, <1>8, <2>4, <2>5, QuietEarns, SyncStep
<1>9. CASE /\ Active(i) /\ ~(runs[i].kind # "movement" /\ Earned(row, i, view)) /\ ~Lost(row, i, view)
           /\ Finish(t, FALSE) /\ runs' = written
  <2>1. RunsQuiet
    BY <1>6, <1>9
  <2>2. call[t].op # "notify"
    <3> HIDE DEF row
    <3> QED
      BY <1>2, <1>5, <1>9, NotifiedDecides
  <2> QED
    BY <1>1, <1>2, <1>9, <2>1, <2>2, QuietEarns, SyncStep
<1> QED
  BY <1>1, <1>3, <1>7, <1>8, <1>9

LEMMA PassKeeps ==
    ASSUME IInv, NEW t \in Threads, Pass(t)
    PROVE  IInv' /\ Outcome
<1> DEFINE i == call[t].run
           n == [runs[i] EXCEPT !.status = "PASSED"]
<1>1. /\ call[t].pc = "pass" /\ UNCHANGED <<events, edits, engine, stopping, born, switches, job, faults>>
      /\ \/ Active(i) /\ Finish(t, TRUE) /\ runs' = [runs EXCEPT ![i] = n]
         \/ Return(t) /\ UNCHANGED <<runs, told, trial>>
  BY DEF Pass, At, camera
<1>2. /\ call[t].pc \in Syncing /\ i \in DOMAIN runs /\ runs \in Seq(Runs) /\ TRUE \in BOOLEAN
      /\ call[t].view # None /\ call[t].view.run = i /\ runs[i] \in Runs /\ trial \in [Gens -> Maybe(Trials)]
  BY <1>1, Now DEF Fits, Syncing
<1>3. CASE Return(t) /\ UNCHANGED <<runs, told, trial>>
  <2>1. RunsQuiet /\ TrialsQuiet /\ Turn(t) /\ CallNew(t) /\ Advances(t)
    BY <1>2, <1>3, RunsSame, TrialsSame, ReturnMoves
  <2>2. OwnsKept(t)
    BY <1>2 DEF OwnsKept, Owns, Syncing
  <2>3. OneMoves
    BY <2>1, <2>2 DEF OneMoves, Moves
  <2> QED
    BY <1>1, <1>3, <2>1, <2>3, SteadyStep
<1>4. CASE Active(i) /\ Finish(t, TRUE) /\ runs' = [runs EXCEPT ![i] = n]
  <2>1. runs[i].kind # "movement" /\ (IF runs[i].kind = "disconnect_reconnect" THEN runs[i].back # None
                                      ELSE call[t].view.state = "completed")
    BY <1>1, Now DEF Ready
  <2>2. runs[i].status = "ACTIVE" /\ "PASSED" \in Statuses
    BY <1>4 DEF Active, Statuses
  <2>3. /\ n \in Runs /\ n.status = "PASSED" /\ n.kind = runs[i].kind /\ n.event = runs[i].event
        /\ n.back = runs[i].back
    BY <1>2, <2>2, StatusRow
  <2>a. runs' = [runs EXCEPT ![i] = n]
    BY <1>4
  <2> HIDE DEF n
  <2>4. /\ runs' \in Seq(Runs) /\ Len(runs') = Len(runs) /\ runs'[i] = n /\ DOMAIN runs' = DOMAIN runs
        /\ \A j \in DOMAIN runs : j # i => runs'[j] = runs[j]
    BY <1>2, <2>3, <2>a, SeqSet
  <2>5. RowFair(runs[i], n)
    BY <2>1, <2>2, <2>3 DEF RowFair, Terminal
  <2>6. RunsFair
    BY <2>4, <2>5 DEF RunsFair
  <2>7. ActiveRuns' \subseteq ActiveRuns /\ i \notin ActiveRuns'
    BY <2>3, <2>4 DEF ActiveRuns, Active
  <2>8. ASSUME NEW j \in DOMAIN runs PROVE Earns(j)
    <3>1. CASE j # i
      BY <2>4, <3>1 DEF Earns
    <3>2. CASE j = i
      <4>1. runs[i].kind # "disconnect_reconnect" => Witness(i)
        BY <1>2, <2>1, <2>2, Now DEF Seen, Terminal
      <4> QED
        BY <2>1, <3>2, <4>1 DEF Earns
    <3> QED
      BY <3>1, <3>2
  <2> QED
    BY <1>1, <1>2, <1>4, <2>6, <2>7, <2>8, SyncStep
<1> QED
  BY <1>1, <1>3, <1>4
-----------------------------------------------------------------------------
(* A generation: its vision thread.                                        *)

LEMMA TrialsKeep ==
    ASSUME IInv, TrialsQuiet,
           UNCHANGED <<runs, events, edits, engine, stopping, born, switches, job, told, call, faults>>
    PROVE  IInv' /\ Outcome
<1>1. RunsQuiet
  BY RunsSame DEF IInv, TypeOK
<1>2. OneMoves
  BY DEF OneMoves
<1> QED
  BY <1>1, <1>2, SteadyStep

LEMMA SeenRow ==
    ASSUME NEW x \in Trials, NEW seen \in BOOLEAN, NEW stable \in BOOLEAN
    PROVE  LET y == [x EXCEPT !.seen = seen, !.stable = stable]
           IN y \in Trials /\ y.state = x.state /\ y.run = x.run /\ y.stable = stable
BY DEF Trials

LEMMA SeeKeeps ==
    ASSUME IInv, NEW g \in Gens, NEW seen \in BOOLEAN, NEW stable \in BOOLEAN, See(g, seen, stable)
    PROVE  IInv' /\ Outcome
<1> DEFINE before == trial[g].seen \/ seen
           y == [trial[g] EXCEPT !.seen = before, !.stable = stable]
<1>1. /\ trial[g] # None /\ trial[g].state = "armed"
      /\ UNCHANGED <<runs, events, edits, engine, stopping, born, switches, job, told, call, faults>>
  BY DEF See, Watches, Judges, db, camera
<1>a. trial' = [trial EXCEPT ![g] = y]
  BY Zenon DEF See
<1>b. before \in BOOLEAN
  OBVIOUS
<1>2. trial \in [Gens -> Maybe(Trials)] /\ trial[g] \in Trials /\ Open(trial[g])
  BY <1>1 DEF IInv, TypeOK, Maybe, Open
<1> HIDE DEF before
<1>3. y \in Trials /\ y.state = "armed" /\ y.run = trial[g].run
  <2>1. y \in Trials /\ y.state = trial[g].state /\ y.run = trial[g].run
    BY <1>2, <1>b, SeenRow, ZenonT(60)
  <2> QED
    BY <1>1, <2>1
<1> HIDE DEF y
<1>4. Proper(y, runs[trial[g].run].kind, runs[trial[g].run].status)
  BY <1>3 DEF Proper
<1>5. TrialsQuiet
  <2>1. trial[g] # None
    BY <1>1
  <2> QED
    BY <1>a, <1>1, <1>2, <1>3, <1>4, <2>1, TrialSet DEF Follows
<1> QED
  BY <1>1, <1>5, TrialsKeep

LEMMA ConfirmKeeps ==
    ASSUME IInv, NEW g \in Gens, Confirm(g)
    PROVE  IInv' /\ Outcome
<1>1. /\ trial[g] # None /\ trial[g].state = "armed" /\ Becomes(g, "confirmed")
      /\ runs[trial[g].run].kind = "movement"
      /\ UNCHANGED <<runs, events, edits, engine, stopping, born, switches, job, told, call, faults>>
  BY DEF Confirm, Watches, Judges, db, camera
<1>2. trial \in [Gens -> Maybe(Trials)] /\ Open(trial[g])
  BY <1>1 DEF IInv, TypeOK, Open
<1>3. TrialsQuiet
  BY <1>1, <1>2, BecomesQuiet DEF Follows
<1> QED
  BY <1>1, <1>3, TrialsKeep

LEMMA CompleteKeeps ==
    ASSUME IInv, NEW g \in Gens, Complete(g)
    PROVE  IInv' /\ Outcome
<1>1. /\ trial[g] # None /\ trial[g].state = "armed" /\ trial[g].seen /\ Becomes(g, "completed")
      /\ runs[trial[g].run].kind \in {"stationary", "minor_adjustment", "occlusion"}
      /\ UNCHANGED <<runs, events, edits, engine, stopping, born, switches, job, told, call, faults>>
  BY DEF Complete, Watches, Judges, db, camera
<1>2. trial \in [Gens -> Maybe(Trials)] /\ Open(trial[g])
  BY <1>1 DEF IInv, TypeOK, Open
<1>3. TrialsQuiet
  BY <1>1, <1>2, BecomesQuiet DEF Follows
<1> QED
  BY <1>1, <1>3, TrialsKeep

LEMMA GiveUpKeeps ==
    ASSUME IInv, NEW g \in Gens, GiveUp(g)
    PROVE  IInv' /\ Outcome
<1>1. /\ trial[g] # None /\ Open(trial[g]) /\ Becomes(g, "over")
      /\ UNCHANGED <<runs, events, edits, engine, stopping, born, switches, job, told, call, faults>>
  BY DEF GiveUp, Judges, db, camera
<1>2. trial \in [Gens -> Maybe(Trials)]
  BY DEF IInv, TypeOK
<1>3. TrialsQuiet
  BY <1>1, <1>2, BecomesQuiet DEF Follows
<1> QED
  BY <1>1, <1>3, TrialsKeep

\* Something goes wrong: the bounds of the exploration are used up by one.
LEMMA Faulted ==
    ASSUME IInv, Fault
    PROVE  /\ faults \in Nat /\ faults' = faults + 1 /\ faults' \in faults..MaxFaults
           /\ edits \in 0..faults /\ edits \in Nat
           /\ switches \in [Gens -> 0..MaxFaults] /\ \A g \in Gens : switches[g] \in Nat /\ switches[g] <= faults
BY Bounds DEF Fault, IInv, TypeOK, Counted

\* A stop that raises leaves the run of a controlled reconnect as it is.
LEMMA JoinRaisesKeeps ==
    ASSUME IInv, NEW t \in Requests, JoinRaises(t)
    PROVE  IInv' /\ Outcome
<1>1. /\ Joined(t) /\ Fault
      /\ IF call[t].op = "reconnect" THEN Goto(t, "raised") ELSE Return(t)
  BY DEF JoinRaises
<1>2. /\ RunsQuiet /\ TrialsQuiet /\ JobsFair /\ CameraFair /\ EngineFair
      /\ UNCHANGED <<runs, events, edits, engine, switches>> /\ told' \subseteq told
      /\ t \in Threads
  BY <1>1, JoinedQuiet
<1>3. /\ faults \in Nat /\ faults' = faults + 1 /\ faults' \in faults..MaxFaults
      /\ edits \in 0..faults /\ edits \in Nat
      /\ switches \in [Gens -> 0..MaxFaults] /\ \A h \in Gens : switches[h] \in Nat /\ switches[h] <= faults
  BY <1>1, Faulted
<1>4. CountsFair
  BY <1>2, <1>3 DEF CountsFair
<1>5. EventsFair /\ FatesMove
  <2>1. events \in Seq(Events) /\ Len(events) \in Nat
    BY DEF IInv, TypeOK
  <2> QED
    BY <1>2, <1>3, <2>1 DEF EventsFair, FatesMove
<1>6. Moves(t)
  BY <1>1, JoinedMoves, JoinedReturns
<1>7. OneMoves
  BY <1>2, <1>6 DEF OneMoves
<1> QED
  BY <1>2, <1>4, <1>5, <1>7, CalmStep

LEMMA SwitchSessionKeeps ==
    ASSUME IInv, NEW g \in Gens, SwitchSession(g)
    PROVE  IInv' /\ Outcome
<1>1. /\ Fault /\ switches' = [switches EXCEPT ![g] = @ + 1]
      /\ trial' = IF trial[g] = None THEN trial ELSE CalledOff(trial[g].run, g)
      /\ UNCHANGED <<runs, events, edits, engine, stopping, born, job, told, call>>
  BY DEF SwitchSession, db
<1>2. /\ faults \in Nat /\ faults' = faults + 1 /\ faults' \in faults..MaxFaults
      /\ edits \in 0..faults /\ edits \in Nat
      /\ switches \in [Gens -> 0..MaxFaults] /\ \A h \in Gens : switches[h] \in Nat /\ switches[h] <= faults
  BY <1>1, Faulted
<1>3. CountsFair
  <2>1. switches[g] + 1 \in 0..MaxFaults /\ switches[g] + 1 <= faults'
    BY <1>2, Bounds
  <2>2. \A h \in Gens : switches'[h] = IF h = g THEN switches[g] + 1 ELSE switches[h]
    BY <1>1, <1>2
  <2>3. switches' \in [Gens -> 0..MaxFaults]
    BY <1>1, <1>2, <2>1
  <2>4. \A h \in Gens : switches'[h] <= faults'
    BY <1>2, <2>1, <2>2
  <2>5. edits' \in 0..faults'
    BY <1>1, <1>2
  <2> QED
    BY <1>2, <2>3, <2>4, <2>5 DEF CountsFair
<1>4. trial \in [Gens -> Maybe(Trials)] /\ runs \in Seq(Runs) /\ events \in Seq(Events)
  BY DEF IInv, TypeOK
<1>5. RunsQuiet /\ TrialsQuiet
  BY <1>1, <1>4, RunsSame, TrialsSame, CalledOffQuiet
<1>6. EventsFair /\ FatesMove
  <2>1. Len(events) \in Nat
    BY <1>4
  <2> QED
    BY <1>1, <1>2, <1>4, <2>1 DEF EventsFair, FatesMove
<1>7. JobsFair /\ CameraFair /\ EngineFair
  BY <1>1, SameJobs, SameCamera DEF IInv
<1>8. OneMoves
  BY <1>1 DEF OneMoves
<1> QED
  BY <1>1, <1>3, <1>5, <1>6, <1>7, <1>8, CalmStep

\* The thread of a generation begins to take an outcome or a detection to the run.
LEMMA ViewStarts ==
    ASSUME IInv, NEW g \in Gens, NEW op \in {"notify", "track"}, NEW i \in DOMAIN runs, call[g].pc = "idle",
           trial[g] # None, trial[g].run = i, op = "notify" => ~Open(trial[g]), trial' = trial,
           call' = [call EXCEPT ![g] = [Idle EXCEPT !.pc = "identify", !.op = op, !.run = i,
                                                     !.gen = g, !.view = trial[g]]],
           Grown
    PROVE  OneMoves
<1> DEFINE c == [Idle EXCEPT !.pc = "identify", !.op = op, !.run = i, !.gen = g, !.view = trial[g]]
<1>1. /\ call \in [Threads -> Calls] /\ g \in Threads /\ g \notin Requests /\ runs \in Seq(Runs)
      /\ trial[g] \in Trials
  BY Now, Kinded DEF Maybe
<1>2. op \in Verbs /\ i \in {0} \cup Scenarios
  BY <1>1, TrialParts DEF Verbs, Maybe
<1>3. c \in Calls /\ c.pc = "identify" /\ c.op = op /\ c.run = i /\ c.view = trial[g]
  BY <1>1, <1>2 DEF Idle, Calls, Maybe, Verbs
<1>4. call' = [call EXCEPT ![g] = c]
  OBVIOUS
<1> HIDE DEF c
<1>5. Turn(g) /\ call'[g] = c
  BY <1>1, <1>3, <1>4, Turned
<1>6. Fits(call'[g], DOMAIN runs', born')
  BY <1>2, <1>3, <1>5, NoneIsNone, <1>1 DEF Fits, OpsAt, Syncing, Bound, Grown
<1>7. CallNew(g)
  BY <1>1, <1>3, <1>5, <1>6 DEF CallNew, Ready, Syncing
<1>8. Advances(g)
  BY <1>3, <1>5 DEF Advances, Older, Bound, Waiting
<1> QED
  BY <1>1, <1>5, <1>7, <1>8 DEF OneMoves, Moves

LEMMA NotifyKeeps ==
    ASSUME IInv, NEW g \in Gens, Notify(g)
    PROVE  IInv' /\ Outcome
<1>1. /\ trial[g] # None /\ call[g].pc = "idle" /\ ~Open(trial[g])
      /\ call' = [call EXCEPT ![g] = [Idle EXCEPT !.pc = "identify", !.op = "notify", !.run = trial[g].run,
                                                   !.gen = g, !.view = trial[g]]]
      /\ UNCHANGED <<runs, events, edits, engine, stopping, born, switches, trial, job, told, faults>>
  BY DEF Notify, Judges, db, camera
<1>2. trial[g].run \in DOMAIN runs /\ trial \in [Gens -> Maybe(Trials)] /\ runs \in Seq(Runs)
  BY <1>1 DEF IInv, TypeOK, Linked
<1>3. RunsQuiet /\ TrialsQuiet
  BY <1>1, <1>2, RunsSame, TrialsSame
<1>4. Grown
  BY <1>1, <1>3, QuietFair, SteadyGrown
<1>5. OneMoves
  BY <1>1, <1>2, <1>4, ViewStarts
<1> QED
  BY <1>1, <1>3, <1>5, SteadyStep

LEMMA ExecutedRow ==
    ASSUME NEW o \in Runs
    PROVE  LET n == [o EXCEPT !.executed = TRUE]
           IN /\ n \in Runs /\ n.status = o.status /\ n.kind = o.kind /\ n.event = o.event /\ n.back = o.back
              /\ n.session = o.session
BY DEF Runs

LEMMA TrackKeeps ==
    ASSUME IInv, NEW g \in Gens, Track(g)
    PROVE  IInv' /\ Outcome
<1> DEFINE i == CHOOSE j \in ActiveRuns : TRUE
           n == [runs[i] EXCEPT !.executed = TRUE]
<1>1. /\ call[g].pc = "idle" /\ ActiveRuns # {}
      /\ UNCHANGED <<events, edits, engine, stopping, born, switches, job, told, faults>>
      /\ \/ /\ runs' = [runs EXCEPT ![i] = n] /\ UNCHANGED trial
            /\ \/ UNCHANGED call
               \/ /\ trial[g] # None /\ trial[g].run = i
                  /\ call' = [call EXCEPT ![g] = [Idle EXCEPT !.pc = "identify", !.op = "track", !.run = i,
                                                               !.gen = g, !.view = trial[g]]]
         \/ runs' = Ended(i, "CAMERA_INTERRUPTED") /\ trial' = CalledOff(i, g) /\ UNCHANGED call
  BY DEF Track, camera
<1>2. i \in ActiveRuns
  BY <1>1
<1> HIDE DEF i
<1>3. /\ i \in DOMAIN runs /\ runs[i].status = "ACTIVE" /\ runs[i].session # None /\ runs \in Seq(Runs)
      /\ trial \in [Gens -> Maybe(Trials)] /\ runs[i] \in Runs
  BY <1>2, Now, Kinded DEF IInv, TypeOK, ActiveRuns, Active
<1>4. CASE runs' = Ended(i, "CAMERA_INTERRUPTED") /\ trial' = CalledOff(i, g) /\ UNCHANGED call
  <2>1. RunsQuiet
    BY <1>3, <1>4, EndsQuiet DEF Endings
  <2>2. TrialsQuiet /\ OneMoves
    BY <1>3, <1>4, CalledOffQuiet DEF OneMoves
  <2> QED
    BY <1>1, <2>1, <2>2, SteadyStep
<1>5. ASSUME runs' = [runs EXCEPT ![i] = n] PROVE RunsQuiet
  <2>1. /\ n \in Runs /\ n.status = runs[i].status /\ n.kind = runs[i].kind /\ n.event = runs[i].event
        /\ n.back = runs[i].back /\ n.session = runs[i].session
    BY <1>3, ExecutedRow
  <2> HIDE DEF n
  <2>2. RowQuiet(runs[i], n)
    BY <1>3, <2>1 DEF RowQuiet, Terminal
  <2> QED
    BY <1>3, <1>5, <2>1, <2>2, RowSet
<1> HIDE DEF n
<1>6. CASE runs' = [runs EXCEPT ![i] = n] /\ UNCHANGED trial /\ UNCHANGED call
  BY <1>1, <1>3, <1>5, <1>6, TrialsSame, SteadyStep DEF OneMoves
<1>7. CASE /\ runs' = [runs EXCEPT ![i] = n] /\ UNCHANGED trial /\ trial[g] # None /\ trial[g].run = i
           /\ call' = [call EXCEPT ![g] = [Idle EXCEPT !.pc = "identify", !.op = "track", !.run = i,
                                                        !.gen = g, !.view = trial[g]]]
  <2>1. RunsQuiet /\ TrialsQuiet
    BY <1>3, <1>5, <1>7, TrialsSame
  <2>2. Grown
    BY <1>1, <2>1, QuietFair, SteadyGrown
  <2>3. OneMoves
    BY <1>1, <1>3, <1>7, <2>2, ViewStarts
  <2> QED
    BY <1>1, <2>1, <2>3, SteadyStep
<1> QED
  BY <1>1, <1>4, <1>6, <1>7

\* The media worker takes a job, or lays it down.
LEMMA JobKeeps ==
    ASSUME IInv, TrialsQuiet, JobsFair,
           UNCHANGED <<runs, events, edits, engine, stopping, born, switches, told, call, faults>>
    PROVE  IInv' /\ Outcome
<1>1. RunsQuiet
  BY RunsSame DEF IInv, TypeOK
<1>2. EventsFair /\ FatesMove /\ CameraFair /\ EngineFair /\ CountsFair
  BY SameEvents, SameCamera, StillCounts DEF Still, IInv
<1>3. OneMoves
  BY DEF OneMoves
<1> QED
  BY <1>1, <1>2, <1>3, CalmStep

LEMMA JobSet ==
    ASSUME IInv, NEW g \in Gens, NEW j, job' = [job EXCEPT ![g] = j],
           j = None \/ (j \in Jobs /\ trial[g] # None /\ j.run \in DOMAIN runs /\ j.pc # "stored")
    PROVE  JobsFair
<1>1. job \in [Gens -> Maybe(Jobs)]
  BY DEF IInv, TypeOK
<1>2. job' \in [Gens -> Maybe(Jobs)] /\ job'[g] = j /\ \A h \in Gens : h # g => job'[h] = job[h]
  BY <1>1 DEF Maybe
<1> QED
  BY <1>2 DEF JobsFair

LEMMA SubmitKeeps ==
    ASSUME IInv, NEW g \in Gens, Submit(g)
    PROVE  IInv' /\ Outcome
<1> DEFINE j == [run |-> trial[g].run, session |-> trial[g].session, pc |-> "queued"]
<1>1. /\ trial[g] # None /\ job' = [job EXCEPT ![g] = j]
      /\ UNCHANGED <<runs, events, edits, engine, stopping, born, switches, trial, told, call, faults>>
  BY DEF Submit, Judges, db, camera
<1>2. trial[g] \in Trials /\ trial[g].run \in DOMAIN runs /\ trial \in [Gens -> Maybe(Trials)]
  BY <1>1 DEF IInv, TypeOK, Linked, Maybe
<1>3. j \in Jobs /\ j.run \in DOMAIN runs /\ j.pc # "stored"
  BY <1>2, TrialParts DEF Jobs
<1> HIDE DEF j
<1>4. JobsFair /\ TrialsQuiet
  BY <1>1, <1>2, <1>3, JobSet, TrialsSame
<1> QED
  BY <1>1, <1>4, JobKeeps

-----------------------------------------------------------------------------
(* A generation: its media worker.                                         *)

LEMMA WithdrawKeeps ==
    ASSUME IInv, NEW g \in Gens, JobEnds(g), trial' = Withdrawn(g),
           UNCHANGED <<runs, events, edits, engine, stopping, born, switches, told, call, faults>>
    PROVE  IInv' /\ Outcome
<1>1. TrialsQuiet
  BY CalledOffQuiet DEF Withdrawn, IInv, TypeOK
<1>2. JobsFair
  BY JobSet DEF JobEnds
<1> QED
  BY <1>1, <1>2, JobKeeps

LEMMA ValidateKeeps ==
    ASSUME IInv, NEW g \in Gens, Validate(g)
    PROVE  IInv' /\ Outcome
<1> DEFINE j == [job[g] EXCEPT !.pc = "valid"]
<1>1. /\ job[g] # None
      /\ UNCHANGED <<runs, events, edits, engine, stopping, born, switches, told, call, faults>>
      /\ \/ job' = [job EXCEPT ![g] = j] /\ UNCHANGED trial
         \/ JobEnds(g) /\ trial' = Withdrawn(g)
  BY DEF Validate, db, camera
<1>2. CASE JobEnds(g) /\ trial' = Withdrawn(g)
  BY <1>1, <1>2, WithdrawKeeps
<1>3. CASE job' = [job EXCEPT ![g] = j] /\ UNCHANGED trial
  <2>1. job[g] \in Jobs /\ trial[g] # None /\ job[g].run \in DOMAIN runs /\ trial \in [Gens -> Maybe(Trials)]
    BY <1>1 DEF IInv, TypeOK, Linked, Maybe
  <2>2. j \in Jobs /\ j.run = job[g].run /\ j.pc = "valid"
    BY <2>1 DEF Jobs
  <2> HIDE DEF j
  <2>3. JobsFair /\ TrialsQuiet
    BY <1>3, <2>1, <2>2, JobSet, TrialsSame
  <2> QED
    BY <1>1, <2>3, JobKeeps
<1> QED
  BY <1>1, <1>2, <1>3

LEMMA RefuseKeeps ==
    ASSUME IInv, NEW g \in Gens, Refuse(g)
    PROVE  IInv' /\ Outcome
BY WithdrawKeeps DEF Refuse, db, camera

LEMMA MediaFailsKeeps ==
    ASSUME IInv, NEW g \in Gens, MediaFails(g)
    PROVE  IInv' /\ Outcome
BY WithdrawKeeps DEF MediaFails, db, camera

LEMMA MediaDoneKeeps ==
    ASSUME IInv, NEW g \in Gens, MediaDone(g)
    PROVE  IInv' /\ Outcome
<1>1. /\ job[g] # None /\ job[g].pc = "stored" /\ JobEnds(g)
      /\ UNCHANGED <<runs, events, edits, engine, stopping, born, switches, told, call, faults>>
      /\ \/ trial[g].run = job[g].run /\ trial[g].state = "confirmed" /\ Becomes(g, "emitted")
         \/ UNCHANGED trial
  BY DEF MediaDone, db, camera
<1>2. /\ trial[g] # None /\ runs[job[g].run].status = "PASSED" /\ trial \in [Gens -> Maybe(Trials)]
      /\ Proper(trial[g], runs[trial[g].run].kind, runs[trial[g].run].status)
  BY <1>1 DEF IInv, TypeOK, Linked, Judged
<1>3. JobsFair
  BY <1>1, JobSet DEF JobEnds
<1>4. CASE trial[g].run = job[g].run /\ trial[g].state = "confirmed" /\ Becomes(g, "emitted")
  <2>1. Open(trial[g]) /\ runs[trial[g].run].kind = "movement" /\ runs[trial[g].run].status = "PASSED"
    BY <1>2, <1>4 DEF Proper, Open
  <2>2. TrialsQuiet
    BY <1>2, <1>4, <2>1, BecomesQuiet DEF Follows
  <2> QED
    BY <1>1, <1>3, <2>2, JobKeeps
<1>5. CASE UNCHANGED trial
  BY <1>1, <1>2, <1>3, <1>5, TrialsSame, JobKeeps
<1> QED
  BY <1>1, <1>4, <1>5

\* The row of a run that passes with its event.
LEMMA PassedRow ==
    ASSUME NEW o \in Runs, NEW e \in EventIds
    PROVE  LET n == [o EXCEPT !.status = "PASSED", !.event = e]
           IN /\ n \in Runs /\ n.status = "PASSED" /\ n.kind = o.kind /\ n.event = e /\ n.back = o.back
              /\ n.session = o.session
BY DEF Runs, Statuses, Maybe

\* There is room for the event of a run that has none.
LEMMA EventFits ==
    ASSUME IInv, NEW i \in DOMAIN runs, runs[i].event = None
    PROVE  /\ Len(events) + 1 \in EventIds /\ IsFiniteSet(With) /\ i \notin With
           /\ Cardinality(With \cup {i}) = Cardinality(With) + 1
<1>1. runs \in Seq(Runs) /\ Len(runs) <= MaxRuns /\ events \in Seq(Events) /\ faults \in 0..MaxFaults
  BY DEF IInv, TypeOK
<1>2. Len(events) <= faults + Cardinality(With)
  BY DEF IInv, Counted
<1>3. IsFiniteSet(With) /\ Cardinality(With) \in Nat
  BY <1>1, WithFinite
<1>4. i \notin With /\ With \cup {i} \subseteq 1..Len(runs) /\ Len(runs) \in Nat /\ Len(events) \in Nat
  BY <1>1 DEF With
<1>5. Cardinality(With \cup {i}) = Cardinality(With) + 1
  BY <1>3, <1>4, FS_AddElement
<1>6. IsFiniteSet(1..Len(runs)) /\ Cardinality(1..Len(runs)) = Len(runs)
  BY <1>4, UpTo
<1>7. Cardinality(With \cup {i}) <= Len(runs)
  BY <1>4, <1>6, FS_Subset
<1>8. Len(events) + 1 \in 1..(MaxFaults + MaxRuns)
  BY <1>1, <1>2, <1>3, <1>4, <1>5, <1>7, Bounds
<1> QED
  BY <1>3, <1>4, <1>5, <1>8 DEF EventIds

\* The transaction of an event and the pass of its run.
LEMMA StoredKeeps ==
    ASSUME IInv, NEW g \in Gens, job[g] # None, Commits(job[g]),
           events' = Append(events, [run |-> job[g].run, session |-> job[g].session, fate |-> "stored"]),
           runs' = [runs EXCEPT ![job[g].run] = [@ EXCEPT !.status = "PASSED", !.event = Len(events) + 1]],
           job' = [job EXCEPT ![g] = [@ EXCEPT !.pc = "stored"]],
           UNCHANGED <<edits, engine, stopping, born, switches, trial, told, call, faults>>
    PROVE  IInv' /\ Outcome
<1> DEFINE i == job[g].run
           new == [run |-> i, session |-> job[g].session, fate |-> "stored"]
           n == [runs[i] EXCEPT !.status = "PASSED", !.event = Len(events) + 1]
           j == [job[g] EXCEPT !.pc = "stored"]
<1>1. /\ runs[i].status = "ACTIVE" /\ runs[i].event = None /\ runs[i].kind = "movement"
      /\ runs[i].session = job[g].session
  BY DEF Commits, Active
<1>2. /\ runs \in Seq(Runs) /\ Len(runs) <= MaxRuns /\ events \in Seq(Events)
      /\ trial \in [Gens -> Maybe(Trials)] /\ job \in [Gens -> Maybe(Jobs)] /\ call \in [Threads -> Calls]
      /\ told \subseteq Gens
  BY DEF IInv, TypeOK
<1>3. i \in DOMAIN runs /\ trial[g] # None /\ job[g] \in Jobs /\ runs[i] \in Runs
  BY <1>2 DEF IInv, Linked, Maybe
<1>4. /\ Len(events) + 1 \in EventIds /\ IsFiniteSet(With) /\ i \notin With
      /\ Cardinality(With \cup {i}) = Cardinality(With) + 1
  BY <1>1, <1>3, EventFits
<1>5. /\ n \in Runs /\ n.status = "PASSED" /\ n.kind = runs[i].kind /\ n.event = Len(events) + 1
      /\ n.back = runs[i].back /\ n.session = runs[i].session
  BY <1>3, <1>4, PassedRow
<1>6. new \in Events /\ new.run = i /\ new.session = job[g].session /\ i # 0
  <2>1. job[g].session \in Sessions /\ i \in Scenarios
    BY <1>3 DEF Jobs
  <2> QED
    BY <2>1, Bounds DEF Events, Maybe, Fates, Scenarios
<1>7. j \in Jobs /\ j.run = i /\ j.pc = "stored"
  BY <1>3 DEF Jobs
<1>8. events' = Append(events, new) /\ runs' = [runs EXCEPT ![i] = n] /\ job' = [job EXCEPT ![g] = j]
  OBVIOUS
<1> HIDE DEF n, new, j
<1>9. /\ runs' \in Seq(Runs) /\ Len(runs') = Len(runs) /\ runs'[i] = n /\ DOMAIN runs' = DOMAIN runs
      /\ \A k \in DOMAIN runs : k # i => runs'[k] = runs[k]
  BY <1>2, <1>3, <1>5, <1>8, SeqSet
<1>10. /\ events' \in Seq(Events) /\ Len(events') = Len(events) + 1 /\ events'[Len(events) + 1] = new
       /\ Len(events) \in Nat /\ DOMAIN events = 1..Len(events) /\ DOMAIN events' = 1..(Len(events) + 1)
       /\ \A e \in DOMAIN events : events'[e] = events[e]
  BY <1>2, <1>6, <1>8
<1>11. job' \in [Gens -> Maybe(Jobs)] /\ job'[g] = j /\ \A h \in Gens : h # g => job'[h] = job[h]
  BY <1>2, <1>7, <1>8 DEF Maybe
<1> HIDE DEF i
<1>12. ActiveRuns' \subseteq ActiveRuns /\ \A k \in ActiveRuns' : runs'[k].session # None
  <2>1. ActiveRuns' \subseteq ActiveRuns /\ i \notin ActiveRuns'
    BY <1>5, <1>9 DEF ActiveRuns, Active
  <2>2. \A k \in ActiveRuns : runs[k].session # None
    BY DEF IInv, TypeOK
  <2> QED
    BY <1>9, <2>1, <2>2
<1>13. TypeOK'
  <2>1. /\ edits \in 0..MaxFaults /\ faults \in 0..MaxFaults
        /\ engine \in 0..born /\ stopping \in 0..born /\ born \in 0..MaxGen
        /\ (engine # 0 => engine # stopping) /\ switches \in [Gens -> 0..MaxFaults]
    BY DEF IInv, TypeOK
  <2> QED
    BY <2>1, <1>2, <1>9, <1>10, <1>11, <1>12 DEF TypeOK
<1>14. Counted'
  <2>1. With' = With \cup {i}
    BY <1>3, <1>4, <1>5, <1>9, <1>10, NoneIsNone DEF With
  <2>2. edits <= faults /\ (\A h \in Gens : switches[h] <= faults) /\ Len(events) <= faults + Cardinality(With)
    BY DEF IInv, Counted
  <2>3. Cardinality(With) \in Nat /\ faults \in Nat
    BY <1>2, WithFinite, Bounds DEF IInv, TypeOK
  <2>4. Len(events') <= faults + Cardinality(With')
    BY <2>1, <2>2, <2>3, <1>4, <1>10
  <2> QED
    BY <2>2, <2>4 DEF Counted
<1>15. Latest'
  BY <1>5, <1>9 DEF Latest, IInv, Terminal
<1>16. Linked'
  <2>1. \A h \in Gens : trial'[h] # None => trial'[h].run \in DOMAIN runs'
    BY <1>9 DEF IInv, Linked
  <2>2. ASSUME NEW h \in Gens, job'[h] # None
        PROVE  trial'[h] # None /\ job'[h].run \in DOMAIN runs' /\ (job'[h].pc = "stored" => runs'[job'[h].run].status = "PASSED")
    <3>1. CASE h = g
      BY <3>1, <1>3, <1>5, <1>7, <1>9, <1>11
    <3>2. CASE h # g
      <4>1. trial[h] # None /\ job[h].run \in DOMAIN runs /\ (job[h].pc = "stored" => runs[job[h].run].status = "PASSED")
        BY <2>2, <3>2, <1>11 DEF IInv, Linked
      <4>2. job'[h] = job[h]
        BY <3>2, <1>11
      <4> QED
        BY <4>1, <4>2, <1>5, <1>9
    <3> QED
      BY <3>1, <3>2
  <2>3. ASSUME NEW k \in DOMAIN runs', runs'[k].event # None
        PROVE  runs'[k].status = "PASSED" /\ runs'[k].event \in DOMAIN events'
    <3>1. CASE k = i
      BY <3>1, <1>5, <1>9, <1>10
    <3>2. CASE k # i
      <4>1. runs[k].status = "PASSED" /\ runs[k].event \in DOMAIN events /\ runs'[k] = runs[k]
        BY <2>3, <3>2, <1>9 DEF IInv, Linked
      <4> QED
        BY <4>1, <1>10
    <3> QED
      BY <3>1, <3>2
  <2>4. ASSUME NEW e \in DOMAIN events', events'[e].run # 0 PROVE events'[e].run \in DOMAIN runs'
    <3>1. CASE e \in DOMAIN events
      BY <2>4, <3>1, <1>9, <1>10 DEF IInv, Linked
    <3>2. CASE e = Len(events) + 1
      BY <3>2, <1>3, <1>6, <1>9, <1>10
    <3> QED
      BY <3>1, <3>2, <1>10
  <2> QED
    BY <2>1, <2>2, <2>3, <2>4 DEF Linked
<1>17. Judged'
  <2>1. ASSUME NEW h \in Gens, trial'[h] # None
        PROVE  Proper(trial'[h], runs'[trial'[h].run].kind, runs'[trial'[h].run].status)
    <3>1. Proper(trial[h], runs[trial[h].run].kind, runs[trial[h].run].status) /\ trial[h].run \in DOMAIN runs
      BY <2>1 DEF IInv, Judged, Linked
    <3> QED
      BY <3>1, <1>5, <1>9 DEF Proper
  <2> QED
    BY <2>1 DEF IInv, Judged
<1>18. EventsBelong'
  <2>1. ASSUME NEW e \in DOMAIN events', events'[e].run # 0
        PROVE  LET run == runs'[events'[e].run]
               IN run.status = "PASSED" /\ run.event = e /\ run.session = events'[e].session
    <3>1. CASE e \in DOMAIN events
      <4>1. /\ runs[events[e].run].status = "PASSED" /\ runs[events[e].run].event = e
            /\ runs[events[e].run].session = events[e].session /\ events'[e] = events[e] /\ events[e].run \in DOMAIN runs
        BY <2>1, <3>1, <1>10 DEF IInv, EventsBelong, Linked
      <4>2. events[e].run # i
        BY <4>1, <1>1 DEF i
      <4> QED
        BY <4>1, <4>2, <1>9
    <3>2. CASE e = Len(events) + 1
      BY <3>2, <1>1, <1>5, <1>6, <1>9, <1>10 DEF i
    <3> QED
      BY <3>1, <3>2, <1>10
  <2>2. \A k \in DOMAIN runs' : runs'[k].kind = "movement" /\ runs'[k].status = "PASSED" => runs'[k].event # None
    <3>1. n.event # None
      BY <1>5, <1>10, NoneIsNone
    <3>2. \A k \in DOMAIN runs : runs[k].kind = "movement" /\ runs[k].status = "PASSED" => runs[k].event # None
      BY DEF IInv, EventsBelong
    <3>3. ASSUME NEW k \in DOMAIN runs', runs'[k].kind = "movement", runs'[k].status = "PASSED" PROVE runs'[k].event # None
      <4>1. CASE k = i
        BY <3>1, <4>1, <1>9
      <4>2. CASE k # i
        <5>1. k \in DOMAIN runs /\ runs'[k] = runs[k]
          BY <4>2, <3>3, <1>9
        <5> QED
          BY <3>2, <3>3, <5>1
      <4> QED
        BY <4>1, <4>2
    <3> QED
      BY <3>3
  <2> QED
    BY <2>1, <2>2 DEF EventsBelong
<1>19. RunsMove
  <2>1. runs'[i].kind = runs[i].kind /\ runs'[i].back = runs[i].back /\ ~Terminal(runs[i].status)
    BY <1>1, <1>5, <1>9 DEF Terminal, i
  <2>2. Len(runs') \in Len(runs)..MaxRuns
    BY <1>2, <1>9, Bounds
  <2> QED
    BY <2>1, <2>2, <1>9 DEF RunsMove
<1>20. CallsFair /\ Advanced
  BY <1>2 DEF CallsFair, Advanced
<1>21. Grown
  BY <1>9, Bounds DEF Grown, IInv, TypeOK
<1>22. Settled
  BY DEF Settled, Witness
<1>23. Shaped' /\ Notified' /\ Viewed'
  BY <1>19, <1>20, <1>21, <1>22, CallsShaped, CallsNotified, CallsViewed DEF IInv
<1>24. Fresh'
  <2>1. EngineFair /\ TrialsArmed
    BY DEF EngineFair, TrialsArmed
  <2> QED
    BY <2>1, <1>13, <1>16, <1>20, <1>23, FreshKept DEF IInv
<1>25. Owned'
  BY <1>12, OwnedKept DEF IInv, Told
<1>26. Outcome
  <2>1. FatesMove
    BY <1>10 DEF FatesMove
  <2>2. \A k \in DOMAIN runs : Earns(k)
    BY <1>1, <1>9 DEF Earns, i
  <2> QED
    BY <2>1, <2>2, <1>19 DEF Outcome, TrialsMove
<1> QED
  BY <1>13, <1>14, <1>15, <1>16, <1>17, <1>18, <1>23, <1>24, <1>25, <1>26 DEF IInv

LEMMA CommitKeeps ==
    ASSUME IInv, NEW g \in Gens, Commit(g)
    PROVE  IInv' /\ Outcome
<1>1. job[g] # None /\ UNCHANGED <<edits, engine, stopping, born, switches, told, call, faults>>
  BY DEF Commit, camera
<1>2. CASE Commits(job[g])
  <2>1. /\ events' = Append(events, [run |-> job[g].run, session |-> job[g].session, fate |-> "stored"])
        /\ runs' = [runs EXCEPT ![job[g].run] = [@ EXCEPT !.status = "PASSED", !.event = Len(events) + 1]]
        /\ job' = [job EXCEPT ![g] = [@ EXCEPT !.pc = "stored"]]
        /\ UNCHANGED trial
    BY <1>2 DEF Commit
  <2> QED
    BY <1>1, <1>2, <2>1, StoredKeeps
<1>3. CASE ~Commits(job[g])
  BY <1>1, <1>3, WithdrawKeeps DEF Commit
<1> QED
  BY <1>2, <1>3

-----------------------------------------------------------------------------
(* The suite and its environment.                                          *)

LEMMA RowsFinite ==
    ASSUME IInv
    PROVE  Count \in 0..(MaxFaults + MaxRuns) /\ Len(events) \in 0..(MaxFaults + MaxRuns)
<1>1. runs \in Seq(Runs) /\ Len(runs) <= MaxRuns /\ events \in Seq(Events) /\ faults \in 0..MaxFaults
  BY DEF IInv, TypeOK
<1>2. Len(events) <= faults + Cardinality(With) /\ Cardinality(With) \in Nat /\ Cardinality(With) <= Len(runs)
  BY <1>1, WithFinite DEF IInv, Counted
<1>3. Len(events) \in 0..(MaxFaults + MaxRuns) /\ Len(events) \in Nat
  BY <1>1, <1>2, Bounds
<1>4. Rows \subseteq 1..Len(events)
  BY <1>1 DEF Rows
<1>5. IsFiniteSet(1..Len(events)) /\ Cardinality(1..Len(events)) = Len(events)
  BY <1>3, UpTo
<1>6. IsFiniteSet(Rows) /\ Cardinality(Rows) <= Len(events)
  BY <1>4, <1>5, FS_Subset
<1>7. Cardinality(Rows) \in Nat
  BY <1>6, FS_CardinalityType
<1> QED
  BY <1>3, <1>6, <1>7, Bounds DEF Count

LEMMA CreateKeeps ==
    ASSUME IInv, NEW kind \in Kinds, Create(kind)
    PROVE  IInv' /\ Outcome
<1> DEFINE n == [kind |-> kind, status |-> "CREATED", session |-> None, executed |-> FALSE, event |-> None,
                 before |-> Count, cut |-> None, back |-> None]
<1>1. /\ Len(runs) < MaxRuns /\ (\A i \in DOMAIN runs : Terminal(runs[i].status)) /\ runs' = Append(runs, n)
      /\ UNCHANGED <<events, edits, engine, stopping, born, switches, trial, job, told, call, faults>>
  BY DEF Create, camera
<1>2. n \in Runs /\ n.status = "CREATED" /\ n.event = None
  BY RowsFinite DEF Runs, Statuses, Maybe
<1> HIDE DEF n
<1>3. /\ runs \in Seq(Runs) /\ Len(runs) <= MaxRuns /\ events \in Seq(Events)
      /\ trial \in [Gens -> Maybe(Trials)] /\ job \in [Gens -> Maybe(Jobs)] /\ call \in [Threads -> Calls]
  BY DEF IInv, TypeOK
<1>4. /\ runs' \in Seq(Runs) /\ Len(runs') = Len(runs) + 1 /\ runs'[Len(runs) + 1] = n /\ Len(runs) \in Nat
      /\ DOMAIN runs = 1..Len(runs) /\ DOMAIN runs' = 1..(Len(runs) + 1)
      /\ \A i \in DOMAIN runs : runs'[i] = runs[i]
  BY <1>1, <1>2, <1>3
<1>5. \A i \in DOMAIN runs' : i = Len(runs) + 1 \/ (i \in DOMAIN runs /\ runs'[i] = runs[i])
  BY <1>4
<1>6. ActiveRuns' = {}
  BY <1>1, <1>2, <1>4, <1>5 DEF ActiveRuns, Active, Terminal
<1>7. TypeOK'
  <2>1. /\ edits \in 0..MaxFaults /\ faults \in 0..MaxFaults
        /\ engine \in 0..born /\ stopping \in 0..born /\ born \in 0..MaxGen /\ told \subseteq Gens
        /\ (engine # 0 => engine # stopping) /\ switches \in [Gens -> 0..MaxFaults]
    BY DEF IInv, TypeOK
  <2>2. Len(runs') <= MaxRuns
    BY <1>1, <1>4, Bounds
  <2> QED
    BY <2>1, <2>2, <1>1, <1>3, <1>4, <1>6 DEF TypeOK
<1>8. Counted'
  <2>1. With' = With
    BY <1>2, <1>4, <1>5 DEF With
  <2> QED
    BY <2>1, <1>1 DEF IInv, Counted
<1>9. Latest'
  BY <1>1, <1>4, <1>5 DEF Latest
<1>10. Linked'
  <2>1. /\ \A g \in Gens : trial[g] # None => trial[g].run \in DOMAIN runs
        /\ \A e \in DOMAIN events : events[e].run # 0 => events[e].run \in DOMAIN runs
    BY DEF IInv, Linked
  <2>2. \A g \in Gens : job[g] # None => /\ trial[g] # None /\ job[g].run \in DOMAIN runs
                                         /\ job[g].pc = "stored" => runs[job[g].run].status = "PASSED"
    BY DEF IInv, Linked
  <2>3. \A i \in DOMAIN runs : runs[i].event # None => runs[i].status = "PASSED" /\ runs[i].event \in DOMAIN events
    BY DEF IInv, Linked
  <2>4. DOMAIN runs \subseteq DOMAIN runs'
    BY <1>4
  <2>5. \A i \in DOMAIN runs' : runs'[i].event # None => runs'[i].status = "PASSED" /\ runs'[i].event \in DOMAIN events'
    BY <2>3, <1>1, <1>2, <1>4, <1>5
  <2>6. /\ \A g \in Gens : trial'[g] # None => trial'[g].run \in DOMAIN runs'
        /\ \A e \in DOMAIN events' : events'[e].run # 0 => events'[e].run \in DOMAIN runs'
    BY <2>1, <2>4, <1>1
  <2>7. \A g \in Gens : job'[g] # None => /\ trial'[g] # None /\ job'[g].run \in DOMAIN runs'
                                          /\ job'[g].pc = "stored" => runs'[job'[g].run].status = "PASSED"
    BY <2>2, <2>4, <1>1, <1>4
  <2> QED
    BY <2>5, <2>6, <2>7 DEF Linked
<1>11. Judged'
  <2>1. ASSUME NEW g \in Gens, trial'[g] # None
        PROVE  Proper(trial'[g], runs'[trial'[g].run].kind, runs'[trial'[g].run].status)
    <3>1. trial'[g] = trial[g] /\ trial[g].run \in DOMAIN runs /\ Proper(trial[g], runs[trial[g].run].kind, runs[trial[g].run].status)
      BY <2>1, <1>1 DEF IInv, Linked, Judged
    <3> QED
      BY <3>1, <1>4
  <2> QED
    BY <2>1, <1>1 DEF IInv, Judged
<1>12. EventsBelong'
  <2>1. ASSUME NEW e \in DOMAIN events', events'[e].run # 0
        PROVE  LET run == runs'[events'[e].run]
               IN run.status = "PASSED" /\ run.event = e /\ run.session = events'[e].session
    <3>1. /\ runs[events[e].run].status = "PASSED" /\ runs[events[e].run].event = e
          /\ runs[events[e].run].session = events[e].session /\ events[e].run \in DOMAIN runs
      BY <2>1, <1>1 DEF IInv, EventsBelong, Linked
    <3> QED
      BY <3>1, <1>1, <1>4
  <2>2. \A i \in DOMAIN runs : runs[i].kind = "movement" /\ runs[i].status = "PASSED" => runs[i].event # None
    BY DEF IInv, EventsBelong
  <2>3. \A i \in DOMAIN runs' : runs'[i].kind = "movement" /\ runs'[i].status = "PASSED" => runs'[i].event # None
    BY <2>2, <1>2, <1>4, <1>5
  <2> QED
    BY <2>1, <2>3 DEF EventsBelong
<1>13. RunsMove
  <2>1. Len(runs') \in Len(runs)..MaxRuns
    BY <1>1, <1>4, Bounds
  <2> QED
    BY <2>1, <1>4 DEF RunsMove
<1>14. CallsFair /\ Advanced
  BY <1>1, <1>3 DEF CallsFair, Advanced
<1>15. Grown
  BY <1>1, <1>4, Bounds DEF Grown, IInv, TypeOK
<1>16. Settled
  BY <1>1 DEF Settled, Witness
<1>17. Shaped' /\ Notified' /\ Viewed'
  BY <1>13, <1>14, <1>15, <1>16, CallsShaped, CallsNotified, CallsViewed DEF IInv
<1>18. Fresh'
  <2>1. EngineFair /\ TrialsArmed
    BY <1>1 DEF EngineFair, TrialsArmed
  <2> QED
    BY <2>1, <1>7, <1>10, <1>14, <1>17, FreshKept DEF IInv
<1>19. Owned'
  BY <1>6 DEF Owned
<1>20. Outcome
  <2>1. FatesMove
    BY <1>1 DEF FatesMove
  <2>2. \A i \in DOMAIN runs : Earns(i)
    BY <1>4 DEF Earns
  <2> QED
    BY <2>1, <2>2, <1>1, <1>13 DEF Outcome, TrialsMove
<1> QED
  BY <1>7, <1>8, <1>9, <1>10, <1>11, <1>12, <1>17, <1>18, <1>19, <1>20 DEF IInv

\* Only the events change, or how often the configuration has been edited.
LEMMA EventsKeep ==
    ASSUME IInv, EventsFair, FatesMove, CountsFair,
           UNCHANGED <<runs, engine, stopping, born, switches, trial, job, told, call>>
    PROVE  IInv' /\ Outcome
<1>1. RunsQuiet /\ TrialsQuiet
  BY RunsSame, TrialsSame DEF IInv, TypeOK
<1>2. JobsFair /\ CameraFair /\ EngineFair
  BY SameJobs, SameCamera DEF IInv
<1>3. OneMoves
  BY DEF OneMoves
<1> QED
  BY <1>1, <1>2, <1>3, CalmStep

\* One more fault, and no more session switches.
LEMMA OneFault ==
    ASSUME IInv, Fault, switches' = switches, edits' \in {edits, edits + 1}
    PROVE  CountsFair
<1>1. /\ faults \in Nat /\ faults' = faults + 1 /\ faults' \in faults..MaxFaults
      /\ edits \in 0..faults /\ edits \in Nat
      /\ switches \in [Gens -> 0..MaxFaults] /\ \A h \in Gens : switches[h] \in Nat /\ switches[h] <= faults
  BY Faulted
<1>2. \A h \in Gens : switches'[h] <= faults'
  BY <1>1
<1>3. edits' \in 0..faults'
  BY <1>1
<1> QED
  BY <1>1, <1>2, <1>3 DEF CountsFair

LEMMA OtherEventKeeps ==
    ASSUME IInv, OtherEvent
    PROVE  IInv' /\ Outcome
<1> DEFINE new == [run |-> 0, session |-> None, fate |-> "stored"]
<1>1. /\ Fault /\ events' = Append(events, new)
      /\ UNCHANGED <<runs, edits, engine, stopping, born, switches, trial, job, told, call>>
  BY DEF OtherEvent, camera
<1>2. new \in Events /\ new.run = 0
  BY DEF Events, Maybe, Fates
<1> HIDE DEF new
<1>3. faults \in Nat /\ faults' = faults + 1 /\ events \in Seq(Events)
  BY <1>1, Faulted DEF IInv, TypeOK
<1>4. /\ events' \in Seq(Events) /\ Len(events') = Len(events) + 1 /\ events'[Len(events) + 1] = new
      /\ Len(events) \in Nat /\ DOMAIN events = 1..Len(events) /\ DOMAIN events' = 1..(Len(events) + 1)
      /\ \A e \in DOMAIN events : events'[e] = events[e]
  BY <1>1, <1>2, <1>3
<1>5. Len(events') \in Len(events)..(Len(events) + (faults' - faults))
  BY <1>3, <1>4
<1>6. \A e \in DOMAIN events' : e \in DOMAIN events \/ events'[e].run = 0
  BY <1>2, <1>4
<1>7. EventsFair /\ FatesMove
  BY <1>4, <1>5, <1>6 DEF EventsFair, FatesMove
<1>8. CountsFair
  BY <1>1, OneFault
<1> QED
  BY <1>1, <1>7, <1>8, EventsKeep

LEMMA EditCameraKeeps ==
    ASSUME IInv, EditCamera
    PROVE  IInv' /\ Outcome
<1>1. /\ Fault /\ edits' = edits + 1
      /\ UNCHANGED <<runs, events, engine, stopping, born, switches, trial, job, told, call>>
  BY DEF EditCamera, camera
<1>2. CountsFair
  BY <1>1, OneFault
<1>3. EventsFair /\ FatesMove
  <2>1. Len(events) \in Nat /\ faults \in Nat /\ faults' = faults + 1 /\ events \in Seq(Events)
    BY <1>1, Faulted DEF IInv, TypeOK
  <2>2. Len(events) \in Len(events)..(Len(events) + (faults' - faults))
    BY <2>1
  <2> QED
    BY <1>1, <2>1, <2>2 DEF EventsFair, FatesMove
<1> QED
  BY <1>1, <1>2, <1>3, EventsKeep

\* Evidence that was lost before it was checked stays lost.
LEMMA TurnsKeep ==
    ASSUME IInv, NEW e \in DOMAIN events, NEW fate \in Fates, Turns(e, fate),
           events[e].fate \in {"damaged", "gone"} => fate \in {"damaged", "gone"}
    PROVE  IInv' /\ Outcome
<1> DEFINE n == [events[e] EXCEPT !.fate = fate]
<1>1. /\ events' = [events EXCEPT ![e] = n]
      /\ UNCHANGED <<runs, edits, engine, stopping, born, switches, trial, job, told, call, faults>>
  BY DEF Turns, camera
<1>2. events \in Seq(Events) /\ faults \in Nat /\ Len(events) \in Nat
  BY Bounds DEF IInv, TypeOK
<1>3. n \in Events /\ n.fate = fate /\ n.run = events[e].run /\ n.session = events[e].session
  <2>1. events[e] \in Events
    BY <1>2
  <2> QED
    BY <2>1 DEF Events
<1> HIDE DEF n
<1>4. /\ events' \in Seq(Events) /\ Len(events') = Len(events) /\ DOMAIN events' = DOMAIN events
      /\ events'[e] = n /\ \A d \in DOMAIN events : d # e => events'[d] = events[d]
  BY <1>1, <1>2, <1>3, SeqSet
<1>5. \A d \in DOMAIN events : /\ events'[d].run = events[d].run /\ events'[d].session = events[d].session
                               /\ events[d].fate \in {"damaged", "gone"} => events'[d].fate \in {"damaged", "gone"}
  BY <1>3, <1>4
<1>6. Len(events') \in Len(events)..(Len(events) + (faults' - faults))
  BY <1>1, <1>2, <1>4
<1>7. EventsFair /\ FatesMove
  BY <1>4, <1>5, <1>6 DEF EventsFair, FatesMove
<1>8. CountsFair
  BY <1>1, StillCounts DEF Still, IInv
<1> QED
  BY <1>1, <1>7, <1>8, EventsKeep

LEMMA FateKeeps ==
    ASSUME IInv, NEW e, Damage(e) \/ Tombstone(e) \/ DeleteEvent(e) \/ Finalize(e)
    PROVE  IInv' /\ Outcome
<1>1. CASE Damage(e)
  BY <1>1, TurnsKeep DEF Damage, Rows, Fates
<1>2. CASE Tombstone(e)
  BY <1>2, TurnsKeep DEF Tombstone, Verified, Rows, Fates
<1>3. CASE DeleteEvent(e)
  <2> DEFINE fate == IF events[e].fate = "doomed" THEN "swept" ELSE "gone"
  <2>1. /\ e \in DOMAIN events /\ Turns(e, fate) /\ fate \in Fates
        /\ events[e].fate \in {"damaged", "gone"} => fate \in {"damaged", "gone"}
    BY <1>3 DEF DeleteEvent, Rows, Fates
  <2> QED
    BY <2>1, TurnsKeep
<1>4. CASE Finalize(e)
  BY <1>4, TurnsKeep DEF Finalize, Fates
<1> QED
  BY <1>1, <1>2, <1>3, <1>4

LEMMA CrashKeeps ==
    ASSUME IInv, Crash
    PROVE  IInv' /\ Outcome
<1>1. /\ Fault
      /\ runs' = [i \in DOMAIN runs |-> IF Active(i) THEN [runs[i] EXCEPT !.status = "CAMERA_INTERRUPTED"] ELSE runs[i]]
      /\ engine' = 0 /\ stopping' = 0 /\ told' = {}
      /\ trial' = [g \in Gens |-> None] /\ job' = [g \in Gens |-> None]
      /\ call' = [t \in Threads |-> Idle]
      /\ UNCHANGED <<events, edits, born, switches>>
  BY DEF Crash
<1>2. /\ runs \in Seq(Runs) /\ Len(runs) \in Nat /\ DOMAIN runs = 1..Len(runs) /\ events \in Seq(Events)
      /\ Len(events) \in Nat /\ born \in 0..MaxGen /\ born \in Nat
  BY Bounds DEF IInv, TypeOK
<1>3. /\ faults \in Nat /\ faults' = faults + 1
  BY <1>1, Faulted
<1>4. ASSUME NEW i \in DOMAIN runs PROVE runs'[i] \in Runs /\ (runs'[i] = runs[i] \/ RowQuiet(runs[i], runs'[i])) /\ runs'[i].status # "ACTIVE"
  <2> DEFINE n == [runs[i] EXCEPT !.status = "CAMERA_INTERRUPTED"]
  <2>1. runs'[i] = IF Active(i) THEN n ELSE runs[i]
    BY <1>1
  <2>2. runs[i] \in Runs /\ "CAMERA_INTERRUPTED" \in Statuses
    BY <1>2 DEF Statuses
  <2>3. /\ n \in Runs /\ n.status = "CAMERA_INTERRUPTED" /\ n.kind = runs[i].kind /\ n.event = runs[i].event
        /\ n.back = runs[i].back
    BY <2>2, StatusRow
  <2> HIDE DEF n
  <2>4. CASE Active(i)
    BY <2>1, <2>3, <2>4 DEF RowQuiet, Active, Terminal
  <2>5. CASE ~Active(i)
    BY <2>1, <2>2, <2>5 DEF Active
  <2> QED
    BY <2>4, <2>5
<1>5. runs' \in Seq(Runs) /\ Len(runs') = Len(runs) /\ DOMAIN runs' = DOMAIN runs
  <2>1. DOMAIN runs' = 1..Len(runs)
    BY <1>1, <1>2
  <2>2. runs' = [i \in 1..Len(runs) |-> runs'[i]]
    BY <1>1, <1>2
  <2>3. runs' \in [1..Len(runs) -> Runs]
    BY <2>2, <1>2, <1>4
  <2>4. runs' \in Seq(Runs)
    BY <2>3, <1>2
  <2>5. DOMAIN runs' = 1..Len(runs') /\ Len(runs') \in Nat
    BY <2>4
  <2>6. Len(runs') = Len(runs)
    BY <2>1, <2>5, <1>2
  <2> QED
    BY <2>1, <2>4, <2>6, <1>2
<1>6. RunsQuiet
  BY <1>4, <1>5 DEF RunsQuiet
<1>7. RunsFair /\ \A i \in DOMAIN runs : Earns(i)
  BY <1>6, QuietEarns
<1>8. ActiveRuns' = {}
  BY <1>4, <1>5 DEF ActiveRuns, Active
<1>9. EventsFair /\ FatesMove
  <2>1. Len(events) \in Len(events)..(Len(events) + (faults' - faults))
    BY <1>2, <1>3
  <2> QED
    BY <1>1, <1>2, <2>1 DEF EventsFair, FatesMove
<1>10. \A g \in Gens : trial'[g] = None /\ job'[g] = None
  BY <1>1
<1>11. TrialsFair /\ JobsFair /\ ToldFair
  BY <1>1, <1>10 DEF TrialsFair, JobsFair, ToldFair, Maybe
<1>12. CameraFair /\ EngineFair
  BY <1>1, <1>2, Bounds DEF CameraFair, EngineFair
<1>13. CountsFair
  BY <1>1, OneFault
<1>14. World
  BY <1>7, <1>9, <1>11, <1>12, <1>13 DEF World
<1>15. \A t \in Threads : call'[t] = Idle
  BY <1>1
<1>16. Idle \in Calls /\ Idle.pc = "idle" /\ Idle.op = None /\ Idle.view = None
  BY IdleIsCall
<1>17. None \notin {"notify", "track"}
  BY NoneIsNone
<1>18. Fits(Idle, DOMAIN runs', born')
  BY <1>16 DEF Fits, OpsAt, Syncing, Bound, Verbs, Maybe
<1>19. CallsFair
  <2>1. \A t \in Threads : CallNew(t)
    BY <1>15, <1>16, <1>17, <1>18 DEF CallNew, Ready
  <2>2. call' \in [Threads -> Calls]
    BY <1>1, <1>16
  <2> QED
    BY <2>1, <2>2 DEF CallsFair
<1>20. Advanced
  BY <1>15, <1>16, Kinded DEF Advanced, Advances, Older, Waiting, Bound
<1>21. Settled
  <2>1. \A g \in Gens : ~(call[g].op = "notify" /\ call'[g] = call[g])
    BY <1>15, <1>16, <1>17, Kinded
  <2> QED
    BY <2>1, <1>15, <1>16 DEF Settled
<1>22. TrialsArmed
  BY <1>10 DEF TrialsArmed
<1>23. Owned'
  BY <1>8 DEF Owned
<1>24. Outcome
  BY <1>6, <1>7, <1>9, <1>10, QuietMoves DEF Outcome, TrialsMove, IInv
<1> QED
  BY <1>12, <1>14, <1>19, <1>20, <1>21, <1>22, <1>23, <1>24, FairStep

-----------------------------------------------------------------------------
(* The invariant, and what a step may do.                                  *)

LEMMA InitHolds == ASSUME Init PROVE IInv
<1>1. /\ runs = <<>> /\ events = <<>> /\ edits = 0 /\ engine = 0 /\ stopping = 0 /\ born = 0 /\ told = {} /\ faults = 0
      /\ switches = [g \in Gens |-> 0] /\ trial = [g \in Gens |-> None] /\ job = [g \in Gens |-> None]
      /\ call = [t \in Threads |-> Idle]
  BY DEF Init
<1>2. /\ DOMAIN runs = {} /\ Len(runs) = 0 /\ runs \in Seq(Runs)
      /\ DOMAIN events = {} /\ Len(events) = 0 /\ events \in Seq(Events)
  BY <1>1
<1>3. \A g \in Gens : switches[g] = 0 /\ trial[g] = None /\ job[g] = None
  BY <1>1
<1>4. \A t \in Threads : call[t] = Idle
  BY <1>1
<1>5. Idle \in Calls /\ Idle.pc = "idle" /\ Idle.op = None /\ Idle.view = None
  BY IdleIsCall
<1>6. ActiveRuns = {} /\ With = {}
  BY <1>2 DEF ActiveRuns, With
<1>7. TypeOK
  <2>1. switches \in [Gens -> 0..MaxFaults] /\ trial \in [Gens -> Maybe(Trials)] /\ job \in [Gens -> Maybe(Jobs)]
    BY <1>1, Bounds DEF Maybe
  <2>2. call \in [Threads -> Calls]
    BY <1>1, <1>5
  <2> QED
    BY <2>1, <2>2, <1>1, <1>2, <1>6, Bounds DEF TypeOK
<1>8. Counted
  BY <1>1, <1>2, <1>3, <1>6, FS_EmptySet DEF Counted
<1>9. Latest /\ Linked /\ Judged /\ EventsBelong
  BY <1>2, <1>3 DEF Latest, Linked, Judged, EventsBelong
<1>10. None \notin {"notify", "track"}
  BY NoneIsNone
<1>11. Fits(Idle, DOMAIN runs, born)
  BY <1>5 DEF Fits, OpsAt, Syncing, Bound, Verbs, Maybe
<1>12. Shaped
  BY <1>4, <1>5, <1>10, <1>11, Kinded DEF Shaped
<1>13. Notified
  BY <1>4, <1>5, <1>10, Kinded DEF Notified
<1>14. Viewed
  BY <1>4, <1>5 DEF Viewed, Seen, Ready
<1>15. Fresh
  BY <1>4, <1>5, Kinded DEF Fresh, Older
<1>16. Owned
  BY <1>6 DEF Owned
<1> QED
  BY <1>7, <1>8, <1>9, <1>12, <1>13, <1>14, <1>15, <1>16 DEF IInv

LEMMA ServeKeeps ==
    ASSUME IInv, NEW t \in Requests, Serve(t)
    PROVE  IInv' /\ Outcome
<1>1. ASSUME NEW starts \in BOOLEAN, Launch(t, starts) PROVE IInv' /\ Outcome
  BY <1>1, LaunchKeeps
<1>2. ASSUME NEW ready \in BOOLEAN, Preflight(t, ready) PROVE IInv' /\ Outcome
  BY <1>2, PreflightKeeps
<1>3. CASE Begin(t) \/ CallOff(t) \/ Detach(t) \/ Look(t) \/ Mark(t) \/ Join(t) \/ JoinRaises(t)
  BY <1>3, BeginKeeps, CallOffKeeps, DetachKeeps, LookKeeps, MarkKeeps, JoinKeeps, JoinRaisesKeeps
<1>4. CASE Activate(t) \/ Rebind(t) \/ Lookup(t) \/ CheckArm(t) \/ Arm(t)
  BY <1>4, ActivateKeeps, RebindKeeps, LookupKeeps, CheckArmKeeps, ArmKeeps
<1> QED
  BY <1>1, <1>2, <1>3, <1>4 DEF Serve

LEMMA WatchKeeps ==
    ASSUME IInv, NEW g \in Gens, Watch(g)
    PROVE  IInv' /\ Outcome
<1>1. ASSUME NEW seen \in BOOLEAN, NEW stable \in BOOLEAN, See(g, seen, stable) PROVE IInv' /\ Outcome
  BY <1>1, SeeKeeps
<1>2. CASE Confirm(g) \/ Complete(g) \/ GiveUp(g) \/ SwitchSession(g)
  BY <1>2, ConfirmKeeps, CompleteKeeps, GiveUpKeeps, SwitchSessionKeeps
<1>3. CASE Notify(g) \/ Track(g) \/ Submit(g)
  BY <1>3, NotifyKeeps, TrackKeeps, SubmitKeeps
<1> QED
  BY <1>1, <1>2, <1>3 DEF Watch

LEMMA NextKeeps ==
    ASSUME IInv, Next
    PROVE  IInv' /\ Outcome
<1>1. ASSUME NEW kind \in Kinds, Create(kind) PROVE IInv' /\ Outcome
  BY <1>1, CreateKeeps
<1>2. CASE OtherEvent \/ EditCamera \/ Crash
  BY <1>2, OtherEventKeeps, EditCameraKeeps, CrashKeeps
<1>3. ASSUME NEW e \in EventIds, Damage(e) \/ Tombstone(e) \/ DeleteEvent(e) \/ Finalize(e) PROVE IInv' /\ Outcome
  BY <1>3, FateKeeps
<1>4. ASSUME NEW t \in Requests, Serve(t) PROVE IInv' /\ Outcome
  BY <1>4, ServeKeeps
<1>5. ASSUME NEW t \in Requests, NEW op \in OpsOf[t], NEW i \in 0..MaxRuns, Call(t, op, i) PROVE IInv' /\ Outcome
  BY <1>5, CallKeeps
<1>6. ASSUME NEW t \in Threads, Sync(t) PROVE IInv' /\ Outcome
  BY <1>6, IdentifyKeeps, ApplyKeeps, PassKeeps DEF Sync
<1>7. ASSUME NEW g \in Gens, Watch(g) PROVE IInv' /\ Outcome
  BY <1>7, WatchKeeps
<1>8. ASSUME NEW g \in Gens, Record(g) PROVE IInv' /\ Outcome
  BY <1>8, ValidateKeeps, RefuseKeeps, CommitKeeps, MediaFailsKeeps, MediaDoneKeeps DEF Record
<1> QED
  BY <1>1, <1>2, <1>3, <1>4, <1>5, <1>6, <1>7, <1>8 DEF Next

LEMMA StutterKeeps ==
    ASSUME IInv, UNCHANGED vars
    PROVE  IInv'
<1>1. UNCHANGED <<runs, events, edits, engine, stopping, born, switches, trial, job, told, call, faults>>
  BY DEF vars
<1>2. TrialsQuiet
  BY <1>1, TrialsSame DEF IInv, TypeOK
<1> QED
  BY <1>1, <1>2, TrialsKeep

\* The suite reports its runs, events and trials, and the owner of a run, from
\* the parts of the invariant.
LEMMA SoundHere == ASSUME IInv PROVE SuiteSound
<1>1. EngineAgrees
  BY DEF IInv, Judged, Proper, EngineAgrees
<1> QED
  BY <1>1 DEF IInv, SuiteSound

LEMMA OwnedHere == ASSUME IInv PROVE RunOwned
<1> SUFFICES ASSUME NEW i \in ActiveRuns
             PROVE  \/ \E t \in Requests :
                          \/ call[t].run = i /\ call[t].pc \in
                                {"callOff", "detach", "look", "join", "launch", "preflight", "rebind", "lookup", "arm",
                                 "install", "raised"}
                          \/ call[t].pc = "look" \/ (call[t].pc = "mark" /\ i \in {call[t].victim, call[t].run})
                    \/ /\ engine # 0 /\ trial[engine] # None /\ trial[engine].run = i
                       /\ Open(trial[engine]) \/ engine \notin told
  BY DEF RunOwned
<1>1. ASSUME NEW t \in Requests, Owns(call[t], i)
      PROVE  \/ call[t].run = i /\ call[t].pc \in
                   {"callOff", "detach", "look", "join", "launch", "preflight", "rebind", "lookup", "arm",
                                 "install", "raised"}
             \/ call[t].pc = "look" \/ (call[t].pc = "mark" /\ i \in {call[t].victim, call[t].run})
  BY <1>1 DEF Owns
<1>2. ASSUME Told(i)
      PROVE  engine # 0 /\ trial[engine] # None /\ trial[engine].run = i /\ engine \notin told
  BY <1>2 DEF Told
<1>3. (\E t \in Requests : Owns(call[t], i)) \/ Told(i)
  BY DEF IInv, Owned
<1> QED
  BY <1>1, <1>2, <1>3

\* A run of which the evidence was lost never counts again.
LEMMA NoExcuseStep ==
    ASSUME IInv, Outcome, NEW i \in DOMAIN runs, Forfeited(i)
    PROVE  Forfeited(i)' /\ ~Eligible(i)'
<1>1. /\ runs[i].event # None /\ events[runs[i].event].fate \in {"damaged", "gone"}
      /\ runs[i].status = "PASSED" /\ runs[i].event \in DOMAIN events
  BY DEF Forfeited, IInv, Linked
<1>2. runs'[i] = runs[i]
  BY <1>1 DEF Outcome, RunsMove, Terminal
<1>3. events'[runs[i].event].fate \in {"damaged", "gone"}
  BY <1>1 DEF Outcome, FatesMove
<1>4. Forfeited(i)'
  BY <1>1, <1>2, <1>3 DEF Forfeited
<1>5. ~Verified(i, runs[i].event)' /\ ~Receipted(i, runs[i].event)'
  BY <1>2, <1>3 DEF Verified, Receipted
<1>6. ~Eligible(i)'
  BY <1>1, <1>2, <1>5 DEF Eligible
<1> QED
  BY <1>4, <1>6

\* If the runs stay, and what became of their events, so does who counts.
LEMMA EligibleStays ==
    ASSUME IInv, Outcome, runs' = runs, \A e \in DOMAIN events : events'[e].fate = events[e].fate,
           NEW i \in DOMAIN runs
    PROVE  Eligible(i)' <=> Eligible(i)
<1> DEFINE e == runs[i].event
<1>1. CASE runs[i].status = "PASSED" /\ e # None
  <2>1. e \in DOMAIN events
    BY <1>1 DEF IInv, Linked
  <2>2. events'[e].fate = events[e].fate /\ events'[e].run = events[e].run /\ events'[e].session = events[e].session
    BY <2>1 DEF Outcome, FatesMove
  <2>3. /\ Verified(i, runs[i].event)' <=> Verified(i, runs[i].event)
        /\ Receipted(i, runs[i].event)' <=> Receipted(i, runs[i].event)
    BY <2>2 DEF Verified, Receipted
  <2> QED
    BY <2>3 DEF Eligible
<1>2. CASE runs[i].status # "PASSED"
  BY <1>2 DEF Eligible
<1>3. CASE e = None
  BY <1>3 DEF Eligible, Verified, Receipted
<1> QED
  BY <1>1, <1>2, <1>3

\* What a suite makes of its runs changes only with their evidence.
LEMMA VerdictStep ==
    ASSUME IInv, Outcome, ContractComplete, \A e \in DOMAIN events : events'[e].fate = events[e].fate
    PROVE  Verdict' = Verdict
<1>1. runs \in Seq(Runs) /\ Len(runs) = MaxRuns /\ \A i \in DOMAIN runs : Terminal(runs[i].status)
  BY DEF IInv, TypeOK, ContractComplete
<1>2. runs' \in Seq(Runs) /\ Len(runs') = Len(runs) /\ \A i \in DOMAIN runs : runs'[i] = runs[i]
  <2>1. runs' \in Seq(Runs) /\ Len(runs') \in Len(runs)..MaxRuns /\ \A i \in DOMAIN runs : runs'[i] = runs[i]
    BY <1>1 DEF Outcome, RunsMove
  <2> QED
    BY <2>1, <1>1, Bounds
<1>3. runs' = runs
  BY <1>1, <1>2
<1>4. \A i \in DOMAIN runs : Eligible(i)' <=> Eligible(i)
  BY <1>3, EligibleStays
<1>5. Failing' = Failing
  BY <1>3, <1>4 DEF Failing
<1>6. ContractComplete'
  BY <1>3 DEF ContractComplete
<1> QED
  BY <1>3, <1>5, <1>6 DEF Verdict

\* A trial moves as TrialContract lets it.
LEMMA LawfulStep ==
    ASSUME IInv, Outcome, NEW g \in Gens, trial[g] # None, trial'[g] # None, trial'[g].run = trial[g].run
    PROVE  Trial(g)!Next \/ (trial'[g].state = trial[g].state /\ runs'[trial[g].run].kind = runs[trial[g].run].kind)
<1> DEFINE i == trial[g].run
<1>1. i \in DOMAIN runs /\ trial \in [Gens -> Maybe(Trials)] /\ runs \in Seq(Runs)
  BY DEF IInv, TypeOK, Linked
<1>2. runs'[i].kind = runs[i].kind
  BY <1>1 DEF Outcome, RunsMove
<1>3. runs[i] \in Runs /\ trial[g] \in Trials
  BY <1>1 DEF Maybe
<1>4. runs[i].kind \in {"movement", "stationary", "minor_adjustment", "occlusion", "disconnect_reconnect"}
  BY <1>3, KindsAssumption DEF Runs
<1>5. CASE trial'[g] = trial[g]
  BY <1>2, <1>5
<1>6. CASE TrialStep(g)
  <2>1. /\ trial[g].state \in {"armed", "confirmed"}
        /\ trial'[g].state \in {"armed", "confirmed", "emitted", "completed", "over"}
        /\ Follows(trial[g].state, trial'[g].state)
        /\ Proper(trial[g], runs[i].kind, runs[i].status) /\ Proper(trial'[g], runs[i].kind, runs[i].status)
    BY <1>6, TrialParts DEF TrialStep, Open, IInv, Judged
  <2>2. Trial(g)!Becomes(trial[g].state, trial'[g].state)
    BY <1>2, <1>6 DEF Trial!Becomes, TrialStep
  <2>3. CASE trial'[g].state = trial[g].state
    BY <1>2, <2>3
  <2>4. CASE trial'[g].state = "confirmed" /\ trial[g].state = "armed"
    <3>1. Trial(g)!Confirm
      BY <2>1, <2>2, <2>4 DEF Trial!Confirm, Proper
    <3> QED
      BY <3>1 DEF Trial!Next
  <2>5. CASE trial'[g].state = "emitted"
    <3>1. Trial(g)!Emit
      BY <2>1, <2>2, <2>5 DEF Trial!Emit, Follows
    <3> QED
      BY <3>1 DEF Trial!Next, Trial!Settle
  <2>6. CASE trial'[g].state = "completed"
    <3>1. trial[g].state = "armed" /\ runs[i].kind \in {"stationary", "minor_adjustment", "occlusion"}
      BY <1>4, <2>1, <2>6 DEF Proper
    <3>2. Trial(g)!Complete
      BY <2>2, <2>6, <3>1 DEF Trial!Complete
    <3> QED
      BY <3>2 DEF Trial!Next
  <2>7. CASE trial'[g].state = "over"
    <3>1. Trial(g)!CallOff \/ Trial(g)!Withdraw
      BY <2>1, <2>2, <2>7 DEF Trial!CallOff, Trial!Withdraw
    <3> QED
      BY <3>1 DEF Trial!Next, Trial!Settle
  <2> QED
    BY <2>1, <2>3, <2>4, <2>5, <2>6, <2>7 DEF Follows
<1> QED
  BY <1>5, <1>6 DEF Outcome, TrialsMove

-----------------------------------------------------------------------------
(* The theorems.                                                           *)

\* In every reachable state of a suite, whatever its requests, generations,
\* media workers and faults do, the invariant holds.
THEOREM Invariant == Spec => []IInv
<1>1. IInv /\ [Next]_vars => IInv'
  BY NextKeeps, StutterKeeps
<1> QED
  BY <1>1, InitHolds, PTL DEF Spec

\* The runs of AcceptanceService, the events commit_event stores for them and
\* the trials of the engines tell one story (SuiteSound): an event of the suite
\* exists exactly with the pass of its run, in the run's session, and an engine
\* calls its trial's event emitted only if the run has passed.
THEOREM SuiteSoundAlways == Spec => []SuiteSound
<1>1. IInv => SuiteSound
  BY SoundHere
<1> QED
  BY <1>1, Invariant, PTL

\* No active run is orphaned (RunOwned): however starts, stops, reconnects,
\* cancels, session switches and crashes overlap, a request will end it or arm
\* its trial, or the published engine has its trial and has still to tell.
THEOREM RunOwnedAlways == Spec => []RunOwned
<1>1. IInv => RunOwned
  BY OwnedHere
<1> QED
  BY <1>1, Invariant, PTL

\* An outcome is earned and final (OutcomeEarned): a run that has ended keeps
\* its outcome, a run without event passes only when its trial was judged
\* complete or it came back in another session, a run whose evidence was lost
\* before retention had checked it never counts again, a finished suite's
\* verdict changes only with the evidence of its events, and the trial of a run
\* moves as TrialContract lets it.
THEOREM OutcomeEarnedAlways == Spec => OutcomeEarned
<1> DEFINE Final == \A i \in DOMAIN runs : Terminal(runs[i].status) =>
                        runs'[i].status = runs[i].status /\ runs'[i].event = runs[i].event
           Pays == \A i \in DOMAIN runs :
                       runs[i].kind # "movement" /\ runs[i].status # "PASSED" /\ runs'[i].status = "PASSED" =>
                       IF runs[i].kind = "disconnect_reconnect"
                       THEN runs[i].back # None
                       ELSE \E g \in Gens : trial[g] # None /\ trial[g].run = i /\ trial[g].state = "completed"
           Lasts == \A i \in DOMAIN runs : Forfeited(i) => Forfeited(i)' /\ ~Eligible(i)'
           Holds == ContractComplete /\ Verdict' # Verdict => \E e \in DOMAIN events : events'[e].fate # events[e].fate
           Laws == \A g \in Gens : Lawful(g)
<1>1. ASSUME IInv, Next PROVE Final /\ Pays /\ Lasts /\ Holds /\ Laws
  <2>1. Outcome
    BY <1>1, NextKeeps
  <2>2. Final
    BY <2>1 DEF Outcome, RunsMove
  <2>3. Pays
    BY <2>1 DEF Outcome, Earns, Witness
  <2>4. Lasts
    BY <1>1, <2>1, NoExcuseStep
  <2>5. Holds
    BY <1>1, <2>1, VerdictStep
  <2>6. Laws
    BY <1>1, <2>1, LawfulStep DEF Lawful
  <2> QED
    BY <2>2, <2>3, <2>4, <2>5, <2>6
<1>2. IInv /\ [Next]_vars => [Final]_vars /\ [Pays]_vars /\ [Lasts]_vars /\ [Holds]_vars /\ [Laws]_vars
  BY <1>1
<1>3. Spec => [][Final]_vars /\ [][Pays]_vars /\ [][Lasts]_vars /\ [][Holds]_vars /\ [][Laws]_vars
  BY <1>2, Invariant, PTL DEF Spec
<1> QED
  BY <1>3 DEF OutcomeEarned, OutcomeFinal, PassEarned, NoExcuse, VerdictFinal, TrialsLawful
=============================================================================
