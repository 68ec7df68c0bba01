----------------------------- MODULE Acceptance -----------------------------
(***************************************************************************)
(* The control plane of a validation suite: AcceptanceService              *)
(* (apps/api/app/acceptance.py), the Runtime methods that start, cancel,   *)
(* reconnect and observe a run (main.py), the commit of its event (db.py), *)
(* and the engine generations that judge its trial.                        *)
(*                                                                         *)
(* Request handlers, the vision thread and the media worker of every       *)
(* generation read a run, do something else, and write it back: each read  *)
(* and each write is a step.  A trial is what TrialContract promises       *)
(* (AcceptanceRun implements it).                                          *)
(*                                                                         *)
(* Abstractions.  One suite of one item and one camera.  Of an event's     *)
(* media only what its score asks for is here, the rest is EvidenceStore's;*)
(* the threads and sources of a generation are CameraLifecycle's: stopping *)
(* one is a step here, and its vision thread always ends.                  *)
(***************************************************************************)
EXTENDS Integers, Sequences, FiniteSets

CONSTANTS
    None,
    Requests,        \* request handlers at work
    OpsOf,           \* what each of them asks for
    Kinds,           \* trial_kind of its scenarios, taken in any order
    MaxRuns,         \* SUITE_SCENARIOS: how many runs a suite has
    Spared,          \* how many movements may fail in a suite that passes
    MaxGen, MaxFaults    \* bounds of the exploration

Gens == 1..MaxGen
ASSUME KindsAssumption ==
    Kinds \subseteq {"movement", "stationary", "minor_adjustment", "occlusion", "disconnect_reconnect"}
ASSUME ThreadsAssumption == Requests \cap Gens = {} /\ None \notin Requests
Ops == {"start", "reconnect", "cancel", "stop", "launch", "poll"}
ASSUME OpsAssumption == OpsOf \in [Requests -> SUBSET Ops]
ASSUME BoundsAssumption == {MaxRuns, Spared, MaxGen, MaxFaults} \subseteq Nat

VARIABLES
    runs,       \* table acceptance_runs of the suite, in scenario order
    events,     \* movement_events of the item, in the order of their commits
    edits,      \* how often the camera's configuration has been edited
    engine,     \* engines[camera], 0 if there is none
    stopping,   \* stopping_engines[camera], 0 if there is none
    born,       \* generations created so far
    switches,   \* per generation: how often its source began a new session
    trial,      \* per generation: its AcceptanceRun, None before it is armed
    job,        \* per generation: the event its media worker records
    told,       \* generations whose last trial outcome has been persisted
    call,       \* per request and vision thread: where it is
    faults      \* crashes, session switches, edits and events from elsewhere so far

vars == <<runs, events, edits, engine, stopping, born, switches, trial, job, told, call, faults>>
db == <<runs, events, edits>>
camera == <<engine, stopping, born, switches>>
-----------------------------------------------------------------------------
Scenarios == 1..MaxRuns
EventIds == 1..(MaxFaults + MaxRuns)
Maybe(S) == S \cup {None}
Sessions == [gen : Gens, switch : 0..MaxFaults]
SessionOf(g) == [gen |-> g, switch |-> switches[g]]
Statuses == {"CREATED", "ACTIVE", "PASSED", "CANCELLED", "CAMERA_INTERRUPTED", "FAILED"}
Runs == [kind : Kinds, status : Statuses, session : Maybe(Sessions), executed : BOOLEAN,
         event : Maybe(EventIds), before : 0..(MaxFaults + MaxRuns),
         cut : Maybe(Sessions), back : Maybe(Sessions)]
\* Of an event and its evidence: both are stored; the evidence is damaged or
\* lost; retention has checked it, written a receipt and begun to delete; the
\* event is deleted with its receipt open; by the policy; or without receipt.
Fates == {"stored", "damaged", "doomed", "swept", "policy", "gone"}
Events == [run : {0} \cup Scenarios, session : Maybe(Sessions), fate : Fates]
Trials == [run : Scenarios, session : Sessions, seen : BOOLEAN, stable : BOOLEAN,
           state : {"armed", "confirmed", "emitted", "completed", "over"}]
Jobs == [run : Scenarios, session : Sessions, pc : {"queued", "valid", "stored"}]
Threads == Requests \cup Gens
Calls == [pc : {"idle", "begin", "look", "mark", "join", "launch", "preflight", "activate", "rebind",
                "lookup", "arm", "install", "callOff", "detach", "raised", "identify", "apply", "pass"},
          op : Maybe(Ops \cup {"notify", "track"}), run : {0} \cup Scenarios, gen : {0} \cup Gens,
          view : Maybe(Trials), session : Maybe(Sessions), victim : {0} \cup Scenarios]
Idle == [pc |-> "idle", op |-> None, run |-> 0, gen |-> 0, view |-> None, session |-> None, victim |-> 0]
ASSUME NoneAssumption ==
    None \notin Nat /\ None \notin Ops \cup {"notify", "track"} /\ None \notin Sessions /\ None \notin Trials /\ None \notin Jobs

Init ==
    /\ runs = <<>> /\ events = <<>> /\ edits = 0
    /\ engine = 0 /\ stopping = 0 /\ born = 0
    /\ switches = [g \in Gens |-> 0]
    /\ trial = [g \in Gens |-> None] /\ job = [g \in Gens |-> None] /\ told = {}
    /\ call = [t \in Threads |-> Idle]
    /\ faults = 0
-----------------------------------------------------------------------------
Terminal(s) == s \in {"PASSED", "CANCELLED", "CAMERA_INTERRUPTED", "FAILED"}
Active(i) == runs[i].status = "ACTIVE"
ActiveRuns == {i \in DOMAIN runs : Active(i)}
\* The rows that are still there.
Rows == {e \in DOMAIN events : events[e].fate \in {"stored", "damaged", "doomed"}}
Count == Cardinality(Rows)
\* require_camera_unchanged: the suite was created before any edit.
Unchanged == edits = 0

Open(t) == t # None /\ t.state \in {"armed", "confirmed"}
\* A generation lives until its stop has joined it.
Alive(g) == g # 0 /\ g \in {engine, stopping}
\* _acceptance_lock: the vision thread holds it while it notifies.
Locked(g) == g # 0 /\ call[g].op = "notify"
\* VisionEngine.cancel_acceptance; a generation that has no such trial raises,
\* and every caller ignores that.
CalledOff(i, g) ==
    IF g # 0 THEN IF trial[g] # None /\ trial[g].run = i /\ Open(trial[g])
                  THEN [trial EXCEPT ![g] = [@ EXCEPT !.state = "over", !.stable = FALSE]] ELSE trial
    ELSE trial
\* AcceptanceService.cancel: guarded by the status in the UPDATE itself.
\* Mutant: without that guard.
MutantEnded(i, status) == [runs EXCEPT ![i] = [@ EXCEPT !.status = status]]
Ended(i, status) ==
    IF Terminal(runs[i].status) THEN runs ELSE [runs EXCEPT ![i] = [@ EXCEPT !.status = status]]

At(t, pc) == call[t].pc = pc
Goto(t, pc) == call' = [call EXCEPT ![t] = [@ EXCEPT !.pc = pc]]
Return(t) == call' = [call EXCEPT ![t] = Idle]
\* An exception in a start or a reconnect: the run has failed.
Fail(t) == Return(t) /\ runs' = Ended(call[t].run, "FAILED")
-----------------------------------------------------------------------------
(* The score of the suite.                                                 *)

\* acceptance_evidence_snapshot: the run passed with this event, in its
\* session, and every role of the evidence is the registered file.
Verified(i, e) ==
    /\ e # None /\ events[e].fate = "stored"
    /\ runs[i].status = "PASSED" /\ runs[i].executed /\ runs[i].kind = "movement"
    /\ runs[i].event = e /\ events[e].run = i /\ events[e].session = runs[i].session
\* Without its event, a run needs the receipt of a completed policy deletion.
Receipted(i, e) ==
    e # None /\ events[e].fate = "policy" /\ events[e].run = i /\ events[e].session = runs[i].session
Eligible(i) ==
    /\ runs[i].status = "PASSED"
    /\ IF runs[i].kind = "movement"
       THEN runs[i].executed /\ (Verified(i, runs[i].event) \/ Receipted(i, runs[i].event))
       ELSE runs[i].event = None

ContractComplete == Len(runs) = MaxRuns /\ \A i \in DOMAIN runs : Terminal(runs[i].status)
Failing == {i \in DOMAIN runs : ~Eligible(i)}
\* suite_summary
Verdict ==
    IF ~ContractComplete THEN (IF runs = <<>> THEN "READY" ELSE "IN_PROGRESS")
    ELSE IF Cardinality(Failing) <= Spared /\ \A i \in Failing : runs[i].kind = "movement"
         THEN "PASSED" ELSE "FAILED"
-----------------------------------------------------------------------------
(* The suite and its environment.                                          *)

\* A bound: what goes wrong does so while a run has not ended.
Fault ==
    /\ faults < MaxFaults /\ faults' = faults + 1
    /\ \E i \in DOMAIN runs : ~Terminal(runs[i].status)

\* AcceptanceService.create: one transaction.
Create(kind) ==
    /\ Len(runs) < MaxRuns /\ Unchanged
    /\ \A i \in DOMAIN runs : Terminal(runs[i].status)
    /\ runs' = Append(runs, [kind |-> kind, status |-> "CREATED", session |-> None, executed |-> FALSE, event |-> None,
                             before |-> Count, cut |-> None, back |-> None])
    /\ UNCHANGED <<events, edits, camera, trial, job, told, call, faults>>

\* The item gets an event that is not of this suite: a correction, or another camera's.
OtherEvent ==
    /\ Fault
    /\ events' = Append(events, [run |-> 0, session |-> None, fate |-> "stored"])
    /\ UNCHANGED <<runs, edits, camera, trial, job, told, call>>

\* Its evidence expires, or is lost or changed behind the service's back.
Turns(e, fate) ==
    /\ events' = [events EXCEPT ![e] = [@ EXCEPT !.fate = fate]]
    /\ UNCHANGED <<runs, edits, camera, trial, job, told, call, faults>>
Damage(e) ==
    /\ e \in Rows /\ events[e].run # 0 /\ events[e].fate = "stored" /\ Turns(e, "damaged")
\* The transaction with which retention begins to delete an event of the suite
\* writes a receipt if its evidence is found intact.
Tombstone(e) ==
    /\ e \in Rows /\ events[e].run # 0 /\ Verified(events[e].run, e) /\ Turns(e, "doomed")
\* Mutant: whatever retention deletes has its receipt.
MutantDeleteEvent(e) ==
    /\ e \in Rows /\ Turns(e, IF events[e].run # 0 THEN "swept" ELSE "gone")
\* Retention, or a request, deletes the row, and a receipt that is open stays so.
DeleteEvent(e) ==
    /\ e \in Rows /\ Turns(e, IF events[e].fate = "doomed" THEN "swept" ELSE "gone")
\* The receipt is completed once the row and the files are gone.
Finalize(e) ==
    /\ e \in DOMAIN events /\ events[e].fate = "swept" /\ Turns(e, "policy")

EditCamera ==
    /\ Fault /\ edits' = edits + 1
    /\ UNCHANGED <<runs, events, camera, trial, job, told, call>>

\* A crash loses the engines and the requests; the service that starts again
\* interrupts the run that was active.
Crash ==
    /\ Fault
    /\ runs' = [i \in DOMAIN runs |-> IF Active(i) THEN [runs[i] EXCEPT !.status = "CAMERA_INTERRUPTED"] ELSE runs[i]]
    /\ engine' = 0 /\ stopping' = 0 /\ told' = {}
    /\ trial' = [g \in Gens |-> None] /\ job' = [g \in Gens |-> None]
    /\ call' = [t \in Threads |-> Idle]
    /\ UNCHANGED <<events, edits, born, switches>>
-----------------------------------------------------------------------------
(* Requests.                                                               *)

FirstStep(op) == CASE op = "stop" -> "detach" [] op = "launch" -> "launch" [] OTHER -> "begin"
Call(t, op, i) ==
    /\ At(t, "idle") /\ IF op \in {"stop", "launch"} THEN i = 0 ELSE i \in DOMAIN runs
    /\ call' = [call EXCEPT ![t] = [Idle EXCEPT !.pc = FirstStep(op), !.op = op, !.run = i]]
    /\ UNCHANGED <<db, camera, trial, job, told, faults>>

\* start_acceptance, controlled_acceptance_reconnect, cancel and status poll
\* read the run and the published engine first.
Begin(t) ==
    LET i == call[t].run
        go(pc) == call' = [call EXCEPT ![t] = [@ EXCEPT !.pc = pc, !.gen = engine]]
    IN /\ At(t, "begin")
       /\ CASE call[t].op = "start" ->
                  (IF runs[i].status = "CREATED" THEN go("detach") ELSE Return(t)) /\ UNCHANGED runs
            [] call[t].op = "reconnect" ->
                  IF ~Active(i) \/ runs[i].kind # "disconnect_reconnect" THEN Return(t) /\ UNCHANGED runs
                  ELSE LET cut == [runs EXCEPT ![i] = [@ EXCEPT !.cut = runs[i].session]]
                       IN IF engine = 0
                          THEN Return(t) /\ runs' = [cut EXCEPT ![i] = [@ EXCEPT !.status = "FAILED"]]
                          ELSE go("callOff") /\ runs' = cut
            [] call[t].op = "cancel" ->
                  go(IF Active(i) THEN "callOff" ELSE "mark") /\ UNCHANGED runs
            [] OTHER ->
                  /\ ~Locked(engine) /\ UNCHANGED runs
                  /\ IF Active(i) /\ engine # 0 /\ trial[engine] # None /\ trial[engine].run = i
                     THEN call' = [call EXCEPT ![t] = [@ EXCEPT !.pc = "identify", !.view = trial[engine]]]
                     ELSE Return(t)
       /\ UNCHANGED <<events, edits, camera, trial, job, told, faults>>

CallOff(t) ==
    /\ At(t, "callOff") /\ ~Locked(call[t].gen)
    /\ trial' = CalledOff(call[t].run, call[t].gen)
    /\ Goto(t, IF call[t].op = "cancel" THEN "mark" ELSE "detach")
    /\ UNCHANGED <<db, camera, job, told, faults>>

\* Runtime.stop: the engine is no longer published, then its run is looked up,
\* called off and interrupted, then the engine stops.
Detach(t) ==
    /\ At(t, "detach")
    /\ IF engine = 0
       THEN /\ IF call[t].op = "stop" THEN Return(t) ELSE Goto(t, "launch")
            /\ UNCHANGED <<engine, stopping>>
       ELSE /\ engine' = 0 /\ stopping' = engine
            /\ call' = [call EXCEPT ![t] = [@ EXCEPT !.pc = "look", !.gen = engine]]
    /\ UNCHANGED <<db, born, switches, trial, job, told, faults>>
\* Mutant: the engine is stopped without looking its run up.
MutantLook(t) ==
    /\ At(t, "look") /\ ~Locked(call[t].gen) /\ Goto(t, "join")
    /\ UNCHANGED <<db, camera, trial, job, told, faults>>
Look(t) ==
    LET found == ActiveRuns \ (IF call[t].op = "reconnect" THEN {call[t].run} ELSE {})
        i == CHOOSE j \in found : TRUE
    IN /\ At(t, "look") /\ ~Locked(call[t].gen)
       /\ IF found = {} THEN Goto(t, "join") /\ UNCHANGED trial
          ELSE /\ trial' = CalledOff(i, call[t].gen)
               /\ call' = [call EXCEPT ![t] = [@ EXCEPT !.pc = "mark", !.victim = i]]
       /\ UNCHANGED <<db, camera, job, told, faults>>
Mark(t) ==
    /\ At(t, "mark")
    /\ IF call[t].op = "cancel"
       THEN Return(t) /\ runs' = Ended(call[t].run, "CANCELLED")
       ELSE Goto(t, "join") /\ runs' = Ended(call[t].victim, "CAMERA_INTERRUPTED")
    /\ UNCHANGED <<events, edits, camera, trial, job, told, faults>>
\* VisionEngine.stop interrupts the trial, joins the vision thread and waits
\* for the media worker.
Joined(t) ==
    LET g == call[t].gen
    IN /\ At(t, "join") /\ call[g].pc = "idle"
       /\ trial' = IF trial[g] = None THEN trial ELSE CalledOff(trial[g].run, g)
       /\ job[g] = None /\ UNCHANGED job
       /\ stopping' = IF stopping = g THEN 0 ELSE stopping
       /\ told' = told \ {g}
       /\ UNCHANGED <<db, engine, born, switches>>
Join(t) ==
    /\ Joined(t) /\ UNCHANGED faults
    /\ IF call[t].op = "stop" THEN Return(t) ELSE Goto(t, "launch")
\* The last save of the session's row raises.  Nothing catches that in a
\* controlled reconnect: the request is over, and its run stays as it is.
JoinRaises(t) ==
    /\ Joined(t) /\ Fault
    /\ IF call[t].op = "reconnect" THEN Goto(t, "raised") ELSE Return(t)

\* Runtime.start.
Launch(t, starts) ==
    LET next == IF call[t].op = "launch" THEN Return(t) ELSE Goto(t, "preflight")
        refused == IF call[t].op = "reconnect" THEN Fail(t) ELSE Return(t) /\ UNCHANGED runs
    IN /\ At(t, "launch")
       /\ starts => born < MaxGen
       /\ CASE stopping # 0 \/ (engine = 0 /\ ~starts) -> refused /\ UNCHANGED <<engine, born>>
            [] stopping = 0 /\ engine # 0 -> next /\ UNCHANGED <<runs, engine, born>>
            [] OTHER -> next /\ engine' = born + 1 /\ born' = born + 1 /\ UNCHANGED runs
       /\ UNCHANGED <<events, edits, stopping, switches, trial, job, told, faults>>

\* _wait_acceptance_preflight
Preflight(t, ready) ==
    /\ At(t, "preflight")
    /\ IF ready /\ engine # 0
       THEN /\ call' = [call EXCEPT ![t] = [@ EXCEPT !.pc = IF call[t].op = "start" THEN "activate" ELSE "rebind",
                                                     !.session = SessionOf(engine)]]
            /\ UNCHANGED runs
       ELSE Fail(t)
    /\ UNCHANGED <<events, edits, camera, trial, job, told, faults>>

\* Mutant: the run is bound to its session only once it is armed.
MutantActivate(t) ==
    LET i == call[t].run
    IN /\ At(t, "activate")
       /\ IF Unchanged /\ runs[i].status = "CREATED" /\ ActiveRuns = {}
          THEN runs' = [runs EXCEPT ![i] = [@ EXCEPT !.status = "ACTIVE"]] /\ Goto(t, "lookup")
          ELSE Return(t) /\ UNCHANGED runs
       /\ UNCHANGED <<events, edits, camera, trial, job, told, faults>>
Activate(t) ==
    LET i == call[t].run
    IN /\ At(t, "activate")
       /\ IF Unchanged /\ runs[i].status = "CREATED" /\ ActiveRuns = {}
          THEN /\ runs' = [runs EXCEPT ![i] = [@ EXCEPT !.status = "ACTIVE", !.session = call[t].session]]
               /\ Goto(t, "lookup")
          ELSE Return(t) /\ UNCHANGED runs
       /\ UNCHANGED <<events, edits, camera, trial, job, told, faults>>
Rebind(t) ==
    LET i == call[t].run
    IN /\ At(t, "rebind")
       /\ IF Unchanged /\ Active(i) /\ call[t].session # runs[i].cut
          THEN /\ runs' = [runs EXCEPT ![i] = [@ EXCEPT !.session = call[t].session, !.executed = FALSE,
                                                        !.back = call[t].session]]
               /\ Goto(t, "lookup")
          ELSE Fail(t)
       /\ UNCHANGED <<events, edits, camera, trial, job, told, faults>>
Lookup(t) ==
    /\ At(t, "lookup")
    /\ IF engine = 0 THEN Fail(t)
       ELSE call' = [call EXCEPT ![t] = [@ EXCEPT !.pc = "arm", !.gen = engine]] /\ UNCHANGED runs
    /\ UNCHANGED <<events, edits, camera, trial, job, told, faults>>
\* What follows an exception of arm_acceptance.
Disarm(t) ==
    /\ ~Locked(call[t].gen) /\ Fail(t)
    /\ trial' = IF call[t].op = "start" THEN CalledOff(call[t].run, call[t].gen) ELSE trial
\* The engine refuses another session; so it does when it is not streaming, or
\* when its item or its zones are others.
CheckArm(t) ==
    LET g == call[t].gen
    IN /\ At(t, "arm")
       /\ \/ /\ Alive(g) /\ call[t].session = SessionOf(g)
             /\ Goto(t, "install") /\ UNCHANGED <<runs, trial>>
          \/ Disarm(t)
       /\ UNCHANGED <<events, edits, camera, job, told, faults>>
\* Then, under its lock, a trial while one is undecided, and a run it has armed
\* before.  The session may be another by now, and the engine stopped.
Arm(t) ==
    LET g == call[t].gen
        new == [run |-> call[t].run, session |-> call[t].session, seen |-> FALSE, stable |-> FALSE,
                state |-> "armed"]
    IN /\ At(t, "install")
       /\ IF trial[g] # None => ~Open(trial[g]) /\ trial[g].run # call[t].run
          THEN /\ ~Locked(g)
               /\ trial' = [trial EXCEPT ![g] = new] /\ told' = told \ {g}
               /\ call' = [call EXCEPT ![t] = [@ EXCEPT !.pc = "identify", !.view = new]]
               /\ UNCHANGED runs
          ELSE Disarm(t) /\ UNCHANGED told
       /\ UNCHANGED <<events, edits, camera, job, faults>>
-----------------------------------------------------------------------------
(* sync_engine_status, by a request or by a vision thread, of an earlier   *)
(* view of the trial.                                                      *)

\* What its caller does then: a notification is not repeated once it is
\* persisted, and a trial that passed without an event is called off.
Finish(t, passed) ==
    /\ Return(t)
    /\ told' = IF call[t].op = "notify" /\ engine = t THEN told \cup {t} ELSE told
    /\ trial' = IF call[t].op = "track" /\ passed THEN CalledOff(call[t].run, t) ELSE trial

Identify(t) ==
    LET i == call[t].run
        view == call[t].view
    IN /\ At(t, "identify")
       /\ IF ~Active(i) THEN Finish(t, FALSE) /\ UNCHANGED runs
          ELSE IF Unchanged /\ view.session = runs[i].session
               THEN Goto(t, "apply") /\ UNCHANGED <<runs, told, trial>>
               ELSE Finish(t, FALSE) /\ runs' = Ended(i, "CAMERA_INTERRUPTED")
       /\ UNCHANGED <<events, edits, camera, job, faults>>

\* The row is read again after its progress has been written.
\* Mutant: the new session of a controlled reconnect is not asked for.
MutantEarned(row, i, view) ==
    IF runs[i].kind = "disconnect_reconnect" THEN view.stable ELSE view.state = "completed"
Earned(row, i, view) ==
    /\ row.executed
    /\ IF runs[i].kind = "disconnect_reconnect"
       THEN view.stable /\ row.back # None /\ row.back = row.session /\ row.cut # row.back
       ELSE view.state = "completed"
Lost(row, i, view) ==
    CASE runs[i].kind = "movement" -> view.state \in {"over", "completed"} /\ row.event = None
      [] runs[i].kind = "disconnect_reconnect" -> ~Open(view) /\ ~view.stable
      [] OTHER -> ~Open(view) /\ view.state # "completed"
Apply(t) ==
    LET i == call[t].run
        view == call[t].view
        row == [runs[i] EXCEPT !.executed = @ \/ view.seen]
        written == [runs EXCEPT ![i] = row]
    IN /\ At(t, "apply")
       /\ IF ~Active(i) THEN Finish(t, runs[i].status = "PASSED") /\ UNCHANGED runs
          ELSE IF runs[i].kind # "movement" /\ Earned(row, i, view)
               \* _pass_without_event counts the item's events first
               THEN IF Count = row.before THEN Goto(t, "pass") /\ runs' = written /\ UNCHANGED <<told, trial>>
                    ELSE Finish(t, FALSE) /\ runs' = [written EXCEPT ![i] = [@ EXCEPT !.status = "FAILED"]]
               ELSE /\ Finish(t, FALSE)
                    /\ runs' = IF Lost(row, i, view) THEN [written EXCEPT ![i] = [@ EXCEPT !.status = "FAILED"]]
                               ELSE written
       /\ UNCHANGED <<events, edits, camera, job, faults>>
\* The UPDATE that passes the run; if its guard no longer holds it raises, and
\* a notification counts as not persisted.
Pass(t) ==
    LET i == call[t].run
        holds == Active(i) /\ runs[i].executed /\ runs[i].event = None
    IN /\ At(t, "pass")
       /\ IF holds THEN Finish(t, TRUE) /\ runs' = [runs EXCEPT ![i] = [@ EXCEPT !.status = "PASSED"]]
          ELSE Return(t) /\ UNCHANGED <<runs, told, trial>>
       /\ UNCHANGED <<events, edits, camera, job, faults>>
-----------------------------------------------------------------------------
(* A generation: its vision thread and its media worker.                   *)

Judges(g) == Alive(g) /\ trial[g] # None /\ call[g].pc = "idle"
\* Frames of another session only interrupt the trial.
Watches(g) == Judges(g) /\ trial[g].state = "armed" /\ trial[g].session = SessionOf(g)
Becomes(g, state) == trial' = [trial EXCEPT ![g] = [@ EXCEPT !.state = state, !.stable = FALSE]]

\* A frame: the marker is seen or not, and rests at its origin or not.
See(g, seen, stable) ==
    /\ Watches(g)
    /\ stable => seen /\ runs[trial[g].run].kind = "disconnect_reconnect"
    /\ trial' = [trial EXCEPT ![g] = [@ EXCEPT !.seen = trial[g].seen \/ seen, !.stable = stable]]
    /\ UNCHANGED <<db, camera, job, told, call, faults>>
Confirm(g) ==
    /\ Watches(g) /\ runs[trial[g].run].kind = "movement" /\ trial[g].seen
    /\ Becomes(g, "confirmed")
    /\ UNCHANGED <<db, camera, job, told, call, faults>>
Complete(g) ==
    /\ Watches(g) /\ trial[g].seen
    /\ runs[trial[g].run].kind \in {"stationary", "minor_adjustment", "occlusion"}
    /\ Becomes(g, "completed")
    /\ UNCHANGED <<db, camera, job, told, call, faults>>
\* The trial ends without an outcome, or is interrupted before its event is
\* known to be stored.
GiveUp(g) ==
    /\ Judges(g) /\ Open(trial[g])
    /\ Becomes(g, "over")
    /\ UNCHANGED <<db, camera, job, told, call, faults>>
SwitchSession(g) ==
    /\ engine = g /\ call[g].pc = "idle" /\ Fault
    /\ switches' = [switches EXCEPT ![g] = @ + 1]
    /\ trial' = IF trial[g] = None THEN trial ELSE CalledOff(trial[g].run, g)
    /\ UNCHANGED <<db, engine, stopping, born, job, told, call>>

\* _notify_acceptance_status_locked, repeated until it is persisted; it is
\* ignored unless the generation is published.
Notify(g) ==
    /\ Judges(g) /\ engine = g /\ g \notin told
    /\ ~Open(trial[g])
    /\ call' = [call EXCEPT ![g] = [Idle EXCEPT !.pc = "identify", !.op = "notify", !.run = trial[g].run,
                                                 !.gen = g, !.view = trial[g]]]
    /\ UNCHANGED <<db, camera, trial, job, told, faults>>

\* Runtime.track of a detection of the item: observe_track, then the status.
Track(g) ==
    /\ engine = g /\ call[g].pc = "idle" /\ ActiveRuns # {}
    /\ LET i == CHOOSE j \in ActiveRuns : TRUE
       IN IF Unchanged /\ runs[i].session = SessionOf(g)
          THEN /\ runs' = [runs EXCEPT ![i] = [@ EXCEPT !.executed = TRUE]]
               /\ UNCHANGED trial
               /\ IF trial[g] # None /\ trial[g].run = i
                  THEN call' = [call EXCEPT ![g] = [Idle EXCEPT !.pc = "identify", !.op = "track", !.run = i,
                                                              !.gen = g, !.view = trial[g]]]
                  ELSE UNCHANGED call
          ELSE runs' = Ended(i, "CAMERA_INTERRUPTED") /\ trial' = CalledOff(i, g) /\ UNCHANGED call
    /\ UNCHANGED <<events, edits, camera, job, told, faults>>

\* The post-roll is over: the media worker gets the event.
Submit(g) ==
    /\ Judges(g) /\ trial[g].state = "confirmed" /\ job[g] = None
    /\ job' = [job EXCEPT ![g] = [run |-> trial[g].run, session |-> trial[g].session, pc |-> "queued"]]
    /\ UNCHANGED <<db, camera, trial, told, call, faults>>

\* What the commit of an event asks of its run.
Commits(j) ==
    /\ Active(j.run) /\ runs[j.run].executed /\ runs[j.run].event = None
    /\ runs[j.run].session = j.session /\ runs[j.run].kind = "movement"
MayCommit(j) == TRUE
JobEnds(g) == job' = [job EXCEPT ![g] = None]
Withdrawn(g) == CalledOff(job[g].run, g)
\* Runtime.event and EventService.record check the run before the media are
\* written.
Validate(g) ==
    /\ job[g] # None /\ job[g].pc = "queued"
    /\ IF engine = g /\ Unchanged /\ Commits(job[g])
       THEN job' = [job EXCEPT ![g] = [@ EXCEPT !.pc = "valid"]] /\ UNCHANGED trial
       ELSE ~Locked(g) /\ JobEnds(g) /\ trial' = Withdrawn(g)
    /\ UNCHANGED <<db, camera, told, call, faults>>
\* The frames, positions and zones it claims are not what the frozen zones give.
Refuse(g) ==
    /\ job[g] # None /\ job[g].pc = "queued" /\ ~Locked(g)
    /\ engine = g /\ Unchanged /\ Commits(job[g])
    /\ JobEnds(g) /\ trial' = Withdrawn(g)
    /\ UNCHANGED <<db, camera, told, call, faults>>
\* Mutant: a refused commit is reported as stored.
MutantCommit(g) ==
    /\ job[g] # None /\ job[g].pc = "valid"
    /\ job' = [job EXCEPT ![g] = [@ EXCEPT !.pc = "stored"]]
    /\ IF Commits(job[g])
       THEN /\ events' = Append(events, [run |-> job[g].run, session |-> job[g].session, fate |-> "stored"])
            /\ runs' = [runs EXCEPT ![job[g].run] = [@ EXCEPT !.status = "PASSED", !.event = Len(events) + 1]]
       ELSE UNCHANGED <<runs, events>>
    /\ UNCHANGED <<edits, camera, trial, told, call, faults>>
\* Mutant: the run's update may miss without undoing the event.
MutantCommitAlone(g) ==
    /\ job[g] # None /\ job[g].pc = "valid"
    /\ events' = Append(events, [run |-> job[g].run, session |-> job[g].session, fate |-> "stored"])
    /\ runs' = IF Commits(job[g])
               THEN [runs EXCEPT ![job[g].run] = [@ EXCEPT !.status = "PASSED", !.event = Len(events) + 1]] ELSE runs
    /\ job' = [job EXCEPT ![g] = [@ EXCEPT !.pc = "stored"]]
    /\ UNCHANGED <<edits, camera, trial, told, call, faults>>
\* commit_event: the event and the run's pass are one transaction.
Commit(g) ==
    /\ job[g] # None /\ job[g].pc = "valid"
    /\ IF Commits(job[g])
       THEN /\ events' = Append(events, [run |-> job[g].run, session |-> job[g].session, fate |-> "stored"])
            /\ runs' = [runs EXCEPT ![job[g].run] = [@ EXCEPT !.status = "PASSED", !.event = Len(events) + 1]]
            /\ job' = [job EXCEPT ![g] = [@ EXCEPT !.pc = "stored"]]
            /\ UNCHANGED trial
       ELSE ~Locked(g) /\ JobEnds(g) /\ trial' = Withdrawn(g) /\ UNCHANGED <<runs, events>>
    /\ UNCHANGED <<edits, camera, told, call, faults>>
\* _media_done: the media could not be written, or the event is stored.
MediaFails(g) ==
    /\ job[g] # None /\ job[g].pc = "valid" /\ ~Locked(g)
    /\ JobEnds(g) /\ trial' = Withdrawn(g)
    /\ UNCHANGED <<db, camera, told, call, faults>>
MediaDone(g) ==
    /\ job[g] # None /\ job[g].pc = "stored" /\ ~Locked(g)
    /\ JobEnds(g)
    /\ IF trial[g].run = job[g].run /\ trial[g].state = "confirmed" THEN Becomes(g, "emitted") ELSE UNCHANGED trial
    /\ UNCHANGED <<db, camera, told, call, faults>>
-----------------------------------------------------------------------------
Serve(t) ==
    \/ Begin(t) \/ CallOff(t) \/ Detach(t) \/ Look(t) \/ Mark(t) \/ Join(t) \/ JoinRaises(t)
    \/ (\E starts \in BOOLEAN : Launch(t, starts))
    \/ (\E ready \in BOOLEAN : Preflight(t, ready))
    \/ Activate(t) \/ Rebind(t) \/ Lookup(t) \/ CheckArm(t) \/ Arm(t)
Sync(t) == Identify(t) \/ Apply(t) \/ Pass(t)
Watch(g) ==
    \/ (\E seen, stable \in BOOLEAN : See(g, seen, stable))
    \/ Confirm(g) \/ Complete(g) \/ GiveUp(g) \/ SwitchSession(g)
    \/ Notify(g) \/ Track(g) \/ Submit(g)
Record(g) == Validate(g) \/ Refuse(g) \/ Commit(g) \/ MediaFails(g) \/ MediaDone(g)

Next ==
    \/ \E kind \in Kinds : Create(kind)
    \/ OtherEvent \/ EditCamera \/ Crash
    \/ \E e \in EventIds : Damage(e) \/ Tombstone(e) \/ DeleteEvent(e) \/ Finalize(e)
    \/ \E t \in Requests : Serve(t) \/ \E op \in OpsOf[t], i \in 0..MaxRuns : Call(t, op, i)
    \/ \E t \in Threads : Sync(t)
    \/ \E g \in Gens : Watch(g) \/ Record(g)

Spec == Init /\ [][Next]_vars
-----------------------------------------------------------------------------
TypeOK ==
    /\ runs \in Seq(Runs) /\ Len(runs) <= MaxRuns
    /\ events \in Seq(Events) /\ edits \in 0..MaxFaults /\ faults \in 0..MaxFaults
    /\ engine \in 0..born /\ stopping \in 0..born /\ born \in 0..MaxGen
    /\ engine # 0 => engine # stopping
    /\ switches \in [Gens -> 0..MaxFaults]
    /\ trial \in [Gens -> Maybe(Trials)] /\ job \in [Gens -> Maybe(Jobs)] /\ told \subseteq Gens
    /\ call \in [Threads -> Calls]
    \* an active run is bound to the session its preflight saw
    /\ \A i \in ActiveRuns : runs[i].session # None

\* An event of the suite and the pass of its run exist together, whatever was
\* cancelled, stopped or replaced between its confirmation and its commit.
EventsBelong ==
    /\ \A e \in DOMAIN events : events[e].run # 0 =>
          LET run == runs[events[e].run]
          IN run.status = "PASSED" /\ run.event = e /\ run.session = events[e].session
    /\ \A i \in DOMAIN runs : runs[i].kind = "movement" /\ runs[i].status = "PASSED" => runs[i].event # None

\* A run that has ended keeps its outcome, however late a cancel, a notified
\* status or a commit that began before it arrives.
OutcomeFinal ==
    [][\A i \in DOMAIN runs : Terminal(runs[i].status) =>
          runs'[i].status = runs[i].status /\ runs'[i].event = runs[i].event]_vars

\* A run without event passes only if the engine judged its trial complete, or
\* after a controlled disconnect that ended in another session.
PassEarned ==
    [][\A i \in DOMAIN runs : runs[i].kind # "movement" /\ runs[i].status # "PASSED" /\ runs'[i].status = "PASSED" =>
          IF runs[i].kind = "disconnect_reconnect"
          THEN runs[i].back # None
          ELSE \E g \in Gens : trial[g] # None /\ trial[g].run = i /\ trial[g].state = "completed"]_vars

\* The engine calls an event emitted only if it is stored for its run.
EngineAgrees ==
    \A g \in Gens : trial[g] # None => (trial[g].state = "emitted" => runs[trial[g].run].status = "PASSED")

\* No active run is orphaned: a request is about to arm its trial or to fail,
\* a stop is about to look it up or to interrupt it, or the published engine
\* has its trial open or its outcome still to notify, however these overlap;
\* unless its controlled reconnect ended in an exception of its stop.
RunOwned ==
    \A i \in ActiveRuns :
        \/ \E t \in Requests :
              \/ call[t].run = i /\ call[t].pc \in
                    {"callOff", "detach", "look", "join", "launch", "preflight", "rebind", "lookup", "arm",
                     "install", "raised"}
              \/ call[t].pc = "look" \/ (call[t].pc = "mark" /\ i \in {call[t].victim, call[t].run})
        \/ /\ engine # 0 /\ trial[engine] # None /\ trial[engine].run = i
           /\ Open(trial[engine]) \/ engine \notin told

\* The suite's runs, its events and the trials of the engines tell one story.
SuiteSound == TypeOK /\ EventsBelong /\ EngineAgrees

\* "A surviving damaged event can never be excused with an older receipt": what
\* lost its evidence before retention had checked it never counts again.
Forfeited(i) == runs[i].event # None /\ events[runs[i].event].fate \in {"damaged", "gone"}
NoExcuse == [][\A i \in DOMAIN runs : Forfeited(i) => Forfeited(i)' /\ ~Eligible(i)']_vars

\* The verdict of a suite whose runs have all ended changes only with what
\* becomes of the evidence: no late request, status or commit reaches it.
VerdictFinal ==
    [][ContractComplete /\ Verdict' # Verdict =>
          \E e \in DOMAIN events : events'[e].fate # events[e].fate]_vars

\* The service relies on no more than a trial promises: as long as a generation
\* has the trial of one run, the trial moves as TrialContract lets it.
Trial(g) == INSTANCE TrialContract WITH kind <- runs[trial[g].run].kind, outcome <- trial[g].state
Lawful(g) ==
    trial[g] # None /\ trial'[g] # None /\ trial'[g].run = trial[g].run =>
        Trial(g)!Next \/ (trial'[g].state = trial[g].state /\ runs'[trial[g].run].kind = runs[trial[g].run].kind)
TrialsLawful == [][\A g \in Gens : Lawful(g)]_vars

\* An outcome is earned and final, and so is what a suite makes of it.
OutcomeEarned == OutcomeFinal /\ PassEarned /\ NoExcuse /\ VerdictFinal /\ TrialsLawful
=============================================================================
