----------------------- MODULE CameraLifecycle_proofs -----------------------
(***************************************************************************)
(* Proofs about CameraLifecycle, for any number of request handlers and    *)
(* generations: the registry of engines, the phases of the requests and    *)
(* the lock fit together (IInv), and therefore no callback of a released   *)
(* generation records evidence, at most one generation is live, the        *)
(* stopping registry is never orphaned, nobody joins workers under the     *)
(* lock unless browser senders are acquired, and an ended capture thread   *)
(* leaves nothing of its device behind.  On top of it Gone says that the   *)
(* sources of earlier generations are gone, and Rows that their session    *)
(* rows are closed for good.                                               *)
(*                                                                         *)
(* Layout: the invariant; frame lemmas for steps that touch little of it;  *)
(* one lemma per action of a request and one per kind of thread; the       *)
(* theorems, some with an invariant of their own on top of IInv.           *)
(***************************************************************************)
EXTENDS CameraLifecycle, TLAPS

-----------------------------------------------------------------------------
(* The inductive invariant.                                                *)

Aborting == {"abort", "withdraw"}
ReleasePcs == {"mark", "halt", "joinCapture", "joinVision", "joinMedia", "seal", "clear"}
HaltedPcs == {"joinCapture", "joinVision", "joinMedia", "seal", "clear", "withdraw"}

\* A request waits for the start of an engine, or undoes it.
InLaunch(a) == call[a].pc = "ready" \/ call[a].op \in Aborting
\* A request releases a generation it has detached.
InRelease(a) == call[a].pc \in ReleasePcs /\ call[a].op \notin Aborting

\* A generation is never both public and being released.
Exclusive == engine = 0 \/ stopping = 0
\* Who launches holds the lock, and its engine has neither thread nor job yet.
Launches(a) ==
    /\ lock = a /\ engine = call[a].gen /\ engine # 0
    /\ media[engine] = "none" /\ vision[engine] = "absent"
    /\ call[a].op = "abort" => call[a].pc = "joinCapture"
    /\ call[a].op = "withdraw" =>
           call[a].pc \in {"joinCapture", "joinVision", "joinMedia", "withdraw"}
Launching == \A a \in Callers : InLaunch(a) => Launches(a)
Releasing == \A a \in Callers : InRelease(a) => stopping = call[a].gen /\ stopping # 0
OneReleaser == \A a, b \in Callers : InRelease(a) /\ InRelease(b) => a = b
Roles == Exclusive /\ Launching /\ Releasing /\ OneReleaser

HaltedBy == \A a \in Callers : call[a].pc \in HaltedPcs => call[a].gen \in halted
ClosedBy ==
    \A a \in Callers :
        /\ call[a].pc \in {"seal", "clear", "withdraw"} => call[a].gen \in closed
        /\ call[a].pc = "withdraw" => call[a].op = "withdraw"
\* A closed executor has no job, and gets none.
Quiet == \A g \in closed : media[g] \in {"none", "idle"}
Fresh == \A g \in Gens : g > born => media[g] = "none" /\ vision[g] = "absent"
Numbered == engine \in 0..born /\ stopping \in 0..born
Marks == HaltedBy /\ ClosedBy /\ Quiet /\ Fresh /\ Numbered

Unhalted == \A g \in 1..born : g \notin halted => g \in {engine, stopping}
Covered == LateEvidence /\ Unhalted

IInv == TypeOK /\ Roles /\ Marks /\ Covered

USE DEF At, Become, Goto, GotoFor, GotoAs, Return, MayLock, Unlock, Idle,
        runtime, source, flags, workers

-----------------------------------------------------------------------------
(* Two frames: a request outside launch and release, and a worker thread.  *)

\* A request that takes part in no launch or release, before and after the
\* step, and touches only itself and the lock it may take.
LEMMA Bystander ==
    ASSUME IInv, TypeOK', NEW a \in Callers,
           ~InLaunch(a), ~InRelease(a), ~InLaunch(a)', ~InRelease(a)',
           call[a].pc \notin HaltedPcs, call'[a].pc \notin HaltedPcs,
           \A b \in Callers : b # a => call'[b] = call[b],
           lock' = lock \/ lock \in {None, a},
           UNCHANGED <<engine, stopping, born, vision, media, halted, closed>>
    PROVE  IInv'
<1>1. Roles'
  BY CallersAssumption DEF IInv, TypeOK, Roles, Exclusive, Launching, Launches, Releasing,
     OneReleaser,
     InLaunch, InRelease, Aborting, ReleasePcs
<1>2. Marks'
  BY DEF IInv, TypeOK, Marks, HaltedBy, ClosedBy, Quiet, Fresh, Numbered, HaltedPcs
<1>3. Covered'
  BY DEF IInv, Covered, LateEvidence, Unhalted
<1> QED BY <1>1, <1>2, <1>3 DEF IInv

\* A request that has returned is a calling like any other.
LEMMA IdleCalling == Idle \in Callings
BY BoundsAssumption DEF Callings

\* Who takes part in a launch or a release does so with a real generation.
LEMMA RoleGen ==
    ASSUME IInv, NEW a \in Callers, InLaunch(a) \/ InRelease(a)
    PROVE  call[a].gen \in Gens
BY BoundsAssumption DEF IInv, TypeOK, Gens, Roles, Launching, Launches, Releasing

\* A request goes on with the launch or release it was at, or ends its part.
LEMMA RolesKept ==
    ASSUME Roles, NEW a \in Callers,
           InLaunch(a)' => InLaunch(a) /\ Launches(a)',
           (InRelease(a)' => InRelease(a)) /\ call'[a].gen = call[a].gen,
           \A b \in Callers : b # a => call'[b] = call[b],
           UNCHANGED <<engine, stopping, lock, vision, media>>
    PROVE  Roles'
<1>1. Exclusive' BY DEF Roles, Exclusive
<1>2. Launching' BY DEF Roles, Launching, Launches, InLaunch
<1>3. Releasing' BY DEF Roles, Releasing, InRelease
<1>4. OneReleaser' BY DEF Roles, OneReleaser, InRelease
<1> QED BY <1>1, <1>2, <1>3, <1>4 DEF Roles

\* A thread of a generation: it starts no thread and no job where there is
\* none, gives a closed executor no job, and lets a job pass only while its
\* generation is public.
LEMMA WorkerFrame ==
    ASSUME IInv, TypeOK', UNCHANGED <<runtime, halted, closed>>,
           \A g \in Gens : vision[g] = "absent" => vision'[g] = "absent",
           \A g \in Gens : media'[g] = media[g] \/
               /\ \/ media[g] # "none" /\ vision[g] # "absent"
                  \/ media[g] \notin {"none", "idle"}
               /\ g \in closed => media'[g] \in {"none", "idle"}
               /\ media'[g] \in {"passed", "stamp", "record"} =>
                      media[g] \in {"passed", "stamp", "record"} \/ engine = g
    PROVE  IInv'
<1>1. Roles'
  BY DEF IInv, TypeOK, Gens, Roles, Exclusive, Launching, Launches, Releasing, OneReleaser,
     InLaunch, InRelease
<1>2. Marks'
  BY DEF IInv, TypeOK, Marks, HaltedBy, ClosedBy, Quiet, Fresh, Numbered
<1>3. Covered'
  BY DEF IInv, Covered, LateEvidence, Unhalted
<1> QED BY <1>1, <1>2, <1>3 DEF IInv

-----------------------------------------------------------------------------
(* The requests, outside launch and release.                               *)

\* A request arrives: it takes no part yet.
LEMMA CallStep ==
    ASSUME IInv, NEW a \in Callers, NEW op \in Ops, Call(a, op)
    PROVE  IInv'
<1>1. ~InLaunch(a) /\ ~InRelease(a) /\ call[a].pc \notin HaltedPcs
  BY DEF IInv, Roles, Launching, Launches, InLaunch, InRelease, Aborting, ReleasePcs,
     HaltedPcs, Call
<1>2. TypeOK'
  BY BoundsAssumption, OpsAssumption DEF IInv, TypeOK, Callings, Call
<1>3. ~InLaunch(a)' /\ ~InRelease(a)' /\ call'[a].pc \notin HaltedPcs
  BY <1>1, OpsAssumption DEF IInv, TypeOK, InLaunch, InRelease, Aborting, ReleasePcs,
     HaltedPcs, Call
<1>4. /\ lock' = lock \/ lock \in {None, a}
      /\ \A b \in Callers : b # a => call'[b] = call[b]
      /\ UNCHANGED <<engine, stopping, born, vision, media, halted, closed>>
  BY DEF IInv, TypeOK, Call
<1> QED BY <1>1, <1>2, <1>3, <1>4, Bystander

\* It looks for a stale engine, perhaps taking the lock for good.
LEMMA CheckStaleStep ==
    ASSUME IInv, NEW a \in Callers, CheckStale(a)
    PROVE  IInv'
<1>1. ~InLaunch(a) /\ ~InRelease(a) /\ call[a].pc \notin HaltedPcs
  BY DEF IInv, Roles, Launching, Launches, InLaunch, InRelease, Aborting, ReleasePcs,
     HaltedPcs, CheckStale
<1>2. TypeOK'
  BY BoundsAssumption DEF IInv, TypeOK, Callings, CheckStale
<1>3. ~InLaunch(a)' /\ ~InRelease(a)' /\ call'[a].pc \notin HaltedPcs
  BY <1>1 DEF IInv, TypeOK, InLaunch, InRelease, Aborting, ReleasePcs, HaltedPcs, CheckStale
<1>4. /\ lock' = lock \/ lock \in {None, a}
      /\ \A b \in Callers : b # a => call'[b] = call[b]
      /\ UNCHANGED <<engine, stopping, born, vision, media, halted, closed>>
  BY DEF IInv, TypeOK, CheckStale
<1> QED BY <1>1, <1>2, <1>3, <1>4, Bystander

\* It is refused.
LEMMA LaunchRefusedStep ==
    ASSUME IInv, NEW a \in Callers, LaunchRefused(a)
    PROVE  IInv'
<1>1. ~InLaunch(a) /\ ~InRelease(a) /\ call[a].pc \notin HaltedPcs
  BY DEF IInv, Roles, Launching, Launches, InLaunch, InRelease, Aborting, ReleasePcs,
     HaltedPcs, LaunchRefused
<1>2. TypeOK'
  BY BoundsAssumption DEF IInv, TypeOK, Callings, LaunchRefused
<1>3. ~InLaunch(a)' /\ ~InRelease(a)' /\ call'[a].pc \notin HaltedPcs
  BY <1>1 DEF IInv, TypeOK, InLaunch, InRelease, Aborting, ReleasePcs, HaltedPcs, LaunchRefused
<1>4. /\ lock' = lock \/ lock \in {None, a}
      /\ \A b \in Callers : b # a => call'[b] = call[b]
      /\ UNCHANGED <<engine, stopping, born, vision, media, halted, closed>>
  BY DEF IInv, TypeOK, LaunchRefused
<1> QED BY <1>1, <1>2, <1>3, <1>4, Bystander

\* It finds a running engine.
LEMMA LaunchPresentStep ==
    ASSUME IInv, NEW a \in Callers, LaunchPresent(a)
    PROVE  IInv'
<1>1. ~InLaunch(a) /\ ~InRelease(a) /\ call[a].pc \notin HaltedPcs
  BY DEF IInv, Roles, Launching, Launches, InLaunch, InRelease, Aborting, ReleasePcs,
     HaltedPcs, LaunchPresent
<1>2. TypeOK'
  BY BoundsAssumption DEF IInv, TypeOK, Callings, LaunchPresent
<1>3. ~InLaunch(a)' /\ ~InRelease(a)' /\ call'[a].pc \notin HaltedPcs
  BY <1>1 DEF IInv, TypeOK, InLaunch, InRelease, Aborting, ReleasePcs, HaltedPcs, LaunchPresent
<1>4. /\ lock' = lock \/ lock \in {None, a}
      /\ \A b \in Callers : b # a => call'[b] = call[b]
      /\ UNCHANGED <<engine, stopping, born, vision, media, halted, closed>>
  BY DEF IInv, TypeOK, LaunchPresent
<1> QED BY <1>1, <1>2, <1>3, <1>4, Bystander

\* A sender is bound to an engine that runs.
LEMMA BindSenderStep ==
    ASSUME IInv, NEW a \in Callers, BindSender(a)
    PROVE  IInv'
<1>1. ~InLaunch(a) /\ ~InRelease(a) /\ call[a].pc \notin HaltedPcs
  BY DEF IInv, Roles, Launching, Launches, InLaunch, InRelease, Aborting, ReleasePcs,
     HaltedPcs, BindSender
<1>2. TypeOK'
  BY BoundsAssumption DEF IInv, TypeOK, Callings, BindSender
<1>3. ~InLaunch(a)' /\ ~InRelease(a)' /\ call'[a].pc \notin HaltedPcs
  BY <1>1 DEF IInv, TypeOK, InLaunch, InRelease, Aborting, ReleasePcs, HaltedPcs, BindSender
<1>4. /\ lock' = lock \/ lock \in {None, a}
      /\ \A b \in Callers : b # a => call'[b] = call[b]
      /\ UNCHANGED <<engine, stopping, born, vision, media, halted, closed>>
  BY DEF IInv, TypeOK, BindSender
<1> QED BY <1>1, <1>2, <1>3, <1>4, Bystander

\* A browser goes away.
LEMMA SenderEndsStep ==
    ASSUME IInv, NEW a \in Callers, SenderEnds(a)
    PROVE  IInv'
<1>1. ~InLaunch(a) /\ ~InRelease(a) /\ call[a].pc \notin HaltedPcs
  BY DEF IInv, Roles, Launching, Launches, InLaunch, InRelease, Aborting, ReleasePcs,
     HaltedPcs, SenderEnds
<1>2. TypeOK'
  BY BoundsAssumption DEF IInv, TypeOK, Callings, SenderEnds
<1>3. ~InLaunch(a)' /\ ~InRelease(a)' /\ call'[a].pc \notin HaltedPcs
  BY <1>1 DEF IInv, TypeOK, InLaunch, InRelease, Aborting, ReleasePcs, HaltedPcs, SenderEnds
<1>4. /\ lock' = lock \/ lock \in {None, a}
      /\ \A b \in Callers : b # a => call'[b] = call[b]
      /\ UNCHANGED <<engine, stopping, born, vision, media, halted, closed>>
  BY DEF IInv, TypeOK, SenderEnds
<1> QED BY <1>1, <1>2, <1>3, <1>4, Bystander

\* Its generation was replaced meanwhile.
LEMMA DropNothingStep ==
    ASSUME IInv, NEW a \in Callers, DropNothing(a)
    PROVE  IInv'
<1>1. ~InLaunch(a) /\ ~InRelease(a) /\ call[a].pc \notin HaltedPcs
  BY DEF IInv, Roles, Launching, Launches, InLaunch, InRelease, Aborting, ReleasePcs,
     HaltedPcs, DropNothing
<1>2. TypeOK'
  BY BoundsAssumption DEF IInv, TypeOK, Callings, DropNothing
<1>3. ~InLaunch(a)' /\ ~InRelease(a)' /\ call'[a].pc \notin HaltedPcs
  BY <1>1 DEF IInv, TypeOK, InLaunch, InRelease, Aborting, ReleasePcs, HaltedPcs, DropNothing
<1>4. /\ lock' = lock \/ lock \in {None, a}
      /\ \A b \in Callers : b # a => call'[b] = call[b]
      /\ UNCHANGED <<engine, stopping, born, vision, media, halted, closed>>
  BY DEF IInv, TypeOK, DropNothing
<1> QED BY <1>1, <1>2, <1>3, <1>4, Bystander

\* There is nothing to stop.
LEMMA DetachNothingStep ==
    ASSUME IInv, NEW a \in Callers, DetachNothing(a)
    PROVE  IInv'
<1>1. ~InLaunch(a) /\ ~InRelease(a) /\ call[a].pc \notin HaltedPcs
  BY DEF IInv, Roles, Launching, Launches, InLaunch, InRelease, Aborting, ReleasePcs,
     HaltedPcs, DetachNothing, AfterStop
<1>2. TypeOK'
  BY BoundsAssumption DEF IInv, TypeOK, Callings, DetachNothing, AfterStop
<1>3. ~InLaunch(a)' /\ ~InRelease(a)' /\ call'[a].pc \notin HaltedPcs
  BY <1>1 DEF IInv, TypeOK, InLaunch, InRelease, Aborting, ReleasePcs, HaltedPcs,
     DetachNothing, AfterStop
<1>4. /\ lock' = lock \/ lock \in {None, a}
      /\ \A b \in Callers : b # a => call'[b] = call[b]
      /\ UNCHANGED <<engine, stopping, born, vision, media, halted, closed>>
  BY DEF IInv, TypeOK, DetachNothing, AfterStop
<1> QED BY <1>1, <1>2, <1>3, <1>4, Bystander

-----------------------------------------------------------------------------
(* Launching.                                                              *)

\* A generation is born: nothing is public or being released, so it is alone.
LEMMA LaunchStep ==
    ASSUME IInv, NEW a \in Callers, Launch(a)
    PROVE  IInv'
<1>1. ~InLaunch(a) /\ ~InRelease(a)
  BY DEF IInv, TypeOK, Callings, Launch, Roles, Exclusive, Launching, Launches, Releasing,
     OneReleaser,
     InLaunch, InRelease, Aborting, ReleasePcs
<1>2. [pc |-> "ready", op |-> call[a].op, gen |-> born + 1] \in Callings
  BY BoundsAssumption DEF IInv, TypeOK, Callings, Launch
<1>3. \E c \in Callings : call' = [call EXCEPT ![a] = c]
  BY <1>1, <1>2, IdleCalling, BoundsAssumption DEF IInv, TypeOK, Callings, Gens, Launch
<1>4. /\ call' \in [Callers -> Callings]
      /\ \A b \in Callers : b # a => call'[b] = call[b]
  BY <1>3 DEF IInv, TypeOK
<1>5. call'[a].pc = "ready" /\ call'[a].op = call[a].op /\ call'[a].gen = born + 1
  BY <1>1, <1>2, BoundsAssumption DEF IInv, TypeOK, Callings, Gens, InLaunch, InRelease,
     Aborting, ReleasePcs, Launch
<1>6. TypeOK'
  BY <1>1, <1>2, <1>4, <1>5, BoundsAssumption DEF IInv, TypeOK, Gens, Launch
<1>7. Roles'
  <2>1. Exclusive'
    BY <1>1 DEF IInv, TypeOK, Roles, Exclusive, Launch
  <2>2. Launching'
    BY <1>1, <1>2, <1>4, <1>5, CallersAssumption, BoundsAssumption DEF IInv, TypeOK, Marks,
       Fresh, Gens, Launch,
       Roles, Launching, Launches, InLaunch, Aborting
  <2>3. Releasing'
    BY <1>1, <1>2, <1>4, <1>5 DEF IInv, TypeOK, Launch, Roles, Exclusive, Releasing,
       OneReleaser, InRelease, Aborting, ReleasePcs
  <2>4. OneReleaser'
    BY <1>1, <1>2, <1>4, <1>5 DEF IInv, TypeOK, Launch, Roles, Exclusive, Releasing,
       OneReleaser, InRelease, Aborting, ReleasePcs
  <2> QED BY <2>1, <2>2, <2>3, <2>4 DEF Roles
<1>8. Marks'
  <2>1. HaltedBy'
    BY <1>1, <1>2, <1>4, <1>5 DEF IInv, TypeOK, Marks, HaltedBy, HaltedPcs, Launch
  <2>2. ClosedBy'
    BY <1>1, <1>2, <1>4, <1>5 DEF IInv, TypeOK, Roles, Launching, Launches, InLaunch, Aborting,
       Marks, ClosedBy, Launch
  <2>3. Quiet'
    BY <1>1, <1>2, <1>4, <1>5, BoundsAssumption DEF IInv, TypeOK, Gens, Roles, Launching,
       Launches, Marks, Quiet, Fresh, Launch
  <2>4. Fresh'
    BY <1>1, <1>2, <1>4, <1>5, BoundsAssumption DEF IInv, TypeOK, Gens, Roles, Launching,
       Launches, Marks, Fresh, Numbered, Launch
  <2>5. Numbered'
    BY <1>1, <1>2, <1>4, <1>5 DEF IInv, TypeOK, Gens, Marks, Numbered, Launch
  <2> QED BY <2>1, <2>2, <2>3, <2>4, <2>5 DEF Marks
<1>9. Covered'
  BY <1>1, <1>2, <1>4, <1>5, BoundsAssumption DEF IInv, TypeOK, Gens, Launch, Roles, Exclusive,
     Launching, Launches,
     Marks, HaltedBy, ClosedBy, Quiet, HaltedPcs, Covered, LateEvidence, Unhalted
<1> QED BY <1>6, <1>7, <1>8, <1>9 DEF IInv

\* The launch ends with a running engine; the lock kept the others from launching.
LEMMA StartedStep ==
    ASSUME IInv, NEW a \in Callers, Started(a)
    PROVE  IInv'
<1>1. InLaunch(a) /\ call[a].op \notin Aborting
  BY DEF IInv, TypeOK, Callings, Started, Roles, Exclusive, Launching, Launches, Releasing,
     OneReleaser,
     InLaunch, InRelease, Aborting, ReleasePcs
<1>2. call[a].gen \in Gens
  BY <1>1, RoleGen
<1>3. \E c \in Callings : call' = [call EXCEPT ![a] = c]
  <2>1. CASE call[a].op = "acquire"
    BY <1>1, <1>2, <2>1, IdleCalling, BoundsAssumption DEF IInv, TypeOK, Callings, Gens,
       Aborting, Started
  <2>2. CASE call[a].op # "acquire"
    BY <1>1, <1>2, <2>2, IdleCalling, BoundsAssumption DEF IInv, TypeOK, Callings, Gens,
       Aborting, Started
  <2> QED BY <2>1, <2>2, <1>1, <1>2 DEF IInv, TypeOK, Callings, Aborting, Started
<1>4. /\ call' \in [Callers -> Callings]
      /\ \A b \in Callers : b # a => call'[b] = call[b]
  BY <1>3 DEF IInv, TypeOK
<1>5. call'[a].pc \in {"idle", "bind"} /\ call'[a].op \notin Aborting
  BY <1>1, <1>2, BoundsAssumption DEF IInv, TypeOK, Callings, Gens, InLaunch, InRelease,
     Aborting, ReleasePcs, Started
<1>6. TypeOK'
  BY <1>1, <1>2, <1>4, <1>5, BoundsAssumption DEF IInv, TypeOK, Gens, Started
<1>7. Roles'
  <2>1. Exclusive'
    BY <1>1 DEF IInv, TypeOK, Roles, Exclusive, Started
  <2>2. Launching'
    BY <1>1, <1>2, <1>4, <1>5, CallersAssumption, BoundsAssumption DEF IInv, TypeOK, Marks,
       Fresh, Gens, Started,
       Roles, Launching, Launches, InLaunch, Aborting
  <2>3. Releasing'
    BY <1>1, <1>2, <1>4, <1>5 DEF IInv, TypeOK, Started, Roles, Exclusive, Releasing,
       OneReleaser, InRelease, Aborting, ReleasePcs
  <2>4. OneReleaser'
    BY <1>1, <1>2, <1>4, <1>5 DEF IInv, TypeOK, Started, Roles, Exclusive, Releasing,
       OneReleaser, InRelease, Aborting, ReleasePcs
  <2> QED BY <2>1, <2>2, <2>3, <2>4 DEF Roles
<1>8. Marks'
  <2>1. HaltedBy'
    BY <1>1, <1>2, <1>4, <1>5 DEF IInv, TypeOK, Marks, HaltedBy, HaltedPcs, Started
  <2>2. ClosedBy'
    BY <1>1, <1>2, <1>4, <1>5 DEF IInv, TypeOK, Roles, Launching, Launches, InLaunch, Aborting,
       Marks, ClosedBy, Started
  <2>3. Quiet'
    BY <1>1, <1>2, <1>4, <1>5, BoundsAssumption DEF IInv, TypeOK, Gens, Roles, Launching,
       Launches, Marks, Quiet, Fresh, Started
  <2>4. Fresh'
    BY <1>1, <1>2, <1>4, <1>5, BoundsAssumption DEF IInv, TypeOK, Gens, Roles, Launching,
       Launches, Marks, Fresh, Numbered, Started
  <2>5. Numbered'
    BY <1>1, <1>2, <1>4, <1>5 DEF IInv, TypeOK, Gens, Marks, Numbered, Started
  <2> QED BY <2>1, <2>2, <2>3, <2>4, <2>5 DEF Marks
<1>9. Covered'
  BY <1>1, <1>2, <1>4, <1>5, BoundsAssumption DEF IInv, TypeOK, Gens, Started, Roles,
     Exclusive, Launching, Launches,
     Marks, HaltedBy, ClosedBy, Quiet, HaltedPcs, Covered, LateEvidence, Unhalted
<1> QED BY <1>6, <1>7, <1>8, <1>9 DEF IInv

\* The launch begins to undo itself, still under the lock.
LEMMA StartFailsStep ==
    ASSUME IInv, NEW a \in Callers, StartFails(a)
    PROVE  IInv'
<1>1. InLaunch(a)
  BY DEF IInv, TypeOK, Callings, StartFails, Roles, Exclusive, Launching, Launches, Releasing,
     OneReleaser,
     InLaunch, InRelease, Aborting, ReleasePcs
<1>2. call[a].gen \in Gens
  BY <1>1, RoleGen
<1>3. \E c \in Callings : call' = [call EXCEPT ![a] = c]
  BY <1>1, <1>2, IdleCalling, BoundsAssumption DEF IInv, TypeOK, Callings, Gens, StartFails
<1>4. /\ call' \in [Callers -> Callings]
      /\ \A b \in Callers : b # a => call'[b] = call[b]
  BY <1>3 DEF IInv, TypeOK
<1>5. call'[a] = [pc |-> "joinCapture", op |-> "abort", gen |-> call[a].gen]
  BY <1>1, <1>2, BoundsAssumption DEF IInv, TypeOK, Callings, Gens, InLaunch, InRelease,
     Aborting, ReleasePcs, StartFails
<1>6. TypeOK'
  BY <1>1, <1>2, <1>4, <1>5, BoundsAssumption DEF IInv, TypeOK, Gens, StartFails
<1>7. Roles'
  <2>1. InLaunch(a)' => InLaunch(a) /\ Launches(a)'
    BY <1>1, <1>5 DEF IInv, Roles, Launching, Launches, InLaunch, InRelease, Aborting,
       ReleasePcs, StartFails
  <2>2. (InRelease(a)' => InRelease(a)) /\ call'[a].gen = call[a].gen
    BY <1>1, <1>5 DEF InLaunch, InRelease, Aborting, ReleasePcs, StartFails
  <2> QED BY <1>4, <2>1, <2>2, RolesKept DEF IInv, StartFails
<1>8. Marks'
  <2>1. HaltedBy'
    BY <1>1, <1>2, <1>4, <1>5 DEF IInv, TypeOK, Marks, HaltedBy, HaltedPcs, StartFails
  <2>2. ClosedBy'
    BY <1>1, <1>2, <1>4, <1>5 DEF IInv, TypeOK, Roles, Launching, Launches, InLaunch, Aborting,
       Marks, ClosedBy, StartFails
  <2>3. Quiet'
    BY <1>1, <1>2, <1>4, <1>5, BoundsAssumption DEF IInv, TypeOK, Gens, Roles, Launching,
       Launches, Marks, Quiet, Fresh, StartFails
  <2>4. Fresh'
    BY <1>1, <1>2, <1>4, <1>5, BoundsAssumption DEF IInv, TypeOK, Gens, Roles, Launching,
       Launches, Marks, Fresh, Numbered, StartFails
  <2>5. Numbered'
    BY <1>1, <1>2, <1>4, <1>5 DEF IInv, TypeOK, Gens, Marks, Numbered, StartFails
  <2> QED BY <2>1, <2>2, <2>3, <2>4, <2>5 DEF Marks
<1>9. Covered'
  BY <1>1, <1>2, <1>4, <1>5, BoundsAssumption DEF IInv, TypeOK, Gens, StartFails, Roles,
     Exclusive, Launching, Launches,
     Marks, HaltedBy, ClosedBy, Quiet, HaltedPcs, Covered, LateEvidence, Unhalted
<1> QED BY <1>6, <1>7, <1>8, <1>9 DEF IInv

\* A failed launch takes its halted, quiet engine back.
LEMMA WithdrawStep ==
    ASSUME IInv, NEW a \in Callers, Withdraw(a)
    PROVE  IInv'
<1>1. /\ call[a].op = "withdraw" /\ InLaunch(a)
      /\ engine = call[a].gen /\ lock = a
     
  BY DEF IInv, TypeOK, Callings, Withdraw, Marks, ClosedBy, Roles, Exclusive, Launching,
     Launches, Releasing, OneReleaser,
     InLaunch, InRelease, Aborting, ReleasePcs
<1>2. call[a].gen \in Gens
  BY <1>1, RoleGen
<1>3. \E c \in Callings : call' = [call EXCEPT ![a] = c]
  BY <1>1, <1>2, IdleCalling, BoundsAssumption DEF IInv, TypeOK, Callings, Gens, Withdraw
<1>4. /\ call' \in [Callers -> Callings]
      /\ \A b \in Callers : b # a => call'[b] = call[b]
  BY <1>3 DEF IInv, TypeOK
<1>5. call'[a] = Idle
  BY <1>1, <1>2, BoundsAssumption DEF IInv, TypeOK, Callings, Gens, InLaunch, InRelease,
     Aborting, ReleasePcs, Withdraw
<1>6. TypeOK'
  BY <1>1, <1>2, <1>4, <1>5, BoundsAssumption DEF IInv, TypeOK, Gens, Withdraw
<1>7. Roles'
  <2>1. Exclusive'
    BY <1>1 DEF IInv, TypeOK, Roles, Exclusive, Withdraw
  <2>2. Launching'
    BY <1>1, <1>2, <1>4, <1>5, CallersAssumption, BoundsAssumption DEF IInv, TypeOK, Marks,
       Fresh, Gens, Withdraw,
       Roles, Launching, Launches, InLaunch, Aborting
  <2>3. Releasing'
    BY <1>1, <1>2, <1>4, <1>5 DEF IInv, TypeOK, Withdraw, Roles, Exclusive, Releasing,
       OneReleaser, InRelease, Aborting, ReleasePcs
  <2>4. OneReleaser'
    BY <1>1, <1>2, <1>4, <1>5 DEF IInv, TypeOK, Withdraw, Roles, Exclusive, Releasing,
       OneReleaser, InRelease, Aborting, ReleasePcs
  <2> QED BY <2>1, <2>2, <2>3, <2>4 DEF Roles
<1>8. Marks'
  <2>1. HaltedBy'
    BY <1>1, <1>2, <1>4, <1>5 DEF IInv, TypeOK, Marks, HaltedBy, HaltedPcs, Withdraw
  <2>2. ClosedBy'
    BY <1>1, <1>2, <1>4, <1>5 DEF IInv, TypeOK, Roles, Launching, Launches, InLaunch, Aborting,
       Marks, ClosedBy, Withdraw
  <2>3. Quiet'
    BY <1>1, <1>2, <1>4, <1>5, BoundsAssumption DEF IInv, TypeOK, Gens, Roles, Launching,
       Launches, Marks, Quiet, Fresh, Withdraw
  <2>4. Fresh'
    BY <1>1, <1>2, <1>4, <1>5, BoundsAssumption DEF IInv, TypeOK, Gens, Roles, Launching,
       Launches, Marks, Fresh, Numbered, Withdraw
  <2>5. Numbered'
    BY <1>1, <1>2, <1>4, <1>5 DEF IInv, TypeOK, Gens, Marks, Numbered, Withdraw
  <2> QED BY <2>1, <2>2, <2>3, <2>4, <2>5 DEF Marks
<1>9. Covered'
  BY <1>1, <1>2, <1>4, <1>5, BoundsAssumption DEF IInv, TypeOK, Gens, Withdraw, Roles,
     Exclusive, Launching, Launches,
     Marks, HaltedBy, ClosedBy, Quiet, HaltedPcs, Covered, LateEvidence, Unhalted
<1> QED BY <1>6, <1>7, <1>8, <1>9 DEF IInv

-----------------------------------------------------------------------------
(* Releasing.                                                              *)

\* The public generation moves to the stopping registry, with one releaser.
LEMMA DetachStep ==
    ASSUME IInv, NEW a \in Callers, Detach(a)
    PROVE  IInv'
<1>1. ~InLaunch(a) /\ ~InRelease(a)
  BY DEF IInv, TypeOK, Callings, Detach, Roles, Exclusive, Launching, Launches, Releasing,
     OneReleaser,
     InLaunch, InRelease, Aborting, ReleasePcs
<1>2. call[a] \in Callings
  BY DEF IInv, TypeOK
<1>3. \E c \in Callings : call' = [call EXCEPT ![a] = c]
  BY <1>1, <1>2, IdleCalling, BoundsAssumption DEF IInv, TypeOK, Callings, Gens, Detach
<1>4. /\ call' \in [Callers -> Callings]
      /\ \A b \in Callers : b # a => call'[b] = call[b]
  BY <1>3 DEF IInv, TypeOK
<1>5. call'[a].pc = "mark" /\ call'[a].op = call[a].op /\ call'[a].gen = engine
  BY <1>1, <1>2, BoundsAssumption DEF IInv, TypeOK, Callings, Gens, InLaunch, InRelease,
     Aborting, ReleasePcs, Detach
<1>6. TypeOK'
  BY <1>1, <1>2, <1>4, <1>5, BoundsAssumption DEF IInv, TypeOK, Gens, Detach
<1>7. Roles'
  <2>1. Exclusive'
    BY <1>1 DEF IInv, TypeOK, Roles, Exclusive, Detach
  <2>2. Launching'
    BY <1>1, <1>2, <1>4, <1>5, CallersAssumption, BoundsAssumption DEF IInv, TypeOK, Marks,
       Fresh, Gens, Detach,
       Roles, Launching, Launches, InLaunch, Aborting
  <2>3. Releasing'
    BY <1>1, <1>2, <1>4, <1>5 DEF IInv, TypeOK, Detach, Roles, Exclusive, Releasing,
       OneReleaser, InRelease, Aborting, ReleasePcs
  <2>4. OneReleaser'
    BY <1>1, <1>2, <1>4, <1>5 DEF IInv, TypeOK, Detach, Roles, Exclusive, Releasing,
       OneReleaser, InRelease, Aborting, ReleasePcs
  <2> QED BY <2>1, <2>2, <2>3, <2>4 DEF Roles
<1>8. Marks'
  <2>1. HaltedBy'
    BY <1>1, <1>2, <1>4, <1>5 DEF IInv, TypeOK, Marks, HaltedBy, HaltedPcs, Detach
  <2>2. ClosedBy'
    BY <1>1, <1>2, <1>4, <1>5 DEF IInv, TypeOK, Roles, Launching, Launches, InLaunch, Aborting,
       Marks, ClosedBy, Detach
  <2>3. Quiet'
    BY <1>1, <1>2, <1>4, <1>5, BoundsAssumption DEF IInv, TypeOK, Gens, Roles, Launching,
       Launches, Marks, Quiet, Fresh, Detach
  <2>4. Fresh'
    BY <1>1, <1>2, <1>4, <1>5, BoundsAssumption DEF IInv, TypeOK, Gens, Roles, Launching,
       Launches, Marks, Fresh, Numbered, Detach
  <2>5. Numbered'
    BY <1>1, <1>2, <1>4, <1>5 DEF IInv, TypeOK, Gens, Marks, Numbered, Detach
  <2> QED BY <2>1, <2>2, <2>3, <2>4, <2>5 DEF Marks
<1>9. Covered'
  BY <1>1, <1>2, <1>4, <1>5, BoundsAssumption DEF IInv, TypeOK, Gens, Detach, Roles, Exclusive,
     Launching, Launches,
     Marks, HaltedBy, ClosedBy, Quiet, HaltedPcs, Covered, LateEvidence, Unhalted
<1> QED BY <1>6, <1>7, <1>8, <1>9 DEF IInv

\* The same for a browser that went away, whether its save succeeds or not.
LEMMA DropSenderStep ==
    ASSUME IInv, NEW a \in Callers, DropSender(a)
    PROVE  IInv'
<1>1. ~InLaunch(a) /\ ~InRelease(a) /\ call[a].gen = engine /\ call[a].op \notin Aborting
  BY DEF IInv, TypeOK, Callings, DropSender, Roles, Exclusive, Launching, Launches, Releasing,
     OneReleaser,
     InLaunch, InRelease, Aborting, ReleasePcs
<1>2. call[a].gen \in Gens
  BY DEF IInv, TypeOK, Gens, DropSender
<1>3. \E c \in Callings : call' = [call EXCEPT ![a] = c]
  <2>1. CASE call' = [call EXCEPT ![a] = Idle]
    BY <1>1, <1>2, <2>1, IdleCalling, BoundsAssumption DEF IInv, TypeOK, Callings, Gens,
       Aborting, DropSender
  <2>2. CASE GotoAs(a, "halt", "stop")
    BY <1>1, <1>2, <2>2, IdleCalling, BoundsAssumption DEF IInv, TypeOK, Callings, Gens,
       Aborting, DropSender
  <2> QED BY <2>1, <2>2, <1>1, <1>2 DEF IInv, TypeOK, Callings, Aborting, DropSender
<1>4. /\ call' \in [Callers -> Callings]
      /\ \A b \in Callers : b # a => call'[b] = call[b]
  BY <1>3 DEF IInv, TypeOK
<1>5. \/ call'[a] = Idle
      \/ call'[a] = [pc |-> "halt", op |-> "stop", gen |-> engine]
  BY <1>1, <1>2, BoundsAssumption DEF IInv, TypeOK, Callings, Gens, InLaunch, InRelease,
     Aborting, ReleasePcs, DropSender
<1>6. TypeOK'
  <2>1. session' \in [Gens -> {"none", "streaming", "error", "disconnected", "stopped"}]
    BY <1>2 DEF IInv, TypeOK, DropSender
  <2>2. /\ UNCHANGED <<lock, born, capture, vision, media, halted, failed, closed, forced, connected, handle, lease>>
        /\ engine' = 0 /\ stopping' = call[a].gen /\ sender' = sender \ {call[a].gen}
    BY DEF DropSender
  <2> QED BY <1>2, <1>4, <2>1, <2>2, BoundsAssumption DEF IInv, TypeOK, Gens
<1>7. Roles'
  <2>1. Exclusive'
    BY <1>1 DEF IInv, TypeOK, Roles, Exclusive, DropSender
  <2>2. Launching'
    BY <1>1, <1>2, <1>4, <1>5, CallersAssumption, BoundsAssumption DEF IInv, TypeOK, Marks,
       Fresh, Gens, DropSender,
       Roles, Launching, Launches, InLaunch, Aborting
  <2>3. Releasing'
    BY <1>1, <1>2, <1>4, <1>5, BoundsAssumption DEF IInv, TypeOK, Gens, DropSender, Roles,
       Exclusive, Releasing, OneReleaser, InRelease, Aborting, ReleasePcs
  <2>4. OneReleaser'
    BY <1>1, <1>2, <1>4, <1>5, BoundsAssumption DEF IInv, TypeOK, Gens, DropSender, Roles,
       Exclusive, Releasing, OneReleaser, InRelease, Aborting, ReleasePcs
  <2> QED BY <2>1, <2>2, <2>3, <2>4 DEF Roles
<1>8. Marks'
  <2>1. HaltedBy'
    BY <1>1, <1>2, <1>4, <1>5 DEF IInv, TypeOK, Marks, HaltedBy, HaltedPcs, DropSender
  <2>2. ClosedBy'
    BY <1>1, <1>2, <1>4, <1>5 DEF IInv, TypeOK, Roles, Launching, Launches, InLaunch, Aborting,
       Marks, ClosedBy, DropSender
  <2>3. Quiet'
    BY <1>1, <1>2, <1>4, <1>5, BoundsAssumption DEF IInv, TypeOK, Gens, Roles, Launching,
       Launches, Marks, Quiet, Fresh, DropSender
  <2>4. Fresh'
    BY <1>1, <1>2, <1>4, <1>5, BoundsAssumption DEF IInv, TypeOK, Gens, Roles, Launching,
       Launches, Marks, Fresh, Numbered, DropSender
  <2>5. Numbered'
    BY <1>1, <1>2, <1>4, <1>5 DEF IInv, TypeOK, Gens, Marks, Numbered, DropSender
  <2> QED BY <2>1, <2>2, <2>3, <2>4, <2>5 DEF Marks
<1>9. Covered'
  BY <1>1, <1>2, <1>4, <1>5, BoundsAssumption DEF IInv, TypeOK, Gens, DropSender, Roles,
     Exclusive, Launching, Launches,
     Marks, HaltedBy, ClosedBy, Quiet, HaltedPcs, Covered, LateEvidence, Unhalted
<1> QED BY <1>6, <1>7, <1>8, <1>9 DEF IInv

\* Announced, then halted.
LEMMA MarkDisconnectedStep ==
    ASSUME IInv, NEW a \in Callers, MarkDisconnected(a)
    PROVE  IInv'
<1>1. InRelease(a)
  BY DEF IInv, TypeOK, Callings, MarkDisconnected, Roles, Exclusive, Launching, Launches,
     Releasing, OneReleaser,
     InLaunch, InRelease, Aborting, ReleasePcs
<1>2. call[a].gen \in Gens
  BY <1>1, RoleGen
<1>3. \E c \in Callings : call' = [call EXCEPT ![a] = c]
  BY <1>1, <1>2, IdleCalling, BoundsAssumption DEF IInv, TypeOK, Callings, Gens, MarkDisconnected
<1>4. /\ call' \in [Callers -> Callings]
      /\ \A b \in Callers : b # a => call'[b] = call[b]
  BY <1>3 DEF IInv, TypeOK
<1>5. call'[a] = [pc |-> "halt", op |-> call[a].op, gen |-> call[a].gen]
  BY <1>1, <1>2, BoundsAssumption DEF IInv, TypeOK, Callings, Gens, InLaunch, InRelease,
     Aborting, ReleasePcs, MarkDisconnected
<1>6. TypeOK'
  BY <1>1, <1>2, <1>4, <1>5, BoundsAssumption DEF IInv, TypeOK, Gens, MarkDisconnected
<1>7. Roles'
  <2>1. InLaunch(a)' => InLaunch(a) /\ Launches(a)'
    BY <1>1, <1>5 DEF IInv, Roles, Launching, Launches, InLaunch, InRelease, Aborting,
       ReleasePcs, MarkDisconnected
  <2>2. (InRelease(a)' => InRelease(a)) /\ call'[a].gen = call[a].gen
    BY <1>1, <1>5 DEF InLaunch, InRelease, Aborting, ReleasePcs, MarkDisconnected
  <2> QED BY <1>4, <2>1, <2>2, RolesKept DEF IInv, MarkDisconnected
<1>8. Marks'
  <2>1. HaltedBy'
    BY <1>1, <1>2, <1>4, <1>5 DEF IInv, TypeOK, Marks, HaltedBy, HaltedPcs, MarkDisconnected
  <2>2. ClosedBy'
    BY <1>1, <1>2, <1>4, <1>5 DEF IInv, TypeOK, Roles, Launching, Launches, InLaunch, Aborting,
       Marks, ClosedBy, MarkDisconnected
  <2>3. Quiet'
    BY <1>1, <1>2, <1>4, <1>5, BoundsAssumption DEF IInv, TypeOK, Gens, Roles, Launching,
       Launches, Marks, Quiet, Fresh, MarkDisconnected
  <2>4. Fresh'
    BY <1>1, <1>2, <1>4, <1>5, BoundsAssumption DEF IInv, TypeOK, Gens, Roles, Launching,
       Launches, Marks, Fresh, Numbered, MarkDisconnected
  <2>5. Numbered'
    BY <1>1, <1>2, <1>4, <1>5 DEF IInv, TypeOK, Gens, Marks, Numbered, MarkDisconnected
  <2> QED BY <2>1, <2>2, <2>3, <2>4, <2>5 DEF Marks
<1>9. Covered'
  BY <1>1, <1>2, <1>4, <1>5, BoundsAssumption DEF IInv, TypeOK, Gens, MarkDisconnected, Roles,
     Exclusive, Launching, Launches,
     Marks, HaltedBy, ClosedBy, Quiet, HaltedPcs, Covered, LateEvidence, Unhalted
<1> QED BY <1>6, <1>7, <1>8, <1>9 DEF IInv

\* The stop events are set.
LEMMA HaltStep ==
    ASSUME IInv, NEW a \in Callers, Halt(a)
    PROVE  IInv'
<1>1. InRelease(a)
  BY DEF IInv, TypeOK, Callings, Halt, Roles, Exclusive, Launching, Launches, Releasing,
     OneReleaser,
     InLaunch, InRelease, Aborting, ReleasePcs
<1>2. call[a].gen \in Gens
  BY <1>1, RoleGen
<1>3. \E c \in Callings : call' = [call EXCEPT ![a] = c]
  BY <1>1, <1>2, IdleCalling, BoundsAssumption DEF IInv, TypeOK, Callings, Gens, Halt
<1>4. /\ call' \in [Callers -> Callings]
      /\ \A b \in Callers : b # a => call'[b] = call[b]
  BY <1>3 DEF IInv, TypeOK
<1>5. call'[a] = [pc |-> "joinCapture", op |-> call[a].op, gen |-> call[a].gen]
  BY <1>1, <1>2, BoundsAssumption DEF IInv, TypeOK, Callings, Gens, InLaunch, InRelease,
     Aborting, ReleasePcs, Halt
<1>6. TypeOK'
  BY <1>1, <1>2, <1>4, <1>5, BoundsAssumption DEF IInv, TypeOK, Gens, Halt
<1>7. Roles'
  <2>1. InLaunch(a)' => InLaunch(a) /\ Launches(a)'
    BY <1>1, <1>5 DEF IInv, Roles, Launching, Launches, InLaunch, InRelease, Aborting,
       ReleasePcs, Halt
  <2>2. (InRelease(a)' => InRelease(a)) /\ call'[a].gen = call[a].gen
    BY <1>1, <1>5 DEF InLaunch, InRelease, Aborting, ReleasePcs, Halt
  <2> QED BY <1>4, <2>1, <2>2, RolesKept DEF IInv, Halt
<1>8. Marks'
  <2>1. HaltedBy'
    BY <1>1, <1>2, <1>4, <1>5 DEF IInv, TypeOK, Marks, HaltedBy, HaltedPcs, Halt
  <2>2. ClosedBy'
    BY <1>1, <1>2, <1>4, <1>5 DEF IInv, TypeOK, Roles, Launching, Launches, InLaunch, Aborting,
       Marks, ClosedBy, Halt
  <2>3. Quiet'
    BY <1>1, <1>2, <1>4, <1>5, BoundsAssumption DEF IInv, TypeOK, Gens, Roles, Launching,
       Launches, Marks, Quiet, Fresh, Halt
  <2>4. Fresh'
    BY <1>1, <1>2, <1>4, <1>5, BoundsAssumption DEF IInv, TypeOK, Gens, Roles, Launching,
       Launches, Marks, Fresh, Numbered, Halt
  <2>5. Numbered'
    BY <1>1, <1>2, <1>4, <1>5 DEF IInv, TypeOK, Gens, Marks, Numbered, Halt
  <2> QED BY <2>1, <2>2, <2>3, <2>4, <2>5 DEF Marks
<1>9. Covered'
  BY <1>1, <1>2, <1>4, <1>5, BoundsAssumption DEF IInv, TypeOK, Gens, Halt, Roles, Exclusive,
     Launching, Launches,
     Marks, HaltedBy, ClosedBy, Quiet, HaltedPcs, Covered, LateEvidence, Unhalted
<1> QED BY <1>6, <1>7, <1>8, <1>9 DEF IInv

\* The capture thread was joined; a failed launch joins it twice.
LEMMA JoinCaptureStep ==
    ASSUME IInv, NEW a \in Callers, JoinCapture(a)
    PROVE  IInv'
<1>1. (InLaunch(a) \/ InRelease(a))
  BY DEF IInv, TypeOK, Callings, JoinCapture, Roles, Exclusive, Launching, Launches, Releasing,
     OneReleaser,
     InLaunch, InRelease, Aborting, ReleasePcs
<1>2. call[a].gen \in Gens
  BY <1>1, RoleGen
<1>3. \E c \in Callings : call' = [call EXCEPT ![a] = c]
  <2>1. CASE call[a].op = "abort"
    BY <1>1, <1>2, <2>1, IdleCalling, BoundsAssumption DEF IInv, TypeOK, Callings, Gens,
       Aborting, JoinCapture, AfterCapture
  <2>2. CASE call[a].op # "abort"
    BY <1>1, <1>2, <2>2, IdleCalling, BoundsAssumption DEF IInv, TypeOK, Callings, Gens,
       Aborting, JoinCapture, AfterCapture
  <2> QED BY <2>1, <2>2, <1>1, <1>2 DEF IInv, TypeOK, Callings, Aborting, JoinCapture, AfterCapture
<1>4. /\ call' \in [Callers -> Callings]
      /\ \A b \in Callers : b # a => call'[b] = call[b]
  BY <1>3 DEF IInv, TypeOK
<1>5. /\ call'[a].pc \in {"joinCapture", "joinVision"} /\ call'[a].gen = call[a].gen
      /\ call'[a].op = IF call[a].op = "abort" THEN "withdraw" ELSE call[a].op
      /\ InLaunch(a)' = InLaunch(a) /\ InRelease(a)' = InRelease(a)
  BY <1>1, <1>2, BoundsAssumption DEF IInv, TypeOK, Callings, Gens, InLaunch, InRelease,
     Aborting, ReleasePcs, JoinCapture, AfterCapture
<1>6. TypeOK'
  BY <1>1, <1>2, <1>4, <1>5, BoundsAssumption DEF IInv, TypeOK, Gens, JoinCapture
<1>7. Roles'
  <2>1. InLaunch(a)' => InLaunch(a) /\ Launches(a)'
    BY <1>1, <1>5 DEF IInv, Roles, Launching, Launches, InLaunch, InRelease, Aborting,
       ReleasePcs, JoinCapture
  <2>2. (InRelease(a)' => InRelease(a)) /\ call'[a].gen = call[a].gen
    BY <1>1, <1>5 DEF InLaunch, InRelease, Aborting, ReleasePcs, JoinCapture
  <2> QED BY <1>4, <2>1, <2>2, RolesKept DEF IInv, JoinCapture
<1>8. Marks'
  <2>1. HaltedBy'
    BY <1>1, <1>2, <1>4, <1>5 DEF IInv, TypeOK, Marks, HaltedBy, HaltedPcs, JoinCapture
  <2>2. ClosedBy'
    BY <1>1, <1>2, <1>4, <1>5 DEF IInv, TypeOK, Roles, Launching, Launches, InLaunch, Aborting,
       Marks, ClosedBy, JoinCapture
  <2>3. Quiet'
    BY <1>1, <1>2, <1>4, <1>5, BoundsAssumption DEF IInv, TypeOK, Gens, Roles, Launching,
       Launches, Marks, Quiet, Fresh, JoinCapture
  <2>4. Fresh'
    BY <1>1, <1>2, <1>4, <1>5, BoundsAssumption DEF IInv, TypeOK, Gens, Roles, Launching,
       Launches, Marks, Fresh, Numbered, JoinCapture
  <2>5. Numbered'
    BY <1>1, <1>2, <1>4, <1>5 DEF IInv, TypeOK, Gens, Marks, Numbered, JoinCapture
  <2> QED BY <2>1, <2>2, <2>3, <2>4, <2>5 DEF Marks
<1>9. Covered'
  BY <1>1, <1>2, <1>4, <1>5, BoundsAssumption DEF IInv, TypeOK, Gens, JoinCapture, Roles,
     Exclusive, Launching, Launches,
     Marks, HaltedBy, ClosedBy, Quiet, HaltedPcs, Covered, LateEvidence, Unhalted
<1> QED BY <1>6, <1>7, <1>8, <1>9 DEF IInv

\* The join ran out.
LEMMA DisconnectBlockedStep ==
    ASSUME IInv, NEW a \in Callers, DisconnectBlocked(a)
    PROVE  IInv'
<1>1. (InLaunch(a) \/ InRelease(a))
  BY DEF IInv, TypeOK, Callings, DisconnectBlocked, Roles, Exclusive, Launching, Launches,
     Releasing, OneReleaser,
     InLaunch, InRelease, Aborting, ReleasePcs
<1>2. call[a].gen \in Gens
  BY <1>1, RoleGen
<1>3. \E c \in Callings : call' = [call EXCEPT ![a] = c]
  <2>1. CASE call[a].op = "abort"
    BY <1>1, <1>2, <2>1, IdleCalling, BoundsAssumption DEF IInv, TypeOK, Callings, Gens,
       Aborting, DisconnectBlocked, AfterCapture
  <2>2. CASE call[a].op # "abort"
    BY <1>1, <1>2, <2>2, IdleCalling, BoundsAssumption DEF IInv, TypeOK, Callings, Gens,
       Aborting, DisconnectBlocked, AfterCapture
  <2> QED BY <2>1, <2>2, <1>1, <1>2 DEF IInv, TypeOK, Callings, Aborting, DisconnectBlocked,
     AfterCapture
<1>4. /\ call' \in [Callers -> Callings]
      /\ \A b \in Callers : b # a => call'[b] = call[b]
  BY <1>3 DEF IInv, TypeOK
<1>5. /\ call'[a].pc \in {"joinCapture", "joinVision"} /\ call'[a].gen = call[a].gen
      /\ call'[a].op = IF call[a].op = "abort" THEN "withdraw" ELSE call[a].op
      /\ InLaunch(a)' = InLaunch(a) /\ InRelease(a)' = InRelease(a)
  BY <1>1, <1>2, BoundsAssumption DEF IInv, TypeOK, Callings, Gens, InLaunch, InRelease,
     Aborting, ReleasePcs, DisconnectBlocked, AfterCapture
<1>6. TypeOK'
  BY <1>1, <1>2, <1>4, <1>5, BoundsAssumption DEF IInv, TypeOK, Gens, DisconnectBlocked,
     Disconnected
<1>7. Roles'
  <2>1. InLaunch(a)' => InLaunch(a) /\ Launches(a)'
    BY <1>1, <1>5 DEF IInv, Roles, Launching, Launches, InLaunch, InRelease, Aborting,
       ReleasePcs, DisconnectBlocked
  <2>2. (InRelease(a)' => InRelease(a)) /\ call'[a].gen = call[a].gen
    BY <1>1, <1>5 DEF InLaunch, InRelease, Aborting, ReleasePcs, DisconnectBlocked
  <2> QED BY <1>4, <2>1, <2>2, RolesKept DEF IInv, DisconnectBlocked
<1>8. Marks'
  <2>1. HaltedBy'
    BY <1>1, <1>2, <1>4, <1>5 DEF IInv, TypeOK, Marks, HaltedBy, HaltedPcs, DisconnectBlocked
  <2>2. ClosedBy'
    BY <1>1, <1>2, <1>4, <1>5 DEF IInv, TypeOK, Roles, Launching, Launches, InLaunch, Aborting,
       Marks, ClosedBy, DisconnectBlocked
  <2>3. Quiet'
    BY <1>1, <1>2, <1>4, <1>5, BoundsAssumption DEF IInv, TypeOK, Gens, Roles, Launching,
       Launches, Marks, Quiet, Fresh, DisconnectBlocked
  <2>4. Fresh'
    BY <1>1, <1>2, <1>4, <1>5, BoundsAssumption DEF IInv, TypeOK, Gens, Roles, Launching,
       Launches, Marks, Fresh, Numbered, DisconnectBlocked
  <2>5. Numbered'
    BY <1>1, <1>2, <1>4, <1>5 DEF IInv, TypeOK, Gens, Marks, Numbered, DisconnectBlocked
  <2> QED BY <2>1, <2>2, <2>3, <2>4, <2>5 DEF Marks
<1>9. Covered'
  BY <1>1, <1>2, <1>4, <1>5, BoundsAssumption DEF IInv, TypeOK, Gens, DisconnectBlocked, Roles,
     Exclusive, Launching, Launches,
     Marks, HaltedBy, ClosedBy, Quiet, HaltedPcs, Covered, LateEvidence, Unhalted
<1> QED BY <1>6, <1>7, <1>8, <1>9 DEF IInv

\* The vision thread was joined, or its join ran out.
LEMMA JoinVisionStep ==
    ASSUME IInv, NEW a \in Callers, JoinVision(a)
    PROVE  IInv'
<1>1. (InLaunch(a) \/ InRelease(a))
  BY DEF IInv, TypeOK, Callings, JoinVision, Roles, Exclusive, Launching, Launches, Releasing,
     OneReleaser,
     InLaunch, InRelease, Aborting, ReleasePcs
<1>2. call[a].gen \in Gens
  BY <1>1, RoleGen
<1>3. \E c \in Callings : call' = [call EXCEPT ![a] = c]
  BY <1>1, <1>2, IdleCalling, BoundsAssumption DEF IInv, TypeOK, Callings, Gens, JoinVision
<1>4. /\ call' \in [Callers -> Callings]
      /\ \A b \in Callers : b # a => call'[b] = call[b]
  BY <1>3 DEF IInv, TypeOK
<1>5. call'[a] = [pc |-> "joinMedia", op |-> call[a].op, gen |-> call[a].gen]
  BY <1>1, <1>2, BoundsAssumption DEF IInv, TypeOK, Callings, Gens, InLaunch, InRelease,
     Aborting, ReleasePcs, JoinVision
<1>6. TypeOK'
  BY <1>1, <1>2, <1>4, <1>5, BoundsAssumption DEF IInv, TypeOK, Gens, JoinVision
<1>7. Roles'
  <2>1. InLaunch(a)' => InLaunch(a) /\ Launches(a)'
    BY <1>1, <1>5 DEF IInv, Roles, Launching, Launches, InLaunch, InRelease, Aborting,
       ReleasePcs, JoinVision
  <2>2. (InRelease(a)' => InRelease(a)) /\ call'[a].gen = call[a].gen
    BY <1>1, <1>5 DEF InLaunch, InRelease, Aborting, ReleasePcs, JoinVision
  <2> QED BY <1>4, <2>1, <2>2, RolesKept DEF IInv, JoinVision
<1>8. Marks'
  <2>1. HaltedBy'
    BY <1>1, <1>2, <1>4, <1>5 DEF IInv, TypeOK, Marks, HaltedBy, HaltedPcs, JoinVision
  <2>2. ClosedBy'
    BY <1>1, <1>2, <1>4, <1>5 DEF IInv, TypeOK, Roles, Launching, Launches, InLaunch, Aborting,
       Marks, ClosedBy, JoinVision
  <2>3. Quiet'
    BY <1>1, <1>2, <1>4, <1>5, BoundsAssumption DEF IInv, TypeOK, Gens, Roles, Launching,
       Launches, Marks, Quiet, Fresh, JoinVision
  <2>4. Fresh'
    BY <1>1, <1>2, <1>4, <1>5, BoundsAssumption DEF IInv, TypeOK, Gens, Roles, Launching,
       Launches, Marks, Fresh, Numbered, JoinVision
  <2>5. Numbered'
    BY <1>1, <1>2, <1>4, <1>5 DEF IInv, TypeOK, Gens, Marks, Numbered, JoinVision
  <2> QED BY <2>1, <2>2, <2>3, <2>4, <2>5 DEF Marks
<1>9. Covered'
  BY <1>1, <1>2, <1>4, <1>5, BoundsAssumption DEF IInv, TypeOK, Gens, JoinVision, Roles,
     Exclusive, Launching, Launches,
     Marks, HaltedBy, ClosedBy, Quiet, HaltedPcs, Covered, LateEvidence, Unhalted
<1> QED BY <1>6, <1>7, <1>8, <1>9 DEF IInv

\* The executor is shut down only when it has no job, and gets no other.
LEMMA JoinMediaStep ==
    ASSUME IInv, NEW a \in Callers, JoinMedia(a)
    PROVE  IInv'
<1>1. (InLaunch(a) \/ InRelease(a))
  BY DEF IInv, TypeOK, Callings, JoinMedia, Roles, Exclusive, Launching, Launches, Releasing,
     OneReleaser,
     InLaunch, InRelease, Aborting, ReleasePcs
<1>2. call[a].gen \in Gens
  BY <1>1, RoleGen
<1>3. \E c \in Callings : call' = [call EXCEPT ![a] = c]
  BY <1>1, <1>2, IdleCalling, BoundsAssumption DEF IInv, TypeOK, Callings, Gens, JoinMedia
<1>4. /\ call' \in [Callers -> Callings]
      /\ \A b \in Callers : b # a => call'[b] = call[b]
  BY <1>3 DEF IInv, TypeOK
<1>5. /\ call'[a].pc = IF call[a].op = "withdraw" THEN "withdraw" ELSE "seal"
      /\ call'[a].op = call[a].op /\ call'[a].gen = call[a].gen
  BY <1>1, <1>2, BoundsAssumption DEF IInv, TypeOK, Callings, Gens, InLaunch, InRelease,
     Aborting, ReleasePcs, JoinMedia
<1>6. TypeOK'
  BY <1>1, <1>2, <1>4, <1>5, BoundsAssumption DEF IInv, TypeOK, Gens, JoinMedia
<1>7. Roles'
  <2>1. InLaunch(a)' => InLaunch(a) /\ Launches(a)'
    BY <1>1, <1>5 DEF IInv, Roles, Launching, Launches, InLaunch, InRelease, Aborting,
       ReleasePcs, JoinMedia
  <2>2. (InRelease(a)' => InRelease(a)) /\ call'[a].gen = call[a].gen
    BY <1>1, <1>5 DEF InLaunch, InRelease, Aborting, ReleasePcs, JoinMedia
  <2> QED BY <1>4, <2>1, <2>2, RolesKept DEF IInv, JoinMedia
<1>8. Marks'
  <2>1. HaltedBy'
    BY <1>1, <1>2, <1>4, <1>5 DEF IInv, TypeOK, Marks, HaltedBy, HaltedPcs, JoinMedia
  <2>2. ClosedBy'
    BY <1>1, <1>2, <1>4, <1>5 DEF IInv, TypeOK, Roles, Launching, Launches, InLaunch, Aborting,
       Marks, ClosedBy, JoinMedia
  <2>3. Quiet'
    BY <1>1, <1>2, <1>4, <1>5, BoundsAssumption DEF IInv, TypeOK, Gens, Roles, Launching,
       Launches, Marks, Quiet, Fresh, JoinMedia
  <2>4. Fresh'
    BY <1>1, <1>2, <1>4, <1>5, BoundsAssumption DEF IInv, TypeOK, Gens, Roles, Launching,
       Launches, Marks, Fresh, Numbered, JoinMedia
  <2>5. Numbered'
    BY <1>1, <1>2, <1>4, <1>5 DEF IInv, TypeOK, Gens, Marks, Numbered, JoinMedia
  <2> QED BY <2>1, <2>2, <2>3, <2>4, <2>5 DEF Marks
<1>9. Covered'
  BY <1>1, <1>2, <1>4, <1>5, BoundsAssumption DEF IInv, TypeOK, Gens, JoinMedia, Roles,
     Exclusive, Launching, Launches,
     Marks, HaltedBy, ClosedBy, Quiet, HaltedPcs, Covered, LateEvidence, Unhalted
<1> QED BY <1>6, <1>7, <1>8, <1>9 DEF IInv

\* The session row is written for the last time.
LEMMA SealStep ==
    ASSUME IInv, NEW a \in Callers, Seal(a)
    PROVE  IInv'
<1>1. (InLaunch(a) \/ InRelease(a))
  BY DEF IInv, TypeOK, Callings, Seal, Roles, Exclusive, Launching, Launches, Releasing,
     OneReleaser,
     InLaunch, InRelease, Aborting, ReleasePcs
<1>2. call[a].gen \in Gens
  BY <1>1, RoleGen
<1>3. \E c \in Callings : call' = [call EXCEPT ![a] = c]
  BY <1>1, <1>2, IdleCalling, BoundsAssumption DEF IInv, TypeOK, Callings, Gens, Seal
<1>4. /\ call' \in [Callers -> Callings]
      /\ \A b \in Callers : b # a => call'[b] = call[b]
  BY <1>3 DEF IInv, TypeOK
<1>5. call'[a] = [pc |-> "clear", op |-> call[a].op, gen |-> call[a].gen]
  BY <1>1, <1>2, BoundsAssumption DEF IInv, TypeOK, Callings, Gens, InLaunch, InRelease,
     Aborting, ReleasePcs, Seal
<1>6. TypeOK'
  BY <1>1, <1>2, <1>4, <1>5, BoundsAssumption DEF IInv, TypeOK, Gens, Seal
<1>7. Roles'
  <2>1. InLaunch(a)' => InLaunch(a) /\ Launches(a)'
    BY <1>1, <1>5 DEF IInv, Roles, Launching, Launches, InLaunch, InRelease, Aborting,
       ReleasePcs, Seal
  <2>2. (InRelease(a)' => InRelease(a)) /\ call'[a].gen = call[a].gen
    BY <1>1, <1>5 DEF InLaunch, InRelease, Aborting, ReleasePcs, Seal
  <2> QED BY <1>4, <2>1, <2>2, RolesKept DEF IInv, Seal
<1>8. Marks'
  <2>1. HaltedBy'
    BY <1>1, <1>2, <1>4, <1>5 DEF IInv, TypeOK, Marks, HaltedBy, HaltedPcs, Seal
  <2>2. ClosedBy'
    BY <1>1, <1>2, <1>4, <1>5 DEF IInv, TypeOK, Roles, Launching, Launches, InLaunch, Aborting,
       Marks, ClosedBy, Seal
  <2>3. Quiet'
    BY <1>1, <1>2, <1>4, <1>5, BoundsAssumption DEF IInv, TypeOK, Gens, Roles, Launching,
       Launches, Marks, Quiet, Fresh, Seal
  <2>4. Fresh'
    BY <1>1, <1>2, <1>4, <1>5, BoundsAssumption DEF IInv, TypeOK, Gens, Roles, Launching,
       Launches, Marks, Fresh, Numbered, Seal
  <2>5. Numbered'
    BY <1>1, <1>2, <1>4, <1>5 DEF IInv, TypeOK, Gens, Marks, Numbered, Seal
  <2> QED BY <2>1, <2>2, <2>3, <2>4, <2>5 DEF Marks
<1>9. Covered'
  BY <1>1, <1>2, <1>4, <1>5, BoundsAssumption DEF IInv, TypeOK, Gens, Seal, Roles, Exclusive,
     Launching, Launches,
     Marks, HaltedBy, ClosedBy, Quiet, HaltedPcs, Covered, LateEvidence, Unhalted
<1> QED BY <1>6, <1>7, <1>8, <1>9 DEF IInv

\* Only the last save may raise here: the generation is halted and closed by then.
LEMMA SaveRaisesStep ==
    ASSUME IInv, "mark" \notin FailingSaves, NEW a \in Callers, SaveRaises(a)
    PROVE  IInv'
<1>1. call[a].pc = "seal" /\ InRelease(a)
  BY DEF IInv, TypeOK, Callings, SaveRaises, Roles, Exclusive, Launching, Launches, Releasing,
     OneReleaser,
     InLaunch, InRelease, Aborting, ReleasePcs
<1>2. call[a].gen \in Gens
  BY <1>1, RoleGen
<1>3. \E c \in Callings : call' = [call EXCEPT ![a] = c]
  BY <1>1, <1>2, IdleCalling, BoundsAssumption DEF IInv, TypeOK, Callings, Gens, SaveRaises
<1>4. /\ call' \in [Callers -> Callings]
      /\ \A b \in Callers : b # a => call'[b] = call[b]
  BY <1>3 DEF IInv, TypeOK
<1>5. call'[a] = [pc |-> "clear", op |-> "stop", gen |-> call[a].gen]
  BY <1>1, <1>2, BoundsAssumption DEF IInv, TypeOK, Callings, Gens, InLaunch, InRelease,
     Aborting, ReleasePcs, SaveRaises
<1>6. TypeOK'
  BY <1>1, <1>2, <1>4, <1>5, BoundsAssumption DEF IInv, TypeOK, Gens, SaveRaises
<1>7. Roles'
  <2>1. InLaunch(a)' => InLaunch(a) /\ Launches(a)'
    BY <1>1, <1>5 DEF IInv, Roles, Launching, Launches, InLaunch, InRelease, Aborting,
       ReleasePcs, SaveRaises
  <2>2. (InRelease(a)' => InRelease(a)) /\ call'[a].gen = call[a].gen
    BY <1>1, <1>5 DEF InLaunch, InRelease, Aborting, ReleasePcs, SaveRaises
  <2> QED BY <1>4, <2>1, <2>2, RolesKept DEF IInv, SaveRaises
<1>8. Marks'
  <2>1. HaltedBy'
    BY <1>1, <1>2, <1>4, <1>5 DEF IInv, TypeOK, Marks, HaltedBy, HaltedPcs, SaveRaises
  <2>2. ClosedBy'
    BY <1>1, <1>2, <1>4, <1>5 DEF IInv, TypeOK, Roles, Launching, Launches, InLaunch, Aborting,
       Marks, ClosedBy, SaveRaises
  <2>3. Quiet'
    BY <1>1, <1>2, <1>4, <1>5, BoundsAssumption DEF IInv, TypeOK, Gens, Roles, Launching,
       Launches, Marks, Quiet, Fresh, SaveRaises
  <2>4. Fresh'
    BY <1>1, <1>2, <1>4, <1>5, BoundsAssumption DEF IInv, TypeOK, Gens, Roles, Launching,
       Launches, Marks, Fresh, Numbered, SaveRaises
  <2>5. Numbered'
    BY <1>1, <1>2, <1>4, <1>5 DEF IInv, TypeOK, Gens, Marks, Numbered, SaveRaises
  <2> QED BY <2>1, <2>2, <2>3, <2>4, <2>5 DEF Marks
<1>9. Covered'
  BY <1>1, <1>2, <1>4, <1>5, BoundsAssumption DEF IInv, TypeOK, Gens, SaveRaises, Roles,
     Exclusive, Launching, Launches,
     Marks, HaltedBy, ClosedBy, Quiet, HaltedPcs, Covered, LateEvidence, Unhalted
<1> QED BY <1>6, <1>7, <1>8, <1>9 DEF IInv

\* A stop that raises before its try takes no part any more; what it detached
\* stays registered.
LEMMA LookRaisesStep ==
    ASSUME IInv, NEW a \in Callers, LookRaises(a)
    PROVE  IInv'
<1>1. call[a].pc = "mark" /\ (InRelease(a) \/ InLaunch(a))
  BY DEF IInv, TypeOK, Callings, LookRaises, Roles, Exclusive, Launching, Launches, Releasing,
     OneReleaser,
     InLaunch, InRelease, Aborting, ReleasePcs
<1>2. call[a].gen \in Gens
  BY <1>1, RoleGen
<1>3. \E c \in Callings : call' = [call EXCEPT ![a] = c]
  BY <1>1, <1>2, IdleCalling, BoundsAssumption DEF IInv, TypeOK, Callings, Gens, LookRaises
<1>4. /\ call' \in [Callers -> Callings]
      /\ \A b \in Callers : b # a => call'[b] = call[b]
  BY <1>3 DEF IInv, TypeOK
<1>5. call'[a] = Idle
  BY <1>1, <1>2, BoundsAssumption DEF IInv, TypeOK, Callings, Gens, InLaunch, InRelease,
     Aborting, ReleasePcs, LookRaises
<1>6. TypeOK'
  BY <1>1, <1>2, <1>4, <1>5, BoundsAssumption DEF IInv, TypeOK, Gens, LookRaises
<1>7. Roles'
  <2>1. Exclusive' BY DEF IInv, Roles, Exclusive, LookRaises
  <2>2. Launching'
    BY <1>1, <1>4, <1>5, CallersAssumption DEF IInv, TypeOK, Roles, Launching, Launches,
       InLaunch, Aborting, LookRaises
  <2>3. Releasing' BY <1>4, <1>5 DEF IInv, Roles, Releasing, InRelease, ReleasePcs, LookRaises
  <2>4. OneReleaser' BY <1>4, <1>5 DEF IInv, Roles, OneReleaser, InRelease, ReleasePcs
  <2> QED BY <2>1, <2>2, <2>3, <2>4 DEF Roles
<1>8. Marks'
  <2>1. HaltedBy'
    BY <1>1, <1>2, <1>4, <1>5 DEF IInv, TypeOK, Marks, HaltedBy, HaltedPcs, LookRaises
  <2>2. ClosedBy'
    BY <1>1, <1>2, <1>4, <1>5 DEF IInv, TypeOK, Roles, Launching, Launches, InLaunch, Aborting,
       Marks, ClosedBy, LookRaises
  <2>3. Quiet'
    BY <1>1, <1>2, <1>4, <1>5, BoundsAssumption DEF IInv, TypeOK, Gens, Roles, Launching,
       Launches, Marks, Quiet, Fresh, LookRaises
  <2>4. Fresh'
    BY <1>1, <1>2, <1>4, <1>5, BoundsAssumption DEF IInv, TypeOK, Gens, Roles, Launching,
       Launches, Marks, Fresh, Numbered, LookRaises
  <2>5. Numbered'
    BY <1>1, <1>2, <1>4, <1>5 DEF IInv, TypeOK, Gens, Marks, Numbered, LookRaises
  <2> QED BY <2>1, <2>2, <2>3, <2>4, <2>5 DEF Marks
<1>9. Covered'
  BY <1>1, <1>2, <1>4, <1>5, BoundsAssumption DEF IInv, TypeOK, Gens, LookRaises, Roles,
     Exclusive, Launching, Launches,
     Marks, HaltedBy, ClosedBy, Quiet, HaltedPcs, Covered, LateEvidence, Unhalted
<1> QED BY <1>6, <1>7, <1>8, <1>9 DEF IInv

\* The release ends: its generation is halted and has no job, so it may be forgotten.
LEMMA ClearStep ==
    ASSUME IInv, NEW a \in Callers, Clear(a)
    PROVE  IInv'
<1>1. InRelease(a) /\ stopping = call[a].gen
  BY DEF IInv, TypeOK, Callings, Clear, Roles, Exclusive, Launching, Launches, Releasing,
     OneReleaser,
     InLaunch, InRelease, Aborting, ReleasePcs
<1>2. call[a].gen \in Gens
  BY <1>1, RoleGen
<1>3. \E c \in Callings : call' = [call EXCEPT ![a] = c]
  <2>1. CASE call[a].op = "stop"
    BY <1>1, <1>2, <2>1, IdleCalling, BoundsAssumption DEF IInv, TypeOK, Callings, Gens,
       Aborting, Clear, AfterStop
  <2>2. CASE call[a].op = "restart"
    BY <1>1, <1>2, <2>2, IdleCalling, BoundsAssumption DEF IInv, TypeOK, Callings, Gens,
       Aborting, Clear, AfterStop
  <2>3. CASE call[a].op \notin {"stop", "restart"}
    BY <1>1, <1>2, <2>3, IdleCalling, BoundsAssumption DEF IInv, TypeOK, Callings, Gens,
       Aborting, Clear, AfterStop
  <2> QED BY <2>1, <2>2, <2>3, <1>1, <1>2 DEF IInv, TypeOK, Callings, Aborting, Clear, AfterStop
<1>4. /\ call' \in [Callers -> Callings]
      /\ \A b \in Callers : b # a => call'[b] = call[b]
  BY <1>3 DEF IInv, TypeOK
<1>5. /\ call'[a].pc \in {"idle", "check", "launch"} /\ call'[a].op \notin Aborting
      /\ lock' = lock \/ (lock = a /\ lock' = None)
  BY <1>1, <1>2, BoundsAssumption DEF IInv, TypeOK, Callings, Gens, InLaunch, InRelease,
     Aborting, ReleasePcs, Clear, AfterStop
<1>6. TypeOK'
  BY <1>1, <1>2, <1>4, <1>5, BoundsAssumption DEF IInv, TypeOK, Gens, Clear
<1>7. Roles'
  <2>1. Exclusive'
    BY <1>1 DEF IInv, TypeOK, Roles, Exclusive, Clear
  <2>2. Launching'
    BY <1>1, <1>2, <1>4, <1>5, CallersAssumption, BoundsAssumption DEF IInv, TypeOK, Marks,
       Fresh, Gens, Clear,
       Roles, Launching, Launches, InLaunch, Aborting
  <2>3. Releasing'
    BY <1>1, <1>2, <1>4, <1>5 DEF IInv, TypeOK, Clear, Roles, Exclusive, Releasing,
       OneReleaser, InRelease, Aborting, ReleasePcs
  <2>4. OneReleaser'
    BY <1>1, <1>2, <1>4, <1>5 DEF IInv, TypeOK, Clear, Roles, Exclusive, Releasing,
       OneReleaser, InRelease, Aborting, ReleasePcs
  <2> QED BY <2>1, <2>2, <2>3, <2>4 DEF Roles
<1>8. Marks'
  <2>1. HaltedBy'
    BY <1>1, <1>2, <1>4, <1>5 DEF IInv, TypeOK, Marks, HaltedBy, HaltedPcs, Clear
  <2>2. ClosedBy'
    BY <1>1, <1>2, <1>4, <1>5 DEF IInv, TypeOK, Roles, Launching, Launches, InLaunch, Aborting,
       Marks, ClosedBy, Clear
  <2>3. Quiet'
    BY <1>1, <1>2, <1>4, <1>5, BoundsAssumption DEF IInv, TypeOK, Gens, Roles, Launching,
       Launches, Marks, Quiet, Fresh, Clear
  <2>4. Fresh'
    BY <1>1, <1>2, <1>4, <1>5, BoundsAssumption DEF IInv, TypeOK, Gens, Roles, Launching,
       Launches, Marks, Fresh, Numbered, Clear
  <2>5. Numbered'
    BY <1>1, <1>2, <1>4, <1>5 DEF IInv, TypeOK, Gens, Marks, Numbered, Clear
  <2> QED BY <2>1, <2>2, <2>3, <2>4, <2>5 DEF Marks
<1>9. Covered'
  BY <1>1, <1>2, <1>4, <1>5, BoundsAssumption DEF IInv, TypeOK, Gens, Clear, Roles, Exclusive,
     Launching, Launches,
     Marks, HaltedBy, ClosedBy, Quiet, HaltedPcs, Covered, LateEvidence, Unhalted
<1> QED BY <1>6, <1>7, <1>8, <1>9 DEF IInv

-----------------------------------------------------------------------------
(* The threads of a generation.                                            *)

\* A capture thread changes nothing that IInv speaks about but types.
LEMMA CapturingStep ==
    ASSUME IInv, NEW g \in Gens, Capturing(g)
    PROVE  IInv'
<1>1. CASE AcquireLease(g)
  <2>1. TypeOK'
    BY <1>1, BoundsAssumption DEF IInv, TypeOK, Gens, AcquireLease
  <2> QED
    BY <1>1, <2>1, WorkerFrame DEF IInv, TypeOK, Marks, Quiet, AcquireLease
<1>2. CASE LeaseBusy(g)
  <2>1. TypeOK'
    BY <1>2, BoundsAssumption DEF IInv, TypeOK, Gens, LeaseBusy
  <2> QED
    BY <1>2, <2>1, WorkerFrame DEF IInv, TypeOK, Marks, Quiet, LeaseBusy
<1>3. CASE Opened(g)
  <2>1. TypeOK'
    BY <1>3, BoundsAssumption DEF IInv, TypeOK, Gens, Opened
  <2> QED
    BY <1>3, <2>1, WorkerFrame DEF IInv, TypeOK, Marks, Quiet, Opened
<1>4. CASE OpenFails(g)
  <2>1. TypeOK'
    BY <1>4, BoundsAssumption DEF IInv, TypeOK, Gens, OpenFails
  <2> QED
    BY <1>4, <2>1, WorkerFrame DEF IInv, TypeOK, Marks, Quiet, OpenFails
<1>5. CASE Reconnect(g)
  <2>1. TypeOK'
    BY <1>5, BoundsAssumption DEF IInv, TypeOK, Gens, Reconnect, Disconnected
  <2> QED
    BY <1>5, <2>1, WorkerFrame DEF IInv, TypeOK, Marks, Quiet, Reconnect, Disconnected
<1>6. CASE CaptureFails(g)
  <2>1. TypeOK'
    BY <1>6, BoundsAssumption DEF IInv, TypeOK, Gens, CaptureFails
  <2> QED
    BY <1>6, <2>1, WorkerFrame DEF IInv, TypeOK, Marks, Quiet, CaptureFails
<1>7. CASE CaptureStops(g)
  <2>1. TypeOK'
    BY <1>7, BoundsAssumption DEF IInv, TypeOK, Gens, CaptureStops
  <2> QED
    BY <1>7, <2>1, WorkerFrame DEF IInv, TypeOK, Marks, Quiet, CaptureStops
<1>8. CASE Release(g)
  <2>1. TypeOK'
    BY <1>8, BoundsAssumption DEF IInv, TypeOK, Gens, Release, Disconnected
  <2> QED
    BY <1>8, <2>1, WorkerFrame DEF IInv, TypeOK, Marks, Quiet, Release, Disconnected
<1> QED BY <1>1, <1>2, <1>3, <1>4, <1>5, <1>6, <1>7, <1>8 DEF Capturing

\* A vision thread gives jobs to open executors only.
LEMMA SeeingStep ==
    ASSUME IInv, NEW g \in Gens, Seeing(g)
    PROVE  IInv'
<1>1. CASE TrackBegin(g)
  <2>1. TypeOK'
    BY <1>1, BoundsAssumption DEF IInv, TypeOK, Gens, TrackBegin
  <2> QED
    BY <1>1, <2>1, WorkerFrame DEF IInv, TypeOK, Marks, Quiet, TrackBegin
<1>2. CASE TrackSave(g)
  <2>1. TypeOK'
    BY <1>2, BoundsAssumption DEF IInv, TypeOK, Gens, TrackSave
  <2> QED
    BY <1>2, <2>1, WorkerFrame DEF IInv, TypeOK, Marks, Quiet, TrackSave
<1>3. CASE Submit(g)
  <2>1. TypeOK'
    BY <1>3, BoundsAssumption DEF IInv, TypeOK, Gens, Submit
  <2> QED
    BY <1>3, <2>1, WorkerFrame DEF IInv, TypeOK, Marks, Quiet, Submit
<1>4. CASE VisionEnds(g)
  <2>1. TypeOK'
    BY <1>4, BoundsAssumption DEF IInv, TypeOK, Gens, VisionEnds
  <2> QED
    BY <1>4, <2>1, WorkerFrame DEF IInv, TypeOK, Marks, Quiet, VisionEnds
<1> QED BY <1>1, <1>2, <1>3, <1>4 DEF Seeing

\* A media job passes the check only while its generation is public.
LEMMA PersistingStep ==
    ASSUME IInv, NEW g \in Gens, Persisting(g)
    PROVE  IInv'
<1>1. CASE EventBegin(g)
  <2>1. TypeOK'
    BY <1>1, BoundsAssumption DEF IInv, TypeOK, Gens, EventBegin
  <2> QED
    BY <1>1, <2>1, WorkerFrame DEF IInv, TypeOK, Marks, Quiet, EventBegin
<1>2. CASE EventLook(g)
  <2>1. TypeOK'
    BY <1>2, BoundsAssumption DEF IInv, TypeOK, Gens, EventLook
  <2> QED
    BY <1>2, <2>1, WorkerFrame DEF IInv, TypeOK, Marks, Quiet, EventLook
<1>3. CASE EventStamp(g)
  <2>1. TypeOK'
    BY <1>3, BoundsAssumption DEF IInv, TypeOK, Gens, EventStamp
  <2> QED
    BY <1>3, <2>1, WorkerFrame DEF IInv, TypeOK, Marks, Quiet, EventStamp
<1>4. CASE EventRecord(g)
  <2>1. TypeOK'
    BY <1>4, BoundsAssumption DEF IInv, TypeOK, Gens, EventRecord
  <2> QED
    BY <1>4, <2>1, WorkerFrame DEF IInv, TypeOK, Marks, Quiet, EventRecord
<1> QED BY <1>1, <1>2, <1>3, <1>4 DEF Persisting

-----------------------------------------------------------------------------
(* The invariant holds always, if the first save of a release succeeds     *)
(* (otherwise stop leaves its generation halted in the stopping registry   *)
(* for good, which is what the code does).                                 *)

\* It holds initially.
LEMMA InitIInv == Init => IInv
BY BoundsAssumption, CallersAssumption
   DEF Init, IInv, TypeOK, Callings, Gens, Roles, Exclusive, Launching, Launches, Releasing, OneReleaser,
       InLaunch, InRelease, Aborting, ReleasePcs, Marks, HaltedBy, ClosedBy, Quiet, Fresh, Numbered,
       HaltedPcs, Covered, LateEvidence, Unhalted

\* It is about the variables only.
LEMMA Stutter == ASSUME IInv, UNCHANGED vars PROVE IInv'
BY DEF vars, IInv, TypeOK, Roles, Exclusive, Launching, Launches, Releasing, OneReleaser,
       InLaunch, InRelease, Marks, HaltedBy, ClosedBy, Quiet, Fresh, Numbered,
       Covered, LateEvidence, Unhalted

\* Every step preserves it.
LEMMA StepIInv ==
    ASSUME "mark" \notin FailingSaves, IInv, [Next]_vars
    PROVE  IInv'
<1>1. CASE UNCHANGED vars
  BY <1>1, Stutter
<1>2. ASSUME NEW a \in Callers, NEW op \in Ops, Call(a, op) PROVE IInv'
  BY <1>2, CallStep
<1>3. ASSUME NEW a \in Callers, SenderEnds(a) PROVE IInv'
  BY <1>3, SenderEndsStep
<1>4. ASSUME NEW a \in Callers, Working(a) PROVE IInv'
  BY <1>4, CheckStaleStep, LaunchRefusedStep, LaunchPresentStep, LaunchStep, StartedStep,
     StartFailsStep,
     BindSenderStep, DetachNothingStep, DetachStep, MarkDisconnectedStep, SaveRaisesStep, LookRaisesStep,
     DropNothingStep,
     DropSenderStep, HaltStep, JoinCaptureStep, DisconnectBlockedStep, JoinVisionStep, JoinMediaStep,
     WithdrawStep, SealStep, ClearStep
     DEF Working
<1>5. ASSUME NEW g \in Gens, Capturing(g) \/ Seeing(g) \/ Persisting(g) PROVE IInv'
  BY <1>5, CapturingStep, SeeingStep, PersistingStep
<1> QED BY <1>1, <1>2, <1>3, <1>4, <1>5 DEF Next

\* The inductive invariant holds in every run.
THEOREM Invariant == ASSUME "mark" \notin FailingSaves PROVE Spec => []IInv
<1>1. IInv /\ [Next]_vars => IInv'
  BY StepIInv
<1> QED BY <1>1, InitIInv, PTL DEF Spec

\* Every variable keeps its type, for every number of requests and generations.
THEOREM TypeCorrect == ASSUME "mark" \notin FailingSaves PROVE Spec => []TypeOK
<1>1. IInv => TypeOK BY DEF IInv
<1> QED BY <1>1, Invariant, PTL

\* No job that passed the engine check records evidence of a generation that is
\* neither public nor being joined: stop waits for the media worker, and nothing
\* is given to an executor that is shut down.
THEOREM LateEvidenceNever == ASSUME "mark" \notin FailingSaves PROVE Spec => []LateEvidence
<1>1. IInv => LateEvidence BY DEF IInv, Covered
<1> QED BY <1>1, Invariant, PTL

\* However the requests overlap, at most one generation has not been told to stop.
THEOREM OneGenerationAlways == ASSUME "mark" \notin FailingSaves PROVE Spec => []OneGeneration
<1>1. IInv => OneGeneration
  BY BoundsAssumption DEF IInv, TypeOK, Roles, Exclusive, Covered, Unhalted, OneGeneration
<1> QED BY <1>1, Invariant, PTL

-----------------------------------------------------------------------------
(* The stopping registry is never orphaned, if no save fails between the   *)
(* detaching of a generation and the finally clause.                       *)

Manned == stopping # 0 => \E a \in Callers : InRelease(a)

\* A request that releases goes on, or another one is not disturbed.
LEMMA MannedOn ==
    ASSUME Manned, NEW a \in Callers, InRelease(a) => InRelease(a)', UNCHANGED stopping,
           \A b \in Callers : b # a => call'[b] = call[b]
    PROVE  Manned'
BY DEF Manned, InRelease

\* Every step of a request keeps the registry attended.
LEMMA MannedStep ==
    ASSUME FailingSaves \cap {"look", "mark", "drop"} = {}, IInv, Manned, NEW a \in Callers, Working(a)
    PROVE  Manned'
<1>1. CASE CheckStale(a)
  <2>1. /\ UNCHANGED stopping
        /\ \A b \in Callers : b # a => call'[b] = call[b]
    BY <1>1 DEF IInv, TypeOK, CheckStale
  <2>2. InRelease(a) => InRelease(a)'
    BY <1>1 DEF IInv, TypeOK, CheckStale, InRelease, Aborting, ReleasePcs
  <2> QED BY <2>1, <2>2, MannedOn
<1>2. CASE LaunchRefused(a)
  <2>1. /\ UNCHANGED stopping
        /\ \A b \in Callers : b # a => call'[b] = call[b]
    BY <1>2 DEF IInv, TypeOK, LaunchRefused
  <2>2. InRelease(a) => InRelease(a)'
    BY <1>2 DEF IInv, TypeOK, LaunchRefused, InRelease, Aborting, ReleasePcs
  <2> QED BY <2>1, <2>2, MannedOn
<1>3. CASE LaunchPresent(a)
  <2>1. /\ UNCHANGED stopping
        /\ \A b \in Callers : b # a => call'[b] = call[b]
    BY <1>3 DEF IInv, TypeOK, LaunchPresent
  <2>2. InRelease(a) => InRelease(a)'
    BY <1>3 DEF IInv, TypeOK, LaunchPresent, InRelease, Aborting, ReleasePcs
  <2> QED BY <2>1, <2>2, MannedOn
<1>4. CASE Launch(a)
  <2>1. /\ UNCHANGED stopping
        /\ \A b \in Callers : b # a => call'[b] = call[b]
    BY <1>4 DEF IInv, TypeOK, Launch
  <2>2. InRelease(a) => InRelease(a)'
    BY <1>4 DEF IInv, TypeOK, Launch, InRelease, Aborting, ReleasePcs
  <2> QED BY <2>1, <2>2, MannedOn
<1>5. CASE Started(a)
  <2>1. /\ UNCHANGED stopping
        /\ \A b \in Callers : b # a => call'[b] = call[b]
    BY <1>5 DEF IInv, TypeOK, Started
  <2>2. InRelease(a) => InRelease(a)'
    BY <1>5 DEF IInv, TypeOK, Started, InRelease, Aborting, ReleasePcs
  <2> QED BY <2>1, <2>2, MannedOn
<1>6. CASE StartFails(a)
  <2>1. /\ UNCHANGED stopping
        /\ \A b \in Callers : b # a => call'[b] = call[b]
    BY <1>6 DEF IInv, TypeOK, StartFails
  <2>2. InRelease(a) => InRelease(a)'
    BY <1>6 DEF IInv, TypeOK, StartFails, InRelease, Aborting, ReleasePcs
  <2> QED BY <2>1, <2>2, MannedOn
<1>7. CASE BindSender(a)
  <2>1. /\ UNCHANGED stopping
        /\ \A b \in Callers : b # a => call'[b] = call[b]
    BY <1>7 DEF IInv, TypeOK, BindSender
  <2>2. InRelease(a) => InRelease(a)'
    BY <1>7 DEF IInv, TypeOK, BindSender, InRelease, Aborting, ReleasePcs
  <2> QED BY <2>1, <2>2, MannedOn
<1>8. CASE DetachNothing(a)
  <2>1. /\ UNCHANGED stopping
        /\ \A b \in Callers : b # a => call'[b] = call[b]
    BY <1>8 DEF IInv, TypeOK, DetachNothing, AfterStop
  <2>2. InRelease(a) => InRelease(a)'
    BY <1>8 DEF IInv, TypeOK, DetachNothing, AfterStop, InRelease, Aborting, ReleasePcs
  <2> QED BY <2>1, <2>2, MannedOn
<1>9. CASE Detach(a)
  <2>1. InRelease(a)'
    BY <1>9 DEF IInv, TypeOK, Detach, Roles, Launching, Launches, InLaunch, InRelease,
       Aborting, ReleasePcs
  <2> QED BY <2>1 DEF Manned
<1>10. CASE MarkDisconnected(a)
  <2>1. /\ UNCHANGED stopping
        /\ \A b \in Callers : b # a => call'[b] = call[b]
    BY <1>10 DEF IInv, TypeOK, MarkDisconnected
  <2>2. InRelease(a) => InRelease(a)'
    BY <1>10 DEF IInv, TypeOK, MarkDisconnected, InRelease, Aborting, ReleasePcs
  <2> QED BY <2>1, <2>2, MannedOn
<1>11. CASE SaveRaises(a)
  <2>1. /\ UNCHANGED stopping
        /\ \A b \in Callers : b # a => call'[b] = call[b]
    BY <1>11 DEF IInv, TypeOK, SaveRaises
  <2>2. InRelease(a) => InRelease(a)'
    BY <1>11 DEF IInv, TypeOK, SaveRaises, InRelease, Aborting, ReleasePcs
  <2> QED BY <2>1, <2>2, MannedOn
<1>12. CASE DropNothing(a)
  <2>1. /\ UNCHANGED stopping
        /\ \A b \in Callers : b # a => call'[b] = call[b]
    BY <1>12 DEF IInv, TypeOK, DropNothing
  <2>2. InRelease(a) => InRelease(a)'
    BY <1>12 DEF IInv, TypeOK, DropNothing, InRelease, Aborting, ReleasePcs
  <2> QED BY <2>1, <2>2, MannedOn
<1>13. CASE DropSender(a)
  <2>1. InRelease(a)'
    BY <1>13 DEF IInv, TypeOK, DropSender, Roles, Launching, Launches, InLaunch, InRelease,
       Aborting, ReleasePcs
  <2> QED BY <2>1 DEF Manned
<1>14. CASE Halt(a)
  <2>1. /\ UNCHANGED stopping
        /\ \A b \in Callers : b # a => call'[b] = call[b]
    BY <1>14 DEF IInv, TypeOK, Halt
  <2>2. InRelease(a) => InRelease(a)'
    BY <1>14 DEF IInv, TypeOK, Halt, InRelease, Aborting, ReleasePcs
  <2> QED BY <2>1, <2>2, MannedOn
<1>15. CASE JoinCapture(a)
  <2>1. /\ UNCHANGED stopping
        /\ \A b \in Callers : b # a => call'[b] = call[b]
    BY <1>15 DEF IInv, TypeOK, JoinCapture, AfterCapture
  <2>2. InRelease(a) => InRelease(a)'
    BY <1>15 DEF IInv, TypeOK, JoinCapture, AfterCapture, InRelease, Aborting, ReleasePcs
  <2> QED BY <2>1, <2>2, MannedOn
<1>16. CASE DisconnectBlocked(a)
  <2>1. /\ UNCHANGED stopping
        /\ \A b \in Callers : b # a => call'[b] = call[b]
    BY <1>16 DEF IInv, TypeOK, DisconnectBlocked, AfterCapture
  <2>2. InRelease(a) => InRelease(a)'
    BY <1>16 DEF IInv, TypeOK, DisconnectBlocked, AfterCapture, InRelease, Aborting, ReleasePcs
  <2> QED BY <2>1, <2>2, MannedOn
<1>17. CASE JoinVision(a)
  <2>1. /\ UNCHANGED stopping
        /\ \A b \in Callers : b # a => call'[b] = call[b]
    BY <1>17 DEF IInv, TypeOK, JoinVision
  <2>2. InRelease(a) => InRelease(a)'
    BY <1>17 DEF IInv, TypeOK, JoinVision, InRelease, Aborting, ReleasePcs
  <2> QED BY <2>1, <2>2, MannedOn
<1>18. CASE JoinMedia(a)
  <2>1. /\ UNCHANGED stopping
        /\ \A b \in Callers : b # a => call'[b] = call[b]
    BY <1>18 DEF IInv, TypeOK, JoinMedia
  <2>2. InRelease(a) => InRelease(a)'
    BY <1>18 DEF IInv, TypeOK, JoinMedia, InRelease, Aborting, ReleasePcs
  <2> QED BY <2>1, <2>2, MannedOn
<1>19. CASE Withdraw(a)
  <2>1. /\ UNCHANGED stopping
        /\ \A b \in Callers : b # a => call'[b] = call[b]
    BY <1>19 DEF IInv, TypeOK, Withdraw
  <2>2. InRelease(a) => InRelease(a)'
    BY <1>19 DEF IInv, TypeOK, Withdraw, InRelease, Aborting, ReleasePcs
  <2> QED BY <2>1, <2>2, MannedOn
<1>20. CASE Seal(a)
  <2>1. /\ UNCHANGED stopping
        /\ \A b \in Callers : b # a => call'[b] = call[b]
    BY <1>20 DEF IInv, TypeOK, Seal
  <2>2. InRelease(a) => InRelease(a)'
    BY <1>20 DEF IInv, TypeOK, Seal, InRelease, Aborting, ReleasePcs
  <2> QED BY <2>1, <2>2, MannedOn
<1>21. CASE Clear(a)
  <2>1. stopping' = 0
    BY <1>21 DEF IInv, Clear, AfterStop, Roles, Launching, Launches, Releasing, InLaunch,
       InRelease, Aborting, ReleasePcs
  <2> QED BY <2>1 DEF Manned
<1>22. CASE LookRaises(a)
  BY <1>22 DEF LookRaises
<1> QED BY <1>1, <1>2, <1>3, <1>4, <1>5, <1>6, <1>7, <1>8, <1>9, <1>10, <1>11, <1>12, <1>13,
   <1>14, <1>15, <1>16, <1>17, <1>18, <1>19, <1>20, <1>21, <1>22 DEF Working

\* While a generation is in the stopping registry, some request is at work on
\* its release: the registry cannot lock a camera out for good.
THEOREM AttendedAlways ==
    ASSUME FailingSaves \cap {"look", "mark", "drop"} = {}
    PROVE  Spec => []Attended
<1>1. Init => Manned
  BY DEF Init, Manned
<1>2. IInv /\ Manned /\ [Next]_vars => Manned'
  <2> SUFFICES ASSUME IInv, Manned, [Next]_vars PROVE Manned'
    OBVIOUS
  <2>1. CASE UNCHANGED vars
    BY <2>1 DEF vars, Manned, InRelease
  <2>2. ASSUME NEW a \in Callers, NEW op \in Ops, Call(a, op) PROVE Manned'
    BY <2>2, MannedOn DEF IInv, TypeOK, Call, InRelease, ReleasePcs
  <2>3. ASSUME NEW a \in Callers, SenderEnds(a) PROVE Manned'
    BY <2>3, MannedOn DEF IInv, TypeOK, SenderEnds, InRelease, ReleasePcs
  <2>4. ASSUME NEW a \in Callers, Working(a) PROVE Manned'
    BY <2>4, MannedStep
  <2>5. ASSUME NEW g \in Gens, Capturing(g) \/ Seeing(g) \/ Persisting(g) PROVE Manned'
    BY <2>5 DEF Manned, InRelease, Capturing, Seeing, Persisting, AcquireLease, LeaseBusy,
       Opened, OpenFails,
       Reconnect, CaptureFails, CaptureStops, Release, TrackBegin, TrackSave, Submit, VisionEnds,
       EventBegin, EventLook, EventStamp, EventRecord
  <2> QED BY <2>1, <2>2, <2>3, <2>4, <2>5 DEF Next
<1>3. IInv /\ Manned => Attended
  BY DEF IInv, Roles, Releasing, Manned, Attended, InRelease, ReleasePcs
<1>4. "mark" \notin FailingSaves
  OBVIOUS
<1> QED BY <1>1, <1>2, <1>3, <1>4, Invariant, PTL DEF Spec

-----------------------------------------------------------------------------
(* Without browser senders, only a launch holds the lock across steps, and *)
(* what it joins when it fails has no job yet.                             *)

OnlyLaunchLocks ==
    \A a \in Callers : call[a].op # "acquire" /\ (lock = a => InLaunch(a))

\* The step of one request: it keeps, takes or frees the lock as its part in a
\* launch says.
LEMMA OnlyLaunchOn ==
    ASSUME OnlyLaunchLocks, NEW a \in Callers, call'[a].op # "acquire", lock' = a => InLaunch(a)',
           \A b \in Callers : b # a => call'[b] = call[b],
           lock' \in {lock, None, a}
    PROVE  OnlyLaunchLocks'
BY CallersAssumption DEF OnlyLaunchLocks, InLaunch

\* No step of a request takes the lock for good but a launch.
LEMMA OnlyLaunchStep ==
    ASSUME IInv, OnlyLaunchLocks, NEW a \in Callers, Working(a)
    PROVE  OnlyLaunchLocks'
<1>1. CASE CheckStale(a)
  <2>1. \A b \in Callers : b # a => call'[b] = call[b]
    BY <1>1 DEF IInv, TypeOK, CheckStale
  <2>2. call'[a].op # "acquire" /\ (lock' = a => InLaunch(a)') /\ lock' \in {lock, None, a}
    BY <1>1, CallersAssumption DEF IInv, TypeOK, CheckStale, OnlyLaunchLocks, InLaunch, Aborting
  <2> QED BY <2>1, <2>2, OnlyLaunchOn
<1>2. CASE LaunchRefused(a)
  <2>1. \A b \in Callers : b # a => call'[b] = call[b]
    BY <1>2 DEF IInv, TypeOK, LaunchRefused
  <2>2. call'[a].op # "acquire" /\ (lock' = a => InLaunch(a)') /\ lock' \in {lock, None, a}
    BY <1>2, CallersAssumption DEF IInv, TypeOK, LaunchRefused, OnlyLaunchLocks, InLaunch, Aborting
  <2> QED BY <2>1, <2>2, OnlyLaunchOn
<1>3. CASE LaunchPresent(a)
  <2>1. \A b \in Callers : b # a => call'[b] = call[b]
    BY <1>3 DEF IInv, TypeOK, LaunchPresent
  <2>2. call'[a].op # "acquire" /\ (lock' = a => InLaunch(a)') /\ lock' \in {lock, None, a}
    BY <1>3, CallersAssumption DEF IInv, TypeOK, LaunchPresent, OnlyLaunchLocks, InLaunch,
       Aborting, Roles, Launching, Launches
  <2> QED BY <2>1, <2>2, OnlyLaunchOn
<1>4. CASE Launch(a)
  <2>1. \A b \in Callers : b # a => call'[b] = call[b]
    BY <1>4 DEF IInv, TypeOK, Launch
  <2>2. call'[a].op # "acquire" /\ (lock' = a => InLaunch(a)') /\ lock' \in {lock, None, a}
    BY <1>4, CallersAssumption DEF IInv, TypeOK, Launch, OnlyLaunchLocks, InLaunch, Aborting
  <2> QED BY <2>1, <2>2, OnlyLaunchOn
<1>5. CASE Started(a)
  <2>1. \A b \in Callers : b # a => call'[b] = call[b]
    BY <1>5 DEF IInv, TypeOK, Started
  <2>2. call'[a].op # "acquire" /\ (lock' = a => InLaunch(a)') /\ lock' \in {lock, None, a}
    BY <1>5, CallersAssumption DEF IInv, TypeOK, Started, OnlyLaunchLocks, InLaunch, Aborting
  <2> QED BY <2>1, <2>2, OnlyLaunchOn
<1>6. CASE StartFails(a)
  <2>1. \A b \in Callers : b # a => call'[b] = call[b]
    BY <1>6 DEF IInv, TypeOK, StartFails
  <2>2. call'[a].op # "acquire" /\ (lock' = a => InLaunch(a)') /\ lock' \in {lock, None, a}
    BY <1>6, CallersAssumption DEF IInv, TypeOK, StartFails, OnlyLaunchLocks, InLaunch, Aborting
  <2> QED BY <2>1, <2>2, OnlyLaunchOn
<1>7. CASE BindSender(a)
  <2>1. \A b \in Callers : b # a => call'[b] = call[b]
    BY <1>7 DEF IInv, TypeOK, BindSender
  <2>2. call'[a].op # "acquire" /\ (lock' = a => InLaunch(a)') /\ lock' \in {lock, None, a}
    BY <1>7, CallersAssumption DEF IInv, TypeOK, BindSender, OnlyLaunchLocks, InLaunch, Aborting
  <2> QED BY <2>1, <2>2, OnlyLaunchOn
<1>8. CASE DetachNothing(a)
  <2>1. \A b \in Callers : b # a => call'[b] = call[b]
    BY <1>8 DEF IInv, TypeOK, DetachNothing, AfterStop
  <2>2. call'[a].op # "acquire" /\ (lock' = a => InLaunch(a)') /\ lock' \in {lock, None, a}
    BY <1>8, CallersAssumption DEF IInv, TypeOK, DetachNothing, AfterStop, OnlyLaunchLocks,
       InLaunch, Aborting
  <2> QED BY <2>1, <2>2, OnlyLaunchOn
<1>9. CASE Detach(a)
  <2>1. \A b \in Callers : b # a => call'[b] = call[b]
    BY <1>9 DEF IInv, TypeOK, Detach
  <2>2. call'[a].op # "acquire" /\ (lock' = a => InLaunch(a)') /\ lock' \in {lock, None, a}
    BY <1>9, CallersAssumption DEF IInv, TypeOK, Detach, OnlyLaunchLocks, InLaunch, Aborting
  <2> QED BY <2>1, <2>2, OnlyLaunchOn
<1>10. CASE MarkDisconnected(a)
  <2>1. \A b \in Callers : b # a => call'[b] = call[b]
    BY <1>10 DEF IInv, TypeOK, MarkDisconnected
  <2>2. call'[a].op # "acquire" /\ (lock' = a => InLaunch(a)') /\ lock' \in {lock, None, a}
    BY <1>10, CallersAssumption DEF IInv, TypeOK, MarkDisconnected, OnlyLaunchLocks, InLaunch,
       Aborting
  <2> QED BY <2>1, <2>2, OnlyLaunchOn
<1>11. CASE SaveRaises(a)
  <2>1. \A b \in Callers : b # a => call'[b] = call[b]
    BY <1>11 DEF IInv, TypeOK, SaveRaises
  <2>2. call'[a].op # "acquire" /\ (lock' = a => InLaunch(a)') /\ lock' \in {lock, None, a}
    BY <1>11, CallersAssumption DEF IInv, TypeOK, SaveRaises, OnlyLaunchLocks, InLaunch,
       Aborting, Roles, Launching, Launches
  <2> QED BY <2>1, <2>2, OnlyLaunchOn
<1>12. CASE DropNothing(a)
  <2>1. \A b \in Callers : b # a => call'[b] = call[b]
    BY <1>12 DEF IInv, TypeOK, DropNothing
  <2>2. call'[a].op # "acquire" /\ (lock' = a => InLaunch(a)') /\ lock' \in {lock, None, a}
    BY <1>12, CallersAssumption DEF IInv, TypeOK, DropNothing, OnlyLaunchLocks, InLaunch,
       Aborting, Roles, Launching, Launches
  <2> QED BY <2>1, <2>2, OnlyLaunchOn
<1>13. CASE DropSender(a)
  <2>1. \A b \in Callers : b # a => call'[b] = call[b]
    BY <1>13 DEF IInv, TypeOK, DropSender
  <2>2. call'[a].op # "acquire" /\ (lock' = a => InLaunch(a)') /\ lock' \in {lock, None, a}
    BY <1>13, CallersAssumption DEF IInv, TypeOK, DropSender, OnlyLaunchLocks, InLaunch,
       Aborting, Roles, Launching, Launches
  <2> QED BY <2>1, <2>2, OnlyLaunchOn
<1>14. CASE Halt(a)
  <2>1. \A b \in Callers : b # a => call'[b] = call[b]
    BY <1>14 DEF IInv, TypeOK, Halt
  <2>2. call'[a].op # "acquire" /\ (lock' = a => InLaunch(a)') /\ lock' \in {lock, None, a}
    BY <1>14, CallersAssumption DEF IInv, TypeOK, Halt, OnlyLaunchLocks, InLaunch, Aborting
  <2> QED BY <2>1, <2>2, OnlyLaunchOn
<1>15. CASE JoinCapture(a)
  <2>1. \A b \in Callers : b # a => call'[b] = call[b]
    BY <1>15 DEF IInv, TypeOK, JoinCapture, AfterCapture
  <2>2. call'[a].op # "acquire" /\ (lock' = a => InLaunch(a)') /\ lock' \in {lock, None, a}
    BY <1>15, CallersAssumption DEF IInv, TypeOK, JoinCapture, AfterCapture, OnlyLaunchLocks,
       InLaunch, Aborting
  <2> QED BY <2>1, <2>2, OnlyLaunchOn
<1>16. CASE DisconnectBlocked(a)
  <2>1. \A b \in Callers : b # a => call'[b] = call[b]
    BY <1>16 DEF IInv, TypeOK, DisconnectBlocked, AfterCapture
  <2>2. call'[a].op # "acquire" /\ (lock' = a => InLaunch(a)') /\ lock' \in {lock, None, a}
    BY <1>16, CallersAssumption DEF IInv, TypeOK, DisconnectBlocked, AfterCapture,
       OnlyLaunchLocks, InLaunch, Aborting
  <2> QED BY <2>1, <2>2, OnlyLaunchOn
<1>17. CASE JoinVision(a)
  <2>1. \A b \in Callers : b # a => call'[b] = call[b]
    BY <1>17 DEF IInv, TypeOK, JoinVision
  <2>2. call'[a].op # "acquire" /\ (lock' = a => InLaunch(a)') /\ lock' \in {lock, None, a}
    BY <1>17, CallersAssumption DEF IInv, TypeOK, JoinVision, OnlyLaunchLocks, InLaunch, Aborting
  <2> QED BY <2>1, <2>2, OnlyLaunchOn
<1>18. CASE JoinMedia(a)
  <2>1. \A b \in Callers : b # a => call'[b] = call[b]
    BY <1>18 DEF IInv, TypeOK, JoinMedia
  <2>2. call'[a].op # "acquire" /\ (lock' = a => InLaunch(a)') /\ lock' \in {lock, None, a}
    BY <1>18, CallersAssumption DEF IInv, TypeOK, JoinMedia, OnlyLaunchLocks, InLaunch, Aborting
  <2> QED BY <2>1, <2>2, OnlyLaunchOn
<1>19. CASE Withdraw(a)
  <2>1. \A b \in Callers : b # a => call'[b] = call[b]
    BY <1>19 DEF IInv, TypeOK, Withdraw
  <2>2. call'[a].op # "acquire" /\ (lock' = a => InLaunch(a)') /\ lock' \in {lock, None, a}
    BY <1>19, CallersAssumption DEF IInv, TypeOK, Withdraw, OnlyLaunchLocks, InLaunch, Aborting
  <2> QED BY <2>1, <2>2, OnlyLaunchOn
<1>20. CASE Seal(a)
  <2>1. \A b \in Callers : b # a => call'[b] = call[b]
    BY <1>20 DEF IInv, TypeOK, Seal
  <2>2. call'[a].op # "acquire" /\ (lock' = a => InLaunch(a)') /\ lock' \in {lock, None, a}
    BY <1>20, CallersAssumption DEF IInv, TypeOK, Seal, OnlyLaunchLocks, InLaunch, Aborting
  <2> QED BY <2>1, <2>2, OnlyLaunchOn
<1>21. CASE Clear(a)
  <2>1. \A b \in Callers : b # a => call'[b] = call[b]
    BY <1>21 DEF IInv, TypeOK, Clear, AfterStop
  <2>2. call'[a].op # "acquire" /\ (lock' = a => InLaunch(a)') /\ lock' \in {lock, None, a}
    BY <1>21, CallersAssumption DEF IInv, TypeOK, Clear, AfterStop, OnlyLaunchLocks, InLaunch,
       Aborting
  <2> QED BY <2>1, <2>2, OnlyLaunchOn
<1>22. CASE LookRaises(a)
  <2>1. \A b \in Callers : b # a => call'[b] = call[b]
    BY <1>22 DEF IInv, TypeOK, LookRaises
  <2>2. call'[a].op # "acquire" /\ (lock' = a => InLaunch(a)') /\ lock' \in {lock, None, a}
    BY <1>22, CallersAssumption DEF IInv, TypeOK, LookRaises, OnlyLaunchLocks, InLaunch, Aborting
  <2> QED BY <2>1, <2>2, OnlyLaunchOn
<1> QED BY <1>1, <1>2, <1>3, <1>4, <1>5, <1>6, <1>7, <1>8, <1>9, <1>10, <1>11, <1>12, <1>13,
   <1>14, <1>15, <1>16, <1>17, <1>18, <1>19, <1>20, <1>21, <1>22 DEF Working

\* Nobody who holds Runtime.lock waits for a media worker that waits for
\* Runtime.lock, unless acquire_browser_sender is among the requests.
THEOREM NoJoinDeadlockAlways ==
    ASSUME "mark" \notin FailingSaves, "acquire" \notin Ops
    PROVE  Spec => []NoJoinDeadlock
<1>1. Init => OnlyLaunchLocks
  BY CallersAssumption DEF Init, OnlyLaunchLocks
<1>2. IInv /\ OnlyLaunchLocks /\ [Next]_vars => OnlyLaunchLocks'
  <2> SUFFICES ASSUME IInv, OnlyLaunchLocks, [Next]_vars PROVE OnlyLaunchLocks'
    OBVIOUS
  <2>1. CASE UNCHANGED vars
    BY <2>1 DEF vars, OnlyLaunchLocks, InLaunch
  <2>2. ASSUME NEW a \in Callers, NEW op \in Ops, Call(a, op) PROVE OnlyLaunchLocks'
    BY <2>2, OnlyLaunchOn, OpsAssumption DEF IInv, TypeOK, Call, OnlyLaunchLocks, Roles,
       Launching, Launches, InLaunch, Aborting
  <2>3. ASSUME NEW a \in Callers, SenderEnds(a) PROVE OnlyLaunchLocks'
    BY <2>3, OnlyLaunchOn DEF IInv, TypeOK, SenderEnds, OnlyLaunchLocks, Roles, Launching,
       Launches, InLaunch, Aborting
  <2>4. ASSUME NEW a \in Callers, Working(a) PROVE OnlyLaunchLocks'
    BY <2>4, OnlyLaunchStep
  <2>5. ASSUME NEW g \in Gens, Capturing(g) \/ Seeing(g) \/ Persisting(g) PROVE OnlyLaunchLocks'
    BY <2>5 DEF OnlyLaunchLocks, InLaunch, Capturing, Seeing, Persisting, AcquireLease,
       LeaseBusy, Opened,
       OpenFails, Reconnect, CaptureFails, CaptureStops, Release, TrackBegin, TrackSave, Submit, VisionEnds,
       EventBegin, EventLook, EventStamp, EventRecord
  <2> QED BY <2>1, <2>2, <2>3, <2>4, <2>5 DEF Next
<1>3. IInv /\ OnlyLaunchLocks => NoJoinDeadlock
  BY DEF IInv, Roles, Launching, Launches, OnlyLaunchLocks, NoJoinDeadlock, JoinsUnderLock
<1> QED BY <1>1, <1>2, <1>3, Invariant, PTL DEF Spec

-----------------------------------------------------------------------------
(* What the two threads that disconnect a source leave behind.             *)

\* Every step leaves ended capture threads without device, lease and sender.
LEMMA DeviceFreedStep ==
    ASSUME IInv, DeviceFreed, [Next]_vars
    PROVE  DeviceFreed'
<1>1. CASE UNCHANGED vars
  BY <1>1 DEF vars, DeviceFreed
<1>2. ASSUME NEW a \in Callers, (\E op \in Ops : Call(a, op)) \/ SenderEnds(a) PROVE DeviceFreed'
  BY <1>2 DEF DeviceFreed, Call, SenderEnds
<1>3. ASSUME NEW a \in Callers, Working(a) PROVE DeviceFreed'
  <2>1. CASE Launch(a)
    BY <2>1, BoundsAssumption DEF IInv, TypeOK, Gens, DeviceFreed, Launch
  <2>2. CASE BindSender(a)
    BY <2>2 DEF IInv, TypeOK, DeviceFreed, BindSender
  <2>3. CASE DropNothing(a) \/ DropSender(a)
    BY <2>3 DEF IInv, TypeOK, DeviceFreed, DropNothing, DropSender
  <2>4. CASE DisconnectBlocked(a)
    BY <2>4 DEF IInv, TypeOK, Gens, DeviceFreed, DisconnectBlocked, Disconnected
  <2>5. CASE UNCHANGED <<capture, handle, sender, lease>>
    BY <2>5 DEF DeviceFreed
  <2> QED BY <1>3, <2>1, <2>2, <2>3, <2>4, <2>5 DEF Working, CheckStale, LaunchRefused,
     LaunchPresent, Started, StartFails, DetachNothing, Detach,
       MarkDisconnected, SaveRaises, LookRaises, Halt, JoinCapture, JoinVision, JoinMedia, Withdraw, Seal,
       Clear
<1>4. ASSUME NEW g \in Gens, Capturing(g) PROVE DeviceFreed'
  <2>1. CASE AcquireLease(g)
    BY <2>1 DEF IInv, TypeOK, Gens, DeviceFreed, AcquireLease
  <2>2. CASE LeaseBusy(g)
    BY <2>2 DEF IInv, TypeOK, Gens, DeviceFreed, LeaseBusy
  <2>3. CASE Opened(g)
    BY <2>3 DEF IInv, TypeOK, Gens, DeviceFreed, Opened
  <2>4. CASE OpenFails(g)
    BY <2>4 DEF IInv, TypeOK, Gens, DeviceFreed, OpenFails
  <2>5. CASE Reconnect(g)
    BY <2>5 DEF IInv, TypeOK, Gens, DeviceFreed, Reconnect, Disconnected
  <2>6. CASE CaptureFails(g)
    BY <2>6 DEF IInv, TypeOK, Gens, DeviceFreed, CaptureFails
  <2>7. CASE CaptureStops(g)
    BY <2>7 DEF IInv, TypeOK, Gens, DeviceFreed, CaptureStops
  <2>8. CASE Release(g)
    BY <2>8 DEF IInv, TypeOK, Gens, DeviceFreed, Release, Disconnected
  <2> QED BY <1>4, <2>1, <2>2, <2>3, <2>4, <2>5, <2>6, <2>7, <2>8 DEF Capturing
<1>5. ASSUME NEW g \in Gens, Seeing(g) \/ Persisting(g) PROVE DeviceFreed'
  BY <1>5 DEF DeviceFreed, Seeing, Persisting, TrackBegin, TrackSave, Submit, VisionEnds,
     EventBegin, EventLook, EventStamp, EventRecord
<1> QED BY <1>1, <1>2, <1>3, <1>4, <1>5 DEF Next

\* A capture thread that has ended leaves neither an open device nor the lease
\* nor a sender, whoever disconnected its source first.
THEOREM DeviceFreedAlways == ASSUME "mark" \notin FailingSaves PROVE Spec => []DeviceFreed
<1>1. Init => DeviceFreed
  BY DEF Init, DeviceFreed
<1>2. IInv /\ DeviceFreed /\ [Next]_vars => DeviceFreed'
  BY DeviceFreedStep
<1> QED BY <1>1, <1>2, Invariant, PTL DEF Spec

-----------------------------------------------------------------------------
(* Earlier sources are gone.                                               *)

\* The capture thread of a generation has ended, or stop has given up on it.
Ended(g) == capture[g] = "dead" \/ g \in forced
\* A request has the (first) join of the capture thread behind it.
PastJoin(a) ==
    \/ call[a].pc \in {"joinVision", "joinMedia", "seal", "clear", "withdraw"}
    \/ call[a].op = "withdraw"
Begun ==
    \A g \in Gens : IF g > born THEN capture[g] = "absent" /\ g \notin handle
                    ELSE capture[g] # "absent"
Joined == \A a \in Callers : PastJoin(a) => Ended(call[a].gen)
Past == \A g \in 1..born : g \in {engine, stopping} \/ Ended(g)
Gone == Begun /\ Joined /\ Past

\* The step of a request that starts no thread: it is past a join only if the
\* thread has ended, and it drops a generation from the registries only then.
LEMMA GoneOn ==
    ASSUME TypeOK, Gone, NEW a \in Callers, \A b \in Callers : b # a => call'[b] = call[b],
           PastJoin(a)' => Ended(call[a].gen)',
           UNCHANGED <<born, capture>>, handle' \subseteq handle, forced \subseteq forced',
           \A g \in 1..born : g \in {engine, stopping} => g \in {engine', stopping'} \/ Ended(g)'
    PROVE  Gone'
<1>1. Begun' BY DEF Gone, Begun
<1>2. Joined' BY DEF Gone, Joined, PastJoin, Ended
<1>3. Past' BY DEF Gone, Past, Ended
<1> QED BY <1>1, <1>2, <1>3 DEF Gone

\* It is at work on a real generation.
LEMMA PastJoinGen ==
    ASSUME IInv, NEW a \in Callers, PastJoin(a)
    PROVE  call[a].gen \in Gens
<1>1. InLaunch(a) \/ InRelease(a)
  BY DEF IInv, Marks, ClosedBy, PastJoin, InLaunch, InRelease, Aborting, ReleasePcs
<1> QED BY <1>1, RoleGen

\* The step of a thread: no thread starts by itself, none comes back to life,
\* and only a source whose thread runs has a device.
LEMMA GoneThread ==
    ASSUME IInv, Gone, UNCHANGED <<runtime, forced>>,
           \A g \in Gens : /\ capture[g] = "dead" => capture'[g] = "dead"
                           /\ capture'[g] = "absent" <=> capture[g] = "absent"
                           /\ g \in handle' => g \in handle \/ capture[g] # "absent"
    PROVE  Gone'
<1>1. Begun' BY DEF Gone, Begun
<1>2. Joined'
  <2> SUFFICES ASSUME NEW a \in Callers, PastJoin(a)' PROVE Ended(call[a].gen)'
    BY DEF Joined
  <2>1. PastJoin(a) /\ Ended(call[a].gen)
    BY DEF Gone, Joined, PastJoin
  <2> QED BY <2>1, PastJoinGen DEF Ended
<1>3. Past' BY BoundsAssumption DEF IInv, TypeOK, Gens, Gone, Past, Ended
<1> QED BY <1>1, <1>2, <1>3 DEF Gone

\* Every step of a request: the registries lose a generation only after the
\* join of its capture thread.
LEMMA GoneWorking ==
    ASSUME "mark" \notin FailingSaves, IInv, TypeOK', Gone, NEW a \in Callers, Working(a)
    PROVE  Gone'

<1>1. CASE CheckStale(a)
  <2>1. /\ \A b \in Callers : b # a => call'[b] = call[b]
        /\ UNCHANGED <<born, capture>> /\ handle' \subseteq handle /\ forced \subseteq forced'
    BY <1>1 DEF IInv, TypeOK, CheckStale
  <2>2. PastJoin(a)' => Ended(call[a].gen)'
    BY <1>1, <2>1 DEF IInv, TypeOK, Roles, Launching, Launches, InLaunch, Aborting, Marks,
       ClosedBy, CheckStale, Gone, Joined, PastJoin, Ended
  <2>3. \A g \in 1..born : g \in {engine, stopping} => g \in {engine', stopping'} \/ Ended(g)'
    BY <1>1 DEF CheckStale
  <2> QED BY <2>1, <2>2, <2>3, GoneOn DEF IInv
<1>2. CASE LaunchRefused(a)
  <2>1. /\ \A b \in Callers : b # a => call'[b] = call[b]
        /\ UNCHANGED <<born, capture>> /\ handle' \subseteq handle /\ forced \subseteq forced'
    BY <1>2 DEF IInv, TypeOK, LaunchRefused
  <2>2. PastJoin(a)' => Ended(call[a].gen)'
    BY <1>2, <2>1 DEF IInv, TypeOK, Roles, Launching, Launches, InLaunch, Aborting, Marks,
       ClosedBy, LaunchRefused, Gone, Joined, PastJoin, Ended
  <2>3. \A g \in 1..born : g \in {engine, stopping} => g \in {engine', stopping'} \/ Ended(g)'
    BY <1>2 DEF LaunchRefused
  <2> QED BY <2>1, <2>2, <2>3, GoneOn DEF IInv
<1>3. CASE LaunchPresent(a)
  <2>1. /\ \A b \in Callers : b # a => call'[b] = call[b]
        /\ UNCHANGED <<born, capture>> /\ handle' \subseteq handle /\ forced \subseteq forced'
    BY <1>3 DEF IInv, TypeOK, LaunchPresent
  <2>2. PastJoin(a)' => Ended(call[a].gen)'
    BY <1>3, <2>1 DEF IInv, TypeOK, Roles, Launching, Launches, InLaunch, Aborting, Marks,
       ClosedBy, LaunchPresent, Gone, Joined, PastJoin, Ended
  <2>3. \A g \in 1..born : g \in {engine, stopping} => g \in {engine', stopping'} \/ Ended(g)'
    BY <1>3 DEF LaunchPresent
  <2> QED BY <2>1, <2>2, <2>3, GoneOn DEF IInv
<1>4. CASE Launch(a)
  <2>1. /\ engine = 0 /\ stopping = 0 /\ born' = born + 1 /\ engine' = born + 1 /\ stopping' = 0
        /\ capture' = [capture EXCEPT ![born + 1] = "connect"]
        /\ UNCHANGED <<handle, forced>> /\ born \in Nat /\ born < MaxGen
    BY <1>4 DEF IInv, TypeOK, Launch
  <2>2. \A b \in Callers : ~InLaunch(b) /\ ~InRelease(b)
    BY <2>1 DEF IInv, Roles, Launching, Launches, Releasing
  <2>3. \A b \in Callers : ~PastJoin(b)'
    BY <1>4, <2>2 DEF IInv, TypeOK, Launch, Marks, ClosedBy, PastJoin, InLaunch, InRelease, Aborting,
       ReleasePcs
  <2>4. Begun'
    BY <2>1, BoundsAssumption DEF IInv, TypeOK, Gens, Gone, Begun
  <2>5. Past'
    BY <2>1, BoundsAssumption DEF IInv, TypeOK, Gens, Gone, Past, Ended
  <2> QED BY <2>3, <2>4, <2>5 DEF Gone, Joined
<1>5. CASE Started(a)
  <2>1. /\ \A b \in Callers : b # a => call'[b] = call[b]
        /\ UNCHANGED <<born, capture>> /\ handle' \subseteq handle /\ forced \subseteq forced'
    BY <1>5 DEF IInv, TypeOK, Started
  <2>2. PastJoin(a)' => Ended(call[a].gen)'
    BY <1>5, <2>1 DEF IInv, TypeOK, Roles, Launching, Launches, InLaunch, Aborting, Marks,
       ClosedBy, Started, Gone, Joined, PastJoin, Ended
  <2>3. \A g \in 1..born : g \in {engine, stopping} => g \in {engine', stopping'} \/ Ended(g)'
    BY <1>5 DEF Started
  <2> QED BY <2>1, <2>2, <2>3, GoneOn DEF IInv
<1>6. CASE StartFails(a)
  <2>1. /\ \A b \in Callers : b # a => call'[b] = call[b]
        /\ UNCHANGED <<born, capture>> /\ handle' \subseteq handle /\ forced \subseteq forced'
    BY <1>6 DEF IInv, TypeOK, StartFails
  <2>2. PastJoin(a)' => Ended(call[a].gen)'
    BY <1>6, <2>1 DEF IInv, TypeOK, Roles, Launching, Launches, InLaunch, Aborting, Marks,
       ClosedBy, StartFails, Gone, Joined, PastJoin, Ended
  <2>3. \A g \in 1..born : g \in {engine, stopping} => g \in {engine', stopping'} \/ Ended(g)'
    BY <1>6 DEF StartFails
  <2> QED BY <2>1, <2>2, <2>3, GoneOn DEF IInv
<1>7. CASE BindSender(a)
  <2>1. /\ \A b \in Callers : b # a => call'[b] = call[b]
        /\ UNCHANGED <<born, capture>> /\ handle' \subseteq handle /\ forced \subseteq forced'
    BY <1>7 DEF IInv, TypeOK, BindSender
  <2>2. PastJoin(a)' => Ended(call[a].gen)'
    BY <1>7, <2>1 DEF IInv, TypeOK, Roles, Launching, Launches, InLaunch, Aborting, Marks,
       ClosedBy, BindSender, Gone, Joined, PastJoin, Ended
  <2>3. \A g \in 1..born : g \in {engine, stopping} => g \in {engine', stopping'} \/ Ended(g)'
    BY <1>7 DEF BindSender
  <2> QED BY <2>1, <2>2, <2>3, GoneOn DEF IInv
<1>8. CASE DetachNothing(a)
  <2>1. /\ \A b \in Callers : b # a => call'[b] = call[b]
        /\ UNCHANGED <<born, capture>> /\ handle' \subseteq handle /\ forced \subseteq forced'
    BY <1>8 DEF IInv, TypeOK, DetachNothing, AfterStop
  <2>2. PastJoin(a)' => Ended(call[a].gen)'
    BY <1>8, <2>1 DEF IInv, TypeOK, Roles, Launching, Launches, InLaunch, Aborting, Marks,
       ClosedBy, DetachNothing, AfterStop, Gone, Joined, PastJoin, Ended
  <2>3. \A g \in 1..born : g \in {engine, stopping} => g \in {engine', stopping'} \/ Ended(g)'
    BY <1>8 DEF DetachNothing, AfterStop
  <2> QED BY <2>1, <2>2, <2>3, GoneOn DEF IInv
<1>9. CASE Detach(a)
  <2>1. /\ \A b \in Callers : b # a => call'[b] = call[b]
        /\ UNCHANGED <<born, capture>> /\ handle' \subseteq handle /\ forced \subseteq forced'
    BY <1>9 DEF IInv, TypeOK, Detach
  <2>2. PastJoin(a)' => Ended(call[a].gen)'
    BY <1>9, <2>1 DEF IInv, TypeOK, Roles, Launching, Launches, InLaunch, Aborting, Marks,
       ClosedBy, Detach, Gone, Joined, PastJoin, Ended
  <2>3. \A g \in 1..born : g \in {engine, stopping} => g \in {engine', stopping'} \/ Ended(g)'
    BY <1>9, <2>1 DEF IInv, TypeOK, Roles, Exclusive, Launching, Launches, Releasing, InLaunch,
       InRelease, Aborting, ReleasePcs, Marks, ClosedBy, Detach, Gone, Joined, PastJoin, Ended
  <2> QED BY <2>1, <2>2, <2>3, GoneOn DEF IInv
<1>10. CASE MarkDisconnected(a)
  <2>1. /\ \A b \in Callers : b # a => call'[b] = call[b]
        /\ UNCHANGED <<born, capture>> /\ handle' \subseteq handle /\ forced \subseteq forced'
    BY <1>10 DEF IInv, TypeOK, MarkDisconnected
  <2>2. PastJoin(a)' => Ended(call[a].gen)'
    BY <1>10, <2>1 DEF IInv, TypeOK, Roles, Launching, Launches, InLaunch, Aborting, Marks,
       ClosedBy, MarkDisconnected, Gone, Joined, PastJoin, Ended
  <2>3. \A g \in 1..born : g \in {engine, stopping} => g \in {engine', stopping'} \/ Ended(g)'
    BY <1>10 DEF MarkDisconnected
  <2> QED BY <2>1, <2>2, <2>3, GoneOn DEF IInv
<1>11. CASE SaveRaises(a)
  <2>1. /\ \A b \in Callers : b # a => call'[b] = call[b]
        /\ UNCHANGED <<born, capture>> /\ handle' \subseteq handle /\ forced \subseteq forced'
    BY <1>11 DEF IInv, TypeOK, SaveRaises
  <2>2. PastJoin(a)' => Ended(call[a].gen)'
    BY <1>11, <2>1 DEF IInv, TypeOK, Roles, Launching, Launches, InLaunch, Aborting, Marks,
       ClosedBy, SaveRaises, Gone, Joined, PastJoin, Ended
  <2>3. \A g \in 1..born : g \in {engine, stopping} => g \in {engine', stopping'} \/ Ended(g)'
    BY <1>11 DEF SaveRaises
  <2> QED BY <2>1, <2>2, <2>3, GoneOn DEF IInv
<1>12. CASE DropNothing(a)
  <2>1. /\ \A b \in Callers : b # a => call'[b] = call[b]
        /\ UNCHANGED <<born, capture>> /\ handle' \subseteq handle /\ forced \subseteq forced'
    BY <1>12 DEF IInv, TypeOK, DropNothing
  <2>2. PastJoin(a)' => Ended(call[a].gen)'
    BY <1>12, <2>1 DEF IInv, TypeOK, Roles, Launching, Launches, InLaunch, Aborting, Marks,
       ClosedBy, DropNothing, Gone, Joined, PastJoin, Ended
  <2>3. \A g \in 1..born : g \in {engine, stopping} => g \in {engine', stopping'} \/ Ended(g)'
    BY <1>12 DEF DropNothing
  <2> QED BY <2>1, <2>2, <2>3, GoneOn DEF IInv
<1>13. CASE DropSender(a)
  <2>1. /\ \A b \in Callers : b # a => call'[b] = call[b]
        /\ UNCHANGED <<born, capture>> /\ handle' \subseteq handle /\ forced \subseteq forced'
    BY <1>13 DEF IInv, TypeOK, DropSender
  <2>2. PastJoin(a)' => Ended(call[a].gen)'
    BY <1>13, <2>1 DEF IInv, TypeOK, Roles, Launching, Launches, InLaunch, Aborting, Marks,
       ClosedBy, DropSender, Gone, Joined, PastJoin, Ended
  <2>3. \A g \in 1..born : g \in {engine, stopping} => g \in {engine', stopping'} \/ Ended(g)'
    <3>1. engine = call[a].gen /\ engine # 0 /\ stopping' = engine
      BY <1>13, BoundsAssumption DEF IInv, TypeOK, Gens, DropSender
    <3>2. stopping = 0
      BY <3>1 DEF IInv, Roles, Exclusive
    <3> QED BY <3>1, <3>2
  <2> QED BY <2>1, <2>2, <2>3, GoneOn DEF IInv
<1>14. CASE Halt(a)
  <2>1. /\ \A b \in Callers : b # a => call'[b] = call[b]
        /\ UNCHANGED <<born, capture>> /\ handle' \subseteq handle /\ forced \subseteq forced'
    BY <1>14 DEF IInv, TypeOK, Halt
  <2>2. PastJoin(a)' => Ended(call[a].gen)'
    BY <1>14, <2>1 DEF IInv, TypeOK, Roles, Launching, Launches, InLaunch, Aborting, Marks,
       ClosedBy, Halt, Gone, Joined, PastJoin, Ended
  <2>3. \A g \in 1..born : g \in {engine, stopping} => g \in {engine', stopping'} \/ Ended(g)'
    BY <1>14 DEF Halt
  <2> QED BY <2>1, <2>2, <2>3, GoneOn DEF IInv
<1>15. CASE JoinCapture(a)
  <2>1. /\ \A b \in Callers : b # a => call'[b] = call[b]
        /\ UNCHANGED <<born, capture>> /\ handle' \subseteq handle /\ forced \subseteq forced'
    BY <1>15 DEF IInv, TypeOK, JoinCapture, AfterCapture
  <2>2. PastJoin(a)' => Ended(call[a].gen)'
    <3>1. InLaunch(a) \/ InRelease(a)
      BY <1>15 DEF JoinCapture, InLaunch, InRelease, Aborting, ReleasePcs
    <3>2. call[a].gen \in Gens /\ call[a].gen \in 1..born
      BY <3>1, RoleGen, BoundsAssumption DEF IInv, TypeOK, Gens, Roles, Launching, Launches,
         Releasing, Marks, Numbered
    <3>3. capture[call[a].gen] = "dead" /\ call'[a].gen = call[a].gen /\ UNCHANGED capture
      BY <1>15, <3>2 DEF IInv, TypeOK, Gens, Gone, Begun, JoinCapture, AfterCapture
    <3> QED BY <3>3 DEF Ended
  <2>3. \A g \in 1..born : g \in {engine, stopping} => g \in {engine', stopping'} \/ Ended(g)'
    BY <1>15 DEF JoinCapture, AfterCapture
  <2> QED BY <2>1, <2>2, <2>3, GoneOn DEF IInv
<1>16. CASE DisconnectBlocked(a)
  <2>1. /\ \A b \in Callers : b # a => call'[b] = call[b]
        /\ UNCHANGED <<born, capture>> /\ handle' \subseteq handle /\ forced \subseteq forced'
    BY <1>16 DEF IInv, TypeOK, DisconnectBlocked, AfterCapture, Disconnected
  <2>2. PastJoin(a)' => Ended(call[a].gen)'
    BY <1>16, <2>1 DEF IInv, TypeOK, Roles, Launching, Launches, InLaunch, Aborting, Marks,
       ClosedBy, DisconnectBlocked, AfterCapture, Disconnected, Gone, Joined, PastJoin, Ended
  <2>3. \A g \in 1..born : g \in {engine, stopping} => g \in {engine', stopping'} \/ Ended(g)'
    BY <1>16 DEF DisconnectBlocked, AfterCapture, Disconnected
  <2> QED BY <2>1, <2>2, <2>3, GoneOn DEF IInv
<1>17. CASE JoinVision(a)
  <2>1. /\ \A b \in Callers : b # a => call'[b] = call[b]
        /\ UNCHANGED <<born, capture>> /\ handle' \subseteq handle /\ forced \subseteq forced'
    BY <1>17 DEF IInv, TypeOK, JoinVision
  <2>2. PastJoin(a)' => Ended(call[a].gen)'
    BY <1>17, <2>1 DEF IInv, TypeOK, Roles, Launching, Launches, InLaunch, Aborting, Marks,
       ClosedBy, JoinVision, Gone, Joined, PastJoin, Ended
  <2>3. \A g \in 1..born : g \in {engine, stopping} => g \in {engine', stopping'} \/ Ended(g)'
    BY <1>17 DEF JoinVision
  <2> QED BY <2>1, <2>2, <2>3, GoneOn DEF IInv
<1>18. CASE JoinMedia(a)
  <2>1. /\ \A b \in Callers : b # a => call'[b] = call[b]
        /\ UNCHANGED <<born, capture>> /\ handle' \subseteq handle /\ forced \subseteq forced'
    BY <1>18 DEF IInv, TypeOK, JoinMedia
  <2>2. PastJoin(a)' => Ended(call[a].gen)'
    BY <1>18, <2>1 DEF IInv, TypeOK, Roles, Launching, Launches, InLaunch, Aborting, Marks,
       ClosedBy, JoinMedia, Gone, Joined, PastJoin, Ended
  <2>3. \A g \in 1..born : g \in {engine, stopping} => g \in {engine', stopping'} \/ Ended(g)'
    BY <1>18 DEF JoinMedia
  <2> QED BY <2>1, <2>2, <2>3, GoneOn DEF IInv
<1>19. CASE Withdraw(a)
  <2>1. /\ \A b \in Callers : b # a => call'[b] = call[b]
        /\ UNCHANGED <<born, capture>> /\ handle' \subseteq handle /\ forced \subseteq forced'
    BY <1>19 DEF IInv, TypeOK, Withdraw
  <2>2. PastJoin(a)' => Ended(call[a].gen)'
    BY <1>19, <2>1 DEF IInv, TypeOK, Roles, Launching, Launches, InLaunch, Aborting, Marks,
       ClosedBy, Withdraw, Gone, Joined, PastJoin, Ended
  <2>3. \A g \in 1..born : g \in {engine, stopping} => g \in {engine', stopping'} \/ Ended(g)'
    BY <1>19, <2>1 DEF IInv, TypeOK, Roles, Exclusive, Launching, Launches, Releasing, InLaunch,
       InRelease, Aborting, ReleasePcs, Marks, ClosedBy, Withdraw, Gone, Joined, PastJoin, Ended
  <2> QED BY <2>1, <2>2, <2>3, GoneOn DEF IInv
<1>20. CASE Seal(a)
  <2>1. /\ \A b \in Callers : b # a => call'[b] = call[b]
        /\ UNCHANGED <<born, capture>> /\ handle' \subseteq handle /\ forced \subseteq forced'
    BY <1>20 DEF IInv, TypeOK, Seal
  <2>2. PastJoin(a)' => Ended(call[a].gen)'
    BY <1>20, <2>1 DEF IInv, TypeOK, Roles, Launching, Launches, InLaunch, Aborting, Marks,
       ClosedBy, Seal, Gone, Joined, PastJoin, Ended
  <2>3. \A g \in 1..born : g \in {engine, stopping} => g \in {engine', stopping'} \/ Ended(g)'
    BY <1>20 DEF Seal
  <2> QED BY <2>1, <2>2, <2>3, GoneOn DEF IInv
<1>21. CASE Clear(a)
  <2>1. /\ \A b \in Callers : b # a => call'[b] = call[b]
        /\ UNCHANGED <<born, capture>> /\ handle' \subseteq handle /\ forced \subseteq forced'
    BY <1>21 DEF IInv, TypeOK, Clear, AfterStop
  <2>2. PastJoin(a)' => Ended(call[a].gen)'
    BY <1>21, <2>1 DEF IInv, TypeOK, Roles, Launching, Launches, InLaunch, Aborting, Marks,
       ClosedBy, Clear, AfterStop, Gone, Joined, PastJoin, Ended
  <2>3. \A g \in 1..born : g \in {engine, stopping} => g \in {engine', stopping'} \/ Ended(g)'
    BY <1>21, <2>1 DEF IInv, TypeOK, Roles, Exclusive, Launching, Launches, Releasing, InLaunch,
       InRelease, Aborting, ReleasePcs, Marks, ClosedBy, Clear, AfterStop, Gone, Joined, PastJoin,
       Ended
  <2> QED BY <2>1, <2>2, <2>3, GoneOn DEF IInv
<1>22. CASE LookRaises(a)
  <2>1. /\ \A b \in Callers : b # a => call'[b] = call[b]
        /\ UNCHANGED <<born, capture>> /\ handle' \subseteq handle /\ forced \subseteq forced'
    BY <1>22 DEF IInv, TypeOK, LookRaises
  <2>2. PastJoin(a)' => Ended(call[a].gen)'
    BY <1>22, <2>1 DEF IInv, TypeOK, Roles, Launching, Launches, InLaunch, Aborting, Marks,
       ClosedBy, LookRaises, Gone, Joined, PastJoin, Ended
  <2>3. \A g \in 1..born : g \in {engine, stopping} => g \in {engine', stopping'} \/ Ended(g)'
    BY <1>22 DEF LookRaises
  <2> QED BY <2>1, <2>2, <2>3, GoneOn DEF IInv
<1> QED BY <1>1, <1>2, <1>3, <1>4, <1>5, <1>6, <1>7, <1>8, <1>9, <1>10, <1>11, <1>12, <1>13,
   <1>14, <1>15, <1>16, <1>17, <1>18, <1>19, <1>20, <1>21, <1>22 DEF Working

\* Every step of a capture thread: it goes on from where it was, or ends.
LEMMA GoneCapturing ==
    ASSUME IInv, Gone, NEW g \in Gens, Capturing(g)
    PROVE  Gone'

<1>1. CASE AcquireLease(g)
  BY <1>1, GoneThread DEF IInv, TypeOK, AcquireLease
<1>2. CASE LeaseBusy(g)
  BY <1>2, GoneThread DEF IInv, TypeOK, LeaseBusy
<1>3. CASE Opened(g)
  BY <1>3, GoneThread DEF IInv, TypeOK, Opened
<1>4. CASE OpenFails(g)
  BY <1>4, GoneThread DEF IInv, TypeOK, OpenFails
<1>5. CASE Reconnect(g)
  BY <1>5, GoneThread DEF IInv, TypeOK, Reconnect, Disconnected
<1>6. CASE CaptureFails(g)
  BY <1>6, GoneThread DEF IInv, TypeOK, CaptureFails
<1>7. CASE CaptureStops(g)
  BY <1>7, GoneThread DEF IInv, TypeOK, CaptureStops
<1>8. CASE Release(g)
  BY <1>8, GoneThread DEF IInv, TypeOK, Release, Disconnected
<1> QED BY <1>1, <1>2, <1>3, <1>4, <1>5, <1>6, <1>7, <1>8 DEF Capturing

\* Every step keeps what is known of earlier sources.
LEMMA GoneStep ==
    ASSUME "mark" \notin FailingSaves, IInv, TypeOK', Gone, [Next]_vars
    PROVE  Gone'
<1>1. CASE UNCHANGED vars
  BY <1>1 DEF vars, Gone, Begun, Joined, Past, PastJoin, Ended
<1>2. ASSUME NEW a \in Callers, NEW op \in Ops, Call(a, op) PROVE Gone'
  <2>1. /\ \A b \in Callers : b # a => call'[b] = call[b]
        /\ UNCHANGED <<engine, stopping, born, capture, handle, forced>>
    BY <1>2 DEF IInv, TypeOK, Call
  <2>2. ~PastJoin(a)'
    BY <1>2, OpsAssumption DEF IInv, TypeOK, Call, PastJoin
  <2> QED BY <2>1, <2>2, GoneOn DEF IInv
<1>3. ASSUME NEW a \in Callers, SenderEnds(a) PROVE Gone'
  <2>1. /\ \A b \in Callers : b # a => call'[b] = call[b]
        /\ UNCHANGED <<engine, stopping, born, capture, handle, forced>>
    BY <1>3 DEF IInv, TypeOK, SenderEnds
  <2>2. PastJoin(a)' => Ended(call[a].gen)'
    BY <1>3, <2>1 DEF IInv, TypeOK, SenderEnds, PastJoin, Gone, Joined, Ended
  <2> QED BY <2>1, <2>2, GoneOn DEF IInv
<1>4. ASSUME NEW a \in Callers, Working(a) PROVE Gone'
  BY <1>4, GoneWorking
<1>5. ASSUME NEW g \in Gens, Capturing(g) PROVE Gone'
  BY <1>5, GoneCapturing
<1>6. ASSUME NEW g \in Gens, Seeing(g) \/ Persisting(g) PROVE Gone'
  <2>1. UNCHANGED <<runtime, forced, capture, handle>>
    BY <1>6 DEF Seeing, Persisting, TrackBegin, TrackSave, Submit, VisionEnds, EventBegin,
       EventLook, EventStamp, EventRecord
  <2> QED BY <2>1, GoneThread
<1> QED BY <1>1, <1>2, <1>3, <1>4, <1>5, <1>6 DEF Next

\* However starts, stops and restarts overlap, one source at a time is public:
\* all the earlier ones have ended or were given up on, and a device has one
\* user unless stop gave up on an earlier thread.
THEOREM OneSourceAlways == ASSUME "mark" \notin FailingSaves PROVE Spec => []OneSource
<1>1. Init => Gone
  BY BoundsAssumption DEF Init, Gens, Gone, Begun, Joined, Past, PastJoin, Ended
<1>2. IInv /\ TypeOK' /\ Gone /\ [Next]_vars => Gone'
  BY GoneStep
<1>3. IInv /\ Gone /\ DeviceFreed /\ OneGeneration => OneSource
  <2> SUFFICES ASSUME IInv, Gone, DeviceFreed, OneGeneration PROVE OneSource
    OBVIOUS
  <2>1. TypeOK
    BY DEF IInv
  <2>2. OldSourceGone
    BY BoundsAssumption DEF IInv, TypeOK, Roles, Exclusive, Gone, Past, Ended, OldSourceGone
  <2>3. ASSUME NEW g \in Gens, UsesDevice(g), g \notin forced
        PROVE  g \in {engine, stopping} /\ g # 0
    BY <2>3, BoundsAssumption
       DEF IInv, TypeOK, Gens, UsesDevice, DeviceFreed, Gone, Begun, Past, Ended
  <2>4. DeviceSharedOnlyIfForced
    BY <2>3 DEF IInv, Roles, Exclusive, DeviceSharedOnlyIfForced
  <2> QED BY <2>1, <2>2, <2>4 DEF OneSource
<1> QED BY <1>1, <1>2, <1>3, TypeCorrect, Invariant, DeviceFreedAlways, OneGenerationAlways, PTL
       DEF Spec

-----------------------------------------------------------------------------
(* What a generation leaves in its session row, if the vision thread ends  *)
(* within its join and the saves of a release succeed.                     *)

\* Neither the vision thread nor the media worker will write again.
Silent(g) == vision[g] \in {"absent", "dead"} /\ media[g] \in {"none", "idle"}
Row(a) ==
    /\ InLaunch(a) => session[call[a].gen] = "none"
    /\ call[a].pc \in {"joinMedia", "seal", "clear"} => vision[call[a].gen] \in {"absent", "dead"}
    /\ call[a].pc = "clear" => session[call[a].gen] = "stopped"
Kept == \A a \in Callers : Row(a)
Left == \A g \in Gens : g \in {engine, stopping} \/ (Silent(g) /\ session[g] \in {"none", "stopped"})
Unwritten == \A g \in Gens : g > born => session[g] = "none"
Rows == Kept /\ Left /\ Unwritten

\* The step of a request that leaves the threads alone: the row it writes is
\* no other request's, and a generation leaves the registries silent.
LEMMA RowsOn ==
    ASSUME IInv, Rows, NEW a \in Callers, \A b \in Callers : b # a => call'[b] = call[b], Row(a)',
           UNCHANGED <<born, vision, media>>,
           \A g \in Gens : session'[g] = session[g] \/
               /\ g <= born
               /\ \A b \in Callers : b # a /\ call[b].gen = g => ~InLaunch(b) /\ call[b].pc # "clear",
           \A g \in Gens : \/ g \in {engine', stopping'}
                           \/ Silent(g) /\ session'[g] \in {"none", "stopped"}
    PROVE  Rows'
<1>1. Kept'
  <2> SUFFICES ASSUME NEW b \in Callers, b # a PROVE Row(b)'
    BY DEF Kept
  <2>1. call'[b] = call[b] /\ Row(b)
    BY DEF Rows, Kept
  <2>2. (InLaunch(b) \/ call[b].pc = "clear") => call[b].gen \in Gens
    BY RoleGen, PastJoinGen DEF PastJoin
  <2>3. (InLaunch(b) \/ call[b].pc = "clear") => session'[call[b].gen] = session[call[b].gen]
    BY <2>2
  <2> QED BY <2>1, <2>3 DEF Row, InLaunch
<1>2. Left'
  BY DEF Left, Silent
<1>3. Unwritten'
  BY BoundsAssumption DEF IInv, TypeOK, Gens, Rows, Unwritten
<1> QED BY <1>1, <1>2, <1>3 DEF Rows

\* The step of a thread: a silent generation stays silent, and an ended vision
\* thread stays ended.
LEMMA RowsThread ==
    ASSUME IInv, Rows, NEW g \in Gens, UNCHANGED runtime,
           \A h \in Gens : h # g => vision'[h] = vision[h] /\ media'[h] = media[h] /\ session'[h] = session[h],
           Silent(g) => Silent(g)' /\ session'[g] = session[g],
           vision[g] \in {"absent", "dead"} => vision'[g] \in {"absent", "dead"}
    PROVE  Rows'
<1>1. Kept'
  <2> SUFFICES ASSUME NEW b \in Callers PROVE Row(b)'
    BY DEF Kept
  <2>1. UNCHANGED call /\ Row(b)
    BY DEF Rows, Kept
  <2>2. InLaunch(b) => call[b].gen \in Gens /\ Silent(call[b].gen)
    BY RoleGen DEF IInv, Roles, Launching, Launches, Silent
  <2>3. call[b].pc = "clear" => call[b].gen \in Gens /\ Silent(call[b].gen)
    BY <2>1, PastJoinGen DEF PastJoin, Row, IInv, Marks, ClosedBy, Quiet, Silent
  <2>4. call[b].pc \in {"joinMedia", "seal", "clear"} => call[b].gen \in Gens
    BY PastJoinGen DEF PastJoin
  <2>5. (InLaunch(b) \/ call[b].pc = "clear") => session'[call[b].gen] = session[call[b].gen]
    BY <2>2, <2>3
  <2>6. call[b].pc \in {"joinMedia", "seal", "clear"} => vision'[call[b].gen] \in {"absent", "dead"}
    BY <2>1, <2>4 DEF Row
  <2> QED BY <2>1, <2>5, <2>6 DEF Row, InLaunch
<1>2. Left'
  BY DEF Rows, Left, Silent
<1>3. Unwritten'
  <2>1. g > born => Silent(g)
    BY DEF IInv, Marks, Fresh, Silent
  <2> QED BY <2>1 DEF Rows, Unwritten
<1> QED BY <1>1, <1>2, <1>3 DEF Rows

\* Every step of a request.
LEMMA RowsWorking ==
    ASSUME FailingSaves \cap {"mark", "seal"} = {}, "vision" \notin Timeouts,
           IInv, TypeOK', Rows, NEW a \in Callers, Working(a)
    PROVE  Rows'

<1>1. CASE CheckStale(a)
  <2>1. /\ \A b \in Callers : b # a => call'[b] = call[b]
        /\ UNCHANGED <<born, vision, media>>
    BY <1>1 DEF IInv, TypeOK, CheckStale
  <2>3. Row(a)'
    BY <1>1, <2>1 DEF IInv, TypeOK, Roles, Launching, Launches, InLaunch, Aborting, CheckStale,
       Rows, Kept, Row
  <2>4. \A g \in Gens : session'[g] = session[g] \/
            /\ g <= born
            /\ \A b \in Callers : b # a /\ call[b].gen = g => ~InLaunch(b) /\ call[b].pc # "clear"
    BY <1>1 DEF CheckStale
  <2>5. \A g \in Gens : \/ g \in {engine', stopping'}
                        \/ Silent(g) /\ session'[g] \in {"none", "stopped"}
    BY <1>1 DEF CheckStale, Rows, Left
  <2> QED BY <2>1, <2>3, <2>4, <2>5, RowsOn
<1>2. CASE LaunchRefused(a)
  <2>1. /\ \A b \in Callers : b # a => call'[b] = call[b]
        /\ UNCHANGED <<born, vision, media>>
    BY <1>2 DEF IInv, TypeOK, LaunchRefused
  <2>3. Row(a)'
    BY <1>2, <2>1 DEF IInv, TypeOK, Roles, Launching, Launches, InLaunch, Aborting, LaunchRefused,
       Rows, Kept, Row
  <2>4. \A g \in Gens : session'[g] = session[g] \/
            /\ g <= born
            /\ \A b \in Callers : b # a /\ call[b].gen = g => ~InLaunch(b) /\ call[b].pc # "clear"
    BY <1>2 DEF LaunchRefused
  <2>5. \A g \in Gens : \/ g \in {engine', stopping'}
                        \/ Silent(g) /\ session'[g] \in {"none", "stopped"}
    BY <1>2 DEF LaunchRefused, Rows, Left
  <2> QED BY <2>1, <2>3, <2>4, <2>5, RowsOn
<1>3. CASE LaunchPresent(a)
  <2>1. /\ \A b \in Callers : b # a => call'[b] = call[b]
        /\ UNCHANGED <<born, vision, media>>
    BY <1>3 DEF IInv, TypeOK, LaunchPresent
  <2>3. Row(a)'
    BY <1>3, <2>1 DEF IInv, TypeOK, Roles, Launching, Launches, InLaunch, Aborting, LaunchPresent,
       Rows, Kept, Row
  <2>4. \A g \in Gens : session'[g] = session[g] \/
            /\ g <= born
            /\ \A b \in Callers : b # a /\ call[b].gen = g => ~InLaunch(b) /\ call[b].pc # "clear"
    BY <1>3 DEF LaunchPresent
  <2>5. \A g \in Gens : \/ g \in {engine', stopping'}
                        \/ Silent(g) /\ session'[g] \in {"none", "stopped"}
    BY <1>3 DEF LaunchPresent, Rows, Left
  <2> QED BY <2>1, <2>3, <2>4, <2>5, RowsOn
<1>4. CASE Launch(a)
  <2>1. /\ engine = 0 /\ stopping = 0 /\ born' = born + 1 /\ engine' = born + 1
        /\ UNCHANGED <<vision, media, session>> /\ born \in Nat /\ born < MaxGen
        /\ call'[a].pc = "ready" /\ call'[a].gen = born + 1
        /\ \A b \in Callers : b # a => call'[b] = call[b]
    BY <1>4 DEF IInv, TypeOK, Launch
  <2>2. \A b \in Callers : ~InLaunch(b) /\ ~InRelease(b)
    BY <2>1 DEF IInv, Roles, Launching, Launches, Releasing
  <2>3. \A b \in Callers : call[b].pc \notin {"joinMedia", "seal", "clear"}
    BY <2>2 DEF InLaunch, InRelease, ReleasePcs
  <2>4. Kept'
    BY <2>1, <2>2, <2>3, BoundsAssumption DEF Gens, Rows, Kept, Unwritten, Row, InLaunch
  <2>5. Left' /\ Unwritten'
    BY <2>1, BoundsAssumption DEF IInv, TypeOK, Gens, Rows, Left, Unwritten, Silent
  <2> QED BY <2>4, <2>5 DEF Rows
<1>5. CASE Started(a)
  <2>1. InLaunch(a)
    BY <1>5 DEF Started, InLaunch
  <2>2. call[a].gen = engine /\ engine \in Gens /\ engine \in 1..born /\ stopping # engine
    BY <2>1, RoleGen, BoundsAssumption DEF IInv, TypeOK, Gens, Roles, Exclusive, Launching, Launches,
       Marks, Numbered
  <2>3. /\ \A b \in Callers : b # a => call'[b] = call[b]
        /\ call'[a].pc \in {"bind", "idle"} /\ call'[a].op \notin Aborting
        /\ UNCHANGED <<engine, stopping, born>>
    BY <1>5 DEF IInv, TypeOK, Roles, Launching, Launches, InLaunch, Aborting, Started
  <2>4. \A g \in Gens : g # engine => vision'[g] = vision[g] /\ media'[g] = media[g] /\ session'[g] = session[g]
    BY <1>5, <2>2 DEF IInv, TypeOK, Started
  <2>5. \A b \in Callers : b # a => ~InLaunch(b)
    BY <2>1, CallersAssumption DEF IInv, Roles, Launching, Launches
  <2>6. ASSUME NEW b \in Callers, b # a, call[b].pc \in {"joinMedia", "seal", "clear"}
        PROVE  call[b].gen \in Gens /\ call[b].gen # engine
    BY <2>2, <2>5, <2>6, RoleGen DEF IInv, Roles, Releasing, InLaunch, InRelease, ReleasePcs
  <2>7. Kept'
    BY <2>3, <2>4, <2>5, <2>6 DEF Rows, Kept, Row, InLaunch
  <2>8. Left' /\ Unwritten'
    BY <2>2, <2>3, <2>4, BoundsAssumption DEF IInv, TypeOK, Gens, Rows, Left, Unwritten, Silent
  <2> QED BY <2>7, <2>8 DEF Rows
<1>6. CASE StartFails(a)
  <2>1. /\ \A b \in Callers : b # a => call'[b] = call[b]
        /\ UNCHANGED <<born, vision, media>>
    BY <1>6 DEF IInv, TypeOK, StartFails
  <2>3. Row(a)'
    BY <1>6, <2>1 DEF IInv, TypeOK, Roles, Launching, Launches, InLaunch, Aborting, StartFails,
       Rows, Kept, Row
  <2>4. \A g \in Gens : session'[g] = session[g] \/
            /\ g <= born
            /\ \A b \in Callers : b # a /\ call[b].gen = g => ~InLaunch(b) /\ call[b].pc # "clear"
    BY <1>6 DEF StartFails
  <2>5. \A g \in Gens : \/ g \in {engine', stopping'}
                        \/ Silent(g) /\ session'[g] \in {"none", "stopped"}
    BY <1>6 DEF StartFails, Rows, Left
  <2> QED BY <2>1, <2>3, <2>4, <2>5, RowsOn
<1>7. CASE BindSender(a)
  <2>1. /\ \A b \in Callers : b # a => call'[b] = call[b]
        /\ UNCHANGED <<born, vision, media>>
    BY <1>7 DEF IInv, TypeOK, BindSender
  <2>3. Row(a)'
    BY <1>7, <2>1 DEF IInv, TypeOK, Roles, Launching, Launches, InLaunch, Aborting, BindSender,
       Rows, Kept, Row
  <2>4. \A g \in Gens : session'[g] = session[g] \/
            /\ g <= born
            /\ \A b \in Callers : b # a /\ call[b].gen = g => ~InLaunch(b) /\ call[b].pc # "clear"
    BY <1>7 DEF BindSender
  <2>5. \A g \in Gens : \/ g \in {engine', stopping'}
                        \/ Silent(g) /\ session'[g] \in {"none", "stopped"}
    BY <1>7 DEF BindSender, Rows, Left
  <2> QED BY <2>1, <2>3, <2>4, <2>5, RowsOn
<1>8. CASE DetachNothing(a)
  <2>1. /\ \A b \in Callers : b # a => call'[b] = call[b]
        /\ UNCHANGED <<born, vision, media>>
    BY <1>8 DEF IInv, TypeOK, DetachNothing, AfterStop
  <2>3. Row(a)'
    BY <1>8, <2>1 DEF IInv, TypeOK, Roles, Launching, Launches, InLaunch, Aborting, DetachNothing,
       AfterStop, Rows, Kept, Row
  <2>4. \A g \in Gens : session'[g] = session[g] \/
            /\ g <= born
            /\ \A b \in Callers : b # a /\ call[b].gen = g => ~InLaunch(b) /\ call[b].pc # "clear"
    BY <1>8 DEF DetachNothing, AfterStop
  <2>5. \A g \in Gens : \/ g \in {engine', stopping'}
                        \/ Silent(g) /\ session'[g] \in {"none", "stopped"}
    BY <1>8 DEF DetachNothing, AfterStop, Rows, Left
  <2> QED BY <2>1, <2>3, <2>4, <2>5, RowsOn
<1>9. CASE Detach(a)
  <2>1. /\ \A b \in Callers : b # a => call'[b] = call[b]
        /\ UNCHANGED <<born, vision, media>>
    BY <1>9 DEF IInv, TypeOK, Detach
  <2>3. Row(a)'
    BY <1>9, <2>1 DEF IInv, TypeOK, Roles, Launching, Launches, InLaunch, Aborting, Detach, Rows,
       Kept, Row
  <2>4. \A g \in Gens : session'[g] = session[g] \/
            /\ g <= born
            /\ \A b \in Callers : b # a /\ call[b].gen = g => ~InLaunch(b) /\ call[b].pc # "clear"
    BY <1>9 DEF Detach
  <2>5. \A g \in Gens : \/ g \in {engine', stopping'}
                        \/ Silent(g) /\ session'[g] \in {"none", "stopped"}
    <3>1. stopping = 0 /\ stopping' = engine /\ UNCHANGED session
      BY <1>9 DEF IInv, Roles, Exclusive, Detach
    <3> QED BY <3>1, BoundsAssumption DEF Gens, Rows, Left
  <2> QED BY <2>1, <2>3, <2>4, <2>5, RowsOn
<1>10. CASE MarkDisconnected(a)
  <2>1. /\ \A b \in Callers : b # a => call'[b] = call[b]
        /\ UNCHANGED <<born, vision, media>>
    BY <1>10 DEF IInv, TypeOK, MarkDisconnected
  <2>2. InRelease(a) /\ ~InLaunch(a) /\ call[a].gen = stopping /\ stopping \in Gens /\ engine = 0
    BY <1>10, RoleGen DEF IInv, Roles, Exclusive, Launching, Launches, Releasing, InLaunch, InRelease,
       Aborting, ReleasePcs, MarkDisconnected
  <2>3. Row(a)'
    BY <1>10, <2>1, <2>2 DEF IInv, TypeOK, Roles, Launching, Launches, InLaunch, Aborting,
       MarkDisconnected, Rows, Kept, Row
  <2>4. \A g \in Gens : session'[g] = session[g] \/
            /\ g <= born
            /\ \A b \in Callers : b # a /\ call[b].gen = g => ~InLaunch(b) /\ call[b].pc # "clear"
    <3>1. \A g \in Gens : g # stopping => session'[g] = session[g]
      BY <1>10, <2>2 DEF IInv, TypeOK, MarkDisconnected
    <3>2. stopping <= born
      BY <2>2, BoundsAssumption DEF IInv, TypeOK, Gens, Marks, Numbered
    <3>3. \A b \in Callers : ~InLaunch(b)
      BY <2>2 DEF IInv, Roles, Launching, Launches
    <3>4. \A b \in Callers : b # a => ~InRelease(b)
      BY <2>2 DEF IInv, Roles, OneReleaser
    <3>5. \A b \in Callers : b # a => call[b].pc # "clear"
      BY <3>3, <3>4 DEF InLaunch, InRelease, ReleasePcs
    <3> QED BY <3>1, <3>2, <3>3, <3>5
  <2>5. \A g \in Gens : \/ g \in {engine', stopping'}
                        \/ Silent(g) /\ session'[g] \in {"none", "stopped"}
    BY <1>10, <2>2 DEF IInv, TypeOK, MarkDisconnected, Rows, Left
  <2> QED BY <2>1, <2>3, <2>4, <2>5, RowsOn
<1>11. CASE SaveRaises(a)
  BY <1>11 DEF SaveRaises
<1>12. CASE DropNothing(a)
  <2>1. /\ \A b \in Callers : b # a => call'[b] = call[b]
        /\ UNCHANGED <<born, vision, media>>
    BY <1>12 DEF IInv, TypeOK, DropNothing
  <2>3. Row(a)'
    BY <1>12, <2>1 DEF IInv, TypeOK, Roles, Launching, Launches, InLaunch, Aborting, DropNothing,
       Rows, Kept, Row
  <2>4. \A g \in Gens : session'[g] = session[g] \/
            /\ g <= born
            /\ \A b \in Callers : b # a /\ call[b].gen = g => ~InLaunch(b) /\ call[b].pc # "clear"
    BY <1>12 DEF DropNothing
  <2>5. \A g \in Gens : \/ g \in {engine', stopping'}
                        \/ Silent(g) /\ session'[g] \in {"none", "stopped"}
    BY <1>12 DEF DropNothing, Rows, Left
  <2> QED BY <2>1, <2>3, <2>4, <2>5, RowsOn
<1>13. CASE DropSender(a)
  <2>1. /\ \A b \in Callers : b # a => call'[b] = call[b]
        /\ UNCHANGED <<born, vision, media>>
    BY <1>13 DEF IInv, TypeOK, DropSender
  <2>2. engine = call[a].gen /\ engine \in Gens /\ engine # 0 /\ stopping' = engine
    BY <1>13, BoundsAssumption DEF IInv, TypeOK, Gens, DropSender
  <2>3. Row(a)'
    BY <1>13, <2>1, <2>2 DEF IInv, TypeOK, Roles, Launching, Launches, InLaunch, Aborting,
       DropSender, Rows, Kept, Row
  <2>4. \A g \in Gens : session'[g] = session[g] \/
            /\ g <= born
            /\ \A b \in Callers : b # a /\ call[b].gen = g => ~InLaunch(b) /\ call[b].pc # "clear"
    <3>1. \A g \in Gens : g # engine => session'[g] = session[g]
      BY <1>13, <2>2 DEF IInv, TypeOK, DropSender
    <3>2. engine <= born /\ stopping = 0
      BY <2>2, BoundsAssumption DEF IInv, TypeOK, Gens, Roles, Exclusive, Marks, Numbered
    <3>3. \A b \in Callers : b # a => ~InLaunch(b)
      BY <1>13, CallersAssumption DEF IInv, Roles, Launching, Launches, DropSender
    <3>4. \A b \in Callers : ~InRelease(b)
      BY <3>2 DEF IInv, Roles, Releasing
    <3>5. \A b \in Callers : b # a => call[b].pc # "clear"
      BY <3>3, <3>4 DEF InLaunch, InRelease, ReleasePcs
    <3> QED BY <3>1, <3>2, <3>3, <3>5
  <2>5. \A g \in Gens : \/ g \in {engine', stopping'}
                        \/ Silent(g) /\ session'[g] \in {"none", "stopped"}
    <3>1. stopping = 0 /\ \A g \in Gens : g # engine => session'[g] = session[g]
      BY <1>13, <2>2 DEF IInv, TypeOK, Roles, Exclusive, DropSender
    <3> QED BY <2>2, <3>1, BoundsAssumption DEF Gens, Rows, Left
  <2> QED BY <2>1, <2>3, <2>4, <2>5, RowsOn
<1>14. CASE Halt(a)
  <2>1. /\ \A b \in Callers : b # a => call'[b] = call[b]
        /\ UNCHANGED <<born, vision, media>>
    BY <1>14 DEF IInv, TypeOK, Halt
  <2>2. InRelease(a) /\ ~InLaunch(a) /\ call[a].gen = stopping /\ stopping \in Gens /\ engine = 0
    BY <1>14, RoleGen DEF IInv, Roles, Exclusive, Launching, Launches, Releasing, InLaunch, InRelease,
       Aborting, ReleasePcs, Halt
  <2>3. Row(a)'
    BY <1>14, <2>1, <2>2 DEF IInv, TypeOK, Roles, Launching, Launches, InLaunch, Aborting, Halt,
       Rows, Kept, Row
  <2>4. \A g \in Gens : session'[g] = session[g] \/
            /\ g <= born
            /\ \A b \in Callers : b # a /\ call[b].gen = g => ~InLaunch(b) /\ call[b].pc # "clear"
    BY <1>14 DEF Halt
  <2>5. \A g \in Gens : \/ g \in {engine', stopping'}
                        \/ Silent(g) /\ session'[g] \in {"none", "stopped"}
    BY <1>14 DEF Halt, Rows, Left
  <2> QED BY <2>1, <2>3, <2>4, <2>5, RowsOn
<1>15. CASE JoinCapture(a)
  <2>1. /\ \A b \in Callers : b # a => call'[b] = call[b]
        /\ UNCHANGED <<born, vision, media>>
    BY <1>15 DEF IInv, TypeOK, JoinCapture, AfterCapture
  <2>3. Row(a)'
    BY <1>15, <2>1 DEF IInv, TypeOK, Roles, Launching, Launches, InLaunch, Aborting, JoinCapture,
       AfterCapture, Rows, Kept, Row
  <2>4. \A g \in Gens : session'[g] = session[g] \/
            /\ g <= born
            /\ \A b \in Callers : b # a /\ call[b].gen = g => ~InLaunch(b) /\ call[b].pc # "clear"
    BY <1>15 DEF JoinCapture, AfterCapture
  <2>5. \A g \in Gens : \/ g \in {engine', stopping'}
                        \/ Silent(g) /\ session'[g] \in {"none", "stopped"}
    BY <1>15 DEF JoinCapture, AfterCapture, Rows, Left
  <2> QED BY <2>1, <2>3, <2>4, <2>5, RowsOn
<1>16. CASE DisconnectBlocked(a)
  <2>1. /\ \A b \in Callers : b # a => call'[b] = call[b]
        /\ UNCHANGED <<born, vision, media>>
    BY <1>16 DEF IInv, TypeOK, DisconnectBlocked, AfterCapture, Disconnected
  <2>3. Row(a)'
    BY <1>16, <2>1 DEF IInv, TypeOK, Roles, Launching, Launches, InLaunch, Aborting,
       DisconnectBlocked, AfterCapture, Disconnected, Rows, Kept, Row
  <2>4. \A g \in Gens : session'[g] = session[g] \/
            /\ g <= born
            /\ \A b \in Callers : b # a /\ call[b].gen = g => ~InLaunch(b) /\ call[b].pc # "clear"
    BY <1>16 DEF DisconnectBlocked, AfterCapture, Disconnected
  <2>5. \A g \in Gens : \/ g \in {engine', stopping'}
                        \/ Silent(g) /\ session'[g] \in {"none", "stopped"}
    BY <1>16 DEF DisconnectBlocked, AfterCapture, Disconnected, Rows, Left
  <2> QED BY <2>1, <2>3, <2>4, <2>5, RowsOn
<1>17. CASE JoinVision(a)
  <2>1. /\ \A b \in Callers : b # a => call'[b] = call[b]
        /\ UNCHANGED <<born, vision, media>>
    BY <1>17 DEF IInv, TypeOK, JoinVision
  <2>3. Row(a)'
    BY <1>17, <2>1 DEF IInv, TypeOK, Roles, Launching, Launches, InLaunch, Aborting, JoinVision,
       Rows, Kept, Row
  <2>4. \A g \in Gens : session'[g] = session[g] \/
            /\ g <= born
            /\ \A b \in Callers : b # a /\ call[b].gen = g => ~InLaunch(b) /\ call[b].pc # "clear"
    BY <1>17 DEF JoinVision
  <2>5. \A g \in Gens : \/ g \in {engine', stopping'}
                        \/ Silent(g) /\ session'[g] \in {"none", "stopped"}
    BY <1>17 DEF JoinVision, Rows, Left
  <2> QED BY <2>1, <2>3, <2>4, <2>5, RowsOn
<1>18. CASE JoinMedia(a)
  <2>1. /\ \A b \in Callers : b # a => call'[b] = call[b]
        /\ UNCHANGED <<born, vision, media>>
    BY <1>18 DEF IInv, TypeOK, JoinMedia
  <2>2. InLaunch(a) \/ InRelease(a)
    BY <1>18 DEF IInv, Marks, ClosedBy, JoinMedia, InLaunch, InRelease, Aborting, ReleasePcs
  <2>3. Row(a)'
    BY <1>18, <2>1, <2>2 DEF IInv, TypeOK, Roles, Launching, Launches, InLaunch, Aborting,
       JoinMedia, Rows, Kept, Row
  <2>4. \A g \in Gens : session'[g] = session[g] \/
            /\ g <= born
            /\ \A b \in Callers : b # a /\ call[b].gen = g => ~InLaunch(b) /\ call[b].pc # "clear"
    BY <1>18 DEF JoinMedia
  <2>5. \A g \in Gens : \/ g \in {engine', stopping'}
                        \/ Silent(g) /\ session'[g] \in {"none", "stopped"}
    BY <1>18 DEF JoinMedia, Rows, Left
  <2> QED BY <2>1, <2>3, <2>4, <2>5, RowsOn
<1>19. CASE Withdraw(a)
  <2>1. /\ \A b \in Callers : b # a => call'[b] = call[b]
        /\ UNCHANGED <<born, vision, media>>
    BY <1>19 DEF IInv, TypeOK, Withdraw
  <2>2. InLaunch(a) \/ InRelease(a)
    BY <1>19 DEF IInv, Marks, ClosedBy, Withdraw, InLaunch, InRelease, Aborting, ReleasePcs
  <2>3. Row(a)'
    BY <1>19, <2>1, <2>2 DEF IInv, TypeOK, Roles, Launching, Launches, InLaunch, Aborting,
       Withdraw, Rows, Kept, Row
  <2>4. \A g \in Gens : session'[g] = session[g] \/
            /\ g <= born
            /\ \A b \in Callers : b # a /\ call[b].gen = g => ~InLaunch(b) /\ call[b].pc # "clear"
    BY <1>19 DEF Withdraw
  <2>5. \A g \in Gens : \/ g \in {engine', stopping'}
                        \/ Silent(g) /\ session'[g] \in {"none", "stopped"}
    <3>1. InLaunch(a)
      BY <1>19 DEF IInv, Marks, ClosedBy, Withdraw, InLaunch, Aborting
    <3>2. Silent(engine) /\ session[engine] = "none"
      BY <3>1 DEF Rows, Kept, Row, IInv, Roles, Launching, Launches, Silent
    <3> QED BY <1>19, <3>2 DEF Withdraw, Rows, Left
  <2> QED BY <2>1, <2>3, <2>4, <2>5, RowsOn
<1>20. CASE Seal(a)
  <2>1. /\ \A b \in Callers : b # a => call'[b] = call[b]
        /\ UNCHANGED <<born, vision, media>>
    BY <1>20 DEF IInv, TypeOK, Seal
  <2>2. InRelease(a) /\ ~InLaunch(a) /\ call[a].gen = stopping /\ stopping \in Gens /\ engine = 0
    BY <1>20, RoleGen DEF IInv, Roles, Exclusive, Launching, Launches, Releasing, InLaunch, InRelease,
       Aborting, ReleasePcs, Seal
  <2>3. Row(a)'
    BY <1>20, <2>1, <2>2 DEF IInv, TypeOK, Seal, Rows, Kept, Row, InLaunch, Aborting
  <2>4. \A g \in Gens : session'[g] = session[g] \/
            /\ g <= born
            /\ \A b \in Callers : b # a /\ call[b].gen = g => ~InLaunch(b) /\ call[b].pc # "clear"
    <3>1. \A g \in Gens : g # stopping => session'[g] = session[g]
      BY <1>20, <2>2 DEF IInv, TypeOK, Seal
    <3>2. stopping <= born
      BY <2>2, BoundsAssumption DEF IInv, TypeOK, Gens, Marks, Numbered
    <3>3. \A b \in Callers : ~InLaunch(b)
      BY <2>2 DEF IInv, Roles, Launching, Launches
    <3>4. \A b \in Callers : b # a => ~InRelease(b)
      BY <2>2 DEF IInv, Roles, OneReleaser
    <3>5. \A b \in Callers : b # a => call[b].pc # "clear"
      BY <3>3, <3>4 DEF InLaunch, InRelease, ReleasePcs
    <3> QED BY <3>1, <3>2, <3>3, <3>5
  <2>5. \A g \in Gens : \/ g \in {engine', stopping'}
                        \/ Silent(g) /\ session'[g] \in {"none", "stopped"}
    BY <1>20, <2>2 DEF IInv, TypeOK, Seal, Rows, Left
  <2> QED BY <2>1, <2>3, <2>4, <2>5, RowsOn
<1>21. CASE Clear(a)
  <2>1. /\ \A b \in Callers : b # a => call'[b] = call[b]
        /\ UNCHANGED <<born, vision, media>>
    BY <1>21 DEF IInv, TypeOK, Clear, AfterStop
  <2>2. InRelease(a) /\ ~InLaunch(a) /\ call[a].gen = stopping /\ stopping \in Gens /\ engine = 0
    BY <1>21, RoleGen DEF IInv, Roles, Exclusive, Launching, Launches, Releasing, InLaunch, InRelease,
       Aborting, ReleasePcs, Clear
  <2>3. Row(a)'
    BY <1>21, <2>1, <2>2 DEF IInv, TypeOK, Roles, Launching, Launches, InLaunch, Aborting, Clear,
       AfterStop, Rows, Kept, Row
  <2>4. \A g \in Gens : session'[g] = session[g] \/
            /\ g <= born
            /\ \A b \in Callers : b # a /\ call[b].gen = g => ~InLaunch(b) /\ call[b].pc # "clear"
    BY <1>21 DEF Clear, AfterStop
  <2>5. \A g \in Gens : \/ g \in {engine', stopping'}
                        \/ Silent(g) /\ session'[g] \in {"none", "stopped"}
    <3>1. Silent(stopping) /\ session[stopping] = "stopped"
      BY <1>21, <2>2 DEF Clear, Rows, Kept, Row, IInv, Marks, ClosedBy, Quiet, Silent
    <3> QED BY <1>21, <2>2, <3>1 DEF Clear, Rows, Left
  <2> QED BY <2>1, <2>3, <2>4, <2>5, RowsOn
<1>22. CASE LookRaises(a)
  <2>1. /\ \A b \in Callers : b # a => call'[b] = call[b]
        /\ UNCHANGED <<born, vision, media>>
    BY <1>22 DEF IInv, TypeOK, LookRaises
  <2>3. Row(a)'
    BY <1>22, <2>1 DEF IInv, TypeOK, Roles, Launching, Launches, InLaunch, Aborting, LookRaises,
       Rows, Kept, Row
  <2>4. \A g \in Gens : session'[g] = session[g] \/
            /\ g <= born
            /\ \A b \in Callers : b # a /\ call[b].gen = g => ~InLaunch(b) /\ call[b].pc # "clear"
    BY <1>22 DEF LookRaises
  <2>5. \A g \in Gens : \/ g \in {engine', stopping'}
                        \/ Silent(g) /\ session'[g] \in {"none", "stopped"}
    BY <1>22 DEF LookRaises, Rows, Left
  <2> QED BY <2>1, <2>3, <2>4, <2>5, RowsOn
<1> QED BY <1>1, <1>2, <1>3, <1>4, <1>5, <1>6, <1>7, <1>8, <1>9, <1>10, <1>11, <1>12, <1>13,
   <1>14, <1>15, <1>16, <1>17, <1>18, <1>19, <1>20, <1>21, <1>22 DEF Working

\* Every step of a vision thread or a media worker.
LEMMA RowsWriting ==
    ASSUME IInv, TypeOK', Rows, NEW g \in Gens, Seeing(g) \/ Persisting(g)
    PROVE  Rows'

<1>1. CASE TrackBegin(g)
  BY <1>1, RowsThread DEF IInv, TypeOK, Silent, TrackBegin
<1>2. CASE TrackSave(g)
  BY <1>2, RowsThread DEF IInv, TypeOK, Silent, TrackSave
<1>3. CASE Submit(g)
  BY <1>3, RowsThread DEF IInv, TypeOK, Silent, Submit
<1>4. CASE VisionEnds(g)
  BY <1>4, RowsThread DEF IInv, TypeOK, Silent, VisionEnds
<1>5. CASE EventBegin(g)
  BY <1>5, RowsThread DEF IInv, TypeOK, Silent, EventBegin
<1>6. CASE EventLook(g)
  BY <1>6, RowsThread DEF IInv, TypeOK, Silent, EventLook
<1>7. CASE EventStamp(g)
  BY <1>7, RowsThread DEF IInv, TypeOK, Silent, EventStamp
<1>8. CASE EventRecord(g)
  BY <1>8, RowsThread DEF IInv, TypeOK, Silent, EventRecord
<1> QED BY <1>1, <1>2, <1>3, <1>4, <1>5, <1>6, <1>7, <1>8 DEF Seeing, Persisting

\* Every step keeps what is known of the session rows.
LEMMA RowsStep ==
    ASSUME FailingSaves \cap {"mark", "seal"} = {}, "vision" \notin Timeouts,
           IInv, TypeOK', Rows, [Next]_vars
    PROVE  Rows'
<1>1. CASE UNCHANGED vars
  BY <1>1 DEF vars, Rows, Kept, Left, Unwritten, Row, Silent, InLaunch
<1>2. ASSUME NEW a \in Callers, NEW op \in Ops, Call(a, op) PROVE Rows'
  <2>1. /\ \A b \in Callers : b # a => call'[b] = call[b]
        /\ UNCHANGED <<engine, stopping, born, vision, media, session>>
    BY <1>2 DEF IInv, TypeOK, Call
  <2>2. Row(a)'
    BY <1>2, OpsAssumption DEF IInv, TypeOK, Call, Row, InLaunch, Aborting
  <2> QED BY <2>1, <2>2, RowsOn DEF Rows, Left
<1>3. ASSUME NEW a \in Callers, SenderEnds(a) PROVE Rows'
  <2>1. /\ \A b \in Callers : b # a => call'[b] = call[b]
        /\ UNCHANGED <<engine, stopping, born, vision, media, session>>
    BY <1>3 DEF IInv, TypeOK, SenderEnds
  <2>2. Row(a)'
    BY <1>3, <2>1 DEF IInv, TypeOK, SenderEnds, Rows, Kept, Row, InLaunch
  <2> QED BY <2>1, <2>2, RowsOn DEF Rows, Left
<1>4. ASSUME NEW a \in Callers, Working(a) PROVE Rows'
  BY <1>4, RowsWorking
<1>5. ASSUME NEW g \in Gens, Capturing(g) PROVE Rows'
  <2>1. UNCHANGED <<runtime, vision, media, session>>
    BY <1>5 DEF Capturing, AcquireLease, LeaseBusy, Opened, OpenFails, Reconnect, CaptureFails,
       CaptureStops, Release
  <2> QED BY <2>1, RowsThread DEF Silent
<1>6. ASSUME NEW g \in Gens, Seeing(g) \/ Persisting(g) PROVE Rows'
  BY <1>6, RowsWriting
<1> QED BY <1>1, <1>2, <1>3, <1>4, <1>5, <1>6 DEF Next

\* What a generation leaves behind is given back: its device by its threads,
\* and its row and its place in the registry by the request at work on them.
THEOREM ReleasedAlways ==
    ASSUME FailingSaves = {}, "vision" \notin Timeouts
    PROVE  Spec => []Released
<1>1. Init => Rows
  BY CallersAssumption DEF Init, Rows, Kept, Left, Unwritten, Row, Silent, InLaunch, Aborting
<1>2. IInv /\ TypeOK' /\ Rows /\ [Next]_vars => Rows'
  BY RowsStep
<1>3. IInv /\ Rows /\ DeviceFreed /\ Attended => Released
  BY BoundsAssumption DEF IInv, TypeOK, Gens, Rows, Left, SessionEnded, Released
<1>4. "mark" \notin FailingSaves /\ FailingSaves \cap {"look", "mark", "drop"} = {}
  OBVIOUS
<1> QED BY <1>1, <1>2, <1>3, <1>4, TypeCorrect, Invariant, DeviceFreedAlways, AttendedAlways, PTL
       DEF Spec

=============================================================================
