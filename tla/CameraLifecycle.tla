--------------------------- MODULE CameraLifecycle ---------------------------
(***************************************************************************)
(* Starting, stopping and replacing the engine of one camera: the Runtime  *)
(* methods start, stop, restart and the browser sender's acquire and       *)
(* release (main.py), VisionEngine.start and stop (engine.py),             *)
(* CaptureWorker (capture.py), WebcamSource with its CameraManager lease,  *)
(* and the engine's callbacks into Runtime (event, track).                 *)
(*                                                                         *)
(* Every start builds a new VisionEngine with a capture worker and a       *)
(* source of its own: a generation.  Each generation runs a capture        *)
(* thread, a vision thread and one media worker; request handlers (the     *)
(* callers) start and stop generations concurrently.  Runtime.lock is held *)
(* across several steps by a launch and by acquire_browser_sender only;    *)
(* elsewhere it is taken and released within one action.                   *)
(*                                                                         *)
(* Abstractions.  A generation has one row in source_sessions.  A source's *)
(* disconnect is one step.  Frames are not counted: a running vision       *)
(* thread may produce a track or an event at any time.  The preview thread *)
(* and acceptance runs are left out, and so is the second look at engines  *)
(* when a photo identity's event commits.  The save that announces a new   *)
(* session does not fail.                                                  *)
(***************************************************************************)
EXTENDS Integers, FiniteSets

CONSTANTS
    Callers,     \* request handlers
    Ops,         \* what they may ask for
    Browser,     \* the source is a browser camera, else a leased webcam
    Timeouts,    \* the threads for which a bounded wait may run out
    FailingSaves,  \* the database calls of a stop that may raise
    MaxGen,      \* bound on the generations
    None

Gens == 1..MaxGen
ASSUME CallersAssumption == None \notin Callers
ASSUME OpsAssumption == Ops \subseteq {"start", "stop", "restart", "acquire"}
ASSUME SavesAssumption == FailingSaves \subseteq {"look", "mark", "seal", "drop"}
ASSUME BoundsAssumption ==
    MaxGen \in Nat /\ Browser \in BOOLEAN /\ Timeouts \subseteq {"capture", "vision"}

VARIABLES
    engine,      \* engines[camera], 0 if there is none
    stopping,    \* stopping_engines[camera], 0 if there is none
    lock,        \* the caller that holds Runtime.lock across steps
    call,        \* per caller: where it is, for what, with which generation
    born,        \* generations created so far
    capture,     \* per generation: its capture thread
    vision,      \* its vision thread
    media,       \* the job of its media worker
    session,     \* status of its row in source_sessions
    halted,      \* generations whose stop events are set
    failed,      \* generations whose capture reports an error
    forced,      \* generations whose source stop disconnected under their thread
    closed,      \* generations whose media executor is shut down
    connected,   \* _connect_ok
    handle,      \* generations whose source holds an open device
    lease,       \* the CameraManager's owner of the device
    sender       \* generations whose source has a sender token

vars == <<engine, stopping, lock, call, born, capture, vision, media, session,
          halted, failed, closed, forced, connected, handle, lease, sender>>
runtime == <<engine, stopping, lock, call, born>>
source == <<connected, handle, lease, sender>>
flags == <<halted, failed, closed, forced>>
workers == <<capture, vision, media>>

Idle == [pc |-> "idle", op |-> "none", gen |-> 0]
Init ==
    /\ engine = 0 /\ stopping = 0 /\ lock = None /\ born = 0
    /\ call = [a \in Callers |-> Idle]
    /\ capture = [g \in Gens |-> "absent"] /\ vision = [g \in Gens |-> "absent"]
    /\ media = [g \in Gens |-> "none"] /\ session = [g \in Gens |-> "none"]
    /\ halted = {} /\ failed = {} /\ closed = {} /\ forced = {}
    /\ connected = {} /\ handle = {} /\ lease = 0 /\ sender = {}

-----------------------------------------------------------------------------
At(a, pc) == call[a].pc = pc
Become(a, pc, op, g) == call' = [call EXCEPT ![a] = [pc |-> pc, op |-> op, gen |-> g]]
Goto(a, pc) == Become(a, pc, call[a].op, call[a].gen)
GotoFor(a, pc, g) == Become(a, pc, call[a].op, g)
GotoAs(a, pc, op) == Become(a, pc, op, call[a].gen)
Return(a) == call' = [call EXCEPT ![a] = Idle]
\* Runtime.lock is reentrant; other threads wait for it.
MayLock(a) == lock \in {None, a}
Unlock(a) == lock' = IF lock = a THEN None ELSE lock

\* health() is "error".
Stale(g) == g \in failed

-----------------------------------------------------------------------------
(* Runtime.start, restart and acquire_browser_sender.                      *)

Call(a, op) ==
    /\ At(a, "idle")
    /\ Become(a, IF op \in {"stop", "restart"} THEN "detach" ELSE "check", op, 0)
    /\ UNCHANGED <<engine, stopping, lock, born, workers, session, flags, source>>

\* The stale engine is looked up under the lock and stopped without it, unless
\* the caller is acquire_browser_sender, which holds the lock all along.
CheckStale(a) ==
    /\ At(a, "check") /\ MayLock(a)
    /\ lock' = IF call[a].op = "acquire" THEN a ELSE lock
    /\ IF engine # 0 /\ Stale(engine) THEN GotoFor(a, "detach", engine) ELSE Goto(a, "launch")
    /\ UNCHANGED <<engine, stopping, born, workers, session, flags, source>>

\* 409 while the old generation is being released; the camera's settings or a
\* diagnosis may refuse a start at any time.
LaunchRefused(a) ==
    /\ At(a, "launch") /\ MayLock(a)
    /\ Return(a) /\ Unlock(a)
    /\ UNCHANGED <<engine, stopping, born, workers, session, flags, source>>

\* The camera runs already.
LaunchPresent(a) ==
    /\ At(a, "launch") /\ MayLock(a) /\ stopping = 0 /\ engine # 0
    /\ IF call[a].op = "acquire" THEN GotoFor(a, "bind", engine) ELSE Return(a)
    /\ UNCHANGED <<engine, stopping, lock, born, workers, session, flags, source>>

\* Mutant: a generation that is still being released does not matter.
MutantLaunch(a) ==
    /\ At(a, "launch") /\ MayLock(a) /\ engine = 0 /\ born < MaxGen
    /\ born' = born + 1 /\ engine' = born' /\ lock' = a
    /\ capture' = [capture EXCEPT ![born'] = "connect"]
    /\ GotoFor(a, "ready", born')
    /\ UNCHANGED <<stopping, vision, media, session, flags, source>>
\* The lock is held from here until the engine has started or failed to.
Launch(a) ==
    /\ At(a, "launch") /\ MayLock(a) /\ stopping = 0 /\ engine = 0 /\ born < MaxGen
    /\ born' = born + 1 /\ engine' = born' /\ lock' = a
    /\ capture' = [capture EXCEPT ![born'] = "connect"]
    /\ GotoFor(a, "ready", born')
    /\ UNCHANGED <<stopping, vision, media, session, flags, source>>

Started(a) ==
    LET g == call[a].gen IN
    /\ At(a, "ready") /\ g \in connected
    /\ vision' = [vision EXCEPT ![g] = "idle"] /\ media' = [media EXCEPT ![g] = "idle"]
    /\ session' = [session EXCEPT ![g] = "streaming"]
    /\ IF call[a].op = "acquire" THEN Goto(a, "bind") /\ UNCHANGED lock
       ELSE Return(a) /\ Unlock(a)
    /\ UNCHANGED <<engine, stopping, born, capture, flags, source>>

\* connect failed, or the ready event did not come in connect_wait_seconds.
StartFails(a) ==
    LET g == call[a].gen IN
    /\ At(a, "ready") /\ g \notin connected
    /\ "capture" \in Timeouts \/ capture[g] \in {"release", "dead"}
    /\ halted' = halted \cup {g}
    /\ GotoAs(a, "joinCapture", "abort")
    /\ UNCHANGED <<engine, stopping, lock, born, workers, session, failed, closed, forced, source>>

\* sender_connected
BindSender(a) ==
    LET g == call[a].gen IN
    /\ At(a, "bind") /\ Unlock(a)
    /\ IF g \in handle \ sender THEN sender' = sender \cup {g} /\ Goto(a, "sending")
       ELSE UNCHANGED sender /\ Return(a)
    /\ UNCHANGED <<engine, stopping, born, workers, session, flags, connected, handle, lease>>

-----------------------------------------------------------------------------
(* Runtime.stop and the browser sender's release.                          *)

\* stop returns: a restart goes on with start, a start with the launch.
AfterStop(a) ==
    IF call[a].op = "stop" THEN Return(a) /\ Unlock(a)
    ELSE /\ IF call[a].op = "restart" THEN GotoAs(a, "check", "start")
            ELSE GotoFor(a, "launch", 0)
         /\ UNCHANGED lock

DetachNothing(a) ==
    /\ At(a, "detach") /\ MayLock(a)
    /\ engine = 0 \/ (call[a].gen # 0 /\ engine # call[a].gen)
    /\ AfterStop(a)
    /\ UNCHANGED <<engine, stopping, born, workers, session, flags, source>>

\* Mutant: the lock is kept until the workers are joined.
MutantDetach(a) ==
    /\ At(a, "detach") /\ MayLock(a) /\ engine # 0 /\ call[a].gen \in {0, engine}
    /\ stopping' = engine /\ engine' = 0 /\ lock' = a
    /\ GotoFor(a, "mark", engine)
    /\ UNCHANGED <<born, workers, session, flags, source>>
Detach(a) ==
    /\ At(a, "detach") /\ MayLock(a) /\ engine # 0 /\ call[a].gen \in {0, engine}
    /\ stopping' = engine /\ engine' = 0
    /\ GotoFor(a, "mark", engine)
    /\ UNCHANGED <<lock, born, workers, session, flags, source>>

MarkDisconnected(a) ==
    /\ At(a, "mark") /\ Goto(a, "halt")
    /\ session' = [session EXCEPT ![call[a].gen] = "disconnected"]
    /\ UNCHANGED <<engine, stopping, lock, born, workers, flags, source>>

\* The look for an acceptance run of the camera, or its cancellation, raises
\* before the try: the generation stays in the registry, with its workers.
LookRaises(a) ==
    /\ At(a, "mark") /\ "look" \in FailingSaves
    /\ Return(a) /\ Unlock(a)
    /\ UNCHANGED <<engine, stopping, born, workers, session, flags, source>>

\* A save of the session row raises: the finally clause, then the caller.
SaveRaises(a) ==
    /\ call[a].pc \in FailingSaves \cap {"mark", "seal"}
    /\ GotoAs(a, "clear", "stop")
    /\ UNCHANGED <<engine, stopping, lock, born, workers, session, flags, source>>

\* The browser's connection ends at some time.
SenderEnds(a) ==
    /\ At(a, "sending") /\ Goto(a, "drop")
    /\ UNCHANGED <<engine, stopping, lock, born, workers, session, flags, source>>

\* begin_browser_sender_release for a generation replaced or stopped meanwhile.
DropNothing(a) ==
    LET g == call[a].gen IN
    /\ At(a, "drop") /\ MayLock(a)
    /\ engine # g \/ g \notin sender
    /\ sender' = sender \ {g} /\ Return(a)
    /\ UNCHANGED <<engine, stopping, lock, born, workers, session, flags, connected, handle, lease>>

DropSender(a) ==
    LET g == call[a].gen IN
    /\ At(a, "drop") /\ MayLock(a) /\ engine = g /\ g \in sender
    /\ sender' = sender \ {g} /\ stopping' = g /\ engine' = 0
    /\ \/ /\ session' = [session EXCEPT ![g] = "stopped"]
          /\ GotoAs(a, "halt", "stop")
       \/ "drop" \in FailingSaves /\ Return(a) /\ UNCHANGED session
    /\ UNCHANGED <<lock, born, workers, flags, connected, handle, lease>>

\* VisionEngine.stop and, within it, CaptureWorker.stop.
Halt(a) ==
    /\ At(a, "halt") /\ Goto(a, "joinCapture")
    /\ halted' = halted \cup {call[a].gen}
    /\ UNCHANGED <<engine, stopping, lock, born, workers, session, failed, closed, forced, source>>

Disconnected(g) ==
    /\ handle' = handle \ {g} /\ sender' = sender \ {g}
    /\ lease' = IF lease = g THEN 0 ELSE lease

\* A failed start stops its capture twice: in the engine and in Runtime.start.
AfterCapture(a) ==
    IF call[a].op = "abort" THEN GotoAs(a, "joinCapture", "withdraw")
    ELSE Goto(a, "joinVision")

JoinCapture(a) ==
    /\ At(a, "joinCapture") /\ capture[call[a].gen] \in {"absent", "dead"}
    /\ AfterCapture(a)
    /\ UNCHANGED <<engine, stopping, lock, born, workers, session, flags, source>>

\* The thread did not end: the source is disconnected from this thread and
\* joined once more, which may run out as well.
DisconnectBlocked(a) ==
    /\ At(a, "joinCapture") /\ "capture" \in Timeouts /\ capture[call[a].gen] # "dead"
    /\ Disconnected(call[a].gen) /\ AfterCapture(a)
    /\ forced' = forced \cup {call[a].gen}
    /\ UNCHANGED <<engine, stopping, lock, born, workers, session, halted, failed, closed, connected>>

\* Mutant: the vision thread is waited for without bound.
MutantJoinVision(a) ==
    /\ At(a, "joinVision") /\ Goto(a, "joinMedia")
    /\ vision[call[a].gen] \in {"absent", "dead"}
    /\ UNCHANGED <<engine, stopping, lock, born, workers, session, flags, source>>
JoinVision(a) ==
    /\ At(a, "joinVision") /\ Goto(a, "joinMedia")
    /\ "vision" \in Timeouts \/ vision[call[a].gen] \in {"absent", "dead"}
    /\ UNCHANGED <<engine, stopping, lock, born, workers, session, flags, source>>

\* Mutant: the media executor is not waited for.
MutantJoinMedia(a) ==
    /\ At(a, "joinMedia")
    /\ closed' = closed \cup {call[a].gen}
    /\ Goto(a, IF call[a].op = "withdraw" THEN "withdraw" ELSE "seal")
    /\ UNCHANGED <<engine, stopping, lock, born, workers, session, halted, failed, forced, source>>
\* The media executor is shut down and waited for without bound.
JoinMedia(a) ==
    /\ At(a, "joinMedia") /\ media[call[a].gen] \in {"none", "idle"}
    /\ closed' = closed \cup {call[a].gen}
    /\ Goto(a, IF call[a].op = "withdraw" THEN "withdraw" ELSE "seal")
    /\ UNCHANGED <<engine, stopping, lock, born, workers, session, halted, failed, forced, source>>

\* A failed launch withdraws its engine and releases the lock.
Withdraw(a) ==
    /\ At(a, "withdraw") /\ engine' = 0 /\ Return(a) /\ Unlock(a)
    /\ UNCHANGED <<stopping, born, workers, session, flags, source>>

\* Mutant: the final write of the session is left out.
MutantSeal(a) ==
    /\ At(a, "seal") /\ Goto(a, "clear")
    /\ UNCHANGED <<engine, stopping, lock, born, workers, session, flags, source>>
Seal(a) ==
    /\ At(a, "seal") /\ Goto(a, "clear")
    /\ session' = [session EXCEPT ![call[a].gen] = "stopped"]
    /\ UNCHANGED <<engine, stopping, lock, born, workers, flags, source>>

\* Mutant: the generation stays in the registry.
MutantClear(a) ==
    /\ At(a, "clear") /\ MayLock(a) /\ AfterStop(a)
    /\ UNCHANGED <<engine, stopping, born, workers, session, flags, source>>
Clear(a) ==
    /\ At(a, "clear") /\ MayLock(a)
    /\ stopping' = IF stopping = call[a].gen THEN 0 ELSE stopping
    /\ AfterStop(a)
    /\ UNCHANGED <<engine, born, workers, session, flags, source>>

-----------------------------------------------------------------------------
(* The capture thread: CaptureWorker._run and WebcamSource.connect.        *)

\* The lease of a dead thread is reclaimed.
Leasable == lease # 0 => capture[lease] = "dead"

AcquireLease(g) ==
    /\ capture[g] = "connect" /\ (Browser \/ Leasable)
    /\ capture' = [capture EXCEPT ![g] = "open"]
    /\ lease' = IF Browser THEN lease ELSE g
    /\ UNCHANGED <<runtime, vision, media, session, flags, connected, handle, sender>>

\* CameraBusyError after lock_timeout_seconds.
LeaseBusy(g) ==
    /\ capture[g] = "connect" /\ ~Browser /\ ~Leasable
    /\ capture' = [capture EXCEPT ![g] = IF g \in connected THEN "read" ELSE "release"]
    /\ failed' = failed \cup {g}
    /\ UNCHANGED <<runtime, vision, media, session, halted, closed, forced, source>>

Opened(g) ==
    /\ capture[g] = "open"
    /\ capture' = [capture EXCEPT ![g] = "read"]
    /\ handle' = handle \cup {g} /\ connected' = connected \cup {g}
    /\ UNCHANGED <<runtime, vision, media, session, flags, lease, sender>>

\* A first connect that fails ends the thread, a failed reconnect is repeated.
OpenFails(g) ==
    /\ capture[g] = "open" /\ ~Browser
    /\ capture' = [capture EXCEPT ![g] = IF g \in connected THEN "read" ELSE "release"]
    /\ lease' = IF lease = g THEN 0 ELSE lease
    /\ failed' = failed \cup {g}
    /\ UNCHANGED <<runtime, vision, media, session, halted, closed, forced, connected, handle, sender>>

\* reconnect_after_failures reads brought nothing.
Reconnect(g) ==
    /\ capture[g] = "read" /\ g \notin halted /\ ~Browser
    /\ capture' = [capture EXCEPT ![g] = "connect"] /\ Disconnected(g)
    /\ failed' = failed \ {g}
    /\ UNCHANGED <<runtime, vision, media, session, halted, closed, forced, connected>>

\* _capture_failed
CaptureFails(g) ==
    /\ capture[g] = "read" \/ (capture[g] = "open" /\ ~Browser)
    /\ capture' = [capture EXCEPT ![g] = "release"]
    /\ failed' = failed \cup {g} /\ connected' = connected \ {g}
    /\ lease' = IF capture[g] = "open" /\ lease = g THEN 0 ELSE lease
    /\ UNCHANGED <<runtime, vision, media, session, halted, closed, forced, handle, sender>>

CaptureStops(g) ==
    /\ capture[g] = "read" /\ g \in halted
    /\ capture' = [capture EXCEPT ![g] = "release"]
    /\ UNCHANGED <<runtime, vision, media, session, flags, source>>

\* Mutant: a failed capture keeps its device.
MutantRelease(g) ==
    /\ capture[g] = "release" /\ capture' = [capture EXCEPT ![g] = "dead"]
    /\ IF g \in failed THEN UNCHANGED <<handle, lease, sender>> ELSE Disconnected(g)
    /\ UNCHANGED <<runtime, vision, media, session, flags, connected>>
\* The finally clause disconnects, which may raise, then the thread ends.
Release(g) ==
    /\ capture[g] = "release" /\ capture' = [capture EXCEPT ![g] = "dead"]
    /\ Disconnected(g) /\ failed' \in {failed, failed \cup {g}}
    /\ UNCHANGED <<runtime, vision, media, session, halted, closed, forced, connected>>

-----------------------------------------------------------------------------
(* The vision thread and Runtime.track, the media worker and Runtime.event. *)

\* The callback's first look at engines waits for the lock.
TrackBegin(g) ==
    /\ vision[g] = "idle" /\ lock = None
    /\ engine = g /\ vision' = [vision EXCEPT ![g] = "track"]
    /\ UNCHANGED <<runtime, capture, media, session, flags, source>>

TrackSave(g) ==
    /\ vision[g] = "track" /\ vision' = [vision EXCEPT ![g] = "idle"]
    /\ session' = [session EXCEPT ![g] = "streaming"]
    /\ UNCHANGED <<runtime, capture, media, flags, source>>

\* _finalize: a shut-down executor refuses the job.
Submit(g) ==
    /\ vision[g] = "idle" /\ media[g] = "idle" /\ g \notin closed
    /\ media' = [media EXCEPT ![g] = "queued"]
    /\ UNCHANGED <<runtime, capture, vision, session, flags, source>>

VisionEnds(g) ==
    /\ vision[g] = "idle" /\ g \in halted
    /\ vision' = [vision EXCEPT ![g] = "dead"]
    /\ UNCHANGED <<runtime, capture, media, session, flags, source>>

\* Runtime.event proves that its generation is public, under the lock.
EventBegin(g) ==
    /\ media[g] = "queued" /\ lock = None
    /\ media' = [media EXCEPT ![g] = IF engine = g THEN "passed" ELSE "idle"]
    /\ UNCHANGED <<runtime, capture, vision, session, flags, source>>

\* The engine is read again, without lock, to update the session.
EventLook(g) ==
    /\ media[g] = "passed"
    /\ media' = [media EXCEPT ![g] = IF engine = g THEN "stamp" ELSE "record"]
    /\ UNCHANGED <<runtime, capture, vision, session, flags, source>>

\* Mutant: the engine's status is stored as it is.
MutantEventStamp(g) ==
    /\ media[g] = "stamp" /\ media' = [media EXCEPT ![g] = "record"]
    /\ session' = [session EXCEPT ![g] = "stalled"]
    /\ UNCHANGED <<runtime, capture, vision, flags, source>>
EventStamp(g) ==
    /\ media[g] = "stamp" /\ media' = [media EXCEPT ![g] = "record"]
    /\ \E status \in {"streaming"} \cup (IF g \in failed THEN {"error"} ELSE {}) :
           session' = [session EXCEPT ![g] = status]
    /\ UNCHANGED <<runtime, capture, vision, flags, source>>

EventRecord(g) ==
    /\ media[g] = "record" /\ media' = [media EXCEPT ![g] = "idle"]
    /\ UNCHANGED <<runtime, capture, vision, session, flags, source>>

-----------------------------------------------------------------------------
Working(a) ==
    \/ CheckStale(a) \/ LaunchRefused(a) \/ LaunchPresent(a) \/ Launch(a)
    \/ Started(a) \/ StartFails(a) \/ BindSender(a)
    \/ DetachNothing(a) \/ Detach(a) \/ MarkDisconnected(a) \/ SaveRaises(a)
    \/ LookRaises(a) \/ DropNothing(a) \/ DropSender(a)
    \/ Halt(a) \/ JoinCapture(a) \/ DisconnectBlocked(a) \/ JoinVision(a)
    \/ JoinMedia(a) \/ Withdraw(a) \/ Seal(a) \/ Clear(a)
Capturing(g) ==
    \/ AcquireLease(g) \/ LeaseBusy(g) \/ Opened(g) \/ OpenFails(g) \/ Reconnect(g)
    \/ CaptureFails(g) \/ CaptureStops(g) \/ Release(g)
Seeing(g) == TrackBegin(g) \/ TrackSave(g) \/ Submit(g) \/ VisionEnds(g)
Persisting(g) == EventBegin(g) \/ EventLook(g) \/ EventStamp(g) \/ EventRecord(g)

Next ==
    \/ \E a \in Callers : (\E op \in Ops : Call(a, op)) \/ SenderEnds(a) \/ Working(a)
    \/ \E g \in Gens : Capturing(g) \/ Seeing(g) \/ Persisting(g)
Spec == Init /\ [][Next]_vars

\* Callers and media workers run on, and get the lock when it is free again
\* and again.  Nothing is assumed of the threads that may hang in a driver.
Fairness ==
    /\ \A a \in Callers : SF_vars(Working(a))
    /\ \A g \in Gens : SF_vars(Persisting(g))
FairSpec == Spec /\ Fairness

-----------------------------------------------------------------------------
(* Properties.                                                             *)

Callings == [pc : {"idle", "check", "launch", "ready", "bind", "sending", "drop", "detach", "mark",
                   "halt", "joinCapture", "joinVision", "joinMedia", "withdraw", "seal", "clear"},
             op : {"none", "start", "stop", "restart", "acquire", "abort", "withdraw"}, gen : 0..MaxGen]

\* Every variable holds a value of the kind the code keeps in it.
TypeOK ==
    /\ engine \in 0..MaxGen /\ stopping \in 0..MaxGen /\ born \in 0..MaxGen /\ lease \in 0..MaxGen
    /\ lock \in Callers \cup {None} /\ call \in [Callers -> Callings]
    /\ capture \in [Gens -> {"absent", "connect", "open", "read", "release", "dead"}]
    /\ vision \in [Gens -> {"absent", "idle", "track", "dead"}]
    /\ media \in [Gens -> {"none", "idle", "queued", "passed", "stamp", "record"}]
    /\ session \in [Gens -> {"none", "streaming", "error", "disconnected", "stopped"}]
    /\ {halted, failed, closed, forced, connected, handle, sender} \subseteq SUBSET Gens

\* Evidence is only recorded by the generation that is public or being joined:
\* once stop has returned, no job that passed the engine check earlier commits,
\* even if the vision thread outlived its bounded join.
LateEvidence ==
    \A g \in Gens : media[g] \in {"passed", "stamp", "record"} => g \in {engine, stopping}

\* However starts, stops and restarts overlap, at most one generation has not
\* been told to stop, and it is the public one or the one being detached.
OneGeneration ==
    \A g, h \in 1..born : g \notin halted /\ h \notin halted => g = h

\* Two sources only have the device open at once after stop had to disconnect
\* one of them under its thread: the one case that the lease does not cover.
UsesDevice(g) == g \in handle \/ capture[g] = "open"
DeviceSharedOnlyIfForced ==
    \A g, h \in Gens : UsesDevice(g) /\ UsesDevice(h) => g = h \/ {g, h} \cap forced # {}

\* A replacement is only public when the capture threads of all earlier
\* generations have ended, or stop has given up on them.
OldSourceGone ==
    engine # 0 => \A g \in 1..born \ {engine} : capture[g] = "dead" \/ g \in forced

\* A generation that is neither public nor being stopped leaves no session row
\* that claims to stream: what late callbacks wrote is overwritten in the end
\* (as long as the vision thread ends within its join and the saves succeed).
SessionEnded ==
    \A g \in 1..born : g \notin {engine, stopping} => session[g] \in {"none", "stopped"}

\* A dead capture thread leaves neither device nor lease nor sender token,
\* whichever of the two threads that disconnect its source came first.
DeviceFreed ==
    \A g \in Gens : capture[g] = "dead" => g \notin handle \cup sender /\ lease # g

\* The stopping registry is never orphaned: a request is at work on the release
\* of the generation it names, or on the save before it, until it clears it.
Attended ==
    stopping # 0 => \E a \in Callers :
        /\ call[a].gen = stopping
        /\ call[a].pc \in {"mark", "halt", "joinCapture", "joinVision", "joinMedia", "seal", "clear"}

\* What a comment in main.py rules out: a caller that holds Runtime.lock waits
\* for a media worker that waits for Runtime.lock.
JoinsUnderLock(a) == At(a, "joinMedia") /\ lock = a /\ media[call[a].gen] = "queued"
NoJoinDeadlock ==
    \A a \in Callers : ~JoinsUnderLock(a)

\* Every request returns again and again, though capture and vision threads may
\* hang for ever, unless acquire_browser_sender joins under the lock.
Returns ==
    \A a \in Callers :
        []<>(call[a].pc \in {"idle", "sending"} \/ \E b \in Callers : JoinsUnderLock(b))

\* However starts, stops and restarts overlap, one source at a time is public,
\* and its device is its own unless stop gave up on an earlier thread.
OneSource == TypeOK /\ OneGeneration /\ OldSourceGone /\ DeviceSharedOnlyIfForced

\* What a generation leaves behind is given back: by its threads, and by the
\* request that is at work on it until its row no longer claims to stream.
Released == DeviceFreed /\ Attended /\ SessionEnded
=============================================================================
