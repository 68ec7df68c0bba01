----------------------------- MODULE UsbInstall -----------------------------
(***************************************************************************)
(* Automatic installation of a bound board over USB (firmware_usb.py), on  *)
(* the worker registry and the shutdown of the firmware service            *)
(* (firmware.py), inside the process that holds the runtime-mode lease     *)
(* (main.py, mode_lock.py).  REAL mode.                                    *)
(*                                                                         *)
(* An administrator binds one board to one version of the built firmware.  *)
(* A listener notices the board, reserves a receipt in the database and    *)
(* starts a job that flashes the board, once, and then only links it.  A   *)
(* failed or interrupted receipt is tried again only by an explicit        *)
(* recovery.  Jobs are threads; build_lock is held by whoever compiles or  *)
(* uses the USB tool, the lock of AutoUsbService by whoever decides about  *)
(* the binding.  The process may be killed between any two steps.          *)
(*                                                                         *)
(* A binding is named by its authorized_at, a number that grows.  The      *)
(* database fails nowhere but when recover enters the job of the attempt.  *)
(***************************************************************************)
EXTENDS Naturals, FiniteSets

CONSTANTS Jobs,       \* job threads that can be alive at once
          Listener,   \* the thread that watches the bound board
          Admin,      \* the request handler of a recovery
          Nobody,     \* owner of a free lock
          Versions,   \* firmware bundles that can be built
          MaxRev,     \* authorizations ever given
          MaxCrashes  \* deaths and restarts of the process

ASSUME UsbConstants ==
    /\ Nobody \notin Versions /\ Listener \notin Jobs /\ Admin \notin Jobs \cup {Listener} /\ Nobody \notin Jobs \cup {Listener, Admin}
    /\ {MaxRev, MaxCrashes} \subseteq Nat /\ Versions # {}

VARIABLES phase,     \* the shutdown, from "up" to "cleaned"
          complete,  \* shutdown has joined every worker
          callback,  \* on_drained: not given, kept for the last worker, or called
          lease,     \* this process holds the mode lease
          listening, \* the listener's thread is registered
          job,       \* what each registered job thread does
          build,     \* owner of build_lock
          usb,       \* owner of AutoUsbService.lock
          tick,      \* the listener is creating a job
          admin,     \* progress of a recovery request
          binding,   \* the saved binding
          receipt,   \* the saved receipts
          recovery,  \* the last recovery
          creds,     \* the Wi-Fi credentials are in memory
          seen,      \* this connection of the board has had its attempt
          bundle,    \* the version the build directory holds, or Nobody
          engine,    \* a camera of the process is running
          bound,     \* the versions the administrator has ever bound
          grants,    \* the overwrites he has granted, by version
          attempts,  \* how often the tool was started to write, by version
          crashes

process == <<phase, complete, callback, lease>>
locks == <<build, usb>>
requests == <<tick, admin>>
stored == <<binding, receipt, recovery>>
memory == <<creds, seen>>
ghosts == <<bound, grants, attempts, crashes>>
vars == <<process, listening, job, locks, requests, stored, memory, bundle, engine, ghosts>>

Kinds == {"none", "bind", "auto", "recover", "manual"}
NoBinding == [rev |-> 0, on |-> FALSE, ver |-> CHOOSE v \in Versions : TRUE]
Bindings == [rev : 0 .. MaxRev, on : BOOLEAN, ver : Versions]
Unused == [kind |-> "none", pc |-> "idle", for |-> NoBinding, linkonly |-> FALSE]
JobStates == [kind : Kinds, pc : {"idle", "start", "claimed", "tool", "link", "failing", "won", "lost", "closing"},
              for : Bindings, linkonly : BOOLEAN]
Receipts == [status : {"none", "reserved", "interrupted", "failed", "flashed", "linked"}, flashed : BOOLEAN]
NoReceipt == [status |-> "none", flashed |-> FALSE]
Recoveries == [status : {"none", "reserved", "running", "interrupted", "failed", "succeeded"},
               overwrite : BOOLEAN, job : Jobs \cup {Nobody}]
NoRecovery == [status |-> "none", overwrite |-> FALSE, job |-> Nobody]

Init ==
    /\ phase = "up" /\ complete = FALSE /\ callback = "none" /\ lease = TRUE
    /\ listening = FALSE /\ job = [j \in Jobs |-> Unused]
    /\ build = Nobody /\ usb = Nobody /\ tick = FALSE /\ admin = "idle"
    /\ binding = NoBinding /\ receipt = [v \in Versions |-> NoReceipt] /\ recovery = NoRecovery
    /\ creds = FALSE /\ seen = FALSE /\ bundle = Nobody /\ engine = FALSE
    /\ bound = {} /\ crashes = 0
    /\ grants = [v \in Versions |-> 0] /\ attempts = [v \in Versions |-> 0]

----------------------------------------------------------------------------
(* The registry of workers.                                                *)

Stopping == phase # "up"            \* auto_usb.stop is set
Accepting == phase \in {"up", "asked"}
Active == \E j \in Jobs : job[j] # Unused
Workers == (IF listening THEN {Listener} ELSE {}) \cup {j \in Jobs : job[j] # Unused}

Put(j, r) == job' = [job EXCEPT ![j] = r]
At(j, pc) == job[j].pc = pc
Goto(j, pc) == Put(j, [job[j] EXCEPT !.pc = pc])
Is(j, kind, pc) == job[j].kind = kind /\ job[j].pc = pc

\* _create_job: the row and the thread appear together or not at all.
CreateJob(kind, for, linkonly) ==
    /\ Accepting /\ \E j \in Jobs : job[j] = Unused
    /\ Put(CHOOSE j \in Jobs : job[j] = Unused, [kind |-> kind, pc |-> "start", for |-> for, linkonly |-> linkonly])

MutantFinished(w) == UNCHANGED callback

\* _worker_finished: the last worker of a closing service calls what shutdown
\* has left behind.
Finished(w) == callback' = IF ~Accepting /\ Workers = {w} /\ callback = "kept" THEN "called" ELSE callback

JobEnds(j) ==
    /\ At(j, "closing") /\ Put(j, Unused) /\ Finished(j)
    /\ UNCHANGED <<phase, complete, lease, listening, locks, requests, stored, memory, bundle, engine, ghosts>>

----------------------------------------------------------------------------
(* Binding.                                                                *)

RequestBind ==
    /\ phase = "up" /\ usb = Nobody /\ ~Active /\ binding.rev < MaxRev
    /\ CreateJob("bind", NoBinding, FALSE)
    /\ UNCHANGED <<process, listening, locks, requests, stored, memory, bundle, engine, ghosts>>

\* The worker takes both locks, compiles what is missing, checks that the
\* service is not closing, and reads the chip; any of it may fail.
BindIdentify(j) ==
    /\ Is(j, "bind", "start") /\ build = Nobody /\ usb = Nobody
    /\ bundle' \in (IF bundle = Nobody THEN Versions ELSE {bundle})
    /\ \/ ~Stopping /\ build' = j /\ usb' = j /\ Goto(j, "tool")
       \/ UNCHANGED locks /\ Goto(j, "closing")
    /\ UNCHANGED <<process, listening, requests, stored, memory, engine, ghosts>>

BindSave(j) ==
    /\ Is(j, "bind", "tool")
    /\ IF Stopping
       THEN build' = Nobody /\ usb' = Nobody /\ Goto(j, "closing") /\ UNCHANGED <<binding, bound, memory>>
       ELSE /\ binding' = [rev |-> binding.rev + 1, on |-> TRUE, ver |-> bundle] /\ bound' = bound \cup {bundle}
            /\ creds' = TRUE /\ seen' = FALSE
            /\ Goto(j, "link") /\ UNCHANGED locks
    /\ UNCHANGED <<process, listening, requests, receipt, recovery, bundle, engine, grants, attempts, crashes>>

\* The listener is started, unless the service closes meanwhile.
BindListens(j) ==
    /\ Is(j, "bind", "link") /\ build' = Nobody /\ usb' = Nobody /\ Goto(j, "closing")
    /\ listening' = (listening \/ Accepting)
    /\ UNCHANGED <<process, requests, stored, memory, bundle, engine, ghosts>>

Disable ==
    /\ phase = "up" /\ usb = Nobody /\ binding.on
    /\ binding' = [binding EXCEPT !.on = FALSE] /\ creds' = FALSE
    /\ UNCHANGED <<process, listening, job, locks, requests, receipt, recovery, seen, bundle, engine, ghosts>>

----------------------------------------------------------------------------
(* The listener.                                                           *)

Watching == listening /\ usb = Nobody /\ ~Stopping /\ binding.on

\* It finds the board gone: the next connection is a new one.
TickGone ==
    /\ Watching /\ seen /\ seen' = FALSE
    /\ UNCHANGED <<process, listening, job, locks, requests, stored, creds, bundle, engine, ghosts>>

\* The board is seen for the first time since it was connected, no job is
\* active and the bundle is the bound one.  A failed or interrupted receipt,
\* or a missing one without credentials, only sets the notice.
Noticed == Watching /\ ~seen /\ ~Active /\ bundle = binding.ver
Mine == receipt[binding.ver]
Installs == Mine.status \in {"flashed", "linked"} \/ (Mine.status = "none" /\ creds)

TickDeclines ==
    /\ Noticed /\ ~Installs /\ seen' = TRUE
    /\ UNCHANGED <<process, listening, job, locks, requests, stored, creds, bundle, engine, ghosts>>

\* The receipt is committed before the job exists.
Reserves(r) == IF r.status = "none" THEN [r EXCEPT !.status = "reserved"] ELSE r

TickReserves ==
    /\ Noticed /\ Installs /\ seen' = TRUE /\ usb' = Listener /\ tick' = TRUE
    /\ receipt' = [receipt EXCEPT ![binding.ver] = Reserves(@)]
    /\ UNCHANGED <<process, listening, job, build, admin, binding, recovery, creds, bundle, engine, ghosts>>

TickCreates ==
    /\ tick /\ tick' = FALSE /\ usb' = Nobody
    /\ CreateJob("auto", binding, Mine.status # "reserved") \/ (~Accepting /\ UNCHANGED job)
    /\ UNCHANGED <<process, listening, build, admin, stored, memory, bundle, engine, ghosts>>

ListenerEnds ==
    /\ listening /\ Stopping /\ ~tick /\ listening' = FALSE /\ Finished(Listener)
    /\ UNCHANGED <<phase, complete, lease, job, locks, requests, stored, memory, bundle, engine, ghosts>>

----------------------------------------------------------------------------
(* The install worker, of the listener's job and of a recovery's.          *)

Installer(j) == job[j].kind \in {"auto", "recover"}
Ver(j) == job[j].for.ver
Receipt(j) == receipt[Ver(j)]

\* Re-read under build_lock: the binding must be the one the job was made for.
StillBound(j) == ~Stopping /\ binding = job[j].for /\ binding.on /\ bundle = Ver(j)
OnlyLinks(j) == Receipt(j).flashed /\ Receipt(j).status \in {"flashed", "linked"}
MayFlash(j) == Receipt(j).status = "reserved" /\ ~job[j].linkonly
OnlyLinking(j, pc) == [kind |-> job[j].kind, pc |-> pc, for |-> job[j].for, linkonly |-> TRUE]

Claim(j) ==
    /\ Is(j, "auto", "start") \/ Is(j, "recover", "claimed")
    /\ build = Nobody
    /\ \/ /\ StillBound(j) /\ OnlyLinks(j) /\ build' = j
          /\ Put(j, OnlyLinking(j, "tool")) /\ UNCHANGED attempts
       \/ /\ StillBound(j) /\ ~OnlyLinks(j) /\ MayFlash(j) /\ build' = j
          /\ Goto(j, "tool") /\ attempts' = [attempts EXCEPT ![Ver(j)] = @ + 1]
       \/ /\ ~(StillBound(j) /\ (OnlyLinks(j) \/ MayFlash(j)))
          /\ Goto(j, "failing") /\ UNCHANGED <<build, attempts>>
    /\ UNCHANGED <<process, listening, usb, requests, stored, memory, bundle, engine, bound, grants, crashes>>

\* The tool identifies or writes the board, or fails; the exception leaves
\* build_lock before the receipt is marked.
Written(j, r) == IF job[j].linkonly THEN r ELSE [status |-> "flashed", flashed |-> TRUE]

ToolDone(j) ==
    /\ Installer(j) /\ At(j, "tool")
    /\ \/ Goto(j, "link") /\ receipt' = [receipt EXCEPT ![Ver(j)] = Written(j, @)] /\ UNCHANGED build
       \/ Goto(j, "failing") /\ build' = Nobody /\ UNCHANGED receipt
    /\ UNCHANGED <<process, listening, usb, requests, binding, recovery, memory, bundle, engine, ghosts>>

\* Provisioning with credentials, or READY of a board that has its settings,
\* binds the camera.
Link(j) ==
    /\ Installer(j) /\ At(j, "link") /\ build' = Nobody
    /\ \/ /\ engine' = TRUE /\ creds' = FALSE
          /\ receipt' = [receipt EXCEPT ![Ver(j)] = [@ EXCEPT !.status = "linked"]]
          /\ Goto(j, IF job[j].kind = "auto" THEN "closing" ELSE "won")
       \/ /\ engine' \in {engine, TRUE} /\ Goto(j, "failing") /\ UNCHANGED <<receipt, creds>>
    /\ UNCHANGED <<process, listening, usb, requests, binding, recovery, seen, bundle, ghosts>>

MutantFailed(r) == [r EXCEPT !.status = "error"]
MutantForgets(r) == [status |-> "failed", flashed |-> FALSE]

Failed(r) ==
    IF r.status = "none" THEN r ELSE [r EXCEPT !.status = IF r.flashed THEN "flashed" ELSE "failed"]

InstallFails(j) ==
    /\ At(j, "failing") /\ receipt' = [receipt EXCEPT ![Ver(j)] = Failed(@)]
    /\ Goto(j, IF job[j].kind = "auto" THEN "closing" ELSE "lost")
    /\ UNCHANGED <<process, listening, locks, requests, binding, recovery, memory, bundle, engine, ghosts>>

----------------------------------------------------------------------------
(* Recovery.                                                               *)

\* What the administrator is offered for the bound version.
Offered(overwrite) ==
    /\ ~Active /\ recovery.status \notin {"reserved", "running"}
    /\ IF overwrite THEN ~Mine.flashed /\ Mine.status \in {"failed", "interrupted", "reserved"} ELSE Mine.flashed

Granted(r, overwrite) ==
    [r EXCEPT !.status = IF overwrite THEN "reserved" ELSE IF @ \in {"flashed", "linked"} THEN @ ELSE "flashed"]

\* One transaction; it consumes the binding revision the administrator saw.
RecoverReserves(overwrite) ==
    /\ phase = "up" /\ build = Nobody /\ usb = Nobody
    /\ binding.on /\ bundle = binding.ver /\ binding.rev < MaxRev /\ Offered(overwrite)
    /\ build' = Admin /\ usb' = Admin /\ admin' = "create"
    /\ recovery' = [status |-> "reserved", overwrite |-> overwrite, job |-> Nobody]
    /\ receipt' = [receipt EXCEPT ![binding.ver] = Granted(@, overwrite)]
    /\ binding' = [binding EXCEPT !.rev = @ + 1]
    /\ grants' = [grants EXCEPT ![binding.ver] = IF overwrite THEN @ + 1 ELSE @]
    /\ seen' = TRUE /\ creds' = FALSE
    /\ UNCHANGED <<process, listening, job, tick, bundle, engine, bound, attempts, crashes>>

RecoverCreates ==
    /\ admin = "create" /\ admin' = "label" /\ CreateJob("recover", binding, ~recovery.overwrite)
    /\ UNCHANGED <<process, listening, locks, tick, stored, memory, bundle, engine, ghosts>>

Released == build' = Nobody /\ usb' = Nobody /\ admin' = "idle"

\* The job is entered as the owner of the attempt before it can begin it.
RecoverLabels ==
    /\ admin = "label" /\ Released
    /\ recovery' = [recovery EXCEPT !.job = CHOOSE j \in Jobs : job[j].kind = "recover" /\ job[j].for = binding]
    /\ UNCHANGED <<process, listening, job, tick, binding, receipt, memory, bundle, engine, ghosts>>

MutantRetries(r) == IF r.status = "reserved" THEN NoReceipt ELSE r
MutantKeeps(r) == r

\* An attempt that nobody will finish is given up, and nothing tries it again.
Interrupted(r) == IF r.status = "reserved" THEN [r EXCEPT !.status = "interrupted"] ELSE r

\* The thread or the write fails.
RecoverUndoes ==
    /\ admin # "idle" /\ Released
    /\ recovery' = [recovery EXCEPT !.status = "interrupted"]
    /\ receipt' = [receipt EXCEPT ![binding.ver] = IF recovery.overwrite THEN Interrupted(@) ELSE @]
    /\ UNCHANGED <<process, listening, job, tick, binding, memory, bundle, engine, bound, grants, attempts, crashes>>

\* _recovery_worker: the attempt must be this job's and unused.
RecoveryRuns(j) ==
    /\ Is(j, "recover", "start") /\ build = Nobody
    /\ IF recovery.status = "reserved" /\ recovery.job = j
       THEN recovery' = [recovery EXCEPT !.status = "running"] /\ Goto(j, "claimed")
       ELSE UNCHANGED recovery /\ Goto(j, "closing")
    /\ UNCHANGED <<process, listening, locks, requests, binding, receipt, memory, bundle, engine, ghosts>>

RecoverySettles(j) ==
    /\ job[j].pc \in {"won", "lost"} /\ Goto(j, "closing")
    /\ recovery' = [recovery EXCEPT !.status = IF At(j, "won") THEN "succeeded" ELSE "failed"]
    /\ UNCHANGED <<process, listening, locks, requests, binding, receipt, memory, bundle, engine, ghosts>>

----------------------------------------------------------------------------
(* A job an administrator starts by hand: it compiles, and may write and    *)
(* connect a camera.                                                       *)

RequestManual ==
    /\ phase = "up" /\ CreateJob("manual", NoBinding, FALSE)
    /\ UNCHANGED <<process, listening, locks, requests, stored, memory, bundle, engine, ghosts>>

ManualBuilds(j) ==
    /\ Is(j, "manual", "start") /\ build = Nobody /\ build' = j /\ Goto(j, "tool")
    /\ UNCHANGED <<process, listening, usb, requests, stored, memory, bundle, engine, ghosts>>

ManualBuilt(j) ==
    /\ Is(j, "manual", "tool") /\ build' = Nobody /\ Goto(j, "closing")
    /\ bundle' \in Versions \cup {Nobody} /\ engine' \in {engine, TRUE}
    /\ UNCHANGED <<process, listening, usb, requests, stored, memory, ghosts>>

----------------------------------------------------------------------------
(* The end of the process: ordered by lifespan, or a death.                *)

\* The server answers what it has accepted before it shuts down.
AskClose ==
    /\ phase = "up" /\ admin = "idle" /\ phase' = "asked" /\ creds' = FALSE
    /\ UNCHANGED <<complete, callback, lease, listening, job, locks, requests, stored, seen, bundle, engine, ghosts>>

Latch ==
    /\ phase = "asked" /\ phase' = "closing"
    /\ UNCHANGED <<complete, callback, lease, listening, job, locks, requests, stored, memory, bundle, engine, ghosts>>

\* The joins are bounded; what is still at work keeps on_drained.
Joined ==
    /\ phase = "closing" /\ phase' = "halting"
    /\ complete' = (Workers = {}) /\ callback' = IF Workers = {} THEN "none" ELSE "kept"
    /\ UNCHANGED <<lease, listening, job, locks, requests, stored, memory, bundle, engine, ghosts>>

MutantCamerasStop ==
    /\ phase = "halting" /\ phase' = "cleaned" /\ engine' = FALSE /\ lease' = FALSE
    /\ UNCHANGED <<complete, callback, listening, job, locks, requests, stored, memory, bundle, ghosts>>

CamerasStop ==
    /\ phase = "halting" /\ phase' = "cleaned" /\ engine' = FALSE
    /\ lease' = (lease /\ ~complete)
    /\ UNCHANGED <<complete, callback, listening, job, locks, requests, stored, memory, bundle, ghosts>>

\* release_after_firmware_drain waits for the cleanup of lifespan.
Drained ==
    /\ callback = "called" /\ phase = "cleaned" /\ callback' = "none"
    /\ engine' = FALSE /\ lease' = FALSE
    /\ UNCHANGED <<phase, complete, listening, job, locks, requests, stored, memory, bundle, ghosts>>

\* A new process takes the lease of a dead or a finished one; every receipt
\* and recovery under way is interrupted.
Restart(dies) ==
    /\ dies \/ ~lease
    /\ crashes < MaxCrashes /\ crashes' = crashes + 1
    /\ phase' = "up" /\ complete' = FALSE /\ callback' = "none" /\ lease' = TRUE
    /\ listening' = binding.on /\ job' = [j \in Jobs |-> Unused]
    /\ build' = Nobody /\ usb' = Nobody /\ tick' = FALSE /\ admin' = "idle"
    /\ receipt' = [v \in Versions |-> Interrupted(receipt[v])]
    /\ recovery' = [recovery EXCEPT !.status = IF @ \in {"reserved", "running"} THEN "interrupted" ELSE @]
    /\ creds' = FALSE /\ seen' = FALSE /\ engine' = FALSE
    /\ UNCHANGED <<binding, bundle, bound, grants, attempts>>

----------------------------------------------------------------------------
Work(j) ==
    \/ JobEnds(j) \/ BindIdentify(j) \/ BindSave(j) \/ BindListens(j)
    \/ Claim(j) \/ ToolDone(j) \/ Link(j) \/ InstallFails(j)
    \/ RecoveryRuns(j) \/ RecoverySettles(j)
    \/ ManualBuilds(j) \/ ManualBuilt(j)
Recovering == RecoverCreates \/ RecoverLabels \/ RecoverUndoes
Shutdown == Latch \/ Joined \/ CamerasStop \/ Drained
Run == (\E j \in Jobs : Work(j)) \/ TickCreates \/ ListenerEnds \/ Recovering \/ Shutdown

Next ==
    \/ Run \/ RequestBind \/ Disable \/ RequestManual
    \/ TickGone \/ TickDeclines \/ TickReserves
    \/ (\E o \in BOOLEAN : RecoverReserves(o))
    \/ AskClose \/ (\E d \in BOOLEAN : Restart(d))

\* The threads and lifespan go on, and every call of the tool returns.  None
\* of these steps repeats without one of the administrator's or the board's,
\* so that fairness of their disjunction is enough.
Spec == Init /\ [][Next]_vars /\ WF_vars(Run)

----------------------------------------------------------------------------
TypeOK ==
    /\ phase \in {"up", "asked", "closing", "halting", "cleaned"}
    /\ complete \in BOOLEAN /\ callback \in {"none", "kept", "called"} /\ lease \in BOOLEAN
    /\ listening \in BOOLEAN /\ job \in [Jobs -> JobStates]
    /\ build \in Jobs \cup {Admin, Nobody} /\ usb \in Jobs \cup {Listener, Admin, Nobody}
    /\ tick \in BOOLEAN /\ admin \in {"idle", "create", "label"}
    /\ binding \in Bindings /\ receipt \in [Versions -> Receipts] /\ recovery \in Recoveries
    /\ creds \in BOOLEAN /\ seen \in BOOLEAN /\ bundle \in Versions \cup {Nobody} /\ engine \in BOOLEAN
    /\ bound \subseteq Versions /\ grants \in [Versions -> Nat] /\ attempts \in [Versions -> Nat]
    /\ crashes \in 0 .. MaxCrashes

\* The tool is started to write a version once for having bound the board to
\* it, and once for each overwrite granted (max_flash_attempts_per_authorization
\* in status), whatever fails, crashes, is bound again or is plugged again.
FlashAuthorized == \A v \in Versions : attempts[v] <= (IF v \in bound THEN 1 ELSE 0) + grants[v]

\* Once the board is known to hold a version, that is never forgotten and the
\* version is never written again ("Durable evidence, not that stale boolean,
\* decides", _install_worker).
NeverReflashed ==
    [][\A v \in Versions : receipt[v].flashed => receipt'[v].flashed /\ attempts'[v] = attempts[v]]_vars

\* A receipt or a recovery that waits for its outcome has somebody who will
\* give it: the administrator is never told "busy" for ever (_recovery_status).
NothingStranded ==
    phase = "up" =>
        /\ \A v \in Versions : receipt[v].status = "reserved" =>
              tick \/ admin # "idle" \/ \E j \in Jobs : Installer(j) /\ Ver(j) = v
        /\ recovery.status \in {"reserved", "running"} =>
              admin # "idle" \/ \E j \in Jobs : recovery.job = j /\ job[j].kind = "recover"

\* Nobody writes the data of a mode whose lease the process has given up
\* ("Keep the mode lease until its final database write is complete", lifespan).
LeaseCovers == ~lease => Workers = {} /\ ~engine

\* A process that is told to end gives the lease up in the end, even when a job
\* outlives the joins of shutdown (release_after_firmware_drain).
LeaseReleased == []<>(phase = "up" \/ ~lease)

\* The tool is never started without the right to.
WritesAuthorized == []FlashAuthorized /\ NeverReflashed

\* What is recorded as under way is.
RecordsTrue == TypeOK /\ NothingStranded
=============================================================================
