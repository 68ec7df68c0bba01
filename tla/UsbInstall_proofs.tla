------------------------- MODULE UsbInstall_proofs -------------------------
(***************************************************************************)
(* Proofs about UsbInstall, for any number of job threads, versions,       *)
(* authorizations and restarts: the workers, the locks and the saved       *)
(* records fit together (IInv), and therefore the tool is never started to *)
(* write without the right to, a version the board is known to hold is     *)
(* never forgotten nor written again, nothing that is recorded as under    *)
(* way is stranded, and nobody works without the mode lease.               *)
(*                                                                         *)
(* Layout: the invariant; facts about the registry of workers; one lemma   *)
(* per group of actions, with one step per action and conjunct that it can *)
(* disturb; the theorems.                                                  *)
(***************************************************************************)
EXTENDS UsbInstall, TLAPS

-----------------------------------------------------------------------------
(* The inductive invariant.                                                *)

\* What a job thread can be doing, by its kind.
Shapes ==
    \A j \in Jobs :
        /\ (job[j].kind = "none" \/ job[j].pc = "idle") => job[j] = Unused
        /\ job[j].pc \in {"claimed", "won", "lost"} => job[j].kind = "recover"
        /\ job[j].pc = "failing" => Installer(j)

\* Who is inside a section that a lock protects owns the lock.
Locks ==
    /\ tick => usb = Listener
    /\ admin # "idle" => usb = Admin /\ build = Admin /\ phase = "up" /\ recovery.status = "reserved"
    /\ \A j \in Jobs : job[j].pc \in {"tool", "link"} =>
           build = j /\ (job[j].kind = "bind" => usb = j)

\* The jobs about the binding come one at a time, and a step that creates one
\* is under way only while there is none.
Sole(j) == job[j].kind \in {"bind", "auto", "recover"}
Alone ==
    /\ \A i, j \in Jobs : Sole(i) /\ Sole(j) => i = j
    /\ tick \/ admin = "create" => \A j \in Jobs : ~Sole(j)
    /\ admin = "label" =>
           \E j \in Jobs : job[j] = [kind |-> "recover", pc |-> "start", for |-> binding,
                                     linkonly |-> ~recovery.overwrite]
    /\ admin # "idle" /\ ~recovery.overwrite => Mine.status # "reserved"

\* A job that binds still has a number to give, and a bundle when it saves.
Bindable ==
    /\ \A j \in Jobs : job[j].kind = "bind" /\ job[j].pc \in {"start", "tool"} => binding.rev < MaxRev
    /\ \A j \in Jobs : Is(j, "bind", "tool") => bundle \in Versions
    /\ binding.on => binding.ver \in bound

\* A receipt remembers that its version was written.
Evidence ==
    \A v \in Versions :
        /\ receipt[v].flashed => receipt[v].status \in {"flashed", "linked"}
        /\ receipt[v].status = "none" => ~receipt[v].flashed /\ attempts[v] = 0

\* A right to write v that is not yet used, but will be.
Pending(v) ==
    /\ receipt[v].status = "reserved"
    /\ \/ \E j \in Jobs : /\ Installer(j) /\ Ver(j) = v /\ ~job[j].linkonly
                          /\ job[j].pc \in {"start", "claimed"}
       \/ tick /\ binding.ver = v
       \/ admin = "create" /\ recovery.overwrite /\ binding.ver = v
Rights(v) == (IF v \in bound THEN 1 ELSE 0) + grants[v]
Budget == \A v \in Versions : attempts[v] + (IF Pending(v) THEN 1 ELSE 0) <= Rights(v)

\* The shutdown gives up only what is at rest.
Leased ==
    /\ callback = "called" => ~Accepting /\ Workers = {}
    /\ complete => phase \in {"halting", "cleaned"} /\ Workers = {}
    /\ ~lease => phase = "cleaned" /\ Workers = {} /\ ~engine

\* Job j will settle the receipt of its version.
Gives(j) ==
    /\ Installer(j) /\ job[j].pc \in {"start", "claimed", "tool", "link", "failing"}
    /\ Is(j, "recover", "start") => admin = "label" \/ (recovery.status = "reserved" /\ recovery.job = j)
Answered ==
    /\ phase = "up" => \A v \in Versions : receipt[v].status = "reserved" =>
           \/ (tick \/ admin = "create") /\ binding.ver = v
           \/ \E j \in Jobs : Gives(j) /\ Ver(j) = v
    /\ recovery.status = "running" =>
           /\ recovery.job \in Jobs /\ job[recovery.job].kind = "recover"
           /\ job[recovery.job].pc \in {"claimed", "tool", "link", "failing", "won", "lost"}
    /\ recovery.status = "reserved" =>
           admin # "idle" \/ (recovery.job \in Jobs /\ Is(recovery.job, "recover", "start"))

IInv == /\ TypeOK /\ Shapes /\ Locks /\ Alone /\ Bindable /\ Evidence /\ Budget
        /\ Leased /\ Answered
USE DEF process, locks, requests, stored, memory, ghosts, At, Is, Stopping, Accepting, Mine, Ver,
        Installer, Sole

-----------------------------------------------------------------------------
(* The registry of workers.                                                *)

Pcs == {"idle", "start", "claimed", "tool", "link", "failing", "won", "lost", "closing"}

\* What is known of a job by its type.
LEMMA JobTypes ==
    ASSUME TypeOK
    PROVE  \A j \in Jobs : /\ job[j].kind \in Kinds /\ job[j].pc \in Pcs
                           /\ job[j].for \in Bindings /\ job[j].linkonly \in BOOLEAN
BY DEF TypeOK, JobStates, Pcs

\* A job goes on: nothing of it but its place changes, except that it may find
\* that it only has to link.
Onwards(j, pc) ==
    /\ job' \in [Jobs -> JobStates]
    /\ job'[j].kind = job[j].kind /\ job'[j].pc = pc
    /\ job'[j].for = job[j].for /\ job'[j].linkonly \in {job[j].linkonly, TRUE}
    /\ \A i \in Jobs : i # j => job'[i] = job[i]
LEMMA GoesOn ==
    ASSUME TypeOK, NEW j \in Jobs, NEW pc \in Pcs,
           Goto(j, pc) \/ Put(j, OnlyLinking(j, pc))
    PROVE  Onwards(j, pc)
<1>1. CASE Goto(j, pc)
  BY <1>1 DEF Onwards, Goto, Put, TypeOK, JobStates, Pcs
<1>2. CASE Put(j, OnlyLinking(j, pc))
  BY <1>2, JobTypes DEF Onwards, Put, OnlyLinking, TypeOK, JobStates, Pcs
<1> QED BY <1>1, <1>2

\* _create_job enters a job in a place that was free.
Entered(j, kind, for, linkonly) ==
    /\ job[j] = Unused /\ job' \in [Jobs -> JobStates]
    /\ job'[j] = [kind |-> kind, pc |-> "start", for |-> for, linkonly |-> linkonly]
    /\ \A i \in Jobs : i # j => job'[i] = job[i]
LEMMA Created ==
    ASSUME TypeOK, NEW kind \in Kinds, NEW for \in Bindings, NEW linkonly \in BOOLEAN,
           CreateJob(kind, for, linkonly)
    PROVE  Accepting /\ \E j \in Jobs : Entered(j, kind, for, linkonly)
BY DEF CreateJob, Entered, Put, TypeOK, JobStates, Pcs

\* There is no worker iff the listener is off and no job is registered.
LEMMA NoWorkers == Workers = {} <=> ~listening /\ \A j \in Jobs : job[j] = Unused
BY DEF Workers

\* The binding of a service that was never given one.
LEMMA NoBindingIs == NoBinding \in Bindings
BY UsbConstants DEF NoBinding, Bindings

-----------------------------------------------------------------------------
(* What a step of one job, or of another thread, leaves alone.             *)

\* The types, in groups that a step seldom touches together.
ProcessTypes ==
    /\ phase \in {"up", "asked", "closing", "halting", "cleaned"}
    /\ complete \in BOOLEAN /\ callback \in {"none", "kept", "called"} /\ lease \in BOOLEAN
ThreadTypes ==
    /\ listening \in BOOLEAN /\ job \in [Jobs -> JobStates]
    /\ build \in Jobs \cup {Admin, Nobody} /\ usb \in Jobs \cup {Listener, Admin, Nobody}
    /\ tick \in BOOLEAN /\ admin \in {"idle", "create", "label"}
RecordTypes ==
    /\ binding \in Bindings /\ receipt \in [Versions -> Receipts] /\ recovery \in Recoveries
MemoryTypes ==
    /\ creds \in BOOLEAN /\ seen \in BOOLEAN /\ bundle \in Versions \cup {Nobody} /\ engine \in BOOLEAN
GhostTypes ==
    /\ bound \subseteq Versions /\ grants \in [Versions -> Nat] /\ attempts \in [Versions -> Nat]
    /\ crashes \in 0 .. MaxCrashes
LEMMA TypeParts ==
    TypeOK <=> ProcessTypes /\ ThreadTypes /\ RecordTypes /\ MemoryTypes /\ GhostTypes
BY DEF TypeOK, ProcessTypes, ThreadTypes, RecordTypes, MemoryTypes, GhostTypes

\* While a job is registered nothing has been given up.
LEMMA LeasedOn ==
    ASSUME IInv, NEW j \in Jobs, job[j] # Unused, UNCHANGED <<complete, callback, lease>>
    PROVE  Leased'
<1>1. callback # "called" /\ ~complete /\ lease
  BY NoWorkers DEF IInv, TypeOK, Leased
<1> QED BY <1>1 DEF Leased

\* Jobs are as alone as before.
LEMMA AloneOn ==
    ASSUME IInv, NEW j \in Jobs, \A i \in Jobs : i # j => job'[i] = job[i],
           Sole(j)' => Sole(j), UNCHANGED <<tick, admin>>,
           admin # "idle" => /\ UNCHANGED <<binding, recovery>> /\ ~Is(j, "recover", "start")
                             /\ Mine.status' = "reserved" => Mine.status = "reserved"
    PROVE  Alone'
BY DEF IInv, Alone

\* Rights to write are used by Claim alone.
LEMMA BudgetOn ==
    ASSUME IInv, TypeOK', \A v \in Versions : Pending(v)' => Pending(v),
           bound \subseteq bound', UNCHANGED <<grants, attempts>>
    PROVE  Budget'
<1> SUFFICES ASSUME NEW v \in Versions
             PROVE  (attempts[v] + (IF Pending(v) THEN 1 ELSE 0) <= Rights(v))'
  BY DEF Budget
<1>1. attempts[v] \in Nat /\ grants[v] \in Nat
  BY DEF IInv, TypeOK
<1>2. attempts[v] + (IF Pending(v) THEN 1 ELSE 0) <= Rights(v)
  BY DEF IInv, Budget
<1> QED BY <1>1, <1>2 DEF Rights

\* A step of a job that still settles what it had to settle.
LEMMA AnsweredOn ==
    ASSUME IInv, NEW j \in Jobs, \A i \in Jobs : i # j => job'[i] = job[i],
           UNCHANGED <<phase, tick, admin, recovery>>, tick \/ admin # "idle" => UNCHANGED binding,
           \A v \in Versions : receipt'[v].status = "reserved" => receipt[v].status = "reserved",
           Gives(j) => (Gives(j)' /\ UNCHANGED Ver(j)) \/ receipt'[Ver(j)].status # "reserved",
           (recovery.status = "running" \/ (recovery.status = "reserved" /\ admin = "idle"))
             /\ recovery.job = j =>
                   /\ job'[j].kind = "recover"
                   /\ recovery.status = "running" =>
                          job'[j].pc \in {"claimed", "tool", "link", "failing", "won", "lost"}
                   /\ recovery.status = "reserved" => job'[j].pc = job[j].pc
    PROVE  Answered'
<1>1. (phase = "up" => \A v \in Versions : receipt[v].status = "reserved" =>
           \/ (tick \/ admin = "create") /\ binding.ver = v
           \/ \E i \in Jobs : Gives(i) /\ Ver(i) = v)'
  BY DEF IInv, Answered, Gives
<1>2. (recovery.status = "running" =>
           /\ recovery.job \in Jobs /\ job[recovery.job].kind = "recover"
           /\ job[recovery.job].pc \in {"claimed", "tool", "link", "failing", "won", "lost"})'
  BY DEF IInv, Answered
<1>3. (recovery.status = "reserved" =>
           admin # "idle" \/ (recovery.job \in Jobs /\ Is(recovery.job, "recover", "start")))'
  BY DEF IInv, Answered
<1> QED BY <1>1, <1>2, <1>3 DEF Answered

\* The types of all variables, put together again.
LEMMA Typed ==
    ASSUME ProcessTypes', ThreadTypes', RecordTypes', MemoryTypes', GhostTypes'
    PROVE  TypeOK'
BY DEF TypeOK, ProcessTypes, ThreadTypes, RecordTypes, MemoryTypes, GhostTypes

-----------------------------------------------------------------------------
(* The steps of the job threads.                                           *)

\* While a job about the binding is past its start, nobody is about to create one.
LEMMA Undisturbed ==
    ASSUME IInv, NEW j \in Jobs, Sole(j), ~Is(j, "recover", "start")
    PROVE  admin = "idle" /\ ~tick
BY DEF IInv, TypeOK, Alone

\* A job ends, and leaves the registry.
LEMMA JobEndsStep == ASSUME IInv, NEW j \in Jobs, JobEnds(j) PROVE IInv'
<1>0. /\ IInv /\ TypeOK
      /\ job[j].pc = "closing" /\ job[j] # Unused
      /\ job' = [job EXCEPT ![j] = Unused] /\ Finished(j)
      /\ UNCHANGED <<phase, complete, lease, listening, locks, requests, stored, memory, bundle, engine, ghosts>>
  BY DEF IInv, JobEnds, Put, Unused
<1>1. /\ job' \in [Jobs -> JobStates] /\ job'[j] = Unused
      /\ \A i \in Jobs : i # j => job'[i] = job[i]
  BY <1>0, NoBindingIs DEF TypeOK, JobStates, Unused, Kinds
<1>2. ThreadTypes'
  BY <1>0, <1>1 DEF TypeOK, ThreadTypes
<1>3. ProcessTypes'
  BY <1>0 DEF TypeOK, ProcessTypes, Finished
<1>4. RecordTypes' /\ MemoryTypes' /\ GhostTypes'
  BY <1>0 DEF TypeOK, RecordTypes, MemoryTypes, GhostTypes
<1>5. TypeOK'
  BY <1>2, <1>3, <1>4, Typed
<1>6. Shapes'
  BY <1>1 DEF IInv, Shapes, Unused
<1>7. Locks'
  BY <1>0, <1>1 DEF IInv, Locks, Unused
<1>8. Alone'
  BY <1>0, <1>1, AloneOn DEF Unused
<1>9. Bindable'
  BY <1>0, <1>1 DEF IInv, Bindable, Unused
<1>10. Evidence'
  BY <1>0 DEF IInv, Evidence
<1>11. Budget'
  BY <1>0, <1>1, <1>5, BudgetOn DEF Pending, Unused
<1>12. Leased'
  <2>1. callback # "called" /\ ~complete /\ lease
    BY <1>0, NoWorkers DEF IInv, TypeOK, Leased
  <2>2. callback' = "called" => ~Accepting /\ Workers = {j}
    BY <1>0, <2>1 DEF Finished
  <2>3. Workers = {j} => Workers' = {}
    BY <1>0, <1>1, UsbConstants DEF Workers
  <2> QED BY <1>0, <2>1, <2>2, <2>3 DEF Leased
<1>13. Answered'
  BY <1>0, <1>1, AnsweredOn DEF Gives, IInv, Answered
<1> QED BY <1>5, <1>6, <1>7, <1>8, <1>9, <1>10, <1>11, <1>12, <1>13 DEF IInv

\* A binding job takes both locks, or gives up.
LEMMA BindIdentifyStep == ASSUME IInv, NEW j \in Jobs, BindIdentify(j) PROVE IInv'
<1>0. /\ IInv /\ TypeOK
      /\ Is(j, "bind", "start") /\ build = Nobody /\ usb = Nobody
      /\ bundle' \in (IF bundle = Nobody THEN Versions ELSE {bundle})
      /\ UNCHANGED <<process, listening, requests, stored, memory, engine, ghosts>>
  BY DEF IInv, BindIdentify
<1>1. CASE ~Stopping /\ build' = j /\ usb' = j /\ Goto(j, "tool")
  <2>0. Onwards(j, "tool")
    BY <1>0, <1>1, GoesOn DEF Pcs
  <2>1. ThreadTypes'
    BY <1>0, <1>1, <2>0 DEF TypeOK, ThreadTypes, Onwards
  <2>2. MemoryTypes'
    BY <1>0, <1>1, <2>0 DEF TypeOK, MemoryTypes
  <2>3. ProcessTypes' /\ RecordTypes' /\ GhostTypes'
    BY <1>0, <1>1, <2>0 DEF TypeOK, ProcessTypes, RecordTypes, GhostTypes
  <2>4. TypeOK'
    BY <2>1, <2>2, <2>3, Typed
  <2>5. Shapes'
    BY <1>0, <1>1, <2>0, JobTypes DEF IInv, TypeOK, Shapes, Unused, Onwards, Kinds
  <2>6. Locks'
    BY <1>0, <1>1, <2>0, UsbConstants DEF IInv, TypeOK, Locks, Onwards
  <2>7. Alone'
    BY <1>0, <1>1, <2>0, UsbConstants, AloneOn DEF Onwards, Locks, IInv
  <2>8. Bindable'
    BY <1>0, <1>1, <2>0, UsbConstants DEF IInv, TypeOK, Bindable, Unused, Onwards
  <2>9. Evidence'
    BY <1>0, <1>1, <2>0 DEF IInv, TypeOK, Evidence
  <2>10. Budget'
    BY <1>0, <1>1, <2>0, <2>4, BudgetOn DEF Onwards, Pending
  <2>11. Leased'
    BY <1>0, LeasedOn DEF Unused
  <2>12. Answered'
    BY <1>0, <1>1, <2>0, UsbConstants, AnsweredOn DEF Onwards, Gives, IInv, Locks, Answered
  <2> QED BY <2>4, <2>5, <2>6, <2>7, <2>8, <2>9, <2>10, <2>11, <2>12 DEF IInv
<1>2. CASE UNCHANGED locks /\ Goto(j, "closing")
  <2>0. Onwards(j, "closing")
    BY <1>0, <1>2, GoesOn DEF Pcs
  <2>1. ThreadTypes'
    BY <1>0, <1>2, <2>0 DEF TypeOK, ThreadTypes, Onwards
  <2>2. MemoryTypes'
    BY <1>0, <1>2, <2>0 DEF TypeOK, MemoryTypes
  <2>3. ProcessTypes' /\ RecordTypes' /\ GhostTypes'
    BY <1>0, <1>2, <2>0 DEF TypeOK, ProcessTypes, RecordTypes, GhostTypes
  <2>4. TypeOK'
    BY <2>1, <2>2, <2>3, Typed
  <2>5. Shapes'
    BY <1>0, <1>2, <2>0, JobTypes DEF IInv, TypeOK, Shapes, Unused, Onwards, Kinds
  <2>6. Locks'
    BY <1>0, <1>2, <2>0, UsbConstants DEF IInv, TypeOK, Locks, Onwards
  <2>7. Alone'
    BY <1>0, <1>2, <2>0, UsbConstants, AloneOn DEF Onwards, Locks, IInv
  <2>8. Bindable'
    BY <1>0, <1>2, <2>0 DEF IInv, TypeOK, Bindable, Unused, Onwards
  <2>9. Evidence'
    BY <1>0, <1>2, <2>0 DEF IInv, TypeOK, Evidence
  <2>10. Budget'
    BY <1>0, <1>2, <2>0, <2>4, BudgetOn DEF Onwards, Pending
  <2>11. Leased'
    BY <1>0, LeasedOn DEF Unused
  <2>12. Answered'
    BY <1>0, <1>2, <2>0, UsbConstants, AnsweredOn DEF Onwards, Gives, IInv, Locks, Answered
  <2> QED BY <2>4, <2>5, <2>6, <2>7, <2>8, <2>9, <2>10, <2>11, <2>12 DEF IInv
<1> QED BY <1>0, <1>1, <1>2 DEF BindIdentify

\* It saves the binding, unless the service closes.
LEMMA BindSaveStep == ASSUME IInv, NEW j \in Jobs, BindSave(j) PROVE IInv'
<1>0. /\ IInv /\ TypeOK
      /\ Is(j, "bind", "tool")
      /\ UNCHANGED <<process, listening, requests, receipt, recovery, bundle, engine, grants, attempts, crashes>>
  BY DEF IInv, BindSave
<1>1. CASE /\ Stopping /\ build' = Nobody /\ usb' = Nobody /\ Goto(j, "closing")
           /\ UNCHANGED <<binding, bound, memory>>
  <2>0. Onwards(j, "closing")
    BY <1>0, <1>1, GoesOn DEF Pcs
  <2>1. ThreadTypes'
    BY <1>0, <1>1, <2>0 DEF TypeOK, ThreadTypes, Onwards
  <2>2. RecordTypes'
    BY <1>0, <1>1, <2>0 DEF TypeOK, RecordTypes
  <2>3. MemoryTypes'
    BY <1>0, <1>1, <2>0 DEF TypeOK, MemoryTypes
  <2>4. GhostTypes'
    BY <1>0, <1>1, <2>0 DEF TypeOK, GhostTypes
  <2>5. ProcessTypes'
    BY <1>0, <1>1, <2>0 DEF TypeOK, ProcessTypes
  <2>6. TypeOK'
    BY <2>1, <2>2, <2>3, <2>4, <2>5, Typed
  <2>7. Shapes'
    BY <1>0, <1>1, <2>0, JobTypes DEF IInv, TypeOK, Shapes, Unused, Onwards, Kinds
  <2>8. Locks'
    BY <1>0, <1>1, <2>0, UsbConstants DEF IInv, TypeOK, Locks, Onwards
  <2>9. Alone'
    BY <1>0, <1>1, <2>0, UsbConstants, AloneOn DEF Onwards, Locks, IInv
  <2>10. Bindable'
    BY <1>0, <1>1, <2>0 DEF IInv, TypeOK, Bindable, Unused, Onwards
  <2>11. Evidence'
    BY <1>0, <1>1, <2>0 DEF IInv, TypeOK, Evidence
  <2>12. Budget'
    BY <1>0, <1>1, <2>0, <2>6, BudgetOn DEF Onwards, Pending
  <2>13. Leased'
    BY <1>0, LeasedOn DEF Unused
  <2>14. Answered'
    BY <1>0, <1>1, <2>0, UsbConstants, AnsweredOn DEF Onwards, Gives, IInv, Locks, Answered
  <2> QED BY <2>6, <2>7, <2>8, <2>9, <2>10, <2>11, <2>12, <2>13, <2>14 DEF IInv
<1>2. CASE /\ ~Stopping /\ binding' = [rev |-> binding.rev + 1, on |-> TRUE, ver |-> bundle]
           /\ bound' = bound \cup {bundle} /\ creds' = TRUE /\ seen' = FALSE
           /\ Goto(j, "link") /\ UNCHANGED locks
  <2>0. Onwards(j, "link")
    BY <1>0, <1>2, GoesOn DEF Pcs
  <2>1. ThreadTypes'
    BY <1>0, <1>2, <2>0 DEF TypeOK, ThreadTypes, Onwards
  <2>2. RecordTypes'
    BY <1>0, <1>2, <2>0, UsbConstants DEF TypeOK, RecordTypes, IInv, Bindable, Bindings
  <2>3. MemoryTypes'
    BY <1>0, <1>2, <2>0 DEF TypeOK, MemoryTypes
  <2>4. GhostTypes'
    BY <1>0, <1>2, <2>0 DEF TypeOK, GhostTypes, IInv, Bindable
  <2>5. ProcessTypes'
    BY <1>0, <1>2, <2>0 DEF TypeOK, ProcessTypes
  <2>6. TypeOK'
    BY <2>1, <2>2, <2>3, <2>4, <2>5, Typed
  <2>7. Shapes'
    BY <1>0, <1>2, <2>0, JobTypes DEF IInv, TypeOK, Shapes, Unused, Onwards, Kinds
  <2>8. Locks'
    BY <1>0, <1>2, <2>0, UsbConstants DEF IInv, TypeOK, Locks, Onwards
  <2>9. Alone'
    BY <1>0, <1>2, <2>0, UsbConstants, AloneOn DEF Onwards, Locks, IInv
  <2>10. Bindable'
    BY <1>0, <1>2, <2>0 DEF IInv, TypeOK, Bindable, Unused, Onwards, Alone
  <2>11. Evidence'
    BY <1>0, <1>2, <2>0 DEF IInv, TypeOK, Evidence
  <2>12. Budget'
    BY <1>0, <1>2, <2>0, <2>6, UsbConstants, BudgetOn DEF Onwards, Pending, IInv, Locks
  <2>13. Leased'
    BY <1>0, LeasedOn DEF Unused
  <2>14. Answered'
    BY <1>0, <1>2, <2>0, UsbConstants, AnsweredOn DEF Onwards, Gives, IInv, Locks, Answered
  <2> QED BY <2>6, <2>7, <2>8, <2>9, <2>10, <2>11, <2>12, <2>13, <2>14 DEF IInv
<1> QED BY <1>0, <1>1, <1>2 DEF BindSave

\* It starts the listener and lets go of the locks.
LEMMA BindListensStep == ASSUME IInv, NEW j \in Jobs, BindListens(j) PROVE IInv'
<1>0. /\ IInv /\ TypeOK
      /\ Is(j, "bind", "link") /\ build' = Nobody /\ usb' = Nobody
      /\ listening' = (listening \/ Accepting)
      /\ UNCHANGED <<process, requests, stored, memory, bundle, engine, ghosts>>
  BY DEF IInv, BindListens
<1>1. CASE Goto(j, "closing")
  <2>0. Onwards(j, "closing")
    BY <1>0, <1>1, GoesOn DEF Pcs
  <2>1. ThreadTypes'
    BY <1>0, <1>1, <2>0 DEF TypeOK, ThreadTypes, Onwards
  <2>2. ProcessTypes' /\ RecordTypes' /\ MemoryTypes' /\ GhostTypes'
    BY <1>0, <1>1, <2>0 DEF TypeOK, ProcessTypes, RecordTypes, MemoryTypes, GhostTypes
  <2>3. TypeOK'
    BY <2>1, <2>2, Typed
  <2>4. Shapes'
    BY <1>0, <1>1, <2>0, JobTypes DEF IInv, TypeOK, Shapes, Unused, Onwards, Kinds
  <2>5. Locks'
    BY <1>0, <1>1, <2>0, UsbConstants DEF IInv, TypeOK, Locks, Onwards
  <2>6. Alone'
    BY <1>0, <1>1, <2>0, UsbConstants, AloneOn DEF Onwards, Locks, IInv
  <2>7. Bindable'
    BY <1>0, <1>1, <2>0 DEF IInv, TypeOK, Bindable, Unused, Onwards
  <2>8. Evidence'
    BY <1>0, <1>1, <2>0 DEF IInv, TypeOK, Evidence
  <2>9. Budget'
    BY <1>0, <1>1, <2>0, <2>3, BudgetOn DEF Onwards, Pending
  <2>10. Leased'
    BY <1>0, LeasedOn DEF Unused
  <2>11. Answered'
    BY <1>0, <1>1, <2>0, UsbConstants, AnsweredOn DEF Onwards, Gives, IInv, Locks, Answered
  <2> QED BY <2>3, <2>4, <2>5, <2>6, <2>7, <2>8, <2>9, <2>10, <2>11 DEF IInv
<1> QED BY <1>0, <1>1 DEF BindListens

\* An install job re-reads binding and receipt: it links, writes, or fails.
LEMMA ClaimStep == ASSUME IInv, NEW j \in Jobs, Claim(j) PROVE IInv'
<1>0. /\ IInv /\ TypeOK
      /\ Is(j, "auto", "start") \/ Is(j, "recover", "claimed")
      /\ build = Nobody
      /\ UNCHANGED <<process, listening, usb, requests, stored, memory, bundle, engine, bound, grants, crashes>>
  BY DEF IInv, Claim
<1>1. CASE /\ StillBound(j) /\ OnlyLinks(j) /\ build' = j
           /\ Put(j, OnlyLinking(j, "tool")) /\ UNCHANGED attempts
  <2>0. Onwards(j, "tool")
    BY <1>0, <1>1, GoesOn DEF Pcs
  <2>1. ThreadTypes'
    BY <1>0, <1>1, <2>0 DEF TypeOK, ThreadTypes, Onwards
  <2>2. GhostTypes'
    BY <1>0, <1>1, <2>0 DEF TypeOK, GhostTypes
  <2>3. ProcessTypes' /\ RecordTypes' /\ MemoryTypes'
    BY <1>0, <1>1, <2>0 DEF TypeOK, ProcessTypes, RecordTypes, MemoryTypes
  <2>4. TypeOK'
    BY <2>1, <2>2, <2>3, Typed
  <2>5. Shapes'
    BY <1>0, <1>1, <2>0, JobTypes DEF IInv, TypeOK, Shapes, Unused, Onwards, Kinds
  <2>6. Locks'
    BY <1>0, <1>1, <2>0, UsbConstants DEF IInv, TypeOK, Locks, Onwards
  <2>7. Alone'
    BY <1>0, <1>1, <2>0, UsbConstants, AloneOn DEF Onwards, Locks, IInv
  <2>8. Bindable'
    BY <1>0, <1>1, <2>0 DEF IInv, TypeOK, Bindable, Unused, Onwards
  <2>9. Evidence'
    BY <1>0, <1>1, <2>0 DEF IInv, TypeOK, Evidence
  <2>10. Budget'
    BY <1>0, <1>1, <2>0, <2>4, BudgetOn DEF Onwards, Pending
  <2>11. Leased'
    BY <1>0, LeasedOn DEF Unused
  <2>12. Answered'
    BY <1>0, <1>1, <2>0, UsbConstants, AnsweredOn DEF Onwards, Gives, IInv, Locks, Answered
  <2> QED BY <2>4, <2>5, <2>6, <2>7, <2>8, <2>9, <2>10, <2>11, <2>12 DEF IInv
<1>2. CASE /\ StillBound(j) /\ ~OnlyLinks(j) /\ MayFlash(j) /\ build' = j
           /\ Goto(j, "tool") /\ attempts' = [attempts EXCEPT ![Ver(j)] = @ + 1]
  <2>0. Onwards(j, "tool")
    BY <1>0, <1>2, GoesOn DEF Pcs
  <2>1. ThreadTypes'
    BY <1>0, <1>2, <2>0 DEF TypeOK, ThreadTypes, Onwards
  <2>2. GhostTypes'
    BY <1>0, <1>2, <2>0, JobTypes DEF TypeOK, GhostTypes, Bindings
  <2>3. ProcessTypes' /\ RecordTypes' /\ MemoryTypes'
    BY <1>0, <1>2, <2>0 DEF TypeOK, ProcessTypes, RecordTypes, MemoryTypes
  <2>4. TypeOK'
    BY <2>1, <2>2, <2>3, Typed
  <2>5. Shapes'
    BY <1>0, <1>2, <2>0, JobTypes DEF IInv, TypeOK, Shapes, Unused, Onwards, Kinds
  <2>6. Locks'
    BY <1>0, <1>2, <2>0, UsbConstants DEF IInv, TypeOK, Locks, Onwards
  <2>7. Alone'
    BY <1>0, <1>2, <2>0, UsbConstants, AloneOn DEF Onwards, Locks, IInv
  <2>8. Bindable'
    BY <1>0, <1>2, <2>0 DEF IInv, TypeOK, Bindable, Unused, Onwards
  <2>9. Evidence'
    BY <1>0, <1>2, <2>0, JobTypes DEF IInv, TypeOK, Evidence, MayFlash, Receipt, Bindings
  <2>10. Budget'
    <3>1. SUFFICES ASSUME NEW v \in Versions
                PROVE  (attempts[v] + (IF Pending(v) THEN 1 ELSE 0) <= Rights(v))'
      BY DEF Budget
    <3>2. attempts[v] \in Nat /\ Rights(v) \in Nat /\ UNCHANGED Rights(v)
      BY <1>0 DEF TypeOK, Rights
    <3>3. attempts[v] + (IF Pending(v) THEN 1 ELSE 0) <= Rights(v)
      BY DEF IInv, Budget
    <3>4. CASE v = Ver(j)
      <4>1. Pending(v)
        BY <1>0, <1>2, <3>4 DEF Pending, MayFlash, Receipt
      <4>2. ~Pending(v)'
        <5>1. admin = "idle" /\ ~tick
          BY <1>0, Undisturbed
        <5>2. \A i \in Jobs : i # j => ~Installer(i)
          BY <1>0 DEF IInv, Alone
        <5> QED BY <1>0, <2>0, <5>1, <5>2 DEF Pending, Onwards
      <4>3. attempts'[v] = attempts[v] + 1
        BY <1>0, <1>2, <3>4 DEF TypeOK
      <4> QED BY <3>2, <3>3, <4>1, <4>2, <4>3
    <3>5. CASE v # Ver(j)
      <4>1. Pending(v)' => Pending(v)
        BY <1>0, <2>0, <3>5 DEF Pending, Onwards
      <4>2. attempts'[v] = attempts[v]
        BY <1>0, <1>2, <3>5 DEF TypeOK
      <4> QED BY <3>2, <3>3, <4>1, <4>2
    <3> QED BY <3>4, <3>5
  <2>11. Leased'
    BY <1>0, LeasedOn DEF Unused
  <2>12. Answered'
    BY <1>0, <1>2, <2>0, UsbConstants, AnsweredOn DEF Onwards, Gives, IInv, Locks, Answered
  <2> QED BY <2>4, <2>5, <2>6, <2>7, <2>8, <2>9, <2>10, <2>11, <2>12 DEF IInv
<1>3. CASE /\ ~(StillBound(j) /\ (OnlyLinks(j) \/ MayFlash(j)))
           /\ Goto(j, "failing") /\ UNCHANGED <<build, attempts>>
  <2>0. Onwards(j, "failing")
    BY <1>0, <1>3, GoesOn DEF Pcs
  <2>1. ThreadTypes'
    BY <1>0, <1>3, <2>0 DEF TypeOK, ThreadTypes, Onwards
  <2>2. GhostTypes'
    BY <1>0, <1>3, <2>0 DEF TypeOK, GhostTypes
  <2>3. ProcessTypes' /\ RecordTypes' /\ MemoryTypes'
    BY <1>0, <1>3, <2>0 DEF TypeOK, ProcessTypes, RecordTypes, MemoryTypes
  <2>4. TypeOK'
    BY <2>1, <2>2, <2>3, Typed
  <2>5. Shapes'
    BY <1>0, <1>3, <2>0, JobTypes DEF IInv, TypeOK, Shapes, Unused, Onwards, Kinds
  <2>6. Locks'
    BY <1>0, <1>3, <2>0, UsbConstants DEF IInv, TypeOK, Locks, Onwards
  <2>7. Alone'
    BY <1>0, <1>3, <2>0, UsbConstants, AloneOn DEF Onwards, Locks, IInv
  <2>8. Bindable'
    BY <1>0, <1>3, <2>0 DEF IInv, TypeOK, Bindable, Unused, Onwards
  <2>9. Evidence'
    BY <1>0, <1>3, <2>0 DEF IInv, TypeOK, Evidence
  <2>10. Budget'
    BY <1>0, <1>3, <2>0, <2>4, BudgetOn DEF Onwards, Pending
  <2>11. Leased'
    BY <1>0, LeasedOn DEF Unused
  <2>12. Answered'
    BY <1>0, <1>3, <2>0, UsbConstants, AnsweredOn DEF Onwards, Gives, IInv, Locks, Answered
  <2> QED BY <2>4, <2>5, <2>6, <2>7, <2>8, <2>9, <2>10, <2>11, <2>12 DEF IInv
<1> QED BY <1>0, <1>1, <1>2, <1>3 DEF Claim

\* The tool has done its work, or failed.
LEMMA ToolDoneStep == ASSUME IInv, NEW j \in Jobs, ToolDone(j) PROVE IInv'
<1>0. /\ IInv /\ TypeOK
      /\ Installer(j) /\ At(j, "tool")
      /\ UNCHANGED <<process, listening, usb, requests, binding, recovery, memory, bundle, engine, ghosts>>
  BY DEF IInv, ToolDone
<1>1. CASE /\ Goto(j, "link") /\ receipt' = [receipt EXCEPT ![Ver(j)] = Written(j, @)]
           /\ UNCHANGED build
  <2>0. Onwards(j, "link")
    BY <1>0, <1>1, GoesOn DEF Pcs
  <2>1. ThreadTypes'
    BY <1>0, <1>1, <2>0 DEF TypeOK, ThreadTypes, Onwards
  <2>2. RecordTypes'
    BY <1>0, <1>1, <2>0, JobTypes DEF TypeOK, RecordTypes, Receipts, Bindings, Written
  <2>3. ProcessTypes' /\ MemoryTypes' /\ GhostTypes'
    BY <1>0, <1>1, <2>0 DEF TypeOK, ProcessTypes, MemoryTypes, GhostTypes
  <2>4. TypeOK'
    BY <2>1, <2>2, <2>3, Typed
  <2>5. Shapes'
    BY <1>0, <1>1, <2>0, JobTypes DEF IInv, TypeOK, Shapes, Unused, Onwards, Kinds
  <2>6. Locks'
    BY <1>0, <1>1, <2>0, UsbConstants DEF IInv, TypeOK, Locks, Onwards
  <2>7. Alone'
    BY <1>0, <1>1, <2>0, UsbConstants, AloneOn DEF Onwards, Locks, IInv
  <2>8. Bindable'
    BY <1>0, <1>1, <2>0 DEF IInv, TypeOK, Bindable, Unused, Onwards
  <2>9. Evidence'
    BY <1>0, <1>1, <2>0, JobTypes DEF IInv, TypeOK, Evidence, Written
  <2>10. Budget'
    BY <1>0, <1>1, <2>0, <2>4, BudgetOn DEF Onwards, Pending, Written, TypeOK
  <2>11. Leased'
    BY <1>0, LeasedOn DEF Unused
  <2>12. Answered'
    BY <1>0, <1>1, <2>0, UsbConstants, AnsweredOn DEF Onwards, Gives, IInv, Locks, Answered
  <2> QED BY <2>4, <2>5, <2>6, <2>7, <2>8, <2>9, <2>10, <2>11, <2>12 DEF IInv
<1>2. CASE Goto(j, "failing") /\ build' = Nobody /\ UNCHANGED receipt
  <2>0. Onwards(j, "failing")
    BY <1>0, <1>2, GoesOn DEF Pcs
  <2>1. ThreadTypes'
    BY <1>0, <1>2, <2>0 DEF TypeOK, ThreadTypes, Onwards
  <2>2. RecordTypes'
    BY <1>0, <1>2, <2>0 DEF TypeOK, RecordTypes
  <2>3. ProcessTypes' /\ MemoryTypes' /\ GhostTypes'
    BY <1>0, <1>2, <2>0 DEF TypeOK, ProcessTypes, MemoryTypes, GhostTypes
  <2>4. TypeOK'
    BY <2>1, <2>2, <2>3, Typed
  <2>5. Shapes'
    BY <1>0, <1>2, <2>0, JobTypes DEF IInv, TypeOK, Shapes, Unused, Onwards, Kinds
  <2>6. Locks'
    BY <1>0, <1>2, <2>0, UsbConstants DEF IInv, TypeOK, Locks, Onwards
  <2>7. Alone'
    BY <1>0, <1>2, <2>0, UsbConstants, AloneOn DEF Onwards, Locks, IInv
  <2>8. Bindable'
    BY <1>0, <1>2, <2>0 DEF IInv, TypeOK, Bindable, Unused, Onwards
  <2>9. Evidence'
    BY <1>0, <1>2, <2>0 DEF IInv, TypeOK, Evidence
  <2>10. Budget'
    BY <1>0, <1>2, <2>0, <2>4, BudgetOn DEF Onwards, Pending
  <2>11. Leased'
    BY <1>0, LeasedOn DEF Unused
  <2>12. Answered'
    BY <1>0, <1>2, <2>0, UsbConstants, AnsweredOn DEF Onwards, Gives, IInv, Locks, Answered
  <2> QED BY <2>4, <2>5, <2>6, <2>7, <2>8, <2>9, <2>10, <2>11, <2>12 DEF IInv
<1> QED BY <1>0, <1>1, <1>2 DEF ToolDone

\* The board is linked, or that fails.
LEMMA LinkStep == ASSUME IInv, NEW j \in Jobs, Link(j) PROVE IInv'
<1>0. /\ IInv /\ TypeOK
      /\ Installer(j) /\ At(j, "link") /\ build' = Nobody
      /\ UNCHANGED <<process, listening, usb, requests, binding, recovery, seen, bundle, ghosts>>
  BY DEF IInv, Link
<1>1. CASE /\ engine' = TRUE /\ creds' = FALSE /\ job[j].kind = "auto" /\ Goto(j, "closing")
           /\ receipt' = [receipt EXCEPT ![Ver(j)] = [@ EXCEPT !.status = "linked"]]
  <2>0. Onwards(j, "closing")
    BY <1>0, <1>1, GoesOn DEF Pcs
  <2>1. ThreadTypes'
    BY <1>0, <1>1, <2>0 DEF TypeOK, ThreadTypes, Onwards
  <2>2. RecordTypes'
    BY <1>0, <1>1, <2>0 DEF TypeOK, RecordTypes, Receipts
  <2>3. MemoryTypes'
    BY <1>0, <1>1, <2>0 DEF TypeOK, MemoryTypes
  <2>4. ProcessTypes' /\ GhostTypes'
    BY <1>0, <1>1, <2>0 DEF TypeOK, ProcessTypes, GhostTypes
  <2>5. TypeOK'
    BY <2>1, <2>2, <2>3, <2>4, Typed
  <2>6. Shapes'
    BY <1>0, <1>1, <2>0, JobTypes DEF IInv, TypeOK, Shapes, Unused, Onwards, Kinds
  <2>7. Locks'
    BY <1>0, <1>1, <2>0, UsbConstants DEF IInv, TypeOK, Locks, Onwards
  <2>8. Alone'
    BY <1>0, <1>1, <2>0, UsbConstants, AloneOn DEF Onwards, Locks, IInv
  <2>9. Bindable'
    BY <1>0, <1>1, <2>0 DEF IInv, TypeOK, Bindable, Unused, Onwards
  <2>10. Evidence'
    BY <1>0, <1>1, <2>0, JobTypes DEF IInv, TypeOK, Evidence
  <2>11. Budget'
    BY <1>0, <1>1, <2>0, <2>5, BudgetOn DEF Onwards, Pending
  <2>12. Leased'
    BY <1>0, LeasedOn DEF Unused
  <2>13. Answered'
    <3>1. receipt'[Ver(j)].status # "reserved"
      BY <1>0, <1>1, JobTypes DEF TypeOK, Bindings, Receipts
    <3>2. \A v \in Versions : receipt'[v].status = "reserved" => receipt[v].status = "reserved"
      BY <1>0, <1>1, JobTypes DEF TypeOK, Bindings, Receipts
    <3> QED BY <1>0, <1>1, <2>0, <3>1, <3>2, Undisturbed, AnsweredOn
       DEF Onwards, Gives, IInv, Answered
  <2> QED BY <2>5, <2>6, <2>7, <2>8, <2>9, <2>10, <2>11, <2>12, <2>13 DEF IInv
<1>2. CASE /\ engine' = TRUE /\ creds' = FALSE /\ job[j].kind # "auto" /\ Goto(j, "won")
           /\ receipt' = [receipt EXCEPT ![Ver(j)] = [@ EXCEPT !.status = "linked"]]
  <2>0. Onwards(j, "won")
    BY <1>0, <1>2, GoesOn DEF Pcs
  <2>1. ThreadTypes'
    BY <1>0, <1>2, <2>0 DEF TypeOK, ThreadTypes, Onwards
  <2>2. RecordTypes'
    BY <1>0, <1>2, <2>0 DEF TypeOK, RecordTypes, Receipts
  <2>3. MemoryTypes'
    BY <1>0, <1>2, <2>0 DEF TypeOK, MemoryTypes
  <2>4. ProcessTypes' /\ GhostTypes'
    BY <1>0, <1>2, <2>0 DEF TypeOK, ProcessTypes, GhostTypes
  <2>5. TypeOK'
    BY <2>1, <2>2, <2>3, <2>4, Typed
  <2>6. Shapes'
    BY <1>0, <1>2, <2>0, JobTypes DEF IInv, TypeOK, Shapes, Unused, Onwards, Kinds
  <2>7. Locks'
    BY <1>0, <1>2, <2>0, UsbConstants DEF IInv, TypeOK, Locks, Onwards
  <2>8. Alone'
    BY <1>0, <1>2, <2>0, UsbConstants, AloneOn DEF Onwards, Locks, IInv
  <2>9. Bindable'
    BY <1>0, <1>2, <2>0 DEF IInv, TypeOK, Bindable, Unused, Onwards
  <2>10. Evidence'
    BY <1>0, <1>2, <2>0, JobTypes DEF IInv, TypeOK, Evidence
  <2>11. Budget'
    BY <1>0, <1>2, <2>0, <2>5, BudgetOn DEF Onwards, Pending
  <2>12. Leased'
    BY <1>0, LeasedOn DEF Unused
  <2>13. Answered'
    <3>1. receipt'[Ver(j)].status # "reserved"
      BY <1>0, <1>2, JobTypes DEF TypeOK, Bindings, Receipts
    <3>2. \A v \in Versions : receipt'[v].status = "reserved" => receipt[v].status = "reserved"
      BY <1>0, <1>2, JobTypes DEF TypeOK, Bindings, Receipts
    <3> QED BY <1>0, <1>2, <2>0, <3>1, <3>2, Undisturbed, AnsweredOn, SMTT(30)
       DEF Onwards, Gives, IInv, Answered
  <2> QED BY <2>5, <2>6, <2>7, <2>8, <2>9, <2>10, <2>11, <2>12, <2>13 DEF IInv
<1>3. CASE engine' \in {engine, TRUE} /\ Goto(j, "failing") /\ UNCHANGED <<receipt, creds>>
  <2>0. Onwards(j, "failing")
    BY <1>0, <1>3, GoesOn DEF Pcs
  <2>1. ThreadTypes'
    BY <1>0, <1>3, <2>0 DEF TypeOK, ThreadTypes, Onwards
  <2>2. RecordTypes'
    BY <1>0, <1>3, <2>0 DEF TypeOK, RecordTypes
  <2>3. MemoryTypes'
    BY <1>0, <1>3, <2>0 DEF TypeOK, MemoryTypes
  <2>4. ProcessTypes' /\ GhostTypes'
    BY <1>0, <1>3, <2>0 DEF TypeOK, ProcessTypes, GhostTypes
  <2>5. TypeOK'
    BY <2>1, <2>2, <2>3, <2>4, Typed
  <2>6. Shapes'
    BY <1>0, <1>3, <2>0, JobTypes DEF IInv, TypeOK, Shapes, Unused, Onwards, Kinds
  <2>7. Locks'
    BY <1>0, <1>3, <2>0, UsbConstants DEF IInv, TypeOK, Locks, Onwards
  <2>8. Alone'
    BY <1>0, <1>3, <2>0, UsbConstants, AloneOn DEF Onwards, Locks, IInv
  <2>9. Bindable'
    BY <1>0, <1>3, <2>0 DEF IInv, TypeOK, Bindable, Unused, Onwards
  <2>10. Evidence'
    BY <1>0, <1>3, <2>0 DEF IInv, TypeOK, Evidence
  <2>11. Budget'
    BY <1>0, <1>3, <2>0, <2>5, BudgetOn DEF Onwards, Pending
  <2>12. Leased'
    BY <1>0, LeasedOn DEF Unused
  <2>13. Answered'
    BY <1>0, <1>3, <2>0, UsbConstants, AnsweredOn DEF Onwards, Gives, IInv, Locks, Answered
  <2> QED BY <2>5, <2>6, <2>7, <2>8, <2>9, <2>10, <2>11, <2>12, <2>13 DEF IInv
<1> QED BY <1>0, <1>1, <1>2, <1>3 DEF Link

\* A failed installation marks its receipt.
LEMMA InstallFailsStep == ASSUME IInv, NEW j \in Jobs, InstallFails(j) PROVE IInv'
<1>0. /\ IInv /\ TypeOK
      /\ At(j, "failing") /\ Installer(j) /\ receipt' = [receipt EXCEPT ![Ver(j)] = Failed(@)]
      /\ UNCHANGED <<process, listening, locks, requests, binding, recovery, memory, bundle, engine, ghosts>>
  BY DEF IInv, InstallFails, Shapes
<1>1. CASE job[j].kind = "auto" /\ Goto(j, "closing")
  <2>0. Onwards(j, "closing")
    BY <1>0, <1>1, GoesOn DEF Pcs
  <2>1. ThreadTypes'
    BY <1>0, <1>1, <2>0 DEF TypeOK, ThreadTypes, Onwards
  <2>2. RecordTypes'
    BY <1>0, <1>1, <2>0, ZenonT(60) DEF TypeOK, RecordTypes, Receipts, Failed
  <2>3. ProcessTypes' /\ MemoryTypes' /\ GhostTypes'
    BY <1>0, <1>1, <2>0 DEF TypeOK, ProcessTypes, MemoryTypes, GhostTypes
  <2>4. TypeOK'
    BY <2>1, <2>2, <2>3, Typed
  <2>5. Shapes'
    BY <1>0, <1>1, <2>0, JobTypes DEF IInv, TypeOK, Shapes, Unused, Failed, Onwards, Kinds
  <2>6. Locks'
    BY <1>0, <1>1, <2>0, UsbConstants DEF IInv, TypeOK, Locks, Failed, Onwards
  <2>7. Alone'
    BY <1>0, <1>1, <2>0, UsbConstants, AloneOn DEF Onwards, Locks, IInv, Failed
  <2>8. Bindable'
    BY <1>0, <1>1, <2>0 DEF IInv, TypeOK, Bindable, Unused, Failed, Onwards
  <2>9. Evidence'
    BY <1>0, <1>1, <2>0 DEF IInv, TypeOK, Evidence, Failed
  <2>10. Budget'
    BY <1>0, <1>1, <2>0, <2>4, BudgetOn DEF Onwards, Pending, Failed
  <2>11. Leased'
    BY <1>0, LeasedOn DEF Unused
  <2>12. Answered'
    <3>1. receipt'[Ver(j)].status # "reserved"
      BY <1>0, <1>1, JobTypes DEF TypeOK, Bindings, Receipts, Failed
    <3>2. \A v \in Versions : receipt'[v].status = "reserved" => receipt[v].status = "reserved"
      BY <1>0, <1>1, JobTypes DEF TypeOK, Bindings, Receipts, Failed
    <3> QED BY <1>0, <1>1, <2>0, <3>1, <3>2, Undisturbed, AnsweredOn
       DEF Onwards, Gives, IInv, Answered
  <2> QED BY <2>4, <2>5, <2>6, <2>7, <2>8, <2>9, <2>10, <2>11, <2>12 DEF IInv
<1>2. CASE job[j].kind # "auto" /\ Goto(j, "lost")
  <2>0. Onwards(j, "lost")
    BY <1>0, <1>2, GoesOn DEF Pcs
  <2>1. ThreadTypes'
    BY <1>0, <1>2, <2>0 DEF TypeOK, ThreadTypes, Onwards
  <2>2. RecordTypes'
    BY <1>0, <1>2, <2>0, ZenonT(60) DEF TypeOK, RecordTypes, Receipts, Failed
  <2>3. ProcessTypes' /\ MemoryTypes' /\ GhostTypes'
    BY <1>0, <1>2, <2>0 DEF TypeOK, ProcessTypes, MemoryTypes, GhostTypes
  <2>4. TypeOK'
    BY <2>1, <2>2, <2>3, Typed
  <2>5. Shapes'
    BY <1>0, <1>2, <2>0, JobTypes DEF IInv, TypeOK, Shapes, Unused, Failed, Onwards, Kinds
  <2>6. Locks'
    BY <1>0, <1>2, <2>0, UsbConstants DEF IInv, TypeOK, Locks, Failed, Onwards
  <2>7. Alone'
    BY <1>0, <1>2, <2>0, UsbConstants, AloneOn DEF Onwards, Locks, IInv, Failed
  <2>8. Bindable'
    BY <1>0, <1>2, <2>0 DEF IInv, TypeOK, Bindable, Unused, Failed, Onwards
  <2>9. Evidence'
    BY <1>0, <1>2, <2>0 DEF IInv, TypeOK, Evidence, Failed
  <2>10. Budget'
    BY <1>0, <1>2, <2>0, <2>4, BudgetOn DEF Onwards, Pending, Failed
  <2>11. Leased'
    BY <1>0, LeasedOn DEF Unused
  <2>12. Answered'
    <3>1. receipt'[Ver(j)].status # "reserved"
      BY <1>0, <1>2, JobTypes DEF TypeOK, Bindings, Receipts, Failed
    <3>2. \A v \in Versions : receipt'[v].status = "reserved" => receipt[v].status = "reserved"
      BY <1>0, <1>2, JobTypes DEF TypeOK, Bindings, Receipts, Failed
    <3> QED BY <1>0, <1>2, <2>0, <3>1, <3>2, Undisturbed, AnsweredOn, SMTT(30)
       DEF Onwards, Gives, IInv, Answered
  <2> QED BY <2>4, <2>5, <2>6, <2>7, <2>8, <2>9, <2>10, <2>11, <2>12 DEF IInv
<1> QED BY <1>0, <1>1, <1>2 DEF InstallFails

\* A recovery job claims the attempt that is its own, or ends.
LEMMA RecoveryRunsStep == ASSUME IInv, NEW j \in Jobs, RecoveryRuns(j) PROVE IInv'
<1>0. /\ IInv /\ TypeOK
      /\ Is(j, "recover", "start") /\ build = Nobody /\ admin = "idle"
      /\ UNCHANGED <<process, listening, locks, requests, binding, receipt, memory, bundle, engine, ghosts>>
  BY UsbConstants DEF IInv, RecoveryRuns, Locks
<1>1. CASE /\ recovery.status = "reserved" /\ recovery.job = j /\ Goto(j, "claimed")
           /\ recovery' = [recovery EXCEPT !.status = "running"]
  <2>0. Onwards(j, "claimed")
    BY <1>0, <1>1, GoesOn DEF Pcs
  <2>1. ThreadTypes'
    BY <1>0, <1>1, <2>0 DEF TypeOK, ThreadTypes, Onwards
  <2>2. RecordTypes'
    BY <1>0, <1>1, <2>0 DEF TypeOK, RecordTypes, Recoveries
  <2>3. ProcessTypes' /\ MemoryTypes' /\ GhostTypes'
    BY <1>0, <1>1, <2>0 DEF TypeOK, ProcessTypes, MemoryTypes, GhostTypes
  <2>4. TypeOK'
    BY <2>1, <2>2, <2>3, Typed
  <2>5. Shapes'
    BY <1>0, <1>1, <2>0, JobTypes DEF IInv, TypeOK, Shapes, Unused, Onwards, Kinds
  <2>6. Locks'
    BY <1>0, <1>1, <2>0, UsbConstants DEF IInv, TypeOK, Locks, Onwards
  <2>7. Alone'
    BY <1>0, <1>1, <2>0, UsbConstants, AloneOn DEF Onwards, Locks, IInv
  <2>8. Bindable'
    BY <1>0, <1>1, <2>0 DEF IInv, TypeOK, Bindable, Unused, Onwards
  <2>9. Evidence'
    BY <1>0, <1>1, <2>0 DEF IInv, TypeOK, Evidence
  <2>10. Budget'
    BY <1>0, <2>0, <2>4, BudgetOn, ZenonT(60) DEF Onwards, Pending
  <2>11. Leased'
    BY <1>0, LeasedOn DEF Unused
  <2>12. Answered'
    BY <1>0, <1>1, <2>0, UsbConstants, AnsweredOn DEF Onwards, Gives, IInv, Locks, Answered
  <2> QED BY <2>4, <2>5, <2>6, <2>7, <2>8, <2>9, <2>10, <2>11, <2>12 DEF IInv
<1>2. CASE ~(recovery.status = "reserved" /\ recovery.job = j) /\ UNCHANGED recovery /\ Goto(j, "closing")
  <2>0. Onwards(j, "closing")
    BY <1>0, <1>2, GoesOn DEF Pcs
  <2>1. ThreadTypes'
    BY <1>0, <1>2, <2>0 DEF TypeOK, ThreadTypes, Onwards
  <2>2. RecordTypes'
    BY <1>0, <1>2, <2>0 DEF TypeOK, RecordTypes
  <2>3. ProcessTypes' /\ MemoryTypes' /\ GhostTypes'
    BY <1>0, <1>2, <2>0 DEF TypeOK, ProcessTypes, MemoryTypes, GhostTypes
  <2>4. TypeOK'
    BY <2>1, <2>2, <2>3, Typed
  <2>5. Shapes'
    BY <1>0, <1>2, <2>0, JobTypes DEF IInv, TypeOK, Shapes, Unused, Onwards, Kinds
  <2>6. Locks'
    BY <1>0, <1>2, <2>0, UsbConstants DEF IInv, TypeOK, Locks, Onwards
  <2>7. Alone'
    BY <1>0, <1>2, <2>0, UsbConstants, AloneOn DEF Onwards, Locks, IInv
  <2>8. Bindable'
    BY <1>0, <1>2, <2>0 DEF IInv, TypeOK, Bindable, Unused, Onwards
  <2>9. Evidence'
    BY <1>0, <1>2, <2>0 DEF IInv, TypeOK, Evidence
  <2>10. Budget'
    BY <1>0, <1>2, <2>0, <2>4, BudgetOn DEF Onwards, Pending
  <2>11. Leased'
    BY <1>0, LeasedOn DEF Unused
  <2>12. Answered'
    BY <1>0, <1>2, <2>0, UsbConstants, AnsweredOn DEF Onwards, Gives, IInv, Locks, Answered
  <2> QED BY <2>4, <2>5, <2>6, <2>7, <2>8, <2>9, <2>10, <2>11, <2>12 DEF IInv
<1> QED BY <1>0, <1>1, <1>2 DEF RecoveryRuns

\* It records the outcome of the attempt.
LEMMA RecoverySettlesStep == ASSUME IInv, NEW j \in Jobs, RecoverySettles(j) PROVE IInv'
<1>0. /\ IInv /\ TypeOK
      /\ job[j].pc \in {"won", "lost"} /\ job[j].kind = "recover" /\ admin = "idle" /\ ~tick
      /\ UNCHANGED <<process, listening, locks, requests, binding, receipt, memory, bundle, engine, ghosts>>
  BY Undisturbed DEF IInv, RecoverySettles, Shapes
<1>1. CASE /\ job[j].pc = "won" /\ Goto(j, "closing")
           /\ recovery' = [recovery EXCEPT !.status = "succeeded"]
  <2>0. Onwards(j, "closing")
    BY <1>0, <1>1, GoesOn DEF Pcs
  <2>1. ThreadTypes'
    BY <1>0, <1>1, <2>0 DEF TypeOK, ThreadTypes, Onwards
  <2>2. RecordTypes'
    BY <1>0, <1>1, <2>0 DEF TypeOK, RecordTypes, Recoveries
  <2>3. ProcessTypes' /\ MemoryTypes' /\ GhostTypes'
    BY <1>0, <1>1, <2>0 DEF TypeOK, ProcessTypes, MemoryTypes, GhostTypes
  <2>4. TypeOK'
    BY <2>1, <2>2, <2>3, Typed
  <2>5. Shapes'
    BY <1>0, <1>1, <2>0, JobTypes DEF IInv, TypeOK, Shapes, Unused, Onwards, Kinds
  <2>6. Locks'
    BY <1>0, <1>1, <2>0, UsbConstants DEF IInv, TypeOK, Locks, Onwards
  <2>7. Alone'
    BY <1>0, <1>1, <2>0, UsbConstants, AloneOn DEF Onwards, Locks, IInv
  <2>8. Bindable'
    BY <1>0, <1>1, <2>0 DEF IInv, TypeOK, Bindable, Unused, Onwards
  <2>9. Evidence'
    BY <1>0, <1>1, <2>0 DEF IInv, TypeOK, Evidence
  <2>10. Budget'
    BY <1>0, <1>1, <2>0, <2>4, BudgetOn DEF Onwards, Pending
  <2>11. Leased'
    BY <1>0, LeasedOn DEF Unused
  <2>12. Answered'
    BY <1>0, <1>1, <2>0, JobTypes DEF IInv, TypeOK, Answered, Gives, Alone, Onwards
  <2> QED BY <2>4, <2>5, <2>6, <2>7, <2>8, <2>9, <2>10, <2>11, <2>12 DEF IInv
<1>2. CASE /\ job[j].pc = "lost" /\ Goto(j, "closing")
           /\ recovery' = [recovery EXCEPT !.status = "failed"]
  <2>0. Onwards(j, "closing")
    BY <1>0, <1>2, GoesOn DEF Pcs
  <2>1. ThreadTypes'
    BY <1>0, <1>2, <2>0 DEF TypeOK, ThreadTypes, Onwards
  <2>2. RecordTypes'
    BY <1>0, <1>2, <2>0 DEF TypeOK, RecordTypes, Recoveries
  <2>3. ProcessTypes' /\ MemoryTypes' /\ GhostTypes'
    BY <1>0, <1>2, <2>0 DEF TypeOK, ProcessTypes, MemoryTypes, GhostTypes
  <2>4. TypeOK'
    BY <2>1, <2>2, <2>3, Typed
  <2>5. Shapes'
    BY <1>0, <1>2, <2>0, JobTypes DEF IInv, TypeOK, Shapes, Unused, Onwards, Kinds
  <2>6. Locks'
    BY <1>0, <1>2, <2>0, UsbConstants DEF IInv, TypeOK, Locks, Onwards
  <2>7. Alone'
    BY <1>0, <1>2, <2>0, UsbConstants, AloneOn DEF Onwards, Locks, IInv
  <2>8. Bindable'
    BY <1>0, <1>2, <2>0 DEF IInv, TypeOK, Bindable, Unused, Onwards
  <2>9. Evidence'
    BY <1>0, <1>2, <2>0 DEF IInv, TypeOK, Evidence
  <2>10. Budget'
    BY <1>0, <1>2, <2>0, <2>4, BudgetOn DEF Onwards, Pending
  <2>11. Leased'
    BY <1>0, LeasedOn DEF Unused
  <2>12. Answered'
    BY <1>0, <1>2, <2>0, JobTypes DEF IInv, TypeOK, Answered, Gives, Alone, Onwards
  <2> QED BY <2>4, <2>5, <2>6, <2>7, <2>8, <2>9, <2>10, <2>11, <2>12 DEF IInv
<1> QED BY <1>0, <1>1, <1>2 DEF RecoverySettles

\* A manual job takes the build lock ...
LEMMA ManualBuildsStep == ASSUME IInv, NEW j \in Jobs, ManualBuilds(j) PROVE IInv'
<1>0. /\ IInv /\ TypeOK
      /\ Is(j, "manual", "start") /\ build = Nobody /\ build' = j
      /\ UNCHANGED <<process, listening, usb, requests, stored, memory, bundle, engine, ghosts>>
  BY DEF IInv, ManualBuilds
<1>1. CASE Goto(j, "tool")
  <2>0. Onwards(j, "tool")
    BY <1>0, <1>1, GoesOn DEF Pcs
  <2>1. ThreadTypes'
    BY <1>0, <1>1, <2>0 DEF TypeOK, ThreadTypes, Onwards
  <2>2. ProcessTypes' /\ RecordTypes' /\ MemoryTypes' /\ GhostTypes'
    BY <1>0, <1>1, <2>0 DEF TypeOK, ProcessTypes, RecordTypes, MemoryTypes, GhostTypes
  <2>3. TypeOK'
    BY <2>1, <2>2, Typed
  <2>4. Shapes'
    BY <1>0, <1>1, <2>0, JobTypes DEF IInv, TypeOK, Shapes, Unused, Onwards, Kinds
  <2>5. Locks'
    BY <1>0, <1>1, <2>0, UsbConstants DEF IInv, TypeOK, Locks, Onwards
  <2>6. Alone'
    BY <1>0, <1>1, <2>0, UsbConstants, AloneOn DEF Onwards, Locks, IInv
  <2>7. Bindable'
    BY <1>0, <1>1, <2>0 DEF IInv, TypeOK, Bindable, Unused, Onwards
  <2>8. Evidence'
    BY <1>0, <1>1, <2>0 DEF IInv, TypeOK, Evidence
  <2>9. Budget'
    BY <1>0, <1>1, <2>0, <2>3, BudgetOn DEF Onwards, Pending
  <2>10. Leased'
    BY <1>0, LeasedOn DEF Unused
  <2>11. Answered'
    BY <1>0, <1>1, <2>0, UsbConstants, AnsweredOn DEF Onwards, Gives, IInv, Locks, Answered
  <2> QED BY <2>3, <2>4, <2>5, <2>6, <2>7, <2>8, <2>9, <2>10, <2>11 DEF IInv
<1> QED BY <1>0, <1>1 DEF ManualBuilds

\* ... and leaves it with another bundle.
LEMMA ManualBuiltStep == ASSUME IInv, NEW j \in Jobs, ManualBuilt(j) PROVE IInv'
<1>0. /\ IInv /\ TypeOK
      /\ Is(j, "manual", "tool") /\ build' = Nobody
      /\ bundle' \in Versions \cup {Nobody} /\ engine' \in {engine, TRUE}
      /\ UNCHANGED <<process, listening, usb, requests, stored, memory, ghosts>>
  BY DEF IInv, ManualBuilt
<1>1. CASE Goto(j, "closing")
  <2>0. Onwards(j, "closing")
    BY <1>0, <1>1, GoesOn DEF Pcs
  <2>1. ThreadTypes'
    BY <1>0, <1>1, <2>0 DEF TypeOK, ThreadTypes, Onwards
  <2>2. MemoryTypes'
    BY <1>0, <1>1, <2>0 DEF TypeOK, MemoryTypes
  <2>3. ProcessTypes' /\ RecordTypes' /\ GhostTypes'
    BY <1>0, <1>1, <2>0 DEF TypeOK, ProcessTypes, RecordTypes, GhostTypes
  <2>4. TypeOK'
    BY <2>1, <2>2, <2>3, Typed
  <2>5. Shapes'
    BY <1>0, <1>1, <2>0, JobTypes DEF IInv, TypeOK, Shapes, Unused, Onwards, Kinds
  <2>6. Locks'
    BY <1>0, <1>1, <2>0, UsbConstants DEF IInv, TypeOK, Locks, Onwards
  <2>7. Alone'
    BY <1>0, <1>1, <2>0, UsbConstants, AloneOn DEF Onwards, Locks, IInv
  <2>8. Bindable'
    BY <1>0, <1>1, <2>0 DEF IInv, TypeOK, Bindable, Unused, Onwards, Locks
  <2>9. Evidence'
    BY <1>0, <1>1, <2>0 DEF IInv, TypeOK, Evidence
  <2>10. Budget'
    BY <1>0, <1>1, <2>0, <2>4, BudgetOn DEF Onwards, Pending
  <2>11. Leased'
    BY <1>0, LeasedOn DEF Unused
  <2>12. Answered'
    BY <1>0, <1>1, <2>0, UsbConstants, AnsweredOn DEF Onwards, Gives, IInv, Locks, Answered
  <2> QED BY <2>4, <2>5, <2>6, <2>7, <2>8, <2>9, <2>10, <2>11, <2>12 DEF IInv
<1> QED BY <1>0, <1>1 DEF ManualBuilt

-----------------------------------------------------------------------------
(* The requests, the listener and the recovery.                            *)

\* A binding job is entered while no other job is active.
LEMMA RequestBindStep == ASSUME IInv, RequestBind PROVE IInv'
<1>0. /\ IInv /\ TypeOK
      /\ phase = "up" /\ usb = Nobody /\ ~Active /\ binding.rev < MaxRev
      /\ CreateJob("bind", NoBinding, FALSE)
      /\ UNCHANGED <<process, listening, locks, requests, stored, memory, bundle, engine, ghosts>>
  BY DEF IInv, RequestBind
<1>1. PICK i \in Jobs : Accepting /\ Entered(i, "bind", NoBinding, FALSE)
  BY <1>0, Created, NoBindingIs DEF Kinds, TypeOK
<1>2. ThreadTypes'
  BY <1>0, <1>1 DEF TypeOK, ThreadTypes, Entered
<1>3. ProcessTypes' /\ RecordTypes' /\ MemoryTypes' /\ GhostTypes'
  BY <1>0, <1>1 DEF TypeOK, ProcessTypes, RecordTypes, MemoryTypes, GhostTypes
<1>4. TypeOK'
  BY <1>2, <1>3, Typed
<1>5. Shapes'
  BY <1>0, <1>1 DEF IInv, TypeOK, Shapes, Unused, Entered
<1>6. Locks'
  BY <1>0, <1>1, UsbConstants DEF IInv, TypeOK, Locks, Entered
<1>7. Alone'
  BY <1>0, <1>1, UsbConstants DEF IInv, TypeOK, Alone, Unused, Locks, Active, Entered
<1>8. Bindable'
  BY <1>0, <1>1 DEF IInv, TypeOK, Bindable, Unused, Active, Entered
<1>9. Evidence'
  BY <1>0, <1>1 DEF IInv, TypeOK, Evidence
<1>10. Budget'
  BY <1>0, <1>1 DEF IInv, TypeOK, Budget, Pending, Rights, Entered
<1>11. Leased'
  BY <1>0, <1>1, NoWorkers DEF IInv, TypeOK, Leased
<1>12. Answered'
  <2>1. ~Gives(i) /\ \A k \in Jobs : k # i => job'[k] = job[k]
    BY <1>1 DEF Gives, Entered, Unused
  <2>2. recovery.status = "running" \/ (recovery.status = "reserved" /\ admin = "idle") =>
            recovery.job # i
    BY <1>1 DEF IInv, Answered, Entered, Unused
  <2> QED BY <1>0, <2>1, <2>2, AnsweredOn
<1> QED BY <1>4, <1>5, <1>6, <1>7, <1>8, <1>9, <1>10, <1>11, <1>12 DEF IInv

\* So is a manual job, at any time.
LEMMA RequestManualStep == ASSUME IInv, RequestManual PROVE IInv'
<1>0. /\ IInv /\ TypeOK
      /\ phase = "up" /\ CreateJob("manual", NoBinding, FALSE)
      /\ UNCHANGED <<process, listening, locks, requests, stored, memory, bundle, engine, ghosts>>
  BY DEF IInv, RequestManual
<1>1. PICK i \in Jobs : Accepting /\ Entered(i, "manual", NoBinding, FALSE)
  BY <1>0, Created, NoBindingIs DEF Kinds, TypeOK
<1>2. ThreadTypes'
  BY <1>0, <1>1 DEF TypeOK, ThreadTypes, Entered
<1>3. ProcessTypes' /\ RecordTypes' /\ MemoryTypes' /\ GhostTypes'
  BY <1>0, <1>1 DEF TypeOK, ProcessTypes, RecordTypes, MemoryTypes, GhostTypes
<1>4. TypeOK'
  BY <1>2, <1>3, Typed
<1>5. Shapes'
  BY <1>0, <1>1 DEF IInv, TypeOK, Shapes, Unused, Entered
<1>6. Locks'
  BY <1>0, <1>1, UsbConstants DEF IInv, TypeOK, Locks, Entered
<1>7. Alone'
  BY <1>0, <1>1 DEF IInv, TypeOK, Alone, Unused, Entered
<1>8. Bindable'
  BY <1>0, <1>1 DEF IInv, TypeOK, Bindable, Unused, Entered
<1>9. Evidence'
  BY <1>0, <1>1 DEF IInv, TypeOK, Evidence
<1>10. Budget'
  BY <1>0, <1>1 DEF IInv, TypeOK, Budget, Pending, Rights, Entered
<1>11. Leased'
  BY <1>0, <1>1, NoWorkers DEF IInv, TypeOK, Leased
<1>12. Answered'
  <2>1. ~Gives(i) /\ \A k \in Jobs : k # i => job'[k] = job[k]
    BY <1>1 DEF Gives, Entered, Unused
  <2>2. recovery.status = "running" \/ (recovery.status = "reserved" /\ admin = "idle") =>
            recovery.job # i
    BY <1>1 DEF IInv, Answered, Entered, Unused
  <2> QED BY <1>0, <2>1, <2>2, AnsweredOn
<1> QED BY <1>4, <1>5, <1>6, <1>7, <1>8, <1>9, <1>10, <1>11, <1>12 DEF IInv

\* The binding is switched off.
LEMMA DisableStep == ASSUME IInv, Disable PROVE IInv'
<1>0. /\ IInv /\ TypeOK
      /\ phase = "up" /\ usb = Nobody /\ tick = FALSE /\ admin = "idle"
      /\ binding' = [binding EXCEPT !.on = FALSE] /\ creds' = FALSE
      /\ UNCHANGED <<process, listening, job, locks, requests, receipt, recovery, seen, bundle, engine, ghosts>>
  BY UsbConstants DEF IInv, Disable, Locks, TypeOK
<1>1. RecordTypes'
  BY <1>0 DEF TypeOK, RecordTypes, Bindings
<1>2. MemoryTypes'
  BY <1>0 DEF TypeOK, MemoryTypes
<1>3. ProcessTypes' /\ ThreadTypes' /\ GhostTypes'
  BY <1>0 DEF TypeOK, ProcessTypes, ThreadTypes, GhostTypes
<1>4. TypeOK'
  BY <1>1, <1>2, <1>3, Typed
<1>5. Shapes' /\ Locks'
  BY <1>0 DEF IInv, Shapes, Locks
<1>6. Evidence' /\ Leased'
  BY <1>0 DEF IInv, Evidence, Leased, Workers
<1>7. Alone'
  BY <1>0 DEF IInv, TypeOK, Alone, Unused
<1>8. Bindable'
  BY <1>0 DEF IInv, TypeOK, Bindable, Unused, Bindings
<1>9. Budget'
  BY <1>0 DEF IInv, TypeOK, Budget, Pending, Rights
<1>10. Answered'
  BY <1>0 DEF IInv, TypeOK, Answered, Gives
<1> QED BY <1>4, <1>5, <1>6, <1>7, <1>8, <1>9, <1>10 DEF IInv

\* The board is gone.
LEMMA TickGoneStep == ASSUME IInv, TickGone PROVE IInv'
<1>0. /\ IInv /\ TypeOK
      /\ seen' = FALSE
      /\ UNCHANGED <<process, listening, job, locks, requests, stored, creds, bundle, engine, ghosts>>
  BY DEF IInv, TickGone
<1>1. MemoryTypes'
  BY <1>0 DEF TypeOK, MemoryTypes
<1>2. ProcessTypes' /\ ThreadTypes' /\ RecordTypes' /\ GhostTypes'
  BY <1>0 DEF TypeOK, ProcessTypes, ThreadTypes, RecordTypes, GhostTypes
<1>3. TypeOK'
  BY <1>1, <1>2, Typed
<1>4. Shapes' /\ Locks' /\ Alone' /\ Bindable'
  BY <1>0 DEF IInv, Shapes, Locks, Alone, Bindable
<1>5. Evidence' /\ Budget' /\ Leased' /\ Answered'
  BY <1>0 DEF IInv, Evidence, Budget, Pending, Rights, Leased, Answered, Gives, Workers
<1> QED BY <1>3, <1>4, <1>5 DEF IInv

\* Nothing is to be installed on it.
LEMMA TickDeclinesStep == ASSUME IInv, TickDeclines PROVE IInv'
<1>0. /\ IInv /\ TypeOK
      /\ seen' = TRUE
      /\ UNCHANGED <<process, listening, job, locks, requests, stored, creds, bundle, engine, ghosts>>
  BY DEF IInv, TickDeclines
<1>1. MemoryTypes'
  BY <1>0 DEF TypeOK, MemoryTypes
<1>2. ProcessTypes' /\ ThreadTypes' /\ RecordTypes' /\ GhostTypes'
  BY <1>0 DEF TypeOK, ProcessTypes, ThreadTypes, RecordTypes, GhostTypes
<1>3. TypeOK'
  BY <1>1, <1>2, Typed
<1>4. Shapes' /\ Locks' /\ Alone' /\ Bindable'
  BY <1>0 DEF IInv, Shapes, Locks, Alone, Bindable
<1>5. Evidence' /\ Budget' /\ Leased' /\ Answered'
  BY <1>0 DEF IInv, Evidence, Budget, Pending, Rights, Leased, Answered, Gives, Workers
<1> QED BY <1>3, <1>4, <1>5 DEF IInv

\* The listener reserves the receipt.
LEMMA TickReservesStep == ASSUME IInv, TickReserves PROVE IInv'
<1>0. /\ IInv /\ TypeOK
      /\ Noticed /\ Installs /\ usb = Nobody /\ admin = "idle" /\ binding.on /\ listening /\ seen' = TRUE /\ usb' = Listener /\ tick' = TRUE
      /\ receipt' = [receipt EXCEPT ![binding.ver] = Reserves(@)]
      /\ UNCHANGED <<process, listening, job, build, admin, binding, recovery, creds, bundle, engine, ghosts>>
  BY UsbConstants DEF IInv, TickReserves, Noticed, Watching, Locks
<1>1. ThreadTypes'
  BY <1>0 DEF TypeOK, ThreadTypes
<1>2. RecordTypes'
  BY <1>0 DEF TypeOK, RecordTypes, Receipts, Bindings, Reserves
<1>3. MemoryTypes'
  BY <1>0 DEF TypeOK, MemoryTypes
<1>4. ProcessTypes' /\ GhostTypes'
  BY <1>0 DEF TypeOK, ProcessTypes, GhostTypes
<1>5. TypeOK'
  BY <1>1, <1>2, <1>3, <1>4, Typed
<1>6. Shapes' /\ Bindable'
  BY <1>0 DEF IInv, Shapes, Bindable
<1>7. Leased'
  BY <1>0 DEF IInv, Leased, Workers
<1>8. Locks'
  BY <1>0, UsbConstants DEF IInv, TypeOK, Locks, Noticed, Active
<1>9. Alone'
  BY <1>0 DEF IInv, TypeOK, Alone, Unused, Noticed, Active
<1>10. Evidence'
  BY <1>0 DEF IInv, TypeOK, Evidence, Bindings, Reserves
<1>11. Budget'
  <2> SUFFICES ASSUME NEW v \in Versions
               PROVE  (attempts[v] + (IF Pending(v) THEN 1 ELSE 0) <= Rights(v))'
    BY DEF Budget
  <2>1. attempts[v] \in Nat /\ grants[v] \in Nat
    BY <1>0 DEF TypeOK
  <2>2. attempts[v] + (IF Pending(v) THEN 1 ELSE 0) <= Rights(v)
    BY DEF IInv, Budget
  <2>3. CASE v = binding.ver /\ receipt[v].status = "none"
    <3>1. attempts[v] = 0 /\ v \in bound
      BY <1>0, <2>3 DEF IInv, Evidence, Bindable
    <3> QED BY <1>0, <2>1, <3>1 DEF Rights
  <2>4. CASE v # binding.ver \/ receipt[v].status # "none"
    <3>1. Pending(v)' => Pending(v)
      <4>1. receipt'[v].status = "reserved" => receipt[v].status = "reserved" /\ v # binding.ver
        BY <1>0, <2>4 DEF TypeOK, Installs, Reserves
      <4> QED BY <1>0, <4>1 DEF Pending
    <3> QED BY <1>0, <2>1, <2>2, <3>1 DEF Rights
  <2> QED BY <2>3, <2>4
<1>12. Answered'
  BY <1>0 DEF IInv, TypeOK, Answered, Gives
<1> QED BY <1>5, <1>6, <1>7, <1>8, <1>9, <1>10, <1>11, <1>12 DEF IInv

\* The listener ends with the service.
LEMMA ListenerEndsStep == ASSUME IInv, ListenerEnds PROVE IInv'
<1>0. /\ IInv /\ TypeOK
      /\ listening /\ Stopping /\ ~tick /\ listening' = FALSE /\ Finished(Listener)
      /\ UNCHANGED <<phase, complete, lease, job, locks, requests, stored, memory, bundle, engine, ghosts>>
  BY DEF IInv, ListenerEnds
<1>1. ProcessTypes'
  BY <1>0 DEF TypeOK, ProcessTypes, Finished
<1>2. ThreadTypes'
  BY <1>0 DEF TypeOK, ThreadTypes
<1>3. RecordTypes' /\ MemoryTypes' /\ GhostTypes'
  BY <1>0 DEF TypeOK, RecordTypes, MemoryTypes, GhostTypes
<1>4. TypeOK'
  BY <1>1, <1>2, <1>3, Typed
<1>5. Shapes' /\ Locks' /\ Alone' /\ Bindable'
  BY <1>0 DEF IInv, Shapes, Locks, Alone, Bindable
<1>6. Evidence' /\ Budget' /\ Answered'
  BY <1>0 DEF IInv, Evidence, Budget, Pending, Rights, Answered, Gives
<1>7. Leased'
  <2>1. ~complete /\ lease
    BY <1>0, NoWorkers DEF IInv, TypeOK, Leased
  <2>2. callback' = "called" => ~Accepting /\ Workers' = {}
    BY <1>0, <2>1, NoWorkers, UsbConstants DEF IInv, TypeOK, Leased, Finished, Workers
  <2> QED BY <1>0, <2>1, <2>2 DEF Leased
<1> QED BY <1>4, <1>5, <1>6, <1>7 DEF IInv

\* It creates the job for the receipt it has reserved, ...
LEMMA TickCreatesJobStep == ASSUME IInv, TickCreates, CreateJob("auto", binding, Mine.status # "reserved") PROVE IInv'
<1>0. /\ IInv /\ TypeOK
      /\ tick /\ tick' = FALSE /\ usb' = Nobody /\ usb = Listener /\ admin = "idle"
      /\ CreateJob("auto", binding, Mine.status # "reserved")
      /\ UNCHANGED <<process, listening, build, admin, stored, memory, bundle, engine, ghosts>>
  BY UsbConstants DEF IInv, TickCreates, Locks
<1>1. PICK i \in Jobs : Accepting /\ Entered(i, "auto", binding, Mine.status # "reserved")
  BY <1>0, Created, NoBindingIs DEF Kinds, TypeOK
<1>2. ThreadTypes'
  BY <1>0, <1>1 DEF TypeOK, ThreadTypes, Entered
<1>3. ProcessTypes' /\ RecordTypes' /\ MemoryTypes' /\ GhostTypes'
  BY <1>0, <1>1 DEF TypeOK, ProcessTypes, RecordTypes, MemoryTypes, GhostTypes
<1>4. TypeOK'
  BY <1>2, <1>3, Typed
<1>5. Shapes'
  BY <1>0, <1>1 DEF IInv, TypeOK, Shapes, Unused, Entered
<1>6. Locks'
  BY <1>0, <1>1, UsbConstants DEF IInv, TypeOK, Locks, Entered
<1>7. Alone'
  BY <1>0, <1>1 DEF IInv, TypeOK, Alone, Unused, Entered
<1>8. Bindable'
  BY <1>0, <1>1 DEF IInv, TypeOK, Bindable, Unused, Entered
<1>9. Evidence'
  BY <1>0, <1>1 DEF IInv, TypeOK, Evidence
<1>10. Budget'
  BY <1>0, <1>1 DEF IInv, TypeOK, Budget, Pending, Rights, Entered
<1>11. Leased'
  BY <1>0, <1>1, NoWorkers DEF IInv, TypeOK, Leased
<1>12. Answered'
  <2>1. (phase = "up" => \A v \in Versions : receipt[v].status = "reserved" =>
             \/ (tick \/ admin = "create") /\ binding.ver = v
             \/ \E j \in Jobs : Gives(j) /\ Ver(j) = v)'
    BY <1>0, <1>1 DEF IInv, Answered, Alone, Gives, Entered, Unused
  <2>2. recovery.status = "running" \/ recovery.status = "reserved" => recovery.job # i
    BY <1>0, <1>1 DEF IInv, Answered, Entered, Unused
  <2> QED BY <1>0, <1>1, <2>1, <2>2 DEF IInv, Answered, Entered
<1> QED BY <1>4, <1>5, <1>6, <1>7, <1>8, <1>9, <1>10, <1>11, <1>12 DEF IInv

\* ... unless the service closes.
LEMMA TickCreatesNoneStep == ASSUME IInv, TickCreates, ~Accepting, UNCHANGED job PROVE IInv'
<1>0. /\ IInv /\ TypeOK
      /\ tick /\ tick' = FALSE /\ usb' = Nobody /\ usb = Listener /\ admin = "idle"
      /\ ~Accepting /\ UNCHANGED job
      /\ UNCHANGED <<process, listening, build, admin, stored, memory, bundle, engine, ghosts>>
  BY UsbConstants DEF IInv, TickCreates, Locks
<1>1. ThreadTypes'
  BY <1>0 DEF TypeOK, ThreadTypes
<1>2. ProcessTypes' /\ RecordTypes' /\ MemoryTypes' /\ GhostTypes'
  BY <1>0 DEF TypeOK, ProcessTypes, RecordTypes, MemoryTypes, GhostTypes
<1>3. TypeOK'
  BY <1>1, <1>2, Typed
<1>4. Shapes' /\ Alone' /\ Bindable'
  BY <1>0 DEF IInv, Shapes, Alone, Bindable
<1>5. Locks'
  BY <1>0, UsbConstants DEF IInv, TypeOK, Locks
<1>6. Evidence'
  BY <1>0 DEF IInv, Evidence
<1>7. Budget'
  BY <1>0, <1>3, BudgetOn DEF Pending
<1>8. Leased'
  BY <1>0 DEF IInv, Leased, Workers
<1>9. Answered'
  BY <1>0 DEF IInv, Answered
<1> QED BY <1>3, <1>4, <1>5, <1>6, <1>7, <1>8, <1>9 DEF IInv

LEMMA TickCreatesStep == ASSUME IInv, TickCreates PROVE IInv'
BY TickCreatesJobStep, TickCreatesNoneStep DEF TickCreates

\* The administrator is granted another attempt.
LEMMA RecoverReservesStep == ASSUME IInv, NEW o \in BOOLEAN, RecoverReserves(o) PROVE IInv'
<1>0. /\ IInv /\ TypeOK
      /\ phase = "up" /\ build = Nobody /\ usb = Nobody /\ ~tick /\ admin = "idle"
      /\ binding.on /\ bundle = binding.ver /\ binding.rev < MaxRev
      /\ \A i \in Jobs : job[i] = Unused
      /\ recovery.status \notin {"reserved", "running"}
      /\ IF o THEN ~Mine.flashed /\ Mine.status \in {"failed", "interrupted", "reserved"} ELSE Mine.flashed
      /\ build' = Admin /\ usb' = Admin /\ admin' = "create"
      /\ recovery' = [status |-> "reserved", overwrite |-> o, job |-> Nobody]
      /\ receipt' = [receipt EXCEPT ![binding.ver] = Granted(@, o)]
      /\ binding' = [binding EXCEPT !.rev = @ + 1]
      /\ grants' = [grants EXCEPT ![binding.ver] = IF o THEN @ + 1 ELSE @] /\ seen' = TRUE /\ creds' = FALSE
      /\ UNCHANGED <<process, listening, job, tick, bundle, engine, bound, attempts, crashes>>
  BY UsbConstants DEF IInv, RecoverReserves, Locks, Offered, Active
<1>1. ThreadTypes'
  BY <1>0 DEF TypeOK, ThreadTypes
<1>2. RecordTypes'
  BY <1>0, UsbConstants DEF TypeOK, RecordTypes, Bindings, Recoveries, Receipts, Granted
<1>3. MemoryTypes'
  BY <1>0 DEF TypeOK, MemoryTypes
<1>4. GhostTypes'
  BY <1>0 DEF TypeOK, GhostTypes, Bindings
<1>5. ProcessTypes'
  BY <1>0 DEF TypeOK, ProcessTypes
<1>6. TypeOK'
  BY <1>1, <1>2, <1>3, <1>4, <1>5, Typed
<1>7. Shapes'
  BY <1>0 DEF IInv, Shapes
<1>8. Leased'
  BY <1>0 DEF IInv, Leased, Workers
<1>9. Locks'
  BY <1>0, UsbConstants DEF IInv, TypeOK, Locks, Unused
<1>10. Alone'
  BY <1>0 DEF IInv, TypeOK, Alone, Unused, Granted, Bindings, Receipts
<1>11. Bindable'
  BY <1>0 DEF IInv, TypeOK, Bindable, Unused
<1>12. Evidence'
  BY <1>0 DEF IInv, TypeOK, Evidence, Granted, Bindings, Receipts
<1>13. Budget'
  <2> SUFFICES ASSUME NEW v \in Versions
               PROVE  (attempts[v] + (IF Pending(v) THEN 1 ELSE 0) <= Rights(v))'
    BY DEF Budget
  <2>1. attempts[v] \in Nat /\ grants[v] \in Nat
    BY <1>0 DEF TypeOK
  <2>2. attempts[v] <= Rights(v)
    <3>1. ~Pending(v)
      BY <1>0 DEF Pending, Unused
    <3> QED BY <2>1, <3>1 DEF IInv, Budget
  <2>3. CASE v # binding.ver \/ ~o
    <3>1. receipt'[v].status = "reserved" => v # binding.ver
      BY <1>0, <2>3 DEF TypeOK, Granted, Receipts
    <3>2. ~Pending(v)' /\ grants'[v] = grants[v]
      BY <1>0, <2>3, <3>1 DEF TypeOK, Pending, Unused, Bindings
    <3> QED BY <1>0, <2>1, <2>2, <3>2 DEF Rights
  <2>4. CASE v = binding.ver /\ o
    <3>1. grants'[v] = grants[v] + 1
      BY <1>0, <2>4 DEF TypeOK
    <3> QED BY <1>0, <2>1, <2>2, <3>1 DEF Rights
  <2> QED BY <2>3, <2>4
<1>14. Answered'
  <2>1. \A v \in Versions : v # binding.ver => receipt'[v] = receipt[v]
    BY <1>0 DEF TypeOK
  <2>2. \A v \in Versions : receipt[v].status # "reserved" \/ v = binding.ver
    BY <1>0 DEF IInv, Answered, Gives, Unused
  <2> QED BY <1>0, <2>1, <2>2 DEF Answered, TypeOK, Bindings
<1> QED BY <1>6, <1>7, <1>8, <1>9, <1>10, <1>11, <1>12, <1>13, <1>14 DEF IInv

\* Its job is entered, ...
LEMMA RecoverCreatesStep == ASSUME IInv, RecoverCreates PROVE IInv'
<1>0. /\ IInv /\ TypeOK
      /\ phase = "up" /\ admin = "create" /\ admin' = "label" /\ CreateJob("recover", binding, ~recovery.overwrite)
      /\ UNCHANGED <<process, listening, locks, tick, stored, memory, bundle, engine, ghosts>>
  BY DEF IInv, Locks, RecoverCreates
<1>1. PICK i \in Jobs : Accepting /\ Entered(i, "recover", binding, ~recovery.overwrite)
  BY <1>0, Created, NoBindingIs DEF Kinds, TypeOK
<1>2. ThreadTypes'
  BY <1>0, <1>1 DEF TypeOK, ThreadTypes, Entered
<1>3. ProcessTypes' /\ RecordTypes' /\ MemoryTypes' /\ GhostTypes'
  BY <1>0, <1>1 DEF TypeOK, ProcessTypes, RecordTypes, MemoryTypes, GhostTypes
<1>4. TypeOK'
  BY <1>2, <1>3, Typed
<1>5. Shapes'
  BY <1>0, <1>1 DEF IInv, TypeOK, Shapes, Unused, Entered
<1>6. Locks'
  BY <1>0, <1>1 DEF IInv, TypeOK, Locks, Entered
<1>7. Alone'
  <2>1. ~tick
    BY <1>0, UsbConstants DEF IInv, Locks
  <2>2. \A j \in Jobs : Sole(j)' => j = i
    BY <1>0, <1>1 DEF IInv, Alone, Entered
  <2> QED BY <1>0, <1>1, <2>1, <2>2 DEF IInv, Alone, Entered
<1>8. Bindable'
  BY <1>0, <1>1 DEF IInv, TypeOK, Bindable, Unused, Entered
<1>9. Evidence'
  BY <1>0, <1>1 DEF IInv, TypeOK, Evidence
<1>10. Budget'
  <2>1. SUFFICES ASSUME NEW v \in Versions, Pending(v)' PROVE Pending(v)
    BY <1>0, <1>4, BudgetOn
  <2>2. CASE \E j \in Jobs : j # i /\ Installer(j)'
    BY <1>0, <1>1, <2>2 DEF IInv, Alone, Entered
  <2>3. CASE Ver(i)' = v /\ ~job'[i].linkonly
    <3>1. recovery.overwrite
      <4>1. job'[i].linkonly = ~recovery.overwrite
        BY <1>1 DEF Entered
      <4>2. recovery.overwrite \in BOOLEAN
        BY <1>0 DEF TypeOK, Recoveries
      <4> QED BY <2>3, <4>1, <4>2
    <3>2. receipt[v].status = "reserved" /\ binding.ver = v
      BY <1>0, <1>1, <2>1, <2>3 DEF Pending, Entered
    <3> QED BY <1>0, <3>1, <3>2 DEF Pending
  <2> QED BY <1>0, <2>1, <2>2, <2>3 DEF Pending
<1>11. Leased'
  BY <1>0, <1>1, NoWorkers DEF IInv, TypeOK, Leased
<1>12. Answered'
  <2>1. (phase = "up" => \A v \in Versions : receipt[v].status = "reserved" =>
             \/ (tick \/ admin = "create") /\ binding.ver = v
             \/ \E j \in Jobs : Gives(j) /\ Ver(j) = v)'
    BY <1>0, <1>1 DEF IInv, Answered, Alone, Gives, Entered, Unused
  <2> QED BY <1>0, <1>1, <2>1, UsbConstants DEF IInv, Answered, Locks, Entered
<1> QED BY <1>4, <1>5, <1>6, <1>7, <1>8, <1>9, <1>10, <1>11, <1>12 DEF IInv

\* ... then as the owner of the attempt.
LEMMA RecoverLabelsStep == ASSUME IInv, RecoverLabels PROVE IInv'
<1>0. /\ IInv /\ TypeOK
      /\ admin = "label" /\ Released /\ ~tick
      /\ recovery.status = "reserved" /\ build = Admin
      /\ \E i \in Jobs : /\ job[i].kind = "recover" /\ job[i].pc = "start" /\ job[i].for = binding
                           /\ recovery' = [recovery EXCEPT !.job = i]
      /\ UNCHANGED <<process, listening, job, tick, binding, receipt, memory, bundle, engine, ghosts>>
  <2>1. PICK k \in Jobs : job[k].kind = "recover" /\ job[k].pc = "start" /\ job[k].for = binding
    BY DEF IInv, RecoverLabels, Alone
  <2>2. \A i \in Jobs : job[i].kind = "recover" => i = k
    BY <2>1 DEF IInv, Alone
  <2>3. (CHOOSE j \in Jobs : job[j].kind = "recover" /\ job[j].for = binding) = k
    BY <2>1, <2>2
  <2>4. ~tick
    BY UsbConstants DEF IInv, Locks, RecoverLabels
  <2> QED BY <2>1, <2>3, <2>4 DEF IInv, Locks, RecoverLabels
<1>1. ThreadTypes'
  BY <1>0 DEF TypeOK, ThreadTypes, Released
<1>2. RecordTypes'
  BY <1>0 DEF TypeOK, RecordTypes, Recoveries
<1>3. ProcessTypes' /\ MemoryTypes' /\ GhostTypes'
  BY <1>0 DEF TypeOK, ProcessTypes, MemoryTypes, GhostTypes
<1>4. TypeOK'
  BY <1>1, <1>2, <1>3, Typed
<1>5. Shapes' /\ Bindable'
  BY <1>0 DEF IInv, Shapes, Bindable
<1>6. Evidence' /\ Leased'
  BY <1>0 DEF IInv, Evidence, Leased, Workers
<1>7. Locks'
  BY <1>0, UsbConstants DEF IInv, TypeOK, Locks, Released
<1>8. Alone'
  BY <1>0 DEF IInv, TypeOK, Alone, Released
<1>9. Budget'
  <2>1. \A v \in Versions : Pending(v)' => Pending(v)
    BY <1>0 DEF Pending, Released
  <2> QED BY <1>0, <2>1, <1>4, BudgetOn
<1>10. Answered'
  <2>1. PICK i \in Jobs : /\ job[i].kind = "recover" /\ job[i].pc = "start"
                         /\ recovery' = [recovery EXCEPT !.job = i]
    BY <1>0
  <2>2. recovery'.status = "reserved" /\ recovery'.job = i
    BY <1>0, <2>1 DEF TypeOK, Recoveries
  <2>3. \A j \in Jobs : Gives(j) => Gives(j)'
    BY <1>0, <2>1, <2>2 DEF IInv, Alone, Gives
  <2> QED BY <1>0, <2>1, <2>2, <2>3 DEF IInv, Answered, Released
<1> QED BY <1>4, <1>5, <1>6, <1>7, <1>8, <1>9, <1>10 DEF IInv

\* The attempt is given up.
LEMMA RecoverUndoesStep == ASSUME IInv, RecoverUndoes PROVE IInv'
<1>0. /\ IInv /\ TypeOK
      /\ admin # "idle" /\ Released /\ ~tick /\ build = Admin
      /\ recovery' = [recovery EXCEPT !.status = "interrupted"]
      /\ receipt' = [receipt EXCEPT ![binding.ver] = IF recovery.overwrite THEN Interrupted(@) ELSE @]
      /\ UNCHANGED <<process, listening, job, tick, binding, memory, bundle, engine, bound, grants, attempts, crashes>>
  BY UsbConstants DEF IInv, Locks, RecoverUndoes
<1>1. ThreadTypes'
  BY <1>0 DEF TypeOK, ThreadTypes, Released
<1>2. RecordTypes'
  BY <1>0 DEF TypeOK, RecordTypes, Recoveries, Receipts, Bindings, Interrupted
<1>3. ProcessTypes' /\ MemoryTypes' /\ GhostTypes'
  BY <1>0 DEF TypeOK, ProcessTypes, MemoryTypes, GhostTypes
<1>4. TypeOK'
  BY <1>1, <1>2, <1>3, Typed
<1>5. Shapes' /\ Bindable'
  BY <1>0 DEF IInv, Shapes, Bindable
<1>6. Leased'
  BY <1>0 DEF IInv, Leased, Workers
<1>7. Locks'
  BY <1>0, UsbConstants DEF IInv, TypeOK, Locks, Released
<1>8. Alone'
  BY <1>0 DEF IInv, TypeOK, Alone, Released
<1>9. Evidence'
  BY <1>0 DEF IInv, TypeOK, Evidence, Interrupted, Bindings, Receipts
<1>10. Budget'
  <2>1. \A v \in Versions : receipt'[v].status = "reserved" => receipt[v].status = "reserved"
    BY <1>0 DEF TypeOK, Interrupted, Receipts
  <2>2. \A v \in Versions : Pending(v)' => Pending(v)
    BY <1>0, <2>1 DEF Pending, Released
  <2> QED BY <1>0, <2>2, <1>4, BudgetOn
<1>11. Answered'
  <2>1. \A v \in Versions : v # binding.ver => receipt[v].status # "reserved"
    <3>1. phase = "up"
      BY <1>0 DEF IInv, Locks
    <3>2. \A j \in Jobs : Gives(j) => Sole(j)
      BY DEF Gives
    <3>3. \A j \in Jobs : Gives(j) => Ver(j) = binding.ver
      <4>1. CASE admin = "create"
        BY <1>0, <3>2, <4>1 DEF IInv, Alone
      <4>2. CASE admin = "label"
        <5>1. PICK k \in Jobs : job[k].kind = "recover" /\ job[k].for = binding
          BY <1>0, <4>2 DEF IInv, Alone
        <5>2. \A j \in Jobs : Sole(j) => j = k
          BY <1>0, <5>1 DEF IInv, Alone
        <5> QED BY <3>2, <5>1, <5>2
      <4> QED BY <1>0, <4>1, <4>2 DEF TypeOK
    <3> QED BY <1>0, <3>1, <3>3 DEF IInv, Answered
  <2>2. receipt'[binding.ver].status # "reserved"
    BY <1>0 DEF IInv, TypeOK, Alone, Interrupted, Bindings, Receipts
  <2>3. \A v \in Versions : v # binding.ver => receipt'[v] = receipt[v]
    BY <1>0 DEF TypeOK
  <2>4. recovery'.status = "interrupted"
    BY <1>0 DEF TypeOK, Recoveries
  <2> QED BY <1>0, <2>1, <2>2, <2>3, <2>4 DEF Answered
<1> QED BY <1>4, <1>5, <1>6, <1>7, <1>8, <1>9, <1>10, <1>11 DEF IInv

-----------------------------------------------------------------------------
(* The end of the process.                                                 *)

\* The service is asked to close, with no request under way.
LEMMA AskCloseStep == ASSUME IInv, AskClose PROVE IInv'
<1>0. /\ IInv /\ TypeOK
      /\ phase = "up" /\ admin = "idle" /\ phase' = "asked" /\ creds' = FALSE
      /\ UNCHANGED <<complete, callback, lease, listening, job, locks, requests, stored, seen, bundle, engine, ghosts>>
  BY DEF IInv, AskClose
<1>1. ProcessTypes'
  BY <1>0 DEF TypeOK, ProcessTypes
<1>2. MemoryTypes'
  BY <1>0 DEF TypeOK, MemoryTypes
<1>3. ThreadTypes' /\ RecordTypes' /\ GhostTypes'
  BY <1>0 DEF TypeOK, ThreadTypes, RecordTypes, GhostTypes
<1>4. TypeOK'
  BY <1>1, <1>2, <1>3, Typed
<1>5. Shapes' /\ Locks' /\ Alone' /\ Bindable'
  BY <1>0 DEF IInv, Shapes, Locks, Alone, Bindable
<1>6. Evidence' /\ Budget'
  BY <1>0 DEF IInv, Evidence, Budget, Pending, Rights
<1>7. Leased'
  BY <1>0, NoWorkers DEF IInv, TypeOK, Leased
<1>8. Answered'
  BY <1>0 DEF IInv, TypeOK, Answered, Gives
<1> QED BY <1>4, <1>5, <1>6, <1>7, <1>8 DEF IInv

\* It takes no more jobs.
LEMMA LatchStep == ASSUME IInv, Latch PROVE IInv'
<1>0. /\ IInv /\ TypeOK
      /\ phase = "asked" /\ phase' = "closing"
      /\ UNCHANGED <<complete, callback, lease, listening, job, locks, requests, stored, memory, bundle, engine, ghosts>>
  BY DEF IInv, Latch
<1>1. ProcessTypes'
  BY <1>0 DEF TypeOK, ProcessTypes
<1>2. ThreadTypes' /\ RecordTypes' /\ MemoryTypes' /\ GhostTypes'
  BY <1>0 DEF TypeOK, ThreadTypes, RecordTypes, MemoryTypes, GhostTypes
<1>3. TypeOK'
  BY <1>1, <1>2, Typed
<1>4. Shapes' /\ Locks' /\ Alone' /\ Bindable'
  BY <1>0 DEF IInv, Shapes, Locks, Alone, Bindable
<1>5. Evidence' /\ Budget'
  BY <1>0 DEF IInv, Evidence, Budget, Pending, Rights
<1>6. Leased'
  BY <1>0, NoWorkers DEF IInv, TypeOK, Leased
<1>7. Answered'
  BY <1>0 DEF IInv, TypeOK, Answered, Gives
<1> QED BY <1>3, <1>4, <1>5, <1>6, <1>7 DEF IInv

\* The joins end.
LEMMA JoinedStep == ASSUME IInv, Joined PROVE IInv'
<1>0. /\ IInv /\ TypeOK
      /\ phase = "closing" /\ phase' = "halting"
      /\ complete' = (Workers = {}) /\ callback' = IF Workers = {} THEN "none" ELSE "kept"
      /\ UNCHANGED <<lease, listening, job, locks, requests, stored, memory, bundle, engine, ghosts>>
  BY DEF IInv, Joined
<1>1. ProcessTypes'
  BY <1>0 DEF TypeOK, ProcessTypes
<1>2. ThreadTypes' /\ RecordTypes' /\ MemoryTypes' /\ GhostTypes'
  BY <1>0 DEF TypeOK, ThreadTypes, RecordTypes, MemoryTypes, GhostTypes
<1>3. TypeOK'
  BY <1>1, <1>2, Typed
<1>4. Shapes' /\ Locks' /\ Alone' /\ Bindable'
  BY <1>0 DEF IInv, Shapes, Locks, Alone, Bindable
<1>5. Evidence' /\ Budget'
  BY <1>0 DEF IInv, Evidence, Budget, Pending, Rights
<1>6. Leased'
  BY <1>0, NoWorkers DEF IInv, TypeOK, Leased, Workers
<1>7. Answered'
  BY <1>0 DEF IInv, TypeOK, Answered, Gives
<1> QED BY <1>3, <1>4, <1>5, <1>6, <1>7 DEF IInv

\* The cameras stop.
LEMMA CamerasStopStep == ASSUME IInv, CamerasStop PROVE IInv'
<1>0. /\ IInv /\ TypeOK
      /\ phase = "halting" /\ phase' = "cleaned" /\ engine' = FALSE
      /\ lease' = (lease /\ ~complete)
      /\ UNCHANGED <<complete, callback, listening, job, locks, requests, stored, memory, bundle, ghosts>>
  BY DEF IInv, CamerasStop
<1>1. ProcessTypes'
  BY <1>0 DEF TypeOK, ProcessTypes
<1>2. MemoryTypes'
  BY <1>0 DEF TypeOK, MemoryTypes
<1>3. ThreadTypes' /\ RecordTypes' /\ GhostTypes'
  BY <1>0 DEF TypeOK, ThreadTypes, RecordTypes, GhostTypes
<1>4. TypeOK'
  BY <1>1, <1>2, <1>3, Typed
<1>5. Shapes' /\ Locks' /\ Alone' /\ Bindable'
  BY <1>0 DEF IInv, Shapes, Locks, Alone, Bindable
<1>6. Evidence' /\ Budget'
  BY <1>0 DEF IInv, Evidence, Budget, Pending, Rights
<1>7. Leased'
  BY <1>0, NoWorkers DEF IInv, TypeOK, Leased, Workers
<1>8. Answered'
  BY <1>0 DEF IInv, TypeOK, Answered, Gives
<1> QED BY <1>4, <1>5, <1>6, <1>7, <1>8 DEF IInv

\* The last worker has called back.
LEMMA DrainedStep == ASSUME IInv, Drained PROVE IInv'
<1>0. /\ IInv /\ TypeOK
      /\ callback = "called" /\ phase = "cleaned" /\ callback' = "none"
      /\ engine' = FALSE /\ lease' = FALSE
      /\ UNCHANGED <<phase, complete, listening, job, locks, requests, stored, memory, bundle, ghosts>>
  BY DEF IInv, Drained
<1>1. ProcessTypes'
  BY <1>0 DEF TypeOK, ProcessTypes
<1>2. MemoryTypes'
  BY <1>0 DEF TypeOK, MemoryTypes
<1>3. ThreadTypes' /\ RecordTypes' /\ GhostTypes'
  BY <1>0 DEF TypeOK, ThreadTypes, RecordTypes, GhostTypes
<1>4. TypeOK'
  BY <1>1, <1>2, <1>3, Typed
<1>5. Shapes' /\ Locks' /\ Alone' /\ Bindable'
  BY <1>0 DEF IInv, Shapes, Locks, Alone, Bindable
<1>6. Evidence' /\ Budget' /\ Answered'
  BY <1>0 DEF IInv, Evidence, Budget, Pending, Rights, Answered, Gives
<1>7. Leased'
  BY <1>0, NoWorkers DEF IInv, TypeOK, Leased, Workers
<1> QED BY <1>4, <1>5, <1>6, <1>7 DEF IInv

\* A new process interrupts what the last one left.
LEMMA RestartStep == ASSUME IInv, NEW d \in BOOLEAN, Restart(d) PROVE IInv'
<1>0. /\ IInv /\ TypeOK
      /\ crashes < MaxCrashes /\ crashes' = crashes + 1
      /\ phase' = "up" /\ complete' = FALSE /\ callback' = "none" /\ lease' = TRUE
      /\ listening' = binding.on /\ job' = [j \in Jobs |-> Unused]
      /\ build' = Nobody /\ usb' = Nobody /\ tick' = FALSE /\ admin' = "idle"
      /\ receipt' = [v \in Versions |-> Interrupted(receipt[v])]
      /\ recovery' = [recovery EXCEPT !.status = IF @ \in {"reserved", "running"} THEN "interrupted" ELSE @]
      /\ creds' = FALSE /\ seen' = FALSE /\ engine' = FALSE
      /\ UNCHANGED <<binding, bundle, bound, grants, attempts>>
  BY DEF IInv, Restart
<1>1. ProcessTypes'
  BY <1>0 DEF TypeOK, ProcessTypes
<1>2. ThreadTypes'
  BY <1>0, NoBindingIs DEF TypeOK, ThreadTypes, Unused, JobStates, Kinds, Bindings
<1>3. RecordTypes'
  BY <1>0 DEF TypeOK, RecordTypes, Receipts, Recoveries, Interrupted
<1>4. MemoryTypes'
  BY <1>0 DEF TypeOK, MemoryTypes
<1>5. GhostTypes'
  BY <1>0, UsbConstants DEF TypeOK, GhostTypes
<1>6. TypeOK'
  BY <1>1, <1>2, <1>3, <1>4, <1>5, Typed
<1>7. Shapes'
  BY <1>0 DEF IInv, TypeOK, Shapes, Unused
<1>8. Locks'
  BY <1>0 DEF IInv, TypeOK, Locks, Unused
<1>9. Alone'
  BY <1>0 DEF IInv, TypeOK, Alone, Unused
<1>10. Bindable'
  BY <1>0 DEF IInv, TypeOK, Bindable, Unused
<1>11. Evidence'
  BY <1>0 DEF IInv, TypeOK, Evidence, Interrupted, Receipts
<1>12. Budget'
  <2>1. \A v \in Versions : receipt'[v].status # "reserved"
    BY <1>0 DEF TypeOK, Interrupted, Receipts
  <2>2. \A v \in Versions : Pending(v)' => Pending(v)
    BY <2>1 DEF Pending
  <2> QED BY <1>0, <2>2, <1>6, BudgetOn
<1>13. Leased'
  BY <1>0, NoWorkers DEF IInv, TypeOK, Leased
<1>14. Answered'
  <2>1. \A v \in Versions : receipt'[v].status # "reserved"
    BY <1>0 DEF TypeOK, Interrupted, Receipts
  <2>2. recovery'.status \notin {"reserved", "running"}
    BY <1>0 DEF TypeOK, Recoveries
  <2> QED BY <1>0, <2>1, <2>2 DEF Answered
<1> QED BY <1>6, <1>7, <1>8, <1>9, <1>10, <1>11, <1>12, <1>13, <1>14 DEF IInv

-----------------------------------------------------------------------------
(* The invariant.                                                          *)

LEMMA InitOK == Init => IInv
<1> SUFFICES ASSUME Init PROVE IInv
  OBVIOUS
<1>1. /\ phase = "up" /\ complete = FALSE /\ callback = "none" /\ lease = TRUE
      /\ listening = FALSE /\ build = Nobody /\ usb = Nobody /\ tick = FALSE /\ admin = "idle"
      /\ binding = NoBinding /\ recovery = NoRecovery
      /\ creds = FALSE /\ seen = FALSE /\ bundle = Nobody /\ engine = FALSE
      /\ bound = {} /\ crashes = 0
  BY DEF Init
<1>2. job = [j \in Jobs |-> Unused] /\ job \in [Jobs -> JobStates] /\ \A j \in Jobs : job[j] = Unused
  BY NoBindingIs DEF Init, JobStates, Unused, Kinds
<1>3. /\ receipt \in [Versions -> Receipts] /\ \A v \in Versions : receipt[v] = NoReceipt
      /\ grants \in [Versions -> Nat] /\ \A v \in Versions : grants[v] = 0
      /\ attempts \in [Versions -> Nat] /\ \A v \in Versions : attempts[v] = 0
  BY DEF Init, Receipts, NoReceipt
<1>4. ProcessTypes /\ ThreadTypes /\ MemoryTypes
  BY <1>1, <1>2 DEF ProcessTypes, ThreadTypes, MemoryTypes
<1>5. RecordTypes
  BY <1>1, <1>3, NoBindingIs DEF RecordTypes, NoRecovery, Recoveries
<1>6. GhostTypes
  BY <1>1, <1>3, UsbConstants DEF GhostTypes
<1>7. TypeOK
  BY <1>4, <1>5, <1>6, TypeParts
<1>8. Shapes /\ Locks /\ Alone
  BY <1>1, <1>2 DEF Shapes, Locks, Alone, Unused
<1>9. Bindable
  BY <1>1, <1>2 DEF Bindable, Unused, NoBinding
<1>10. Evidence
  BY <1>3 DEF Evidence, NoReceipt
<1>11. Budget
  <2>1. \A v \in Versions : ~Pending(v)
    BY <1>3 DEF Pending, NoReceipt
  <2> QED BY <1>1, <1>3, <2>1 DEF Budget, Rights
<1>12. Leased
  BY <1>1 DEF Leased
<1>13. Answered
  BY <1>1, <1>3 DEF Answered, NoReceipt, NoRecovery
<1> QED BY <1>7, <1>8, <1>9, <1>10, <1>11, <1>12, <1>13 DEF IInv

LEMMA StutterStep == ASSUME IInv, UNCHANGED vars PROVE IInv'
<1>1. UNCHANGED <<process, listening, job, locks, requests, stored, memory, bundle, engine, ghosts>>
  BY DEF vars
<1>2. TypeOK' /\ Shapes' /\ Locks' /\ Alone' /\ Bindable'
  BY <1>1 DEF IInv, TypeOK, Shapes, Locks, Alone, Bindable
<1>3. Evidence' /\ Budget' /\ Leased' /\ Answered'
  BY <1>1 DEF IInv, Evidence, Budget, Pending, Rights, Leased, Workers, Answered, Gives
<1> QED BY <1>2, <1>3 DEF IInv

LEMMA WorkStep == ASSUME IInv, NEW j \in Jobs, Work(j) PROVE IInv'
BY JobEndsStep, BindIdentifyStep, BindSaveStep, BindListensStep, ClaimStep, ToolDoneStep, LinkStep,
   InstallFailsStep, RecoveryRunsStep, RecoverySettlesStep, ManualBuildsStep, ManualBuiltStep
   DEF Work

LEMMA RunStep == ASSUME IInv, Run PROVE IInv'
BY WorkStep, TickCreatesStep, ListenerEndsStep, RecoverCreatesStep, RecoverLabelsStep,
   RecoverUndoesStep, LatchStep, JoinedStep, CamerasStopStep, DrainedStep
   DEF Run, Recovering, Shutdown

LEMMA NextStep == ASSUME IInv, Next PROVE IInv'
BY RunStep, RequestBindStep, DisableStep, RequestManualStep, TickGoneStep, TickDeclinesStep,
   TickReservesStep, RecoverReservesStep, AskCloseStep, RestartStep
   DEF Next

\* The workers, the locks and the saved records always fit together.
THEOREM Invariant == Spec => []IInv
<1>1. Init => IInv
  BY InitOK
<1>2. IInv /\ [Next]_vars => IInv'
  BY NextStep, StutterStep
<1> QED BY <1>1, <1>2, PTL DEF Spec

-----------------------------------------------------------------------------
(* The theorems.                                                           *)

\* A receipt or a recovery that is recorded as under way has somebody who will
\* give its outcome, in whatever order the listener, the recovery and the
\* workers run, fail and die (_recovery_status, _interrupt_recovery).
THEOREM RecordsTrueAlways == Spec => []RecordsTrue
<1>1. IInv => RecordsTrue
  <2> SUFFICES ASSUME IInv PROVE NothingStranded
    BY DEF IInv, RecordsTrue
  <2>1. ASSUME phase = "up", NEW v \in Versions, receipt[v].status = "reserved"
        PROVE  tick \/ admin # "idle" \/ \E j \in Jobs : Installer(j) /\ Ver(j) = v
    BY <2>1 DEF IInv, Answered, Gives
  <2>2. ASSUME recovery.status \in {"reserved", "running"}
        PROVE  admin # "idle" \/ \E j \in Jobs : recovery.job = j /\ job[j].kind = "recover"
    BY <2>2 DEF IInv, Answered
  <2> QED BY <2>1, <2>2 DEF NothingStranded
<1> QED BY <1>1, Invariant, PTL

\* The steps that change a receipt, or start the tool to write.
LEMMA ReceiptKept ==
    ASSUME IInv, [Next]_vars, NEW v \in Versions, receipt[v].flashed
    PROVE  receipt'[v].flashed
<1>1. receipt \in [Versions -> Receipts] /\ \A w \in Versions : receipt[w] \in Receipts
  BY DEF IInv, TypeOK
<1>2. receipt[v].status \in {"flashed", "linked"}
  BY DEF IInv, Evidence
<1>3. CASE UNCHANGED receipt
  BY <1>3
<1>4. CASE TickReserves
  BY <1>1, <1>4 DEF TickReserves, Reserves, Receipts
<1>5. CASE \E j \in Jobs : ToolDone(j)
  BY <1>1, <1>5 DEF ToolDone, Written
<1>6. CASE \E j \in Jobs : Link(j)
  <2>1. PICK j \in Jobs : \/ receipt' = [receipt EXCEPT ![Ver(j)] = [@ EXCEPT !.status = "linked"]]
                         \/ UNCHANGED receipt
    BY <1>6 DEF Link
  <2> QED BY <1>1, <2>1 DEF Receipts
<1>7. CASE \E j \in Jobs : InstallFails(j)
  BY <1>1, <1>7 DEF InstallFails, Failed, Receipts
<1>8. CASE \E o \in BOOLEAN : RecoverReserves(o)
  BY <1>1, <1>8 DEF RecoverReserves, Granted, Receipts
<1>9. CASE RecoverUndoes
  BY <1>1, <1>9 DEF RecoverUndoes, Interrupted, Receipts
<1>10. CASE \E d \in BOOLEAN : Restart(d)
  BY <1>1, <1>2, <1>10 DEF Restart, Interrupted
<1> QED
  BY <1>3, <1>4, <1>5, <1>6, <1>7, <1>8, <1>9, <1>10
  DEF Next, Run, Work, Recovering, Shutdown, vars, RequestBind, Disable, RequestManual, TickGone,
      TickDeclines, AskClose, TickCreates, ListenerEnds, RecoverCreates, RecoverLabels, Latch, Joined,
      CamerasStop, Drained, JobEnds, BindIdentify, BindSave, BindListens, Claim, RecoveryRuns,
      RecoverySettles, ManualBuilds, ManualBuilt

LEMMA NotWrittenAgain ==
    ASSUME IInv, [Next]_vars, NEW v \in Versions, receipt[v].flashed
    PROVE  attempts'[v] = attempts[v]
<1>1. receipt[v].status \in {"flashed", "linked"} /\ attempts \in [Versions -> Nat]
  BY DEF IInv, Evidence, TypeOK
<1>2. CASE UNCHANGED attempts
  BY <1>2
<1>3. CASE \E j \in Jobs : Claim(j)
  BY <1>1, <1>3 DEF Claim, MayFlash, Receipt
<1> QED
  BY <1>2, <1>3
  DEF Next, Run, Work, Recovering, Shutdown, vars, RequestBind, Disable, RequestManual, TickGone,
      TickDeclines, TickReserves, RecoverReserves, AskClose, Restart, TickCreates, ListenerEnds,
      RecoverCreates, RecoverLabels, RecoverUndoes, Latch, Joined, CamerasStop, Drained, JobEnds,
      BindIdentify, BindSave, BindListens, ToolDone, Link, InstallFails, RecoveryRuns,
      RecoverySettles, ManualBuilds, ManualBuilt

\* The tool is started to write a version at most once for having bound the
\* board to it and once for each overwrite granted; and never, once the board
\* is known to hold it, however often the process dies, the board is plugged
\* again or the administrator binds and recovers (_install_worker, recover).
THEOREM WritesAuthorizedAlways == Spec => WritesAuthorized
<1>1. IInv => FlashAuthorized
  <2> SUFFICES ASSUME IInv, NEW v \in Versions
               PROVE  attempts[v] <= (IF v \in bound THEN 1 ELSE 0) + grants[v]
    BY DEF FlashAuthorized
  <2>1. attempts[v] \in Nat /\ grants[v] \in Nat
    BY DEF IInv, TypeOK
  <2>2. attempts[v] + (IF Pending(v) THEN 1 ELSE 0) <= Rights(v)
    BY DEF IInv, Budget
  <2> QED BY <2>1, <2>2 DEF Rights
<1>2. IInv /\ [Next]_vars =>
          [\A v \in Versions : receipt[v].flashed => receipt'[v].flashed /\ attempts'[v] = attempts[v]]_vars
  BY ReceiptKept, NotWrittenAgain
<1> QED BY <1>1, <1>2, Invariant, PTL DEF Spec, WritesAuthorized, NeverReflashed

\* The process gives the mode lease up only when no worker of the service and no
\* camera is left, on every path of the shutdown (lifespan,
\* release_after_firmware_drain).
THEOREM LeaseCoversAlways == Spec => []LeaseCovers
<1>1. IInv => LeaseCovers
  BY DEF IInv, Leased, LeaseCovers
<1> QED BY <1>1, Invariant, PTL
=============================================================================
