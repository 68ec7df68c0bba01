------------------------ MODULE EvidenceStore_proofs ------------------------
(* Safety of EvidenceStore for any number of events, files and faults, from  *)
(* two invariants: IInv about what is linked to what, and Ledger about the   *)
(* rows, files and labels an operation under way still has to settle.        *)
EXTENDS EvidenceStore, FiniteSetTheorems, TLAPS

\* The inductive invariant, part by part.
PurgeRows ==
    /\ \A r \in todo : r.status = "pending_delete"
    /\ row # None => row.status = "pending_delete"
    /\ todo \subseteq media /\ row \notin todo
    /\ holder \notin Purging => row = None /\ todo = {}
ExpiringRow ==
    /\ holder = "cleanup" /\ row # None /\ row \notin media
          => row.event \in Stored
    /\ holder = "pressure" => \A r \in todo \cup ({row} \ {None}) : r.event \in Stored
Writer ==
    /\ Written \subseteq files /\ Written \cap Registered = {}
    /\ discarded \cap (Registered \cup Written) = {}
    /\ holder \notin {"record", "observe"} => made = NoFiles
    /\ holder = "record" => subject \in Movements /\ events[subject] = None
ManualAreCorrections == \A e \in Stored : e \in Movements <=> events[e].root = None
ShownRegistered == current.shot # None => ActiveRow("image", None, current.shot) \in media
DeletedDetached ==
    holder = "delete" =>
        /\ subject \in Stored /\ subject \notin Roots
        /\ subject # current.evidence /\ subject # current.placement
DoomedUnprotected == holder = "cleanup" => doomed \cap Protected = {}
DoomedRetired ==
    /\ holder \notin {"cleanup", "pressure"} => doomed = {}
    /\ \A r \in media : r.event \in doomed => r.status = "pending_delete"
\* Needed for ConfirmedPlacementKnown and for NoRewind.
PlacedWhenSeen == current.placedAt <= current.seen

IInv ==
    /\ TypeOK /\ PurgeRows /\ ExpiringRow /\ Writer
    /\ ManualAreCorrections /\ ShownRegistered /\ DeletedDetached /\ DoomedUnprotected
    /\ DoomedRetired /\ PlacedWhenSeen
    /\ MediaBacked /\ EvidenceLinked /\ RootKept /\ ConfirmedPlacementKnown

-----------------------------------------------------------------------------
\* Media rows under the two changes the code makes to them.
LEMMA TombstoneRows ==
    ASSUME NEW rows, rows \subseteq MediaRows
    PROVE  /\ Tombstone(rows) \subseteq MediaRows
           /\ \A t \in Tombstone(rows) :
                 /\ t.status = "pending_delete"
                 /\ \E r \in rows : t.event = r.event /\ t.blob = r.blob
  BY DEF Tombstone, MediaRows

LEMMA ActiveRows ==
    ASSUME NEW k \in Kinds, NEW e \in Maybe(EventIds), NEW b \in Blobs
    PROVE  /\ ActiveRow(k, e, b) \in MediaRows
           /\ ActiveRow(k, e, b).status = "active"
           /\ ActiveRow(k, e, b).event = e /\ ActiveRow(k, e, b).blob = b
  BY DEF ActiveRow, MediaRows

LEMMA InitIInv == Init => IInv
  <1> SUFFICES ASSUME Init PROVE IInv
    OBVIOUS
  <1>1. TypeOK
    BY BoundsAssumption DEF Init, TypeOK, NoState, NoFiles, CurrentStates, Maybe, Holders
  <1>2. Stored = {} /\ Written = {} /\ Registered = {}
    BY DEF Init, Stored, Written, Registered, NoFiles
  <1>3. PurgeRows /\ ExpiringRow /\ Writer /\ DeletedDetached /\ DoomedUnprotected /\ DoomedRetired
    BY <1>2 DEF Init, PurgeRows, ExpiringRow, Writer, DeletedDetached, DoomedUnprotected,
                DoomedRetired, Purging
  <1>4. /\ ManualAreCorrections /\ ShownRegistered /\ PlacedWhenSeen
        /\ MediaBacked /\ EvidenceLinked /\ RootKept /\ ConfirmedPlacementKnown
    BY <1>2 DEF Init, NoState, ManualAreCorrections, ShownRegistered, MediaBacked, PlacedWhenSeen,
                EvidenceLinked, RootKept, Roots, ManualEvents, ConfirmedPlacementKnown
  <1> QED
    BY <1>1, <1>3, <1>4 DEF IInv

-----------------------------------------------------------------------------
\* Which actions write which variables.
FilesSteps ==
    \/ \E k \in Kinds, b \in Blobs : WriteMedia(k, b)
    \/ SnapshotFail \/ \E b \in discarded : DiscardFile(b)
    \/ \E r \in todo : Unlink(r)
    \/ \E b \in files : ReclaimOrphan(b)
MediaSteps ==
    \/ RecordCommit \/ \E t \in Times, s \in BOOLEAN : SnapshotCommit(t, s)
    \/ RecoverDrop \/ CleanupDrop \/ PressureExpire \/ DeleteDrop
    \/ \E aged \in SUBSET EventIds : CleanupBegin(aged)
    \/ \E r \in media : PressureBegin(r)
    \/ \E e \in EventIds : DeleteBegin(e)
    \/ \E c \in Corrections, t \in Times : Correct(c, t)
EventSteps ==
    \/ RecordCommit \/ RecoverExpire \/ CleanupExpire \/ CleanupEvents
    \/ PressureExpire \/ DeleteEnd
    \/ \E c \in Corrections, t \in Times : Correct(c, t)
    \/ \E e \in EventIds, b \in BOOLEAN : Pin(e, b)
CurrentSteps ==
    \/ RecordCommit
    \/ \E t \in Times, s \in BOOLEAN : Observe(t, s) \/ SnapshotCommit(t, s)
    \/ ObserveMissing
    \/ \E e \in EventIds : DeleteBegin(e)
    \/ \E c \in Corrections, t \in Times : Correct(c, t)
    \/ Forget
PurgeSteps ==
    \/ \E t \in Times, s \in BOOLEAN : SnapshotCommit(t, s)
    \/ SnapshotFail \/ \E r \in todo : SkipShown(r) \/ Unlink(r) \/ UnlinkFails(r)
    \/ RecoverDrop \/ CleanupDrop \/ CleanupExpire \/ PressureExpire \/ DeleteDrop
    \/ \E aged \in SUBSET EventIds : CleanupBegin(aged)
    \/ \E r \in media : PressureBegin(r)
    \/ \E e \in EventIds : DeleteBegin(e)
    \/ Crash

LEMMA FilesWriters == [Next]_vars => FilesSteps \/ UNCHANGED files
  BY DEF Next, Recording, Observing, PurgeStep, Administration, Crash, FilesSteps, vars, writer, tables,
    RecordBegin, RecordCommit, RecordFail, Observe, ObserveMissing, SnapshotBegin, SnapshotCommit,
    SkipShown, UnlinkFails, RecoverExpire, RecoverDrop, RecoverEnd, CleanupBegin, CleanupDrop,
    CleanupExpire, CleanupEvents, PressureBegin, PressureExpire, CleanupEnd, DeleteBegin,
    DeleteDrop, DeleteEnd, CorrectRead, CorrectRepeated, CorrectRefused, CorrectIgnored,
    Correct, Pin, Forget

LEMMA MediaWriters == [Next]_vars => MediaSteps \/ UNCHANGED media
  BY DEF Next, Recording, Observing, PurgeStep, Administration, Crash, MediaSteps, vars, writer, tables,
    RecordBegin, WriteMedia, RecordFail, DiscardFile, Observe, ObserveMissing, SnapshotBegin, SnapshotFail,
    SkipShown, Unlink, UnlinkFails, RecoverExpire, RecoverEnd, CleanupExpire, CleanupEvents,
    ReclaimOrphan, CleanupEnd, DeleteEnd, CorrectRead, CorrectRepeated, CorrectRefused,
    CorrectIgnored, Pin, Forget

LEMMA EventWriters == [Next]_vars => EventSteps \/ UNCHANGED events
  BY DEF Next, Recording, Observing, PurgeStep, Administration, Crash, EventSteps, vars, writer, tables,
    RecordBegin, WriteMedia, RecordFail, DiscardFile, Observe, ObserveMissing, SnapshotBegin, SnapshotCommit,
    SnapshotFail, SkipShown, Unlink, UnlinkFails, RecoverDrop, RecoverEnd, CleanupBegin,
    CleanupDrop, ReclaimOrphan, PressureBegin, CleanupEnd, DeleteBegin, DeleteDrop,
    CorrectRead, CorrectRepeated, CorrectRefused, CorrectIgnored, Forget

LEMMA CurrentWriters == [Next]_vars => CurrentSteps \/ UNCHANGED current
  BY DEF Next, Recording, Observing, PurgeStep, Administration, Crash, CurrentSteps, vars, writer, tables,
    RecordBegin, WriteMedia, RecordFail, DiscardFile, SnapshotBegin, SnapshotFail, SkipShown, Unlink,
    UnlinkFails, RecoverExpire, RecoverDrop, RecoverEnd, CleanupBegin, CleanupDrop,
    CleanupExpire, CleanupEvents, ReclaimOrphan, PressureBegin, PressureExpire, CleanupEnd,
    DeleteDrop, DeleteEnd, CorrectRead, CorrectRepeated, CorrectRefused, CorrectIgnored, Pin

LEMMA PurgeWriters == [Next]_vars => PurgeSteps \/ UNCHANGED <<todo, row>>
  BY DEF Next, Recording, Observing, PurgeStep, Administration, PurgeSteps, vars, writer, purge,
    RecordBegin, WriteMedia, RecordCommit, RecordFail, DiscardFile, Observe, ObserveMissing, SnapshotBegin,
    RecoverExpire, RecoverEnd, CleanupEvents, ReclaimOrphan, CleanupEnd, DeleteEnd,
    CorrectRead, CorrectRepeated, CorrectRefused, CorrectIgnored, Correct, Pin, Forget

LEMMA HolderTypes == [Next]_vars /\ holder \in Holders => holder' \in Holders
  BY DEF Next, Recording, Observing, PurgeStep, Administration, vars, writer, purge, tables, Holders,
    RecordBegin, WriteMedia, RecordCommit, RecordFail, DiscardFile, Observe, ObserveMissing, SnapshotBegin,
    SnapshotCommit, SnapshotFail, SkipShown, Unlink, UnlinkFails, RecoverExpire, RecoverDrop,
    RecoverEnd, CleanupBegin, CleanupDrop, CleanupExpire, CleanupEvents, ReclaimOrphan,
    PressureBegin, PressureExpire, CleanupEnd, DeleteBegin, DeleteDrop, DeleteEnd,
    CorrectRead, CorrectRepeated, CorrectRefused, CorrectIgnored, Correct, Pin, Forget, Crash, Fault

-----------------------------------------------------------------------------
\* Typing of the values the actions build.
LEMMA EventRow ==
    ASSUME TypeOK, NEW e \in Stored
    PROVE  events[e] \in EventRows /\ e \in EventIds
  BY DEF TypeOK, Stored, Maybe

LEMMA ExpiredTypes ==
    ASSUME TypeOK, NEW e \in Stored, NEW k \in Kinds
    PROVE  Expired(e, k) \in [EventIds -> Maybe(EventRows)]
  <1>1. events[e] \in EventRows /\ e \in EventIds
    BY EventRow
  <1>2. None \in Maybe(Blobs)
    BY DEF Maybe
  <1> DEFINE new == [events[e] EXCEPT ![k] = None, !.evidence = "media_expired"]
  <1>3. CASE k = "image"
    <2>1. new \in EventRows
      BY <1>1, <1>2, <1>3 DEF EventRows
    <2> HIDE DEF new
    <2> QED
      BY <2>1, <1>1 DEF TypeOK, Maybe, Expired, new
  <1>4. CASE k = "clip"
    <2>1. new \in EventRows
      BY <1>1, <1>2, <1>4 DEF EventRows
    <2> HIDE DEF new
    <2> QED
      BY <2>1, <1>1 DEF TypeOK, Maybe, Expired, new
  <1> QED
    BY <1>3, <1>4 DEF Kinds

LEMMA MadeRows ==
    ASSUME IInv, holder = "record", \A k \in Kinds : made[k] # None
    PROVE  /\ subject \in EventIds /\ subject \in Movements
           /\ \A k \in Kinds : made[k] \in Blobs /\ made[k] \in files
  BY DEF IInv, TypeOK, Writer, Written, EventIds, Maybe

LEMMA RequestFields ==
    ASSUME TypeOK, request # None
    PROVE  /\ request \in Requests
           /\ request.of \in EventIds
           /\ \A k \in Kinds : request[k] \in Maybe(Blobs)
  <1>1. request \in Requests
    BY DEF TypeOK, Maybe
  <1>2. request["image"] \in Maybe(Blobs) /\ request["clip"] \in Maybe(Blobs) /\ request.of \in EventIds
    BY <1>1 DEF Requests
  <1> QED
    BY <1>1, <1>2 DEF Kinds

LEMMA FilesType == ASSUME IInv, [Next]_vars PROVE files' \subseteq Blobs
  BY FilesWriters DEF IInv, TypeOK, FilesSteps, WriteMedia, DiscardFile, SnapshotFail, Discard,
     Unlink, ReclaimOrphan

LEMMA MediaType == ASSUME IInv, [Next]_vars PROVE media' \subseteq MediaRows
  <1> USE DEF IInv, TypeOK
  <1>1. CASE RecordCommit
    <2>1. \A k \in Kinds : ActiveRow(k, subject, made[k]) \in MediaRows
      BY <1>1, MadeRows, ActiveRows DEF RecordCommit, Maybe
    <2> QED
      BY <1>1, <2>1 DEF RecordCommit
  <1>2. ASSUME NEW t \in Times, NEW s \in BOOLEAN, SnapshotCommit(t, s)
        PROVE  media' \subseteq MediaRows
    <2>1. ActiveRow("image", None, made["image"]) \in MediaRows
      BY <1>2, ActiveRows DEF SnapshotCommit, Maybe, Kinds
    <2>2. Tombstone({r \in MediaOf(None) : r.status = "active"}) \subseteq MediaRows
      BY TombstoneRows DEF MediaOf
    <2> QED
      BY <1>2, <2>1, <2>2 DEF SnapshotCommit
  <1>3. ASSUME NEW aged \in SUBSET EventIds, CleanupBegin(aged)
        PROVE  media' \subseteq MediaRows
    BY <1>3, TombstoneRows DEF CleanupBegin, Superseded, MediaOf
  <1>4. ASSUME NEW r \in media, PressureBegin(r)
        PROVE  media' \subseteq MediaRows
    BY <1>4, TombstoneRows DEF PressureBegin
  <1>5. ASSUME NEW e \in EventIds, DeleteBegin(e)
        PROVE  media' \subseteq MediaRows
    BY <1>5, TombstoneRows DEF DeleteBegin, MediaOf
  <1>6. ASSUME NEW c \in Corrections, NEW t \in Times, Correct(c, t)
        PROVE  media' \subseteq MediaRows
    <2>1. \A k \in {j \in Kinds : request[j] # None} : ActiveRow(k, c, request[k]) \in MediaRows
      BY <1>6, RequestFields, ActiveRows DEF Correct, Maybe, EventIds
    <2> QED
      BY <1>6, <2>1 DEF Correct
  <1>7. CASE RecoverDrop \/ CleanupDrop \/ PressureExpire \/ DeleteDrop
    BY <1>7 DEF RecoverDrop, CleanupDrop, PressureExpire, DeleteDrop
  <1> QED
    BY <1>1, <1>2, <1>3, <1>4, <1>5, <1>6, <1>7, MediaWriters DEF MediaSteps

LEMMA EventsType == ASSUME IInv, [Next]_vars PROVE events' \in [EventIds -> Maybe(EventRows)]
  <1> DEFINE T == [EventIds -> Maybe(EventRows)]
  <1>0. TypeOK /\ events \in T
    BY DEF IInv, TypeOK
  <1>1. CASE RecordCommit
    <2> DEFINE new == [at |-> At[subject],
            final |-> IF subject \in Placed THEN "confirmed_placed" ELSE "position_changed",
            evidence |-> "confirmed", image |-> made["image"], clip |-> made["clip"],
            pinned |-> FALSE, root |-> None]
    <2>1. subject \in EventIds /\ At[subject] \in Times
      BY <1>1, MadeRows, EventsAssumption DEF RecordCommit
    <2>2. {made["image"], made["clip"]} \subseteq Maybe(Blobs) /\ None \in Maybe(Movements)
      BY <1>1, MadeRows DEF RecordCommit, Maybe, Kinds
    <2>3. new \in EventRows
      BY <2>1, <2>2 DEF EventRows
    <2>4. events' = [events EXCEPT ![subject] = new]
      BY <1>1 DEF RecordCommit
    <2> HIDE DEF new
    <2> QED
      BY <2>1, <2>3, <2>4, <1>0 DEF Maybe
  <1>2. CASE RecoverExpire \/ CleanupExpire \/ PressureExpire
    <2>1. row.event \in Stored /\ row.kind \in Kinds
      <3>1. row \in MediaRows
        BY <1>2 DEF IInv, TypeOK, Maybe, RecoverExpire, CleanupExpire, PressureExpire
      <3>2. CASE RecoverExpire
        BY <3>1, <3>2 DEF RecoverExpire, Refers, Stored, MediaRows, Maybe
      <3>3. CASE CleanupExpire \/ PressureExpire
        BY <3>1, <3>3 DEF CleanupExpire, PressureExpire, IInv, ExpiringRow, MediaRows
      <3> QED
        BY <1>2, <3>2, <3>3
    <2>2. events' = Expired(row.event, row.kind)
      BY <1>2 DEF RecoverExpire, CleanupExpire, PressureExpire
    <2> QED
      BY <2>1, <2>2, <1>0, ExpiredTypes
  <1>3. CASE CleanupEvents \/ DeleteEnd
    <2>1. CASE CleanupEvents
      <3>1. events' = [e \in EventIds |-> IF e \in doomed THEN None ELSE events[e]]
        BY <2>1 DEF CleanupEvents
      <3> QED
        BY <3>1, <1>0 DEF Maybe
    <2>2. CASE DeleteEnd
      <3>1. events' = [events EXCEPT ![subject] = None]
        BY <2>2 DEF DeleteEnd
      <3> QED
        BY <3>1, <1>0 DEF Maybe
    <2> QED
      BY <1>3, <2>1, <2>2
  <1>4. ASSUME NEW c \in Corrections, NEW t \in Times, Correct(c, t)
        PROVE  events' \in T
    <2> DEFINE new == [at |-> t, final |-> "confirmed_placed", evidence |-> "confirmed",
            image |-> request.image, clip |-> request.clip,
            pinned |-> FALSE, root |-> RootOf(request.of)]
    <2>1. RootOf(request.of) \in Maybe(Movements)
      <3>1. request.of \in Stored
        BY <1>4 DEF Correct, Verified
      <3>2. events[request.of] \in EventRows
        BY <3>1, <1>0, EventRow
      <3>3. events[request.of].root \in Maybe(Movements)
        BY <3>2 DEF EventRows
      <3>4. request.of \in Movements \/ Manual(request.of)
        BY <3>1 DEF IInv, ManualAreCorrections, Manual
      <3> QED
        BY <3>3, <3>4 DEF RootOf, Maybe
    <2>2. {request["image"], request["clip"]} \subseteq Maybe(Blobs)
      BY <1>0, <1>4, RequestFields DEF Correct, Kinds
    <2>3. new \in EventRows
      BY <2>1, <2>2 DEF EventRows
    <2>4. events' = [events EXCEPT ![c] = new] /\ c \in EventIds
      BY <1>4 DEF Correct, EventIds
    <2> HIDE DEF new
    <2> QED
      BY <2>3, <2>4, <1>0 DEF Maybe
  <1>5. ASSUME NEW e \in EventIds, NEW b \in BOOLEAN, Pin(e, b)
        PROVE  events' \in T
    <2>1. events[e] \in EventRows
      BY <1>0, <1>5, EventRow DEF Pin
    <2> DEFINE new == [events[e] EXCEPT !.pinned = b]
    <2>2. new \in EventRows
      BY <2>1 DEF EventRows
    <2>3. events' = [events EXCEPT ![e] = new]
      BY <1>5 DEF Pin
    <2> HIDE DEF new
    <2> QED
      BY <2>2, <2>3, <1>0 DEF Maybe
  <1> QED
    BY <1>0, <1>1, <1>2, <1>3, <1>4, <1>5, EventWriters DEF EventSteps

LEMMA KeepTypes ==
    ASSUME current \in CurrentStates, NEW new \in CurrentStates
    PROVE  KeepNewerSighting(new) \in CurrentStates /\ KeepNewerPlacement(new) \in CurrentStates
  <1> DEFINE statuses == {"unknown", "confirmed_placed", "last_seen", "missing"}
  <1>1. /\ current.seen \in Times \cup {0} /\ current.status \in statuses
        /\ current.placedAt \in Times \cup {0}
        /\ current.evidence \in Maybe(EventIds) /\ current.placement \in Maybe(EventIds)
    BY DEF CurrentStates
  <1>2. [new EXCEPT !.seen = current.seen, !.status = current.status] \in CurrentStates
    BY <1>1 DEF CurrentStates
  <1>3. [new EXCEPT !.placedAt = current.placedAt, !.evidence = current.evidence,
                    !.placement = current.placement] \in CurrentStates
    BY <1>1 DEF CurrentStates
  <1> QED
    BY <1>2, <1>3 DEF KeepNewerSighting, KeepNewerPlacement

LEMMA KnownPlacementType == ASSUME TypeOK PROVE KnownPlacement \in Maybe(EventIds)
  <1>1. current.evidence \in Maybe(EventIds) /\ current.placement \in Maybe(EventIds)
    BY DEF TypeOK, CurrentStates
  <1> QED
    BY <1>1 DEF KnownPlacement, Summary, Maybe

LEMMA ObservedType ==
    ASSUME TypeOK, NEW t \in Times, NEW s \in BOOLEAN
    PROVE  /\ Observed(t, s) \in CurrentStates
           /\ Observed(t, s).evidence = current.evidence
           /\ Observed(t, s).placement = KnownPlacement
           /\ Observed(t, s).shot = current.shot
  <1>1. current \in CurrentStates
    BY DEF TypeOK
  <1>2. KnownPlacement \in Maybe(EventIds)
    BY KnownPlacementType
  <1> DEFINE status == IF s /\ current.status = "confirmed_placed"
                       THEN "confirmed_placed" ELSE "last_seen"
  <1>3. Observed(t, s) = [current EXCEPT !.seen = t, !.status = status, !.placement = KnownPlacement]
    BY <1>1 DEF Observed, CurrentStates
  <1> QED
    BY <1>1, <1>2, <1>3 DEF CurrentStates

LEMMA DetachedType == ASSUME TypeOK, NEW e \in EventIds PROVE Detached(e) \in CurrentStates
  <1>1. current \in CurrentStates /\ None \in Maybe(EventIds)
    BY DEF TypeOK, Maybe
  <1> DEFINE status == IF current.status = "confirmed_placed" THEN "last_seen" ELSE current.status
  <1>2. Detached(e) =
            IF current.evidence = e
            THEN [current EXCEPT !.evidence = None, !.placedAt = 0, !.placement = None,
                                 !.status = status]
            ELSE IF current.placement = e
                 THEN [current EXCEPT !.placedAt = 0, !.placement = None] ELSE current
    BY <1>1 DEF Detached, CurrentStates
  <1>3. status \in {"unknown", "confirmed_placed", "last_seen", "missing"}
    BY <1>1 DEF CurrentStates
  <1> HIDE DEF status
  <1> QED
    BY <1>1, <1>2, <1>3 DEF CurrentStates

LEMMA ProposedType ==
    ASSUME TypeOK, NEW e \in Movements PROVE Proposed(e) \in CurrentStates
  <1>1. At[e] \in Times /\ e \in Maybe(EventIds)
    BY EventsAssumption DEF Maybe, EventIds
  <1>2. KnownPlacement \in Maybe(EventIds) /\ current \in CurrentStates
    BY KnownPlacementType DEF TypeOK
  <1> QED
    BY <1>1, <1>2 DEF Proposed, CurrentStates

LEMMA CurrentType == ASSUME IInv, [Next]_vars PROVE current' \in CurrentStates
  <1>0. TypeOK /\ current \in CurrentStates
    BY DEF IInv, TypeOK
  <1>1. CASE RecordCommit
    <2>1. Proposed(subject) \in CurrentStates
      BY <1>0, <1>1, MadeRows, ProposedType DEF RecordCommit
    <2> QED
      BY <1>0, <1>1, <2>1, KeepTypes DEF RecordCommit
  <1>2. ASSUME NEW t \in Times, NEW s \in BOOLEAN, Observe(t, s) \/ SnapshotCommit(t, s)
        PROVE  current' \in CurrentStates
    <2>1. CASE Observe(t, s)
      BY <1>0, <2>1, ObservedType DEF Observe
    <2>2. CASE SnapshotCommit(t, s)
      <3> DEFINE seen == Observed(t, s)
      <3>1. seen \in CurrentStates /\ made["image"] \in Maybe(Blobs)
        BY <1>0, ObservedType DEF TypeOK, Kinds
      <3>2. current' = [seen EXCEPT !.shot = made["image"]]
        BY <2>2 DEF SnapshotCommit
      <3> HIDE DEF seen
      <3> QED
        BY <3>1, <3>2 DEF CurrentStates
    <2> QED
      BY <1>2, <2>1, <2>2
  <1>3. CASE ObserveMissing
    BY <1>0, <1>3, KnownPlacementType DEF ObserveMissing, CurrentStates
  <1>4. ASSUME NEW e \in EventIds, DeleteBegin(e) PROVE current' \in CurrentStates
    BY <1>0, <1>4, DetachedType DEF DeleteBegin
  <1>5. ASSUME NEW c \in Corrections, NEW t \in Times, Correct(c, t)
        PROVE  current' \in CurrentStates
    <2>1. c \in Maybe(EventIds)
      BY DEF Maybe, EventIds
    <2> QED
      BY <1>0, <1>5, <2>1 DEF Correct, CurrentStates
  <1>6. CASE Forget
    BY <1>6 DEF Forget, NoState, CurrentStates, Maybe
  <1> QED
    BY <1>0, <1>1, <1>2, <1>3, <1>4, <1>5, <1>6, CurrentWriters DEF CurrentSteps

\* The variables of the operation that runs.
LEMMA OperationTypes ==
    ASSUME IInv, [Next]_vars
    PROVE  /\ subject' \in Maybe(EventIds) /\ made' \in [Kinds -> Maybe(Blobs)]
           /\ discarded' \subseteq Blobs /\ doomed' \subseteq EventIds /\ faults' \in 0..MaxFaults
  <1> USE DEF IInv, TypeOK
  <1>1. subject' \in Maybe(EventIds)
    BY DEF Next, Recording, Observing, PurgeStep, Administration, vars, writer, Maybe, EventIds, Stored,
      RecordBegin, WriteMedia, RecordCommit, RecordFail, DiscardFile, Observe, ObserveMissing, SnapshotBegin,
      SnapshotCommit, SnapshotFail, SkipShown, Unlink, UnlinkFails, RecoverExpire, RecoverDrop,
      RecoverEnd, CleanupBegin, CleanupDrop, CleanupExpire, CleanupEvents, ReclaimOrphan,
      PressureBegin, PressureExpire, CleanupEnd, DeleteBegin, DeleteDrop, DeleteEnd,
      CorrectRead, CorrectRepeated, CorrectRefused, CorrectIgnored, Correct, Pin, Forget, Crash, Fault
  <1>2. made' \in [Kinds -> Maybe(Blobs)]
    BY DEF Next, Recording, Observing, PurgeStep, Administration, vars, writer, Maybe, NoFiles, Discard,
      RecordBegin, WriteMedia, RecordCommit, RecordFail, DiscardFile, Observe, ObserveMissing, SnapshotBegin,
      SnapshotCommit, SnapshotFail, SkipShown, Unlink, UnlinkFails, RecoverExpire, RecoverDrop,
      RecoverEnd, CleanupBegin, CleanupDrop, CleanupExpire, CleanupEvents, ReclaimOrphan,
      PressureBegin, PressureExpire, CleanupEnd, DeleteBegin, DeleteDrop, DeleteEnd,
      CorrectRead, CorrectRepeated, CorrectRefused, CorrectIgnored, Correct, Pin, Forget, Crash, Fault
  <1>3. discarded' \subseteq Blobs
    <2>1. Written \subseteq Blobs
      BY DEF Written, Maybe
    <2>2. discarded' \subseteq discarded \cup Written
      BY DEF Next, Recording, Observing, PurgeStep, Administration, vars, writer,
        RecordBegin, WriteMedia, RecordCommit, RecordFail, DiscardFile, Observe, ObserveMissing, SnapshotBegin,
        SnapshotCommit, SnapshotFail, SkipShown, Unlink, UnlinkFails, RecoverExpire, RecoverDrop,
        RecoverEnd, CleanupBegin, CleanupDrop, CleanupExpire, CleanupEvents, ReclaimOrphan,
        PressureBegin, PressureExpire, CleanupEnd, DeleteBegin, DeleteDrop, DeleteEnd,
        CorrectRead, CorrectRepeated, CorrectRefused, CorrectIgnored, Correct, Pin, Forget, Crash, Fault
    <2> QED
      BY <2>1, <2>2
  <1>4. doomed' \subseteq EventIds
    BY DEF Next, Recording, Observing, PurgeStep, Administration, vars, writer, purge, Excess, Eligible, Stored,
      RecordBegin, WriteMedia, RecordCommit, RecordFail, DiscardFile, Observe, ObserveMissing, SnapshotBegin,
      SnapshotCommit, SnapshotFail, SkipShown, Unlink, UnlinkFails, RecoverExpire, RecoverDrop,
      RecoverEnd, CleanupBegin, CleanupDrop, CleanupExpire, CleanupEvents, ReclaimOrphan,
      PressureBegin, PressureExpire, CleanupEnd, DeleteBegin, DeleteDrop, DeleteEnd,
      CorrectRead, CorrectRepeated, CorrectRefused, CorrectIgnored, Correct, Pin, Forget, Crash, Fault
  <1>5. faults' \in 0..MaxFaults
    <2>1. Fault \/ UNCHANGED faults
      BY DEF Next, Recording, Observing, PurgeStep, Administration, vars, Discard,
        RecordBegin, WriteMedia, RecordCommit, RecordFail, DiscardFile, Observe, ObserveMissing, SnapshotBegin,
        SnapshotCommit, SnapshotFail, SkipShown, Unlink, UnlinkFails, RecoverExpire, RecoverDrop,
        RecoverEnd, CleanupBegin, CleanupDrop, CleanupExpire, CleanupEvents, ReclaimOrphan,
        PressureBegin, PressureExpire, CleanupEnd, DeleteBegin, DeleteDrop, DeleteEnd,
        CorrectRead, CorrectRepeated, CorrectRefused, CorrectIgnored, Correct, Pin, Forget, Crash
    <2>2. CASE Fault
      BY <2>2, BoundsAssumption DEF Fault
    <2> QED
      BY <2>1, <2>2
  <1> QED
    BY <1>1, <1>2, <1>3, <1>4, <1>5

LEMMA PurgeTypes == ASSUME IInv, [Next]_vars PROVE todo' \subseteq MediaRows /\ row' \in Maybe(MediaRows)
  <1>0. /\ todo \subseteq MediaRows /\ media \subseteq MediaRows /\ media' \subseteq MediaRows
        /\ row \in Maybe(MediaRows)
    BY MediaType DEF IInv, TypeOK
  <1>1. ASSUME NEW t \in Times, NEW s \in BOOLEAN, SnapshotCommit(t, s)
        PROVE  todo' \subseteq MediaRows /\ row' = row
    BY <1>0, <1>1 DEF SnapshotCommit
  <1>2. CASE SnapshotFail \/ Crash
    BY <1>0, <1>2 DEF SnapshotFail, Crash, Pending, Maybe
  <1>3. ASSUME NEW r \in todo, SkipShown(r) \/ Unlink(r) \/ UnlinkFails(r)
        PROVE  todo' \subseteq todo /\ row' \in {row, r}
    BY <1>3 DEF SkipShown, Unlink, UnlinkFails
  <1>4. CASE RecoverDrop \/ CleanupDrop \/ CleanupExpire \/ PressureExpire \/ DeleteDrop
    BY <1>0, <1>4 DEF RecoverDrop, CleanupDrop, CleanupExpire, PressureExpire, DeleteDrop, Maybe
  <1>5. ASSUME NEW aged \in SUBSET EventIds, CleanupBegin(aged)
        PROVE  todo' \subseteq MediaRows /\ row' = row
    BY <1>0, <1>5, TombstoneRows DEF CleanupBegin, Superseded, MediaOf
  <1>6. ASSUME NEW r \in media, PressureBegin(r)
        PROVE  todo' \subseteq MediaRows /\ row' = row
    BY <1>0, <1>6, TombstoneRows DEF PressureBegin
  <1>7. ASSUME NEW e \in EventIds, DeleteBegin(e)
        PROVE  todo' \subseteq MediaRows /\ row' = row
    BY <1>0, <1>7, TombstoneRows DEF DeleteBegin, MediaOf
  <1>8. CASE UNCHANGED <<todo, row>>
    BY <1>0, <1>8
  <1> QED
    BY <1>0, <1>1, <1>2, <1>3, <1>4, <1>5, <1>6, <1>7, <1>8, PurgeWriters DEF PurgeSteps, Maybe

LEMMA AdminTypes ==
    ASSUME IInv, [Next]_vars PROVE request' \in Maybe(Requests)
  <1>0. TypeOK /\ request \in Maybe(Requests)
    BY DEF IInv, TypeOK
  <1>1. ASSUME NEW e \in EventIds, NEW b \in BOOLEAN, CorrectRead(e, b)
        PROVE  request' \in Requests
    <2>1. events[e] \in EventRows
      BY <1>0, <1>1, EventRow DEF CorrectRead
    <2>2. events[e].image \in Maybe(Blobs) /\ events[e].clip \in Maybe(Blobs)
      BY <2>1 DEF EventRows
    <2> QED
      BY <1>1, <2>2 DEF CorrectRead, Requests
  <1>2. CASE CorrectRepeated \/ CorrectRefused \/ CorrectIgnored
    BY <1>0, <1>2, RequestFields
    DEF CorrectRepeated, CorrectRefused, CorrectIgnored, AlreadyCurrent, Stored, Maybe
  <1>3. ASSUME NEW c \in Corrections, NEW t \in Times, Correct(c, t)
        PROVE  request' = None
    BY <1>3 DEF Correct
  <1>4. CASE Crash
    BY <1>4 DEF Crash, Maybe
  <1>5. CASE UNCHANGED request
    BY <1>0, <1>5
  <1>6. \/ UNCHANGED request \/ Crash
        \/ \E e \in EventIds, b \in BOOLEAN : CorrectRead(e, b)
        \/ CorrectRepeated \/ CorrectRefused \/ CorrectIgnored
        \/ \E c \in Corrections, t \in Times : Correct(c, t)
    BY DEF Next, Recording, Observing, PurgeStep, Administration, vars,
      RecordBegin, WriteMedia, RecordCommit, RecordFail, DiscardFile, Observe, ObserveMissing, SnapshotBegin,
      SnapshotCommit, SnapshotFail, SkipShown, Unlink, UnlinkFails, RecoverExpire, RecoverDrop,
      RecoverEnd, CleanupBegin, CleanupDrop, CleanupExpire, CleanupEvents, ReclaimOrphan,
      PressureBegin, PressureExpire, CleanupEnd, DeleteBegin, DeleteDrop, DeleteEnd, Pin, Forget
  <1> QED
    BY <1>1, <1>2, <1>3, <1>4, <1>5, <1>6 DEF Maybe

LEMMA TypeStep == ASSUME IInv, [Next]_vars PROVE TypeOK'
  <1>1. holder' \in Holders
    BY HolderTypes DEF IInv, TypeOK
  <1> QED
    BY <1>1, FilesType, MediaType, EventsType, CurrentType, OperationTypes, PurgeTypes, AdminTypes
    DEF TypeOK

-----------------------------------------------------------------------------
\* One lemma per part of the invariant, one case per action that disturbs it.
LEMMA LeavePurging ==
    [Next]_vars /\ holder \in Purging /\ holder' \notin Purging
        => (RecoverEnd \/ CleanupEnd \/ DeleteEnd) /\ UNCHANGED <<todo, row, media>>
  BY DEF Next, Recording, Observing, PurgeStep, Administration, vars, writer, purge, tables, Purging,
    RecordBegin, WriteMedia, RecordCommit, RecordFail, DiscardFile, Observe, ObserveMissing, SnapshotBegin,
    SnapshotCommit, SnapshotFail, SkipShown, Unlink, UnlinkFails, RecoverExpire, RecoverDrop,
    RecoverEnd, CleanupBegin, CleanupDrop, CleanupExpire, CleanupEvents, ReclaimOrphan,
    PressureBegin, PressureExpire, CleanupEnd, DeleteBegin, DeleteDrop, DeleteEnd,
    CorrectRead, CorrectRepeated, CorrectRefused, CorrectIgnored, Correct, Pin, Forget, Crash, Fault

LEMMA PurgeRowsStep == ASSUME IInv, [Next]_vars PROVE PurgeRows'
  <1> DEFINE Rows == /\ \A r \in todo : r.status = "pending_delete"
                     /\ row # None => row.status = "pending_delete"
                     /\ todo \subseteq media /\ row \notin todo
  <1>0. PurgeRows /\ Rows /\ media \subseteq MediaRows /\ None \notin media /\ None \notin media'
    BY NoneAssumption, MediaType DEF IInv, TypeOK, PurgeRows
  <1>1. ASSUME NEW t \in Times, NEW s \in BOOLEAN, SnapshotCommit(t, s) PROVE Rows'
    BY <1>0, <1>1 DEF SnapshotCommit, PurgeRows, Purging
  <1>2. ASSUME SnapshotFail \/ Crash PROVE Rows'
    BY <1>0, <1>2 DEF SnapshotFail, Crash, Pending, PurgeRows, Purging, tables
  <1>3. ASSUME NEW r \in todo, SkipShown(r) \/ Unlink(r) \/ UnlinkFails(r) PROVE Rows'
    BY <1>0, <1>3 DEF SkipShown, Unlink, UnlinkFails, tables
  <1>4. ASSUME RecoverDrop \/ CleanupDrop \/ CleanupExpire \/ PressureExpire \/ DeleteDrop
        PROVE  Rows'
    BY <1>0, <1>4 DEF RecoverDrop, CleanupDrop, CleanupExpire, PressureExpire, DeleteDrop
  <1>5. ASSUME NEW aged \in SUBSET EventIds, CleanupBegin(aged) PROVE Rows'
    <2> DEFINE rows == {r \in media : r.event \in Excess \cup aged} \cup Superseded
    <2>1. rows \subseteq MediaRows
      BY <1>0 DEF Superseded, MediaOf
    <2>2. todo' = Tombstone(rows) /\ todo' \subseteq media' /\ row' = None
      BY <1>0, <1>5 DEF CleanupBegin, PurgeRows, Purging
    <2> HIDE DEF rows
    <2> QED
      BY <1>0, <2>1, <2>2, TombstoneRows
  <1>6. ASSUME NEW r \in media, PressureBegin(r) PROVE Rows'
    <2>1. todo' = Tombstone({r}) /\ todo' \subseteq media' /\ row' = None /\ {r} \subseteq MediaRows
      BY <1>0, <1>6 DEF PressureBegin
    <2> QED
      BY <1>0, <2>1, TombstoneRows
  <1>7. ASSUME NEW e \in EventIds, DeleteBegin(e) PROVE Rows'
    <2>1. todo' = Tombstone(MediaOf(e)) /\ todo' \subseteq media' /\ row' = None
          /\ MediaOf(e) \subseteq MediaRows
      BY <1>0, <1>7 DEF DeleteBegin, PurgeRows, Purging, MediaOf
    <2> QED
      BY <1>0, <2>1, TombstoneRows
  <1>8. ASSUME UNCHANGED <<todo, row>> PROVE Rows'
    <2>1. CASE RecordCommit \/ \E c \in Corrections, t \in Times : Correct(c, t)
      BY <1>0, <1>8, <2>1 DEF RecordCommit, Correct
    <2>2. CASE UNCHANGED media
      BY <1>0, <1>8, <2>2
    <2> QED
      BY <1>1, <1>4, <1>5, <1>6, <1>7, <2>1, <2>2, MediaWriters DEF MediaSteps
  <1>9. Rows'
    BY <1>1, <1>2, <1>3, <1>4, <1>5, <1>6, <1>7, <1>8, PurgeWriters DEF PurgeSteps
  <1>10. holder' \notin Purging => row' = None /\ todo' = {}
    <2>1. CASE holder \in Purging
      BY <2>1, LeavePurging DEF RecoverEnd, CleanupEnd, DeleteEnd
    <2>2. ASSUME holder \notin Purging, holder' \notin Purging PROVE UNCHANGED <<todo, row>>
      BY <2>2, <1>0
      DEF PurgeRows, Next, Recording, Observing, PurgeStep, Administration, vars, writer, purge, Purging,
        RecordBegin, WriteMedia, RecordCommit, RecordFail, DiscardFile, Observe, ObserveMissing, SnapshotBegin,
        SnapshotCommit, SnapshotFail, SkipShown, Unlink, UnlinkFails, RecoverExpire, RecoverDrop,
        RecoverEnd, CleanupBegin, CleanupDrop, CleanupExpire, CleanupEvents, ReclaimOrphan,
        PressureBegin, PressureExpire, CleanupEnd, DeleteBegin, DeleteDrop, DeleteEnd,
        CorrectRead, CorrectRepeated, CorrectRefused, CorrectIgnored, Correct, Pin, Forget, Crash, Fault
    <2> QED
      BY <1>0, <2>1, <2>2 DEF PurgeRows
  <1> QED
    BY <1>9, <1>10 DEF PurgeRows

\* What each change of movement_events does to the set of stored events.
LEMMA ExpiredKeeps ==
    ASSUME TypeOK, NEW e \in Stored, NEW k \in Kinds, events' = Expired(e, k)
    PROVE  /\ Stored' = Stored
           /\ \A f \in Stored : events'[f].root = events[f].root /\ events'[f].pinned = events[f].pinned
  <1>1. events[e] \in EventRows /\ e \in EventIds /\ events \in [EventIds -> Maybe(EventRows)]
    BY EventRow DEF TypeOK
  <1>2. events' \in [EventIds -> Maybe(EventRows)]
    BY ExpiredTypes
  <1> DEFINE new == [events[e] EXCEPT ![k] = None, !.evidence = "media_expired"]
  <1>3. new \in EventRows /\ new.root = events[e].root /\ new.pinned = events[e].pinned
    <2>1. None \in Maybe(Blobs)
      BY DEF Maybe
    <2>2. CASE k = "image"
      BY <1>1, <2>1, <2>2 DEF EventRows
    <2>3. CASE k = "clip"
      BY <1>1, <2>1, <2>3 DEF EventRows
    <2> QED
      BY <2>2, <2>3 DEF Kinds
  <1>4. events' = [events EXCEPT ![e] = new]
    BY DEF Expired
  <1> HIDE DEF new
  <1>5. new # None
    BY <1>3, NoneAssumption
  <1> QED
    BY <1>1, <1>3, <1>4, <1>5 DEF Stored

LEMMA StoredSteps ==
    ASSUME IInv, [Next]_vars
    PROVE  /\ \/ RecordCommit /\ Stored' = Stored \cup {subject}
              \/ CleanupEvents /\ Stored' = Stored \ doomed
              \/ DeleteEnd /\ Stored' = Stored \ {subject}
              \/ \E c \in Corrections, t \in Times : Correct(c, t) /\ Stored' = Stored \cup {c}
              \/ \E e \in EventIds, b \in BOOLEAN : Pin(e, b) /\ Stored' = Stored
              \/ holder \in Purging /\ UNCHANGED <<holder, current, doomed>>
                    /\ Stored' = Stored /\ \A f \in Stored : events'[f].pinned = events[f].pinned
              \/ UNCHANGED events /\ Stored' = Stored
           /\ \A f \in Stored \cap Stored' : events'[f].root = events[f].root
           /\ RecordCommit => Stored' = Stored \cup {subject}
           /\ \A c \in Corrections, t \in Times : Correct(c, t) => Stored' = Stored \cup {c}
  <1>0. TypeOK /\ events \in [EventIds -> Maybe(EventRows)] /\ None \notin EventRows
    BY NoneAssumption DEF IInv, TypeOK
  <1>t. events' \in [EventIds -> Maybe(EventRows)]
    BY EventsType
  <1>1. ASSUME RecordCommit
        PROVE  Stored' = Stored \cup {subject} /\ \A f \in Stored : events'[f].root = events[f].root
    <2> DEFINE new == [at |-> At[subject],
            final |-> IF subject \in Placed THEN "confirmed_placed" ELSE "position_changed",
            evidence |-> "confirmed", image |-> made["image"], clip |-> made["clip"],
            pinned |-> FALSE, root |-> None]
    <2>1. subject \in EventIds /\ events' = [events EXCEPT ![subject] = new]
      BY <1>1, MadeRows DEF RecordCommit
    <2>2. new # None
      <3>1. events'[subject] = new
        BY <2>1, <1>0
      <3>2. At[subject] \in Times
        BY <1>1, MadeRows, EventsAssumption DEF RecordCommit
      <3>3. {made["image"], made["clip"]} \subseteq Maybe(Blobs) /\ None \in Maybe(Movements)
        BY <1>1, MadeRows DEF RecordCommit, Maybe, Kinds
      <3>4. new \in EventRows
        BY <3>2, <3>3 DEF EventRows
      <3> QED
        BY <3>4, <1>0
    <2>3. subject \notin Stored
      BY <1>1 DEF RecordCommit, IInv, Writer, Stored
    <2> HIDE DEF new
    <2> QED
      BY <2>1, <2>2, <2>3, <1>0 DEF Stored
  <1>2. ASSUME NEW c \in Corrections, NEW t \in Times, Correct(c, t)
        PROVE  Stored' = Stored \cup {c} /\ \A f \in Stored : events'[f].root = events[f].root
    <2> DEFINE new == [at |-> t, final |-> "confirmed_placed", evidence |-> "confirmed",
            image |-> request.image, clip |-> request.clip,
            pinned |-> FALSE, root |-> RootOf(request.of)]
    <2>1. c \in EventIds /\ events' = [events EXCEPT ![c] = new] /\ c \notin Stored
      BY <1>2 DEF Correct, EventIds, Stored
    <2>2. new # None
      <3>1. new = events'[c] /\ events'[c] \in Maybe(EventRows)
        BY <2>1, <1>0, <1>t
      <3>2. RootOf(request.of) \in Maybe(EventIds) /\ {request.image, request.clip} \subseteq Maybe(Blobs)
        BY <1>0, <1>2, RequestFields DEF Correct, Verified, Stored, Maybe, Kinds
      <3>3. RootOf(request.of) \in Maybe(Movements)
        BY <1>0, <1>2, EventRow DEF Correct, Verified, RootOf, Manual, IInv, ManualAreCorrections, Maybe, EventRows
      <3>4. new \in EventRows
        BY <3>2, <3>3 DEF EventRows
      <3> QED
        BY <3>4, <1>0
    <2> HIDE DEF new
    <2> QED
      BY <2>1, <2>2, <1>0 DEF Stored
  <1>3. ASSUME NEW e \in EventIds, NEW b \in BOOLEAN, Pin(e, b)
        PROVE  Stored' = Stored /\ \A f \in Stored : events'[f].root = events[f].root
    <2> DEFINE new == [events[e] EXCEPT !.pinned = b]
    <2>1. events[e] \in EventRows /\ e \in Stored /\ events' = [events EXCEPT ![e] = new]
      BY <1>0, <1>3, EventRow DEF Pin
    <2>2. new \in EventRows /\ new.root = events[e].root
      BY <2>1 DEF EventRows
    <2> HIDE DEF new
    <2> QED
      BY <2>1, <2>2, <1>0 DEF Stored
  <1>4. ASSUME RecoverExpire \/ CleanupExpire \/ PressureExpire
        PROVE  /\ Stored' = Stored /\ holder \in Purging /\ UNCHANGED <<holder, current, doomed>>
               /\ \A f \in Stored : events'[f].root = events[f].root /\ events'[f].pinned = events[f].pinned
    <2>0. row \in MediaRows
      BY <1>4 DEF IInv, TypeOK, Maybe, RecoverExpire, CleanupExpire, PressureExpire
    <2>1. row.event \in Stored /\ row.kind \in Kinds
      <3>2. CASE RecoverExpire
        BY <2>0, <3>2 DEF RecoverExpire, Refers, Stored, MediaRows, Maybe
      <3>3. CASE CleanupExpire \/ PressureExpire
        BY <2>0, <3>3 DEF CleanupExpire, PressureExpire, IInv, ExpiringRow, MediaRows
      <3> QED
        BY <1>4, <3>2, <3>3
    <2>2. events' = Expired(row.event, row.kind) /\ UNCHANGED <<holder, current, doomed>> /\ holder \in Purging
      BY <1>4 DEF RecoverExpire, CleanupExpire, PressureExpire, purge, Purging
    <2> QED
      BY <1>0, <2>1, <2>2, ExpiredKeeps
  <1>5. ASSUME CleanupEvents
        PROVE  Stored' = Stored \ doomed /\ \A f \in Stored \ doomed : events'[f] = events[f]
    BY <1>0, <1>5 DEF CleanupEvents, Stored
  <1>6. ASSUME DeleteEnd
        PROVE  Stored' = Stored \ {subject} /\ \A f \in Stored \ {subject} : events'[f] = events[f]
    BY <1>0, <1>6 DEF DeleteEnd, Stored
  <1>7. ASSUME UNCHANGED events
        PROVE  Stored' = Stored /\ \A f \in Stored : events'[f].root = events[f].root
    BY <1>7 DEF Stored
  <1> QED
    BY <1>1, <1>2, <1>3, <1>4, <1>5, <1>6, <1>7, EventWriters DEF EventSteps

LEMMA ManualStep == ASSUME IInv, [Next]_vars PROVE ManualAreCorrections'
  <1>0. \A e \in Stored : e \in Movements <=> events[e].root = None
    BY DEF IInv, ManualAreCorrections
  <1>1. \A e \in Stored \cap Stored' : e \in Movements <=> events'[e].root = None
    BY <1>0, StoredSteps
  <1>2. ASSUME RecordCommit PROVE events'[subject].root = None /\ subject \in Movements
    <2>1. subject \in Movements /\ subject \in EventIds
      BY <1>2, MadeRows DEF RecordCommit
    <2> QED
      BY <1>2, <2>1 DEF RecordCommit, IInv, TypeOK
  <1>3. ASSUME NEW c \in Corrections, NEW t \in Times, Correct(c, t)
        PROVE  events'[c].root # None /\ c \notin Movements
    <2>1. RootOf(request.of) # None
      BY <1>3, EventsAssumption DEF Correct, Verified, Stored, EventIds
    <2>2. c \in EventIds /\ c \notin Movements
      BY EventsAssumption DEF EventIds
    <2> QED
      BY <1>3, <2>1, <2>2 DEF Correct, IInv, TypeOK
  <1> QED
    BY <1>1, <1>2, <1>3, StoredSteps DEF ManualAreCorrections

LEMMA RootKeptStep == ASSUME IInv, [Next]_vars PROVE RootKept'
  <1>0. \A e \in Stored : events[e].root # None => events[e].root \in Stored
    BY DEF IInv, RootKept, Roots, ManualEvents, Manual
  <1> SUFFICES \A e \in Stored' : events'[e].root # None => events'[e].root \in Stored'
    BY DEF RootKept, Roots, ManualEvents, Manual
  <1>1. CASE RecordCommit /\ Stored' = Stored \cup {subject}
    <2>1. events'[subject].root = None
      BY <1>1, MadeRows DEF RecordCommit, IInv, TypeOK
    <2> QED
      BY <1>0, <1>1, <2>1, StoredSteps
  <1>2. CASE CleanupEvents /\ Stored' = Stored \ doomed
    <2>1. doomed \cap Roots = {}
      BY <1>2 DEF CleanupEvents, IInv, DoomedUnprotected, Protected, Dependencies
    <2>2. \A e \in Stored' : events[e].root # None => events[e].root \in Roots
      BY <1>2 DEF Roots, ManualEvents, Manual
    <2> QED
      BY <1>0, <1>2, <2>1, <2>2, StoredSteps
  <1>3. CASE DeleteEnd /\ Stored' = Stored \ {subject}
    <2>1. subject \notin Roots
      BY <1>3 DEF DeleteEnd, IInv, DeletedDetached
    <2>2. \A e \in Stored' : events[e].root # None => events[e].root \in Roots
      BY <1>3 DEF Roots, ManualEvents, Manual
    <2> QED
      BY <1>0, <1>3, <2>1, <2>2, StoredSteps
  <1>4. ASSUME NEW c \in Corrections, NEW t \in Times, Correct(c, t) /\ Stored' = Stored \cup {c}
        PROVE  \A e \in Stored' : events'[e].root # None => events'[e].root \in Stored'
    <2>1. events'[c].root = RootOf(request.of) /\ RootOf(request.of) \in Stored
      BY <1>4 DEF Correct, Verified, IInv, TypeOK, EventIds
    <2> QED
      BY <1>0, <1>4, <2>1, StoredSteps
  <1>5. CASE Stored' = Stored
    BY <1>0, <1>5, StoredSteps
  <1> QED
    BY <1>1, <1>2, <1>3, <1>4, <1>5, StoredSteps

\* Committed evidence and the placement it summarises are stored.
LEMMA KnownPlacementStored ==
    ASSUME TypeOK, EvidenceLinked PROVE KnownPlacement \in Stored \cup {None}
  BY DEF TypeOK, CurrentStates, EvidenceLinked, KnownPlacement, Summary, Stored, Maybe

LEMMA EvidenceLinkedStep == ASSUME IInv, [Next]_vars PROVE EvidenceLinked'
  <1>0. /\ TypeOK /\ current \in CurrentStates /\ KnownPlacement \in Stored \cup {None}
        /\ current.evidence \in Stored \cup {None} /\ current.placement \in Stored \cup {None}
    BY KnownPlacementStored DEF IInv, TypeOK, EvidenceLinked
  <1> SUFFICES {current'.evidence, current'.placement} \subseteq Stored' \cup {None}
    BY DEF EvidenceLinked
  <1>1. CASE RecordCommit /\ Stored' = Stored \cup {subject}
    <2> DEFINE new == KeepNewerSighting(Proposed(subject))
    <2>1. Proposed(subject) \in CurrentStates /\ new \in CurrentStates
      BY <1>0, <1>1, MadeRows, ProposedType, KeepTypes DEF RecordCommit
    <2>2. {Proposed(subject).evidence, Proposed(subject).placement} \subseteq Stored' \cup {None}
      BY <1>0, <1>1 DEF Proposed, CurrentStates
    <2>3. {new.evidence, new.placement} \subseteq Stored' \cup {None}
      BY <2>1, <2>2 DEF KeepNewerSighting, CurrentStates
    <2>4. current' = KeepNewerPlacement(new)
      BY <1>1 DEF RecordCommit
    <2> HIDE DEF new
    <2> QED
      BY <1>0, <1>1, <2>1, <2>3, <2>4 DEF KeepNewerPlacement, CurrentStates
  <1>2. CASE CleanupEvents /\ Stored' = Stored \ doomed
    <2>1. current' = current /\ doomed \cap Protected = {}
      BY <1>2 DEF CleanupEvents, IInv, DoomedUnprotected
    <2>2. {current.evidence, current.placement} \cap Stored \subseteq Protected
      BY <1>0, EventsAssumption DEF Protected, Latest, Dependencies, Stored
    <2> QED
      BY <1>0, <1>2, <2>1, <2>2
  <1>3. CASE DeleteEnd /\ Stored' = Stored \ {subject}
    BY <1>0, <1>3 DEF DeleteEnd, IInv, DeletedDetached
  <1>4. ASSUME NEW c \in Corrections, NEW t \in Times, Correct(c, t) /\ Stored' = Stored \cup {c}
        PROVE  {current'.evidence, current'.placement} \subseteq Stored' \cup {None}
    BY <1>0, <1>4 DEF Correct, CurrentStates
  <1>5. ASSUME Stored' = Stored, CurrentSteps \/ UNCHANGED current
        PROVE  {current'.evidence, current'.placement} \subseteq Stored' \cup {None}
    <2>1. ASSUME NEW t \in Times, NEW s \in BOOLEAN, Observe(t, s) \/ SnapshotCommit(t, s)
          PROVE  {current'.evidence, current'.placement} \subseteq Stored \cup {None}
      <3> DEFINE seen == Observed(t, s)
      <3>1. /\ seen \in CurrentStates
            /\ seen.evidence = current.evidence /\ seen.placement = KnownPlacement
        BY <1>0, ObservedType
      <3>2. current' = seen \/ current' = [seen EXCEPT !.shot = made["image"]]
        BY <2>1 DEF Observe, SnapshotCommit
      <3> HIDE DEF seen
      <3> QED
        BY <1>0, <3>1, <3>2 DEF CurrentStates
    <2>2. CASE ObserveMissing
      BY <1>0, <1>5, <2>2 DEF ObserveMissing, CurrentStates
    <2>3. ASSUME NEW e \in EventIds, DeleteBegin(e)
          PROVE  {current'.evidence, current'.placement} \subseteq Stored \cup {None}
      BY <1>0, <2>3 DEF DeleteBegin, Detached, CurrentStates
    <2>4. CASE Forget
      BY <1>5, <2>4 DEF Forget, NoState
    <2>5. CASE RecordCommit \/ \E c \in Corrections, t \in Times : Correct(c, t)
      BY <1>1, <1>4, <2>5, StoredSteps
    <2>6. CASE UNCHANGED current
      BY <1>0, <1>5, <2>6
    <2> QED
      BY <1>5, <2>1, <2>2, <2>3, <2>4, <2>5, <2>6 DEF CurrentSteps
  <1> QED
    BY <1>1, <1>2, <1>3, <1>4, <1>5, StoredSteps, CurrentWriters

\* Nothing but the purge itself happens to a cleanup or to a deletion.
LEMMA InCleanup ==
    ASSUME IInv, [Next]_vars, holder' = "cleanup"
    PROVE  \/ \E aged \in SUBSET EventIds : CleanupBegin(aged)
           \/ /\ holder = "cleanup" /\ UNCHANGED <<doomed, current>>
              /\ UNCHANGED events \/ CleanupExpire
  BY DEF Next, Recording, Observing, PurgeStep, Administration, vars, writer, purge, tables, Purging,
    RecordBegin, WriteMedia, RecordCommit, RecordFail, DiscardFile, Observe, ObserveMissing, SnapshotBegin,
    SnapshotCommit, SnapshotFail, SkipShown, Unlink, UnlinkFails, RecoverExpire, RecoverDrop,
    RecoverEnd, CleanupBegin, CleanupDrop, CleanupExpire, CleanupEvents, ReclaimOrphan,
    PressureBegin, PressureExpire, CleanupEnd, DeleteBegin, DeleteDrop, DeleteEnd,
    CorrectRead, CorrectRepeated, CorrectRefused, CorrectIgnored, Correct, Pin, Forget, Crash, Fault

LEMMA InDelete ==
    ASSUME IInv, [Next]_vars, holder' = "delete"
    PROVE  \/ \E e \in EventIds : DeleteBegin(e)
           \/ holder = "delete" /\ UNCHANGED <<subject, current, events>>
  BY DEF Next, Recording, Observing, PurgeStep, Administration, vars, writer, purge, tables, Purging,
    RecordBegin, WriteMedia, RecordCommit, RecordFail, DiscardFile, Observe, ObserveMissing, SnapshotBegin,
    SnapshotCommit, SnapshotFail, SkipShown, Unlink, UnlinkFails, RecoverExpire, RecoverDrop,
    RecoverEnd, CleanupBegin, CleanupDrop, CleanupExpire, CleanupEvents, ReclaimOrphan,
    PressureBegin, PressureExpire, CleanupEnd, DeleteBegin, DeleteDrop, DeleteEnd,
    CorrectRead, CorrectRepeated, CorrectRefused, CorrectIgnored, Correct, Pin, Forget, Crash, Fault

LEMMA DoomedUnprotectedStep == ASSUME IInv, [Next]_vars PROVE DoomedUnprotected'
  <1> SUFFICES ASSUME holder' = "cleanup" PROVE doomed' \cap Protected' = {}
    BY DEF DoomedUnprotected
  <1>1. ASSUME NEW aged \in SUBSET EventIds, CleanupBegin(aged)
        PROVE  doomed' \cap Protected' = {}
    <2>1. Protected' = Protected
      BY <1>1 DEF CleanupBegin, Protected, Latest, Pinned, ManualEvents, Manual, Dependencies, Roots, Stored
    <2>2. doomed' \cap Protected = {}
      BY <1>1 DEF CleanupBegin, Excess, Eligible
    <2> QED
      BY <2>1, <2>2
  <1>2. CASE holder = "cleanup" /\ UNCHANGED <<doomed, current, events>>
    <2>1. Protected' = Protected
      BY <1>2 DEF Protected, Latest, Pinned, ManualEvents, Manual, Dependencies, Roots, Stored
    <2> QED
      BY <1>2, <2>1 DEF IInv, DoomedUnprotected
  <1>3. CASE holder = "cleanup" /\ UNCHANGED <<doomed, current>> /\ CleanupExpire
    <2>1. row \in MediaRows /\ row.event \in Stored
      BY <1>3 DEF CleanupExpire, IInv, TypeOK, ExpiringRow, Maybe
    <2>2. /\ Stored' = Stored
          /\ \A f \in Stored : events'[f].root = events[f].root /\ events'[f].pinned = events[f].pinned
      BY <1>3, <2>1, ExpiredKeeps DEF CleanupExpire, IInv, MediaRows
    <2>3. Protected' = Protected
      <3>1. ManualEvents' = ManualEvents /\ Pinned' = Pinned
        BY <2>2 DEF ManualEvents, Manual, Pinned
      <3>2. Roots' = Roots
        BY <2>2, <3>1 DEF Roots, ManualEvents
      <3> QED
        BY <1>3, <2>2, <3>1, <3>2 DEF Protected, Latest, Dependencies
    <2> QED
      BY <1>3, <2>3 DEF IInv, DoomedUnprotected
  <1> QED
    BY <1>1, <1>2, <1>3, InCleanup

LEMMA DeletedDetachedStep == ASSUME IInv, [Next]_vars PROVE DeletedDetached'
  <1> SUFFICES ASSUME holder' = "delete"
               PROVE  /\ subject' \in Stored' /\ subject' \notin Roots'
                      /\ subject' # current'.evidence /\ subject' # current'.placement
    BY DEF DeletedDetached
  <1>1. ASSUME NEW e \in EventIds, DeleteBegin(e)
        PROVE  /\ subject' \in Stored' /\ subject' \notin Roots'
               /\ subject' # current'.evidence /\ subject' # current'.placement
    <2>1. Stored' = Stored /\ Roots' = Roots /\ subject' = e /\ e \in Stored /\ e \notin Roots
      BY <1>1 DEF DeleteBegin, Dependencies, Stored, Roots, ManualEvents, Manual
    <2>2. current' = Detached(e) /\ current \in CurrentStates /\ e # None
      BY <1>1, EventsAssumption DEF DeleteBegin, IInv, TypeOK
    <2>3. e # Detached(e).evidence /\ e # Detached(e).placement
      BY <2>2 DEF Detached, CurrentStates
    <2> QED
      BY <2>1, <2>2, <2>3
  <1>2. CASE holder = "delete" /\ UNCHANGED <<subject, current, events>>
    BY <1>2 DEF IInv, DeletedDetached, Stored, Roots, ManualEvents, Manual
  <1> QED
    BY <1>1, <1>2, InDelete

LEMMA WriterStep == ASSUME IInv, [Next]_vars PROVE Writer'
  <1> DEFINE Clean == discarded \cap (Registered \cup Written) = {}
  <1>1. /\ Written \subseteq files /\ Written \cap Registered = {} /\ Clean
        /\ holder \notin {"record", "observe"} => made = NoFiles
        /\ holder = "record" => subject \in Movements /\ events[subject] = None
        /\ made \in [Kinds -> Maybe(Blobs)]
    BY DEF IInv, Writer, TypeOK
  <1>2. NoFiles = [k \in Kinds |-> None] /\ (made' = NoFiles => Written' = {})
    BY DEF NoFiles, Written
  <1>3. ASSUME NEW k \in Kinds, NEW b \in Blobs, WriteMedia(k, b) PROVE Writer'
    <2>1. Written' \subseteq Written \cup {b} /\ b \notin Registered /\ b \notin discarded
      BY <1>1, <1>3 DEF WriteMedia, Written, Unused
    <2>2. files' = files \cup {b} /\ UNCHANGED <<holder, subject, tables, discarded>>
      BY <1>3 DEF WriteMedia
    <2>3. Registered' = Registered /\ events' = events
      BY <2>2 DEF Registered, tables
    <2>4. holder \in {"record", "observe"}
      BY <1>3 DEF WriteMedia
    <2> QED
      BY <1>1, <2>1, <2>2, <2>3, <2>4 DEF Writer
  <1>4. ASSUME NEW e \in Movements, RecordBegin(e) PROVE Writer'
    BY <1>1, <1>2, <1>4 DEF RecordBegin, Writer, Written, Registered, tables, writer
  <1>5. \* Written files are registered by the transaction that takes them from made.
        Registered' \subseteq Registered \cup Written
    <2>1. \A rows \in SUBSET MediaRows : \A t \in Tombstone(rows) : \E r \in rows : t.blob = r.blob
      BY TombstoneRows
    <2>2. CASE RecordCommit
      BY <2>2, MadeRows DEF RecordCommit, Registered, ActiveRow, Written
    <2>3. ASSUME NEW t \in Times, NEW s \in BOOLEAN, SnapshotCommit(t, s)
          PROVE  Registered' \subseteq Registered \cup Written
      <3> DEFINE old == {r \in MediaOf(None) : r.status = "active"}
      <3>1. media' = (media \ old) \cup Tombstone(old) \cup {ActiveRow("image", None, made["image"])}
        BY <2>3 DEF SnapshotCommit
      <3>2. old \subseteq media /\ media \subseteq MediaRows
        BY DEF MediaOf, IInv, TypeOK
      <3>3. ActiveRow("image", None, made["image"]).blob \in Written
        BY <2>3 DEF SnapshotCommit, ActiveRow, Written, Kinds
      <3> HIDE DEF old
      <3>4. \A t2 \in Tombstone(old) : t2.blob \in Registered
        BY <2>1, <3>2 DEF Registered
      <3> QED
        BY <3>1, <3>2, <3>3, <3>4 DEF Registered
    <2>4. ASSUME NEW aged \in SUBSET EventIds, CleanupBegin(aged)
          PROVE  Registered' \subseteq Registered
      <3> DEFINE rows == {r \in media : r.event \in Excess \cup aged} \cup Superseded
      <3>1. media' = (media \ rows) \cup Tombstone(rows)
        BY <2>4 DEF CleanupBegin
      <3>2. rows \subseteq media /\ media \subseteq MediaRows
        BY DEF Superseded, MediaOf, IInv, TypeOK
      <3> HIDE DEF rows
      <3> QED
        BY <2>1, <3>1, <3>2 DEF Registered
    <2>5. ASSUME NEW r \in media, PressureBegin(r) PROVE Registered' \subseteq Registered
      <3>1. media' = (media \ {r}) \cup Tombstone({r}) /\ {r} \subseteq MediaRows
        BY <2>5 DEF PressureBegin, IInv, TypeOK
      <3> QED
        BY <2>1, <3>1 DEF Registered
    <2>6. ASSUME NEW e \in EventIds, DeleteBegin(e) PROVE Registered' \subseteq Registered
      <3> DEFINE rows == MediaOf(e)
      <3>1. media' = (media \ rows) \cup Tombstone(rows) /\ rows \subseteq media /\ rows \subseteq MediaRows
        BY <2>6 DEF DeleteBegin, MediaOf, IInv, TypeOK
      <3> HIDE DEF rows
      <3> QED
        BY <2>1, <3>1 DEF Registered
    <2>7. ASSUME NEW c \in Corrections, NEW t \in Times, Correct(c, t)
          PROVE  Registered' \subseteq Registered
      <3>1. \A k \in {j \in Kinds : request[j] # None} :
               \E r \in media : r.blob = request[k]
        <4>1. \A k \in Kinds : ActiveRow(k, RootOf(request.of), request[k]).blob = request[k]
          BY DEF ActiveRow
        <4> QED
          BY <2>7, <4>1 DEF Correct, Verified, Kinds
      <3> QED
        BY <2>7, <3>1 DEF Correct, Registered, ActiveRow
    <2>8. CASE RecoverDrop \/ CleanupDrop \/ PressureExpire \/ DeleteDrop \/ UNCHANGED media
      BY <2>8 DEF RecoverDrop, CleanupDrop, PressureExpire, DeleteDrop, Registered
    <2> QED
      BY <2>2, <2>3, <2>4, <2>5, <2>6, <2>7, <2>8, MediaWriters DEF MediaSteps
  <1>6. ASSUME made' = NoFiles, holder' # "record", discarded' \subseteq discarded
        PROVE Writer'
    BY <1>1, <1>2, <1>5, <1>6 DEF Writer
  <1>7. CASE RecordFail
    <2>1. Registered' = Registered
      BY <1>7 DEF RecordFail, Registered, tables
    <2> QED
      BY <1>1, <1>2, <1>7, <2>1 DEF RecordFail, Writer
  <1>8. ASSUME NEW b \in discarded, DiscardFile(b) PROVE Writer'
    <2>1. Registered' = Registered /\ Written' = Written /\ events' = events
      BY <1>8 DEF DiscardFile, Registered, Written, tables
    <2> QED
      BY <1>1, <1>8, <2>1 DEF DiscardFile, Writer
  <1>9. CASE UNCHANGED <<made, discarded, files, media, holder, subject, events>>
    BY <1>1, <1>9 DEF Writer, Written, Registered
  <1>10. \/ \E k \in Kinds, b \in Blobs : WriteMedia(k, b)
         \/ \E e \in Movements : RecordBegin(e)
         \/ \E b \in discarded : DiscardFile(b)
         \/ RecordFail
         \/ made' = NoFiles /\ holder' # "record" /\ discarded' \subseteq discarded
         \/ UNCHANGED <<made, discarded, files, media, holder, subject, events>>
    BY <1>1, ZenonT(60)
    DEF Next, Recording, Observing, PurgeStep, Administration, vars, writer, purge, tables,
      Purging, RecordCommit, Observe, ObserveMissing, SnapshotBegin, Discard,
      SnapshotCommit, SnapshotFail, SkipShown, Unlink, UnlinkFails, RecoverExpire, RecoverDrop,
      RecoverEnd, CleanupBegin, CleanupDrop, CleanupExpire, CleanupEvents, ReclaimOrphan,
      PressureBegin, PressureExpire, CleanupEnd, DeleteBegin, DeleteDrop, DeleteEnd,
      CorrectRead, CorrectRepeated, CorrectRefused, CorrectIgnored, Correct, Pin, Forget, Crash, Fault
  <1> QED
    BY <1>3, <1>4, <1>6, <1>7, <1>8, <1>9, <1>10

LEMMA DoomedRetiredStep == ASSUME IInv, [Next]_vars PROVE DoomedRetired'
  <1> DEFINE Retired == \A r \in media : r.event \in doomed => r.status = "pending_delete"
  <1>0. DoomedRetired /\ Retired /\ media \subseteq MediaRows
    BY DEF IInv, DoomedRetired, TypeOK
  <1>1. holder' \notin {"cleanup", "pressure"} => doomed' = {}
    BY <1>0
    DEF DoomedRetired, Next, Recording, Observing, PurgeStep, Administration, vars, writer, purge, tables,
      RecordBegin, WriteMedia, RecordCommit, RecordFail, DiscardFile, Observe, ObserveMissing, SnapshotBegin,
      SnapshotCommit, SnapshotFail, SkipShown, Unlink, UnlinkFails, RecoverExpire, RecoverDrop,
      RecoverEnd, CleanupBegin, CleanupDrop, CleanupExpire, CleanupEvents, ReclaimOrphan,
      PressureBegin, PressureExpire, CleanupEnd, DeleteBegin, DeleteDrop, DeleteEnd,
      CorrectRead, CorrectRepeated, CorrectRefused, CorrectIgnored, Correct, Pin, Forget, Crash, Fault
  <1>2. ASSUME holder' \in {"cleanup", "pressure"} PROVE Retired'
    <2>1. ASSUME NEW aged \in SUBSET EventIds, CleanupBegin(aged) PROVE Retired'
      <3> DEFINE rows == {r \in media : r.event \in Excess \cup aged} \cup Superseded
      <3>1. media' = (media \ rows) \cup Tombstone(rows) /\ doomed' = Excess
        BY <2>1 DEF CleanupBegin
      <3>2. rows \subseteq MediaRows /\ \A r \in media \ rows : r.event \notin Excess
        BY <1>0 DEF Superseded, MediaOf
      <3> HIDE DEF rows
      <3> QED
        BY <3>1, <3>2, TombstoneRows
    <2>2. ASSUME NEW r \in media, PressureBegin(r) PROVE Retired'
      BY <1>0, <2>2, TombstoneRows DEF PressureBegin, purge
    <2>3. CASE CleanupDrop \/ PressureExpire
      BY <1>0, <2>3 DEF CleanupDrop, PressureExpire, purge
    <2>4. CASE UNCHANGED <<media, doomed>>
      BY <1>0, <2>4
    <2>5. \/ \E aged \in SUBSET EventIds : CleanupBegin(aged)
          \/ \E r \in media : PressureBegin(r)
          \/ CleanupDrop \/ PressureExpire \/ UNCHANGED <<media, doomed>>
      BY <1>2
      DEF Next, Recording, Observing, PurgeStep, Administration, vars, writer, purge, tables,
        RecordBegin, WriteMedia, RecordCommit, RecordFail, DiscardFile, Observe, ObserveMissing, SnapshotBegin,
        SnapshotCommit, SnapshotFail, SkipShown, Unlink, UnlinkFails, RecoverExpire, RecoverDrop,
        RecoverEnd, CleanupExpire, CleanupEvents, ReclaimOrphan, CleanupEnd, DeleteBegin, DeleteDrop,
        DeleteEnd, CorrectRead, CorrectRepeated, CorrectRefused, CorrectIgnored, Correct, Pin,
        Forget, Crash
    <2> QED
      BY <2>1, <2>2, <2>3, <2>4, <2>5
  <1>3. doomed' = {} => Retired'
    OBVIOUS
  <1> QED
    BY <1>1, <1>2, <1>3 DEF DoomedRetired

LEMMA ExpiringRowStep == ASSUME IInv, [Next]_vars PROVE ExpiringRow'
  <1>0. /\ ExpiringRow /\ todo \subseteq media /\ media \subseteq MediaRows
        /\ holder \notin Purging => row = None /\ todo = {}
    BY DEF IInv, PurgeRows, TypeOK
  <1>1. ASSUME holder' = "cleanup", row' # None, row' \notin media' PROVE row'.event \in Stored'
    <2>1. ASSUME NEW aged \in SUBSET EventIds, CleanupBegin(aged) PROVE FALSE
      BY <1>0, <1>1, <2>1 DEF CleanupBegin, Purging
    <2>2. ASSUME NEW r \in todo, Unlink(r) PROVE FALSE
      BY <1>0, <1>1, <2>2 DEF Unlink, tables
    <2>3. CASE CleanupDrop
      <3>1. row \in MediaRows /\ row'.event # None /\ events[row'.event] # None /\ row' = row
        BY <1>0, <1>1, <2>3 DEF CleanupDrop
      <3> QED
        BY <2>3, <3>1 DEF CleanupDrop, Stored, MediaRows, Maybe
    <2>4. CASE holder = "cleanup" /\ UNCHANGED <<row, media, events>>
      BY <1>0, <1>1, <2>4 DEF ExpiringRow, Stored
    <2>5. \/ \E aged \in SUBSET EventIds : CleanupBegin(aged)
          \/ \E r \in todo : Unlink(r)
          \/ CleanupDrop
          \/ holder = "cleanup" /\ UNCHANGED <<row, media, events>>
      BY <1>1
      DEF Next, Recording, Observing, PurgeStep, Administration, vars, writer, purge, tables,
        RecordBegin, WriteMedia, RecordCommit, RecordFail, DiscardFile, Observe, ObserveMissing, SnapshotBegin,
        SnapshotCommit, SnapshotFail, SkipShown, UnlinkFails, RecoverExpire, RecoverDrop,
        RecoverEnd, CleanupExpire, CleanupEvents, ReclaimOrphan, PressureBegin, PressureExpire,
        CleanupEnd, DeleteBegin, DeleteDrop, DeleteEnd, CorrectRead, CorrectRepeated,
        CorrectRefused, CorrectIgnored, Correct, Pin, Forget, Crash, Fault
    <2> QED
      BY <2>1, <2>2, <2>3, <2>4, <2>5
  <1>2. ASSUME holder' = "pressure"
        PROVE  \A r \in todo' \cup ({row'} \ {None}) : r.event \in Stored'
    <2>1. CASE CleanupEvents
      BY <1>0, <2>1 DEF CleanupEvents, purge
    <2>2. ASSUME NEW r \in media, PressureBegin(r)
          PROVE  \A s \in todo' \cup ({row'} \ {None}) : s.event \in Stored'
      BY <1>0, <2>2, TombstoneRows DEF PressureBegin, Stored
    <2>3. CASE PressureExpire
      <3>1. row' = None /\ row \in MediaRows /\ row.event \in Stored /\ todo' = todo
        BY <1>0, <2>3 DEF PressureExpire, ExpiringRow, IInv, TypeOK, Maybe
      <3>2. Stored' = Stored
        BY <2>3, <3>1, ExpiredKeeps DEF PressureExpire, IInv, MediaRows
      <3> QED
        BY <1>0, <2>3, <3>1, <3>2 DEF PressureExpire, ExpiringRow
    <2>4. CASE holder = "pressure" /\ events' = events /\ todo' \subseteq todo /\ row' \in todo \cup {row}
      BY <1>0, <2>4 DEF ExpiringRow, Stored
    <2>5. \/ CleanupEvents \/ PressureExpire \/ \E r \in media : PressureBegin(r)
          \/ holder = "pressure" /\ events' = events /\ todo' \subseteq todo /\ row' \in todo \cup {row}
      BY <1>2
      DEF Next, Recording, Observing, PurgeStep, Administration, vars, writer, purge, tables,
        RecordBegin, WriteMedia, RecordCommit, RecordFail, DiscardFile, Observe, ObserveMissing, SnapshotBegin,
        SnapshotCommit, SnapshotFail, SkipShown, Unlink, UnlinkFails, RecoverExpire, RecoverDrop,
        RecoverEnd, CleanupBegin, CleanupDrop, CleanupExpire, ReclaimOrphan, CleanupEnd,
        DeleteBegin, DeleteDrop, DeleteEnd, CorrectRead, CorrectRepeated, CorrectRefused,
        CorrectIgnored, Correct, Pin, Forget, Crash, Fault
    <2> QED
      BY <2>1, <2>2, <2>3, <2>4, <2>5
  <1> QED
    BY <1>1, <1>2 DEF ExpiringRow

LEMMA ShownRegisteredStep == ASSUME IInv, [Next]_vars PROVE ShownRegistered'
  <1> DEFINE shown == ActiveRow("image", None, current.shot)
  <1>0. /\ current \in CurrentStates /\ media \subseteq MediaRows /\ ShownRegistered
        /\ None \notin EventIds /\ \A e \in Stored : e # None
    BY EventsAssumption DEF IInv, TypeOK, Stored
  <1>1. shown.status = "active" /\ shown.event = None /\ shown.blob = current.shot
    BY DEF ActiveRow
  <1>2. ASSUME NEW t \in Times, NEW s \in BOOLEAN, SnapshotCommit(t, s) PROVE ShownRegistered'
    <2> DEFINE seen == Observed(t, s)
    <2>1. seen \in CurrentStates /\ current' = [seen EXCEPT !.shot = made["image"]]
      BY <1>2, ObservedType DEF SnapshotCommit, IInv
    <2> HIDE DEF seen
    <2>2. current'.shot = made["image"]
      BY <2>1 DEF CurrentStates
    <2> QED
      BY <1>2, <2>2 DEF SnapshotCommit, ShownRegistered
  <1>3. ASSUME ~\E t \in Times, s \in BOOLEAN : SnapshotCommit(t, s)
        PROVE  current'.shot \in {current.shot, None}
    <2>1. CASE RecordCommit
      <3>1. /\ Proposed(subject) \in CurrentStates
            /\ KeepNewerSighting(Proposed(subject)) \in CurrentStates
        BY <1>0, <2>1, MadeRows, ProposedType, KeepTypes DEF RecordCommit, IInv
      <3>2. Proposed(subject).shot = current.shot
        BY <1>0 DEF Proposed, CurrentStates
      <3>3. KeepNewerSighting(Proposed(subject)).shot = current.shot
        BY <3>1, <3>2 DEF KeepNewerSighting, CurrentStates
      <3> QED
        BY <2>1, <3>1, <3>3 DEF RecordCommit, KeepNewerPlacement, CurrentStates
    <2>2. ASSUME NEW t \in Times, NEW s \in BOOLEAN, Observe(t, s) PROVE current'.shot = current.shot
      BY <2>2, ObservedType DEF Observe, IInv
    <2>3. CASE ObserveMissing
      BY <1>0, <2>3 DEF ObserveMissing, CurrentStates
    <2>4. ASSUME NEW e \in EventIds, DeleteBegin(e) PROVE current'.shot = current.shot
      BY <1>0, <2>4 DEF DeleteBegin, Detached, CurrentStates
    <2>5. ASSUME NEW c \in Corrections, NEW t \in Times, Correct(c, t) PROVE current'.shot = current.shot
      BY <1>0, <2>5 DEF Correct, CurrentStates
    <2>6. CASE Forget
      BY <2>6 DEF Forget, NoState
    <2> QED
      BY <1>3, <2>1, <2>2, <2>3, <2>4, <2>5, <2>6, CurrentWriters DEF CurrentSteps
  <1>4. ASSUME ~\E t \in Times, s \in BOOLEAN : SnapshotCommit(t, s), shown \in media
        PROVE  shown \in media'
    <2>1. CASE RecordCommit \/ \E c \in Corrections, t \in Times : Correct(c, t)
      BY <1>4, <2>1 DEF RecordCommit, Correct
    <2>2. CASE RecoverDrop \/ CleanupDrop \/ PressureExpire \/ DeleteDrop
      <3>1. row # shown
        BY <1>0, <1>1, <2>2, NoneAssumption
        DEF RecoverDrop, CleanupDrop, PressureExpire, DeleteDrop, IInv, PurgeRows
      <3> QED
        BY <1>4, <2>2, <3>1 DEF RecoverDrop, CleanupDrop, PressureExpire, DeleteDrop
    <2>3. ASSUME NEW aged \in SUBSET EventIds, CleanupBegin(aged) PROVE shown \in media'
      <3>1. aged \cup Excess \subseteq EventIds
        BY DEF Excess, Eligible, Stored
      <3>2. shown \notin Superseded /\ shown.event \notin aged \cup Excess
        BY <1>0, <1>1, <3>1 DEF Superseded
      <3> QED
        BY <1>4, <2>3, <3>2 DEF CleanupBegin
    <2>4. ASSUME NEW r \in media, PressureBegin(r) PROVE shown \in media'
      BY <1>0, <1>1, <1>4, <2>4 DEF PressureBegin
    <2>5. ASSUME NEW e \in EventIds, DeleteBegin(e) PROVE shown \in media'
      BY <1>0, <1>1, <1>4, <2>5 DEF DeleteBegin, MediaOf
    <2>6. CASE UNCHANGED media
      BY <1>4, <2>6
    <2> QED
      BY <1>4, <2>1, <2>2, <2>3, <2>4, <2>5, <2>6, MediaWriters DEF MediaSteps
  <1> QED
    BY <1>0, <1>2, <1>3, <1>4 DEF ShownRegistered

LEMMA MediaBackedStep == ASSUME IInv, [Next]_vars PROVE MediaBacked'
  <1>0. /\ \A r \in media : r.status = "active" => r.blob \in files
        /\ media \subseteq MediaRows /\ Written \subseteq files /\ Written \cap Registered = {}
    BY DEF IInv, MediaBacked, TypeOK, Writer
  <1>1. ASSUME UNCHANGED media PROVE MediaBacked'
    <2>1. CASE \E k \in Kinds, b \in Blobs : WriteMedia(k, b)
      BY <1>0, <1>1, <2>1 DEF WriteMedia, MediaBacked
    <2>2. CASE SnapshotFail \/ \E b \in discarded : DiscardFile(b)
      <3>1. files \ (Written \cup discarded) \subseteq files'
        BY <2>2 DEF SnapshotFail, Discard, DiscardFile
      <3>2. discarded \cap Registered = {}
        BY DEF IInv, Writer
      <3> QED
        BY <1>0, <1>1, <3>1, <3>2 DEF MediaBacked, Registered
    <2>3. ASSUME NEW r \in todo, Unlink(r) PROVE MediaBacked'
      <3>1. Shared(r) => files' = files
        BY <2>3 DEF Unlink
      <3>2. ~Shared(r) => files' = files \ {r.blob} /\ \A s \in media : s.status = "active" => s.blob # r.blob
        BY <2>3 DEF Unlink, Shared
      <3> QED
        BY <1>0, <1>1, <3>1, <3>2 DEF MediaBacked
    <2>4. ASSUME NEW b \in files, ReclaimOrphan(b) PROVE MediaBacked'
      <3>1. files' = files \ {b} /\ \A s \in media : s.event \notin doomed => s.blob # b
        BY <2>4 DEF ReclaimOrphan, Referenced
      <3>2. \A s \in media : s.status = "active" => s.event \notin doomed
        BY DEF IInv, DoomedRetired
      <3> QED
        BY <1>0, <1>1, <3>1, <3>2 DEF MediaBacked
    <2>5. CASE UNCHANGED files
      BY <1>0, <1>1, <2>5 DEF MediaBacked
    <2> QED
      BY <2>1, <2>2, <2>3, <2>4, <2>5, FilesWriters DEF FilesSteps
  <1>2. ASSUME ~UNCHANGED media PROVE UNCHANGED files
    BY <1>2, MediaWriters
    DEF MediaSteps, RecordCommit, SnapshotCommit, RecoverDrop, CleanupDrop, PressureExpire, DeleteDrop,
        CleanupBegin, PressureBegin, DeleteBegin, Correct
  <1>3. CASE RecordCommit
    <2>1. \A k \in Kinds : made[k] \in files
      BY <1>3, MadeRows DEF RecordCommit
    <2> QED
      BY <1>0, <1>3, <2>1 DEF RecordCommit, ActiveRow, MediaBacked
  <1>4. ASSUME NEW t \in Times, NEW s \in BOOLEAN, SnapshotCommit(t, s) PROVE MediaBacked'
    <2> DEFINE old == {r \in MediaOf(None) : r.status = "active"}
    <2>1. made["image"] \in files /\ old \subseteq MediaRows
      BY <1>0, <1>4 DEF SnapshotCommit, Written, Kinds, MediaOf
    <2>2. /\ media' = (media \ old) \cup Tombstone(old) \cup {ActiveRow("image", None, made["image"])}
          /\ files' = files
      BY <1>4 DEF SnapshotCommit
    <2>3. \A r \in Tombstone(old) : r.status = "pending_delete"
      BY <2>1, TombstoneRows
    <2> HIDE DEF old
    <2> QED
      BY <1>0, <2>1, <2>2, <2>3 DEF ActiveRow, MediaBacked
  <1>5. ASSUME NEW aged \in SUBSET EventIds, CleanupBegin(aged) PROVE MediaBacked'
    <2> DEFINE rows == {r \in media : r.event \in Excess \cup aged} \cup Superseded
    <2>1. media' = (media \ rows) \cup Tombstone(rows) /\ files' = files /\ rows \subseteq MediaRows
      BY <1>0, <1>5 DEF CleanupBegin, Superseded, MediaOf
    <2> HIDE DEF rows
    <2> QED
      BY <1>0, <2>1, TombstoneRows DEF MediaBacked
  <1>6. ASSUME NEW r \in media, PressureBegin(r) PROVE MediaBacked'
    BY <1>0, <1>6, TombstoneRows DEF PressureBegin, MediaBacked
  <1>7. ASSUME NEW e \in EventIds, DeleteBegin(e) PROVE MediaBacked'
    <2>1. MediaOf(e) \subseteq MediaRows
      BY <1>0 DEF MediaOf
    <2> QED
      BY <1>0, <1>7, <2>1, TombstoneRows DEF DeleteBegin, MediaBacked
  <1>8. ASSUME NEW c \in Corrections, NEW t \in Times, Correct(c, t) PROVE MediaBacked'
    <2>1. \A k \in {j \in Kinds : request[j] # None} : request[k] \in files
      <3>1. \A k \in Kinds, e \in EventIds : ActiveRow(k, e, request[k]) \in media => request[k] \in files
        BY <1>0 DEF ActiveRow
      <3>2. RootOf(request.of) \in EventIds
        BY <1>8 DEF Correct, Verified, Stored
      <3> QED
        BY <1>8, <3>1, <3>2 DEF Correct, Verified, Kinds
    <2> QED
      BY <1>0, <1>8, <2>1 DEF Correct, ActiveRow, MediaBacked
  <1>9. CASE RecoverDrop \/ CleanupDrop \/ PressureExpire \/ DeleteDrop
    BY <1>0, <1>9 DEF RecoverDrop, CleanupDrop, PressureExpire, DeleteDrop, MediaBacked
  <1> QED
    BY <1>1, <1>2, <1>3, <1>4, <1>5, <1>6, <1>7, <1>8, <1>9, MediaWriters DEF MediaSteps

\* What a recorded movement makes of the current state.
LEMMA Recorded ==
    ASSUME IInv, RecordCommit
    PROVE  /\ current'.seen >= current.seen /\ current'.placedAt >= current.placedAt
           /\ current'.placedAt <= current'.seen
           /\ current'.status = "confirmed_placed" =>
                 \/ current'.placement = subject
                 \/ current'.placement = current.placement /\ current.placement \in Stored
  <1> DEFINE proposed == Proposed(subject)
             new == KeepNewerSighting(proposed)
  <1>0. /\ current \in CurrentStates /\ subject \in Movements /\ At[subject] \in Times
        /\ current.placedAt <= current.seen
        /\ current.status = "confirmed_placed" => current.placement \in Stored
        /\ None \notin Stored
    BY MadeRows, EventsAssumption
    DEF RecordCommit, IInv, TypeOK, PlacedWhenSeen, ConfirmedPlacementKnown, Stored
  <1>1. Times \subseteq Int /\ current.seen \in Int /\ current.placedAt \in Int
    BY <1>0, BoundsAssumption DEF CurrentStates, Times
  <1>2. proposed \in CurrentStates /\ new \in CurrentStates /\ current' = KeepNewerPlacement(new)
    BY <1>0, ProposedType, KeepTypes DEF RecordCommit, IInv, TypeOK
  <1>3. /\ proposed.seen = At[subject]
        /\ subject \in Placed => proposed.placedAt = At[subject] /\ proposed.placement = subject
        /\ subject \notin Placed => /\ proposed.placedAt = current.placedAt
                                    /\ proposed.placement = KnownPlacement
                                    /\ proposed.status = "last_seen"
    BY <1>0 DEF Proposed, CurrentStates
  <1> HIDE DEF proposed
  <1>4. /\ new.placedAt = proposed.placedAt /\ new.placement = proposed.placement
        /\ IF proposed.seen >= current.seen
           THEN new.seen = proposed.seen /\ new.status = proposed.status
           ELSE new.seen = current.seen /\ new.status = current.status
    BY <1>2 DEF KeepNewerSighting, CurrentStates
  <1> HIDE DEF new
  <1>5. /\ current'.seen = new.seen /\ current'.status = new.status
        /\ IF new.placedAt >= current.placedAt
           THEN current'.placedAt = new.placedAt /\ current'.placement = new.placement
           ELSE current'.placedAt = current.placedAt /\ current'.placement = current.placement
    BY <1>2 DEF KeepNewerPlacement, CurrentStates
  <1>6. current.placement \in Stored => KnownPlacement = current.placement
    BY <1>0 DEF KnownPlacement
  <1>7. At[subject] \in Int
    BY <1>0, <1>1
  <1>8. CASE subject \in Placed
    <2>1. new.placedAt = At[subject] /\ new.placement = subject
      BY <1>3, <1>4, <1>8
    <2>2. CASE At[subject] >= current.seen
      BY <1>0, <1>1, <1>3, <1>4, <1>5, <1>7, <2>1, <2>2
    <2>3. CASE ~(At[subject] >= current.seen)
      BY <1>0, <1>1, <1>3, <1>4, <1>5, <1>7, <2>1, <2>3
    <2> QED
      BY <2>2, <2>3
  <1>9. CASE subject \notin Placed
    <2>1. new.placedAt = current.placedAt /\ new.placement = KnownPlacement
      BY <1>3, <1>4, <1>9
    <2>2. current'.placedAt = current.placedAt /\ current'.placement = KnownPlacement
      BY <1>1, <1>5, <2>1
    <2>3. CASE At[subject] >= current.seen
      BY <1>0, <1>1, <1>3, <1>4, <1>5, <1>7, <1>9, <2>2, <2>3
    <2>4. CASE ~(At[subject] >= current.seen)
      BY <1>0, <1>1, <1>3, <1>4, <1>5, <1>6, <1>7, <2>2, <2>4
    <2> QED
      BY <2>3, <2>4
  <1> QED
    BY <1>8, <1>9

LEMMA PlacedWhenSeenStep == ASSUME IInv, [Next]_vars PROVE PlacedWhenSeen'
  <1>0. current \in CurrentStates /\ PlacedWhenSeen /\ Times \subseteq Int
        /\ current.seen \in Int /\ current.placedAt \in Int /\ current.seen >= 0
    BY BoundsAssumption DEF IInv, TypeOK, CurrentStates, Times
  <1>1. CASE RecordCommit
    BY <1>1, Recorded DEF PlacedWhenSeen
  <1>2. ASSUME NEW t \in Times, NEW s \in BOOLEAN, Observe(t, s) \/ SnapshotCommit(t, s)
        PROVE  PlacedWhenSeen'
    <2> DEFINE seen == Observed(t, s)
    <2>1. seen \in CurrentStates /\ seen.seen = t /\ seen.placedAt = current.placedAt
      BY <1>0, ObservedType DEF Observed, IInv, CurrentStates
    <2>2. t >= current.seen /\ (current' = seen \/ current' = [seen EXCEPT !.shot = made["image"]])
      BY <1>2 DEF Observe, SnapshotCommit
    <2> HIDE DEF seen
    <2>3. current'.seen = t /\ current'.placedAt = current.placedAt
      BY <2>1, <2>2 DEF CurrentStates
    <2> QED
      BY <1>0, <2>2, <2>3 DEF PlacedWhenSeen
  <1>3. CASE ObserveMissing
    BY <1>0, <1>3 DEF ObserveMissing, CurrentStates, PlacedWhenSeen
  <1>4. ASSUME NEW e \in EventIds, DeleteBegin(e) PROVE PlacedWhenSeen'
    BY <1>0, <1>4 DEF DeleteBegin, Detached, CurrentStates, PlacedWhenSeen
  <1>5. ASSUME NEW c \in Corrections, NEW t \in Times, Correct(c, t) PROVE PlacedWhenSeen'
    BY <1>0, <1>5 DEF Correct, CurrentStates, PlacedWhenSeen
  <1>6. CASE Forget
    BY <1>6 DEF Forget, NoState, PlacedWhenSeen
  <1>7. CASE UNCHANGED current
    BY <1>0, <1>7 DEF PlacedWhenSeen
  <1> QED
    BY <1>1, <1>2, <1>3, <1>4, <1>5, <1>6, <1>7, CurrentWriters DEF CurrentSteps

LEMMA ConfirmedPlacementKnownStep == ASSUME IInv, [Next]_vars PROVE ConfirmedPlacementKnown'
  <1>0. /\ current \in CurrentStates /\ TypeOK /\ None \notin Stored
        /\ current.status = "confirmed_placed" => current.placement \in Stored
    BY EventsAssumption DEF IInv, TypeOK, ConfirmedPlacementKnown, Stored
  <1>1. CASE RecordCommit
    BY <1>1, Recorded, StoredSteps DEF ConfirmedPlacementKnown
  <1>2. ASSUME NEW t \in Times, NEW s \in BOOLEAN, Observe(t, s) \/ SnapshotCommit(t, s)
        PROVE  ConfirmedPlacementKnown'
    <2> DEFINE seen == Observed(t, s)
    <2>1. /\ seen \in CurrentStates /\ seen.placement = KnownPlacement
          /\ seen.status = "confirmed_placed" => current.status = "confirmed_placed"
      <3>1. seen = [current EXCEPT !.seen = t,
                       !.status = IF s /\ current.status = "confirmed_placed"
                                  THEN "confirmed_placed" ELSE "last_seen",
                       !.placement = KnownPlacement]
        BY <1>0 DEF Observed, CurrentStates
      <3> QED
        BY <1>0, <3>1, ObservedType DEF CurrentStates
    <2>2. /\ current' = seen \/ current' = [seen EXCEPT !.shot = made["image"]]
          /\ UNCHANGED events
      BY <1>2 DEF Observe, SnapshotCommit
    <2> HIDE DEF seen
    <2>3. current'.status = seen.status /\ current'.placement = KnownPlacement
      BY <2>1, <2>2 DEF CurrentStates
    <2> QED
      BY <1>0, <2>1, <2>2, <2>3 DEF ConfirmedPlacementKnown, KnownPlacement, Stored
  <1>3. CASE ObserveMissing
    BY <1>0, <1>3 DEF ObserveMissing, CurrentStates, ConfirmedPlacementKnown
  <1>4. ASSUME NEW e \in EventIds, DeleteBegin(e) PROVE ConfirmedPlacementKnown'
    <2>1. e \notin Dependencies /\ UNCHANGED events /\ e \in Stored /\ current' = Detached(e)
      BY <1>4 DEF DeleteBegin
    <2>2. CASE current.evidence = e
      <3>1. current'.status # "confirmed_placed"
        BY <1>0, <2>1, <2>2 DEF Detached, CurrentStates
      <3> QED
        BY <3>1 DEF ConfirmedPlacementKnown
    <2>3. CASE current.evidence # e
      <3>1. current.placement # e
        BY <2>1, <2>3 DEF Dependencies
      <3> QED
        BY <1>0, <2>1, <2>3, <3>1 DEF Detached, ConfirmedPlacementKnown, Stored
    <2> QED
      BY <2>2, <2>3
  <1>5. ASSUME NEW c \in Corrections, NEW t \in Times, Correct(c, t) PROVE ConfirmedPlacementKnown'
    <2>1. current'.placement = c /\ Stored' = Stored \cup {c}
      BY <1>0, <1>5, StoredSteps DEF Correct, CurrentStates
    <2> QED
      BY <2>1 DEF ConfirmedPlacementKnown
  <1>6. CASE Forget
    BY <1>6 DEF Forget, NoState, ConfirmedPlacementKnown
  <1>7. CASE UNCHANGED current
    <2>1. current.placement \in Stored => current.placement \in Stored'
      BY <1>7, EvidenceLinkedStep, <1>0 DEF EvidenceLinked
    <2> QED
      BY <1>0, <1>7, <2>1 DEF ConfirmedPlacementKnown
  <1> QED
    BY <1>1, <1>2, <1>3, <1>4, <1>5, <1>6, <1>7, CurrentWriters DEF CurrentSteps

-----------------------------------------------------------------------------
LEMMA StepIInv == IInv /\ [Next]_vars => IInv'
  <1> SUFFICES ASSUME IInv, [Next]_vars PROVE IInv'
    OBVIOUS
  <1> QED
    BY TypeStep, PurgeRowsStep, ExpiringRowStep, WriterStep, ManualStep, ShownRegisteredStep,
       DeletedDetachedStep, DoomedUnprotectedStep, DoomedRetiredStep, MediaBackedStep,
       EvidenceLinkedStep, RootKeptStep, PlacedWhenSeenStep,
       ConfirmedPlacementKnownStep
    DEF IInv

LEMMA Invariance == Spec => []IInv
  BY InitIInv, StepIInv, PTL DEF Spec

-----------------------------------------------------------------------------
(***************************************************************************)
(* The second invariant: what the rows, files and labels of the evidence   *)
(* owe each other while an operation is under way.                         *)
(***************************************************************************)
\* The rows a purge still has in hand, and the row an active twin would be.
Held == todo \cup ({row} \ {None})
Twin(r) == ActiveRow(r.kind, r.event, r.blob)

\* No row is both active and tombstoned.
Untwinned == \A r \in media \cup Held : r.status = "pending_delete" => Twin(r) \notin media

\* An active row is one its event names.
ActiveMatches ==
    \A r \in media : r.status = "active" /\ r.event # None =>
        r.event \in Stored /\ events[r.event][r.kind] = r.blob

\* A purge has no event in hand that still has active rows, or whose media is
\* that of the current state; under pressure it has one row at a time.
Retiring ==
    /\ holder = "delete" => \A s \in MediaOf(subject) : s.status = "pending_delete"
    /\ holder = "cleanup" =>
          \A r \in Held : r.event # None =>
              /\ \A s \in MediaOf(r.event) : s.status = "pending_delete"
              /\ r.event # current.evidence
    /\ holder = "pressure" =>
          /\ \A r \in Held : r.event # current.evidence /\ events[r.event][r.kind] = r.blob
          /\ \A r, s \in Held : r = s

\* The current evidence has its image, and there is some whenever the current
\* state shows a confirmed placement or remembers the time of one.
ImageActive ==
    current.evidence # None =>
        /\ events[current.evidence].image # None
        /\ ActiveRow("image", current.evidence, events[current.evidence].image) \in media
Attested == current.status = "confirmed_placed" \/ current.placedAt # 0 => current.evidence # None
EvidenceShown == ImageActive /\ Attested

ObserveImage == holder = "observe" => made["clip"] = None

\* A file whose row is about to go is gone, or another active row needs it.
RowUnlinked == row # None => (row.blob \in files => Shared(row))

FilesKnown == faults = 0 => files \subseteq Registered \cup discarded \cup Written

\* A confirmed event has the active rows of its media, or a purge has it in hand.
InPurge(e) ==
    \/ holder = "delete" /\ e = subject
    \/ holder = "cleanup" /\ e \in doomed
    \/ holder \in {"cleanup", "pressure"} /\ (\E r \in Held : r.event = e)
HasRow(e, k) == (Manual(e) /\ events[e][k] = None) \/ ActiveRow(k, e, events[e][k]) \in media
Whole ==
    faults = 0 =>
        \A e \in Stored : events[e].evidence = "confirmed" => InPurge(e) \/ \A k \in Kinds : HasRow(e, k)

\* The plan of a cleanup is the excess of the present tables: under MINIMAL it
\* expires no event it does not delete.
Planned ==
    holder = "cleanup" =>
        /\ doomed = Excess
        /\ row # None /\ row \notin media => row.event \notin doomed
        /\ Policy = "MINIMAL" => \A r \in Held : r.event \in doomed \cup {None}

\* While a callback is recorded, its window is still free.
Windowed == WindowOnce /\ (holder = "record" => WindowFree(subject))

Ledger ==
    /\ Untwinned /\ ActiveMatches /\ Retiring /\ EvidenceShown /\ ObserveImage
    /\ RowUnlinked /\ FilesKnown /\ Whole /\ Planned /\ Windowed
    /\ IsFiniteSet(Stored)

-----------------------------------------------------------------------------
\* Two rows that agree but for the status.
LEMMA TwinOf ==
    ASSUME NEW r \in MediaRows, NEW s \in MediaRows, s.status = "active",
           s.kind = r.kind, s.event = r.event, s.blob = r.blob
    PROVE  s = Twin(r)
  BY DEF MediaRows, Twin, ActiveRow

LEMMA TombstoneOf ==
    ASSUME NEW rows, rows \subseteq MediaRows, NEW t \in Tombstone(rows)
    PROVE  /\ t \in MediaRows /\ t.status = "pending_delete"
           /\ \E s \in rows : /\ s.kind = t.kind /\ s.event = t.event /\ s.blob = t.blob
                              /\ s.status = "active" => s = Twin(t)
                              /\ s.status = "pending_delete" => s = t
  <1>1. PICK s \in rows : t = [s EXCEPT !.status = "pending_delete"]
    BY DEF Tombstone
  <1>2. s \in MediaRows
    BY <1>1
  <1>3. t \in MediaRows /\ t.status = "pending_delete"
        /\ s.kind = t.kind /\ s.event = t.event /\ s.blob = t.blob
    BY <1>1, <1>2 DEF MediaRows
  <1>4. s.status = "pending_delete" => s = t
    BY <1>1, <1>2 DEF MediaRows
  <1>5. s.status = "active" => s = Twin(t)
    BY <1>2, <1>3, TwinOf
  <1> QED
    BY <1>1, <1>3, <1>4, <1>5

\* How the tombstones of a purge begin.
Tombstoned(rows) == media' = (media \ rows) \cup Tombstone(rows)
PlanRows(aged) == {r \in media : r.event \in Excess \cup aged} \cup Superseded
LEMMA Beginnings ==
    ASSUME IInv
    PROVE  /\ \A aged \in SUBSET EventIds : CleanupBegin(aged) =>
                 /\ Tombstoned(PlanRows(aged)) /\ PlanRows(aged) \subseteq media
                 /\ todo' = Tombstone(PlanRows(aged)) /\ row = None /\ row' = None
                 /\ \A r \in PlanRows(aged) : r.event = None \/ r.event \in Excess \cup aged
                 /\ (Excess \cup aged) \cap Protected = {}
           /\ \A r \in media : PressureBegin(r) =>
                 /\ Tombstoned({r}) /\ r.status = "active" /\ r.event \in Stored \ Protected
                 /\ todo' = Tombstone({r}) /\ row' = None
           /\ \A e \in EventIds : DeleteBegin(e) =>
                 /\ Tombstoned(MediaOf(e)) /\ MediaOf(e) \subseteq media
                 /\ todo' = Tombstone(MediaOf(e)) /\ row' = None
  <1>1. holder \notin Purging => row = None
    BY DEF IInv, PurgeRows
  <1>2. ASSUME NEW aged \in SUBSET EventIds, CleanupBegin(aged)
        PROVE  /\ Tombstoned(PlanRows(aged)) /\ PlanRows(aged) \subseteq media
               /\ todo' = Tombstone(PlanRows(aged)) /\ row = None /\ row' = None
               /\ \A r \in PlanRows(aged) : r.event = None \/ r.event \in Excess \cup aged
               /\ (Excess \cup aged) \cap Protected = {}
    <2>1. row = None /\ row' = None
      BY <1>1, <1>2 DEF CleanupBegin, Purging
    <2>2. Tombstoned(PlanRows(aged)) /\ todo' = Tombstone(PlanRows(aged))
      BY <1>2 DEF CleanupBegin, Tombstoned, PlanRows
    <2>3. /\ PlanRows(aged) \subseteq media
          /\ \A r \in PlanRows(aged) : r.event = None \/ r.event \in Excess \cup aged
      BY DEF PlanRows, Superseded, MediaOf
    <2>4. (Excess \cup aged) \cap Protected = {}
      BY <1>2 DEF CleanupBegin, CanAge, Excess, Eligible
    <2> QED
      BY <2>1, <2>2, <2>3, <2>4
  <1>3. ASSUME NEW r \in media, PressureBegin(r)
        PROVE  /\ Tombstoned({r}) /\ r.status = "active" /\ r.event \in Stored \ Protected
               /\ todo' = Tombstone({r}) /\ row' = None
    BY <1>3 DEF PressureBegin, Tombstoned, Spared
  <1>4. ASSUME NEW e \in EventIds, DeleteBegin(e)
        PROVE  /\ Tombstoned(MediaOf(e)) /\ MediaOf(e) \subseteq media
               /\ todo' = Tombstone(MediaOf(e)) /\ row' = None
    BY <1>1, <1>4 DEF DeleteBegin, Tombstoned, MediaOf, Purging
  <1> QED
    BY <1>2, <1>3, <1>4

\* Where the active rows and the tombstones of the next state come from.
RowDrops == RecoverDrop \/ CleanupDrop \/ PressureExpire \/ DeleteDrop
Registers(r) ==
    \/ RecordCommit /\ \E k \in Kinds : r = ActiveRow(k, subject, made[k])
    \/ /\ \E t \in Times, s \in BOOLEAN : SnapshotCommit(t, s)
       /\ r = ActiveRow("image", None, made["image"])
    \/ \E c \in Corrections, t \in Times :
          Correct(c, t) /\ \E k \in Kinds : request[k] # None /\ r = ActiveRow(k, c, request[k])

LEMMA RowsAfter ==
    ASSUME IInv, [Next]_vars
    PROVE  /\ \A r \in media' : r.status = "active" => r \in media \/ Registers(r)
           /\ \A r \in media' : r.status = "pending_delete" =>
                 r \in media \/ (Twin(r) \in media /\ Twin(r) \notin media')
  <1> DEFINE Goal == /\ \A r \in media' : r.status = "active" => r \in media \/ Registers(r)
                     /\ \A r \in media' : r.status = "pending_delete" =>
                           r \in media \/ (Twin(r) \in media /\ Twin(r) \notin media')
  <1>0. media \subseteq MediaRows
    BY DEF IInv, TypeOK
  <1>a. ASSUME NEW rows, rows \subseteq media, NEW t \in Tombstone(rows)
        PROVE  t.status = "pending_delete"
               /\ (t \in media \/ Twin(t) \in rows)
    BY <1>0, <1>a, TombstoneOf DEF MediaRows
  <1>b. ASSUME NEW k, NEW e, NEW b PROVE ActiveRow(k, e, b).status = "active"
    BY DEF ActiveRow
  <1>1. CASE RecordCommit
    <2>1. media' = media \cup {ActiveRow(k, subject, made[k]) : k \in Kinds}
      BY <1>1 DEF RecordCommit
    <2> QED
      BY <1>1, <1>b, <2>1 DEF Registers
  <1>2. ASSUME NEW t \in Times, NEW s \in BOOLEAN, SnapshotCommit(t, s) PROVE Goal
    <2> DEFINE old == {r \in MediaOf(None) : r.status = "active"}
               new == ActiveRow("image", None, made["image"])
    <2>1. media' = (media \ old) \cup Tombstone(old) \cup {new} /\ old \subseteq media
      BY <1>2 DEF SnapshotCommit, MediaOf
    <2>2. new.status = "active" /\ Registers(new)
      BY <1>2, <1>b DEF Registers
    <2>3. new \notin media
      <3>1. new.blob \in Written
        BY <1>2 DEF SnapshotCommit, ActiveRow, Written, Kinds
      <3> QED
        BY <3>1 DEF IInv, Writer, Registered
    <2> HIDE DEF old, new
    <2>4. ASSUME NEW r \in Tombstone(old), r \notin media PROVE Twin(r) \in media /\ Twin(r) \notin media'
      <3>1. Twin(r) \in old /\ Twin(r).status = "active"
        BY <1>a, <1>b, <2>1, <2>4 DEF Twin
      <3>2. Twin(r) \notin Tombstone(old)
        BY <1>a, <2>1, <3>1
      <3> QED
        BY <2>1, <2>3, <3>1, <3>2
    <2>5. \A r \in Tombstone(old) : r.status = "pending_delete"
      BY <1>a, <2>1
    <2> QED
      BY <2>1, <2>2, <2>4, <2>5
  <1>3. ASSUME NEW rows, rows \subseteq media, Tombstoned(rows) PROVE Goal
    <2>1. media' = (media \ rows) \cup Tombstone(rows)
      BY <1>3 DEF Tombstoned
    <2>2. ASSUME NEW r \in Tombstone(rows), r \notin media PROVE Twin(r) \in media /\ Twin(r) \notin media'
      <3>1. Twin(r) \in rows /\ Twin(r).status = "active"
        BY <1>3, <1>a, <1>b, <2>2 DEF Twin
      <3>2. Twin(r) \notin Tombstone(rows)
        BY <1>3, <1>a, <3>1
      <3> QED
        BY <1>3, <2>1, <3>1, <3>2
    <2>3. \A r \in Tombstone(rows) : r.status = "pending_delete"
      BY <1>3, <1>a
    <2> QED
      BY <1>3, <2>1, <2>2, <2>3
  <1>4. ASSUME NEW c \in Corrections, NEW t \in Times, Correct(c, t) PROVE Goal
    <2>1. media' = media \cup {ActiveRow(k, c, request[k]) : k \in {j \in Kinds : request[j] # None}}
      BY <1>4 DEF Correct
    <2>2. \A k \in {j \in Kinds : request[j] # None} : Registers(ActiveRow(k, c, request[k]))
      BY <1>4 DEF Registers
    <2> QED
      BY <1>b, <2>1, <2>2
  <1>5. CASE RowDrops \/ UNCHANGED media
    <2>1. media' \subseteq media
      BY <1>5 DEF RowDrops, RecoverDrop, CleanupDrop, PressureExpire, DeleteDrop
    <2> QED
      BY <2>1
  <1>6. CASE \/ \E aged \in SUBSET EventIds : CleanupBegin(aged)
             \/ \E r \in media : PressureBegin(r)
             \/ \E e \in EventIds : DeleteBegin(e)
    <2>1. \E rows \in SUBSET media : Tombstoned(rows)
      BY <1>6, Beginnings
    <2> QED
      BY <1>3, <2>1
  <1> QED
    BY <1>1, <1>2, <1>4, <1>5, <1>6, MediaWriters DEF MediaSteps, RowDrops

\* Only a purge, or one that a purge may not overtake, takes a row away.
LEMMA RowsKept ==
    ASSUME IInv, [Next]_vars, NEW r \in media, r.status = "active", r \notin media'
    PROVE  \/ \E t \in Times, s \in BOOLEAN : SnapshotCommit(t, s) /\ r.event = None
           \/ \E aged \in SUBSET EventIds : CleanupBegin(aged) /\ r \in PlanRows(aged)
           \/ PressureBegin(r)
           \/ \E e \in EventIds : DeleteBegin(e) /\ r \in MediaOf(e)
  <1>1. CASE RowDrops
    <2>1. row.status = "pending_delete" /\ media' = media \ {row}
      BY <1>1, NoneAssumption
      DEF RowDrops, RecoverDrop, CleanupDrop, PressureExpire, DeleteDrop, IInv, TypeOK, PurgeRows
    <2> QED
      BY <2>1
  <1>2. CASE RecordCommit \/ \E c \in Corrections, t \in Times : Correct(c, t)
    BY <1>2 DEF RecordCommit, Correct
  <1>3. ASSUME NEW t \in Times, NEW s \in BOOLEAN, SnapshotCommit(t, s) PROVE r.event = None
    BY <1>3 DEF SnapshotCommit, MediaOf
  <1>4. ASSUME NEW s \in media, PressureBegin(s) PROVE r = s
    BY <1>4 DEF PressureBegin
  <1>5. ASSUME NEW aged \in SUBSET EventIds, CleanupBegin(aged) PROVE r \in PlanRows(aged)
    BY <1>5 DEF CleanupBegin, PlanRows
  <1>6. ASSUME NEW e \in EventIds, DeleteBegin(e) PROVE r \in MediaOf(e)
    BY <1>6 DEF DeleteBegin
  <1>7. CASE UNCHANGED media
    BY <1>7
  <1> QED
    BY <1>1, <1>2, <1>3, <1>4, <1>5, <1>6, <1>7, MediaWriters DEF MediaSteps, RowDrops

LEMMA RowAfter ==
    ASSUME IInv, [Next]_vars
    PROVE  row' \in todo \cup {row, None} /\ (row' # row /\ row' # None => \E r \in todo : Unlink(r) /\ row' = r)
  <1>1. ASSUME NEW r \in todo, SkipShown(r) \/ UnlinkFails(r) PROVE UNCHANGED row
    BY <1>1 DEF SkipShown, UnlinkFails
  <1>2. ASSUME NEW r \in todo, Unlink(r) PROVE row' = r
    BY <1>2 DEF Unlink
  <1>3. ASSUME RecoverDrop \/ CleanupDrop \/ CleanupExpire \/ PressureExpire \/ DeleteDrop \/ Crash
        PROVE  row' \in {row, None}
    BY <1>3 DEF RecoverDrop, CleanupDrop, CleanupExpire, PressureExpire, DeleteDrop, Crash
  <1>4. ASSUME SnapshotFail \/ \E t \in Times, s \in BOOLEAN : SnapshotCommit(t, s) PROVE UNCHANGED row
    BY <1>4 DEF SnapshotFail, SnapshotCommit
  <1>5. ASSUME \/ \E aged \in SUBSET EventIds : CleanupBegin(aged)
               \/ \E r \in media : PressureBegin(r)
               \/ \E e \in EventIds : DeleteBegin(e)
        PROVE  UNCHANGED row
    BY <1>5 DEF CleanupBegin, PressureBegin, DeleteBegin
  <1> QED
    BY <1>1, <1>2, <1>3, <1>4, <1>5, PurgeWriters DEF PurgeSteps

\* The event rows that appear and the ones that change.
LEMMA RecordedRow ==
    ASSUME IInv, RecordCommit
    PROVE  /\ subject \in Movements /\ subject \in EventIds /\ subject \notin Stored
           /\ events'[subject] =
                 [at |-> At[subject],
                  final |-> IF subject \in Placed THEN "confirmed_placed" ELSE "position_changed",
                  evidence |-> "confirmed", image |-> made["image"], clip |-> made["clip"],
                  pinned |-> FALSE, root |-> None]
           /\ \A k \in Kinds : /\ events'[subject][k] = made[k] /\ made[k] \in Written
                               /\ made[k] # None
                               /\ ActiveRow(k, subject, made[k]) \in media'
  <1>1. subject \in Movements /\ subject \in EventIds /\ events \in [EventIds -> Maybe(EventRows)]
        /\ subject \notin Stored
    BY MadeRows DEF RecordCommit, IInv, TypeOK, Writer, Stored
  <1>2. events'[subject] =
           [at |-> At[subject],
            final |-> IF subject \in Placed THEN "confirmed_placed" ELSE "position_changed",
            evidence |-> "confirmed", image |-> made["image"], clip |-> made["clip"],
            pinned |-> FALSE, root |-> None]
    BY <1>1 DEF RecordCommit
  <1>3. events'[subject]["image"] = made["image"] /\ events'[subject]["clip"] = made["clip"]
    BY <1>2
  <1>4. \A k \in Kinds : made[k] # None /\ made[k] \in Written /\ ActiveRow(k, subject, made[k]) \in media'
    BY DEF RecordCommit, Written
  <1> QED
    BY <1>1, <1>2, <1>3, <1>4 DEF Kinds

LEMMA CorrectedRow ==
    ASSUME IInv, NEW c \in Corrections, NEW t \in Times, Correct(c, t)
    PROVE  /\ c \in EventIds /\ c \notin Stored
           /\ events'[c].evidence = "confirmed" /\ events'[c].root # None
           /\ request["image"] # None /\ events'[c].image = request["image"]
           /\ \A k \in Kinds : /\ events'[c][k] = request[k]
                               /\ request[k] # None => ActiveRow(k, c, request[k]) \in media'
  <1>1. /\ c \in EventIds /\ c \notin Stored /\ events \in [EventIds -> Maybe(EventRows)]
        /\ RootOf(request.of) # None /\ request.image # None
    BY EventsAssumption DEF Correct, Verified, Stored, EventIds, IInv, TypeOK
  <1>2. events'[c] = [at |-> t, final |-> "confirmed_placed", evidence |-> "confirmed",
                      image |-> request.image, clip |-> request.clip,
                      pinned |-> FALSE, root |-> RootOf(request.of)]
    BY <1>1 DEF Correct
  <1>3. /\ events'[c]["image"] = request["image"] /\ events'[c]["clip"] = request["clip"]
        /\ events'[c].evidence = "confirmed" /\ events'[c].root = RootOf(request.of)
    BY <1>2
  <1>4. \A k \in Kinds : request[k] # None => ActiveRow(k, c, request[k]) \in media'
    BY DEF Correct
  <1> QED
    BY <1>1, <1>3, <1>4 DEF Kinds

Expires == RecoverExpire \/ CleanupExpire \/ PressureExpire
LEMMA ExpiresRow ==
    ASSUME IInv, Expires
    PROVE  /\ row \in MediaRows /\ row.event \in Stored /\ row.kind \in Kinds /\ row \in Held
           /\ row.status = "pending_delete" /\ events' = Expired(row.event, row.kind)
           /\ media' \subseteq media
  <1>1. row \in MediaRows /\ row.status = "pending_delete" /\ row \in Held
    <2>1. row # None
      BY DEF Expires, RecoverExpire, CleanupExpire, PressureExpire
    <2> QED
      BY <2>1 DEF IInv, TypeOK, Maybe, PurgeRows, Held
  <1>2. CASE RecoverExpire
    BY <1>1, <1>2 DEF RecoverExpire, Refers, Stored, MediaRows, Maybe
  <1>3. CASE CleanupExpire \/ PressureExpire
    BY <1>1, <1>3 DEF CleanupExpire, PressureExpire, IInv, ExpiringRow, MediaRows
  <1> QED
    BY <1>1, <1>2, <1>3 DEF Expires

LEMMA ExpiredRow ==
    ASSUME TypeOK, NEW e \in Stored, NEW k \in Kinds, events' = Expired(e, k)
    PROVE  /\ \A f \in Stored : f # e => events'[f] = events[f]
           /\ \A j \in Kinds : j # k => events'[e][j] = events[e][j]
           /\ events'[e].evidence = "media_expired" /\ events'[e].at = events[e].at
           /\ events'[e].root = events[e].root /\ events'[e].pinned = events[e].pinned
  <1>1. events[e] \in EventRows /\ e \in EventIds /\ events \in [EventIds -> Maybe(EventRows)]
    BY EventRow DEF TypeOK
  <1> DEFINE new == [events[e] EXCEPT ![k] = None, !.evidence = "media_expired"]
  <1>2. /\ new.evidence = "media_expired" /\ new.at = events[e].at
        /\ new.root = events[e].root /\ new.pinned = events[e].pinned
        /\ k = "clip" => new["image"] = events[e]["image"]
        /\ k = "image" => new["clip"] = events[e]["clip"]
    <2>1. CASE k = "image"
      BY <1>1, <2>1 DEF EventRows
    <2>2. CASE k = "clip"
      BY <1>1, <2>2 DEF EventRows
    <2> QED
      BY <2>1, <2>2 DEF Kinds
  <1>3. events' = [events EXCEPT ![e] = new]
    BY DEF Expired
  <1> HIDE DEF new
  <1>4. events'[e] = new /\ \A f \in Stored : f # e => events'[f] = events[f]
    BY <1>1, <1>3 DEF Stored
  <1> QED
    BY <1>2, <1>4 DEF Kinds

Alike(f) ==
    /\ \A k \in Kinds : events'[f][k] = events[f][k]
    /\ events'[f].evidence = events[f].evidence /\ events'[f].root = events[f].root
    /\ events'[f].at = events[f].at
LEMMA EventAfter ==
    ASSUME IInv, [Next]_vars, NEW f \in Stored, f \in Stored'
    PROVE  \/ Alike(f)
           \/ /\ Expires /\ f = row.event /\ events'[f].evidence = "media_expired"
              /\ \A j \in Kinds : j # row.kind => events'[f][j] = events[f][j]
              /\ events'[f].at = events[f].at
  <1>0. TypeOK /\ events \in [EventIds -> Maybe(EventRows)] /\ f \in EventIds
    BY DEF IInv, TypeOK, Stored
  <1>1. CASE Expires
    <2>1. /\ \A g \in Stored : g # row.event => events'[g] = events[g]
          /\ \A j \in Kinds : j # row.kind => events'[row.event][j] = events[row.event][j]
          /\ events'[row.event].evidence = "media_expired"
          /\ events'[row.event].at = events[row.event].at
      BY <1>0, <1>1, ExpiresRow, ExpiredRow
    <2> QED
      BY <1>1, <2>1 DEF Alike
  <1>2. CASE events'[f] = events[f]
    BY <1>2 DEF Alike
  <1>3. CASE RecordCommit
    <2>1. f # subject
      BY <1>3, RecordedRow
    <2>2. events'[f] = events[f]
      BY <1>0, <1>3, <2>1 DEF RecordCommit
    <2> QED
      BY <1>2, <2>2
  <1>4. ASSUME NEW c \in Corrections, NEW t \in Times, Correct(c, t) PROVE Alike(f)
    <2>1. f # c
      BY <1>4, CorrectedRow
    <2>2. events'[f] = events[f]
      BY <1>0, <1>4, <2>1 DEF Correct
    <2> QED
      BY <2>2 DEF Alike
  <1>5. CASE CleanupEvents
    BY <1>0, <1>2, <1>5 DEF CleanupEvents, Stored
  <1>6. CASE DeleteEnd
    BY <1>0, <1>2, <1>6 DEF DeleteEnd, Stored
  <1>7. ASSUME NEW e \in EventIds, NEW b \in BOOLEAN, Pin(e, b) PROVE Alike(f)
    <2> DEFINE new == [events[e] EXCEPT !.pinned = b]
    <2>1. events' = [events EXCEPT ![e] = new] /\ events[e] \in EventRows
      BY <1>0, <1>7, EventRow DEF Pin
    <2>2. /\ new["image"] = events[e]["image"] /\ new["clip"] = events[e]["clip"]
          /\ new.evidence = events[e].evidence /\ new.root = events[e].root
          /\ new.at = events[e].at
      BY <2>1 DEF EventRows
    <2> HIDE DEF new
    <2>3. events'[f] = IF f = e THEN new ELSE events[f]
      BY <1>0, <2>1
    <2> QED
      BY <2>2, <2>3 DEF Alike, Kinds
  <1>8. CASE UNCHANGED events
    BY <1>2, <1>8
  <1> QED
    BY <1>1, <1>3, <1>4, <1>5, <1>6, <1>7, <1>8, EventWriters DEF EventSteps, Expires

-----------------------------------------------------------------------------
LEMMA UntwinnedStep == ASSUME IInv, Ledger, [Next]_vars PROVE Untwinned'
  <1>0. /\ Untwinned /\ media \subseteq MediaRows /\ todo \subseteq media
        /\ holder \notin Purging => row = None
        /\ todo' \subseteq media' /\ Written \cap Registered = {}
    BY PurgeRowsStep DEF Ledger, IInv, TypeOK, PurgeRows, Writer
  <1> SUFFICES ASSUME NEW r \in media' \cup Held', r.status = "pending_delete", Twin(r) \in media'
               PROVE  FALSE
    BY DEF Untwinned
  <1>1. Twin(r).status = "active" /\ Twin(r).blob = r.blob /\ Twin(r).event = r.event
    BY DEF Twin, ActiveRow
  <1>2. r \in media'  \/ r \in media \cup Held
    BY <1>0, RowAfter DEF Held
  <1>3. r \in media \cup Held
    BY <1>2, RowsAfter
  <1>4. Twin(r) \notin media
    BY <1>0, <1>3 DEF Untwinned
  <1>5. Registers(Twin(r))
    BY <1>1, <1>4, RowsAfter
  <1>6. holder \notin Purging /\ r \in media
    <2>1. holder \notin Purging
      BY <1>5 DEF Registers, RecordCommit, SnapshotCommit, Correct, Purging
    <2> QED
      BY <1>0, <1>3, <2>1 DEF Held
  <1>7. CASE RecordCommit /\ \E k \in Kinds : Twin(r) = ActiveRow(k, subject, made[k])
    <2>1. r.blob \in Written
      BY <1>1, <1>7, RecordedRow DEF ActiveRow
    <2> QED
      BY <1>0, <1>6, <2>1 DEF Registered
  <1>8. CASE /\ \E t \in Times, s \in BOOLEAN : SnapshotCommit(t, s)
             /\ Twin(r) = ActiveRow("image", None, made["image"])
    <2>1. r.blob \in Written
      BY <1>1, <1>8 DEF ActiveRow, SnapshotCommit, Written, Kinds
    <2> QED
      BY <1>0, <1>6, <2>1 DEF Registered
  <1>9. ASSUME NEW c \in Corrections, NEW t \in Times,
               Correct(c, t) /\ \E k \in Kinds : request[k] # None /\ Twin(r) = ActiveRow(k, c, request[k])
        PROVE  FALSE
    <2>1. r.event = c
      BY <1>1, <1>9 DEF ActiveRow
    <2> QED
      BY <1>6, <1>9, <2>1 DEF Correct, MediaOf
  <1> QED
    BY <1>5, <1>7, <1>8, <1>9 DEF Registers

LEMMA ActiveMatchesStep == ASSUME IInv, Ledger, [Next]_vars PROVE ActiveMatches'
  <1>0. /\ Untwinned /\ ActiveMatches /\ Retiring /\ media \subseteq MediaRows
        /\ \A r \in media : r.event \in doomed => r.status = "pending_delete"
    BY DEF Ledger, IInv, TypeOK, DoomedRetired
  <1> SUFFICES ASSUME NEW r \in media', r.status = "active", r.event # None
               PROVE  r.event \in Stored' /\ events'[r.event][r.kind] = r.blob
    BY DEF ActiveMatches
  <1>1. CASE r \in media
    <2>1. r.event \in Stored /\ events[r.event][r.kind] = r.blob /\ r \in MediaRows /\ r.kind \in Kinds
      BY <1>0, <1>1 DEF ActiveMatches, MediaRows
    <2>2. r.event \in Stored'
      <3>1. CASE CleanupEvents /\ Stored' = Stored \ doomed
        BY <1>0, <1>1, <2>1, <3>1
      <3>2. CASE DeleteEnd /\ Stored' = Stored \ {subject}
        BY <1>0, <1>1, <2>1, <3>2 DEF DeleteEnd, Retiring, MediaOf
      <3> QED
        BY <2>1, <3>1, <3>2, StoredSteps
    <2>3. ASSUME Expires, r.event = row.event, r.kind = row.kind PROVE FALSE
      <3>1. row \in MediaRows /\ row \in Held /\ row.status = "pending_delete"
        BY <2>3, ExpiresRow
      <3>2. row.blob # r.blob
        BY <1>0, <1>1, <2>1, <2>3, <3>1, TwinOf DEF Untwinned
      <3>3. CASE RecoverExpire
        BY <2>1, <2>3, <3>2, <3>3 DEF RecoverExpire, Refers
      <3>4. CASE CleanupExpire
        BY <1>0, <1>1, <2>3, <3>1, <3>4 DEF CleanupExpire, Retiring, MediaOf
      <3>5. CASE PressureExpire
        BY <1>0, <2>1, <2>3, <3>1, <3>2, <3>5 DEF PressureExpire, Retiring
      <3> QED
        BY <2>3, <3>3, <3>4, <3>5 DEF Expires
    <2>4. events'[r.event][r.kind] = events[r.event][r.kind]
      BY <2>1, <2>2, <2>3, EventAfter DEF Alike
    <2> QED
      BY <2>1, <2>2, <2>4
  <1>2. CASE RecordCommit /\ \E k \in Kinds : r = ActiveRow(k, subject, made[k])
    BY <1>2, RecordedRow, StoredSteps DEF ActiveRow
  <1>3. ASSUME NEW c \in Corrections, NEW t \in Times,
               Correct(c, t) /\ \E k \in Kinds : request[k] # None /\ r = ActiveRow(k, c, request[k])
        PROVE  r.event \in Stored' /\ events'[r.event][r.kind] = r.blob
    BY <1>3, CorrectedRow, StoredSteps DEF ActiveRow
  <1>4. CASE r = ActiveRow("image", None, made["image"])
    BY <1>4 DEF ActiveRow
  <1> QED
    BY <1>1, <1>2, <1>3, <1>4, RowsAfter DEF Registers

LEMMA InPressure ==
    ASSUME IInv, [Next]_vars, holder' = "pressure"
    PROVE  \/ CleanupEvents
           \/ \E r \in media : PressureBegin(r)
           \/ PressureExpire
           \/ /\ holder = "pressure" /\ UNCHANGED <<current, events>>
              /\ todo' \subseteq todo /\ row' \in todo \cup {row}
              /\ row' # row => row' \notin todo'
  BY DEF Next, Recording, Observing, PurgeStep, Administration, vars, writer, purge, tables,
    RecordBegin, WriteMedia, RecordCommit, RecordFail, DiscardFile, Observe, ObserveMissing, SnapshotBegin,
    SnapshotCommit, SnapshotFail, SkipShown, Unlink, UnlinkFails, RecoverExpire, RecoverDrop,
    RecoverEnd, CleanupBegin, CleanupDrop, CleanupExpire, ReclaimOrphan, CleanupEnd,
    DeleteBegin, DeleteDrop, DeleteEnd, CorrectRead, CorrectRepeated, CorrectRefused,
    CorrectIgnored, Correct, Pin, Forget, Crash, Fault

\* Within a cleanup, only the plan puts rows in hand.
LEMMA CleanupHeld ==
    ASSUME IInv, [Next]_vars, holder' = "cleanup", holder = "cleanup" PROVE Held' \subseteq Held
  <1>1. todo' \subseteq todo
    BY DEF Next, Recording, Observing, PurgeStep, Administration, vars, writer, purge, tables,
      RecordBegin, WriteMedia, RecordCommit, RecordFail, DiscardFile, Observe, ObserveMissing, SnapshotBegin,
      SnapshotCommit, SnapshotFail, SkipShown, Unlink, UnlinkFails, RecoverExpire, RecoverDrop,
      RecoverEnd, CleanupBegin, CleanupDrop, CleanupExpire, CleanupEvents, ReclaimOrphan,
      PressureBegin, PressureExpire, CleanupEnd, DeleteBegin, DeleteDrop, DeleteEnd,
      CorrectRead, CorrectRepeated, CorrectRefused, CorrectIgnored, Correct, Pin, Forget, Crash, Fault
  <1> QED
    BY <1>1, RowAfter DEF Held

LEMMA RetiringStep == ASSUME IInv, Ledger, [Next]_vars PROVE Retiring'
  <1>0. /\ Retiring /\ ActiveMatches /\ media \subseteq MediaRows /\ None \notin EventIds
        /\ holder \notin Purging => row = None
    BY EventsAssumption DEF Ledger, IInv, TypeOK, PurgeRows
  <1>1. ASSUME holder' = "delete", NEW s \in MediaOf(subject)' PROVE s.status = "pending_delete"
    <2>0. s \in media' /\ s.event = subject' /\ s \in MediaRows
      BY <1>1, MediaType DEF MediaOf
    <2>1. ASSUME NEW e \in EventIds, DeleteBegin(e) PROVE s.status = "pending_delete"
      <3>1. subject' = e /\ s \in (media \ MediaOf(e)) \cup Tombstone(MediaOf(e))
        BY <2>0, <2>1 DEF DeleteBegin
      <3>2. s \notin media \ MediaOf(e)
        BY <2>0, <3>1 DEF MediaOf
      <3>3. MediaOf(e) \subseteq MediaRows
        BY <1>0 DEF MediaOf
      <3> QED
        BY <3>1, <3>2, <3>3, TombstoneOf
    <2>2. CASE holder = "delete" /\ UNCHANGED <<subject, current, events>>
      <3>1. ~Registers(s)
        BY <2>2 DEF Registers, RecordCommit, SnapshotCommit, Correct
      <3> QED
        BY <1>0, <2>0, <2>2, <3>1, RowsAfter DEF Retiring, MediaOf, MediaRows
    <2> QED
      BY <1>1, <2>1, <2>2, InDelete
  <1>2. ASSUME holder' = "cleanup", NEW r \in Held', r.event # None
        PROVE  /\ \A s \in MediaOf(r.event)' : s.status = "pending_delete"
               /\ r.event # current'.evidence
    <2>1. ASSUME NEW aged \in SUBSET EventIds, CleanupBegin(aged)
          PROVE  /\ \A s \in MediaOf(r.event)' : s.status = "pending_delete"
                 /\ r.event # current'.evidence
      <3> DEFINE rows == PlanRows(aged)
      <3>1. /\ media' = (media \ rows) \cup Tombstone(rows) /\ rows \subseteq media
            /\ todo' = Tombstone(rows) /\ row' = None
            /\ \A s \in rows : s.event = None \/ s.event \in Excess \cup aged
            /\ (Excess \cup aged) \cap Protected = {}
        BY <2>1, Beginnings DEF Tombstoned
      <3>2. \A s \in media \ rows : s.event \notin Excess \cup aged
        BY DEF PlanRows
      <3>3. current' = current
        BY <2>1 DEF CleanupBegin
      <3> HIDE DEF rows
      <3>4. r \in Tombstone(rows) /\ rows \subseteq MediaRows
        BY <1>0, <1>2, <3>1 DEF Held
      <3>5. r.event \in Excess \cup aged
        BY <1>2, <3>1, <3>4, TombstoneOf
      <3>6. \A s \in MediaOf(r.event)' : s.status = "pending_delete"
        BY <3>1, <3>2, <3>4, <3>5, TombstoneOf DEF MediaOf
      <3> QED
        BY <1>2, <3>1, <3>3, <3>5, <3>6 DEF Protected, Latest
    <2>2. CASE holder = "cleanup" /\ UNCHANGED current
      <3>1. r \in Held
        BY <1>2, <2>2, CleanupHeld
      <3>2. \A s \in media' : ~Registers(s)
        BY <2>2 DEF Registers, RecordCommit, SnapshotCommit, Correct
      <3>3. \A s \in MediaOf(r.event)' : s.status = "pending_delete"
        BY <1>0, <1>2, <2>2, <3>1, <3>2, RowsAfter, MediaType DEF Retiring, MediaOf, MediaRows
      <3> QED
        BY <1>0, <1>2, <2>2, <3>1, <3>3 DEF Retiring
    <2> QED
      BY <1>2, <2>1, <2>2, InCleanup
  <1>3. ASSUME holder' = "pressure"
        PROVE  /\ \A r \in Held' : r.event # current'.evidence /\ events'[r.event][r.kind] = r.blob
               /\ \A r, s \in Held' : r = s
    <2>1. CASE CleanupEvents
      BY <2>1 DEF CleanupEvents, purge, Held
    <2>2. ASSUME NEW s \in media, PressureBegin(s)
          PROVE  /\ \A r \in Held' : r.event # current'.evidence /\ events'[r.event][r.kind] = r.blob
                 /\ \A r, q \in Held' : r = q
      <3> DEFINE new == [s EXCEPT !.status = "pending_delete"]
      <3>0. Tombstone({s}) = {new}
        BY DEF Tombstone
      <3>1. Held' = {new} /\ s.status = "active" /\ s.event \in Stored \ Protected
        <4>1. todo' = Tombstone({s}) /\ row' = None /\ s.status = "active" /\ s.event \in Stored \ Protected
          BY <2>2, Beginnings
        <4> HIDE DEF new
        <4> QED
          BY <3>0, <4>1 DEF Held
      <3>2. new.event = s.event /\ new.kind = s.kind /\ new.blob = s.blob
        BY <1>0 DEF MediaRows
      <3>3. s.event # None /\ UNCHANGED <<current, events>>
        BY <1>0, <2>2, <3>1 DEF PressureBegin, Stored
      <3> HIDE DEF new
      <3>4. s.event # current.evidence
        BY <3>1, <3>3 DEF Protected, Latest
      <3> QED
        BY <1>0, <3>1, <3>2, <3>3, <3>4 DEF ActiveMatches
    <2>3. CASE PressureExpire
      <3>1. row \in Held /\ row' = None /\ todo' = todo /\ holder = "pressure" /\ row \notin todo
        BY <2>3 DEF PressureExpire, Held, IInv, PurgeRows
      <3>2. Held' = {}
        BY <1>0, <3>1 DEF Retiring, Held
      <3> QED
        BY <3>2
    <2>4. CASE /\ holder = "pressure" /\ UNCHANGED <<current, events>>
               /\ todo' \subseteq todo /\ row' \in todo \cup {row}
      <3>1. Held' \subseteq Held
        BY <2>4 DEF Held
      <3> QED
        BY <1>0, <2>4, <3>1 DEF Retiring
    <2> QED
      BY <1>3, <2>1, <2>2, <2>3, <2>4, InPressure
  <1> QED
    BY <1>1, <1>2, <1>3 DEF Retiring

\* The evidence of the current state is what it was, none, or a new event.
LEMMA RecordedEvidence ==
    ASSUME IInv, Attested, RecordCommit
    PROVE  current'.evidence \in {subject, current.evidence} /\ current'.evidence # None
  <1> DEFINE proposed == Proposed(subject)
             new == KeepNewerSighting(proposed)
  <1>0. /\ current \in CurrentStates /\ subject \in Movements /\ At[subject] \in Times
        /\ subject # None /\ (current.placedAt # 0 => current.evidence # None)
    BY MadeRows, EventsAssumption DEF RecordCommit, IInv, TypeOK, Attested, EventIds
  <1>1. Times \subseteq Int /\ current.placedAt \in Int /\ current.placedAt >= 0 /\ At[subject] > 0
    BY <1>0, BoundsAssumption DEF CurrentStates, Times
  <1>2. proposed \in CurrentStates /\ new \in CurrentStates /\ current' = KeepNewerPlacement(new)
    BY <1>0, ProposedType, KeepTypes DEF RecordCommit, IInv, TypeOK
  <1>3. proposed.evidence = subject
    BY <1>0 DEF Proposed, CurrentStates
  <1> HIDE DEF proposed
  <1>4. new.evidence = subject /\ new.placedAt \in Int /\ new.placedAt >= 0
    <2>1. new.evidence = subject
      BY <1>2, <1>3 DEF KeepNewerSighting, CurrentStates
    <2> QED
      BY <1>1, <1>2, <2>1, BoundsAssumption DEF CurrentStates, Times
  <1> HIDE DEF new
  <1>5. IF new.placedAt >= current.placedAt
        THEN current'.evidence = subject ELSE current'.evidence = current.evidence
    BY <1>0, <1>2, <1>4 DEF KeepNewerPlacement, CurrentStates
  <1>6. ~(new.placedAt >= current.placedAt) => current.placedAt # 0
    BY <1>1, <1>4
  <1> QED
    BY <1>0, <1>5, <1>6

LEMMA EvidenceAfter ==
    ASSUME IInv, Attested, [Next]_vars
    PROVE  /\ \/ current'.evidence \in {current.evidence, None}
              \/ RecordCommit /\ current'.evidence = subject
              \/ \E c \in Corrections, t \in Times : Correct(c, t) /\ current'.evidence = c
           /\ \A e \in EventIds : DeleteBegin(e) => current'.evidence # e
           /\ Attested'
  <1> DEFINE Goal == /\ \/ current'.evidence \in {current.evidence, None}
                        \/ RecordCommit /\ current'.evidence = subject
                        \/ \E c \in Corrections, t \in Times : Correct(c, t) /\ current'.evidence = c
                     /\ Attested'
  <1>0. /\ current \in CurrentStates /\ TypeOK
        /\ current.status = "confirmed_placed" => current.evidence # None
        /\ current.placedAt # 0 => current.evidence # None
        /\ None \notin EventIds
    BY EventsAssumption DEF IInv, TypeOK, Attested
  <1>1. ASSUME RecordCommit PROVE Goal
    BY <1>1, RecordedEvidence DEF Attested
  <1>2. ASSUME NEW t \in Times, NEW s \in BOOLEAN, Observe(t, s) \/ SnapshotCommit(t, s)
        PROVE  Goal
    <2> DEFINE seen == Observed(t, s)
    <2>1. /\ seen \in CurrentStates /\ seen.evidence = current.evidence
          /\ seen.placedAt = current.placedAt
          /\ seen.status = "confirmed_placed" => current.status = "confirmed_placed"
      <3>1. seen = [current EXCEPT !.seen = t,
                       !.status = IF s /\ current.status = "confirmed_placed"
                                  THEN "confirmed_placed" ELSE "last_seen",
                       !.placement = KnownPlacement]
        BY <1>0 DEF Observed, CurrentStates
      <3> QED
        BY <1>0, <3>1, ObservedType DEF CurrentStates
    <2>2. current' = seen \/ current' = [seen EXCEPT !.shot = made["image"]]
      BY <1>2 DEF Observe, SnapshotCommit
    <2> HIDE DEF seen
    <2>3. /\ current'.status = seen.status /\ current'.evidence = current.evidence
          /\ current'.placedAt = current.placedAt
      BY <2>1, <2>2 DEF CurrentStates
    <2> QED
      BY <1>0, <2>1, <2>3 DEF Attested
  <1>3. ASSUME ObserveMissing PROVE Goal
    BY <1>0, <1>3 DEF ObserveMissing, CurrentStates, Attested
  <1>4. ASSUME NEW e \in EventIds, DeleteBegin(e) PROVE Goal /\ current'.evidence # e
    <2>1. current' = Detached(e)
      BY <1>4 DEF DeleteBegin
    <2>2. CASE current.evidence = e
      <3>1. current'.evidence = None /\ current'.placedAt = 0 /\ current'.status # "confirmed_placed"
        BY <1>0, <2>1, <2>2 DEF Detached, CurrentStates
      <3> QED
        BY <1>0, <3>1 DEF Attested
    <2>3. CASE current.evidence # e
      <3>1. /\ current'.evidence = current.evidence /\ current'.status = current.status
            /\ current'.placedAt \in {0, current.placedAt}
        BY <1>0, <2>1, <2>3 DEF Detached, CurrentStates
      <3> QED
        BY <1>0, <2>3, <3>1 DEF Attested
    <2> QED
      BY <2>2, <2>3
  <1>5. ASSUME NEW c \in Corrections, NEW t \in Times, Correct(c, t) PROVE Goal
    <2>1. current'.evidence = c /\ c # None
      BY <1>0, <1>5 DEF Correct, CurrentStates, EventIds
    <2> QED
      BY <1>5, <2>1 DEF Attested
  <1>6. ASSUME Forget PROVE Goal
    BY <1>6 DEF Forget, NoState, Attested
  <1>7. ASSUME UNCHANGED current PROVE Goal
    BY <1>0, <1>7 DEF Attested
  <1>8. Goal
    BY <1>1, <1>2, <1>3, <1>4, <1>5, <1>6, <1>7, CurrentWriters DEF CurrentSteps
  <1> QED
    BY <1>4, <1>8

LEMMA EvidenceShownStep == ASSUME IInv, Ledger, [Next]_vars PROVE EvidenceShown'
  <1> DEFINE e == current'.evidence
  <1>0. ImageActive /\ Attested /\ Attested' /\ ActiveMatches' /\ Superseded \subseteq MediaOf(None)
    BY EvidenceAfter, ActiveMatchesStep DEF Ledger, EvidenceShown, Superseded
  <1>1. CASE RecordCommit /\ e = subject
    BY <1>0, <1>1, RecordedRow DEF Kinds, EvidenceShown, ImageActive
  <1>2. ASSUME NEW c \in Corrections, NEW t \in Times, Correct(c, t) /\ e = c PROVE EvidenceShown'
    <2>1. events'[c].image = request["image"] /\ request["image"] # None
          /\ ActiveRow("image", c, request["image"]) \in media'
      BY <1>2, CorrectedRow DEF Kinds
    <2> QED
      BY <1>0, <1>2, <2>1 DEF EvidenceShown, ImageActive
  <1>3. CASE e = current.evidence /\ e # None
    <2> DEFINE image == events[e].image
               r == ActiveRow("image", e, image)
    <2>1. image # None /\ r \in media /\ e = current.evidence
      BY <1>0, <1>3 DEF ImageActive
    <2>2. r.status = "active" /\ r.event = e /\ r.kind = "image" /\ r.blob = image
      BY DEF ActiveRow
    <2>3. e \in Protected
      BY <1>3, <2>1 DEF Protected, Latest
    <2> HIDE DEF r, image, e
    <2>4. r \in media'
      <3>1. ASSUME NEW aged \in SUBSET EventIds, CleanupBegin(aged) PROVE r \notin PlanRows(aged)
        BY <1>3, <2>2, <2>3, <3>1, Beginnings
      <3>2. ~PressureBegin(r)
        <4>1. PressureBegin(r) => r.event \in Stored \ Protected
          BY <2>1, Beginnings
        <4> QED
          BY <2>2, <2>3, <4>1
      <3>3. ASSUME NEW d \in EventIds, DeleteBegin(d) PROVE r \notin MediaOf(d)
        BY <2>1, <2>2, <3>3, <1>0, EvidenceAfter DEF MediaOf, e
      <3>4. r.event # None
        BY <1>3, <2>2
      <3> QED
        BY <2>1, <2>2, <3>1, <3>2, <3>3, <3>4, RowsKept
    <2>5. events'[e].image = image
      <3>1. events'[r.event][r.kind] = r.blob
        BY <1>0, <1>3, <2>2, <2>4 DEF ActiveMatches
      <3> QED
        BY <2>2, <3>1
    <2> QED
      BY <1>0, <2>1, <2>4, <2>5 DEF EvidenceShown, ImageActive, r, e
  <1>4. CASE e = None
    BY <1>0, <1>4 DEF EvidenceShown, ImageActive
  <1> QED
    BY <1>0, <1>1, <1>2, <1>3, <1>4, EvidenceAfter

LEMMA ObserveImageStep == ASSUME IInv, Ledger, [Next]_vars PROVE ObserveImage'
  <1>0. /\ made \in [Kinds -> Maybe(Blobs)] /\ (holder = "observe" => made["clip"] = None)
        /\ holder \notin {"record", "observe"} => made = NoFiles
    BY DEF Ledger, ObserveImage, IInv, TypeOK, Writer
  <1>1. ASSUME NEW k \in Kinds, NEW b \in Blobs, WriteMedia(k, b) PROVE ObserveImage'
    BY <1>0, <1>1 DEF WriteMedia, ObserveImage, Kinds
  <1>2. ASSUME SnapshotBegin PROVE ObserveImage'
    BY <1>0, <1>2 DEF SnapshotBegin, ObserveImage, NoFiles, Kinds, writer
  <1>3. CASE UNCHANGED <<holder, made>>
    BY <1>0, <1>3 DEF ObserveImage
  <1>4. \/ holder' # "observe" \/ SnapshotBegin \/ UNCHANGED <<holder, made>>
        \/ \E k \in Kinds, b \in Blobs : WriteMedia(k, b)
    BY DEF Next, Recording, Observing, PurgeStep, Administration, vars, writer, purge, tables,
      RecordBegin, RecordCommit, RecordFail, DiscardFile, Observe, ObserveMissing,
      SnapshotCommit, SnapshotFail, SkipShown, Unlink, UnlinkFails, RecoverExpire, RecoverDrop,
      RecoverEnd, CleanupBegin, CleanupDrop, CleanupExpire, CleanupEvents, ReclaimOrphan,
      PressureBegin, PressureExpire, CleanupEnd, DeleteBegin, DeleteDrop, DeleteEnd,
      CorrectRead, CorrectRepeated, CorrectRefused, CorrectIgnored, Correct, Pin, Forget, Crash, Fault
  <1> QED
    BY <1>1, <1>2, <1>3, <1>4 DEF ObserveImage

LEMMA RowUnlinkedStep == ASSUME IInv, Ledger, [Next]_vars PROVE RowUnlinked'
  <1>0. /\ RowUnlinked /\ media \subseteq MediaRows
        /\ row # None => row.status = "pending_delete"
        /\ holder \notin Purging => row = None
    BY DEF Ledger, IInv, TypeOK, PurgeRows
  <1> SUFFICES ASSUME row' # None, row'.blob \in files' PROVE Shared(row)'
    BY DEF RowUnlinked
  <1>1. ASSUME NEW r \in todo, Unlink(r), row' = r PROVE Shared(row)'
    BY <1>1 DEF Unlink, Shared, tables
  <1>2. CASE row' = row
    <2>1. row # None /\ holder \in Purging
      BY <1>0, <1>2
    <2>2. files' \subseteq files
      BY <2>1, FilesWriters DEF FilesSteps, WriteMedia, SnapshotFail, Discard, DiscardFile, Unlink,
        ReclaimOrphan, Purging
    <2>3. PICK s \in media : s.status = "active" /\ s.blob = row.blob
      BY <1>0, <1>2, <2>1, <2>2 DEF RowUnlinked, Shared
    <2>4. s \in media'
      <3>1. ASSUME NEW aged \in SUBSET EventIds PROVE ~CleanupBegin(aged)
        BY <2>1 DEF CleanupBegin, Purging
      <3>2. ~PressureBegin(s)
        BY <2>1 DEF PressureBegin
      <3>3. ASSUME NEW e \in EventIds PROVE ~DeleteBegin(e)
        BY <2>1 DEF DeleteBegin, Purging
      <3>4. ASSUME NEW t \in Times, NEW b \in BOOLEAN PROVE ~SnapshotCommit(t, b)
        BY <2>1 DEF SnapshotCommit, Purging
      <3> QED
        BY <2>3, <3>1, <3>2, <3>3, <3>4, RowsKept
    <2> QED
      BY <1>2, <2>3, <2>4 DEF Shared
  <1> QED
    BY <1>1, <1>2, RowAfter

LEMMA FaultsGrow == ASSUME IInv, [Next]_vars, faults' = 0 PROVE faults = 0 /\ ~Fault
  <1>1. faults \in Nat
    BY BoundsAssumption DEF IInv, TypeOK
  <1>2. Fault \/ UNCHANGED faults
    BY DEF Next, Recording, Observing, PurgeStep, Administration, vars, Discard,
      RecordBegin, WriteMedia, RecordCommit, RecordFail, DiscardFile, Observe, ObserveMissing, SnapshotBegin,
      SnapshotCommit, SnapshotFail, SkipShown, Unlink, UnlinkFails, RecoverExpire, RecoverDrop,
      RecoverEnd, CleanupBegin, CleanupDrop, CleanupExpire, CleanupEvents, ReclaimOrphan,
      PressureBegin, PressureExpire, CleanupEnd, DeleteBegin, DeleteDrop, DeleteEnd,
      CorrectRead, CorrectRepeated, CorrectRefused, CorrectIgnored, Correct, Pin, Forget, Crash
  <1>3. ~Fault
    BY <1>1 DEF Fault
  <1> QED
    BY <1>1, <1>2, <1>3

\* A blob remains registered, unless the one row of it goes.
LEMMA RegisteredAfter ==
    ASSUME IInv, [Next]_vars
    PROVE  Registered \subseteq Registered' \cup (IF RowDrops THEN {row.blob} ELSE {})
  <1>0. media \subseteq MediaRows
    BY DEF IInv, TypeOK
  <1>1. ASSUME NEW rows, rows \subseteq media, media \ rows \subseteq media', Tombstone(rows) \subseteq media'
        PROVE  Registered \subseteq Registered'
    <2>1. ASSUME NEW r \in rows PROVE \E t \in Tombstone(rows) : t.blob = r.blob
      <3>1. r \in MediaRows /\ [r EXCEPT !.status = "pending_delete"] \in Tombstone(rows)
        BY <1>0, <1>1, <2>1 DEF Tombstone
      <3> QED
        BY <3>1 DEF MediaRows
    <2> QED
      BY <1>1, <2>1 DEF Registered
  <1>2. CASE RowDrops
    <2>1. media' = media \ {row}
      BY <1>2 DEF RowDrops, RecoverDrop, CleanupDrop, PressureExpire, DeleteDrop
    <2> QED
      BY <1>2, <2>1 DEF Registered
  <1>3. CASE media \subseteq media'
    BY <1>3 DEF Registered
  <1>4. CASE RecordCommit \/ \E c \in Corrections, t \in Times : Correct(c, t)
    BY <1>3, <1>4 DEF RecordCommit, Correct
  <1>5. ASSUME NEW t \in Times, NEW s \in BOOLEAN, SnapshotCommit(t, s) PROVE Registered \subseteq Registered'
    <2> DEFINE old == {r \in MediaOf(None) : r.status = "active"}
    <2>1. media \ old \subseteq media' /\ Tombstone(old) \subseteq media' /\ old \subseteq media
      BY <1>5 DEF SnapshotCommit, MediaOf
    <2> HIDE DEF old
    <2> QED
      BY <1>1, <2>1
  <1>6. CASE \/ \E aged \in SUBSET EventIds : CleanupBegin(aged)
             \/ \E r \in media : PressureBegin(r)
             \/ \E e \in EventIds : DeleteBegin(e)
    <2>1. \E rows \in SUBSET media : Tombstoned(rows)
      BY <1>6, Beginnings
    <2> QED
      BY <1>1, <2>1 DEF Tombstoned
  <1> QED
    BY <1>2, <1>3, <1>4, <1>5, <1>6, MediaWriters DEF MediaSteps, RowDrops

LEMMA FilesKnownStep == ASSUME IInv, Ledger, [Next]_vars PROVE FilesKnown'
  <1> SUFFICES ASSUME faults' = 0 PROVE files' \subseteq Registered' \cup discarded' \cup Written'
    BY DEF FilesKnown
  <1>0. /\ files \subseteq Registered \cup discarded \cup Written /\ ~Fault
        /\ made \in [Kinds -> Maybe(Blobs)] /\ RowUnlinked
        /\ row # None => row.status = "pending_delete"
    BY FaultsGrow DEF Ledger, FilesKnown, IInv, TypeOK, PurgeRows
  <1>1. ASSUME NEW k \in Kinds, NEW b \in Blobs, WriteMedia(k, b)
        PROVE  files' \subseteq Registered' \cup discarded' \cup Written'
    <2>1. Registered' = Registered /\ discarded' = discarded /\ files' = files \cup {b}
          /\ made' = [made EXCEPT ![k] = b] /\ made[k] = None /\ b # None
      BY <1>1, BlobsAssumption DEF WriteMedia, Registered, tables
    <2>2. Written \cup {b} \subseteq Written'
      BY <1>0, <2>1 DEF Written
    <2> QED
      BY <1>0, <2>1, <2>2
  <1>2. CASE RecordCommit
    <2>1. Written \subseteq Registered' /\ UNCHANGED <<files, discarded>>
      <3>1. ASSUME NEW k \in Kinds PROVE made[k] \in Registered'
        <4>1. ActiveRow(k, subject, made[k]) \in media'
          BY <1>2, RecordedRow
        <4>2. ActiveRow(k, subject, made[k]).blob = made[k]
          BY DEF ActiveRow
        <4> QED
          BY <4>1, <4>2 DEF Registered
      <3> QED
        BY <1>2, <3>1 DEF Written, RecordCommit
    <2>2. ~RowDrops
      BY <1>2 DEF RecordCommit, RowDrops, RecoverDrop, CleanupDrop, PressureExpire, DeleteDrop
    <2> QED
      BY <1>0, <2>1, <2>2, RegisteredAfter
  <1>3. CASE RecordFail
    BY <1>0, <1>3 DEF RecordFail, Registered, tables
  <1>4. ASSUME NEW b \in discarded, DiscardFile(b)
        PROVE  files' \subseteq Registered' \cup discarded' \cup Written'
    BY <1>0, <1>4 DEF DiscardFile, Registered, Written, tables
  <1>5. ASSUME NEW t \in Times, NEW s \in BOOLEAN, SnapshotCommit(t, s)
        PROVE  files' \subseteq Registered' \cup discarded' \cup Written'
    <2>1. Written \subseteq Registered' /\ UNCHANGED <<files, discarded>>
      <3>1. made["clip"] = None /\ ActiveRow("image", None, made["image"]) \in media'
        BY <1>5 DEF SnapshotCommit, Ledger, ObserveImage
      <3>2. made["image"] \in Registered'
        BY <3>1 DEF Registered, ActiveRow
      <3> QED
        BY <1>5, <3>1, <3>2 DEF Written, SnapshotCommit, Kinds
    <2>2. ~RowDrops
      BY <1>5 DEF SnapshotCommit, RowDrops, RecoverDrop, CleanupDrop, PressureExpire, DeleteDrop
    <2> QED
      BY <1>0, <2>1, <2>2, RegisteredAfter
  <1>6. CASE SnapshotFail
    BY <1>0, <1>6 DEF SnapshotFail, Discard, Registered, tables
  <1>7. CASE RowDrops
    <2>1. /\ UNCHANGED <<files, discarded>> /\ Written' = Written
          /\ media' = media \ {row} /\ row # None
      <3>1. UNCHANGED <<files, discarded, made>>
        BY <1>7 DEF RowDrops, RecoverDrop, CleanupDrop, PressureExpire, DeleteDrop, writer
      <3>2. media' = media \ {row} /\ row # None
        BY <1>7, NoneAssumption
        DEF RowDrops, RecoverDrop, CleanupDrop, PressureExpire, DeleteDrop, IInv, TypeOK
      <3> QED
        BY <3>1, <3>2 DEF Written
    <2>2. row.blob \in files => row.blob \in Registered'
      BY <1>0, <2>1 DEF RowUnlinked, Shared, Registered
    <2> QED
      BY <1>0, <1>7, <2>1, <2>2, RegisteredAfter
  <1>8. CASE files' \subseteq files /\ UNCHANGED <<discarded, made>> /\ ~RowDrops
    BY <1>0, <1>8, RegisteredAfter DEF Written
  <1>9. \/ \E k \in Kinds, b \in Blobs : WriteMedia(k, b)
        \/ RecordCommit \/ RecordFail \/ SnapshotFail \/ RowDrops
        \/ \E b \in discarded : DiscardFile(b)
        \/ \E t \in Times, s \in BOOLEAN : SnapshotCommit(t, s)
        \/ files' \subseteq files /\ UNCHANGED <<discarded, made>>
    BY <1>0, ZenonT(60)
    DEF Next, Recording, Observing, PurgeStep, Administration, vars, writer, tables, RowDrops,
      RecordBegin, Observe, ObserveMissing, SnapshotBegin,
      SkipShown, Unlink, UnlinkFails, RecoverExpire,
      RecoverEnd, CleanupBegin, CleanupExpire, CleanupEvents, ReclaimOrphan,
      PressureBegin, CleanupEnd, DeleteBegin, DeleteEnd,
      CorrectRead, CorrectRepeated, CorrectRefused, CorrectIgnored, Correct, Pin, Forget, Crash
  <1> QED
    BY <1>1, <1>2, <1>3, <1>4, <1>5, <1>6, <1>7, <1>8, <1>9

\* A confirmed event that survives a step keeps its rows, or a purge has begun
\* to take them.
LEMMA RowsKeptOf ==
    ASSUME IInv, Ledger, [Next]_vars, NEW e \in Stored, e \in Stored', Alike(e),
           NEW k \in Kinds, HasRow(e, k), ~HasRow(e, k)'
    PROVE  InPurge(e)'
  <1> DEFINE r == ActiveRow(k, e, events[e][k])
  <1>0. /\ e # None /\ events'[e][k] = events[e][k] /\ events'[e].root = events[e].root
        /\ media \subseteq MediaRows
    BY EventsAssumption DEF Alike, Stored, IInv, TypeOK
  <1>1. r \in media /\ r \notin media'
    BY <1>0 DEF HasRow, Manual
  <1>2. r.status = "active" /\ r.event = e
    BY DEF ActiveRow
  <1> HIDE DEF r
  <1>3. ASSUME NEW rows, rows \subseteq media, r \in rows, todo' = Tombstone(rows)
        PROVE  \E s \in Held' : s.event = e
    <2>1. r \in MediaRows /\ [r EXCEPT !.status = "pending_delete"] \in Tombstone(rows)
      BY <1>0, <1>1, <1>3 DEF Tombstone
    <2>2. [r EXCEPT !.status = "pending_delete"].event = e
      BY <1>2, <2>1 DEF MediaRows
    <2> QED
      BY <1>3, <2>1, <2>2 DEF Held
  <1>4. ASSUME NEW aged \in SUBSET EventIds, CleanupBegin(aged), r \in PlanRows(aged)
        PROVE  InPurge(e)'
    <2>1. holder' = "cleanup"
      BY <1>4 DEF CleanupBegin
    <2>2. PlanRows(aged) \subseteq media /\ todo' = Tombstone(PlanRows(aged))
      BY <1>4, Beginnings
    <2>3. \E s \in Held' : s.event = e
      BY <1>3, <1>4, <2>2
    <2> QED
      BY <2>1, <2>3 DEF InPurge
  <1>5. CASE PressureBegin(r)
    <2>1. holder' = "pressure" /\ todo' = Tombstone({r}) /\ {r} \subseteq media
      BY <1>1, <1>5 DEF PressureBegin
    <2>2. \E s \in Held' : s.event = e
      BY <1>3, <2>1
    <2> QED
      BY <2>1, <2>2 DEF InPurge
  <1>6. ASSUME NEW d \in EventIds, DeleteBegin(d), r \in MediaOf(d) PROVE InPurge(e)'
    BY <1>2, <1>6 DEF DeleteBegin, MediaOf, InPurge
  <1> QED
    BY <1>0, <1>1, <1>2, <1>4, <1>5, <1>6, RowsKept

\* What a purge has in hand it keeps, until the event is expired or deleted.
LEMMA InPurgeKept ==
    ASSUME IInv, Ledger, [Next]_vars, ~Fault, NEW e \in Stored, e \in Stored', Alike(e),
           events[e].evidence = "confirmed", InPurge(e)
    PROVE  InPurge(e)'
  <1>0. /\ e # None /\ (~Expires \/ e # row.event)
        /\ todo \subseteq media /\ media \subseteq MediaRows /\ row \in Maybe(MediaRows)
        /\ row # None => row \in MediaRows
    <2>1. ASSUME Expires, e = row.event PROVE FALSE
      <3>1. events'[row.event].evidence = "media_expired"
        BY <2>1, ExpiresRow, ExpiredRow DEF IInv
      <3> QED
        BY <2>1, <3>1 DEF Alike
    <2> QED
      BY <2>1, EventsAssumption DEF Stored, IInv, TypeOK, Maybe, PurgeRows
  <1>1. CASE holder = "delete" /\ e = subject
    <2>1. DeleteEnd \/ (holder' = "delete" /\ subject' = subject)
      BY <1>1
      DEF Next, Recording, Observing, PurgeStep, Administration, vars, writer, purge, tables, Purging, Discard,
        RecordBegin, WriteMedia, RecordCommit, RecordFail, DiscardFile, Observe, ObserveMissing, SnapshotBegin,
        SnapshotCommit, SnapshotFail, SkipShown, Unlink, UnlinkFails, RecoverExpire, RecoverDrop,
        RecoverEnd, CleanupBegin, CleanupDrop, CleanupExpire, CleanupEvents, ReclaimOrphan,
        PressureBegin, PressureExpire, CleanupEnd, DeleteBegin, DeleteDrop,
        CorrectRead, CorrectRepeated, CorrectRefused, CorrectIgnored, Correct, Pin, Forget, Crash
    <2>2. ~DeleteEnd
      BY <1>1 DEF DeleteEnd, Stored, IInv, TypeOK
    <2> QED
      BY <1>1, <2>1, <2>2 DEF InPurge
  <1>2. ASSUME holder = "cleanup"
        PROVE  \/ CleanupEvents
               \/ /\ holder' = "cleanup" /\ doomed' = doomed
                  /\ Held' = Held \/ CleanupDrop \/ CleanupExpire
    <2>1. \/ CleanupEvents
          \/ /\ holder' = "cleanup" /\ doomed' = doomed
             /\ UNCHANGED <<todo, row>> \/ CleanupDrop \/ CleanupExpire \/ \E r \in todo : Unlink(r)
      BY <1>2
      DEF Next, Recording, Observing, PurgeStep, Administration, vars, writer, purge, tables, Purging, Discard,
        RecordBegin, WriteMedia, RecordCommit, RecordFail, DiscardFile, Observe, ObserveMissing, SnapshotBegin,
        SnapshotCommit, SnapshotFail, SkipShown, Unlink, UnlinkFails, RecoverExpire, RecoverDrop,
        RecoverEnd, CleanupBegin, CleanupDrop, CleanupExpire, ReclaimOrphan,
        PressureBegin, PressureExpire, CleanupEnd, DeleteBegin, DeleteDrop, DeleteEnd,
        CorrectRead, CorrectRepeated, CorrectRefused, CorrectIgnored, Correct, Pin, Forget, Crash
    <2>2. ASSUME NEW r \in todo, Unlink(r) PROVE Held' = Held
      BY <1>0, <2>2, NoneAssumption DEF Unlink, Held
    <2>3. UNCHANGED <<todo, row>> => Held' = Held
      BY DEF Held
    <2> QED
      BY <2>1, <2>2, <2>3
  <1>3. CASE holder = "cleanup" /\ CleanupEvents
    <2>1. e \notin doomed /\ Held = {}
      <3>1. e \notin doomed
        BY <1>3 DEF CleanupEvents, Stored
      <3> QED
        BY <1>3, <3>1 DEF CleanupEvents, Held
    <2> QED
      BY <1>3, <2>1 DEF InPurge
  <1>4. CASE holder = "cleanup" /\ ~CleanupEvents
    <2>1. /\ holder' = "cleanup" /\ doomed' = doomed
          /\ Held' = Held \/ CleanupDrop \/ CleanupExpire
      BY <1>2, <1>4
    <2>2. CASE e \in doomed
      BY <2>1, <2>2 DEF InPurge
    <2>3. ASSUME e \notin doomed, NEW r \in Held, r.event = e PROVE r \in Held'
      <3>1. CASE CleanupDrop
        <4>1. todo' = todo /\ (r = row => row' = row)
          BY <1>0, <2>3, <3>1 DEF CleanupDrop, Stored
        <4> QED
          BY <2>3, <4>1 DEF Held
      <3>2. CASE CleanupExpire
        BY <1>0, <2>3, <3>2 DEF CleanupExpire, Expires, Held
      <3> QED
        BY <2>1, <2>3, <3>1, <3>2
    <2> QED
      BY <1>4, <2>1, <2>2, <2>3 DEF InPurge
  <1>5. CASE holder = "pressure"
    <2>1. PICK r \in Held : r.event = e
      BY <1>5 DEF InPurge
    <2>2. ~PressureExpire
      <3>1. ASSUME PressureExpire PROVE r = row
        <4>1. row \in Held
          BY <3>1 DEF PressureExpire, Held
        <4> QED
          BY <1>5, <2>1, <4>1 DEF Ledger, Retiring
      <3> QED
        BY <1>0, <2>1, <3>1 DEF Expires
    <2>3. todo # {} \/ row # None
      BY <2>1 DEF Held
    <2>4. holder' = "pressure" /\ (UNCHANGED <<todo, row>> \/ \E s \in todo : Unlink(s))
      BY <1>5, <2>2, <2>3
      DEF Next, Recording, Observing, PurgeStep, Administration, vars, writer, purge, tables, Purging, Discard,
        RecordBegin, WriteMedia, RecordCommit, RecordFail, DiscardFile, Observe, ObserveMissing, SnapshotBegin,
        SnapshotCommit, SnapshotFail, SkipShown, Unlink, UnlinkFails, RecoverExpire, RecoverDrop,
        RecoverEnd, CleanupBegin, CleanupDrop, CleanupExpire, CleanupEvents, ReclaimOrphan,
        PressureBegin, CleanupEnd, DeleteBegin, DeleteDrop, DeleteEnd,
        CorrectRead, CorrectRepeated, CorrectRefused, CorrectIgnored, Correct, Pin, Forget, Crash
    <2>5. ASSUME NEW s \in todo, Unlink(s) PROVE Held' = Held
      BY <1>0, <2>5, NoneAssumption DEF Unlink, Held
    <2>6. Held' = Held
      BY <2>4, <2>5 DEF Held
    <2> QED
      BY <2>1, <2>4, <2>6 DEF InPurge
  <1> QED
    BY <1>1, <1>3, <1>4, <1>5 DEF InPurge

LEMMA WholeStep == ASSUME IInv, Ledger, [Next]_vars PROVE Whole'
  <1> SUFFICES ASSUME faults' = 0, NEW e \in Stored', events'[e].evidence = "confirmed"
               PROVE  InPurge(e)' \/ \A k \in Kinds : HasRow(e, k)'
    BY DEF Whole
  <1>0. faults = 0 /\ ~Fault
    BY FaultsGrow
  <1>1. CASE e \in Stored
    <2>1. Alike(e)
      BY <1>1, EventAfter
    <2>2. events[e].evidence = "confirmed"
      BY <2>1 DEF Alike
    <2>3. CASE InPurge(e)
      BY <1>0, <1>1, <2>1, <2>2, <2>3, InPurgeKept
    <2>4. CASE \A k \in Kinds : HasRow(e, k)
      BY <1>1, <2>1, <2>4, RowsKeptOf
    <2> QED
      BY <1>0, <1>1, <2>2, <2>3, <2>4 DEF Ledger, Whole
  <1>2. CASE RecordCommit /\ e = subject
    BY <1>2, RecordedRow DEF HasRow
  <1>3. ASSUME NEW c \in Corrections, NEW t \in Times, Correct(c, t), e = c
        PROVE  \A k \in Kinds : HasRow(e, k)'
    BY <1>3, CorrectedRow DEF HasRow, Manual
  <1> QED
    BY <1>1, <1>2, <1>3, StoredSteps

-----------------------------------------------------------------------------
\* The plan depends on the events and the current state only.
LEMMA ExcessSame ==
    ASSUME Stored' = Stored, current' = current,
           \A f \in Stored : /\ events'[f].root = events[f].root /\ events'[f].pinned = events[f].pinned
                             /\ events'[f].at = events[f].at /\ (Retained(f)' <=> Retained(f))
    PROVE  Excess' = Excess
  <1>1. ManualEvents' = ManualEvents /\ Pinned' = Pinned
    BY DEF ManualEvents, Manual, Pinned
  <1>2. Roots' = Roots
    BY <1>1 DEF Roots, ManualEvents
  <1>3. Latest' = Latest /\ Dependencies' = Dependencies
    BY <1>2 DEF Latest, Dependencies
  <1>4. Protected' = Protected
    BY <1>1, <1>3 DEF Protected
  <1> DEFINE held == {e \in Stored : Retained(e) /\ ~events[e].pinned /\ ~Manual(e) /\ e \in Latest}
  <1>5. held' = held
    BY <1>3 DEF Manual
  <1>6. Slots' = Slots
    BY <1>5 DEF Slots
  <1>7. Eligible' = Eligible /\ Eligible \subseteq Stored
    BY <1>4 DEF Eligible
  <1>8. \A e \in Eligible : Newer(e, Eligible)' = Newer(e, Eligible)
    BY <1>7 DEF Newer
  <1>9. {e \in Stored \ Protected : ~Retained(e)}' = {e \in Stored \ Protected : ~Retained(e)}
    BY <1>4
  <1>10. {e \in Eligible : Cardinality(Newer(e, Eligible)) >= Slots}'
            = {e \in Eligible : Cardinality(Newer(e, Eligible)) >= Slots}
    BY <1>6, <1>7, <1>8
  <1> QED
    BY <1>9, <1>10 DEF Excess

LEMMA PlannedStep == ASSUME IInv, Ledger, [Next]_vars PROVE Planned'
  <1> SUFFICES ASSUME holder' = "cleanup"
               PROVE  /\ doomed' = Excess'
                      /\ row' # None /\ row' \notin media' => row'.event \notin doomed'
                      /\ Policy = "MINIMAL" => \A r \in Held' : r.event \in doomed' \cup {None}
    BY DEF Planned
  <1>0. /\ todo \subseteq media /\ media \subseteq MediaRows /\ TypeOK
        /\ row # None => row \in MediaRows
    BY DEF IInv, PurgeRows, TypeOK, Maybe
  <1>e. UNCHANGED <<events, current>> => Excess' = Excess
    <2>1. ASSUME UNCHANGED <<events, current>>
          PROVE  /\ Stored' = Stored
                 /\ \A f \in Stored : /\ events'[f].root = events[f].root
                                      /\ events'[f].pinned = events[f].pinned
                                      /\ events'[f].at = events[f].at /\ (Retained(f)' <=> Retained(f))
      BY <2>1 DEF Stored, Retained
    <2> QED
      BY <2>1, ExcessSame
  <1>1. ASSUME NEW aged \in SUBSET EventIds, CleanupBegin(aged)
        PROVE  /\ doomed' = Excess' /\ row' = None
               /\ Policy = "MINIMAL" => \A r \in Held' : r.event \in doomed' \cup {None}
    <2>1. doomed' = Excess /\ UNCHANGED <<events, current>> /\ aged \subseteq CanAge
      BY <1>1 DEF CleanupBegin
    <2>2. /\ todo' = Tombstone(PlanRows(aged)) /\ row' = None /\ PlanRows(aged) \subseteq media
          /\ \A r \in PlanRows(aged) : r.event = None \/ r.event \in Excess \cup aged
      BY <1>1, Beginnings
    <2>3. Policy = "MINIMAL" => aged = {}
      BY <2>1 DEF CanAge
    <2>4. \A r \in Tombstone(PlanRows(aged)) : \E s \in PlanRows(aged) : r.event = s.event
      <3>1. PlanRows(aged) \subseteq MediaRows
        BY <1>0, <2>2
      <3> QED
        BY <3>1, TombstoneOf
    <2> QED
      BY <1>e, <2>1, <2>2, <2>3, <2>4 DEF Held
  <1>2. CASE holder = "cleanup" /\ UNCHANGED <<doomed, current>>
    <2>0. /\ doomed = Excess /\ Held' \subseteq Held
          /\ row # None /\ row \notin media => row.event \notin doomed
          /\ Policy = "MINIMAL" => \A r \in Held : r.event \in doomed \cup {None}
      BY <1>2, CleanupHeld DEF Ledger, Planned
    <2>1. CASE CleanupExpire
      <3>1. /\ row \in Held /\ row \notin media /\ row' = None /\ row.event \in Stored /\ row.kind \in Kinds
            /\ events' = Expired(row.event, row.kind)
        BY <1>0, <2>1 DEF CleanupExpire, Held, IInv, ExpiringRow, MediaRows
      <3>2. Policy # "MINIMAL"
        <4>1. row # None
          BY <2>1 DEF CleanupExpire
        <4>2. row.event \notin doomed
          BY <2>0, <3>1, <4>1
        <4>3. row.event # None
          BY <3>1, EventsAssumption DEF Stored
        <4> QED
          BY <2>0, <3>1, <4>2, <4>3
      <3>3. /\ Stored' = Stored
            /\ \A f \in Stored : /\ events'[f].root = events[f].root /\ events'[f].pinned = events[f].pinned
                                 /\ events'[f].at = events[f].at /\ (Retained(f)' <=> Retained(f))
        <4>1. /\ \A f \in Stored : f # row.event => events'[f] = events[f]
              /\ events'[row.event].at = events[row.event].at
          BY <1>0, <3>1, ExpiredRow
        <4>2. \A f \in Stored : events'[f].at = events[f].at
          BY <4>1
        <4>3. /\ Stored' = Stored
              /\ \A f \in Stored : events'[f].root = events[f].root /\ events'[f].pinned = events[f].pinned
          BY <1>0, <3>1, ExpiredKeeps
        <4> QED
          BY <3>2, <4>2, <4>3 DEF Retained
      <3>4. Excess' = Excess
        BY <1>2, <3>3, ExcessSame
      <3> QED
        BY <1>2, <2>0, <3>1, <3>2, <3>4
    <2>2. CASE UNCHANGED events
      <3>1. row' # None /\ row' \notin media' => row'.event \notin doomed'
        <4>1. ASSUME NEW r \in todo, Unlink(r) PROVE row' \in media'
          BY <1>0, <4>1 DEF Unlink, tables
        <4>2. CASE CleanupDrop
          BY <1>0, <1>2, <4>2 DEF CleanupDrop
        <4>3. UNCHANGED <<row, media>> \/ CleanupDrop \/ (\E r \in todo : Unlink(r)) \/ row' = None
          BY <1>2
          DEF Next, Recording, Observing, PurgeStep, Administration, vars, writer, purge, tables, Purging, Discard,
            RecordBegin, WriteMedia, RecordCommit, RecordFail, DiscardFile, Observe, ObserveMissing, SnapshotBegin,
            SnapshotCommit, SnapshotFail, SkipShown, UnlinkFails, RecoverExpire, RecoverDrop,
            RecoverEnd, CleanupBegin, CleanupExpire, CleanupEvents, ReclaimOrphan,
            PressureBegin, PressureExpire, CleanupEnd, DeleteBegin, DeleteDrop, DeleteEnd,
            CorrectRead, CorrectRepeated, CorrectRefused, CorrectIgnored, Correct, Pin, Forget, Crash
        <4> QED
          BY <1>2, <2>0, <4>1, <4>2, <4>3
      <3> QED
        BY <1>2, <1>e, <2>0, <2>2, <3>1
    <2> QED
      BY <1>2, <2>1, <2>2, InCleanup, <1>1
  <1> QED
    BY <1>1, <1>2, InCleanup

LEMMA InRecord ==
    [Next]_vars /\ holder' = "record"
        => \/ \E e \in Movements : RecordBegin(e)
           \/ UNCHANGED <<holder, subject, events>>
  BY DEF Next, Recording, Observing, PurgeStep, Administration, vars, writer, purge, tables,
    WriteMedia, RecordCommit, RecordFail, DiscardFile, Observe, ObserveMissing, SnapshotBegin,
    SnapshotCommit, SnapshotFail, SkipShown, Unlink, UnlinkFails, RecoverExpire, RecoverDrop,
    RecoverEnd, CleanupBegin, CleanupDrop, CleanupExpire, CleanupEvents, ReclaimOrphan,
    PressureBegin, PressureExpire, CleanupEnd, DeleteBegin, DeleteDrop, DeleteEnd,
    CorrectRead, CorrectRepeated, CorrectRefused, CorrectIgnored, Correct, Pin, Forget, Crash, Fault

\* A row keeps its time and its root, so only a new one may meet another.
LEMMA WindowedStep == ASSUME IInv, Ledger, [Next]_vars PROVE Windowed'
  <1>0. WindowOnce /\ (holder = "record" => WindowFree(subject))
    BY DEF Ledger, Windowed
  <1>1. ASSUME NEW f \in Stored, f \in Stored'
        PROVE  events'[f].at = events[f].at /\ (Manual(f)' <=> Manual(f))
    <2>1. events'[f].at = events[f].at
      BY <1>1, EventAfter DEF Alike
    <2>2. events'[f].root = events[f].root
      BY <1>1, StoredSteps
    <2> QED
      BY <2>1, <2>2 DEF Manual
  <1>2. CASE RecordCommit
    <2>1. /\ Stored' = Stored \cup {subject} /\ events'[subject].at = At[subject]
          /\ holder = "record" /\ holder' = "nobody"
      <3>1. events'[subject].at = At[subject]
        BY <1>2, RecordedRow
      <3> QED
        BY <1>2, <3>1, StoredSteps DEF RecordCommit
    <2>2. ASSUME NEW f \in Stored, ~Manual(f)' PROVE events'[f].at # events'[subject].at
      BY <1>0, <1>1, <2>1, <2>2 DEF WindowFree
    <2>3. ASSUME NEW e \in (Stored \ ManualEvents)', NEW f \in (Stored \ ManualEvents)', e # f
          PROVE  events'[e].at # events'[f].at
      <3>1. ~Manual(e)' /\ ~Manual(f)' /\ e \in Stored' /\ f \in Stored'
        BY <2>3 DEF ManualEvents
      <3>2. CASE e \in Stored /\ f \in Stored
        BY <1>0, <1>1, <2>3, <3>1, <3>2 DEF WindowOnce, ManualEvents
      <3> QED
        BY <2>1, <2>2, <2>3, <3>1, <3>2
    <2> QED
      BY <2>1, <2>3 DEF Windowed, WindowOnce
  <1>3. ASSUME NEW c \in Corrections, NEW t \in Times, Correct(c, t) PROVE Windowed'
    <2>1. /\ Stored' = Stored \cup {c} /\ Manual(c)' /\ holder' = "nobody"
      BY <1>3, StoredSteps, CorrectedRow DEF Correct, Manual
    <2>2. \A f \in (Stored \ ManualEvents)' : f \in Stored \ ManualEvents /\ events'[f].at = events[f].at
      BY <1>1, <2>1 DEF ManualEvents
    <2> QED
      BY <1>0, <2>1, <2>2 DEF Windowed, WindowOnce
  <1>4. CASE Stored' \subseteq Stored
    <2>1. \A f \in (Stored \ ManualEvents)' : f \in Stored \ ManualEvents /\ events'[f].at = events[f].at
      BY <1>1, <1>4 DEF ManualEvents
    <2>2. WindowOnce'
      BY <1>0, <2>1 DEF WindowOnce
    <2>3. ASSUME NEW e \in Movements, RecordBegin(e) PROVE WindowFree(subject)'
      BY <2>3 DEF RecordBegin, WindowFree, tables, Stored, Manual
    <2>4. holder = "record" /\ subject' = subject => WindowFree(subject)'
      BY <1>0, <1>1, <1>4 DEF WindowFree
    <2> QED
      BY <2>2, <2>3, <2>4, InRecord DEF Windowed
  <1> QED
    BY <1>2, <1>3, <1>4, StoredSteps

LEMMA FiniteStep == ASSUME IInv, Ledger, [Next]_vars PROVE IsFiniteSet(Stored')
  <1>0. IsFiniteSet(Stored)
    BY DEF Ledger
  <1>1. \A x : IsFiniteSet(Stored \cup {x})
    BY <1>0, FS_AddElement
  <1>2. \A S \in SUBSET Stored : IsFiniteSet(S)
    BY <1>0, FS_Subset
  <1>3. (\E x : Stored' = Stored \cup {x}) \/ Stored' \subseteq Stored
    BY StoredSteps
  <1> QED
    BY <1>1, <1>2, <1>3

LEMMA InitLedger == Init => Ledger
  <1> SUFFICES ASSUME Init PROVE Ledger
    OBVIOUS
  <1>1. Stored = {} /\ Held = {} /\ media = {} /\ row = None /\ files = {}
    BY DEF Init, Stored, Held
  <1>2. IsFiniteSet(Stored)
    BY <1>1, FS_EmptySet
  <1>3. EvidenceShown /\ ObserveImage /\ Retiring /\ Planned /\ Windowed
    BY <1>1 DEF Init, NoState, EvidenceShown, ImageActive, Attested, ObserveImage, Retiring, Planned,
      Windowed, WindowOnce
  <1> QED
    BY <1>1, <1>2, <1>3 DEF Ledger, Untwinned, ActiveMatches, RowUnlinked, FilesKnown, Whole

LEMMA LedgerAlways == Spec => [](IInv /\ Ledger)
  <1>1. IInv /\ Ledger /\ [Next]_vars => (IInv /\ Ledger)'
    <2> SUFFICES ASSUME IInv, Ledger, [Next]_vars PROVE IInv' /\ Ledger'
      OBVIOUS
    <2>1. Ledger'
      BY UntwinnedStep, ActiveMatchesStep, RetiringStep, EvidenceShownStep, ObserveImageStep,
         RowUnlinkedStep, FilesKnownStep, WholeStep, PlannedStep, WindowedStep,
         FiniteStep DEF Ledger
    <2> QED
      BY <2>1, StepIInv
  <1> QED
    BY <1>1, InitIInv, InitLedger, PTL DEF Spec

\* In every reachable state, whatever crash, failed unlink, correction or late
\* callback came before, the tables hold well typed rows, the current state
\* points at stored events only, no root movement is deleted before its
\* correction, and "confirmed_placed" is shown only with a stored placement.
THEOREM RowsLinkedAlways == Spec => []RowsLinked
  <1>1. IInv => RowsLinked
    BY DEF IInv, RowsLinked
  <1> QED
    BY <1>1, Invariance, PTL

\* An active media row always names a file that exists, and the screenshot on
\* display is registered and on disk.
THEOREM FilesBackedAlways == Spec => []FilesBacked
  <1>1. IInv => MediaBacked
    BY DEF IInv
  <1>2. IInv => ShownScreenshotExists
    <2>1. ActiveRow("image", None, current.shot).status = "active"
          /\ ActiveRow("image", None, current.shot).blob = current.shot
      BY DEF ActiveRow
    <2> QED
      BY <2>1 DEF IInv, ShownRegistered, MediaBacked, ShownScreenshotExists
  <1> QED
    BY <1>1, <1>2, Invariance, PTL DEF FilesBacked

\* No callback or observation, however late, turns back the last sighting or
\* the time of the last placement.
THEOREM NoRewindAlways == Spec => NoRewind
  <1> DEFINE Forward == \/ request' # request \/ holder' = "delete" \/ current' = NoState
                        \/ current'.seen >= current.seen /\ current'.placedAt >= current.placedAt
  <1>1. IInv /\ [Next]_vars => Forward
    <2> SUFFICES ASSUME IInv, [Next]_vars PROVE Forward
      OBVIOUS
    <2>0. /\ current \in CurrentStates /\ Times \subseteq Int
          /\ current.seen \in Int /\ current.placedAt \in Int
      BY BoundsAssumption DEF IInv, TypeOK, CurrentStates, Times
    <2>1. CASE RecordCommit
      BY <2>1, Recorded
    <2>2. ASSUME NEW t \in Times, NEW s \in BOOLEAN, Observe(t, s) \/ SnapshotCommit(t, s)
          PROVE  Forward
      <3> DEFINE seen == Observed(t, s)
      <3>1. seen \in CurrentStates /\ seen.seen = t /\ seen.placedAt = current.placedAt
        BY <2>0, ObservedType DEF Observed, IInv, CurrentStates
      <3>2. t >= current.seen /\ (current' = seen \/ current' = [seen EXCEPT !.shot = made["image"]])
        BY <2>2 DEF Observe, SnapshotCommit
      <3> HIDE DEF seen
      <3> QED
        BY <2>0, <3>1, <3>2 DEF CurrentStates
    <2>3. CASE ObserveMissing
      BY <2>0, <2>3 DEF ObserveMissing, CurrentStates
    <2>4. ASSUME NEW e \in EventIds, DeleteBegin(e) PROVE Forward
      BY <2>4 DEF DeleteBegin
    <2>5. ASSUME NEW c \in Corrections, NEW t \in Times, Correct(c, t) PROVE Forward
      BY <2>5, EventsAssumption DEF Correct
    <2>6. CASE Forget
      BY <2>6 DEF Forget
    <2>7. CASE UNCHANGED current
      BY <2>0, <2>7
    <2> QED
      BY <2>1, <2>2, <2>3, <2>4, <2>5, <2>6, <2>7, CurrentWriters DEF CurrentSteps
  <1>2. IInv /\ [Next]_vars => [Forward]_vars
    BY <1>1
  <1> QED
    BY <1>2, Invariance, PTL DEF Spec, NoRewind

\* Cleanup deletes no protected event, although its plan is older than the
\* transaction that deletes the rows.
THEOREM ProtectedSurviveAlways == Spec => ProtectedSurvive
  <1> DEFINE Kept == holder = "cleanup" => \A e \in Protected : e \in Stored => e \in Stored'
  <1>1. IInv /\ [Next]_vars => Kept
    <2> SUFFICES ASSUME IInv, [Next]_vars, holder = "cleanup", NEW e \in Protected, e \in Stored
                 PROVE  e \in Stored'
      OBVIOUS
    <2>1. CASE CleanupEvents /\ Stored' = Stored \ doomed
      BY <2>1 DEF IInv, DoomedUnprotected
    <2>2. ~DeleteEnd
      BY DEF DeleteEnd
    <2> QED
      BY <2>1, <2>2, StoredSteps
  <1>2. IInv /\ [Next]_vars => [Kept]_vars
    BY <1>1
  <1> QED
    BY <1>2, Invariance, PTL DEF Spec, ProtectedSurvive

LEMMA LedgerAccounts == ASSUME IInv, Ledger PROVE MediaAccounted
  <1>0. /\ media \subseteq MediaRows /\ MediaBacked /\ EvidenceLinked /\ ActiveMatches /\ EvidenceShown
        /\ \A e \in Stored : e # None /\ e \in EventIds
    BY EventsAssumption DEF IInv, Ledger, TypeOK, Stored
  <1>a. \A k \in Kinds, e \in EventIds : \A b : ActiveRow(k, e, b) \in media => b \in files
    <2> SUFFICES ASSUME NEW k \in Kinds, NEW e \in EventIds, NEW b, ActiveRow(k, e, b) \in media
                 PROVE  b \in files
      OBVIOUS
    <2>1. ActiveRow(k, e, b).status = "active" /\ ActiveRow(k, e, b).blob = b
      BY DEF ActiveRow
    <2> QED
      BY <1>0, <2>1 DEF MediaBacked
  <1>1. ASSUME holder = "nobody", faults = 0, NEW e \in Stored, events[e].evidence = "confirmed"
        PROVE  /\ HasRow(e, "image") /\ HasRow(e, "clip")
               /\ {events[e].image, events[e].clip} \subseteq files \cup (IF Manual(e) THEN {None} ELSE {})
    <2>1. ~InPurge(e)
      BY <1>1 DEF InPurge
    <2>2. HasRow(e, "image") /\ HasRow(e, "clip")
      BY <1>1, <2>1 DEF Ledger, Whole, Kinds
    <2>3. \A k \in Kinds : HasRow(e, k) => events[e][k] \in files \cup (IF Manual(e) THEN {None} ELSE {})
      BY <1>0, <1>a DEF HasRow
    <2> QED
      BY <2>2, <2>3 DEF Kinds
  <1>2. ConfirmedHasMedia
    BY <1>1 DEF ConfirmedHasMedia
  <1>3. FilesAccounted
    <2>1. holder = "nobody" => Written = {}
      BY DEF IInv, Writer, Written, NoFiles
    <2> QED
      BY <2>1 DEF FilesAccounted, Ledger, FilesKnown
  <1>4. ASSUME NEW e \in Stored \cap Accepted, ShownEvent(e) = "confirmed"
        PROVE  {events[e].image, events[e].clip} \subseteq files
    BY <1>4 DEF ShownEvent, ReadIntegrity, Kinds
  <1>5. ASSUME ShownStatus = "confirmed_placed" PROVE events[current.evidence].image \in files
    <2>1. current.status = "confirmed_placed"
      BY <1>5 DEF ShownStatus
    <2>2. ActiveRow("image", current.evidence, events[current.evidence].image) \in media
          /\ current.evidence \in EventIds
      BY <1>0, <2>1 DEF EvidenceShown, ImageActive, Attested, EvidenceLinked
    <2> QED
      BY <1>a, <2>2 DEF Kinds
  <1>6. ASSUME holder = "nobody", faults = 0, NEW e \in Stored, events[e].evidence = "confirmed"
        PROVE  ShownEvent(e) = "confirmed"
    <2>1. CASE e \notin Accepted
      BY <1>6, <2>1 DEF ShownEvent
    <2>2. CASE e \in Accepted
      <3> DEFINE image == ActiveRow("image", e, events[e]["image"])
                 clip == ActiveRow("clip", e, events[e]["clip"])
                 found == {r \in MediaOf(e) : r.status = "active"}
      <3>1. ~Manual(e)
        BY <2>2, EventsAssumption DEF IInv, ManualAreCorrections, Manual
      <3>2. image \in media /\ clip \in media
        BY <1>1, <1>6, <3>1 DEF HasRow
      <3>3. /\ image.status = "active" /\ image.event = e /\ image.kind = "image"
            /\ clip.status = "active" /\ clip.event = e /\ clip.kind = "clip"
        BY DEF ActiveRow
      <3>4. ASSUME NEW r \in found PROVE r \in {image, clip}
        <4>1. r \in MediaRows /\ r.status = "active" /\ r.event = e
          BY <1>0 DEF MediaOf
        <4>2. events[e][r.kind] = r.blob /\ r.kind \in Kinds
          BY <1>0, <4>1 DEF ActiveMatches, MediaOf, MediaRows
        <4>3. r = ActiveRow(r.kind, e, events[e][r.kind])
          BY <4>1, <4>2, TwinOf DEF Twin
        <4> QED
          BY <4>2, <4>3 DEF Kinds
      <3>5. found = {image, clip} /\ image # clip
        BY <3>2, <3>3, <3>4 DEF MediaOf
      <3> HIDE DEF found, image, clip
      <3>6. \A x, y : x # y => Cardinality({x, y}) = 2
        <4> SUFFICES ASSUME NEW x, NEW y, x # y PROVE Cardinality({x, y}) = 2
          OBVIOUS
        <4>1. IsFiniteSet({x}) /\ Cardinality({x}) = 1
          BY FS_Singleton
        <4>2. Cardinality({x} \cup {y}) = 2
          BY <4>1, FS_AddElement
        <4>3. {x, y} = {x} \cup {y}
          OBVIOUS
        <4> QED
          BY <4>2, <4>3
      <3>7. Cardinality(found) = Cardinality(Kinds)
        BY <3>5, <3>6 DEF Kinds
      <3>8. events[e]["image"] \in files /\ events[e]["clip"] \in files
        BY <1>0, <1>a, <3>2 DEF image, clip, Kinds
      <3>9. ReadIntegrity(e)
        BY <3>2, <3>7, <3>8 DEF ReadIntegrity, found, image, clip, Kinds
      <3> QED
        BY <1>6, <3>9 DEF ShownEvent
    <2> QED
      BY <2>1, <2>2
  <1> QED
    BY <1>2, <1>3, <1>4, <1>5, <1>6 DEF MediaAccounted, ShownBacked, Ledger, Windowed

\* Between operations every event labelled confirmed has all its media and every
\* file an owner, as long as nothing failed; and whatever failed, what is shown
\* as confirmed can be looked at, amid a purge and after every crash, and no
\* source window is recorded as two movements.
THEOREM MediaAccountedAlways == Spec => []MediaAccounted
  <1>1. IInv /\ Ledger => MediaAccounted
    BY LedgerAccounts
  <1> QED
    BY <1>1, LedgerAlways, PTL

\* Movements of different times are no more than the slots if each has fewer
\* newer ones than there are slots.
LEMMA SlotsBound ==
    ASSUME NEW S, IsFiniteSet(S), NEW n \in Nat, n # 0, NEW at, \A e \in S : at[e] \in Int,
           \A e, f \in S : e # f => at[e] # at[f],
           \A e \in S : Cardinality({f \in S : at[f] > at[e]}) < n
    PROVE  Cardinality(S) <= n
  <1> DEFINE Above(e) == {f \in S : at[f] > at[e]}
             rank == [e \in S |-> Cardinality(Above(e))]
  <1>1. ASSUME NEW e \in S PROVE IsFiniteSet(Above(e)) /\ Cardinality(Above(e)) \in 0..(n - 1)
    <2>1. IsFiniteSet(Above(e)) /\ Cardinality(Above(e)) \in Nat
      BY FS_Subset, FS_CardinalityType
    <2>2. Cardinality(Above(e)) < n
      OBVIOUS
    <2> HIDE DEF Above
    <2> QED
      BY <2>1, <2>2
  <1>2. ASSUME NEW e \in S, NEW f \in S, at[f] > at[e] PROVE Cardinality(Above(f)) # Cardinality(Above(e))
    <2>1. Above(f) \subseteq Above(e) /\ f \in Above(e) /\ f \notin Above(f)
      BY <1>2
    <2> HIDE DEF Above
    <2> QED
      BY <1>1, <2>1, FS_Subset
  <1> HIDE DEF Above
  <1>3. rank \in Injection(S, 0..(n - 1))
    <2>1. rank \in [S -> 0..(n - 1)]
      BY <1>1
    <2>2. ASSUME NEW e \in S, NEW f \in S, rank[e] = rank[f] PROVE e = f
      <3>1. ~(at[f] > at[e]) /\ ~(at[e] > at[f])
        BY <1>2, <2>2
      <3> QED
        BY <3>1
    <2> HIDE DEF rank
    <2> QED
      BY <2>1, <2>2 DEF Injection, IsInjective
  <1> HIDE DEF rank
  <1>4. IsFiniteSet(0..(n - 1)) /\ Cardinality(0..(n - 1)) = n
    BY FS_Interval
  <1> QED
    BY <1>3, <1>4, FS_Injection

\* A cleanup leaves no more movements than the policy has slots for, but for the
\* current one, and none that is neither retained nor protected; what it deletes
\* is older than all that stays without protection.  So although it runs on a
\* plan, expires media meanwhile and may follow any crash.
THEOREM HistoryBoundedAlways == Spec => HistoryBounded
  <1>1. ASSUME IInv, Ledger, [Next]_vars, holder = "cleanup", holder' = "pressure"
        PROVE  WithinLimits' /\ OldestGo
    <2>1. CleanupEvents
      BY <1>1
      DEF Next, Recording, Observing, PurgeStep, Administration, vars, writer, purge, tables, Purging, Discard,
        RecordBegin, WriteMedia, RecordCommit, RecordFail, DiscardFile, Observe, ObserveMissing, SnapshotBegin,
        SnapshotCommit, SnapshotFail, SkipShown, Unlink, UnlinkFails, RecoverExpire, RecoverDrop,
        RecoverEnd, CleanupBegin, CleanupDrop, CleanupExpire, ReclaimOrphan,
        PressureBegin, PressureExpire, CleanupEnd, DeleteBegin, DeleteDrop, DeleteEnd,
        CorrectRead, CorrectRepeated, CorrectRefused, CorrectIgnored, Correct, Pin, Forget, Crash
    <2>2. /\ doomed = Excess /\ doomed \cap Protected = {} /\ IsFiniteSet(Stored)
          /\ EvidenceLinked /\ current' = current
      BY <1>1, <2>1 DEF IInv, Ledger, Planned, DoomedUnprotected, CleanupEvents
    <2>3. Stored' = Stored \ Excess /\ \A e \in Stored' : events'[e] = events[e]
      BY <2>1, <2>2 DEF CleanupEvents, Stored
    <2>4. /\ Protected \cap Stored \subseteq Stored'
          /\ Pinned \cup ManualEvents \subseteq Protected \cap Stored
          /\ Latest \cup Dependencies \subseteq Protected
      BY <2>2, <2>3 DEF Protected, Pinned, ManualEvents
    <2>5. Pinned' = Pinned /\ ManualEvents' = ManualEvents
      BY <2>3, <2>4 DEF Pinned, ManualEvents, Manual
    <2>6. Roots' = Roots
      BY <2>3, <2>4, <2>5 DEF Roots
    <2>7. Latest' = Latest /\ Dependencies' = Dependencies
      <3>1. {current.placement} \cap Stored \subseteq Latest \cup Dependencies
        BY EventsAssumption DEF Latest, Dependencies, Stored
      <3>2. {current.placement} \cap Stored' = {current.placement} \cap Stored
        BY <2>3, <2>4, <3>1
      <3> QED
        BY <2>2, <2>6, <3>2 DEF Latest, Dependencies
    <2>8. Protected' = Protected
      BY <2>5, <2>7 DEF Protected
    <2> DEFINE held == {e \in Stored : Retained(e) /\ ~events[e].pinned /\ ~Manual(e) /\ e \in Latest}
    <2>9. Slots' = Slots /\ Slots \in Int
      <3>1. held' = held
        BY <2>3, <2>4, <2>7 DEF Retained, Manual
      <3>2. Cardinality(held) \in Nat
        <4>1. held \subseteq Stored
          OBVIOUS
        <4> HIDE DEF held
        <4> QED
          BY <2>2, <4>1, FS_Subset, FS_CardinalityType
      <3>3. Slots = IF KeepN > Cardinality(held) THEN KeepN - Cardinality(held) ELSE 0
        BY DEF Slots
      <3>4. Slots' = IF KeepN > Cardinality(held') THEN KeepN - Cardinality(held') ELSE 0
        BY DEF Slots
      <3> HIDE DEF held
      <3> QED
        BY <3>1, <3>2, <3>3, <3>4, PolicyAssumption
    <2>10. Eligible' = Eligible \ Excess /\ Eligible \subseteq Stored
      BY <2>3, <2>8 DEF Eligible, Retained
    <2>11. {e \in Stored \ Protected : ~Retained(e)}' = {}
      <3>1. \A e \in Stored : ~Retained(e) /\ e \notin Protected => e \in Excess
        BY DEF Excess
      <3>2. \A e \in Stored' : Retained(e)' <=> Retained(e)
        BY <2>3 DEF Retained
      <3> QED
        BY <2>3, <2>8, <3>1, <3>2
    <2>12. ASSUME NEW e \in Eligible' PROVE ~(Cardinality(Newer(e, Eligible)') >= Slots')
      <3>1. Newer(e, Eligible)' \subseteq Newer(e, Eligible) /\ Newer(e, Eligible) \subseteq Stored
        BY <2>3, <2>10, <2>12 DEF Newer
      <3>2. e \in Eligible /\ ~(Cardinality(Newer(e, Eligible)) >= Slots)
        BY <2>10, <2>12 DEF Excess
      <3> DEFINE before == Newer(e, Eligible)
                 after == Newer(e, Eligible)'
      <3>3. after \subseteq before /\ before \subseteq Stored /\ ~(Cardinality(before) >= Slots)
        BY <3>1, <3>2
      <3> HIDE DEF before, after
      <3>4. IsFiniteSet(before)
        BY <2>2, <3>3, FS_Subset
      <3>5. IsFiniteSet(after) /\ Cardinality(after) <= Cardinality(before)
        BY <3>3, <3>4, FS_Subset
      <3>6. Cardinality(after) \in Nat /\ Cardinality(before) \in Nat
        BY <3>4, <3>5, FS_CardinalityType
      <3>7. ~(Cardinality(after) >= Slots')
        BY <2>9, <3>3, <3>5, <3>6
      <3> QED
        BY <3>7 DEF after
    <2>13. /\ \A e \in Stored : events[e].at \in Int
           /\ \A e \in Stored' : events'[e].at = events[e].at
           /\ \A e, f \in Eligible' : e # f => events'[e].at # events'[f].at
      <3>1. \A e \in Stored : events[e].at \in Int
        <4> SUFFICES ASSUME NEW e \in Stored PROVE events[e].at \in Int
          OBVIOUS
        <4>1. events[e] \in EventRows
          BY <1>1, EventRow DEF IInv
        <4>2. events[e].at \in Times
          BY <4>1 DEF EventRows
        <4> QED
          BY <4>2, BoundsAssumption DEF Times
      <3>2. Windowed' /\ Eligible' \subseteq (Stored \ ManualEvents)'
        BY <1>1, WindowedStep DEF Eligible, Protected
      <3> QED
        BY <2>3, <3>1, <3>2 DEF Windowed, WindowOnce
    <2>14. OldestGo
      <3> SUFFICES ASSUME NEW e \in Stored \ Stored', NEW f \in Stored' \ Protected', Retained(e)
                   PROVE  events'[f].at > events[e].at
        BY DEF OldestGo
      <3>1. e \in Eligible /\ Cardinality(Newer(e, Eligible)) >= Slots
        <4>1. e \in Excess
          BY <2>3
        <4> QED
          BY <4>1 DEF Excess
      <3>2. f \in Eligible /\ ~(Cardinality(Newer(f, Eligible)) >= Slots)
        <4>1. f \in Stored \ Excess /\ f \notin Protected
          BY <2>3, <2>8
        <4>2. f \in Eligible
          BY <4>1 DEF Excess, Eligible
        <4> QED
          BY <4>1, <4>2 DEF Excess
      <3>3. Newer(e, Eligible) \subseteq Stored /\ Newer(f, Eligible) \subseteq Stored
        BY <2>10 DEF Newer
      <3>4. ASSUME events[f].at <= events[e].at PROVE Newer(e, Eligible) \subseteq Newer(f, Eligible)
        <4> SUFFICES ASSUME NEW g \in Eligible, events[g].at > events[e].at
                     PROVE  events[g].at > events[f].at
          BY DEF Newer
        <4>1. events[g].at \in Int /\ events[e].at \in Int /\ events[f].at \in Int
          BY <2>10, <2>13, <3>1, <3>2
        <4> QED
          BY <3>4, <4>1
      <3>5. ASSUME Newer(e, Eligible) \subseteq Newer(f, Eligible) PROVE FALSE
        <4> DEFINE above == Newer(f, Eligible)
                   fewer == Newer(e, Eligible)
        <4>1. /\ above \subseteq Stored /\ fewer \subseteq above
              /\ Cardinality(fewer) >= Slots /\ ~(Cardinality(above) >= Slots)
          BY <3>1, <3>2, <3>3, <3>5
        <4> HIDE DEF above, fewer
        <4>2. IsFiniteSet(above) /\ IsFiniteSet(fewer) /\ Cardinality(fewer) <= Cardinality(above)
          BY <2>2, <4>1, FS_Subset
        <4>3. Cardinality(fewer) \in Nat /\ Cardinality(above) \in Nat
          BY <4>2, FS_CardinalityType
        <4> QED
          BY <2>9, <4>1, <4>2, <4>3
      <3>6. ~(events[f].at <= events[e].at)
        BY <3>4, <3>5
      <3>7. events[f].at \in Int /\ events[e].at \in Int /\ events'[f].at = events[f].at
        BY <2>3, <2>13
      <3> QED
        BY <3>6, <3>7
    <2>15. Counted' \subseteq Eligible' \cup held' /\ (held' # {} => Latest' # {})
      BY DEF Counted, Eligible, Protected, Pinned, ManualEvents
    <2>16. Cardinality(Counted') <= KeepN \/ Counted' \subseteq Latest'
      <3>1. IsFiniteSet(Eligible') /\ IsFiniteSet(held') /\ held' \subseteq Latest'
        <4>1. Eligible' \subseteq Stored /\ held' \subseteq Stored /\ held' \subseteq Latest'
          BY <2>3, <2>10
        <4> HIDE DEF held
        <4> QED
          BY <2>2, <4>1, FS_Subset
      <3>2. Slots' = IF KeepN > Cardinality(held') THEN KeepN - Cardinality(held') ELSE 0
        BY DEF Slots
      <3> HIDE DEF held
      <3>3. Cardinality(held') \in Nat /\ Slots' \in Nat
        BY <3>1, <3>2, FS_CardinalityType, PolicyAssumption
      <3>4. ASSUME NEW e \in Eligible'
            PROVE  IsFiniteSet(Newer(e, Eligible)') /\ Cardinality(Newer(e, Eligible)') < Slots'
        <4> DEFINE above == Newer(e, Eligible)'
        <4>1. above \subseteq Eligible'
          BY DEF Newer
        <4>2. ~(Cardinality(above) >= Slots')
          BY <2>12
        <4> HIDE DEF above
        <4>3. IsFiniteSet(above) /\ Cardinality(above) \in Nat
          BY <3>1, <4>1, FS_Subset, FS_CardinalityType
        <4>4. IsFiniteSet(above) /\ Cardinality(above) < Slots'
          BY <3>3, <4>2, <4>3
        <4> QED
          BY <4>4 DEF above
      <3>5. CASE Slots' = 0
        <4>1. ASSUME NEW e \in Eligible' PROVE FALSE
          <5>1. Cardinality(Newer(e, Eligible)') \in Nat /\ Cardinality(Newer(e, Eligible)') < 0
            BY <3>4, <3>5, FS_CardinalityType
          <5> QED
            BY <5>1
        <4> QED
          BY <2>15, <3>1, <4>1
      <3>6. CASE Slots' # 0
        <4> DEFINE at == [e \in Stored |-> events[e].at]
                   S == Eligible'
        <4>1. S \subseteq Stored /\ \A e \in S : at[e] \in Int /\ at[e] = events'[e].at
          <5>1. S \subseteq Stored' /\ Stored' \subseteq Stored
            BY <2>3 DEF Eligible
          <5> QED
            BY <2>13, <5>1
        <4>2. \A e, f \in S : e # f => at[e] # at[f]
          BY <2>13, <4>1
        <4>3. ASSUME NEW e \in S PROVE Cardinality({f \in S : at[f] > at[e]}) < Slots'
          <5>1. {f \in S : at[f] > at[e]} = Newer(e, Eligible)'
            BY <4>1 DEF Newer
          <5> QED
            BY <3>4, <5>1
        <4> HIDE DEF at, S
        <4>4. IsFiniteSet(S)
          BY <3>1 DEF S
        <4>5. Cardinality(S) <= Slots'
          <5>1. \A e \in S : at[e] \in Int
            BY <4>1
          <5> QED
            BY <3>3, <3>6, <4>2, <4>3, <4>4, <5>1, SlotsBound
        <4>6. /\ IsFiniteSet(S \cup held') /\ Cardinality(S \cup held') <= Slots' + Cardinality(held')
          <5>1. /\ IsFiniteSet(S \cup held')
                /\ Cardinality(S \cup held') = Cardinality(S) + Cardinality(held') - Cardinality(S \cap held')
            BY <3>1, <4>4, FS_Union
          <5>2. IsFiniteSet(S \cap held') /\ S \cap held' \subseteq S
            BY <4>4, FS_Subset
          <5>3. Cardinality(S \cap held') \in Nat /\ Cardinality(S) \in Nat
            BY <4>4, <5>2, FS_CardinalityType
          <5> QED
            BY <3>3, <4>5, <5>1, <5>3
        <4>7. IsFiniteSet(Counted') /\ Cardinality(Counted') <= Cardinality(S \cup held')
          BY <2>15, <4>6, FS_Subset DEF S
        <4>8. Slots' + Cardinality(held') = KeepN
          BY <3>2, <3>3, <3>6, PolicyAssumption
        <4>9. Cardinality(Counted') \in Nat /\ Cardinality(S \cup held') \in Nat
          BY <4>6, <4>7, FS_CardinalityType
        <4> QED
          BY <3>3, <4>6, <4>7, <4>8, <4>9, PolicyAssumption
      <3> QED
        BY <3>5, <3>6
    <2>17. (\A e \in Stored \ Protected : Retained(e))'
      BY <2>11
    <2> QED
      BY <2>14, <2>16, <2>17 DEF WithinLimits
  <1>2. IInv /\ Ledger /\ [Next]_vars => [holder = "cleanup" /\ holder' = "pressure" => WithinLimits' /\ OldestGo]_vars
    BY <1>1
  <1> QED
    BY <1>2, LedgerAlways, PTL DEF Spec, HistoryBounded
=============================================================================
