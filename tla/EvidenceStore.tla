--------------------------- MODULE EvidenceStore ---------------------------
(***************************************************************************)
(* The durable evidence of one item: EventService (event_service.py), the  *)
(* event and current-state transactions of db.py, RetentionService         *)
(* (retention.py) and the event routes of main.py.                         *)
(*                                                                         *)
(* Media files live outside the database, so no operation is atomic: each  *)
(* holds retention.lock from its first to its last step, and one action    *)
(* here is one file operation or one committed transaction.  A crash may   *)
(* fall between any two of them; the service then starts and recovers.     *)
(*                                                                         *)
(* Abstractions.  Rows are grouped and keyed by item, so one item is seen. *)
(* A movement is one key image and one clip, a correction shares the files *)
(* of its root movement, and the time of a movement stands for its source  *)
(* window: two callbacks of one time are two deliveries of one movement.   *)
(* Reasons for a callback to be refused are one choice (RecordFail), as    *)
(* are the age of media, the age of orphan files and the storage limit.    *)
(***************************************************************************)
EXTENDS Integers, FiniteSets

CONSTANTS
    Movements, Corrections,   \* event_id of callbacks and of corrections
    At,                       \* source_timestamp_end of each callback
    Placed,                   \* callbacks with placement evidence
    Accepted,                 \* callbacks that carry a validation_run_id
    Blobs,                    \* media file names, each used by one writer
    MaxTime,
    KeepN, Policy,            \* events_per_item and the retention policy
    LatestKept,               \* movements spared under storage pressure
    Pinnable,                 \* bound: events an administrator pins
    CorrectedAt,              \* bound: times of the corrections
    MaxFaults,                \* bound: crashes and failing unlinks together
    None

Times == 1..MaxTime
EventIds == Movements \cup Corrections
Maybe(S) == S \cup {None}

ASSUME EventsAssumption ==
    /\ Movements \cap Corrections = {} /\ None \notin EventIds
    /\ Placed \subseteq Movements /\ Accepted \subseteq Movements
    /\ At \in [Movements -> Times]
ASSUME BlobsAssumption == None \notin Blobs
ASSUME PolicyAssumption ==
    /\ KeepN \in Nat /\ LatestKept \in Nat
    /\ Policy \in {"MINIMAL", "BALANCED", "FORENSIC"}
ASSUME BoundsAssumption ==
    MaxTime \in Nat /\ MaxFaults \in Nat /\ Pinnable \subseteq EventIds /\ CorrectedAt \subseteq Times

Kinds == {"image", "clip"}
\* A row without event is owned by the item's current state.
MediaRows == [blob : Blobs, kind : Kinds, event : Maybe(EventIds),
              status : {"active", "pending_delete"}]
EventRows == [at : Times, final : {"confirmed_placed", "position_changed"},
              evidence : {"confirmed", "media_expired"},
              image : Maybe(Blobs), clip : Maybe(Blobs),
              pinned : BOOLEAN, root : Maybe(Movements)]
\* Time 0 is SQL NULL, which julianday orders before every time.
CurrentStates == [seen : Times \cup {0}, placedAt : Times \cup {0},
                  status : {"unknown", "confirmed_placed", "last_seen", "missing"},
                  evidence : Maybe(EventIds), placement : Maybe(EventIds),
                  shot : Maybe(Blobs)]
Requests == [of : EventIds, image : Maybe(Blobs), clip : Maybe(Blobs), same : BOOLEAN]
\* None is no value an optional field may hold.
ASSUME NoneAssumption ==
    None \notin EventRows /\ None \notin MediaRows /\ None \notin Requests
Holders == {"nobody", "record", "observe", "recover", "cleanup", "pressure", "delete"}

VARIABLES
    files,     \* names in event-images and event-clips
    media,     \* table event_media
    events,    \* table movement_events, None where no row exists
    current,   \* the item's row of item_current_state
    holder,    \* who holds retention.lock
    subject,   \* the event being recorded or deleted
    made,      \* generated_urls: written, not yet registered
    discarded, \* generated_urls of callbacks that failed and left the lock
    todo,      \* media rows a purge has still to take
    row,       \* the media row whose file the purge has dealt with
    doomed,    \* events the running cleanup will delete
    request,   \* a correction request that has read its event, without lock
    faults

vars == <<files, media, events, current, holder, subject, made, discarded, todo,
          row, doomed, request, faults>>
tables == <<media, events, current>>
writer == <<made, discarded>>
purge == <<todo, row, doomed>>

NoFiles == [k \in Kinds |-> None]
NoState == [seen |-> 0, placedAt |-> 0, status |-> "unknown",
            evidence |-> None, placement |-> None, shot |-> None]

Init ==
    /\ files = {} /\ media = {} /\ current = NoState
    /\ events = [e \in EventIds |-> None]
    /\ holder = "nobody" /\ subject = None /\ made = NoFiles
    /\ discarded = {} /\ todo = {} /\ row = None /\ doomed = {}
    /\ request = None /\ faults = 0

-----------------------------------------------------------------------------
Stored == {e \in EventIds : events[e] # None}
Manual(e) == events[e].root # None
Written == {made[k] : k \in Kinds} \ {None}
Registered == {r.blob : r \in media}
Pending == {r \in media : r.status = "pending_delete"}
ActiveRow(k, e, b) == [blob |-> b, kind |-> k, event |-> e, status |-> "active"]
MediaOf(e) == {r \in media : r.event = e}
Tombstone(rows) == {[r EXCEPT !.status = "pending_delete"] : r \in rows}
\* Media names are random, so a writer takes one that nothing mentions.
Unused == Blobs \ (files \cup discarded \cup Registered \cup {current.shot}
                   \cup UNION {{events[e].image, events[e].clip} : e \in Stored}
                   \cup (IF request = None THEN {} ELSE {request.image, request.clip}))

\* A crash, or an OSError of an unlink, which leaves the file behind.
Fault == faults < MaxFaults /\ faults' = faults + 1

-----------------------------------------------------------------------------
\* What must not be deleted.
Latest == {current.evidence} \ {None}
Pinned == {e \in Stored : events[e].pinned}
ManualEvents == {e \in Stored : Manual(e)}
Roots == {events[e].root : e \in ManualEvents}
\* Mutants: placements or current evidence treated the wrong way.
MutantRootsOnly == Roots
MutantNoRoots == ({current.placement} \cap Stored) \ {current.evidence}
Dependencies ==
    Roots \cup (({current.placement} \cap Stored) \ {current.evidence})
Protected == Latest \cup Pinned \cup ManualEvents \cup Dependencies

\* The events that fill the history slots of the policy.
Retained(e) == events[e].evidence = "confirmed" \/ Policy # "MINIMAL"
\* Mutant: the current movement takes no slot.
MutantSlots == KeepN
Slots ==
    LET held == {e \in Stored : Retained(e) /\ ~events[e].pinned /\ ~Manual(e) /\ e \in Latest}
    IN  IF KeepN > Cardinality(held) THEN KeepN - Cardinality(held) ELSE 0
\* Mutant: pins are forgotten.
MutantEligible == {e \in Stored \ (Latest \cup ManualEvents \cup Dependencies) : Retained(e)}
Eligible == {e \in Stored \ Protected : Retained(e)}
\* Mutant: the newest movements go first.
MutantNewer(e, S) == {f \in S : events[f].at < events[e].at}
Newer(e, S) == {f \in S : events[f].at > events[e].at}
Excess ==
    {e \in Eligible : Cardinality(Newer(e, Eligible)) >= Slots}
    \cup {e \in Stored \ Protected : ~Retained(e)}

-----------------------------------------------------------------------------
\* EventService._record: one movement callback.
\* Mutant: a second delivery of a window is another movement.
MutantWindowFree(e) == TRUE
WindowFree(e) == \A f \in Stored : Manual(f) \/ events[f].at # At[e]

RecordBegin(e) ==
    /\ holder = "nobody" /\ WindowFree(e) /\ events[e] = None
    /\ holder' = "record" /\ subject' = e
    /\ UNCHANGED <<files, tables, writer, purge, request, faults>>

WriteMedia(k, b) ==
    /\ \/ holder = "record" /\ (k = "clip" => made["image"] # None)
       \/ holder = "observe" /\ k = "image"
    /\ made[k] = None /\ b \in Unused
    /\ files' = files \cup {b} /\ made' = [made EXCEPT ![k] = b]
    /\ UNCHANGED <<tables, holder, subject, discarded, purge, request, faults>>

\* _placement_summary: the placement an event is evidence of.
Summary(e) ==
    IF e # None /\ events[e] # None /\ events[e].evidence = "confirmed"
       /\ events[e].final = "confirmed_placed" THEN e ELSE None
KnownPlacement ==
    IF current.placement # None THEN current.placement ELSE Summary(current.evidence)

\* The row a movement proposes, and what older evidence must leave alone.
\* Mutant: a movement without placement evidence stores its event's own status.
MutantProposed(e) ==
    IF e \in Placed
    THEN [current EXCEPT !.seen = At[e], !.status = "confirmed_placed",
              !.placedAt = At[e], !.evidence = e, !.placement = e]
    ELSE [current EXCEPT !.seen = At[e], !.status = "position_changed",
              !.evidence = e, !.placement = KnownPlacement]
Proposed(e) ==
    IF e \in Placed
    THEN [current EXCEPT !.seen = At[e], !.status = "confirmed_placed",
              !.placedAt = At[e], !.evidence = e, !.placement = e]
    ELSE [current EXCEPT !.seen = At[e], !.status = "last_seen",
              !.evidence = e, !.placement = KnownPlacement]
\* Mutant: late evidence overwrites the newer sighting.
MutantKeepSighting(new) == new
KeepNewerSighting(new) ==
    IF new.seen >= current.seen THEN new
    ELSE [new EXCEPT !.seen = current.seen, !.status = current.status]
KeepNewerPlacement(new) ==
    IF new.placedAt >= current.placedAt THEN new
    ELSE [new EXCEPT !.placedAt = current.placedAt, !.evidence = current.evidence,
              !.placement = current.placement]

RecordCommit ==
    /\ holder = "record" /\ \A k \in Kinds : made[k] # None
    /\ events' = [events EXCEPT ![subject] =
           [at |-> At[subject],
            final |-> IF subject \in Placed THEN "confirmed_placed" ELSE "position_changed",
            evidence |-> "confirmed", image |-> made["image"], clip |-> made["clip"],
            pinned |-> FALSE, root |-> None]]
    /\ media' = media \cup {ActiveRow(k, subject, made[k]) : k \in Kinds}
    /\ current' = KeepNewerPlacement(KeepNewerSighting(Proposed(subject)))
    /\ holder' = "nobody" /\ subject' = None /\ made' = NoFiles
    /\ UNCHANGED <<files, discarded, purge, request, faults>>

\* Mutant: a failed callback does not unlink what it wrote.
MutantRecordFail ==
    /\ holder = "record" /\ holder' = "nobody" /\ subject' = None
    /\ made' = NoFiles
    /\ UNCHANGED <<files, tables, discarded, purge, request, faults>>
\* The lock is released first; the files are unlinked afterwards.
RecordFail ==
    /\ holder = "record" /\ holder' = "nobody" /\ subject' = None
    /\ made' = NoFiles /\ discarded' = discarded \cup Written
    /\ UNCHANGED <<files, tables, purge, request, faults>>

\* An OSError leaves the file behind.
DiscardFile(b) ==
    /\ b \in discarded /\ discarded' = discarded \ {b}
    /\ \/ files' = files \ {b} /\ UNCHANGED faults
       \/ Fault /\ UNCHANGED files
    /\ UNCHANGED <<tables, holder, subject, made, purge, request>>

-----------------------------------------------------------------------------
\* EventService.observe: a verified observation, with or without screenshot.
Observed(t, settled) ==
    [current EXCEPT !.seen = t,
        !.status = IF settled /\ @ = "confirmed_placed" THEN "confirmed_placed" ELSE "last_seen",
        !.placement = KnownPlacement]

Observe(t, settled) ==
    /\ holder = "nobody" /\ t >= current.seen
    /\ current' = Observed(t, settled)
    /\ UNCHANGED <<files, media, events, holder, subject, writer, purge, request, faults>>

ObserveMissing ==
    /\ holder = "nobody" /\ current.seen > 0
    /\ current' = [current EXCEPT !.status = "missing", !.placement = KnownPlacement]
    /\ UNCHANGED <<files, media, events, holder, subject, writer, purge, request, faults>>

SnapshotBegin ==
    /\ holder = "nobody" /\ holder' = "observe"
    /\ UNCHANGED <<files, tables, subject, writer, purge, request, faults>>

\* The new screenshot retires the old one, then recover_pending runs.
SnapshotCommit(t, settled) ==
    /\ holder = "observe" /\ made["image"] # None /\ t >= current.seen
    /\ LET old == {r \in MediaOf(None) : r.status = "active"}
       IN  media' = (media \ old) \cup Tombstone(old)
                    \cup {ActiveRow("image", None, made["image"])}
    /\ current' = [Observed(t, settled) EXCEPT !.shot = made["image"]]
    /\ made' = NoFiles /\ holder' = "recover"
    /\ todo' = {r \in media' : r.status = "pending_delete"}
    /\ UNCHANGED <<files, events, subject, discarded, row, doomed, request, faults>>

\* observe unlinks what it wrote while it holds the lock.
Discard ==
    /\ \/ files' = files \ Written /\ UNCHANGED faults
       \/ Fault /\ Written # {} /\ UNCHANGED files
    /\ made' = NoFiles

\* The profile changed or the write failed.
SnapshotFail ==
    /\ holder = "observe" /\ Discard
    /\ \/ holder' = "nobody" /\ UNCHANGED todo
       \/ made["image"] # None /\ holder' = "recover" /\ todo' = Pending
    /\ UNCHANGED <<tables, subject, discarded, row, doomed, request>>

-----------------------------------------------------------------------------
\* Deleting files.  A shared file stays while another row needs it.
Purging == {"recover", "cleanup", "pressure", "delete"}
\* Mutant: only rows of the same event are looked at.
MutantShared(r) ==
    \E s \in media : s.status = "active" /\ s.blob = r.blob /\ s.event = r.event
Shared(r) == \E s \in media : s.status = "active" /\ s.blob = r.blob
Refers(r) ==
    /\ r.event # None /\ events[r.event] # None
    /\ events[r.event][r.kind] = r.blob
\* Mutant: the label is left as it was.
MutantExpired(e, k) == [events EXCEPT ![e] = [@ EXCEPT ![k] = None]]
Expired(e, k) == [events EXCEPT ![e] = [@ EXCEPT ![k] = None, !.evidence = "media_expired"]]

SkipShown(r) ==
    /\ holder = "recover" /\ row = None /\ r \in todo /\ r.blob = current.shot
    /\ todo' = todo \ {r}
    /\ UNCHANGED <<files, tables, holder, subject, writer, row, doomed, request, faults>>

Unlink(r) ==
    /\ holder \in Purging /\ row = None /\ r \in todo
    /\ holder = "recover" => r.blob # current.shot
    /\ todo' = todo \ {r} /\ row' = r
    /\ files' = IF Shared(r) THEN files ELSE files \ {r.blob}
    /\ UNCHANGED <<tables, holder, subject, writer, doomed, request, faults>>

\* An OSError leaves the row pending.
UnlinkFails(r) ==
    /\ Fault /\ holder \in Purging /\ row = None /\ r \in todo
    /\ ~Shared(r) /\ r.blob \in files
    /\ todo' = todo \ {r}
    /\ UNCHANGED <<files, tables, holder, subject, writer, row, doomed, request>>

\* recover_pending expires the event first and drops the media row last.
RecoverExpire ==
    /\ holder = "recover" /\ row # None /\ Refers(row)
    /\ events' = Expired(row.event, row.kind)
    /\ UNCHANGED <<files, media, current, holder, subject, writer, purge, request, faults>>

RecoverDrop ==
    /\ holder = "recover" /\ row # None /\ ~Refers(row)
    /\ media' = media \ {row} /\ row' = None
    /\ UNCHANGED <<files, events, current, holder, subject, writer, todo, doomed, request, faults>>

RecoverEnd ==
    /\ holder = "recover" /\ row = None /\ todo = {}
    /\ holder' = "nobody"
    /\ UNCHANGED <<files, tables, subject, writer, purge, request, faults>>

-----------------------------------------------------------------------------
\* RetentionService.cleanup.
CanAge == {e \in Stored \ (Protected \cup Excess) : Policy = "BALANCED"}

\* Mutant: the screenshot on display counts as superseded.
MutantSuperseded == MediaOf(None)
Superseded == {r \in MediaOf(None) : r.blob # current.shot}

\* Plan and phase 1, the tombstones.  aged: events older than media_days.
CleanupBegin(aged) ==
    /\ holder = "nobody" /\ holder' = "cleanup" /\ aged \subseteq CanAge
    /\ doomed' = Excess
    /\ LET rows == {r \in media : r.event \in Excess \cup aged} \cup Superseded
       IN  media' = (media \ rows) \cup Tombstone(rows) /\ todo' = Tombstone(rows)
    /\ UNCHANGED <<files, events, current, subject, writer, row, request, faults>>

\* Phase 2 drops the media row first and expires the event last.
CleanupDrop ==
    /\ holder = "cleanup" /\ row \in media
    /\ media' = media \ {row}
    /\ row' = IF row.event # None /\ row.event \notin doomed /\ events[row.event] # None
              THEN row ELSE None
    /\ UNCHANGED <<files, events, current, holder, subject, writer, todo, doomed, request, faults>>

CleanupExpire ==
    /\ holder = "cleanup" /\ row # None /\ row \notin media
    /\ events' = Expired(row.event, row.kind) /\ row' = None
    /\ UNCHANGED <<files, media, current, holder, subject, writer, todo, doomed, request, faults>>

\* Mutant: events whose media expired before are passed over.
MutantCleanupEvents ==
    /\ holder = "cleanup" /\ row = None /\ todo = {}
    /\ events' = [e \in EventIds |->
           IF e \in doomed /\ events[e] # None /\ events[e].evidence = "confirmed"
           THEN None ELSE events[e]]
    /\ holder' = "pressure"
    /\ UNCHANGED <<files, media, current, subject, writer, purge, request, faults>>
\* Phase 3 deletes the event rows.
CleanupEvents ==
    /\ holder = "cleanup" /\ row = None /\ todo = {}
    /\ events' = [e \in EventIds |-> IF e \in doomed THEN None ELSE events[e]]
    /\ holder' = "pressure"
    /\ UNCHANGED <<files, media, current, subject, writer, purge, request, faults>>

\* The plan counts the files of the events it deletes among the orphans.
Referenced == {r.blob : r \in {s \in media : s.event \notin doomed}} \cup {current.shot}
              \cup UNION {{events[e].image, events[e].clip} : e \in Stored}

ReclaimOrphan(b) ==
    /\ holder = "pressure" /\ row = None /\ todo = {} /\ b \in files \ Referenced
    /\ files' = files \ {b}
    /\ UNCHANGED <<tables, holder, subject, writer, purge, request, faults>>

\* _purge_mode_media re-reads every protection in the tombstone transaction.
Proven == {e \in Stored : ~Manual(e) /\ events[e].evidence = "confirmed"}
Spared == Protected \cup {e \in Proven : Cardinality(Newer(e, Proven)) < LatestKept}

PressureBegin(r) ==
    /\ holder = "pressure" /\ row = None /\ todo = {}
    /\ r \in media /\ r.status = "active" /\ r.event \in Stored \ Spared
    /\ r.blob # current.shot
    /\ media' = (media \ {r}) \cup Tombstone({r}) /\ todo' = Tombstone({r})
    /\ UNCHANGED <<files, events, current, holder, subject, writer, row, doomed, request, faults>>

PressureExpire ==
    /\ holder = "pressure" /\ row # None
    /\ media' = media \ {row} /\ events' = Expired(row.event, row.kind) /\ row' = None
    /\ UNCHANGED <<files, current, holder, subject, writer, todo, doomed, request, faults>>

CleanupEnd ==
    /\ holder = "pressure" /\ row = None /\ todo = {} /\ holder' = "nobody"
    /\ doomed' = {}
    /\ UNCHANGED <<files, tables, subject, writer, todo, row, request, faults>>

-----------------------------------------------------------------------------
\* RetentionService.delete_event: tombstones and detached state first.
\* Mutant: the status is not taken back.
MutantDetached(e) ==
    IF current.evidence = e
    THEN [current EXCEPT !.evidence = None, !.placedAt = 0, !.placement = None]
    ELSE current
Detached(e) ==
    IF current.evidence = e
    THEN [current EXCEPT !.evidence = None, !.placedAt = 0, !.placement = None,
              !.status = IF @ = "confirmed_placed" THEN "last_seen" ELSE @]
    ELSE IF current.placement = e
         THEN [current EXCEPT !.placedAt = 0, !.placement = None] ELSE current

DeleteBegin(e) ==
    /\ holder = "nobody" /\ e \in Stored \ Dependencies
    /\ holder' = "delete" /\ subject' = e
    /\ media' = (media \ MediaOf(e)) \cup Tombstone(MediaOf(e))
    /\ todo' = Tombstone(MediaOf(e))
    /\ current' = Detached(e)
    /\ UNCHANGED <<files, events, writer, row, doomed, request, faults>>

DeleteDrop ==
    /\ holder = "delete" /\ row # None
    /\ media' = media \ {row} /\ row' = None
    /\ UNCHANGED <<files, events, current, holder, subject, writer, todo, doomed, request, faults>>

DeleteEnd ==
    /\ holder = "delete" /\ row = None /\ todo = {}
    /\ events' = [events EXCEPT ![subject] = None]
    /\ holder' = "nobody" /\ subject' = None
    /\ UNCHANGED <<files, media, current, writer, purge, request, faults>>

-----------------------------------------------------------------------------
\* correct_event: the corrected event is read before the lock is taken.
\* same: the requested place is the item's current place.
CorrectRead(e, same) ==
    /\ request = None /\ Corrections # {} /\ e \in Stored
    /\ request' = [of |-> e, image |-> events[e].image, clip |-> events[e].clip, same |-> same]
    /\ UNCHANGED <<files, tables, holder, subject, writer, purge, faults>>

AlreadyCurrent ==
    /\ request.same /\ current.evidence \in Stored
    /\ current.evidence = request.of \/ events[current.evidence].root = request.of

CorrectRepeated ==
    /\ holder = "nobody" /\ request # None /\ AlreadyCurrent
    /\ request' = None
    /\ UNCHANGED <<files, tables, holder, subject, writer, purge, faults>>

\* _verified_manual_reference: the chain is flattened to its root movement.
RootOf(e) == IF Manual(e) THEN events[e].root ELSE e
Verified ==
    /\ request.of \in Stored /\ RootOf(request.of) \in Stored
    /\ request.image # None
    /\ ActiveRow("image", RootOf(request.of), request.image) \in media
    /\ request.clip # None => ActiveRow("clip", RootOf(request.of), request.clip) \in media

CorrectRefused ==
    /\ holder = "nobody" /\ request # None /\ ~AlreadyCurrent /\ ~Verified
    /\ request' = None
    /\ UNCHANGED <<files, tables, holder, subject, writer, purge, faults>>

\* The copied validation_run_id is unique, so INSERT OR IGNORE keeps the root.
CorrectIgnored ==
    /\ holder = "nobody" /\ request # None /\ ~AlreadyCurrent /\ Verified
    /\ request.of \in Accepted
    /\ request' = None
    /\ UNCHANGED <<files, tables, holder, subject, writer, purge, faults>>

Correct(c, t) ==
    /\ holder = "nobody" /\ request # None /\ ~AlreadyCurrent /\ Verified
    /\ request.of \notin Accepted /\ t \in CorrectedAt
    /\ events[c] = None /\ MediaOf(c) = {} /\ request.of # c
    /\ events' = [events EXCEPT ![c] =
           [at |-> t, final |-> "confirmed_placed", evidence |-> "confirmed",
            image |-> request.image, clip |-> request.clip,
            pinned |-> FALSE, root |-> RootOf(request.of)]]
    /\ media' = media \cup {ActiveRow(k, c, request[k]) : k \in {j \in Kinds : request[j] # None}}
    /\ current' = [current EXCEPT !.seen = t, !.status = "confirmed_placed",
                       !.placedAt = t, !.evidence = c, !.placement = c]
    /\ request' = None
    /\ UNCHANGED <<files, holder, subject, writer, purge, faults>>

Pin(e, pinned) ==
    /\ holder = "nobody" /\ e \in Stored \cap Pinnable /\ events[e].pinned # pinned
    /\ events' = [events EXCEPT ![e].pinned = pinned]
    /\ UNCHANGED <<files, media, current, holder, subject, writer, purge, request, faults>>

\* delete_item and delete_camera drop the state of an item without events.
Forget ==
    /\ holder = "nobody" /\ Stored = {} /\ current # NoState
    /\ current' = NoState
    /\ UNCHANGED <<files, media, events, holder, subject, writer, purge, request, faults>>

\* The process dies; the next one runs recover_pending before anything else.
Crash ==
    /\ Fault
    /\ holder' = "recover" /\ todo' = Pending
    /\ subject' = None /\ made' = NoFiles /\ discarded' = {} /\ row' = None /\ doomed' = {}
    /\ request' = None
    /\ UNCHANGED <<files, tables>>

-----------------------------------------------------------------------------
\* Every read of the evidence of a trial checks it again: one active row for
\* each kind of media, as the event names it, and its file on disk.
ReadIntegrity(e) ==
    /\ Cardinality({r \in MediaOf(e) : r.status = "active"}) = Cardinality(Kinds)
    /\ \A k \in Kinds : ActiveRow(k, e, events[e][k]) \in media /\ events[e][k] \in files

\* verified_search_record: the status that an event, and the current state,
\* are shown with.  Events without a trial are attested by their device.
\* Mutant: the label of the row is shown as it is.
MutantShownEvent(e) == events[e].evidence
ShownEvent(e) ==
    IF e \in Accepted /\ ~ReadIntegrity(e) THEN "media_missing" ELSE events[e].evidence
ShownStatus ==
    IF current.status = "confirmed_placed" /\ ShownEvent(current.evidence) = "media_missing"
    THEN "last_seen" ELSE current.status

-----------------------------------------------------------------------------
Recording ==
    \/ \E e \in Movements : RecordBegin(e)
    \/ \E k \in Kinds, b \in Blobs : WriteMedia(k, b)
    \/ RecordCommit \/ RecordFail
    \/ \E b \in discarded : DiscardFile(b)
Observing ==
    \/ \E t \in Times, settled \in BOOLEAN : Observe(t, settled) \/ SnapshotCommit(t, settled)
    \/ ObserveMissing \/ SnapshotBegin \/ SnapshotFail
PurgeStep ==
    \/ \E r \in todo : SkipShown(r) \/ Unlink(r) \/ UnlinkFails(r)
    \/ RecoverExpire \/ RecoverDrop \/ RecoverEnd
    \/ CleanupDrop \/ CleanupExpire \/ CleanupEvents
    \/ \E b \in files : ReclaimOrphan(b)
    \/ \E r \in media : PressureBegin(r)
    \/ PressureExpire \/ CleanupEnd
    \/ DeleteDrop \/ DeleteEnd
Administration ==
    \/ \E aged \in SUBSET EventIds : CleanupBegin(aged)
    \/ \E e \in EventIds : DeleteBegin(e)
    \/ \E e \in EventIds, b \in BOOLEAN : CorrectRead(e, b) \/ Pin(e, b)
    \/ CorrectRepeated \/ CorrectRefused \/ CorrectIgnored
    \/ \E c \in Corrections, t \in Times : Correct(c, t)
    \/ Forget

Next == Recording \/ Observing \/ PurgeStep \/ Administration \/ Crash
Spec == Init /\ [][Next]_vars

-----------------------------------------------------------------------------
\* Every variable holds a value of the kind the code keeps in it.
TypeOK ==
    /\ files \subseteq Blobs /\ media \subseteq MediaRows
    /\ events \in [EventIds -> Maybe(EventRows)]
    /\ current \in CurrentStates
    /\ holder \in Holders /\ subject \in Maybe(EventIds)
    /\ made \in [Kinds -> Maybe(Blobs)] /\ discarded \subseteq Blobs
    /\ todo \subseteq MediaRows /\ row \in Maybe(MediaRows)
    /\ doomed \subseteq EventIds
    /\ request \in Maybe(Requests)
    /\ faults \in 0..MaxFaults

\* An active media row always names a file that exists, whatever crash or
\* failed unlink came before: files are written before their rows, rows are
\* tombstoned before their files go, and a shared file waits for its last row.
MediaBacked == \A r \in media : r.status = "active" => r.blob \in files

\* The current state never points at an event that is gone, at any step of a
\* deletion and after any crash: protection (cleanup) and detaching
\* (delete_event) cover both the evidence link and the placement summary.
EvidenceLinked == {current.evidence, current.placement} \subseteq Stored \cup {None}

\* A correction is auditable as long as it exists: its root movement does too,
\* although the request read its event before it held the lock.
RootKept == Roots \subseteq Stored

\* "confirmed_placed" is only ever shown with the placement that proves it.
ConfirmedPlacementKnown == current.status = "confirmed_placed" => current.placement \in Stored

\* The screenshot of the current state is registered and exists.
ShownScreenshotExists ==
    current.shot # None => current.shot \in files /\ ActiveRow("image", None, current.shot) \in media

\* Between operations an event labelled confirmed still has all its media,
\* whatever was expired (until a crash: one between two commits of a purge
\* leaves such an event behind).
ConfirmedHasMedia ==
    holder = "nobody" /\ faults = 0 =>
        \A e \in Stored : events[e].evidence = "confirmed" =>
            {events[e].image, events[e].clip} \subseteq files \cup (IF Manual(e) THEN {None} ELSE {})

\* Between operations every file is known to a media row or to the callback
\* that is about to unlink it (until a crash, and without failing unlinks).
FilesAccounted == holder = "nobody" /\ faults = 0 => files \subseteq Registered \cup discarded

\* What the tables refer to exists, at every step and after every crash: the
\* current state's evidence and placement, and the root of every correction.
RowsLinked == TypeOK /\ EvidenceLinked /\ RootKept /\ ConfirmedPlacementKnown

\* And what they promise to be on disk is there.
FilesBacked == MediaBacked /\ ShownScreenshotExists

\* A movement of a trial is shown as confirmed, and its place as confirmed,
\* only with all its media on disk: also amid a purge, and after a crash that
\* left its row labelled "confirmed" without them.  And the check at every read
\* withdraws no evidence that the store itself has not expired.
ShownBacked ==
    /\ \A e \in Stored \cap Accepted :
          ShownEvent(e) = "confirmed" => {events[e].image, events[e].clip} \subseteq files
    /\ ShownStatus = "confirmed_placed" => events[current.evidence].image \in files
    /\ holder = "nobody" /\ faults = 0 =>
          \A e \in Stored : events[e].evidence = "confirmed" => ShownEvent(e) = "confirmed"

\* A source window is recorded as one movement, however often it is delivered
\* and whatever failed, was deleted or corrected in between.
WindowOnce == \A e, f \in Stored \ ManualEvents : e # f => events[e].at # events[f].at

\* Between operations evidence and files match in both directions, what is
\* shown as confirmed can always be looked at, and it happened once.
MediaAccounted == ConfirmedHasMedia /\ FilesAccounted /\ ShownBacked /\ WindowOnce

\* Cleanup deletes no event that is pinned, current, manual or depended on at
\* the moment the row goes, however old its plan is.
ProtectedSurvive ==
    [][holder = "cleanup" => \A e \in Protected : e \in Stored => e \in Stored']_vars

\* Late callbacks never turn back the last sighting, nor replace a placement
\* by an older one, unless an administrator corrects or deletes evidence.
NoRewind ==
    [][\/ request' # request \/ holder' = "delete" \/ current' = NoState
       \/ current'.seen >= current.seen /\ current'.placedAt >= current.placedAt]_vars

\* The movements for which the policy has slots: nobody pinned or corrected
\* them, and no placement or correction depends on them.
Counted == {e \in Stored \ (Pinned \cup ManualEvents \cup Dependencies) : Retained(e)}

\* They are no more than there are slots, but for the current one where there
\* is none; and what takes no slot is only kept because it is protected.
WithinLimits ==
    /\ Cardinality(Counted) <= KeepN \/ Counted \subseteq Latest
    /\ \A e \in Stored \ Protected : Retained(e)

\* A movement that goes is older than every one that stays without protection.
OldestGo ==
    \A e \in Stored \ Stored', f \in Stored' \ Protected' : Retained(e) => events'[f].at > events[e].at

\* A cleanup ends with a history within the limits of the policy, and at the
\* expense of its oldest movements, however old its plan is, whatever media it
\* expired and whatever was pinned, corrected, current or lost in a crash before.
HistoryBounded == [][holder = "cleanup" /\ holder' = "pressure" => WithinLimits' /\ OldestGo]_vars

=============================================================================
