-------------------------- MODULE HistoryMigration --------------------------
(***************************************************************************)
(* Migration of a v1 history database to segmented history, its rollback   *)
(* and the recovery of both (history_service/segment_migration.py, with    *)
(* the sealing of segment_sealer.py, entered at startup through            *)
(* startup_migration.py).                                                  *)
(*                                                                         *)
(* Migration seals the old rows into the first segment, replaces the hot   *)
(* database by the rest and publishes the catalog.  A pending marker in    *)
(* the segments directory records how far an operation got; while it is    *)
(* there the history store refuses to open.  JSON files are written under  *)
(* a temporary name first ("json").  Temporary files with random names     *)
(* that nobody looks for (the staged and the restored hot database) are    *)
(* left out.                                                               *)
(*                                                                         *)
(* Rows are numbered in the order in which they are committed; a negative  *)
(* one is a row that something else than this code wrote into the live     *)
(* database.                                                               *)
(***************************************************************************)
EXTENDS Directories

CONSTANTS
    MaxRows,          \* bound: rows the history service writes
    MaxFaults         \* bound: failing calls, kills and power losses

ASSUME MigrationAssumption == MaxRows \in Nat \ {0, 1} /\ MaxFaults \in Nat

\* What files hold: rows, the pending marker, the catalog.
Contents == SUBSET ((-MaxFaults)..MaxRows)
Markers == [operation : {"forward", "rollback"},
            phase : {"prepared", "segment-ready", "hot-ready", "rollback-cleanup"},
            rollback : Contents, source : Contents,
            publication : Contents \union {Absent}, replacement : Contents \union {Absent}]
Catalogs == [segment : Contents, rollback : Contents]

ASSUME ContentsAssumption ==
    /\ \A content \in Contents : content # Absent /\ content # Torn
    /\ Absent \notin Markers /\ Absent \notin Catalogs

VARIABLES
    rows,             \* the number of rows the service has committed so far
    pc, then, out,    \* the process with the history lock; the JSON file it writes
    cut, publication, \* the cutoff of a migration, and the segment it has recorded
    faults

process == <<pc, then, out, cut, publication>>
vars == <<files, rows, process, faults>>

\* A v1 history: the hot database alone.
Init ==
    /\ hotDir = [hot |-> {1, 2}]
    /\ segDir = [catalog |-> Absent, segment |-> Absent, tmp |-> Absent, rollback |-> Absent, marker |-> Absent,
                 json |-> Absent]
    /\ may = {<<hotDir, segDir>>}
    /\ rows = 2
    /\ pc = "idle" /\ then = "idle" /\ out = Absent /\ cut = 0 /\ publication = Absent
    /\ faults = 0

Fault == faults < MaxFaults /\ faults' = faults + 1

At(place) == pc = place
Goto(place) == pc' = place
Stops == pc' = "idle" /\ then' = "idle" /\ out' = Absent /\ cut' = 0 /\ publication' = Absent

marker == segDir.marker

\* A step that only changes or syncs a directory.
Step(from, to) == At(from) /\ Goto(to) /\ UNCHANGED <<rows, then, out, cut, publication, faults>>

\* A row is committed: the store opens without a marker, and never under the lock.
\* SQLite syncs the directory when it creates its own journal.
Write ==
    /\ At("idle") /\ marker = Absent /\ rows < MaxRows
    /\ rows' = rows + 1
    /\ CommitHot([hot |-> hotDir.hot \union {rows + 1}])
    /\ UNCHANGED <<process, faults>>

(***************************************************************************)
(* _write_private_json_no_replace and _write_private_json_replace.         *)
(***************************************************************************)

WriteJson(from, name, value, replace, next) ==
    /\ At(from) /\ Goto("putJson") /\ then' = next
    /\ out' = [name |-> name, value |-> value, replace |-> replace]
    /\ ChangeSeg([json |-> Torn])

PutJson ==
    /\ At("putJson") /\ Goto(IF out.replace THEN "syncJson" ELSE "unlinkJson")
    /\ LET published == [n \in {out.name} |-> out.value]
       IN  ChangeSeg(IF out.replace THEN [n \in {out.name, "json"} |-> IF n = "json" THEN Absent ELSE out.value]
                     ELSE published)
    /\ UNCHANGED <<rows, then, out, cut, publication, faults>>

UnlinkJson == Step("unlinkJson", "syncJson") /\ ChangeSeg([json |-> Absent])

SyncJson ==
    /\ At("syncJson") /\ Goto(then) /\ out' = Absent
    /\ SyncSeg
    /\ UNCHANGED <<rows, then, cut, publication, faults>>

(***************************************************************************)
(* migrate_segmented_history                                               *)
(***************************************************************************)

\* The preflight, and the rollback snapshot is created.
StartMigration ==
    /\ At("idle") /\ Goto("copy")
    /\ segDir.catalog = Absent /\ segDir.rollback = Absent /\ marker = Absent
    /\ cut' \in hotDir.hot
    /\ ChangeSeg([rollback |-> Torn])
    /\ UNCHANGED <<rows, then, out, publication, faults>>

CopySource == Step("copy", "syncCopy") /\ CompleteSeg("rollback", hotDir.hot)
SyncCopy == Step("syncCopy", "prepare") /\ SyncSeg

CopyFails ==
    /\ pc \in {"copy", "syncCopy"} /\ Fault
    /\ ChangeSeg([rollback |-> Absent])
    /\ Stops /\ UNCHANGED rows

Prepare ==
    /\ WriteJson("prepare", "marker",
           [operation |-> "forward", phase |-> "prepared", rollback |-> segDir.rollback, source |-> hotDir.hot,
            publication |-> Absent, replacement |-> Absent], FALSE, "seal")
    /\ UNCHANGED <<rows, cut, publication, faults>>

Seal == Step("seal", "fillSegment") /\ ChangeSeg([tmp |-> Torn])

\* Mutant: the segment is published before it is complete.
FillSegmentLater == Step("fillSegment", "record") /\ UNCHANGED files

FillSegment == Step("fillSegment", "record") /\ CompleteSeg("tmp", {r \in hotDir.hot : r <= cut})

\* Mutant: the segment is not recorded before it is published.
RecordNothing ==
    /\ At("record") /\ Goto("linkSegment") /\ publication' = segDir.tmp
    /\ UNCHANGED <<files, rows, then, out, cut, faults>>

\* before_publish
Record ==
    /\ WriteJson("record", "marker",
           [marker EXCEPT !.phase = "segment-ready", !.publication = segDir.tmp], TRUE, "linkSegment")
    /\ publication' = segDir.tmp
    /\ UNCHANGED <<rows, cut, faults>>

LinkSegment == Step("linkSegment", "unlinkTmp") /\ ChangeSeg([segment |-> segDir.tmp])
UnlinkTmp == Step("unlinkTmp", "syncSegment") /\ ChangeSeg([tmp |-> Absent])
SyncSegment == Step("syncSegment", "hotReady") /\ SyncSeg

\* Mutant: the row at the cutoff stays in the hot database as well.
HotReadyInclusive ==
    /\ WriteJson("hotReady", "marker",
           [marker EXCEPT !.phase = "hot-ready", !.replacement = {r \in hotDir.hot : r >= cut}], TRUE, "replaceHot")
    /\ UNCHANGED <<rows, cut, publication, faults>>

\* The replacement is staged and recorded.
HotReady ==
    /\ WriteJson("hotReady", "marker",
           [marker EXCEPT !.phase = "hot-ready", !.replacement = {r \in hotDir.hot : r > cut}], TRUE, "replaceHot")
    /\ UNCHANGED <<rows, cut, publication, faults>>

ReplaceHot == Step("replaceHot", "syncHot") /\ ChangeHot([hot |-> marker.replacement])
SyncReplaced == Step("syncHot", "catalog") /\ SyncHot

WriteCatalog ==
    /\ WriteJson("catalog", "catalog",
           [segment |-> marker.publication, rollback |-> marker.rollback], FALSE, "clear")
    /\ UNCHANGED <<rows, cut, publication, faults>>

\* _clear_pending_marker
Clear == Step("clear", "syncClear") /\ ChangeSeg([marker |-> Absent])
SyncClear == At("syncClear") /\ SyncSeg /\ Stops /\ UNCHANGED <<rows, faults>>

\* An error within the try: temporary files are removed, then everything is undone,
\* unless the catalog has its name.
Undo ==
    \/ pc \in {"seal", "fillSegment", "record", "linkSegment", "unlinkTmp", "syncSegment", "hotReady", "replaceHot",
               "syncHot", "catalog"}
    \/ pc \in {"putJson", "unlinkJson", "syncJson"} /\ then \in {"linkSegment", "replaceHot", "clear"}

MigrationFails ==
    /\ Undo /\ Fault
    /\ ChangeSeg([tmp |-> Absent, json |-> Absent])
    /\ IF segDir.catalog = Absent
       THEN Goto("restore") /\ out' = Absent /\ UNCHANGED <<then, cut, publication>>
       ELSE Stops
    /\ UNCHANGED rows

\* The first marker of an operation and a rollback's terminal one: nothing is undone.
JsonFails ==
    /\ pc \in {"putJson", "unlinkJson", "syncJson"} /\ then \notin {"linkSegment", "replaceHot", "clear"} /\ Fault
    /\ ChangeSeg([json |-> Absent])
    /\ Stops /\ UNCHANGED rows

(***************************************************************************)
(* Going back to v1: after an error and by recovery.                       *)
(***************************************************************************)

\* _restore_v1_source
Restore == Step("restore", "syncRestored") /\ ChangeHot([hot |-> segDir.rollback])
SyncRestored == Step("syncRestored", "removeTemporary") /\ SyncHot

\* _remove_authenticated_orphan_segment
RemoveTemporary ==
    /\ At("removeTemporary")
    /\ IF publication = Absent \/ segDir.segment = Absent
       THEN Goto("clear") /\ UNCHANGED files
       ELSE Goto("removeSegment") /\ ChangeSeg([tmp |-> Absent])
    /\ UNCHANGED <<rows, then, out, cut, publication, faults>>
RemoveSegment == Step("removeSegment", "syncRemoved") /\ ChangeSeg([segment |-> Absent])
SyncRemoved == Step("syncRemoved", "clear") /\ SyncSeg

(***************************************************************************)
(* rollback_segmented_history                                              *)
(***************************************************************************)

\* _load_rollback_catalog
CatalogVerified(s) == s.catalog # Absent /\ s.segment = s.catalog.segment

StartRollback ==
    /\ marker = Absent /\ CatalogVerified(segDir) /\ segDir.rollback = segDir.catalog.rollback
    /\ WriteJson("idle", "marker",
           [operation |-> "rollback", phase |-> "prepared", rollback |-> segDir.rollback, source |-> hotDir.hot,
            publication |-> Absent, replacement |-> Absent], FALSE, "restoreV1")
    /\ UNCHANGED <<rows, cut, publication, faults>>

RestoreV1 == Step("restoreV1", "syncV1") /\ ChangeHot([hot |-> segDir.rollback])
SyncV1 == Step("syncV1", "prepareCleanup") /\ SyncHot

\* _require_rollback_cleanup_files
NoUnknownFile(s) == s.json = Absent /\ s.tmp = Absent

\* Mutant: the restored source is not synced again.
PrepareCleanupUnsynced ==
    /\ At("prepareCleanup") /\ Goto(IF NoUnknownFile(segDir) THEN "terminal" ELSE "idle")
    /\ UNCHANGED <<files, rows, then, out, cut, publication, faults>>

\* _prepare_rollback_cleanup: a previous restore may not have been synced.
PrepareCleanup ==
    /\ At("prepareCleanup")
    /\ IF NoUnknownFile(segDir) /\ hotDir.hot = segDir.rollback
       THEN Goto("terminal") /\ SyncHot /\ UNCHANGED <<then, out, cut, publication>>
       ELSE Stops /\ UNCHANGED files
    /\ UNCHANGED <<rows, faults>>

Terminal ==
    /\ WriteJson("terminal", "marker",
           [marker EXCEPT !.phase = "rollback-cleanup", !.source = segDir.rollback], TRUE, "finishCleanup")
    /\ UNCHANGED <<rows, cut, publication, faults>>

\* _finish_rollback_cleanup: the marker is synced before anything is deleted.
FinishCleanup == Step("finishCleanup", "retireCatalog") /\ SyncSeg
RetireCatalog == Step("retireCatalog", "syncCatalog") /\ ChangeSeg([catalog |-> Absent])
SyncCatalog == Step("syncCatalog", "retireSegment") /\ SyncSeg
RetireSegment == Step("retireSegment", "syncRetired") /\ ChangeSeg([segment |-> Absent])
SyncRetired == Step("syncRetired", "clear") /\ SyncSeg

(***************************************************************************)
(* recover_pending_migration, also at startup                              *)
(***************************************************************************)

\* A segment temporary is known only as a second name of the recorded segment.
NoLeftovers(s) == s.tmp # Absent => s.marker.publication # Absent /\ s.segment # Absent

ForwardReady(h, s) ==
    /\ s.marker.operation = "forward" /\ s.catalog = Absent
    /\ s.segment \in {Absent, s.marker.publication}
    /\ h.hot = s.marker.source \/ (s.marker.phase = "hot-ready" /\ h.hot = s.marker.replacement)

PublishedReady(h, s) ==
    /\ s.marker.operation = "forward" /\ CatalogVerified(s) /\ s.catalog.rollback = s.marker.rollback
    /\ s.marker.phase = "hot-ready" /\ h.hot = s.marker.replacement

\* A rollback keeps its catalog until the terminal marker is written, so one that is
\* pending without a catalog (segment_migration.py:1203) does not happen.
RollbackReady(h, s) ==
    /\ s.marker.operation = "rollback" /\ s.marker.phase = "prepared"
    /\ CatalogVerified(s) /\ s.catalog.rollback = s.marker.rollback
    /\ h.hot \in {s.marker.source, s.marker.rollback}

CleanupReady(h, s) == s.marker.phase = "rollback-cleanup" /\ h.hot = s.marker.rollback

\* A snapshot that a failed migration left, still the same as the live database.
RecoverSnapshot ==
    /\ At("idle") /\ marker = Absent /\ segDir.tmp = Absent
    /\ segDir.catalog = Absent /\ segDir.rollback # Absent /\ segDir.rollback = hotDir.hot
    /\ ChangeSeg([rollback |-> Absent])
    /\ Goto("syncClear")
    /\ UNCHANGED <<rows, then, out, cut, publication, faults>>

RecoveryMay == At("idle") /\ marker # Absent /\ segDir.rollback = marker.rollback

\* Mutant: a divergent live database is replaced as well.
RecoverForwardAnyway ==
    /\ RecoveryMay /\ NoLeftovers(segDir) /\ marker.operation = "forward" /\ segDir.catalog = Absent
    /\ Goto("restore") /\ publication' = marker.publication
    /\ UNCHANGED <<files, rows, then, out, cut, faults>>

RecoverForward ==
    /\ RecoveryMay /\ NoLeftovers(segDir) /\ ForwardReady(hotDir, segDir)
    /\ Goto("restore") /\ publication' = marker.publication
    /\ UNCHANGED <<files, rows, then, out, cut, faults>>

RecoverPublished ==
    /\ RecoveryMay /\ NoLeftovers(segDir) /\ PublishedReady(hotDir, segDir)
    /\ Goto("clear")
    /\ UNCHANGED <<files, rows, then, out, cut, publication, faults>>

\* The rollback had not started, or it has to be finished.
RecoverRollback ==
    /\ RecoveryMay /\ NoLeftovers(segDir) /\ RollbackReady(hotDir, segDir)
    /\ Goto(IF hotDir.hot = marker.source THEN "clear" ELSE "prepareCleanup")
    /\ UNCHANGED <<files, rows, then, out, cut, publication, faults>>

RecoverCleanup ==
    /\ RecoveryMay /\ NoUnknownFile(segDir) /\ CleanupReady(hotDir, segDir)
    /\ Goto("finishCleanup")
    /\ UNCHANGED <<files, rows, then, out, cut, publication, faults>>

(***************************************************************************)
(* The environment.                                                        *)
(***************************************************************************)

\* Recovery has refused over files it does not know; the operator removes them.
OperatorRemoves ==
    /\ At("idle") /\ marker # Absent /\ (segDir.json # Absent \/ ~NoLeftovers(segDir))
    /\ segDir' = [segDir EXCEPT !.json = Absent, !.tmp = IF NoLeftovers(segDir) THEN @ ELSE Absent]
    /\ may' = {<<hotDir, segDir'>>}
    /\ UNCHANGED <<hotDir, rows, process, faults>>

\* Something else writes into the live database while an operation is pending.
ForeignWrite ==
    /\ At("idle") /\ marker # Absent /\ Fault
    /\ CommitHot([hot |-> hotDir.hot \union {-faults'}])
    /\ UNCHANGED <<rows, process>>

\* The process is killed, or an error that nothing cleans up after ends it.
Kill == ~At("idle") /\ Fault /\ Stops /\ UNCHANGED <<files, rows>>

PowerLoss == Fault /\ Reboot /\ Stops /\ UNCHANGED rows

Migrate ==
    \/ StartMigration \/ CopySource \/ SyncCopy \/ CopyFails \/ Prepare \/ Seal \/ FillSegment \/ Record
    \/ LinkSegment \/ UnlinkTmp \/ SyncSegment \/ HotReady \/ ReplaceHot \/ SyncReplaced \/ WriteCatalog
    \/ Clear \/ SyncClear \/ MigrationFails \/ Restore \/ SyncRestored \/ RemoveTemporary \/ RemoveSegment \/ SyncRemoved

Rollback ==
    \/ StartRollback \/ RestoreV1 \/ SyncV1 \/ PrepareCleanup \/ Terminal \/ FinishCleanup
    \/ RetireCatalog \/ SyncCatalog \/ RetireSegment \/ SyncRetired

Recover == RecoverSnapshot \/ RecoverForward \/ RecoverPublished \/ RecoverRollback \/ RecoverCleanup

Next ==
    \/ Write \/ Migrate \/ Rollback \/ Recover
    \/ PutJson \/ UnlinkJson \/ SyncJson \/ JsonFails
    \/ OperatorRemoves \/ ForeignWrite \/ Kill \/ PowerLoss

Spec == Init /\ [][Next]_vars

(***************************************************************************)
(* Properties.                                                             *)
(***************************************************************************)

Whole(content) == content # Torn /\ content \in Contents

MarkerOK(m) ==
    /\ m.operation \in {"forward", "rollback"} /\ Whole(m.rollback) /\ Whole(m.source)
    /\ m.phase \in (IF m.operation = "forward" THEN {"prepared", "segment-ready", "hot-ready"}
                    ELSE {"prepared", "rollback-cleanup"})
    /\ \A content \in {m.publication, m.replacement} : content = Absent \/ Whole(content)
    /\ m.phase = "hot-ready" => m.replacement # Absent
    /\ m.phase \in {"segment-ready", "hot-ready"} => m.publication # Absent

\* Types: neither the live database nor a published segment or catalog is ever partly
\* written, on disk or after a power loss, and a marker has the records of its phase.
TypeOK ==
    /\ <<hotDir, segDir>> \in may
    /\ \A m \in may :
          /\ Whole(m[1].hot)
          /\ m[2].segment = Absent \/ Whole(m[2].segment)
          /\ m[2].catalog # Absent => Whole(m[2].catalog.segment) /\ Whole(m[2].catalog.rollback)
          /\ \A content \in {m[2].tmp, m[2].rollback} : content \in {Absent, Torn} \/ Whole(content)
          /\ m[2].marker # Absent => MarkerOK(m[2].marker)
          /\ m[2].json \in {Absent, Torn}
    /\ rows \in 0..MaxRows /\ cut \in (-MaxFaults)..MaxRows /\ faults \in 0..MaxFaults

\* What the store may open is one complete generation: with a catalog, its segment is
\* there and unchanged, shares no row with the hot database, and the v1 snapshot that
\* a rollback needs is kept.
OpenIsWhole ==
    marker = Absent /\ segDir.catalog # Absent =>
        /\ CatalogVerified(segDir) /\ segDir.catalog.segment \intersect hotDir.hot = {}
        /\ segDir.rollback = segDir.catalog.rollback

\* The rows of a live database that a pending operation does not know of: something
\* else wrote them, or the service did before a power loss brought the marker back.
Divergent(h, m) == h.hot \ (m.source \union m.rollback)

\* Whatever a kill, an error or a power loss leaves behind a marker, at any phase of a
\* migration or a rollback, recovery accepts, once the operator has removed the files
\* it names and if the live database has not diverged.
RecoveryReady ==
    \A m \in may :
        LET h == m[1]
            s == m[2]
        IN  s.marker # Absent /\ Divergent(h, s.marker) = {} =>
                /\ s.rollback = s.marker.rollback
                /\ ForwardReady(h, s) \/ PublishedReady(h, s) \/ RollbackReady(h, s) \/ CleanupReady(h, s)

\* A divergent live database is not replaced: recovery refuses it, whatever the phase.
DivergentPreserved ==
    [][marker # Absent => Divergent(hotDir, marker) \subseteq hotDir'.hot]_vars

\* The rows the history stands for: a migration does not change them, and a rollback
\* does once its restored database would survive a power loss.
Rows ==
    LET m == marker
        known == IF m.operation = "forward" THEN m.source
                 ELSE IF \A x \in may : x[1].hot \ Divergent(x[1], m) = m.rollback THEN m.rollback
                 ELSE m.source \union segDir.catalog.segment
        all == IF m # Absent THEN known \union Divergent(hotDir, m)
               ELSE hotDir.hot \union IF segDir.catalog = Absent THEN {} ELSE segDir.catalog.segment
    IN  {r \in all : r > 0}

Contract == INSTANCE MigrationContract WITH open <- marker = Absent, history <- Rows

\* Migration, rollback and their recoveries with all their crashes implement the
\* contract: no row is lost or shown twice except that a rollback returns, entirely or
\* not at all, to the rows of the v1 snapshot.
ImplementsContract == Contract!Spec
=============================================================================
