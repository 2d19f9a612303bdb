--------------------------- MODULE SegmentRotation --------------------------
(***************************************************************************)
(* Rotation of segmented history (history_service/segment_rotation.py with *)
(* the sealing and staging it uses from segment_sealer.py and              *)
(* segment_migration.py): the old rows of the hot database move to a new   *)
(* immutable segment, under an activation journal from which an operator's *)
(* --recover finishes or undoes an interrupted rotation.                   *)
(*                                                                         *)
(* Rows are numbered in the order of their timestamps.  A hot database and *)
(* a segment hold a set of rows; a catalog is the sequence of its segments.*)
(***************************************************************************)
EXTENDS Directories

CONSTANTS
    MaxRows,          \* bound: rows the history service writes
    MaxGenerations,   \* MAX_SEGMENTS_PER_QUERY
    MaxFaults         \* bound: failing calls, kills and power losses

ASSUME RotationAssumption ==
    /\ MaxRows \in Nat \ {0} /\ MaxGenerations \in Nat \ {0} /\ MaxFaults \in Nat

Generations == 1..MaxGenerations

\* What files hold: rows, the segments of a catalog, the activation journal.
RowSets == SUBSET (1..MaxRows)
Catalogs == UNION {[1..n -> RowSets] : n \in Generations}
Phases == {"prepared", "segment-published", "hot-staged", "hot-replaced", "catalog-replaced", "cleanup",
           "prior-restored"}
Journals == [phase : Phases, gen : Generations, source : RowSets, catalog : Catalogs,
             segment : RowSets \union {Absent}, staged : RowSets \union {Absent}, candidate : Catalogs \union {Absent}]

ASSUME ContentsAssumption ==
    /\ \A content \in RowSets : content # Absent /\ content # Torn
    /\ Absent \notin Catalogs /\ Torn \notin Catalogs /\ Absent \notin Journals /\ Torn \notin Journals

VARIABLES
    rows,             \* the number of rows the service has committed
    pc, then, todo,   \* the process that holds the history lock
    cut,              \* its cutoff
    faults

process == <<pc, then, todo, cut>>
vars == <<files, rows, process, faults>>

\* Generation 1, as migration leaves it: the hot database, its copies and the journal,
\* the segments, the catalog and its copies.
Init ==
    /\ hotDir = [hot |-> {}, rollback |-> Absent, staged |-> Absent, journal |-> Absent]
    /\ segDir = [catalog |-> <<{1}>>, rollback |-> Absent, staged |-> Absent, tmp |-> Absent,
                 segs |-> [g \in Generations |-> IF g = 1 THEN {1} ELSE Absent]]
    /\ may = {<<hotDir, segDir>>}
    /\ rows = 1
    /\ pc = "idle" /\ then = "idle" /\ todo = <<>> /\ cut = 0
    /\ faults = 0

Fault == faults < MaxFaults /\ faults' = faults + 1

Segment(gen, content) == [segs |-> [segDir.segs EXCEPT ![gen] = content]]

\* verify_catalog_segments: every segment of the catalog is there, unchanged.
CatalogVerified(s) == \A i \in DOMAIN s.catalog : s.segs[i] = s.catalog[i]

At(place) == pc = place
Goto(place) == pc' = place

(***************************************************************************)
(* The history service.                                                    *)
(***************************************************************************)

\* A row is committed: only without a journal, and never under the history lock.
\* SQLite syncs the directory when it creates its own journal.
Write ==
    /\ At("idle") /\ hotDir.journal = Absent /\ rows < MaxRows
    /\ rows' = rows + 1
    /\ CommitHot([hot |-> hotDir.hot \union {rows + 1}])
    /\ UNCHANGED <<process, faults>>

(***************************************************************************)
(* rotate_segmented_history: the rollback copies.                          *)
(***************************************************************************)

\* The preflight, and the rollback copy of the hot database is created.
StartRotation ==
    /\ At("idle") /\ hotDir.journal = Absent
    /\ CatalogVerified(segDir)
    /\ Len(segDir.catalog) < MaxGenerations /\ segDir.segs[Len(segDir.catalog) + 1] = Absent
    /\ hotDir.rollback = Absent /\ segDir.rollback = Absent
    /\ \E c \in hotDir.hot : cut' = c
    /\ ChangeHot([rollback |-> Torn])
    /\ Goto("copyHot")
    /\ UNCHANGED <<rows, then, todo, faults>>

CopyHot ==
    /\ At("copyHot") /\ Goto("syncCopy")
    /\ CompleteHot("rollback", hotDir.hot)
    /\ UNCHANGED <<rows, then, todo, cut, faults>>

SyncCopy ==
    /\ At("syncCopy") /\ Goto("createCatalogCopy")
    /\ SyncHot
    /\ UNCHANGED <<rows, then, todo, cut, faults>>

CreateCatalogCopy ==
    /\ At("createCatalogCopy") /\ Goto("copyCatalog")
    /\ ChangeSeg([rollback |-> Torn])
    /\ UNCHANGED <<rows, then, todo, cut, faults>>

CopyCatalog ==
    /\ At("copyCatalog") /\ Goto("syncCatalogCopy")
    /\ CompleteSeg("rollback", segDir.catalog)
    /\ UNCHANGED <<rows, then, todo, cut, faults>>

SyncCatalogCopy ==
    /\ At("syncCatalogCopy") /\ Goto("prepare")
    /\ SyncSeg
    /\ UNCHANGED <<rows, then, todo, cut, faults>>

\* An error before the journal counts as written, its own sync included, removes
\* the copies again, the last one first.
CopyFails ==
    /\ \/ pc \in {"copyHot", "syncCopy", "createCatalogCopy", "copyCatalog", "syncCatalogCopy", "prepare"}
       \/ At("syncJournal") /\ then = "seal"
    /\ Fault
    /\ Goto("retire") /\ todo' = <<"rollbackCatalog", "rollbackHot">>
    /\ UNCHANGED <<files, rows, then, cut>>

(***************************************************************************)
(* The journal.                                                            *)
(***************************************************************************)

\* _write_rotation_journal: the file is put in place, then its directory synced.
PutJournal(from, journal, next) ==
    /\ At(from) /\ Goto("syncJournal") /\ then' = next
    /\ ChangeHot([journal |-> journal])
    /\ UNCHANGED <<rows, todo, cut, faults>>

SyncJournal ==
    /\ At("syncJournal") /\ Goto(then)
    /\ SyncHot
    /\ UNCHANGED <<rows, then, todo, cut, faults>>

Prepare ==
    PutJournal("prepare",
        [phase |-> "prepared", gen |-> Len(segDir.catalog) + 1,
         source |-> hotDir.hot, catalog |-> segDir.catalog,
         segment |-> Absent, staged |-> Absent, candidate |-> Absent], "seal")

WithPhase(phase) == [hotDir.journal EXCEPT !.phase = phase]

(***************************************************************************)
(* seal_history_segment                                                    *)
(***************************************************************************)

Seal ==
    /\ At("seal") /\ Goto("fillSegment")
    /\ ChangeSeg([tmp |-> Torn])
    /\ UNCHANGED <<rows, then, todo, cut, faults>>

FillSegment ==
    /\ At("fillSegment") /\ Goto("recordSegment")
    /\ CompleteSeg("tmp", {r \in hotDir.hot : r <= cut})
    /\ UNCHANGED <<rows, then, todo, cut, faults>>

\* before_publish: the segment is in the journal before it has its name.
RecordSegment == PutJournal("recordSegment", [hotDir.journal EXCEPT !.segment = segDir.tmp], "linkSegment")

LinkSegment ==
    /\ At("linkSegment") /\ Goto("unlinkSegment")
    /\ ChangeSeg(Segment(hotDir.journal.gen, segDir.tmp))
    /\ UNCHANGED <<rows, then, todo, cut, faults>>

UnlinkSegment ==
    /\ At("unlinkSegment") /\ Goto("syncSegment")
    /\ ChangeSeg([tmp |-> Absent])
    /\ UNCHANGED <<rows, then, todo, cut, faults>>

SyncSegment ==
    /\ At("syncSegment") /\ Goto("segmentPublished")
    /\ SyncSeg
    /\ UNCHANGED <<rows, then, todo, cut, faults>>

\* An error while sealing removes the temporary file.
SealFails ==
    /\ \/ pc \in {"fillSegment", "recordSegment", "linkSegment", "unlinkSegment"}
       \/ At("syncJournal") /\ then = "linkSegment"
    /\ Fault
    /\ Goto("idle")
    /\ ChangeSeg([tmp |-> Absent])
    /\ UNCHANGED <<rows, then, todo, cut>>

SegmentPublished == PutJournal("segmentPublished", WithPhase("segment-published"), "stageHot")

(***************************************************************************)
(* Staging and replacing.                                                  *)
(***************************************************************************)

StageHot ==
    /\ At("stageHot") /\ Goto("fillHot")
    /\ ChangeHot([staged |-> Torn])
    /\ UNCHANGED <<rows, then, todo, cut, faults>>

\* Mutant: the row at the cutoff stays in the hot database as well.
FillHotInclusive ==
    /\ At("fillHot") /\ Goto("recordHot")
    /\ CompleteHot("staged", {r \in hotDir.hot : r >= cut})
    /\ UNCHANGED <<rows, then, todo, cut, faults>>

FillHot ==
    /\ At("fillHot") /\ Goto("recordHot")
    /\ CompleteHot("staged", {r \in hotDir.hot : r > cut})
    /\ UNCHANGED <<rows, then, todo, cut, faults>>

StageFails ==
    /\ At("fillHot") /\ Fault
    /\ Goto("idle")
    /\ ChangeHot([staged |-> Absent])
    /\ UNCHANGED <<rows, then, todo, cut>>

RecordHot == PutJournal("recordHot", [hotDir.journal EXCEPT !.staged = hotDir.staged], "stageCatalog")

\* _stage_catalog: all segments so far and the new one.
StageCatalog ==
    /\ At("stageCatalog") /\ Goto("hotStaged")
    /\ ChangeSeg([staged |-> Append(segDir.catalog, hotDir.journal.segment)])
    /\ UNCHANGED <<rows, then, todo, cut, faults>>

\* Mutant: the candidate catalog is not recorded.
HotStagedUnrecorded == PutJournal("hotStaged", WithPhase("hot-staged"), "replaceHot")

HotStaged ==
    PutJournal("hotStaged", [WithPhase("hot-staged") EXCEPT !.candidate = segDir.staged], "replaceHot")

\* _replace_hot
ReplaceHot ==
    /\ At("replaceHot") /\ Goto("syncHot")
    /\ ChangeHot([hot |-> hotDir.staged, staged |-> Absent])
    /\ UNCHANGED <<rows, then, todo, cut, faults>>

SyncReplacedHot ==
    /\ At("syncHot") /\ Goto("hotReplaced")
    /\ SyncHot
    /\ UNCHANGED <<rows, then, todo, cut, faults>>

HotReplaced == PutJournal("hotReplaced", WithPhase("hot-replaced"), "replaceCatalog")

\* _replace_catalog, the commit point
ReplaceCatalog ==
    /\ At("replaceCatalog") /\ Goto("syncCatalog")
    /\ ChangeSeg([catalog |-> segDir.staged, staged |-> Absent])
    /\ UNCHANGED <<rows, then, todo, cut, faults>>

SyncReplacedCatalog ==
    /\ At("syncCatalog") /\ Goto("catalogReplaced")
    /\ SyncSeg
    /\ UNCHANGED <<rows, then, todo, cut, faults>>

\* Mutant: cleanup starts without its own phase.
CatalogReplacedCleanup == PutJournal("catalogReplaced", WithPhase("catalog-replaced"), "retireRollbacks")

CatalogReplaced == PutJournal("catalogReplaced", WithPhase("catalog-replaced"), "cleanup")

Cleanup == PutJournal("cleanup", WithPhase("cleanup"), "retireRollbacks")

RetireRollbacks ==
    /\ At("retireRollbacks") /\ Goto("retire")
    /\ todo' = <<"rollbackHot", "rollbackCatalog", "journal">>
    /\ UNCHANGED <<files, rows, then, cut, faults>>

(***************************************************************************)
(* _retire_authenticated_path, for each name of a list.                    *)
(***************************************************************************)

InHotDir(file) == file \in {"rollbackHot", "stagedHot", "journal"}
NameOf(file) ==
    IF file = "journal" THEN "journal" ELSE IF file \in {"rollbackHot", "rollbackCatalog"} THEN "rollback" ELSE "staged"

NextToRetire == todo' = Tail(todo) /\ pc' = IF Len(todo) = 1 THEN "idle" ELSE "retire"

\* The file is moved away; a missing one is passed over.
Retire ==
    /\ At("retire")
    /\ LET name == NameOf(Head(todo))
           gone == [n \in {name} |-> Absent]
       IN  IF (IF InHotDir(Head(todo)) THEN hotDir ELSE segDir)[name] = Absent
           THEN NextToRetire /\ UNCHANGED files
           ELSE /\ Goto("retired") /\ UNCHANGED todo
                /\ IF InHotDir(Head(todo)) THEN ChangeHot(gone) ELSE ChangeSeg(gone)
    /\ UNCHANGED <<rows, then, cut, faults>>

SyncRetired ==
    /\ At("retired")
    /\ IF InHotDir(Head(todo)) THEN SyncHot ELSE SyncSeg
    /\ NextToRetire
    /\ UNCHANGED <<rows, then, cut, faults>>

(***************************************************************************)
(* recover_pending_rotation                                                *)
(***************************************************************************)

Terminal(journal) == journal.phase \in {"cleanup", "prior-restored"}

\* No staging file or segment temporary but those the journal knows.
NoLeftovers(h, s) ==
    /\ s.tmp # Absent => h.journal.segment # Absent /\ s.segs[h.journal.gen] # Absent
    /\ h.staged # Absent => h.journal.staged # Absent
    /\ s.staged # Absent => h.journal.candidate # Absent

RollbacksMatch(h, s) ==
    /\ h.rollback = h.journal.source \/ (Terminal(h.journal) /\ h.rollback = Absent)
    /\ s.rollback = h.journal.catalog \/ (Terminal(h.journal) /\ s.rollback = Absent)

\* The catalog decides the branch.
CandidateReady(h, s) ==
    /\ s.catalog = h.journal.candidate /\ h.journal.phase # "prior-restored"
    /\ h.hot = h.journal.staged
    /\ s.segs[h.journal.gen] = h.journal.segment /\ s.tmp = Absent
    /\ CatalogVerified(s)

PriorReady(h, s) ==
    /\ s.catalog = h.journal.catalog /\ h.journal.phase # "cleanup"
    /\ h.hot = h.journal.source \/ (h.hot = h.journal.staged /\ h.journal.phase # "prior-restored")
    /\ CatalogVerified(s)

\* The rollback copies a rotation left before its journal are those of the live
\* files, or recovery refuses.
RecoverOrphans ==
    /\ At("idle") /\ hotDir.journal = Absent /\ segDir.tmp = Absent
    /\ CatalogVerified(segDir)
    /\ hotDir.rollback \in {Absent, hotDir.hot} /\ segDir.rollback \in {Absent, segDir.catalog}
    /\ <<hotDir.rollback, segDir.rollback>> # <<Absent, Absent>>
    /\ Goto("retire") /\ todo' = <<"rollbackCatalog", "rollbackHot">>
    /\ UNCHANGED <<files, rows, then, cut, faults>>

\* Finalize the candidate: decide again, then retire what is left.
RecoverCandidate ==
    /\ At("idle") /\ hotDir.journal # Absent
    /\ NoLeftovers(hotDir, segDir) /\ RollbacksMatch(hotDir, segDir) /\ CandidateReady(hotDir, segDir)
    /\ Goto("selectCandidate")
    /\ UNCHANGED <<files, rows, then, todo, cut, faults>>

SelectCandidate == PutJournal("selectCandidate", WithPhase("cleanup"), "retireCandidate")

RetireCandidate ==
    /\ At("retireCandidate") /\ Goto("retire")
    /\ todo' = <<"rollbackHot", "rollbackCatalog", "stagedHot", "stagedCatalog", "journal">>
    /\ UNCHANGED <<files, rows, then, cut, faults>>

\* Mutant: the hot database is left as it is.
RecoverPriorAsIs ==
    /\ At("idle") /\ hotDir.journal # Absent
    /\ NoLeftovers(hotDir, segDir) /\ RollbacksMatch(hotDir, segDir) /\ PriorReady(hotDir, segDir)
    /\ Goto("selectPrior")
    /\ UNCHANGED <<files, rows, then, todo, cut, faults>>

\* Go back to the prior generation: restore the hot database if it was replaced.
RecoverPrior ==
    /\ At("idle") /\ hotDir.journal # Absent
    /\ NoLeftovers(hotDir, segDir) /\ RollbacksMatch(hotDir, segDir) /\ PriorReady(hotDir, segDir)
    /\ Goto(IF hotDir.hot = hotDir.journal.source THEN "selectPrior" ELSE "restoreHot")
    /\ UNCHANGED <<files, rows, then, todo, cut, faults>>

\* _restore_hot, from a copy of the rollback copy
RestoreHot ==
    /\ At("restoreHot") /\ Goto("syncRestored")
    /\ ChangeHot([hot |-> hotDir.rollback])
    /\ UNCHANGED <<rows, then, todo, cut, faults>>

SyncRestored ==
    /\ At("syncRestored") /\ Goto("selectPrior")
    /\ SyncHot
    /\ UNCHANGED <<rows, then, todo, cut, faults>>

SelectPrior == PutJournal("selectPrior", WithPhase("prior-restored"), "removeTemporary")

\* _remove_authenticated_orphan_segment: the recorded segment, with one or two
\* links; recovery refuses any other.
RemoveTemporary ==
    /\ At("removeTemporary")
    /\ segDir.segs[hotDir.journal.gen] \in {Absent, hotDir.journal.segment}
    /\ IF segDir.segs[hotDir.journal.gen] = Absent
       THEN Goto("retirePrior") /\ UNCHANGED files
       ELSE Goto("removeSegment") /\ IF segDir.tmp = Absent THEN UNCHANGED files ELSE ChangeSeg([tmp |-> Absent])
    /\ UNCHANGED <<rows, then, todo, cut, faults>>

RemoveSegment ==
    /\ At("removeSegment") /\ Goto("syncRemoved")
    /\ ChangeSeg(Segment(hotDir.journal.gen, Absent))
    /\ UNCHANGED <<rows, then, todo, cut, faults>>

SyncRemoved ==
    /\ At("syncRemoved") /\ Goto("retirePrior")
    /\ SyncSeg
    /\ UNCHANGED <<rows, then, todo, cut, faults>>

RetirePrior ==
    /\ At("retirePrior") /\ Goto("retire")
    /\ todo' = <<"stagedHot", "stagedCatalog", "rollbackHot", "rollbackCatalog", "journal">>
    /\ UNCHANGED <<files, rows, then, cut, faults>>

(***************************************************************************)
(* The environment.                                                        *)
(***************************************************************************)

\* Recovery has named the leftovers and the operator removes them, for good.
OperatorRemoves ==
    /\ At("idle") /\ hotDir.journal # Absent /\ ~NoLeftovers(hotDir, segDir)
    /\ LET j == hotDir.journal
       IN  /\ hotDir' = IF j.staged = Absent THEN [hotDir EXCEPT !.staged = Absent] ELSE hotDir
           /\ segDir' = [segDir EXCEPT
                 !.tmp = IF j.segment = Absent \/ segDir.segs[j.gen] = Absent THEN Absent ELSE @,
                 !.staged = IF j.candidate = Absent THEN Absent ELSE @]
    /\ may' = {<<hotDir', segDir'>>}
    /\ UNCHANGED <<rows, process, faults>>

Stops == pc' = "idle" /\ then' = "idle" /\ todo' = <<>> /\ cut' = 0

\* The process is killed, or an error that nothing cleans up after ends it.
Kill ==
    /\ ~At("idle") /\ Fault
    /\ Stops
    /\ UNCHANGED <<files, rows>>

PowerLoss ==
    /\ Fault
    /\ Reboot
    /\ Stops
    /\ UNCHANGED rows

Rotate ==
    \/ StartRotation \/ CopyHot \/ SyncCopy \/ CreateCatalogCopy \/ CopyCatalog \/ SyncCatalogCopy \/ CopyFails
    \/ Prepare \/ SyncJournal \/ Seal \/ FillSegment \/ RecordSegment \/ LinkSegment \/ UnlinkSegment \/ SyncSegment
    \/ SealFails \/ SegmentPublished \/ StageHot \/ FillHot \/ StageFails \/ RecordHot \/ StageCatalog \/ HotStaged
    \/ ReplaceHot \/ SyncReplacedHot \/ HotReplaced \/ ReplaceCatalog \/ SyncReplacedCatalog \/ CatalogReplaced
    \/ Cleanup \/ RetireRollbacks \/ Retire \/ SyncRetired

Recover ==
    \/ RecoverOrphans \/ RecoverCandidate \/ SelectCandidate \/ RetireCandidate
    \/ RecoverPrior \/ RestoreHot \/ SyncRestored \/ SelectPrior \/ RemoveTemporary \/ RemoveSegment \/ SyncRemoved
    \/ RetirePrior

Next == Write \/ Rotate \/ Recover \/ OperatorRemoves \/ Kill \/ PowerLoss

Spec == Init /\ [][Next]_vars

(***************************************************************************)
(* Properties.                                                             *)
(***************************************************************************)

Contents == RowSets \union {Absent, Torn}

JournalOK(j) ==
    /\ j \in Journals
    /\ j.phase \notin {"prepared", "prior-restored"} => j.segment # Absent
    /\ j.phase \in {"hot-staged", "hot-replaced", "catalog-replaced", "cleanup"} => j.staged # Absent /\ j.candidate # Absent

\* Types: the live database and the live catalog are never partly written, on
\* disk or after a power loss, and a journal has the records its phase needs.
TypeOK ==
    /\ <<hotDir, segDir>> \in may
    /\ \A h \in {m[1] : m \in may} :
          /\ h.hot \in RowSets /\ h.rollback \in Contents /\ h.staged \in Contents
          /\ h.journal # Absent => JournalOK(h.journal)
    /\ \A s \in {m[2] : m \in may} :
          /\ s.catalog \in Catalogs
          /\ s.rollback \in Catalogs \union {Absent, Torn} /\ s.staged \in Catalogs \union {Absent}
          /\ s.tmp \in Contents /\ s.segs \in [Generations -> RowSets \union {Absent}]
    /\ rows \in 1..MaxRows /\ cut \in 0..MaxRows /\ faults \in 0..MaxFaults

Readable(h, s) == h.hot \union UNION {s.catalog[i] : i \in DOMAIN s.catalog}

\* What readers may open is the whole history: without an activation journal, every
\* committed row is in exactly one of the hot database and the catalog's segments,
\* and every segment is there and unchanged.
HistoryIntact ==
    hotDir.journal = Absent =>
        /\ CatalogVerified(segDir) /\ Readable(hotDir, segDir) = 1..rows
        /\ \A i \in DOMAIN segDir.catalog :
              /\ segDir.catalog[i] \intersect hotDir.hot = {}
              /\ \A j \in DOMAIN segDir.catalog : i # j => segDir.catalog[i] \intersect segDir.catalog[j] = {}

\* The journal was put in place but not synced, and the rollback copies it names were
\* removed again.
Stranded(h, s) ==
    /\ h.journal.phase = "prepared" /\ h.journal.segment = Absent
    /\ h.rollback = Absent \/ s.rollback = Absent

\* Whatever a kill or a power loss leaves behind a journal, recovery finds one of the
\* two generations complete and its evidence in place (once the operator has removed
\* the leftovers it names), except where EvidenceKept fails.
RecoveryReady ==
    \A m \in may :
        LET h == m[1]
            s == m[2]
        IN  h.journal # Absent /\ ~Stranded(h, s) =>
                /\ RollbacksMatch(h, s)
                /\ \/ CandidateReady(h, s)
                   \/ PriorReady(h, s) /\ s.segs[h.journal.gen] \in {Absent, h.journal.segment}

\* The documented recovery rule: for a nonterminal phase both rollback copies exist
\* and match the journal.
EvidenceKept ==
    hotDir.journal # Absent /\ ~Terminal(hotDir.journal) => RollbacksMatch(hotDir, segDir)

\* The candidate is the current generation once its catalog would survive a power
\* loss; until then the prior one is.
Decided == \A m \in may : m[2].catalog = hotDir.journal.candidate
Closed == hotDir.journal # Absent

\* The documented cleanup rule: no rollback copy is retired while the fsync that makes
\* the chosen catalog durable has not succeeded.
RetiredAfterSync ==
    Closed /\ hotDir.journal.phase = "cleanup" /\ hotDir.rollback = Absent => Decided

CurrentHot ==
    IF ~Closed THEN hotDir.hot ELSE IF Decided THEN hotDir.journal.staged ELSE hotDir.journal.source
CurrentSegments ==
    IF ~Closed THEN segDir.catalog ELSE IF Decided THEN hotDir.journal.candidate ELSE hotDir.journal.catalog

Contract == INSTANCE HistoryContract WITH open <- ~Closed, hot <- CurrentHot, segments <- CurrentSegments

\* Rotation with all its crashes and recoveries implements the contract: readers see
\* each rotation entirely or not at all, and one that took effect is never undone.
ImplementsContract == Contract!Spec
=============================================================================
