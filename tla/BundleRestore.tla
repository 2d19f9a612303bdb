---------------------------- MODULE BundleRestore ---------------------------
(***************************************************************************)
(* The import of a backup bundle with segmented history                    *)
(* (history_service/system_backup.py, _ImportActivationTransaction) and    *)
(* the recovery of one that was interrupted                                *)
(* (history_service/segmented_restore.py).                                 *)
(*                                                                         *)
(* An import replaces targets: 1 is the hot database, 2 the tree of the    *)
(* segments, the others are the groups of the configuration.  The history  *)
(* is replaced under an activation journal next to the hot database, which *)
(* closes the history store.  What is known of the other targets is in the *)
(* memory of the process only.                                             *)
(*                                                                         *)
(* A hot database is <<g, n>>: generation g with n rows written since; a   *)
(* tree and a candidate are <<g, 0>>, a group of the configuration is g.   *)
(* The names of staged and parked files are new for every import: what an  *)
(* earlier one left under such a name, nobody looks for.  Groups live in   *)
(* directories of their own, and each of their changes is synced at once.  *)
(***************************************************************************)
EXTENDS Directories

CONSTANTS
    NumGroups,        \* groups of the configuration
    MaxImports,       \* bound: imports
    MaxRows,          \* bound: rows written between two of them
    MaxFaults         \* bound: failing calls, kills and power losses

ASSUME RestoreAssumption ==
    NumGroups \in Nat /\ MaxImports \in Nat \ {0} /\ MaxRows \in Nat /\ MaxFaults \in Nat

Hot == 1
Tree == 2
LastTarget == 2 + NumGroups
Groups == 3..LastTarget
Targets == {Hot, Tree} \union Groups

Foreign == MaxRows + 1

\* What files hold: a generation and its rows; the originals and the candidate.
Contents == (0..MaxImports) \X (0..Foreign)
Originals == Contents \union {Absent}
Journals == [prior : Originals \X Originals, candidate : Contents]

ASSUME ContentsAssumption ==
    /\ \A content \in Contents : content # Absent /\ content # Torn
    /\ Absent \notin Journals /\ Torn \notin Journals

VARIABLES
    config, parked,   \* the groups, live and parked by the import that runs
    gen,              \* the generation of the last import
    bundle,           \* the groups it has
    pc, k,            \* the process with the history lock, and the target it is at
    prior,            \* the targets as they were recorded
    mutated,          \* entries of the transaction that have been changed
    marked,           \* whether the import knows of its journal
    displaced,        \* what a rollback has moved aside
    failed,           \* whether a target could not be rolled back
    result,           \* what the last import has reported
    faults

settings == <<config, parked>>
transaction == <<bundle, prior, mutated, marked, displaced, failed, result>>
vars == <<files, settings, gen, pc, k, transaction, faults>>

journal == hotDir.journal

Init ==
    /\ \E hot \in {Absent, <<0, 0>>}, tree \in {Absent, <<0, 0>>} :
          /\ hot = Absent => tree = Absent
          /\ hotDir = [live |-> hot, staged |-> Absent, previous |-> Absent, journal |-> Absent]
          /\ segDir = [live |-> tree, staged |-> Absent, previous |-> Absent]
    /\ may = {<<hotDir, segDir>>}
    /\ config \in [Groups -> {0, Absent}] /\ parked = [g \in Groups |-> Absent]
    /\ gen = 0 /\ bundle = {} /\ pc = "idle" /\ k = 0
    /\ prior = <<>> /\ mutated = {} /\ marked = FALSE /\ displaced = Absent /\ failed = FALSE
    /\ result = "none" /\ faults = 0

At(place) == pc = place
Goto(place, target) == pc' = place /\ k' = target
Fault == faults < MaxFaults /\ faults' = faults + 1

\* The process ends, and forgets.
Stops(reported) ==
    /\ Goto("idle", 0) /\ bundle' = {} /\ prior' = <<>> /\ mutated' = {} /\ marked' = FALSE
    /\ displaced' = Absent /\ failed' = FALSE
    /\ parked' = [g \in Groups |-> Absent]
    /\ result' = reported

Dir(t) == IF t = Hot THEN hotDir ELSE segDir
Change(t, change) == IF t = Hot THEN ChangeHot(change) ELSE ChangeSeg(change)
Complete(t, name, content) == IF t = Hot THEN CompleteHot(name, content) ELSE CompleteSeg(name, content)
Sync(t) == IF t = Hot THEN SyncHot ELSE SyncSeg

\* A step that only changes or syncs the directories.
Step(from, to, target) ==
    At(from) /\ Goto(to, target) /\ UNCHANGED <<settings, gen, transaction, faults>>

Candidate == <<gen, 0>>

\* The service writes: the store opens without a journal, and never under the lock.
Write ==
    /\ At("idle") /\ journal = Absent
    /\ LET hot == IF hotDir.live = Absent THEN <<0, 0>> ELSE hotDir.live
       IN  hot[2] < MaxRows /\ CommitHot([live |-> <<hot[1], hot[2] + 1>>])
    /\ UNCHANGED <<settings, gen, pc, k, transaction, faults>>

(***************************************************************************)
(* prepare_segmented_history and the activation journal                    *)
(***************************************************************************)

\* Both history targets are recorded.  With a journal of somebody else an import
\* removes again what it has staged.
StartImport ==
    /\ At("idle") /\ journal = Absent /\ gen < MaxImports
    /\ gen' = gen + 1 /\ bundle' \in SUBSET Groups
    /\ prior' = [t \in Targets |-> IF t \in Groups THEN config[t] ELSE Dir(t).live]
    /\ Goto("fill", Hot) /\ ChangeHot([staged |-> Torn, previous |-> Absent])
    /\ result' = "none"
    /\ UNCHANGED <<settings, mutated, marked, displaced, failed, faults>>

StageTree == Step("stage", "fill", Tree) /\ ChangeSeg([staged |-> Torn, previous |-> Absent])
Fill == Step("fill", "syncStaged", k) /\ Complete(k, "staged", Candidate)
SyncStaged == Step("syncStaged", IF k = Hot THEN "stage" ELSE "journal", k) /\ Sync(k)

\* write_restore_journal: under its final name.
CreateJournal == Step("journal", "fillJournal", 0) /\ ChangeHot([journal |-> Torn])
FillJournal ==
    /\ Step("fillJournal", "syncJournal", 0)
    /\ CompleteHot("journal", [prior |-> <<prior[Hot], prior[Tree]>>, candidate |-> Candidate])
SyncJournal ==
    /\ At("syncJournal") /\ Goto("config", 0) /\ marked' = TRUE
    /\ SyncHot
    /\ UNCHANGED <<settings, gen, bundle, prior, mutated, displaced, failed, result, faults>>

(***************************************************************************)
(* _activate_import_bundle                                                 *)
(***************************************************************************)

\* The groups of the bundle, in their order: the original is parked, then replaced.
\* A group that the bundle does not have is left alone.
Remaining == {g \in bundle : config[g] # gen}
NextGroup(g) == g \in Remaining /\ \A other \in Remaining : g <= other

\* Mutant: a parked original does not count as changed.
ParkConfigUnrecorded ==
    /\ At("config")
    /\ \E g \in Groups :
          /\ NextGroup(g) /\ config[g] # Absent
          /\ parked' = [parked EXCEPT ![g] = config[g]] /\ config' = [config EXCEPT ![g] = Absent]
    /\ UNCHANGED <<files, gen, pc, k, transaction, faults>>

\* _park_original
ParkConfig ==
    /\ At("config")
    /\ \E g \in Groups :
          /\ NextGroup(g) /\ config[g] # Absent
          /\ parked' = [parked EXCEPT ![g] = config[g]] /\ config' = [config EXCEPT ![g] = Absent]
          /\ mutated' = mutated \union {g}
    /\ UNCHANGED <<files, gen, pc, k, bundle, prior, marked, displaced, failed, result, faults>>

\* activate_file and activate_directory
ReplaceConfig ==
    /\ At("config")
    /\ \E g \in Groups :
          /\ NextGroup(g) /\ config[g] = Absent
          /\ config' = [config EXCEPT ![g] = gen] /\ mutated' = mutated \union {g}
    /\ UNCHANGED <<files, parked, gen, pc, k, bundle, prior, marked, displaced, failed, result, faults>>

ConfigDone == Step("config", "park", Hot) /\ Remaining = {} /\ UNCHANGED files

\* _activate_prepared_target: the live target and the candidate are authenticated,
\* and the live one is parked.
Matches(t) == Dir(t).live = prior[t] /\ Dir(t).staged = Candidate

Park ==
    /\ At("park") /\ Matches(k)
    /\ IF prior[k] = Absent
       THEN Goto("replace", k) /\ UNCHANGED <<files, mutated>>
       ELSE /\ Goto("syncParked", k) /\ mutated' = mutated \union {k}
            /\ Change(k, [live |-> Absent, previous |-> Dir(k).live])
    /\ UNCHANGED <<settings, gen, bundle, prior, marked, displaced, failed, result, faults>>

\* Otherwise everything is left as it is, and so is the journal.
PreserveEvidence == At("park") /\ ~Matches(k) /\ Stops("incomplete") /\ UNCHANGED <<files, config, gen, faults>>

SyncParked == Step("syncParked", "replace", k) /\ Sync(k)
Replace ==
    /\ At("replace") /\ Goto("syncReplaced", k) /\ mutated' = mutated \union {k}
    /\ Change(k, [live |-> Dir(k).staged, staged |-> Absent])
    /\ UNCHANGED <<settings, gen, bundle, prior, marked, displaced, failed, result, faults>>
SyncReplaced == Step("syncReplaced", IF k = Hot THEN "park" ELSE "settings", Tree) /\ Sync(k)

\* The new settings load, and the transaction commits.
Commit == Step("settings", "retire", Hot) /\ UNCHANGED files

(***************************************************************************)
(* _finalize_commit: the parked originals go, the journal goes last.       *)
(***************************************************************************)

Retire == Step("retire", "syncRetired", k) /\ Change(k, [previous |-> Absent])
SyncRetired == Step("syncRetired", IF k = Hot THEN "retire" ELSE "cleanup", Tree) /\ Sync(k)
Cleanup ==
    /\ At("cleanup") /\ Goto("removeJournal", 0)
    /\ parked' = [g \in Groups |-> Absent]
    /\ UNCHANGED <<files, config, gen, transaction, faults>>

RemoveJournal == Step("removeJournal", "syncRemoved", 0) /\ ChangeHot([journal |-> Absent])
SyncRemoved == At("syncRemoved") /\ SyncHot /\ Stops("ok") /\ UNCHANGED <<config, gen, faults>>

\* After the commit nothing is rolled back.
FinalizeFails ==
    /\ pc \in {"retire", "syncRetired", "cleanup", "removeJournal", "syncRemoved"} /\ Fault
    /\ Stops("incomplete")
    /\ UNCHANGED <<files, config, gen>>

(***************************************************************************)
(* rollback, in the reverse order of the entries.                          *)
(***************************************************************************)

Staging == {"fill", "syncStaged", "stage", "journal", "fillJournal", "syncJournal"}
Activating == {"config", "park", "syncParked", "replace", "syncReplaced", "settings"}

\* An error before the commit.  A journal that could not be written is removed, one
\* whose name could not be synced is not.
ImportFails ==
    /\ pc \in Staging \union Activating /\ Fault
    /\ Goto("rollback", LastTarget)
    /\ IF At("fillJournal") THEN ChangeHot([journal |-> Absent]) ELSE UNCHANGED files
    /\ UNCHANGED <<settings, gen, transaction>>

SkipTarget == Step("rollback", "rollback", k - 1) /\ k > 0 /\ k \notin mutated /\ UNCHANGED files

\* _restore_target moves what is live aside.
Displace ==
    /\ At("rollback") /\ k \in mutated
    /\ IF k \in Groups
       THEN /\ Goto("restoreTarget", k) /\ displaced' = config[k]
            /\ config' = [config EXCEPT ![k] = Absent] /\ UNCHANGED files
       ELSE /\ displaced' = Dir(k).live
            /\ IF Dir(k).live = Absent
               THEN Goto("restoreTarget", k) /\ UNCHANGED files
               ELSE Goto("syncDisplaced", k) /\ Change(k, [live |-> Absent])
            /\ UNCHANGED config
    /\ UNCHANGED <<parked, gen, bundle, prior, mutated, marked, failed, result, faults>>
SyncDisplaced == Step("syncDisplaced", "restoreTarget", k) /\ Sync(k)

\* Mutant: a target that was missing keeps what the import put there.
RestoreTargetMissing ==
    /\ At("restoreTarget") /\ Goto("syncRestored", k)
    /\ IF k \in Groups
       THEN /\ config' = [config EXCEPT ![k] = IF prior[k] = Absent THEN displaced ELSE parked[k]]
            /\ parked' = [parked EXCEPT ![k] = Absent] /\ UNCHANGED files
       ELSE /\ IF prior[k] = Absent THEN UNCHANGED files
               ELSE Change(k, [live |-> Dir(k).previous, previous |-> Absent])
            /\ UNCHANGED settings
    /\ UNCHANGED <<gen, transaction, faults>>

\* Its original is put back.
RestoreTarget ==
    /\ At("restoreTarget") /\ Goto("syncRestored", k)
    /\ IF k \in Groups
       THEN /\ config' = [config EXCEPT ![k] = parked[k]] /\ parked' = [parked EXCEPT ![k] = Absent]
            /\ UNCHANGED files
       ELSE /\ IF prior[k] = Absent THEN UNCHANGED files
               ELSE Change(k, [live |-> Dir(k).previous, previous |-> Absent])
            /\ UNCHANGED settings
    /\ UNCHANGED <<gen, transaction, faults>>
SyncRestored ==
    /\ At("syncRestored") /\ Goto("rollback", k - 1)
    /\ IF k \in Groups THEN UNCHANGED files ELSE Sync(k)
    /\ mutated' = mutated \ {k} /\ displaced' = Absent
    /\ UNCHANGED <<settings, gen, bundle, prior, marked, failed, result, faults>>

\* One target cannot be rolled back, the others are tried.  What was moved aside is
\* put back, if that works.
RestoreFails ==
    /\ \/ At("rollback") /\ k \in mutated
       \/ pc \in {"syncDisplaced", "restoreTarget", "syncRestored"}
    /\ Fault /\ Goto("rollback", k - 1) /\ failed' = TRUE /\ displaced' = Absent
    /\ \/ UNCHANGED <<files, config>>
       \/ /\ At("restoreTarget") /\ displaced # Absent /\ prior[k] # Absent
          /\ IF k \in Groups
             THEN config' = [config EXCEPT ![k] = displaced] /\ UNCHANGED files
             ELSE Change(k, [live |-> displaced]) /\ UNCHANGED config
    /\ UNCHANGED <<parked, gen, bundle, prior, mutated, marked, result>>

RollbackIncomplete ==
    /\ At("rollback") /\ k = 0 /\ failed
    /\ Stops("incomplete")
    /\ UNCHANGED <<files, config, gen, faults>>

\* The staged candidates are removed, the tree file by file.
RollbackDone == Step("rollback", "unstaged", Hot) /\ k = 0 /\ ~failed /\ ChangeHot([staged |-> Absent])
SyncUnstaged ==
    /\ Step("unstaged", IF k = Hot /\ segDir.staged # Absent THEN "unstageTree"
                        ELSE IF marked THEN "unmark" ELSE "reported", Tree)
    /\ Sync(k)
UnstageTree == Step("unstageTree", "unstageRest", Tree) /\ ChangeSeg([staged |-> Torn])
UnstageRest == Step("unstageRest", "unstaged", Tree) /\ ChangeSeg([staged |-> Absent])
Unmark == Step("unmark", "syncUnmarked", 0) /\ ChangeHot([journal |-> Absent])
SyncUnmarked == Step("syncUnmarked", "reported", 0) /\ SyncHot
Report == At("reported") /\ Stops("failed") /\ UNCHANGED <<files, config, gen, faults>>

CleanupFails ==
    /\ pc \in {"unstaged", "unstageTree", "unstageRest", "unmark", "syncUnmarked"} /\ Fault
    /\ Stops("incomplete")
    /\ UNCHANGED <<files, config, gen>>

(***************************************************************************)
(* recover_segmented_restore                                               *)
(***************************************************************************)

Prior(t) == journal.prior[t]

\* _require_known_location, for each of the six
Known(dir, old, new) ==
    dir.live \in {Absent, old, new} /\ dir.staged \in {Absent, new} /\ dir.previous \in {Absent, old}

CandidateLive(h, s) == h.live = h.journal.candidate /\ s.live = h.journal.candidate
Available(dir, old) == old \in {Absent, dir.live, dir.previous}

Recoverable(h, s) ==
    /\ Known(h, h.journal.prior[Hot], h.journal.candidate) /\ Known(s, h.journal.prior[Tree], h.journal.candidate)
    /\ CandidateLive(h, s) \/ (Available(h, h.journal.prior[Hot]) /\ Available(s, h.journal.prior[Tree]))

RecoveryMay == At("idle") /\ journal \notin {Absent, Torn} /\ Recoverable(hotDir, segDir)

RecoverForward ==
    /\ RecoveryMay /\ CandidateLive(hotDir, segDir)
    /\ Goto("recRetire", Hot) /\ result' = "none"
    /\ UNCHANGED <<files, settings, gen, bundle, prior, mutated, marked, displaced, failed, faults>>
RecRetire == Step("recRetire", "recSyncRetired", k) /\ Change(k, [previous |-> Absent])
RecSyncRetired == Step("recSyncRetired", IF k = Hot THEN "recRetire" ELSE "recStaged", IF k = Hot THEN Tree ELSE Hot) /\ Sync(k)

\* Mutant: a hot database that was not replaced is taken for a restore that had not begun.
RecoverBackUnbegun ==
    /\ RecoveryMay /\ ~CandidateLive(hotDir, segDir)
    /\ Goto(IF hotDir.live = Prior(Hot) THEN "recStaged" ELSE "recRemove", Hot) /\ result' = "none"
    /\ UNCHANGED <<files, settings, gen, bundle, prior, mutated, marked, displaced, failed, faults>>

RecoverBack ==
    /\ RecoveryMay /\ ~CandidateLive(hotDir, segDir)
    /\ Goto("recRemove", Hot) /\ result' = "none"
    /\ UNCHANGED <<files, settings, gen, bundle, prior, mutated, marked, displaced, failed, faults>>

\* _restore_prior_file and _restore_prior_tree: the candidate goes, or a second copy of
\* the original, and then the original comes back.
RecRemove ==
    /\ Step("recRemove", "recSyncRemoved", k)
    /\ Change(k, IF Prior(k) # Absent /\ Dir(k).live = Prior(k) THEN [previous |-> Absent] ELSE [live |-> Absent])
RecSyncRemoved == Step("recSyncRemoved", "recRestore", k) /\ Sync(k)
RecRestore ==
    /\ Step("recRestore", "recSyncRestored", k)
    /\ IF Dir(k).live = Prior(k) THEN UNCHANGED files
       ELSE Change(k, [live |-> Dir(k).previous, previous |-> Absent])
RecSyncRestored == Step("recSyncRestored", IF k = Hot THEN "recRemove" ELSE "recStaged", IF k = Hot THEN Tree ELSE Hot) /\ Sync(k)

RecStaged == Step("recStaged", "recSyncStaged", k) /\ Change(k, [staged |-> Absent])
RecSyncStaged == Step("recSyncStaged", IF k = Hot THEN "recStaged" ELSE "recJournal", Tree) /\ Sync(k)
RecJournal == Step("recJournal", "recSyncJournal", 0) /\ ChangeHot([journal |-> Absent])
RecSyncJournal == Step("recSyncJournal", "idle", 0) /\ SyncHot

(***************************************************************************)
(* The environment.                                                        *)
(***************************************************************************)

\* Recovery refuses a journal or a staged tree that is not complete; the operator
\* removes it.
OperatorRemoves ==
    /\ At("idle") /\ (journal = Torn \/ (journal # Absent /\ segDir.staged = Torn))
    /\ hotDir' = [hotDir EXCEPT !.journal = IF @ = Torn THEN Absent ELSE @]
    /\ segDir' = [segDir EXCEPT !.staged = IF @ = Torn THEN Absent ELSE @]
    /\ may' = {<<hotDir', segDir'>>}
    /\ UNCHANGED <<settings, gen, pc, k, transaction, faults>>

\* Something else changes the live hot database behind the journal.
ForeignWrite ==
    /\ pc \in {"idle", "config"} /\ journal \notin {Absent, Torn} /\ hotDir.live # Absent /\ Fault
    /\ CommitHot([live |-> <<hotDir.live[1], Foreign>>])
    /\ UNCHANGED <<settings, gen, pc, k, transaction>>

Kill == ~At("idle") /\ Fault /\ Stops("none") /\ UNCHANGED <<files, config, gen>>
PowerLoss == Fault /\ Reboot /\ Stops("none") /\ UNCHANGED <<config, gen>>

Prepare == StartImport \/ StageTree \/ Fill \/ SyncStaged \/ CreateJournal \/ FillJournal \/ SyncJournal
Activate ==
    \/ ParkConfig \/ ReplaceConfig \/ ConfigDone \/ Park \/ PreserveEvidence \/ SyncParked \/ Replace \/ SyncReplaced
    \/ Commit \/ Retire \/ SyncRetired \/ Cleanup \/ RemoveJournal \/ SyncRemoved \/ FinalizeFails
Rollback ==
    \/ ImportFails \/ SkipTarget \/ Displace \/ SyncDisplaced \/ RestoreTarget \/ SyncRestored \/ RestoreFails
    \/ RollbackIncomplete \/ RollbackDone \/ SyncUnstaged \/ UnstageTree \/ UnstageRest \/ Unmark \/ SyncUnmarked
    \/ Report \/ CleanupFails
Recover ==
    \/ RecoverForward \/ RecRetire \/ RecSyncRetired \/ RecoverBack \/ RecRemove \/ RecSyncRemoved \/ RecRestore
    \/ RecSyncRestored \/ RecStaged \/ RecSyncStaged \/ RecJournal \/ RecSyncJournal

Next == Write \/ Prepare \/ Activate \/ Rollback \/ Recover \/ OperatorRemoves \/ ForeignWrite \/ Kill \/ PowerLoss

Spec == Init /\ [][Next]_vars

(***************************************************************************)
(* Properties.                                                             *)
(***************************************************************************)

HotDirs == [live : Originals, staged : Originals \union {Torn}, previous : Originals,
            journal : Journals \union {Absent, Torn}]
SegDirs == [live : Originals, staged : Originals \union {Torn}, previous : Originals]

\* Types: a live or parked history is never partly written, whatever a power loss
\* leaves, and a parked group belongs to an entry that a rollback will undo.
TypeOK ==
    /\ <<hotDir, segDir>> \in may
    /\ \A m \in may : m[1] \in HotDirs /\ m[2] \in SegDirs
    /\ config \in [Groups -> (0..MaxImports) \union {Absent}]
    /\ parked \in [Groups -> (0..MaxImports) \union {Absent}]
    /\ \A g \in Groups : parked[g] # Absent => g \in mutated
    /\ gen \in 0..MaxImports /\ bundle \subseteq Groups /\ k \in {0} \union Targets
    /\ mutated \subseteq Targets /\ marked \in BOOLEAN /\ failed \in BOOLEAN
    /\ result \in {"none", "ok", "failed", "incomplete"} /\ faults \in 0..MaxFaults

\* One generation: the hot database belongs to the tree, if there is one.
Whole(h, s) == IF s.live = Absent THEN h.live = Absent \/ h.live[1] = 0
               ELSE h.live # Absent /\ h.live[1] = s.live[1]

\* Whatever a kill, an error or a power loss leaves: the store opens on one complete
\* generation only, and behind a journal recovery accepts what is there, once the
\* operator has removed a staged tree that is not complete, or a hot database that
\* something else has changed is still in its place.
NeverStranded ==
    \A m \in may :
        LET h == m[1]
            s == m[2]
        IN  IF h.journal \in {Absent, Torn} THEN Whole(h, s)
            ELSE \/ Recoverable(h, [s EXCEPT !.staged = IF @ = Torn THEN Absent ELSE @])
                 \/ h.live # Absent /\ h.live[2] = Foreign

\* What the import reports is what is there and stays there after a power loss: with
\* success every target of the bundle is new and the journal is gone, and an import
\* that failed with a complete rollback has left every target as it was.
AllOrNothing ==
    [][/\ result # "ok" /\ result' = "ok" =>
             /\ \A g \in Groups : config'[g] = IF g \in bundle THEN gen ELSE prior[g]
             /\ \A m \in may' : m[1].live = Candidate /\ m[2].live = Candidate /\ m[1].journal = Absent
       /\ result # "failed" /\ result' = "failed" =>
             /\ \A g \in Groups : config'[g] = prior[g]
             /\ \A m \in may' : /\ m[1].live = prior[Hot] \/ m[1].live[2] = Foreign
                                /\ m[2].live = prior[Tree]]_vars
=============================================================================
