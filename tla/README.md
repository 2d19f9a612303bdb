# TLA+ models of truenas-jbod-ui

TLA+ specifications of the parts of truenas-jbod-ui in which concurrency, failures and
durability decide whether the program is right: the config change journal and its
backups, the retention of backup copies, the publication of archives, the migration,
rotation and restore of segmented history, and the client of the TrueNAS middleware. TLC
checks each on small instances; TLAPS proves their safety properties, and for migration
and rotation the refinement of what they promise, for every value of the constants.

    tlc -config ConfigBackupSafety.cfg MCConfigBackup      # and so on, see "Runs"
    tlapm ConfigBackupProofs.tla
    tlapm BackupLifecycleProofs.tla
    tlapm PublicationProofs.tla
    tlapm MiddlewareClientProofs.tla
    tlapm HistoryMigrationProofs.tla
    tlapm MigrationRefinementProofs.tla
    tlapm SegmentRotationProofs.tla
    tlapm BundleRestoreProofs.tla

`PROJECT.json` lists the components, runs, mutants (a changed definition per property
that the property must catch), the source lines behind every definition, the findings,
the hazards and the theorems.

## The system

Three long-running Python processes and some operator scripts share a set of volumes.

| Part | State it keeps | Operations | Talks to |
|---|---|---|---|
| UI application (`app/`) | snapshot, SMART and source caches; mappings, profiles, config files | refresh, LED actions, saving settings and mappings | TrueNAS WebSocket, SSH, BMC; appends to the change journal |
| Admin service (`admin_service/`) | runtime and maintenance state, backup receipts | maintenance windows, container stops, restores | scheduler API, Docker; appends to the change journal |
| Config change journal (`backup_archive/journal.py`) | one JSON-lines file under a flock | append, commit, compact, read | written by UI, admin and restore, committed by the scheduler |
| Config backup coalescer (same file) | seen entries, file fingerprint, timers, backoff | poll, tick, run | scheduler ticker, API threads |
| Backup scheduler (`backup_scheduler/`) | job lock, previewed plans, artifact-meta.json, status file | tick, start_run/run_now, plan/apply, preserve, verify, ship | runner, catalog, lifecycle, transports |
| Artifact catalog (`catalog.py`) | one SQLite row per copy: live or tombstone, verified, preserved, claimed | add, set/clear preserve, mark (un)verified, claim/release/record deletion | scheduler, lifecycle |
| Retention (`lifecycle.py`) | none of its own | plan, apply | catalog, storage locations |
| Publication (`scheduled_backup.py`) | temporary and final names in the archive directory, intents | publish, recover at startup | scheduler metadata |
| Middleware client (`app/services/truenas_ws.py`) | one call limiter per appliance (slots, queue, backoff), pending and orphaned requests per connection | inventory reads, SMART batches, single calls | TrueNAS over a WebSocket |
| Bundle import (`system_backup.py`) | staged and parked files, the rollback entries in memory, the activation journal | import, rollback, recover | config files, segmented history, admin service |
| Segmented history (`segment_*.py`) | hot database, sealed segments, catalog, activation journal, rollback copies | migrate, rotate, recover, restore, read | history store and collector, operator scripts |
| History store and collector | SQLite history, collection loop | record, query, refresh | UI application |

What is hard here, and the property that would go wrong:

- several processes append to a journal that another one commits and compacts, with
  polling threads that cache what they have seen: a change may be forgotten, committed
  by a run that did not capture it, or lost in a torn write or a compaction;
- deletion of a copy happens outside the transaction that decided on it, while pins and
  verifications arrive without the job lock, from plans made minutes ago: a pinned or
  the last good copy may go;
- files and their directory entries become durable at different times than the database
  rows that name them: an archive may be published and forgotten, or catalogued and lost;
- two files in two directories have to change together under a journal that is itself a
  file: a migration, rotation or restore cut short, in its recovery too, may lose or
  duplicate history, mix two generations, or leave what recovery refuses for ever;
- calls to the appliance are cancelled at any await while the appliance goes on with them:
  a slot of the limiter may leak or be released twice, a queued call may never wake up, or
  go out in the middle of a backoff;
- caches with generations and single flight, settings reloaded under running requests (not
  modelled yet, see "Plan").

The full list, each at its line, is `hazards` in `PROJECT.json`.

## Modules

### ChangeJournal and ConfigBackup: config changes and their backups

`ChangeJournal` has no variables. It says what a reader sees in a journal file
(`Pending`, `LastBackup`, `Owed`) and which files a locked operation can leave
(`AppendOk`; `AppendFailures` when the write is cut short, inside a line, between the
records of a commit, or after a compaction has replaced the file; `Compacted` with the
merge of the oldest pending entries into an overflow entry).

`ConfigBackup` adds the processes. Writers save config and then journal the change. The
ticker, API readers (`poll`) and `start_run` workers (`run`, then one backup outside the
journal if that was idle or a noop) share one coalescer. `poll` is four steps (stat,
compare, read, apply) because only the last and the compare are under the
state lock; a run is acquire, read pending, snapshot, backup, commit, record success or
failure, release. A crash loses the coalescer; `Restart` builds a new one.

Abstractions. A line counts as one unit of the byte budget. The fingerprint of the file
(inode, size, mtime) is a number, `stamp`, that grows with every write, because an append
makes the file longer and a compaction replaces it; a stat in the middle of an append never
matches the finished file and counts as one before it. A damaged line remembers
the record whose prefix it is, because the id of a recovered entry is derived from the
bytes. An overflow entry's id has that number for the fresh uuid of the code. Ages stop at
`MaxDelay`. A journal that cannot be read at all, and
`record_change()` of the coalescer (only tests call it), are left out; the flock that
keeps a second scheduler away is taken as given.

### BackupLifecycle: catalog, retention, pins and verification

One job holder (`_job_lock`) adds local and remote copies and grooms, or applies a
previewed plan; API threads pin, unpin and verify without the lock. Every catalog method
is one transaction and one action. `Claim`, `DeleteObject` or `DeleteFails` (nothing
done, or done with the answer lost, or a location that cannot be opened), `Release` and
`RecordDeletion` are separate steps. `CatalogFails` is a catalog write that cannot be made:
a claim or a tombstone stops the run, and `release_deletion`, which `apply()` calls in its
except clauses without a guard, makes it raise. A failed release and a crash both leave the
claim on a copy that may still be stored; `cut` remembers these copies, which from then on
can neither be pinned nor groomed. Nothing in the code takes such a claim back.

Abstractions. One backup class: classes share only the job lock. Copies are numbered in
the order of (created_at, id). A `ship` phase may add several remote copies of the same
run, a superset of what happens. A recovered copy is numbered as the newest although its
created_at may be older; it is pinned and unverified, so no rule ranks it before an API call
changes that.

### Publication: archives between temporary file and catalog

`_publish` step by step (temporary file, intent in artifact-meta.json, link, directory
barrier, unlink, barrier), the catalog record, the end of the intent, and the recovery of
intents at startup. For every directory the model keeps what is visible and what a power
loss may leave. `Replaced` puts another file at the final name; archives that change in
the middle of a run are not modelled. Grooming is one step here (unlink and tombstone);
BackupLifecycle has it in detail.

### Directories: what a power loss leaves

Shared by the three history modules. The directory of the hot database and the one of the
segments are records with a field per name; `may` holds every pair of directories that a
power loss could leave now. Creating a file, completing and syncing it, a rename or unlink,
and the fsync of a directory are separate operators. The changes of one directory reach the
disk in order. With `Ordered` so do those of both together, as on ext4, XFS and ZFS, and an
fsync commits all earlier ones; without it an fsync covers its own directory only.

### SegmentRotation and HistoryContract: rotation of segmented history

`SegmentRotation` models `rotate_segmented_history` and `recover_pending_rotation` with
everything they call: rollback copies, the activation journal with its seven phases,
sealing and linking the segment, staging, the two replacements, and the retirement of
evidence. Each change of a directory and each fsync is a step, so that a failing call, a
kill or a power loss can come between any two. Recovery's checks (leftovers, rollback
copies, which generation the catalog shows, divergence of the hot database) are guards;
a recovery that refuses is an action that is not enabled.

Abstractions. A row is its place in the order of timestamps; a file's content is what its
size and digest identify; a cutoff is the last row it seals. The checks of backup
evidence, headroom and quiescence decide only whether a rotation starts. SQLite syncs the
directory when it commits. Random temporary names, of which one is in use at a time, are
one name; quarantine directories and the restore temporary are not kept. Files changed by
others are left out. When recovery names leftovers, the operator removes them.

`HistoryContract` is what readers are promised: rows are added while the history is open,
and while it is closed the oldest hot rows may become one new segment. Under the mapping
in `SegmentRotation`, the history is open when there is no journal, and the rotation takes
effect when the new catalog would survive a power loss.

### HistoryMigration and MigrationContract: from one database to segments and back

`migrate_segmented_history`, `rollback_segmented_history` and `recover_pending_migration`
(which startup calls too), with the rollback snapshot, the pending marker and its phases,
sealing, the replacement of the hot database, the catalog, and the cleanup of a rollback.
A JSON file is written under a temporary name, put in place, and its directory synced: four
steps. The service writes rows whenever there is no marker, and something else may write a
row behind one (`ForeignWrite`); recovery must refuse that database.

Abstractions. Rows are numbered as they are committed, and a cutoff is one of them; a
foreign row has a negative number of its own, so that two of them are never confused. The
staged and the restored hot database have random names nobody looks for, so only their
effect is kept. The preflight is its guards on files; headroom, ownership, modes and
quiescence decide only whether an operation starts. A dry run changes nothing.

`MigrationContract` promises that a migration changes no row and that a rollback returns,
all at once, to the rows of the time of the migration. A rollback takes effect when the
restored database would survive a power loss, which is why `_prepare_rollback_cleanup`
syncs it again: without that sync (the mutant) the contract is broken.

### BundleRestore: importing a backup with segmented history

`_ImportActivationTransaction` as `_import_parsed_bundle` drives it, and
`recover_segmented_restore`. The targets are numbered in the order of the entries: hot
database, segment tree, then groups of the configuration. An import stages the history,
writes the activation journal, parks and replaces the groups the bundle has, parks and
replaces hot database and tree, commits, retires the originals and removes the journal. On
an error it rolls back in reverse order, each target with its own failure path, and removes
the journal only after a complete rollback. A kill forgets the entries; what is left to
recovery is the history and its journal.

Abstractions. A hot database is a generation and a number of rows written since. Staged and
parked names are new in each import, so leftovers of an earlier one are never met again.
Groups live in directories of their own and are synced at each change, so only the history
has a `may`. Sidecar files of SQLite, ownership and modes are refused or copied and left
out. Recovery syncs the directory after each removal, the code only if there was something
to remove, which with `Ordered` leaves the same. A cleanup that fails stops at the failing
name, where the code goes on with the others; what is left has names nobody looks for.
`ForeignWrite` comes between imports or while the groups are replaced, so the digests
that an import compares after it has replaced the history and before it retires the
originals always agree. `Ordered` is `TRUE` because in the documented layout (`/app/history/history.db` and
`/app/history/segments`) both names are in one directory, and one fsync covers both.

### MiddlewareClient: calls to the appliance

Callers run operations as asyncio tasks: connect, log in, make calls (several at a time for
an inventory read, up to a width for a SMART batch), drain, settle an interrupted login,
close. Every login and call takes a slot of the shared `MiddlewareCallLimiter`. A step is
what a task runs between two awaits; cancelling a task and its running again are two steps,
so that a hand-over of a slot, a reply or another cancellation can come in between. A call
that was sent and given up becomes an orphan that keeps its slot until its answer or the
close of the connection. The appliance is external: a request and its answer arrive at any
time, or never.

Abstractions. Time is ticks of the cooldown; every other timer may fire whenever its task
is waiting. The jitter of the delay is any value from half of it up. A position of a batch
that its phase's deadline ends before it has started is left out: it never takes a slot. The configured limit may change at any time. The
failure counter stops at `MaxFailures`, where the delay is at its cap: that the real one
overflows after 1025 failures (hazard at `truenas_ws.py:151`) is below the abstraction.

## Runs

| Run | Shows | Bounds |
|---|---|---|
| `ConfigBackupSafety` | nothing journaled is dropped; an idle journal means the newest change is backed up; the last backup it names exists; only a run that captured a change settles it; no identical copies; timers run whenever entries are seen; only a run that read an empty journal makes poll miss an entry | a writer, the ticker, an API reader, a worker; 2 saves, 1 fault, 1 request, 2 lines, so that compaction merges pending entries |
| `ConfigBackupLiveness` | everything is settled in the end, unless that one step has forgotten an entry | the same threads; 1 save, 1 fault, 2 requests |
| `ConfigBackupLostWakeup` | violation, finding 1 | a writer, the ticker, a worker; 2 saves, 1 request, no fault |
| `BackupLifecycle` | pins exclude claims and deletions, tombstones are true, the newest verified copy stays, no claim is stranded on a stored copy unless a crash or a failed release cut its deletion short | 3 copies at 2 locations, 2 faults (failed deletion or catalog write, damaged object, crash), 1 verify thread |
| `BackupLifecycleNewest` | violation, finding 2 | 3 local copies, 1 fault |
| `Publication` | no archive is published and forgotten, a verified copy survives a power loss, foreign files are left alone, startup resolves every intent | 2 archives, 5 faults |
| `SegmentRotation` | readers see the whole history, recovery always finds a complete generation with its evidence, the contract is implemented | 4 rows, 2 rotations, 4 faults, ordered file system |
| `SegmentRotationEvidence` | violation, finding 3 | 2 rows, 1 rotation, 2 faults |
| `SegmentRotationSync` | violation, finding 4 | the same, unordered file system |
| `MiddlewareClient` | slots are conserved, nobody queues without a reason, what runs on the appliance is counted, no send during a backoff, admission in turn, no operation stuck, no session left behind | inventory reads or batches of 2 calls beside single calls, limits 1 and 2 |
| `HistoryMigration` | an open history is whole, recovery accepts every phase, unknown rows are never overwritten, the contract is implemented | 4 rows, 5 faults, unordered directories |
| `BundleRestore` | the store opens on one generation, recovery is never refused for ever, reported results are true and durable | 2 imports, 2 groups, 1 row, 3 faults |

Why these bounds: two saves give a change during a run of another; two lines force a
merge while one is pending; three copies at two locations give an old, a newest and a
remote one, and with `KeepCount = 1` each addition makes the one before it eligible; five
faults allow a failed publication and two failed recoveries; four faults cut a rotation
short, then its recovery, then the recovery from that, with a power loss to follow. Five
faults do the same for a migration with foreign rows besides, and three for an import, whose
recovery is shorter;
the migration's run includes a migration after a rollback and writes in between, and the
import's a second import over what the first left. In `MiddlewareClient`, limit 1 makes two
operations queue behind each other and behind an orphan, limit 2 lets them overlap, and the
change from one to the other happens under a queue.

Fairness is used only in `FairSpec` of ConfigBackup: the ticker thread and the worker
threads keep running (they block only on the two locks, whose holders are these threads),
the clock advances, and a sidecar that died is started again (`restart: unless-stopped` in
docker-compose.yml). Nothing is assumed of the services that save config or of API
readers. The history modules and Publication may stop when their faults and inputs are used
up, or where recovery refuses and waits for an operator, so deadlock is not checked there.
`MiddlewareClient` has 747,130 states, too many for a liveness check in reasonable time;
`NeverStuck` says instead that an operation that runs always has a step of its own (a timer
or the event loop) to take, whatever the appliance and the other operations do: one of the
conditions in `HasStep` holds, and where one holds the step it belongs to is enabled.

## Findings

1. **A change can be forgotten** (`ConfigBackupLostWakeup`). A run that read an empty
   journal clears the seen entries without looking again; an entry appended and polled in
   between is forgotten, and later polls skip the journal because its fingerprint is known.
   In the run a `start_run` worker does the clear. API reads alone are enough: with two of
   them, no worker and no fault, TLC finds it too. `OnlyIdleRunForgets` says that nothing
   else makes poll miss an entry, and `SettledOrForgotten` that nothing else keeps one
   pending for ever.
2. **The newest verified copy can be deleted** (`BackupLifecycleNewest`). A verification
   that fails for the newest copy, between the claim and the deletion of the one before it,
   makes that one the newest verified copy just as it goes.
3. **A failed fsync removes the evidence of a rotation** (`SegmentRotationEvidence`). When
   the first journal is in place and its directory fsync fails, the rollback copies are
   removed; recovery then refuses the journal, and the store stays closed until the journal
   is removed by hand.
4. **Recovery retires the prior hot database before the catalog is durable**
   (`SegmentRotationSync`). It syncs the directory of the journal, not the one of the
   catalog it decided by. On a file system that orders directory changes this does no harm,
   which is what the passing run shows; with three interruptions and no such order even
   `HistoryIntact` fails.

In `BundleRestore` the same kind of order matters as in finding 4: with `Ordered = FALSE`,
that is with hot database and segment tree in different parents, `NeverStranded` is violated.
An import killed between the replacement of the tree and its fsync is recovered forward, the
prior hot database is retired after a sync of its own parent only, and a power loss then
takes the tree back. The documented layout has one parent.

`RecoveryReady` of SegmentRotation leaves out the states of finding 3, `SettledOrForgotten`
those of finding 1, and `NewestVerifiedKept` holds until a verification changes a flag because of finding 2.

## Proofs

`ConfigBackupProofs` proves, for any number of writers, API readers and workers, any budget
of the journal and any number of changes, faults and requests, `TypeOK`,
`SettledIsCaptured`, `IdleMeansCurrent`, `LastBackupExists`, `NoIdenticalCopies`,
`SeenHasTimers`, `OwedLeavesByCommit` and `OnlyIdleRunForgets`, and `FingerprintVouches` for
a scheduler with the ticker alone. It has three layers.

The first is about files alone. Whatever an operation leaves, whole, torn or cut short
between the records of a commit, and compacted or not, is in one of three relations to the
file before: it says the same (`SameJournal`), it owes one mutation more (`ChangeLanded`),
or it owes less, by ids the commit was given, and names its backup (`CommitLanded`).
Compaction needs most care (`CompactedKeeps`): pending entries are kept or covered by the
overflow entry, a kept commit never commits a pending id, and the checkpoint at the end
says what the last backup was. A fragment of a change is still owed; a fragment of a
commit owes nothing and settles nothing.

The second is the inductive invariant `IndInv`. `TimersOK` and `ThreadsOK` are about the
coalescer and the places of the threads. `LocksOK` says that every thread in a run, also in
the poll after a success, holds the run lock, so no other run commits in between.
`JournalOK` strengthens `IdleMeansCurrent`: every mutation that is settled, whether or not
others are pending, is in the last backup. That is kept by a commit only because a
run's snapshot is at least as new as every settled mutation and as those of the ids it read
(`RunOK`); and that needs `LogOK`, by which a mutation is new to the journal when its record
is written. `NoIdenticalCopies` needs `CopiesOK`: without a fault the last backup of a run
is the one the journal names, or is about to be.

The third is about what `poll` may skip. `FingerprintVouches` says that when the coalescer's
fingerprint is that of the file, every pending entry has been seen. A run that read an empty
journal breaks it (finding 1), so it is not an invariant; `OnlyIdleForgets` proves that no
other step does. The invariant behind it, `VouchOK`, dates what the file and the threads
hold: every overflow id there is was issued before the present fingerprint (`Dated`), so one
made by a later compaction is new; a poll that read the file under the present fingerprint
holds all that is pending, and the ids a run has committed are not pending again before
`_record_success` takes them from the seen entries (`LocalOK`). `AloneVouches` proves
`FingerprintVouches` itself when the ticker is the only thread: what it has seen or read as
pending is still pending when it looks again, so its runs never find an empty journal
(`AloneOK`). An API reader breaks that, because its late answer may bring back ids that a
commit in between has settled.

The proofs use `JournalAssumption` and `ConfigBackupAssumption` only.

`BackupLifecycleProofs` proves, for any copies, locations, limits, threads and
faults, crashes among them, `TypeOK`, `ClaimExcludesPin`, `TombstoneMeansGone`, `StrandedClaimIsGone`,
`PinnedNeverDeleted` and `NewestVerifiedKept`. The inductive invariant `IndInv` joins the
first four with `RecordedIsGone` (a job about to write a tombstone has removed the object);
without it `TombstoneMeansGone` is not inductive. `PinnedNeverDeleted` follows because an
object only disappears in a deletion step, and the copy of such a step is claimed.
`NewestVerifiedKept` is inductive on top of `IndInv`: adding a copy changes which is the
newest only to one that is stored and unclaimed, and a claim needs a newer verified copy.
`StrandedClaimIsGone` says that a claim without a job belongs to a removed object or to a copy
in `cut`: every other way out of a deletion releases the claim or has removed the object.
The proofs use `LifecycleAssumption` only.

`PublicationProofs` proves `TypeOK`, `PublishedIsOwned`, `VerifiedSurvives`,
`ForeignUntouched` and `StartupResolves` for any set of archives and any number of faults.
`IndInv` adds that unused names are unused, that the archive of a run is not catalogued,
that from the link on the intent is in memory and in every metadata file a power loss may
leave, and that names which were synced have one possible content. `StartupResolves` needs
`StartupProgress`: in a startup without a fault, an intent is either still to be looked at
or of a foreign file. The proofs use `PublicationAssumption` only.

`MiddlewareClientProofs` proves `TypeOK`, `SlotsConserved`, `QueuedForAReason`,
`RunningHoldsSlot`, `NothingSentWhileCooling`, `AdmissionInTurn` and `NoSessionLeftBehind`
for any finite set of operations, kinds, limits, delays and numbers of calls. The inductive
invariant adds to the types that the limiter counts what holds a slot, that the queue holds
the requests that wait, each once, and that there is a queue only while every slot is taken
(`LimiterInv`), and for each request what its state says about the operation, the appliance
and the connection (`RequestOK`). The step that needs most care is the hand-over of slots: `Admit` grants the
first live requests of the queue up to the limit, so its lemmas count a prefix of the queue
(`FiniteSetTheorems`). `AlwaysAStep` proves `HasStep`, the part of `NeverStuck` that is about
states; it needs that calls in flight of an operation that drains are cancelled (`Drained`)
and that an operation may have at least one call out (`Wide`). The proofs use
`ClientAssumption` only.

`HistoryMigrationProofs` proves `TypeOK`, `OpenIsWhole`, `RecoveryReady` and
`DivergentPreserved` for any number of rows and faults, with and without `Ordered`. The
invariant covers both kinds of file system by a product: every hot directory that may be
left goes with every segments directory that may be left (`PairsOK`). That would fail if
both could be undecided at once, so it needs `HotsOK` (another hot directory may be left only
between a replacement of the live database and its sync, and the marker knows both),
`FamilyOK` (with a migration pending, a power loss leaves that migration or the v1 history)
and what the process knows at each of its places (`PcOK`).

`MigrationRefinementProofs` proves that HistoryMigration implements MigrationContract. The
rows of the mapping are a function of everything a power loss may leave; the proof shows
that every pair that may be left stands for the same rows (`Agreed`), but for a rollback
that has replaced the live database and not synced it (`Undecided`), and then goes through
the actions: each keeps what the pairs stand for, adds the rows of a write, or is the
rollback's step.

`SegmentRotationProofs` proves `TypeOK`, `HistoryIntact`, `RecoveryReady` and the refinement
of HistoryContract for any number of rows, rotations and faults, under the hypothesis
`Ordered`, without which the properties fail (finding 4). With it, what a power loss may
leave is the pairs of directories there have been since the last sync, so the invariant
speaks of each pair alone: without a journal it is a whole history, with one it is one of
the two generations of the journal with its evidence (`Good`). What the process knows at its
places (`Ready`, `Retiring`) makes that inductive. For the refinement all pairs stand for the
same generation (`Agreed`), but for those between the replacement of the catalog and the
sync after it (`Undecided`), when the mapping still shows the old one.

`BundleRestoreProofs` proves `TypeOK`, `NeverStranded` and `AllOrNothing` for any number of
groups, imports, rows and faults, again under `Ordered` (why, is said after the findings).
`Good` of a pair says: without a journal one generation; with one, its originals are of one
generation, every name holds what the journal knows there, and both candidates are live, or
both originals are at hand, or the hot database was changed by something else. The rest
follows the process through the parts of the program: while it stages nothing has changed;
from the journal on the journal is its own (`Matching`) and each target is as recorded,
parked or new; a changed group has its original parked (`GroupsOK`); a rollback at target k
has undone those above it, except failed ones, and finds the originals of those below
(`UndoingOK`); after it everything is as recorded, and durably so before it is reported
(`UndoneOK`). `AllOrNothing` is then read off at the two steps that report.

The proofs of the history modules use `DirectoriesAssumption`, the bounds of their module
(`MigrationAssumption`, `RotationAssumption`, `RestoreAssumption`) and its
`ContentsAssumption`, which says that the model values for "no file" and "partly written"
are not contents.

Only model-checked: `SettledOrForgotten` and the refutation of `EventuallySettled` (liveness
under fairness), and in `NeverStuck` that the conditions of `HasStep` enable the steps they
belong to (ENABLED), both out of reach of this prover.

## Not modelled

Parsers of vendor output, profiles, SAS fabric correlation, views, templates and browser
code transform data without state. Transports, SSH and BMC sessions are I/O; how a remote
location fails is part of BackupLifecycle. The formats and encryption of bundles are data.
Files that a kill leaves under random names (temporary archives, `.rotation-retired-`
directories, staged databases) cost space and are not counted. These parts, above all
`inventory.py`, `parsers.py`, `sas_fabric.py`, the exports and validations of
`system_backup.py`, the queries of `store.py` and the routes, are most of the program's
lines; the models cover the part in which state, order and failure matter.
The reasons for each component are in `PROJECT.json`.

## Plan

In this order; each is a module with its run, and a proof where the prover reaches.

1. `InventoryCache`: single flight, generations and invalidation of snapshots;
   `SettingsReload`: service generations and the writer fence.
2. `FullBackups`: the scheduler's cron, the shared status file and verified-full receipt,
   and the history snapshots that full backups replace; the standalone runner's retention.
   The next run of `cron.py` as an algorithm against a reference definition.
3. `MappingStore`: revisions under the cross-process lock. `Maintenance`: quiescing
   containers, restores and receipts of the admin service. `ssh_probe.py` sessions and
   `operation_bounds.py`.
