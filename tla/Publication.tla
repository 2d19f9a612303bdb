---------------------------- MODULE Publication -----------------------------
(***************************************************************************)
(* How a local backup archive is published so that a failure at any point  *)
(* leaves it owned: ScheduledBackupRunner._publish                         *)
(* (history_service/scheduled_backup.py) with the ownership intents that   *)
(* BackupScheduler keeps in artifact-meta.json and resolves at startup     *)
(* (history_service/backup_scheduler/service.py).                          *)
(*                                                                         *)
(* Each archive has a temporary and a final name in the archive directory. *)
(* A change of a directory is durable only after fsync of that directory:  *)
(* tmpMay, targetMay and diskMay hold what a power loss may leave, and a   *)
(* process that is killed leaves what is visible.  SQLite transactions     *)
(* (synchronous=FULL) are durable when they return.                        *)
(***************************************************************************)
EXTENDS Integers, FiniteSets

CONSTANTS
    Artifacts,    \* the artifact ids that runs draw
    MaxFaults,    \* bound: failing calls, kills, power losses and replaced files
    None

ASSUME PublicationAssumption == None \notin Artifacts /\ MaxFaults \in Nat

VARIABLES
    tmp, target,         \* per artifact: the file at the temporary and the final name
    tmpMay, targetMay,   \* per artifact: what a power loss may leave there
    disk, diskMay,       \* artifact-meta.json: per artifact, an intent or none
    meta,                \* _meta, the same in memory
    catalog,             \* per artifact: the local record
    fresh,               \* the ids no run has drawn
    pc, cur,             \* the place of the job thread and its artifact
    todo,                \* the intents startup has not looked at
    faults, since        \* the faults so far, and those before the last startup

archive == <<tmp, target, tmpMay, targetMay>>
metadata == <<disk, diskMay, meta>>
vars == <<archive, metadata, catalog, fresh, pc, cur, todo, faults, since>>

Files == {"absent", "ours", "foreign"}
NoIntents == [a \in Artifacts |-> "none"]

Init ==
    /\ tmp = [a \in Artifacts |-> "absent"] /\ target = tmp
    /\ tmpMay = [a \in Artifacts |-> {"absent"}] /\ targetMay = tmpMay
    /\ disk = NoIntents /\ diskMay = {NoIntents} /\ meta = NoIntents
    /\ catalog = [a \in Artifacts |-> "none"]
    /\ fresh = Artifacts /\ pc = "idle" /\ cur = None /\ todo = {}
    /\ faults = 0 /\ since = 0

Fault == faults < MaxFaults /\ faults' = faults + 1

(***************************************************************************)
(* The file system.                                                        *)
(***************************************************************************)

SetTmp(a, file) ==
    /\ tmp' = [tmp EXCEPT ![a] = file]
    /\ tmpMay' = [tmpMay EXCEPT ![a] = @ \union {file}]

SetTarget(a, file) ==
    /\ target' = [target EXCEPT ![a] = file]
    /\ targetMay' = [targetMay EXCEPT ![a] = @ \union {file}]

\* Mutant: the directory is not synced.
SyncDirSkipped == UNCHANGED <<tmpMay, targetMay>>

\* fsync of the archive directory
SyncDir ==
    /\ tmpMay' = [a \in Artifacts |-> {tmp[a]}]
    /\ targetMay' = [a \in Artifacts |-> {target[a]}]

\* Mutant: the directory entry of the metadata file is not synced.
SaveMetaUnsynced(payload) == meta' = payload /\ disk' = payload /\ diskMay' = diskMay \union {payload}

\* _save_meta: write aside, replace, sync the directory.
SaveMeta(payload) == meta' = payload /\ disk' = payload /\ diskMay' = {payload}

\* _save_meta raises: nothing was replaced, or the new file is in place unsynced.
\* What _meta holds then is up to the caller.
SaveMetaRaises(payload) ==
    /\ Fault
    /\ \/ UNCHANGED <<disk, diskMay>>
       \/ disk' = payload /\ diskMay' = diskMay \union {payload}

(***************************************************************************)
(* One backup run: _run_class, run_once, _publish.                         *)
(***************************************************************************)

StartRun(a) ==
    /\ pc = "idle" /\ a \in fresh
    /\ fresh' = fresh \ {a} /\ cur' = a /\ pc' = "write"
    /\ UNCHANGED <<archive, metadata, catalog, todo, faults, since>>

\* The temporary file is written, synced and preflighted.
WriteTemporary ==
    /\ pc = "write"
    /\ SetTmp(cur, "ours")
    /\ pc' = "intent"
    /\ UNCHANGED <<target, targetMay, metadata, catalog, fresh, cur, todo, faults, since>>

\* _remember_publication, before the final name exists.  A failed save keeps the
\* intent in memory if the new file is, or for all one can tell may be, in place.
SaveIntent ==
    /\ pc = "intent"
    /\ LET payload == [meta EXCEPT ![cur] = "intent"]
       IN  \/ SaveMeta(payload) /\ pc' = "link" /\ UNCHANGED faults
           \/ /\ SaveMetaRaises(payload) /\ pc' = "abort"
              /\ meta' = payload \/ (meta' = meta /\ disk' = disk)
    /\ UNCHANGED <<archive, catalog, fresh, cur, todo, since>>

\* os.link
Link ==
    /\ pc = "link"
    /\ SetTarget(cur, "ours")
    /\ pc' = "sync"
    /\ UNCHANGED <<tmp, tmpMay, metadata, catalog, fresh, cur, todo, faults, since>>

\* Writing, the preflight or the link fails.
FailsBeforeLink ==
    /\ pc \in {"intent", "link"} /\ Fault
    /\ pc' = "abort"
    /\ UNCHANGED <<archive, metadata, catalog, fresh, cur, todo, since>>

\* The finally clause removes the temporary file.
Abort ==
    /\ pc = "abort"
    /\ SetTmp(cur, "absent")
    /\ pc' = "idle" /\ cur' = None
    /\ UNCHANGED <<target, targetMay, metadata, catalog, fresh, todo, faults, since>>

\* The first directory barrier.
SyncTarget ==
    /\ pc = "sync"
    /\ SyncDir
    /\ pc' = "unlink"
    /\ UNCHANGED <<tmp, target, metadata, catalog, fresh, cur, todo, faults, since>>

UnlinkTemporary ==
    /\ pc = "unlink"
    /\ SetTmp(cur, "absent")
    /\ pc' = "resync"
    /\ UNCHANGED <<target, targetMay, metadata, catalog, fresh, cur, todo, faults, since>>

\* The second directory barrier.
SyncUnlinked ==
    /\ pc = "resync"
    /\ SyncDir
    /\ pc' = "add"
    /\ UNCHANGED <<tmp, target, metadata, catalog, fresh, cur, todo, faults, since>>

\* After the link an error leaves both names and the intent to the next startup;
\* so does a status file or a catalog that cannot be written.
FailsAfterLink ==
    /\ pc \in {"sync", "unlink", "resync", "add"} /\ Fault
    /\ pc' = "idle" /\ cur' = None
    /\ UNCHANGED <<archive, metadata, catalog, fresh, todo, since>>

\* catalog.add of the verified copy
AddRecord ==
    /\ pc = "add"
    /\ catalog' = [catalog EXCEPT ![cur] = "verified"]
    /\ pc' = "clear"
    /\ UNCHANGED <<archive, metadata, fresh, cur, todo, faults, since>>

\* The artifact's metadata takes the place of the intent, in memory first.
ClearIntent ==
    /\ pc = "clear"
    /\ LET payload == [meta EXCEPT ![cur] = "none"]
       IN  \/ SaveMeta(payload) /\ UNCHANGED faults
           \/ SaveMetaRaises(payload) /\ meta' = payload
    /\ pc' = "idle" /\ cur' = None
    /\ UNCHANGED <<archive, catalog, fresh, todo, since>>

(***************************************************************************)
(* Other users of the metadata and the archive.                            *)
(***************************************************************************)

Serving == pc \in {"idle", "write", "intent", "link", "abort", "sync", "unlink", "resync", "add", "clear"}
Catalogued(a) == catalog[a] \in {"verified", "recovered"}

\* verify() on an API thread and _catalog_remote save all of _meta.
OtherSave ==
    /\ Serving /\ \E a \in Artifacts : Catalogued(a)
    /\ diskMay # {meta}
    /\ \/ SaveMeta(meta) /\ UNCHANGED faults
       \/ SaveMetaRaises(meta) /\ UNCHANGED meta
    /\ UNCHANGED <<archive, catalog, fresh, pc, cur, todo, since>>

\* Grooming unlinks an archive, without a barrier, and leaves a tombstone; a
\* recovered one only after an operator's unpin.
Groom(a) ==
    /\ pc = "idle" /\ Catalogued(a)
    /\ SetTarget(a, "absent")
    /\ catalog' = [catalog EXCEPT ![a] = "tombstone"]
    /\ UNCHANGED <<tmp, tmpMay, metadata, fresh, pc, cur, todo, faults, since>>

(***************************************************************************)
(* Startup: _load_meta and _recover_publications.                          *)
(***************************************************************************)

Restart ==
    /\ pc = "down" /\ pc' = "starting"
    /\ meta' = disk /\ todo' = {a \in Artifacts : disk[a] = "intent"}
    /\ since' = faults
    /\ UNCHANGED <<archive, disk, diskMay, catalog, fresh, cur, faults>>

Leave(a) == pc' = "starting" /\ cur' = None /\ todo' = todo \ {a}

\* Mutant: any file at the final name is taken for the published one.
PublicationStateByName(a) ==
    IF tmp[a] = "ours" THEN "linked" ELSE IF target[a] # "absent" THEN "match" ELSE "missing"

\* Mutant: the intent does not know the temporary name, so two links look foreign.
PublicationStateNoTemporary(a) ==
    IF target[a] = "foreign" \/ tmp[a] = "ours" THEN "mismatch" ELSE IF target[a] = "ours" THEN "match" ELSE "missing"

\* _publication_state: by the recorded file identity; "linked" has a temporary
\* name, alone or beside the final one, that is to be removed first.
PublicationState(a) ==
    CASE target[a] = "foreign" -> "mismatch"
      [] target[a] # "foreign" /\ tmp[a] = "ours" -> "linked"
      [] target[a] = "ours" /\ tmp[a] = "absent" -> "match"
      [] target[a] = "absent" /\ tmp[a] = "absent" -> "missing"

\* A record or a tombstone wins over what the directory holds.
Inspect(a) ==
    /\ pc = "starting" /\ a \in todo
    /\ \/ /\ catalog[a] # "none" \/ PublicationState(a) = "missing"
          /\ pc' = "forget" /\ cur' = a /\ UNCHANGED <<archive, todo>>
       \/ /\ catalog[a] = "none" /\ PublicationState(a) = "mismatch"
          /\ Leave(a) /\ UNCHANGED archive
       \/ /\ catalog[a] = "none" /\ PublicationState(a) = "match"
          /\ pc' = "adopt" /\ cur' = a /\ UNCHANGED <<archive, todo>>
       \/ /\ catalog[a] = "none" /\ PublicationState(a) = "linked"
          /\ SetTmp(a, "absent") /\ UNCHANGED <<target, targetMay>>
          /\ pc' = "barrier" /\ cur' = a /\ UNCHANGED todo
    /\ UNCHANGED <<metadata, catalog, fresh, faults, since>>

\* The barrier after that removal.
RecoveryBarrier ==
    /\ pc = "barrier"
    /\ SyncDir
    /\ pc' = IF target[cur] = "ours" THEN "adopt" ELSE "forget"
    /\ UNCHANGED <<tmp, target, metadata, catalog, fresh, cur, todo, faults, since>>

\* catalog.add of the pinned and unverified copy
Adopt ==
    /\ pc = "adopt"
    /\ catalog' = [catalog EXCEPT ![cur] = "recovered"]
    /\ pc' = "forget"
    /\ UNCHANGED <<archive, metadata, fresh, cur, todo, faults, since>>

\* The intent is popped and saved; it is put back when that fails.
Forget ==
    /\ pc = "forget"
    /\ LET payload == [meta EXCEPT ![cur] = "none"]
       IN  \/ SaveMeta(payload) /\ UNCHANGED faults
           \/ SaveMetaRaises(payload) /\ meta' = meta
    /\ Leave(cur)
    /\ UNCHANGED <<archive, catalog, fresh, since>>

\* Inspecting, removing or cataloguing fails: the intent stays for another startup.
RecoveryFails ==
    /\ pc \in {"barrier", "adopt"} /\ Fault
    /\ Leave(cur)
    /\ UNCHANGED <<archive, metadata, catalog, fresh, since>>

\* Mutant: the scheduler serves before every intent was looked at.
StartupDoneEarly ==
    /\ pc = "starting"
    /\ pc' = "idle"
    /\ UNCHANGED <<archive, metadata, catalog, fresh, cur, todo, faults, since>>

StartupDone ==
    /\ pc = "starting" /\ todo = {}
    /\ pc' = "idle"
    /\ UNCHANGED <<archive, metadata, catalog, fresh, cur, todo, faults, since>>

(***************************************************************************)
(* The environment.                                                        *)
(***************************************************************************)

GoDown == pc' = "down" /\ cur' = None /\ todo' = {} /\ meta' = NoIntents

Kill ==
    /\ pc # "down" /\ Fault
    /\ GoDown
    /\ UNCHANGED <<archive, disk, diskMay, catalog, fresh, since>>

\* What was not synced may be lost, name by name.
PowerLoss ==
    /\ Fault /\ GoDown
    /\ tmp' \in {f \in [Artifacts -> Files] : \A a \in Artifacts : f[a] \in tmpMay[a]}
    /\ target' \in {f \in [Artifacts -> Files] : \A a \in Artifacts : f[a] \in targetMay[a]}
    /\ disk' \in diskMay
    /\ tmpMay' = [a \in Artifacts |-> {tmp'[a]}]
    /\ targetMay' = [a \in Artifacts |-> {target'[a]}]
    /\ diskMay' = {disk'}
    /\ UNCHANGED <<catalog, fresh, since>>

\* While the service is down, another file comes to be at the final name of an
\* interrupted publication.
Replaced(a) ==
    /\ pc = "down" /\ disk[a] = "intent" /\ catalog[a] = "none" /\ target[a] # "foreign"
    /\ Fault
    /\ SetTarget(a, "foreign")
    /\ UNCHANGED <<tmp, tmpMay, metadata, catalog, fresh, pc, cur, todo, since>>

Run ==
    \/ \E a \in Artifacts : StartRun(a)
    \/ WriteTemporary \/ SaveIntent \/ Link \/ FailsBeforeLink \/ Abort \/ SyncTarget
    \/ UnlinkTemporary \/ SyncUnlinked \/ FailsAfterLink \/ AddRecord \/ ClearIntent

Recovery ==
    \/ Restart \/ RecoveryBarrier \/ Adopt \/ Forget \/ RecoveryFails \/ StartupDone
    \/ \E a \in Artifacts : Inspect(a)

Next ==
    \/ Run \/ Recovery \/ OtherSave \/ Kill \/ PowerLoss
    \/ \E a \in Artifacts : Groom(a) \/ Replaced(a)

Spec == Init /\ [][Next]_vars

(***************************************************************************)
(* Properties.                                                             *)
(***************************************************************************)

Places == {"idle", "write", "intent", "link", "abort", "sync", "unlink", "resync", "add", "clear",
           "down", "starting", "barrier", "adopt", "forget"}
Metadata == [Artifacts -> {"none", "intent"}]

\* Type invariant: what is visible is also what a power loss may leave, a thread at
\* work has an artifact, and intents are left to look at only during startup.
TypeOK ==
    /\ tmp \in [Artifacts -> Files \ {"foreign"}] /\ target \in [Artifacts -> Files]
    /\ tmpMay \in [Artifacts -> SUBSET (Files \ {"foreign"})] /\ targetMay \in [Artifacts -> SUBSET Files]
    /\ \A a \in Artifacts : tmp[a] \in tmpMay[a] /\ target[a] \in targetMay[a]
    /\ disk \in Metadata /\ meta \in Metadata /\ diskMay \in SUBSET Metadata /\ disk \in diskMay
    /\ catalog \in [Artifacts -> {"none", "verified", "recovered", "tombstone"}]
    /\ fresh \in SUBSET Artifacts /\ todo \in SUBSET Artifacts
    /\ pc \in Places
    /\ cur \in IF pc \in {"idle", "down", "starting"} THEN {None} ELSE Artifacts
    /\ todo # {} => pc \in {"starting", "barrier", "adopt", "forget"}
    /\ faults \in Nat /\ since \in Nat

\* "Scheduler ownership must be durable before the final name exists": an archive
\* that is, or after a power loss could be, at its final name is in the catalog
\* (or was, and is deleted), or every metadata file a power loss could leave
\* holds its intent.  No archive is ever published and then forgotten.
PublishedIsOwned ==
    \A a \in Artifacts :
        "ours" \in targetMay[a] => catalog[a] # "none" \/ \A m \in diskMay : m[a] = "intent"

\* A copy its run recorded as verified is at its final name whatever power loss
\* follows: its record is never written before both directory barriers.
VerifiedSurvives == \A a \in Artifacts : catalog[a] = "verified" => targetMay[a] = {"ours"}

\* A copy is catalogued at startup only if the file at its name is the one its
\* run published, and no step but a power loss removes another file from there.
ForeignUntouched ==
    [][\A a \in Artifacts :
          target[a] = "foreign" => catalog'[a] = catalog[a] /\ (target'[a] = "foreign" \/ pc' = "down")]_vars

\* A startup in which nothing fails leaves no intent in memory but those whose
\* final name holds a foreign file: each interrupted publication, wherever it
\* was cut short, ends as a recovered copy or as nothing.
StartupResolves ==
    [][pc = "starting" /\ pc' = "idle" /\ faults = since =>
          \A a \in Artifacts : meta[a] = "intent" => target[a] = "foreign"]_vars
=============================================================================
