-------------------------- MODULE BackupLifecycle ---------------------------
(***************************************************************************)
(* The artifact catalog and the grooming that acts on it                   *)
(* (history_service/backup_archive/catalog.py and lifecycle.py), with the  *)
(* users of both in history_service/backup_scheduler/service.py:           *)
(*                                                                         *)
(*   the job holder (one at a time, _job_lock): a backup run that adds     *)
(*   copies and grooms after them, or an apply() of a previewed plan;      *)
(*   API threads, which hold no job lock: preserve, unpreserve and verify. *)
(*                                                                         *)
(* Every catalog method is one SQLite transaction and one step.  Removing  *)
(* the stored object happens outside of it, between claim_deletion and     *)
(* record_deletion, and is the step the others race with.                  *)
(*                                                                         *)
(* One backup class is modelled; classes only share the job lock.  A copy  *)
(* is a number, and copies are numbered in the order (created_at, id).     *)
(***************************************************************************)
EXTENDS Integers, FiniteSets

CONSTANTS
    Copies,          \* the copies that can come to exist
    Locations, LocOf,\* where each copy is stored
    Local,           \* LOCAL_LOCATION
    KeepCount,       \* keep_count of every rule
    MaxAge, Grace,   \* max_age and unverified_grace, in clock units
    Verifiers,       \* API threads running verify()
    MaxFaults,       \* bound: failed deletions and catalog writes, damaged objects, crashes
    None

ASSUME LifecycleAssumption ==
    /\ Copies \subseteq Nat /\ None \notin Copies
    /\ Local \in Locations /\ LocOf \in [Copies -> Locations]
    /\ KeepCount \in Nat /\ MaxAge \in Nat /\ Grace \in Nat /\ MaxFaults \in Nat

VARIABLES
    status,      \* per copy: no record, a live record, a tombstone
    verified, preserved, claimed,   \* the flags of a live record
    object,      \* per copy: what its location holds
    age,         \* per live copy: clock units since created_at, as far as rules look
    job,         \* the place of the job holder
    items,       \* the planned items it has not handled
    planned,     \* the items whose record was verified in the plan
    cur,         \* the item it is deleting
    opened, unavailable,   \* targets and failed_locations
    preview,     \* the stored admin plan (token in _plans), or None
    vpc, vcopy, vfound,   \* per verify thread
    faults, flips,
    cut          \* the copies whose claim a crash or a failed release left behind

flags == <<verified, preserved, claimed>>
catalog == <<status, flags>>
grooming == <<items, planned, cur, opened, unavailable>>
verify == <<vpc, vcopy, vfound>>
vars == <<catalog, object, age, job, grooming, preview, verify, faults, cut, flips>>

AgeCap == (IF MaxAge > Grace THEN MaxAge ELSE Grace) + 1

Init ==
    /\ status = [c \in Copies |-> "none"]
    /\ verified = [c \in Copies |-> FALSE]
    /\ preserved = [c \in Copies |-> FALSE]
    /\ claimed = [c \in Copies |-> FALSE]
    /\ object = [c \in Copies |-> "absent"]
    /\ age = [c \in Copies |-> 0]
    /\ job = "idle" /\ items = {} /\ planned = {}
    /\ cur = None /\ opened = {} /\ unavailable = {}
    /\ preview = None
    /\ vpc = [t \in Verifiers |-> "idle"]
    /\ vcopy = [t \in Verifiers |-> None]
    /\ vfound = [t \in Verifiers |-> "absent"]
    /\ faults = 0 /\ flips = 0 /\ cut = {}

Fault == faults < MaxFaults /\ faults' = faults + 1

Live(c) == status[c] = "live"

\* The API answers once the scheduler has been constructed.
Serving == job # "starting"

At(l) == {c \in Copies : Live(c) /\ LocOf[c] = l}
Newer(c, S) == {d \in S : d > c}

\* Mutant: the location is left out of the query.
NewestVerifiedAnywhere(c) == Live(c) /\ verified[c] /\ ~\E d \in Newer(c, Copies) : Live(d) /\ verified[d]

\* _newest_verified_id: claimed or objectless records count too.
NewestVerified(c) == Live(c) /\ verified[c] /\ ~\E d \in Newer(c, At(LocOf[c])) : verified[d]

(***************************************************************************)
(* Planning.                                                               *)
(***************************************************************************)

\* The rank of an unpinned verified copy, newest first, and the age limit.
BeyondRetention(c) ==
    LET newer == {d \in Newer(c, At(LocOf[c])) : verified[d] /\ ~preserved[d]}
    IN  Cardinality(newer) >= KeepCount \/ age[c] > MaxAge

\* _plan_group: what a limit hits, except pinned, claimed and guarded copies.
PlanItems ==
    {c \in Copies :
        /\ Live(c) /\ ~preserved[c] /\ ~claimed[c]
        /\ IF verified[c] THEN BeyondRetention(c) /\ ~NewestVerified(c) ELSE age[c] > Grace}

\* plan(): a preview, kept under a token.
Preview ==
    /\ Serving
    /\ preview' = [items |-> PlanItems, planned |-> {c \in PlanItems : verified[c]}]
    /\ UNCHANGED <<catalog, object, age, job, grooming, verify, faults, cut, flips>>

\* The token expires or is evicted by newer ones.
PreviewExpires ==
    /\ preview # None /\ preview' = None
    /\ UNCHANGED <<catalog, object, age, job, grooming, verify, faults, cut, flips>>

(***************************************************************************)
(* The job holder.                                                         *)
(***************************************************************************)

StartBackup ==
    /\ job = "idle" /\ job' = "backup"
    /\ UNCHANGED <<catalog, object, age, grooming, preview, verify, faults, cut, flips>>

\* catalog.add: ids are never used twice and copies get newer.
Add(c, isVerified, isPreserved) ==
    /\ status[c] = "none"
    /\ \A d \in Copies : d < c => status[d] # "none"
    /\ status' = [status EXCEPT ![c] = "live"]
    /\ verified' = [verified EXCEPT ![c] = isVerified]
    /\ preserved' = [preserved EXCEPT ![c] = isPreserved]
    /\ object' = [object EXCEPT ![c] = "good"]
    /\ UNCHANGED claimed

\* _run_class: the published and checked local copy.
AddLocal(c) ==
    /\ job = "backup" /\ LocOf[c] = Local
    /\ Add(c, TRUE, FALSE)
    /\ job' = "ship"
    /\ UNCHANGED <<age, grooming, preview, verify, faults, cut, flips>>

\* The run fails before it has catalogued anything.
BackupFails ==
    /\ job = "backup" /\ job' = "idle"
    /\ UNCHANGED <<catalog, object, age, grooming, preview, verify, faults, cut, flips>>

\* _ship: a verified remote copy, or one of uncertain durability, pinned.
AddRemote(c) ==
    /\ job = "ship" /\ LocOf[c] # Local
    /\ Add(c, TRUE, FALSE) \/ \E v \in BOOLEAN : Add(c, v, TRUE)
    /\ UNCHANGED <<age, job, grooming, preview, verify, faults, cut, flips>>

\* _recover_publications at startup: pinned and unverified.
RecoverCopy(c) ==
    /\ job = "starting" /\ LocOf[c] = Local
    /\ Add(c, FALSE, TRUE)
    /\ UNCHANGED <<age, job, grooming, preview, verify, faults, cut, flips>>

StartupDone ==
    /\ job = "starting" /\ job' = "idle"
    /\ UNCHANGED <<catalog, object, age, grooming, preview, verify, faults, cut, flips>>

\* _groom_locked: plan at the end of the backup and go on to apply it.
GroomAfterBackup ==
    /\ job = "ship"
    /\ items' = PlanItems /\ planned' = {c \in PlanItems : verified[c]}
    /\ job' = IF items' = {} THEN "idle" ELSE "next"
    /\ cur' = None /\ opened' = {} /\ unavailable' = {}
    /\ UNCHANGED <<catalog, object, age, preview, verify, faults, cut, flips>>

\* apply(): a token works once, and only while no other job runs.
ApplyPreview ==
    /\ job = "idle" /\ preview # None
    /\ items' = preview.items /\ planned' = preview.planned
    /\ job' = "next" /\ cur' = None /\ opened' = {} /\ unavailable' = {}
    /\ preview' = None
    /\ UNCHANGED <<catalog, object, age, verify, faults, cut, flips>>

Oldest(c) == c \in items /\ \A d \in items : c <= d
EndJob(place) == job' = place /\ items' = {} /\ planned' = {} /\ cur' = None /\ opened' = {} /\ unavailable' = {}

\* apply() is done, or drops what is left.
GroomEnds ==
    /\ job = "next" /\ items = {}
    /\ EndJob("idle")
    /\ UNCHANGED <<catalog, object, age, preview, verify, faults, cut, flips>>

\* The item's location is known, or while it is opened found, to be unreachable.
SkipItem(c) ==
    /\ job = "next" /\ Oldest(c)
    /\ LocOf[c] \in unavailable \/ LocOf[c] \notin opened \union {Local}
    /\ unavailable' = unavailable \union {LocOf[c]}
    /\ items' = items \ {c}
    /\ UNCHANGED <<catalog, object, age, job, planned, cur, opened, preview, verify, faults, cut, flips>>

\* Mutant: the plan is trusted.
MayClaimPlanned(c) == Live(c) /\ ~claimed[c] /\ ~NewestVerified(c)

\* claim_deletion: the record must be as planned (plans hold no pinned copies).
MayClaim(c) ==
    /\ Live(c) /\ ~claimed[c] /\ verified[c] = (c \in planned)
    /\ ~preserved[c] /\ ~NewestVerified(c)

Claim(c) ==
    /\ job = "next" /\ Oldest(c) /\ LocOf[c] \notin unavailable
    /\ MayClaim(c)
    /\ claimed' = [claimed EXCEPT ![c] = TRUE]
    /\ items' = items \ {c} /\ cur' = c /\ opened' = opened \union {LocOf[c]}
    /\ job' = "delete"
    /\ UNCHANGED <<status, verified, preserved, object, age, planned, unavailable, preview, verify, faults, cut, flips>>

\* A refused claim stops the whole run.
ClaimRefused(c) ==
    /\ job = "next" /\ Oldest(c) /\ LocOf[c] \notin unavailable
    /\ ~MayClaim(c)
    /\ EndJob("idle")
    /\ UNCHANGED <<catalog, object, age, preview, verify, faults, cut, flips>>

\* target.delete; an object already gone counts as deleted.
DeleteObject ==
    /\ job = "delete" /\ job' = "record"
    /\ object' = [object EXCEPT ![cur] = "absent"]
    /\ UNCHANGED <<catalog, age, grooming, preview, verify, faults, cut, flips>>

\* Mutant: an unreachable location counts as deleted.
DeleteFailsIgnored ==
    /\ job = "delete" /\ Fault
    /\ job' = "record"
    /\ UNCHANGED <<catalog, object, age, grooming, preview, verify, cut, flips>>

\* target.delete reports an error; a lost answer leaves the object deleted.
DeleteFails ==
    /\ job = "delete" /\ Fault
    /\ object' \in {object, [object EXCEPT ![cur] = "absent"]}
    /\ \/ job' = "unreachable"
       \/ job' = "broken" /\ object' = object
    /\ UNCHANGED <<catalog, age, grooming, preview, verify, cut, flips>>

\* Mutant: the claim is not released.
ReleaseForgotten ==
    /\ job \in {"unreachable", "broken"}
    /\ EndJob("idle")
    /\ UNCHANGED <<catalog, object, age, preview, verify, faults, cut, flips>>

\* release_deletion; an unreachable location is skipped, another error stops.
Release ==
    /\ job \in {"unreachable", "broken"}
    /\ claimed' = [claimed EXCEPT ![cur] = FALSE]
    /\ IF job = "unreachable"
       THEN /\ job' = "next" /\ cur' = None /\ UNCHANGED <<items, planned, opened>>
            /\ unavailable' = unavailable \union {LocOf[cur]}
       ELSE EndJob("idle")
    /\ UNCHANGED <<status, verified, preserved, object, age, preview, verify, faults, cut, flips>>

\* record_deletion: refused when the record is no longer the planned one.
MayRecord(c) == Live(c) /\ verified[c] = (c \in planned) /\ ~preserved[c]

RecordDeletion ==
    /\ job = "record" /\ MayRecord(cur)
    /\ status' = [status EXCEPT ![cur] = "tombstone"]
    /\ claimed' = [claimed EXCEPT ![cur] = FALSE]
    /\ verified' = [verified EXCEPT ![cur] = FALSE]
    /\ age' = [age EXCEPT ![cur] = 0]
    /\ job' = "next" /\ cur' = None
    /\ UNCHANGED <<preserved, object, items, planned, opened, unavailable, preview, verify, faults, cut, flips>>

\* The claim stays with the record whose object is gone.
RecordRefused ==
    /\ job = "record" /\ ~MayRecord(cur)
    /\ EndJob("idle")
    /\ UNCHANGED <<catalog, object, age, preview, verify, faults, cut, flips>>

\* The copy whose claim is held and whose object may still be stored.
Unreleased == {c \in Copies : cur = c /\ job \in {"delete", "unreachable", "broken"}}

\* claim_deletion or record_deletion cannot be written, which stops the run; or
\* release_deletion, in an except clause of its own, and apply() raises.
CatalogFails ==
    /\ \/ job = "next" /\ \E c \in Copies : Oldest(c) /\ LocOf[c] \notin unavailable
       \/ job \in {"unreachable", "broken", "record"}
    /\ Fault
    /\ EndJob("idle") /\ cut' = cut \union Unreleased
    /\ UNCHANGED <<catalog, object, age, preview, verify, flips>>

(***************************************************************************)
(* API threads.                                                            *)
(***************************************************************************)

\* Mutant: a pin does not look at the claim.
PreserveClaimed(c) ==
    /\ Serving /\ Live(c) /\ ~preserved[c]
    /\ preserved' = [preserved EXCEPT ![c] = TRUE]
    /\ UNCHANGED <<status, verified, claimed, object, age, job, grooming, preview, verify, faults, cut, flips>>

\* set_preserve: refused while a deletion is claimed.
Preserve(c) ==
    /\ Serving /\ Live(c) /\ ~claimed[c] /\ ~preserved[c]
    /\ preserved' = [preserved EXCEPT ![c] = TRUE]
    /\ UNCHANGED <<status, verified, claimed, object, age, job, grooming, preview, verify, faults, cut, flips>>

\* clear_preserve
Unpreserve(c) ==
    /\ Serving /\ Live(c) /\ preserved[c]
    /\ preserved' = [preserved EXCEPT ![c] = FALSE]
    /\ UNCHANGED <<status, verified, claimed, object, age, job, grooming, preview, verify, faults, cut, flips>>

\* verify(), first half: read the object back.
VerifyRead(t, c) ==
    /\ Serving /\ vpc[t] = "idle" /\ Live(c)
    /\ vpc' = [vpc EXCEPT ![t] = "mark"]
    /\ vcopy' = [vcopy EXCEPT ![t] = c]
    /\ vfound' = [vfound EXCEPT ![t] = object[c]]
    /\ UNCHANGED <<catalog, object, age, job, grooming, preview, faults, cut, flips>>

\* Mutant: the mark does not look whether there is still a record.
VerifyMarkUnchecked(t) ==
    /\ vpc[t] = "mark"
    /\ vpc' = [vpc EXCEPT ![t] = "idle"]
    /\ vcopy' = [vcopy EXCEPT ![t] = None] /\ vfound' = [vfound EXCEPT ![t] = "absent"]
    /\ verified' = [verified EXCEPT ![vcopy[t]] = vfound[t] = "good"]
    /\ flips' = IF verified' # verified THEN 1 ELSE flips
    /\ UNCHANGED <<status, preserved, claimed, object, age, job, grooming, preview, faults, cut>>

\* verify(), second half: mark_verified or mark_unverified, if there is still a
\* record; a remote object that is gone changes nothing.
VerifyMark(t) ==
    /\ vpc[t] = "mark"
    /\ vpc' = [vpc EXCEPT ![t] = "idle"]
    /\ vcopy' = [vcopy EXCEPT ![t] = None] /\ vfound' = [vfound EXCEPT ![t] = "absent"]
    /\ LET c == vcopy[t]
           marks == Live(c) /\ (vfound[t] # "absent" \/ LocOf[c] = Local)
       IN  /\ verified' = IF marks THEN [verified EXCEPT ![c] = vfound[t] = "good"] ELSE verified
           /\ flips' = IF verified' # verified THEN 1 ELSE flips
    /\ UNCHANGED <<status, preserved, claimed, object, age, job, grooming, preview, faults, cut>>

(***************************************************************************)
(* The environment.                                                        *)
(***************************************************************************)

\* A stored object no longer matches its hash.
ObjectDamaged(c) ==
    /\ object[c] = "good" /\ Fault
    /\ object' = [object EXCEPT ![c] = "bad"]
    /\ UNCHANGED <<catalog, age, job, grooming, preview, verify, cut, flips>>

TimePasses ==
    /\ age' = [c \in Copies |-> IF Live(c) /\ age[c] < AgeCap THEN age[c] + 1 ELSE age[c]]
    /\ age' # age
    /\ UNCHANGED <<catalog, object, job, grooming, preview, verify, faults, cut, flips>>

\* The process dies and restarts; the catalog keeps its claims.
Crash ==
    /\ Fault
    /\ EndJob("starting") /\ preview' = None
    /\ vpc' = [t \in Verifiers |-> "idle"] /\ vcopy' = [t \in Verifiers |-> None]
    /\ vfound' = [t \in Verifiers |-> "absent"]
    /\ cut' = cut \union Unreleased
    /\ UNCHANGED <<catalog, object, age, flips>>

Groom ==
    \/ GroomEnds \/ DeleteObject \/ DeleteFails \/ Release \/ RecordDeletion \/ RecordRefused \/ CatalogFails
    \/ \E c \in Copies : SkipItem(c) \/ Claim(c) \/ ClaimRefused(c)

Next ==
    \/ Preview \/ PreviewExpires \/ StartBackup \/ BackupFails \/ StartupDone \/ GroomAfterBackup \/ ApplyPreview
    \/ \E c \in Copies : AddLocal(c) \/ AddRemote(c) \/ RecoverCopy(c) \/ Preserve(c) \/ Unpreserve(c) \/ ObjectDamaged(c)
    \/ Groom
    \/ \E t \in Verifiers : VerifyMark(t) \/ \E c \in Copies : VerifyRead(t, c)
    \/ TimePasses \/ Crash

Spec == Init /\ [][Next]_vars

(***************************************************************************)
(* Properties.                                                             *)
(***************************************************************************)

Statuses == {"none", "live", "tombstone"}
Objects == {"absent", "good", "bad"}
Places == {"starting", "idle", "backup", "ship", "next", "delete", "unreachable", "broken", "record"}
Plans == [items : SUBSET Copies, planned : SUBSET Copies]

\* Types: only a live record has flags, and a verify thread that is about to mark
\* has a copy.
TypeOK ==
    /\ status \in [Copies -> Statuses]
    /\ verified \in [Copies -> BOOLEAN] /\ preserved \in [Copies -> BOOLEAN]
    /\ claimed \in [Copies -> BOOLEAN]
    /\ \A c \in Copies : verified[c] \/ preserved[c] => Live(c)
    /\ object \in [Copies -> Objects] /\ age \in [Copies -> Nat]
    /\ job \in Places /\ items \in SUBSET Copies /\ planned \in SUBSET Copies
    /\ cur \in Copies \union {None} /\ opened \in SUBSET Locations /\ unavailable \in SUBSET Locations
    /\ preview \in Plans \union {None}
    /\ vpc \in [Verifiers -> {"idle", "mark"}] /\ vcopy \in [Verifiers -> Copies \union {None}]
    /\ vfound \in [Verifiers -> Objects]
    /\ \A t \in Verifiers : vpc[t] = "mark" => vcopy[t] \in Copies
    /\ faults \in Nat /\ flips \in {0, 1} /\ cut \in SUBSET Copies

\* The copy between its claim and the end of its deletion.
Deleting(c) == cur = c /\ job \in {"delete", "unreachable", "broken", "record"}

\* "a pin can never race a deletion": a claimed copy is a live unpinned record,
\* and the job holder only ever works on a copy it has claimed.
ClaimExcludesPin ==
    /\ \A c \in Copies : claimed[c] => Live(c) /\ ~preserved[c]
    /\ job \in {"delete", "unreachable", "broken", "record"} => cur \in Copies /\ claimed[cur]

\* No step removes the stored object of a preserved copy, whatever plan was
\* previewed before the pin and whatever is claimed, crashed or retried.
PinnedNeverDeleted ==
    [][\A c \in Copies : object[c] # "absent" /\ object'[c] = "absent" => Live(c) /\ ~preserved[c]]_vars

\* A tombstone means that the object is gone: nothing that was recorded as
\* deleted still uses space at its location.
TombstoneMeansGone == \A c \in Copies : status[c] = "tombstone" => object[c] = "absent"

\* As long as no verify() changed a flag, the newest verified copy of a location
\* is stored there and not claimed: no plan, however stale, no failed or
\* repeated deletion and no crash costs a location its newest verified copy.
NewestVerifiedKept ==
    flips = 0 =>
        \A c \in Copies :
            /\ Live(c) /\ verified[c]
            /\ \A d \in Copies : Live(d) /\ verified[d] /\ LocOf[d] = LocOf[c] => d <= c
            => object[c] # "absent" /\ ~claimed[c]

\* A claim that no job works on belongs to a copy whose object is already gone, so
\* leaving it out of later plans loses nothing; or to one whose own deletion was cut
\* short by a crash or by a release_deletion that could not be written.  Such a copy
\* stays, and can neither be pinned nor groomed.
StrandedClaimIsGone ==
    \A c \in Copies : claimed[c] /\ ~Deleting(c) => object[c] = "absent" \/ c \in cut

\* lifecycle.py: "The newest verified copy of a class at a location is never
\* deleted".  TLC refutes it: verify() may change which copy that is between the
\* claim and the deletion.
NewestVerifiedNeverDeleted ==
    [][\A c \in Copies : object[c] # "absent" /\ object'[c] = "absent" => ~NewestVerified(c)]_vars
=============================================================================
