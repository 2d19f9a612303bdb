----------------------- MODULE BackupLifecycleProofs ------------------------
(***************************************************************************)
(* Proofs about BackupLifecycle, for any copies, locations, retention      *)
(* rules, verifying threads and numbers of faults.                         *)
(***************************************************************************)
EXTENDS BackupLifecycle, TLAPS

\* The object of the copy that is about to be recorded as deleted is gone.
RecordedIsGone == job = "record" => object[cur] = "absent"

\* What every step preserves.  Types alone are not preserved: a step of the job
\* holder is only well defined because it works on a copy it has claimed.
IndInv ==
    /\ TypeOK
    /\ ClaimExcludesPin
    /\ RecordedIsGone
    /\ TombstoneMeansGone
    /\ StrandedClaimIsGone

-----------------------------------------------------------------------------

\* The initial state has no records, objects, claims or jobs.
LEMMA InitInv == Init => IndInv
  BY DEF Init, IndInv, TypeOK, ClaimExcludesPin, RecordedIsGone, TombstoneMeansGone, StrandedClaimIsGone,
      Statuses, Objects, Places, Plans, Live, Deleting

\* Planning only ever names copies.
LEMMA PlanTypes == PlanItems \in SUBSET Copies /\ {c \in PlanItems : verified[c]} \in SUBSET Copies
  BY DEF PlanItems

\* What a catalog.add leaves: the new record is live and unclaimed.
LEMMA AddInv ==
  ASSUME IndInv, NEW c \in Copies, NEW v \in BOOLEAN, NEW p \in BOOLEAN, Add(c, v, p),
         UNCHANGED <<age, grooming, preview, verify, faults, cut, flips>>,
         job \in {"backup", "ship", "starting"}, job' \in {"ship", "starting"}
  PROVE  IndInv'
  <1>1. TypeOK'
    BY DEF IndInv, TypeOK, Add, grooming, verify, Statuses, Objects, Places, Live
  <1>2. ClaimExcludesPin'
    BY DEF IndInv, TypeOK, ClaimExcludesPin, Add, Live, grooming
  <1>3. RecordedIsGone'
    BY DEF RecordedIsGone
  <1>4. TombstoneMeansGone'
    BY DEF IndInv, TypeOK, TombstoneMeansGone, Add
  <1>5. StrandedClaimIsGone'
    BY DEF IndInv, TypeOK, ClaimExcludesPin, StrandedClaimIsGone, Deleting, Add, Live, grooming
  <1> QED BY <1>1, <1>2, <1>3, <1>4, <1>5 DEF IndInv

\* Steps of the job holder and of planning that leave the catalog, the objects
\* and the copy under deletion alone.
LEMMA PlanningInv ==
  ASSUME IndInv, Preview \/ PreviewExpires \/ StartBackup \/ BackupFails \/ StartupDone
  PROVE  IndInv'
  <1>1. UNCHANGED <<catalog, object, age, grooming, verify, faults, cut, flips>>
    BY DEF Preview, PreviewExpires, StartBackup, BackupFails, StartupDone, grooming
  <1>2. preview' \in Plans \union {None}
    BY PlanTypes DEF IndInv, TypeOK, Preview, PreviewExpires, StartBackup, BackupFails, StartupDone, Plans
  <1>3. /\ job' \in Places
        /\ job' # job => job' \in {"idle", "backup"} /\ job \in {"idle", "backup", "starting"}
    BY DEF IndInv, TypeOK, Preview, PreviewExpires, StartBackup, BackupFails, StartupDone, Places
  <1>4. TypeOK'
    BY <1>1, <1>2, <1>3 DEF IndInv, TypeOK, catalog, flags, grooming, verify, Live
  <1>5. ClaimExcludesPin' /\ RecordedIsGone'
    BY <1>1, <1>3 DEF IndInv, ClaimExcludesPin, RecordedIsGone, Live, catalog, flags, grooming
  <1>6. TombstoneMeansGone' /\ StrandedClaimIsGone'
    BY <1>1, <1>3 DEF IndInv, TombstoneMeansGone, StrandedClaimIsGone, Deleting, catalog, flags, grooming
  <1> QED BY <1>4, <1>5, <1>6 DEF IndInv

\* Grooming starts, moves on or ends with no copy under deletion.  When that cuts a
\* deletion short, its object is gone or the copy is remembered.
LEMMA GroomingInv ==
  ASSUME IndInv, TypeOK', UNCHANGED <<catalog, object>>,
         job' \in {"idle", "next", "starting"},
         cut' = cut \union Unreleased
  PROVE  IndInv'
  <1>1. ClaimExcludesPin' /\ RecordedIsGone'
    BY DEF IndInv, ClaimExcludesPin, RecordedIsGone, Live, catalog, flags
  <1>2. TombstoneMeansGone'
    BY DEF IndInv, TombstoneMeansGone, catalog
  <1>3. StrandedClaimIsGone'
    <2> SUFFICES ASSUME NEW c \in Copies, claimed'[c]
                 PROVE  object'[c] = "absent" \/ c \in cut'
      BY DEF StrandedClaimIsGone
    <2>1. CASE Deleting(c)
      BY <2>1 DEF IndInv, RecordedIsGone, Deleting, Unreleased
    <2>2. CASE ~Deleting(c)
      BY <2>2 DEF IndInv, StrandedClaimIsGone, catalog, flags
    <2> QED BY <2>1, <2>2
  <1> QED BY <1>1, <1>2, <1>3 DEF IndInv

\* The same for each such action.
LEMMA GroomStepInv ==
  ASSUME IndInv,
         \/ GroomAfterBackup \/ ApplyPreview \/ GroomEnds \/ RecordRefused \/ CatalogFails \/ Crash
         \/ \E c \in Copies : SkipItem(c) \/ ClaimRefused(c)
  PROVE  IndInv'
  <1>1. CASE GroomAfterBackup
    <2>1. items' \in SUBSET Copies /\ planned' \in SUBSET Copies
      BY <1>1, PlanTypes DEF GroomAfterBackup
    <2>2. TypeOK'
      BY <1>1, <2>1 DEF IndInv, TypeOK, GroomAfterBackup, catalog, flags, verify, Places, Live
    <2> QED BY <1>1, <2>2, GroomingInv DEF GroomAfterBackup, Unreleased
  <1>2. CASE ApplyPreview
    <2>1. TypeOK'
      BY <1>2 DEF IndInv, TypeOK, ApplyPreview, Plans, catalog, flags, verify, Places, Live
    <2> QED BY <1>2, <2>1, GroomingInv DEF ApplyPreview, Unreleased
  <1>3. CASE GroomEnds
    <2>1. TypeOK'
      BY <1>3 DEF IndInv, TypeOK, GroomEnds, EndJob, catalog, flags, verify, Places, Live
    <2> QED BY <1>3, <2>1, GroomingInv DEF GroomEnds, EndJob, Unreleased
  <1>4. CASE RecordRefused
    <2>1. TypeOK'
      BY <1>4 DEF IndInv, TypeOK, RecordRefused, EndJob, catalog, flags, verify, Places, Live
    <2> QED BY <1>4, <2>1, GroomingInv DEF RecordRefused, EndJob, Unreleased
  <1>5. CASE Crash
    <2>1. TypeOK'
      BY <1>5 DEF IndInv, TypeOK, Crash, Fault, EndJob, Unreleased, catalog, flags, Places, Objects, Live
    <2> QED BY <1>5, <2>1, GroomingInv DEF Crash, EndJob
  <1>6. ASSUME NEW c \in Copies, SkipItem(c)
        PROVE  IndInv'
    <2>1. TypeOK'
      BY <1>6, LifecycleAssumption DEF LifecycleAssumption, IndInv, TypeOK, SkipItem, catalog, flags, verify, Places, Live
    <2> QED BY <1>6, <2>1, GroomingInv DEF SkipItem, Unreleased
  <1>7. ASSUME NEW c \in Copies, ClaimRefused(c)
        PROVE  IndInv'
    <2>1. TypeOK'
      BY <1>7 DEF IndInv, TypeOK, ClaimRefused, EndJob, catalog, flags, verify, Places, Live
    <2> QED BY <1>7, <2>1, GroomingInv DEF ClaimRefused, EndJob, Unreleased
  <1>8. CASE CatalogFails
    <2>1. TypeOK'
      BY <1>8 DEF IndInv, TypeOK, CatalogFails, Fault, EndJob, Unreleased, catalog, flags, verify, Places, Live
    <2> QED BY <1>8, <2>1, GroomingInv DEF CatalogFails, EndJob
  <1> QED BY <1>1, <1>2, <1>3, <1>4, <1>5, <1>6, <1>7, <1>8

\* claim_deletion: the claimed copy is live and unpinned.
LEMMA ClaimInv ==
  ASSUME IndInv, NEW c \in Copies, Claim(c)
  PROVE  IndInv'
  <1>1. TypeOK'
    <2>1. LocOf[c] \in Locations
      BY LifecycleAssumption DEF LifecycleAssumption
    <2>2. claimed' \in [Copies -> BOOLEAN]
      BY DEF IndInv, TypeOK, Claim
    <2> QED BY <2>1, <2>2 DEF IndInv, TypeOK, Claim, verify, Places, Live
  <1>2. ClaimExcludesPin'
    BY DEF IndInv, TypeOK, ClaimExcludesPin, Claim, MayClaim, Live
  <1>3. RecordedIsGone' /\ TombstoneMeansGone'
    BY DEF IndInv, RecordedIsGone, TombstoneMeansGone, Claim
  <1>4. StrandedClaimIsGone'
    BY DEF IndInv, TypeOK, StrandedClaimIsGone, Deleting, Claim
  <1> QED BY <1>1, <1>2, <1>3, <1>4 DEF IndInv

\* target.delete, successful or not, only touches the object of the claimed copy.
LEMMA DeleteInv ==
  ASSUME IndInv, DeleteObject \/ DeleteFails
  PROVE  IndInv'
  <1>1. cur \in Copies /\ claimed[cur] /\ job = "delete"
    BY DEF IndInv, ClaimExcludesPin, DeleteObject, DeleteFails
  <1>2. /\ object' \in {object, [object EXCEPT ![cur] = "absent"]}
        /\ job' \in {"record", "unreachable", "broken"}
        /\ job' = "record" => object' = [object EXCEPT ![cur] = "absent"]
        /\ faults' \in Nat
        /\ UNCHANGED <<catalog, age, grooming, preview, verify, cut, flips>>
    BY DEF DeleteObject, DeleteFails, Fault, IndInv, TypeOK
  <1>3. TypeOK'
    BY <1>1, <1>2 DEF IndInv, TypeOK, catalog, flags, grooming, verify, Places, Objects, Live
  <1>4. ClaimExcludesPin' /\ RecordedIsGone'
    BY <1>1, <1>2 DEF IndInv, TypeOK, ClaimExcludesPin, RecordedIsGone, Live, catalog, flags, grooming
  <1>5. TombstoneMeansGone'
    BY <1>1, <1>2 DEF IndInv, TypeOK, TombstoneMeansGone, catalog
  <1>6. StrandedClaimIsGone'
    BY <1>1, <1>2 DEF IndInv, TypeOK, StrandedClaimIsGone, Deleting, catalog, flags, grooming
  <1> QED BY <1>3, <1>4, <1>5, <1>6 DEF IndInv

\* release_deletion
LEMMA ReleaseInv ==
  ASSUME IndInv, Release
  PROVE  IndInv'
  <1>1. cur \in Copies /\ LocOf[cur] \in Locations
    BY LifecycleAssumption DEF LifecycleAssumption, IndInv, ClaimExcludesPin, Release
  <1>2. /\ claimed' = [claimed EXCEPT ![cur] = FALSE]
        /\ job' \in {"next", "idle"} /\ cur' = None
        /\ items' \in SUBSET Copies /\ planned' \in SUBSET Copies
        /\ opened' \in SUBSET Locations /\ unavailable' \in SUBSET Locations
        /\ UNCHANGED <<status, verified, preserved, object, age, preview, verify, faults, cut, flips>>
    BY <1>1 DEF Release, EndJob, IndInv, TypeOK
  <1>3. TypeOK'
    BY <1>1, <1>2 DEF IndInv, TypeOK, verify, Places, Live
  <1>4. ClaimExcludesPin' /\ RecordedIsGone' /\ TombstoneMeansGone'
    BY <1>1, <1>2 DEF IndInv, TypeOK, ClaimExcludesPin, RecordedIsGone, TombstoneMeansGone, Live
  <1>5. StrandedClaimIsGone'
    BY <1>1, <1>2 DEF IndInv, TypeOK, StrandedClaimIsGone, Deleting
  <1> QED BY <1>3, <1>4, <1>5 DEF IndInv

\* record_deletion: the tombstone is written for an object that is gone.
LEMMA RecordInv ==
  ASSUME IndInv, RecordDeletion
  PROVE  IndInv'
  <1>1. cur \in Copies /\ object[cur] = "absent"
    BY DEF IndInv, ClaimExcludesPin, RecordedIsGone, RecordDeletion
  <1>2. TypeOK'
    <2>1. /\ status' \in [Copies -> Statuses] /\ verified' \in [Copies -> BOOLEAN]
          /\ claimed' \in [Copies -> BOOLEAN] /\ age' \in [Copies -> Nat]
      BY <1>1 DEF IndInv, TypeOK, RecordDeletion, Statuses
    <2>2. ~preserved[cur] /\ preserved' = preserved
      BY DEF RecordDeletion, MayRecord
    <2>3. ASSUME NEW c \in Copies, verified'[c] \/ preserved'[c] PROVE Live(c)'
      BY <1>1, <2>2, <2>3 DEF IndInv, TypeOK, RecordDeletion, Live
    <2> QED BY <2>1, <2>3 DEF IndInv, TypeOK, RecordDeletion, verify, Places
  <1>3. ClaimExcludesPin' /\ RecordedIsGone'
    BY <1>1 DEF IndInv, TypeOK, ClaimExcludesPin, RecordedIsGone, Live, RecordDeletion
  <1>4. TombstoneMeansGone'
    BY <1>1 DEF IndInv, TypeOK, TombstoneMeansGone, RecordDeletion
  <1>5. StrandedClaimIsGone'
    BY <1>1 DEF IndInv, TypeOK, StrandedClaimIsGone, Deleting, RecordDeletion
  <1> QED BY <1>2, <1>3, <1>4, <1>5 DEF IndInv

\* A pin is refused to a claimed copy; taking one away is always safe.
LEMMA PinInv ==
  ASSUME IndInv, NEW c \in Copies, Preserve(c) \/ Unpreserve(c)
  PROVE  IndInv'
  <1>1. /\ preserved' = [preserved EXCEPT ![c] = ~preserved[c]]
        /\ claimed[c] => preserved'[c] = FALSE
        /\ UNCHANGED <<status, verified, claimed, object, age, job, grooming, preview, verify, faults, cut, flips>>
    BY DEF IndInv, TypeOK, Preserve, Unpreserve
  <1>2. preserved' \in [Copies -> BOOLEAN]
    BY <1>1 DEF IndInv, TypeOK
  <1>a. ASSUME NEW d \in Copies, verified'[d] \/ preserved'[d] PROVE Live(d)'
    BY <1>1, <1>a DEF IndInv, TypeOK, Preserve, Unpreserve, Live
  <1>3. TypeOK'
    BY <1>1, <1>2, <1>a DEF IndInv, TypeOK, grooming, verify
  <1>4. ClaimExcludesPin'
    BY <1>1 DEF IndInv, TypeOK, ClaimExcludesPin, Live, grooming
  <1>5. RecordedIsGone' /\ TombstoneMeansGone' /\ StrandedClaimIsGone'
    BY <1>1 DEF IndInv, RecordedIsGone, TombstoneMeansGone, StrandedClaimIsGone, Deleting, grooming
  <1> QED BY <1>3, <1>4, <1>5 DEF IndInv

\* verify() changes the verified flag of one record and nothing else.
LEMMA VerifyInv ==
  ASSUME IndInv, NEW t \in Verifiers, VerifyMark(t) \/ \E c \in Copies : VerifyRead(t, c)
  PROVE  IndInv'
  <1>1. UNCHANGED <<status, preserved, claimed, object, age, job, grooming, preview, faults, cut>>
    BY DEF VerifyMark, VerifyRead, catalog, flags
  <1>2. verified' \in [Copies -> BOOLEAN] /\ flips' \in {0, 1}
    <2>1. CASE VerifyMark(t)
      <3>1. (vfound[t] = "good") \in BOOLEAN
        OBVIOUS
      <3>2. verified' = verified \/ verified' = [verified EXCEPT ![vcopy[t]] = (vfound[t] = "good")]
        BY <2>1 DEF VerifyMark
      <3> QED BY <2>1, <3>1, <3>2 DEF IndInv, TypeOK, VerifyMark
    <2>2. CASE \E c \in Copies : VerifyRead(t, c)
      BY <2>2 DEF IndInv, TypeOK, VerifyRead, catalog, flags
    <2> QED BY <2>1, <2>2
  <1>3. /\ vpc' \in [Verifiers -> {"idle", "mark"}] /\ vcopy' \in [Verifiers -> Copies \union {None}]
        /\ vfound' \in [Verifiers -> Objects]
        /\ \A u \in Verifiers : vpc'[u] = "mark" => vcopy'[u] \in Copies
    BY DEF IndInv, TypeOK, VerifyMark, VerifyRead, Objects
  <1>a. ASSUME NEW d \in Copies, verified'[d] \/ preserved'[d] PROVE Live(d)'
    <2>1. CASE VerifyMark(t)
      <3>1. verified' = verified \/ (Live(vcopy[t]) /\ verified' = [verified EXCEPT ![vcopy[t]] = (vfound[t] = "good")])
        BY <2>1 DEF VerifyMark
      <3> QED BY <1>1, <1>a, <3>1 DEF IndInv, TypeOK, Live
    <2>2. CASE \E c \in Copies : VerifyRead(t, c)
      BY <1>1, <1>a, <2>2 DEF IndInv, TypeOK, VerifyRead, catalog, flags, Live
    <2> QED BY <2>1, <2>2
  <1>4. TypeOK'
    BY <1>1, <1>2, <1>3, <1>a DEF IndInv, TypeOK, grooming
  <1>5. ClaimExcludesPin' /\ RecordedIsGone'
    BY <1>1 DEF IndInv, ClaimExcludesPin, RecordedIsGone, Live, grooming
  <1>6. TombstoneMeansGone' /\ StrandedClaimIsGone'
    BY <1>1 DEF IndInv, TombstoneMeansGone, StrandedClaimIsGone, Deleting, grooming
  <1> QED BY <1>4, <1>5, <1>6 DEF IndInv

\* Damage to a stored object, and time.
LEMMA EnvironmentInv ==
  ASSUME IndInv, TimePasses \/ \E c \in Copies : ObjectDamaged(c)
  PROVE  IndInv'
  <1>1. CASE TimePasses
    <2>1. age' \in [Copies -> Nat]
      BY <1>1 DEF IndInv, TypeOK, TimePasses
    <2>2. TypeOK'
      BY <1>1, <2>1 DEF IndInv, TypeOK, TimePasses, catalog, flags, grooming, verify, Live
    <2> QED BY <1>1, <2>2 DEF IndInv, TimePasses, ClaimExcludesPin, RecordedIsGone, TombstoneMeansGone,
                  StrandedClaimIsGone, Deleting, Live, catalog, flags, grooming
  <1>2. ASSUME NEW c \in Copies, ObjectDamaged(c)
        PROVE  IndInv'
    <2>1. TypeOK'
      BY <1>2 DEF IndInv, TypeOK, ObjectDamaged, Fault, catalog, flags, grooming, verify, Objects, Live
    <2>2. ClaimExcludesPin' /\ RecordedIsGone'
      BY <1>2 DEF IndInv, TypeOK, ClaimExcludesPin, RecordedIsGone, ObjectDamaged, Live, catalog, flags, grooming
    <2>3. TombstoneMeansGone' /\ StrandedClaimIsGone'
      BY <1>2 DEF IndInv, TypeOK, TombstoneMeansGone, StrandedClaimIsGone, Deleting, ObjectDamaged, catalog, flags, grooming
    <2> QED BY <2>1, <2>2, <2>3 DEF IndInv
  <1> QED BY <1>1, <1>2

\* Every step preserves the invariant.
LEMMA NextInv ==
  ASSUME IndInv, [Next]_vars
  PROVE  IndInv'
  <1>1. CASE Preview \/ PreviewExpires \/ StartBackup \/ BackupFails \/ StartupDone
    BY <1>1, PlanningInv
  <1>2. CASE \/ GroomAfterBackup \/ ApplyPreview \/ GroomEnds \/ RecordRefused \/ CatalogFails \/ Crash
             \/ \E c \in Copies : SkipItem(c) \/ ClaimRefused(c)
    BY <1>2, GroomStepInv
  <1>3. ASSUME NEW c \in Copies, AddLocal(c)
        PROVE  IndInv'
    BY <1>3, AddInv DEF AddLocal
  <1>4. ASSUME NEW c \in Copies, AddRemote(c)
        PROVE  IndInv'
    <2>1. job = "ship" /\ job' = "ship" /\ UNCHANGED <<age, grooming, preview, verify, faults, cut, flips>>
      BY <1>4 DEF AddRemote
    <2>2. PICK v \in BOOLEAN, p \in BOOLEAN : Add(c, v, p)
      BY <1>4 DEF AddRemote
    <2> QED BY <2>1, <2>2, AddInv
  <1>5. ASSUME NEW c \in Copies, RecoverCopy(c)
        PROVE  IndInv'
    BY <1>5, AddInv DEF RecoverCopy
  <1>6. ASSUME NEW c \in Copies, Claim(c)
        PROVE  IndInv'
    BY <1>6, ClaimInv
  <1>7. CASE DeleteObject \/ DeleteFails
    BY <1>7, DeleteInv
  <1>8. CASE Release
    BY <1>8, ReleaseInv
  <1>9. CASE RecordDeletion
    BY <1>9, RecordInv
  <1>10. ASSUME NEW c \in Copies, Preserve(c) \/ Unpreserve(c)
         PROVE  IndInv'
    BY <1>10, PinInv
  <1>11. ASSUME NEW t \in Verifiers, VerifyMark(t) \/ \E c \in Copies : VerifyRead(t, c)
         PROVE  IndInv'
    BY <1>11, VerifyInv
  <1>12. CASE TimePasses \/ \E c \in Copies : ObjectDamaged(c)
    BY <1>12, EnvironmentInv
  <1>13. CASE UNCHANGED vars
    BY <1>13 DEF IndInv, TypeOK, ClaimExcludesPin, RecordedIsGone, TombstoneMeansGone, StrandedClaimIsGone,
         Deleting, Live, vars, catalog, flags, grooming, verify
  <1> QED BY <1>1, <1>2, <1>3, <1>4, <1>5, <1>6, <1>7, <1>8, <1>9, <1>10, <1>11, <1>12, <1>13
          DEF Next, Groom

\* The invariant always holds.
THEOREM Invariance == Spec => []IndInv
  <1>1. Init => IndInv
    BY InitInv
  <1>2. IndInv /\ [Next]_vars => IndInv'
    BY NextInv
  <1> QED BY <1>1, <1>2, PTL DEF Spec

\* The types of the catalog, the job holder and the API threads are kept.
THEOREM TypeCorrect == Spec => []TypeOK
  BY Invariance, PTL DEF IndInv

\* catalog.py: a pin can never race a deletion.  A claimed copy is live and
\* unpinned, and the job holder only deletes what it has claimed.
THEOREM ClaimSafety == Spec => []ClaimExcludesPin
  BY Invariance, PTL DEF IndInv

\* Whatever is recorded as deleted is gone from its location.
THEOREM TombstoneSafety == Spec => []TombstoneMeansGone
  BY Invariance, PTL DEF IndInv

\* No claim is left on a copy whose object still exists, but for one whose own
\* deletion a crash or a failed release_deletion cut short.
THEOREM StrandedClaimSafety == Spec => []StrandedClaimIsGone
  BY Invariance, PTL DEF IndInv

-----------------------------------------------------------------------------

\* The only steps that remove an object are those of a deletion.
LEMMA RemovalSteps ==
  ASSUME IndInv, [Next]_vars, NEW c \in Copies, object[c] # "absent", object'[c] = "absent"
  PROVE  c = cur /\ job = "delete"
  <1>1. CASE DeleteObject \/ DeleteFails
    BY <1>1 DEF IndInv, TypeOK, DeleteObject, DeleteFails
  <1>2. ASSUME NEW d \in Copies, AddLocal(d) \/ AddRemote(d) \/ RecoverCopy(d)
        PROVE  FALSE
    <2>1. object' = [object EXCEPT ![d] = "good"]
      BY <1>2 DEF AddLocal, AddRemote, RecoverCopy, Add
    <2> QED BY <2>1 DEF IndInv, TypeOK
  <1>3. ASSUME NEW d \in Copies, ObjectDamaged(d)
        PROVE  FALSE
    BY <1>3 DEF IndInv, TypeOK, ObjectDamaged
  <1>4. CASE UNCHANGED object
    BY <1>4
  <1>5. \/ DeleteObject \/ DeleteFails \/ UNCHANGED object
        \/ \E d \in Copies : AddLocal(d) \/ AddRemote(d) \/ RecoverCopy(d) \/ ObjectDamaged(d)
    <2>1. Groom => DeleteObject \/ DeleteFails \/ UNCHANGED object
      BY DEF Groom, GroomEnds, Release, RecordDeletion, RecordRefused, CatalogFails, SkipItem, Claim, ClaimRefused
    <2>2. ASSUME NEW d \in Copies, Preserve(d) \/ Unpreserve(d)
          PROVE  UNCHANGED object
      BY <2>2 DEF Preserve, Unpreserve
    <2>3. ASSUME NEW t \in Verifiers, VerifyMark(t) \/ \E d \in Copies : VerifyRead(t, d)
          PROVE  UNCHANGED object
      BY <2>3 DEF VerifyMark, VerifyRead
    <2>4. CASE \/ Preview \/ PreviewExpires \/ StartBackup \/ BackupFails \/ StartupDone
               \/ GroomAfterBackup \/ ApplyPreview \/ TimePasses \/ Crash \/ UNCHANGED vars
      BY <2>4 DEF Preview, PreviewExpires, StartBackup, BackupFails, StartupDone, GroomAfterBackup,
           ApplyPreview, TimePasses, Crash, vars
    <2> QED BY <2>1, <2>2, <2>3, <2>4 DEF Next
  <1> QED BY <1>1, <1>2, <1>3, <1>4, <1>5

\* No preserved copy ever loses its object: not to a plan made before the pin, a
\* repeated deletion or a restart in the middle of one.
THEOREM PinSafety == Spec => PinnedNeverDeleted
  <1>1. ASSUME IndInv, [Next]_vars
        PROVE  \A c \in Copies : object[c] # "absent" /\ object'[c] = "absent" => Live(c) /\ ~preserved[c]
    BY <1>1, RemovalSteps DEF IndInv, ClaimExcludesPin
  <1>2. IndInv /\ [Next]_vars =>
          [\A c \in Copies : object[c] # "absent" /\ object'[c] = "absent" => Live(c) /\ ~preserved[c]]_vars
    BY <1>1
  <1> QED BY <1>2, Invariance, PTL DEF Spec, PinnedNeverDeleted

-----------------------------------------------------------------------------

\* c is the newest verified copy of its location.
IsNewest(c) ==
    /\ Live(c) /\ verified[c]
    /\ \A d \in Copies : Live(d) /\ verified[d] /\ LocOf[d] = LocOf[c] => d <= c

\* The catalog's query finds that copy.
LEMMA NewestIsIsNewest ==
  ASSUME NEW c \in Copies
  PROVE  IsNewest(c) => NewestVerified(c)
  BY LifecycleAssumption DEF LifecycleAssumption, IsNewest, NewestVerified, Newer, At, Live

\* A step that leaves the records, the claims and the objects alone.
LEMMA NewestUnaffected ==
  ASSUME NewestVerifiedKept, UNCHANGED <<status, verified, claimed, object>>, flips' = 0 => flips = 0
  PROVE  NewestVerifiedKept'
  BY DEF NewestVerifiedKept, Live

\* A new record has its object and no claim, and does not make an older copy
\* newest.
LEMMA AddKeepsNewest ==
  ASSUME IndInv, NewestVerifiedKept, NEW c \in Copies, NEW v \in BOOLEAN, NEW p \in BOOLEAN,
         Add(c, v, p), UNCHANGED flips
  PROVE  NewestVerifiedKept'
  <1> SUFFICES ASSUME flips = 0, NEW e \in Copies, IsNewest(e)'
               PROVE  object'[e] # "absent" /\ ~claimed'[e]
    BY DEF NewestVerifiedKept, IsNewest
  <1>1. CASE e = c
    BY <1>1 DEF IndInv, TypeOK, ClaimExcludesPin, Live, Add
  <1>2. CASE e # c
    <2>1. IsNewest(e)
      BY <1>2 DEF IsNewest, Live, Add, IndInv, TypeOK
    <2>2. object[e] # "absent" /\ ~claimed[e]
      BY <2>1 DEF NewestVerifiedKept, IsNewest
    <2> QED BY <1>2, <2>2 DEF Add, IndInv, TypeOK
  <1> QED BY <1>1, <1>2

\* The claim, the deletion, the release and the tombstone all concern a copy
\* that is not newest, and so do not change which copy is.
LEMMA DeletionKeepsNewest ==
  ASSUME IndInv, NewestVerifiedKept,
         DeleteObject \/ DeleteFails \/ Release \/ RecordDeletion \/ \E c \in Copies : Claim(c)
  PROVE  NewestVerifiedKept'
  <1> SUFFICES ASSUME flips = 0, flips' = 0, NEW e \in Copies, IsNewest(e)'
               PROVE  object'[e] # "absent" /\ ~claimed'[e]
    BY DEF NewestVerifiedKept, IsNewest, DeleteObject, DeleteFails, Release, RecordDeletion, Claim
  <1>a. ASSUME NEW d \in Copies, IsNewest(d)
        PROVE  object[d] # "absent" /\ ~claimed[d]
    BY <1>a DEF NewestVerifiedKept, IsNewest
  <1>1. CASE DeleteObject \/ DeleteFails
    <2>1. IsNewest(e) /\ claimed' = claimed /\ cur \in Copies /\ claimed[cur]
      BY <1>1 DEF IndInv, ClaimExcludesPin, IsNewest, Live, DeleteObject, DeleteFails, catalog, flags
    <2>2. e # cur
      BY <1>a, <2>1
    <2> QED BY <1>1, <1>a, <2>1, <2>2 DEF IndInv, TypeOK, DeleteObject, DeleteFails
  <1>2. CASE Release
    <2>1. IsNewest(e) /\ object' = object /\ cur \in Copies
      BY <1>2 DEF IndInv, ClaimExcludesPin, IsNewest, Live, Release
    <2> QED BY <1>2, <1>a, <2>1 DEF IndInv, TypeOK, Release
  <1>3. CASE RecordDeletion
    <2>1. cur \in Copies /\ claimed[cur] /\ Live(cur) /\ e # cur
      BY <1>3 DEF IndInv, TypeOK, ClaimExcludesPin, IsNewest, Live, RecordDeletion
    <2>2. Live(e) /\ verified[e]
      BY <1>3, <2>1 DEF IndInv, TypeOK, IsNewest, Live, RecordDeletion
    <2>3. ASSUME NEW d \in Copies, Live(d), verified[d], LocOf[d] = LocOf[e]
          PROVE  d = cur \/ d <= e
      BY <1>3, <2>1, <2>3 DEF IndInv, TypeOK, IsNewest, Live, RecordDeletion
    <2>4. IsNewest(e)
      <3>1. CASE verified[cur] /\ LocOf[cur] = LocOf[e] /\ ~(cur <= e)
        <4>1. \A d \in Copies : Live(d) /\ verified[d] /\ LocOf[d] = LocOf[cur] => d <= cur
          BY <2>1, <2>3, <3>1, LifecycleAssumption DEF LifecycleAssumption
        <4> QED BY <1>a, <2>1, <3>1, <4>1 DEF IsNewest
      <3>2. CASE ~(verified[cur] /\ LocOf[cur] = LocOf[e] /\ ~(cur <= e))
        BY <2>2, <2>3, <3>2 DEF IsNewest
      <3> QED BY <3>1, <3>2
    <2> QED BY <1>3, <1>a, <2>1, <2>4 DEF IndInv, TypeOK, RecordDeletion
  <1>4. ASSUME NEW c \in Copies, Claim(c)
        PROVE  object'[e] # "absent" /\ ~claimed'[e]
    <2>1. IsNewest(e) /\ object' = object
      BY <1>4 DEF IsNewest, Live, Claim
    <2>2. e # c
      BY <1>4, <2>1, NewestIsIsNewest DEF Claim, MayClaim
    <2> QED BY <1>4, <1>a, <2>1, <2>2 DEF IndInv, TypeOK, Claim
  <1> QED BY <1>1, <1>2, <1>3, <1>4

\* Every step keeps the newest verified copy, or changes a verified flag.
LEMMA NextKeepsNewest ==
  ASSUME IndInv, NewestVerifiedKept, [Next]_vars
  PROVE  NewestVerifiedKept'
  <1>1. CASE DeleteObject \/ DeleteFails \/ Release \/ RecordDeletion \/ \E c \in Copies : Claim(c)
    BY <1>1, DeletionKeepsNewest
  <1>2. ASSUME NEW c \in Copies, AddLocal(c) \/ AddRemote(c) \/ RecoverCopy(c)
        PROVE  NewestVerifiedKept'
    <2>1. (\E v, p \in BOOLEAN : Add(c, v, p)) /\ UNCHANGED flips
      BY <1>2 DEF AddLocal, AddRemote, RecoverCopy
    <2> QED BY <2>1, AddKeepsNewest
  <1>3. ASSUME NEW t \in Verifiers, VerifyMark(t) \/ \E c \in Copies : VerifyRead(t, c)
        PROVE  NewestVerifiedKept'
    <2>1. UNCHANGED <<status, claimed, object>> /\ (flips' = 0 => flips = 0 /\ verified' = verified)
      BY <1>3 DEF VerifyMark, VerifyRead, catalog, flags
    <2> QED BY <2>1, NewestUnaffected DEF NewestVerifiedKept
  <1>4. ASSUME NEW c \in Copies, ObjectDamaged(c)
        PROVE  NewestVerifiedKept'
    BY <1>4 DEF NewestVerifiedKept, Live, ObjectDamaged, IndInv, TypeOK, catalog, flags
  <1>5. CASE \/ Preview \/ PreviewExpires \/ StartBackup \/ BackupFails \/ StartupDone \/ GroomAfterBackup
             \/ ApplyPreview \/ GroomEnds \/ RecordRefused \/ CatalogFails \/ TimePasses \/ Crash \/ UNCHANGED vars
             \/ \E c \in Copies : SkipItem(c) \/ ClaimRefused(c) \/ Preserve(c) \/ Unpreserve(c)
    <2>1. UNCHANGED <<status, verified, claimed, object, flips>>
      BY <1>5 DEF Preview, PreviewExpires, StartBackup, BackupFails, StartupDone, GroomAfterBackup, ApplyPreview,
           GroomEnds, RecordRefused, CatalogFails, TimePasses, Crash, SkipItem, ClaimRefused, Preserve, Unpreserve,
           vars, catalog, flags
    <2> QED BY <2>1, NewestUnaffected
  <1> QED BY <1>1, <1>2, <1>3, <1>4, <1>5 DEF Next, Groom

\* Until verify() changes a flag, the newest verified copy of every location is
\* stored there and unclaimed, through any plans, failures and crashes.
THEOREM NewestSafety == Spec => []NewestVerifiedKept
  <1>1. Init => NewestVerifiedKept
    BY DEF Init, NewestVerifiedKept, Live
  <1>2. IndInv /\ NewestVerifiedKept /\ [Next]_vars => NewestVerifiedKept'
    BY NextKeepsNewest
  <1> QED BY <1>1, <1>2, Invariance, PTL DEF Spec
=============================================================================
