------------------------- MODULE PublicationProofs --------------------------
(***************************************************************************)
(* Proofs about Publication, for any set of artifacts and any number of    *)
(* failed calls, kills, power losses and replaced files.                   *)
(***************************************************************************)
EXTENDS Publication, TLAPS

RunPlaces == {"write", "intent", "link", "abort", "sync", "unlink", "resync", "add"}
StartupPlaces == {"starting", "barrier", "adopt", "forget"}

\* An id no run has drawn is used nowhere.
FreshUnused ==
    \A a \in fresh :
        /\ catalog[a] = "none" /\ target[a] = "absent" /\ a # cur /\ a \notin todo
        /\ meta[a] = "none" /\ \A m \in diskMay : m[a] = "none"

\* A run that has not come to the catalog has no record.
RunUncatalogued ==
    /\ pc \in RunPlaces => catalog[cur] = "none"
    /\ pc = "clear" => catalog[cur] # "none"

\* From the link on, the intent of the run is durable.
IntentDurable ==
    pc \in {"link", "sync", "unlink", "resync", "add"} => \A m \in diskMay : m[cur] = "intent"

\* The process knows of every publication that is not catalogued, so that none of
\* its saves can take the intent off the disk.
IntentInMemory ==
    pc # "down" =>
        \A a \in Artifacts : "ours" \in targetMay[a] /\ catalog[a] = "none" => meta[a] = "intent"

\* The run's archive is at its final name from the link on, and durably so when
\* its record is written.
RunTarget ==
    /\ pc \in {"write", "intent", "link"} => target[cur] = "absent"
    /\ pc = "link" => meta[cur] = "intent"
    /\ pc \in {"sync", "unlink", "resync", "add"} => target[cur] = "ours"
    /\ pc = "add" => targetMay[cur] = {"ours"}

\* A name without a record whose file is not visible is durably without it, and
\* a foreign file is only left by a power loss where one is visible.
NamesSettled ==
    \A a \in Artifacts :
        /\ catalog[a] = "none" /\ target[a] = "absent" => "ours" \notin targetMay[a]
        /\ target[a] # "foreign" => "foreign" \notin targetMay[a]
        /\ catalog[a] \in {"verified", "recovered"} => target[a] # "foreign"

\* What startup decided about an intent still holds when it acts on it.
RecoverySettled ==
    /\ pc = "adopt" => target[cur] = "ours"
    /\ pc = "barrier" => target[cur] # "foreign"
    /\ pc = "forget" => catalog[cur] # "none" \/ "ours" \notin targetMay[cur]

IndInv ==
    /\ TypeOK
    /\ FreshUnused /\ RunUncatalogued /\ IntentDurable /\ IntentInMemory /\ RunTarget
    /\ NamesSettled /\ RecoverySettled
    /\ PublishedIsOwned /\ VerifiedSurvives

-----------------------------------------------------------------------------

\* The initial state: nothing is drawn, published, catalogued or under way.
LEMMA InitInv == Init => IndInv
  BY PublicationAssumption
  DEF PublicationAssumption, Init, IndInv, TypeOK, FreshUnused, RunUncatalogued, IntentDurable, IntentInMemory, RunTarget, NamesSettled,
         RecoverySettled, PublishedIsOwned, VerifiedSurvives, NoIntents, Metadata, Files, Places, RunPlaces

\* The type invariant is kept by itself.
LEMMA TypeStep ==
  ASSUME TypeOK, [Next]_vars
  PROVE  TypeOK'
  <1>1. ASSUME NEW a \in Artifacts, StartRun(a)
        PROVE  TypeOK'
    BY <1>1 DEF TypeOK, StartRun, archive, metadata, Places
  <1>2. CASE WriteTemporary
    BY <1>2 DEF TypeOK, WriteTemporary, SetTmp, metadata, Places, Files
  <1>3. CASE SaveIntent
    <2>1. [meta EXCEPT ![cur] = "intent"] \in Metadata
      BY <1>3 DEF TypeOK, SaveIntent, Metadata
    <2> QED BY <1>3, <2>1 DEF TypeOK, SaveIntent, SaveMeta, SaveMetaRaises, Fault, archive, Places
  <1>4. CASE Link
    BY <1>4 DEF TypeOK, Link, SetTarget, metadata, Places, Files
  <1>5. CASE FailsBeforeLink \/ FailsAfterLink
    BY <1>5 DEF TypeOK, FailsBeforeLink, FailsAfterLink, Fault, archive, metadata, Places
  <1>6. CASE Abort \/ UnlinkTemporary
    BY <1>6 DEF TypeOK, Abort, UnlinkTemporary, SetTmp, metadata, Places, Files
  <1>7. CASE SyncTarget \/ SyncUnlinked \/ RecoveryBarrier
    BY <1>7 DEF TypeOK, SyncTarget, SyncUnlinked, RecoveryBarrier, SyncDir, metadata, Places
  <1>8. CASE AddRecord \/ Adopt
    BY <1>8 DEF TypeOK, AddRecord, Adopt, archive, metadata, Places
  <1>9. CASE ClearIntent \/ Forget
    <2>1. [meta EXCEPT ![cur] = "none"] \in Metadata
      BY <1>9 DEF TypeOK, ClearIntent, Forget, Metadata
    <2> QED BY <1>9, <2>1 DEF TypeOK, ClearIntent, Forget, Leave, SaveMeta, SaveMetaRaises, Fault, archive, Places
  <1>10. CASE Restart
    BY <1>10 DEF TypeOK, Restart, archive, Places
  <1>11. CASE RecoveryFails \/ StartupDone
    BY <1>11 DEF TypeOK, RecoveryFails, StartupDone, Leave, Fault, archive, metadata, Places
  <1>12. ASSUME NEW a \in Artifacts, Inspect(a)
         PROVE  TypeOK'
    BY <1>12 DEF TypeOK, Inspect, Leave, SetTmp, archive, metadata, Places, Files
  <1>13. CASE OtherSave
    BY <1>13 DEF TypeOK, OtherSave, SaveMeta, SaveMetaRaises, Fault, archive
  <1>14. CASE Kill
    BY <1>14 DEF TypeOK, Kill, GoDown, Fault, NoIntents, Metadata, archive, Places
  <1>15. CASE PowerLoss
    BY <1>15 DEF TypeOK, PowerLoss, GoDown, Fault, NoIntents, Metadata, Places
  <1>16. ASSUME NEW a \in Artifacts, Groom(a) \/ Replaced(a)
         PROVE  TypeOK'
    BY <1>16 DEF TypeOK, Groom, Replaced, SetTarget, Fault, metadata, Files
  <1>17. CASE UNCHANGED vars
    BY <1>17 DEF TypeOK, vars, archive, metadata
  <1> QED BY <1>1, <1>2, <1>3, <1>4, <1>5, <1>6, <1>7, <1>8, <1>9, <1>10, <1>11, <1>12, <1>13, <1>14,
             <1>15, <1>16, <1>17 DEF Next, Run, Recovery

\* All of the invariant but its types.
Ownership ==
    /\ FreshUnused /\ RunUncatalogued /\ IntentDurable /\ IntentInMemory /\ RunTarget
    /\ NamesSettled /\ RecoverySettled /\ PublishedIsOwned /\ VerifiedSurvives

\* The run up to its intent: the archive has no final name yet.
LEMMA BeforeLinkInv ==
  ASSUME IndInv, TypeOK', WriteTemporary \/ SaveIntent \/ FailsBeforeLink \/ Abort \/ \E a \in Artifacts : StartRun(a)
  PROVE  Ownership'
  <1> USE DEF IndInv
  <1>1. UNCHANGED <<target, targetMay, catalog>>
    BY DEF WriteTemporary, SaveIntent, FailsBeforeLink, Abort, StartRun, archive
  <1>2. /\ RunUncatalogued' /\ VerifiedSurvives' /\ NamesSettled' /\ RecoverySettled'
    BY <1>1 DEF TypeOK, FreshUnused, RunUncatalogued, VerifiedSurvives, NamesSettled, RecoverySettled, RunPlaces,
         WriteTemporary, SaveIntent, FailsBeforeLink, Abort, StartRun
  <1>3. /\ \A m \in diskMay' : \A a \in Artifacts : m[a] # "intent" => m \in diskMay \/ meta[a] # "intent"
        /\ \A a \in Artifacts : meta[a] = "intent" => meta'[a] = "intent"
        /\ pc' = "link" => meta'[cur'] = "intent" /\ \A m \in diskMay' : m[cur'] = "intent"
        /\ pc # "down" /\ pc' \notin {"sync", "unlink", "resync", "add"}
    BY DEF TypeOK, Metadata, WriteTemporary, SaveIntent, SaveMeta, SaveMetaRaises, FailsBeforeLink, Abort, StartRun, metadata
  <1>4. IntentInMemory'
    BY <1>1, <1>3 DEF IntentInMemory
  <1>5. IntentDurable' /\ RunTarget'
    BY <1>1, <1>3 DEF IntentDurable, RunTarget, FreshUnused, WriteTemporary, SaveIntent, FailsBeforeLink, Abort, StartRun
  <1>6. PublishedIsOwned'
    BY <1>1, <1>3 DEF PublishedIsOwned, IntentInMemory
  <1>7. FreshUnused'
    BY <1>1, PublicationAssumption DEF PublicationAssumption, TypeOK, Metadata, FreshUnused, WriteTemporary, SaveIntent, SaveMeta, SaveMetaRaises, FailsBeforeLink,
         Abort, StartRun, metadata
  <1> QED BY <1>2, <1>4, <1>5, <1>6, <1>7 DEF Ownership

\* The run from the link to the end of its second barrier.
LEMMA PublishInv ==
  ASSUME IndInv, TypeOK', Link \/ SyncTarget \/ UnlinkTemporary \/ SyncUnlinked \/ FailsAfterLink
  PROVE  Ownership'
  <1> USE DEF IndInv
  <1>1. UNCHANGED <<metadata, catalog, fresh>> /\ pc # "down" /\ pc' # "down"
    BY DEF Link, SyncTarget, UnlinkTemporary, SyncUnlinked, FailsAfterLink
  <1>2. /\ \A a \in Artifacts : "ours" \in targetMay'[a] => "ours" \in targetMay[a] \/ (pc = "link" /\ a = cur)
        /\ \A a \in Artifacts : "foreign" \in targetMay'[a] => "foreign" \in targetMay[a]
        /\ \A a \in Artifacts : target'[a] = target[a] \/ (target'[a] = "ours" /\ pc = "link" /\ a = cur)
    BY DEF TypeOK, Link, SyncTarget, UnlinkTemporary, SyncUnlinked, FailsAfterLink, SetTmp, SetTarget, SyncDir, archive
  <1>3. RunUncatalogued' /\ IntentDurable' /\ RecoverySettled'
    BY <1>1 DEF RunUncatalogued, IntentDurable, RecoverySettled, RunPlaces, metadata,
         Link, SyncTarget, UnlinkTemporary, SyncUnlinked, FailsAfterLink
  <1>4. IntentInMemory' /\ PublishedIsOwned'
    BY <1>1, <1>2 DEF TypeOK, IntentInMemory, PublishedIsOwned, IntentDurable, RunTarget, metadata
  <1>5. RunTarget'
    BY <1>1, <1>2 DEF TypeOK, RunTarget, Link, SyncTarget, UnlinkTemporary, SyncUnlinked, FailsAfterLink,
         SetTmp, SetTarget, SyncDir
  <1>6. NamesSettled'
    BY <1>1, <1>2 DEF TypeOK, NamesSettled, RunTarget, RunUncatalogued, RunPlaces, Link, SyncTarget, UnlinkTemporary,
         SyncUnlinked, FailsAfterLink, SetTmp, SetTarget, SyncDir
  <1>7. VerifiedSurvives'
    BY <1>1 DEF TypeOK, VerifiedSurvives, RunUncatalogued, RunPlaces, Link, SyncTarget, UnlinkTemporary,
         SyncUnlinked, FailsAfterLink, SetTmp, SetTarget, SyncDir, archive
  <1>8. FreshUnused'
    BY <1>1, <1>2, PublicationAssumption DEF PublicationAssumption, TypeOK, FreshUnused, metadata, Link, SyncTarget, UnlinkTemporary, SyncUnlinked, FailsAfterLink
  <1> QED BY <1>3, <1>4, <1>5, <1>6, <1>7, <1>8 DEF Ownership

\* The record is written, at the end of a run or at startup.
LEMMA CatalogInv ==
  ASSUME IndInv, TypeOK', AddRecord \/ Adopt
  PROVE  Ownership'
  <1> USE DEF IndInv
  <1>1. /\ UNCHANGED <<archive, metadata, fresh, cur>> /\ cur \in Artifacts /\ pc # "down"
        /\ \E r \in {"verified", "recovered"} : catalog' = [catalog EXCEPT ![cur] = r]
        /\ target[cur] = "ours" /\ pc' \in {"clear", "forget"}
    BY DEF TypeOK, AddRecord, Adopt, RunTarget, RecoverySettled
  <1>2. \A a \in Artifacts : catalog'[a] = "none" => catalog[a] = "none"
    BY <1>1 DEF TypeOK
  <1>3. RunUncatalogued'
    BY <1>1 DEF TypeOK, RunUncatalogued, RunPlaces, AddRecord, Adopt
  <1>4. IntentDurable' /\ RunTarget' /\ RecoverySettled'
    BY <1>1 DEF TypeOK, IntentDurable, RunTarget, RecoverySettled
  <1>5. IntentInMemory' /\ PublishedIsOwned'
    BY <1>1, <1>2 DEF IntentInMemory, PublishedIsOwned, archive, metadata
  <1>6. NamesSettled'
    BY <1>1, <1>2 DEF TypeOK, NamesSettled, archive
  <1>7. VerifiedSurvives'
    BY <1>1 DEF TypeOK, VerifiedSurvives, RunTarget, AddRecord, Adopt, archive
  <1>8. FreshUnused'
    BY <1>1, PublicationAssumption DEF PublicationAssumption, TypeOK, FreshUnused, AddRecord, Adopt, archive, metadata
  <1> QED BY <1>3, <1>4, <1>5, <1>6, <1>7, <1>8 DEF Ownership

\* Saves that take an intent away, or none: the copy has a record by then.
LEMMA SaveInv ==
  ASSUME IndInv, TypeOK', ClearIntent \/ Forget \/ OtherSave
  PROVE  Ownership'
  <1> USE DEF IndInv
  <1>1. UNCHANGED <<archive, catalog, fresh>> /\ pc # "down"
    BY DEF ClearIntent, Forget, OtherSave, Serving
  <1>2. ASSUME NEW a \in Artifacts, "ours" \in targetMay[a], catalog[a] = "none"
        PROVE  meta'[a] = "intent" /\ \A m \in diskMay' : m[a] = "intent"
    <2>1. meta[a] = "intent" /\ \A m \in diskMay : m[a] = "intent"
      BY <1>1, <1>2 DEF IntentInMemory, PublishedIsOwned
    <2>2. CASE ClearIntent \/ Forget
      <3>1. cur # a /\ cur \in Artifacts
        BY <1>2, <2>2 DEF TypeOK, ClearIntent, Forget, RunUncatalogued, RecoverySettled
      <3>2. [meta EXCEPT ![cur] = "none"][a] = "intent"
        BY <2>1, <3>1 DEF TypeOK, Metadata
      <3> QED BY <2>1, <2>2, <3>2 DEF ClearIntent, Forget, SaveMeta, SaveMetaRaises
    <2>3. CASE OtherSave
      BY <2>1, <2>3 DEF OtherSave, SaveMeta, SaveMetaRaises
    <2> QED BY <2>2, <2>3
  <1>3. IntentInMemory' /\ PublishedIsOwned'
    BY <1>1, <1>2 DEF IntentInMemory, PublishedIsOwned, archive
  <1>4. NamesSettled' /\ VerifiedSurvives'
    BY <1>1 DEF NamesSettled, VerifiedSurvives, archive
  <1>5. FreshUnused'
    BY <1>1, PublicationAssumption DEF PublicationAssumption, TypeOK, Metadata, FreshUnused, ClearIntent, Forget, Leave, OtherSave, SaveMeta, SaveMetaRaises, archive
  <1>6. CASE ClearIntent \/ Forget
    BY <1>1, <1>3, <1>4, <1>5, <1>6 DEF Ownership, RunUncatalogued, IntentDurable, RunTarget, RecoverySettled, RunPlaces,
         ClearIntent, Forget, Leave
  <1>7. CASE OtherSave
    <2>1. UNCHANGED <<pc, cur, meta>> /\ diskMay' \in {{meta}, diskMay, diskMay \union {meta}}
      BY <1>7 DEF OtherSave, SaveMeta, SaveMetaRaises
    <2>2. pc \in {"link", "sync", "unlink", "resync", "add"} => meta[cur] = "intent"
      BY DEF TypeOK, IntentInMemory, RunTarget, RunUncatalogued, RunPlaces
    <2>3. IntentDurable'
      BY <2>1, <2>2 DEF IntentDurable
    <2> QED BY <1>1, <1>3, <1>4, <1>5, <2>1, <2>3 DEF Ownership, RunUncatalogued, RunTarget, RecoverySettled, archive
  <1> QED BY <1>6, <1>7

\* Startup reads the intents and looks at the directory.
LEMMA StartupInv ==
  ASSUME IndInv, TypeOK', Restart \/ RecoveryFails \/ StartupDone \/ \E a \in Artifacts : Inspect(a)
  PROVE  Ownership'
  <1> USE DEF IndInv
  <1>1. UNCHANGED <<target, targetMay, disk, diskMay, catalog, fresh>> /\ pc' # "down"
    BY DEF Restart, RecoveryFails, StartupDone, Inspect, Leave, SetTmp, archive, metadata
  <1>2. pc' \in {"idle", "starting", "barrier", "adopt", "forget"}
    BY DEF Restart, RecoveryFails, StartupDone, Inspect, Leave
  <1>3. RunUncatalogued' /\ IntentDurable' /\ RunTarget'
    BY <1>2 DEF RunUncatalogued, IntentDurable, RunTarget, RunPlaces
  <1>4. NamesSettled' /\ VerifiedSurvives' /\ PublishedIsOwned'
    BY <1>1 DEF NamesSettled, VerifiedSurvives, PublishedIsOwned
  <1>5. IntentInMemory'
    <2>1. CASE Restart
      BY <1>1, <2>1 DEF TypeOK, Restart, IntentInMemory, PublishedIsOwned
    <2>2. CASE RecoveryFails \/ StartupDone \/ \E a \in Artifacts : Inspect(a)
      BY <1>1, <2>2 DEF RecoveryFails, StartupDone, Inspect, metadata, IntentInMemory
    <2> QED BY <2>1, <2>2
  <1>6. RecoverySettled'
    <2>1. CASE Restart \/ RecoveryFails \/ StartupDone
      BY <2>1 DEF Restart, RecoveryFails, StartupDone, Leave, RecoverySettled
    <2>2. ASSUME NEW a \in Artifacts, Inspect(a)
          PROVE  RecoverySettled'
      <3>1. /\ PublicationState(a) = "missing" => target[a] = "absent"
            /\ PublicationState(a) = "match" => target[a] = "ours"
            /\ PublicationState(a) = "linked" => target[a] # "foreign"
        <4>1. target[a] \in Files /\ tmp[a] \in {"absent", "ours"}
          BY DEF TypeOK, Files
        <4> QED BY <4>1 DEF PublicationState, Files
      <3> QED BY <1>1, <2>2, <3>1 DEF Inspect, Leave, RecoverySettled, NamesSettled
    <2> QED BY <2>1, <2>2
  <1>7. FreshUnused'
    BY <1>1, PublicationAssumption DEF PublicationAssumption, TypeOK, FreshUnused, Restart, RecoveryFails,
         StartupDone, Inspect, Leave, metadata
  <1> QED BY <1>3, <1>4, <1>5, <1>6, <1>7 DEF Ownership

\* The barrier at startup settles every name.
LEMMA BarrierInv ==
  ASSUME IndInv, TypeOK', RecoveryBarrier
  PROVE  Ownership'
  <1> USE DEF IndInv
  <1>1. /\ UNCHANGED <<target, metadata, catalog, fresh, cur, todo>> /\ pc' \in {"adopt", "forget"}
        /\ \A a \in Artifacts : targetMay'[a] = {target[a]} /\ target[a] \in targetMay[a]
    BY DEF TypeOK, RecoveryBarrier, SyncDir
  <1>2. FreshUnused' /\ RunUncatalogued' /\ IntentDurable' /\ RunTarget'
    BY <1>1 DEF FreshUnused, RunUncatalogued, IntentDurable, RunTarget, RunPlaces, metadata
  <1>3. IntentInMemory' /\ PublishedIsOwned'
    BY <1>1 DEF IntentInMemory, PublishedIsOwned, RecoveryBarrier, metadata
  <1>4. NamesSettled' /\ VerifiedSurvives'
    BY <1>1 DEF NamesSettled, VerifiedSurvives
  <1>5. RecoverySettled'
    BY <1>1 DEF TypeOK, RecoverySettled, RecoveryBarrier
  <1> QED BY <1>2, <1>3, <1>4, <1>5 DEF Ownership

\* A deleted archive has a tombstone; a replaced one keeps its intent.
LEMMA TargetInv ==
  ASSUME IndInv, TypeOK', NEW a \in Artifacts, Groom(a) \/ Replaced(a)
  PROVE  Ownership'
  <1> USE DEF IndInv
  <1>1. CASE Groom(a)
    <2>1. /\ UNCHANGED <<metadata, fresh, pc, cur, todo>> /\ pc = "idle"
          /\ target' = [target EXCEPT ![a] = "absent"]
          /\ targetMay' = [targetMay EXCEPT ![a] = @ \union {"absent"}]
          /\ catalog' = [catalog EXCEPT ![a] = "tombstone"] /\ catalog[a] # "none"
      BY <1>1 DEF Groom, SetTarget, Catalogued
    <2>2. NamesSettled' /\ VerifiedSurvives'
      BY <1>1, <2>1 DEF TypeOK, NamesSettled, VerifiedSurvives, Groom, Catalogued
    <2>3. IntentInMemory' /\ PublishedIsOwned'
      BY <2>1 DEF TypeOK, IntentInMemory, PublishedIsOwned, metadata
    <2> QED BY <2>1, <2>2, <2>3 DEF TypeOK, Ownership, FreshUnused, RunUncatalogued, IntentDurable, RunTarget,
              RecoverySettled, RunPlaces, metadata
  <1>2. CASE Replaced(a)
    <2>1. /\ UNCHANGED <<metadata, catalog, fresh, pc, cur, todo>> /\ pc = "down"
          /\ target' = [target EXCEPT ![a] = "foreign"]
          /\ targetMay' = [targetMay EXCEPT ![a] = @ \union {"foreign"}]
          /\ catalog[a] = "none" /\ disk[a] = "intent"
      BY <1>2 DEF Replaced, SetTarget
    <2>2. NamesSettled' /\ VerifiedSurvives'
      BY <2>1 DEF TypeOK, NamesSettled, VerifiedSurvives
    <2>3. PublishedIsOwned' /\ IntentInMemory'
      BY <2>1 DEF TypeOK, IntentInMemory, PublishedIsOwned, metadata
    <2>4. FreshUnused'
      <3>1. a \notin fresh
        BY <2>1 DEF TypeOK, FreshUnused
      <3> QED BY <2>1, <3>1 DEF TypeOK, FreshUnused, metadata
    <2> QED BY <2>1, <2>2, <2>3, <2>4 DEF Ownership, RunUncatalogued, IntentDurable, RunTarget, RecoverySettled, RunPlaces
  <1> QED BY <1>1, <1>2

\* A kill, and a power loss: any state the disks may then be in is good.
LEMMA OutageInv ==
  ASSUME IndInv, TypeOK', Kill \/ PowerLoss
  PROVE  Ownership'
  <1> USE DEF IndInv
  <1>1. /\ pc' = "down" /\ cur' = None /\ todo' = {} /\ meta' = NoIntents /\ UNCHANGED <<catalog, fresh>>
        /\ \A a \in Artifacts : targetMay'[a] \subseteq targetMay[a] /\ target'[a] \in targetMay[a]
        /\ \A a \in Artifacts : target'[a] = target[a] \/ targetMay'[a] = {target'[a]}
        /\ diskMay' \subseteq diskMay
    BY DEF TypeOK, Kill, PowerLoss, GoDown, archive
  <1>2. PublishedIsOwned'
    BY <1>1 DEF PublishedIsOwned
  <1>3. VerifiedSurvives'
    BY <1>1 DEF TypeOK, VerifiedSurvives
  <1>4. NamesSettled'
    BY <1>1 DEF TypeOK, NamesSettled
  <1>5. FreshUnused'
    <2>1. ASSUME NEW a \in fresh
          PROVE  target'[a] = "absent"
      BY <1>1, <2>1 DEF TypeOK, Files, FreshUnused, NamesSettled
    <2> QED BY <1>1, <2>1, PublicationAssumption DEF PublicationAssumption, TypeOK, FreshUnused, NoIntents
  <1> QED BY <1>1, <1>2, <1>3, <1>4, <1>5
          DEF Ownership, RunUncatalogued, IntentDurable, IntentInMemory, RunTarget, RecoverySettled, RunPlaces

\* Every step preserves the invariant.
LEMMA NextInv ==
  ASSUME IndInv, [Next]_vars
  PROVE  IndInv'
  <1>1. TypeOK'
    BY TypeStep DEF IndInv
  <1>2. Ownership'
    <2>1. CASE UNCHANGED vars
      BY <2>1 DEF IndInv, Ownership, FreshUnused, RunUncatalogued, IntentDurable, IntentInMemory, RunTarget,
           NamesSettled, RecoverySettled, PublishedIsOwned, VerifiedSurvives, vars, archive, metadata
    <2>2. CASE Run
      BY <1>1, <2>2, BeforeLinkInv, PublishInv, CatalogInv, SaveInv DEF Run
    <2>3. CASE Recovery
      BY <1>1, <2>3, StartupInv, BarrierInv, CatalogInv, SaveInv DEF Recovery
    <2>4. CASE OtherSave \/ Kill \/ PowerLoss
      BY <1>1, <2>4, SaveInv, OutageInv
    <2>5. CASE \E a \in Artifacts : Groom(a) \/ Replaced(a)
      BY <1>1, <2>5, TargetInv
    <2> QED BY <2>1, <2>2, <2>3, <2>4, <2>5 DEF Next
  <1> QED BY <1>1, <1>2 DEF IndInv, Ownership

\* The invariant always holds.
THEOREM Invariance == Spec => []IndInv
  <1>1. Init => IndInv
    BY InitInv
  <1>2. IndInv /\ [Next]_vars => IndInv'
    BY NextInv
  <1> QED BY <1>1, <1>2, PTL DEF Spec

\* The types of the archive directory, the metadata and the threads are kept.
THEOREM TypeCorrect == Spec => []TypeOK
  BY Invariance, PTL DEF IndInv

\* No archive is published and then forgotten: whatever a power loss leaves, the
\* catalog or an intent in artifact-meta.json knows it.
THEOREM OwnershipSafety == Spec => []PublishedIsOwned
  BY Invariance, PTL DEF IndInv

\* A copy its run catalogued as verified survives every power loss.
THEOREM DurabilitySafety == Spec => []VerifiedSurvives
  BY Invariance, PTL DEF IndInv

-----------------------------------------------------------------------------

\* Recovery never adopts a foreign file, and nothing removes one.
THEOREM ForeignSafety == Spec => ForeignUntouched
  <1>1. ASSUME IndInv, [Next]_vars, NEW a \in Artifacts, target[a] = "foreign"
        PROVE  catalog'[a] = catalog[a] /\ (target'[a] = "foreign" \/ pc' = "down")
    <2> USE <1>1 DEF IndInv
    <2>1. CASE AddRecord \/ Adopt
      BY <2>1 DEF TypeOK, AddRecord, Adopt, archive, RunTarget, RecoverySettled
    <2>2. CASE Link
      BY <2>2 DEF TypeOK, Link, SetTarget, RunTarget
    <2>3. ASSUME NEW b \in Artifacts, Groom(b) \/ Replaced(b)
          PROVE  catalog'[a] = catalog[a] /\ target'[a] = "foreign"
      BY <2>3 DEF TypeOK, Groom, Replaced, SetTarget, Catalogued, NamesSettled
    <2>4. CASE Kill \/ PowerLoss
      BY <2>4 DEF Kill, PowerLoss, GoDown
    <2>5. CASE UNCHANGED <<target, catalog>>
      BY <2>5
    <2>6. CASE Run
      BY <2>1, <2>2, <2>5, <2>6 DEF Run, StartRun, WriteTemporary, SaveIntent, FailsBeforeLink, Abort, SyncTarget,
           UnlinkTemporary, SyncUnlinked, FailsAfterLink, ClearIntent, archive
    <2>7. CASE Recovery
      <3>1. ASSUME NEW b \in Artifacts, Inspect(b)
            PROVE  UNCHANGED <<target, catalog>>
        BY <3>1 DEF Inspect, archive
      <3> QED BY <2>1, <2>5, <2>7, <3>1 DEF Recovery, Restart, RecoveryBarrier, Forget, RecoveryFails, StartupDone, archive
    <2>8. CASE OtherSave \/ UNCHANGED vars
      BY <2>5, <2>8 DEF OtherSave, archive, vars
    <2> QED BY <2>3, <2>4, <2>6, <2>7, <2>8 DEF Next
  <1>2. IndInv /\ [Next]_vars =>
          [\A a \in Artifacts : target[a] = "foreign" =>
              catalog'[a] = catalog[a] /\ (target'[a] = "foreign" \/ pc' = "down")]_vars
    BY <1>1
  <1> QED BY <1>2, Invariance, PTL DEF Spec, ForeignUntouched

\* As long as nothing fails, the intents startup has looked at and kept are those
\* of foreign files.
StartupProgress ==
    /\ since <= faults
    /\ pc \in StartupPlaces /\ faults = since =>
          \A a \in Artifacts \ todo : meta[a] = "intent" => target[a] = "foreign"

\* Every step preserves that.
LEMMA StartupProgressInv ==
  ASSUME IndInv, StartupProgress, [Next]_vars
  PROVE  StartupProgress'
  <1> USE DEF IndInv
  <1>1. CASE Restart
    BY <1>1 DEF TypeOK, Restart, StartupProgress
  <1>2. ASSUME NEW a \in Artifacts, Inspect(a)
        PROVE  StartupProgress'
    <2>1. UNCHANGED <<target, targetMay, metadata, faults, since>> /\ pc \in StartupPlaces
      BY <1>2 DEF Inspect, Leave, SetTmp, archive, StartupPlaces
    <2>2. todo' = todo \/ (todo' = todo \ {a} /\ PublicationState(a) = "mismatch")
      BY <1>2 DEF Inspect, Leave
    <2>3. PublicationState(a) = "mismatch" => target[a] = "foreign"
      <3>1. target[a] \in Files /\ tmp[a] \in {"absent", "ours"}
        BY DEF TypeOK, Files
      <3> QED BY <3>1 DEF PublicationState, Files
    <2> QED BY <2>1, <2>2, <2>3 DEF StartupProgress, metadata
  <1>3. CASE Forget
    BY <1>3 DEF TypeOK, Metadata, Forget, Leave, SaveMeta, SaveMetaRaises, Fault, StartupProgress, StartupPlaces, archive
  <1>4. CASE RecoveryBarrier \/ Adopt
    BY <1>4 DEF RecoveryBarrier, Adopt, StartupProgress, StartupPlaces, archive, metadata
  <1>5. CASE RecoveryFails
    BY <1>5 DEF TypeOK, RecoveryFails, Fault, StartupProgress
  <1>6. CASE StartupDone \/ Kill \/ PowerLoss
    BY <1>6 DEF TypeOK, StartupDone, Kill, PowerLoss, GoDown, Fault, StartupProgress, StartupPlaces
  <1>7. CASE Run \/ OtherSave
    <2>1. pc' \notin StartupPlaces /\ since' = since
      BY <1>7 DEF Run, StartRun, WriteTemporary, SaveIntent, Link, FailsBeforeLink, Abort, SyncTarget, UnlinkTemporary,
           SyncUnlinked, FailsAfterLink, AddRecord, ClearIntent, OtherSave, Serving, StartupPlaces
    <2>2. faults' = faults \/ faults' = faults + 1
      BY <1>7 DEF Run, StartRun, WriteTemporary, SaveIntent, Link, FailsBeforeLink, Abort, SyncTarget, UnlinkTemporary,
           SyncUnlinked, FailsAfterLink, AddRecord, ClearIntent, OtherSave, SaveMetaRaises, Fault
    <2> QED BY <2>1, <2>2 DEF TypeOK, StartupProgress
  <1>8. ASSUME NEW a \in Artifacts, Groom(a) \/ Replaced(a)
        PROVE  StartupProgress'
    BY <1>8 DEF TypeOK, Groom, Replaced, Fault, StartupProgress, StartupPlaces
  <1>9. CASE UNCHANGED vars
    BY <1>9 DEF StartupProgress, vars, archive, metadata
  <1> QED BY <1>1, <1>2, <1>3, <1>4, <1>5, <1>6, <1>7, <1>8, <1>9 DEF Next, Recovery

\* A startup without failures resolves every intent but those of foreign files.
THEOREM RecoverySafety == Spec => StartupResolves
  <1>1. Init => StartupProgress
    BY DEF Init, StartupProgress, StartupPlaces
  <1>2. IndInv /\ StartupProgress /\ [Next]_vars => StartupProgress'
    BY StartupProgressInv
  <1>3. Spec => []StartupProgress
    BY <1>1, <1>2, Invariance, PTL DEF Spec
  <1>4. ASSUME IndInv, StartupProgress, [Next]_vars, pc = "starting", pc' = "idle", faults = since
        PROVE  \A a \in Artifacts : meta[a] = "intent" => target[a] = "foreign"
    <2>1. todo = {}
      BY <1>4 DEF Next, Run, Recovery, StartRun, WriteTemporary, SaveIntent, Link, FailsBeforeLink, Abort, SyncTarget,
           UnlinkTemporary, SyncUnlinked, FailsAfterLink, AddRecord, ClearIntent, Restart, RecoveryBarrier, Adopt,
           Forget, RecoveryFails, StartupDone, Inspect, Leave, OtherSave, Serving, Kill, PowerLoss, GoDown, Groom,
           Replaced, vars
    <2> QED BY <1>4, <2>1 DEF StartupProgress, StartupPlaces
  <1>5. IndInv /\ StartupProgress /\ [Next]_vars =>
          [pc = "starting" /\ pc' = "idle" /\ faults = since =>
              \A a \in Artifacts : meta[a] = "intent" => target[a] = "foreign"]_vars
    BY <1>4
  <1> QED BY <1>3, <1>5, Invariance, PTL DEF Spec, StartupResolves
=============================================================================
