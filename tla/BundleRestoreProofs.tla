------------------------- MODULE BundleRestoreProofs ------------------------
(***************************************************************************)
(* Proofs about BundleRestore, for any number of groups, imports, rows and *)
(* faults, on a file system that keeps the order of changes of the two     *)
(* directories (Ordered).                                                  *)
(*                                                                         *)
(* With Ordered, what a power loss may leave is the pairs of directories   *)
(* there have been since the last sync, so the invariant speaks of each    *)
(* pair by itself (Good): without a journal it is one generation, and with *)
(* one recovery has what it needs (GoodJournal).  The rest says what the   *)
(* process with the lock knows in each part of the program: the journal on *)
(* the disk is that of the import (Matching), a target is as it was, is    *)
(* parked or is new, and an entry of the transaction that is to be undone  *)
(* has its original parked (Undoable).                                     *)
(***************************************************************************)
EXTENDS BundleRestore, TLAPS

\* A hot database and a tree of one generation.
Together(hot, tree) ==
    IF tree = Absent THEN hot = Absent \/ hot[1] = 0 ELSE hot # Absent /\ hot[1] = tree[1]

\* A hot database that something else has changed.
Changed(hot) == hot # Absent /\ hot[2] = Foreign

\* What recovery accepts of one directory: known files, and the original at hand.
Restorable(dir, old, new) == dir.live \in {Absent, old, new} /\ Available(dir, old)

\* Behind a journal: the originals are of one generation, every name holds what the journal knows
\* there, and either both candidates are live, or both originals at hand, or the hot database is
\* changed and recovery refuses it.
GoodJournal(h, s) ==
    /\ Together(h.journal.prior[1], h.journal.prior[2]) /\ h.journal.candidate[2] = 0
    /\ h.staged \in {Absent, h.journal.candidate} /\ h.previous \in {Absent, h.journal.prior[1]}
    /\ s.staged \in {Absent, Torn, h.journal.candidate} /\ s.previous \in {Absent, h.journal.prior[2]}
    /\ \/ CandidateLive(h, s)
       \/ /\ Restorable(h, h.journal.prior[1], h.journal.candidate)
          /\ Restorable(s, h.journal.prior[2], h.journal.candidate)
       \/ Changed(h.live)

\* A pair that a power loss may leave.
Good(h, s) ==
    /\ h \in HotDirs /\ s \in SegDirs
    /\ h.journal \in {Absent, Torn} => Together(h.live, s.live)
    /\ h.journal \notin {Absent, Torn} => GoodJournal(h, s)

\* Every pair that a power loss may leave is one of those.
PairsOK == <<hotDir, segDir>> \in may /\ \A m \in may : m = <<m[1], m[2]>> /\ Good(m[1], m[2])

\* The parts of an import: after its commit, while it is rolled back, and after the rollback.
Committed == {"retire", "syncRetired", "cleanup", "removeJournal", "syncRemoved"}
Undoing == {"rollback", "syncDisplaced", "restoreTarget", "syncRestored"}
Undone == {"unstaged", "unstageTree", "unstageRest", "unmark", "syncUnmarked", "reported"}
\* An import, and a recovery.
Importing == Staging \union Activating \union Committed \union Undoing \union Undone
Recovering == {"recRetire", "recSyncRetired", "recRemove", "recSyncRemoved", "recRestore", "recSyncRestored",
               "recStaged", "recSyncStaged", "recJournal", "recSyncJournal"}

\* What a group of the configuration may hold.
Generations == (0..MaxImports) \union {Absent}

\* The variables besides the directories.
VarsOK ==
    /\ config \in [Groups -> Generations] /\ parked \in [Groups -> Generations]
    /\ gen \in 0..MaxImports /\ bundle \subseteq Groups /\ k \in 0..LastTarget
    /\ mutated \subseteq Targets /\ marked \in BOOLEAN /\ failed \in BOOLEAN
    /\ result \in {"none", "ok", "failed", "incomplete"} /\ faults \in 0..MaxFaults
    /\ pc \in {"idle"} \union Importing \union Recovering
    /\ pc \notin Importing =>
          /\ mutated = {} /\ marked = FALSE /\ failed = FALSE /\ \A g \in Groups : parked[g] = Absent
    /\ pc \in Importing =>
          /\ prior[Hot] \in Originals /\ prior[Tree] \in Originals /\ Together(prior[Hot], prior[Tree])
          /\ \A g \in Groups : prior[g] \in Generations

\* The journal is the one of the import.
Matching ==
    /\ journal \in Journals /\ journal.candidate = Candidate
    /\ journal.prior[1] = prior[Hot] /\ journal.prior[2] = prior[Tree]

\* The history is as it was recorded, but for a change by something else.
HotKept ==
    \/ hotDir.live = prior[Hot]
    \/ hotDir.live \in Contents /\ prior[Hot] \in Contents /\ hotDir.live[1] = prior[Hot][1] /\ Changed(hotDir.live)
TreeKept == segDir.live = prior[Tree]

\* A target is parked, and it is replaced.
Parked(dir, old) == dir.live = Absent /\ dir.previous = old /\ dir.staged = Candidate
New(dir, old) == dir.live = Candidate /\ dir.previous = old

\* While candidates are staged, the history is as it was recorded, and the journal comes last.
StagingOK ==
    pc \in Staging =>
      /\ hotDir.live = prior[Hot] /\ TreeKept /\ hotDir.previous = Absent
      /\ mutated = {} /\ marked = FALSE /\ failed = FALSE
      /\ pc \in {"fill", "syncStaged"} => k \in {Hot, Tree}
      /\ pc \in {"fill", "syncStaged"} => hotDir.journal = Absent
      /\ pc = "fill" => Dir(k).staged = Torn
      /\ pc = "syncStaged" => Dir(k).staged = Candidate
      /\ pc \notin {"fill", "syncStaged"} \/ k = Tree => hotDir.staged = Candidate
      /\ pc \in {"fill", "syncStaged"} /\ k = Tree => segDir.previous = Absent
      /\ pc \in {"journal", "fillJournal"} => segDir.staged = Candidate /\ segDir.previous = Absent
      /\ pc \in {"stage", "journal"} \/ (pc \in {"fill", "syncStaged"} /\ k = Tree) =>
            \A m \in may : m[1].journal = Absent
      /\ pc = "fillJournal" =>
            /\ hotDir.journal = Torn
            /\ \A m \in may : m[1].journal = Absent \/ m = <<hotDir, segDir>>
      /\ pc = "syncJournal" => Matching

\* Under the journal: one target at a time is parked and replaced, the hot database first.
ActivatingOK ==
    pc \in Activating =>
      /\ Matching /\ marked = TRUE /\ failed = FALSE
      /\ pc \in {"park", "syncParked", "replace", "syncReplaced"} => k \in {Hot, Tree}
      /\ pc \in {"syncParked", "replace"} =>
            Parked(Dir(k), prior[k]) /\ (k \in mutated \/ prior[k] = Absent)
      /\ pc = "syncReplaced" => New(Dir(k), prior[k]) /\ k \in mutated
      /\ pc = "config" \/ (pc = "park" /\ k = Hot) => HotKept /\ Hot \notin mutated
      /\ pc = "settings" \/ (pc \in {"park", "syncParked", "replace", "syncReplaced"} /\ k = Tree) =>
            New(hotDir, prior[Hot]) /\ Hot \in mutated
      /\ pc \in {"config", "park"} \/ (pc \in {"syncParked", "replace", "syncReplaced"} /\ k = Hot) =>
            TreeKept /\ Tree \notin mutated
      /\ pc = "settings" => New(segDir, prior[Tree]) /\ Tree \in mutated

\* The groups: a changed one has its original parked until the commit.
GroupsOK ==
    /\ pc \in Staging => \A g \in Groups : config[g] = prior[g] /\ parked[g] = Absent
    /\ pc \in Activating =>
         \A g \in Groups :
            /\ g \notin mutated => config[g] = prior[g] /\ parked[g] = Absent
            /\ g \in mutated => parked[g] = prior[g] /\ config[g] \in {Absent, gen} /\ g \in bundle
    /\ pc \in Activating \ {"config"} => \A g \in bundle : config[g] = gen
    /\ pc \in Committed =>
         \A g \in Groups :
            /\ config[g] = IF g \in bundle THEN gen ELSE prior[g]
            /\ parked[g] # Absent => g \in mutated

\* After the commit both targets are new, and the journal is the last thing to go.
CommittedOK ==
    pc \in Committed =>
      /\ hotDir.live = Candidate /\ segDir.live = Candidate
      /\ pc \in {"retire", "syncRetired"} => k \in {Hot, Tree}
      /\ IF pc = "syncRemoved" THEN journal = Absent ELSE Matching

\* A target that the rollback has still to undo.
Undoable(dir, old) == dir.live \in {Absent, Candidate} /\ dir.previous = old

\* A rollback has undone the targets above k, but for those that failed; those below it can be undone.
UndoingOK ==
    pc \in Undoing =>
      /\ Matching \/ (journal = Absent /\ mutated = {})
      /\ pc # "rollback" => k \in mutated
      /\ Hot \notin mutated => HotKept
      /\ Tree \notin mutated => TreeKept
      /\ \A g \in Groups :
            /\ g \notin mutated => config[g] = prior[g] /\ parked[g] = Absent
            /\ g \in mutated /\ (g < k \/ (g = k /\ pc = "rollback")) => parked[g] = prior[g]
      /\ \A t \in mutated : t > k => failed
      /\ Hot \in mutated =>
            /\ Restorable(hotDir, prior[Hot], Candidate)
            /\ 1 < k \/ (1 = k /\ pc = "rollback") => Undoable(hotDir, prior[Hot])
      /\ Tree \in mutated =>
            /\ Restorable(segDir, prior[Tree], Candidate)
            /\ 2 < k \/ (2 = k /\ pc = "rollback") => Undoable(segDir, prior[Tree])
      /\ pc = "syncDisplaced" => k \in {Hot, Tree}
      /\ pc = "restoreTarget" => displaced \in IF k \in Groups THEN Generations ELSE {Absent, Candidate}
      /\ pc \in {"syncDisplaced", "restoreTarget"} =>
            IF k \in Groups THEN config[k] = Absent /\ parked[k] = prior[k]
            ELSE Dir(k).live = Absent /\ Dir(k).previous = prior[k]
      /\ pc = "syncDisplaced" => displaced \in {Absent, Candidate}
      /\ pc = "syncRestored" =>
            IF k \in Groups THEN config[k] = prior[k] /\ parked[k] = Absent
            ELSE Dir(k).live = prior[k]

\* After the rollback everything is as it was, durably so when that is reported.
UndoneOK ==
    pc \in Undone =>
      /\ Matching \/ journal = Absent
      /\ HotKept /\ TreeKept /\ mutated = {} /\ failed = FALSE
      /\ \A g \in Groups : config[g] = prior[g] /\ parked[g] = Absent
      /\ pc = "unstaged" => k \in {Hot, Tree}
      /\ pc = "reported" => may = {<<hotDir, segDir>>}

\* Recovery goes forward with both candidates live, or back with both originals at hand.
RecoveringOK ==
    pc \in Recovering \ {"recSyncJournal"} =>
      /\ journal \in Journals
      /\ pc # "recJournal" => k \in {Hot, Tree}
      /\ pc \in {"recRetire", "recSyncRetired"} => CandidateLive(hotDir, segDir)
      /\ pc \in {"recStaged", "recSyncStaged", "recJournal"} =>
            CandidateLive(hotDir, segDir) \/ (hotDir.live = Prior(1) /\ segDir.live = Prior(2))
      /\ pc \in {"recSyncRemoved", "recRestore"} =>
            Dir(k).live = Prior(k) \/ (Dir(k).live = Absent /\ Dir(k).previous = Prior(k))
      /\ pc = "recSyncRestored" => Dir(k).live = Prior(k)
      /\ pc \in {"recRemove", "recSyncRemoved", "recRestore", "recSyncRestored"} =>
            /\ Restorable(hotDir, Prior(1), journal.candidate) /\ Restorable(segDir, Prior(2), journal.candidate)
            /\ k = Tree => hotDir.live = Prior(1)

\* What the process knows at each of its places, and the inductive invariant.
PcOK == StagingOK /\ ActivatingOK /\ GroupsOK /\ CommittedOK /\ UndoingOK /\ UndoneOK /\ RecoveringOK
IndInv == PairsOK /\ VarsOK /\ PcOK

\* The current directories are a pair that a power loss may leave.
LEMMA Here ==
    ASSUME PairsOK
    PROVE  /\ Good(hotDir, segDir) /\ hotDir \in HotDirs /\ segDir \in SegDirs
<1>1. <<hotDir, segDir>> \in may /\ <<hotDir, segDir>>[1] = hotDir /\ <<hotDir, segDir>>[2] = segDir
  BY DEF PairsOK
<1> QED
  BY <1>1 DEF PairsOK, Good

\* A change adds the current pair to those a power loss may leave.
LEMMA Added ==
    ASSUME PairsOK, Good(hotDir', segDir'), may' = may \union {<<hotDir', segDir'>>}
    PROVE  PairsOK'
<1>1. ASSUME NEW m \in may'
      PROVE  m = <<m[1], m[2]>> /\ Good(m[1], m[2])
  <2>1. CASE m \in may
    BY <2>1 DEF PairsOK
  <2>2. CASE m = <<hotDir', segDir'>>
    <3>1. m[1] = hotDir' /\ m[2] = segDir'
      BY <2>2
    <3> QED
      BY <2>2, <3>1
  <2> QED
    BY <2>1, <2>2
<1> QED
  BY <1>1 DEF PairsOK

\* A commit or a sync leaves only the current pair.
LEMMA Only ==
    ASSUME Good(hotDir', segDir'), may' = {<<hotDir', segDir'>>}
    PROVE  PairsOK'
<1>1. ASSUME NEW m \in may'
      PROVE  m = <<m[1], m[2]>> /\ Good(m[1], m[2])
  <2>1. m[1] = hotDir' /\ m[2] = segDir'
    OBVIOUS
  <2> QED
    BY <2>1
<1> QED
  BY <1>1 DEF PairsOK

\* An fsync of the directory of the hot database.
LEMMA SyncedHot ==
    ASSUME Ordered, PairsOK, SyncHot
    PROVE  PairsOK' /\ hotDir' = hotDir /\ segDir' = segDir /\ may' = {<<hotDir, segDir>>}
BY Here, Only DEF SyncHot

\* An fsync of the directory of the segments.
LEMMA SyncedSeg ==
    ASSUME Ordered, PairsOK, SyncSeg
    PROVE  PairsOK' /\ hotDir' = hotDir /\ segDir' = segDir /\ may' = {<<hotDir, segDir>>}
BY Here, Only DEF SyncSeg

\* An fsync of the directory of the target.
LEMMA Synced ==
    ASSUME Ordered, PairsOK, Sync(k)
    PROVE  PairsOK' /\ hotDir' = hotDir /\ segDir' = segDir /\ may' = {<<hotDir, segDir>>}
BY SyncedHot, SyncedSeg DEF Sync

\* A step without a change of the directories.
LEMMA Still ==
    ASSUME PairsOK, UNCHANGED files
    PROVE  PairsOK' /\ hotDir' = hotDir /\ segDir' = segDir /\ may' = may
BY DEF PairsOK, files

\* The variables of a step that leaves the transaction as it is.
LEMMA StepVars ==
    ASSUME VarsOK, UNCHANGED <<settings, gen, transaction, faults>>, k' \in 0..LastTarget,
           \/ pc \in Importing /\ pc' \in Importing
           \/ pc \notin Importing /\ pc' \in {"idle"} \union Recovering
    PROVE  VarsOK'
<1>1. pc \notin Importing => pc' \notin Importing
  BY DEF Importing, Recovering, Staging, Activating, Committed, Undoing, Undone
<1> QED
  BY <1>1 DEF VarsOK, settings, transaction

\* What the process knows is about the part of the program it is in.
LEMMA StagingPlace ==
    ASSUME pc' \in Staging, StagingOK', GroupsOK'
    PROVE  PcOK'
BY DEF PcOK, StagingOK, ActivatingOK, CommittedOK, UndoingOK, UndoneOK, RecoveringOK,
       Staging, Activating, Committed, Undoing, Undone, Recovering

\* The same while the import activates,
LEMMA ActivatingPlace ==
    ASSUME pc' \in Activating, ActivatingOK', GroupsOK'
    PROVE  PcOK'
BY DEF PcOK, StagingOK, ActivatingOK, CommittedOK, UndoingOK, UndoneOK, RecoveringOK,
       Staging, Activating, Committed, Undoing, Undone, Recovering

\* after its commit,
LEMMA CommittedPlace ==
    ASSUME pc' \in Committed, CommittedOK', GroupsOK'
    PROVE  PcOK'
BY DEF PcOK, StagingOK, ActivatingOK, CommittedOK, UndoingOK, UndoneOK, RecoveringOK,
       Staging, Activating, Committed, Undoing, Undone, Recovering

\* while it rolls back,
LEMMA UndoingPlace ==
    ASSUME pc' \in Undoing, UndoingOK'
    PROVE  PcOK'
BY DEF PcOK, StagingOK, ActivatingOK, CommittedOK, UndoingOK, UndoneOK, RecoveringOK, GroupsOK,
       Staging, Activating, Committed, Undoing, Undone, Recovering

\* after its rollback,
LEMMA UndonePlace ==
    ASSUME pc' \in Undone, UndoneOK'
    PROVE  PcOK'
BY DEF PcOK, StagingOK, ActivatingOK, CommittedOK, UndoingOK, UndoneOK, RecoveringOK, GroupsOK,
       Staging, Activating, Committed, Undoing, Undone, Recovering

\* during recovery,
LEMMA RecoveringPlace ==
    ASSUME pc' \in Recovering, RecoveringOK'
    PROVE  PcOK'
BY DEF PcOK, StagingOK, ActivatingOK, CommittedOK, UndoingOK, UndoneOK, RecoveringOK, GroupsOK,
       Staging, Activating, Committed, Undoing, Undone, Recovering

\* and when no process has the lock.
LEMMA IdlePlace ==
    ASSUME pc' = "idle"
    PROVE  PcOK'
BY DEF PcOK, StagingOK, ActivatingOK, CommittedOK, UndoingOK, UndoneOK, RecoveringOK, GroupsOK,
       Staging, Activating, Committed, Undoing, Undone, Recovering

\* The process ends, and what it leaves is fit to be found.
LEMMA Ends ==
    ASSUME VarsOK, PairsOK', NEW r \in {"none", "ok", "failed", "incomplete"}, Stops(r),
           config' = config, gen' = gen, faults' \in 0..MaxFaults
    PROVE  IndInv'
<1>1. pc' = "idle" /\ k' = 0
  BY DEF Stops, Goto
<1>2. PcOK'
  BY <1>1, IdlePlace
<1>3. VarsOK'
  <2>1. parked' \in [Groups -> Generations] /\ \A g \in Groups : parked'[g] = Absent
    BY DEF Stops, Generations
  <2>2. pc' \notin Importing /\ 0 \in 0..LastTarget
    BY <1>1, RestoreAssumption DEF Importing, Staging, Activating, Committed, Undoing, Undone, LastTarget
  <2> QED
    BY <1>1, <2>1, <2>2 DEF VarsOK, Stops, Recovering
<1> QED
  BY <1>2, <1>3 DEF IndInv

\* A fault within the bound.
LEMMA FaultCount ==
    ASSUME VarsOK, Fault
    PROVE  faults' \in 0..MaxFaults
BY RestoreAssumption DEF VarsOK, Fault

(***************************************************************************)
(* The initial states, and writes.                                         *)
(***************************************************************************)

\* Before the first import there is one history, whole and without a journal.
LEMMA InitInv ==
    ASSUME Init
    PROVE  IndInv
<1>1. pc = "idle" /\ k = 0 /\ gen = 0 /\ faults = 0
  BY DEF Init
<1>2. PcOK
  BY <1>1 DEF PcOK, StagingOK, ActivatingOK, CommittedOK, UndoingOK, UndoneOK, RecoveringOK, GroupsOK,
              Staging, Activating, Committed, Undoing, Undone, Recovering
<1>3. VarsOK
  <2>1. pc \notin Importing
    BY <1>1 DEF Importing, Staging, Activating, Committed, Undoing, Undone
  <2>2. /\ config \in [Groups -> Generations] /\ parked \in [Groups -> Generations]
        /\ \A g \in Groups : parked[g] = Absent
    BY RestoreAssumption DEF Init, Generations
  <2>3. 0 \in 0..LastTarget /\ 0 \in 0..MaxImports /\ 0 \in 0..MaxFaults
    BY RestoreAssumption DEF LastTarget
  <2> QED
    BY <1>1, <2>1, <2>2, <2>3 DEF Init, VarsOK
<1>4. PairsOK
  <2>1. <<0, 0>> \in Contents /\ <<0, 0>>[1] = 0
    BY RestoreAssumption DEF Contents, Foreign
  <2>2. PICK hot \in {Absent, <<0, 0>>}, tree \in {Absent, <<0, 0>>} :
          /\ hot = Absent => tree = Absent
          /\ hotDir = [live |-> hot, staged |-> Absent, previous |-> Absent, journal |-> Absent]
          /\ segDir = [live |-> tree, staged |-> Absent, previous |-> Absent]
    BY DEF Init
  <2>3. hotDir \in HotDirs /\ segDir \in SegDirs /\ hotDir.journal = Absent
    BY <2>1, <2>2 DEF HotDirs, SegDirs, Originals
  <2>4. hotDir.live = hot /\ segDir.live = tree
    BY <2>2
  <2>5. Together(hotDir.live, segDir.live)
    BY <2>1, <2>2, <2>4 DEF Together
  <2>6. Good(hotDir, segDir)
    BY <2>3, <2>5 DEF Good
  <2>7. may = {<<hotDir, segDir>>}
    BY DEF Init
  <2>8. ASSUME NEW m \in may
        PROVE  Good(m[1], m[2])
    <3>1. m[1] = hotDir /\ m[2] = segDir
      BY <2>7
    <3> QED
      BY <2>6, <3>1
  <2> QED
    BY <2>7, <2>8 DEF PairsOK
<1> QED
  BY <1>2, <1>3, <1>4 DEF IndInv

\* A write adds a row to the hot database of the same generation.
LEMMA WriteInv ==
    ASSUME Ordered, IndInv, Write
    PROVE  IndInv'
<1>1. /\ pc = "idle" /\ pc' = "idle" /\ k' = k /\ hotDir.journal = Absent
      /\ UNCHANGED <<settings, gen, transaction, faults>>
  BY DEF Write, At, journal
<1>2. Good(hotDir, segDir) /\ hotDir \in HotDirs /\ segDir \in SegDirs
  BY Here DEF IndInv
<1> DEFINE hot == IF hotDir.live = Absent THEN <<0, 0>> ELSE hotDir.live
<1>3. hot[2] < MaxRows /\ CommitHot([live |-> <<hot[1], hot[2] + 1>>])
  BY DEF Write
<1>4. hot \in Contents
  BY <1>2, RestoreAssumption DEF HotDirs, Originals, Contents, Foreign
<1>5. hot[1] \in 0..MaxImports /\ hot[2] \in 0..Foreign
  BY <1>4 DEF Contents
<1>6. Together(hot, segDir.live)
  BY <1>1, <1>2 DEF Good, Together
<1> HIDE DEF hot
<1> DEFINE new == <<hot[1], hot[2] + 1>>
<1>7. new \in Contents /\ new[1] = hot[1]
  BY <1>3, <1>5, RestoreAssumption DEF Contents, Foreign
<1>8. CommitHot([live |-> new])
  BY <1>3
<1> HIDE DEF new
<1>9. /\ segDir' = segDir /\ may' = {<<hotDir', segDir'>>} /\ hotDir' \in HotDirs
      /\ hotDir'.live = new /\ hotDir'.journal = Absent
  BY <1>1, <1>2, <1>7, <1>8 DEF CommitHot, Put, HotDirs, Originals
<1>10. Together(new, segDir.live)
  BY <1>4, <1>6, <1>7, ContentsAssumption DEF Together
<1>11. PairsOK'
  <2>1. Good(hotDir', segDir')
    BY <1>2, <1>9, <1>10 DEF Good
  <2> QED
    BY <1>9, <2>1, Only
<1>12. VarsOK'
  BY <1>1, StepVars DEF IndInv, VarsOK, Importing, Staging, Activating, Committed, Undoing, Undone
<1> QED
  BY <1>1, <1>11, <1>12, IdlePlace DEF IndInv

(***************************************************************************)
(* Staging.                                                                *)
(***************************************************************************)

\* An import starts from one generation and records it.
LEMMA StartImportInv ==
    ASSUME Ordered, IndInv, StartImport
    PROVE  IndInv'
<1>1. /\ pc = "idle" /\ pc' = "fill" /\ k' = Hot /\ hotDir.journal = Absent /\ gen < MaxImports /\ gen' = gen + 1
      /\ bundle' \subseteq Groups /\ prior' = [t \in Targets |-> IF t \in Groups THEN config[t] ELSE Dir(t).live]
      /\ ChangeHot([staged |-> Torn, previous |-> Absent]) /\ result' = "none"
      /\ UNCHANGED <<config, parked, mutated, marked, displaced, failed, faults>>
  BY DEF StartImport, At, Goto, journal, settings
<1>2. Good(hotDir, segDir) /\ hotDir \in HotDirs /\ segDir \in SegDirs /\ VarsOK
  BY Here DEF IndInv
<1>3. /\ segDir' = segDir /\ may' = may \union {<<hotDir', segDir'>>} /\ hotDir' \in HotDirs
      /\ hotDir'.live = hotDir.live /\ hotDir'.staged = Torn /\ hotDir'.previous = Absent /\ hotDir'.journal = Absent
  BY <1>1, <1>2 DEF ChangeHot, Put, HotDirs, Originals
<1>4. pc \notin Importing
  BY <1>1 DEF Importing, Staging, Activating, Committed, Undoing, Undone
<1>5. /\ prior'[Hot] = hotDir.live /\ prior'[Tree] = segDir.live /\ \A g \in Groups : prior'[g] = config[g]
  BY <1>1 DEF Targets, Groups, Hot, Tree, Dir
<1>6. /\ mutated' = {} /\ marked' = FALSE /\ failed' = FALSE /\ \A g \in Groups : parked'[g] = Absent
  BY <1>1, <1>2, <1>4 DEF VarsOK
<1>7. Together(hotDir.live, segDir.live)
  BY <1>1, <1>2 DEF Good
<1>8. Good(hotDir', segDir')
  BY <1>2, <1>3, <1>7 DEF Good
<1>9. PairsOK'
  BY <1>3, <1>8, Added DEF IndInv
<1>10. VarsOK'
  <2>1. k' \in 0..LastTarget /\ gen' \in 0..MaxImports
    BY <1>1, <1>2, RestoreAssumption DEF VarsOK, LastTarget, Hot
  <2>2. prior'[Hot] \in Originals /\ prior'[Tree] \in Originals
    BY <1>2, <1>5 DEF HotDirs, SegDirs
  <2>3. pc' \in Importing
    BY <1>1 DEF Importing, Staging
  <2> QED
    BY <1>1, <1>2, <1>5, <1>6, <1>7, <2>1, <2>2, <2>3 DEF VarsOK
<1>11. StagingOK'
  <2>1. k' # Tree /\ Dir(k)' = hotDir'
    BY <1>1 DEF Dir, Hot, Tree
  <2> QED
    BY <1>1, <1>3, <1>5, <1>6, <2>1 DEF StagingOK, TreeKept
<1>12. GroupsOK'
  BY <1>1, <1>5, <1>6 DEF GroupsOK, Activating, Committed
<1> QED
  BY <1>1, <1>9, <1>10, <1>11, <1>12, StagingPlace DEF IndInv, Staging

(***************************************************************************)
(* The candidates and the journal.                                         *)
(***************************************************************************)

\* The groups, when a step only changes or syncs the directories.
LEMMA SameGroups ==
    ASSUME GroupsOK, UNCHANGED <<settings, gen, transaction, faults>>,
           \/ pc \in Staging /\ pc' \in Staging
           \/ pc \in Activating \ {"config"} /\ pc' \in Activating \ {"config"}
           \/ pc \in Committed /\ pc' \in Committed
    PROVE  GroupsOK'
<1>1. CASE pc \in Staging /\ pc' \in Staging
  BY <1>1 DEF GroupsOK, settings, transaction, Staging, Activating, Committed
<1>2. CASE pc \in Activating \ {"config"} /\ pc' \in Activating \ {"config"}
  BY <1>2 DEF GroupsOK, settings, transaction, Staging, Activating, Committed
<1>3. CASE pc \in Committed /\ pc' \in Committed
  BY <1>3 DEF GroupsOK, settings, transaction, Staging, Activating, Committed
<1> QED
  BY <1>1, <1>2, <1>3

\* The numbers of the targets.
LEMMA Numbers ==
    /\ Hot \in 0..LastTarget /\ Tree \in 0..LastTarget /\ 0 \in 0..LastTarget
    /\ Hot # Tree /\ Hot \notin Groups /\ Tree \notin Groups
    /\ \A t \in Targets : t \in 1..LastTarget
BY RestoreAssumption DEF Hot, Tree, LastTarget, Groups, Targets

\* A candidate is content of a file, and has no rows of its own yet.
LEMMA CandidateContent ==
    ASSUME VarsOK
    PROVE  Candidate \in Contents /\ Candidate[2] = 0 /\ Candidate # Absent /\ Candidate # Torn
<1>1. Candidate \in Contents /\ Candidate[2] = 0
  BY RestoreAssumption DEF VarsOK, Candidate, Contents, Foreign
<1> QED
  BY <1>1, ContentsAssumption

\* The tree is staged once the hot candidate is durable.
LEMMA StageTreeInv ==
    ASSUME Ordered, IndInv, StageTree
    PROVE  IndInv'
<1>1. /\ pc = "stage" /\ pc' = "fill" /\ k' = Tree /\ ChangeSeg([staged |-> Torn, previous |-> Absent])
      /\ UNCHANGED <<settings, gen, transaction, faults>>
  BY DEF StageTree, Step, At, Goto
<1>2. Good(hotDir, segDir) /\ hotDir \in HotDirs /\ segDir \in SegDirs /\ VarsOK /\ PairsOK
  BY Here DEF IndInv
<1>3. /\ hotDir' = hotDir /\ may' = may \union {<<hotDir', segDir'>>} /\ segDir' \in SegDirs
      /\ segDir'.live = segDir.live /\ segDir'.staged = Torn /\ segDir'.previous = Absent
  BY <1>1, <1>2 DEF ChangeSeg, Put, SegDirs, Originals
<1>4. /\ hotDir.live = prior[Hot] /\ TreeKept /\ hotDir.previous = Absent /\ hotDir.staged = Candidate
      /\ mutated = {} /\ marked = FALSE /\ failed = FALSE /\ \A m \in may : m[1].journal = Absent
  BY <1>1 DEF IndInv, PcOK, StagingOK, Staging
<1>5. hotDir.journal = Absent
  <2>1. <<hotDir, segDir>> \in may /\ <<hotDir, segDir>>[1] = hotDir
    BY <1>2 DEF PairsOK
  <2> QED
    BY <1>4, <2>1
<1>6. PairsOK'
  <2>1. Good(hotDir', segDir')
    BY <1>2, <1>3, <1>5 DEF Good
  <2> QED
    BY <1>2, <1>3, <2>1, Added
<1>7. VarsOK'
  BY <1>1, <1>2, Numbers, StepVars DEF Importing, Staging
<1>8. StagingOK'
  <2>1. Dir(k)' = segDir' /\ Candidate' = Candidate
    BY <1>1 DEF Dir, Hot, Tree, Candidate
  <2>2. \A m \in may' : m[1].journal = Absent
    BY <1>3, <1>4, <1>5
  <2> QED
    BY <1>1, <1>3, <1>4, <1>5, <2>1, <2>2 DEF StagingOK, TreeKept, transaction
<1>9. GroupsOK'
  BY <1>1, SameGroups DEF IndInv, PcOK, Staging
<1> QED
  BY <1>1, <1>6, <1>7, <1>8, <1>9, StagingPlace DEF IndInv, Staging

\* A candidate is complete; without a journal nobody looks at it.
LEMMA FillInv ==
    ASSUME Ordered, IndInv, Fill
    PROVE  IndInv'
<1>1. /\ pc = "fill" /\ pc' = "syncStaged" /\ k' = k /\ Complete(k, "staged", Candidate)
      /\ UNCHANGED <<settings, gen, transaction, faults>>
  BY DEF Fill, Step, At, Goto
<1>2. Good(hotDir, segDir) /\ hotDir \in HotDirs /\ segDir \in SegDirs /\ VarsOK /\ PairsOK
  BY Here DEF IndInv
<1>3. /\ hotDir.live = prior[Hot] /\ TreeKept /\ hotDir.previous = Absent /\ hotDir.journal = Absent
      /\ mutated = {} /\ marked = FALSE /\ failed = FALSE /\ k \in {Hot, Tree} /\ Dir(k).staged = Torn
  BY <1>1 DEF IndInv, PcOK, StagingOK, Staging
<1>4. Candidate \in Contents /\ Candidate' = Candidate
  BY <1>1, <1>2, CandidateContent DEF Candidate
<1>5. VarsOK'
  BY <1>1, <1>2, StepVars DEF Importing, Staging, VarsOK
<1>6. GroupsOK'
  BY <1>1, SameGroups DEF IndInv, PcOK, Staging
<1>7. CASE k = Hot
  <2>1. /\ hotDir' = Completed(hotDir, "staged", Candidate) /\ segDir' = segDir
        /\ may' = {<<Completed(m[1], "staged", Candidate), m[2]>> : m \in may}
    BY <1>1, <1>7 DEF Complete, CompleteHot
  <2>2. /\ hotDir'.live = hotDir.live /\ hotDir'.staged = Candidate /\ hotDir'.previous = hotDir.previous
        /\ hotDir'.journal = hotDir.journal
    BY <1>2, <1>3, <1>7, <2>1 DEF Completed, HotDirs, Dir
  <2>3. ASSUME NEW h \in HotDirs, NEW s, Good(h, s)
        PROVE  Good(Completed(h, "staged", Candidate), s)
    <3>1. CASE h.staged # Torn
      BY <2>3, <3>1 DEF Completed
    <3>2. CASE h.staged = Torn
      <4>1. h.journal \in {Absent, Torn}
        <5>1. h.journal \in Journals => h.journal.candidate # Torn
          BY ContentsAssumption DEF Journals
        <5> QED
          BY <2>3, <3>2, <5>1, DirectoriesAssumption DEF Good, GoodJournal, HotDirs
      <4>2. /\ Completed(h, "staged", Candidate) \in HotDirs
            /\ Completed(h, "staged", Candidate).live = h.live
            /\ Completed(h, "staged", Candidate).journal = h.journal
        BY <1>4, <3>2 DEF Completed, HotDirs, Originals
      <4> QED
        BY <2>3, <4>1, <4>2 DEF Good
    <3> QED
      BY <3>1, <3>2
  <2>4. PairsOK'
    <3>1. ASSUME NEW n \in may'
          PROVE  n = <<n[1], n[2]>> /\ Good(n[1], n[2])
      <4>1. PICK m \in may : n = <<Completed(m[1], "staged", Candidate), m[2]>>
        BY <2>1
      <4>2. Good(m[1], m[2]) /\ m[1] \in HotDirs
        BY <1>2 DEF PairsOK, Good
      <4> QED
        BY <2>3, <4>1, <4>2
    <3>2. <<hotDir', segDir'>> \in may'
      <4>1. <<hotDir, segDir>> \in may /\ <<hotDir, segDir>>[1] = hotDir /\ <<hotDir, segDir>>[2] = segDir
        BY <1>2 DEF PairsOK
      <4> QED
        BY <2>1, <4>1
    <3> QED
      BY <3>1, <3>2 DEF PairsOK
  <2>5. StagingOK'
    <3>1. Dir(k)' = hotDir' /\ k # Tree
      BY <1>1, <1>7 DEF Dir, Hot, Tree
    <3> QED
      BY <1>1, <1>3, <1>4, <1>7, <2>1, <2>2, <3>1 DEF StagingOK, TreeKept, transaction
  <2> QED
    BY <1>1, <1>5, <1>6, <2>4, <2>5, StagingPlace DEF IndInv, Staging
<1>8. CASE k = Tree
  <2>1. /\ segDir' = Completed(segDir, "staged", Candidate) /\ hotDir' = hotDir
        /\ may' = {<<m[1], Completed(m[2], "staged", Candidate)>> : m \in may}
    BY <1>1, <1>8 DEF Complete, CompleteSeg, Hot, Tree
  <2>2. segDir'.live = segDir.live /\ segDir'.staged = Candidate /\ segDir'.previous = segDir.previous
    BY <1>2, <1>3, <1>8, <2>1 DEF Completed, SegDirs, Dir, Hot, Tree
  <2>3. /\ hotDir.staged = Candidate /\ segDir.previous = Absent
        /\ \A m \in may : m[1].journal = Absent
    BY <1>1, <1>8 DEF IndInv, PcOK, StagingOK, Staging
  <2>4. ASSUME NEW h, NEW s \in SegDirs, Good(h, s), h.journal = Absent
        PROVE  Good(h, Completed(s, "staged", Candidate))
    <3>1. Completed(s, "staged", Candidate) \in SegDirs /\ Completed(s, "staged", Candidate).live = s.live
      BY <1>4 DEF Completed, SegDirs, Originals
    <3> QED
      BY <2>4, <3>1 DEF Good
  <2>5. \A n \in may' : n = <<n[1], n[2]>> /\ Good(n[1], n[2]) /\ n[1].journal = Absent
    <3>1. ASSUME NEW n \in may'
          PROVE  n = <<n[1], n[2]>> /\ Good(n[1], n[2]) /\ n[1].journal = Absent
      <4>1. PICK m \in may : n = <<m[1], Completed(m[2], "staged", Candidate)>>
        BY <2>1
      <4>2. Good(m[1], m[2]) /\ m[2] \in SegDirs /\ m[1].journal = Absent
        BY <1>2, <2>3 DEF PairsOK, Good
      <4> QED
        BY <2>4, <4>1, <4>2
    <3> QED
      BY <3>1
  <2>6. PairsOK'
    <3>1. <<hotDir', segDir'>> \in may'
      <4>1. <<hotDir, segDir>> \in may /\ <<hotDir, segDir>>[1] = hotDir /\ <<hotDir, segDir>>[2] = segDir
        BY <1>2 DEF PairsOK
      <4> QED
        BY <2>1, <4>1
    <3> QED
      BY <2>5, <3>1 DEF PairsOK
  <2>7. StagingOK'
    <3>1. Dir(k)' = segDir'
      BY <1>1, <1>8 DEF Dir, Hot, Tree
    <3> QED
      BY <1>1, <1>3, <1>4, <1>8, <2>1, <2>2, <2>3, <2>5, <3>1 DEF StagingOK, TreeKept, transaction
  <2> QED
    BY <1>1, <1>5, <1>6, <2>6, <2>7, StagingPlace DEF IndInv, Staging
<1> QED
  BY <1>3, <1>7, <1>8

\* A staged candidate is durable.
LEMMA SyncStagedInv ==
    ASSUME Ordered, IndInv, SyncStaged
    PROVE  IndInv'
<1>1. /\ pc = "syncStaged" /\ pc' = (IF k = Hot THEN "stage" ELSE "journal") /\ k' = k /\ Sync(k)
      /\ UNCHANGED <<settings, gen, transaction, faults>>
  BY DEF SyncStaged, Step, At, Goto
<1>2. VarsOK /\ PairsOK' /\ hotDir' = hotDir /\ segDir' = segDir /\ may' = {<<hotDir, segDir>>}
  BY <1>1, Synced DEF IndInv
<1>3. /\ hotDir.live = prior[Hot] /\ TreeKept /\ hotDir.previous = Absent /\ hotDir.journal = Absent
      /\ mutated = {} /\ marked = FALSE /\ failed = FALSE /\ k \in {Hot, Tree} /\ Dir(k).staged = Candidate
      /\ k = Tree => hotDir.staged = Candidate /\ segDir.previous = Absent
  BY <1>1 DEF IndInv, PcOK, StagingOK, Staging
<1>4. VarsOK'
  BY <1>1, <1>2, StepVars DEF Importing, Staging, VarsOK
<1>5. GroupsOK'
  BY <1>1, SameGroups DEF IndInv, PcOK, Staging
<1>6. StagingOK'
  <2>1. Candidate' = Candidate /\ hotDir.staged = Candidate /\ (k = Tree => segDir.staged = Candidate)
    BY <1>1, <1>3 DEF Candidate, Dir, Hot, Tree
  <2>2. \A m \in may' : m[1].journal = Absent
    BY <1>2, <1>3
  <2> QED
    BY <1>1, <1>2, <1>3, <2>1, <2>2 DEF StagingOK, TreeKept, transaction, Hot, Tree
<1> QED
  BY <1>1, <1>2, <1>4, <1>5, <1>6, StagingPlace DEF IndInv, Staging

\* The journal appears, not yet written: a pair with it is a whole generation.
LEMMA CreateJournalInv ==
    ASSUME Ordered, IndInv, CreateJournal
    PROVE  IndInv'
<1>1. /\ pc = "journal" /\ pc' = "fillJournal" /\ k' = 0 /\ ChangeHot([journal |-> Torn])
      /\ UNCHANGED <<settings, gen, transaction, faults>>
  BY DEF CreateJournal, Step, At, Goto
<1>2. Good(hotDir, segDir) /\ hotDir \in HotDirs /\ segDir \in SegDirs /\ VarsOK /\ PairsOK
  BY Here DEF IndInv
<1>3. /\ segDir' = segDir /\ may' = may \union {<<hotDir', segDir'>>} /\ hotDir' \in HotDirs
      /\ hotDir'.live = hotDir.live /\ hotDir'.staged = hotDir.staged /\ hotDir'.previous = hotDir.previous
      /\ hotDir'.journal = Torn
  BY <1>1, <1>2 DEF ChangeHot, Put, HotDirs
<1>4. /\ hotDir.live = prior[Hot] /\ TreeKept /\ hotDir.previous = Absent /\ hotDir.staged = Candidate
      /\ mutated = {} /\ marked = FALSE /\ failed = FALSE /\ \A m \in may : m[1].journal = Absent
      /\ segDir.staged = Candidate /\ segDir.previous = Absent
  BY <1>1 DEF IndInv, PcOK, StagingOK, Staging
<1>5. hotDir.journal = Absent
  <2>1. <<hotDir, segDir>> \in may /\ <<hotDir, segDir>>[1] = hotDir
    BY <1>2 DEF PairsOK
  <2> QED
    BY <1>4, <2>1
<1>6. PairsOK'
  <2>1. Good(hotDir', segDir')
    BY <1>2, <1>3, <1>5 DEF Good
  <2> QED
    BY <1>2, <1>3, <2>1, Added
<1>7. VarsOK'
  BY <1>1, <1>2, Numbers, StepVars DEF Importing, Staging
<1>8. StagingOK'
  <2>1. Candidate' = Candidate
    BY <1>1 DEF Candidate
  <2>2. \A m \in may' : m[1].journal = Absent \/ m = <<hotDir', segDir'>>
    BY <1>3, <1>4
  <2> QED
    BY <1>1, <1>3, <1>4, <2>1, <2>2 DEF StagingOK, TreeKept, transaction
<1>9. GroupsOK'
  BY <1>1, SameGroups DEF IndInv, PcOK, Staging
<1> QED
  BY <1>1, <1>6, <1>7, <1>8, <1>9, StagingPlace DEF IndInv, Staging

\* The journal is complete, in the one pair that has it: both originals are live and both
\* candidates staged.
LEMMA FillJournalInv ==
    ASSUME Ordered, IndInv, FillJournal
    PROVE  IndInv'
<1> DEFINE new == [prior |-> <<prior[Hot], prior[Tree]>>, candidate |-> Candidate]
<1>1. /\ pc = "fillJournal" /\ pc' = "syncJournal" /\ k' = 0 /\ CompleteHot("journal", new)
      /\ UNCHANGED <<settings, gen, transaction, faults>>
  BY DEF FillJournal, Step, At, Goto
<1>2. Good(hotDir, segDir) /\ hotDir \in HotDirs /\ segDir \in SegDirs /\ VarsOK /\ PairsOK
  BY Here DEF IndInv
<1>3. /\ hotDir.live = prior[Hot] /\ TreeKept /\ hotDir.previous = Absent /\ hotDir.staged = Candidate
      /\ mutated = {} /\ marked = FALSE /\ failed = FALSE /\ hotDir.journal = Torn
      /\ segDir.staged = Candidate /\ segDir.previous = Absent
      /\ \A m \in may : m[1].journal = Absent \/ m = <<hotDir, segDir>>
  BY <1>1 DEF IndInv, PcOK, StagingOK, Staging
<1>4. prior[Hot] \in Originals /\ prior[Tree] \in Originals /\ Together(prior[Hot], prior[Tree])
  BY <1>1, <1>2 DEF VarsOK, Importing, Staging
<1>5. Candidate \in Contents /\ Candidate[2] = 0 /\ Candidate' = Candidate
  BY <1>1, <1>2, CandidateContent DEF Candidate
<1>6. /\ new \in Journals /\ new.prior[1] = prior[Hot] /\ new.prior[2] = prior[Tree] /\ new.candidate = Candidate
  BY <1>4, <1>5 DEF Journals
<1> HIDE DEF new
<1>7. /\ hotDir' = Completed(hotDir, "journal", new) /\ segDir' = segDir
      /\ may' = {<<Completed(m[1], "journal", new), m[2]>> : m \in may}
  BY <1>1 DEF CompleteHot
<1>8. /\ hotDir'.live = hotDir.live /\ hotDir'.staged = hotDir.staged /\ hotDir'.previous = hotDir.previous
      /\ hotDir'.journal = new /\ hotDir' \in HotDirs
  BY <1>2, <1>3, <1>6, <1>7 DEF Completed, HotDirs
<1>9. new \notin {Absent, Torn}
  BY <1>6, ContentsAssumption
<1>10. Good(hotDir', segDir')
  BY <1>2, <1>3, <1>4, <1>5, <1>6, <1>7, <1>8, <1>9 DEF Good, GoodJournal, Restorable, Available, TreeKept
<1>11. PairsOK'
  <2>1. ASSUME NEW n \in may'
        PROVE  n = <<n[1], n[2]>> /\ Good(n[1], n[2])
    <3>1. PICK m \in may : n = <<Completed(m[1], "journal", new), m[2]>>
      BY <1>7
    <3>2. CASE m[1].journal = Absent
      <4>1. Completed(m[1], "journal", new) = m[1]
        BY <3>2, DirectoriesAssumption DEF Completed
      <4> QED
        BY <1>2, <3>1, <4>1 DEF PairsOK
    <3>3. CASE m = <<hotDir, segDir>>
      BY <1>7, <1>10, <3>1, <3>3
    <3> QED
      BY <1>3, <3>2, <3>3
  <2>2. <<hotDir', segDir'>> \in may'
    <3>1. <<hotDir, segDir>> \in may /\ <<hotDir, segDir>>[1] = hotDir /\ <<hotDir, segDir>>[2] = segDir
      BY <1>2 DEF PairsOK
    <3> QED
      BY <1>7, <3>1
  <2> QED
    BY <2>1, <2>2 DEF PairsOK
<1>12. VarsOK'
  BY <1>1, <1>2, Numbers, StepVars DEF Importing, Staging
<1>13. StagingOK'
  <2>1. Matching'
    BY <1>1, <1>5, <1>6, <1>8 DEF Matching, journal, transaction
  <2> QED
    BY <1>1, <1>3, <1>5, <1>7, <1>8, <2>1 DEF StagingOK, TreeKept, transaction
<1>14. GroupsOK'
  BY <1>1, SameGroups DEF IndInv, PcOK, Staging
<1> QED
  BY <1>1, <1>11, <1>12, <1>13, <1>14, StagingPlace DEF IndInv, Staging

\* The journal is durable, and the import knows of it.
LEMMA SyncJournalInv ==
    ASSUME Ordered, IndInv, SyncJournal
    PROVE  IndInv'
<1>1. /\ pc = "syncJournal" /\ pc' = "config" /\ k' = 0 /\ marked' = TRUE /\ SyncHot
      /\ UNCHANGED <<settings, gen, bundle, prior, mutated, displaced, failed, result, faults>>
  BY DEF SyncJournal, At, Goto
<1>2. VarsOK /\ PairsOK' /\ hotDir' = hotDir /\ segDir' = segDir
  BY <1>1, SyncedHot DEF IndInv
<1>3. /\ hotDir.live = prior[Hot] /\ TreeKept /\ mutated = {} /\ failed = FALSE /\ Matching
      /\ \A g \in Groups : config[g] = prior[g] /\ parked[g] = Absent
  BY <1>1 DEF IndInv, PcOK, StagingOK, GroupsOK, Staging
<1>4. VarsOK'
  BY <1>1, <1>2, Numbers DEF VarsOK, Importing, Staging, Activating, settings
<1>5. ActivatingOK'
  <2>1. Matching' /\ HotKept' /\ TreeKept'
    BY <1>1, <1>2, <1>3 DEF Matching, HotKept, TreeKept, journal, Candidate
  <2> QED
    BY <1>1, <1>3, <2>1 DEF ActivatingOK
<1>6. GroupsOK'
  BY <1>1, <1>3 DEF GroupsOK, Staging, Committed, settings
<1> QED
  BY <1>1, <1>2, <1>4, <1>5, <1>6, ActivatingPlace DEF IndInv, Activating

(***************************************************************************)
(* Activation and commit.                                                  *)
(***************************************************************************)

\* Behind the journal of the import, recovery accepts a pair whose targets are restorable.
LEMMA GoodPair ==
    ASSUME VarsOK, pc \in Importing, NEW h \in HotDirs, NEW s \in SegDirs,
           h.journal \in Journals, h.journal.candidate = Candidate,
           h.journal.prior[1] = prior[Hot], h.journal.prior[2] = prior[Tree],
           h.staged \in {Absent, Candidate}, h.previous \in {Absent, prior[Hot]},
           s.staged \in {Absent, Torn, Candidate}, s.previous \in {Absent, prior[Tree]},
           \/ h.live = Candidate /\ s.live = Candidate
           \/ Restorable(h, prior[Hot], Candidate) /\ Restorable(s, prior[Tree], Candidate)
           \/ Changed(h.live)
    PROVE  Good(h, s)
<1>1. h.journal \notin {Absent, Torn}
  BY ContentsAssumption
<1>2. Together(prior[Hot], prior[Tree]) /\ Candidate[2] = 0
  BY CandidateContent DEF VarsOK
<1> QED
  BY <1>1, <1>2 DEF Good, GoodJournal, CandidateLive

\* What the journal of the import says of the other names.
LEMMA Leftovers ==
    ASSUME PairsOK, Matching
    PROVE  /\ hotDir \in HotDirs /\ segDir \in SegDirs
           /\ hotDir.staged \in {Absent, Candidate} /\ hotDir.previous \in {Absent, prior[Hot]}
           /\ segDir.staged \in {Absent, Torn, Candidate} /\ segDir.previous \in {Absent, prior[Tree]}
           /\ hotDir.journal \in Journals /\ hotDir.journal.candidate = Candidate
           /\ hotDir.journal.prior[1] = prior[Hot] /\ hotDir.journal.prior[2] = prior[Tree]
<1>1. Good(hotDir, segDir) /\ hotDir \in HotDirs /\ segDir \in SegDirs
  BY Here
<1>2. hotDir.journal \notin {Absent, Torn}
  BY ContentsAssumption DEF Matching, journal
<1> QED
  BY <1>1, <1>2 DEF Good, GoodJournal, Matching, journal

\* A group that is parked is recorded as changed, with its original.
LEMMA ParkConfigInv ==
    ASSUME Ordered, IndInv, ParkConfig
    PROVE  IndInv'
<1>1. PICK g \in Groups :
        /\ NextGroup(g) /\ config[g] # Absent
        /\ parked' = [parked EXCEPT ![g] = config[g]] /\ config' = [config EXCEPT ![g] = Absent]
        /\ mutated' = mutated \union {g}
  BY DEF ParkConfig
<1>2. /\ pc = "config" /\ pc' = pc /\ k' = k
      /\ UNCHANGED <<files, gen, bundle, prior, marked, displaced, failed, result, faults>>
  BY DEF ParkConfig, At
<1>3. VarsOK /\ PairsOK /\ ActivatingOK /\ GroupsOK
  BY DEF IndInv, PcOK
<1>4. PairsOK' /\ hotDir' = hotDir /\ segDir' = segDir
  BY <1>2, <1>3, Still
<1>5. g \in bundle /\ config[g] # gen
  BY <1>1 DEF NextGroup, Remaining
<1>6. g \notin mutated
  BY <1>1, <1>2, <1>3, <1>5 DEF GroupsOK, Activating
<1>7. /\ config' \in [Groups -> Generations] /\ parked' \in [Groups -> Generations]
      /\ \A x \in Groups : x # g => config'[x] = config[x] /\ parked'[x] = parked[x]
      /\ config'[g] = Absent /\ parked'[g] = config[g]
  BY <1>1, <1>3 DEF VarsOK, Generations
<1>8. VarsOK'
  <2>1. mutated' \subseteq Targets
    BY <1>1, <1>3 DEF VarsOK, Targets
  <2>2. pc \in Importing /\ pc' \in Importing
    BY <1>2 DEF Importing, Activating
  <2> QED
    BY <1>2, <1>3, <1>7, <2>1, <2>2 DEF VarsOK
<1>9. ActivatingOK'
  <2>1. Matching' /\ HotKept' /\ TreeKept' /\ Hot \notin mutated' /\ Tree \notin mutated'
    BY <1>1, <1>2, <1>3, <1>4, Numbers DEF ActivatingOK, Activating, Matching, HotKept, TreeKept, journal, Candidate
  <2> QED
    BY <1>2, <1>3, <2>1 DEF ActivatingOK
<1>10. GroupsOK'
  BY <1>1, <1>2, <1>3, <1>5, <1>6, <1>7 DEF GroupsOK, Activating, Staging, Committed
<1> QED
  BY <1>2, <1>4, <1>8, <1>9, <1>10, ActivatingPlace DEF IndInv, Activating

\* A group that is replaced is recorded as changed; one that was not parked had no original.
LEMMA ReplaceConfigInv ==
    ASSUME Ordered, IndInv, ReplaceConfig
    PROVE  IndInv'
<1>1. PICK g \in Groups :
        /\ NextGroup(g) /\ config[g] = Absent
        /\ config' = [config EXCEPT ![g] = gen] /\ mutated' = mutated \union {g}
  BY DEF ReplaceConfig
<1>2. /\ pc = "config" /\ pc' = pc /\ k' = k
      /\ UNCHANGED <<files, parked, gen, bundle, prior, marked, displaced, failed, result, faults>>
  BY DEF ReplaceConfig, At
<1>3. VarsOK /\ PairsOK /\ ActivatingOK /\ GroupsOK
  BY DEF IndInv, PcOK
<1>4. PairsOK' /\ hotDir' = hotDir /\ segDir' = segDir
  BY <1>2, <1>3, Still
<1>5. g \in bundle
  BY <1>1 DEF NextGroup, Remaining
<1>6. parked[g] = prior[g]
  BY <1>1, <1>2, <1>3 DEF GroupsOK, Activating
<1>7. /\ config' \in [Groups -> Generations]
      /\ \A x \in Groups : x # g => config'[x] = config[x]
      /\ config'[g] = gen
  BY <1>1, <1>3 DEF VarsOK, Generations
<1>8. VarsOK'
  <2>1. mutated' \subseteq Targets
    BY <1>1, <1>3 DEF VarsOK, Targets
  <2>2. pc \in Importing /\ pc' \in Importing
    BY <1>2 DEF Importing, Activating
  <2> QED
    BY <1>2, <1>3, <1>7, <2>1, <2>2 DEF VarsOK
<1>9. ActivatingOK'
  <2>1. Matching' /\ HotKept' /\ TreeKept' /\ Hot \notin mutated' /\ Tree \notin mutated'
    BY <1>1, <1>2, <1>3, <1>4, Numbers DEF ActivatingOK, Activating, Matching, HotKept, TreeKept, journal, Candidate
  <2> QED
    BY <1>2, <1>3, <2>1 DEF ActivatingOK
<1>10. GroupsOK'
  BY <1>1, <1>2, <1>3, <1>5, <1>6, <1>7 DEF GroupsOK, Activating, Staging, Committed
<1> QED
  BY <1>2, <1>4, <1>8, <1>9, <1>10, ActivatingPlace DEF IndInv, Activating

\* Every group of the bundle is new.
LEMMA ConfigDoneInv ==
    ASSUME Ordered, IndInv, ConfigDone
    PROVE  IndInv'
<1>1. /\ pc = "config" /\ pc' = "park" /\ k' = Hot /\ Remaining = {} /\ UNCHANGED files
      /\ UNCHANGED <<settings, gen, transaction, faults>>
  BY DEF ConfigDone, Step, At, Goto
<1>2. VarsOK /\ ActivatingOK /\ GroupsOK /\ PairsOK' /\ hotDir' = hotDir /\ segDir' = segDir
  BY <1>1, Still DEF IndInv, PcOK
<1>3. VarsOK'
  BY <1>1, <1>2, Numbers, StepVars DEF Importing, Activating
<1>4. ActivatingOK'
  <2>1. Matching' /\ HotKept' /\ TreeKept'
    BY <1>1, <1>2 DEF ActivatingOK, Activating, Matching, HotKept, TreeKept, journal, Candidate, transaction
  <2> QED
    BY <1>1, <1>2, <2>1 DEF ActivatingOK, Activating, transaction, Hot, Tree
<1>5. GroupsOK'
  <2>1. \A g \in bundle : config[g] = gen
    BY <1>1 DEF Remaining
  <2>2. \A g \in Groups :
          /\ g \notin mutated => config[g] = prior[g] /\ parked[g] = Absent
          /\ g \in mutated => parked[g] = prior[g] /\ config[g] \in {Absent, gen} /\ g \in bundle
    BY <1>1, <1>2 DEF GroupsOK, Activating
  <2>3. config' = config /\ parked' = parked /\ gen' = gen /\ mutated' = mutated /\ prior' = prior /\ bundle' = bundle
    BY <1>1 DEF settings, transaction
  <2> QED
    BY <1>1, <2>1, <2>2, <2>3 DEF GroupsOK, Activating, Staging, Committed
<1> QED
  BY <1>1, <1>2, <1>3, <1>4, <1>5, ActivatingPlace DEF IndInv, Activating

\* The groups, when a step also changes which targets of the history are mutated.
LEMMA MutatedGroups ==
    ASSUME GroupsOK, UNCHANGED <<settings, gen, bundle, prior>>, NEW t, t \notin Groups,
           mutated' = mutated \union {t} \/ mutated' = mutated,
           pc \in Activating \ {"config"}, pc' \in Activating \ {"config"}
    PROVE  GroupsOK'
BY DEF GroupsOK, settings, Staging, Activating, Committed

\* A target is parked only if it is still the one that the journal records.
LEMMA ParkInv ==
    ASSUME Ordered, IndInv, Park
    PROVE  IndInv'
<1>1. /\ pc = "park" /\ Matches(k)
      /\ UNCHANGED <<settings, gen, bundle, prior, marked, displaced, failed, result, faults>>
  BY DEF Park, At
<1>2. VarsOK /\ PairsOK /\ ActivatingOK /\ GroupsOK
  BY DEF IndInv, PcOK
<1>3. /\ Matching /\ marked = TRUE /\ failed = FALSE /\ k \in {Hot, Tree} /\ TreeKept /\ Tree \notin mutated
      /\ k = Tree => New(hotDir, prior[Hot]) /\ Hot \in mutated
  BY <1>1, <1>2 DEF ActivatingOK, Activating
<1>4. /\ hotDir \in HotDirs /\ segDir \in SegDirs /\ hotDir.previous \in {Absent, prior[Hot]}
      /\ segDir.staged \in {Absent, Torn, Candidate} /\ segDir.previous \in {Absent, prior[Tree]}
      /\ hotDir.staged \in {Absent, Candidate} /\ hotDir.journal \in Journals
      /\ hotDir.journal.candidate = Candidate
      /\ hotDir.journal.prior[1] = prior[Hot] /\ hotDir.journal.prior[2] = prior[Tree]
  BY <1>2, <1>3, Leftovers
<1>5. Candidate' = Candidate /\ pc \in Importing /\ k \in 0..LastTarget
  BY <1>1, <1>2 DEF Candidate, Importing, Activating, VarsOK
<1>6. ASSUME pc' \in {"replace", "syncParked"}, k' = k,
             mutated' = mutated \/ mutated' = mutated \union {k}
      PROVE  VarsOK' /\ GroupsOK'
  <2>1. VarsOK'
    <3>1. mutated' \subseteq Targets
      BY <1>2, <1>3, <1>6 DEF VarsOK, Targets
    <3>2. pc' \in Importing
      BY <1>6 DEF Importing, Activating
    <3> QED
      BY <1>1, <1>2, <1>5, <1>6, <3>1, <3>2 DEF VarsOK, settings
  <2>2. GroupsOK'
    <3>1. k \notin Groups
      BY <1>3, Numbers
    <3> QED
      BY <1>1, <1>2, <1>6, <3>1, MutatedGroups DEF Activating
  <2> QED
    BY <2>1, <2>2
<1>7. CASE prior[k] = Absent
  <2>1. pc' = "replace" /\ k' = k /\ UNCHANGED <<files, mutated>>
    BY <1>7 DEF Park, Goto
  <2>2. PairsOK' /\ hotDir' = hotDir /\ segDir' = segDir
    BY <1>2, <2>1, Still
  <2>3. Parked(Dir(k), prior[k])
    BY <1>1, <1>3, <1>4, <1>7 DEF Matches, Parked, Dir
  <2>4. ActivatingOK'
    <3>1. Matching' /\ TreeKept' /\ Dir(k)' = Dir(k) /\ Parked(Dir(k), prior[k])'
      BY <1>1, <1>3, <1>5, <2>1, <2>2, <2>3 DEF Matching, TreeKept, journal, Dir, Parked
    <3>2. k = Tree => New(hotDir, prior[Hot])'
      BY <1>1, <1>3, <1>5, <2>2 DEF New
    <3> QED
      BY <1>1, <1>3, <1>7, <2>1, <3>1, <3>2 DEF ActivatingOK, Hot, Tree
  <2> QED
    BY <1>6, <2>1, <2>2, <2>4, ActivatingPlace DEF IndInv, Activating
<1>8. CASE prior[k] # Absent
  <2>1. /\ pc' = "syncParked" /\ k' = k /\ mutated' = mutated \union {k}
        /\ Change(k, [live |-> Absent, previous |-> Dir(k).live])
    BY <1>8 DEF Park, Goto
  <2>2. CASE k = Hot
    <3>1. /\ segDir' = segDir /\ may' = may \union {<<hotDir', segDir'>>} /\ hotDir' \in HotDirs
          /\ hotDir'.live = Absent /\ hotDir'.staged = hotDir.staged /\ hotDir'.previous = hotDir.live
          /\ hotDir'.journal = hotDir.journal
      BY <1>4, <2>1, <2>2 DEF Change, Dir, ChangeHot, Put, HotDirs, Originals
    <3>2. hotDir.live = prior[Hot] /\ hotDir.staged = Candidate
      BY <1>1, <2>2 DEF Matches, Dir
    <3>3. Good(hotDir', segDir')
      <4>1. Restorable(hotDir', prior[Hot], Candidate) /\ Restorable(segDir', prior[Tree], Candidate)
        BY <1>3, <3>1, <3>2 DEF Restorable, Available, TreeKept
      <4> QED
        BY <1>2, <1>4, <1>5, <3>1, <3>2, <4>1, GoodPair
    <3>4. PairsOK'
      BY <1>2, <3>1, <3>3, Added
    <3>5. ActivatingOK'
      <4>1. Matching' /\ TreeKept' /\ Dir(k)' = hotDir' /\ k # Tree
        BY <1>1, <1>3, <1>5, <2>1, <2>2, <3>1 DEF Matching, TreeKept, journal, Dir, Hot, Tree
      <4>2. Parked(Dir(k), prior[k])'
        BY <1>1, <1>5, <2>1, <2>2, <3>1, <3>2, <4>1 DEF Parked
      <4> QED
        BY <1>1, <1>3, <2>1, <2>2, <4>1, <4>2 DEF ActivatingOK, Hot, Tree
    <3> QED
      BY <1>6, <2>1, <3>4, <3>5, ActivatingPlace DEF IndInv, Activating
  <2>3. CASE k = Tree
    <3>1. /\ hotDir' = hotDir /\ may' = may \union {<<hotDir', segDir'>>} /\ segDir' \in SegDirs
          /\ segDir'.live = Absent /\ segDir'.staged = segDir.staged /\ segDir'.previous = segDir.live
      BY <1>4, <2>1, <2>3 DEF Change, Dir, ChangeSeg, Put, SegDirs, Originals, Hot, Tree
    <3>2. segDir.live = prior[Tree] /\ segDir.staged = Candidate
      BY <1>1, <2>3 DEF Matches, Dir, Hot, Tree
    <3>3. Good(hotDir', segDir')
      <4>1. Restorable(hotDir', prior[Hot], Candidate) /\ Restorable(segDir', prior[Tree], Candidate)
        BY <1>3, <2>3, <3>1, <3>2 DEF Restorable, Available, New
      <4> QED
        BY <1>2, <1>4, <1>5, <3>1, <3>2, <4>1, GoodPair
    <3>4. PairsOK'
      BY <1>2, <3>1, <3>3, Added
    <3>5. ActivatingOK'
      <4>1. Matching' /\ Dir(k)' = segDir' /\ k # Hot /\ New(hotDir, prior[Hot])'
        BY <1>1, <1>3, <1>5, <2>1, <2>3, <3>1 DEF Matching, New, journal, Dir, Hot, Tree
      <4>2. Parked(Dir(k), prior[k])'
        BY <1>1, <1>5, <2>1, <2>3, <3>1, <3>2, <4>1 DEF Parked
      <4> QED
        BY <1>1, <1>3, <2>1, <2>3, <4>1, <4>2 DEF ActivatingOK, Hot, Tree
    <3> QED
      BY <1>6, <2>1, <3>4, <3>5, ActivatingPlace DEF IndInv, Activating
  <2> QED
    BY <1>3, <2>2, <2>3
<1> QED
  BY <1>7, <1>8

\* Otherwise the journal keeps the store closed.
LEMMA PreserveEvidenceInv ==
    ASSUME Ordered, IndInv, PreserveEvidence
    PROVE  IndInv'
<1>1. Stops("incomplete") /\ UNCHANGED <<files, config, gen, faults>>
  BY DEF PreserveEvidence
<1>2. PairsOK'
  BY <1>1, Still DEF IndInv
<1> QED
  BY <1>1, <1>2, Ends DEF IndInv, VarsOK

\* The parked original is durable.
LEMMA SyncParkedInv ==
    ASSUME Ordered, IndInv, SyncParked
    PROVE  IndInv'
<1>1. /\ pc = "syncParked" /\ pc' = "replace" /\ k' = k /\ Sync(k)
      /\ UNCHANGED <<settings, gen, transaction, faults>>
  BY DEF SyncParked, Step, At, Goto
<1>2. VarsOK /\ ActivatingOK /\ PairsOK' /\ hotDir' = hotDir /\ segDir' = segDir
  BY <1>1, Synced DEF IndInv, PcOK
<1>3. VarsOK'
  BY <1>1, <1>2, StepVars DEF Importing, Activating, VarsOK
<1>4. GroupsOK'
  BY <1>1, SameGroups DEF IndInv, PcOK, Activating
<1>5. ActivatingOK'
  BY <1>1, <1>2 DEF ActivatingOK, Activating, Matching, TreeKept, HotKept, New, Parked, journal, Candidate,
                    Dir, transaction
<1> QED
  BY <1>1, <1>2, <1>3, <1>4, <1>5, ActivatingPlace DEF IndInv, Activating

\* The candidate takes the place of the parked original.
LEMMA ReplaceInv ==
    ASSUME Ordered, IndInv, Replace
    PROVE  IndInv'
<1>1. /\ pc = "replace" /\ pc' = "syncReplaced" /\ k' = k /\ mutated' = mutated \union {k}
      /\ Change(k, [live |-> Dir(k).staged, staged |-> Absent])
      /\ UNCHANGED <<settings, gen, bundle, prior, marked, displaced, failed, result, faults>>
  BY DEF Replace, At, Goto
<1>2. VarsOK /\ PairsOK /\ ActivatingOK /\ GroupsOK
  BY DEF IndInv, PcOK
<1>3. /\ Matching /\ marked = TRUE /\ failed = FALSE /\ k \in {Hot, Tree} /\ Parked(Dir(k), prior[k])
      /\ k = Tree => New(hotDir, prior[Hot]) /\ Hot \in mutated
      /\ k = Hot => TreeKept /\ Tree \notin mutated
  BY <1>1, <1>2 DEF ActivatingOK, Activating
<1>4. /\ hotDir \in HotDirs /\ segDir \in SegDirs /\ hotDir.previous \in {Absent, prior[Hot]}
      /\ segDir.staged \in {Absent, Torn, Candidate} /\ segDir.previous \in {Absent, prior[Tree]}
      /\ hotDir.staged \in {Absent, Candidate} /\ hotDir.journal \in Journals
      /\ hotDir.journal.candidate = Candidate
      /\ hotDir.journal.prior[1] = prior[Hot] /\ hotDir.journal.prior[2] = prior[Tree]
  BY <1>2, <1>3, Leftovers
<1>5. Candidate' = Candidate /\ pc \in Importing /\ pc' \in Importing /\ Candidate \in Originals
  BY <1>1, <1>2, CandidateContent DEF Candidate, Importing, Activating, Originals
<1>6. VarsOK'
  <2>1. mutated' \subseteq Targets
    BY <1>1, <1>2, <1>3 DEF VarsOK, Targets
  <2> QED
    BY <1>1, <1>2, <1>5, <2>1 DEF VarsOK, settings
<1>7. GroupsOK'
  <2>1. k \notin Groups
    BY <1>3, Numbers
  <2> QED
    BY <1>1, <1>2, <2>1, MutatedGroups DEF Activating
<1>8. CASE k = Hot
  <2>1. hotDir.staged = Candidate /\ hotDir.previous = prior[Hot]
    BY <1>3, <1>8 DEF Parked, Dir
  <2>2. /\ segDir' = segDir /\ may' = may \union {<<hotDir', segDir'>>} /\ hotDir' \in HotDirs
        /\ hotDir'.live = Candidate /\ hotDir'.staged = Absent /\ hotDir'.previous = hotDir.previous
        /\ hotDir'.journal = hotDir.journal
    BY <1>1, <1>4, <1>5, <1>8, <2>1 DEF Change, Dir, ChangeHot, Put, HotDirs, Originals
  <2>3. Good(hotDir', segDir')
    <3>1. Restorable(hotDir', prior[Hot], Candidate) /\ Restorable(segDir', prior[Tree], Candidate)
      BY <1>3, <1>8, <2>1, <2>2 DEF Restorable, Available, TreeKept
    <3> QED
      BY <1>2, <1>4, <1>5, <2>1, <2>2, <3>1, GoodPair
  <2>4. PairsOK'
    BY <1>2, <2>2, <2>3, Added
  <2>5. ActivatingOK'
    <3>1. Matching' /\ TreeKept' /\ Dir(k)' = hotDir' /\ k # Tree
      BY <1>1, <1>3, <1>5, <1>8, <2>2 DEF Matching, TreeKept, journal, Dir, Hot, Tree
    <3>2. New(Dir(k), prior[k])'
      BY <1>1, <1>5, <1>8, <2>1, <2>2, <3>1 DEF New
    <3> QED
      BY <1>1, <1>3, <1>8, <3>1, <3>2 DEF ActivatingOK, Hot, Tree
  <2> QED
    BY <1>1, <1>6, <1>7, <2>4, <2>5, ActivatingPlace DEF IndInv, Activating
<1>9. CASE k = Tree
  <2>1. segDir.staged = Candidate /\ segDir.previous = prior[Tree]
    BY <1>3, <1>9 DEF Parked, Dir, Hot, Tree
  <2>2. /\ hotDir' = hotDir /\ may' = may \union {<<hotDir', segDir'>>} /\ segDir' \in SegDirs
        /\ segDir'.live = Candidate /\ segDir'.staged = Absent /\ segDir'.previous = segDir.previous
    BY <1>1, <1>4, <1>5, <1>9, <2>1 DEF Change, Dir, ChangeSeg, Put, SegDirs, Originals, Hot, Tree
  <2>3. Good(hotDir', segDir')
    <3>1. hotDir'.live = Candidate /\ segDir'.live = Candidate
      BY <1>3, <1>9, <2>2 DEF New
    <3> QED
      BY <1>2, <1>4, <1>5, <2>1, <2>2, <3>1, GoodPair
  <2>4. PairsOK'
    BY <1>2, <2>2, <2>3, Added
  <2>5. ActivatingOK'
    <3>1. Matching' /\ New(hotDir, prior[Hot])' /\ Dir(k)' = segDir' /\ k # Hot
      BY <1>1, <1>3, <1>5, <1>9, <2>2 DEF Matching, New, journal, Dir, Hot, Tree
    <3>2. New(Dir(k), prior[k])'
      BY <1>1, <1>5, <1>9, <2>1, <2>2, <3>1 DEF New
    <3> QED
      BY <1>1, <1>3, <1>9, <3>1, <3>2 DEF ActivatingOK, Hot, Tree
  <2> QED
    BY <1>1, <1>6, <1>7, <2>4, <2>5, ActivatingPlace DEF IndInv, Activating
<1> QED
  BY <1>3, <1>8, <1>9

\* The new target is durable before the next one is parked.
LEMMA SyncReplacedInv ==
    ASSUME Ordered, IndInv, SyncReplaced
    PROVE  IndInv'
<1>1. /\ pc = "syncReplaced" /\ pc' = (IF k = Hot THEN "park" ELSE "settings") /\ k' = Tree /\ Sync(k)
      /\ UNCHANGED <<settings, gen, transaction, faults>>
  BY DEF SyncReplaced, Step, At, Goto
<1>2. VarsOK /\ ActivatingOK /\ PairsOK' /\ hotDir' = hotDir /\ segDir' = segDir
  BY <1>1, Synced DEF IndInv, PcOK
<1>3. VarsOK'
  BY <1>1, <1>2, Numbers, StepVars DEF Importing, Activating
<1>4. GroupsOK'
  BY <1>1, SameGroups DEF IndInv, PcOK, Activating
<1>5. ActivatingOK'
  BY <1>1, <1>2 DEF ActivatingOK, Activating, Matching, TreeKept, HotKept, New, journal, Candidate, Dir,
                    transaction, Hot, Tree
<1> QED
  BY <1>1, <1>2, <1>3, <1>4, <1>5, ActivatingPlace DEF IndInv, Activating

\* Both targets are new when the transaction commits.
LEMMA CommitInv ==
    ASSUME Ordered, IndInv, Commit
    PROVE  IndInv'
<1>1. /\ pc = "settings" /\ pc' = "retire" /\ k' = Hot /\ UNCHANGED files
      /\ UNCHANGED <<settings, gen, transaction, faults>>
  BY DEF Commit, Step, At, Goto
<1>2. VarsOK /\ ActivatingOK /\ GroupsOK /\ PairsOK' /\ hotDir' = hotDir /\ segDir' = segDir
  BY <1>1, Still DEF IndInv, PcOK
<1>3. VarsOK'
  BY <1>1, <1>2, Numbers, StepVars DEF Importing, Activating, Committed
<1>4. CommittedOK'
  BY <1>1, <1>2 DEF ActivatingOK, CommittedOK, Activating, Matching, New, journal, Candidate, transaction
<1>5. GroupsOK'
  <2>1. ASSUME NEW g \in Groups
        PROVE  config[g] = (IF g \in bundle THEN gen ELSE prior[g]) /\ (parked[g] # Absent => g \in mutated)
    BY <1>1, <1>2 DEF GroupsOK, Activating
  <2> QED
    BY <1>1, <2>1 DEF GroupsOK, Activating, Staging, Committed, settings, transaction
<1> QED
  BY <1>1, <1>2, <1>3, <1>4, <1>5, CommittedPlace DEF IndInv, Committed

(***************************************************************************)
(* The end of an import that has committed, and one that fails before.     *)
(***************************************************************************)

\* A parked original goes while both candidates are live.
LEMMA RetireInv ==
    ASSUME Ordered, IndInv, Retire
    PROVE  IndInv'
<1>1. /\ pc = "retire" /\ pc' = "syncRetired" /\ k' = k /\ Change(k, [previous |-> Absent])
      /\ UNCHANGED <<settings, gen, transaction, faults>>
  BY DEF Retire, Step, At, Goto
<1>2. VarsOK /\ PairsOK /\ CommittedOK
  BY DEF IndInv, PcOK
<1>3. Matching /\ hotDir.live = Candidate /\ segDir.live = Candidate /\ k \in {Hot, Tree}
  BY <1>1, <1>2 DEF CommittedOK, Committed
<1>4. /\ hotDir \in HotDirs /\ segDir \in SegDirs /\ hotDir.previous \in {Absent, prior[Hot]}
      /\ segDir.staged \in {Absent, Torn, Candidate} /\ segDir.previous \in {Absent, prior[Tree]}
      /\ hotDir.staged \in {Absent, Candidate} /\ hotDir.journal \in Journals
      /\ hotDir.journal.candidate = Candidate
      /\ hotDir.journal.prior[1] = prior[Hot] /\ hotDir.journal.prior[2] = prior[Tree]
  BY <1>2, <1>3, Leftovers
<1>5. /\ may' = may \union {<<hotDir', segDir'>>} /\ hotDir' \in HotDirs /\ segDir' \in SegDirs
      /\ hotDir'.live = Candidate /\ hotDir'.staged = hotDir.staged /\ hotDir'.previous \in {Absent, hotDir.previous}
      /\ hotDir'.journal = hotDir.journal
      /\ segDir'.live = Candidate /\ segDir'.staged = segDir.staged /\ segDir'.previous \in {Absent, segDir.previous}
  <2>1. CASE k = Hot
    BY <1>1, <1>3, <1>4, <2>1 DEF Change, ChangeHot, Put, HotDirs, Originals
  <2>2. CASE k = Tree
    BY <1>1, <1>3, <1>4, <2>2 DEF Change, ChangeSeg, Put, SegDirs, Originals, Hot, Tree
  <2> QED
    BY <1>3, <2>1, <2>2
<1>6. PairsOK'
  <2>1. pc \in Importing
    BY <1>1 DEF Importing, Committed
  <2>2. Good(hotDir', segDir')
    BY <1>2, <1>4, <1>5, <2>1, GoodPair
  <2> QED
    BY <1>2, <1>5, <2>2, Added
<1>7. VarsOK'
  BY <1>1, <1>2, StepVars DEF Importing, Committed, VarsOK
<1>8. CommittedOK'
  BY <1>1, <1>3, <1>5 DEF CommittedOK, Committed, Matching, journal, Candidate, transaction
<1>9. GroupsOK'
  BY <1>1, SameGroups DEF IndInv, PcOK, Committed
<1> QED
  BY <1>1, <1>6, <1>7, <1>8, <1>9, CommittedPlace DEF IndInv, Committed

\* Its removal is durable.
LEMMA SyncRetiredInv ==
    ASSUME Ordered, IndInv, SyncRetired
    PROVE  IndInv'
<1>1. /\ pc = "syncRetired" /\ pc' = (IF k = Hot THEN "retire" ELSE "cleanup") /\ k' = Tree /\ Sync(k)
      /\ UNCHANGED <<settings, gen, transaction, faults>>
  BY DEF SyncRetired, Step, At, Goto
<1>2. VarsOK /\ CommittedOK /\ PairsOK' /\ hotDir' = hotDir /\ segDir' = segDir
  BY <1>1, Synced DEF IndInv, PcOK
<1>3. VarsOK'
  BY <1>1, <1>2, Numbers, StepVars DEF Importing, Committed
<1>4. CommittedOK'
  BY <1>1, <1>2 DEF CommittedOK, Committed, Matching, journal, Candidate, transaction
<1>5. GroupsOK'
  BY <1>1, SameGroups DEF IndInv, PcOK, Committed
<1> QED
  BY <1>1, <1>2, <1>3, <1>4, <1>5, CommittedPlace DEF IndInv, Committed

\* The parked groups go after the history.
LEMMA CleanupInv ==
    ASSUME Ordered, IndInv, Cleanup
    PROVE  IndInv'
<1>1. /\ pc = "cleanup" /\ pc' = "removeJournal" /\ k' = 0 /\ parked' = [g \in Groups |-> Absent]
      /\ UNCHANGED <<files, config, gen, transaction, faults>>
  BY DEF Cleanup, At, Goto
<1>2. VarsOK /\ CommittedOK /\ GroupsOK /\ PairsOK' /\ hotDir' = hotDir /\ segDir' = segDir
  BY <1>1, Still DEF IndInv, PcOK
<1>3. VarsOK'
  <2>1. parked' \in [Groups -> Generations]
    BY <1>1 DEF Generations
  <2>2. pc \in Importing /\ pc' \in Importing
    BY <1>1 DEF Importing, Committed
  <2> QED
    BY <1>1, <1>2, <2>1, <2>2, Numbers DEF VarsOK, transaction
<1>4. CommittedOK'
  BY <1>1, <1>2 DEF CommittedOK, Committed, Matching, journal, Candidate, transaction
<1>5. GroupsOK'
  <2>1. \A g \in Groups : config[g] = (IF g \in bundle THEN gen ELSE prior[g]) /\ parked'[g] = Absent
    BY <1>1, <1>2 DEF GroupsOK, Committed
  <2> QED
    BY <1>1, <2>1 DEF GroupsOK, Activating, Staging, transaction
<1> QED
  BY <1>1, <1>2, <1>3, <1>4, <1>5, CommittedPlace DEF IndInv, Committed

\* The journal goes last: both targets are of the new generation.
LEMMA RemoveJournalInv ==
    ASSUME Ordered, IndInv, RemoveJournal
    PROVE  IndInv'
<1>1. /\ pc = "removeJournal" /\ pc' = "syncRemoved" /\ k' = 0 /\ ChangeHot([journal |-> Absent])
      /\ UNCHANGED <<settings, gen, transaction, faults>>
  BY DEF RemoveJournal, Step, At, Goto
<1>2. VarsOK /\ PairsOK /\ CommittedOK /\ hotDir \in HotDirs /\ segDir \in SegDirs
  BY Here DEF IndInv, PcOK
<1>3. hotDir.live = Candidate /\ segDir.live = Candidate
  BY <1>1, <1>2 DEF CommittedOK, Committed
<1>4. /\ segDir' = segDir /\ may' = may \union {<<hotDir', segDir'>>} /\ hotDir' \in HotDirs
      /\ hotDir'.live = Candidate /\ hotDir'.journal = Absent
  BY <1>1, <1>2, <1>3 DEF ChangeHot, Put, HotDirs
<1>5. PairsOK'
  <2>1. Together(Candidate, Candidate)
    BY <1>2, CandidateContent DEF Together
  <2>2. Good(hotDir', segDir')
    BY <1>2, <1>3, <1>4, <2>1 DEF Good
  <2> QED
    BY <1>2, <1>4, <2>2, Added
<1>6. VarsOK'
  BY <1>1, <1>2, Numbers, StepVars DEF Importing, Committed
<1>7. CommittedOK'
  BY <1>1, <1>3, <1>4 DEF CommittedOK, journal, Candidate
<1>8. GroupsOK'
  BY <1>1, SameGroups DEF IndInv, PcOK, Committed
<1> QED
  BY <1>1, <1>5, <1>6, <1>7, <1>8, CommittedPlace DEF IndInv, Committed

\* The removal of the journal is durable, and the import ends.
LEMMA SyncRemovedInv ==
    ASSUME Ordered, IndInv, SyncRemoved
    PROVE  IndInv'
<1>1. SyncHot /\ Stops("ok") /\ UNCHANGED <<config, gen, faults>>
  BY DEF SyncRemoved
<1>2. PairsOK'
  BY <1>1, SyncedHot DEF IndInv
<1> QED
  BY <1>1, <1>2, Ends DEF IndInv, VarsOK

\* An error after the commit leaves the journal and both candidates.
LEMMA FinalizeFailsInv ==
    ASSUME Ordered, IndInv, FinalizeFails
    PROVE  IndInv'
<1>1. Fault /\ Stops("incomplete") /\ UNCHANGED <<files, config, gen>>
  BY DEF FinalizeFails
<1>2. PairsOK' /\ faults' \in 0..MaxFaults
  BY <1>1, Still, FaultCount DEF IndInv
<1> QED
  BY <1>1, <1>2, Ends DEF IndInv

(***************************************************************************)
(* Rollback.                                                               *)
(***************************************************************************)

\* Where an import fails, every target is as it was or can be undone.
LEMMA ImportFailsInv ==
    ASSUME Ordered, IndInv, ImportFails
    PROVE  IndInv'
<1>1. /\ pc \in Staging \union Activating /\ Fault /\ pc' = "rollback" /\ k' = LastTarget
      /\ UNCHANGED <<settings, gen, transaction>>
  BY DEF ImportFails, Goto
<1>2. VarsOK /\ PairsOK /\ PcOK /\ Good(hotDir, segDir) /\ hotDir \in HotDirs /\ segDir \in SegDirs
  BY Here DEF IndInv
<1>3. pc \in Importing /\ pc' \in Importing
  BY <1>1 DEF Importing, Activating, Undoing
<1>4. VarsOK'
  <2>1. faults' \in 0..MaxFaults /\ k' \in 0..LastTarget
    BY <1>1, <1>2, FaultCount, RestoreAssumption DEF LastTarget
  <2> QED
    BY <1>1, <1>2, <1>3, <2>1 DEF VarsOK, settings, transaction
<1>5. /\ config' = config /\ parked' = parked /\ gen' = gen /\ mutated' = mutated /\ prior' = prior
      /\ failed' = failed /\ displaced' = displaced /\ Candidate' = Candidate
  BY <1>1 DEF settings, transaction, Candidate
<1>6. CASE pc = "fillJournal"
  <2>1. ChangeHot([journal |-> Absent])
    BY <1>6 DEF ImportFails, At
  <2>2. /\ segDir' = segDir /\ may' = may \union {<<hotDir', segDir'>>} /\ hotDir' \in HotDirs
        /\ hotDir'.live = hotDir.live /\ hotDir'.journal = Absent
    BY <1>2, <2>1 DEF ChangeHot, Put, HotDirs
  <2>3. hotDir.journal = Torn /\ hotDir.live = prior[Hot] /\ TreeKept /\ mutated = {}
    BY <1>2, <1>6 DEF PcOK, StagingOK, Staging
  <2>4. PairsOK'
    <3>1. Good(hotDir', segDir')
      BY <1>2, <2>2, <2>3 DEF Good
    <3> QED
      BY <1>2, <2>2, <3>1, Added
  <2>5. \A g \in Groups : config[g] = prior[g] /\ parked[g] = Absent
    BY <1>2, <1>6 DEF PcOK, GroupsOK, Staging
  <2>6. UndoingOK'
    <3>1. HotKept' /\ TreeKept' /\ journal' = Absent
      BY <1>5, <2>2, <2>3 DEF HotKept, TreeKept, journal
    <3> QED
      BY <1>1, <1>5, <2>3, <2>5, <3>1 DEF UndoingOK
  <2> QED
    BY <1>1, <1>4, <2>4, <2>6, UndoingPlace DEF IndInv, Undoing
<1>7. CASE pc # "fillJournal"
  <2>1. PairsOK' /\ hotDir' = hotDir /\ segDir' = segDir
    BY <1>2, <1>7, Still DEF ImportFails, At
  <2>2. CASE pc \in Staging
    <3>1. /\ hotDir.live = prior[Hot] /\ TreeKept /\ mutated = {} /\ (Matching \/ hotDir.journal = Absent)
      <4>1. CASE pc \in {"stage", "journal"}
        <5>1. <<hotDir, segDir>> \in may /\ <<hotDir, segDir>>[1] = hotDir
          BY <1>2 DEF PairsOK
        <5>2. \A m \in may : m[1].journal = Absent
          BY <1>2, <4>1 DEF PcOK, StagingOK, Staging
        <5>3. hotDir.journal = Absent
          BY <5>1, <5>2
        <5> QED
          BY <1>2, <2>2, <5>3 DEF PcOK, StagingOK
      <4>2. CASE pc \in {"fill", "syncStaged", "syncJournal"}
        BY <1>2, <2>2, <4>2 DEF PcOK, StagingOK
      <4> QED
        BY <1>7, <2>2, <4>1, <4>2 DEF Staging
    <3>2. \A g \in Groups : config[g] = prior[g] /\ parked[g] = Absent
      BY <1>2, <2>2 DEF PcOK, GroupsOK
    <3>3. UndoingOK'
      <4>1. HotKept' /\ TreeKept' /\ (Matching' \/ journal' = Absent)
        BY <1>5, <2>1, <3>1 DEF HotKept, TreeKept, journal, Matching
      <4> QED
        BY <1>1, <1>5, <3>1, <3>2, <4>1 DEF UndoingOK
    <3> QED
      BY <1>1, <1>4, <2>1, <3>3, UndoingPlace DEF IndInv, Undoing
  <2>3. CASE pc \in Activating
    <3>1. ActivatingOK /\ Matching
      BY <1>2, <2>3 DEF PcOK, ActivatingOK
    <3>2. hotDir.previous \in {Absent, prior[Hot]} /\ segDir.previous \in {Absent, prior[Tree]}
      BY <1>2, <3>1, Leftovers
    <3>3. /\ Hot \notin mutated => HotKept
          /\ Hot \in mutated => Undoable(hotDir, prior[Hot])
      <4>1. CASE pc = "config" \/ (pc = "park" /\ k = Hot)
        BY <2>3, <3>1, <4>1 DEF ActivatingOK
      <4>2. CASE pc = "settings" \/ (pc \in {"park", "syncParked", "replace", "syncReplaced"} /\ k = Tree)
        BY <2>3, <3>1, <4>2 DEF ActivatingOK, New, Undoable
      <4>3. CASE pc \in {"syncParked", "replace", "syncReplaced"} /\ k = Hot
        BY <2>3, <3>1, <4>3 DEF ActivatingOK, New, Parked, Undoable, HotKept, Dir
      <4> QED
        BY <2>3, <3>1, <4>1, <4>2, <4>3 DEF ActivatingOK, Activating
    <3>4. /\ Tree \notin mutated => TreeKept
          /\ Tree \in mutated => Undoable(segDir, prior[Tree])
      <4>1. CASE pc \in {"config", "park"} \/ (pc \in {"syncParked", "replace", "syncReplaced"} /\ k = Hot)
        BY <2>3, <3>1, <4>1 DEF ActivatingOK
      <4>2. CASE pc = "settings"
        BY <2>3, <3>1, <4>2 DEF ActivatingOK, New, Undoable
      <4>3. CASE pc \in {"syncParked", "replace", "syncReplaced"} /\ k = Tree
        BY <2>3, <3>1, <4>3 DEF ActivatingOK, New, Parked, Undoable, TreeKept, Dir, Hot, Tree
      <4> QED
        BY <2>3, <3>1, <4>1, <4>2, <4>3 DEF ActivatingOK, Activating
    <3>5. \A g \in Groups :
            /\ g \notin mutated => config[g] = prior[g] /\ parked[g] = Absent
            /\ g \in mutated => parked[g] = prior[g]
      BY <1>2, <2>3 DEF PcOK, GroupsOK
    <3>6. UndoingOK'
      <4>1. /\ Hot \in mutated => Restorable(hotDir, prior[Hot], Candidate)
            /\ Tree \in mutated => Restorable(segDir, prior[Tree], Candidate)
        BY <3>3, <3>4 DEF Undoable, Restorable, Available
      <4>2. \A t \in mutated : ~(t > LastTarget)
        BY <1>2, Numbers, RestoreAssumption DEF VarsOK, LastTarget
      <4>3. /\ HotKept' = HotKept /\ TreeKept' = TreeKept /\ Matching'
            /\ Undoable(hotDir, prior[Hot])' = Undoable(hotDir, prior[Hot])
            /\ Undoable(segDir, prior[Tree])' = Undoable(segDir, prior[Tree])
            /\ Restorable(hotDir, prior[Hot], Candidate)' = Restorable(hotDir, prior[Hot], Candidate)
            /\ Restorable(segDir, prior[Tree], Candidate)' = Restorable(segDir, prior[Tree], Candidate)
        BY <1>5, <2>1, <3>1 DEF HotKept, TreeKept, Matching, journal, Undoable, Restorable, Available
      <4> QED
        BY <1>1, <1>5, <3>3, <3>4, <3>5, <4>1, <4>2, <4>3 DEF UndoingOK
    <3> QED
      BY <1>1, <1>4, <2>1, <3>6, UndoingPlace DEF IndInv, Undoing
  <2> QED
    BY <1>1, <2>2, <2>3 DEF Activating
<1> QED
  BY <1>6, <1>7

(***************************************************************************)
(* The rollback.                                                           *)
(***************************************************************************)

\* While a rollback runs, the history can be restored or something else has changed it.
LEMMA UndoingHistory ==
    ASSUME UndoingOK, pc \in Undoing, Matching
    PROVE  /\ Restorable(hotDir, prior[Hot], Candidate) \/ Changed(hotDir.live)
           /\ Restorable(segDir, prior[Tree], Candidate)
BY DEF UndoingOK, HotKept, TreeKept, Restorable, Available

\* A target that was not changed is as it was.
LEMMA SkipTargetInv ==
    ASSUME Ordered, IndInv, SkipTarget
    PROVE  IndInv'
<1>1. /\ pc = "rollback" /\ pc' = "rollback" /\ k' = k - 1 /\ k > 0 /\ k \notin mutated /\ UNCHANGED files
      /\ UNCHANGED <<settings, gen, transaction, faults>>
  BY DEF SkipTarget, Step, At, Goto
<1>2. VarsOK /\ UndoingOK /\ PairsOK' /\ hotDir' = hotDir /\ segDir' = segDir
  BY <1>1, Still DEF IndInv, PcOK
<1>3. k \in 0..LastTarget /\ k' \in 0..LastTarget /\ LastTarget \in Nat
  BY <1>1, <1>2, RestoreAssumption DEF VarsOK, LastTarget
<1>4. VarsOK'
  BY <1>1, <1>2, <1>3, StepVars DEF Importing, Undoing
<1>5. /\ config' = config /\ parked' = parked /\ gen' = gen /\ mutated' = mutated /\ prior' = prior
      /\ failed' = failed /\ displaced' = displaced
  BY <1>1 DEF settings, transaction
<1>6. UndoingOK'
  <2>1. /\ HotKept' = HotKept /\ TreeKept' = TreeKept /\ Matching' = Matching /\ journal' = journal
        /\ Undoable(hotDir, prior[Hot])' = Undoable(hotDir, prior[Hot])
        /\ Undoable(segDir, prior[Tree])' = Undoable(segDir, prior[Tree])
        /\ Restorable(hotDir, prior[Hot], Candidate)' = Restorable(hotDir, prior[Hot], Candidate)
        /\ Restorable(segDir, prior[Tree], Candidate)' = Restorable(segDir, prior[Tree], Candidate)
    BY <1>2, <1>5 DEF HotKept, TreeKept, Matching, journal, Undoable, Restorable, Available, Candidate
  <2>2. \A t \in mutated : t \in 1..LastTarget /\ t # k
    BY <1>1, <1>2, Numbers DEF VarsOK
  <2>3. \A t \in mutated : t > k' => failed
    BY <1>1, <1>2, <1>3, <2>2 DEF UndoingOK, Undoing
  <2>4. \A g \in Groups : g \in mutated /\ (g < k' \/ g = k') => parked[g] = prior[g]
    BY <1>1, <1>2, <1>3, <2>2 DEF UndoingOK, Undoing
  <2>5. Hot \in mutated =>
        /\ Restorable(hotDir, prior[Hot], Candidate)
        /\ 1 < k' \/ 1 = k' => Undoable(hotDir, prior[Hot])
    BY <1>1, <1>2, <1>3, <2>2 DEF UndoingOK, Undoing
  <2>6. Tree \in mutated =>
        /\ Restorable(segDir, prior[Tree], Candidate)
        /\ 2 < k' \/ 2 = k' => Undoable(segDir, prior[Tree])
    BY <1>1, <1>2, <1>3, <2>2 DEF UndoingOK, Undoing
  <2>7. /\ Matching \/ (journal = Absent /\ mutated = {})
        /\ Hot \notin mutated => HotKept
        /\ Tree \notin mutated => TreeKept
        /\ \A g \in Groups : g \notin mutated => config[g] = prior[g] /\ parked[g] = Absent
    BY <1>1, <1>2 DEF UndoingOK, Undoing
  <2> QED
    BY <1>1, <1>5, <2>1, <2>3, <2>4, <2>5, <2>6, <2>7 DEF UndoingOK
<1> QED
  BY <1>1, <1>2, <1>4, <1>6, UndoingPlace DEF IndInv, Undoing

\* What is live is moved aside while the original is parked.
LEMMA DisplaceInv ==
    ASSUME Ordered, IndInv, Displace
    PROVE  IndInv'
<1>1. /\ pc = "rollback" /\ k \in mutated
      /\ UNCHANGED <<parked, gen, bundle, prior, mutated, marked, failed, result, faults>>
  BY DEF Displace, At
<1>2. VarsOK /\ UndoingOK /\ PairsOK
  BY DEF IndInv, PcOK
<1>3. k \in Targets /\ k \in 1..LastTarget
  BY <1>1, <1>2, Numbers DEF VarsOK
<1>4. /\ Matching
      /\ Hot \notin mutated => HotKept
      /\ Tree \notin mutated => TreeKept
      /\ \A t \in mutated : t > k => failed
      /\ \A g \in Groups :
            /\ g \notin mutated => config[g] = prior[g] /\ parked[g] = Absent
            /\ g \in mutated /\ (g < k \/ g = k) => parked[g] = prior[g]
      /\ Hot \in mutated =>
            /\ Restorable(hotDir, prior[Hot], Candidate)
            /\ 1 < k \/ 1 = k => Undoable(hotDir, prior[Hot])
      /\ Tree \in mutated =>
            /\ Restorable(segDir, prior[Tree], Candidate)
            /\ 2 < k \/ 2 = k => Undoable(segDir, prior[Tree])
  BY <1>1, <1>2 DEF UndoingOK, Undoing
<1>5. /\ Restorable(hotDir, prior[Hot], Candidate) \/ Changed(hotDir.live)
      /\ Restorable(segDir, prior[Tree], Candidate)
  BY <1>1, <1>2, <1>4, UndoingHistory DEF Undoing
<1>6. /\ hotDir \in HotDirs /\ segDir \in SegDirs /\ hotDir.previous \in {Absent, prior[Hot]}
      /\ segDir.staged \in {Absent, Torn, Candidate} /\ segDir.previous \in {Absent, prior[Tree]}
      /\ hotDir.staged \in {Absent, Candidate} /\ hotDir.journal \in Journals
      /\ hotDir.journal.candidate = Candidate
      /\ hotDir.journal.prior[1] = prior[Hot] /\ hotDir.journal.prior[2] = prior[Tree]
  BY <1>2, <1>4, Leftovers
<1>7. Candidate' = Candidate /\ pc \in Importing
  BY <1>1 DEF Candidate, Importing, Undoing
<1>8. ASSUME pc' \in {"restoreTarget", "syncDisplaced"}, k' = k, config' \in [Groups -> Generations]
      PROVE  VarsOK'
  <2>1. pc' \in Importing
    BY <1>8 DEF Importing, Undoing
  <2> QED
    BY <1>1, <1>2, <1>8, <2>1 DEF VarsOK
<1>9. CASE k \in Groups
  <2>1. /\ pc' = "restoreTarget" /\ k' = k /\ displaced' = config[k]
        /\ config' = [config EXCEPT ![k] = Absent] /\ UNCHANGED files
    BY <1>9 DEF Displace, Goto
  <2>2. PairsOK' /\ hotDir' = hotDir /\ segDir' = segDir
    BY <1>2, <2>1, Still
  <2>3. /\ config' \in [Groups -> Generations] /\ config'[k] = Absent
        /\ \A g \in Groups : g # k => config'[g] = config[g]
        /\ displaced' \in Generations
    BY <1>2, <1>9, <2>1 DEF VarsOK, Generations
  <2>4. UndoingOK'
    <3>1. /\ HotKept' = HotKept /\ TreeKept' = TreeKept /\ Matching'
          /\ Undoable(hotDir, prior[Hot])' = Undoable(hotDir, prior[Hot])
          /\ Undoable(segDir, prior[Tree])' = Undoable(segDir, prior[Tree])
          /\ Restorable(hotDir, prior[Hot], Candidate)' = Restorable(hotDir, prior[Hot], Candidate)
          /\ Restorable(segDir, prior[Tree], Candidate)' = Restorable(segDir, prior[Tree], Candidate)
      BY <1>1, <1>4, <1>7, <2>2 DEF HotKept, TreeKept, Matching, journal, Undoable, Restorable, Available
    <3> QED
      BY <1>1, <1>3, <1>4, <1>9, <2>1, <2>3, <3>1 DEF UndoingOK, Undoing
  <2> QED
    BY <1>8, <2>1, <2>2, <2>3, <2>4, UndoingPlace DEF IndInv, Undoing
<1>10. CASE k = Hot
  <2>1. k \notin Groups /\ Dir(k) = hotDir /\ k # Tree
    BY <1>10, Numbers DEF Dir
  <2>2. /\ k' = k /\ displaced' = hotDir.live /\ config' = config
        /\ \/ hotDir.live = Absent /\ pc' = "restoreTarget" /\ UNCHANGED files
           \/ pc' = "syncDisplaced" /\ Change(k, [live |-> Absent])
    BY <2>1 DEF Displace, Goto
  <2>3. Undoable(hotDir, prior[Hot])
    BY <1>1, <1>4, <1>10 DEF Hot
  <2>4. /\ PairsOK' /\ segDir' = segDir /\ hotDir'.live = Absent /\ hotDir'.previous = prior[Hot]
        /\ hotDir'.journal = hotDir.journal
    <3>1. CASE hotDir.live = Absent /\ pc' = "restoreTarget" /\ UNCHANGED files
      BY <1>2, <2>3, <3>1, Still DEF Undoable
    <3>2. CASE Change(k, [live |-> Absent])
      <4>1. /\ segDir' = segDir /\ may' = may \union {<<hotDir', segDir'>>} /\ hotDir' \in HotDirs
            /\ hotDir'.live = Absent /\ hotDir'.staged = hotDir.staged /\ hotDir'.previous = hotDir.previous
            /\ hotDir'.journal = hotDir.journal
        BY <1>6, <1>10, <3>2 DEF Change, ChangeHot, Put, HotDirs, Originals
      <4>2. Good(hotDir', segDir')
        <5>1. Restorable(hotDir', prior[Hot], Candidate) /\ Restorable(segDir', prior[Tree], Candidate)
          BY <1>5, <2>3, <4>1 DEF Restorable, Available, Undoable
        <5> QED
          BY <1>2, <1>6, <1>7, <4>1, <5>1, GoodPair
      <4> QED
        BY <1>2, <2>3, <4>1, <4>2, Added DEF Undoable
    <3> QED
      BY <2>2, <3>1, <3>2
  <2>5. UndoingOK'
    <3>1. /\ TreeKept' = TreeKept /\ Matching' /\ Restorable(hotDir, prior[Hot], Candidate)'
          /\ Dir(k)' = hotDir' /\ displaced' \in {Absent, Candidate}
          /\ Undoable(segDir, prior[Tree])' = Undoable(segDir, prior[Tree])
          /\ Restorable(segDir, prior[Tree], Candidate)' = Restorable(segDir, prior[Tree], Candidate)
      BY <1>1, <1>4, <1>7, <1>10, <2>2, <2>3, <2>4
         DEF TreeKept, Matching, journal, Undoable, Restorable, Available, Dir
    <3> QED
      BY <1>1, <1>4, <1>7, <1>10, <2>1, <2>2, <2>4, <3>1 DEF UndoingOK, Undoing, Hot, Tree
  <2>6. VarsOK'
    BY <1>2, <1>8, <2>2 DEF VarsOK
  <2> QED
    BY <2>2, <2>4, <2>5, <2>6, UndoingPlace DEF IndInv, Undoing
<1>11. CASE k = Tree
  <2>1. k \notin Groups /\ Dir(k) = segDir /\ k # Hot
    BY <1>11, Numbers DEF Dir
  <2>2. /\ k' = k /\ displaced' = segDir.live /\ config' = config
        /\ \/ segDir.live = Absent /\ pc' = "restoreTarget" /\ UNCHANGED files
           \/ pc' = "syncDisplaced" /\ Change(k, [live |-> Absent])
    BY <2>1 DEF Displace, Goto
  <2>3. Undoable(segDir, prior[Tree])
    BY <1>1, <1>4, <1>11 DEF Tree
  <2>4. /\ PairsOK' /\ hotDir' = hotDir /\ segDir'.live = Absent /\ segDir'.previous = prior[Tree]
    <3>1. CASE segDir.live = Absent /\ pc' = "restoreTarget" /\ UNCHANGED files
      BY <1>2, <2>3, <3>1, Still DEF Undoable
    <3>2. CASE Change(k, [live |-> Absent])
      <4>1. /\ hotDir' = hotDir /\ may' = may \union {<<hotDir', segDir'>>} /\ segDir' \in SegDirs
            /\ segDir'.live = Absent /\ segDir'.staged = segDir.staged /\ segDir'.previous = segDir.previous
        BY <1>6, <1>11, <3>2 DEF Change, ChangeSeg, Put, SegDirs, Originals, Hot, Tree
      <4>2. Good(hotDir', segDir')
        <5>1. Restorable(segDir', prior[Tree], Candidate)
          BY <2>3, <4>1 DEF Restorable, Available, Undoable
        <5> QED
          BY <1>2, <1>5, <1>6, <1>7, <4>1, <5>1, GoodPair
      <4> QED
        BY <1>2, <2>3, <4>1, <4>2, Added DEF Undoable
    <3> QED
      BY <2>2, <3>1, <3>2
  <2>5. UndoingOK'
    <3>1. /\ HotKept' = HotKept /\ Matching' /\ Restorable(segDir, prior[Tree], Candidate)'
          /\ Dir(k)' = segDir' /\ displaced' \in {Absent, Candidate}
          /\ Undoable(hotDir, prior[Hot])' = Undoable(hotDir, prior[Hot])
          /\ Restorable(hotDir, prior[Hot], Candidate)' = Restorable(hotDir, prior[Hot], Candidate)
      BY <1>1, <1>4, <1>7, <1>11, <2>1, <2>2, <2>3, <2>4
         DEF HotKept, Matching, journal, Undoable, Restorable, Available, Dir
    <3>2. /\ 1 < k /\ ~(2 < k) /\ Tree \in mutated
          /\ pc' \in Undoing /\ pc' \in {"restoreTarget", "syncDisplaced"}
      BY <1>1, <1>11, <2>2 DEF Undoing, Tree
    <3>3. /\ Hot \in mutated => Restorable(hotDir, prior[Hot], Candidate)' /\ Undoable(hotDir, prior[Hot])'
          /\ Hot \notin mutated => HotKept'
      BY <1>4, <3>1, <3>2
    <3> QED
      BY <1>1, <1>4, <1>7, <1>11, <2>1, <2>2, <2>4, <3>1, <3>2, <3>3 DEF UndoingOK
  <2>6. VarsOK'
    BY <1>2, <1>8, <2>2 DEF VarsOK
  <2> QED
    BY <2>2, <2>4, <2>5, <2>6, UndoingPlace DEF IndInv, Undoing
<1> QED
  BY <1>3, <1>9, <1>10, <1>11 DEF Targets

\* The displaced target is durably gone.
LEMMA SyncDisplacedInv ==
    ASSUME Ordered, IndInv, SyncDisplaced
    PROVE  IndInv'
<1>1. /\ pc = "syncDisplaced" /\ pc' = "restoreTarget" /\ k' = k /\ Sync(k)
      /\ UNCHANGED <<settings, gen, transaction, faults>>
  BY DEF SyncDisplaced, Step, At, Goto
<1>2. VarsOK /\ UndoingOK /\ PairsOK' /\ hotDir' = hotDir /\ segDir' = segDir
  BY <1>1, Synced DEF IndInv, PcOK
<1>3. VarsOK'
  BY <1>1, <1>2, StepVars DEF Importing, Undoing, VarsOK
<1>4. /\ config' = config /\ parked' = parked /\ gen' = gen /\ mutated' = mutated /\ prior' = prior
      /\ failed' = failed /\ displaced' = displaced
  BY <1>1 DEF settings, transaction
<1>5. UndoingOK'
  <2>1. /\ HotKept' = HotKept /\ TreeKept' = TreeKept /\ Matching' = Matching /\ journal' = journal /\ Dir(k)' = Dir(k)
        /\ Undoable(hotDir, prior[Hot])' = Undoable(hotDir, prior[Hot])
        /\ Undoable(segDir, prior[Tree])' = Undoable(segDir, prior[Tree])
        /\ Restorable(hotDir, prior[Hot], Candidate)' = Restorable(hotDir, prior[Hot], Candidate)
        /\ Restorable(segDir, prior[Tree], Candidate)' = Restorable(segDir, prior[Tree], Candidate)
        /\ Candidate' = Candidate
    BY <1>1, <1>2, <1>4 DEF HotKept, TreeKept, Matching, journal, Undoable, Restorable, Available, Candidate, Dir
  <2>2. k \notin Groups
    BY <1>1, <1>2, Numbers DEF UndoingOK, Undoing
  <2> QED
    BY <1>1, <1>2, <1>4, <2>1, <2>2 DEF UndoingOK, Undoing
<1> QED
  BY <1>1, <1>2, <1>3, <1>5, UndoingPlace DEF IndInv, Undoing

\* The original is back, or the target is missing again.
LEMMA RestoreTargetInv ==
    ASSUME Ordered, IndInv, RestoreTarget
    PROVE  IndInv'
<1>1. /\ pc = "restoreTarget" /\ pc' = "syncRestored" /\ k' = k
      /\ UNCHANGED <<gen, transaction, faults>>
  BY DEF RestoreTarget, At, Goto
<1>2. VarsOK /\ UndoingOK /\ PairsOK
  BY DEF IndInv, PcOK
<1>3. /\ Matching /\ k \in mutated
      /\ Hot \notin mutated => HotKept
      /\ Tree \notin mutated => TreeKept
      /\ \A t \in mutated : t > k => failed
      /\ \A g \in Groups :
            /\ g \notin mutated => config[g] = prior[g] /\ parked[g] = Absent
            /\ g \in mutated /\ g < k => parked[g] = prior[g]
      /\ Hot \in mutated => Restorable(hotDir, prior[Hot], Candidate) /\ (1 < k => Undoable(hotDir, prior[Hot]))
      /\ Tree \in mutated => Restorable(segDir, prior[Tree], Candidate) /\ (2 < k => Undoable(segDir, prior[Tree]))
      /\ IF k \in Groups THEN config[k] = Absent /\ parked[k] = prior[k]
         ELSE Dir(k).live = Absent /\ Dir(k).previous = prior[k]
  BY <1>1, <1>2 DEF UndoingOK, Undoing
<1>4. k \in Targets /\ k \in 1..LastTarget
  BY <1>2, <1>3, Numbers DEF VarsOK
<1>5. /\ Restorable(hotDir, prior[Hot], Candidate) \/ Changed(hotDir.live)
      /\ Restorable(segDir, prior[Tree], Candidate)
  BY <1>1, <1>2, <1>3, UndoingHistory DEF Undoing
<1>6. /\ hotDir \in HotDirs /\ segDir \in SegDirs /\ hotDir.previous \in {Absent, prior[Hot]}
      /\ segDir.staged \in {Absent, Torn, Candidate} /\ segDir.previous \in {Absent, prior[Tree]}
      /\ hotDir.staged \in {Absent, Candidate} /\ hotDir.journal \in Journals
      /\ hotDir.journal.candidate = Candidate
      /\ hotDir.journal.prior[1] = prior[Hot] /\ hotDir.journal.prior[2] = prior[Tree]
  BY <1>2, <1>3, Leftovers
<1>7. /\ Candidate' = Candidate /\ pc \in Importing /\ pc' \in Importing /\ pc' \in Undoing
      /\ mutated' = mutated /\ prior' = prior /\ failed' = failed
  BY <1>1 DEF Candidate, Importing, Undoing, transaction
<1>8. ASSUME config' \in [Groups -> Generations], parked' \in [Groups -> Generations]
      PROVE  VarsOK'
  BY <1>1, <1>2, <1>7, <1>8 DEF VarsOK, transaction
<1>9. CASE k \in Groups
  <2>1. /\ config' = [config EXCEPT ![k] = parked[k]] /\ parked' = [parked EXCEPT ![k] = Absent] /\ UNCHANGED files
    BY <1>9 DEF RestoreTarget
  <2>2. PairsOK' /\ hotDir' = hotDir /\ segDir' = segDir
    BY <1>2, <2>1, Still
  <2>3. /\ config' \in [Groups -> Generations] /\ parked' \in [Groups -> Generations]
        /\ config'[k] = prior[k] /\ parked'[k] = Absent
        /\ \A g \in Groups : g # k => config'[g] = config[g] /\ parked'[g] = parked[g]
    BY <1>2, <1>3, <1>9, <2>1 DEF VarsOK, Generations
  <2>4. UndoingOK'
    <3>1. /\ HotKept' = HotKept /\ TreeKept' = TreeKept /\ Matching'
          /\ Undoable(hotDir, prior[Hot])' = Undoable(hotDir, prior[Hot])
          /\ Undoable(segDir, prior[Tree])' = Undoable(segDir, prior[Tree])
          /\ Restorable(hotDir, prior[Hot], Candidate)' = Restorable(hotDir, prior[Hot], Candidate)
          /\ Restorable(segDir, prior[Tree], Candidate)' = Restorable(segDir, prior[Tree], Candidate)
      BY <1>3, <1>7, <2>2 DEF HotKept, TreeKept, Matching, journal, Undoable, Restorable, Available
    <3> QED
      BY <1>1, <1>3, <1>4, <1>7, <1>9, <2>3, <3>1 DEF UndoingOK
  <2> QED
    BY <1>7, <1>8, <2>2, <2>3, <2>4, UndoingPlace DEF IndInv
<1>10. CASE k = Hot
  <2>1. k \notin Groups /\ Dir(k) = hotDir /\ k # Tree
    BY <1>10, Numbers DEF Dir
  <2>2. /\ config' = config /\ parked' = parked
        /\ \/ prior[Hot] = Absent /\ UNCHANGED files
           \/ Change(k, [live |-> hotDir.previous, previous |-> Absent])
    BY <1>10, <2>1 DEF RestoreTarget, settings
  <2>3. hotDir.live = Absent /\ hotDir.previous = prior[Hot]
    BY <1>3, <1>10, <2>1
  <2>4. PairsOK' /\ segDir' = segDir /\ hotDir'.live = prior[Hot] /\ hotDir'.journal = hotDir.journal
    <3>1. CASE prior[Hot] = Absent /\ UNCHANGED files
      BY <1>2, <2>3, <3>1, Still
    <3>2. CASE Change(k, [live |-> hotDir.previous, previous |-> Absent])
      <4>1. /\ segDir' = segDir /\ may' = may \union {<<hotDir', segDir'>>} /\ hotDir' \in HotDirs
            /\ hotDir'.live = prior[Hot] /\ hotDir'.staged = hotDir.staged /\ hotDir'.previous = Absent
            /\ hotDir'.journal = hotDir.journal
        BY <1>6, <1>10, <2>3, <3>2 DEF Change, ChangeHot, Put, HotDirs, Originals
      <4>2. Good(hotDir', segDir')
        <5>1. Restorable(hotDir', prior[Hot], Candidate) /\ Restorable(segDir', prior[Tree], Candidate)
          BY <1>5, <4>1 DEF Restorable, Available
        <5> QED
          BY <1>2, <1>6, <1>7, <4>1, <5>1, GoodPair
      <4> QED
        BY <1>2, <4>1, <4>2, Added
    <3> QED
      BY <2>2, <3>1, <3>2
  <2>5. UndoingOK'
    <3>1. /\ TreeKept' = TreeKept /\ Matching' /\ Restorable(hotDir, prior[Hot], Candidate)' /\ Dir(k)' = hotDir'
          /\ Undoable(segDir, prior[Tree])' = Undoable(segDir, prior[Tree])
          /\ Restorable(segDir, prior[Tree], Candidate)' = Restorable(segDir, prior[Tree], Candidate)
      BY <1>1, <1>3, <1>7, <1>10, <2>4 DEF TreeKept, Matching, journal, Undoable, Restorable, Available, Dir
    <3>2. ~(1 < k) /\ ~(2 < k) /\ Hot \in mutated
      BY <1>3, <1>10 DEF Hot
    <3> QED
      BY <1>1, <1>3, <1>7, <1>10, <2>1, <2>2, <2>4, <3>1, <3>2 DEF UndoingOK
  <2>6. VarsOK'
    BY <1>2, <1>8, <2>2 DEF VarsOK
  <2> QED
    BY <1>7, <2>4, <2>5, <2>6, UndoingPlace DEF IndInv
<1>11. CASE k = Tree
  <2>1. k \notin Groups /\ Dir(k) = segDir /\ k # Hot
    BY <1>11, Numbers DEF Dir
  <2>2. /\ config' = config /\ parked' = parked
        /\ \/ prior[Tree] = Absent /\ UNCHANGED files
           \/ Change(k, [live |-> segDir.previous, previous |-> Absent])
    BY <1>11, <2>1 DEF RestoreTarget, settings
  <2>3. segDir.live = Absent /\ segDir.previous = prior[Tree]
    BY <1>3, <1>11, <2>1
  <2>4. PairsOK' /\ hotDir' = hotDir /\ segDir'.live = prior[Tree]
    <3>1. CASE prior[Tree] = Absent /\ UNCHANGED files
      BY <1>2, <2>3, <3>1, Still
    <3>2. CASE Change(k, [live |-> segDir.previous, previous |-> Absent])
      <4>1. /\ hotDir' = hotDir /\ may' = may \union {<<hotDir', segDir'>>} /\ segDir' \in SegDirs
            /\ segDir'.live = prior[Tree] /\ segDir'.staged = segDir.staged /\ segDir'.previous = Absent
        BY <1>6, <1>11, <2>3, <3>2 DEF Change, ChangeSeg, Put, SegDirs, Originals, Hot, Tree
      <4>2. Good(hotDir', segDir')
        <5>1. Restorable(segDir', prior[Tree], Candidate)
          BY <4>1 DEF Restorable, Available
        <5> QED
          BY <1>2, <1>5, <1>6, <1>7, <4>1, <5>1, GoodPair
      <4> QED
        BY <1>2, <4>1, <4>2, Added
    <3> QED
      BY <2>2, <3>1, <3>2
  <2>5. UndoingOK'
    <3>1. /\ HotKept' = HotKept /\ Matching' /\ Restorable(segDir, prior[Tree], Candidate)' /\ Dir(k)' = segDir'
          /\ Undoable(hotDir, prior[Hot])' = Undoable(hotDir, prior[Hot])
          /\ Restorable(hotDir, prior[Hot], Candidate)' = Restorable(hotDir, prior[Hot], Candidate)
      BY <1>1, <1>3, <1>7, <1>11, <2>1, <2>4 DEF HotKept, Matching, journal, Undoable, Restorable, Available, Dir
    <3>2. 1 < k /\ ~(2 < k) /\ Tree \in mutated
      BY <1>3, <1>11 DEF Tree
    <3>3. /\ Hot \in mutated => Restorable(hotDir, prior[Hot], Candidate)' /\ Undoable(hotDir, prior[Hot])'
          /\ Hot \notin mutated => HotKept'
      BY <1>3, <3>1, <3>2
    <3> QED
      BY <1>1, <1>3, <1>7, <1>11, <2>1, <2>2, <2>4, <3>1, <3>2, <3>3 DEF UndoingOK
  <2>6. VarsOK'
    BY <1>2, <1>8, <2>2 DEF VarsOK
  <2> QED
    BY <1>7, <2>4, <2>5, <2>6, UndoingPlace DEF IndInv
<1> QED
  BY <1>4, <1>9, <1>10, <1>11 DEF Targets

\* The target is durably as it was, and its entry is done.
LEMMA SyncRestoredInv ==
    ASSUME Ordered, IndInv, SyncRestored
    PROVE  IndInv'
<1>1. /\ pc = "syncRestored" /\ pc' = "rollback" /\ k' = k - 1 /\ mutated' = mutated \ {k}
      /\ UNCHANGED <<settings, gen, bundle, prior, marked, failed, result, faults>>
  BY DEF SyncRestored, At, Goto
<1>2. VarsOK /\ UndoingOK /\ PairsOK
  BY DEF IndInv, PcOK
<1>3. PairsOK' /\ hotDir' = hotDir /\ segDir' = segDir
  BY <1>2, Still, Synced DEF SyncRestored
<1>4. /\ Matching /\ k \in mutated
      /\ Hot \notin mutated => HotKept
      /\ Tree \notin mutated => TreeKept
      /\ \A t \in mutated : t > k => failed
      /\ \A g \in Groups :
            /\ g \notin mutated => config[g] = prior[g] /\ parked[g] = Absent
            /\ g \in mutated /\ g < k => parked[g] = prior[g]
      /\ Hot \in mutated => Restorable(hotDir, prior[Hot], Candidate) /\ (1 < k => Undoable(hotDir, prior[Hot]))
      /\ Tree \in mutated => Restorable(segDir, prior[Tree], Candidate) /\ (2 < k => Undoable(segDir, prior[Tree]))
      /\ IF k \in Groups THEN config[k] = prior[k] /\ parked[k] = Absent ELSE Dir(k).live = prior[k]
  BY <1>1, <1>2 DEF UndoingOK, Undoing
<1>5. /\ k \in 1..LastTarget /\ k' \in 0..LastTarget /\ LastTarget \in Nat
      /\ \A t \in mutated : t \in 1..LastTarget
  BY <1>1, <1>2, <1>4, Numbers, RestoreAssumption DEF VarsOK, LastTarget
<1>6. VarsOK'
  <2>1. pc \in Importing /\ pc' \in Importing /\ mutated' \subseteq Targets
    BY <1>1, <1>2 DEF Importing, Undoing, VarsOK
  <2> QED
    BY <1>1, <1>2, <1>5, <2>1 DEF VarsOK, settings
<1>7. /\ HotKept' = HotKept /\ TreeKept' = TreeKept /\ Matching' /\ pc' \in Undoing
      /\ config' = config /\ parked' = parked /\ prior' = prior /\ failed' = failed
      /\ Undoable(hotDir, prior[Hot])' = Undoable(hotDir, prior[Hot])
      /\ Undoable(segDir, prior[Tree])' = Undoable(segDir, prior[Tree])
      /\ Restorable(hotDir, prior[Hot], Candidate)' = Restorable(hotDir, prior[Hot], Candidate)
      /\ Restorable(segDir, prior[Tree], Candidate)' = Restorable(segDir, prior[Tree], Candidate)
  BY <1>1, <1>3, <1>4 DEF HotKept, TreeKept, Matching, journal, Undoable, Restorable, Available, Candidate,
                          Undoing, settings
<1>8. /\ Hot \notin mutated' => HotKept'
      /\ Hot \in mutated' =>
            /\ Restorable(hotDir, prior[Hot], Candidate)'
            /\ 1 < k' \/ 1 = k' => Undoable(hotDir, prior[Hot])'
  <2>1. k = Hot => HotKept
    BY <1>4, Numbers DEF HotKept, Dir
  <2>2. 1 < k' \/ 1 = k' => 1 < k
    BY <1>1, <1>5
  <2> QED
    BY <1>1, <1>4, <1>7, <2>1, <2>2
<1>9. /\ Tree \notin mutated' => TreeKept'
      /\ Tree \in mutated' =>
            /\ Restorable(segDir, prior[Tree], Candidate)'
            /\ 2 < k' \/ 2 = k' => Undoable(segDir, prior[Tree])'
  <2>1. k = Tree => TreeKept
    BY <1>4, Numbers DEF TreeKept, Dir
  <2>2. 2 < k' \/ 2 = k' => 2 < k
    BY <1>1, <1>5
  <2> QED
    BY <1>1, <1>4, <1>7, <2>1, <2>2
<1>10. \A g \in Groups :
         /\ g \notin mutated' => config[g] = prior[g] /\ parked[g] = Absent
         /\ g \in mutated' /\ (g < k' \/ g = k') => parked[g] = prior[g]
  <2> SUFFICES ASSUME NEW g \in Groups
               PROVE  /\ g \notin mutated' => config[g] = prior[g] /\ parked[g] = Absent
                      /\ g \in mutated' /\ (g < k' \/ g = k') => parked[g] = prior[g]
    OBVIOUS
  <2>1. g \notin mutated' => g = k \/ g \notin mutated
    BY <1>1
  <2>2. g \in mutated' /\ (g < k' \/ g = k') => g \in mutated /\ g < k
    BY <1>1, <1>5
  <2> QED
    BY <1>4, <2>1, <2>2
<1>11. \A t \in mutated' : t > k' => failed
  BY <1>1, <1>4, <1>5
<1>12. UndoingOK'
  BY <1>1, <1>7, <1>8, <1>9, <1>10, <1>11 DEF UndoingOK
<1> QED
  BY <1>3, <1>6, <1>7, <1>12, UndoingPlace DEF IndInv

\* A target that cannot be rolled back keeps its entry, and what recovery needs.
LEMMA RestoreFailsInv ==
    ASSUME Ordered, IndInv, RestoreFails
    PROVE  IndInv'
<1>1. /\ pc \in Undoing /\ pc' = "rollback" /\ k' = k - 1 /\ Fault /\ failed' = TRUE /\ displaced' = Absent
      /\ pc = "rollback" => k \in mutated
      /\ UNCHANGED <<parked, gen, bundle, prior, mutated, marked, result>>
  BY DEF RestoreFails, At, Goto, Undoing
<1>2. VarsOK /\ UndoingOK /\ PairsOK
  BY DEF IndInv, PcOK
<1>3. /\ Matching /\ k \in mutated
      /\ Hot \notin mutated => HotKept
      /\ Tree \notin mutated => TreeKept
      /\ \A g \in Groups :
            /\ g \notin mutated => config[g] = prior[g] /\ parked[g] = Absent
            /\ g \in mutated /\ g < k => parked[g] = prior[g]
      /\ Hot \in mutated => Restorable(hotDir, prior[Hot], Candidate) /\ (1 < k => Undoable(hotDir, prior[Hot]))
      /\ Tree \in mutated => Restorable(segDir, prior[Tree], Candidate) /\ (2 < k => Undoable(segDir, prior[Tree]))
  BY <1>1, <1>2 DEF UndoingOK
<1>4. /\ k \in Targets /\ k \in 1..LastTarget /\ k' \in 0..LastTarget /\ LastTarget \in Nat
      /\ \A t \in mutated : t \in 1..LastTarget
  BY <1>1, <1>2, <1>3, Numbers, RestoreAssumption DEF VarsOK, LastTarget
<1>5. /\ Restorable(hotDir, prior[Hot], Candidate) \/ Changed(hotDir.live)
      /\ Restorable(segDir, prior[Tree], Candidate)
  BY <1>1, <1>2, <1>3, UndoingHistory
<1>6. /\ hotDir \in HotDirs /\ segDir \in SegDirs /\ hotDir.previous \in {Absent, prior[Hot]}
      /\ segDir.staged \in {Absent, Torn, Candidate} /\ segDir.previous \in {Absent, prior[Tree]}
      /\ hotDir.staged \in {Absent, Candidate} /\ hotDir.journal \in Journals
      /\ hotDir.journal.candidate = Candidate
      /\ hotDir.journal.prior[1] = prior[Hot] /\ hotDir.journal.prior[2] = prior[Tree]
  BY <1>2, <1>3, Leftovers
<1>7. /\ Candidate' = Candidate /\ pc \in Importing /\ pc' \in Importing /\ pc' \in Undoing
      /\ Candidate \in Originals
  BY <1>1, <1>2, CandidateContent DEF Candidate, Importing, Undoing, Originals
<1>8. ASSUME config' \in [Groups -> Generations]
      PROVE  VarsOK'
  <2>1. faults' \in 0..MaxFaults
    BY <1>1, <1>2, FaultCount
  <2> QED
    BY <1>1, <1>2, <1>4, <1>7, <1>8, <2>1 DEF VarsOK
\* What the rollback has still to do, and what is unchanged, is known as before.
<1>9. ASSUME Matching', \A g \in Groups : g # k => config'[g] = config[g],
             k # Hot => hotDir' = hotDir, k # Tree => segDir' = segDir,
             k = Hot => Restorable(hotDir, prior[Hot], Candidate)',
             k = Tree => Restorable(segDir, prior[Tree], Candidate)'
      PROVE  UndoingOK'
  <2>1. /\ Hot \notin mutated' => HotKept'
        /\ Hot \in mutated' =>
              /\ Restorable(hotDir, prior[Hot], Candidate)'
              /\ 1 < k' \/ 1 = k' => Undoable(hotDir, prior[Hot])'
    <3>1. CASE k = Hot
      <4>1. ~(1 < k' \/ 1 = k')
        BY <1>1, <3>1 DEF Hot
      <4> QED
        BY <1>1, <1>3, <1>9, <3>1, <4>1
    <3>2. CASE k # Hot
      <4>1. 1 < k' \/ 1 = k' => 1 < k
        BY <1>1, <1>4
      <4> QED
        BY <1>1, <1>3, <1>7, <1>9, <3>2, <4>1 DEF HotKept, Undoable, Restorable, Available
    <3> QED
      BY <3>1, <3>2
  <2>2. /\ Tree \notin mutated' => TreeKept'
        /\ Tree \in mutated' =>
              /\ Restorable(segDir, prior[Tree], Candidate)'
              /\ 2 < k' \/ 2 = k' => Undoable(segDir, prior[Tree])'
    <3>1. CASE k = Tree
      <4>1. ~(2 < k' \/ 2 = k')
        BY <1>1, <3>1 DEF Tree
      <4> QED
        BY <1>1, <1>3, <1>9, <3>1, <4>1
    <3>2. CASE k # Tree
      <4>1. 2 < k' \/ 2 = k' => 2 < k
        BY <1>1, <1>4
      <4> QED
        BY <1>1, <1>3, <1>7, <1>9, <3>2, <4>1 DEF TreeKept, Undoable, Restorable, Available
    <3> QED
      BY <3>1, <3>2
  <2>3. \A g \in Groups :
          /\ g \notin mutated' => config'[g] = prior'[g] /\ parked'[g] = Absent
          /\ g \in mutated' /\ (g < k' \/ g = k') => parked'[g] = prior'[g]
    <3> SUFFICES ASSUME NEW g \in Groups
                 PROVE  /\ g \notin mutated' => config'[g] = prior'[g] /\ parked'[g] = Absent
                        /\ g \in mutated' /\ (g < k' \/ g = k') => parked'[g] = prior'[g]
      OBVIOUS
    <3>1. g \notin mutated' => config'[g] = config[g]
      BY <1>1, <1>3, <1>9
    <3>2. g \in mutated' /\ (g < k' \/ g = k') => g \in mutated /\ g < k
      BY <1>1, <1>4
    <3> QED
      BY <1>1, <1>3, <3>1, <3>2
  <2> QED
    BY <1>1, <1>7, <1>9, <2>1, <2>2, <2>3 DEF UndoingOK
<1>10. CASE UNCHANGED <<files, config>>
  <2>1. PairsOK' /\ hotDir' = hotDir /\ segDir' = segDir
    BY <1>2, <1>10, Still
  <2>2. VarsOK'
    BY <1>2, <1>8, <1>10 DEF VarsOK
  <2>3. UndoingOK'
    <3>1. Matching'
      BY <1>1, <1>3, <1>7, <2>1 DEF Matching, journal
    <3>2. /\ k = Hot => Restorable(hotDir, prior[Hot], Candidate)'
          /\ k = Tree => Restorable(segDir, prior[Tree], Candidate)'
      BY <1>1, <1>3, <1>7, <2>1 DEF Restorable, Available
    <3> QED
      BY <1>9, <1>10, <2>1, <3>1, <3>2
  <2> QED
    BY <1>7, <2>1, <2>2, <2>3, UndoingPlace DEF IndInv
<1>11. CASE ~UNCHANGED <<files, config>>
  <2>1. /\ pc = "restoreTarget" /\ displaced # Absent /\ prior[k] # Absent
        /\ IF k \in Groups
           THEN config' = [config EXCEPT ![k] = displaced] /\ UNCHANGED files
           ELSE Change(k, [live |-> displaced]) /\ UNCHANGED config
    BY <1>11 DEF RestoreFails, At
  <2>2. /\ displaced \in IF k \in Groups THEN Generations ELSE {Absent, Candidate}
        /\ IF k \in Groups THEN config[k] = Absent /\ parked[k] = prior[k]
           ELSE Dir(k).live = Absent /\ Dir(k).previous = prior[k]
    BY <1>2, <2>1 DEF UndoingOK, Undoing
  <2>3. CASE k \in Groups
    <3>1. PairsOK' /\ hotDir' = hotDir /\ segDir' = segDir
      BY <1>2, <2>1, <2>3, Still
    <3>2. config' \in [Groups -> Generations] /\ \A g \in Groups : g # k => config'[g] = config[g]
      BY <1>2, <2>1, <2>2, <2>3 DEF VarsOK
    <3>3. Matching' /\ k # Hot /\ k # Tree
      BY <1>1, <1>3, <1>7, <2>3, <3>1, Numbers DEF Matching, journal
    <3> QED
      BY <1>7, <1>8, <1>9, <3>1, <3>2, <3>3, UndoingPlace DEF IndInv
  <2>4. CASE k = Hot
    <3>1. k \notin Groups /\ Dir(k) = hotDir /\ k # Tree
      BY <2>4, Numbers DEF Dir
    <3>2. /\ segDir' = segDir /\ may' = may \union {<<hotDir', segDir'>>} /\ hotDir' \in HotDirs
          /\ hotDir'.live = Candidate /\ hotDir'.staged = hotDir.staged /\ hotDir'.previous = prior[Hot]
          /\ hotDir'.journal = hotDir.journal /\ config' = config
      BY <1>6, <1>7, <2>1, <2>2, <2>4, <3>1 DEF Change, ChangeHot, Put, HotDirs
    <3>3. Restorable(hotDir', prior[Hot], Candidate) /\ Restorable(segDir', prior[Tree], Candidate)
      BY <1>5, <3>2 DEF Restorable, Available
    <3>4. Good(hotDir', segDir')
      BY <1>2, <1>6, <1>7, <3>2, <3>3, GoodPair
    <3>5. PairsOK' /\ VarsOK'
      BY <1>2, <1>8, <3>2, <3>4, Added DEF VarsOK
    <3>6. UndoingOK'
      <4>1. Matching' /\ Restorable(hotDir, prior[Hot], Candidate)'
        BY <1>1, <1>3, <1>7, <3>2, <3>3 DEF Matching, journal
      <4> QED
        BY <1>9, <2>4, <3>1, <3>2, <4>1
    <3> QED
      BY <1>7, <3>5, <3>6, UndoingPlace DEF IndInv
  <2>5. CASE k = Tree
    <3>1. k \notin Groups /\ Dir(k) = segDir /\ k # Hot
      BY <2>5, Numbers DEF Dir
    <3>2. /\ hotDir' = hotDir /\ may' = may \union {<<hotDir', segDir'>>} /\ segDir' \in SegDirs
          /\ segDir'.live = Candidate /\ segDir'.staged = segDir.staged /\ segDir'.previous = prior[Tree]
          /\ config' = config
      BY <1>6, <1>7, <2>1, <2>2, <2>5, <3>1 DEF Change, ChangeSeg, Put, SegDirs
    <3>3. Restorable(segDir', prior[Tree], Candidate)
      BY <3>2 DEF Restorable, Available
    <3>4. Good(hotDir', segDir')
      BY <1>2, <1>5, <1>6, <1>7, <3>2, <3>3, GoodPair
    <3>5. PairsOK' /\ VarsOK'
      BY <1>2, <1>8, <3>2, <3>4, Added DEF VarsOK
    <3>6. UndoingOK'
      <4>1. Matching' /\ Restorable(segDir, prior[Tree], Candidate)'
        BY <1>1, <1>3, <1>7, <3>2, <3>3 DEF Matching, journal
      <4> QED
        BY <1>9, <2>5, <3>1, <3>2, <4>1
    <3> QED
      BY <1>7, <3>5, <3>6, UndoingPlace DEF IndInv
  <2> QED
    BY <1>4, <2>3, <2>4, <2>5 DEF Targets
<1> QED
  BY <1>10, <1>11

(***************************************************************************)
(* After the rollback.                                                     *)
(***************************************************************************)

\* An incomplete rollback leaves the journal and what recovery needs.
LEMMA RollbackIncompleteInv ==
    ASSUME Ordered, IndInv, RollbackIncomplete
    PROVE  IndInv'
<1>1. Stops("incomplete") /\ UNCHANGED <<files, config, gen, faults>>
  BY DEF RollbackIncomplete
<1>2. PairsOK'
  BY <1>1, Still DEF IndInv
<1> QED
  BY <1>1, <1>2, Ends DEF IndInv, VarsOK

\* The staged names do not matter to readers and recovery, except that a staged hot
\* database is complete.
LEMMA StagedGone ==
    ASSUME PairsOK, NEW h \in HotDirs, NEW s \in SegDirs,
           h.live = hotDir.live, h.journal = hotDir.journal, h.previous = hotDir.previous,
           s.live = segDir.live, s.previous = segDir.previous,
           h.staged \in {hotDir.staged, Absent}, s.staged \in {segDir.staged, Absent, Torn}
    PROVE  Good(h, s)
<1>1. Good(hotDir, segDir)
  BY Here
<1>2. CASE h.journal \in {Absent, Torn}
  BY <1>1, <1>2 DEF Good
<1>3. CASE h.journal \notin {Absent, Torn}
  <2>1. GoodJournal(hotDir, segDir)
    BY <1>1, <1>3 DEF Good
  <2>2. GoodJournal(h, s)
    BY <2>1 DEF GoodJournal, CandidateLive, Restorable, Available
  <2> QED
    BY <1>3, <2>2 DEF Good
<1> QED
  BY <1>2, <1>3

\* Once everything is undone, the history is one generation again.
LEMMA KeptTogether ==
    ASSUME VarsOK, pc \in Importing, HotKept, TreeKept
    PROVE  Together(hotDir.live, segDir.live)
<1>1. Together(prior[Hot], prior[Tree])
  BY DEF VarsOK
<1> QED
  BY <1>1, ContentsAssumption DEF HotKept, TreeKept, Together

\* Without a failure no entry is left: everything is as it was.
LEMMA RollbackDoneInv ==
    ASSUME Ordered, IndInv, RollbackDone
    PROVE  IndInv'
<1>1. /\ pc = "rollback" /\ pc' = "unstaged" /\ k' = Hot /\ k = 0 /\ ~failed /\ ChangeHot([staged |-> Absent])
      /\ UNCHANGED <<settings, gen, transaction, faults>>
  BY DEF RollbackDone, Step, At, Goto
<1>2. VarsOK /\ UndoingOK /\ PairsOK /\ hotDir \in HotDirs /\ segDir \in SegDirs
  BY Here DEF IndInv, PcOK
<1>3. mutated = {}
  <2>1. ASSUME NEW t \in mutated
        PROVE  FALSE
    <3>1. t > k
      BY <1>1, <1>2, Numbers, RestoreAssumption DEF VarsOK, LastTarget
    <3> QED
      BY <1>1, <1>2, <3>1 DEF UndoingOK, Undoing
  <2> QED
    BY <2>1
<1>4. /\ HotKept /\ TreeKept /\ (Matching \/ hotDir.journal = Absent)
      /\ \A g \in Groups : config[g] = prior[g] /\ parked[g] = Absent
  BY <1>1, <1>2, <1>3 DEF UndoingOK, Undoing, journal
<1>5. /\ segDir' = segDir /\ may' = may \union {<<hotDir', segDir'>>} /\ hotDir' \in HotDirs
      /\ hotDir'.live = hotDir.live /\ hotDir'.staged = Absent /\ hotDir'.previous = hotDir.previous
      /\ hotDir'.journal = hotDir.journal
  BY <1>1, <1>2 DEF ChangeHot, Put, HotDirs, Originals
<1>6. PairsOK'
  <2>1. Good(hotDir', segDir')
    BY <1>2, <1>5, StagedGone
  <2> QED
    BY <1>2, <1>5, <2>1, Added
<1>7. VarsOK'
  BY <1>1, <1>2, Numbers, StepVars DEF Importing, Undoing, Undone
<1>8. UndoneOK'
  <2>1. HotKept' /\ TreeKept' /\ (Matching' \/ journal' = Absent)
    BY <1>1, <1>4, <1>5 DEF HotKept, TreeKept, Matching, journal, Candidate, transaction
  <2>2. failed' = FALSE
    BY <1>1, <1>2 DEF VarsOK, transaction
  <2> QED
    BY <1>1, <1>3, <1>4, <2>1, <2>2 DEF UndoneOK, settings, transaction
<1> QED
  BY <1>1, <1>6, <1>7, <1>8, UndonePlace DEF IndInv, Undone

\* A step after which everything is still undone.
LEMMA StaysUndone ==
    ASSUME VarsOK, UndoneOK, PairsOK', pc \in Undone, pc' \in Undone, k' \in 0..LastTarget,
           UNCHANGED <<settings, gen, transaction, faults>>,
           hotDir'.live = hotDir.live, segDir'.live = segDir.live, hotDir'.journal \in {hotDir.journal, Absent},
           pc' = "unstaged" => k' \in {Hot, Tree}, pc' = "reported" => may' = {<<hotDir', segDir'>>}
    PROVE  IndInv'
<1>1. VarsOK'
  BY StepVars DEF Importing
<1>2. UndoneOK'
  <2>1. HotKept' /\ TreeKept' /\ (Matching' \/ journal' = Absent)
    BY DEF UndoneOK, HotKept, TreeKept, Matching, journal, Candidate, transaction
  <2> QED
    BY <2>1 DEF UndoneOK, settings, transaction
<1> QED
  BY <1>1, <1>2, UndonePlace DEF IndInv

\* A staged candidate is durably gone.
LEMMA SyncUnstagedInv ==
    ASSUME Ordered, IndInv, SyncUnstaged
    PROVE  IndInv'
<1>1. /\ pc = "unstaged" /\ pc' \in {"unstageTree", "unmark", "reported"} /\ k' = Tree /\ Sync(k)
      /\ UNCHANGED <<settings, gen, transaction, faults>>
  BY DEF SyncUnstaged, Step, At, Goto
<1>2. VarsOK /\ UndoneOK /\ PairsOK' /\ hotDir' = hotDir /\ segDir' = segDir /\ may' = {<<hotDir, segDir>>}
  BY <1>1, Synced DEF IndInv, PcOK
<1> QED
  BY <1>1, <1>2, Numbers, StaysUndone DEF Undone

\* The staged tree goes file by file.
LEMMA UnstageTreeInv ==
    ASSUME Ordered, IndInv, UnstageTree
    PROVE  IndInv'
<1>1. /\ pc = "unstageTree" /\ pc' = "unstageRest" /\ k' = Tree /\ ChangeSeg([staged |-> Torn])
      /\ UNCHANGED <<settings, gen, transaction, faults>>
  BY DEF UnstageTree, Step, At, Goto
<1>2. VarsOK /\ UndoneOK /\ PairsOK /\ hotDir \in HotDirs /\ segDir \in SegDirs
  BY Here DEF IndInv, PcOK
<1>3. /\ hotDir' = hotDir /\ may' = may \union {<<hotDir', segDir'>>} /\ segDir' \in SegDirs
      /\ segDir'.live = segDir.live /\ segDir'.staged = Torn /\ segDir'.previous = segDir.previous
  BY <1>1, <1>2 DEF ChangeSeg, Put, SegDirs, Originals
<1>4. PairsOK'
  <2>1. Good(hotDir', segDir')
    BY <1>2, <1>3, StagedGone
  <2> QED
    BY <1>2, <1>3, <2>1, Added
<1> QED
  BY <1>1, <1>2, <1>3, <1>4, Numbers, StaysUndone DEF Undone

\* The rest of the staged tree goes.
LEMMA UnstageRestInv ==
    ASSUME Ordered, IndInv, UnstageRest
    PROVE  IndInv'
<1>1. /\ pc = "unstageRest" /\ pc' = "unstaged" /\ k' = Tree /\ ChangeSeg([staged |-> Absent])
      /\ UNCHANGED <<settings, gen, transaction, faults>>
  BY DEF UnstageRest, Step, At, Goto
<1>2. VarsOK /\ UndoneOK /\ PairsOK /\ hotDir \in HotDirs /\ segDir \in SegDirs
  BY Here DEF IndInv, PcOK
<1>3. /\ hotDir' = hotDir /\ may' = may \union {<<hotDir', segDir'>>} /\ segDir' \in SegDirs
      /\ segDir'.live = segDir.live /\ segDir'.staged = Absent /\ segDir'.previous = segDir.previous
  BY <1>1, <1>2 DEF ChangeSeg, Put, SegDirs, Originals
<1>4. PairsOK'
  <2>1. Good(hotDir', segDir')
    BY <1>2, <1>3, StagedGone
  <2> QED
    BY <1>2, <1>3, <2>1, Added
<1> QED
  BY <1>1, <1>2, <1>3, <1>4, Numbers, StaysUndone DEF Undone

\* The journal goes when everything is undone.
LEMMA UnmarkInv ==
    ASSUME Ordered, IndInv, Unmark
    PROVE  IndInv'
<1>1. /\ pc = "unmark" /\ pc' = "syncUnmarked" /\ k' = 0 /\ ChangeHot([journal |-> Absent])
      /\ UNCHANGED <<settings, gen, transaction, faults>>
  BY DEF Unmark, Step, At, Goto
<1>2. VarsOK /\ UndoneOK /\ PairsOK /\ hotDir \in HotDirs /\ segDir \in SegDirs
  BY Here DEF IndInv, PcOK
<1>3. /\ segDir' = segDir /\ may' = may \union {<<hotDir', segDir'>>} /\ hotDir' \in HotDirs
      /\ hotDir'.live = hotDir.live /\ hotDir'.journal = Absent
  BY <1>1, <1>2 DEF ChangeHot, Put, HotDirs
<1>4. Together(hotDir.live, segDir.live)
  BY <1>1, <1>2, KeptTogether DEF UndoneOK, Undone, Importing
<1>5. PairsOK'
  <2>1. Good(hotDir', segDir')
    BY <1>2, <1>3, <1>4 DEF Good
  <2> QED
    BY <1>2, <1>3, <2>1, Added
<1> QED
  BY <1>1, <1>2, <1>3, <1>5, Numbers, StaysUndone DEF Undone

\* Its removal is durable, so that no power loss can bring the journal back.
LEMMA SyncUnmarkedInv ==
    ASSUME Ordered, IndInv, SyncUnmarked
    PROVE  IndInv'
<1>1. /\ pc = "syncUnmarked" /\ pc' = "reported" /\ k' = 0 /\ SyncHot
      /\ UNCHANGED <<settings, gen, transaction, faults>>
  BY DEF SyncUnmarked, Step, At, Goto
<1>2. VarsOK /\ UndoneOK /\ PairsOK' /\ hotDir' = hotDir /\ segDir' = segDir /\ may' = {<<hotDir, segDir>>}
  BY <1>1, SyncedHot DEF IndInv, PcOK
<1> QED
  BY <1>1, <1>2, Numbers, StaysUndone DEF Undone

\* The import reports that it has failed, and ends.
LEMMA ReportInv ==
    ASSUME Ordered, IndInv, Report
    PROVE  IndInv'
<1>1. Stops("failed") /\ UNCHANGED <<files, config, gen, faults>>
  BY DEF Report
<1>2. PairsOK'
  BY <1>1, Still DEF IndInv
<1> QED
  BY <1>1, <1>2, Ends DEF IndInv, VarsOK

\* An error while the candidates are removed leaves a history that is as it was.
LEMMA CleanupFailsInv ==
    ASSUME Ordered, IndInv, CleanupFails
    PROVE  IndInv'
<1>1. Fault /\ Stops("incomplete") /\ UNCHANGED <<files, config, gen>>
  BY DEF CleanupFails
<1>2. PairsOK' /\ faults' \in 0..MaxFaults
  BY <1>1, Still, FaultCount DEF IndInv
<1> QED
  BY <1>1, <1>2, Ends DEF IndInv

(***************************************************************************)
(* Recovery.                                                               *)
(***************************************************************************)

\* Recovery changes nothing but the directories.
LEMMA RecoverVars ==
    ASSUME VarsOK, pc \in {"idle"} \union Recovering, pc' \in {"idle"} \union Recovering, k' \in 0..LastTarget,
           UNCHANGED <<settings, gen, bundle, prior, mutated, marked, displaced, failed, faults>>,
           result' \in {result, "none"}
    PROVE  VarsOK'
<1>1. pc \notin Importing /\ pc' \notin Importing
  BY DEF Importing, Recovering, Staging, Activating, Committed, Undoing, Undone
<1> QED
  BY <1>1 DEF VarsOK, settings

\* What the journal says when recovery runs.
LEMMA JournalHere ==
    ASSUME PairsOK, journal \in Journals
    PROVE  /\ hotDir \in HotDirs /\ segDir \in SegDirs /\ hotDir.journal \in Journals
           /\ journal = hotDir.journal /\ journal \notin {Absent, Torn} /\ GoodJournal(hotDir, segDir)
           /\ Prior(1) \in Originals /\ Prior(2) \in Originals
           /\ Prior(1) = hotDir.journal.prior[1] /\ Prior(2) = hotDir.journal.prior[2]
           /\ journal.candidate \in Contents /\ journal.candidate # Absent
<1>1. Good(hotDir, segDir) /\ hotDir \in HotDirs /\ segDir \in SegDirs
  BY Here
<1>2. journal \notin {Absent, Torn} /\ journal.candidate \in Contents
  BY ContentsAssumption DEF Journals
<1> QED
  BY <1>1, <1>2, ContentsAssumption DEF Good, journal, Journals, Prior

\* Recovery finds both candidates live and keeps them.
LEMMA RecoverForwardInv ==
    ASSUME Ordered, IndInv, RecoverForward
    PROVE  IndInv'
<1>1. /\ pc = "idle" /\ pc' = "recRetire" /\ k' = Hot /\ journal \notin {Absent, Torn} /\ CandidateLive(hotDir, segDir)
      /\ result' = "none"
      /\ UNCHANGED <<files, settings, gen, bundle, prior, mutated, marked, displaced, failed, faults>>
  BY DEF RecoverForward, RecoveryMay, At, Goto
<1>2. VarsOK /\ hotDir \in HotDirs /\ PairsOK' /\ hotDir' = hotDir /\ segDir' = segDir
  BY <1>1, Still, Here DEF IndInv
<1>3. VarsOK'
  BY <1>1, <1>2, Numbers, RecoverVars DEF Recovering
<1>4. RecoveringOK'
  BY <1>1, <1>2 DEF RecoveringOK, journal, HotDirs, CandidateLive
<1> QED
  BY <1>1, <1>2, <1>3, <1>4, RecoveringPlace DEF IndInv, Recovering

\* Recovery finds both originals at hand and restores them.
LEMMA RecoverBackInv ==
    ASSUME Ordered, IndInv, RecoverBack
    PROVE  IndInv'
<1>1. /\ pc = "idle" /\ pc' = "recRemove" /\ k' = Hot /\ journal \notin {Absent, Torn} /\ ~CandidateLive(hotDir, segDir)
      /\ Recoverable(hotDir, segDir) /\ result' = "none"
      /\ UNCHANGED <<files, settings, gen, bundle, prior, mutated, marked, displaced, failed, faults>>
  BY DEF RecoverBack, RecoveryMay, At, Goto
<1>2. VarsOK /\ hotDir \in HotDirs /\ PairsOK' /\ hotDir' = hotDir /\ segDir' = segDir
  BY <1>1, Still, Here DEF IndInv
<1>3. VarsOK'
  BY <1>1, <1>2, Numbers, RecoverVars DEF Recovering
<1>4. RecoveringOK'
  <2>1. /\ Restorable(hotDir, Prior(1), journal.candidate) /\ Restorable(segDir, Prior(2), journal.candidate)
    BY <1>1 DEF Recoverable, Known, Restorable, Prior, journal, Hot, Tree
  <2>2. /\ Restorable(hotDir, Prior(1), journal.candidate)' /\ Restorable(segDir, Prior(2), journal.candidate)'
    BY <1>2, <2>1 DEF Prior, journal, Restorable, Available
  <2>3. journal' \in Journals
    BY <1>1, <1>2 DEF journal, HotDirs
  <2> QED
    BY <1>1, <2>2, <2>3, Numbers DEF RecoveringOK
<1> QED
  BY <1>1, <1>2, <1>3, <1>4, RecoveringPlace DEF IndInv, Recovering

\* A parked original goes while both candidates are live.
LEMMA RecRetireInv ==
    ASSUME Ordered, IndInv, RecRetire
    PROVE  IndInv'
<1>1. /\ pc = "recRetire" /\ pc' = "recSyncRetired" /\ k' = k /\ Change(k, [previous |-> Absent])
      /\ UNCHANGED <<settings, gen, transaction, faults>>
  BY DEF RecRetire, Step, At, Goto
<1>2. VarsOK /\ PairsOK /\ RecoveringOK
  BY DEF IndInv, PcOK
<1>3. journal \in Journals /\ CandidateLive(hotDir, segDir) /\ k \in {Hot, Tree}
  BY <1>1, <1>2 DEF RecoveringOK, Recovering
<1>4. /\ hotDir \in HotDirs /\ segDir \in SegDirs /\ hotDir.journal \in Journals
      /\ hotDir.journal \notin {Absent, Torn} /\ GoodJournal(hotDir, segDir)
  BY <1>2, <1>3, JournalHere
<1>5. /\ may' = may \union {<<hotDir', segDir'>>} /\ hotDir' \in HotDirs /\ segDir' \in SegDirs
      /\ hotDir'.live = hotDir.live /\ hotDir'.staged = hotDir.staged /\ hotDir'.previous \in {Absent, hotDir.previous}
      /\ hotDir'.journal = hotDir.journal
      /\ segDir'.live = segDir.live /\ segDir'.staged = segDir.staged /\ segDir'.previous \in {Absent, segDir.previous}
  <2>1. CASE k = Hot
    BY <1>1, <1>4, <2>1 DEF Change, ChangeHot, Put, HotDirs, Originals
  <2>2. CASE k = Tree
    BY <1>1, <1>4, <2>2 DEF Change, ChangeSeg, Put, SegDirs, Originals, Hot, Tree
  <2> QED
    BY <1>3, <2>1, <2>2
<1>6. PairsOK'
  <2>1. Good(hotDir', segDir')
    BY <1>3, <1>4, <1>5 DEF Good, GoodJournal, CandidateLive
  <2> QED
    BY <1>2, <1>5, <2>1, Added
<1>7. VarsOK'
  BY <1>1, <1>2, RecoverVars DEF Recovering, VarsOK, transaction
<1>8. RecoveringOK'
  BY <1>1, <1>3, <1>4, <1>5 DEF RecoveringOK, journal, CandidateLive
<1> QED
  BY <1>1, <1>6, <1>7, <1>8, RecoveringPlace DEF IndInv, Recovering

\* Its removal is durable.
LEMMA RecSyncRetiredInv ==
    ASSUME Ordered, IndInv, RecSyncRetired
    PROVE  IndInv'
<1>1. /\ pc = "recSyncRetired" /\ pc' = (IF k = Hot THEN "recRetire" ELSE "recStaged")
      /\ k' \in {Hot, Tree} /\ Sync(k) /\ UNCHANGED <<settings, gen, transaction, faults>>
  BY DEF RecSyncRetired, Step, At, Goto
<1>2. VarsOK /\ RecoveringOK /\ PairsOK' /\ hotDir' = hotDir /\ segDir' = segDir
  BY <1>1, Synced DEF IndInv, PcOK
<1>3. VarsOK'
  BY <1>1, <1>2, Numbers, RecoverVars DEF Recovering, transaction
<1>4. RecoveringOK'
  BY <1>1, <1>2 DEF RecoveringOK, Recovering, journal, CandidateLive
<1> QED
  BY <1>1, <1>2, <1>3, <1>4, RecoveringPlace DEF IndInv, Recovering

\* The candidate goes while the original is parked, or a second copy of the original does.
LEMMA RecRemoveInv ==
    ASSUME Ordered, IndInv, RecRemove
    PROVE  IndInv'
<1>1. /\ pc = "recRemove" /\ pc' = "recSyncRemoved" /\ k' = k
      /\ UNCHANGED <<settings, gen, transaction, faults>>
      /\ Change(k, IF Prior(k) # Absent /\ Dir(k).live = Prior(k) THEN [previous |-> Absent] ELSE [live |-> Absent])
  BY DEF RecRemove, Step, At, Goto
<1>2. VarsOK /\ PairsOK /\ RecoveringOK
  BY DEF IndInv, PcOK
<1>3. /\ journal \in Journals /\ k \in {Hot, Tree}
      /\ Restorable(hotDir, Prior(1), journal.candidate) /\ Restorable(segDir, Prior(2), journal.candidate)
      /\ k = Tree => hotDir.live = Prior(1)
  BY <1>1, <1>2 DEF RecoveringOK, Recovering
<1>4. /\ hotDir \in HotDirs /\ segDir \in SegDirs /\ hotDir.journal \in Journals /\ journal = hotDir.journal
      /\ hotDir.journal \notin {Absent, Torn} /\ GoodJournal(hotDir, segDir)
      /\ Prior(1) = hotDir.journal.prior[1] /\ Prior(2) = hotDir.journal.prior[2]
  BY <1>2, <1>3, JournalHere
<1>5. VarsOK'
  BY <1>1, <1>2, RecoverVars DEF Recovering, VarsOK, transaction
<1>6. CASE k = Hot
  <2>1. CASE Prior(1) # Absent /\ hotDir.live = Prior(1)
    <3>1. ChangeHot([previous |-> Absent])
      BY <1>1, <1>6, <2>1 DEF Change, Dir, Hot
    <3>2. /\ segDir' = segDir /\ may' = may \union {<<hotDir', segDir'>>} /\ hotDir' \in HotDirs
          /\ hotDir'.live = hotDir.live /\ hotDir'.staged = hotDir.staged /\ hotDir'.previous = Absent
          /\ hotDir'.journal = hotDir.journal
      BY <1>4, <3>1 DEF ChangeHot, Put, HotDirs, Originals
    <3>3. Restorable(hotDir', Prior(1), journal.candidate)
      BY <2>1, <3>2 DEF Restorable, Available
    <3>4. Good(hotDir', segDir')
      BY <1>3, <1>4, <3>2, <3>3 DEF Good, GoodJournal
    <3>5. PairsOK'
      BY <1>2, <3>2, <3>4, Added
    <3>6. RecoveringOK'
      <4>1. /\ journal' = journal /\ Prior(1)' = Prior(1) /\ Prior(2)' = Prior(2)
            /\ Dir(k)' = hotDir' /\ Prior(k)' = Prior(1)
        BY <1>1, <1>6, <3>2 DEF journal, Prior, Dir, Hot
      <4>2. Restorable(hotDir, Prior(1), journal.candidate)' /\ Restorable(segDir, Prior(2), journal.candidate)'
        BY <1>3, <3>2, <3>3, <4>1
      <4> QED
        BY <1>1, <1>3, <1>6, <2>1, <3>2, <4>1, <4>2, Numbers DEF RecoveringOK
    <3> QED
      BY <1>1, <1>5, <3>5, <3>6, RecoveringPlace DEF IndInv, Recovering
  <2>2. CASE ~(Prior(1) # Absent /\ hotDir.live = Prior(1))
    <3>1. ChangeHot([live |-> Absent])
      BY <1>1, <1>6, <2>2 DEF Change, Dir, Hot
    <3>2. /\ segDir' = segDir /\ may' = may \union {<<hotDir', segDir'>>} /\ hotDir' \in HotDirs
          /\ hotDir'.live = Absent /\ hotDir'.staged = hotDir.staged /\ hotDir'.previous = hotDir.previous
          /\ hotDir'.journal = hotDir.journal
      BY <1>4, <3>1 DEF ChangeHot, Put, HotDirs, Originals
    <3>3. Restorable(hotDir', Prior(1), journal.candidate) /\ Prior(1) \in {Absent, hotDir'.previous}
      BY <1>3, <2>2, <3>2 DEF Restorable, Available
    <3>4. Good(hotDir', segDir')
      BY <1>3, <1>4, <3>2, <3>3 DEF Good, GoodJournal
    <3>5. PairsOK'
      BY <1>2, <3>2, <3>4, Added
    <3>6. RecoveringOK'
      <4>1. /\ journal' = journal /\ Prior(1)' = Prior(1) /\ Prior(2)' = Prior(2)
            /\ Dir(k)' = hotDir' /\ Prior(k)' = Prior(1)
        BY <1>1, <1>6, <3>2 DEF journal, Prior, Dir, Hot
      <4>2. Restorable(hotDir, Prior(1), journal.candidate)' /\ Restorable(segDir, Prior(2), journal.candidate)'
        BY <1>3, <3>2, <3>3, <4>1
      <4> QED
        BY <1>1, <1>3, <1>6, <3>2, <3>3, <4>1, <4>2, Numbers DEF RecoveringOK
    <3> QED
      BY <1>1, <1>5, <3>5, <3>6, RecoveringPlace DEF IndInv, Recovering
  <2> QED
    BY <2>1, <2>2
<1>7. CASE k = Tree
  <2>1. CASE Prior(2) # Absent /\ segDir.live = Prior(2)
    <3>1. ChangeSeg([previous |-> Absent])
      BY <1>1, <1>7, <2>1 DEF Change, Dir, Hot, Tree
    <3>2. /\ hotDir' = hotDir /\ may' = may \union {<<hotDir', segDir'>>} /\ segDir' \in SegDirs
          /\ segDir'.live = segDir.live /\ segDir'.staged = segDir.staged /\ segDir'.previous = Absent
      BY <1>4, <3>1 DEF ChangeSeg, Put, SegDirs, Originals
    <3>3. Restorable(segDir', Prior(2), journal.candidate)
      BY <2>1, <3>2 DEF Restorable, Available
    <3>4. Good(hotDir', segDir')
      BY <1>3, <1>4, <3>2, <3>3 DEF Good, GoodJournal
    <3>5. PairsOK'
      BY <1>2, <3>2, <3>4, Added
    <3>6. RecoveringOK'
      <4>1. /\ journal' = journal /\ Prior(1)' = Prior(1) /\ Prior(2)' = Prior(2)
            /\ Dir(k)' = segDir' /\ Prior(k)' = Prior(2)
        BY <1>1, <1>7, <3>2 DEF journal, Prior, Dir, Hot, Tree
      <4>2. Restorable(hotDir, Prior(1), journal.candidate)' /\ Restorable(segDir, Prior(2), journal.candidate)'
        BY <1>3, <3>2, <3>3, <4>1
      <4> QED
        BY <1>1, <1>3, <1>7, <2>1, <3>2, <4>1, <4>2 DEF RecoveringOK
    <3> QED
      BY <1>1, <1>5, <3>5, <3>6, RecoveringPlace DEF IndInv, Recovering
  <2>2. CASE ~(Prior(2) # Absent /\ segDir.live = Prior(2))
    <3>1. ChangeSeg([live |-> Absent])
      BY <1>1, <1>7, <2>2 DEF Change, Dir, Hot, Tree
    <3>2. /\ hotDir' = hotDir /\ may' = may \union {<<hotDir', segDir'>>} /\ segDir' \in SegDirs
          /\ segDir'.live = Absent /\ segDir'.staged = segDir.staged /\ segDir'.previous = segDir.previous
      BY <1>4, <3>1 DEF ChangeSeg, Put, SegDirs, Originals
    <3>3. Restorable(segDir', Prior(2), journal.candidate) /\ Prior(2) \in {Absent, segDir'.previous}
      BY <1>3, <2>2, <3>2 DEF Restorable, Available
    <3>4. Good(hotDir', segDir')
      BY <1>3, <1>4, <3>2, <3>3 DEF Good, GoodJournal
    <3>5. PairsOK'
      BY <1>2, <3>2, <3>4, Added
    <3>6. RecoveringOK'
      <4>1. /\ journal' = journal /\ Prior(1)' = Prior(1) /\ Prior(2)' = Prior(2)
            /\ Dir(k)' = segDir' /\ Prior(k)' = Prior(2)
        BY <1>1, <1>7, <3>2 DEF journal, Prior, Dir, Hot, Tree
      <4>2. Restorable(hotDir, Prior(1), journal.candidate)' /\ Restorable(segDir, Prior(2), journal.candidate)'
        BY <1>3, <3>2, <3>3, <4>1
      <4> QED
        BY <1>1, <1>3, <1>7, <3>2, <3>3, <4>1, <4>2 DEF RecoveringOK
    <3> QED
      BY <1>1, <1>5, <3>5, <3>6, RecoveringPlace DEF IndInv, Recovering
  <2> QED
    BY <2>1, <2>2
<1> QED
  BY <1>3, <1>6, <1>7

\* A sync during recovery.
LEMMA SameRecovering ==
    ASSUME RecoveringOK, hotDir' = hotDir, segDir' = segDir, k' = k,
           \/ pc = "recSyncRemoved" /\ pc' = "recRestore"
    PROVE  RecoveringOK'
<1>1. journal' = journal /\ Prior(1)' = Prior(1) /\ Prior(2)' = Prior(2) /\ Dir(k)' = Dir(k) /\ Prior(k)' = Prior(k)
  BY DEF journal, Prior, Dir
<1>2. /\ Restorable(hotDir, Prior(1), journal.candidate)' = Restorable(hotDir, Prior(1), journal.candidate)
      /\ Restorable(segDir, Prior(2), journal.candidate)' = Restorable(segDir, Prior(2), journal.candidate)
  BY <1>1 DEF Restorable, Available
<1> QED
  BY <1>1, <1>2 DEF RecoveringOK, Recovering

\* What was removed is durably gone.
LEMMA RecSyncRemovedInv ==
    ASSUME Ordered, IndInv, RecSyncRemoved
    PROVE  IndInv'
<1>1. /\ pc = "recSyncRemoved" /\ pc' = "recRestore" /\ k' = k /\ Sync(k)
      /\ UNCHANGED <<settings, gen, transaction, faults>>
  BY DEF RecSyncRemoved, Step, At, Goto
<1>2. VarsOK /\ RecoveringOK /\ PairsOK' /\ hotDir' = hotDir /\ segDir' = segDir
  BY <1>1, Synced DEF IndInv, PcOK
<1>3. VarsOK'
  BY <1>1, <1>2, RecoverVars DEF Recovering, VarsOK, transaction
<1>4. RecoveringOK'
  BY <1>1, <1>2, SameRecovering
<1> QED
  BY <1>1, <1>2, <1>3, <1>4, RecoveringPlace DEF IndInv, Recovering

\* The original comes back.
LEMMA RecRestoreInv ==
    ASSUME Ordered, IndInv, RecRestore
    PROVE  IndInv'
<1>1. /\ pc = "recRestore" /\ pc' = "recSyncRestored" /\ k' = k
      /\ UNCHANGED <<settings, gen, transaction, faults>>
      /\ IF Dir(k).live = Prior(k) THEN UNCHANGED files
         ELSE Change(k, [live |-> Dir(k).previous, previous |-> Absent])
  BY DEF RecRestore, Step, At, Goto
<1>2. VarsOK /\ PairsOK /\ RecoveringOK
  BY DEF IndInv, PcOK
<1>3. /\ journal \in Journals /\ k \in {Hot, Tree}
      /\ Restorable(hotDir, Prior(1), journal.candidate) /\ Restorable(segDir, Prior(2), journal.candidate)
      /\ k = Tree => hotDir.live = Prior(1)
      /\ Dir(k).live = Prior(k) \/ (Dir(k).live = Absent /\ Dir(k).previous = Prior(k))
  BY <1>1, <1>2 DEF RecoveringOK, Recovering
<1>4. /\ hotDir \in HotDirs /\ segDir \in SegDirs /\ hotDir.journal \in Journals /\ journal = hotDir.journal
      /\ hotDir.journal \notin {Absent, Torn} /\ GoodJournal(hotDir, segDir)
      /\ Prior(1) = hotDir.journal.prior[1] /\ Prior(2) = hotDir.journal.prior[2]
  BY <1>2, <1>3, JournalHere
<1>5. VarsOK'
  BY <1>1, <1>2, RecoverVars DEF Recovering, VarsOK, transaction
<1>6. CASE Dir(k).live = Prior(k)
  <2>1. PairsOK' /\ hotDir' = hotDir /\ segDir' = segDir
    BY <1>1, <1>2, <1>6, Still
  <2>2. journal' = journal /\ Prior(1)' = Prior(1) /\ Prior(2)' = Prior(2) /\ Dir(k)' = Dir(k) /\ Prior(k)' = Prior(k)
    BY <1>1, <2>1 DEF journal, Prior, Dir
  <2>3. Restorable(hotDir, Prior(1), journal.candidate)' /\ Restorable(segDir, Prior(2), journal.candidate)'
    BY <1>3, <2>1, <2>2
  <2>4. RecoveringOK'
    BY <1>1, <1>3, <1>6, <2>1, <2>2, <2>3 DEF RecoveringOK
  <2> QED
    BY <1>1, <1>5, <2>1, <2>4, RecoveringPlace DEF IndInv, Recovering
<1>7. CASE Dir(k).live # Prior(k) /\ k = Hot
  <2>1. hotDir.live = Absent /\ hotDir.previous = Prior(1)
    BY <1>3, <1>7 DEF Dir, Hot
  <2>2. ChangeHot([live |-> hotDir.previous, previous |-> Absent])
    BY <1>1, <1>7 DEF Change, Dir
  <2>3. /\ segDir' = segDir /\ may' = may \union {<<hotDir', segDir'>>} /\ hotDir' \in HotDirs
        /\ hotDir'.live = Prior(1) /\ hotDir'.staged = hotDir.staged /\ hotDir'.previous = Absent
        /\ hotDir'.journal = hotDir.journal
    BY <1>4, <2>1, <2>2 DEF ChangeHot, Put, HotDirs, Originals
  <2>4. Restorable(hotDir', Prior(1), journal.candidate)
    BY <2>3 DEF Restorable, Available
  <2>5. Good(hotDir', segDir')
    BY <1>3, <1>4, <2>3, <2>4 DEF Good, GoodJournal
  <2>6. PairsOK'
    BY <1>2, <2>3, <2>5, Added
  <2>7. RecoveringOK'
    <3>1. /\ journal' = journal /\ Prior(1)' = Prior(1) /\ Prior(2)' = Prior(2)
          /\ Dir(k)' = hotDir' /\ Prior(k)' = Prior(1)
      BY <1>1, <1>7, <2>3 DEF journal, Prior, Dir, Hot
    <3>2. Restorable(hotDir, Prior(1), journal.candidate)' /\ Restorable(segDir, Prior(2), journal.candidate)'
      BY <1>3, <2>3, <2>4, <3>1
    <3> QED
      BY <1>1, <1>3, <1>7, <2>3, <3>1, <3>2 DEF RecoveringOK
  <2> QED
    BY <1>1, <1>5, <2>6, <2>7, RecoveringPlace DEF IndInv, Recovering
<1>8. CASE Dir(k).live # Prior(k) /\ k = Tree
  <2>1. segDir.live = Absent /\ segDir.previous = Prior(2)
    BY <1>3, <1>8 DEF Dir, Hot, Tree
  <2>2. ChangeSeg([live |-> segDir.previous, previous |-> Absent])
    BY <1>1, <1>8 DEF Change, Dir, Hot, Tree
  <2>3. /\ hotDir' = hotDir /\ may' = may \union {<<hotDir', segDir'>>} /\ segDir' \in SegDirs
        /\ segDir'.live = Prior(2) /\ segDir'.staged = segDir.staged /\ segDir'.previous = Absent
    BY <1>4, <2>1, <2>2 DEF ChangeSeg, Put, SegDirs, Originals
  <2>4. Restorable(segDir', Prior(2), journal.candidate)
    BY <2>3 DEF Restorable, Available
  <2>5. Good(hotDir', segDir')
    BY <1>3, <1>4, <2>3, <2>4 DEF Good, GoodJournal
  <2>6. PairsOK'
    BY <1>2, <2>3, <2>5, Added
  <2>7. RecoveringOK'
    <3>1. /\ journal' = journal /\ Prior(1)' = Prior(1) /\ Prior(2)' = Prior(2)
          /\ Dir(k)' = segDir' /\ Prior(k)' = Prior(2)
      BY <1>1, <1>8, <2>3 DEF journal, Prior, Dir, Hot, Tree
    <3>2. Restorable(hotDir, Prior(1), journal.candidate)' /\ Restorable(segDir, Prior(2), journal.candidate)'
      BY <1>3, <2>3, <2>4, <3>1
    <3> QED
      BY <1>1, <1>3, <1>8, <2>3, <3>1, <3>2 DEF RecoveringOK
  <2> QED
    BY <1>1, <1>5, <2>6, <2>7, RecoveringPlace DEF IndInv, Recovering
<1> QED
  BY <1>3, <1>6, <1>7, <1>8

\* It is durably back before recovery turns to the other target.
LEMMA RecSyncRestoredInv ==
    ASSUME Ordered, IndInv, RecSyncRestored
    PROVE  IndInv'
<1>1. /\ pc = "recSyncRestored" /\ pc' = (IF k = Hot THEN "recRemove" ELSE "recStaged")
      /\ k' = (IF k = Hot THEN Tree ELSE Hot) /\ Sync(k) /\ UNCHANGED <<settings, gen, transaction, faults>>
  BY DEF RecSyncRestored, Step, At, Goto
<1>2. VarsOK /\ RecoveringOK /\ PairsOK' /\ hotDir' = hotDir /\ segDir' = segDir
  BY <1>1, Synced DEF IndInv, PcOK
<1>3. VarsOK'
  BY <1>1, <1>2, Numbers, RecoverVars DEF Recovering, transaction
<1>4. RecoveringOK'
  <2>1. /\ journal \in Journals /\ k \in {Hot, Tree} /\ Dir(k).live = Prior(k)
        /\ Restorable(hotDir, Prior(1), journal.candidate) /\ Restorable(segDir, Prior(2), journal.candidate)
        /\ k = Tree => hotDir.live = Prior(1)
    BY <1>1, <1>2 DEF RecoveringOK, Recovering
  <2>2. journal' = journal /\ Prior(1)' = Prior(1) /\ Prior(2)' = Prior(2)
    BY <1>2 DEF journal, Prior
  <2>3. Restorable(hotDir, Prior(1), journal.candidate)' /\ Restorable(segDir, Prior(2), journal.candidate)'
    BY <1>2, <2>1, <2>2
  <2>4. CASE k = Hot
    <3>1. hotDir.live = Prior(1)
      BY <2>1, <2>4 DEF Dir, Hot
    <3> QED
      BY <1>1, <1>2, <2>1, <2>2, <2>3, <2>4, <3>1 DEF RecoveringOK
  <2>5. CASE k = Tree
    <3>1. hotDir.live = Prior(1) /\ segDir.live = Prior(2) /\ k # Hot
      BY <2>1, <2>5 DEF Dir, Hot, Tree
    <3> QED
      BY <1>1, <1>2, <2>1, <2>2, <3>1 DEF RecoveringOK
  <2> QED
    BY <2>1, <2>4, <2>5
<1> QED
  BY <1>1, <1>2, <1>3, <1>4, RecoveringPlace DEF IndInv, Recovering

\* A staged candidate goes.
LEMMA RecStagedInv ==
    ASSUME Ordered, IndInv, RecStaged
    PROVE  IndInv'
<1>1. /\ pc = "recStaged" /\ pc' = "recSyncStaged" /\ k' = k /\ Change(k, [staged |-> Absent])
      /\ UNCHANGED <<settings, gen, transaction, faults>>
  BY DEF RecStaged, Step, At, Goto
<1>2. VarsOK /\ PairsOK /\ RecoveringOK /\ hotDir \in HotDirs /\ segDir \in SegDirs
  BY Here DEF IndInv, PcOK
<1>3. /\ journal \in Journals /\ k \in {Hot, Tree}
      /\ CandidateLive(hotDir, segDir) \/ (hotDir.live = Prior(1) /\ segDir.live = Prior(2))
  BY <1>1, <1>2 DEF RecoveringOK, Recovering
<1>4. /\ may' = may \union {<<hotDir', segDir'>>} /\ hotDir' \in HotDirs /\ segDir' \in SegDirs
      /\ hotDir'.live = hotDir.live /\ hotDir'.staged \in {Absent, hotDir.staged} /\ hotDir'.previous = hotDir.previous
      /\ hotDir'.journal = hotDir.journal
      /\ segDir'.live = segDir.live /\ segDir'.staged \in {Absent, segDir.staged} /\ segDir'.previous = segDir.previous
  <2>1. CASE k = Hot
    BY <1>1, <1>2, <2>1 DEF Change, ChangeHot, Put, HotDirs, Originals
  <2>2. CASE k = Tree
    BY <1>1, <1>2, <2>2 DEF Change, ChangeSeg, Put, SegDirs, Originals, Hot, Tree
  <2> QED
    BY <1>3, <2>1, <2>2
<1>5. PairsOK'
  <2>1. Good(hotDir', segDir')
    BY <1>2, <1>4, StagedGone
  <2> QED
    BY <1>2, <1>4, <2>1, Added
<1>6. VarsOK'
  BY <1>1, <1>2, RecoverVars DEF Recovering, VarsOK, transaction
<1>7. RecoveringOK'
  BY <1>1, <1>3, <1>4 DEF RecoveringOK, journal, Prior, CandidateLive
<1> QED
  BY <1>1, <1>5, <1>6, <1>7, RecoveringPlace DEF IndInv, Recovering

\* Its removal is durable.
LEMMA RecSyncStagedInv ==
    ASSUME Ordered, IndInv, RecSyncStaged
    PROVE  IndInv'
<1>1. /\ pc = "recSyncStaged" /\ pc' = (IF k = Hot THEN "recStaged" ELSE "recJournal")
      /\ k' = Tree /\ Sync(k) /\ UNCHANGED <<settings, gen, transaction, faults>>
  BY DEF RecSyncStaged, Step, At, Goto
<1>2. VarsOK /\ RecoveringOK /\ PairsOK' /\ hotDir' = hotDir /\ segDir' = segDir
  BY <1>1, Synced DEF IndInv, PcOK
<1>3. VarsOK'
  BY <1>1, <1>2, Numbers, RecoverVars DEF Recovering, transaction
<1>4. RecoveringOK'
  BY <1>1, <1>2 DEF RecoveringOK, Recovering, journal, Prior, CandidateLive
<1> QED
  BY <1>1, <1>2, <1>3, <1>4, RecoveringPlace DEF IndInv, Recovering

\* The journal goes when the history is one generation.
LEMMA RecJournalInv ==
    ASSUME Ordered, IndInv, RecJournal
    PROVE  IndInv'
<1>1. /\ pc = "recJournal" /\ pc' = "recSyncJournal" /\ k' = 0 /\ ChangeHot([journal |-> Absent])
      /\ UNCHANGED <<settings, gen, transaction, faults>>
  BY DEF RecJournal, Step, At, Goto
<1>2. VarsOK /\ PairsOK /\ RecoveringOK
  BY DEF IndInv, PcOK
<1>3. journal \in Journals /\ (CandidateLive(hotDir, segDir) \/ (hotDir.live = Prior(1) /\ segDir.live = Prior(2)))
  BY <1>1, <1>2 DEF RecoveringOK, Recovering
<1>4. /\ hotDir \in HotDirs /\ segDir \in SegDirs /\ GoodJournal(hotDir, segDir)
      /\ Prior(1) = hotDir.journal.prior[1] /\ Prior(2) = hotDir.journal.prior[2]
      /\ journal = hotDir.journal /\ journal.candidate # Absent
  BY <1>2, <1>3, JournalHere
<1>5. Together(hotDir.live, segDir.live)
  BY <1>3, <1>4 DEF CandidateLive, GoodJournal, Together
<1>6. /\ segDir' = segDir /\ may' = may \union {<<hotDir', segDir'>>} /\ hotDir' \in HotDirs
      /\ hotDir'.live = hotDir.live /\ hotDir'.journal = Absent
  BY <1>1, <1>4 DEF ChangeHot, Put, HotDirs
<1>7. PairsOK'
  <2>1. Good(hotDir', segDir')
    BY <1>4, <1>5, <1>6 DEF Good
  <2> QED
    BY <1>2, <1>6, <2>1, Added
<1>8. VarsOK'
  BY <1>1, <1>2, Numbers, RecoverVars DEF Recovering, transaction
<1>9. RecoveringOK'
  BY <1>1 DEF RecoveringOK
<1> QED
  BY <1>1, <1>7, <1>8, <1>9, RecoveringPlace DEF IndInv, Recovering

\* Its removal is durable.
LEMMA RecSyncJournalInv ==
    ASSUME Ordered, IndInv, RecSyncJournal
    PROVE  IndInv'
<1>1. pc = "recSyncJournal" /\ pc' = "idle" /\ k' = 0 /\ SyncHot /\ UNCHANGED <<settings, gen, transaction, faults>>
  BY DEF RecSyncJournal, Step, At, Goto
<1>2. VarsOK /\ PairsOK'
  BY <1>1, SyncedHot DEF IndInv
<1>3. VarsOK'
  BY <1>1, <1>2, Numbers, RecoverVars DEF Recovering, transaction
<1> QED
  BY <1>1, <1>2, <1>3, IdlePlace DEF IndInv

(***************************************************************************)
(* The environment.                                                        *)
(***************************************************************************)

\* The operator removes what is not complete: no journal, and no staged tree, that recovery could use.
LEMMA OperatorRemovesInv ==
    ASSUME Ordered, IndInv, OperatorRemoves
    PROVE  IndInv'
<1>1. /\ pc = "idle" /\ pc' = pc /\ k' = k /\ may' = {<<hotDir', segDir'>>}
      /\ hotDir' = [hotDir EXCEPT !.journal = IF @ = Torn THEN Absent ELSE @]
      /\ segDir' = [segDir EXCEPT !.staged = IF @ = Torn THEN Absent ELSE @]
      /\ UNCHANGED <<settings, gen, transaction, faults>>
  BY DEF OperatorRemoves, At
<1>2. VarsOK /\ PairsOK /\ Good(hotDir, segDir) /\ hotDir \in HotDirs /\ segDir \in SegDirs
  BY Here DEF IndInv
<1>3. /\ hotDir' \in HotDirs /\ segDir' \in SegDirs
      /\ hotDir'.live = hotDir.live /\ hotDir'.staged = hotDir.staged /\ hotDir'.previous = hotDir.previous
      /\ hotDir'.journal = (IF hotDir.journal = Torn THEN Absent ELSE hotDir.journal)
      /\ segDir'.live = segDir.live /\ segDir'.staged \in {segDir.staged, Absent} /\ segDir'.previous = segDir.previous
  BY <1>1, <1>2 DEF HotDirs, SegDirs, Originals
<1>4. Good(hotDir', segDir')
  <2>1. CASE hotDir.journal = Torn
    BY <1>2, <1>3, <2>1 DEF Good
  <2>2. CASE hotDir.journal # Torn
    BY <1>2, <1>3, <2>2, StagedGone
  <2> QED
    BY <2>1, <2>2
<1>5. PairsOK'
  BY <1>1, <1>4, Only
<1>6. VarsOK'
  BY <1>1, <1>2, RecoverVars DEF VarsOK, transaction
<1> QED
  BY <1>1, <1>5, <1>6, IdlePlace DEF IndInv

\* A change behind the journal keeps the generation of the hot database, and recovery refuses it.
LEMMA ForeignWriteInv ==
    ASSUME Ordered, IndInv, ForeignWrite
    PROVE  IndInv'
<1>1. /\ pc \in {"idle", "config"} /\ pc' = pc /\ k' = k /\ hotDir.journal \notin {Absent, Torn} /\ hotDir.live # Absent
      /\ Fault /\ CommitHot([live |-> <<hotDir.live[1], Foreign>>]) /\ UNCHANGED <<settings, gen, transaction>>
  BY DEF ForeignWrite, journal
<1>2. VarsOK /\ PairsOK /\ Good(hotDir, segDir) /\ hotDir \in HotDirs /\ segDir \in SegDirs
  BY Here DEF IndInv
<1> DEFINE new == <<hotDir.live[1], Foreign>>
<1>3. hotDir.live \in Contents
  BY <1>1, <1>2 DEF HotDirs, Originals
<1>4. new \in Contents /\ new[1] = hotDir.live[1] /\ new[2] = Foreign
  BY <1>3, RestoreAssumption DEF Contents, Foreign
<1>5. CommitHot([live |-> new])
  BY <1>1
<1> HIDE DEF new
<1>6. /\ segDir' = segDir /\ may' = {<<hotDir', segDir'>>} /\ hotDir' \in HotDirs /\ hotDir'.live = new
      /\ hotDir'.staged = hotDir.staged /\ hotDir'.previous = hotDir.previous /\ hotDir'.journal = hotDir.journal
  BY <1>2, <1>4, <1>5 DEF CommitHot, Put, HotDirs, Originals
<1>7. Changed(new)
  BY <1>4, ContentsAssumption DEF Changed
<1>8. PairsOK'
  <2>1. Good(hotDir', segDir')
    BY <1>1, <1>2, <1>6, <1>7 DEF Good, GoodJournal
  <2> QED
    BY <1>6, <2>1, Only
<1>9. VarsOK'
  <2>1. faults' \in 0..MaxFaults
    BY <1>1, <1>2, FaultCount
  <2> QED
    BY <1>1, <1>2, <2>1 DEF VarsOK, settings, transaction
<1>10. CASE pc = "idle"
  BY <1>1, <1>8, <1>9, <1>10, IdlePlace DEF IndInv
<1>11. CASE pc = "config"
  <2>1. /\ Matching /\ marked = TRUE /\ failed = FALSE /\ HotKept /\ Hot \notin mutated
        /\ TreeKept /\ Tree \notin mutated /\ GroupsOK
    BY <1>11 DEF IndInv, PcOK, ActivatingOK, Activating
  <2>2. prior[Hot] \in Contents /\ prior[Hot][1] = hotDir.live[1]
    BY <1>1, <1>3, <2>1 DEF HotKept
  <2>3. Matching' /\ HotKept' /\ TreeKept'
    BY <1>1, <1>4, <1>6, <1>7, <2>1, <2>2 DEF Matching, HotKept, TreeKept, journal, Candidate, transaction
  <2>4. ActivatingOK'
    BY <1>1, <1>11, <2>1, <2>3 DEF ActivatingOK, transaction
  <2>5. GroupsOK'
    BY <1>1, <1>11, <2>1 DEF GroupsOK, Activating, Staging, Committed, settings, transaction
  <2> QED
    BY <1>1, <1>8, <1>9, <1>11, <2>4, <2>5, ActivatingPlace DEF IndInv, Activating
<1> QED
  BY <1>1, <1>10, <1>11

\* A kill leaves the directories as they are.
LEMMA KillInv ==
    ASSUME Ordered, IndInv, Kill
    PROVE  IndInv'
<1>1. Fault /\ Stops("none") /\ UNCHANGED <<files, config, gen>>
  BY DEF Kill
<1>2. PairsOK' /\ faults' \in 0..MaxFaults
  BY <1>1, Still, FaultCount DEF IndInv
<1> QED
  BY <1>1, <1>2, Ends DEF IndInv

\* A power loss leaves one of the pairs that it may leave.
LEMMA PowerLossInv ==
    ASSUME Ordered, IndInv, PowerLoss
    PROVE  IndInv'
<1>1. Fault /\ Reboot /\ Stops("none") /\ UNCHANGED <<config, gen>>
  BY DEF PowerLoss
<1>2. PICK m \in may : hotDir' = m[1] /\ segDir' = m[2] /\ may' = {m}
  BY <1>1 DEF Reboot
<1>3. m = <<m[1], m[2]>> /\ Good(m[1], m[2])
  BY DEF IndInv, PairsOK
<1>4. PairsOK'
  BY <1>2, <1>3, Only
<1>5. faults' \in 0..MaxFaults
  BY <1>1, FaultCount DEF IndInv
<1> QED
  BY <1>1, <1>4, <1>5, Ends DEF IndInv

(***************************************************************************)
(* The theorems.                                                           *)
(***************************************************************************)

\* A step that changes nothing.
LEMMA StutterInv ==
    ASSUME IndInv, UNCHANGED vars
    PROVE  IndInv'
<1>1. /\ hotDir' = hotDir /\ segDir' = segDir /\ may' = may /\ config' = config /\ parked' = parked /\ gen' = gen
      /\ pc' = pc /\ k' = k /\ bundle' = bundle /\ prior' = prior /\ mutated' = mutated /\ marked' = marked
      /\ displaced' = displaced /\ failed' = failed /\ result' = result /\ faults' = faults
  BY DEF vars, files, settings, transaction
<1>2. PairsOK' /\ VarsOK'
  BY <1>1 DEF IndInv, PairsOK, VarsOK
<1>3. /\ (Matching' <=> Matching) /\ (HotKept' <=> HotKept) /\ (TreeKept' <=> TreeKept)
      /\ Candidate' = Candidate /\ journal' = journal
  BY <1>1 DEF Matching, HotKept, TreeKept, Candidate, journal
<1>4. Dir(k)' = Dir(k) /\ Prior(1)' = Prior(1) /\ Prior(2)' = Prior(2) /\ Prior(k)' = Prior(k)
  BY <1>1, <1>3 DEF Dir, Prior
<1>5. StagingOK' /\ ActivatingOK'
  BY <1>1, <1>3, <1>4 DEF IndInv, PcOK, StagingOK, ActivatingOK, Parked, New
<1>6. GroupsOK' /\ CommittedOK' /\ UndoneOK'
  BY <1>1, <1>3, <1>4 DEF IndInv, PcOK, GroupsOK, CommittedOK, UndoneOK
<1>7. UndoingOK'
  BY <1>1, <1>3, <1>4 DEF IndInv, PcOK, UndoingOK, Undoable
<1>8. RecoveringOK'
  BY <1>1, <1>3, <1>4 DEF IndInv, PcOK, RecoveringOK
<1> QED
  BY <1>2, <1>5, <1>6, <1>7, <1>8 DEF IndInv, PcOK

\* Every step keeps the invariant.
LEMMA NextInv ==
    ASSUME Ordered, IndInv, [Next]_vars
    PROVE  IndInv'
<1>1. CASE Prepare
  BY <1>1, StartImportInv, StageTreeInv, FillInv, SyncStagedInv, CreateJournalInv, FillJournalInv, SyncJournalInv
  DEF Prepare
<1>2. CASE Activate
  BY <1>2, ParkConfigInv, ReplaceConfigInv, ConfigDoneInv, ParkInv, PreserveEvidenceInv, SyncParkedInv, ReplaceInv,
     SyncReplacedInv, CommitInv, RetireInv, SyncRetiredInv, CleanupInv, RemoveJournalInv, SyncRemovedInv,
     FinalizeFailsInv
  DEF Activate
<1>3. CASE Rollback
  BY <1>3, ImportFailsInv, SkipTargetInv, DisplaceInv, SyncDisplacedInv, RestoreTargetInv, SyncRestoredInv,
     RestoreFailsInv, RollbackIncompleteInv, RollbackDoneInv, SyncUnstagedInv, UnstageTreeInv, UnstageRestInv,
     UnmarkInv, SyncUnmarkedInv, ReportInv, CleanupFailsInv
  DEF Rollback
<1>4. CASE Recover
  BY <1>4, RecoverForwardInv, RecRetireInv, RecSyncRetiredInv, RecoverBackInv, RecRemoveInv, RecSyncRemovedInv,
     RecRestoreInv, RecSyncRestoredInv, RecStagedInv, RecSyncStagedInv, RecJournalInv, RecSyncJournalInv
  DEF Recover
<1>5. CASE Write \/ OperatorRemoves \/ ForeignWrite \/ Kill \/ PowerLoss
  BY <1>5, WriteInv, OperatorRemovesInv, ForeignWriteInv, KillInv, PowerLossInv
<1>6. CASE UNCHANGED vars
  BY <1>6, StutterInv
<1> QED
  BY <1>1, <1>2, <1>3, <1>4, <1>5, <1>6 DEF Next

\* The invariant holds from the first import on, through errors, kills and power losses.
THEOREM Invariance ==
    ASSUME Ordered
    PROVE  Spec => []IndInv
<1>1. Init => IndInv
  BY InitInv
<1>2. IndInv /\ [Next]_vars => IndInv'
  BY NextInv
<1> QED
  BY <1>1, <1>2, PTL DEF Spec

\* The types: a live or parked history is never partly written, whatever a power loss leaves, and
\* a parked group always belongs to an entry that a rollback will undo.
THEOREM TypeCorrect ==
    ASSUME Ordered
    PROVE  Spec => []TypeOK
<1>1. ASSUME IndInv
      PROVE  TypeOK
  <2>1. PairsOK /\ VarsOK /\ PcOK
    BY <1>1 DEF IndInv
  <2>2. <<hotDir, segDir>> \in may /\ \A m \in may : m[1] \in HotDirs /\ m[2] \in SegDirs
    BY <2>1 DEF PairsOK, Good
  <2>3. k \in {0} \union Targets
    BY <2>1, RestoreAssumption DEF VarsOK, Targets, Groups, LastTarget, Hot, Tree
  <2>4. \A g \in Groups : parked[g] # Absent => g \in mutated
    BY <2>1 DEF VarsOK, PcOK, GroupsOK, UndoingOK, UndoneOK, Importing, Activating
  <2> QED
    BY <2>1, <2>2, <2>3, <2>4 DEF TypeOK, VarsOK, Generations
<1> QED
  BY <1>1, Invariance, PTL

\* Whatever a kill, an error or a power loss leaves, at any step of an import, a rollback or a
\* recovery: the store opens on one complete generation only, and behind a journal recovery accepts
\* what is there, unless something else has changed the hot database.
THEOREM StrandedSafety ==
    ASSUME Ordered
    PROVE  Spec => []NeverStranded
<1>1. ASSUME IndInv
      PROVE  NeverStranded
  <2>1. SUFFICES ASSUME NEW m \in may
                 PROVE  IF m[1].journal \in {Absent, Torn} THEN Whole(m[1], m[2])
                        ELSE \/ Recoverable(m[1], [m[2] EXCEPT !.staged = IF @ = Torn THEN Absent ELSE @])
                             \/ m[1].live # Absent /\ m[1].live[2] = Foreign
    BY DEF NeverStranded
  <2>2. Good(m[1], m[2]) /\ m[2] \in SegDirs
    BY <1>1 DEF IndInv, PairsOK, Good
  <2>3. CASE m[1].journal \in {Absent, Torn}
    BY <2>2, <2>3 DEF Good, Together, Whole
  <2>4. CASE m[1].journal \notin {Absent, Torn}
    <3> DEFINE tree == [m[2] EXCEPT !.staged = IF @ = Torn THEN Absent ELSE @]
    <3>1. /\ tree.live = m[2].live /\ tree.previous = m[2].previous
          /\ tree.staged = IF m[2].staged = Torn THEN Absent ELSE m[2].staged
      BY <2>2 DEF SegDirs
    <3>2. GoodJournal(m[1], m[2])
      BY <2>2, <2>4 DEF Good
    <3> HIDE DEF tree
    <3>3. Recoverable(m[1], tree) \/ Changed(m[1].live)
      BY <3>1, <3>2 DEF GoodJournal, Recoverable, Known, Restorable, CandidateLive, Available, Hot, Tree
    <3> QED
      BY <2>4, <3>3 DEF Changed, tree
  <2> QED
    BY <2>3, <2>4
<1> QED
  BY <1>1, Invariance, PTL

\* What an import reports when it ends, and no other step does.
LEMMA OtherSteps ==
    ASSUME Next, ~SyncRemoved, ~Report
    PROVE  result' \in {result, "none", "incomplete"}
<1>1. CASE Prepare
  BY <1>1 DEF Prepare, StartImport, StageTree, Fill, SyncStaged, CreateJournal, FillJournal, SyncJournal, Step,
              transaction
<1>2. CASE Activate
  BY <1>2 DEF Activate, ParkConfig, ReplaceConfig, ConfigDone, Park, PreserveEvidence, SyncParked, Replace,
              SyncReplaced, Commit, Retire, SyncRetired, Cleanup, RemoveJournal, FinalizeFails, Step, Stops,
              transaction
<1>3. CASE Rollback
  BY <1>3 DEF Rollback, ImportFails, SkipTarget, Displace, SyncDisplaced, RestoreTarget, SyncRestored, RestoreFails,
              RollbackIncomplete, RollbackDone, SyncUnstaged, UnstageTree, UnstageRest, Unmark, SyncUnmarked,
              CleanupFails, Step, Stops, transaction
<1>4. CASE Recover
  BY <1>4 DEF Recover, RecoverForward, RecRetire, RecSyncRetired, RecoverBack, RecRemove, RecSyncRemoved, RecRestore,
              RecSyncRestored, RecStaged, RecSyncStaged, RecJournal, RecSyncJournal, Step, transaction
<1>5. CASE Write \/ OperatorRemoves \/ ForeignWrite \/ Kill \/ PowerLoss
  BY <1>5 DEF Write, OperatorRemoves, ForeignWrite, Kill, PowerLoss, Stops, transaction
<1> QED
  BY <1>1, <1>2, <1>3, <1>4, <1>5 DEF Next

\* What is there when success is reported.
LEMMA SuccessKept ==
    ASSUME Ordered, IndInv, SyncRemoved
    PROVE  /\ result' = "ok"
           /\ \A g \in Groups : config'[g] = IF g \in bundle THEN gen ELSE prior[g]
           /\ \A m \in may' : m[1].live = Candidate /\ m[2].live = Candidate /\ m[1].journal = Absent
<1>1. pc = "syncRemoved" /\ SyncHot /\ result' = "ok" /\ config' = config
  BY DEF SyncRemoved, At, Stops
<1>2. /\ hotDir.live = Candidate /\ segDir.live = Candidate /\ hotDir.journal = Absent
      /\ \A g \in Groups : config[g] = IF g \in bundle THEN gen ELSE prior[g]
  BY <1>1 DEF IndInv, PcOK, CommittedOK, GroupsOK, Committed, journal
<1>3. may' = {<<hotDir, segDir>>}
  BY <1>1, SyncedHot DEF IndInv
<1>4. ASSUME NEW m \in may'
      PROVE  m[1] = hotDir /\ m[2] = segDir
  BY <1>3
<1> QED
  BY <1>1, <1>2, <1>4

\* What is there when a complete rollback is reported.
LEMMA FailureKept ==
    ASSUME IndInv, Report
    PROVE  /\ result' = "failed"
           /\ \A g \in Groups : config'[g] = prior[g]
           /\ \A m \in may' : (m[1].live = prior[Hot] \/ m[1].live[2] = Foreign) /\ m[2].live = prior[Tree]
<1>1. pc = "reported" /\ result' = "failed" /\ config' = config /\ may' = may
  BY DEF Report, At, Stops, files
<1>2. HotKept /\ TreeKept /\ may = {<<hotDir, segDir>>} /\ \A g \in Groups : config[g] = prior[g]
  BY <1>1 DEF IndInv, PcOK, UndoneOK, Undone
<1>3. (hotDir.live = prior[Hot] \/ hotDir.live[2] = Foreign) /\ segDir.live = prior[Tree]
  BY <1>2 DEF HotKept, TreeKept, Changed
<1>4. ASSUME NEW m \in may'
      PROVE  m[1] = hotDir /\ m[2] = segDir
  BY <1>1, <1>2
<1> QED
  BY <1>1, <1>2, <1>3, <1>4

\* What an import reports is what is there, and stays there after a power loss: with success
\* every target of the bundle is new and the journal gone, with a complete rollback every target is
\* as it was recorded.
THEOREM AllOrNothingSafety ==
    ASSUME Ordered
    PROVE  Spec => AllOrNothing
<1> DEFINE Honest ==
      /\ result # "ok" /\ result' = "ok" =>
            /\ \A g \in Groups : config'[g] = IF g \in bundle THEN gen ELSE prior[g]
            /\ \A m \in may' : m[1].live = Candidate /\ m[2].live = Candidate /\ m[1].journal = Absent
      /\ result # "failed" /\ result' = "failed" =>
            /\ \A g \in Groups : config'[g] = prior[g]
            /\ \A m \in may' : /\ m[1].live = prior[Hot] \/ m[1].live[2] = Foreign
                               /\ m[2].live = prior[Tree]
<1>1. IndInv /\ [Next]_vars => [Honest]_vars
  <2> SUFFICES ASSUME IndInv, Next
               PROVE  Honest
    OBVIOUS
  <2>1. CASE SyncRemoved
    BY <2>1, SuccessKept
  <2>2. CASE Report
    BY <2>2, FailureKept
  <2>3. CASE ~SyncRemoved /\ ~Report
    BY <2>3, OtherSteps
  <2> QED
    BY <2>1, <2>2, <2>3
<1> QED
  BY <1>1, Invariance, PTL DEF Spec, AllOrNothing
=============================================================================
