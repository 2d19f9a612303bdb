----------------------- MODULE HistoryMigrationProofs -----------------------
(***************************************************************************)
(* Proofs about HistoryMigration, for any number of rows and faults and    *)
(* for file systems that keep the order of changes of the two directories  *)
(* and that do not.                                                        *)
(*                                                                         *)
(* The invariant speaks of what a power loss may leave: every hot          *)
(* directory there may be goes with every segments directory there may be  *)
(* (PairsOK), which covers both kinds of file system.  The rest says what  *)
(* keeps it so: when two hot directories may be left at all (HotsOK), that *)
(* a migration may leave its own states only (FamilyOK), and what the      *)
(* process knows at each of its places (PcOK).                             *)
(***************************************************************************)
EXTENDS HistoryMigration, TLAPS

\* The hot and the segments directories that a power loss now could leave.
Hots == {m[1] : m \in may}
Segs == {m[2] : m \in may}

\* What the fields of the two directories may hold.
HotDirs == [hot : Contents]
SegDirs ==
    [catalog : Catalogs \union {Absent}, segment : Contents \union {Absent},
     tmp : Contents \union {Absent, Torn}, rollback : Contents \union {Absent, Torn},
     marker : Markers \union {Absent}, json : {Absent, Torn}]

\* The rows committed so far and the foreign ones.
Seen == (-faults)..rows

\* A v1 history, and the rows that a cutoff would seal.
V1(s) == s.marker = Absent /\ s.catalog = Absent
Below(content) == {r \in content : r <= cut}

\* How far an operation is: a migration before and after its catalog, a rollback
\* before and after its terminal marker.
Pending(s) == s.marker # Absent /\ s.marker.operation = "forward"
Forward(s) == Pending(s) /\ s.catalog = Absent
RollingBack(s) == s.marker # Absent /\ s.marker.operation = "rollback" /\ s.marker.phase = "prepared"
CleaningUp(s) == s.marker # Absent /\ s.marker.operation = "rollback" /\ s.marker.phase = "rollback-cleanup"

\* The rows of a live database that the pending operation knows.
Base(h, s) == h.hot \intersect (s.marker.source \union s.marker.rollback)

\* A pair that the store may open is one whole generation.
GoodOpen(h, s) ==
    s.marker = Absent =>
      IF s.catalog = Absent THEN s.segment = Absent
      ELSE s.segment = s.catalog.segment /\ s.rollback = s.catalog.rollback /\ s.catalog.segment \intersect h.hot = {}
           /\ s.catalog.segment \subseteq s.catalog.rollback

\* A migration's marker tells, whatever its phase, where every row is.
GoodForward(h, s) ==
    Pending(s) =>
      /\ s.rollback = s.marker.rollback /\ s.marker.rollback = s.marker.source
      /\ s.marker.phase \in {"prepared", "segment-ready", "hot-ready"}
      /\ s.marker.phase = "prepared" => s.marker.publication = Absent
      /\ s.marker.phase # "prepared" => s.marker.publication # Absent /\ s.marker.publication \subseteq s.marker.source
      /\ s.marker.phase = "hot-ready" =>
           s.marker.replacement # Absent /\ s.marker.replacement = s.marker.source \ s.marker.publication
      /\ s.segment \in {Absent, s.marker.publication}
      /\ s.catalog # Absent => s.marker.phase = "hot-ready" /\ s.segment = s.marker.publication
              /\ s.catalog.segment = s.marker.publication /\ s.catalog.rollback = s.marker.rollback
      /\ \/ s.marker.phase = "hot-ready" /\ Base(h, s) = s.marker.replacement
         \/ s.catalog = Absent /\ Base(h, s) = s.marker.source

\* A rollback keeps the segmented generation whole until its terminal marker.
GoodRollback(h, s) ==
    /\ s.marker # Absent /\ s.marker.operation = "rollback" => 
        s.marker.phase \in {"prepared", "rollback-cleanup"} /\ s.rollback = s.marker.rollback
    /\ RollingBack(s) =>
        /\ s.catalog # Absent /\ s.segment = s.catalog.segment /\ s.catalog.rollback = s.marker.rollback
        /\ s.catalog.segment \intersect s.marker.source = {} /\ s.catalog.segment \subseteq s.marker.rollback
        /\ Base(h, s) \in {s.marker.source, s.marker.rollback}
    /\ CleaningUp(s) =>
        s.marker.source = s.marker.rollback /\ Base(h, s) = s.marker.rollback

Good(h, s) == GoodOpen(h, s) /\ GoodForward(h, s) /\ GoodRollback(h, s)

\* A power loss would leave the live database as it is.
OneHot == Hots = {hotDir}

\* It might leave another one only between a replacement of the live database and the
\* sync of its directory, and then each of the two is one the marker knows.
HotsOK ==
    \/ OneHot
    \/ Forward(segDir) /\ marker.phase = "hot-ready" /\ \A h \in Hots : h.hot \in {marker.source, marker.replacement}
    \/ RollingBack(segDir) /\ hotDir.hot = marker.rollback /\ \A h \in Hots : h.hot \in {marker.source, marker.rollback}

\* With a migration pending, a power loss leaves that migration or the v1 history.
FamilyOK ==
    Forward(segDir) => \A s \in Segs : V1(s) \/ (Forward(s) /\ s.marker.source = marker.source)

\* The catalog has its name, so a migration is only to be cleared.
Published == Pending(segDir) /\ segDir.catalog # Absent /\ hotDir.hot = marker.replacement

\* What the process knows when it is about to take the step at place p.
Ready(p) ==
    /\ p = "copy" => V1(segDir) /\ segDir.rollback = Torn
    /\ p \in {"syncCopy", "prepare"} => V1(segDir) /\ segDir.rollback = hotDir.hot
    /\ p \in {"seal", "fillSegment", "record"} =>
         Forward(segDir) /\ marker.phase = "prepared" /\ hotDir.hot = marker.source /\ segDir.segment = Absent
    /\ p = "fillSegment" => segDir.tmp = Torn
    /\ p = "record" => segDir.tmp = Below(marker.source)
    /\ p \in {"linkSegment", "unlinkTmp", "syncSegment", "hotReady"} =>
         /\ Forward(segDir) /\ marker.phase = "segment-ready" /\ hotDir.hot = marker.source
         /\ publication = marker.publication /\ publication = Below(marker.source)
    /\ p = "linkSegment" => segDir.tmp = publication
    /\ p \in {"unlinkTmp", "syncSegment", "hotReady"} => segDir.segment = publication
    /\ p \in {"replaceHot", "syncHot", "catalog"} =>
         /\ Forward(segDir) /\ marker.phase = "hot-ready" /\ segDir.segment = marker.publication
         /\ publication = marker.publication
         /\ hotDir.hot = IF p = "replaceHot" THEN marker.source ELSE marker.replacement
    /\ p = "restore" =>
         /\ Forward(segDir)
         /\ hotDir.hot = marker.source \/ (marker.phase = "hot-ready" /\ hotDir.hot = marker.replacement)
    /\ p \in {"syncRestored", "removeTemporary", "removeSegment", "syncRemoved"} =>
         Forward(segDir) /\ hotDir.hot = marker.source
    /\ p \in {"restore", "syncRestored", "removeTemporary", "removeSegment", "syncRemoved"} =>
         (segDir.segment # Absent => publication # Absent)
    /\ p = "syncRemoved" => segDir.segment = Absent
    /\ p = "clear" =>
         \/ Forward(segDir) /\ hotDir.hot = marker.source /\ segDir.segment = Absent
         \/ Published
         \/ RollingBack(segDir) /\ hotDir.hot = marker.source
         \/ CleaningUp(segDir) /\ hotDir.hot = marker.rollback /\ segDir.catalog = Absent /\ segDir.segment = Absent
    /\ p = "restoreV1" => RollingBack(segDir) /\ hotDir.hot = marker.source
    /\ p = "prepareCleanup" => RollingBack(segDir)
    /\ p \in {"syncV1", "terminal"} => RollingBack(segDir) /\ hotDir.hot = marker.rollback
    /\ p \in {"finishCleanup", "retireCatalog", "syncCatalog", "retireSegment", "syncRetired"} =>
         CleaningUp(segDir) /\ hotDir.hot = marker.rollback
    /\ p \in {"syncCatalog", "retireSegment", "syncRetired"} => segDir.catalog = Absent
    /\ p = "syncRetired" => segDir.segment = Absent

\* What it knows when it has written a JSON file under its temporary name.
Putting ==
    \/ /\ then = "seal"
       /\ Ready("prepare") /\ \A s \in Segs : V1(s)
       /\ out = [name |-> "marker", replace |-> FALSE, 
                 value |-> [operation |-> "forward", phase |-> "prepared", rollback |-> segDir.rollback, 
                    source |-> hotDir.hot, publication |-> Absent, replacement |-> Absent]]
    \/ /\ then = "linkSegment" /\ Ready("record") /\ publication = segDir.tmp
       /\ out = [name |-> "marker", replace |-> TRUE,
                 value |-> [marker EXCEPT !.phase = "segment-ready", !.publication = segDir.tmp]]
    \/ /\ then = "replaceHot" /\ Ready("hotReady")
       /\ out = [name |-> "marker", replace |-> TRUE,
                 value |-> [marker EXCEPT !.phase = "hot-ready", !.replacement = {r \in hotDir.hot : r > cut}]]
    \/ /\ then = "clear" /\ Ready("catalog") /\ OneHot
       /\ out = [name |-> "catalog", replace |-> FALSE,
                 value |-> [segment |-> marker.publication, rollback |-> marker.rollback]]
    \/ /\ then = "restoreV1" /\ marker = Absent /\ segDir.catalog # Absent
       /\ out = [name |-> "marker", replace |-> FALSE, 
                 value |-> [operation |-> "rollback", phase |-> "prepared", rollback |-> segDir.rollback, 
                    source |-> hotDir.hot, publication |-> Absent, replacement |-> Absent]]
    \/ /\ then = "finishCleanup" /\ Ready("terminal") /\ OneHot
       /\ out = [name |-> "marker", replace |-> TRUE,
                 value |-> [marker EXCEPT !.phase = "rollback-cleanup", !.source = segDir.rollback]]

\* What it knows wherever it is.
PcOK ==
    /\ pc \notin {"putJson", "unlinkJson", "syncJson"} => Ready(pc)
    /\ pc = "putJson" => Putting
    /\ pc \in {"unlinkJson", "syncJson"} =>
         /\ then \in {"seal", "linkSegment", "replaceHot", "clear", "restoreV1", "finishCleanup"} /\ Ready(then)
         /\ then = "clear" => Published
    /\ pc = "prepare" => \A s \in Segs : V1(s)
    /\ pc \in {"replaceHot", "restoreV1"} => Segs = {segDir}
    /\ pc \in {"catalog", "removeTemporary", "removeSegment", "syncRemoved", "clear", "terminal"} => OneHot

\* Markers and catalogs speak of committed rows only.
KnownSeg(s) ==
    /\ s.marker # Absent => s.marker.source \subseteq Seen /\ s.marker.rollback \subseteq Seen
    /\ s.catalog # Absent => s.catalog.segment \subseteq Seen /\ s.catalog.rollback \subseteq Seen

DirsOK ==
    /\ \A h \in Hots : h \in HotDirs /\ h.hot \subseteq Seen
    /\ \A s \in Segs : s \in SegDirs /\ KnownSeg(s)

BoundsOK ==
    /\ rows \in 0..MaxRows /\ cut \in (-MaxFaults)..MaxRows /\ faults \in 0..MaxFaults
    /\ publication \in Contents \union {Absent}

\* Every hot directory that may be left goes with every segments directory that may.
PairsOK == \A h \in Hots, s \in Segs : Good(h, s)

MayOK == <<hotDir, segDir>> \in may /\ \A m \in may : m = <<m[1], m[2]>>

\* The inductive invariant.
IndInv == MayOK /\ DirsOK /\ BoundsOK /\ PairsOK /\ HotsOK /\ FamilyOK /\ PcOK

\* A change of the segments directory adds one state of it to those that may be left.
LEMMA ChangeSegEffect ==
    ASSUME MayOK, NEW change, ChangeSeg(change)
    PROVE  /\ MayOK' /\ hotDir' = hotDir /\ segDir' = Put(segDir, change)
           /\ Hots' = Hots /\ Segs' = Segs \union {segDir'}
<1> DEFINE t == Put(segDir, change)
<1>1. hotDir' = hotDir /\ segDir' = t
  BY DEF ChangeSeg
<1>2. may' = may \union IF Ordered THEN {<<hotDir, t>>} ELSE {<<m[1], t>> : m \in may}
  BY <1>1 DEF ChangeSeg
<1> HIDE DEF t
<1>3. MayOK'
  BY <1>1, <1>2 DEF MayOK
<1>4. Hots' = Hots
  BY <1>2 DEF MayOK, Hots
<1>5. Segs' = Segs \union {t}
  <2>1. <<hotDir, t>> \in may'
    BY <1>1, <1>3 DEF MayOK
  <2>2. t \in Segs'
    BY <2>1 DEF Segs
  <2>3. Segs \subseteq Segs'
    BY <1>2 DEF Segs
  <2>4. ASSUME NEW m \in may' PROVE m[2] \in Segs \union {t}
    BY <1>2 DEF Segs
  <2> QED
    BY <2>2, <2>3, <2>4 DEF Segs
<1> QED
  BY <1>1, <1>3, <1>4, <1>5 DEF t

\* A change of the hot directory adds one state of it to those that may be left.
LEMMA ChangeHotEffect ==
    ASSUME MayOK, NEW change, ChangeHot(change)
    PROVE  /\ MayOK' /\ segDir' = segDir /\ hotDir' = Put(hotDir, change)
           /\ Segs' = Segs /\ Hots' = Hots \union {hotDir'}
<1> DEFINE t == Put(hotDir, change)
<1>1. segDir' = segDir /\ hotDir' = t
  BY DEF ChangeHot
<1>2. may' = may \union IF Ordered THEN {<<t, segDir>>} ELSE {<<t, m[2]>> : m \in may}
  BY <1>1 DEF ChangeHot
<1> HIDE DEF t
<1>3. MayOK'
  BY <1>1, <1>2 DEF MayOK
<1>4. Segs' = Segs
  BY <1>2 DEF MayOK, Segs
<1>5. Hots' = Hots \union {t}
  <2>1. <<t, segDir>> \in may'
    BY <1>1, <1>3 DEF MayOK
  <2>2. t \in Hots'
    BY <2>1 DEF Hots
  <2>3. Hots \subseteq Hots'
    BY <1>2 DEF Hots
  <2>4. ASSUME NEW m \in may' PROVE m[1] \in Hots \union {t}
    BY <1>2 DEF Hots
  <2> QED
    BY <2>2, <2>3, <2>4 DEF Hots
<1> QED
  BY <1>1, <1>3, <1>4, <1>5 DEF t

\* Completing a file completes it in every segments directory that may be left.
LEMMA CompleteSegEffect ==
    ASSUME MayOK, NEW name, NEW content, CompleteSeg(name, content)
    PROVE  /\ MayOK' /\ hotDir' = hotDir /\ segDir' = Completed(segDir, name, content)
           /\ Hots' = Hots /\ Segs' = {Completed(s, name, content) : s \in Segs}
<1>1. hotDir' = hotDir /\ segDir' = Completed(segDir, name, content)
  BY DEF CompleteSeg
<1>2. may' = {<<m[1], Completed(m[2], name, content)>> : m \in may}
  BY DEF CompleteSeg
<1>3. MayOK'
  BY <1>1, <1>2 DEF MayOK
<1> DEFINE image(m) == <<m[1], Completed(m[2], name, content)>>
<1>4. /\ \A m \in may : image(m) \in may' /\ image(m)[1] = m[1] /\ image(m)[2] = Completed(m[2], name, content)
      /\ \A x \in may' : \E m \in may : x = image(m)
  BY <1>2
<1> HIDE DEF image
<1>5. Hots' = Hots
  <2>1. ASSUME NEW x \in may' PROVE x[1] \in Hots
    BY <1>4 DEF Hots
  <2>2. ASSUME NEW m \in may PROVE m[1] \in Hots'
    BY <1>4 DEF Hots
  <2> QED
    BY <2>1, <2>2 DEF Hots
<1>6. Segs' = {Completed(s, name, content) : s \in Segs}
  <2>1. ASSUME NEW x \in may' PROVE \E s \in Segs : x[2] = Completed(s, name, content)
    BY <1>4 DEF Segs
  <2>2. ASSUME NEW m \in may PROVE Completed(m[2], name, content) \in Segs'
    BY <1>4 DEF Segs
  <2> QED
    BY <2>1, <2>2 DEF Segs
<1> QED
  BY <1>1, <1>3, <1>5, <1>6

\* A sync of the hot directory decides it.
LEMMA SyncHotEffect ==
    ASSUME MayOK, SyncHot
    PROVE  MayOK' /\ hotDir' = hotDir /\ segDir' = segDir /\ Hots' = {hotDir} /\ Segs' \subseteq Segs
BY DEF MayOK, SyncHot, Hots, Segs

\* A sync of the segments directory decides it.
LEMMA SyncSegEffect ==
    ASSUME MayOK, SyncSeg
    PROVE  MayOK' /\ hotDir' = hotDir /\ segDir' = segDir /\ Segs' = {segDir} /\ Hots' \subseteq Hots
BY DEF MayOK, SyncSeg, Hots, Segs

\* A commit of SQLite changes the hot directory and decides it.
LEMMA CommitHotEffect ==
    ASSUME MayOK, NEW change, CommitHot(change)
    PROVE  /\ MayOK' /\ segDir' = segDir /\ hotDir' = Put(hotDir, change)
           /\ Hots' = {hotDir'} /\ Segs' \subseteq Segs
<1> DEFINE t == Put(hotDir, change)
<1>1. segDir' = segDir /\ hotDir' = t
  BY DEF CommitHot
<1>2. may' = IF Ordered THEN {<<t, segDir>>} ELSE {<<t, m[2]>> : m \in may}
  BY <1>1 DEF CommitHot
<1> HIDE DEF t
<1>3. MayOK'
  BY <1>1, <1>2 DEF MayOK
<1>4. Segs' \subseteq Segs
  BY <1>2 DEF MayOK, Segs
<1>5. Hots' = {t}
  <2>1. <<t, segDir>> \in may' /\ \A m \in may' : m[1] = t
    BY <1>2 DEF MayOK
  <2> QED
    BY <2>1 DEF Hots
<1> QED
  BY <1>1, <1>3, <1>4, <1>5 DEF t

\* A power loss leaves one of the pairs there may be, and decides both directories.
LEMMA RebootEffect ==
    ASSUME MayOK, Reboot
    PROVE  MayOK' /\ hotDir' \in Hots /\ segDir' \in Segs /\ Hots' = {hotDir'} /\ Segs' = {segDir'}
BY DEF MayOK, Reboot, Hots, Segs

\* A step without effect on files keeps what may be left.
LEMMA FilesEffect ==
    ASSUME MayOK, UNCHANGED files
    PROVE  MayOK' /\ hotDir' = hotDir /\ segDir' = segDir /\ Hots' = Hots /\ Segs' = Segs
BY DEF MayOK, files, Hots, Segs

\* Two segments directories that no reader and no recovery tells apart.
Similar(s, t) ==
    s.marker = t.marker /\ s.catalog = t.catalog /\ s.segment = t.segment /\ s.rollback = t.rollback

\* The directories as they are, are among those that may be left.
LEMMA Present ==
    ASSUME MayOK
    PROVE  hotDir \in Hots /\ segDir \in Segs
BY DEF MayOK, Hots, Segs

\* Wider bounds make a wider interval.
LEMMA Widened ==
    ASSUME NEW a \in Int, NEW b \in Int, NEW c \in Int, NEW d \in Int, a <= b, c <= d
    PROVE  (-a)..c \subseteq (-b)..d
OBVIOUS

\* Rows that were seen stay seen.
LEMMA SeenGrows ==
    ASSUME BoundsOK, rows' \in {rows, rows + 1}, faults' \in {faults, faults + 1}
    PROVE  Seen \subseteq Seen'
<1>1. rows \in Int /\ rows' \in Int /\ rows <= rows' /\ faults \in Int /\ faults' \in Int /\ faults <= faults'
  BY MigrationAssumption DEF BoundsOK
<1> QED
  BY <1>1, Widened, Zenon DEF Seen

\* Goodness depends only on what a reader or a recovery looks at.
LEMMA SimilarGood ==
    ASSUME NEW h, NEW s, NEW t, Similar(s, t), Good(h, s)
    PROVE  Good(h, t)
<1>1. GoodOpen(h, t)
  BY DEF Similar, Good, GoodOpen
<1>2. GoodForward(h, t)
  BY DEF Similar, Good, GoodForward, Pending, Base
<1>3. GoodRollback(h, t)
  BY DEF Similar, Good, GoodRollback, RollingBack, CleaningUp, Base
<1> QED
  BY <1>1, <1>2, <1>3 DEF Good

\* Files that no reader and no recovery interprets come and go, or directories are synced.
LEMMA Quiet ==
    ASSUME IndInv, MayOK', rows' = rows, faults' \in {faults, faults + 1}, hotDir' = hotDir,
           Hots' \subseteq Hots, Segs' \subseteq Segs \union {segDir'},
           segDir' \in SegDirs, Similar(segDir, segDir')
    PROVE  DirsOK' /\ PairsOK' /\ HotsOK' /\ FamilyOK'
<1> USE DEF IndInv
<1>1. hotDir \in Hots /\ segDir \in Segs /\ hotDir \in Hots' /\ segDir' \in Segs'
  <2>1. (hotDir \in Hots /\ segDir \in Segs)'
    BY Present, PTL
  <2> QED
    BY <2>1, Present
<1>2. Seen \subseteq Seen'
  BY SeenGrows
<1>3. KnownSeg(segDir)'
  BY <1>1, <1>2 DEF DirsOK, KnownSeg, Similar
<1>4. DirsOK'
  <2>1. ASSUME NEW s \in Segs' PROVE s \in SegDirs /\ KnownSeg(s)'
    BY <1>1, <1>2, <1>3 DEF DirsOK, KnownSeg
  <2>2. ASSUME NEW h \in Hots' PROVE h \in HotDirs /\ h.hot \subseteq Seen'
    BY <1>2 DEF DirsOK
  <2> QED
    BY <2>1, <2>2 DEF DirsOK
<1>5. PairsOK'
  <2> SUFFICES ASSUME NEW h \in Hots', NEW s \in Segs' PROVE Good(h, s)
    BY DEF PairsOK
  <2>1. CASE s \in Segs
    BY <2>1 DEF PairsOK
  <2>2. CASE s = segDir'
    BY <1>1, <2>2, SimilarGood DEF PairsOK
  <2> QED
    BY <2>1, <2>2
<1>6. HotsOK'
  BY <1>1 DEF HotsOK, OneHot, Forward, Pending, RollingBack, Similar, marker
<1>7. FamilyOK'
  BY <1>1 DEF FamilyOK, Forward, Pending, V1, Similar, marker
<1> QED
  BY <1>4, <1>5, <1>6, <1>7

\* The segments directory gets a new state that goes with every hot directory there may be.
LEMMA SegChange ==
    ASSUME IndInv, MayOK', rows' = rows, faults' \in {faults, faults + 1}, hotDir' = hotDir,
           Hots' = Hots, Segs' = Segs \union {segDir'}, segDir' \in SegDirs, KnownSeg(segDir'),
           \A h \in Hots : Good(h, segDir')
    PROVE  DirsOK' /\ PairsOK'
<1>1. Seen \subseteq Seen'
  BY SeenGrows DEF IndInv
<1>2. DirsOK'
  <2>1. ASSUME NEW s \in Segs' PROVE s \in SegDirs /\ KnownSeg(s)'
    BY <1>1 DEF IndInv, DirsOK, KnownSeg
  <2>2. ASSUME NEW h \in Hots' PROVE h \in HotDirs /\ h.hot \subseteq Seen'
    BY <1>1 DEF IndInv, DirsOK
  <2> QED
    BY <2>1, <2>2 DEF DirsOK
<1>3. PairsOK'
  BY DEF IndInv, PairsOK
<1> QED
  BY <1>2, <1>3

\* The hot directory gets a new state that goes with every segments directory there may be.
LEMMA HotChange ==
    ASSUME IndInv, MayOK', rows' \in {rows, rows + 1}, faults' \in {faults, faults + 1}, segDir' = segDir,
           Hots' \subseteq Hots \union {hotDir'}, Segs' \subseteq Segs, hotDir' \in HotDirs, hotDir'.hot \subseteq Seen',
           \A s \in Segs : Good(hotDir', s)
    PROVE  DirsOK' /\ PairsOK' /\ FamilyOK'
<1> USE DEF IndInv
<1>1. Seen \subseteq Seen'
  BY SeenGrows
<1>2. DirsOK'
  <2>1. ASSUME NEW s \in Segs' PROVE s \in SegDirs /\ KnownSeg(s)'
    BY <1>1 DEF DirsOK, KnownSeg
  <2>2. ASSUME NEW h \in Hots' PROVE h \in HotDirs /\ h.hot \subseteq Seen'
    BY <1>1 DEF DirsOK
  <2> QED
    BY <2>1, <2>2 DEF DirsOK
<1>3. PairsOK'
  BY DEF PairsOK
<1>4. FamilyOK'
  BY DEF FamilyOK, Forward, Pending, V1, marker
<1> QED
  BY <1>2, <1>3, <1>4

\* What a change of one or two names of the segments directory is.
LEMMA PutSeg ==
    ASSUME NEW s \in SegDirs, NEW v
    PROVE  /\ Put(s, [json |-> v]) = [s EXCEPT !.json = v]
           /\ Put(s, [tmp |-> v]) = [s EXCEPT !.tmp = v]
           /\ Put(s, [rollback |-> v]) = [s EXCEPT !.rollback = v]
           /\ Put(s, [segment |-> v]) = [s EXCEPT !.segment = v]
           /\ Put(s, [catalog |-> v]) = [s EXCEPT !.catalog = v]
           /\ Put(s, [marker |-> v]) = [s EXCEPT !.marker = v]
           /\ Put(s, [n \in {"marker"} |-> v]) = [s EXCEPT !.marker = v]
           /\ Put(s, [n \in {"catalog"} |-> v]) = [s EXCEPT !.catalog = v]
           /\ Put(s, [n \in {"marker", "json"} |-> IF n = "json" THEN Absent ELSE v])
                = [s EXCEPT !.marker = v, !.json = Absent]
<1>1. Put(s, [json |-> v]) = [s EXCEPT !.json = v]
  BY DEF Put, SegDirs
<1>2. Put(s, [tmp |-> v]) = [s EXCEPT !.tmp = v]
  BY DEF Put, SegDirs
<1>3. Put(s, [rollback |-> v]) = [s EXCEPT !.rollback = v]
  BY DEF Put, SegDirs
<1>4. Put(s, [segment |-> v]) = [s EXCEPT !.segment = v]
  BY DEF Put, SegDirs
<1>5. Put(s, [catalog |-> v]) = [s EXCEPT !.catalog = v]
  BY DEF Put, SegDirs
<1>6. Put(s, [marker |-> v]) = [s EXCEPT !.marker = v]
  BY DEF Put, SegDirs
<1>8. Put(s, [n \in {"marker"} |-> v]) = [s EXCEPT !.marker = v]
  BY DEF Put, SegDirs
<1>9. Put(s, [n \in {"catalog"} |-> v]) = [s EXCEPT !.catalog = v]
  BY DEF Put, SegDirs
<1>10. Put(s, [n \in {"marker", "json"} |-> IF n = "json" THEN Absent ELSE v])
           = [s EXCEPT !.marker = v, !.json = Absent]
  BY DEF Put, SegDirs
<1> QED
  BY <1>1, <1>2, <1>3, <1>4, <1>5, <1>6, <1>8, <1>9, <1>10

\* The same for the removal of the temporary files.
LEMMA PutTemporaries ==
    ASSUME NEW s \in SegDirs, NEW c, DOMAIN c = {"tmp", "json"}, c["tmp"] = Absent, c["json"] = Absent
    PROVE  Put(s, c) = [s EXCEPT !.tmp = Absent, !.json = Absent]
<1> DEFINE t == [s EXCEPT !.tmp = Absent, !.json = Absent]
           names == {"catalog", "segment", "tmp", "rollback", "marker", "json"}
<1>1. DOMAIN s = names
  BY DEF SegDirs
<1>2. t = [n \in names |-> IF n \in {"tmp", "json"} THEN Absent ELSE s[n]]
  BY DEF SegDirs
<1> HIDE DEF t
<1>3. Put(s, c) = [n \in names |-> IF n \in {"tmp", "json"} THEN Absent ELSE s[n]]
  BY <1>1 DEF Put
<1> QED
  BY <1>2, <1>3 DEF t

\* The hot directory has one name.
LEMMA PutHot ==
    ASSUME NEW h \in HotDirs, NEW v
    PROVE  Put(h, [hot |-> v]) = [hot |-> v]
BY DEF Put, HotDirs

\* A JSON file is begun under its temporary name.
LEMMA JsonBegins ==
    ASSUME IndInv, ChangeSeg([json |-> Torn]), rows' = rows, faults' = faults
    PROVE  /\ MayOK' /\ DirsOK' /\ PairsOK' /\ HotsOK' /\ FamilyOK'
           /\ Hots' = Hots /\ Segs' = Segs \union {segDir'} /\ hotDir' = hotDir /\ segDir' = [segDir EXCEPT !.json = Torn]
           /\ Similar(segDir, segDir') /\ segDir'.tmp = segDir.tmp
<1>1. /\ MayOK' /\ hotDir' = hotDir /\ segDir' = Put(segDir, [json |-> Torn])
      /\ Hots' = Hots /\ Segs' = Segs \union {segDir'}
  BY ChangeSegEffect DEF IndInv
<1>2. segDir \in SegDirs
  BY Present DEF IndInv, DirsOK
<1>3. segDir' = [segDir EXCEPT !.json = Torn]
  BY <1>1, <1>2, PutSeg
<1>4. segDir' \in SegDirs /\ Similar(segDir, segDir') /\ segDir'.tmp = segDir.tmp
  BY <1>2, <1>3 DEF SegDirs, Similar
<1>5. DirsOK' /\ PairsOK' /\ HotsOK' /\ FamilyOK'
  BY <1>1, <1>4, Quiet
<1> QED
  BY <1>1, <1>3, <1>4, <1>5

\* What the invariant says of the directories as they are.
LEMMA Here ==
    ASSUME IndInv
    PROVE  /\ hotDir \in Hots /\ segDir \in Segs /\ hotDir \in HotDirs /\ segDir \in SegDirs
           /\ Good(hotDir, segDir) /\ KnownSeg(segDir) /\ hotDir.hot \subseteq Seen
           /\ hotDir.hot \in Contents
<1>1. hotDir \in Hots /\ segDir \in Segs
  BY Present DEF IndInv
<1>2. hotDir \in HotDirs /\ segDir \in SegDirs /\ KnownSeg(segDir) /\ hotDir.hot \subseteq Seen
  BY <1>1 DEF IndInv, DirsOK
<1>3. Good(hotDir, segDir)
  BY <1>1 DEF IndInv, PairsOK
<1> QED
  BY <1>1, <1>2, <1>3 DEF HotDirs

\* Prepare begins the first marker of a migration.
LEMMA PrepareStep ==
    ASSUME IndInv, Prepare
    PROVE  IndInv'
<1>1. pc = "prepare" /\ pc' = "putJson" /\ then' = "seal" /\ ChangeSeg([json |-> Torn])
      /\ out' = [name |-> "marker", replace |-> FALSE,
                  value |-> [operation |-> "forward", phase |-> "prepared", rollback |-> segDir.rollback,
                             source |-> hotDir.hot, publication |-> Absent, replacement |-> Absent]]
      /\ rows' = rows /\ cut' = cut /\ publication' = publication /\ faults' = faults
  BY DEF Prepare, WriteJson, At, Goto
<1>2. /\ MayOK' /\ DirsOK' /\ PairsOK' /\ HotsOK' /\ FamilyOK'
      /\ Hots' = Hots /\ Segs' = Segs \union {segDir'} /\ hotDir' = hotDir
      /\ Similar(segDir, segDir')
  BY <1>1, JsonBegins
<1>3. BoundsOK'
  BY <1>1 DEF IndInv, BoundsOK
<1>4. Ready("prepare") /\ \A s \in Segs : V1(s)
  BY <1>1 DEF IndInv, PcOK
<1>5. Ready("prepare")'
  BY <1>1, <1>2, <1>4 DEF Ready, V1, Similar
<1>6. \A s \in Segs' : V1(s)
  BY <1>2, <1>4 DEF Ready, V1, Similar
<1>7. Putting'
  BY <1>1, <1>2, <1>5, <1>6 DEF Putting, Similar
<1> QED
  BY <1>1, <1>2, <1>3, <1>7 DEF IndInv, PcOK

\* Record begins the marker that names the segment.
LEMMA RecordStep ==
    ASSUME IndInv, Record
    PROVE  IndInv'
<1>1. pc = "record" /\ pc' = "putJson" /\ then' = "linkSegment" /\ ChangeSeg([json |-> Torn])
      /\ out' = [name |-> "marker", replace |-> TRUE,
                 value |-> [marker EXCEPT !.phase = "segment-ready", !.publication = segDir.tmp]]
      /\ rows' = rows /\ cut' = cut /\ publication' = segDir.tmp /\ faults' = faults
  BY DEF Record, WriteJson, At, Goto
<1>2. /\ MayOK' /\ DirsOK' /\ PairsOK' /\ HotsOK' /\ FamilyOK' /\ hotDir' = hotDir
      /\ Similar(segDir, segDir') /\ segDir'.tmp = segDir.tmp
  BY <1>1, JsonBegins
<1>3. Ready("record")
  BY <1>1 DEF IndInv, PcOK
<1>4. Ready("record")'
  BY <1>1, <1>2, <1>3 DEF Ready, Forward, Pending, Similar, marker, Below
<1>5. marker \in Markers
  BY Here, <1>3 DEF SegDirs, Ready, Forward, Pending, marker
<1>6. segDir.tmp \in Contents
  BY <1>3, <1>5 DEF Ready, Below, Markers, Contents
<1>7. BoundsOK'
  BY <1>1, <1>6 DEF IndInv, BoundsOK
<1>8. Putting'
  BY <1>1, <1>2, <1>4 DEF Putting, Similar, marker
<1> QED
  BY <1>1, <1>2, <1>7, <1>8 DEF IndInv, PcOK

\* HotReady begins the marker that names the replacement.
LEMMA HotReadyStep ==
    ASSUME IndInv, HotReady
    PROVE  IndInv'
<1>1. pc = "hotReady" /\ pc' = "putJson" /\ then' = "replaceHot" /\ ChangeSeg([json |-> Torn])
      /\ out' = [name |-> "marker", replace |-> TRUE,
                 value |-> [marker EXCEPT !.phase = "hot-ready", !.replacement = {r \in hotDir.hot : r > cut}]]
      /\ rows' = rows /\ cut' = cut /\ publication' = publication /\ faults' = faults
  BY DEF HotReady, WriteJson, At, Goto
<1>2. /\ MayOK' /\ DirsOK' /\ PairsOK' /\ HotsOK' /\ FamilyOK' /\ hotDir' = hotDir
      /\ Similar(segDir, segDir')
  BY <1>1, JsonBegins
<1>3. Ready("hotReady")
  BY <1>1 DEF IndInv, PcOK
<1>4. Ready("hotReady")'
  BY <1>1, <1>2, <1>3 DEF Ready, Forward, Pending, Similar, marker, Below
<1>5. BoundsOK'
  BY <1>1 DEF IndInv, BoundsOK
<1>6. Putting'
  BY <1>1, <1>2, <1>4 DEF Putting, Similar, marker
<1> QED
  BY <1>1, <1>2, <1>5, <1>6 DEF IndInv, PcOK

\* WriteCatalog begins the catalog.
LEMMA WriteCatalogStep ==
    ASSUME IndInv, WriteCatalog
    PROVE  IndInv'
<1>1. pc = "catalog" /\ pc' = "putJson" /\ then' = "clear" /\ ChangeSeg([json |-> Torn])
      /\ out' = [name |-> "catalog", replace |-> FALSE,
                 value |-> [segment |-> marker.publication, rollback |-> marker.rollback]]
      /\ rows' = rows /\ cut' = cut /\ publication' = publication /\ faults' = faults
  BY DEF WriteCatalog, WriteJson, At, Goto
<1>2. /\ MayOK' /\ DirsOK' /\ PairsOK' /\ HotsOK' /\ FamilyOK' /\ hotDir' = hotDir
      /\ Similar(segDir, segDir') /\ Hots' = Hots
  BY <1>1, JsonBegins
<1>3. Ready("catalog") /\ OneHot
  BY <1>1 DEF IndInv, PcOK
<1>4. Ready("catalog")' /\ OneHot'
  BY <1>1, <1>2, <1>3 DEF Ready, Forward, Pending, Similar, marker, OneHot
<1>5. BoundsOK'
  BY <1>1 DEF IndInv, BoundsOK
<1>6. Putting'
  BY <1>1, <1>2, <1>4 DEF Putting, Similar, marker
<1> QED
  BY <1>1, <1>2, <1>5, <1>6 DEF IndInv, PcOK

\* StartRollback begins the first marker of a rollback.
LEMMA StartRollbackStep ==
    ASSUME IndInv, StartRollback
    PROVE  IndInv'
<1>1. pc' = "putJson" /\ then' = "restoreV1" /\ ChangeSeg([json |-> Torn])
      /\ marker = Absent /\ segDir.catalog # Absent
      /\ out' = [name |-> "marker", replace |-> FALSE,
                 value |-> [operation |-> "rollback", phase |-> "prepared", rollback |-> segDir.rollback,
                            source |-> hotDir.hot, publication |-> Absent, replacement |-> Absent]]
      /\ rows' = rows /\ cut' = cut /\ publication' = publication /\ faults' = faults
  BY DEF StartRollback, WriteJson, At, Goto, CatalogVerified
<1>2. /\ MayOK' /\ DirsOK' /\ PairsOK' /\ HotsOK' /\ FamilyOK' /\ hotDir' = hotDir
      /\ Similar(segDir, segDir')
  BY <1>1, JsonBegins
<1>3. BoundsOK'
  BY <1>1 DEF IndInv, BoundsOK
<1>4. Putting'
  BY <1>1, <1>2 DEF Putting, Similar, marker
<1> QED
  BY <1>1, <1>2, <1>3, <1>4 DEF IndInv, PcOK

\* Terminal begins the terminal marker of a rollback.
LEMMA TerminalStep ==
    ASSUME IndInv, Terminal
    PROVE  IndInv'
<1>1. pc = "terminal" /\ pc' = "putJson" /\ then' = "finishCleanup" /\ ChangeSeg([json |-> Torn])
      /\ out' = [name |-> "marker", replace |-> TRUE,
                 value |-> [marker EXCEPT !.phase = "rollback-cleanup", !.source = segDir.rollback]]
      /\ rows' = rows /\ cut' = cut /\ publication' = publication /\ faults' = faults
  BY DEF Terminal, WriteJson, At, Goto
<1>2. /\ MayOK' /\ DirsOK' /\ PairsOK' /\ HotsOK' /\ FamilyOK' /\ hotDir' = hotDir
      /\ Similar(segDir, segDir') /\ Hots' = Hots
  BY <1>1, JsonBegins
<1>3. Ready("terminal") /\ OneHot
  BY <1>1 DEF IndInv, PcOK
<1>4. Ready("terminal")' /\ OneHot'
  BY <1>1, <1>2, <1>3 DEF Ready, RollingBack, Similar, marker, OneHot
<1>5. BoundsOK'
  BY <1>1 DEF IndInv, BoundsOK
<1>6. Putting'
  BY <1>1, <1>2, <1>4 DEF Putting, Similar, marker
<1> QED
  BY <1>1, <1>2, <1>5, <1>6 DEF IndInv, PcOK

\* A marker gets its name: nothing else in the directory changes.
LEMMA PutMarkerEffect ==
    ASSUME IndInv, PutJson, out.name = "marker", out.value \in Markers
    PROVE  /\ MayOK' /\ hotDir' = hotDir /\ Hots' = Hots /\ Segs' = Segs \union {segDir'}
           /\ segDir' \in SegDirs /\ segDir'.marker = out.value /\ marker' = out.value /\ marker' # Absent
           /\ segDir'.catalog = segDir.catalog /\ segDir'.segment = segDir.segment
           /\ segDir'.rollback = segDir.rollback /\ segDir'.tmp = segDir.tmp
           /\ rows' = rows /\ then' = then /\ cut' = cut /\ publication' = publication /\ faults' = faults
           /\ BoundsOK' /\ pc' \in {"syncJson", "unlinkJson"}
<1> DEFINE c == IF out.replace THEN [n \in {"marker", "json"} |-> IF n = "json" THEN Absent ELSE out.value]
                ELSE [n \in {"marker"} |-> out.value]
<1>1. ChangeSeg(c)
  BY Zenon DEF PutJson
<1>2. /\ rows' = rows /\ then' = then /\ cut' = cut /\ publication' = publication /\ faults' = faults
      /\ pc' \in {"syncJson", "unlinkJson"}
  BY DEF PutJson, Goto
<1>3. segDir \in SegDirs
  BY Here
<1>4. /\ MayOK' /\ hotDir' = hotDir /\ segDir' = Put(segDir, c) /\ Hots' = Hots /\ Segs' = Segs \union {segDir'}
  BY <1>1, ChangeSegEffect DEF IndInv
<1>5. \/ segDir' = [segDir EXCEPT !.marker = out.value]
      \/ segDir' = [segDir EXCEPT !.marker = out.value, !.json = Absent]
  BY <1>3, <1>4, PutSeg
<1>6. segDir' \in SegDirs /\ segDir'.marker = out.value
      /\ segDir'.catalog = segDir.catalog /\ segDir'.segment = segDir.segment
      /\ segDir'.rollback = segDir.rollback /\ segDir'.tmp = segDir.tmp
  BY <1>3, <1>5 DEF SegDirs
<1>7. out.value # Absent
  BY ContentsAssumption
<1>8. BoundsOK'
  BY <1>2 DEF IndInv, BoundsOK
<1> QED
  BY <1>2, <1>4, <1>6, <1>7, <1>8 DEF marker

\* The first marker of a migration gets its name: its snapshot is the live database.
LEMMA PutPrepared ==
    ASSUME IndInv, PutJson, then = "seal"
    PROVE  IndInv'
<1>1. /\ Ready("prepare") /\ \A s \in Segs : V1(s)
      /\ out = [name |-> "marker", replace |-> FALSE,
                value |-> [operation |-> "forward", phase |-> "prepared", rollback |-> segDir.rollback,
                           source |-> hotDir.hot, publication |-> Absent, replacement |-> Absent]]
  BY DEF IndInv, PcOK, Putting, PutJson, At
<1>2. V1(segDir) /\ segDir.rollback = hotDir.hot /\ segDir.segment = Absent
  BY <1>1, Here DEF Ready, V1, Good, GoodOpen
<1>3. out.value \in Markers /\ out.name = "marker"
  BY <1>1, <1>2, Here DEF Markers
<1>4. /\ MayOK' /\ hotDir' = hotDir /\ Hots' = Hots /\ Segs' = Segs \union {segDir'}
      /\ segDir' \in SegDirs /\ segDir'.marker = out.value /\ marker' = out.value /\ marker' # Absent
      /\ segDir'.catalog = Absent /\ segDir'.segment = Absent /\ segDir'.rollback = hotDir.hot
      /\ rows' = rows /\ then' = "seal" /\ cut' = cut /\ publication' = publication /\ faults' = faults
      /\ BoundsOK' /\ pc' \in {"syncJson", "unlinkJson"}
  BY <1>2, <1>3, PutMarkerEffect DEF V1
<1>5. /\ segDir'.marker.operation = "forward" /\ segDir'.marker.phase = "prepared"
      /\ segDir'.marker.rollback = hotDir.hot /\ segDir'.marker.source = hotDir.hot
      /\ segDir'.marker.publication = Absent
  BY <1>1, <1>2, <1>4
<1>6. OneHot
  BY <1>2 DEF IndInv, HotsOK, V1, Forward, Pending, RollingBack
<1>7. Good(hotDir, segDir')
  BY <1>4, <1>5 DEF Good, GoodOpen, GoodForward, GoodRollback, Pending, RollingBack, CleaningUp, Base, marker
<1>8. KnownSeg(segDir')
  BY <1>4, <1>5, Here DEF KnownSeg
<1>9. DirsOK' /\ PairsOK'
  BY <1>4, <1>6, <1>7, <1>8, SegChange DEF OneHot
<1>10. HotsOK'
  BY <1>4, <1>6 DEF HotsOK, OneHot
<1>11. FamilyOK'
  BY <1>1, <1>4, <1>5 DEF FamilyOK, Forward, Pending, marker
<1>12. Ready("seal")'
  BY <1>4, <1>5 DEF Ready, Forward, Pending, marker
<1> QED
  BY <1>4, <1>9, <1>10, <1>11, <1>12 DEF IndInv, PcOK

\* The marker that names the segment gets its name, before the segment does.
LEMMA PutRecorded ==
    ASSUME IndInv, PutJson, then = "linkSegment"
    PROVE  IndInv'
<1>1. /\ Ready("record") /\ publication = segDir.tmp
      /\ out = [name |-> "marker", replace |-> TRUE,
                value |-> [marker EXCEPT !.phase = "segment-ready", !.publication = segDir.tmp]]
  BY DEF IndInv, PcOK, Putting, PutJson, At
<1>2. /\ Forward(segDir) /\ marker.phase = "prepared" /\ hotDir.hot = marker.source /\ segDir.segment = Absent
      /\ segDir.tmp = Below(marker.source) /\ marker \in Markers /\ segDir.rollback = marker.rollback
      /\ marker.rollback = marker.source
  BY <1>1, Here DEF Ready, Forward, Pending, SegDirs, marker, Good, GoodForward
<1>3. segDir.tmp \in Contents /\ segDir.tmp \subseteq marker.source
  BY <1>2 DEF Below, Markers, Contents
<1>4. out.value \in Markers /\ out.name = "marker"
  BY <1>1, <1>2, <1>3 DEF Markers
<1>5. /\ MayOK' /\ hotDir' = hotDir /\ Hots' = Hots /\ Segs' = Segs \union {segDir'}
      /\ segDir' \in SegDirs /\ segDir'.marker = out.value /\ marker' = out.value /\ marker' # Absent
      /\ segDir'.catalog = Absent /\ segDir'.segment = Absent /\ segDir'.rollback = segDir.rollback
      /\ segDir'.tmp = segDir.tmp
      /\ rows' = rows /\ then' = "linkSegment" /\ cut' = cut /\ publication' = publication /\ faults' = faults
      /\ BoundsOK' /\ pc' \in {"syncJson", "unlinkJson"}
  BY <1>2, <1>4, PutMarkerEffect DEF Forward
<1>6. /\ segDir'.marker.operation = "forward" /\ segDir'.marker.phase = "segment-ready"
      /\ segDir'.marker.rollback = marker.source /\ segDir'.marker.source = marker.source
      /\ segDir'.marker.publication = segDir.tmp
  BY <1>1, <1>2, <1>5 DEF Forward, Pending, marker, Markers
<1>7. OneHot
  BY <1>2 DEF IndInv, HotsOK, Forward, Pending, RollingBack, marker
<1>8. Good(hotDir, segDir')
  BY <1>2, <1>3, <1>5, <1>6, ContentsAssumption
  DEF Good, GoodOpen, GoodForward, GoodRollback, Pending, RollingBack, CleaningUp, Base, marker
<1>9. KnownSeg(segDir')
  BY <1>2, <1>5, <1>6, Here DEF KnownSeg
<1>10. DirsOK' /\ PairsOK'
  BY <1>5, <1>7, <1>8, <1>9, SegChange DEF OneHot
<1>11. HotsOK'
  BY <1>5, <1>7 DEF HotsOK, OneHot
<1>12. FamilyOK'
  BY <1>2, <1>5, <1>6 DEF IndInv, FamilyOK, Forward, Pending, marker
<1>13. Ready("linkSegment")'
  BY <1>1, <1>2, <1>5, <1>6 DEF Ready, Forward, Pending, marker, Below
<1> QED
  BY <1>5, <1>10, <1>11, <1>12, <1>13 DEF IndInv, PcOK

\* The marker that names the replacement gets its name, after the segment.
LEMMA PutHotReady ==
    ASSUME IndInv, PutJson, then = "replaceHot"
    PROVE  IndInv'
<1> DEFINE replaced == {r \in hotDir.hot : r > cut}
<1>1. /\ Ready("hotReady")
      /\ out = [name |-> "marker", replace |-> TRUE,
                value |-> [marker EXCEPT !.phase = "hot-ready", !.replacement = replaced]]
  BY DEF IndInv, PcOK, Putting, PutJson, At
<1>2. /\ Forward(segDir) /\ marker.phase = "segment-ready" /\ hotDir.hot = marker.source
      /\ segDir.segment = marker.publication /\ marker.publication = publication
      /\ publication = Below(marker.source) /\ marker \in Markers /\ segDir.rollback = marker.rollback
      /\ marker.rollback = marker.source /\ marker.publication # Absent
  BY <1>1, Here DEF Ready, Forward, Pending, SegDirs, marker, Good, GoodForward
<1>3. /\ replaced \in Contents /\ replaced \subseteq marker.source /\ replaced # Absent
      /\ marker.publication \subseteq marker.source
  BY <1>2, Here, ContentsAssumption DEF Below, Contents
<1>4. replaced = marker.source \ marker.publication
  <2>1. cut \in Int
    BY MigrationAssumption DEF IndInv, BoundsOK
  <2>2. \A r \in marker.source : r \in Int
    BY <1>2, MigrationAssumption DEF Markers, Contents
  <2> QED
    BY <1>2, <2>1, <2>2 DEF Below
<1> HIDE DEF replaced
<1>5. out.value \in Markers /\ out.name = "marker"
  BY <1>1, <1>2, <1>3 DEF Markers
<1>6. /\ MayOK' /\ hotDir' = hotDir /\ Hots' = Hots /\ Segs' = Segs \union {segDir'}
      /\ segDir' \in SegDirs /\ segDir'.marker = out.value /\ marker' = out.value /\ marker' # Absent
      /\ segDir'.catalog = Absent /\ segDir'.segment = segDir.segment /\ segDir'.rollback = segDir.rollback
      /\ rows' = rows /\ then' = "replaceHot" /\ cut' = cut /\ publication' = publication /\ faults' = faults
      /\ BoundsOK' /\ pc' \in {"syncJson", "unlinkJson"}
  BY <1>2, <1>5, PutMarkerEffect DEF Forward
<1>7. /\ segDir'.marker.operation = "forward" /\ segDir'.marker.phase = "hot-ready"
      /\ segDir'.marker.rollback = marker.source /\ segDir'.marker.source = marker.source
      /\ segDir'.marker.publication = marker.publication /\ segDir'.marker.replacement = replaced
  BY <1>1, <1>2, <1>6 DEF Forward, Pending, marker, Markers
<1>8. OneHot
  BY <1>2 DEF IndInv, HotsOK, Forward, Pending, RollingBack, marker
<1>9. Good(hotDir, segDir')
  BY <1>2, <1>3, <1>4, <1>6, <1>7
  DEF Good, GoodOpen, GoodForward, GoodRollback, Pending, RollingBack, CleaningUp, Base, marker
<1>10. KnownSeg(segDir')
  BY <1>2, <1>6, <1>7, Here DEF KnownSeg
<1>11. DirsOK' /\ PairsOK'
  BY <1>6, <1>8, <1>9, <1>10, SegChange DEF OneHot
<1>12. HotsOK'
  BY <1>6, <1>8 DEF HotsOK, OneHot
<1>13. FamilyOK'
  BY <1>2, <1>6, <1>7 DEF IndInv, FamilyOK, Forward, Pending, marker
<1>14. Ready("replaceHot")'
  BY <1>2, <1>6, <1>7 DEF Ready, Forward, Pending, marker
<1> QED
  BY <1>6, <1>11, <1>12, <1>13, <1>14 DEF IndInv, PcOK

\* The catalog gets its name once the replacement of the live database is durable.
LEMMA PutCatalog ==
    ASSUME IndInv, PutJson, then = "clear"
    PROVE  IndInv'
<1>1. /\ Ready("catalog") /\ OneHot
      /\ out = [name |-> "catalog", replace |-> FALSE,
                value |-> [segment |-> marker.publication, rollback |-> marker.rollback]]
  BY DEF IndInv, PcOK, Putting, PutJson, At
<1>2. /\ Forward(segDir) /\ marker.phase = "hot-ready" /\ hotDir.hot = marker.replacement
      /\ segDir.segment = marker.publication /\ marker \in Markers /\ marker.publication \in Contents
      /\ marker.publication \subseteq marker.source /\ segDir \in SegDirs
  BY <1>1, Here DEF Ready, Forward, Pending, SegDirs, marker, Good, GoodForward, Markers
<1>3. out.value \in Catalogs /\ out.value # Absent
  BY <1>1, <1>2, ContentsAssumption DEF Markers, Catalogs
<1>4. ChangeSeg([n \in {"catalog"} |-> out.value])
  BY <1>1 DEF PutJson
<1>5. /\ MayOK' /\ hotDir' = hotDir /\ segDir' = Put(segDir, [n \in {"catalog"} |-> out.value])
      /\ Hots' = Hots /\ Segs' = Segs \union {segDir'}
  BY <1>4, ChangeSegEffect DEF IndInv
<1>6. segDir' = [segDir EXCEPT !.catalog = out.value]
  BY <1>2, <1>5, PutSeg
<1>7. /\ segDir' \in SegDirs /\ segDir'.marker = segDir.marker /\ segDir'.segment = segDir.segment
      /\ segDir'.rollback = segDir.rollback /\ segDir'.catalog = out.value /\ segDir'.catalog # Absent
      /\ segDir'.catalog.segment = marker.publication /\ segDir'.catalog.rollback = marker.rollback
  BY <1>1, <1>2, <1>3, <1>6 DEF SegDirs
<1>8. /\ rows' = rows /\ then' = "clear" /\ cut' = cut /\ publication' = publication /\ faults' = faults
      /\ pc' \in {"syncJson", "unlinkJson"}
  BY DEF PutJson, Goto
<1>9. BoundsOK'
  BY <1>8 DEF IndInv, BoundsOK
<1>10. Good(hotDir, segDir')
  BY <1>2, <1>7, Here DEF Good, GoodOpen, GoodForward, GoodRollback, Forward, Pending, RollingBack, CleaningUp, Base, marker
<1>11. KnownSeg(segDir')
  BY <1>2, <1>7, Here DEF KnownSeg, Forward, Pending, marker
<1>12. DirsOK' /\ PairsOK'
  BY <1>1, <1>5, <1>7, <1>8, <1>10, <1>11, SegChange DEF OneHot
<1>13. HotsOK'
  BY <1>1, <1>5 DEF HotsOK, OneHot
<1>14. FamilyOK'
  BY <1>7 DEF FamilyOK, Forward
<1>15. Published' /\ Ready("clear")'
  BY <1>2, <1>5, <1>7 DEF Ready, Published, Forward, Pending, marker
<1> QED
  BY <1>5, <1>8, <1>9, <1>12, <1>13, <1>14, <1>15 DEF IndInv, PcOK

\* The first marker of a rollback gets its name: the segmented generation is whole.
LEMMA PutRollback ==
    ASSUME IndInv, PutJson, then = "restoreV1"
    PROVE  IndInv'
<1>1. /\ marker = Absent /\ segDir.catalog # Absent
      /\ out = [name |-> "marker", replace |-> FALSE,
                value |-> [operation |-> "rollback", phase |-> "prepared", rollback |-> segDir.rollback,
                           source |-> hotDir.hot, publication |-> Absent, replacement |-> Absent]]
  BY DEF IndInv, PcOK, Putting, PutJson, At
<1>2. /\ segDir.segment = segDir.catalog.segment /\ segDir.rollback = segDir.catalog.rollback
      /\ segDir.catalog.segment \intersect hotDir.hot = {} /\ segDir.catalog \in Catalogs
      /\ segDir.catalog.segment \subseteq segDir.catalog.rollback
  BY <1>1, Here DEF Good, GoodOpen, SegDirs, marker
<1>3. out.value \in Markers /\ out.name = "marker"
  BY <1>1, <1>2, Here DEF Markers, Catalogs
<1>4. /\ MayOK' /\ hotDir' = hotDir /\ Hots' = Hots /\ Segs' = Segs \union {segDir'}
      /\ segDir' \in SegDirs /\ segDir'.marker = out.value /\ marker' = out.value /\ marker' # Absent
      /\ segDir'.catalog = segDir.catalog /\ segDir'.segment = segDir.segment /\ segDir'.rollback = segDir.rollback
      /\ rows' = rows /\ then' = "restoreV1" /\ cut' = cut /\ publication' = publication /\ faults' = faults
      /\ BoundsOK' /\ pc' \in {"syncJson", "unlinkJson"}
  BY <1>3, PutMarkerEffect
<1>5. /\ segDir'.marker.operation = "rollback" /\ segDir'.marker.phase = "prepared"
      /\ segDir'.marker.rollback = segDir.rollback /\ segDir'.marker.source = hotDir.hot
  BY <1>1, <1>4
<1>6. OneHot
  BY <1>1 DEF IndInv, HotsOK, Forward, Pending, RollingBack, marker
<1>7. Good(hotDir, segDir')
  BY <1>1, <1>2, <1>4, <1>5
  DEF Good, GoodOpen, GoodForward, GoodRollback, Pending, RollingBack, CleaningUp, Base, marker
<1>8. KnownSeg(segDir')
  BY <1>1, <1>2, <1>4, <1>5, Here DEF KnownSeg
<1>9. DirsOK' /\ PairsOK'
  BY <1>4, <1>6, <1>7, <1>8, SegChange DEF OneHot
<1>10. HotsOK'
  BY <1>4, <1>6 DEF HotsOK, OneHot
<1>11. FamilyOK'
  BY <1>1, <1>4 DEF FamilyOK, Forward
<1>12. Ready("restoreV1")'
  BY <1>4, <1>5 DEF Ready, RollingBack, marker
<1> QED
  BY <1>4, <1>9, <1>10, <1>11, <1>12 DEF IndInv, PcOK

\* The terminal marker gets its name once the restored database is durable.
LEMMA PutTerminal ==
    ASSUME IndInv, PutJson, then = "finishCleanup"
    PROVE  IndInv'
<1>1. /\ Ready("terminal") /\ OneHot
      /\ out = [name |-> "marker", replace |-> TRUE,
                value |-> [marker EXCEPT !.phase = "rollback-cleanup", !.source = segDir.rollback]]
  BY DEF IndInv, PcOK, Putting, PutJson, At
<1>2. /\ RollingBack(segDir) /\ hotDir.hot = marker.rollback /\ segDir.rollback = marker.rollback
      /\ marker \in Markers /\ segDir.catalog # Absent
  BY <1>1, Here DEF Ready, RollingBack, SegDirs, marker, Good, GoodRollback
<1>3. out.value \in Markers /\ out.name = "marker"
  BY <1>1, <1>2 DEF Markers
<1>4. /\ MayOK' /\ hotDir' = hotDir /\ Hots' = Hots /\ Segs' = Segs \union {segDir'}
      /\ segDir' \in SegDirs /\ segDir'.marker = out.value /\ marker' = out.value /\ marker' # Absent
      /\ segDir'.catalog = segDir.catalog /\ segDir'.segment = segDir.segment /\ segDir'.rollback = segDir.rollback
      /\ rows' = rows /\ then' = "finishCleanup" /\ cut' = cut /\ publication' = publication /\ faults' = faults
      /\ BoundsOK' /\ pc' \in {"syncJson", "unlinkJson"}
  BY <1>3, PutMarkerEffect
<1>5. /\ segDir'.marker.operation = "rollback" /\ segDir'.marker.phase = "rollback-cleanup"
      /\ segDir'.marker.rollback = marker.rollback /\ segDir'.marker.source = marker.rollback
  BY <1>1, <1>2, <1>4 DEF RollingBack, marker, Markers
<1>6. Good(hotDir, segDir')
  BY <1>2, <1>4, <1>5
  DEF Good, GoodOpen, GoodForward, GoodRollback, Pending, RollingBack, CleaningUp, Base, marker
<1>7. KnownSeg(segDir')
  BY <1>2, <1>4, <1>5, Here DEF KnownSeg
<1>8. DirsOK' /\ PairsOK'
  BY <1>1, <1>4, <1>6, <1>7, SegChange DEF OneHot
<1>9. HotsOK'
  BY <1>1, <1>4 DEF HotsOK, OneHot
<1>10. FamilyOK'
  BY <1>2, <1>4 DEF FamilyOK, Forward
<1>11. Ready("finishCleanup")'
  BY <1>2, <1>4, <1>5 DEF Ready, CleaningUp, marker
<1> QED
  BY <1>4, <1>8, <1>9, <1>10, <1>11 DEF IndInv, PcOK

\* Whatever PutJson publishes keeps the invariant.
LEMMA PutJsonStep ==
    ASSUME IndInv, PutJson
    PROVE  IndInv'
<1>1. then \in {"seal", "linkSegment", "replaceHot", "clear", "restoreV1", "finishCleanup"}
  BY DEF IndInv, PcOK, Putting, PutJson, At
<1> QED
  BY <1>1, PutPrepared, PutRecorded, PutHotReady, PutCatalog, PutRollback, PutTerminal

\* The temporary JSON file comes or goes.
LEMMA JsonChanges ==
    ASSUME IndInv, NEW v \in {Absent, Torn}, ChangeSeg([json |-> v]), rows' = rows, faults' \in {faults, faults + 1}
    PROVE  /\ MayOK' /\ DirsOK' /\ PairsOK' /\ HotsOK' /\ FamilyOK'
           /\ Hots' = Hots /\ Segs' = Segs \union {segDir'} /\ hotDir' = hotDir
           /\ Similar(segDir, segDir') /\ segDir'.tmp = segDir.tmp
<1>1. /\ MayOK' /\ hotDir' = hotDir /\ segDir' = Put(segDir, [json |-> v])
      /\ Hots' = Hots /\ Segs' = Segs \union {segDir'}
  BY ChangeSegEffect DEF IndInv
<1>2. segDir' = [segDir EXCEPT !.json = v]
  BY <1>1, Here, PutSeg
<1>3. segDir' \in SegDirs /\ Similar(segDir, segDir') /\ segDir'.tmp = segDir.tmp
  BY <1>2, Here DEF SegDirs, Similar
<1>4. DirsOK' /\ PairsOK' /\ HotsOK' /\ FamilyOK'
  BY <1>1, <1>3, Quiet
<1> QED
  BY <1>1, <1>3, <1>4

\* The temporary segment comes or goes.
LEMMA TmpChanges ==
    ASSUME IndInv, NEW v \in {Absent, Torn}, ChangeSeg([tmp |-> v]), rows' = rows, faults' = faults
    PROVE  /\ MayOK' /\ DirsOK' /\ PairsOK' /\ HotsOK' /\ FamilyOK'
           /\ Hots' = Hots /\ hotDir' = hotDir /\ Similar(segDir, segDir') /\ segDir'.tmp = v
<1>1. /\ MayOK' /\ hotDir' = hotDir /\ segDir' = Put(segDir, [tmp |-> v])
      /\ Hots' = Hots /\ Segs' = Segs \union {segDir'}
  BY ChangeSegEffect DEF IndInv
<1>2. segDir' = [segDir EXCEPT !.tmp = v]
  BY <1>1, Here, PutSeg
<1>3. segDir' \in SegDirs /\ Similar(segDir, segDir') /\ segDir'.tmp = v
  BY <1>2, Here DEF SegDirs, Similar
<1>4. DirsOK' /\ PairsOK' /\ HotsOK' /\ FamilyOK'
  BY <1>1, <1>3, Quiet
<1> QED
  BY <1>1, <1>3, <1>4

\* Both go.
LEMMA TemporariesRemoved ==
    ASSUME IndInv, ChangeSeg([tmp |-> Absent, json |-> Absent]), rows' = rows, faults' \in {faults, faults + 1}
    PROVE  /\ MayOK' /\ DirsOK' /\ PairsOK' /\ HotsOK' /\ FamilyOK'
           /\ Hots' = Hots /\ hotDir' = hotDir /\ Similar(segDir, segDir')
<1> DEFINE c == [tmp |-> Absent, json |-> Absent]
<1>1. ChangeSeg(c)
  OBVIOUS
<1>2. DOMAIN c = {"tmp", "json"} /\ c["tmp"] = Absent /\ c["json"] = Absent
  OBVIOUS
<1> HIDE DEF c
<1>3. /\ MayOK' /\ hotDir' = hotDir /\ segDir' = Put(segDir, c)
      /\ Hots' = Hots /\ Segs' = Segs \union {segDir'}
  BY <1>1, ChangeSegEffect DEF IndInv
<1>4. segDir' = [segDir EXCEPT !.tmp = Absent, !.json = Absent]
  BY <1>2, <1>3, Here, PutTemporaries
<1>5. segDir' \in SegDirs /\ Similar(segDir, segDir')
  BY <1>4, Here DEF SegDirs, Similar
<1>6. DirsOK' /\ PairsOK' /\ HotsOK' /\ FamilyOK'
  BY <1>3, <1>5, Quiet
<1> QED
  BY <1>3, <1>5, <1>6

\* The segments directory is synced.
LEMMA SegSynced ==
    ASSUME IndInv, SyncSeg, rows' = rows, faults' = faults
    PROVE  /\ MayOK' /\ DirsOK' /\ PairsOK' /\ HotsOK' /\ FamilyOK'
           /\ hotDir' = hotDir /\ segDir' = segDir /\ Segs' = {segDir'} /\ (OneHot => OneHot')
<1>1. MayOK' /\ hotDir' = hotDir /\ segDir' = segDir /\ Segs' = {segDir} /\ Hots' \subseteq Hots
  BY SyncSegEffect DEF IndInv
<1>2. DirsOK' /\ PairsOK' /\ HotsOK' /\ FamilyOK'
  BY <1>1, Here, Quiet DEF Similar
<1>3. (hotDir \in Hots)'
  BY <1>1, Present, PTL
<1> QED
  BY <1>1, <1>2, <1>3 DEF OneHot

\* The hot directory is synced: the live database is settled.
LEMMA HotSynced ==
    ASSUME IndInv, SyncHot, rows' = rows, faults' = faults
    PROVE  /\ MayOK' /\ DirsOK' /\ PairsOK' /\ HotsOK' /\ FamilyOK'
           /\ hotDir' = hotDir /\ segDir' = segDir /\ OneHot'
<1>1. MayOK' /\ hotDir' = hotDir /\ segDir' = segDir /\ Hots' = {hotDir} /\ Segs' \subseteq Segs
  BY SyncHotEffect DEF IndInv
<1>2. DirsOK' /\ PairsOK' /\ HotsOK' /\ FamilyOK'
  BY <1>1, Here, Quiet DEF Similar
<1> QED
  BY <1>1, <1>2 DEF OneHot

\* A step changes no file.
LEMMA FilesKept ==
    ASSUME IndInv, UNCHANGED files, rows' = rows, faults' \in {faults, faults + 1}
    PROVE  /\ MayOK' /\ DirsOK' /\ PairsOK' /\ HotsOK' /\ FamilyOK'
           /\ hotDir' = hotDir /\ segDir' = segDir /\ Hots' = Hots /\ Segs' = Segs
<1>1. MayOK' /\ hotDir' = hotDir /\ segDir' = segDir /\ Hots' = Hots /\ Segs' = Segs
  BY FilesEffect DEF IndInv
<1>2. DirsOK' /\ PairsOK' /\ HotsOK' /\ FamilyOK'
  BY <1>1, Here, Quiet DEF Similar
<1> QED
  BY <1>1, <1>2

\* A process that has stopped knows nothing.
LEMMA Stopped ==
    ASSUME BoundsOK, Stops, rows' = rows, faults' = faults \/ Fault
    PROVE  BoundsOK' /\ PcOK' /\ faults' \in {faults, faults + 1}
<1>1. faults' \in 0..MaxFaults /\ faults' \in {faults, faults + 1}
  BY MigrationAssumption DEF BoundsOK, Fault
<1>2. cut' \in (-MaxFaults)..MaxRows
  BY MigrationAssumption DEF Stops
<1>3. BoundsOK'
  BY <1>1, <1>2 DEF BoundsOK, Stops
<1>4. PcOK'
  BY DEF PcOK, Stops, Ready
<1> QED
  BY <1>1, <1>3, <1>4

\* What a place requires depends on what a reader looks at and the temporary segment.
LEMMA SimilarReady ==
    ASSUME Similar(segDir, segDir'), segDir'.tmp = segDir.tmp, hotDir' = hotDir,
           publication' = publication, cut' = cut, NEW p, Ready(p)
    PROVE  Ready(p)' /\ (Published => Published')
BY DEF Similar, Ready, Published, V1, Forward, Pending, RollingBack, CleaningUp, Below, marker

\* UnlinkJson removes the second name of a published file.
LEMMA UnlinkJsonStep ==
    ASSUME IndInv, UnlinkJson
    PROVE  IndInv'
<1>1. /\ pc = "unlinkJson" /\ pc' = "syncJson" /\ ChangeSeg([json |-> Absent])
      /\ rows' = rows /\ then' = then /\ cut' = cut /\ publication' = publication /\ faults' = faults
  BY DEF UnlinkJson, Step, At, Goto
<1>2. /\ MayOK' /\ DirsOK' /\ PairsOK' /\ HotsOK' /\ FamilyOK' /\ hotDir' = hotDir
      /\ Similar(segDir, segDir') /\ segDir'.tmp = segDir.tmp
  BY <1>1, JsonChanges
<1>3. BoundsOK'
  BY <1>1 DEF IndInv, BoundsOK
<1>4. Ready(then)' /\ (Published => Published')
  BY <1>1, <1>2, SimilarReady DEF IndInv, PcOK
<1> QED
  BY <1>1, <1>2, <1>3, <1>4 DEF IndInv, PcOK

\* SyncJson makes it durable, and what the next place requires holds.
LEMMA SyncJsonStep ==
    ASSUME IndInv, SyncJson
    PROVE  IndInv'
<1>1. /\ pc = "syncJson" /\ pc' = then /\ SyncSeg
      /\ rows' = rows /\ then' = then /\ cut' = cut /\ publication' = publication /\ faults' = faults
  BY DEF SyncJson, At, Goto
<1>2. /\ MayOK' /\ DirsOK' /\ PairsOK' /\ HotsOK' /\ FamilyOK' /\ hotDir' = hotDir
      /\ segDir' = segDir /\ Segs' = {segDir'}
  BY <1>1, SegSynced
<1>3. BoundsOK'
  BY <1>1 DEF IndInv, BoundsOK
<1>4. /\ then \in {"seal", "linkSegment", "replaceHot", "clear", "restoreV1", "finishCleanup"}
      /\ Ready(then) /\ (then = "clear" => Published)
  BY <1>1 DEF IndInv, PcOK
<1>5. Ready(then)' /\ (then = "clear" => Published')
  BY <1>1, <1>2, <1>4, SimilarReady DEF Similar
<1>6. then = "clear" => OneHot'
  BY <1>2, <1>5 DEF HotsOK, Published, Forward, Pending, RollingBack
<1> QED
  BY <1>1, <1>2, <1>3, <1>4, <1>5, <1>6 DEF IndInv, PcOK

\* A first or terminal marker fails: nothing is undone, and nothing has to be.
LEMMA JsonFailsStep ==
    ASSUME IndInv, JsonFails
    PROVE  IndInv'
<1>1. Fault /\ ChangeSeg([json |-> Absent]) /\ Stops /\ rows' = rows
  BY DEF JsonFails
<1>2. BoundsOK' /\ PcOK' /\ faults' \in {faults, faults + 1}
  BY <1>1, Stopped DEF IndInv
<1>3. MayOK' /\ DirsOK' /\ PairsOK' /\ HotsOK' /\ FamilyOK'
  BY <1>1, <1>2, JsonChanges
<1> QED
  BY <1>2, <1>3 DEF IndInv

\* The process is killed at any place.
LEMMA KillStep ==
    ASSUME IndInv, Kill
    PROVE  IndInv'
<1>1. Fault /\ UNCHANGED files /\ Stops /\ rows' = rows
  BY DEF Kill
<1>2. BoundsOK' /\ PcOK' /\ faults' \in {faults, faults + 1}
  BY <1>1, Stopped DEF IndInv
<1>3. MayOK' /\ DirsOK' /\ PairsOK' /\ HotsOK' /\ FamilyOK'
  BY <1>1, <1>2, FilesKept
<1> QED
  BY <1>2, <1>3 DEF IndInv

\* The cleared marker is synced.
LEMMA SyncClearStep ==
    ASSUME IndInv, SyncClear
    PROVE  IndInv'
<1>1. SyncSeg /\ Stops /\ rows' = rows /\ faults' = faults
  BY DEF SyncClear
<1>2. BoundsOK' /\ PcOK'
  BY <1>1, Stopped DEF IndInv
<1>3. MayOK' /\ DirsOK' /\ PairsOK' /\ HotsOK' /\ FamilyOK'
  BY <1>1, SegSynced
<1> QED
  BY <1>2, <1>3 DEF IndInv

\* The rollback snapshot of a v1 history is created or removed.
LEMMA SnapshotChanges ==
    ASSUME IndInv, V1(segDir), NEW v \in {Absent, Torn}, ChangeSeg([rollback |-> v]),
           rows' = rows, faults' \in {faults, faults + 1}
    PROVE  /\ MayOK' /\ DirsOK' /\ PairsOK' /\ HotsOK' /\ FamilyOK'
           /\ hotDir' = hotDir /\ V1(segDir') /\ segDir'.rollback = v
<1>1. /\ MayOK' /\ hotDir' = hotDir /\ segDir' = Put(segDir, [rollback |-> v])
      /\ Hots' = Hots /\ Segs' = Segs \union {segDir'}
  BY ChangeSegEffect DEF IndInv
<1>2. segDir' = [segDir EXCEPT !.rollback = v]
  BY <1>1, Here, PutSeg
<1>3. segDir' \in SegDirs /\ V1(segDir') /\ segDir'.rollback = v /\ segDir'.segment = segDir.segment
  BY <1>2, Here DEF SegDirs, V1
<1>4. ASSUME NEW h \in Hots PROVE Good(h, segDir')
  <2>1. Good(h, segDir)
    BY Here DEF IndInv, PairsOK
  <2> QED
    BY <1>3, <2>1 DEF Good, GoodOpen, GoodForward, GoodRollback, V1, Pending, RollingBack, CleaningUp
<1>5. KnownSeg(segDir')
  BY <1>3 DEF KnownSeg, V1
<1>6. DirsOK' /\ PairsOK'
  BY <1>1, <1>3, <1>4, <1>5, SegChange
<1>7. OneHot
  BY DEF IndInv, HotsOK, V1, Forward, Pending, RollingBack
<1>8. HotsOK' /\ FamilyOK'
  BY <1>1, <1>3, <1>7 DEF HotsOK, OneHot, FamilyOK, V1, Forward, Pending
<1> QED
  BY <1>1, <1>3, <1>6, <1>8

\* StartMigration begins the rollback snapshot of a v1 history.
LEMMA StartMigrationStep ==
    ASSUME IndInv, StartMigration
    PROVE  IndInv'
<1>1. /\ pc = "idle" /\ pc' = "copy" /\ V1(segDir) /\ cut' \in hotDir.hot
      /\ ChangeSeg([rollback |-> Torn])
      /\ rows' = rows /\ then' = then /\ publication' = publication /\ faults' = faults
  BY DEF StartMigration, At, Goto, V1, marker
<1>2. /\ MayOK' /\ DirsOK' /\ PairsOK' /\ HotsOK' /\ FamilyOK'
      /\ hotDir' = hotDir /\ V1(segDir') /\ segDir'.rollback = Torn
  BY <1>1, SnapshotChanges
<1>3. BoundsOK'
  BY <1>1, Here DEF IndInv, BoundsOK, Contents
<1>4. Ready("copy")'
  BY <1>2 DEF Ready
<1> QED
  BY <1>1, <1>2, <1>3, <1>4 DEF IndInv, PcOK

\* The snapshot fails and is removed.
LEMMA CopyFailsStep ==
    ASSUME IndInv, CopyFails
    PROVE  IndInv'
<1>1. pc \in {"copy", "syncCopy"} /\ Fault /\ ChangeSeg([rollback |-> Absent]) /\ Stops /\ rows' = rows
  BY DEF CopyFails
<1>2. V1(segDir)
  BY <1>1 DEF IndInv, PcOK, Ready
<1>3. BoundsOK' /\ PcOK' /\ faults' \in {faults, faults + 1}
  BY <1>1, Stopped DEF IndInv
<1>4. MayOK' /\ DirsOK' /\ PairsOK' /\ HotsOK' /\ FamilyOK'
  BY <1>1, <1>2, <1>3, SnapshotChanges
<1> QED
  BY <1>3, <1>4 DEF IndInv

\* Recovery removes a snapshot without a marker.
LEMMA RecoverSnapshotStep ==
    ASSUME IndInv, RecoverSnapshot
    PROVE  IndInv'
<1>1. /\ pc' = "syncClear" /\ V1(segDir) /\ ChangeSeg([rollback |-> Absent])
      /\ rows' = rows /\ then' = then /\ cut' = cut /\ publication' = publication /\ faults' = faults
  BY DEF RecoverSnapshot, At, Goto, V1, marker
<1>2. /\ MayOK' /\ DirsOK' /\ PairsOK' /\ HotsOK' /\ FamilyOK'
  BY <1>1, SnapshotChanges
<1>3. BoundsOK'
  BY <1>1 DEF IndInv, BoundsOK
<1> QED
  BY <1>1, <1>2, <1>3 DEF IndInv, PcOK, Ready

\* The snapshot is complete: it is the live database.
LEMMA CopySourceStep ==
    ASSUME IndInv, CopySource
    PROVE  IndInv'
<1> DEFINE Image(s) == Completed(s, "rollback", hotDir.hot)
<1>1. /\ pc = "copy" /\ pc' = "syncCopy" /\ CompleteSeg("rollback", hotDir.hot)
      /\ rows' = rows /\ then' = then /\ cut' = cut /\ publication' = publication /\ faults' = faults
  BY DEF CopySource, Step, At, Goto
<1>2. /\ MayOK' /\ hotDir' = hotDir /\ segDir' = Image(segDir)
      /\ Hots' = Hots /\ Segs' = {Image(s) : s \in Segs}
  BY <1>1, CompleteSegEffect DEF IndInv
<1>3. V1(segDir) /\ segDir.rollback = Torn
  BY <1>1 DEF IndInv, PcOK, Ready
<1>4. ASSUME NEW s \in Segs
      PROVE  /\ Image(s) \in SegDirs /\ KnownSeg(Image(s))
             /\ \A h \in Hots : Good(h, Image(s))
  <2>1. s \in SegDirs /\ KnownSeg(s) /\ \A h \in Hots : Good(h, s)
    BY DEF IndInv, DirsOK, PairsOK
  <2>2. CASE s.rollback # Torn
    BY <2>1, <2>2 DEF Completed
  <2>3. CASE s.rollback = Torn
    <3>1. Good(hotDir, s)
      BY <2>1, Here
    <3>2. s.marker = Absent
      BY <2>1, <2>3, <3>1, ContentsAssumption DEF Good, GoodForward, GoodRollback, Pending, SegDirs, Markers
    <3>3. s.catalog = Absent
      BY <2>1, <2>3, <3>1, <3>2, ContentsAssumption DEF Good, GoodOpen, SegDirs, Catalogs
    <3>4. s.segment = Absent
      BY <3>1, <3>2, <3>3 DEF Good, GoodOpen
    <3>5. Image(s) = [s EXCEPT !.rollback = hotDir.hot]
      BY <2>3 DEF Completed
    <3>6. /\ Image(s) \in SegDirs /\ Image(s).marker = Absent /\ Image(s).catalog = Absent
          /\ Image(s).segment = Absent
      BY <2>1, <3>2, <3>3, <3>4, <3>5, Here DEF SegDirs
    <3> HIDE DEF Image
    <3>7. KnownSeg(Image(s)) /\ \A h \in Hots : Good(h, Image(s))
      BY <3>6 DEF KnownSeg, Good, GoodOpen, GoodForward, GoodRollback, Pending, RollingBack, CleaningUp
    <3> QED
      BY <3>6, <3>7
  <2> QED
    BY <2>2, <2>3
<1>5. V1(segDir') /\ segDir'.rollback = hotDir.hot
  BY <1>2, <1>3, Here DEF Completed, V1, SegDirs
<1> HIDE DEF Image
<1>6. DirsOK'
  <2>1. Seen' = Seen
    BY <1>1 DEF Seen
  <2>2. \A s \in Segs' : s \in SegDirs /\ KnownSeg(s)'
    BY <1>2, <1>4, <2>1 DEF KnownSeg
  <2> QED
    BY <1>2, <2>1, <2>2 DEF IndInv, DirsOK
<1>7. PairsOK'
  BY <1>2, <1>4 DEF PairsOK
<1>8. OneHot
  BY <1>3 DEF IndInv, HotsOK, V1, Forward, Pending, RollingBack
<1>9. HotsOK' /\ FamilyOK'
  BY <1>2, <1>5, <1>8 DEF HotsOK, OneHot, FamilyOK, V1, Forward, Pending
<1>10. BoundsOK'
  BY <1>1 DEF IndInv, BoundsOK
<1>11. Ready("syncCopy")'
  BY <1>2, <1>5 DEF Ready
<1> QED
  BY <1>1, <1>2, <1>6, <1>7, <1>9, <1>10, <1>11 DEF IndInv, PcOK

\* The snapshot is synced, and nothing but v1 histories may be left.
LEMMA SyncCopyStep ==
    ASSUME IndInv, SyncCopy
    PROVE  IndInv'
<1>1. /\ pc = "syncCopy" /\ pc' = "prepare" /\ SyncSeg
      /\ rows' = rows /\ then' = then /\ cut' = cut /\ publication' = publication /\ faults' = faults
  BY DEF SyncCopy, Step, At, Goto
<1>2. /\ MayOK' /\ DirsOK' /\ PairsOK' /\ HotsOK' /\ FamilyOK'
      /\ hotDir' = hotDir /\ segDir' = segDir /\ Segs' = {segDir'}
  BY <1>1, SegSynced
<1>3. BoundsOK'
  BY <1>1 DEF IndInv, BoundsOK
<1>4. Ready("prepare")' /\ V1(segDir')
  BY <1>1, <1>2 DEF IndInv, PcOK, Ready
<1> QED
  BY <1>1, <1>2, <1>3, <1>4 DEF IndInv, PcOK

\* What a Step leaves alone.
LEMMA Framed ==
    ASSUME BoundsOK, NEW from, NEW to, Step(from, to)
    PROVE  /\ pc = from /\ pc' = to
           /\ rows' = rows /\ then' = then /\ cut' = cut /\ publication' = publication /\ faults' = faults
           /\ BoundsOK'
BY DEF Step, At, Goto, BoundsOK

\* Seal begins the temporary segment.
LEMMA SealStep ==
    ASSUME IndInv, Seal
    PROVE  IndInv'
<1>1. /\ pc = "seal" /\ pc' = "fillSegment" /\ ChangeSeg([tmp |-> Torn])
      /\ rows' = rows /\ then' = then /\ cut' = cut /\ publication' = publication /\ faults' = faults /\ BoundsOK'
  BY Framed DEF Seal, IndInv
<1>2. /\ MayOK' /\ DirsOK' /\ PairsOK' /\ HotsOK' /\ FamilyOK'
      /\ hotDir' = hotDir /\ Similar(segDir, segDir') /\ segDir'.tmp = Torn
  BY <1>1, TmpChanges
<1>3. Ready("seal")
  BY <1>1 DEF IndInv, PcOK
<1>4. Ready("fillSegment")'
  BY <1>2, <1>3 DEF Ready, Forward, Pending, Similar, marker
<1> QED
  BY <1>1, <1>2, <1>4 DEF IndInv, PcOK

\* The temporary name of the published segment is removed.
LEMMA UnlinkTmpStep ==
    ASSUME IndInv, UnlinkTmp
    PROVE  IndInv'
<1>1. /\ pc = "unlinkTmp" /\ pc' = "syncSegment" /\ ChangeSeg([tmp |-> Absent])
      /\ rows' = rows /\ then' = then /\ cut' = cut /\ publication' = publication /\ faults' = faults /\ BoundsOK'
  BY Framed DEF UnlinkTmp, IndInv
<1>2. /\ MayOK' /\ DirsOK' /\ PairsOK' /\ HotsOK' /\ FamilyOK'
      /\ hotDir' = hotDir /\ Similar(segDir, segDir')
  BY <1>1, TmpChanges
<1>3. Ready("unlinkTmp")
  BY <1>1 DEF IndInv, PcOK
<1>4. Ready("syncSegment")'
  BY <1>1, <1>2, <1>3 DEF Ready, Forward, Pending, Similar, marker, Below
<1> QED
  BY <1>1, <1>2, <1>4 DEF IndInv, PcOK

\* The temporary segment is complete: the rows up to the cutoff.
LEMMA FillSegmentStep ==
    ASSUME IndInv, FillSegment
    PROVE  IndInv'
<1> DEFINE sealed == {r \in hotDir.hot : r <= cut}
           Image(s) == Completed(s, "tmp", sealed)
<1>1. /\ pc = "fillSegment" /\ pc' = "record" /\ CompleteSeg("tmp", sealed)
      /\ rows' = rows /\ then' = then /\ cut' = cut /\ publication' = publication /\ faults' = faults /\ BoundsOK'
  BY Framed DEF FillSegment, IndInv
<1>2. /\ MayOK' /\ hotDir' = hotDir /\ segDir' = Image(segDir)
      /\ Hots' = Hots /\ Segs' = {Image(s) : s \in Segs}
  BY <1>1, CompleteSegEffect DEF IndInv
<1>3. Ready("fillSegment")
  BY <1>1 DEF IndInv, PcOK
<1>4. sealed \in Contents
  BY Here DEF Contents
<1>5. ASSUME NEW s \in Segs
      PROVE  /\ Image(s) \in SegDirs /\ KnownSeg(Image(s)) /\ Similar(s, Image(s))
             /\ \A h \in Hots : Good(h, Image(s))
  <2>1. s \in SegDirs /\ KnownSeg(s) /\ \A h \in Hots : Good(h, s)
    BY DEF IndInv, DirsOK, PairsOK
  <2>2. Image(s) \in SegDirs /\ Similar(s, Image(s))
    BY <1>4, <2>1 DEF Completed, SegDirs, Similar
  <2> HIDE DEF Image
  <2>3. KnownSeg(Image(s))
    BY <2>1, <2>2 DEF KnownSeg, Similar
  <2> QED
    BY <2>1, <2>2, <2>3, SimilarGood
<1>6. segDir'.tmp = sealed
  BY <1>2, <1>3, Here DEF Completed, SegDirs, Ready
<1>7. Similar(segDir, segDir')
  BY <1>2, <1>5, Here
<1>8. Ready("record")'
  BY <1>1, <1>2, <1>3, <1>6, <1>7 DEF Ready, Forward, Pending, Similar, marker, Below
<1> HIDE DEF Image, sealed
<1>9. DirsOK'
  <2>1. Seen' = Seen
    BY <1>1 DEF Seen
  <2>2. \A s \in Segs' : s \in SegDirs /\ KnownSeg(s)'
    BY <1>2, <1>5, <2>1 DEF KnownSeg
  <2> QED
    BY <1>2, <2>1, <2>2 DEF IndInv, DirsOK
<1>10. PairsOK'
  BY <1>2, <1>5 DEF PairsOK
<1>11. HotsOK'
  BY <1>2, <1>7 DEF IndInv, HotsOK, OneHot, Forward, Pending, RollingBack, Similar, marker
<1>12. FamilyOK'
  <2> SUFFICES ASSUME NEW s \in Segs, Forward(segDir)'
               PROVE  V1(Image(s)) \/ (Forward(Image(s)) /\ Image(s).marker.source = marker'.source)
    BY <1>2 DEF FamilyOK
  <2>1. Similar(s, Image(s))
    BY <1>5
  <2> QED
    BY <1>7, <2>1 DEF IndInv, FamilyOK, V1, Forward, Pending, Similar, marker
<1> QED
  BY <1>1, <1>2, <1>8, <1>9, <1>10, <1>11, <1>12 DEF IndInv, PcOK

\* A migration's segment gets its name or loses it.
LEMMA SegmentChanges ==
    ASSUME IndInv, Forward(segDir), NEW v \in {Absent, marker.publication}, ChangeSeg([segment |-> v]),
           rows' = rows, faults' = faults
    PROVE  /\ MayOK' /\ DirsOK' /\ PairsOK' /\ HotsOK' /\ FamilyOK'
           /\ hotDir' = hotDir /\ Hots' = Hots /\ segDir'.segment = v /\ segDir'.tmp = segDir.tmp
           /\ segDir'.marker = segDir.marker /\ segDir'.catalog = segDir.catalog
<1>1. /\ MayOK' /\ hotDir' = hotDir /\ segDir' = Put(segDir, [segment |-> v])
      /\ Hots' = Hots /\ Segs' = Segs \union {segDir'}
  BY ChangeSegEffect DEF IndInv
<1>2. segDir' = [segDir EXCEPT !.segment = v]
  BY <1>1, Here, PutSeg
<1>3. v \in Contents \union {Absent}
  BY Here DEF SegDirs, Markers, Forward, Pending, marker
<1>4. /\ segDir' \in SegDirs /\ segDir'.segment = v /\ segDir'.tmp = segDir.tmp /\ segDir'.rollback = segDir.rollback
      /\ segDir'.marker = segDir.marker /\ segDir'.catalog = segDir.catalog
  BY <1>2, <1>3, Here DEF SegDirs
<1>5. ASSUME NEW h \in Hots PROVE Good(h, segDir')
  <2>1. Good(h, segDir)
    BY Here DEF IndInv, PairsOK
  <2>2. GoodForward(h, segDir')
    BY <1>4, <2>1 DEF Good, GoodForward, Forward, Pending, Base, marker
  <2> QED
    BY <1>4, <2>1, <2>2 DEF Good, GoodOpen, GoodRollback, Forward, Pending, RollingBack, CleaningUp
<1>6. KnownSeg(segDir')
  BY <1>4, Here DEF KnownSeg
<1>7. DirsOK' /\ PairsOK'
  BY <1>1, <1>4, <1>5, <1>6, SegChange
<1>8. HotsOK'
  BY <1>1, <1>4 DEF IndInv, HotsOK, OneHot, Forward, Pending, RollingBack, marker
<1>9. FamilyOK'
  BY <1>1, <1>4 DEF IndInv, FamilyOK, Forward, Pending, marker
<1> QED
  BY <1>1, <1>4, <1>7, <1>8, <1>9

\* The recorded segment gets its name.
LEMMA LinkSegmentStep ==
    ASSUME IndInv, LinkSegment
    PROVE  IndInv'
<1>1. /\ pc = "linkSegment" /\ pc' = "unlinkTmp" /\ ChangeSeg([segment |-> segDir.tmp])
      /\ rows' = rows /\ then' = then /\ cut' = cut /\ publication' = publication /\ faults' = faults /\ BoundsOK'
  BY Framed DEF LinkSegment, IndInv
<1>2. Ready("linkSegment")
  BY <1>1 DEF IndInv, PcOK
<1>3. Forward(segDir) /\ segDir.tmp = marker.publication
  BY <1>2 DEF Ready
<1>4. /\ MayOK' /\ DirsOK' /\ PairsOK' /\ HotsOK' /\ FamilyOK'
      /\ hotDir' = hotDir /\ segDir'.segment = segDir.tmp
      /\ segDir'.marker = segDir.marker /\ segDir'.catalog = segDir.catalog
  BY <1>1, <1>3, SegmentChanges
<1>5. Ready("unlinkTmp")'
  BY <1>1, <1>2, <1>4 DEF Ready, Forward, Pending, marker, Below
<1> QED
  BY <1>1, <1>4, <1>5 DEF IndInv, PcOK

\* The segment's name is synced.
LEMMA SyncSegmentStep ==
    ASSUME IndInv, SyncSegment
    PROVE  IndInv'
<1>1. /\ pc = "syncSegment" /\ pc' = "hotReady" /\ SyncSeg
      /\ rows' = rows /\ then' = then /\ cut' = cut /\ publication' = publication /\ faults' = faults /\ BoundsOK'
  BY Framed DEF SyncSegment, IndInv
<1>2. /\ MayOK' /\ DirsOK' /\ PairsOK' /\ HotsOK' /\ FamilyOK' /\ hotDir' = hotDir /\ segDir' = segDir
  BY <1>1, SegSynced
<1>3. Ready("hotReady")'
  BY <1>1, <1>2 DEF IndInv, PcOK, Ready, Forward, Pending, marker, Below
<1> QED
  BY <1>1, <1>2, <1>3 DEF IndInv, PcOK

\* The live database is replaced by the recorded rest: both go with the marker.
LEMMA ReplaceHotStep ==
    ASSUME IndInv, ReplaceHot
    PROVE  IndInv'
<1>1. /\ pc = "replaceHot" /\ pc' = "syncHot" /\ ChangeHot([hot |-> marker.replacement])
      /\ rows' = rows /\ then' = then /\ cut' = cut /\ publication' = publication /\ faults' = faults /\ BoundsOK'
  BY Framed DEF ReplaceHot, IndInv
<1>2. Ready("replaceHot") /\ Segs = {segDir}
  BY <1>1 DEF IndInv, PcOK
<1>3. /\ MayOK' /\ segDir' = segDir /\ hotDir' = Put(hotDir, [hot |-> marker.replacement])
      /\ Segs' = Segs /\ Hots' = Hots \union {hotDir'}
  BY <1>1, ChangeHotEffect DEF IndInv
<1>4. hotDir' = [hot |-> marker.replacement]
  BY <1>3, Here, PutHot
<1>5. /\ Forward(segDir) /\ marker.phase = "hot-ready" /\ hotDir.hot = marker.source
      /\ marker.replacement \in Contents /\ marker.replacement \subseteq marker.source /\ marker.source \subseteq Seen
  BY <1>2, Here DEF Ready, Forward, Pending, Good, GoodForward, SegDirs, Markers, KnownSeg, marker
<1>6. hotDir' \in HotDirs /\ hotDir'.hot = marker.replacement
  BY <1>4, <1>5 DEF HotDirs
<1>7. hotDir'.hot \subseteq Seen'
  BY <1>1, <1>5, <1>6 DEF Seen
<1>8. Good(hotDir', segDir)
  BY <1>5, <1>6, Here DEF Good, GoodOpen, GoodForward, GoodRollback, Forward, Pending, RollingBack, CleaningUp, Base, marker
<1>9. DirsOK' /\ PairsOK' /\ FamilyOK'
  BY <1>1, <1>2, <1>3, <1>6, <1>7, <1>8, HotChange
<1>10. HotsOK'
  BY <1>3, <1>5, <1>6 DEF IndInv, HotsOK, OneHot, Forward, Pending, RollingBack, marker
<1>11. Ready("syncHot")'
  BY <1>1, <1>2, <1>3, <1>6 DEF Ready, Forward, Pending, marker
<1> QED
  BY <1>1, <1>3, <1>9, <1>10, <1>11 DEF IndInv, PcOK

\* The replacement is synced.
LEMMA SyncReplacedStep ==
    ASSUME IndInv, SyncReplaced
    PROVE  IndInv'
<1>1. /\ pc = "syncHot" /\ pc' = "catalog" /\ SyncHot
      /\ rows' = rows /\ then' = then /\ cut' = cut /\ publication' = publication /\ faults' = faults /\ BoundsOK'
  BY Framed DEF SyncReplaced, IndInv
<1>2. /\ MayOK' /\ DirsOK' /\ PairsOK' /\ HotsOK' /\ FamilyOK' /\ hotDir' = hotDir /\ segDir' = segDir /\ OneHot'
  BY <1>1, HotSynced
<1>3. Ready("catalog")'
  BY <1>1, <1>2 DEF IndInv, PcOK, Ready, Forward, Pending, marker
<1> QED
  BY <1>1, <1>2, <1>3 DEF IndInv, PcOK

\* The marker is removed: what it leaves is one whole generation.
LEMMA ClearStep ==
    ASSUME IndInv, Clear
    PROVE  IndInv'
<1>1. /\ pc = "clear" /\ pc' = "syncClear" /\ ChangeSeg([marker |-> Absent])
      /\ rows' = rows /\ then' = then /\ cut' = cut /\ publication' = publication /\ faults' = faults /\ BoundsOK'
  BY Framed DEF Clear, IndInv
<1>2. Ready("clear") /\ OneHot
  BY <1>1 DEF IndInv, PcOK
<1>3. /\ MayOK' /\ hotDir' = hotDir /\ segDir' = Put(segDir, [marker |-> Absent])
      /\ Hots' = Hots /\ Segs' = Segs \union {segDir'}
  BY <1>1, ChangeSegEffect DEF IndInv
<1>4. segDir' = [segDir EXCEPT !.marker = Absent]
  BY <1>3, Here, PutSeg
<1>5. /\ segDir' \in SegDirs /\ segDir'.marker = Absent /\ segDir'.catalog = segDir.catalog
      /\ segDir'.segment = segDir.segment /\ segDir'.rollback = segDir.rollback
  BY <1>4, Here DEF SegDirs
<1>6. GoodOpen(hotDir, segDir')
  <2>1. CASE Forward(segDir) /\ hotDir.hot = marker.source /\ segDir.segment = Absent
    BY <1>5, <2>1 DEF GoodOpen, Forward
  <2>2. CASE Published
    BY <1>5, <2>2, Here DEF GoodOpen, Published, Pending, Good, GoodForward, marker
  <2>3. CASE RollingBack(segDir) /\ hotDir.hot = marker.source
    BY <1>5, <2>3, Here DEF GoodOpen, RollingBack, Good, GoodRollback, marker
  <2>4. CASE CleaningUp(segDir) /\ segDir.catalog = Absent /\ segDir.segment = Absent
    BY <1>5, <2>4 DEF GoodOpen
  <2> QED
    BY <1>2, <2>1, <2>2, <2>3, <2>4 DEF Ready
<1>7. Good(hotDir, segDir')
  BY <1>5, <1>6 DEF Good, GoodForward, GoodRollback, Pending, RollingBack, CleaningUp
<1>8. KnownSeg(segDir')
  BY <1>5, Here DEF KnownSeg
<1>9. DirsOK' /\ PairsOK'
  BY <1>1, <1>2, <1>3, <1>5, <1>7, <1>8, SegChange DEF OneHot
<1>10. HotsOK' /\ FamilyOK'
  BY <1>2, <1>3, <1>5 DEF HotsOK, OneHot, FamilyOK, Forward, Pending
<1> QED
  BY <1>1, <1>3, <1>9, <1>10 DEF IndInv, PcOK, Ready

\* Wherever a migration fails, everything it needs to go back is recorded.
LEMMA UndoReady ==
    ASSUME IndInv, Undo, segDir.catalog = Absent
    PROVE  /\ Forward(segDir)
           /\ hotDir.hot = marker.source \/ (marker.phase = "hot-ready" /\ hotDir.hot = marker.replacement)
           /\ segDir.segment # Absent => publication # Absent
<1>1. CASE pc \in {"seal", "fillSegment", "record"}
  <2>1. Ready(pc)
    BY <1>1 DEF IndInv, PcOK
  <2> QED
    BY <1>1, <2>1 DEF Ready
<1>2. CASE pc \in {"linkSegment", "unlinkTmp", "syncSegment", "hotReady", "replaceHot", "syncHot", "catalog"}
  <2>1. Ready(pc)
    BY <1>2 DEF IndInv, PcOK
  <2> QED
    BY <1>2, <2>1, Here DEF Ready, Forward, Pending, Good, GoodForward, marker
<1>3. CASE pc = "putJson" /\ then \in {"linkSegment", "replaceHot", "clear"}
  <2>1. \/ then = "linkSegment" /\ Ready("record")
        \/ then = "replaceHot" /\ Ready("hotReady")
        \/ then = "clear" /\ Ready("catalog")
    BY <1>3 DEF IndInv, PcOK, Putting
  <2> QED
    BY <2>1, Here DEF Ready, Forward, Pending, Good, GoodForward, marker
<1>4. CASE pc \in {"unlinkJson", "syncJson"} /\ then \in {"linkSegment", "replaceHot", "clear"}
  <2>1. Ready(then) /\ then # "clear"
    BY <1>4 DEF IndInv, PcOK, Published
  <2> QED
    BY <1>4, <2>1, Here DEF Ready, Forward, Pending, Good, GoodForward, marker
<1> QED
  BY <1>1, <1>2, <1>3, <1>4 DEF Undo

\* A failing migration goes back to v1, or stops after its catalog.
LEMMA MigrationFailsStep ==
    ASSUME IndInv, MigrationFails
    PROVE  IndInv'
<1>1. Undo /\ Fault /\ ChangeSeg([tmp |-> Absent, json |-> Absent]) /\ rows' = rows
  BY DEF MigrationFails
<1>2. faults' \in {faults, faults + 1} /\ faults' \in 0..MaxFaults
  BY <1>1, MigrationAssumption DEF IndInv, BoundsOK, Fault
<1>3. /\ MayOK' /\ DirsOK' /\ PairsOK' /\ HotsOK' /\ FamilyOK'
      /\ hotDir' = hotDir /\ Similar(segDir, segDir')
  BY <1>1, <1>2, TemporariesRemoved
<1>4. CASE segDir.catalog # Absent
  <2>1. BoundsOK' /\ PcOK'
    BY <1>1, <1>4, Stopped DEF MigrationFails, IndInv
  <2> QED
    BY <1>3, <2>1 DEF IndInv
<1>5. CASE segDir.catalog = Absent
  <2>1. pc' = "restore" /\ then' = then /\ cut' = cut /\ publication' = publication
    BY <1>5 DEF MigrationFails, Goto
  <2>2. BoundsOK'
    BY <1>1, <1>2, <2>1 DEF IndInv, BoundsOK
  <2>3. Ready("restore")'
    BY <1>1, <1>3, <1>5, <2>1, UndoReady DEF Ready, Forward, Pending, Similar, marker
  <2> QED
    BY <1>3, <2>1, <2>2, <2>3 DEF IndInv, PcOK
<1> QED
  BY <1>4, <1>5

\* The snapshot replaces the live database: it goes with every directory that may be left.
LEMMA RestoreStep ==
    ASSUME IndInv, Restore
    PROVE  IndInv'
<1>1. /\ pc = "restore" /\ pc' = "syncRestored" /\ ChangeHot([hot |-> segDir.rollback])
      /\ rows' = rows /\ then' = then /\ cut' = cut /\ publication' = publication /\ faults' = faults /\ BoundsOK'
  BY Framed DEF Restore, IndInv
<1>2. Ready("restore")
  BY <1>1 DEF IndInv, PcOK
<1>3. /\ MayOK' /\ segDir' = segDir /\ hotDir' = Put(hotDir, [hot |-> segDir.rollback])
      /\ Segs' = Segs /\ Hots' = Hots \union {hotDir'}
  BY <1>1, ChangeHotEffect DEF IndInv
<1>4. hotDir' = [hot |-> segDir.rollback]
  BY <1>3, Here, PutHot
<1>5. /\ Forward(segDir) /\ segDir.rollback = marker.source /\ marker.source \in Contents /\ marker.source \subseteq Seen
      /\ hotDir.hot = marker.source \/ (marker.phase = "hot-ready" /\ hotDir.hot = marker.replacement)
  BY <1>2, Here DEF Ready, Forward, Pending, Good, GoodForward, SegDirs, Markers, KnownSeg, marker
<1>6. hotDir' \in HotDirs /\ hotDir'.hot = marker.source
  BY <1>4, <1>5 DEF HotDirs
<1>7. hotDir'.hot \subseteq Seen'
  BY <1>1, <1>5, <1>6 DEF Seen
<1>8. ASSUME NEW s \in Segs PROVE Good(hotDir', s)
  <2>1. V1(s) \/ (Forward(s) /\ s.marker.source = marker.source)
    BY <1>5 DEF IndInv, FamilyOK
  <2>2. Good(hotDir, s)
    BY Here DEF IndInv, PairsOK
  <2>3. CASE V1(s)
    BY <2>2, <2>3 DEF V1, Good, GoodOpen, GoodForward, GoodRollback, Pending, RollingBack, CleaningUp
  <2>4. CASE Forward(s) /\ s.marker.source = marker.source
    BY <1>6, <2>2, <2>4
    DEF Good, GoodOpen, GoodForward, GoodRollback, Forward, Pending, RollingBack, CleaningUp, Base
  <2> QED
    BY <2>1, <2>3, <2>4
<1>9. DirsOK' /\ PairsOK' /\ FamilyOK'
  BY <1>1, <1>3, <1>6, <1>7, <1>8, HotChange
<1>10. HotsOK'
  <2>1. CASE OneHot /\ hotDir.hot = marker.source
    <3>1. hotDir' = hotDir
      BY <1>6, <2>1, Here DEF HotDirs
    <3> QED
      BY <1>3, <2>1, <3>1 DEF HotsOK, OneHot
  <2>2. CASE marker.phase = "hot-ready"
    BY <1>3, <1>5, <1>6, <2>2 DEF IndInv, HotsOK, OneHot, Forward, Pending, RollingBack, marker
  <2> QED
    BY <1>5, <2>1, <2>2 DEF IndInv, HotsOK, Forward, Pending, RollingBack, marker
<1>11. Ready("syncRestored")'
  BY <1>1, <1>2, <1>3, <1>6 DEF Ready, Forward, Pending, marker
<1> QED
  BY <1>1, <1>3, <1>9, <1>10, <1>11 DEF IndInv, PcOK

\* The restored database is synced.
LEMMA SyncRestoredStep ==
    ASSUME IndInv, SyncRestored
    PROVE  IndInv'
<1>1. /\ pc = "syncRestored" /\ pc' = "removeTemporary" /\ SyncHot
      /\ rows' = rows /\ then' = then /\ cut' = cut /\ publication' = publication /\ faults' = faults /\ BoundsOK'
  BY Framed DEF SyncRestored, IndInv
<1>2. /\ MayOK' /\ DirsOK' /\ PairsOK' /\ HotsOK' /\ FamilyOK' /\ hotDir' = hotDir /\ segDir' = segDir /\ OneHot'
  BY <1>1, HotSynced
<1>3. Ready("removeTemporary")'
  BY <1>1, <1>2 DEF IndInv, PcOK, Ready, Forward, Pending, marker
<1> QED
  BY <1>1, <1>2, <1>3 DEF IndInv, PcOK

\* The temporary name of an unwanted segment is removed.
LEMMA RemoveTemporaryStep ==
    ASSUME IndInv, RemoveTemporary
    PROVE  IndInv'
<1>1. /\ pc = "removeTemporary"
      /\ rows' = rows /\ then' = then /\ cut' = cut /\ publication' = publication /\ faults' = faults
  BY DEF RemoveTemporary, At
<1>2. BoundsOK'
  BY <1>1 DEF IndInv, BoundsOK
<1>3. Ready("removeTemporary") /\ OneHot
  BY <1>1 DEF IndInv, PcOK
<1>4. CASE publication = Absent \/ segDir.segment = Absent
  <2>1. pc' = "clear" /\ UNCHANGED files
    BY <1>4 DEF RemoveTemporary, Goto
  <2>2. /\ MayOK' /\ DirsOK' /\ PairsOK' /\ HotsOK' /\ FamilyOK'
        /\ hotDir' = hotDir /\ segDir' = segDir /\ Hots' = Hots
    BY <1>1, <2>1, FilesKept
  <2>3. Ready("clear")' /\ OneHot'
    BY <1>3, <1>4, <2>2 DEF Ready, Forward, Pending, marker, OneHot
  <2> QED
    BY <1>2, <2>1, <2>2, <2>3 DEF IndInv, PcOK
<1>5. CASE ~(publication = Absent \/ segDir.segment = Absent)
  <2>1. pc' = "removeSegment" /\ ChangeSeg([tmp |-> Absent])
    BY <1>5 DEF RemoveTemporary, Goto
  <2>2. /\ MayOK' /\ DirsOK' /\ PairsOK' /\ HotsOK' /\ FamilyOK'
        /\ hotDir' = hotDir /\ Similar(segDir, segDir') /\ Hots' = Hots
    BY <1>1, <2>1, TmpChanges
  <2>3. Ready("removeSegment")' /\ OneHot'
    BY <1>1, <1>3, <1>5, <2>2 DEF Ready, Forward, Pending, Similar, marker, OneHot
  <2> QED
    BY <1>2, <2>1, <2>2, <2>3 DEF IndInv, PcOK
<1> QED
  BY <1>4, <1>5

\* The unwanted segment is removed.
LEMMA RemoveSegmentStep ==
    ASSUME IndInv, RemoveSegment
    PROVE  IndInv'
<1>1. /\ pc = "removeSegment" /\ pc' = "syncRemoved" /\ ChangeSeg([segment |-> Absent])
      /\ rows' = rows /\ then' = then /\ cut' = cut /\ publication' = publication /\ faults' = faults /\ BoundsOK'
  BY Framed DEF RemoveSegment, IndInv
<1>2. Ready("removeSegment") /\ OneHot
  BY <1>1 DEF IndInv, PcOK
<1>3. /\ MayOK' /\ DirsOK' /\ PairsOK' /\ HotsOK' /\ FamilyOK'
      /\ hotDir' = hotDir /\ Hots' = Hots /\ segDir'.segment = Absent
      /\ segDir'.marker = segDir.marker /\ segDir'.catalog = segDir.catalog
  BY <1>1, <1>2, SegmentChanges DEF Ready
<1>4. Ready("syncRemoved")' /\ OneHot'
  BY <1>1, <1>2, <1>3 DEF Ready, Forward, Pending, marker, OneHot
<1> QED
  BY <1>1, <1>3, <1>4 DEF IndInv, PcOK

\* Its removal is synced.
LEMMA SyncRemovedStep ==
    ASSUME IndInv, SyncRemoved
    PROVE  IndInv'
<1>1. /\ pc = "syncRemoved" /\ pc' = "clear" /\ SyncSeg
      /\ rows' = rows /\ then' = then /\ cut' = cut /\ publication' = publication /\ faults' = faults /\ BoundsOK'
  BY Framed DEF SyncRemoved, IndInv
<1>2. Ready("syncRemoved") /\ OneHot
  BY <1>1 DEF IndInv, PcOK
<1>3. /\ MayOK' /\ DirsOK' /\ PairsOK' /\ HotsOK' /\ FamilyOK'
      /\ hotDir' = hotDir /\ segDir' = segDir /\ OneHot'
  BY <1>1, <1>2, SegSynced
<1>4. Ready("clear")'
  BY <1>2, <1>3 DEF Ready, Forward, Pending, marker
<1> QED
  BY <1>1, <1>3, <1>4 DEF IndInv, PcOK

\* A rollback replaces the live database by the v1 snapshot.
LEMMA RestoreV1Step ==
    ASSUME IndInv, RestoreV1
    PROVE  IndInv'
<1>1. /\ pc = "restoreV1" /\ pc' = "syncV1" /\ ChangeHot([hot |-> segDir.rollback])
      /\ rows' = rows /\ then' = then /\ cut' = cut /\ publication' = publication /\ faults' = faults /\ BoundsOK'
  BY Framed DEF RestoreV1, IndInv
<1>2. Ready("restoreV1") /\ Segs = {segDir}
  BY <1>1 DEF IndInv, PcOK
<1>3. /\ MayOK' /\ segDir' = segDir /\ hotDir' = Put(hotDir, [hot |-> segDir.rollback])
      /\ Segs' = Segs /\ Hots' = Hots \union {hotDir'}
  BY <1>1, ChangeHotEffect DEF IndInv
<1>4. hotDir' = [hot |-> segDir.rollback]
  BY <1>3, Here, PutHot
<1>5. /\ RollingBack(segDir) /\ hotDir.hot = marker.source /\ segDir.rollback = marker.rollback
      /\ marker.rollback \in Contents /\ marker.rollback \subseteq Seen
  BY <1>2, Here DEF Ready, RollingBack, Good, GoodRollback, SegDirs, Markers, KnownSeg, marker
<1>6. hotDir' \in HotDirs /\ hotDir'.hot = marker.rollback
  BY <1>4, <1>5 DEF HotDirs
<1>7. hotDir'.hot \subseteq Seen'
  BY <1>1, <1>5, <1>6 DEF Seen
<1>8. Good(hotDir', segDir)
  BY <1>5, <1>6, Here DEF Good, GoodOpen, GoodForward, GoodRollback, Pending, RollingBack, CleaningUp, Base, marker
<1>9. DirsOK' /\ PairsOK' /\ FamilyOK'
  BY <1>1, <1>2, <1>3, <1>6, <1>7, <1>8, HotChange
<1>10. HotsOK'
  BY <1>3, <1>5, <1>6 DEF IndInv, HotsOK, OneHot, Forward, Pending, RollingBack, marker
<1>11. Ready("syncV1")'
  BY <1>2, <1>3, <1>6 DEF Ready, RollingBack, marker
<1> QED
  BY <1>1, <1>3, <1>9, <1>10, <1>11 DEF IndInv, PcOK

\* The rolled back database is synced.
LEMMA SyncV1Step ==
    ASSUME IndInv, SyncV1
    PROVE  IndInv'
<1>1. /\ pc = "syncV1" /\ pc' = "prepareCleanup" /\ SyncHot
      /\ rows' = rows /\ then' = then /\ cut' = cut /\ publication' = publication /\ faults' = faults /\ BoundsOK'
  BY Framed DEF SyncV1, IndInv
<1>2. /\ MayOK' /\ DirsOK' /\ PairsOK' /\ HotsOK' /\ FamilyOK' /\ hotDir' = hotDir /\ segDir' = segDir
  BY <1>1, HotSynced
<1>3. Ready("prepareCleanup")'
  BY <1>1, <1>2 DEF IndInv, PcOK, Ready, RollingBack, marker
<1> QED
  BY <1>1, <1>2, <1>3 DEF IndInv, PcOK

\* The cleanup is prepared only over a live database that is the snapshot, synced again.
LEMMA PrepareCleanupStep ==
    ASSUME IndInv, PrepareCleanup
    PROVE  IndInv'
<1>1. pc = "prepareCleanup" /\ rows' = rows /\ faults' = faults
  BY DEF PrepareCleanup, At
<1>2. CASE NoUnknownFile(segDir) /\ hotDir.hot = segDir.rollback
  <2>1. pc' = "terminal" /\ SyncHot /\ then' = then /\ cut' = cut /\ publication' = publication
    BY <1>2 DEF PrepareCleanup, Goto
  <2>2. /\ MayOK' /\ DirsOK' /\ PairsOK' /\ HotsOK' /\ FamilyOK' /\ hotDir' = hotDir /\ segDir' = segDir /\ OneHot'
    BY <1>1, <2>1, HotSynced
  <2>3. BoundsOK'
    BY <1>1, <2>1 DEF IndInv, BoundsOK
  <2>4. RollingBack(segDir) /\ segDir.rollback = marker.rollback
    BY <1>1, Here DEF IndInv, PcOK, Ready, RollingBack, Good, GoodRollback, marker
  <2>5. Ready("terminal")'
    BY <1>2, <2>2, <2>4 DEF Ready, RollingBack, marker
  <2> QED
    BY <2>1, <2>2, <2>3, <2>5 DEF IndInv, PcOK
<1>3. CASE ~(NoUnknownFile(segDir) /\ hotDir.hot = segDir.rollback)
  <2>1. Stops /\ UNCHANGED files
    BY <1>3 DEF PrepareCleanup
  <2>2. BoundsOK' /\ PcOK'
    BY <1>1, <2>1, Stopped DEF IndInv
  <2>3. MayOK' /\ DirsOK' /\ PairsOK' /\ HotsOK' /\ FamilyOK'
    BY <1>1, <2>1, FilesKept
  <2> QED
    BY <2>2, <2>3 DEF IndInv
<1> QED
  BY <1>2, <1>3

\* The terminal marker is synced before anything is retired.
LEMMA FinishCleanupStep ==
    ASSUME IndInv, FinishCleanup
    PROVE  IndInv'
<1>1. /\ pc = "finishCleanup" /\ pc' = "retireCatalog" /\ SyncSeg
      /\ rows' = rows /\ then' = then /\ cut' = cut /\ publication' = publication /\ faults' = faults /\ BoundsOK'
  BY Framed DEF FinishCleanup, IndInv
<1>2. /\ MayOK' /\ DirsOK' /\ PairsOK' /\ HotsOK' /\ FamilyOK' /\ hotDir' = hotDir /\ segDir' = segDir
  BY <1>1, SegSynced
<1>3. Ready("retireCatalog")'
  BY <1>1, <1>2 DEF IndInv, PcOK, Ready, CleaningUp, marker
<1> QED
  BY <1>1, <1>2, <1>3 DEF IndInv, PcOK

\* A rollback's cleanup retires the files of the segmented history.
LEMMA Retired ==
    ASSUME IndInv, CleaningUp(segDir), MayOK', rows' = rows, faults' = faults, hotDir' = hotDir,
           Hots' = Hots, Segs' = Segs \union {segDir'}, segDir' \in SegDirs,
           segDir'.marker = segDir.marker, segDir'.rollback = segDir.rollback,
           segDir'.catalog \in {segDir.catalog, Absent}
    PROVE  DirsOK' /\ PairsOK' /\ HotsOK' /\ FamilyOK'
<1>1. ASSUME NEW h \in Hots PROVE Good(h, segDir')
  <2>1. Good(h, segDir)
    BY Here DEF IndInv, PairsOK
  <2> QED
    BY <2>1 DEF Good, GoodOpen, GoodForward, GoodRollback, Pending, RollingBack, CleaningUp, Base
<1>2. KnownSeg(segDir')
  BY Here DEF KnownSeg
<1>3. DirsOK' /\ PairsOK'
  BY <1>1, <1>2, SegChange
<1>4. HotsOK'
  BY DEF IndInv, HotsOK, OneHot, Forward, Pending, RollingBack, CleaningUp
<1>5. FamilyOK'
  BY DEF FamilyOK, Forward, Pending, CleaningUp
<1> QED
  BY <1>3, <1>4, <1>5

\* The catalog is retired.
LEMMA RetireCatalogStep ==
    ASSUME IndInv, RetireCatalog
    PROVE  IndInv'
<1>1. /\ pc = "retireCatalog" /\ pc' = "syncCatalog" /\ ChangeSeg([catalog |-> Absent])
      /\ rows' = rows /\ then' = then /\ cut' = cut /\ publication' = publication /\ faults' = faults /\ BoundsOK'
  BY Framed DEF RetireCatalog, IndInv
<1>2. Ready("retireCatalog")
  BY <1>1 DEF IndInv, PcOK
<1>3. /\ MayOK' /\ hotDir' = hotDir /\ segDir' = Put(segDir, [catalog |-> Absent])
      /\ Hots' = Hots /\ Segs' = Segs \union {segDir'}
  BY <1>1, ChangeSegEffect DEF IndInv
<1>4. segDir' = [segDir EXCEPT !.catalog = Absent]
  BY <1>3, Here, PutSeg
<1>5. /\ segDir' \in SegDirs /\ segDir'.marker = segDir.marker /\ segDir'.catalog = Absent
      /\ segDir'.rollback = segDir.rollback
  BY <1>4, Here DEF SegDirs
<1>6. DirsOK' /\ PairsOK' /\ HotsOK' /\ FamilyOK'
  BY <1>1, <1>2, <1>3, <1>5, Retired DEF Ready
<1>7. Ready("syncCatalog")'
  BY <1>2, <1>3, <1>5 DEF Ready, CleaningUp, marker
<1> QED
  BY <1>1, <1>3, <1>6, <1>7 DEF IndInv, PcOK

\* Its retirement is synced.
LEMMA SyncCatalogStep ==
    ASSUME IndInv, SyncCatalog
    PROVE  IndInv'
<1>1. /\ pc = "syncCatalog" /\ pc' = "retireSegment" /\ SyncSeg
      /\ rows' = rows /\ then' = then /\ cut' = cut /\ publication' = publication /\ faults' = faults /\ BoundsOK'
  BY Framed DEF SyncCatalog, IndInv
<1>2. /\ MayOK' /\ DirsOK' /\ PairsOK' /\ HotsOK' /\ FamilyOK' /\ hotDir' = hotDir /\ segDir' = segDir
  BY <1>1, SegSynced
<1>3. Ready("retireSegment")'
  BY <1>1, <1>2 DEF IndInv, PcOK, Ready, CleaningUp, marker
<1> QED
  BY <1>1, <1>2, <1>3 DEF IndInv, PcOK

\* The segment is retired after the catalog.
LEMMA RetireSegmentStep ==
    ASSUME IndInv, RetireSegment
    PROVE  IndInv'
<1>1. /\ pc = "retireSegment" /\ pc' = "syncRetired" /\ ChangeSeg([segment |-> Absent])
      /\ rows' = rows /\ then' = then /\ cut' = cut /\ publication' = publication /\ faults' = faults /\ BoundsOK'
  BY Framed DEF RetireSegment, IndInv
<1>2. Ready("retireSegment")
  BY <1>1 DEF IndInv, PcOK
<1>3. /\ MayOK' /\ hotDir' = hotDir /\ segDir' = Put(segDir, [segment |-> Absent])
      /\ Hots' = Hots /\ Segs' = Segs \union {segDir'}
  BY <1>1, ChangeSegEffect DEF IndInv
<1>4. segDir' = [segDir EXCEPT !.segment = Absent]
  BY <1>3, Here, PutSeg
<1>5. /\ segDir' \in SegDirs /\ segDir'.marker = segDir.marker /\ segDir'.catalog = segDir.catalog
      /\ segDir'.rollback = segDir.rollback /\ segDir'.segment = Absent
  BY <1>4, Here DEF SegDirs
<1>6. DirsOK' /\ PairsOK' /\ HotsOK' /\ FamilyOK'
  BY <1>1, <1>2, <1>3, <1>5, Retired DEF Ready
<1>7. Ready("syncRetired")'
  BY <1>2, <1>3, <1>5 DEF Ready, CleaningUp, marker
<1> QED
  BY <1>1, <1>3, <1>6, <1>7 DEF IndInv, PcOK

\* Its retirement is synced.
LEMMA SyncRetiredStep ==
    ASSUME IndInv, SyncRetired
    PROVE  IndInv'
<1>1. /\ pc = "syncRetired" /\ pc' = "clear" /\ SyncSeg
      /\ rows' = rows /\ then' = then /\ cut' = cut /\ publication' = publication /\ faults' = faults /\ BoundsOK'
  BY Framed DEF SyncRetired, IndInv
<1>2. /\ MayOK' /\ DirsOK' /\ PairsOK' /\ HotsOK' /\ FamilyOK' /\ hotDir' = hotDir /\ segDir' = segDir
      /\ (OneHot => OneHot')
  BY <1>1, SegSynced
<1>3. Ready("syncRetired")
  BY <1>1 DEF IndInv, PcOK
<1>4. OneHot'
  BY <1>2, <1>3 DEF IndInv, HotsOK, Ready, Forward, Pending, RollingBack, CleaningUp
<1>5. Ready("clear")'
  BY <1>2, <1>3 DEF Ready, CleaningUp, marker
<1> QED
  BY <1>1, <1>2, <1>4, <1>5 DEF IndInv, PcOK

\* Recovery takes a migration without a catalog back to v1.
LEMMA RecoverForwardStep ==
    ASSUME IndInv, RecoverForward
    PROVE  IndInv'
<1>1. /\ marker # Absent /\ ForwardReady(hotDir, segDir) /\ pc' = "restore" /\ publication' = marker.publication
      /\ UNCHANGED files /\ rows' = rows /\ then' = then /\ cut' = cut /\ faults' = faults
  BY DEF RecoverForward, RecoveryMay, Goto
<1>2. /\ MayOK' /\ DirsOK' /\ PairsOK' /\ HotsOK' /\ FamilyOK' /\ hotDir' = hotDir /\ segDir' = segDir
  BY <1>1, FilesKept
<1>3. BoundsOK'
  BY <1>1, Here DEF IndInv, BoundsOK, SegDirs, Markers, marker
<1>4. Ready("restore")'
  BY <1>1, <1>2, Here DEF Ready, ForwardReady, Forward, Pending, Good, GoodForward, marker
<1> QED
  BY <1>1, <1>2, <1>3, <1>4 DEF IndInv, PcOK

\* Recovery finishes a migration that has its catalog.
LEMMA RecoverPublishedStep ==
    ASSUME IndInv, RecoverPublished
    PROVE  IndInv'
<1>1. /\ marker # Absent /\ PublishedReady(hotDir, segDir) /\ pc' = "clear" /\ publication' = publication
      /\ UNCHANGED files /\ rows' = rows /\ then' = then /\ cut' = cut /\ faults' = faults
  BY DEF RecoverPublished, RecoveryMay, Goto
<1>2. /\ MayOK' /\ DirsOK' /\ PairsOK' /\ HotsOK' /\ FamilyOK' /\ hotDir' = hotDir /\ segDir' = segDir
  BY <1>1, FilesKept
<1>3. BoundsOK'
  BY <1>1 DEF IndInv, BoundsOK
<1>4. Published'
  BY <1>1, <1>2 DEF PublishedReady, CatalogVerified, Published, Pending, marker
<1>5. OneHot'
  BY <1>2, <1>4 DEF HotsOK, Published, Forward, Pending, RollingBack
<1> QED
  BY <1>1, <1>2, <1>3, <1>4, <1>5 DEF IndInv, PcOK, Ready

\* Recovery drops a rollback that has not restored, and finishes one that has.
LEMMA RecoverRollbackStep ==
    ASSUME IndInv, RecoverRollback
    PROVE  IndInv'
<1>1. /\ marker # Absent /\ RollbackReady(hotDir, segDir) /\ publication' = publication
      /\ pc' = IF hotDir.hot = marker.source THEN "clear" ELSE "prepareCleanup"
      /\ UNCHANGED files /\ rows' = rows /\ then' = then /\ cut' = cut /\ faults' = faults
  BY DEF RecoverRollback, RecoveryMay, Goto
<1>2. /\ MayOK' /\ DirsOK' /\ PairsOK' /\ HotsOK' /\ FamilyOK' /\ hotDir' = hotDir /\ segDir' = segDir /\ Hots' = Hots
  BY <1>1, FilesKept
<1>3. BoundsOK'
  BY <1>1 DEF IndInv, BoundsOK
<1>4. RollingBack(segDir)
  BY <1>1 DEF RollbackReady, RollingBack, marker
<1>5. CASE hotDir.hot = marker.source
  <2>1. \A h \in Hots : h.hot = hotDir.hot
    BY <1>4, <1>5 DEF IndInv, HotsOK, OneHot, Forward, Pending, RollingBack, marker
  <2>2. \A h \in Hots : h = hotDir
    BY <2>1, Here DEF IndInv, DirsOK, HotDirs
  <2>3. OneHot'
    BY <1>2, <2>2, Here DEF OneHot
  <2>4. Ready("clear")'
    BY <1>2, <1>4, <1>5 DEF Ready, RollingBack, marker
  <2> QED
    BY <1>1, <1>2, <1>3, <1>5, <2>3, <2>4 DEF IndInv, PcOK
<1>6. CASE hotDir.hot # marker.source
  <2>1. Ready("prepareCleanup")'
    BY <1>2, <1>4 DEF Ready, RollingBack
  <2> QED
    BY <1>1, <1>2, <1>3, <1>6, <2>1 DEF IndInv, PcOK
<1> QED
  BY <1>5, <1>6

\* Recovery resumes the cleanup of a rollback.
LEMMA RecoverCleanupStep ==
    ASSUME IndInv, RecoverCleanup
    PROVE  IndInv'
<1>1. /\ marker # Absent /\ CleanupReady(hotDir, segDir) /\ pc' = "finishCleanup" /\ publication' = publication
      /\ UNCHANGED files /\ rows' = rows /\ then' = then /\ cut' = cut /\ faults' = faults
  BY DEF RecoverCleanup, RecoveryMay, Goto
<1>2. /\ MayOK' /\ DirsOK' /\ PairsOK' /\ HotsOK' /\ FamilyOK' /\ hotDir' = hotDir /\ segDir' = segDir
  BY <1>1, FilesKept
<1>3. BoundsOK'
  BY <1>1 DEF IndInv, BoundsOK
<1>4. CleaningUp(segDir)
  BY <1>1, Here DEF CleanupReady, CleaningUp, Good, GoodForward, Pending, SegDirs, Markers, marker
<1>5. Ready("finishCleanup")'
  BY <1>1, <1>2, <1>4 DEF CleanupReady, Ready, CleaningUp, marker
<1> QED
  BY <1>1, <1>2, <1>3, <1>5 DEF IndInv, PcOK

\* The operator removes what recovery does not know.
LEMMA OperatorRemovesStep ==
    ASSUME IndInv, OperatorRemoves
    PROVE  IndInv'
<1>1. /\ segDir' = [segDir EXCEPT !.json = Absent, !.tmp = IF NoLeftovers(segDir) THEN @ ELSE Absent]
      /\ may' = {<<hotDir, segDir'>>} /\ hotDir' = hotDir /\ pc = "idle" /\ pc' = "idle"
      /\ rows' = rows /\ then' = then /\ cut' = cut /\ publication' = publication /\ faults' = faults
  BY DEF OperatorRemoves, At, process
<1>2. MayOK' /\ Hots' = {hotDir} /\ Segs' = {segDir'}
  BY <1>1 DEF MayOK, Hots, Segs
<1>3. segDir' \in SegDirs /\ Similar(segDir, segDir')
  <2> DEFINE kept == IF NoLeftovers(segDir) THEN segDir.tmp ELSE Absent
  <2>1. segDir' = [segDir EXCEPT !.json = Absent, !.tmp = kept]
    BY <1>1
  <2>2. kept \in Contents \union {Absent, Torn}
    BY Here DEF SegDirs
  <2> HIDE DEF kept
  <2> QED
    BY <2>1, <2>2, Here DEF SegDirs, Similar
<1>4. DirsOK' /\ PairsOK' /\ HotsOK' /\ FamilyOK'
  BY <1>1, <1>2, <1>3, Here, Quiet
<1>5. BoundsOK'
  BY <1>1 DEF IndInv, BoundsOK
<1> QED
  BY <1>1, <1>2, <1>4, <1>5 DEF IndInv, PcOK, Ready

\* A row nobody has seen is in no marker's source or rollback, nor in a segment.
LEMMA NewRow ==
    ASSUME IndInv, NEW row, row \notin Seen, NEW g, g.hot = hotDir.hot \union {row}, NEW s \in Segs
    PROVE  Good(g, s)
<1>1. Good(hotDir, s) /\ KnownSeg(s)
  BY Here DEF IndInv, PairsOK, DirsOK
<1>2. s.marker # Absent => Base(g, s) = Base(hotDir, s)
  BY <1>1 DEF KnownSeg, Base
<1>3. GoodOpen(g, s)
  BY <1>1 DEF KnownSeg, Good, GoodOpen
<1>4. GoodForward(g, s)
  BY <1>1, <1>2 DEF Good, GoodForward, Pending
<1>5. GoodRollback(g, s)
  BY <1>1, <1>2 DEF Good, GoodRollback, RollingBack, CleaningUp
<1> QED
  BY <1>3, <1>4, <1>5 DEF Good

\* A new row is committed while no operation runs.
LEMMA RowCommitted ==
    ASSUME IndInv, NEW row, row \notin Seen, row \in Seen', row \in (-MaxFaults)..MaxRows,
           CommitHot([hot |-> hotDir.hot \union {row}]), BoundsOK',
           rows' \in {rows, rows + 1}, faults' \in {faults, faults + 1}, pc' = "idle"
    PROVE  IndInv'
<1>1. /\ MayOK' /\ segDir' = segDir /\ hotDir' = Put(hotDir, [hot |-> hotDir.hot \union {row}])
      /\ Hots' = {hotDir'} /\ Segs' \subseteq Segs
  BY CommitHotEffect DEF IndInv
<1>2. hotDir' = [hot |-> hotDir.hot \union {row}]
  BY <1>1, Here, PutHot
<1>3. hotDir' \in HotDirs /\ hotDir'.hot = hotDir.hot \union {row}
  BY <1>2, Here DEF HotDirs, Contents
<1>4. hotDir'.hot \subseteq Seen'
  BY <1>3, Here, SeenGrows DEF IndInv
<1>5. \A s \in Segs : Good(hotDir', s)
  BY <1>3, NewRow
<1>6. DirsOK' /\ PairsOK' /\ FamilyOK'
  BY <1>1, <1>3, <1>4, <1>5, HotChange
<1>7. HotsOK'
  BY <1>1 DEF HotsOK, OneHot
<1> QED
  BY <1>1, <1>6, <1>7 DEF IndInv, PcOK, Ready

\* The service commits a row.
LEMMA WriteStep ==
    ASSUME IndInv, Write
    PROVE  IndInv'
<1>1. /\ pc' = "idle" /\ rows < MaxRows /\ rows' = rows + 1 /\ CommitHot([hot |-> hotDir.hot \union {rows + 1}])
      /\ then' = then /\ cut' = cut /\ publication' = publication /\ faults' = faults
  BY DEF Write, At, process
<1>2. rows \in Int /\ faults \in Int /\ MaxRows \in Int /\ MaxFaults \in Int /\ rows >= 0 /\ faults >= 0 /\ MaxFaults >= 0
  BY MigrationAssumption DEF IndInv, BoundsOK
<1>3. rows + 1 \notin Seen /\ rows + 1 \in Seen' /\ rows + 1 \in (-MaxFaults)..MaxRows
  BY <1>1, <1>2 DEF Seen
<1>4. BoundsOK'
  BY <1>1, <1>2 DEF IndInv, BoundsOK
<1> QED
  BY <1>1, <1>3, <1>4, RowCommitted

\* Something else commits a row while an operation is pending.
LEMMA ForeignWriteStep ==
    ASSUME IndInv, ForeignWrite
    PROVE  IndInv'
<1>1. /\ pc' = "idle" /\ faults < MaxFaults /\ faults' = faults + 1 /\ CommitHot([hot |-> hotDir.hot \union {-faults'}])
      /\ rows' = rows /\ then' = then /\ cut' = cut /\ publication' = publication
  BY DEF ForeignWrite, Fault, At, process
<1>2. rows \in Int /\ faults \in Int /\ MaxRows \in Int /\ MaxFaults \in Int /\ rows >= 0 /\ faults >= 0 /\ MaxRows >= 0
  BY MigrationAssumption DEF IndInv, BoundsOK
<1>3. -faults' \notin Seen /\ -faults' \in Seen' /\ -faults' \in (-MaxFaults)..MaxRows
  BY <1>1, <1>2 DEF Seen
<1>4. BoundsOK'
  BY <1>1, <1>2 DEF IndInv, BoundsOK
<1> QED
  BY <1>1, <1>3, <1>4, RowCommitted

\* The power is lost at any place.
LEMMA PowerLossStep ==
    ASSUME IndInv, PowerLoss
    PROVE  IndInv'
<1>1. Fault /\ Reboot /\ Stops /\ rows' = rows
  BY DEF PowerLoss
<1>2. BoundsOK' /\ PcOK' /\ faults' \in {faults, faults + 1}
  BY <1>1, Stopped DEF IndInv
<1>3. MayOK' /\ hotDir' \in Hots /\ segDir' \in Segs /\ Hots' = {hotDir'} /\ Segs' = {segDir'}
  BY <1>1, RebootEffect DEF IndInv
<1>4. Seen \subseteq Seen'
  BY <1>1, <1>2, SeenGrows DEF IndInv
<1>5. DirsOK'
  BY <1>3, <1>4 DEF IndInv, DirsOK, KnownSeg
<1>6. PairsOK'
  BY <1>3 DEF IndInv, PairsOK
<1>7. HotsOK' /\ FamilyOK'
  BY <1>3 DEF HotsOK, OneHot, FamilyOK, Forward, Pending, marker
<1> QED
  BY <1>2, <1>3, <1>5, <1>6, <1>7 DEF IndInv

\* A v1 history satisfies the invariant.
LEMMA InitInv == Init => IndInv
<1> SUFFICES ASSUME Init PROVE IndInv
  OBVIOUS
<1>1. /\ hotDir = [hot |-> {1, 2}] /\ may = {<<hotDir, segDir>>} /\ rows = 2 /\ faults = 0 /\ cut = 0
      /\ pc = "idle" /\ publication = Absent
      /\ segDir = [catalog |-> Absent, segment |-> Absent, tmp |-> Absent, rollback |-> Absent, marker |-> Absent,
                   json |-> Absent]
  BY DEF Init
<1>2. MayOK /\ Hots = {hotDir} /\ Segs = {segDir}
  <2>1. may = {<<hotDir, segDir>>}
    BY DEF Init
  <2> QED
    BY <2>1 DEF MayOK, Hots, Segs
<1>3. {1, 2} \in Contents /\ {1, 2} \subseteq Seen /\ 2 \in 0..MaxRows /\ 0 \in (-MaxFaults)..MaxRows /\ 0 \in 0..MaxFaults
  BY <1>1, MigrationAssumption DEF Contents, Seen
<1>4. hotDir \in HotDirs /\ segDir \in SegDirs
  BY <1>1, <1>3 DEF HotDirs, SegDirs
<1>5. V1(segDir) /\ segDir.segment = Absent
  BY <1>1 DEF V1
<1>6. DirsOK
  BY <1>1, <1>2, <1>3, <1>4, <1>5 DEF DirsOK, KnownSeg, V1
<1>7. PairsOK
  BY <1>2, <1>5 DEF PairsOK, Good, GoodOpen, GoodForward, GoodRollback, V1, Pending, RollingBack, CleaningUp
<1>8. BoundsOK
  BY <1>1, <1>3 DEF BoundsOK
<1>9. HotsOK /\ FamilyOK /\ PcOK
  BY <1>1, <1>2, <1>5 DEF HotsOK, OneHot, FamilyOK, V1, Forward, Pending, PcOK, Ready
<1> QED
  BY <1>2, <1>6, <1>7, <1>8, <1>9 DEF IndInv

\* Every step keeps it.
LEMMA NextInv == IndInv /\ [Next]_vars => IndInv'
<1> SUFFICES ASSUME IndInv, [Next]_vars PROVE IndInv'
  OBVIOUS
<1>1. CASE Migrate
  BY <1>1, StartMigrationStep, CopySourceStep, SyncCopyStep, CopyFailsStep, PrepareStep, SealStep, FillSegmentStep,
     RecordStep, LinkSegmentStep, UnlinkTmpStep, SyncSegmentStep, HotReadyStep, ReplaceHotStep, SyncReplacedStep,
     WriteCatalogStep, ClearStep, SyncClearStep, MigrationFailsStep, RestoreStep, SyncRestoredStep,
     RemoveTemporaryStep, RemoveSegmentStep, SyncRemovedStep DEF Migrate
<1>2. CASE Rollback
  BY <1>2, StartRollbackStep, RestoreV1Step, SyncV1Step, PrepareCleanupStep, TerminalStep, FinishCleanupStep,
     RetireCatalogStep, SyncCatalogStep, RetireSegmentStep, SyncRetiredStep DEF Rollback
<1>3. CASE Recover
  BY <1>3, RecoverSnapshotStep, RecoverForwardStep, RecoverPublishedStep, RecoverRollbackStep, RecoverCleanupStep
  DEF Recover
<1>4. CASE Write \/ PutJson \/ UnlinkJson \/ SyncJson \/ JsonFails \/ OperatorRemoves \/ ForeignWrite \/ Kill \/ PowerLoss
  BY <1>4, WriteStep, PutJsonStep, UnlinkJsonStep, SyncJsonStep, JsonFailsStep, OperatorRemovesStep, ForeignWriteStep,
     KillStep, PowerLossStep
<1>5. CASE UNCHANGED vars
  <2>1. UNCHANGED files /\ rows' = rows /\ faults' = faults /\ pc' = pc /\ then' = then /\ out' = out /\ cut' = cut
        /\ publication' = publication
    BY <1>5 DEF vars, process
  <2>2. /\ MayOK' /\ DirsOK' /\ PairsOK' /\ HotsOK' /\ FamilyOK'
        /\ hotDir' = hotDir /\ segDir' = segDir /\ Hots' = Hots /\ Segs' = Segs
    BY <2>1, FilesKept
  <2>3. BoundsOK'
    BY <2>1 DEF IndInv, BoundsOK
  <2>4. PcOK'
    BY <2>1, <2>2 DEF IndInv, PcOK, Putting, Ready, Published, OneHot, Below, marker
  <2> QED
    BY <2>2, <2>3, <2>4 DEF IndInv
<1> QED
  BY <1>1, <1>2, <1>3, <1>4, <1>5 DEF Next

\* The inductive invariant holds in every state of segment_migration.py, for any number
\* of rows and faults, whether or not the file system keeps the order of changes.
THEOREM Invariance == Spec => []IndInv
BY InitInv, NextInv, PTL DEF Spec

\* A marker that goes with its directory has the records of its phase.
LEMMA MarkerTypes ==
    ASSUME NEW h, NEW s \in SegDirs, s.marker # Absent, Good(h, s)
    PROVE  MarkerOK(s.marker)
<1>1. s.marker \in Markers
  BY DEF SegDirs
<1>2. CASE s.marker.operation = "forward"
  BY <1>1, <1>2, ContentsAssumption DEF Markers, MarkerOK, Whole, Good, GoodForward, Pending
<1>3. CASE s.marker.operation = "rollback"
  BY <1>1, <1>3, ContentsAssumption DEF Markers, MarkerOK, Whole, Good, GoodRollback
<1> QED
  BY <1>1, <1>2, <1>3 DEF Markers

\* Neither the live database nor a published segment or catalog is ever partly written,
\* on disk or after a power loss, and a marker has the records of its phase.
THEOREM TypeCorrect == Spec => []TypeOK
<1>1. IndInv => TypeOK
  <2> SUFFICES ASSUME IndInv PROVE TypeOK
    OBVIOUS
  <2>1. <<hotDir, segDir>> \in may
    BY DEF IndInv, MayOK
  <2>2. rows \in 0..MaxRows /\ cut \in (-MaxFaults)..MaxRows /\ faults \in 0..MaxFaults
    BY DEF IndInv, BoundsOK
  <2>3. ASSUME NEW m \in may
        PROVE  /\ Whole(m[1].hot)
               /\ m[2].segment = Absent \/ Whole(m[2].segment)
               /\ m[2].catalog # Absent => Whole(m[2].catalog.segment) /\ Whole(m[2].catalog.rollback)
               /\ \A content \in {m[2].tmp, m[2].rollback} : content \in {Absent, Torn} \/ Whole(content)
               /\ m[2].marker # Absent => MarkerOK(m[2].marker)
               /\ m[2].json \in {Absent, Torn}
    <3>1. m[1] \in Hots /\ m[2] \in Segs
      BY DEF Hots, Segs
    <3>2. m[1] \in HotDirs /\ m[2] \in SegDirs /\ Good(m[1], m[2])
      BY <3>1 DEF IndInv, DirsOK, PairsOK
    <3>3. m[2].marker # Absent => MarkerOK(m[2].marker)
      BY <3>2, MarkerTypes
    <3>4. Whole(m[1].hot)
      BY <3>2, ContentsAssumption DEF HotDirs, Whole
    <3>5. /\ m[2].segment = Absent \/ Whole(m[2].segment)
          /\ m[2].catalog # Absent => Whole(m[2].catalog.segment) /\ Whole(m[2].catalog.rollback)
          /\ \A content \in {m[2].tmp, m[2].rollback} : content \in {Absent, Torn} \/ Whole(content)
          /\ m[2].json \in {Absent, Torn}
      BY <3>2, ContentsAssumption DEF SegDirs, Catalogs, Whole
    <3> QED
      BY <3>3, <3>4, <3>5
  <2> QED
    BY <2>1, <2>2, <2>3 DEF TypeOK
<1> QED
  BY <1>1, Invariance, PTL

\* What the store may open after migrate_segmented_history, rollback_segmented_history or
\* recover_pending_migration is one complete generation.
THEOREM OpenSafety == Spec => []OpenIsWhole
<1>1. IndInv => OpenIsWhole
  BY Here DEF OpenIsWhole, CatalogVerified, Good, GoodOpen, marker
<1> QED
  BY <1>1, Invariance, PTL

\* Recovery accepts a pair that is good and has not diverged.
LEMMA Accepted ==
    ASSUME NEW h, NEW s \in SegDirs, Good(h, s), s.marker # Absent, Divergent(h, s.marker) = {}
    PROVE  /\ s.rollback = s.marker.rollback
           /\ ForwardReady(h, s) \/ PublishedReady(h, s) \/ RollbackReady(h, s) \/ CleanupReady(h, s)
<1>1. s.marker.operation \in {"forward", "rollback"} /\ Base(h, s) = h.hot
  BY DEF SegDirs, Markers, Base, Divergent
<1>2. CASE Pending(s) /\ s.catalog = Absent
  BY <1>1, <1>2 DEF Good, GoodForward, Pending, ForwardReady
<1>3. CASE Pending(s) /\ s.catalog # Absent
  BY <1>1, <1>3 DEF Good, GoodForward, Pending, PublishedReady, CatalogVerified
<1>4. CASE RollingBack(s)
  BY <1>1, <1>4 DEF Good, GoodRollback, RollingBack, RollbackReady, CatalogVerified
<1>5. CASE CleaningUp(s)
  BY <1>1, <1>5 DEF Good, GoodRollback, CleaningUp, CleanupReady
<1> QED
  BY <1>1, <1>2, <1>3, <1>4, <1>5 DEF Good, GoodRollback, Pending, RollingBack, CleaningUp

\* Whatever a kill, an error or a power loss leaves behind a marker,
\* recover_pending_migration accepts it unless the live database has diverged.
THEOREM RecoverySafety == Spec => []RecoveryReady
<1>1. IndInv => RecoveryReady
  <2> SUFFICES ASSUME IndInv, NEW m \in may, m[2].marker # Absent, Divergent(m[1], m[2].marker) = {}
               PROVE  /\ m[2].rollback = m[2].marker.rollback
                      /\ \/ ForwardReady(m[1], m[2]) \/ PublishedReady(m[1], m[2])
                         \/ RollbackReady(m[1], m[2]) \/ CleanupReady(m[1], m[2])
    BY DEF RecoveryReady
  <2>1. m[1] \in Hots /\ m[2] \in Segs
    BY DEF Hots, Segs
  <2>2. m[2] \in SegDirs /\ Good(m[1], m[2])
    BY <2>1 DEF IndInv, DirsOK, PairsOK
  <2> QED
    BY <2>2, Accepted
<1> QED
  BY <1>1, Invariance, PTL

\* No step of migration, rollback or recovery replaces a live database that holds rows
\* the pending operation does not know.
THEOREM DivergenceKept == Spec => DivergentPreserved
<1> DEFINE Kept == marker # Absent => Divergent(hotDir, marker) \subseteq hotDir'.hot
<1>1. IndInv /\ [Next]_vars => [Kept]_vars
  <2> SUFFICES ASSUME IndInv, Next, marker # Absent PROVE Divergent(hotDir, marker) \subseteq hotDir'.hot
    OBVIOUS
  <2>1. CASE hotDir' = hotDir
    BY <2>1 DEF Divergent
  <2>2. CASE ForeignWrite
    <3>1. hotDir' = Put(hotDir, [hot |-> hotDir.hot \union {-faults'}])
      BY <2>2, CommitHotEffect DEF ForeignWrite, IndInv
    <3>2. hotDir' = [hot |-> hotDir.hot \union {-faults'}]
      BY <3>1, Here, PutHot
    <3> QED
      BY <3>2 DEF Divergent
  <2>3. CASE ReplaceHot \/ Restore \/ RestoreV1
    <3>1. (pc = "replaceHot" /\ Ready("replaceHot")) \/ (pc = "restore" /\ Ready("restore"))
             \/ (pc = "restoreV1" /\ Ready("restoreV1"))
      BY <2>3 DEF ReplaceHot, Restore, RestoreV1, Step, At, IndInv, PcOK
    <3>2. Divergent(hotDir, marker) = {}
      BY <3>1, Here DEF Ready, Divergent, Forward, Pending, Good, GoodForward, marker
    <3> QED
      BY <3>2
  <2>4. CASE PowerLoss
    <3>1. hotDir' \in Hots
      BY <2>4, RebootEffect DEF PowerLoss, IndInv
    <3>2. CASE OneHot
      BY <2>1, <3>1, <3>2 DEF OneHot
    <3>3. CASE ~OneHot
      BY <3>3, Here DEF IndInv, HotsOK, Forward, Pending, RollingBack, Divergent, Good, GoodForward, marker
    <3> QED
      BY <3>2, <3>3
  <2>5. CASE Migrate /\ ~ReplaceHot /\ ~Restore
    BY <2>1, <2>5
    DEF Migrate, StartMigration, CopySource, SyncCopy, CopyFails, Prepare, Seal, FillSegment, Record, LinkSegment,
        UnlinkTmp, SyncSegment, HotReady, SyncReplaced, WriteCatalog, Clear, SyncClear, MigrationFails, SyncRestored,
        RemoveTemporary, RemoveSegment, SyncRemoved, WriteJson, ChangeSeg, CompleteSeg, SyncSeg, SyncHot, files
  <2>6. CASE Rollback /\ ~RestoreV1
    BY <2>1, <2>6
    DEF Rollback, StartRollback, SyncV1, PrepareCleanup, Terminal, FinishCleanup, RetireCatalog, SyncCatalog,
        RetireSegment, SyncRetired, WriteJson, ChangeSeg, SyncSeg, SyncHot, files
  <2>7. CASE Recover
    BY <2>1, <2>7
    DEF Recover, RecoverSnapshot, RecoverForward, RecoverPublished, RecoverRollback, RecoverCleanup, ChangeSeg, files
  <2>8. CASE PutJson \/ UnlinkJson \/ SyncJson \/ JsonFails \/ OperatorRemoves \/ Kill
    BY <2>1, <2>8
    DEF PutJson, UnlinkJson, SyncJson, JsonFails, OperatorRemoves, Kill, ChangeSeg, SyncSeg, files
  <2>9. ~Write
    BY DEF Write
  <2> QED
    BY <2>2, <2>3, <2>4, <2>5, <2>6, <2>7, <2>8, <2>9 DEF Next
<1> QED
  BY <1>1, Invariance, PTL DEF Spec, DivergentPreserved
=============================================================================
