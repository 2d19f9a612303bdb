------------------------ MODULE SegmentRotationProofs -----------------------
(***************************************************************************)
(* Proofs about SegmentRotation, for any number of rows, generations and   *)
(* faults, on a file system that keeps the order of changes of the two     *)
(* directories (Ordered; without it the properties fail, see               *)
(* RetiredAfterSync).                                                      *)
(*                                                                         *)
(* With Ordered, what a power loss may leave is the pairs of directories   *)
(* there have been since the last sync, so the invariant speaks of each    *)
(* pair by itself: without a journal it is a whole history, and with one   *)
(* it is one of the two generations of the journal, with its evidence      *)
(* (Good).  The rest says what the process knows at each of its places     *)
(* (Ready, Retiring).  For the refinement, all pairs stand for the same    *)
(* generation (Agreed), but for those between the replacement of the       *)
(* catalog and the next sync (Undecided).                                  *)
(***************************************************************************)
EXTENDS SegmentRotation, TLAPS

\* What the fields of the two directories may hold.
HotDirs == [hot : RowSets, rollback : Contents, staged : Contents, journal : Journals \union {Absent}]
SegDirs ==
    [catalog : Catalogs, rollback : Catalogs \union {Absent, Torn}, staged : Catalogs \union {Absent},
     tmp : Contents, segs : [Generations -> RowSets \union {Absent}]]

\* Each of n rows is in exactly one of a hot database and the segments of a catalog.
History(hot, catalog, n) ==
    /\ hot \union UNION {catalog[i] : i \in DOMAIN catalog} = 1..n
    /\ \A i \in DOMAIN catalog :
          /\ catalog[i] \intersect hot = {}
          /\ \A j \in DOMAIN catalog : i # j => catalog[i] \intersect catalog[j] = {}

\* The rows that a cutoff seals, and a segment that some cutoff seals.
Below(content) == {r \in content : r <= cut}
Sealed(source, segment) == \E c \in source : segment = {r \in source : r <= c}

\* Both generations of a journal hold the same rows, as far as the journal has come.
GoodJournal(j, n) ==
    /\ History(j.source, j.catalog, n) /\ j.gen = Len(j.catalog) + 1
    /\ j.segment # Absent => Sealed(j.source, j.segment)
    /\ j.staged # Absent => j.segment # Absent /\ j.staged = j.source \ j.segment
    /\ j.candidate # Absent => j.staged # Absent /\ j.candidate = Append(j.catalog, j.segment)
    /\ j.phase \notin {"prepared", "prior-restored"} => j.segment # Absent
    /\ j.phase \in {"hot-staged", "hot-replaced", "catalog-replaced", "cleanup"} => j.candidate # Absent

\* The rollback copies are there, but for a first journal whose sync failed.
Evidence(h, s) ==
    /\ h.rollback # Torn /\ s.rollback # Torn
    /\ h.rollback \in {Absent, h.journal.source} /\ s.rollback \in {Absent, h.journal.catalog}
    /\ RollbacksMatch(h, s) \/ (h.journal.phase = "prepared" /\ h.journal.segment = Absent)

\* The directories are the prior generation, or the hot database is already replaced.
PriorKept(h, s) ==
    /\ s.catalog = h.journal.catalog /\ h.journal.phase \notin {"catalog-replaced", "cleanup"}
    /\ h.hot = h.journal.source \/ (h.hot = h.journal.staged /\ h.journal.phase \in {"hot-staged", "hot-replaced"})
    /\ s.segs[h.journal.gen] \in {Absent, h.journal.segment}

\* The directories are the candidate.
CandidateLive(h, s) ==
    /\ s.catalog = h.journal.candidate /\ h.journal.phase \in {"hot-replaced", "catalog-replaced", "cleanup"}
    /\ h.hot = h.journal.staged /\ s.segs[h.journal.gen] = h.journal.segment /\ s.tmp = Absent

\* A pair that a power loss may leave.
Good(h, s, n) ==
    /\ CatalogVerified(s)
    /\ h.journal = Absent => History(h.hot, s.catalog, n)
    /\ h.journal # Absent => GoodJournal(h.journal, n) /\ Evidence(h, s) /\ (PriorKept(h, s) \/ CandidateLive(h, s))

\* The journal, and where the directories are between its generations.
jn == hotDir.journal
Open == jn = Absent
Source == jn # Absent /\ PriorKept(hotDir, segDir) /\ hotDir.hot = jn.source
Replaced == jn # Absent /\ PriorKept(hotDir, segDir) /\ hotDir.hot = jn.staged /\ jn.candidate # Absent
Chosen == jn # Absent /\ CandidateLive(hotDir, segDir)
Named == segDir.segs[jn.gen] = jn.segment /\ jn.segment # Absent
Copied == jn # Absent /\ RollbacksMatch(hotDir, segDir)

\* What the process knows when it is about to take the step at place p.
Ready(p) ==
    /\ p \in {"copyHot", "syncCopy", "createCatalogCopy", "copyCatalog", "syncCatalogCopy", "prepare"} =>
         /\ Open /\ cut \in hotDir.hot /\ Len(segDir.catalog) < MaxGenerations
         /\ segDir.segs[Len(segDir.catalog) + 1] = Absent
         /\ hotDir.rollback = IF p = "copyHot" THEN Torn ELSE hotDir.hot
    /\ p = "copyCatalog" => segDir.rollback = Torn
    /\ p \in {"syncCatalogCopy", "prepare"} => segDir.rollback = segDir.catalog
    /\ p \in {"seal", "fillSegment", "recordSegment"} =>
         /\ Source /\ Copied /\ jn.phase = "prepared" /\ cut \in jn.source
         /\ jn.segment = Absent /\ segDir.segs[jn.gen] = Absent
    /\ p = "fillSegment" => segDir.tmp = Torn
    /\ p = "recordSegment" => segDir.tmp = Below(jn.source)
    /\ p \in {"linkSegment", "unlinkSegment", "syncSegment", "segmentPublished", "stageHot", "fillHot", "recordHot"} =>
         Source /\ Copied /\ jn.segment = Below(jn.source) /\ jn.staged = Absent /\ jn.candidate = Absent
    /\ p \in {"linkSegment", "unlinkSegment", "syncSegment", "segmentPublished"} => jn.phase = "prepared"
    /\ p = "linkSegment" => segDir.tmp = jn.segment
    /\ p \in {"stageHot", "fillHot", "recordHot", "stageCatalog", "hotStaged"} => jn.phase = "segment-published"
    /\ p \in {"unlinkSegment", "syncSegment", "segmentPublished", "stageHot", "fillHot", "recordHot",
              "stageCatalog", "hotStaged", "replaceHot", "syncHot", "hotReplaced", "replaceCatalog"} => Named
    /\ p \in {"syncSegment", "segmentPublished", "stageHot", "fillHot", "recordHot", "stageCatalog", "hotStaged",
              "replaceHot", "syncHot", "hotReplaced", "replaceCatalog"} => segDir.tmp = Absent
    /\ p = "fillHot" => hotDir.staged = Torn
    /\ p = "recordHot" => hotDir.staged = jn.source \ jn.segment
    /\ p \in {"stageCatalog", "hotStaged"} =>
         Source /\ Copied /\ jn.segment # Absent /\ jn.staged # Absent /\ hotDir.staged = jn.staged
    /\ p = "hotStaged" => segDir.staged = Append(jn.catalog, jn.segment)
    /\ p = "replaceHot" => Source /\ Copied /\ jn.phase = "hot-staged" /\ hotDir.staged = jn.staged
    /\ p \in {"syncHot", "hotReplaced"} => Replaced /\ Copied /\ jn.phase = "hot-staged"
    /\ p = "replaceCatalog" => Replaced /\ Copied /\ jn.phase = "hot-replaced"
    /\ p \in {"replaceHot", "syncHot", "hotReplaced", "replaceCatalog"} => segDir.staged = jn.candidate
    /\ p \in {"syncCatalog", "catalogReplaced", "cleanup", "selectCandidate"} => Chosen /\ Copied
    /\ p \in {"syncCatalog", "catalogReplaced"} => jn.phase = "hot-replaced"
    /\ p = "cleanup" => jn.phase = "catalog-replaced"
    /\ p \in {"retireRollbacks", "retireCandidate"} => Chosen /\ Copied /\ jn.phase = "cleanup"
    /\ p = "restoreHot" => Copied /\ hotDir.rollback = jn.source /\ Replaced
    /\ p \in {"syncRestored", "selectPrior"} => Source /\ Copied
    /\ p \in {"removeTemporary", "removeSegment", "syncRemoved", "retirePrior"} =>
         Source /\ Copied /\ jn.phase = "prior-restored"

\* What may be left to retire: copies without a journal, after the candidate was chosen,
\* and after the prior generation was.
Orphans == {<<"rollbackCatalog", "rollbackHot">>, <<"rollbackHot">>}
Commits == {<<"rollbackHot", "rollbackCatalog", "journal">>, <<"rollbackCatalog", "journal">>,
            <<"rollbackHot", "rollbackCatalog", "stagedHot", "stagedCatalog", "journal">>,
            <<"rollbackCatalog", "stagedHot", "stagedCatalog", "journal">>, <<"stagedHot", "stagedCatalog", "journal">>,
            <<"stagedCatalog", "journal">>}
Reverts == {<<"stagedHot", "stagedCatalog", "rollbackHot", "rollbackCatalog", "journal">>,
            <<"stagedCatalog", "rollbackHot", "rollbackCatalog", "journal">>, <<"rollbackHot", "rollbackCatalog", "journal">>,
            <<"rollbackCatalog", "journal">>}
\* The journal has decided, and the directories are what it decided for.
Finished == Copied /\ ((Chosen /\ jn.phase = "cleanup") \/ (Source /\ jn.phase = "prior-restored"))

Retiring ==
    \/ todo \in Orphans /\ (jn # Absent => jn.phase = "prepared" /\ jn.segment = Absent)
    \/ todo \in Commits \union Reverts /\ Finished
    \/ todo = <<"journal">> /\ (IF pc = "retired" THEN Open ELSE Finished)

\* What it knows wherever it is.
PcOK ==
    /\ pc \notin {"syncJournal", "retire", "retired"} => Ready(pc)
    /\ pc = "syncJournal" =>
         /\ then \in {"seal", "linkSegment", "stageHot", "stageCatalog", "replaceHot", "replaceCatalog", "cleanup",
                      "retireRollbacks", "retireCandidate", "removeTemporary"}
         /\ Ready(then)
    /\ pc \in {"retire", "retired"} => Retiring

MayOK == <<hotDir, segDir>> \in may /\ \A m \in may : m = <<m[1], m[2]>>
PairsOK == \A m \in may : m[1] \in HotDirs /\ m[2] \in SegDirs /\ Good(m[1], m[2], rows)
BoundsOK == rows \in 1..MaxRows /\ cut \in 0..MaxRows /\ faults \in 0..MaxFaults

\* The inductive invariant.
IndInv == MayOK /\ PairsOK /\ BoundsOK /\ PcOK

\* A change of one directory adds one pair to those a power loss may leave.
LEMMA HotChanges ==
    ASSUME Ordered, MayOK, PairsOK, NEW c, ChangeHot(c), rows' = rows
    PROVE  /\ MayOK' /\ segDir' = segDir /\ hotDir' = Put(hotDir, c) /\ may' = may \union {<<hotDir', segDir'>>}
           /\ hotDir' \in HotDirs /\ Good(hotDir', segDir, rows) => PairsOK'
<1> DEFINE t == Put(hotDir, c)
<1>1. segDir' = segDir /\ hotDir' = t /\ may' = may \union {<<t, segDir>>}
  BY DEF ChangeHot
<1> HIDE DEF t
<1>2. MayOK'
  BY <1>1 DEF MayOK
<1>3. segDir \in SegDirs
  BY DEF MayOK, PairsOK
<1>4. ASSUME t \in HotDirs, Good(t, segDir, rows) PROVE PairsOK'
  BY <1>1, <1>3, <1>4 DEF PairsOK
<1> QED
  BY <1>1, <1>2, <1>4 DEF t

\* The same for the segments directory.
LEMMA SegChanges ==
    ASSUME Ordered, MayOK, PairsOK, NEW c, ChangeSeg(c), rows' = rows
    PROVE  /\ MayOK' /\ hotDir' = hotDir /\ segDir' = Put(segDir, c) /\ may' = may \union {<<hotDir', segDir'>>}
           /\ segDir' \in SegDirs /\ Good(hotDir, segDir', rows) => PairsOK'
<1> DEFINE t == Put(segDir, c)
<1>1. hotDir' = hotDir /\ segDir' = t /\ may' = may \union {<<hotDir, t>>}
  BY DEF ChangeSeg
<1> HIDE DEF t
<1>2. MayOK'
  BY <1>1 DEF MayOK
<1>3. hotDir \in HotDirs
  BY DEF MayOK, PairsOK
<1>4. ASSUME t \in SegDirs, Good(hotDir, t, rows) PROVE PairsOK'
  BY <1>1, <1>3, <1>4 DEF PairsOK
<1> QED
  BY <1>1, <1>2, <1>4 DEF t

\* A sync, of either directory, commits both.
LEMMA Syncs ==
    ASSUME Ordered, MayOK, PairsOK, SyncHot \/ SyncSeg, rows' = rows
    PROVE  MayOK' /\ PairsOK' /\ hotDir' = hotDir /\ segDir' = segDir /\ may' = {<<hotDir, segDir>>}
<1>1. hotDir' = hotDir /\ segDir' = segDir /\ may' = {<<hotDir, segDir>>}
  BY DEF SyncHot, SyncSeg
<1> QED
  BY <1>1 DEF MayOK, PairsOK

\* A step without effect on files.
LEMMA Stays ==
    ASSUME MayOK, PairsOK, UNCHANGED files, rows' = rows
    PROVE  MayOK' /\ PairsOK' /\ hotDir' = hotDir /\ segDir' = segDir /\ may' = may
BY DEF files, MayOK, PairsOK

\* What the invariant says of the directories as they are.
LEMMA Here ==
    ASSUME MayOK, PairsOK
    PROVE  hotDir \in HotDirs /\ segDir \in SegDirs /\ Good(hotDir, segDir, rows)
BY DEF MayOK, PairsOK

\* What a change of one name of the hot directory is.
LEMMA PutHot ==
    ASSUME NEW h \in HotDirs, NEW v
    PROVE  /\ Put(h, [hot |-> v]) = [h EXCEPT !.hot = v]
           /\ Put(h, [rollback |-> v]) = [h EXCEPT !.rollback = v]
           /\ Put(h, [staged |-> v]) = [h EXCEPT !.staged = v]
           /\ Put(h, [journal |-> v]) = [h EXCEPT !.journal = v]
           /\ Put(h, [n \in {"rollback"} |-> v]) = [h EXCEPT !.rollback = v]
           /\ Put(h, [n \in {"staged"} |-> v]) = [h EXCEPT !.staged = v]
           /\ Put(h, [n \in {"journal"} |-> v]) = [h EXCEPT !.journal = v]
<1>1. Put(h, [hot |-> v]) = [h EXCEPT !.hot = v]
  BY DEF Put, HotDirs
<1>2. Put(h, [rollback |-> v]) = [h EXCEPT !.rollback = v]
  BY DEF Put, HotDirs
<1>3. Put(h, [staged |-> v]) = [h EXCEPT !.staged = v]
  BY DEF Put, HotDirs
<1>4. Put(h, [journal |-> v]) = [h EXCEPT !.journal = v]
  BY DEF Put, HotDirs
<1>5. Put(h, [n \in {"rollback"} |-> v]) = [h EXCEPT !.rollback = v]
  BY DEF Put, HotDirs
<1>6. Put(h, [n \in {"staged"} |-> v]) = [h EXCEPT !.staged = v]
  BY DEF Put, HotDirs
<1>7. Put(h, [n \in {"journal"} |-> v]) = [h EXCEPT !.journal = v]
  BY DEF Put, HotDirs
<1> QED
  BY <1>1, <1>2, <1>3, <1>4, <1>5, <1>6, <1>7

\* What a change of one name of the segments directory is.
LEMMA PutSeg ==
    ASSUME NEW s \in SegDirs, NEW v
    PROVE  /\ Put(s, [rollback |-> v]) = [s EXCEPT !.rollback = v]
           /\ Put(s, [tmp |-> v]) = [s EXCEPT !.tmp = v]
           /\ Put(s, [staged |-> v]) = [s EXCEPT !.staged = v]
           /\ Put(s, [segs |-> v]) = [s EXCEPT !.segs = v]
           /\ Put(s, [n \in {"rollback"} |-> v]) = [s EXCEPT !.rollback = v]
           /\ Put(s, [n \in {"staged"} |-> v]) = [s EXCEPT !.staged = v]
<1>1. Put(s, [rollback |-> v]) = [s EXCEPT !.rollback = v]
  BY DEF Put, SegDirs
<1>2. Put(s, [tmp |-> v]) = [s EXCEPT !.tmp = v]
  BY DEF Put, SegDirs
<1>3. Put(s, [staged |-> v]) = [s EXCEPT !.staged = v]
  BY DEF Put, SegDirs
<1>4. Put(s, [segs |-> v]) = [s EXCEPT !.segs = v]
  BY DEF Put, SegDirs
<1>5. Put(s, [n \in {"rollback"} |-> v]) = [s EXCEPT !.rollback = v]
  BY DEF Put, SegDirs
<1>6. Put(s, [n \in {"staged"} |-> v]) = [s EXCEPT !.staged = v]
  BY DEF Put, SegDirs
<1> QED
  BY <1>1, <1>2, <1>3, <1>4, <1>5, <1>6

\* Replacing: two names change at once.
LEMMA PutReplacedHot ==
    ASSUME NEW h \in HotDirs, NEW c, NEW v, DOMAIN c = {"hot", "staged"}, c["hot"] = v, c["staged"] = Absent
    PROVE  Put(h, c) = [h EXCEPT !.hot = v, !.staged = Absent]
<1> DEFINE t == [h EXCEPT !.hot = v, !.staged = Absent]
           names == {"hot", "rollback", "staged", "journal"}
           new == [n \in names |-> IF n = "hot" THEN v ELSE IF n = "staged" THEN Absent ELSE h[n]]
<1>1. DOMAIN h = names /\ t = new
  BY DEF HotDirs
<1>2. Put(h, c) = new
  BY <1>1 DEF Put
<1> QED
  BY <1>1, <1>2

\* The same for the catalog.
LEMMA PutReplacedCatalog ==
    ASSUME NEW s \in SegDirs, NEW c, NEW v, DOMAIN c = {"catalog", "staged"}, c["catalog"] = v, c["staged"] = Absent
    PROVE  Put(s, c) = [s EXCEPT !.catalog = v, !.staged = Absent]
<1> DEFINE t == [s EXCEPT !.catalog = v, !.staged = Absent]
           names == {"catalog", "rollback", "staged", "tmp", "segs"}
           new == [n \in names |-> IF n = "catalog" THEN v ELSE IF n = "staged" THEN Absent ELSE s[n]]
<1>1. DOMAIN s = names /\ t = new
  BY DEF SegDirs
<1>2. Put(s, c) = new
  BY <1>1 DEF Put
<1> QED
  BY <1>1, <1>2

\* Facts about catalogs.
LEMMA CatalogFacts ==
    ASSUME NEW c \in Catalogs
    PROVE  /\ c \in Seq(RowSets) /\ Len(c) \in Generations /\ DOMAIN c = 1..Len(c)
           /\ c # Absent /\ c # Torn
<1>1. PICK n \in Generations : c \in [1..n -> RowSets]
  BY DEF Catalogs
<1>2. n \in Nat
  BY <1>1, RotationAssumption DEF Generations
<1>3. c \in Seq(RowSets) /\ Len(c) = n
  BY <1>1, <1>2
<1> QED
  BY <1>1, <1>2, <1>3, ContentsAssumption

\* What a catalog with one more segment is.
LEMMA CatalogGrows ==
    ASSUME NEW c \in Catalogs, NEW seg \in RowSets, Len(c) < MaxGenerations
    PROVE  /\ Append(c, seg) \in Catalogs /\ Append(c, seg) # c
           /\ Len(c) + 1 \in Generations
           /\ DOMAIN Append(c, seg) = DOMAIN c \union {Len(c) + 1} /\ Len(c) + 1 \notin DOMAIN c
           /\ Append(c, seg)[Len(c) + 1] = seg /\ \A i \in DOMAIN c : Append(c, seg)[i] = c[i]
<1> DEFINE k == Len(c) + 1
           d == Append(c, seg)
<1>1. /\ c \in Seq(RowSets) /\ Len(c) \in Nat /\ Len(c) >= 1 /\ DOMAIN c = 1..Len(c)
  BY CatalogFacts, RotationAssumption DEF Generations
<1>2. k \in Generations /\ k \in Nat /\ 1..k = (1..Len(c)) \union {k} /\ k \notin 1..Len(c)
  BY <1>1, RotationAssumption DEF Generations
<1>3. d \in Seq(RowSets) /\ Len(d) = k /\ d[k] = seg /\ \A i \in 1..Len(c) : d[i] = c[i]
  BY <1>1
<1> HIDE DEF d
<1>4. d # c
  BY <1>1, <1>3
<1>5. DOMAIN d = 1..k /\ d \in [1..k -> RowSets]
  <2>1. DOMAIN d = 1..k /\ \A i \in 1..k : d[i] \in RowSets
    BY <1>2, <1>3
  <2>2. d = [i \in 1..k |-> d[i]]
    BY <1>3, <2>1
  <2> QED
    BY <2>1, <2>2
<1>6. d \in Catalogs
  BY <1>2, <1>5 DEF Catalogs
<1> QED
  BY <1>1, <1>2, <1>3, <1>4, <1>5, <1>6 DEF d

\* Moving rows to a new segment keeps the history.
LEMMA SealKeepsHistory ==
    ASSUME NEW source \in RowSets, NEW c \in Catalogs, NEW seg \in RowSets, NEW n, seg \subseteq source,
           Len(c) < MaxGenerations, History(source, c, n)
    PROVE  History(source \ seg, Append(c, seg), n)
<1> DEFINE k == Len(c) + 1
           d == Append(c, seg)
<1>1. DOMAIN d = DOMAIN c \union {k} /\ k \notin DOMAIN c /\ d[k] = seg /\ \A i \in DOMAIN c : d[i] = c[i]
  BY CatalogGrows
<1> HIDE DEF d, k
<1>2. UNION {d[i] : i \in DOMAIN d} = seg \union UNION {c[i] : i \in DOMAIN c}
  BY <1>1
<1>3. (source \ seg) \union UNION {d[i] : i \in DOMAIN d} = 1..n
  <2> DEFINE u == UNION {c[i] : i \in DOMAIN c}
  <2>1. source \union u = 1..n
    BY DEF History
  <2> HIDE DEF u
  <2>2. (source \ seg) \union (seg \union u) = source \union u
    OBVIOUS
  <2> QED
    BY <1>2, <2>1, <2>2 DEF u
<1>4. \A i \in DOMAIN c : c[i] \intersect source = {}
  BY DEF History
<1>5. \A i \in DOMAIN d : d[i] \intersect (source \ seg) = {}
  BY <1>1, <1>4
<1>6. \A i, j \in DOMAIN d : i # j => d[i] \intersect d[j] = {}
  <2>1. \A i, j \in DOMAIN c : i # j => c[i] \intersect c[j] = {}
    BY DEF History
  <2> QED
    BY <1>1, <1>4, <2>1
<1> QED
  BY <1>3, <1>5, <1>6 DEF History, d

\* Goodness does not depend on staged files, and not on a temporary name that goes.
LEMMA GoodAlike ==
    ASSUME NEW h, NEW s, NEW g, NEW t, NEW n, Good(h, s, n),
           g.hot = h.hot, g.rollback = h.rollback, g.journal = h.journal,
           t.catalog = s.catalog, t.rollback = s.rollback, t.segs = s.segs, t.tmp \in {s.tmp, Absent}
    PROVE  Good(g, t, n)
BY DEF Good, CatalogVerified, Evidence, RollbacksMatch, PriorKept, CandidateLive

\* Without a journal it does not depend on rollback copies either.
LEMMA GoodOpen ==
    ASSUME NEW h, NEW s, NEW g, NEW t, NEW n, Good(h, s, n),
           h.journal = Absent, g.journal = Absent, g.hot = h.hot, t.catalog = s.catalog, t.segs = s.segs
    PROVE  Good(g, t, n)
BY DEF Good, CatalogVerified

\* A rotation begins with an empty rollback copy.
LEMMA StartRotationStep ==
    ASSUME Ordered, IndInv, StartRotation
    PROVE  IndInv'
<1> USE DEF IndInv
<1>1. /\ hotDir.journal = Absent /\ cut' \in hotDir.hot /\ pc' = "copyHot" /\ ChangeHot([rollback |-> Torn])
      /\ Len(segDir.catalog) < MaxGenerations /\ segDir.segs[Len(segDir.catalog) + 1] = Absent
      /\ rows' = rows /\ faults' = faults
  BY DEF StartRotation, At, Goto
<1>2. hotDir \in HotDirs /\ segDir \in SegDirs /\ Good(hotDir, segDir, rows)
  BY Here
<1>3. /\ MayOK' /\ segDir' = segDir /\ hotDir' = [hotDir EXCEPT !.rollback = Torn]
      /\ hotDir' \in HotDirs /\ Good(hotDir', segDir, rows) => PairsOK'
  BY <1>1, <1>2, HotChanges, PutHot
<1>4. /\ hotDir' \in HotDirs /\ hotDir'.hot = hotDir.hot /\ hotDir'.journal = Absent /\ hotDir'.rollback = Torn
  BY <1>1, <1>2, <1>3 DEF HotDirs, Contents
<1>5. Good(hotDir', segDir, rows)
  BY <1>1, <1>2, <1>4, GoodOpen
<1>6. BoundsOK'
  <2>1. hotDir.hot \subseteq 1..MaxRows
    BY <1>2 DEF HotDirs, RowSets
  <2> QED
    BY <1>1, <2>1, RotationAssumption DEF BoundsOK
<1>7. Ready("copyHot")'
  BY <1>1, <1>3, <1>4 DEF Ready, Open, jn
<1> QED
  BY <1>1, <1>3, <1>4, <1>5, <1>6, <1>7 DEF PcOK

\* What types the fields of the directories have.
LEMMA TypedHere ==
    ASSUME MayOK, PairsOK
    PROVE  /\ segDir.catalog \in Catalogs /\ hotDir.hot \in RowSets /\ Len(segDir.catalog) \in Nat
           /\ hotDir.hot # Absent /\ hotDir.hot # Torn /\ segDir.catalog # Absent /\ segDir.catalog # Torn
           /\ hotDir.journal # Absent =>
                /\ hotDir.journal \in Journals /\ hotDir.journal.catalog \in Catalogs /\ hotDir.journal.source \in RowSets
                /\ hotDir.journal.gen = Len(hotDir.journal.catalog) + 1 /\ Len(hotDir.journal.catalog) < MaxGenerations
                /\ hotDir.journal.segment # Absent => hotDir.journal.segment \in RowSets
                /\ hotDir.journal.gen \notin DOMAIN hotDir.journal.catalog /\ hotDir.journal.gen \in Generations
<1>1. hotDir \in HotDirs /\ segDir \in SegDirs /\ Good(hotDir, segDir, rows)
  BY Here
<1>2. segDir.catalog \in Catalogs /\ hotDir.hot \in RowSets
  BY <1>1 DEF HotDirs, SegDirs
<1>3. Len(segDir.catalog) \in Nat
  BY <1>2, CatalogFacts, RotationAssumption DEF Generations
<1>4. ASSUME hotDir.journal # Absent
      PROVE  /\ hotDir.journal \in Journals /\ hotDir.journal.catalog \in Catalogs /\ hotDir.journal.source \in RowSets
             /\ hotDir.journal.gen = Len(hotDir.journal.catalog) + 1 /\ Len(hotDir.journal.catalog) < MaxGenerations
             /\ hotDir.journal.segment # Absent => hotDir.journal.segment \in RowSets
             /\ hotDir.journal.gen \notin DOMAIN hotDir.journal.catalog /\ hotDir.journal.gen \in Generations
  <2> DEFINE j == hotDir.journal
  <2>1. j \in Journals /\ j.gen = Len(j.catalog) + 1
    BY <1>1, <1>4 DEF HotDirs, Good, GoodJournal
  <2>2. j.catalog \in Catalogs /\ j.source \in RowSets /\ j.gen \in Generations /\ j.segment \in RowSets \union {Absent}
    BY <2>1 DEF Journals
  <2>3. Len(j.catalog) \in Generations /\ DOMAIN j.catalog = 1..Len(j.catalog)
    BY <2>2, CatalogFacts
  <2> QED
    BY <2>1, <2>2, <2>3, RotationAssumption DEF Generations
<1> QED
  BY <1>2, <1>3, <1>4, ContentsAssumption

\* The new segment is no segment of the catalog yet.
LEMMA GoodLinked ==
    ASSUME MayOK, PairsOK, hotDir.journal # Absent, PriorKept(hotDir, segDir),
           NEW t, NEW v \in {Absent, hotDir.journal.segment},
           t.catalog = segDir.catalog, t.rollback = segDir.rollback,
           t.segs = [segDir.segs EXCEPT ![hotDir.journal.gen] = v]
    PROVE  Good(hotDir, t, rows)
<1>1. hotDir \in HotDirs /\ segDir \in SegDirs /\ Good(hotDir, segDir, rows)
  BY Here
<1>2. hotDir.journal.gen \notin DOMAIN t.catalog /\ hotDir.journal.gen \in Generations
  BY TypedHere DEF PriorKept
<1>3. CatalogVerified(t)
  BY <1>1, <1>2 DEF CatalogVerified, Good, SegDirs
<1>4. PriorKept(hotDir, t)
  BY <1>1, <1>2 DEF PriorKept, SegDirs
<1>5. Evidence(hotDir, t)
  BY <1>1 DEF Good, Evidence, RollbacksMatch
<1> QED
  BY <1>1, <1>3, <1>4, <1>5 DEF Good

\* The rows up to the cutoff can be sealed.
LEMMA SealedHere ==
    ASSUME NEW source, cut \in source
    PROVE  Sealed(source, Below(source))
BY DEF Sealed, Below

\* What the process knows is about files and the cutoff.
LEMMA ReadyStays ==
    ASSUME NEW p, Ready(p), hotDir' = hotDir, segDir' = segDir, cut' = cut
    PROVE  Ready(p)'
BY
   DEF Ready, Open, Source, Replaced, Chosen, Named, Copied, jn, PriorKept, CandidateLive,
       RollbacksMatch, Terminal, Below

\* A journal is put in place; nothing else changes.
LEMMA JournalPut ==
    ASSUME Ordered, IndInv, NEW p, NEW q, NEW j \in Journals, PutJournal(p, j, q)
    PROVE  /\ MayOK' /\ BoundsOK' /\ segDir' = segDir /\ hotDir' \in HotDirs /\ hotDir'.journal = j /\ j # Absent
           /\ hotDir'.hot = hotDir.hot /\ hotDir'.rollback = hotDir.rollback /\ hotDir'.staged = hotDir.staged
           /\ Good(hotDir', segDir, rows) => PairsOK'
           /\ pc = p /\ pc' = "syncJournal" /\ then' = q /\ rows' = rows /\ cut' = cut /\ faults' = faults
<1>1. /\ ChangeHot([journal |-> j]) /\ pc = p /\ pc' = "syncJournal" /\ then' = q
      /\ rows' = rows /\ cut' = cut /\ faults' = faults
  BY DEF PutJournal, At, Goto
<1>2. hotDir \in HotDirs
  BY Here DEF IndInv
<1>3. /\ MayOK' /\ segDir' = segDir /\ hotDir' = [hotDir EXCEPT !.journal = j]
      /\ hotDir' \in HotDirs /\ Good(hotDir', segDir, rows) => PairsOK'
  BY <1>1, <1>2, HotChanges, PutHot DEF IndInv
<1>4. /\ hotDir' \in HotDirs /\ hotDir'.journal = j
      /\ hotDir'.hot = hotDir.hot /\ hotDir'.rollback = hotDir.rollback /\ hotDir'.staged = hotDir.staged
  BY <1>2, <1>3 DEF HotDirs
<1>5. j # Absent
  BY ContentsAssumption
<1> QED
  BY <1>1, <1>3, <1>4, <1>5 DEF IndInv, BoundsOK

\* The rollback copy of the hot database is durable.
LEMMA SyncCopyStep ==
    ASSUME Ordered, IndInv, SyncCopy
    PROVE  IndInv'
<1>1. pc = "syncCopy" /\ pc' = "createCatalogCopy" /\ SyncHot /\ rows' = rows /\ cut' = cut /\ faults' = faults
  BY DEF SyncCopy, At, Goto
<1>2. MayOK' /\ PairsOK' /\ hotDir' = hotDir /\ segDir' = segDir
  BY <1>1, Syncs DEF IndInv
<1>3. Ready("syncCopy")
  BY <1>1 DEF IndInv, PcOK
<1>4. Ready("createCatalogCopy")
  BY <1>3 DEF Ready
<1>5. Ready("createCatalogCopy")'
  BY <1>1, <1>2, <1>4, ReadyStays
<1> QED
  BY <1>1, <1>2, <1>5 DEF IndInv, PcOK, BoundsOK

\* The rollback copy of the catalog is created.
LEMMA CreateCatalogCopyStep ==
    ASSUME Ordered, IndInv, CreateCatalogCopy
    PROVE  IndInv'
<1>1. /\ pc = "createCatalogCopy" /\ pc' = "copyCatalog" /\ ChangeSeg([rollback |-> Torn])
      /\ rows' = rows /\ cut' = cut /\ faults' = faults
  BY DEF CreateCatalogCopy, At, Goto
<1>2. hotDir \in HotDirs /\ segDir \in SegDirs /\ Good(hotDir, segDir, rows)
  BY Here DEF IndInv
<1>3. Ready("createCatalogCopy")
  BY <1>1 DEF IndInv, PcOK
<1>4. /\ MayOK' /\ hotDir' = hotDir /\ segDir' = [segDir EXCEPT !.rollback = Torn]
      /\ segDir' \in SegDirs /\ Good(hotDir, segDir', rows) => PairsOK'
  BY <1>1, <1>2, SegChanges, PutSeg DEF IndInv
<1>5. /\ segDir'.catalog = segDir.catalog /\ segDir'.rollback = Torn /\ segDir'.staged = segDir.staged
      /\ segDir'.tmp = segDir.tmp /\ segDir'.segs = segDir.segs
  BY <1>2, <1>4 DEF SegDirs
<1>6. segDir' \in SegDirs
  BY <1>2, <1>4 DEF SegDirs
<1>7. Good(hotDir, segDir', rows)
  BY <1>2, <1>3, <1>5, GoodOpen DEF Ready, Open, jn
<1>8. Ready("copyCatalog")'
  BY <1>1, <1>2, <1>3, <1>4, <1>5, TypedHere
     DEF IndInv, SegDirs, Ready, Open, Source, Replaced, Chosen, Named, Copied, jn, PriorKept,
         CandidateLive, RollbacksMatch, Terminal, Below, Good, GoodJournal
<1> QED
  BY <1>1, <1>4, <1>6, <1>7, <1>8 DEF IndInv, PcOK, BoundsOK

\* The rollback copy of the catalog is durable.
LEMMA SyncCatalogCopyStep ==
    ASSUME Ordered, IndInv, SyncCatalogCopy
    PROVE  IndInv'
<1>1. pc = "syncCatalogCopy" /\ pc' = "prepare" /\ SyncSeg /\ rows' = rows /\ cut' = cut /\ faults' = faults
  BY DEF SyncCatalogCopy, At, Goto
<1>2. MayOK' /\ PairsOK' /\ hotDir' = hotDir /\ segDir' = segDir
  BY <1>1, Syncs DEF IndInv
<1>3. Ready("syncCatalogCopy")
  BY <1>1 DEF IndInv, PcOK
<1>4. Ready("prepare")
  BY <1>3 DEF Ready
<1>5. Ready("prepare")'
  BY <1>1, <1>2, <1>4, ReadyStays
<1> QED
  BY <1>1, <1>2, <1>5 DEF IndInv, PcOK, BoundsOK

\* The journal of a rotation is put in place.
LEMMA PrepareStep ==
    ASSUME Ordered, IndInv, Prepare
    PROVE  IndInv'
<1> DEFINE j == [phase |-> "prepared", gen |-> Len(segDir.catalog) + 1,
               source |-> hotDir.hot, catalog |-> segDir.catalog,
               segment |-> Absent, staged |-> Absent, candidate |-> Absent]
<1>1. PutJournal("prepare", j, "seal")
  BY Zenon DEF Prepare
<1>2. hotDir \in HotDirs /\ segDir \in SegDirs /\ Good(hotDir, segDir, rows)
  BY Here DEF IndInv
<1>3. Ready("prepare")
  BY <1>1 DEF IndInv, PcOK, PutJournal, At
<1>4. j \in Journals
  <2>1. segDir.catalog \in Catalogs /\ hotDir.hot \in RowSets /\ Len(segDir.catalog) < MaxGenerations
    BY <1>2, <1>3 DEF SegDirs, HotDirs, Ready
  <2>2. Len(segDir.catalog) + 1 \in Generations
    BY <2>1, CatalogGrows DEF RowSets
  <2> QED
    BY <2>1, <2>2 DEF Journals, Phases
<1>5. /\ j.phase = "prepared" /\ j.gen = Len(segDir.catalog) + 1 /\ j.source = hotDir.hot /\ j.catalog = segDir.catalog
      /\ j.segment = Absent /\ j.staged = Absent /\ j.candidate = Absent
  BY <1>2, <1>3, <1>4
     DEF Ready, Open, Source, Replaced, Chosen, Named, Copied, jn, PriorKept, CandidateLive,
         RollbacksMatch, Terminal, Below, Journals, HotDirs
<1> HIDE DEF j
<1>6. /\ MayOK' /\ BoundsOK' /\ segDir' = segDir /\ hotDir' \in HotDirs /\ hotDir'.journal = j /\ j # Absent
      /\ hotDir'.hot = hotDir.hot /\ hotDir'.rollback = hotDir.rollback /\ hotDir'.staged = hotDir.staged
      /\ Good(hotDir', segDir, rows) => PairsOK'
      /\ pc' = "syncJournal" /\ then' = "seal" /\ rows' = rows /\ cut' = cut
  BY <1>1, <1>4, JournalPut
<1>7. GoodJournal(j, rows)
  BY <1>2, <1>3, <1>5, TypedHere
     DEF Good, GoodJournal, Ready, Open, Source, Replaced, Chosen, Named, Copied, jn, PriorKept,
         CandidateLive, RollbacksMatch, Terminal, Below
<1>8. Evidence(hotDir', segDir) /\ (PriorKept(hotDir', segDir))
  BY <1>2, <1>3, <1>5, <1>6, TypedHere
     DEF IndInv, Good, GoodJournal, Evidence, Ready, Open, Source, Replaced, Chosen, Named, Copied,
         jn, PriorKept, CandidateLive, RollbacksMatch, Terminal, Below
<1>9. Good(hotDir', segDir, rows)
  BY <1>2, <1>6, <1>7, <1>8 DEF Good
<1>10. Ready("seal")'
  BY <1>2, <1>3, <1>5, <1>6, TypedHere
     DEF IndInv, Ready, Open, Source, Replaced, Chosen, Named, Copied, jn, PriorKept, CandidateLive,
         RollbacksMatch, Terminal, Below, Good, GoodJournal
<1> QED
  BY <1>6, <1>9, <1>10 DEF IndInv, PcOK

\* The temporary file of the segment is created.
LEMMA SealStep ==
    ASSUME Ordered, IndInv, Seal
    PROVE  IndInv'
<1>1. pc = "seal" /\ pc' = "fillSegment" /\ ChangeSeg([tmp |-> Torn]) /\ rows' = rows /\ cut' = cut /\ faults' = faults
  BY DEF Seal, At, Goto
<1>2. hotDir \in HotDirs /\ segDir \in SegDirs /\ Good(hotDir, segDir, rows)
  BY Here DEF IndInv
<1>3. Ready("seal")
  BY <1>1 DEF IndInv, PcOK
<1>4. /\ MayOK' /\ hotDir' = hotDir /\ segDir' = [segDir EXCEPT !.tmp = Torn]
      /\ segDir' \in SegDirs /\ Good(hotDir, segDir', rows) => PairsOK'
  BY <1>1, <1>2, SegChanges, PutSeg DEF IndInv
<1>5. /\ segDir'.catalog = segDir.catalog /\ segDir'.rollback = segDir.rollback /\ segDir'.staged = segDir.staged
      /\ segDir'.tmp = Torn /\ segDir'.segs = segDir.segs
  BY <1>2, <1>4 DEF SegDirs
<1>6. segDir' \in SegDirs
  BY <1>2, <1>4 DEF SegDirs, Contents
<1>7. Good(hotDir, segDir', rows)
  BY <1>2, <1>3, <1>5
     DEF Good, GoodJournal, CatalogVerified, Evidence, RollbacksMatch, Terminal, PriorKept,
         CandidateLive, Ready, Source, Copied, jn
<1>8. Ready("fillSegment")'
  BY <1>1, <1>2, <1>3, <1>4, <1>5, TypedHere
     DEF IndInv, SegDirs, Ready, Open, Source, Replaced, Chosen, Named, Copied, jn, PriorKept,
         CandidateLive, RollbacksMatch, Terminal, Below, Good, GoodJournal
<1> QED
  BY <1>1, <1>4, <1>6, <1>7, <1>8 DEF IndInv, PcOK, BoundsOK

\* The journal records the segment.
LEMMA RecordSegmentStep ==
    ASSUME Ordered, IndInv, RecordSegment
    PROVE  IndInv'
<1> DEFINE j == [hotDir.journal EXCEPT !.segment = segDir.tmp]
<1>1. PutJournal("recordSegment", j, "linkSegment")
  BY Zenon DEF RecordSegment
<1>2. hotDir \in HotDirs /\ segDir \in SegDirs /\ Good(hotDir, segDir, rows)
  BY Here DEF IndInv
<1>3. Ready("recordSegment")
  BY <1>1 DEF IndInv, PcOK, PutJournal, At
<1>4. j \in Journals
  BY <1>2, <1>3
     DEF HotDirs, Journals, Phases, Ready, Open, Source, Replaced, Chosen, Named, Copied, jn,
         PriorKept, CandidateLive, RollbacksMatch, Terminal, Below, RowSets
<1>5. /\ j.phase = jn.phase /\ j.gen = jn.gen /\ j.source = jn.source /\ j.catalog = jn.catalog
      /\ j.segment = segDir.tmp /\ j.staged = jn.staged /\ j.candidate = jn.candidate
  BY <1>2, <1>3, <1>4
     DEF Ready, Open, Source, Replaced, Chosen, Named, Copied, jn, PriorKept, CandidateLive,
         RollbacksMatch, Terminal, Below, Journals, HotDirs
<1> HIDE DEF j
<1>6. /\ MayOK' /\ BoundsOK' /\ segDir' = segDir /\ hotDir' \in HotDirs /\ hotDir'.journal = j /\ j # Absent
      /\ hotDir'.hot = hotDir.hot /\ hotDir'.rollback = hotDir.rollback /\ hotDir'.staged = hotDir.staged
      /\ Good(hotDir', segDir, rows) => PairsOK'
      /\ pc' = "syncJournal" /\ then' = "linkSegment" /\ rows' = rows /\ cut' = cut
  BY <1>1, <1>4, JournalPut
<1>7. GoodJournal(j, rows)
  BY <1>2, <1>3, <1>5, SealedHere
     DEF Good, GoodJournal, Ready, Open, Source, Replaced, Chosen, Named, Copied, jn, PriorKept,
         CandidateLive, RollbacksMatch, Terminal, Below
<1>8. Evidence(hotDir', segDir) /\ (PriorKept(hotDir', segDir))
  BY <1>2, <1>3, <1>5, <1>6, TypedHere
     DEF IndInv, Good, GoodJournal, Evidence, Ready, Open, Source, Replaced, Chosen, Named, Copied,
         jn, PriorKept, CandidateLive, RollbacksMatch, Terminal, Below
<1>9. Good(hotDir', segDir, rows)
  BY <1>2, <1>6, <1>7, <1>8 DEF Good
<1>10. Ready("linkSegment")'
  BY <1>2, <1>3, <1>5, <1>6, TypedHere
     DEF IndInv, Ready, Open, Source, Replaced, Chosen, Named, Copied, jn, PriorKept, CandidateLive,
         RollbacksMatch, Terminal, Below, Good, GoodJournal
<1> QED
  BY <1>6, <1>9, <1>10 DEF IndInv, PcOK

\* The segment gets its name.
LEMMA LinkSegmentStep ==
    ASSUME Ordered, IndInv, LinkSegment
    PROVE  IndInv'
<1> DEFINE v == [segDir.segs EXCEPT ![hotDir.journal.gen] = segDir.tmp]
<1>1. /\ pc = "linkSegment" /\ pc' = "unlinkSegment" /\ ChangeSeg([segs |-> v])
      /\ rows' = rows /\ cut' = cut /\ faults' = faults
  BY DEF LinkSegment, At, Goto, Segment
<1> HIDE DEF v
<1>2. hotDir \in HotDirs /\ segDir \in SegDirs /\ Good(hotDir, segDir, rows)
  BY Here DEF IndInv
<1>3. Ready("linkSegment")
  BY <1>1 DEF IndInv, PcOK
<1>4. /\ MayOK' /\ hotDir' = hotDir /\ segDir' = [segDir EXCEPT !.segs = v]
      /\ segDir' \in SegDirs /\ Good(hotDir, segDir', rows) => PairsOK'
  BY <1>1, <1>2, SegChanges, PutSeg DEF IndInv
<1>5. /\ segDir'.catalog = segDir.catalog /\ segDir'.rollback = segDir.rollback /\ segDir'.staged = segDir.staged
      /\ segDir'.tmp = segDir.tmp /\ segDir'.segs = v
  BY <1>2, <1>4 DEF SegDirs
<1>6. segDir' \in SegDirs
  BY <1>2, <1>3, <1>4, TypedHere
     DEF v, IndInv, SegDirs, Ready, Open, Source, Replaced, Chosen, Named, Copied, jn, PriorKept,
         CandidateLive, RollbacksMatch, Terminal, Below
<1>7. Good(hotDir, segDir', rows)
  BY <1>2, <1>3, <1>5, GoodLinked
     DEF v, IndInv, Ready, Open, Source, Replaced, Chosen, Named, Copied, jn, PriorKept,
         CandidateLive, RollbacksMatch, Terminal, Below
<1>9. v[jn.gen] = segDir.tmp
  BY <1>2, <1>3, TypedHere DEF v, IndInv, SegDirs, Ready, Source, jn
<1>10. jn.segment # Absent
  <2>1. jn.segment = Below(jn.source) /\ jn.source \in RowSets
    BY <1>3, TypedHere DEF IndInv, Ready, Source, jn
  <2>2. Below(jn.source) \in RowSets
    BY <2>1 DEF Below, RowSets
  <2> QED
    BY <2>1, <2>2, ContentsAssumption
<1>8. Ready("unlinkSegment")'
  BY <1>1, <1>2, <1>3, <1>4, <1>5, <1>9, <1>10
     DEF Ready, Source, Named, Copied, jn, PriorKept, RollbacksMatch, Terminal, Below, Good,
         GoodJournal
<1> QED
  BY <1>1, <1>4, <1>6, <1>7, <1>8 DEF IndInv, PcOK, BoundsOK

\* The temporary name goes.
LEMMA UnlinkSegmentStep ==
    ASSUME Ordered, IndInv, UnlinkSegment
    PROVE  IndInv'
<1>1. /\ pc = "unlinkSegment" /\ pc' = "syncSegment" /\ ChangeSeg([tmp |-> Absent])
      /\ rows' = rows /\ cut' = cut /\ faults' = faults
  BY DEF UnlinkSegment, At, Goto
<1>2. hotDir \in HotDirs /\ segDir \in SegDirs /\ Good(hotDir, segDir, rows)
  BY Here DEF IndInv
<1>3. Ready("unlinkSegment")
  BY <1>1 DEF IndInv, PcOK
<1>4. /\ MayOK' /\ hotDir' = hotDir /\ segDir' = [segDir EXCEPT !.tmp = Absent]
      /\ segDir' \in SegDirs /\ Good(hotDir, segDir', rows) => PairsOK'
  BY <1>1, <1>2, SegChanges, PutSeg DEF IndInv
<1>5. /\ segDir'.catalog = segDir.catalog /\ segDir'.rollback = segDir.rollback /\ segDir'.staged = segDir.staged
      /\ segDir'.tmp = Absent /\ segDir'.segs = segDir.segs
  BY <1>2, <1>4 DEF SegDirs
<1>6. segDir' \in SegDirs
  BY <1>2, <1>4 DEF SegDirs, Contents
<1>7. Good(hotDir, segDir', rows)
  BY <1>2, <1>5, GoodAlike
<1>8. Ready("syncSegment")'
  BY <1>1, <1>2, <1>3, <1>4, <1>5, TypedHere
     DEF IndInv, SegDirs, Ready, Open, Source, Replaced, Chosen, Named, Copied, jn, PriorKept,
         CandidateLive, RollbacksMatch, Terminal, Below, Good, GoodJournal
<1> QED
  BY <1>1, <1>4, <1>6, <1>7, <1>8 DEF IndInv, PcOK, BoundsOK

\* The segment is durable.
LEMMA SyncSegmentStep ==
    ASSUME Ordered, IndInv, SyncSegment
    PROVE  IndInv'
<1>1. pc = "syncSegment" /\ pc' = "segmentPublished" /\ SyncSeg /\ rows' = rows /\ cut' = cut /\ faults' = faults
  BY DEF SyncSegment, At, Goto
<1>2. MayOK' /\ PairsOK' /\ hotDir' = hotDir /\ segDir' = segDir
  BY <1>1, Syncs DEF IndInv
<1>3. Ready("syncSegment")
  BY <1>1 DEF IndInv, PcOK
<1>4. Ready("segmentPublished")
  BY <1>3 DEF Ready
<1>5. Ready("segmentPublished")'
  BY <1>1, <1>2, <1>4, ReadyStays
<1> QED
  BY <1>1, <1>2, <1>5 DEF IndInv, PcOK, BoundsOK

\* The journal says that the segment is published.
LEMMA SegmentPublishedStep ==
    ASSUME Ordered, IndInv, SegmentPublished
    PROVE  IndInv'
<1> DEFINE j == [hotDir.journal EXCEPT !.phase = "segment-published"]
<1>1. PutJournal("segmentPublished", j, "stageHot")
  BY Zenon DEF SegmentPublished, WithPhase
<1>2. hotDir \in HotDirs /\ segDir \in SegDirs /\ Good(hotDir, segDir, rows)
  BY Here DEF IndInv
<1>3. Ready("segmentPublished")
  BY <1>1 DEF IndInv, PcOK, PutJournal, At
<1>4. j \in Journals
  BY <1>2, <1>3
     DEF HotDirs, Journals, Phases, Ready, Open, Source, Replaced, Chosen, Named, Copied, jn,
         PriorKept, CandidateLive, RollbacksMatch, Terminal, Below
<1>5. /\ j.phase = "segment-published" /\ j.gen = jn.gen /\ j.source = jn.source /\ j.catalog = jn.catalog
      /\ j.segment = jn.segment /\ j.staged = jn.staged /\ j.candidate = jn.candidate
  BY <1>2, <1>3, <1>4
     DEF Ready, Open, Source, Replaced, Chosen, Named, Copied, jn, PriorKept, CandidateLive,
         RollbacksMatch, Terminal, Below, Journals, HotDirs
<1> HIDE DEF j
<1>6. /\ MayOK' /\ BoundsOK' /\ segDir' = segDir /\ hotDir' \in HotDirs /\ hotDir'.journal = j /\ j # Absent
      /\ hotDir'.hot = hotDir.hot /\ hotDir'.rollback = hotDir.rollback /\ hotDir'.staged = hotDir.staged
      /\ Good(hotDir', segDir, rows) => PairsOK'
      /\ pc' = "syncJournal" /\ then' = "stageHot" /\ rows' = rows /\ cut' = cut
  BY <1>1, <1>4, JournalPut
<1>7. GoodJournal(j, rows)
  BY <1>2, <1>3, <1>5
     DEF Good, GoodJournal, Ready, Open, Source, Replaced, Chosen, Named, Copied, jn, PriorKept,
         CandidateLive, RollbacksMatch, Terminal, Below
<1>8. Evidence(hotDir', segDir) /\ (PriorKept(hotDir', segDir))
  BY <1>2, <1>3, <1>5, <1>6, TypedHere
     DEF IndInv, Good, GoodJournal, Evidence, Ready, Open, Source, Replaced, Chosen, Named, Copied,
         jn, PriorKept, CandidateLive, RollbacksMatch, Terminal, Below
<1>9. Good(hotDir', segDir, rows)
  BY <1>2, <1>6, <1>7, <1>8 DEF Good
<1>10. Ready("stageHot")'
  BY <1>2, <1>3, <1>5, <1>6, TypedHere
     DEF IndInv, Ready, Open, Source, Replaced, Chosen, Named, Copied, jn, PriorKept, CandidateLive,
         RollbacksMatch, Terminal, Below, Good, GoodJournal
<1> QED
  BY <1>6, <1>9, <1>10 DEF IndInv, PcOK

\* The new hot database is created.
LEMMA StageHotStep ==
    ASSUME Ordered, IndInv, StageHot
    PROVE  IndInv'
<1>1. /\ pc = "stageHot" /\ pc' = "fillHot" /\ ChangeHot([staged |-> Torn])
      /\ rows' = rows /\ cut' = cut /\ faults' = faults
  BY DEF StageHot, At, Goto
<1>2. hotDir \in HotDirs /\ segDir \in SegDirs /\ Good(hotDir, segDir, rows)
  BY Here DEF IndInv
<1>3. Ready("stageHot")
  BY <1>1 DEF IndInv, PcOK
<1>4. /\ MayOK' /\ segDir' = segDir /\ hotDir' = [hotDir EXCEPT !.staged = Torn]
      /\ hotDir' \in HotDirs /\ Good(hotDir', segDir, rows) => PairsOK'
  BY <1>1, <1>2, HotChanges, PutHot DEF IndInv
<1>5. /\ hotDir'.hot = hotDir.hot /\ hotDir'.rollback = hotDir.rollback /\ hotDir'.staged = Torn
      /\ hotDir'.journal = hotDir.journal
  BY <1>2, <1>4 DEF HotDirs
<1>6. hotDir' \in HotDirs
  BY <1>2, <1>4 DEF HotDirs, Contents
<1>7. Good(hotDir', segDir, rows)
  BY <1>2, <1>5, GoodAlike
<1>8. Ready("fillHot")'
  BY <1>1, <1>2, <1>3, <1>4, <1>5, ContentsAssumption
     DEF Ready, Open, Source, Replaced, Chosen, Named, Copied, jn, PriorKept, CandidateLive,
         RollbacksMatch, Terminal, Below, Good, GoodJournal
<1> QED
  BY <1>1, <1>4, <1>6, <1>7, <1>8 DEF IndInv, PcOK, BoundsOK

\* The journal records the new hot database.
LEMMA RecordHotStep ==
    ASSUME Ordered, IndInv, RecordHot
    PROVE  IndInv'
<1> DEFINE j == [hotDir.journal EXCEPT !.staged = hotDir.staged]
<1>1. PutJournal("recordHot", j, "stageCatalog")
  BY Zenon DEF RecordHot
<1>2. hotDir \in HotDirs /\ segDir \in SegDirs /\ Good(hotDir, segDir, rows)
  BY Here DEF IndInv
<1>3. Ready("recordHot")
  BY <1>1 DEF IndInv, PcOK, PutJournal, At
<1>4. j \in Journals
  BY <1>2, <1>3
     DEF HotDirs, Journals, Phases, Ready, Open, Source, Replaced, Chosen, Named, Copied, jn,
         PriorKept, CandidateLive, RollbacksMatch, Terminal, Below, RowSets
<1>5. /\ j.phase = jn.phase /\ j.gen = jn.gen /\ j.source = jn.source /\ j.catalog = jn.catalog
      /\ j.segment = jn.segment /\ j.staged = hotDir.staged /\ j.candidate = jn.candidate
  BY <1>2, <1>3, <1>4
     DEF Ready, Open, Source, Replaced, Chosen, Named, Copied, jn, PriorKept, CandidateLive,
         RollbacksMatch, Terminal, Below, Journals, HotDirs
<1> HIDE DEF j
<1>6. /\ MayOK' /\ BoundsOK' /\ segDir' = segDir /\ hotDir' \in HotDirs /\ hotDir'.journal = j /\ j # Absent
      /\ hotDir'.hot = hotDir.hot /\ hotDir'.rollback = hotDir.rollback /\ hotDir'.staged = hotDir.staged
      /\ Good(hotDir', segDir, rows) => PairsOK'
      /\ pc' = "syncJournal" /\ then' = "stageCatalog" /\ rows' = rows /\ cut' = cut
  BY <1>1, <1>4, JournalPut
<1>7. GoodJournal(j, rows)
  BY <1>2, <1>3, <1>5
     DEF Good, GoodJournal, Ready, Open, Source, Replaced, Chosen, Named, Copied, jn, PriorKept,
         CandidateLive, RollbacksMatch, Terminal, Below
<1>8. Evidence(hotDir', segDir) /\ (PriorKept(hotDir', segDir))
  BY <1>2, <1>3, <1>5, <1>6, TypedHere
     DEF IndInv, Good, GoodJournal, Evidence, Ready, Open, Source, Replaced, Chosen, Named, Copied,
         jn, PriorKept, CandidateLive, RollbacksMatch, Terminal, Below
<1>9. Good(hotDir', segDir, rows)
  BY <1>2, <1>6, <1>7, <1>8 DEF Good
<1>10. Ready("stageCatalog")'
  BY <1>2, <1>3, <1>5, <1>6, TypedHere
     DEF IndInv, Ready, Open, Source, Replaced, Chosen, Named, Copied, jn, PriorKept, CandidateLive,
         RollbacksMatch, Terminal, Below, Good, GoodJournal
<1> QED
  BY <1>6, <1>9, <1>10 DEF IndInv, PcOK

\* The new catalog is staged.
LEMMA StageCatalogStep ==
    ASSUME Ordered, IndInv, StageCatalog
    PROVE  IndInv'
<1> DEFINE v == Append(segDir.catalog, hotDir.journal.segment)
<1>1. /\ pc = "stageCatalog" /\ pc' = "hotStaged" /\ ChangeSeg([staged |-> v])
      /\ rows' = rows /\ cut' = cut /\ faults' = faults
  BY DEF StageCatalog, At, Goto
<1> HIDE DEF v
<1>2. hotDir \in HotDirs /\ segDir \in SegDirs /\ Good(hotDir, segDir, rows)
  BY Here DEF IndInv
<1>3. Ready("stageCatalog")
  BY <1>1 DEF IndInv, PcOK
<1>4. /\ MayOK' /\ hotDir' = hotDir /\ segDir' = [segDir EXCEPT !.staged = v]
      /\ segDir' \in SegDirs /\ Good(hotDir, segDir', rows) => PairsOK'
  BY <1>1, <1>2, SegChanges, PutSeg DEF IndInv
<1>5. /\ segDir'.catalog = segDir.catalog /\ segDir'.rollback = segDir.rollback /\ segDir'.staged = v
      /\ segDir'.tmp = segDir.tmp /\ segDir'.segs = segDir.segs
  BY <1>2, <1>4 DEF SegDirs
<1>6. segDir' \in SegDirs
  <2>1. v \in Catalogs
    BY <1>3, CatalogGrows, TypedHere
       DEF v, IndInv, Ready, Open, Source, Replaced, Chosen, Named, Copied, jn, PriorKept,
           CandidateLive, RollbacksMatch, Terminal, Below
  <2> QED
    BY <1>2, <1>4, <2>1 DEF SegDirs
<1>7. Good(hotDir, segDir', rows)
  BY <1>2, <1>5, GoodAlike
<1>8. Ready("hotStaged")'
  BY <1>1, <1>2, <1>3, <1>4, <1>5, TypedHere
     DEF v, IndInv, SegDirs, Ready, Open, Source, Replaced, Chosen, Named, Copied, jn, PriorKept,
         CandidateLive, RollbacksMatch, Terminal, Below, Good, GoodJournal
<1> QED
  BY <1>1, <1>4, <1>6, <1>7, <1>8 DEF IndInv, PcOK, BoundsOK

\* The journal records the new catalog.
LEMMA HotStagedStep ==
    ASSUME Ordered, IndInv, HotStaged
    PROVE  IndInv'
<1> DEFINE j == [hotDir.journal EXCEPT !.phase = "hot-staged", !.candidate = segDir.staged]
<1>1. PutJournal("hotStaged", j, "replaceHot")
  BY Zenon DEF HotStaged, WithPhase
<1>2. hotDir \in HotDirs /\ segDir \in SegDirs /\ Good(hotDir, segDir, rows)
  BY Here DEF IndInv
<1>3. Ready("hotStaged")
  BY <1>1 DEF IndInv, PcOK, PutJournal, At
<1>11. /\ segDir.staged = Append(jn.catalog, jn.segment) /\ jn.segment # Absent /\ jn.staged # Absent /\ jn # Absent
       /\ GoodJournal(jn, rows)
  BY <1>2, <1>3 DEF Ready, Source, Good, jn
<1>12. jn \in Journals /\ jn.catalog \in Catalogs /\ jn.segment \in RowSets /\ Len(jn.catalog) < MaxGenerations
  BY <1>11, TypedHere DEF IndInv, jn
<1>13. segDir.staged \in Catalogs
  BY <1>11, <1>12, CatalogGrows
<1>4. j \in Journals
  BY <1>12, <1>13 DEF jn, Journals, Phases
<1>5. /\ j.phase = "hot-staged" /\ j.gen = jn.gen /\ j.source = jn.source /\ j.catalog = jn.catalog
      /\ j.segment = jn.segment /\ j.staged = jn.staged /\ j.candidate = segDir.staged
  BY <1>2, <1>3, <1>4
     DEF Ready, Open, Source, Replaced, Chosen, Named, Copied, jn, PriorKept, CandidateLive,
         RollbacksMatch, Terminal, Below, Journals, HotDirs
<1> HIDE DEF j
<1>6. /\ MayOK' /\ BoundsOK' /\ segDir' = segDir /\ hotDir' \in HotDirs /\ hotDir'.journal = j /\ j # Absent
      /\ hotDir'.hot = hotDir.hot /\ hotDir'.rollback = hotDir.rollback /\ hotDir'.staged = hotDir.staged
      /\ Good(hotDir', segDir, rows) => PairsOK'
      /\ pc' = "syncJournal" /\ then' = "replaceHot" /\ rows' = rows /\ cut' = cut
  BY <1>1, <1>4, JournalPut
<1>7. GoodJournal(j, rows)
  <2>1. /\ History(j.source, j.catalog, rows) /\ j.gen = Len(j.catalog) + 1
        /\ Sealed(j.source, j.segment) /\ j.staged = j.source \ j.segment
    BY <1>5, <1>11 DEF GoodJournal
  <2>2. j.candidate = Append(j.catalog, j.segment) /\ j.segment # Absent /\ j.staged # Absent /\ j.candidate # Absent
    BY <1>5, <1>11, <1>13, ContentsAssumption
  <2> QED
    BY <1>5, <2>1, <2>2 DEF GoodJournal
<1>8. Evidence(hotDir', segDir) /\ (PriorKept(hotDir', segDir))
  BY <1>2, <1>3, <1>5, <1>6, TypedHere
     DEF IndInv, Good, GoodJournal, Evidence, Ready, Open, Source, Replaced, Chosen, Named, Copied,
         jn, PriorKept, CandidateLive, RollbacksMatch, Terminal, Below
<1>9. Good(hotDir', segDir, rows)
  BY <1>2, <1>6, <1>7, <1>8 DEF Good
<1>10. Ready("replaceHot")'
  BY <1>2, <1>3, <1>5, <1>6, TypedHere
     DEF IndInv, Ready, Open, Source, Replaced, Chosen, Named, Copied, jn, PriorKept, CandidateLive,
         RollbacksMatch, Terminal, Below, Good, GoodJournal
<1> QED
  BY <1>6, <1>9, <1>10 DEF IndInv, PcOK

\* The new hot database is durable.
LEMMA SyncReplacedHotStep ==
    ASSUME Ordered, IndInv, SyncReplacedHot
    PROVE  IndInv'
<1>1. pc = "syncHot" /\ pc' = "hotReplaced" /\ SyncHot /\ rows' = rows /\ cut' = cut /\ faults' = faults
  BY DEF SyncReplacedHot, At, Goto
<1>2. MayOK' /\ PairsOK' /\ hotDir' = hotDir /\ segDir' = segDir
  BY <1>1, Syncs DEF IndInv
<1>3. Ready("syncHot")
  BY <1>1 DEF IndInv, PcOK
<1>4. Ready("hotReplaced")
  BY <1>3 DEF Ready
<1>5. Ready("hotReplaced")'
  BY <1>1, <1>2, <1>4, ReadyStays
<1> QED
  BY <1>1, <1>2, <1>5 DEF IndInv, PcOK, BoundsOK

\* The journal says that the hot database is replaced.
LEMMA HotReplacedStep ==
    ASSUME Ordered, IndInv, HotReplaced
    PROVE  IndInv'
<1> DEFINE j == [hotDir.journal EXCEPT !.phase = "hot-replaced"]
<1>1. PutJournal("hotReplaced", j, "replaceCatalog")
  BY Zenon DEF HotReplaced, WithPhase
<1>2. hotDir \in HotDirs /\ segDir \in SegDirs /\ Good(hotDir, segDir, rows)
  BY Here DEF IndInv
<1>3. Ready("hotReplaced")
  BY <1>1 DEF IndInv, PcOK, PutJournal, At
<1>4. j \in Journals
  BY <1>2, <1>3
     DEF HotDirs, Journals, Phases, Ready, Open, Source, Replaced, Chosen, Named, Copied, jn,
         PriorKept, CandidateLive, RollbacksMatch, Terminal, Below
<1>5. /\ j.phase = "hot-replaced" /\ j.gen = jn.gen /\ j.source = jn.source /\ j.catalog = jn.catalog
      /\ j.segment = jn.segment /\ j.staged = jn.staged /\ j.candidate = jn.candidate
  BY <1>2, <1>3, <1>4
     DEF Ready, Open, Source, Replaced, Chosen, Named, Copied, jn, PriorKept, CandidateLive,
         RollbacksMatch, Terminal, Below, Journals, HotDirs
<1> HIDE DEF j
<1>6. /\ MayOK' /\ BoundsOK' /\ segDir' = segDir /\ hotDir' \in HotDirs /\ hotDir'.journal = j /\ j # Absent
      /\ hotDir'.hot = hotDir.hot /\ hotDir'.rollback = hotDir.rollback /\ hotDir'.staged = hotDir.staged
      /\ Good(hotDir', segDir, rows) => PairsOK'
      /\ pc' = "syncJournal" /\ then' = "replaceCatalog" /\ rows' = rows /\ cut' = cut
  BY <1>1, <1>4, JournalPut
<1>7. GoodJournal(j, rows)
  BY <1>2, <1>3, <1>5
     DEF Good, GoodJournal, Ready, Open, Source, Replaced, Chosen, Named, Copied, jn, PriorKept,
         CandidateLive, RollbacksMatch, Terminal, Below
<1>8. Evidence(hotDir', segDir) /\ (PriorKept(hotDir', segDir))
  BY <1>2, <1>3, <1>5, <1>6, TypedHere
     DEF IndInv, Good, GoodJournal, Evidence, Ready, Open, Source, Replaced, Chosen, Named, Copied,
         jn, PriorKept, CandidateLive, RollbacksMatch, Terminal, Below
<1>9. Good(hotDir', segDir, rows)
  BY <1>2, <1>6, <1>7, <1>8 DEF Good
<1>10. Ready("replaceCatalog")'
  BY <1>2, <1>3, <1>5, <1>6, TypedHere
     DEF IndInv, Ready, Open, Source, Replaced, Chosen, Named, Copied, jn, PriorKept, CandidateLive,
         RollbacksMatch, Terminal, Below, Good, GoodJournal
<1> QED
  BY <1>6, <1>9, <1>10 DEF IndInv, PcOK

\* The new catalog is durable.
LEMMA SyncReplacedCatalogStep ==
    ASSUME Ordered, IndInv, SyncReplacedCatalog
    PROVE  IndInv'
<1>1. pc = "syncCatalog" /\ pc' = "catalogReplaced" /\ SyncSeg /\ rows' = rows /\ cut' = cut /\ faults' = faults
  BY DEF SyncReplacedCatalog, At, Goto
<1>2. MayOK' /\ PairsOK' /\ hotDir' = hotDir /\ segDir' = segDir
  BY <1>1, Syncs DEF IndInv
<1>3. Ready("syncCatalog")
  BY <1>1 DEF IndInv, PcOK
<1>4. Ready("catalogReplaced")
  BY <1>3 DEF Ready
<1>5. Ready("catalogReplaced")'
  BY <1>1, <1>2, <1>4, ReadyStays
<1> QED
  BY <1>1, <1>2, <1>5 DEF IndInv, PcOK, BoundsOK

\* The journal says that the catalog is replaced.
LEMMA CatalogReplacedStep ==
    ASSUME Ordered, IndInv, CatalogReplaced
    PROVE  IndInv'
<1> DEFINE j == [hotDir.journal EXCEPT !.phase = "catalog-replaced"]
<1>1. PutJournal("catalogReplaced", j, "cleanup")
  BY Zenon DEF CatalogReplaced, WithPhase
<1>2. hotDir \in HotDirs /\ segDir \in SegDirs /\ Good(hotDir, segDir, rows)
  BY Here DEF IndInv
<1>3. Ready("catalogReplaced")
  BY <1>1 DEF IndInv, PcOK, PutJournal, At
<1>4. j \in Journals
  BY <1>2, <1>3
     DEF HotDirs, Journals, Phases, Ready, Open, Source, Replaced, Chosen, Named, Copied, jn,
         PriorKept, CandidateLive, RollbacksMatch, Terminal, Below
<1>5. /\ j.phase = "catalog-replaced" /\ j.gen = jn.gen /\ j.source = jn.source /\ j.catalog = jn.catalog
      /\ j.segment = jn.segment /\ j.staged = jn.staged /\ j.candidate = jn.candidate
  BY <1>2, <1>3, <1>4
     DEF Ready, Open, Source, Replaced, Chosen, Named, Copied, jn, PriorKept, CandidateLive,
         RollbacksMatch, Terminal, Below, Journals, HotDirs
<1> HIDE DEF j
<1>6. /\ MayOK' /\ BoundsOK' /\ segDir' = segDir /\ hotDir' \in HotDirs /\ hotDir'.journal = j /\ j # Absent
      /\ hotDir'.hot = hotDir.hot /\ hotDir'.rollback = hotDir.rollback /\ hotDir'.staged = hotDir.staged
      /\ Good(hotDir', segDir, rows) => PairsOK'
      /\ pc' = "syncJournal" /\ then' = "cleanup" /\ rows' = rows /\ cut' = cut
  BY <1>1, <1>4, JournalPut
<1>7. GoodJournal(j, rows)
  BY <1>2, <1>3, <1>5
     DEF Good, GoodJournal, Ready, Open, Source, Replaced, Chosen, Named, Copied, jn, PriorKept,
         CandidateLive, RollbacksMatch, Terminal, Below
<1>8. Evidence(hotDir', segDir) /\ (CandidateLive(hotDir', segDir))
  BY <1>2, <1>3, <1>5, <1>6, TypedHere
     DEF IndInv, Good, GoodJournal, Evidence, Ready, Open, Source, Replaced, Chosen, Named, Copied,
         jn, PriorKept, CandidateLive, RollbacksMatch, Terminal, Below
<1>9. Good(hotDir', segDir, rows)
  BY <1>2, <1>6, <1>7, <1>8 DEF Good
<1>10. Ready("cleanup")'
  BY <1>2, <1>3, <1>5, <1>6, TypedHere
     DEF IndInv, Ready, Open, Source, Replaced, Chosen, Named, Copied, jn, PriorKept, CandidateLive,
         RollbacksMatch, Terminal, Below, Good, GoodJournal
<1> QED
  BY <1>6, <1>9, <1>10 DEF IndInv, PcOK

\* The journal says that only cleanup is left.
LEMMA CleanupStep ==
    ASSUME Ordered, IndInv, Cleanup
    PROVE  IndInv'
<1> DEFINE j == [hotDir.journal EXCEPT !.phase = "cleanup"]
<1>1. PutJournal("cleanup", j, "retireRollbacks")
  BY Zenon DEF Cleanup, WithPhase
<1>2. hotDir \in HotDirs /\ segDir \in SegDirs /\ Good(hotDir, segDir, rows)
  BY Here DEF IndInv
<1>3. Ready("cleanup")
  BY <1>1 DEF IndInv, PcOK, PutJournal, At
<1>4. j \in Journals
  BY <1>2, <1>3
     DEF HotDirs, Journals, Phases, Ready, Open, Source, Replaced, Chosen, Named, Copied, jn,
         PriorKept, CandidateLive, RollbacksMatch, Terminal, Below
<1>5. /\ j.phase = "cleanup" /\ j.gen = jn.gen /\ j.source = jn.source /\ j.catalog = jn.catalog
      /\ j.segment = jn.segment /\ j.staged = jn.staged /\ j.candidate = jn.candidate
  BY <1>2, <1>3, <1>4
     DEF Ready, Open, Source, Replaced, Chosen, Named, Copied, jn, PriorKept, CandidateLive,
         RollbacksMatch, Terminal, Below, Journals, HotDirs
<1> HIDE DEF j
<1>6. /\ MayOK' /\ BoundsOK' /\ segDir' = segDir /\ hotDir' \in HotDirs /\ hotDir'.journal = j /\ j # Absent
      /\ hotDir'.hot = hotDir.hot /\ hotDir'.rollback = hotDir.rollback /\ hotDir'.staged = hotDir.staged
      /\ Good(hotDir', segDir, rows) => PairsOK'
      /\ pc' = "syncJournal" /\ then' = "retireRollbacks" /\ rows' = rows /\ cut' = cut
  BY <1>1, <1>4, JournalPut
<1>7. GoodJournal(j, rows)
  BY <1>2, <1>3, <1>5
     DEF Good, GoodJournal, Ready, Open, Source, Replaced, Chosen, Named, Copied, jn, PriorKept,
         CandidateLive, RollbacksMatch, Terminal, Below
<1>8. Evidence(hotDir', segDir) /\ (CandidateLive(hotDir', segDir))
  BY <1>2, <1>3, <1>5, <1>6, TypedHere
     DEF IndInv, Good, GoodJournal, Evidence, Ready, Open, Source, Replaced, Chosen, Named, Copied,
         jn, PriorKept, CandidateLive, RollbacksMatch, Terminal, Below
<1>9. Good(hotDir', segDir, rows)
  BY <1>2, <1>6, <1>7, <1>8 DEF Good
<1>10. Ready("retireRollbacks")'
  BY <1>2, <1>3, <1>5, <1>6, TypedHere
     DEF IndInv, Ready, Open, Source, Replaced, Chosen, Named, Copied, jn, PriorKept, CandidateLive,
         RollbacksMatch, Terminal, Below, Good, GoodJournal
<1> QED
  BY <1>6, <1>9, <1>10 DEF IndInv, PcOK

\* Recovery chooses the candidate.
LEMMA SelectCandidateStep ==
    ASSUME Ordered, IndInv, SelectCandidate
    PROVE  IndInv'
<1> DEFINE j == [hotDir.journal EXCEPT !.phase = "cleanup"]
<1>1. PutJournal("selectCandidate", j, "retireCandidate")
  BY Zenon DEF SelectCandidate, WithPhase
<1>2. hotDir \in HotDirs /\ segDir \in SegDirs /\ Good(hotDir, segDir, rows)
  BY Here DEF IndInv
<1>3. Ready("selectCandidate")
  BY <1>1 DEF IndInv, PcOK, PutJournal, At
<1>4. j \in Journals
  BY <1>2, <1>3
     DEF HotDirs, Journals, Phases, Ready, Open, Source, Replaced, Chosen, Named, Copied, jn,
         PriorKept, CandidateLive, RollbacksMatch, Terminal, Below
<1>5. /\ j.phase = "cleanup" /\ j.gen = jn.gen /\ j.source = jn.source /\ j.catalog = jn.catalog
      /\ j.segment = jn.segment /\ j.staged = jn.staged /\ j.candidate = jn.candidate
  BY <1>2, <1>3, <1>4
     DEF Ready, Open, Source, Replaced, Chosen, Named, Copied, jn, PriorKept, CandidateLive,
         RollbacksMatch, Terminal, Below, Journals, HotDirs
<1> HIDE DEF j
<1>6. /\ MayOK' /\ BoundsOK' /\ segDir' = segDir /\ hotDir' \in HotDirs /\ hotDir'.journal = j /\ j # Absent
      /\ hotDir'.hot = hotDir.hot /\ hotDir'.rollback = hotDir.rollback /\ hotDir'.staged = hotDir.staged
      /\ Good(hotDir', segDir, rows) => PairsOK'
      /\ pc' = "syncJournal" /\ then' = "retireCandidate" /\ rows' = rows /\ cut' = cut
  BY <1>1, <1>4, JournalPut
<1>7. GoodJournal(j, rows)
  BY <1>2, <1>3, <1>5
     DEF Good, GoodJournal, Ready, Open, Source, Replaced, Chosen, Named, Copied, jn, PriorKept,
         CandidateLive, RollbacksMatch, Terminal, Below
<1>8. Evidence(hotDir', segDir) /\ (CandidateLive(hotDir', segDir))
  BY <1>2, <1>3, <1>5, <1>6, TypedHere
     DEF IndInv, Good, GoodJournal, Evidence, Ready, Open, Source, Replaced, Chosen, Named, Copied,
         jn, PriorKept, CandidateLive, RollbacksMatch, Terminal, Below
<1>9. Good(hotDir', segDir, rows)
  BY <1>2, <1>6, <1>7, <1>8 DEF Good
<1>10. Ready("retireCandidate")'
  BY <1>2, <1>3, <1>5, <1>6, TypedHere
     DEF IndInv, Ready, Open, Source, Replaced, Chosen, Named, Copied, jn, PriorKept, CandidateLive,
         RollbacksMatch, Terminal, Below, Good, GoodJournal
<1> QED
  BY <1>6, <1>9, <1>10 DEF IndInv, PcOK

\* Recovery restores the hot database.
LEMMA RestoreHotStep ==
    ASSUME Ordered, IndInv, RestoreHot
    PROVE  IndInv'
<1>1. /\ pc = "restoreHot" /\ pc' = "syncRestored" /\ ChangeHot([hot |-> hotDir.rollback])
      /\ rows' = rows /\ cut' = cut /\ faults' = faults
  BY DEF RestoreHot, At, Goto
<1>2. hotDir \in HotDirs /\ segDir \in SegDirs /\ Good(hotDir, segDir, rows)
  BY Here DEF IndInv
<1>3. Ready("restoreHot")
  BY <1>1 DEF IndInv, PcOK
<1>4. /\ MayOK' /\ segDir' = segDir /\ hotDir' = [hotDir EXCEPT !.hot = hotDir.rollback]
      /\ hotDir' \in HotDirs /\ Good(hotDir', segDir, rows) => PairsOK'
  BY <1>1, <1>2, HotChanges, PutHot DEF IndInv
<1>5. /\ hotDir'.hot = hotDir.rollback /\ hotDir'.rollback = hotDir.rollback /\ hotDir'.staged = hotDir.staged
      /\ hotDir'.journal = hotDir.journal
  BY <1>2, <1>4 DEF HotDirs
<1>6. hotDir' \in HotDirs
  BY <1>2, <1>3, <1>4
     DEF HotDirs, Journals, Ready, Open, Source, Replaced, Chosen, Named, Copied, jn, PriorKept,
         CandidateLive, RollbacksMatch, Terminal, Below
<1>7. Good(hotDir', segDir, rows)
  BY <1>2, <1>3, <1>5
     DEF Good, GoodJournal, CatalogVerified, Evidence, RollbacksMatch, Terminal, PriorKept,
         CandidateLive, Ready, Replaced, Copied, jn
<1>8. Ready("syncRestored")'
  BY <1>1, <1>2, <1>3, <1>4, <1>5, ContentsAssumption
     DEF Ready, Open, Source, Replaced, Chosen, Named, Copied, jn, PriorKept, CandidateLive,
         RollbacksMatch, Terminal, Below, Good, GoodJournal
<1> QED
  BY <1>1, <1>4, <1>6, <1>7, <1>8 DEF IndInv, PcOK, BoundsOK

\* The restored hot database is durable.
LEMMA SyncRestoredStep ==
    ASSUME Ordered, IndInv, SyncRestored
    PROVE  IndInv'
<1>1. pc = "syncRestored" /\ pc' = "selectPrior" /\ SyncHot /\ rows' = rows /\ cut' = cut /\ faults' = faults
  BY DEF SyncRestored, At, Goto
<1>2. MayOK' /\ PairsOK' /\ hotDir' = hotDir /\ segDir' = segDir
  BY <1>1, Syncs DEF IndInv
<1>3. Ready("syncRestored")
  BY <1>1 DEF IndInv, PcOK
<1>4. Ready("selectPrior")
  BY <1>3 DEF Ready
<1>5. Ready("selectPrior")'
  BY <1>1, <1>2, <1>4, ReadyStays
<1> QED
  BY <1>1, <1>2, <1>5 DEF IndInv, PcOK, BoundsOK

\* Recovery chooses the prior generation.
LEMMA SelectPriorStep ==
    ASSUME Ordered, IndInv, SelectPrior
    PROVE  IndInv'
<1> DEFINE j == [hotDir.journal EXCEPT !.phase = "prior-restored"]
<1>1. PutJournal("selectPrior", j, "removeTemporary")
  BY Zenon DEF SelectPrior, WithPhase
<1>2. hotDir \in HotDirs /\ segDir \in SegDirs /\ Good(hotDir, segDir, rows)
  BY Here DEF IndInv
<1>3. Ready("selectPrior")
  BY <1>1 DEF IndInv, PcOK, PutJournal, At
<1>4. j \in Journals
  BY <1>2, <1>3
     DEF HotDirs, Journals, Phases, Ready, Open, Source, Replaced, Chosen, Named, Copied, jn,
         PriorKept, CandidateLive, RollbacksMatch, Terminal, Below
<1>5. /\ j.phase = "prior-restored" /\ j.gen = jn.gen /\ j.source = jn.source /\ j.catalog = jn.catalog
      /\ j.segment = jn.segment /\ j.staged = jn.staged /\ j.candidate = jn.candidate
  BY <1>2, <1>3, <1>4
     DEF Ready, Open, Source, Replaced, Chosen, Named, Copied, jn, PriorKept, CandidateLive,
         RollbacksMatch, Terminal, Below, Journals, HotDirs
<1> HIDE DEF j
<1>6. /\ MayOK' /\ BoundsOK' /\ segDir' = segDir /\ hotDir' \in HotDirs /\ hotDir'.journal = j /\ j # Absent
      /\ hotDir'.hot = hotDir.hot /\ hotDir'.rollback = hotDir.rollback /\ hotDir'.staged = hotDir.staged
      /\ Good(hotDir', segDir, rows) => PairsOK'
      /\ pc' = "syncJournal" /\ then' = "removeTemporary" /\ rows' = rows /\ cut' = cut
  BY <1>1, <1>4, JournalPut
<1>7. GoodJournal(j, rows)
  BY <1>2, <1>3, <1>5
     DEF Good, GoodJournal, Ready, Open, Source, Replaced, Chosen, Named, Copied, jn, PriorKept,
         CandidateLive, RollbacksMatch, Terminal, Below
<1>8. Evidence(hotDir', segDir) /\ (PriorKept(hotDir', segDir))
  BY <1>2, <1>3, <1>5, <1>6, TypedHere
     DEF IndInv, Good, GoodJournal, Evidence, Ready, Open, Source, Replaced, Chosen, Named, Copied,
         jn, PriorKept, CandidateLive, RollbacksMatch, Terminal, Below
<1>9. Good(hotDir', segDir, rows)
  BY <1>2, <1>6, <1>7, <1>8 DEF Good
<1>10. Ready("removeTemporary")'
  BY <1>2, <1>3, <1>5, <1>6, TypedHere
     DEF IndInv, Ready, Open, Source, Replaced, Chosen, Named, Copied, jn, PriorKept, CandidateLive,
         RollbacksMatch, Terminal, Below, Good, GoodJournal
<1> QED
  BY <1>6, <1>9, <1>10 DEF IndInv, PcOK

\* The segment nobody needs is removed.
LEMMA RemoveSegmentStep ==
    ASSUME Ordered, IndInv, RemoveSegment
    PROVE  IndInv'
<1> DEFINE v == [segDir.segs EXCEPT ![hotDir.journal.gen] = Absent]
<1>1. /\ pc = "removeSegment" /\ pc' = "syncRemoved" /\ ChangeSeg([segs |-> v])
      /\ rows' = rows /\ cut' = cut /\ faults' = faults
  BY DEF RemoveSegment, At, Goto, Segment
<1> HIDE DEF v
<1>2. hotDir \in HotDirs /\ segDir \in SegDirs /\ Good(hotDir, segDir, rows)
  BY Here DEF IndInv
<1>3. Ready("removeSegment")
  BY <1>1 DEF IndInv, PcOK
<1>4. /\ MayOK' /\ hotDir' = hotDir /\ segDir' = [segDir EXCEPT !.segs = v]
      /\ segDir' \in SegDirs /\ Good(hotDir, segDir', rows) => PairsOK'
  BY <1>1, <1>2, SegChanges, PutSeg DEF IndInv
<1>5. /\ segDir'.catalog = segDir.catalog /\ segDir'.rollback = segDir.rollback /\ segDir'.staged = segDir.staged
      /\ segDir'.tmp = segDir.tmp /\ segDir'.segs = v
  BY <1>2, <1>4 DEF SegDirs
<1>6. segDir' \in SegDirs
  BY <1>2, <1>3, <1>4, TypedHere
     DEF v, IndInv, SegDirs, Ready, Open, Source, Replaced, Chosen, Named, Copied, jn, PriorKept,
         CandidateLive, RollbacksMatch, Terminal, Below
<1>7. Good(hotDir, segDir', rows)
  BY <1>2, <1>3, <1>5, GoodLinked
     DEF v, IndInv, Ready, Open, Source, Replaced, Chosen, Named, Copied, jn, PriorKept,
         CandidateLive, RollbacksMatch, Terminal, Below
<1>8. Ready("syncRemoved")'
  BY <1>1, <1>2, <1>3, <1>4, <1>5, TypedHere
     DEF v, IndInv, SegDirs, Ready, Open, Source, Replaced, Chosen, Named, Copied, jn, PriorKept,
         CandidateLive, RollbacksMatch, Terminal, Below, Good, GoodJournal
<1> QED
  BY <1>1, <1>4, <1>6, <1>7, <1>8 DEF IndInv, PcOK, BoundsOK

\* Its removal is durable.
LEMMA SyncRemovedStep ==
    ASSUME Ordered, IndInv, SyncRemoved
    PROVE  IndInv'
<1>1. pc = "syncRemoved" /\ pc' = "retirePrior" /\ SyncSeg /\ rows' = rows /\ cut' = cut /\ faults' = faults
  BY DEF SyncRemoved, At, Goto
<1>2. MayOK' /\ PairsOK' /\ hotDir' = hotDir /\ segDir' = segDir
  BY <1>1, Syncs DEF IndInv
<1>3. Ready("syncRemoved")
  BY <1>1 DEF IndInv, PcOK
<1>4. Ready("retirePrior")
  BY <1>3 DEF Ready
<1>5. Ready("retirePrior")'
  BY <1>1, <1>2, <1>4, ReadyStays
<1> QED
  BY <1>1, <1>2, <1>5 DEF IndInv, PcOK, BoundsOK

\* A file of the hot directory is complete, in every pair that may be left.
LEMMA HotCompletes ==
    ASSUME MayOK, PairsOK, NEW name \in {"rollback", "staged"}, NEW content \in RowSets,
           CompleteHot(name, content), rows' = rows
    PROVE  MayOK' /\ PairsOK' /\ segDir' = segDir /\ hotDir' = Completed(hotDir, name, content)
<1>1. ASSUME NEW m \in may
      PROVE  Completed(m[1], name, content) \in HotDirs /\ Good(Completed(m[1], name, content), m[2], rows)
  <2>1. m[1] \in HotDirs /\ Good(m[1], m[2], rows)
    BY DEF PairsOK
  <2> DEFINE g == Completed(m[1], name, content)
  <2>2. CASE m[1][name] = Torn /\ name = "rollback"
    <3>1. g = [m[1] EXCEPT !.rollback = content]
      BY <2>2 DEF Completed
    <3>2. g \in HotDirs /\ g.hot = m[1].hot /\ g.journal = m[1].journal
      BY <2>1, <3>1 DEF HotDirs, Contents
    <3>3. m[1].journal = Absent
      BY <2>1, <2>2 DEF Good, Evidence
    <3> QED
      BY <2>1, <3>2, <3>3, GoodOpen
  <2>3. CASE m[1][name] = Torn /\ name = "staged"
    <3>1. g = [m[1] EXCEPT !.staged = content]
      BY <2>3 DEF Completed
    <3>2. g \in HotDirs /\ g.hot = m[1].hot /\ g.journal = m[1].journal /\ g.rollback = m[1].rollback
      BY <2>1, <3>1 DEF HotDirs, Contents
    <3> QED
      BY <2>1, <3>2, GoodAlike
  <2>4. CASE m[1][name] # Torn
    BY <2>1, <2>4 DEF Completed
  <2> QED
    BY <2>2, <2>3, <2>4
<1>2. /\ segDir' = segDir /\ hotDir' = Completed(hotDir, name, content)
      /\ may' = {<<Completed(m[1], name, content), m[2]>> : m \in may}
  BY DEF CompleteHot
<1>3. MayOK'
  BY <1>2 DEF MayOK
<1>4. PairsOK'
  BY <1>1, <1>2 DEF PairsOK
<1> QED
  BY <1>2, <1>3, <1>4

\* A file of the segments directory is complete, in every pair that may be left.
LEMMA SegCompletes ==
    ASSUME MayOK, PairsOK, NEW name \in {"rollback", "tmp"}, NEW content,
           name = "rollback" => content \in Catalogs, name = "tmp" => content \in RowSets,
           CompleteSeg(name, content), rows' = rows
    PROVE  MayOK' /\ PairsOK' /\ hotDir' = hotDir /\ segDir' = Completed(segDir, name, content)
<1>1. ASSUME NEW m \in may
      PROVE  Completed(m[2], name, content) \in SegDirs /\ Good(m[1], Completed(m[2], name, content), rows)
  <2>1. m[2] \in SegDirs /\ Good(m[1], m[2], rows)
    BY DEF PairsOK
  <2> DEFINE t == Completed(m[2], name, content)
  <2>2. CASE m[2][name] = Torn /\ name = "rollback"
    <3>1. t = [m[2] EXCEPT !.rollback = content]
      BY <2>2 DEF Completed
    <3>2. t \in SegDirs /\ t.catalog = m[2].catalog /\ t.segs = m[2].segs
      BY <2>1, <2>2, <3>1 DEF SegDirs
    <3>3. m[1].journal = Absent
      BY <2>1, <2>2 DEF Good, Evidence
    <3> QED
      BY <2>1, <3>2, <3>3, GoodOpen
  <2>3. CASE m[2][name] = Torn /\ name = "tmp"
    <3>1. t = [m[2] EXCEPT !.tmp = content]
      BY <2>3 DEF Completed
    <3>2. /\ t \in SegDirs /\ t.catalog = m[2].catalog /\ t.segs = m[2].segs /\ t.rollback = m[2].rollback
      BY <2>1, <2>3, <3>1 DEF SegDirs, Contents
    <3>3. m[2].tmp # Absent
      BY <2>3, DirectoriesAssumption
    <3> QED
      BY <2>1, <3>2, <3>3 DEF Good, CatalogVerified, Evidence, RollbacksMatch, PriorKept, CandidateLive
  <2>4. CASE m[2][name] # Torn
    BY <2>1, <2>4 DEF Completed
  <2> QED
    BY <2>2, <2>3, <2>4
<1>2. /\ hotDir' = hotDir /\ segDir' = Completed(segDir, name, content)
      /\ may' = {<<m[1], Completed(m[2], name, content)>> : m \in may}
  BY DEF CompleteSeg
<1>3. MayOK'
  BY <1>2 DEF MayOK
<1>4. PairsOK'
  BY <1>1, <1>2 DEF PairsOK
<1> QED
  BY <1>2, <1>3, <1>4

\* The rollback copy of the hot database is complete.
LEMMA CopyHotStep ==
    ASSUME Ordered, IndInv, CopyHot
    PROVE  IndInv'
<1> USE DEF IndInv
<1>1. /\ pc = "copyHot" /\ pc' = "syncCopy" /\ CompleteHot("rollback", hotDir.hot)
      /\ rows' = rows /\ cut' = cut /\ faults' = faults
  BY DEF CopyHot, At, Goto
<1>2. hotDir \in HotDirs /\ hotDir.hot \in RowSets
  BY Here, TypedHere
<1>3. Ready("copyHot")
  BY <1>1 DEF PcOK
<1>4. MayOK' /\ PairsOK' /\ segDir' = segDir /\ hotDir' = [hotDir EXCEPT !.rollback = hotDir.hot]
  BY <1>1, <1>2, <1>3, HotCompletes DEF Completed, Ready
<1>5. hotDir'.hot = hotDir.hot /\ hotDir'.journal = hotDir.journal /\ hotDir'.rollback = hotDir.hot
  BY <1>2, <1>4 DEF HotDirs
<1>6. Ready("syncCopy")'
  BY <1>1, <1>3, <1>4, <1>5 DEF Ready, Open, jn
<1> QED
  BY <1>1, <1>4, <1>6 DEF PcOK, BoundsOK

\* The rollback copy of the catalog is complete.
LEMMA CopyCatalogStep ==
    ASSUME Ordered, IndInv, CopyCatalog
    PROVE  IndInv'
<1> USE DEF IndInv
<1>1. /\ pc = "copyCatalog" /\ pc' = "syncCatalogCopy" /\ CompleteSeg("rollback", segDir.catalog)
      /\ rows' = rows /\ cut' = cut /\ faults' = faults
  BY DEF CopyCatalog, At, Goto
<1>2. segDir \in SegDirs /\ segDir.catalog \in Catalogs
  BY Here, TypedHere
<1>3. Ready("copyCatalog")
  BY <1>1 DEF PcOK
<1>4. MayOK' /\ PairsOK' /\ hotDir' = hotDir /\ segDir' = [segDir EXCEPT !.rollback = segDir.catalog]
  BY <1>1, <1>2, <1>3, SegCompletes DEF Completed, Ready
<1>5. segDir'.catalog = segDir.catalog /\ segDir'.segs = segDir.segs /\ segDir'.rollback = segDir.catalog
  BY <1>2, <1>4 DEF SegDirs
<1>6. Ready("syncCatalogCopy")'
  BY <1>1, <1>3, <1>4, <1>5 DEF Ready, Open, jn
<1> QED
  BY <1>1, <1>4, <1>6 DEF PcOK, BoundsOK

\* The segment holds the rows up to the cutoff.
LEMMA FillSegmentStep ==
    ASSUME Ordered, IndInv, FillSegment
    PROVE  IndInv'
<1> USE DEF IndInv
<1> DEFINE content == {r \in hotDir.hot : r <= cut}
<1>1. /\ pc = "fillSegment" /\ pc' = "recordSegment" /\ CompleteSeg("tmp", content)
      /\ rows' = rows /\ cut' = cut /\ faults' = faults
  BY DEF FillSegment, At, Goto
<1>2. segDir \in SegDirs /\ content \in RowSets
  BY Here, TypedHere DEF RowSets
<1>3. Ready("fillSegment")
  BY <1>1 DEF PcOK
<1>4. content = Below(jn.source)
  BY <1>3 DEF Ready, Source, Below
<1> HIDE DEF content
<1>5. MayOK' /\ PairsOK' /\ hotDir' = hotDir /\ segDir' = [segDir EXCEPT !.tmp = content]
  BY <1>1, <1>2, <1>3, SegCompletes DEF Completed, Ready
<1>6. /\ segDir'.catalog = segDir.catalog /\ segDir'.segs = segDir.segs /\ segDir'.rollback = segDir.rollback
      /\ segDir'.tmp = content
  BY <1>2, <1>5 DEF SegDirs
<1>7. Ready("recordSegment")'
  BY <1>1, <1>3, <1>4, <1>5, <1>6 DEF Ready, Source, Copied, PriorKept, RollbacksMatch, Below, jn
<1> QED
  BY <1>1, <1>5, <1>7 DEF PcOK, BoundsOK

\* The new hot database holds the others.
LEMMA FillHotStep ==
    ASSUME Ordered, IndInv, FillHot
    PROVE  IndInv'
<1> USE DEF IndInv
<1> DEFINE content == {r \in hotDir.hot : r > cut}
<1>1. /\ pc = "fillHot" /\ pc' = "recordHot" /\ CompleteHot("staged", content)
      /\ rows' = rows /\ cut' = cut /\ faults' = faults
  BY DEF FillHot, At, Goto
<1>2. hotDir \in HotDirs /\ content \in RowSets
  BY Here, TypedHere DEF RowSets
<1>3. Ready("fillHot")
  BY <1>1 DEF PcOK
<1>4. content = jn.source \ jn.segment
  <2>1. hotDir.hot = jn.source /\ jn.segment = Below(jn.source)
    BY <1>3 DEF Ready, Source
  <2>2. hotDir.hot \subseteq Int /\ cut \in Int
    BY TypedHere, RotationAssumption DEF RowSets, BoundsOK
  <2> QED
    BY <2>1, <2>2 DEF Below
<1> HIDE DEF content
<1>5. MayOK' /\ PairsOK' /\ segDir' = segDir /\ hotDir' = [hotDir EXCEPT !.staged = content]
  BY <1>1, <1>2, <1>3, HotCompletes DEF Completed, Ready
<1>6. /\ hotDir'.hot = hotDir.hot /\ hotDir'.journal = hotDir.journal /\ hotDir'.rollback = hotDir.rollback
      /\ hotDir'.staged = content
  BY <1>2, <1>5 DEF HotDirs
<1>7. Ready("recordHot")'
  BY <1>1, <1>3, <1>4, <1>5, <1>6 DEF Ready, Source, Copied, Named, PriorKept, RollbacksMatch, Below, jn
<1> QED
  BY <1>1, <1>5, <1>7 DEF PcOK, BoundsOK

\* The hot database is replaced: the journal knows both.
LEMMA ReplaceHotStep ==
    ASSUME Ordered, IndInv, ReplaceHot
    PROVE  IndInv'
<1> USE DEF IndInv
<1>1. /\ pc = "replaceHot" /\ pc' = "syncHot" /\ rows' = rows /\ cut' = cut /\ faults' = faults
      /\ ChangeHot([hot |-> hotDir.staged, staged |-> Absent])
  BY DEF ReplaceHot, At, Goto
<1>2. hotDir \in HotDirs /\ segDir \in SegDirs /\ Good(hotDir, segDir, rows)
  BY Here
<1>3. Ready("replaceHot")
  BY <1>1 DEF PcOK
<1>4. PICK c : /\ ChangeHot(c) /\ DOMAIN c = {"hot", "staged"} /\ c["hot"] = hotDir.staged /\ c["staged"] = Absent
  BY <1>1
<1>5. /\ MayOK' /\ segDir' = segDir /\ hotDir' = [hotDir EXCEPT !.hot = hotDir.staged, !.staged = Absent]
      /\ hotDir' \in HotDirs /\ Good(hotDir', segDir, rows) => PairsOK'
  <2>1. rows' = rows
    BY <1>1
  <2>2. /\ MayOK' /\ segDir' = segDir /\ hotDir' = Put(hotDir, c)
        /\ hotDir' \in HotDirs /\ Good(hotDir', segDir, rows) => PairsOK'
    BY <1>4, <2>1, HotChanges
  <2>3. Put(hotDir, c) = [hotDir EXCEPT !.hot = hotDir.staged, !.staged = Absent]
    BY <1>2, <1>4, PutReplacedHot
  <2> QED
    BY <2>2, <2>3
<1>6. jn # Absent /\ jn.candidate # Absent /\ jn.staged # Absent /\ hotDir.staged = jn.staged /\ jn \in Journals
  BY <1>2, <1>3, TypedHere DEF Ready, Source, Good, GoodJournal, jn
<1>7. /\ hotDir' \in HotDirs /\ hotDir'.hot = jn.staged /\ hotDir'.journal = jn /\ hotDir'.rollback = hotDir.rollback
  BY <1>2, <1>5, <1>6 DEF HotDirs, Journals, Contents, jn
<1>8. Good(hotDir', segDir, rows)
  BY <1>2, <1>3, <1>7 DEF Good, Evidence, RollbacksMatch, PriorKept, Ready, Source, jn
<1>9. Ready("syncHot")'
  BY <1>1, <1>3, <1>5, <1>6, <1>7 DEF Ready, Source, Replaced, Copied, Named, PriorKept, RollbacksMatch, jn
<1> QED
  BY <1>1, <1>5, <1>7, <1>8, <1>9 DEF PcOK, BoundsOK

\* The catalog is replaced: its segments are all there.
LEMMA ReplaceCatalogStep ==
    ASSUME Ordered, IndInv, ReplaceCatalog
    PROVE  IndInv'
<1> USE DEF IndInv
<1>1. /\ pc = "replaceCatalog" /\ pc' = "syncCatalog" /\ rows' = rows /\ cut' = cut /\ faults' = faults
      /\ ChangeSeg([catalog |-> segDir.staged, staged |-> Absent])
  BY DEF ReplaceCatalog, At, Goto
<1>2. hotDir \in HotDirs /\ segDir \in SegDirs /\ Good(hotDir, segDir, rows)
  BY Here
<1>3. Ready("replaceCatalog")
  BY <1>1 DEF PcOK
<1>4. PICK c : /\ ChangeSeg(c) /\ DOMAIN c = {"catalog", "staged"} /\ c["catalog"] = segDir.staged /\ c["staged"] = Absent
  BY <1>1
<1>5. /\ MayOK' /\ hotDir' = hotDir /\ segDir' = [segDir EXCEPT !.catalog = segDir.staged, !.staged = Absent]
      /\ segDir' \in SegDirs /\ Good(hotDir, segDir', rows) => PairsOK'
  <2>1. rows' = rows
    BY <1>1
  <2>2. /\ MayOK' /\ hotDir' = hotDir /\ segDir' = Put(segDir, c)
        /\ segDir' \in SegDirs /\ Good(hotDir, segDir', rows) => PairsOK'
    BY <1>4, <2>1, SegChanges
  <2>3. Put(segDir, c) = [segDir EXCEPT !.catalog = segDir.staged, !.staged = Absent]
    BY <1>2, <1>4, PutReplacedCatalog
  <2> QED
    BY <2>2, <2>3
<1>6. jn # Absent /\ jn.candidate # Absent /\ segDir.staged = jn.candidate /\ jn \in Journals /\ GoodJournal(jn, rows)
  BY <1>2, <1>3, TypedHere DEF Ready, Replaced, Good, jn
<1>7. /\ segDir' \in SegDirs /\ segDir'.catalog = jn.candidate /\ segDir'.rollback = segDir.rollback
      /\ segDir'.tmp = segDir.tmp /\ segDir'.segs = segDir.segs
  BY <1>2, <1>5, <1>6 DEF SegDirs, Journals
<1>8. CatalogVerified(segDir')
  <2>1. /\ jn.catalog \in Catalogs /\ jn.segment \in RowSets /\ Len(jn.catalog) < MaxGenerations
        /\ jn.candidate = Append(jn.catalog, jn.segment) /\ jn.gen = Len(jn.catalog) + 1
    BY <1>6, TypedHere DEF GoodJournal, jn
  <2>2. /\ DOMAIN jn.candidate = DOMAIN jn.catalog \union {jn.gen} /\ jn.candidate[jn.gen] = jn.segment
        /\ \A i \in DOMAIN jn.catalog : jn.candidate[i] = jn.catalog[i]
    BY <2>1, CatalogGrows
  <2>3. segDir.catalog = jn.catalog /\ segDir.segs[jn.gen] = jn.segment
    BY <1>3 DEF Ready, Replaced, Named, PriorKept, jn
  <2> QED
    BY <1>2, <1>7, <2>2, <2>3 DEF CatalogVerified, Good
<1>9. CandidateLive(hotDir, segDir') /\ Evidence(hotDir, segDir')
  BY <1>2, <1>3, <1>7 DEF Good, Evidence, CandidateLive, PriorKept, RollbacksMatch, Ready, Replaced, Named, jn
<1>10. Good(hotDir, segDir', rows)
  BY <1>6, <1>8, <1>9 DEF Good, jn
<1>11. Ready("syncCatalog")'
  BY <1>1, <1>3, <1>5, <1>7, <1>9 DEF Ready, Chosen, CandidateLive, Copied, RollbacksMatch, jn
<1> QED
  BY <1>1, <1>5, <1>7, <1>10, <1>11 DEF PcOK, BoundsOK

\* The journal is durable, and the process goes on.
LEMMA SyncJournalStep ==
    ASSUME Ordered, IndInv, SyncJournal
    PROVE  IndInv'
<1>1. pc = "syncJournal" /\ pc' = then /\ SyncHot /\ rows' = rows /\ cut' = cut /\ faults' = faults
  BY DEF SyncJournal, At, Goto
<1>2. MayOK' /\ PairsOK' /\ hotDir' = hotDir /\ segDir' = segDir
  BY <1>1, Syncs DEF IndInv
<1>3. /\ then \in {"seal", "linkSegment", "stageHot", "stageCatalog", "replaceHot", "replaceCatalog", "cleanup",
                   "retireRollbacks", "retireCandidate", "removeTemporary"}
      /\ Ready(then)
  BY <1>1 DEF IndInv, PcOK
<1>4. PICK q \in {"seal", "linkSegment", "stageHot", "stageCatalog", "replaceHot", "replaceCatalog", "cleanup",
                   "retireRollbacks", "retireCandidate", "removeTemporary"} : then = q
  BY <1>3
<1>5. Ready(q)
  BY <1>3, <1>4
<1>6. Ready(q)'
  BY <1>1, <1>2, <1>5, ReadyStays
<1>7. PcOK'
  BY <1>1, <1>4, <1>6 DEF PcOK
<1> QED
  BY <1>1, <1>2, <1>7 DEF IndInv, BoundsOK

\* An error before the journal counts as written.
LEMMA CopyFailsStep ==
    ASSUME Ordered, IndInv, CopyFails
    PROVE  IndInv'
<1> USE DEF IndInv
<1>1. /\ pc' = "retire" /\ todo' = <<"rollbackCatalog", "rollbackHot">> /\ UNCHANGED files
      /\ rows' = rows /\ cut' = cut /\ faults' \in 0..MaxFaults
      /\ \/ pc \in {"copyHot", "syncCopy", "createCatalogCopy", "copyCatalog", "syncCatalogCopy", "prepare"}
         \/ pc = "syncJournal" /\ then = "seal"
  BY RotationAssumption DEF CopyFails, At, Goto, Fault, BoundsOK
<1>2. MayOK' /\ PairsOK' /\ hotDir' = hotDir /\ segDir' = segDir
  BY <1>1, Stays
<1>3. jn # Absent => jn.phase = "prepared" /\ jn.segment = Absent
  <2>1. CASE pc \in {"copyHot", "syncCopy", "createCatalogCopy", "copyCatalog", "syncCatalogCopy", "prepare"}
    BY <2>1 DEF PcOK, Ready, Open
  <2>2. CASE pc = "syncJournal" /\ then = "seal"
    <3>1. Ready("seal")
      BY <2>2 DEF PcOK
    <3> QED
      BY <3>1 DEF Ready
  <2> QED
    BY <1>1, <2>1, <2>2
<1>4. Retiring'
  BY <1>1, <1>2, <1>3 DEF Retiring, Orphans, jn
<1> QED
  BY <1>1, <1>2, <1>4 DEF PcOK, BoundsOK

\* An error while sealing removes the temporary file; what is left is for recovery.
LEMMA SealFailsStep ==
    ASSUME Ordered, IndInv, SealFails
    PROVE  IndInv'
<1> USE DEF IndInv
<1>1. pc' = "idle" /\ ChangeSeg([tmp |-> Absent]) /\ rows' = rows /\ cut' = cut /\ faults' \in 0..MaxFaults
  BY RotationAssumption DEF SealFails, Goto, Fault, BoundsOK
<1>2. hotDir \in HotDirs /\ segDir \in SegDirs /\ Good(hotDir, segDir, rows)
  BY Here
<1>3. /\ MayOK' /\ hotDir' = hotDir /\ segDir' = [segDir EXCEPT !.tmp = Absent]
      /\ segDir' \in SegDirs /\ Good(hotDir, segDir', rows) => PairsOK'
  BY <1>1, <1>2, SegChanges, PutSeg
<1>4. /\ segDir' \in SegDirs /\ segDir'.catalog = segDir.catalog /\ segDir'.rollback = segDir.rollback
      /\ segDir'.segs = segDir.segs /\ segDir'.tmp = Absent
  BY <1>2, <1>3 DEF SegDirs, Contents
<1>5. Good(hotDir, segDir', rows)
  BY <1>2, <1>4, GoodAlike
<1>6. Ready("idle")'
  BY DEF Ready
<1> QED
  BY <1>1, <1>3, <1>4, <1>5, <1>6 DEF PcOK, BoundsOK

\* An error while staging removes the new hot database.
LEMMA StageFailsStep ==
    ASSUME Ordered, IndInv, StageFails
    PROVE  IndInv'
<1> USE DEF IndInv
<1>1. pc' = "idle" /\ ChangeHot([staged |-> Absent]) /\ rows' = rows /\ cut' = cut /\ faults' \in 0..MaxFaults
  BY RotationAssumption DEF StageFails, Goto, Fault, BoundsOK
<1>2. hotDir \in HotDirs /\ segDir \in SegDirs /\ Good(hotDir, segDir, rows)
  BY Here
<1>3. /\ MayOK' /\ segDir' = segDir /\ hotDir' = [hotDir EXCEPT !.staged = Absent]
      /\ hotDir' \in HotDirs /\ Good(hotDir', segDir, rows) => PairsOK'
  BY <1>1, <1>2, HotChanges, PutHot
<1>4. /\ hotDir' \in HotDirs /\ hotDir'.hot = hotDir.hot /\ hotDir'.rollback = hotDir.rollback
      /\ hotDir'.journal = hotDir.journal
  BY <1>2, <1>3 DEF HotDirs, Contents
<1>5. Good(hotDir', segDir, rows)
  BY <1>2, <1>4, GoodAlike
<1>6. Ready("idle")'
  BY DEF Ready
<1> QED
  BY <1>1, <1>3, <1>4, <1>5, <1>6 DEF PcOK, BoundsOK

\* Cleanup begins where the phase of the journal allows it.
LEMMA RetireListStep ==
    ASSUME Ordered, IndInv, RetireRollbacks \/ RetireCandidate \/ RetirePrior
    PROVE  IndInv'
<1> USE DEF IndInv
<1>1. /\ pc' = "retire" /\ UNCHANGED files /\ rows' = rows /\ cut' = cut /\ faults' = faults
      /\ pc \in {"retireRollbacks", "retireCandidate", "retirePrior"} /\ todo' \in Commits \union Reverts
  BY DEF RetireRollbacks, RetireCandidate, RetirePrior, At, Goto, Commits, Reverts
<1>2. MayOK' /\ PairsOK' /\ hotDir' = hotDir /\ segDir' = segDir
  BY <1>1, Stays
<1>3. Finished
  BY <1>1 DEF PcOK, Ready, Finished
<1>4. Finished'
  BY <1>2, <1>3 DEF Finished, Copied, Chosen, Source, jn
<1>5. Retiring'
  BY <1>1, <1>4 DEF Retiring
<1> QED
  BY <1>1, <1>2, <1>5 DEF PcOK, BoundsOK

\* A recovery without a journal retires the copies it has compared.
LEMMA RecoverOrphansStep ==
    ASSUME Ordered, IndInv, RecoverOrphans
    PROVE  IndInv'
<1> USE DEF IndInv
<1>1. /\ pc' = "retire" /\ UNCHANGED files /\ rows' = rows /\ cut' = cut /\ faults' = faults
      /\ hotDir.journal = Absent /\ todo' \in Orphans
  BY DEF RecoverOrphans, At, Goto, Orphans
<1>2. MayOK' /\ PairsOK' /\ hotDir' = hotDir /\ segDir' = segDir
  BY <1>1, Stays
<1>3. Retiring'
  BY <1>1, <1>2 DEF Retiring, jn
<1> QED
  BY <1>1, <1>2, <1>3 DEF PcOK, BoundsOK

\* The prior and the candidate catalog differ.
LEMMA CandidateDiffers ==
    ASSUME MayOK, PairsOK, jn # Absent
    PROVE  jn.candidate # jn.catalog
<1>1. GoodJournal(jn, rows) /\ jn \in Journals /\ jn.catalog \in Catalogs /\ Len(jn.catalog) < MaxGenerations
  BY Here, TypedHere DEF Good, jn
<1>2. CASE jn.candidate = Absent
  BY <1>1, <1>2, ContentsAssumption
<1>3. CASE jn.candidate # Absent
  <2>1. jn.candidate = Append(jn.catalog, jn.segment) /\ jn.segment \in RowSets
    BY <1>1, <1>3, TypedHere DEF GoodJournal, jn
  <2> QED
    BY <1>1, <2>1, CatalogGrows
<1> QED
  BY <1>2, <1>3

\* Recovery goes on with the candidate.
LEMMA RecoverCandidateStep ==
    ASSUME Ordered, IndInv, RecoverCandidate
    PROVE  IndInv'
<1> USE DEF IndInv
<1>1. /\ pc' = "selectCandidate" /\ UNCHANGED files /\ rows' = rows /\ cut' = cut /\ faults' = faults
      /\ jn # Absent /\ RollbacksMatch(hotDir, segDir) /\ segDir.catalog = jn.candidate
  BY DEF RecoverCandidate, CandidateReady, At, Goto, jn
<1>2. MayOK' /\ PairsOK' /\ hotDir' = hotDir /\ segDir' = segDir
  BY <1>1, Stays
<1>3. jn.candidate # jn.catalog
  BY <1>1, CandidateDiffers
<1>4. Ready("selectCandidate")
  BY <1>1, <1>3, Here DEF Ready, Chosen, Copied, Good, PriorKept, jn
<1>5. Ready("selectCandidate")'
  BY <1>1, <1>2, <1>4, ReadyStays
<1> QED
  BY <1>1, <1>2, <1>5 DEF PcOK, BoundsOK

\* Recovery goes back to the prior generation.
LEMMA RecoverPriorStep ==
    ASSUME Ordered, IndInv, RecoverPrior
    PROVE  IndInv'
<1> USE DEF IndInv
<1>1. /\ UNCHANGED files /\ rows' = rows /\ cut' = cut /\ faults' = faults
      /\ jn # Absent /\ RollbacksMatch(hotDir, segDir) /\ segDir.catalog = jn.catalog
      /\ hotDir.hot = jn.source \/ (hotDir.hot = jn.staged /\ jn.phase # "prior-restored")
      /\ pc' = IF hotDir.hot = jn.source THEN "selectPrior" ELSE "restoreHot"
  BY DEF RecoverPrior, PriorReady, At, Goto, jn
<1>2. MayOK' /\ PairsOK' /\ hotDir' = hotDir /\ segDir' = segDir
  BY <1>1, Stays
<1>3. PriorKept(hotDir, segDir) /\ GoodJournal(jn, rows)
  BY <1>1, CandidateDiffers, Here DEF Good, CandidateLive, jn
<1>4. CASE hotDir.hot = jn.source
  <2>1. Ready("selectPrior")
    BY <1>1, <1>3, <1>4 DEF Ready, Source, Copied
  <2>2. Ready("selectPrior")'
    BY <1>1, <1>2, <2>1, ReadyStays
  <2> QED
    BY <1>1, <1>2, <1>4, <2>2 DEF PcOK, BoundsOK
<1>5. CASE hotDir.hot # jn.source
  <2>1. jn.phase \in {"hot-staged", "hot-replaced"} /\ hotDir.hot = jn.staged
    BY <1>3, <1>5 DEF PriorKept, jn
  <2>2. hotDir.rollback = jn.source
    BY <1>1, <2>1 DEF RollbacksMatch, Terminal, jn
  <2>3. Ready("restoreHot")
    BY <1>1, <1>3, <2>1, <2>2 DEF Ready, Replaced, Copied, GoodJournal
  <2>4. Ready("restoreHot")'
    BY <1>1, <1>2, <2>3, ReadyStays
  <2> QED
    BY <1>1, <1>2, <1>5, <2>4 DEF PcOK, BoundsOK
<1> QED
  BY <1>4, <1>5

\* The temporary name of the segment goes.
LEMMA RemoveTemporaryStep ==
    ASSUME Ordered, IndInv, RemoveTemporary
    PROVE  IndInv'
<1> USE DEF IndInv
<1>1. /\ pc = "removeTemporary" /\ pc' \in {"retirePrior", "removeSegment"}
      /\ rows' = rows /\ cut' = cut /\ faults' = faults
      /\ UNCHANGED files \/ ChangeSeg([tmp |-> Absent])
  BY DEF RemoveTemporary, At, Goto
<1>2. Ready("removeTemporary")
  BY <1>1 DEF PcOK
<1>3. Ready("retirePrior") /\ Ready("removeSegment")
  BY <1>2 DEF Ready
<1>4. CASE UNCHANGED files
  <2>1. MayOK' /\ PairsOK' /\ hotDir' = hotDir /\ segDir' = segDir
    BY <1>1, <1>4, Stays
  <2>2. Ready("retirePrior")' /\ Ready("removeSegment")'
    BY <1>1, <1>3, <2>1, ReadyStays
  <2> QED
    BY <1>1, <2>1, <2>2 DEF PcOK, BoundsOK
<1>5. CASE ChangeSeg([tmp |-> Absent])
  <2>1. hotDir \in HotDirs /\ segDir \in SegDirs /\ Good(hotDir, segDir, rows)
    BY Here
  <2>2. /\ MayOK' /\ hotDir' = hotDir /\ segDir' = [segDir EXCEPT !.tmp = Absent]
        /\ segDir' \in SegDirs /\ Good(hotDir, segDir', rows) => PairsOK'
    BY <1>1, <1>5, <2>1, SegChanges, PutSeg
  <2>3. /\ segDir' \in SegDirs /\ segDir'.catalog = segDir.catalog /\ segDir'.rollback = segDir.rollback
        /\ segDir'.segs = segDir.segs /\ segDir'.tmp = Absent
    BY <2>1, <2>2 DEF SegDirs, Contents
  <2>4. Good(hotDir, segDir', rows)
    BY <2>1, <2>3, GoodAlike
  <2>5. Ready("retirePrior")' /\ Ready("removeSegment")'
    BY <1>1, <1>2, <2>2, <2>3 DEF Ready, Source, Copied, PriorKept, RollbacksMatch, jn
  <2> QED
    BY <1>1, <2>2, <2>3, <2>4, <2>5 DEF PcOK, BoundsOK
<1> QED
  BY <1>1, <1>4, <1>5

\* The operator removes the leftovers.
LEMMA OperatorRemovesStep ==
    ASSUME Ordered, IndInv, OperatorRemoves
    PROVE  IndInv'
<1> USE DEF IndInv
<1>1. hotDir \in HotDirs /\ segDir \in SegDirs /\ Good(hotDir, segDir, rows)
  BY Here
<1>2. /\ hotDir' = hotDir \/ hotDir' = [hotDir EXCEPT !.staged = Absent]
      /\ \E a \in {segDir.tmp, Absent}, b \in {segDir.staged, Absent} : segDir' = [segDir EXCEPT !.tmp = a, !.staged = b]
      /\ may' = {<<hotDir', segDir'>>} /\ pc = "idle" /\ pc' = pc /\ rows' = rows /\ cut' = cut /\ faults' = faults
  BY DEF OperatorRemoves, At, process
<1>3. /\ hotDir' \in HotDirs /\ hotDir'.hot = hotDir.hot /\ hotDir'.rollback = hotDir.rollback
      /\ hotDir'.journal = hotDir.journal
  BY <1>1, <1>2 DEF HotDirs, Contents
<1>4. /\ segDir' \in SegDirs /\ segDir'.catalog = segDir.catalog /\ segDir'.rollback = segDir.rollback
      /\ segDir'.segs = segDir.segs /\ segDir'.tmp \in {segDir.tmp, Absent}
  BY <1>1, <1>2 DEF SegDirs, Contents
<1>5. Good(hotDir', segDir', rows)
  BY <1>1, <1>3, <1>4, GoodAlike
<1>6. MayOK' /\ PairsOK'
  BY <1>2, <1>3, <1>4, <1>5 DEF MayOK, PairsOK
<1>7. Ready("idle")'
  BY DEF Ready
<1> QED
  BY <1>2, <1>6, <1>7 DEF PcOK, BoundsOK

\* A process that is killed knows nothing.
LEMMA KillStep ==
    ASSUME Ordered, IndInv, Kill
    PROVE  IndInv'
<1> USE DEF IndInv
<1>1. pc' = "idle" /\ UNCHANGED files /\ rows' = rows /\ cut' = 0 /\ faults' \in 0..MaxFaults
  BY RotationAssumption DEF Kill, Stops, Fault, BoundsOK
<1>2. MayOK' /\ PairsOK'
  BY <1>1, Stays
<1>3. Ready("idle")'
  BY DEF Ready
<1> QED
  BY <1>1, <1>2, <1>3, RotationAssumption DEF PcOK, BoundsOK

\* A power loss leaves a good pair.
LEMMA PowerLossStep ==
    ASSUME Ordered, IndInv, PowerLoss
    PROVE  IndInv'
<1> USE DEF IndInv
<1>1. pc' = "idle" /\ Reboot /\ rows' = rows /\ cut' = 0 /\ faults' \in 0..MaxFaults
  BY RotationAssumption DEF PowerLoss, Stops, Fault, BoundsOK
<1>2. MayOK' /\ PairsOK'
  BY <1>1 DEF Reboot, MayOK, PairsOK
<1>3. Ready("idle")'
  BY DEF Ready
<1> QED
  BY <1>1, <1>2, <1>3, RotationAssumption DEF PcOK, BoundsOK

\* A new row is in the hot database and nowhere else.
LEMMA WriteKeepsHistory ==
    ASSUME NEW n \in Nat, NEW hot \in RowSets, NEW c \in Catalogs, History(hot, c, n)
    PROVE  History(hot \union {n + 1}, c, n + 1)
<1> DEFINE u == UNION {c[i] : i \in DOMAIN c}
<1>1. hot \union u = 1..n
  BY DEF History
<1>2. \A i \in DOMAIN c : c[i] \subseteq u
  OBVIOUS
<1> HIDE DEF u
<1>3. 1..(n + 1) = (1..n) \union {n + 1} /\ n + 1 \notin 1..n
  OBVIOUS
<1>4. (hot \union {n + 1}) \union u = 1..(n + 1)
  BY <1>1, <1>3
<1>5. \A i \in DOMAIN c : c[i] \intersect (hot \union {n + 1}) = {}
  BY <1>1, <1>2, <1>3 DEF History
<1> QED
  BY <1>4, <1>5 DEF History, u

\* A row is written.
LEMMA WriteStep ==
    ASSUME Ordered, IndInv, Write
    PROVE  IndInv'
<1> USE DEF IndInv
<1>1. /\ pc = "idle" /\ pc' = "idle" /\ hotDir.journal = Absent /\ rows < MaxRows /\ rows' = rows + 1
      /\ CommitHot([hot |-> hotDir.hot \union {rows + 1}]) /\ cut' = cut /\ faults' = faults
  BY DEF Write, At, process
<1> DEFINE v == hotDir.hot \union {rows + 1}
<1>2. hotDir \in HotDirs /\ segDir \in SegDirs /\ Good(hotDir, segDir, rows)
  BY Here
<1>3. hotDir' = Put(hotDir, [hot |-> v]) /\ segDir' = segDir /\ may' = {<<hotDir', segDir'>>}
  BY <1>1 DEF CommitHot
<1>4. v \in RowSets /\ History(v, segDir.catalog, rows + 1)
  <2>1. rows \in Nat /\ rows + 1 \in 1..MaxRows
    BY <1>1, RotationAssumption DEF BoundsOK
  <2>2. hotDir.hot \in RowSets /\ segDir.catalog \in Catalogs
    BY TypedHere
  <2>3. History(hotDir.hot, segDir.catalog, rows)
    BY <1>1, <1>2 DEF Good
  <2> QED
    BY <2>1, <2>2, <2>3, WriteKeepsHistory DEF RowSets
<1> HIDE DEF v
<1>5. hotDir' = [hotDir EXCEPT !.hot = v]
  BY <1>2, <1>3, PutHot
<1>6. hotDir' \in HotDirs /\ hotDir'.hot = v /\ hotDir'.journal = Absent
  BY <1>1, <1>2, <1>4, <1>5 DEF HotDirs
<1>7. Good(hotDir', segDir', rows')
  BY <1>1, <1>2, <1>3, <1>4, <1>6 DEF Good
<1>8. MayOK' /\ PairsOK'
  BY <1>2, <1>3, <1>6, <1>7 DEF MayOK, PairsOK
<1>9. Ready("idle")'
  BY DEF Ready
<1>10. BoundsOK'
  BY <1>1, RotationAssumption DEF BoundsOK
<1> QED
  BY <1>1, <1>8, <1>9, <1>10 DEF PcOK

\* What there is to retire: the head of each list, and what is left after it.
LEMMA Lists ==
    ASSUME Retiring
    PROVE  \/ /\ todo \in Orphans /\ Head(todo) \in {"rollbackCatalog", "rollbackHot"}
              /\ Len(todo) = 1 \/ Tail(todo) \in Orphans
              /\ jn # Absent => jn.phase = "prepared" /\ jn.segment = Absent
           \/ /\ todo \in Commits \union Reverts
              /\ Head(todo) \in {"rollbackHot", "rollbackCatalog", "stagedHot", "stagedCatalog"}
              /\ Len(todo) # 1 /\ Tail(todo) \in Commits \union Reverts \union {<<"journal">>}
              /\ Finished
           \/ /\ todo = <<"journal">> /\ Head(todo) = "journal" /\ Len(todo) = 1
              /\ IF pc = "retired" THEN Open ELSE Finished
<1>1. CASE todo \in Orphans /\ (jn # Absent => jn.phase = "prepared" /\ jn.segment = Absent)
  <2>1. Head(todo) \in {"rollbackCatalog", "rollbackHot"} /\ (Len(todo) = 1 \/ Tail(todo) \in Orphans)
    <3>1. CASE todo = <<"rollbackCatalog", "rollbackHot">>
      <4>1. Tail(todo) = <<"rollbackHot">> /\ Head(todo) = "rollbackCatalog"
        BY <3>1
      <4> QED
        BY <4>1 DEF Orphans
    <3>2. CASE todo = <<"rollbackHot">>
      BY <3>2
    <3> QED
      BY <1>1, <3>1, <3>2 DEF Orphans
  <2> QED
    BY <1>1, <2>1
<1>2. CASE todo \in Commits \union Reverts /\ Finished
  <2>1. /\ Head(todo) \in {"rollbackHot", "rollbackCatalog", "stagedHot", "stagedCatalog"}
        /\ Len(todo) # 1 /\ Tail(todo) \in Commits \union Reverts \union {<<"journal">>}
    <3>1. CASE todo = <<"rollbackHot", "rollbackCatalog", "journal">>
      <4>1. Tail(todo) = <<"rollbackCatalog", "journal">> /\ Head(todo) = "rollbackHot" /\ Len(todo) = 3
        BY <3>1
      <4> QED
        BY <4>1 DEF Commits
    <3>2. CASE todo = <<"rollbackCatalog", "journal">>
      <4>1. Tail(todo) = <<"journal">> /\ Head(todo) = "rollbackCatalog" /\ Len(todo) = 2
        BY <3>2
      <4> QED
        BY <4>1
    <3>3. CASE todo = <<"rollbackHot", "rollbackCatalog", "stagedHot", "stagedCatalog", "journal">>
      <4>1. /\ Tail(todo) = <<"rollbackCatalog", "stagedHot", "stagedCatalog", "journal">>
            /\ Head(todo) = "rollbackHot" /\ Len(todo) = 5
        BY <3>3
      <4> QED
        BY <4>1 DEF Commits
    <3>4. CASE todo = <<"rollbackCatalog", "stagedHot", "stagedCatalog", "journal">>
      <4>1. Tail(todo) = <<"stagedHot", "stagedCatalog", "journal">> /\ Head(todo) = "rollbackCatalog" /\ Len(todo) = 4
        BY <3>4
      <4> QED
        BY <4>1 DEF Commits
    <3>5. CASE todo = <<"stagedHot", "stagedCatalog", "journal">>
      <4>1. Tail(todo) = <<"stagedCatalog", "journal">> /\ Head(todo) = "stagedHot" /\ Len(todo) = 3
        BY <3>5
      <4> QED
        BY <4>1 DEF Commits
    <3>6. CASE todo = <<"stagedCatalog", "journal">>
      <4>1. Tail(todo) = <<"journal">> /\ Head(todo) = "stagedCatalog" /\ Len(todo) = 2
        BY <3>6
      <4> QED
        BY <4>1
    <3>7. CASE todo = <<"stagedHot", "stagedCatalog", "rollbackHot", "rollbackCatalog", "journal">>
      <4>1. /\ Tail(todo) = <<"stagedCatalog", "rollbackHot", "rollbackCatalog", "journal">>
            /\ Head(todo) = "stagedHot" /\ Len(todo) = 5
        BY <3>7
      <4> QED
        BY <4>1 DEF Reverts
    <3>8. CASE todo = <<"stagedCatalog", "rollbackHot", "rollbackCatalog", "journal">>
      <4>1. /\ Tail(todo) = <<"rollbackHot", "rollbackCatalog", "journal">>
            /\ Head(todo) = "stagedCatalog" /\ Len(todo) = 4
        BY <3>8
      <4> QED
        BY <4>1 DEF Reverts
    <3> QED
      BY <1>2, <3>1, <3>2, <3>3, <3>4, <3>5, <3>6, <3>7, <3>8 DEF Commits, Reverts
  <2> QED
    BY <1>2, <2>1
<1>3. CASE todo = <<"journal">> /\ (IF pc = "retired" THEN Open ELSE Finished)
  BY <1>3
<1> QED
  BY <1>1, <1>2, <1>3 DEF Retiring

\* The rest of the list: the next file, or the end.
LEMMA NextListStep ==
    ASSUME MayOK', PairsOK', BoundsOK', hotDir' = hotDir, segDir' = segDir, Retiring, NextToRetire,
           pc \in {"retire", "retired"}
    PROVE  IndInv'
<1>1. CASE Len(todo) = 1
  <2>1. pc' = "idle"
    BY <1>1 DEF NextToRetire
  <2>2. Ready("idle")'
    BY DEF Ready
  <2> QED
    BY <2>1, <2>2 DEF IndInv, PcOK
<1>2. CASE Len(todo) # 1
  <2>1. pc' = "retire" /\ todo' = Tail(todo)
    BY <1>2 DEF NextToRetire
  <2>2. Retiring'
    <3>1. CASE /\ todo \in Orphans /\ Tail(todo) \in Orphans
               /\ jn # Absent => jn.phase = "prepared" /\ jn.segment = Absent
      BY <2>1, <3>1 DEF Retiring, jn
    <3>2. CASE Tail(todo) \in Commits \union Reverts \union {<<"journal">>} /\ Finished
      <4>1. Finished'
        BY <3>2 DEF Finished, Copied, Chosen, Source, jn
      <4> QED
        BY <2>1, <3>2, <4>1 DEF Retiring
    <3> QED
      BY <1>2, <3>1, <3>2, Lists
  <2> QED
    BY <2>1, <2>2 DEF IndInv, PcOK
<1> QED
  BY <1>1, <1>2

\* A retired file is gone for good.
LEMMA SyncRetiredStep ==
    ASSUME Ordered, IndInv, SyncRetired
    PROVE  IndInv'
<1>2. /\ pc = "retired" /\ (SyncHot \/ SyncSeg) /\ NextToRetire /\ rows' = rows /\ cut' = cut /\ faults' = faults
  BY DEF SyncRetired, At
<1>3. MayOK' /\ PairsOK' /\ hotDir' = hotDir /\ segDir' = segDir
  BY <1>2, Syncs DEF IndInv
<1>4. BoundsOK' /\ Retiring
  BY <1>2 DEF IndInv, PcOK, BoundsOK
<1> QED
  BY <1>2, <1>3, <1>4, NextListStep

\* A rollback copy or a staged file is moved away.
LEMMA FileRetires ==
    ASSUME Ordered, IndInv, pc = "retire",
           NEW file \in {"rollbackHot", "rollbackCatalog", "stagedHot", "stagedCatalog"}, Head(todo) = file,
           IF InHotDir(file) THEN ChangeHot([n \in {NameOf(file)} |-> Absent])
                             ELSE ChangeSeg([n \in {NameOf(file)} |-> Absent]),
           pc' = "retired", todo' = todo, rows' = rows, cut' = cut, faults' = faults
    PROVE  IndInv'
<1> USE DEF IndInv
<1>1. hotDir \in HotDirs /\ segDir \in SegDirs /\ Good(hotDir, segDir, rows) /\ Retiring
  BY Here DEF PcOK
<1>2. todo # <<"journal">> /\ (Finished \/ (jn # Absent => jn.phase = "prepared" /\ jn.segment = Absent))
  BY <1>1, Lists
<1>3. Finished => Terminal(jn) /\ jn # Absent
  BY DEF Finished, Chosen, Source, Terminal
<1>4. /\ MayOK' /\ hotDir'.hot = hotDir.hot /\ hotDir'.journal = hotDir.journal
      /\ hotDir'.rollback \in {hotDir.rollback, Absent}
      /\ segDir'.catalog = segDir.catalog /\ segDir'.segs = segDir.segs /\ segDir'.tmp = segDir.tmp
      /\ segDir'.rollback \in {segDir.rollback, Absent}
      /\ file \in {"stagedHot", "stagedCatalog"} => hotDir'.rollback = hotDir.rollback /\ segDir'.rollback = segDir.rollback
      /\ hotDir' \in HotDirs /\ segDir' \in SegDirs
      /\ Good(hotDir', segDir', rows) => PairsOK'
  <2>1. CASE file = "rollbackHot"
    <3>1. ChangeHot([n \in {"rollback"} |-> Absent])
      BY <2>1 DEF InHotDir, NameOf
    <3>2. /\ MayOK' /\ segDir' = segDir /\ hotDir' = [hotDir EXCEPT !.rollback = Absent]
          /\ hotDir' \in HotDirs /\ Good(hotDir', segDir, rows) => PairsOK'
      BY <1>1, <3>1, HotChanges, PutHot
    <3> QED
      BY <1>1, <2>1, <3>2 DEF HotDirs, Contents
  <2>2. CASE file = "stagedHot"
    <3>1. ChangeHot([n \in {"staged"} |-> Absent])
      BY <2>2 DEF InHotDir, NameOf
    <3>2. /\ MayOK' /\ segDir' = segDir /\ hotDir' = [hotDir EXCEPT !.staged = Absent]
          /\ hotDir' \in HotDirs /\ Good(hotDir', segDir, rows) => PairsOK'
      BY <1>1, <3>1, HotChanges, PutHot
    <3> QED
      BY <1>1, <2>2, <3>2 DEF HotDirs, Contents
  <2>3. CASE file = "rollbackCatalog"
    <3>1. ChangeSeg([n \in {"rollback"} |-> Absent])
      BY <2>3 DEF InHotDir, NameOf
    <3>2. /\ MayOK' /\ hotDir' = hotDir /\ segDir' = [segDir EXCEPT !.rollback = Absent]
          /\ segDir' \in SegDirs /\ Good(hotDir, segDir', rows) => PairsOK'
      BY <1>1, <3>1, SegChanges, PutSeg
    <3> QED
      BY <1>1, <2>3, <3>2 DEF SegDirs
  <2>4. CASE file = "stagedCatalog"
    <3>1. ChangeSeg([n \in {"staged"} |-> Absent])
      BY <2>4 DEF InHotDir, NameOf
    <3>2. /\ MayOK' /\ hotDir' = hotDir /\ segDir' = [segDir EXCEPT !.staged = Absent]
          /\ segDir' \in SegDirs /\ Good(hotDir, segDir', rows) => PairsOK'
      BY <1>1, <3>1, SegChanges, PutSeg
    <3> QED
      BY <1>1, <2>4, <3>2 DEF SegDirs
  <2> QED
    BY <2>1, <2>2, <2>3, <2>4
<1>5. jn # Absent => Evidence(hotDir', segDir')
  <2>1. CASE Finished
    BY <1>1, <1>3, <1>4, <2>1, DirectoriesAssumption DEF Good, Evidence, RollbacksMatch, Finished, Copied, jn
  <2>2. CASE jn # Absent => jn.phase = "prepared" /\ jn.segment = Absent
    BY <1>1, <1>4, <2>2, DirectoriesAssumption DEF Good, Evidence, jn
  <2> QED
    BY <1>2, <2>1, <2>2
<1>6. Good(hotDir', segDir', rows)
  BY <1>1, <1>4, <1>5 DEF Good, CatalogVerified, PriorKept, CandidateLive, jn
<1>7. Retiring'
  <2>1. Finished => Finished'
    BY <1>3, <1>4 DEF Finished, Copied, RollbacksMatch, Chosen, CandidateLive, Source, PriorKept, jn
  <2>2. jn' = jn
    BY <1>4 DEF jn
  <2> QED
    BY <1>1, <1>2, <2>1, <2>2 DEF Retiring
<1> QED
  BY <1>4, <1>6, <1>7 DEF PcOK, BoundsOK

\* The journal goes last: the generation it leaves is the whole history.
LEMMA JournalRetires ==
    ASSUME Ordered, IndInv, Finished, todo = <<"journal">>, ChangeHot([n \in {"journal"} |-> Absent]),
           pc' = "retired", todo' = todo, rows' = rows, cut' = cut, faults' = faults
    PROVE  IndInv'
<1> USE DEF IndInv
<1>1. hotDir \in HotDirs /\ segDir \in SegDirs /\ Good(hotDir, segDir, rows)
  BY Here
<1>2. /\ MayOK' /\ segDir' = segDir /\ hotDir' = [hotDir EXCEPT !.journal = Absent]
      /\ hotDir' \in HotDirs /\ Good(hotDir', segDir, rows) => PairsOK'
  BY <1>1, HotChanges, PutHot
<1>3. hotDir' \in HotDirs /\ hotDir'.hot = hotDir.hot /\ hotDir'.journal = Absent
  BY <1>1, <1>2 DEF HotDirs
<1>4. jn # Absent /\ GoodJournal(jn, rows)
  BY <1>1 DEF Finished, Copied, Good, jn
<1>5. History(hotDir.hot, segDir.catalog, rows)
  <2>1. CASE Source
    BY <1>4, <2>1 DEF Source, PriorKept, GoodJournal, jn
  <2>2. CASE Chosen /\ jn.phase = "cleanup"
    <3>1. hotDir.hot = jn.staged /\ segDir.catalog = jn.candidate /\ jn.candidate # Absent
      BY <1>4, <2>2 DEF Chosen, CandidateLive, GoodJournal, jn
    <3>2. /\ jn.staged = jn.source \ jn.segment /\ jn.candidate = Append(jn.catalog, jn.segment)
          /\ Sealed(jn.source, jn.segment) /\ jn.segment # Absent /\ History(jn.source, jn.catalog, rows)
      BY <1>4, <3>1 DEF GoodJournal
    <3>3. /\ jn.source \in RowSets /\ jn.catalog \in Catalogs /\ jn.segment \in RowSets
          /\ Len(jn.catalog) < MaxGenerations /\ jn.segment \subseteq jn.source
      BY <1>4, <3>2, TypedHere DEF jn, Sealed
    <3> QED
      BY <3>1, <3>2, <3>3, SealKeepsHistory
  <2> QED
    BY <2>1, <2>2 DEF Finished
<1>6. Good(hotDir', segDir, rows)
  BY <1>1, <1>3, <1>5 DEF Good
<1>7. Retiring'
  BY <1>3 DEF Retiring, Open, jn
<1> QED
  BY <1>2, <1>3, <1>6, <1>7 DEF PcOK, BoundsOK

\* A file is retired, or was missing.
LEMMA RetireStep ==
    ASSUME Ordered, IndInv, Retire
    PROVE  IndInv'
<1>1. pc = "retire" /\ rows' = rows /\ cut' = cut /\ faults' = faults
  BY DEF Retire, At
<1>2. Retiring /\ BoundsOK'
  BY <1>1 DEF IndInv, PcOK, BoundsOK
<1>3. CASE NextToRetire /\ UNCHANGED files
  <2>1. MayOK' /\ PairsOK' /\ hotDir' = hotDir /\ segDir' = segDir
    BY <1>1, <1>3, Stays DEF IndInv
  <2> QED
    BY <1>1, <1>2, <1>3, <2>1, NextListStep
<1>4. CASE /\ pc' = "retired" /\ todo' = todo
           /\ IF InHotDir(Head(todo)) THEN ChangeHot([n \in {NameOf(Head(todo))} |-> Absent])
                                      ELSE ChangeSeg([n \in {NameOf(Head(todo))} |-> Absent])
  <2>1. PICK file : Head(todo) = file
    OBVIOUS
  <2>2. IF InHotDir(file) THEN ChangeHot([n \in {NameOf(file)} |-> Absent])
                          ELSE ChangeSeg([n \in {NameOf(file)} |-> Absent])
    BY <1>4, <2>1
  <2>3. CASE file \in {"rollbackHot", "rollbackCatalog", "stagedHot", "stagedCatalog"}
    BY <1>1, <1>4, <2>1, <2>2, <2>3, FileRetires
  <2>4. CASE file = "journal" /\ todo = <<"journal">> /\ Finished
    <3>1. ChangeHot([n \in {"journal"} |-> Absent])
      BY <2>2, <2>4 DEF InHotDir, NameOf
    <3> QED
      BY <1>1, <1>4, <2>4, <3>1, JournalRetires
  <2> QED
    BY <1>1, <1>2, <2>1, <2>3, <2>4, Lists
<1> QED
  BY <1>3, <1>4, Zenon DEF Retire, Goto

\* The invariant holds initially.
LEMMA InitInv ==
    ASSUME Init
    PROVE  IndInv
<1>1. /\ hotDir = [hot |-> {}, rollback |-> Absent, staged |-> Absent, journal |-> Absent]
      /\ segDir = [catalog |-> <<{1}>>, rollback |-> Absent, staged |-> Absent, tmp |-> Absent,
                   segs |-> [g \in Generations |-> IF g = 1 THEN {1} ELSE Absent]]
      /\ may = {<<hotDir, segDir>>} /\ rows = 1 /\ pc = "idle" /\ cut = 0 /\ faults = 0
  BY DEF Init
<1>2. {1} \in RowSets /\ {} \in RowSets /\ 1 \in Generations
  BY RotationAssumption DEF RowSets, Generations
<1> DEFINE c == <<{1}>>
<1>3. c \in Catalogs /\ DOMAIN c = {1} /\ c[1] = {1}
  <2>1. c \in [1..1 -> RowSets]
    BY <1>2
  <2> QED
    BY <1>2, <2>1 DEF Catalogs
<1>4. hotDir \in HotDirs /\ hotDir.hot = {} /\ hotDir.journal = Absent
  BY <1>1, <1>2 DEF HotDirs, Contents
<1>5. segDir.catalog = c /\ segDir.segs[1] = {1} /\ segDir \in SegDirs
  BY <1>1, <1>2, <1>3 DEF SegDirs, Contents
<1> HIDE DEF c
<1>6. Good(hotDir, segDir, 1)
  <2>1. CatalogVerified(segDir)
    BY <1>3, <1>5 DEF CatalogVerified
  <2>2. {} \union UNION {c[i] : i \in DOMAIN c} = 1..1
    BY <1>3
  <2>3. History({}, c, 1)
    BY <1>3, <2>2 DEF History
  <2> QED
    BY <1>4, <1>5, <2>1, <2>3 DEF Good
<1>7. MayOK /\ PairsOK
  BY <1>1, <1>4, <1>5, <1>6 DEF MayOK, PairsOK
<1>8. PcOK
  BY <1>1 DEF PcOK, Ready
<1>9. BoundsOK
  BY <1>1, RotationAssumption DEF BoundsOK
<1> QED
  BY <1>7, <1>8, <1>9 DEF IndInv

\* Every step keeps it.
LEMMA NextInv ==
    ASSUME Ordered, IndInv, [Next]_vars
    PROVE  IndInv'
<1>1. CASE Rotate
  BY <1>1, StartRotationStep, CopyHotStep, SyncCopyStep, CreateCatalogCopyStep, CopyCatalogStep, SyncCatalogCopyStep,
     CopyFailsStep, PrepareStep, SyncJournalStep, SealStep, FillSegmentStep, RecordSegmentStep, LinkSegmentStep,
     UnlinkSegmentStep, SyncSegmentStep, SealFailsStep, SegmentPublishedStep, StageHotStep, FillHotStep, StageFailsStep,
     RecordHotStep, StageCatalogStep, HotStagedStep, ReplaceHotStep, SyncReplacedHotStep, HotReplacedStep,
     ReplaceCatalogStep, SyncReplacedCatalogStep, CatalogReplacedStep, CleanupStep, RetireListStep, RetireStep,
     SyncRetiredStep DEF Rotate
<1>2. CASE Recover
  BY <1>2, RecoverOrphansStep, RecoverCandidateStep, SelectCandidateStep, RetireListStep, RecoverPriorStep,
     RestoreHotStep, SyncRestoredStep, SelectPriorStep, RemoveTemporaryStep, RemoveSegmentStep, SyncRemovedStep
     DEF Recover
<1>3. CASE UNCHANGED vars
  <2>1. UNCHANGED <<hotDir, segDir, may, rows, pc, then, todo, cut, faults>>
    BY <1>3 DEF vars, files, process
  <2>2. MayOK' /\ PairsOK' /\ BoundsOK'
    BY <2>1 DEF IndInv, MayOK, PairsOK, BoundsOK
  <2>3. \A p : Ready(p) => Ready(p)'
    BY <2>1, ReadyStays
  <2>4. Finished' = Finished /\ Open' = Open /\ jn' = jn
    BY <2>1 DEF Finished, Copied, Chosen, Source, Open, jn
  <2>5. Retiring => Retiring'
    BY <2>1, <2>4 DEF Retiring
  <2>6. PcOK'
    BY <2>1, <2>3, <2>5 DEF IndInv, PcOK
  <2> QED
    BY <2>2, <2>6 DEF IndInv
<1> QED
  BY <1>1, <1>2, <1>3, WriteStep, OperatorRemovesStep, KillStep, PowerLossStep DEF Next

\* The inductive invariant holds in every reachable state.
THEOREM Invariance ==
    ASSUME Ordered
    PROVE  Spec => []IndInv
<1>1. Init => IndInv
  BY InitInv
<1>2. IndInv /\ [Next]_vars => IndInv'
  BY NextInv
<1> QED
  BY <1>1, <1>2, PTL DEF Spec

\* The invariant implies the types.
LEMMA TypesFollow ==
    ASSUME IndInv
    PROVE  TypeOK
<1>1. ASSUME NEW m \in may
      PROVE  /\ m[1].hot \in RowSets /\ m[1].rollback \in Contents /\ m[1].staged \in Contents
             /\ m[1].journal # Absent => JournalOK(m[1].journal)
             /\ m[2].catalog \in Catalogs
             /\ m[2].rollback \in Catalogs \union {Absent, Torn} /\ m[2].staged \in Catalogs \union {Absent}
             /\ m[2].tmp \in Contents /\ m[2].segs \in [Generations -> RowSets \union {Absent}]
  <2>1. m[1] \in HotDirs /\ m[2] \in SegDirs /\ Good(m[1], m[2], rows)
    BY DEF IndInv, PairsOK
  <2>2. m[1].journal # Absent => m[1].journal \in Journals /\ GoodJournal(m[1].journal, rows)
    BY <2>1 DEF HotDirs, Good
  <2>3. m[1].journal # Absent => JournalOK(m[1].journal)
    BY <2>2 DEF JournalOK, GoodJournal
  <2> QED
    BY <2>1, <2>3 DEF HotDirs, SegDirs
<1> QED
  BY <1>1 DEF IndInv, TypeOK, MayOK, BoundsOK

\* The live database and the live catalog are never partly written, on disk or after a power
\* loss, and every journal that recovery may find has the records its phase needs.
THEOREM TypeCorrect ==
    ASSUME Ordered
    PROVE  Spec => []TypeOK
<1>1. IndInv => TypeOK
  BY TypesFollow
<1> QED
  BY <1>1, Invariance, PTL

\* Whenever there is no activation journal, what readers open is the whole history: every
\* committed row is in exactly one place, through rotations, kills, power losses and recoveries.
THEOREM HistorySafety ==
    ASSUME Ordered
    PROVE  Spec => []HistoryIntact
<1>1. IndInv => HistoryIntact
  BY Here DEF IndInv, HistoryIntact, Good, History, Readable
<1> QED
  BY <1>1, Invariance, PTL

\* The invariant implies that recovery finds what it needs.
LEMMA ReadyFollows ==
    ASSUME IndInv
    PROVE  RecoveryReady
<1> SUFFICES ASSUME NEW m \in may, m[1].journal # Absent, ~Stranded(m[1], m[2])
             PROVE  /\ RollbacksMatch(m[1], m[2])
                    /\ \/ CandidateReady(m[1], m[2])
                       \/ PriorReady(m[1], m[2]) /\ m[2].segs[m[1].journal.gen] \in {Absent, m[1].journal.segment}
  BY DEF RecoveryReady
<1>1. Good(m[1], m[2], rows)
  BY DEF IndInv, PairsOK
<1>2. CatalogVerified(m[2]) /\ Evidence(m[1], m[2]) /\ (PriorKept(m[1], m[2]) \/ CandidateLive(m[1], m[2]))
  BY <1>1 DEF Good
<1>3. RollbacksMatch(m[1], m[2])
  BY <1>2 DEF Evidence, Stranded, RollbacksMatch
<1>4. \/ CandidateReady(m[1], m[2])
      \/ PriorReady(m[1], m[2]) /\ m[2].segs[m[1].journal.gen] \in {Absent, m[1].journal.segment}
  BY <1>2 DEF CandidateReady, PriorReady, PriorKept, CandidateLive
<1> QED
  BY <1>3, <1>4

\* Whatever a kill or a power loss leaves behind a journal, recovery finds one of the two
\* generations complete with its rollback copies, but for a first journal whose sync failed.
THEOREM RecoverySafety ==
    ASSUME Ordered
    PROVE  Spec => []RecoveryReady
<1>1. IndInv => RecoveryReady
  BY ReadyFollows
<1> QED
  BY <1>1, Invariance, PTL

(***************************************************************************)
(* The refinement.                                                         *)
(***************************************************************************)

\* The hot database and the catalog that a pair of directories stands for.
View(h, s) ==
    IF h.journal = Absent THEN <<h.hot, s.catalog>>
    ELSE IF s.catalog = h.journal.candidate THEN <<h.journal.staged, h.journal.candidate>>
    ELSE <<h.journal.source, h.journal.catalog>>

\* Whatever a power loss leaves stands for the same,
Agreed == \A m \in may : View(m[1], m[2]) = View(hotDir, segDir)

\* ... except while the new catalog is not durable: a power loss may leave either generation.
Waiting == pc \in {"idle", "syncCatalog", "selectCandidate"} \/ (pc = "syncJournal" /\ then = "retireCandidate")
Undecided ==
    /\ jn # Absent /\ segDir.catalog = jn.candidate
    /\ \A m \in may :
          /\ m[1].journal # Absent
          /\ m[1].journal.source = jn.source /\ m[1].journal.catalog = jn.catalog /\ m[1].journal.segment = jn.segment
          /\ m[1].journal.staged = jn.staged /\ m[1].journal.candidate = jn.candidate
    /\ \E m \in may : m[2].catalog # jn.candidate
    /\ Waiting

\* A step of the contract, or a stutter.
ContractStep == [Contract!Next]_(Contract!vars)

\* A power loss would leave the directories as they are; so it is before the catalog is
\* replaced.
Lone == may = {<<hotDir, segDir>>}
LoneOK == pc = "replaceCatalog" => Lone

\* A step leaves journal, catalog and an open hot database as they are.
Plain ==
    /\ hotDir'.journal = hotDir.journal /\ segDir'.catalog = segDir.catalog
    /\ hotDir.journal = Absent => hotDir'.hot = hotDir.hot

\* The rows a pair of directories stands for do not depend on anything else.
LEMMA ViewAlike ==
    ASSUME NEW h, NEW s, NEW g, NEW t, g.journal = h.journal, t.catalog = s.catalog,
           h.journal = Absent => g.hot = h.hot
    PROVE  View(g, t) = View(h, s)
BY DEF View

\* When all pairs agree, the current generation is what each of them stands for.
LEMMA CurrentAgreed ==
    ASSUME MayOK, PairsOK, Agreed
    PROVE  <<CurrentHot, CurrentSegments>> = View(hotDir, segDir)
<1>1. CASE ~Closed
  BY <1>1 DEF Closed, CurrentHot, CurrentSegments, View
<1>2. CASE Closed /\ segDir.catalog = jn.candidate
  <2>1. View(hotDir, segDir) = <<jn.staged, jn.candidate>>
    BY <1>2 DEF Closed, View, jn
  <2>2. ASSUME NEW m \in may PROVE m[2].catalog = jn.candidate
    <3>1. View(m[1], m[2]) = <<jn.staged, jn.candidate>> /\ Good(m[1], m[2], rows)
      BY <2>1 DEF Agreed, PairsOK
    <3>2. CASE m[1].journal = Absent
      BY <3>1, <3>2 DEF View
    <3>3. CASE m[1].journal # Absent /\ m[2].catalog = m[1].journal.candidate
      BY <3>1, <3>3 DEF View
    <3>4. CASE m[1].journal # Absent /\ m[2].catalog # m[1].journal.candidate
      <4>1. m[2].catalog = m[1].journal.catalog
        BY <3>1, <3>4 DEF Good, PriorKept, CandidateLive
      <4> QED
        BY <3>1, <3>4, <4>1 DEF View
    <3> QED
      BY <3>2, <3>3, <3>4
  <2>3. Decided
    BY <2>2 DEF Decided, jn
  <2> QED
    BY <1>2, <2>1, <2>3 DEF CurrentHot, CurrentSegments, jn
<1>3. CASE Closed /\ segDir.catalog # jn.candidate
  <2>1. ~Decided
    BY <1>3 DEF Decided, MayOK, jn
  <2> QED
    BY <1>3, <2>1 DEF Closed, CurrentHot, CurrentSegments, View, jn
<1> QED
  BY <1>1, <1>2, <1>3

\* Until the catalog is durable, the prior generation is the current one.
LEMMA CurrentUndecided ==
    ASSUME Undecided
    PROVE  Closed /\ CurrentHot = jn.source /\ CurrentSegments = jn.catalog
BY DEF Undecided, Closed, Decided, CurrentHot, CurrentSegments, jn

\* Opening and closing keep the rows.
LEMMA SameRows ==
    ASSUME CurrentHot' = CurrentHot, CurrentSegments' = CurrentSegments
    PROVE  ContractStep
BY DEF ContractStep, Contract!Next, Contract!Close, Contract!Reopen, Contract!vars, Closed

\* All pairs agree, and the step keeps what they stand for.
LEMMA AgreedStep ==
    ASSUME MayOK, PairsOK, MayOK', PairsOK', Agreed,
           \A m \in may' : View(m[1], m[2]) = View(hotDir, segDir)
    PROVE  Agreed' /\ ContractStep
<1>1. View(hotDir', segDir') = View(hotDir, segDir)
  BY DEF MayOK
<1>2. Agreed'
  BY <1>1 DEF Agreed
<1>3. (<<CurrentHot, CurrentSegments>> = View(hotDir, segDir))'
  BY <1>2, CurrentAgreed, PTL
<1>4. <<CurrentHot, CurrentSegments>> = View(hotDir, segDir)
  BY CurrentAgreed
<1>5. CurrentHot' = CurrentHot /\ CurrentSegments' = CurrentSegments
  BY <1>1, <1>3, <1>4
<1> QED
  BY <1>2, <1>5, SameRows

\* A rotation takes effect.
LEMMA TakesEffect ==
    ASSUME NEW j \in Journals, NEW n, GoodJournal(j, n), j.candidate # Absent, Closed, Closed',
           CurrentHot = j.source, CurrentSegments = j.catalog, CurrentHot' = j.staged, CurrentSegments' = j.candidate
    PROVE  ContractStep
<1>1. /\ j.staged = j.source \ j.segment /\ j.candidate = Append(j.catalog, j.segment)
      /\ Sealed(j.source, j.segment) /\ j.source \subseteq Int
  BY DEF GoodJournal, Journals, RowSets
<1>2. PICK c \in j.source : j.segment = {r \in j.source : r <= c}
  BY <1>1 DEF Sealed
<1>3. j.staged = {r \in j.source : r > c}
  BY <1>1, <1>2
<1>4. Contract!Rotate
  BY <1>1, <1>2, <1>3 DEF Contract!Rotate
<1> QED
  BY <1>4 DEF ContractStep, Contract!Next

\* What is known of the journal then.
LEMMA UndecidedJournal ==
    ASSUME MayOK, PairsOK, Undecided
    PROVE  /\ jn \in Journals /\ GoodJournal(jn, rows) /\ jn.candidate # Absent
           /\ View(hotDir, segDir) = <<jn.staged, jn.candidate>>
BY Here, TypedHere DEF Undecided, Good, View, jn

\* A rotation without a durable catalog ends with one of the pairs it may leave.
LEMMA UndecidedEnds ==
    ASSUME MayOK, PairsOK, MayOK', PairsOK', Undecided, NEW m \in may,
           may' = {<<hotDir', segDir'>>}, hotDir'.journal = m[1].journal, segDir'.catalog = m[2].catalog
    PROVE  Agreed' /\ ContractStep
<1>1. /\ jn \in Journals /\ GoodJournal(jn, rows) /\ jn.candidate # Absent
  BY UndecidedJournal
<1>2. Closed /\ CurrentHot = jn.source /\ CurrentSegments = jn.catalog
  BY CurrentUndecided
<1>3. Agreed'
  BY DEF Agreed
<1>4. (<<CurrentHot, CurrentSegments>> = View(hotDir, segDir))'
  BY <1>3, CurrentAgreed, PTL
<1>5. /\ hotDir'.journal # Absent /\ hotDir'.journal.source = jn.source /\ hotDir'.journal.catalog = jn.catalog
      /\ hotDir'.journal.staged = jn.staged /\ hotDir'.journal.candidate = jn.candidate
  BY DEF Undecided
<1>6. Closed'
  BY <1>5 DEF Closed
<1>7. CASE segDir'.catalog = jn.candidate
  <2>1. CurrentHot' = jn.staged /\ CurrentSegments' = jn.candidate
    BY <1>4, <1>5, <1>7 DEF View
  <2>2. PICK j : j = jn
    OBVIOUS
  <2> QED
    BY <1>1, <1>2, <1>3, <1>6, <2>1, <2>2, TakesEffect
<1>8. CASE segDir'.catalog # jn.candidate
  <2>1. CurrentHot' = jn.source /\ CurrentSegments' = jn.catalog
    BY <1>4, <1>5, <1>8 DEF View
  <2> QED
    BY <1>2, <1>3, <2>1, SameRows
<1> QED
  BY <1>7, <1>8

\* A rotation without a durable catalog goes on.
LEMMA UndecidedStays ==
    ASSUME Undecided, may' \subseteq may \union {<<hotDir', segDir'>>}, may \subseteq may', segDir'.catalog = segDir.catalog,
           hotDir'.journal # Absent,
           hotDir'.journal.source = jn.source, hotDir'.journal.catalog = jn.catalog, hotDir'.journal.segment = jn.segment,
           hotDir'.journal.staged = jn.staged, hotDir'.journal.candidate = jn.candidate,
           pc' \in {"idle", "syncCatalog", "selectCandidate"} \/ (pc' = "syncJournal" /\ then' = "retireCandidate")
    PROVE  Undecided' /\ ContractStep
<1>1. Undecided'
  BY DEF Undecided, Waiting, jn
<1>2. (Closed /\ CurrentHot = jn.source /\ CurrentSegments = jn.catalog)'
  BY <1>1, CurrentUndecided, PTL
<1>3. Closed /\ CurrentHot = jn.source /\ CurrentSegments = jn.catalog
  BY CurrentUndecided
<1>4. CurrentHot' = CurrentHot /\ CurrentSegments' = CurrentSegments
  BY <1>2, <1>3 DEF jn
<1> QED
  BY <1>1, <1>4, SameRows

\* Changes of other names of the hot directory.
LEMMA HotPlain ==
    ASSUME Ordered, MayOK, PairsOK, NEW c, ChangeHot(c), "journal" \notin DOMAIN c,
           hotDir.journal # Absent \/ "hot" \notin DOMAIN c
    PROVE  Plain /\ may' = may \union {<<hotDir', segDir'>>}
<1>1. hotDir' = Put(hotDir, c) /\ segDir' = segDir /\ may' = may \union {<<hotDir', segDir'>>}
  BY DEF ChangeHot
<1>2. DOMAIN hotDir = {"hot", "rollback", "staged", "journal"}
  BY Here DEF HotDirs
<1> QED
  BY <1>1, <1>2 DEF Plain, Put

\* Changes of other names of the segments directory.
LEMMA SegPlain ==
    ASSUME Ordered, MayOK, PairsOK, NEW c, ChangeSeg(c), "catalog" \notin DOMAIN c
    PROVE  Plain /\ may' = may \union {<<hotDir', segDir'>>}
<1>1. segDir' = Put(segDir, c) /\ hotDir' = hotDir /\ may' = may \union {<<hotDir', segDir'>>}
  BY DEF ChangeSeg
<1>2. DOMAIN segDir = {"catalog", "rollback", "staged", "tmp", "segs"}
  BY Here DEF SegDirs
<1> QED
  BY <1>1, <1>2 DEF Plain, Put

\* Such a step keeps the rows that all pairs stand for.
LEMMA PlainStep ==
    ASSUME IndInv, IndInv', Agreed, Plain, may' \subseteq may \union {<<hotDir', segDir'>>}
    PROVE  Agreed' /\ ContractStep
<1>1. View(hotDir', segDir') = View(hotDir, segDir)
  BY ViewAlike DEF Plain
<1>2. \A m \in may' : View(m[1], m[2]) = View(hotDir, segDir)
  BY <1>1 DEF Agreed
<1> QED
  BY <1>2, AgreedStep DEF IndInv

\* So does the completion of a file.
LEMMA CompletedView ==
    ASSUME NEW d, NEW name, NEW content, NEW other, other # name
    PROVE  Completed(d, name, content)[other] = d[other]
BY DEF Completed

\* A completed file is in no generation yet.
LEMMA CompleteRows ==
    ASSUME IndInv, IndInv', Agreed, NEW content,
           \/ CompleteHot("rollback", content) \/ CompleteHot("staged", content)
           \/ CompleteSeg("rollback", content) \/ CompleteSeg("tmp", content)
    PROVE  Agreed' /\ ContractStep
<1>1. CASE CompleteHot("rollback", content) \/ CompleteHot("staged", content)
  <2>1. PICK name \in {"rollback", "staged"} : may' = {<<Completed(m[1], name, content), m[2]>> : m \in may}
    BY <1>1 DEF CompleteHot
  <2>2. ASSUME NEW m \in may PROVE View(Completed(m[1], name, content), m[2]) = View(hotDir, segDir)
    <3>1. /\ Completed(m[1], name, content).journal = m[1].journal
          /\ Completed(m[1], name, content).hot = m[1].hot
      BY CompletedView
    <3> QED
      BY <3>1, ViewAlike DEF Agreed
  <2> QED
    BY <2>1, <2>2, AgreedStep DEF IndInv
<1>2. CASE CompleteSeg("rollback", content) \/ CompleteSeg("tmp", content)
  <2>1. PICK name \in {"rollback", "tmp"} : may' = {<<m[1], Completed(m[2], name, content)>> : m \in may}
    BY <1>2 DEF CompleteSeg
  <2>2. ASSUME NEW m \in may PROVE View(m[1], Completed(m[2], name, content)) = View(hotDir, segDir)
    <3>1. Completed(m[2], name, content).catalog = m[2].catalog
      BY CompletedView
    <3> QED
      BY <3>1, ViewAlike DEF Agreed
  <2> QED
    BY <2>1, <2>2, AgreedStep DEF IndInv
<1> QED
  BY <1>1, <1>2

\* A sync or a step without files.
LEMMA StillRows ==
    ASSUME Ordered, IndInv, IndInv', Agreed, SyncHot \/ SyncSeg \/ UNCHANGED files
    PROVE  Agreed' /\ ContractStep
<1>1. hotDir' = hotDir /\ segDir' = segDir /\ may' \subseteq may \union {<<hotDir', segDir'>>}
  BY DEF SyncHot, SyncSeg, files
<1>2. Plain
  BY <1>1 DEF Plain
<1> QED
  BY <1>1, <1>2, PlainStep

\* A journal that changes only its phase.
LEMMA PhaseRows ==
    ASSUME Ordered, IndInv, IndInv', Agreed, jn # Absent, NEW p, NEW q, NEW phase \in Phases,
           PutJournal(p, WithPhase(phase), q)
    PROVE  Agreed' /\ ContractStep
<1> DEFINE j == WithPhase(phase)
<1>1. jn \in Journals
  BY TypedHere DEF IndInv, jn
<1>2. /\ j \in Journals /\ j.source = jn.source /\ j.catalog = jn.catalog /\ j.staged = jn.staged
      /\ j.candidate = jn.candidate
  BY <1>1 DEF WithPhase, Journals, jn
<1> HIDE DEF j
<1>3. hotDir'.journal = j /\ segDir' = segDir /\ j # Absent
  BY <1>2, JournalPut DEF j
<1>4. may' = may \union {<<hotDir', segDir'>>}
  BY DEF PutJournal, ChangeHot
<1>5. View(hotDir', segDir') = View(hotDir, segDir)
  BY <1>2, <1>3 DEF View, jn
<1>6. \A m \in may' : View(m[1], m[2]) = View(hotDir, segDir)
  BY <1>4, <1>5 DEF Agreed
<1> QED
  BY <1>6, AgreedStep DEF IndInv

\* A journal that is put in place while the prior generation is the current one.
LEMMA PriorRows ==
    ASSUME Ordered, IndInv, IndInv', Agreed, NEW p, NEW q, NEW j \in Journals, PutJournal(p, j, q),
           View(hotDir, segDir) = <<j.source, j.catalog>>, j.catalog = segDir.catalog
    PROVE  Agreed' /\ ContractStep
<1>1. hotDir'.journal = j /\ segDir' = segDir /\ j # Absent
  BY JournalPut
<1>2. j.candidate # j.catalog
  <2>1. (MayOK /\ PairsOK /\ jn # Absent)'
    BY <1>1 DEF IndInv, jn
  <2>2. (jn.candidate # jn.catalog)'
    BY <2>1, CandidateDiffers, PTL
  <2> QED
    BY <1>1, <2>2 DEF jn
<1>3. View(hotDir', segDir') = <<j.source, j.catalog>>
  BY <1>1, <1>2 DEF View
<1>4. may' = may \union {<<hotDir', segDir'>>}
  BY DEF PutJournal, ChangeHot
<1>5. \A m \in may' : View(m[1], m[2]) = View(hotDir, segDir)
  BY <1>3, <1>4 DEF Agreed
<1> QED
  BY <1>5, AgreedStep DEF IndInv

\* The first journal closes the history.
LEMMA PrepareRows ==
    ASSUME Ordered, IndInv, IndInv', Agreed, Prepare
    PROVE  Agreed' /\ ContractStep
<1> DEFINE j == [phase |-> "prepared", gen |-> Len(segDir.catalog) + 1,
                 source |-> hotDir.hot, catalog |-> segDir.catalog,
                 segment |-> Absent, staged |-> Absent, candidate |-> Absent]
<1>1. PutJournal("prepare", j, "seal")
  BY Zenon DEF Prepare
<1>2. pc = "prepare" /\ Ready("prepare")
  BY DEF Prepare, PutJournal, At, IndInv, PcOK
<1>3. /\ segDir.catalog \in Catalogs /\ hotDir.hot \in RowSets
      /\ Len(segDir.catalog) < MaxGenerations /\ hotDir.journal = Absent
  BY <1>2, TypedHere DEF IndInv, Ready, Open, jn
<1>4. Len(segDir.catalog) + 1 \in Generations
  BY <1>3, CatalogGrows DEF RowSets
<1>5. j \in Journals /\ j.source = hotDir.hot /\ j.catalog = segDir.catalog
  BY <1>3, <1>4 DEF Journals, Phases
<1> HIDE DEF j
<1>6. View(hotDir, segDir) = <<j.source, j.catalog>>
  BY <1>3, <1>5 DEF View
<1> QED
  BY <1>1, <1>5, <1>6, PriorRows

\* While the hot database of the journal's prior generation is live.
LEMMA SourceView ==
    ASSUME IndInv, Source
    PROVE  /\ View(hotDir, segDir) = <<jn.source, jn.catalog>> /\ segDir.catalog = jn.catalog
           /\ jn \in Journals /\ jn # Absent
<1>1. jn # Absent /\ segDir.catalog = jn.catalog
  BY DEF Source, PriorKept, jn
<1>2. jn.candidate # jn.catalog /\ jn \in Journals
  BY <1>1, CandidateDiffers, TypedHere DEF IndInv, jn
<1> QED
  BY <1>1, <1>2 DEF View, jn

\* The journal records the segment.
LEMMA RecordSegmentRows ==
    ASSUME Ordered, IndInv, IndInv', Agreed, RecordSegment
    PROVE  Agreed' /\ ContractStep
<1> DEFINE j == [hotDir.journal EXCEPT !.segment = segDir.tmp]
<1>1. PutJournal("recordSegment", j, "linkSegment")
  BY Zenon DEF RecordSegment
<1>2. Source /\ segDir.tmp = Below(jn.source)
  BY DEF RecordSegment, PutJournal, At, IndInv, PcOK, Ready
<1>3. /\ View(hotDir, segDir) = <<jn.source, jn.catalog>> /\ segDir.catalog = jn.catalog /\ jn \in Journals
  BY <1>2, SourceView
<1>4. j \in Journals /\ j.source = jn.source /\ j.catalog = jn.catalog
  BY <1>2, <1>3 DEF Journals, RowSets, Below, jn
<1> HIDE DEF j
<1> QED
  BY <1>1, <1>3, <1>4, PriorRows

\* The journal records the new hot database.
LEMMA RecordHotRows ==
    ASSUME Ordered, IndInv, IndInv', Agreed, RecordHot
    PROVE  Agreed' /\ ContractStep
<1> DEFINE j == [hotDir.journal EXCEPT !.staged = hotDir.staged]
<1>1. PutJournal("recordHot", j, "stageCatalog")
  BY Zenon DEF RecordHot
<1>2. Source /\ hotDir.staged = jn.source \ jn.segment
  BY DEF RecordHot, PutJournal, At, IndInv, PcOK, Ready
<1>3. /\ View(hotDir, segDir) = <<jn.source, jn.catalog>> /\ segDir.catalog = jn.catalog /\ jn \in Journals
  BY <1>2, SourceView
<1>4. j \in Journals /\ j.source = jn.source /\ j.catalog = jn.catalog
  BY <1>2, <1>3 DEF Journals, RowSets, jn
<1> HIDE DEF j
<1> QED
  BY <1>1, <1>3, <1>4, PriorRows

\* The journal records the new catalog.
LEMMA HotStagedRows ==
    ASSUME Ordered, IndInv, IndInv', Agreed, HotStaged
    PROVE  Agreed' /\ ContractStep
<1> DEFINE j == [hotDir.journal EXCEPT !.phase = "hot-staged", !.candidate = segDir.staged]
<1>1. PutJournal("hotStaged", j, "replaceHot")
  BY Zenon DEF HotStaged, WithPhase
<1>2. Source /\ segDir.staged = Append(jn.catalog, jn.segment) /\ jn.segment # Absent
  BY DEF HotStaged, PutJournal, At, IndInv, PcOK, Ready
<1>3. /\ View(hotDir, segDir) = <<jn.source, jn.catalog>> /\ segDir.catalog = jn.catalog
      /\ jn \in Journals /\ jn # Absent
  BY <1>2, SourceView
<1>4. segDir.staged \in Catalogs
  BY <1>2, <1>3, CatalogGrows, TypedHere DEF IndInv, jn
<1>5. j \in Journals /\ j.source = jn.source /\ j.catalog = jn.catalog
  BY <1>3, <1>4 DEF Journals, Phases, jn
<1> HIDE DEF j
<1> QED
  BY <1>1, <1>3, <1>5, PriorRows

\* The journal goes when the directories are one of its generations.
LEMMA RetireRows ==
    ASSUME Ordered, IndInv, IndInv', Agreed, Retire
    PROVE  Agreed' /\ ContractStep
<1>1. pc = "retire" /\ Retiring
  BY DEF Retire, At, IndInv, PcOK
<1>2. CASE UNCHANGED files
  BY <1>2, StillRows
<1>3. CASE /\ IF InHotDir(Head(todo)) THEN ChangeHot([n \in {NameOf(Head(todo))} |-> Absent])
                                      ELSE ChangeSeg([n \in {NameOf(Head(todo))} |-> Absent])
  <2>1. PICK file : Head(todo) = file
    OBVIOUS
  <2>2. IF InHotDir(file) THEN ChangeHot([n \in {NameOf(file)} |-> Absent])
                          ELSE ChangeSeg([n \in {NameOf(file)} |-> Absent])
    BY <1>3, <2>1
  <2>3. CASE file \in {"rollbackHot", "rollbackCatalog", "stagedHot", "stagedCatalog"}
    <3>1. NameOf(file) \in {"rollback", "staged"}
      BY <2>3 DEF NameOf
    <3>2. PICK c : DOMAIN c = {NameOf(file)} /\ (ChangeHot(c) \/ ChangeSeg(c))
      BY <2>2
    <3>3. Plain /\ may' = may \union {<<hotDir', segDir'>>}
      BY <3>1, <3>2, HotPlain, SegPlain DEF IndInv
    <3> QED
      BY <3>3, PlainStep
  <2>4. CASE file = "journal" /\ Finished
    <3>1. ChangeHot([n \in {"journal"} |-> Absent])
      BY <2>2, <2>4 DEF InHotDir, NameOf
    <3>2. hotDir \in HotDirs
      BY Here DEF IndInv
    <3>3. /\ hotDir' = [hotDir EXCEPT !.journal = Absent] /\ segDir' = segDir
          /\ may' = may \union {<<hotDir', segDir'>>}
      BY <3>1, <3>2, PutHot DEF ChangeHot
    <3>4. View(hotDir', segDir') = <<hotDir.hot, segDir.catalog>>
      BY <3>2, <3>3 DEF View, HotDirs
    <3>5. View(hotDir, segDir) = <<hotDir.hot, segDir.catalog>>
      <4>1. CASE Source
        BY <4>1, SourceView DEF Source, PriorKept, jn
      <4>2. CASE Chosen
        BY <4>2 DEF Chosen, CandidateLive, View, jn
      <4> QED
        BY <2>4, <4>1, <4>2 DEF Finished
    <3>6. \A m \in may' : View(m[1], m[2]) = View(hotDir, segDir)
      BY <3>3, <3>4, <3>5 DEF Agreed
    <3> QED
      BY <3>6, AgreedStep DEF IndInv
  <2> QED
    BY <1>1, <2>1, <2>3, <2>4, Lists
<1> QED
  BY <1>2, <1>3, Zenon DEF Retire

\* A row is added.
LEMMA WriteRows ==
    ASSUME Ordered, IndInv, IndInv', Agreed, Write
    PROVE  Agreed' /\ ContractStep
<1>1. /\ hotDir.journal = Absent /\ rows \in Nat /\ rows > 0
      /\ CommitHot([hot |-> hotDir.hot \union {rows + 1}])
  BY RotationAssumption DEF Write, IndInv, BoundsOK
<1> DEFINE v == hotDir.hot \union {rows + 1}
<1>2. hotDir \in HotDirs /\ Good(hotDir, segDir, rows)
  BY Here DEF IndInv
<1>3. hotDir' = [hotDir EXCEPT !.hot = v] /\ segDir' = segDir /\ may' = {<<hotDir', segDir'>>}
  BY <1>1, <1>2, PutHot DEF CommitHot
<1>4. hotDir'.hot = v /\ hotDir'.journal = Absent
  BY <1>1, <1>2, <1>3 DEF HotDirs
<1>5. Agreed'
  BY <1>3 DEF Agreed
<1>6. /\ ~Closed /\ CurrentHot = hotDir.hot /\ CurrentSegments = segDir.catalog
      /\ ~Closed' /\ CurrentHot' = v /\ CurrentSegments' = segDir.catalog
  BY <1>1, <1>3, <1>4 DEF Closed, CurrentHot, CurrentSegments
<1>7. Contract!Rows = 1..rows
  BY <1>1, <1>2, <1>6 DEF Contract!Rows, Good, History
<1>8. rows + 1 \in {r + 1 : r \in Contract!Rows} \ Contract!Rows
  BY <1>1, <1>7
<1>9. Contract!Add
  BY <1>6, <1>8 DEF Contract!Add
<1> QED
  BY <1>5, <1>9 DEF ContractStep, Contract!Next

\* The catalog is replaced, and does not count until it is durable.
LEMMA ReplaceCatalogRows ==
    ASSUME Ordered, IndInv, IndInv', Lone, ReplaceCatalog
    PROVE  Undecided' /\ ContractStep
<1>1. pc' = "syncCatalog" /\ Ready("replaceCatalog")
  BY DEF ReplaceCatalog, At, Goto, IndInv, PcOK
<1>2. /\ Replaced /\ segDir.staged = jn.candidate /\ jn # Absent /\ segDir.catalog = jn.catalog
  BY <1>1 DEF Ready, Replaced, PriorKept, jn
<1>3. jn.candidate # jn.catalog
  BY <1>2, CandidateDiffers DEF IndInv
<1>4. PICK c : /\ ChangeSeg(c) /\ DOMAIN c = {"catalog", "staged"} /\ c["catalog"] = segDir.staged /\ c["staged"] = Absent
  BY DEF ReplaceCatalog
<1>5. segDir \in SegDirs
  BY Here DEF IndInv
<1>6. hotDir' = hotDir /\ segDir' = Put(segDir, c) /\ may' = may \union {<<hotDir', segDir'>>}
  BY <1>4 DEF ChangeSeg
<1>7. segDir'.catalog = jn.candidate
  BY <1>2, <1>4, <1>5, <1>6 DEF Put, SegDirs
<1>8. may' = {<<hotDir, segDir>>, <<hotDir, segDir'>>}
  BY <1>6 DEF Lone
<1>9. Undecided'
  <2>1. \A m \in may' : m[1] = hotDir
    BY <1>8
  <2>2. \E m \in may' : m[2].catalog # jn.candidate
    <3>1. <<hotDir, segDir>> \in may' /\ <<hotDir, segDir>>[2].catalog # jn.candidate
      BY <1>2, <1>3, <1>8
    <3> QED
      BY <3>1
  <2>3. jn' = jn
    BY <1>6 DEF jn
  <2> QED
    BY <1>1, <1>2, <1>7, <2>1, <2>2, <2>3 DEF Undecided, Waiting, jn
<1>10. (Closed /\ CurrentHot = jn.source /\ CurrentSegments = jn.catalog)'
  BY <1>9, CurrentUndecided, PTL
<1>11. ~Decided
  BY <1>2, <1>3 DEF Lone, Decided, jn
<1>12. CurrentHot = jn.source /\ CurrentSegments = jn.catalog
  BY <1>2, <1>11 DEF Closed, CurrentHot, CurrentSegments, jn
<1>13. CurrentHot' = CurrentHot /\ CurrentSegments' = CurrentSegments
  BY <1>6, <1>10, <1>12 DEF jn
<1> QED
  BY <1>9, <1>13, SameRows

\* The leftovers are in no generation.
LEMMA OperatorRemovesPlain ==
    ASSUME IndInv, OperatorRemoves
    PROVE  Plain /\ may' = {<<hotDir', segDir'>>}
<1>1. /\ hotDir' = hotDir \/ hotDir' = [hotDir EXCEPT !.staged = Absent]
      /\ \E a \in {segDir.tmp, Absent}, b \in {segDir.staged, Absent} : segDir' = [segDir EXCEPT !.tmp = a, !.staged = b]
      /\ may' = {<<hotDir', segDir'>>}
  BY DEF OperatorRemoves
<1>2. hotDir \in HotDirs /\ segDir \in SegDirs
  BY Here DEF IndInv
<1> QED
  BY <1>1, <1>2 DEF Plain, HotDirs, SegDirs

\* A power loss leaves one of the pairs, which all stand for the same rows.
LEMMA PowerLossRows ==
    ASSUME Ordered, IndInv, IndInv', Agreed \/ Undecided, PowerLoss
    PROVE  Agreed' /\ ContractStep
<1>1. PICK m \in may : hotDir' = m[1] /\ segDir' = m[2] /\ may' = {m}
  BY DEF PowerLoss, Reboot
<1>2. may' = {<<hotDir', segDir'>>}
  BY <1>1 DEF IndInv, MayOK
<1>3. CASE Agreed
  BY <1>1, <1>3, AgreedStep DEF IndInv, Agreed
<1>4. CASE Undecided
  BY <1>1, <1>2, <1>4, UndecidedEnds DEF IndInv
<1> QED
  BY <1>3, <1>4

\* Until the catalog is durable, these steps of a rotation are possible,
LEMMA WaitingRotate ==
    ASSUME Waiting, Rotate
    PROVE  StartRotation \/ SyncReplacedCatalog \/ SyncJournal
<1> USE DEF Waiting, At, PutJournal
<1>1. ~(CopyHot \/ SyncCopy \/ CreateCatalogCopy \/ CopyCatalog \/ SyncCatalogCopy \/ CopyFails)
  BY DEF CopyHot, SyncCopy, CreateCatalogCopy, CopyCatalog, SyncCatalogCopy, CopyFails
<1>2. ~(Prepare \/ Seal \/ FillSegment \/ RecordSegment \/ LinkSegment \/ UnlinkSegment \/ SyncSegment \/ SealFails)
  BY DEF Prepare, Seal, FillSegment, RecordSegment, LinkSegment, UnlinkSegment, SyncSegment, SealFails
<1>3. ~(SegmentPublished \/ StageHot \/ FillHot \/ StageFails \/ RecordHot \/ StageCatalog \/ HotStaged)
  BY DEF SegmentPublished, StageHot, FillHot, StageFails, RecordHot, StageCatalog, HotStaged
<1>4. ~(ReplaceHot \/ SyncReplacedHot \/ HotReplaced \/ ReplaceCatalog \/ CatalogReplaced)
  BY DEF ReplaceHot, SyncReplacedHot, HotReplaced, ReplaceCatalog, CatalogReplaced
<1>5. ~(Cleanup \/ RetireRollbacks \/ Retire \/ SyncRetired)
  BY DEF Cleanup, RetireRollbacks, Retire, SyncRetired
<1> QED
  BY <1>1, <1>2, <1>3, <1>4, <1>5 DEF Rotate

\* and these of a recovery.
LEMMA WaitingRecover ==
    ASSUME Waiting, Recover
    PROVE  RecoverOrphans \/ RecoverCandidate \/ SelectCandidate \/ RecoverPrior
<1> USE DEF Waiting, At, PutJournal
<1>1. ~(RetireCandidate \/ RestoreHot \/ SyncRestored \/ SelectPrior)
  BY DEF RetireCandidate, RestoreHot, SyncRestored, SelectPrior
<1>2. ~(RemoveTemporary \/ RemoveSegment \/ SyncRemoved \/ RetirePrior)
  BY DEF RemoveTemporary, RemoveSegment, SyncRemoved, RetirePrior
<1> QED
  BY <1>1, <1>2 DEF Recover

\* A rotation waits for its catalog, takes effect, or is undone by a power loss.
LEMMA UndecidedNext ==
    ASSUME Ordered, IndInv, IndInv', Undecided, Next
    PROVE  (Agreed' \/ Undecided') /\ ContractStep
<1>1. Waiting /\ jn # Absent /\ segDir.catalog = jn.candidate
  BY DEF Undecided, Waiting
<1>2. MayOK /\ PairsOK /\ MayOK' /\ PairsOK' /\ <<hotDir, segDir>> \in may
  BY DEF IndInv, MayOK
<1>3. CASE SyncReplacedCatalog \/ SyncJournal
  <2>1. hotDir' = hotDir /\ segDir' = segDir /\ may' = {<<hotDir', segDir'>>}
    BY <1>3 DEF SyncReplacedCatalog, SyncJournal, SyncHot, SyncSeg
  <2>2. PICK m \in may : m[1] = hotDir /\ m[2] = segDir
    BY <1>2
  <2> QED
    BY <1>2, <2>1, <2>2, UndecidedEnds
<1>4. CASE OperatorRemoves
  <2>1. Plain /\ may' = {<<hotDir', segDir'>>}
    BY <1>4, OperatorRemovesPlain
  <2>2. PICK m \in may : m[1] = hotDir /\ m[2] = segDir
    BY <1>2
  <2> QED
    BY <1>2, <2>1, <2>2, UndecidedEnds DEF Plain
<1>5. CASE RecoverCandidate \/ Kill
  <2>1. UNCHANGED files /\ pc' \in {"selectCandidate", "idle"}
    BY <1>5 DEF RecoverCandidate, Kill, Goto, Stops
  <2> QED
    BY <1>1, <2>1, UndecidedStays DEF files, jn
<1>6. CASE SelectCandidate
  <2> DEFINE j == WithPhase("cleanup")
  <2>1. PutJournal("selectCandidate", j, "retireCandidate")
    BY <1>6, Zenon DEF SelectCandidate
  <2>2. jn \in Journals
    BY <1>1, <1>2, TypedHere DEF jn
  <2>3. /\ j \in Journals /\ j.source = jn.source /\ j.catalog = jn.catalog /\ j.staged = jn.staged
        /\ j.candidate = jn.candidate /\ j.segment = jn.segment
    BY <2>2 DEF WithPhase, Journals, Phases, jn
  <2> HIDE DEF j
  <2>4. hotDir'.journal = j /\ segDir' = segDir /\ j # Absent /\ pc' = "syncJournal" /\ then' = "retireCandidate"
    BY <2>1, <2>3, JournalPut
  <2>5. may' = may \union {<<hotDir', segDir'>>}
    BY <2>1 DEF PutJournal, ChangeHot
  <2> QED
    BY <2>3, <2>4, <2>5, UndecidedStays
<1>7. CASE PowerLoss
  BY <1>7, PowerLossRows
<1>8. ~(StartRotation \/ RecoverOrphans \/ Write)
  BY <1>1 DEF StartRotation, RecoverOrphans, Write, jn
<1>9. ~RecoverPrior
  BY <1>1, <1>2, CandidateDiffers DEF RecoverPrior, PriorReady, jn
<1> QED
  BY <1>1, <1>3, <1>4, <1>5, <1>6, <1>7, <1>8, <1>9, WaitingRotate, WaitingRecover DEF Next

\* The catalog is replaced right after a sync.
LEMMA LoneRotate ==
    ASSUME Ordered, Rotate, pc' = "replaceCatalog"
    PROVE  Lone'
<1> USE DEF Goto, PutJournal
<1>1. ~(StartRotation \/ CopyHot \/ SyncCopy \/ CreateCatalogCopy \/ CopyCatalog \/ SyncCatalogCopy \/ CopyFails)
  BY DEF StartRotation, CopyHot, SyncCopy, CreateCatalogCopy, CopyCatalog, SyncCatalogCopy, CopyFails
<1>2. ~(Prepare \/ Seal \/ FillSegment \/ RecordSegment \/ LinkSegment \/ UnlinkSegment \/ SyncSegment \/ SealFails)
  BY DEF Prepare, Seal, FillSegment, RecordSegment, LinkSegment, UnlinkSegment, SyncSegment, SealFails
<1>3. ~(SegmentPublished \/ StageHot \/ FillHot \/ StageFails \/ RecordHot \/ StageCatalog \/ HotStaged)
  BY DEF SegmentPublished, StageHot, FillHot, StageFails, RecordHot, StageCatalog, HotStaged
<1>4. ~(ReplaceHot \/ SyncReplacedHot \/ HotReplaced \/ ReplaceCatalog \/ SyncReplacedCatalog \/ CatalogReplaced)
  BY DEF ReplaceHot, SyncReplacedHot, HotReplaced, ReplaceCatalog, SyncReplacedCatalog, CatalogReplaced
<1>5. ~(Cleanup \/ RetireRollbacks \/ Retire \/ SyncRetired)
  BY DEF Cleanup, RetireRollbacks, Retire, SyncRetired, NextToRetire
<1>6. SyncJournal
  BY <1>1, <1>2, <1>3, <1>4, <1>5 DEF Rotate
<1> QED
  BY <1>6 DEF SyncJournal, SyncHot, Lone

\* The same for every step.
LEMMA LoneNext ==
    ASSUME Ordered, Next, LoneOK
    PROVE  LoneOK'
<1> SUFFICES ASSUME pc' = "replaceCatalog" PROVE Lone'
  BY DEF LoneOK
<1> USE DEF Goto, PutJournal
<1>1. ~(RecoverOrphans \/ RecoverCandidate \/ SelectCandidate \/ RetireCandidate \/ RecoverPrior \/ RestoreHot)
  BY DEF RecoverOrphans, RecoverCandidate, SelectCandidate, RetireCandidate, RecoverPrior, RestoreHot
<1>2. ~(SyncRestored \/ SelectPrior \/ RemoveTemporary \/ RemoveSegment \/ SyncRemoved \/ RetirePrior)
  BY DEF SyncRestored, SelectPrior, RemoveTemporary, RemoveSegment, SyncRemoved, RetirePrior
<1>3. ~(Write \/ OperatorRemoves \/ Kill \/ PowerLoss)
  BY DEF Write, OperatorRemoves, Kill, PowerLoss, Stops, At, process
<1> QED
  BY <1>1, <1>2, <1>3, LoneRotate DEF Next, Recover

\* The steps that change a name nobody reads the current generation from.
LEMMA PlainActions ==
    ASSUME Ordered, IndInv,
           \/ StartRotation \/ CreateCatalogCopy \/ Seal \/ LinkSegment \/ UnlinkSegment \/ SealFails
           \/ StageHot \/ StageFails \/ StageCatalog \/ ReplaceHot \/ RestoreHot \/ RemoveSegment
    PROVE  Plain /\ may' \subseteq may \union {<<hotDir', segDir'>>}
<1>1. CASE CreateCatalogCopy \/ Seal \/ LinkSegment \/ UnlinkSegment \/ SealFails \/ StageCatalog \/ RemoveSegment
  <2>1. PICK c : ChangeSeg(c) /\ "catalog" \notin DOMAIN c
    BY <1>1 DEF CreateCatalogCopy, Seal, LinkSegment, UnlinkSegment, SealFails, StageCatalog, RemoveSegment, Segment
  <2> QED
    BY <2>1, SegPlain DEF IndInv
<1>2. CASE StartRotation \/ StageHot \/ StageFails
  <2>1. PICK c : ChangeHot(c) /\ DOMAIN c \in {{"rollback"}, {"staged"}}
    BY <1>2 DEF StartRotation, StageHot, StageFails
  <2> QED
    BY <2>1, HotPlain DEF IndInv
<1>3. CASE ReplaceHot \/ RestoreHot
  <2>1. hotDir.journal # Absent
    BY <1>3 DEF ReplaceHot, RestoreHot, At, IndInv, PcOK, Ready, Source, Replaced, jn
  <2>2. PICK c : ChangeHot(c) /\ DOMAIN c \in {{"hot", "staged"}, {"hot"}}
    BY <1>3 DEF ReplaceHot, RestoreHot
  <2> QED
    BY <2>1, <2>2, HotPlain DEF IndInv
<1> QED
  BY <1>1, <1>2, <1>3

\* The steps of a rotation.
LEMMA AgreedRotate ==
    ASSUME Ordered, IndInv, IndInv', LoneOK, Agreed, Rotate
    PROVE  (Agreed' \/ Undecided') /\ ContractStep
<1>1. CASE \/ StartRotation \/ CreateCatalogCopy \/ Seal \/ LinkSegment \/ UnlinkSegment \/ SealFails
           \/ StageHot \/ StageFails \/ StageCatalog \/ ReplaceHot
  BY <1>1, PlainActions, PlainStep
<1>2. CASE CopyHot \/ CopyCatalog \/ FillSegment \/ FillHot
  BY <1>2, CompleteRows DEF CopyHot, CopyCatalog, FillSegment, FillHot
<1>3. CASE \/ SyncCopy \/ SyncCatalogCopy \/ CopyFails \/ SyncJournal \/ SyncSegment \/ SyncReplacedHot
           \/ SyncReplacedCatalog \/ RetireRollbacks \/ SyncRetired
  <2>1. SyncHot \/ SyncSeg \/ UNCHANGED files
    BY <1>3 DEF SyncCopy, SyncCatalogCopy, CopyFails, SyncJournal, SyncSegment, SyncReplacedHot, SyncReplacedCatalog,
                RetireRollbacks, SyncRetired
  <2> QED
    BY <2>1, StillRows
<1>4. CASE SegmentPublished \/ HotReplaced \/ CatalogReplaced \/ Cleanup
  <2>1. jn # Absent
    BY <1>4 DEF SegmentPublished, HotReplaced, CatalogReplaced, Cleanup, PutJournal, At, IndInv, PcOK, Ready,
                Source, Replaced, Chosen
  <2>2. \E p, q, phase : phase \in Phases /\ PutJournal(p, WithPhase(phase), q)
    BY <1>4 DEF SegmentPublished, HotReplaced, CatalogReplaced, Cleanup, Phases
  <2> QED
    BY <2>1, <2>2, PhaseRows
<1>5. CASE ReplaceCatalog
  <2>1. Lone
    BY <1>5 DEF LoneOK, ReplaceCatalog, At
  <2> QED
    BY <1>5, <2>1, ReplaceCatalogRows
<1> QED
  BY <1>1, <1>2, <1>3, <1>4, <1>5, PrepareRows, RecordSegmentRows, RecordHotRows, HotStagedRows, RetireRows DEF Rotate

\* The steps of a recovery.
LEMMA AgreedRecover ==
    ASSUME Ordered, IndInv, IndInv', Agreed, Recover
    PROVE  Agreed' /\ ContractStep
<1>1. CASE RestoreHot \/ RemoveSegment
  BY <1>1, PlainActions, PlainStep
<1>2. CASE \/ RecoverOrphans \/ RecoverCandidate \/ RetireCandidate \/ RecoverPrior \/ SyncRestored \/ SyncRemoved
           \/ RetirePrior
  <2>1. SyncHot \/ SyncSeg \/ UNCHANGED files
    BY <1>2
       DEF RecoverOrphans, RecoverCandidate, RetireCandidate, RecoverPrior, SyncRestored,
           SyncRemoved, RetirePrior
  <2> QED
    BY <2>1, StillRows
<1>3. CASE SelectCandidate \/ SelectPrior
  <2>1. jn # Absent
    BY <1>3 DEF SelectCandidate, SelectPrior, PutJournal, At, IndInv, PcOK, Ready, Source, Chosen
  <2>2. \E p, q, phase : phase \in Phases /\ PutJournal(p, WithPhase(phase), q)
    BY <1>3 DEF SelectCandidate, SelectPrior, Phases
  <2> QED
    BY <2>1, <2>2, PhaseRows
<1>4. CASE RemoveTemporary
  <2>1. CASE UNCHANGED files
    BY <2>1, StillRows
  <2>2. CASE ChangeSeg([tmp |-> Absent])
    <3>1. PICK c : ChangeSeg(c) /\ "catalog" \notin DOMAIN c
      BY <2>2
    <3>2. Plain /\ may' \subseteq may \union {<<hotDir', segDir'>>}
      BY <3>1, SegPlain DEF IndInv
    <3> QED
      BY <3>2, PlainStep
  <2> QED
    BY <1>4, <2>1, <2>2 DEF RemoveTemporary
<1> QED
  BY <1>1, <1>2, <1>3, <1>4 DEF Recover

\* Every step is one of the contract, or none.
LEMMA NextRows ==
    ASSUME Ordered, IndInv, IndInv', LoneOK, Agreed \/ Undecided, [Next]_vars
    PROVE  LoneOK' /\ (Agreed' \/ Undecided') /\ ContractStep
<1>1. CASE UNCHANGED vars
  <2>1. UNCHANGED <<hotDir, segDir, may, pc, then>>
    BY <1>1 DEF vars, files, process
  <2>2. LoneOK' /\ (Agreed' \/ Undecided') /\ CurrentHot' = CurrentHot /\ CurrentSegments' = CurrentSegments
    BY <2>1 DEF LoneOK, Lone, Agreed, Undecided, Waiting, CurrentHot, CurrentSegments, Closed, Decided, jn
  <2> QED
    BY <2>2, SameRows
<1>2. CASE Next /\ Undecided
  BY <1>2, UndecidedNext, LoneNext
<1>3. CASE Next /\ Agreed
  <2> SUFFICES (Agreed' \/ Undecided') /\ ContractStep
    BY <1>3, LoneNext
  <2>1. CASE Rotate
    BY <1>3, <2>1, AgreedRotate
  <2>2. CASE Recover
    BY <1>3, <2>2, AgreedRecover
  <2>3. CASE Write
    BY <1>3, <2>3, WriteRows
  <2>4. CASE OperatorRemoves
    <3>1. Plain /\ may' \subseteq may \union {<<hotDir', segDir'>>}
      BY <2>4, OperatorRemovesPlain
    <3> QED
      BY <1>3, <3>1, PlainStep
  <2>5. CASE Kill
    BY <1>3, <2>5, StillRows DEF Kill
  <2>6. CASE PowerLoss
    BY <2>6, PowerLossRows
  <2> QED
    BY <1>3, <2>1, <2>2, <2>3, <2>4, <2>5, <2>6 DEF Next
<1> QED
  BY <1>1, <1>2, <1>3

\* The history starts as the contract says.
LEMMA InitRows ==
    ASSUME Init
    PROVE  LoneOK /\ Agreed /\ Contract!Init
<1>1. /\ hotDir.hot = {} /\ hotDir.journal = Absent /\ segDir.catalog = <<{1}>> /\ may = {<<hotDir, segDir>>}
  BY DEF Init
<1> QED
  BY <1>1 DEF LoneOK, Lone, Agreed, Contract!Init, Closed, CurrentHot, CurrentSegments

\* Rotation implements HistoryContract: readers see each rotation entirely or not at all, a
\* rotation that took effect is never undone, and no row is lost or moved otherwise.
THEOREM Refinement ==
    ASSUME Ordered
    PROVE  Spec => ImplementsContract
<1>1. Init => LoneOK /\ (Agreed \/ Undecided) /\ Contract!Init
  BY InitRows
<1>2. /\ IndInv /\ IndInv' /\ LoneOK /\ (Agreed \/ Undecided) /\ [Next]_vars
      => (LoneOK /\ (Agreed \/ Undecided))' /\ [Contract!Next]_(Contract!vars)
  BY NextRows DEF ContractStep
<1> QED
  BY <1>1, <1>2, Invariance, PTL DEF Spec, ImplementsContract, Contract!Spec
=============================================================================
