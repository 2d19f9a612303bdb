---------------------- MODULE MigrationRefinementProofs ---------------------
(***************************************************************************)
(* Migration implements its contract: with open and history mapped as in   *)
(* HistoryMigration, every step of it is a step of MigrationContract or    *)
(* none.                                                                   *)
(*                                                                         *)
(* Rows is a function of all that a power loss may leave.  The proof shows *)
(* that this is nearly always what any one pair of directories stands for  *)
(* (View), because all of them agree; the exception is a rollback that has *)
(* replaced the live database and not synced it.                           *)
(***************************************************************************)
EXTENDS HistoryMigrationProofs

\* The rows that the service has written.
Positive(content) == {r \in content : r > 0}

\* The rows that a pair of directories stands for, taken by itself.
View(h, s) ==
    LET m == s.marker
        known == IF m.operation = "forward" THEN m.source
                 ELSE IF Base(h, s) = m.rollback THEN m.rollback
                 ELSE m.source \union s.catalog.segment
    IN  Positive(IF m # Absent THEN known \union Divergent(h, m)
                 ELSE h.hot \union IF s.catalog = Absent THEN {} ELSE s.catalog.segment)

\* Two segments directories with the same marker and catalog.
Alike(s, t) == s.marker = t.marker /\ s.catalog = t.catalog

\* Whatever a power loss leaves stands for the same rows,
Agreed == \A h \in Hots, s \in Segs : View(h, s) = View(hotDir, segDir)

\* The part of the rows up to a last one.
Initial(part, whole) == \E last \in whole : part = {r \in whole : r <= last}

\* ... except while a rollback has replaced the live database and not synced it: a power
\* loss may leave either generation.
Undecided ==
    /\ RollingBack(segDir) /\ hotDir.hot = marker.rollback
    /\ \A h \in Hots : h.hot \in {marker.source, marker.rollback}
    /\ \A s \in Segs : Alike(segDir, s)
    /\ Initial(Positive(marker.source \union segDir.catalog.segment),
               Positive(marker.source \union segDir.catalog.segment))

\* The snapshot of a rollback is an initial part of the rows.
InitialOK(h, s) ==
    /\ s.marker = Absent /\ s.catalog # Absent =>
          Initial(Positive(s.catalog.rollback), Positive(h.hot \union s.catalog.segment))
    /\ RollingBack(s) => Initial(Positive(s.marker.rollback), Positive(s.marker.source \union s.catalog.segment))

\* The rows have a last one.
HasLast == Initial(View(hotDir, segDir), View(hotDir, segDir))
PrefixOK == \A h \in Hots, s \in Segs : InitialOK(h, s)

\* The inductive invariant of the refinement.
RowsInv == (Agreed \/ Undecided) /\ HasLast /\ PrefixOK

\* A step of the contract, or a stutter.
ContractStep == [Contract!Next]_(Contract!vars)

\* The rows of a v1 history.
LEMMA ViewV1 ==
    ASSUME NEW h, NEW s, s.marker = Absent, s.catalog = Absent
    PROVE  View(h, s) = Positive(h.hot)
BY DEF View, Positive

\* The rows of a segmented history.
LEMMA ViewCatalog ==
    ASSUME NEW h, NEW s, s.marker = Absent, s.catalog # Absent
    PROVE  View(h, s) = Positive(h.hot \union s.catalog.segment)
BY DEF View

\* The rows of a pending migration.
LEMMA ViewForward ==
    ASSUME NEW h, NEW s, Pending(s)
    PROVE  View(h, s) = Positive(s.marker.source \union Divergent(h, s.marker))
BY DEF View, Pending

\* The rows of a rollback that has restored the snapshot.
LEMMA ViewDone ==
    ASSUME NEW h, NEW s, s.marker # Absent, s.marker.operation = "rollback", Base(h, s) = s.marker.rollback
    PROVE  View(h, s) = Positive(s.marker.rollback \union Divergent(h, s.marker))
BY DEF View

\* The rows of a rollback that has not.
LEMMA ViewKept ==
    ASSUME NEW h, NEW s, s.marker # Absent, s.marker.operation = "rollback", Base(h, s) # s.marker.rollback
    PROVE  View(h, s) = Positive(s.marker.source \union s.catalog.segment \union Divergent(h, s.marker))
BY DEF View

\* Rows depend on the marker and the catalog only.
LEMMA AlikeView ==
    ASSUME NEW h, NEW s, NEW t, Alike(s, t)
    PROVE  View(h, s) = View(h, t) /\ (InitialOK(h, s) => InitialOK(h, t))
<1>1. View(h, s) = View(h, t)
  BY DEF Alike, View, Base, Divergent
<1>2. InitialOK(h, s) => InitialOK(h, t)
  BY DEF Alike, InitialOK, RollingBack
<1> QED
  BY <1>1, <1>2

\* A live database is what the operation knows and what has diverged.
LEMMA BaseIs ==
    ASSUME NEW h, NEW s
    PROVE  h.hot \ Divergent(h, s.marker) = Base(h, s)
BY DEF Divergent, Base

\* The condition on "may" in Rows
LEMMA Restored ==
    ASSUME IndInv
    PROVE  (\A x \in may : x[1].hot \ Divergent(x[1], marker) = marker.rollback)
              <=> (\A h \in Hots : Base(h, segDir) = marker.rollback)
<1>1. \A h \in Hots : h.hot \ Divergent(h, marker) = Base(h, segDir)
  BY BaseIs DEF marker
<1> QED
  BY <1>1 DEF Hots

\* Rows of an open history, or of a pending migration.
LEMMA RowsOpen ==
    ASSUME marker = Absent \/ marker.operation = "forward"
    PROVE  Rows = View(hotDir, segDir)
BY DEF Rows, View, Positive, marker

\* Rows when every live database that may be left is the snapshot.
LEMMA RowsDone ==
    ASSUME IndInv, marker # Absent, marker.operation = "rollback", \A h \in Hots : Base(h, segDir) = marker.rollback
    PROVE  Rows = Positive(marker.rollback \union Divergent(hotDir, marker))
<1>1. \A x \in may : x[1].hot \ Divergent(x[1], marker) = marker.rollback
  BY Restored
<1> QED
  BY <1>1 DEF Rows, Positive

\* Rows when one is not.
LEMMA RowsKept ==
    ASSUME IndInv, marker # Absent, marker.operation = "rollback", ~\A h \in Hots : Base(h, segDir) = marker.rollback
    PROVE  Rows = Positive(marker.source \union segDir.catalog.segment \union Divergent(hotDir, marker))
<1>1. ~\A x \in may : x[1].hot \ Divergent(x[1], marker) = marker.rollback
  BY Restored
<1> QED
  BY <1>1 DEF Rows, Positive

\* A live database that the marker names has not diverged.
LEMMA Within ==
    ASSUME NEW h, NEW s, h.hot \in {s.marker.source, s.marker.rollback}
    PROVE  Base(h, s) = h.hot /\ Divergent(h, s.marker) = {}
BY DEF Base, Divergent

\* Rows between the restoration of a rollback and its sync: they are those of the snapshot
\* once no power loss brings the others back.
LEMMA RowsUndecided ==
    ASSUME IndInv, Undecided
    PROVE  /\ marker # Absent /\ View(hotDir, segDir) = Positive(marker.rollback)
           /\ (\A h \in Hots : h.hot = marker.rollback) => Rows = Positive(marker.rollback)
           /\ (\E h \in Hots : h.hot # marker.rollback) => Rows = Positive(marker.source \union segDir.catalog.segment)
<1>1. marker # Absent /\ marker.operation = "rollback" /\ marker = segDir.marker
  BY DEF Undecided, RollingBack, marker
<1>2. \A h \in Hots : Base(h, segDir) = h.hot /\ Divergent(h, marker) = {}
  <2> SUFFICES ASSUME NEW h \in Hots PROVE Base(h, segDir) = h.hot /\ Divergent(h, marker) = {}
    OBVIOUS
  <2>1. h.hot \in {segDir.marker.source, segDir.marker.rollback}
    BY <1>1 DEF Undecided
  <2> QED
    BY <1>1, <2>1 DEF Base, Divergent
<1>3. Base(hotDir, segDir) = marker.rollback /\ Divergent(hotDir, marker) = {}
  BY <1>2, Here DEF Undecided
<1>4. View(hotDir, segDir) = Positive(marker.rollback)
  <2>1. View(hotDir, segDir) = Positive(marker.rollback \union Divergent(hotDir, marker))
    BY <1>1, <1>3, ViewDone
  <2> QED
    BY <1>3, <2>1
<1>5. ASSUME \A h \in Hots : h.hot = marker.rollback PROVE Rows = Positive(marker.rollback)
  BY <1>1, <1>2, <1>3, <1>5, RowsDone DEF Positive
<1>6. ASSUME \E h \in Hots : h.hot # marker.rollback PROVE Rows = Positive(marker.source \union segDir.catalog.segment)
  BY <1>1, <1>2, <1>3, <1>6, RowsKept DEF Positive
<1> QED
  BY <1>1, <1>4, <1>5, <1>6

\* Rows when all that may be left agree.
LEMMA RowsAgreed ==
    ASSUME IndInv, Agreed
    PROVE  Rows = View(hotDir, segDir)
<1>1. CASE marker = Absent \/ marker.operation = "forward"
  BY <1>1, RowsOpen
<1>2. CASE marker # Absent /\ marker.operation # "forward"
  <2>1. marker.operation = "rollback" /\ marker = segDir.marker
    BY <1>2, Here DEF SegDirs, Markers, marker
  <2>2. CASE \A h \in Hots : Base(h, segDir) = marker.rollback
    BY <1>2, <2>1, <2>2, Here, RowsDone, ViewDone
  <2>3. CASE ~\A h \in Hots : Base(h, segDir) = marker.rollback
    <3>1. Rows = Positive(marker.source \union segDir.catalog.segment \union Divergent(hotDir, marker))
      BY <1>2, <2>1, <2>3, RowsKept
    <3>2. CASE Base(hotDir, segDir) # marker.rollback
      BY <1>2, <2>1, <3>1, <3>2, ViewKept
    <3>3. CASE Base(hotDir, segDir) = marker.rollback
      <4>1. PICK h \in Hots : Base(h, segDir) # marker.rollback
        BY <2>3
      <4>2. ~OneHot
        BY <3>3, <4>1 DEF OneHot
      <4>3. /\ hotDir.hot \in {marker.source, marker.rollback} /\ h.hot \in {marker.source, marker.rollback}
        BY <2>1, <4>2 DEF IndInv, HotsOK, Forward, Pending, RollingBack
      <4>4. Divergent(h, marker) = {} /\ Divergent(hotDir, marker) = {}
        BY <2>1, <4>3, Within
      <4>5. View(h, segDir) = Positive(marker.source \union segDir.catalog.segment \union Divergent(h, marker))
        BY <1>2, <2>1, <4>1, ViewKept
      <4> QED
        BY <3>1, <4>4, <4>5, Here DEF Agreed
    <3> QED
      BY <3>2, <3>3
  <2> QED
    BY <2>2, <2>3
<1> QED
  BY <1>1, <1>2

\* One directory state only: nothing is undecided.
LEMMA OneHotAgreed ==
    ASSUME IndInv, RowsInv, OneHot
    PROVE  Agreed
<1>1. CASE Undecided
  BY <1>1, AlikeView DEF Undecided, OneHot, Agreed
<1> QED
  BY <1>1 DEF RowsInv

\* A step that keeps the rows closes, reopens or leaves the abstract history alone.
LEMMA SameRows ==
    ASSUME Rows' = Rows
    PROVE  ContractStep
BY DEF ContractStep, Contract!Next, Contract!Close, Contract!Reopen, Contract!vars

\* A step that keeps an initial part of them, with an operation pending, rolls it back.
LEMMA RolledBack ==
    ASSUME marker # Absent, marker' # Absent, Initial(Rows', Rows)
    PROVE  ContractStep
BY DEF ContractStep, Contract!Next, Contract!RollBack, Initial

\* RowsAgreed after a step.
LEMMA RowsAgreedNext ==
    ASSUME IndInv', Agreed'
    PROVE  Rows' = View(hotDir', segDir')
<1>1. (Rows = View(hotDir, segDir))'
  BY RowsAgreed, PTL
<1> QED
  BY <1>1

\* RowsUndecided as one formula.
LEMMA UndecidedValue ==
    IndInv /\ Undecided => 
       /\ marker # Absent /\ View(hotDir, segDir) = Positive(marker.rollback)
       /\ (\A h \in Hots : h.hot = marker.rollback) => Rows = Positive(marker.rollback)
       /\ (\E h \in Hots : h.hot # marker.rollback) => Rows = Positive(marker.source \union segDir.catalog.segment)
BY RowsUndecided

\* RowsUndecided after a step.
LEMMA RowsUndecidedNext ==
    ASSUME IndInv', Undecided'
    PROVE  /\ marker' # Absent /\ View(hotDir', segDir') = Positive(marker'.rollback)
           /\ (\A h \in Hots' : h.hot = marker'.rollback) => Rows' = Positive(marker'.rollback)
           /\ (\E h \in Hots' : h.hot # marker'.rollback) =>
                 Rows' = Positive(marker'.source \union segDir'.catalog.segment)
<1>1. (/\ marker # Absent /\ View(hotDir, segDir) = Positive(marker.rollback)
       /\ (\A h \in Hots : h.hot = marker.rollback) => Rows = Positive(marker.rollback)
       /\ (\E h \in Hots : h.hot # marker.rollback) => Rows = Positive(marker.source \union segDir.catalog.segment))'
  BY UndecidedValue, PTL
<1> QED
  BY <1>1

\* A step that keeps the live database, the marker and the catalog.
LEMMA QuietRows ==
    ASSUME IndInv, RowsInv, IndInv', hotDir' = hotDir, Alike(segDir, segDir'), Hots' \subseteq Hots,
           \A t \in Segs' : \E s \in Segs : Alike(s, t)
    PROVE  RowsInv' /\ ContractStep
<1>1. View(hotDir', segDir') = View(hotDir, segDir)
  BY AlikeView
<1>2. HasLast'
  BY <1>1 DEF RowsInv, HasLast
<1>3. PrefixOK'
  <2> SUFFICES ASSUME NEW h \in Hots', NEW t \in Segs' PROVE InitialOK(h, t)
    BY DEF PrefixOK
  <2>1. PICK s \in Segs : Alike(s, t)
    OBVIOUS
  <2> QED
    BY <2>1, AlikeView DEF RowsInv, PrefixOK
<1>4. CASE Agreed
  <2>1. Agreed'
    <3> SUFFICES ASSUME NEW h \in Hots', NEW t \in Segs' PROVE View(h, t) = View(hotDir', segDir')
      BY DEF Agreed
    <3>1. PICK s \in Segs : Alike(s, t)
      OBVIOUS
    <3> QED
      BY <1>1, <1>4, <3>1, AlikeView DEF Agreed
  <2>2. Rows' = Rows
    BY <1>1, <1>4, <2>1, RowsAgreed, RowsAgreedNext
  <2> QED
    BY <1>2, <1>3, <2>1, <2>2, SameRows DEF RowsInv
<1>5. CASE Undecided
  <2>1. marker' = marker /\ segDir'.catalog = segDir.catalog /\ segDir'.marker = segDir.marker
    BY DEF Alike, marker
  <2>2. Undecided'
    <3>1. \A t \in Segs' : Alike(segDir', t)
      BY <1>5 DEF Undecided, Alike
    <3> QED
      BY <1>5, <2>1, <3>1 DEF Undecided, RollingBack
  <2>3. Initial(Positive(marker.rollback), Positive(marker.source \union segDir.catalog.segment))
    BY <1>5, Here DEF RowsInv, PrefixOK, InitialOK, Undecided, marker
  <2>4. Rows' = Rows \/ Initial(Rows', Rows)
    BY <1>5, <2>1, <2>2, <2>3, RowsUndecided, RowsUndecidedNext
  <2>5. marker # Absent
    BY <1>5 DEF Undecided, RollingBack, marker
  <2>6. ContractStep
    BY <2>1, <2>4, <2>5, SameRows, RolledBack
  <2> QED
    BY <1>2, <1>3, <2>2, <2>6 DEF RowsInv
<1> QED
  BY <1>4, <1>5 DEF RowsInv

\* A step that changes the marker or the catalog while the live database is settled.
LEMMA SwitchRows ==
    ASSUME IndInv, RowsInv, IndInv', OneHot, hotDir' = hotDir, Hots' = Hots, Segs' = Segs \union {segDir'},
           View(hotDir, segDir') = View(hotDir, segDir), InitialOK(hotDir, segDir')
    PROVE  RowsInv' /\ ContractStep
<1>1. Agreed
  BY OneHotAgreed
<1>2. Agreed'
  BY <1>1 DEF Agreed, OneHot
<1>3. HasLast'
  BY DEF RowsInv, HasLast
<1>4. PrefixOK'
  BY DEF RowsInv, PrefixOK, OneHot
<1>5. Rows' = Rows
  BY <1>1, <1>2, RowsAgreed, RowsAgreedNext
<1> QED
  BY <1>2, <1>3, <1>4, <1>5, SameRows DEF RowsInv

\* A change of other names keeps the marker and the catalog.
LEMMA PutKeeps ==
    ASSUME NEW s \in SegDirs, NEW c, "marker" \notin DOMAIN c, "catalog" \notin DOMAIN c
    PROVE  Alike(s, Put(s, c))
BY DEF Alike, Put, SegDirs

\* Such a change keeps the rows.
LEMMA ChangeSegRows ==
    ASSUME IndInv, RowsInv, IndInv', NEW c, ChangeSeg(c), "marker" \notin DOMAIN c, "catalog" \notin DOMAIN c
    PROVE  RowsInv' /\ ContractStep
<1>1. hotDir' = hotDir /\ segDir' = Put(segDir, c) /\ Hots' = Hots /\ Segs' = Segs \union {segDir'}
  BY ChangeSegEffect DEF IndInv
<1>2. Alike(segDir, segDir')
  BY <1>1, Here, PutKeeps
<1>3. \A t \in Segs' : \E s \in Segs : Alike(s, t)
  BY <1>1, <1>2, Here DEF Alike
<1> QED
  BY <1>1, <1>2, <1>3, QuietRows

\* So does the completion of a file.
LEMMA CompleteSegRows ==
    ASSUME IndInv, RowsInv, IndInv', NEW name \in {"tmp", "rollback"}, NEW content, CompleteSeg(name, content)
    PROVE  RowsInv' /\ ContractStep
<1>1. /\ hotDir' = hotDir /\ segDir' = Completed(segDir, name, content) /\ Hots' = Hots
      /\ Segs' = {Completed(s, name, content) : s \in Segs}
  BY CompleteSegEffect DEF IndInv
<1>2. ASSUME NEW s \in Segs PROVE Alike(s, Completed(s, name, content))
  <2>1. s \in SegDirs
    BY DEF IndInv, DirsOK
  <2> QED
    BY <2>1 DEF Alike, Completed, SegDirs
<1>3. Alike(segDir, segDir')
  BY <1>1, <1>2, Here
<1>4. \A t \in Segs' : \E s \in Segs : Alike(s, t)
  BY <1>1, <1>2
<1> QED
  BY <1>1, <1>3, <1>4, QuietRows

\* A sync keeps the rows, or completes a rollback.
LEMMA SyncedRows ==
    ASSUME IndInv, RowsInv, IndInv', SyncHot \/ SyncSeg \/ UNCHANGED files
    PROVE  RowsInv' /\ ContractStep
<1>1. hotDir' = hotDir /\ segDir' = segDir /\ Hots' \subseteq Hots /\ Segs' \subseteq Segs
  BY Here, SyncHotEffect, SyncSegEffect, FilesEffect DEF IndInv
<1>2. Alike(segDir, segDir') /\ \A t \in Segs' : \E s \in Segs : Alike(s, t)
  BY <1>1 DEF Alike
<1> QED
  BY <1>1, <1>2, QuietRows

\* The operator's removals do, like a sync.
LEMMA OperatorRemovesRows ==
    ASSUME IndInv, RowsInv, IndInv', OperatorRemoves
    PROVE  RowsInv' /\ ContractStep
<1>1. hotDir' = hotDir /\ may' = {<<hotDir, segDir'>>}
  BY DEF OperatorRemoves
<1>2. segDir'.marker = segDir.marker /\ segDir'.catalog = segDir.catalog
  BY Here DEF OperatorRemoves, SegDirs
<1>3. Hots' = {hotDir} /\ Segs' = {segDir'}
  BY <1>1 DEF Hots, Segs
<1>4. Alike(segDir, segDir')
  BY <1>2 DEF Alike
<1> QED
  BY <1>1, <1>3, <1>4, Here, QuietRows

\* What is written in a marker's or a catalog's place.
LEMMA PutRows ==
    ASSUME IndInv, IndInv', PutJson
    PROVE  /\ hotDir' = hotDir /\ Hots' = Hots /\ Segs' = Segs \union {segDir'}
           /\ Putting /\ then' = then /\ Ready(then)' /\ (then = "clear" => Published')
           /\ (out.name = "marker" => segDir'.catalog = segDir.catalog)
           /\ (out.name = "catalog" => segDir'.marker = segDir.marker)
<1> DEFINE c == IF out.replace THEN [n \in {out.name, "json"} |-> IF n = "json" THEN Absent ELSE out.value]
                ELSE [n \in {out.name} |-> out.value]
<1>1. ChangeSeg(c)
  BY Zenon DEF PutJson
<1>2. DOMAIN c \subseteq {out.name, "json"}
  OBVIOUS
<1> HIDE DEF c
<1>3. hotDir' = hotDir /\ segDir' = Put(segDir, c) /\ Hots' = Hots /\ Segs' = Segs \union {segDir'}
  BY <1>1, ChangeSegEffect DEF IndInv
<1>4. Putting /\ then' = then /\ pc' \in {"syncJson", "unlinkJson"}
  BY DEF PutJson, At, Goto, IndInv, PcOK
<1>5. Ready(then)' /\ (then = "clear" => Published')
  BY <1>4 DEF IndInv, PcOK
<1>6. /\ (out.name = "marker" => segDir'.catalog = segDir.catalog)
      /\ (out.name = "catalog" => segDir'.marker = segDir.marker)
  BY <1>2, <1>3, Here DEF Put, SegDirs
<1> QED
  BY <1>3, <1>4, <1>5, <1>6

\* A migration that has not replaced the live database stands for its rows.
LEMMA AtSource ==
    ASSUME NEW h, NEW s, Pending(s), h.hot = s.marker.source
    PROVE  View(h, s) = Positive(h.hot)
<1>1. Divergent(h, s.marker) = {}
  BY DEF Divergent
<1> QED
  BY <1>1, ViewForward

\* The first marker of a migration, and the records it makes before the live database changes.
LEMMA PutForwardRows ==
    ASSUME IndInv, RowsInv, IndInv', PutJson, then \in {"seal", "linkSegment", "replaceHot"}
    PROVE  RowsInv' /\ ContractStep
<1>1. /\ hotDir' = hotDir /\ Hots' = Hots /\ Segs' = Segs \union {segDir'}
      /\ Putting /\ then' = then /\ Ready(then)'
  BY PutRows
<1>2. Forward(segDir') /\ hotDir'.hot = segDir'.marker.source
  BY <1>1 DEF Ready, marker
<1>3. View(hotDir, segDir') = Positive(hotDir.hot)
  BY <1>1, <1>2, AtSource DEF Forward
<1>4. View(hotDir, segDir) = Positive(hotDir.hot) /\ OneHot
  <2>1. CASE then = "seal"
    <3>1. V1(segDir)
      BY <1>1, <2>1 DEF Putting, Ready
    <3> QED
      BY <3>1, ViewV1 DEF V1, IndInv, HotsOK, Forward, Pending, RollingBack
  <2>2. CASE then \in {"linkSegment", "replaceHot"}
    <3>1. Forward(segDir) /\ hotDir.hot = segDir.marker.source /\ marker.phase # "hot-ready"
      BY <1>1, <2>2 DEF Putting, Ready, marker
    <3>2. OneHot
      BY <3>1 DEF IndInv, HotsOK, Forward, Pending, RollingBack
    <3> QED
      BY <3>1, <3>2, AtSource DEF Forward
  <2> QED
    BY <2>1, <2>2
<1>5. InitialOK(hotDir, segDir')
  BY <1>2 DEF InitialOK, Forward, Pending, RollingBack
<1> QED
  BY <1>1, <1>3, <1>4, <1>5, SwitchRows

\* The catalog of a migration changes no row.
LEMMA PutCatalogRows ==
    ASSUME IndInv, RowsInv, IndInv', PutJson, then = "clear"
    PROVE  RowsInv' /\ ContractStep
<1>1. /\ hotDir' = hotDir /\ Hots' = Hots /\ Segs' = Segs \union {segDir'}
      /\ Putting /\ then' = then /\ (out.name = "catalog" => segDir'.marker = segDir.marker)
  BY PutRows
<1>2. Ready("catalog") /\ OneHot /\ out.name = "catalog"
  BY <1>1 DEF Putting
<1>3. Pending(segDir) /\ Pending(segDir') /\ segDir'.marker = segDir.marker
  BY <1>1, <1>2 DEF Ready, Forward, Pending
<1>4. View(hotDir, segDir') = View(hotDir, segDir)
  BY <1>3, ViewForward
<1>5. InitialOK(hotDir, segDir')
  BY <1>3 DEF InitialOK, Pending, RollingBack
<1> QED
  BY <1>1, <1>2, <1>4, <1>5, SwitchRows

\* The rows of a rollback that has not begun to restore: those of its source.
LEMMA NotRestored ==
    ASSUME NEW h, NEW s, RollingBack(s), GoodRollback(h, s), h.hot = s.marker.source
    PROVE  View(h, s) = Positive(s.marker.source \union s.catalog.segment)
<1>1. Base(h, s) = s.marker.source /\ Divergent(h, s.marker) = {}
  BY Within
<1>2. CASE Base(h, s) = s.marker.rollback
  <2>1. s.catalog.segment = {}
    BY <1>1, <1>2 DEF GoodRollback
  <2>2. View(h, s) = Positive(s.marker.rollback \union Divergent(h, s.marker))
    BY <1>2, ViewDone DEF RollingBack
  <2> QED
    BY <1>1, <1>2, <2>1, <2>2
<1>3. CASE Base(h, s) # s.marker.rollback
  <2>1. View(h, s) = Positive(s.marker.source \union s.catalog.segment \union Divergent(h, s.marker))
    BY <1>3, ViewKept DEF RollingBack
  <2> QED
    BY <1>1, <2>1
<1> QED
  BY <1>2, <1>3

\* Here after a step.
LEMMA HereNext ==
    ASSUME IndInv'
    PROVE  Good(hotDir', segDir') /\ hotDir' \in Hots' /\ segDir' \in Segs' /\ segDir' \in SegDirs
<1>1. (Good(hotDir, segDir) /\ hotDir \in Hots /\ segDir \in Segs /\ segDir \in SegDirs)'
  BY Here, PTL
<1> QED
  BY <1>1

\* The first marker of a rollback changes no row.
LEMMA PutRollbackRows ==
    ASSUME IndInv, RowsInv, IndInv', PutJson, then = "restoreV1"
    PROVE  RowsInv' /\ ContractStep
<1>1. /\ hotDir' = hotDir /\ Hots' = Hots /\ Segs' = Segs \union {segDir'}
      /\ Putting /\ then' = then /\ Ready("restoreV1")' /\ (out.name = "marker" => segDir'.catalog = segDir.catalog)
  BY PutRows
<1>2. marker = Absent /\ segDir.catalog # Absent /\ segDir'.catalog = segDir.catalog
  BY <1>1 DEF Putting
<1>3. RollingBack(segDir') /\ hotDir.hot = segDir'.marker.source
  BY <1>1 DEF Ready, marker
<1>4. GoodRollback(hotDir, segDir')
  BY <1>1, HereNext DEF Good
<1>5. View(hotDir, segDir') = Positive(hotDir.hot \union segDir.catalog.segment)
  BY <1>2, <1>3, <1>4, NotRestored
<1>6. View(hotDir, segDir) = Positive(hotDir.hot \union segDir.catalog.segment)
  BY <1>2, ViewCatalog DEF marker
<1>7. OneHot
  BY <1>2 DEF IndInv, HotsOK, Forward, Pending, RollingBack, marker
<1>8. Initial(Positive(segDir.catalog.rollback), Positive(hotDir.hot \union segDir.catalog.segment))
  BY <1>2, Here DEF RowsInv, PrefixOK, InitialOK, marker
<1>9. segDir'.marker.rollback = segDir.catalog.rollback
  BY <1>2, <1>3, <1>4 DEF GoodRollback
<1>10. InitialOK(hotDir, segDir')
  BY <1>2, <1>3, <1>8, <1>9 DEF InitialOK, RollingBack
<1> QED
  BY <1>1, <1>5, <1>6, <1>7, <1>10, SwitchRows

\* A rollback that has replaced the live database stands for its rows.
LEMMA AtRollback ==
    ASSUME NEW h, NEW s, s.marker # Absent, s.marker.operation = "rollback", h.hot = s.marker.rollback
    PROVE  View(h, s) = Positive(h.hot)
<1>1. Base(h, s) = s.marker.rollback /\ Divergent(h, s.marker) = {}
  BY DEF Base, Divergent
<1> QED
  BY <1>1, ViewDone

\* The terminal marker changes no row.
LEMMA PutTerminalRows ==
    ASSUME IndInv, RowsInv, IndInv', PutJson, then = "finishCleanup"
    PROVE  RowsInv' /\ ContractStep
<1>1. /\ hotDir' = hotDir /\ Hots' = Hots /\ Segs' = Segs \union {segDir'}
      /\ Putting /\ then' = then /\ Ready("finishCleanup")'
  BY PutRows
<1>2. RollingBack(segDir) /\ hotDir.hot = segDir.marker.rollback /\ OneHot
  BY <1>1 DEF Putting, Ready, marker
<1>3. CleaningUp(segDir') /\ hotDir.hot = segDir'.marker.rollback
  BY <1>1 DEF Ready, marker
<1>4. View(hotDir, segDir') = View(hotDir, segDir)
  BY <1>2, <1>3, AtRollback DEF RollingBack, CleaningUp
<1>5. InitialOK(hotDir, segDir')
  BY <1>3 DEF InitialOK, CleaningUp, RollingBack
<1> QED
  BY <1>1, <1>2, <1>4, <1>5, SwitchRows

\* PutJson changes no row.
LEMMA PutJsonRows ==
    ASSUME IndInv, RowsInv, IndInv', PutJson
    PROVE  RowsInv' /\ ContractStep
<1>1. then \in {"seal", "linkSegment", "replaceHot", "clear", "restoreV1", "finishCleanup"}
  BY DEF IndInv, PcOK, Putting, PutJson, At
<1> QED
  BY <1>1, PutForwardRows, PutCatalogRows, PutRollbackRows, PutTerminalRows

\* Without its marker the history stands for the same rows: for those of the segment and the
\* live database after a migration.
LEMMA ClearRows ==
    ASSUME IndInv, RowsInv, IndInv', Clear
    PROVE  RowsInv' /\ ContractStep
<1>1. pc = "clear" /\ ChangeSeg([marker |-> Absent])
  BY Framed DEF Clear, IndInv
<1>2. Ready("clear") /\ OneHot
  BY <1>1 DEF IndInv, PcOK
<1>3. hotDir' = hotDir /\ segDir' = Put(segDir, [marker |-> Absent]) /\ Hots' = Hots /\ Segs' = Segs \union {segDir'}
  BY <1>1, ChangeSegEffect DEF IndInv
<1>4. segDir' = [segDir EXCEPT !.marker = Absent]
  BY <1>3, Here, PutSeg
<1>5. segDir'.marker = Absent /\ segDir'.catalog = segDir.catalog
  BY <1>4, Here DEF SegDirs
<1>6. View(hotDir, segDir') = View(hotDir, segDir) /\ InitialOK(hotDir, segDir')
  <2>1. CASE Forward(segDir) /\ hotDir.hot = marker.source
    <3>1. View(hotDir, segDir) = Positive(hotDir.hot)
      BY <2>1, AtSource DEF Forward, marker
    <3>2. View(hotDir, segDir') = Positive(hotDir.hot)
      BY <1>5, <2>1, ViewV1 DEF Forward
    <3> QED
      BY <1>5, <2>1, <3>1, <3>2 DEF InitialOK, Forward, RollingBack
  <2>2. CASE Published
    <3>1. /\ segDir.marker.replacement = segDir.marker.source \ segDir.marker.publication
          /\ segDir.marker.publication \subseteq segDir.marker.source
          /\ segDir.catalog.segment = segDir.marker.publication /\ segDir.catalog.rollback = segDir.marker.source
      BY <2>2, Here DEF Published, Pending, Good, GoodForward
    <3>2. hotDir.hot \union segDir.catalog.segment = segDir.marker.source /\ Divergent(hotDir, segDir.marker) = {}
      BY <2>2, <3>1 DEF Published, Divergent, marker
    <3>3. View(hotDir, segDir) = Positive(segDir.marker.source)
      BY <2>2, <3>2, ViewForward DEF Published
    <3>4. View(hotDir, segDir') = Positive(segDir.marker.source)
      BY <1>5, <2>2, <3>2, ViewCatalog DEF Published
    <3>5. Initial(Positive(segDir.marker.source), Positive(segDir.marker.source))
      BY <3>3 DEF RowsInv, HasLast
    <3> QED
      BY <1>5, <3>1, <3>2, <3>3, <3>4, <3>5 DEF InitialOK, RollingBack
  <2>3. CASE RollingBack(segDir) /\ hotDir.hot = marker.source
    <3>1. View(hotDir, segDir) = Positive(segDir.marker.source \union segDir.catalog.segment)
      BY <2>3, Here, NotRestored DEF Good, marker
    <3>2. segDir.catalog # Absent /\ segDir.catalog.rollback = segDir.marker.rollback
      BY <2>3, Here DEF Good, GoodRollback
    <3>3. View(hotDir, segDir') = Positive(segDir.marker.source \union segDir.catalog.segment)
      BY <1>5, <2>3, <3>2, ViewCatalog DEF marker
    <3>4. Initial(Positive(segDir.marker.rollback), Positive(segDir.marker.source \union segDir.catalog.segment))
      BY <2>3, Here DEF RowsInv, PrefixOK, InitialOK
    <3> QED
      BY <1>5, <2>3, <3>1, <3>2, <3>3, <3>4 DEF InitialOK, RollingBack, marker
  <2>4. CASE CleaningUp(segDir) /\ hotDir.hot = marker.rollback /\ segDir.catalog = Absent
    <3>1. View(hotDir, segDir) = Positive(hotDir.hot)
      BY <2>4, AtRollback DEF CleaningUp, marker
    <3>2. View(hotDir, segDir') = Positive(hotDir.hot)
      BY <1>5, <2>4, ViewV1
    <3> QED
      BY <1>5, <2>4, <3>1, <3>2 DEF InitialOK, RollingBack
  <2> QED
    BY <1>2, <2>1, <2>2, <2>3, <2>4 DEF Ready
<1> QED
  BY <1>2, <1>3, <1>6, SwitchRows

\* Retiring the catalog of a restored history changes no row.
LEMMA RetireCatalogRows ==
    ASSUME IndInv, RowsInv, IndInv', RetireCatalog
    PROVE  RowsInv' /\ ContractStep
<1>1. pc = "retireCatalog" /\ ChangeSeg([catalog |-> Absent])
  BY Framed DEF RetireCatalog, IndInv
<1>2. CleaningUp(segDir) /\ hotDir.hot = segDir.marker.rollback
  BY <1>1 DEF IndInv, PcOK, Ready, marker
<1>3. hotDir' = hotDir /\ segDir' = Put(segDir, [catalog |-> Absent]) /\ Hots' = Hots /\ Segs' = Segs \union {segDir'}
  BY <1>1, ChangeSegEffect DEF IndInv
<1>4. segDir' = [segDir EXCEPT !.catalog = Absent]
  BY <1>3, Here, PutSeg
<1>5. segDir'.marker = segDir.marker
  BY <1>4, Here DEF SegDirs
<1>6. View(hotDir, segDir') = View(hotDir, segDir)
  BY <1>2, <1>5, AtRollback DEF CleaningUp
<1>7. InitialOK(hotDir, segDir')
  BY <1>2, <1>5 DEF InitialOK, CleaningUp, RollingBack
<1>8. OneHot
  BY <1>2 DEF IndInv, HotsOK, Forward, Pending, RollingBack, CleaningUp
<1> QED
  BY <1>3, <1>6, <1>7, <1>8, SwitchRows

\* The live database is replaced within a migration: it agrees with every directory.
LEMMA ForwardHotRows ==
    ASSUME IndInv, RowsInv, IndInv', Forward(segDir), segDir' = segDir, Segs' = Segs, Hots' = Hots \union {hotDir'},
           hotDir.hot \in {marker.source, marker.replacement} /\ hotDir.hot \subseteq marker.source,
           \A s \in Segs : View(hotDir', s) = Positive(marker.source)
    PROVE  RowsInv' /\ ContractStep
<1>1. Agreed
  BY DEF RowsInv, Undecided, Forward, Pending, RollingBack
<1>2. View(hotDir, segDir) = Positive(marker.source)
  <2>1. Divergent(hotDir, segDir.marker) = {}
    BY DEF Divergent, marker
  <2> QED
    BY <2>1, ViewForward DEF Forward, marker
<1>3. View(hotDir', segDir') = View(hotDir, segDir)
  BY <1>2, Here
<1>4. Agreed'
  BY <1>1, <1>2, <1>3 DEF Agreed
<1>5. PrefixOK'
  <2> SUFFICES ASSUME NEW h \in Hots', NEW s \in Segs PROVE InitialOK(h, s)
    BY DEF PrefixOK
  <2>1. V1(s) \/ Forward(s)
    BY DEF IndInv, FamilyOK
  <2> QED
    BY <2>1 DEF InitialOK, V1, Forward, Pending, RollingBack
<1>6. HasLast'
  BY <1>3 DEF RowsInv, HasLast
<1>7. Rows' = Rows
  BY <1>1, <1>3, <1>4, RowsAgreed, RowsAgreedNext
<1> QED
  BY <1>4, <1>5, <1>6, <1>7, SameRows DEF RowsInv

\* The replacement and the segment hold the rows of the source.
LEMMA ReplaceHotRows ==
    ASSUME IndInv, RowsInv, IndInv', ReplaceHot
    PROVE  RowsInv' /\ ContractStep
<1>1. pc = "replaceHot" /\ ChangeHot([hot |-> marker.replacement])
  BY Framed DEF ReplaceHot, IndInv
<1>2. Ready("replaceHot") /\ Segs = {segDir}
  BY <1>1 DEF IndInv, PcOK
<1>3. /\ segDir' = segDir /\ hotDir' = Put(hotDir, [hot |-> marker.replacement])
      /\ Segs' = Segs /\ Hots' = Hots \union {hotDir'}
  BY <1>1, ChangeHotEffect DEF IndInv
<1>4. hotDir'.hot = segDir.marker.replacement
  BY <1>3, Here, PutHot DEF marker
<1>5. Forward(segDir) /\ hotDir.hot = marker.source /\ segDir.marker.replacement \subseteq segDir.marker.source
  BY <1>2, Here DEF Ready, Forward, Pending, Good, GoodForward, marker
<1>6. Divergent(hotDir', segDir.marker) = {}
  BY <1>4, <1>5 DEF Divergent
<1>7. View(hotDir', segDir) = Positive(marker.source)
  BY <1>5, <1>6, ViewForward DEF Forward, marker
<1> QED
  BY <1>2, <1>3, <1>5, <1>7, ForwardHotRows

\* So does the restored source.
LEMMA RestoreRows ==
    ASSUME IndInv, RowsInv, IndInv', Restore
    PROVE  RowsInv' /\ ContractStep
<1>1. pc = "restore" /\ ChangeHot([hot |-> segDir.rollback])
  BY Framed DEF Restore, IndInv
<1>2. Ready("restore")
  BY <1>1 DEF IndInv, PcOK
<1>3. /\ segDir' = segDir /\ hotDir' = Put(hotDir, [hot |-> segDir.rollback])
      /\ Segs' = Segs /\ Hots' = Hots \union {hotDir'}
  BY <1>1, ChangeHotEffect DEF IndInv
<1>4. /\ Forward(segDir) /\ segDir.rollback = marker.source
      /\ hotDir.hot \in {marker.source, marker.replacement} /\ hotDir.hot \subseteq marker.source
  BY <1>2, Here DEF Ready, Forward, Pending, Good, GoodForward, marker
<1>5. hotDir'.hot = marker.source
  BY <1>3, <1>4, Here, PutHot
<1>6. ASSUME NEW s \in Segs PROVE View(hotDir', s) = Positive(marker.source)
  <2>1. V1(s) \/ (Forward(s) /\ s.marker.source = marker.source)
    BY <1>4 DEF IndInv, FamilyOK
  <2>2. CASE V1(s)
    BY <1>5, <2>2, ViewV1 DEF V1
  <2>3. CASE Forward(s) /\ s.marker.source = marker.source
    BY <1>5, <2>3, AtSource DEF Forward
  <2> QED
    BY <2>1, <2>2, <2>3
<1> QED
  BY <1>3, <1>4, <1>6, ForwardHotRows

\* An initial part has a last row.
LEMMA InitialSelf ==
    ASSUME NEW whole, NEW part, whole \subseteq Int, Initial(part, whole)
    PROVE  Initial(part, part)
<1>1. PICK last \in whole : part = {r \in whole : r <= last}
  BY DEF Initial
<1>2. last \in Int /\ last \in part
  BY <1>1
<1>3. part = {r \in part : r <= last}
  BY <1>1
<1> QED
  BY <1>2, <1>3 DEF Initial

\* Rows are numbers.
LEMMA KnownIntegers ==
    ASSUME IndInv, NEW s \in Segs, s.marker # Absent, s.catalog # Absent
    PROVE  Positive(s.marker.source \union s.catalog.segment) \subseteq Int
<1>1. KnownSeg(s)
  BY DEF IndInv, DirsOK
<1>2. \A r \in Seen : r \in Int
  BY DEF Seen
<1> QED
  BY <1>1, <1>2 DEF KnownSeg, Positive

\* The rollback copies the v1 snapshot over the live database.
LEMMA RestoreV1Rows ==
    ASSUME IndInv, RowsInv, IndInv', RestoreV1
    PROVE  RowsInv' /\ ContractStep
<1> DEFINE kept == Positive(segDir.marker.source \union segDir.catalog.segment)
<1>1. pc = "restoreV1" /\ ChangeHot([hot |-> segDir.rollback])
  BY Framed DEF RestoreV1, IndInv
<1>2. RollingBack(segDir) /\ hotDir.hot = segDir.marker.source /\ Segs = {segDir}
  BY <1>1 DEF IndInv, PcOK, Ready, marker
<1>3. /\ segDir' = segDir /\ hotDir' = Put(hotDir, [hot |-> segDir.rollback])
      /\ Segs' = Segs /\ Hots' = Hots \union {hotDir'}
  BY <1>1, ChangeHotEffect DEF IndInv
<1>4. /\ segDir.rollback = segDir.marker.rollback /\ GoodRollback(hotDir, segDir) /\ segDir.catalog # Absent
      /\ segDir.catalog.segment \intersect segDir.marker.source = {}
      /\ segDir.catalog.segment \subseteq segDir.marker.rollback
  BY <1>2, Here DEF Good, GoodRollback, RollingBack
<1>5. hotDir'.hot = segDir.marker.rollback
  BY <1>3, <1>4, Here, PutHot
<1>6. \A h \in Hots : h.hot \in {segDir.marker.source, segDir.marker.rollback}
  BY <1>2 DEF IndInv, HotsOK, OneHot, RollingBack, Forward, Pending, marker
<1>7. View(hotDir, segDir) = kept
  BY <1>2, <1>4, NotRestored
<1>8. Agreed
  <2>1. CASE segDir.marker.source = segDir.marker.rollback
    <3>1. \A h \in Hots : h = hotDir
      BY <1>2, <1>6, <2>1, Here DEF IndInv, DirsOK, HotDirs
    <3> QED
      BY <1>2, <3>1 DEF Agreed
  <2>2. CASE segDir.marker.source # segDir.marker.rollback
    BY <1>2, <2>2 DEF RowsInv, Undecided, marker
  <2> QED
    BY <2>1, <2>2
<1>9. Rows = kept
  BY <1>7, <1>8, RowsAgreed
<1>10. Initial(kept, kept)
  BY <1>7 DEF RowsInv, HasLast
<1>11. Undecided'
  <2>1. RollingBack(segDir') /\ marker' = segDir.marker
    BY <1>2, <1>3 DEF marker
  <2>2. \A h \in Hots' : h.hot \in {segDir.marker.source, segDir.marker.rollback}
    BY <1>3, <1>5, <1>6
  <2>3. \A s \in Segs' : Alike(segDir', s)
    BY <1>2, <1>3 DEF Alike
  <2> QED
    BY <1>3, <1>5, <1>10, <2>1, <2>2, <2>3 DEF Undecided
<1>12. Initial(Positive(segDir.marker.rollback), kept)
  BY <1>2, Here DEF RowsInv, PrefixOK, InitialOK
<1>13. View(hotDir', segDir') = Positive(segDir.marker.rollback)
  BY <1>2, <1>3, <1>5, AtRollback DEF RollingBack
<1>14. HasLast'
  <2>1. kept \subseteq Int
    BY <1>2, <1>4, Here, KnownIntegers DEF RollingBack
  <2> HIDE DEF kept
  <2> QED
    BY <1>12, <1>13, <2>1, InitialSelf DEF HasLast
<1>15. PrefixOK'
  BY <1>2, <1>3, Here DEF RowsInv, PrefixOK, InitialOK, RollingBack
<1>16. Rows' = kept
  <2>1. marker' = segDir.marker /\ segDir'.catalog = segDir.catalog /\ hotDir \in Hots'
    BY <1>3, Here DEF marker
  <2>2. CASE segDir.marker.source = segDir.marker.rollback
    <3>1. \A h \in Hots' : h.hot = marker'.rollback
      BY <1>3, <1>5, <1>6, <2>1, <2>2
    <3>2. Rows' = Positive(segDir.marker.rollback)
      BY <1>11, <2>1, <3>1, RowsUndecidedNext
    <3>3. segDir.catalog.segment = {}
      BY <1>4, <2>2
    <3> QED
      BY <2>2, <3>2, <3>3
  <2>3. CASE segDir.marker.source # segDir.marker.rollback
    BY <1>2, <1>11, <2>1, <2>3, RowsUndecidedNext
  <2> QED
    BY <2>2, <2>3
<1> QED
  BY <1>9, <1>11, <1>14, <1>15, <1>16, SameRows DEF RowsInv

\* The initial state maps to the contract's.
LEMMA InitialRows ==
    Init => RowsInv /\ Contract!Init
<1> SUFFICES ASSUME Init PROVE RowsInv /\ Contract!Init
  OBVIOUS
<1>1. IndInv
  BY InitInv
<1>2. hotDir.hot = {1, 2} /\ may = {<<hotDir, segDir>>} /\ V1(segDir)
  BY DEF Init, V1
<1>3. Hots = {hotDir} /\ Segs = {segDir}
  BY <1>2 DEF Hots, Segs
<1>4. View(hotDir, segDir) = {1, 2}
  BY <1>2, ViewV1 DEF V1, Positive
<1>5. Agreed
  BY <1>3 DEF Agreed
<1>6. HasLast
  BY <1>4 DEF HasLast, Initial
<1>7. PrefixOK
  BY <1>2, <1>3 DEF PrefixOK, InitialOK, V1, RollingBack
<1>8. Rows = {1, 2}
  BY <1>1, <1>4, <1>5, RowsAgreed
<1>9. marker = Absent
  BY <1>2 DEF V1, marker
<1> QED
  BY <1>5, <1>6, <1>7, <1>8, <1>9 DEF RowsInv, Contract!Init

\* A row nobody has seen joins what every directory stands for, unless it is foreign.
LEMMA ViewGrows ==
    ASSUME IndInv, NEW row \in Int, row \notin Seen, NEW g, g.hot = hotDir.hot \union {row}, NEW s \in Segs
    PROVE  View(g, s) = View(hotDir, s) \union Positive({row})
<1>1. KnownSeg(s) /\ s \in SegDirs
  BY DEF IndInv, DirsOK
<1>2. CASE s.marker = Absent /\ s.catalog = Absent
  BY <1>2, ViewV1 DEF Positive
<1>3. CASE s.marker = Absent /\ s.catalog # Absent
  BY <1>3, ViewCatalog DEF Positive
<1>4. CASE s.marker # Absent
  <2>1. Base(g, s) = Base(hotDir, s) /\ Divergent(g, s.marker) = Divergent(hotDir, s.marker) \union {row}
    BY <1>1, <1>4 DEF KnownSeg, Base, Divergent
  <2>2. s.marker.operation \in {"forward", "rollback"}
    BY <1>1, <1>4 DEF SegDirs, Markers
  <2>3. CASE s.marker.operation = "forward"
    BY <1>4, <2>1, <2>3, ViewForward DEF Pending, Positive
  <2>4. CASE s.marker.operation = "rollback" /\ Base(hotDir, s) = s.marker.rollback
    BY <1>4, <2>1, <2>4, ViewDone DEF Positive
  <2>5. CASE s.marker.operation = "rollback" /\ Base(hotDir, s) # s.marker.rollback
    BY <1>4, <2>1, <2>5, ViewKept DEF Positive
  <2> QED
    BY <2>2, <2>3, <2>4, <2>5
<1> QED
  BY <1>2, <1>3, <1>4

\* An open history holds committed rows only.
LEMMA ViewSeen ==
    ASSUME IndInv, marker = Absent
    PROVE  View(hotDir, segDir) \subseteq Seen
<1>1. CASE segDir.catalog = Absent
  BY <1>1, Here, ViewV1 DEF marker, Positive
<1>2. CASE segDir.catalog # Absent
  BY <1>2, Here, ViewCatalog DEF marker, Positive, KnownSeg
<1> QED
  BY <1>1, <1>2

\* A later row does not disturb an initial part.
LEMMA InitialGrows ==
    ASSUME NEW whole, NEW part, Initial(part, whole), NEW row, \A r \in whole : ~(row <= r)
    PROVE  Initial(part, whole \union {row})
<1>1. PICK last \in whole : part = {r \in whole : r <= last}
  BY DEF Initial
<1>2. part = {r \in whole \union {row} : r <= last}
  BY <1>1
<1> QED
  BY <1>2 DEF Initial

\* Rows that end in a last one are an initial part of themselves.
LEMMA InitialWhole ==
    ASSUME NEW whole, whole \subseteq Int, NEW row \in Int, \A r \in whole : r <= row
    PROVE  Initial(whole \union {row}, whole \union {row})
<1> DEFINE all == whole \union {row}
<1>1. all = {r \in all : r <= row}
  <2>1. \A r \in all : r <= row
    OBVIOUS
  <2> HIDE DEF all
  <2> QED
    BY <2>1
<1>2. row \in all
  OBVIOUS
<1> HIDE DEF all
<1>3. Initial(all, all)
  BY <1>1, <1>2 DEF Initial
<1> QED
  BY <1>3 DEF all

\* A commit of the service adds one row.
LEMMA WriteRows ==
    ASSUME IndInv, RowsInv, IndInv', Write
    PROVE  RowsInv' /\ ContractStep
<1> DEFINE row == rows + 1
           old == View(hotDir, segDir)
<1>1. marker = Absent /\ CommitHot([hot |-> hotDir.hot \union {row}])
  BY DEF Write
<1>2. rows \in Int /\ rows >= 0 /\ faults \in Int
  BY DEF IndInv, BoundsOK
<1>3. row \in Int /\ row > 0 /\ row \notin Seen /\ \A r \in Seen : r \in Int /\ r <= rows
  BY <1>2 DEF Seen
<1>4. /\ segDir' = segDir /\ hotDir' = Put(hotDir, [hot |-> hotDir.hot \union {row}])
      /\ Hots' = {hotDir'} /\ Segs' \subseteq Segs
  BY <1>1, CommitHotEffect DEF IndInv
<1>5. hotDir'.hot = hotDir.hot \union {row}
  BY <1>4, Here, PutHot
<1>6. OneHot
  BY <1>1 DEF IndInv, HotsOK, Forward, Pending, RollingBack, marker
<1>7. Agreed
  BY <1>6, OneHotAgreed
<1>8. old \subseteq Seen
  BY <1>1, ViewSeen
<1>9. row > rows
  BY <1>2
<1> HIDE DEF row
<1>10. \A s \in Segs : View(hotDir', s) = View(hotDir, s) \union {row}
  <2>1. Positive({row}) = {row}
    BY <1>3 DEF Positive
  <2> QED
    BY <1>3, <1>5, <2>1, ViewGrows
<1>11. View(hotDir', segDir') = old \union {row}
  BY <1>4, <1>10, Here
<1>12. Agreed'
  <2> SUFFICES ASSUME NEW s \in Segs' PROVE View(hotDir', s) = View(hotDir', segDir')
    BY <1>4 DEF Agreed
  <2>1. View(hotDir, s) = old
    BY <1>4, <1>7, Here DEF Agreed
  <2> QED
    BY <1>4, <1>10, <1>11, <2>1
<1>13. HasLast'
  <2>1. old \subseteq Int /\ \A r \in old : r <= row
    BY <1>2, <1>3, <1>8, <1>9
  <2>2. Initial(old \union {row}, old \union {row})
    BY <1>3, <2>1, InitialWhole
  <2> QED
    BY <1>11, <2>2 DEF HasLast
<1>14. PrefixOK'
  <2> SUFFICES ASSUME NEW s \in Segs' PROVE InitialOK(hotDir', s)
    BY <1>4 DEF PrefixOK
  <2>1. s \in Segs /\ InitialOK(hotDir, s) /\ KnownSeg(s)
    BY <1>4, Here DEF RowsInv, PrefixOK, IndInv, DirsOK
  <2>2. CASE s.marker = Absent /\ s.catalog # Absent
    <3> DEFINE whole == Positive(hotDir.hot \union s.catalog.segment)
    <3>1. Initial(Positive(s.catalog.rollback), whole)
      BY <2>1, <2>2 DEF InitialOK
    <3>2. whole \subseteq Seen
      BY <2>1, <2>2, Here DEF KnownSeg, Positive
    <3>3. Positive(hotDir'.hot \union s.catalog.segment) = whole \union {row}
      BY <1>3, <1>5 DEF Positive
    <3> HIDE DEF whole
    <3>4. \A r \in whole : ~(row <= r)
      BY <1>2, <1>3, <1>9, <3>2
    <3>5. Initial(Positive(s.catalog.rollback), whole \union {row})
      BY <3>1, <3>4, InitialGrows
    <3> QED
      BY <2>2, <3>3, <3>5 DEF InitialOK, RollingBack
  <2>3. CASE s.marker # Absent \/ s.catalog = Absent
    BY <2>1, <2>3 DEF InitialOK, RollingBack
  <2> QED
    BY <2>2, <2>3
<1>15. Rows = old /\ Rows' = old \union {row} /\ row \notin old
  BY <1>3, <1>7, <1>8, <1>11, <1>12, RowsAgreed, RowsAgreedNext
<1>16. ContractStep
  <2>1. marker' = Absent
    BY <1>1, <1>4 DEF marker
  <2> HIDE DEF old
  <2> QED
    BY <1>1, <1>15, <2>1 DEF ContractStep, Contract!Next, Contract!Add
<1> QED
  BY <1>12, <1>13, <1>14, <1>16 DEF RowsInv

\* A foreign row is not one of the history; its commit also decides a rollback.
LEMMA ForeignWriteRows ==
    ASSUME IndInv, RowsInv, IndInv', ForeignWrite
    PROVE  RowsInv' /\ ContractStep
<1> DEFINE row == -faults'
           old == View(hotDir, segDir)
<1>1. marker # Absent /\ CommitHot([hot |-> hotDir.hot \union {row}]) /\ faults' = faults + 1
  BY DEF ForeignWrite, Fault
<1>2. rows \in Int /\ faults \in Int /\ faults >= 0
  BY DEF IndInv, BoundsOK
<1>3. row \in Int /\ ~(row > 0) /\ row \notin Seen
  BY <1>1, <1>2 DEF Seen
<1>4. /\ segDir' = segDir /\ hotDir' = Put(hotDir, [hot |-> hotDir.hot \union {row}])
      /\ Hots' = {hotDir'} /\ Segs' \subseteq Segs
  BY <1>1, CommitHotEffect DEF IndInv
<1>5. hotDir'.hot = hotDir.hot \union {row}
  BY <1>4, Here, PutHot
<1> HIDE DEF row
<1>6. Positive({row}) = {}
  BY <1>3 DEF Positive
<1>7. \A s \in Segs : View(hotDir', s) = View(hotDir, s)
  BY <1>3, <1>5, <1>6, ViewGrows
<1>8. View(hotDir', segDir') = old
  BY <1>4, <1>7, Here
<1>9. Agreed'
  <2> SUFFICES ASSUME NEW s \in Segs' PROVE View(hotDir', s) = old
    BY <1>4, <1>8 DEF Agreed
  <2>1. View(hotDir, s) = old
    <3>1. CASE Agreed
      BY <1>4, <3>1, Here DEF Agreed
    <3>2. CASE Undecided
      BY <1>4, <3>2, AlikeView DEF Undecided
    <3> QED
      BY <3>1, <3>2 DEF RowsInv
  <2> QED
    BY <1>4, <1>7, <2>1
<1>10. HasLast'
  BY <1>8 DEF RowsInv, HasLast
<1>11. PrefixOK'
  <2> SUFFICES ASSUME NEW s \in Segs' PROVE InitialOK(hotDir', s)
    BY <1>4 DEF PrefixOK
  <2>1. InitialOK(hotDir, s)
    BY <1>4, Here DEF RowsInv, PrefixOK
  <2>2. Positive(hotDir'.hot \union s.catalog.segment) = Positive(hotDir.hot \union s.catalog.segment)
    BY <1>3, <1>5 DEF Positive
  <2> QED
    BY <2>1, <2>2 DEF InitialOK
<1>12. Rows' = old
  BY <1>8, <1>9, RowsAgreedNext
<1>13. ContractStep
  <2>1. CASE Agreed
    BY <1>12, <2>1, RowsAgreed, SameRows
  <2>2. CASE Undecided
    <3>1. old = Positive(marker.rollback) /\ marker' # Absent
      BY <1>1, <1>4, <2>2, RowsUndecided DEF marker
    <3>2. Initial(Positive(marker.rollback), Positive(marker.source \union segDir.catalog.segment))
      BY <2>2, Here DEF RowsInv, PrefixOK, InitialOK, Undecided, marker
    <3>3. Rows' = Rows \/ Initial(Rows', Rows)
      BY <1>12, <2>2, <3>1, <3>2, RowsUndecided
    <3> QED
      BY <1>1, <3>1, <3>3, SameRows, RolledBack
  <2> QED
    BY <2>1, <2>2 DEF RowsInv
<1> QED
  BY <1>9, <1>10, <1>11, <1>13 DEF RowsInv

\* A power loss keeps the rows, or completes a rollback.
LEMMA PowerLossRows ==
    ASSUME IndInv, RowsInv, IndInv', PowerLoss
    PROVE  RowsInv' /\ ContractStep
<1>1. hotDir' \in Hots /\ segDir' \in Segs /\ Hots' = {hotDir'} /\ Segs' = {segDir'}
  BY RebootEffect DEF IndInv, PowerLoss
<1>2. Agreed'
  BY <1>1 DEF Agreed
<1>3. PrefixOK'
  BY <1>1 DEF RowsInv, PrefixOK
<1>4. Rows' = View(hotDir', segDir')
  BY <1>2, RowsAgreedNext
<1>5. CASE Agreed
  <2>1. View(hotDir', segDir') = View(hotDir, segDir)
    BY <1>1, <1>5 DEF Agreed
  <2>2. HasLast' /\ Rows' = Rows
    BY <1>4, <1>5, <2>1, RowsAgreed DEF RowsInv, HasLast
  <2> QED
    BY <1>2, <1>3, <2>2, SameRows DEF RowsInv
<1>6. CASE Undecided
  <2> DEFINE kept == Positive(marker.source \union segDir.catalog.segment)
  <2>1. /\ segDir'.marker = marker /\ segDir'.catalog = segDir.catalog /\ marker' = marker
        /\ RollingBack(segDir') /\ hotDir'.hot \in {marker.source, marker.rollback} /\ marker # Absent
    BY <1>1, <1>6 DEF Undecided, Alike, RollingBack, marker
  <2>2. Initial(Positive(marker.rollback), kept) /\ Initial(kept, kept)
    BY <1>6, Here DEF RowsInv, PrefixOK, InitialOK, Undecided, marker
  <2>3. CASE hotDir'.hot = marker.rollback
    <3>1. View(hotDir', segDir') = Positive(marker.rollback)
      BY <2>1, <2>3, AtRollback DEF RollingBack
    <3>2. HasLast'
      BY <1>6, <3>1, RowsUndecided DEF RowsInv, HasLast
    <3>3. Rows' = Rows \/ Initial(Rows', Rows)
      BY <1>4, <1>6, <2>2, <3>1, RowsUndecided
    <3> QED
      BY <1>2, <1>3, <2>1, <3>2, <3>3, SameRows, RolledBack DEF RowsInv
  <2>4. CASE hotDir'.hot # marker.rollback
    <3>1. Rows = kept
      BY <1>1, <1>6, <2>4, RowsUndecided
    <3>2. GoodRollback(hotDir', segDir')
      BY HereNext DEF Good
    <3>3. View(hotDir', segDir') = kept
      BY <2>1, <2>4, <3>2, NotRestored
    <3>4. HasLast'
      BY <2>2, <3>3 DEF HasLast
    <3> QED
      BY <1>2, <1>3, <1>4, <3>1, <3>3, <3>4, SameRows DEF RowsInv
  <2> QED
    BY <2>1, <2>3, <2>4
<1> QED
  BY <1>5, <1>6 DEF RowsInv

\* The steps of a migration and of its undoing.
LEMMA MigrateRows ==
    ASSUME IndInv, RowsInv, IndInv', Migrate
    PROVE  RowsInv' /\ ContractStep
<1> DEFINE removed == [tmp |-> Absent, json |-> Absent]
<1>1. ASSUME ChangeSeg([rollback |-> Torn]) \/ ChangeSeg([rollback |-> Absent]) \/ ChangeSeg([json |-> Torn])
             \/ ChangeSeg([tmp |-> Torn]) \/ ChangeSeg([tmp |-> Absent]) \/ ChangeSeg([segment |-> segDir.tmp])
             \/ ChangeSeg([segment |-> Absent])
      PROVE  RowsInv' /\ ContractStep
  BY <1>1, ChangeSegRows
<1>2. ASSUME ChangeSeg(removed) PROVE RowsInv' /\ ContractStep
  <2>1. "marker" \notin DOMAIN removed /\ "catalog" \notin DOMAIN removed
    OBVIOUS
  <2> HIDE DEF removed
  <2> QED
    BY <1>2, <2>1, ChangeSegRows
<1> HIDE DEF removed
<1>3. CASE StartMigration \/ CopyFails \/ Prepare \/ Seal \/ Record \/ LinkSegment \/ UnlinkTmp \/ HotReady \/ WriteCatalog
           \/ RemoveSegment
  BY <1>1, <1>3
  DEF StartMigration, CopyFails, Prepare, Seal, Record, LinkSegment, UnlinkTmp, HotReady, WriteCatalog, RemoveSegment,
      WriteJson
<1>4. CASE CopySource \/ FillSegment
  BY <1>4, CompleteSegRows DEF CopySource, FillSegment
<1>5. CASE SyncCopy \/ SyncSegment \/ SyncReplaced \/ SyncClear \/ SyncRestored \/ SyncRemoved
  BY <1>5, SyncedRows DEF SyncCopy, SyncSegment, SyncReplaced, SyncClear, SyncRestored, SyncRemoved
<1>6. CASE MigrationFails
  BY <1>2, <1>6 DEF MigrationFails, removed
<1>7. CASE RemoveTemporary
  BY <1>1, <1>7, SyncedRows DEF RemoveTemporary
<1> QED
  BY <1>3, <1>4, <1>5, <1>6, <1>7, ReplaceHotRows, ClearRows, RestoreRows DEF Migrate

\* The steps of a rollback.
LEMMA RollbackRows ==
    ASSUME IndInv, RowsInv, IndInv', Rollback
    PROVE  RowsInv' /\ ContractStep
<1>1. CASE StartRollback \/ Terminal \/ RetireSegment
  <2>1. ChangeSeg([json |-> Torn]) \/ ChangeSeg([segment |-> Absent])
    BY <1>1 DEF StartRollback, Terminal, RetireSegment, WriteJson
  <2> QED
    BY <2>1, ChangeSegRows
<1>2. CASE SyncV1 \/ PrepareCleanup \/ FinishCleanup \/ SyncCatalog \/ SyncRetired
  BY <1>2, SyncedRows DEF SyncV1, PrepareCleanup, FinishCleanup, SyncCatalog, SyncRetired
<1> QED
  BY <1>1, <1>2, RestoreV1Rows, RetireCatalogRows DEF Rollback

\* The decisions of recovery.
LEMMA RecoverRows ==
    ASSUME IndInv, RowsInv, IndInv', Recover
    PROVE  RowsInv' /\ ContractStep
<1>1. CASE RecoverSnapshot
  <2>1. ChangeSeg([rollback |-> Absent])
    BY <1>1 DEF RecoverSnapshot
  <2> QED
    BY <2>1, ChangeSegRows
<1>2. CASE RecoverForward \/ RecoverPublished \/ RecoverRollback \/ RecoverCleanup
  BY <1>2, SyncedRows DEF RecoverForward, RecoverPublished, RecoverRollback, RecoverCleanup
<1> QED
  BY <1>1, <1>2 DEF Recover

\* The other steps of a JSON file.
LEMMA JsonRows ==
    ASSUME IndInv, RowsInv, IndInv', UnlinkJson \/ SyncJson \/ JsonFails
    PROVE  RowsInv' /\ ContractStep
<1>1. ChangeSeg([json |-> Absent]) \/ SyncSeg
  BY DEF UnlinkJson, SyncJson, JsonFails
<1> QED
  BY <1>1, ChangeSegRows, SyncedRows

\* Every step keeps RowsInv and is a step of the contract, or none.
LEMMA NextRows ==
    IndInv /\ IndInv' /\ RowsInv /\ [Next]_vars => RowsInv' /\ ContractStep
<1> SUFFICES ASSUME IndInv, IndInv', RowsInv, [Next]_vars PROVE RowsInv' /\ ContractStep
  OBVIOUS
<1>1. CASE Kill \/ UNCHANGED vars
  BY <1>1, SyncedRows DEF Kill, vars
<1> QED
  BY <1>1, MigrateRows, RollbackRows, RecoverRows, JsonRows, PutJsonRows, WriteRows, OperatorRemovesRows,
     ForeignWriteRows, PowerLossRows DEF Next

\* Migration, rollback and their recoveries, with all their failures, kills and power
\* losses, implement MigrationContract: rows are only added, none is lost or shown twice,
\* and a rollback returns, entirely or not at all, to the rows of the v1 snapshot.
THEOREM Refinement == Spec => ImplementsContract
<1>1. Init => RowsInv /\ Contract!Init
  BY InitialRows
<1>2. IndInv /\ IndInv' /\ RowsInv /\ [Next]_vars => RowsInv' /\ [Contract!Next]_(Contract!vars)
  BY NextRows DEF ContractStep
<1> QED
  BY <1>1, <1>2, Invariance, PTL DEF Spec, ImplementsContract, Contract!Spec
=============================================================================
