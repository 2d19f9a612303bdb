------------------------- MODULE ConfigBackupProofs -------------------------
(***************************************************************************)
(* Proofs about ConfigBackup and the journal under it, for any number of   *)
(* writers, viewers and workers, any budget of the journal and any number  *)
(* of mutations, faults and requests.  First what the operations on a file *)
(* do to the ids of its entries, the ids it commits and the last backup it *)
(* names; then an inductive invariant of the whole system.                 *)
(***************************************************************************)
EXTENDS ConfigBackup, FiniteSetTheorems, NaturalsInduction, WellFoundedInduction, TLAPS

(***************************************************************************)
(* The parts of the invariant.                                             *)
(***************************************************************************)

\* The mutations that an entry stands for are told by its id.
CoversOf(id) ==
    IF id.k = "chg" THEN {id.n} ELSE IF id.k = "ovf" THEN id.covers ELSE IF id.of = 0 THEN {} ELSE {id.of}

\* A sequence, of whatever it holds; a line as the operations write it.
IsSeq(s) == s \in Seq(Range(s))

LineOK(line) ==
    /\ line.type \in {"change", "commit", "checkpoint", "damaged"}
    /\ line.type = "change" => line.id.k \in {"chg", "rec", "ovf"} /\ line.covers = CoversOf(line.id)
    /\ line.type = "damaged" => line.covers = IF line.of = 0 THEN {} ELSE {line.of}

\* A journal file; the ids of its entries; a file that knows of no mutations but
\* those of a set.
WellFormed(f) == IsSeq(f) /\ \A n \in DOMAIN f : LineOK(f[n])
Entries(f) == {EntryId(f, n) : n \in EntryLines(f)}
Knows(f, mutations) == \A id \in Entries(f) \union CommittedIds(f) : CoversOf(id) \subseteq mutations

\* The lines that say what the last backup is.
Setters(f) == {n \in DOMAIN f : \/ f[n].type = "checkpoint"
                                \/ f[n].type = "commit" /\ f[n].outcome = "backup"}

\* Two files that name the same last backup.
SameLast(f, h) == LastBackup(h).hash = LastBackup(f).hash /\ LastBackup(h).backup = LastBackup(f).backup

\* The overflow entry with the uuid u; the ids that a write with that uuid brings
\* in: no overflow entry but this one and those it was given.
Overflow(id, u) == id.k = "ovf" /\ id.n = u
BringsIn(f, h, given, u) ==
    \A id \in Entries(h) \union CommittedIds(h) :
        id \in Entries(f) \union CommittedIds(f) \/ id \in given \/ id.k # "ovf" \/ id.n = u

\* A file that says the same, one that has a mutation more, and one in which
\* entries were committed.
SameJournal(f, h, mutations, u) ==
    WellFormed(h) /\ Knows(h, mutations) /\ Owed(h) = Owed(f) /\ SameLast(f, h) /\ BringsIn(f, h, {}, u)
SamePending(f, h, u) ==
    /\ \A id \in PendingSet(h) : id \in PendingSet(f) \/ Overflow(id, u)
    /\ PendingSet(f) # {} => PendingSet(h) # {}
ChangeLanded(f, h, m, mutations, u) ==
    /\ WellFormed(h) /\ Knows(h, mutations \union {m}) /\ Owed(h) = Owed(f) \union {m} /\ SameLast(f, h)
    /\ BringsIn(f, h, {}, u)
    /\ \A id \in PendingSet(h) : id \in PendingSet(f) \/ Overflow(id, u) \/ m \in CoversOf(id)
CommitLanded(f, h, ids, outcome, hash, backup, mutations, u) ==
    /\ WellFormed(h) /\ Knows(h, mutations)
    /\ Owed(h) \subseteq Owed(f) /\ \A m \in Owed(f) \ Owed(h) : \E id \in Range(ids) : m \in CoversOf(id)
    /\ IF outcome = "backup" THEN LastBackup(h).hash = hash /\ LastBackup(h).backup = backup ELSE SameLast(f, h)
    /\ BringsIn(f, h, Range(ids), u)

\* The files that an append of lines passes through.
CutFile(f, lines, h) ==
    \/ \E k \in 0..Len(lines) : h = f \o SubSeq(lines, 1, k)
    \/ \E k \in 0..(Len(lines) - 1) : h = Append(f \o SubSeq(lines, 1, k), Damaged(lines[k + 1]))

\* The records of one commit, all of them or the first of them.
IsCommit(lines, ids, outcome, hash, backup) ==
    /\ IsSeq(lines)
    /\ \A i \in DOMAIN lines : /\ lines[i].type = "commit" /\ lines[i].ids \subseteq Range(ids)
                              /\ lines[i].outcome = outcome /\ lines[i].hash = hash /\ lines[i].backup = backup

\* The timers and counters of the coalescer.
TimersOK ==
    /\ firstAge \in NoTime..MaxDelay /\ lastAge \in NoTime..MaxDelay /\ retryIn \in NoTime..MaxDelay
    /\ failures \in 0..FailureCap /\ SeenHasTimers

\* What a thread keeps between its steps.
Fields == {"fp", "pending", "then", "ids", "snap", "backup", "failed"}

\* Flags, locks and places.
ThreadsOK ==
    /\ torn \in BOOLEAN /\ up \in BOOLEAN /\ faults \in 0..MaxFaults /\ requests \in 0..MaxRequests
    /\ runLock \in Threads \union {None} /\ jobLock \in Workers \union {None}
    /\ pc \in [Threads -> Places]
    /\ DOMAIN loc = Threads /\ \A t \in Threads : DOMAIN loc[t] = Fields /\ loc[t].then \in {"rest", "due", "release"}

\* The steps of poll, and those of a run under the run lock.
Polling == {"stat", "compare", "read", "apply"}
Running == {"pending", "clear", "snapshot", "backup", "commit", "success", "failure", "release"}

\* A thread holds the run lock until its release, also in the poll after a success.
HoldsLock(t) == pc[t] \in Running \/ (pc[t] \in Polling /\ loc[t].then = "release")
LocksOK == \A t \in Threads : HoldsLock(t) => runLock = t

\* The config with its mutations, the copies made of it, and the mutations whose
\* record is still to be written: each is of one writer and new to the journal.
LogOK ==
    /\ log \in Seq(Contents) /\ Len(log) \in 1..(MaxMutations + 1) /\ reached \subseteq 2..Len(log)
    /\ archive \in Seq([by : {"run", "manual"}, snap : 1..Len(log)])
    /\ wr \in [Writers -> 0..(MaxMutations + 1)]
    /\ \A w \in Writers : wr[w] # 0 => wr[w] \in 2..Len(log) /\ wr[w] \notin reached
    /\ \A v, w \in Writers : wr[v] = wr[w] /\ wr[w] # 0 => v = w

\* What a backup is no longer owed for is in the last backup the journal names.
Settled == reached \ Owed(file)
JournalOK ==
    /\ WellFormed(file) /\ Knows(file, reached) /\ LastBackupExists
    /\ \A m \in Settled : \E j \in m..Len(log) : log[j] = LastBackup(file).hash

\* A backup of a run, and no run has made one since.
LastRun(b) == archive[b].by = "run" /\ \A c \in (b + 1)..Len(archive) : archive[c].by = "manual"

\* What a thread knows in the steps of a run: its snapshot is not older than what
\* the journal has settled or what the run will settle, and a backup it has made is
\* of that snapshot.
RunOK(t) ==
    /\ pc[t] \in {"rest", "due", "acquire", "pending", "snapshot", "backup"}
         \/ (pc[t] \in Polling /\ loc[t].then # "release") => loc[t].backup = NoBackup
    /\ pc[t] \in {"snapshot", "backup", "commit"} =>
         IsSeq(loc[t].ids) /\ \A i \in DOMAIN loc[t].ids : CoversOf(loc[t].ids[i]) \subseteq reached
    /\ pc[t] \in {"backup", "commit"} =>
         /\ loc[t].snap \in 1..Len(log) /\ \A m \in Settled : m <= loc[t].snap
         /\ \A i \in DOMAIN loc[t].ids : \A m \in CoversOf(loc[t].ids[i]) : m <= loc[t].snap
    /\ pc[t] = "backup" => log[loc[t].snap] # LastBackup(file).hash
    /\ pc[t] = "commit" =>
         IF loc[t].backup = NoBackup THEN log[loc[t].snap] = LastBackup(file).hash
         ELSE /\ loc[t].backup \in DOMAIN archive /\ archive[loc[t].backup].snap = loc[t].snap
              /\ LastRun(loc[t].backup)

\* Without a fault the last backup of a run is committed, or about to be.
CommittedOrAboutTo(b) ==
    b = LastBackup(file).backup \/ \E t \in Threads : pc[t] = "commit" /\ loc[t].backup = b
CopiesOK ==
    /\ NoIdenticalCopies
    /\ faults = 0 =>
         \A b \in DOMAIN archive : LastRun(b) => CommittedOrAboutTo(b)

\* The same for all threads.
RunsOK == \A t \in Threads : RunOK(t)

(***************************************************************************)
(* Numbers and sequences.                                                  *)
(***************************************************************************)

\* A set of numbers has a least element, and a largest when it is bounded.
LEMMA LeastElement ==
    ASSUME NEW S \in SUBSET Nat, S # {}
    PROVE  \E n \in S : \A k \in S : n <= k
<1>1. ASSUME NEW y \in Nat, NEW n \in Nat, y < n
      PROVE  <<y, n>> \in OpToRel(<, Nat)
  BY <1>1 DEF OpToRel
<1>2. PICK n \in S : \A y \in S : ~(<<y, n>> \in OpToRel(<, Nat))
  BY NatLessThanWellFounded, WFMin, Zenon
<1>3. \A k \in S : ~(k < n)
  BY <1>1, <1>2, Zenon
<1> QED
  BY <1>3

\* A bounded set of numbers has a largest element.
LEMMA LargestElement ==
    ASSUME NEW N \in Nat, NEW S \in SUBSET (1..N), S # {}
    PROVE  \E n \in S : \A k \in S : k <= n
<1> DEFINE gaps == {N - n : n \in S}
<1>1. gaps \in SUBSET Nat /\ gaps # {}
  OBVIOUS
<1>2. PICK g \in gaps : \A k \in gaps : g <= k
  BY <1>1, LeastElement
<1>3. PICK n \in S : g = N - n
  OBVIOUS
<1>4. ASSUME NEW k \in S
      PROVE  k <= n
  <2>1. N - n <= N - k
    BY <1>2, <1>3
  <2> QED
    BY <2>1
<1> QED
  BY <1>4

\* A finite set of numbers can be put in ascending order, each number once.
LEMMA AscendingSet ==
    ASSUME NEW S \in SUBSET Nat, IsFiniteSet(S)
    PROVE  /\ Cardinality(S) \in Nat
           /\ Ascending(S) \in [1..Cardinality(S) -> S]
           /\ Range(Ascending(S)) = S
<1> DEFINE size == Cardinality(S)
<1> DEFINE rank == [n \in S |-> Cardinality({p \in S : p <= n})]
<1>1. size \in Nat /\ IsFiniteSet(1..size) /\ Cardinality(1..size) = size
  BY FS_CardinalityType, FS_Interval
<1>2. ASSUME NEW n \in S
      PROVE  rank[n] \in 1..size
  <2>1. {p \in S : p <= n} \in SUBSET S /\ n \in {p \in S : p <= n}
    OBVIOUS
  <2>2. /\ IsFiniteSet({p \in S : p <= n})
        /\ Cardinality({p \in S : p <= n}) <= size /\ Cardinality({p \in S : p <= n}) # 0
    BY <2>1, FS_Subset, FS_EmptySet
  <2>3. Cardinality({p \in S : p <= n}) \in Nat
    BY <2>2, FS_CardinalityType
  <2> QED
    BY <1>1, <2>2, <2>3
<1>3. ASSUME NEW m \in S, NEW n \in S, m < n
      PROVE  rank[m] < rank[n]
  <2> DEFINE low == {p \in S : p <= m}
  <2> DEFINE high == {p \in S : p <= n}
  <2>1. /\ n \in high /\ n \notin low /\ high \in SUBSET S
        /\ \A p \in low : p \in high
    BY <1>3
  <2>2. IsFiniteSet(high)
    BY <2>1, FS_Subset
  <2> HIDE DEF low, high
  <2>3. Cardinality(low) <= Cardinality(high) /\ Cardinality(low) # Cardinality(high)
    BY <2>1, <2>2, FS_Subset
  <2>4. rank[m] = Cardinality(low) /\ rank[n] = Cardinality(high)
    BY DEF low, high
  <2> QED
    BY <1>1, <1>2, <2>3, <2>4
<1> HIDE DEF rank
<1>4. rank \in [S -> 1..size]
  BY <1>2 DEF rank
<1>5. rank \in Injection(S, 1..size)
  <2>1. ASSUME NEW m \in S, NEW n \in S, rank[m] = rank[n]
        PROVE  m = n
    <3>1. rank[m] \in Nat
      BY <1>1, <1>4
    <3>2. ~(m < n) /\ ~(n < m)
      BY <1>3, <2>1, <3>1
    <3> QED
      BY <3>2
  <2> QED
    BY <1>4, <2>1 DEF Injection, IsInjective
<1>6. \A i \in 1..size : \E n \in S : rank[n] = i
  <2>1. rank \in Surjection(S, 1..size)
    BY <1>1, <1>5, FS_Injection
  <2> QED
    BY <2>1 DEF Surjection
<1> DEFINE s == [i \in 1..size |-> CHOOSE n \in S : rank[n] = i]
<1>7. \A i \in 1..size : s[i] \in S /\ rank[s[i]] = i
  BY <1>6
<1>8. s \in [1..size -> S] /\ DOMAIN s = 1..size
  BY <1>7
<1> HIDE DEF s
<1>9. ASSUME NEW i \in DOMAIN s, NEW j \in DOMAIN s, i < j
      PROVE  s[i] < s[j]
  <2>1. s[i] \in Nat /\ s[j] \in Nat /\ rank[s[i]] = i /\ rank[s[j]] = j
    BY <1>7, <1>8
  <2>2. ~(s[j] < s[i]) /\ s[i] # s[j]
    BY <1>1, <1>3, <1>7, <1>8, <1>9, <2>1
  <2> QED
    BY <2>1, <2>2
<1> DEFINE a == Ascending(S)
<1>10. a \in [1..size -> S] /\ \A i, j \in DOMAIN a : i < j => a[i] < a[j]
  BY <1>8, <1>9 DEF Ascending
<1> HIDE DEF a
<1>11. a \in Injection(1..size, S)
  <2>1. ASSUME NEW i \in 1..size, NEW j \in 1..size, a[i] = a[j]
        PROVE  i = j
    <3>1. a[i] \in Nat
      BY <1>10
    <3>2. ~(a[i] < a[j]) /\ ~(a[j] < a[i])
      BY <2>1, <3>1
    <3> QED
      BY <1>1, <1>10, <3>2
  <2> QED
    BY <1>10, <2>1 DEF Injection, IsInjective
<1>12. a \in Surjection(1..size, S)
  BY <1>1, <1>11, FS_Injection
<1>13. Range(a) = S
  BY <1>10, <1>12 DEF Surjection, Range
<1> QED
  BY <1>1, <1>10, <1>13 DEF a

\* A sequence is one of its own elements.
LEMMA TypedSeq ==
    ASSUME NEW R, NEW s \in Seq(R)
    PROVE  IsSeq(s)
<1>1. Len(s) \in Nat /\ DOMAIN s = 1..Len(s)
  OBVIOUS
<1>2. s \in [1..Len(s) -> Range(s)]
  BY <1>1 DEF Range
<1> QED
  BY <1>1, <1>2 DEF IsSeq

\* Sequences of no type in particular.
LEMMA Joined ==
    ASSUME NEW s, NEW u, IsSeq(s), IsSeq(u)
    PROVE  /\ IsSeq(s \o u) /\ Len(s \o u) = Len(s) + Len(u) /\ DOMAIN (s \o u) = 1..(Len(s) + Len(u))
           /\ \A n \in 1..Len(s) : (s \o u)[n] = s[n]
           /\ \A n \in 1..Len(u) : (s \o u)[Len(s) + n] = u[n]
           /\ Len(s) \in Nat /\ Len(u) \in Nat /\ DOMAIN s = 1..Len(s) /\ DOMAIN u = 1..Len(u)
<1> DEFINE R == Range(s) \union Range(u)
<1>1. s \in Seq(R) /\ u \in Seq(R)
  BY DEF IsSeq
<1> HIDE DEF R
<1>2. /\ (s \o u) \in Seq(R) /\ Len(s \o u) = Len(s) + Len(u) /\ DOMAIN (s \o u) = 1..(Len(s) + Len(u))
      /\ \A n \in 1..Len(s) : (s \o u)[n] = s[n]
      /\ \A n \in 1..Len(u) : (s \o u)[Len(s) + n] = u[n]
      /\ Len(s) \in Nat /\ Len(u) \in Nat /\ DOMAIN s = 1..Len(s) /\ DOMAIN u = 1..Len(u)
  BY <1>1
<1>3. IsSeq(s \o u)
  BY <1>2, TypedSeq
<1> QED
  BY <1>2, <1>3

(***************************************************************************)
(* What a file holds.                                                      *)
(***************************************************************************)

\* What an entry covers is told by its id.
LEMMA CoversById ==
    ASSUME NEW f, WellFormed(f), NEW n \in EntryLines(f)
    PROVE  f[n].covers = CoversOf(EntryId(f, n))
<1>1. n \in DOMAIN f /\ LineOK(f[n]) /\ f[n].type \in {"change", "damaged"}
  BY DEF WellFormed, EntryLines
<1>2. CASE f[n].type = "change"
  BY <1>1, <1>2 DEF EntryId, LineOK
<1>3. CASE f[n].type = "damaged"
  <2>1. EntryId(f, n) = RecoveredId(n, f[n].of)
    BY <1>3 DEF EntryId
  <2>2. CoversOf(RecoveredId(n, f[n].of)) = IF f[n].of = 0 THEN {} ELSE {f[n].of}
    BY DEF CoversOf, RecoveredId
  <2> QED
    BY <1>1, <1>3, <2>1, <2>2 DEF LineOK
<1> QED
  BY <1>1, <1>2, <1>3

\* The pending entries, and what is owed for them.
LEMMA PendingIds ==
    ASSUME NEW f
    PROVE  PendingSet(f) = Entries(f) \ CommittedIds(f)
BY DEF PendingSet, Entries, Uncommitted

\* What is owed a backup is what the pending ids stand for.
LEMMA OwedByIds ==
    ASSUME NEW f, WellFormed(f), NEW m
    PROVE  m \in Owed(f) <=> \E id \in PendingSet(f) : m \in CoversOf(id)
<1>1. \A n \in Uncommitted(f) : n \in EntryLines(f) /\ f[n].covers = CoversOf(EntryId(f, n))
  BY CoversById DEF Uncommitted
<1>2. m \in Owed(f) <=> \E n \in Uncommitted(f) : m \in f[n].covers
  BY DEF Owed
<1>3. (\E id \in PendingSet(f) : m \in CoversOf(id)) <=> \E n \in Uncommitted(f) : m \in CoversOf(EntryId(f, n))
  BY DEF PendingSet
<1> QED
  BY <1>1, <1>2, <1>3

\* What files put one after the other hold.
LEMMA JoinedLines ==
    ASSUME NEW f, NEW g, WellFormed(f), WellFormed(g), \A n \in DOMAIN g : g[n].type # "damaged"
    PROVE  /\ WellFormed(f \o g)
           /\ Entries(f \o g) = Entries(f) \union Entries(g)
           /\ CommittedIds(f \o g) = CommittedIds(f) \union CommittedIds(g)
<1> DEFINE h == f \o g
<1>1. /\ IsSeq(h) /\ DOMAIN h = 1..(Len(f) + Len(g))
      /\ \A n \in 1..Len(f) : h[n] = f[n]
      /\ \A n \in 1..Len(g) : h[Len(f) + n] = g[n]
      /\ Len(f) \in Nat /\ Len(g) \in Nat /\ DOMAIN f = 1..Len(f) /\ DOMAIN g = 1..Len(g)
  BY Joined DEF WellFormed
<1> HIDE DEF h
<1>2. \A n \in DOMAIN h : n \in DOMAIN f \/ \E k \in DOMAIN g : n = Len(f) + k
  <2>1. ASSUME NEW n \in DOMAIN h, n \notin DOMAIN f
        PROVE  n - Len(f) \in DOMAIN g /\ n = Len(f) + (n - Len(f))
    BY <1>1, <2>1
  <2> QED
    BY <2>1
<1>3. /\ \A n \in DOMAIN f : n \in DOMAIN h /\ h[n] = f[n]
      /\ \A k \in DOMAIN g : Len(f) + k \in DOMAIN h /\ h[Len(f) + k] = g[k]
  BY <1>1
<1>4. WellFormed(h)
  BY <1>1, <1>2, <1>3 DEF WellFormed
<1>5. Entries(h) = Entries(f) \union Entries(g)
  <2>1. \A n \in EntryLines(f) : n \in EntryLines(h) /\ EntryId(h, n) = EntryId(f, n)
    BY <1>3 DEF EntryLines, EntryId
  <2>2. \A k \in EntryLines(g) : Len(f) + k \in EntryLines(h) /\ EntryId(h, Len(f) + k) = EntryId(g, k)
    BY <1>3 DEF EntryLines, EntryId
  <2>3. \A n \in EntryLines(h) : n \in EntryLines(f) \/ \E k \in EntryLines(g) : n = Len(f) + k
    BY <1>2, <1>3 DEF EntryLines
  <2> QED
    BY <2>1, <2>2, <2>3 DEF Entries
<1>6. CommittedIds(h) = CommittedIds(f) \union CommittedIds(g)
  <2>1. ASSUME NEW id
        PROVE  id \in CommittedIds(h) <=> id \in CommittedIds(f) \/ id \in CommittedIds(g)
    BY <1>2, <1>3 DEF CommittedIds
  <2> QED
    BY <2>1
<1> QED
  BY <1>4, <1>5, <1>6 DEF h

\* A fragment is an entry of its own.
LEMMA FragmentAppended ==
    ASSUME NEW f, WellFormed(f), NEW d, LineOK(d), d.type = "damaged"
    PROVE  /\ WellFormed(Append(f, d))
           /\ Entries(Append(f, d)) = Entries(f) \union {RecoveredId(Len(f) + 1, d.of)}
           /\ CommittedIds(Append(f, d)) = CommittedIds(f)
<1> DEFINE h == Append(f, d)
<1>1. /\ IsSeq(h) /\ DOMAIN h = 1..(Len(f) + 1) /\ Len(f) \in Nat /\ DOMAIN f = 1..Len(f)
      /\ \A n \in 1..Len(f) : h[n] = f[n]
      /\ h[Len(f) + 1] = d
  <2> DEFINE R == Range(f) \union {d}
  <2>1. f \in Seq(R) /\ d \in R
    BY DEF WellFormed, IsSeq
  <2> HIDE DEF R
  <2>2. /\ h \in Seq(R) /\ Len(h) = Len(f) + 1 /\ Len(f) \in Nat
        /\ \A n \in 1..Len(f) : h[n] = f[n]
        /\ h[Len(f) + 1] = d
    BY <2>1
  <2>3. DOMAIN h = 1..(Len(f) + 1) /\ DOMAIN f = 1..Len(f)
    BY <2>1, <2>2
  <2>4. IsSeq(h)
    BY <2>2, TypedSeq
  <2> HIDE DEF h
  <2> QED
    BY <2>2, <2>3, <2>4
<1> HIDE DEF h
<1>2. /\ \A n \in DOMAIN f : n \in DOMAIN h /\ h[n] = f[n]
      /\ Len(f) + 1 \in DOMAIN h
      /\ \A n \in DOMAIN h : n \in DOMAIN f \/ n = Len(f) + 1
  BY <1>1
<1>3. WellFormed(h)
  BY <1>1, <1>2 DEF WellFormed
<1>4. Entries(h) = Entries(f) \union {RecoveredId(Len(f) + 1, d.of)}
  <2>1. \A n \in EntryLines(f) : n \in EntryLines(h) /\ EntryId(h, n) = EntryId(f, n)
    BY <1>2 DEF EntryLines, EntryId
  <2>2. Len(f) + 1 \in EntryLines(h) /\ EntryId(h, Len(f) + 1) = RecoveredId(Len(f) + 1, d.of)
    BY <1>1, <1>2 DEF EntryLines, EntryId
  <2>3. \A n \in EntryLines(h) : n \in EntryLines(f) \/ n = Len(f) + 1
    BY <1>2 DEF EntryLines
  <2> QED
    BY <2>1, <2>2, <2>3 DEF Entries
<1>5. CommittedIds(h) = CommittedIds(f)
  <2>1. ASSUME NEW id
        PROVE  id \in CommittedIds(h) <=> id \in CommittedIds(f)
    BY <1>1, <1>2 DEF CommittedIds
  <2> QED
    BY <2>1
<1> QED
  BY <1>3, <1>4, <1>5 DEF h

\* Files with the same setters name the same last backup.
LEMMA LastBackupSame ==
    ASSUME NEW f, NEW h, WellFormed(f), Setters(f) = Setters(h), \A n \in Setters(f) : f[n] = h[n]
    PROVE  LastBackup(f) = LastBackup(h)
<1> DEFINE last == CHOOSE n \in Setters(f) : \A m \in Setters(f) : m <= n
<1>1. LastBackup(f) = IF Setters(f) = {} THEN [hash |-> NoHash, backup |-> NoBackup]
                      ELSE [hash |-> f[last].hash, backup |-> f[last].backup]
  BY DEF LastBackup, Setters
<1>2. LastBackup(h) = IF Setters(f) = {} THEN [hash |-> NoHash, backup |-> NoBackup]
                      ELSE [hash |-> h[last].hash, backup |-> h[last].backup]
  BY DEF LastBackup, Setters
<1>3. Setters(f) = {} \/ last \in Setters(f)
  <2>1. Len(f) \in Nat /\ DOMAIN f = 1..Len(f)
    BY DEF WellFormed, IsSeq
  <2>2. Setters(f) \in SUBSET (1..Len(f))
    BY <2>1 DEF Setters
  <2>3. Setters(f) # {} => \E n \in Setters(f) : \A m \in Setters(f) : m <= n
    BY <2>1, <2>2, LargestElement
  <2> QED
    BY <2>3
<1> QED
  BY <1>1, <1>2, <1>3

\* The last setter of a file names the last backup.
LEMMA LastBackupIs ==
    ASSUME NEW f, WellFormed(f), NEW n \in Setters(f), \A p \in Setters(f) : p <= n
    PROVE  LastBackup(f).hash = f[n].hash /\ LastBackup(f).backup = f[n].backup
<1> DEFINE last == CHOOSE k \in Setters(f) : \A p \in Setters(f) : p <= k
<1>1. LastBackup(f) = [hash |-> f[last].hash, backup |-> f[last].backup]
  BY DEF LastBackup, Setters
<1>2. last \in Setters(f) /\ \A p \in Setters(f) : p <= last
  OBVIOUS
<1>3. Setters(f) \subseteq Nat
  <2>1. DOMAIN f \subseteq Nat
    BY DEF WellFormed, IsSeq
  <2> QED
    BY <2>1 DEF Setters
<1> HIDE DEF last
<1>4. last = n
  BY <1>2, <1>3
<1> QED
  BY <1>1, <1>4

\* Lines that set no last backup leave it as it was; those that do, decide it.
LEMMA JoinedLastBackup ==
    ASSUME NEW f, NEW g, WellFormed(f), WellFormed(g)
    PROVE  /\ Setters(g) = {} => LastBackup(f \o g) = LastBackup(f)
           /\ \A n \in Setters(g) : (\A p \in Setters(g) : p <= n) /\ WellFormed(f \o g) =>
                LastBackup(f \o g).hash = g[n].hash /\ LastBackup(f \o g).backup = g[n].backup
<1> DEFINE h == f \o g
<1>1. /\ IsSeq(h) /\ DOMAIN h = 1..(Len(f) + Len(g))
      /\ \A n \in 1..Len(f) : h[n] = f[n]
      /\ \A n \in 1..Len(g) : h[Len(f) + n] = g[n]
      /\ Len(f) \in Nat /\ Len(g) \in Nat /\ DOMAIN f = 1..Len(f) /\ DOMAIN g = 1..Len(g)
  BY Joined DEF WellFormed
<1> HIDE DEF h
<1>2. ASSUME NEW n \in Setters(h)
      PROVE  n \in Setters(f) \/ (n - Len(f) \in Setters(g) /\ n \in Nat)
  <2>1. n \in 1..(Len(f) + Len(g))
    BY <1>1 DEF Setters
  <2>2. CASE n \in 1..Len(f)
    BY <1>1, <2>2 DEF Setters
  <2>3. CASE n \notin 1..Len(f)
    <3>1. n - Len(f) \in 1..Len(g) /\ n = Len(f) + (n - Len(f)) /\ n \in Nat
      BY <1>1, <2>1, <2>3
    <3>2. h[n] = g[n - Len(f)]
      BY <1>1, <3>1
    <3> QED
      BY <1>1, <3>1, <3>2 DEF Setters
  <2> QED
    BY <2>2, <2>3
<1>3. \A n \in Setters(f) : n \in Setters(h) /\ h[n] = f[n] /\ n \in Nat /\ n <= Len(f)
  BY <1>1 DEF Setters
<1>4. \A n \in Setters(g) : Len(f) + n \in Setters(h) /\ h[Len(f) + n] = g[n] /\ n \in Nat \ {0}
  BY <1>1 DEF Setters
<1>5. ASSUME Setters(g) = {}
      PROVE  LastBackup(h) = LastBackup(f)
  <2>1. Setters(h) = Setters(f)
    BY <1>2, <1>3, <1>5
  <2> QED
    BY <2>1, <1>3, LastBackupSame
<1>6. ASSUME NEW n \in Setters(g), \A p \in Setters(g) : p <= n, WellFormed(h)
      PROVE  LastBackup(h).hash = g[n].hash /\ LastBackup(h).backup = g[n].backup
  <2>1. \A p \in Setters(h) : p <= Len(f) + n
    <3>1. ASSUME NEW p \in Setters(h)
          PROVE  p <= Len(f) + n
      <4>1. n \in Nat \ {0} /\ Len(f) \in Nat
        BY <1>1, <1>4
      <4>2. CASE p \in Setters(f)
        BY <1>3, <4>1, <4>2
      <4>3. CASE p - Len(f) \in Setters(g) /\ p \in Nat
        <5>1. p - Len(f) <= n
          BY <1>6, <4>3
        <5> QED
          BY <4>1, <4>3, <5>1
      <4> QED
        BY <1>2, <4>2, <4>3
    <3> QED
      BY <3>1
  <2> DEFINE last == Len(f) + n
  <2>2. last \in Setters(h) /\ h[last] = g[n] /\ \A p \in Setters(h) : p <= last
    BY <1>4, <2>1
  <2> HIDE DEF last
  <2> QED
    BY <1>6, <2>2, LastBackupIs
<1> QED
  BY <1>5, <1>6 DEF h

\* A fragment sets no last backup.
LEMMA FragmentLastBackup ==
    ASSUME NEW f, WellFormed(f), NEW d, LineOK(d), d.type = "damaged"
    PROVE  LastBackup(Append(f, d)) = LastBackup(f)
<1> DEFINE h == Append(f, d)
<1>1. /\ DOMAIN h = 1..(Len(f) + 1) /\ Len(f) \in Nat /\ DOMAIN f = 1..Len(f)
      /\ \A n \in 1..Len(f) : h[n] = f[n]
      /\ h[Len(f) + 1] = d
  <2> DEFINE R == Range(f) \union {d}
  <2>1. f \in Seq(R) /\ d \in R
    BY DEF WellFormed, IsSeq
  <2> HIDE DEF R
  <2>2. /\ h \in Seq(R) /\ Len(h) = Len(f) + 1 /\ Len(f) \in Nat
        /\ \A n \in 1..Len(f) : h[n] = f[n]
        /\ h[Len(f) + 1] = d
    BY <2>1
  <2>3. DOMAIN h = 1..(Len(f) + 1) /\ DOMAIN f = 1..Len(f)
    BY <2>1, <2>2
  <2> HIDE DEF h
  <2> QED
    BY <2>2, <2>3
<1> HIDE DEF h
<1>2. Setters(f) = Setters(h) /\ \A n \in Setters(f) : f[n] = h[n]
  BY <1>1 DEF Setters
<1> QED
  BY <1>2, LastBackupSame DEF h

(***************************************************************************)
(* Compaction.                                                             *)
(***************************************************************************)

\* A function on 1..n is a sequence.
LEMMA FunctionSeq ==
    ASSUME NEW n \in Nat, NEW s, s = [i \in 1..n |-> s[i]]
    PROVE  IsSeq(s) /\ Len(s) = n /\ DOMAIN s = 1..n
<1>1. DOMAIN s = 1..n
  OBVIOUS
<1>2. s \in [1..n -> Range(s)]
  BY <1>1 DEF Range
<1>3. s \in Seq(Range(s))
  BY <1>2
<1>4. Len(s) = n
  BY <1>1, <1>3
<1> QED
  BY <1>1, <1>3, <1>4 DEF IsSeq

\* Leaving out the lines that repeat an id loses no id.
LEMMA FirstsIds ==
    ASSUME NEW f, WellFormed(f), NEW lines \in SUBSET DOMAIN f
    PROVE  /\ Firsts(f, lines) \subseteq lines
           /\ \A n \in lines : \E p \in Firsts(f, lines) : EntryId(f, p) = EntryId(f, n)
<1>1. DOMAIN f \subseteq Nat \ {0}
  BY DEF WellFormed, IsSeq
<1>2. ASSUME NEW n \in lines
      PROVE  \E p \in Firsts(f, lines) : EntryId(f, p) = EntryId(f, n)
  <2> DEFINE same == {p \in lines : EntryId(f, p) = EntryId(f, n)}
  <2>1. same \in SUBSET Nat /\ same # {}
    BY <1>1
  <2>2. PICK p \in same : \A k \in same : p <= k
    BY <2>1, LeastElement
  <2>3. ASSUME NEW k \in 1..(p - 1), k \in lines
        PROVE  EntryId(f, k) # EntryId(f, p)
    BY <1>1, <2>2, <2>3
  <2> QED
    BY <2>2, <2>3 DEF Firsts
<1> QED
  BY <1>2 DEF Firsts

\* The overflow entry covers what the merged entries covered.
LEMMA OverflowFacts ==
    ASSUME NEW f, WellFormed(f), NEW old, old = MergedLines(f), NEW u
    PROVE  /\ old \subseteq PendingLines(f)
           /\ WellFormed(OverflowLines(f, u)) /\ \A n \in DOMAIN OverflowLines(f, u) : OverflowLines(f, u)[n].type = "change"
           /\ CommittedIds(OverflowLines(f, u)) = {}
           /\ old = {} => Entries(OverflowLines(f, u)) = {}
           /\ old # {} => \E id : /\ Entries(OverflowLines(f, u)) = {id} /\ Overflow(id, u)
                                 /\ CoversOf(id) = UNION {f[n].covers : n \in old}
<1>1. old \subseteq PendingLines(f)
  BY DEF MergedLines
<1>2. CASE old = {}
  <2>1. OverflowLines(f, u) = <<>>
    BY <1>2 DEF OverflowLines
  <2>2. IsSeq(<<>>) /\ DOMAIN <<>> = {}
    BY DEF IsSeq
  <2> QED
    BY <1>1, <1>2, <2>1, <2>2 DEF WellFormed, CommittedIds, Entries, EntryLines
<1>3. CASE old # {}
  <2> DEFINE count == SumFunction([n \in old |-> f[n].merged])
  <2> DEFINE covers == UNION {f[n].covers : n \in old}
  <2> DEFINE id == OverflowId(u, covers)
  <2> DEFINE line == ChangeLine(id, covers, count)
  <2>1. OverflowLines(f, u) = <<line>>
    BY <1>3 DEF OverflowLines
  <2>2. id.k = "ovf" /\ id.covers = covers /\ Overflow(id, u)
    BY DEF OverflowId, Overflow
  <2> HIDE DEF id
  <2>3. CoversOf(id) = covers
    BY <2>2 DEF CoversOf
  <2> HIDE DEF covers, count
  <2>4. line.type = "change" /\ line.id = id /\ line.covers = covers
    BY DEF ChangeLine
  <2> HIDE DEF line
  <2>5. LineOK(line)
    BY <2>2, <2>3, <2>4 DEF LineOK
  <2> DEFINE s == <<line>>
  <2>6. IsSeq(s) /\ DOMAIN s = {1} /\ s[1] = line
    BY DEF IsSeq, Range
  <2> HIDE DEF s
  <2>7. WellFormed(s) /\ EntryLines(s) = {1} /\ EntryId(s, 1) = id /\ CommittedIds(s) = {}
    BY <2>4, <2>5, <2>6 DEF WellFormed, EntryLines, EntryId, CommittedIds
  <2>8. Entries(s) = {id}
    BY <2>7 DEF Entries
  <2>9. OverflowLines(f, u) = s
    BY <2>1 DEF s
  <2> QED
    BY <1>1, <1>3, <2>2, <2>3, <2>4, <2>6, <2>7, <2>8, <2>9 DEF covers
<1> QED
  BY <1>2, <1>3

\* The lines of a file are finitely many numbers.
LEMMA LinesFinite ==
    ASSUME NEW f, WellFormed(f), NEW lines \in SUBSET DOMAIN f
    PROVE  lines \in SUBSET Nat /\ IsFiniteSet(lines)
<1>1. Len(f) \in Nat /\ DOMAIN f = 1..Len(f)
  BY DEF WellFormed, IsSeq
<1>2. IsFiniteSet(1..Len(f))
  BY <1>1, FS_Interval
<1>3. IsFiniteSet(DOMAIN f)
  BY <1>1, <1>2
<1> QED
  BY <1>1, <1>3, FS_Subset

\* The kept entries keep their ids.
LEMMA KeptFacts ==
    ASSUME NEW f, WellFormed(f), NEW lines \in SUBSET EntryLines(f),
           NEW s, s = KeptEntries(f, lines)
    PROVE  /\ WellFormed(s) /\ \A n \in DOMAIN s : s[n].type = "change"
           /\ CommittedIds(s) = {}
           /\ Entries(s) = {EntryId(f, n) : n \in lines}
<1> DEFINE a == Ascending(lines)
<1> DEFINE size == Cardinality(lines)
<1>1. lines \in SUBSET DOMAIN f
  BY DEF EntryLines
<1>2. lines \in SUBSET Nat /\ IsFiniteSet(lines)
  BY <1>1, LinesFinite
<1>4. size \in Nat /\ a \in [1..size -> lines] /\ Range(a) = lines
  BY <1>2, AscendingSet
<1>0. s = [i \in DOMAIN a |-> ChangeLine(EntryId(f, a[i]), f[a[i]].covers, f[a[i]].merged)]
  BY DEF KeptEntries
<1> HIDE DEF a, size
<1>5. s = [i \in 1..size |-> ChangeLine(EntryId(f, a[i]), f[a[i]].covers, f[a[i]].merged)]
  BY <1>4, <1>0
<1>6. IsSeq(s) /\ DOMAIN s = 1..size
  BY <1>4, <1>5, FunctionSeq
<1>7. \A i \in 1..size : a[i] \in lines /\ s[i].type = "change" /\ s[i].id = EntryId(f, a[i]) /\ s[i].covers = f[a[i]].covers
  <2>1. ASSUME NEW i \in 1..size
        PROVE  s[i] = ChangeLine(EntryId(f, a[i]), f[a[i]].covers, f[a[i]].merged)
    BY <1>5
  <2>2. ASSUME NEW i \in 1..size
        PROVE  a[i] \in lines
    BY <1>4
  <2>3. ASSUME NEW id, NEW covers, NEW merged
        PROVE  LET line == ChangeLine(id, covers, merged) IN line.type = "change" /\ line.id = id /\ line.covers = covers
    BY DEF ChangeLine
  <2> QED
    BY <2>1, <2>2, <2>3
<1>8. ASSUME NEW n \in lines
      PROVE  EntryId(f, n).k \in {"chg", "rec", "ovf"} /\ f[n].covers = CoversOf(EntryId(f, n))
  <2>1. f[n].covers = CoversOf(EntryId(f, n))
    BY CoversById
  <2>2. LineOK(f[n]) /\ f[n].type \in {"change", "damaged"}
    BY DEF WellFormed, EntryLines
  <2>3. EntryId(f, n).k \in {"chg", "rec", "ovf"}
    BY <2>2 DEF LineOK, EntryId, RecoveredId
  <2> QED
    BY <2>1, <2>3
<1>9. WellFormed(s)
  BY <1>6, <1>7, <1>8 DEF WellFormed, LineOK
<1>10. CommittedIds(s) = {}
  BY <1>6, <1>7 DEF CommittedIds
<1>11. EntryLines(s) = 1..size /\ \A i \in 1..size : EntryId(s, i) = EntryId(f, a[i])
  BY <1>6, <1>7 DEF EntryLines, EntryId
<1>12. \A n \in lines : \E i \in 1..size : n = a[i]
  BY <1>4 DEF Range
<1>13. Entries(s) = {EntryId(f, n) : n \in lines}
  <2>1. Entries(s) = {EntryId(s, i) : i \in 1..size}
    BY <1>11 DEF Entries
  <2>2. \A i \in 1..size : EntryId(s, i) \in {EntryId(f, n) : n \in lines}
    BY <1>7, <1>11
  <2>3. \A n \in lines : EntryId(f, n) \in {EntryId(s, i) : i \in 1..size}
    BY <1>11, <1>12
  <2> QED
    BY <2>1, <2>2, <2>3
<1> QED
  BY <1>6, <1>7, <1>9, <1>10, <1>13

\* The kept commits commit the kept ids and no others.
LEMMA KeptCommitsFacts ==
    ASSUME NEW f, WellFormed(f), NEW keptIds, NEW s, s = KeptCommits(f, keptIds)
    PROVE  /\ WellFormed(s) /\ \A n \in DOMAIN s : s[n].type = "commit"
           /\ Entries(s) = {}
           /\ CommittedIds(s) = CommittedIds(f) \intersect keptIds
<1> DEFINE lines == {n \in DOMAIN f : f[n].type = "commit" /\ f[n].ids \intersect keptIds # {}}
<1> DEFINE a == Ascending(lines)
<1> DEFINE size == Cardinality(lines)
<1>1. lines \in SUBSET DOMAIN f
  OBVIOUS
<1>2. lines \in SUBSET Nat /\ IsFiniteSet(lines)
  BY <1>1, LinesFinite
<1> HIDE DEF lines
<1>4. size \in Nat /\ a \in [1..size -> lines] /\ Range(a) = lines
  BY <1>2, AscendingSet
<1>5. s = [i \in DOMAIN a |-> CommitLine(f[a[i]].ids \intersect keptIds, f[a[i]].outcome, f[a[i]].hash, f[a[i]].backup)]
  BY DEF KeptCommits, lines
<1> HIDE DEF a, size
<1>6. s = [i \in 1..size |-> CommitLine(f[a[i]].ids \intersect keptIds, f[a[i]].outcome, f[a[i]].hash, f[a[i]].backup)]
  BY <1>4, <1>5
<1>7. IsSeq(s) /\ DOMAIN s = 1..size
  BY <1>4, <1>6, FunctionSeq
<1>8. \A i \in 1..size : a[i] \in lines /\ s[i].type = "commit" /\ s[i].ids = f[a[i]].ids \intersect keptIds
  BY <1>4, <1>6 DEF CommitLine
<1>9. WellFormed(s) /\ Entries(s) = {}
  BY <1>7, <1>8 DEF WellFormed, LineOK, Entries, EntryLines
<1>10. ASSUME NEW id
       PROVE  id \in CommittedIds(s) <=> \E i \in 1..size : id \in s[i].ids
  BY <1>7, <1>8 DEF CommittedIds
<1>11. ASSUME NEW id
       PROVE  id \in CommittedIds(f) <=> \E n \in DOMAIN f : f[n].type = "commit" /\ id \in f[n].ids
  BY DEF CommittedIds
<1>12. ASSUME NEW id
       PROVE  id \in CommittedIds(s) <=> id \in CommittedIds(f) /\ id \in keptIds
  <2>1. ASSUME id \in CommittedIds(s)
        PROVE  id \in CommittedIds(f) /\ id \in keptIds
    BY <1>8, <1>10, <1>11, <2>1 DEF lines
  <2>2. ASSUME id \in CommittedIds(f), id \in keptIds
        PROVE  id \in CommittedIds(s)
    <3>1. PICK n \in DOMAIN f : f[n].type = "commit" /\ id \in f[n].ids
      BY <1>11, <2>2
    <3>2. n \in lines
      BY <2>2, <3>1 DEF lines
    <3>3. PICK i \in 1..size : n = a[i]
      BY <1>4, <3>2 DEF Range
    <3> QED
      BY <1>8, <1>10, <2>2, <3>1, <3>3
  <2> QED
    BY <2>1, <2>2
<1> QED
  BY <1>7, <1>8, <1>9, <1>12

\* A committed entry that is kept is an ordinary change record.
LEMMA KeptCommittedFacts ==
    ASSUME NEW f, WellFormed(f), NEW n \in CommittedWithinBudget(f)
    PROVE  n \in EntryLines(f) /\ EntryId(f, n) \in CommittedIds(f) /\ EntryId(f, n).k = "chg"
<1> DEFINE committed == {p \in EntryLines(f) \ Uncommitted(f) : ~Recovered(f, p)}
<1>1. \A S, k : Newest(S, k) \subseteq S
  BY DEF Newest
<1>2. n \in committed
  BY <1>1 DEF CommittedWithinBudget, Firsts
<1>3. n \in EntryLines(f) /\ EntryId(f, n) \in CommittedIds(f) /\ ~Recovered(f, n)
  BY <1>2 DEF Uncommitted
<1>4. f[n].type = "change" /\ LineOK(f[n])
  BY <1>3 DEF EntryLines, Recovered, WellFormed
<1>5. f[n].id.k = "chg"
  BY <1>3, <1>4 DEF Recovered, LineOK
<1> QED
  BY <1>3, <1>4, <1>5 DEF EntryId

\* Compaction keeps what is owed and what the last backup was.
LEMMA CompactedKeeps ==
    ASSUME NEW f, WellFormed(f), NEW R, Knows(f, R), NEW u
    PROVE  /\ WellFormed(Compacted(f, u)) /\ Knows(Compacted(f, u), R)
           /\ Owed(Compacted(f, u)) = Owed(f)
           /\ LastBackup(Compacted(f, u)).hash = LastBackup(f).hash
           /\ LastBackup(Compacted(f, u)).backup = LastBackup(f).backup
           /\ BringsIn(f, Compacted(f, u), {}, u) /\ SamePending(f, Compacted(f, u), u)
<1> DEFINE old == MergedLines(f)
<1> DEFINE pending == PendingLines(f)
<1> DEFINE committed == CommittedWithinBudget(f)
<1> DEFINE keptIds == {EntryId(f, n) : n \in committed}
<1> DEFINE lines == committed \union (pending \ old)
<1> DEFINE a == OverflowLines(f, u)
<1> DEFINE b == KeptEntries(f, lines)
<1> DEFINE c == KeptCommits(f, keptIds)
<1> DEFINE d == <<CheckpointLine(LastBackup(f))>>
<1> DEFINE h == ((a \o b) \o c) \o d
<1>0. Compacted(f, u) = h
  BY DEF Compacted
<1>1. /\ pending \in SUBSET Uncommitted(f) /\ Uncommitted(f) \in SUBSET EntryLines(f)
      /\ Uncommitted(f) \in SUBSET DOMAIN f
      /\ \A n \in Uncommitted(f) : EntryId(f, n) \notin CommittedIds(f)
      /\ \A n \in Uncommitted(f) : \E p \in pending : EntryId(f, p) = EntryId(f, n)
  <2>1. Uncommitted(f) \in SUBSET EntryLines(f) /\ Uncommitted(f) \in SUBSET DOMAIN f
    BY DEF Uncommitted, EntryLines
  <2> QED
    BY <2>1, FirstsIds DEF PendingLines, Uncommitted
<1>2. \A n \in committed : n \in EntryLines(f) /\ EntryId(f, n) \in CommittedIds(f) /\ EntryId(f, n).k = "chg"
  BY KeptCommittedFacts
<1>3. /\ old \subseteq pending
      /\ WellFormed(a) /\ \A n \in DOMAIN a : a[n].type = "change"
      /\ CommittedIds(a) = {}
      /\ old = {} => Entries(a) = {}
      /\ old # {} => \E id : /\ Entries(a) = {id} /\ Overflow(id, u)
                             /\ CoversOf(id) = UNION {f[n].covers : n \in old}
  BY OverflowFacts
<1> HIDE DEF old, pending, committed
<1>4. lines \in SUBSET EntryLines(f)
  BY <1>1, <1>2
<1> HIDE DEF lines
<1>5. /\ WellFormed(b) /\ \A n \in DOMAIN b : b[n].type = "change"
      /\ CommittedIds(b) = {}
      /\ Entries(b) = {EntryId(f, n) : n \in lines}
  BY <1>4, KeptFacts
<1>6. /\ WellFormed(c) /\ \A n \in DOMAIN c : c[n].type = "commit"
      /\ Entries(c) = {}
      /\ CommittedIds(c) = CommittedIds(f) \intersect keptIds
  BY KeptCommitsFacts
<1>7. keptIds \in SUBSET CommittedIds(f)
  BY <1>2
<1>8. /\ WellFormed(d) /\ DOMAIN d = {1} /\ d[1].type = "checkpoint"
      /\ Entries(d) = {} /\ CommittedIds(d) = {} /\ Setters(d) = {1}
      /\ d[1].hash = LastBackup(f).hash /\ d[1].backup = LastBackup(f).backup
  <2> DEFINE line == CheckpointLine(LastBackup(f))
  <2>1. line.type = "checkpoint" /\ line.hash = LastBackup(f).hash /\ line.backup = LastBackup(f).backup
    BY DEF CheckpointLine
  <2> HIDE DEF line
  <2>2. IsSeq(d) /\ DOMAIN d = {1} /\ d[1] = line
    BY DEF IsSeq, Range, line
  <2> HIDE DEF d
  <2> QED
    BY <2>1, <2>2 DEF WellFormed, LineOK, Entries, EntryLines, CommittedIds, Setters
<1> HIDE DEF a, b, c, d
<1>9. /\ WellFormed(a \o b)
      /\ Entries(a \o b) = Entries(a) \union Entries(b)
      /\ CommittedIds(a \o b) = {}
  BY <1>3, <1>5, JoinedLines
<1>10. /\ WellFormed((a \o b) \o c)
       /\ Entries((a \o b) \o c) = Entries(a) \union Entries(b)
       /\ CommittedIds((a \o b) \o c) = keptIds
  <2> DEFINE ab == a \o b
  <2> HIDE DEF keptIds
  <2>1. WellFormed(ab) /\ CommittedIds(ab) = {} /\ Entries(ab) = Entries(a) \union Entries(b)
    BY <1>9
  <2> HIDE DEF ab
  <2>2. WellFormed(ab \o c) /\ Entries(ab \o c) = Entries(ab) \union Entries(c)
        /\ CommittedIds(ab \o c) = CommittedIds(ab) \union CommittedIds(c)
    BY <1>6, <2>1, JoinedLines
  <2> QED
    BY <1>6, <1>7, <2>1, <2>2 DEF ab
<1> DEFINE abc == (a \o b) \o c
<1> HIDE DEF abc
<1>11. WellFormed(abc) /\ Entries(abc) = Entries(a) \union Entries(b) /\ CommittedIds(abc) = keptIds /\ h = abc \o d
  <2> HIDE DEF keptIds
  <2>1. h = abc \o d
    BY DEF abc
  <2> HIDE DEF h
  <2> QED
    BY <1>10, <2>1 DEF abc
<1> HIDE DEF h, keptIds
<1>12. WellFormed(h) /\ Entries(h) = Entries(a) \union Entries(b) /\ CommittedIds(h) = keptIds
  <2>1. \A n \in DOMAIN d : d[n].type # "damaged"
    BY <1>8
  <2>2. /\ WellFormed(abc \o d)
        /\ Entries(abc \o d) = Entries(abc) \union Entries(d)
        /\ CommittedIds(abc \o d) = CommittedIds(abc) \union CommittedIds(d)
    BY <1>8, <1>11, <2>1, JoinedLines
  <2> QED
    BY <1>8, <1>11, <2>2
<1>13. LastBackup(h).hash = LastBackup(f).hash /\ LastBackup(h).backup = LastBackup(f).backup
  <2>1. \A p \in Setters(d) : p <= 1
    BY <1>8
  <2> QED
    BY <1>8, <1>11, <1>12, <2>1, JoinedLastBackup
<1>14. \A n \in EntryLines(f) : f[n].covers = CoversOf(EntryId(f, n))
  BY CoversById
<1>15. PendingSet(h) = Entries(a) \union {EntryId(f, n) : n \in pending \ old}
  <2>1. \A id \in Entries(a) : id \notin keptIds
    BY <1>2, <1>3 DEF keptIds, Overflow
  <2>2. \A n \in committed : EntryId(f, n) \in keptIds
    BY DEF keptIds
  <2>3. \A n \in pending \ old : EntryId(f, n) \notin keptIds
    BY <1>1, <1>7
  <2>4. Entries(b) = {EntryId(f, n) : n \in committed} \union {EntryId(f, n) : n \in pending \ old}
    BY <1>5 DEF lines
  <2>5. {EntryId(f, n) : n \in committed} = keptIds
    BY DEF keptIds
  <2>6. \A id \in {EntryId(f, n) : n \in pending \ old} : id \notin keptIds
    BY <2>3
  <2> DEFINE p == {EntryId(f, n) : n \in pending \ old}
  <2> HIDE DEF p
  <2>7. Entries(b) = keptIds \union p /\ (\A id \in p : id \notin keptIds)
    BY <2>4, <2>5, <2>6 DEF p
  <2>8. PendingSet(h) = Entries(a) \union p
    BY <1>12, <2>1, <2>7, PendingIds
  <2> QED
    BY <2>8 DEF p
<1>16. ASSUME NEW m
       PROVE  m \in Owed(h) <=> m \in Owed(f)
  <2>1. m \in Owed(h) <=> \E id \in PendingSet(h) : m \in CoversOf(id)
    BY <1>12, OwedByIds
  <2>2. m \in Owed(f) <=> \E n \in Uncommitted(f) : m \in f[n].covers
    BY DEF Owed
  <2>3. m \in Owed(f) <=> \E n \in pending : m \in f[n].covers
    BY <1>1, <1>14, <2>2
  <2>4. (\E id \in Entries(a) : m \in CoversOf(id)) <=> \E n \in old : m \in f[n].covers
    BY <1>3
  <2>5. (\E id \in {EntryId(f, n) : n \in pending \ old} : m \in CoversOf(id))
          <=> \E n \in pending \ old : m \in f[n].covers
    BY <1>1, <1>14
  <2> QED
    BY <1>3, <1>15, <2>1, <2>3, <2>4, <2>5
<1>17. Knows(h, R)
  <2>1. \A n \in EntryLines(f) : f[n].covers \subseteq R
    BY <1>14 DEF Knows, Entries
  <2>2. \A id \in keptIds : CoversOf(id) \subseteq R
    BY <1>7 DEF Knows
  <2>3. \A id \in Entries(a) : CoversOf(id) \subseteq R
    BY <1>1, <1>3, <2>1
  <2>4. \A id \in Entries(b) : CoversOf(id) \subseteq R
    BY <1>4, <1>5, <1>14, <2>1
  <2> QED
    BY <1>12, <2>2, <2>3, <2>4 DEF Knows
<1>18. \A id \in Entries(a) : Overflow(id, u)
  BY <1>3
<1>19. BringsIn(f, h, {}, u)
  <2>1. \A id \in Entries(b) : id \in Entries(f)
    BY <1>4, <1>5 DEF Entries
  <2> QED
    BY <1>7, <1>12, <1>18, <2>1 DEF BringsIn, Overflow
<1>20. SamePending(f, h, u)
  <2>1. \A n \in Uncommitted(f) : EntryId(f, n) \in PendingSet(f)
    BY DEF PendingSet
  <2>2. \A id \in PendingSet(h) : id \in PendingSet(f) \/ Overflow(id, u)
    BY <1>1, <1>15, <1>18, <2>1
  <2>3. ASSUME NEW id \in PendingSet(f)
        PROVE  PendingSet(h) # {}
    <3>1. PICK n \in pending : TRUE
      BY <1>1 DEF PendingSet
    <3>2. CASE n \in old
      BY <1>3, <1>15, <3>2
    <3>3. CASE n \notin old
      BY <1>15, <3>1, <3>3
    <3> QED
      BY <3>2, <3>3
  <2> QED
    BY <2>2, <2>3 DEF SamePending
<1> QED
  BY <1>0, <1>12, <1>13, <1>16, <1>17, <1>19, <1>20

(***************************************************************************)
(* Appends.                                                                *)
(***************************************************************************)

\* Writing the next line of an append makes its prefix longer by one.
LEMMA Prefixes ==
    ASSUME NEW f, IsSeq(f), NEW lines, IsSeq(lines), NEW k \in 0..Len(lines)
    PROVE  /\ IsSeq(SubSeq(lines, 1, k)) /\ DOMAIN SubSeq(lines, 1, k) = 1..k
           /\ \A i \in 1..k : SubSeq(lines, 1, k)[i] = lines[i] /\ i \in DOMAIN lines
           /\ k < Len(lines) => /\ k + 1 \in 0..Len(lines) /\ k + 1 \in DOMAIN lines
                                /\ Append(f \o SubSeq(lines, 1, k), lines[k + 1]) = f \o SubSeq(lines, 1, k + 1)
           /\ k = 0 => f \o SubSeq(lines, 1, k) = f
           /\ k = Len(lines) => SubSeq(lines, 1, k) = lines
<1> DEFINE R == Range(f) \union Range(lines)
<1>1. f \in Seq(R) /\ lines \in Seq(R)
  BY DEF IsSeq
<1> HIDE DEF R
<1> DEFINE p == SubSeq(lines, 1, k)
<1>2. Len(lines) \in Nat /\ DOMAIN lines = 1..Len(lines) /\ k \in Nat /\ Len(f) \in Nat /\ k <= Len(lines)
  BY <1>1
<1>3. p \in Seq(R) /\ Len(p) = k /\ \A i \in 1..k : p[i] = lines[i]
  BY <1>1, <1>2
<1>6. k = 0 => f \o p = f
  BY <1>1, <1>3
<1>7. k = Len(lines) => p = lines
  BY <1>1, <1>3
<1> HIDE DEF p
<1>4. DOMAIN p = 1..k /\ IsSeq(p)
  BY <1>3, TypedSeq
<1>8. \A i \in 1..k : i \in DOMAIN lines
  BY <1>2
<1>5. ASSUME k < Len(lines)
      PROVE  /\ k + 1 \in 0..Len(lines) /\ k + 1 \in DOMAIN lines
             /\ Append(f \o p, lines[k + 1]) = f \o SubSeq(lines, 1, k + 1)
  <2>1. k + 1 \in 0..Len(lines) /\ k + 1 \in DOMAIN lines
    BY <1>2, <1>5
  <2> DEFINE q == SubSeq(lines, 1, k + 1)
  <2> DEFINE e == lines[k + 1]
  <2>2. q \in Seq(R) /\ Len(q) = k + 1 /\ \A i \in 1..(k + 1) : q[i] = lines[i]
    BY <1>1, <1>2, <2>1
  <2>3. e \in R /\ q[k + 1] = e
    BY <1>1, <1>2, <2>1, <2>2
  <2> HIDE DEF q, e
  <2> DEFINE g == f \o p
  <2>4. /\ g \in Seq(R) /\ Len(g) = Len(f) + k
        /\ \A i \in 1..Len(f) : g[i] = f[i]
        /\ \A i \in 1..k : g[Len(f) + i] = p[i]
    BY <1>1, <1>2, <1>3
  <2> HIDE DEF g
  <2> DEFINE x == Append(g, e)
  <2>5. /\ x \in Seq(R) /\ Len(x) = Len(f) + k + 1
        /\ \A i \in 1..Len(g) : x[i] = g[i]
        /\ x[Len(g) + 1] = e
    BY <1>2, <2>3, <2>4
  <2> DEFINE y == f \o q
  <2>6. /\ y \in Seq(R) /\ Len(y) = Len(f) + k + 1
        /\ \A i \in 1..Len(f) : y[i] = f[i]
        /\ \A i \in 1..(k + 1) : y[Len(f) + i] = q[i]
    BY <1>1, <1>2, <2>2
  <2> HIDE DEF x, y
  <2>7. ASSUME NEW i \in 1..(Len(f) + k + 1)
        PROVE  x[i] = y[i]
    <3>1. CASE i \in 1..Len(f)
      BY <1>2, <2>4, <2>5, <2>6, <3>1
    <3>2. CASE i \in (Len(f) + 1)..(Len(f) + k)
      <4>0. i - Len(f) \in 1..k /\ i = Len(f) + (i - Len(f)) /\ i - Len(f) \in 1..(k + 1) /\ i \in 1..Len(g)
        BY <1>2, <2>4, <3>2
      <4>1. y[i] = lines[i - Len(f)]
        BY <2>2, <2>6, <4>0
      <4>2. g[i] = lines[i - Len(f)]
        BY <1>3, <2>4, <4>0
      <4> QED
        BY <2>5, <4>0, <4>1, <4>2
    <3>3. CASE i = Len(f) + k + 1
      <4>1. i = Len(g) + 1 /\ i = Len(f) + (k + 1) /\ k + 1 \in 1..(k + 1)
        BY <1>2, <2>4, <3>3
      <4> QED
        BY <2>3, <2>5, <2>6, <4>1
    <3>4. i \in 1..Len(f) \/ i \in (Len(f) + 1)..(Len(f) + k) \/ i = Len(f) + k + 1
      BY <1>2
    <3> QED
      BY <3>1, <3>2, <3>3, <3>4
  <2>8. x = y
    BY <2>5, <2>6, <2>7
  <2> QED
    BY <2>1, <2>8 DEF x, y, q, g, e
<1> QED
  BY <1>3, <1>4, <1>5, <1>6, <1>7, <1>8 DEF p

\* What is left of an append that was cut short.
LEMMA CutShortFiles ==
    ASSUME NEW f, IsSeq(f), NEW lines, IsSeq(lines), NEW b, NEW result \in CutShort(f, b, lines)
    PROVE  /\ result.torn \in BOOLEAN \/ result.torn = b
           /\ CutFile(f, lines, result.file)
<1>0. Len(lines) \in Nat
  BY DEF IsSeq
<1>1. CASE result = [file |-> f, torn |-> b]
  <2>1. f = f \o SubSeq(lines, 1, 0) /\ 0 \in 0..Len(lines)
    BY <1>0, Prefixes
  <2>2. result.file = f /\ result.torn = b
    BY <1>1
  <2>3. result.file = f \o SubSeq(lines, 1, 0)
    BY <2>1, <2>2
  <2> QED
    BY <2>1, <2>2, <2>3 DEF CutFile
<1>2. ASSUME NEW k \in 0..(Len(lines) - 1), result \in CutAfter(f, lines, k)
      PROVE  /\ result.torn \in BOOLEAN
             /\ CutFile(f, lines, result.file)
  <2> DEFINE g == f \o SubSeq(lines, 1, k)
  <2> DEFINE d == Append(g, Damaged(lines[k + 1]))
  <2> DEFINE w == Append(g, lines[k + 1])
  <2>1. k \in 0..Len(lines) /\ k < Len(lines) /\ k + 1 \in 0..Len(lines)
    BY <1>0
  <2>2. w = f \o SubSeq(lines, 1, k + 1)
    BY <2>1, Prefixes
  <2>3. CutAfter(f, lines, k) = {[file |-> g, torn |-> FALSE], [file |-> d, torn |-> TRUE], [file |-> w, torn |-> TRUE]}
    BY DEF CutAfter
  <2>4. g = f \o SubSeq(lines, 1, k)
    OBVIOUS
  <2>5. d = Append(f \o SubSeq(lines, 1, k), Damaged(lines[k + 1]))
    OBVIOUS
  <2> HIDE DEF g, d, w
  <2>6. result.torn \in BOOLEAN /\ result.file \in {g, d, w}
    <3>1. ASSUME NEW x, NEW y \in BOOLEAN, result = [file |-> x, torn |-> y]
          PROVE  result.file = x /\ result.torn \in BOOLEAN
      BY <3>1
    <3>2. CASE result = [file |-> g, torn |-> FALSE]
      BY <3>1, <3>2
    <3>3. CASE result = [file |-> d, torn |-> TRUE]
      BY <3>1, <3>3
    <3>4. CASE result = [file |-> w, torn |-> TRUE]
      BY <3>1, <3>4
    <3> QED
      BY <1>2, <2>3, <3>2, <3>3, <3>4, Zenon
  <2> QED
    BY <2>1, <2>2, <2>4, <2>5, <2>6 DEF CutFile
<1>3. \/ result = [file |-> f, torn |-> b]
      \/ \E k \in 0..(Len(lines) - 1) : result \in CutAfter(f, lines, k)
  <2> DEFINE same == [file |-> f, torn |-> b]
  <2> DEFINE cuts == {CutAfter(f, lines, k) : k \in 0..(Len(lines) - 1)}
  <2>1. CutShort(f, b, lines) = (UNION cuts) \union {same}
    BY DEF CutShort
  <2>3. result \in UNION cuts => \E k \in 0..(Len(lines) - 1) : result \in CutAfter(f, lines, k)
    OBVIOUS
  <2> HIDE DEF same, cuts
  <2>2. result \in UNION cuts \/ result = same
    BY <2>1
  <2> QED
    BY <2>2, <2>3 DEF same
<1>4. CASE \E k \in 0..(Len(lines) - 1) : result \in CutAfter(f, lines, k)
  <2>1. PICK k \in 0..(Len(lines) - 1) : result \in CutAfter(f, lines, k)
    BY <1>4
  <2> QED
    BY <1>2, <2>1, Zenon
<1> QED
  BY <1>1, <1>3, <1>4

\* A file that says the same can take the place of the other.
LEMMA SameIsTransitive ==
    ASSUME NEW f, NEW g, NEW h, NEW R, NEW u, SameJournal(g, h, R, u)
    PROVE  /\ SameJournal(f, g, R, u) => SameJournal(f, h, R, u)
           /\ \A ids, outcome, hash, backup :
                CommitLanded(f, g, ids, outcome, hash, backup, R, u) => CommitLanded(f, h, ids, outcome, hash, backup, R, u)
<1>1. SameJournal(f, g, R, u) => SameJournal(f, h, R, u)
  BY DEF SameJournal, SameLast, BringsIn
<1>2. ASSUME NEW ids, NEW outcome, NEW hash, NEW backup, CommitLanded(f, g, ids, outcome, hash, backup, R, u)
      PROVE  CommitLanded(f, h, ids, outcome, hash, backup, R, u)
  BY <1>2 DEF SameJournal, SameLast, CommitLanded, BringsIn
<1> QED
  BY <1>1, <1>2

\* Compaction after an append changes nothing that matters.
LEMMA WithinBudgetKeeps ==
    ASSUME NEW f, WellFormed(f), NEW R, Knows(f, R), NEW u
    PROVE  SameJournal(f, WithinBudget(f, u), R, u) /\ SamePending(f, WithinBudget(f, u), u)
<1>1. CASE Len(f) > MaxLines
  <2>1. WithinBudget(f, u) = Compacted(f, u)
    BY <1>1 DEF WithinBudget
  <2> QED
    BY <2>1, CompactedKeeps DEF SameJournal, SameLast
<1>2. CASE ~(Len(f) > MaxLines)
  <2>1. WithinBudget(f, u) = f
    BY <1>2 DEF WithinBudget
  <2> QED
    BY <2>1 DEF SameJournal, SameLast, SamePending, BringsIn
<1> QED
  BY <1>1, <1>2

\* The fragment of a commit stands for no mutation.
LEMMA CommitFragment ==
    ASSUME NEW f, WellFormed(f), NEW R, Knows(f, R), NEW line, line.type = "commit", NEW u
    PROVE  SameJournal(f, Append(f, Damaged(line)), R, u)
<1> DEFINE d == Damaged(line)
<1>1. d.type = "damaged" /\ d.of = 0 /\ d.covers = {}
  BY DEF Damaged
<1> HIDE DEF d
<1>2. LineOK(d)
  BY <1>1 DEF LineOK
<1> DEFINE h == Append(f, d)
<1> DEFINE id == RecoveredId(Len(f) + 1, 0)
<1>3. /\ WellFormed(h) /\ Entries(h) = Entries(f) \union {id} /\ CommittedIds(h) = CommittedIds(f)
      /\ LastBackup(h) = LastBackup(f)
  BY <1>1, <1>2, FragmentAppended, FragmentLastBackup
<1>4. CoversOf(id) = {} /\ id.k # "ovf"
  BY DEF CoversOf, RecoveredId
<1> HIDE DEF h, id
<1>5. \A m : m \in Owed(h) <=> m \in Owed(f)
  <2>1. ASSUME NEW m
        PROVE  m \in Owed(h) <=> m \in Owed(f)
    <3>1. m \in Owed(h) <=> \E i \in PendingSet(h) : m \in CoversOf(i)
      BY <1>3, OwedByIds
    <3>2. m \in Owed(f) <=> \E i \in PendingSet(f) : m \in CoversOf(i)
      BY OwedByIds
    <3> QED
      BY <1>3, <1>4, <3>1, <3>2, PendingIds
  <2> QED
    BY <2>1
<1>6. Knows(h, R)
  BY <1>3, <1>4 DEF Knows
<1>7. BringsIn(f, h, {}, u)
  BY <1>3, <1>4 DEF BringsIn
<1> QED
  BY <1>3, <1>5, <1>6, <1>7 DEF SameJournal, SameLast, h, d

\* What is left of an append that failed.
LEMMA AppendFailureFiles ==
    ASSUME NEW f, IsSeq(f), NEW lines, IsSeq(lines), NEW b, NEW u, NEW result \in AppendFailures(f, b, lines, u)
    PROVE  /\ result.torn \in BOOLEAN \/ result.torn = b
           /\ CutFile(f, lines, result.file) \/ result.file = WithinBudget(f \o lines, u)
<1>1. \/ result \in CutShort(f, b, lines)
      \/ \E h \in {f \o lines, WithinBudget(f \o lines, u)} : result = [file |-> h, torn |-> FALSE]
  BY Zenon DEF AppendFailures
<1>2. CASE result \in CutShort(f, b, lines)
  BY <1>2, CutShortFiles
<1>3. ASSUME NEW h \in {f \o lines, WithinBudget(f \o lines, u)}, result = [file |-> h, torn |-> FALSE]
      PROVE  /\ result.torn \in BOOLEAN
             /\ CutFile(f, lines, result.file) \/ result.file = WithinBudget(f \o lines, u)
  <2>1. result.file = h /\ result.torn \in BOOLEAN
    BY <1>3
  <2>2. Len(lines) \in Nat /\ Len(lines) \in 0..Len(lines)
    BY DEF IsSeq
  <2>3. f \o lines = f \o SubSeq(lines, 1, Len(lines))
    BY <2>2, Prefixes
  <2> QED
    BY <2>1, <2>2, <2>3 DEF CutFile
<1>4. CASE \E h \in {f \o lines, WithinBudget(f \o lines, u)} : result = [file |-> h, torn |-> FALSE]
  <2>1. PICK h \in {f \o lines, WithinBudget(f \o lines, u)} : result = [file |-> h, torn |-> FALSE]
    BY <1>4
  <2> QED
    BY <1>3, <2>1, Zenon
<1> QED
  BY <1>1, <1>2, <1>4

\* One more entry is one more mutation that is owed a backup, unless its id was
\* committed before.
LEMMA EntryAdded ==
    ASSUME NEW f, WellFormed(f), NEW R, Knows(f, R), NEW m, m \notin R, NEW h, WellFormed(h),
           NEW id, CoversOf(id) = {m}, id.k # "ovf", NEW u,
           Entries(h) = Entries(f) \union {id}, CommittedIds(h) = CommittedIds(f), LastBackup(h) = LastBackup(f)
    PROVE  ChangeLanded(f, h, m, R, u)
<1>1. id \notin CommittedIds(f)
  BY DEF Knows
<1>2. PendingSet(h) = PendingSet(f) \union {id}
  BY <1>1, PendingIds
<1>3. ASSUME NEW x
      PROVE  x \in Owed(h) <=> x \in Owed(f) \/ x = m
  <2>1. x \in Owed(h) <=> \E i \in PendingSet(h) : x \in CoversOf(i)
    BY OwedByIds
  <2>2. x \in Owed(f) <=> \E i \in PendingSet(f) : x \in CoversOf(i)
    BY OwedByIds
  <2> QED
    BY <1>2, <2>1, <2>2
<1>4. Knows(h, R \union {m})
  <2>1. \A i \in Entries(f) \union CommittedIds(f) : CoversOf(i) \subseteq R \union {m}
    BY DEF Knows
  <2> QED
    BY <2>1 DEF Knows
<1>5. BringsIn(f, h, {}, u)
  BY DEF BringsIn
<1>6. \A i \in PendingSet(h) : i \in PendingSet(f) \/ Overflow(i, u) \/ m \in CoversOf(i)
  BY <1>2
<1> QED
  BY <1>3, <1>4, <1>5, <1>6 DEF ChangeLanded, SameLast

\* A change record or its fragment adds its mutation.
LEMMA ChangeWritten ==
    ASSUME NEW f, WellFormed(f), NEW R, Knows(f, R), NEW m, m \notin R, m # 0,
           NEW line, line = ChangeLine(ChangeId(m), {m}, 1), NEW u
    PROVE  ChangeLanded(f, f \o <<line>>, m, R, u) /\ ChangeLanded(f, Append(f, Damaged(line)), m, R, u)
<1> DEFINE id == ChangeId(m)
<1>1. id.k = "chg" /\ id.n = m
  BY DEF ChangeId
<1>2. CoversOf(id) = {m}
  BY <1>1 DEF CoversOf
<1> HIDE DEF id
<1>3. line.type = "change" /\ line.id = id /\ line.covers = {m}
  BY DEF ChangeLine, id
<1>4. LineOK(line)
  BY <1>1, <1>2, <1>3 DEF LineOK
<1>5. ChangeLanded(f, f \o <<line>>, m, R, u)
  <2> DEFINE s == <<line>>
  <2> DEFINE h == f \o s
  <2>1. IsSeq(s) /\ DOMAIN s = {1} /\ s[1] = line
    BY DEF IsSeq, Range
  <2> HIDE DEF s
  <2>2. /\ WellFormed(s) /\ EntryLines(s) = {1} /\ EntryId(s, 1) = id /\ CommittedIds(s) = {} /\ Setters(s) = {}
        /\ \A n \in DOMAIN s : s[n].type # "damaged"
    BY <1>3, <1>4, <2>1 DEF WellFormed, EntryLines, EntryId, CommittedIds, Setters
  <2>3. Entries(s) = {id}
    BY <2>2 DEF Entries
  <2>4. WellFormed(h) /\ Entries(h) = Entries(f) \union {id} /\ CommittedIds(h) = CommittedIds(f)
    <3>1. /\ WellFormed(h) /\ Entries(h) = Entries(f) \union Entries(s)
          /\ CommittedIds(h) = CommittedIds(f) \union CommittedIds(s)
      BY <2>2, JoinedLines
    <3> HIDE DEF h
    <3> QED
      BY <2>2, <2>3, <3>1
  <2>5. LastBackup(h) = LastBackup(f)
    BY <2>2, JoinedLastBackup
  <2> HIDE DEF h
  <2>6. ChangeLanded(f, h, m, R, u)
    BY <1>1, <1>2, <2>4, <2>5, EntryAdded
  <2> QED
    BY <2>6 DEF h, s
<1>6. ChangeLanded(f, Append(f, Damaged(line)), m, R, u)
  <2> DEFINE d == Damaged(line)
  <2> DEFINE h == Append(f, d)
  <2> DEFINE rec == RecoveredId(Len(f) + 1, m)
  <2>1. d.type = "damaged" /\ d.of = m /\ d.covers = {m}
    BY <1>1, <1>3 DEF Damaged
  <2> HIDE DEF d
  <2>2. LineOK(d)
    BY <2>1 DEF LineOK
  <2>3. /\ WellFormed(h) /\ Entries(h) = Entries(f) \union {rec} /\ CommittedIds(h) = CommittedIds(f)
        /\ LastBackup(h) = LastBackup(f)
    BY <2>1, <2>2, FragmentAppended, FragmentLastBackup
  <2>4. CoversOf(rec) = {m} /\ rec.k # "ovf"
    BY DEF CoversOf, RecoveredId
  <2> HIDE DEF h, rec
  <2>5. ChangeLanded(f, h, m, R, u)
    BY <2>3, <2>4, EntryAdded
  <2> QED
    BY <2>5 DEF h, d
<1> QED
  BY <1>5, <1>6

\* record_change(): the mutation is owed a backup, also when the append failed
\* after it left a trace.
LEMMA ChangeAppends ==
    ASSUME NEW f, WellFormed(f), NEW R, Knows(f, R), NEW m, m \notin R, m # 0,
           NEW line, line = ChangeLine(ChangeId(m), {m}, 1), NEW u
    PROVE  /\ ChangeLanded(f, WithinBudget(f \o <<line>>, u), m, R, u)
           /\ \A b : \A result \in AppendFailures(f, b, <<line>>, u) :
                /\ result.torn \in BOOLEAN \/ result.torn = b
                /\ result.file = f \/ ChangeLanded(f, result.file, m, R, u)
<1> DEFINE s == <<line>>
<1> DEFINE g == f \o s
<1>0. ChangeLanded(f, g, m, R, u) /\ ChangeLanded(f, Append(f, Damaged(line)), m, R, u)
  BY ChangeWritten
<1>1. IsSeq(s) /\ Len(s) = 1 /\ s[1] = line
  BY DEF IsSeq, Range
<1> HIDE DEF s, g
<1>2. ChangeLanded(f, WithinBudget(g, u), m, R, u)
  <2>1. WellFormed(g) /\ Knows(g, R \union {m})
    BY <1>0 DEF ChangeLanded
  <2>2. SameJournal(g, WithinBudget(g, u), R \union {m}, u) /\ SamePending(g, WithinBudget(g, u), u)
    BY <2>1, WithinBudgetKeeps
  <2>3. \A id \in PendingSet(WithinBudget(g, u)) : id \in PendingSet(f) \/ Overflow(id, u) \/ m \in CoversOf(id)
    BY <1>0, <2>2 DEF ChangeLanded, SamePending
  <2>4. BringsIn(f, WithinBudget(g, u), {}, u)
    BY <1>0, <2>2 DEF ChangeLanded, SameJournal, BringsIn
  <2> QED
    BY <1>0, <2>2, <2>3, <2>4 DEF ChangeLanded, SameJournal, SameLast
<1>3. ASSUME NEW b, NEW result \in AppendFailures(f, b, s, u)
      PROVE  /\ result.torn \in BOOLEAN \/ result.torn = b
             /\ result.file = f \/ ChangeLanded(f, result.file, m, R, u)
  <2>0. IsSeq(f)
    BY DEF WellFormed
  <2>1. /\ result.torn \in BOOLEAN \/ result.torn = b
        /\ CutFile(f, s, result.file) \/ result.file = WithinBudget(f \o s, u)
    BY <1>1, <2>0, AppendFailureFiles
  <2>2. 0 \in 0..Len(s) /\ 1 \in 0..Len(s) /\ \A k \in 0..Len(s) : k \in {0, 1}
    BY <1>1
  <2>3. f \o SubSeq(s, 1, 0) = f
    BY <1>1, <2>0, <2>2, Prefixes
  <2>4. f \o SubSeq(s, 1, 1) = g
    <3>1. SubSeq(s, 1, 1) = s
      BY <1>1, <2>0, <2>2, Prefixes
    <3> QED
      BY <3>1 DEF g
  <2>5. CASE \E k \in 0..Len(s) : result.file = f \o SubSeq(s, 1, k)
    BY <1>0, <2>1, <2>2, <2>3, <2>4, <2>5
  <2>6. CASE \E k \in 0..(Len(s) - 1) : result.file = Append(f \o SubSeq(s, 1, k), Damaged(s[k + 1]))
    <3>1. result.file = Append(f \o SubSeq(s, 1, 0), Damaged(s[1]))
      BY <1>1, <2>6
    <3> QED
      BY <1>0, <1>1, <2>1, <2>3, <3>1
  <2>7. CASE result.file = WithinBudget(f \o s, u)
    BY <1>2, <2>1, <2>7 DEF g
  <2> QED
    BY <2>1, <2>5, <2>6, <2>7 DEF CutFile
<1> QED
  BY <1>2, <1>3 DEF s, g

\* Rounding up what is not zero gives at least one.
LEMMA RoundedUp ==
    ASSUME NEW n \in Nat \ {0}, NEW size \in Nat \ {0}
    PROVE  (n + size - 1) \div size \in Nat \ {0}
<1> DEFINE q == (n + size - 1) \div size
<1>1. q \in Int /\ n + size - 1 < size * q + size
  OBVIOUS
<1> HIDE DEF q
<1>2. ASSUME q <= 0
      PROVE  FALSE
  <2>1. size * q <= 0
    BY <1>1, <1>2
  <2> QED
    BY <1>1, <2>1
<1> QED
  BY <1>1, <1>2 DEF q

\* commit() writes at least one record, and none with an id it was not given.
LEMMA CommitRecords ==
    ASSUME NEW ids, IsSeq(ids), NEW outcome, NEW hash, NEW backup
    PROVE  /\ IsCommit(CommitLines(ids, outcome, hash, backup), ids, outcome, hash, backup)
           /\ Len(CommitLines(ids, outcome, hash, backup)) \in Nat \ {0}
<1> DEFINE n == Len(ids)
<1> DEFINE count == IF n = 0 THEN 1 ELSE (n + CommitIdsPerRecord - 1) \div CommitIdsPerRecord
<1> DEFINE Chunk(c) == {ids[i] : i \in {j \in 1..n : (j - 1) \div CommitIdsPerRecord = c - 1}}
<1> DEFINE s == CommitLines(ids, outcome, hash, backup)
<1>1. n \in Nat /\ DOMAIN ids = 1..n
  BY DEF IsSeq
<1>2. count \in Nat \ {0}
  BY <1>1, JournalAssumption, RoundedUp
<1>3. \A c : Chunk(c) \subseteq Range(ids)
  BY <1>1 DEF Range
<1>4. s = [c \in 1..count |-> CommitLine(Chunk(c), outcome, hash, backup)]
  BY DEF CommitLines
<1> HIDE DEF count, Chunk, s
<1>5. IsSeq(s) /\ Len(s) = count /\ DOMAIN s = 1..count
  BY <1>2, <1>4, FunctionSeq
<1>6. \A c \in 1..count : s[c] = CommitLine(Chunk(c), outcome, hash, backup)
  BY <1>4
<1>7. \A chunk : LET line == CommitLine(chunk, outcome, hash, backup)
                 IN  /\ line.type = "commit" /\ line.ids = chunk
                     /\ line.outcome = outcome /\ line.hash = hash /\ line.backup = backup
  BY DEF CommitLine
<1>8. IsCommit(s, ids, outcome, hash, backup)
  BY <1>3, <1>5, <1>6, <1>7 DEF IsCommit
<1> QED
  BY <1>2, <1>5, <1>8 DEF s

\* Whole records of a commit take entries off the list and name the backup.
LEMMA CommitWritten ==
    ASSUME NEW f, WellFormed(f), NEW R, Knows(f, R),
           NEW ids, \A id \in Range(ids) : CoversOf(id) \subseteq R,
           NEW u, NEW outcome, NEW hash, NEW backup, NEW p, IsCommit(p, ids, outcome, hash, backup), Len(p) \in Nat \ {0}
    PROVE  CommitLanded(f, f \o p, ids, outcome, hash, backup, R, u)
<1> DEFINE h == f \o p
<1> DEFINE n == Len(p)
<1>1. n \in DOMAIN p /\ DOMAIN p = 1..n
  BY DEF IsCommit, IsSeq
<1>2. /\ WellFormed(p) /\ Entries(p) = {} /\ \A k \in DOMAIN p : p[k].type # "damaged"
  BY DEF WellFormed, IsCommit, LineOK, Entries, EntryLines
<1>3. CommittedIds(p) \subseteq Range(ids)
  BY DEF IsCommit, CommittedIds
<1>4. /\ WellFormed(h) /\ Entries(h) = Entries(f) \union Entries(p)
      /\ CommittedIds(h) = CommittedIds(f) \union CommittedIds(p)
  BY <1>2, JoinedLines
<1>5. ASSUME outcome = "backup"
      PROVE  LastBackup(h).hash = hash /\ LastBackup(h).backup = backup
  <2>1. n \in Setters(p) /\ \A k \in Setters(p) : k <= n
    BY <1>1, <1>5 DEF IsCommit, Setters
  <2>2. p[n].hash = hash /\ p[n].backup = backup
    BY <1>1 DEF IsCommit
  <2> HIDE DEF n
  <2>3. LastBackup(h).hash = p[n].hash /\ LastBackup(h).backup = p[n].backup
    BY <1>2, <1>4, <2>1, JoinedLastBackup
  <2> QED
    BY <2>2, <2>3
<1>6. ASSUME outcome # "backup"
      PROVE  LastBackup(h) = LastBackup(f)
  <2>1. Setters(p) = {}
    BY <1>6 DEF IsCommit, Setters
  <2>2. LastBackup(h) = LastBackup(f)
    BY <1>2, <2>1, JoinedLastBackup
  <2> QED
    BY <2>2
<1> HIDE DEF h
<1>7. PendingSet(h) = PendingSet(f) \ CommittedIds(p)
  BY <1>2, <1>4, PendingIds
<1>8. ASSUME NEW m
      PROVE  /\ m \in Owed(h) => m \in Owed(f)
             /\ m \in Owed(f) \ Owed(h) => \E id \in Range(ids) : m \in CoversOf(id)
  <2>1. m \in Owed(h) <=> \E id \in PendingSet(h) : m \in CoversOf(id)
    BY <1>4, OwedByIds
  <2>2. m \in Owed(f) <=> \E id \in PendingSet(f) : m \in CoversOf(id)
    BY OwedByIds
  <2> QED
    BY <1>3, <1>7, <2>1, <2>2
<1>9. Knows(h, R)
  BY <1>2, <1>3, <1>4 DEF Knows
<1>10. IF outcome = "backup" THEN LastBackup(h).hash = hash /\ LastBackup(h).backup = backup ELSE SameLast(f, h)
  BY <1>5, <1>6 DEF SameLast
<1>12. BringsIn(f, h, Range(ids), u)
  BY <1>2, <1>3, <1>4 DEF BringsIn
<1>11. CommitLanded(f, h, ids, outcome, hash, backup, R, u)
  BY <1>4, <1>8, <1>9, <1>10, <1>12 DEF CommitLanded
<1> QED
  BY <1>11 DEF h

\* commit(): every record at once, or after a failure some of them, the last one
\* perhaps torn.
LEMMA CommitAppends ==
    ASSUME NEW f, WellFormed(f), NEW R, Knows(f, R),
           NEW ids, IsSeq(ids), \A id \in Range(ids) : CoversOf(id) \subseteq R,
           NEW u, NEW outcome, NEW hash, NEW backup, NEW lines, lines = CommitLines(ids, outcome, hash, backup)
    PROVE  /\ CommitLanded(f, WithinBudget(f \o lines, u), ids, outcome, hash, backup, R, u)
           /\ \A b : \A result \in AppendFailures(f, b, lines, u) :
                /\ result.torn \in BOOLEAN \/ result.torn = b
                /\ \/ SameJournal(f, result.file, R, u)
                   \/ CommitLanded(f, result.file, ids, outcome, hash, backup, R, u)
<1>1. IsCommit(lines, ids, outcome, hash, backup) /\ Len(lines) \in Nat \ {0} /\ IsSeq(lines) /\ IsSeq(f)
  BY CommitRecords DEF IsCommit, WellFormed
<1> DEFINE Landed(h) == CommitLanded(f, h, ids, outcome, hash, backup, R, u)
<1>2. ASSUME NEW k \in 0..Len(lines), k # 0
      PROVE  Landed(f \o SubSeq(lines, 1, k))
  <2> DEFINE p == SubSeq(lines, 1, k)
  <2>1. IsSeq(p) /\ DOMAIN p = 1..k /\ \A i \in 1..k : p[i] = lines[i] /\ i \in DOMAIN lines
    BY <1>1, Prefixes
  <2> HIDE DEF p
  <2>2. IsCommit(p, ids, outcome, hash, backup)
    BY <1>1, <2>1 DEF IsCommit
  <2>3. Len(p) \in Nat \ {0}
    BY <1>1, <1>2, <2>1 DEF IsSeq
  <2> QED
    BY <2>2, <2>3, CommitWritten DEF p
<1>3. f \o SubSeq(lines, 1, 0) = f /\ SubSeq(lines, 1, Len(lines)) = lines /\ 0 \in 0..Len(lines) /\ Len(lines) \in 0..Len(lines)
  BY <1>1, Prefixes
<1>4. SameJournal(f, f, R, u)
  BY DEF SameJournal, SameLast, BringsIn
<1>5. ASSUME NEW k \in 0..Len(lines)
      PROVE  LET g == f \o SubSeq(lines, 1, k)
             IN  WellFormed(g) /\ Knows(g, R) /\ (SameJournal(f, g, R, u) \/ Landed(g))
  <2>1. CASE k = 0
    BY <1>3, <1>4, <2>1
  <2>2. CASE k # 0
    BY <1>2, <2>2 DEF CommitLanded
  <2> QED
    BY <2>1, <2>2
<1>6. Landed(WithinBudget(f \o lines, u))
  <2> DEFINE g == f \o lines
  <2>1. Landed(g)
    BY <1>1, <1>2, <1>3
  <2> HIDE DEF g
  <2>2. WellFormed(g) /\ Knows(g, R)
    BY <2>1 DEF CommitLanded
  <2>3. SameJournal(g, WithinBudget(g, u), R, u)
    BY <2>2, WithinBudgetKeeps
  <2>4. Landed(WithinBudget(g, u))
    BY <2>1, <2>3, SameIsTransitive
  <2> QED
    BY <2>4 DEF g
<1>7. ASSUME NEW k \in 0..(Len(lines) - 1)
      PROVE  LET h == Append(f \o SubSeq(lines, 1, k), Damaged(lines[k + 1]))
             IN  SameJournal(f, h, R, u) \/ Landed(h)
  <2> DEFINE g == f \o SubSeq(lines, 1, k)
  <2> DEFINE h == Append(g, Damaged(lines[k + 1]))
  <2>1. k \in 0..Len(lines) /\ k < Len(lines)
    BY <1>1
  <2>2. WellFormed(g) /\ Knows(g, R) /\ (SameJournal(f, g, R, u) \/ Landed(g))
    BY <1>5, <2>1
  <2>3. k + 1 \in DOMAIN lines
    BY <1>1, <2>1, Prefixes
  <2>4. lines[k + 1].type = "commit"
    BY <1>1, <2>3 DEF IsCommit
  <2> HIDE DEF g
  <2>5. SameJournal(g, h, R, u)
    BY <2>2, <2>4, CommitFragment
  <2> HIDE DEF h
  <2>6. SameJournal(f, h, R, u) \/ Landed(h)
    BY <2>2, <2>5, SameIsTransitive
  <2> QED
    BY <2>6 DEF g, h
<1>8. ASSUME NEW b, NEW result \in AppendFailures(f, b, lines, u)
      PROVE  /\ result.torn \in BOOLEAN \/ result.torn = b
             /\ SameJournal(f, result.file, R, u) \/ Landed(result.file)
  <2> HIDE DEF Landed
  <2>1. /\ result.torn \in BOOLEAN \/ result.torn = b
        /\ CutFile(f, lines, result.file) \/ result.file = WithinBudget(f \o lines, u)
    BY <1>1, AppendFailureFiles
  <2>2. CASE CutFile(f, lines, result.file)
    BY <1>5, <1>7, <2>1, <2>2 DEF CutFile
  <2>3. CASE result.file = WithinBudget(f \o lines, u)
    BY <1>6, <2>1, <2>3
  <2> QED
    BY <2>1, <2>2, <2>3
<1> QED
  BY <1>6, <1>8

(***************************************************************************)
(* The coalescer's timers.                                                 *)
(***************************************************************************)

\* A power of two counts subsets.
LEMMA PowerOfTwo ==
    ASSUME NEW n \in Nat
    PROVE  2^n \in Nat
<1>1. IsFiniteSet(1..n) /\ Cardinality(1..n) = n
  BY FS_Interval
<1>2. Cardinality(SUBSET (1..n)) = 2^n /\ IsFiniteSet(SUBSET (1..n))
  BY <1>1, FS_SUBSET
<1> QED
  BY <1>2, FS_CardinalityType

\* The backoff is at most max_delay, however many failures came before.
LEMMA BackoffCapped ==
    ASSUME NEW n \in Nat \ {0}
    PROVE  Backoff(n) \in 0..MaxDelay
<1> DEFINE base == IF QuietPeriod > 1 THEN QuietPeriod ELSE 1
<1> DEFINE k == IF n - 1 < 16 THEN n - 1 ELSE 16
<1> DEFINE power == 2^k
<1>1. base \in Nat /\ MaxDelay \in Nat
  BY ConfigBackupAssumption
<1>2. k \in Nat
  OBVIOUS
<1> HIDE DEF k
<1>3. power \in Nat
  BY <1>2, PowerOfTwo
<1>4. Backoff(n) = IF base * power < MaxDelay THEN base * power ELSE MaxDelay
  BY DEF Backoff, k
<1> HIDE DEF base, power
<1>5. base * power \in Nat
  BY <1>1, <1>3
<1> QED
  BY <1>1, <1>4, <1>5

\* Seen entries and running timers go together.
LEMMA TimersKept ==
    ASSUME TimersOK, [Next]_vars
    PROVE  TimersOK'
<1> DEFINE Ages == NoTime..MaxDelay
<1>0. /\ 0 \in Ages /\ NoTime \in Ages /\ MaxDelay \in Nat /\ 0 \in 0..FailureCap /\ 0 # NoTime
      /\ FailureCap \in Nat
  BY ConfigBackupAssumption DEF NoTime, FailureCap
<1>1. ASSUME UNCHANGED <<seen, firstAge, lastAge, retryIn, failures>>
      PROVE  TimersOK'
  BY <1>1 DEF TimersOK, SeenHasTimers
<1>2. ASSUME seen' = {}, ResetTimers
      PROVE  TimersOK'
  BY <1>0, <1>2 DEF TimersOK, SeenHasTimers, ResetTimers
<1>3. ASSUME NEW S, seen' = S, IF seen' = {} THEN ResetTimers ELSE NoteNewIds(S \ seen)
      PROVE  TimersOK'
  <2>1. CASE S = {}
    BY <1>2, <1>3, <2>1
  <2>2. CASE S # {} /\ S \ seen = {}
    BY <1>3, <2>2 DEF TimersOK, SeenHasTimers, NoteNewIds
  <2>3. CASE S # {} /\ S \ seen # {}
    <3>1. lastAge' = 0 /\ firstAge' = (IF firstAge = NoTime THEN 0 ELSE firstAge) /\ UNCHANGED <<retryIn, failures>>
      BY <1>3, <2>3 DEF NoteNewIds
    <3>2. firstAge' \in Ages /\ firstAge' # NoTime
      BY <1>0, <3>1 DEF TimersOK
    <3> QED
      BY <1>0, <1>3, <2>3, <3>1, <3>2 DEF TimersOK, SeenHasTimers
  <2> QED
    BY <2>1, <2>2, <2>3
<1>4. ASSUME NEW w \in Writers, Save(w) \/ RecordChange(w) \/ RecordChangeFails(w)
      PROVE  TimersOK'
  BY <1>1, <1>4 DEF Save, RecordChange, RecordChangeFails, coalescer
<1>5. CASE TickStart \/ TickDue
  BY <1>1, <1>5 DEF TickStart, TickDue, coalescer
<1>6. ASSUME NEW t, ViewStart(t) \/ StartRun(t)
      PROVE  TimersOK'
  BY <1>1, <1>6 DEF ViewStart, StartRun, coalescer
<1>7. ASSUME NEW t \in Threads, Poll(t)
      PROVE  TimersOK'
  <2>1. CASE PollStat(t) \/ PollCompare(t) \/ PollRead(t)
    BY <1>1, <2>1 DEF PollStat, PollCompare, PollRead, coalescer
  <2>2. CASE PollApply(t)
    BY <1>3, <2>2 DEF PollApply
  <2> QED
    BY <1>7, <2>1, <2>2 DEF Poll
<1>8. ASSUME NEW t \in Threads, Run(t)
      PROVE  TimersOK'
  <2>1. CASE AcquireBusy(t) \/ Acquire(t) \/ ReadPending(t) \/ Snapshot(t) \/ MakeBackup(t) \/ RunFails(t)
             \/ Commit(t) \/ CommitFails(t) \/ Release(t) \/ ManualBackup(t) \/ ManualBackupFails(t)
    BY <1>1, <2>1 DEF AcquireBusy, Acquire, ReadPending, Snapshot, MakeBackup, RunFails, Commit, CommitFails,
                      Release, ManualBackup, ManualBackupFails, coalescer
  <2>2. CASE ClearSeen(t)
    BY <1>2, <2>2 DEF ClearSeen
  <2>3. CASE RecordSuccess(t)
    <3>1. firstAge' = lastAge' /\ firstAge' \in {NoTime, 0} /\ (seen' = {} <=> firstAge' = NoTime)
          /\ failures' = 0 /\ retryIn' = NoTime
      BY <1>0, <2>3 DEF RecordSuccess
    <3> QED
      BY <1>0, <3>1 DEF TimersOK, SeenHasTimers
  <2>4. CASE RecordFailure(t)
    <3>1. failures \in 0..FailureCap /\ failures + 1 \in Nat \ {0}
      BY <1>0 DEF TimersOK
    <3>2. failures' \in 0..FailureCap /\ UNCHANGED <<seen, firstAge, lastAge>> /\ retryIn' = Backoff(failures + 1)
      BY <1>0, <2>4, <3>1 DEF RecordFailure
    <3>3. retryIn' \in Ages
      BY <1>0, <3>1, <3>2, BackoffCapped DEF NoTime
    <3> QED
      BY <3>2, <3>3 DEF TimersOK, SeenHasTimers
  <2> QED
    BY <1>8, <2>1, <2>2, <2>3, <2>4 DEF Run
<1>9. CASE TimePasses
  <2>1. /\ firstAge' = Older(firstAge) /\ lastAge' = Older(lastAge) /\ UNCHANGED <<seen, failures>>
        /\ retryIn' = IF retryIn > 0 THEN retryIn - 1 ELSE retryIn
    BY <1>9 DEF TimePasses
  <2>2. \A age \in Ages : Older(age) \in Ages /\ (Older(age) = NoTime <=> age = NoTime)
    BY <1>0 DEF Older, NoTime
  <2>3. retryIn' \in Ages
    BY <1>0, <2>1 DEF TimersOK, NoTime
  <2> QED
    BY <2>1, <2>2, <2>3 DEF TimersOK, SeenHasTimers
<1>10. CASE Crash
  BY <1>2, <1>10 DEF Crash
<1>11. CASE Restart
  <2>1. seen' = PendingSet(file) /\ IF seen' = {} THEN ResetTimers ELSE NoteNewIds(seen')
    BY <1>11 DEF Restart
  <2>2. CASE seen' = {}
    BY <1>2, <2>1, <2>2
  <2>3. CASE seen' # {}
    <3>1. lastAge' = 0 /\ firstAge' = (IF firstAge = NoTime THEN 0 ELSE firstAge) /\ UNCHANGED <<retryIn, failures>>
      BY <2>1, <2>3 DEF NoteNewIds
    <3>2. firstAge' \in Ages /\ firstAge' # NoTime
      BY <1>0, <3>1 DEF TimersOK
    <3> QED
      BY <1>0, <2>3, <3>1, <3>2 DEF TimersOK, SeenHasTimers
  <2> QED
    BY <2>2, <2>3
<1>12. CASE UNCHANGED vars
  BY <1>1, <1>12 DEF vars, coalescer
<1> QED
  BY <1>4, <1>5, <1>6, <1>7, <1>8, <1>9, <1>10, <1>11, <1>12 DEF Next

(***************************************************************************)
(* Places and locals of the threads.                                       *)
(***************************************************************************)

\* The locals of the threads.
LocsOK ==
    DOMAIN loc = Threads /\ \A t \in Threads : DOMAIN loc[t] = Fields /\ loc[t].then \in {"rest", "due", "release"}

\* One thread moves and the others stay.
Moves(s) == /\ pc' \in [Threads -> Places] /\ LocsOK'
            /\ \A t \in Threads \ {s} : pc'[t] = pc[t] /\ loc'[t] = loc[t]

\* The places after a thread has moved.
LEMMA Moved ==
    ASSUME ThreadsOK, NEW s \in Threads, NEW place \in Places, pc' = [pc EXCEPT ![s] = place]
    PROVE  pc' \in [Threads -> Places] /\ pc'[s] = place /\ \A t \in Threads \ {s} : pc'[t] = pc[t]
BY DEF ThreadsOK

\* The locals after a thread has changed its own.
LEMMA Rewritten ==
    ASSUME ThreadsOK, NEW s \in Threads, NEW r, DOMAIN r = Fields, r.then \in {"rest", "due", "release"},
           loc' = [loc EXCEPT ![s] = r]
    PROVE  LocsOK' /\ loc'[s] = r /\ \A t \in Threads \ {s} : loc'[t] = loc[t]
<1>1. DOMAIN loc' = Threads /\ loc'[s] = r /\ \A t \in Threads \ {s} : loc'[t] = loc[t]
  BY DEF ThreadsOK
<1>2. \A t \in Threads : DOMAIN loc'[t] = Fields /\ loc'[t].then \in {"rest", "due", "release"}
  BY <1>1 DEF ThreadsOK
<1> QED
  BY <1>1, <1>2 DEF LocsOK

\* A step that leaves the locals alone.
LEMMA MovesOnly ==
    ASSUME ThreadsOK, NEW s \in Threads, NEW place \in Places, pc' = [pc EXCEPT ![s] = place], loc' = loc
    PROVE  Moves(s) /\ pc'[s] = place
<1>1. pc' \in [Threads -> Places] /\ pc'[s] = place /\ \A t \in Threads \ {s} : pc'[t] = pc[t]
  BY Moved
<1>2. LocsOK'
  BY DEF ThreadsOK, LocsOK
<1> QED
  BY <1>1, <1>2 DEF Moves

\* A step that changes place and locals.
LEMMA MovesTo ==
    ASSUME ThreadsOK, NEW s \in Threads, NEW place \in Places, pc' = [pc EXCEPT ![s] = place],
           NEW r, DOMAIN r = Fields, r.then \in {"rest", "due", "release"}, loc' = [loc EXCEPT ![s] = r]
    PROVE  Moves(s) /\ pc'[s] = place /\ loc'[s] = r
<1>1. pc' \in [Threads -> Places] /\ pc'[s] = place /\ \A t \in Threads \ {s} : pc'[t] = pc[t]
  BY Moved
<1>2. LocsOK' /\ loc'[s] = r /\ \A t \in Threads \ {s} : loc'[t] = loc[t]
  BY Rewritten
<1> QED
  BY <1>1, <1>2 DEF Moves

\* The thread's move: poll()'s stat.
LEMMA MovePollStat ==
    ASSUME ThreadsOK, NEW s \in Threads, PollStat(s)
    PROVE  /\ Moves(s) /\ pc[s] = "stat" /\ pc'[s] = "compare"
           /\ loc'[s].then = loc[s].then /\ loc'[s].backup = loc[s].backup /\ loc'[s].fp = stamp
<1> DEFINE to == "compare"
<1>0. s \in Threads
  BY DEF Threads
<1> DEFINE r == [loc[s] EXCEPT !.fp = stamp]
<1>1. pc[s] = "stat" /\ pc' = [pc EXCEPT ![s] = to] /\ loc' = [loc EXCEPT ![s] = r]
  BY DEF PollStat, Step, Goto
<1>2. DOMAIN r = Fields /\ r.then = loc[s].then /\ r.backup = loc[s].backup /\ r.fp = stamp
  BY <1>0 DEF ThreadsOK, Fields
<1>3. r.then \in {"rest", "due", "release"} /\ to \in Places
  BY <1>0 DEF ThreadsOK, Fields, Places
<1> HIDE DEF r, to
<1>4. Moves(s) /\ pc'[s] = to /\ loc'[s] = r
  BY <1>0, <1>1, <1>2, <1>3, MovesTo
<1> QED
  BY <1>1, <1>2, <1>4 DEF to

\* The thread's move: poll()'s comparison.
LEMMA MovePollCompare ==
    ASSUME ThreadsOK, NEW s \in Threads, PollCompare(s)
    PROVE  /\ Moves(s) /\ pc[s] = "compare" /\ (pc'[s] = loc[s].then \/ pc'[s] = "read")
           /\ pc'[s] = "read" \/ (loc[s].fp # NoFile /\ loc[s].fp = fp)
           /\ loc' = loc
<1> DEFINE to == IF loc[s].fp # NoFile /\ loc[s].fp = fp THEN loc[s].then ELSE "read"
<1>0. s \in Threads
  BY DEF Threads
<1>1. pc[s] = "compare" /\ pc' = [pc EXCEPT ![s] = to] /\ loc' = loc
  BY DEF PollCompare, Step, Goto
<1>2. to \in Places
  BY <1>0 DEF ThreadsOK, Places
<1> HIDE DEF to
<1>3. Moves(s) /\ pc'[s] = to
  BY <1>0, <1>1, <1>2, MovesOnly
<1> QED
  BY <1>1, <1>3 DEF to

\* The thread's move: poll()'s read.
LEMMA MovePollRead ==
    ASSUME ThreadsOK, NEW s \in Threads, PollRead(s)
    PROVE  /\ Moves(s) /\ pc[s] = "read" /\ pc'[s] = "apply"
           /\ loc'[s].then = loc[s].then /\ loc'[s].backup = loc[s].backup /\ loc'[s].fp = loc[s].fp /\ loc'[s].pending = PendingSet(file)
<1> DEFINE to == "apply"
<1>0. s \in Threads
  BY DEF Threads
<1> DEFINE r == [loc[s] EXCEPT !.pending = PendingSet(file)]
<1>1. pc[s] = "read" /\ pc' = [pc EXCEPT ![s] = to] /\ loc' = [loc EXCEPT ![s] = r]
  BY DEF PollRead, Step, Goto
<1>2. DOMAIN r = Fields /\ r.then = loc[s].then /\ r.backup = loc[s].backup /\ r.fp = loc[s].fp /\ r.pending = PendingSet(file)
  BY <1>0 DEF ThreadsOK, Fields
<1>3. r.then \in {"rest", "due", "release"} /\ to \in Places
  BY <1>0 DEF ThreadsOK, Fields, Places
<1> HIDE DEF r, to
<1>4. Moves(s) /\ pc'[s] = to /\ loc'[s] = r
  BY <1>0, <1>1, <1>2, <1>3, MovesTo
<1> QED
  BY <1>1, <1>2, <1>4 DEF to

\* The thread's move: poll()'s last section.
LEMMA MovePollApply ==
    ASSUME ThreadsOK, NEW s \in Threads, PollApply(s)
    PROVE  /\ Moves(s) /\ pc[s] = "apply" /\ pc'[s] = loc[s].then
           /\ loc'[s].then = loc[s].then /\ loc'[s].backup = loc[s].backup /\ loc'[s].fp = NoFile
<1> DEFINE to == loc[s].then
<1>0. s \in Threads
  BY DEF Threads
<1> DEFINE r == [loc[s] EXCEPT !.fp = NoFile, !.pending = {}]
<1>1. pc[s] = "apply" /\ pc' = [pc EXCEPT ![s] = to] /\ loc' = [loc EXCEPT ![s] = r]
  BY DEF PollApply, Step, Goto
<1>2. DOMAIN r = Fields /\ r.then = loc[s].then /\ r.backup = loc[s].backup /\ r.fp = NoFile
  BY <1>0 DEF ThreadsOK, Fields
<1>3. r.then \in {"rest", "due", "release"} /\ to \in Places
  BY <1>0 DEF ThreadsOK, Fields, Places
<1> HIDE DEF r, to
<1>4. Moves(s) /\ pc'[s] = to /\ loc'[s] = r
  BY <1>0, <1>1, <1>2, <1>3, MovesTo
<1> QED
  BY <1>1, <1>2, <1>4 DEF to

\* The thread's move: the start of tick().
LEMMA MoveTickStart ==
    ASSUME ThreadsOK, NEW s, s = Ticker, TickStart
    PROVE  /\ Moves(s) /\ pc[s] = "rest" /\ pc'[s] = "stat"
           /\ loc'[s].then = "due" /\ loc'[s].backup = NoBackup /\ loc'[s].fp = NoFile
<1> DEFINE to == "stat"
<1>0. s \in Threads
  BY DEF Threads
<1> DEFINE r == [NoLocals EXCEPT !.then = "due"]
<1>1. pc[s] = "rest" /\ pc' = [pc EXCEPT ![s] = to] /\ loc' = [loc EXCEPT ![s] = r]
  BY DEF TickStart, Step, Goto
<1>2. DOMAIN r = Fields /\ r.then = "due" /\ r.backup = NoBackup /\ r.fp = NoFile
  BY <1>0 DEF ThreadsOK, Fields, NoLocals
<1>3. r.then \in {"rest", "due", "release"} /\ to \in Places
  BY <1>0 DEF ThreadsOK, Fields, NoLocals, Places
<1> HIDE DEF r, to
<1>4. Moves(s) /\ pc'[s] = to /\ loc'[s] = r
  BY <1>0, <1>1, <1>2, <1>3, MovesTo
<1> QED
  BY <1>1, <1>2, <1>4 DEF to

\* The thread's move: tick()'s check of the timers.
LEMMA MoveTickDue ==
    ASSUME ThreadsOK, NEW s, s = Ticker, TickDue
    PROVE  /\ Moves(s) /\ pc[s] = "due" /\ pc'[s] \in {"acquire", "rest"} /\ (pc'[s] = "acquire" => Due)
           /\ loc' = loc
<1> DEFINE to == IF Due THEN "acquire" ELSE "rest"
<1>0. s \in Threads
  BY DEF Threads
<1>1. pc[s] = "due" /\ pc' = [pc EXCEPT ![s] = to] /\ loc' = loc
  BY DEF TickDue, Step, Goto
<1>2. to \in Places
  BY <1>0 DEF ThreadsOK, Places
<1> HIDE DEF to
<1>3. Moves(s) /\ pc'[s] = to
  BY <1>0, <1>1, <1>2, MovesOnly
<1> QED
  BY <1>1, <1>3 DEF to

\* The thread's move: library().
LEMMA MoveViewStart ==
    ASSUME ThreadsOK, NEW s \in Viewers, ViewStart(s)
    PROVE  /\ Moves(s) /\ pc[s] = "rest" /\ pc'[s] = "stat"
           /\ loc'[s].then = "rest" /\ loc'[s].backup = NoBackup /\ loc'[s].fp = NoFile
<1> DEFINE to == "stat"
<1>0. s \in Threads
  BY DEF Threads
<1> DEFINE r == NoLocals
<1>1. pc[s] = "rest" /\ pc' = [pc EXCEPT ![s] = to] /\ loc' = [loc EXCEPT ![s] = r]
  BY DEF ViewStart, Step, Goto
<1>2. DOMAIN r = Fields /\ r.then = "rest" /\ r.backup = NoBackup /\ r.fp = NoFile
  BY <1>0 DEF ThreadsOK, Fields, NoLocals
<1>3. r.then \in {"rest", "due", "release"} /\ to \in Places
  BY <1>0 DEF ThreadsOK, Fields, NoLocals, Places
<1> HIDE DEF r, to
<1>4. Moves(s) /\ pc'[s] = to /\ loc'[s] = r
  BY <1>0, <1>1, <1>2, <1>3, MovesTo
<1> QED
  BY <1>1, <1>2, <1>4 DEF to

\* The thread's move: start_run("config").
LEMMA MoveStartRun ==
    ASSUME ThreadsOK, NEW s \in Workers, StartRun(s)
    PROVE  /\ Moves(s) /\ pc[s] = "rest" /\ pc'[s] = "acquire"
           /\ loc' = loc
<1> DEFINE to == "acquire"
<1>0. s \in Threads
  BY DEF Threads
<1>1. pc[s] = "rest" /\ pc' = [pc EXCEPT ![s] = to] /\ loc' = loc
  BY DEF StartRun, Step, Goto
<1>2. to \in Places
  BY <1>0 DEF ThreadsOK, Places
<1> HIDE DEF to
<1>3. Moves(s) /\ pc'[s] = to
  BY <1>0, <1>1, <1>2, MovesOnly
<1> QED
  BY <1>1, <1>3 DEF to

\* The thread's move: run() when the lock is taken.
LEMMA MoveAcquireBusy ==
    ASSUME ThreadsOK, NEW s \in Threads, AcquireBusy(s)
    PROVE  /\ Moves(s) /\ pc[s] = "acquire" /\ pc'[s] = "rest"
           /\ loc'[s].backup = NoBackup /\ loc'[s].fp = NoFile
<1> DEFINE to == "rest"
<1>0. s \in Threads
  BY DEF Threads
<1> DEFINE r == NoLocals
<1>1. pc[s] = "acquire" /\ pc' = [pc EXCEPT ![s] = to] /\ loc' = [loc EXCEPT ![s] = r]
  BY DEF AcquireBusy, Step, Goto, Leave
<1>2. DOMAIN r = Fields /\ r.backup = NoBackup /\ r.fp = NoFile
  BY <1>0 DEF ThreadsOK, Fields, NoLocals
<1>3. r.then \in {"rest", "due", "release"} /\ to \in Places
  BY <1>0 DEF ThreadsOK, Fields, NoLocals, Places
<1> HIDE DEF r, to
<1>4. Moves(s) /\ pc'[s] = to /\ loc'[s] = r
  BY <1>0, <1>1, <1>2, <1>3, MovesTo
<1> QED
  BY <1>1, <1>2, <1>4 DEF to

\* The thread's move: run() when the lock is free.
LEMMA MoveAcquire ==
    ASSUME ThreadsOK, NEW s \in Threads, Acquire(s)
    PROVE  /\ Moves(s) /\ pc[s] = "acquire" /\ pc'[s] = "pending"
           /\ loc' = loc
<1> DEFINE to == "pending"
<1>0. s \in Threads
  BY DEF Threads
<1>1. pc[s] = "acquire" /\ pc' = [pc EXCEPT ![s] = to] /\ loc' = loc
  BY DEF Acquire, Step, Goto
<1>2. to \in Places
  BY <1>0 DEF ThreadsOK, Places
<1> HIDE DEF to
<1>3. Moves(s) /\ pc'[s] = to
  BY <1>0, <1>1, <1>2, MovesOnly
<1> QED
  BY <1>1, <1>3 DEF to

\* The thread's move: reading the pending entries.
LEMMA MoveReadPending ==
    ASSUME ThreadsOK, NEW s \in Threads, ReadPending(s)
    PROVE  /\ Moves(s) /\ pc[s] = "pending" /\ pc'[s] \in {"clear", "snapshot"} /\ (PendingSet(file) # {} => pc'[s] = "snapshot")
           /\ loc'[s].then = loc[s].then /\ loc'[s].backup = loc[s].backup /\ loc'[s].ids = Pending(file) /\ loc'[s].fp = loc[s].fp
<1> DEFINE to == IF PendingSet(file) = {} THEN "clear" ELSE "snapshot"
<1>0. s \in Threads
  BY DEF Threads
<1> DEFINE r == [loc[s] EXCEPT !.ids = Pending(file)]
<1>1. pc[s] = "pending" /\ pc' = [pc EXCEPT ![s] = to] /\ loc' = [loc EXCEPT ![s] = r]
  BY DEF ReadPending, Step, Goto
<1>2. DOMAIN r = Fields /\ r.then = loc[s].then /\ r.backup = loc[s].backup /\ r.ids = Pending(file) /\ r.fp = loc[s].fp
  BY <1>0 DEF ThreadsOK, Fields
<1>3. r.then \in {"rest", "due", "release"} /\ to \in Places
  BY <1>0 DEF ThreadsOK, Fields, Places
<1> HIDE DEF r, to
<1>4. Moves(s) /\ pc'[s] = to /\ loc'[s] = r
  BY <1>0, <1>1, <1>2, <1>3, MovesTo
<1> QED
  BY <1>1, <1>2, <1>4 DEF to

\* The thread's move: forgetting what was seen.
LEMMA MoveClearSeen ==
    ASSUME ThreadsOK, NEW s \in Threads, ClearSeen(s)
    PROVE  /\ Moves(s) /\ pc[s] = "clear" /\ pc'[s] = "release"
           /\ loc' = loc
<1> DEFINE to == "release"
<1>0. s \in Threads
  BY DEF Threads
<1>1. pc[s] = "clear" /\ pc' = [pc EXCEPT ![s] = to] /\ loc' = loc
  BY DEF ClearSeen, Step, Goto
<1>2. to \in Places
  BY <1>0 DEF ThreadsOK, Places
<1> HIDE DEF to
<1>3. Moves(s) /\ pc'[s] = to
  BY <1>0, <1>1, <1>2, MovesOnly
<1> QED
  BY <1>1, <1>3 DEF to

\* The thread's move: the snapshot.
LEMMA MoveSnapshot ==
    ASSUME ThreadsOK, NEW s \in Threads, Snapshot(s)
    PROVE  /\ Moves(s) /\ pc[s] = "snapshot" /\ pc'[s] = (IF Config = LastBackup(file).hash THEN "commit" ELSE "backup")
           /\ loc'[s].then = loc[s].then /\ loc'[s].backup = loc[s].backup /\ loc'[s].ids = loc[s].ids /\ loc'[s].snap = Len(log) /\ loc'[s].fp = loc[s].fp
<1> DEFINE to == IF Config = LastBackup(file).hash THEN "commit" ELSE "backup"
<1>0. s \in Threads
  BY DEF Threads
<1> DEFINE r == [loc[s] EXCEPT !.snap = Len(log)]
<1>1. pc[s] = "snapshot" /\ pc' = [pc EXCEPT ![s] = to] /\ loc' = [loc EXCEPT ![s] = r]
  BY DEF Snapshot, Step, Goto
<1>2. DOMAIN r = Fields /\ r.then = loc[s].then /\ r.backup = loc[s].backup /\ r.ids = loc[s].ids /\ r.snap = Len(log) /\ r.fp = loc[s].fp
  BY <1>0 DEF ThreadsOK, Fields
<1>3. r.then \in {"rest", "due", "release"} /\ to \in Places
  BY <1>0 DEF ThreadsOK, Fields, Places
<1> HIDE DEF r, to
<1>4. Moves(s) /\ pc'[s] = to /\ loc'[s] = r
  BY <1>0, <1>1, <1>2, <1>3, MovesTo
<1> QED
  BY <1>1, <1>2, <1>4 DEF to

\* The thread's move: the backup.
LEMMA MoveMakeBackup ==
    ASSUME ThreadsOK, NEW s \in Threads, MakeBackup(s)
    PROVE  /\ Moves(s) /\ pc[s] = "backup" /\ pc'[s] = "commit"
           /\ loc'[s].then = loc[s].then /\ loc'[s].snap = loc[s].snap /\ loc'[s].ids = loc[s].ids /\ loc'[s].backup = Len(archive) + 1 /\ loc'[s].fp = loc[s].fp
<1> DEFINE to == "commit"
<1>0. s \in Threads
  BY DEF Threads
<1> DEFINE r == [loc[s] EXCEPT !.backup = Len(archive) + 1]
<1>1. pc[s] = "backup" /\ pc' = [pc EXCEPT ![s] = to] /\ loc' = [loc EXCEPT ![s] = r]
  BY DEF MakeBackup, Step, Goto
<1>2. DOMAIN r = Fields /\ r.then = loc[s].then /\ r.snap = loc[s].snap /\ r.ids = loc[s].ids /\ r.backup = Len(archive) + 1 /\ r.fp = loc[s].fp
  BY <1>0 DEF ThreadsOK, Fields
<1>3. r.then \in {"rest", "due", "release"} /\ to \in Places
  BY <1>0 DEF ThreadsOK, Fields, Places
<1> HIDE DEF r, to
<1>4. Moves(s) /\ pc'[s] = to /\ loc'[s] = r
  BY <1>0, <1>1, <1>2, <1>3, MovesTo
<1> QED
  BY <1>1, <1>2, <1>4 DEF to

\* The thread's move: the commit.
LEMMA MoveCommit ==
    ASSUME ThreadsOK, NEW s \in Threads, Commit(s)
    PROVE  /\ Moves(s) /\ pc[s] = "commit" /\ pc'[s] = "success"
           /\ loc' = loc
<1> DEFINE to == "success"
<1>0. s \in Threads
  BY DEF Threads
<1>1. pc[s] = "commit" /\ pc' = [pc EXCEPT ![s] = to] /\ loc' = loc
  BY DEF Commit, Step, Goto
<1>2. to \in Places
  BY <1>0 DEF ThreadsOK, Places
<1> HIDE DEF to
<1>3. Moves(s) /\ pc'[s] = to
  BY <1>0, <1>1, <1>2, MovesOnly
<1> QED
  BY <1>1, <1>3 DEF to

\* The thread's move: a failed commit.
LEMMA MoveCommitFails ==
    ASSUME ThreadsOK, NEW s \in Threads, CommitFails(s)
    PROVE  /\ Moves(s) /\ pc[s] = "commit" /\ pc'[s] = "failure"
           /\ loc' = loc
<1> DEFINE to == "failure"
<1>0. s \in Threads
  BY DEF Threads
<1>1. pc[s] = "commit" /\ pc' = [pc EXCEPT ![s] = to] /\ loc' = loc
  BY DEF CommitFails, Step, Goto
<1>2. to \in Places
  BY <1>0 DEF ThreadsOK, Places
<1> HIDE DEF to
<1>3. Moves(s) /\ pc'[s] = to
  BY <1>0, <1>1, <1>2, MovesOnly
<1> QED
  BY <1>1, <1>3 DEF to

\* The thread's move: _record_success.
LEMMA MoveRecordSuccess ==
    ASSUME ThreadsOK, NEW s \in Threads, RecordSuccess(s)
    PROVE  /\ Moves(s) /\ pc[s] = "success" /\ pc'[s] = "stat"
           /\ loc'[s].then = "release" /\ loc'[s].fp = loc[s].fp
<1> DEFINE to == "stat"
<1>0. s \in Threads
  BY DEF Threads
<1> DEFINE r == [loc[s] EXCEPT !.then = "release", !.ids = <<>>, !.snap = 0]
<1>1. pc[s] = "success" /\ pc' = [pc EXCEPT ![s] = to] /\ loc' = [loc EXCEPT ![s] = r]
  BY DEF RecordSuccess, Step, Goto
<1>2. DOMAIN r = Fields /\ r.then = "release" /\ r.fp = loc[s].fp
  BY <1>0 DEF ThreadsOK, Fields
<1>3. r.then \in {"rest", "due", "release"} /\ to \in Places
  BY <1>0 DEF ThreadsOK, Fields, Places
<1> HIDE DEF r, to
<1>4. Moves(s) /\ pc'[s] = to /\ loc'[s] = r
  BY <1>0, <1>1, <1>2, <1>3, MovesTo
<1> QED
  BY <1>1, <1>2, <1>4 DEF to

\* The thread's move: _record_failure.
LEMMA MoveRecordFailure ==
    ASSUME ThreadsOK, NEW s \in Threads, RecordFailure(s)
    PROVE  /\ Moves(s) /\ pc[s] = "failure" /\ pc'[s] = "release"
           /\ loc'[s].then = "rest" /\ loc'[s].fp = NoFile
<1> DEFINE to == "release"
<1>0. s \in Threads
  BY DEF Threads
<1> DEFINE r == [NoLocals EXCEPT !.failed = TRUE]
<1>1. pc[s] = "failure" /\ pc' = [pc EXCEPT ![s] = to] /\ loc' = [loc EXCEPT ![s] = r]
  BY DEF RecordFailure, Step, Goto
<1>2. DOMAIN r = Fields /\ r.then = "rest" /\ r.fp = NoFile
  BY <1>0 DEF ThreadsOK, Fields, NoLocals
<1>3. r.then \in {"rest", "due", "release"} /\ to \in Places
  BY <1>0 DEF ThreadsOK, Fields, NoLocals, Places
<1> HIDE DEF r, to
<1>4. Moves(s) /\ pc'[s] = to /\ loc'[s] = r
  BY <1>0, <1>1, <1>2, <1>3, MovesTo
<1> QED
  BY <1>1, <1>2, <1>4 DEF to

\* The thread's move: the backup outside the journal.
LEMMA MoveManualBackup ==
    ASSUME ThreadsOK, NEW s \in Threads, ManualBackup(s) \/ ManualBackupFails(s)
    PROVE  /\ Moves(s) /\ pc[s] = "manual" /\ pc'[s] = "rest"
           /\ loc'[s].backup = NoBackup /\ loc'[s].fp = NoFile
<1> DEFINE to == "rest"
<1>0. s \in Threads
  BY DEF Threads
<1> DEFINE r == NoLocals
<1>1. pc[s] = "manual" /\ pc' = [pc EXCEPT ![s] = to] /\ loc' = [loc EXCEPT ![s] = r]
  BY DEF ManualBackup, ManualBackupFails, Step, Goto, Leave
<1>2. DOMAIN r = Fields /\ r.backup = NoBackup /\ r.fp = NoFile
  BY <1>0 DEF ThreadsOK, Fields, NoLocals
<1>3. r.then \in {"rest", "due", "release"} /\ to \in Places
  BY <1>0 DEF ThreadsOK, Fields, NoLocals, Places
<1> HIDE DEF r, to
<1>4. Moves(s) /\ pc'[s] = to /\ loc'[s] = r
  BY <1>0, <1>1, <1>2, <1>3, MovesTo
<1> QED
  BY <1>1, <1>2, <1>4 DEF to

\* The thread's move: a failed snapshot or backup.
LEMMA MoveRunFails ==
    ASSUME ThreadsOK, NEW s \in Threads, RunFails(s)
    PROVE  /\ Moves(s) /\ pc[s] \in {"snapshot", "backup"} /\ pc'[s] = "failure"
           /\ loc' = loc
<1>1. pc[s] \in {"snapshot", "backup"} /\ pc' = [pc EXCEPT ![s] = "failure"] /\ loc' = loc
  BY DEF RunFails, Step, Goto
<1>2. "failure" \in Places
  BY DEF Places
<1> QED
  BY <1>1, <1>2, MovesOnly

\* The thread's move: the end of run().
LEMMA MoveRelease ==
    ASSUME ThreadsOK, NEW s \in Threads, Release(s)
    PROVE  /\ Moves(s) /\ pc[s] = "release"
           /\ \/ pc'[s] = "manual" /\ loc' = loc
              \/ pc'[s] = "rest" /\ loc'[s].backup = NoBackup /\ loc'[s].fp = NoFile
<1>1. CASE OwesManualBackup(s)
  <2>1. pc[s] = "release" /\ pc' = [pc EXCEPT ![s] = "manual"] /\ loc' = loc
    BY <1>1 DEF Release, Goto
  <2>2. "manual" \in Places
    BY DEF Places
  <2> QED
    BY <2>1, <2>2, MovesOnly
<1>2. CASE ~OwesManualBackup(s)
  <2> DEFINE r == NoLocals
  <2>1. pc[s] = "release" /\ pc' = [pc EXCEPT ![s] = "rest"] /\ loc' = [loc EXCEPT ![s] = r]
    BY <1>2 DEF Release, Goto, Leave
  <2>2. DOMAIN r = Fields /\ r.then \in {"rest", "due", "release"} /\ r.backup = NoBackup /\ r.fp = NoFile /\ "rest" \in Places
    BY DEF NoLocals, Fields, Places
  <2> HIDE DEF r
  <2>3. Moves(s) /\ pc'[s] = "rest" /\ loc'[s] = r
    BY <2>1, <2>2, MovesTo
  <2> QED
    BY <2>1, <2>2, <2>3
<1> QED
  BY <1>1, <1>2

\* A line of its own is a sequence of lines.
LEMMA SingleLine == ASSUME NEW line PROVE IsSeq(<<line>>)
BY DEF IsSeq, Range

\* Locks, flags and counters keep their types.
LEMMA ScalarsKept ==
    ASSUME ThreadsOK, WellFormed(file), RunsOK, [Next]_vars
    PROVE  /\ torn' \in BOOLEAN /\ up' \in BOOLEAN /\ faults' \in 0..MaxFaults /\ requests' \in 0..MaxRequests
           /\ runLock' \in Threads \union {None} /\ jobLock' \in Workers \union {None}
<1>0. MaxFaults \in Nat /\ MaxRequests \in Nat /\ 0 \in 0..MaxFaults
  BY ConfigBackupAssumption
<1>1. faults' = faults \/ (faults < MaxFaults /\ faults' = faults + 1)
  BY DEF Next, vars, coalescer, Fault, Save, RecordChange, RecordChangeFails, TickStart, TickDue,
     ViewStart, StartRun,
         Poll, PollStat, PollCompare, PollRead, PollApply, Run, AcquireBusy, Acquire, ReadPending, ClearSeen,
         Snapshot, MakeBackup, RunFails, Commit, CommitFails, RecordSuccess, RecordFailure, Release,
         ManualBackup, ManualBackupFails, TimePasses, Crash, Restart
<1>2. faults' \in 0..MaxFaults
  BY <1>0, <1>1 DEF ThreadsOK
<1>3. requests' = requests \/ (requests < MaxRequests /\ requests' = requests + 1)
  BY DEF Next, vars, coalescer, Fault, Save, RecordChange, RecordChangeFails, TickStart, TickDue,
     ViewStart, StartRun,
         Poll, PollStat, PollCompare, PollRead, PollApply, Run, AcquireBusy, Acquire, ReadPending, ClearSeen,
         Snapshot, MakeBackup, RunFails, Commit, CommitFails, RecordSuccess, RecordFailure, Release,
         ManualBackup, ManualBackupFails, TimePasses, Crash, Restart
<1>4. requests' \in 0..MaxRequests
  BY <1>0, <1>3 DEF ThreadsOK
<1>5. up' \in BOOLEAN
  BY DEF Next, vars, coalescer, Fault, Save, RecordChange, RecordChangeFails, TickStart, TickDue,
     ViewStart, StartRun,
         Poll, PollStat, PollCompare, PollRead, PollApply, Run, AcquireBusy, Acquire, ReadPending, ClearSeen,
         Snapshot, MakeBackup, RunFails, Commit, CommitFails, RecordSuccess, RecordFailure, Release,
         ManualBackup, ManualBackupFails, TimePasses, Crash, Restart, ThreadsOK
<1>6. runLock' \in Threads \union {None}
  BY DEF Next, vars, coalescer, Save, RecordChange, RecordChangeFails, TickStart, TickDue,
     ViewStart, StartRun,
         Poll, PollStat, PollCompare, PollRead, PollApply, Run, AcquireBusy, Acquire, ReadPending, ClearSeen,
         Snapshot, MakeBackup, RunFails, Commit, CommitFails, RecordSuccess, RecordFailure, Release,
         ManualBackup, ManualBackupFails, TimePasses, Crash, Restart, ThreadsOK
<1>7. jobLock' \in Workers \union {None}
  BY DEF Next, vars, coalescer, Save, RecordChange, RecordChangeFails, TickStart, TickDue,
     ViewStart, StartRun,
         Poll, PollStat, PollCompare, PollRead, PollApply, Run, AcquireBusy, Acquire, ReadPending, ClearSeen,
         Snapshot, MakeBackup, RunFails, Commit, CommitFails, RecordSuccess, RecordFailure, Release, Leave,
         ManualBackup, ManualBackupFails, TimePasses, Crash, Restart, ThreadsOK
<1>8. torn' \in BOOLEAN
  <2>0. torn \in BOOLEAN /\ IsSeq(file)
    BY DEF ThreadsOK, WellFormed
  <2>1. ASSUME NEW lines, IsSeq(lines), NEW result \in AppendFailures(file, torn, lines, stamp),
               torn' = result.torn \/ torn' = torn
        PROVE  torn' \in BOOLEAN
    <3>1. result.torn \in BOOLEAN \/ result.torn = torn
      BY <2>0, <2>1, AppendFailureFiles
    <3> QED
      BY <2>0, <2>1, <3>1
  <2>2. \A f, lines, u : AppendOk(f, lines, u).torn = FALSE
    BY DEF AppendOk
  <2>3. ASSUME NEW w \in Writers, RecordChange(w)
        PROVE  torn' \in BOOLEAN
    BY <2>2, <2>3 DEF RecordChange, Appended
  <2>4. ASSUME NEW w \in Writers, RecordChangeFails(w)
        PROVE  torn' \in BOOLEAN
    <3> DEFINE lines == <<ChangeLine(ChangeId(wr[w]), {wr[w]}, 1)>>
    <3>1. IsSeq(lines)
      BY SingleLine
    <3>2. PICK result \in AppendFailures(file, torn, lines, stamp) : torn' = result.torn \/ torn' = torn
      BY <2>4 DEF RecordChangeFails, Broken, Appended
    <3> HIDE DEF lines
    <3> QED
      BY <2>1, <3>1, <3>2
  <2>5. ASSUME NEW t \in Threads, Commit(t)
        PROVE  torn' \in BOOLEAN
    BY <2>2, <2>5 DEF Commit, Appended
  <2>6. ASSUME NEW t \in Threads, CommitFails(t)
        PROVE  torn' \in BOOLEAN
    <3> DEFINE lines == RunCommitLines(t)
    <3>0. IsSeq(loc[t].ids)
      BY <2>6 DEF CommitFails, Step, RunsOK, RunOK
    <3>1. IsSeq(lines)
      BY <3>0, CommitRecords DEF RunCommitLines, IsCommit
    <3>2. PICK result \in AppendFailures(file, torn, lines, stamp) : torn' = result.torn \/ torn' = torn
      BY <2>6 DEF CommitFails, Broken, Appended
    <3> HIDE DEF lines
    <3> QED
      BY <2>1, <3>1, <3>2
  <2>7. CASE UNCHANGED torn
    BY <2>0, <2>7
  <2>8. \/ UNCHANGED torn
        \/ \E w \in Writers : RecordChange(w) \/ RecordChangeFails(w)
        \/ \E t \in Threads : Commit(t) \/ CommitFails(t)
    BY DEF Next, vars, coalescer, Save, TickStart, TickDue, ViewStart, StartRun,
         Poll, PollStat, PollCompare, PollRead, PollApply, Run, AcquireBusy, Acquire, ReadPending, ClearSeen,
         Snapshot, MakeBackup, RunFails, RecordSuccess, RecordFailure, Release,
         ManualBackup, ManualBackupFails, TimePasses, Crash, Restart
  <2> QED
    BY <2>3, <2>4, <2>5, <2>6, <2>7, <2>8
<1> QED
  BY <1>2, <1>4, <1>5, <1>6, <1>7, <1>8

\* A step that takes no lock and frees none.
LEMMA LocksFrame ==
    ASSUME LocksOK, NEW s \in Threads, Moves(s), runLock' = runLock, HoldsLock(s)' => HoldsLock(s)
    PROVE  LocksOK'
<1>1. ASSUME NEW t \in Threads, HoldsLock(t)', t # s
      PROVE  HoldsLock(t)
  BY <1>1 DEF Moves, HoldsLock
<1> QED
  BY <1>1 DEF LocksOK

\* At most one thread is between its acquisition of the run lock and its release.
LEMMA ThreadsKept ==
    ASSUME ThreadsOK, LocksOK, WellFormed(file), RunsOK, [Next]_vars
    PROVE  ThreadsOK' /\ LocksOK'
<1>0. /\ torn' \in BOOLEAN /\ up' \in BOOLEAN /\ faults' \in 0..MaxFaults /\ requests' \in 0..MaxRequests
      /\ runLock' \in Threads \union {None} /\ jobLock' \in Workers \union {None}
  BY ScalarsKept
<1>1. ASSUME NEW s \in Threads, Moves(s)
      PROVE  ThreadsOK'
  BY <1>0, <1>1 DEF Moves, LocsOK, ThreadsOK
<1>2. ASSUME NEW s \in Threads, Moves(s), runLock' = runLock, HoldsLock(s)' => HoldsLock(s)
      PROVE  ThreadsOK' /\ LocksOK'
  BY <1>1, <1>2, LocksFrame
<1>3. ASSUME UNCHANGED <<pc, loc, runLock>>
      PROVE  ThreadsOK' /\ LocksOK'
  <2>1. ThreadsOK'
    BY <1>0, <1>3 DEF ThreadsOK
  <2>2. \A t \in Threads : HoldsLock(t)' <=> HoldsLock(t)
    BY <1>3 DEF HoldsLock
  <2> QED
    BY <1>3, <2>1, <2>2 DEF LocksOK
<1>4. ASSUME NEW w \in Writers, Save(w) \/ RecordChange(w) \/ RecordChangeFails(w)
      PROVE  ThreadsOK' /\ LocksOK'
  BY <1>3, <1>4 DEF Save, RecordChange, RecordChangeFails
<1>5. CASE TimePasses \/ Restart \/ UNCHANGED vars
  BY <1>3, <1>5 DEF TimePasses, Restart, vars
<1>6. CASE Crash
  <2>1. pc' = [t \in Threads |-> "rest"] /\ loc' = [t \in Threads |-> NoLocals]
    BY <1>6 DEF Crash
  <2>2. "rest" \in Places /\ DOMAIN NoLocals = Fields /\ NoLocals.then = "rest"
    BY DEF Places, NoLocals, Fields
  <2>3. ThreadsOK'
    BY <1>0, <2>1, <2>2 DEF ThreadsOK
  <2>4. \A t \in Threads : ~HoldsLock(t)'
    BY <2>1 DEF HoldsLock, Running, Polling
  <2> QED
    BY <2>3, <2>4 DEF LocksOK
<1>7. \A t \in Threads : loc[t].then \in {"rest", "due", "release"}
  BY DEF ThreadsOK
<1>8. ASSUME NEW s \in Threads, PollStat(s)
      PROVE  ThreadsOK' /\ LocksOK'
  <2>1. s \in Threads /\ runLock' = runLock
    BY <1>8 DEF Threads, PollStat
  <2>2. Moves(s) /\ (HoldsLock(s)' => HoldsLock(s))
    BY <1>7, <1>8, <2>1, MovePollStat DEF HoldsLock, Running, Polling
  <2> QED
    BY <1>2, <2>1, <2>2
<1>9. ASSUME NEW s \in Threads, PollCompare(s)
      PROVE  ThreadsOK' /\ LocksOK'
  <2>1. s \in Threads /\ runLock' = runLock
    BY <1>9 DEF Threads, PollCompare
  <2>2. Moves(s) /\ (HoldsLock(s)' => HoldsLock(s))
    BY <1>7, <1>9, <2>1, MovePollCompare DEF HoldsLock, Running, Polling
  <2> QED
    BY <1>2, <2>1, <2>2
<1>10. ASSUME NEW s \in Threads, PollRead(s)
      PROVE  ThreadsOK' /\ LocksOK'
  <2>1. s \in Threads /\ runLock' = runLock
    BY <1>10 DEF Threads, PollRead
  <2>2. Moves(s) /\ (HoldsLock(s)' => HoldsLock(s))
    BY <1>7, <1>10, <2>1, MovePollRead DEF HoldsLock, Running, Polling
  <2> QED
    BY <1>2, <2>1, <2>2
<1>11. ASSUME NEW s \in Threads, PollApply(s)
      PROVE  ThreadsOK' /\ LocksOK'
  <2>1. s \in Threads /\ runLock' = runLock
    BY <1>11 DEF Threads, PollApply
  <2>2. Moves(s) /\ (HoldsLock(s)' => HoldsLock(s))
    BY <1>7, <1>11, <2>1, MovePollApply DEF HoldsLock, Running, Polling
  <2> QED
    BY <1>2, <2>1, <2>2
<1>12. ASSUME NEW s, s = Ticker, TickStart
      PROVE  ThreadsOK' /\ LocksOK'
  <2>1. s \in Threads /\ runLock' = runLock
    BY <1>12 DEF Threads, TickStart
  <2>2. Moves(s) /\ (HoldsLock(s)' => HoldsLock(s))
    BY <1>7, <1>12, <2>1, MoveTickStart DEF HoldsLock, Running, Polling
  <2> QED
    BY <1>2, <2>1, <2>2
<1>13. ASSUME NEW s, s = Ticker, TickDue
      PROVE  ThreadsOK' /\ LocksOK'
  <2>1. s \in Threads /\ runLock' = runLock
    BY <1>13 DEF Threads, TickDue
  <2>2. Moves(s) /\ (HoldsLock(s)' => HoldsLock(s))
    BY <1>7, <1>13, <2>1, MoveTickDue DEF HoldsLock, Running, Polling
  <2> QED
    BY <1>2, <2>1, <2>2
<1>14. ASSUME NEW s \in Viewers, ViewStart(s)
      PROVE  ThreadsOK' /\ LocksOK'
  <2>1. s \in Threads /\ runLock' = runLock
    BY <1>14 DEF Threads, ViewStart
  <2>2. Moves(s) /\ (HoldsLock(s)' => HoldsLock(s))
    BY <1>7, <1>14, <2>1, MoveViewStart DEF HoldsLock, Running, Polling
  <2> QED
    BY <1>2, <2>1, <2>2
<1>15. ASSUME NEW s \in Workers, StartRun(s)
      PROVE  ThreadsOK' /\ LocksOK'
  <2>1. s \in Threads /\ runLock' = runLock
    BY <1>15 DEF Threads, StartRun
  <2>2. Moves(s) /\ (HoldsLock(s)' => HoldsLock(s))
    BY <1>7, <1>15, <2>1, MoveStartRun DEF HoldsLock, Running, Polling
  <2> QED
    BY <1>2, <2>1, <2>2
<1>16. ASSUME NEW s \in Threads, AcquireBusy(s)
      PROVE  ThreadsOK' /\ LocksOK'
  <2>1. s \in Threads /\ runLock' = runLock
    BY <1>16 DEF Threads, AcquireBusy
  <2>2. Moves(s) /\ (HoldsLock(s)' => HoldsLock(s))
    BY <1>7, <1>16, <2>1, MoveAcquireBusy DEF HoldsLock, Running, Polling
  <2> QED
    BY <1>2, <2>1, <2>2
<1>17. ASSUME NEW s \in Threads, ReadPending(s)
      PROVE  ThreadsOK' /\ LocksOK'
  <2>1. s \in Threads /\ runLock' = runLock
    BY <1>17 DEF Threads, ReadPending
  <2>2. Moves(s) /\ (HoldsLock(s)' => HoldsLock(s))
    BY <1>7, <1>17, <2>1, MoveReadPending DEF HoldsLock, Running, Polling
  <2> QED
    BY <1>2, <2>1, <2>2
<1>18. ASSUME NEW s \in Threads, ClearSeen(s)
      PROVE  ThreadsOK' /\ LocksOK'
  <2>1. s \in Threads /\ runLock' = runLock
    BY <1>18 DEF Threads, ClearSeen
  <2>2. Moves(s) /\ (HoldsLock(s)' => HoldsLock(s))
    BY <1>7, <1>18, <2>1, MoveClearSeen DEF HoldsLock, Running, Polling
  <2> QED
    BY <1>2, <2>1, <2>2
<1>19. ASSUME NEW s \in Threads, Snapshot(s)
      PROVE  ThreadsOK' /\ LocksOK'
  <2>1. s \in Threads /\ runLock' = runLock
    BY <1>19 DEF Threads, Snapshot
  <2>2. Moves(s) /\ (HoldsLock(s)' => HoldsLock(s))
    BY <1>7, <1>19, <2>1, MoveSnapshot DEF HoldsLock, Running, Polling
  <2> QED
    BY <1>2, <2>1, <2>2
<1>20. ASSUME NEW s \in Threads, MakeBackup(s)
      PROVE  ThreadsOK' /\ LocksOK'
  <2>1. s \in Threads /\ runLock' = runLock
    BY <1>20 DEF Threads, MakeBackup
  <2>2. Moves(s) /\ (HoldsLock(s)' => HoldsLock(s))
    BY <1>7, <1>20, <2>1, MoveMakeBackup DEF HoldsLock, Running, Polling
  <2> QED
    BY <1>2, <2>1, <2>2
<1>21. ASSUME NEW s \in Threads, RunFails(s)
      PROVE  ThreadsOK' /\ LocksOK'
  <2>1. s \in Threads /\ runLock' = runLock
    BY <1>21 DEF Threads, RunFails
  <2>2. Moves(s) /\ (HoldsLock(s)' => HoldsLock(s))
    BY <1>7, <1>21, <2>1, MoveRunFails DEF HoldsLock, Running, Polling
  <2> QED
    BY <1>2, <2>1, <2>2
<1>22. ASSUME NEW s \in Threads, Commit(s)
      PROVE  ThreadsOK' /\ LocksOK'
  <2>1. s \in Threads /\ runLock' = runLock
    BY <1>22 DEF Threads, Commit
  <2>2. Moves(s) /\ (HoldsLock(s)' => HoldsLock(s))
    BY <1>7, <1>22, <2>1, MoveCommit DEF HoldsLock, Running, Polling
  <2> QED
    BY <1>2, <2>1, <2>2
<1>23. ASSUME NEW s \in Threads, CommitFails(s)
      PROVE  ThreadsOK' /\ LocksOK'
  <2>1. s \in Threads /\ runLock' = runLock
    BY <1>23 DEF Threads, CommitFails
  <2>2. Moves(s) /\ (HoldsLock(s)' => HoldsLock(s))
    BY <1>7, <1>23, <2>1, MoveCommitFails DEF HoldsLock, Running, Polling
  <2> QED
    BY <1>2, <2>1, <2>2
<1>24. ASSUME NEW s \in Threads, RecordSuccess(s)
      PROVE  ThreadsOK' /\ LocksOK'
  <2>1. s \in Threads /\ runLock' = runLock
    BY <1>24 DEF Threads, RecordSuccess
  <2>2. Moves(s) /\ (HoldsLock(s)' => HoldsLock(s))
    BY <1>7, <1>24, <2>1, MoveRecordSuccess DEF HoldsLock, Running, Polling
  <2> QED
    BY <1>2, <2>1, <2>2
<1>25. ASSUME NEW s \in Threads, RecordFailure(s)
      PROVE  ThreadsOK' /\ LocksOK'
  <2>1. s \in Threads /\ runLock' = runLock
    BY <1>25 DEF Threads, RecordFailure
  <2>2. Moves(s) /\ (HoldsLock(s)' => HoldsLock(s))
    BY <1>7, <1>25, <2>1, MoveRecordFailure DEF HoldsLock, Running, Polling
  <2> QED
    BY <1>2, <2>1, <2>2
<1>26. ASSUME NEW s \in Threads, ManualBackup(s) \/ ManualBackupFails(s)
      PROVE  ThreadsOK' /\ LocksOK'
  <2>1. s \in Threads /\ runLock' = runLock
    BY <1>26 DEF Threads, ManualBackup, ManualBackupFails
  <2>2. Moves(s) /\ (HoldsLock(s)' => HoldsLock(s))
    BY <1>7, <1>26, <2>1, MoveManualBackup DEF HoldsLock, Running, Polling
  <2> QED
    BY <1>2, <2>1, <2>2
<1>27. ASSUME NEW s \in Threads, Acquire(s)
      PROVE  ThreadsOK' /\ LocksOK'
  <2>1. Moves(s) /\ runLock = None /\ runLock' = s
    BY <1>27, MoveAcquire DEF Acquire
  <2>2. \A t \in Threads : ~HoldsLock(t)
    BY <2>1, ConfigBackupAssumption DEF LocksOK
  <2>3. \A t \in Threads \ {s} : ~HoldsLock(t)'
    BY <2>1, <2>2 DEF Moves, HoldsLock
  <2> QED
    BY <1>1, <2>1, <2>3 DEF LocksOK
<1>28. ASSUME NEW s \in Threads, Release(s)
      PROVE  ThreadsOK' /\ LocksOK'
  <2>1. Moves(s) /\ pc[s] = "release" /\ pc'[s] \in {"manual", "rest"}
    BY <1>28, MoveRelease
  <2>2. runLock = s /\ ~HoldsLock(s)'
    BY <2>1 DEF HoldsLock, Running, Polling, LocksOK
  <2>3. \A t \in Threads \ {s} : ~HoldsLock(t)
    BY <2>2 DEF LocksOK
  <2>4. \A t \in Threads \ {s} : ~HoldsLock(t)'
    BY <2>1, <2>3 DEF Moves, HoldsLock
  <2> QED
    BY <1>1, <2>1, <2>2, <2>4 DEF LocksOK
<1> QED
  BY <1>4, <1>5, <1>6, <1>8, <1>9, <1>10, <1>11, <1>12, <1>13, <1>14, <1>15, <1>16, <1>17, <1>18,
     <1>19, <1>20, <1>21, <1>22, <1>23, <1>24, <1>25, <1>26, <1>27, <1>28 DEF Next, Poll, Run

(***************************************************************************)
(* Config, journal and archive.                                            *)
(***************************************************************************)

\* What the coalescer's own steps leave alone.
data == <<log, wr, file, stamp, reached, archive>>

\* Only these steps touch the config, the journal or the archive.
LEMMA DataSteps ==
    ASSUME [Next]_vars
    PROVE  \/ UNCHANGED data
           \/ \E w \in Writers : Save(w) \/ RecordChange(w) \/ RecordChangeFails(w)
           \/ \E t \in Threads : Commit(t) \/ CommitFails(t) \/ MakeBackup(t) \/ ManualBackup(t)
<1>1. ASSUME NEW t \in Threads, Poll(t)
      PROVE  UNCHANGED data
  BY <1>1 DEF data, Poll, PollStat, PollCompare, PollRead, PollApply
<1>2. ASSUME NEW t \in Threads, Run(t)
      PROVE  UNCHANGED data \/ Commit(t) \/ CommitFails(t) \/ MakeBackup(t) \/ ManualBackup(t)
  BY <1>2 DEF data, Run, AcquireBusy, Acquire, ReadPending, ClearSeen, Snapshot, RunFails, RecordSuccess,
              RecordFailure, Release, ManualBackupFails
<1>3. ASSUME TickStart \/ TickDue \/ (\E t \in Viewers : ViewStart(t)) \/ (\E t \in Workers : StartRun(t))
      PROVE  UNCHANGED data
  BY <1>3 DEF data, TickStart, TickDue, ViewStart, StartRun
<1>4. ASSUME TimePasses \/ Crash \/ Restart \/ UNCHANGED vars
      PROVE  UNCHANGED data
  BY <1>4 DEF data, vars, TimePasses, Crash, Restart
<1> QED
  BY <1>1, <1>2, <1>3, <1>4, Zenon DEF Next

\* What is owed has reached the journal.
LEMMA OwedIsKnown ==
    ASSUME NEW f, WellFormed(f), NEW R, Knows(f, R)
    PROVE  Owed(f) \subseteq R
<1>1. ASSUME NEW m \in Owed(f)
      PROVE  m \in R
  <2>1. PICK id \in PendingSet(f) : m \in CoversOf(id)
    BY OwedByIds
  <2>2. id \in Entries(f)
    BY PendingIds
  <2> QED
    BY <2>1, <2>2 DEF Knows
<1> QED
  BY <1>1

\* What a writer does to the journal.
LEMMA WriterAppends ==
    ASSUME LogOK, JournalOK, NEW w \in Writers, RecordChange(w) \/ RecordChangeFails(w)
    PROVE  /\ wr[w] \in 2..Len(log) /\ wr[w] \notin reached /\ wr' = [wr EXCEPT ![w] = 0]
           /\ UNCHANGED <<log, archive, pc, loc>>
           /\ \/ file' = file /\ reached' = reached
              \/ ChangeLanded(file, file', wr[w], reached, stamp) /\ reached' = reached \union {wr[w]}
<1> DEFINE m == wr[w]
<1> DEFINE line == ChangeLine(ChangeId(m), {m}, 1)
<1>1. m \in 2..Len(log) /\ m \notin reached /\ wr' = [wr EXCEPT ![w] = 0] /\ UNCHANGED <<log, archive, pc, loc>>
  BY DEF LogOK, RecordChange, RecordChangeFails
<1>2. WellFormed(file) /\ Knows(file, reached) /\ m # 0
  BY <1>1 DEF JournalOK, LogOK
<1>3. /\ ChangeLanded(file, WithinBudget(file \o <<line>>, stamp), m, reached, stamp)
      /\ \A b : \A result \in AppendFailures(file, b, <<line>>, stamp) :
            result.file = file \/ ChangeLanded(file, result.file, m, reached, stamp)
  BY <1>1, <1>2, ChangeAppends
<1>4. CASE RecordChange(w)
  <2>1. file' = WithinBudget(file \o <<line>>, stamp) /\ reached' = reached \union {m}
    BY <1>4 DEF RecordChange, Appended, AppendOk
  <2> HIDE DEF line
  <2> QED
    BY <1>1, <1>3, <2>1
<1>5. CASE RecordChangeFails(w)
  <2>1. PICK result \in AppendFailures(file, torn, <<line>>, stamp) :
            (file' = result.file \/ file' = file) /\ reached' = reached \union (Owed(file') \ Owed(file))
    BY <1>5 DEF RecordChangeFails, Broken, Appended
  <2> HIDE DEF line
  <2>2. file' = file \/ ChangeLanded(file, file', m, reached, stamp)
    BY <1>3, <2>1
  <2>3. CASE file' = file
    BY <1>1, <2>1, <2>3
  <2>4. CASE ChangeLanded(file, file', m, reached, stamp)
    <3>1. Owed(file) \subseteq reached
      BY <1>2, OwedIsKnown
    <3>2. Owed(file') = Owed(file) \union {m}
      BY <2>4 DEF ChangeLanded
    <3>3. reached' = reached \union {m}
      BY <1>1, <2>1, <3>1, <3>2
    <3> QED
      BY <1>1, <2>4, <3>3
  <2> QED
    BY <2>2, <2>3, <2>4
<1> QED
  BY <1>4, <1>5

\* What a run does to the journal.
LEMMA RunAppends ==
    ASSUME LogOK, JournalOK, NEW t \in Threads, RunOK(t), Commit(t) \/ CommitFails(t)
    PROVE  /\ UNCHANGED <<log, wr, reached, archive>> /\ pc[t] = "commit"
           /\ LET outcome == IF loc[t].backup = NoBackup THEN "noop" ELSE "backup"
                  landed == CommitLanded(file, file', loc[t].ids, outcome, log[loc[t].snap], loc[t].backup, reached, stamp)
              IN  landed \/ (CommitFails(t) /\ SameJournal(file, file', reached, stamp))
<1> DEFINE ids == loc[t].ids
<1> DEFINE outcome == IF loc[t].backup = NoBackup THEN "noop" ELSE "backup"
<1> DEFINE hash == log[loc[t].snap]
<1> DEFINE backup == loc[t].backup
<1> DEFINE lines == RunCommitLines(t)
<1>1. UNCHANGED <<log, wr, reached, archive>> /\ pc[t] = "commit"
  BY DEF Commit, CommitFails, Step
<1>2. IsSeq(ids) /\ \A i \in DOMAIN ids : CoversOf(ids[i]) \subseteq reached
  BY <1>1 DEF RunOK
<1>3. \A id \in Range(ids) : CoversOf(id) \subseteq reached
  BY <1>2 DEF Range
<1>4. WellFormed(file) /\ Knows(file, reached)
  BY DEF JournalOK
<1>5. lines = CommitLines(ids, outcome, hash, backup)
  BY DEF RunCommitLines
<1> HIDE DEF ids, outcome, hash, backup, lines
<1>6. /\ CommitLanded(file, WithinBudget(file \o lines, stamp), ids, outcome, hash, backup, reached, stamp)
      /\ \A b : \A result \in AppendFailures(file, b, lines, stamp) :
            SameJournal(file, result.file, reached, stamp) \/ CommitLanded(file, result.file, ids, outcome, hash, backup, reached, stamp)
  BY <1>2, <1>3, <1>4, <1>5, CommitAppends
<1>7. CASE Commit(t)
  <2>1. file' = WithinBudget(file \o lines, stamp)
    BY <1>7 DEF Commit, Appended, AppendOk, lines
  <2> QED
    BY <1>1, <1>6, <2>1 DEF ids, outcome, hash, backup
<1>8. CASE CommitFails(t)
  <2>1. PICK result \in AppendFailures(file, torn, lines, stamp) : file' = result.file \/ file' = file
    BY <1>8 DEF CommitFails, Broken, Appended, lines
  <2>2. SameJournal(file, file, reached, stamp)
    BY <1>4 DEF SameJournal, SameLast, BringsIn
  <2>3. SameJournal(file, file', reached, stamp) \/ CommitLanded(file, file', ids, outcome, hash, backup, reached, stamp)
    BY <1>6, <2>1, <2>2
  <2> QED
    BY <1>1, <1>8, <2>3 DEF ids, outcome, hash, backup
<1> QED
  BY <1>7, <1>8

\* The copies of what the config has been.
Copies == [by : {"run", "manual"}, snap : 1..Len(log)]

\* What a save does.
LEMMA SaveGrows ==
    ASSUME LogOK, NEW w \in Writers, Save(w)
    PROVE  /\ log' \in Seq(Contents) /\ Len(log') = Len(log) + 1 /\ Len(log) \in Nat \ {0} /\ Len(log) <= MaxMutations
           /\ \A i \in 1..Len(log) : log'[i] = log[i]
           /\ wr' = [wr EXCEPT ![w] = Len(log) + 1] /\ UNCHANGED <<file, reached, archive, pc, loc, faults>>
<1>1. PICK c \in Contents : log' = Append(log, c)
  BY DEF Save
<1>2. log \in Seq(Contents) /\ Len(log) \in Nat \ {0}
  BY DEF LogOK
<1>3. log' \in Seq(Contents) /\ Len(log') = Len(log) + 1 /\ \A i \in 1..Len(log) : log'[i] = log[i]
  BY <1>1, <1>2
<1> QED
  BY <1>2, <1>3 DEF Save

\* What a backup does to the archive.
LEMMA ArchiveGrows ==
    ASSUME LogOK, RunsOK, NEW t \in Threads, MakeBackup(t) \/ ManualBackup(t)
    PROVE  /\ archive' \in Seq(Copies) /\ archive \in Seq(Copies) /\ Len(archive) \in Nat
           /\ Len(archive') = Len(archive) + 1 /\ DOMAIN archive = 1..Len(archive) /\ DOMAIN archive' = 1..(Len(archive) + 1)
           /\ \A b \in DOMAIN archive : archive'[b] = archive[b]
           /\ MakeBackup(t) => archive'[Len(archive) + 1].by = "run" /\ archive'[Len(archive) + 1].snap = loc[t].snap
           /\ ManualBackup(t) => archive'[Len(archive) + 1].by = "manual"
           /\ UNCHANGED <<log, wr, file, reached, faults>>
<1>1. archive \in Seq(Copies) /\ Len(archive) \in Nat /\ DOMAIN archive = 1..Len(archive)
  BY DEF LogOK, Copies
<1>2. UNCHANGED <<log, wr, file, reached, faults>>
  BY DEF MakeBackup, ManualBackup
<1>3. ASSUME NEW copy \in Copies, archive' = Append(archive, copy)
      PROVE  /\ archive' \in Seq(Copies) /\ Len(archive') = Len(archive) + 1
             /\ DOMAIN archive' = 1..(Len(archive) + 1)
             /\ \A b \in DOMAIN archive : archive'[b] = archive[b]
             /\ archive'[Len(archive) + 1] = copy
  BY <1>1, <1>3
<1>4. CASE MakeBackup(t)
  <2> DEFINE copy == [by |-> "run", snap |-> loc[t].snap]
  <2>1. archive' = Append(archive, copy) /\ pc[t] = "backup"
    BY <1>4 DEF MakeBackup, Step
  <2>2. loc[t].snap \in 1..Len(log)
    BY <2>1 DEF RunsOK, RunOK
  <2>3. copy \in Copies /\ copy.by = "run" /\ copy.snap = loc[t].snap
    BY <2>2 DEF Copies
  <2>4. ~ManualBackup(t)
    BY <2>1 DEF ManualBackup
  <2> HIDE DEF copy
  <2> QED
    BY <1>1, <1>2, <1>3, <2>1, <2>3, <2>4
<1>5. CASE ManualBackup(t)
  <2> DEFINE copy == [by |-> "manual", snap |-> Len(log)]
  <2>1. archive' = Append(archive, copy) /\ pc[t] = "manual"
    BY <1>5 DEF ManualBackup
  <2>2. Len(log) \in 1..Len(log)
    BY DEF LogOK
  <2>3. copy \in Copies /\ copy.by = "manual"
    BY <2>2 DEF Copies
  <2>4. ~MakeBackup(t)
    BY <2>1 DEF MakeBackup, Step
  <2> HIDE DEF copy
  <2> QED
    BY <1>1, <1>2, <1>3, <2>1, <2>3, <2>4
<1> QED
  BY <1>4, <1>5

\* A mutation is in the hands of one writer or has reached the journal.
LEMMA LogKept ==
    ASSUME LogOK, JournalOK, RunsOK, [Next]_vars
    PROVE  LogOK'
<1>0. MaxMutations \in Nat /\ Len(log) \in Nat \ {0}
  BY ConfigBackupAssumption DEF LogOK
<1>1. ASSUME UNCHANGED <<log, wr, reached, archive>>
      PROVE  LogOK'
  BY <1>1 DEF LogOK
<1>2. ASSUME NEW w \in Writers, Save(w)
      PROVE  LogOK'
  <2>1. /\ log' \in Seq(Contents) /\ Len(log') = Len(log) + 1 /\ Len(log) <= MaxMutations
        /\ wr' = [wr EXCEPT ![w] = Len(log) + 1] /\ UNCHANGED <<reached, archive>>
    BY <1>2, SaveGrows
  <2>2. Len(log') \in 1..(MaxMutations + 1) /\ reached' \subseteq 2..Len(log')
    BY <1>0, <2>1 DEF LogOK
  <2>3. archive' \in Seq([by : {"run", "manual"}, snap : 1..Len(log')])
    <3>1. Copies \subseteq [by : {"run", "manual"}, snap : 1..Len(log')]
      BY <1>0, <2>1 DEF Copies
    <3> DEFINE wider == [by : {"run", "manual"}, snap : 1..Len(log')]
    <3> HIDE DEF wider
    <3>2. archive \in Seq(Copies) /\ Copies \subseteq wider
      BY <3>1 DEF LogOK, Copies, wider
    <3>3. archive \in Seq(wider)
      BY <3>2
    <3> QED
      BY <2>1, <3>3 DEF wider
  <2>4. wr' \in [Writers -> 0..(MaxMutations + 1)]
    BY <1>0, <2>1 DEF LogOK
  <2>5. ASSUME NEW v \in Writers, wr'[v] # 0
        PROVE  wr'[v] \in 2..Len(log') /\ wr'[v] \notin reached'
    <3>1. CASE v = w
      <4>1. wr'[v] = Len(log) + 1
        BY <2>1, <3>1 DEF LogOK
      <4> QED
        BY <1>0, <2>1, <4>1 DEF LogOK
    <3>2. CASE v # w
      <4>1. wr'[v] = wr[v]
        BY <2>1, <3>2 DEF LogOK
      <4> QED
        BY <1>0, <2>1, <2>5, <4>1 DEF LogOK
    <3> QED
      BY <3>1, <3>2
  <2>6. ASSUME NEW u \in Writers, NEW v \in Writers, wr'[u] = wr'[v], wr'[v] # 0
        PROVE  u = v
    <3>1. \A x \in Writers : wr'[x] = IF x = w THEN Len(log) + 1 ELSE wr[x]
      BY <2>1 DEF LogOK
    <3>2. \A x \in Writers : wr[x] # Len(log) + 1
      BY <1>0 DEF LogOK
    <3> QED
      BY <2>6, <3>1, <3>2 DEF LogOK
  <2> QED
    BY <2>1, <2>2, <2>3, <2>4, <2>5, <2>6 DEF LogOK
<1>3. ASSUME NEW w \in Writers, RecordChange(w) \/ RecordChangeFails(w)
      PROVE  LogOK'
  <2>1. /\ wr[w] \in 2..Len(log) /\ wr' = [wr EXCEPT ![w] = 0] /\ UNCHANGED <<log, archive>>
        /\ reached' = reached \/ reached' = reached \union {wr[w]}
    BY <1>3, WriterAppends
  <2>2. \A x \in Writers : wr'[x] = IF x = w THEN 0 ELSE wr[x]
    BY <2>1 DEF LogOK
  <2>3. wr' \in [Writers -> 0..(MaxMutations + 1)]
    BY <1>0, <2>1 DEF LogOK
  <2>4. ASSUME NEW v \in Writers, wr'[v] # 0
        PROVE  wr'[v] \in 2..Len(log) /\ wr'[v] \notin reached'
    <3>1. v # w /\ wr'[v] = wr[v] /\ wr[v] # 0
      BY <2>2, <2>4
    <3>2. wr[v] # wr[w] /\ wr[v] \in 2..Len(log) /\ wr[v] \notin reached
      BY <3>1 DEF LogOK
    <3> QED
      BY <2>1, <3>1, <3>2
  <2>5. ASSUME NEW u \in Writers, NEW v \in Writers, wr'[u] = wr'[v], wr'[v] # 0
        PROVE  u = v
    BY <2>2, <2>5 DEF LogOK
  <2> QED
    BY <2>1, <2>3, <2>4, <2>5 DEF LogOK
<1>4. ASSUME NEW t \in Threads, MakeBackup(t) \/ ManualBackup(t)
      PROVE  LogOK'
  <2>1. archive' \in Seq(Copies) /\ UNCHANGED <<log, wr, reached>>
    BY <1>4, ArchiveGrows
  <2> QED
    BY <2>1 DEF LogOK, Copies
<1>5. ASSUME NEW t \in Threads, Commit(t) \/ CommitFails(t)
      PROVE  LogOK'
  BY <1>1, <1>5 DEF Commit, CommitFails
<1> QED
  BY <1>1, <1>2, <1>3, <1>4, <1>5, DataSteps DEF data

\* A backup in the archive keeps its content while the log and the archive grow.
LEMMA CopyKept ==
    ASSUME LogOK, NEW b \in DOMAIN archive
    PROVE  b \in Nat \ {0} /\ archive[b].snap \in 1..Len(log) /\ archive[b].by \in {"run", "manual"}
<1>1. archive \in Seq(Copies)
  BY DEF LogOK, Copies
<1>2. b \in Nat \ {0} /\ archive[b] \in Copies
  BY <1>1
<1> QED
  BY <1>2 DEF Copies

\* What is settled was captured by a backup with the hash of the last one.
LEMMA JournalKept ==
    ASSUME LogOK, JournalOK, RunsOK, [Next]_vars
    PROVE  JournalOK'
<1>0. WellFormed(file) /\ Knows(file, reached) /\ LastBackupExists /\ reached \subseteq 2..Len(log) /\ Len(log) \in Nat
  BY DEF JournalOK, LogOK
<1>1. ASSUME UNCHANGED <<log, file, reached, archive>>
      PROVE  JournalOK'
  BY <1>1 DEF JournalOK, Settled, LastBackupExists
<1>2. ASSUME NEW w \in Writers, Save(w)
      PROVE  JournalOK'
  <2>1. /\ Len(log') = Len(log) + 1 /\ \A i \in 1..Len(log) : log'[i] = log[i]
        /\ UNCHANGED <<file, reached, archive>>
    BY <1>2, SaveGrows
  <2>2. LastBackupExists'
    BY <1>0, <2>1, CopyKept DEF LastBackupExists
  <2>3. ASSUME NEW m \in Settled'
        PROVE  \E j \in m..Len(log') : log'[j] = LastBackup(file').hash
    <3>1. m \in Settled /\ m \in 2..Len(log)
      BY <1>0, <2>1 DEF Settled
    <3>2. PICK j \in m..Len(log) : log[j] = LastBackup(file).hash
      BY <3>1 DEF JournalOK
    <3>3. j \in m..Len(log') /\ j \in 1..Len(log)
      BY <1>0, <2>1, <3>1
    <3> QED
      BY <2>1, <3>2, <3>3
  <2> QED
    BY <1>0, <2>1, <2>2, <2>3 DEF JournalOK
<1>3. ASSUME NEW w \in Writers, RecordChange(w) \/ RecordChangeFails(w)
      PROVE  JournalOK'
  <2>1. /\ UNCHANGED <<log, archive>>
        /\ \/ file' = file /\ reached' = reached
           \/ ChangeLanded(file, file', wr[w], reached, stamp) /\ reached' = reached \union {wr[w]}
    BY <1>3, WriterAppends
  <2>2. CASE file' = file /\ reached' = reached
    BY <1>1, <2>1, <2>2
  <2>3. CASE ChangeLanded(file, file', wr[w], reached, stamp) /\ reached' = reached \union {wr[w]}
    <3>1. /\ WellFormed(file') /\ Knows(file', reached') /\ Owed(file') = Owed(file) \union {wr[w]}
          /\ LastBackup(file').hash = LastBackup(file).hash /\ LastBackup(file').backup = LastBackup(file).backup
      BY <2>3 DEF ChangeLanded, SameLast
    <3>2. \A m \in Settled' : m \in Settled
      BY <2>3, <3>1 DEF Settled
    <3>3. LastBackupExists'
      BY <1>0, <2>1, <3>1 DEF LastBackupExists
    <3> QED
      BY <2>1, <3>1, <3>2, <3>3 DEF JournalOK
  <2> QED
    BY <2>1, <2>2, <2>3
<1>4. ASSUME NEW t \in Threads, MakeBackup(t) \/ ManualBackup(t)
      PROVE  JournalOK'
  <2>1. /\ \A b \in DOMAIN archive : b \in DOMAIN archive' /\ archive'[b] = archive[b]
        /\ UNCHANGED <<log, file, reached>>
    BY <1>4, ArchiveGrows
  <2>2. LastBackupExists'
    BY <1>0, <2>1 DEF LastBackupExists
  <2> QED
    BY <2>1, <2>2 DEF JournalOK, Settled
<1>5. ASSUME NEW t \in Threads, Commit(t) \/ CommitFails(t)
      PROVE  JournalOK'
  <2> DEFINE snap == loc[t].snap
  <2> DEFINE backup == loc[t].backup
  <2> DEFINE ids == loc[t].ids
  <2> DEFINE outcome == IF loc[t].backup = NoBackup THEN "noop" ELSE "backup"
  <2>0. RunOK(t)
    BY DEF RunsOK
  <2>1. /\ UNCHANGED <<log, reached, archive>> /\ pc[t] = "commit"
        /\ \/ CommitLanded(file, file', ids, outcome, log[snap], backup, reached, stamp)
           \/ SameJournal(file, file', reached, stamp)
    BY <1>5, <2>0, RunAppends
  <2>2. /\ snap \in 1..Len(log) /\ \A m \in Settled : m <= snap
        /\ \A i \in DOMAIN ids : \A m \in CoversOf(ids[i]) : m <= snap
        /\ IF backup = NoBackup THEN log[snap] = LastBackup(file).hash
           ELSE backup \in DOMAIN archive /\ archive[backup].snap = snap
    BY <2>0, <2>1 DEF RunOK
  <2>3. outcome = (IF backup = NoBackup THEN "noop" ELSE "backup")
    OBVIOUS
  <2> HIDE DEF snap, backup, ids, outcome
  <2>4. CASE SameJournal(file, file', reached, stamp)
    <3>1. /\ WellFormed(file') /\ Knows(file', reached) /\ Owed(file') = Owed(file)
          /\ LastBackup(file').hash = LastBackup(file).hash /\ LastBackup(file').backup = LastBackup(file).backup
      BY <2>4 DEF SameJournal, SameLast
    <3>2. LastBackupExists'
      BY <1>0, <2>1, <3>1 DEF LastBackupExists
    <3> QED
      BY <2>1, <3>1, <3>2 DEF JournalOK, Settled
  <2>5. CASE CommitLanded(file, file', ids, outcome, log[snap], backup, reached, stamp)
    <3>1. /\ WellFormed(file') /\ Knows(file', reached)
          /\ \A m \in Owed(file) \ Owed(file') : \E id \in Range(ids) : m \in CoversOf(id)
      BY <2>5 DEF CommitLanded
    <3>2. LastBackup(file').hash = log[snap] /\ LastBackupExists'
      <4>1. CASE backup = NoBackup
        <5>1. LastBackup(file').hash = LastBackup(file).hash /\ LastBackup(file').backup = LastBackup(file).backup
          BY <2>3, <2>5, <4>1 DEF CommitLanded, SameLast
        <5> QED
          BY <1>0, <2>1, <2>2, <4>1, <5>1 DEF LastBackupExists
      <4>2. CASE backup # NoBackup
        <5>1. LastBackup(file').hash = log[snap] /\ LastBackup(file').backup = backup
          BY <2>3, <2>5, <4>2 DEF CommitLanded
        <5> QED
          BY <2>1, <2>2, <4>2, <5>1 DEF LastBackupExists
      <4> QED
        BY <4>1, <4>2
    <3>3. ASSUME NEW m \in Settled'
          PROVE  m \in 2..Len(log) /\ m <= snap
      <4>1. m \in reached /\ m \notin Owed(file')
        BY <2>1 DEF Settled
      <4>2. CASE m \in Owed(file)
        BY <1>0, <2>2, <3>1, <4>1, <4>2 DEF Range
      <4>3. CASE m \notin Owed(file)
        BY <1>0, <2>2, <4>1, <4>3 DEF Settled
      <4> QED
        BY <4>2, <4>3
    <3>4. \A m \in Settled' : snap \in m..Len(log')
      BY <1>0, <2>1, <2>2, <3>3
    <3> QED
      BY <2>1, <3>1, <3>2, <3>4 DEF JournalOK
  <2> QED
    BY <2>1, <2>4, <2>5
<1> QED
  BY <1>1, <1>2, <1>3, <1>4, <1>5, DataSteps DEF data

(***************************************************************************)
(* Runs.                                                                   *)
(***************************************************************************)

\* The entries that a run reads cover mutations that reached the journal.
LEMMA PendingFacts ==
    ASSUME NEW f, WellFormed(f), NEW R, Knows(f, R)
    PROVE  IsSeq(Pending(f)) /\ \A i \in DOMAIN Pending(f) : CoversOf(Pending(f)[i]) \subseteq R
<1> DEFINE lines == PendingLines(f)
<1> DEFINE a == Ascending(lines)
<1> DEFINE size == Cardinality(lines)
<1> DEFINE p == Pending(f)
<1>1. lines \in SUBSET EntryLines(f) /\ lines \in SUBSET DOMAIN f
  BY DEF PendingLines, Firsts, Uncommitted, EntryLines
<1>2. p = [i \in DOMAIN a |-> EntryId(f, a[i])]
  BY DEF Pending
<1> HIDE DEF lines, p
<1>3. lines \in SUBSET Nat /\ IsFiniteSet(lines)
  BY <1>1, LinesFinite
<1>4. size \in Nat /\ a \in [1..size -> lines]
  BY <1>3, AscendingSet
<1> HIDE DEF a, size
<1>5. p = [i \in 1..size |-> EntryId(f, a[i])]
  BY <1>2, <1>4
<1>6. IsSeq(p) /\ DOMAIN p = 1..size
  BY <1>4, <1>5, FunctionSeq
<1>7. ASSUME NEW i \in 1..size
      PROVE  CoversOf(p[i]) \subseteq R
  <2>1. p[i] = EntryId(f, a[i]) /\ a[i] \in EntryLines(f)
    BY <1>1, <1>4, <1>5
  <2>2. p[i] \in Entries(f)
    BY <2>1 DEF Entries
  <2> QED
    BY <2>2 DEF Knows
<1> QED
  BY <1>6, <1>7 DEF p

\* A thread outside the critical part of a run.
Outside(t) ==
    /\ pc[t] \notin {"snapshot", "backup", "commit"}
    /\ (pc[t] \in {"rest", "due", "acquire", "pending"} \/ (pc[t] \in Polling /\ loc[t].then # "release"))
         => loc[t].backup = NoBackup

\* Outside a run nothing is asked of a thread but that it names no backup.
LEMMA OutsideOK ==
    ASSUME NEW t \in Threads
    PROVE  /\ Outside(t) => RunOK(t)
           /\ RunOK(t) /\ pc[t] \notin {"snapshot", "backup", "commit"} => Outside(t)
BY DEF Outside, RunOK, Polling

\* The same after a step.
LEMMA OutsideOKNext ==
    ASSUME NEW t \in Threads, Outside(t)'
    PROVE  RunOK(t)'
BY DEF Outside, RunOK, Polling

\* While one thread runs, the others are outside.
LEMMA RunExcludes ==
    ASSUME LocksOK, RunsOK, NEW s \in Threads, HoldsLock(s), Moves(s), Outside(s)' \/ RunOK(s)'
    PROVE  RunsOK'
<1>1. ASSUME NEW t \in Threads \ {s}
      PROVE  RunOK(t)'
  <2>1. ~HoldsLock(t)
    BY DEF LocksOK
  <2>2. Outside(t)
    BY <2>1, OutsideOK DEF HoldsLock, Running, RunsOK
  <2>3. Outside(t)'
    BY <2>2 DEF Moves, Outside
  <2> QED
    BY <2>3, OutsideOKNext
<1> QED
  BY <1>1, OutsideOKNext DEF RunsOK

\* A thread that stays while config, journal and archive do.
LEMMA RunFrame ==
    ASSUME UNCHANGED <<log, file, reached, archive>>, NEW t \in Threads, RunOK(t), pc'[t] = pc[t], loc'[t] = loc[t]
    PROVE  RunOK(t)'
BY DEF RunOK, Settled, LastRun

\* A run commits entries whose mutations its snapshot contains.
LEMMA RunsKept ==
    ASSUME ThreadsOK, LocksOK, LogOK, JournalOK, RunsOK, [Next]_vars
    PROVE  RunsOK'
<1>0. /\ \A t \in Threads : RunOK(t) /\ loc[t].then \in {"rest", "due", "release"}
      /\ WellFormed(file) /\ Knows(file, reached) /\ reached \subseteq 2..Len(log) /\ Len(log) \in Nat \ {0}
  BY DEF RunsOK, ThreadsOK, JournalOK, LogOK
<1>1. ASSUME UNCHANGED <<log, file, reached, archive>>, NEW s \in Threads, Moves(s), RunOK(s)'
      PROVE  RunsOK'
  <2>1. \A t \in Threads \ {s} : RunOK(t)'
    BY <1>0, <1>1, RunFrame DEF Moves
  <2> QED
    BY <1>1, <2>1 DEF RunsOK
<1>2. ASSUME UNCHANGED <<log, file, reached, archive, pc, loc>>
      PROVE  RunsOK'
  BY <1>0, <1>2, RunFrame DEF RunsOK
<1>3. ASSUME NEW w \in Writers, Save(w)
      PROVE  RunsOK'
  <2>1. /\ Len(log') = Len(log) + 1 /\ \A i \in 1..Len(log) : log'[i] = log[i]
        /\ UNCHANGED <<file, reached, archive, pc, loc>>
    BY <1>3, SaveGrows
  <2>2. ASSUME NEW t \in Threads
        PROVE  RunOK(t)'
    <3>1. loc[t].snap \in 1..Len(log) => loc[t].snap \in 1..Len(log') /\ log'[loc[t].snap] = log[loc[t].snap]
      BY <1>0, <2>1
    <3>2. RunOK(t)
      BY <1>0
    <3> QED
      BY <2>1, <3>1, <3>2 DEF RunOK, Settled, LastRun
  <2> QED
    BY <2>2 DEF RunsOK
<1>4. ASSUME NEW w \in Writers, RecordChange(w) \/ RecordChangeFails(w)
      PROVE  RunsOK'
  <2>1. /\ UNCHANGED <<log, archive, pc, loc>>
        /\ \/ file' = file /\ reached' = reached
           \/ ChangeLanded(file, file', wr[w], reached, stamp) /\ reached' = reached \union {wr[w]}
    BY <1>4, WriterAppends
  <2>2. CASE file' = file /\ reached' = reached
    BY <1>2, <2>1, <2>2
  <2>3. CASE ChangeLanded(file, file', wr[w], reached, stamp) /\ reached' = reached \union {wr[w]}
    <3>1. /\ Owed(file') = Owed(file) \union {wr[w]}
          /\ LastBackup(file').hash = LastBackup(file).hash /\ LastBackup(file').backup = LastBackup(file).backup
      BY <2>3 DEF ChangeLanded, SameLast
    <3>2. (\A m \in Settled' : m \in Settled) /\ reached \subseteq reached'
      BY <2>3, <3>1 DEF Settled
    <3>3. ASSUME NEW t \in Threads
          PROVE  RunOK(t)'
      <4>1. RunOK(t)
        BY <1>0
      <4> QED
        BY <2>1, <3>1, <3>2, <4>1 DEF RunOK, LastRun
    <3> QED
      BY <3>3 DEF RunsOK
  <2> QED
    BY <2>1, <2>2, <2>3
<1>5. ASSUME NEW s \in Threads, ManualBackup(s)
      PROVE  RunsOK'
  <2>1. /\ Len(archive) \in Nat /\ Len(archive') = Len(archive) + 1 /\ DOMAIN archive = 1..Len(archive)
        /\ DOMAIN archive' = 1..(Len(archive) + 1)
        /\ \A b \in DOMAIN archive : archive'[b] = archive[b]
        /\ archive'[Len(archive) + 1].by = "manual"
        /\ UNCHANGED <<log, file, reached>>
    BY <1>5, ArchiveGrows
  <2>2. Moves(s) /\ pc'[s] = "rest" /\ loc'[s].backup = NoBackup
    BY <1>5, MoveManualBackup
  <2>3. Outside(s)'
    BY <2>2 DEF Outside
  <2>4. ASSUME NEW b \in DOMAIN archive, LastRun(b)
        PROVE  b \in DOMAIN archive' /\ archive'[b] = archive[b] /\ LastRun(b)'
    <3>1. b \in DOMAIN archive' /\ archive'[b] = archive[b]
      BY <2>1
    <3>2. ASSUME NEW c \in (b + 1)..Len(archive')
          PROVE  archive'[c].by = "manual"
      <4>1. (c \in (b + 1)..Len(archive) /\ c \in DOMAIN archive) \/ c = Len(archive) + 1
        BY <2>1
      <4> QED
        BY <2>1, <2>4, <4>1 DEF LastRun
    <3> QED
      BY <2>4, <3>1, <3>2 DEF LastRun
  <2>5. ASSUME NEW t \in Threads \ {s}
        PROVE  RunOK(t)'
    <3>1. RunOK(t) /\ pc'[t] = pc[t] /\ loc'[t] = loc[t]
      BY <1>0, <2>2 DEF Moves
    <3> QED
      BY <2>1, <2>4, <3>1 DEF RunOK, Settled
  <2> QED
    BY <2>3, <2>5, OutsideOKNext DEF RunsOK
<1>6. ASSUME NEW s \in Threads, MakeBackup(s)
      PROVE  RunsOK'
  <2>1. /\ Len(archive) \in Nat /\ Len(archive') = Len(archive) + 1 /\ DOMAIN archive' = 1..(Len(archive) + 1)
        /\ archive'[Len(archive) + 1].by = "run" /\ archive'[Len(archive) + 1].snap = loc[s].snap
        /\ UNCHANGED <<log, file, reached>>
    BY <1>6, ArchiveGrows
  <2>2. /\ Moves(s) /\ pc[s] = "backup" /\ pc'[s] = "commit"
        /\ loc'[s].snap = loc[s].snap /\ loc'[s].ids = loc[s].ids /\ loc'[s].backup = Len(archive) + 1
    BY <1>6, MoveMakeBackup
  <2>0. PICK new \in Nat : new = Len(archive) + 1
    BY <2>1
  <2>3. new \in DOMAIN archive' /\ new # NoBackup
    BY <2>0, <2>1 DEF NoBackup
  <2>4. LastRun(new)'
    <3>1. \A c \in (new + 1)..Len(archive') : FALSE
      BY <2>0, <2>1
    <3>2. archive'[new].by = "run"
      BY <2>0, <2>1
    <3> QED
      BY <3>1, <3>2 DEF LastRun
  <2>5. loc'[s].backup = new /\ archive'[new].snap = loc[s].snap
    BY <2>0, <2>1, <2>2
  <2>6. RunOK(s)'
    <3>1. RunOK(s)
      BY <1>0
    <3> QED
      BY <2>1, <2>2, <2>3, <2>4, <2>5, <3>1 DEF RunOK, Settled, Polling
  <2>7. HoldsLock(s)
    BY <2>2 DEF HoldsLock, Running
  <2> QED
    BY <2>2, <2>6, <2>7, RunExcludes
<1>7. ASSUME NEW s \in Threads, Commit(s) \/ CommitFails(s)
      PROVE  RunsOK'
  <2>1. Moves(s) /\ pc[s] = "commit" /\ pc'[s] \in {"success", "failure"}
    BY <1>7, MoveCommit, MoveCommitFails
  <2>2. HoldsLock(s) /\ Outside(s)'
    BY <2>1 DEF HoldsLock, Running, Outside, Polling
  <2> QED
    BY <2>1, <2>2, RunExcludes
<1>8. ASSUME NEW s \in Threads, ReadPending(s)
      PROVE  RunsOK'
  <2>1. /\ Moves(s) /\ pc[s] = "pending" /\ pc'[s] \in {"clear", "snapshot"}
        /\ loc'[s].backup = loc[s].backup /\ loc'[s].ids = Pending(file)
    BY <1>8, MoveReadPending
  <2>2. UNCHANGED <<log, file, reached, archive>>
    BY <1>8 DEF ReadPending
  <2> DEFINE ids == Pending(file)
  <2>3. IsSeq(ids) /\ \A i \in DOMAIN ids : CoversOf(ids[i]) \subseteq reached
    BY <1>0, PendingFacts
  <2> HIDE DEF ids
  <2>4. loc[s].backup = NoBackup
    BY <1>0, <2>1 DEF RunOK
  <2>5. loc'[s].ids = ids
    BY <2>1 DEF ids
  <2>6. RunOK(s)'
    BY <2>1, <2>2, <2>3, <2>4, <2>5 DEF RunOK, Polling
  <2> QED
    BY <1>1, <2>1, <2>2, <2>6
<1>9. ASSUME NEW s \in Threads, Snapshot(s)
      PROVE  RunsOK'
  <2>1. /\ Moves(s) /\ pc[s] = "snapshot"
        /\ pc'[s] = IF Config = LastBackup(file).hash THEN "commit" ELSE "backup"
        /\ loc'[s].backup = loc[s].backup /\ loc'[s].ids = loc[s].ids /\ loc'[s].snap = Len(log)
    BY <1>9, MoveSnapshot
  <2>2. UNCHANGED <<log, file, reached, archive>>
    BY <1>9 DEF Snapshot
  <2>3. /\ loc[s].backup = NoBackup
        /\ IsSeq(loc[s].ids) /\ \A i \in DOMAIN loc[s].ids : CoversOf(loc[s].ids[i]) \subseteq reached
    BY <1>0, <2>1 DEF RunOK
  <2>4. Len(log) \in 1..Len(log) /\ \A m \in reached : m <= Len(log)
    BY <1>0
  <2>5. \A m \in Settled : m <= Len(log)
    BY <2>4 DEF Settled
  <2>6. \A i \in DOMAIN loc[s].ids : \A m \in CoversOf(loc[s].ids[i]) : m <= Len(log)
    BY <2>3, <2>4
  <2>7. RunOK(s)'
    <3>1. Settled' = Settled
      BY <2>2 DEF Settled
    <3>2. CASE pc'[s] = "commit"
      <4>1. log[Len(log)] = LastBackup(file).hash
        BY <2>1, <3>2 DEF Config
      <4> QED
        BY <2>1, <2>2, <2>3, <2>4, <2>5, <2>6, <3>1, <3>2, <4>1 DEF RunOK, Polling
    <3>3. CASE pc'[s] = "backup"
      <4>1. log[Len(log)] # LastBackup(file).hash
        BY <2>1, <3>3 DEF Config
      <4> QED
        BY <2>1, <2>2, <2>3, <2>4, <2>5, <2>6, <3>1, <3>3, <4>1 DEF RunOK, Polling
    <3> QED
      BY <2>1, <3>2, <3>3
  <2> QED
    BY <1>1, <2>1, <2>2, <2>7
<1>10. CASE Crash
  <2>1. \A t \in Threads : pc'[t] = "rest" /\ loc'[t].backup = NoBackup
    BY <1>10 DEF Crash, NoLocals
  <2>2. \A t \in Threads : Outside(t)'
    BY <2>1 DEF Outside
  <2> QED
    BY <2>2, OutsideOKNext DEF RunsOK
<1>11. CASE TimePasses \/ Restart \/ UNCHANGED vars
  BY <1>2, <1>11 DEF TimePasses, Restart, vars
<1>12. ASSUME UNCHANGED <<log, file, reached, archive>>, NEW s \in Threads, Moves(s), Outside(s)'
      PROVE  RunsOK'
  BY <1>1, <1>12, OutsideOKNext
<1>13. ASSUME NEW s \in Threads, PollStat(s)
      PROVE  RunsOK'
  <2>1. s \in Threads /\ UNCHANGED <<log, file, reached, archive>>
    BY <1>13 DEF Threads, PollStat
  <2>2. RunOK(s) /\ loc[s].then \in {"rest", "due", "release"}
    BY <1>0, <2>1
  <2>3. Moves(s) /\ Outside(s)'
    BY <1>13, <2>1, <2>2, MovePollStat DEF RunOK, Outside, Polling
  <2> QED
    BY <1>12, <2>1, <2>3
<1>14. ASSUME NEW s \in Threads, PollCompare(s)
      PROVE  RunsOK'
  <2>1. s \in Threads /\ UNCHANGED <<log, file, reached, archive>>
    BY <1>14 DEF Threads, PollCompare
  <2>2. RunOK(s) /\ loc[s].then \in {"rest", "due", "release"}
    BY <1>0, <2>1
  <2>3. Moves(s) /\ Outside(s)'
    BY <1>14, <2>1, <2>2, MovePollCompare DEF RunOK, Outside, Polling
  <2> QED
    BY <1>12, <2>1, <2>3
<1>15. ASSUME NEW s \in Threads, PollRead(s)
      PROVE  RunsOK'
  <2>1. s \in Threads /\ UNCHANGED <<log, file, reached, archive>>
    BY <1>15 DEF Threads, PollRead
  <2>2. RunOK(s) /\ loc[s].then \in {"rest", "due", "release"}
    BY <1>0, <2>1
  <2>3. Moves(s) /\ Outside(s)'
    BY <1>15, <2>1, <2>2, MovePollRead DEF RunOK, Outside, Polling
  <2> QED
    BY <1>12, <2>1, <2>3
<1>16. ASSUME NEW s \in Threads, PollApply(s)
      PROVE  RunsOK'
  <2>1. s \in Threads /\ UNCHANGED <<log, file, reached, archive>>
    BY <1>16 DEF Threads, PollApply
  <2>2. RunOK(s) /\ loc[s].then \in {"rest", "due", "release"}
    BY <1>0, <2>1
  <2>3. Moves(s) /\ Outside(s)'
    BY <1>16, <2>1, <2>2, MovePollApply DEF RunOK, Outside, Polling
  <2> QED
    BY <1>12, <2>1, <2>3
<1>17. ASSUME NEW s, s = Ticker, TickStart
      PROVE  RunsOK'
  <2>1. s \in Threads /\ UNCHANGED <<log, file, reached, archive>>
    BY <1>17 DEF Threads, TickStart
  <2>2. RunOK(s) /\ loc[s].then \in {"rest", "due", "release"}
    BY <1>0, <2>1
  <2>3. Moves(s) /\ Outside(s)'
    BY <1>17, <2>1, <2>2, MoveTickStart DEF RunOK, Outside, Polling
  <2> QED
    BY <1>12, <2>1, <2>3
<1>18. ASSUME NEW s, s = Ticker, TickDue
      PROVE  RunsOK'
  <2>1. s \in Threads /\ UNCHANGED <<log, file, reached, archive>>
    BY <1>18 DEF Threads, TickDue
  <2>2. RunOK(s) /\ loc[s].then \in {"rest", "due", "release"}
    BY <1>0, <2>1
  <2>3. Moves(s) /\ Outside(s)'
    BY <1>18, <2>1, <2>2, MoveTickDue DEF RunOK, Outside, Polling
  <2> QED
    BY <1>12, <2>1, <2>3
<1>19. ASSUME NEW s \in Viewers, ViewStart(s)
      PROVE  RunsOK'
  <2>1. s \in Threads /\ UNCHANGED <<log, file, reached, archive>>
    BY <1>19 DEF Threads, ViewStart
  <2>2. RunOK(s) /\ loc[s].then \in {"rest", "due", "release"}
    BY <1>0, <2>1
  <2>3. Moves(s) /\ Outside(s)'
    BY <1>19, <2>1, <2>2, MoveViewStart DEF RunOK, Outside, Polling
  <2> QED
    BY <1>12, <2>1, <2>3
<1>20. ASSUME NEW s \in Workers, StartRun(s)
      PROVE  RunsOK'
  <2>1. s \in Threads /\ UNCHANGED <<log, file, reached, archive>>
    BY <1>20 DEF Threads, StartRun
  <2>2. RunOK(s) /\ loc[s].then \in {"rest", "due", "release"}
    BY <1>0, <2>1
  <2>3. Moves(s) /\ Outside(s)'
    BY <1>20, <2>1, <2>2, MoveStartRun DEF RunOK, Outside, Polling
  <2> QED
    BY <1>12, <2>1, <2>3
<1>21. ASSUME NEW s \in Threads, AcquireBusy(s)
      PROVE  RunsOK'
  <2>1. s \in Threads /\ UNCHANGED <<log, file, reached, archive>>
    BY <1>21 DEF Threads, AcquireBusy
  <2>2. RunOK(s) /\ loc[s].then \in {"rest", "due", "release"}
    BY <1>0, <2>1
  <2>3. Moves(s) /\ Outside(s)'
    BY <1>21, <2>1, <2>2, MoveAcquireBusy DEF RunOK, Outside, Polling
  <2> QED
    BY <1>12, <2>1, <2>3
<1>22. ASSUME NEW s \in Threads, Acquire(s)
      PROVE  RunsOK'
  <2>1. s \in Threads /\ UNCHANGED <<log, file, reached, archive>>
    BY <1>22 DEF Threads, Acquire
  <2>2. RunOK(s) /\ loc[s].then \in {"rest", "due", "release"}
    BY <1>0, <2>1
  <2>3. Moves(s) /\ Outside(s)'
    BY <1>22, <2>1, <2>2, MoveAcquire DEF RunOK, Outside, Polling
  <2> QED
    BY <1>12, <2>1, <2>3
<1>23. ASSUME NEW s \in Threads, ClearSeen(s)
      PROVE  RunsOK'
  <2>1. s \in Threads /\ UNCHANGED <<log, file, reached, archive>>
    BY <1>23 DEF Threads, ClearSeen
  <2>2. RunOK(s) /\ loc[s].then \in {"rest", "due", "release"}
    BY <1>0, <2>1
  <2>3. Moves(s) /\ Outside(s)'
    BY <1>23, <2>1, <2>2, MoveClearSeen DEF RunOK, Outside, Polling
  <2> QED
    BY <1>12, <2>1, <2>3
<1>24. ASSUME NEW s \in Threads, RunFails(s)
      PROVE  RunsOK'
  <2>1. s \in Threads /\ UNCHANGED <<log, file, reached, archive>>
    BY <1>24 DEF Threads, RunFails
  <2>2. RunOK(s) /\ loc[s].then \in {"rest", "due", "release"}
    BY <1>0, <2>1
  <2>3. Moves(s) /\ Outside(s)'
    BY <1>24, <2>1, <2>2, MoveRunFails DEF RunOK, Outside, Polling
  <2> QED
    BY <1>12, <2>1, <2>3
<1>25. ASSUME NEW s \in Threads, RecordSuccess(s)
      PROVE  RunsOK'
  <2>1. s \in Threads /\ UNCHANGED <<log, file, reached, archive>>
    BY <1>25 DEF Threads, RecordSuccess
  <2>2. RunOK(s) /\ loc[s].then \in {"rest", "due", "release"}
    BY <1>0, <2>1
  <2>3. Moves(s) /\ Outside(s)'
    BY <1>25, <2>1, <2>2, MoveRecordSuccess DEF RunOK, Outside, Polling
  <2> QED
    BY <1>12, <2>1, <2>3
<1>26. ASSUME NEW s \in Threads, RecordFailure(s)
      PROVE  RunsOK'
  <2>1. s \in Threads /\ UNCHANGED <<log, file, reached, archive>>
    BY <1>26 DEF Threads, RecordFailure
  <2>2. RunOK(s) /\ loc[s].then \in {"rest", "due", "release"}
    BY <1>0, <2>1
  <2>3. Moves(s) /\ Outside(s)'
    BY <1>26, <2>1, <2>2, MoveRecordFailure DEF RunOK, Outside, Polling
  <2> QED
    BY <1>12, <2>1, <2>3
<1>27. ASSUME NEW s \in Threads, Release(s)
      PROVE  RunsOK'
  <2>1. s \in Threads /\ UNCHANGED <<log, file, reached, archive>>
    BY <1>27 DEF Threads, Release
  <2>2. RunOK(s) /\ loc[s].then \in {"rest", "due", "release"}
    BY <1>0, <2>1
  <2>3. Moves(s) /\ Outside(s)'
    BY <1>27, <2>1, <2>2, MoveRelease DEF RunOK, Outside, Polling
  <2> QED
    BY <1>12, <2>1, <2>3
<1>28. ASSUME NEW s \in Threads, ManualBackupFails(s)
      PROVE  RunsOK'
  <2>1. s \in Threads /\ UNCHANGED <<log, file, reached, archive>>
    BY <1>28 DEF Threads, ManualBackupFails
  <2>2. RunOK(s) /\ loc[s].then \in {"rest", "due", "release"}
    BY <1>0, <2>1
  <2>3. Moves(s) /\ Outside(s)'
    BY <1>28, <2>1, <2>2, MoveManualBackup DEF RunOK, Outside, Polling
  <2> QED
    BY <1>12, <2>1, <2>3
<1> QED
  BY <1>3, <1>4, <1>5, <1>6, <1>7, <1>8, <1>9, <1>10, <1>11, <1>13, <1>14, <1>15, <1>16, <1>17,
     <1>18, <1>19, <1>20, <1>21, <1>22, <1>23, <1>24, <1>25, <1>26, <1>27, <1>28 DEF Next, Poll, Run

(***************************************************************************)
(* Copies.                                                                 *)
(***************************************************************************)

\* A thread stays at its commit until it takes it.
LEMMA CommitStays ==
    ASSUME ThreadsOK, [Next]_vars, faults' = faults
    PROVE  \/ \E t \in Threads : Commit(t)
           \/ \A t \in Threads : pc[t] = "commit" => pc'[t] = "commit" /\ loc'[t] = loc[t]
<1>0. faults \in Nat
  BY DEF ThreadsOK
<1>1. ASSUME NEW s \in Threads, Moves(s), pc[s] # "commit", NEW t \in Threads, pc[t] = "commit"
      PROVE  pc'[t] = "commit" /\ loc'[t] = loc[t]
  BY <1>1 DEF Moves
<1>2. CASE UNCHANGED <<pc, loc>>
  BY <1>2
<1>3. CASE \E w \in Writers : Save(w) \/ RecordChange(w) \/ RecordChangeFails(w)
  BY <1>2, <1>3 DEF Save, RecordChange, RecordChangeFails
<1>4. CASE TimePasses \/ Restart \/ UNCHANGED vars
  BY <1>2, <1>4 DEF TimePasses, Restart, vars
<1>5. ASSUME TickStart \/ TickDue
      PROVE  Ticker \in Threads /\ Moves(Ticker) /\ pc[Ticker] # "commit"
  BY <1>5, MoveTickStart, MoveTickDue DEF Threads
<1>6. ASSUME NEW s \in Viewers, ViewStart(s)
      PROVE  s \in Threads /\ Moves(s) /\ pc[s] # "commit"
  BY <1>6, MoveViewStart DEF Threads
<1>7. ASSUME NEW s \in Workers, StartRun(s)
      PROVE  s \in Threads /\ Moves(s) /\ pc[s] # "commit"
  BY <1>7, MoveStartRun DEF Threads
<1>8. ASSUME NEW s \in Threads, Poll(s)
      PROVE  Moves(s) /\ pc[s] # "commit"
  BY <1>8, MovePollStat, MovePollCompare, MovePollRead, MovePollApply DEF Poll
<1>9. ASSUME NEW s \in Threads, Run(s)
      PROVE  (Moves(s) /\ pc[s] # "commit") \/ Commit(s)
  <2>1. ~CommitFails(s)
    BY <1>0 DEF CommitFails, Fault
  <2>2. CASE AcquireBusy(s) \/ Acquire(s) \/ ReadPending(s) \/ ClearSeen(s)
    BY <2>2, MoveAcquireBusy, MoveAcquire, MoveReadPending, MoveClearSeen
  <2>3. CASE Snapshot(s) \/ MakeBackup(s) \/ RunFails(s)
    BY <2>3, MoveSnapshot, MoveMakeBackup, MoveRunFails
  <2>4. CASE RecordSuccess(s) \/ RecordFailure(s) \/ Release(s)
    BY <2>4, MoveRecordSuccess, MoveRecordFailure, MoveRelease
  <2>5. CASE ManualBackup(s) \/ ManualBackupFails(s)
    BY <2>5, MoveManualBackup
  <2> QED
    BY <1>9, <2>1, <2>2, <2>3, <2>4, <2>5 DEF Run
<1>10. ~Crash
  BY <1>0 DEF Crash, Fault
<1>11. ASSUME NEW s \in Threads, Moves(s), pc[s] # "commit"
       PROVE  \A t \in Threads : pc[t] = "commit" => pc'[t] = "commit" /\ loc'[t] = loc[t]
  BY <1>1, <1>11
<1>12. CASE \E s \in Threads : Moves(s) /\ pc[s] # "commit"
  BY <1>11, <1>12
<1>13. \/ \E w \in Writers : Save(w) \/ RecordChange(w) \/ RecordChangeFails(w)
       \/ TimePasses \/ Restart \/ UNCHANGED vars
       \/ \E s \in Threads : Moves(s) /\ pc[s] # "commit"
       \/ \E s \in Threads : Commit(s)
  BY <1>5, <1>6, <1>7, <1>8, <1>9, <1>10 DEF Next
<1> QED
  BY <1>3, <1>4, <1>12, <1>13

\* Without a fault a run makes a backup only when the config differs from the last one.
LEMMA CopiesKept ==
    ASSUME ThreadsOK, LocksOK, LogOK, JournalOK, RunsOK, CopiesOK, [Next]_vars
    PROVE  CopiesOK'
<1>0. SUFFICES ASSUME faults' = 0
               PROVE  CopiesOK'
  BY DEF CopiesOK, NoIdenticalCopies
<1>1. faults = 0 /\ faults' = faults
  <2>1. faults' = faults \/ faults' = faults + 1
    BY DEF Next, vars, coalescer, Fault, Save, RecordChange, RecordChangeFails, TickStart,
       TickDue, ViewStart, StartRun,
           Poll, PollStat, PollCompare, PollRead, PollApply, Run, AcquireBusy, Acquire, ReadPending, ClearSeen,
           Snapshot, MakeBackup, RunFails, Commit, CommitFails, RecordSuccess, RecordFailure, Release,
           ManualBackup, ManualBackupFails, TimePasses, Crash, Restart
  <2>2. faults \in Nat
    BY DEF ThreadsOK
  <2> QED
    BY <1>0, <2>1, <2>2
<1>2. /\ \A b \in DOMAIN archive : LastRun(b) => CommittedOrAboutTo(b)
      /\ \A a, b \in DOMAIN archive :
            /\ a < b /\ archive[a].by = "run" /\ archive[b].by = "run"
            /\ \A c \in (a + 1)..(b - 1) : archive[c].by = "manual"
            => log[archive[a].snap] # log[archive[b].snap]
  BY <1>1 DEF CopiesOK, NoIdenticalCopies
<1> DEFINE Stay == \A t \in Threads : pc[t] = "commit" => pc'[t] = "commit" /\ loc'[t] = loc[t]
<1>3. ASSUME Stay, archive' = archive, \A b \in DOMAIN archive : log'[archive[b].snap] = log[archive[b].snap],
             LastBackup(file').backup = LastBackup(file).backup
      PROVE  CopiesOK'
  <2>1. ASSUME NEW b \in DOMAIN archive, LastRun(b)'
        PROVE  CommittedOrAboutTo(b)'
    BY <1>2, <1>3, <2>1 DEF LastRun, CommittedOrAboutTo
  <2>2. NoIdenticalCopies'
    BY <1>2, <1>3 DEF NoIdenticalCopies
  <2> QED
    BY <1>3, <2>1, <2>2 DEF CopiesOK
<1>4. ASSUME NEW w \in Writers, Save(w) \/ RecordChange(w) \/ RecordChangeFails(w)
      PROVE  CopiesOK'
  <2>1. Stay
    BY <1>4 DEF Save, RecordChange, RecordChangeFails
  <2>2. CASE Save(w)
    <3>1. UNCHANGED <<archive, file>> /\ \A i \in 1..Len(log) : log'[i] = log[i]
      BY <2>2, SaveGrows
    <3>2. \A b \in DOMAIN archive : log'[archive[b].snap] = log[archive[b].snap]
      BY <3>1, CopyKept
    <3> QED
      BY <1>3, <2>1, <3>1, <3>2
  <2>3. CASE RecordChange(w) \/ RecordChangeFails(w)
    <3>1. UNCHANGED <<log, archive>> /\ (file' = file \/ ChangeLanded(file, file', wr[w], reached, stamp))
      BY <2>3, WriterAppends
    <3>2. LastBackup(file').backup = LastBackup(file).backup
      BY <3>1 DEF ChangeLanded, SameLast
    <3> QED
      BY <1>3, <2>1, <3>1, <3>2
  <2> QED
    BY <1>4, <2>2, <2>3
<1>5. ASSUME NEW s \in Threads, Commit(s)
      PROVE  CopiesOK'
  <2>0. RunOK(s)
    BY DEF RunsOK
  <2>1. UNCHANGED <<log, archive>> /\ pc[s] = "commit"
    BY <1>5 DEF Commit, Step
  <2>2. LET outcome == IF loc[s].backup = NoBackup THEN "noop" ELSE "backup"
        IN  CommitLanded(file, file', loc[s].ids, outcome, log[loc[s].snap], loc[s].backup, reached, stamp)
    <3>1. ~CommitFails(s)
      BY <1>1 DEF CommitFails, Fault
    <3> QED
      BY <1>5, <2>0, <3>1, RunAppends
  <2>3. ASSUME NEW t \in Threads, pc[t] = "commit"
        PROVE  t = s
    BY <2>1, <2>3 DEF LocksOK, HoldsLock, Running
  <2>4. ASSUME NEW b \in DOMAIN archive, LastRun(b)'
        PROVE  CommittedOrAboutTo(b)'
    <3>1. LastRun(b)
      BY <2>1, <2>4 DEF LastRun
    <3>2. b = LastBackup(file).backup \/ b = loc[s].backup
      BY <1>2, <2>3, <3>1 DEF CommittedOrAboutTo
    <3>3. CASE loc[s].backup = NoBackup
      <4>1. LastBackup(file').backup = LastBackup(file).backup
        BY <2>2, <3>3 DEF CommitLanded, SameLast
      <4>2. b # NoBackup
        BY CopyKept DEF NoBackup
      <4> QED
        BY <3>2, <3>3, <4>1, <4>2 DEF CommittedOrAboutTo
    <3>4. CASE loc[s].backup # NoBackup
      <4>1. LastBackup(file').backup = loc[s].backup
        BY <2>2, <3>4 DEF CommitLanded
      <4>2. loc[s].backup \in DOMAIN archive /\ LastRun(loc[s].backup)
        BY <2>0, <2>1, <3>4 DEF RunOK
      <4>3. ASSUME NEW c \in DOMAIN archive, LastRun(c)
            PROVE  b = c
        <5>1. Len(archive) \in Nat /\ DOMAIN archive = 1..Len(archive)
          BY DEF LogOK
        <5>2. ~(b < c) /\ ~(c < b)
          BY <3>1, <4>3, <5>1 DEF LastRun
        <5> QED
          BY <5>1, <5>2
      <4>4. b = loc[s].backup
        BY <4>2, <4>3
      <4> QED
        BY <4>1, <4>4 DEF CommittedOrAboutTo
    <3> QED
      BY <3>3, <3>4
  <2>5. NoIdenticalCopies'
    BY <1>2, <2>1 DEF NoIdenticalCopies
  <2> QED
    BY <2>1, <2>4, <2>5 DEF CopiesOK
<1>6. ASSUME NEW s \in Threads, ManualBackup(s)
      PROVE  CopiesOK'
  <2>1. /\ Len(archive) \in Nat /\ Len(archive') = Len(archive) + 1 /\ DOMAIN archive = 1..Len(archive)
        /\ DOMAIN archive' = 1..(Len(archive) + 1)
        /\ \A b \in DOMAIN archive : archive'[b] = archive[b]
        /\ archive'[Len(archive) + 1].by = "manual"
        /\ UNCHANGED <<log, file>>
    BY <1>6, ArchiveGrows
  <2>2. Stay
    BY <1>6, MoveManualBackup DEF Moves
  <2>3. ASSUME NEW b \in DOMAIN archive', archive'[b].by = "run"
        PROVE  b \in DOMAIN archive /\ archive[b].by = "run" /\ archive'[b] = archive[b]
    <3>1. b \in DOMAIN archive \/ b = Len(archive) + 1
      BY <2>1
    <3> QED
      BY <2>1, <2>3, <3>1
  <2>4. ASSUME NEW b \in DOMAIN archive', LastRun(b)'
        PROVE  CommittedOrAboutTo(b)'
    <3>1. b \in DOMAIN archive /\ archive[b].by = "run"
      BY <2>3, <2>4 DEF LastRun
    <3>2. \A c \in (b + 1)..Len(archive) : c \in (b + 1)..Len(archive') /\ c \in DOMAIN archive
      BY <2>1, <3>1
    <3>3. LastRun(b)
      BY <2>1, <2>4, <3>1, <3>2 DEF LastRun
    <3> QED
      BY <1>2, <2>1, <2>2, <3>1, <3>3 DEF CommittedOrAboutTo
  <2>5. ASSUME NEW a \in DOMAIN archive', NEW b \in DOMAIN archive', a < b, archive'[a].by = "run", archive'[b].by = "run",
               \A c \in (a + 1)..(b - 1) : archive'[c].by = "manual"
        PROVE  log'[archive'[a].snap] # log'[archive'[b].snap]
    <3>1. /\ a \in DOMAIN archive /\ archive[a].by = "run" /\ archive'[a] = archive[a]
          /\ b \in DOMAIN archive /\ archive[b].by = "run" /\ archive'[b] = archive[b]
      BY <2>3, <2>5
    <3>2. \A c \in (a + 1)..(b - 1) : c \in DOMAIN archive
      BY <2>1, <3>1
    <3>3. \A c \in (a + 1)..(b - 1) : archive[c].by = "manual"
      BY <2>1, <2>5, <3>2
    <3> QED
      BY <1>2, <2>1, <2>5, <3>1, <3>3
  <2> QED
    BY <2>4, <2>5 DEF CopiesOK, NoIdenticalCopies
<1>7. ASSUME NEW s \in Threads, MakeBackup(s)
      PROVE  CopiesOK'
  <2>1. /\ Len(archive) \in Nat /\ Len(archive') = Len(archive) + 1 /\ DOMAIN archive = 1..Len(archive)
        /\ DOMAIN archive' = 1..(Len(archive) + 1)
        /\ \A b \in DOMAIN archive : archive'[b] = archive[b]
        /\ archive'[Len(archive) + 1].by = "run" /\ archive'[Len(archive) + 1].snap = loc[s].snap
        /\ UNCHANGED <<log, file>>
    BY <1>7, ArchiveGrows
  <2>2. Moves(s) /\ pc[s] = "backup" /\ pc'[s] = "commit" /\ loc'[s].backup = Len(archive) + 1
    BY <1>7, MoveMakeBackup
  <2>3. log[loc[s].snap] # LastBackup(file).hash
    BY <2>2 DEF RunsOK, RunOK
  <2>4. ASSUME NEW t \in Threads
        PROVE  pc[t] # "commit"
    <3>1. runLock = s
      BY <2>2 DEF LocksOK, HoldsLock, Running
    <3> QED
      BY <2>2, <3>1 DEF LocksOK, HoldsLock, Running
  <2>5. ASSUME NEW b \in DOMAIN archive', LastRun(b)'
        PROVE  CommittedOrAboutTo(b)'
    <3>1. b = Len(archive) + 1
      <4>1. ASSUME b # Len(archive) + 1
            PROVE  Len(archive) + 1 \in (b + 1)..Len(archive')
        BY <2>1, <4>1
      <4> QED
        BY <2>1, <2>5, <4>1 DEF LastRun
    <3> QED
      BY <2>2, <3>1 DEF CommittedOrAboutTo
  <2>6. ASSUME NEW a \in DOMAIN archive', NEW b \in DOMAIN archive', a < b, archive'[a].by = "run", archive'[b].by = "run",
               \A c \in (a + 1)..(b - 1) : archive'[c].by = "manual"
        PROVE  log'[archive'[a].snap] # log'[archive'[b].snap]
    <3>0. a \in DOMAIN archive /\ archive'[a] = archive[a] /\ a \in Nat \ {0} /\ b \in 1..(Len(archive) + 1)
      BY <2>1, <2>6
    <3>1. \A c \in (a + 1)..(b - 1) : c \in DOMAIN archive
      BY <2>1, <3>0
    <3>2. \A c \in (a + 1)..(b - 1) : archive[c].by = "manual"
      BY <2>1, <2>6, <3>1
    <3>3. CASE b \in DOMAIN archive
      <4>1. archive'[b] = archive[b]
        BY <2>1, <3>3
      <4> QED
        BY <1>2, <2>1, <2>6, <3>0, <3>2, <3>3, <4>1
    <3>4. CASE b \notin DOMAIN archive
      <4>1. b = Len(archive) + 1 /\ b - 1 = Len(archive)
        BY <2>1, <3>0, <3>4
      <4>2. LastRun(a)
        BY <2>6, <3>0, <3>2, <4>1 DEF LastRun
      <4>3. a = LastBackup(file).backup
        BY <1>2, <2>4, <3>0, <4>2 DEF CommittedOrAboutTo
      <4>4. log[archive[a].snap] = LastBackup(file).hash
        BY <3>0, <4>3 DEF JournalOK, LastBackupExists, NoBackup
      <4> QED
        BY <2>1, <2>3, <3>0, <4>1, <4>4
    <3> QED
      BY <3>3, <3>4
  <2> QED
    BY <2>5, <2>6 DEF CopiesOK, NoIdenticalCopies
<1>8. ASSUME UNCHANGED data, ~\E t \in Threads : Commit(t)
      PROVE  CopiesOK'
  <2>1. Stay
    BY <1>1, <1>8, CommitStays
  <2> QED
    BY <1>3, <1>8, <2>1 DEF data
<1>9. ASSUME NEW t \in Threads, CommitFails(t)
      PROVE  CopiesOK'
  BY <1>1, <1>9 DEF CommitFails, Fault
<1> QED
  BY <1>4, <1>5, <1>6, <1>7, <1>8, <1>9, DataSteps

(***************************************************************************)
(* The theorems.                                                           *)
(***************************************************************************)

\* The inductive invariant.
IndInv == TimersOK /\ ThreadsOK /\ LocksOK /\ LogOK /\ JournalOK /\ RunsOK /\ CopiesOK

\* An empty journal knows nothing and names no backup.
LEMMA EmptyJournal ==
    /\ WellFormed(<<>>) /\ Entries(<<>>) = {} /\ CommittedIds(<<>>) = {}
    /\ LastBackup(<<>>).hash = NoHash /\ LastBackup(<<>>).backup = NoBackup
<1>1. DOMAIN <<>> = {} /\ IsSeq(<<>>)
  BY DEF IsSeq
<1> DEFINE f == <<>>
<1>2. DOMAIN f = {} /\ IsSeq(f)
  BY <1>1
<1> HIDE DEF f
<1>3. WellFormed(f) /\ Entries(f) = {} /\ CommittedIds(f) = {}
  BY <1>2 DEF WellFormed, Entries, EntryLines, CommittedIds
<1>4. LastBackup(f) = [hash |-> NoHash, backup |-> NoBackup]
  BY <1>2 DEF LastBackup
<1> QED
  BY <1>3, <1>4 DEF f

\* The invariant holds at the start.
LEMMA InitOK == Init => IndInv
<1> SUFFICES ASSUME Init
             PROVE  IndInv
  OBVIOUS
<1>0. /\ MaxDelay \in Nat /\ MaxMutations \in Nat /\ MaxFaults \in Nat /\ MaxRequests \in Nat /\ Contents # {}
  BY ConfigBackupAssumption
<1>1. TimersOK
  BY <1>0 DEF Init, TimersOK, SeenHasTimers, NoTime, FailureCap
<1>2. \A t \in Threads : pc[t] = "rest" /\ loc[t] = NoLocals
  BY DEF Init
<1>3. ThreadsOK
  <2>1. pc \in [Threads -> Places]
    BY DEF Init, Places
  <2>2. DOMAIN NoLocals = Fields /\ NoLocals.then = "rest"
    BY DEF NoLocals, Fields
  <2>3. DOMAIN loc = Threads /\ torn = FALSE /\ up = TRUE /\ faults = 0 /\ requests = 0 /\ runLock = None /\ jobLock = None
    BY DEF Init
  <2>4. faults \in 0..MaxFaults /\ requests \in 0..MaxRequests
    BY <1>0, <2>3
  <2>5. torn \in BOOLEAN /\ up \in BOOLEAN
    BY <2>3
  <2>6. \A t \in Threads : DOMAIN loc[t] = Fields /\ loc[t].then \in {"rest", "due", "release"}
    BY <1>2, <2>2
  <2> QED
    BY <2>1, <2>3, <2>4, <2>5, <2>6, Zenon DEF ThreadsOK
<1>4. LocksOK
  BY <1>2 DEF LocksOK, HoldsLock, Running, Polling
<1>5. file = <<>> /\ reached = {} /\ archive = <<>> /\ wr = [w \in Writers |-> 0] /\ log = <<CHOOSE c \in Contents : TRUE>>
  BY DEF Init
<1>6. LogOK
  <2> DEFINE c == CHOOSE x \in Contents : TRUE
  <2>1. c \in Contents
    BY <1>0
  <2> HIDE DEF c
  <2>2. log \in Seq(Contents) /\ Len(log) = 1
    BY <1>5, <2>1 DEF c
  <2>3. archive \in Seq(Copies)
    BY <1>5
  <2> QED
    BY <1>0, <1>5, <2>2, <2>3 DEF LogOK, Copies
<1>7. JournalOK
  <2>1. WellFormed(file) /\ Knows(file, reached) /\ LastBackupExists
    BY <1>5, EmptyJournal DEF Knows, LastBackupExists
  <2>2. Settled = {}
    BY <1>5 DEF Settled
  <2> QED
    BY <2>1, <2>2 DEF JournalOK
<1>8. RunsOK
  <2>1. NoLocals.backup = NoBackup
    BY DEF NoLocals
  <2>2. \A t \in Threads : Outside(t)
    BY <1>2, <2>1 DEF Outside
  <2> QED
    BY <2>2, OutsideOK DEF RunsOK
<1>9. CopiesOK
  <2>1. DOMAIN archive = {}
    BY <1>5
  <2> QED
    BY <2>1 DEF CopiesOK, NoIdenticalCopies
<1> QED
  BY <1>1, <1>3, <1>4, <1>6, <1>7, <1>8, <1>9 DEF IndInv

\* Every step keeps the invariant.
LEMMA NextOK == IndInv /\ [Next]_vars => IndInv'
<1> SUFFICES ASSUME IndInv, [Next]_vars
             PROVE  IndInv'
  OBVIOUS
<1>0. TimersOK /\ ThreadsOK /\ LocksOK /\ LogOK /\ JournalOK /\ RunsOK /\ CopiesOK /\ WellFormed(file)
  BY DEF IndInv, JournalOK
<1>1. TimersOK'
  BY <1>0, TimersKept
<1>2. ThreadsOK' /\ LocksOK'
  BY <1>0, ThreadsKept
<1>3. LogOK'
  BY <1>0, LogKept
<1>4. JournalOK'
  BY <1>0, JournalKept
<1>5. RunsOK'
  BY <1>0, RunsKept
<1>6. CopiesOK'
  BY <1>0, CopiesKept
<1> QED
  BY <1>1, <1>2, <1>3, <1>4, <1>5, <1>6 DEF IndInv

\* The inductive invariant holds in every reachable state.
THEOREM Invariance == Spec => []IndInv
BY InitOK, NextOK, PTL DEF Spec

\* Type correctness of the journal, the timers, the locks and the threads.
THEOREM TypeCorrect == Spec => []TypeOK
<1>1. IndInv => TypeOK
  <2> SUFFICES ASSUME IndInv
               PROVE  TypeOK
    OBVIOUS
  <2>0. TimersOK /\ ThreadsOK /\ LogOK /\ WellFormed(file)
    BY DEF IndInv, JournalOK
  <2>1. \A i \in DOMAIN log : log[i] \in Contents
    BY <2>0 DEF LogOK
  <2>2. \A n \in DOMAIN file : file[n].type \in {"change", "commit", "checkpoint", "damaged"}
    BY <2>0 DEF WellFormed, LineOK
  <2>3. wr \in [Writers -> 0..(MaxMutations + 1)] /\ reached \subseteq 2..Len(log)
    BY <2>0 DEF LogOK
  <2> QED
    BY <2>0, <2>1, <2>2, <2>3, Zenon DEF TimersOK, ThreadsOK, TypeOK
<1> QED
  BY <1>1, Invariance, PTL

\* Entries are seen exactly when the timers run, whatever poll, run, success,
\* failure, crash and restart do to both (SeenHasTimers).
THEOREM TimersSafety == Spec => []SeenHasTimers
<1>1. IndInv => SeenHasTimers
  BY DEF IndInv, TimersOK
<1> QED
  BY <1>1, Invariance, PTL

\* The last backup that the journal names exists and has the hash it gives: torn
\* and repeated commits, and compaction, never leave a name without a backup
\* (LastBackupExists).
THEOREM LastBackupSafety == Spec => []LastBackupExists
<1>1. IndInv => LastBackupExists
  BY DEF IndInv, JournalOK
<1> QED
  BY <1>1, Invariance, PTL

\* When the journal has nothing pending, the last backup's hash is that of the config
\* at or after the newest mutation it heard of (IdleMeansCurrent).
THEOREM IdleSafety == Spec => []IdleMeansCurrent
<1>1. IndInv => IdleMeansCurrent
  <2> SUFFICES ASSUME IndInv, PendingSet(file) = {}, NEW m \in reached
               PROVE  \E j \in m..Len(log) : log[j] = LastBackup(file).hash
    BY DEF IdleMeansCurrent
  <2>1. JournalOK
    BY DEF IndInv
  <2>2. m \notin Owed(file)
    BY <2>1, OwedByIds DEF JournalOK
  <2> QED
    BY <2>1, <2>2 DEF JournalOK, Settled
<1> QED
  BY <1>1, Invariance, PTL

\* No mutation that reached the journal is lost: it is owed a backup, or a backup
\* holds the config at or after it (SettledIsCaptured).
THEOREM SettledSafety == Spec => []SettledIsCaptured
<1>1. IndInv => SettledIsCaptured
  <2> SUFFICES ASSUME IndInv, NEW m \in reached \ Owed(file)
               PROVE  \E b \in DOMAIN archive : \E j \in m..Len(log) : log[j] = log[archive[b].snap]
    BY DEF SettledIsCaptured
  <2>1. JournalOK /\ LogOK
    BY DEF IndInv
  <2>2. PICK j \in m..Len(log) : log[j] = LastBackup(file).hash
    BY <2>1 DEF JournalOK, Settled
  <2>3. log[j] \in Contents
    <3>1. m \in 2..Len(log) /\ Len(log) \in Nat /\ log \in Seq(Contents)
      BY <2>1 DEF LogOK
    <3>2. j \in 1..Len(log)
      BY <3>1
    <3> QED
      BY <3>1, <3>2
  <2>4. LastBackup(file).hash # NoHash
    BY <2>2, <2>3, ConfigBackupAssumption
  <2>5. LastBackup(file).backup \in DOMAIN archive /\ log[archive[LastBackup(file).backup].snap] = LastBackup(file).hash
    BY <2>1, <2>4 DEF JournalOK, LastBackupExists
  <2> QED
    BY <2>2, <2>5
<1> QED
  BY <1>1, Invariance, PTL

\* Without a fault no two consecutive backups of runs are identical
\* (NoIdenticalCopies).
THEOREM CopiesSafety == Spec => []NoIdenticalCopies
<1>1. IndInv => NoIdenticalCopies
  BY DEF IndInv, CopiesOK
<1> QED
  BY <1>1, Invariance, PTL

\* Only the commit of a run whose snapshot contains a mutation takes it off the
\* list of what is owed (OwedLeavesByCommit).
THEOREM OwedLeaves == Spec => OwedLeavesByCommit
<1> DEFINE Leaves == \A m \in Owed(file) \ Owed(file') :
                        \E t \in Threads : pc[t] = "commit" /\ pc'[t] # "commit" /\ loc[t].snap >= m
<1>1. IndInv /\ [Next]_vars => [Leaves]_vars
  <2> SUFFICES ASSUME IndInv, [Next]_vars, NEW m \in Owed(file), m \notin Owed(file')
               PROVE  \E t \in Threads : pc[t] = "commit" /\ pc'[t] # "commit" /\ loc[t].snap >= m
    OBVIOUS
  <2>0. ThreadsOK /\ LogOK /\ JournalOK /\ RunsOK
    BY DEF IndInv
  <2>1. file' # file
    OBVIOUS
  <2>2. ASSUME NEW w \in Writers, RecordChange(w) \/ RecordChangeFails(w)
        PROVE  FALSE
    <3>1. ChangeLanded(file, file', wr[w], reached, stamp)
      BY <2>0, <2>1, <2>2, WriterAppends
    <3> QED
      BY <3>1 DEF ChangeLanded
  <2>3. PICK t \in Threads : Commit(t) \/ CommitFails(t)
    BY <2>1, <2>2, DataSteps DEF data, Save, MakeBackup, ManualBackup
  <2>4. RunOK(t)
    BY <2>0 DEF RunsOK
  <2> DEFINE outcome == IF loc[t].backup = NoBackup THEN "noop" ELSE "backup"
  <2>5. /\ pc[t] = "commit"
        /\ \/ CommitLanded(file, file', loc[t].ids, outcome, log[loc[t].snap], loc[t].backup, reached, stamp)
           \/ SameJournal(file, file', reached, stamp)
    BY <2>0, <2>3, <2>4, RunAppends
  <2>6. pc'[t] # "commit"
    BY <2>0, <2>3, MoveCommit, MoveCommitFails
  <2>7. PICK id \in Range(loc[t].ids) : m \in CoversOf(id)
    BY <2>5 DEF CommitLanded, SameJournal
  <2>8. m <= loc[t].snap
    BY <2>4, <2>5, <2>7 DEF RunOK, Range
  <2>9. m \in Int /\ loc[t].snap \in Int
    <3>1. m \in reached
      BY <2>0, OwedIsKnown DEF JournalOK
    <3> QED
      BY <2>0, <2>4, <2>5, <3>1 DEF LogOK, RunOK
  <2> QED
    BY <2>5, <2>6, <2>8, <2>9
<1> QED
  BY <1>1, Invariance, PTL DEF Spec, OwedLeavesByCommit

(***************************************************************************)
(* The fingerprint: what poll() may skip.                                  *)
(***************************************************************************)

\* The overflow ids that exist when the journal has been written u times.
Issued(id, u) == id.k = "ovf" => id.n \in Nat /\ id.n < u
Dated(f, u) == \A id \in Entries(f) \union CommittedIds(f) : Issued(id, u)

\* What a thread carries from one step to the next is as old as its fingerprint
\* says, and no entry that a run has committed comes back before it is struck off
\* what was seen.
LocalOK(t) ==
    /\ loc[t].fp \in 0..stamp
    /\ pc[t] = "apply" /\ loc[t].fp = stamp => loc[t].pending = PendingSet(file)
    /\ pc[t] \in {"snapshot", "backup", "commit", "success"} =>
         \A i \in DOMAIN loc[t].ids : Issued(loc[t].ids[i], stamp)
    /\ pc[t] = "success" =>
         \A i \in DOMAIN loc[t].ids :
            CoversOf(loc[t].ids[i]) \subseteq reached /\ loc[t].ids[i] \notin PendingSet(file)
VouchOK == stamp \in Nat /\ fp \in 0..stamp /\ Dated(file, stamp) /\ \A t \in Threads : LocalOK(t)

\* The ids are split over enough records to name each of them.
LEMMA ChunkExists ==
    ASSUME NEW n \in Nat, NEW i \in 1..n, NEW size \in Nat \ {0}
    PROVE  (i - 1) \div size + 1 \in 1..((n + size - 1) \div size)
<1> DEFINE q == (i - 1) \div size
<1> DEFINE c == (n + size - 1) \div size
<1>1. q \in Int /\ size * q <= i - 1 /\ i - 1 < size * q + size
  OBVIOUS
<1>2. c \in Int /\ n + size - 1 < size * c + size
  OBVIOUS
<1> HIDE DEF q, c
<1>3. ASSUME q < 0
      PROVE  FALSE
  <2>1. q + 1 <= 0 /\ size * (q + 1) = size * q + size
    BY <1>1, <1>3
  <2>2. size * (q + 1) <= 0
    BY <1>1, <2>1
  <2> QED
    BY <1>1, <2>1, <2>2
<1>4. ASSUME c <= q
      PROVE  FALSE
  <2>1. q - c >= 0 /\ size * (q - c) = size * q - size * c
    BY <1>1, <1>2, <1>4
  <2>2. size * (q - c) >= 0
    BY <1>1, <1>2, <2>1
  <2>3. size * q \in Int /\ size * c \in Int
    BY <1>1, <1>2
  <2> QED
    BY <1>1, <1>2, <2>1, <2>2, <2>3
<1>5. q + 1 \in 1..c
  BY <1>1, <1>2, <1>3, <1>4
<1> QED
  BY <1>5 DEF q, c

\* A whole commit names every id it was given.
LEMMA CommitNamesAll ==
    ASSUME NEW ids, IsSeq(ids), NEW outcome, NEW hash, NEW backup,
           NEW lines, lines = CommitLines(ids, outcome, hash, backup)
    PROVE  Range(ids) \subseteq CommittedIds(lines)
<1> DEFINE n == Len(ids)
<1> DEFINE count == IF n = 0 THEN 1 ELSE (n + CommitIdsPerRecord - 1) \div CommitIdsPerRecord
<1> DEFINE Chunk(c) == {ids[i] : i \in {j \in 1..n : (j - 1) \div CommitIdsPerRecord = c - 1}}
<1>1. n \in Nat /\ DOMAIN ids = 1..n /\ CommitIdsPerRecord \in Nat \ {0}
  BY JournalAssumption DEF IsSeq
<1>2. lines = [c \in 1..count |-> CommitLine(Chunk(c), outcome, hash, backup)]
  BY DEF CommitLines
<1>3. ASSUME NEW i \in 1..n
      PROVE  ids[i] \in CommittedIds(lines)
  <2> DEFINE q == (i - 1) \div CommitIdsPerRecord
  <2>1. q + 1 \in 1..count
    BY <1>1, ChunkExists
  <2>2. q \in Int /\ (q + 1) - 1 = q
    BY <1>1
  <2>3. ids[i] \in Chunk(q + 1)
    BY <2>2
  <2> HIDE DEF Chunk, count, q
  <2>4. lines[q + 1] = CommitLine(Chunk(q + 1), outcome, hash, backup) /\ q + 1 \in DOMAIN lines
    BY <1>2, <2>1
  <2>5. lines[q + 1].type = "commit" /\ lines[q + 1].ids = Chunk(q + 1)
    BY <2>4 DEF CommitLine
  <2> QED
    BY <2>3, <2>4, <2>5 DEF CommittedIds
<1> QED
  BY <1>1, <1>3 DEF Range

\* After a whole commit none of its entries is pending, also when a compaction
\* follows it.
LEMMA CommitSettles ==
    ASSUME NEW f, WellFormed(f), NEW R, Knows(f, R),
           NEW ids, IsSeq(ids), \A id \in Range(ids) : CoversOf(id) \subseteq R,
           NEW u \in Nat, \A id \in Range(ids) : Issued(id, u),
           NEW outcome, NEW hash, NEW backup, NEW lines, lines = CommitLines(ids, outcome, hash, backup)
    PROVE  \A id \in Range(ids) : id \notin PendingSet(WithinBudget(f \o lines, u))
<1> DEFINE g == f \o lines
<1>1. IsCommit(lines, ids, outcome, hash, backup) /\ Len(lines) \in Nat \ {0}
  BY CommitRecords
<1>2. WellFormed(lines) /\ \A k \in DOMAIN lines : lines[k].type # "damaged"
  BY <1>1 DEF WellFormed, IsCommit, LineOK
<1>3. CommittedIds(g) = CommittedIds(f) \union CommittedIds(lines)
  BY <1>2, JoinedLines
<1>4. WellFormed(g) /\ Knows(g, R)
  BY <1>1, CommitWritten DEF CommitLanded
<1>5. Range(ids) \subseteq CommittedIds(g)
  BY <1>3, CommitNamesAll
<1> HIDE DEF g
<1>6. SamePending(g, WithinBudget(g, u), u)
  BY <1>4, WithinBudgetKeeps
<1>7. ASSUME NEW id \in Range(ids), id \in PendingSet(WithinBudget(g, u))
      PROVE  FALSE
  <2>1. id \notin PendingSet(g)
    BY <1>5, PendingIds
  <2>2. id.k = "ovf" /\ id.n = u
    BY <1>6, <1>7, <2>1 DEF SamePending, Overflow
  <2>3. id.n < u
    BY <2>2 DEF Issued
  <2> QED
    BY <2>2, <2>3
<1> QED
  BY <1>7 DEF g

\* A write brings in no overflow id from the future.
LEMMA DatedKept ==
    ASSUME NEW u \in Nat, NEW f, NEW h, Dated(f, u), NEW given, \A id \in given : Issued(id, u), BringsIn(f, h, given, u)
    PROVE  Dated(h, u + 1)
BY DEF Dated, Issued, BringsIn

\* What a writer's append does to the fingerprint and to the pending ids.
LEMMA WriterStamps ==
    ASSUME LogOK, JournalOK, NEW w \in Writers, RecordChange(w) \/ RecordChangeFails(w)
    PROVE  /\ UNCHANGED <<pc, loc, seen, fp>> /\ reached \subseteq reached' /\ wr[w] \notin reached
           /\ stamp' = stamp + 1 \/ (stamp' = stamp /\ file' = file)
           /\ BringsIn(file, file', {}, stamp)
           /\ \A id \in PendingSet(file') : id \in PendingSet(file) \/ Overflow(id, stamp) \/ wr[w] \in CoversOf(id)
           /\ PendingSet(file) # {} => PendingSet(file') # {}
<1>1. UNCHANGED <<pc, loc, seen, fp>>
  BY DEF RecordChange, RecordChangeFails, coalescer
<1>2. stamp' = stamp + 1 \/ (stamp' = stamp /\ file' = file)
  BY DEF RecordChange, RecordChangeFails, Broken, Appended
<1>3. /\ wr[w] \notin reached
      /\ \/ file' = file /\ reached' = reached
         \/ ChangeLanded(file, file', wr[w], reached, stamp) /\ reached' = reached \union {wr[w]}
  BY WriterAppends
<1>4. CASE file' = file /\ reached' = reached
  BY <1>1, <1>2, <1>3, <1>4 DEF BringsIn
<1>5. CASE ChangeLanded(file, file', wr[w], reached, stamp) /\ reached' = reached \union {wr[w]}
  <2>1. PendingSet(file') # {}
    BY <1>5, OwedByIds DEF ChangeLanded
  <2> QED
    BY <1>1, <1>2, <1>3, <1>5, <2>1 DEF ChangeLanded
<1> QED
  BY <1>3, <1>4, <1>5

\* What a run's commit does to them.
LEMMA RunStamps ==
    ASSUME LogOK, JournalOK, VouchOK, NEW t \in Threads, RunOK(t), Commit(t) \/ CommitFails(t)
    PROVE  /\ UNCHANGED <<reached, seen, fp>> /\ pc[t] = "commit"
           /\ stamp' = stamp + 1 \/ (stamp' = stamp /\ file' = file)
           /\ Dated(file', stamp') /\ stamp' \in Nat
           /\ Commit(t) => \A i \in DOMAIN loc[t].ids : /\ Issued(loc[t].ids[i], stamp')
                                                        /\ CoversOf(loc[t].ids[i]) \subseteq reached
                                                        /\ loc[t].ids[i] \notin PendingSet(file')
<1> DEFINE ids == loc[t].ids
<1> DEFINE outcome == IF loc[t].backup = NoBackup THEN "noop" ELSE "backup"
<1> DEFINE hash == log[loc[t].snap]
<1> DEFINE backup == loc[t].backup
<1> DEFINE lines == CommitLines(ids, outcome, hash, backup)
<1>1. UNCHANGED <<reached, seen, fp>> /\ pc[t] = "commit"
  BY DEF Commit, CommitFails, Step, coalescer
<1>2. stamp' = stamp + 1 \/ (stamp' = stamp /\ file' = file)
  BY DEF Commit, CommitFails, Broken, Appended
<1>3. IsSeq(ids) /\ \A i \in DOMAIN ids : CoversOf(ids[i]) \subseteq reached /\ Issued(ids[i], stamp)
  BY <1>1 DEF RunOK, VouchOK, LocalOK
<1>4. \A id \in Range(ids) : CoversOf(id) \subseteq reached /\ Issued(id, stamp)
  BY <1>3 DEF Range
<1>5. WellFormed(file) /\ Knows(file, reached) /\ stamp \in Nat /\ Dated(file, stamp)
  BY DEF JournalOK, VouchOK
<1>6. BringsIn(file, file', Range(ids), stamp)
  <2>1. \/ CommitLanded(file, file', ids, outcome, hash, backup, reached, stamp)
        \/ SameJournal(file, file', reached, stamp)
    BY RunAppends
  <2> QED
    BY <2>1 DEF CommitLanded, SameJournal, BringsIn
<1>7. Dated(file', stamp') /\ stamp' \in Nat
  <2>1. Dated(file', stamp + 1)
    BY <1>4, <1>5, <1>6, DatedKept
  <2> QED
    BY <1>2, <1>5, <2>1
<1>8. ASSUME Commit(t)
      PROVE  \A i \in DOMAIN ids : /\ Issued(ids[i], stamp') /\ CoversOf(ids[i]) \subseteq reached
                                   /\ ids[i] \notin PendingSet(file')
  <2>1. file' = WithinBudget(file \o lines, stamp) /\ stamp' = stamp + 1
    BY <1>8 DEF Commit, Appended, AppendOk, RunCommitLines
  <2> HIDE DEF ids, lines, outcome, hash, backup
  <2>2. \A id \in Range(ids) : id \notin PendingSet(file')
    BY <1>3, <1>4, <1>5, <2>1, CommitSettles DEF lines
  <2>3. \A i \in DOMAIN ids : ids[i] \in Range(ids)
    BY DEF Range
  <2>4. \A i \in DOMAIN ids : Issued(ids[i], stamp')
    BY <1>3, <1>5, <2>1 DEF Issued
  <2> QED
    BY <1>3, <2>2, <2>3, <2>4
<1> QED
  BY <1>1, <1>2, <1>7, <1>8

\* A thread that stays where it is while others write: what it carries grows stale
\* by its number, and no id of a commit comes back.
LEMMA LocalFrame ==
    ASSUME NEW t \in Threads, LocalOK(t), stamp \in Nat, pc'[t] = pc[t], loc'[t] = loc[t], reached \subseteq reached',
           \/ stamp' = stamp /\ file' = file
           \/ /\ stamp' = stamp + 1
              /\ pc[t] = "success" => \A id \in PendingSet(file') :
                    \/ id \in PendingSet(file) \/ Overflow(id, stamp)
                    \/ \E m : m \in CoversOf(id) /\ m \notin reached
    PROVE  LocalOK(t)'
<1>1. CASE stamp' = stamp /\ file' = file
  BY <1>1 DEF LocalOK, Issued
<1>2. CASE /\ stamp' = stamp + 1
           /\ pc[t] = "success" => \A id \in PendingSet(file') :
                 \/ id \in PendingSet(file) \/ Overflow(id, stamp)
                 \/ \E m : m \in CoversOf(id) /\ m \notin reached
  <2>1. loc'[t].fp \in 0..stamp' /\ loc'[t].fp # stamp'
    BY <1>2 DEF LocalOK
  <2>2. ASSUME pc[t] \in {"snapshot", "backup", "commit", "success"}, NEW i \in DOMAIN loc[t].ids
        PROVE  Issued(loc[t].ids[i], stamp')
    BY <1>2, <2>2 DEF LocalOK, Issued
  <2>3. ASSUME pc[t] = "success", NEW i \in DOMAIN loc[t].ids
        PROVE  CoversOf(loc[t].ids[i]) \subseteq reached' /\ loc[t].ids[i] \notin PendingSet(file')
    <3>1. /\ CoversOf(loc[t].ids[i]) \subseteq reached /\ loc[t].ids[i] \notin PendingSet(file)
          /\ Issued(loc[t].ids[i], stamp)
      BY <2>3 DEF LocalOK
    <3>2. ~Overflow(loc[t].ids[i], stamp)
      BY <3>1 DEF Issued, Overflow
    <3> QED
      BY <1>2, <2>3, <3>1, <3>2
  <2> QED
    BY <2>1, <2>2, <2>3 DEF LocalOK
<1> QED
  BY <1>1, <1>2

\* A thread that arrives at a place where nothing but its fingerprint is asked for.
LEMMA LocalArrives ==
    ASSUME NEW s \in Threads, LocalOK(s), stamp \in Nat, stamp' \in Nat, stamp <= stamp',
           pc'[s] \notin {"apply", "snapshot", "backup", "commit", "success"},
           loc'[s].fp = loc[s].fp \/ loc'[s].fp = stamp \/ loc'[s].fp = NoFile
    PROVE  LocalOK(s)'
BY DEF LocalOK, NoFile

\* The entries that a run reads are pending ones.
LEMMA PendingAreIssued ==
    ASSUME NEW f, WellFormed(f), NEW u, Dated(f, u)
    PROVE  \A i \in DOMAIN Pending(f) : Issued(Pending(f)[i], u)
<1> DEFINE lines == PendingLines(f)
<1> DEFINE a == Ascending(lines)
<1> DEFINE size == Cardinality(lines)
<1> DEFINE p == Pending(f)
<1>1. lines \in SUBSET EntryLines(f) /\ lines \in SUBSET DOMAIN f
  BY DEF PendingLines, Firsts, Uncommitted, EntryLines
<1>2. p = [i \in DOMAIN a |-> EntryId(f, a[i])]
  BY DEF Pending
<1> HIDE DEF lines, p
<1>3. lines \in SUBSET Nat /\ IsFiniteSet(lines)
  BY <1>1, LinesFinite
<1>4. a \in [1..size -> lines]
  BY <1>3, AscendingSet
<1> HIDE DEF a, size
<1>5. ASSUME NEW i \in DOMAIN p
      PROVE  Issued(p[i], u)
  <2>1. p[i] = EntryId(f, a[i]) /\ a[i] \in EntryLines(f)
    BY <1>1, <1>2, <1>4
  <2>2. p[i] \in Entries(f)
    BY <2>1 DEF Entries
  <2> QED
    BY <2>2 DEF Dated
<1> QED
  BY <1>5 DEF p

\* Every step keeps it.
LEMMA VouchKept ==
    ASSUME ThreadsOK, LocksOK, LogOK, JournalOK, RunsOK, VouchOK, [Next]_vars
    PROVE  VouchOK'
<1>0. /\ stamp \in Nat /\ fp \in 0..stamp /\ Dated(file, stamp) /\ WellFormed(file)
      /\ \A t \in Threads : LocalOK(t) /\ RunOK(t) /\ loc[t].then \in {"rest", "due", "release"}
  BY DEF VouchOK, JournalOK, RunsOK, ThreadsOK
<1>1. ASSUME UNCHANGED <<file, stamp, reached>>, fp' \in 0..stamp, NEW s \in Threads, Moves(s), LocalOK(s)'
      PROVE  VouchOK'
  <2>1. ASSUME NEW t \in Threads \ {s}
        PROVE  LocalOK(t)'
    BY <1>0, <1>1, LocalFrame DEF Moves
  <2>2. Dated(file', stamp') /\ stamp' \in Nat /\ fp' \in 0..stamp'
    BY <1>0, <1>1
  <2> QED
    BY <1>1, <2>1, <2>2 DEF VouchOK, Dated
<1>2. ASSUME UNCHANGED <<file, stamp, reached, fp>>, NEW s \in Threads, Moves(s),
             pc'[s] \notin {"apply", "snapshot", "backup", "commit", "success"},
             loc'[s].fp = loc[s].fp \/ loc'[s].fp = stamp \/ loc'[s].fp = NoFile
      PROVE  VouchOK'
  <2>1. LocalOK(s)'
    BY <1>0, <1>2, LocalArrives
  <2> QED
    BY <1>0, <1>1, <1>2, <2>1
<1>3. ASSUME UNCHANGED <<file, stamp, reached, fp, pc, loc>>
      PROVE  VouchOK'
  BY <1>3 DEF VouchOK, LocalOK, Dated, Issued
<1>4. ASSUME NEW w \in Writers, RecordChange(w) \/ RecordChangeFails(w)
      PROVE  VouchOK'
  <2>1. /\ UNCHANGED <<pc, loc, seen, fp>> /\ reached \subseteq reached' /\ wr[w] \notin reached
        /\ stamp' = stamp + 1 \/ (stamp' = stamp /\ file' = file)
        /\ BringsIn(file, file', {}, stamp)
        /\ \A id \in PendingSet(file') : id \in PendingSet(file) \/ Overflow(id, stamp) \/ wr[w] \in CoversOf(id)
    BY <1>4, WriterStamps
  <2>2. \A t \in Threads : LocalOK(t)'
    BY <1>0, <2>1, LocalFrame
  <2>3. Dated(file', stamp + 1)
    BY <1>0, <2>1, DatedKept
  <2>4. Dated(file', stamp') /\ stamp' \in Nat /\ fp' \in 0..stamp'
    BY <1>0, <2>1, <2>3
  <2> QED
    BY <2>2, <2>4 DEF VouchOK, Dated
<1>5. ASSUME NEW s \in Threads, Poll(s)
      PROVE  VouchOK'
  <2>1. CASE PollStat(s)
    <3>1. Moves(s) /\ pc'[s] = "compare" /\ loc'[s].fp = stamp
      BY <2>1, MovePollStat
    <3>2. UNCHANGED <<file, stamp, reached, fp>>
      BY <2>1 DEF PollStat, coalescer
    <3> QED
      BY <1>2, <3>1, <3>2
  <2>2. CASE PollCompare(s)
    <3>1. Moves(s) /\ pc'[s] \in {"read", "rest", "due", "release"} /\ loc' = loc
      BY <1>0, <2>2, MovePollCompare
    <3>2. UNCHANGED <<file, stamp, reached, fp>>
      BY <2>2 DEF PollCompare, coalescer
    <3> QED
      BY <1>2, <3>1, <3>2
  <2>3. CASE PollRead(s)
    <3>1. Moves(s) /\ pc'[s] = "apply" /\ loc'[s].fp = loc[s].fp /\ loc'[s].pending = PendingSet(file)
      BY <2>3, MovePollRead
    <3>2. UNCHANGED <<file, stamp, reached, fp>>
      BY <2>3 DEF PollRead, coalescer
    <3>3. LocalOK(s)'
      BY <1>0, <3>1, <3>2 DEF LocalOK
    <3> QED
      BY <1>0, <1>1, <3>1, <3>2, <3>3
  <2>4. CASE PollApply(s)
    <3>1. Moves(s) /\ pc'[s] \in {"rest", "due", "release"} /\ loc'[s].fp = NoFile
      BY <1>0, <2>4, MovePollApply
    <3>2. UNCHANGED <<file, stamp, reached>> /\ fp' = loc[s].fp
      BY <2>4 DEF PollApply
    <3>3. LocalOK(s)'
      BY <1>0, <3>1, <3>2, LocalArrives
    <3> QED
      BY <1>0, <1>1, <3>1, <3>2, <3>3 DEF LocalOK
  <2> QED
    BY <1>5, <2>1, <2>2, <2>3, <2>4 DEF Poll
<1>6. ASSUME NEW s \in Threads, Run(s), ~Commit(s), ~CommitFails(s)
      PROVE  VouchOK'
  <2>0. UNCHANGED <<file, stamp, reached, fp>>
    BY <1>6 DEF Run, AcquireBusy, Acquire, ReadPending, ClearSeen, Snapshot, MakeBackup, RunFails,
                RecordSuccess, RecordFailure, Release, ManualBackup, ManualBackupFails, coalescer
  <2>1. CASE \/ AcquireBusy(s) \/ Acquire(s) \/ ClearSeen(s) \/ RunFails(s) \/ RecordSuccess(s)
             \/ RecordFailure(s) \/ Release(s) \/ ManualBackup(s) \/ ManualBackupFails(s)
    <3>1. /\ Moves(s) /\ pc'[s] \in {"rest", "pending", "release", "failure", "stat", "manual"}
          /\ loc'[s].fp = loc[s].fp \/ loc'[s].fp = NoFile
      BY <2>1, MoveAcquireBusy, MoveAcquire, MoveClearSeen, MoveRunFails, MoveRecordSuccess, MoveRecordFailure,
         MoveRelease, MoveManualBackup
    <3> QED
      BY <1>2, <2>0, <3>1
  <2>2. CASE ReadPending(s)
    <3>1. Moves(s) /\ pc'[s] \in {"clear", "snapshot"} /\ loc'[s].fp = loc[s].fp /\ loc'[s].ids = Pending(file)
      BY <2>2, MoveReadPending
    <3>2. \A i \in DOMAIN Pending(file) : Issued(Pending(file)[i], stamp)
      BY <1>0, PendingAreIssued
    <3>3. LocalOK(s)'
      BY <1>0, <2>0, <3>1, <3>2 DEF LocalOK, Issued
    <3> QED
      BY <1>0, <1>1, <2>0, <3>1, <3>3
  <2>3. CASE Snapshot(s) \/ MakeBackup(s)
    <3>1. /\ Moves(s) /\ pc[s] \in {"snapshot", "backup"} /\ pc'[s] \in {"backup", "commit"}
          /\ loc'[s].fp = loc[s].fp /\ loc'[s].ids = loc[s].ids
      BY <2>3, MoveSnapshot, MoveMakeBackup
    <3>2. LocalOK(s)'
      BY <1>0, <2>0, <3>1 DEF LocalOK, Issued
    <3> QED
      BY <1>0, <1>1, <2>0, <3>1, <3>2
  <2> QED
    BY <1>6, <2>1, <2>2, <2>3 DEF Run
<1>7. ASSUME NEW s \in Threads, Commit(s) \/ CommitFails(s)
      PROVE  VouchOK'
  <2>1. /\ UNCHANGED <<reached, seen, fp>> /\ pc[s] = "commit"
        /\ stamp' = stamp + 1 \/ (stamp' = stamp /\ file' = file)
        /\ Dated(file', stamp') /\ stamp' \in Nat
        /\ Commit(s) => \A i \in DOMAIN loc[s].ids : /\ Issued(loc[s].ids[i], stamp')
                                                     /\ CoversOf(loc[s].ids[i]) \subseteq reached
                                                     /\ loc[s].ids[i] \notin PendingSet(file')
    BY <1>0, <1>7, RunStamps
  <2>2. Moves(s) /\ loc' = loc /\ (pc'[s] = "failure" \/ (pc'[s] = "success" /\ Commit(s)))
    BY <1>7, MoveCommit, MoveCommitFails
  <2>3. ASSUME NEW t \in Threads \ {s}
        PROVE  LocalOK(t)'
    <3>1. pc[t] # "success"
      BY <2>1 DEF LocksOK, HoldsLock, Running
    <3> QED
      BY <1>0, <2>1, <2>2, <3>1, LocalFrame DEF Moves
  <2>4. stamp <= stamp'
    BY <1>0, <2>1
  <2>5. LocalOK(s)'
    <3>1. CASE pc'[s] = "failure"
      BY <1>0, <2>1, <2>2, <2>4, <3>1, LocalArrives
    <3>2. CASE pc'[s] = "success" /\ Commit(s)
      <4>1. loc'[s].fp \in 0..stamp'
        BY <1>0, <2>1, <2>2, <2>4 DEF LocalOK
      <4> QED
        BY <2>1, <2>2, <3>2, <4>1 DEF LocalOK
    <3> QED
      BY <2>2, <3>1, <3>2
  <2>6. fp' \in 0..stamp'
    BY <1>0, <2>1, <2>4
  <2> QED
    BY <2>1, <2>3, <2>5, <2>6 DEF VouchOK, Dated
<1>8. ASSUME Crash
      PROVE  VouchOK'
  <2>1. /\ UNCHANGED <<file, stamp, reached>> /\ fp' = NoFile
        /\ \A t \in Threads : pc'[t] = "rest" /\ loc'[t] = NoLocals
    BY <1>8 DEF Crash
  <2>2. NoLocals.fp = NoFile
    BY DEF NoLocals
  <2>3. \A t \in Threads : LocalOK(t)'
    BY <1>0, <2>1, <2>2 DEF LocalOK, NoFile
  <2> QED
    BY <1>0, <2>1, <2>3 DEF VouchOK, Dated, NoFile
<1>9. ASSUME Restart
      PROVE  VouchOK'
  <2>1. UNCHANGED <<file, stamp, reached, pc, loc>> /\ fp' = stamp
    BY <1>9 DEF Restart
  <2>2. \A t \in Threads : LocalOK(t)'
    BY <1>0, <2>1 DEF LocalOK, Issued
  <2> QED
    BY <1>0, <2>1, <2>2 DEF VouchOK, Dated
<1>10. ASSUME (\E w \in Writers : Save(w)) \/ TimePasses \/ UNCHANGED vars
       PROVE  VouchOK'
  <2>1. UNCHANGED <<file, stamp, reached, fp, pc, loc>>
    BY <1>10 DEF Save, TimePasses, vars, coalescer
  <2> QED
    BY <1>3, <2>1
<1>11. ASSUME TickStart \/ TickDue \/ (\E t \in Viewers : ViewStart(t)) \/ (\E t \in Workers : StartRun(t))
       PROVE  VouchOK'
  <2>1. UNCHANGED <<file, stamp, reached, fp>>
    BY <1>11 DEF TickStart, TickDue, ViewStart, StartRun, coalescer
  <2>2. Ticker \in Threads /\ Viewers \subseteq Threads /\ Workers \subseteq Threads
    BY DEF Threads
  <2>3. CASE TickStart
    BY <1>2, <2>1, <2>2, <2>3, MoveTickStart
  <2>4. CASE TickDue
    <3>1. Moves(Ticker) /\ pc'[Ticker] \in {"acquire", "rest"} /\ loc' = loc
      BY <2>4, MoveTickDue
    <3> QED
      BY <1>2, <2>1, <2>2, <3>1
  <2>5. ASSUME NEW t \in Viewers, ViewStart(t)
        PROVE  VouchOK'
    BY <1>2, <2>1, <2>2, <2>5, MoveViewStart
  <2>6. ASSUME NEW t \in Workers, StartRun(t)
        PROVE  VouchOK'
    <3>1. Moves(t) /\ pc'[t] = "acquire" /\ loc' = loc
      BY <2>6, MoveStartRun
    <3> QED
      BY <1>2, <2>1, <2>2, <3>1
  <2> QED
    BY <1>11, <2>3, <2>4, <2>5, <2>6
<1> QED
  BY <1>4, <1>5, <1>6, <1>7, <1>8, <1>9, <1>10, <1>11, Zenon DEF Next

\* One step: only a run that read an empty journal forgets.
LEMMA StepVouches ==
    ASSUME ThreadsOK, VouchOK, LogOK, JournalOK, RunsOK, FingerprintVouches, [Next]_vars
    PROVE  FingerprintVouches' \/ \E t \in Threads : pc[t] = "clear" /\ pc'[t] = "release"
<1>0. /\ stamp \in Nat /\ fp \in 0..stamp
      /\ \A t \in Threads : LocalOK(t) /\ RunOK(t)
  BY DEF VouchOK, RunsOK
<1>1. ASSUME UNCHANGED <<file, stamp, seen, fp>>
      PROVE  FingerprintVouches'
  BY <1>1 DEF FingerprintVouches
<1>2. ASSUME UNCHANGED <<seen, fp>>, stamp' = stamp + 1 \/ (stamp' = stamp /\ file' = file)
      PROVE  FingerprintVouches'
  <2>1. CASE stamp' = stamp + 1
    BY <1>0, <1>2, <2>1 DEF FingerprintVouches
  <2> QED
    BY <1>1, <1>2, <2>1
<1>3. ASSUME NEW w \in Writers, RecordChange(w) \/ RecordChangeFails(w)
      PROVE  FingerprintVouches'
  BY <1>2, <1>3, WriterStamps
<1>4. ASSUME NEW s \in Threads, Commit(s) \/ CommitFails(s)
      PROVE  FingerprintVouches'
  BY <1>0, <1>2, <1>4, RunStamps
<1>5. ASSUME NEW s \in Threads, PollApply(s)
      PROVE  FingerprintVouches'
  <2>1. pc[s] = "apply" /\ UNCHANGED <<file, stamp>> /\ fp' = loc[s].fp /\ seen' = loc[s].pending
    BY <1>5 DEF PollApply, Step
  <2>2. loc[s].fp = stamp => loc[s].pending = PendingSet(file)
    BY <1>0, <2>1 DEF LocalOK
  <2> QED
    BY <2>1, <2>2 DEF FingerprintVouches
<1>6. ASSUME NEW s \in Threads, RecordSuccess(s)
      PROVE  FingerprintVouches'
  <2>1. /\ pc[s] = "success" /\ UNCHANGED <<file, stamp, fp>>
        /\ seen' = seen \ {loc[s].ids[i] : i \in DOMAIN loc[s].ids}
    BY <1>6 DEF RecordSuccess, Step
  <2>2. \A i \in DOMAIN loc[s].ids : loc[s].ids[i] \notin PendingSet(file)
    BY <1>0, <2>1 DEF LocalOK
  <2> QED
    BY <2>1, <2>2 DEF FingerprintVouches
<1>7. ASSUME NEW s \in Threads, ClearSeen(s)
      PROVE  \E t \in Threads : pc[t] = "clear" /\ pc'[t] = "release"
  BY <1>7, MoveClearSeen
<1>8. ASSUME Crash \/ Restart
      PROVE  FingerprintVouches'
  BY <1>8 DEF Crash, Restart, FingerprintVouches
<1>9. ASSUME NEW s \in Threads, Poll(s), ~PollApply(s)
      PROVE  FingerprintVouches'
  <2>1. UNCHANGED <<file, stamp, seen, fp>>
    BY <1>9 DEF Poll, PollStat, PollCompare, PollRead, coalescer
  <2> QED
    BY <1>1, <2>1
<1>10. ASSUME NEW s \in Threads, Run(s), ~Commit(s), ~CommitFails(s), ~RecordSuccess(s), ~ClearSeen(s)
       PROVE  FingerprintVouches'
  <2>1. UNCHANGED <<file, stamp, seen, fp>>
    BY <1>10 DEF Run, AcquireBusy, Acquire, ReadPending, Snapshot, MakeBackup, RunFails,
                 RecordFailure, Release, ManualBackup, ManualBackupFails, coalescer
  <2> QED
    BY <1>1, <2>1
<1>11. ASSUME \/ (\E w \in Writers : Save(w)) \/ TimePasses \/ UNCHANGED vars \/ TickStart \/ TickDue
              \/ (\E t \in Viewers : ViewStart(t)) \/ (\E t \in Workers : StartRun(t))
       PROVE  FingerprintVouches'
  <2>1. UNCHANGED <<file, stamp, seen, fp>>
    BY <1>11 DEF Save, TimePasses, vars, TickStart, TickDue, ViewStart, StartRun, coalescer
  <2> QED
    BY <1>1, <2>1
<1> QED
  BY <1>3, <1>4, <1>5, <1>6, <1>7, <1>8, <1>9, <1>10, <1>11, Zenon DEF Next

\* At the start nothing was read and nothing issued.
LEMMA VouchInit == Init => VouchOK /\ FingerprintVouches
<1> SUFFICES ASSUME Init
             PROVE  VouchOK /\ FingerprintVouches
  OBVIOUS
<1>1. file = <<>> /\ stamp = 0 /\ fp = 0 /\ \A t \in Threads : pc[t] = "rest" /\ loc[t] = NoLocals
  BY DEF Init, NoFile
<1>2. NoLocals.fp = 0
  BY DEF NoLocals, NoFile
<1>3. Dated(file, stamp)
  BY <1>1, EmptyJournal DEF Dated
<1> QED
  BY <1>1, <1>2, <1>3 DEF VouchOK, LocalOK, FingerprintVouches, NoFile

\* What threads carry is as old as its fingerprint says, in every reachable state.
THEOREM VouchInvariance == Spec => [](IndInv /\ VouchOK)
<1>1. Init => IndInv /\ VouchOK
  BY InitOK, VouchInit
<1>2. (IndInv /\ VouchOK) /\ [Next]_vars => (IndInv /\ VouchOK)'
  <2>1. ASSUME IndInv, VouchOK, [Next]_vars
        PROVE  VouchOK'
    BY <2>1, VouchKept DEF IndInv
  <2> QED
    BY <2>1, NextOK
<1> QED
  BY <1>1, <1>2, PTL DEF Spec

\* However polls, runs, writers, crashes and restarts interleave, only one step
\* makes poll() skip an entry nobody has seen: a run that read an empty journal and
\* clears what was seen since (OnlyIdleRunForgets).
THEOREM OnlyIdleForgets == Spec => OnlyIdleRunForgets
<1> DEFINE Kept == FingerprintVouches =>
                     FingerprintVouches' \/ \E t \in Threads : pc[t] = "clear" /\ pc'[t] = "release"
<1>1. IndInv /\ VouchOK /\ [Next]_vars => [Kept]_vars
  BY StepVouches DEF IndInv
<1> QED
  BY <1>1, VouchInvariance, PTL DEF Spec, OnlyIdleRunForgets

\* A ticker that is alone: what it has seen or read as pending is still pending
\* when it looks again, so that its runs never find an empty journal.
AloneOK ==
    /\ fp # NoFile /\ fp = stamp /\ seen # {} => PendingSet(file) # {}
    /\ pc[Ticker] = "compare" /\ loc[Ticker].fp # NoFile /\ loc[Ticker].fp = fp /\ seen # {} => PendingSet(file) # {}
    /\ pc[Ticker] = "apply" /\ loc[Ticker].pending # {} => PendingSet(file) # {}
    /\ pc[Ticker] \in {"due", "acquire", "pending"} /\ seen # {} => PendingSet(file) # {}
    /\ pc[Ticker] \in {"acquire", "pending"} => seen # {}
    /\ pc[Ticker] # "clear"

\* Every step keeps that.
LEMMA AloneKept ==
    ASSUME Threads = {Ticker}, Viewers = {}, Workers = {},
           ThreadsOK, LogOK, JournalOK, RunsOK, VouchOK, AloneOK, [Next]_vars
    PROVE  AloneOK'
<1> DEFINE T == Ticker
<1>0. /\ stamp \in Nat /\ fp \in 0..stamp /\ T \in Threads /\ LocalOK(T) /\ RunOK(T)
      /\ loc[T].then \in {"rest", "due", "release"}
  BY DEF VouchOK, RunsOK, ThreadsOK, Threads
<1>1. ASSUME UNCHANGED <<file, stamp, seen, fp, pc, loc>>
      PROVE  AloneOK'
  BY <1>1 DEF AloneOK
<1>2. ASSUME UNCHANGED <<file, stamp, seen, fp>>, pc'[T] \notin {"compare", "apply", "due", "acquire", "pending", "clear"}
      PROVE  AloneOK'
  BY <1>2 DEF AloneOK
<1>3. ASSUME NEW w \in Writers, RecordChange(w) \/ RecordChangeFails(w)
      PROVE  AloneOK'
  <2>1. /\ UNCHANGED <<pc, loc, seen, fp>>
        /\ stamp' = stamp + 1 \/ (stamp' = stamp /\ file' = file)
        /\ PendingSet(file) # {} => PendingSet(file') # {}
    BY <1>3, WriterStamps
  <2>2. CASE stamp' = stamp + 1
    BY <1>0, <2>1, <2>2 DEF AloneOK
  <2> QED
    BY <1>1, <2>1, <2>2 DEF AloneOK
<1>4. ASSUME Commit(T) \/ CommitFails(T)
      PROVE  AloneOK'
  <2>1. UNCHANGED <<seen, fp>> /\ (stamp' = stamp + 1 \/ (stamp' = stamp /\ file' = file))
    BY <1>0, <1>4, RunStamps
  <2>2. pc'[T] \in {"success", "failure"}
    BY <1>0, <1>4, MoveCommit, MoveCommitFails
  <2>3. CASE stamp' = stamp + 1
    BY <1>0, <2>1, <2>2, <2>3 DEF AloneOK
  <2> QED
    BY <1>2, <2>1, <2>2, <2>3
<1>5. ASSUME Poll(T)
      PROVE  AloneOK'
  <2>1. CASE PollStat(T)
    <3>1. pc'[T] = "compare" /\ loc'[T].fp = stamp /\ UNCHANGED <<file, stamp, seen, fp>>
      BY <1>0, <2>1, MovePollStat DEF PollStat, coalescer
    <3> QED
      BY <3>1 DEF AloneOK
  <2>2. CASE PollCompare(T)
    <3>1. UNCHANGED <<file, stamp, seen, fp>>
      BY <2>2 DEF PollCompare, coalescer
    <3>2. /\ pc[T] = "compare"
          /\ pc'[T] = "read" \/ (pc'[T] \in {"rest", "due", "release"} /\ loc[T].fp # NoFile /\ loc[T].fp = fp)
      BY <1>0, <2>2, MovePollCompare
    <3> QED
      BY <3>1, <3>2 DEF AloneOK
  <2>3. CASE PollRead(T)
    <3>1. pc'[T] = "apply" /\ loc'[T].pending = PendingSet(file) /\ UNCHANGED <<file, stamp, seen, fp>>
      BY <1>0, <2>3, MovePollRead DEF PollRead, coalescer
    <3> QED
      BY <3>1 DEF AloneOK
  <2>4. CASE PollApply(T)
    <3>1. /\ pc[T] = "apply" /\ UNCHANGED <<file, stamp>> /\ fp' = loc[T].fp /\ seen' = loc[T].pending
          /\ pc'[T] \in {"rest", "due", "release"}
      BY <1>0, <2>4, MovePollApply DEF PollApply
    <3> QED
      BY <3>1 DEF AloneOK
  <2> QED
    BY <1>5, <2>1, <2>2, <2>3, <2>4 DEF Poll
<1>6. ASSUME Run(T), ~Commit(T), ~CommitFails(T)
      PROVE  AloneOK'
  <2>1. CASE AcquireBusy(T) \/ Snapshot(T) \/ MakeBackup(T) \/ RunFails(T) \/ RecordFailure(T) \/ Release(T)
             \/ ManualBackup(T) \/ ManualBackupFails(T)
    <3>1. pc'[T] \in {"rest", "backup", "commit", "failure", "release", "manual"}
      BY <1>0, <2>1, MoveAcquireBusy, MoveSnapshot, MoveMakeBackup, MoveRunFails, MoveRecordFailure, MoveRelease,
         MoveManualBackup
    <3>2. UNCHANGED <<file, stamp, seen, fp>>
      BY <2>1 DEF AcquireBusy, Snapshot, MakeBackup, RunFails, RecordFailure, Release, ManualBackup,
                  ManualBackupFails, coalescer
    <3> QED
      BY <1>2, <3>1, <3>2
  <2>2. CASE Acquire(T)
    <3>1. pc[T] = "acquire" /\ pc'[T] = "pending" /\ UNCHANGED <<file, stamp, seen, fp>>
      BY <1>0, <2>2, MoveAcquire DEF Acquire, coalescer
    <3> QED
      BY <3>1 DEF AloneOK
  <2>3. CASE ReadPending(T)
    <3>1. pc[T] = "pending" /\ (PendingSet(file) # {} => pc'[T] = "snapshot") /\ UNCHANGED <<file, stamp, seen, fp>>
      BY <1>0, <2>3, MoveReadPending DEF ReadPending, coalescer
    <3>2. PendingSet(file) # {}
      BY <3>1 DEF AloneOK
    <3> QED
      BY <1>2, <3>1, <3>2
  <2>4. CASE ClearSeen(T)
    BY <1>0, <2>4, MoveClearSeen DEF AloneOK
  <2>5. CASE RecordSuccess(T)
    <3>1. pc'[T] = "stat" /\ UNCHANGED <<file, stamp, fp>> /\ seen' \subseteq seen
      BY <1>0, <2>5, MoveRecordSuccess DEF RecordSuccess
    <3> QED
      BY <3>1 DEF AloneOK
  <2> QED
    BY <1>6, <2>1, <2>2, <2>3, <2>4, <2>5 DEF Run
<1>7. ASSUME TickStart \/ TickDue
      PROVE  AloneOK'
  <2>1. UNCHANGED <<file, stamp, seen, fp>>
    BY <1>7 DEF TickStart, TickDue, coalescer
  <2>2. CASE TickStart
    <3>1. pc'[T] = "stat"
      BY <2>2, MoveTickStart
    <3> QED
      BY <1>2, <2>1, <3>1
  <2>3. CASE TickDue
    <3>1. pc[T] = "due" /\ pc'[T] \in {"acquire", "rest"} /\ (pc'[T] = "acquire" => Due)
      BY <2>3, MoveTickDue
    <3>2. Due => seen # {}
      BY DEF Due
    <3> QED
      BY <2>1, <3>1, <3>2 DEF AloneOK
  <2> QED
    BY <1>7, <2>2, <2>3
<1>8. ASSUME Crash
      PROVE  AloneOK'
  <2>1. fp' = NoFile /\ pc'[T] = "rest"
    BY <1>0, <1>8 DEF Crash
  <2> QED
    BY <2>1 DEF AloneOK
<1>9. ASSUME Restart
      PROVE  AloneOK'
  <2>1. UNCHANGED <<file, stamp, pc, loc>> /\ seen' = PendingSet(file)
    BY <1>9 DEF Restart
  <2> QED
    BY <2>1 DEF AloneOK
<1>10. ASSUME (\E w \in Writers : Save(w)) \/ TimePasses \/ UNCHANGED vars
       PROVE  AloneOK'
  <2>1. UNCHANGED <<file, stamp, seen, fp, pc, loc>>
    BY <1>10 DEF Save, TimePasses, vars, coalescer
  <2> QED
    BY <1>1, <2>1
<1>11. ASSUME NEW t \in Threads, Poll(t) \/ Run(t)
       PROVE  AloneOK'
  <2>1. t = T
    OBVIOUS
  <2> QED
    BY <1>4, <1>5, <1>6, <1>11, <2>1
<1> HIDE DEF T
<1> QED
  BY <1>3, <1>7, <1>8, <1>9, <1>10, <1>11, Zenon DEF Next

\* When the ticker is the coalescer's only thread, a fingerprint that matches the
\* file vouches for every pending entry in every reachable state: poll() loses
\* nothing by not reading (FingerprintVouches).
THEOREM AloneVouches == Viewers = {} /\ Workers = {} => (Spec => []FingerprintVouches)
<1> SUFFICES ASSUME Viewers = {}, Workers = {}
             PROVE  Spec => []FingerprintVouches
  OBVIOUS
<1> DEFINE Inv == IndInv /\ VouchOK /\ AloneOK /\ FingerprintVouches
<1>0. Threads = {Ticker}
  BY DEF Threads
<1>1. Init => Inv
  <2>1. ASSUME Init
        PROVE  AloneOK
    <3>1. fp = NoFile /\ pc[Ticker] = "rest"
      BY <1>0, <2>1 DEF Init
    <3> QED
      BY <3>1 DEF AloneOK
  <2> QED
    BY <2>1, InitOK, VouchInit
<1>2. Inv /\ [Next]_vars => Inv'
  <2> SUFFICES ASSUME Inv, [Next]_vars
               PROVE  Inv'
    OBVIOUS
  <2>0. ThreadsOK /\ LocksOK /\ LogOK /\ JournalOK /\ RunsOK
    BY DEF IndInv
  <2>1. IndInv'
    BY NextOK
  <2>2. VouchOK'
    BY <2>0, VouchKept
  <2>3. AloneOK'
    BY <1>0, <2>0, AloneKept
  <2>4. \A t \in Threads : pc[t] # "clear"
    BY <1>0 DEF AloneOK
  <2>5. FingerprintVouches'
    BY <2>0, <2>4, StepVouches
  <2> QED
    BY <2>1, <2>2, <2>3, <2>5
<1>3. Inv => FingerprintVouches
  OBVIOUS
<1> HIDE DEF Inv
<1> QED
  BY <1>1, <1>2, <1>3, PTL DEF Spec
=============================================================================
