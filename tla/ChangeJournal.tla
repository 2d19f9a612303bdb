--------------------------- MODULE ChangeJournal ---------------------------
(***************************************************************************)
(* The config change journal of history_service/backup_archive/journal.py: *)
(* a JSON-lines file that the UI, the admin sidecar and restore append to  *)
(* and the backup scheduler commits.  This module holds no state: it says  *)
(* what a reader sees in a file (_parse) and which files one locked        *)
(* operation can leave behind (_append_records_locked, _compact_locked),   *)
(* a crash or a failed write in the middle of it included.                 *)
(*                                                                         *)
(* A file is a sequence of lines.  A line that parses is a change, commit  *)
(* or checkpoint record; any other line is "damaged" and stands for the    *)
(* prefix of the record that was being written.  Whether the last line has *)
(* its newline is kept beside the file (torn), because readers treat both  *)
(* alike and only the next writer cares.                                   *)
(*                                                                         *)
(* covers is the set of config mutations a line stands for: one for a      *)
(* change, several for an overflow entry (the code keeps their number in   *)
(* `merged`), none for the fragment of a commit.                           *)
(***************************************************************************)
EXTENDS Integers, Sequences, FiniteSets, Functions

CONSTANTS
    MaxLines,             \* max_bytes, one line counted as one unit
    RetainCommitted,      \* retain_committed_entries
    CommitIdsPerRecord,   \* COMMIT_IDS_PER_RECORD
    NoHash                \* the config hash of a journal that never saw a backup

ASSUME JournalAssumption ==
    /\ MaxLines \in Nat \ {0}
    /\ RetainCommitted \in Nat
    /\ CommitIdsPerRecord \in Nat \ {0}

\* Backup ids count from 1.
NoBackup == 0

ChangeId(m) == [k |-> "chg", n |-> m, of |-> 0]
RecoveredId(n, of) == [k |-> "rec", n |-> n, of |-> of]
\* With a fresh uuid.
OverflowId(uuid, covers) == [k |-> "ovf", n |-> uuid, covers |-> covers]

ChangeLine(id, covers, merged) ==
    [type |-> "change", id |-> id, covers |-> covers, merged |-> merged]
CommitLine(ids, outcome, hash, backup) ==
    [type |-> "commit", ids |-> ids, outcome |-> outcome, hash |-> hash, backup |-> backup]
CheckpointLine(last) == [type |-> "checkpoint", hash |-> last.hash, backup |-> last.backup]

\* The fragment a torn write of `line` leaves: its bytes tell which record it was.
Damaged(line) ==
    IF line.type = "change"
    THEN [type |-> "damaged", of |-> line.id.n, covers |-> line.covers, merged |-> 1]
    ELSE [type |-> "damaged", of |-> 0, covers |-> {}, merged |-> 1]

(***************************************************************************)
(* What a reader sees.                                                     *)
(***************************************************************************)

\* A damaged line is shown as a pending placeholder whose id is derived from
\* its line number and bytes.
EntryId(f, n) == IF f[n].type = "change" THEN f[n].id ELSE RecoveredId(n, f[n].of)

EntryLines(f) == {n \in DOMAIN f : f[n].type \in {"change", "damaged"}}

CommittedIds(f) ==
    UNION {f[n].ids : n \in {k \in DOMAIN f : f[k].type = "commit"}}

\* The lines of the uncommitted entries.
Uncommitted(f) ==
    LET done == CommittedIds(f)
    IN  {n \in EntryLines(f) : EntryId(f, n) \notin done}

\* A finite set of numbers in ascending order, and the n largest of it.
Ascending(S) == CHOOSE s \in [1..Cardinality(S) -> S] : \A i, j \in DOMAIN s : i < j => s[i] < s[j]
Newest(S, n) == IF n = 0 THEN {} ELSE {x \in S : Cardinality({y \in S : x <= y}) <= n}

\* A set of lines without those that repeat an earlier id.
Firsts(f, lines) == {n \in lines : \A p \in 1..(n - 1) : p \in lines => EntryId(f, p) # EntryId(f, n)}

PendingLines(f) == Firsts(f, Uncommitted(f))

\* pending(): the ids of the uncommitted entries, oldest first.
Pending(f) == LET lines == Ascending(PendingLines(f)) IN [i \in DOMAIN lines |-> EntryId(f, lines[i])]

PendingSet(f) == {EntryId(f, n) : n \in Uncommitted(f)}

\* The mutations for which a backup is still owed.
Owed(f) == UNION {f[n].covers : n \in Uncommitted(f)}

\* last_backup(): the last backup commit or checkpoint record decides.
LastBackup(f) ==
    LET setters == {n \in DOMAIN f : \/ f[n].type = "checkpoint"
                                     \/ f[n].type = "commit" /\ f[n].outcome = "backup"}
        last == CHOOSE n \in setters : \A m \in setters : m <= n
    IN  IF setters = {} THEN [hash |-> NoHash, backup |-> NoBackup]
                        ELSE [hash |-> f[last].hash, backup |-> f[last].backup]

(***************************************************************************)
(* Compaction.                                                             *)
(***************************************************************************)

\* A recovered or overflow entry that is committed has served its purpose.
Recovered(f, n) == f[n].type = "damaged" \/ f[n].id.k \in {"rec", "ovf"}

\* The newest committed entries, capped by count and by a quarter of the budget.
CommittedWithinBudget(f) ==
    LET committed == {n \in EntryLines(f) \ Uncommitted(f) : ~Recovered(f, n)}
        quarter == MaxLines \div 4
    IN  Newest(Firsts(f, committed), IF RetainCommitted < quarter THEN RetainCommitted ELSE quarter)

\* The pending lines that a compaction merges: when the pending entries pass
\* half of the budget, all but the newest that fit.
MergedLines(f) ==
    LET pending == PendingLines(f)
        half == MaxLines \div 2
    IN  IF Cardinality(pending) > 1 /\ Cardinality(pending) > half
        THEN pending \ Newest(pending, IF half > 1 THEN half - 1 ELSE 0) ELSE {}

\* Mutant: what does not fit the budget is dropped.
OverflowDropped(f, uuid) == <<>>

\* Merged entries are not dropped: one overflow entry takes their place.
OverflowLines(f, uuid) ==
    LET old == MergedLines(f)
        count == SumFunction([n \in old |-> f[n].merged])
        covers == UNION {f[n].covers : n \in old}
    IN  IF old = {} THEN <<>> ELSE <<ChangeLine(OverflowId(uuid, covers), covers, count)>>

\* The entries that are kept, in their old order; a placeholder becomes a record.
KeptEntries(f, lines) ==
    LET kept == Ascending(lines)
    IN  [i \in DOMAIN kept |-> ChangeLine(EntryId(f, kept[i]), f[kept[i]].covers, f[kept[i]].merged)]

\* The commit records, cut down to the committed entries that are kept.
KeptCommits(f, keptIds) ==
    LET commits == Ascending({n \in DOMAIN f : f[n].type = "commit" /\ f[n].ids \intersect keptIds # {}})
        Cut(line) == CommitLine(line.ids \intersect keptIds, line.outcome, line.hash, line.backup)
    IN  [i \in DOMAIN commits |-> Cut(f[commits[i]])]

\* _compact_locked: the overflow entry, the kept entries, the commits, and the
\* checkpoint last, so that it decides last_backup().
Compacted(f, uuid) ==
    LET committed == CommittedWithinBudget(f)
    IN  OverflowLines(f, uuid)
        \o KeptEntries(f, committed \union (PendingLines(f) \ MergedLines(f)))
        \o KeptCommits(f, {EntryId(f, n) : n \in committed})
        \o <<CheckpointLine(LastBackup(f))>>

(***************************************************************************)
(* What one locked append can leave behind.                                *)
(***************************************************************************)

\* The write is cut off (crash, full disk) after k whole lines: between lines,
\* inside the next one, or just before its newline.
CutAfter(f, lines, k) ==
    LET g == f \o SubSeq(lines, 1, k)
    IN  { [file |-> g, torn |-> FALSE],
          [file |-> Append(g, Damaged(lines[k + 1])), torn |-> TRUE],
          [file |-> Append(g, lines[k + 1]), torn |-> TRUE] }

CutShort(f, torn, lines) ==
    (UNION {CutAfter(f, lines, k) : k \in 0..(Len(lines) - 1)}) \union {[file |-> f, torn |-> torn]}

\* What is left once every line is written: a file over the budget is compacted
\* under the same lock.
WithinBudget(f, uuid) == IF Len(f) > MaxLines THEN Compacted(f, uuid) ELSE f

\* A torn last line is terminated by the same write, never cut away.
AppendOk(f, lines, uuid) == [file |-> WithinBudget(f \o lines, uuid), torn |-> FALSE]

\* An append that fails: cut short, or by the compaction after it, which has then
\* replaced the file or not.
AppendFailures(f, torn, lines, uuid) ==
    LET g == f \o lines
    IN  CutShort(f, torn, lines)
        \union {[file |-> h, torn |-> FALSE] : h \in {g, WithinBudget(g, uuid)}}

\* commit(): the ids are split over as many records as needed, all in one write.
CommitLines(ids, outcome, hash, backup) ==
    LET n == Len(ids)
        count == IF n = 0 THEN 1 ELSE (n + CommitIdsPerRecord - 1) \div CommitIdsPerRecord
        Chunk(c) == {ids[i] : i \in {j \in 1..n : (j - 1) \div CommitIdsPerRecord = c - 1}}
    IN  [c \in 1..count |-> CommitLine(Chunk(c), outcome, hash, backup)]
=============================================================================
