---------------------------- MODULE ConfigBackup ----------------------------
(***************************************************************************)
(* Change-driven config backups: the processes that save config and append *)
(* to the journal (app/services/config_change_journal.py), and the threads *)
(* of the backup scheduler that share one ConfigBackupCoalescer            *)
(* (history_service/backup_archive/journal.py, backup_scheduler/service.py)*)
(*                                                                         *)
(*   Writers  a service that saves config and then journals the change;    *)
(*   Ticker   the scheduler thread, looping over coalescer.tick();         *)
(*   Viewers  API threads in library(), each one coalescer.poll();         *)
(*   Workers  API threads of start_run("config"): coalescer.run() and,     *)
(*            when that was idle or a noop, one backup outside the journal.*)
(*                                                                         *)
(* Every journal operation is one step, because it holds the journal flock;*)
(* everything between two of them can be interleaved.  The fingerprint of  *)
(* the file (inode, size, mtime) is a number that grows with every write:  *)
(* an append changes the size, a compaction the inode.  Ages count clock   *)
(* units up to MaxDelay, beyond which they make no difference.             *)
(***************************************************************************)
EXTENDS ChangeJournal

CONSTANTS
    Writers, Ticker, Viewers, Workers,
    Contents,       \* canonical config contents (what canonical_config_hash tells apart)
    QuietPeriod, MaxDelay,
    MaxMutations,   \* bound: config saves
    MaxFaults,      \* bound: failed writes, failed backups and crashes
    MaxRequests,    \* bound: library() and start_run("config") requests
    None

Threads == {Ticker} \union Viewers \union Workers

ASSUME ConfigBackupAssumption ==
    /\ QuietPeriod \in Nat /\ MaxDelay \in Nat \ {0} /\ QuietPeriod <= MaxDelay
    /\ MaxMutations \in Nat /\ MaxFaults \in Nat /\ MaxRequests \in Nat
    /\ NoHash \notin Contents /\ Contents # {}
    /\ None \notin Threads

VARIABLES
    log,        \* every content the config has had; the last one is on disk
    wr,         \* per writer: the mutation it has saved and not yet journaled, or 0
    file, torn, \* the journal
    stamp,      \* its fingerprint; NoFile before the first write
    reached,    \* the mutations whose journal write left a trace in the file
    seen, fp,   \* _seen, _fingerprint (NoFile: never read, or no file)
    firstAge, lastAge, retryIn, failures,   \* the timers, relative to now
    runLock, jobLock,
    pc, loc,    \* per thread: its place and its local variables
    archive,    \* the config backups made, in order
    up, faults, requests

coalescer == <<seen, fp, firstAge, lastAge, retryIn, failures>>
vars == <<log, wr, file, torn, stamp, reached, coalescer, runLock, jobLock, pc, loc,
          archive, up, faults, requests>>

NoTime == -1
NoFile == 0
NoLocals == [fp |-> NoFile, pending |-> {}, then |-> "rest", ids |-> <<>>, snap |-> 0,
             backup |-> NoBackup, failed |-> FALSE]

Config == log[Len(log)]

Init ==
    /\ log = <<CHOOSE c \in Contents : TRUE>>   \* contents are interchangeable
    /\ wr = [w \in Writers |-> 0]
    /\ file = <<>> /\ torn = FALSE /\ stamp = NoFile /\ reached = {}
    /\ seen = {} /\ fp = NoFile
    /\ firstAge = NoTime /\ lastAge = NoTime /\ retryIn = NoTime /\ failures = 0
    /\ runLock = None /\ jobLock = None
    /\ pc = [t \in Threads |-> "rest"] /\ loc = [t \in Threads |-> NoLocals]
    /\ archive = <<>>
    /\ up = TRUE /\ faults = 0 /\ requests = 0

Goto(t, place) == pc' = [pc EXCEPT ![t] = place]
Step(t, from, to) == up /\ pc[t] = from /\ Goto(t, to)
Fault == faults < MaxFaults /\ faults' = faults + 1

\* What an append leaves; one that fails may have written nothing.
Appended(result) == file' = result.file /\ torn' = result.torn /\ stamp' = stamp + 1
Broken(result) ==
    \/ Appended(result)
    \/ result = [file |-> file, torn |-> torn] /\ UNCHANGED <<file, torn, stamp>>

(***************************************************************************)
(* Saving and journaling.                                                  *)
(***************************************************************************)

\* A config write becomes durable; the journal does not know of it yet.
Save(w) ==
    /\ wr[w] = 0
    /\ Len(log) <= MaxMutations
    /\ \E c \in Contents \ {Config} : log' = Append(log, c)
    /\ wr' = [wr EXCEPT ![w] = Len(log) + 1]
    /\ UNCHANGED <<file, torn, stamp, reached, coalescer, runLock, jobLock, pc, loc, archive, up, faults, requests>>

\* record_config_change(): journal the saved mutation.
RecordChange(w) ==
    /\ wr[w] # 0
    /\ LET line == ChangeLine(ChangeId(wr[w]), {wr[w]}, 1)
       IN  Appended(AppendOk(file, <<line>>, stamp))
    /\ reached' = reached \union {wr[w]}
    /\ wr' = [wr EXCEPT ![w] = 0]
    /\ UNCHANGED <<log, coalescer, runLock, jobLock, pc, loc, archive, up, faults, requests>>

\* The append fails part-way, or its process dies; the save is unaffected.
RecordChangeFails(w) ==
    /\ wr[w] # 0
    /\ Fault
    /\ \E result \in AppendFailures(file, torn, <<ChangeLine(ChangeId(wr[w]), {wr[w]}, 1)>>, stamp) :
          /\ Broken(result)
          /\ reached' = reached \union (Owed(file') \ Owed(file))
    /\ wr' = [wr EXCEPT ![w] = 0]
    /\ UNCHANGED <<log, coalescer, runLock, jobLock, pc, loc, archive, up, requests>>

(***************************************************************************)
(* The coalescer's state, each operator one section under _state_lock.     *)
(***************************************************************************)

\* Mutant: one timer survives the reset.
ResetTimersKeepLast == firstAge' = NoTime /\ UNCHANGED lastAge /\ retryIn' = NoTime /\ failures' = 0

\* _reset_timers_locked
ResetTimers == firstAge' = NoTime /\ lastAge' = NoTime /\ retryIn' = NoTime /\ failures' = 0

\* Mutant: the first sighting is not stamped.
NoteNewIdsUnstamped(ids) ==
    /\ lastAge' = IF ids = {} THEN lastAge ELSE 0
    /\ UNCHANGED <<firstAge, retryIn, failures>>

\* _note_new_ids_locked
NoteNewIds(ids) ==
    IF ids = {} THEN UNCHANGED <<firstAge, lastAge, retryIn, failures>>
    ELSE /\ lastAge' = 0
         /\ firstAge' = IF firstAge = NoTime THEN 0 ELSE firstAge
         /\ UNCHANGED <<retryIn, failures>>

\* poll(), first half: the stat.
PollStat(t) ==
    /\ Step(t, "stat", "compare")
    /\ loc' = [loc EXCEPT ![t].fp = stamp]
    /\ UNCHANGED <<log, wr, file, torn, stamp, reached, coalescer, runLock, jobLock, archive, up, faults, requests>>

\* poll(): an unchanged fingerprint ends it.
PollCompare(t) ==
    /\ LET same == loc[t].fp # NoFile /\ loc[t].fp = fp
       IN  Step(t, "compare", IF same THEN loc[t].then ELSE "read")
    /\ UNCHANGED <<log, wr, file, torn, stamp, reached, coalescer, runLock, jobLock, loc, archive, up, faults, requests>>

\* poll(): journal.pending(), without _state_lock.
PollRead(t) ==
    /\ Step(t, "read", "apply")
    /\ loc' = [loc EXCEPT ![t].pending = PendingSet(file)]
    /\ UNCHANGED <<log, wr, file, torn, stamp, reached, coalescer, runLock, jobLock, archive, up, faults, requests>>

\* Mutant: the fingerprint is taken after the entries were read.
PollApplyLateFingerprint(t) ==
    /\ Step(t, "apply", loc[t].then)
    /\ fp' = stamp
    /\ seen' = loc[t].pending
    /\ IF seen' = {} THEN ResetTimers ELSE NoteNewIds(loc[t].pending \ seen)
    /\ loc' = [loc EXCEPT ![t].fp = NoFile, ![t].pending = {}]
    /\ UNCHANGED <<log, wr, file, torn, stamp, reached, runLock, jobLock, archive, up, faults, requests>>

\* poll(), second half: the fingerprint stored is the one of the stat.
PollApply(t) ==
    /\ Step(t, "apply", loc[t].then)
    /\ fp' = loc[t].fp
    /\ seen' = loc[t].pending
    /\ IF seen' = {} THEN ResetTimers ELSE NoteNewIds(loc[t].pending \ seen)
    /\ loc' = [loc EXCEPT ![t].fp = NoFile, ![t].pending = {}]
    /\ UNCHANGED <<log, wr, file, torn, stamp, reached, runLock, jobLock, archive, up, faults, requests>>

(***************************************************************************)
(* Ticks and requests.                                                     *)
(***************************************************************************)

\* tick() starts with a poll.
TickStart ==
    /\ Step(Ticker, "rest", "stat")
    /\ loc' = [loc EXCEPT ![Ticker] = [NoLocals EXCEPT !.then = "due"]]
    /\ UNCHANGED <<log, wr, file, torn, stamp, reached, coalescer, runLock, jobLock, archive, up, faults, requests>>

\* seconds_until_due() = 0
Due ==
    /\ seen # {} /\ firstAge # NoTime /\ lastAge # NoTime
    /\ lastAge >= QuietPeriod \/ firstAge >= MaxDelay
    /\ retryIn \in {NoTime, 0}

\* tick(): idle or not due ends it, else run().
TickDue ==
    /\ Step(Ticker, "due", IF Due THEN "acquire" ELSE "rest")
    /\ UNCHANGED <<log, wr, file, torn, stamp, reached, coalescer, runLock, jobLock, loc, archive, up, faults, requests>>

\* library(): one poll.
ViewStart(t) ==
    /\ requests < MaxRequests /\ requests' = requests + 1
    /\ Step(t, "rest", "stat")
    /\ loc' = [loc EXCEPT ![t] = NoLocals]
    /\ UNCHANGED <<log, wr, file, torn, stamp, reached, coalescer, runLock, jobLock, archive, up, faults>>

\* start_run("config"): the job lock is reserved before the worker starts.
StartRun(t) ==
    /\ requests < MaxRequests /\ requests' = requests + 1
    /\ jobLock = None /\ jobLock' = t
    /\ Step(t, "rest", "acquire")
    /\ UNCHANGED <<log, wr, file, torn, stamp, reached, coalescer, runLock, loc, archive, up, faults>>

(***************************************************************************)
(* run()                                                                   *)
(***************************************************************************)

\* Where a thread goes when its run() is over, and the job lock then.
Leave(t) ==
    /\ Goto(t, "rest")
    /\ jobLock' = IF jobLock = t THEN None ELSE jobLock
    /\ loc' = [loc EXCEPT ![t] = NoLocals]

\* The run lock is not waited for.
AcquireBusy(t) ==
    /\ up /\ pc[t] = "acquire" /\ runLock # None
    /\ Leave(t)
    /\ UNCHANGED <<log, wr, file, torn, stamp, reached, coalescer, runLock, archive, up, faults, requests>>

Acquire(t) ==
    /\ runLock = None /\ runLock' = t
    /\ Step(t, "acquire", "pending")
    /\ UNCHANGED <<log, wr, file, torn, stamp, reached, coalescer, jobLock, loc, archive, up, faults, requests>>

\* The pending entries are read before the snapshot.
ReadPending(t) ==
    /\ Step(t, "pending", IF PendingSet(file) = {} THEN "clear" ELSE "snapshot")
    /\ loc' = [loc EXCEPT ![t].ids = Pending(file)]
    /\ UNCHANGED <<log, wr, file, torn, stamp, reached, coalescer, runLock, jobLock, archive, up, faults, requests>>

\* Nothing was pending: forget everything seen, under _state_lock.
ClearSeen(t) ==
    /\ Step(t, "clear", "release")
    /\ seen' = {} /\ ResetTimers
    /\ UNCHANGED <<log, wr, file, torn, stamp, reached, fp, runLock, jobLock, loc, archive, up, faults, requests>>

\* Mutant: every run makes a backup.
SnapshotAlwaysBackup(t) ==
    /\ Step(t, "snapshot", "backup")
    /\ loc' = [loc EXCEPT ![t].snap = Len(log)]
    /\ UNCHANGED <<log, wr, file, torn, stamp, reached, coalescer, runLock, jobLock, archive, up, faults, requests>>

\* The config is captured and its hash compared with the last backup's (only a
\* run changes that one, and runs exclude each other).
Snapshot(t) ==
    /\ Step(t, "snapshot", IF Config = LastBackup(file).hash THEN "commit" ELSE "backup")
    /\ loc' = [loc EXCEPT ![t].snap = Len(log)]
    /\ UNCHANGED <<log, wr, file, torn, stamp, reached, coalescer, runLock, jobLock, archive, up, faults, requests>>

\* make_backup(): needs the job lock, archives the captured snapshot.
MakeBackup(t) ==
    /\ jobLock \in {None, t}
    /\ Step(t, "backup", "commit")
    /\ archive' = Append(archive, [by |-> "run", snap |-> loc[t].snap])
    /\ loc' = [loc EXCEPT ![t].backup = Len(archive) + 1]
    /\ UNCHANGED <<log, wr, file, torn, stamp, reached, coalescer, runLock, jobLock, up, faults, requests>>

\* The snapshot or the backup fails; or another thread holds the job lock.
RunFails(t) ==
    /\ \/ pc[t] \in {"snapshot", "backup"} /\ Fault
       \/ pc[t] = "backup" /\ jobLock \notin {None, t} /\ UNCHANGED faults
    /\ Step(t, pc[t], "failure")
    /\ UNCHANGED <<log, wr, file, torn, stamp, reached, coalescer, runLock, jobLock, loc, archive, up, requests>>

\* Mutant: whatever is pending by now is committed.
RunCommitLinesLate(t) ==
    CommitLines(Pending(file), IF loc[t].backup = NoBackup THEN "noop" ELSE "backup",
                log[loc[t].snap], loc[t].backup)

\* Mutant: the hash is taken from the live config.
RunCommitLinesLiveHash(t) ==
    CommitLines(loc[t].ids, IF loc[t].backup = NoBackup THEN "noop" ELSE "backup",
                Config, loc[t].backup)

RunCommitLines(t) ==
    CommitLines(loc[t].ids, IF loc[t].backup = NoBackup THEN "noop" ELSE "backup",
                log[loc[t].snap], loc[t].backup)

\* journal.commit() of the entries read at the start of the run.
Commit(t) ==
    /\ Step(t, "commit", "success")
    /\ Appended(AppendOk(file, RunCommitLines(t), stamp))
    /\ UNCHANGED <<log, wr, reached, coalescer, runLock, jobLock, loc, archive, up, faults, requests>>

CommitFails(t) ==
    /\ Fault
    /\ Step(t, "commit", "failure")
    /\ \E result \in AppendFailures(file, torn, RunCommitLines(t), stamp) : Broken(result)
    /\ UNCHANGED <<log, wr, reached, coalescer, runLock, jobLock, loc, archive, up, requests>>

\* _record_success: what arrived during the run starts its own window; then poll.
RecordSuccess(t) ==
    /\ Step(t, "success", "stat")
    /\ seen' = seen \ {loc[t].ids[i] : i \in DOMAIN loc[t].ids}
    /\ failures' = 0 /\ retryIn' = NoTime
    /\ LET start == IF seen' = {} THEN NoTime ELSE 0
       IN  firstAge' = start /\ lastAge' = start
    /\ loc' = [loc EXCEPT ![t].then = "release", ![t].ids = <<>>, ![t].snap = 0]
    /\ UNCHANGED <<log, wr, file, torn, stamp, reached, fp, runLock, jobLock, archive, up, faults, requests>>

\* Mutant: the backoff is not capped.
BackoffUncapped(n) == (IF QuietPeriod > 1 THEN QuietPeriod ELSE 1) * 2^n

\* The exponential backoff after n failures, capped by MaxDelay.
Backoff(n) ==
    LET base == IF QuietPeriod > 1 THEN QuietPeriod ELSE 1
        delay == base * 2^(IF n - 1 < 16 THEN n - 1 ELSE 16)
    IN  IF delay < MaxDelay THEN delay ELSE MaxDelay

\* Bound: more failures than this no longer change the backoff.
FailureCap == MaxDelay + 1

\* _record_failure: the entries stay pending.
RecordFailure(t) ==
    /\ Step(t, "failure", "release")
    /\ failures' = IF failures < FailureCap THEN failures + 1 ELSE failures
    /\ retryIn' = Backoff(failures + 1)
    /\ loc' = [loc EXCEPT ![t] = [NoLocals EXCEPT !.failed = TRUE]]
    /\ UNCHANGED <<log, wr, file, torn, stamp, reached, seen, fp, firstAge, lastAge, runLock, jobLock, archive, up, faults, requests>>

\* run_now("config") makes its own backup when run() was idle or a noop.
OwesManualBackup(t) == t \in Workers /\ ~loc[t].failed /\ loc[t].backup = NoBackup

Release(t) ==
    /\ up /\ pc[t] = "release"
    /\ runLock' = None
    /\ IF OwesManualBackup(t) THEN Goto(t, "manual") /\ UNCHANGED <<jobLock, loc>> ELSE Leave(t)
    /\ UNCHANGED <<log, wr, file, torn, stamp, reached, coalescer, archive, up, faults, requests>>

\* A backup of the live config that the journal does not hear of.
ManualBackup(t) ==
    /\ up /\ pc[t] = "manual"
    /\ archive' = Append(archive, [by |-> "manual", snap |-> Len(log)])
    /\ Leave(t)
    /\ UNCHANGED <<log, wr, file, torn, stamp, reached, coalescer, runLock, up, faults, requests>>

ManualBackupFails(t) ==
    /\ up /\ pc[t] = "manual" /\ Fault
    /\ Leave(t)
    /\ UNCHANGED <<log, wr, file, torn, stamp, reached, coalescer, runLock, archive, up, requests>>

(***************************************************************************)
(* Time, crashes and restarts.                                             *)
(***************************************************************************)

Older(age) == IF age = NoTime \/ age = MaxDelay THEN age ELSE age + 1

TimePasses ==
    /\ up
    /\ firstAge' = Older(firstAge) /\ lastAge' = Older(lastAge)
    /\ retryIn' = IF retryIn > 0 THEN retryIn - 1 ELSE retryIn
    /\ <<firstAge', lastAge', retryIn'>> # <<firstAge, lastAge, retryIn>>
    /\ UNCHANGED <<log, wr, file, torn, stamp, reached, seen, fp, failures, runLock, jobLock, pc, loc, archive, up, faults, requests>>

\* The scheduler process dies: its memory and its flocks are gone.
Crash ==
    /\ up /\ Fault
    /\ up' = FALSE
    /\ pc' = [t \in Threads |-> "rest"] /\ loc' = [t \in Threads |-> NoLocals]
    /\ seen' = {} /\ fp' = NoFile /\ ResetTimers
    /\ runLock' = None /\ jobLock' = None
    /\ UNCHANGED <<log, wr, file, torn, stamp, reached, archive, requests>>

\* __init__ polls before any other thread exists.
Restart ==
    /\ ~up /\ up' = TRUE
    /\ fp' = stamp /\ seen' = PendingSet(file)
    /\ IF seen' = {} THEN ResetTimers ELSE NoteNewIds(seen')
    /\ UNCHANGED <<log, wr, file, torn, stamp, reached, runLock, jobLock, pc, loc, archive, faults, requests>>

(***************************************************************************)
(* The specification.                                                      *)
(***************************************************************************)

Poll(t) == PollStat(t) \/ PollCompare(t) \/ PollRead(t) \/ PollApply(t)

Run(t) ==
    \/ AcquireBusy(t) \/ Acquire(t) \/ ReadPending(t) \/ ClearSeen(t)
    \/ Snapshot(t) \/ MakeBackup(t) \/ RunFails(t)
    \/ Commit(t) \/ CommitFails(t) \/ RecordSuccess(t) \/ RecordFailure(t) \/ Release(t)
    \/ ManualBackup(t) \/ ManualBackupFails(t)

Next ==
    \/ \E w \in Writers : Save(w) \/ RecordChange(w) \/ RecordChangeFails(w)
    \/ TickStart \/ TickDue
    \/ \E t \in Viewers : ViewStart(t)
    \/ \E t \in Workers : StartRun(t)
    \/ \E t \in Threads : Poll(t) \/ Run(t)
    \/ TimePasses \/ Crash \/ Restart

Spec == Init /\ [][Next]_vars

ThreadStep(t) == Poll(t) \/ Run(t) \/ (t = Ticker /\ (TickStart \/ TickDue))

\* The threads that can hold the run lock go on, the clock advances and a dead
\* sidecar is restarted.  Nothing is asked of the services that save config or of
\* API readers.
Fairness ==
    /\ \A t \in {Ticker} \union Workers : WF_vars(ThreadStep(t))
    /\ WF_vars(TimePasses) /\ WF_vars(Restart)

FairSpec == Spec /\ Fairness

(***************************************************************************)
(* Properties.                                                             *)
(***************************************************************************)

Places == {"rest", "stat", "compare", "read", "apply", "due", "acquire", "pending", "clear",
           "snapshot", "backup", "commit", "success", "failure", "release", "manual"}

\* Type invariant.
TypeOK ==
    /\ \A i \in DOMAIN log : log[i] \in Contents
    /\ wr \in [Writers -> 0..(MaxMutations + 1)]
    /\ torn \in BOOLEAN /\ reached \subseteq 2..Len(log)
    /\ \A n \in DOMAIN file : file[n].type \in {"change", "commit", "checkpoint", "damaged"}
    /\ firstAge \in NoTime..MaxDelay /\ lastAge \in NoTime..MaxDelay /\ retryIn \in NoTime..MaxDelay
    /\ failures \in 0..FailureCap
    /\ runLock \in Threads \union {None} /\ jobLock \in Workers \union {None}
    /\ pc \in [Threads -> Places]
    /\ up \in BOOLEAN /\ faults \in 0..MaxFaults /\ requests \in 0..MaxRequests

\* A mutation that reached the journal is either still owed a backup by a
\* pending entry, or a config backup holds a state of the config at or after
\* it.  Torn appends, torn commits, compaction with an overflow merge, a run
\* whose ids were merged away under it, and crashes between the backup and the
\* commit do not break this (journal.py: "it never drops an uncommitted change"
\* and "every entry it commits is contained in the snapshot it hashed").
SettledIsCaptured ==
    \A m \in reached \ Owed(file) :
        \E b \in DOMAIN archive : \E j \in m..Len(log) : log[j] = log[archive[b].snap]

\* When the journal owes nothing, the hash it keeps as the last backup's is that
\* of the config at or after the newest mutation that reached it: an idle
\* coalescer means the newest change really is backed up.
IdleMeansCurrent ==
    PendingSet(file) = {} =>
        \A m \in reached : \E j \in m..Len(log) : log[j] = LastBackup(file).hash

\* The last backup the journal names exists and has the hash it gives, also
\* after partly written commits and after compaction moved it to a checkpoint.
LastBackupExists ==
    LET last == LastBackup(file)
    IN  IF last.backup = NoBackup THEN last.hash = NoHash
        ELSE last.backup \in DOMAIN archive /\ log[archive[last.backup].snap] = last.hash

\* Only a run that read an entry and snapshotted the config after its mutation
\* takes that mutation off the list of what is owed a backup.
OwedLeavesByCommit ==
    [][\A m \in Owed(file) \ Owed(file') :
         \E t \in Threads : pc[t] = "commit" /\ pc'[t] # "commit" /\ loc[t].snap >= m]_vars

\* "never twenty identical copies": without a fault, two consecutive backups of
\* the coalescer differ in content.
NoIdenticalCopies ==
    faults = 0 =>
        \A a, b \in DOMAIN archive :
            /\ a < b /\ archive[a].by = "run" /\ archive[b].by = "run"
            /\ \A c \in (a + 1)..(b - 1) : archive[c].by = "manual"
            => log[archive[a].snap] # log[archive[b].snap]

\* Entries are seen exactly when the timers run: seconds_until_due() never
\* answers "nothing pending" for entries that are seen.
SeenHasTimers ==
    /\ seen # {} <=> firstAge # NoTime
    /\ seen # {} <=> lastAge # NoTime

\* A fingerprint that matches the file vouches for everything pending in it:
\* poll() may skip reading the journal.  It holds when the ticker is alone.
FingerprintVouches ==
    fp # NoFile /\ fp = stamp => PendingSet(file) \subseteq seen

\* With API readers and workers too, only one step takes the vouching away: a run
\* that read an empty journal and clears what was seen since.  Stale polls that
\* finish late, commits, success, failure, crashes and restarts do not.
OnlyIdleRunForgets ==
    [][FingerprintVouches =>
         FingerprintVouches' \/ \E t \in Threads : pc[t] = "clear" /\ pc'[t] = "release"]_vars

\* Whatever is pending is settled in the end: "Entries appended by other
\* processes are noticed by the next poll()", and a backup is due at the latest
\* max_delay after that.  (Saves and faults are bounded here, so the journal must
\* become empty, not just each entry leave it.)
EventuallySettled == PendingSet(file) # {} ~> PendingSet(file) = {}

\* So it is, unless an entry is forgotten: nothing else keeps the ticker from a
\* backup, neither the locks, a backoff, a stale poll nor a failed commit.
SettledOrForgotten ==
    PendingSet(file) # {} ~> PendingSet(file) = {} \/ ~FingerprintVouches
=============================================================================
