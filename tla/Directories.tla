----------------------------- MODULE Directories ----------------------------
(***************************************************************************)
(* The two directories of the history: the one with the hot database and   *)
(* the one with the segments.  Each is a record, one field per name; a     *)
(* file's content stands for its size and digest.  A change of a directory *)
(* is durable after an fsync of it; a rename is one change.  "may" holds   *)
(* every pair of directories that a power loss now could leave.  The two   *)
(* share a mount (the code insists).  The changes of one directory reach   *)
(* the disk in their order.  When the file system is Ordered, so do those  *)
(* of both together, and an fsync commits every earlier one; otherwise an  *)
(* fsync commits the changes of its own directory only.                    *)
(***************************************************************************)
EXTENDS Integers, Sequences

CONSTANTS
    Ordered,          \* whether the file system keeps the order of changes of different directories
    Absent, Torn      \* no file of that name; a file that is only partly written

ASSUME DirectoriesAssumption == Ordered \in BOOLEAN /\ Absent # Torn

VARIABLES
    hotDir,           \* the directory of the hot database
    segDir,           \* the directory of the segments
    may               \* what a power loss may leave of the two

files == <<hotDir, segDir, may>>

Put(dir, change) == [name \in DOMAIN dir |-> IF name \in DOMAIN change THEN change[name] ELSE dir[name]]

ChangeHot(change) ==
    /\ hotDir' = Put(hotDir, change) /\ UNCHANGED segDir
    /\ may' = may \union IF Ordered THEN {<<hotDir', segDir>>} ELSE {<<hotDir', m[2]>> : m \in may}
ChangeSeg(change) ==
    /\ segDir' = Put(segDir, change) /\ UNCHANGED hotDir
    /\ may' = may \union IF Ordered THEN {<<hotDir, segDir'>>} ELSE {<<m[1], segDir'>> : m \in may}

\* A file that was being written is complete and synced; its name need not be.
Completed(dir, name, content) == IF dir[name] = Torn THEN [dir EXCEPT ![name] = content] ELSE dir
CompleteHot(name, content) ==
    /\ hotDir' = Completed(hotDir, name, content) /\ UNCHANGED segDir
    /\ may' = {<<Completed(m[1], name, content), m[2]>> : m \in may}
CompleteSeg(name, content) ==
    /\ segDir' = Completed(segDir, name, content) /\ UNCHANGED hotDir
    /\ may' = {<<m[1], Completed(m[2], name, content)>> : m \in may}

\* _fsync_directory
SyncHot ==
    /\ may' = IF Ordered THEN {<<hotDir, segDir>>} ELSE {<<hotDir, m[2]>> : m \in may}
    /\ UNCHANGED <<hotDir, segDir>>
SyncSeg ==
    /\ may' = IF Ordered THEN {<<hotDir, segDir>>} ELSE {<<m[1], segDir>> : m \in may}
    /\ UNCHANGED <<hotDir, segDir>>

\* SQLite changes the hot database, and syncs its directory when it creates its own
\* journal there.
CommitHot(change) ==
    /\ hotDir' = Put(hotDir, change) /\ UNCHANGED segDir
    /\ may' = IF Ordered THEN {<<hotDir', segDir>>} ELSE {<<hotDir', m[2]>> : m \in may}

\* The power is lost: what the disk holds is what is there.
Reboot == \E m \in may : hotDir' = m[1] /\ segDir' = m[2] /\ may' = {m}
=============================================================================
