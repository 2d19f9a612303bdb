------------------------- MODULE MCBackupLifecycle --------------------------
(* Small instances of BackupLifecycle for TLC. *)
EXTENDS BackupLifecycle

CONSTANTS Remote

\* Every copy is local; or the last one is remote.
AllLocal == [c \in Copies |-> Local]
LastRemote == [c \in Copies |-> IF \A d \in Copies : d <= c THEN Remote ELSE Local]
=============================================================================
