--------------------------- MODULE MCConfigBackup ---------------------------
(* Small instances of ConfigBackup for TLC: the cfg files give the constants. *)
EXTENDS ConfigBackup
=============================================================================
