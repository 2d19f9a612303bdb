------------------------- MODULE MCHistoryMigration -------------------------
(* A small instance of HistoryMigration for TLC. *)
EXTENDS HistoryMigration
=============================================================================
