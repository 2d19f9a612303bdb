-------------------------- MODULE MigrationContract -------------------------
(***************************************************************************)
(* What the migration of the history promises its readers: while it is     *)
(* open, rows are only added; while it is closed, a migration changes its  *)
(* files and none of its rows, and a rollback takes away the rows of the   *)
(* time after the migration, all of them at once.                          *)
(***************************************************************************)
EXTENDS Integers

VARIABLES
    open,       \* readers and the writer may use the history
    history     \* its rows

vars == <<open, history>>

Init == open = TRUE /\ history = {1, 2}

Add ==
    /\ open /\ \E row \in history' : row \notin history /\ history' = history \union {row}
    /\ UNCHANGED open

Close == open /\ open' = FALSE /\ UNCHANGED history
Reopen == ~open /\ open' = TRUE /\ UNCHANGED history

RollBack ==
    /\ ~open /\ \E last \in history : history' = {r \in history : r <= last}
    /\ UNCHANGED open

Next == Add \/ Close \/ Reopen \/ RollBack

Spec == Init /\ [][Next]_vars
=============================================================================
