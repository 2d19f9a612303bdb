--------------------------- MODULE HistoryContract --------------------------
(***************************************************************************)
(* What segmented history promises its readers: while it is open, rows are *)
(* only added; while it is closed for a rotation, the oldest hot rows may  *)
(* become one new segment, and then it opens again.  A segment never       *)
(* changes or goes away, a row is never lost, and no reader sees a         *)
(* rotation half done.                                                     *)
(***************************************************************************)
EXTENDS Integers, Sequences

VARIABLES
    open,       \* readers and the writer may use the history
    hot,        \* the rows of the hot database
    segments    \* the rows of each segment

vars == <<open, hot, segments>>

Rows == hot \union UNION {segments[i] : i \in DOMAIN segments}

Init == open = TRUE /\ hot = {} /\ segments = <<{1}>>

Add ==
    /\ open /\ \E row \in {r + 1 : r \in Rows} \ Rows : hot' = hot \union {row}
    /\ UNCHANGED <<open, segments>>

Close == open /\ open' = FALSE /\ UNCHANGED <<hot, segments>>

Rotate ==
    /\ ~open
    /\ \E cut \in hot :
          /\ segments' = Append(segments, {r \in hot : r <= cut})
          /\ hot' = {r \in hot : r > cut}
    /\ UNCHANGED open

Reopen == ~open /\ open' = TRUE /\ UNCHANGED <<hot, segments>>

Next == Add \/ Close \/ Rotate \/ Reopen

Spec == Init /\ [][Next]_vars
=============================================================================
