--------------------------- MODULE MCPublication ----------------------------
(* Publication with two archives: the second is published after the first  *)
(* was recorded, interrupted, recovered or deleted.                        *)
EXTENDS Publication
=============================================================================
