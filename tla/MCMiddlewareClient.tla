------------------------- MODULE MCMiddlewareClient -------------------------
(* A small instance of MiddlewareClient for TLC. *)
EXTENDS MiddlewareClient

MCKindsOf == <<{"inventory", "batch"}, {"single"}>>
=============================================================================
