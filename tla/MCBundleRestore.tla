-------------------------- MODULE MCBundleRestore ---------------------------
(* A small instance of BundleRestore for TLC. *)
EXTENDS BundleRestore
=============================================================================
