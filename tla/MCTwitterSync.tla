---------------------------- MODULE MCTwitterSync ----------------------------
(* Small instances of TwitterSync for TLC. *)
EXTENDS TwitterSync, TLC
=============================================================================
