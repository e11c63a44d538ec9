-------------------------- MODULE MCPagePublishing --------------------------
(* Small instances of PagePublishing for TLC. *)
EXTENDS PagePublishing, TLC
=============================================================================
