---------------------------- MODULE MCPublishing ----------------------------
(* Small instances of Publishing for TLC. *)
EXTENDS Publishing, TLC

(* Admins are interchangeable: no action or property names one. *)
AdminSymmetry == Permutations(Admins)
=============================================================================
