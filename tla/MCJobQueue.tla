----------------------------- MODULE MCJobQueue -----------------------------
(* Small instances of JobQueue for TLC. *)
EXTENDS JobQueue, TLC

MCBackoff == <<1, 2>>

(* Processes are interchangeable: no action or property names one. *)
ProcSymmetry == Permutations(Procs)
=============================================================================
