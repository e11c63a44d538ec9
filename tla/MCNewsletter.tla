---------------------------- MODULE MCNewsletter ----------------------------
(* Small instances of Newsletter for TLC. *)
EXTENDS Newsletter, TLC

JobKinds == {ConfirmationJob(i) : i \in SubIds} \cup {Issue}

(* Three requests; two and a mishap; an issue beside an edit, a request and *)
(* a mishap.                                                                *)
OptInOrIssue ==
    {[requests |-> 3, issues |-> 0, edits |-> 0, mishaps |-> 0],
     [requests |-> 2, issues |-> 0, edits |-> 0, mishaps |-> 1],
     [requests |-> 1, issues |-> 1, edits |-> 1, mishaps |-> 1]}

(* Bound: so many failures, shutdowns and crashes; time passes after a crash. *)
Mishaps ==
    /\ faults + crashes <= budget.mishaps
    /\ clock > 1 => crashes > 0

(* Requests and addresses are interchangeable: no action or property names one. *)
Interchangeable == Permutations(Requests) \cup Permutations(Emails)
=============================================================================
