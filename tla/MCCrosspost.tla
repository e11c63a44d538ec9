---------------------------- MODULE MCCrosspost ----------------------------
(* Small instances of Crosspost for TLC. *)
EXTENDS Crosspost

(* Bound: one failure or crash, two while one platform alone is in use;     *)
(* none once the article is gone.                                           *)
Mishaps ==
    \/ faults + crashes = 0
    \/ exists /\ faults + crashes = 1
    \/ exists /\ enabled = {"mastodon"} /\ \A q \in Platforms \ enabled : Total(public, q) = 0 /\ social[q] = 0
=============================================================================
