--------------------------- MODULE MCRateLimiter ---------------------------
(* Small instances of RateLimiter for TLC. *)
EXTENDS RateLimiter, TLC

Interchangeable == Permutations(Threads) \cup Permutations(Visitors)
=============================================================================
