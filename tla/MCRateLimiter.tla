--------------------------- MODULE MCRateLimiter ---------------------------
(***************************************************************************)
(* RateLimiter with interchangeable clients and goroutines.                *)
(***************************************************************************)
EXTENDS RateLimiter, TLC

Symmetry == Permutations(IPs) \cup Permutations(Procs)
============================================================================
