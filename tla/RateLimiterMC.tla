--------------------------- MODULE RateLimiterMC ---------------------------
(* RateLimiter for TLC: the processes are interchangeable.                  *)
EXTENDS RateLimiter, TLC

Symmetry == Permutations(Instances)
=============================================================================
