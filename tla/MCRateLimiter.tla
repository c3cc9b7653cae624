---------------------------- MODULE MCRateLimiter ----------------------------
(* Small instances of RateLimiter. *)
EXTENDS RateLimiter, TLC

CONSTANTS q1, q2, q3, s1, s2, k1, k2, k3

Symmetry == Permutations(Requests) \cup Permutations(Servers) \cup Permutations(Keys)
=============================================================================
