---------------------------- MODULE MCRateLimiter ----------------------------
(* Two threads on a bucket of one token that takes a quantum and a half to  *)
(* refill, with a timeout longer than that and one retry.                  *)
EXTENDS RateLimiter, TLC

CONSTANTS t1, t2

ThreadSymmetry == Permutations({t1, t2})

=============================================================================
