------------------------------ MODULE MCRateLimiter ----------------------------
(* Model checking instance of RateLimiter: buckets of one token that takes   *)
(* two units of time, two clients, two requests at once, two evictions.      *)
EXTENDS RateLimiter, TLC

Symmetry == Permutations(Clients)

================================================================================
