---------------------------- MODULE MCRateLimiter ----------------------------
(* Three checks at a time, each late by up to the margin. A token takes one and a half ticks to
   refill and a full bucket three, so that within the horizon the bucket is emptied, refused from,
   dropped by Redis and emptied again. *)
EXTENDS RateLimiter, TLC

CONSTANTS c1, c2, c3

MCCallers == {c1, c2, c3}
Symmetry == Permutations(MCCallers)
=============================================================================
