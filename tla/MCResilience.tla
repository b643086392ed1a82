---------------------------- MODULE MCResilience ----------------------------
(* Four concurrent searches and a threshold of three failures: enough for late results of calls begun
   before an opening to arrive during it, after it and during the next, while others sleep. *)
EXTENDS Resilience

CONSTANTS c1, c2, c3, c4

MCCallers == {c1, c2, c3, c4}
=============================================================================
