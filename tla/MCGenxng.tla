------------------------------ MODULE MCGenxng ------------------------------
(* Two searches. Slots are two ticks apart, there is no burst and the longest wait is one tick: the
   second of two simultaneous searches finds the queue full. Two failures open the circuit, and one
   retry goes through the queue again. *)
EXTENDS Genxng

CONSTANTS c1, c2, nobody

MCCallers == {c1, c2}
=============================================================================
