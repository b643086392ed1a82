------------------------------- MODULE MCPacer -------------------------------
(* Three concurrent calls; the maximum wait is one and a half intervals, so that the queue fills
   up, and the horizon is long enough for the pacer to fall idle by more than its burst and fill
   up again. *)
EXTENDS Pacer

CONSTANTS c1, c2, c3

MCCallers == {c1, c2, c3}
=============================================================================
