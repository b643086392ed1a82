----------------------------- MODULE EgressQueue -----------------------------
(* What OutboundPacer (src/app/pacing.py) is to its callers, with no clock: how far the next slot is
   ahead of now, and how long each call still has to wait. Pacer implements it; Genxng builds on
   it. *)
EXTENDS Integers

CONSTANTS Callers, Interval, Burst, MaxWait, Jitter

VARIABLES
    lead,                \* the next slot less now, never less than the burst allows
    left                 \* per call: ticks left to wait for its slot

vars == <<lead, left>>

Idle == -1               \* not in the queue
Deepest == -(Burst * Interval)

Init ==
    /\ lead = Deepest
    /\ left = [c \in Callers |-> Idle]

Wait == IF lead > 0 THEN lead ELSE 0
Full == Wait > MaxWait

(* A call gets the next slot. One that finds the queue full leaves no trace in it. *)
Join(c) ==
    /\ left[c] = Idle /\ ~Full
    /\ lead' = lead + Interval
    /\ \E jitter \in 0..Jitter : left' = [left EXCEPT ![c] = Wait + jitter]

(* Its slot has come. *)
Leave(c) ==
    /\ left[c] = 0
    /\ left' = [left EXCEPT ![c] = Idle]
    /\ UNCHANGED lead

Sooner(n, limit) == IF n > limit THEN n - 1 ELSE n

(* One tick. *)
Elapse ==
    /\ lead' = Sooner(lead, Deepest)
    /\ left' = [c \in Callers |-> IF left[c] = Idle THEN Idle ELSE Sooner(left[c], 0)]

Next == Elapse \/ \E c \in Callers : Join(c) \/ Leave(c)

Spec == Init /\ [][Next]_vars
=============================================================================
