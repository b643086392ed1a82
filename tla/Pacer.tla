-------------------------------- MODULE Pacer --------------------------------
(* OutboundPacer (src/app/pacing.py): concurrent calls to the genxng backend reserve evenly spaced
   slots, sleep until theirs and go out. The lock is held over no await, so a reservation is one
   action; the sleep is the only await. Time is counted in ticks. *)
EXTENDS Integers, Sequences, FiniteSets

CONSTANTS
    Callers,
    Interval,            \* 1 / outbound_qps, in ticks
    Burst,               \* max(0, outbound_burst)
    MaxWait,             \* outbound_max_wait_seconds, in ticks
    Jitter,              \* max(0, outbound_jitter_seconds), in ticks
    Horizon              \* bound: no call arrives later than this

ASSUME IntervalAssumption == Interval \in Nat \ {0}
ASSUME BurstAssumption == Burst \in Nat
ASSUME WaitAssumption == MaxWait \in Nat /\ Jitter \in Nat
ASSUME HorizonAssumption == Horizon \in Nat

VARIABLES
    now,                 \* the monotonic clock
    started, nextSlot,   \* _next_slot: whether it was ever set, and its value
    pc, wakeAt,          \* per call: idle or asleep, and until when
    slots                \* history: for each reservation, the time it gives leave to go out

vars == <<now, started, nextSlot, pc, wakeAt, slots>>

Later(a, b) == IF a < b THEN b ELSE a

Init ==
    /\ now = 0
    /\ started = FALSE /\ nextSlot = 0
    /\ pc = [c \in Callers |-> "idle"]
    /\ wakeAt = [c \in Callers |-> 0]
    /\ slots = <<>>

(* An idle pacer may fall behind the clock by the burst allowance, never by more. *)
Floor == now - Burst * Interval
SlotKeepsCredit == IF ~started THEN Floor ELSE nextSlot
Slot == IF ~started \/ nextSlot < Floor THEN Floor ELSE nextSlot

(* How long until the slot, and whether that is deeper than the queue may be. *)
WaitUnclamped == Slot - now
Wait == Later(0, Slot - now)
NeverDeep == FALSE
DeepBeyondBurst == Wait > MaxWait + Burst * Interval
DeepAfterAdvance == Slot + Interval - now > MaxWait
TooDeep == Wait > MaxWait

SlotAfter == Slot + Interval

Reserve(c) ==
    /\ pc[c] = "idle" /\ now < Horizon
    /\ ~TooDeep
    /\ started' = TRUE /\ nextSlot' = SlotAfter
    /\ slots' = Append(slots, now + Wait)
    /\ \E jitter \in 0..Jitter : wakeAt' = [wakeAt EXCEPT ![c] = now + Wait + jitter]
    /\ pc' = [pc EXCEPT ![c] = "asleep"]
    /\ UNCHANGED now

(* A refusal that consumes the slot it does not give. *)
SaturateConsumes(c) ==
    /\ pc[c] = "idle" /\ now < Horizon
    /\ TooDeep
    /\ started' = TRUE /\ nextSlot' = SlotAfter
    /\ UNCHANGED <<now, pc, wakeAt, slots>>

(* OutboundSaturatedError: the slot is not consumed. acquire may have raised _next_slot to the floor
   by then, but a slot too deep is above it, so a refusal changes nothing: what can be wrong with it
   is when it happens (RefusesOnlyWhenFull). *)
Saturate(c) ==
    /\ pc[c] = "idle" /\ now < Horizon
    /\ TooDeep
    /\ started' = TRUE /\ nextSlot' = Slot
    /\ UNCHANGED <<now, pc, wakeAt, slots>>

(* The sleep ends, no earlier than asked for, and the call goes out. *)
Due(c) == now >= wakeAt[c]

Depart(c) ==
    /\ pc[c] = "asleep" /\ Due(c)
    /\ pc' = [pc EXCEPT ![c] = "idle"]
    /\ wakeAt' = [wakeAt EXCEPT ![c] = 0]
    /\ UNCHANGED <<now, started, nextSlot, slots>>

Tick ==
    /\ now < Horizon \/ \E c \in Callers : pc[c] = "asleep" /\ now < wakeAt[c]
    /\ now' = now + 1
    /\ UNCHANGED <<started, nextSlot, pc, wakeAt, slots>>

Next == Tick \/ \E c \in Callers : Reserve(c) \/ Saturate(c) \/ Depart(c)

Spec == Init /\ [][Next]_vars

-----------------------------------------------------------------------------
(* Properties *)

TypeOK ==
    /\ now \in Nat
    /\ started \in BOOLEAN
    /\ nextSlot \in Int
    /\ pc \in [Callers -> {"idle", "asleep"}]
    /\ wakeAt \in [Callers -> Nat]
    /\ slots \in Seq(Nat)

(* The least time between two calls that are k apart, the burst allowed for. *)
Spread(k) == (k - Burst) * Interval

(* What the pacer is for (docs/MANUAL.md "slots at OUTBOUND_QPS with an OUTBOUND_BURST allowance"):
   whatever calls arrive when, and however long it was idle, n + Burst + 1 calls are given leave
   over no less than n intervals. *)
EgressEnvelope ==
    \A i, j \in DOMAIN slots : i < j => slots[j] - slots[i] >= Spread(j - i)

(* Why: the next slot is ahead of every slot given by the calls since, less the burst. *)
SlotAhead ==
    \A i \in DOMAIN slots : nextSlot >= slots[i] + Spread(Len(slots) + 1 - i)

(* And it is never more than one interval ahead of the last one. *)
SlotNext ==
    IF started THEN Len(slots) > 0 /\ nextSlot <= slots[Len(slots)] + Interval ELSE slots = <<>>

PacerInv == EgressEnvelope /\ SlotAhead /\ SlotNext

(* A call that is accepted goes to sleep for no longer than the maximum wait and the jitter. *)
WaitBounded == \A c \in Callers : pc[c] = "asleep" => wakeAt[c] <= now + MaxWait + Jitter

(* A call that comes now is refused only if the queue is really full: then the last call accepted is
   itself due no sooner than one interval short of the maximum wait. Neither idle time, bursts nor
   refusals before it leave a queue that nobody is in (pacing.py, OutboundSaturatedError). *)
RefusesOnlyWhenFull ==
    TooDeep => Len(slots) > 0 /\ slots[Len(slots)] > now + MaxWait - Interval

(* Never are more calls ahead of the clock than fit into the maximum wait. *)
QueueDepthBounded ==
    Cardinality({i \in DOMAIN slots : slots[i] > now}) * Interval <= MaxWait + Interval

(* Why: calls that still wait are a full interval apart, burst or not, and the next slot is no further
   ahead than the maximum wait and one interval. *)
Gap(k) == k * Interval
DepthInv ==
    /\ nextSlot <= now + MaxWait + Interval
    /\ \A i \in DOMAIN slots : slots[i] > now => nextSlot >= slots[i] + Gap(Len(slots) + 1 - i)

(* To its callers the pacer is a queue without a clock, whose depth is one number: a call waits for as
   long as the queue is deep when it joins, time shortens the queue down to the burst allowance and
   no further, and a refused call leaves it as it was (pacing.py acquire). *)
LeadOf == IF started THEN Later(nextSlot - now, -(Burst * Interval)) ELSE -(Burst * Interval)
LeftOf == [c \in Callers |-> IF pc[c] = "idle" THEN -1 ELSE Later(wakeAt[c] - now, 0)]

Queue == INSTANCE EgressQueue WITH lead <- LeadOf, left <- LeftOf

QueueSpec == Queue!Spec
=============================================================================
