---------------------------- MODULE PacerProofs ----------------------------
(* Theorems about the outbound pacer, for every number of calls, pacing interval, burst, maximum wait
   and jitter, and for behaviours of every length. *)
EXTENDS Pacer, FiniteSetTheorems, TLAPS

(* Reserved times in the type the arithmetic below needs. *)
LEMMA SlotType ==
    ASSUME TypeOK
    PROVE /\ Floor \in Int /\ Slot \in Int /\ SlotAfter \in Int
          /\ Wait \in Nat /\ now + Wait >= Slot
          /\ Floor <= now /\ Slot >= Floor
          /\ now + Wait - Slot <= Burst * Interval
          /\ Burst * Interval \in Nat
<1>1. Burst * Interval \in Nat BY BurstAssumption, IntervalAssumption
<1>2. Floor \in Int /\ Floor <= now /\ Slot \in Int /\ Slot >= Floor
  BY <1>1 DEF TypeOK, Floor, Slot
<1>3. SlotAfter \in Int BY <1>2, IntervalAssumption DEF SlotAfter
<1>4. Wait \in Nat /\ now + Wait >= Slot /\ now + Wait - Slot <= Burst * Interval
  BY <1>1, <1>2 DEF TypeOK, Wait, Later, Floor
<1> QED BY <1>1, <1>2, <1>3, <1>4

(* Every state is well typed. *)
THEOREM TypeCorrect == Spec => []TypeOK
<1>1. Init => TypeOK
  <2> SUFFICES ASSUME Init PROVE TypeOK OBVIOUS
  <2>1. pc \in [Callers -> {"idle", "asleep"}] /\ wakeAt \in [Callers -> Nat] BY DEF Init
  <2>2. slots \in Seq(Nat) BY DEF Init
  <2>3. now \in Nat /\ nextSlot \in Int BY DEF Init
  <2>4. started \in BOOLEAN BY DEF Init
  <2> QED BY <2>1, <2>2, <2>3, <2>4 DEF TypeOK
<1>2. TypeOK /\ [Next]_vars => TypeOK'
  <2> SUFFICES ASSUME TypeOK, [Next]_vars PROVE TypeOK' OBVIOUS
  <2>1. ASSUME NEW c \in Callers, Reserve(c) PROVE TypeOK'
    <3>1. PICK jitter \in 0..Jitter : wakeAt' = [wakeAt EXCEPT ![c] = now + Wait + jitter]
      BY <2>1 DEF Reserve
    <3>2. now + Wait + jitter \in Nat /\ now + Wait \in Nat
      BY SlotType, WaitAssumption DEF TypeOK
    <3>3. slots' \in Seq(Nat) BY <2>1, <3>2 DEF Reserve, TypeOK
    <3>4. nextSlot' \in Int BY <2>1, SlotType DEF Reserve
    <3> QED BY <2>1, <3>1, <3>2, <3>3, <3>4 DEF Reserve, TypeOK
  <2>2. ASSUME NEW c \in Callers, Saturate(c) PROVE TypeOK'
    BY <2>2, SlotType DEF Saturate, TypeOK
  <2>3. ASSUME NEW c \in Callers, Depart(c) PROVE TypeOK'
    BY <2>3 DEF Depart, TypeOK
  <2>4. CASE Tick BY <2>4 DEF Tick, TypeOK
  <2>5. CASE UNCHANGED vars BY <2>5 DEF vars, TypeOK
  <2> QED BY <2>1, <2>2, <2>3, <2>4, <2>5 DEF Next
<1> QED BY <1>1, <1>2, PTL DEF Spec

(* A queue that is too deep has a slot in the future, so nothing moved it up to the floor. *)
LEMMA DeepSlot ==
    ASSUME TypeOK, TooDeep
    PROVE started /\ Slot = nextSlot /\ nextSlot > now + MaxWait
<1>1. Wait = Slot - now /\ Slot > now + MaxWait
  BY SlotType, WaitAssumption DEF TypeOK, TooDeep, Wait, Later
<1>2. Slot # Floor BY <1>1, SlotType, WaitAssumption DEF TypeOK
<1> QED BY <1>1, <1>2 DEF Slot

(* The spread grows by one interval with each call, from a deficit of the burst. *)
LEMMA SpreadStep ==
    ASSUME NEW k \in Int
    PROVE Spread(k) \in Int /\ Spread(k + 1) = Spread(k) + Interval
BY BurstAssumption, IntervalAssumption DEF Spread

(* Calls no further apart than the burst may go out at once. *)
LEMMA SpreadZero == Spread(0) = -(Burst * Interval)
BY BurstAssumption, IntervalAssumption DEF Spread

(* The history with one more reservation. *)
LEMMA OneMoreSlot ==
    ASSUME TypeOK, NEW t \in Nat
    PROVE /\ Len(slots) \in Nat /\ DOMAIN slots = 1..Len(slots)
          /\ \A i \in 1..Len(slots) : slots[i] \in Nat /\ Append(slots, t)[i] = slots[i]
          /\ Len(Append(slots, t)) = Len(slots) + 1
          /\ DOMAIN Append(slots, t) = 1..(Len(slots) + 1)
          /\ Append(slots, t)[Len(slots) + 1] = t
<1>1. slots \in Seq(Nat) BY DEF TypeOK
<1>2. Len(slots) \in Nat /\ DOMAIN slots = 1..Len(slots) BY <1>1
<1>3. Len(Append(slots, t)) = Len(slots) + 1 /\ Append(slots, t)[Len(slots) + 1] = t BY <1>1
<1>4. DOMAIN Append(slots, t) = 1..(Len(slots) + 1)
  <2>1. Append(slots, t) \in Seq(Nat) BY <1>1
  <2> QED BY <2>1, <1>3
<1>5. \A i \in 1..Len(slots) : slots[i] \in Nat /\ Append(slots, t)[i] = slots[i] BY <1>1
<1> QED BY <1>2, <1>3, <1>4, <1>5

(* The pacer's invariant is inductive. *)
LEMMA PacerInductive ==
    /\ Init => PacerInv
    /\ TypeOK /\ PacerInv /\ [Next]_vars => PacerInv'
<1>1. Init => PacerInv BY DEF Init, PacerInv, EgressEnvelope, SlotAhead, SlotNext
<1>2. ASSUME TypeOK, PacerInv, [Next]_vars PROVE PacerInv'
  <2> USE <1>2
  <2>1. ASSUME NEW c \in Callers, Reserve(c) PROVE PacerInv'
    <3> DEFINE n == Len(slots)
    <3>1. /\ started' = TRUE /\ nextSlot' = Slot + Interval
          /\ slots' = Append(slots, now + Wait)
      BY <2>1 DEF Reserve, SlotAfter
    <3>t. now + Wait \in Nat BY SlotType DEF TypeOK
    <3>2. /\ n \in Nat /\ Len(slots') = n + 1 /\ DOMAIN slots' = 1..(n + 1) /\ DOMAIN slots = 1..n
          /\ slots'[n + 1] = now + Wait
          /\ \A i \in 1..n : slots'[i] = slots[i] /\ slots[i] \in Nat
      BY <3>1, <3>t, OneMoreSlot
    <3>i. Slot \in Int /\ Interval \in Nat /\ nextSlot \in Int /\ now + Wait >= Slot
      BY SlotType, IntervalAssumption DEF TypeOK
    <3> HIDE DEF n
    <3>n. n > 0 => Slot >= nextSlot
      BY SlotType DEF PacerInv, SlotNext, Slot, TypeOK, n
    <3>3. ASSUME NEW i \in 1..n PROVE Slot >= slots[i] + Spread(n + 1 - i)
      <4>1. nextSlot >= slots[i] + Spread(n + 1 - i)
        BY <3>2 DEF PacerInv, SlotAhead, n
      <4>2. slots[i] \in Nat /\ n > 0 /\ n + 1 - i \in Int BY <3>2
      <4>3. Spread(n + 1 - i) \in Int BY <4>2, SpreadStep
      <4> DEFINE s == Spread(n + 1 - i)
      <4> HIDE DEF s
      <4>4. nextSlot >= slots[i] + s /\ s \in Int BY <4>1, <4>3 DEF s
      <4>5. Slot >= slots[i] + s BY <3>n, <3>i, <4>2, <4>4
      <4> QED BY <4>5 DEF s
    <3>4. EgressEnvelope'
      <4> SUFFICES ASSUME NEW i \in 1..(n + 1), NEW j \in 1..(n + 1), i < j
                   PROVE slots'[j] - slots'[i] >= Spread(j - i)
        BY <3>2 DEF EgressEnvelope, Spread
      <4>1. i \in 1..n BY <3>2
      <4>2. CASE j \in 1..n
        <5>1. slots[j] - slots[i] >= Spread(j - i)
          BY <3>2, <4>1, <4>2 DEF PacerInv, EgressEnvelope
        <5> QED BY <3>2, <4>1, <4>2, <5>1
      <4>3. CASE j = n + 1
        <5>0. j - i = n + 1 - i BY <3>2, <4>3
        <5>1. Slot >= slots[i] + Spread(j - i) BY <3>3, <4>1, <5>0
        <5>2. Spread(j - i) \in Int
          <6>1. j - i \in Int OBVIOUS
          <6> QED BY <6>1, SpreadStep
        <5>3. slots'[j] = now + Wait /\ slots'[i] = slots[i] /\ slots[i] \in Nat
          BY <3>2, <4>1, <4>3
        <5> DEFINE s == Spread(j - i)
        <5> HIDE DEF s
        <5>4. Slot >= slots[i] + s /\ s \in Int BY <5>1, <5>2 DEF s
        <5>5. slots'[j] - slots'[i] >= s BY <3>t, <3>i, <5>3, <5>4
        <5> QED BY <5>5 DEF s
      <4> QED BY <3>2, <4>2, <4>3
    <3>5. SlotAhead'
      <4> SUFFICES ASSUME NEW i \in 1..(n + 1)
                   PROVE nextSlot' >= slots'[i] + Spread((n + 1) + 1 - i)
        BY <3>2 DEF SlotAhead, Spread
      <4> DEFINE k == n + 1 - i
      <4>0. nextSlot' = Slot + Interval BY <3>1
      <4>1. k \in Int /\ (n + 1) + 1 - i = k + 1 BY <3>2
      <4>2. Spread(k) \in Int /\ Spread((n + 1) + 1 - i) = Spread(k) + Interval
        BY <4>1, SpreadStep
      <4>3. PICK s \in Int : s = Spread(k) BY <4>2
      <4>4. ASSUME Slot >= slots'[i] + s, slots'[i] \in Nat PROVE nextSlot' >= slots'[i] + (s + Interval)
        BY <3>i, <4>0, <4>4
      <4>5. CASE i \in 1..n
        <5>1. Slot >= slots[i] + s BY <3>3, <4>3, <4>5
        <5>2. slots'[i] = slots[i] /\ slots[i] \in Nat BY <3>2, <4>5
        <5> QED BY <4>2, <4>3, <4>4, <5>1, <5>2
      <4>6. CASE i = n + 1
        <5>1. k = 0 /\ slots'[i] = now + Wait BY <3>2, <4>6
        <5>2. s = -(Burst * Interval) BY <4>3, <5>1, SpreadZero
        <5>3. Slot >= (now + Wait) + s
          <6>1. PICK b \in Nat : b = Burst * Interval BY SlotType
          <6>2. now + Wait - Slot <= b /\ s = -b BY <5>2, <6>1, SlotType
          <6>3. now \in Nat /\ Wait \in Nat BY SlotType DEF TypeOK
          <6> QED BY <3>i, <3>t, <6>2, <6>3
        <5> QED BY <3>t, <4>2, <4>3, <4>4, <5>1, <5>3
      <4> QED BY <3>2, <4>5, <4>6
    <3>6. SlotNext'
      <4>1. Len(slots') > 0 /\ slots'[Len(slots')] = now + Wait BY <3>2
      <4> QED BY <3>1, <3>t, <3>i, <4>1 DEF SlotNext
    <3> QED BY <3>4, <3>5, <3>6 DEF PacerInv
  <2>2. ASSUME NEW c \in Callers, Saturate(c) PROVE PacerInv'
    <3>1. UNCHANGED <<started, nextSlot, slots>>
      BY <2>2, DeepSlot DEF Saturate, TypeOK
    <3> QED BY <3>1 DEF PacerInv, EgressEnvelope, SlotAhead, SlotNext
  <2>3. CASE Tick \/ UNCHANGED vars \/ \E c \in Callers : Depart(c)
    <3>1. UNCHANGED <<started, nextSlot, slots>> BY <2>3 DEF Tick, Depart, vars
    <3> QED BY <3>1 DEF PacerInv, EgressEnvelope, SlotAhead, SlotNext
  <2> QED BY <2>1, <2>2, <2>3 DEF Next
<1> QED BY <1>1, <1>2

(* The slots given so far keep their distance, and the next slot stays ahead of all of them, in every
   state of every behaviour (pacing.py acquire). *)
THEOREM PacerInvariant == Spec => []PacerInv
BY TypeCorrect, PacerInductive, PTL DEF Spec

(* In any behaviour, n + Burst + 1 calls are given leave over no less than n intervals. *)
THEOREM Envelope == Spec => []EgressEnvelope
<1>1. PacerInv => EgressEnvelope BY DEF PacerInv
<1> QED BY <1>1, PacerInvariant, PTL

(* An accepted call never sleeps longer than the maximum wait and the jitter. *)
THEOREM SleepBounded == Spec => []WaitBounded
<1>1. Init => WaitBounded BY DEF Init, WaitBounded
<1>2. TypeOK /\ WaitBounded /\ [Next]_vars => WaitBounded'
  <2> SUFFICES ASSUME TypeOK, WaitBounded, [Next]_vars PROVE WaitBounded' OBVIOUS
  <2> USE WaitAssumption
  <2>1. ASSUME NEW c \in Callers, Reserve(c) PROVE WaitBounded'
    <3>1. PICK jitter \in 0..Jitter : wakeAt' = [wakeAt EXCEPT ![c] = now + Wait + jitter]
      BY <2>1 DEF Reserve
    <3>2. now' = now /\ pc' = [pc EXCEPT ![c] = "asleep"] /\ Wait <= MaxWait
      BY <2>1, SlotType DEF Reserve, TooDeep
    <3>3. now + Wait + jitter <= now + MaxWait + Jitter BY <3>2, SlotType DEF TypeOK
    <3> QED BY <3>1, <3>2, <3>3 DEF WaitBounded, TypeOK
  <2>2. ASSUME NEW c \in Callers, Depart(c) PROVE WaitBounded'
    BY <2>2 DEF Depart, WaitBounded, TypeOK
  <2>3. CASE Tick BY <2>3 DEF Tick, WaitBounded, TypeOK
  <2>4. CASE UNCHANGED vars \/ \E c \in Callers : Saturate(c)
    BY <2>4 DEF Saturate, vars, WaitBounded
  <2> QED BY <2>1, <2>2, <2>3, <2>4 DEF Next
<1> QED BY <1>1, <1>2, TypeCorrect, PTL DEF Spec

(* A call that would be refused meets a queue whose last call is itself due no sooner than one
   interval short of the maximum wait. *)
THEOREM RefusalsJustified == Spec => []RefusesOnlyWhenFull
<1>1. TypeOK /\ PacerInv => RefusesOnlyWhenFull
  <2> SUFFICES ASSUME TypeOK, PacerInv, TooDeep
               PROVE Len(slots) > 0 /\ slots[Len(slots)] > now + MaxWait - Interval
    BY DEF RefusesOnlyWhenFull
  <2>1. started /\ nextSlot > now + MaxWait BY DeepSlot
  <2>2. Len(slots) > 0 /\ nextSlot <= slots[Len(slots)] + Interval
    BY <2>1 DEF PacerInv, SlotNext
  <2>3. slots[Len(slots)] \in Nat BY <2>2 DEF TypeOK
  <2> QED BY <2>1, <2>2, <2>3, WaitAssumption, IntervalAssumption DEF TypeOK
<1> QED BY <1>1, TypeCorrect, PacerInvariant, PTL

(* Gaps grow by one interval with each call. *)
LEMMA GapStep ==
    ASSUME NEW k \in Int
    PROVE Gap(k) \in Int /\ Gap(k + 1) = Gap(k) + Interval /\ Gap(0) = 0
BY IntervalAssumption DEF Gap

(* The calls that wait are in front of the next slot, an interval each. *)
LEMMA DepthStep == TypeOK /\ PacerInv /\ DepthInv /\ [Next]_vars => DepthInv'
<1> USE IntervalAssumption, WaitAssumption
<1> SUFFICES ASSUME TypeOK, PacerInv, DepthInv, [Next]_vars PROVE DepthInv' OBVIOUS
<1>1. ASSUME NEW c \in Callers, Reserve(c) PROVE DepthInv'
  <2> DEFINE n == Len(slots)
  <2>1. /\ started' = TRUE /\ nextSlot' = Slot + Interval /\ now' = now
        /\ slots' = Append(slots, now + Wait) /\ Wait <= MaxWait
    BY <1>1, SlotType DEF Reserve, SlotAfter, TooDeep
  <2>2. now \in Nat /\ nextSlot \in Int /\ Slot \in Int /\ Wait \in Nat /\ now + Wait >= Slot
    BY SlotType DEF TypeOK
  <2>3. /\ n \in Nat /\ Len(slots') = n + 1 /\ DOMAIN slots' = 1..(n + 1) /\ DOMAIN slots = 1..n
        /\ slots'[n + 1] = now + Wait
        /\ \A i \in 1..n : slots'[i] = slots[i] /\ slots[i] \in Nat
    BY <2>1, <2>2, OneMoreSlot
  <2>4. n > 0 => Slot >= nextSlot
    BY SlotType DEF PacerInv, SlotNext, Slot, TypeOK
  <2> HIDE DEF n
  <2>5. nextSlot' <= now' + MaxWait + Interval BY <2>1, <2>2
  <2>6. ASSUME NEW i \in 1..(n + 1), slots'[i] > now
        PROVE nextSlot' >= slots'[i] + Gap((n + 1) + 1 - i)
    <3> DEFINE k == n + 1 - i
    <3>1. k \in Int /\ (n + 1) + 1 - i = k + 1 BY <2>3
    <3>2. PICK g \in Int : g = Gap(k) /\ Gap((n + 1) + 1 - i) = g + Interval BY <3>1, GapStep
    <3>3. CASE i \in 1..n
      <4>1. slots'[i] = slots[i] /\ slots[i] \in Nat /\ n > 0 BY <2>3, <3>3
      <4>2. nextSlot >= slots[i] + g BY <2>3, <2>6, <3>2, <3>3, <4>1 DEF DepthInv, n
      <4>3. PICK s \in Int, x \in Int : s = Slot /\ x = slots[i] BY <2>2, <4>1
      <4>4. s + Interval >= x + (g + Interval) BY <2>2, <2>4, <3>2, <4>1, <4>2, <4>3
      <4>5. nextSlot' = s + Interval /\ slots'[i] = x BY <2>1, <4>1, <4>3
      <4> QED BY <3>2, <4>4, <4>5
    <3>4. CASE i = n + 1
      <4>1. k = 0 BY <2>3, <3>4
      <4>2. g = 0 BY <3>2, <4>1, GapStep
      <4>3. slots'[i] = now + Wait BY <2>3, <3>4
      <4>4. now + Wait = Slot BY <2>2, <2>6, <4>3 DEF Wait, Later
      <4>5. PICK s \in Int : s = Slot BY <2>2
      <4>6. nextSlot' = s + Interval /\ slots'[i] = s BY <2>1, <4>3, <4>4, <4>5
      <4>7. s + Interval >= s + (g + Interval) BY <3>2, <4>2
      <4> QED BY <3>2, <4>6, <4>7
    <3> QED BY <2>3, <3>3, <3>4
  <2> QED BY <2>1, <2>3, <2>5, <2>6 DEF DepthInv
<1>2. ASSUME NEW c \in Callers, Saturate(c) PROVE DepthInv'
  <2>1. UNCHANGED <<now, nextSlot, slots>> BY <1>2, DeepSlot DEF Saturate
  <2> QED BY <2>1 DEF DepthInv
<1>3. CASE Tick
  <2>1. now' = now + 1 /\ nextSlot' = nextSlot /\ slots' = slots BY <1>3 DEF Tick
  <2>2. \A i \in DOMAIN slots : slots[i] > now' => slots[i] > now BY <2>1 DEF TypeOK
  <2>3. nextSlot' <= now' + MaxWait + Interval BY <2>1 DEF DepthInv, TypeOK
  <2> QED BY <2>1, <2>2, <2>3 DEF DepthInv
<1>4. CASE UNCHANGED vars \/ \E c \in Callers : Depart(c)
  <2>1. UNCHANGED <<now, nextSlot, slots>> BY <1>4 DEF Depart, vars
  <2> QED BY <2>1 DEF DepthInv
<1> QED BY <1>1, <1>2, <1>3, <1>4 DEF Next

(* Never are more calls ahead of the clock than fit into the maximum wait, whatever the burst and the
   number of callers (pacing.py acquire). *)
THEOREM DepthBounded == Spec => []QueueDepthBounded
<1> USE IntervalAssumption, WaitAssumption
<1>1. Init => DepthInv BY DEF Init, DepthInv
<1>2. TypeOK /\ DepthInv => QueueDepthBounded
  <2> SUFFICES ASSUME TypeOK, DepthInv PROVE QueueDepthBounded OBVIOUS
  <2> DEFINE n == Len(slots)
             ahead == {i \in DOMAIN slots : slots[i] > now}
             q == MaxWait \div Interval
  <2>1. n \in Nat /\ DOMAIN slots = 1..n /\ \A i \in 1..n : slots[i] \in Nat BY DEF TypeOK
  <2>2. q \in Nat /\ q * Interval <= MaxWait /\ MaxWait < (q + 1) * Interval OBVIOUS
  <2> HIDE DEF n, q
  <2>3. ASSUME NEW i \in ahead PROVE i \in (n - q)..n
    <3>1. i \in 1..n /\ slots[i] > now /\ slots[i] \in Nat BY <2>1
    <3>2. nextSlot >= slots[i] + (n + 1 - i) * Interval BY <2>1, <3>1 DEF DepthInv, Gap, n
    <3>3. (n - i) \in Nat /\ (n + 1 - i) * Interval = (n - i) * Interval + Interval BY <2>1, <3>1
    <3>4. (n - i) * Interval < MaxWait
      BY <2>1, <3>1, <3>2, <3>3 DEF DepthInv, TypeOK
    <3>5. ASSUME n - i >= q + 1 PROVE FALSE
      <4>1. (n - i) * Interval >= (q + 1) * Interval BY <2>2, <3>3, <3>5
      <4> QED BY <2>2, <3>3, <3>4, <4>1
    <3> QED BY <2>1, <2>2, <3>1, <3>3, <3>5
  <2>4. ahead \in SUBSET ((n - q)..n) BY <2>3
  <2>5. n - q \in Int /\ n \in Int /\ n - (n - q) + 1 = q + 1 BY <2>1, <2>2
  <2>6. IsFiniteSet((n - q)..n) /\ Cardinality((n - q)..n) = q + 1
    BY <2>1, <2>2, <2>5, FS_Interval
  <2>7. Cardinality(ahead) \in Nat /\ Cardinality(ahead) <= q + 1
    BY <2>4, <2>6, FS_Subset, FS_CardinalityType
  <2> DEFINE size == Cardinality(ahead)
  <2> HIDE DEF size, ahead
  <2>8. size * Interval <= (q + 1) * Interval BY <2>2, <2>7 DEF size
  <2>9. (q + 1) * Interval = q * Interval + Interval BY <2>2
  <2>10. size * Interval <= MaxWait + Interval BY <2>2, <2>7, <2>8, <2>9 DEF size
  <2> QED BY <2>10 DEF QueueDepthBounded, size, ahead
<1> QED BY <1>1, <1>2, DepthStep, TypeCorrect, PacerInvariant, PTL DEF Spec

(* The queue's depth is the distance of the slot a call would get. *)
LEMMA LeadIsSlot ==
    ASSUME TypeOK
    PROVE /\ LeadOf = Slot - now /\ LeadOf \in Int /\ LeadOf >= -(Burst * Interval)
          /\ Queue!Wait = Wait /\ (Queue!Full <=> TooDeep)
<1>1. PICK b \in Nat : b = Burst * Interval BY BurstAssumption, IntervalAssumption
<1>2. LeadOf = Slot - now /\ LeadOf \in Int /\ LeadOf >= -(Burst * Interval)
  BY <1>1 DEF LeadOf, Slot, Floor, Later, TypeOK
<1>3. Queue!Wait = Wait BY <1>2 DEF Queue!Wait, Wait, Later, TypeOK
<1> QED BY <1>2, <1>3 DEF Queue!Full, TooDeep

(* To its callers the pacer is the queue without a clock of module EgressQueue (pacing.py acquire):
   every reservation, departure and tick of the one is a step of the other, and a refusal is none. *)
THEOREM ImplementsQueue == Spec => QueueSpec
<1> USE BurstAssumption, IntervalAssumption, WaitAssumption
<1>1. Init => Queue!Init
  BY DEF Init, Queue!Init, LeadOf, LeftOf, Queue!Deepest, Queue!Idle
<1>2. TypeOK /\ TypeOK' /\ [Next]_vars => [Queue!Next]_(Queue!vars)
  <2> SUFFICES ASSUME TypeOK, TypeOK', [Next]_vars PROVE [Queue!Next]_(Queue!vars) OBVIOUS
  <2>0. PICK b \in Nat : b = Burst * Interval OBVIOUS
  <2>1. ASSUME NEW c \in Callers, Reserve(c) PROVE Queue!Join(c)
    <3>1. PICK jitter \in 0..Jitter : wakeAt' = [wakeAt EXCEPT ![c] = now + Wait + jitter]
      BY <2>1 DEF Reserve
    <3>2. /\ pc[c] = "idle" /\ ~TooDeep /\ started' = TRUE /\ nextSlot' = Slot + Interval /\ now' = now
          /\ pc' = [pc EXCEPT ![c] = "asleep"]
      BY <2>1 DEF Reserve, SlotAfter
    <3>3. LeadOf' = LeadOf + Interval
      <4>1. PICK s \in Int : s = Slot /\ s >= now - b BY <2>0, SlotType DEF Floor
      <4>2. nextSlot' = s + Interval /\ now \in Nat BY <3>2, <4>1 DEF TypeOK
      <4>3. LeadOf' = s + Interval - now BY <2>0, <3>2, <4>1, <4>2 DEF LeadOf, Later
      <4>4. LeadOf = s - now BY <4>1, LeadIsSlot
      <4> QED BY <4>1, <4>2, <4>3, <4>4
    <3>4. LeftOf' = [LeftOf EXCEPT ![c] = Wait + jitter]
      <4>1. Wait \in Nat BY SlotType
      <4> DEFINE w == Wait + jitter
      <4>2. w \in Nat /\ now + Wait + jitter = now + w BY <4>1 DEF TypeOK
      <4> HIDE DEF w
      <4>3. /\ \A d \in Callers : wakeAt'[d] = IF d = c THEN now + w ELSE wakeAt[d]
            /\ \A d \in Callers : pc'[d] = IF d = c THEN "asleep" ELSE pc[d]
        BY <3>1, <3>2, <4>2 DEF TypeOK
      <4>4. \A d \in Callers : LeftOf'[d] = IF d = c THEN w ELSE LeftOf[d]
        BY <3>2, <4>2, <4>3 DEF LeftOf, Later, TypeOK
      <4>5. LeftOf' = [LeftOf EXCEPT ![c] = w] BY <4>4 DEF LeftOf
      <4> QED BY <4>5 DEF w
    <3>5. LeftOf[c] = Queue!Idle BY <3>2 DEF LeftOf, Queue!Idle
    <3> QED BY <3>2, <3>3, <3>4, <3>5, LeadIsSlot DEF Queue!Join
  <2>2. ASSUME NEW c \in Callers, Saturate(c) PROVE UNCHANGED Queue!vars
    BY <2>2, DeepSlot DEF Saturate, LeadOf, LeftOf, Queue!vars, TypeOK
  <2>3. ASSUME NEW c \in Callers, Depart(c) PROVE Queue!Leave(c)
    <3>1. LeftOf[c] = 0 BY <2>3 DEF Depart, Due, LeftOf, Later, TypeOK
    <3>2. LeftOf' = [LeftOf EXCEPT ![c] = Queue!Idle]
      BY <2>3 DEF Depart, LeftOf, Later, Queue!Idle, TypeOK
    <3>3. LeadOf' = LeadOf BY <2>3 DEF Depart, LeadOf
    <3> QED BY <3>1, <3>2, <3>3 DEF Queue!Leave
  <2>4. ASSUME Tick PROVE Queue!Elapse
    <3>1. LeadOf' = Queue!Sooner(LeadOf, Queue!Deepest)
      BY <2>0, <2>4 DEF Tick, LeadOf, Later, Queue!Sooner, Queue!Deepest, TypeOK
    <3>2. LeftOf' = [c \in Callers |->
                       IF LeftOf[c] = Queue!Idle THEN Queue!Idle ELSE Queue!Sooner(LeftOf[c], 0)]
      BY <2>4 DEF Tick, LeftOf, Later, Queue!Sooner, Queue!Idle, TypeOK
    <3> QED BY <3>1, <3>2 DEF Queue!Elapse
  <2>5. CASE UNCHANGED vars BY <2>5 DEF vars, LeadOf, LeftOf, Queue!vars
  <2> QED BY <2>1, <2>2, <2>3, <2>4, <2>5 DEF Next, Queue!Next
<1> QED BY <1>1, <1>2, TypeCorrect, PTL DEF Spec, QueueSpec, Queue!Spec
=============================================================================
