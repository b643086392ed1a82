-------------------------- MODULE ResilienceProofs --------------------------
(* Theorems about the circuit breaker and the retry loop, for every number of concurrent searches,
   threshold, recovery time, retry limit and backoff. *)
EXTENDS Resilience, TLAPS

(* Every step keeps the state well typed. *)
LEMMA TypeStep == TypeOK /\ [Next]_vars => TypeOK'
<1> SUFFICES ASSUME TypeOK, [Next]_vars PROVE TypeOK' OBVIOUS
<1> USE ThresholdAssumption, RecoveryAssumption, RetryAssumption
<1>1. ASSUME NEW c \in Callers, Enter(c) PROVE TypeOK'
  BY <1>1 DEF TypeOK, Enter, CountLeaks, breaker
<1>2. ASSUME NEW c \in Callers, Succeed(c) PROVE TypeOK'
  BY <1>2 DEF TypeOK, Succeed, RecordSuccess, Leave, CountLeaks, Closed
<1>3. ASSUME NEW c \in Callers, Refuse(c) PROVE TypeOK'
  BY <1>3 DEF TypeOK, Refuse, Leave, breaker
<1>4. ASSUME NEW c \in Callers, Fail(c) PROVE TypeOK'
  <2>1. failures' \in 0..Threshold /\ opened' \in {Closed} \cup 0..Recovery
    BY <1>4 DEF TypeOK, Fail, NextAttempt, RecordFailure, FailuresAfter
  <2>2. leaked' \in [Callers -> Nat] BY <1>4 DEF TypeOK, Fail, NextAttempt, CountLeaks
  <2>3. CASE GivesUp(c)
    <3>1. Leave(c) BY <1>4, <2>3 DEF Fail, NextAttempt
    <3> QED BY <2>1, <2>2, <3>1 DEF TypeOK, Leave
  <2>4. CASE ~GivesUp(c)
    <3>1. attempt[c] \in 0..MaxRetries /\ attempt[c] + 1 \in 0..MaxRetries
      BY <2>4 DEF GivesUp, TypeOK
    <3>2. Backoff * 2^attempt[c] \in Nat BY <3>1
    <3>3. /\ pc' = [pc EXCEPT ![c] = "backoff"]
          /\ attempt' = [attempt EXCEPT ![c] = @ + 1]
          /\ timer' = [timer EXCEPT ![c] = Backoff * 2^attempt[c]]
          /\ trials' = trials \ {c}
      BY <1>4, <2>4 DEF Fail, NextAttempt
    <3> QED BY <2>1, <2>2, <3>1, <3>2, <3>3 DEF TypeOK
  <2> QED BY <2>3, <2>4
<1>5. ASSUME NEW c \in Callers, Retry(c) PROVE TypeOK'
  BY <1>5 DEF TypeOK, Retry, CountLeaks, breaker
<1>6. CASE Tick
  BY <1>6 DEF TypeOK, Tick, Older, CountLeaks, Closed
<1>7. CASE UNCHANGED vars \/ \E c \in Callers : Reject(c)
  BY <1>7 DEF TypeOK, Reject, vars
<1> QED BY <1>1, <1>2, <1>3, <1>4, <1>5, <1>6, <1>7 DEF Next, Answered

(* Every state is well typed. *)
THEOREM TypeCorrect == Spec => []TypeOK
<1>1. Init => TypeOK
  BY ThresholdAssumption, RecoveryAssumption, RetryAssumption DEF Init, TypeOK, Closed
<1> QED BY <1>1, TypeStep, PTL DEF Spec

(* Every step keeps the breaker's fields in agreement. *)
LEMMA CoherentStep == TypeOK /\ BreakerCoherent /\ [Next]_vars => BreakerCoherent'
<1> USE ThresholdAssumption, RecoveryAssumption
<1> SUFFICES ASSUME TypeOK, BreakerCoherent, [Next]_vars PROVE BreakerCoherent' OBVIOUS
<1>1. ASSUME NEW c \in Callers, Succeed(c) PROVE BreakerCoherent'
  BY <1>1 DEF Succeed, RecordSuccess, BreakerCoherent
<1>2. ASSUME NEW c \in Callers, Fail(c) PROVE BreakerCoherent'
  BY <1>2 DEF Fail, NextAttempt, RecordFailure, FailuresAfter, BreakerCoherent, TypeOK, Closed
<1>3. CASE Tick
  BY <1>3 DEF Tick, Older, BreakerCoherent, TypeOK, Closed
<1>4. CASE \/ \E c \in Callers : Enter(c) \/ Reject(c) \/ Refuse(c) \/ Retry(c)
           \/ UNCHANGED vars
  BY <1>4 DEF Enter, Reject, Refuse, Retry, breaker, vars, BreakerCoherent
<1> QED BY <1>1, <1>2, <1>3, <1>4 DEF Next, Answered

(* The breaker has an opening time exactly when its failure count has reached the threshold. *)
THEOREM Coherent == Spec => []BreakerCoherent
<1>1. Init => BreakerCoherent
  BY ThresholdAssumption DEF Init, BreakerCoherent, Closed
<1> QED BY <1>1, CoherentStep, TypeCorrect, PTL DEF Spec

(* A search that calls while the circuit is open has woken from its sleep, and is asleep no more. *)
LEMMA LeakStep == TypeOK /\ TypeOK' /\ LeakInv /\ [Next]_vars => LeakInv'
<1> SUFFICES ASSUME TypeOK, TypeOK', LeakInv, [Next]_vars PROVE LeakInv' OBVIOUS
<1> USE ThresholdAssumption, RecoveryAssumption
<1>1. ASSUME NEW c \in Callers, Enter(c) PROVE LeakInv'
  <2>1. ~IsOpen' BY <1>1 DEF Enter, IsOpen, breaker
  <2> QED BY <2>1 DEF LeakInv
<1>2. ASSUME NEW c \in Callers, Succeed(c) PROVE LeakInv'
  <2>1. ~IsOpen' BY <1>2 DEF Succeed, RecordSuccess, IsOpen
  <2> QED BY <2>1 DEF LeakInv
<1>3. ASSUME NEW c \in Callers, Refuse(c) PROVE LeakInv'
  BY <1>3 DEF Refuse, Leave, breaker, LeakInv, IsOpen, TypeOK
<1>4. ASSUME NEW c \in Callers, Fail(c) PROVE LeakInv'
  <2>1. CASE ~IsOpen' BY <2>1 DEF LeakInv
  <2>2. CASE IsOpen'
    <3>1. pc' = [pc EXCEPT ![c] = "idle"]
      BY <1>4, <2>2 DEF Fail, NextAttempt, GivesUp, Leave
    <3>2. leaked' = [d \in Callers |-> IF IsOpen THEN leaked[d] ELSE 0]
      BY <1>4, <2>2 DEF Fail, NextAttempt, CountLeaks
    <3> QED BY <3>1, <3>2 DEF LeakInv, TypeOK
  <2> QED BY <2>1, <2>2
<1>5. ASSUME NEW c \in Callers, Retry(c) PROVE LeakInv'
  <2>1. IsOpen' <=> IsOpen BY <1>5 DEF Retry, breaker, IsOpen
  <2>2. CASE ~IsOpen BY <2>1, <2>2 DEF LeakInv
  <2>3. CASE IsOpen
    <3>1. /\ pc[c] = "backoff" /\ pc' = [pc EXCEPT ![c] = "calling"]
          /\ leaked' = [d \in Callers |-> IF d \in {c} THEN leaked[d] + 1 ELSE leaked[d]]
      BY <1>5, <2>1, <2>3 DEF Retry, CountLeaks
    <3> QED BY <2>3, <3>1 DEF LeakInv, TypeOK
  <2> QED BY <2>2, <2>3
<1>6. CASE Tick
  <2>1. IsOpen' => IsOpen BY <1>6 DEF Tick, Older, IsOpen, TypeOK, Closed
  <2>2. CASE ~IsOpen' BY <2>2 DEF LeakInv
  <2>3. CASE IsOpen'
    <3>1. pc' = pc /\ leaked' = [d \in Callers |-> leaked[d]]
      BY <1>6, <2>1, <2>3 DEF Tick, CountLeaks
    <3> QED BY <2>1, <2>3, <3>1 DEF LeakInv
  <2> QED BY <2>2, <2>3
<1>7. CASE UNCHANGED vars \/ \E c \in Callers : Reject(c)
  BY <1>7 DEF Reject, vars, LeakInv, IsOpen
<1> QED BY <1>1, <1>2, <1>3, <1>4, <1>5, <1>6, <1>7 DEF Next, Answered

(* Nobody has leaked to begin with, and no search leaks twice. *)
LEMMA LeakBounds == (Init => LeakInv) /\ (TypeOK /\ LeakInv => LeakAtMostOncePerOpening)
<1>1. Init => LeakInv BY DEF Init, LeakInv, IsOpen
<1>2. TypeOK /\ LeakInv => LeakAtMostOncePerOpening
  BY DEF TypeOK, LeakInv, LeakAtMostOncePerOpening
<1> QED BY <1>1, <1>2

(* While the circuit stays open each search makes at most one inner call: the one its sleep was
   scheduled to make when the circuit opened. *)
THEOREM LeakOnce == Spec => []LeakAtMostOncePerOpening
BY LeakBounds, LeakStep, TypeCorrect, PTL DEF Spec
=============================================================================
