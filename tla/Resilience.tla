----------------------------- MODULE Resilience -----------------------------
(* ResilientProvider and its CircuitBreaker (src/app/providers/resilience.py): concurrent searches
   share one breaker; each makes an inner call, and on a transient failure sleeps and retries. The
   awaits are the inner call and the sleep; what runs between them is one action.

   The monotonic clock is kept as ages: "opened" is the time since _opened_at was set, capped at
   Recovery because is_open only asks whether that much has passed. _failures is capped at the
   threshold because only ">= threshold" is ever asked of it. *)
EXTENDS Integers, FiniteSets

CONSTANTS
    Callers,             \* searches that can be in progress at the same time
    Threshold,           \* max(1, breaker_failure_threshold)
    Recovery,            \* breaker_recovery_seconds, in ticks
    MaxRetries,          \* max(0, provider_max_retries)
    Backoff              \* provider_backoff_seconds, in ticks

Closed == -1             \* _opened_at is None

ASSUME ThresholdAssumption == Threshold \in Nat \ {0}
ASSUME RecoveryAssumption == Recovery \in Nat
ASSUME RetryAssumption == MaxRetries \in Nat /\ \A n \in 0..MaxRetries : Backoff * 2^n \in Nat

VARIABLES
    failures, opened,    \* the breaker: _failures, age of _opened_at
    pc,                  \* per search: no search, awaiting the inner call, awaiting the sleep
    attempt, timer,      \* per search: retries made, time left to sleep
    leaked,              \* history: inner calls the search began since the circuit opened
    trials               \* history: searches admitted half-open whose inner call is running

breaker == <<failures, opened>>
vars == <<failures, opened, pc, attempt, timer, leaked, trials>>

-----------------------------------------------------------------------------
IsOpen == opened # Closed /\ opened < Recovery
HalfOpen == opened # Closed /\ opened >= Recovery

RecordSuccessKeepsCount == failures' = failures /\ opened' = Closed
RecordSuccess == failures' = 0 /\ opened' = Closed

FailuresAfter == IF failures < Threshold THEN failures + 1 ELSE failures

RecordFailure ==
    /\ failures' = FailuresAfter
    /\ opened' = IF FailuresAfter >= Threshold THEN 0 ELSE opened

Init ==
    /\ failures = 0 /\ opened = Closed
    /\ pc = [c \in Callers |-> "idle"]
    /\ attempt = [c \in Callers |-> 0]
    /\ timer = [c \in Callers |-> 0]
    /\ leaked = [c \in Callers |-> 0]
    /\ trials = {}

(* The search returns or raises: its frame is gone. *)
Leave(c) ==
    /\ pc' = [pc EXCEPT ![c] = "idle"]
    /\ attempt' = [attempt EXCEPT ![c] = 0]
    /\ trials' = trials \ {c}
    /\ UNCHANGED timer

(* Leaks are counted per opening: the count starts again whenever the circuit is not open. *)
CountLeaks(began) ==
    leaked' = [c \in Callers |->
        IF ~IsOpen' THEN 0
        ELSE IF c \in began /\ IsOpen THEN leaked[c] + 1
        ELSE IF IsOpen THEN leaked[c] ELSE 0]

(* A search begins: breaker.allow() is asked once, here. *)
Enter(c) ==
    /\ pc[c] = "idle" /\ ~IsOpen
    /\ pc' = [pc EXCEPT ![c] = "calling"]
    /\ trials' = IF HalfOpen THEN trials \cup {c} ELSE trials
    /\ UNCHANGED <<breaker, attempt, timer>>
    /\ CountLeaks({c})

(* ... and raises at once when the circuit is open; nothing changes. *)
RejectCounts(c) ==
    pc[c] = "idle" /\ IsOpen /\ RecordFailure /\ UNCHANGED <<pc, attempt, timer, leaked, trials>>
Reject(c) == pc[c] = "idle" /\ IsOpen /\ UNCHANGED vars

(* The inner call returned blocks. *)
Succeed(c) ==
    /\ pc[c] = "calling"
    /\ RecordSuccess
    /\ Leave(c)
    /\ CountLeaks({})

(* A NON_RETRYABLE error, or an exception that is no ProviderError: the breaker is not told. *)
Refuse(c) ==
    /\ pc[c] = "calling"
    /\ Leave(c)
    /\ UNCHANGED <<breaker, timer, leaked>>

(* A transient ProviderError: it counts, then the search gives up or goes to sleep. *)
GivesUpNever(c) == FALSE
GivesUpWhenSpent(c) == attempt[c] >= MaxRetries
GivesUp(c) == attempt[c] >= MaxRetries \/ IsOpen'

RetriesUncounted(c) == attempt[c]
NextAttempt(c) == attempt[c] + 1

Fail(c) ==
    /\ pc[c] = "calling"
    /\ RecordFailure
    /\ IF GivesUp(c)
       THEN Leave(c)
       ELSE /\ pc' = [pc EXCEPT ![c] = "backoff"]
            /\ attempt' = [attempt EXCEPT ![c] = NextAttempt(c)]
            /\ timer' = [timer EXCEPT ![c] = Backoff * 2^attempt[c]]
            /\ trials' = trials \ {c}
    /\ CountLeaks({})

(* The sleep is over: the loop calls the inner provider again, without asking the breaker. *)
Retry(c) ==
    /\ pc[c] = "backoff" /\ timer[c] = 0
    /\ pc' = [pc EXCEPT ![c] = "calling"]
    /\ UNCHANGED <<breaker, attempt, timer, trials>>
    /\ CountLeaks({c})

Older(age) == IF age # Closed /\ age < Recovery THEN age + 1 ELSE age

Tick ==
    /\ opened' = Older(opened)
    /\ timer' = [c \in Callers |-> IF timer[c] > 0 THEN timer[c] - 1 ELSE 0]
    /\ <<opened', timer'>> # <<opened, timer>>
    /\ CountLeaks({})
    /\ UNCHANGED <<failures, pc, attempt, trials>>

Answered(c) == Succeed(c) \/ Refuse(c) \/ Fail(c)

Next == Tick \/ \E c \in Callers : Enter(c) \/ Reject(c) \/ Answered(c) \/ Retry(c)

(* Inner calls end (HTTP timeouts), sleeps end, time passes. Nothing makes callers come. *)
Fairness == WF_vars(Tick) /\ \A c \in Callers : WF_vars(Answered(c)) /\ WF_vars(Retry(c))

Spec == Init /\ [][Next]_vars /\ Fairness

-----------------------------------------------------------------------------
(* Properties *)

TypeOK ==
    /\ failures \in 0..Threshold
    /\ opened \in {Closed} \cup 0..Recovery
    /\ pc \in [Callers -> {"idle", "calling", "backoff"}]
    /\ attempt \in [Callers -> 0..MaxRetries]
    /\ timer \in [Callers -> Nat]
    /\ leaked \in [Callers -> Nat]
    /\ trials \subseteq Callers

(* The two fields of the breaker agree, whatever results arrive in whatever order: it has an opening
   time exactly when the failure count has reached the threshold. A success never leaves a
   closed breaker that is one failure from opening, a failure never leaves a full count closed. *)
BreakerCoherent == opened # Closed <=> failures >= Threshold

(* While the circuit stays open a search makes at most the one inner call its sleep was already
   scheduled to make: however often stragglers re-stamp the opening, an open circuit cannot be
   hammered through the retry loop. *)
LeakAtMostOncePerOpening == IsOpen => \A c \in Callers : leaked[c] <= 1

(* Why: a sleeping search is one that has not leaked yet, and an idle one cannot enter. *)
LeakInv == IsOpen => \A c \in Callers : leaked[c] + (IF pc[c] = "backoff" THEN 1 ELSE 0) <= 1

(* Every search ends: no interleaving of other searches' successes, which reset the breaker, keeps
   one retrying. *)
EverySearchEnds == \A c \in Callers : pc[c] # "idle" ~> pc[c] = "idle"

(* An open circuit becomes half-open or closes: late failures of calls that began before may extend
   the opening, rejected callers may not, so it cannot stay open for ever. *)
OpenCircuitRecovers == IsOpen ~> ~IsOpen

-----------------------------------------------------------------------------
(* What the documents say and the code does not do *)

(* resilience.py, CircuitBreaker: "half-open after a recovery period (one trial call decides whether
   it closes or reopens)". *)
OneTrialCall == Cardinality(trials) <= 1
=============================================================================
