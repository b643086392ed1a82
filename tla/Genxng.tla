------------------------------- MODULE Genxng -------------------------------
(* Searches at the genxng backend, from the breaker to the wire: ResilientProvider around
   SearXNGProvider.search and _get_json (src/app/providers/resilience.py, searxng.py), composed of
   Resilience, EgressQueue (what Pacer implements) and the selection of engines by the health
   monitor (EngineHealth), of which only its changing answer appears here.

   A search runs without interruption from one await to the next. Between asking the breaker, or
   waking from a back-off, and its next await it chooses engines and asks the pacer for a slot:
   "turn" is the search that is doing so. An autocomplete call is paced alike, but names no engines. *)
EXTENDS Integers, FiniteSetsExt

CONSTANTS
    Callers,                                     \* searches that can be in progress
    Threshold, Recovery, MaxRetries, Backoff,    \* of the breaker and the retries
    Interval, Burst, MaxWait, Jitter,            \* of the pacer
    Selections,                                  \* what healthy_for(category) may answer
    Nobody

ASSUME BreakerAssumption ==
    /\ Threshold \in Nat \ {0} /\ Recovery \in Nat
    /\ MaxRetries \in Nat /\ \A n \in 0..MaxRetries : Backoff * 2^n \in Nat
ASSUME QueueAssumption ==
    Interval \in Nat \ {0} /\ Burst \in Nat /\ MaxWait \in Nat /\ Jitter \in Nat
ASSUME SelectionAssumption == Selections # {} /\ Nobody \notin Callers

VARIABLES
    failures, opened, stage, attempt, timer, leaked, trials,    \* Resilience
    lead, left,          \* EgressQueue
    selection,           \* what healthy_for answers now
    asked,               \* per search: the engines parameter of its call
    turn,
    held,                \* history: ticks the search had to wait for slots and back-offs
    lapse,               \* history: ticks its choice of engines is out of date while it has to wait
    unheard              \* history: a call ended unheard by the breaker since it last recorded one

breakerVars == <<failures, opened, stage, attempt, timer, leaked, trials>>
queueVars == <<lead, left>>
historyVars == <<held, lapse, unheard>>
vars == <<breakerVars, queueVars, selection, asked, turn, historyVars>>

Breaker == INSTANCE Resilience WITH pc <- stage
Queue == INSTANCE EgressQueue

Unasked == CHOOSE s \in Selections : TRUE
MaxLapse == MaxWait + Jitter

Init ==
    /\ Breaker!Init /\ Queue!Init
    /\ selection \in Selections
    /\ asked = [c \in Callers |-> Unasked]
    /\ turn = Nobody
    /\ held = [c \in Callers |-> 0] /\ lapse = [c \in Callers |-> 0] /\ unheard = FALSE

-----------------------------------------------------------------------------
(* A search that came to its end takes its frame with it. *)
Forget(c) ==
    IF stage'[c] = "idle"
    THEN /\ asked' = [asked EXCEPT ![c] = Unasked]
         /\ held' = [held EXCEPT ![c] = 0] /\ lapse' = [lapse EXCEPT ![c] = 0]
    ELSE UNCHANGED <<asked, held, lapse>>

Begin(c) ==
    /\ turn = Nobody /\ Breaker!Enter(c)
    /\ turn' = c
    /\ UNCHANGED <<queueVars, selection, asked, historyVars>>

Reject(c) == turn = Nobody /\ Breaker!Reject(c) /\ UNCHANGED vars

Retry(c) ==
    /\ turn = Nobody /\ Breaker!Retry(c)
    /\ turn' = c
    /\ UNCHANGED <<queueVars, selection, asked, historyVars>>

(* Engines are chosen anew for every attempt, then the slot is asked for. *)
SelectionOnce(c) == IF attempt[c] = 0 THEN selection ELSE asked[c]
Selection(c) == selection

Reserve(c) ==
    /\ turn = c
    /\ asked' = [asked EXCEPT ![c] = Selection(c)]
    /\ lapse' = [lapse EXCEPT ![c] = IF Selection(c) = selection THEN 0 ELSE @]
    /\ Queue!Join(c)
    /\ turn' = Nobody
    /\ UNCHANGED <<breakerVars, selection, held, unheard>>

(* OutboundSaturatedError becomes a ProviderError: counted by the breaker and retried like any. *)
SaturatedHoldsSlot(c) ==
    /\ turn = c /\ Queue!Full
    /\ Breaker!Fail(c)
    /\ lead' = lead + Interval
    /\ Forget(c)
    /\ turn' = Nobody /\ unheard' = FALSE
    /\ UNCHANGED <<left, selection>>

SaturatedTriesAtOnce(c) ==
    /\ turn = c /\ Queue!Full
    /\ Breaker!RecordFailure
    /\ UNCHANGED <<stage, attempt, timer, leaked, trials, queueVars, selection, asked, turn,
                   historyVars>>

Saturated(c) ==
    /\ turn = c /\ Queue!Full
    /\ Breaker!Fail(c)
    /\ Forget(c)
    /\ turn' = Nobody /\ unheard' = FALSE
    /\ UNCHANGED <<queueVars, selection>>

(* A vertical that genxng does not serve: the search gets no further than its first attempt. *)
Unsupported(c) ==
    /\ turn = c /\ attempt[c] = 0
    /\ Breaker!Refuse(c)
    /\ Forget(c)
    /\ turn' = Nobody
    /\ UNCHANGED <<queueVars, selection, unheard>>

(* The wait for the slot is over: the request goes out. *)
Depart(c) ==
    /\ turn = Nobody /\ Queue!Leave(c)
    /\ UNCHANGED <<breakerVars, selection, asked, turn, historyVars>>

OnWire(c) == stage[c] = "calling" /\ left[c] = Queue!Idle /\ turn # c

(* The backend's answer: blocks; an error; or a payload whose shape raises an exception that is no
   ProviderError. *)
Answered(c) ==
    /\ turn = Nobody /\ OnWire(c)
    /\ \/ Breaker!Succeed(c) /\ unheard' = FALSE
       \/ Breaker!Fail(c) /\ unheard' = FALSE
       \/ Breaker!Refuse(c) /\ unheard' = TRUE
    /\ Forget(c)
    /\ UNCHANGED <<queueVars, selection, turn>>

(* A probe round records an engine, or learns of another configuration. *)
Verdict ==
    /\ turn = Nobody
    /\ selection' \in Selections \ {selection}
    /\ UNCHANGED <<breakerVars, queueVars, asked, turn, historyVars>>

Waits(c) == left[c] > 0 \/ timer[c] > 0
Outdated(c) == stage[c] # "idle" /\ asked[c] # selection

AtRest == opened \in {Breaker!Closed, Recovery} /\ \A c \in Callers : timer[c] = 0

Tick ==
    /\ turn = Nobody
    /\ IF AtRest THEN UNCHANGED breakerVars ELSE Breaker!Tick
    /\ Queue!Elapse
    /\ held' = [c \in Callers |-> IF Waits(c) THEN held[c] + 1 ELSE held[c]]
    /\ lapse' = [c \in Callers |->
          IF Waits(c) /\ Outdated(c) /\ lapse[c] <= MaxLapse THEN lapse[c] + 1 ELSE lapse[c]]
    /\ UNCHANGED <<selection, asked, turn, unheard>>

Running(c) == Reserve(c) \/ Saturated(c) \/ Unsupported(c)
Woken(c) == Retry(c) \/ Depart(c) \/ Answered(c)

Next == \/ Tick \/ Verdict
        \/ \E c \in Callers : Begin(c) \/ Reject(c) \/ Running(c) \/ Woken(c)

(* The event loop runs what is ready in the order it became ready: whoever is ready again and again
   gets its turn. HTTP calls have timeouts, sleeps end, time passes. *)
Fairness ==
    /\ SF_vars(Tick)
    /\ \A c \in Callers : WF_vars(Running(c)) /\ SF_vars(Woken(c))

Spec == Init /\ [][Next]_vars /\ Fairness

-----------------------------------------------------------------------------
(* Properties *)

TypeOK ==
    /\ Breaker!TypeOK
    /\ lead \in -(Burst * Interval)..(MaxWait + Interval)
    /\ left \in [Callers -> -1..(MaxWait + Jitter)]
    /\ selection \in Selections /\ asked \in [Callers -> Selections]
    /\ turn \in Callers \cup {Nobody}
    /\ turn # Nobody => stage[turn] = "calling" /\ left[turn] = Queue!Idle
    /\ \A c \in Callers : left[c] # Queue!Idle => stage[c] = "calling"
    /\ held \in [Callers -> Nat] /\ lapse \in [Callers -> 0..(MaxLapse + 1)]
    /\ unheard \in BOOLEAN

(* With pacing, saturation and the choice of engines inside every attempt, the searches are still
   those of Resilience, liveness included: what holds there of the breaker, the retries and the end
   of every search holds of the composition. *)
BreakerSpec == Breaker!Spec
BreakerSafety == Breaker!Init /\ [][Breaker!Next]_(Breaker!vars)

(* The engines a request asks for were the monitor's choice no longer than one wait for a slot ago,
   however often the search was retried: waking from a back-off it chooses again (searxng.py chooses
   inside search, which the retry loop calls). *)
ChoiceIsRecent == \A c \in Callers : stage[c] = "calling" /\ turn # c => lapse[c] <= MaxLapse

(* Why: what is out of date and what is left to wait are together no more than one wait, and a search
   that calls is not asleep. *)
Awake == \A c \in Callers : stage[c] # "backoff" => timer[c] = 0
StillToWait(c) == IF left[c] > 0 THEN left[c] ELSE 0
LapseInv ==
    Awake /\ \A c \in Callers :
        stage[c] = "calling" /\ turn # c => lapse[c] + StillToWait(c) <= MaxLapse

(* What the service itself makes a search wait, slots and back-offs of all attempts together, is
   bounded: saturation, which is met without a wait, only takes from it. *)
Sleeps == [n \in 0..MaxRetries |-> Backoff * 2^n]
Slept(retries) == MapThenSumSet(LAMBDA n : Sleeps[n], 0..(retries - 1))
Budget(slots, retries) == slots * MaxLapse + Slept(retries)
HeldBackBounded == \A c \in Callers : held[c] <= Budget(MaxRetries + 1, MaxRetries)

(* Why: what a search was made to wait and what is left of its present wait fit into what its attempts
   so far account for; it can only be asleep after an attempt that failed. *)
HeldInv ==
    Awake /\ \A c \in Callers :
        /\ stage[c] = "idle" => held[c] = 0
        /\ stage[c] = "backoff" => held[c] + timer[c] <= Budget(attempt[c], attempt[c])
        /\ stage[c] = "calling" /\ turn = c => held[c] <= Budget(attempt[c], attempt[c])
        /\ stage[c] = "calling" /\ turn # c =>
              held[c] + StillToWait(c) <= Budget(attempt[c] + 1, attempt[c])

(* The queue alone cannot keep the circuit open: when it is half-open and no call is under way, a
   trial finds room in the queue and reaches the backend, provided that the recovery period is not
   shorter than the slots are apart. (A call that ended unheard, with an exception the breaker is
   not told of, is excepted: it took its slot during the recovery period.) *)
NobodyCalls == \A c \in Callers : stage[c] # "calling"
TrialFindsRoom ==
    Recovery >= Interval /\ Breaker!HalfOpen /\ NobodyCalls /\ ~unheard => ~Queue!Full

(* Why: once the last call has failed the queue can only have become shorter. *)
NobodyHoldsSlot == \A c \in Callers : stage[c] # "calling" \/ turn = c
Draining ==
    opened # Breaker!Closed /\ NobodyHoldsSlot /\ ~unheard =>
        lead <= MaxWait + Interval - opened \/ lead <= MaxWait

RoomInv == Breaker!BreakerCoherent /\ Draining
=============================================================================
