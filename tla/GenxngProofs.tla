---------------------------- MODULE GenxngProofs ----------------------------
(* Theorems about searches at the genxng backend, for every number of searches and every setting of
   breaker, retries and pacer. *)
EXTENDS Genxng, Sums, TLAPS

BreakerFacts == INSTANCE ResilienceProofs WITH pc <- stage

-----------------------------------------------------------------------------
(* The breaker of the composition is the one ResilienceProofs is about. *)
LEMMA SameBreaker ==
    /\ [Breaker!Next]_(Breaker!vars) <=> [BreakerFacts!Next]_(BreakerFacts!vars)
    /\ Breaker!TypeOK <=> BreakerFacts!TypeOK
    /\ Breaker!BreakerCoherent <=> BreakerFacts!BreakerCoherent
<1>1. [Breaker!Next]_(Breaker!vars) <=> [BreakerFacts!Next]_(BreakerFacts!vars)
  BY DEF Breaker!Next, BreakerFacts!Next, Breaker!Tick, BreakerFacts!Tick, Breaker!Enter,
       BreakerFacts!Enter, Breaker!Reject, BreakerFacts!Reject, Breaker!Answered,
       BreakerFacts!Answered, Breaker!Succeed, BreakerFacts!Succeed, Breaker!Refuse,
       BreakerFacts!Refuse, Breaker!Fail, BreakerFacts!Fail, Breaker!Retry,
       BreakerFacts!Retry, Breaker!Older, BreakerFacts!Older, Breaker!CountLeaks,
       BreakerFacts!CountLeaks, Breaker!RecordSuccess, BreakerFacts!RecordSuccess,
       Breaker!RecordFailure, BreakerFacts!RecordFailure, Breaker!FailuresAfter,
       BreakerFacts!FailuresAfter, Breaker!Leave, BreakerFacts!Leave, Breaker!GivesUp,
       BreakerFacts!GivesUp, Breaker!NextAttempt, BreakerFacts!NextAttempt, Breaker!IsOpen,
       BreakerFacts!IsOpen, Breaker!HalfOpen, BreakerFacts!HalfOpen, Breaker!Closed,
       BreakerFacts!Closed, Breaker!vars, BreakerFacts!vars, Breaker!breaker,
       BreakerFacts!breaker
<1>2. Breaker!TypeOK <=> BreakerFacts!TypeOK
  BY DEF Breaker!TypeOK, BreakerFacts!TypeOK, Breaker!Closed, BreakerFacts!Closed
<1>3. Breaker!BreakerCoherent <=> BreakerFacts!BreakerCoherent
  BY DEF Breaker!BreakerCoherent, BreakerFacts!BreakerCoherent, Breaker!Closed,
       BreakerFacts!Closed
<1> QED BY <1>1, <1>2, <1>3

(* Every step of the composition is a step of the breaker and the retry loop, or none. *)
LEMMA StepsOfBreaker == [Next]_vars => [Breaker!Next]_(Breaker!vars)
<1> SUFFICES ASSUME [Next]_vars PROVE [Breaker!Next]_(Breaker!vars) OBVIOUS
<1>1. ASSUME NEW c \in Callers, Begin(c) PROVE Breaker!Next
  BY <1>1 DEF Begin, Breaker!Next
<1>2. ASSUME NEW c \in Callers, Reject(c) PROVE Breaker!Next
  BY <1>2 DEF Reject, Breaker!Next
<1>3. ASSUME NEW c \in Callers, Retry(c) PROVE Breaker!Next
  BY <1>3 DEF Retry, Breaker!Next
<1>4. ASSUME NEW c \in Callers, Saturated(c) \/ Unsupported(c) \/ Answered(c) PROVE Breaker!Next
  BY <1>4 DEF Saturated, Unsupported, Answered, Breaker!Next, Breaker!Answered
<1>5. CASE Verdict \/ UNCHANGED vars \/ \E c \in Callers : Reserve(c) \/ Depart(c)
  BY <1>5 DEF Verdict, vars, Reserve, Depart, breakerVars, Breaker!vars
<1>6. CASE Tick
  BY <1>6 DEF Tick, breakerVars, Breaker!vars, Breaker!Next
<1> QED BY <1>1, <1>2, <1>3, <1>4, <1>5, <1>6 DEF Next, Running, Woken

(* The searches with pacing, saturation and selection in them behave as Resilience says (resilience.py
   around searxng.py): the safety part of BreakerSpec. *)
THEOREM ImplementsBreaker == Spec => BreakerSafety
<1>1. Init => Breaker!Init BY DEF Init
<1> QED BY <1>1, StepsOfBreaker, PTL DEF Spec, BreakerSafety

(* A step keeps the breaker's variables in their types and its two fields in agreement. *)
LEMMA BreakerStep ==
    [Next]_vars /\ Breaker!TypeOK =>
        Breaker!TypeOK' /\ (Breaker!BreakerCoherent => Breaker!BreakerCoherent')
<1>1. SUFFICES ASSUME [Next]_vars, Breaker!TypeOK
      PROVE Breaker!TypeOK' /\ (Breaker!BreakerCoherent => Breaker!BreakerCoherent')
  OBVIOUS
<1>2. [BreakerFacts!Next]_(BreakerFacts!vars) /\ BreakerFacts!TypeOK
  BY <1>1, SameBreaker, StepsOfBreaker
<1>3. BreakerFacts!TypeOK' BY <1>2, BreakerFacts!TypeStep, BreakerAssumption
<1>4. BreakerFacts!BreakerCoherent => BreakerFacts!BreakerCoherent'
  BY <1>2, BreakerFacts!CoherentStep, BreakerAssumption
<1>5. Breaker!TypeOK'
  BY <1>3 DEF Breaker!TypeOK, BreakerFacts!TypeOK, Breaker!Closed, BreakerFacts!Closed
<1>6. Breaker!BreakerCoherent => Breaker!BreakerCoherent'
  BY <1>4 DEF Breaker!BreakerCoherent, BreakerFacts!BreakerCoherent, Breaker!Closed,
       BreakerFacts!Closed
<1> QED BY <1>5, <1>6

-----------------------------------------------------------------------------
(* What each step of the breaker does to a search's stage, and to the circuit. *)
LEMMA Ending ==
    ASSUME NEW c \in Callers, Breaker!TypeOK,
           Breaker!Succeed(c) \/ Breaker!Fail(c) \/ Breaker!Refuse(c)
    PROVE /\ stage[c] = "calling"
          /\ \E s \in {"idle", "backoff"} : stage' = [stage EXCEPT ![c] = s]
          /\ stage'[c] # "calling" /\ \A d \in Callers \ {c} : stage'[d] = stage[d]
          /\ stage'[c] = "idle" => timer' = timer
          /\ \A d \in Callers \ {c} : timer'[d] = timer[d]
BY DEF Breaker!Succeed, Breaker!Fail, Breaker!Refuse, Breaker!Leave, Breaker!TypeOK

(* A failure that leaves the circuit open stamps the opening anew. *)
LEMMA FailureStamps ==
    ASSUME NEW c \in Callers, Breaker!TypeOK, Breaker!BreakerCoherent, Breaker!Fail(c),
           opened' # Breaker!Closed
    PROVE opened' = 0
BY BreakerAssumption DEF Breaker!Fail, Breaker!RecordFailure, Breaker!FailuresAfter,
   Breaker!BreakerCoherent, Breaker!TypeOK

(* The bounds of the queue. *)
LEMMA QueueBounds ==
    /\ Burst * Interval \in Nat /\ Queue!Deepest = -(Burst * Interval) /\ Queue!Deepest <= 0
    /\ MaxLapse \in Nat /\ MaxLapse = MaxWait + Jitter /\ Queue!Idle = -1 /\ Breaker!Closed = -1
BY QueueAssumption DEF Queue!Deepest, MaxLapse, Queue!Idle, Breaker!Closed

(* Forgetting keeps the history's types. *)
LEMMA ForgetStep ==
    ASSUME NEW c \in Callers, Forget(c),
           asked \in [Callers -> Selections], held \in [Callers -> Nat],
           lapse \in [Callers -> 0..(MaxLapse + 1)]
    PROVE /\ asked' \in [Callers -> Selections] /\ held' \in [Callers -> Nat]
          /\ lapse' \in [Callers -> 0..(MaxLapse + 1)]
          /\ \A d \in Callers : lapse'[d] <= lapse[d]
<1>1. Unasked \in Selections BY SelectionAssumption DEF Unasked
<1> QED BY <1>1, QueueBounds DEF Forget

(* Every state is well typed; in particular only a search that calls is in the queue. *)
THEOREM TypeCorrect == Spec => []TypeOK
<1> USE QueueBounds, QueueAssumption
<1>1. Init => TypeOK
  <2> SUFFICES ASSUME Init PROVE TypeOK OBVIOUS
  <2>1. Breaker!TypeOK
    BY BreakerAssumption DEF Init, Breaker!Init, Breaker!TypeOK
  <2>2. Unasked \in Selections BY SelectionAssumption DEF Unasked
  <2>3. lead \in -(Burst * Interval)..(MaxWait + Interval) BY DEF Init, Queue!Init
  <2>4. left \in [Callers -> -1..(MaxWait + Jitter)] /\ \A c \in Callers : left[c] = Queue!Idle
    BY DEF Init, Queue!Init
  <2>5. turn = Nobody /\ selection \in Selections /\ unheard = FALSE BY DEF Init
  <2>6. /\ asked \in [Callers -> Selections] /\ held \in [Callers -> Nat]
        /\ lapse \in [Callers -> 0..(MaxLapse + 1)]
    BY <2>2 DEF Init
  <2> QED BY <2>1, <2>3, <2>4, <2>5, <2>6 DEF TypeOK
<1>2. TypeOK /\ [Next]_vars => TypeOK'
  <2> SUFFICES ASSUME TypeOK, [Next]_vars PROVE TypeOK' OBVIOUS
  <2>0. Breaker!TypeOK' BY BreakerStep DEF TypeOK
  <2>t. stage \in [Callers -> {"idle", "calling", "backoff"}] BY DEF TypeOK, Breaker!TypeOK
  <2>1. ASSUME NEW c \in Callers, Begin(c) PROVE TypeOK'
    <3>1. stage[c] = "idle" /\ stage' = [stage EXCEPT ![c] = "calling"]
      BY <2>1 DEF Begin, Breaker!Enter
    <3> QED BY <2>0, <2>t, <2>1, <3>1 DEF Begin, TypeOK, queueVars, historyVars
  <2>2. ASSUME NEW c \in Callers, Retry(c) PROVE TypeOK'
    <3>1. stage[c] = "backoff" /\ stage' = [stage EXCEPT ![c] = "calling"]
      BY <2>2 DEF Retry, Breaker!Retry
    <3> QED BY <2>0, <2>t, <2>2, <3>1 DEF Retry, TypeOK, queueVars, historyVars
  <2>3. ASSUME NEW c \in Callers, Reserve(c) PROVE TypeOK'
    <3>1. /\ turn = c /\ turn' = Nobody /\ stage' = stage /\ Queue!Join(c)
          /\ selection' = selection /\ held' = held /\ unheard' = unheard
      BY <2>3 DEF Reserve, breakerVars
    <3>2. asked' \in [Callers -> Selections] /\ lapse' \in [Callers -> 0..(MaxLapse + 1)]
      BY <2>3 DEF Reserve, Selection, TypeOK
    <3>3. lead' \in -(Burst * Interval)..(MaxWait + Interval)
      BY <3>1 DEF Queue!Join, Queue!Full, Queue!Wait, TypeOK
    <3>4. PICK jitter \in 0..Jitter : left' = [left EXCEPT ![c] = Queue!Wait + jitter]
      BY <3>1 DEF Queue!Join
    <3>5. Queue!Wait + jitter \in 0..(MaxWait + Jitter)
      BY <3>1 DEF Queue!Join, Queue!Full, Queue!Wait, TypeOK
    <3>6. /\ left' \in [Callers -> -1..(MaxWait + Jitter)]
          /\ \A d \in Callers : left'[d] # Queue!Idle => stage[d] = "calling"
      BY <3>1, <3>4, <3>5, SelectionAssumption DEF TypeOK
    <3>7. turn' = Nobody /\ selection' \in Selections /\ held' \in [Callers -> Nat]
          /\ unheard' \in BOOLEAN
      BY <3>1 DEF TypeOK
    <3>8. \A d \in Callers : left'[d] # Queue!Idle => stage'[d] = "calling" BY <3>1, <3>6
    <3> QED BY <2>0, <3>2, <3>3, <3>6, <3>7, <3>8 DEF TypeOK
  <2>4. ASSUME NEW c \in Callers, Saturated(c) PROVE TypeOK'
    <3>1. /\ turn = c /\ turn' = Nobody /\ UNCHANGED <<lead, left, selection>>
          /\ unheard' = FALSE /\ Forget(c) /\ Breaker!Fail(c)
      BY <2>4 DEF Saturated, queueVars
    <3> QED BY <2>0, <3>1, Ending, ForgetStep, SelectionAssumption DEF TypeOK
  <2>5. ASSUME NEW c \in Callers, Unsupported(c) PROVE TypeOK'
    <3>1. /\ turn = c /\ turn' = Nobody /\ UNCHANGED <<lead, left, selection, unheard>>
          /\ Forget(c) /\ Breaker!Refuse(c)
      BY <2>5 DEF Unsupported, queueVars
    <3> QED BY <2>0, <3>1, Ending, ForgetStep, SelectionAssumption DEF TypeOK
  <2>6. ASSUME NEW c \in Callers, Answered(c) PROVE TypeOK'
    <3>1. /\ turn = Nobody /\ left[c] = Queue!Idle /\ UNCHANGED <<lead, left, selection, turn>>
          /\ unheard' \in BOOLEAN /\ Forget(c)
          /\ Breaker!Succeed(c) \/ Breaker!Fail(c) \/ Breaker!Refuse(c)
      BY <2>6 DEF Answered, OnWire, queueVars
    <3> QED BY <2>0, <3>1, Ending, ForgetStep, SelectionAssumption DEF TypeOK
  <2>7. ASSUME NEW c \in Callers, Depart(c) PROVE TypeOK'
    BY <2>0, <2>7 DEF Depart, Queue!Leave, TypeOK, breakerVars, historyVars
  <2>8. CASE Tick
    <3>1. stage' = stage
      BY <2>8 DEF Tick, breakerVars, Breaker!Tick
    <3>2. lead' \in -(Burst * Interval)..(MaxWait + Interval)
      BY <2>8 DEF Tick, Queue!Elapse, Queue!Sooner, TypeOK
    <3>3. /\ left' \in [Callers -> -1..(MaxWait + Jitter)]
          /\ \A d \in Callers : left'[d] = Queue!Idle <=> left[d] = Queue!Idle
      BY <2>8 DEF Tick, Queue!Elapse, Queue!Sooner, TypeOK
    <3>4. held' \in [Callers -> Nat] /\ lapse' \in [Callers -> 0..(MaxLapse + 1)]
      BY <2>8 DEF Tick, TypeOK
    <3> QED BY <2>0, <2>8, <3>1, <3>2, <3>3, <3>4 DEF Tick, TypeOK
  <2>9. CASE Verdict \/ UNCHANGED vars \/ \E c \in Callers : Reject(c)
    BY <2>0, <2>9 DEF Verdict, Reject, vars, breakerVars, queueVars, historyVars, TypeOK
  <2> QED BY <2>1, <2>2, <2>3, <2>4, <2>5, <2>6, <2>7, <2>8, <2>9 DEF Next, Running, Woken
<1> QED BY <1>1, <1>2, PTL DEF Spec

-----------------------------------------------------------------------------
(* Once the last call of an opening has failed, the queue can only have become shorter. *)
LEMMA RoomStep == TypeOK /\ RoomInv /\ [Next]_vars => RoomInv'
<1> USE QueueBounds, QueueAssumption, BreakerAssumption
<1> SUFFICES ASSUME TypeOK, RoomInv, [Next]_vars PROVE Draining'
  BY BreakerStep DEF TypeOK, RoomInv
<1>t. /\ stage \in [Callers -> {"idle", "calling", "backoff"}]
      /\ opened \in {-1} \cup 0..Recovery /\ lead \in Int /\ lead <= MaxWait + Interval
      /\ Breaker!TypeOK /\ Breaker!BreakerCoherent
  BY DEF TypeOK, RoomInv, Breaker!TypeOK
<1>1. ASSUME NEW c \in Callers, Begin(c) \/ Retry(c) PROVE Draining'
  <2>1. /\ turn = Nobody /\ turn' = c /\ UNCHANGED <<opened, lead, unheard>>
        /\ stage' = [stage EXCEPT ![c] = "calling"] /\ stage[c] # "calling"
    BY <1>t, <1>1 DEF Begin, Retry, Breaker!Enter, Breaker!Retry, Breaker!breaker, queueVars,
                      historyVars
  <2>2. NobodyHoldsSlot' => NobodyHoldsSlot BY <1>t, <2>1, SelectionAssumption DEF NobodyHoldsSlot
  <2> QED BY <2>1, <2>2 DEF Draining, RoomInv
<1>2. ASSUME NEW c \in Callers, Reserve(c) PROVE Draining'
  <2>1. turn = c /\ turn' = Nobody /\ stage' = stage BY <1>2 DEF Reserve, breakerVars
  <2>2. stage'[c] = "calling" /\ turn' # c BY <2>1, SelectionAssumption DEF TypeOK
  <2> QED BY <2>2 DEF Draining, NobodyHoldsSlot
<1>3. ASSUME NEW c \in Callers, Breaker!Fail(c), lead' = lead PROVE Draining'
  <2>1. opened' # Breaker!Closed => opened' = 0 BY <1>t, <1>3, FailureStamps
  <2> QED BY <1>t, <1>3, <2>1 DEF Draining
<1>4. ASSUME NEW c \in Callers, Saturated(c) PROVE Draining'
  BY <1>3, <1>4 DEF Saturated, queueVars
<1>5. ASSUME NEW c \in Callers, Unsupported(c) PROVE Draining'
  <2>1. /\ turn = c /\ turn' = Nobody /\ UNCHANGED <<opened, lead, unheard>> /\ Breaker!Refuse(c)
    BY <1>5 DEF Unsupported, Breaker!Refuse, Breaker!breaker, queueVars
  <2>2. NobodyHoldsSlot' => NobodyHoldsSlot
    BY <1>t, <2>1, Ending, SelectionAssumption DEF NobodyHoldsSlot
  <2> QED BY <2>1, <2>2 DEF Draining, RoomInv
<1>6. ASSUME NEW c \in Callers, Answered(c) PROVE Draining'
  <2>1. lead' = lead BY <1>6 DEF Answered, queueVars
  <2>2. CASE Breaker!Succeed(c) BY <2>2 DEF Breaker!Succeed, Breaker!RecordSuccess, Draining
  <2>3. CASE Breaker!Fail(c) BY <1>3, <2>1, <2>3
  <2>4. CASE unheard' = TRUE BY <2>4 DEF Draining
  <2> QED BY <1>6, <2>2, <2>3, <2>4 DEF Answered
<1>7. CASE Tick
  <2>1. turn' = turn /\ unheard' = unheard /\ stage' = stage
    BY <1>7 DEF Tick, breakerVars, Breaker!Tick
  <2>2. lead' = IF lead > Queue!Deepest THEN lead - 1 ELSE lead
    BY <1>7 DEF Tick, Queue!Elapse, Queue!Sooner
  <2>3. /\ opened' # Breaker!Closed => opened # Breaker!Closed
        /\ opened' # Breaker!Closed => opened' \in Int /\ opened' <= opened + 1
    BY <1>t, <1>7 DEF Tick, breakerVars, Breaker!Tick, Breaker!Older
  <2>4. NobodyHoldsSlot' => NobodyHoldsSlot BY <2>1 DEF NobodyHoldsSlot
  <2> QED BY <1>t, <2>1, <2>2, <2>3, <2>4 DEF Draining, RoomInv
<1>8. CASE Verdict \/ UNCHANGED vars \/ \E c \in Callers : Reject(c) \/ Depart(c)
  <2>1. UNCHANGED <<opened, lead, unheard, stage, turn>>
    BY <1>8 DEF Verdict, Reject, Depart, Queue!Leave, vars, breakerVars, queueVars, historyVars
  <2> QED BY <2>1 DEF Draining, NobodyHoldsSlot, RoomInv
<1> QED BY <1>1, <1>2, <1>4, <1>5, <1>6, <1>7, <1>8 DEF Next, Running, Woken

(* When the circuit is half-open and no call is under way, a trial finds room in the queue, for every
   setting with slots no further apart than the recovery period is long (resilience.py and
   pacing.py): the service's own queue cannot keep the circuit open. *)
THEOREM TrialHasRoom == Spec => []TrialFindsRoom
<1> USE QueueBounds, QueueAssumption, BreakerAssumption
<1>1. Init => RoomInv
  BY DEF Init, Breaker!Init, RoomInv, Draining, Breaker!BreakerCoherent
<1>2. TypeOK /\ RoomInv => TrialFindsRoom
  <2> SUFFICES ASSUME TypeOK, RoomInv, Recovery >= Interval, Breaker!HalfOpen, NobodyCalls, ~unheard
               PROVE ~Queue!Full
    BY DEF TrialFindsRoom
  <2>1. opened # Breaker!Closed /\ opened >= Recovery /\ opened \in Int /\ lead \in Int
    BY DEF Breaker!HalfOpen, TypeOK, Breaker!TypeOK
  <2>2. NobodyHoldsSlot BY DEF NobodyCalls, NobodyHoldsSlot
  <2>3. lead <= MaxWait BY <2>1, <2>2 DEF RoomInv, Draining
  <2> QED BY <2>1, <2>3 DEF Queue!Full, Queue!Wait
<1> QED BY <1>1, <1>2, RoomStep, TypeCorrect, PTL DEF Spec

-----------------------------------------------------------------------------
(* What is out of date about a choice of engines, and what is left to wait, are together no more than
   one wait for a slot. *)
LEMMA LapseStep == TypeOK /\ LapseInv /\ [Next]_vars => LapseInv'
<1> USE QueueBounds, QueueAssumption
<1> SUFFICES ASSUME TypeOK, LapseInv, [Next]_vars PROVE LapseInv' OBVIOUS
<1>t. /\ stage \in [Callers -> {"idle", "calling", "backoff"}] /\ timer \in [Callers -> Nat]
      /\ left \in [Callers -> -1..(MaxWait + Jitter)] /\ lapse \in [Callers -> 0..(MaxLapse + 1)]
      /\ Breaker!TypeOK
  BY DEF TypeOK, Breaker!TypeOK
<1>1. ASSUME NEW c \in Callers, Begin(c) \/ Retry(c) PROVE LapseInv'
  <2>1. /\ turn = Nobody /\ turn' = c /\ UNCHANGED <<timer, left, lapse>>
        /\ stage' = [stage EXCEPT ![c] = "calling"]
        /\ timer[c] = 0
    BY <1>1 DEF Begin, Retry, Breaker!Enter, Breaker!Retry, queueVars, historyVars, LapseInv, Awake
  <2> QED BY <1>t, <2>1, SelectionAssumption DEF LapseInv, Awake, StillToWait
<1>2. ASSUME NEW c \in Callers, Reserve(c) PROVE LapseInv'
  <2>1. turn = c /\ turn' = Nobody /\ UNCHANGED <<stage, timer>>
        /\ lapse' = [lapse EXCEPT ![c] = 0]
    BY <1>2 DEF Reserve, breakerVars, Selection
  <2>2. PICK jitter \in 0..Jitter : left' = [left EXCEPT ![c] = Queue!Wait + jitter]
    BY <1>2 DEF Reserve, Queue!Join
  <2>3. Queue!Wait + jitter \in 0..(MaxWait + Jitter)
    BY <1>2 DEF Reserve, Queue!Join, Queue!Full, Queue!Wait, TypeOK
  <2>4. PICK w \in 0..(MaxWait + Jitter) : left' = [left EXCEPT ![c] = w] BY <2>2, <2>3
  <2> QED BY <1>t, <2>1, <2>4, SelectionAssumption DEF LapseInv, Awake, StillToWait
<1>3. ASSUME NEW c \in Callers, Saturated(c) \/ Unsupported(c) \/ Answered(c) PROVE LapseInv'
  <2>1. /\ Breaker!Succeed(c) \/ Breaker!Fail(c) \/ Breaker!Refuse(c)
        /\ left' = left /\ Forget(c)
        /\ turn \in {c, Nobody} /\ turn' = Nobody
    BY <1>3 DEF Saturated, Unsupported, Answered, queueVars
  <2>2. \A d \in Callers : lapse'[d] \in Int /\ lapse'[d] <= lapse[d]
    BY <2>1, ForgetStep DEF TypeOK
  <2>3. Awake'
    BY <1>t, <2>1, Ending DEF LapseInv, Awake
  <2>4. \A d \in Callers : stage'[d] = "calling" => d # c /\ stage[d] = "calling"
    BY <2>1, <1>t, Ending
  <2>5. ASSUME NEW d \in Callers, stage'[d] = "calling", turn' # d
        PROVE lapse'[d] + StillToWait(d)' <= MaxLapse
    <3>1. lapse[d] + StillToWait(d) <= MaxLapse BY <2>1, <2>4, <2>5 DEF LapseInv
    <3>2. StillToWait(d)' = StillToWait(d) /\ StillToWait(d) \in Int /\ lapse[d] \in Int
      BY <1>t, <2>1 DEF StillToWait
    <3> QED BY <2>2, <3>1, <3>2
  <2> QED BY <2>3, <2>5 DEF LapseInv
<1>4. ASSUME NEW c \in Callers, Depart(c) PROVE LapseInv'
  <2>1. left' = [left EXCEPT ![c] = -1] /\ left[c] = 0 /\ UNCHANGED <<stage, timer, turn, lapse>>
    BY <1>4 DEF Depart, Queue!Leave, breakerVars, historyVars
  <2> QED BY <1>t, <2>1 DEF LapseInv, Awake, StillToWait
<1>5. CASE Tick
  <2>1. turn' = turn /\ stage' = stage
    BY <1>5 DEF Tick, breakerVars, Breaker!Tick
  <2>2. Awake'
    BY <1>5, <2>1, <1>t DEF Tick, breakerVars, Breaker!Tick, LapseInv, Awake
  <2>3. ASSUME NEW d \in Callers, stage'[d] = "calling", turn' # d
        PROVE lapse'[d] + StillToWait(d)' <= MaxLapse
    <3>1. lapse[d] + StillToWait(d) <= MaxLapse /\ timer[d] = 0 BY <2>1, <2>3 DEF LapseInv, Awake
    <3>2. left'[d] = IF left[d] > 0 THEN left[d] - 1 ELSE left[d]
      BY <1>t, <1>5 DEF Tick, Queue!Elapse, Queue!Sooner
    <3>3. lapse'[d] \in Int /\ lapse'[d] <= IF left[d] > 0 THEN lapse[d] + 1 ELSE lapse[d]
      BY <1>t, <1>5, <3>1 DEF Tick, Waits
    <3> QED BY <1>t, <3>1, <3>2, <3>3 DEF StillToWait
  <2> QED BY <2>2, <2>3 DEF LapseInv
<1>6. CASE Verdict \/ UNCHANGED vars \/ \E c \in Callers : Reject(c)
  <2>1. UNCHANGED <<stage, timer, turn, lapse, left>>
    BY <1>6 DEF Verdict, Reject, vars, breakerVars, queueVars, historyVars
  <2> QED BY <2>1 DEF LapseInv, Awake, StillToWait
<1> QED BY <1>1, <1>2, <1>3, <1>4, <1>5, <1>6 DEF Next, Running, Woken

(* The engines a request asks for were the monitor's choice no longer than one wait for a slot ago,
   whatever its retries, back-offs and the pacer's queue (searxng.py search). *)
THEOREM ChosenRecently == Spec => []ChoiceIsRecent
<1> USE QueueBounds, QueueAssumption
<1>1. Init => LapseInv
  BY DEF Init, Breaker!Init, Queue!Init, LapseInv, Awake, StillToWait
<1>2. TypeOK /\ LapseInv => ChoiceIsRecent
  BY DEF TypeOK, LapseInv, StillToWait, ChoiceIsRecent
<1> QED BY <1>1, <1>2, LapseStep, TypeCorrect, PTL DEF Spec

-----------------------------------------------------------------------------
(* The sleeps before the n-th retry, and what the next one adds. *)
LEMMA SleptGrows ==
    /\ \A n \in 0..MaxRetries : Slept(n) \in Nat /\ Slept(n) <= Slept(MaxRetries)
    /\ \A n \in 0..MaxRetries :
          n + 1 <= MaxRetries => Slept(n + 1) = Slept(n) + Backoff * 2^n
<1> USE BreakerAssumption
<1>1. \A n \in 0..MaxRetries : Sleeps[n] = Backoff * 2^n /\ Sleeps[n] \in Nat
  BY DEF Sleeps
<1>2. ASSUME NEW n \in 0..MaxRetries PROVE Slept(n) = SumOf(Sleeps, 0..(n - 1))
  BY Zenon DEF Slept, SumOf
<1>3. ASSUME NEW n \in 0..MaxRetries
      PROVE  IsFiniteSet(0..(n - 1)) /\ \A i \in 0..(n - 1) : Sleeps[i] \in Nat
  BY <1>1, FS_Interval
<1>4. ASSUME NEW n \in 0..MaxRetries PROVE Slept(n) \in Nat /\ Slept(n) <= Slept(MaxRetries)
  <2>1. 0..(n - 1) \in SUBSET (0..(MaxRetries - 1)) /\ MaxRetries \in 0..MaxRetries
    OBVIOUS
  <2>2. /\ SumOf(Sleeps, 0..(n - 1)) \in Nat
        /\ SumOf(Sleeps, 0..(n - 1)) <= SumOf(Sleeps, 0..(MaxRetries - 1))
    BY <1>3, <2>1, SumOfPart
  <2> QED
    BY <1>2, <2>1, <2>2
<1>5. ASSUME NEW n \in 0..MaxRetries, n + 1 <= MaxRetries
      PROVE  Slept(n + 1) = Slept(n) + Backoff * 2^n
  <2>1. n + 1 \in 0..MaxRetries /\ n \in 0..n /\ n + 1 - 1 = n /\ (0..n) \ {n} = 0..(n - 1)
    BY <1>5
  <2>2. IsFiniteSet(0..n) /\ \A i \in 0..n : Sleeps[i] \in Int
    <3>1. IsFiniteSet(0..n)
      BY FS_Interval
    <3>2. \A i \in 0..n : i \in 0..MaxRetries
      BY <1>5
    <3> QED
      BY <1>1, <3>1, <3>2
  <2>3. SumOf(Sleeps, 0..n) = Sleeps[n] + SumOf(Sleeps, (0..n) \ {n})
    BY <2>1, <2>2, SumOfSplit
  <2>4. Slept(n + 1) = Sleeps[n] + Slept(n)
    <3>1. Slept(n + 1) = SumOf(Sleeps, 0..(n + 1 - 1)) /\ Slept(n) = SumOf(Sleeps, 0..(n - 1))
      BY <1>2, <2>1
    <3>2. 0..(n + 1 - 1) = 0..n
      BY <2>1
    <3> QED
      BY <2>1, <2>3, <3>1, <3>2, Zenon
  <2> QED
    BY <1>1, <1>4, <2>4
<1> QED
  BY <1>4, <1>5

(* A budget is a number; one more slot adds a wait, one more retry its sleep; and it never exceeds
   what all retries account for. *)
LEMMA BudgetGrows ==
    ASSUME NEW n \in 0..MaxRetries
    PROVE  /\ Budget(n, n) \in Nat
           /\ Budget(n + 1, n) = Budget(n, n) + MaxLapse
           /\ n + 1 <= MaxRetries => Budget(n + 1, n + 1) = Budget(n + 1, n) + Backoff * 2^n
           /\ Budget(n + 1, n) <= Budget(MaxRetries + 1, MaxRetries)
<1> USE BreakerAssumption, QueueBounds
<1>1. Slept(n) \in Nat /\ Slept(n) <= Slept(MaxRetries) /\ Slept(MaxRetries) \in Nat
  BY SleptGrows
<1>2. (n + 1) * MaxLapse = n * MaxLapse + MaxLapse /\ n * MaxLapse \in Nat
  OBVIOUS
<1>3. (n + 1) * MaxLapse <= (MaxRetries + 1) * MaxLapse /\ (MaxRetries + 1) * MaxLapse \in Nat
  <2>1. (MaxRetries + 1) * MaxLapse = (n + 1) * MaxLapse + (MaxRetries - n) * MaxLapse
    OBVIOUS
  <2>2. (MaxRetries - n) * MaxLapse \in Nat /\ (n + 1) * MaxLapse \in Nat
    OBVIOUS
  <2> QED
    BY <2>1, <2>2
<1>4. n + 1 <= MaxRetries => Slept(n + 1) = Slept(n) + Backoff * 2^n /\ Backoff * 2^n \in Nat
  BY SleptGrows
<1> DEFINE one == n * MaxLapse
           next == (n + 1) * MaxLapse
           all == (MaxRetries + 1) * MaxLapse
           sleep == Backoff * 2^n
<1>5. one \in Nat /\ next = one + MaxLapse /\ all \in Nat /\ next <= all
  BY <1>2, <1>3
<1>6. n + 1 <= MaxRetries => Slept(n + 1) = Slept(n) + sleep /\ sleep \in Nat
  BY <1>4
<1>7. /\ Budget(n, n) = one + Slept(n) /\ Budget(n + 1, n) = next + Slept(n)
      /\ Budget(n + 1, n + 1) = next + Slept(n + 1)
      /\ Budget(MaxRetries + 1, MaxRetries) = all + Slept(MaxRetries)
  BY DEF Budget
<1> HIDE DEF one, next, all, sleep
<1>8. /\ Budget(n, n) \in Nat /\ Budget(n + 1, n) = Budget(n, n) + MaxLapse
      /\ n + 1 <= MaxRetries => Budget(n + 1, n + 1) = Budget(n + 1, n) + sleep
      /\ Budget(n + 1, n) <= Budget(MaxRetries + 1, MaxRetries)
  BY <1>1, <1>5, <1>6, <1>7
<1> QED
  BY <1>8 DEF sleep

(* A call that ends leaves the search's retry count and sleep as the next attempt needs them. *)
LEMMA FallsAsleep ==
    ASSUME NEW c \in Callers, Breaker!TypeOK,
           Breaker!Succeed(c) \/ Breaker!Fail(c) \/ Breaker!Refuse(c)
    PROVE  /\ stage'[c] \in {"idle", "backoff"}
           /\ stage'[c] = "backoff" =>
                 /\ attempt[c] \in 0..MaxRetries /\ attempt[c] + 1 <= MaxRetries
                 /\ attempt'[c] = attempt[c] + 1
                 /\ timer'[c] = Backoff * 2^attempt[c]
           /\ \A d \in Callers \ {c} : attempt'[d] = attempt[d]
BY BreakerAssumption DEF Breaker!Succeed, Breaker!Fail, Breaker!Refuse, Breaker!Leave, Breaker!GivesUp,
   Breaker!NextAttempt, Breaker!TypeOK

(* What HeldInv says of one search. *)
HeldBy(c) ==
    /\ stage[c] = "idle" => held[c] = 0
    /\ stage[c] = "backoff" => held[c] + timer[c] <= Budget(attempt[c], attempt[c])
    /\ stage[c] = "calling" /\ turn = c => held[c] <= Budget(attempt[c], attempt[c])
    /\ stage[c] = "calling" /\ turn # c =>
          held[c] + StillToWait(c) <= Budget(attempt[c] + 1, attempt[c])

(* Searches a step does not concern keep within their budgets. *)
LEMMA HeldUnchanged ==
    ASSUME NEW d \in Callers, HeldBy(d),
           /\ stage'[d] = stage[d] /\ timer'[d] = timer[d] /\ attempt'[d] = attempt[d]
           /\ held'[d] = held[d] /\ left'[d] = left[d] /\ (turn' = d <=> turn = d)
    PROVE  HeldBy(d)'
BY DEF HeldBy, StillToWait

(* Every step keeps every search within its budget. *)
LEMMA HeldStep == TypeOK /\ HeldInv /\ [Next]_vars => HeldInv'
<1> USE QueueBounds, QueueAssumption
<1> SUFFICES ASSUME TypeOK, HeldInv, [Next]_vars PROVE HeldInv'
  OBVIOUS
<1>t. /\ stage \in [Callers -> {"idle", "calling", "backoff"}] /\ timer \in [Callers -> Nat]
      /\ left \in [Callers -> -1..(MaxWait + Jitter)] /\ held \in [Callers -> Nat]
      /\ attempt \in [Callers -> 0..MaxRetries]
      /\ Breaker!TypeOK /\ Nobody \notin Callers
  BY SelectionAssumption DEF TypeOK, Breaker!TypeOK
<1>h. HeldInv <=> Awake /\ \A c \in Callers : HeldBy(c)
  BY DEF HeldInv, HeldBy
<1>i. Awake' /\ (\A c \in Callers : HeldBy(c)') => HeldInv'
  BY DEF HeldInv, HeldBy
<1>b. \A c \in Callers :
         /\ Budget(attempt[c], attempt[c]) \in Nat
         /\ Budget(attempt[c] + 1, attempt[c]) = Budget(attempt[c], attempt[c]) + MaxLapse
  BY <1>t, BudgetGrows
<1>1. ASSUME NEW c \in Callers, Begin(c) \/ Retry(c) PROVE HeldInv'
  <2>1. /\ turn = Nobody /\ turn' = c /\ UNCHANGED <<timer, attempt, left, held>>
        /\ stage' = [stage EXCEPT ![c] = "calling"] /\ timer[c] = 0
        /\ stage[c] \in {"idle", "backoff"}
    BY <1>1, <1>h DEF Begin, Retry, Breaker!Enter, Breaker!Retry, queueVars, historyVars, Awake
  <2>2. HeldBy(c)'
    BY <1>t, <1>h, <1>b, <2>1 DEF HeldBy
  <2>3. \A d \in Callers \ {c} : HeldBy(d)'
    BY <1>t, <1>h, <2>1, HeldUnchanged
  <2>4. Awake'
    BY <1>t, <1>h, <2>1 DEF Awake
  <2> QED
    BY <1>i, <2>2, <2>3, <2>4
<1>2. ASSUME NEW c \in Callers, Reserve(c) PROVE HeldInv'
  <2>1. /\ turn = c /\ turn' = Nobody /\ UNCHANGED <<stage, timer, attempt, held>>
        /\ stage[c] = "calling"
    BY <1>t, <1>2 DEF Reserve, breakerVars, TypeOK
  <2>2. PICK jitter \in 0..Jitter : left' = [left EXCEPT ![c] = Queue!Wait + jitter]
    BY <1>2 DEF Reserve, Queue!Join
  <2>3. Queue!Wait + jitter \in 0..MaxLapse
    BY <1>2 DEF Reserve, Queue!Join, Queue!Full, Queue!Wait, TypeOK
  <2>4. HeldBy(c)'
    <3>1. left'[c] \in 0..MaxLapse /\ StillToWait(c)' \in 0..MaxLapse
      BY <1>t, <2>2, <2>3 DEF StillToWait
    <3>2. held[c] <= Budget(attempt[c], attempt[c])
      BY <1>h, <2>1 DEF HeldBy
    <3>3. held'[c] + StillToWait(c)' <= Budget(attempt[c] + 1, attempt[c])
      BY <1>t, <1>b, <2>1, <3>1, <3>2
    <3> QED
      BY <1>t, <2>1, <3>3 DEF HeldBy
  <2>5. \A d \in Callers \ {c} : HeldBy(d)'
    BY <1>t, <1>h, <2>1, <2>2, HeldUnchanged
  <2>6. Awake'
    BY <1>h, <2>1 DEF Awake
  <2> QED
    BY <1>i, <2>4, <2>5, <2>6
<1>3. ASSUME NEW c \in Callers, Saturated(c) \/ Unsupported(c) \/ Answered(c) PROVE HeldInv'
  <2>1. /\ Breaker!Succeed(c) \/ Breaker!Fail(c) \/ Breaker!Refuse(c)
        /\ left' = left /\ Forget(c)
        /\ turn \in {c, Nobody} /\ turn' = Nobody /\ stage[c] = "calling"
    BY <1>3, <1>t, Ending DEF Saturated, Unsupported, Answered, queueVars
  <2>2. /\ stage'[c] = "idle" => held'[c] = 0
        /\ stage'[c] # "idle" => held'[c] = held[c]
        /\ \A d \in Callers \ {c} : held'[d] = held[d]
    BY <1>t, <2>1 DEF Forget
  <2>3. HeldBy(c)'
    <3>1. held[c] <= Budget(attempt[c] + 1, attempt[c])
      <4>1. StillToWait(c) \in Nat
        BY <1>t DEF StillToWait
      <4> QED
        BY <1>t, <1>h, <1>b, <2>1, <4>1 DEF HeldBy
    <3>2. CASE stage'[c] = "idle"
      BY <2>2, <3>2 DEF HeldBy
    <3>3. CASE stage'[c] = "backoff"
      <4>1. /\ attempt[c] \in 0..MaxRetries /\ attempt[c] + 1 <= MaxRetries
            /\ attempt'[c] = attempt[c] + 1 /\ timer'[c] = Backoff * 2^attempt[c]
        BY <1>t, <2>1, <3>3, FallsAsleep
      <4>2. Budget(attempt'[c], attempt'[c])
              = Budget(attempt[c] + 1, attempt[c]) + timer'[c]
        BY <4>1, BudgetGrows
      <4>3. timer'[c] \in Nat
        BY <4>1, BreakerAssumption
      <4>4. held'[c] + timer'[c] <= Budget(attempt'[c], attempt'[c])
        BY <1>t, <1>b, <2>2, <3>1, <3>3, <4>2, <4>3
      <4> QED
        BY <3>3, <4>4 DEF HeldBy
    <3> QED
      BY <1>t, <2>1, <3>2, <3>3, FallsAsleep
  <2>4. ASSUME NEW d \in Callers \ {c} PROVE HeldBy(d)'
    <3>1. stage'[d] = stage[d] /\ timer'[d] = timer[d] /\ attempt'[d] = attempt[d]
      BY <1>t, <2>1, Ending, FallsAsleep
    <3>2. turn' = d <=> turn = d
      BY <1>t, <2>1
    <3> QED
      BY <1>h, <2>1, <2>2, <3>1, <3>2, HeldUnchanged
  <2>5. Awake'
    BY <1>t, <1>h, <2>1, Ending DEF Awake
  <2> QED
    BY <1>i, <2>3, <2>4, <2>5
<1>4. ASSUME NEW c \in Callers, Depart(c) PROVE HeldInv'
  <2>1. /\ left' = [left EXCEPT ![c] = -1] /\ left[c] = 0
        /\ UNCHANGED <<stage, timer, attempt, turn, held>>
    BY <1>4 DEF Depart, Queue!Leave, breakerVars, historyVars
  <2>2. HeldBy(c)'
    BY <1>t, <1>h, <2>1 DEF HeldBy, StillToWait
  <2>3. \A d \in Callers \ {c} : HeldBy(d)'
    BY <1>t, <1>h, <2>1, HeldUnchanged
  <2> QED
    BY <1>h, <1>i, <2>1, <2>2, <2>3 DEF Awake
<1>5. CASE Tick
  <2>1. /\ turn = Nobody /\ turn' = turn /\ stage' = stage /\ attempt' = attempt
        /\ held' = [c \in Callers |-> IF Waits(c) THEN held[c] + 1 ELSE held[c]]
    BY <1>5 DEF Tick, breakerVars, Breaker!Tick
  <2>2. \A c \in Callers : timer'[c] = IF timer[c] > 0 THEN timer[c] - 1 ELSE 0
    BY <1>t, <1>5 DEF Tick, AtRest, breakerVars, Breaker!Tick
  <2>3. \A c \in Callers : left'[c] = IF left[c] > 0 THEN left[c] - 1 ELSE left[c]
    BY <1>t, <1>5 DEF Tick, Queue!Elapse, Queue!Sooner
  <2>4. Awake'
    BY <1>h, <2>1, <2>2 DEF Awake
  <2>5. ASSUME NEW c \in Callers PROVE HeldBy(c)'
    <3>1. CASE stage[c] = "calling"
      <4>1. timer[c] = 0 /\ turn # c
        BY <1>t, <1>h, <2>1, <3>1 DEF Awake
      <4>2. held[c] + StillToWait(c) <= Budget(attempt[c] + 1, attempt[c])
        BY <1>h, <3>1, <4>1 DEF HeldBy
      <4>3. held'[c] + StillToWait(c)' = held[c] + StillToWait(c)
        BY <1>t, <2>1, <2>3, <4>1 DEF StillToWait, Waits
      <4> QED
        BY <2>1, <3>1, <4>1, <4>2, <4>3 DEF HeldBy
    <3>2. CASE stage[c] = "backoff"
      <4>1. left[c] = -1
        BY <3>2 DEF TypeOK
      <4>2. held'[c] + timer'[c] = held[c] + timer[c]
        BY <1>t, <2>1, <2>2, <4>1 DEF Waits
      <4> QED
        BY <1>h, <2>1, <3>2, <4>2 DEF HeldBy
    <3>3. CASE stage[c] = "idle"
      <4>1. left[c] = -1 /\ timer[c] = 0
        BY <1>h, <3>3 DEF TypeOK, Awake
      <4> QED
        BY <1>h, <2>1, <3>3, <4>1 DEF HeldBy, Waits
    <3> QED
      BY <1>t, <3>1, <3>2, <3>3
  <2> QED
    BY <1>i, <2>4, <2>5
<1>6. CASE Verdict \/ UNCHANGED vars \/ \E c \in Callers : Reject(c)
  <2>1. UNCHANGED <<stage, timer, attempt, turn, held, left>>
    BY <1>6 DEF Verdict, Reject, vars, breakerVars, queueVars, historyVars
  <2> QED
    BY <1>h, <1>i, <2>1, HeldUnchanged DEF Awake
<1> QED
  BY <1>1, <1>2, <1>3, <1>4, <1>5, <1>6 DEF Next, Running, Woken

(* What the service itself makes a search wait is bounded, for every limit on retries, wait, jitter
   and back-off: one wait for a slot per attempt and the sleeps between them (pacing.py inside
   resilience.py). *)
THEOREM HeldBackIsBounded == Spec => []HeldBackBounded
<1>1. Init => HeldInv
  BY QueueBounds DEF Init, Breaker!Init, Queue!Init, HeldInv, Awake
<1>2. TypeOK /\ HeldInv => HeldBackBounded
  <2> SUFFICES ASSUME TypeOK, HeldInv, NEW c \in Callers
               PROVE  held[c] <= Budget(MaxRetries + 1, MaxRetries)
    BY DEF HeldBackBounded
  <2>1. /\ attempt[c] \in 0..MaxRetries /\ timer[c] \in Nat /\ held[c] \in Nat
        /\ stage[c] \in {"idle", "calling", "backoff"} /\ StillToWait(c) \in Nat
    BY QueueBounds, QueueAssumption DEF TypeOK, Breaker!TypeOK, StillToWait
  <2>2. /\ Budget(attempt[c], attempt[c]) \in Nat /\ MaxLapse \in Nat
        /\ Budget(attempt[c] + 1, attempt[c]) = Budget(attempt[c], attempt[c]) + MaxLapse
        /\ Budget(attempt[c] + 1, attempt[c]) <= Budget(MaxRetries + 1, MaxRetries)
    BY <2>1, BudgetGrows, QueueBounds
  <2>3. Budget(MaxRetries + 1, MaxRetries) \in Int
    <3>1. MaxRetries \in 0..MaxRetries
      BY BreakerAssumption
    <3> QED
      BY <3>1, BudgetGrows, QueueBounds
  <2>4. held[c] <= Budget(attempt[c] + 1, attempt[c])
    BY <2>1, <2>2 DEF HeldInv
  <2> QED
    BY <2>1, <2>2, <2>3, <2>4
<1> QED
  BY <1>1, <1>2, HeldStep, TypeCorrect, PTL DEF Spec

-----------------------------------------------------------------------------
(* What the parts promise, promised by the whole *)

(* Every step of the composition is a step of the queue, or none. *)
LEMMA StepsOfQueue == [Next]_vars => [Queue!Next]_(Queue!vars)
<1> SUFFICES ASSUME [Next]_vars PROVE [Queue!Next]_(Queue!vars) OBVIOUS
<1>1. ASSUME NEW c \in Callers, Reserve(c) PROVE Queue!Next
  BY <1>1 DEF Reserve, Queue!Next
<1>2. ASSUME NEW c \in Callers, Depart(c) PROVE Queue!Next
  BY <1>2 DEF Depart, Queue!Next
<1>3. CASE Tick
  BY <1>3 DEF Tick, Queue!Next
<1>4. ASSUME NEW c \in Callers,
             Begin(c) \/ Retry(c) \/ Saturated(c) \/ Unsupported(c) \/ Answered(c)
      PROVE UNCHANGED Queue!vars
  BY <1>4 DEF Begin, Retry, Saturated, Unsupported, Answered, queueVars, Queue!vars
<1>5. CASE Verdict \/ UNCHANGED vars \/ \E c \in Callers : Reject(c)
  BY <1>5 DEF Verdict, Reject, vars, queueVars, Queue!vars
<1> QED BY <1>1, <1>2, <1>3, <1>4, <1>5 DEF Next, Running, Woken

(* The adapter uses its pacer as EgressQueue says, which is what Pacer implements: retries and
   saturation give a search no slot that pacing.py did not hand out. *)
THEOREM ImplementsQueue == Spec => Queue!Spec
<1>1. Init => Queue!Init BY DEF Init
<1> QED BY <1>1, StepsOfQueue, PTL DEF Spec, Queue!Spec

(* A step does not let a search leak twice. *)
LEMMA LeakOfBreaker ==
    ASSUME [Next]_vars, Breaker!TypeOK, Breaker!TypeOK', Breaker!LeakInv
    PROVE  Breaker!LeakInv'
<1>1. [BreakerFacts!Next]_(BreakerFacts!vars) BY SameBreaker, StepsOfBreaker
<1>2. BreakerFacts!TypeOK BY SameBreaker
<1>3. BreakerFacts!TypeOK'
  BY DEF Breaker!TypeOK, BreakerFacts!TypeOK, Breaker!Closed, BreakerFacts!Closed
<1>4. BreakerFacts!LeakInv
  BY DEF Breaker!LeakInv, BreakerFacts!LeakInv, Breaker!IsOpen, BreakerFacts!IsOpen,
     Breaker!Closed, BreakerFacts!Closed
<1>5. BreakerFacts!LeakInv'
  BY <1>1, <1>2, <1>3, <1>4, BreakerFacts!LeakStep, BreakerAssumption
<1> QED
  BY <1>5 DEF Breaker!LeakInv, BreakerFacts!LeakInv, Breaker!IsOpen, BreakerFacts!IsOpen,
     Breaker!Closed, BreakerFacts!Closed

(* An open circuit gets at most one call of each genxng search, whatever queue, saturation and engine
   choice do to its attempts: resilience.py keeps its promise around searxng.py. *)
THEOREM LeakOnce == Spec => []Breaker!LeakAtMostOncePerOpening
<1>1. Init => Breaker!LeakInv
  BY DEF Init, Breaker!Init, Breaker!LeakInv, Breaker!IsOpen
<1>2. TypeOK /\ TypeOK' /\ Breaker!LeakInv /\ [Next]_vars => Breaker!LeakInv'
  BY LeakOfBreaker DEF TypeOK
<1>3. TypeOK /\ Breaker!LeakInv => Breaker!LeakAtMostOncePerOpening
  BY DEF TypeOK, Breaker!TypeOK, Breaker!LeakInv, Breaker!LeakAtMostOncePerOpening
<1> QED BY <1>1, <1>2, <1>3, TypeCorrect, PTL DEF Spec
=============================================================================
