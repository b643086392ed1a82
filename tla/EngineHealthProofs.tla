------------------------- MODULE EngineHealthProofs -------------------------
(* Proofs about EngineHealth: type correctness, and that a quarantine is always earned. Only a probe
   changes what the monitor thinks of an engine, and it changes count, verdict and history alike;
   aborted rounds, reconfigurations and the order of the probes do not matter to the argument. *)
EXTENDS EngineHealth, TLAPS

(* The cases of a step. *)
LEMMA StepCases ==
    ASSUME [Next]_vars
    PROVE  \/ Discover \/ Probe \/ Wake
           \/ Reach \/ Reconfigure \/ Restart \/ (\E e \in Engines : Turn(e))
           \/ UNCHANGED vars
BY DEF Next, Loop, Environment

(* What a probe records keeps its type, whichever engine it is about. *)
LEMMA Recorded ==
    ASSUME TypeOK, NEW e, NEW count, NEW verdict, NEW misses, Record(e, count, verdict, misses),
           e \in Engines => count \in 0..Threshold /\ verdict \in BOOLEAN /\ misses \in 0..Threshold
    PROVE  /\ failures' \in [Engines -> 0..Threshold] /\ healthy' \in [Engines -> BOOLEAN]
           /\ missed' \in [Engines -> 0..Threshold]
BY DEF Record, TypeOK

(* EngineHealth's variables keep their types (engine_health.py refresh, _discover, _probe). *)
THEOREM TypeCorrect == Spec => []TypeOK
<1>1. Init => TypeOK
  BY ThresholdAssumption DEF Init, TypeOK
<1>2. TypeOK /\ [Next]_vars => TypeOK'
  <2> SUFFICES ASSUME TypeOK, [Next]_vars PROVE TypeOK'
    OBVIOUS
  <2> USE DEF TypeOK
  <2>1. CASE Discover
    <3>1. Discovered(configured) \subseteq Engines
      BY ConfigurationAssumption DEF Discovered
    <3> QED BY <2>1, <3>1, ConfigurationAssumption DEF Discover, Proceed, backend, states
  <2>2. CASE Probe
    <3> DEFINE e == Min(todo)
    <3>1. todo \ {e} \subseteq Engines /\ {} \subseteq Engines
      OBVIOUS
    <3>2. phase' \in {"discover", "probe", "sleep"} /\ todo' \subseteq Engines
          /\ (phase' = "probe" <=> todo' # {})
      BY <2>2, <3>1 DEF Probe, Proceed
    <3>3. ASSUME e \in Engines
          PROVE  FailuresAfterFailure(e) \in 0..Threshold
                 /\ MissesAfterFailure(e) \in 0..Threshold
                 /\ HealthyAfterFailure(e) \in BOOLEAN
      BY <3>3, ThresholdAssumption DEF FailuresAfterFailure, HealthyAfterFailure, MissesAfterFailure
    <3> DEFINE Typed == failures' \in [Engines -> 0..Threshold] /\ healthy' \in [Engines -> BOOLEAN]
                        /\ missed' \in [Engines -> 0..Threshold]
    <3>4. ASSUME UNCHANGED states PROVE Typed
      BY <3>4 DEF states
    <3>5. ASSUME Record(e, FailuresAfterSuccess(e), HealthyAfterSuccess(e), 0) PROVE Typed
      <4>1. 0 \in 0..Threshold
        BY ThresholdAssumption
      <4> HIDE DEF e
      <4> QED BY <3>5, <4>1, Recorded DEF FailuresAfterSuccess, HealthyAfterSuccess
    <3>6. ASSUME Record(e, FailuresAfterFailure(e), HealthyAfterFailure(e), MissesAfterFailure(e))
          PROVE  Typed
      <4> HIDE DEF e
      <4> QED BY <3>3, <3>6, Recorded
    <3>7. Typed
      BY <2>2, <3>4, <3>5, <3>6 DEF Probe
    <3> QED BY <2>2, <3>2, <3>7 DEF Probe, backend
  <2>3. CASE Wake
    BY <2>3 DEF Wake, backend, states
  <2>4. CASE Reach
    BY <2>4 DEF Reach, states
  <2>5. CASE Reconfigure
    BY <2>5 DEF Reconfigure, states
  <2>6. CASE Restart
    BY <2>6, ThresholdAssumption DEF Restart, Fresh, backend
  <2>7. CASE \E e \in Engines : Turn(e)
    BY <2>7 DEF Turn, states
  <2>8. CASE UNCHANGED vars
    BY <2>8 DEF vars, backend, states
  <2> QED BY <2>1, <2>2, <2>3, <2>4, <2>5, <2>6, <2>7, <2>8, StepCases
<1> QED BY <1>1, <1>2, PTL DEF Spec

(* Count and verdict are those of the probes missed since the last one answered. *)
THEOREM MissesAreCounted == Spec => []MissesCounted
<1>1. Init => MissesCounted
  BY ThresholdAssumption DEF Init, MissesCounted
<1>2. TypeOK /\ MissesCounted /\ [Next]_vars => MissesCounted'
  <2> SUFFICES ASSUME TypeOK, MissesCounted, [Next]_vars PROVE MissesCounted'
    OBVIOUS
  <2> USE DEF MissesCounted
  <2>1. CASE Probe
    <3> SUFFICES ASSUME NEW d \in Engines
                 PROVE  failures'[d] = missed'[d] /\ (healthy'[d] <=> failures'[d] < Threshold)
      OBVIOUS
    <3> DEFINE e == Min(todo)
    <3>1. CASE d # e
      BY <2>1, <3>1 DEF Probe, Record, states, TypeOK
    <3>2. CASE d = e /\ UNCHANGED states
      BY <3>2 DEF states
    <3>3. CASE d = e /\ Record(e, FailuresAfterSuccess(e), HealthyAfterSuccess(e), 0)
      BY <3>3, ThresholdAssumption
         DEF Record, FailuresAfterSuccess, HealthyAfterSuccess, TypeOK
    <3>4. CASE d = e /\ Record(e, FailuresAfterFailure(e), HealthyAfterFailure(e),
                              MissesAfterFailure(e))
      BY <3>4, ThresholdAssumption
         DEF Record, FailuresAfterFailure, HealthyAfterFailure, MissesAfterFailure, TypeOK
    <3> QED BY <2>1, <3>1, <3>2, <3>3, <3>4 DEF Probe
  <2>2. CASE Restart
    BY <2>2, ThresholdAssumption DEF Restart, Fresh
  <2>3. CASE UNCHANGED states
    BY <2>3 DEF states
  <2> QED
    BY <2>1, <2>2, <2>3, StepCases DEF Discover, Wake, Reach, Reconfigure, Turn, vars
<1> QED BY <1>1, <1>2, TypeCorrect, PTL DEF Spec

(* A quarantined engine is one that missed the threshold's number of probes since it last answered. *)
THEOREM EarnedQuarantine == Spec => []QuarantineIsEarned
<1>1. TypeOK /\ MissesCounted => QuarantineIsEarned
  BY ThresholdAssumption DEF TypeOK, MissesCounted, QuarantineIsEarned
<1> QED BY <1>1, TypeCorrect, MissesAreCounted, PTL
=============================================================================
