---------------------------- MODULE EngineHealth ----------------------------
(* EngineHealthMonitor and its probe loop (src/app/engine_health.py): rounds that read the backend's
   configuration and probe every engine found there, quarantine after consecutive failures, and
   the selection of engines a search asks for at any time, also in the middle of a round. The
   awaits are the two kinds of request to the backend and the sleep between rounds.

   Engines are numbered in the order sorted() gives their names. What the environment does: an
   engine answers, is unresponsive, or makes its probe raise an exception that _probe does not
   catch (a payload of an unexpected shape). *)
EXTENDS Integers, FiniteSetsExt

CONSTANTS
    Engines,             \* the engines' places in the order of their names
    Categories,          \* PROBED_CATEGORIES
    Configurations,      \* the enabled engines per category the backend may be configured with
    Threshold,           \* engine_fail_threshold
    MaxRestarts          \* bound

ASSUME EnginesAssumption == Engines \subseteq Nat
ASSUME ConfigurationAssumption == Configurations \subseteq [Categories -> SUBSET Engines]
ASSUME ThresholdAssumption == Threshold \in Nat \ {0} /\ MaxRestarts \in Nat

VARIABLES
    online, configured, condition,   \* the backend: reachable, its configuration, its engines
    phase, todo,                     \* probe_loop: its next await, the engines still to probe
    failures, healthy, categories,   \* the monitor: _states and _categories
    missed,                          \* history: probes missed since the last one answered
    restarts

backend == <<online, configured, condition>>
states == <<failures, healthy, missed>>
vars == <<backend, phase, todo, states, categories, restarts>>

Discovered(map) == UNION {map[c] : c \in Categories}

-----------------------------------------------------------------------------
(* The monitor *)

(* _states starts empty: an engine nobody probed counts as healthy without failures. *)
Fresh ==
    /\ phase' = "discover" /\ todo' = {}
    /\ failures' = [e \in Engines |-> 0] /\ healthy' = [e \in Engines |-> TRUE]
    /\ missed' = [e \in Engines |-> 0]
    /\ categories' = [c \in Categories |-> {}]

Init ==
    /\ online \in BOOLEAN /\ configured \in Configurations
    /\ condition \in [Engines -> {"up", "down", "odd"}]
    /\ phase = "discover" /\ todo = {}
    /\ failures = [e \in Engines |-> 0] /\ healthy = [e \in Engines |-> TRUE]
    /\ missed = [e \in Engines |-> 0]
    /\ categories = [c \in Categories |-> {}]
    /\ restarts = 0

(* The sleep comes after a round however it ended. *)
Proceed(left) == todo' = left /\ phase' = IF left = {} THEN "sleep" ELSE "probe"

(* A round that starts its counts anew, where the code keeps them (setdefault). *)
DiscoverForgets ==
    /\ phase = "discover"
    /\ IF online
       THEN categories' = configured /\ Proceed(Discovered(configured))
       ELSE Proceed({}) /\ UNCHANGED categories
    /\ failures' = [e \in Engines |-> 0]
    /\ UNCHANGED <<backend, healthy, missed, restarts>>

(* _discover: the category map is replaced before anything is probed; a failure ends the round. *)
Discover ==
    /\ phase = "discover"
    /\ IF online
       THEN categories' = configured /\ Proceed(Discovered(configured))
       ELSE Proceed({}) /\ UNCHANGED categories
    /\ UNCHANGED <<backend, states, restarts>>

FailuresKept(e) == failures[e]
FailuresDecay(e) == failures[e] - 1
FailuresAfterSuccess(e) == 0

(* A failed probe counts; the count is only ever compared with the threshold and capped at it. *)
FailuresAfterFailure(e) == IF failures[e] < Threshold THEN failures[e] + 1 ELSE failures[e]

StaysQuarantined(e) == healthy[e]
HealthyAfterSuccess(e) == TRUE
HealthyAfterFailure(e) == healthy[e] /\ FailuresAfterFailure(e) < Threshold
MissesAfterFailure(e) == IF missed[e] < Threshold THEN missed[e] + 1 ELSE missed[e]

Record(e, count, verdict, misses) ==
    /\ failures' = [failures EXCEPT ![e] = count]
    /\ healthy' = [healthy EXCEPT ![e] = verdict]
    /\ missed' = [missed EXCEPT ![e] = misses]

(* One engine's probe. Any exception but a HTTPError or a ValueError leaves refresh: the round is
   over, and the engines after this one are not probed in it. *)
Probe ==
    LET e == Min(todo) IN
    /\ phase = "probe"
    /\ \/ /\ online /\ condition[e] = "up"
          /\ Record(e, FailuresAfterSuccess(e), HealthyAfterSuccess(e), 0)
          /\ Proceed(todo \ {e})
       \/ /\ ~online \/ condition[e] = "down"
          /\ Record(e, FailuresAfterFailure(e), HealthyAfterFailure(e), MissesAfterFailure(e))
          /\ Proceed(todo \ {e})
       \/ /\ online /\ condition[e] = "odd"
          /\ Proceed({})
          /\ UNCHANGED states
    /\ UNCHANGED <<backend, categories, restarts>>

Wake ==
    /\ phase = "sleep"
    /\ phase' = "discover"
    /\ UNCHANGED <<backend, todo, states, categories, restarts>>

(* healthy_for(category), as a search evaluates it at any moment: filtering is of use when some but
   not all of the engines known there are quarantined. Without a filter the backend asks whatever
   engines it has for the category. *)
Fit(c) == {e \in categories[c] : healthy[e]}
Filters(c) == Fit(c) # categories[c] /\ Fit(c) # {}
Asked(c) == IF Filters(c) THEN Fit(c) ELSE configured[c]

-----------------------------------------------------------------------------
(* The environment *)

Turn(e) ==
    /\ \E how \in {"up", "down", "odd"} \ {condition[e]} : condition' = [condition EXCEPT ![e] = how]
    /\ UNCHANGED <<online, configured, phase, todo, states, categories, restarts>>

Reach ==
    /\ online' = ~online
    /\ UNCHANGED <<configured, condition, phase, todo, states, categories, restarts>>

Reconfigure ==
    /\ configured' \in Configurations \ {configured}
    /\ UNCHANGED <<online, condition, phase, todo, states, categories, restarts>>

(* The process restarts: the monitor is rebuilt with no memory. *)
Restart ==
    /\ restarts < MaxRestarts
    /\ restarts' = restarts + 1
    /\ Fresh
    /\ UNCHANGED backend

Environment == Reach \/ Reconfigure \/ Restart \/ \E e \in Engines : Turn(e)

Loop == Discover \/ Probe \/ Wake

Next == Loop \/ Environment

(* The task lives as long as the process, its requests time out and its sleeps end. *)
Spec == Init /\ [][Next]_vars /\ WF_vars(Loop)

-----------------------------------------------------------------------------
(* Properties *)

TypeOK ==
    /\ online \in BOOLEAN /\ configured \in Configurations
    /\ condition \in [Engines -> {"up", "down", "odd"}]
    /\ phase \in {"discover", "probe", "sleep"} /\ todo \subseteq Engines
    /\ phase = "probe" <=> todo # {}
    /\ failures \in [Engines -> 0..Threshold] /\ healthy \in [Engines -> BOOLEAN]
    /\ missed \in [Engines -> 0..Threshold]
    /\ categories \in [Categories -> SUBSET Engines]
    /\ restarts \in Nat

(* An engine is quarantined if and only if it missed the threshold's number of probes since it last
   answered one, whatever rounds were aborted, whenever it left the configuration and came back
   (docs/MANUAL.md "ENGINE_FAIL_THRESHOLD consecutive probes"; "one good probe" recovers it). *)
QuarantineIsEarned == \A e \in Engines : ~healthy[e] <=> missed[e] >= Threshold

(* Why: the count and the verdict of the monitor are both those of the misses. *)
MissesCounted ==
    \A e \in Engines : failures[e] = missed[e] /\ (healthy[e] <=> failures[e] < Threshold)

(* The engines probed before e, and e, behave: their probes do not raise. *)
Reached(e) == online /\ \A f \in Discovered(configured) : f <= e => condition[f] # "odd"

(* An engine that stays up, stays configured and is reached is in the end always asked, whatever the
   others do and whatever befell it before. *)
UpIsAsked ==
    \A c \in Categories : \A e \in Engines :
        <>[](Reached(e) /\ e \in configured[c] /\ condition[e] = "up") => <>[](e \in Asked(c))

(* An engine that stays down is in the end never asked, as long as its category has one that stays
   up and both are reached. *)
DownIsAvoided ==
    \A c \in Categories : \A e, f \in Engines :
        <>[](/\ Reached(e) /\ Reached(f) /\ {e, f} \subseteq configured[c]
             /\ condition[e] = "down" /\ condition[f] = "up")
            => <>[](e \notin Asked(c))
=============================================================================
