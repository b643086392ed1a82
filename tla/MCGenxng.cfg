SPECIFICATION Spec
CONSTANTS
    c1 = c1
    c2 = c2
    nobody = nobody
    Nobody <- nobody
    Callers <- MCCallers
    Threshold = 2
    Recovery = 2
    MaxRetries = 1
    Backoff = 1
    Interval = 2
    Burst = 0
    MaxWait = 1
    Jitter = 0
    Selections = {"all", "some"}
INVARIANTS TypeOK ChoiceIsRecent HeldBackBounded TrialFindsRoom
PROPERTIES BreakerSpec
CHECK_DEADLOCK FALSE
