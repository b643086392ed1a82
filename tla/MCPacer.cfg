SPECIFICATION Spec
CONSTANTS
    c1 = c1
    c2 = c2
    c3 = c3
    Callers <- MCCallers
    Interval = 2
    Burst = 1
    MaxWait = 3
    Jitter = 1
    Horizon = 7
INVARIANTS TypeOK EgressEnvelope WaitBounded QueueDepthBounded RefusesOnlyWhenFull
PROPERTY QueueSpec
CHECK_DEADLOCK FALSE
