SPECIFICATION Spec
CONSTANTS
    c1 = c1
    c2 = c2
    c3 = c3
    Callers <- MCCallers
    Rate = 2
    Cost = 3
    Second = 2
    Burst = 2
    Margin = 2
    MaxLag = 2
    Horizon = 8
INVARIANTS TypeOK BucketEnvelope
PROPERTIES RetryAfterHonoured
SYMMETRY Symmetry
CHECK_DEADLOCK FALSE
