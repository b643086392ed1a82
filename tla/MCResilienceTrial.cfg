SPECIFICATION Spec
CONSTANTS
    c1 = c1
    c2 = c2
    c3 = c3
    c4 = c4
    Callers <- MCCallers
    Threshold = 3
    Recovery = 3
    MaxRetries = 2
    Backoff = 1
INVARIANT OneTrialCall
CHECK_DEADLOCK FALSE
