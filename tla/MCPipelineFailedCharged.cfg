SPECIFICATION Spec
CONSTANTS
    r1 = r1
    r2 = r2
    q = q
    Requests <- MCRequests
    Keys <- MCKeys
    Verticals <- MCVerticals
    Queries = {q}
    SearchVertical = "search"
    PrimaryVerticals = {"search"}
    ProviderFor <- MCProviderFor
    CostOf <- MCCostOf
    Supported <- MCSupported
    Configured = {"genxng", "commercial"}
    QualityFallthrough = TRUE
    SearchEnrichment = TRUE
    PolicyFiles <- MCPolicyFiles
    InitialCredits = 2
    TopUp = 1
    MaxTopUps = 1
    MaxRestarts = 0
INVARIANT FailedRequestsAreFree
CHECK_DEADLOCK FALSE
