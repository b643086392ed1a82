SPECIFICATION Spec
CONSTANTS
    r1 = r1
    r2 = r2
    q = q
    Requests <- MCRequests
    Keys <- MCKeys
    Verticals <- RestartsVerticals
    Queries = {q}
    SearchVertical = "search"
    PrimaryVerticals = {"search"}
    ProviderFor <- RestartsProviderFor
    CostOf <- RestartsCostOf
    Supported <- RestartsSupported
    Configured = {"genxng", "commercial", "direct_scrape"}
    QualityFallthrough = TRUE
    SearchEnrichment = FALSE
    PolicyFiles <- MCPolicyFiles
    InitialCredits = 1
    TopUp = 1
    MaxTopUps = 0
    MaxRestarts = 1
SYMMETRY MCSymmetry
PROPERTIES  DeniedQueriesLeaveNoTrace AccountingSpec
CHECK_DEADLOCK FALSE
