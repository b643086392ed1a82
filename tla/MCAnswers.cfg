SPECIFICATION Spec
CONSTANTS
    Starters <- MCStarters
    Stopwords <- MCStopwords
    Queries <- MCQueries
    Verticals = {"search", "images", "videos"}
    Nums = {1, 2, 10}
    Engines = {"a", "b", "c"}
    Results <- MCResults
    NoPage = "none"
    MaxResults = 3
    Ln <- MCLn
    CoverageWeight = 5
    SufficiencyWeight = 5
    DuplicateWeight = 3
    DegradedBelow = 500
    CoverageFloor = 4
INVARIANTS TypeOK MoreRelevantFirst InformativeWordsDecide EngineOrderKept BlockComplete EmptyIsFlagged
CHECK_DEADLOCK FALSE
