SPECIFICATION FairSpec
CONSTANTS
    NumKinds = 2
    Hits <- MCHits
    Scopes <- MCScopes
    Zero = "none"
    Covers <- MCCovers
    TagKinds = {2}
    QueryTags <- MCQueryTags
    TopKs = {0, 1}
    Budgets = {0, 1}
    RecallDefault = 2
    TierDefault = 5
    SearchFails = TRUE
    MaxEdits = 1
INVARIANTS
    TypeOK
    NothingBetterLeftOut
    MissedOnlyByTheCut
    OnlyVisible
    CountsAddUp
PROPERTY
    Returns
CHECK_DEADLOCK FALSE
