SPECIFICATION Spec
CONSTANTS
    Times = {1}
    Names = {1, 2, 3, 4, 5, 6}
    NoCursor = NoCursor
    Consolidators = {c1, c2}
    WorkIds = {1}
    Eligible = {1}
    PageSize = 1
    NilMetadata = TRUE
    AddFails = TRUE
    InitEpisodic = 2
    MaxEpisodic = 6
    MaxInc = 1
    MaxHops = 2
    MaxRuns = 2
INVARIANTS
    PromoteOnce
CHECK_DEADLOCK FALSE
