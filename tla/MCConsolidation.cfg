SPECIFICATION Spec
CONSTANTS
    Times = {1}
    Names = {1, 2, 3, 4, 5, 6}
    NoCursor = NoCursor
    Consolidators = {c1, c2}
    WorkIds = {1, 2}
    Eligible = {1, 2}
    PageSize = 1
    NilMetadata = TRUE
    AddFails = TRUE
    InitEpisodic = 2
    MaxEpisodic = 6
    MaxInc = 2
    MaxHops = 2
    MaxRuns = 2
SYMMETRY Symmetry
VIEW View
CONSTRAINT FewAdds
INVARIANTS
    TypeOK
    NothingMissed
    TwiceOnlyUnseen
    StampedOrReplacing
CHECK_DEADLOCK FALSE
