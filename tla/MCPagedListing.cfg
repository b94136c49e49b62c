SPECIFICATION FairSpec
CONSTANTS
    Times = {1, 2}
    Names = {1, 2, 3}
    NoCursor = NoCursor
    NumKinds = 2
    PageSize = 1
    ListerFails = TRUE
    MaxEdits = 1
    MaxSize = 3
INVARIANTS
    TypeOK
    Complete
    RepeatsOnlyOnRestart
    PageMeetsReference
PROPERTY
    TerminatesUndisturbed
CHECK_DEADLOCK FALSE
