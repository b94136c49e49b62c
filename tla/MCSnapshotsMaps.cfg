SPECIFICATION Spec
CONSTANTS
    Items = {i1}
    IdOf <- MCOwnIds
    Exporters = {e1}
    Keys = {k1}
    Names = {n1}
    Sanitize <- MCSanitize
    Modes = {"replace"}
    WithMaps = TRUE
    SaveFails = FALSE
    LoadFails = FALSE
    SchemaVersion = 1
    Nil = Nil
    MaxExports = 1
INVARIANTS
    PromotionsSurvive
CHECK_DEADLOCK FALSE
