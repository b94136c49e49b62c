SPECIFICATION Spec
CONSTANTS
    Items = {i1}
    IdOf <- MCOwnIds
    Exporters = {e1, e2}
    Keys = {k1}
    Names = {n1}
    Sanitize <- MCSanitize
    Modes = {"merge", "upsert", "replace"}
    WithMaps = FALSE
    SaveFails = TRUE
    LoadFails = TRUE
    SchemaVersion = 1
    Nil = Nil
    MaxExports = 2
SYMMETRY Symmetry
INVARIANTS
    TypeOK
    PromotionsSurvive
    NewestExportStays
CHECK_DEADLOCK FALSE
