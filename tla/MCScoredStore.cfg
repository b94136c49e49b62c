SPECIFICATION Spec
CONSTANTS
    Callers = {c1, c2}
    Explicit = {x}
    MaxSeq = 1
    Contents = {u, v}
    Nil = Nil
    EmbedFails = TRUE
    ImportModes = {"merge", "upsert", "replace"}
    Vectorless = TRUE
SYMMETRY Symmetry
VIEW View
INVARIANTS
    TypeOK
    StaleOnlyByRace
    SnapshotAgrees
PROPERTY
    ImplementsAtomicStore
