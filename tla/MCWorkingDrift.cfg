SPECIFICATION PolicySpec
CONSTANTS
    u = u
    v = v
    Adders = {a1, a2}
    Ids = {x, y, z}
    Values = {u, v}
    Nil = Nil
    Capacity = 1
    Score <- MCScore
    Created <- MCCreated
    Now = 3
    EmbedFails = TRUE
    ImportModes = {"merge", "upsert", "replace"}
    MaxCalls = 3
    Kinds = {"working", "episodic", "other"}
    Wired = {"working", "episodic"}
    Sources = {"user", "agent", "system"}
    Policy <- MCPolicy
    Chain <- MCChain
    Dropped = Dropped
    Failed = Failed
    Clean <- MCClean
SYMMETRY Symmetry
VIEW View
INVARIANTS
    TypeOK
    DriftBound
    PolicyTypeOK
    OnlyCleanAdded
    HeardOnce
CHECK_DEADLOCK FALSE
