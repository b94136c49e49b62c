SPECIFICATION PolicySpec
CONSTANTS
    u = u
    v = v
    Adders = {a1}
    Ids = {x}
    Values = {u, v}
    Nil = Nil
    Capacity = 1
    Score <- MCScore
    Created <- MCCreated
    Now = 3
    EmbedFails = TRUE
    ImportModes = {"merge"}
    MaxCalls = 2
    Kinds = {"working", "episodic", "other"}
    Wired = {"working", "episodic"}
    Sources = {"user", "agent", "system"}
    Policy <- MCPolicy
    Chain <- MCChain
    Dropped = Dropped
    Failed = Failed
    Clean <- MCClean
INVARIANT EveryDecisionHeard
CHECK_DEADLOCK FALSE
