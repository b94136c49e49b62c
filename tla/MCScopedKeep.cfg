SPECIFICATION Spec
CONSTANTS
    Users = {u}
    Lifecycles = {f}
    Ids = {1, 2}
    Scopes = {zero, alice}
    Zero = zero
    Covers <- MCCovers
    Importance <- MCImportance
    Threshold = 1
    Old = {1}
    Keep = 1
    Eligible = {1}
    Nil = Nil
    MaxInc = 1
    MaxShares = 0
    MaxLaps <- MCLapsTwo
INVARIANTS
    KeepsTheBest
CHECK_DEADLOCK FALSE
