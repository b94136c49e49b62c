--------------------------- MODULE MCScoredStore ---------------------------
EXTENDS ScoredStore, TLC

\* Callers, chosen IDs and contents are interchangeable.
Symmetry == Permutations(Callers) \cup Permutations(Explicit)
              \cup Permutations(Contents)

\* A caller outside the store does not read its last call's ID and item again.
View ==
    LET live(c) == IF pc[c] = "idle" THEN Nil ELSE <<target[c], held[c]>>
    IN <<storeVars, pc, [c \in Callers |-> live(c)], saved, alone, suspect>>

============================================================================
