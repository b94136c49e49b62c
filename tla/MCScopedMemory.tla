--------------------------- MODULE MCScopedMemory ---------------------------
EXTENDS ScopedMemory, TLC

\* The zero scope matches every scope, any other only itself.
MCCovers == {<<Zero, t>> : t \in Scopes} \cup {<<s, s>> : s \in Scopes}

\* The items listed later are the less important ones.
MCImportance == [id \in Ids |-> IF id = 1 THEN 1 ELSE 0]

\* Only ConsolidateScoped lists the tier twice.
MCLaps == [what \in Sweeps |-> IF what = "consolidate" THEN 2 ELSE 1]

\* Every call may list the tier twice.
MCLapsTwo == [what \in Sweeps |-> 2]

\* The calls that a property judges when they return.
Judged == {c \in quiet : op[c] \in {"capacity", "consolidate"}}

\* What later steps and the properties depend on: what is stale of the copies
\* in hand, and the history of the calls that are judged.
View ==
    <<items, used, pinned, metadata, shares, pc, op, as, todo, protected,
      [c \in Callers |-> IF pc[c] = "list" THEN stale[c] ELSE stale[c] \cap Aimed(c)],
      [c \in Callers |-> IF pc[c] = "list" \/ c \in Judged THEN laps[c] ELSE 0],
      [c \in Judged |-> <<made[c], before[c]>>]>>

\* Only one of the IDs is added over.
FewAdds == used[2] <= 1

============================================================================
