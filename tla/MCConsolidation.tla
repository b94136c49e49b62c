-------------------------- MODULE MCConsolidation --------------------------
EXTENDS Consolidation, TLC

\* Where an enumeration was does not matter once it is over, nor does what
\* stayed during a call that has failed.
View ==
    LET listing(c) == pc[c] \in {"listWorking", "listEpisodic"}
        place(c) == IF listing(c) THEN <<wcursor[c], ecursor[c], hops[c]>> ELSE << >>
        stayed(c) == IF pc[c] = "error" THEN {} ELSE stable[c]
    IN <<tierVars, pc, todo, [c \in Consolidators |-> <<place(c), stayed(c)>>],
         runs, unseen, misplaced>>

\* Only one of the IDs is added over.
FewAdds == used[2] <= 1

Symmetry == Permutations(Consolidators)

============================================================================
