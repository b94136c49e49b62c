---------------------------- MODULE MCSnapshots ----------------------------
EXTENDS Snapshots, TLC

\* Every key is sent to the same row.
MCSanitize == [k \in Keys |-> CHOOSE n \in Names : TRUE]

\* Every item has an ID of its own.
MCOwnIds == [i \in Items |-> i]

\* All items are added under one ID.
MCOneId == [i \in Items |-> "id"]

Symmetry == Permutations(Items) \cup Permutations(Exporters)

============================================================================
