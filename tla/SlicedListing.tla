--------------------------- MODULE SlicedListing ---------------------------
(***************************************************************************)
(* listFromStore as the code computes it, on sequences, against the page   *)
(* by rank of module Lister, on every listing and cursor an enumeration    *)
(* with concurrent writes can produce.                                     *)
(***************************************************************************)
EXTENDS PagedListing, SequencesExt

CONSTANT MaxSize    \* the largest page size compared

ASSUME SizeAssumption == MaxSize \in Nat

\* The candidates after sort.Slice: the order is total, so there is one result.
Candidates(S) ==
    CHOOSE s \in [1..Cardinality(S) -> S] :
        \A i, j \in 1..Cardinality(S) : i < j => Before(s[i], s[j])

\* Mutant: the cursor's own item is taken for one after it.
StartAtCursor(candidates, c) ==
    IF c = NoCursor THEN 0
    ELSE LET after == {i \in 1..Len(candidates) :
                         \/ candidates[i].created < c.created
                         \/ /\ candidates[i].created = c.created
                            /\ candidates[i].id >= c.id}
         IN IF after = {} THEN Len(candidates) ELSE Min(after) - 1

\* The index of the first candidate after the cursor, minus one.
Start(candidates, c) ==
    IF c = NoCursor THEN 0
    ELSE LET after == {i \in 1..Len(candidates) :
                         \/ candidates[i].created < c.created
                         \/ /\ candidates[i].created = c.created
                            /\ candidates[i].id > c.id}
         IN IF after = {} THEN Len(candidates) ELSE Min(after) - 1

\* Sort, find start, slice, and a cursor when end < len(candidates).
ListFromStore(S, n, c) ==
    LET candidates == Candidates(S)
        start == Start(candidates, c)
        end   == IF start + n > Len(candidates) THEN Len(candidates) ELSE start + n
    IN [items |-> SubSeq(candidates, start + 1, end),
        next  |-> IF end < Len(candidates) THEN candidates[end] ELSE NoCursor]

\* The page listFromStore slices out of the sorted candidates is the page
\* defined by rank, in the listing order and without repetitions, and it comes
\* with the same cursor: for cursors whose item has been removed or replaced,
\* equal CreatedAt values and pages that end exactly at the last candidate.
PageMeetsReference ==
    \A k \in Kinds, n \in 1..MaxSize :
        LET page == ListFromStore(tier[k], n, cursors[k]) IN
        /\ ToSet(page.items) = Page(tier[k], n, cursors[k])
        /\ Len(page.items) = Cardinality(Page(tier[k], n, cursors[k]))
        /\ \A i, j \in DOMAIN page.items :
              i < j => Before(page.items[i], page.items[j])
        /\ page.next = NextCursor(tier[k], n, cursors[k])

============================================================================
