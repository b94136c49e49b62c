------------------------------ MODULE Lister ------------------------------
(***************************************************************************)
(* One page of one tier.  listFromStore sorts a snapshot of the matching   *)
(* items newest first, IDs breaking ties, skips everything up to the       *)
(* cursor, and returns up to pageSize items with a cursor when some are    *)
(* left.  Here a listing is a set of items [created, id] and a page is     *)
(* defined by rank; module SlicedListing compares it with the slicing of   *)
(* the sorted sequence that the code does.                                 *)
(***************************************************************************)
EXTENDS Naturals, FiniteSets

CONSTANTS
    Times,      \* the CreatedAt values
    Names,      \* the item IDs, in their string order
    NoCursor    \* the empty cursor

ASSUME ItemAssumption == Times \subseteq Nat /\ Names \subseteq Nat

Items   == [created : Times, id : Names]
Cursors == Items \cup {NoCursor}

ASSUME CursorAssumption == NoCursor \notin Items

\* A tier holds at most one item with an ID.
Listings == {S \in SUBSET Items : \A x, y \in S : x.id = y.id => x = y}

\* The listing order: newest first, then by ID.
Before(x, y) == \/ x.created > y.created
                \/ x.created = y.created /\ x.id < y.id

\* Mutant: the listing resumes at the cursor instead of after it.
AfterInclusive(S, cursor) ==
    IF cursor = NoCursor THEN S ELSE {x \in S : ~Before(x, cursor)}

\* What is left of a listing after a cursor; the item the cursor was made from
\* need not be there any more.
After(S, cursor) ==
    IF cursor = NoCursor THEN S ELSE {x \in S : Before(cursor, x)}

Rank(S, x) == Cardinality({y \in S : Before(y, x)})

\* The first n items of a listing.
First(S, n) == {x \in S : Rank(S, x) < n}

\* The last item of a page.
LastOf(S) == CHOOSE x \in S : \A y \in S : y = x \/ Before(y, x)

Page(S, size, cursor) == First(After(S, cursor), size)

\* A cursor is returned when items are left, and it is the page's last item.
NextCursor(S, size, cursor) ==
    LET page == Page(S, size, cursor) IN
    IF page = After(S, cursor) THEN NoCursor ELSE LastOf(page)

============================================================================
