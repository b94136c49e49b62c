---------------------------- MODULE ListerProofs ----------------------------
(***************************************************************************)
(* What one page of a listing is, for any finite set of items: the facts   *)
(* that the enumeration of all tiers and the consolidation rest on.        *)
(***************************************************************************)
EXTENDS Lister, FiniteSetTheorems, TLAPS

\* A set of natural numbers that is not empty has a least element.
LEMMA LeastOf ==
    ASSUME NEW T, T \subseteq Nat, T # {}
    PROVE  \E x \in T : \A y \in T : x <= y
<1> DEFINE R == OpToRel(<, Nat)
<1>1. IsWellFoundedOn(R, Nat)
  BY NatLessThanWellFounded
<1>2. \A x, y \in Nat : x < y => <<x, y>> \in R
  BY DEF OpToRel
<1> HIDE DEF R
<1>3. PICK x \in T : \A y \in T : ~ (<<y, x>> \in R)
  BY <1>1, WFMin
<1>4. \A y \in T : ~ (y < x)
  BY <1>2, <1>3
<1>5. \A y \in T : x <= y
  BY <1>4
<1> QED BY <1>5
----------------------------------------------------------------------------
(* The order of a listing, and the page by rank.                           *)

\* Before is a strict total order on the items.
LEMMA Ordering ==
    /\ \A x, y \in Items : x = y \/ Before(x, y) \/ Before(y, x)
    /\ \A x, y \in Items : ~(Before(x, y) /\ Before(y, x))
    /\ \A x, y, z \in Items : Before(x, y) /\ Before(y, z) => Before(x, z)
    /\ \A x \in Items : ~Before(x, x)
<1>1. ASSUME NEW x \in Items
      PROVE  /\ x.created \in Nat /\ x.id \in Nat
             /\ x = [created |-> x.created, id |-> x.id]
  <2>1. x.created \in Times /\ x.id \in Names
    BY DEF Items
  <2>2. x = [created |-> x.created, id |-> x.id]
    BY DEF Items
  <2> QED BY <2>1, <2>2, ItemAssumption
<1> QED BY <1>1 DEF Before

\* A rank is a number, and grows along the order.
LEMMA Ranks ==
    ASSUME NEW T, T \subseteq Items, IsFiniteSet(T)
    PROVE  /\ \A x : Rank(T, x) \in Nat
           /\ \A x, y \in T : Before(y, x) => Rank(T, y) < Rank(T, x)
<1> DEFINE Preds(x) == {y \in T : Before(y, x)}
<1>1. \A x : IsFiniteSet(Preds(x)) /\ Cardinality(Preds(x)) \in Nat
  <2>1. ASSUME NEW x PROVE IsFiniteSet(Preds(x)) /\ Cardinality(Preds(x)) \in Nat
    <3>1. Preds(x) \subseteq T
      OBVIOUS
    <3> HIDE DEF Preds
    <3> QED BY <3>1, FS_Subset, FS_CardinalityType
  <2> QED BY <2>1
<1>2. ASSUME NEW x \in T, NEW y \in T, Before(y, x)
      PROVE  Cardinality(Preds(y)) < Cardinality(Preds(x))
  <2>1. Preds(y) \subseteq Preds(x)
    BY <1>2, Ordering
  <2>2. y \in Preds(x) /\ y \notin Preds(y)
    BY <1>2, Ordering
  <2> HIDE DEF Preds
  <2>3. /\ Cardinality(Preds(y)) <= Cardinality(Preds(x))
        /\ Cardinality(Preds(y)) = Cardinality(Preds(x)) => Preds(y) = Preds(x)
    BY <1>1, <2>1, FS_Subset
  <2> QED BY <1>1, <2>2, <2>3
<1> QED BY <1>1, <1>2 DEF Rank

\* The first item of a listing has rank 0, so a page is not empty unless
\* nothing is left.
LEMMA FirstNotEmpty ==
    ASSUME NEW T, T \subseteq Items, IsFiniteSet(T), T # {}, NEW n \in Nat \ {0}
    PROVE  First(T, n) # {}
<1> DEFINE ranks == {Rank(T, x) : x \in T}
<1>1. ranks \subseteq Nat /\ ranks # {}
  BY Ranks
<1>2. PICK r \in ranks : \A q \in ranks : r <= q
  BY <1>1, LeastOf
<1>3. PICK x \in T : r = Rank(T, x)
  OBVIOUS
<1>4. \A y \in T : ~Before(y, x)
  <2> SUFFICES ASSUME NEW y \in T, Before(y, x) PROVE FALSE
    OBVIOUS
  <2>1. Rank(T, y) < Rank(T, x) /\ Rank(T, y) \in Nat /\ Rank(T, x) \in Nat
    BY Ranks
  <2>2. Rank(T, x) <= Rank(T, y)
    BY <1>2, <1>3
  <2> QED BY <2>1, <2>2
<1>5. {y \in T : Before(y, x)} = {}
  BY <1>4
<1>6. Rank(T, x) = 0
  BY <1>5, FS_EmptySet DEF Rank
<1> QED BY <1>6 DEF First

\* A page that is not empty has a last item.
LEMMA LastExists ==
    ASSUME NEW T, T \subseteq Items, IsFiniteSet(T), NEW n \in Nat,
           First(T, n) # {}
    PROVE  /\ LastOf(First(T, n)) \in First(T, n)
           /\ \A y \in First(T, n) : y = LastOf(First(T, n))
                                     \/ Before(y, LastOf(First(T, n)))
<1> DEFINE page == First(T, n)
           gaps == {n - Rank(T, x) : x \in page}
<1>1. page \subseteq T /\ \A x \in page : Rank(T, x) < n /\ Rank(T, x) \in Nat
  BY Ranks DEF First
<1> HIDE DEF page
<1>2. gaps \subseteq Nat /\ gaps # {}
  <2>1. \A x \in page : n - Rank(T, x) \in Nat
    BY <1>1
  <2> QED BY <2>1 DEF page
<1>3. PICK g \in gaps : \A h \in gaps : g <= h
  BY <1>2, LeastOf
<1>4. PICK l \in page : g = n - Rank(T, l)
  OBVIOUS
<1>5. \A y \in page : Rank(T, y) <= Rank(T, l)
  <2>1. \A y \in page : n - Rank(T, l) <= n - Rank(T, y)
    BY <1>3, <1>4
  <2> QED BY <1>1, <2>1
<1>6. \A y \in page : ~Before(l, y)
  <2>1. ASSUME NEW y \in page, Before(l, y) PROVE FALSE
    <3>1. Rank(T, l) < Rank(T, y)
      BY <1>1, <2>1, Ranks
    <3>2. Rank(T, y) <= Rank(T, l) /\ Rank(T, y) \in Nat /\ Rank(T, l) \in Nat
      BY <1>1, <1>5
    <3> QED BY <3>1, <3>2
  <2> QED BY <2>1
<1>7. \A y \in page : y = l \/ Before(y, l)
  BY <1>1, <1>6, Ordering
<1>8. \E x \in page : \A y \in page : y = x \/ Before(y, x)
  BY <1>7
<1> QED BY <1>8 DEF LastOf, page

\* An item that is left over by a page comes after the cursor of that page.
LEMMA LeftOver ==
    ASSUME NEW S, S \subseteq Items, IsFiniteSet(S), NEW cursor,
           NEW n \in Nat \ {0},
           NEW x \in After(S, cursor), x \notin Page(S, n, cursor)
    PROVE  /\ NextCursor(S, n, cursor) \in Items
           /\ Before(NextCursor(S, n, cursor), x)
<1> DEFINE T == After(S, cursor)
           page == First(T, n)
           last == LastOf(page)
<1>1. T \subseteq Items /\ x \in T /\ x \notin page /\ IsFiniteSet(T)
  BY FS_Subset DEF After, Page
<1>2. NextCursor(S, n, cursor) = last
  BY <1>1 DEF NextCursor, Page
<1> HIDE DEF T
<1>3. last \in page
  BY <1>1, FirstNotEmpty, LastExists
<1>4. last \in T /\ Rank(T, last) < n /\ ~(Rank(T, x) < n)
  BY <1>1, <1>3 DEF First
<1> HIDE DEF last, page
<1>5. ~Before(x, last)
  <2> SUFFICES ASSUME Before(x, last) PROVE FALSE
    OBVIOUS
  <2>1. Rank(T, x) < Rank(T, last) /\ Rank(T, x) \in Nat /\ Rank(T, last) \in Nat
    BY <1>1, <1>4, Ranks
  <2> QED BY <1>4, <2>1
<1>6. x # last
  BY <1>4
<1> QED BY <1>1, <1>2, <1>4, <1>5, <1>6, Ordering

\* A cursor is an item or the empty cursor.
LEMMA CursorType ==
    ASSUME NEW S, S \subseteq Items, IsFiniteSet(S), NEW cursor,
           NEW n \in Nat \ {0}
    PROVE  NextCursor(S, n, cursor) \in Cursors
<1>1. CASE Page(S, n, cursor) = After(S, cursor)
  BY <1>1 DEF NextCursor, Cursors
<1>2. CASE Page(S, n, cursor) # After(S, cursor)
  <2>1. PICK x \in After(S, cursor) : x \notin Page(S, n, cursor)
    BY <1>2 DEF Page, First
  <2> QED BY <2>1, LeftOver DEF Cursors
<1> QED BY <1>1, <1>2
\* A page lies after the cursor it was asked for and not after the one it
\* comes with.
LEMMA PageBounds ==
    ASSUME NEW S, S \subseteq Items, IsFiniteSet(S), NEW cursor \in Cursors,
           NEW n \in Nat \ {0}
    PROVE  /\ \A x \in Page(S, n, cursor) :
                 x \in Items /\ (cursor = NoCursor \/ Before(cursor, x))
           /\ NextCursor(S, n, cursor) # NoCursor =>
                 /\ NextCursor(S, n, cursor) \in Page(S, n, cursor)
                 /\ \A x \in Page(S, n, cursor) : ~Before(NextCursor(S, n, cursor), x)
<1> DEFINE T == After(S, cursor)
           next == NextCursor(S, n, cursor)
<1>1. /\ T \subseteq Items /\ IsFiniteSet(T)
      /\ \A x \in T : cursor = NoCursor \/ Before(cursor, x)
  BY FS_Subset DEF After
<1>2. First(T, n) \subseteq T
  BY DEF First
<1>3. ASSUME next # NoCursor
      PROVE  next \in First(T, n) /\ \A x \in First(T, n) : ~Before(next, x)
  <2>1. First(T, n) # T /\ next = LastOf(First(T, n))
    BY <1>3 DEF NextCursor, Page
  <2>2. T # {}
    BY <1>2, <2>1
  <2> HIDE DEF T, next
  <2>3. First(T, n) # {}
    BY <1>1, <2>2, FirstNotEmpty
  <2>4. /\ next \in First(T, n)
        /\ \A y \in First(T, n) : y = next \/ Before(y, next)
    BY <1>1, <2>1, <2>3, LastExists
  <2>5. First(T, n) \subseteq Items
    BY <1>1, <1>2
  <2> QED BY <2>4, <2>5, Ordering
<1> HIDE DEF next
<1> QED BY <1>1, <1>2, <1>3 DEF Page, next

============================================================================
