------------------------ MODULE PagedListingProofs ------------------------
(***************************************************************************)
(* The enumeration misses nothing that stays put and repeats nothing of a  *)
(* tier that is not started over, for any number of tiers, items, page     *)
(* size and concurrent writes.                                             *)
(***************************************************************************)
EXTENDS SlicedListing, ListerProofs

----------------------------------------------------------------------------
\* There are finitely many items.
LEMMA ItemsFinite == IsFiniteSet(Items)
<1>1. IsFiniteSet(Times \X Names)
  BY FiniteAssumption, FS_Product
<1> DEFINE item == [p \in Times \X Names |-> [created |-> p[1], id |-> p[2]]]
<1>2. item \in Surjection(Times \X Names, Items)
  <2>1. item \in [Times \X Names -> Items]
    BY DEF Items
  <2>2. ASSUME NEW x \in Items PROVE \E p \in Times \X Names : item[p] = x
    <3>1. /\ <<x.created, x.id>> \in Times \X Names
          /\ x = [created |-> x.created, id |-> x.id]
      BY DEF Items
    <3>2. item[<<x.created, x.id>>] = [created |-> x.created, id |-> x.id]
      BY <3>1
    <3> QED BY <3>1, <3>2
  <2> HIDE DEF item
  <2> QED BY <2>1, <2>2 DEF Surjection
<1> HIDE DEF item
<1> QED BY <1>1, <1>2, FS_Surjection

----------------------------------------------------------------------------
(* The enumeration.                                                        *)

\* Where a stable item that has not been listed yet still lies ahead: behind
\* the cursor of its tier for a tier this hop has yet to ask, behind the cursor
\* for the next hop for a tier it has asked.
Pending(k, x) ==
    IF k < pos THEN nextCursors[k] # NoCursor /\ Before(nextCursors[k], x)
               ELSE cursors[k] = NoCursor \/ Before(cursors[k], x)

\* An item that has been listed lies behind, unless its tier was started over:
\* the same cursors, from the other side.
Behind(k, x) ==
    IF k < pos THEN nextCursors[k] = NoCursor \/ ~Before(nextCursors[k], x)
               ELSE cursors[k] # NoCursor /\ ~Before(cursors[k], x)

\* The inductive invariant of RepeatsOnlyOnRestart.
RInv == /\ TypeOK
        /\ \A k \in Kinds \ restarted : \A x \in Items :
              out[k][x] > 0 => out[k][x] = 1 /\ Behind(k, x)

\* The inductive invariant of Complete.
IInv == /\ TypeOK
        /\ \A k \in Kinds : stable[k] \subseteq tier[k]
        /\ status = "listing" =>
              \A k \in Kinds : \A x \in stable[k] : out[k][x] = 0 => Pending(k, x)
        /\ Complete

\* Nothing is listed yet and every tier is asked from the beginning.
LEMMA InitIInv == Init => IInv
<1> SUFFICES ASSUME Init PROVE IInv
  OBVIOUS
<1>1. TypeOK
  BY KindsAssumption, EditsAssumption
  DEF Init, TypeOK, NoCursors, Cursors, Kinds, Listings
<1> QED
  BY <1>1 DEF Init, IInv, Pending, NoCursors, Complete, Kinds

\* One page: what it does not list lies after its cursor.
LEMMA ListKindKeepsIInv ==
    ASSUME IInv, NEW k \in Kinds, ListKind(k)
    PROVE  IInv'
<1> DEFINE page == Page(tier[k], PageSize, cursors[k])
           next == NextCursor(tier[k], PageSize, cursors[k])
<1>1. tier[k] \subseteq Items /\ IsFiniteSet(tier[k])
  BY ItemsFinite, FS_Subset DEF IInv, TypeOK, Listings
<1>2. next \in Cursors
  BY <1>1, CursorType, PageAssumption
<1>3. /\ status = "listing" /\ status' = "listing" /\ pos = k /\ pos' = k + 1
      /\ nextCursors' = [nextCursors EXCEPT ![k] = next]
      /\ UNCHANGED <<tier, cursors, edits, restarted, stable>>
  BY DEF ListKind
<1>4. /\ \A x \in Items : x \in page => out'[k][x] # 0
      /\ \A x \in Items : out'[k][x] = 0 => out[k][x] = 0
      /\ \A j \in Kinds : j # k => out'[j] = out[j]
      /\ out' \in [Kinds -> [Items -> 0..2]]
  BY DEF ListKind, Twice, IInv, TypeOK
<1> HIDE DEF page, next
<1>5. TypeOK'
  <2>1. k + 1 \in 1..(NumKinds + 1)
    BY KindsAssumption DEF Kinds
  <2> QED BY <1>2, <1>3, <1>4, <2>1 DEF IInv, TypeOK
<1>6. ASSUME NEW j \in Kinds, NEW x \in stable[j], out'[j][x] = 0
      PROVE  Pending(j, x)'
  <2>1. x \in Items /\ x \in tier[j]
    BY DEF IInv, TypeOK
  <2>2. out[j][x] = 0
    BY <1>4, <1>6, <2>1
  <2>3. Pending(j, x)
    BY <1>3, <2>2 DEF IInv
  <2>4. CASE j = k
    <3>1. x \in After(tier[k], cursors[k])
      BY <1>3, <2>1, <2>3, <2>4, KindsAssumption DEF Pending, After, Kinds
    <3>2. x \notin page
      BY <1>4, <1>6, <2>1, <2>4
    <3>3. next \in Items /\ Before(next, x)
      BY <1>1, <3>1, <3>2, LeftOver, PageAssumption DEF page, next
    <3>4. next # NoCursor
      BY <3>3, CursorAssumption
    <3>5. nextCursors'[j] = next /\ j < pos'
      BY <1>3, <2>4 DEF IInv, TypeOK, Kinds
    <3> QED BY <3>3, <3>4, <3>5 DEF Pending
  <2>5. CASE j # k
    <3>1. nextCursors'[j] = nextCursors[j] /\ cursors' = cursors
      BY <1>3, <2>5 DEF IInv, TypeOK
    <3>2. (j < pos) <=> (j < pos')
      BY <1>3, <2>5, KindsAssumption DEF Kinds
    <3> QED BY <2>3, <3>1, <3>2 DEF Pending
  <2> QED BY <2>4, <2>5
<1> QED BY <1>3, <1>5, <1>6 DEF IInv, Complete

\* A write keeps the IDs of a tier distinct.
LEMMA EditKeepsType ==
    ASSUME TypeOK, NEW k \in Kinds, NEW x \in Items, Put(k, x) \/ Drop(k, x)
    PROVE  TypeOK'
<1>1. /\ tier' \in [Kinds -> Listings]
      /\ stable' \in [Kinds -> SUBSET Items]
  <2>1. tier'[k] \in Listings /\ stable[k] \cap tier'[k] \subseteq Items
    BY DEF Put, Drop, TypeOK, Listings
  <2>2. CASE Put(k, x)
    BY <2>1, <2>2 DEF Put, TypeOK
  <2>3. CASE Drop(k, x)
    BY <2>1, <2>3 DEF Drop, TypeOK
  <2> QED BY <2>2, <2>3
<1>2. edits' \in 0..MaxEdits
  BY EditsAssumption DEF Put, Drop, TypeOK
<1>3. UNCHANGED <<cursors, nextCursors, pos, out, status, restarted>>
  BY DEF Put, Drop, listerVars
<1> QED BY <1>1, <1>2, <1>3 DEF TypeOK

\* One step of the enumeration or of the users around it.
LEMMA StepKeepsIInv == IInv /\ [Next]_vars => IInv'
<1> SUFFICES ASSUME IInv, [Next]_vars PROVE IInv'
  OBVIOUS
<1>1. ASSUME NEW k \in Kinds, ListKind(k) PROVE IInv'
  BY <1>1, ListKindKeepsIInv
<1>2. CASE ListFails
  BY <1>2 DEF ListFails, IInv, TypeOK, Complete
<1>3. CASE Return
  <2>1. \A k \in Kinds : k < pos /\ nextCursors[k] = NoCursor
    BY <1>3, KindsAssumption DEF Return, NoCursors, Kinds
  <2>2. \A k \in Kinds : \A x \in stable[k] : out[k][x] # 0
    BY <1>3, <2>1 DEF Return, IInv, Pending
  <2>3. \A k \in Kinds : \A x \in stable[k] : out[k][x] > 0
    BY <2>2 DEF IInv, TypeOK
  <2> QED BY <1>3, <2>3 DEF Return, IInv, TypeOK, Complete
<1>4. CASE NextHop
  <2>1. TypeOK'
    BY <1>4, KindsAssumption DEF NextHop, IInv, TypeOK, NoCursors, Cursors
  <2>2. \A k \in Kinds : k < pos /\ ~(k < pos')
    BY <1>4, KindsAssumption DEF NextHop, Kinds
  <2>3. \A k \in Kinds, x \in Items : Pending(k, x) => Pending(k, x)'
    BY <1>4, <2>2 DEF NextHop, Pending
  <2>4. \A k \in Kinds : stable[k] \subseteq Items
    BY DEF IInv, TypeOK
  <2> QED BY <1>4, <2>1, <2>3, <2>4 DEF NextHop, IInv, Complete
<1>5. ASSUME NEW k \in Kinds, NEW x \in Items, Put(k, x) \/ Drop(k, x) PROVE IInv'
  <2>1. /\ status = "listing"
        /\ UNCHANGED <<cursors, nextCursors, pos, out, status>>
    BY <1>5 DEF Put, Drop, listerVars
  <2>2. TypeOK'
    BY <1>5, EditKeepsType DEF IInv
  <2>3. \A j \in Kinds : stable'[j] \subseteq tier'[j] /\ stable'[j] \subseteq stable[j]
    <3>1. CASE Put(k, x)
      BY <3>1 DEF Put, IInv, TypeOK
    <3>2. CASE Drop(k, x)
      BY <3>2 DEF Drop, IInv, TypeOK
    <3> QED BY <1>5, <3>1, <3>2
  <2>4. \A j \in Kinds, y \in Items : Pending(j, y) => Pending(j, y)'
    BY <2>1 DEF Pending
  <2>5. \A j \in Kinds : stable[j] \subseteq Items
    BY DEF IInv, TypeOK
  <2> QED BY <2>1, <2>2, <2>3, <2>4, <2>5 DEF IInv, Complete
<1>6. CASE UNCHANGED vars
  BY <1>6 DEF vars, IInv, TypeOK, Pending, Complete
<1> QED BY <1>1, <1>2, <1>3, <1>4, <1>5, <1>6 DEF Next

\* Whatever is added and removed around it between the pages of listAllPaged
\* and listAllScoped, an item that stays in its tier is in the result: for any
\* tiers, items, page size and number of concurrent writes.
THEOREM EnumerationIsComplete == Spec => []Complete
<1>1. IInv => Complete
  BY DEF IInv
<1> QED BY InitIInv, StepKeepsIInv, <1>1, PTL DEF Spec

\* The tiers, the cursors and the counts of the result keep their types, for
\* any tiers, items, page size and number of concurrent writes.
THEOREM ListingTypes == Spec => []TypeOK
<1>1. IInv => TypeOK
  BY DEF IInv
<1> QED BY InitIInv, StepKeepsIInv, <1>1, PTL DEF Spec

----------------------------------------------------------------------------
(* No repetitions without a restart.                                       *)

\* One page of a tier that has not been started over lists nothing twice.
LEMMA ListKindKeepsRInv ==
    ASSUME RInv, NEW k \in Kinds, ListKind(k)
    PROVE  RInv'
<1> DEFINE page == Page(tier[k], PageSize, cursors[k])
           next == NextCursor(tier[k], PageSize, cursors[k])
<1>1. /\ tier[k] \subseteq Items /\ IsFiniteSet(tier[k])
      /\ cursors[k] \in Cursors
  BY ItemsFinite, FS_Subset DEF RInv, TypeOK, Listings
<1>2. next \in Cursors
  BY <1>1, CursorType, PageAssumption
<1>3. /\ pos = k /\ pos' = k + 1
      /\ nextCursors' = [nextCursors EXCEPT ![k] = next]
      /\ UNCHANGED <<tier, cursors, edits, status, restarted, stable>>
  BY DEF ListKind
<1>4. /\ \A x \in Items : out'[k][x] = IF x \in page THEN Twice(out[k][x])
                                                     ELSE out[k][x]
      /\ \A j \in Kinds : j # k => out'[j] = out[j]
      /\ out' \in [Kinds -> [Items -> 0..2]]
  BY DEF ListKind, Twice, RInv, TypeOK
<1>5. /\ \A x \in page : x \in Items /\ (cursors[k] = NoCursor \/ Before(cursors[k], x))
      /\ next # NoCursor => next \in page /\ \A x \in page : ~Before(next, x)
  BY <1>1, PageBounds, PageAssumption
<1> HIDE DEF page, next
<1>6. TypeOK'
  <2>1. k + 1 \in 1..(NumKinds + 1)
    BY KindsAssumption DEF Kinds
  <2> QED BY <1>2, <1>3, <1>4, <2>1 DEF RInv, TypeOK
<1>7. ASSUME NEW j \in Kinds \ restarted, NEW x \in Items, out'[j][x] > 0
      PROVE  out'[j][x] = 1 /\ Behind(j, x)'
  <2>1. CASE j = k
    <3>1. nextCursors'[j] = next /\ j < pos' /\ ~(k < pos)
      BY <1>3, <2>1 DEF RInv, TypeOK, Kinds
    <3>2. out[k][x] \in 0..2
      BY DEF RInv, TypeOK
    <3>3. CASE x \in page
      <4>1. out[k][x] = 0
        <5>1. ~(out[k][x] > 0)
          BY <1>5, <2>1, <3>1, <3>3 DEF RInv, Behind
        <5> QED BY <3>2, <5>1
      <4>2. out'[j][x] = 1
        BY <1>4, <2>1, <3>3, <4>1 DEF Twice
      <4> QED BY <1>5, <3>1, <3>3, <4>2 DEF Behind
    <3>4. CASE x \notin page
      <4>1. out'[j][x] = out[k][x]
        BY <1>4, <2>1, <3>4
      <4>2. out[k][x] = 1 /\ cursors[k] # NoCursor /\ ~Before(cursors[k], x)
        BY <1>7, <2>1, <3>1, <4>1 DEF RInv, Behind
      <4>3. next # NoCursor => ~Before(next, x)
        <5> SUFFICES ASSUME next # NoCursor, Before(next, x) PROVE FALSE
          OBVIOUS
        <5>1. next \in Items /\ Before(cursors[k], next)
          BY <1>5, <4>2
        <5>2. cursors[k] \in Items
          BY <1>1, <4>2 DEF Cursors
        <5> QED BY <4>2, <5>1, <5>2, Ordering
      <4> QED BY <3>1, <4>1, <4>2, <4>3 DEF Behind
    <3> QED BY <3>3, <3>4
  <2>2. CASE j # k
    <3>1. /\ nextCursors'[j] = nextCursors[j] /\ cursors' = cursors
          /\ out'[j] = out[j]
      BY <1>3, <1>4, <2>2 DEF RInv, TypeOK
    <3>2. (j < pos) <=> (j < pos')
      BY <1>3, <2>2, KindsAssumption DEF Kinds
    <3>3. out[j][x] = 1 /\ Behind(j, x)
      BY <1>7, <3>1 DEF RInv
    <3> QED BY <3>1, <3>2, <3>3 DEF Behind
  <2> QED BY <2>1, <2>2
<1> QED BY <1>3, <1>6, <1>7 DEF RInv

\* However the tiers change between pages, a tier that is not started over
\* because of another reports no item twice: for any tiers, items, page size
\* and number of concurrent writes.
THEOREM RepeatsNeedARestart == Spec => []RepeatsOnlyOnRestart
<1>1. Init => RInv
  <2>1. Init => TypeOK
    BY InitIInv DEF IInv
  <2> QED BY <2>1 DEF Init, RInv
<1>2. RInv /\ [Next]_vars => RInv'
  <2> SUFFICES ASSUME RInv, [Next]_vars PROVE RInv'
    OBVIOUS
  <2>1. ASSUME NEW k \in Kinds, ListKind(k) PROVE RInv'
    BY <2>1, ListKindKeepsRInv
  <2>2. CASE ListFails \/ Return
    BY <2>2 DEF ListFails, Return, RInv, TypeOK, Behind
  <2>3. CASE NextHop
    <3>1. TypeOK'
      BY <2>3, KindsAssumption DEF NextHop, RInv, TypeOK, NoCursors, Cursors
    <3>2. ASSUME NEW k \in Kinds \ restarted', NEW x \in Items, out'[k][x] > 0
          PROVE  out'[k][x] = 1 /\ Behind(k, x)'
      <4>1. k \in Kinds \ restarted /\ nextCursors[k] # NoCursor /\ out' = out
        BY <2>3 DEF NextHop
      <4>2. k < pos /\ ~(k < pos') /\ cursors' = nextCursors
        BY <2>3, KindsAssumption DEF NextHop, Kinds
      <4> QED BY <3>2, <4>1, <4>2 DEF RInv, Behind
    <3> QED BY <3>1, <3>2 DEF RInv
  <2>4. ASSUME NEW k \in Kinds, NEW x \in Items, Put(k, x) \/ Drop(k, x) PROVE RInv'
    <3>1. UNCHANGED <<cursors, nextCursors, pos, out, status, restarted>>
      BY <2>4 DEF Put, Drop, listerVars
    <3>2. TypeOK'
      BY <2>4, EditKeepsType DEF RInv
    <3> QED BY <3>1, <3>2 DEF RInv, Behind
  <2>5. CASE UNCHANGED vars
    BY <2>5 DEF vars, RInv, TypeOK, Behind
  <2> QED BY <2>1, <2>2, <2>3, <2>4, <2>5 DEF Next
<1>3. RInv => RepeatsOnlyOnRestart
  <2> SUFFICES ASSUME RInv, NEW k \in Kinds \ restarted, NEW x \in Items
               PROVE  out[k][x] < 2
    BY DEF RepeatsOnlyOnRestart
  <2>1. out[k][x] \in 0..2 /\ (out[k][x] > 0 => out[k][x] = 1)
    BY DEF RInv, TypeOK
  <2> QED BY <2>1
<1> QED BY <1>1, <1>2, <1>3, PTL DEF Spec
----------------------------------------------------------------------------
(* The page as the code slices it.                                         *)

\* The ranks of the items of a listing are the numbers below its size.
LEMMA RanksCount ==
    ASSUME NEW S, S \subseteq Items, IsFiniteSet(S)
    PROVE  /\ Cardinality(S) \in Nat
           /\ \A x \in S : Rank(S, x) \in 0..(Cardinality(S) - 1)
           /\ \A r \in 0..(Cardinality(S) - 1) : \E x \in S : Rank(S, x) = r
<1> DEFINE n == Cardinality(S)
           rank == [x \in S |-> Rank(S, x)]
<1>1. n \in Nat
  BY FS_CardinalityType
<1>2. ASSUME NEW x \in S PROVE Rank(S, x) \in 0..(n - 1)
  <2> DEFINE P == {y \in S : Before(y, x)}
  <2>1. P \subseteq S /\ x \notin P
    BY Ordering
  <2>2. Rank(S, x) = Cardinality(P) /\ Rank(S, x) \in Nat
    BY Ranks DEF Rank
  <2> HIDE DEF P
  <2>3. Cardinality(P) <= n /\ (n = Cardinality(P) => S = P)
    BY <2>1, FS_Subset
  <2> QED BY <1>1, <2>1, <2>2, <2>3
<1>3. \A x, y \in S : rank[x] = rank[y] => x = y
  <2> SUFFICES ASSUME NEW x \in S, NEW y \in S, Rank(S, x) = Rank(S, y), x # y
               PROVE  FALSE
    OBVIOUS
  <2>1. Before(x, y) \/ Before(y, x)
    BY Ordering
  <2>2. Rank(S, x) < Rank(S, y) \/ Rank(S, y) < Rank(S, x)
    BY <2>1, Ranks
  <2> QED BY <2>2, Ranks
<1>4. rank \in [S -> 0..(n - 1)] /\ \A x \in S : rank[x] = Rank(S, x)
  BY <1>2
<1> HIDE DEF rank
<1>5. rank \in Injection(S, 0..(n - 1))
  BY <1>3, <1>4 DEF Injection, IsInjective
<1>6. IsFiniteSet(0..(n - 1)) /\ Cardinality(0..(n - 1)) = n
  <2>1. 0 \in Int /\ n - 1 \in Int
    BY <1>1
  <2>2. /\ IsFiniteSet(0..(n - 1))
        /\ Cardinality(0..(n - 1)) = IF 0 > n - 1 THEN 0 ELSE n - 1 - 0 + 1
    <3> HIDE DEF n
    <3> QED BY <2>1, FS_Interval
  <2> QED BY <1>1, <2>2
<1>7. rank \in Surjection(S, 0..(n - 1))
  BY <1>5, <1>6, FS_Injection
<1>8. \A r \in 0..(n - 1) : \E x \in S : Rank(S, x) = r
  BY <1>4, <1>7 DEF Surjection
<1> QED BY <1>1, <1>2, <1>8

\* There is such a sequence as Candidates names, and it holds every item once.
LEMMA CandidatesSorted ==
    ASSUME NEW S, S \subseteq Items, IsFiniteSet(S)
    PROVE  /\ Cardinality(S) \in Nat
           /\ Candidates(S) \in [1..Cardinality(S) -> S]
           /\ \A i, j \in 1..Cardinality(S) :
                 i < j <=> Before(Candidates(S)[i], Candidates(S)[j])
           /\ \A i, j \in 1..Cardinality(S) : Candidates(S)[i] = Candidates(S)[j] => i = j
           /\ \A x \in S : \E i \in 1..Cardinality(S) : Candidates(S)[i] = x
<1> DEFINE n == Cardinality(S)
           byRank == [i \in 1..n |-> CHOOSE x \in S : Rank(S, x) = i - 1]
           c == Candidates(S)
<1>1. /\ n \in Nat
      /\ \A x \in S : Rank(S, x) \in 0..(n - 1)
      /\ \A r \in 0..(n - 1) : \E x \in S : Rank(S, x) = r
  BY RanksCount
<1> HIDE DEF n
<1>2. \A i \in 1..n : byRank[i] \in S /\ Rank(S, byRank[i]) = i - 1
  <2> SUFFICES ASSUME NEW i \in 1..n
               PROVE  byRank[i] \in S /\ Rank(S, byRank[i]) = i - 1
    OBVIOUS
  <2>1. i - 1 \in 0..(n - 1)
    BY <1>1
  <2>2. \E x \in S : Rank(S, x) = i - 1
    BY <1>1, <2>1
  <2>3. byRank[i] = CHOOSE x \in S : Rank(S, x) = i - 1
    OBVIOUS
  <2> QED BY <2>2, <2>3
<1>3. byRank \in [1..n -> S]
  BY <1>2
<1> HIDE DEF byRank
<1>4. \A i, j \in 1..n : i < j => Before(byRank[i], byRank[j])
  <2> SUFFICES ASSUME NEW i \in 1..n, NEW j \in 1..n, i < j
               PROVE  Before(byRank[i], byRank[j])
    OBVIOUS
  <2>1. /\ byRank[i] \in S /\ byRank[j] \in S
        /\ Rank(S, byRank[i]) = i - 1 /\ Rank(S, byRank[j]) = j - 1
    BY <1>2
  <2>2. byRank[i] # byRank[j]
    BY <1>1, <2>1
  <2>3. ~Before(byRank[j], byRank[i])
    <3>1. ASSUME Before(byRank[j], byRank[i]) PROVE FALSE
      <4>1. j - 1 < i - 1
        BY <2>1, <3>1, Ranks
      <4> QED BY <1>1, <4>1
    <3> QED BY <3>1
  <2> QED BY <2>1, <2>2, <2>3, Ordering
<1>5. c \in [1..n -> S] /\ \A i, j \in 1..n : i < j => Before(c[i], c[j])
  BY <1>3, <1>4 DEF Candidates, n
<1> HIDE DEF c
<1>6. \A i \in 1..n : c[i] \in Items
  BY <1>5
<1>7. \A i, j \in 1..n : c[i] = c[j] => i = j
  <2> SUFFICES ASSUME NEW i \in 1..n, NEW j \in 1..n, c[i] = c[j], i < j \/ j < i
               PROVE  FALSE
    BY <1>1
  <2> QED BY <1>5, <1>6, Ordering
<1>8. \A i, j \in 1..n : i < j <=> Before(c[i], c[j])
  <2> SUFFICES ASSUME NEW i \in 1..n, NEW j \in 1..n, Before(c[i], c[j]) PROVE i < j
    BY <1>5
  <2>1. i # j
    BY <1>6, Ordering
  <2>2. ~(j < i)
    BY <1>5, <1>6, Ordering
  <2> QED BY <1>1, <2>1, <2>2
<1>9. c \in Injection(1..n, S)
  BY <1>5, <1>7 DEF Injection, IsInjective
<1>10. Cardinality(1..n) = n
  <2>1. Cardinality(1..n) = IF 1 > n THEN 0 ELSE n - 1 + 1
    BY <1>1, FS_Interval
  <2> QED BY <1>1, <2>1
<1>11. c \in Surjection(1..n, S)
  BY <1>9, <1>10, FS_Injection DEF n
<1>12. \A x \in S : \E i \in 1..n : c[i] = x
  BY <1>11 DEF Surjection
<1> QED BY <1>1, <1>5, <1>7, <1>8, <1>12 DEF c, n

\* The candidates behind start are what is left after the cursor.
LEMMA StartOfPage ==
    ASSUME NEW S, S \subseteq Items, IsFiniteSet(S), NEW cursor \in Cursors
    PROVE  /\ Len(Candidates(S)) = Cardinality(S)
           /\ Start(Candidates(S), cursor) \in 0..Cardinality(S)
           /\ \A i \in 1..Cardinality(S) :
                 Candidates(S)[i] \in After(S, cursor)
                    <=> i > Start(Candidates(S), cursor)
<1> DEFINE n == Cardinality(S)
           c == Candidates(S)
           start == Start(c, cursor)
<1>1. /\ n \in Nat /\ c \in [1..n -> S]
      /\ \A i, j \in 1..n : i < j => Before(c[i], c[j])
  BY CandidatesSorted
<1> HIDE DEF n, c
<1>2. Len(c) = n
  BY <1>1
<1>3. CASE cursor = NoCursor
  BY <1>1, <1>2, <1>3 DEF Start, After, n, c
<1>4. CASE cursor # NoCursor
  <2> DEFINE after == {i \in 1..n : Before(cursor, c[i])}
  <2>1. cursor \in Items /\ \A i \in 1..n : c[i] \in Items
    BY <1>1, <1>4 DEF Cursors
  <2>2. \A i \in 1..n : c[i] \in After(S, cursor) <=> i \in after
    BY <1>1, <1>4 DEF After
  <2>3. start = IF after = {} THEN n ELSE Min(after) - 1
    <3>1. \A x \in Items : x.created \in Nat /\ x.id \in Nat
      BY ItemAssumption DEF Items
    <3>2. after = {i \in 1..Len(c) : \/ c[i].created < cursor.created
                                     \/ /\ c[i].created = cursor.created
                                        /\ c[i].id > cursor.id}
      BY <1>2, <2>1, <3>1 DEF Before
    <3> HIDE DEF after
    <3> QED BY <1>2, <1>4, <3>2 DEF Start
  <2>4. \A i, j \in 1..n : i \in after /\ i < j => j \in after
    BY <1>1, <2>1, Ordering
  <2>5. after \subseteq 1..n
    OBVIOUS
  <2> HIDE DEF after, start
  <2>6. CASE after = {}
    <3>1. start = n
      BY <2>3, <2>6
    <3> QED BY <1>1, <1>2, <2>2, <2>6, <3>1 DEF start, c, n
  <2>7. CASE after # {}
    <3>1. \E x \in after : \A y \in after : x <= y
      <4>1. after \subseteq Nat
        BY <1>1, <2>5
      <4> QED BY <2>7, <4>1, LeastOf
    <3>2. Min(after) \in after /\ \A y \in after : Min(after) <= y
      BY <3>1 DEF Min
    <3>3. PICK m \in after : m = Min(after) /\ \A y \in after : m <= y
      BY <3>2
    <3>4. start = m - 1 /\ m \in 1..n
      BY <2>3, <2>5, <2>7, <3>3
    <3>5. start \in 0..n
      BY <1>1, <3>4
    <3>6. \A i \in 1..n : i \in after <=> i > start
      <4> SUFFICES ASSUME NEW i \in 1..n PROVE i \in after <=> i > start
        OBVIOUS
      <4>1. ASSUME i \in after PROVE i > start
        BY <1>1, <3>3, <3>4, <4>1
      <4>2. ASSUME i > start PROVE i \in after
        <5>1. i = m \/ m < i
          BY <1>1, <3>4, <4>2
        <5> QED BY <2>4, <3>4, <5>1
      <4> QED BY <4>1, <4>2
    <3> QED BY <1>2, <2>2, <3>5, <3>6 DEF start, c, n
  <2> QED BY <2>6, <2>7
<1> QED BY <1>3, <1>4

\* The rank among the items behind start of the candidate at a place.
LEMMA RankBehind ==
    ASSUME NEW S, S \subseteq Items, IsFiniteSet(S), NEW cursor \in Cursors,
           NEW i \in 1..Cardinality(S), i > Start(Candidates(S), cursor)
    PROVE  Rank(After(S, cursor), Candidates(S)[i]) = i - 1 - Start(Candidates(S), cursor)
<1> DEFINE n == Cardinality(S)
           c == Candidates(S)
           start == Start(c, cursor)
           P == {y \in After(S, cursor) : Before(y, c[i])}
           place == [j \in (start + 1)..(i - 1) |-> c[j]]
<1>1. /\ n \in Nat /\ c \in [1..n -> S]
      /\ \A j, k \in 1..n : j < k <=> Before(c[j], c[k])
      /\ \A j, k \in 1..n : c[j] = c[k] => j = k
      /\ \A x \in S : \E j \in 1..n : c[j] = x
  BY CandidatesSorted
<1>2. start \in 0..n /\ \A j \in 1..n : c[j] \in After(S, cursor) <=> j > start
  BY StartOfPage
<1>3. Rank(After(S, cursor), c[i]) = Cardinality(P)
  BY DEF Rank
<1>4. i \in 1..n /\ i > start
  OBVIOUS
<1>5. After(S, cursor) \subseteq S
  BY DEF After
<1> HIDE DEF n, c, start
<1>6. \A j \in (start + 1)..(i - 1) : j \in 1..n /\ j > start /\ j < i
  BY <1>1, <1>2, <1>4
<1>7. \A j \in (start + 1)..(i - 1) : place[j] \in P
  BY <1>1, <1>2, <1>4, <1>6
<1>8. \A j, k \in (start + 1)..(i - 1) : place[j] = place[k] => j = k
  BY <1>1, <1>6
<1>9. ASSUME NEW x \in P PROVE \E j \in (start + 1)..(i - 1) : place[j] = x
  <2>1. PICK j \in 1..n : c[j] = x
    BY <1>1, <1>5
  <2>2. j > start /\ j < i
    BY <1>1, <1>2, <1>4, <2>1
  <2>3. j \in (start + 1)..(i - 1)
    BY <1>1, <1>2, <1>4, <2>2
  <2> QED BY <2>1, <2>3
<1>10. place \in [(start + 1)..(i - 1) -> P]
  BY <1>7
<1> HIDE DEF place, P
<1>11. place \in Bijection((start + 1)..(i - 1), P)
  BY <1>8, <1>9, <1>10 DEF Bijection, Injection, Surjection, IsInjective
<1>12. /\ IsFiniteSet((start + 1)..(i - 1))
       /\ Cardinality((start + 1)..(i - 1)) = i - 1 - start
  <2>1. start + 1 \in Int /\ i - 1 \in Int
    BY <1>1, <1>2, <1>4
  <2>2. /\ IsFiniteSet((start + 1)..(i - 1))
        /\ Cardinality((start + 1)..(i - 1)) =
              IF start + 1 > i - 1 THEN 0 ELSE (i - 1) - (start + 1) + 1
    BY <2>1, FS_Interval
  <2> QED BY <1>1, <1>2, <1>4, <2>2
<1>13. Cardinality(P) = i - 1 - start
  BY <1>11, <1>12, FS_Bijection DEF ExistsBijection
<1> QED BY <1>3, <1>13 DEF start, c

\* What listFromStore slices out of the sorted candidates is the page by rank,
\* in order and without repetitions, with the same cursor: for any finite
\* listing, cursor and page size.
LEMMA SliceIsPage ==
    ASSUME NEW S, S \subseteq Items, IsFiniteSet(S), NEW cursor \in Cursors,
           NEW size \in Nat \ {0}
    PROVE  LET page == ListFromStore(S, size, cursor) IN
           /\ ToSet(page.items) = Page(S, size, cursor)
           /\ Len(page.items) = Cardinality(Page(S, size, cursor))
           /\ \A i, j \in DOMAIN page.items :
                 i < j => Before(page.items[i], page.items[j])
           /\ page.next = NextCursor(S, size, cursor)
<1> DEFINE n == Cardinality(S)
           c == Candidates(S)
           start == Start(c, cursor)
           end == IF start + size > n THEN n ELSE start + size
           slice == SubSeq(c, start + 1, end)
           page == Page(S, size, cursor)
           rest == After(S, cursor)
           at == [i \in 1..(end - start) |-> c[start + i]]
<1>1. /\ n \in Nat /\ c \in [1..n -> S]
      /\ \A j, k \in 1..n : j < k <=> Before(c[j], c[k])
      /\ \A j, k \in 1..n : c[j] = c[k] => j = k
      /\ \A x \in S : \E j \in 1..n : c[j] = x
  BY CandidatesSorted
<1>2. /\ Len(c) = n /\ start \in 0..n
      /\ \A j \in 1..n : c[j] \in rest <=> j > start
  BY StartOfPage
<1>3. \A j \in 1..n : j > start => Rank(rest, c[j]) = j - 1 - start
  BY RankBehind
<1>4. ListFromStore(S, size, cursor) =
         [items |-> slice, next |-> IF end < n THEN c[end] ELSE NoCursor]
  BY <1>2 DEF ListFromStore
<1>5. page = {x \in rest : Rank(rest, x) < size} /\ page = First(rest, size)
  BY DEF Page, First
<1>6. rest \subseteq S
  BY DEF After
<1>7. NextCursor(S, size, cursor) = IF page = rest THEN NoCursor ELSE LastOf(page)
  BY DEF NextCursor
<1> HIDE DEF n, c, start, page, rest
<1>8. end \in 0..n /\ start <= end
  BY <1>1, <1>2
<1>9. \A j \in 1..n : c[j] \in page <=> j > start /\ j <= end
  <2> SUFFICES ASSUME NEW j \in 1..n PROVE c[j] \in page <=> j > start /\ j <= end
    OBVIOUS
  <2>1. CASE j > start
    <3>1. c[j] \in page <=> j - 1 - start < size
      BY <1>2, <1>3, <1>5, <2>1
    <3>2. j - 1 - start < size <=> j <= end
      BY <1>1, <1>2
    <3> QED BY <2>1, <3>1, <3>2
  <2>2. CASE ~(j > start)
    BY <1>2, <1>5, <2>2
  <2> QED BY <2>1, <2>2
<1>10. end < n => end = start + size /\ end > start
  BY <1>1, <1>2
<1>11. end < n \/ end = n
  BY <1>1, <1>8
<1> HIDE DEF end
<1>12. slice = at
  <2>1. c \in Seq(S)
    BY <1>1
  <2>2. slice = [i \in 1..(end - start) |-> c[start + i]]
    <3>1. \A i \in 1..(end - start) : (start + 1) + i - 1 = start + i
      BY <1>1, <1>2, <1>8
    <3>2. end - (start + 1) + 1 = end - start
      BY <1>1, <1>2, <1>8
    <3> QED BY <1>1, <1>2, <1>8, <2>1, <3>1, <3>2
  <2> QED BY <2>2
<1>13. \A i \in 1..(end - start) :
          /\ start + i \in 1..n /\ at[i] = c[start + i] /\ at[i] \in page
          /\ at[i] \in S
  <2> SUFFICES ASSUME NEW i \in 1..(end - start)
               PROVE  start + i \in 1..n /\ c[start + i] \in page /\ c[start + i] \in S
    OBVIOUS
  <2>1. start + i \in 1..n /\ start + i > start /\ start + i <= end
    BY <1>1, <1>2, <1>8
  <2> QED BY <1>1, <1>9, <2>1
<1>14. ASSUME NEW x \in page PROVE \E i \in 1..(end - start) : at[i] = x
  <2>1. PICK j \in 1..n : c[j] = x
    BY <1>1, <1>5, <1>6
  <2>2. j > start /\ j <= end
    BY <1>9, <2>1
  <2>3. j - start \in 1..(end - start) /\ start + (j - start) = j
    BY <1>1, <1>2, <1>8, <2>2
  <2> QED BY <2>1, <2>3
<1>15. DOMAIN at = 1..(end - start) /\ end - start \in Nat
  BY <1>1, <1>2, <1>8
<1>16. at \in [1..(end - start) -> page]
  BY <1>13
<1>17. \A i, j \in 1..(end - start) : at[i] = at[j] => i = j
  BY <1>1, <1>2, <1>8, <1>13
<1>18. \A i, j \in 1..(end - start) : i < j => Before(at[i], at[j])
  BY <1>1, <1>2, <1>8, <1>13
<1> HIDE DEF at, slice
<1>19. ToSet(at) = page
  BY <1>14, <1>15, <1>16 DEF ToSet
<1>20. Len(at) = end - start
  BY <1>15, <1>16
<1>21. Cardinality(page) = end - start
  <2>1. at \in Bijection(1..(end - start), page)
    BY <1>14, <1>16, <1>17 DEF Bijection, Injection, Surjection, IsInjective
  <2> DEFINE m == end - start
  <2>2. m \in Nat
    BY <1>15
  <2> HIDE DEF m
  <2>3. IsFiniteSet(1..m) /\ Cardinality(1..m) = IF 1 > m THEN 0 ELSE m - 1 + 1
    BY <2>2, FS_Interval
  <2>4. Cardinality(page) = Cardinality(1..m)
    BY <2>1, <2>3, FS_Bijection DEF ExistsBijection, m
  <2> QED BY <2>2, <2>3, <2>4 DEF m
<1>22. NextCursor(S, size, cursor) = IF end < n THEN c[end] ELSE NoCursor
  <2>1. CASE end = n
    <3>1. page = rest
      <4>1. ASSUME NEW x \in rest PROVE x \in page
        <5>1. PICK j \in 1..n : c[j] = x
          BY <1>1, <1>6
        <5> QED BY <1>2, <1>9, <2>1, <5>1
      <4> QED BY <1>5, <4>1
    <3> QED BY <1>1, <1>7, <2>1, <3>1
  <2>2. CASE end < n
    <3>1. end + 1 \in 1..n /\ end \in 1..n /\ end > start
      BY <1>1, <1>2, <1>8, <1>10, <2>2
    <3>2. c[end + 1] \in rest /\ c[end + 1] \notin page
      BY <1>1, <1>2, <1>8, <1>9, <1>10, <2>2, <3>1
    <3>3. c[end] \in page
      BY <1>8, <1>9, <3>1
    <3>4. \A y \in page : y = c[end] \/ Before(y, c[end])
      <4> SUFFICES ASSUME NEW y \in page PROVE y = c[end] \/ Before(y, c[end])
        OBVIOUS
      <4>1. PICK j \in 1..n : c[j] = y
        BY <1>1, <1>5, <1>6
      <4>2. j <= end
        BY <1>9, <4>1
      <4>3. j = end \/ j < end
        BY <1>8, <4>2
      <4> QED BY <1>1, <3>1, <4>1, <4>3
    <3>5. rest \subseteq Items /\ IsFiniteSet(rest)
      BY <1>6, FS_Subset
    <3>6. /\ LastOf(page) \in page
          /\ \A y \in page : y = LastOf(page) \/ Before(y, LastOf(page))
      BY <1>5, <3>3, <3>5, LastExists
    <3>7. page \subseteq Items
      BY <1>5, <3>5
    <3>8. LastOf(page) = c[end]
      BY <3>3, <3>4, <3>6, <3>7, Ordering
    <3>9. page # rest
      BY <3>2
    <3> QED BY <1>7, <2>2, <3>8, <3>9
  <2> QED BY <1>11, <2>1, <2>2
<1> DEFINE result == ListFromStore(S, size, cursor)
<1>23. result.items = at /\ result.next = NextCursor(S, size, cursor)
  BY <1>4, <1>12, <1>22
<1> HIDE DEF result
<1>24. /\ ToSet(result.items) = page
       /\ Len(result.items) = Cardinality(page)
       /\ \A i, j \in DOMAIN result.items :
             i < j => Before(result.items[i], result.items[j])
  BY <1>15, <1>18, <1>19, <1>20, <1>21, <1>23
<1> QED BY <1>23, <1>24 DEF page, result

\* In every state of an enumeration, for any tiers, cursors and concurrent
\* writes, the page listFromStore slices out of a tier is the page by rank.
THEOREM SlicesArePages == Spec => []PageMeetsReference
<1>1. TypeOK => PageMeetsReference
  <2> SUFFICES ASSUME TypeOK, NEW k \in Kinds, NEW n \in 1..MaxSize
               PROVE  LET page == ListFromStore(tier[k], n, cursors[k]) IN
                      /\ ToSet(page.items) = Page(tier[k], n, cursors[k])
                      /\ Len(page.items) = Cardinality(Page(tier[k], n, cursors[k]))
                      /\ \A i, j \in DOMAIN page.items :
                            i < j => Before(page.items[i], page.items[j])
                      /\ page.next = NextCursor(tier[k], n, cursors[k])
    BY DEF PageMeetsReference
  <2>1. n \in Nat \ {0}
    BY SizeAssumption
  <2>2. tier[k] \subseteq Items /\ cursors[k] \in Cursors
    BY DEF TypeOK, Listings
  <2>3. IsFiniteSet(tier[k])
    BY <2>2, ItemsFinite, FS_Subset
  <2> QED BY <2>1, <2>2, <2>3, SliceIsPage
<1>2. Spec => []TypeOK
  BY ListingTypes
<1> QED BY <1>1, <1>2, PTL

============================================================================
