------------------------ MODULE ConsolidationProofs ------------------------
(***************************************************************************)
(* What Consolidate guarantees for any number of concurrent calls, items   *)
(* with and without Metadata, IDs used again, page sizes and hops.         *)
(***************************************************************************)
EXTENDS Consolidation, ListerProofs

\* The part of the type invariant that the arguments need.
Typed == /\ work \in [WorkIds -> 0..MaxInc] /\ used \in [WorkIds -> 0..MaxInc]
         /\ promo \in Counts /\ clones \in Counts
         /\ pc \in [Consolidators -> Pcs]
         /\ todo \in [Consolidators -> Seq(Copies)]

\* A call that is about to add or to stamp has an item in hand.
InHand == \A c \in Consolidators : pc[c] \in {"add", "stamp"} => todo[c] # << >>

\* The copies a page contributes.
Appended(ids) == [n \in DOMAIN ids |-> Copy(ids[n])]

\* The items a call has still to look at.
TodoItems(c) == {<<todo[c][i].id, todo[c][i].inc>> : i \in 1..Len(todo[c])}

----------------------------------------------------------------------------
(* Facts about one step.                                                   *)

\* A page of the working tier holds IDs of items that are there, finitely many.
LEMMA PageIds ==
    ASSUME NEW cursor,
           NEW ids \in Ordered(Page(Listing({id \in WorkIds : work[id] # 0}),
                                    PageSize, cursor))
    PROVE  \E n \in Nat : /\ ids \in [1..n -> {id \in WorkIds : work[id] # 0}]
                          /\ DOMAIN ids = 1..n
<1> DEFINE present == {id \in WorkIds : work[id] # 0}
           page == Page(Listing(present), PageSize, cursor)
<1>1. page \subseteq Listing(present)
  BY DEF Page, First, After
<1>2. \A x \in page : x.id \in present
  BY <1>1 DEF Listing
<1>3. IsFiniteSet(Listing(present))
  <2>1. IsFiniteSet(present)
    BY WorkAssumption, FS_Subset
  <2> DEFINE item == [i \in present |-> [created |-> 1, id |-> i]]
  <2>2. item \in Surjection(present, Listing(present))
    BY DEF Surjection, Listing
  <2> HIDE DEF item
  <2> QED BY <2>1, <2>2, FS_Surjection
<1>4. Cardinality(page) \in Nat
  BY <1>1, <1>3, FS_Subset, FS_CardinalityType
<1>5. ids \in [1..Cardinality(page) -> {x.id : x \in page}]
  BY DEF Ordered
<1>6. ids \in [1..Cardinality(page) -> present]
  BY <1>2, <1>5
<1> QED BY <1>4, <1>6

\* The copies a page contributes are copies of items in the tier.
LEMMA PageCopies ==
    ASSUME Typed, NEW cursor,
           NEW ids \in Ordered(Page(Listing({id \in WorkIds : work[id] # 0}),
                                    PageSize, cursor))
    PROVE  /\ Appended(ids) \in Seq(Copies)
           /\ \A i \in 1..Len(Appended(ids)) :
                 LET copy == Appended(ids)[i] IN
                 /\ work[copy.id] # 0 /\ copy.inc = work[copy.id]
                 /\ copy.meta = (<<copy.id, copy.inc>> \in meta)
<1>1. PICK n \in Nat : /\ ids \in [1..n -> {id \in WorkIds : work[id] # 0}]
                       /\ DOMAIN ids = 1..n
  BY PageIds
<1>2. \A i \in 1..n : ids[i] \in WorkIds /\ work[ids[i]] # 0
  BY <1>1
<1>3. \A i \in 1..n : Copy(ids[i]) \in Copies
  BY <1>2, BoundAssumption DEF Copy, Copies, Incs, Typed
<1>4. Appended(ids) \in [1..n -> Copies]
  BY <1>1, <1>3 DEF Appended
<1>5. Appended(ids) \in Seq(Copies) /\ Len(Appended(ids)) = n
  BY <1>1, <1>4
<1>6. \A i \in 1..n : Appended(ids)[i] = Copy(ids[i])
  BY <1>1 DEF Appended
<1>7. \A i \in 1..n : /\ Copy(ids[i]).id = ids[i]
                     /\ Copy(ids[i]).inc = work[ids[i]]
                     /\ Copy(ids[i]).meta = (<<ids[i], work[ids[i]]>> \in meta)
  BY DEF Copy
<1>8. ASSUME NEW i \in 1..n
      PROVE  LET copy == Appended(ids)[i] IN
             /\ work[copy.id] # 0 /\ copy.inc = work[copy.id]
             /\ copy.meta = (<<copy.id, copy.inc>> \in meta)
  <2>1. Appended(ids)[i] = Copy(ids[i])
    BY <1>6
  <2>2. /\ Appended(ids)[i].id = ids[i]
        /\ Appended(ids)[i].inc = work[ids[i]]
        /\ Appended(ids)[i].meta = (<<ids[i], work[ids[i]]>> \in meta)
    BY <2>1, <1>7
  <2> QED BY <1>2, <2>2
<1> QED BY <1>5, <1>8

\* What is at the head of a list of copies that is not empty.
LEMMA HeadCopy ==
    ASSUME Typed, NEW c \in Consolidators, todo[c] # << >>
    PROVE  /\ Head(todo[c]) \in Copies /\ Tail(todo[c]) \in Seq(Copies)
           /\ Head(todo[c]).id \in WorkIds /\ Head(todo[c]).inc \in Incs
           /\ Head(todo[c]) = todo[c][1] /\ 1 \in 1..Len(todo[c])
<1>1. todo[c] \in Seq(Copies)
  BY DEF Typed
<1>2. Head(todo[c]) \in Copies /\ Tail(todo[c]) \in Seq(Copies)
      /\ Head(todo[c]) = todo[c][1] /\ 1 \in 1..Len(todo[c])
  BY <1>1
<1> QED BY <1>2 DEF Copies

\* Counting one more keeps the counts in range.
LEMMA MoreCounts ==
    ASSUME NEW f \in Counts, NEW id \in WorkIds, NEW n \in Incs
    PROVE  /\ [f EXCEPT ![id][n] = More(@)] \in Counts
           /\ More(f[id][n]) > 0
BY DEF Counts, More

\* Every step keeps the types, and an item in hand where one is needed.
LEMMA StepTyped == Typed /\ InHand /\ [Next]_vars => Typed' /\ InHand'
<1> SUFFICES ASSUME Typed, InHand, [Next]_vars PROVE Typed' /\ InHand'
  OBVIOUS
<1> USE DEF Typed, InHand, Pcs, tierVars, listVars
<1>1. ASSUME NEW id \in WorkIds, NEW m \in BOOLEAN, UserAdd(id, m)
      PROVE  Typed' /\ InHand'
  BY <1>1, BoundAssumption DEF UserAdd
<1>2. ASSUME NEW id \in WorkIds, UserRemove(id) PROVE Typed' /\ InHand'
  BY <1>2, BoundAssumption DEF UserRemove
<1>3. ASSUME NEW id \in WorkIds, UserUpdate(id) PROVE Typed' /\ InHand'
  BY <1>3 DEF UserUpdate
<1>4. ASSUME NEW c \in Consolidators, Consolidate(c) PROVE Typed' /\ InHand'
  BY <1>4 DEF Consolidate
<1>5. ASSUME NEW c \in Consolidators, ListWorking(c) PROVE Typed' /\ InHand'
  <2>1. PICK ids \in Ordered(Page(Listing({id \in WorkIds : work[id] # 0}),
                                  PageSize, wcursor[c])) :
           todo' = [todo EXCEPT ![c] = @ \o Appended(ids)]
    BY <1>5 DEF ListWorking, Appended
  <2>2. Appended(ids) \in Seq(Copies)
    BY PageCopies
  <2>3. todo[c] \o Appended(ids) \in Seq(Copies)
    BY <2>2
  <2>4. Typed'
    BY <1>5, <2>1, <2>3 DEF ListWorking
  <2>5. InHand'
    BY <1>5, <2>1 DEF ListWorking
  <2> QED BY <2>4, <2>5
<1>6. ASSUME NEW c \in Consolidators, ListEpisodic(c) PROVE Typed' /\ InHand'
  BY <1>6 DEF ListEpisodic
<1>7. ASSUME NEW c \in Consolidators, Finish(c) PROVE Typed' /\ InHand'
  BY <1>7 DEF Finish
<1>8. ASSUME NEW c \in Consolidators, Check(c) PROVE Typed' /\ InHand'
  <2>1. Tail(todo[c]) \in Seq(Copies)
    BY <1>8 DEF Check
  <2> QED BY <1>8, <2>1 DEF Check, Advance
<1>9. ASSUME NEW c \in Consolidators, AddClone(c) PROVE Typed' /\ InHand'
  <2>1. Head(todo[c]) \in Copies
    BY <1>9 DEF AddClone
  <2>2. clones' \in Counts
    BY <1>9, <2>1, MoreCounts DEF AddClone, Copies
  <2> QED BY <1>9, <2>2 DEF AddClone
<1>10. ASSUME NEW c \in Consolidators, AddCloneFails(c) \/ StampFails(c)
       PROVE  Typed' /\ InHand'
  BY <1>10 DEF AddCloneFails, StampFails
<1>11. ASSUME NEW c \in Consolidators, Stamp(c) PROVE Typed' /\ InHand'
  <2>1. Head(todo[c]) \in Copies /\ Tail(todo[c]) \in Seq(Copies)
    BY <1>11 DEF Stamp
  <2>2. Head(todo[c]).id \in WorkIds /\ work[Head(todo[c]).id] \in Incs
    BY <1>11, <2>1, BoundAssumption DEF Stamp, Copies, Incs
  <2>3. promo' \in Counts
    BY <1>11, <2>2, MoreCounts DEF Stamp
  <2> QED BY <1>11, <2>1, <2>3 DEF Stamp, Advance
<1>12. CASE UNCHANGED vars
  BY <1>12 DEF vars
<1> QED
  BY <1>1, <1>2, <1>3, <1>4, <1>5, <1>6, <1>7, <1>8, <1>9, <1>10, <1>11, <1>12
  DEF Next

\* The tiers start empty and nothing is in flight.
LEMMA InitTyped == Init => Typed /\ InHand
BY BoundAssumption DEF Init, Typed, InHand, Counts, Incs, Pcs

\* What is listed of a tier is a finite set of items.
LEMMA ListingItems ==
    ASSUME NEW ids, IsFiniteSet(ids), ids \subseteq Names
    PROVE  Listing(ids) \subseteq Items /\ IsFiniteSet(Listing(ids))
<1>1. Listing(ids) \subseteq Items
  BY EpisodicAssumption DEF Listing, Items
<1> DEFINE item == [i \in ids |-> [created |-> 1, id |-> i]]
<1>2. item \in Surjection(ids, Listing(ids))
  BY DEF Surjection, Listing
<1> HIDE DEF item
<1> QED BY <1>1, <1>2, FS_Surjection

\* The cursors the two listings come with.
LEMMA CursorsTyped ==
    ASSUME TypeOK, NEW cursor
    PROVE  /\ NextCursor(Listing({id \in WorkIds : work[id] # 0}), PageSize, cursor)
                \in Cursors
           /\ NextCursor(Listing(1..episodic), PageSize, cursor) \in Cursors
<1>1. /\ {id \in WorkIds : work[id] # 0} \subseteq Names
      /\ IsFiniteSet({id \in WorkIds : work[id] # 0})
  BY WorkAssumption, FS_Subset
<1>2. 1..episodic \subseteq Names /\ IsFiniteSet(1..episodic)
  <2>1. episodic \in Nat /\ episodic <= MaxEpisodic
    BY BoundAssumption DEF TypeOK
  <2>2. 1..episodic \subseteq 1..MaxEpisodic
    BY <2>1, BoundAssumption
  <2>3. IsFiniteSet(1..episodic)
    BY <2>1, FS_Interval
  <2> QED BY <2>2, <2>3, EpisodicAssumption
<1> QED BY <1>1, <1>2, ListingItems, CursorType, PageAssumption

\* Every step keeps all the types.
LEMMA StepTypes == TypeOK /\ InHand /\ [Next]_vars => TypeOK' /\ InHand'
<1> SUFFICES ASSUME TypeOK, InHand, [Next]_vars PROVE TypeOK' /\ InHand'
  OBVIOUS
<1>0. Typed /\ Typed' /\ InHand'
  <2>1. Typed
    BY DEF TypeOK, Typed
  <2> QED BY <2>1, StepTyped
<1> DEFINE Rest == /\ meta \subseteq WorkIds \X Incs
                   /\ episodic \in 0..MaxEpisodic
                   /\ wcursor \in [Consolidators -> Cursors]
                   /\ ecursor \in [Consolidators -> Cursors]
                   /\ hops \in [Consolidators -> 0..MaxHops]
                   /\ runs \in 0..MaxRuns
                   /\ stable \in [Consolidators -> SUBSET (WorkIds \X Incs)]
                   /\ unseen \subseteq WorkIds \X Incs
                   /\ misplaced \subseteq WorkIds \X Incs \X (0..MaxInc)
<1>a. Rest
  BY DEF TypeOK
<1>b. \A id \in WorkIds : work[id] # 0 => work[id] \in Incs
  BY BoundAssumption DEF TypeOK, Incs
<1> USE DEF tierVars, listVars, histVars
<1> SUFFICES Rest'
  BY <1>0 DEF TypeOK, Typed
<1>1. ASSUME NEW id \in WorkIds, NEW m \in BOOLEAN, UserAdd(id, m) PROVE Rest'
  <2>1. used[id] + 1 \in Incs
    BY <1>1, BoundAssumption DEF UserAdd, TypeOK, Incs
  <2> QED BY <1>1, <1>a, <2>1 DEF UserAdd
<1>2. ASSUME NEW id \in WorkIds, UserRemove(id) PROVE Rest'
  BY <1>2, <1>a DEF UserRemove
<1>3. ASSUME NEW id \in WorkIds, UserUpdate(id) PROVE Rest'
  BY <1>3, <1>a, <1>b DEF UserUpdate
<1>4. ASSUME NEW c \in Consolidators, Consolidate(c) PROVE Rest'
  <2>1. InTier \subseteq WorkIds \X Incs
    BY <1>b DEF InTier
  <2>2. NoCursor \in Cursors
    BY DEF Cursors
  <2> QED BY <1>4, <1>a, <2>1, <2>2, BoundAssumption DEF Consolidate
<1>5. ASSUME NEW c \in Consolidators, ListWorking(c) PROVE Rest'
  <2>1. wcursor' \in [Consolidators -> Cursors]
    BY <1>5, <1>a, CursorsTyped DEF ListWorking
  <2> QED BY <1>5, <1>a, <2>1 DEF ListWorking
<1>6. ASSUME NEW c \in Consolidators, ListEpisodic(c) PROVE Rest'
  <2>1. ecursor' \in [Consolidators -> Cursors]
    BY <1>6, <1>a, CursorsTyped DEF ListEpisodic
  <2>2. hops' \in [Consolidators -> 0..MaxHops]
    BY <1>6, <1>a, BoundAssumption DEF ListEpisodic
  <2> QED BY <1>6, <1>a, <2>1, <2>2 DEF ListEpisodic
<1>c. ASSUME NEW c \in Consolidators, pc[c] = "stamp", Aim(Head(todo[c]))
      PROVE  misplaced' \subseteq WorkIds \X Incs \X (0..MaxInc)
  <2>1. /\ Head(todo[c]).id \in WorkIds /\ Head(todo[c]).inc \in Incs
        /\ work[Head(todo[c]).id] \in 0..MaxInc
    BY <1>0, <1>c, HeadCopy DEF InHand, Typed
  <2> QED BY <1>a, <1>c, <2>1 DEF Aim
<1>7. ASSUME NEW c \in Consolidators, Finish(c) \/ AddCloneFails(c) PROVE Rest'
  BY <1>7, <1>a DEF Finish, AddCloneFails
<1>11. ASSUME NEW c \in Consolidators, Check(c) PROVE Rest'
  <2>1. <<Head(todo[c]).id, Head(todo[c]).inc>> \in WorkIds \X Incs
    BY <1>0, <1>11, HeadCopy DEF Check
  <2>2. unseen' \subseteq WorkIds \X Incs
    BY <1>11, <1>a, <2>1 DEF Check
  <2> QED BY <1>11, <1>a, <2>2 DEF Check
<1>12. ASSUME NEW c \in Consolidators, StampFails(c) PROVE Rest'
  BY <1>12, <1>a, <1>c DEF StampFails
<1>8. ASSUME NEW c \in Consolidators, AddClone(c) PROVE Rest'
  BY <1>8, <1>a, BoundAssumption DEF AddClone
<1>9. ASSUME NEW c \in Consolidators, Stamp(c) PROVE Rest'
  <2>1. Head(todo[c]).id \in WorkIds
    BY <1>9, <1>0, HeadCopy DEF InHand, Stamp
  <2> QED BY <1>9, <1>a, <1>b, <1>c, <2>1 DEF Stamp
<1>10. CASE UNCHANGED vars
  BY <1>10, <1>a DEF vars
<1> HIDE DEF Rest
<1> QED
  BY <1>1, <1>2, <1>3, <1>4, <1>5, <1>6, <1>7, <1>8, <1>9, <1>10, <1>11, <1>12
  DEF Next

\* The tiers, the copies, the cursors and the histories of the calls keep
\* their types, whatever is added, removed and updated between the steps of
\* any number of concurrent calls of Consolidate.
THEOREM ConsolidationTypes == Spec => []TypeOK
<1>1. Init => TypeOK /\ InHand
  BY InitTyped, BoundAssumption DEF Init, TypeOK, Typed, Cursors
<1> QED BY <1>1, StepTypes, PTL DEF Spec

----------------------------------------------------------------------------
(* A stamp means a clone.                                                  *)

\* A call about to stamp has added the clone of what it has in hand.
StampHasClone == \A c \in Consolidators : pc[c] = "stamp" =>
                    clones[Head(todo[c]).id][Head(todo[c]).inc] > 0

\* A step that stamps an item other than the one in hand records it.
LEMMA AimRecords ==
    ASSUME NEW copy, Aim(copy)
    PROVE  /\ StampedInstead \subseteq StampedInstead'
           /\ Unstamped \subseteq Unstamped'
           /\ work[copy.id] # copy.inc =>
                 /\ <<copy.id, work[copy.id]>> \in StampedInstead'
                 /\ <<copy.id, copy.inc>> \in Unstamped'
<1>1. misplaced \subseteq misplaced'
  BY DEF Aim
<1>2. ASSUME work[copy.id] # copy.inc
      PROVE  /\ <<copy.id, work[copy.id]>> \in StampedInstead'
             /\ <<copy.id, copy.inc>> \in Unstamped'
  <2>1. <<copy.id, copy.inc, work[copy.id]>> \in misplaced'
    BY <1>2 DEF Aim
  <2> QED BY <2>1 DEF StampedInstead, Unstamped
<1> QED BY <1>1, <1>2 DEF StampedInstead, Unstamped

\* Clones are never taken back, so every step keeps the two facts.
LEMMA StepStamped ==
    ASSUME Typed, InHand, StampHasClone, StampedOrReplacing, [Next]_vars
    PROVE  StampHasClone' /\ StampedOrReplacing'
<1> USE DEF StampHasClone, StampedOrReplacing, tierVars, listVars, histVars
<1>0. misplaced' = misplaced => StampedInstead' = StampedInstead
  BY DEF StampedInstead
<1>1. ASSUME NEW id \in WorkIds, NEW m \in BOOLEAN,
             UserAdd(id, m) \/ UserRemove(id) \/ UserUpdate(id)
      PROVE  StampHasClone' /\ StampedOrReplacing'
  BY <1>0, <1>1 DEF UserAdd, UserRemove, UserUpdate
<1>2. ASSUME NEW c \in Consolidators,
             \/ Consolidate(c) \/ ListWorking(c) \/ ListEpisodic(c)
             \/ Finish(c) \/ Check(c) \/ AddCloneFails(c)
      PROVE  StampHasClone' /\ StampedOrReplacing'
  BY <1>0, <1>2
  DEF Typed, Consolidate, ListWorking, ListEpisodic, Finish, Check, Advance,
      AddCloneFails
<1>3. ASSUME NEW c \in Consolidators, StampFails(c)
      PROVE  StampHasClone' /\ StampedOrReplacing'
  <2>1. StampedInstead \subseteq StampedInstead'
    BY <1>3, AimRecords DEF StampFails
  <2> QED BY <1>3, <2>1 DEF StampFails, Typed
<1>4. ASSUME NEW c \in Consolidators, AddClone(c)
      PROVE  StampHasClone' /\ StampedOrReplacing'
  <2>1. PICK i \in WorkIds, n \in Incs : i = Head(todo[c]).id /\ n = Head(todo[c]).inc
    BY <1>4, HeadCopy DEF InHand, AddClone
  <2>2. /\ clones' = [clones EXCEPT ![i][n] = More(@)]
        /\ promo' = promo /\ todo' = todo /\ pc' = [pc EXCEPT ![c] = "stamp"]
        /\ misplaced' = misplaced
    BY <1>4, <2>1 DEF AddClone
  <2>3. clones'[i][n] > 0
    BY <2>2, MoreCounts DEF Typed, Counts
  <2>4. \A id \in WorkIds, k \in Incs : clones[id][k] > 0 => clones'[id][k] > 0
    BY <2>2, <2>3 DEF Typed, Counts
  <2>5. StampedOrReplacing'
    BY <1>0, <2>2, <2>4
  <2>6. \A d \in Consolidators : pc[d] = "stamp" =>
           Head(todo[d]).id \in WorkIds /\ Head(todo[d]).inc \in Incs
    BY HeadCopy DEF InHand
  <2>7. StampHasClone'
    BY <2>1, <2>2, <2>3, <2>4, <2>6 DEF Typed
  <2> QED BY <2>5, <2>7
<1>5. ASSUME NEW c \in Consolidators, Stamp(c)
      PROVE  StampHasClone' /\ StampedOrReplacing'
  <2>1. PICK i \in WorkIds, n \in Incs : i = Head(todo[c]).id /\ n = Head(todo[c]).inc
    BY <1>5, HeadCopy DEF InHand, Stamp
  <2>2. /\ clones[i][n] > 0 /\ clones' = clones
        /\ promo' = [promo EXCEPT ![i][work[i]] = More(@)]
        /\ pc' = [pc EXCEPT ![c] = "check"]
        /\ \A d \in Consolidators : d # c => todo'[d] = todo[d]
    BY <1>5, <2>1 DEF Typed, Stamp, Advance
  <2>3. /\ StampedInstead \subseteq StampedInstead'
        /\ work[i] # n => <<i, work[i]>> \in StampedInstead'
    BY <1>5, <2>1, AimRecords DEF Stamp
  <2>4. \A j \in WorkIds, k \in Incs :
           (j # i \/ k # work[i]) => promo'[j][k] = promo[j][k]
    BY <2>2 DEF Typed, Counts
  <2>5. StampedOrReplacing'
    BY <2>2, <2>3, <2>4
  <2>6. StampHasClone'
    BY <2>2 DEF Typed
  <2> QED BY <2>5, <2>6
<1>6. CASE UNCHANGED vars
  BY <1>0, <1>6 DEF vars
<1> QED BY <1>1, <1>2, <1>3, <1>4, <1>5, <1>6 DEF Next

\* With any number of concurrent calls of Consolidate, a promotion count that
\* makes later calls skip an item tells of a clone in the episodic tier, or was
\* written for an item that this one has replaced: adding before stamping loses
\* nothing else, whichever step fails.
THEOREM StampsArePromotions == Spec => []StampedOrReplacing
<1> DEFINE Inv == Typed /\ InHand /\ StampHasClone /\ StampedOrReplacing
<1>1. Init => Inv
  <2>1. Init => StampHasClone /\ StampedOrReplacing
    BY DEF Init, StampHasClone, StampedOrReplacing
  <2> QED BY <2>1, InitTyped
<1>2. Inv /\ [Next]_vars => Inv'
  BY StepTyped, StepStamped
<1>3. Inv => StampedOrReplacing
  OBVIOUS
<1> HIDE DEF Inv
<1> QED BY <1>1, <1>2, <1>3, PTL DEF Spec
----------------------------------------------------------------------------
(* Nothing is missed.                                                      *)

\* The item of an ID in a listing.
Entry(id) == [created |-> 1, id |-> id]

\* The enumeration has still to come to an ID: it lies behind the cursor of a
\* tier that is asked again.
ToList(c, id) ==
    \/ pc[c] = "listWorking" /\ (wcursor[c] = NoCursor \/ Before(wcursor[c], Entry(id)))
    \/ pc[c] = "listEpisodic" /\ wcursor[c] # NoCursor /\ Before(wcursor[c], Entry(id))

\* An item needs no promotion: it has a clone, or another item's stamp.
Settled(item) == clones[item[1]][item[2]] > 0 \/ item \in StampedInstead

\* Where a call is with an item that has stayed: promoted, listed or to come.
Covered(c, item) == \/ Settled(item)
                    \/ item \in TodoItems(c)
                    \/ ToList(c, item[1])

\* The inductive invariant of NothingMissed.
Missing == /\ \A c \in Consolidators : \A item \in stable[c] : work[item[1]] = item[2]
           /\ \A c \in Consolidators : pc[c] \notin {"idle", "ok", "error"} =>
                 \A item \in stable[c] : item[1] \in Eligible => Covered(c, item)
           /\ NothingMissed

\* The sequence of a page has every ID of the page: it is strictly increasing
\* and as long as the page.
LEMMA PageIsListed ==
    ASSUME NEW page, IsFiniteSet(page), NEW ids \in Ordered(page),
           \A x, y \in page : x.id \in Nat /\ (x.id = y.id => x = y)
    PROVE  \A x \in page : \E n \in DOMAIN ids : ids[n] = x.id
<1> DEFINE idSet == {x.id : x \in page}
           idOf == [x \in page |-> x.id]
           n == Cardinality(page)
<1>1. n \in Nat /\ IsFiniteSet(1..n) /\ Cardinality(1..n) = n
  <2>1. n \in Nat
    BY FS_CardinalityType
  <2> QED BY <2>1, FS_Interval
<1>2. IsFiniteSet(idSet) /\ Cardinality(idSet) = n
  <2>1. idOf \in Surjection(page, idSet) /\ idOf \in Injection(page, idSet)
    BY DEF Surjection, Injection, IsInjective
  <2> HIDE DEF idSet, idOf
  <2> QED BY <2>1, FS_Surjection
<1>3. ids \in [1..n -> idSet] /\ \A i, j \in 1..n : i < j => ids[i] < ids[j]
  BY DEF Ordered
<1>4. idSet \subseteq Nat /\ \A x \in page : x.id \in idSet
  OBVIOUS
<1> HIDE DEF idSet, n
<1>5. \A i, j \in 1..n : ids[i] = ids[j] => i = j
  <2> SUFFICES ASSUME NEW i \in 1..n, NEW j \in 1..n, ids[i] = ids[j], i # j
               PROVE  FALSE
    OBVIOUS
  <2>1. i < j \/ j < i
    BY <1>1
  <2>2. ids[i] \in Nat /\ ids[j] \in Nat /\ (ids[i] < ids[j] \/ ids[j] < ids[i])
    BY <1>3, <1>4, <2>1
  <2> QED BY <2>2
<1>6. ids \in Injection(1..n, idSet)
  BY <1>3, <1>5 DEF Injection, IsInjective
<1>7. ids \in Surjection(1..n, idSet)
  BY <1>1, <1>2, <1>6, FS_Injection
<1> QED BY <1>3, <1>4, <1>7 DEF Surjection

\* An ID of the tier that the enumeration had still to come to is listed by
\* the page, or lies behind the cursor that the page comes with.
LEMMA ListedOrLeft ==
    ASSUME TypeOK, NEW c \in Consolidators, ListWorking(c),
           NEW id \in WorkIds, work[id] # 0
    PROVE  /\ TodoItems(c) \subseteq TodoItems(c)'
           /\ ToList(c, id) => <<id, work[id]>> \in TodoItems(c)' \/ ToList(c, id)'
<1> DEFINE present == {i \in WorkIds : work[i] # 0}
           tier == Listing(present)
           page == Page(tier, PageSize, wcursor[c])
           next == NextCursor(tier, PageSize, wcursor[c])
<1>0. Typed
  BY DEF TypeOK, Typed
<1>1. PICK ids \in Ordered(page) : todo' = [todo EXCEPT ![c] = @ \o Appended(ids)]
  BY DEF ListWorking, Appended
<1> DEFINE old == todo[c]
           new == Appended(ids)
<1>2. /\ old \in Seq(Copies) /\ new \in Seq(Copies) /\ todo'[c] = old \o new
      /\ wcursor'[c] = next
      /\ pc[c] = "listWorking" /\ pc'[c] = "listEpisodic"
  BY <1>0, <1>1, PageCopies DEF TypeOK, ListWorking
<1>3. PICK m \in Nat : ids \in [1..m -> present] /\ DOMAIN ids = 1..m
  BY <1>1, PageIds
<1>4. tier \subseteq Items /\ IsFiniteSet(tier)
  <2>1. present \subseteq Names /\ IsFiniteSet(present)
    BY WorkAssumption, FS_Subset
  <2> HIDE DEF present
  <2> QED BY <2>1, ListingItems
<1>5. Entry(id) \in tier
  BY DEF Listing, Entry
<1>6. page \subseteq tier /\ IsFiniteSet(page)
  <2>1. page \subseteq tier
    BY DEF Page, First, After
  <2> HIDE DEF page, tier
  <2> QED BY <1>4, <2>1, FS_Subset
<1>7. \A x, y \in page : x.id \in Nat /\ (x.id = y.id => x = y)
  <2>1. \A x \in tier : x = Entry(x.id) /\ x.id \in present
    BY DEF Listing, Entry
  <2>2. present \subseteq Nat
    BY WorkAssumption, ItemAssumption
  <2> HIDE DEF page, tier, present
  <2> QED BY <1>6, <2>1, <2>2
<1>8. \A i \in 1..Len(old) : i \in 1..Len(todo'[c]) /\ todo'[c][i] = old[i]
  BY <1>2
<1>9. Len(new) = m /\ \A i \in 1..m : new[i] = Copy(ids[i])
  BY <1>2, <1>3 DEF Appended
<1> HIDE DEF page, tier, present, next, old, new
<1>10. \A i \in 1..m : Len(old) + i \in 1..Len(todo'[c])
                       /\ todo'[c][Len(old) + i] = new[i]
  BY <1>2, <1>9
<1>11. TodoItems(c) \subseteq TodoItems(c)'
  BY <1>8 DEF TodoItems, old
<1>12. ASSUME ToList(c, id)
       PROVE  <<id, work[id]>> \in TodoItems(c)' \/ ToList(c, id)'
  <2>1. Entry(id) \in After(tier, wcursor[c])
    BY <1>2, <1>5, <1>12 DEF ToList, After
  <2>2. CASE Entry(id) \in page
    <3>1. Entry(id).id = id
      BY DEF Entry
    <3>2. PICK i \in DOMAIN ids : ids[i] = id
      BY <1>6, <1>7, <2>2, <3>1, PageIsListed
    <3>3. i \in 1..m /\ Copy(ids[i]).id = id /\ Copy(ids[i]).inc = work[id]
      BY <1>3, <3>2 DEF Copy
    <3>4. /\ todo'[c][Len(old) + i].id = id /\ todo'[c][Len(old) + i].inc = work[id]
          /\ Len(old) + i \in 1..Len(todo'[c])
      BY <1>9, <1>10, <3>3
    <3> QED BY <3>4 DEF TodoItems
  <2>3. CASE Entry(id) \notin page
    <3>1. next \in Items /\ Before(next, Entry(id))
      BY <1>4, <2>1, <2>3, LeftOver, PageAssumption DEF page, next
    <3>2. next # NoCursor
      BY <3>1, CursorAssumption
    <3> QED BY <1>2, <3>1, <3>2 DEF ToList
  <2> QED BY <2>2, <2>3
<1> QED BY <1>11, <1>12

\* Taking the head off leaves the other items.
LEMMA TailKeeps ==
    ASSUME Typed, NEW c \in Consolidators, todo[c] # << >>, Advance(c)
    PROVE  \A item \in TodoItems(c) :
              \/ item = <<Head(todo[c]).id, Head(todo[c]).inc>>
              \/ item \in TodoItems(c)'
<1>1. todo[c] \in Seq(Copies) /\ todo'[c] = Tail(todo[c])
  BY DEF Typed, Advance
<1>2. \A i \in 1..Len(todo[c]) :
         \/ todo[c][i] = Head(todo[c])
         \/ i - 1 \in 1..Len(todo'[c]) /\ todo'[c][i - 1] = todo[c][i]
  BY <1>1
<1> QED BY <1>2 DEF TodoItems

\* What is settled stays so.
LEMMA SettledStays ==
    ASSUME Typed, InHand, [Next]_vars
    PROVE  \A item \in WorkIds \X Incs : Settled(item) => Settled(item)'
<1> USE DEF tierVars, listVars, histVars
<1>0. misplaced' = misplaced => StampedInstead' = StampedInstead
  BY DEF StampedInstead
<1>1. ASSUME NEW c \in Consolidators, AddClone(c)
      PROVE  \A item \in WorkIds \X Incs : Settled(item) => Settled(item)'
  <2>1. Head(todo[c]).id \in WorkIds /\ Head(todo[c]).inc \in Incs
    BY <1>1, HeadCopy DEF AddClone, InHand
  <2>2. \A id \in WorkIds, n \in Incs : clones[id][n] > 0 => clones'[id][n] > 0
    BY <1>1, <2>1 DEF AddClone, More, Typed, Counts
  <2>3. misplaced' = misplaced
    BY <1>1 DEF AddClone
  <2> QED BY <1>0, <2>2, <2>3 DEF Settled
<1>2. ASSUME NEW c \in Consolidators, Stamp(c) \/ StampFails(c)
      PROVE  \A item \in WorkIds \X Incs : Settled(item) => Settled(item)'
  BY <1>2, AimRecords DEF Stamp, StampFails, Settled
<1>3. CASE UNCHANGED <<clones, misplaced>>
  BY <1>0, <1>3 DEF Settled
<1> QED
  BY <1>1, <1>2, <1>3
  DEF Next, vars, UserAdd, UserRemove, UserUpdate, Consolidate, ListWorking,
      ListEpisodic, Finish, Check, AddCloneFails

\* A call that is not touched by a step keeps what it covers.
LEMMA CoveredStays ==
    ASSUME Typed, NEW d \in Consolidators,
           pc'[d] = pc[d], todo'[d] = todo[d], wcursor'[d] = wcursor[d],
           \A item \in WorkIds \X Incs : Settled(item) => Settled(item)'
    PROVE  \A item \in WorkIds \X Incs : Covered(d, item) => Covered(d, item)'
<1>1. TodoItems(d)' = TodoItems(d)
  BY DEF TodoItems
<1> QED BY <1>1 DEF Covered, ToList

\* Every step keeps what a call has found promoted, listed or still to list.
LEMMA StepMissing ==
    ASSUME TypeOK, InHand, StampHasClone, StampedOrReplacing, Missing, [Next]_vars
    PROVE  Missing'
<1> USE DEF tierVars, listVars, histVars
<1>0. Typed
  BY DEF TypeOK, Typed
<1>a. \A c \in Consolidators : stable[c] \subseteq WorkIds \X Incs
  BY DEF TypeOK
<1>s. \A item \in WorkIds \X Incs : Settled(item) => Settled(item)'
  BY <1>0, SettledStays
<1>m. /\ \A c \in Consolidators : \A item \in stable[c] : work[item[1]] = item[2]
      /\ \A c \in Consolidators : pc[c] \notin {"idle", "ok", "error"} =>
            \A item \in stable[c] : item[1] \in Eligible => Covered(c, item)
      /\ \A c \in Consolidators : pc[c] = "ok" =>
            \A item \in stable[c] : item[1] \in Eligible => Settled(item)
  BY DEF Missing, NothingMissed, Settled
<1>g. ASSUME /\ \A c \in Consolidators : \A item \in stable'[c] : work'[item[1]] = item[2]
             /\ \A c \in Consolidators : pc'[c] \notin {"idle", "ok", "error"} =>
                   \A item \in stable'[c] : item[1] \in Eligible => Covered(c, item)'
             /\ \A c \in Consolidators : pc'[c] = "ok" =>
                   \A item \in stable'[c] : item[1] \in Eligible => Settled(item)'
      PROVE  Missing'
  BY <1>g DEF Missing, NothingMissed, Settled
<1>b. ASSUME /\ UNCHANGED <<pc, todo, wcursor>>
             /\ \A c \in Consolidators : stable'[c] \subseteq stable[c]
             /\ \A c \in Consolidators : \A item \in stable'[c] : work'[item[1]] = item[2]
      PROVE  Missing'
  <2>1. \A c \in Consolidators : \A item \in stable[c] :
           Covered(c, item) => Covered(c, item)'
    BY <1>0, <1>a, <1>b, <1>s, CoveredStays
  <2> QED BY <1>a, <1>b, <1>g, <1>m, <1>s, <2>1
<1>c. ASSUME NEW c \in Consolidators,
             /\ \A d \in Consolidators : d # c => /\ pc'[d] = pc[d] /\ todo'[d] = todo[d]
                                                  /\ wcursor'[d] = wcursor[d]
             /\ work' = work /\ stable' = stable
             /\ pc[c] \notin {"idle", "ok", "error"}
             /\ pc'[c] \notin {"idle", "ok", "error"} =>
                   \A item \in stable[c] :
                      item[1] \in Eligible /\ Covered(c, item) => Covered(c, item)'
             /\ pc'[c] # "ok"
      PROVE  Missing'
  <2>1. \A d \in Consolidators : d # c => \A item \in stable[d] :
           Covered(d, item) => Covered(d, item)'
    BY <1>0, <1>a, <1>c, <1>s, CoveredStays
  <2> QED BY <1>a, <1>c, <1>g, <1>m, <1>s, <2>1
<1>1. ASSUME NEW id \in WorkIds, NEW m \in BOOLEAN, UserAdd(id, m) \/ UserRemove(id)
      PROVE  Missing'
  <2>1. /\ UNCHANGED <<pc, todo, wcursor>>
        /\ \A c \in Consolidators : stable'[c] = stable[c] \ {<<id, work[id]>>}
        /\ \A i \in WorkIds : i # id => work'[i] = work[i]
    BY <1>1 DEF UserAdd, UserRemove, TypeOK
  <2>2. \A c \in Consolidators : \A item \in stable'[c] :
           item \in stable[c] /\ item[1] # id
    BY <1>a, <1>m, <2>1
  <2> QED BY <1>a, <1>b, <1>m, <2>1, <2>2
<1>3. ASSUME NEW id \in WorkIds, UserUpdate(id) PROVE Missing'
  BY <1>3, <1>b, <1>m DEF UserUpdate
<1>4. ASSUME NEW c \in Consolidators, Consolidate(c) PROVE Missing'
  <2>1. /\ pc'[c] = "listWorking" /\ wcursor'[c] = NoCursor /\ stable'[c] = InTier
        /\ work' = work
        /\ \A d \in Consolidators : d # c =>
              /\ pc'[d] = pc[d] /\ todo'[d] = todo[d]
              /\ wcursor'[d] = wcursor[d] /\ stable'[d] = stable[d]
    BY <1>4 DEF Consolidate, TypeOK
  <2>2. \A item \in InTier : work[item[1]] = item[2] /\ Covered(c, item)'
    BY <2>1 DEF InTier, Covered, ToList
  <2>3. \A d \in Consolidators : d # c => \A item \in stable[d] :
           Covered(d, item) => Covered(d, item)'
    BY <1>0, <1>a, <1>s, <2>1, CoveredStays
  <2> QED BY <1>a, <1>g, <1>m, <1>s, <2>1, <2>2, <2>3
<1>5. ASSUME NEW c \in Consolidators, ListWorking(c) PROVE Missing'
  <2>1. /\ \A d \in Consolidators : d # c => /\ pc'[d] = pc[d] /\ todo'[d] = todo[d]
                                             /\ wcursor'[d] = wcursor[d]
        /\ work' = work /\ stable' = stable
        /\ pc[c] = "listWorking" /\ pc'[c] = "listEpisodic"
    BY <1>5 DEF ListWorking, TypeOK
  <2>2. ASSUME NEW item \in stable[c], Covered(c, item) PROVE Covered(c, item)'
    <3>1. /\ item \in WorkIds \X Incs /\ item[1] \in WorkIds
          /\ item = <<item[1], work[item[1]]>> /\ work[item[1]] # 0
      BY <1>a, <1>m DEF Incs
    <3>2. /\ TodoItems(c) \subseteq TodoItems(c)'
          /\ ToList(c, item[1]) => item \in TodoItems(c)' \/ ToList(c, item[1])'
      BY <1>5, <3>1, ListedOrLeft
    <3> QED BY <1>s, <2>2, <3>1, <3>2 DEF Covered
  <2> QED BY <1>c, <2>1, <2>2
<1>6. ASSUME NEW c \in Consolidators, ListEpisodic(c) PROVE Missing'
  <2>1. /\ \A d \in Consolidators : d # c => pc'[d] = pc[d]
        /\ UNCHANGED <<todo, wcursor, work, stable>>
        /\ pc[c] = "listEpisodic" /\ pc'[c] \in {"listWorking", "check"}
        /\ pc'[c] = "check" => wcursor[c] = NoCursor
    BY <1>6 DEF ListEpisodic, TypeOK
  <2>2. TodoItems(c)' = TodoItems(c)
    BY <2>1 DEF TodoItems
  <2>3. \A item \in stable[c] : Covered(c, item) => Covered(c, item)'
    BY <1>a, <1>s, <2>1, <2>2 DEF Covered, ToList
  <2> QED BY <1>c, <2>1, <2>3
<1>7. ASSUME NEW c \in Consolidators, Finish(c) PROVE Missing'
  <2>1. /\ \A d \in Consolidators : d # c => pc'[d] = pc[d]
        /\ UNCHANGED <<todo, wcursor, work, stable>>
        /\ pc[c] = "check" /\ pc'[c] = "ok" /\ todo[c] = << >>
    BY <1>7 DEF Finish, TypeOK
  <2>2. TodoItems(c) = {}
    BY <2>1 DEF TodoItems
  <2>3. \A item \in stable[c] : item[1] \in Eligible => Settled(item)'
    BY <1>a, <1>m, <1>s, <2>1, <2>2 DEF Covered, ToList
  <2>4. \A d \in Consolidators : d # c => \A item \in stable[d] :
           Covered(d, item) => Covered(d, item)'
    BY <1>0, <1>a, <1>s, <2>1, CoveredStays
  <2> QED BY <1>a, <1>g, <1>m, <1>s, <2>1, <2>3, <2>4
<1>8. ASSUME NEW c \in Consolidators, Check(c) \/ Stamp(c) PROVE Missing'
  <2>1. /\ \A d \in Consolidators : d # c => pc'[d] = pc[d] /\ todo'[d] = todo[d]
        /\ UNCHANGED <<wcursor, work, stable, clones>>
        /\ pc[c] \in {"check", "stamp"} /\ pc'[c] \in {"check", "add"}
        /\ todo[c] # << >>
    BY <1>8 DEF Check, Stamp, Advance, InHand, TypeOK
  <2>2. PICK id \in WorkIds, n \in Incs : id = Head(todo[c]).id /\ n = Head(todo[c]).inc
    BY <1>0, <2>1, HeadCopy
  <2>3. \/ todo' = todo
        \/ Advance(c) /\ (id \notin Eligible \/ Settled(<<id, n>>))
    <3>1. CASE Check(c) /\ Skipped(Head(todo[c]))
      <4>1. id \notin Eligible \/ promo[id][n] >= 1
        BY <2>2, <3>1 DEF Skipped, PromotionCountOf
      <4>2. promo[id][n] \in 0..2
        BY DEF TypeOK, Counts
      <4>3. promo[id][n] >= 1 => Settled(<<id, n>>)
        BY <4>2 DEF StampedOrReplacing, Settled
      <4> QED BY <3>1, <4>1, <4>3 DEF Check
    <3>2. CASE Check(c) /\ ~Skipped(Head(todo[c]))
      BY <3>2 DEF Check
    <3>3. CASE Stamp(c)
      BY <2>2, <3>3 DEF Stamp, StampHasClone, Settled
    <3> QED BY <1>8, <3>1, <3>2, <3>3
  <2>4. ASSUME NEW item \in stable[c], item[1] \in Eligible, Covered(c, item)
        PROVE  Covered(c, item)'
    <3>1. item \in WorkIds \X Incs
      BY <1>a
    <3>2. ~ToList(c, item[1])
      BY <2>1 DEF ToList
    <3>3. CASE Settled(item)
      BY <1>s, <3>1, <3>3 DEF Covered
    <3>4. CASE item \in TodoItems(c)
      <4>1. CASE todo' = todo
        BY <3>4, <4>1 DEF Covered, TodoItems
      <4>2. CASE Advance(c) /\ (id \notin Eligible \/ Settled(<<id, n>>))
        <5>1. item = <<id, n>> \/ item \in TodoItems(c)'
          BY <1>0, <2>1, <2>2, <3>4, <4>2, TailKeeps
        <5>2. item = <<id, n>> => Settled(item)
          BY <2>4, <4>2
        <5> QED BY <1>s, <3>1, <5>1, <5>2 DEF Covered
      <4> QED BY <2>3, <4>1, <4>2
    <3> QED BY <2>4, <3>2, <3>3, <3>4 DEF Covered
  <2> QED BY <1>c, <2>1, <2>4
<1>9. ASSUME NEW c \in Consolidators, AddClone(c) PROVE Missing'
  <2>1. /\ \A d \in Consolidators : d # c => pc'[d] = pc[d]
        /\ UNCHANGED <<todo, wcursor, work, stable>>
        /\ pc[c] = "add" /\ pc'[c] = "stamp"
    BY <1>9 DEF AddClone, TypeOK
  <2>2. TodoItems(c)' = TodoItems(c)
    BY <2>1 DEF TodoItems
  <2>3. \A item \in stable[c] : Covered(c, item) => Covered(c, item)'
    BY <1>a, <1>s, <2>1, <2>2 DEF Covered, ToList
  <2> QED BY <1>c, <2>1, <2>3
<1>10. ASSUME NEW c \in Consolidators, AddCloneFails(c) \/ StampFails(c)
       PROVE  Missing'
  <2>1. /\ \A d \in Consolidators : d # c => pc'[d] = pc[d]
        /\ UNCHANGED <<todo, wcursor, work, stable>>
        /\ pc[c] \in {"add", "stamp"} /\ pc'[c] = "error"
    BY <1>10 DEF AddCloneFails, StampFails, TypeOK
  <2> QED BY <1>c, <2>1
<1>11. CASE UNCHANGED vars
  BY <1>11, <1>b, <1>m DEF vars
<1> QED
  BY <1>1, <1>3, <1>4, <1>5, <1>6, <1>7, <1>8, <1>9, <1>10, <1>11 DEF Next

\* A call of Consolidate that returns without error leaves no eligible item
\* behind that stayed in the working tier: each has a clone in the episodic
\* tier, or the stamp of an item it replaced, whatever is added, removed and
\* added over around it, however many pages and restarts of the listing it takes
\* and however many calls run concurrently.
THEOREM ConsolidateMissesNothing == Spec => []NothingMissed
<1> DEFINE Inv == /\ TypeOK /\ InHand /\ StampHasClone /\ StampedOrReplacing
                  /\ Missing
<1>1. Init => Inv
  <2>1. Init => TypeOK /\ InHand
    BY InitTyped, BoundAssumption DEF Init, TypeOK, Typed, Cursors
  <2>2. Init => StampHasClone /\ StampedOrReplacing /\ Missing
    BY DEF Init, StampHasClone, StampedOrReplacing, Missing, NothingMissed
  <2> QED BY <2>1, <2>2
<1>2. Inv /\ [Next]_vars => Inv'
  <2>1. TypeOK => Typed
    BY DEF TypeOK, Typed
  <2> QED BY <2>1, StepTypes, StepStamped, StepMissing
<1>3. Inv => NothingMissed
  BY DEF Missing
<1> HIDE DEF Inv
<1> QED BY <1>1, <1>2, <1>3, PTL DEF Spec

----------------------------------------------------------------------------
(* The promote-once policy.                                                *)

\* The items for which nothing excuses a second clone.
Watched == (WorkIds \X Incs) \ (unseen \cup Unstamped)

\* A call has an item in hand that it has let through its filter.
At(c, item) == /\ pc[c] \in {"add", "stamp"}
               /\ <<Head(todo[c]).id, Head(todo[c]).inc>> = item

\* The inductive invariant of the promote-once policy: one call at a time is at
\* an item, one that is about to clone finds no clone, and a clone is stamped
\* or about to be.
Once(item) ==
    /\ clones[item[1]][item[2]] <= 1
    /\ clones[item[1]][item[2]] = 1 =>
          \/ promo[item[1]][item[2]] > 0
          \/ \E c \in Consolidators : At(c, item) /\ pc[c] = "stamp"
    /\ \A c \in Consolidators : At(c, item) /\ pc[c] = "add" =>
          clones[item[1]][item[2]] = 0
    /\ \A c, d \in Consolidators : At(c, item) /\ At(d, item) => c = d

AllOnce == \A item \in Watched : Once(item)

\* Every step keeps the promote-once invariant.
LEMMA StepOnce ==
    ASSUME Typed, InHand, AllOnce, [Next]_vars
    PROVE  AllOnce'
<1> USE DEF tierVars, listVars, histVars
<1>0. misplaced' = misplaced => Unstamped' = Unstamped
  BY DEF Unstamped
<1>w. unseen' = unseen /\ misplaced' = misplaced => Watched' = Watched
  BY <1>0 DEF Watched
<1>i. \A item \in Watched : /\ item[1] \in WorkIds /\ item[2] \in Incs
                             /\ item = <<item[1], item[2]>>
                             /\ clones[item[1]][item[2]] \in 0..2
                             /\ promo[item[1]][item[2]] \in 0..2
  BY DEF Watched, Typed, Counts
<1>1. ASSUME UNCHANGED <<pc, todo, clones, promo, unseen, misplaced>>
      PROVE  AllOnce'
  BY <1>w, <1>1 DEF AllOnce, Once, At
<1>2. ASSUME NEW c \in Consolidators,
             pc[c] \notin {"stamp"}, pc'[c] \notin {"add", "stamp"},
             \A d \in Consolidators : d # c => pc'[d] = pc[d] /\ todo'[d] = todo[d],
             UNCHANGED <<clones, promo, unseen, misplaced>>
      PROVE  AllOnce'
  <2>1. \A item \in Watched, d \in Consolidators :
           /\ At(d, item)' => At(d, item) /\ pc'[d] = pc[d]
           /\ At(d, item) /\ pc[d] = "stamp" => At(d, item)' /\ pc'[d] = "stamp"
    BY <1>2 DEF At
  <2> QED BY <1>w, <1>2, <2>1 DEF AllOnce, Once
<1>3. ASSUME NEW c \in Consolidators,
             \/ Consolidate(c) \/ ListWorking(c) \/ ListEpisodic(c)
             \/ Finish(c) \/ AddCloneFails(c)
      PROVE  AllOnce'
  BY <1>2, <1>3
  DEF Consolidate, ListWorking, ListEpisodic, Finish, AddCloneFails, Typed
<1>4. ASSUME NEW c \in Consolidators, Check(c), Skipped(Head(todo[c]))
      PROVE  AllOnce'
  BY <1>2, <1>4 DEF Check, Advance, Typed
<1>5. ASSUME NEW c \in Consolidators, Check(c), ~Skipped(Head(todo[c]))
      PROVE  AllOnce'
  <2>1. PICK i \in WorkIds, n \in Incs : i = Head(todo[c]).id /\ n = Head(todo[c]).inc
    BY <1>5, HeadCopy DEF Check
  <2>2. /\ pc[c] = "check" /\ pc' = [pc EXCEPT ![c] = "add"]
        /\ UNCHANGED <<todo, clones, promo, misplaced>>
        /\ unseen' = IF Unseen(c, Head(todo[c])) THEN unseen \cup {<<i, n>>} ELSE unseen
    BY <1>5, <2>1 DEF Check
  <2>3. Watched' \subseteq Watched
    BY <1>0, <2>2 DEF Watched
  <2>4. ASSUME NEW item \in Watched', item # <<i, n>> PROVE Once(item)'
    <3>1. ASSUME NEW d \in Consolidators
          PROVE  (At(d, item)' <=> At(d, item)) /\ (At(d, item) => pc'[d] = pc[d])
      <4>1. CASE d # c
        BY <2>2, <4>1 DEF At, Typed
      <4>2. CASE d = c
        <5>1. ~At(c, item)
          BY <2>2 DEF At
        <5>2. item = <<item[1], item[2]>>
          BY <1>i, <2>3, <2>4
        <5>3. ~At(c, item)'
          BY <2>1, <2>2, <2>4, <5>2 DEF At
        <5> QED BY <4>2, <5>1, <5>3
      <4> QED BY <4>1, <4>2
    <3>2. Once(item)
      BY <2>3, <2>4 DEF AllOnce
    <3> QED BY <2>2, <3>1, <3>2 DEF Once
  <2>5. ASSUME <<i, n>> \in Watched' PROVE Once(<<i, n>>)'
    <3>1. ~Unseen(c, Head(todo[c])) /\ <<i, n>> \in Watched
      BY <2>2, <2>3, <2>5 DEF Watched
    <3>2. \A d \in Consolidators \ {c} : ~At(d, <<i, n>>)
      BY <2>1, <3>1 DEF Unseen, Promoting, At
    <3>3. \A d \in Consolidators : ~At(d, <<i, n>>)
      BY <2>2, <3>2 DEF At
    <3>4. promo[i][n] = 0
      <4>1. Head(todo[c]).meta \in BOOLEAN
        BY <1>5, HeadCopy DEF Check, Copies
      <4>2. ~(promo[i][n] >= 1) \/ ~(promo[i][n] > 0)
        BY <1>5, <2>1, <3>1, <4>1 DEF Skipped, PromotionCountOf, Unseen
      <4> QED BY <1>i, <3>1, <4>2
    <3>5. clones[i][n] = 0
      BY <1>i, <3>1, <3>3, <3>4 DEF AllOnce, Once
    <3>6. \A d \in Consolidators : At(d, <<i, n>>)' => d = c
      BY <2>2, <3>2 DEF At, Typed
    <3> QED BY <2>2, <3>5, <3>6 DEF Once
  <2> QED BY <2>4, <2>5 DEF AllOnce
<1>6. ASSUME NEW c \in Consolidators, AddClone(c) PROVE AllOnce'
  <2>1. PICK i \in WorkIds, n \in Incs : i = Head(todo[c]).id /\ n = Head(todo[c]).inc
    BY <1>6, HeadCopy DEF AddClone, InHand
  <2>2. /\ pc[c] = "add" /\ pc' = [pc EXCEPT ![c] = "stamp"]
        /\ clones' = [clones EXCEPT ![i][n] = More(@)]
        /\ UNCHANGED <<todo, promo, unseen, misplaced>>
    BY <1>6, <2>1 DEF AddClone
  <2>3. \A item \in Watched, d \in Consolidators :
           /\ At(d, item)' <=> At(d, item)
           /\ d # c => pc'[d] = pc[d]
    BY <2>2 DEF At, Typed
  <2>4. At(c, <<i, n>>) /\ pc'[c] = "stamp"
    BY <2>1, <2>2 DEF At, Typed
  <2>5. ASSUME NEW item \in Watched, item # <<i, n>> PROVE Once(item)'
    <3>1. ~At(c, item)
      BY <2>1, <2>5 DEF At
    <3>2. clones'[item[1]][item[2]] = clones[item[1]][item[2]]
      BY <1>i, <2>2, <2>5 DEF Typed, Counts
    <3> QED BY <2>2, <2>3, <3>1, <3>2 DEF AllOnce, Once
  <2>6. ASSUME <<i, n>> \in Watched PROVE Once(<<i, n>>)'
    <3>1. clones[i][n] = 0 /\ \A d \in Consolidators : At(d, <<i, n>>) => d = c
      BY <2>2, <2>4, <2>6 DEF AllOnce, Once
    <3>2. clones'[i][n] = 1
      BY <2>2, <3>1 DEF Typed, Counts, More
    <3> QED BY <2>3, <2>4, <2>6, <3>1, <3>2 DEF Once
  <2> QED BY <1>w, <2>2, <2>5, <2>6 DEF AllOnce
<1>7. ASSUME NEW c \in Consolidators, Stamp(c) \/ StampFails(c) PROVE AllOnce'
  <2>1. PICK i \in WorkIds, n \in Incs : i = Head(todo[c]).id /\ n = Head(todo[c]).inc
    BY <1>7, HeadCopy DEF Stamp, StampFails, InHand
  <2>2. /\ pc[c] = "stamp" /\ pc'[c] \in {"check", "error"}
        /\ \A d \in Consolidators : d # c => pc'[d] = pc[d] /\ todo'[d] = todo[d]
        /\ clones' = clones /\ unseen' = unseen
    BY <1>7 DEF Stamp, StampFails, Advance, Typed
  <2>3. Unstamped \subseteq Unstamped' /\ (work[i] # n => <<i, n>> \in Unstamped')
    BY <1>7, <2>1, AimRecords DEF Stamp, StampFails
  <2>4. Watched' \subseteq Watched
    BY <2>2, <2>3 DEF Watched
  <2>5. \A item \in Watched : promo[item[1]][item[2]] > 0 => promo'[item[1]][item[2]] > 0
    <3>1. CASE Stamp(c)
      BY <1>i, <2>1, <3>1 DEF Stamp, More, Typed, Counts
    <3>2. CASE StampFails(c)
      BY <3>2 DEF StampFails
    <3> QED BY <1>7, <3>1, <3>2
  <2>6. ASSUME <<i, n>> \in Watched' PROVE promo'[i][n] > 0
    <3>1. work[i] = n
      BY <2>3, <2>6 DEF Watched
    <3>2. Stamp(c)
      BY <1>7, <2>1, <3>1 DEF StampFails, Incs
    <3>3. promo'[i][n] = More(promo[i][n])
      BY <2>1, <3>1, <3>2 DEF Stamp, Typed, Counts
    <3> QED BY <3>3 DEF More
  <2>7. ASSUME NEW item \in Watched' PROVE Once(item)'
    <3>1. \A d \in Consolidators :
             /\ At(d, item)' => At(d, item) /\ pc'[d] = pc[d]
             /\ d # c /\ At(d, item) => At(d, item)' /\ pc'[d] = pc[d]
      BY <2>2 DEF At
    <3>2. At(c, item) => promo'[item[1]][item[2]] > 0
      BY <2>1, <2>6, <2>7 DEF At
    <3>3. item \in Watched /\ Once(item)
      BY <2>4 DEF AllOnce
    <3> QED BY <2>2, <2>5, <3>1, <3>2, <3>3 DEF Once
  <2> QED BY <2>7 DEF AllOnce
<1>8. CASE UNCHANGED vars
  BY <1>1, <1>8 DEF vars
<1>9. ASSUME NEW id \in WorkIds, NEW m \in BOOLEAN,
             UserAdd(id, m) \/ UserRemove(id) \/ UserUpdate(id)
      PROVE  AllOnce'
  BY <1>1, <1>9 DEF UserAdd, UserRemove, UserUpdate
<1> QED BY <1>3, <1>4, <1>5, <1>6, <1>7, <1>8, <1>9 DEF Next

\* How far the promote-once policy holds: with any number of concurrent calls,
\* items with or without Metadata, IDs used again, pages listed twice and calls
\* that fail, an item that has two clones was let through the filter by a copy
\* that did not show the other promotion, or the stamp of its clone found it
\* removed or replaced.
THEOREM PromotedTwiceOnlyUnseen == Spec => []TwiceOnlyUnseen
<1> DEFINE Inv == Typed /\ InHand /\ AllOnce
<1>1. Init => Inv
  <2> SUFFICES ASSUME Init PROVE AllOnce
    BY InitTyped
  <2>1. \A c \in Consolidators, item \in Watched : ~At(c, item)
    BY DEF Init, At
  <2>2. \A item \in Watched : clones[item[1]][item[2]] = 0
    BY DEF Init, Watched
  <2> QED BY <2>1, <2>2 DEF AllOnce, Once
<1>2. Inv /\ [Next]_vars => Inv'
  BY StepTyped, StepOnce
<1>3. Inv => TwiceOnlyUnseen
  BY DEF AllOnce, Once, Watched, TwiceOnlyUnseen, Typed, Counts
<1> HIDE DEF Inv
<1> QED BY <1>1, <1>2, <1>3, PTL DEF Spec

============================================================================
