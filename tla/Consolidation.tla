--------------------------- MODULE Consolidation ---------------------------
(***************************************************************************)
(* Consolidator.Consolidate: list the working tier page by page, and       *)
(* for each item that is eligible and not stamped as promoted, add a clone *)
(* to the episodic tier and then stamp the source.  Listing, adding and    *)
(* stamping are separate calls of the Manager; the users of the working    *)
(* tier and other calls of Consolidate run in between.                     *)
(*                                                                         *)
(* What the loop works on are copies of the items.  A copy shares the      *)
(* Metadata map of the item it was made from, so it shows stamps written   *)
(* later, unless Metadata was nil at that time: then the stamp allocates a *)
(* map that the copy does not have.                                        *)
(*                                                                         *)
(* An item is an ID and an incarnation: adding an item over an ID makes a  *)
(* new incarnation.  All items are created at the same time, so that a     *)
(* listing is ordered by ID.                                               *)
(***************************************************************************)
EXTENDS Lister, Sequences

CONSTANTS
    Consolidators,  \* goroutines that call Consolidate
    WorkIds,        \* the IDs of the working tier
    Eligible,       \* those that meet Threshold and MinAge
    PageSize,       \* items of a tier listed in one hop
    NilMetadata,    \* may an item be added with a nil Metadata map?
    AddFails,       \* may the episodic Add fail?
    InitEpisodic,   \* items in the episodic tier at the start
    MaxEpisodic,    \* bound on the episodic tier
    MaxInc,         \* bound on the incarnations of an ID
    MaxHops,        \* bound on the hops of one enumeration
    MaxRuns         \* bound on the calls of Consolidate

ASSUME WorkAssumption == /\ WorkIds \subseteq Names /\ IsFiniteSet(WorkIds)
                         /\ Eligible \subseteq WorkIds
ASSUME PageAssumption == PageSize \in Nat \ {0}
ASSUME EpisodicAssumption == 1..MaxEpisodic \subseteq Names /\ 1 \in Times
ASSUME BoundAssumption == /\ InitEpisodic \in Nat /\ MaxEpisodic \in Nat
                          /\ InitEpisodic <= MaxEpisodic
                          /\ MaxInc \in Nat \ {0}
                          /\ MaxHops \in Nat /\ MaxRuns \in Nat
ASSUME FlagAssumption == NilMetadata \in BOOLEAN /\ AddFails \in BOOLEAN

Incs   == 1..MaxInc
Copies == [id : WorkIds, inc : Incs, meta : BOOLEAN]
Counts == [WorkIds -> [Incs -> 0..2]]

VARIABLES
    work,       \* the incarnation of each ID in the working tier, 0 for none
    used,       \* the latest incarnation of each ID
    meta,       \* the incarnations whose Metadata is not nil, as <<id, inc>>
    promo,      \* MetaKeyPromotionCount of each incarnation, 2 for more
    clones,     \* its episodic clones, 2 for more
    episodic,   \* the size of the episodic tier
    pc,         \* where each call of Consolidate is
    todo,       \* the copies it has still to look at
    wcursor,    \* its cursor into the working tier
    ecursor,    \* its cursor into the episodic tier
    hops,       \* hops of its enumeration so far
    runs,       \* calls of Consolidate so far
    stable,     \* history: what was in the working tier since its call
    unseen,     \* history: items promoted in spite of a promotion by another copy
    misplaced   \* history: stamps by ID that missed the item that was cloned

tierVars == <<work, used, meta, promo, clones, episodic>>
listVars == <<todo, wcursor, ecursor, hops>>
histVars == <<stable, unseen, misplaced>>
vars == <<work, used, meta, promo, clones, episodic, pc, todo, wcursor,
          ecursor, hops, runs, stable, unseen, misplaced>>

Pcs == {"idle", "listWorking", "listEpisodic", "check", "add", "stamp", "ok", "error"}

InTier == {<<id, work[id]>> : id \in {i \in WorkIds : work[i] # 0}}

TypeOK ==
    /\ work \in [WorkIds -> 0..MaxInc] /\ used \in [WorkIds -> 0..MaxInc]
    /\ meta \subseteq WorkIds \X Incs
    /\ promo \in Counts /\ clones \in Counts
    /\ episodic \in 0..MaxEpisodic
    /\ pc \in [Consolidators -> Pcs]
    /\ todo \in [Consolidators -> Seq(Copies)]
    /\ wcursor \in [Consolidators -> Cursors]
    /\ ecursor \in [Consolidators -> Cursors]
    /\ hops \in [Consolidators -> 0..MaxHops]
    /\ runs \in 0..MaxRuns
    /\ stable \in [Consolidators -> SUBSET (WorkIds \X Incs)]
    /\ unseen \subseteq WorkIds \X Incs
    /\ misplaced \subseteq WorkIds \X Incs \X (0..MaxInc)

Init ==
    /\ work = [id \in WorkIds |-> 0] /\ used = [id \in WorkIds |-> 0]
    /\ meta = {}
    /\ promo = [id \in WorkIds |-> [n \in Incs |-> 0]]
    /\ clones = [id \in WorkIds |-> [n \in Incs |-> 0]]
    /\ episodic = InitEpisodic
    /\ pc = [c \in Consolidators |-> "idle"]
    /\ todo = [c \in Consolidators |-> << >>]
    /\ wcursor = [c \in Consolidators |-> NoCursor]
    /\ ecursor = [c \in Consolidators |-> NoCursor]
    /\ hops = [c \in Consolidators |-> 0]
    /\ runs = 0
    /\ stable = [c \in Consolidators |-> {}]
    /\ unseen = {} /\ misplaced = {}
----------------------------------------------------------------------------
(* The users of the working tier.                                          *)

\* Add, new or over an existing ID, with or without a Metadata map.
UserAdd(id, withMeta) ==
    /\ used[id] < MaxInc
    /\ withMeta \/ NilMetadata
    /\ used' = [used EXCEPT ![id] = @ + 1]
    /\ work' = [work EXCEPT ![id] = used[id] + 1]
    /\ meta' = IF withMeta THEN meta \cup {<<id, used[id] + 1>>} ELSE meta
    /\ stable' = [c \in Consolidators |-> stable[c] \ {<<id, work[id]>>}]
    /\ UNCHANGED <<promo, clones, episodic, pc, listVars, runs, unseen, misplaced>>

\* Remove, by a user or by an eviction.
UserRemove(id) ==
    /\ work[id] # 0
    /\ work' = [work EXCEPT ![id] = 0]
    /\ stable' = [c \in Consolidators |-> stable[c] \ {<<id, work[id]>>}]
    /\ UNCHANGED <<used, meta, promo, clones, episodic, pc, listVars, runs,
                   unseen, misplaced>>

\* Update with SetPinned or the like, which allocates a nil map.
UserUpdate(id) ==
    /\ work[id] # 0
    /\ meta' = meta \cup {<<id, work[id]>>}
    /\ UNCHANGED <<work, used, promo, clones, episodic, pc, listVars, runs, histVars>>
----------------------------------------------------------------------------
(* The enumeration, listAllPaged.                                          *)

Consolidate(c) ==
    /\ pc[c] \in {"idle", "ok", "error"}
    /\ runs < MaxRuns
    /\ runs' = runs + 1
    /\ pc' = [pc EXCEPT ![c] = "listWorking"]
    /\ todo' = [todo EXCEPT ![c] = << >>]
    /\ wcursor' = [wcursor EXCEPT ![c] = NoCursor]
    /\ ecursor' = [ecursor EXCEPT ![c] = NoCursor]
    /\ hops' = [hops EXCEPT ![c] = 0]
    /\ stable' = [stable EXCEPT ![c] = InTier]
    /\ UNCHANGED <<tierVars, unseen, misplaced>>

Listing(ids) == {[created |-> 1, id |-> i] : i \in ids}

\* A copy of the item an ID has now.
Copy(id) == [id |-> id, inc |-> work[id], meta |-> <<id, work[id]>> \in meta]

\* The IDs of a page in the order of the listing: there is one such sequence.
Ordered(page) ==
    {s \in [1..Cardinality(page) -> {x.id : x \in page}] :
        \A i, j \in DOMAIN s : i < j => s[i] < s[j]}

ListWorking(c) ==
    LET tier == Listing({id \in WorkIds : work[id] # 0}) IN
    /\ pc[c] = "listWorking"
    /\ pc' = [pc EXCEPT ![c] = "listEpisodic"]
    /\ \E ids \in Ordered(Page(tier, PageSize, wcursor[c])) :
          todo' = [todo EXCEPT ![c] = @ \o [n \in DOMAIN ids |-> Copy(ids[n])]]
    /\ wcursor' = [wcursor EXCEPT ![c] = NextCursor(tier, PageSize, @)]
    /\ UNCHANGED <<tierVars, ecursor, hops, runs, histVars>>

\* Mutant: only the first page is asked for.
ListEpisodicOnce(c) ==
    /\ pc[c] = "listEpisodic"
    /\ pc' = [pc EXCEPT ![c] = "check"]
    /\ UNCHANGED <<tierVars, listVars, runs, histVars>>

\* The episodic page ends the hop; its items are not used.  When either tier
\* has more, the next hop starts the other one from the beginning.
ListEpisodic(c) ==
    LET tier == Listing(1..episodic)
        next == NextCursor(tier, PageSize, ecursor[c])
        more == wcursor[c] # NoCursor \/ next # NoCursor
    IN
    /\ pc[c] = "listEpisodic"
    /\ ecursor' = [ecursor EXCEPT ![c] = next]
    /\ \/ /\ more
          /\ hops[c] < MaxHops
          /\ hops' = [hops EXCEPT ![c] = @ + 1]
          /\ pc' = [pc EXCEPT ![c] = "listWorking"]
       \/ /\ ~more
          /\ pc' = [pc EXCEPT ![c] = "check"]
          /\ UNCHANGED hops
    /\ UNCHANGED <<tierVars, todo, wcursor, runs, histVars>>
----------------------------------------------------------------------------
(* The loop over the copies.                                               *)

\* promotionCountOf a copy: a nil map has no stamp, a shared one the latest.
PromotionCountOf(copy) == IF copy.meta THEN promo[copy.id][copy.inc] ELSE 0

\* Mutant: the stamp is not looked at.
SkippedUnlessEligible(copy) == copy.id \notin Eligible

Skipped(copy) == copy.id \notin Eligible \/ PromotionCountOf(copy) >= 1

Advance(c) == todo' = [todo EXCEPT ![c] = Tail(@)]

\* The loop has seen every copy.
Finish(c) ==
    /\ pc[c] = "check"
    /\ todo[c] = << >>
    /\ pc' = [pc EXCEPT ![c] = "ok"]
    /\ UNCHANGED <<tierVars, listVars, runs, histVars>>

\* The call d is adding or stamping the item of a copy.
Promoting(d, copy) ==
    /\ pc[d] \in {"add", "stamp"}
    /\ Head(todo[d]).id = copy.id /\ Head(todo[d]).inc = copy.inc

\* A promotion that the copy in a call's hands does not show: another call has
\* yet to stamp, or the stamp is in a map that the copy does not have.
Unseen(c, copy) ==
    \/ \E d \in Consolidators \ {c} : Promoting(d, copy)
    \/ ~copy.meta /\ promo[copy.id][copy.inc] > 0

\* The filters; they read the copy's Metadata without a lock.
Check(c) ==
    LET copy == Head(todo[c]) IN
    /\ pc[c] = "check"
    /\ todo[c] # << >>
    /\ IF Skipped(copy)
          THEN Advance(c) /\ UNCHANGED <<pc, unseen>>
          ELSE /\ pc' = [pc EXCEPT ![c] = "add"]
               /\ unseen' = IF Unseen(c, copy) THEN unseen \cup {<<copy.id, copy.inc>>}
                            ELSE unseen
               /\ UNCHANGED todo
    /\ UNCHANGED <<tierVars, wcursor, ecursor, hops, runs, stable, misplaced>>

More(n) == IF n = 0 THEN 1 ELSE 2

\* mgr.Add of the clone to the episodic tier.
AddClone(c) ==
    LET copy == Head(todo[c]) IN
    /\ pc[c] = "add"
    /\ episodic < MaxEpisodic
    /\ episodic' = episodic + 1
    /\ clones' = [clones EXCEPT ![copy.id][copy.inc] = More(@)]
    /\ pc' = [pc EXCEPT ![c] = "stamp"]
    /\ UNCHANGED <<work, used, meta, promo, listVars, runs, histVars>>

\* Mutant: the error of the episodic Add is discarded.
AddCloneFailsSilently(c) ==
    /\ AddFails
    /\ pc[c] = "add"
    /\ pc' = [pc EXCEPT ![c] = "stamp"]
    /\ UNCHANGED <<tierVars, listVars, runs, histVars>>

\* The episodic Add fails and the call returns.
AddCloneFails(c) ==
    /\ AddFails
    /\ pc[c] = "add"
    /\ pc' = [pc EXCEPT ![c] = "error"]
    /\ UNCHANGED <<tierVars, listVars, runs, histVars>>

\* Mutant: the stamp is written even though the item has gone.
StampCreates(c) ==
    LET id == Head(todo[c]).id IN
    /\ pc[c] = "stamp"
    /\ meta' = meta \cup {<<id, work[id]>>}
    /\ Advance(c)
    /\ pc' = [pc EXCEPT ![c] = "check"]
    /\ UNCHANGED <<work, used, promo, clones, episodic, wcursor, ecursor, hops, runs, histVars>>

\* The stamp misses the item that was cloned when another has its ID now, or none.
Aim(copy) ==
    misplaced' = IF work[copy.id] = copy.inc THEN misplaced
                 ELSE misplaced \cup {<<copy.id, copy.inc, work[copy.id]>>}

\* mgr.Update of the source: the item that has the ID now gets the stamp.
Stamp(c) ==
    LET id == Head(todo[c]).id IN
    /\ pc[c] = "stamp"
    /\ work[id] # 0
    /\ meta' = meta \cup {<<id, work[id]>>}
    /\ promo' = [promo EXCEPT ![id][work[id]] = More(@)]
    /\ Aim(Head(todo[c]))
    /\ Advance(c)
    /\ pc' = [pc EXCEPT ![c] = "check"]
    /\ UNCHANGED <<work, used, clones, episodic, wcursor, ecursor, hops, runs,
                   stable, unseen>>

\* The source has gone: ErrNotFound ends the call, copies left over included.
StampFails(c) ==
    /\ pc[c] = "stamp"
    /\ work[Head(todo[c]).id] = 0
    /\ Aim(Head(todo[c]))
    /\ pc' = [pc EXCEPT ![c] = "error"]
    /\ UNCHANGED <<tierVars, listVars, runs, stable, unseen>>
----------------------------------------------------------------------------
Next ==
    \/ \E id \in WorkIds, m \in BOOLEAN : UserAdd(id, m)
    \/ \E id \in WorkIds : UserRemove(id)
    \/ \E id \in WorkIds : UserUpdate(id)
    \/ \E c \in Consolidators : Consolidate(c)
    \/ \E c \in Consolidators : ListWorking(c)
    \/ \E c \in Consolidators : ListEpisodic(c)
    \/ \E c \in Consolidators : Finish(c)
    \/ \E c \in Consolidators : Check(c)
    \/ \E c \in Consolidators : AddClone(c)
    \/ \E c \in Consolidators : AddCloneFails(c)
    \/ \E c \in Consolidators : Stamp(c)
    \/ \E c \in Consolidators : StampFails(c)

Spec == Init /\ [][Next]_vars
----------------------------------------------------------------------------
(* Properties.                                                             *)

\* The promote-once policy as the comments of Consolidator state it: no working
\* item has two clones, over any number of calls.
PromoteOnce == \A id \in WorkIds, n \in Incs : clones[id][n] < 2

\* A promotion count tells of a promotion: what Consolidate skips as already
\* promoted has a clone.  It does not hold: README.md, Known limits.
StampedWasPromoted ==
    \A id \in WorkIds, n \in Incs : promo[id][n] > 0 => clones[id][n] > 0

\* The items that were cloned and whose stamp went elsewhere, and the items it
\* went to.
Unstamped      == {<<m[1], m[2]>> : m \in misplaced}
StampedInstead == {<<m[1], m[3]>> : m \in misplaced}

\* How far the promote-once policy holds, with any number of concurrent calls,
\* items with and without Metadata, IDs used again, repeated listings and
\* failures: an item is cloned a second time only if the filter let a copy
\* through while another call was between its own filter and its stamp, or a
\* copy made before the item had a map, or if the stamp of the first clone found
\* the item removed or replaced.
TwiceOnlyUnseen ==
    \A id \in WorkIds, n \in Incs :
        clones[id][n] = 2 => <<id, n>> \in unseen \cup Unstamped

\* A stamp without a clone is one that was meant for an item the stamped one has
\* replaced, between the listing and the stamp: a failing Add, an error in the
\* middle and concurrent calls leave none.
StampedOrReplacing ==
    \A id \in WorkIds, n \in Incs :
        promo[id][n] > 0 => clones[id][n] > 0 \/ <<id, n>> \in StampedInstead

\* A call of Consolidate that returns without error has promoted, or found
\* promoted, every eligible item that stayed in the working tier throughout,
\* unless another call had given it the stamp of an item it replaced.
NothingMissed ==
    \A c \in Consolidators : pc[c] = "ok" =>
        \A item \in stable[c] : item[1] \in Eligible =>
            clones[item[1]][item[2]] > 0 \/ item \in StampedInstead

============================================================================
