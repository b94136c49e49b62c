---------------------------- MODULE ScopedMemory ----------------------------
(***************************************************************************)
(* One tier behind a ScopedManager and a ScopedLifecycleManager.  Update   *)
(* and Remove of the scoped manager fetch the item, test its scope, and    *)
(* then act by ID in a second call.  ForgetScoped lists the items of the   *)
(* scope and then removes some of them by ID, one call after the other,    *)
(* with no further test of the scope.  ConsolidateScoped lists the working *)
(* tier in the same way and adds clones of some items to the episodic one. *)
(* Other callers run in between.                                           *)
(*                                                                         *)
(* An item is its scope and its incarnation: adding over an ID makes a new *)
(* one.  Its importance and age are those of its ID and do not change.     *)
(* Its scope and whether it is pinned are kept in its Metadata map.  The   *)
(* copies of an item share the map, so a copy shows the current flag, and  *)
(* so do items that were added with the map of another one: what is        *)
(* written to it for one of them all of them have.  Every item has a       *)
(* Metadata map, from stampScope or from the constructors of items.        *)
(***************************************************************************)
EXTENDS Naturals, Sequences, FiniteSets

CONSTANTS
    Users,          \* goroutines that call Update and Remove
    Lifecycles,     \* goroutines that call ForgetScoped and ConsolidateScoped
    Ids,            \* item IDs in listing order
    Scopes,         \* the scopes a context can carry
    Zero,           \* the scope of a context without one
    Covers,         \* the pairs <<s, t>> for which s.Matches(t)
    Importance,     \* of the items with an ID
    Threshold,      \* ForgetByImportance forgets below this
    Old,            \* IDs of items older than MaxAge
    Keep,           \* ForgetByCapacity keeps this many
    Eligible,       \* IDs of items that meet Threshold and MinAge of
                    \* ConsolidateScoped
    Nil,            \* a missing item
    MaxInc,         \* bound on the incarnations of an ID
    MaxShares,      \* bound on the Adds with the map of another item
    MaxLaps         \* for each operation, bound on the times it lists the tier

Strategies == {"importance", "age", "capacity"}
Sweeps == Strategies \cup {"consolidate"}

ASSUME IdsAssumption == Ids \subseteq Nat /\ IsFiniteSet(Ids)
ASSUME ScopesAssumption == Covers \subseteq Scopes \X Scopes /\ Zero \in Scopes
ASSUME ForgetAssumption == /\ Importance \in [Ids -> Nat]
                           /\ Threshold \in Nat /\ Keep \in Nat
ASSUME BoundAssumption == /\ MaxInc \in Nat /\ MaxShares \in Nat
                          /\ MaxLaps \in [Sweeps -> Nat]

Callers == Users \cup Lifecycles

Incs   == 1..MaxInc
Items  == [scope : Scopes, inc : Incs]
Marks  == Ids \X Incs
Copies == [id : Ids, inc : Incs]

ASSUME NilAssumption == Nil \notin Items

Ops == {"none", "update", "remove"} \cup Sweeps
Pcs == {"idle", "list", "check", "act", "done"}

VARIABLES
    items,      \* the tier
    used,       \* the latest incarnation of each ID
    pinned,     \* the incarnations whose Metadata has the pinned flag, as <<id, inc>>
    metadata,   \* the Metadata map of an incarnation, named after the first
                \* one that had it
    shares,     \* Adds with the map of another item so far
    pc,         \* where each caller is
    op,         \* the call it is in
    as,         \* the scope of its context
    todo,       \* the copies it has still to deal with
    laps,       \* how often its ForgetScoped or ConsolidateScoped has listed
    made,       \* the copies its ConsolidateScoped has added clones of
    stale,      \* history: the IDs added over, or whose item has had its map
                \* stamped for another one, since its call began
    protected,  \* history: the items pinned ever since its call began
    before,     \* history: the copies in scope at that time, for ForgetScoped
                \* the unpinned ones
    quiet       \* history: the callers since whose call nobody else has written

tierVars == <<items, used, pinned, metadata, shares>>
histVars == <<stale, protected, before, quiet>>
vars == <<items, used, pinned, metadata, shares, pc, op, as, todo, laps, made,
          stale, protected, before, quiet>>

Matches(s, t) == <<s, t>> \in Covers

Present == {id \in Ids : items[id] # Nil}

\* The incarnation an ID has now.
Current(id) == <<id, items[id].inc>>

\* The IDs a caller with this scope sees.
InScope(s) == {id \in Present : Matches(s, items[id].scope)}

Copy(id) == [id |-> id, inc |-> items[id].inc]

\* The incarnations that have the same Metadata map as this one.
SharedBy(m) == {n \in Marks : metadata[n] = metadata[m]}

\* IsPinned of a copy, which shares its Metadata with the item.
IsPinned(copy) == <<copy.id, copy.inc>> \in pinned

TypeOK ==
    /\ items \in [Ids -> Items \cup {Nil}]
    /\ used \in [Ids -> 0..MaxInc]
    /\ pinned \subseteq Marks
    /\ metadata \in [Marks -> Marks]
    /\ shares \in 0..MaxShares
    /\ pc \in [Callers -> Pcs]
    /\ op \in [Callers -> Ops]
    /\ as \in [Callers -> Scopes]
    /\ todo \in [Callers -> Seq(Copies)]
    /\ laps \in [Callers -> Nat]
    /\ made \in [Callers -> Seq(Copies)]
    /\ stale \in [Callers -> SUBSET Ids]
    /\ protected \in [Callers -> SUBSET Marks]
    /\ before \in [Callers -> SUBSET Copies]
    /\ quiet \subseteq Callers

Init ==
    /\ items = [id \in Ids |-> Nil]
    /\ used = [id \in Ids |-> 0]
    /\ pinned = {}
    /\ metadata = [m \in Marks |-> m]
    /\ shares = 0
    /\ pc = [c \in Callers |-> "idle"]
    /\ op = [c \in Callers |-> "none"]
    /\ as = [c \in Callers |-> Zero]
    /\ todo = [c \in Callers |-> << >>]
    /\ laps = [c \in Callers |-> 0]
    /\ made = [c \in Callers |-> << >>]
    /\ stale = [c \in Callers |-> {}]
    /\ protected = [c \in Callers |-> {}]
    /\ before = [c \in Callers |-> {}]
    /\ quiet = {}
----------------------------------------------------------------------------
(* ScopedManager.                                                          *)

\* Mutant: the item is stored without the stamp.
AddUnstamped(s, id, pin) ==
    /\ used[id] < MaxInc
    /\ used' = [used EXCEPT ![id] = @ + 1]
    /\ items' = [items EXCEPT ![id] = [scope |-> Nil, inc |-> used[id] + 1]]
    /\ UNCHANGED <<pinned, metadata, shares, pc, op, as, todo, laps, made, histVars>>

\* Add: the item gets the scope of the context and replaces the one with its
\* ID, if any, whatever scope that has.
Add(s, id, pin) ==
    LET item == [scope |-> s, inc |-> used[id] + 1] IN
    /\ used[id] < MaxInc
    /\ used' = [used EXCEPT ![id] = @ + 1]
    /\ items' = [items EXCEPT ![id] = item]
    /\ pinned' = IF pin THEN pinned \cup {<<id, item.inc>>} ELSE pinned
    /\ stale' = [c \in Callers |-> IF pc[c] = "idle" THEN {} ELSE stale[c] \cup {id}]
    /\ protected' = [c \in Callers |-> {p \in protected[c] : p[1] # id}]
    /\ quiet' = {}
    /\ UNCHANGED <<metadata, shares, pc, op, as, todo, laps, made, before>>

\* The items whose Metadata map is that of an item, itself included.
Alike(id) == {j \in Present : Current(j) \in SharedBy(Current(id))}

\* What stampScope does to the items that have the map it writes into; a zero
\* scope is not written.
Stamped(s, from) ==
    [j \in Ids |-> IF s # Zero /\ j \in Alike(from)
                   THEN [items[j] EXCEPT !.scope = s] ELSE items[j]]

\* Add of an item with the Metadata map of one that is in the tier, which the
\* caller has from Get or passes a second time.
AddShared(s, id, from) ==
    LET new == <<id, used[id] + 1>> IN
    /\ used[id] < MaxInc
    /\ shares < MaxShares
    /\ from \in Present
    /\ shares' = shares + 1
    /\ used' = [used EXCEPT ![id] = @ + 1]
    /\ items' = [Stamped(s, from) EXCEPT ![id] =
                    [scope |-> IF s = Zero THEN items[from].scope ELSE s,
                     inc |-> used[id] + 1]]
    /\ metadata' = [metadata EXCEPT ![new] = metadata[Current(from)]]
    /\ pinned' = IF Current(from) \in pinned THEN pinned \cup {new} ELSE pinned
    /\ stale' = [c \in Callers |-> IF pc[c] = "idle" THEN {}
                                   ELSE stale[c] \cup Alike(from) \cup {id}]
    /\ protected' = [c \in Callers |-> {p \in protected[c] : p[1] # id}]
    /\ quiet' = {}
    /\ UNCHANGED <<pc, op, as, todo, laps, made, before>>

\* Add of such an item to another tier, with a scope that is not zero.
AddElsewhere(s, from) ==
    /\ shares < MaxShares
    /\ from \in Present
    /\ shares' = shares + 1
    /\ items' = Stamped(s, from)
    /\ stale' = [c \in Callers |-> IF pc[c] = "idle" THEN {}
                                   ELSE stale[c] \cup Alike(from)]
    /\ quiet' = {}
    /\ UNCHANGED <<used, pinned, metadata, pc, op, as, todo, laps, made, protected, before>>

\* Mutant: the scope of the fetched item is not tested.
LookUpUnscoped(c, s, id, what) ==
    /\ pc[c] = "idle"
    /\ id \in Present
    /\ pc' = [pc EXCEPT ![c] = "act"]
    /\ op' = [op EXCEPT ![c] = what]
    /\ as' = [as EXCEPT ![c] = s]
    /\ todo' = [todo EXCEPT ![c] = <<Copy(id)>>]
    /\ UNCHANGED <<tierVars, laps, made, histVars>>

\* The first half of Update and Remove: inner.Get and the test of the scope.
\* Otherwise the call returns ErrNotFound.
LookUp(c, s, id, what) ==
    /\ pc[c] = "idle"
    /\ id \in InScope(s)
    /\ pc' = [pc EXCEPT ![c] = "act"]
    /\ op' = [op EXCEPT ![c] = what]
    /\ as' = [as EXCEPT ![c] = s]
    /\ todo' = [todo EXCEPT ![c] = <<Copy(id)>>]
    /\ UNCHANGED <<tierVars, laps, made, histVars>>

\* The call returns.
Leave(c) ==
    /\ pc' = [pc EXCEPT ![c] = "idle"]
    /\ op' = [op EXCEPT ![c] = "none"]
    /\ as' = [as EXCEPT ![c] = Zero]
    /\ todo' = [todo EXCEPT ![c] = << >>]
    /\ laps' = [laps EXCEPT ![c] = 0]
    /\ made' = [made EXCEPT ![c] = << >>]
    /\ stale' = [stale EXCEPT ![c] = {}]
    /\ before' = [before EXCEPT ![c] = {}]

\* inner.Update with a function that sets or clears the pinned flag.
Update(c, pin) ==
    LET id == Head(todo[c]).id IN
    /\ pc[c] = "act" /\ op[c] = "update"
    /\ id \in Present
    /\ pinned' = IF pin THEN pinned \cup SharedBy(Current(id))
                 ELSE pinned \ SharedBy(Current(id))
    /\ protected' = IF pin THEN protected
                    ELSE [d \in Callers |-> protected[d] \ SharedBy(Current(id))]
    /\ quiet' = {}
    /\ Leave(c)
    /\ UNCHANGED <<items, used, metadata, shares>>

\* inner.Remove.
Remove(c) ==
    LET id == Head(todo[c]).id IN
    /\ pc[c] = "act" /\ op[c] = "remove"
    /\ id \in Present
    /\ items' = [items EXCEPT ![id] = Nil]
    /\ protected' = [d \in Callers |-> protected[d] \ {Current(id)}]
    /\ quiet' = {}
    /\ Leave(c)
    /\ UNCHANGED <<used, pinned, metadata, shares>>

\* The item has gone since it was looked up: ErrNotFound.
Gone(c) ==
    /\ pc[c] = "act" /\ op[c] \in {"update", "remove"}
    /\ Head(todo[c]).id \notin Present
    /\ Leave(c)
    /\ UNCHANGED <<tierVars, protected, quiet>>
----------------------------------------------------------------------------
(* ScopedLifecycleManager: ForgetScoped and ConsolidateScoped.             *)

\* A call with scope s begins, which is to deal with these copies.
Sweep(c, s, what, copies) ==
    /\ pc[c] = "idle"
    /\ pc' = [pc EXCEPT ![c] = "list"]
    /\ op' = [op EXCEPT ![c] = what]
    /\ as' = [as EXCEPT ![c] = s]
    /\ protected' = [protected EXCEPT
                       ![c] = {Current(id) : id \in Present} \cap pinned]
    /\ before' = [before EXCEPT ![c] = copies]
    /\ quiet' = quiet \cup {c}
    /\ UNCHANGED <<tierVars, todo, laps, made, stale>>

InSight(s) == {Copy(id) : id \in InScope(s)}

ForgetScoped(c, s, how) ==
    Sweep(c, s, how, {copy \in InSight(s) : ~IsPinned(copy)})

ConsolidateScoped(c, s) == Sweep(c, s, "consolidate", InSight(s))

\* The copies of a set of items in listing order: there is one such sequence.
Listed(ids) ==
    {s \in [1..Cardinality(ids) -> {Copy(id) : id \in ids}] :
        \A i, j \in DOMAIN s : i < j => s[i].id < s[j].id}

\* listAllScoped lists the tier, and lists it again from the beginning when it
\* is exhausted before another tier is (module PagedListing).
List(c) ==
    /\ pc[c] = "list"
    /\ laps[c] < MaxLaps[op[c]]
    /\ laps' = [laps EXCEPT ![c] = @ + 1]
    /\ \E copies \in Listed(InScope(as[c])) :
          todo' = [todo EXCEPT ![c] = @ \o copies]
    /\ UNCHANGED <<tierVars, pc, op, as, made, histVars>>

\* The listing is complete, and the call goes through it one by one.
Select(c) ==
    /\ pc[c] = "list"
    /\ laps[c] > 0
    /\ op[c] # "capacity"
    /\ pc' = [pc EXCEPT ![c] = "check"]
    /\ UNCHANGED <<tierVars, op, as, todo, laps, made, histVars>>

\* Mutant: pinned items are forgotten like the others.
ForgettableThoughPinned(c, copy) ==
    IF op[c] = "importance" THEN Importance[copy.id] < Threshold ELSE copy.id \in Old

\* The test of one candidate, on the copy: pinned, importance or age.
Forgettable(c, copy) ==
    /\ ~IsPinned(copy)
    /\ IF op[c] = "importance" THEN Importance[copy.id] < Threshold ELSE copy.id \in Old

\* Mutant: ConsolidateScoped takes every item it has listed.
ChosenUnfiltered(c, copy) ==
    IF op[c] = "consolidate" THEN TRUE ELSE Forgettable(c, copy)

\* The test of one copy; ConsolidateScoped takes no notice of a stamp.
Chosen(c, copy) ==
    IF op[c] = "consolidate" THEN copy.id \in Eligible ELSE Forgettable(c, copy)

Check(c) ==
    /\ pc[c] = "check"
    /\ todo[c] # << >>
    /\ IF Chosen(c, Head(todo[c]))
          THEN pc' = [pc EXCEPT ![c] = "act"] /\ UNCHANGED todo
          ELSE todo' = [todo EXCEPT ![c] = Tail(@)] /\ UNCHANGED pc
    /\ UNCHANGED <<tierVars, op, as, laps, made, histVars>>

\* The candidates of ForgetByCapacity, as places in the listing.
Loose(copies) == {i \in DOMAIN copies : ~IsPinned(copies[i])}

\* The place of a candidate after the stable sort by importance, from 0.
Place(copies, i) ==
    Cardinality({j \in Loose(copies) :
        \/ Importance[copies[j].id] < Importance[copies[i].id]
        \/ Importance[copies[j].id] = Importance[copies[i].id] /\ j < i})

\* Mutant: one more is evicted than is too many.
EvicteesOneMore(copies) ==
    {i \in Loose(copies) : Place(copies, i) + Keep <= Cardinality(Loose(copies))}

\* All but Keep candidates, the least important first.
Evictees(copies) ==
    {i \in Loose(copies) : Place(copies, i) + Keep < Cardinality(Loose(copies))}

\* The evictees in the order of the sort.
Sorted(copies, picked) ==
    {s \in [1..Cardinality(picked) -> {copies[i] : i \in picked}] :
        \A i \in picked : s[Place(copies, i) + 1] = copies[i]}

\* ForgetByCapacity: nothing to do when Keep <= 0 or no more than Keep listed.
Plan(c) ==
    /\ pc[c] = "list"
    /\ laps[c] > 0
    /\ op[c] = "capacity"
    /\ pc' = [pc EXCEPT ![c] = "act"]
    /\ \E s \in Sorted(todo[c], IF Keep = 0 THEN {} ELSE Evictees(todo[c])) :
          todo' = [todo EXCEPT ![c] = s]
    /\ UNCHANGED <<tierVars, op, as, laps, made, histVars>>

\* mgr.Remove of one candidate by its ID; an error is not counted.  The items
\* protected from this very call are not touched: they are what is at stake.
Forget(c) ==
    LET id == Head(todo[c]).id IN
    /\ pc[c] = "act" /\ op[c] \in Strategies
    /\ todo[c] # << >>
    /\ todo' = [todo EXCEPT ![c] = Tail(@)]
    /\ pc' = [pc EXCEPT ![c] = IF op[c] = "capacity" THEN "act" ELSE "check"]
    /\ items' = [items EXCEPT ![id] = Nil]
    /\ protected' = [d \in Callers |->
                        IF d # c /\ id \in Present THEN protected[d] \ {Current(id)}
                        ELSE protected[d]]
    /\ quiet' = IF id \in Present THEN quiet \cap {c} ELSE quiet
    /\ UNCHANGED <<used, pinned, metadata, shares, op, as, laps, made, stale, before>>

\* mgr.Add of a clone, with the Metadata map of the copy, to the episodic tier.
AddClone(c) ==
    /\ pc[c] = "act" /\ op[c] = "consolidate"
    /\ made' = [made EXCEPT ![c] = Append(@, Head(todo[c]))]
    /\ todo' = [todo EXCEPT ![c] = Tail(@)]
    /\ pc' = [pc EXCEPT ![c] = "check"]
    /\ UNCHANGED <<tierVars, op, as, laps, histVars>>

\* That Add fails and the call returns.
AddCloneFails(c) ==
    /\ pc[c] = "act" /\ op[c] = "consolidate"
    /\ Leave(c)
    /\ protected' = [protected EXCEPT ![c] = {}]
    /\ quiet' = quiet \ {c}
    /\ UNCHANGED tierVars

\* Every candidate has been dealt with.
Finish(c) ==
    /\ \/ pc[c] = "check"
       \/ pc[c] = "act" /\ op[c] = "capacity"
    /\ todo[c] = << >>
    /\ pc' = [pc EXCEPT ![c] = "done"]
    /\ UNCHANGED <<tierVars, op, as, todo, laps, made, histVars>>

\* A call that has returned is forgotten.
Return(c) ==
    /\ pc[c] = "done"
    /\ Leave(c)
    /\ protected' = [protected EXCEPT ![c] = {}]
    /\ quiet' = quiet \ {c}
    /\ UNCHANGED tierVars
----------------------------------------------------------------------------
Next ==
    \/ \E s \in Scopes, id \in Ids, pin \in BOOLEAN : Add(s, id, pin)
    \/ \E s \in Scopes, id \in Ids, from \in Ids : AddShared(s, id, from)
    \/ \E s \in Scopes \ {Zero}, from \in Ids : AddElsewhere(s, from)
    \/ \E c \in Users, s \in Scopes, id \in Ids, what \in {"update", "remove"} :
          LookUp(c, s, id, what)
    \/ \E c \in Users, pin \in BOOLEAN : Update(c, pin)
    \/ \E c \in Users : Remove(c)
    \/ \E c \in Users : Gone(c)
    \/ \E c \in Lifecycles, s \in Scopes, how \in Strategies : ForgetScoped(c, s, how)
    \/ \E c \in Lifecycles, s \in Scopes : ConsolidateScoped(c, s)
    \/ \E c \in Lifecycles : List(c)
    \/ \E c \in Lifecycles : Select(c)
    \/ \E c \in Lifecycles : Check(c)
    \/ \E c \in Lifecycles : Plan(c)
    \/ \E c \in Lifecycles : Forget(c)
    \/ \E c \in Lifecycles : AddClone(c)
    \/ \E c \in Lifecycles : AddCloneFails(c)
    \/ \E c \in Lifecycles : Finish(c)
    \/ \E c \in Lifecycles : Return(c)

Spec == Init /\ [][Next]_vars
----------------------------------------------------------------------------
(* Properties.                                                             *)

\* The IDs a caller may go on to change or remove without testing their scope
\* again.
Aimed(c) == {todo[c][i].id : i \in DOMAIN todo[c]}

\* Update, Remove and ForgetScoped change and remove items of the caller's
\* scope only, unless after the caller's call began another item was added
\* over the ID, or an item with the Metadata map of that one, to any tier and
\* under any ID: nothing but Add defeats the check-then-act of the scoped
\* manager and of the scoped lifecycle.
ActsInScope ==
    \A c \in Callers : \A id \in Aimed(c) \ stale[c] :
        id \in Present => Matches(as[c], items[id].scope)

\* An item that is pinned when ForgetScoped is called and stays pinned survives
\* that call, under every strategy and however often the tier is listed.
PinnedSurvive ==
    \A c \in Callers : \A p \in protected[c] :
        p[1] \in Present /\ Current(p[1]) = p

\* A call of ForgetByCapacity that ran while nobody else wrote.
Settled(c) == pc[c] = "done" /\ op[c] = "capacity" /\ c \in quiet /\ Keep > 0

\* What ForgetByCapacity has left of the unpinned items it was called for.
Kept(c) == {copy \in before[c] : copy.id \in Present}

\* ForgetByCapacity that ran while nobody else wrote has left exactly Keep of
\* the unpinned items in scope, or all there were, and none of them is less
\* important than one it removed.
KeepsTheBest ==
    \A c \in Callers : Settled(c) =>
    /\ \/ Cardinality(Kept(c)) = Keep
       \/ Kept(c) = before[c] /\ Cardinality(before[c]) < Keep
    /\ \A k \in Kept(c), r \in before[c] \ Kept(c) : Importance[r.id] <= Importance[k.id]

\* How often a call of ConsolidateScoped has added a clone of a copy.
Times(c, copy) == Cardinality({i \in DOMAIN made[c] : made[c][i] = copy})

\* A call of ConsolidateScoped that ran while nobody else wrote has added a
\* clone of every eligible item in scope, and of no other item, once for each
\* time it listed the tier: a tier that is listed again because another has
\* more pages is promoted again in the same call.
OneCloneEachLap ==
    \A c \in Callers : pc[c] = "done" /\ op[c] = "consolidate" /\ c \in quiet =>
        \A copy \in Copies :
            Times(c, copy) = IF copy \in before[c] /\ copy.id \in Eligible
                             THEN laps[c] ELSE 0

============================================================================
