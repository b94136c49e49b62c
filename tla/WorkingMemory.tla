--------------------------- MODULE WorkingMemory ---------------------------
(***************************************************************************)
(* The bounded tier.  Add stores the item and then evicts one item when    *)
(* the store is over capacity; the eviction is four separate steps, since  *)
(* the size test, the embedding of the probe, the snapshot and the removal *)
(* each take the store's lock on their own.  Adds by other goroutines,     *)
(* Remove, Update and Import run in between.                               *)
(*                                                                         *)
(* An item is abstracted to a value that determines its score against a    *)
(* probe and its creation time.  Embedding vectors are the business of     *)
(* module ScoredStore; here they only contribute to the score.             *)
(***************************************************************************)
EXTENDS Naturals, FiniteSets

CONSTANTS
    Adders,         \* goroutines that call Add
    Ids,            \* item IDs, chosen by the caller or generated
    Values,         \* item values
    Nil,            \* a missing map entry
    Capacity,       \* WorkingOptions.Capacity after its default is applied
    Score,          \* Score[probe][item]: the score of an item for a probe
    Created,        \* an item's CreatedAt
    Now,            \* the clock when evictOldest reads it
    EmbedFails,     \* may embedding the probe fail?
    ImportModes,    \* the import modes in use
    MaxCalls        \* bound on the calls of Add and Import

ASSUME NilAssumption == Nil \notin Values
ASSUME IdsAssumption == IsFiniteSet(Ids) /\ IsFiniteSet(Adders)
ASSUME CapacityAssumption == Capacity \in Nat \ {0}
ASSUME ScoreAssumption == /\ Score \in [Values -> [Values -> Nat]]
                          /\ Created \in [Values -> Nat]
                          /\ Now \in Nat
ASSUME BoundAssumption == MaxCalls \in Nat

VARIABLES
    items,      \* the store's items
    pc,         \* where each adder's Add is
    probe,      \* the value whose content it passed to evictIfOverCapacity
    victim,     \* the ID it is about to remove
    calls,      \* calls of Add and Import so far
    overrun     \* history: evictions that removed nothing, and items imported

vars == <<items, pc, probe, victim, calls, overrun>>

Pcs     == {"idle", "check", "embed", "scan", "oldest", "remove", "panic"}
Maps    == [Ids -> Values \cup {Nil}]
Present == {id \in Ids : items[id] # Nil}

TypeOK ==
    /\ items \in Maps
    /\ pc \in [Adders -> Pcs]
    /\ probe \in [Adders -> Values]
    /\ victim \in [Adders -> Ids]
    /\ calls \in 0..MaxCalls
    /\ overrun \in Nat

Init ==
    /\ items = [id \in Ids |-> Nil]
    /\ pc = [a \in Adders |-> "idle"]
    /\ \E v \in Values : probe = [a \in Adders |-> v]
    /\ \E id \in Ids : victim = [a \in Adders |-> id]
    /\ calls = 0
    /\ overrun = 0
----------------------------------------------------------------------------
(* Add and its eviction.                                                   *)

\* store.add: the item is in the store, new or overwritten, and the call goes
\* on to evictIfOverCapacity.
Add(a, id, v) ==
    /\ pc[a] = "idle"
    /\ calls < MaxCalls
    /\ calls' = calls + 1
    /\ items' = [items EXCEPT ![id] = v]
    /\ probe' = [probe EXCEPT ![a] = v]
    /\ pc' = [pc EXCEPT ![a] = "check"]
    /\ UNCHANGED <<victim, overrun>>

OverCapacity == Cardinality(Present) > Capacity

\* The size is tested under the lock, which is then released.
EvictCheck(a) ==
    /\ pc[a] = "check"
    /\ pc' = [pc EXCEPT ![a] = IF OverCapacity THEN "embed" ELSE "idle"]
    /\ UNCHANGED <<items, probe, victim, calls, overrun>>

\* Mutant: a failure to embed the probe returns without evicting.
EvictEmbedGivesUp(a) ==
    /\ pc[a] = "embed"
    /\ \/ pc' = [pc EXCEPT ![a] = "scan"]
       \/ EmbedFails /\ pc' = [pc EXCEPT ![a] = "idle"]
    /\ UNCHANGED <<items, probe, victim, calls, overrun>>

\* The probe is embedded with no lock held; a failure selects evictOldest.
EvictEmbed(a) ==
    /\ pc[a] = "embed"
    /\ \/ pc' = [pc EXCEPT ![a] = "scan"]
       \/ EmbedFails /\ pc' = [pc EXCEPT ![a] = "oldest"]
    /\ UNCHANGED <<items, probe, victim, calls, overrun>>

\* The items of the snapshot no other scores below; sort.Slice is not stable
\* and a map has no order, so any of them may come first.
Lowest(p) == {id \in Present : \A other \in Present :
                  Score[p][items[id]] <= Score[p][items[other]]}

\* Snapshot, sort, take scores[0]: an index out of range when the snapshot is
\* empty.
EvictScan(a) ==
    /\ pc[a] = "scan"
    /\ \/ /\ Present = {}
          /\ pc' = [pc EXCEPT ![a] = "panic"]
          /\ UNCHANGED victim
       \/ \E id \in Lowest(probe[a]) :
          /\ victim' = [victim EXCEPT ![a] = id]
          /\ pc' = [pc EXCEPT ![a] = "remove"]
    /\ UNCHANGED <<items, probe, calls, overrun>>

\* The oldest items of the snapshot among those created before now.
Oldest == {id \in Present :
              /\ Created[items[id]] < Now
              /\ \A other \in Present :
                    Created[items[id]] <= Created[items[other]]}

\* Mutant: the empty ID is removed when no item was created before now.
EvictOldestWithoutTest(a) ==
    /\ pc[a] = "oldest"
    /\ \E id \in IF Oldest = {} THEN {Nil} ELSE Oldest :
          victim' = [victim EXCEPT ![a] = id]
    /\ pc' = [pc EXCEPT ![a] = "remove"]
    /\ UNCHANGED <<items, probe, calls, overrun>>

\* evictOldest: nothing is removed when no item was created before now.
EvictOldest(a) ==
    /\ pc[a] = "oldest"
    /\ \/ /\ Oldest = {}
          /\ pc' = [pc EXCEPT ![a] = "idle"]
          /\ overrun' = overrun + 1
          /\ UNCHANGED victim
       \/ \E id \in Oldest :
          /\ victim' = [victim EXCEPT ![a] = id]
          /\ pc' = [pc EXCEPT ![a] = "remove"]
          /\ UNCHANGED overrun
    /\ UNCHANGED <<items, probe, calls>>

\* store.remove of the ID chosen from the snapshot, whatever it holds now; its
\* error is discarded when somebody else has removed it first.
EvictRemove(a) ==
    /\ pc[a] = "remove"
    /\ pc' = [pc EXCEPT ![a] = "idle"]
    /\ items' = [items EXCEPT ![victim[a]] = Nil]
    /\ overrun' = IF victim[a] \in Present THEN overrun ELSE overrun + 1
    /\ UNCHANGED <<probe, victim, calls>>
----------------------------------------------------------------------------
(* The other writers of the tier.                                          *)

Remove(id) ==
    /\ items[id] # Nil
    /\ items' = [items EXCEPT ![id] = Nil]
    /\ UNCHANGED <<pc, probe, victim, calls, overrun>>

Update(id, v) ==
    /\ items[id] # Nil
    /\ items' = [items EXCEPT ![id] = v]
    /\ UNCHANGED <<pc, probe, victim, calls, overrun>>

\* What the store holds after importing snap; Import never evicts.
Imported(snap, mode) ==
    [id \in Ids |->
        IF snap[id] # Nil /\ (mode = "merge" => items[id] = Nil) THEN snap[id]
        ELSE IF mode = "replace" THEN Nil ELSE items[id]]

Import(snap, mode) ==
    /\ mode \in ImportModes
    /\ calls < MaxCalls
    /\ calls' = calls + 1
    /\ items' = Imported(snap, mode)
    /\ overrun' = overrun + Cardinality({id \in Ids : snap[id] # Nil})
    /\ UNCHANGED <<pc, probe, victim>>
----------------------------------------------------------------------------
Next ==
    \/ \E a \in Adders, id \in Ids, v \in Values : Add(a, id, v)
    \/ \E a \in Adders : EvictCheck(a)
    \/ \E a \in Adders : EvictEmbed(a)
    \/ \E a \in Adders : EvictScan(a)
    \/ \E a \in Adders : EvictOldest(a)
    \/ \E a \in Adders : EvictRemove(a)
    \/ \E id \in Ids : Remove(id)
    \/ \E id \in Ids, v \in Values : Update(id, v)
    \/ \E snap \in Maps, mode \in ImportModes : Import(snap, mode)

Spec == Init /\ [][Next]_vars
----------------------------------------------------------------------------
(* Properties.                                                             *)

\* The adds that have stored their item and not yet finished their eviction.
Evicting == {a \in Adders : pc[a] \in {"check", "embed", "scan", "oldest", "remove"}}

\* However adds, removals, updates and imports interleave, the tier exceeds
\* its capacity by at most the adds that have not finished evicting, plus the
\* evictions that found nothing to remove, plus the items imported.  Nothing
\* else makes WorkingMemory grow.
DriftBound == Cardinality(Present) <= Capacity + Cardinality(Evicting) + overrun

\* What Capacity promises: with no Add in flight the tier is within it.
CapacityAtRest == Evicting = {} => Cardinality(Present) <= Capacity

\* An Add never panics, whatever else the tier is doing.  It does not hold:
\* README.md, Known limits.
NoPanic == \A a \in Adders : pc[a] # "panic"

============================================================================
