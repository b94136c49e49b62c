-------------------------- MODULE WritePathProofs --------------------------
(***************************************************************************)
(* The write path.  First the size of the working tier, for any number of  *)
(* adders, IDs and values, from the assumptions of WorkingMemory alone.    *)
(*                                                                         *)
(* Then the writes through a policy, for any policy and chains that        *)
(* satisfy the assumptions of PolicyWrites, any number of adders, IDs and  *)
(* kinds.  The working tier behind the policy is the one of WorkingMemory, *)
(* so its theorems hold for it.  For the others a write on its way must be *)
(* known to be clean from some stage on (WriteClean), and to owe an event  *)
(* only when the policy sent it and its tier has it, or rejected it        *)
(* (WriteShape).                                                           *)
(***************************************************************************)
EXTENDS PolicyWrites, FiniteSetTheorems, TLAPS

----------------------------------------------------------------------------
(* The working tier.                                                       *)

\* The inductive invariant behind the drift bound.
IInv == TypeOK /\ DriftBound

(* The two sets whose sizes are counted are finite.                        *)
LEMMA Finite ==
    ASSUME NEW S, S \subseteq Ids \/ S \subseteq Adders
    PROVE  IsFiniteSet(S) /\ Cardinality(S) \in Nat
BY IdsAssumption, FS_Subset, FS_CardinalityType

\* Adding at most one element adds at most one to the size.
LEMMA GrowsByOne ==
    ASSUME NEW S, NEW T, NEW x, IsFiniteSet(S), T \subseteq S \cup {x}
    PROVE  IsFiniteSet(T) /\ Cardinality(T) <= Cardinality(S) + 1
<1>1. IsFiniteSet(S \cup {x}) /\ Cardinality(S \cup {x}) <= Cardinality(S) + 1
  <2>1. Cardinality(S) \in Nat
    BY FS_CardinalityType
  <2>2. /\ IsFiniteSet(S \cup {x})
        /\ \/ Cardinality(S \cup {x}) = Cardinality(S)
           \/ Cardinality(S \cup {x}) = Cardinality(S) + 1
    BY FS_AddElement
  <2> QED BY <2>1, <2>2
<1>2. IsFiniteSet(T) /\ Cardinality(T) <= Cardinality(S \cup {x})
  BY <1>1, FS_Subset
<1> QED BY <1>1, <1>2, FS_CardinalityType

\* Adding a new element adds exactly one.
LEMMA GrowsExactly ==
    ASSUME NEW S, NEW x, x \notin S, IsFiniteSet(S)
    PROVE  Cardinality(S \cup {x}) = Cardinality(S) + 1
BY FS_AddElement

\* Taking an element out takes exactly one off the size.
LEMMA ShrinksByOne ==
    ASSUME NEW S, NEW x \in S, IsFiniteSet(S)
    PROVE  Cardinality(S \ {x}) = Cardinality(S) - 1
BY FS_RemoveElement

\* A subset is no larger.
LEMMA NoLarger ==
    ASSUME NEW S, NEW T, T \subseteq S, IsFiniteSet(S)
    PROVE  Cardinality(T) <= Cardinality(S)
BY FS_Subset

\* The initial state is within the bound: the tier is empty.
LEMMA InitIInv == Init => IInv
<1> SUFFICES ASSUME Init PROVE IInv
  OBVIOUS
<1>1. TypeOK
  BY BoundAssumption DEF Init, TypeOK, Maps, Pcs
<1>2. Present = {} /\ Evicting = {}
  BY DEF Init, Present, Evicting
<1>3. DriftBound
  BY <1>2, FS_EmptySet, CapacityAssumption DEF Init, DriftBound
<1> QED BY <1>1, <1>3 DEF IInv

\* An Add may add one item, and becomes one more add in flight.
LEMMA AddKeepsIInv ==
    ASSUME IInv, NEW a \in Adders, NEW id \in Ids, NEW v \in Values, Add(a, id, v)
    PROVE  IInv'
<1>1. TypeOK'
  BY BoundAssumption DEF IInv, TypeOK, Add, Maps, Pcs
<1>2. Present' \subseteq Present \cup {id}
  BY DEF IInv, TypeOK, Maps, Present, Add
<1>3. a \notin Evicting /\ Evicting' = Evicting \cup {a}
  BY DEF IInv, TypeOK, Evicting, Add
<1>4. Present \subseteq Ids /\ Evicting \subseteq Adders
  BY DEF Present, Evicting
<1>5. Cardinality(Present') <= Cardinality(Present) + 1
  BY <1>2, <1>4, Finite, GrowsByOne
<1>6. Cardinality(Evicting') = Cardinality(Evicting) + 1
  BY <1>3, <1>4, Finite, GrowsExactly
<1>7. Cardinality(Present) \in Nat /\ Cardinality(Evicting) \in Nat
      /\ Cardinality(Present') \in Nat
  BY <1>4, <1>1, Finite DEF Present
<1>8. DriftBound'
  BY <1>5, <1>6, <1>7, CapacityAssumption DEF IInv, TypeOK, DriftBound, Add
<1> QED BY <1>1, <1>8 DEF IInv

\* Steps of an eviction that leave both counts alone.
LEMMA QuietKeepsIInv ==
    ASSUME IInv, TypeOK', items' = items, overrun' = overrun,
           Evicting' = Evicting
    PROVE  IInv'
BY DEF IInv, DriftBound, Present

\* An adder leaving the eviction with the size within capacity, or paying for
\* it with one more overrun.
LEMMA LeaveKeepsIInv ==
    ASSUME IInv, TypeOK', NEW a \in Evicting, items' = items,
           Evicting' = Evicting \ {a},
           \/ overrun' = overrun + 1
           \/ overrun' = overrun /\ Cardinality(Present) <= Capacity
    PROVE  IInv'
<1>1. Present' = Present
  BY DEF Present
<1>2. Present \subseteq Ids /\ Evicting \subseteq Adders
  BY DEF Present, Evicting
<1>3. Cardinality(Present) \in Nat /\ Cardinality(Evicting) \in Nat
      /\ Cardinality(Evicting') \in Nat
  BY <1>2, Finite
<1>4. Cardinality(Evicting') = Cardinality(Evicting) - 1
  BY <1>2, Finite, ShrinksByOne
<1>5. DriftBound'
  BY <1>1, <1>3, <1>4, CapacityAssumption DEF IInv, TypeOK, DriftBound
<1> QED BY <1>5 DEF IInv

\* The removal: either one item goes, or nothing does and overrun pays.
LEMMA EvictRemoveKeepsIInv ==
    ASSUME IInv, NEW a \in Adders, EvictRemove(a)
    PROVE  IInv'
<1>1. TypeOK'
  BY DEF IInv, TypeOK, EvictRemove, Maps, Pcs
<1>2. a \in Evicting /\ Evicting' = Evicting \ {a}
  BY DEF IInv, TypeOK, Evicting, EvictRemove
<1>3. CASE victim[a] \in Present
  <2>1. Present' = Present \ {victim[a]}
    BY DEF IInv, TypeOK, Maps, Present, EvictRemove
  <2>2. Present \subseteq Ids /\ Evicting \subseteq Adders
    BY DEF Present, Evicting
  <2>3. Cardinality(Present') = Cardinality(Present) - 1
    BY <1>3, <2>1, <2>2, Finite, ShrinksByOne
  <2>4. Cardinality(Evicting') = Cardinality(Evicting) - 1
    BY <1>2, <2>2, Finite, ShrinksByOne
  <2>5. Cardinality(Present) \in Nat /\ Cardinality(Evicting) \in Nat
    BY <2>2, Finite
  <2>6. overrun' = overrun
    BY <1>3 DEF EvictRemove
  <2>7. DriftBound'
    BY <2>3, <2>4, <2>5, <2>6, CapacityAssumption DEF IInv, TypeOK, DriftBound
  <2> QED BY <1>1, <2>7 DEF IInv
<1>4. CASE victim[a] \notin Present
  <2>1. items' = items /\ overrun' = overrun + 1
    BY <1>4 DEF IInv, TypeOK, Maps, Present, EvictRemove
  <2> QED BY <1>1, <1>2, <2>1, LeaveKeepsIInv
<1> QED BY <1>3, <1>4

\* Remove and Update never add an ID.
LEMMA WritersKeepIInv ==
    ASSUME IInv, NEW id \in Ids,
           Remove(id) \/ \E v \in Values : Update(id, v)
    PROVE  IInv'
<1>1. TypeOK'
  BY DEF IInv, TypeOK, Remove, Update, Maps, Pcs
<1>2. Present' \subseteq Present
  BY DEF IInv, TypeOK, Maps, Present, Remove, Update
<1>3. Evicting' = Evicting /\ overrun' = overrun
  BY DEF Evicting, Remove, Update
<1>4. Present \subseteq Ids /\ Evicting \subseteq Adders /\ Present' \subseteq Ids
  BY DEF Present, Evicting
<1>5. Cardinality(Present') <= Cardinality(Present)
  BY <1>2, <1>4, Finite, NoLarger
<1>6. /\ Cardinality(Present) \in Nat /\ Cardinality(Evicting) \in Nat
      /\ Cardinality(Present') \in Nat
  BY <1>4, Finite
<1>7. DriftBound'
  BY <1>3, <1>5, <1>6, CapacityAssumption DEF IInv, TypeOK, DriftBound
<1> QED BY <1>1, <1>7 DEF IInv

\* An import is paid for by the number of its entries.
LEMMA ImportKeepsIInv ==
    ASSUME IInv, NEW snap \in Maps, NEW mode \in ImportModes, Import(snap, mode)
    PROVE  IInv'
<1> DEFINE entries == {id \in Ids : snap[id] # Nil}
<1>1. entries \subseteq Ids /\ Present \subseteq Ids /\ Evicting \subseteq Adders
      /\ Present' \subseteq Ids
  BY DEF Present, Evicting
<1>2. /\ Cardinality(entries) \in Nat /\ Cardinality(Present) \in Nat
      /\ Cardinality(Evicting) \in Nat /\ Cardinality(Present') \in Nat
      /\ IsFiniteSet(entries) /\ IsFiniteSet(Present)
  BY <1>1, Finite
<1>3. TypeOK'
  BY <1>2, BoundAssumption DEF IInv, TypeOK, Import, Imported, Maps, Pcs
<1>4. Present' \subseteq Present \cup entries
  BY DEF IInv, TypeOK, Maps, Present, Import, Imported
<1>5. /\ IsFiniteSet(Present \cup entries)
      /\ Cardinality(Present \cup entries)
           <= Cardinality(Present) + Cardinality(entries)
  <2>1. /\ IsFiniteSet(Present \cup entries)
        /\ Cardinality(Present \cup entries)
             = Cardinality(Present) + Cardinality(entries)
                 - Cardinality(Present \cap entries)
    BY <1>2, FS_Union
  <2>2. Cardinality(Present \cap entries) \in Nat
    BY <1>1, Finite
  <2> QED BY <1>2, <2>1, <2>2
<1>6. Cardinality(Present') <= Cardinality(Present \cup entries)
  BY <1>4, <1>5, NoLarger
<1>7. Cardinality(Present \cup entries) \in Nat
  BY <1>5, FS_CardinalityType
<1>8. Evicting' = Evicting /\ overrun' = overrun + Cardinality(entries)
  BY DEF Evicting, Import
<1>9. DriftBound'
  BY <1>2, <1>5, <1>6, <1>7, <1>8, CapacityAssumption
  DEF IInv, TypeOK, DriftBound
<1> QED BY <1>3, <1>9 DEF IInv

\* One step of the tier, action by action.
LEMMA StepKeepsIInv == IInv /\ [Next]_vars => IInv'
<1> SUFFICES ASSUME IInv, [Next]_vars PROVE IInv'
  OBVIOUS
<1>1. ASSUME NEW a \in Adders, NEW id \in Ids, NEW v \in Values, Add(a, id, v)
      PROVE  IInv'
  BY <1>1, AddKeepsIInv
<1>2. ASSUME NEW a \in Adders, EvictCheck(a) PROVE IInv'
  <2>1. TypeOK'
    BY <1>2 DEF IInv, TypeOK, EvictCheck, Pcs
  <2>2. CASE OverCapacity
    <3>1. Evicting' = Evicting
      BY <1>2, <2>2 DEF IInv, TypeOK, Evicting, EvictCheck
    <3> QED BY <1>2, <2>1, <3>1, QuietKeepsIInv DEF EvictCheck
  <2>3. CASE ~OverCapacity
    <3>1. a \in Evicting /\ Evicting' = Evicting \ {a}
      BY <1>2, <2>3 DEF IInv, TypeOK, Evicting, EvictCheck
    <3>2. Cardinality(Present) <= Capacity
      <4>1. Cardinality(Present) \in Nat
        BY Finite DEF Present
      <4> QED BY <2>3, <4>1, CapacityAssumption DEF OverCapacity
    <3> QED BY <1>2, <2>1, <3>1, <3>2, LeaveKeepsIInv DEF EvictCheck
  <2> QED BY <2>2, <2>3
<1>3. ASSUME NEW a \in Adders, EvictEmbed(a) PROVE IInv'
  <2>1. TypeOK' /\ Evicting' = Evicting
    BY <1>3 DEF IInv, TypeOK, EvictEmbed, Pcs, Evicting
  <2> QED BY <1>3, <2>1, QuietKeepsIInv DEF EvictEmbed
<1>4. ASSUME NEW a \in Adders, EvictScan(a) PROVE IInv'
  <2>1. TypeOK'
    BY <1>4 DEF IInv, TypeOK, EvictScan, Lowest, Present, Pcs
  <2>2. CASE Present = {} /\ pc' = [pc EXCEPT ![a] = "panic"]
    <3>1. a \in Evicting /\ Evicting' = Evicting \ {a}
      BY <1>4, <2>2 DEF IInv, TypeOK, Evicting, EvictScan
    <3>2. Cardinality(Present) <= Capacity
      BY <2>2, FS_EmptySet, CapacityAssumption
    <3> QED BY <1>4, <2>1, <3>1, <3>2, LeaveKeepsIInv DEF EvictScan
  <2>3. CASE pc' = [pc EXCEPT ![a] = "remove"]
    <3>1. Evicting' = Evicting
      BY <1>4, <2>3 DEF IInv, TypeOK, Evicting, EvictScan
    <3> QED BY <1>4, <2>1, <3>1, QuietKeepsIInv DEF EvictScan
  <2> QED BY <1>4, <2>2, <2>3 DEF EvictScan
<1>5. ASSUME NEW a \in Adders, EvictOldest(a) PROVE IInv'
  <2>1. TypeOK'
    BY <1>5 DEF IInv, TypeOK, EvictOldest, Oldest, Present, Pcs
  <2>2. CASE pc' = [pc EXCEPT ![a] = "idle"] /\ overrun' = overrun + 1
    <3>1. a \in Evicting /\ Evicting' = Evicting \ {a}
      BY <1>5, <2>2 DEF IInv, TypeOK, Evicting, EvictOldest
    <3> QED BY <1>5, <2>1, <2>2, <3>1, LeaveKeepsIInv DEF EvictOldest
  <2>3. CASE pc' = [pc EXCEPT ![a] = "remove"] /\ overrun' = overrun
    <3>1. Evicting' = Evicting
      BY <1>5, <2>3 DEF IInv, TypeOK, Evicting, EvictOldest
    <3> QED BY <1>5, <2>1, <2>3, <3>1, QuietKeepsIInv DEF EvictOldest
  <2> QED BY <1>5, <2>2, <2>3 DEF EvictOldest
<1>6. ASSUME NEW a \in Adders, EvictRemove(a) PROVE IInv'
  BY <1>6, EvictRemoveKeepsIInv
<1>7. ASSUME NEW id \in Ids, Remove(id) \/ \E v \in Values : Update(id, v)
      PROVE  IInv'
  BY <1>7, WritersKeepIInv
<1>8. ASSUME NEW snap \in Maps, NEW mode \in ImportModes, Import(snap, mode)
      PROVE  IInv'
  BY <1>8, ImportKeepsIInv
<1>9. CASE UNCHANGED vars
  BY <1>9 DEF IInv, vars, TypeOK, DriftBound, Present, Evicting
<1> QED
  BY <1>1, <1>2, <1>3, <1>4, <1>5, <1>6, <1>7, <1>8, <1>9 DEF Next

\* For any number of adders and any interleaving with Remove, Update and
\* Import, the tier is over capacity by at most the adds in flight, the
\* evictions that removed nothing and the items imported.
THEOREM BoundedDrift == Spec => []DriftBound
<1>1. IInv => DriftBound
  BY DEF IInv
<1> QED BY InitIInv, StepKeepsIInv, <1>1, PTL DEF Spec

\* The tier, the adders and the victims they hold keep their types, for any
\* adders, items and capacity.
THEOREM WorkingTypes == Spec => []TypeOK
<1>1. IInv => TypeOK
  BY DEF IInv
<1> QED BY InitIInv, StepKeepsIInv, <1>1, PTL DEF Spec

----------------------------------------------------------------------------
(* One adder.  A failed eviction is then harmless: whoever removed the     *)
(* victim first made the room.  The invariant says so at the one place     *)
(* where it matters, between the snapshot and the removal.                 *)

\* An adder for which nothing is left to remove.
Settled(a) == \/ pc[a] \in {"idle", "panic"}
              \/ pc[a] = "remove" /\ victim[a] \notin Present

\* The inductive invariant for a single adder.
SInv == /\ TypeOK
        /\ Cardinality(Present) <= Capacity + 1
        /\ \A a \in Adders : Settled(a) => Cardinality(Present) <= Capacity

\* A set of natural numbers that is not empty has a least element.
LEMMA LeastOf ==
    ASSUME NEW T, T \subseteq Nat, T # {}
    PROVE  \E x \in T : \A y \in T : x <= y
<1> DEFINE R == OpToRel(<, Nat)
<1>1. IsWellFoundedOn(R, Nat)
  BY NatLessThanWellFounded
<1>2. \A x, y \in Nat : x < y => <<x, y>> \in R
  BY DEF OpToRel
<1> HIDE DEF R
<1>3. PICK x \in T : \A y \in T : ~ (<<y, x>> \in R)
  BY <1>1, WFMin
<1>4. \A y \in T : ~ (y < x)
  BY <1>2, <1>3
<1>5. \A y \in T : x <= y
  BY <1>4
<1> QED BY <1>5

\* When every item is dated in the past, evictOldest finds one unless the
\* tier is empty.
LEMMA OldestExists ==
    ASSUME TypeOK, Present # {}, \A v \in Values : Created[v] < Now
    PROVE  Oldest # {}
<1> DEFINE Dates == {Created[items[id]] : id \in Present}
<1>1. \A id \in Present : items[id] \in Values
  BY DEF TypeOK, Maps, Present
<1>2. Dates \subseteq Nat /\ Dates # {}
  BY <1>1, ScoreAssumption
<1>3. PICK d \in Dates : \A e \in Dates : d <= e
  <2> HIDE DEF Dates
  <2> QED BY <1>2, LeastOf
<1>4. PICK id \in Present : d = Created[items[id]]
  OBVIOUS
<1>5. id \in Oldest
  BY <1>1, <1>3, <1>4 DEF Oldest
<1> QED BY <1>5

\* With one adder, no import and no item dated in the future, the tier is
\* within its capacity whenever no Add is in flight, whatever Remove and Update
\* do between the steps of the eviction and whether or not the probe can be
\* embedded.
THEOREM SerialAddsKeepCapacity ==
    ASSUME NEW only, Adders = {only}, ImportModes = {},
           \A v \in Values : Created[v] < Now
    PROVE  Spec => []CapacityAtRest
<1>1. Init => SInv
  <2> SUFFICES ASSUME Init PROVE SInv
    OBVIOUS
  <2>1. TypeOK
    BY InitIInv DEF IInv
  <2>2. Cardinality(Present) = 0
    <3>1. Present = {}
      BY DEF Init, Present
    <3> QED BY <3>1, FS_EmptySet
  <2> QED BY <2>1, <2>2, CapacityAssumption DEF SInv
<1>2. SInv /\ [Next]_vars => SInv'
  <2> SUFFICES ASSUME SInv, [Next]_vars PROVE SInv'
    OBVIOUS
  <2> DEFINE size == Cardinality(Present)
  <2>0. size \in Nat /\ IsFiniteSet(Present) /\ Present \subseteq Ids
    BY Finite DEF Present
  <2>1. size' \in Nat
    BY Finite DEF Present
  <2>2. ASSUME NEW id \in Ids, NEW v \in Values, Add(only, id, v) PROVE SInv'
    <3>1. TypeOK'
      BY <2>2, BoundAssumption DEF SInv, TypeOK, Add, Maps, Pcs
    <3>2. size <= Capacity
      BY <2>2 DEF SInv, Settled, Add
    <3>3. Present' \subseteq Present \cup {id}
      BY <2>2 DEF SInv, TypeOK, Maps, Present, Add
    <3>4. size' <= size + 1
      BY <2>0, <3>3, GrowsByOne
    <3>5. ~Settled(only)'
      BY <2>2 DEF SInv, TypeOK, Add, Settled
    <3> HIDE DEF size
    <3>6. size' <= Capacity + 1
      BY <2>0, <2>1, <3>2, <3>4, CapacityAssumption
    <3> QED BY <3>1, <3>5, <3>6 DEF SInv, size
  <2>3. ASSUME EvictCheck(only) PROVE SInv'
    <3>1. TypeOK' /\ Present' = Present
      BY <2>3 DEF SInv, TypeOK, EvictCheck, Pcs, Present
    <3>2. Settled(only)' => ~OverCapacity
      BY <2>3 DEF SInv, TypeOK, EvictCheck, Settled
    <3>3. Settled(only)' => size <= Capacity
      BY <2>0, <3>2, CapacityAssumption DEF OverCapacity
    <3> QED BY <3>1, <3>3 DEF SInv
  <2>4. ASSUME EvictEmbed(only) PROVE SInv'
    BY <2>4 DEF SInv, TypeOK, EvictEmbed, Pcs, Present, Settled
  <2>5. ASSUME EvictScan(only) PROVE SInv'
    <3>1. TypeOK' /\ Present' = Present
      BY <2>5 DEF SInv, TypeOK, EvictScan, Lowest, Present, Pcs
    <3>2. Settled(only)' => Present = {}
      BY <2>5 DEF SInv, TypeOK, EvictScan, Lowest, Settled, Present
    <3>3. Present = {} => size <= Capacity
      BY FS_EmptySet, CapacityAssumption
    <3> QED BY <3>1, <3>2, <3>3 DEF SInv
  <2>6. ASSUME EvictOldest(only) PROVE SInv'
    <3>1. TypeOK' /\ Present' = Present
      BY <2>6 DEF SInv, TypeOK, EvictOldest, Oldest, Present, Pcs
    <3>2. Settled(only)' => Oldest = {}
      BY <2>6 DEF SInv, TypeOK, EvictOldest, Oldest, Settled, Present
    <3>3. Oldest = {} => size <= Capacity
      BY OldestExists, FS_EmptySet, CapacityAssumption DEF SInv
    <3> QED BY <3>1, <3>2, <3>3 DEF SInv
  <2>7. ASSUME EvictRemove(only) PROVE SInv'
    <3>1. TypeOK' /\ Present' = Present \ {victim[only]}
      BY <2>7 DEF SInv, TypeOK, EvictRemove, Maps, Pcs, Present
    <3>2. CASE victim[only] \in Present
      <4>1. size' = size - 1
        BY <2>0, <3>1, <3>2, ShrinksByOne
      <4> HIDE DEF size
      <4>2. size' <= Capacity
        BY <2>0, <4>1, CapacityAssumption DEF SInv, size
      <4> QED BY <2>1, <3>1, <4>2, CapacityAssumption DEF SInv, size
    <3>3. CASE victim[only] \notin Present
      <4>1. Present' = Present
        BY <3>1, <3>3
      <4>2. size <= Capacity
        BY <2>7, <3>3 DEF SInv, Settled, EvictRemove
      <4> QED BY <3>1, <4>1, <4>2 DEF SInv
    <3> QED BY <3>2, <3>3
  <2>8. ASSUME NEW id \in Ids, Remove(id) PROVE SInv'
    <3>1. TypeOK' /\ Present' = Present \ {id} /\ id \in Present
      BY <2>8 DEF SInv, TypeOK, Remove, Maps, Present
    <3>2. size' = size - 1
      BY <2>0, <3>1, ShrinksByOne
    <3> HIDE DEF size
    <3>3. size' <= Capacity
      BY <2>0, <3>2, CapacityAssumption DEF SInv, size
    <3> QED BY <2>1, <3>1, <3>3, CapacityAssumption DEF SInv, size
  <2>9. ASSUME NEW id \in Ids, NEW v \in Values, Update(id, v) PROVE SInv'
    <3>1. TypeOK' /\ Present' = Present
      BY <2>9, NilAssumption DEF SInv, TypeOK, Update, Maps, Present
    <3> QED BY <2>9, <3>1 DEF SInv, Settled, Update
  <2>10. CASE UNCHANGED vars
    BY <2>10 DEF SInv, TypeOK, Settled, Present, vars
  <2> QED
    BY <2>2, <2>3, <2>4, <2>5, <2>6, <2>7, <2>8, <2>9, <2>10 DEF Next
<1>3. SInv => CapacityAtRest
  <2> SUFFICES ASSUME SInv, Evicting = {} PROVE Cardinality(Present) <= Capacity
    BY DEF CapacityAtRest
  <2>1. Settled(only)
    BY DEF SInv, TypeOK, Pcs, Evicting, Settled
  <2> QED BY <2>1 DEF SInv
<1> QED BY <1>1, <1>2, <1>3, PTL DEF Spec

----------------------------------------------------------------------------
(* The writes through a policy.                                            *)

\* The stage of the working tier's chain after which everything is clean.
CleanStage == CHOOSE i \in 1..Len(Chain["working"]) : Cleans(i)

\* How a write that is on its way looks.
WriteShape ==
    \A a \in Adders : write[a] # Nil =>
        /\ write[a].stage = 0 => ~write[a].stored
        /\ write[a].stage > 0 => /\ write[a].verdict \in Allowing
                                 /\ write[a].kind \in Wired
        /\ write[a].via = "manager" => write[a].verdict = "accept" /\ ~write[a].stored

\* From where on its item is clean.
WriteClean ==
    \A a \in Adders : write[a] # Nil /\ write[a].stage > 0 =>
        /\ write[a].via = "policy" => write[a].item \in Clean[write[a].kind]
        /\ write[a].kind = "working" /\ write[a].stage > CleanStage =>
              write[a].item \in Clean["working"]

\* The inductive invariant.
PolicyInv == PolicyTypeOK /\ WriteShape /\ WriteClean /\ OnlyCleanAdded /\ HeardOnce

LEMMA CleanStageCleans == CleanStage \in 1..Len(Chain["working"]) /\ Cleans(CleanStage)
BY ChainAssumption DEF CleanStage

\* What a stage of a chain answers.
LEMMA StageAnswers ==
    ASSUME NEW k \in Wired, NEW i \in 1..Len(Chain[k]), NEW x \in Values
    PROVE  Chain[k][i][x] \in Values \cup {Dropped, Failed}
BY CleanAssumption DEF Stages, Answers

\* Only one adder's write changes, so only whether that one owes an event does.
LEMMA OthersOwe ==
    ASSUME PolicyTypeOK, NEW a \in Adders, NEW w, write' = [write EXCEPT ![a] = w],
           NEW e \in Events
    PROVE  /\ Owing(e)' = IF Owes(w, e) THEN Owing(e) \cup {a} ELSE Owing(e) \ {a}
           /\ a \in Owing(e) <=> Owes(write[a], e)
           /\ IsFiniteSet(Owing(e)) /\ Cardinality(Owing(e)) \in Nat
<1>1. \A b \in Adders : write'[b] = IF b = a THEN w ELSE write[b]
  BY DEF PolicyTypeOK
<1>2. Owing(e)' = {b \in Adders : Owes(write'[b], e)}
  BY DEF Owing, Owes
<1>3. Owing(e) \subseteq Adders
  BY DEF Owing
<1>4. CASE Owes(w, e)
  BY <1>1, <1>2, <1>3, <1>4, Finite DEF Owing
<1>5. CASE ~Owes(w, e)
  BY <1>1, <1>2, <1>3, <1>5, Finite DEF Owing
<1> QED BY <1>4, <1>5

\* Nothing is owed, before or after.
LEMMA OwingStays ==
    ASSUME PolicyTypeOK, HeardOnce, NEW a \in Adders, NEW w,
           write' = [write EXCEPT ![a] = w], UNCHANGED balance,
           \A f \in Events : ~Owes(w, f),
           \A f \in Events : ~Owes(write[a], f)
    PROVE  HeardOnce'
<1> SUFFICES ASSUME NEW f \in Events PROVE balance'[f] = Cardinality(Owing(f)')
  BY DEF HeardOnce
<1>1. Owing(f)' = Owing(f) \ {a} /\ a \notin Owing(f)
  BY OthersOwe
<1>2. Owing(f)' = Owing(f)
  BY <1>1
<1> QED BY <1>2 DEF HeardOnce

\* The write comes to owe one event, which is due from now on.
LEMMA OwingGrows ==
    ASSUME PolicyTypeOK, HeardOnce, NEW a \in Adders, NEW w, NEW e \in Events,
           write' = [write EXCEPT ![a] = w], Due(e[1], e[2]),
           \A f \in Events : Owes(w, f) <=> f = e,
           \A f \in Events : ~Owes(write[a], f)
    PROVE  HeardOnce' /\ balance' \in [Events -> Int]
<1>1. e = <<e[1], e[2]>>
  BY DEF Events
<1>2. balance' = [balance EXCEPT ![e] = @ + 1]
  BY <1>1 DEF Due
<1>3. ASSUME NEW f \in Events PROVE balance'[f] = Cardinality(Owing(f)')
  <2>1. balance[f] = Cardinality(Owing(f)) /\ Cardinality(Owing(f)) \in Nat
        /\ IsFiniteSet(Owing(f)) /\ a \notin Owing(f)
    BY OthersOwe DEF HeardOnce
  <2>2. CASE f = e
    <3>1. Owing(f)' = Owing(f) \cup {a}
      BY <2>2, OthersOwe
    <3>2. Cardinality(Owing(f)') = Cardinality(Owing(f)) + 1
      BY <2>1, <3>1, GrowsExactly
    <3> QED BY <1>2, <2>1, <2>2, <3>2 DEF PolicyTypeOK
  <2>3. CASE f # e
    <3>1. Owing(f)' = Owing(f) \ {a}
      BY <2>3, OthersOwe
    <3>2. Owing(f)' = Owing(f)
      BY <2>1, <3>1
    <3> QED BY <1>2, <2>1, <2>3, <3>2 DEF PolicyTypeOK
  <2> QED BY <2>2, <2>3
<1> QED BY <1>2, <1>3 DEF HeardOnce, PolicyTypeOK

\* The one event that was due is heard, and nothing is owed any more.
LEMMA OwingShrinks ==
    ASSUME PolicyTypeOK, HeardOnce, NEW a \in Adders, NEW w, NEW e \in Events,
           write' = [write EXCEPT ![a] = w], Emit(e[1], e[2]),
           \A f \in Events : ~Owes(w, f),
           \A f \in Events : Owes(write[a], f) <=> f = e
    PROVE  HeardOnce' /\ balance' \in [Events -> Int]
<1>1. e = <<e[1], e[2]>>
  BY DEF Events
<1>2. balance' = [balance EXCEPT ![e] = @ - 1]
  BY <1>1 DEF Emit
<1>3. ASSUME NEW f \in Events PROVE balance'[f] = Cardinality(Owing(f)')
  <2>1. balance[f] = Cardinality(Owing(f)) /\ Cardinality(Owing(f)) \in Nat
        /\ IsFiniteSet(Owing(f)) /\ Owing(f)' = Owing(f) \ {a}
    BY OthersOwe DEF HeardOnce
  <2>2. CASE f = e
    <3>1. a \in Owing(f)
      BY <2>2, OthersOwe
    <3>2. Cardinality(Owing(f)') = Cardinality(Owing(f)) - 1
      BY <2>1, <3>1, ShrinksByOne
    <3> QED BY <1>2, <2>1, <2>2, <3>2 DEF PolicyTypeOK
  <2>3. CASE f # e
    <3>1. a \notin Owing(f)
      BY <2>3, OthersOwe
    <3>2. Owing(f)' = Owing(f)
      BY <2>1, <3>1
    <3> QED BY <1>2, <2>1, <2>3, <3>2 DEF PolicyTypeOK
  <2> QED BY <2>2, <2>3
<1> QED BY <1>2, <1>3 DEF HeardOnce, PolicyTypeOK

\* The tiers and the history of them are not touched.
LEMMA TiersUntouched ==
    ASSUME OnlyCleanAdded, UNCHANGED <<items, filed, bypassed>>
    PROVE  OnlyCleanAdded'
BY DEF OnlyCleanAdded, Present

\* A write begins: with the policy's decision, or a caller's own item.
LEMMA BeginKeeps ==
    ASSUME PolicyInv, NEW a \in Adders, NEW how \in {"policy", "manager"},
           NEW verdict \in Verdicts, NEW k \in Kinds, NEW v \in Values,
           Begin(a, how, verdict, k, v),
           how = "manager" => verdict = "accept",
           how = "policy" /\ verdict \in Allowing => v \in Clean[k]
    PROVE  /\ write' \in [Adders -> Writes \cup {Nil}]
           /\ WriteShape' /\ WriteClean' /\ OnlyCleanAdded'
<1> USE DEF PolicyInv
<1> DEFINE w == [via |-> how, verdict |-> verdict, kind |-> k, item |-> v,
                 stage |-> IF verdict \in Allowing /\ k \in Wired THEN 1 ELSE 0,
                 stored |-> FALSE]
<1>1. w \in Writes /\ write' = [write EXCEPT ![a] = w]
  BY DEF Begin, Writes
<1>2. write' \in [Adders -> Writes \cup {Nil}]
  BY <1>1 DEF PolicyTypeOK
<1>3. WriteShape'
  BY <1>1 DEF WriteShape, PolicyTypeOK
<1>4. w.stage <= 1
  OBVIOUS
<1>5. ~(w.stage > CleanStage)
  BY <1>4, CleanStageCleans
<1>6. w.stage > 0 => w.verdict \in Allowing
  OBVIOUS
<1>7. WriteClean'
  <2> SUFFICES ASSUME NEW b \in Adders, write'[b] # Nil, write'[b].stage > 0
               PROVE  /\ write'[b].via = "policy" => write'[b].item \in Clean[write'[b].kind]
                      /\ write'[b].kind = "working" /\ write'[b].stage > CleanStage =>
                            write'[b].item \in Clean["working"]
    BY DEF WriteClean
  <2>1. CASE b = a
    <3>1. write'[b] = w
      BY <1>1, <2>1 DEF PolicyTypeOK
    <3> QED BY <1>5, <1>6, <3>1
  <2>2. CASE b # a
    <3>1. write'[b] = write[b]
      BY <1>1, <2>2 DEF PolicyTypeOK
    <3> QED BY <3>1 DEF WriteClean
  <2> QED BY <2>1, <2>2
<1>8. OnlyCleanAdded'
  BY TiersUntouched DEF Begin, vars
<1> QED BY <1>2, <1>3, <1>7, <1>8

LEMMA ProposeKeeps ==
    ASSUME PolicyInv, NEW a \in Adders, NEW s \in Sources, NEW k \in Kinds,
           NEW v \in Values, Propose(a, s, k, v)
    PROVE  PolicyInv'
<1> DEFINE d == Policy[<<s, k, v>>]
<1>1. d \in Decisions /\ (d.verdict \in Allowing => d.item \in Clean[d.kind])
  BY PolicyAssumption, CleanAssumption
<1>2. write[a] = Nil /\ (\A e \in Events : ~Owes(write[a], e))
  BY DEF Propose, Begin, Free, Owes
<1>3. UNCHANGED <<vars, filed, bypassed, unheard>>
  BY DEF Propose, Begin
<1>4. CASE d.verdict = "reject"
  <2> DEFINE w == [via |-> "policy", verdict |-> "reject", kind |-> k, item |-> v,
                   stage |-> 0, stored |-> FALSE]
  <2>1. Begin(a, "policy", "reject", k, v) /\ Due("reject", k)
    BY <1>4 DEF Propose
  <2>2. write' = [write EXCEPT ![a] = w]
    BY <2>1 DEF Begin, Allowing
  <2>3. /\ write' \in [Adders -> Writes \cup {Nil}]
        /\ WriteShape' /\ WriteClean' /\ OnlyCleanAdded'
    BY <2>1, BeginKeeps DEF Verdicts, Allowing
  <2>4. <<"reject", k>> \in Events
    BY DEF Events
  <2>5. w \in Writes
    BY DEF Writes, Verdicts
  <2>6. w # Nil
    BY <2>5, WriteAssumption
  <2>7. \A e \in Events : Owes(w, e) <=> e = <<"reject", k>>
    BY <2>6 DEF Owes, Events
  <2>8. HeardOnce' /\ balance' \in [Events -> Int]
    BY <1>2, <2>1, <2>2, <2>4, <2>7, OwingGrows DEF PolicyInv
  <2>9. PolicyTypeOK'
    BY <1>3, <2>3, <2>8 DEF PolicyInv, PolicyTypeOK
  <2> QED BY <2>3, <2>8, <2>9 DEF PolicyInv
<1>5. CASE d.verdict # "reject"
  <2>1. Begin(a, "policy", d.verdict, d.kind, d.item) /\ UNCHANGED balance
    BY <1>5 DEF Propose
  <2>2. /\ write' \in [Adders -> Writes \cup {Nil}]
        /\ WriteShape' /\ WriteClean' /\ OnlyCleanAdded'
    BY <1>1, <2>1, BeginKeeps DEF Decisions
  <2> DEFINE w == [via |-> "policy", verdict |-> d.verdict, kind |-> d.kind,
                   item |-> d.item,
                   stage |-> IF d.verdict \in Allowing /\ d.kind \in Wired THEN 1 ELSE 0,
                   stored |-> FALSE]
  <2>3. write' = [write EXCEPT ![a] = w]
    BY <2>1 DEF Begin
  <2>4. \A e \in Events : ~Owes(w, e)
    BY <1>5 DEF Owes
  <2>5. HeardOnce'
    BY <1>2, <2>1, <2>3, <2>4, OwingStays DEF PolicyInv
  <2>6. PolicyTypeOK'
    BY <1>3, <2>1, <2>2 DEF PolicyInv, PolicyTypeOK
  <2> QED BY <2>2, <2>5, <2>6 DEF PolicyInv
<1> QED BY <1>4, <1>5

LEMMA ManagerAddKeeps ==
    ASSUME PolicyInv, NEW a \in Adders, NEW k \in Kinds, NEW v \in Values,
           ManagerAdd(a, k, v)
    PROVE  PolicyInv'
<1>1. Begin(a, "manager", "accept", k, v) /\ UNCHANGED balance
  BY DEF ManagerAdd
<1>2. /\ write' \in [Adders -> Writes \cup {Nil}]
      /\ WriteShape' /\ WriteClean' /\ OnlyCleanAdded'
  BY <1>1, BeginKeeps DEF Verdicts
<1> DEFINE w == [via |-> "manager", verdict |-> "accept", kind |-> k, item |-> v,
                 stage |-> IF "accept" \in Allowing /\ k \in Wired THEN 1 ELSE 0,
                 stored |-> FALSE]
<1>3. write' = [write EXCEPT ![a] = w]
  BY <1>1 DEF Begin
<1>4. (\A e \in Events : ~Owes(w, e)) /\ (\A e \in Events : ~Owes(write[a], e))
  BY <1>1 DEF Owes, Begin, Free
<1>5. HeardOnce'
  BY <1>1, <1>3, <1>4, OwingStays DEF PolicyInv
<1>6. PolicyTypeOK'
  BY <1>1, <1>2 DEF PolicyInv, PolicyTypeOK, Begin
<1> QED BY <1>2, <1>5, <1>6 DEF PolicyInv

\* A write that returns leaves the other writes as they are.
LEMMA ReturnKeeps ==
    ASSUME PolicyInv, NEW a \in Adders, Return(a)
    PROVE  /\ write' \in [Adders -> Writes \cup {Nil}]
           /\ WriteShape' /\ WriteClean'
<1>1. write' = [write EXCEPT ![a] = Nil]
  BY DEF Return
<1> QED BY <1>1 DEF PolicyInv, PolicyTypeOK, WriteShape, WriteClean

\* A write whose event is heard, or that owes none, returns.
LEMMA EventKeeps ==
    ASSUME PolicyInv, NEW a \in Adders, NEW e \in Events,
           Return(a), UNCHANGED <<filed, bypassed>>, OnlyCleanAdded',
           unheard' \subseteq Events,
           \/ /\ Emit(e[1], e[2])
              /\ \A f \in Events : Owes(write[a], f) <=> f = e
           \/ /\ UNCHANGED balance
              /\ \A f \in Events : ~Owes(write[a], f)
    PROVE  PolicyInv'
<1>1. write' = [write EXCEPT ![a] = Nil] /\ (\A f \in Events : ~Owes(Nil, f))
  BY DEF Return, Owes
<1>2. HeardOnce' /\ balance' \in [Events -> Int]
  <2>1. CASE UNCHANGED balance /\ \A f \in Events : ~Owes(write[a], f)
    BY <1>1, <2>1, OwingStays DEF PolicyInv, PolicyTypeOK
  <2>2. CASE Emit(e[1], e[2]) /\ \A f \in Events : Owes(write[a], f) <=> f = e
    BY <1>1, <2>2, OwingShrinks DEF PolicyInv
  <2> QED BY <2>1, <2>2
<1>3. PolicyTypeOK'
  BY <1>2, ReturnKeeps DEF PolicyInv, PolicyTypeOK
<1> QED BY <1>2, <1>3, ReturnKeeps DEF PolicyInv

\* A write that is stopped owes no event.
LEMMA StopKeeps ==
    ASSUME PolicyInv, NEW a \in Adders, write[a] \in Writes,
           Stop(a), UNCHANGED <<filed, bypassed>>, OnlyCleanAdded',
           \A f \in Events : ~Owes(write[a], f)
    PROVE  PolicyInv'
<1>1. Return(a) /\ UNCHANGED balance
  BY DEF Stop
<1>2. unheard' \subseteq Events
  BY DEF Stop, PolicyInv, PolicyTypeOK, Events, Allowing, Writes
<1>3. <<"reject", write[a].kind>> \in Events
  BY DEF Writes, Events
<1> QED BY <1>1, <1>2, <1>3, EventKeeps

LEMMA RefuseKeeps ==
    ASSUME PolicyInv, NEW a \in Adders, Refuse(a)
    PROVE  PolicyInv'
<1> DEFINE w == write[a]
<1>1. w \in Writes /\ w # Nil /\ w.stage = 0 /\ ~w.stored
  BY DEF PolicyInv, PolicyTypeOK, WriteShape, Refuse, Refused
<1>2. OnlyCleanAdded'
  BY TiersUntouched DEF PolicyInv, Refuse, vars
<1>3. UNCHANGED <<filed, bypassed>>
  BY DEF Refuse
<1>4. CASE w.verdict = "reject"
  <2>1. <<"reject", w.kind>> \in Events
    BY <1>1 DEF Writes, Events
  <2>2. w.via = "policy"
    BY <1>1, <1>4 DEF PolicyInv, WriteShape, Writes
  <2>3. \A f \in Events : Owes(w, f) <=> f = <<"reject", w.kind>>
    BY <1>1, <1>4, <2>2 DEF Owes, Events
  <2>4. Emit("reject", w.kind) /\ Return(a) /\ unheard' \subseteq Events
    BY <1>4 DEF Refuse, PolicyInv, PolicyTypeOK
  <2> QED BY <1>2, <1>3, <2>1, <2>3, <2>4, EventKeeps
<1>5. CASE w.verdict # "reject"
  <2>1. \A f \in Events : ~Owes(w, f)
    BY <1>1, <1>5 DEF Owes
  <2>2. Stop(a)
    BY <1>5 DEF Refuse
  <2> QED BY <1>1, <1>2, <1>3, <2>1, <2>2, StopKeeps
<1> QED BY <1>4, <1>5

\* A write in the chain owes nothing yet.
LEMMA InChainOwesNothing ==
    ASSUME PolicyInv, NEW a \in Adders, InChain(a)
    PROVE  /\ write[a] \in Writes /\ write[a] # Nil /\ write[a].stage \in Nat \ {0}
           /\ write[a].kind \in Wired /\ write[a].verdict \in Allowing
           /\ \A e \in Events : ~Owes(write[a], e)
<1>1. write[a] \in Writes /\ write[a] # Nil /\ write[a].stage \in Nat \ {0}
  BY DEF PolicyInv, PolicyTypeOK, InChain, Writes
<1>2. write[a].kind \in Wired /\ write[a].verdict \in Allowing
  BY <1>1 DEF PolicyInv, WriteShape
<1>3. \A e \in Events : ~Owes(write[a], e)
  BY <1>2 DEF Owes, InChain, Allowing
<1> QED BY <1>1, <1>2, <1>3

\* What a stage that keeps the item changes of a write.
LEMMA NextStage ==
    ASSUME NEW w \in Writes, NEW v \in Values
    PROVE  LET x == [w EXCEPT !.stage = @ + 1, !.item = v]
           IN  /\ x \in Writes /\ x.stage = w.stage + 1 /\ x.item = v /\ x.kind = w.kind
               /\ x.via = w.via /\ x.verdict = w.verdict /\ x.stored = w.stored
<1> DEFINE y == [w EXCEPT !.stage = w.stage + 1]
           x == [y EXCEPT !.item = v]
<1>1. /\ y \in Writes /\ y.stage = w.stage + 1 /\ y.kind = w.kind
      /\ y.via = w.via /\ y.verdict = w.verdict /\ y.stored = w.stored
  BY DEF Writes
<1>2. /\ x \in Writes /\ x.stage = y.stage /\ x.item = v /\ x.kind = y.kind
      /\ x.via = y.via /\ x.verdict = y.verdict /\ x.stored = y.stored
  <2> HIDE DEF y
  <2> QED BY <1>1 DEF Writes
<1>3. x = [w EXCEPT !.stage = @ + 1, !.item = v]
  OBVIOUS
<1> QED BY <1>1, <1>2, <1>3

\* One stage: a clean item stays clean, and the cleaning stage makes it so.
LEMMA SanitizeKeepsInv ==
    ASSUME PolicyInv, NEW a \in Adders, Sanitize(a)
    PROVE  PolicyInv'
<1> DEFINE w == write[a]
           answer == Chain[w.kind][w.stage][w.item]
           x == [w EXCEPT !.stage = @ + 1, !.item = answer]
<1>1. /\ w \in Writes /\ w # Nil /\ w.stage \in Nat \ {0}
      /\ w.kind \in Wired /\ w.verdict \in Allowing
      /\ \A e \in Events : ~Owes(w, e)
  BY InChainOwesNothing DEF Sanitize
<1>2. UNCHANGED <<vars, filed, bypassed>> /\ OnlyCleanAdded'
  BY TiersUntouched DEF PolicyInv, Sanitize, vars
<1>3. w.stage \in 1..Len(Chain[w.kind])
  <2>1. w.stage <= Len(Chain[w.kind])
    BY DEF Sanitize, More
  <2>2. Len(Chain[w.kind]) \in Nat
    BY <1>1, CleanAssumption
  <2> QED BY <1>1, <2>1, <2>2
<1>4. CASE answer \in {Dropped, Failed}
  <2>1. Stop(a)
    BY <1>4 DEF Sanitize
  <2> QED BY <1>1, <1>2, <2>1, StopKeeps
<1>5. CASE answer \notin {Dropped, Failed}
  <2>1. write' = [write EXCEPT ![a] = x] /\ UNCHANGED <<balance, unheard>>
    BY <1>5 DEF Sanitize, PolicyInv, PolicyTypeOK
  <2>2. answer \in Values
    BY <1>1, <1>3, <1>5, StageAnswers DEF Writes
  <2>3. x \in Writes /\ x.stage = w.stage + 1 /\ x.item = answer /\ x.kind = w.kind
        /\ x.via = w.via /\ x.verdict = w.verdict /\ x.stored = w.stored
    BY <1>1, <2>2, NextStage
  <2>4. write' \in [Adders -> Writes \cup {Nil}]
    BY <2>1, <2>3 DEF PolicyInv, PolicyTypeOK
  <2>5. \A b \in Adders : write'[b] = IF b = a THEN x ELSE write[b]
    BY <2>1 DEF PolicyInv, PolicyTypeOK
  <2>6. WriteShape'
    <3>1. x.stage # 0
      BY <1>1, <2>3
    <3> QED BY <1>1, <2>3, <2>5, <3>1 DEF PolicyInv, WriteShape
  <2>7. x.via = "policy" => x.item \in Clean[x.kind]
    BY <1>1, <1>3, <1>5, <2>3, CleanAssumption DEF PolicyInv, WriteClean
  <2>8. x.kind = "working" /\ x.stage > CleanStage => x.item \in Clean["working"]
    <3> SUFFICES ASSUME w.kind = "working", w.stage + 1 > CleanStage
                 PROVE  answer \in Clean["working"]
      BY <2>3
    <3>1. CASE w.stage = CleanStage
      BY <1>1, <1>5, <3>1, CleanStageCleans DEF Cleans, Writes
    <3>2. CASE w.stage > CleanStage
      BY <1>1, <1>3, <1>5, <3>2, CleanAssumption DEF PolicyInv, WriteClean
    <3>3. w.stage = CleanStage \/ w.stage > CleanStage
      BY <1>1, CleanStageCleans, CleanAssumption, WiredAssumption
    <3> QED BY <3>1, <3>2, <3>3
  <2>9. WriteClean'
    BY <2>5, <2>7, <2>8 DEF PolicyInv, WriteClean
  <2>10. \A e \in Events : ~Owes(x, e)
    BY <1>1, <2>3 DEF Owes
  <2>11. HeardOnce'
    BY <1>1, <1>2, <2>1, <2>10, OwingStays DEF PolicyInv
  <2>12. PolicyTypeOK'
    BY <1>2, <2>1, <2>4 DEF PolicyInv, PolicyTypeOK
  <2> QED BY <1>2, <2>6, <2>9, <2>11, <2>12 DEF PolicyInv
<1> QED BY <1>4, <1>5

\* A write that has been through the chain is clean if it is for the working
\* tier, or comes from the policy.
LEMMA ThroughIsClean ==
    ASSUME PolicyInv, NEW a \in Adders, InChain(a), ~More(a)
    PROVE  write[a].via = "policy" \/ write[a].kind = "working" =>
              write[a].item \in Clean[write[a].kind]
<1>1. write[a] \in Writes /\ write[a] # Nil /\ write[a].stage \in Nat \ {0}
      /\ write[a].kind \in Wired
  BY InChainOwesNothing
<1>2. Len(Chain[write[a].kind]) \in Nat
  BY <1>1, CleanAssumption
<1>3. write[a].stage > Len(Chain[write[a].kind])
  BY <1>1, <1>2 DEF More
<1>4. write[a].kind = "working" => write[a].stage > CleanStage
  BY <1>1, <1>2, <1>3, CleanStageCleans
<1> QED BY <1>1, <1>4 DEF PolicyInv, WriteClean

\* The tier has stored a write: the policy's owes its event from now on.
LEMMA StoredKeeps ==
    ASSUME PolicyInv, NEW a \in Adders, InChain(a), Stored(a),
           OnlyCleanAdded', filed' \in [Others -> SUBSET Values], bypassed' \subseteq Ids,
           UNCHANGED unheard
    PROVE  PolicyInv'
<1> DEFINE w == write[a]
           x == [w EXCEPT !.stored = TRUE]
           e == <<w.verdict, w.kind>>
<1>1. /\ w \in Writes /\ w # Nil /\ w.stage \in Nat \ {0}
      /\ w.kind \in Wired /\ w.verdict \in Allowing
      /\ \A f \in Events : ~Owes(w, f)
  BY InChainOwesNothing
<1>2. e \in Events
  BY <1>1 DEF Events, Allowing, Writes
<1>3. CASE w.via = "policy"
  <2>1. write' = [write EXCEPT ![a] = x] /\ Due(w.verdict, w.kind)
    BY <1>3 DEF Stored, PolicyInv, PolicyTypeOK
  <2>2. x \in Writes /\ x.stored /\ x.verdict = w.verdict /\ x.kind = w.kind
        /\ x.via = "policy" /\ x.item = w.item /\ x.stage = w.stage
    BY <1>1, <1>3 DEF Writes
  <2>3. \A b \in Adders : write'[b] = IF b = a THEN x ELSE write[b]
    BY <2>1 DEF PolicyInv, PolicyTypeOK
  <2>4. WriteShape'
    BY <1>1, <2>2, <2>3 DEF PolicyInv, WriteShape
  <2>5. WriteClean'
    <3> HIDE DEF x
    <3>1. w.stage > 0
      BY <1>1
    <3>2. /\ x.via = "policy" => x.item \in Clean[x.kind]
          /\ x.kind = "working" /\ x.stage > CleanStage => x.item \in Clean["working"]
      BY <1>1, <1>3, <2>2, <3>1 DEF PolicyInv, WriteClean
    <3> QED BY <2>3, <3>2 DEF PolicyInv, WriteClean
  <2>6. x # Nil
    BY <2>2, WriteAssumption
  <2>7. \A f \in Events : Owes(x, f) <=> f = e
    BY <2>2, <2>6 DEF Owes, Events
  <2>8. HeardOnce' /\ balance' \in [Events -> Int]
    BY <1>1, <1>2, <2>1, <2>7, OwingGrows DEF PolicyInv
  <2>9. PolicyTypeOK'
    BY <2>1, <2>2, <2>8 DEF PolicyInv, PolicyTypeOK
  <2> QED BY <2>4, <2>5, <2>8, <2>9 DEF PolicyInv
<1>4. CASE w.via # "policy"
  <2>1. Return(a) /\ UNCHANGED balance
    BY <1>4 DEF Stored
  <2>2. write' = [write EXCEPT ![a] = Nil] /\ (\A f \in Events : ~Owes(Nil, f))
    BY <2>1 DEF Return, Owes
  <2>3. HeardOnce'
    BY <1>1, <2>1, <2>2, OwingStays DEF PolicyInv
  <2>4. PolicyTypeOK'
    BY <2>1, ReturnKeeps DEF PolicyInv, PolicyTypeOK
  <2> QED BY <2>1, <2>3, <2>4, ReturnKeeps DEF PolicyInv
<1> QED BY <1>3, <1>4

LEMMA StoreWorkingKeeps ==
    ASSUME PolicyInv, TypeOK, NEW a \in Adders, NEW id \in Ids, StoreWorking(a, id)
    PROVE  PolicyInv'
<1>1. InChain(a) /\ Stored(a) /\ bypassed' = bypassed \ {id} /\ UNCHANGED <<filed, unheard>>
  BY DEF StoreWorking
<1>2. write[a].item \in Clean["working"]
  BY ThroughIsClean DEF StoreWorking
<1>3. items' = [items EXCEPT ![id] = write[a].item]
  BY DEF StoreWorking, Add
<1>4. OnlyCleanAdded'
  BY <1>1, <1>2, <1>3 DEF PolicyInv, OnlyCleanAdded, Present, TypeOK, Maps
<1> QED BY <1>1, <1>4, StoredKeeps DEF PolicyInv, PolicyTypeOK

LEMMA StoreOtherKeeps ==
    ASSUME PolicyInv, NEW a \in Adders, StoreOther(a)
    PROVE  PolicyInv'
<1> DEFINE w == write[a]
<1>1. InChain(a) /\ Stored(a) /\ UNCHANGED <<items, bypassed, unheard>>
  BY DEF StoreOther, vars
<1>2. w \in Writes /\ w.kind \in Others
  BY <1>1, InChainOwesNothing DEF StoreOther, Others
<1>3. w.via = "policy" => w.item \in Clean[w.kind]
  BY ThroughIsClean DEF StoreOther
<1>4. filed' \in [Others -> SUBSET Values]
  BY <1>2 DEF StoreOther, PolicyInv, PolicyTypeOK, Writes
<1>5. \A k \in Others : filed'[k] \subseteq Clean[k]
  BY <1>2, <1>3 DEF StoreOther, PolicyInv, PolicyTypeOK, OnlyCleanAdded
<1>6. OnlyCleanAdded'
  BY <1>1, <1>5 DEF PolicyInv, OnlyCleanAdded, Present
<1> QED BY <1>1, <1>4, <1>6, StoredKeeps DEF PolicyInv, PolicyTypeOK

LEMMA StoreFailsKeeps ==
    ASSUME PolicyInv, NEW a \in Adders, StoreFails(a)
    PROVE  PolicyInv'
<1>1. InChain(a) /\ Stop(a) /\ UNCHANGED <<items, filed, bypassed>>
  BY DEF StoreFails, vars
<1>2. OnlyCleanAdded'
  BY <1>1, TiersUntouched DEF PolicyInv
<1> QED BY <1>1, <1>2, InChainOwesNothing, StopKeeps

LEMMA ReportKeeps ==
    ASSUME PolicyInv, NEW a \in Adders, Report(a)
    PROVE  PolicyInv'
<1> DEFINE w == write[a]
           e == <<w.verdict, w.kind>>
<1>1. w \in Writes /\ w # Nil /\ w.stored
  BY DEF Report, PolicyInv, PolicyTypeOK
<1>2. w.via = "policy" /\ w.stage > 0 /\ w.verdict \in Allowing
  BY <1>1 DEF PolicyInv, WriteShape, Writes
<1>3. e \in Events
  BY <1>1, <1>2 DEF Events, Allowing, Writes
<1>4. \A f \in Events : Owes(w, f) <=> f = e
  BY <1>1, <1>2 DEF Owes, Events
<1>5. Return(a) /\ Emit(w.verdict, w.kind) /\ UNCHANGED <<items, filed, bypassed>>
      /\ unheard' \subseteq Events
  BY DEF Report, vars, PolicyInv, PolicyTypeOK
<1>6. OnlyCleanAdded'
  BY <1>5, TiersUntouched DEF PolicyInv
<1> QED BY <1>3, <1>4, <1>5, <1>6, EventKeeps

\* Evictions, removals, updates and imports: what they leave unclean they, or
\* one of them before, wrote past the chain.
LEMMA PastTheChainKeeps ==
    ASSUME PolicyInv, bypassed' = PastTheChain,
           UNCHANGED <<write, filed, balance, unheard>>
    PROVE  PolicyInv'
<1>1. PolicyTypeOK'
  BY DEF PolicyInv, PolicyTypeOK, PastTheChain
<1>2. WriteShape' /\ WriteClean' /\ HeardOnce'
  BY DEF PolicyInv, WriteShape, WriteClean, HeardOnce, Owing, Owes
<1>3. \A id \in Present' \ bypassed' : items'[id] \in Clean["working"]
  BY DEF PolicyInv, OnlyCleanAdded, PastTheChain, Present
<1>4. OnlyCleanAdded'
  BY <1>3 DEF PolicyInv, OnlyCleanAdded
<1> QED BY <1>1, <1>2, <1>4 DEF PolicyInv

LEMMA PolicyStep == TypeOK /\ PolicyInv /\ [PolicyNext]_allVars => PolicyInv'
<1> SUFFICES ASSUME TypeOK, PolicyInv, [PolicyNext]_allVars PROVE PolicyInv'
  OBVIOUS
<1>1. ASSUME NEW a \in Adders, NEW s \in Sources, NEW k \in Kinds, NEW v \in Values,
             Propose(a, s, k, v)
      PROVE  PolicyInv'
  BY <1>1, ProposeKeeps
<1>2. ASSUME NEW a \in Adders, NEW k \in Kinds, NEW v \in Values, ManagerAdd(a, k, v)
      PROVE  PolicyInv'
  BY <1>2, ManagerAddKeeps
<1>3. ASSUME NEW a \in Adders, Refuse(a) PROVE PolicyInv'
  BY <1>3, RefuseKeeps
<1>4. ASSUME NEW a \in Adders, Sanitize(a) PROVE PolicyInv'
  BY <1>4, SanitizeKeepsInv
<1>5. ASSUME NEW a \in Adders, NEW id \in Ids, StoreWorking(a, id) PROVE PolicyInv'
  BY <1>5, StoreWorkingKeeps
<1>6. ASSUME NEW a \in Adders, StoreOther(a) PROVE PolicyInv'
  BY <1>6, StoreOtherKeeps
<1>7. ASSUME NEW a \in Adders, StoreFails(a) PROVE PolicyInv'
  BY <1>7, StoreFailsKeeps
<1>8. ASSUME NEW a \in Adders, Report(a) PROVE PolicyInv'
  BY <1>8, ReportKeeps
<1>9. ASSUME NEW a \in Adders, Evict(a) PROVE PolicyInv'
  BY <1>9, PastTheChainKeeps DEF Evict
<1>10. ASSUME NEW id \in Ids, RemoveItem(id) PROVE PolicyInv'
  BY <1>10, PastTheChainKeeps DEF RemoveItem
<1>11. ASSUME NEW id \in Ids, NEW v \in Values, UpdateItem(id, v) PROVE PolicyInv'
  BY <1>11, PastTheChainKeeps DEF UpdateItem
<1>12. ASSUME NEW snap \in Maps, NEW mode \in ImportModes, ImportItems(snap, mode)
       PROVE  PolicyInv'
  BY <1>12, PastTheChainKeeps DEF ImportItems
<1>13. CASE UNCHANGED allVars
  BY <1>13 DEF allVars, vars, polVars, PolicyInv, PolicyTypeOK, WriteShape, WriteClean,
               OnlyCleanAdded, Present, HeardOnce, Owing, Owes
<1> QED
  BY <1>1, <1>2, <1>3, <1>4, <1>5, <1>6, <1>7, <1>8, <1>9, <1>10, <1>11, <1>12, <1>13
  DEF PolicyNext

\* Every step is one of the working tier's, or leaves the tier alone.
LEMMA StepIsTierStep == PolicyInv /\ [PolicyNext]_allVars => [Next]_vars
<1> SUFFICES ASSUME PolicyInv, [PolicyNext]_allVars PROVE [Next]_vars
  OBVIOUS
<1>1. ASSUME NEW a \in Adders, NEW s \in Sources, NEW k \in Kinds, NEW v \in Values,
             Propose(a, s, k, v)
      PROVE  UNCHANGED vars
  BY <1>1 DEF Propose, Begin
<1>2. ASSUME NEW a \in Adders, NEW k \in Kinds, NEW v \in Values, ManagerAdd(a, k, v)
      PROVE  UNCHANGED vars
  BY <1>2 DEF ManagerAdd, Begin
<1>3. ASSUME NEW a \in Adders,
             Refuse(a) \/ Sanitize(a) \/ StoreOther(a) \/ StoreFails(a) \/ Report(a)
      PROVE  UNCHANGED vars
  BY <1>3 DEF Refuse, Sanitize, StoreOther, StoreFails, Report
<1>4. ASSUME NEW a \in Adders, NEW id \in Ids, StoreWorking(a, id) PROVE Next
  <2>1. write[a].item \in Values
    BY <1>4, InChainOwesNothing DEF StoreWorking, Writes
  <2> QED BY <1>4, <2>1 DEF StoreWorking, Next
<1>5. ASSUME NEW a \in Adders, Evict(a) PROVE Next
  BY <1>5 DEF Evict, Next
<1>6. ASSUME NEW id \in Ids, RemoveItem(id) PROVE Next
  BY <1>6 DEF RemoveItem, Next
<1>7. ASSUME NEW id \in Ids, NEW v \in Values, UpdateItem(id, v) PROVE Next
  BY <1>7 DEF UpdateItem, Next
<1>8. ASSUME NEW snap \in Maps, NEW mode \in ImportModes, ImportItems(snap, mode)
      PROVE  Next
  BY <1>8 DEF ImportItems, Next
<1>9. CASE UNCHANGED allVars
  BY <1>9 DEF allVars
<1> QED
  BY <1>1, <1>2, <1>3, <1>4, <1>5, <1>6, <1>7, <1>8, <1>9 DEF PolicyNext

LEMMA PolicyStart == PolicyInit => PolicyInv
<1> SUFFICES ASSUME PolicyInit PROVE PolicyInv
  OBVIOUS
<1>1. PolicyTypeOK /\ WriteShape /\ WriteClean
  BY DEF PolicyInit, PolicyTypeOK, WriteShape, WriteClean
<1>2. OnlyCleanAdded
  BY DEF PolicyInit, Init, OnlyCleanAdded, Present
<1>3. \A e \in Events : Owing(e) = {} /\ balance[e] = 0
  BY DEF PolicyInit, Owing, Owes
<1>4. HeardOnce
  BY <1>3, FS_EmptySet DEF HeardOnce
<1> QED BY <1>1, <1>2, <1>4 DEF PolicyInv

LEMMA PolicyInvariance == PolicySpec => [](TypeOK /\ PolicyInv)
<1>1. PolicyInit => IInv /\ PolicyInv
  BY InitIInv, PolicyStart DEF PolicyInit
<1>2. IInv /\ PolicyInv /\ [PolicyNext]_allVars => IInv' /\ PolicyInv'
  BY StepIsTierStep, StepKeepsIInv, PolicyStep DEF IInv
<1>3. IInv => TypeOK
  BY DEF IInv
<1> QED BY <1>1, <1>2, <1>3, PTL DEF PolicySpec

\* Behind a policy and a sanitizer chain the working tier is a WorkingMemory as
\* before: PolicyEnforcingMemory, Manager.Add and sanitizingMemory only choose
\* when Add is called and with what, so all that holds of the tier still holds.
THEOREM PolicyTierIsWorkingMemory == PolicySpec => Spec
<1>1. PolicyInit => Init
  BY DEF PolicyInit
<1> QED BY <1>1, StepIsTierStep, PolicyInvariance, PTL DEF PolicySpec, Spec

\* In particular its size stays within the bound, for any policy.
THEOREM PolicyTierBounded == PolicySpec => []DriftBound
BY PolicyTierIsWorkingMemory, BoundedDrift, PTL

\* Type correctness of the writes on their way.
THEOREM PolicyTypes == PolicySpec => []PolicyTypeOK
<1>1. PolicyInv => PolicyTypeOK
  BY DEF PolicyInv
<1> QED BY PolicyInvariance, <1>1, PTL

\* For any policy that decides on clean items, any chains that keep what is
\* clean, and a stage of the working tier's chain that cleans: nothing unclean
\* is added, by the policy or by a caller of the Manager, however the writes
\* interleave with evictions, updates, imports and each other.
THEOREM AddedIsClean == PolicySpec => []OnlyCleanAdded
<1>1. PolicyInv => OnlyCleanAdded
  BY DEF PolicyInv
<1> QED BY PolicyInvariance, <1>1, PTL

\* PolicyEnforcingMemory.Add emits one event for every write it stores and one
\* for every write it rejects, for any policy and any chains.
THEOREM EventsTellTheWrites == PolicySpec => []HeardOnce
<1>1. PolicyInv => HeardOnce
  BY DEF PolicyInv
<1> QED BY PolicyInvariance, <1>1, PTL

============================================================================
