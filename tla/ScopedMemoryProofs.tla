------------------------- MODULE ScopedMemoryProofs -------------------------
(***************************************************************************)
(* The scope of what scoped callers touch, the survival of pinned items,   *)
(* the clones ConsolidateScoped adds and the items ForgetByCapacity keeps, *)
(* for any callers, scopes, IDs and number of listings (one listing for    *)
(* ForgetByCapacity).                                                      *)
(***************************************************************************)
EXTENDS ScopedMemory, FiniteSetTheorems, TLAPS

\* The copies in a list.
Elems(s) == {s[i] : i \in DOMAIN s}

\* What a caller's list looks like at each place of its call.
Shape ==
    \A c \in Callers :
        /\ pc[c] = "idle" => todo[c] = << >>
        /\ pc[c] = "act" /\ op[c] # "capacity" => todo[c] # << >>
        /\ pc[c] = "list" => op[c] \in Sweeps
        /\ pc[c] = "check" => op[c] \in {"importance", "age", "consolidate"}

----------------------------------------------------------------------------
(* Lists of copies.                                                        *)

\* The elements of a list that is empty, and of what Tail and Head return.
LEMMA ListElems ==
    ASSUME NEW s \in Seq(Copies)
    PROVE  /\ Elems(s) \subseteq Copies
           /\ Elems(<< >>) = {}
           /\ s # << >> => /\ Head(s) \in Elems(s)
                           /\ Tail(s) \in Seq(Copies)
                           /\ Elems(Tail(s)) \subseteq Elems(s)
<1>1. DOMAIN s = 1..Len(s) /\ Len(s) \in Nat
  OBVIOUS
<1>2. Elems(s) \subseteq Copies
  BY <1>1 DEF Elems
<1>3. Elems(<< >>) = {}
  BY DEF Elems
<1>4. ASSUME s # << >>
      PROVE  Head(s) \in Elems(s) /\ Tail(s) \in Seq(Copies)
             /\ Elems(Tail(s)) \subseteq Elems(s)
  <2>1. Head(s) = s[1] /\ 1 \in 1..Len(s)
    BY <1>4
  <2>2. Tail(s) \in Seq(Copies) /\ DOMAIN Tail(s) = 1..(Len(s) - 1)
    BY <1>4
  <2>3. \A i \in 1..(Len(s) - 1) : Tail(s)[i] = s[i + 1] /\ i + 1 \in 1..Len(s)
    BY <1>4
  <2> QED BY <1>1, <2>1, <2>2, <2>3 DEF Elems
<1> QED BY <1>2, <1>3, <1>4

\* The elements of a list that another is appended to.
LEMMA AppendElems ==
    ASSUME NEW s \in Seq(Copies), NEW t \in Seq(Copies)
    PROVE  s \o t \in Seq(Copies) /\ Elems(s \o t) \subseteq Elems(s) \cup Elems(t)
<1>1. s \o t \in Seq(Copies) /\ DOMAIN (s \o t) = 1..(Len(s) + Len(t))
  OBVIOUS
<1>2. \A i \in 1..(Len(s) + Len(t)) :
         (s \o t)[i] = IF i <= Len(s) THEN s[i] ELSE t[i - Len(s)]
  OBVIOUS
<1>3. ASSUME NEW i \in 1..(Len(s) + Len(t))
      PROVE  (s \o t)[i] \in Elems(s) \cup Elems(t)
  <2>1. CASE i <= Len(s)
    <3>1. i \in DOMAIN s
      BY <2>1
    <3> QED BY <1>2, <2>1, <3>1 DEF Elems
  <2>2. CASE ~(i <= Len(s))
    <3>1. i - Len(s) \in DOMAIN t
      BY <2>2
    <3> QED BY <1>2, <2>2, <3>1 DEF Elems
  <2> QED BY <2>1, <2>2
<1> QED BY <1>1, <1>3 DEF Elems

\* A copy of an item that is there.
LEMMA CopyType ==
    ASSUME TypeOK, NEW id \in Present
    PROVE  /\ id \in Ids /\ items[id] \in Items /\ items[id].inc \in Incs
           /\ Copy(id) \in Copies /\ Copy(id).id = id /\ Copy(id).inc = items[id].inc
           /\ Current(id) \in Marks
<1>1. id \in Ids /\ items[id] \in Items
  BY DEF TypeOK, Present
<1>2. items[id].inc \in Incs
  BY <1>1 DEF Items
<1> QED BY <1>1, <1>2 DEF Copy, Copies, Current, Marks

\* A listing is a list of copies of the items listed.
LEMMA ListedCopies ==
    ASSUME TypeOK, NEW ids, ids \subseteq Present, NEW s \in Listed(ids)
    PROVE  s \in Seq(Copies) /\ Elems(s) \subseteq {Copy(id) : id \in ids}
<1>1. Cardinality(ids) \in Nat
  <2>1. ids \subseteq Ids
    BY DEF Present
  <2> QED BY <2>1, IdsAssumption, FS_Subset, FS_CardinalityType
<1>2. s \in [1..Cardinality(ids) -> {Copy(id) : id \in ids}]
  BY DEF Listed
<1>3. \A id \in ids : Copy(id) \in Copies
  BY CopyType
<1>4. s \in [1..Cardinality(ids) -> Copies]
  BY <1>2, <1>3
<1>5. s \in Seq(Copies)
  BY <1>1, <1>4
<1>6. DOMAIN s = 1..Cardinality(ids)
  BY <1>2
<1> QED BY <1>2, <1>5, <1>6 DEF Elems

\* What ForgetByCapacity sorts out is a list of copies it has listed.
LEMMA SortedCopies ==
    ASSUME NEW copies \in Seq(Copies), NEW picked, picked \subseteq DOMAIN copies,
           NEW s \in Sorted(copies, picked)
    PROVE  s \in Seq(Copies) /\ Elems(s) \subseteq {copies[i] : i \in picked}
<1>1. Cardinality(picked) \in Nat
  <2>1. picked \subseteq 1..Len(copies) /\ Len(copies) \in Nat
    OBVIOUS
  <2>2. IsFiniteSet(1..Len(copies))
    BY <2>1, FS_Interval
  <2> QED BY <2>1, <2>2, FS_Subset, FS_CardinalityType
<1>2. s \in [1..Cardinality(picked) -> {copies[i] : i \in picked}]
  BY DEF Sorted
<1>3. {copies[i] : i \in picked} \subseteq Copies
  OBVIOUS
<1>4. s \in [1..Cardinality(picked) -> Copies]
  BY <1>2, <1>3
<1>5. s \in Seq(Copies)
  BY <1>1, <1>4
<1>6. DOMAIN s = 1..Cardinality(picked)
  BY <1>2
<1> QED BY <1>2, <1>5, <1>6 DEF Elems

\* What stampScope does to the items of the tier: those that share the map it
\* writes into get the scope, and all keep their incarnation.
LEMMA StampedItems ==
    ASSUME TypeOK, NEW s \in Scopes, NEW from \in Ids
    PROVE  /\ Stamped(s, from) \in [Ids -> Items \cup {Nil}]
           /\ \A j \in Ids :
                 /\ j \notin Alike(from) => Stamped(s, from)[j] = items[j]
                 /\ items[j] = Nil => Stamped(s, from)[j] = Nil
                 /\ items[j] # Nil => /\ Stamped(s, from)[j] # Nil
                                     /\ Stamped(s, from)[j].inc = items[j].inc
<1>1. ASSUME NEW j \in Ids
      PROVE  /\ Stamped(s, from)[j] \in Items \cup {Nil}
             /\ j \notin Alike(from) => Stamped(s, from)[j] = items[j]
             /\ items[j] = Nil => Stamped(s, from)[j] = Nil
             /\ items[j] # Nil => /\ Stamped(s, from)[j] # Nil
                                 /\ Stamped(s, from)[j].inc = items[j].inc
  <2>1. Stamped(s, from)[j] = IF s # Zero /\ j \in Alike(from)
                              THEN [items[j] EXCEPT !.scope = s] ELSE items[j]
    BY DEF Stamped
  <2>2. items[j] \in Items \cup {Nil}
    BY DEF TypeOK
  <2>3. CASE s # Zero /\ j \in Alike(from)
    <3>1. items[j] \in Items /\ items[j] # Nil
      BY <2>2, <2>3 DEF Alike, Present
    <3>2. /\ [items[j] EXCEPT !.scope = s] \in Items
          /\ [items[j] EXCEPT !.scope = s].inc = items[j].inc
      BY <3>1 DEF Items
    <3> QED BY <2>1, <2>3, <3>1, <3>2, NilAssumption
  <2>4. CASE ~(s # Zero /\ j \in Alike(from))
    BY <2>1, <2>2, <2>4
  <2> QED BY <2>3, <2>4
<1>2. DOMAIN Stamped(s, from) = Ids /\ Stamped(s, from) = [j \in Ids |-> Stamped(s, from)[j]]
  BY DEF Stamped
<1> QED BY <1>1, <1>2

----------------------------------------------------------------------------
(* Types.                                                                  *)

\* Nobody is in a call and the tier is empty.
LEMMA InitTyped == Init => TypeOK /\ Shape
<1> SUFFICES ASSUME Init PROVE TypeOK /\ Shape
  OBVIOUS
<1>1. << >> \in Seq(Copies)
  OBVIOUS
<1>2. TypeOK
  BY <1>1, ScopesAssumption, BoundAssumption DEF Init, TypeOK, Pcs, Ops, Sweeps
<1>3. Shape
  BY DEF Init, Shape
<1> QED BY <1>2, <1>3

\* A call that returns leaves an empty list.
LEMMA LeaveTyped ==
    ASSUME TypeOK, Shape, NEW c \in Callers, Leave(c)
    PROVE  /\ pc' \in [Callers -> Pcs] /\ op' \in [Callers -> Ops]
           /\ as' \in [Callers -> Scopes] /\ todo' \in [Callers -> Seq(Copies)]
           /\ laps' \in [Callers -> Nat] /\ stale' \in [Callers -> SUBSET Ids]
           /\ before' \in [Callers -> SUBSET Copies] /\ made' \in [Callers -> Seq(Copies)]
           /\ Shape'
<1>1. << >> \in Seq(Copies)
  OBVIOUS
<1>2. pc' \in [Callers -> Pcs] /\ op' \in [Callers -> Ops]
  BY DEF Leave, TypeOK, Pcs, Ops, Sweeps
<1>3. as' \in [Callers -> Scopes]
  BY ScopesAssumption DEF Leave, TypeOK
<1>4. todo' \in [Callers -> Seq(Copies)] /\ made' \in [Callers -> Seq(Copies)]
  BY <1>1 DEF Leave, TypeOK
<1>5. laps' \in [Callers -> Nat]
  BY BoundAssumption DEF Leave, TypeOK
<1>6. stale' \in [Callers -> SUBSET Ids] /\ before' \in [Callers -> SUBSET Copies]
  BY DEF Leave, TypeOK
<1>7. Shape'
  BY DEF Leave, TypeOK, Shape
<1> QED BY <1>2, <1>3, <1>4, <1>5, <1>6, <1>7

\* ForgetScoped and ConsolidateScoped begin in the same way.
LEMMA SweepsOf ==
    ASSUME NEW c \in Lifecycles, NEW s \in Scopes,
           \/ \E how \in Strategies : ForgetScoped(c, s, how)
           \/ ConsolidateScoped(c, s)
    PROVE  \E what \in Sweeps : \E copies \in SUBSET InSight(s) : Sweep(c, s, what, copies)
<1>1. ASSUME NEW how \in Strategies, ForgetScoped(c, s, how)
      PROVE  \E what \in Sweeps : \E copies \in SUBSET InSight(s) : Sweep(c, s, what, copies)
  <2>1. {copy \in InSight(s) : ~IsPinned(copy)} \in SUBSET InSight(s) /\ how \in Sweeps
    BY DEF Sweeps
  <2> QED BY <1>1, <2>1 DEF ForgetScoped
<1>2. ASSUME ConsolidateScoped(c, s)
      PROVE  \E what \in Sweeps : \E copies \in SUBSET InSight(s) : Sweep(c, s, what, copies)
  <2>1. InSight(s) \in SUBSET InSight(s) /\ "consolidate" \in Sweeps
    BY DEF Sweeps
  <2> QED BY <1>2, <2>1 DEF ConsolidateScoped
<1> QED BY <1>1, <1>2

\* Every step keeps the types and the shape of the lists.
LEMMA StepTyped == TypeOK /\ Shape /\ [Next]_vars => TypeOK' /\ Shape'
<1> SUFFICES ASSUME TypeOK, Shape, [Next]_vars PROVE TypeOK' /\ Shape'
  OBVIOUS
<1> USE DEF tierVars, histVars
<1>1. ASSUME NEW s \in Scopes, NEW id \in Ids, NEW pin \in BOOLEAN, Add(s, id, pin)
      PROVE  TypeOK' /\ Shape'
  <2>1. used[id] + 1 \in Incs /\ used[id] + 1 \in 0..MaxInc
    BY <1>1, BoundAssumption DEF Add, TypeOK, Incs
  <2>2. [scope |-> s, inc |-> used[id] + 1] \in Items
    BY <2>1 DEF Items
  <2>3. items' \in [Ids -> Items \cup {Nil}] /\ used' \in [Ids -> 0..MaxInc]
    BY <1>1, <2>1, <2>2 DEF Add, TypeOK
  <2>4. pinned' \subseteq Marks
    BY <1>1, <2>1 DEF Add, TypeOK, Marks
  <2>5. stale' \in [Callers -> SUBSET Ids]
    BY <1>1 DEF Add, TypeOK
  <2>6. protected' \in [Callers -> SUBSET Marks]
    BY <1>1 DEF Add, TypeOK
  <2>7. /\ quiet' \subseteq Callers
        /\ UNCHANGED <<metadata, shares, pc, op, as, todo, laps, made, before>>
    BY <1>1 DEF Add
  <2> QED BY <2>3, <2>4, <2>5, <2>6, <2>7 DEF TypeOK, Shape
<1>15. ASSUME NEW s \in Scopes, NEW id \in Ids, NEW from \in Ids, AddShared(s, id, from)
       PROVE  TypeOK' /\ Shape'
  <2> DEFINE item == [scope |-> IF s = Zero THEN items[from].scope ELSE s,
                      inc |-> used[id] + 1]
  <2>1. used[id] + 1 \in Incs /\ used[id] + 1 \in 0..MaxInc
    BY <1>15, BoundAssumption DEF AddShared, TypeOK, Incs
  <2>2. items[from] \in Items /\ Current(from) \in Marks
    BY <1>15, CopyType DEF AddShared
  <2>3. item \in Items
    BY <2>1, <2>2 DEF Items
  <2>4. items' = [Stamped(s, from) EXCEPT ![id] = item]
    BY <1>15 DEF AddShared
  <2> HIDE DEF item
  <2>5. items' \in [Ids -> Items \cup {Nil}] /\ used' \in [Ids -> 0..MaxInc]
    <3>1. Stamped(s, from) \in [Ids -> Items \cup {Nil}]
      BY StampedItems
    <3>2. items' \in [Ids -> Items \cup {Nil}]
      BY <2>3, <2>4, <3>1
    <3> QED BY <1>15, <2>1, <3>2 DEF AddShared, TypeOK
  <2>6. <<id, used[id] + 1>> \in Marks
    BY <2>1 DEF Marks
  <2>7. pinned' \subseteq Marks /\ metadata' \in [Marks -> Marks]
    BY <1>15, <2>2, <2>6 DEF AddShared, TypeOK
  <2>8. stale' \in [Callers -> SUBSET Ids]
    BY <1>15 DEF AddShared, TypeOK, Alike, Present
  <2>9. protected' \in [Callers -> SUBSET Marks] /\ shares' \in 0..MaxShares
    BY <1>15, BoundAssumption DEF AddShared, TypeOK
  <2>10. quiet' \subseteq Callers /\ UNCHANGED <<pc, op, as, todo, laps, made, before>>
    BY <1>15 DEF AddShared
  <2> QED BY <2>5, <2>7, <2>8, <2>9, <2>10 DEF TypeOK, Shape
<1>16. ASSUME NEW s \in Scopes, NEW from \in Ids, AddElsewhere(s, from)
       PROVE  TypeOK' /\ Shape'
  <2>1. items' \in [Ids -> Items \cup {Nil}]
    BY <1>16, StampedItems DEF AddElsewhere
  <2>2. stale' \in [Callers -> SUBSET Ids] /\ shares' \in 0..MaxShares
    BY <1>16, BoundAssumption DEF AddElsewhere, TypeOK, Alike, Present
  <2>3. /\ quiet' \subseteq Callers
        /\ UNCHANGED <<used, pinned, metadata, pc, op, as, todo, laps, made, protected, before>>
    BY <1>16 DEF AddElsewhere
  <2> QED BY <2>1, <2>2, <2>3 DEF TypeOK, Shape
<1>2. ASSUME NEW c \in Users, NEW s \in Scopes, NEW id \in Ids,
             NEW what \in {"update", "remove"}, LookUp(c, s, id, what)
      PROVE  TypeOK' /\ Shape'
  <2>1. c \in Callers /\ id \in Present
    BY <1>2 DEF Callers, LookUp, InScope
  <2>2. Copy(id) \in Copies
    BY <2>1, CopyType
  <2>3. <<Copy(id)>> \in Seq(Copies) /\ <<Copy(id)>> # << >>
    BY <2>2
  <2>4. todo' \in [Callers -> Seq(Copies)]
    BY <1>2, <2>1, <2>3 DEF LookUp, TypeOK
  <2>5. pc' \in [Callers -> Pcs] /\ op' \in [Callers -> Ops] /\ as' \in [Callers -> Scopes]
    BY <1>2, <2>1 DEF LookUp, TypeOK, Pcs, Ops, Sweeps
  <2>6. Shape'
    BY <1>2, <2>1, <2>3 DEF LookUp, TypeOK, Shape
  <2> QED BY <1>2, <2>4, <2>5, <2>6 DEF LookUp, TypeOK
<1>3. ASSUME NEW c \in Users, NEW pin \in BOOLEAN, Update(c, pin)
      PROVE  TypeOK' /\ Shape'
  <2> DEFINE id == Head(todo[c]).id
  <2>1. c \in Callers /\ id \in Present /\ Leave(c)
    BY <1>3 DEF Callers, Update
  <2>2. Current(id) \in Marks
    BY <2>1, CopyType
  <2> HIDE DEF id
  <2>3. /\ pinned' \subseteq Marks
        /\ protected' \in [Callers -> SUBSET Marks]
        /\ quiet' \subseteq Callers /\ UNCHANGED <<items, used, metadata, shares>>
    BY <1>3, <2>2 DEF Update, TypeOK, SharedBy, id
  <2> QED BY <2>1, <2>3, LeaveTyped DEF TypeOK
<1>4. ASSUME NEW c \in Users, Remove(c) PROVE TypeOK' /\ Shape'
  <2>1. c \in Callers /\ Leave(c)
    BY <1>4 DEF Callers, Remove
  <2>2. /\ items' \in [Ids -> Items \cup {Nil}]
        /\ protected' \in [Callers -> SUBSET Marks]
        /\ quiet' \subseteq Callers /\ UNCHANGED <<used, pinned, metadata, shares>>
    BY <1>4 DEF Remove, TypeOK
  <2> QED BY <2>1, <2>2, LeaveTyped DEF TypeOK
<1>5. ASSUME NEW c \in Users, Gone(c) PROVE TypeOK' /\ Shape'
  <2>1. c \in Callers /\ Leave(c) /\ UNCHANGED <<tierVars, protected, quiet>>
    BY <1>5 DEF Callers, Gone
  <2> QED BY <2>1, LeaveTyped DEF TypeOK
<1>17. ASSUME NEW c \in Lifecycles, NEW s \in Scopes, NEW what \in Sweeps,
              NEW copies, copies \subseteq InSight(s), Sweep(c, s, what, copies)
       PROVE  TypeOK' /\ Shape'
  <2>1. c \in Callers
    BY DEF Callers
  <2>2. pc' \in [Callers -> Pcs] /\ op' \in [Callers -> Ops] /\ as' \in [Callers -> Scopes]
    BY <1>17, <2>1 DEF Sweep, TypeOK, Pcs, Ops
  <2>3. protected' \in [Callers -> SUBSET Marks]
    BY <1>17, <2>1 DEF Sweep, TypeOK
  <2>4. \A id \in InScope(s) : Copy(id) \in Copies
    BY CopyType DEF InScope
  <2>5. copies \subseteq Copies
    BY <1>17, <2>4 DEF InSight
  <2>6. before' \in [Callers -> SUBSET Copies]
    BY <1>17, <2>1, <2>5 DEF Sweep, TypeOK
  <2>7. quiet' \subseteq Callers /\ UNCHANGED <<tierVars, todo, laps, made, stale>>
    BY <1>17, <2>1 DEF Sweep, TypeOK
  <2>8. Shape'
    BY <1>17, <2>1 DEF Sweep, TypeOK, Shape
  <2> QED BY <2>2, <2>3, <2>6, <2>7, <2>8 DEF TypeOK
<1>6. ASSUME NEW c \in Lifecycles, NEW s \in Scopes,
             \/ \E how \in Strategies : ForgetScoped(c, s, how)
             \/ ConsolidateScoped(c, s)
      PROVE  TypeOK' /\ Shape'
  BY <1>6, <1>17, SweepsOf
<1>7. ASSUME NEW c \in Lifecycles, List(c) PROVE TypeOK' /\ Shape'
  <2>1. c \in Callers
    BY DEF Callers
  <2>2. PICK copies \in Listed(InScope(as[c])) :
           todo' = [todo EXCEPT ![c] = @ \o copies]
    BY <1>7 DEF List
  <2>3. copies \in Seq(Copies)
    BY ListedCopies DEF InScope
  <2>4. todo[c] \o copies \in Seq(Copies)
    BY <2>1, <2>3 DEF TypeOK
  <2>5. todo' \in [Callers -> Seq(Copies)]
    BY <2>1, <2>2, <2>4 DEF TypeOK
  <2>6. laps' \in [Callers -> Nat]
    BY <1>7, <2>1, BoundAssumption DEF List, TypeOK
  <2>7. UNCHANGED <<tierVars, pc, op, as, made, stale, protected, before, quiet>>
    BY <1>7 DEF List
  <2>8. \A d \in Callers : d # c => todo'[d] = todo[d]
    BY <2>2 DEF TypeOK
  <2>9. Shape'
    BY <1>7, <2>7, <2>8 DEF List, Shape
  <2> QED BY <2>5, <2>6, <2>7, <2>9 DEF TypeOK
<1>8. ASSUME NEW c \in Lifecycles, Select(c) PROVE TypeOK' /\ Shape'
  <2>1. c \in Callers
    BY DEF Callers
  <2>2. pc' \in [Callers -> Pcs]
    BY <1>8, <2>1 DEF Select, TypeOK, Pcs
  <2>3. Shape'
    <3>1. op[c] \in {"importance", "age", "consolidate"}
      BY <1>8, <2>1 DEF Sweeps, Strategies, Select, Shape
    <3> QED BY <1>8, <2>1, <3>1 DEF Select, TypeOK, Shape
  <2> QED BY <1>8, <2>2, <2>3 DEF Select, TypeOK
<1>9. ASSUME NEW c \in Lifecycles, Check(c) PROVE TypeOK' /\ Shape'
  <2>1. c \in Callers
    BY DEF Callers
  <2>2. Tail(todo[c]) \in Seq(Copies)
    BY <1>9, <2>1, ListElems DEF Check, TypeOK
  <2>3. pc' \in [Callers -> Pcs] /\ todo' \in [Callers -> Seq(Copies)]
    BY <1>9, <2>1, <2>2 DEF Check, TypeOK, Pcs
  <2>4. Shape'
    BY <1>9, <2>1 DEF Check, TypeOK, Shape
  <2> QED BY <1>9, <2>3, <2>4 DEF Check, TypeOK
<1>10. ASSUME NEW c \in Lifecycles, Plan(c) PROVE TypeOK' /\ Shape'
  <2>1. c \in Callers /\ todo[c] \in Seq(Copies)
    BY DEF Callers, TypeOK
  <2>2. PICK s \in Sorted(todo[c], IF Keep = 0 THEN {} ELSE Evictees(todo[c])) :
           todo' = [todo EXCEPT ![c] = s]
    BY <1>10 DEF Plan
  <2>3. s \in Seq(Copies)
    <3>1. (IF Keep = 0 THEN {} ELSE Evictees(todo[c])) \subseteq DOMAIN todo[c]
      BY DEF Evictees, Loose
    <3> QED BY <2>1, <3>1, SortedCopies
  <2>4. pc' \in [Callers -> Pcs] /\ todo' \in [Callers -> Seq(Copies)]
    BY <1>10, <2>1, <2>2, <2>3 DEF Plan, TypeOK, Pcs
  <2>5. \A d \in Callers : d # c => todo'[d] = todo[d] /\ pc'[d] = pc[d]
    BY <1>10, <2>2 DEF Plan, TypeOK
  <2>6. pc'[c] = "act" /\ op[c] = "capacity" /\ op' = op
    BY <1>10, <2>1 DEF Plan, TypeOK
  <2>7. Shape'
    BY <2>5, <2>6 DEF Shape
  <2> QED BY <1>10, <2>4, <2>7 DEF Plan, TypeOK
<1>11. ASSUME NEW c \in Lifecycles, Forget(c) PROVE TypeOK' /\ Shape'
  <2>1. c \in Callers /\ todo[c] # << >>
    BY <1>11 DEF Callers, Forget
  <2>2. Tail(todo[c]) \in Seq(Copies)
    BY <2>1, ListElems DEF TypeOK
  <2>3. pc' \in [Callers -> Pcs] /\ todo' \in [Callers -> Seq(Copies)]
    BY <1>11, <2>1, <2>2 DEF Forget, TypeOK, Pcs
  <2>4. /\ items' \in [Ids -> Items \cup {Nil}] /\ quiet' \subseteq Callers
        /\ protected' \in [Callers -> SUBSET Marks]
        /\ UNCHANGED <<used, pinned, metadata, shares, op, as, laps, made, stale, before>>
    BY <1>11 DEF Forget, TypeOK
  <2>5. Shape'
    BY <1>11, <2>1 DEF Forget, TypeOK, Shape, Strategies
  <2> QED BY <2>3, <2>4, <2>5 DEF TypeOK
<1>12. ASSUME NEW c \in Lifecycles, Finish(c) PROVE TypeOK' /\ Shape'
  <2>1. c \in Callers
    BY DEF Callers
  <2>2. pc' \in [Callers -> Pcs]
    BY <1>12, <2>1 DEF Finish, TypeOK, Pcs
  <2>3. Shape'
    BY <1>12, <2>1 DEF Finish, TypeOK, Shape
  <2> QED BY <1>12, <2>2, <2>3 DEF Finish, TypeOK
<1>13. ASSUME NEW c \in Lifecycles, Return(c) \/ AddCloneFails(c) PROVE TypeOK' /\ Shape'
  <2>1. c \in Callers /\ Leave(c) /\ UNCHANGED tierVars
    BY <1>13 DEF Callers, Return, AddCloneFails
  <2>2. protected' \in [Callers -> SUBSET Marks] /\ quiet' \subseteq Callers
    BY <1>13, <2>1 DEF Return, AddCloneFails, TypeOK
  <2> QED BY <2>1, <2>2, LeaveTyped DEF TypeOK
<1>18. ASSUME NEW c \in Lifecycles, AddClone(c) PROVE TypeOK' /\ Shape'
  <2>1. c \in Callers /\ todo[c] # << >> /\ todo[c] \in Seq(Copies) /\ made[c] \in Seq(Copies)
    BY <1>18 DEF Callers, AddClone, Shape, TypeOK
  <2>2. Tail(todo[c]) \in Seq(Copies) /\ Head(todo[c]) \in Copies
    BY <2>1, ListElems
  <2>3. Append(made[c], Head(todo[c])) \in Seq(Copies)
    BY <2>1, <2>2
  <2>4. /\ pc' \in [Callers -> Pcs] /\ todo' \in [Callers -> Seq(Copies)]
        /\ made' \in [Callers -> Seq(Copies)]
    BY <1>18, <2>1, <2>2, <2>3 DEF AddClone, TypeOK, Pcs
  <2>5. UNCHANGED <<tierVars, op, as, laps, histVars>>
    BY <1>18 DEF AddClone
  <2>6. Shape'
    BY <1>18, <2>1 DEF AddClone, TypeOK, Shape
  <2> QED BY <2>4, <2>5, <2>6 DEF TypeOK
<1>14. CASE UNCHANGED vars
  BY <1>14 DEF vars, TypeOK, Shape
<1> QED
  BY <1>1, <1>2, <1>3, <1>4, <1>5, <1>6, <1>7, <1>8, <1>9, <1>10, <1>11, <1>12,
     <1>13, <1>14, <1>15, <1>16, <1>18 DEF Next

\* The types hold for any callers, scopes, IDs and bounds.
THEOREM Types == Spec => []TypeOK
<1>1. Init => TypeOK /\ Shape
  BY InitTyped
<1>2. TypeOK /\ Shape /\ [Next]_vars => (TypeOK /\ Shape)'
  BY StepTyped
<1> QED BY <1>1, <1>2, PTL DEF Spec
----------------------------------------------------------------------------
(* What a caller is going to act on.                                       *)

\* An item is added.
Adds == \/ \E s \in Scopes, id \in Ids, pin \in BOOLEAN : Add(s, id, pin)
        \/ \E s \in Scopes, id \in Ids, from \in Ids : AddShared(s, id, from)
        \/ \E s \in Scopes \ {Zero}, from \in Ids : AddElsewhere(s, from)

\* The steps of a call, Add left out: a list only loses copies, or gains copies
\* of items the caller can see; items only go.
LEMMA StepLists ==
    ASSUME TypeOK, Shape, [Next]_vars, ~Adds
    PROVE  /\ \A id \in Ids : items'[id] \in {items[id], Nil}
           /\ \A d \in Callers :
                 /\ Elems(todo'[d]) \subseteq
                       Elems(todo[d]) \cup {Copy(id) : id \in InScope(as'[d])}
                 /\ todo'[d] = << >> \/ stale'[d] = stale[d]
                 /\ todo'[d] = << >> \/ todo[d] = << >> \/ as'[d] = as[d]
<1> DEFINE Fewer == \A id \in Ids : items'[id] \in {items[id], Nil}
           Lists(d) == /\ Elems(todo'[d]) \subseteq
                             Elems(todo[d]) \cup {Copy(id) : id \in InScope(as'[d])}
                       /\ todo'[d] = << >> \/ stale'[d] = stale[d]
                       /\ todo'[d] = << >> \/ todo[d] = << >> \/ as'[d] = as[d]
<1> SUFFICES Fewer /\ \A d \in Callers : Lists(d)
  OBVIOUS
<1> USE DEF tierVars, histVars
<1>0. Elems(<< >>) = {}
  BY DEF Elems
<1>1. ASSUME NEW c \in Users, NEW s \in Scopes, NEW id \in Ids,
             NEW what \in {"update", "remove"}, LookUp(c, s, id, what)
      PROVE  Fewer /\ \A d \in Callers : Lists(d)
  <2>1. c \in Callers /\ todo[c] = << >>
    BY <1>1 DEF Callers, LookUp, Shape
  <2>2. todo'[c] = <<Copy(id)>> /\ as'[c] = s /\ id \in InScope(s) /\ stale' = stale
    BY <1>1, <2>1 DEF LookUp, TypeOK
  <2>3. Elems(<<Copy(id)>>) = {Copy(id)}
    BY DEF Elems
  <2>4. Lists(c)
    BY <2>1, <2>2, <2>3
  <2>5. \A d \in Callers : d # c => todo'[d] = todo[d] /\ as'[d] = as[d]
    BY <1>1 DEF LookUp, TypeOK
  <2>6. items' = items
    BY <1>1 DEF LookUp
  <2> QED BY <2>2, <2>4, <2>5, <2>6
<1>2. ASSUME NEW c \in Callers, Leave(c), Fewer
      PROVE  Fewer /\ \A d \in Callers : Lists(d)
  <2>1. todo'[c] = << >>
    BY <1>2 DEF Leave, TypeOK
  <2>2. \A d \in Callers : d # c =>
           todo'[d] = todo[d] /\ as'[d] = as[d] /\ stale'[d] = stale[d]
    BY <1>2 DEF Leave, TypeOK
  <2> QED BY <1>0, <1>2, <2>1, <2>2
<1>3. ASSUME NEW c \in Users, NEW pin \in BOOLEAN, Update(c, pin)
      PROVE  Fewer /\ \A d \in Callers : Lists(d)
  <2>1. c \in Callers /\ Leave(c) /\ Fewer
    BY <1>3 DEF Callers, Update
  <2> QED BY <1>2, <2>1
<1>4. ASSUME NEW c \in Users, Remove(c) PROVE Fewer /\ \A d \in Callers : Lists(d)
  <2>1. c \in Callers /\ Leave(c) /\ Fewer
    BY <1>4 DEF Callers, Remove, TypeOK
  <2> QED BY <1>2, <2>1
<1>5. ASSUME NEW c \in Users, Gone(c) PROVE Fewer /\ \A d \in Callers : Lists(d)
  <2>1. c \in Callers /\ Leave(c) /\ Fewer
    BY <1>5 DEF Callers, Gone
  <2> QED BY <1>2, <2>1
<1>6. ASSUME NEW c \in Lifecycles, Return(c) \/ AddCloneFails(c)
      PROVE  Fewer /\ \A d \in Callers : Lists(d)
  <2>1. c \in Callers /\ Leave(c) /\ Fewer
    BY <1>6 DEF Callers, Return, AddCloneFails
  <2> QED BY <1>2, <2>1
<1>7. ASSUME NEW c \in Lifecycles, NEW s \in Scopes,
             \/ \E how \in Strategies : ForgetScoped(c, s, how)
             \/ ConsolidateScoped(c, s)
      PROVE  Fewer /\ \A d \in Callers : Lists(d)
  <2>0. PICK what \in Sweeps, copies \in SUBSET InSight(s) : Sweep(c, s, what, copies)
    BY <1>7, SweepsOf
  <2>1. c \in Callers /\ todo[c] = << >> /\ todo' = todo /\ stale' = stale /\ Fewer
    BY <2>0 DEF Callers, Sweep, Shape
  <2>2. \A d \in Callers : d # c => as'[d] = as[d]
    BY <2>0 DEF Sweep, TypeOK
  <2> QED BY <2>1, <2>2
<1>8. ASSUME NEW c \in Lifecycles, List(c) PROVE Fewer /\ \A d \in Callers : Lists(d)
  <2>1. c \in Callers /\ todo[c] \in Seq(Copies)
    BY DEF Callers, TypeOK
  <2>2. PICK copies \in Listed(InScope(as[c])) :
           todo' = [todo EXCEPT ![c] = @ \o copies]
    BY <1>8 DEF List
  <2>3. /\ copies \in Seq(Copies)
        /\ Elems(copies) \subseteq {Copy(id) : id \in InScope(as[c])}
    BY ListedCopies DEF InScope
  <2>4. todo'[c] = todo[c] \o copies /\ as' = as /\ stale' = stale /\ items' = items
    BY <1>8, <2>1, <2>2 DEF List, TypeOK
  <2>5. Elems(todo'[c]) \subseteq Elems(todo[c]) \cup Elems(copies)
    BY <2>1, <2>3, <2>4, AppendElems
  <2>6. \A d \in Callers : d # c => todo'[d] = todo[d]
    BY <2>2 DEF TypeOK
  <2>7. Lists(c)
    BY <2>3, <2>4, <2>5
  <2> QED BY <2>4, <2>6, <2>7
<1>9. ASSUME NEW c \in Lifecycles, Select(c) \/ Finish(c)
      PROVE  Fewer /\ \A d \in Callers : Lists(d)
  BY <1>9 DEF Select, Finish
<1>10. ASSUME NEW c \in Callers, Fewer, as' = as, stale' = stale,
              Elems(todo'[c]) \subseteq Elems(todo[c]),
              \A d \in Callers : d # c => todo'[d] = todo[d]
       PROVE  Fewer /\ \A d \in Callers : Lists(d)
  BY <1>10
<1>11. ASSUME NEW c \in Lifecycles, Check(c) PROVE Fewer /\ \A d \in Callers : Lists(d)
  <2>1. c \in Callers /\ todo[c] \in Seq(Copies) /\ todo[c] # << >>
    BY <1>11 DEF Callers, Check, TypeOK
  <2>2. Elems(Tail(todo[c])) \subseteq Elems(todo[c])
    BY <2>1, ListElems
  <2>3. todo'[c] = Tail(todo[c]) \/ todo'[c] = todo[c]
    BY <1>11, <2>1 DEF Check, TypeOK
  <2>4. /\ as' = as /\ stale' = stale /\ Fewer
        /\ \A d \in Callers : d # c => todo'[d] = todo[d]
    BY <1>11 DEF Check, TypeOK
  <2> QED BY <1>10, <2>1, <2>2, <2>3, <2>4
<1>12. ASSUME NEW c \in Lifecycles, Plan(c) PROVE Fewer /\ \A d \in Callers : Lists(d)
  <2> DEFINE picked == IF Keep = 0 THEN {} ELSE Evictees(todo[c])
  <2>1. c \in Callers /\ todo[c] \in Seq(Copies) /\ picked \subseteq DOMAIN todo[c]
    BY DEF Callers, TypeOK, Evictees, Loose
  <2>2. PICK s \in Sorted(todo[c], picked) : todo' = [todo EXCEPT ![c] = s]
    BY <1>12 DEF Plan
  <2>3. Elems(s) \subseteq {todo[c][i] : i \in picked}
    BY <2>1, SortedCopies
  <2>4. todo'[c] = s /\ \A d \in Callers : d # c => todo'[d] = todo[d]
    BY <2>1, <2>2 DEF TypeOK
  <2>5. Elems(todo'[c]) \subseteq Elems(todo[c])
    BY <2>1, <2>3, <2>4 DEF Elems
  <2>6. as' = as /\ stale' = stale /\ Fewer
    BY <1>12 DEF Plan
  <2> QED BY <1>10, <2>1, <2>4, <2>5, <2>6
<1>13. ASSUME NEW c \in Lifecycles, Forget(c) PROVE Fewer /\ \A d \in Callers : Lists(d)
  <2>1. c \in Callers /\ todo[c] \in Seq(Copies) /\ todo[c] # << >>
    BY <1>13 DEF Callers, Forget, TypeOK
  <2>2. Elems(Tail(todo[c])) \subseteq Elems(todo[c])
    BY <2>1, ListElems
  <2>3. todo'[c] = Tail(todo[c]) /\ \A d \in Callers : d # c => todo'[d] = todo[d]
    BY <1>13, <2>1 DEF Forget, TypeOK
  <2>4. as' = as /\ stale' = stale /\ Fewer
    BY <1>13 DEF Forget, TypeOK
  <2> QED BY <1>10, <2>1, <2>2, <2>3, <2>4
<1>14. CASE UNCHANGED vars
  BY <1>14 DEF vars
<1>15. ASSUME NEW c \in Lifecycles, AddClone(c) PROVE Fewer /\ \A d \in Callers : Lists(d)
  <2>1. c \in Callers /\ todo[c] \in Seq(Copies) /\ todo[c] # << >>
    BY <1>15 DEF Callers, AddClone, TypeOK, Shape
  <2>2. Elems(Tail(todo[c])) \subseteq Elems(todo[c])
    BY <2>1, ListElems
  <2>3. todo'[c] = Tail(todo[c]) /\ \A d \in Callers : d # c => todo'[d] = todo[d]
    BY <1>15, <2>1 DEF AddClone, TypeOK
  <2>4. as' = as /\ stale' = stale /\ Fewer
    BY <1>15 DEF AddClone
  <2> QED BY <1>10, <2>1, <2>2, <2>3, <2>4
<1> HIDE DEF Fewer, Lists
<1> QED
  BY <1>1, <1>3, <1>4, <1>5, <1>6, <1>7, <1>8, <1>9, <1>11, <1>12, <1>13, <1>14, <1>15
  DEF Next, Adds

\* Every step keeps a caller's aim within its scope, the IDs added over since
\* excepted.
LEMMA StepActs ==
    ASSUME TypeOK, Shape, ActsInScope, [Next]_vars
    PROVE  ActsInScope'
<1>0. \A d \in Callers : \A id : id \in Aimed(d) <=> \E x \in Elems(todo[d]) : x.id = id
  BY DEF Aimed, Elems
<1>1. ASSUME NEW s \in Scopes, NEW id \in Ids, NEW pin \in BOOLEAN, Add(s, id, pin)
      PROVE  ActsInScope'
  <2> SUFFICES ASSUME NEW d \in Callers, NEW i \in (Aimed(d))', i \notin stale'[d],
                      i \in Present'
               PROVE  Matches(as'[d], items'[i].scope)
    BY DEF ActsInScope
  <2>1. UNCHANGED <<pc, op, as, todo>>
    BY <1>1 DEF Add
  <2>2. i \in Aimed(d) /\ pc[d] # "idle"
    BY <2>1 DEF Aimed, Shape
  <2>3. i \notin stale[d] /\ i # id
    BY <1>1, <2>2 DEF Add, TypeOK
  <2>4. i \in Ids /\ items'[i] = items[i]
    BY <1>1, <2>3 DEF Add, TypeOK, Present
  <2> QED BY <2>1, <2>2, <2>3, <2>4 DEF ActsInScope, Present
<1>3. ASSUME NEW s \in Scopes, NEW id \in Ids, NEW from \in Ids, AddShared(s, id, from)
      PROVE  ActsInScope'
  <2> SUFFICES ASSUME NEW d \in Callers, NEW i \in (Aimed(d))', i \notin stale'[d],
                      i \in Present'
               PROVE  Matches(as'[d], items'[i].scope)
    BY DEF ActsInScope
  <2>1. UNCHANGED <<pc, op, as, todo>>
    BY <1>3 DEF AddShared
  <2>2. i \in Aimed(d) /\ pc[d] # "idle"
    BY <2>1 DEF Aimed, Shape
  <2>3. i \notin stale[d] /\ i # id /\ i \notin Alike(from)
    BY <1>3, <2>2 DEF AddShared, TypeOK
  <2>4. i \in Ids /\ items'[i] = Stamped(s, from)[i]
    BY <1>3, <2>3, StampedItems DEF AddShared, Present
  <2>5. items'[i] = items[i]
    BY <2>3, <2>4, StampedItems
  <2> QED BY <2>1, <2>2, <2>3, <2>4, <2>5 DEF ActsInScope, Present
<1>4. ASSUME NEW s \in Scopes, NEW from \in Ids, AddElsewhere(s, from)
      PROVE  ActsInScope'
  <2> SUFFICES ASSUME NEW d \in Callers, NEW i \in (Aimed(d))', i \notin stale'[d],
                      i \in Present'
               PROVE  Matches(as'[d], items'[i].scope)
    BY DEF ActsInScope
  <2>1. UNCHANGED <<pc, op, as, todo>>
    BY <1>4 DEF AddElsewhere
  <2>2. i \in Aimed(d) /\ pc[d] # "idle"
    BY <2>1 DEF Aimed, Shape
  <2>3. i \notin stale[d] /\ i \notin Alike(from)
    BY <1>4, <2>2 DEF AddElsewhere, TypeOK
  <2>4. i \in Ids /\ items'[i] = items[i]
    BY <1>4, <2>3, StampedItems DEF AddElsewhere, Present
  <2> QED BY <2>1, <2>2, <2>3, <2>4 DEF ActsInScope, Present
<1>2. ASSUME ~Adds PROVE ActsInScope'
  <2> SUFFICES ASSUME NEW d \in Callers, NEW i \in (Aimed(d))', i \notin stale'[d],
                      i \in Present'
               PROVE  Matches(as'[d], items'[i].scope)
    BY DEF ActsInScope
  <2>1. PICK x \in Elems(todo'[d]) : x.id = i
    BY DEF Aimed, Elems
  <2>2. i \in Present /\ items'[i] = items[i]
    BY <1>2, StepLists DEF Present
  <2>3. stale'[d] = stale[d] /\ todo'[d] # << >>
    <3>1. todo'[d] # << >>
      BY <2>1 DEF Elems
    <3> QED BY <1>2, <3>1, StepLists
  <2>4. CASE x \in Elems(todo[d])
    <3>1. i \in Aimed(d) /\ todo[d] # << >>
      BY <1>0, <2>1, <2>4 DEF Elems
    <3>2. as'[d] = as[d]
      BY <1>2, <2>3, <3>1, StepLists
    <3> QED BY <2>2, <2>3, <3>1, <3>2 DEF ActsInScope
  <2>5. CASE x \in {Copy(id) : id \in InScope(as'[d])}
    <3>1. PICK id \in InScope(as'[d]) : x = Copy(id)
      BY <2>5
    <3>2. id = i
      BY <2>1, <3>1 DEF Copy
    <3> QED BY <2>2, <3>1, <3>2 DEF InScope
  <2> QED BY <1>2, <2>1, <2>4, <2>5, StepLists
<1> QED BY <1>1, <1>2, <1>3, <1>4 DEF Adds

\* For any callers, scopes and IDs: Update, Remove and ForgetScoped go on to act
\* only on items of the caller's scope, unless since the call began another
\* item was added over the ID or with the Metadata map of the item.
THEOREM ScopesAreKept == Spec => []ActsInScope
<1> DEFINE Inv == TypeOK /\ Shape /\ ActsInScope
<1>1. Init => Inv
  <2>1. Init => ActsInScope
    BY DEF Init, ActsInScope, Aimed
  <2> QED BY <2>1, InitTyped
<1>2. Inv /\ [Next]_vars => Inv'
  BY StepTyped, StepActs
<1>3. Inv => ActsInScope
  OBVIOUS
<1> HIDE DEF Inv
<1> QED BY <1>1, <1>2, <1>3, PTL DEF Spec
----------------------------------------------------------------------------
(* Pinned items.                                                           *)

\* The incarnation a copy was made from.
Pair(x) == <<x.id, x.inc>>

\* What keeps a protected item from the removals of the call it is protected
\* from: it is still pinned; the copies of its ID are copies of it; and what
\* has been chosen for removal was not pinned when it was chosen.
Guarded ==
    \A c \in Callers :
        /\ protected[c] \subseteq pinned
        /\ \A x \in Elems(todo[c]) : \A p \in protected[c] : x.id = p[1] => Pair(x) = p
        /\ pc[c] = "act" /\ op[c] \in {"importance", "age"} =>
              Pair(Head(todo[c])) \notin protected[c]
        /\ pc[c] = "act" /\ op[c] = "capacity" =>
              \A x \in Elems(todo[c]) : Pair(x) \notin protected[c]

\* The steps that choose nothing and list nothing: protected items only become
\* fewer, and stay pinned; the callers' lists only become shorter.
LEMMA CalmKeepsGuarded ==
    ASSUME TypeOK, Guarded,
           \A c \in Callers :
              /\ protected'[c] \subseteq protected[c] \cap pinned'
              /\ Elems(todo'[c]) \subseteq Elems(todo[c])
              /\ \/ pc'[c] # "act"
                 \/ pc'[c] = pc[c] /\ op'[c] = op[c]
                    /\ (op[c] # "capacity" => todo'[c] = todo[c])
    PROVE  Guarded'
<1> SUFFICES ASSUME NEW c \in Callers
             PROVE  /\ protected'[c] \subseteq pinned'
                    /\ \A x \in Elems(todo'[c]) : \A p \in protected'[c] :
                          x.id = p[1] => Pair(x) = p
                    /\ pc'[c] = "act" /\ op'[c] \in {"importance", "age"} =>
                          Pair(Head(todo'[c])) \notin protected'[c]
                    /\ pc'[c] = "act" /\ op'[c] = "capacity" =>
                          \A x \in Elems(todo'[c]) : Pair(x) \notin protected'[c]
  BY DEF Guarded, Elems, Pair
<1>1. protected'[c] \subseteq pinned' /\ protected'[c] \subseteq protected[c]
  OBVIOUS
<1>2. \A x \in Elems(todo'[c]) : \A p \in protected'[c] : x.id = p[1] => Pair(x) = p
  BY <1>1 DEF Guarded
<1>3. pc'[c] = "act" /\ op'[c] \in {"importance", "age"} =>
         Pair(Head(todo'[c])) \notin protected'[c]
  BY <1>1 DEF Guarded
<1>4. pc'[c] = "act" /\ op'[c] = "capacity" =>
         \A x \in Elems(todo'[c]) : Pair(x) \notin protected'[c]
  BY <1>1 DEF Guarded
<1> QED BY <1>1, <1>2, <1>3, <1>4

\* The steps in which one caller lists or chooses and nothing else happens.
LEMMA OneKeepsGuarded ==
    ASSUME TypeOK, Guarded, NEW c \in Callers, protected' = protected, pinned' = pinned,
           \A d \in Callers : d # c =>
              todo'[d] = todo[d] /\ pc'[d] = pc[d] /\ op'[d] = op[d],
           \A x \in Elems(todo'[c]) : \A p \in protected[c] : x.id = p[1] => Pair(x) = p,
           pc'[c] = "act" /\ op'[c] \in {"importance", "age"} =>
              Pair(Head(todo'[c])) \notin protected[c],
           pc'[c] = "act" /\ op'[c] = "capacity" =>
              \A x \in Elems(todo'[c]) : Pair(x) \notin protected[c]
    PROVE  Guarded'
<1> SUFFICES ASSUME NEW d \in Callers
             PROVE  /\ protected'[d] \subseteq pinned'
                    /\ \A x \in Elems(todo'[d]) : \A p \in protected'[d] :
                          x.id = p[1] => Pair(x) = p
                    /\ pc'[d] = "act" /\ op'[d] \in {"importance", "age"} =>
                          Pair(Head(todo'[d])) \notin protected'[d]
                    /\ pc'[d] = "act" /\ op'[d] = "capacity" =>
                          \A x \in Elems(todo'[d]) : Pair(x) \notin protected'[d]
  BY DEF Guarded, Elems, Pair
<1>1. CASE d = c
  BY <1>1 DEF Guarded
<1>2. CASE d # c
  BY <1>2 DEF Guarded
<1> QED BY <1>1, <1>2

\* A copy made now of a protected item's ID is a copy of that item.
LEMMA FreshCopy ==
    ASSUME TypeOK, PinnedSurvive, NEW c \in Callers, NEW id \in Present,
           NEW p \in protected[c], Copy(id).id = p[1]
    PROVE  Pair(Copy(id)) = p
<1>1. Copy(id).id = id /\ Copy(id).inc = items[id].inc
  BY CopyType
<1>2. Current(id) = p
  BY <1>1 DEF PinnedSurvive
<1> QED BY <1>1, <1>2 DEF Current, Pair

\* Items that are not touched stay where they are, whatever their scope.
LEMMA UntouchedSurvive ==
    ASSUME TypeOK, PinnedSurvive,
           \A c \in Callers : protected'[c] \subseteq protected[c]
                /\ \A p \in protected'[c] :
                      \/ items'[p[1]] = items[p[1]]
                      \/ items'[p[1]] # Nil /\ items'[p[1]].inc = items[p[1]].inc
    PROVE  PinnedSurvive'
BY DEF PinnedSurvive, Present, Current

\* Every step keeps protected items in the tier and guarded.
LEMMA StepPinned ==
    ASSUME TypeOK, Shape, Guarded, PinnedSurvive, [Next]_vars
    PROVE  Guarded' /\ PinnedSurvive'
<1> USE DEF tierVars, histVars
<1>0. Elems(<< >>) = {}
  BY DEF Elems
<1>1. ASSUME NEW s \in Scopes, NEW id \in Ids, NEW pin \in BOOLEAN, Add(s, id, pin)
      PROVE  Guarded' /\ PinnedSurvive'
  <2>1. \A c \in Callers : protected'[c] = {p \in protected[c] : p[1] # id}
    BY <1>1 DEF Add
  <2>2. pinned \subseteq pinned' /\ UNCHANGED <<pc, op, todo>>
    BY <1>1 DEF Add
  <2>3. Guarded'
    BY <2>1, <2>2, CalmKeepsGuarded DEF Guarded
  <2>4. \A c \in Callers : \A p \in protected'[c] : items'[p[1]] = items[p[1]]
    BY <1>1, <2>1 DEF Add, TypeOK
  <2> QED BY <2>1, <2>3, <2>4, UntouchedSurvive
<1>15. ASSUME NEW s \in Scopes, NEW id \in Ids, NEW from \in Ids, AddShared(s, id, from)
       PROVE  Guarded' /\ PinnedSurvive'
  <2>1. \A c \in Callers : protected'[c] = {p \in protected[c] : p[1] # id}
    BY <1>15 DEF AddShared
  <2>2. pinned \subseteq pinned' /\ UNCHANGED <<pc, op, todo>>
    BY <1>15 DEF AddShared
  <2>3. Guarded'
    BY <2>1, <2>2, CalmKeepsGuarded DEF Guarded
  <2>4. ASSUME NEW c \in Callers, NEW p \in protected'[c]
        PROVE  items'[p[1]] # Nil /\ items'[p[1]].inc = items[p[1]].inc
    <3>1. p[1] \in Ids /\ p[1] # id /\ items[p[1]] # Nil
      BY <2>1 DEF PinnedSurvive, Present
    <3>2. items'[p[1]] = Stamped(s, from)[p[1]]
      BY <1>15, <3>1, StampedItems DEF AddShared
    <3> QED BY <3>1, <3>2, StampedItems
  <2> QED BY <2>1, <2>3, <2>4, UntouchedSurvive
<1>16. ASSUME NEW s \in Scopes, NEW from \in Ids, AddElsewhere(s, from)
       PROVE  Guarded' /\ PinnedSurvive'
  <2>1. UNCHANGED <<pinned, protected, pc, op, todo>> /\ items' = Stamped(s, from)
    BY <1>16 DEF AddElsewhere
  <2>2. Guarded'
    BY <2>1, CalmKeepsGuarded DEF Guarded
  <2>3. ASSUME NEW c \in Callers, NEW p \in protected'[c]
        PROVE  items'[p[1]] # Nil /\ items'[p[1]].inc = items[p[1]].inc
    <3>1. p[1] \in Ids /\ items[p[1]] # Nil
      BY <2>1 DEF PinnedSurvive, Present
    <3> QED BY <2>1, <3>1, StampedItems
  <2> QED BY <2>1, <2>2, <2>3, UntouchedSurvive
<1>2. ASSUME NEW c \in Users, NEW s \in Scopes, NEW id \in Ids,
             NEW what \in {"update", "remove"}, LookUp(c, s, id, what)
      PROVE  Guarded' /\ PinnedSurvive'
  <2>1. c \in Callers /\ id \in Present
    BY <1>2 DEF Callers, LookUp, InScope
  <2>2. todo'[c] = <<Copy(id)>> /\ op'[c] = what
    BY <1>2, <2>1 DEF LookUp, TypeOK
  <2>3. Elems(todo'[c]) = {Copy(id)}
    BY <2>2 DEF Elems
  <2>4. UNCHANGED <<items, pinned, protected>>
    BY <1>2 DEF LookUp
  <2>5. \A d \in Callers : d # c =>
           todo'[d] = todo[d] /\ pc'[d] = pc[d] /\ op'[d] = op[d]
    BY <1>2 DEF LookUp, TypeOK
  <2>6. \A x \in Elems(todo'[c]) : \A p \in protected[c] : x.id = p[1] => Pair(x) = p
    BY <2>1, <2>3, FreshCopy
  <2>7. Guarded'
    BY <2>1, <2>2, <2>4, <2>5, <2>6, OneKeepsGuarded
  <2> QED BY <2>4, <2>7, UntouchedSurvive
<1>3. ASSUME NEW c \in Callers, Leave(c),
             \A d \in Callers : protected'[d] \subseteq protected[d] \cap pinned'
      PROVE  Guarded'
  <2>1. todo'[c] = << >> /\ pc'[c] = "idle"
    BY <1>3 DEF Leave, TypeOK
  <2>2. \A d \in Callers : d # c =>
           todo'[d] = todo[d] /\ pc'[d] = pc[d] /\ op'[d] = op[d]
    BY <1>3 DEF Leave, TypeOK
  <2> QED BY <1>0, <1>3, <2>1, <2>2, CalmKeepsGuarded
<1>4. ASSUME NEW c \in Users, NEW pin \in BOOLEAN, Update(c, pin)
      PROVE  Guarded' /\ PinnedSurvive'
  <2>1. c \in Callers /\ Leave(c) /\ items' = items
    BY <1>4 DEF Callers, Update
  <2> DEFINE all == SharedBy(Current(Head(todo[c]).id))
  <2>2. \/ pinned' = pinned \cup all /\ protected' = protected
        \/ pinned' = pinned \ all /\ protected' = [d \in Callers |-> protected[d] \ all]
    BY <1>4 DEF Update
  <2> HIDE DEF all
  <2>3. \A d \in Callers : protected'[d] \subseteq protected[d] \cap pinned'
    BY <2>2 DEF Guarded
  <2> QED BY <1>3, <2>1, <2>3, UntouchedSurvive
<1>5. ASSUME NEW c \in Users, Remove(c) PROVE Guarded' /\ PinnedSurvive'
  <2> DEFINE id == Head(todo[c]).id
  <2>1. c \in Callers /\ Leave(c) /\ pinned' = pinned
    BY <1>5 DEF Callers, Remove
  <2>2. /\ items' = [items EXCEPT ![id] = Nil]
        /\ protected' = [d \in Callers |-> protected[d] \ {Current(id)}]
    BY <1>5 DEF Remove
  <2> HIDE DEF id
  <2>3. \A d \in Callers : protected'[d] \subseteq protected[d] \cap pinned'
    BY <2>1, <2>2 DEF Guarded
  <2>4. \A d \in Callers : \A p \in protected'[d] : p[1] # id /\ p[1] \in Ids
    BY <2>2 DEF PinnedSurvive, Present
  <2>5. \A d \in Callers : \A p \in protected'[d] : items'[p[1]] = items[p[1]]
    BY <2>2, <2>4 DEF TypeOK
  <2> QED BY <1>3, <2>1, <2>3, <2>5, UntouchedSurvive
<1>6. ASSUME NEW c \in Users, Gone(c) PROVE Guarded' /\ PinnedSurvive'
  <2>1. c \in Callers /\ Leave(c) /\ UNCHANGED <<items, pinned, protected>>
    BY <1>6 DEF Callers, Gone
  <2> QED BY <1>3, <2>1, UntouchedSurvive DEF Guarded
<1>7. ASSUME NEW c \in Lifecycles, Return(c) \/ AddCloneFails(c)
      PROVE  Guarded' /\ PinnedSurvive'
  <2>1. c \in Callers /\ Leave(c) /\ UNCHANGED <<items, pinned>>
    BY <1>7 DEF Callers, Return, AddCloneFails
  <2>2. \A d \in Callers : protected'[d] \subseteq protected[d] \cap pinned'
    BY <1>7, <2>1 DEF Return, AddCloneFails, TypeOK, Guarded
  <2> QED BY <1>3, <2>1, <2>2, UntouchedSurvive
<1>8. ASSUME NEW c \in Lifecycles, NEW s \in Scopes,
             \/ \E how \in Strategies : ForgetScoped(c, s, how)
             \/ ConsolidateScoped(c, s)
      PROVE  Guarded' /\ PinnedSurvive'
  <2>0. PICK what \in Sweeps, copies \in SUBSET InSight(s) : Sweep(c, s, what, copies)
    BY <1>8, SweepsOf
  <2>1. c \in Callers /\ todo[c] = << >>
    BY <2>0 DEF Callers, Sweep, Shape
  <2>2. UNCHANGED <<items, pinned, todo>>
    BY <2>0 DEF Sweep
  <2>3. /\ pc'[c] = "list"
        /\ protected'[c] = {Current(id) : id \in Present} \cap pinned
    BY <2>0, <2>1 DEF Sweep, TypeOK
  <2>4. \A d \in Callers : d # c =>
           pc'[d] = pc[d] /\ op'[d] = op[d] /\ protected'[d] = protected[d]
    BY <2>0 DEF Sweep, TypeOK
  <2>5. Guarded'
    BY <1>0, <2>1, <2>2, <2>3, <2>4 DEF Guarded, Elems, Pair
  <2>6. \A p \in protected'[c] : p[1] \in Present /\ Current(p[1]) = p
    BY <2>3 DEF Current
  <2>7. PinnedSurvive'
    BY <2>2, <2>4, <2>6 DEF PinnedSurvive, Present, Current
  <2> QED BY <2>5, <2>7
<1>9. ASSUME NEW c \in Lifecycles, List(c) PROVE Guarded' /\ PinnedSurvive'
  <2>1. c \in Callers /\ todo[c] \in Seq(Copies)
    BY DEF Callers, TypeOK
  <2>2. PICK copies \in Listed(InScope(as[c])) :
           todo' = [todo EXCEPT ![c] = @ \o copies]
    BY <1>9 DEF List
  <2>3. /\ copies \in Seq(Copies)
        /\ Elems(copies) \subseteq {Copy(id) : id \in InScope(as[c])}
    BY ListedCopies DEF InScope
  <2>4. /\ todo'[c] = todo[c] \o copies /\ pc[c] = "list"
        /\ UNCHANGED <<items, pinned, protected, pc, op>>
    BY <1>9, <2>1, <2>2 DEF List, TypeOK
  <2>5. Elems(todo'[c]) \subseteq Elems(todo[c]) \cup {Copy(id) : id \in InScope(as[c])}
    BY <2>1, <2>3, <2>4, AppendElems
  <2>6. \A x \in Elems(todo'[c]) : \A p \in protected[c] : x.id = p[1] => Pair(x) = p
    <3> SUFFICES ASSUME NEW x \in Elems(todo'[c]), NEW p \in protected[c], x.id = p[1]
                 PROVE  Pair(x) = p
      OBVIOUS
    <3>1. CASE x \in Elems(todo[c])
      BY <2>1, <3>1 DEF Guarded
    <3>2. CASE x \in {Copy(id) : id \in InScope(as[c])}
      <4>1. PICK id \in InScope(as[c]) : x = Copy(id)
        BY <3>2
      <4>2. id \in Present
        BY DEF InScope
      <4> QED BY <2>1, <4>1, <4>2, FreshCopy
    <3> QED BY <2>5, <3>1, <3>2
  <2>7. \A d \in Callers : d # c => todo'[d] = todo[d]
    BY <2>2 DEF TypeOK
  <2>8. Guarded'
    BY <2>1, <2>4, <2>6, <2>7, OneKeepsGuarded
  <2> QED BY <2>4, <2>8, UntouchedSurvive
<1>10. ASSUME NEW c \in Lifecycles, Select(c) \/ Finish(c)
       PROVE  Guarded' /\ PinnedSurvive'
  <2>1. c \in Callers /\ UNCHANGED <<items, pinned, protected, op, todo>>
    BY <1>10 DEF Callers, Select, Finish
  <2>2. pc'[c] # "act" /\ \A d \in Callers : d # c => pc'[d] = pc[d]
    BY <1>10, <2>1 DEF Select, Finish, TypeOK
  <2>3. Guarded'
    BY <2>1, <2>2, CalmKeepsGuarded DEF Guarded
  <2> QED BY <2>1, <2>3, UntouchedSurvive
<1>11. ASSUME NEW c \in Lifecycles, Check(c) PROVE Guarded' /\ PinnedSurvive'
  <2>1. /\ c \in Callers /\ todo[c] \in Seq(Copies) /\ todo[c] # << >>
        /\ op[c] \in {"importance", "age", "consolidate"}
    BY <1>11 DEF Callers, Check, TypeOK, Shape
  <2>2. Elems(Tail(todo[c])) \subseteq Elems(todo[c])
    BY <2>1, ListElems
  <2>3. /\ UNCHANGED <<items, pinned, protected, op>>
        /\ \A d \in Callers : d # c => todo'[d] = todo[d] /\ pc'[d] = pc[d]
    BY <1>11 DEF Check, TypeOK
  <2>4. CASE Chosen(c, Head(todo[c]))
    <3>1. op[c] \in {"importance", "age"} => Pair(Head(todo[c])) \notin protected[c]
      BY <2>1, <2>4 DEF Chosen, Forgettable, IsPinned, Pair, Guarded
    <3>2. todo' = todo
      BY <1>11, <2>4 DEF Check
    <3>3. \A x \in Elems(todo'[c]) : \A p \in protected[c] : x.id = p[1] => Pair(x) = p
      BY <2>1, <3>2 DEF Guarded
    <3>4. Guarded'
      BY <2>1, <2>3, <3>1, <3>2, <3>3, OneKeepsGuarded
    <3> QED BY <2>3, <3>4, UntouchedSurvive
  <2>5. CASE ~Chosen(c, Head(todo[c]))
    <3>1. pc' = pc /\ pc[c] # "act" /\ todo'[c] = Tail(todo[c])
      BY <1>11, <2>1, <2>5 DEF Check, TypeOK
    <3>2. Guarded'
      BY <2>2, <2>3, <3>1, CalmKeepsGuarded DEF Guarded
    <3> QED BY <2>3, <3>2, UntouchedSurvive
  <2> QED BY <2>4, <2>5
<1>12. ASSUME NEW c \in Lifecycles, Plan(c) PROVE Guarded' /\ PinnedSurvive'
  <2> DEFINE picked == IF Keep = 0 THEN {} ELSE Evictees(todo[c])
  <2>1. c \in Callers /\ todo[c] \in Seq(Copies) /\ picked \subseteq Loose(todo[c])
    BY DEF Callers, TypeOK, Evictees
  <2>2. PICK s \in Sorted(todo[c], picked) : todo' = [todo EXCEPT ![c] = s]
    BY <1>12 DEF Plan
  <2>3. Elems(s) \subseteq {todo[c][i] : i \in picked}
    <3>1. picked \subseteq DOMAIN todo[c]
      BY <2>1 DEF Loose
    <3> QED BY <2>1, <3>1, SortedCopies
  <2>4. todo'[c] = s /\ \A d \in Callers : d # c => todo'[d] = todo[d] /\ pc'[d] = pc[d]
    BY <1>12, <2>1, <2>2 DEF TypeOK, Plan
  <2>5. \A x \in Elems(s) : Pair(x) \notin protected[c] /\ x \in Elems(todo[c])
    <3> SUFFICES ASSUME NEW x \in Elems(s)
                 PROVE  Pair(x) \notin protected[c] /\ x \in Elems(todo[c])
      OBVIOUS
    <3>1. PICK i \in picked : x = todo[c][i]
      BY <2>3
    <3>2. i \in DOMAIN todo[c] /\ ~IsPinned(todo[c][i])
      BY <2>1, <3>1 DEF Loose
    <3> QED BY <2>1, <3>1, <3>2 DEF IsPinned, Pair, Guarded, Elems
  <2>6. op[c] = "capacity" /\ UNCHANGED <<items, pinned, protected, op>>
    BY <1>12 DEF Plan
  <2>7. \A x \in Elems(todo'[c]) : \A p \in protected[c] : x.id = p[1] => Pair(x) = p
    BY <2>1, <2>4, <2>5 DEF Guarded
  <2>8. Guarded'
    BY <2>1, <2>4, <2>5, <2>6, <2>7, OneKeepsGuarded
  <2> QED BY <2>6, <2>8, UntouchedSurvive
<1>13. ASSUME NEW c \in Lifecycles, Forget(c) PROVE Guarded' /\ PinnedSurvive'
  <2> DEFINE id == Head(todo[c]).id
  <2>1. c \in Callers /\ todo[c] \in Seq(Copies) /\ todo[c] # << >>
    BY <1>13 DEF Callers, Forget, TypeOK
  <2>2. Elems(Tail(todo[c])) \subseteq Elems(todo[c]) /\ Head(todo[c]) \in Elems(todo[c])
    BY <2>1, ListElems
  <2>3. /\ pc[c] = "act" /\ op[c] \in {"importance", "age", "capacity"}
        /\ pc'[c] = IF op[c] = "capacity" THEN "act" ELSE "check"
        /\ todo'[c] = Tail(todo[c]) /\ op' = op /\ pinned' = pinned
        /\ \A d \in Callers : d # c => todo'[d] = todo[d] /\ pc'[d] = pc[d]
    BY <1>13, <2>1 DEF Forget, TypeOK, Strategies
  <2>4. /\ items' = [items EXCEPT ![id] = Nil]
        /\ protected' = [d \in Callers |->
                           IF d # c /\ id \in Present THEN protected[d] \ {Current(id)}
                           ELSE protected[d]]
    BY <1>13 DEF Forget
  <2>5. \A d \in Callers : protected'[d] \subseteq protected[d] \cap pinned'
    BY <2>3, <2>4 DEF Guarded
  <2>6. Guarded'
    BY <2>2, <2>3, <2>5, CalmKeepsGuarded
  <2>7. \A p \in protected[c] : p[1] # id
    <3> SUFFICES ASSUME NEW p \in protected[c], p[1] = id PROVE FALSE
      OBVIOUS
    <3>1. Pair(Head(todo[c])) = p
      BY <2>1, <2>2 DEF Guarded
    <3> QED BY <2>1, <2>2, <2>3, <3>1 DEF Guarded
  <2> HIDE DEF id
  <2>8. \A d \in Callers : \A p \in protected'[d] : p[1] # id /\ p[1] \in Ids
    BY <2>1, <2>4, <2>7 DEF PinnedSurvive, Present
  <2>9. \A d \in Callers : \A p \in protected'[d] : items'[p[1]] = items[p[1]]
    BY <2>4, <2>8 DEF TypeOK
  <2> QED BY <2>5, <2>6, <2>9, UntouchedSurvive
<1>14. CASE UNCHANGED vars
  BY <1>14 DEF vars, Guarded, Elems, Pair, PinnedSurvive, Present, Current
<1>17. ASSUME NEW c \in Lifecycles, AddClone(c) PROVE Guarded' /\ PinnedSurvive'
  <2>1. c \in Callers /\ todo[c] \in Seq(Copies) /\ todo[c] # << >>
    BY <1>17 DEF Callers, AddClone, TypeOK, Shape
  <2>2. Elems(Tail(todo[c])) \subseteq Elems(todo[c])
    BY <2>1, ListElems
  <2>3. /\ pc'[c] = "check" /\ todo'[c] = Tail(todo[c])
        /\ UNCHANGED <<items, pinned, protected, op>>
        /\ \A d \in Callers : d # c => todo'[d] = todo[d] /\ pc'[d] = pc[d]
    BY <1>17, <2>1 DEF AddClone, TypeOK
  <2>4. Guarded'
    BY <2>2, <2>3, CalmKeepsGuarded DEF Guarded
  <2> QED BY <2>3, <2>4, UntouchedSurvive
<1> QED
  BY <1>1, <1>2, <1>4, <1>5, <1>6, <1>7, <1>8, <1>9, <1>10, <1>11, <1>12,
     <1>13, <1>14, <1>15, <1>16, <1>17 DEF Next

\* For any callers, strategies, IDs and number of listings: an item that is
\* pinned when ForgetScoped is called, and stays pinned, survives that call.
THEOREM PinsAreKept == Spec => []PinnedSurvive
<1> DEFINE Inv == TypeOK /\ Shape /\ Guarded /\ PinnedSurvive
<1>1. Init => Inv
  <2>1. Init => Guarded /\ PinnedSurvive
    BY DEF Init, Guarded, PinnedSurvive, Elems
  <2> QED BY <2>1, InitTyped
<1>2. Inv /\ [Next]_vars => Inv'
  BY StepTyped, StepPinned
<1>3. Inv => PinnedSurvive
  OBVIOUS
<1> HIDE DEF Inv
<1> QED BY <1>1, <1>2, <1>3, PTL DEF Spec
----------------------------------------------------------------------------
(* Counting copies.                                                        *)

\* How often a copy is in a list.
Count(s, x) == Cardinality({i \in DOMAIN s : s[i] = x})

\* A count is a number, zero exactly when the copy is not in the list.
LEMMA CountType ==
    ASSUME NEW s \in Seq(Copies), NEW x
    PROVE  /\ Count(s, x) \in Nat
           /\ IsFiniteSet({i \in DOMAIN s : s[i] = x})
           /\ x \notin Elems(s) => Count(s, x) = 0
           /\ Count(<< >>, x) = 0
<1> DEFINE At == {i \in DOMAIN s : s[i] = x}
<1>1. At \subseteq 1..Len(s) /\ Len(s) \in Nat
  OBVIOUS
<1>2. IsFiniteSet(1..Len(s))
  BY <1>1, FS_Interval
<1>3. IsFiniteSet(At) /\ Cardinality(At) \in Nat
  BY <1>1, <1>2, FS_Subset, FS_CardinalityType
<1>4. ASSUME x \notin Elems(s) PROVE At = {}
  BY <1>4 DEF Elems
<1>5. {i \in DOMAIN << >> : << >>[i] = x} = {}
  OBVIOUS
<1> QED BY <1>3, <1>4, <1>5, FS_EmptySet DEF Count

\* The counts in two lists add up to that in their concatenation.
LEMMA CountConcat ==
    ASSUME NEW s \in Seq(Copies), NEW t \in Seq(Copies), NEW x
    PROVE  Count(s \o t, x) = Count(s, x) + Count(t, x)
<1> DEFINE m == Len(s)
           n == Len(t)
           InS == {i \in DOMAIN s : s[i] = x}
           InT == {i \in DOMAIN t : t[i] = x}
           Moved == {i \in (m + 1)..(m + n) : t[i - m] = x}
           Both == {i \in DOMAIN (s \o t) : (s \o t)[i] = x}
           move == [i \in InT |-> i + m]
<1>1. /\ m \in Nat /\ n \in Nat /\ DOMAIN s = 1..m /\ DOMAIN t = 1..n
      /\ DOMAIN (s \o t) = 1..(m + n)
  OBVIOUS
<1>2. \A i \in 1..(m + n) : (s \o t)[i] = IF i <= m THEN s[i] ELSE t[i - m]
  OBVIOUS
<1> HIDE DEF m, n
<1>3. Both = InS \cup Moved
  <2>1. ASSUME NEW i \in Both PROVE i \in InS \cup Moved
    BY <1>1, <1>2
  <2>2. ASSUME NEW i \in InS PROVE i \in Both
    BY <1>1, <1>2
  <2>3. ASSUME NEW i \in Moved PROVE i \in Both
    BY <1>1, <1>2
  <2> QED BY <2>1, <2>2, <2>3
<1>4. InS \cap Moved = {}
  BY <1>1
<1>5. move \in Bijection(InT, Moved)
  <2>1. \A i \in InT : move[i] \in Moved
    <3>1. ASSUME NEW i \in InT PROVE i + m \in Moved
      <4>1. i + m \in (m + 1)..(m + n) /\ (i + m) - m = i
        BY <1>1
      <4> QED BY <4>1
    <3> QED BY <3>1
  <2>2. \A i, j \in InT : move[i] = move[j] => i = j
    BY <1>1
  <2>3. \A k \in Moved : \E i \in InT : move[i] = k
    <3>1. ASSUME NEW k \in Moved PROVE k - m \in InT /\ move[k - m] = k
      BY <1>1
    <3> QED BY <3>1
  <2>4. move \in [InT -> Moved]
    BY <2>1
  <2> HIDE DEF move, InT, Moved
  <2> QED BY <2>2, <2>3, <2>4 DEF Bijection, Injection, Surjection, IsInjective
<1>6. /\ IsFiniteSet(InS) /\ IsFiniteSet(InT)
      /\ Cardinality(InS) \in Nat /\ Cardinality(InT) \in Nat
  BY CountType DEF Count
<1>7. /\ Count(s, x) = Cardinality(InS) /\ Count(t, x) = Cardinality(InT)
      /\ Count(s \o t, x) = Cardinality(Both)
  BY DEF Count
<1> HIDE DEF InS, InT, Moved, Both, move
<1>8. IsFiniteSet(Moved) /\ Cardinality(Moved) = Cardinality(InT)
  BY <1>5, <1>6, FS_Bijection DEF ExistsBijection
<1>9. Cardinality(InS \cup Moved) = Cardinality(InS) + Cardinality(Moved)
  <2>1. Cardinality(InS \cup Moved) =
           Cardinality(InS) + Cardinality(Moved) - Cardinality(InS \cap Moved)
    BY <1>6, <1>8, FS_Union
  <2>2. Cardinality(InS \cap Moved) = 0
    BY <1>4, FS_EmptySet
  <2> QED BY <1>6, <1>8, <2>1, <2>2
<1> QED BY <1>3, <1>7, <1>8, <1>9

\* What Head, Tail and Append do to a count.
LEMMA CountStep ==
    ASSUME NEW s \in Seq(Copies), NEW x
    PROVE  /\ s # << >> =>
                 Count(s, x) = Count(Tail(s), x) + (IF Head(s) = x THEN 1 ELSE 0)
           /\ \A e \in Copies :
                 Count(Append(s, e), x) = Count(s, x) + (IF e = x THEN 1 ELSE 0)
<1>1. ASSUME NEW e \in Copies
      PROVE  <<e>> \in Seq(Copies) /\ Count(<<e>>, x) = IF e = x THEN 1 ELSE 0
  <2>1. {i \in DOMAIN <<e>> : <<e>>[i] = x} = IF e = x THEN {1} ELSE {}
    OBVIOUS
  <2>2. Cardinality(IF e = x THEN {1} ELSE {}) = IF e = x THEN 1 ELSE 0
    BY FS_EmptySet, FS_Singleton
  <2>3. Count(<<e>>, x) = IF e = x THEN 1 ELSE 0
    BY <2>1, <2>2 DEF Count
  <2> QED BY <2>3
<1>2. ASSUME NEW e \in Copies
      PROVE  Count(Append(s, e), x) = Count(s, x) + (IF e = x THEN 1 ELSE 0)
  <2>1. Append(s, e) = s \o <<e>>
    OBVIOUS
  <2>2. Count(s \o <<e>>, x) = Count(s, x) + Count(<<e>>, x)
    BY <1>1, CountConcat
  <2> QED BY <1>1, <2>1, <2>2
<1>3. ASSUME s # << >>
      PROVE  Count(s, x) = Count(Tail(s), x) + (IF Head(s) = x THEN 1 ELSE 0)
  <2>1. Head(s) \in Copies /\ Tail(s) \in Seq(Copies) /\ s = <<Head(s)>> \o Tail(s)
    BY <1>3
  <2>2. Count(<<Head(s)>> \o Tail(s), x) = Count(<<Head(s)>>, x) + Count(Tail(s), x)
    BY <1>1, <2>1, CountConcat
  <2>3. Count(Tail(s), x) \in Nat /\ Count(<<Head(s)>>, x) \in Nat
    BY <1>1, <2>1, CountType
  <2>4. Count(<<Head(s)>>, x) = IF Head(s) = x THEN 1 ELSE 0
    BY <1>1, <2>1
  <2>5. Count(s, x) = Count(<<Head(s)>>, x) + Count(Tail(s), x)
    BY <2>1, <2>2
  <2> HIDE DEF Count
  <2> QED BY <2>3, <2>4, <2>5
<1> QED BY <1>2, <1>3

\* A listing holds a copy of every item listed, at one place.
LEMMA ListedOnce ==
    ASSUME TypeOK, NEW ids, ids \subseteq Present, NEW s \in Listed(ids)
    PROVE  /\ \A i, j \in DOMAIN s : s[i].id = s[j].id => i = j
           /\ Elems(s) = {Copy(id) : id \in ids}
<1> DEFINE n == Cardinality(ids)
           T == {Copy(id) : id \in ids}
           copy == [id \in ids |-> Copy(id)]
<1>1. IsFiniteSet(ids) /\ n \in Nat
  <2>1. ids \subseteq Ids
    BY DEF Present
  <2> QED BY <2>1, IdsAssumption, FS_Subset, FS_CardinalityType
<1>2. /\ s \in [1..n -> T] /\ DOMAIN s = 1..n
      /\ \A i, j \in 1..n : i < j => s[i].id < s[j].id
  BY DEF Listed
<1>3. \A x \in T : x.id \in Nat
  <2>1. \A id \in ids : Copy(id).id \in Nat
    BY CopyType, IdsAssumption
  <2> QED BY <2>1
<1>4. \A i, j \in 1..n : s[i].id = s[j].id => i = j
  <2> SUFFICES ASSUME NEW i \in 1..n, NEW j \in 1..n, s[i].id = s[j].id, i < j \/ j < i
               PROVE  FALSE
    BY <1>1
  <2>1. s[i].id \in Nat /\ s[j].id \in Nat
    BY <1>2, <1>3
  <2> QED BY <1>2, <2>1
<1>5. copy \in Bijection(ids, T)
  <2>1. \A i, j \in ids : copy[i] = copy[j] => i = j
    <3>1. \A i \in ids : Copy(i).id = i
      BY CopyType
    <3> QED BY <3>1
  <2>2. copy \in [ids -> T] /\ \A x \in T : \E i \in ids : copy[i] = x
    OBVIOUS
  <2> HIDE DEF copy, T
  <2> QED BY <2>1, <2>2 DEF Bijection, Injection, Surjection, IsInjective
<1> HIDE DEF T, copy
<1>6. IsFiniteSet(T) /\ Cardinality(T) = n
  BY <1>1, <1>5, FS_Bijection DEF ExistsBijection
<1> HIDE DEF n
<1>7. s \in Injection(1..n, T)
  BY <1>2, <1>4 DEF Injection, IsInjective
<1>8. Cardinality(1..n) = n
  <2>1. Cardinality(1..n) = IF 1 > n THEN 0 ELSE n - 1 + 1
    BY <1>1, FS_Interval
  <2> QED BY <1>1, <2>1
<1>9. s \in Surjection(1..n, T)
  BY <1>6, <1>7, <1>8, FS_Injection
<1>10. Elems(s) = T
  BY <1>2, <1>9 DEF Elems, Surjection
<1> QED BY <1>2, <1>4, <1>10 DEF T

\* So a listing holds a copy of every item listed once, and no other copy.
LEMMA CountListed ==
    ASSUME TypeOK, NEW ids, ids \subseteq Present, NEW s \in Listed(ids), NEW x
    PROVE  Count(s, x) = IF x \in {Copy(id) : id \in ids} THEN 1 ELSE 0
<1>1. /\ \A i, j \in DOMAIN s : s[i].id = s[j].id => i = j
      /\ Elems(s) = {Copy(id) : id \in ids}
      /\ s \in Seq(Copies)
  BY ListedOnce, ListedCopies
<1>2. CASE x \in Elems(s)
  <2>1. PICK i \in DOMAIN s : s[i] = x
    BY <1>2 DEF Elems
  <2>2. {j \in DOMAIN s : s[j] = x} = {i}
    BY <1>1, <2>1
  <2>3. Count(s, x) = 1
    BY <2>2, FS_Singleton DEF Count
  <2> QED BY <1>1, <1>2, <2>3
<1>3. CASE x \notin Elems(s)
  <2>1. Count(s, x) = 0
    BY <1>1, <1>3, CountType
  <2> QED BY <1>1, <1>3, <2>1
<1> QED BY <1>2, <1>3
----------------------------------------------------------------------------
(* The sort of ForgetByCapacity.                                           *)

\* The place of a candidate after the sort counts the candidates from 0: no
\* two have the same, every number below that of the candidates is one, and
\* a less important candidate comes first.
LEMMA Places ==
    ASSUME NEW copies \in Seq(Copies)
    PROVE  /\ IsFiniteSet(Loose(copies)) /\ Cardinality(Loose(copies)) \in Nat
           /\ \A i \in Loose(copies) :
                 Place(copies, i) \in 0..(Cardinality(Loose(copies)) - 1)
           /\ \A i, j \in Loose(copies) : Place(copies, i) = Place(copies, j) => i = j
           /\ \A p \in 0..(Cardinality(Loose(copies)) - 1) :
                 \E i \in Loose(copies) : Place(copies, i) = p
           /\ \A i, j \in Loose(copies) : Place(copies, i) < Place(copies, j) =>
                 Importance[copies[i].id] <= Importance[copies[j].id]
<1> DEFINE L == Loose(copies)
           n == Cardinality(L)
           Imp(i) == Importance[copies[i].id]
           Lower(j, i) == Imp(j) < Imp(i) \/ (Imp(j) = Imp(i) /\ j < i)
           Under(i) == {j \in L : Lower(j, i)}
           place == [i \in L |-> Place(copies, i)]
<1>1. L \subseteq 1..Len(copies) /\ Len(copies) \in Nat
  BY DEF Loose
<1>2. \A i \in L : i \in Nat /\ Imp(i) \in Nat
  <2>1. \A i \in L : copies[i] \in Copies
    BY <1>1
  <2>2. \A i \in L : copies[i].id \in Ids
    BY <2>1 DEF Copies
  <2> QED BY <1>1, <2>2, ForgetAssumption
<1>3. IsFiniteSet(L) /\ n \in Nat
  <2>1. IsFiniteSet(1..Len(copies))
    BY <1>1, FS_Interval
  <2> QED BY <1>1, <2>1, FS_Subset, FS_CardinalityType
<1>4. \A i : Place(copies, i) = Cardinality(Under(i))
  BY DEF Place
<1> HIDE DEF L, Imp
<1>5. /\ \A i, j \in L : i = j \/ Lower(i, j) \/ Lower(j, i)
      /\ \A i \in L : ~Lower(i, i)
      /\ \A i, j, k \in L : Lower(i, j) /\ Lower(j, k) => Lower(i, k)
      /\ \A i, j \in L : Lower(i, j) => Imp(i) <= Imp(j)
  BY <1>2
<1> HIDE DEF Lower
<1>6. \A i \in L : /\ Under(i) \subseteq L /\ Under(i) # L /\ IsFiniteSet(Under(i))
                   /\ Cardinality(Under(i)) \in Nat
  <2> SUFFICES ASSUME NEW i \in L
               PROVE  /\ Under(i) \subseteq L /\ Under(i) # L /\ IsFiniteSet(Under(i))
                      /\ Cardinality(Under(i)) \in Nat
    OBVIOUS
  <2>1. Under(i) \subseteq L /\ i \notin Under(i)
    BY <1>5
  <2> HIDE DEF Under
  <2> QED BY <1>3, <2>1, FS_Subset, FS_CardinalityType
<1>7. \A i \in L : place[i] \in 0..(n - 1)
  <2> SUFFICES ASSUME NEW i \in L PROVE Cardinality(Under(i)) \in 0..(n - 1)
    BY <1>4
  <2> HIDE DEF Under
  <2>1. Cardinality(Under(i)) <= n /\ (n = Cardinality(Under(i)) => L = Under(i))
    BY <1>3, <1>6, FS_Subset
  <2> QED BY <1>3, <1>6, <2>1
<1>8. ASSUME NEW i \in L, NEW j \in L, Lower(i, j) PROVE place[i] < place[j]
  <2>1. Under(i) \subseteq Under(j)
    BY <1>5, <1>8
  <2>2. i \in Under(j) /\ i \notin Under(i)
    BY <1>5, <1>8
  <2>3. place[i] = Cardinality(Under(i)) /\ place[j] = Cardinality(Under(j))
    BY <1>4
  <2> HIDE DEF Under, place
  <2>4. /\ Cardinality(Under(i)) <= Cardinality(Under(j))
        /\ Cardinality(Under(j)) = Cardinality(Under(i)) => Under(j) = Under(i)
    BY <1>6, <2>1, FS_Subset
  <2> QED BY <1>6, <2>2, <2>3, <2>4
<1>9. \A i \in L : place[i] = Place(copies, i)
  OBVIOUS
<1>10. place \in [L -> 0..(n - 1)]
  BY <1>7
<1> HIDE DEF place, Under
<1>11. \A i, j \in L : place[i] = place[j] => i = j
  <2> SUFFICES ASSUME NEW i \in L, NEW j \in L, place[i] = place[j], i # j PROVE FALSE
    OBVIOUS
  <2>1. place[i] \in Nat /\ place[j] \in Nat
    BY <1>3, <1>7
  <2>2. place[i] < place[j] \/ place[j] < place[i]
    BY <1>5, <1>8
  <2> QED BY <2>1, <2>2
<1>12. \A i, j \in L : place[i] < place[j] => Imp(i) <= Imp(j)
  <2> SUFFICES ASSUME NEW i \in L, NEW j \in L, place[i] < place[j]
               PROVE  Imp(i) <= Imp(j)
    OBVIOUS
  <2>1. place[i] \in Nat /\ place[j] \in Nat
    BY <1>3, <1>7
  <2>2. ~Lower(j, i)
    <3>1. ASSUME Lower(j, i) PROVE FALSE
      <4>1. place[j] < place[i]
        BY <1>8, <3>1
      <4> QED BY <2>1, <4>1
    <3> QED BY <3>1
  <2>3. i # j
    BY <2>1
  <2> QED BY <1>5, <2>2, <2>3
<1>13. place \in Injection(L, 0..(n - 1))
  BY <1>10, <1>11 DEF Injection, IsInjective
<1>14. IsFiniteSet(0..(n - 1)) /\ Cardinality(0..(n - 1)) = n
  <2>1. /\ IsFiniteSet(0..(n - 1))
        /\ Cardinality(0..(n - 1)) = IF 0 > n - 1 THEN 0 ELSE n - 1 - 0 + 1
    <3>1. 0 \in Int /\ n - 1 \in Int
      BY <1>3
    <3> HIDE DEF n
    <3> QED BY <3>1, FS_Interval
  <2> QED BY <1>3, <2>1
<1>15. place \in Surjection(L, 0..(n - 1))
  BY <1>13, <1>14, FS_Injection
<1>16. \A p \in 0..(n - 1) : \E i \in L : place[i] = p
  BY <1>15 DEF Surjection
<1> HIDE DEF n
<1>17. \A i \in L : Place(copies, i) \in 0..(n - 1)
  BY <1>7, <1>9
<1>18. \A i, j \in L : Place(copies, i) = Place(copies, j) => i = j
  BY <1>9, <1>11
<1>19. \A p \in 0..(n - 1) : \E i \in L : Place(copies, i) = p
  BY <1>9, <1>16
<1>20. \A i, j \in L : Place(copies, i) < Place(copies, j) => Imp(i) <= Imp(j)
  BY <1>9, <1>12
<1> QED BY <1>3, <1>17, <1>18, <1>19, <1>20 DEF L, n, Imp

\* ForgetByCapacity evicts all but Keep candidates, lists each of them, and
\* evicts none that is more important than one it keeps.
LEMMA EvicteesCut ==
    ASSUME NEW copies \in Seq(Copies), NEW s \in Sorted(copies, Evictees(copies))
    PROVE  /\ Elems(s) = {copies[i] : i \in Evictees(copies)}
           /\ Cardinality(Loose(copies)) < Keep => Evictees(copies) = {}
           /\ Cardinality(Loose(copies)) >= Keep =>
                 Cardinality(Loose(copies) \ Evictees(copies)) = Keep
           /\ \A k \in Loose(copies) \ Evictees(copies) : \A r \in Evictees(copies) :
                 Importance[copies[r].id] <= Importance[copies[k].id]
<1> DEFINE L == Loose(copies)
           E == Evictees(copies)
           n == Cardinality(L)
           place == [i \in E |-> Place(copies, i)]
<1> USE ForgetAssumption
<1>1. /\ IsFiniteSet(L) /\ n \in Nat
      /\ \A i \in L : Place(copies, i) \in 0..(n - 1)
      /\ \A i, j \in L : Place(copies, i) = Place(copies, j) => i = j
      /\ \A p \in 0..(n - 1) : \E i \in L : Place(copies, i) = p
      /\ \A i, j \in L : Place(copies, i) < Place(copies, j) =>
            Importance[copies[i].id] <= Importance[copies[j].id]
  BY Places
<1>2. E = {i \in L : Place(copies, i) + Keep < n}
  BY DEF Evictees
<1>3. /\ s \in [1..Cardinality(E) -> {copies[i] : i \in E}]
      /\ \A i \in E : s[Place(copies, i) + 1] = copies[i]
  BY DEF Sorted
<1> HIDE DEF L, E, n
<1>4. E \subseteq L /\ IsFiniteSet(E) /\ Cardinality(E) \in Nat
  <2>1. E \subseteq L
    BY <1>2
  <2> QED BY <1>1, <2>1, FS_Subset, FS_CardinalityType
<1>5. \A k \in L \ E : \A r \in E :
         Importance[copies[r].id] <= Importance[copies[k].id]
  <2> SUFFICES ASSUME NEW k \in L \ E, NEW r \in E
               PROVE  Importance[copies[r].id] <= Importance[copies[k].id]
    OBVIOUS
  <2>1. Place(copies, r) \in Nat /\ Place(copies, k) \in Nat
    BY <1>1, <1>4
  <2>2. Place(copies, r) + Keep < n /\ ~(Place(copies, k) + Keep < n)
    BY <1>2
  <2>3. Place(copies, r) < Place(copies, k)
    BY <1>1, <2>1, <2>2
  <2> QED BY <1>1, <1>4, <2>3
<1>6. ASSUME n < Keep PROVE E = {} /\ Elems(s) = {copies[i] : i \in E}
  <2>1. E = {}
    <3> SUFFICES ASSUME NEW i \in E PROVE FALSE
      OBVIOUS
    <3>1. Place(copies, i) \in Nat /\ Place(copies, i) + Keep < n
      BY <1>1, <1>2
    <3> QED BY <1>1, <1>6, <3>1
  <2>2. Cardinality(E) = 0
    BY <2>1, FS_EmptySet
  <2>3. DOMAIN s = {}
    BY <1>3, <2>2
  <2> QED BY <2>1, <2>3 DEF Elems
<1>7. ASSUME n >= Keep
      PROVE  Cardinality(E) = n - Keep
  <2> DEFINE m == n - Keep
  <2>1. m \in Nat
    BY <1>1, <1>7
  <2>2. \A i \in E : place[i] \in 0..(m - 1)
    <3> SUFFICES ASSUME NEW i \in E PROVE Place(copies, i) \in 0..(m - 1)
      OBVIOUS
    <3>1. Place(copies, i) \in Nat /\ Place(copies, i) + Keep < n
      BY <1>1, <1>2
    <3> QED BY <1>1, <1>7, <3>1
  <2>3. \A p \in 0..(m - 1) : \E i \in E : place[i] = p
    <3> SUFFICES ASSUME NEW p \in 0..(m - 1) PROVE \E i \in E : Place(copies, i) = p
      OBVIOUS
    <3>1. p \in 0..(n - 1) /\ p + Keep < n
      BY <1>1, <1>7
    <3>2. PICK i \in L : Place(copies, i) = p
      BY <1>1, <3>1
    <3>3. i \in E
      BY <1>2, <3>1, <3>2
    <3> QED BY <3>2, <3>3
  <2>4. \A i, j \in E : place[i] = place[j] => i = j
    BY <1>1, <1>4
  <2>5. place \in [E -> 0..(m - 1)]
    BY <2>2
  <2> HIDE DEF place, m
  <2>6. place \in Bijection(E, 0..(m - 1))
    BY <2>3, <2>4, <2>5 DEF Bijection, Injection, Surjection, IsInjective
  <2>7. Cardinality(0..(m - 1)) = Cardinality(E)
    BY <1>4, <2>6, FS_Bijection DEF ExistsBijection
  <2>8. Cardinality(0..(m - 1)) = IF 0 > m - 1 THEN 0 ELSE m - 1 - 0 + 1
    BY <2>1, FS_Interval
  <2> QED BY <2>1, <2>7, <2>8 DEF m
<1>8. ASSUME n >= Keep PROVE Cardinality(L \ E) = Keep
  <2>1. Cardinality(L \ E) = n - Cardinality(L \cap E)
    BY <1>1, FS_Difference DEF n
  <2>2. L \cap E = E
    BY <1>4
  <2>3. Cardinality(E) = n - Keep
    BY <1>7, <1>8
  <2>4. Cardinality(L \ E) = n - (n - Keep)
    BY <2>1, <2>2, <2>3
  <2> QED BY <1>1, <2>4
<1>9. ASSUME n >= Keep PROVE Elems(s) = {copies[i] : i \in E}
  <2>1. DOMAIN s = 1..(n - Keep) /\ Elems(s) \subseteq {copies[i] : i \in E}
    BY <1>3, <1>7, <1>9 DEF Elems
  <2>2. ASSUME NEW i \in E PROVE copies[i] \in Elems(s)
    <3>1. Place(copies, i) \in Nat /\ Place(copies, i) + Keep < n
      BY <1>1, <1>2
    <3>2. Place(copies, i) + 1 \in 1..(n - Keep)
      BY <1>1, <3>1
    <3> QED BY <1>3, <2>1, <3>2 DEF Elems
  <2> QED BY <2>1, <2>2
<1>10. n < Keep \/ n >= Keep
  BY <1>1
<1> QED BY <1>5, <1>6, <1>8, <1>9, <1>10 DEF L, E, n
----------------------------------------------------------------------------
(* The calls that run while nobody else writes.                            *)

\* A call of this kind is under way, and nobody else has written since it began.
Undisturbed(c, what) == c \in quiet /\ pc[c] # "idle" /\ op[c] = what

\* A caller that is in no call has listed nothing and made nothing.
Fresh == \A c \in Callers : pc[c] = "idle" => laps[c] = 0 /\ made[c] = << >>

\* The steps a lifecycle call takes itself.
OwnStep(c) ==
    \/ \E s \in Scopes, how \in Strategies : ForgetScoped(c, s, how)
    \/ \E s \in Scopes : ConsolidateScoped(c, s)
    \/ List(c) \/ Select(c) \/ Check(c) \/ Plan(c)
    \/ Forget(c) \/ AddClone(c) \/ Finish(c)

\* What a call knows of the tier and of itself.
Same(c) ==
    /\ items' = items /\ pinned' = pinned /\ c \in quiet
    /\ pc'[c] = pc[c] /\ op'[c] = op[c] /\ as'[c] = as[c] /\ todo'[c] = todo[c]
    /\ laps'[c] = laps[c] /\ made'[c] = made[c] /\ before'[c] = before[c]

LEMMA StepFresh == TypeOK /\ Fresh /\ [Next]_vars => Fresh'
<1> SUFFICES ASSUME TypeOK, Fresh, [Next]_vars,
                    NEW d \in Callers, pc'[d] = "idle"
             PROVE  laps'[d] = 0 /\ made'[d] = << >>
  BY DEF Fresh
<1> USE DEF tierVars, histVars
<1>1. ASSUME NEW c \in Callers, Leave(c) PROVE laps'[d] = 0 /\ made'[d] = << >>
  <2>1. CASE d = c
    BY <1>1, <2>1 DEF Leave, TypeOK
  <2>2. CASE d # c
    BY <1>1, <2>2 DEF Leave, TypeOK, Fresh
  <2> QED BY <2>1, <2>2
<1>2. ASSUME pc'[d] = pc[d], laps'[d] = laps[d], made'[d] = made[d]
      PROVE  laps'[d] = 0 /\ made'[d] = << >>
  BY <1>2 DEF Fresh
<1>3. ASSUME NEW c \in Callers, pc'[c] # "idle",
             \A e \in Callers : e # c =>
                pc'[e] = pc[e] /\ laps'[e] = laps[e] /\ made'[e] = made[e]
      PROVE  laps'[d] = 0 /\ made'[d] = << >>
  BY <1>2, <1>3
<1>4. CASE Adds
  BY <1>2, <1>4 DEF Adds, Add, AddShared, AddElsewhere
<1>5. ASSUME NEW c \in Users, \E pin \in BOOLEAN : Update(c, pin)
      PROVE  laps'[d] = 0 /\ made'[d] = << >>
  <2>1. c \in Callers /\ Leave(c)
    BY <1>5 DEF Callers, Update
  <2> QED BY <1>1, <2>1
<1>6. ASSUME NEW c \in Users, Remove(c) \/ Gone(c)
      PROVE  laps'[d] = 0 /\ made'[d] = << >>
  <2>1. c \in Callers /\ Leave(c)
    BY <1>6 DEF Callers, Remove, Gone
  <2> QED BY <1>1, <2>1
<1>7. ASSUME NEW c \in Lifecycles, AddCloneFails(c) \/ Return(c)
      PROVE  laps'[d] = 0 /\ made'[d] = << >>
  <2>1. c \in Callers /\ Leave(c)
    BY <1>7 DEF Callers, AddCloneFails, Return
  <2> QED BY <1>1, <2>1
<1>8. ASSUME NEW c \in Users, NEW s \in Scopes, NEW id \in Ids,
             NEW what \in {"update", "remove"}, LookUp(c, s, id, what)
      PROVE  laps'[d] = 0 /\ made'[d] = << >>
  <2>1. c \in Callers
    BY DEF Callers
  <2>2. pc'[c] # "idle" /\ \A e \in Callers : e # c =>
           pc'[e] = pc[e] /\ laps'[e] = laps[e] /\ made'[e] = made[e]
    BY <1>8, <2>1 DEF LookUp, TypeOK
  <2> QED BY <1>3, <2>1, <2>2
<1>9. ASSUME NEW c \in Lifecycles, OwnStep(c) PROVE laps'[d] = 0 /\ made'[d] = << >>
  <2>1. c \in Callers
    BY DEF Callers
  <2>2. ASSUME NEW s \in Scopes, NEW how \in Strategies, ForgetScoped(c, s, how)
        PROVE  pc'[c] # "idle" /\ \A e \in Callers : e # c =>
                  pc'[e] = pc[e] /\ laps'[e] = laps[e] /\ made'[e] = made[e]
    BY <2>1, <2>2 DEF ForgetScoped, Sweep, TypeOK
  <2>3. ASSUME NEW s \in Scopes, ConsolidateScoped(c, s)
        PROVE  pc'[c] # "idle" /\ \A e \in Callers : e # c =>
                  pc'[e] = pc[e] /\ laps'[e] = laps[e] /\ made'[e] = made[e]
    BY <2>1, <2>3 DEF ConsolidateScoped, Sweep, TypeOK
  <2>4. ASSUME List(c) \/ Select(c) \/ Check(c) \/ Plan(c)
        PROVE  pc'[c] # "idle" /\ \A e \in Callers : e # c =>
                  pc'[e] = pc[e] /\ laps'[e] = laps[e] /\ made'[e] = made[e]
    BY <2>1, <2>4 DEF List, Select, Check, Plan, TypeOK
  <2>5. ASSUME Forget(c) \/ AddClone(c) \/ Finish(c)
        PROVE  pc'[c] # "idle" /\ \A e \in Callers : e # c =>
                  pc'[e] = pc[e] /\ laps'[e] = laps[e] /\ made'[e] = made[e]
    BY <2>1, <2>5 DEF Forget, AddClone, Finish, TypeOK
  <2> QED BY <1>3, <1>9, <2>1, <2>2, <2>3, <2>4, <2>5 DEF OwnStep
<1>10. CASE UNCHANGED vars
  BY <1>2, <1>10 DEF vars
<1> QED
  BY <1>4, <1>5, <1>6, <1>7, <1>8, <1>9, <1>10 DEF Next, Adds, OwnStep

\* What a step is for a call that goes on undisturbed: a step of its own, or
\* one that changes nothing it knows.
LEMMA StepUndisturbed ==
    ASSUME TypeOK, Shape, [Next]_vars, NEW d \in Callers, d \in quiet',
           pc'[d] # "idle", op'[d] \notin {"update", "remove"}
    PROVE  Same(d) \/ (d \in Lifecycles /\ OwnStep(d))
<1> USE DEF tierVars, histVars
<1>1. CASE Adds
  BY <1>1 DEF Adds, Add, AddShared, AddElsewhere
<1>2. ASSUME NEW c \in Users, \E pin \in BOOLEAN : Update(c, pin) PROVE FALSE
  BY <1>2 DEF Update
<1>3. ASSUME NEW c \in Users, Remove(c) PROVE FALSE
  BY <1>3 DEF Remove
<1>4. ASSUME NEW c \in Callers, Leave(c) PROVE d # c /\ c \in Callers
  BY <1>4 DEF Leave, TypeOK
<1>5. ASSUME NEW c \in Users, Gone(c) PROVE Same(d)
  <2>1. c \in Callers /\ Leave(c) /\ d # c
    BY <1>4, <1>5 DEF Callers, Gone
  <2> QED BY <1>5, <2>1 DEF Gone, Leave, Same, TypeOK
<1>6. ASSUME NEW c \in Lifecycles, AddCloneFails(c) \/ Return(c) PROVE Same(d)
  <2>1. c \in Callers /\ Leave(c) /\ d # c
    BY <1>4, <1>6 DEF Callers, AddCloneFails, Return
  <2>2. items' = items /\ pinned' = pinned /\ quiet' = quiet \ {c}
    BY <1>6 DEF AddCloneFails, Return
  <2> QED BY <2>1, <2>2 DEF Leave, Same, TypeOK
<1>7. ASSUME NEW c \in Users, NEW s \in Scopes, NEW id \in Ids,
             NEW what \in {"update", "remove"}, LookUp(c, s, id, what)
      PROVE  Same(d)
  <2>1. c \in Callers
    BY DEF Callers
  <2>2. op'[c] = what
    BY <1>7, <2>1 DEF LookUp, TypeOK
  <2>3. d # c
    BY <2>2
  <2> QED BY <1>7, <2>1, <2>3 DEF LookUp, Same, TypeOK
<1>8. ASSUME NEW c \in Lifecycles, d # c, OwnStep(c) PROVE Same(d)
  <2>1. c \in Callers
    BY DEF Callers
  <2>2. ASSUME NEW s \in Scopes, NEW how \in Strategies, ForgetScoped(c, s, how)
        PROVE  Same(d)
    BY <1>8, <2>1, <2>2 DEF ForgetScoped, Sweep, Same, TypeOK
  <2>3. ASSUME NEW s \in Scopes, ConsolidateScoped(c, s) PROVE Same(d)
    BY <1>8, <2>1, <2>3 DEF ConsolidateScoped, Sweep, Same, TypeOK
  <2>4. ASSUME List(c) \/ Plan(c) PROVE Same(d)
    BY <1>8, <2>1, <2>4 DEF List, Plan, Same, TypeOK
  <2>5. ASSUME Select(c) \/ Check(c) PROVE Same(d)
    BY <1>8, <2>1, <2>5 DEF Select, Check, Same, TypeOK
  <2>6. ASSUME AddClone(c) \/ Finish(c) PROVE Same(d)
    BY <1>8, <2>1, <2>6 DEF AddClone, Finish, Same, TypeOK
  <2>7. ASSUME Forget(c) PROVE Same(d)
    <3> DEFINE id == Head(todo[c]).id
    <3>1. todo[c] \in Seq(Copies) /\ todo[c] # << >>
      BY <2>1, <2>7 DEF Forget, TypeOK
    <3>2. Head(todo[c]) \in Copies
      BY <3>1
    <3>3. id \in Ids
      BY <3>2 DEF Copies
    <3>4. id \notin Present /\ d \in quiet
      BY <1>8, <2>7 DEF Forget
    <3>5. items[id] = Nil /\ items' = [items EXCEPT ![id] = Nil]
      BY <2>7, <3>3, <3>4 DEF Forget, Present
    <3>6. items' = items
      BY <3>3, <3>5 DEF TypeOK
    <3> QED BY <1>8, <2>1, <2>7, <3>4, <3>6 DEF Forget, Same, TypeOK
  <2> QED BY <1>8, <2>2, <2>3, <2>4, <2>5, <2>6, <2>7 DEF OwnStep
<1>9. CASE UNCHANGED vars
  BY <1>9 DEF vars, Same
<1>10. ASSUME NEW c \in Lifecycles, OwnStep(c)
       PROVE  Same(d) \/ (d \in Lifecycles /\ OwnStep(d))
  BY <1>8, <1>10
<1>11. ASSUME Next
       PROVE  \/ Adds
              \/ \E c \in Users : \/ \E pin \in BOOLEAN : Update(c, pin)
                                  \/ Remove(c) \/ Gone(c)
              \/ \E c \in Users, s \in Scopes, id \in Ids, what \in {"update", "remove"} :
                    LookUp(c, s, id, what)
              \/ \E c \in Lifecycles : OwnStep(c) \/ AddCloneFails(c) \/ Return(c)
  BY <1>11 DEF Next, Adds, OwnStep
<1> QED
  BY <1>1, <1>2, <1>3, <1>5, <1>6, <1>7, <1>9, <1>10, <1>11
----------------------------------------------------------------------------
(* The clones of ConsolidateScoped.                                        *)

\* How the clones made, the copies in hand and the listings relate in a call of
\* ConsolidateScoped: an eligible copy in scope is still to be cloned or has
\* been, once for each listing; while the call lists, every copy in scope is in
\* hand once for each listing; no other copy is in hand, and none is cloned.
Tally(c) ==
    /\ before[c] = InSight(as[c])
    /\ pc[c] = "list" => /\ made[c] = << >>
                         /\ \A x \in before[c] : Count(todo[c], x) = laps[c]
    /\ \A x : x \notin before[c] => Count(todo[c], x) = 0 /\ Count(made[c], x) = 0
    /\ \A x \in before[c] :
          /\ x.id \in Eligible => Count(todo[c], x) + Count(made[c], x) = laps[c]
          /\ x.id \notin Eligible => Count(made[c], x) = 0
    /\ pc[c] = "act" => Head(todo[c]).id \in Eligible
    /\ pc[c] = "done" => todo[c] = << >>

Tallied == \A c \in Callers : Undisturbed(c, "consolidate") => Tally(c)

\* A step keeps the tally of a call of ConsolidateScoped that is undisturbed.
LEMMA StepTallied ==
    ASSUME TypeOK, Shape, Fresh, Tallied, [Next]_vars
    PROVE  Tallied'
<1> SUFFICES ASSUME NEW d \in Callers, d \in quiet', pc'[d] # "idle",
                    op'[d] = "consolidate"
             PROVE  Tally(d)'
  BY DEF Tallied, Undisturbed
<1>0. ASSUME before'[d] = InSight(as[d])',
             pc'[d] = "list" => /\ made'[d] = << >>
                                /\ \A x \in before'[d] : Count(todo'[d], x) = laps'[d],
             \A x : x \notin before'[d] =>
                Count(todo'[d], x) = 0 /\ Count(made'[d], x) = 0,
             \A x \in before'[d] :
                /\ x.id \in Eligible => Count(todo'[d], x) + Count(made'[d], x) = laps'[d]
                /\ x.id \notin Eligible => Count(made'[d], x) = 0,
             pc'[d] = "act" => Head(todo'[d]).id \in Eligible,
             pc'[d] = "done" => todo'[d] = << >>
      PROVE  Tally(d)'
  BY <1>0 DEF Tally, Count
<1> USE DEF tierVars, histVars
<1>1. /\ todo[d] \in Seq(Copies) /\ made[d] \in Seq(Copies) /\ laps[d] \in Nat
      /\ \A x : Count(todo[d], x) \in Nat /\ Count(made[d], x) \in Nat
  BY CountType DEF TypeOK
<1>2. \A x : Count(<< >>, x) = 0
  BY <1>1, CountType
<1>3. ASSUME items' = items, as'[d] = as[d]
      PROVE  InSight(as[d])' = InSight(as[d])
  BY <1>3 DEF InSight, InScope, Present, Copy, Matches
<1>4. CASE Same(d)
  <2>1. Tally(d)
    BY <1>4 DEF Tallied, Undisturbed, Same
  <2>2. InSight(as[d])' = InSight(as[d])
    BY <1>3, <1>4 DEF Same
  <2> QED BY <1>0, <1>4, <2>1, <2>2 DEF Same, Tally
<1>5. ASSUME NEW s \in Scopes, NEW how \in Strategies, ForgetScoped(d, s, how)
      PROVE  FALSE
  BY <1>5 DEF ForgetScoped, Sweep, Strategies, TypeOK
<1>6. ASSUME NEW s \in Scopes, ConsolidateScoped(d, s) PROVE Tally(d)'
  <2>1. /\ pc[d] = "idle" /\ pc'[d] = "list" /\ as'[d] = s /\ before'[d] = InSight(s)
        /\ items' = items /\ todo' = todo /\ laps' = laps /\ made' = made
    BY <1>6 DEF ConsolidateScoped, Sweep, TypeOK
  <2>2. todo'[d] = << >> /\ laps'[d] = 0 /\ made'[d] = << >>
    BY <2>1 DEF Shape, Fresh
  <2>3. before'[d] = InSight(as[d])'
    BY <2>1 DEF InSight, InScope, Present, Copy, Matches
  <2>4. \A x : Count(todo'[d], x) = 0 /\ Count(made'[d], x) = 0
    BY <1>2, <2>2
  <2> QED BY <1>0, <2>1, <2>2, <2>3, <2>4
<1>7. ASSUME op'[d] = op[d], d \in quiet, pc[d] # "idle"
      PROVE  Tally(d)
  BY <1>7 DEF Tallied, Undisturbed
<1>8. ASSUME List(d) PROVE Tally(d)'
  <2>1. /\ pc[d] = "list" /\ pc' = pc /\ op' = op /\ as' = as /\ made' = made
        /\ quiet' = quiet /\ before' = before /\ items' = items
        /\ laps'[d] = laps[d] + 1
    BY <1>8 DEF List, TypeOK
  <2>2. Tally(d)
    BY <1>7, <2>1
  <2>3. PICK copies \in Listed(InScope(as[d])) : todo'[d] = todo[d] \o copies
    BY <1>8 DEF List, TypeOK
  <2>4. copies \in Seq(Copies) /\
        \A x : Count(copies, x) = IF x \in InSight(as[d]) THEN 1 ELSE 0
    BY ListedCopies, CountListed DEF InScope, InSight
  <2>5. \A x : Count(todo'[d], x) = Count(todo[d], x) + Count(copies, x)
    BY <1>1, <2>3, <2>4, CountConcat
  <2>6. before'[d] = InSight(as[d])'
    BY <1>3, <2>1, <2>2 DEF Tally
  <2>7. \A x : Count(todo'[d], x) = Count(todo[d], x) +
                                    (IF x \in before[d] THEN 1 ELSE 0)
    BY <2>2, <2>4, <2>5 DEF Tally
  <2>8. ASSUME NEW x \in before[d] PROVE Count(todo'[d], x) = laps'[d]
    <3>1. Count(todo[d], x) = laps[d]
      BY <2>1, <2>2 DEF Tally
    <3> QED BY <1>1, <2>1, <2>7, <3>1
  <2>9. ASSUME NEW x, x \notin before[d] PROVE Count(todo'[d], x) = 0
    <3>1. Count(todo[d], x) = 0
      BY <2>2, <2>9 DEF Tally
    <3> QED BY <2>7, <2>9, <3>1
  <2>10. \A x : Count(made'[d], x) = 0 /\ made'[d] = << >>
    BY <1>2, <2>1, <2>2 DEF Tally
  <2>11. \A x \in before[d] : Count(todo'[d], x) + Count(made'[d], x) = laps'[d]
    BY <1>1, <2>1, <2>8, <2>10
  <2> QED BY <1>0, <2>1, <2>6, <2>8, <2>9, <2>10, <2>11
<1>9. ASSUME Select(d) \/ Finish(d) PROVE Tally(d)'
  <2>1. /\ pc[d] # "idle" /\ op' = op /\ as' = as /\ made' = made /\ laps' = laps
        /\ quiet' = quiet /\ before' = before /\ items' = items /\ todo' = todo
        /\ pc'[d] = "check" \/ (pc'[d] = "done" /\ todo[d] = << >>)
    BY <1>9 DEF Select, Finish, TypeOK
  <2>2. Tally(d)
    BY <1>7, <2>1
  <2>3. before'[d] = InSight(as[d])'
    BY <1>3, <2>1, <2>2 DEF Tally
  <2> QED BY <1>0, <2>1, <2>2, <2>3 DEF Tally
<1>10. ASSUME Check(d) PROVE Tally(d)'
  <2>1. /\ pc[d] = "check" /\ op' = op /\ as' = as /\ made' = made /\ laps' = laps
        /\ quiet' = quiet /\ before' = before /\ items' = items /\ todo[d] # << >>
        /\ \/ Head(todo[d]).id \in Eligible /\ pc'[d] = "act" /\ todo' = todo
           \/ /\ Head(todo[d]).id \notin Eligible
              /\ pc'[d] = "check" /\ todo'[d] = Tail(todo[d])
    BY <1>10 DEF Check, Chosen, TypeOK
  <2>2. Tally(d)
    BY <1>7, <2>1
  <2>3. before'[d] = InSight(as[d])'
    BY <1>3, <2>1, <2>2 DEF Tally
  <2>4. CASE todo' = todo /\ pc'[d] = "act"
    <3>1. Head(todo[d]).id \in Eligible
      BY <2>1, <2>4
    <3> QED BY <1>0, <2>1, <2>2, <2>3, <2>4, <3>1 DEF Tally
  <2>5. CASE pc'[d] = "check"
    <3>1. Head(todo[d]).id \notin Eligible /\ todo'[d] = Tail(todo[d])
      BY <2>1, <2>5
    <3>2. ASSUME NEW x
          PROVE  /\ Count(todo[d], x) =
                       Count(todo'[d], x) + (IF Head(todo[d]) = x THEN 1 ELSE 0)
                 /\ Count(todo'[d], x) \in Nat
      <4>1. Tail(todo[d]) \in Seq(Copies)
        BY <1>1, <2>1
      <4>2. Count(todo'[d], x) \in Nat
        BY <3>1, <4>1, CountType
      <4> QED BY <1>1, <2>1, <3>1, <4>2, CountStep
    <3>3. \A x : x.id \in Eligible => Count(todo'[d], x) = Count(todo[d], x)
      BY <3>1, <3>2
    <3>4. \A x : Count(todo[d], x) = 0 => Count(todo'[d], x) = 0
      BY <3>2
    <3>5. \A x : x \notin before[d] => Count(todo'[d], x) = 0
      BY <2>2, <3>4 DEF Tally
    <3>6. \A x \in before[d] : x.id \in Eligible =>
             Count(todo'[d], x) + Count(made[d], x) = laps[d]
      BY <2>2, <3>3 DEF Tally
    <3> QED BY <1>0, <2>1, <2>2, <2>3, <2>5, <3>5, <3>6 DEF Tally
  <2> QED BY <2>1, <2>4, <2>5
<1>11. ASSUME Plan(d) PROVE FALSE
  BY <1>11 DEF Plan
<1>12. ASSUME Forget(d) PROVE FALSE
  BY <1>12 DEF Forget, Strategies
<1>13. ASSUME AddClone(d) PROVE Tally(d)'
  <2> DEFINE h == Head(todo[d])
  <2>1. /\ pc[d] = "act" /\ pc'[d] = "check" /\ op' = op /\ as' = as /\ laps' = laps
        /\ quiet' = quiet /\ before' = before /\ items' = items
        /\ todo'[d] = Tail(todo[d]) /\ made'[d] = Append(made[d], h)
    BY <1>13 DEF AddClone, TypeOK
  <2>2. Tally(d)
    BY <1>7, <2>1
  <2>3. before'[d] = InSight(as[d])'
    BY <1>3, <2>1, <2>2 DEF Tally
  <2>4. todo[d] # << >> /\ h.id \in Eligible
    BY <1>13, <2>2 DEF AddClone, Tally, Shape
  <2>5. h \in Copies
    BY <1>1, <2>4
  <2>6. ASSUME NEW x
        PROVE  /\ Count(todo[d], x) = Count(todo'[d], x) + (IF h = x THEN 1 ELSE 0)
               /\ Count(todo'[d], x) \in Nat
    <3>1. Tail(todo[d]) \in Seq(Copies)
      BY <1>1, <2>4
    <3>2. Count(todo'[d], x) \in Nat
      BY <2>1, <3>1, CountType
    <3> QED BY <1>1, <2>1, <2>4, <3>2, CountStep
  <2>7. \A x : Count(made'[d], x) = Count(made[d], x) + (IF h = x THEN 1 ELSE 0)
    BY <1>1, <2>1, <2>5, CountStep
  <2> HIDE DEF h
  <2>8. h \in before[d]
    <3>1. Count(todo[d], h) # 0
      BY <2>6
    <3> QED BY <2>2, <3>1 DEF Tally
  <2>9. ASSUME NEW x, x \notin before[d]
        PROVE  Count(todo'[d], x) = 0 /\ Count(made'[d], x) = 0
    <3>1. Count(todo[d], x) = 0 /\ Count(made[d], x) = 0 /\ h # x
      BY <2>2, <2>8, <2>9 DEF Tally
    <3> QED BY <2>6, <2>7, <3>1
  <2>10. \A x \in before[d] : x.id \in Eligible =>
            Count(todo'[d], x) + Count(made'[d], x) = laps[d]
    <3>1. \A x : Count(todo'[d], x) + Count(made'[d], x) =
                    Count(todo[d], x) + Count(made[d], x)
      BY <1>1, <2>6, <2>7
    <3> QED BY <2>2, <3>1 DEF Tally
  <2>11. ASSUME NEW x \in before[d], x.id \notin Eligible PROVE Count(made'[d], x) = 0
    <3>1. Count(made[d], x) = 0 /\ h # x
      BY <2>2, <2>4, <2>11 DEF Tally, h
    <3> QED BY <2>7, <3>1
  <2> QED BY <1>0, <2>1, <2>3, <2>9, <2>10, <2>11
<1> QED
  BY <1>4, <1>5, <1>6, <1>8, <1>9, <1>10, <1>11, <1>12, <1>13, StepUndisturbed
  DEF OwnStep

\* For any callers, scopes, IDs and number of listings: a call of
\* ConsolidateScoped that ran while nobody else wrote has added a clone of
\* every eligible item in scope, and of no other item, once for each time it
\* listed the tier.
THEOREM ClonesFollowListings == Spec => []OneCloneEachLap
<1> DEFINE Inv == TypeOK /\ Shape /\ Fresh /\ Tallied
<1>1. Init => Inv
  <2>1. Init => Fresh /\ Tallied
    BY DEF Init, Fresh, Tallied, Undisturbed
  <2> QED BY <2>1, InitTyped
<1>2. Inv /\ [Next]_vars => Inv'
  BY StepTyped, StepFresh, StepTallied
<1>3. Inv => OneCloneEachLap
  <2> SUFFICES ASSUME Inv, NEW c \in Callers, pc[c] = "done", op[c] = "consolidate",
                      c \in quiet, NEW x \in Copies
               PROVE  Times(c, x) = IF x \in before[c] /\ x.id \in Eligible
                                    THEN laps[c] ELSE 0
    BY DEF OneCloneEachLap
  <2>1. Tally(c) /\ made[c] \in Seq(Copies) /\ todo[c] = << >>
    BY DEF Tallied, Undisturbed, Tally, TypeOK
  <2>2. Times(c, x) = Count(made[c], x)
    BY DEF Times, Count
  <2>3. Count(todo[c], x) = 0 /\ Count(made[c], x) \in Nat
    BY <2>1, CountType
  <2>4. CASE x \in before[c] /\ x.id \in Eligible
    <3>1. Count(todo[c], x) + Count(made[c], x) = laps[c]
      BY <2>1, <2>4 DEF Tally
    <3> QED BY <2>2, <2>3, <2>4, <3>1
  <2>5. CASE ~(x \in before[c] /\ x.id \in Eligible)
    <3>1. Count(made[c], x) = 0
      BY <2>1, <2>5 DEF Tally
    <3> QED BY <2>2, <2>5, <3>1
  <2> QED BY <2>4, <2>5
<1> HIDE DEF Inv
<1> QED BY <1>1, <1>2, <1>3, PTL DEF Spec
----------------------------------------------------------------------------
(* What ForgetByCapacity leaves.                                           *)

\* The candidates that ForgetByCapacity is going to leave.
Spared(c) == Kept(c) \ Elems(todo[c])

\* A set of candidates is as many as are to be kept, or all of them when there
\* are fewer, and the best ones.
IsBest(some, all) ==
    /\ Cardinality(some) = Keep \/ (some = all /\ Cardinality(all) < Keep)
    /\ \A k \in some, r \in all \ some : Importance[r.id] <= Importance[k.id]

\* What is true of a call of ForgetByCapacity that lists once: while it lists,
\* it has listed nothing or the items in scope; from then on its list holds
\* candidates only, and those it is going to leave are the best.
Choice(c) ==
    /\ \A x, y \in before[c] : x.id = y.id => x = y
    /\ pc[c] = "list" =>
          /\ before[c] = {x \in InSight(as[c]) : ~IsPinned(x)}
          /\ \/ laps[c] = 0 /\ todo[c] = << >>
             \/ laps[c] = 1 /\ todo[c] \in Listed(InScope(as[c]))
    /\ pc[c] # "list" => /\ Elems(todo[c]) \subseteq before[c]
                         /\ IsBest(Spared(c), before[c])
    /\ pc[c] = "done" => todo[c] = << >>

Choices == \A c \in Callers : Keep > 0 /\ Undisturbed(c, "capacity") => Choice(c)

\* The plan of ForgetByCapacity for a single listing leaves the best.
LEMMA PlanLeavesTheBest ==
    ASSUME TypeOK, NEW c \in Callers, Keep > 0, Choice(c), pc[c] = "list", laps[c] > 0,
           NEW s \in Sorted(todo[c], Evictees(todo[c]))
    PROVE  Elems(s) \subseteq before[c] /\ IsBest(Kept(c) \ Elems(s), before[c])
<1> DEFINE t == todo[c]
           L == Loose(t)
           E == Evictees(t)
           at(I) == {t[i] : i \in I}
           pick == [i \in L |-> t[i]]
           some == Kept(c) \ Elems(s)
           keep == [i \in L \ E |-> t[i]]
<1>1. /\ t \in Listed(InScope(as[c])) /\ t \in Seq(Copies)
      /\ before[c] = {x \in InSight(as[c]) : ~IsPinned(x)}
  <2>1. before[c] = {x \in InSight(as[c]) : ~IsPinned(x)}
    BY DEF Choice
  <2>2. laps[c] # 0
    OBVIOUS
  <2>3. todo[c] \in Listed(InScope(as[c]))
    BY <2>2 DEF Choice
  <2>4. todo[c] \in Seq(Copies)
    BY DEF TypeOK
  <2> QED BY <2>1, <2>3, <2>4
<1>2. /\ \A i, j \in DOMAIN t : t[i].id = t[j].id => i = j
      /\ Elems(t) = InSight(as[c])
  BY <1>1, ListedOnce DEF InScope, InSight
<1>3. L \subseteq DOMAIN t /\ E \subseteq L
  BY DEF Loose, Evictees
<1>4. before[c] = at(L)
  <2>1. L = {i \in DOMAIN t : ~IsPinned(t[i])}
    BY DEF Loose
  <2>2. before[c] = {x \in {t[i] : i \in DOMAIN t} : ~IsPinned(x)}
    BY <1>1, <1>2 DEF Elems
  <2> HIDE DEF t, L
  <2> QED BY <2>1, <2>2
<1>5. Kept(c) = before[c]
  <2>1. \A x \in InSight(as[c]) : x.id \in Present
    <3>1. ASSUME NEW id \in InScope(as[c]) PROVE Copy(id).id \in Present
      <4>1. id \in Present
        BY DEF InScope
      <4> QED BY <4>1, CopyType
    <3> QED BY <3>1 DEF InSight
  <2> QED BY <1>1, <2>1 DEF Kept
<1>6. /\ Elems(s) = at(E)
      /\ Cardinality(L) < Keep => E = {}
      /\ Cardinality(L) >= Keep => Cardinality(L \ E) = Keep
      /\ \A k \in L \ E : \A r \in E : Importance[t[r].id] <= Importance[t[k].id]
  BY <1>1, EvicteesCut
<1>7. IsFiniteSet(L) /\ Cardinality(L) \in Nat
  BY <1>1, Places
<1> HIDE DEF t, L, E
<1>8. some = at(L \ E)
  BY <1>2, <1>3, <1>4, <1>5, <1>6
<1>9. before[c] \ some = at(E)
  BY <1>2, <1>3, <1>4, <1>8
<1>10. keep \in Bijection(L \ E, some)
  <2>1. /\ keep \in [L \ E -> at(L \ E)]
        /\ \A x \in at(L \ E) : \E i \in L \ E : keep[i] = x
    OBVIOUS
  <2>2. \A i, j \in L \ E : keep[i] = keep[j] => i = j
    BY <1>2, <1>3
  <2> HIDE DEF keep
  <2> QED BY <1>8, <2>1, <2>2 DEF Bijection, Injection, Surjection, IsInjective
<1>11. pick \in Bijection(L, before[c])
  <2>1. pick \in [L -> at(L)] /\ \A x \in at(L) : \E i \in L : pick[i] = x
    OBVIOUS
  <2>2. \A i, j \in L : pick[i] = pick[j] => i = j
    BY <1>2, <1>3
  <2> HIDE DEF pick
  <2> QED BY <1>4, <2>1, <2>2 DEF Bijection, Injection, Surjection, IsInjective
<1> HIDE DEF keep, pick, some
<1>12. IsFiniteSet(L \ E)
  BY <1>7, FS_Difference
<1>13. /\ Cardinality(some) = Cardinality(L \ E)
       /\ Cardinality(before[c]) = Cardinality(L)
  BY <1>7, <1>10, <1>11, <1>12, FS_Bijection DEF ExistsBijection
<1>14. \A k \in some, r \in before[c] \ some : Importance[r.id] <= Importance[k.id]
  BY <1>6, <1>8, <1>9
<1>15. Cardinality(some) = Keep \/ (some = before[c] /\ Cardinality(before[c]) < Keep)
  <2>1. CASE Cardinality(L) >= Keep
    BY <1>6, <1>13, <2>1
  <2>2. CASE Cardinality(L) < Keep
    BY <1>4, <1>6, <1>8, <1>13, <2>2
  <2> QED BY <1>7, <2>1, <2>2, ForgetAssumption
<1> QED BY <1>3, <1>4, <1>6, <1>14, <1>15 DEF IsBest, some

\* A step keeps the choice of a call of ForgetByCapacity that is undisturbed,
\* when such a call lists the tier once.
LEMMA StepChoices ==
    ASSUME MaxLaps["capacity"] = 1, TypeOK, Shape, Fresh, Choices, [Next]_vars
    PROVE  Choices'
<1> SUFFICES ASSUME Keep > 0, NEW d \in Callers, d \in quiet', pc'[d] # "idle",
                    op'[d] = "capacity"
             PROVE  Choice(d)'
  BY DEF Choices, Undisturbed
<1> USE DEF tierVars, histVars
<1>0. ASSUME \A x, y \in before'[d] : x.id = y.id => x = y,
             pc'[d] = "list" =>
                /\ before'[d] = {x \in InSight(as[d])' : ~IsPinned(x)'}
                /\ \/ laps'[d] = 0 /\ todo'[d] = << >>
                   \/ laps'[d] = 1 /\ todo'[d] \in Listed(InScope(as[d]))',
             pc'[d] # "list" => /\ Elems(todo'[d]) \subseteq before'[d]
                                /\ IsBest(Kept(d)' \ Elems(todo'[d]), before'[d]),
             pc'[d] = "done" => todo'[d] = << >>
      PROVE  Choice(d)'
  BY <1>0 DEF Choice, Spared, Elems, IsBest
<1>1. ASSUME items' = items, pinned' = pinned, as'[d] = as[d]
      PROVE  /\ InSight(as[d])' = InSight(as[d])
             /\ Listed(InScope(as[d]))' = Listed(InScope(as[d]))
             /\ \A x : IsPinned(x)' = IsPinned(x)
  BY <1>1 DEF InSight, InScope, Present, Copy, Matches, Listed, IsPinned
<1>2. ASSUME items' = items, before'[d] = before[d] PROVE Kept(d)' = Kept(d)
  BY <1>2 DEF Kept, Present
<1>3. CASE Same(d)
  <2>1. Choice(d)
    BY <1>3 DEF Choices, Undisturbed, Same
  <2>2. /\ InSight(as[d])' = InSight(as[d])
        /\ Listed(InScope(as[d]))' = Listed(InScope(as[d]))
        /\ \A x : IsPinned(x)' = IsPinned(x)
        /\ Kept(d)' = Kept(d)
    BY <1>1, <1>2, <1>3 DEF Same
  <2> QED BY <1>0, <1>3, <2>1, <2>2 DEF Same, Choice, Spared
<1>4. ASSUME NEW s \in Scopes, ConsolidateScoped(d, s) PROVE FALSE
  BY <1>4 DEF ConsolidateScoped, Sweep, TypeOK
<1>5. ASSUME NEW s \in Scopes, NEW how \in Strategies, ForgetScoped(d, s, how)
      PROVE  Choice(d)'
  <2>1. /\ pc[d] = "idle" /\ pc'[d] = "list" /\ as'[d] = s
        /\ before'[d] = {x \in InSight(s) : ~IsPinned(x)}
        /\ items' = items /\ pinned' = pinned /\ todo' = todo /\ laps' = laps
    BY <1>5 DEF ForgetScoped, Sweep, TypeOK
  <2>2. todo'[d] = << >> /\ laps'[d] = 0
    BY <2>1 DEF Shape, Fresh
  <2>3. InSight(s) = InSight(as[d])' /\ \A x : IsPinned(x)' = IsPinned(x)
    BY <2>1 DEF InSight, InScope, Present, Copy, Matches, IsPinned
  <2>4. \A x, y \in InSight(s) : x.id = y.id => x = y
    <3>1. \A id \in InScope(s) : Copy(id).id = id
      BY CopyType DEF InScope
    <3> QED BY <3>1 DEF InSight
  <2>5. \A x, y \in before'[d] : x.id = y.id => x = y
    BY <2>1, <2>4
  <2>6. before'[d] = {x \in InSight(as[d])' : ~IsPinned(x)'}
    BY <2>1, <2>3
  <2> QED BY <1>0, <2>1, <2>2, <2>5, <2>6
<1>6. ASSUME op'[d] = op[d], d \in quiet, pc[d] # "idle" PROVE Choice(d)
  BY <1>6 DEF Choices, Undisturbed
<1>7. ASSUME List(d) PROVE Choice(d)'
  <2>1. /\ pc[d] = "list" /\ pc' = pc /\ op' = op /\ as' = as /\ quiet' = quiet
        /\ before' = before /\ items' = items /\ pinned' = pinned
        /\ laps'[d] = laps[d] + 1 /\ laps[d] < 1 /\ laps[d] \in Nat
    BY <1>7 DEF List, TypeOK
  <2>2. Choice(d)
    BY <1>6, <2>1
  <2>3. laps[d] = 0 /\ laps'[d] = 1
    BY <2>1
  <2>4. todo[d] = << >>
    BY <2>1, <2>2, <2>3 DEF Choice
  <2>5. PICK copies \in Listed(InScope(as[d])) : todo'[d] = todo[d] \o copies
    BY <1>7 DEF List, TypeOK
  <2>6. copies \in Seq(Copies)
    BY ListedCopies DEF InScope
  <2>7. todo'[d] = copies
    BY <2>4, <2>5, <2>6
  <2>8. todo'[d] \in Listed(InScope(as[d]))'
    BY <1>1, <2>1, <2>5, <2>7
  <2>9. before'[d] = {x \in InSight(as[d])' : ~IsPinned(x)'}
    BY <1>1, <2>1, <2>2 DEF Choice
  <2>10. \A x, y \in before'[d] : x.id = y.id => x = y
    BY <2>1, <2>2 DEF Choice
  <2> QED BY <1>0, <2>1, <2>3, <2>8, <2>9, <2>10
<1>8. ASSUME Select(d) PROVE FALSE
  BY <1>8 DEF Select
<1>9. ASSUME Check(d) PROVE FALSE
  BY <1>9 DEF Check, Shape
<1>10. ASSUME AddClone(d) PROVE FALSE
  BY <1>10 DEF AddClone
<1>11. ASSUME Plan(d) PROVE Choice(d)'
  <2>1. /\ pc[d] = "list" /\ pc'[d] = "act" /\ op' = op /\ as' = as /\ quiet' = quiet
        /\ before' = before /\ items' = items /\ laps[d] > 0
    BY <1>11 DEF Plan, TypeOK
  <2>2. Choice(d)
    BY <1>6, <2>1
  <2>3. Keep # 0
    BY ForgetAssumption
  <2>4. PICK s \in Sorted(todo[d], Evictees(todo[d])) : todo'[d] = s
    BY <1>11, <2>3 DEF Plan, TypeOK
  <2>5. Elems(s) \subseteq before[d] /\ IsBest(Kept(d) \ Elems(s), before[d])
    BY <2>1, <2>2, PlanLeavesTheBest
  <2>6. Kept(d)' = Kept(d) /\ \A x, y \in before[d] : x.id = y.id => x = y
    BY <1>2, <2>1, <2>2 DEF Choice
  <2> QED BY <1>0, <2>1, <2>4, <2>5, <2>6
<1>12. ASSUME Forget(d) PROVE Choice(d)'
  <2> DEFINE h == Head(todo[d])
  <2>1. /\ pc[d] = "act" /\ pc'[d] = "act" /\ op' = op /\ before' = before
        /\ todo[d] # << >> /\ todo'[d] = Tail(todo[d])
        /\ items' = [items EXCEPT ![h.id] = Nil] /\ d \in quiet
    BY <1>12 DEF Forget, TypeOK
  <2>2. Choice(d)
    BY <1>6, <2>1
  <2>3. todo[d] \in Seq(Copies) /\ h \in Copies
    BY <2>1 DEF TypeOK
  <2>4. h.id \in Ids
    BY <2>3 DEF Copies
  <2>5. Elems(todo[d]) = {h} \cup Elems(todo'[d])
    <3>1. /\ DOMAIN todo[d] = 1..Len(todo[d]) /\ Len(todo[d]) \in Nat
          /\ DOMAIN todo'[d] = 1..(Len(todo[d]) - 1)
          /\ h = todo[d][1] /\ 1 \in 1..Len(todo[d])
      BY <2>1, <2>3
    <3>2. \A i \in 1..(Len(todo[d]) - 1) : todo'[d][i] = todo[d][i + 1]
      BY <2>1, <2>3
    <3>3. ASSUME NEW i \in 1..Len(todo[d]) PROVE todo[d][i] \in {h} \cup Elems(todo'[d])
      <4>1. CASE i = 1
        BY <3>1, <4>1
      <4>2. CASE i # 1
        <5>1. i - 1 \in 1..(Len(todo[d]) - 1) /\ (i - 1) + 1 = i
          BY <3>1, <4>2
        <5>2. todo'[d][i - 1] = todo[d][i]
          BY <3>2, <5>1
        <5> QED BY <3>1, <5>1, <5>2 DEF Elems
      <4> QED BY <4>1, <4>2
    <3>4. Elems(todo'[d]) \subseteq Elems(todo[d]) /\ h \in Elems(todo[d])
      BY <2>1, <2>3, ListElems
    <3> QED BY <3>1, <3>3, <3>4 DEF Elems
  <2>6. Present' = Present \ {h.id}
    BY <2>1, <2>4 DEF Present, TypeOK
  <2>7. h \in before[d] /\ \A x \in before[d] : x.id = h.id => x = h
    BY <2>1, <2>2, <2>5 DEF Choice
  <2>8. Kept(d)' = {x \in Kept(d) : x.id # h.id}
    BY <2>1, <2>6 DEF Kept
  <2> HIDE DEF h
  <2>9. Kept(d) \subseteq before[d]
    BY DEF Kept
  <2>10. Kept(d)' \ Elems(todo'[d]) = Kept(d) \ Elems(todo[d])
    BY <2>5, <2>7, <2>8, <2>9
  <2>11. /\ Elems(todo[d]) \subseteq before[d]
         /\ IsBest(Kept(d) \ Elems(todo[d]), before[d])
         /\ \A x, y \in before[d] : x.id = y.id => x = y
    BY <2>1, <2>2 DEF Choice, Spared
  <2> QED BY <1>0, <2>1, <2>5, <2>10, <2>11
<1>13. ASSUME Finish(d) PROVE Choice(d)'
  <2>1. /\ pc[d] = "act" /\ pc'[d] = "done" /\ op' = op /\ quiet' = quiet
        /\ before' = before /\ items' = items /\ todo' = todo /\ todo[d] = << >>
    BY <1>13 DEF Finish, TypeOK, Shape
  <2>2. Choice(d)
    BY <1>6, <2>1
  <2>3. Kept(d)' = Kept(d)
    BY <1>2, <2>1
  <2> QED BY <1>0, <2>1, <2>2, <2>3 DEF Choice, Spared
<1> QED
  BY <1>3, <1>4, <1>5, <1>7, <1>8, <1>9, <1>10, <1>11, <1>12, <1>13, StepUndisturbed
  DEF OwnStep

\* For any callers, scopes, IDs and importances, as long as ForgetByCapacity
\* lists the tier once: a call that ran while nobody else wrote has left exactly
\* Keep of the unpinned items in scope, or all there were, and none of them is
\* less important than one it removed.  A call that lists the tier twice has
\* every candidate twice, and may keep fewer.
THEOREM TheBestAreKept ==
    ASSUME MaxLaps["capacity"] = 1
    PROVE  Spec => []KeepsTheBest
<1> DEFINE Inv == TypeOK /\ Shape /\ Fresh /\ Choices
<1>1. Init => Inv
  <2>1. Init => Fresh /\ Choices
    BY DEF Init, Fresh, Choices, Undisturbed
  <2> QED BY <2>1, InitTyped
<1>2. Inv /\ [Next]_vars => Inv'
  BY StepTyped, StepFresh, StepChoices
<1>3. Inv => KeepsTheBest
  <2> SUFFICES ASSUME Inv, NEW c \in Callers, Settled(c)
               PROVE  /\ \/ Cardinality(Kept(c)) = Keep
                         \/ Kept(c) = before[c] /\ Cardinality(before[c]) < Keep
                      /\ \A k \in Kept(c), r \in before[c] \ Kept(c) :
                            Importance[r.id] <= Importance[k.id]
    BY DEF KeepsTheBest
  <2>1. Choice(c) /\ pc[c] = "done"
    BY DEF Choices, Undisturbed, Settled
  <2>2. Elems(todo[c]) = {}
    BY <2>1 DEF Choice, Elems
  <2>3. Spared(c) = Kept(c)
    BY <2>2 DEF Spared
  <2>4. IsBest(Kept(c), before[c])
    BY <2>1, <2>3 DEF Choice
  <2> QED BY <2>4 DEF IsBest
<1> HIDE DEF Inv
<1> QED BY <1>1, <1>2, <1>3, PTL DEF Spec

============================================================================
