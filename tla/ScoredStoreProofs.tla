------------------------- MODULE ScoredStoreProofs -------------------------
(***************************************************************************)
(* StaleOnlyByRace for any number of callers, IDs and contents.  It is not *)
(* inductive alone: an update's second critical section makes the vector   *)
(* agree with the item only because an undisturbed update still holds the  *)
(* item's content (AloneIsCurrent), and an import only because the         *)
(* snapshot agreed with itself (SnapshotAgrees).                           *)
(***************************************************************************)
EXTENDS ScoredStore, TLAPS

\* The copy of an undisturbed update is the item in the store: nobody can have
\* changed or removed it without update's gap being marked as disturbed.
AloneIsCurrent ==
    \A c \in alone : /\ pc[c] = "reembed"
                     /\ held[c] # Nil
                     /\ items[target[c]] = held[c]

\* The inductive invariant.
IInv == TypeOK /\ AloneIsCurrent /\ StaleOnlyByRace /\ SnapshotAgrees

\* The generated IDs are IDs: a newly generated one is in range because seq is
\* below its bound.
LEMMA GeneratedIds == ASSUME NEW s \in 0..MaxSeq
                      PROVE  /\ Explicit \cup 1..s \subseteq Ids
                             /\ s < MaxSeq => s + 1 \in Ids /\ s + 1 \in 0..MaxSeq
BY SeqAssumption DEF Ids

\* add's critical section keeps the invariant, whatever ID it writes.
LEMMA StoreKeepsIInv ==
    ASSUME IInv, NEW id \in Ids, NEW v \in Contents, Store(id, v),
           seq' \in 0..MaxSeq
    PROVE  IInv'
<1>1. TypeOK'
  BY DEF IInv, TypeOK, Store, Embeddings, Maps, Maybe, Undisturbed, callVars
<1>2. AloneIsCurrent'
  BY DEF IInv, TypeOK, AloneIsCurrent, Store, Undisturbed, callVars, Maps
<1>3. StaleOnlyByRace'
  BY DEF IInv, TypeOK, StaleOnlyByRace, AwaitingReembed, Store, Undisturbed,
         callVars, Maps
<1>4. SnapshotAgrees'
  BY DEF IInv, SnapshotAgrees, Store
<1> QED BY <1>1, <1>2, <1>3, <1>4 DEF IInv

\* remove deletes both entries under one lock.
LEMMA RemoveKeepsIInv ==
    ASSUME IInv, NEW id \in Ids, Remove(id)
    PROVE  IInv'
<1>1. TypeOK'
  BY DEF IInv, TypeOK, Remove, Maps, Maybe, Undisturbed, callVars
<1>2. AloneIsCurrent'
  BY DEF IInv, TypeOK, AloneIsCurrent, Remove, Undisturbed, callVars, Maps
<1>3. StaleOnlyByRace'
  BY DEF IInv, TypeOK, StaleOnlyByRace, AwaitingReembed, Remove, Undisturbed,
         callVars, Maps
<1>4. SnapshotAgrees'
  BY DEF IInv, SnapshotAgrees, Remove
<1> QED BY <1>1, <1>2, <1>3, <1>4 DEF IInv

\* get writes back the item as it finds it after taking the write lock.
LEMMA GetTouchKeepsIInv ==
    ASSUME IInv, NEW c \in Callers, GetTouch(c)
    PROVE  IInv'
<1>1. items' = items
  BY DEF IInv, TypeOK, GetTouch, Maps
<1>2. c \notin alone
  BY DEF IInv, AloneIsCurrent, GetTouch
<1>3. TypeOK'
  BY <1>1 DEF IInv, TypeOK, GetTouch, Maps, Maybe, Pcs
<1>4. AloneIsCurrent'
  BY <1>1, <1>2 DEF IInv, TypeOK, AloneIsCurrent, GetTouch
<1>5. StaleOnlyByRace' /\ SnapshotAgrees'
  BY <1>1 DEF IInv, StaleOnlyByRace, AwaitingReembed, SnapshotAgrees, GetTouch
<1> QED BY <1>3, <1>4, <1>5 DEF IInv

\* update's first critical section: the vector goes stale, and the update that
\* made it so is the one awaiting to re-embed.
LEMMA UpdateWriteKeepsIInv ==
    ASSUME IInv, NEW c \in Callers, NEW id \in Ids, NEW v \in Contents,
           UpdateWrite(c, id, v)
    PROVE  IInv'
<1>1. c \notin alone
  BY DEF IInv, AloneIsCurrent, UpdateWrite
<1>2. TypeOK'
  BY DEF IInv, TypeOK, UpdateWrite, Maps, Maybe, Pcs, Undisturbed
<1>3. SnapshotAgrees'
  BY DEF IInv, SnapshotAgrees, UpdateWrite
<1>4. CASE v # items[id]
  <2>1. AloneIsCurrent'
    <3>1. \A d \in alone' : d # c => d \in alone /\ target[d] # id
      BY <1>4 DEF UpdateWrite, Undisturbed
    <3>2. v # Nil
      BY NilAssumption
    <3> QED
      BY <1>1, <1>4, <3>1, <3>2
      DEF IInv, TypeOK, AloneIsCurrent, UpdateWrite, Maps
  <2>2. StaleOnlyByRace'
    <3> SUFFICES ASSUME NEW j \in Ids, vectors'[j] # items'[j]
                 PROVE  (j \in suspect \cup AwaitingReembed)'
      BY DEF StaleOnlyByRace
    <3>1. CASE j = id
      BY <1>4, <3>1 DEF IInv, TypeOK, AwaitingReembed, UpdateWrite
    <3>2. CASE j # id
      BY <1>1, <1>4, <3>2
      DEF IInv, TypeOK, StaleOnlyByRace, AwaitingReembed, UpdateWrite,
          Undisturbed, Maps
    <3> QED BY <3>1, <3>2
  <2> QED BY <1>2, <1>3, <2>1, <2>2 DEF IInv
<1>5. CASE v = items[id]
  <2>1. items' = items /\ alone' = alone
    BY <1>5 DEF IInv, TypeOK, UpdateWrite, Maps
  <2>2. AloneIsCurrent'
    BY <1>1, <1>5, <2>1 DEF IInv, TypeOK, AloneIsCurrent, UpdateWrite
  <2>3. StaleOnlyByRace'
    BY <1>1, <1>5, <2>1
    DEF IInv, TypeOK, StaleOnlyByRace, AwaitingReembed, UpdateWrite
  <2> QED BY <1>2, <1>3, <2>2, <2>3 DEF IInv
<1> QED BY <1>4, <1>5

\* update's second critical section, with either answer of the embedder.
LEMMA ReembedKeepsIInv ==
    ASSUME IInv, NEW c \in Callers, ReembedOk(c) \/ ReembedFails(c)
    PROVE  IInv'
<1>1. items' = items /\ target' = target /\ held' = held /\ saved' = saved
      /\ alone' = alone \ {c} /\ target[c] \in Ids
  BY DEF IInv, TypeOK, ReembedOk, ReembedFails, storeVars
<1>2. TypeOK'
  BY DEF IInv, TypeOK, ReembedOk, ReembedFails, Embeddings, storeVars, Maps, Maybe, Pcs
<1>3. AloneIsCurrent'
  BY <1>1 DEF IInv, TypeOK, AloneIsCurrent, ReembedOk, ReembedFails
<1>4. StaleOnlyByRace'
  <2> SUFFICES ASSUME NEW j \in Ids, vectors'[j] # items'[j]
               PROVE  (j \in suspect \cup AwaitingReembed)'
    BY DEF StaleOnlyByRace
  <2>1. CASE j = target[c]
    BY <1>1, <2>1
    DEF IInv, TypeOK, StaleOnlyByRace, AloneIsCurrent, AwaitingReembed,
        ReembedOk, ReembedFails, Embeddings, storeVars, Maps
  <2>2. CASE j # target[c]
    BY <1>1, <2>2
    DEF IInv, TypeOK, StaleOnlyByRace, AwaitingReembed,
        ReembedOk, ReembedFails, Embeddings, storeVars, Maps
  <2> QED BY <2>1, <2>2
<1>5. SnapshotAgrees'
  BY <1>1 DEF IInv, SnapshotAgrees
<1> QED BY <1>2, <1>3, <1>4, <1>5 DEF IInv

\* A snapshot inherits the doubt about the vectors it copies.
LEMMA ExportKeepsIInv ==
    ASSUME IInv, Export
    PROVE  IInv'
<1>1. UNCHANGED <<items, vectors, seq, pc, target, held, alone, suspect>>
  BY DEF Export, storeVars, callVars
<1>2. AwaitingReembed \subseteq Ids
  BY DEF IInv, TypeOK, AwaitingReembed
<1>3. TypeOK'
  BY <1>1, <1>2 DEF IInv, TypeOK, Export, Snapshots, Maps, Maybe
<1>4. AloneIsCurrent' /\ StaleOnlyByRace'
  BY <1>1 DEF IInv, AloneIsCurrent, StaleOnlyByRace, AwaitingReembed
<1>5. SnapshotAgrees'
  BY DEF IInv, StaleOnlyByRace, SnapshotAgrees, Export
<1> QED BY <1>3, <1>4, <1>5 DEF IInv

\* Every mode of import, with and without the snapshot's vectors.
LEMMA ImportKeepsIInv ==
    ASSUME IInv, NEW mode \in {"merge", "upsert", "replace"},
           NEW stripped \in BOOLEAN, Import(mode, stripped)
    PROVE  IInv'
<1> DEFINE vec == Carried(stripped)
<1>1. vec \in Maps /\ \A j \in Ids : vec[j] # Nil => vec[j] = saved.vectors[j]
  BY DEF IInv, TypeOK, Snapshots, Carried, NoMap, Maps, Maybe
<1>2. Loaded(mode) \subseteq Ids
      /\ \A j \in Loaded(mode) : saved.items[j] # Nil
  BY DEF Loaded
<1>3. TypeOK'
  BY <1>1, <1>2
  DEF IInv, TypeOK, Import, Snapshots, Maps, Maybe, Undisturbed, callVars
<1>4. AloneIsCurrent'
  BY <1>2 DEF IInv, TypeOK, AloneIsCurrent, Import, Undisturbed, callVars
<1>5. StaleOnlyByRace'
  <2> SUFFICES ASSUME NEW j \in Ids, vectors'[j] # items'[j]
               PROVE  (j \in suspect \cup AwaitingReembed)'
    BY DEF StaleOnlyByRace
  <2>1. CASE j \in Loaded(mode)
    <3>1. items'[j] = saved.items[j]
      BY <2>1 DEF Import
    <3>2. CASE vec[j] = Nil
      BY <2>1, <3>2 DEF Import
    <3>3. CASE vec[j] # Nil
      <4>1. vectors'[j] = saved.vectors[j]
        BY <1>1, <2>1, <3>3 DEF Import
      <4> QED BY <2>1, <3>1, <4>1 DEF IInv, SnapshotAgrees, Import
    <3> QED BY <3>2, <3>3
  <2>2. CASE j \notin Loaded(mode)
    <3>1. CASE mode = "replace"
      BY <2>2, <3>1 DEF Import
    <3>2. CASE mode # "replace"
      <4>1. items'[j] = items[j] /\ vectors'[j] = vectors[j]
        BY <2>2, <3>2 DEF Import
      <4>2. j \in suspect => j \in suspect'
        BY <2>2, <3>2 DEF Import
      <4>3. \A c \in alone : target[c] = j => c \in alone' /\ target' = target
        BY <2>2, <3>2 DEF Import, Undisturbed, callVars
      <4> QED BY <4>1, <4>2, <4>3 DEF IInv, StaleOnlyByRace, AwaitingReembed
    <3> QED BY <3>1, <3>2
  <2> QED BY <2>1, <2>2
<1>6. SnapshotAgrees'
  BY DEF IInv, SnapshotAgrees, Import
<1> QED BY <1>3, <1>4, <1>5, <1>6 DEF IInv

\* One step of the store, action by action.
LEMMA StepKeepsIInv == IInv /\ [Next]_vars => IInv'
<1> SUFFICES ASSUME IInv, [Next]_vars PROVE IInv'
  OBVIOUS
<1> USE DEF TypeOK
<1>1. ASSUME NEW v \in Contents, AddGenerated(v) PROVE IInv'
  BY <1>1, GeneratedIds, StoreKeepsIInv DEF IInv, AddGenerated
<1>2. ASSUME NEW id \in Ids, NEW v \in Contents, AddExplicit(id, v) PROVE IInv'
  BY <1>2, StoreKeepsIInv DEF IInv, AddExplicit
<1>3. CASE AddEmbedFails
  BY <1>3, GeneratedIds
  DEF IInv, AddEmbedFails, AloneIsCurrent, StaleOnlyByRace, AwaitingReembed,
      SnapshotAgrees, callVars
<1>4. ASSUME NEW id \in Ids, Remove(id) PROVE IInv'
  BY <1>4, RemoveKeepsIInv
<1>5. ASSUME NEW c \in Callers, NEW id \in Ids, GetRead(c, id) PROVE IInv'
  <2>1. c \notin alone
    BY <1>5 DEF IInv, AloneIsCurrent, GetRead
  <2>2. TypeOK'
    BY <1>5 DEF IInv, GetRead, storeVars, Maps, Maybe, Pcs
  <2>3. AloneIsCurrent' /\ StaleOnlyByRace' /\ SnapshotAgrees'
    BY <1>5, <2>1
    DEF IInv, GetRead, AloneIsCurrent, StaleOnlyByRace, AwaitingReembed,
        SnapshotAgrees, storeVars
  <2> QED BY <2>2, <2>3 DEF IInv
<1>6. ASSUME NEW c \in Callers, GetTouch(c) PROVE IInv'
  BY <1>6, GetTouchKeepsIInv
<1>7. ASSUME NEW c \in Callers, NEW id \in Ids, NEW v \in Contents,
             UpdateWrite(c, id, v)
      PROVE  IInv'
  BY <1>7, UpdateWriteKeepsIInv
<1>8. ASSUME NEW c \in Callers, ReembedOk(c) \/ ReembedFails(c) PROVE IInv'
  BY <1>8, ReembedKeepsIInv
<1>9. CASE Export
  BY <1>9, ExportKeepsIInv
<1>10. ASSUME NEW mode \in {"merge", "upsert", "replace"},
              NEW stripped \in BOOLEAN, Import(mode, stripped)
       PROVE  IInv'
  BY <1>10, ImportKeepsIInv
<1>11. CASE UNCHANGED vars
  BY <1>11
  DEF IInv, vars, AloneIsCurrent, StaleOnlyByRace, AwaitingReembed, SnapshotAgrees
<1> QED
  BY <1>1, <1>2, <1>3, <1>4, <1>5, <1>6, <1>7, <1>8, <1>9, <1>10, <1>11 DEF Next

\* The store starts empty, with nothing in flight.
LEMMA InitIInv == Init => IInv
<1> SUFFICES ASSUME Init PROVE IInv
  OBVIOUS
<1>1. TypeOK
  BY SeqAssumption DEF Init, TypeOK, Maps, Maybe, NoMap, Pcs, Snapshots
<1>2. AloneIsCurrent /\ StaleOnlyByRace /\ SnapshotAgrees
  BY DEF Init, AloneIsCurrent, StaleOnlyByRace, SnapshotAgrees, NoMap
<1> QED BY <1>1, <1>2 DEF IInv

\* The inductive invariant holds in every reachable state.
LEMMA Invariance == Spec => []IInv
BY InitIInv, StepKeepsIInv, PTL DEF Spec

\* Type correctness of the store and of the calls in flight.
THEOREM TypeCorrect == Spec => []TypeOK
<1>1. IInv => TypeOK
  BY DEF IInv
<1> QED BY Invariance, <1>1, PTL

\* For any callers, IDs and contents: a vector disagrees with its item only
\* through an update in its gap, a disturbed, failed or empty embedding, or the
\* import of an entry in doubt (add, get, update, remove and importIntoStore
\* taken together).
THEOREM StaleVectorsNeedARace == Spec => []StaleOnlyByRace
<1>1. IInv => StaleOnlyByRace
  BY DEF IInv
<1> QED BY Invariance, <1>1, PTL

\* What exportFromStore captures is as consistent as the store was.
THEOREM SnapshotsAgree == Spec => []SnapshotAgrees
<1>1. IInv => SnapshotAgrees
  BY DEF IInv
<1> QED BY Invariance, <1>1, PTL
----------------------------------------------------------------------------
(* The store implements AtomicStore.  The mapping gives an ID with an      *)
(* undisturbed update in its gap the index entry the update will write, so *)
(* each first critical section is the atomic step and each second one      *)
(* either changes nothing or puts the ID in doubt.                         *)

\* The two modules mean the same IDs, and the mapped call is the caller's pc.
LEMMA SameIds == Atomic!Ids = Ids
BY DEF Atomic!Ids, Ids

LEMMA CallIs ==
    ASSUME TypeOK, NEW c \in Callers
    PROVE  /\ pc[c] = "idle" <=> Call[c] = "idle"
           /\ pc[c] = "touch" <=> Call[c] = "get"
           /\ pc[c] = "reembed" <=> Call[c] = "update"
BY DEF TypeOK, Pcs, Call, CallOf

\* A caller that moves from one pc to another makes one call begin or end.
LEMMA CallMoves ==
    ASSUME TypeOK, NEW c \in Callers, NEW p \in Pcs, pc' = [pc EXCEPT ![c] = p]
    PROVE  Call' = [Call EXCEPT ![c] = CallOf[p]]
BY DEF TypeOK, Pcs, Call, CallOf

LEMMA CallStays == UNCHANGED pc => UNCHANGED Call
BY DEF Call

\* Writing an item with its vector, with every open update of that ID counted
\* as disturbed, is an atomic write.
LEMMA WriteBoth ==
    ASSUME TypeOK, NEW id \in Ids, NEW x \in Maybe,
           items' = [items EXCEPT ![id] = x],
           vectors' = [vectors EXCEPT ![id] = x],
           alone' = Undisturbed({id}), suspect' = suspect \ {id},
           UNCHANGED target
    PROVE  Atomic!Write(id, x)
<1>1. AwaitingReembed' = AwaitingReembed \ {id}
  BY DEF AwaitingReembed, Undisturbed
<1>2. Found' = [Found EXCEPT ![id] = x]
  BY <1>1 DEF TypeOK, Maps, Found
<1>3. Doubt' = Doubt \ {id}
  BY <1>1 DEF Doubt
<1> QED BY <1>2, <1>3 DEF Atomic!Write

\* update's first critical section writes only the item, and marks the ID as
\* awaiting its vector: an atomic write as well.
LEMMA WriteItem ==
    ASSUME TypeOK, NEW c \in Callers, NEW id \in Ids, NEW v \in Contents,
           c \notin alone, v # items[id], UpdateWrite(c, id, v)
    PROVE  Atomic!Write(id, v)
<1>1. AwaitingReembed' = AwaitingReembed \cup {id}
  <2>1. alone' = Undisturbed({id}) \cup {c} /\ target' = [target EXCEPT ![c] = id]
    BY DEF UpdateWrite
  <2>2. \A d \in alone : target'[d] = target[d]
    BY <2>1 DEF TypeOK
  <2>3. target'[c] = id
    BY <2>1 DEF TypeOK
  <2> QED BY <2>1, <2>2, <2>3 DEF AwaitingReembed, Undisturbed
<1>2. vectors' = vectors /\ suspect' = suspect /\ items' = [items EXCEPT ![id] = v]
  BY DEF UpdateWrite
<1>3. Found' = [Found EXCEPT ![id] = v]
  BY <1>1, <1>2 DEF TypeOK, Maps, Found
<1>4. Doubt' = Doubt \ {id}
  BY <1>1, <1>2 DEF Doubt
<1> QED BY <1>2, <1>3, <1>4 DEF Atomic!Write

\* Writing an item without its vector leaves the ID in doubt.
LEMMA WriteUnembedded ==
    ASSUME TypeOK, NEW id \in Ids, NEW x \in Contents,
           items' = [items EXCEPT ![id] = x],
           vectors' = [vectors EXCEPT ![id] = Nil],
           alone' = Undisturbed({id}), suspect' = suspect \cup {id},
           UNCHANGED target
    PROVE  Atomic!Misfile(id, x)
<1>1. AwaitingReembed' = AwaitingReembed \ {id}
  BY DEF AwaitingReembed, Undisturbed
<1>2. \A j \in Ids \ {id} : Found'[j] = Found[j]
  BY <1>1 DEF TypeOK, Maps, Found
<1>3. Doubt' = Doubt \cup {id}
  BY <1>1 DEF Doubt
<1> QED BY <1>2, <1>3, SameIds DEF Atomic!Misfile

LEMMA AddRefines ==
    ASSUME TypeOK, NEW id \in Ids, NEW v \in Contents, Store(id, v),
           \/ seq < MaxSeq /\ id = seq + 1 /\ seq' = seq + 1
           \/ id \in Explicit \cup 1..seq /\ seq' = seq
    PROVE  Atomic!Next
<1>1. PICK vec \in Embeddings(v) :
         /\ vectors' = [vectors EXCEPT ![id] = vec]
         /\ suspect' = IF vec = v THEN suspect \ {id} ELSE suspect \cup {id}
  BY DEF Store
<1>2. Atomic!Write(id, v) \/ Atomic!Misfile(id, v)
  <2>1. CASE vec = v
    BY <1>1, <2>1, WriteBoth DEF Store, callVars, Maybe
  <2>2. CASE vec # v
    BY <1>1, <2>2, WriteUnembedded DEF Store, callVars, Embeddings
  <2> QED BY <2>1, <2>2
<1>3. Atomic!Add(id, v)
  BY <1>2, CallStays DEF Atomic!Add, Store, callVars
<1> QED BY <1>3, SameIds DEF Atomic!Next

LEMMA UpdateRefines ==
    ASSUME IInv, NEW c \in Callers, NEW id \in Ids, NEW v \in Contents,
           UpdateWrite(c, id, v)
    PROVE  Atomic!UpdateBegin(c, id, v)
<1> USE DEF IInv
<1>1. c \notin alone
  BY DEF AloneIsCurrent, UpdateWrite
<1>2. Call[c] = "idle"
  BY CallIs DEF UpdateWrite
<1>3. CASE v = items[id]
  <2>1. UNCHANGED <<items, vectors, alone, suspect, pc, saved, seq>>
    BY <1>3 DEF UpdateWrite, TypeOK, Maps
  <2>2. AwaitingReembed' = AwaitingReembed
    BY <1>1, <2>1 DEF AwaitingReembed, UpdateWrite, TypeOK
  <2>3. UNCHANGED <<Found, Doubt, Call>>
    BY <2>1, <2>2 DEF Found, Doubt, Call
  <2> QED BY <1>2, <1>3, <2>1, <2>3 DEF Atomic!UpdateBegin, UpdateWrite
<1>4. CASE v # items[id]
  <2>1. Atomic!Write(id, v)
    BY <1>1, <1>4, WriteItem
  <2>2. Call' = [Call EXCEPT ![c] = "update"]
    BY <1>4, CallMoves DEF UpdateWrite, CallOf, Pcs
  <2> QED BY <1>2, <1>4, <2>1, <2>2 DEF Atomic!UpdateBegin, UpdateWrite
<1> QED BY <1>3, <1>4

\* update's second critical section.  Undisturbed and with a vector, it changes
\* nothing a caller can tell; otherwise its ID may be in doubt.
LEMMA ReembedRefines ==
    ASSUME IInv, NEW c \in Callers, ReembedOk(c) \/ ReembedFails(c)
    PROVE  Atomic!UpdateEnd(c)
<1> USE DEF IInv
<1> DEFINE t == target[c]
<1>1. Call[c] = "update" /\ Call' = [Call EXCEPT ![c] = "idle"]
  BY CallIs, CallMoves DEF ReembedOk, ReembedFails, CallOf, Pcs
<1>2. UNCHANGED <<items, seq, target, held, saved>> /\ alone' = alone \ {c}
      /\ t \in Ids /\ suspect' \subseteq suspect \cup {t}
      /\ suspect \ {t} \subseteq suspect'
      /\ \A j \in Ids \ {t} : vectors'[j] = vectors[j]
  BY DEF ReembedOk, ReembedFails, storeVars, TypeOK, Maps
<1>3. AwaitingReembed \ {t} = AwaitingReembed' \ {t}
      /\ AwaitingReembed' \subseteq AwaitingReembed
  BY <1>2 DEF AwaitingReembed
<1>4. \A j \in Ids \ {t} : Found'[j] = Found[j]
  BY <1>2, <1>3 DEF Found
<1>5. CASE t \in Doubt'
  <2>1. Doubt' = Doubt \cup {t}
    BY <1>2, <1>3, <1>5 DEF Doubt
  <2> QED BY <1>1, <1>2, <1>4, <2>1, SameIds DEF Atomic!UpdateEnd
<1>6. CASE t \notin Doubt'
  <2>1. c \in alone => t \in AwaitingReembed
    BY DEF AwaitingReembed
  <2>2. ASSUME t \in suspect' PROVE t \notin Doubt /\ Found'[t] = Found[t]
    <3>1. t \in AwaitingReembed' /\ t \in AwaitingReembed
      BY <1>3, <1>6, <2>2 DEF Doubt
    <3>2. t \notin Doubt /\ Found'[t] = Found[t]
      BY <1>2, <3>1 DEF Doubt, Found
    <3> QED BY <3>2
  <2>3. ASSUME t \notin suspect', c \in alone
      PROVE  t \notin Doubt /\ Found'[t] = Found[t]
    <3>1. ReembedOk(c)
      BY <2>3 DEF ReembedFails
    <3>2. vectors'[t] = items[t]
      BY <2>3, <3>1 DEF ReembedOk, AloneIsCurrent, TypeOK, Maps
    <3>3. t \notin Doubt /\ Found'[t] = Found[t]
      BY <1>2, <2>1, <2>3, <3>2 DEF Doubt, Found
    <3> QED BY <3>3
  <2>4. ASSUME t \notin suspect', c \notin alone
      PROVE  t \notin Doubt /\ Found'[t] = Found[t]
    <3>1. ReembedFails(c)
      BY <2>4 DEF ReembedOk
    <3>2. UNCHANGED <<vectors, suspect, alone>>
      BY <1>2, <2>4, <3>1 DEF ReembedFails, storeVars
    <3>3. UNCHANGED <<Found, Doubt>>
      BY <1>2, <3>2 DEF Found, Doubt, AwaitingReembed
    <3> QED BY <1>6, <3>3
  <2>5. t \notin Doubt /\ Found'[t] = Found[t]
    BY <2>2, <2>3, <2>4
  <2>6. Found' = Found
    BY <1>2, <1>4, <2>5 DEF Found
  <2>7. Doubt' = Doubt
    BY <1>2, <1>3, <1>6, <2>5 DEF Doubt
  <2> QED BY <1>1, <1>2, <2>6, <2>7 DEF Atomic!UpdateEnd
<1> QED BY <1>5, <1>6

\* A snapshot's doubt covers the store's, and the updates that had not ended.
LEMMA ExportRefines ==
    ASSUME IInv, Export
    PROVE  Atomic!Export
<1> USE DEF IInv
<1>1. UNCHANGED <<items, vectors, seq, pc, target, held, alone, suspect>>
  BY DEF Export, storeVars, callVars
<1>2. UNCHANGED <<Found, Doubt, Call>>
  BY <1>1 DEF Found, Doubt, Call, AwaitingReembed
<1>3. AwaitingReembed \subseteq Atomic!Updating
  <2> SUFFICES ASSUME NEW c \in alone PROVE target[c] \in Atomic!Updating
    BY DEF AwaitingReembed
  <2>1. c \in Callers /\ Call[c] = "update"
    BY CallIs DEF AloneIsCurrent, TypeOK
  <2> QED BY <2>1 DEF Atomic!Updating
<1>4. saved'.items = items /\ saved'.doubt = suspect \cup AwaitingReembed
  BY DEF Export
<1>5. Doubt \subseteq saved'.doubt /\ saved'.doubt \subseteq Doubt \cup Atomic!Updating
  BY <1>3, <1>4 DEF Doubt
<1> QED BY <1>1, <1>2, <1>4, <1>5 DEF Atomic!Export

\* Import in any mode, with or without the snapshot's vectors.
LEMMA ImportRefines ==
    ASSUME IInv, IInv', NEW mode \in {"merge", "upsert", "replace"},
           NEW stripped \in BOOLEAN, Import(mode, stripped)
    PROVE  Atomic!Import(mode)
<1> USE DEF IInv
<1> DEFINE kept == IF mode = "replace" THEN {} ELSE Ids \ Loaded(mode)
<1>1. Atomic!Taken(mode) = Loaded(mode) /\ Atomic!Kept(mode) = kept
  BY SameIds DEF Atomic!Taken, Atomic!Kept, Loaded
<1>2. UNCHANGED <<seq, pc, target, held, saved, Call>>
  BY DEF Import, callVars, Call
<1>3. items' = [id \in Ids |-> IF id \in Loaded(mode) THEN saved.items[id]
                               ELSE IF id \in kept THEN items[id] ELSE Nil]
  BY DEF Import
<1>4. ASSUME NEW id \in kept
      PROVE  /\ items'[id] = items[id] /\ vectors'[id] = vectors[id]
             /\ id \in suspect' <=> id \in suspect
             /\ id \in AwaitingReembed' <=> id \in AwaitingReembed
  <2>1. id \in Ids /\ id \notin Loaded(mode) /\ mode # "replace"
    OBVIOUS
  <2>2. alone' = Undisturbed(Loaded(mode)) /\ target' = target
    BY <2>1 DEF Import, callVars
  <2> QED BY <2>1, <2>2 DEF Import, AwaitingReembed, Undisturbed
<1>5. ASSUME NEW id \in Ids \ kept PROVE id \notin AwaitingReembed'
  <2>1. Loaded(mode) \subseteq Ids
    BY DEF Loaded
  <2> QED BY <2>1 DEF Import, AwaitingReembed, Undisturbed, callVars
<1>6. \A id \in kept : Found'[id] = Found[id] /\ (id \in Doubt' <=> id \in Doubt)
  BY <1>4 DEF Found, Doubt
<1>7. \A id \in Ids \ kept : id \notin Doubt' => Found'[id] = items'[id]
  BY <1>5 DEF Found, Doubt, StaleOnlyByRace
<1>8. saved.doubt \cap Loaded(mode) \subseteq Doubt'
  <2> SUFFICES ASSUME NEW id \in saved.doubt \cap Loaded(mode) PROVE id \in Doubt'
    OBVIOUS
  <2>1. id \in Ids \ kept /\ id \in suspect'
    BY DEF Import, Loaded
  <2> QED BY <1>5, <2>1 DEF Doubt
<1>9. Doubt' \subseteq kept \cup Loaded(mode)
  BY DEF Doubt, Import, TypeOK
<1> QED
  BY <1>1, <1>2, <1>3, <1>6, <1>7, <1>8, <1>9, SameIds DEF Atomic!Import

\* Every step of the store is a step of the atomic store, or none.
LEMMA StepRefines ==
    ASSUME IInv, IInv', [Next]_vars
    PROVE  [Atomic!Next]_(Atomic!vars)
<1> USE DEF IInv
<1>1. ASSUME NEW v \in Contents, AddGenerated(v) PROVE Atomic!Next
  BY <1>1, GeneratedIds, AddRefines DEF AddGenerated, TypeOK
<1>2. ASSUME NEW id \in Ids, NEW v \in Contents, AddExplicit(id, v)
      PROVE  Atomic!Next
  BY <1>2, AddRefines DEF AddExplicit
<1>3. CASE AddEmbedFails
  <2>1. UNCHANGED <<Found, Doubt, Call>>
    BY <1>3 DEF AddEmbedFails, Found, Doubt, Call, AwaitingReembed, callVars
  <2>2. Atomic!AddFails
    BY <1>3, <2>1 DEF AddEmbedFails, Atomic!AddFails, callVars
  <2> QED BY <2>2 DEF Atomic!Next
<1>4. ASSUME NEW id \in Ids, Remove(id) PROVE Atomic!Next
  <2>1. Atomic!Write(id, Nil)
    BY <1>4, WriteBoth DEF Remove, callVars, Maybe
  <2>2. Atomic!Remove(id)
    BY <1>4, <2>1, CallStays DEF Remove, callVars, Atomic!Remove
  <2> QED BY <2>2, SameIds DEF Atomic!Next
<1>5. ASSUME NEW c \in Callers, NEW id \in Ids, GetRead(c, id) PROVE Atomic!Next
  <2>1. c \notin alone
    BY <1>5 DEF AloneIsCurrent, GetRead
  <2>2. UNCHANGED <<Found, Doubt>>
    BY <1>5, <2>1 DEF GetRead, Found, Doubt, AwaitingReembed, storeVars, TypeOK
  <2>3. Call[c] = "idle" /\ Call' = [Call EXCEPT ![c] = "get"]
    BY <1>5, CallIs, CallMoves DEF GetRead, CallOf, Pcs
  <2>4. Atomic!GetBegin(c, id)
    BY <1>5, <2>2, <2>3 DEF GetRead, Atomic!GetBegin, storeVars
  <2> QED BY <2>4, SameIds DEF Atomic!Next
<1>6. ASSUME NEW c \in Callers, GetTouch(c) PROVE Atomic!Next
  <2>1. items' = items
    BY <1>6 DEF GetTouch, TypeOK, Maps
  <2>2. UNCHANGED <<Found, Doubt>>
    BY <1>6, <2>1 DEF GetTouch, Found, Doubt, AwaitingReembed
  <2>3. Call[c] = "get" /\ Call' = [Call EXCEPT ![c] = "idle"]
    BY <1>6, CallIs, CallMoves DEF GetTouch, CallOf, Pcs
  <2>4. Atomic!GetEnd(c)
    BY <1>6, <2>1, <2>2, <2>3 DEF GetTouch, Atomic!GetEnd, TypeOK
  <2> QED BY <2>4 DEF Atomic!Next
<1>7. ASSUME NEW c \in Callers, NEW id \in Ids, NEW v \in Contents,
             UpdateWrite(c, id, v)
      PROVE  Atomic!Next
  BY <1>7, UpdateRefines, SameIds DEF Atomic!Next
<1>8. ASSUME NEW c \in Callers, ReembedOk(c) \/ ReembedFails(c) PROVE Atomic!Next
  BY <1>8, ReembedRefines DEF Atomic!Next
<1>9. CASE Export
  BY <1>9, ExportRefines DEF Atomic!Next
<1>10. ASSUME NEW mode \in {"merge", "upsert", "replace"},
              NEW stripped \in BOOLEAN, Import(mode, stripped)
       PROVE  Atomic!Next
  BY <1>10, ImportRefines DEF Atomic!Next
<1>11. CASE UNCHANGED vars
  BY <1>11 DEF vars, Atomic!vars, Found, Doubt, Call, AwaitingReembed
<1> QED
  BY <1>1, <1>2, <1>3, <1>4, <1>5, <1>6, <1>7, <1>8, <1>9, <1>10, <1>11 DEF Next

LEMMA InitRefines == Init => Atomic!Init
<1> SUFFICES ASSUME Init PROVE Atomic!Init
  OBVIOUS
<1>1. Found = NoMap /\ Doubt = {} /\ Call = [c \in Callers |-> "idle"]
  BY DEF Init, Found, Doubt, Call, CallOf, AwaitingReembed, NoMap
<1> QED BY <1>1, SameIds DEF Init, Atomic!Init, Atomic!Empty, NoMap

\* For any callers, IDs and contents: add, get, update, remove, Export and
\* Import, with the gaps in get and update, implement a store in which each of
\* them acts on the items in one step.
THEOREM StoreIsAtomic == Spec => ImplementsAtomicStore
<1>1. IInv /\ IInv' /\ [Next]_vars => [Atomic!Next]_(Atomic!vars)
  BY StepRefines
<1> QED BY Invariance, InitRefines, <1>1, PTL DEF Spec, ImplementsAtomicStore, Atomic!Spec

============================================================================
