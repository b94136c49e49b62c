-------------------------- MODULE SnapshotsProofs --------------------------
(***************************************************************************)
(* What exports, imports and crashes keep, for any items, exporters, keys  *)
(* and number of exports.                                                  *)
(***************************************************************************)
EXTENDS Snapshots, TLAPS

----------------------------------------------------------------------------
(* Snapshots.                                                              *)

\* The kinds are the two of the order.
LEMMA OrderIs == Order[1] = "working" /\ Order[2] = "episodic" /\ Order[1] # Order[2]
BY DEF Order

\* A snapshot of each kind, or none.
LEMMA SnapType ==
    ASSUME NEW s \in SnapSets
    PROVE  /\ s["working"] = s.working /\ s["episodic"] = s.episodic
           /\ s.working \in WorkingSnaps \cup {Nil}
           /\ s.episodic \in EpisodicSnaps \cup {Nil}
BY DEF SnapSets

\* A set of snapshots with one of them replaced.
LEMMA SnapUpdate ==
    ASSUME NEW s \in SnapSets
    PROVE  /\ \A w \in WorkingSnaps \cup {Nil} :
                 /\ [s EXCEPT !["working"] = w] \in SnapSets
                 /\ [s EXCEPT !["working"] = w].working = w
                 /\ [s EXCEPT !["working"] = w].episodic = s.episodic
           /\ \A x \in EpisodicSnaps \cup {Nil} :
                 /\ [s EXCEPT !["episodic"] = x] \in SnapSets
                 /\ [s EXCEPT !["episodic"] = x].episodic = x
                 /\ [s EXCEPT !["episodic"] = x].working = s.working
BY DEF SnapSets

\* Stamping items that are there.
LEMMA StampWorks ==
    ASSUME NEW w \in Works, NEW S \in SUBSET Items, \A i \in S : w[i] # "absent"
    PROVE  /\ WithStamps(w, S) \in Works
           /\ \A i \in Items : WithStamps(w, S)[i] = "absent" <=> w[i] = "absent"
<1>1. WithStamps(w, S) \in [Items -> {"absent", "plain", "stamped"}]
  BY DEF WithStamps, Works
<1>2. \A i \in Items : WithStamps(w, S)[i] = "absent" <=> w[i] = "absent"
  BY DEF WithStamps, Works
<1>3. \A i, j \in Items : w[i] # "absent" /\ w[j] # "absent" /\ j \in Alike(i) => i = j
  BY DEF Works
<1> QED BY <1>1, <1>2, <1>3 DEF Works

\* Stamps in captured items.
LEMMA SnapStamp ==
    ASSUME NEW s \in SnapSets, s.working # Nil, NEW S \in SUBSET Items,
           \A i \in S : s.working.work[i] # "absent"
    PROVE  \E t \in SnapSets :
              /\ t = [s EXCEPT !.working.work = WithStamps(@, S)]
              /\ t.working # Nil /\ t.episodic = s.episodic
              /\ t.working.export = s.working.export
              /\ \A i \in Items : t.working.work[i] = "absent" <=> s.working.work[i] = "absent"
<1> DEFINE v == WithStamps(s.working.work, S)
           x == [s.working EXCEPT !.work = v]
           t == [s EXCEPT !.working = x]
<1>1. s.working \in WorkingSnaps /\ s.working.work \in Works
  BY DEF SnapSets, WorkingSnaps
<1>2. v \in Works /\ \A i \in Items : v[i] = "absent" <=> s.working.work[i] = "absent"
  BY <1>1, StampWorks
<1>3. t = [s EXCEPT !.working.work = WithStamps(@, S)]
  OBVIOUS
<1> HIDE DEF v
<1>4. x \in WorkingSnaps /\ x.work = v /\ x.export = s.working.export
  BY <1>1, <1>2 DEF WorkingSnaps
<1> HIDE DEF x
<1>5. t \in SnapSets /\ t.working = x /\ t.episodic = s.episodic
  BY <1>4 DEF SnapSets
<1>6. x # Nil
  BY <1>4, SnapAssumption
<1> HIDE DEF t
<1> QED BY <1>2, <1>3, <1>4, <1>5, <1>6

\* A tier with one item replaced, or removed.
LEMMA UserWorks ==
    ASSUME NEW w \in Works, NEW i \in Items
    PROVE  /\ [j \in Items |-> IF j = i THEN "plain"
                               ELSE IF j \in Alike(i) THEN "absent" ELSE w[j]] \in Works
           /\ [w EXCEPT ![i] = "absent"] \in Works
BY IdAssumption DEF Works, Alike

\* A tier with a snapshot imported.
LEMMA ImportWorks ==
    ASSUME work \in Works, NEW snap \in WorkingSnaps
    PROVE  ImportedWork(snap) \in Works
<1> DEFINE v == ImportedWork(snap)
<1>1. snap.work \in Works
  BY DEF WorkingSnaps
<1>2. v \in [Items -> {"absent", "plain", "stamped"}]
  BY <1>1 DEF Works, ImportedWork
<1>3. ASSUME NEW i \in Items, NEW j \in Items, v[i] # "absent", v[j] # "absent",
             j \in Alike(i)
      PROVE  i = j
  <2>1. i \in Alike(j)
    BY <1>3 DEF Alike
  <2>2. CASE Takes(snap, i) /\ Takes(snap, j)
    BY <1>1, <1>3, <2>2 DEF Works, Takes
  <2>3. CASE ~Takes(snap, i)
    <3>1. i \notin Displaced(snap)
      BY <1>3, <2>3 DEF ImportedWork
    <3>2. ~Takes(snap, j) /\ j \notin Displaced(snap)
      BY <1>3, <3>1 DEF Displaced, ImportedWork
    <3>3. work[i] # "absent" /\ work[j] # "absent"
      BY <1>3, <2>3, <3>1, <3>2 DEF ImportedWork
    <3> QED BY <1>3, <3>3 DEF Works
  <2>4. CASE ~Takes(snap, j)
    <3>1. j \notin Displaced(snap)
      BY <1>3, <2>4 DEF ImportedWork
    <3>2. ~Takes(snap, i) /\ i \notin Displaced(snap)
      BY <1>3, <2>1, <3>1 DEF Displaced, ImportedWork
    <3>3. work[i] # "absent" /\ work[j] # "absent"
      BY <1>3, <2>4, <3>1, <3>2 DEF ImportedWork
    <3> QED BY <1>3, <3>3 DEF Works
  <2> QED BY <2>2, <2>3, <2>4
<1> QED BY <1>2, <1>3 DEF Works

----------------------------------------------------------------------------
(* Types.                                                                  *)

\* What an exporter holds at each place of its call.
ExportShape ==
    \A e \in Exporters :
        /\ pc[e] = "idle" => capture[e] = NoSnaps /\ shared[e] = {}
        /\ pc[e] # "idle" => /\ capture[e].working # Nil
                             /\ capture[e].working.export <= exports
                             /\ \A i \in shared[e] : capture[e].working.work[i] # "absent"
        /\ pc[e] = "capture" => capture[e].episodic = Nil
        /\ pc[e] = "save" => /\ capture[e].episodic # Nil
                             /\ capture[e].episodic.export = capture[e].working.export

\* What ImportAll knows at each place of its call.
ImportShape ==
    /\ ipc # "idle" => iname \in Names /\ mode \in Modes
    /\ ipc = "import" => left \subseteq Loaded

Shape == TypeOK /\ ExportShape /\ ImportShape

\* No tier holds anything and no call is running.
LEMMA InitShape == Init => Shape
<1> SUFFICES ASSUME Init PROVE Shape
  OBVIOUS
<1>1. NoSnaps \in SnapSets
  BY DEF NoSnaps, SnapSets
<1>2. work \in Works /\ name \in [Exporters -> Names]
  BY DEF Init, Works
<1>3. schema \in Nat /\ exports \in 0..MaxExports /\ floor \in [Names -> 0..MaxExports]
  BY BoundAssumption DEF Init
<1>4. /\ rows \in [Names -> SnapSets] /\ capture \in [Exporters -> SnapSets]
      /\ got \in SnapSets
  BY <1>1 DEF Init
<1>5. TypeOK
  BY <1>2, <1>3, <1>4 DEF Init, TypeOK
<1>6. ExportShape /\ ImportShape
  BY DEF Init, ExportShape, ImportShape
<1> QED BY <1>5, <1>6 DEF Shape

\* Users and the Consolidator.
LEMMA UsersKeepShape ==
    ASSUME Shape,
           \/ \E id \in Items : UserAdd(id) \/ UserRemove(id) \/ UserForget(id) \/ AddClone(id)
           \/ Stamp
    PROVE  Shape'
<1> USE DEF Shape, storeVars, exportVars, importVars
<1>1. ASSUME NEW id \in Items, UserAdd(id) \/ UserRemove(id) PROVE Shape'
  <2>1. work' \in Works /\ shared' \in [Exporters -> SUBSET Items]
    <3>1. work \in Works /\ shared \in [Exporters -> SUBSET Items]
      BY DEF TypeOK
    <3>2. CASE UserAdd(id)
      <4>1. work' \in Works
        BY <3>1, <3>2, UserWorks DEF UserAdd
      <4> QED BY <3>1, <3>2, <4>1 DEF UserAdd, Unshare
    <3>3. CASE UserRemove(id)
      <4>1. work' \in Works
        BY <3>1, <3>3, UserWorks DEF UserRemove
      <4> QED BY <3>1, <3>3, <4>1 DEF UserRemove, Unshare
    <3> QED BY <1>1, <3>2, <3>3
  <2>2. \A e \in Exporters : shared'[e] \subseteq shared[e]
    BY <1>1 DEF UserAdd, UserRemove, Unshare
  <2>3. UNCHANGED <<clones, promoting, excused, storeVars, importVars,
                    pc, name, capture, unsaved, exports, blurred, contested>>
    BY <1>1 DEF UserAdd, UserRemove
  <2>4. TypeOK'
    BY <2>1, <2>3 DEF TypeOK
  <2>5. ExportShape'
    BY <2>2, <2>3 DEF ExportShape
  <2> QED BY <2>3, <2>4, <2>5 DEF ImportShape, Loaded
<1>2. ASSUME NEW id \in Items, UserForget(id) \/ AddClone(id) PROVE Shape'
  <2>1. /\ clones' \subseteq Items /\ promoting' \in Items \cup {Nil} /\ excused' \subseteq Items
        /\ UNCHANGED <<work, storeVars, exportVars, importVars>>
    BY <1>2 DEF UserForget, AddClone, TypeOK
  <2>2. TypeOK'
    BY <2>1 DEF TypeOK
  <2> QED BY <2>1, <2>2 DEF ExportShape, ImportShape, Loaded
<1>3. ASSUME Stamp PROVE Shape'
  <2>1. promoting \in Items /\ promoting' = Nil /\ Found \subseteq Items
    BY <1>3 DEF Stamp, TypeOK, Found
  <2>2. work' \in Works /\ excused' \subseteq Items
    <3>1. \A i \in Found : work[i] # "absent"
      BY DEF Found
    <3>2. WithStamps(work, Found) \in Works
      BY <2>1, <3>1, StampWorks DEF TypeOK
    <3> QED BY <1>3, <2>1, <3>2 DEF Stamp, TypeOK
  <2>3. \A e \in Exporters :
           /\ capture'[e] \in SnapSets
           /\ capture'[e].episodic = capture[e].episodic
           /\ pc[e] = "idle" => capture'[e] = capture[e]
           /\ pc[e] # "idle" => /\ capture'[e].working # Nil
                                /\ capture'[e].working.export = capture[e].working.export
                                /\ \A i \in shared[e] :
                                      capture'[e].working.work[i] # "absent"
    <3> SUFFICES ASSUME NEW e \in Exporters
                 PROVE  /\ capture'[e] \in SnapSets
                        /\ capture'[e].episodic = capture[e].episodic
                        /\ pc[e] = "idle" => capture'[e] = capture[e]
                        /\ pc[e] # "idle" =>
                              /\ capture'[e].working # Nil
                              /\ capture'[e].working.export = capture[e].working.export
                              /\ \A i \in shared[e] :
                                    capture'[e].working.work[i] # "absent"
      OBVIOUS
    <3>1. capture[e] \in SnapSets /\ shared[e] \subseteq Items
      BY DEF TypeOK
    <3>2. CASE shared[e] \cap Found # {}
      <4>1. /\ pc[e] # "idle" /\ capture[e].working # Nil
            /\ \A i \in shared[e] : capture[e].working.work[i] # "absent"
        BY <3>2 DEF ExportShape
      <4>2. capture'[e] = [capture[e] EXCEPT !.working.work =
                             WithStamps(@, shared[e] \cap Found)]
        BY <1>3, <3>2 DEF Stamp
      <4>3. /\ shared[e] \cap Found \in SUBSET Items
            /\ \A i \in shared[e] \cap Found : capture[e].working.work[i] # "absent"
        BY <3>1, <4>1
      <4>4. \E t \in SnapSets :
               /\ t = [capture[e] EXCEPT !.working.work = WithStamps(@, shared[e] \cap Found)]
               /\ t.working # Nil /\ t.episodic = capture[e].episodic
               /\ t.working.export = capture[e].working.export
               /\ \A i \in Items : t.working.work[i] = "absent"
                                  <=> capture[e].working.work[i] = "absent"
        BY <3>1, <4>1, <4>3, SnapStamp, Zenon
      <4> QED BY <3>1, <4>1, <4>2, <4>4
    <3>3. CASE shared[e] \cap Found = {}
      <4>1. capture'[e] = capture[e]
        BY <1>3, <3>3 DEF Stamp
      <4> QED BY <3>1, <4>1 DEF ExportShape
    <3> QED BY <3>2, <3>3
  <2>4. capture' \in [Exporters -> SnapSets]
    BY <1>3, <2>3 DEF Stamp
  <2>5. UNCHANGED <<clones, storeVars, importVars,
                    pc, name, shared, unsaved, exports, blurred, contested>>
    BY <1>3 DEF Stamp
  <2>6. TypeOK'
    BY <2>1, <2>2, <2>4, <2>5 DEF TypeOK
  <2>7. ExportShape'
    BY <2>3, <2>5 DEF ExportShape
  <2> QED BY <2>5, <2>6, <2>7 DEF ImportShape, Loaded
<1> QED BY <1>1, <1>2, <1>3

\* The end of a call of ExportAll.
LEMMA LeaveKeepsShape ==
    ASSUME Shape, NEW e \in Exporters, Leave(e)
    PROVE  /\ pc' \in [Exporters -> {"idle", "capture", "save"}]
           /\ name' \in [Exporters -> Names] /\ capture' \in [Exporters -> SnapSets]
           /\ shared' \in [Exporters -> SUBSET Items]
           /\ unsaved' \in [Exporters -> SUBSET Kinds] /\ exports' \in 0..MaxExports
           /\ blurred' \subseteq Exporters /\ contested' \subseteq Exporters
           /\ ExportShape'
<1>1. NoSnaps \in SnapSets
  BY DEF NoSnaps, SnapSets
<1>2. /\ pc' \in [Exporters -> {"idle", "capture", "save"}]
      /\ name' \in [Exporters -> Names] /\ capture' \in [Exporters -> SnapSets]
  BY <1>1 DEF Leave, Shape, TypeOK
<1>3. /\ shared' \in [Exporters -> SUBSET Items]
      /\ unsaved' \in [Exporters -> SUBSET Kinds] /\ exports' \in 0..MaxExports
      /\ blurred' \subseteq Exporters /\ contested' \subseteq Exporters
  BY DEF Leave, Shape, TypeOK
<1>4. ExportShape'
  BY DEF Leave, Shape, TypeOK, ExportShape
<1> QED BY <1>2, <1>3, <1>4

\* ExportAll up to its saves.
LEMMA CapturesKeepShape ==
    ASSUME Shape, NEW e \in Exporters,
           (\E key \in Keys : ExportAll(e, key)) \/ Capture(e)
    PROVE  Shape'
<1> USE DEF Shape, tierVars, storeVars, importVars
<1>1. ASSUME NEW key \in Keys, ExportAll(e, key) PROVE Shape'
  <2> DEFINE snap == [export |-> exports + 1, work |-> work]
  <2>1. exports + 1 \in Numbers /\ exports' = exports + 1 /\ exports' \in 0..MaxExports
    BY <1>1, BoundAssumption DEF ExportAll, TypeOK, Numbers
  <2>2. snap \in WorkingSnaps /\ snap # Nil /\ snap.export = exports + 1 /\ snap.work = work
    BY <2>1, SnapAssumption DEF WorkingSnaps, TypeOK
  <2>3. capture' = [capture EXCEPT ![e]["working"] = snap]
    BY <1>1 DEF ExportAll, Snapshot, Order
  <2>4. capture[e] = NoSnaps /\ capture[e] \in SnapSets /\ pc[e] = "idle"
    BY <1>1 DEF ExportAll, ExportShape, TypeOK
  <2> HIDE DEF snap
  <2>5. /\ capture'[e] = [capture[e] EXCEPT !["working"] = snap]
        /\ \A d \in Exporters : d # e => capture'[d] = capture[d]
        /\ capture' \in [Exporters -> SnapSets]
    BY <2>2, <2>3, <2>4, SnapUpdate DEF TypeOK
  <2>6. capture'[e].working = snap /\ capture'[e].episodic = Nil
    BY <2>2, <2>4, <2>5, SnapUpdate DEF NoSnaps
  <2>7. /\ pc' = [pc EXCEPT ![e] = "capture"]
        /\ name' \in [Exporters -> Names]
        /\ shared' \in [Exporters -> SUBSET Items]
        /\ shared'[e] \subseteq {i \in Items : work[i] # "absent"}
        /\ \A d \in Exporters : d # e => shared'[d] = shared[d]
    BY <1>1, NameAssumption DEF ExportAll, TypeOK
  <2>8. blurred' \subseteq Exporters /\ contested' \subseteq Exporters
    BY <1>1 DEF ExportAll, TypeOK, Active
  <2>9. UNCHANGED <<tierVars, storeVars, unsaved, importVars>>
    BY <1>1 DEF ExportAll
  <2>10. TypeOK'
    BY <2>1, <2>5, <2>7, <2>8, <2>9 DEF TypeOK
  <2>11. ExportShape'
    <3> SUFFICES ASSUME NEW d \in Exporters
                 PROVE  /\ pc'[d] = "idle" => capture'[d] = NoSnaps /\ shared'[d] = {}
                        /\ pc'[d] # "idle" => /\ capture'[d].working # Nil
                                              /\ capture'[d].working.export <= exports'
                                              /\ \A i \in shared'[d] :
                                                    capture'[d].working.work[i] # "absent"
                        /\ pc'[d] = "capture" => capture'[d].episodic = Nil
                        /\ pc'[d] = "save" =>
                              /\ capture'[d].episodic # Nil
                              /\ capture'[d].episodic.export = capture'[d].working.export
      BY DEF ExportShape
    <3>1. CASE d = e
      BY <2>1, <2>2, <2>6, <2>7, <3>1 DEF TypeOK, Numbers
    <3>2. CASE d # e
      <4>1. capture'[d] = capture[d] /\ shared'[d] = shared[d] /\ pc'[d] = pc[d]
        BY <2>5, <2>7, <3>2 DEF TypeOK
      <4>2. pc[d] # "idle" => capture[d].working.export \in Nat
        BY SnapType DEF ExportShape, TypeOK, WorkingSnaps, Numbers
      <4> QED BY <2>1, <4>1, <4>2 DEF ExportShape, TypeOK
    <3> QED BY <3>1, <3>2
  <2> QED BY <2>9, <2>10, <2>11 DEF ImportShape, Loaded
<1>2. ASSUME Capture(e) PROVE Shape'
  <2> DEFINE snap == Snapshot("episodic", Number(e), e \in blurred)
  <2>1. pc[e] = "capture" /\ capture[e] \in SnapSets /\ capture[e].working # Nil
    BY <1>2 DEF Capture, ExportShape, TypeOK
  <2>2. Number(e) = capture[e].working.export /\ Number(e) \in Numbers
    BY <2>1, SnapType DEF Number, Order, WorkingSnaps
  <2>3. snap \in EpisodicSnaps /\ snap # Nil /\ snap.export = Number(e)
    BY <2>2, SnapAssumption DEF Snapshot, EpisodicSnaps, TypeOK
  <2>4. capture' = [capture EXCEPT ![e]["episodic"] = snap]
    BY <1>2 DEF Capture, Order
  <2> HIDE DEF snap
  <2>5. /\ capture'[e] = [capture[e] EXCEPT !["episodic"] = snap]
        /\ \A d \in Exporters : d # e => capture'[d] = capture[d]
        /\ capture' \in [Exporters -> SnapSets]
    BY <2>1, <2>3, <2>4, SnapUpdate DEF TypeOK
  <2>6. capture'[e].episodic = snap /\ capture'[e].working = capture[e].working
    BY <2>1, <2>3, <2>5, SnapUpdate
  <2>7. /\ pc' = [pc EXCEPT ![e] = "save"] /\ unsaved' \in [Exporters -> SUBSET Kinds]
        /\ UNCHANGED <<tierVars, storeVars, name, shared, exports, blurred, contested,
                       importVars>>
    BY <1>2 DEF Capture, TypeOK
  <2>8. TypeOK'
    BY <2>5, <2>7 DEF TypeOK
  <2>9. ExportShape'
    <3> SUFFICES ASSUME NEW d \in Exporters
                 PROVE  /\ pc'[d] = "idle" => capture'[d] = NoSnaps /\ shared'[d] = {}
                        /\ pc'[d] # "idle" => /\ capture'[d].working # Nil
                                              /\ capture'[d].working.export <= exports'
                                              /\ \A i \in shared'[d] :
                                                    capture'[d].working.work[i] # "absent"
                        /\ pc'[d] = "capture" => capture'[d].episodic = Nil
                        /\ pc'[d] = "save" =>
                              /\ capture'[d].episodic # Nil
                              /\ capture'[d].episodic.export = capture'[d].working.export
      BY DEF ExportShape
    <3>1. CASE d = e
      <4>1. /\ capture[e].working.export <= exports
            /\ \A i \in shared[e] : capture[e].working.work[i] # "absent"
        BY <2>1 DEF ExportShape
      <4>2. pc'[d] = "save" /\ exports' = exports /\ shared' = shared
        BY <2>7, <3>1 DEF TypeOK
      <4> QED BY <2>1, <2>2, <2>3, <2>6, <3>1, <4>1, <4>2
    <3>2. CASE d # e
      <4>1. /\ capture'[d] = capture[d] /\ shared'[d] = shared[d]
            /\ pc'[d] = pc[d] /\ exports' = exports
        BY <2>5, <2>7, <3>2 DEF TypeOK
      <4> QED BY <4>1 DEF ExportShape
    <3> QED BY <3>1, <3>2
  <2> QED BY <2>7, <2>8, <2>9 DEF ImportShape, Loaded
<1> QED BY <1>1, <1>2

\* The saves of ExportAll.
LEMMA SavesKeepShape ==
    ASSUME Shape, NEW e \in Exporters,
           (\E k \in Kinds : Save(e, k)) \/ SaveError(e)
    PROVE  Shape'
<1> USE DEF Shape, tierVars, storeVars, importVars
<1>1. ASSUME NEW k \in Kinds, Save(e, k) PROVE Shape'
  <2>1. capture[e] \in SnapSets /\ pc[e] = "save" /\ name[e] \in Names
    BY <1>1 DEF Save, TypeOK
  <2>2. /\ rows' = [rows EXCEPT ![name[e]][k] = capture[e][k]]
        /\ UNCHANGED <<tierVars, schema, open, importVars>>
    BY <1>1 DEF Save
  <2>3. rows' \in [Names -> SnapSets]
    <3>1. [rows[name[e]] EXCEPT ![k] = capture[e][k]] \in SnapSets
      BY <2>1, SnapType, SnapUpdate DEF TypeOK, Kinds
    <3> QED BY <2>2, <3>1 DEF TypeOK
  <2>4. Number(e) \in 0..MaxExports
    BY <2>1, SnapType, BoundAssumption
    DEF Number, Order, WorkingSnaps, ExportShape, Numbers
  <2>5. CASE unsaved[e] = {k}
    <3>1. Leave(e) /\ floor' \in [Names -> 0..MaxExports]
      BY <1>1, <2>1, <2>4, <2>5 DEF Save, AfterSave, TypeOK
    <3>2. TypeOK' /\ ExportShape'
      BY <2>2, <2>3, <3>1, LeaveKeepsShape DEF TypeOK
    <3> QED BY <2>2, <3>2 DEF ImportShape, Loaded
  <2>6. CASE unsaved[e] # {k}
    <3>1. /\ unsaved' \in [Exporters -> SUBSET Kinds]
          /\ UNCHANGED <<floor, pc, name, capture, shared, exports, blurred, contested>>
      BY <1>1, <2>6 DEF Save, AfterSave, TypeOK
    <3>2. TypeOK'
      BY <2>2, <2>3, <3>1 DEF TypeOK
    <3> QED BY <2>2, <3>1, <3>2 DEF ImportShape, Loaded, ExportShape
  <2> QED BY <2>5, <2>6
<1>2. ASSUME SaveError(e) PROVE Shape'
  <2>1. Leave(e) /\ UNCHANGED <<tierVars, storeVars, importVars>>
    BY <1>2 DEF SaveError
  <2>2. TypeOK' /\ ExportShape'
    BY <2>1, LeaveKeepsShape DEF TypeOK
  <2> QED BY <2>1, <2>2 DEF ImportShape, Loaded
<1> QED BY <1>1, <1>2

\* ImportAll.
LEMMA ImportsKeepShape ==
    ASSUME Shape,
           \/ \E key \in Keys, how \in Modes : ImportAll(key, how)
           \/ LoadKind \/ LoadError \/ ImportError \/ NothingLoaded
           \/ \E k \in Kinds : Import(k)
    PROVE  Shape'
<1> USE DEF Shape, tierVars, storeVars, exportVars
<1>0. NoSnaps \in SnapSets
  BY DEF NoSnaps, SnapSets
<1>1. ASSUME NEW key \in Keys, NEW how \in Modes, ImportAll(key, how) PROVE Shape'
  <2>1. Sanitize[key] \in Names
    BY NameAssumption
  <2>2. TypeOK'
    BY <1>1, <2>1 DEF ImportAll, TypeOK
  <2> QED BY <1>1, <2>1, <2>2 DEF ImportAll, ImportShape, ExportShape
<1>2. ASSUME LoadKind PROVE Shape'
  <2> DEFINE k == FirstOf(left)
  <2>1. k \in Kinds /\ iname \in Names /\ mode \in Modes
    BY <1>2 DEF LoadKind, ImportShape, FirstOf, Order, Kinds
  <2>2. got' = [got EXCEPT ![k] = rows[iname][k]] /\ rows[iname] \in SnapSets
    BY <1>2, <2>1 DEF LoadKind, TypeOK
  <2>3. /\ UNCHANGED <<tierVars, storeVars, exportVars, iname, mode>>
        /\ ipc' \in {"load", "import"} /\ left' \subseteq Kinds
        /\ ipc' = "import" => left' = {j \in Kinds : got'[j] # Nil}
    BY <1>2 DEF LoadKind, TypeOK
  <2> HIDE DEF k
  <2>4. got' \in SnapSets
    BY <2>1, <2>2, SnapType, SnapUpdate DEF Kinds, TypeOK
  <2>5. TypeOK'
    BY <2>3, <2>4 DEF TypeOK
  <2> QED BY <2>1, <2>3, <2>5 DEF ImportShape, ExportShape, Loaded
<1>3. ASSUME LoadError \/ ImportError \/ NothingLoaded PROVE Shape'
  <2>1. /\ ImportOver /\ UNCHANGED <<work, clones, promoting, storeVars, exportVars>>
        /\ excused' \subseteq Items
    BY <1>3 DEF LoadError, ImportError, NothingLoaded, TypeOK
  <2>2. TypeOK'
    BY <1>0, <2>1 DEF ImportOver, TypeOK
  <2> QED BY <2>1, <2>2 DEF ImportOver, ImportShape, ExportShape
<1>4. ASSUME NEW k \in Kinds, Import(k) PROVE Shape'
  <2>1. /\ k \in left /\ left \subseteq Loaded /\ ipc = "import"
        /\ UNCHANGED <<promoting, storeVars, pc, name, capture, unsaved, exports, contested>>
    BY <1>4 DEF Import, ImportShape
  <2>2. got.working \in WorkingSnaps \cup {Nil} /\ got.episodic \in EpisodicSnaps \cup {Nil}
    BY SnapType DEF TypeOK
  <2>3. /\ work' \in Works /\ clones' \subseteq Items
        /\ shared' \in [Exporters -> SUBSET Items]
        /\ \A e \in Exporters : shared'[e] \subseteq shared[e]
    <3>1. CASE k = "working"
      <4>1. got.working \in WorkingSnaps /\ got[k] = got.working
        BY <2>1, <2>2, <3>1, SnapType DEF Loaded, TypeOK
      <4>2. work' = ImportedWork(got.working) /\ clones' = clones
        BY <1>4, <3>1, <4>1 DEF Import
      <4>3. shared' = [e \in Exporters |->
               shared[e] \ Displaced(got[k])]
        BY <1>4, <3>1 DEF Import, Unshare
      <4>4. ImportedWork(got.working) \in Works
        BY <4>1, ImportWorks DEF TypeOK
      <4> QED BY <4>2, <4>3, <4>4 DEF TypeOK
    <3>2. CASE k # "working"
      <4>1. got.episodic \in EpisodicSnaps /\ got[k] = got.episodic
        BY <2>1, <2>2, <3>2, SnapType DEF Loaded, TypeOK, Kinds
      <4>2. clones' = ImportedClones(got.episodic) /\ work' = work /\ shared' = shared
        BY <1>4, <3>2, <4>1 DEF Import
      <4> QED BY <4>1, <4>2 DEF TypeOK, EpisodicSnaps, ImportedClones
    <3> QED BY <3>1, <3>2
  <2>4. excused' \subseteq Items
    <3>1. Matching(got) => got.episodic.excused \subseteq Items
      BY <2>2 DEF Matching, EpisodicSnaps
    <3>2. excused' = IF Matching(got)
                     THEN excused \cup got.episodic.excused \cup (Items \cap {promoting})
                     ELSE Items
      BY <1>4 DEF Import
    <3> QED BY <3>1, <3>2 DEF TypeOK
  <2>5. blurred' \subseteq Exporters
    BY <1>4 DEF Import, TypeOK
  <2>6. /\ ipc' \in {"idle", "import"} /\ iname' \in Names \cup {Nil}
        /\ mode' \in Modes \cup {Nil} /\ left' \subseteq Kinds /\ got' \in SnapSets
        /\ ImportShape'
    <3>1. CASE left = {k}
      <4>1. ImportOver
        BY <1>4, <3>1 DEF Import
      <4> QED BY <1>0, <4>1 DEF ImportOver, ImportShape
    <3>2. CASE left # {k}
      <4>1. left' = left \ {k} /\ UNCHANGED <<ipc, iname, mode, got>>
        BY <1>4, <3>2 DEF Import
      <4> QED BY <2>1, <4>1 DEF TypeOK, ImportShape, Loaded
    <3> QED BY <3>1, <3>2
  <2>7. TypeOK'
    BY <2>1, <2>3, <2>4, <2>5, <2>6 DEF TypeOK
  <2>8. ExportShape'
    BY <2>1, <2>3 DEF ExportShape
  <2> QED BY <2>6, <2>7, <2>8
<1> QED BY <1>1, <1>2, <1>3, <1>4

\* The store and the process.
LEMMA StoreKeepsShape ==
    ASSUME Shape, Open \/ Crash \/ \E key \in Keys : Delete(key)
    PROVE  Shape'
<1> USE DEF Shape, tierVars, storeVars, exportVars, importVars
<1>0. NoSnaps \in SnapSets
  BY DEF NoSnaps, SnapSets
<1>1. ASSUME Open PROVE Shape'
  <2>1. open' \in BOOLEAN /\ schema' \in Nat
        /\ UNCHANGED <<tierVars, rows, floor, exportVars, importVars>>
    BY <1>1, BoundAssumption DEF Open
  <2> QED BY <2>1 DEF TypeOK, ExportShape, ImportShape, Loaded
<1>2. ASSUME NEW key \in Keys, Delete(key) PROVE Shape'
  <2>1. Sanitize[key] \in Names
    BY NameAssumption
  <2>2. /\ rows' \in [Names -> SnapSets] /\ floor' \in [Names -> 0..MaxExports]
        /\ contested' \subseteq Exporters
    BY <1>0, <1>2, <2>1, BoundAssumption DEF Delete, TypeOK, Active
  <2>3. UNCHANGED <<tierVars, schema, open, pc, name, capture, shared, unsaved, exports,
                    blurred, importVars>>
    BY <1>2 DEF Delete
  <2> QED BY <2>2, <2>3 DEF TypeOK, ExportShape, ImportShape, Loaded
<1>3. ASSUME Crash PROVE Shape'
  <2>1. /\ work' \in Works /\ clones' \subseteq Items /\ promoting' \in Items \cup {Nil}
        /\ excused' \subseteq Items /\ open' \in BOOLEAN
        /\ UNCHANGED <<rows, schema, floor, name, exports>>
    BY <1>3 DEF Crash, Works
  <2>2. /\ pc' \in [Exporters -> {"idle", "capture", "save"}]
        /\ capture' \in [Exporters -> SnapSets] /\ shared' \in [Exporters -> SUBSET Items]
        /\ unsaved' \in [Exporters -> SUBSET Kinds]
        /\ blurred' \subseteq Exporters /\ contested' \subseteq Exporters
        /\ ExportShape'
    BY <1>0, <1>3 DEF Crash, ExportShape
  <2>3. /\ ipc' \in {"idle", "load", "import"} /\ iname' \in Names \cup {Nil}
        /\ mode' \in Modes \cup {Nil} /\ left' \subseteq Kinds /\ got' \in SnapSets
        /\ ImportShape'
    BY <1>0, <1>3 DEF Crash, ImportOver, ImportShape
  <2> QED BY <2>1, <2>2, <2>3 DEF TypeOK
<1> QED BY <1>1, <1>2, <1>3

\* Every step keeps the types and the shape of the calls.
LEMMA StepShape == Shape /\ [Next]_vars => Shape'
<1> SUFFICES ASSUME Shape, [Next]_vars PROVE Shape'
  OBVIOUS
<1>1. CASE UNCHANGED vars
  BY <1>1 DEF vars, tierVars, storeVars, exportVars, importVars, Shape, TypeOK,
              ExportShape, ImportShape, Loaded
<1> QED
  BY <1>1, UsersKeepShape, CapturesKeepShape, SavesKeepShape, ImportsKeepShape,
     StoreKeepsShape DEF Next
----------------------------------------------------------------------------
(* Completed exports stay.                                                 *)

\* The number of the export an exporter is in.
Own(e) == capture[e].working.export

\* Exports never fall behind the last one that completed uncontested.
AboveFloor ==
    /\ \A n \in Names : floor[n] <= exports
    /\ \A e \in Exporters : pc[e] # "idle" => Own(e) >= floor[name[e]]

\* Of two exporters that write to one name neither is uncontested.
Rivals ==
    \A d, e \in Exporters :
        pc[d] # "idle" /\ pc[e] # "idle" /\ d # e /\ name[d] = name[e] => e \in contested

\* What an uncontested exporter has saved is still there.
SavedStays ==
    \A e \in Exporters : pc[e] = "save" /\ e \notin contested =>
        \A k \in Kinds \ unsaved[e] :
            rows[name[e]][k] # Nil /\ rows[name[e]][k].export = Own(e)

\* The inductive invariant of NewestExportStays.
NInv == Shape /\ AboveFloor /\ Rivals /\ SavedStays /\ NewestExportStays

\* Nothing has been exported.
LEMMA InitNInv == Init => NInv
<1> SUFFICES ASSUME Init PROVE NInv
  OBVIOUS
<1>1. Shape
  BY InitShape
<1>2. AboveFloor /\ Rivals /\ SavedStays /\ NewestExportStays
  BY BoundAssumption DEF Init, AboveFloor, Rivals, SavedStays, NewestExportStays
<1> QED BY <1>1, <1>2 DEF NInv

\* The steps that touch neither rows nor exports.
LEMMA CalmKeepsNInv ==
    ASSUME NInv, Shape', UNCHANGED <<rows, floor, exports, pc, name, contested, unsaved>>,
           \A e \in Exporters : pc[e] # "idle" => Own(e)' = Own(e)
    PROVE  NInv'
<1>1. AboveFloor'
  BY DEF NInv, AboveFloor
<1>2. Rivals'
  BY DEF NInv, Rivals
<1>3. SavedStays'
  BY DEF NInv, SavedStays
<1>4. NewestExportStays'
  BY DEF NInv, NewestExportStays
<1> QED BY <1>1, <1>2, <1>3, <1>4 DEF NInv

\* The steps in which one exporter leaves, or is contested, or moves on without
\* a Save.
LEMMA LeaveKeepsNInv ==
    ASSUME NInv, Shape', NEW e \in Exporters, Leave(e), rows' = rows, floor' = floor
    PROVE  NInv'
<1>1. /\ pc'[e] = "idle" /\ UNCHANGED <<name, exports>>
      /\ contested' = contested \ {e}
      /\ \A d \in Exporters : d # e =>
            capture'[d] = capture[d] /\ unsaved'[d] = unsaved[d] /\ pc'[d] = pc[d]
  BY DEF Leave, NInv, Shape, TypeOK
<1>2. AboveFloor'
  BY <1>1 DEF NInv, AboveFloor, Own
<1>3. Rivals'
  BY <1>1 DEF NInv, Rivals
<1>4. SavedStays'
  BY <1>1 DEF NInv, SavedStays, Own
<1>5. NewestExportStays'
  BY DEF NInv, NewestExportStays
<1> QED BY <1>2, <1>3, <1>4, <1>5 DEF NInv

\* A new export has a number above all others and contests its rivals.
LEMMA ExportKeepsNInv ==
    ASSUME NInv, Shape', NEW e \in Exporters, NEW key \in Keys, ExportAll(e, key)
    PROVE  NInv'
<1> DEFINE n == Sanitize[key]
           rivals == {d \in Active : name[d] = n}
<1>1. /\ pc[e] = "idle" /\ exports' = exports + 1 /\ exports \in Nat
      /\ pc' = [pc EXCEPT ![e] = "capture"] /\ name' = [name EXCEPT ![e] = n]
      /\ contested' = contested \cup rivals \cup {d \in {e} : rivals # {}}
      /\ UNCHANGED <<rows, floor, unsaved>>
  BY DEF ExportAll, storeVars, NInv, Shape, TypeOK
<1>2. n \in Names
  BY NameAssumption
<1>3. Own(e)' = exports + 1
  <2>1. capture' = [capture EXCEPT ![e]["working"] = [export |-> exports + 1, work |-> work]]
    BY DEF ExportAll, Snapshot, Order
  <2>2. capture[e] = NoSnaps /\ capture \in [Exporters -> SnapSets]
    BY <1>1 DEF NInv, Shape, ExportShape, TypeOK
  <2> QED BY <2>1, <2>2 DEF Own, NoSnaps
<1>4. \A d \in Exporters : d # e => capture'[d] = capture[d]
  BY DEF ExportAll, NInv, Shape, TypeOK
<1>5. rivals = {d \in Exporters : pc[d] # "idle" /\ name[d] = n}
  BY DEF Active
<1> HIDE DEF n, rivals
<1>6. \A d \in Exporters : d # e => pc'[d] = pc[d] /\ name'[d] = name[d]
  BY <1>1 DEF NInv, Shape, TypeOK
<1>7. pc'[e] = "capture" /\ name'[e] = n
  BY <1>1 DEF NInv, Shape, TypeOK
<1>8. AboveFloor'
  <2>1. \A m \in Names : floor[m] <= exports /\ floor[m] \in Nat
    BY DEF NInv, AboveFloor, Shape, TypeOK
  <2>2. \A m \in Names : floor'[m] <= exports'
    BY <1>1, <2>1
  <2>3. \A d \in Exporters : pc'[d] # "idle" => Own(d)' >= floor'[name'[d]]
    BY <1>1, <1>2, <1>3, <1>4, <1>6, <1>7, <2>1 DEF NInv, AboveFloor, Own
  <2> QED BY <2>2, <2>3 DEF AboveFloor
<1>9. Rivals'
  <2> SUFFICES ASSUME NEW c \in Exporters, NEW d \in Exporters, pc'[c] # "idle",
                      pc'[d] # "idle", c # d, name'[c] = name'[d]
               PROVE  d \in contested'
    BY DEF Rivals
  <2>1. CASE d = e
    BY <1>1, <1>5, <1>6, <1>7, <2>1
  <2>2. CASE c = e
    BY <1>1, <1>5, <1>6, <1>7, <2>2
  <2>3. CASE c # e /\ d # e
    BY <1>1, <1>6, <2>3 DEF NInv, Rivals
  <2> QED BY <2>1, <2>2, <2>3
<1>10. SavedStays'
  BY <1>1, <1>4, <1>6, <1>7 DEF NInv, SavedStays, Own
<1>11. NewestExportStays'
  BY <1>1 DEF NInv, NewestExportStays
<1> QED BY <1>8, <1>9, <1>10, <1>11 DEF NInv

\* A Save puts a row in place that is no older than the floor, and the last one
\* of an uncontested export finds the other still there.
LEMMA SaveKeepsNInv ==
    ASSUME NInv, Shape', NEW e \in Exporters, NEW k \in Kinds, Save(e, k)
    PROVE  NInv'
<1> DEFINE n == name[e]
<1>1. /\ pc[e] = "save" /\ k \in unsaved[e] /\ n \in Names
      /\ rows' = [rows EXCEPT ![n][k] = capture[e][k]] /\ AfterSave(e, k)
  BY DEF Save, NInv, Shape, TypeOK
<1>2. capture[e][k] # Nil /\ capture[e][k].export = Own(e)
  BY <1>1, SnapType DEF NInv, Shape, ExportShape, TypeOK, Kinds, Own
<1>3. Own(e) >= floor[n] /\ Own(e) \in Nat /\ Own(e) <= exports /\ Own(e) = Number(e)
  BY <1>1, SnapType
  DEF NInv, AboveFloor, Shape, ExportShape, TypeOK, Own, WorkingSnaps, Numbers, Number, Order
<1>4. /\ rows'[n][k] = capture[e][k]
      /\ \A m \in Names, j \in Kinds : m # n \/ j # k => rows'[m][j] = rows[m][j]
  <2>1. rows \in [Names -> SnapSets]
    BY DEF NInv, Shape, TypeOK
  <2>2. rows'[n] = [rows[n] EXCEPT ![k] = capture[e][k]]
        /\ \A m \in Names : m # n => rows'[m] = rows[m]
    BY <1>1, <2>1
  <2>3. DOMAIN rows[n] = Kinds
    BY <1>1, <2>1 DEF SnapSets, Kinds
  <2>4. rows'[n][k] = capture[e][k] /\ \A j \in Kinds : j # k => rows'[n][j] = rows[n][j]
    BY <2>2, <2>3
  <2> QED BY <2>2, <2>4
<1>5. \A d \in Exporters : pc[d] # "idle" /\ d # e /\ name[d] = n =>
         d \in contested /\ e \in contested
  BY <1>1 DEF NInv, Rivals
<1>6. CASE unsaved[e] # {k}
  <2>1. /\ unsaved' = [unsaved EXCEPT ![e] = @ \ {k}]
        /\ UNCHANGED <<floor, pc, name, capture, shared, exports, blurred, contested>>
    BY <1>1, <1>6 DEF AfterSave
  <2>2. AboveFloor' /\ Rivals'
    BY <2>1 DEF NInv, AboveFloor, Rivals, Own
  <2>3. SavedStays'
    <3> SUFFICES ASSUME NEW d \in Exporters, pc[d] = "save", d \notin contested,
                        NEW j \in Kinds, j \notin unsaved'[d]
                 PROVE  rows'[name[d]][j] # Nil /\ rows'[name[d]][j].export = Own(d)
      BY <2>1 DEF SavedStays, Own
    <3>1. CASE d = e
      <4>1. j = k \/ j \notin unsaved[e]
        BY <2>1, <3>1 DEF NInv, Shape, TypeOK
      <4>2. CASE j = k
        BY <1>2, <1>4, <3>1, <4>2
      <4>3. CASE j # k
        <5>1. rows'[n][j] = rows[n][j]
          BY <1>1, <1>4, <4>3
        <5> QED BY <3>1, <4>1, <4>3, <5>1 DEF NInv, SavedStays
      <4> QED BY <4>2, <4>3
    <3>2. CASE d # e
      <4>1. name[d] # n /\ name[d] \in Names /\ unsaved'[d] = unsaved[d]
        BY <1>5, <2>1, <3>2 DEF NInv, Shape, TypeOK
      <4>2. rows'[name[d]][j] = rows[name[d]][j]
        BY <1>4, <4>1
      <4> QED BY <4>1, <4>2 DEF NInv, SavedStays
    <3> QED BY <3>1, <3>2
  <2>4. NewestExportStays'
    <3> SUFFICES ASSUME NEW m \in Names, floor[m] > 0, NEW j \in Kinds
                 PROVE  rows'[m][j] # Nil /\ rows'[m][j].export >= floor[m]
      BY <2>1 DEF NewestExportStays
    <3>1. CASE m = n /\ j = k
      BY <1>2, <1>3, <1>4, <3>1
    <3>2. CASE m # n \/ j # k
      BY <1>4, <3>2 DEF NInv, NewestExportStays
    <3> QED BY <3>1, <3>2
  <2> QED BY <2>2, <2>3, <2>4 DEF NInv
<1>7. CASE unsaved[e] = {k}
  <2>1. /\ Leave(e)
        /\ floor' = IF e \in contested THEN floor ELSE [floor EXCEPT ![n] = Own(e)]
    BY <1>1, <1>3, <1>7 DEF AfterSave
  <2>2. /\ pc'[e] = "idle" /\ UNCHANGED <<name, exports>>
        /\ contested' = contested \ {e}
        /\ \A d \in Exporters : d # e =>
              capture'[d] = capture[d] /\ unsaved'[d] = unsaved[d] /\ pc'[d] = pc[d]
    BY <2>1 DEF Leave, NInv, Shape, TypeOK
  <2>3. \A m \in Names : \/ floor'[m] = floor[m]
                         \/ m = n /\ floor'[m] = Own(e) /\ e \notin contested
    BY <2>1 DEF NInv, Shape, TypeOK
  <2>4. AboveFloor'
    <3>1. \A m \in Names : floor'[m] <= exports'
      BY <1>3, <2>2, <2>3 DEF NInv, AboveFloor
    <3>2. \A d \in Exporters : pc'[d] # "idle" => Own(d)' >= floor'[name'[d]]
      <4> SUFFICES ASSUME NEW d \in Exporters, pc'[d] # "idle"
                   PROVE  Own(d)' >= floor'[name'[d]]
        OBVIOUS
      <4>1. d # e /\ pc[d] # "idle" /\ Own(d)' = Own(d) /\ name'[d] = name[d]
            /\ name[d] \in Names
        BY <2>2 DEF Own, NInv, Shape, TypeOK
      <4>2. floor'[name[d]] = floor[name[d]]
        BY <1>5, <2>3, <4>1
      <4> QED BY <4>1, <4>2 DEF NInv, AboveFloor
    <3> QED BY <3>1, <3>2 DEF AboveFloor
  <2>5. Rivals'
    BY <2>2 DEF NInv, Rivals
  <2>6. SavedStays'
    <3> SUFFICES ASSUME NEW d \in Exporters, pc'[d] = "save", d \notin contested',
                        NEW j \in Kinds, j \notin unsaved'[d]
                 PROVE  rows'[name'[d]][j] # Nil /\ rows'[name'[d]][j].export = Own(d)'
      BY DEF SavedStays, Own
    <3>1. d # e /\ pc[d] = "save" /\ d \notin contested /\ j \notin unsaved[d]
          /\ Own(d)' = Own(d) /\ name' = name
      BY <2>2 DEF Own
    <3>2. name[d] # n /\ name[d] \in Names
      BY <1>5, <3>1 DEF NInv, Shape, TypeOK
    <3>3. rows'[name[d]][j] = rows[name[d]][j]
      BY <1>4, <3>2
    <3> QED BY <3>1, <3>3 DEF NInv, SavedStays
  <2>7. NewestExportStays'
    <3> SUFFICES ASSUME NEW m \in Names, floor'[m] > 0, NEW j \in Kinds
                 PROVE  rows'[m][j] # Nil /\ rows'[m][j].export >= floor'[m]
      BY DEF NewestExportStays
    <3>1. CASE m = n /\ j = k
      BY <1>2, <1>3, <1>4, <2>3, <3>1
    <3>2. CASE m = n /\ j # k /\ floor'[m] = Own(e) /\ e \notin contested
      <4>1. rows[n][j] # Nil /\ rows[n][j].export = Own(e)
        BY <1>1, <1>7, <3>2 DEF NInv, SavedStays
      <4> QED BY <1>3, <1>4, <3>2, <4>1
    <3>3. CASE (m # n \/ j # k) /\ floor'[m] = floor[m]
      BY <1>4, <3>3 DEF NInv, NewestExportStays
    <3> QED BY <2>3, <3>1, <3>2, <3>3
  <2> QED BY <2>4, <2>5, <2>6, <2>7 DEF NInv
<1> QED BY <1>6, <1>7

\* Every step keeps completed exports.
LEMMA StepNInv == NInv /\ [Next]_vars => NInv'
<1> SUFFICES ASSUME NInv, [Next]_vars PROVE NInv'
  OBVIOUS
<1> USE DEF tierVars, storeVars, exportVars, importVars
<1>0. Shape /\ Shape'
  BY StepShape DEF NInv
<1>1. ASSUME \/ \E id \in Items : \/ UserAdd(id) \/ UserRemove(id)
                                \/ UserForget(id) \/ AddClone(id)
             \/ \E key \in Keys, how \in Modes : ImportAll(key, how)
             \/ LoadKind \/ LoadError \/ ImportError \/ NothingLoaded
             \/ \E k \in Kinds : Import(k)
             \/ Open
      PROVE  NInv'
  <2>1. UNCHANGED <<rows, floor, exports, pc, name, contested, unsaved, capture>>
    BY <1>1 DEF UserAdd, UserRemove, UserForget, AddClone, ImportAll, LoadKind, LoadError,
                ImportError, NothingLoaded, Import, Open
  <2> QED BY <1>0, <2>1, CalmKeepsNInv DEF Own
<1>2. ASSUME Stamp PROVE NInv'
  <2>1. UNCHANGED <<rows, floor, exports, pc, name, contested, unsaved>>
    BY <1>2 DEF Stamp
  <2>2. ASSUME NEW e \in Exporters, pc[e] # "idle" PROVE Own(e)' = Own(e)
    <3>1. /\ capture[e] \in SnapSets /\ capture[e].working # Nil
          /\ shared[e] \cap Found \in SUBSET Items
          /\ \A i \in shared[e] : capture[e].working.work[i] # "absent"
      BY <1>0, <1>2, <2>2 DEF Shape, ExportShape, TypeOK
    <3>2. capture'[e] = IF shared[e] \cap Found = {} THEN capture[e]
                        ELSE [capture[e] EXCEPT !.working.work =
                                WithStamps(@, shared[e] \cap Found)]
      BY <1>2 DEF Stamp
    <3> QED BY <3>1, <3>2, SnapStamp DEF Own
  <2> QED BY <1>0, <2>1, <2>2, CalmKeepsNInv
<1>3. ASSUME NEW e \in Exporters, NEW key \in Keys, ExportAll(e, key) PROVE NInv'
  BY <1>0, <1>3, ExportKeepsNInv
<1>4. ASSUME NEW e \in Exporters, Capture(e) PROVE NInv'
  <2>1. /\ pc[e] = "capture" /\ pc'[e] = "save" /\ unsaved'[e] = Kinds
        /\ UNCHANGED <<rows, floor, exports, name, contested>>
        /\ \A d \in Exporters : d # e => pc'[d] = pc[d] /\ unsaved'[d] = unsaved[d]
    BY <1>0, <1>4 DEF Capture, Shape, TypeOK
  <2>2. \A d \in Exporters : capture'[d].working = capture[d].working
    <3>1. capture \in [Exporters -> SnapSets]
      BY <1>0 DEF Shape, TypeOK
    <3>2. PICK x : capture' = [capture EXCEPT ![e]["episodic"] = x]
      BY <1>4 DEF Capture, Order
    <3>3. \A d \in Exporters : d # e => capture'[d] = capture[d]
      BY <3>1, <3>2
    <3>4. capture'[e] = [capture[e] EXCEPT !["episodic"] = x]
      BY <3>1, <3>2
    <3>5. capture'[e].working = capture[e].working
      BY <3>1, <3>4 DEF SnapSets
    <3> QED BY <3>3, <3>5
  <2>3. AboveFloor'
    BY <2>1, <2>2 DEF NInv, AboveFloor, Own
  <2>4. Rivals'
    BY <2>1 DEF NInv, Rivals
  <2>5. SavedStays'
    BY <2>1, <2>2 DEF NInv, SavedStays, Own
  <2>6. NewestExportStays'
    BY <2>1 DEF NInv, NewestExportStays
  <2> QED BY <1>0, <2>3, <2>4, <2>5, <2>6 DEF NInv
<1>5. ASSUME NEW e \in Exporters, NEW k \in Kinds, Save(e, k) PROVE NInv'
  BY <1>0, <1>5, SaveKeepsNInv
<1>6. ASSUME NEW e \in Exporters, SaveError(e) PROVE NInv'
  <2>1. Leave(e) /\ rows' = rows /\ floor' = floor
    BY <1>6 DEF SaveError
  <2> QED BY <1>0, <2>1, LeaveKeepsNInv
<1>7. ASSUME NEW key \in Keys, Delete(key) PROVE NInv'
  <2> DEFINE n == Sanitize[key]
  <2>1. /\ n \in Names /\ floor' = [floor EXCEPT ![n] = 0]
        /\ contested' = contested \cup {e \in Active : name[e] = n}
        /\ \A m \in Names : m # n => rows'[m] = rows[m]
        /\ UNCHANGED <<pc, name, capture, unsaved, exports>>
    BY <1>0, <1>7, NameAssumption DEF Delete, Shape, TypeOK
  <2> HIDE DEF n
  <2>2. floor'[n] = 0 /\ \A m \in Names : m # n => floor'[m] = floor[m]
    BY <1>0, <2>1 DEF Shape, TypeOK
  <2>3. \A e \in Exporters : pc[e] # "idle" => Own(e) \in Nat
    BY <1>0, SnapType DEF Own, Shape, ExportShape, TypeOK, WorkingSnaps, Numbers
  <2>4. AboveFloor'
    <3>1. \A m \in Names : floor'[m] <= exports'
      BY <1>0, <2>1, <2>2 DEF NInv, AboveFloor, Shape, TypeOK
    <3>2. \A e \in Exporters : pc'[e] # "idle" => Own(e)' >= floor'[name'[e]]
      BY <1>0, <2>1, <2>2, <2>3 DEF NInv, AboveFloor, Shape, TypeOK, Own
    <3> QED BY <3>1, <3>2 DEF AboveFloor
  <2>5. Rivals'
    BY <2>1 DEF NInv, Rivals
  <2>6. SavedStays'
    BY <1>0, <2>1 DEF NInv, SavedStays, Own, Active, Shape, TypeOK
  <2>7. NewestExportStays'
    BY <2>1, <2>2 DEF NInv, NewestExportStays
  <2> QED BY <1>0, <2>4, <2>5, <2>6, <2>7 DEF NInv
<1>8. ASSUME Crash PROVE NInv'
  <2>1. UNCHANGED <<rows, floor, exports>> /\ \A e \in Exporters : pc'[e] = "idle"
    BY <1>8 DEF Crash
  <2>2. AboveFloor' /\ Rivals' /\ SavedStays'
    BY <2>1 DEF NInv, AboveFloor, Rivals, SavedStays
  <2>3. NewestExportStays'
    BY <2>1 DEF NInv, NewestExportStays
  <2> QED BY <1>0, <2>2, <2>3 DEF NInv
<1>9. CASE UNCHANGED vars
  BY <1>0, <1>9, CalmKeepsNInv DEF vars, Own
<1> QED
  BY <1>1, <1>2, <1>3, <1>4, <1>5, <1>6, <1>7, <1>8, <1>9 DEF Next

\* For any exporters, keys and number of exports, with failing saves, deletes
\* and crashes: once ExportAll has returned without an error and uncontested,
\* both its rows, or newer ones, are there.
THEOREM CompletedExportsStay == Spec => []NewestExportStays
<1>1. NInv => NewestExportStays
  BY DEF NInv
<1> QED BY InitNInv, StepNInv, <1>1, PTL DEF Spec

\* The tiers, the rows of the database and the snapshots under way keep their
\* types, for any exporters, keys and items, with failures and crashes.
THEOREM SnapshotTypes == Spec => []TypeOK
<1>1. Shape => TypeOK
  BY DEF Shape
<1> QED BY InitShape, StepShape, <1>1, PTL DEF Spec
----------------------------------------------------------------------------
(* Promotions survive, for items without a Metadata map.                   *)

\* The snapshots there are: in rows, captured, or loaded.
WorkingPool ==
    {w \in WorkingSnaps : \/ w = got.working
                          \/ \E n \in Names : w = rows[n].working
                          \/ \E e \in Exporters : w = capture[e].working}

EpisodicPool ==
    {x \in EpisodicSnaps : \/ x = got.episodic
                           \/ \E n \in Names : x = rows[n].episodic
                           \/ \E e \in Exporters : x = capture[e].episodic}

\* No snapshot has a number that has not been given out.
Numbered == /\ \A w \in WorkingPool : w.export <= exports
            /\ \A x \in EpisodicPool : x.export <= exports

\* The two snapshots of one export belong together.
PairsMatch ==
    \A w \in WorkingPool, x \in EpisodicPool :
        w.export = x.export => Stamped(w.work) \subseteq x.clones \cup x.excused

\* The clones an exporter is about to capture cover the stamps it has captured,
\* unless an import has come in between.
CaptureCovered ==
    \A e \in Exporters \ blurred : pc[e] = "capture" =>
        /\ ~Half
        /\ \A w \in WorkingPool :
              w.export = capture[e].working.export =>
                  Stamped(w.work) \subseteq clones \cup excused

\* The item being promoted has its clone.
PromotingCovered == promoting # Nil => promoting \in clones \cup excused

\* Half-way through an import the tier still to come completes the other.
HalfCovered ==
    Half =>
    /\ ~Matching(got) => excused = Items
    /\ Matching(got) /\ left = {"episodic"} =>
          Stamped(work) \subseteq ImportedClones(got.episodic) \cup excused
    /\ Matching(got) /\ left = {"working"} =>
          /\ Stamped(got.working.work) \subseteq clones \cup excused
          /\ mode # "replace" => Stamped(work) \subseteq clones \cup excused

\* An import with nothing left has loaded nothing.
NothingLeft == ipc = "import" /\ left = {} => Loaded = {}

\* No captured item shares a map with the tier.
NoneShared == \A e \in Exporters : shared[e] = {}

\* The inductive invariant of PromotionsSurvive.
PInv == /\ Shape
        /\ NoneShared /\ NothingLeft
        /\ Numbered /\ PairsMatch
        /\ CaptureCovered /\ PromotingCovered /\ HalfCovered
        /\ PromotionsSurvive

\* Nothing is stamped and there are no snapshots.
LEMMA InitPInv == Init => PInv
<1> SUFFICES ASSUME Init PROVE PInv
  OBVIOUS
<1>1. Shape
  BY InitShape
<1>2. WorkingPool = {} /\ EpisodicPool = {}
  BY SnapAssumption DEF Init, WorkingPool, EpisodicPool, NoSnaps
<1>3. Stamped(work) = {}
  BY DEF Init, Stamped
<1>4. NoneShared /\ NothingLeft /\ PromotingCovered /\ HalfCovered
  BY DEF Init, NoneShared, NothingLeft, PromotingCovered, HalfCovered, Half
<1>5. Numbered /\ PairsMatch /\ CaptureCovered
  BY <1>2 DEF Init, Numbered, PairsMatch, CaptureCovered
<1> QED BY <1>1, <1>3, <1>4, <1>5 DEF PInv, PromotionsSurvive

\* The pools when nothing is written to any place they are in.
LEMMA SamePools ==
    ASSUME UNCHANGED <<rows, got, capture>>
    PROVE  WorkingPool' = WorkingPool /\ EpisodicPool' = EpisodicPool
BY DEF WorkingPool, EpisodicPool

\* With fewer snapshots around, what is said of all of them still holds.
LEMMA FewerSnapshots ==
    ASSUME Numbered, PairsMatch, exports' = exports,
           WorkingPool' \subseteq WorkingPool, EpisodicPool' \subseteq EpisodicPool
    PROVE  Numbered' /\ PairsMatch'
<1>1. Numbered'
  BY DEF Numbered
<1>2. PairsMatch'
  BY DEF PairsMatch, Stamped
<1> QED BY <1>1, <1>2

\* The steps of users and of the Consolidator.
LEMMA UsersKeepPInv ==
    ASSUME PInv, Shape',
           \/ \E id \in Items : UserAdd(id) \/ UserRemove(id) \/ UserForget(id) \/ AddClone(id)
           \/ Stamp
    PROVE  PInv'
<1> USE DEF storeVars, exportVars, importVars
<1>1. Shape /\ TypeOK
  BY DEF PInv, Shape
<1>2. /\ UNCHANGED <<rows, got, ipc, mode, left, pc, exports, blurred>>
      /\ \A e \in Exporters : shared'[e] = {}
  BY DEF UserAdd, UserRemove, UserForget, AddClone, Stamp, Unshare, PInv, NoneShared
<1>3. capture' = capture
  <2>1. CASE Stamp
    <3>1. \A e \in Exporters : capture'[e] = capture[e]
      BY <2>1 DEF Stamp, PInv, NoneShared
    <3>2. capture' = [e \in Exporters |-> capture'[e]]
      BY <2>1 DEF Stamp
    <3>3. capture = [e \in Exporters |-> capture[e]]
      BY <1>1 DEF TypeOK
    <3> QED BY <3>1, <3>2, <3>3
  <2>2. CASE ~Stamp
    BY <2>2 DEF UserAdd, UserRemove, UserForget, AddClone
  <2> QED BY <2>1, <2>2
<1>4. WorkingPool' = WorkingPool /\ EpisodicPool' = EpisodicPool
  BY <1>2, <1>3, SamePools
<1>5. Loaded' = Loaded /\ Half' = Half /\ Matching(got)' = Matching(got)
  BY <1>2 DEF Loaded, Half, Matching
<1>6. clones \cup excused \subseteq clones' \cup excused'
  BY DEF UserAdd, UserRemove, UserForget, AddClone, Stamp
<1>7. PromotingCovered'
  BY <1>1 DEF PInv, PromotingCovered, UserAdd, UserRemove, UserForget, AddClone, Stamp
\* Only a stamp adds to what is stamped, and what it adds is covered.
<1>8. /\ Stamped(work') \subseteq Stamped(work) \cup clones' \cup excused'
      /\ Half => Stamped(work') \subseteq Stamped(work) \cup excused'
  <2>1. CASE Stamp
    <3>1. promoting \in clones \cup excused
      BY <2>1 DEF Stamp, PInv, PromotingCovered
    <3>2. Stamped(work') \subseteq Stamped(work) \cup Found
      BY <2>1 DEF Stamp, WithStamps, Stamped
    <3>3. Found \ {promoting} \subseteq excused' /\ (Half => promoting \in excused')
      BY <2>1 DEF Stamp
    <3> QED BY <1>6, <3>1, <3>2, <3>3
  <2>2. CASE ~Stamp
    <3>1. Stamped(work') \subseteq Stamped(work)
      BY <1>1, <2>2 DEF UserAdd, UserRemove, UserForget, AddClone, Stamped, TypeOK, Works
    <3> QED BY <3>1
  <2> QED BY <2>1, <2>2
<1>10. PromotionsSurvive'
  BY <1>5, <1>6, <1>8 DEF PInv, PromotionsSurvive
<1>11. CaptureCovered'
  BY <1>2, <1>3, <1>4, <1>5, <1>6 DEF PInv, CaptureCovered, Stamped
<1>12. HalfCovered'
  <2> SUFFICES ASSUME Half PROVE HalfCovered'
    BY <1>5 DEF HalfCovered
  <2>1. excused \subseteq excused' /\ excused' \subseteq Items
    BY <1>1 DEF Shape, TypeOK, UserAdd, UserRemove, UserForget, AddClone, Stamp
  <2>2. Stamped(work') \subseteq Stamped(work) \cup excused'
    BY <1>8
  <2>3. ~Matching(got) => excused' = Items
    BY <2>1 DEF PInv, HalfCovered
  <2>4. ASSUME Matching(got), left = {"episodic"}
        PROVE  Stamped(work') \subseteq ImportedClones(got.episodic)' \cup excused'
    <3>1. ImportedClones(got.episodic) \subseteq ImportedClones(got.episodic)' \cup excused'
      BY <1>2, <1>6 DEF ImportedClones
    <3> QED BY <2>1, <2>2, <2>4, <3>1 DEF PInv, HalfCovered
  <2>5. ASSUME Matching(got), left = {"working"}
        PROVE  /\ Stamped(got.working.work) \subseteq clones' \cup excused'
               /\ mode # "replace" => Stamped(work') \subseteq clones' \cup excused'
    BY <1>6, <2>1, <2>2, <2>5 DEF PInv, HalfCovered
  <2> QED BY <1>2, <1>5, <2>3, <2>4, <2>5 DEF HalfCovered, Stamped
<1>13. NoneShared' /\ NothingLeft'
  BY <1>2, <1>5 DEF PInv, NoneShared, NothingLeft
<1>14. Numbered' /\ PairsMatch'
  BY <1>2, <1>4, FewerSnapshots DEF PInv
<1> QED BY <1>7, <1>10, <1>11, <1>12, <1>13, <1>14 DEF PInv

\* The steps that leave the tiers alone and only copy or drop snapshots.
LEMMA CalmKeepsPInv ==
    ASSUME PInv, Shape', UNCHANGED <<tierVars, exports>>,
           WorkingPool' \subseteq WorkingPool, EpisodicPool' \subseteq EpisodicPool,
           Half' = Half, Half => UNCHANGED <<got, left, mode>>, NothingLeft',
           \A e \in Exporters :
               /\ shared'[e] = {}
               /\ pc'[e] = "capture" /\ e \notin blurred' =>
                     pc[e] = "capture" /\ e \notin blurred /\ capture'[e] = capture[e]
    PROVE  PInv'
<1> USE DEF tierVars
<1>1. Numbered' /\ PairsMatch'
  BY FewerSnapshots DEF PInv
<1>2. PromotionsSurvive' /\ PromotingCovered' /\ NoneShared'
  BY DEF PInv, PromotionsSurvive, PromotingCovered, NoneShared, Stamped
<1>3. CaptureCovered'
  BY DEF PInv, CaptureCovered, Stamped
<1>4. HalfCovered'
  BY DEF PInv, HalfCovered, Stamped, Matching, ImportedClones
<1> QED BY <1>1, <1>2, <1>3, <1>4 DEF PInv

\* The number of an export that has begun has been given out.
LEMMA OwnNumber ==
    ASSUME Shape, NEW e \in Exporters, pc[e] # "idle"
    PROVE  /\ capture[e] \in SnapSets /\ capture[e].working \in WorkingSnaps
           /\ capture[e].working.export \in Nat /\ capture[e].working.export <= exports
BY SnapType DEF Shape, ExportShape, TypeOK, WorkingSnaps, Numbers

\* The numbers of snapshots.
LEMMA PoolNumbers ==
    /\ \A w \in WorkingPool : w \in WorkingSnaps /\ w.export \in Nat
    /\ \A x \in EpisodicPool : x \in EpisodicSnaps /\ x.export \in Nat
BY DEF WorkingPool, EpisodicPool, WorkingSnaps, EpisodicSnaps, Numbers

\* ExportAll takes a new number, and copies a tier whose stamps are covered.
LEMMA ExportKeepsPInv ==
    ASSUME PInv, Shape', ~WithMaps,
           NEW e \in Exporters, NEW key \in Keys, ExportAll(e, key)
    PROVE  PInv'
<1> USE DEF tierVars, storeVars, importVars
<1> DEFINE snap == [export |-> exports + 1, work |-> work]
<1>0. Shape /\ TypeOK /\ exports \in Nat
  BY DEF PInv, Shape, TypeOK
<1>1. snap.export = exports + 1 /\ snap.work = work
  OBVIOUS
<1>2. capture' = [capture EXCEPT ![e]["working"] = snap]
  BY DEF ExportAll, Snapshot, Order
<1>3. /\ UNCHANGED <<tierVars, rows, importVars>> /\ exports' = exports + 1
      /\ blurred' = IF Half THEN blurred \cup {e} ELSE blurred
      /\ \A d \in Exporters : d # e => pc'[d] = pc[d]
      /\ \A d \in Exporters : shared'[d] = {}
  BY <1>0 DEF ExportAll, PInv, NoneShared, TypeOK
<1> HIDE DEF snap
<1>4. /\ \A d \in Exporters : d # e => capture'[d] = capture[d]
      /\ capture'[e].working = snap /\ capture'[e].episodic = capture[e].episodic
  BY <1>0, <1>2 DEF TypeOK, SnapSets
<1>5. \A w \in WorkingPool' : w \in WorkingPool \/ w = snap
  BY <1>3, <1>4 DEF WorkingPool
<1>6. EpisodicPool' \subseteq EpisodicPool
  BY <1>3, <1>4 DEF EpisodicPool
<1>7. Half' = Half /\ Loaded' = Loaded
  BY <1>3 DEF Half, Loaded
<1>8. Numbered'
  BY <1>0, <1>1, <1>3, <1>5, <1>6, PoolNumbers DEF PInv, Numbered
<1>9. PairsMatch'
  <2> SUFFICES ASSUME NEW w \in WorkingPool', NEW x \in EpisodicPool', w.export = x.export
               PROVE  Stamped(w.work) \subseteq x.clones \cup x.excused
    BY DEF PairsMatch, Stamped
  <2>1. x \in EpisodicPool /\ x.export <= exports /\ x.export \in Nat
    BY <1>6, PoolNumbers DEF PInv, Numbered
  <2>2. w \in WorkingPool
    BY <1>0, <1>1, <1>5, <2>1
  <2> QED BY <2>1, <2>2 DEF PInv, PairsMatch
<1>10. CaptureCovered'
  <2> SUFFICES ASSUME NEW d \in Exporters, d \notin blurred', pc'[d] = "capture"
               PROVE  /\ ~Half
                      /\ \A w \in WorkingPool' : w.export = capture'[d].working.export =>
                            Stamped(w.work) \subseteq clones \cup excused
    BY <1>3, <1>7 DEF CaptureCovered, Stamped
  <2>1. CASE d = e
    <3>1. ~Half
      BY <1>3, <2>1
    <3>2. \A w \in WorkingPool' : w.export = exports + 1 => w = snap
      BY <1>0, <1>5, PoolNumbers DEF PInv, Numbered
    <3> QED BY <1>1, <1>4, <2>1, <3>1, <3>2 DEF PInv, PromotionsSurvive
  <2>2. CASE d # e
    <3>1. pc[d] = "capture" /\ d \notin blurred /\ capture'[d] = capture[d]
      BY <1>3, <1>4, <2>2
    <3>2. capture[d].working.export <= exports /\ capture[d].working.export \in Nat
      BY <1>0, <3>1, OwnNumber
    <3>3. \A w \in WorkingPool' : w.export = capture[d].working.export => w \in WorkingPool
      BY <1>0, <1>1, <1>5, <3>2
    <3> QED BY <3>1, <3>3 DEF PInv, CaptureCovered
  <2> QED BY <2>1, <2>2
<1>11. PromotionsSurvive' /\ PromotingCovered' /\ NoneShared' /\ NothingLeft'
  BY <1>3, <1>7
  DEF PInv, PromotionsSurvive, PromotingCovered, NoneShared, NothingLeft, Stamped
<1>12. HalfCovered'
  BY <1>3, <1>7 DEF PInv, HalfCovered, Stamped, Matching, ImportedClones
<1> QED BY <1>8, <1>9, <1>10, <1>11, <1>12 DEF PInv

\* The second capture completes a pair.
LEMMA CaptureKeepsPInv ==
    ASSUME PInv, Shape', NEW e \in Exporters, Capture(e)
    PROVE  PInv'
<1> USE DEF tierVars, storeVars, importVars
<1> DEFINE snap == Snapshot("episodic", Number(e), e \in blurred)
           own  == capture[e].working.export
<1>0. Shape /\ TypeOK /\ pc[e] = "capture"
  BY DEF PInv, Shape, Capture
<1>1. own \in Nat /\ own <= exports /\ Number(e) = own
  BY <1>0, OwnNumber, SnapType DEF Number, Order
<1>2. /\ snap.export = own /\ snap.clones = clones
      /\ snap.excused = IF e \in blurred \/ Half THEN Items ELSE excused
  BY <1>1 DEF Snapshot
<1>3. capture' = [capture EXCEPT ![e]["episodic"] = snap]
  BY DEF Capture, Order
<1>4. /\ UNCHANGED <<tierVars, rows, importVars, exports, shared, blurred>>
      /\ pc' = [pc EXCEPT ![e] = "save"]
  BY DEF Capture
<1> HIDE DEF snap
<1>5. /\ \A d \in Exporters : d # e => capture'[d] = capture[d]
      /\ capture'[e].episodic = snap /\ capture'[e].working = capture[e].working
  BY <1>0, <1>3 DEF TypeOK, SnapSets
<1>6. WorkingPool' \subseteq WorkingPool
  BY <1>4, <1>5 DEF WorkingPool
<1>7. \A x \in EpisodicPool' : x \in EpisodicPool \/ x = snap
  BY <1>4, <1>5 DEF EpisodicPool
<1>8. Half' = Half /\ Loaded' = Loaded
  BY <1>4 DEF Half, Loaded
<1>9. Numbered'
  BY <1>1, <1>2, <1>4, <1>6, <1>7 DEF PInv, Numbered
<1>10. PairsMatch'
  <2> SUFFICES ASSUME NEW w \in WorkingPool', NEW x \in EpisodicPool', w.export = x.export
               PROVE  Stamped(w.work) \subseteq x.clones \cup x.excused
    BY DEF PairsMatch, Stamped
  <2>1. CASE x \in EpisodicPool
    BY <1>6, <2>1 DEF PInv, PairsMatch
  <2>2. CASE x = snap /\ (e \in blurred \/ Half)
    BY <1>2, <2>2 DEF Stamped
  <2>3. CASE x = snap /\ e \notin blurred /\ ~Half
    <3>1. w \in WorkingPool /\ w.export = own
      BY <1>2, <1>6, <2>3
    <3>2. Stamped(w.work) \subseteq clones \cup excused
      BY <1>0, <2>3, <3>1 DEF PInv, CaptureCovered
    <3> QED BY <1>2, <2>3, <3>2
  <2> QED BY <1>7, <2>1, <2>2, <2>3
<1>11. CaptureCovered'
  <2> SUFFICES ASSUME NEW d \in Exporters, d \notin blurred, pc'[d] = "capture"
               PROVE  /\ ~Half
                      /\ \A w \in WorkingPool : w.export = capture'[d].working.export =>
                            Stamped(w.work) \subseteq clones \cup excused
    BY <1>4, <1>6, <1>8 DEF CaptureCovered, Stamped
  <2>1. d # e /\ pc[d] = "capture" /\ capture'[d] = capture[d]
    BY <1>0, <1>4, <1>5 DEF TypeOK
  <2> QED BY <2>1 DEF PInv, CaptureCovered
<1>12. PromotionsSurvive' /\ PromotingCovered' /\ NoneShared' /\ NothingLeft'
  BY <1>4, <1>8
  DEF PInv, PromotionsSurvive, PromotingCovered, NoneShared, NothingLeft, Stamped
<1>13. HalfCovered'
  BY <1>4, <1>8 DEF PInv, HalfCovered, Stamped, Matching, ImportedClones
<1> QED BY <1>9, <1>10, <1>11, <1>12, <1>13 DEF PInv

\* What the import of the working tier leaves stamped.
LEMMA ImportedStamps ==
    ASSUME TypeOK, NEW w \in WorkingSnaps
    PROVE  Stamped(ImportedWork(w)) \subseteq
               Stamped(w.work) \cup (IF mode = "replace" THEN {} ELSE Stamped(work))
BY DEF Stamped, ImportedWork, Displaced, TypeOK, Works

\* The import of one tier: the first leaves a half that the other completes.
LEMMA ImportKeepsPInv ==
    ASSUME PInv, Shape', NEW k \in Kinds, Import(k)
    PROVE  PInv'
<1> USE DEF storeVars
<1>0. Shape /\ TypeOK /\ ipc = "import" /\ k \in left /\ left \subseteq Loaded
  BY DEF PInv, Shape, ImportShape, Import
<1>1. /\ UNCHANGED <<promoting, rows, pc, capture, exports>>
      /\ excused' = IF Matching(got) THEN excused \cup got.episodic.excused
                                              \cup (Items \cap {promoting})
                    ELSE Items
      /\ blurred' = blurred \cup {e \in Exporters : pc[e] = "capture"}
  BY DEF Import
<1>2. \/ /\ left = {k} /\ ipc' = "idle" /\ got' = NoSnaps
      \/ left # {k} /\ left' = left \ {k} /\ UNCHANGED <<ipc, mode, got>>
  BY DEF Import, ImportOver
<1>3. NoneShared'
  BY DEF PInv, NoneShared, Import, Unshare
<1>4. Numbered' /\ PairsMatch'
  <2>1. /\ \A w \in WorkingSnaps : w = got'.working => w = got.working
        /\ \A x \in EpisodicSnaps : x = got'.episodic => x = got.episodic
    BY <1>2, SnapAssumption DEF NoSnaps
  <2>2. WorkingPool' \subseteq WorkingPool /\ EpisodicPool' \subseteq EpisodicPool
    BY <1>1, <2>1 DEF WorkingPool, EpisodicPool
  <2> QED BY <1>1, <2>2, FewerSnapshots DEF PInv
<1>5. CaptureCovered'
  BY <1>1 DEF CaptureCovered
<1>6. PromotingCovered'
  BY <1>0, <1>1 DEF PromotingCovered, TypeOK
<1>7. NothingLeft'
  BY <1>0, <1>2 DEF NothingLeft, TypeOK
<1>8. CASE ~Matching(got)
  <2>1. excused' = Items
    BY <1>1, <1>8
  <2>2. PromotionsSurvive'
    BY <2>1 DEF PromotionsSurvive, Stamped
  <2>3. HalfCovered'
    BY <1>2, <1>8, <2>1 DEF HalfCovered, Half, Matching
  <2> QED BY <1>3, <1>4, <1>5, <1>6, <1>7, <2>2, <2>3 DEF PInv
<1>9. CASE Matching(got)
  <2>1. /\ got.working \in WorkingSnaps /\ got.episodic \in EpisodicSnaps
        /\ got.working.export = got.episodic.export /\ Loaded = Kinds
    BY <1>0, <1>9, SnapType DEF Matching, TypeOK, Loaded, Kinds
  <2>2. Stamped(got.working.work) \subseteq got.episodic.clones \cup got.episodic.excused
    BY <2>1 DEF PInv, PairsMatch, WorkingPool, EpisodicPool
  <2>3. excused \subseteq excused' /\ got.episodic.excused \subseteq excused'
    BY <1>1, <1>9
  <2>4. k = "working" => /\ work' = ImportedWork(got.working) /\ clones' = clones
                         /\ Stamped(work') \subseteq Stamped(got.working.work) \cup
                               (IF mode = "replace" THEN {} ELSE Stamped(work))
    BY <1>0, <2>1, SnapType, ImportedStamps DEF Import, TypeOK
  <2>5. k = "episodic" => work' = work /\ clones' = ImportedClones(got.episodic)
    BY <1>0, SnapType DEF Import, TypeOK
  <2>6. CASE left = {k}
    <3>1. Half /\ ~Half'
      BY <1>0, <1>2, <2>1, <2>6 DEF Half, Kinds
    <3>2. Stamped(work') \subseteq clones' \cup excused'
      <4>1. CASE k = "working"
        BY <1>9, <2>3, <2>4, <2>6, <3>1, <4>1 DEF PInv, HalfCovered
      <4>2. CASE k = "episodic"
        BY <1>9, <2>3, <2>5, <2>6, <3>1, <4>2 DEF PInv, HalfCovered
      <4> QED BY <4>1, <4>2 DEF Kinds
    <3>3. PromotionsSurvive' /\ HalfCovered'
      BY <3>1, <3>2 DEF PromotionsSurvive, HalfCovered, Stamped
    <3> QED BY <1>3, <1>4, <1>5, <1>6, <1>7, <3>3 DEF PInv
  <2>7. CASE left # {k}
    <3>1. left = Kinds /\ left' = Kinds \ {k} /\ UNCHANGED <<ipc, mode, got>>
      BY <1>0, <1>2, <2>1, <2>7 DEF Kinds
    <3>2. ~Half /\ Half'
      BY <1>0, <2>1, <3>1 DEF Half, Loaded
    <3>3. Stamped(work) \subseteq clones \cup excused
      BY <3>2 DEF PInv, PromotionsSurvive
    <3>4. ASSUME k = "working" PROVE HalfCovered'
      <4>1. left' = {"episodic"}
        BY <3>1, <3>4 DEF Kinds
      <4>2. ImportedClones(got.episodic)' = ImportedClones(got.episodic)
        BY <2>4, <3>1, <3>4 DEF ImportedClones
      <4>3. Stamped(work') \subseteq ImportedClones(got.episodic) \cup excused'
        BY <2>2, <2>3, <2>4, <3>3, <3>4 DEF ImportedClones
      <4> QED BY <1>9, <3>1, <4>1, <4>2, <4>3 DEF HalfCovered, Matching, Stamped
    <3>5. ASSUME k = "episodic" PROVE HalfCovered'
      <4>1. left' = {"working"}
        BY <3>1, <3>5 DEF Kinds
      <4>2. Stamped(got.working.work) \subseteq clones' \cup excused'
        BY <2>2, <2>3, <2>5, <3>5 DEF ImportedClones
      <4>3. mode # "replace" => Stamped(work') \subseteq clones' \cup excused'
        BY <2>3, <2>5, <3>3, <3>5 DEF ImportedClones
      <4> QED BY <1>9, <3>1, <4>1, <4>2, <4>3 DEF HalfCovered, Matching, Stamped
    <3>6. HalfCovered' /\ PromotionsSurvive'
      BY <3>2, <3>4, <3>5 DEF Kinds, PromotionsSurvive
    <3> QED BY <1>3, <1>4, <1>5, <1>6, <1>7, <3>6 DEF PInv
  <2> QED BY <2>6, <2>7
<1> QED BY <1>8, <1>9

\* The rows ExportAll saves are copies of what it has captured.
LEMMA SavesKeepPInv ==
    ASSUME PInv, Shape', NEW e \in Exporters, (\E k \in Kinds : Save(e, k)) \/ SaveError(e)
    PROVE  PInv'
<1> USE DEF tierVars, storeVars, importVars
<1>0. Shape /\ TypeOK
  BY DEF PInv, Shape
<1>1. UNCHANGED <<tierVars, importVars, exports>>
  BY DEF Save, SaveError, AfterSave, Leave
<1>2. Half' = Half /\ NothingLeft'
  BY <1>1 DEF PInv, NothingLeft, Half, Loaded
<1>3. /\ \A d \in Exporters : capture'[d] = capture[d] \/ capture'[d] = NoSnaps
      /\ \A d \in Exporters : d # e => capture'[d] = capture[d]
      /\ pc[e] = "save"
  BY <1>0 DEF Save, SaveError, AfterSave, Leave, TypeOK
<1>4. \A n \in Names :
         /\ \/ rows'[n].working = rows[n].working
            \/ \E d \in Exporters : rows'[n].working = capture[d].working
         /\ \/ rows'[n].episodic = rows[n].episodic
            \/ \E d \in Exporters : rows'[n].episodic = capture[d].episodic
  <2>1. CASE rows' = rows
    BY <2>1
  <2>2. CASE rows' # rows
    <3>1. PICK k \in Kinds : rows' = [rows EXCEPT ![name[e]][k] = capture[e][k]]
      BY <2>2 DEF Save, SaveError
    <3>2. capture[e] \in SnapSets /\ rows \in [Names -> SnapSets]
      BY <1>0 DEF TypeOK
    <3>3. \A n \in Names :
             \/ rows'[n] = rows[n]
             \/ rows'[n] = [rows[n] EXCEPT ![k] = capture[e][k]]
      BY <3>1, <3>2
    <3>4. \A n \in Names : LET r == [rows[n] EXCEPT ![k] = capture[e][k]] IN
             /\ r.working = rows[n].working \/ r.working = capture[e].working
             /\ r.episodic = rows[n].episodic \/ r.episodic = capture[e].episodic
      BY <3>2 DEF Kinds, SnapSets
    <3> QED BY <3>3, <3>4
  <2> QED BY <2>1, <2>2
<1>5. /\ WorkingPool' \subseteq WorkingPool
      /\ EpisodicPool' \subseteq EpisodicPool
  BY <1>1, <1>3, <1>4, SnapAssumption DEF WorkingPool, EpisodicPool, NoSnaps
<1>6. \A d \in Exporters :
         /\ shared'[d] = {}
         /\ pc'[d] = "capture" /\ d \notin blurred' =>
               pc[d] = "capture" /\ d \notin blurred /\ capture'[d] = capture[d]
  BY <1>0, <1>3 DEF PInv, NoneShared, Save, SaveError, AfterSave, Leave, TypeOK
<1> QED BY <1>1, <1>2, <1>5, <1>6, CalmKeepsPInv

\* ImportAll up to its imports only copies rows.
LEMMA LoadsKeepPInv ==
    ASSUME PInv, Shape',
           \/ \E key \in Keys, how \in Modes : ImportAll(key, how)
           \/ LoadKind \/ LoadError \/ NothingLoaded
    PROVE  PInv'
<1> USE DEF tierVars, storeVars, exportVars
<1>0. Shape /\ TypeOK
  BY DEF PInv, Shape
<1>1. UNCHANGED <<tierVars, rows, exportVars>>
  BY DEF ImportAll, LoadKind, LoadError, NothingLoaded
<1>2. ~Half
  BY DEF PInv, NothingLeft, Half, ImportAll, LoadKind, LoadError, NothingLoaded
<1>3. ~Half' /\ NothingLeft'
  BY <1>0 DEF Half, NothingLeft, Loaded, ImportAll, LoadKind, LoadError, NothingLoaded,
              ImportOver
<1>4. got' = got \/ got' = NoSnaps
      \/ \E n \in Names, k \in Kinds : got' = [got EXCEPT ![k] = rows[n][k]]
  BY <1>0 DEF ImportAll, LoadKind, LoadError, NothingLoaded, ImportOver, Shape, ImportShape,
              FirstOf, Order, Kinds
<1>5. /\ \/ got'.working = got.working \/ got'.working = Nil
         \/ \E n \in Names : got'.working = rows[n].working
      /\ \/ got'.episodic = got.episodic \/ got'.episodic = Nil
         \/ \E n \in Names : got'.episodic = rows[n].episodic
  BY <1>0, <1>4 DEF TypeOK, SnapSets, Kinds, NoSnaps
<1>6. /\ WorkingPool' \subseteq WorkingPool
      /\ EpisodicPool' \subseteq EpisodicPool
  BY <1>1, <1>5, SnapAssumption DEF WorkingPool, EpisodicPool
<1>7. \A e \in Exporters : shared'[e] = {}
  BY <1>1 DEF PInv, NoneShared
<1>8. Half' = Half /\ (Half => UNCHANGED <<got, left, mode>>)
  BY <1>2, <1>3, Zenon DEF Half
<1> QED BY <1>1, <1>3, <1>6, <1>7, <1>8, CalmKeepsPInv

\* An import that ends half way leaves nothing to vouch for, and one that ends
\* before its first tier leaves everything as it was.
LEMMA ImportErrorKeepsPInv ==
    ASSUME PInv, Shape', ImportError
    PROVE  PInv'
<1> USE DEF storeVars, exportVars
<1>1. /\ UNCHANGED <<work, clones, promoting, rows, exports, pc, capture, shared, blurred>>
      /\ excused' = IF Half THEN Items ELSE excused
      /\ ipc' = "idle" /\ got' = NoSnaps
  BY DEF ImportError, ImportOver
<1>2. ~Half' /\ NothingLeft' /\ HalfCovered'
  BY <1>1 DEF Half, NothingLeft, HalfCovered
<1>3. WorkingPool' \subseteq WorkingPool /\ EpisodicPool' \subseteq EpisodicPool
  BY <1>1, SnapAssumption DEF WorkingPool, EpisodicPool, NoSnaps
<1>4. Numbered' /\ PairsMatch'
  BY <1>1, <1>3, FewerSnapshots DEF PInv
<1>5. excused \subseteq excused'
  BY <1>1 DEF PInv, Shape, TypeOK
<1>6. NoneShared' /\ PromotingCovered'
  BY <1>1, <1>5 DEF PInv, NoneShared, PromotingCovered
<1>7. CaptureCovered'
  BY <1>1, <1>2, <1>3, <1>5 DEF PInv, CaptureCovered, Stamped
<1>8. PromotionsSurvive'
  BY <1>1 DEF PInv, PromotionsSurvive, Stamped
<1> QED BY <1>2, <1>4, <1>6, <1>7, <1>8 DEF PInv

\* Every step keeps promotions.
LEMMA StepPInv == ASSUME ~WithMaps PROVE PInv /\ [Next]_vars => PInv'
<1> SUFFICES ASSUME PInv, [Next]_vars PROVE PInv'
  OBVIOUS
<1> USE DEF tierVars, storeVars, exportVars, importVars
<1>0. Shape /\ Shape' /\ TypeOK
  BY StepShape DEF PInv, Shape
<1>1. ASSUME \/ \E id \in Items : \/ UserAdd(id) \/ UserRemove(id)
                                \/ UserForget(id) \/ AddClone(id)
             \/ Stamp
      PROVE  PInv'
  BY <1>0, <1>1, UsersKeepPInv
<1>2. ASSUME NEW e \in Exporters, NEW key \in Keys, ExportAll(e, key) PROVE PInv'
  BY <1>0, <1>2, ExportKeepsPInv
<1>3. ASSUME NEW e \in Exporters, Capture(e) PROVE PInv'
  BY <1>0, <1>3, CaptureKeepsPInv
<1>4. ASSUME NEW e \in Exporters, (\E k \in Kinds : Save(e, k)) \/ SaveError(e) PROVE PInv'
  BY <1>0, <1>4, SavesKeepPInv
<1>5. ASSUME \/ \E key \in Keys, how \in Modes : ImportAll(key, how)
             \/ LoadKind \/ LoadError \/ NothingLoaded
      PROVE  PInv'
  BY <1>0, <1>5, LoadsKeepPInv
<1>6. ASSUME NEW k \in Kinds, Import(k) PROVE PInv'
  BY <1>0, <1>6, ImportKeepsPInv
<1>7. ASSUME Open \/ (\E key \in Keys : Delete(key)) \/ UNCHANGED vars PROVE PInv'
  <2>1. /\ UNCHANGED <<tierVars, exports, importVars, pc, capture, shared, blurred>>
        /\ \A n \in Names : rows'[n] = rows[n] \/ rows'[n] = NoSnaps
    BY <1>0, <1>7 DEF Open, Delete, vars, TypeOK
  <2>2. /\ WorkingPool' \subseteq WorkingPool
        /\ EpisodicPool' \subseteq EpisodicPool
    BY <2>1, SnapAssumption DEF WorkingPool, EpisodicPool, NoSnaps
  <2>3. Half' = Half /\ NothingLeft'
    BY <2>1 DEF PInv, NothingLeft, Half, Loaded
  <2> QED BY <1>0, <2>1, <2>2, <2>3, CalmKeepsPInv DEF PInv, NoneShared
<1>8. ASSUME ImportError PROVE PInv'
  BY <1>0, <1>8, ImportErrorKeepsPInv
<1>9. ASSUME Crash PROVE PInv'
  <2>1. /\ UNCHANGED <<rows, exports>> /\ ipc' = "idle" /\ promoting' = Nil
        /\ got' = NoSnaps /\ Stamped(work') = {}
        /\ \A e \in Exporters : pc'[e] = "idle" /\ capture'[e] = NoSnaps /\ shared'[e] = {}
    BY <1>9 DEF Crash, ImportOver, Stamped
  <2>2. /\ WorkingPool' \subseteq WorkingPool
        /\ EpisodicPool' \subseteq EpisodicPool
    BY <2>1, SnapAssumption DEF WorkingPool, EpisodicPool, NoSnaps
  <2>3. Numbered' /\ PairsMatch'
    BY <2>1, <2>2, FewerSnapshots DEF PInv
  <2>4. NoneShared' /\ NothingLeft' /\ CaptureCovered' /\ PromotingCovered' /\ HalfCovered'
    BY <2>1 DEF NoneShared, NothingLeft, CaptureCovered, PromotingCovered, HalfCovered, Half
  <2>5. PromotionsSurvive'
    BY <2>1 DEF PromotionsSurvive, Stamped
  <2> QED BY <1>0, <2>3, <2>4, <2>5 DEF PInv
<1> QED
  BY <1>1, <1>2, <1>3, <1>4, <1>5, <1>6, <1>7, <1>8, <1>9 DEF Next

\* For any items, exporters, keys and modes, with failing saves and loads,
\* deletes and crashes: a stamped item without a Metadata map has its clone,
\* because ExportAll captures the working tier first and Consolidate adds the
\* clone before it stamps.
THEOREM PromotionsAreKept == ASSUME ~WithMaps PROVE Spec => []PromotionsSurvive
<1>1. PInv => PromotionsSurvive
  BY DEF PInv
<1> QED BY InitPInv, StepPInv, <1>1, PTL DEF Spec

============================================================================
