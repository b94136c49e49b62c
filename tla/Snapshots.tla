----------------------------- MODULE Snapshots -----------------------------
(***************************************************************************)
(* ExportAll and ImportAll of the Manager around the SQLite snapshot       *)
(* store.  ExportAll captures the tiers one after the other and then saves *)
(* one row per tier, each in a transaction of its own; ImportAll loads the *)
(* rows one after the other and then imports them, in any order.  Users    *)
(* and a Consolidator go on working in between, a Save or a load can fail, *)
(* and the process can crash and come up with empty tiers.                 *)
(*                                                                         *)
(* What ties two tiers together is promotion: a working item is stamped    *)
(* once its clone is in the episodic tier, and a stamped item is never     *)
(* promoted again.  So the working tier is abstracted to the state of each *)
(* item, which is what some Add put under an ID, and the episodic tier to  *)
(* the items it has clones of.  An Add, an import and a stamp go by the    *)
(* ID: they replace or hit whatever item is there.  The semantic tier is   *)
(* tied to no other and left out.  One ImportAll runs at a time.           *)
(*                                                                         *)
(* A captured item is a copy that shares its Metadata map with the item in *)
(* the tier, and Save encodes it only later: a stamp written meanwhile is  *)
(* in the row.  An item without a map gets one with its stamp, which the   *)
(* copies made before do not see.                                          *)
(***************************************************************************)
EXTENDS Naturals

CONSTANTS
    Items,          \* what may be added to the working tier
    IdOf,           \* the ID each of them is added under
    Exporters,      \* goroutines that call ExportAll with a persistKey
    Keys,           \* the persistKeys in use
    Names,          \* the keys of rows
    Sanitize,       \* sanitizeSQLiteKey; it may send two keys to one name
    Modes,          \* the import modes in use
    WithMaps,       \* do the users' items come with a Metadata map?
    SaveFails,      \* may Save return an error?
    LoadFails,      \* may a load, other than of a missing row, or an Importer fail?
    SchemaVersion,  \* the version this code migrates to
    Nil,            \* a missing row, or no item
    MaxExports      \* bound on the calls of ExportAll

ASSUME NilAssumption == Nil \notin Items
ASSUME IdAssumption == DOMAIN IdOf = Items
ASSUME NameAssumption == Sanitize \in [Keys -> Names]
ASSUME ModeAssumption == Modes \subseteq {"merge", "upsert", "replace"}
ASSUME FlagAssumption == {WithMaps, SaveFails, LoadFails} \subseteq BOOLEAN
ASSUME BoundAssumption == MaxExports \in Nat /\ SchemaVersion \in Nat \ {0}

Kinds   == {"working", "episodic"}
Numbers == 1..MaxExports

VARIABLES
    work,       \* the state of each working item
    clones,     \* the IDs with a clone in the episodic tier
    promoting,  \* the item whose clone the Consolidator has added, not stamped
    excused,    \* history: IDs whose stamp may have lost its clone
    rows,       \* memory_snapshots: a row for each name and kind
    schema,     \* the newest version in memory_store_schema, 0 for none
    open,       \* is the store open?
    pc,         \* where each exporter is
    name,       \* the name its rows go to
    capture,    \* the snapshots it has captured
    shared,     \* the items whose Metadata map its snapshot shares with the tier
    unsaved,    \* the kinds it has still to save
    exports,    \* history: the calls of ExportAll so far
    blurred,    \* history: exporters that overlapped an import
    contested,  \* history: exporters that overlapped another, or a Delete
    floor,      \* history: the last export that completed uncontested
    ipc,        \* where ImportAll is
    iname,      \* the name its rows come from
    mode,       \* its import mode
    left,       \* the kinds it has still to load or to import
    got         \* the snapshots it has loaded

tierVars   == <<work, clones, promoting, excused>>
storeVars  == <<rows, schema, open, floor>>
exportVars == <<pc, name, capture, shared, unsaved, exports, blurred, contested>>
importVars == <<ipc, iname, mode, left, got>>
vars == <<tierVars, storeVars, exportVars, importVars>>

\* The items with the ID of this one, itself among them.
Alike(i) == {j \in Items : IdOf[j] = IdOf[i]}

\* A working tier: the state of each item, with one item to an ID at most.
Works ==
    {w \in [Items -> {"absent", "plain", "stamped"}] :
        \A i, j \in Items : w[i] # "absent" /\ w[j] # "absent" /\ j \in Alike(i) => i = j}

\* A snapshot with the number of its export.
WorkingSnaps  == [export : Numbers, work : Works]
EpisodicSnaps == [export : Numbers, clones : SUBSET Items, excused : SUBSET Items]
SnapSets == [working : WorkingSnaps \cup {Nil}, episodic : EpisodicSnaps \cup {Nil}]

NoSnaps == [working |-> Nil, episodic |-> Nil]

ASSUME SnapAssumption == Nil \notin WorkingSnaps \cup EpisodicSnaps

Stamped(w) == {i \in Items : w[i] = "stamped"}

TypeOK ==
    /\ work \in Works
    /\ clones \subseteq Items
    /\ promoting \in Items \cup {Nil}
    /\ excused \subseteq Items
    /\ rows \in [Names -> SnapSets]
    /\ schema \in Nat
    /\ open \in BOOLEAN
    /\ pc \in [Exporters -> {"idle", "capture", "save"}]
    /\ name \in [Exporters -> Names]
    /\ capture \in [Exporters -> SnapSets]
    /\ shared \in [Exporters -> SUBSET Items]
    /\ unsaved \in [Exporters -> SUBSET Kinds]
    /\ exports \in 0..MaxExports
    /\ blurred \subseteq Exporters /\ contested \subseteq Exporters
    /\ floor \in [Names -> 0..MaxExports]
    /\ ipc \in {"idle", "load", "import"}
    /\ iname \in Names \cup {Nil}
    /\ mode \in Modes \cup {Nil}
    /\ left \subseteq Kinds
    /\ got \in SnapSets

Init ==
    /\ work = [i \in Items |-> "absent"]
    /\ clones = {} /\ promoting = Nil /\ excused = {}
    /\ rows = [n \in Names |-> NoSnaps]
    /\ schema \in 0..(SchemaVersion + 1)
    /\ open = FALSE
    /\ pc = [e \in Exporters |-> "idle"]
    /\ name \in {[e \in Exporters |-> n] : n \in Names}
    /\ capture = [e \in Exporters |-> NoSnaps]
    /\ shared = [e \in Exporters |-> {}]
    /\ unsaved = [e \in Exporters |-> {}]
    /\ exports = 0
    /\ blurred = {} /\ contested = {}
    /\ floor = [n \in Names |-> 0]
    /\ ipc = "idle"
    /\ iname = Nil /\ mode = Nil
    /\ left = {} /\ got = NoSnaps
----------------------------------------------------------------------------
(* ImportAll is between the imports of two tiers.                          *)

Loaded == {k \in Kinds : got[k] # Nil}

Half == ipc = "import" /\ left # Loaded
----------------------------------------------------------------------------
(* Users and the Consolidator.                                             *)

\* The exporters' copies of these items share nothing with the tier any more.
Unshare(items) == shared' = [e \in Exporters |-> shared[e] \ items]

\* An Add takes the place of the item that has the ID.
UserAdd(i) ==
    /\ work' = [j \in Items |-> IF j = i THEN "plain"
                               ELSE IF j \in Alike(i) THEN "absent" ELSE work[j]]
    /\ Unshare(Alike(i))
    /\ UNCHANGED <<clones, promoting, excused, storeVars, importVars,
                   pc, name, capture, unsaved, exports, blurred, contested>>

UserRemove(i) ==
    /\ work[i] # "absent"
    /\ work' = [work EXCEPT ![i] = "absent"]
    /\ Unshare({i})
    /\ UNCHANGED <<clones, promoting, excused, storeVars, importVars,
                   pc, name, capture, unsaved, exports, blurred, contested>>

\* A clone is removed, or forgotten.
UserForget(i) ==
    /\ i \in clones
    /\ clones' = clones \ {i}
    /\ excused' = excused \cup {i}
    /\ UNCHANGED <<work, promoting, storeVars, exportVars, importVars>>

\* Consolidate adds the clone first, and stamps the source second.
AddClone(i) ==
    /\ promoting = Nil
    /\ work[i] = "plain"
    /\ clones' = clones \cup {i}
    /\ promoting' = i
    /\ excused' = IF Half THEN excused \cup {i} ELSE excused \ {i}
    /\ UNCHANGED <<work, storeVars, exportVars, importVars>>

\* The item that Update finds under the ID of the source, if any.
Found == {i \in Items : work[i] # "absent" /\ i \in Alike(promoting)}

WithStamps(w, items) == [i \in Items |-> IF i \in items THEN "stamped" ELSE w[i]]

\* Update of the source by its ID.  It fails when there is no item any more, and
\* stamps one that has been added over the source.  The stamp is written into
\* the map the item has, if it has one.
Stamp ==
    /\ promoting # Nil
    /\ promoting' = Nil
    /\ work' = WithStamps(work, Found)
    /\ capture' = [e \in Exporters |->
                     IF shared[e] \cap Found = {} THEN capture[e]
                     ELSE [capture[e] EXCEPT !.working.work =
                             WithStamps(@, shared[e] \cap Found)]]
    /\ excused' = excused \cup (Found \ {promoting})
                          \cup (IF Half THEN {promoting} ELSE {})
    /\ UNCHANGED <<clones, storeVars, importVars,
                   pc, name, shared, unsaved, exports, blurred, contested>>
----------------------------------------------------------------------------
(* ExportAll.                                                              *)

\* Mutant: the episodic tier is captured first.
OrderReversed == <<"episodic", "working">>

\* The order in which ExportAll captures and loadAllFromStore loads the kinds.
Order == <<"working", "episodic">>

FirstOf(kinds) == IF Order[1] \in kinds THEN Order[1] ELSE Order[2]

Active == {e \in Exporters : pc[e] # "idle"}

\* exp.Export of one tier, under that tier's lock only.
Snapshot(k, n, blur) ==
    IF k = "working" THEN [export |-> n, work |-> work]
    ELSE [export |-> n, clones |-> clones,
          excused |-> IF blur \/ Half THEN Items ELSE excused]

\* The call, and the capture of the first tier.
ExportAll(e, key) ==
    LET rivals == {d \in Active : name[d] = Sanitize[key]} IN
    /\ open
    /\ pc[e] = "idle"
    /\ exports < MaxExports
    /\ exports' = exports + 1
    /\ pc' = [pc EXCEPT ![e] = "capture"]
    /\ name' = [name EXCEPT ![e] = Sanitize[key]]
    /\ capture' = [capture EXCEPT ![e][Order[1]] = Snapshot(Order[1], exports + 1, FALSE)]
    /\ shared' = [shared EXCEPT
                    ![e] = {i \in Items : WithMaps /\ work[i] # "absent"}]
    /\ blurred' = IF Half THEN blurred \cup {e} ELSE blurred
    /\ contested' = contested \cup rivals \cup {d \in {e} : rivals # {}}
    /\ UNCHANGED <<tierVars, storeVars, unsaved, importVars>>

\* The number of an exporter's call.
Number(e) == capture[e][Order[1]].export

\* The capture of the second tier.
Capture(e) ==
    /\ pc[e] = "capture"
    /\ pc' = [pc EXCEPT ![e] = "save"]
    /\ capture' = [capture EXCEPT ![e][Order[2]] =
                     Snapshot(Order[2], Number(e), e \in blurred)]
    /\ unsaved' = [unsaved EXCEPT ![e] = Kinds]
    /\ UNCHANGED <<tierVars, storeVars, name, shared, exports, blurred, contested,
                   importVars>>

\* The call is over.
Leave(e) ==
    /\ pc' = [pc EXCEPT ![e] = "idle"]
    /\ capture' = [capture EXCEPT ![e] = NoSnaps]
    /\ shared' = [shared EXCEPT ![e] = {}]
    /\ unsaved' = [unsaved EXCEPT ![e] = {}]
    /\ blurred' = blurred \ {e}
    /\ contested' = contested \ {e}
    /\ UNCHANGED <<name, exports>>

\* ExportAll returns after the last row, or goes on.
AfterSave(e, k) ==
    IF unsaved[e] = {k}
       THEN /\ Leave(e)
            /\ floor' = IF e \in contested THEN floor
                        ELSE [floor EXCEPT ![name[e]] = Number(e)]
       ELSE /\ unsaved' = [unsaved EXCEPT ![e] = @ \ {k}]
            /\ UNCHANGED <<floor, pc, name, capture, shared, exports, blurred, contested>>

\* Mutant: the row is keyed by the kind of another snapshot.
SaveSwapsKinds(e, k) ==
    /\ open
    /\ pc[e] = "save"
    /\ k \in unsaved[e]
    /\ \E j \in Kinds \ {k} : rows' = [rows EXCEPT ![name[e]][k] = capture[e][j]]
    /\ AfterSave(e, k)
    /\ UNCHANGED <<tierVars, schema, open, importVars>>

\* Save: an UPSERT of one row.  ExportAll ranges over a map, so the rows are
\* saved in any order.
Save(e, k) ==
    /\ open
    /\ pc[e] = "save"
    /\ k \in unsaved[e]
    /\ rows' = [rows EXCEPT ![name[e]][k] = capture[e][k]]
    /\ AfterSave(e, k)
    /\ UNCHANGED <<tierVars, schema, open, importVars>>

\* The first Save that fails ends the call and leaves the other rows as they are.
SaveError(e) ==
    /\ SaveFails
    /\ pc[e] = "save"
    /\ Leave(e)
    /\ UNCHANGED <<tierVars, storeVars, importVars>>
----------------------------------------------------------------------------
(* ImportAll with a persistKey.                                            *)

ImportAll(key, how) ==
    /\ open
    /\ ipc = "idle"
    /\ ipc' = "load"
    /\ iname' = Sanitize[key]
    /\ mode' = how
    /\ left' = Kinds
    /\ UNCHANGED <<tierVars, storeVars, exportVars, got>>

\* LoadKind of the next kind; a missing row is skipped.
LoadKind ==
    LET k == FirstOf(left) IN
    /\ open
    /\ ipc = "load"
    /\ got' = [got EXCEPT ![k] = rows[iname][k]]
    /\ IF left = {k}
          THEN /\ ipc' = "import"
               /\ left' = {j \in Kinds : got'[j] # Nil}
          ELSE /\ ipc' = ipc
               /\ left' = left \ {k}
    /\ UNCHANGED <<tierVars, storeVars, exportVars, iname, mode>>

\* ImportAll is over.
ImportOver ==
    /\ ipc' = "idle"
    /\ iname' = Nil /\ mode' = Nil
    /\ left' = {} /\ got' = NoSnaps

\* Any other error of a load ends the call before a tier has been touched.
LoadError ==
    /\ LoadFails
    /\ ipc = "load"
    /\ ImportOver
    /\ UNCHANGED <<tierVars, storeVars, exportVars>>

\* The two rows are there and belong to one export.
Matching(snaps) ==
    /\ snaps.working # Nil /\ snaps.episodic # Nil
    /\ snaps.working.export = snaps.episodic.export

\* importIntoStore of either tier.
Takes(snap, i) ==
    /\ snap.work[i] # "absent"
    /\ mode = "merge" => \A j \in Alike(i) : work[j] = "absent"

\* The items that an import takes the place of, or drops.
Displaced(snap) ==
    {i \in Items : mode = "replace" \/ \E j \in Alike(i) : Takes(snap, j)}

ImportedWork(snap) ==
    [i \in Items |-> IF Takes(snap, i) THEN snap.work[i]
                     ELSE IF i \in Displaced(snap) THEN "absent" ELSE work[i]]

ImportedClones(snap) == IF mode = "replace" THEN snap.clones ELSE clones \cup snap.clones

\* One tier is imported, in any order.  The items whose stamp the import may
\* have parted from its clone are excused: all of them when the rows do not
\* belong together, and the one that is being promoted.
Import(k) ==
    /\ ipc = "import"
    /\ k \in left
    /\ IF k = "working"
          THEN /\ work' = ImportedWork(got[k])
               /\ Unshare(Displaced(got[k]))
               /\ UNCHANGED clones
          ELSE /\ clones' = ImportedClones(got[k])
               /\ UNCHANGED <<work, shared>>
    /\ excused' = IF Matching(got) THEN excused \cup got.episodic.excused
                                             \cup (Items \cap {promoting})
                  ELSE Items
    /\ blurred' = blurred \cup {e \in Exporters : pc[e] = "capture"}
    /\ IF left = {k} THEN ImportOver
       ELSE left' = left \ {k} /\ UNCHANGED <<ipc, iname, mode, got>>
    /\ UNCHANGED <<promoting, storeVars, pc, name, capture, unsaved, exports, contested>>

\* An Importer fails before it touches its tier, and ends the call: the tiers
\* that have been imported stay so, and the others stay as they are.
ImportError ==
    /\ LoadFails
    /\ ipc = "import"
    /\ left # {}
    /\ excused' = IF Half THEN Items ELSE excused
    /\ ImportOver
    /\ UNCHANGED <<work, clones, promoting, storeVars, exportVars>>

\* No row was there.
NothingLoaded ==
    /\ ipc = "import"
    /\ left = {}
    /\ ImportOver
    /\ UNCHANGED <<tierVars, storeVars, exportVars>>
----------------------------------------------------------------------------
(* The store and the process.                                              *)

\* Mutant: the tables are created anew.
OpenRecreates ==
    /\ ~open
    /\ schema <= SchemaVersion
    /\ open' = TRUE
    /\ schema' = SchemaVersion
    /\ rows' = [n \in Names |-> NoSnaps]
    /\ UNCHANGED <<tierVars, floor, exportVars, importVars>>

\* NewSQLiteStore: migrations that have not been applied are, in one
\* transaction; a database of a newer version is refused.
Open ==
    /\ ~open
    /\ schema <= SchemaVersion
    /\ open' = TRUE
    /\ schema' = SchemaVersion
    /\ UNCHANGED <<tierVars, rows, floor, exportVars, importVars>>

\* Delete of all rows with a key.
Delete(key) ==
    LET n == Sanitize[key] IN
    /\ open
    /\ rows' = [rows EXCEPT ![n] = NoSnaps]
    /\ floor' = [floor EXCEPT ![n] = 0]
    /\ contested' = contested \cup {e \in Active : name[e] = n}
    /\ UNCHANGED <<tierVars, schema, open, pc, name, capture, shared, unsaved, exports,
                   blurred, importVars>>

\* The process dies: the tiers and every call are gone, the rows are not.
Crash ==
    /\ open
    /\ open' = FALSE
    /\ work' = [i \in Items |-> "absent"]
    /\ clones' = {} /\ promoting' = Nil /\ excused' = {}
    /\ pc' = [e \in Exporters |-> "idle"]
    /\ capture' = [e \in Exporters |-> NoSnaps]
    /\ shared' = [e \in Exporters |-> {}]
    /\ unsaved' = [e \in Exporters |-> {}]
    /\ blurred' = {} /\ contested' = {}
    /\ ImportOver
    /\ UNCHANGED <<rows, schema, floor, name, exports>>
----------------------------------------------------------------------------
Next ==
    \/ \E i \in Items : UserAdd(i)
    \/ \E i \in Items : UserRemove(i)
    \/ \E i \in Items : UserForget(i)
    \/ \E i \in Items : AddClone(i)
    \/ Stamp
    \/ \E e \in Exporters, key \in Keys : ExportAll(e, key)
    \/ \E e \in Exporters : Capture(e)
    \/ \E e \in Exporters, k \in Kinds : Save(e, k)
    \/ \E e \in Exporters : SaveError(e)
    \/ \E key \in Keys, how \in Modes : ImportAll(key, how)
    \/ LoadKind
    \/ LoadError
    \/ \E k \in Kinds : Import(k)
    \/ ImportError
    \/ NothingLoaded
    \/ Open
    \/ \E key \in Keys : Delete(key)
    \/ Crash

Spec == Init /\ [][Next]_vars
----------------------------------------------------------------------------
(* Properties.                                                             *)

\* A stamped working item has its clone in the episodic tier, across exports,
\* crashes and imports: otherwise Consolidate would never promote it again and
\* what it held is lost when the working tier evicts it.  The exceptions are a
\* clone a user removed, an item added over one that was being promoted, rows
\* of two different exports restored together, an import that an error ended
\* half way, and a promotion or an export that ran while an import was half
\* done.  It rests on ExportAll capturing the working tier first, and it needs
\* items without a Metadata map: with one, a row can have a stamp that is
\* younger than itself.
PromotionsSurvive == ~Half => Stamped(work) \subseteq clones \cup excused

\* Once ExportAll has returned without an error, and without another export or
\* a Delete of the same rows meanwhile, its rows or newer ones are there, both
\* of them, whatever fails or crashes afterwards.
NewestExportStays ==
    \A n \in Names : floor[n] > 0 =>
        \A k \in Kinds : rows[n][k] # Nil /\ rows[n][k].export >= floor[n]

============================================================================
