---------------------------- MODULE ScoredStore ----------------------------
(***************************************************************************)
(* The in-memory store behind every tier: two maps keyed by item ID, the   *)
(* items and their embedding vectors, and one RWMutex.  Every critical     *)
(* section of the Go code is one action.  `get` and `update` are two       *)
(* critical sections with a gap between them, so they are two actions each *)
(* and any other call may run in the gap.                                  *)
(*                                                                         *)
(* An item is abstracted to its Content and a vector to the content that   *)
(* was embedded to obtain it: a vector is fresh exactly when the two are   *)
(* equal.  A missing map entry is Nil.                                     *)
(***************************************************************************)
EXTENDS Naturals

CONSTANTS
    Callers,        \* goroutines that call get and update
    Explicit,       \* the IDs callers choose themselves
    MaxSeq,         \* bound on the IDs the store generates
    Contents,       \* the contents an item can have
    Nil,            \* a missing map entry
    EmbedFails,     \* may the embedder return an error, or no vector at all?
    ImportModes,    \* the import modes in use
    Vectorless      \* may a snapshot have been stripped of its vectors?

ASSUME NilAssumption == Nil \notin Contents
ASSUME SeqAssumption == MaxSeq \in Nat
ASSUME FlagAssumption == EmbedFails \in BOOLEAN /\ Vectorless \in BOOLEAN
ASSUME ModeAssumption == ImportModes \subseteq {"merge", "upsert", "replace"}

\* A generated ID is prefix_nanos_seq: it is represented by its seq.
Ids == Explicit \cup 1..MaxSeq

Maybe == Contents \cup {Nil}
Maps  == [Ids -> Maybe]

VARIABLES
    items,      \* scoredStore.items
    vectors,    \* scoredStore.vectors
    seq,        \* scoredStore.seq
    pc,         \* where each caller's get or update is
    target,     \* the ID that call is about
    held,       \* the item copy it holds across the gap
    saved,      \* the last exported Snapshot
    alone,      \* history: updates in the gap whose item nobody has written since
    suspect     \* history: the IDs whose vector a race or a failure has touched

\* Where a call can be: outside the store, or in one of the two gaps.
Pcs == {"idle", "touch", "reembed"}

storeVars == <<items, vectors, seq>>
callVars  == <<pc, target, held>>
vars      == <<items, vectors, seq, pc, target, held, saved, alone, suspect>>

Present  == {id \in Ids : items[id] # Nil}
NoMap    == [id \in Ids |-> Nil]
Snapshots == [items : Maps, vectors : Maps, doubt : SUBSET Ids]

TypeOK ==
    /\ items \in Maps /\ vectors \in Maps
    /\ seq \in 0..MaxSeq
    /\ pc \in [Callers -> Pcs]
    /\ target \in [Callers -> Ids]
    /\ held \in [Callers -> Maybe]
    /\ saved \in Snapshots
    /\ alone \subseteq Callers
    /\ suspect \subseteq Ids

Init ==
    /\ items = NoMap /\ vectors = NoMap
    /\ seq = 0
    /\ pc = [c \in Callers |-> "idle"]
    /\ target \in {[c \in Callers |-> id] : id \in Ids}
    /\ held = [c \in Callers |-> Nil]
    /\ saved = [items |-> NoMap, vectors |-> NoMap, doubt |-> {}]
    /\ alone = {}
    /\ suspect = {}
----------------------------------------------------------------------------
(* History bookkeeping shared by the writers.                              *)

\* The updates in the gap that a write of the IDs in S does not disturb.
Undisturbed(S) == {c \in alone : target[c] \notin S}

\* The IDs an update in the gap is about to re-embed undisturbed.
AwaitingReembed == {target[c] : c \in alone}
----------------------------------------------------------------------------
(* add: one critical section, the call of the embedder included.           *)

\* queryEmbedding without an error: the vector of the content or, when the
\* embedder answers with no vectors, nil.
Embeddings(v) == {v} \cup (IF EmbedFails THEN {Nil} ELSE {})

Store(id, v) ==
    /\ items' = [items EXCEPT ![id] = v]
    /\ \E vec \in Embeddings(v) :
          /\ vectors' = [vectors EXCEPT ![id] = vec]
          /\ suspect' = IF vec = v THEN suspect \ {id} ELSE suspect \cup {id}
    /\ alone' = Undisturbed({id})
    /\ UNCHANGED <<callVars, saved>>

\* Mutant: seq is incremented once more after the ID has been formatted.
AddGeneratedCountsTwice(v) ==
    /\ seq < MaxSeq
    /\ seq' = seq + 2
    /\ Store(seq + 1, v)

\* An item without an ID: the store generates one.
AddGenerated(v) ==
    /\ seq < MaxSeq
    /\ seq' = seq + 1
    /\ Store(seq + 1, v)

\* An item with an ID, the caller's own or one the store returned earlier:
\* an existing item is overwritten.
AddExplicit(id, v) ==
    /\ id \in Explicit \cup 1..seq
    /\ Store(id, v)
    /\ UNCHANGED seq

\* The embedder fails: the ID generated before the call is lost.
AddEmbedFails ==
    /\ EmbedFails
    /\ seq < MaxSeq
    /\ seq' = seq + 1
    /\ UNCHANGED <<items, vectors, callVars, saved, alone, suspect>>
----------------------------------------------------------------------------
(* remove: one critical section; ErrNotFound when the item is missing.     *)

\* Mutant: the item is deleted and its vector is forgotten.
RemoveKeepsVector(id) ==
    /\ items[id] # Nil
    /\ items' = [items EXCEPT ![id] = Nil]
    /\ alone' = Undisturbed({id})
    /\ suspect' = suspect \ {id}
    /\ UNCHANGED <<vectors, seq, callVars, saved>>

Remove(id) ==
    /\ items[id] # Nil
    /\ items' = [items EXCEPT ![id] = Nil]
    /\ vectors' = [vectors EXCEPT ![id] = Nil]
    /\ alone' = Undisturbed({id})
    /\ suspect' = suspect \ {id}
    /\ UNCHANGED <<seq, callVars, saved>>
----------------------------------------------------------------------------
(* get: read under RLock, then take the write lock to stamp AccessedAt.    *)

GetRead(c, id) ==
    /\ pc[c] = "idle"
    /\ items[id] # Nil
    /\ pc' = [pc EXCEPT ![c] = "touch"]
    /\ target' = [target EXCEPT ![c] = id]
    /\ held' = [held EXCEPT ![c] = items[id]]
    /\ UNCHANGED <<storeVars, saved, alone, suspect>>

\* Mutant: the copy read before the gap is stamped and written back.
GetTouchWritesCopy(c) ==
    /\ pc[c] = "touch"
    /\ pc' = [pc EXCEPT ![c] = "idle"]
    /\ items' = [items EXCEPT ![target[c]] = held[c]]
    /\ UNCHANGED <<vectors, seq, target, held, saved, alone, suspect>>

\* The item as it is now, not the copy read before, is stamped and returned;
\* when it has gone the copy read before is returned.
GetTouch(c) ==
    LET current == items[target[c]] IN
    /\ pc[c] = "touch"
    /\ pc' = [pc EXCEPT ![c] = "idle"]
    /\ items' = [items EXCEPT ![target[c]] = current]
    /\ held' = [held EXCEPT ![c] = IF current # Nil THEN current ELSE @]
    /\ UNCHANGED <<vectors, seq, target, saved, alone, suspect>>
----------------------------------------------------------------------------
(* update: fn runs on the item and the item is written back under the      *)
(* lock; when the content changed the lock is released, the new content is *)
(* embedded, and the lock is taken again only to store the vector.         *)

UpdateWrite(c, id, v) ==
    /\ pc[c] = "idle"
    /\ items[id] # Nil
    /\ items' = [items EXCEPT ![id] = v]
    /\ held' = [held EXCEPT ![c] = v]
    /\ target' = [target EXCEPT ![c] = id]
    /\ IF v # items[id]
          THEN /\ pc' = [pc EXCEPT ![c] = "reembed"]
               /\ alone' = Undisturbed({id}) \cup {c}
          ELSE UNCHANGED <<pc, alone>>
    /\ UNCHANGED <<vectors, seq, saved, suspect>>

\* The vector is stored whatever has become of the item in the meantime.
ReembedOk(c) ==
    /\ pc[c] = "reembed"
    /\ pc' = [pc EXCEPT ![c] = "idle"]
    /\ \E vec \in Embeddings(held[c]) :
          /\ vectors' = [vectors EXCEPT ![target[c]] = vec]
          /\ suspect' = IF c \in alone /\ vec = held[c]
                        THEN suspect \ {target[c]} ELSE suspect \cup {target[c]}
    /\ alone' = alone \ {c}
    /\ UNCHANGED <<items, seq, target, held, saved>>

\* The embedder fails: the error is returned, the new content stays.
ReembedFails(c) ==
    /\ EmbedFails
    /\ pc[c] = "reembed"
    /\ pc' = [pc EXCEPT ![c] = "idle"]
    /\ alone' = alone \ {c}
    /\ suspect' = IF c \in alone THEN suspect \cup {target[c]} ELSE suspect
    /\ UNCHANGED <<storeVars, target, held, saved>>
----------------------------------------------------------------------------
(* export and import: one critical section each.  A snapshot holds the     *)
(* items and, for each, its vector; a vector without an item is left out.  *)

Export ==
    /\ ImportModes # {}
    /\ saved' = [items   |-> items,
                 vectors |-> [id \in Ids |-> IF items[id] # Nil
                                             THEN vectors[id] ELSE Nil],
                 doubt   |-> suspect \cup AwaitingReembed]
    /\ UNCHANGED <<storeVars, callVars, alone, suspect>>

\* The snapshot's items that an import in this mode writes.
Loaded(mode) == {id \in Ids : /\ saved.items[id] # Nil
                              /\ mode = "merge" => items[id] = Nil}

\* The vectors the snapshot carries, all of them missing when it was
\* stripped between export and import.
Carried(stripped) == IF stripped THEN NoMap ELSE saved.vectors

\* An entry without a vector: merge and replace leave the vector map alone,
\* upsert deletes the old vector.  replace has emptied both maps first.
Import(mode, stripped) ==
    LET written == Loaded(mode)
        vec     == Carried(stripped)
        touched == IF mode = "replace" THEN Ids ELSE written
    IN
    /\ mode \in ImportModes
    /\ stripped => Vectorless
    /\ items' = [id \in Ids |->
                    IF id \in written THEN saved.items[id]
                    ELSE IF mode = "replace" THEN Nil ELSE items[id]]
    /\ vectors' = [id \in Ids |->
                    IF id \in written /\ vec[id] # Nil THEN vec[id]
                    ELSE IF \/ mode = "replace"
                            \/ mode = "upsert" /\ id \in written
                         THEN Nil ELSE vectors[id]]
    /\ alone' = Undisturbed(touched)
    /\ suspect' = (suspect \ touched)
                    \cup {id \in written : id \in saved.doubt \/ vec[id] = Nil}
    /\ UNCHANGED <<seq, callVars, saved>>
----------------------------------------------------------------------------
Next ==
    \/ \E v \in Contents : AddGenerated(v)
    \/ \E id \in Ids, v \in Contents : AddExplicit(id, v)
    \/ AddEmbedFails
    \/ \E id \in Ids : Remove(id)
    \/ \E c \in Callers, id \in Ids : GetRead(c, id)
    \/ \E c \in Callers : GetTouch(c)
    \/ \E c \in Callers, id \in Ids, v \in Contents : UpdateWrite(c, id, v)
    \/ \E c \in Callers : ReembedOk(c)
    \/ \E c \in Callers : ReembedFails(c)
    \/ Export
    \/ \E mode \in {"merge", "upsert", "replace"}, stripped \in BOOLEAN :
          Import(mode, stripped)

Spec == Init /\ [][Next]_vars
----------------------------------------------------------------------------
(* Properties.                                                             *)

\* A vector disagrees with its item (or belongs to no item) only while an
\* update is between its two critical sections, or after one of these: two
\* writes of the same ID overlapped with such an update, the embedder failed
\* in one or answered an Add or an update with no vector, or a snapshot entry
\* that was itself in doubt or had no vector was imported.  Otherwise Add, Get,
\* Remove and every mode of Import preserve agreement.
StaleOnlyByRace ==
    \A id \in Ids : vectors[id] # items[id] =>
        id \in suspect \cup AwaitingReembed

\* A snapshot taken while nothing is in doubt restores items and vectors that
\* agree: Export never pairs an item with the vector of another content unless
\* an update was in its gap or had been disturbed.
SnapshotAgrees ==
    \A id \in Ids : saved.vectors[id] # saved.items[id] => id \in saved.doubt

\* An update whose item nobody has written since has done its work already: its
\* ID is found under the new content, and is in no doubt.
Found == [id \in Ids |-> IF id \in AwaitingReembed THEN items[id] ELSE vectors[id]]

\* The doubt about the others is what a race or a failure has left.
Doubt == suspect \ AwaitingReembed

\* The call each caller is in, for one who does not see critical sections.
CallOf == [idle |-> "idle", touch |-> "get", reembed |-> "update"]
Call   == [c \in Callers |-> CallOf[pc[c]]]

Atomic == INSTANCE AtomicStore WITH
    index   <- Found,
    doubt   <- Doubt,
    issued  <- seq,
    call    <- Call,
    subject <- target,
    reply   <- held,
    saved   <- [items |-> saved.items, doubt |-> saved.doubt]

\* The store implements an atomic one: although get and update take the lock
\* twice and anything can run between the two critical sections, every call
\* acts on the items in one step, a get never writes an item and answers with a
\* content the item had during the call, and what update's gap does to the
\* index shows only as doubt about the one ID.
ImplementsAtomicStore == Atomic!Spec

\* What a caller expects of a goroutine-safe store: once no call is in flight,
\* every item has the vector of its own content and no vector is left behind.
\* It does not hold: README.md, Known limits.
VectorsFreshAtRest ==
    (\A c \in Callers : pc[c] = "idle") => vectors = items

============================================================================
