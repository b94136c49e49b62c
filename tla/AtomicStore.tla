---------------------------- MODULE AtomicStore ----------------------------
(***************************************************************************)
(* What the store behind a tier promises its callers: the items are one    *)
(* map in which every write is a single step, and the index, under which   *)
(* Search finds an item, is in step with the items except for the IDs in   *)
(* doubt.  There are no separate vectors to re-embed and no gap in which   *)
(* an item and its index entry differ: an update writes both at once.      *)
(* Only the end of an update that failed or was overtaken, an add without  *)
(* an embedding and an import can leave an ID in doubt; the next write of  *)
(* the ID settles it.                                                      *)
(***************************************************************************)
EXTENDS Naturals

CONSTANTS
    Callers, Explicit, MaxSeq, Contents, Nil    \* as in ScoredStore

Ids == Explicit \cup 1..MaxSeq

VARIABLES
    items,      \* the content of each ID
    index,      \* the content each ID is found under
    doubt,      \* the IDs for which these may differ
    issued,     \* how many IDs the store has generated
    call,       \* the call each caller is in: "idle", "get" or "update"
    subject,    \* the ID that call is about
    reply,      \* what it has read or written
    saved       \* the last snapshot: its items, and the IDs in doubt in it

vars == <<items, index, doubt, issued, call, subject, reply, saved>>

Empty == [id \in Ids |-> Nil]

Init ==
    /\ items = Empty /\ index = Empty /\ doubt = {}
    /\ issued = 0
    /\ call = [c \in Callers |-> "idle"]
    /\ subject \in [Callers -> Ids]
    /\ reply = [c \in Callers |-> Nil]
    /\ saved = [items |-> Empty, doubt |-> {}]
----------------------------------------------------------------------------
\* The item and its index entry change together.
Write(id, x) ==
    /\ items' = [items EXCEPT ![id] = x]
    /\ index' = [index EXCEPT ![id] = x]
    /\ doubt' = doubt \ {id}

\* The item changes, and what it is found under is in doubt from now on.
Misfile(id, x) ==
    /\ items' = [items EXCEPT ![id] = x]
    /\ \A i \in Ids \ {id} : index'[i] = index[i]
    /\ doubt' = doubt \cup {id}

\* A generated ID has never been given out before.
Add(id, v) ==
    /\ \/ issued < MaxSeq /\ id = issued + 1 /\ issued' = issued + 1
       \/ id \in Explicit \cup 1..issued /\ issued' = issued
    /\ Write(id, v) \/ Misfile(id, v)
    /\ UNCHANGED <<call, subject, reply, saved>>

\* An add that fails changes no item, and may use up an ID.
AddFails ==
    /\ issued < MaxSeq
    /\ issued' = issued + 1
    /\ UNCHANGED <<items, index, doubt, call, subject, reply, saved>>

Remove(id) ==
    /\ items[id] # Nil
    /\ Write(id, Nil)
    /\ UNCHANGED <<issued, call, subject, reply, saved>>

\* A read changes no item.  Its reply is what the item was when it began, or
\* what it is when it ends.
GetBegin(c, id) ==
    /\ call[c] = "idle"
    /\ items[id] # Nil
    /\ call' = [call EXCEPT ![c] = "get"]
    /\ subject' = [subject EXCEPT ![c] = id]
    /\ reply' = [reply EXCEPT ![c] = items[id]]
    /\ UNCHANGED <<items, index, doubt, issued, saved>>

GetEnd(c) ==
    /\ call[c] = "get"
    /\ call' = [call EXCEPT ![c] = "idle"]
    /\ reply' = [reply EXCEPT ![c] = IF items[subject[c]] = Nil THEN @
                                     ELSE items[subject[c]]]
    /\ UNCHANGED <<items, index, doubt, issued, subject, saved>>

\* An update that changes the content takes effect at once, as one write; one
\* that leaves the content alone is over at once.
UpdateBegin(c, id, v) ==
    /\ call[c] = "idle"
    /\ items[id] # Nil
    /\ subject' = [subject EXCEPT ![c] = id]
    /\ reply' = [reply EXCEPT ![c] = v]
    /\ IF v = items[id]
          THEN UNCHANGED <<items, index, doubt, call>>
          ELSE Write(id, v) /\ call' = [call EXCEPT ![c] = "update"]
    /\ UNCHANGED <<issued, saved>>

\* Its end changes no item, and leaves at most its own ID in doubt.
UpdateEnd(c) ==
    /\ call[c] = "update"
    /\ call' = [call EXCEPT ![c] = "idle"]
    /\ \/ UNCHANGED <<index, doubt>>
       \/ /\ \A id \in Ids \ {subject[c]} : index'[id] = index[id]
          /\ doubt' = doubt \cup {subject[c]}
    /\ UNCHANGED <<items, issued, subject, reply, saved>>

\* The IDs whose update has not ended.
Updating == {subject[c] : c \in {d \in Callers : call[d] = "update"}}

\* A snapshot has the items of one moment; in doubt are those that were in
\* doubt then, and at most those whose update had not ended.
Export ==
    /\ saved'.items = items
    /\ doubt \subseteq saved'.doubt
    /\ saved'.doubt \subseteq doubt \cup Updating
    /\ UNCHANGED <<items, index, doubt, issued, call, subject, reply>>

\* The snapshot's IDs that an import writes, and those it leaves alone.
Taken(mode) == {id \in Ids : /\ saved.items[id] # Nil
                             /\ mode = "merge" => items[id] = Nil}
Kept(mode)  == IF mode = "replace" THEN {} ELSE Ids \ Taken(mode)

\* One step for the whole snapshot: the taken IDs get its items, the kept ones
\* stay, the others are gone.  A taken ID can come into doubt, no other.
Import(mode) ==
    /\ items' = [id \in Ids |-> IF id \in Taken(mode) THEN saved.items[id]
                                ELSE IF id \in Kept(mode) THEN items[id] ELSE Nil]
    /\ \A id \in Kept(mode) : /\ index'[id] = index[id]
                              /\ id \in doubt' <=> id \in doubt
    /\ \A id \in Ids \ Kept(mode) : id \notin doubt' => index'[id] = items'[id]
    /\ saved.doubt \cap Taken(mode) \subseteq doubt'
    /\ doubt' \subseteq Kept(mode) \cup Taken(mode)
    /\ UNCHANGED <<issued, call, subject, reply, saved>>
----------------------------------------------------------------------------
Next ==
    \/ \E id \in Ids, v \in Contents : Add(id, v)
    \/ AddFails
    \/ \E id \in Ids : Remove(id)
    \/ \E c \in Callers, id \in Ids : GetBegin(c, id)
    \/ \E c \in Callers : GetEnd(c)
    \/ \E c \in Callers, id \in Ids, v \in Contents : UpdateBegin(c, id, v)
    \/ \E c \in Callers : UpdateEnd(c)
    \/ Export
    \/ \E mode \in {"merge", "upsert", "replace"} : Import(mode)

Spec == Init /\ [][Next]_vars

============================================================================
