--------------------------- MODULE PagedListing ---------------------------
(***************************************************************************)
(* The loop that enumerates every tier page by page, shared word for word  *)
(* by Consolidator.listAllPaged and ScopedLifecycleManager.listAllScoped.  *)
(* Each hop is one call of Manager.ListAll, which asks the tiers in turn,  *)
(* each under its own lock; callers go on adding and removing items        *)
(* between any two of these steps.                                         *)
(***************************************************************************)
EXTENDS Lister

CONSTANTS
    NumKinds,       \* the tiers that are wired, in ListAll's order
    PageSize,       \* items asked for in one hop
    ListerFails,    \* may a Lister return an error?
    MaxEdits        \* bound on the concurrent writes during one enumeration

ASSUME KindsAssumption == NumKinds \in Nat \ {0}
ASSUME PageAssumption == PageSize \in Nat \ {0}
ASSUME FiniteAssumption == IsFiniteSet(Times) /\ IsFiniteSet(Names)
ASSUME EditsAssumption == MaxEdits \in Nat

Kinds == 1..NumKinds

VARIABLES
    tier,       \* the items of each tier that match the filter
    cursors,    \* the cursors passed to this hop
    nextCursors,\* the cursors collected for the next one
    pos,        \* the tier ListAll asks next
    out,        \* how often each item has been appended, 2 for more than once
    status,     \* of the enumeration
    edits,      \* concurrent writes so far
    restarted,  \* history: the tiers that were started over
    stable      \* history: the items in their tier ever since the call started

listerVars == <<cursors, nextCursors, pos, out, status, restarted>>
vars == <<tier, cursors, nextCursors, pos, out, status, edits, restarted, stable>>

NoCursors == [k \in Kinds |-> NoCursor]

TypeOK ==
    /\ tier \in [Kinds -> Listings]
    /\ cursors \in [Kinds -> Cursors] /\ nextCursors \in [Kinds -> Cursors]
    /\ pos \in 1..(NumKinds + 1)
    /\ out \in [Kinds -> [Items -> 0..2]]
    /\ status \in {"listing", "done", "failed"}
    /\ edits \in 0..MaxEdits
    /\ restarted \subseteq Kinds
    /\ stable \in [Kinds -> SUBSET Items]

Init ==
    /\ tier \in [Kinds -> Listings]
    /\ cursors = NoCursors /\ nextCursors = NoCursors
    /\ pos = 1
    /\ out = [k \in Kinds |-> [x \in Items |-> 0]]
    /\ status = "listing"
    /\ edits = 0
    /\ restarted = {}
    /\ stable = tier
----------------------------------------------------------------------------
(* The enumeration.                                                        *)

Twice(n) == IF n = 0 THEN 1 ELSE 2

\* lister.List of one tier, and what the loop does with its page.
ListKind(k) ==
    LET page == Page(tier[k], PageSize, cursors[k]) IN
    /\ status = "listing"
    /\ pos = k
    /\ pos' = k + 1
    /\ out' = [out EXCEPT ![k] = [x \in Items |-> IF x \in page
                                                  THEN Twice(out[k][x])
                                                  ELSE out[k][x]]]
    /\ nextCursors' = [nextCursors EXCEPT
                         ![k] = NextCursor(tier[k], PageSize, cursors[k])]
    /\ UNCHANGED <<tier, cursors, status, edits, restarted, stable>>

\* An error of one tier ends the whole enumeration.
ListFails ==
    /\ ListerFails
    /\ status = "listing"
    /\ pos \in Kinds
    /\ status' = "failed"
    /\ UNCHANGED <<tier, cursors, nextCursors, pos, out, edits, restarted, stable>>

\* Mutant: the enumeration ends when any one tier has no more.
ReturnEarly ==
    /\ status = "listing"
    /\ pos = NumKinds + 1
    /\ \E k \in Kinds : nextCursors[k] = NoCursor
    /\ status' = "done"
    /\ UNCHANGED <<tier, cursors, nextCursors, pos, out, edits, restarted, stable>>

\* All tiers asked and none has more.
Return ==
    /\ status = "listing"
    /\ pos = NumKinds + 1
    /\ nextCursors = NoCursors
    /\ status' = "done"
    /\ UNCHANGED <<tier, cursors, nextCursors, pos, out, edits, restarted, stable>>

\* Mutant: the next hop repeats the cursors of this one.
NextHopRepeats ==
    /\ status = "listing"
    /\ pos = NumKinds + 1
    /\ nextCursors # NoCursors
    /\ pos' = 1
    /\ nextCursors' = NoCursors
    /\ UNCHANGED <<tier, cursors, out, status, edits, restarted, stable>>

\* Some tier has more: the next hop.  A tier that has none left is missing
\* from nextCursors, so the next ListAll starts it from the beginning.
NextHop ==
    /\ status = "listing"
    /\ pos = NumKinds + 1
    /\ nextCursors # NoCursors
    /\ pos' = 1
    /\ cursors' = nextCursors
    /\ nextCursors' = NoCursors
    /\ restarted' = restarted \cup {k \in Kinds : nextCursors[k] = NoCursor}
    /\ UNCHANGED <<tier, out, status, edits, stable>>
----------------------------------------------------------------------------
(* The other users of the tiers, while the enumeration runs.               *)

\* Mutant: the item with the same ID stays.
PutAppends(k, x) ==
    /\ status = "listing"
    /\ edits < MaxEdits
    /\ edits' = edits + 1
    /\ tier' = [tier EXCEPT ![k] = @ \cup {x}]
    /\ UNCHANGED <<stable, listerVars>>

\* An item is added, or replaces the one with its ID.
Put(k, x) ==
    /\ status = "listing"
    /\ edits < MaxEdits
    /\ edits' = edits + 1
    /\ tier' = [tier EXCEPT ![k] = {y \in @ : y.id # x.id} \cup {x}]
    /\ stable' = [stable EXCEPT ![k] = @ \cap tier'[k]]
    /\ UNCHANGED listerVars

\* An item is removed, or disabled.
Drop(k, x) ==
    /\ status = "listing"
    /\ edits < MaxEdits
    /\ x \in tier[k]
    /\ edits' = edits + 1
    /\ tier' = [tier EXCEPT ![k] = @ \ {x}]
    /\ stable' = [stable EXCEPT ![k] = @ \ {x}]
    /\ UNCHANGED listerVars
----------------------------------------------------------------------------
Enumerate == (\E k \in Kinds : ListKind(k)) \/ ListFails \/ Return \/ NextHop

Next ==
    \/ \E k \in Kinds : ListKind(k)
    \/ ListFails
    \/ Return
    \/ NextHop
    \/ \E k \in Kinds, x \in Items : Put(k, x)
    \/ \E k \in Kinds, x \in Items : Drop(k, x)

Spec == Init /\ [][Next]_vars

\* The goroutine that enumerates is never blocked: List needs only a lock that
\* every other call releases.
FairSpec == Spec /\ WF_vars(Enumerate)
----------------------------------------------------------------------------
(* Properties.                                                             *)

\* An item that is in its tier from the call of listAllPaged to its return is
\* in the result, whatever is added and removed around it between pages.
Complete ==
    status = "done" => \A k \in Kinds : \A x \in stable[k] : out[k][x] > 0

\* Concurrent writes never make a tier report an item twice: an item is in the
\* result twice only when its tier was started over because another had more.
RepeatsOnlyOnRestart ==
    \A k \in Kinds \ restarted : \A x \in Items : out[k][x] < 2

\* The enumeration ends.  With writes meanwhile it need not: README.md, Known
\* limits.
Terminates == <>(status # "listing")

\* When nobody writes meanwhile it ends, although exhausted tiers start over
\* until all of them are exhausted in the same hop.
TerminatesUndisturbed == [](edits = 0) => Terminates

============================================================================
