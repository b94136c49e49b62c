------------------------------- MODULE Recall -------------------------------
(***************************************************************************)
(* The searches over all tiers.  RecallEngine.Recall, and SearchUnified    *)
(* over SearchAllParallel: one goroutine per tier searches its tier and    *)
(* sends what it found to a buffered channel; the caller waits for all of  *)
(* them, merges their results, keeps the best of those with one (ID,       *)
(* Content), sorts and truncates.  Manager.SearchAll searches one tier     *)
(* after the other; the ScopedManager filters what the tiers returned by   *)
(* the scope of the context.  Other callers change the tiers meanwhile,    *)
(* and the tiers are searched at different moments.                        *)
(*                                                                         *)
(* A tier gives every item it holds a score on its own scale.  An item is  *)
(* its ID and content, the scope and the disabled flag of its Metadata,    *)
(* and its tags.                                                           *)
(***************************************************************************)
EXTENDS Naturals, FiniteSets, Functions

CONSTANTS
    NumKinds,       \* the kinds of tiers, in the canonical order
    Hits,           \* items with a score a tier can give them, as records
    Scopes,         \* the scopes a context can carry
    Zero,           \* the scope of a context without one
    Covers,         \* the pairs <<s, t>> for which s.Matches(t)
    TagKinds,       \* the kinds whose Search filters by tags: the semantic one
    QueryTags,      \* the sets of tags a query can begin with
    TopKs,          \* the values of topK in use, 0 for none
    Budgets,        \* the values of Budgets[kind] in use, 0 for none
    RecallDefault,  \* TopK of Recall when the caller gives none
    TierDefault,    \* topK of a tier's Search when the caller gives none
    SearchFails,    \* may a tier's Search return an error?
    MaxEdits        \* bound on the concurrent writes

Kinds == 1..NumKinds

ASSUME KindsAssumption == NumKinds \in Nat \ {0}
ASSUME HitAssumption == /\ IsFiniteSet(Hits)
                        /\ \A h \in Hits : h.score \in Nat /\ h.item.scope \in Scopes
ASSUME ScopesAssumption == /\ Zero \in Scopes /\ Covers \subseteq Scopes \X Scopes
                           /\ {Zero} \X Scopes \subseteq Covers
ASSUME TagAssumption == {} \in QueryTags /\ TagKinds \subseteq Kinds
ASSUME TopKAssumption == /\ TopKs \subseteq Nat /\ Budgets \subseteq Nat
                         /\ RecallDefault \in Nat \ {0} /\ TierDefault \in Nat \ {0}
ASSUME FlagAssumption == SearchFails \in BOOLEAN /\ MaxEdits \in Nat

\* The contents of a tier, with the scores for the query: no ID twice.
Tiers == {S \in SUBSET Hits : \A x, y \in S : x.item.id = y.item.id => x = y}

Pick(h, k) == [item |-> h.item, score |-> h.score, kind |-> k]
Picks == {Pick(h, k) : h \in Hits, k \in Kinds}

\* What the merge takes for the same memory: dedupeKey.
Key(x) == <<x.item.id, x.item.content>>

VARIABLES
    wired,      \* the kinds with a Memory
    tier,       \* what each tier holds
    edits,      \* concurrent writes so far
    pc,         \* where the call is
    call,       \* which of the searches it is
    scope,      \* the scope of its context
    tags,       \* the tags its query begins with
    lim,        \* the topK passed to each tier's Search
    top,        \* the cap on the merged results, 0 for none
    go,         \* where the goroutine of each kind is
    found,      \* what its Search returned
    broken,     \* the kinds whose Search returned an error
    ch,         \* the kinds whose result is in the channel
    out,        \* the results, as a set: UnifiedRecall.Results, or per kind
    considered, \* PerTier[kind].Considered
    returned,   \* PerTier[kind].Returned
    dropped,    \* TotalDropped
    stable      \* history: what each tier has held ever since the call began

tierVars   == <<tier, edits, stable>>
callVars   == <<call, scope, tags>>
fanVars    == <<lim, top, go, found, broken, ch>>
resultVars == <<out, considered, returned, dropped>>
vars == <<wired, tierVars, pc, callVars, fanVars, resultVars>>

\* Recall and SearchUnified merge; SearchAllParallel, Manager.SearchAll and the
\* searches of the ScopedManager return the results by kind.
Calls == {"none", "recall", "unified", "parallel", "serial", "scoped"}

Merging == call \in {"recall", "unified"}

Nobody == [k \in Kinds |-> {}]
Zeros  == [k \in Kinds |-> 0]

TypeOK ==
    /\ wired \subseteq Kinds
    /\ tier \in [Kinds -> Tiers]
    /\ edits \in 0..MaxEdits
    /\ pc \in {"idle", "wait", "done", "failed"}
    /\ call \in Calls /\ scope \in Scopes /\ tags \in QueryTags
    /\ lim \in [Kinds -> Nat] /\ top \in Nat
    /\ go \in [Kinds -> {"none", "search", "send", "done"}]
    /\ found \in [Kinds -> SUBSET Hits]
    /\ broken \subseteq Kinds /\ ch \subseteq Kinds
    /\ out \subseteq Picks
    /\ considered \in [Kinds -> Nat] /\ returned \in [Kinds -> Nat]
    /\ dropped \in Nat
    /\ stable \in [Kinds -> SUBSET Hits]

Init ==
    /\ wired \in SUBSET Kinds \ {{}}
    /\ tier \in {t \in [Kinds -> Tiers] : \A k \in Kinds \ wired : t[k] = {}}
    /\ edits = 0
    /\ pc = "idle" /\ call = "none" /\ scope = Zero /\ tags = {}
    /\ lim = Zeros /\ top = 0
    /\ go = [k \in Kinds |-> "none"]
    /\ found = Nobody /\ broken = {} /\ ch = {}
    /\ out = {} /\ considered = Zeros /\ returned = Zeros /\ dropped = 0
    /\ stable = Nobody
----------------------------------------------------------------------------
(* The calls.                                                              *)

\* The call c starts: the kinds of S are to be searched, with these limits.
Begin(c, S, n, limits) ==
    /\ pc = "idle"
    /\ pc' = "wait"
    /\ call' = c
    /\ top' = n
    /\ lim' = [k \in Kinds |-> IF k \in S THEN limits[k] ELSE 0]
    /\ go' = [k \in Kinds |-> IF k \in S THEN "search" ELSE "none"]
    /\ stable' = [k \in Kinds |-> IF k \in S THEN tier[k] ELSE {}]
    /\ UNCHANGED <<wired, tier, edits, found, broken, ch, resultVars>>

\* The wired tiers a mask selects; an empty mask selects all.
Participating(mask) == wired \cap (IF mask = {} THEN Kinds ELSE mask)

\* With no participating tier the result is empty.
Recall(n, mask, budgets) ==
    LET k0 == IF n = 0 THEN RecallDefault ELSE n IN
    /\ Begin("recall", Participating(mask), k0,
             [k \in Kinds |-> IF budgets[k] > 0 THEN budgets[k] ELSE k0])
    /\ tags' \in QueryTags
    /\ scope' = Zero

\* Every kind is searched; the ones that are not wired report ErrKindDisabled.
SearchUnified(n) ==
    /\ Begin("unified", Kinds, n, [k \in Kinds |-> n])
    /\ tags' \in QueryTags
    /\ scope' = Zero

SearchAllParallel(n) ==
    /\ Begin("parallel", Kinds, n, [k \in Kinds |-> n])
    /\ tags' \in QueryTags
    /\ scope' = Zero

\* Manager.SearchAll: the tiers that are not wired are left out.
SearchAll(n) ==
    /\ Begin("serial", wired, n, [k \in Kinds |-> n])
    /\ tags' \in QueryTags
    /\ scope' = Zero

\* ScopedManager.SearchAll, and ScopedManager.Search of one kind.
ScopedSearch(S, n, s) ==
    /\ S = wired \/ Cardinality(S) = 1
    /\ Begin("scoped", S, n, [k \in Kinds |-> n])
    /\ tags' \in QueryTags
    /\ scope' = s
----------------------------------------------------------------------------
(* The search of one tier.                                                 *)

Smaller(m, n) == IF m < n THEN m ELSE n

\* The first n of a tier's results; equal scores are in no particular order.
Best(S, n) ==
    {T \in SUBSET S : /\ Cardinality(T) = Smaller(n, Cardinality(S))
                      /\ \A x \in T, y \in S \ T : x.score >= y.score}

\* How many results a tier's Search returns at most.
TierTop(k) == IF lim[k] = 0 THEN TierDefault ELSE lim[k]

\* anyTagMatches, for a query that begins with tags.
TagsMatch(k, h) ==
    k \in TagKinds /\ tags # {} => h.item.tags \cap tags # {}

\* What a tier has to offer: a disabled item is passed over.
Offered(k) == {h \in tier[k] : ~h.item.off /\ TagsMatch(k, h)}

\* One snapshot of the tier, scored, sorted and cut.
TierSearch(k) ==
    /\ go[k] = "search"
    /\ \E T \in Best(Offered(k), TierTop(k)) : found' = [found EXCEPT ![k] = T]
----------------------------------------------------------------------------
(* The goroutines.                                                         *)

Parallel == Merging \/ call = "parallel"

Search(k) ==
    /\ Parallel
    /\ TierSearch(k)
    /\ go' = [go EXCEPT ![k] = "send"]
    /\ UNCHANGED <<wired, tierVars, pc, callVars, lim, top, broken, ch, resultVars>>

\* An error of the embedder, or a query of blanks.
SearchError(k) ==
    /\ SearchFails
    /\ Parallel
    /\ k \in wired
    /\ go[k] = "search"
    /\ go' = [go EXCEPT ![k] = "send"]
    /\ broken' = broken \cup {k}
    /\ UNCHANGED <<wired, tierVars, pc, callVars, lim, top, found, ch, resultVars>>

\* Mutant: the channel is not buffered.
RoomNone == 0

\* The capacity of the channel: one result per goroutine.
Room == Cardinality({k \in Kinds : go[k] # "none"})

\* The send, which blocks while the channel is full, and wg.Done.
Send(k) ==
    /\ go[k] = "send"
    /\ Cardinality(ch) < Room
    /\ ch' = ch \cup {k}
    /\ go' = [go EXCEPT ![k] = "done"]
    /\ UNCHANGED <<wired, tierVars, pc, callVars, lim, top, found, broken, resultVars>>
----------------------------------------------------------------------------
(* The caller, after wg.Wait.                                              *)

AllDone == \A k \in Kinds : go[k] \in {"none", "done"}

\* Any error ends the call.
Fail ==
    /\ pc = "wait"
    /\ AllDone
    /\ broken # {}
    /\ pc' = "failed"
    /\ UNCHANGED <<wired, tierVars, callVars, fanVars, resultVars>>

Candidates == UNION {{Pick(h, k) : h \in found[k]} : k \in Kinds}

\* Mutant: entries with one ID are taken for the same item.
MergedById ==
    {c \in Candidates : \A d \in Candidates : d.item.id = c.item.id =>
        \/ c.score > d.score
        \/ c.score = d.score /\ c.kind <= d.kind}

\* Of the entries with one key the one with the highest score, and of these
\* the one from the first tier in the canonical order.
Merged ==
    {c \in Candidates : \A d \in Candidates : Key(d) = Key(c) =>
        \/ c.score > d.score
        \/ c.score = d.score /\ c.kind <= d.kind}

\* The order of the results; it leaves open entries with one ID and score.
Precedes(x, y) == \/ x.score > y.score
                  \/ x.score = y.score /\ x.item.id < y.item.id

\* The possible cuts of a sorted result at n.
Cuts(S, n) ==
    {T \in SUBSET S : /\ Cardinality(T) = Smaller(n, Cardinality(S))
                      /\ \A x \in T, y \in S \ T : ~Precedes(y, x)}

\* Mutant: only what the cut leaves out is counted.
DroppedByCut(n) ==
    IF Cardinality(Merged) > n THEN Cardinality(Merged) - n ELSE 0

\* What the merge leaves out, and what a cut at n does.
Dropped(n) ==
    Cardinality(Candidates) - Cardinality(Merged) +
        IF Cardinality(Merged) > n THEN Cardinality(Merged) - n ELSE 0

\* The merged result; Recall counts as well.
Collect ==
    /\ pc = "wait" /\ Merging
    /\ AllDone
    /\ broken = {}
    /\ pc' = "done"
    /\ LET n == IF top = 0 THEN Cardinality(Merged) ELSE top IN
       /\ out' \in Cuts(Merged, n)
       /\ IF call = "recall"
          THEN /\ dropped' = Dropped(n)
               /\ considered' = [k \in Kinds |-> Cardinality(found[k])]
               /\ returned' = [k \in Kinds |-> Cardinality({r \in out' : r.kind = k})]
          ELSE UNCHANGED <<considered, returned, dropped>>
    /\ UNCHANGED <<wired, tierVars, callVars, fanVars>>

\* SearchAllParallel returns what every tier found.
CollectByKind ==
    /\ pc = "wait" /\ call = "parallel"
    /\ AllDone
    /\ broken = {}
    /\ pc' = "done"
    /\ out' = Candidates
    /\ UNCHANGED <<wired, tierVars, callVars, fanVars, considered, returned, dropped>>
----------------------------------------------------------------------------
(* The searches that take one tier after the other.                        *)

Serial == call \in {"serial", "scoped"}

\* The tiers before k have been searched.
Turn(k) == Serial /\ \A j \in Kinds : j < k => go[j] # "search"

SearchNext(k) ==
    /\ pc = "wait"
    /\ Turn(k)
    /\ k \in wired
    /\ TierSearch(k)
    /\ go' = [go EXCEPT ![k] = "done"]
    /\ UNCHANGED <<wired, tierVars, pc, callVars, lim, top, broken, ch, resultVars>>

\* Mutant: the ScopedManager passes on what Manager.SearchAll returned.
SearchNextFailsOpen(k) ==
    /\ pc = "wait"
    /\ go[k] = "search" /\ Turn(k)
    /\ k \in wired => SearchFails
    /\ pc' = "failed"
    /\ broken' = {k}
    /\ out' = Candidates
    /\ UNCHANGED <<wired, tierVars, callVars, lim, top, go, found, ch,
                   considered, returned, dropped>>

\* An error ends the call, ErrTierDisabled too.  Manager.SearchAll returns what
\* the tiers before have found along with it, and the ScopedManager nothing.
SearchNextFails(k) ==
    /\ pc = "wait"
    /\ go[k] = "search" /\ Turn(k)
    /\ k \in wired => SearchFails
    /\ pc' = "failed"
    /\ broken' = {k}
    /\ out' = IF call = "serial" THEN Candidates ELSE {}
    /\ UNCHANGED <<wired, tierVars, callVars, lim, top, go, found, ch,
                   considered, returned, dropped>>

\* Mutant: the item's scope is asked whether it matches the caller's.
FilterByScopeSwapped(S) == {r \in S : <<r.item.scope, scope>> \in Covers}

\* filterByScope; the zero scope matches every item.
FilterByScope(S) == {r \in S : <<scope, r.item.scope>> \in Covers}

SearchAllReturns ==
    /\ pc = "wait"
    /\ Serial
    /\ AllDone
    /\ pc' = "done"
    /\ out' = FilterByScope(Candidates)
    /\ UNCHANGED <<wired, tierVars, callVars, fanVars, considered, returned, dropped>>
----------------------------------------------------------------------------
(* The other users of the tiers.                                           *)

\* The call has still a tier to search: later writes are of no consequence.
Unsearched == pc = "wait" /\ \E k \in Kinds : go[k] = "search"

\* Mutant: the item with its ID stays.
PutAppends(k, h) ==
    /\ k \in wired
    /\ edits < MaxEdits
    /\ Unsearched
    /\ edits' = edits + 1
    /\ tier' = [tier EXCEPT ![k] = @ \cup {h}]
    /\ UNCHANGED <<wired, pc, stable, callVars, fanVars, resultVars>>

\* An item is added, or the one with its ID is replaced: by Add or by Update,
\* which may change its content, disable it and change its score.
Put(k, h) ==
    /\ k \in wired
    /\ edits < MaxEdits
    /\ Unsearched
    /\ edits' = edits + 1
    /\ tier' = [tier EXCEPT ![k] = {x \in @ : x.item.id # h.item.id} \cup {h}]
    /\ stable' = [stable EXCEPT ![k] = @ \cap tier'[k]]
    /\ UNCHANGED <<wired, pc, callVars, fanVars, resultVars>>

\* An item is removed.
Drop(k, h) ==
    /\ h \in tier[k]
    /\ edits < MaxEdits
    /\ Unsearched
    /\ edits' = edits + 1
    /\ tier' = [tier EXCEPT ![k] = @ \ {h}]
    /\ stable' = [stable EXCEPT ![k] = @ \ {h}]
    /\ UNCHANGED <<wired, pc, callVars, fanVars, resultVars>>
----------------------------------------------------------------------------
Next ==
    \/ \E n \in TopKs, mask \in SUBSET Kinds, budgets \in [Kinds -> Budgets] :
          Recall(n, mask, budgets)
    \/ \E n \in TopKs : SearchUnified(n)
    \/ \E n \in TopKs : SearchAllParallel(n)
    \/ \E n \in TopKs : SearchAll(n)
    \/ \E S \in SUBSET Kinds, n \in TopKs, s \in Scopes : ScopedSearch(S, n, s)
    \/ \E k \in Kinds : Search(k)
    \/ \E k \in Kinds : SearchError(k)
    \/ \E k \in Kinds : Send(k)
    \/ Fail
    \/ Collect
    \/ CollectByKind
    \/ \E k \in Kinds : SearchNext(k)
    \/ \E k \in Kinds : SearchNextFails(k)
    \/ SearchAllReturns
    \/ \E k \in Kinds, h \in Hits : Put(k, h)
    \/ \E k \in Kinds, h \in Hits : Drop(k, h)

Spec == Init /\ [][Next]_vars

Goroutine(k) == Search(k) \/ SearchError(k) \/ Send(k)

Caller == \/ Fail \/ Collect \/ CollectByKind \/ SearchAllReturns
          \/ \E k \in Kinds : SearchNext(k) \/ SearchNextFails(k)

\* The goroutines and the caller are scheduled; a tier's Search needs only a
\* lock that every other call releases, and an embedder that answers.
FairSpec == Spec /\ WF_vars(Caller) /\ \A k \in Kinds : WF_vars(Goroutine(k))
----------------------------------------------------------------------------
(* Properties.                                                             *)

\* The entries of the result that score at least as much as a hit.
NoWorseThan(h) == {r \in out : r.score >= h.score}

\* Of what a tier held during the whole call, what the query asks for.
Wanted(k) == {h \in stable[k] : ~h.item.off /\ TagsMatch(k, h)}

\* What a tier held during the whole call is in the merged result, under its
\* key, or is beaten or equalled by as many results as its tier was asked for,
\* or as the whole result may have: writers, duplicates and the cuts per tier
\* never push out a better item that stayed.
NothingBetterLeftOut ==
    pc = "done" /\ Merging =>
    \A k \in Kinds : \A h \in Wanted(k) :
        \/ \E r \in out : Key(r) = Key(h) /\ r.score >= h.score
        \/ Cardinality(NoWorseThan(h)) >= TierTop(k)
        \/ top > 0 /\ Cardinality(NoWorseThan(h)) >= top

\* A search by kind misses an item of the caller's scope that its tier held
\* during the whole call only because of the tier's cut, which is made before
\* the filter: as many items as were asked for, of any scope, score no less.
MissedOnlyByTheCut ==
    pc = "done" /\ ~Merging =>
    \A k \in Kinds : \A h \in Wanted(k) :
        <<scope, h.item.scope>> \in Covers =>
        \/ Pick(h, k) \in out
        \/ Cardinality({x \in found[k] : x.score >= h.score}) >= TierTop(k)

\* No search returns a disabled item or, however it ends, an item outside the
\* scope of its context, although Manager.SearchAll returns the unfiltered
\* results of the first tiers along with the error of a later one.
OnlyVisible ==
    \A r \in out : ~r.item.off /\ <<scope, r.item.scope>> \in Covers

\* The counts of Recall are those of its result: TotalDropped has every entry
\* that lost to another of its key and none that is returned, so that with
\* nothing cut off every candidate is returned or dropped; every result is
\* counted for one tier, which considered at least as many.
CountsAddUp ==
    pc = "done" /\ call = "recall" =>
    /\ SumFunction(considered) <= Cardinality(Merged) + dropped
    /\ Cardinality(out) + dropped <= SumFunction(considered)
    /\ SumFunction(returned) = Cardinality(out)
    /\ \A k \in Kinds : returned[k] <= considered[k]

\* TotalDropped as step 7 of the algorithm in Recall's comment computes it,
\* before the result is truncated: the candidates minus the entries left by the
\* merge.
DroppedAsDocumented ==
    pc = "done" /\ call = "recall" =>
    SumFunction(considered) = Cardinality(Merged) + dropped

\* Every call returns: no goroutine is left blocked on the channel.
Returns == (pc = "wait") ~> (pc \in {"done", "failed"})

============================================================================
