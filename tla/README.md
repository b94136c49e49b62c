# A TLA+ model of llm-agent-memory

This directory models the memory tiers of `llm-agent-memory`, the manager in
front of them, the lifecycle operations that work across tiers, and the SQLite
snapshot store. TLC checks the models on small instances; TLAPS proves the
central invariants for every value of the constants.

- [The system](#the-system)
- [Modules and how they correspond to the code](#modules-and-how-they-correspond-to-the-code)
- [Runs](#runs)
- [Bounds](#bounds)
- [Fairness](#fairness)
- [Findings](#findings)
- [Proofs](#proofs)
- [What is only model-checked](#what-is-only-model-checked)
- [What is not modelled](#what-is-not-modelled)
- [Plan](#plan)

## The system

All code is in `src/memory`. A *tier* is one of working, episodic and semantic
memory. All tiers keep their items in the same in-memory store and differ in
how they score a search and, for working memory, in a capacity.

| Component | State | Operations | Who calls it |
|---|---|---|---|
| Scored store, `engine_scored_store.go` | two maps by ID (items, vectors), a sequence number, one `RWMutex` | `add`, `get`, `update`, `remove`, `snapshot` | every tier |
| Tier export and import, `engine_persistence.go` | none | `exportFromStore`, `importIntoStore` (merge, upsert, replace) | tiers, from `Manager.ExportAll`/`ImportAll` |
| Working memory, `engine_working.go` | a scored store and `Capacity` | `Add` with eviction, `Search`, `Update`, `Remove`, ... | Manager |
| Episodic and semantic memory | a scored store | the same without eviction | Manager |
| Tier listing, `engine_list.go` | none; a cursor names the last item of a page | `listFromStore` | `Manager.ListAll` |
| Manager, `manager.go` | the tiers that are wired | dispatch by kind, `SearchAll`, `ListAll`, `ExportAll`, `ImportAll` | applications and all that follow |
| Consolidator, `consolidator.go` | none | `Consolidate`: list, clone to episodic, stamp the source | a caller's goroutine or timer |
| Scoped manager, `scoped_manager_local.go` | none; the scope is in the context and in the items' Metadata | `Add`, `Get`, `Update`, `Remove`, `ListAll`, ... of one scope | applications |
| Scoped lifecycle, `scoped_lifecycle.go` | none | `ForgetScoped` (importance, age, capacity), `ConsolidateScoped`, `StatsScoped` | applications |
| Snapshot store, `sqlite_store.go` | tables `memory_snapshots` (a row per key and kind) and `memory_store_schema` | open and migrate, `Save`, `LoadKind`, `Delete` | `ExportAll`, `ImportAll` |
| Recall, `recall_engine.go`; unified and parallel search | none | one goroutine per tier, a channel, merge, sort, cut | applications |
| Write policy, `write_policy.go`, `policy_hook.go` | a policy; per tier a chain of sanitizers | `PolicyEnforcingMemory.Add`: decide, `Manager.Add`, event; the chain in front of a tier's `Add` | applications |
| Observer, `observer.go` | none | `emit`, a callback per event | all |

What makes this code hard to test:

- **No lock spans two calls.** `get` and `update` of the store are two critical
  sections each; an eviction is four; `Consolidate`, `ForgetScoped`,
  `ExportAll` and `ImportAll` are loops of separate calls. Everything read
  before such a gap can be stale after it.
- **Copies share Metadata maps.** A listed or exported item is a copy of the
  struct, but its `Metadata` map is the stored item's map. A copy therefore
  shows stamps and pins written later, unless the map was nil when the copy was
  made. Some of the code's guarantees rest on this sharing, and one fails
  because of it.
- **Enumerations restart.** A hop of an enumeration asks every tier; a tier
  with no more pages is missing from the cursors of the next hop and starts
  over.
- **Partial failure.** An embedder, a `Save` or an `Update` that fails in the
  middle leaves the first half in place. The process can crash between rows.
- **Goroutines and a channel.** `Recall` receives only after every goroutine
  has sent.
- **Filters before and after cuts.** A tier filters, sorts and cuts; the merge
  cuts again, and the scope is tested after the cut.
- **Layers that some calls skip.** `Add` goes through policy and chain; `Update`
  and `Import` of the same tier do not.

What correctness means here, component by component: vectors agree with the
items they belong to; the working tier stays near its capacity; a listing is
complete and ends; an item is promoted exactly once and a promoted item has its
clone, across crashes and restores as well; a scoped caller touches items of its
scope only and pinned items survive; a completed export is not lost; a recall
leaves out nothing better than what it returns, and returns; a search shows
nothing disabled or of another scope; what was added through a chain is what the
chain let through, and the Observer hears once of each write of the policy that
is stored or rejected. `PROJECT.json` lists the hazards with the line where each bites and the properties that watch
it.

## Modules and how they correspond to the code

One action is one critical section, one call into another component, or one
pass of a loop: the points between which the Go scheduler may run another
goroutine. History variables (marked `history` in the modules) record what the
properties speak of and never guard an action.

**ScoredStore** (`engine_scored_store.go`, `engine_persistence.go`). An item is
its content, a vector the content it was embedded from, or nil. `add` is one
action, since the embedder is called under the lock. An embedder that answers
with no vectors and no error leaves a nil vector (`Embeddings`). `get` is
`GetRead` and `GetTouch`, `update` is `UpdateWrite` and `ReembedOk` or
`ReembedFails`. `Export` and `Import` are one action each; a snapshot can have
lost its vectors.

**AtomicStore** is what the store promises: one map in which every write is one
step, and an index that agrees with it except for the IDs in *doubt*. It has no
locks, no vectors to re-embed and no gaps. `ScoredStore!Atomic` instantiates it:
an undisturbed update that has yet to re-embed counts as done, so the index is
`Found` (the item for such IDs, the vector for others) and the doubt is what
races and failures have left. `get` and `update` begin and end in AtomicStore
too, since their callers can tell; what they do to the items is one step. The
property `ImplementsAtomicStore` is `Atomic!Spec`.

**WorkingMemory** (`engine_working.go`). `Add`, then `EvictCheck` (the size
test), `EvictEmbed` (the probe, or the fallback), `EvictScan` (snapshot and
choice of the victim, or the panic on an empty one), `EvictOldest` (the
fallback) and `EvictRemove`. A score is an arbitrary function of probe and item;
an item may be dated in the future, where `evictOldest` removes nothing.

**PolicyWrites** (`write_policy.go`, `policy_hook.go`, `manager.go` `Add`) puts
the write path in front of WorkingMemory, which it extends. `Propose` is
`PolicyEnforcingMemory.Add` up to the decision and `ManagerAdd` a caller of the
Manager; `Refuse` is a rejection, an unknown verdict, an unknown kind or a tier
that is not wired; `Sanitize` is one stage of the chain of the decided kind;
`StoreWorking` is WorkingMemory's `Add`, followed by its eviction, `StoreOther`
that of another tier; `Report` is the event when `Manager.Add` has returned, and
`Stop` the return with an error, without one. The decisions of the policy that
end so are kept in `unheard`.
`Update`, `Remove` and `Import` pass the chain by. A policy is a function of
source, kind and item, a stage a function of the item to an item, *dropped* or
*failed*; `Adapter` builds the stage that a `PolicyAdapter` is. `Clean` says
which values a kind is meant to hold. It is assumed that the policy allows only
clean values, that no stage spoils one, and that the working tier's chain has a
stage that cleans: `OnlyCleanAdded` is about whether the path keeps what its
parts promise.

**Lister** (`engine_list.go`) defines a page and its cursor by rank.
**SlicedListing** defines them as the code computes them, by sorting and slicing,
and compares the two on the tiers and cursors of PagedListing, which it extends.

**PagedListing** (`consolidator.go` `listAllPaged`, `scoped_lifecycle.go`
`listAllScoped`, `manager.go` `ListAll`). The tiers are asked in turn, one
action each; users add, replace and remove items between any two.

**Consolidation** (`consolidator.go`). The enumeration of the working and the
episodic tier as in PagedListing, then the loop: filters, clone, stamp, with the
error returns, by any number of concurrent calls. Users add items with and
without Metadata, and add over IDs in use: an item is an ID and an *incarnation*.
Copies record whether their map is shared. The episodic tier grows while it is
being enumerated by the next call, as it does in the code. Two histories record
the windows in which promotion goes wrong: `unseen` the items that the filter let
through although another promotion of them was under way or hidden from the
copy, and `misplaced` the stamps that did not find the item that was cloned.

**ScopedMemory** (`scoped_manager_local.go`, `scope_local.go`,
`scoped_lifecycle.go`). Check-then-act of `Update` and `Remove`; `ForgetScoped`
with its listing, its three strategies and its removals by ID;
`ConsolidateScoped` with the same listing, its filter, and a clone for each item
it takes. Scope and pin live in an item's Metadata map, and `metadata` says
which items have the same map: `AddShared` and `AddElsewhere` are an `Add` with
the map of an item that is in the tier, into which `stampScope` writes. The
enumeration is abstracted to the number of times it lists the tier (`MaxLaps`);
PagedListing shows how often that can be. The clones are recorded and not
listed again, and nobody writes to a clone.

**Snapshots** (`manager.go` `ExportAll` and `ImportAll`, `sqlite_store.go`).
The working tier captured first, then the episodic; rows saved one by one in any
order, each atomically; rows loaded in kind order and imported in any order;
failing saves, loads and Importers (`ImportError`, which ends an import between
two tiers); `Delete`; crash, reopen and migration. The tiers are
abstracted to what ties them together: which working items are stamped, and
which have a clone. An item is what some `Add` put under an ID, and `IdOf` may
send several to one ID: an `Add` over an ID, an import and a stamp act on the
item that is there under the ID, which need not be the one that was cloned. An
`Update` of its content leaves an item the same. The bundled Importers test a
snapshot before they touch their tier, so an import that fails has changed
nothing in its own tier. `WithMaps` says whether items carry a Metadata map, which a
captured copy shares with the tier until `Save` encodes it.

**Recall** (`recall_engine.go`, `unified_search.go`, `parallel_search.go`,
`manager.go` `SearchAll`, `scoped_manager_local.go`, and the `Search` of the
tiers). `Recall`, `SearchUnified` and `SearchAllParallel` fan out one goroutine
per tier: `Search` or `SearchError`, `Send` on the channel and, after `wg.Wait`,
`Fail`, `Collect` (merge by (ID, content), sort, cut and count) or
`CollectByKind`. `SearchAll` and the searches of the ScopedManager take one tier
after the other (`SearchNext`, `SearchNextFails`), and the latter filter by
scope at the end. A tier's search takes a snapshot, passes over disabled items
and, in the semantic tier, items without the tags of the query, and cuts the
rest by score. Ties that the code leaves to map order or to the sort are
choices.

The `*Proofs` modules hold the theorems, the `MC*` modules the values of
constants that a configuration cannot write, and views and symmetries. **ListerProofs** has the lemmas
about pages that PagedListingProofs and ConsolidationProofs share, and
**WritePathProofs** the theorems of WorkingMemory and of PolicyWrites.

## Runs

Runs marked *violation* check a statement of the repository that the code does
not keep; see [Findings](#findings).

| Run | Properties | What it shows |
|---|---|---|
| `scored_store` | `TypeOK`, `StaleOnlyByRace`, `SnapshotAgrees`, `ImplementsAtomicStore` | vectors and snapshots disagree with items only after the races and failures the invariant names; the store implements AtomicStore |
| `working_drift` | `TypeOK`, `DriftBound`, `PolicyTypeOK`, `OnlyCleanAdded`, `HeardOnce` | with policy and chain in front: the tier exceeds its capacity by no more than evictions under way, evictions that removed nothing, and imports; what was added is clean; the Observer hears once of every write of the policy that was stored or rejected |
| `policy_events`, *violation* | `EveryDecisionHeard` | a write that the policy allows and `Manager.Add` refuses ends without an event |
| `paged` | `TypeOK`, `Complete`, `RepeatsOnlyOnRestart`, `PageMeetsReference`, `TerminatesUndisturbed` | nothing that stays is missed; repeats come only from restarts; slicing agrees with the definition by rank; an undisturbed enumeration ends |
| `consolidation` | `TypeOK`, `NothingMissed`, `TwiceOnlyUnseen`, `StampedOrReplacing` | two concurrent consolidators, items with and without Metadata, an ID used again, several pages: a call without error leaves no eligible item that stayed without a clone, or the stamp of an item it replaced; second clones and stamps without a clone come only through the windows the invariants name |
| `promote_once`, *violation* | `PromoteOnce` | in the same setting, an item with nil Metadata that is listed twice gets two clones from one call |
| `scoped` | `TypeOK`, `ActsInScope`, `PinnedSurvive`, `KeepsTheBest`, `OneCloneEachLap` | nothing but an `Add`, over the ID or with the map of its item, defeats the scope test; pinned items survive; capacity keeps the best when the tier is listed once; `ConsolidateScoped` clones each eligible item once for every time it lists the tier |
| `scoped_keep`, *violation* | `KeepsTheBest` | a tier listed twice makes capacity remove what it was to keep |
| `snapshots` | `TypeOK`, `PromotionsSurvive`, `NewestExportStays` | a stamp keeps its clone and a completed export stays, over crashes, failures and overlapping exports and imports, with the exceptions the invariants name |
| `snapshots_maps`, *violation* | `PromotionsSurvive` | items with a Metadata map: a promotion between capture and `Save` saves a stamp without its clone |
| `recall` | `TypeOK`, `NothingBetterLeftOut`, `MissedOnlyByTheCut`, `OnlyVisible`, `CountsAddUp`, `Returns` | duplicates, budgets, cuts and concurrent writes never push out a better item that stayed; a search by kind misses an item of the scope only through the tier's cut; nothing disabled or out of scope is returned, with an error neither; the counts are those of the result; every call returns |
| `recall_dropped`, *violation* | `DroppedAsDocumented` | `TotalDropped` also counts what the cut to TopK leaves out |

Each property of a passing run has a mutant: an alternative definition in the
module (marked `Mutant`) that changes one operation the way a plausible mistake
would, under which TLC finds the property violated.

Invariants with exceptions deserve a word. `StaleOnlyByRace`,
`PromotionsSurvive`, `TwiceOnlyUnseen` and `StampedOrReplacing` name, by history
variables, the cases in which the code gives no guarantee, so that they say what
*else* cannot go wrong. For `PromotionsSurvive` they are: a clone that a user
removed; an item added over one that was being promoted; rows of two exports
restored together (a `Save` failed, a crash fell between two rows, or two
exports of one key overlapped); an import that an error ended between two tiers;
a promotion or an export that ran while an import was between two tiers. Outside
these the order of `ExportAll`, working before episodic, is what keeps stamps
with their clones. For the promote-once policy they are a second call between
the filter and the stamp of the first, a copy made when the item had no map, and
a stamp whose item had gone: a repeated listing, a second call after the first,
and a failing clone do no harm by themselves. `NothingMissed` has one
exception, an item with the stamp of the one it replaced.

Two settings the passing runs leave out because the property fails there;
each is a limit of the code worth knowing:

- `CapacityAtRest` fails with two adders: both choose the same victim, and one
  item too many stays. A later `Add` evicts one item, no more than it added.
  `DriftBound` counts these.
- `ActsInScope` without its exceptions fails whenever another caller adds over
  the ID between test and act, or adds an item with the Metadata map of that one
  in another scope, even to another tier.

And two properties state a weakness as it is. `MissedOnlyByTheCut`: a scoped
search asks the tier for topK items of any scope and filters afterwards, so it
can return fewer items of the scope than there are, or none. `OneCloneEachLap`:
`ConsolidateScoped` does not stamp, so every listing and every call promotes the
same items again.

## Bounds

| Run | Bounds | Why they are enough |
|---|---|---|
| scored_store | 2 callers, a chosen and a generated ID, 2 contents, all modes | races are between two calls on one ID; the second ID shows that others are untouched |
| working_drift | 2 adders, capacity 1, 3 IDs, 2 values (one clean), 3 calls; kinds wired, not wired and unknown; a chain of two stages and one of one | two adders can be at any two steps of chain, eviction and event, with the tier empty, full and over capacity; the policy accepts, redacts, rejects, reroutes and errs |
| paged | 2 tiers, 3 IDs, 2 times, pages of 1, one write | pages of 1 make every boundary a page boundary; one write is enough to put tiers out of step |
| policy_events | 1 adder, 1 ID, 2 calls | one decision whose write is refused |
| consolidation | 2 consolidators, 2 working IDs, one of them with 2 incarnations, 2 to 6 episodic items, pages of 1, 2 calls, 2 hops after the first | two calls at any two steps or one after the other, each listing an item up to three times; the tiers differ in length in both directions, so that either starts over; an item is replaced, and gets its map, at any moment of a call |
| promote_once | the same with 1 working ID and 1 incarnation | one item is enough |
| scoped, scoped_keep | a user, a lifecycle, 2 IDs, 2 scopes, 2 (1) incarnations, 1 (0) shared maps, 1 listing for `ForgetScoped` and 2 for `ConsolidateScoped` (2 for both) | an ID can change scope once under each call, by an `Add` over it or through its map; two listings are the smallest repetition |
| snapshots, snapshots_maps | 2 (1) exporters, 1 item, 1 name, 2 (1) exports, one import at a time | all four orders of two captures and two saves; one item can lose its clone or not; that several items take turns under one ID is left to the proof, which is for every `IdOf` (with two items, `IdOf <- MCOneId`, one exporter and one export TLC finishes too) |
| recall | 2 tiers, the second with tags, 2 scopes beside the zero one, topK 0 and 1, budgets 0 and 1, one write | equal and different scores within and across tiers, a key in both tiers, an ID with two contents, a disabled item, scopes and tags that match or not, cuts by tier and by result |

`MaxCalls`, `MaxRuns`, `MaxHops`, `MaxEdits`, `MaxExports`, `MaxSeq`, `MaxInc`,
`MaxEpisodic` and `MaxLaps` bound otherwise unbounded behaviour in the guards;
the proofs hold for every value of those that occur in them. Runs whose models
stop at a bound, or whose call is over, say `CHECK_DEADLOCK FALSE`.
`scored_store` never stops and is checked for deadlock. In `recall` the default
TopK of `Recall`, 10 in the code, is scaled to 2, so that the cut of the merged
result falls within the small tiers; the default of a tier is the code's 5.

`scored_store`, `working_drift`, `consolidation` and `scoped` use a `VIEW`: states that differ only in values that no later step and
no property of the run reads, such as the victim of an eviction that is over,
count as one. `consolidation` and `scoped` have a constraint, `FewAdds`: only
one of the two IDs is added over. Symmetry is used for invariants and for
`ImplementsAtomicStore`, over sets that the specification, and the abstract one,
treat alike: the refinement speaks of initial states and of single steps and has
no fairness, so it holds of a behaviour if it holds of its permutations. No run
of a liveness property has symmetry or a view.

## Fairness

Two runs check liveness.

- `paged`: `WF_vars(Enumerate)`. The goroutine of the
  enumeration needs only read locks that every other call releases, and loops
  without waiting for anyone. Users have no fairness: they may stop.
- `recall`: weak fairness of `Goroutine(k)` for each tier, and of `Caller`.
  These are goroutines the Go scheduler runs; a search needs
  a read lock and an embedder that answers. `Send` is weakly fair, so a full
  channel blocks it: `Returns` holds because the channel has room for every
  goroutine, and fails with a smaller one.

## Findings

1. `promote_once`: `consolidator.go:24-25` says that the promotion count is
   "capped at 1 by the promote-once policy enforced by Consolidator.Consolidate",
   and line 65 that `Consolidate` "skips items already promoted". The filter
   (`consolidator.go:89`) reads a copy, which does not see the stamp if the
   item's Metadata, nil by default, was nil when it was listed; and nothing
   orders filter, clone and stamp of two calls. The trace is the first case; with
   `NilMetadata = FALSE` TLC finds the second. `TwiceOnlyUnseen` says that there
   is no third way but a source that is removed or replaced before its stamp.
2. `policy_events`: `write_policy.go:155-156` says that the event "is emitted in
   all three cases", `observer.go:60` that it follows "every policy decision",
   and `CHANGELOG.md:113` that there is one "for all three verdicts". The code
   emits none for an accepted or redacted write that `Manager.Add` then refuses.
   `HeardOnce` is about the other writes.
3. `scoped_keep`: `listAllScoped` returns items twice when one tier has more
   pages than another, and `ForgetByCapacity` (`scoped_lifecycle.go:137-151`)
   counts them twice.
4. `snapshots_maps`: `Save` (`sqlite_store.go:219`) encodes Metadata maps that
   are still shared with the tier; a promotion in between puts a stamp into the
   row and not its clone.
5. `recall_dropped`: the steps listed above `Recall` (`recall_engine.go:117-118`)
   compute `TotalDropped` before the cut; the code (line 211) adds what the cut
   leaves out. `CountsAddUp` says what holds under either reading.

### Known limits

Four more expectations fail in the models, each in a way that an invariant of a
passing run names as its exception or that ends the call. They have no run of
their own; to see the trace, add the property to the configuration of the run.

- `VectorsFreshAtRest` (`scored_store`, with `EmbedFails = FALSE` for the race
  alone): `update` (`engine_scored_store.go:103-109`) embeds outside the lock and
  stores the vector without looking at the item again. Two updates, an update and
  an `Add` over the ID, or an update and a remove leave a vector of other content
  or of no item. `StaleOnlyByRace` says that nothing else does but a failing
  embedder and an import of such a vector.
- `NoPanic` (`working_drift`): `evictIfOverCapacity` (`engine_working.go:153`)
  indexes `scores[0]` of a snapshot that is empty when other goroutines have
  emptied the tier since the size test; the `Add` panics.
- `Terminates` (`paged`): the loop of `listAllPaged` (`consolidator.go:179-182`)
  ends only when all tiers are exhausted in the same hop. After one concurrent
  write they may never be, and the loop runs, and its result grows, for ever.
  `TerminatesUndisturbed` is about enumerations without one.
- `StampedWasPromoted` (`consolidation`): the stamp (`consolidator.go:111`) goes
  to whatever item has the ID, so an item added over the source counts as
  promoted and is never copied. `StampedOrReplacing` names this case.

One smaller divergence has no run of its own:

- `scoped_manager_local.go:7` says that the ScopedManager "enforces ctx scope on
  reads and writes"; its `Consolidate` and `Forget` forward without a scope.

## Proofs

| Theorem | Module | States |
|---|---|---|
| `TypeCorrect` | ScoredStoreProofs | `Spec => []TypeOK` |
| `StaleVectorsNeedARace` | ScoredStoreProofs | `Spec => []StaleOnlyByRace` |
| `SnapshotsAgree` | ScoredStoreProofs | `Spec => []SnapshotAgrees` |
| `StoreIsAtomic` | ScoredStoreProofs | `Spec => ImplementsAtomicStore` |
| `WorkingTypes` | WritePathProofs | `Spec => []TypeOK` |
| `BoundedDrift` | WritePathProofs | `Spec => []DriftBound` |
| `SerialAddsKeepCapacity` | WritePathProofs | one adder, no imports, items dated in the past: `Spec => []CapacityAtRest` |
| `PolicyTierIsWorkingMemory` | WritePathProofs | `PolicySpec => Spec` |
| `PolicyTierBounded` | WritePathProofs | `PolicySpec => []DriftBound` |
| `PolicyTypes` | WritePathProofs | `PolicySpec => []PolicyTypeOK` |
| `AddedIsClean` | WritePathProofs | `PolicySpec => []OnlyCleanAdded` |
| `EventsTellTheWrites` | WritePathProofs | `PolicySpec => []HeardOnce` |
| `ListingTypes` | PagedListingProofs | `Spec => []TypeOK` |
| `EnumerationIsComplete` | PagedListingProofs | `Spec => []Complete` |
| `RepeatsNeedARestart` | PagedListingProofs | `Spec => []RepeatsOnlyOnRestart` |
| `SlicesArePages` | PagedListingProofs | `Spec => []PageMeetsReference` |
| `ConsolidationTypes` | ConsolidationProofs | `Spec => []TypeOK` |
| `StampsArePromotions` | ConsolidationProofs | `Spec => []StampedOrReplacing` |
| `PromotedTwiceOnlyUnseen` | ConsolidationProofs | `Spec => []TwiceOnlyUnseen` |
| `ConsolidateMissesNothing` | ConsolidationProofs | `Spec => []NothingMissed` |
| `Types` | ScopedMemoryProofs | `Spec => []TypeOK` |
| `ScopesAreKept` | ScopedMemoryProofs | `Spec => []ActsInScope` |
| `PinsAreKept` | ScopedMemoryProofs | `Spec => []PinnedSurvive` |
| `ClonesFollowListings` | ScopedMemoryProofs | `Spec => []OneCloneEachLap` |
| `TheBestAreKept` | ScopedMemoryProofs | capacity lists once: `Spec => []KeepsTheBest` |
| `SnapshotTypes` | SnapshotsProofs | `Spec => []TypeOK` |
| `CompletedExportsStay` | SnapshotsProofs | `Spec => []NewestExportStays` |
| `PromotionsAreKept` | SnapshotsProofs | items without a Metadata map: `Spec => []PromotionsSurvive` |
| `RecallTypes` | RecallProofs | `Spec => []TypeOK` |
| `ResultsAreVisible` | RecallProofs | `Spec => []OnlyVisible` |
| `MissesOnlyByTheCut` | RecallProofs | `Spec => []MissedOnlyByTheCut` |
| `MergeLeavesNothingBetterOut` | RecallProofs | `Spec => []NothingBetterLeftOut` |
| `RecallCountsAddUp` | RecallProofs | `Spec => []CountsAddUp` |

They rest on the named assumptions on the constants and on nothing else: that
sets of IDs, times and hits are finite (a tier is a map in memory), that a page
has at least one item (`listFromStore` replaces a size of zero), and that bounds
are numbers. Three theorems have a hypothesis of their own, in their statement;
each is a setting in which a run checks the property or a weaker one, and outside
of which it fails: one adder, no imports and no items of the future for
`CapacityAtRest`, one listing for `KeepsTheBest`, and no Metadata maps for
`PromotionsSurvive`.

Every theorem is about one of the properties the runs check, or carries one over
to a composition. Each inductive invariant was checked with TLC before it was
proved.

- *Scored store.* `StaleOnlyByRace` is not inductive: `ReembedOk` makes the
  vector equal to the copy it holds, which is the item only if nobody has
  written since. `AloneIsCurrent` says so: an undisturbed update holds the
  item's content. An import needs `SnapshotAgrees`, so the two are proved
  together. A nil vector puts its ID in doubt, as a failed re-embedding does.
- *Refinement.* Each action maps to the action of AtomicStore with the same
  effect on the items; `ReembedOk` of an undisturbed update is an `UpdateEnd`
  that changes nothing, because the index already had its content, unless the
  embedder answered with nothing, when it misfiles the ID. The mapping
  of `Found` and `Doubt` under each step needs the same invariant.
- *Working memory.* The cardinality of the tier changes by at most one in each
  step, and every growth is paid by an adder in `Evicting` or by `overrun`. The
  case that needs care is a removal whose victim has gone: it leaves the tier as
  it is while the adder leaves `Evicting`, and `overrun` pays. For
  `SerialAddsKeepCapacity` the strengthening says that with one adder the tier
  is at most one over capacity, and within it when nothing is left to remove:
  no `Add` is in flight, or its victim has gone already.
- *Policy.* The composition implements WorkingMemory with the variables as they
  are (`PolicyTierIsWorkingMemory`), so the bound on the tier carries over. For
  clean items the invariant follows a write through the chain: once it has
  passed a stage that cleans, or was allowed by the policy, its item is clean
  and no later stage changes that. For events the number of writes that owe one
  changes with the balance in every step; a write changes hands in `Stored` and
  leaves in `Report` and `Refuse`; one that is stopped by an error owed nothing.
- *Enumeration.* An item that stays and has not been listed is *pending*: it
  lies after the cursor with which its tier will be asked next. That a page not
  empty has a last item, and that what a page leaves over lies after it, follows
  from ranks and the least-number principle (`LeastOf` in ListerProofs).
  Repetition is the mirror image: in a tier that was not started over, an item
  that was listed lies at or before the cursor, and was listed once.
- *Slices.* That the candidates can be sorted is shown by ranks: they are the
  numbers below the size of the listing, each taken once, so the item of rank
  i - 1 has place i. The places behind `start` are the items after the cursor,
  since those are closed upwards; the rank among them of the item at place i is
  i - 1 - `start`; and so the slice is the page, its length the page's size, and
  `candidates[end]` its last item.
- *Consolidation.* None of the theorems restricts the number of calls, the
  Metadata of items or the use of IDs. Stamps: a call about to stamp has added a
  clone of the item in its hand, and clones are never taken back; if the stamp
  finds another item, `misplaced` has both. Promote-once (`Once`): of an item
  that is in neither history, at most one call is between filter and stamp
  (`At`); its clone, if there is one, has been followed by a stamp, or is that of
  this call, which has reached the stamp. So the filter of any later copy
  sees the stamp in the shared map, or does not and records the item as
  `unseen`. Nothing missed (`Missing`): while a call runs, every eligible item
  that has stayed is *settled*, that is, has a clone or the stamp of an item it
  replaced, or is among the items the call has still to look at, or is still to
  be listed: it lies after the cursor with which the working tier will be asked
  next. A copy leaves the list with a clone made or with a stamp seen, and a
  stamp settles.
- *Scoped calls.* What a call acts on it has seen in its scope: a listing loses
  copies or gains visible ones, and nothing else changes a call's copies. An item
  that is given another scope through its map is `stale` in every call under way. For
  pins (`Guarded`): an item pinned ever since the call began is pinned now, the
  call's copies of its ID are copies of it, and what the call has chosen to
  remove is not among the pinned.
- *Undisturbed calls.* For a call since whose beginning nobody else has written,
  a step is its own or changes nothing it knows (`StepUndisturbed`). A listing
  holds every item in scope once: its IDs increase, so it is injective, and it
  is as long as there are items, so it is onto. `ConsolidateScoped` (`Tally`): the
  number of places an eligible copy has in the list and of its clones add up to
  the number of listings; the list shrinks by what is cloned or not eligible.
  `ForgetByCapacity` (`Choice`): the places after the stable sort are the numbers
  below that of the candidates, each taken once (`Places`), so all but `Keep` are
  evicted and none that is more important than one that is kept
  (`EvicteesCut`). From then on the candidates that are there and not in the list
  are the same set in every step, and at the end they are what is left.
- *Completed exports.* Three facts are needed beside the property. An export
  under way has a number no smaller than the floor of its name; two exports of
  one name at a time are both contested; and the rows an uncontested export has
  saved so far are still its own. So the last `Save` finds the first row in
  place.
- *Promotions.* The invariant speaks of the pool of all snapshots, in rows,
  captured or loaded: the working and the episodic snapshot of one export belong
  together, every stamp in the first having its clone in the second. A pair is
  completed by the second capture, so an exporter in between needs the clones to
  go on covering the stamps it holds (`CaptureCovered`); a new number, larger
  than all in the pool, starts a pair with the tier as it is. Half-way through
  an import the tier that is still to come completes the other (`HalfCovered`),
  which is where the two orders of the import and the three modes are told
  apart. An import that an error ends half way excuses every item, and a stamp
  excuses the item it hits in place of the one that was cloned. Without maps no
  copy changes after its capture; with them a stamp can, and `snapshots_maps`
  shows the theorem false. That a tier has one item to an ID is part of the
  types: an import keeps it because it displaces what has the ID of an item it
  takes.
- *Recall.* One invariant serves all five theorems: how far the goroutines are
  when the call is (`Shape`), what stayed is still in its tier (`Held`), nothing
  found is disabled, and a tier that has answered without error has found every
  wanted item that stayed, or as many that score no less as it was asked for
  (`Answered`). The last is what a tier's cut leaves of it, and it outlives the
  writes that follow because what was found is a copy. The merge keeps for each
  key a candidate of the best score, and the cut keeps the best of those; an
  injection from what the tier found, by keys, to what was merged carries the
  count over, or the key itself is in the result. For the counts the fold of
  `SumFunction` is unfolded one tier at a time: that the sum of the sizes of the
  parts is the size of the whole holds for the empty set of tiers, and a smallest
  set of tiers for which it did not would have a smaller one.

## What is only model-checked

- Liveness (`TerminatesUndisturbed`, `Returns`): the proof system
  has no rules for fairness here.
- The settings the hypotheses of the theorems leave out: capacity with two
  listings, promotions of items with Metadata maps while an export runs. There
  the properties fail; TLC finds counterexamples.
- The statements of the repository that do not hold: the violation runs are
  counterexamples.

Every invariant and action property that a passing run checks is also the
statement of a theorem.

## What is not modelled

- **Scores and formatting.** Search scores are arbitrary; the filter of a listing
  is the set of matching items; cursors are the items they were made from; the
  text of a query is the set of tags it begins with.
- **StatsScoped, StatsAll, Stats**: reads. `StatsScoped` counts the items of a
  tier once for every listing, as `scoped_keep` shows for `ForgetScoped`.
- **Manager.Consolidate and Forget**, and the ScopedManager's: they forward to a
  lifecycle that a caller wires and of which the repository has no
  implementation.
- **Events other than the policy's**: counters emitted at the end of a call.
  An Observer or a policy that panics or blocks is against its contract.
- **What WithSanitizer hides**: the wrapped tier has no `List`, `Export` or
  `Import`, so a caller wires those of the tier itself, as the models assume.
- **Item helpers, type aliases, interfaces**: no state.
- **Data races on Go maps.** A read and a write of one Metadata map in two
  goroutines end the program (`consolidator.go:100`, `sqlite_store.go:219`). The
  models take each read of a map as one step.
- **Writes to a clone.** A clone of `ConsolidateScoped` has the Metadata map of
  its source (`scoped_lifecycle.go:77`), so pinning the one pins the other.
  ScopedMemory models that for items of one tier and for an `Add` elsewhere, not
  for updates of the clone.
- **The semantic tier in Snapshots**: no operation ties it to another tier.
- **SQLite itself**: a `Save` or `Delete` is one transaction and takes effect at
  once or not at all.

## Plan

The order was: the store first, since every tier rests on it; then the bounded
tier, the enumeration and the lifecycle operations that use it; then the
composition of the tiers with the snapshot store; then recall; then the policies
in front of the tiers, the scoped searches and lifecycle, and the refinement of
the store. After that came the proofs, one component at a time, until every
invariant of the passing runs was a theorem. What could still be done:

1. A refinement of Recall: the fan-out with its channel against the search of one
   tier after the other.
