---------------------------- MODULE PolicyWrites ----------------------------
(***************************************************************************)
(* The path of a write through the policies in front of a tier:            *)
(* PolicyEnforcingMemory.Add asks the WritePolicy and gives what it        *)
(* decided to Manager.Add, which dispatches to the tier of the decided     *)
(* kind; there the stages of WithSanitizer's chain run one after the       *)
(* other, and what the last one leaves is added to the tier.  When all of  *)
(* that has succeeded the Observer hears of it.  Callers with a Manager    *)
(* skip the policy and not the chain; Update and Import skip both.         *)
(*                                                                         *)
(* The working tier is the one of module WorkingMemory, eviction included. *)
(* Of the other tiers only what the policy has put there is kept.          *)
(***************************************************************************)
EXTENDS WorkingMemory, Integers, Sequences

CONSTANTS
    Kinds,      \* the kinds a decision can name, known or not
    Wired,      \* the kinds that have a Memory
    Sources,    \* the values of ProposedWrite.Source
    Policy,     \* WritePolicy.Decide, from a source, a kind and a value
    Chain,      \* the stages of each wired tier's sanitizer chain
    Dropped,    \* a stage's answer keep = false
    Failed,     \* a stage's error
    Clean       \* the values each kind is meant to hold

Verdicts  == {"accept", "redact", "reject", "unknown"}
Allowing  == {"accept", "redact"}
Decisions == [verdict : Verdicts, kind : Kinds, item : Values]
Answers   == Values \cup {Dropped, Failed}
Stages    == [Values -> Answers]

ASSUME WiredAssumption == "working" \in Wired /\ Wired \subseteq Kinds
ASSUME PolicyAssumption ==
    /\ Policy \in [Sources \X Kinds \X Values -> Decisions]
    /\ "system" \in Sources
    /\ Dropped \notin Values /\ Failed \notin Values /\ Dropped # Failed
    /\ Clean \in [Kinds -> SUBSET Values]

\* The policy lets only clean values into a kind, and no stage spoils one.
ASSUME CleanAssumption ==
    /\ \A in \in Sources \X Kinds \X Values :
          Policy[in].verdict \in Allowing => Policy[in].item \in Clean[Policy[in].kind]
    /\ Chain \in [Wired -> Seq(Stages)]
    /\ \A k \in Wired : \A i \in 1..Len(Chain[k]) : \A x \in Clean[k] :
          Chain[k][i][x] \in Clean[k] \cup {Dropped, Failed}

\* A stage after which every value in the working tier's chain is clean.
Cleans(i) == \A x \in Values :
    Chain["working"][i][x] \in Clean["working"] \cup {Dropped, Failed}

ASSUME ChainAssumption == \E i \in 1..Len(Chain["working"]) : Cleans(i)

VARIABLES
    write,      \* the write each adder is in
    filed,      \* what the policy has put into each of the other tiers
    bypassed,   \* history: IDs of unclean items that were written past the chain
    balance,    \* history: per verdict and kind, the writes that were stored or
                \* rejected minus the events heard of them
    unheard     \* history: decisions whose call returned without an event

polVars == <<write, filed, bypassed, balance, unheard>>
allVars == <<vars, polVars>>

Others == Wired \ {"working"}
Events == {"accept", "redact", "reject"} \X Kinds

\* A write on its way: how it came, what was decided, the item as the last stage
\* left it, the stage that is next, 0 when there is none, and whether the tier
\* has stored it.
Writes == [via : {"policy", "manager"}, verdict : Verdicts, kind : Kinds,
           item : Values, stage : Nat, stored : BOOLEAN]

ASSUME WriteAssumption == Nil \notin Writes

PolicyTypeOK ==
    /\ write \in [Adders -> Writes \cup {Nil}]
    /\ filed \in [Others -> SUBSET Values]
    /\ bypassed \subseteq Ids
    /\ balance \in [Events -> Int]
    /\ unheard \subseteq Events

PolicyInit ==
    /\ Init
    /\ write = [a \in Adders |-> Nil]
    /\ filed = [k \in Others |-> {}]
    /\ bypassed = {}
    /\ balance = [e \in Events |-> 0]
    /\ unheard = {}
----------------------------------------------------------------------------
(* The entry points.                                                       *)

Free(a) == pc[a] = "idle" /\ write[a] = Nil

\* requireMemory: a wired kind leads to its tier's chain; ErrUnknownKind and
\* ErrTierDisabled lead nowhere, like a verdict that does not allow the write.
Begin(a, how, verdict, k, v) ==
    /\ Free(a)
    /\ calls < MaxCalls
    /\ write' = [write EXCEPT ![a] =
                   [via |-> how, verdict |-> verdict, kind |-> k, item |-> v,
                    stage |-> IF verdict \in Allowing /\ k \in Wired THEN 1 ELSE 0,
                    stored |-> FALSE]]
    /\ UNCHANGED <<vars, filed, bypassed, unheard>>

\* The Observer will have to hear of a verdict and a kind; it hears of it.
Due(verdict, k)  == balance' = [balance EXCEPT ![<<verdict, k>>] = @ + 1]
Emit(verdict, k) == balance' = [balance EXCEPT ![<<verdict, k>>] = @ - 1]

\* PolicyEnforcingMemory.Add: the policy decides.  The event of a reject names
\* the kind that was proposed.
Propose(a, source, k, v) ==
    LET d == Policy[<<source, k, v>>] IN
    IF d.verdict = "reject"
       THEN Begin(a, "policy", d.verdict, k, v) /\ Due("reject", k)
       ELSE Begin(a, "policy", d.verdict, d.kind, d.item) /\ UNCHANGED balance

\* Manager.Add by a caller who does not use the policy.
ManagerAdd(a, k, v) == Begin(a, "manager", "accept", k, v) /\ UNCHANGED balance

\* The call returns.
Return(a) == write' = [write EXCEPT ![a] = Nil]

\* An error returns the call before an event is emitted; the policy may have
\* allowed the write.
Stop(a) ==
    /\ Return(a)
    /\ unheard' = IF write[a].via = "policy" /\ write[a].verdict \in Allowing
                  THEN unheard \cup {<<write[a].verdict, write[a].kind>>} ELSE unheard
    /\ UNCHANGED balance

Refused(a) == write[a] # Nil /\ write[a].stage = 0

\* Mutant: a rejected write returns like any other error.
RefuseSilently(a) ==
    /\ Refused(a)
    /\ Stop(a)
    /\ UNCHANGED <<vars, filed, bypassed>>

\* A write that leads nowhere returns an error: a rejected one after its event,
\* one with an unknown verdict, an unknown kind or a disabled tier without.
Refuse(a) ==
    /\ Refused(a)
    /\ \/ /\ write[a].verdict = "reject"
          /\ Emit("reject", write[a].kind)
          /\ Return(a)
          /\ UNCHANGED unheard
       \/ /\ write[a].verdict # "reject"
          /\ Stop(a)
    /\ UNCHANGED <<vars, filed, bypassed>>
----------------------------------------------------------------------------
(* The chain.                                                              *)

\* A PolicyAdapter as a stage of the chain of tier k: it cannot reroute.
Adapter(k) == [v \in Values |->
    LET d == Policy[<<"system", k, v>>] IN
    CASE d.verdict \in Allowing /\ d.kind = k -> d.item
      [] d.verdict = "reject"                 -> Dropped
      [] OTHER                                -> Failed]

InChain(a) == write[a] # Nil /\ write[a].stage > 0 /\ ~write[a].stored

More(a) == write[a].stage <= Len(Chain[write[a].kind])

\* Mutant: keep is not looked at.
SanitizeKeeps(a) ==
    LET w == write[a] IN
    /\ InChain(a)
    /\ More(a)
    /\ write' = [write EXCEPT ![a].stage = @ + 1,
                              ![a].item = Chain[w.kind][w.stage][w.item]]
    /\ UNCHANGED <<vars, filed, bypassed, balance, unheard>>

\* Mutant: the item goes to the next stage as it came.
SanitizeForgets(a) ==
    LET w == write[a] IN
    /\ InChain(a)
    /\ More(a)
    /\ IF Chain[w.kind][w.stage][w.item] \in {Dropped, Failed}
          THEN Stop(a)
          ELSE write' = [write EXCEPT ![a].stage = @ + 1] /\ UNCHANGED <<balance, unheard>>
    /\ UNCHANGED <<vars, filed, bypassed>>

\* One stage: the item it gives back goes to the next, keep = false and an error
\* end the call.
Sanitize(a) ==
    LET w      == write[a]
        answer == Chain[w.kind][w.stage][w.item]
    IN
    /\ InChain(a)
    /\ More(a)
    /\ IF answer \in {Dropped, Failed}
          THEN Stop(a)
          ELSE /\ write' = [write EXCEPT ![a].stage = @ + 1, ![a].item = answer]
               /\ UNCHANGED <<balance, unheard>>
    /\ UNCHANGED <<vars, filed, bypassed>>
----------------------------------------------------------------------------
(* The tier.                                                               *)

\* A write by the policy owes its event once it is stored, until Add returns
\* to PolicyEnforcingMemory; a caller of the Manager owes none.
Stored(a) ==
    IF write[a].via = "policy"
       THEN /\ write' = [write EXCEPT ![a].stored = TRUE]
            /\ Due(write[a].verdict, write[a].kind)
       ELSE /\ Return(a)
            /\ UNCHANGED balance

\* WorkingMemory.Add, with the eviction it still has to do.
StoreWorking(a, id) ==
    /\ InChain(a)
    /\ ~More(a)
    /\ write[a].kind = "working"
    /\ Add(a, id, write[a].item)
    /\ Stored(a)
    /\ bypassed' = bypassed \ {id}
    /\ UNCHANGED <<filed, unheard>>

\* Add of an episodic or semantic tier.
StoreOther(a) ==
    /\ InChain(a)
    /\ ~More(a)
    /\ write[a].kind # "working"
    /\ filed' = IF write[a].via = "policy"
                THEN [filed EXCEPT ![write[a].kind] = @ \cup {write[a].item}]
                ELSE filed
    /\ Stored(a)
    /\ UNCHANGED <<vars, bypassed, unheard>>

\* The embedder fails: the tier's Add returns an error.
StoreFails(a) ==
    /\ EmbedFails
    /\ InChain(a)
    /\ ~More(a)
    /\ Stop(a)
    /\ UNCHANGED <<vars, filed, bypassed>>

\* Manager.Add has returned, its eviction done: the event, and the ID.
Report(a) ==
    /\ write[a] # Nil
    /\ write[a].stored
    /\ pc[a] = "idle"
    /\ Emit(write[a].verdict, write[a].kind)
    /\ Return(a)
    /\ UNCHANGED <<vars, filed, bypassed, unheard>>
----------------------------------------------------------------------------
(* What the chain does not see.                                            *)

\* The unclean items after a step that does not go through the chain.
PastTheChain ==
    {id \in Ids : /\ items'[id] \notin Clean["working"] \cup {Nil}
                  /\ items'[id] # items[id] \/ id \in bypassed}

Evict(a) ==
    /\ \/ EvictCheck(a) \/ EvictEmbed(a) \/ EvictScan(a)
       \/ EvictOldest(a) \/ EvictRemove(a)
    /\ bypassed' = PastTheChain
    /\ UNCHANGED <<write, filed, balance, unheard>>

\* sanitizingMemory passes Remove and Update through.
RemoveItem(id) ==
    /\ Remove(id)
    /\ bypassed' = PastTheChain
    /\ UNCHANGED <<write, filed, balance, unheard>>

UpdateItem(id, v) ==
    /\ Update(id, v)
    /\ bypassed' = PastTheChain
    /\ UNCHANGED <<write, filed, balance, unheard>>

\* sanitizingMemory has no Import: the tier's own is wired beside it.
ImportItems(snap, mode) ==
    /\ Import(snap, mode)
    /\ bypassed' = PastTheChain
    /\ UNCHANGED <<write, filed, balance, unheard>>
----------------------------------------------------------------------------
PolicyNext ==
    \/ \E a \in Adders, s \in Sources, k \in Kinds, v \in Values : Propose(a, s, k, v)
    \/ \E a \in Adders, k \in Kinds, v \in Values : ManagerAdd(a, k, v)
    \/ \E a \in Adders : Refuse(a)
    \/ \E a \in Adders : Sanitize(a)
    \/ \E a \in Adders, id \in Ids : StoreWorking(a, id)
    \/ \E a \in Adders : StoreOther(a)
    \/ \E a \in Adders : StoreFails(a)
    \/ \E a \in Adders : Report(a)
    \/ \E a \in Adders : Evict(a)
    \/ \E id \in Ids : RemoveItem(id)
    \/ \E id \in Ids, v \in Values : UpdateItem(id, v)
    \/ \E snap \in Maps, mode \in ImportModes : ImportItems(snap, mode)

PolicySpec == PolicyInit /\ [][PolicyNext]_allVars
----------------------------------------------------------------------------
(* Properties.                                                             *)

\* What a tier holds has been through its chain, whichever way it came and
\* whatever else was going on: a working item is clean unless Update or Import
\* wrote it past the chain, and what the policy sent to another tier, rerouted
\* or not, is clean for that tier.
OnlyCleanAdded ==
    /\ \A id \in Present \ bypassed : items[id] \in Clean["working"]
    /\ \A k \in Others : filed[k] \subseteq Clean[k]

\* A write owes the Observer an event: a reject from the decision on, any other
\* once it is stored.
Owes(w, e) ==
    /\ w # Nil
    /\ w.via = "policy" /\ w.verdict = e[1] /\ w.kind = e[2]
    /\ e[1] # "reject" => w.stored

Owing(e) == {a \in Adders : Owes(write[a], e)}

\* The Observer hears once of every write of the policy that is stored, with the
\* verdict and the kind of the tier that stored it and after its eviction, and of
\* every one that is rejected, with the kind that was asked for: what it has not
\* heard of yet is a call that has not returned.  Writes that a chain, an
\* embedder or a missing tier has stopped are left to EveryDecisionHeard.
HeardOnce == \A e \in Events : balance[e] = Cardinality(Owing(e))

\* The event is emitted for all three verdicts, after every decision of the
\* policy: none is made whose Add returns without the Observer having heard of it.
EveryDecisionHeard == unheard = {}

============================================================================
