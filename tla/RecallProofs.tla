---------------------------- MODULE RecallProofs ----------------------------
(***************************************************************************)
(* The searches over all tiers, for any number of tiers, hits, scopes and  *)
(* limits and any number of concurrent writes.  What each tier found is    *)
(* known to be the best of what it held during the whole call (Answered);  *)
(* the merge and the cut are then lemmas about finite sets.                *)
(***************************************************************************)
EXTENDS Recall, FiniteSetTheorems, TLAPS

----------------------------------------------------------------------------
(* Finite sets.                                                            *)

\* A family of subsets of a finite set has a member with no other member
\* inside it.
LEMMA Smallest ==
    ASSUME NEW U, IsFiniteSet(U), NEW F \in SUBSET (SUBSET U), F # {}
    PROVE  \E T \in F : \A V \in F : V \subseteq T => V = T
<1> DEFINE R == StrictSubsetOrdering(U)
<1>1. IsWellFoundedOn(R, FiniteSubsetsOf(U))
  BY FS_StrictSubsetOrderingWellFounded
<1>2. F \subseteq FiniteSubsetsOf(U)
  <2>1. ASSUME NEW T \in F PROVE IsFiniteSet(T)
    <3>1. T \in SUBSET U
      OBVIOUS
    <3> QED BY <3>1, FS_Subset
  <2> QED BY <2>1 DEF FiniteSubsetsOf
<1>3. \A V, T \in F : V \subseteq T /\ V # T => <<V, T>> \in R
  BY DEF StrictSubsetOrdering
<1> HIDE DEF R
<1>4. PICK T \in F : \A V \in F : ~(<<V, T>> \in R)
  BY <1>1, <1>2, WFMin
<1> QED BY <1>3, <1>4

\* Counting the entries of every kind counts every entry once.
LEMMA CountsOfKinds ==
    ASSUME NEW C, IsFiniteSet(C), \A c \in C : c.kind \in Kinds,
           NEW f \in [Kinds -> Nat],
           \A k \in Kinds : f[k] = Cardinality({c \in C : c.kind = k})
    PROVE  SumFunction(f) = Cardinality(C)
<1> DEFINE Some(s) == CHOOSE x \in s : TRUE
           Solves(g) == g = [s \in SUBSET Kinds |->
                               IF s = {} THEN 0 ELSE f[Some(s)] + g[s \ {Some(s)}]]
           Of(s) == {c \in C : c.kind \in s}
           count == [s \in SUBSET Kinds |-> Cardinality(Of(s))]
           sum == CHOOSE g : Solves(g)
<1>1. ASSUME NEW s PROVE IsFiniteSet(Of(s)) /\ Cardinality(Of(s)) \in Nat
  <2>1. Of(s) \subseteq C
    OBVIOUS
  <2> HIDE DEF Of
  <2> QED BY <2>1, FS_Subset, FS_CardinalityType
<1>2. ASSUME NEW s \in SUBSET Kinds, NEW x \in s
      PROVE  Cardinality(Of(s)) = f[x] + Cardinality(Of(s \ {x}))
  <2> DEFINE One == {c \in C : c.kind = x}
  <2>1. IsFiniteSet(One) /\ Cardinality(One) \in Nat /\ One \subseteq C
    BY FS_Subset, FS_CardinalityType
  <2>2. One \cup Of(s \ {x}) = Of(s) /\ One \cap Of(s \ {x}) = {}
    OBVIOUS
  <2>3. f[x] = Cardinality(One)
    <3>1. x \in Kinds
      OBVIOUS
    <3> QED BY <3>1, Zenon
  <2> HIDE DEF One, Of
  <2>4. Cardinality(One \cup Of(s \ {x})) =
           Cardinality(One) + Cardinality(Of(s \ {x})) - Cardinality({})
    BY <1>1, <2>1, <2>2, FS_Union
  <2>5. Cardinality(Of(s \ {x})) \in Nat /\ Cardinality({}) = 0
    BY <1>1, FS_EmptySet
  <2>6. Cardinality(Of(s)) =
           Cardinality(One) + Cardinality(Of(s \ {x})) - Cardinality({})
    BY <2>2, <2>4, Zenon
  <2> QED BY <2>1, <2>3, <2>5, <2>6
<1>3. Cardinality(Of({})) = 0
  <2>1. Of({}) = {}
    OBVIOUS
  <2> QED BY <2>1, FS_EmptySet
<1>4. \A s : s # {} => Some(s) \in s
  OBVIOUS
<1>5. Of(Kinds) = C
  OBVIOUS
<1> HIDE DEF Of, Some
<1>6. Solves(count)
  <2>1. ASSUME NEW s \in SUBSET Kinds
        PROVE  count[s] = IF s = {} THEN 0 ELSE f[Some(s)] + count[s \ {Some(s)}]
    <3>1. s \ {Some(s)} \in SUBSET Kinds
      OBVIOUS
    <3> QED BY <1>2, <1>3, <1>4, <3>1
  <2> QED BY <2>1
<1>7. Solves(sum)
  <2> HIDE DEF Solves, count
  <2> QED BY <1>6
<1> HIDE DEF sum
<1>8. \A s \in SUBSET Kinds :
         sum[s] = IF s = {} THEN 0 ELSE f[Some(s)] + sum[s \ {Some(s)}]
  BY <1>7
<1>9. \A s \in SUBSET Kinds : sum[s] = Cardinality(Of(s))
  <2> DEFINE Wrong == {s \in SUBSET Kinds : sum[s] # Cardinality(Of(s))}
  <2> SUFFICES ASSUME Wrong # {} PROVE FALSE
    OBVIOUS
  <2>1. IsFiniteSet(Kinds)
    BY KindsAssumption, FS_Interval DEF Kinds
  <2>2. Wrong \in SUBSET (SUBSET Kinds)
    OBVIOUS
  <2> HIDE DEF Wrong
  <2>3. PICK s \in Wrong : \A t \in Wrong : t \subseteq s => t = s
    BY <2>1, <2>2, Smallest
  <2>4. s \in SUBSET Kinds /\ sum[s] # Cardinality(Of(s))
    BY DEF Wrong
  <2>5. s # {}
    BY <1>3, <1>8, <2>4
  <2> DEFINE x == Some(s)
  <2>6. x \in s /\ s \ {x} \in SUBSET Kinds
    BY <1>4, <2>4, <2>5
  <2> HIDE DEF x
  <2>7. sum[s \ {x}] = Cardinality(Of(s \ {x}))
    BY <2>3, <2>6 DEF Wrong
  <2>8. sum[s] = f[x] + sum[s \ {x}]
    BY <1>8, <2>4, <2>5 DEF x
  <2> QED BY <1>2, <2>4, <2>6, <2>7, <2>8
<1>10. SumFunction(f) = sum[Kinds]
  <2>1. DOMAIN f = Kinds
    OBVIOUS
  <2> QED
    BY <2>1, Zenon
    DEF SumFunction, SumFunctionOnSet, FoldFunctionOnSet, MapThenFoldSet, sum,
        Solves, Some
<1> QED BY <1>5, <1>9, <1>10
----------------------------------------------------------------------------
(* The search of a tier, the merge and the cut.                            *)

\* The best of a tier leave out a hit only for as many that score no less.
LEMMA BestKeeps ==
    ASSUME NEW S \in SUBSET Hits, NEW n \in Nat, NEW T \in Best(S, n), NEW h \in S
    PROVE  h \in T \/ Cardinality({x \in T : x.score >= h.score}) >= n
<1> SUFFICES ASSUME h \notin T
             PROVE  Cardinality({x \in T : x.score >= h.score}) >= n
  OBVIOUS
<1>1. /\ T \in SUBSET S /\ Cardinality(T) = Smaller(n, Cardinality(S))
      /\ \A x \in T : x.score >= h.score
  BY DEF Best
<1>2. {x \in T : x.score >= h.score} = T
  BY <1>1
<1>3. IsFiniteSet(S) /\ IsFiniteSet(T)
  BY <1>1, HitAssumption, FS_Subset
<1>4. /\ Cardinality(S) \in Nat /\ Cardinality(T) \in Nat
      /\ Cardinality(T) # Cardinality(S)
  BY <1>1, <1>3, FS_Subset, FS_CardinalityType
<1>5. Cardinality(T) = n
  BY <1>1, <1>4 DEF Smaller
<1> QED BY <1>2, <1>5

\* There are finitely many results.
LEMMA PicksFinite == IsFiniteSet(Picks)
<1>1. IsFiniteSet(Hits \X Kinds)
  <2>1. IsFiniteSet(Kinds)
    BY KindsAssumption, FS_Interval DEF Kinds
  <2> QED BY <2>1, HitAssumption, FS_Product
<1> DEFINE pick == [p \in Hits \X Kinds |-> Pick(p[1], p[2])]
<1>2. pick \in Surjection(Hits \X Kinds, Picks)
  <2>1. pick \in [Hits \X Kinds -> Picks]
    BY DEF Picks
  <2>2. ASSUME NEW r \in Picks PROVE \E p \in Hits \X Kinds : pick[p] = r
    <3>1. PICK h \in Hits, k \in Kinds : r = Pick(h, k)
      BY DEF Picks
    <3>2. <<h, k>> \in Hits \X Kinds /\ pick[<<h, k>>] = Pick(h, k)
      OBVIOUS
    <3> QED BY <3>1, <3>2
  <2> HIDE DEF pick
  <2> QED BY <2>1, <2>2 DEF Surjection
<1> HIDE DEF pick
<1> QED BY <1>1, <1>2, FS_Surjection

\* What a tier found.
Founds == found \in [Kinds -> Tiers]

\* A candidate is what some tier found, with its score.
LEMMA CandidateFacts ==
    ASSUME Founds
    PROVE  /\ Candidates \subseteq Picks /\ IsFiniteSet(Candidates)
           /\ \A c \in Candidates : /\ c.score \in Nat /\ c.kind \in Kinds
                                    /\ \E h \in found[c.kind] : c = Pick(h, c.kind)
           /\ \A k \in Kinds : \A h \in found[k] : Pick(h, k) \in Candidates
           /\ \A k \in Kinds : found[k] \subseteq Hits /\ IsFiniteSet(found[k])
<1>1. \A k \in Kinds : found[k] \subseteq Hits
  BY DEF Founds, Tiers
<1>2. ASSUME NEW c \in Candidates
      PROVE  \E k \in Kinds : \E h \in found[k] : c = Pick(h, k)
  BY DEF Candidates
<1>3. ASSUME NEW c \in Candidates
      PROVE  /\ c \in Picks /\ c.score \in Nat /\ c.kind \in Kinds
             /\ \E h \in found[c.kind] : c = Pick(h, c.kind)
  <2>1. PICK k \in Kinds : \E h \in found[k] : c = Pick(h, k)
    BY <1>2
  <2>2. PICK h \in found[k] : c = Pick(h, k)
    BY <2>1
  <2>3. h \in Hits
    BY <1>1
  <2>4. c.kind = k /\ c.score = h.score
    BY <2>2 DEF Pick
  <2>5. h.score \in Nat
    BY <2>3, HitAssumption
  <2>6. c \in Picks
    BY <2>2, <2>3 DEF Picks
  <2> QED BY <2>2, <2>4, <2>5, <2>6
<1>4. Candidates \subseteq Picks
  BY <1>3
<1>5. IsFiniteSet(Candidates)
  BY <1>4, PicksFinite, FS_Subset
<1>6. \A k \in Kinds : \A h \in found[k] : Pick(h, k) \in Candidates
  BY DEF Candidates
<1>7. ASSUME NEW k \in Kinds PROVE IsFiniteSet(found[k])
  <2>1. found[k] \in SUBSET Hits
    BY <1>1
  <2> QED BY <2>1, HitAssumption, FS_Subset
<1> QED BY <1>1, <1>3, <1>4, <1>5, <1>6, <1>7

\* The merge keeps, of the candidates with one key, one that scores no less.
LEMMA MergedHasBest ==
    ASSUME Founds, NEW c \in Candidates
    PROVE  \E m \in Merged : Key(m) = Key(c) /\ m.score >= c.score
<1> DEFINE Same == {d \in Candidates : Key(d) = Key(c)}
           Better(d, e) == \/ d.score > e.score
                           \/ d.score = e.score /\ d.kind < e.kind
           Above(d) == {e \in Same : Better(e, d)}
           family == {Above(d) : d \in Same}
<1>1. IsFiniteSet(Candidates)
  BY CandidateFacts
<1>2. family \in SUBSET (SUBSET Candidates) /\ family # {}
  OBVIOUS
<1>3. PICK A \in family : \A B \in family : B \subseteq A => B = A
  <2> HIDE DEF family
  <2> QED BY <1>1, <1>2, Smallest
<1>4. PICK m \in Same : A = Above(m)
  OBVIOUS
<1>5. \A d \in Same : d \in Candidates /\ d.score \in Nat /\ d.kind \in Nat
  <2>1. \A d \in Candidates : d.score \in Nat /\ d.kind \in Kinds
    BY CandidateFacts
  <2>2. Kinds \subseteq Nat
    BY DEF Kinds
  <2> QED BY <2>1, <2>2
<1>6. c \in Same /\ \A d \in Same : Key(d) = Key(c)
  OBVIOUS
<1>7. ASSUME NEW e \in Same, Better(e, m) PROVE FALSE
  <2>1. /\ e.score \in Nat /\ e.kind \in Nat
        /\ m.score \in Nat /\ m.kind \in Nat
    BY <1>5
  <2>2. ASSUME NEW x \in Same, Better(x, e) PROVE Better(x, m)
    <3>1. x.score \in Nat /\ x.kind \in Nat
      BY <1>5
    <3> HIDE DEF Same
    <3> QED BY <1>7, <2>1, <2>2, <3>1
  <2>3. ~Better(e, e)
    BY <2>1
  <2> HIDE DEF Better, Same
  <2>4. Above(e) \subseteq Above(m)
    BY <2>2
  <2>5. e \in Above(m) /\ e \notin Above(e)
    BY <1>7, <2>3
  <2>6. Above(e) \in family
    OBVIOUS
  <2> HIDE DEF Above, family
  <2> QED BY <1>3, <1>4, <2>4, <2>5, <2>6
<1>8. \A e \in Same : \/ m.score > e.score
                      \/ m.score = e.score /\ m.kind <= e.kind
  <2> SUFFICES ASSUME NEW e \in Same
               PROVE  \/ m.score > e.score
                      \/ m.score = e.score /\ m.kind <= e.kind
    OBVIOUS
  <2>1. ~(e.score > m.score) /\ ~(e.score = m.score /\ e.kind < m.kind)
    BY <1>7
  <2>2. /\ e.score \in Nat /\ e.kind \in Nat
        /\ m.score \in Nat /\ m.kind \in Nat
    BY <1>5
  <2> QED BY <2>1, <2>2
<1>9. m \in Merged
  BY <1>6, <1>8 DEF Merged
<1>10. m.score >= c.score
  <2>1. m.score \in Nat /\ c.score \in Nat
    BY <1>5, <1>6
  <2>2. m.score > c.score \/ m.score = c.score
    BY <1>6, <1>8
  <2> QED BY <2>1, <2>2
<1> QED BY <1>6, <1>9, <1>10

\* As many results of the merge score s or more as any one tier found.
LEMMA MergedEnough ==
    ASSUME Founds, NEW k \in Kinds, NEW s \in Nat
    PROVE  Cardinality({x \in found[k] : x.score >= s})
             <= Cardinality({m \in Merged : m.score >= s})
<1> DEFINE F == {x \in found[k] : x.score >= s}
           M == {m \in Merged : m.score >= s}
           Rep(x) == CHOOSE m \in Merged : Key(m) = Key(Pick(x, k)) /\ m.score >= x.score
           rep == [x \in F |-> Rep(x)]
<1>1. IsFiniteSet(M)
  <2>1. M \subseteq Candidates
    BY DEF Merged
  <2> HIDE DEF M
  <2> QED BY <2>1, CandidateFacts, FS_Subset
<1>2. ASSUME NEW x \in F
      PROVE  /\ Rep(x) \in M
             /\ Key(Rep(x)) = Key(Pick(x, k))
  <2>1. Pick(x, k) \in Candidates /\ Pick(x, k).score = x.score
    BY CandidateFacts DEF Pick
  <2>2. \E m \in Merged : Key(m) = Key(Pick(x, k)) /\ m.score >= x.score
    BY <2>1, MergedHasBest
  <2>3. Rep(x) \in Merged /\ Key(Rep(x)) = Key(Pick(x, k)) /\ Rep(x).score >= x.score
    BY <2>2
  <2>4. Rep(x).score \in Nat
    BY <2>3, CandidateFacts DEF Merged
  <2>5. x.score \in Nat /\ x.score >= s
    BY CandidateFacts, HitAssumption
  <2> HIDE DEF Rep
  <2>6. Rep(x).score >= s
    BY <2>3, <2>4, <2>5
  <2> QED BY <2>3, <2>6
<1>3. ASSUME NEW x \in F, NEW y \in F, Rep(x) = Rep(y) PROVE x = y
  <2>1. Key(Pick(x, k)) = Key(Pick(y, k))
    BY <1>2, <1>3
  <2>2. x.item.id = y.item.id
    BY <2>1 DEF Key, Pick
  <2> QED BY <2>2 DEF Founds, Tiers
<1> HIDE DEF F, M, Rep
<1>4. rep \in Injection(F, M)
  BY <1>2, <1>3 DEF Injection, IsInjective
<1> HIDE DEF rep
<1>5. Cardinality(F) <= Cardinality(M)
  BY <1>1, <1>4, FS_Injection
<1> QED BY <1>5 DEF F, M

\* When a cut leaves out a result, what it keeps is as much as was asked for
\* and scores no less.
LEMMA CutKeeps ==
    ASSUME Founds, NEW n \in Nat, NEW T \in Cuts(Merged, n), NEW m \in Merged, m \notin T
    PROVE  /\ Cardinality(T) = n /\ n < Cardinality(Merged)
           /\ \A r \in T : r.score >= m.score
<1>1. /\ T \in SUBSET Merged /\ Cardinality(T) = Smaller(n, Cardinality(Merged))
      /\ \A r \in T : ~Precedes(m, r)
  BY DEF Cuts
<1>2. Merged \subseteq Candidates
  BY DEF Merged
<1>3. IsFiniteSet(Merged) /\ IsFiniteSet(T)
  BY <1>1, <1>2, CandidateFacts, FS_Subset
<1>4. /\ Cardinality(Merged) \in Nat /\ Cardinality(T) \in Nat
      /\ Cardinality(T) # Cardinality(Merged)
  BY <1>1, <1>3, FS_Subset, FS_CardinalityType
<1>5. Cardinality(T) = n /\ n < Cardinality(Merged)
  BY <1>1, <1>4 DEF Smaller
<1>6. ASSUME NEW r \in T PROVE r.score >= m.score
  <2>1. r.score \in Nat /\ m.score \in Nat
    BY <1>1, <1>2, CandidateFacts
  <2>2. ~(m.score > r.score)
    BY <1>1 DEF Precedes
  <2> QED BY <2>1, <2>2
<1> QED BY <1>5, <1>6
----------------------------------------------------------------------------
(* The invariant.                                                          *)

\* How far the goroutines are when the call is.
Shape ==
    /\ pc = "idle" => call = "none" /\ broken = {} /\ \A k \in Kinds : go[k] = "none"
    /\ pc # "idle" => call # "none"
    /\ pc \in {"idle", "wait"} => out = {}
    /\ pc = "done" => AllDone /\ broken = {}
    /\ pc = "failed" /\ Parallel => AllDone
    /\ Serial => \A k \in Kinds : go[k] # "send"
    /\ Serial /\ pc = "wait" => broken = {}
    /\ call # "scoped" => scope = Zero
    /\ \A k \in Kinds : go[k] = "none" => stable[k] = {}

\* Nothing that is disabled has been found.
NoneDisabled == \A k \in Kinds : \A h \in found[k] : ~h.item.off

\* What stayed is still there.
Held == \A k \in Kinds : stable[k] \subseteq tier[k]

\* A tier that has answered found what it held during the whole call, or as
\* many that score no less as it was asked for.
Answered ==
    \A k \in Kinds : go[k] \in {"send", "done"} /\ k \notin broken =>
        \A h \in Wanted(k) :
            \/ h \in found[k]
            \/ Cardinality({x \in found[k] : x.score >= h.score}) >= TierTop(k)

\* The inductive invariant.
Inv == TypeOK /\ Shape /\ Founds /\ NoneDisabled /\ Held /\ Answered

LEMMA InitInv == Init => Inv
<1> SUFFICES ASSUME Init PROVE Inv
  OBVIOUS
<1>1. {} \in Tiers
  BY DEF Tiers
<1>2. TypeOK
  <2>1. wired \subseteq Kinds /\ tier \in [Kinds -> Tiers] /\ edits \in 0..MaxEdits
    BY FlagAssumption DEF Init
  <2>2. /\ pc \in {"idle", "wait", "done", "failed"}
        /\ call \in Calls /\ scope \in Scopes /\ tags \in QueryTags
    BY ScopesAssumption, TagAssumption DEF Init, Calls
  <2>3. /\ lim \in [Kinds -> Nat] /\ top \in Nat
        /\ considered \in [Kinds -> Nat] /\ returned \in [Kinds -> Nat]
        /\ dropped \in Nat
    BY DEF Init, Zeros
  <2>4. /\ go \in [Kinds -> {"none", "search", "send", "done"}]
        /\ found \in [Kinds -> SUBSET Hits] /\ stable \in [Kinds -> SUBSET Hits]
        /\ broken \subseteq Kinds /\ ch \subseteq Kinds /\ out \subseteq Picks
    BY DEF Init, Nobody
  <2> QED BY <2>1, <2>2, <2>3, <2>4 DEF TypeOK
<1>3. Shape
  BY DEF Init, Shape, Serial, Parallel, Merging, Nobody
<1>4. Founds /\ NoneDisabled /\ Held /\ Answered
  BY <1>1 DEF Init, Founds, NoneDisabled, Held, Answered, Nobody
<1> QED BY <1>2, <1>3, <1>4 DEF Inv

\* A call begins.
LEMMA BeginKeeps ==
    ASSUME Inv, NEW c \in Calls \ {"none"}, NEW S, NEW n \in Nat,
           NEW limits \in [Kinds -> Nat], Begin(c, S, n, limits),
           tags' \in QueryTags, scope' \in Scopes, c # "scoped" => scope' = Zero
    PROVE  Inv'
<1>1. /\ pc = "idle" /\ pc' = "wait" /\ call' = c /\ top' = n
      /\ lim' = [k \in Kinds |-> IF k \in S THEN limits[k] ELSE 0]
      /\ go' = [k \in Kinds |-> IF k \in S THEN "search" ELSE "none"]
      /\ stable' = [k \in Kinds |-> IF k \in S THEN tier[k] ELSE {}]
      /\ UNCHANGED <<wired, tier, edits, found, broken, ch, out, considered,
                     returned, dropped>>
  BY DEF Begin, resultVars
<1>2. TypeOK'
  <2>1. stable' \in [Kinds -> SUBSET Hits]
    <3>1. \A k \in Kinds : tier[k] \in SUBSET Hits
      BY DEF Inv, TypeOK, Tiers
    <3> QED BY <1>1, <3>1
  <2>2. lim' \in [Kinds -> Nat] /\ top' \in Nat
    BY <1>1
  <2>3. go' \in [Kinds -> {"none", "search", "send", "done"}]
    BY <1>1
  <2> QED BY <1>1, <2>1, <2>2, <2>3 DEF Inv, TypeOK
<1>3. Shape'
  BY <1>1 DEF Inv, Shape, Serial, Parallel, Merging, AllDone
<1>4. Founds' /\ NoneDisabled' /\ Held'
  BY <1>1 DEF Inv, Founds, NoneDisabled, Held
<1>5. Answered'
  BY <1>1 DEF Answered
<1> QED BY <1>2, <1>3, <1>4, <1>5 DEF Inv

\* A step that leaves the answers alone, and lets at most less have stayed.
LEMMA AnswersStay ==
    ASSUME Inv, UNCHANGED <<found, tags, lim>>,
           \A k \in Kinds : stable'[k] \subseteq stable[k],
           \A k \in Kinds : go'[k] \in {"send", "done"} /\ k \notin broken' =>
                             go[k] \in {"send", "done"} /\ k \notin broken
    PROVE  Founds' /\ NoneDisabled' /\ Answered'
<1>1. Founds' /\ NoneDisabled'
  BY DEF Inv, Founds, NoneDisabled
<1>2. \A k \in Kinds : TierTop(k)' = TierTop(k)
  BY DEF TierTop
<1>3. \A k \in Kinds : Wanted(k)' \subseteq Wanted(k)
  BY DEF Wanted, TagsMatch
<1> QED BY <1>1, <1>2, <1>3 DEF Inv, Answered

\* A tier is searched.
LEMMA TierSearchKeeps ==
    ASSUME Inv, NEW k \in Kinds, TierSearch(k),
           UNCHANGED <<tier, stable, tags, lim, broken>>,
           NEW v, go' = [go EXCEPT ![k] = v]
    PROVE  /\ found' \in [Kinds -> SUBSET Hits]
           /\ Founds' /\ NoneDisabled' /\ Answered'
<1>1. PICK T \in Best(Offered(k), TierTop(k)) : found' = [found EXCEPT ![k] = T]
  BY DEF TierSearch
<1>2. tier[k] \in Tiers /\ found \in [Kinds -> Tiers]
  BY DEF Inv, TypeOK, Founds
<1>3. /\ Offered(k) \in SUBSET Hits /\ Offered(k) \subseteq tier[k]
      /\ T \subseteq Offered(k)
  BY <1>2 DEF Offered, Tiers, Best
<1>4. T \in Tiers
  BY <1>2, <1>3 DEF Tiers
<1>5. Founds'
  BY <1>1, <1>2, <1>4 DEF Founds
<1>6. found' \in [Kinds -> SUBSET Hits]
  <2>1. Tiers \subseteq SUBSET Hits
    BY DEF Tiers
  <2> QED BY <1>5, <2>1 DEF Founds
<1>7. /\ found'[k] = T /\ \A j \in Kinds : j # k => found'[j] = found[j]
      /\ \A j \in Kinds : j # k => go'[j] = go[j]
  BY <1>1, <1>2 DEF Inv, TypeOK
<1>8. NoneDisabled'
  <2>1. \A h \in T : ~h.item.off
    BY <1>3 DEF Offered
  <2> QED BY <1>7, <2>1 DEF Inv, NoneDisabled
<1>9. \A j \in Kinds : TierTop(j)' = TierTop(j) /\ Wanted(j)' = Wanted(j)
  BY DEF TierTop, Wanted, TagsMatch
<1>10. ASSUME NEW h \in Wanted(k)
       PROVE  h \in T \/ Cardinality({x \in T : x.score >= h.score}) >= TierTop(k)
  <2>1. h \in Offered(k)
    BY DEF Wanted, Offered, Inv, Held
  <2>2. TierTop(k) \in Nat
    BY TopKAssumption DEF TierTop, Inv, TypeOK
  <2> QED BY <1>3, <2>1, <2>2, BestKeeps
<1>11. Answered'
  <2> SUFFICES ASSUME NEW j \in Kinds, go'[j] \in {"send", "done"}, j \notin broken,
                      NEW h \in Wanted(j)
               PROVE  \/ h \in found'[j]
                      \/ Cardinality({x \in found'[j] : x.score >= h.score}) >= TierTop(j)
    BY <1>9 DEF Answered
  <2>1. CASE j = k
    BY <1>7, <1>10, <2>1
  <2>2. CASE j # k
    BY <1>7, <2>2 DEF Inv, Answered
  <2> QED BY <2>1, <2>2
<1> QED BY <1>5, <1>6, <1>8, <1>11

\* A write to a tier while the call has still a tier to search.
LEMMA EditKeeps ==
    ASSUME Inv, NEW k \in Kinds, NEW h \in Hits, Put(k, h) \/ Drop(k, h)
    PROVE  Inv'
<1>1. /\ pc = "wait"
      /\ UNCHANGED <<wired, pc, call, scope, tags, lim, top, go, found, broken, ch,
                     out, considered, returned, dropped>>
  BY DEF Put, Drop, Unsearched, callVars, fanVars, resultVars
<1>2. edits' \in 0..MaxEdits
  BY FlagAssumption DEF Put, Drop, Inv, TypeOK
<1>3. /\ tier' \in [Kinds -> Tiers]
      /\ \A j \in Kinds : stable'[j] \subseteq stable[j] /\ stable'[j] \subseteq tier'[j]
      /\ stable' \in [Kinds -> SUBSET Hits]
  <2>0. /\ tier \in [Kinds -> Tiers] /\ stable \in [Kinds -> SUBSET Hits]
        /\ \A j \in Kinds : stable[j] \subseteq tier[j]
    BY DEF Inv, TypeOK, Held
  <2>1. CASE Put(k, h)
    <3> DEFINE new == {x \in tier[k] : x.item.id # h.item.id} \cup {h}
    <3>1. new \in Tiers
      BY <2>0 DEF Tiers
    <3>2. tier' = [tier EXCEPT ![k] = new]
      BY <2>1 DEF Put
    <3> HIDE DEF new
    <3>3. tier' \in [Kinds -> Tiers] /\ \A j \in Kinds : j # k => tier'[j] = tier[j]
      BY <2>0, <3>1, <3>2
    <3>4. stable' = [stable EXCEPT ![k] = @ \cap tier'[k]]
      BY <2>1 DEF Put
    <3> QED BY <2>0, <3>3, <3>4
  <2>2. CASE Drop(k, h)
    <3>1. tier[k] \ {h} \in Tiers
      BY <2>0 DEF Tiers
    <3>2. /\ tier' = [tier EXCEPT ![k] = @ \ {h}]
          /\ stable' = [stable EXCEPT ![k] = @ \ {h}]
      BY <2>2 DEF Drop
    <3>3. tier' \in [Kinds -> Tiers]
      BY <2>0, <3>1, <3>2
    <3> QED BY <2>0, <3>2, <3>3
  <2> QED BY <2>1, <2>2
<1>4. TypeOK'
  BY <1>1, <1>2, <1>3 DEF Inv, TypeOK
<1>5. Shape'
  BY <1>1, <1>3 DEF Inv, Shape, Serial, Parallel, Merging, AllDone
<1>6. Founds' /\ NoneDisabled' /\ Answered'
  BY <1>1, <1>3, AnswersStay
<1> QED BY <1>3, <1>4, <1>5, <1>6 DEF Inv, Held

\* What the merge returns and counts.
LEMMA CollectTypes ==
    ASSUME Inv, Collect
    PROVE  /\ out' \subseteq Picks /\ dropped' \in Nat
           /\ considered' \in [Kinds -> Nat] /\ returned' \in [Kinds -> Nat]
<1>1. Founds
  BY DEF Inv
<1>2. PICK n : /\ n = (IF top = 0 THEN Cardinality(Merged) ELSE top)
               /\ out' \in Cuts(Merged, n)
               /\ call = "recall" => dropped' = Dropped(n)
               /\ call # "recall" => UNCHANGED <<considered, returned, dropped>>
  BY DEF Collect
<1>3. /\ Merged \subseteq Candidates /\ Candidates \subseteq Picks
      /\ IsFiniteSet(Candidates)
  BY <1>1, CandidateFacts DEF Merged
<1>4. /\ Cardinality(Merged) \in Nat /\ Cardinality(Candidates) \in Nat
      /\ Cardinality(Merged) <= Cardinality(Candidates)
  BY <1>3, FS_Subset, FS_CardinalityType
<1>5. n \in Nat
  BY <1>2, <1>4 DEF Inv, TypeOK
<1>6. out' \subseteq Picks
  BY <1>2, <1>3 DEF Cuts
<1>7. dropped' \in Nat
  BY <1>2, <1>4, <1>5 DEF Dropped, Inv, TypeOK
<1>8. ASSUME NEW k \in Kinds PROVE Cardinality(found[k]) \in Nat
  BY <1>1, CandidateFacts, FS_CardinalityType
<1>9. ASSUME NEW k \in Kinds PROVE Cardinality({r \in out' : r.kind = k}) \in Nat
  <2>1. {r \in out' : r.kind = k} \in SUBSET Picks
    BY <1>6
  <2> QED BY <2>1, PicksFinite, FS_Subset, FS_CardinalityType
<1>10. call = "recall" => considered' = [k \in Kinds |-> Cardinality(found[k])]
  BY DEF Collect
<1>11. call = "recall" => returned' = [k \in Kinds |-> Cardinality({r \in out' : r.kind = k})]
  BY DEF Collect
<1>12. considered' \in [Kinds -> Nat]
  BY <1>2, <1>8, <1>10 DEF Inv, TypeOK
<1>13. returned' \in [Kinds -> Nat]
  BY <1>2, <1>9, <1>11 DEF Inv, TypeOK
<1> QED BY <1>6, <1>7, <1>12, <1>13

\* The caller's last step: the answers stay as they are.
LEMMA EndKeeps ==
    ASSUME Inv, pc = "wait", pc' \in {"done", "failed"},
           UNCHANGED <<wired, tier, edits, stable, call, scope, tags, lim, top, go,
                       found, ch>>,
           broken' \subseteq Kinds, broken \subseteq broken',
           pc' = "done" => AllDone /\ broken' = {},
           pc' = "failed" /\ Parallel => AllDone,
           out' \subseteq Picks, dropped' \in Nat,
           considered' \in [Kinds -> Nat], returned' \in [Kinds -> Nat]
    PROVE  Inv'
<1>1. TypeOK'
  BY DEF Inv, TypeOK
<1>2. Shape'
  BY DEF Inv, Shape, Serial, Parallel, Merging, AllDone
<1>3. Founds' /\ NoneDisabled' /\ Answered'
  BY AnswersStay
<1> QED BY <1>1, <1>2, <1>3 DEF Inv, Held

\* Every step keeps the invariant.
LEMMA StepInv == Inv /\ [Next]_vars => Inv'
<1> SUFFICES ASSUME Inv, [Next]_vars PROVE Inv'
  OBVIOUS
<1> USE DEF tierVars, callVars, fanVars, resultVars
<1>0. TypeOK /\ Shape /\ Founds
  BY DEF Inv
<1>1. ASSUME NEW n \in TopKs, NEW mask \in SUBSET Kinds,
             NEW budgets \in [Kinds -> Budgets], Recall(n, mask, budgets)
      PROVE  Inv'
  <2> DEFINE k0 == IF n = 0 THEN RecallDefault ELSE n
             limits == [k \in Kinds |-> IF budgets[k] > 0 THEN budgets[k] ELSE k0]
  <2>1. k0 \in Nat /\ limits \in [Kinds -> Nat]
    BY TopKAssumption
  <2>2. /\ Begin("recall", Participating(mask), k0, limits)
        /\ tags' \in QueryTags /\ scope' = Zero
    BY <1>1 DEF Recall
  <2>3. "recall" \in Calls \ {"none"}
    BY DEF Calls
  <2> HIDE DEF k0, limits
  <2> QED BY <2>1, <2>2, <2>3, BeginKeeps, ScopesAssumption
<1>2. ASSUME NEW n \in TopKs, SearchUnified(n) \/ SearchAllParallel(n) \/ SearchAll(n)
      PROVE  Inv'
  <2>1. n \in Nat /\ [k \in Kinds |-> n] \in [Kinds -> Nat] /\ Zero \in Scopes
    BY TopKAssumption, ScopesAssumption
  <2>2. PICK c \in {"unified", "parallel", "serial"}, S \in SUBSET Kinds :
           Begin(c, S, n, [k \in Kinds |-> n])
    BY <1>0, <1>2 DEF SearchUnified, SearchAllParallel, SearchAll, TypeOK
  <2>3. tags' \in QueryTags /\ scope' = Zero
    BY <1>2 DEF SearchUnified, SearchAllParallel, SearchAll
  <2>4. c \in Calls \ {"none"}
    BY DEF Calls
  <2> QED BY <2>1, <2>2, <2>3, <2>4, BeginKeeps
<1>3. ASSUME NEW S \in SUBSET Kinds, NEW n \in TopKs, NEW s \in Scopes,
             ScopedSearch(S, n, s)
      PROVE  Inv'
  <2>1. n \in Nat /\ [k \in Kinds |-> n] \in [Kinds -> Nat]
    BY TopKAssumption
  <2>2. /\ Begin("scoped", S, n, [k \in Kinds |-> n])
        /\ tags' \in QueryTags /\ scope' \in Scopes
    BY <1>3 DEF ScopedSearch
  <2>3. "scoped" \in Calls \ {"none"}
    BY DEF Calls
  <2> QED BY <2>1, <2>2, <2>3, BeginKeeps
<1>4. ASSUME NEW k \in Kinds, Search(k) \/ SearchNext(k) PROVE Inv'
  <2>1. /\ TierSearch(k) /\ go[k] = "search"
        /\ UNCHANGED <<wired, tier, edits, stable, pc, call, scope, tags, lim, top,
                       broken, ch, out, considered, returned, dropped>>
    BY <1>4 DEF Search, SearchNext, TierSearch
  <2>2. PICK v \in {"send", "done"} :
           go' = [go EXCEPT ![k] = v] /\ (Serial => v # "send")
    BY <1>4 DEF Search, SearchNext, Turn, Serial, Parallel, Merging
  <2>3. /\ found' \in [Kinds -> SUBSET Hits]
        /\ Founds' /\ NoneDisabled' /\ Answered'
    BY <2>1, <2>2, TierSearchKeeps
  <2>4. go' \in [Kinds -> {"none", "search", "send", "done"}]
    BY <1>0, <2>2 DEF TypeOK
  <2>5. TypeOK'
    BY <1>0, <2>1, <2>3, <2>4 DEF TypeOK
  <2>6. pc = "wait"
    <3>1. pc # "idle" /\ pc # "done"
      BY <1>0, <2>1 DEF Shape, AllDone
    <3>2. ~(pc = "failed")
      BY <1>0, <1>4, <2>1 DEF Shape, AllDone, Search, SearchNext
    <3> QED BY <1>0, <3>1, <3>2 DEF TypeOK
  <2>7. Shape'
    BY <1>0, <2>1, <2>2, <2>4, <2>6 DEF Shape, Serial, Parallel, Merging, TypeOK
  <2> QED BY <2>1, <2>3, <2>5, <2>7 DEF Inv, Held
<1>5. ASSUME NEW k \in Kinds, SearchError(k) PROVE Inv'
  <2>1. /\ go[k] = "search" /\ go' = [go EXCEPT ![k] = "send"] /\ Parallel
        /\ broken' = broken \cup {k}
        /\ UNCHANGED <<wired, tier, edits, stable, pc, call, scope, tags, lim, top,
                       found, ch, out, considered, returned, dropped>>
    BY <1>5 DEF SearchError
  <2>2. /\ go' \in [Kinds -> {"none", "search", "send", "done"}]
        /\ broken' \subseteq Kinds
        /\ \A j \in Kinds : j # k => go'[j] = go[j]
    BY <1>0, <2>1 DEF TypeOK
  <2>3. TypeOK'
    BY <1>0, <2>1, <2>2 DEF TypeOK
  <2>4. pc = "wait" /\ ~Serial
    BY <1>0, <2>1 DEF Shape, AllDone, TypeOK, Serial, Parallel, Merging
  <2>5. Shape'
    BY <1>0, <2>1, <2>2, <2>4 DEF Shape, Serial, Parallel, Merging, TypeOK
  <2>6. Founds' /\ NoneDisabled' /\ Answered'
    BY <2>1, <2>2, AnswersStay
  <2> QED BY <2>1, <2>3, <2>5, <2>6 DEF Inv, Held
<1>6. ASSUME NEW k \in Kinds, Send(k) PROVE Inv'
  <2>1. /\ go[k] = "send" /\ go' = [go EXCEPT ![k] = "done"] /\ ch' = ch \cup {k}
        /\ UNCHANGED <<wired, tier, edits, stable, pc, call, scope, tags, lim, top,
                       found, broken, out, considered, returned, dropped>>
    BY <1>6 DEF Send
  <2>2. /\ go' \in [Kinds -> {"none", "search", "send", "done"}]
        /\ ch' \subseteq Kinds
        /\ \A j \in Kinds : j # k => go'[j] = go[j]
    BY <1>0, <2>1 DEF TypeOK
  <2>3. TypeOK'
    BY <1>0, <2>1, <2>2 DEF TypeOK
  <2>4. pc = "wait"
    BY <1>0, <2>1 DEF Shape, AllDone, TypeOK, Serial, Parallel, Merging, Calls
  <2>5. Shape'
    BY <1>0, <2>1, <2>2, <2>4 DEF Shape, Serial, Parallel, Merging, TypeOK
  <2>6. Founds' /\ NoneDisabled' /\ Answered'
    BY <2>1, <2>2, AnswersStay
  <2> QED BY <2>1, <2>3, <2>5, <2>6 DEF Inv, Held
<1>7. CASE Fail
  BY <1>0, <1>7, EndKeeps DEF Fail, TypeOK, Shape
<1>8. CASE Collect
  <2>1. /\ out' \subseteq Picks /\ dropped' \in Nat
        /\ considered' \in [Kinds -> Nat] /\ returned' \in [Kinds -> Nat]
    BY <1>8, CollectTypes
  <2> QED BY <1>0, <1>8, <2>1, EndKeeps DEF Collect, TypeOK
<1>9. CASE CollectByKind
  <2>1. out' \subseteq Picks
    BY <1>0, <1>9, CandidateFacts DEF CollectByKind
  <2> QED BY <1>0, <1>9, <2>1, EndKeeps DEF CollectByKind, TypeOK
<1>10. ASSUME NEW k \in Kinds, SearchNextFails(k) PROVE Inv'
  <2>1. out' \subseteq Picks
    BY <1>0, <1>10, CandidateFacts DEF SearchNextFails
  <2>2. pc = "wait" /\ Serial /\ ~Parallel
    BY <1>10 DEF SearchNextFails, Turn, Serial, Parallel, Merging
  <2>3. broken = {}
    BY <1>0, <2>2 DEF Shape
  <2> QED BY <1>0, <1>10, <2>1, <2>2, <2>3, EndKeeps DEF SearchNextFails, TypeOK
<1>11. CASE SearchAllReturns
  <2>1. out' \subseteq Picks
    BY <1>0, <1>11, CandidateFacts DEF SearchAllReturns, FilterByScope
  <2>2. broken = {}
    BY <1>0, <1>11 DEF SearchAllReturns, Shape
  <2> QED BY <1>0, <1>11, <2>1, <2>2, EndKeeps DEF SearchAllReturns, TypeOK
<1>12. ASSUME NEW k \in Kinds, NEW h \in Hits, Put(k, h) \/ Drop(k, h) PROVE Inv'
  BY <1>12, EditKeeps
<1>13. CASE UNCHANGED vars
  <2>1. TypeOK' /\ Shape' /\ Held'
    BY <1>0, <1>13 DEF vars, TypeOK, Shape, Inv, Held, Serial, Parallel, Merging, AllDone
  <2>2. Founds' /\ NoneDisabled' /\ Answered'
    BY <1>13, AnswersStay DEF vars
  <2> QED BY <2>1, <2>2 DEF Inv
<1> QED
  BY <1>1, <1>2, <1>3, <1>4, <1>5, <1>6, <1>7, <1>8, <1>9, <1>10, <1>11, <1>12,
     <1>13
  DEF Next

\* The types of the tiers, the goroutines and the results, whatever writers do
\* between the searches of the tiers.
THEOREM RecallTypes == Spec => []TypeOK
<1>1. Inv => TypeOK
  BY DEF Inv
<1> QED BY InitInv, StepInv, <1>1, PTL DEF Spec

----------------------------------------------------------------------------
(* The results.                                                            *)

\* A call that has ended does nothing more, and it ends by one of these steps.
LEMMA EndsBy ==
    ASSUME Inv, [Next]_vars, pc' \in {"done", "failed"}
    PROVE  \/ UNCHANGED vars
           \/ Fail \/ Collect \/ CollectByKind \/ SearchAllReturns
           \/ \E k \in Kinds : SearchNextFails(k)
<1> USE DEF tierVars, callVars, fanVars, resultVars
<1>0. TypeOK /\ Shape
  BY DEF Inv
<1>1. ASSUME NEW k \in Kinds, Search(k) \/ SearchError(k) \/ Send(k) PROVE FALSE
  <2>1. pc' = pc /\ go[k] \in {"search", "send"}
    BY <1>1 DEF Search, SearchError, Send, TierSearch
  <2>2. pc = "failed" /\ ~AllDone
    BY <1>0, <2>1 DEF Shape, AllDone
  <2>3. Serial /\ ~Parallel
    BY <1>0, <2>2 DEF Shape, TypeOK, Calls, Serial, Parallel, Merging
  <2>4. go[k] = "search"
    BY <1>0, <2>1, <2>3 DEF Shape
  <2> QED BY <1>1, <2>3, <2>4 DEF Search, SearchError, Send
<1>2. ASSUME NEW k \in Kinds, SearchNext(k) PROVE FALSE
  BY <1>2 DEF SearchNext
<1>3. ASSUME NEW k \in Kinds, NEW h \in Hits, Put(k, h) \/ Drop(k, h) PROVE FALSE
  BY <1>3 DEF Put, Drop, Unsearched
<1>4. ASSUME NEW c, NEW S, NEW n, NEW limits, Begin(c, S, n, limits) PROVE FALSE
  BY <1>4 DEF Begin
<1>5. ASSUME NEW n \in TopKs, SearchUnified(n) \/ SearchAllParallel(n) \/ SearchAll(n)
      PROVE  FALSE
  BY <1>4, <1>5 DEF SearchUnified, SearchAllParallel, SearchAll
<1>6. ASSUME NEW n \in TopKs, NEW mask \in SUBSET Kinds,
             NEW budgets \in [Kinds -> Budgets], Recall(n, mask, budgets)
      PROVE  FALSE
  BY <1>4, <1>6 DEF Recall
<1>7. ASSUME NEW S \in SUBSET Kinds, NEW n \in TopKs, NEW s \in Scopes,
             ScopedSearch(S, n, s)
      PROVE  FALSE
  BY <1>4, <1>7 DEF ScopedSearch
<1> QED BY <1>1, <1>2, <1>3, <1>5, <1>6, <1>7 DEF Next

\* What is found is visible to a caller without a scope, and a filter leaves
\* what is visible to the caller.
LEMMA CandidatesVisible ==
    ASSUME Inv, NEW r \in Candidates
    PROVE  ~r.item.off /\ <<Zero, r.item.scope>> \in Covers
<1>1. PICK h \in found[r.kind] : r = Pick(h, r.kind)
  BY CandidateFacts DEF Inv
<1>2. r.kind \in Kinds /\ h \in Hits
  BY CandidateFacts DEF Inv
<1>3. r.item = h.item
  BY <1>1 DEF Pick
<1>4. ~h.item.off
  BY <1>2 DEF Inv, NoneDisabled
<1>5. h.item.scope \in Scopes
  BY <1>2, HitAssumption
<1> QED BY <1>3, <1>4, <1>5, ScopesAssumption

\* No search returns a disabled item or an item outside the scope of its
\* context, however it ends, whatever is written meanwhile: for any tiers,
\* items, scopes and limits.
THEOREM ResultsAreVisible == Spec => []OnlyVisible
<1>1. Init => OnlyVisible
  BY DEF Init, OnlyVisible
<1>2. Inv /\ OnlyVisible /\ [Next]_vars => OnlyVisible'
  <2> SUFFICES ASSUME Inv, OnlyVisible, [Next]_vars PROVE OnlyVisible'
    OBVIOUS
  <2>0. Inv' /\ Shape /\ Shape' /\ TypeOK'
    BY StepInv DEF Inv
  <2>1. CASE pc' \in {"idle", "wait"}
    BY <2>0, <2>1 DEF Shape, OnlyVisible
  <2>2. CASE pc' \in {"done", "failed"}
    <3>1. CASE UNCHANGED vars
      BY <3>1 DEF vars, callVars, resultVars, OnlyVisible
    <3>2. CASE Fail
      BY <3>2 DEF Fail, callVars, resultVars, OnlyVisible
    <3>3. CASE Collect
      <4>1. out' \subseteq Candidates /\ scope' = Zero
        BY <2>0, <3>3 DEF Collect, Cuts, Merged, Shape, callVars, Merging
      <4> QED BY <4>1, CandidatesVisible DEF OnlyVisible
    <3>4. CASE CollectByKind
      <4>1. out' = Candidates /\ scope' = Zero
        BY <2>0, <3>4 DEF CollectByKind, Shape, callVars
      <4> QED BY <4>1, CandidatesVisible DEF OnlyVisible
    <3>5. CASE SearchAllReturns
      <4>1. out' = FilterByScope(Candidates) /\ scope' = scope
        BY <3>5 DEF SearchAllReturns, callVars
      <4> QED BY <4>1, CandidatesVisible DEF OnlyVisible, FilterByScope
    <3>6. ASSUME NEW k \in Kinds, SearchNextFails(k) PROVE OnlyVisible'
      <4>1. out' = (IF call = "serial" THEN Candidates ELSE {}) /\ scope' = scope
        BY <3>6 DEF SearchNextFails, callVars
      <4>2. CASE call = "serial"
        BY <2>0, <4>1, <4>2, CandidatesVisible DEF OnlyVisible, Shape
      <4>3. CASE call # "serial"
        BY <4>1, <4>3 DEF OnlyVisible
      <4> QED BY <4>2, <4>3
    <3> QED BY <2>2, <3>1, <3>2, <3>3, <3>4, <3>5, <3>6, EndsBy
  <2> QED BY <2>0, <2>1, <2>2 DEF TypeOK
<1> QED BY InitInv, StepInv, <1>1, <1>2, PTL DEF Spec

\* The tier of an item that stayed has answered when all have.
LEMMA AllAnswered ==
    ASSUME Inv, AllDone, broken = {}, NEW k \in Kinds, NEW h \in Wanted(k)
    PROVE  \/ h \in found[k]
           \/ Cardinality({x \in found[k] : x.score >= h.score}) >= TierTop(k)
<1>1. h \in stable[k]
  BY DEF Wanted
<1>2. go[k] # "none"
  BY <1>1 DEF Inv, Shape
<1>3. go[k] = "done"
  BY <1>2 DEF AllDone
<1> QED BY <1>3 DEF Inv, Answered

\* A search that does not merge misses an item of the caller's scope only for
\* as many of its tier that score no less as were asked for, whatever is
\* written between the searches of the tiers.
THEOREM MissesOnlyByTheCut == Spec => []MissedOnlyByTheCut
<1>1. Init => MissedOnlyByTheCut
  BY DEF Init, MissedOnlyByTheCut
<1>2. Inv /\ MissedOnlyByTheCut /\ [Next]_vars => MissedOnlyByTheCut'
  <2> SUFFICES ASSUME Inv, MissedOnlyByTheCut, [Next]_vars, pc' = "done", ~Merging',
                      NEW k \in Kinds, NEW h \in Wanted(k)',
                      <<scope', h.item.scope>> \in Covers
               PROVE  \/ Pick(h, k) \in out'
                      \/ Cardinality({x \in found'[k] : x.score >= h.score}) >= TierTop(k)'
    BY DEF MissedOnlyByTheCut
  <2>1. CASE UNCHANGED vars
    <3>1. UNCHANGED <<pc, call, scope, tags, lim, found, out, stable>>
      BY <2>1 DEF vars, tierVars, callVars, fanVars, resultVars
    <3>2. Wanted(k)' = Wanted(k) /\ TierTop(k)' = TierTop(k)
      BY <3>1 DEF Wanted, TagsMatch, TierTop
    <3> QED BY <3>1, <3>2 DEF MissedOnlyByTheCut, Merging
  <2>2. CASE CollectByKind \/ SearchAllReturns
    <3>1. /\ UNCHANGED <<call, scope, tags, lim, found, broken, stable>>
          /\ AllDone /\ pc = "wait"
          /\ out' = Candidates \/ out' = FilterByScope(Candidates)
      BY <2>2 DEF CollectByKind, SearchAllReturns, tierVars, callVars, fanVars
    <3>2. broken = {}
      BY <2>2, <3>1 DEF CollectByKind, SearchAllReturns, Inv, Shape
    <3>3. Wanted(k)' = Wanted(k) /\ TierTop(k)' = TierTop(k)
      BY <3>1 DEF Wanted, TagsMatch, TierTop
    <3>4. CASE h \in found[k]
      <4>1. Pick(h, k) \in Candidates
        BY <3>4, CandidateFacts DEF Inv
      <4>2. <<scope, Pick(h, k).item.scope>> \in Covers
        BY <3>1 DEF Pick
      <4> QED BY <3>1, <4>1, <4>2 DEF FilterByScope
    <3>5. CASE Cardinality({x \in found[k] : x.score >= h.score}) >= TierTop(k)
      BY <3>1, <3>3, <3>5
    <3> QED BY <3>1, <3>2, <3>3, <3>4, <3>5, AllAnswered
  <2>3. ASSUME \/ Fail \/ Collect \/ \E j \in Kinds : SearchNextFails(j) PROVE FALSE
    BY <2>3 DEF Fail, Collect, SearchNextFails, callVars, Merging
  <2> QED BY <2>1, <2>2, <2>3, EndsBy
<1> QED BY InitInv, StepInv, <1>1, <1>2, PTL DEF Spec

\* The merged and cut result of a call has, for a hit that stayed in its tier,
\* its key or enough results that score no less.
LEMMA CollectLeavesNothingBetter ==
    ASSUME Inv, Collect, NEW k \in Kinds, NEW h \in Wanted(k)
    PROVE  \/ \E r \in out' : Key(r) = Key(h) /\ r.score >= h.score
           \/ Cardinality({r \in out' : r.score >= h.score}) >= TierTop(k)
           \/ top > 0 /\ Cardinality({r \in out' : r.score >= h.score}) >= top
<1>1. Founds
  BY DEF Inv
<1>2. PICK n : /\ n = (IF top = 0 THEN Cardinality(Merged) ELSE top)
               /\ out' \in Cuts(Merged, n)
  BY DEF Collect
<1>3. /\ Merged \subseteq Candidates /\ IsFiniteSet(Merged)
      /\ Cardinality(Merged) \in Nat
  <2>1. Merged \subseteq Candidates
    BY DEF Merged
  <2> QED BY <1>1, <2>1, CandidateFacts, FS_Subset, FS_CardinalityType
<1>4. n \in Nat /\ top \in Nat
  BY <1>2, <1>3 DEF Inv, TypeOK
<1>5. out' \subseteq Merged /\ IsFiniteSet(out')
  BY <1>2, <1>3, FS_Subset DEF Cuts
<1>6. h \in Hits /\ h.score \in Nat
  BY HitAssumption DEF Wanted, Inv, TypeOK
<1>7. ASSUME NEW m \in Merged, m.score >= h.score, m \notin out'
      PROVE  top > 0 /\ Cardinality({r \in out' : r.score >= h.score}) >= top
  <2>1. /\ Cardinality(out') = n /\ n < Cardinality(Merged)
        /\ \A r \in out' : r.score >= m.score
    BY <1>1, <1>2, <1>4, <1>7, CutKeeps
  <2>2. top > 0 /\ n = top
    BY <1>2, <1>3, <1>4, <2>1
  <2>3. ASSUME NEW r \in out' PROVE r.score >= h.score
    <3>1. r.score \in Nat /\ m.score \in Nat
      BY <1>1, <1>3, <1>5, CandidateFacts
    <3>2. r.score >= m.score
      BY <2>1
    <3> QED BY <1>6, <1>7, <3>1, <3>2
  <2>4. {r \in out' : r.score >= h.score} = out'
    BY <2>3
  <2> QED BY <1>4, <2>1, <2>2, <2>4
<1>8. CASE h \in found[k]
  <2>1. Pick(h, k) \in Candidates
    BY <1>1, <1>8, CandidateFacts
  <2>2. Key(Pick(h, k)) = Key(h) /\ Pick(h, k).score = h.score
    BY DEF Pick, Key
  <2>3. PICK m \in Merged : Key(m) = Key(h) /\ m.score >= h.score
    BY <1>1, <2>1, <2>2, MergedHasBest
  <2> QED BY <1>7, <2>3
<1>9. CASE Cardinality({x \in found[k] : x.score >= h.score}) >= TierTop(k)
  <2> DEFINE F == {x \in found[k] : x.score >= h.score}
             M == {m \in Merged : m.score >= h.score}
             N == {r \in out' : r.score >= h.score}
  <2>1. CASE M \subseteq out'
    <3>1. M \subseteq N /\ N \subseteq out' /\ F \subseteq found[k]
      BY <2>1
    <3>2. Cardinality(F) <= Cardinality(M)
      BY <1>1, <1>6, MergedEnough
    <3>3. Cardinality(F) >= TierTop(k)
      BY <1>9
    <3>4. TierTop(k) \in Nat
      BY TopKAssumption DEF TierTop, Inv, TypeOK
    <3>5. IsFiniteSet(found[k])
      BY <1>1, CandidateFacts
    <3> HIDE DEF F, M, N
    <3>6. IsFiniteSet(N) /\ IsFiniteSet(F)
      BY <1>5, <3>1, <3>5, FS_Subset
    <3>7. Cardinality(M) <= Cardinality(N) /\ IsFiniteSet(M)
      BY <3>1, <3>6, FS_Subset
    <3>8. /\ Cardinality(F) \in Nat /\ Cardinality(M) \in Nat
          /\ Cardinality(N) \in Nat
      BY <3>6, <3>7, FS_CardinalityType
    <3>9. Cardinality(N) >= TierTop(k)
      BY <3>2, <3>3, <3>4, <3>7, <3>8
    <3> QED BY <3>9 DEF N
  <2>2. CASE ~(M \subseteq out')
    <3>1. PICK m \in M : m \notin out'
      BY <2>2
    <3> QED BY <1>7, <3>1
  <2> QED BY <2>1, <2>2
<1> QED BY <1>8, <1>9, AllAnswered DEF Collect

\* Writers, duplicates of an item in several tiers and the cuts per tier never
\* push out of the merged result a better item that stayed in its tier: for
\* any tiers, items, budgets and limits.
THEOREM MergeLeavesNothingBetterOut == Spec => []NothingBetterLeftOut
<1>1. Init => NothingBetterLeftOut
  BY DEF Init, NothingBetterLeftOut
<1>2. Inv /\ NothingBetterLeftOut /\ [Next]_vars => NothingBetterLeftOut'
  <2> SUFFICES ASSUME Inv, NothingBetterLeftOut, [Next]_vars, pc' = "done",
                      Merging', NEW k \in Kinds, NEW h \in Wanted(k)'
               PROVE  \/ \E r \in out' : Key(r) = Key(h) /\ r.score >= h.score
                      \/ Cardinality({r \in out' : r.score >= h.score}) >= TierTop(k)'
                      \/ /\ top' > 0
                         /\ Cardinality({r \in out' : r.score >= h.score}) >= top'
    BY DEF NothingBetterLeftOut, NoWorseThan
  <2>1. CASE UNCHANGED vars
    <3>1. UNCHANGED <<pc, call, tags, lim, top, out, stable>>
      BY <2>1 DEF vars, tierVars, callVars, fanVars, resultVars
    <3>2. Wanted(k)' = Wanted(k) /\ TierTop(k)' = TierTop(k)
      BY <3>1 DEF Wanted, TagsMatch, TierTop
    <3> QED BY <3>1, <3>2 DEF NothingBetterLeftOut, NoWorseThan, Merging
  <2>2. CASE Collect
    <3>1. UNCHANGED <<tags, lim, top, stable>>
      BY <2>2 DEF Collect, tierVars, callVars, fanVars
    <3>2. Wanted(k)' = Wanted(k) /\ TierTop(k)' = TierTop(k)
      BY <3>1 DEF Wanted, TagsMatch, TierTop
    <3> QED BY <2>2, <3>1, <3>2, CollectLeavesNothingBetter
  <2>3. ASSUME \/ Fail \/ CollectByKind \/ SearchAllReturns
               \/ \E j \in Kinds : SearchNextFails(j)
        PROVE  FALSE
    BY <2>3
    DEF Fail, CollectByKind, SearchAllReturns, SearchNextFails, Serial, callVars, Merging
  <2> QED BY <2>1, <2>2, <2>3, EndsBy
<1> QED BY InitInv, StepInv, <1>1, <1>2, PTL DEF Spec

----------------------------------------------------------------------------
(* The counts.                                                             *)

\* A tier contributes as many candidates as it found.
LEMMA CandidatesOfKind ==
    ASSUME Founds, NEW k \in Kinds
    PROVE  Cardinality({c \in Candidates : c.kind = k}) = Cardinality(found[k])
<1> DEFINE C == {c \in Candidates : c.kind = k}
           pick == [h \in found[k] |-> Pick(h, k)]
<1>1. IsFiniteSet(found[k])
  BY CandidateFacts
<1>2. ASSUME NEW h \in found[k] PROVE Pick(h, k) \in C
  BY CandidateFacts DEF Pick
<1>3. ASSUME NEW c \in C PROVE \E h \in found[k] : c = Pick(h, k)
  BY CandidateFacts
<1>4. ASSUME NEW x \in found[k], NEW y \in found[k], Pick(x, k) = Pick(y, k)
      PROVE  x = y
  <2>1. x.item.id = y.item.id
    BY <1>4 DEF Pick
  <2> QED BY <2>1 DEF Founds, Tiers
<1> HIDE DEF C
<1>5. pick \in Surjection(found[k], C)
  BY <1>2, <1>3 DEF Surjection
<1>6. pick \in Injection(found[k], C)
  BY <1>2, <1>4 DEF Injection, IsInjective
<1> HIDE DEF pick
<1>7. Cardinality(C) = Cardinality(found[k])
  BY <1>1, <1>5, <1>6, FS_Surjection
<1> QED BY <1>7 DEF C

\* The counts of Recall.
LEMMA CollectCounts ==
    ASSUME Inv, Collect, call = "recall"
    PROVE  /\ SumFunction(considered') <= Cardinality(Merged) + dropped'
           /\ Cardinality(out') + dropped' <= SumFunction(considered')
           /\ SumFunction(returned') = Cardinality(out')
           /\ \A k \in Kinds : returned'[k] <= considered'[k]
<1>1. Founds
  BY DEF Inv
<1>2. PICK n : /\ n = (IF top = 0 THEN Cardinality(Merged) ELSE top)
               /\ out' \in Cuts(Merged, n) /\ dropped' = Dropped(n)
  BY DEF Collect
<1>3. /\ Merged \subseteq Candidates /\ IsFiniteSet(Candidates)
      /\ \A c \in Candidates : c.kind \in Kinds
  BY <1>1, CandidateFacts DEF Merged
<1>4. out' \subseteq Candidates /\ IsFiniteSet(out')
      /\ Cardinality(out') = Smaller(n, Cardinality(Merged))
  <2>1. out' \subseteq Candidates /\ Cardinality(out') = Smaller(n, Cardinality(Merged))
    BY <1>2, <1>3 DEF Cuts
  <2> QED BY <1>3, <2>1, FS_Subset
<1>5. Cardinality(Merged) \in Nat /\ Cardinality(Candidates) \in Nat
  BY <1>3, FS_Subset, FS_CardinalityType
<1>6. n \in Nat
  BY <1>2, <1>5 DEF Inv, TypeOK
<1>7. /\ considered' = [k \in Kinds |-> Cardinality(found[k])]
      /\ returned' = [k \in Kinds |-> Cardinality({r \in out' : r.kind = k})]
      /\ considered' \in [Kinds -> Nat] /\ returned' \in [Kinds -> Nat]
  BY CollectTypes DEF Collect
<1>8. SumFunction(considered') = Cardinality(Candidates)
  <2>1. \A k \in Kinds : considered'[k] = Cardinality({c \in Candidates : c.kind = k})
    BY <1>1, <1>7, CandidatesOfKind
  <2> QED BY <1>3, <1>7, <2>1, CountsOfKinds
<1>9. SumFunction(returned') = Cardinality(out')
  <2>1. \A k \in Kinds : returned'[k] = Cardinality({c \in out' : c.kind = k})
    BY <1>7
  <2> QED BY <1>3, <1>4, <1>7, <2>1, CountsOfKinds
<1>10. /\ Cardinality(Candidates) <= Cardinality(Merged) + dropped'
       /\ Cardinality(out') + dropped' <= Cardinality(Candidates)
  BY <1>2, <1>4, <1>5, <1>6 DEF Smaller, Dropped
<1>11. ASSUME NEW k \in Kinds PROVE returned'[k] <= considered'[k]
  <2> DEFINE R == {r \in out' : r.kind = k}
             C == {c \in Candidates : c.kind = k}
  <2>1. R \subseteq C /\ C \subseteq Candidates
    BY <1>4
  <2>2. returned'[k] = Cardinality(R) /\ considered'[k] = Cardinality(C)
    BY <1>1, <1>7, CandidatesOfKind
  <2> HIDE DEF R, C
  <2>3. IsFiniteSet(C)
    BY <1>3, <2>1, FS_Subset
  <2>4. Cardinality(R) <= Cardinality(C)
    BY <2>1, <2>3, FS_Subset
  <2> QED BY <2>2, <2>4
<1> QED BY <1>8, <1>9, <1>10, <1>11

\* The counts of Recall are those of its result, per tier and in total, for any
\* tiers, items and limits: the sums of the library's fold are the sizes of sets.
THEOREM RecallCountsAddUp == Spec => []CountsAddUp
<1>1. Init => CountsAddUp
  BY DEF Init, CountsAddUp
<1>2. Inv /\ CountsAddUp /\ [Next]_vars => CountsAddUp'
  <2> SUFFICES ASSUME Inv, CountsAddUp, [Next]_vars, pc' = "done", call' = "recall"
               PROVE  /\ SumFunction(considered') <= Cardinality(Merged)' + dropped'
                      /\ Cardinality(out') + dropped' <= SumFunction(considered')
                      /\ SumFunction(returned') = Cardinality(out')
                      /\ \A k \in Kinds : returned'[k] <= considered'[k]
    BY DEF CountsAddUp
  <2>1. CASE UNCHANGED vars
    <3>1. UNCHANGED <<pc, call, found, out, considered, returned, dropped>>
      BY <2>1 DEF vars, callVars, fanVars, resultVars
    <3>2. Merged' = Merged
      BY <3>1 DEF Merged, Candidates
    <3> QED BY <3>1, <3>2 DEF CountsAddUp
  <2>2. CASE Collect
    <3>1. UNCHANGED <<call, found>>
      BY <2>2 DEF Collect, callVars, fanVars
    <3>2. Merged' = Merged
      BY <3>1 DEF Merged, Candidates
    <3> QED BY <2>2, <3>1, <3>2, CollectCounts
  <2>3. ASSUME \/ Fail \/ CollectByKind \/ SearchAllReturns
               \/ \E j \in Kinds : SearchNextFails(j)
        PROVE  FALSE
    BY <2>3
    DEF Fail, CollectByKind, SearchAllReturns, SearchNextFails, Serial, callVars
  <2> QED BY <2>1, <2>2, <2>3, EndsBy
<1> QED BY InitInv, StepInv, <1>1, <1>2, PTL DEF Spec

============================================================================
