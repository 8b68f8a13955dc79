--------------------------- MODULE RetrievalProofs ---------------------------
(***************************************************************************)
(* Proofs about what a turn retrieves and how much of it reaches a model,  *)
(* for every value of the constants.                                       *)
(*                                                                         *)
(* The search (ConnectorSearch): the order of hits is total, so a cut at n *)
(* keeps exactly n hits or all of them (BestCount), and a hit that is cut  *)
(* has a full measure of better ones before it (BestIsFull). What a source *)
(* may have at each stage (SourceInv) and what the bundle is made of       *)
(* (MergeInv) then give the three properties of a finished search.         *)
(*                                                                         *)
(* The window (ContextWindow): what a rendering has used and what it has   *)
(* left make up its limit (Counted), and how far each stage has brought    *)
(* the text and the notes (Staged).                                        *)
(***************************************************************************)
EXTENDS ConnectorSearch, ContextWindow, FiniteSetTheorems, WellFoundedInduction, TLAPS

-----------------------------------------------------------------------------
(* The search.                                                             *)

\* The hits of a set that come before one.
Ahead(set, h) == {g \in set : Before(g, h)}

(* The order of hits is a strict total order: what it leaves open is one and the same hit. *)
LEMMA BeforeOrder ==
  ASSUME NEW f \in Hit, NEW g \in Hit, NEW h \in Hit
  PROVE  /\ ~Before(h, h)
         /\ Before(f, g) /\ Before(g, h) => Before(f, h)
         /\ g = h \/ Before(g, h) \/ Before(h, g)
<1>1. /\ f.score \in Nat /\ f.source \in Nat /\ f.locator \in Nat /\ f.by \in Nat
      /\ g.score \in Nat /\ g.source \in Nat /\ g.locator \in Nat /\ g.by \in Nat
      /\ h.score \in Nat /\ h.source \in Nat /\ h.locator \in Nat /\ h.by \in Nat
  BY DEF Hit
<1>2. ~Before(h, h) /\ (Before(f, g) /\ Before(g, h) => Before(f, h))
  BY <1>1 DEF Before
<1>3. ~Before(g, h) /\ ~Before(h, g)
        => g.score = h.score /\ g.source = h.source /\ g.locator = h.locator /\ g.by = h.by
  BY <1>1 DEF Before
<1>4. g.score = h.score /\ g.source = h.source /\ g.locator = h.locator /\ g.by = h.by => g = h
  BY DEF Hit
<1>5. QED
  BY <1>2, <1>3, <1>4

(* What comes before a hit comes before what comes after it, and there is less of it. *)
LEMMA AheadFacts ==
  ASSUME NEW set \in SUBSET Hit, IsFiniteSet(set), NEW g \in Hit, NEW h \in Hit
  PROVE  /\ IsFiniteSet(Ahead(set, h)) /\ Cardinality(Ahead(set, h)) \in Nat
         /\ Cardinality(Ahead(set, h)) <= Cardinality(set)
         /\ Before(g, h) => Ahead(set, g) \subseteq Ahead(set, h)
         /\ Before(g, h) /\ g \in set => Cardinality(Ahead(set, g)) < Cardinality(Ahead(set, h))
<1>1. \A x \in Hit : /\ IsFiniteSet(Ahead(set, x)) /\ Cardinality(Ahead(set, x)) \in Nat
                     /\ Cardinality(Ahead(set, x)) <= Cardinality(set)
  BY FS_Subset, FS_CardinalityType DEF Ahead
<1>2. Before(g, h) => Ahead(set, g) \subseteq Ahead(set, h)
  BY BeforeOrder DEF Ahead
<1>3. ASSUME Before(g, h), g \in set
      PROVE  Cardinality(Ahead(set, g)) < Cardinality(Ahead(set, h))
  <2>1. g \in Ahead(set, h) /\ g \notin Ahead(set, g)
    BY <1>3, BeforeOrder DEF Ahead
  <2>2. /\ Ahead(set, g) \subseteq Ahead(set, h)
        /\ Ahead(set, g) # Ahead(set, h)
    BY <1>2, <1>3, <2>1
  <2>3. /\ Cardinality(Ahead(set, g)) <= Cardinality(Ahead(set, h))
        /\ Cardinality(Ahead(set, g)) # Cardinality(Ahead(set, h))
    BY <1>1, <2>2, FS_Subset
  <2>4. QED
    BY <1>1, <2>3
<1>4. QED
  BY <1>1, <1>2, <1>3

(* Of what the first n leave, one hit comes first: it has exactly the first n before it. *)
LEMMA NextBest ==
  ASSUME NEW set \in SUBSET Hit, IsFiniteSet(set), NEW n \in Nat, Best(set, n) # set
  PROVE  \E m \in set : /\ m \notin Best(set, n)
                        /\ Ahead(set, m) = Best(set, n)
<1> DEFINE rest == set \ Best(set, n)
           ranks == {Cardinality(Ahead(set, h)) : h \in rest}
<1>1. rest # {} /\ rest \subseteq set /\ rest \subseteq Hit
  BY DEF Best
<1>2. \A h \in set : Cardinality(Ahead(set, h)) \in Nat
  BY AheadFacts
<1>3. ranks \subseteq Nat /\ ranks # {}
  BY <1>1, <1>2
<1>4. PICK r \in ranks : \A q \in ranks : ~(<<q, r>> \in OpToRel(<, Nat))
  BY <1>3, NatLessThanWellFounded, WFMin
<1>5. PICK m \in rest : r = Cardinality(Ahead(set, m))
  OBVIOUS
<1>6. \A h \in rest : ~(Cardinality(Ahead(set, h)) < Cardinality(Ahead(set, m)))
  <2>1. SUFFICES ASSUME NEW h \in rest, Cardinality(Ahead(set, h)) < Cardinality(Ahead(set, m))
                 PROVE  FALSE
    OBVIOUS
  <2>2. Cardinality(Ahead(set, h)) \in ranks
    OBVIOUS
  <2>3. <<Cardinality(Ahead(set, h)), r>> \in OpToRel(<, Nat)
    BY <1>1, <1>2, <1>5, <2>1 DEF OpToRel
  <2>4. QED
    BY <1>4, <2>2, <2>3
<1>7. \A g \in set : g \in Best(set, n) <=> Cardinality(Ahead(set, g)) < n
  BY DEF Best, Ahead
<1> HIDE DEF rest, ranks
<1>8. ASSUME NEW g \in set PROVE g \in Ahead(set, m) <=> g \in Best(set, n)
  <2>1. g \in Hit /\ m \in Hit /\ m \in set /\ m \notin Best(set, n)
    BY <1>1 DEF rest
  <2>2. ASSUME g \in Best(set, n) PROVE Before(g, m)
    <3>1. Cardinality(Ahead(set, g)) < Cardinality(Ahead(set, m))
      BY <1>2, <1>7, <2>1, <2>2
    <3>2. g # m /\ ~Before(m, g)
      BY <1>2, <2>1, <3>1, AheadFacts
    <3>3. QED
      BY <2>1, <3>2, BeforeOrder
  <2>3. ASSUME g \notin Best(set, n) PROVE ~Before(g, m)
    <3>1. g \in rest
      BY <2>3 DEF rest
    <3>2. QED
      BY <1>6, <2>1, <3>1, AheadFacts
  <2>4. QED
    BY <2>2, <2>3 DEF Ahead
<1>9. Ahead(set, m) = Best(set, n)
  BY <1>8 DEF Ahead, Best
<1>10. QED
  BY <1>1, <1>9 DEF rest

(* A cut at n keeps n hits, or all of them when there are fewer. *)
LEMMA BestCount ==
  ASSUME NEW set \in SUBSET Hit, IsFiniteSet(set), NEW n \in Nat
  PROVE  /\ Best(set, n) \subseteq set /\ IsFiniteSet(Best(set, n))
         /\ Cardinality(Best(set, n)) = IF Cardinality(set) <= n THEN Cardinality(set) ELSE n
<1> DEFINE Cuts(k) == Cardinality(Best(set, k)) = IF Cardinality(set) <= k THEN Cardinality(set) ELSE k
           bad == {k \in Nat : ~Cuts(k)}
<1>1. /\ Cardinality(set) \in Nat
      /\ \A k \in Nat : /\ Best(set, k) \subseteq set /\ IsFiniteSet(Best(set, k))
                        /\ Cardinality(Best(set, k)) \in Nat
                        /\ Cardinality(Best(set, k)) <= Cardinality(set)
  BY FS_Subset, FS_CardinalityType DEF Best
<1>2. \A h \in set : Cardinality(Ahead(set, h)) \in Nat
  BY AheadFacts
<1>3. Cuts(0)
  <2>1. Best(set, 0) = {}
    BY <1>2 DEF Best, Ahead
  <2>2. QED
    BY <1>1, <2>1, FS_EmptySet
<1>4. ASSUME NEW k \in Nat, Cuts(k) PROVE Cuts(k + 1)
  <2>1. \A h \in set : /\ h \in Best(set, k) <=> Cardinality(Ahead(set, h)) < k
                       /\ h \in Best(set, k + 1) <=> Cardinality(Ahead(set, h)) < k + 1
    BY DEF Best, Ahead
  <2>2. CASE Best(set, k) = set
    <3>1. \A h \in set : h \in Best(set, k + 1)
      BY <1>2, <2>1, <2>2
    <3>2. Best(set, k + 1) = set
      BY <3>1 DEF Best
    <3>3. QED
      BY <1>1, <1>4, <2>2, <3>2
  <2>3. CASE Best(set, k) # set
    <3>1. PICK m \in set : m \notin Best(set, k) /\ Ahead(set, m) = Best(set, k)
      BY <2>3, NextBest
    <3>2. Cardinality(Best(set, k)) < Cardinality(set)
      BY <1>1, <2>3, FS_Subset
    <3>3. Cardinality(Best(set, k)) = k /\ k < Cardinality(set)
      BY <1>1, <1>4, <3>2
    <3>4. ASSUME NEW h \in set, h \in Best(set, k + 1), h \notin Best(set, k) PROVE h = m
      <4>1. Cardinality(Ahead(set, h)) = Cardinality(Ahead(set, m))
        BY <1>2, <2>1, <3>1, <3>3, <3>4
      <4>2. QED
        BY <1>2, <4>1, AheadFacts, BeforeOrder
    <3>5. m \in Best(set, k + 1) /\ Best(set, k) \subseteq Best(set, k + 1)
      BY <1>1, <1>2, <2>1, <3>1, <3>3
    <3>6. Best(set, k + 1) = Best(set, k) \cup {m}
      BY <1>1, <3>4, <3>5
    <3>7. Cardinality(Best(set, k + 1)) = k + 1
      BY <1>1, <3>1, <3>3, <3>6, FS_AddElement
    <3>8. QED
      BY <1>1, <3>3, <3>7
  <2>4. QED
    BY <2>2, <2>3
<1> HIDE DEF Cuts
<1>5. bad = {}
  <2>1. SUFFICES ASSUME bad # {} PROVE FALSE
    OBVIOUS
  <2>2. PICK k \in bad : \A j \in bad : ~(<<j, k>> \in OpToRel(<, Nat))
    BY <2>1, NatLessThanWellFounded, WFMin
  <2>3. k \in Nat \ {0} /\ k - 1 \in Nat
    BY <1>3
  <2>4. <<k - 1, k>> \in OpToRel(<, Nat)
    BY <2>3 DEF OpToRel
  <2>5. Cuts(k - 1)
    BY <2>2, <2>3, <2>4
  <2>6. Cuts((k - 1) + 1)
    BY <1>4, <2>3, <2>5
  <2>7. (k - 1) + 1 = k
    BY <2>3
  <2>8. QED
    BY <2>6, <2>7
<1>6. Cuts(n)
  BY <1>5
<1>7. QED
  BY <1>1, <1>6 DEF Cuts

(* A hit that is cut was cut for a full measure of better ones. *)
LEMMA BestIsFull ==
  ASSUME NEW set \in SUBSET Hit, IsFiniteSet(set), NEW n \in Nat,
         NEW h \in set, h \notin Best(set, n)
  PROVE  /\ Cardinality(Best(set, n)) = n
         /\ \A g \in Best(set, n) : Before(g, h)
<1>1. /\ Cardinality(set) \in Nat
      /\ \A g \in set : /\ Cardinality(Ahead(set, g)) \in Nat
                        /\ Cardinality(Ahead(set, g)) <= Cardinality(set)
                        /\ g \in Best(set, n) <=> Cardinality(Ahead(set, g)) < n
  <2>1. Cardinality(set) \in Nat
    BY FS_CardinalityType
  <2>2. ASSUME NEW g \in set
        PROVE  /\ Cardinality(Ahead(set, g)) \in Nat
               /\ Cardinality(Ahead(set, g)) <= Cardinality(set)
    BY AheadFacts
  <2>3. \A g \in set : g \in Best(set, n) <=> Cardinality(Ahead(set, g)) < n
    BY DEF Best, Ahead
  <2>4. QED
    BY <2>1, <2>2, <2>3
<1>2. Cardinality(Best(set, n)) = n
  <2>1. Cardinality(Best(set, n)) = IF Cardinality(set) <= n THEN Cardinality(set) ELSE n
    BY BestCount
  <2>2. n <= Cardinality(set) /\ Cardinality(set) \in Nat
    BY <1>1
  <2>3. QED
    BY <2>1, <2>2
<1>3. ASSUME NEW g \in Best(set, n) PROVE Before(g, h)
  <2>1. g \in set /\ g \in Hit /\ h \in Hit
    BY DEF Best
  <2>2. Cardinality(Ahead(set, g)) < Cardinality(Ahead(set, h))
    BY <1>1, <2>1
  <2>3. ~Before(h, g) /\ g # h
    BY <1>1, <2>1, <2>2, AheadFacts
  <2>4. QED
    BY <2>1, <2>3, BeforeOrder
<1>4. QED
  BY <1>2, <1>3

(* Hits that leave room in the cut for one more do not crowd all the others out. *)
LEMMA RoomIsTaken ==
  ASSUME NEW set \in SUBSET Hit, IsFiniteSet(set), NEW n \in Nat,
         NEW mine \in SUBSET set, mine # {},
         NEW others, IsFiniteSet(others), set \subseteq mine \cup others, Cardinality(others) < n
  PROVE  \E h \in mine : h \in Best(set, n)
<1> SUFFICES ASSUME \A h \in mine : h \notin Best(set, n) PROVE FALSE
  OBVIOUS
<1>1. PICK h \in mine : TRUE
  OBVIOUS
<1>2. Cardinality(Best(set, n)) = n
  BY <1>1, BestIsFull
<1>3. Best(set, n) \subseteq others
  BY BestCount
<1>4. Cardinality(Best(set, n)) <= Cardinality(others) /\ Cardinality(others) \in Nat
  BY <1>3, FS_Subset, FS_CardinalityType
<1>5. QED
  BY <1>2, <1>4

-----------------------------------------------------------------------------

Stages == {"idle", "asked", "reading", "answered", "failed"}

TypedSearch ==
    /\ corpus \in Corpora
    /\ phase \in {"idle", "searching", "done", "raised"}
    /\ active \in SUBSET Sources
    /\ at \in [Sources -> Stages]
    /\ todo \in [Sources -> SUBSET Hit]
    /\ found \in [Sources -> SUBSET Hit]
    /\ walked \in [Sources -> SUBSET Hit]
    /\ erred \in SUBSET Sources

\* A search of the files or of the index read everything there is, or is known not to.
Accounted(s) ==
    \/ walked[s] = corpus[s]
    \/ Kind[s] = "files" /\ (s \in erred \/ Cardinality(walked[s]) = MaxFiles)

\* How far a source is, and that it has no more than it was asked for and could give.
SourceInv(s) ==
    /\ s \in active <=> at[s] # "idle"
    /\ todo[s] \subseteq corpus[s] /\ found[s] \subseteq corpus[s]
    /\ at[s] \in {"idle", "asked"} => todo[s] = {} /\ found[s] = {}
    /\ at[s] = "asked" => s \notin erred
    /\ at[s] = "reading" => Kind[s] \in {"web", "git"}
    /\ s \in active => Cardinality(found[s]) <= Asked
    /\ at[s] = "reading" /\ Kind[s] = "web"
          => Cardinality(found[s]) + Cardinality(todo[s]) <= Asked
    /\ at[s] = "reading" /\ Kind[s] = "git" => todo[s] = {} \/ Cardinality(found[s]) < Asked
    /\ walked[s] \subseteq corpus[s]
    /\ at[s] = "answered" /\ Kind[s] \in {"files", "index"} =>
          found[s] = RankedHits(walked[s], Asked) /\ Accounted(s)
    /\ s \in active /\ s \in erred => at[s] = "failed" \/ Kind[s] \in {"files", "web", "git"}

\* What the sources that answered have found.
Pool == UNION {found[s] : s \in {t \in active : at[t] = "answered"}}

\* The bundle is the cut of that, with a note for each of the others.
MergeInv ==
    /\ phase = "idle" => active = {} /\ erred = {}
    /\ phase = "done" =>
          /\ active = {} => bundle.hits = {} /\ bundle.mode # "connected"
          /\ active # {} =>
                /\ \A s \in active : at[s] \in {"answered", "failed"}
                /\ bundle = [mode  |-> IF Pool = {} THEN "connected_no_hits" ELSE "connected",
                             hits  |-> Best(Pool, Limit),
                             notes |-> {s \in active : at[s] = "failed"}]

SearchInv == TypedSearch /\ (\A s \in Sources : SourceInv(s)) /\ MergeInv

(* A source holds finitely many hits, all of them its own. *)
LEMMA CorpusFacts ==
  ASSUME TypedSearch, NEW s \in Sources
  PROVE  /\ corpus[s] \in SUBSET Hit /\ IsFiniteSet(corpus[s])
         /\ \A h \in corpus[s] : h.by = s
         /\ \A set \in SUBSET corpus[s] :
               IsFiniteSet(set) /\ Cardinality(set) \in Nat /\ set \in SUBSET Hit
<1>1. /\ corpus \in [Sources -> SUBSET Hit] /\ IsFiniteSet(corpus[s])
      /\ \A h \in corpus[s] : h.by = s
  BY SearchAssumption DEF TypedSearch
<1>2. QED
  BY <1>1, FS_Subset, FS_CardinalityType

(* A source that is asked at all is asked for two hits or more. *)
LEMMA AskedFacts ==
  ASSUME TypedSearch, active # {}
  PROVE  /\ IsFiniteSet(active) /\ Cardinality(active) \in Nat \ {0}
         /\ Asked \in Nat /\ Asked >= 2
<1>1. IsFiniteSet(active)
  BY SearchAssumption, FS_Subset DEF TypedSearch
<1>2. Cardinality(active) \in Nat \ {0}
  BY <1>1, FS_CardinalityType, FS_EmptySet
<1>3. \A n \in Nat \ {0} : Limit \div n \in Int
  BY SearchAssumption
<1>4. Asked \in Nat /\ Asked >= 2
  BY <1>2, <1>3 DEF Asked, Share
<1>5. QED
  BY <1>1, <1>2, <1>4

(* What the files and the index answer is a part of what matches, and no more than asked. *)
LEMMA RankedFacts ==
  ASSUME TypedSearch, NEW s \in Sources, NEW some \in SUBSET corpus[s], NEW n \in Nat
  PROVE  /\ Matching(some) \in SUBSET corpus[s]
         /\ RankedHits(some, n) \in SUBSET corpus[s]
         /\ Cardinality(RankedHits(some, n)) <= n
<1> DEFINE m == IF n < 20 THEN n ELSE 20
<1>1. Matching(some) \in SUBSET corpus[s]
  BY DEF Matching
<1>2. Matching(some) \in SUBSET Hit /\ IsFiniteSet(Matching(some)) /\ Cardinality(Matching(some)) \in Nat
  BY <1>1, CorpusFacts
<1>3. m \in Nat /\ m <= n
  OBVIOUS
<1>4. RankedHits(some, n) = Best(Matching(some), m)
  BY DEF RankedHits
<1> HIDE DEF m
<1>5. /\ Best(Matching(some), m) \subseteq Matching(some)
      /\ Cardinality(Best(Matching(some), m)) <= m /\ Cardinality(Best(Matching(some), m)) \in Nat
  BY <1>2, <1>3, BestCount
<1>6. QED
  BY <1>1, <1>3, <1>4, <1>5

LEMMA InitSearchInv == InitSearch => SearchInv
<1> SUFFICES ASSUME InitSearch PROVE SearchInv
  OBVIOUS
<1>1. TypedSearch /\ MergeInv
  BY DEF InitSearch, TypedSearch, MergeInv, Stages
<1>2. ASSUME NEW s \in Sources PROVE SourceInv(s)
  BY <1>2 DEF InitSearch, SourceInv
<1>3. QED
  BY <1>1, <1>2 DEF SearchInv

(* A step of one source leaves what is known of the others. *)
LEMMA OthersSearch ==
  ASSUME SearchInv, NEW s \in Sources, phase = "searching",
         UNCHANGED <<corpus, phase, active>>,
         TypedSearch', SourceInv(s)', erred' \in {erred, erred \cup {s}},
         \A t \in Sources : t # s => /\ at'[t] = at[t] /\ todo'[t] = todo[t]
                                     /\ found'[t] = found[t] /\ walked'[t] = walked[t]
  PROVE  SearchInv'
<1>1. ASSUME NEW t \in Sources, t # s PROVE SourceInv(t)'
  <2>1. SourceInv(t)
    BY DEF SearchInv
  <2>2. Asked' = Asked /\ walked'[t] = walked[t]
    BY <1>1 DEF Asked
  <2>3. t \in erred' <=> t \in erred
    BY <1>1
  <2>4. /\ RankedHits(walked[t], Asked)' = RankedHits(walked[t], Asked)
        /\ Accounted(t)' <=> Accounted(t)
    BY <2>2, <2>3 DEF RankedHits, Matching, Accounted
  <2>5. QED
    BY <1>1, <2>1, <2>2, <2>3, <2>4 DEF SourceInv
<1>2. MergeInv'
  BY DEF MergeInv
<1>3. QED
  BY <1>1, <1>2 DEF SearchInv

(* A source of another kind answers with some of its hits, as many as it was asked for *)
(* at most.                                                                            *)
LEMMA AnswersKeeps ==
  ASSUME SearchInv, NEW s \in Sources, phase = "searching", s \in active,
         Kind[s] \in {"vector", "web", "git"},
         NEW some \in SUBSET corpus[s], Cardinality(some) <= Asked, Answers(s, some),
         s \in erred => Kind[s] \in {"web", "git"}
  PROVE  SearchInv'
<1>1. TypedSearch /\ SourceInv(s)
  BY DEF SearchInv
<1>2. /\ at' = [at EXCEPT ![s] = "answered"] /\ found' = [found EXCEPT ![s] = some]
      /\ UNCHANGED <<corpus, phase, active, todo, walked, erred, bundle>>
  BY DEF Answers, Becomes
<1>3. some \in SUBSET Hit
  BY <1>1, CorpusFacts
<1>4. TypedSearch'
  BY <1>1, <1>2, <1>3 DEF TypedSearch, Stages
<1>5. at'[s] = "answered" /\ found'[s] = some /\ todo'[s] = todo[s] /\ walked'[s] = walked[s]
  BY <1>1, <1>2 DEF TypedSearch
<1>6. Asked' = Asked
  BY <1>2 DEF Asked
<1>7. SourceInv(s)'
  BY <1>1, <1>2, <1>5, <1>6 DEF SourceInv
<1>8. QED
  BY <1>1, <1>2, <1>4, <1>7, OthersSearch DEF TypedSearch

(* The files and the index answer with the best of what they read. *)
LEMMA RanksKeep ==
  ASSUME SearchInv, NEW s \in Sources, SearchFiles(s) \/ SearchIndex(s)
  PROVE  SearchInv'
<1>1. TypedSearch /\ SourceInv(s)
  BY DEF SearchInv
<1>2. /\ phase = "searching" /\ Kind[s] \in {"files", "index"} /\ at[s] = "asked" /\ s \in active
      /\ s \notin erred
  BY <1>1 DEF SearchFiles, SearchIndex, Asks, SourceInv
<1>3. PICK some \in SUBSET corpus[s] :
         /\ Ranks(s, some)
         /\ erred' \in {erred, erred \cup {s}}
         /\ s \in erred' => Kind[s] = "files"
         /\ \/ some = corpus[s]
            \/ Kind[s] = "files" /\ (s \in erred' \/ Cardinality(some) = MaxFiles)
  <2>1. CASE SearchFiles(s)
    <3>1. PICK lost \in SUBSET corpus[s] : \E some \in SUBSET (corpus[s] \ lost) :
             /\ some = corpus[s] \ lost \/ Cardinality(some) = MaxFiles
             /\ Ranks(s, some)
             /\ erred' = IF lost = {} THEN erred ELSE erred \cup {s}
      BY <2>1 DEF SearchFiles
    <3>2. PICK some \in SUBSET (corpus[s] \ lost) :
             /\ some = corpus[s] \ lost \/ Cardinality(some) = MaxFiles
             /\ Ranks(s, some)
             /\ erred' = IF lost = {} THEN erred ELSE erred \cup {s}
      BY <3>1
    <3>3. some \in SUBSET corpus[s] /\ Kind[s] = "files" /\ (lost = {} => corpus[s] \ lost = corpus[s])
      BY <2>1 DEF SearchFiles, Asks
    <3>4. QED
      BY <1>2, <3>2, <3>3
  <2>2. CASE SearchIndex(s)
    BY <1>2, <2>2 DEF SearchIndex
  <2>3. QED
    BY <2>1, <2>2
<1>4. /\ walked' = [walked EXCEPT ![s] = some] /\ found' = [found EXCEPT ![s] = RankedHits(some, Asked)]
      /\ at' = [at EXCEPT ![s] = "answered"]
      /\ UNCHANGED <<corpus, phase, active, todo, bundle>>
  BY <1>3 DEF Ranks, Becomes
<1>5. Asked \in Nat /\ Asked' = Asked
  BY <1>1, <1>2, <1>4, AskedFacts DEF Asked
<1>6. /\ some \in SUBSET Hit
      /\ RankedHits(some, Asked) \in SUBSET corpus[s] /\ RankedHits(some, Asked) \in SUBSET Hit
      /\ Cardinality(RankedHits(some, Asked)) <= Asked
  BY <1>1, <1>5, RankedFacts, CorpusFacts
<1>7. TypedSearch'
  BY <1>1, <1>3, <1>4, <1>6 DEF TypedSearch, Stages
<1>8. /\ at'[s] = "answered" /\ found'[s] = RankedHits(some, Asked) /\ todo'[s] = todo[s]
      /\ walked'[s] = some
  BY <1>1, <1>4 DEF TypedSearch
<1>9. RankedHits(walked[s], Asked)' = RankedHits(some, Asked)
  BY <1>5, <1>8 DEF RankedHits, Matching
<1>10. Accounted(s)'
  BY <1>3, <1>4, <1>8 DEF Accounted
<1>11. SourceInv(s)'
  BY <1>1, <1>2, <1>3, <1>4, <1>5, <1>6, <1>8, <1>9, <1>10 DEF SourceInv
<1>12. QED
  BY <1>1, <1>2, <1>3, <1>4, <1>7, <1>11, OthersSearch DEF TypedSearch

(* A source lists some of its hits, to read them one after the other. *)
LEMMA ListsKeep ==
  ASSUME SearchInv, NEW s \in Sources, ListResults(s) \/ ListBlobs(s)
  PROVE  SearchInv'
<1>1. /\ TypedSearch /\ SourceInv(s) /\ phase = "searching"
      /\ at[s] = "asked" /\ s \in active /\ found[s] = {}
  BY DEF SearchInv, ListResults, ListBlobs, Asks, SourceInv
<1>2. PICK some \in SUBSET corpus[s] :
         /\ todo' = [todo EXCEPT ![s] = some]
         /\ \/ Kind[s] = "web" /\ Cardinality(some) <= Asked
            \/ Kind[s] = "git"
  BY DEF ListResults, ListBlobs, Asks
<1>3. at' = [at EXCEPT ![s] = "reading"] /\ UNCHANGED <<corpus, phase, active, found, walked, erred>>
  BY DEF ListResults, ListBlobs, Becomes
<1>4. some \in SUBSET Hit /\ Cardinality(some) \in Nat
  BY <1>1, CorpusFacts
<1>5. TypedSearch'
  BY <1>1, <1>2, <1>3, <1>4 DEF TypedSearch, Stages
<1>6. at'[s] = "reading" /\ found'[s] = {} /\ todo'[s] = some
  BY <1>1, <1>2, <1>3 DEF TypedSearch
<1>7. Cardinality({}) = 0 /\ Asked \in Nat /\ Asked >= 2 /\ Asked' = Asked
  BY <1>1, <1>3, AskedFacts, FS_EmptySet DEF Asked
<1>8. /\ Cardinality(found'[s]) <= Asked' /\ Cardinality(found'[s]) < Asked'
      /\ Kind[s] = "web" => Cardinality(found'[s]) + Cardinality(todo'[s]) <= Asked'
  BY <1>2, <1>4, <1>6, <1>7
<1>9. SourceInv(s)'
  BY <1>1, <1>2, <1>3, <1>6, <1>8 DEF SourceInv
<1>10. QED
  BY <1>1, <1>2, <1>3, <1>5, <1>9, OthersSearch DEF TypedSearch

(* A candidate that is read is one hit more, and one candidate less or none left. *)
LEMMA ReadKeeps ==
  ASSUME SearchInv, NEW s \in Sources, NEW h \in todo[s], Read(s, h)
  PROVE  SearchInv'
<1>1. /\ TypedSearch /\ SourceInv(s) /\ phase = "searching"
      /\ at[s] = "reading" /\ s \in active /\ Kind[s] \in {"web", "git"}
  BY DEF SearchInv, Read, Asks, SourceInv
<1> DEFINE f == found[s] \cup {h}
           t == IF Kind[s] = "git" /\ Cardinality(found[s]) + 1 >= Asked THEN {} ELSE todo[s] \ {h}
<1>2. /\ found' = [found EXCEPT ![s] = f] /\ todo' = [todo EXCEPT ![s] = t]
      /\ UNCHANGED <<corpus, phase, active, at, walked, erred>>
  BY DEF Read
<1>3. /\ f \in SUBSET corpus[s] /\ t \in SUBSET corpus[s]
      /\ todo[s] \in SUBSET corpus[s] /\ found[s] \in SUBSET corpus[s]
  BY <1>1 DEF SourceInv
<1>4. /\ f \in SUBSET Hit /\ t \in SUBSET Hit
      /\ IsFiniteSet(found[s]) /\ IsFiniteSet(todo[s])
      /\ Cardinality(found[s]) \in Nat /\ Cardinality(todo[s]) \in Nat
  BY <1>1, <1>3, CorpusFacts
<1>5. /\ Cardinality(f) \in Nat /\ Cardinality(f) <= Cardinality(found[s]) + 1
      /\ Cardinality(todo[s] \ {h}) = Cardinality(todo[s]) - 1
      /\ Cardinality(todo[s]) >= 1
  <2>1. /\ Cardinality(f) = IF h \in found[s] THEN Cardinality(found[s]) ELSE Cardinality(found[s]) + 1
        /\ Cardinality(todo[s] \ {h}) = Cardinality(todo[s]) - 1
    BY <1>4, FS_AddElement, FS_RemoveElement
  <2>2. Cardinality(todo[s]) # 0
    BY <1>4, FS_EmptySet
  <2>3. QED
    BY <1>4, <2>1, <2>2
<1>6. Asked \in Nat /\ Asked' = Asked
  BY <1>1, <1>2, AskedFacts DEF Asked
<1>7. at'[s] = "reading" /\ found'[s] = f /\ todo'[s] = t
  BY <1>1, <1>2 DEF TypedSearch
<1>8. TypedSearch'
  BY <1>1, <1>2, <1>4 DEF TypedSearch
<1>9. /\ Cardinality(f) <= Asked
      /\ Kind[s] = "web" => Cardinality(f) + Cardinality(t) <= Asked
      /\ Kind[s] = "git" => t = {} \/ Cardinality(f) < Asked
  <2>1. CASE Kind[s] = "web"
    BY <1>1, <1>4, <1>5, <1>6, <2>1 DEF SourceInv
  <2>2. CASE Kind[s] = "git"
    <3>1. Cardinality(found[s]) < Asked
      BY <1>1, <2>2 DEF SourceInv
    <3>2. QED
      BY <1>4, <1>5, <1>6, <2>2, <3>1
  <2>3. QED
    BY <1>1, <2>1, <2>2
<1> HIDE DEF f, t
<1>10. SourceInv(s)'
  BY <1>1, <1>2, <1>3, <1>6, <1>7, <1>9 DEF SourceInv
<1>11. QED
  BY <1>1, <1>2, <1>8, <1>10, OthersSearch DEF TypedSearch

(* A candidate that is left out is one candidate less. *)
LEMMA SkipKeeps ==
  ASSUME SearchInv, NEW s \in Sources, NEW h \in todo[s], Skip(s, h)
  PROVE  SearchInv'
<1>1. /\ TypedSearch /\ SourceInv(s) /\ phase = "searching"
      /\ at[s] = "reading" /\ s \in active /\ Kind[s] \in {"web", "git"}
  BY DEF SearchInv, Skip, Asks, SourceInv
<1> DEFINE t == todo[s] \ {h}
<1>2. /\ todo' = [todo EXCEPT ![s] = t] /\ erred' \in {erred, erred \cup {s}}
      /\ UNCHANGED <<corpus, phase, active, at, found, walked>>
  BY DEF Skip
<1>3. t \in SUBSET corpus[s] /\ found[s] \in SUBSET corpus[s] /\ todo[s] \in SUBSET corpus[s]
  BY <1>1 DEF SourceInv
<1>4. /\ t \in SUBSET Hit /\ IsFiniteSet(todo[s])
      /\ Cardinality(found[s]) \in Nat /\ Cardinality(todo[s]) \in Nat
  BY <1>1, <1>3, CorpusFacts
<1>5. Cardinality(t) = Cardinality(todo[s]) - 1
  BY <1>4, FS_RemoveElement
<1>6. Asked \in Nat /\ Asked' = Asked
  BY <1>1, <1>2, AskedFacts DEF Asked
<1>7. at'[s] = "reading" /\ found'[s] = found[s] /\ todo'[s] = t
  BY <1>1, <1>2 DEF TypedSearch
<1>8. TypedSearch'
  BY <1>1, <1>2, <1>4 DEF TypedSearch
<1>9. /\ Kind[s] = "web" => Cardinality(found[s]) + Cardinality(t) <= Asked
      /\ Kind[s] = "git" => t = {} \/ Cardinality(found[s]) < Asked
  BY <1>1, <1>4, <1>5, <1>6 DEF SourceInv
<1> HIDE DEF t
<1>10. SourceInv(s)'
  BY <1>1, <1>2, <1>3, <1>6, <1>7, <1>9 DEF SourceInv
<1>11. QED
  BY <1>1, <1>2, <1>8, <1>10, OthersSearch DEF TypedSearch

(* A source refuses its list, or raises: it ends with what it has. *)
LEMMA RefusalKeeps ==
  ASSUME SearchInv, NEW s \in Sources, ListRefused(s) \/ Raise(s)
  PROVE  SearchInv'
<1>1. /\ TypedSearch /\ SourceInv(s) /\ phase = "searching"
      /\ at[s] \in {"asked", "reading"} /\ s \in active
  BY DEF SearchInv, ListRefused, Raise, Asks, SourceInv
<1>2. PICK stage \in {"answered", "failed"} :
         /\ at' = [at EXCEPT ![s] = stage] /\ erred' = erred \cup {s}
         /\ UNCHANGED <<corpus, phase, active, todo, found, walked>>
         /\ stage = "answered" => Kind[s] = "git"
  BY DEF ListRefused, Raise, Becomes, Asks
<1>3. TypedSearch'
  BY <1>1, <1>2 DEF TypedSearch, Stages
<1>4. at'[s] = stage /\ Asked' = Asked
  BY <1>1, <1>2 DEF TypedSearch, Asked
<1>5. SourceInv(s)'
  BY <1>1, <1>2, <1>4 DEF SourceInv
<1>6. QED
  BY <1>1, <1>2, <1>3, <1>5, OthersSearch DEF TypedSearch

(* A source's own step keeps the invariant. *)
LEMMA SourceKeeps ==
  ASSUME SearchInv, NEW s \in Sources, Search(s) \/ Raise(s)
  PROVE  SearchInv'
<1>1. TypedSearch /\ SourceInv(s)
  BY DEF SearchInv
<1>2. CASE SearchFiles(s) \/ SearchIndex(s)
  BY <1>2, RanksKeep
<1>3. CASE SearchVector(s)
  <2>1. phase = "searching" /\ Kind[s] = "vector" /\ at[s] = "asked" /\ s \in active /\ s \notin erred
    BY <1>1, <1>3 DEF SearchVector, Asks, SourceInv
  <2>2. PICK some \in SUBSET corpus[s] : Cardinality(some) <= Asked /\ Answers(s, some)
    BY <1>3 DEF SearchVector
  <2>3. QED
    BY <2>1, <2>2, AnswersKeeps
<1>4. CASE EndReading(s)
  <2>1. /\ phase = "searching" /\ Kind[s] \in {"web", "git"} /\ at[s] = "reading" /\ s \in active
        /\ found[s] \in SUBSET corpus[s] /\ Cardinality(found[s]) <= Asked
        /\ Answers(s, found[s])
    BY <1>1, <1>4 DEF EndReading, Asks, SourceInv
  <2>2. QED
    BY <2>1, AnswersKeeps
<1>5. CASE ListResults(s) \/ ListBlobs(s)
  BY <1>5, ListsKeep
<1>6. CASE ListRefused(s) \/ Raise(s)
  BY <1>6, RefusalKeeps
<1>7. CASE \E h \in todo[s] : Read(s, h) \/ Skip(s, h)
  BY <1>7, ReadKeeps, SkipKeeps
<1>8. QED
  BY <1>2, <1>3, <1>4, <1>5, <1>6, <1>7 DEF Search

(* The registry's steps: it asks, or has nothing to ask, and merges. *)
LEMMA RegistryKeeps ==
  ASSUME SearchInv,
         \/ \E available \in SUBSET Sources : Activate(available)
         \/ NothingConnected \/ StatusRaises \/ Gather
  PROVE  SearchInv'
<1>1. TypedSearch /\ MergeInv /\ \A s \in Sources : SourceInv(s)
  BY DEF SearchInv
<1>2. ASSUME NEW available \in SUBSET Sources, Activate(available) PROVE SearchInv'
  <2>1. /\ phase = "idle" /\ available # {} /\ active' = available /\ phase' = "searching"
        /\ at' = [s \in Sources |-> IF s \in available THEN "asked" ELSE "idle"]
        /\ UNCHANGED <<corpus, todo, found, walked, erred, bundle>>
    BY <1>2 DEF Activate
  <2>2. active = {}
    BY <1>1, <2>1 DEF MergeInv
  <2>3. TypedSearch' /\ MergeInv'
    BY <1>1, <2>1 DEF TypedSearch, MergeInv, Stages
  <2>4. Cardinality({}) = 0 /\ Asked' \in Nat
    <3>1. TypedSearch' /\ active' # {}
      BY <2>1, <2>3
    <3>2. Asked' \in Nat
      <4>1. IsFiniteSet(available)
        BY SearchAssumption, FS_Subset
      <4>2. Cardinality(available) \in Nat \ {0}
        BY <2>1, <4>1, FS_CardinalityType, FS_EmptySet
      <4>3. \A n \in Nat \ {0} : Limit \div n \in Int
        BY SearchAssumption
      <4>4. QED
        BY <2>1, <4>2, <4>3 DEF Asked, Share
    <3>3. QED
      BY <3>2, FS_EmptySet
  <2>5. ASSUME NEW s \in Sources PROVE SourceInv(s)'
    <3>1. /\ todo[s] = {} /\ found[s] = {} /\ at[s] = "idle" /\ s \notin active
          /\ walked[s] \subseteq corpus[s]
      BY <1>1, <2>2 DEF SourceInv
    <3>2. at'[s] = IF s \in available THEN "asked" ELSE "idle"
      BY <2>1
    <3>3. s \notin erred
      BY <1>1, <2>1 DEF MergeInv
    <3>4. QED
      BY <2>1, <2>4, <3>1, <3>2, <3>3 DEF SourceInv
  <2>6. QED
    BY <2>3, <2>5 DEF SearchInv
<1>3. CASE NothingConnected \/ StatusRaises
  <2>1. /\ phase = "idle" /\ phase' \in {"done", "raised"} /\ erred' \in SUBSET Sources
        /\ UNCHANGED <<corpus, active, at, todo, found, walked>>
        /\ phase' = "done" => bundle'.hits = {} /\ bundle'.mode # "connected"
    BY <1>1, <1>3 DEF NothingConnected, StatusRaises, NoBundle, TypedSearch
  <2>2. active = {} /\ active' = {}
    BY <1>1, <2>1 DEF MergeInv
  <2>3. TypedSearch' /\ MergeInv'
    BY <1>1, <2>1, <2>2 DEF TypedSearch, MergeInv
  <2>4. ASSUME NEW s \in Sources PROVE SourceInv(s)'
    <3>1. SourceInv(s) /\ s \notin active /\ at[s] = "idle"
      BY <1>1, <2>2 DEF SourceInv
    <3>2. QED
      BY <2>1, <2>2, <3>1 DEF SourceInv
  <2>5. QED
    BY <2>3, <2>4 DEF SearchInv
<1>4. CASE Gather
  <2>1. /\ phase = "searching" /\ phase' = "done"
        /\ UNCHANGED <<corpus, active, at, todo, found, walked, erred>>
        /\ \A s \in active : at[s] \in {"answered", "failed"}
        /\ bundle' = [mode  |-> IF Pool = {} THEN "connected_no_hits" ELSE "connected",
                      hits  |-> Best(Pool, Limit),
                      notes |-> {s \in active : at[s] = "failed"}]
    BY <1>4 DEF Gather, Pool
  <2>2. Pool' = Pool /\ TypedSearch'
    BY <1>1, <2>1 DEF Pool, TypedSearch
  <2>3. active # {} \/ Pool = {}
    BY DEF Pool
  <2>4. Best({}, Limit) = {}
    BY DEF Best
  <2>5. MergeInv'
    BY <2>1, <2>2, <2>3, <2>4 DEF MergeInv
  <2>6. ASSUME NEW s \in Sources PROVE SourceInv(s)'
    <3>1. /\ SourceInv(s) /\ Asked' = Asked
          /\ RankedHits(walked[s], Asked)' = RankedHits(walked[s], Asked)
          /\ Accounted(s)' <=> Accounted(s)
      BY <1>1, <2>1 DEF Asked, RankedHits, Matching, Accounted
    <3>2. QED
      BY <2>1, <3>1 DEF SourceInv
  <2>7. QED
    BY <2>2, <2>5, <2>6 DEF SearchInv
<1>5. QED
  BY <1>2, <1>3, <1>4

LEMMA SearchStep == SearchInv /\ [NextSearch]_searchVars => SearchInv'
<1> SUFFICES ASSUME SearchInv, [NextSearch]_searchVars PROVE SearchInv'
  OBVIOUS
<1>1. CASE UNCHANGED searchVars
  <2>1. UNCHANGED <<corpus, phase, active, at, todo, found, walked, erred, bundle>>
    BY <1>1 DEF searchVars
  <2>2. TypedSearch' /\ MergeInv'
    BY <2>1 DEF SearchInv, TypedSearch, MergeInv, Pool
  <2>3. ASSUME NEW s \in Sources PROVE SourceInv(s)'
    <3>1. /\ SourceInv(s) /\ Asked' = Asked
          /\ RankedHits(walked[s], Asked)' = RankedHits(walked[s], Asked)
          /\ Accounted(s)' <=> Accounted(s)
      BY <2>1 DEF SearchInv, Asked, RankedHits, Matching, Accounted
    <3>2. QED
      BY <2>1, <3>1 DEF SourceInv
  <2>4. QED
    BY <2>2, <2>3 DEF SearchInv
<1>2. CASE NextSearch
  BY <1>1, <1>2, SourceKeeps, RegistryKeeps DEF NextSearch, Rests
<1>3. QED
  BY <1>1, <1>2

LEMMA SearchInvariant == SpecSearch => []SearchInv
BY InitSearchInv, SearchStep, PTL DEF SpecSearch

(* What the sources that answered have found is finite, each hit from one of them. *)
LEMMA PoolFacts ==
  ASSUME SearchInv
  PROVE  /\ Pool \in SUBSET Hit /\ IsFiniteSet(Pool)
         /\ \A s \in active : /\ s \in Sources /\ SourceInv(s)
                              /\ IsFiniteSet(found[s]) /\ Cardinality(found[s]) \in Nat
                              /\ \A h \in found[s] : h.by = s
                              /\ at[s] = "answered" => found[s] \subseteq Pool
         /\ \A h \in Pool : \E s \in active : at[s] = "answered" /\ h \in found[s]
<1>1. /\ TypedSearch /\ active \subseteq Sources
      /\ \A s \in Sources : SourceInv(s) /\ found[s] \in SUBSET corpus[s]
  BY DEF SearchInv, TypedSearch, SourceInv
<1>2. \A s \in active : /\ IsFiniteSet(found[s]) /\ Cardinality(found[s]) \in Nat
                        /\ found[s] \in SUBSET Hit
                        /\ \A h \in found[s] : h.by = s
  BY <1>1, CorpusFacts
<1> DEFINE answered == {t \in active : at[t] = "answered"}
           family == {found[s] : s \in answered}
<1>3. IsFiniteSet(family)
  <2>1. IsFiniteSet(answered)
    BY <1>1, SearchAssumption, FS_Subset
  <2>2. [s \in answered |-> found[s]] \in Surjection(answered, family)
    BY DEF Surjection
  <2>3. QED
    BY <2>1, <2>2, FS_Surjection
<1>4. IsFiniteSet(UNION family)
  BY <1>2, <1>3, FS_UNION
<1>5. QED
  BY <1>1, <1>2, <1>4 DEF Pool

(* The hits of every other source together, when three sources are active at most. *)
LEMMA OthersFill ==
  ASSUME SearchInv, NEW s \in active, Cardinality(active) <= 3
  PROVE  \E others : /\ IsFiniteSet(others)
                     /\ Pool \subseteq found[s] \cup others
                     /\ Cardinality(others) <= (Cardinality(active) - 1) * Asked
<1>1. TypedSearch
  BY DEF SearchInv
<1>2. /\ IsFiniteSet(active) /\ Cardinality(active) \in 1 .. 3
      /\ Asked \in Nat /\ Asked >= 2
  BY <1>1, AskedFacts
<1>3. \A t \in active : /\ IsFiniteSet(found[t]) /\ Cardinality(found[t]) \in Nat
                        /\ Cardinality(found[t]) <= Asked
  BY PoolFacts DEF SourceInv
<1>4. \A h \in Pool : \E t \in active : h \in found[t]
  BY PoolFacts
<1> DEFINE rest == active \ {s}
<1>5. IsFiniteSet(rest) /\ Cardinality(rest) = Cardinality(active) - 1
  BY <1>2, FS_RemoveElement
<1>6. CASE Cardinality(active) = 1
  <2>1. rest = {}
    BY <1>5, <1>6, FS_EmptySet
  <2>2. Pool \subseteq found[s] \cup {}
    BY <1>4, <2>1
  <2>3. IsFiniteSet({}) /\ Cardinality({}) = 0
    BY FS_EmptySet
  <2>4. (Cardinality(active) - 1) * Asked = 0
    BY <1>2, <1>6
  <2>5. Cardinality({}) <= (Cardinality(active) - 1) * Asked
    BY <2>3, <2>4
  <2>6. QED
    BY <2>2, <2>3, <2>5
<1>7. CASE Cardinality(active) = 2
  <2>1. PICK t : rest = {t}
    BY <1>5, <1>7, FS_Singleton
  <2>2. t \in active /\ Pool \subseteq found[s] \cup found[t]
    BY <1>4, <2>1
  <2>3. Cardinality(found[t]) <= (Cardinality(active) - 1) * Asked
    BY <1>2, <1>3, <1>7, <2>2
  <2>4. QED
    BY <1>3, <2>2, <2>3
<1>8. CASE Cardinality(active) = 3
  <2>1. PICK t \in rest : TRUE
    BY <1>5, <1>8, FS_EmptySet
  <2>2. IsFiniteSet(rest \ {t}) /\ Cardinality(rest \ {t}) = 1
    BY <1>5, <1>8, FS_RemoveElement
  <2>3. PICK u : rest \ {t} = {u}
    BY <2>2, FS_Singleton
  <2>4. t \in active /\ u \in active /\ Pool \subseteq found[s] \cup (found[t] \cup found[u])
    BY <1>4, <2>1, <2>3
  <2>5. /\ IsFiniteSet(found[t] \cup found[u])
        /\ Cardinality(found[t] \cup found[u])
              = Cardinality(found[t]) + Cardinality(found[u]) - Cardinality(found[t] \cap found[u])
        /\ Cardinality(found[t] \cap found[u]) \in Nat
    BY <1>3, <2>4, FS_Union, FS_Intersection, FS_CardinalityType
  <2>6. /\ Cardinality(found[t]) \in Nat /\ Cardinality(found[t]) <= Asked
        /\ Cardinality(found[u]) \in Nat /\ Cardinality(found[u]) <= Asked
    BY <1>3, <2>4
  <2>7. Cardinality(found[t] \cup found[u]) <= 2 * Asked
    BY <1>2, <2>5, <2>6
  <2>8. (Cardinality(active) - 1) * Asked = 2 * Asked
    BY <1>8
  <2>9. QED
    BY <2>4, <2>5, <2>7, <2>8
<1>9. QED
  BY <1>2, <1>6, <1>7, <1>8

(* With the code's limit of 8, two shares of three leave room for a third source. *)
LEMMA SharesLeaveRoom ==
  ASSUME Limit = 5 \/ Limit >= 7, NEW n \in 1 .. 3
  PROVE  (n - 1) * Share(n) < Limit
<1>1. Limit \in Nat
  BY SearchAssumption
<1>2. CASE n = 1
  BY <1>1, <1>2 DEF Share
<1>3. CASE n = 2
  BY <1>1, <1>3 DEF Share
<1>4. CASE n = 3
  BY <1>1, <1>4 DEF Share
<1>5. QED
  BY <1>2, <1>3, <1>4

-----------------------------------------------------------------------------

(* No source is crowded out of the bundle while three are active at most, and none    *)
(* gives more than it was asked for, whatever the sources hold and in whatever order  *)
(* they answer (registry.py:71, 81-84). The code's limit is 8; with a limit of 6, two *)
(* shares of three fill the bundle, and with 4 or less two shares of two do.          *)
THEOREM SourcesAreHeard ==
  ASSUME Limit = 5 \/ Limit >= 7
  PROVE  SpecSearch => []EverySourceHeard
<1>1. ASSUME SearchInv PROVE EverySourceHeard
  <2> SUFFICES ASSUME phase = "done", NEW s \in active
               PROVE  /\ Cardinality(found[s]) <= Asked
                      /\ Cardinality(active) <= 3 /\ at[s] = "answered" /\ found[s] # {} =>
                            \E h \in bundle.hits : h.by = s
    BY DEF EverySourceHeard
  <2>1. /\ TypedSearch /\ MergeInv /\ SourceInv(s)
        /\ Pool \in SUBSET Hit /\ IsFiniteSet(Pool)
        /\ \A h \in found[s] : h.by = s
        /\ at[s] = "answered" => found[s] \subseteq Pool
    BY <1>1, PoolFacts DEF SearchInv
  <2>2. Cardinality(found[s]) <= Asked
    BY <2>1 DEF SourceInv
  <2>3. ASSUME Cardinality(active) <= 3, at[s] = "answered", found[s] # {}
        PROVE  \E h \in bundle.hits : h.by = s
    <3>1. PICK others : /\ IsFiniteSet(others)
                        /\ Pool \subseteq found[s] \cup others
                        /\ Cardinality(others) <= (Cardinality(active) - 1) * Asked
      BY <1>1, <2>3, OthersFill
    <3>2. /\ Cardinality(active) \in 1 .. 3 /\ Asked \in Nat
          /\ Limit \in Nat /\ Cardinality(others) \in Nat
      BY <2>1, <2>3, <3>1, AskedFacts, SearchAssumption, FS_CardinalityType
    <3>3. (Cardinality(active) - 1) * Asked < Limit
      BY <3>2, SharesLeaveRoom DEF Asked
    <3>4. Cardinality(others) < Limit
      BY <3>1, <3>2, <3>3
    <3>5. \E h \in found[s] : h \in Best(Pool, Limit)
      BY <2>1, <2>3, <3>1, <3>2, <3>4, RoomIsTaken
    <3>6. bundle.hits = Best(Pool, Limit)
      BY <2>1 DEF MergeInv
    <3>7. QED
      BY <2>1, <3>5, <3>6
  <2>4. QED
    BY <2>2, <2>3
<1>2. QED
  BY <1>1, SearchInvariant, PTL

(* The cut a source makes and the cut of the registry agree: the best match of what  *)
(* the files or the index read is in the bundle, unless the bundle is full of better *)
(* hits, and they read all there is but for what a walk could not read or did not    *)
(* come to (local_files.py:73-82, 106-107, store.py:183-184, registry.py:81-84).     *)
THEOREM BestMatchesAreKept == SpecSearch => []BestMatchKept
<1>1. ASSUME SearchInv PROVE BestMatchKept
  <2>0. ASSUME NEW s \in active, at[s] = "answered", Kind[s] \in {"files", "index"}
        PROVE  \/ walked[s] = corpus[s]
               \/ Kind[s] = "files" /\ (s \in erred \/ Cardinality(walked[s]) = MaxFiles)
    BY <1>1, <2>0 DEF SearchInv, TypedSearch, SourceInv, Accounted
  <2> SUFFICES ASSUME phase = "done", NEW s \in active, at[s] = "answered",
                      Kind[s] \in {"files", "index"}, NEW h \in Matching(walked[s]),
                      \A g \in Matching(walked[s]) : ~Before(g, h), h \notin bundle.hits
               PROVE  Cardinality({g \in bundle.hits : Before(g, h)}) >= Limit
    BY <2>0 DEF BestMatchKept
  <2>1. /\ TypedSearch /\ MergeInv /\ SourceInv(s) /\ s \in Sources
        /\ Pool \in SUBSET Hit /\ IsFiniteSet(Pool) /\ found[s] \subseteq Pool
    BY <1>1, PoolFacts DEF SearchInv
  <2>2. Asked \in Nat /\ Asked >= 2
    BY <2>1, AskedFacts
  <2>3. h \in found[s]
    <3>1. {g \in Matching(walked[s]) : Before(g, h)} = {}
      OBVIOUS
    <3>2. Cardinality({g \in Matching(walked[s]) : Before(g, h)}) = 0
      BY <3>1, FS_EmptySet
    <3>3. h \in Best(Matching(walked[s]), IF Asked < 20 THEN Asked ELSE 20)
      BY <2>2, <3>2 DEF Best
    <3>4. QED
      BY <2>1, <3>3 DEF SourceInv, RankedHits
  <2>4. bundle.hits = Best(Pool, Limit) /\ Limit \in Nat
    BY <2>1, SearchAssumption DEF MergeInv
  <2>5. /\ Cardinality(Best(Pool, Limit)) = Limit
        /\ \A g \in Best(Pool, Limit) : Before(g, h)
    BY <2>1, <2>3, <2>4, BestIsFull
  <2>6. {g \in bundle.hits : Before(g, h)} = Best(Pool, Limit)
    BY <2>4, <2>5
  <2>7. QED
    BY <2>4, <2>5, <2>6
<1>2. QED
  BY <1>1, SearchInvariant, PTL

(* A source the bundle has nothing of was noted, or answered with nothing, or was cut *)
(* from a full bundle; a source with a note gives nothing; and an error of the index  *)
(* or of a vector service is noted. Of what the files, web and git sources pass over  *)
(* it says nothing: they answer with less and leave no note (registry.py:74-87).      *)
THEOREM SilencesAreExplained == SpecSearch => []SilenceIsExplained
<1>1. ASSUME SearchInv PROVE SilenceIsExplained
  <2> SUFFICES ASSUME phase = "done" PROVE SilenceIsExplained
    BY DEF SilenceIsExplained
  <2>1. MergeInv /\ Pool \in SUBSET Hit /\ IsFiniteSet(Pool) /\ Limit \in Nat /\ Limit # 0
    BY <1>1, PoolFacts, SearchAssumption DEF SearchInv
  <2>2. CASE active = {}
    BY <2>1, <2>2 DEF MergeInv, SilenceIsExplained
  <2>3. CASE active # {}
    <3>1. /\ \A s \in active : at[s] \in {"answered", "failed"}
          /\ bundle.mode = IF Pool = {} THEN "connected_no_hits" ELSE "connected"
          /\ bundle.hits = Best(Pool, Limit)
          /\ bundle.notes = {s \in active : at[s] = "failed"}
      BY <2>1, <2>3 DEF MergeInv
    <3>2. ASSUME NEW s \in active, \A h \in bundle.hits : h.by # s
          PROVE  \/ s \in bundle.notes
                 \/ at[s] = "answered" /\ (found[s] = {} \/ Cardinality(bundle.hits) = Limit)
      <4>1. SUFFICES ASSUME at[s] = "answered", found[s] # {}
                     PROVE  Cardinality(bundle.hits) = Limit
        BY <3>1
      <4>2. PICK h \in found[s] : h.by = s /\ h \in Pool
        BY <1>1, <4>1, PoolFacts
      <4>3. h \notin Best(Pool, Limit)
        BY <3>1, <3>2, <4>2
      <4>4. QED
        BY <2>1, <3>1, <4>2, <4>3, BestIsFull
    <3>3. ASSUME NEW h \in bundle.hits PROVE h.by \in active \ bundle.notes
      <4>1. h \in Pool
        BY <2>1, <3>1, BestCount
      <4>2. PICK s \in active : at[s] = "answered" /\ h \in found[s]
        BY <1>1, <4>1, PoolFacts
      <4>3. h.by = s
        BY <1>1, <4>2, PoolFacts
      <4>4. QED
        BY <3>1, <4>2, <4>3
    <3>4. ASSUME NEW s \in active \cap erred, Kind[s] \in {"index", "vector"} PROVE s \in bundle.notes
      BY <3>4, <1>1, <3>1, PoolFacts DEF SourceInv
    <3>5. (bundle.mode = "connected") <=> (bundle.hits # {})
      <4>1. Best({}, Limit) = {}
        BY DEF Best
      <4>2. ASSUME Pool # {} PROVE Best(Pool, Limit) # {}
        <5>1. Cardinality(Pool) \in Nat /\ Cardinality(Pool) # 0
          BY <2>1, <4>2, FS_EmptySet, FS_CardinalityType
        <5>2. Cardinality(Best(Pool, Limit)) # 0
          BY <2>1, <5>1, BestCount
        <5>3. QED
          BY <5>2, FS_EmptySet
      <4>3. QED
        BY <3>1, <4>1, <4>2
    <3>6. QED
      BY <3>2, <3>3, <3>4, <3>5 DEF SilenceIsExplained
  <2>4. QED
    BY <2>2, <2>3
<1>2. QED
  BY <1>1, SearchInvariant, PTL

-----------------------------------------------------------------------------
(* The window.                                                             *)

(* What a rendering has used and what it has left make up its limit and    *)
(* its separators.                                                         *)
Counted ==
    Rendering =>
        /\ left <= RenderLimit
        /\ placed = <<>> => length = 0 /\ left = RenderLimit
        /\ placed # <<>> => length + left = RenderLimit + Sep * (Len(placed) - 1)

(* How far each stage has brought the text and the notes.                  *)
Staged ==
    /\ pc = "sizing" => blocks = hits /\ notes = <<>> /\ read = 0 /\ sized = 0
    /\ pc = "reading" => blocks = hits /\ sized > Threshold
    /\ read <= sized
    /\ pc \in {"window", "done"} =>
          /\ blocks = notes \o hits
          /\ sized > Threshold => read >= MinOf(sized, Span)
    /\ pc = "done" /\ hits # <<>> => placed # <<>>

IInv == TypeOK /\ Counted /\ RenderIsPrefix /\ Staged

LEMMA InitInv == Init => IInv
<1> SUFFICES ASSUME Init PROVE IInv
  OBVIOUS
<1> USE ContextAssumption DEF Init
<1>1. hits \in Seq(Size)
  OBVIOUS
<1>2. TypeOK
  BY <1>1 DEF TypeOK, Size
<1>3. Counted
  BY DEF Counted, Rendering, RenderLimit
<1>4. RenderIsPrefix
  BY <1>1 DEF RenderIsPrefix
<1>5. Staged
  BY DEF Staged
<1> QED
  BY <1>2, <1>3, <1>4, <1>5 DEF IInv

(* What a step of the rendering loop does to the text.                     *)
LEMMA PlaceKeeps ==
  ASSUME IInv, Place
  PROVE  IInv'
<1> DEFINE k == Len(placed) + 1
           n == PlacedLength(blocks[k])
<1> USE ContextAssumption
<1>1. /\ placed \in Seq(Size) /\ blocks \in Seq(Size)
      /\ left \in Nat /\ length \in Nat /\ left > 0
      /\ k \in 1 .. Len(blocks) /\ blocks[k] \in Size
  BY DEF IInv, TypeOK, Place, MorePlaced, Size
<1>2. n \in Size /\ n <= left /\ n <= blocks[k] /\ (n = blocks[k] \/ n = left)
  BY <1>1 DEF PlacedLength, MinOf, Size
<1>3. /\ placed' = Append(placed, n) /\ left' = left - n
      /\ length' = IF placed = <<>> THEN n ELSE length + Sep + n
      /\ UNCHANGED <<pc, hits, blocks, sized, read, notes>>
  BY DEF Place
<1>4. Rendering
  BY DEF Place
<1> HIDE DEF n, k
<1>5. /\ Len(placed') = k
      /\ \A i \in 1 .. Len(placed) : placed'[i] = placed[i]
      /\ placed'[k] = n
      /\ placed' # <<>>
  BY <1>1, <1>2, <1>3 DEF k, Size
<1>6. TypeOK'
  <2>1. placed' \in Seq(Size)
    BY <1>1, <1>2, <1>3
  <2>2. left' \in Nat /\ length' \in Nat
    BY <1>1, <1>2, <1>3 DEF Size
  <2> QED
    BY <1>3, <2>1, <2>2 DEF IInv, TypeOK
<1>7. RenderLimit' = RenderLimit /\ RenderLimit \in Nat /\ Rendering'
  BY <1>3, <1>4 DEF RenderLimit, Rendering, Size
<1>8. Counted'
  <2>1. left' <= RenderLimit'
    BY <1>1, <1>2, <1>3, <1>4, <1>7 DEF IInv, Counted, Size
  <2>2. length' + left' = RenderLimit + Sep * (k - 1)
    <3>1. CASE placed = <<>>
      <4>1. k - 1 = 0 /\ Sep * (k - 1) = 0
        BY <3>1, <1>1 DEF k
      <4> QED
        BY <3>1, <4>1, <1>1, <1>2, <1>3, <1>4, <1>7 DEF IInv, Counted, Size
    <3>2. CASE placed # <<>>
      <4>1. length + left = RenderLimit + Sep * (Len(placed) - 1)
        BY <3>2, <1>4 DEF IInv, Counted
      <4>2. Sep * (k - 1) = Sep * (Len(placed) - 1) + Sep
        <5>1. \A a, b \in Int : a * (b + 1 - 1) = a * (b - 1) + a
          OBVIOUS
        <5> QED
          BY <5>1, <1>1 DEF k
      <4>3. Sep * (Len(placed) - 1) \in Int
        BY <1>1
      <4> QED
        BY <3>2, <4>1, <4>2, <4>3, <1>1, <1>2, <1>3, <1>7, SMTT(30) DEF Size
    <3> QED
      BY <3>1, <3>2
  <2> QED
    BY <2>1, <2>2, <1>5, <1>7 DEF Counted
<1>9. RenderIsPrefix'
  <2>1. \A i \in 1 .. Len(placed) : placed[i] = blocks[i]
    BY <1>1, <1>4 DEF IInv, RenderIsPrefix
  <2>2. placed'[k] = blocks[k] \/ (placed'[k] < blocks[k] /\ left' = 0)
    BY <1>1, <1>2, <1>3, <1>5 DEF Size
  <2>3. Len(placed') <= Len(blocks')
    BY <1>1, <1>3, <1>5
  <2>4. ASSUME NEW i \in 1 .. Len(placed')
        PROVE  \/ placed'[i] = blocks'[i]
               \/ i = Len(placed') /\ placed'[i] < blocks'[i] /\ left' = 0
    <3>1. CASE i = k
      BY <3>1, <2>2, <1>3, <1>5
    <3>2. CASE i # k
      <4>1. i \in 1 .. Len(placed)
        BY <3>2, <2>4, <1>5, <1>1 DEF k
      <4> QED
        BY <4>1, <2>1, <1>3, <1>5
    <3> QED
      BY <3>1, <3>2
  <2> QED
    BY <2>3, <2>4 DEF RenderIsPrefix
<1>10. Staged'
  BY <1>3, <1>5 DEF IInv, Staged, MinOf
<1> QED
  BY <1>6, <1>8, <1>9, <1>10 DEF IInv

(* The rendering of a bundle for the working set starts from nothing.      *)
LEMMA WindowOpens ==
  ASSUME NEW texts \in Seq(Size), OpenWindow(texts)
  PROVE  Counted' /\ RenderIsPrefix' /\ placed' \in Seq(Size) /\ left' \in Nat /\ length' \in Nat
<1> USE ContextAssumption DEF OpenWindow, Size
<1>1. Counted'
  BY DEF Counted, Rendering, RenderLimit
<1>2. RenderIsPrefix'
  BY DEF RenderIsPrefix
<1> QED
  BY <1>1, <1>2

LEMMA NextInv == IInv /\ [Next]_vars => IInv'
<1> SUFFICES ASSUME IInv, [Next]_vars PROVE IInv'
  OBVIOUS
<1> USE ContextAssumption
<1>t. TypeOK /\ Counted /\ RenderIsPrefix /\ Staged
  BY DEF IInv
<1>1. CASE Place
  BY <1>1, PlaceKeeps
<1>2. CASE Small
  <2>1. OpenWindow(blocks) /\ blocks \in Seq(Size)
    BY <1>2, <1>t DEF Small, TypeOK
  <2>2. TypeOK'
    BY <1>2, <1>t, <2>1, WindowOpens DEF Small, TypeOK, OpenWindow
  <2>3. Staged'
    <3>1. notes \o hits = hits
      BY <1>2, <1>t DEF Small, Staged, TypeOK
    <3> QED
      BY <3>1, <1>2, <1>t DEF Small, Staged, OpenWindow, MinOf, TypeOK, Size
  <2> QED
    BY <2>1, <2>2, <2>3, WindowOpens DEF IInv
<1>3. CASE Large
  <2>1. TypeOK'
    BY <1>3, <1>t DEF Large, TypeOK
  <2>2. Counted' /\ RenderIsPrefix'
    BY <1>3 DEF Large, Counted, RenderIsPrefix, Rendering
  <2>3. Staged'
    BY <1>3, <1>t DEF Large, Staged, MinOf, TypeOK
  <2> QED
    BY <2>1, <2>2, <2>3 DEF IInv
<1>4. ASSUME NEW note \in NoteSizes, ReadChunk(note) PROVE IInv'
  <2>1. read' \in Nat /\ read' <= sized
    BY <1>4, <1>t DEF ReadChunk, TypeOK, MinOf, Size, Staged
  <2>2. notes' \in Seq(Size)
    <3>1. notes \in Seq(Size) /\ note \in Nat /\ notes' = IF note = 0 THEN notes ELSE Append(notes, note)
      BY <1>4, <1>t DEF ReadChunk, TypeOK
    <3>2. note # 0 => note \in Size
      BY <3>1 DEF Size
    <3> QED
      BY <3>1, <3>2
  <2>3. TypeOK'
    BY <1>4, <1>t, <2>1, <2>2 DEF ReadChunk, TypeOK
  <2>4. Counted' /\ RenderIsPrefix'
    BY <1>4 DEF ReadChunk, Counted, RenderIsPrefix, Rendering
  <2>5. Staged'
    BY <1>4, <1>t, <2>1 DEF ReadChunk, Staged, MinOf, TypeOK
  <2> QED
    BY <2>3, <2>4, <2>5 DEF IInv
<1>5. CASE ChunkFails
  <2>1. TypeOK'
    BY <1>5, <1>t DEF ChunkFails, TypeOK
  <2>2. Counted' /\ RenderIsPrefix'
    BY <1>5 DEF ChunkFails, Counted, RenderIsPrefix, Rendering
  <2>3. Staged'
    BY <1>5, <1>t DEF ChunkFails, Staged, MinOf, TypeOK
  <2> QED
    BY <2>1, <2>2, <2>3 DEF IInv
<1>6. CASE Condense
  <2>1. OpenWindow(notes \o blocks) /\ notes \o blocks \in Seq(Size)
    BY <1>6, <1>t DEF Condense, TypeOK
  <2>2. TypeOK'
    BY <1>6, <1>t, <2>1, WindowOpens DEF Condense, TypeOK, OpenWindow
  <2>3. Staged'
    BY <1>6, <1>t DEF Condense, Staged, OpenWindow, MoreRead, MinOf, TypeOK, Size
  <2> QED
    BY <2>1, <2>2, <2>3, WindowOpens DEF IInv
<1>7. CASE Answer
  <2>1. TypeOK'
    BY <1>7, <1>t DEF Answer, TypeOK
  <2>2. Counted' /\ RenderIsPrefix'
    BY <1>7 DEF Answer, Counted, RenderIsPrefix, Rendering
  <2>3. hits # <<>> => placed # <<>>
    <3>1. SUFFICES ASSUME hits # <<>>, placed = <<>> PROVE FALSE
      OBVIOUS
    <3>2. left = Window /\ Window > 0
      BY <3>1, <1>7, <1>t DEF Answer, Counted, Rendering, RenderLimit, Size
    <3>3. Len(blocks) <= Len(placed)
      BY <1>7, <3>2, <1>t DEF Answer, MorePlaced, TypeOK
    <3>4. hits \in Seq(Size) /\ notes \in Seq(Size) /\ Len(hits) > 0
      BY <3>1, <1>t DEF TypeOK
    <3>5. blocks = notes \o hits
      BY <1>7, <1>t DEF Answer, Staged
    <3>6. Len(blocks) > 0
      BY <3>4, <3>5
    <3> QED
      BY <3>1, <3>3, <3>6
  <2>4. Staged'
    BY <1>7, <1>t, <2>3 DEF Answer, Staged, MinOf, TypeOK
  <2> QED
    BY <2>1, <2>2, <2>4 DEF IInv
<1>8. CASE UNCHANGED vars
  BY <1>8, <1>t DEF vars, IInv, TypeOK, Counted, RenderIsPrefix, Staged, Rendering, RenderLimit, MinOf
<1> QED
  BY <1>1, <1>2, <1>3, <1>4, <1>5, <1>6, <1>7, <1>8 DEF Next, Ended

LEMMA Inductive == Spec => []IInv
<1> QED
  BY InitInv, NextInv, PTL DEF Spec

(* The state is always of its type (types.py:132-144,                      *)
(* recursive_context.py:12-49).                                            *)
THEOREM TypeCorrect == Spec => []TypeOK
<1>1. IInv => TypeOK
  BY DEF IInv
<1> QED
  BY <1>1, Inductive, PTL

(* No rendering outgrows its limit by more than the blank lines between    *)
(* its blocks (types.py:132-144).                                          *)
THEOREM RenderingsAreBounded == Spec => []RenderBounded
<1>1. IInv => RenderBounded
  <2> SUFFICES ASSUME IInv, Rendering, placed # <<>>
               PROVE  length <= RenderLimit + Sep * (Len(placed) - 1)
    BY DEF RenderBounded
  <2>1. length + left = RenderLimit + Sep * (Len(placed) - 1) /\ left \in Nat /\ length \in Nat
    BY DEF IInv, Counted, TypeOK
  <2>2. RenderLimit \in Nat /\ Sep * (Len(placed) - 1) \in Int
    BY ContextAssumption DEF RenderLimit, Size, IInv, TypeOK
  <2> QED
    BY <2>1, <2>2
<1> QED
  BY <1>1, Inductive, PTL

(* A rendering is a prefix of its bundle, cut only where the limit is used *)
(* up (types.py:135-143).                                                  *)
THEOREM RenderingsArePrefixes == Spec => []RenderIsPrefix
<1>1. IInv => RenderIsPrefix
  BY DEF IInv
<1> QED
  BY <1>1, Inductive, PTL

(* The calls read the text to its end or to the span                       *)
(* (recursive_context.py:24).                                              *)
THEOREM ChunksCover == Spec => []ChunksReadAll
<1>1. IInv => ChunksReadAll
  BY DEF IInv, Staged, ChunksReadAll
<1> QED
  BY <1>1, Inductive, PTL

(* What was retrieved reaches the working set and the verifier             *)
(* (recursive_context.py:34-46, loop.py:165).                              *)
THEOREM EvidenceIsSeen == Spec => []EvidenceReaches
<1>1. IInv => EvidenceReaches
  BY DEF IInv, Staged, EvidenceReaches
<1> QED
  BY <1>1, Inductive, PTL

(***************************************************************************)
(* Every rendering is the bounded front of its bundle (types.py:132-144).  *)
(***************************************************************************)
THEOREM RenderingsAreSound == Spec => []RenderingIsSound
BY RenderingsAreBounded, RenderingsArePrefixes, PTL DEF RenderingIsSound

(***************************************************************************)
(* No evidence is lost on its way to the model                             *)
(* (recursive_context.py:24-46).                                           *)
(***************************************************************************)
THEOREM EvidenceIsAlwaysRead == Spec => []EvidenceIsRead
BY ChunksCover, EvidenceIsSeen, PTL DEF EvidenceIsRead
=============================================================================
