-------------------------- MODULE ConnectorSearch ---------------------------
(***************************************************************************)
(* One search over the knowledge sources (connectors/): which sources are  *)
(* active, what each is asked for, how their answers, refusals and errors  *)
(* become the bundle of hits a turn works on.                              *)
(*                                                                         *)
(* The searches of the active sources run side by side. Files and the      *)
(* local index rank what matches and cut it; a vector service cuts its own *)
(* order; the web and git sources list candidates and read them one after  *)
(* the other. Numbers stand for identifiers and locators, for they have an *)
(* order; a score of zero is no match.                                     *)
(***************************************************************************)
EXTENDS Integers, FiniteSets

CONSTANTS
    Sources,        \* the sources, numbered in the order of the registry
    Kind,           \* [Sources -> Kinds]
    Corpora,        \* what the sources can hold: a set of [Sources -> SUBSET Hit]
    Limit,          \* 8: the hits of a bundle
    MaxFiles        \* 4000: the files one walk reads

Kinds == {"files", "index", "vector", "web", "git"}

\* A hit is by a source and labelled with a source: the index labels its
\* documents with the sources they were ingested from.
Hit == [by : Nat, source : Nat, locator : Nat, score : Nat]

ASSUME SearchAssumption ==
    /\ Sources \subseteq Nat /\ IsFiniteSet(Sources)
    /\ Kind \in [Sources -> Kinds]
    /\ Corpora \subseteq [Sources -> SUBSET Hit]
    /\ \A corpus \in Corpora, s \in Sources :
          IsFiniteSet(corpus[s]) /\ \A h \in corpus[s] : h.by = s
    /\ Limit \in Nat \ {0}
    /\ MaxFiles \in Nat \ {0}

VARIABLES
    corpus,         \* [Sources -> SUBSET Hit]: what a source would score, and how
    phase,          \* where the search is
    active,         \* the sources it asks
    at,             \* [Sources -> where the source's own search is]
    todo,           \* [Sources -> the listed candidates still to read]
    found,          \* [Sources -> its hits]
    walked,         \* history: [Sources -> what a search of files or of the index read]
    erred,          \* history: the sources one of whose requests or reads failed
    bundle          \* the RetrievalBundle

searchVars == <<corpus, phase, active, at, todo, found, walked, erred, bundle>>

NoBundle == [mode |-> "none", hits |-> {}, notes |-> {}]

\* The order of hits: score, then label, then locator, and a stable sort.
Before(g, h) ==
    \/ g.score > h.score
    \/ g.score = h.score /\ g.source < h.source
    \/ g.score = h.score /\ g.source = h.source /\ g.locator < h.locator
    \/ g.score = h.score /\ g.source = h.source /\ g.locator = h.locator /\ g.by < h.by

\* The first n of a set of hits.
Best(hits, n) == {h \in hits : Cardinality({g \in hits : Before(g, h)}) < n}

\* Mutant of Share: every source may fill the bundle.
ShareWhole(n) == Limit

\* What each of n active sources is asked for.
Share(n) ==
    IF Limit \div n + 1 > 2 THEN Limit \div n + 1 ELSE 2

Asked == Share(Cardinality(active))

InitSearch ==
    /\ corpus \in Corpora
    /\ phase = "idle"
    /\ active = {}
    /\ at = [s \in Sources |-> "idle"]
    /\ todo = [s \in Sources |-> {}]
    /\ found = [s \in Sources |-> {}]
    /\ walked = [s \in Sources |-> {}]
    /\ erred = {}
    /\ bundle = NoBundle

-----------------------------------------------------------------------------
(* The registry.                                                           *)

\* The available sources among those the turn names; each starts its search.
Activate(available) ==
    /\ phase = "idle"
    /\ available # {}
    /\ active' = available
    /\ at' = [s \in Sources |-> IF s \in available THEN "asked" ELSE "idle"]
    /\ phase' = "searching"
    /\ UNCHANGED <<corpus, todo, found, walked, erred, bundle>>

NothingConnected ==
    /\ phase = "idle"
    /\ bundle' = [NoBundle EXCEPT !.mode = "model_knowledge_only"]
    /\ phase' = "done"
    /\ UNCHANGED <<corpus, active, at, todo, found, walked, erred>>

\* Asking the index whether it is available reads the database: when that
\* raises, the search does.
StatusRaises ==
    /\ phase = "idle"
    /\ \E s \in Sources : Kind[s] = "index" /\ erred' = {s}
    /\ phase' = "raised"
    /\ UNCHANGED <<corpus, active, at, todo, found, walked, bundle>>

\* Mutant of Gather: a source that raised is passed over.
GatherQuietly ==
    /\ phase = "searching"
    /\ \A s \in active : at[s] \in {"answered", "failed"}
    /\ LET hits == UNION {found[s] : s \in {t \in active : at[t] = "answered"}}
       IN  bundle' = [mode |-> IF hits = {} THEN "connected_no_hits" ELSE "connected",
                      hits |-> Best(hits, Limit), notes |-> {}]
    /\ phase' = "done"
    /\ UNCHANGED <<corpus, active, at, todo, found, walked, erred>>

\* Every search has answered or raised: merge, rank, cut, note.
Gather ==
    /\ phase = "searching"
    /\ \A s \in active : at[s] \in {"answered", "failed"}
    /\ LET hits == UNION {found[s] : s \in {t \in active : at[t] = "answered"}}
       IN  bundle' = [mode |-> IF hits = {} THEN "connected_no_hits" ELSE "connected",
                      hits |-> Best(hits, Limit),
                      notes |-> {s \in active : at[s] = "failed"}]
    /\ phase' = "done"
    /\ UNCHANGED <<corpus, active, at, todo, found, walked, erred>>

-----------------------------------------------------------------------------
(* The sources.                                                            *)

Asks(s, kind, stage) == phase = "searching" /\ Kind[s] = kind /\ at[s] = stage

Becomes(s, stage) == at' = [at EXCEPT ![s] = stage]

Answers(s, hits) ==
    /\ found' = [found EXCEPT ![s] = hits]
    /\ Becomes(s, "answered")
    /\ UNCHANGED <<corpus, phase, active, todo, walked, erred, bundle>>

Matching(read) == {h \in read : h.score > 0}

\* Mutant of RankedHits: the matches are cut in the order of the walk.
UnrankedHits(read, n) ==
    {h \in Matching(read) : Cardinality({g \in Matching(read) : g.locator < h.locator}) < n}

\* Ranked here, cut at what was asked and never above 20.
RankedHits(read, n) == Best(Matching(read), IF n < 20 THEN n ELSE 20)

\* The source answers with the best of what it read.
Ranks(s, read) ==
    /\ walked' = [walked EXCEPT ![s] = read]
    /\ found' = [found EXCEPT ![s] = RankedHits(read, Asked)]
    /\ Becomes(s, "answered")
    /\ UNCHANGED <<corpus, phase, active, todo, bundle>>

\* A walk of the folder passes over the files and directories it cannot read, all of them
\* when the folder is gone, says so to nobody, and stops at MaxFiles files.
SearchFiles(s) ==
    /\ Asks(s, "files", "asked")
    /\ \E lost \in SUBSET corpus[s] : \E read \in SUBSET (corpus[s] \ lost) :
          /\ Cardinality(read) <= MaxFiles
          /\ read = corpus[s] \ lost \/ Cardinality(read) = MaxFiles
          /\ Ranks(s, read)
          /\ erred' = IF lost = {} THEN erred ELSE erred \cup {s}

SearchIndex(s) ==
    /\ Asks(s, "index", "asked")
    /\ Ranks(s, corpus[s])
    /\ UNCHANGED erred

\* The service answers in an order of its own, and may answer more than it was asked for.
SearchVector(s) ==
    /\ Asks(s, "vector", "asked")
    /\ \E hits \in SUBSET corpus[s] : Cardinality(hits) <= Asked /\ Answers(s, hits)

\* The web service's results, cut at what was asked.
ListResults(s) ==
    /\ Asks(s, "web", "asked")
    /\ \E results \in SUBSET corpus[s] :
          /\ Cardinality(results) <= Asked
          /\ todo' = [todo EXCEPT ![s] = results]
    /\ Becomes(s, "reading")
    /\ UNCHANGED <<corpus, phase, active, found, walked, erred, bundle>>

\* The files of the repositories: three candidates for every hit asked for.
ListBlobs(s) ==
    /\ Asks(s, "git", "asked")
    /\ \E blobs \in SUBSET corpus[s] :
          /\ Cardinality(blobs) <= 3 * Asked
          /\ todo' = [todo EXCEPT ![s] = blobs]
    /\ Becomes(s, "reading")
    /\ UNCHANGED <<corpus, phase, active, found, walked, erred, bundle>>

\* The git service refuses the list of repositories: no hits and no error.
ListRefused(s) ==
    /\ Asks(s, "git", "asked")
    /\ erred' = erred \cup {s}
    /\ Becomes(s, "answered")
    /\ UNCHANGED <<corpus, phase, active, todo, found, walked, bundle>>

\* A candidate is read; git stops when it has what it was asked for.
Read(s, h) ==
    /\ Asks(s, "web", "reading") \/ Asks(s, "git", "reading")
    /\ h.score > 0
    /\ found' = [found EXCEPT ![s] = @ \cup {h}]
    /\ todo' = [todo EXCEPT ![s] =
                   IF Kind[s] = "git" /\ Cardinality(found[s]) + 1 >= Asked THEN {} ELSE @ \ {h}]
    /\ UNCHANGED <<corpus, phase, active, at, erred, walked, bundle>>

\* Mutant of Skip: a candidate that cannot be read is read again.
SkipAndRetry(s, h) ==
    /\ Asks(s, "web", "reading") \/ Asks(s, "git", "reading")
    /\ erred' = erred \cup {s}
    /\ UNCHANGED <<corpus, phase, active, at, todo, found, walked, bundle>>

\* It has no text, cannot be read or does not match: it is left out.
Skip(s, h) ==
    /\ Asks(s, "web", "reading") \/ Asks(s, "git", "reading")
    /\ todo' = [todo EXCEPT ![s] = @ \ {h}]
    /\ erred' \in {erred, erred \cup {s}}
    /\ UNCHANGED <<corpus, phase, active, at, found, walked, bundle>>

EndReading(s) ==
    /\ Asks(s, "web", "reading") \/ Asks(s, "git", "reading")
    /\ todo[s] = {}
    /\ Answers(s, found[s])

\* A time-out, a refusal that raises, or an answer that cannot be parsed.
Raise(s) ==
    /\ phase = "searching" /\ at[s] \in {"asked", "reading"}
    /\ Becomes(s, "failed")
    /\ erred' = erred \cup {s}
    /\ UNCHANGED <<corpus, phase, active, todo, found, walked, bundle>>

Search(s) ==
    \/ SearchFiles(s) \/ SearchIndex(s) \/ SearchVector(s)
    \/ ListResults(s) \/ ListBlobs(s) \/ ListRefused(s)
    \/ (\E h \in todo[s] : Read(s, h) \/ Skip(s, h)) \/ EndReading(s)

Rests == phase \in {"done", "raised"} /\ UNCHANGED searchVars

NextSearch ==
    \/ \E available \in SUBSET Sources : Activate(available)
    \/ NothingConnected \/ StatusRaises
    \/ \E s \in Sources : Search(s) \/ Raise(s)
    \/ Gather
    \/ Rests

\* A request has a time-out: a source that has not raised goes on.
SpecSearch ==
    /\ InitSearch /\ [][NextSearch]_searchVars
    /\ \A s \in Sources : WF_searchVars(Search(s))
    /\ WF_searchVars(Gather)

-----------------------------------------------------------------------------
(* Properties.                                                             *)

(***************************************************************************)
(* Sources score on scales of their own, and still none that has a hit is  *)
(* crowded out of the bundle, as long as the shares of the others leave    *)
(* room: with the limit of 8, that is up to three active sources. With     *)
(* four, three shares of three fill it. And none gives more than it was    *)
(* asked for (registry.py:71, 81-84).                                      *)
(***************************************************************************)
EverySourceHeard ==
    phase = "done" => \A s \in active :
        /\ Cardinality(found[s]) <= Asked
        /\ Cardinality(active) <= 3 /\ at[s] = "answered" /\ found[s] # {} =>
              \E h \in bundle.hits : h.by = s

(***************************************************************************)
(* Each source cuts before the registry does, so the cuts must agree: the  *)
(* best match among what the search of the files or of the index read is   *)
(* in the bundle unless the bundle is full of better ones. What it did not *)
(* read, better or not, is missed: the files a walk could not read, or     *)
(* those after its first MaxFiles (local_files.py:73-82, 106-107,          *)
(* store.py:183-184, registry.py:81-84).                                   *)
(***************************************************************************)
BestMatchKept ==
    phase = "done" => \A s \in active : at[s] = "answered" /\ Kind[s] \in {"files", "index"} =>
        /\ \A h \in Matching(walked[s]) : (\A g \in Matching(walked[s]) : ~Before(g, h)) =>
              \/ h \in bundle.hits
              \/ Cardinality({g \in bundle.hits : Before(g, h)}) >= Limit
        /\ \/ walked[s] = corpus[s]
           \/ Kind[s] = "files" /\ (s \in erred \/ Cardinality(walked[s]) = MaxFiles)

(***************************************************************************)
(* A source that is connected and gives nothing was noted, or answered     *)
(* with nothing, or was cut from a full bundle; one with a note gives      *)
(* nothing; and the mode says whether there are hits (registry.py:74-87).  *)
(* An error of the index or of a vector service is always noted. One of    *)
(* the files, web or git source need not be: they pass over what they      *)
(* cannot read, and git over a refused list (local_files.py:73-78,         *)
(* web.py:39-55, gitea.py:31-32, 55-72), although docs/EXTENDING.md:40 has *)
(* connector errors "recorded as receipt notes".                           *)
(***************************************************************************)
SilenceIsExplained ==
    phase = "done" =>
        /\ \A s \in active : (\A h \in bundle.hits : h.by # s) =>
              \/ s \in bundle.notes
              \/ at[s] = "answered" /\ (found[s] = {} \/ Cardinality(bundle.hits) = Limit)
        /\ \A h \in bundle.hits : h.by \in active \ bundle.notes
        /\ \A s \in active \cap erred : Kind[s] \in {"index", "vector"} => s \in bundle.notes
        /\ (bundle.mode = "connected") <=> (bundle.hits # {})

(***************************************************************************)
(* A search ends, whatever its sources list, refuse or raise               *)
(* (registry.py:70-73; web.py:39-55, gitea.py:55-72).                      *)
(***************************************************************************)
SearchEnds == phase = "searching" ~> phase = "done"
=============================================================================
