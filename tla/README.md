# GRND0 in TLA+

A verification development of GRND0, the local-first compound-AI runtime of this
repository: TLA+ modules of its core, model-checked with TLC on small instances,
and theorems about them proved with TLAPS for every value of their constants.
The modules follow the source under `src/`; `PROJECT.json` maps each definition
to the lines it models. Nothing here claims that the program is free of other
errors; each result is about the code a module models.

## The system

One request to the endpoint is a *turn*. A single uvicorn process, the
**orchestrator**, runs each turn as a coroutine that makes between two and a
dozen model calls, one after the other, through a second process, the
**inference gateway**, which forwards each to a local or a cloud backend. The
turns' conversation states and receipts live in one SQLite file.

| Component | State it keeps | Operations | Talks to |
| --- | --- | --- | --- |
| Discourse reducer (`cognitive_loop/discourse.py`) | none; maps a spine to the next | `reduce_state`, `fold_updates`, `subject_menu` | called by store and comprehension |
| Runtime store (`store.py`) | tables `discourse_states`, `turns`, `knowledge_documents`; a thread lock; an asyncio lock per session | `discourse`, `commit_discourse`, `write_turn`, `last_turn`, `ingest_root`, `search_knowledge`, `knowledge_status` | SQLite; awaited by the loop and the routes |
| Comprehension (`comprehension.py`) | none | `resolve`, `compose` | provider |
| Cognitive loop (`loop.py`) | the locals of a turn, across every await | `run` | all of the above |
| Structured synthesis, recursive context, verification gate | locals of a turn | outline, sections, fold; condense; judge, abstain, label | provider |
| Provider client and lane router (`provider.py`, `routing.py`) | the lanes loaded at startup | `call`, `select` | gateway over HTTP, 300 s |
| Harness registry (`harness_registry.py`) | the harnesses loaded at startup | `require` | every model call |
| Inference gateway (`inference_gateway/app/main.py`) | the lanes file and the environment of its own start | `lane_backend`, `resolve_backend`, `chat` | backends over HTTP, 600 s |
| Connectors (`connectors/`) | none across calls | `search` per source, gathered by the registry | files, index, HTTP services |
| Web research (`web_research/app/main.py`) | none across calls; tabs of a browser | search, bounded fetch, browser reading | public web |
| Model tool (`tools/grnd0_models.py`) | the model directory | pull, generate, status | download hosts |
| HTTP surface (`api/routes.py`) | none | chat, messages, last turn, capabilities, ingestion | clients over HTTP; awaits the loop and the store |
| Client of the SDK (`sdk/python/grnd0/client.py`) | the user's transcript | `chat`, 300 s | HTTP surface |

`PROJECT.json` lists every component with its status, the unmodelled ones too
(settings, launchers, release scripts, data).

### What is hard

* **Interleaving.** Every await of a turn lets other turns run. A turn answers
  from a spine it read at its start and commits on top of a newer one.
* **Failure between two writes.** The spine and the receipt are two
  transactions; the process can stop, or the database fail, in between.
* **Partial failure inside a turn.** Each of eight harnesses may be missing, time
  out, or answer what cannot be read; some callers catch it, some do not.
* **Order.** The focused close comes before the gate, the gate before the
  commit, the commit before the receipt.
* **Clients.** A client that has given up does not stop its turn, and its retry is
  another turn of the same session; receipts are ordered by the time they were
  written and not by the commits they account for.
* **Walks of a changing world.** An ingestion reads a tree that changes under it; a
  pull hashes a file that another pull replaces; a configuration is generated
  from files looked at one by one.
* **One thread for everybody.** A capability probe waits for a thread lock on the
  event loop's own thread; the web service resolves names on its own.
* **Stale configuration.** Orchestrator and gateway read the same file at
  different times.
* **Limits.** The stack and the window of a spine, the chunks of a retrieval, the
  sections of an outline, the retries of an empty answer, the shares of the
  sources, the window of a working set, the cap of a walk.

### What makes each component correct

* *Reducer*: the spine is what the conversation was, cut to the most recent
  topics and turns; a redelivered recent turn changes nothing.
* *Store*: no update is lost, commits are atomic per session, a receipt names the
  commit it accounts for, an answered turn is durable, started turns end.
* *Comprehension*: a referent was in the conversation of its own session.
* *Loop and gate*: what is emitted is what was judged, under its status; nothing
  is answered from no evidence when evidence is required; the receipt's
  mode explains the route; a turn is bounded and ends.
* *Router and gateway*: selection is deterministic; a call is forwarded only with
  the grant of both; the receipt names what served it.
* *Clients and surface*: a transcript stays in one session; an answer belongs to
  its question; a turn reads every turn that had been answered; `last_turn` never
  goes back behind an answer.
* *Knowledge index*: a source's documents are replaced atomically by what one walk
  read; the walk is faithful to the tree; every call ends.
* *Connectors*: the errors of a source stay its own, and which of them a note
  explains is known; no source is crowded out; no best match of what was read is
  lost between two cuts.
* *Retrieval to working set*: a rendering is a bounded front of its bundle; the
  reduction reads what it was given; evidence reaches the model.
* *Web research*: every address the service takes is looked up first; an answer is
  one page's text; a search passes over no link without reason; requests end
  unless their own peer never does.
* *Model tool*: an artifact in place is the declared one; a pull that reports
  success is whole; a refusal changes nothing.

## The modules

| Module | Models | Kind |
| --- | --- | --- |
| `Discourse` | the spine, the reducer, the menu of referents | operators, no state |
| `SpineReducer` | one session's spine under deliveries and redeliveries | state machine |
| `Comprehension` | what `resolve` keeps of a model's answer | operators |
| `AtomicSpine` | what the store promises: a fold per commit, once, in one step | abstract specification |
| `TurnStore` | concurrent turns over the store: locks, transactions, failures, restarts | state machine, implements `AtomicSpine` |
| `TurnPipeline` | one turn of `CognitiveLoop.run`, every call and failure of it | state machine |
| `LaneRouting` | lanes file, router, gateway and a call between them | state machine |
| `Conversations` | clients, sessions, retries and `last_turn` over `TurnStore` | composition, extends `TurnStore` |
| `AtomicIndex` | what the index promises: a whole replacement in one step | abstract specification |
| `KnowledgeIndex` | ingestions, searches and probes over a tree, a lock and a table | state machine, implements `AtomicIndex` |
| `ConnectorSearch` | one search over all the sources | state machine |
| `ContextWindow` | rendering, reduction to notes, working set, by lengths | state machine |
| `WebResearch` | the requests of the web service on one event loop | state machine |
| `ModelPull` | overlapping pulls and generations over a model directory | state machine |
| `DiscourseProofs`, `TurnStoreProofs`, `TurnPipelineProofs`, `LaneRoutingProofs`, `KnowledgeIndexProofs`, `RetrievalProofs`, `WebResearchProofs`, `ModelPullProofs` | theorems | proofs |
| `MC*` | instances for TLC | definitions of constants |

`TurnStore` extends `Comprehension`, which extends `Discourse`: its commit is
`Reduce` itself and its updates are what `Resolutions` can produce from the
menu of the spine the turn read. `TurnStore` takes the work of a turn between
its read and its commit as one step, `Think`; `TurnPipeline` is that step in
full. The two are kept apart because nothing a turn does in between touches
what other turns see. In the same way the search of a turn is a number of hits in
`TurnPipeline`, and `ConnectorSearch` is how they come about, `ContextWindow` how
much of them a model gets to see. `Conversations` runs the actions of `TurnStore`
as they are and adds who asks for a turn, and who still waits for it.

### State and actions against the code

*TurnStore.* `db` and `receipts` are the tables; `queue[s]` is the asyncio lock of
session `s` with its waiters, first in, first out; `seen` is `spine_before`;
`before` is what `commit_discourse` read under the lock; `committed` is
`state_after.current_turn`. One action per await: `ReadSpine`, `Think`,
`ReadUnderLock`, `WriteSpine` (reduce and upsert), `LeaveLock`, `WriteReceipt`, each
with its failure, and `Restart`, after which the lock table is empty and the
running turns are gone. `log` is a history variable: what was written.

*TurnPipeline.* `pc` names the point of `run` that is next; `hits`, `notes`,
`chunk` are the retrieval and its condensation; `planned`, `section`, `authored`
the outline and its sections; `calls` is `calls`, the route of the receipt;
`mode`, `verification`, `content` go to the receipt and the response. History:
`tried` counts the calls made, `judged` is the text the gate was given, `verdict`
what came of it. A text is whether it is empty and whether it has a close.

*LaneRouting.* `deployed` is the operator's file and grants; `router` and
`gateway` are the copies the services hold; `stage`, `sent`, `served`, `route`
follow a call through `select`, `lane_backend`, `resolve_backend` and the record
in `calls`. The rank of a lane's name stands for the name. The two services read an
entry differently: the router makes names and backends strings and strips them,
the gateway compares the file's own name and its unstripped backend; `exact` and
`bare` say where that makes no difference.

*Conversations.* `transcript[c]` is what the client sends with every request;
`waiting[c]` the request it has open; `asked[t]` what a turn was called with;
`written` the table `turns` in the order of `created`. `Post` is the route's call of
`run`: its session is `SessionFor`, its query `latest_user`, and its first step
`ReadSpine`. `Serve` is any further step of a turn, `Respond` the route's answer with
or without tool calls, `GiveUp` the client's time-out. History: the turns that had
been answered when a turn began, the clients that have given up.

*KnowledgeIndex.* `disk` is the tree, which `Edit` changes at any time; `dir`, `todo`
and `docs` are the locals of `ingest`; `index` is the table; `lock` is `_db_lock` and
`loop` the probe that keeps the event loop's thread. A directory is listed in one
step and read file by file. `Replace` is the transaction, `Abort` its failure,
`Return` the coroutine's turn on the loop. History: what was on disk during a walk
and throughout it, the commits, the calls answered before a call began.

*ConnectorSearch.* `corpus` is what each source would score; `at`, `todo` and `found`
are its search under way; `bundle` is the `RetrievalBundle`. `Share` is what a source
is asked for, `Best` the sort and the cut, `Gather` the merge with the notes. The
walk of the files source passes over what it cannot read, any part of `corpus`, and
stops at `MaxFiles`; which files come first is the order of the walk, and any set
of that size may. History: `walked`, what a search of files or of the index read,
and `erred`.

*ContextWindow.* A text is its length. `blocks`, `placed`, `left` and `length` are a
rendering, block by block; `sized` is what the reduction was decided on, `read` and
`notes` what its calls read and answered. The same `Place` renders for the
decision and for the working set.

*WebResearch.* `pc`, `url`, `hop`, `page`, `waited`, `links`, `results` are the locals of
a request; `resolving` is the request inside `getaddrinfo`, during which nobody else
steps. `Permitted` and `Rejected` are `validate_url` in the fetch and at both ends of
the browser's reading, `KeepLink`, `SkipLink` and `LinkRaises` in a search. A look-up
of a page in `Sometimes` and not in `Always` may go either way each time, and an
address in `Malformed` raises what a search does not catch. `Wander` is the browser's
own navigation, which nothing in the service sees; `url` is where the browser is
from then on. A link stands for one entry of the list, so no link comes twice.
History: `cleared`, the addresses the look-ups of a request found public, each since
it was last redirected to.

*ModelPull.* `artifact` and `part` are the files; `held` is the open file a digest is
taken of; `config` is the serving configuration, `Torn` while it is written.
`Discard` is the clean-up of any failure, that of the rename included; `Strand` is
one that cannot remove the file. Every model has an artifact of its own name.

## The runs

| Run | Checks | Bounds, and why they are enough |
| --- | --- | --- |
| `reducer` | `MostRecentTopics`, `EntitiesAccumulate`, `RecentIsTheEnd`, `RecentDuplicatesIgnored` | stack and window of 2, 4 updates, 4 topics, two spellings of one: evictions, returns after an eviction and in another spelling, and duplicates in and out of the window all happen |
| `store` | `ReceiptsTruthful`, `ReferentsRemembered`, `AnsweredIsDurable`, `AtomicCommits`, `StartedTurnsEnd` | 3 turns of one session beside an idle one, stack and window of 2, 2 queries, 2 replies: a holder, a waiter and a turn still working on a stale spine at once, with every failure and restart |
| `turn` | `EmitGate`, `NothingFromNothing`, `ModeExplainsRoute`, `CallBudget`, `TurnEnds` | no hit or one (only none-or-some is told apart), up to 3 chunks, the code's 3 to 4 sections |
| `turn_grounding` | `GroundlessAbstains` (violated) | as `turn` |
| `routing` | `GrantedByBoth`, `RouteNamesTheServer`, `SelectionIgnoresOrder`, `AgreeingServicesAccept` | 11 files after `lanes.example.json` (a grant taken back, an endpoint not set, a backend moved, a lane renamed, a name twice, names and backends padded, one that does not load, stub mode, a provider declared and undeclared), 5 requests |
| `routing_cloud` | `CloudOnlyWhenAssigned` (violated) | one file with an enabled cloud lane |
| `conversations` | `AnswersFollowQuestions`, `PatientClientsInOrder`, `ReadsWhatWasAnswered`, `LastTurnRespectsAnswers` | 2 clients (one of two questions, one with the other's session in its header), 3 turns of the session and one of another: a retry overlaps the turn that was left, or a turn of the other client, and both overlap a restart |
| `index` | `WalkIsSound`, `IndexIsLastWalk`, `AnsweredIsIndexed`, `AtomicReplacement`, `CallsEnd` | 2 ingestions of one source, a search, a probe, 2 directories of 1 and 2 files of which one is missing at the start, a cap of 1, 1 edit: the cap is reached in either directory, a listed file vanishes, a walk overtakes another |
| `connectors` | `EverySourceHeard`, `BestMatchKept`, `SilenceIsExplained`, `SearchEnds` | a folder, vector, web and git services and the index, with up to 4 hits each, ties included, 2 corpora, a limit of 5, a walk of 3 files: the shares and the walk are smaller than what sources hold, any files are lost, and a source may score above or like the others |
| `context` | `RenderingIsSound`, `EvidenceIsRead` | every bundle of up to 5 hits of up to 16000 characters, in units of 4000, at the least threshold: more than the window, the threshold, the span and the rendering's limit |
| `web` | `OnlyCheckedPages`, `AnswerIsOnePage`, `ResultsComplete`, `RequestEnds` | 2 requests, 3 pages (one always public and endless, one of text whose look-ups differ, one malformed), 3 hops, 2 messages, 1 result: each limit is reached, each look-up goes either way, a search meets a link that is refused or raises, the browser goes from any page to any other |
| `models` | `PullOutcome`, `GenerationOutcome`, `InstallsAreAtomic` | 2 pulls of 2 models, each forced or not, over any earlier files; generations without bound |

A property that is a conjunction names its parts: `WalkIsSound` is that a walk is
faithful to the tree and bounded by the cap, `RenderingIsSound` that a rendering
is a front of its bundle and bounded, `EvidenceIsRead` that chunks read to the
end or the span and that evidence reaches the working set, `PullOutcome` that a
pull that reports success is whole and that a temporary file stays only after an
interruption or a removal that failed, `GenerationOutcome` that required models are
there, that a refusal keeps the configuration and that a success leaves it whole.
`EntitiesAccumulate` is `FirstTurns`, that a frame's first turn is the one its topic
last came on the stack with according to the whole history, and `EntitiesOfTurns`,
that it has the entities of exactly the turns since then. The type invariants are theorems and no
property of a run.

`MaxUpdates` bounds the updates of a behaviour of `SpineReducer`; turns are a
finite set in `TurnStore`; a turn of `TurnPipeline` is finite by itself; in
`LaneRouting` one call is in flight, because calls share nothing but the two
configurations. `MaxQuestions` bounds what a client of `Conversations` asks and
`MaxEdits` the edits of `KnowledgeIndex`. `SpineReducer` stops when its updates are
used up, `Conversations` when its turns are, `ModelPull` when its pulls have ended
and a generation has nothing left to find out; their runs do not check for
deadlock; all others do. `conversations` alone uses symmetry, of the turns of one
session; it has no liveness.

Each property of a passing run has a mutant in `PROJECT.json`: a definition changed
as a plausible bug would (a stale write, a lock not waited for, a failure that is
swallowed, a grant not looked at), under which the property fails. The mutants
stand in the modules before the definitions they mutate and are used nowhere.

### Where documents and code differ

Two runs show what a document of the repository says and the code does not do,
each with a property of its own that quotes it and an entry under `findings`:

1. `GroundlessAbstains`: a tool call passes the gate unjudged (CONCEPTS.md:79).
2. `CloudOnlyWhenAssigned`: the router falls back to lanes of other roles, the
   cloud one included (INFERENCE.md:77-82).

Others were met while modelling; the modules have the code's behaviour, and the
properties claim what it does keep:

* A duplicate update is recognised only among the last twelve turns
  (ARCHITECTURE.md:23); `RecentDuplicatesIgnored` is about those.
* A stop or an error between the two transactions leaves a committed turn without
  a receipt (README.md:26); `AnsweredIsDurable` is about turns that were answered.
* A call that failed and was caught is not in the route (EXTENDING.md:22);
  `ModeExplainsRoute` counts the calls that are.
* A verdict whose issues cannot be iterated ends the turn (CONCEPTS.md:79).
* A missing verification harness is taken for an unavailable verifier
  (ARCHITECTURE.md:84).
* The files source passes over files and directories it cannot read
  (local_files.py:73-78), the web source over pages and the git source over files and
  a refused list of repositories, all without a note, and a database error in the
  status of the index fails the search and the turn, although connector errors are
  to be receipt notes (EXTENDING.md:40). `SilenceIsExplained` therefore claims a note
  for the errors of the index and of vector services only, and is about searches
  that end with a bundle.
* The web service "follows only validated redirect hops" (CONNECTING-DATA.md:66):
  its own, yes, and `OnlyCheckedPages` is about those. `client.get` looks the name up
  once more after the check (main.py:79), and nothing relates the two look-ups; and
  a rendered page is asked for again by the browser, whose redirects and scripts
  lead anywhere before the last address alone is looked at (main.py:92-109).
  `Wander` has those steps; no property is claimed of the pages they pass.
* A lane or backend name with blanks around it, or a lane name that is a number,
  is selected by the router and refused by the gateway that has the same file
  (routing.py:45, 55; inference gateway main.py:103, 106); `AgreeingServicesAccept`
  says when the two agree.
* A page or a server that keeps sending keeps its request for ever
  (web research main.py:79, 105-110); `RequestEnds` excepts it.
* What lies past six chunks of 8000 characters enters no chunk, and notes can fill
  the working set's window so that no block labelled with its source is left in
  it (CONNECTING-DATA.md:52).

### Fairness

`TurnStore`: weak fairness of each turn's own steps. The event loop runs every
ready coroutine, an `asyncio.Lock` serves its waiters in order, a database call
returns, a model call times out after 300 s. Arrivals, failures and restarts are
not promised. `TurnPipeline`: weak fairness of the steps of the turn together, for
the same reasons; no answer of a model is promised, only that it comes or fails.
`KnowledgeIndex`: weak fairness of each call's own steps: threads are scheduled,
the database answers or raises; arrivals, edits, failures and restarts are not
promised, and a probe that keeps the loop keeps everybody's `Return` from being
enabled.
`ConnectorSearch`: weak fairness of each source's search and of the merge; every
request has a time-out of 20 to 45 s, whose error is `Raise`, which is not promised.
`WebResearch`: strong fairness of each request's steps, since a step is disabled
whenever another request's name is being resolved; the event loop serves ready
coroutines in turn, and resolver, servers and browser answer or are given up. The
exception is a request that is getting or evaluating a page in `Endless`: the limits
of time there are those of one read (20 s) and of one message (3 s), so that a body
or messages that keep coming put no end to it. `Progress` leaves such a step out, and
`RequestEnds` is that every request ends that is not held so again and again,
whatever the others are held by. Nothing is promised of `Wander` or of arrivals.
Safety properties use no fairness, nor do `LaneRouting`, `Conversations`,
`ContextWindow` and `ModelPull`.

## What is proved

All theorems hold for any constants that satisfy the named assumptions of the
modules (`NamesAssumption`, `LimitsAssumption`, `UpdatesAssumption`, `ConversationAssumption`,
`TurnsAssumption`, `ClientsAssumption`, `PipelineAssumption`, `RoutingAssumption`,
`IndexAssumption`, `SearchAssumption`, `ContextAssumption`, `WebAssumption`, `PullAssumption`), which TLC
evaluates in every run of theirs.

* **Reducer** (`DiscourseProofs`): first of one fold, `ReduceTyped` and
  `ReduceWellFormed`: taking the first frame of a topic out of a well-formed
  stack leaves an order-preserving sequence without the topic; cutting it keeps
  its head. Then of a session under any deliveries, `SpineKeepsShape`,
  `StackIsRecency`, `EntitiesAreKept`, `WindowIsTheEnd`, `DuplicatesAreIgnored`: all the
  properties of `SpineReducer`, for any limits and number of turns. They compare the
  spine with its whole history, and the stack holds only the end of that. What
  makes it inductive is in `ReducerInv`: every frame is about the last turn of its
  topic (`FramesInv`), and a topic is missing only from a full stack all of whose
  frames are later (`MissingInv`); so an evicted topic stays behind whatever comes.
  A blank subject is folded as if the turn had named the subject it falls back to
  (`FoldedByName`), which is the one the history tells (`FiledNext`). That the i-th
  frame is the i-th most recent topic is then a count: the topics above it, which
  are distinct, are the newer ones. When a topic came on the stack is told by the
  history alone (`CameUp`): since each of its earlier turns as many other topics were
  discussed as the stack has room for. A frame's first turn is the last such turn
  (`FirstTurnsKept`): a topic that comes up was missing from a full stack of later
  ones (`ComesUp`), one that returns to its frame was not.
* **Store** (`TurnStoreProofs`): `TypeCorrect`, `WritesAreFresh`,
  `SpinesStayWellFormed`, `ReceiptsAreTruthful`, `ImplementsAtomicSpine`,
  `AnswersAreDurable`, `ReferentsAreRemembered`. No stated property is inductive
  alone. The invariant says who may be in a queue (a turn
  in at most one place of its own session's queue, exactly while it waits for or
  holds the lock), that only the head is past the read, that the row is the
  length of its log, which turns the log can have, and where a turn that has
  written stands in it. Freshness follows from the queue: between a turn's
  read and its write nobody else of its session is at its head. With it,
  `WriteSpine` maps to `Commit` of `AtomicSpine`, every other step to a stutter.
  For referents the invariant compares menus with what the session has named
  (`Spoken`): a spine offers no more, a stale one neither, and a turn adds its own
  subject and no other name.
* **Clients** (`TurnStoreProofs`, last part): `ClientsUseTheStore` shows that every
  step of the composition is one of the store's or leaves it alone, so that the
  theorems above hold under any clients; `AnswersFollow`,
  `ClientsAreRememberedInOrder`, `AnsweredTurnsAreRead`, `LastTurnIsCurrent` prove all
  the properties of `Conversations`. Their invariant says what each party knows:
  a transcript begins with a question (which settles its session), a turn that is
  waited for was asked the latest one, a client that never gave up waits for its
  only running turn, and receipts stand in an order that answers respect. That a
  set of positions has a last one is proved from the well-foundedness of `<`.
* **Turn** (`TurnPipelineProofs`): `TurnTypeCorrect`, `EmitGateHolds`,
  `NothingFromNothingHolds`, `CallsAreBounded`, `ModeExplains`. The invariant adds
  what each stop of the turn knows: of the evidence (a note or a chunk has a hit
  behind it), of the sections, of the gate (no verdict before it), of the calls
  made so far, and of those in the route, harness by harness (`RouteInv`): the mode
  is only explained at the end because every stop before it knows which calls the
  mode it has still allows.
* **Routing** (`LaneRoutingProofs`): `RoutingTypeCorrect`, `GrantsTakeBothServices`,
  `ReceiptNamesTheServer`, `SameFileSameRoute`, `SelectionIsDeterministic`. The
  invariant remembers where the lane in flight comes from: a configuration that
  loaded, of whose enabled lanes it is one, and a gateway that mapped it again.
  The selection is the first of a total order, which any nonempty set of places
  has, and reordering a file moves the candidates and nothing else.
  `SameFileSameRoute` compares the two readings of one file: a lane the gateway finds
  by name is the router's, when names are unique, unless the file pads it.
* **Knowledge index** (`KnowledgeIndexProofs`): `TypeCorrect`, `WalksAreSound`,
  `ImplementsAtomicIndex`, `RowsAreTheLastWalk`, `AnswersTakeEffect`. The walk's
  invariant says where each document of the tree is: read, still listed, in a
  directory to come, or left behind by the cap, so that a file that stayed is in
  one of the last three only before the end. The names of the tree are distinct,
  which makes a document's text unique. A call commits once because it holds the
  lock once.
* **Search** (`RetrievalProofs`, first part): `SourcesAreHeard`, `BestMatchesAreKept`,
  `SilencesAreExplained`, all the safety properties of `ConnectorSearch`. Hits are
  in a total order, ties included, so a cut after n keeps n hits or all of them
  (`BestCount`), and a hit that was cut has n better ones that were not
  (`BestIsFull`); the invariant says what each source may have found by each stage
  and that the bundle is the cut of what was found. What was read and not ranked is
  accounted for by `walked`. `SourcesAreHeard` has a
  hypothesis on the limit: it holds of the code's 8, of 5 and of any from 7 on,
  and fails of 6 or of 4 and less, where the shares of two sources fill the bundle.
* **Context** (`RetrievalProofs`, second part): `TypeCorrect`, `RenderingsAreSound`,
  `EvidenceIsAlwaysRead`, for any limits. The invariant accounts for a rendering:
  what was placed, its separators and what is left make up the limit.
* **Web research** (`WebResearchProofs`): `TypeCorrect`, `CheckedPages`,
  `AnswersAreOnePage`, `SearchesAreComplete`. The invariant says which stages have
  an address that was looked up since it was redirected to, and that the page of a
  fetch was one; of a search it says that every link of its page that all look-ups
  find public is kept or still to check, and that a link that is being looked up
  has a place left (`Kept`). With `Always` and `Sometimes` equal, look-ups agree and
  the pages checked are the public ones.
* **Model tool** (`ModelPullProofs`): `TypeCorrect`, `AtomicInstalls`,
  `PullsEndAsSaid`, `GenerationsEndAsSaid`. The invariant of a
  pull is that the models it has passed stay whole, because whatever any pull
  installs is the declared file.

### Only model-checked

* Liveness (`StartedTurnsEnd`, `TurnEnds`, `CallsEnd`, `SearchEnds`, `RequestEnds`): the
  prover does not handle `ENABLED`. Every safety and action property of a passing
  run, and both refinements, are theorems.
* That `FoldUpdates`, a fold over a whole sequence, ends in what a session reaches
  turn by turn: an induction over data. The theorems about `SpineReducer` are of its
  steps, each of them one `Reduce`.
* The two properties of the runs that expect a violation: the counterexample is the
  result.

## Not modelled, and why

* Text: prompts, labels, summaries, JSON parsing, extraction of text and links. A
  model's answer is every value the code can make of it; `ContextWindow` has the
  lengths, which is what limits are about.
* Settings, harness files and the sources file: parsed once at startup, an error
  of which stops the program before it has any state.
* HTTP surface: authorization and the reads of models, lanes and the debug route
  change nothing and interleave with nothing.
* Backends and llama-swap: third-party; a backend answers or fails.
* Browser tabs: the service opens them and never closes them; the browser is
  external and the service keeps no state of them.
* Launchers, release and showcase scripts, packs and data: sequential programs
  over files or over the public routes. What the showcase counts on, that a turn
  sees the turns answered before it, is `ReadsWhatWasAnswered`.

## Plan

Most important first.

1. `Discourse`, `SpineReducer`: the spine (done; every property proved).
2. `Comprehension`, `AtomicSpine`, `TurnStore`: concurrent commits (done; every
   safety property and the refinement proved).
3. `TurnPipeline`: the turn (done; every safety property proved).
4. `LaneRouting`: two services and a file (done; every property proved).
5. `KnowledgeIndex`, `AtomicIndex` (done; every safety property and the refinement
   proved).
6. `Conversations`: clients, sessions and `last_turn` (done; every property proved).
7. `ConnectorSearch` (done; every safety property proved).
8. `ModelPull` (done; every property proved).
9. `WebResearch` (done; every safety property proved).
10. `ContextWindow` (done; every property proved).
11. Left: that each session of `TurnStore` implements `SpineReducer`, so that its
    theorems hold of the spines in the table; a composition of `TurnPipeline` with
    `ContextWindow`, in place of its number of chunks.
