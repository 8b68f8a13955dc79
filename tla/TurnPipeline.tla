---------------------------- MODULE TurnPipeline ----------------------------
(***************************************************************************)
(* One turn of the cognitive loop, from the request to the response        *)
(* (loop.py:93-310): subject resolution, the composition plan, retrieval   *)
(* and its condensation, structured or single synthesis, the verification  *)
(* gate, the commit and the receipt. It is what module TurnStore takes as  *)
(* one step, Think, plus the steps after it.                               *)
(*                                                                         *)
(* Every model call may be answered, may fail before it is recorded (a     *)
(* timeout, an HTTP error, an answer without choices) or after (an answer  *)
(* the code cannot read). What each caller does then is the control that   *)
(* is modelled here. Of a text the model keeps whether it is empty and     *)
(* whether it already has a close of two bullets or more; of the retrieval *)
(* the number of hits; of the plan what later steps branch on.             *)
(***************************************************************************)
EXTENDS Integers, Sequences, FiniteSets

CONSTANTS
    Registered,      \* the harnesses the registry has loaded
    HitLimit,        \* hits a search returns at most (8)
    MaxChunks,       \* chunks an oversized retrieval is cut into (48000 / 8000)
    MinSections,     \* sections an outline, and a structured answer, need (3)
    MaxSections      \* sections read from an outline (4)

Harnesses == {"subject-resolution", "comprehension", "recursive-context", "synthesis-outline",
              "synthesis-section", "reference-chat", "verification", "abstention"}

ASSUME PipelineAssumption ==
    /\ Registered \subseteq Harnesses
    /\ HitLimit \in Nat
    /\ MaxChunks \in Nat \ {0, 1}
    /\ MinSections \in Nat \ {0}
    /\ MaxSections \in Nat /\ MinSections <= MaxSections

VARIABLES
    pc,              \* where the turn is
    asked,           \* what the code reads off the request
    plan,            \* the composition plan
    hits,            \* hits the connectors returned
    notes,           \* derived hits put before them
    chunk,           \* chunks still to condense
    planned,         \* sections of the outline
    section,         \* sections tried
    authored,        \* sections kept
    synthesis,       \* the synthesis reply
    mode,            \* synthesis_mode
    verification,    \* the verification status
    content,         \* what the response shows
    calls,           \* calls: the harnesses of the recorded model calls
    tried,           \* history: the model calls made
    judged,          \* history: the text the gate was given
    verdict          \* history: what the verifier answered

work == <<hits, notes, chunk, planned, section, authored>>
gate == <<verification, content, judged, verdict>>
vars == <<pc, asked, plan, work, synthesis, mode, gate, calls, tried>>

\* What the request says: whether it offers tools, names connected evidence, asks
\* for a recap, and which shape it asks for in so many words.
Request == [tools : BOOLEAN, connected : BOOLEAN, recap : BOOLEAN,
            shape : {"report", "focused", "any"}]

Apertures == {"focused", "extended", "report"}

\* deep: deliberate or deep thinking, or three answer needs. Evidence that is not
\* connected (the session, the model, none) is never retrieved.
Plan == [connected : BOOLEAN, grounding : BOOLEAN, aperture : Apertures, deep : BOOLEAN]

Text == [body : {"empty", "plain", "branched"}, close : BOOLEAN]

NoText == [body |-> "empty", close |-> FALSE]

Reply == [text : Text, tools : BOOLEAN]

Shown == [kind : {"nothing", "answer", "labelled", "abstention"}, text : Text]

Statuses == {"none", "verified", "unverified", "abstained", "tool_call_requested"}

\* The parsed answer of the planner; an unknown word is the code's default.
PlanReply == [connected : BOOLEAN, grounding : {"yes", "no", "unsaid"},
              aperture : Apertures, deep : BOOLEAN]

NoPlan == [connected |-> FALSE, grounding |-> FALSE, aperture |-> "focused", deep |-> FALSE]

Init ==
    /\ pc = "idle"
    /\ asked \in Request
    /\ plan = NoPlan
    /\ hits = 0 /\ notes = 0 /\ chunk = 0
    /\ planned = 0 /\ section = 0 /\ authored = 0
    /\ synthesis = [text |-> NoText, tools |-> FALSE]
    /\ mode = "single"
    /\ verification = "none"
    /\ content = [kind |-> "nothing", text |-> NoText]
    /\ calls = << >>
    /\ tried = 0
    /\ judged = NoText
    /\ verdict = "none"

-----------------------------------------------------------------------------

\* ProviderClient.call by a named harness: answered and recorded.
Called(harness) ==
    /\ harness \in Registered
    /\ calls' = Append(calls, harness)
    /\ tried' = tried + 1

\* The call raises: before it is recorded or, on an answer it cannot read, after.
CallRaises(harness) ==
    /\ harness \in Registered
    /\ calls' \in {calls, Append(calls, harness)}
    /\ tried' = tried + 1

\* HarnessRegistry.require raises: no call is made.
Unknown(harness) ==
    /\ harness \notin Registered
    /\ UNCHANGED <<calls, tried>>

Fails(harness) == CallRaises(harness) \/ Unknown(harness)

\* ComprehensionPass.compose: the plan of a request, given the planner's answer and
\* whether any source is connected.
Composed(request, reply, sources) ==
    LET explicit  == request.connected /\ sources
        connected == explicit \/ (~request.recap /\ reply.connected)
    IN  [connected |-> connected,
         grounding |-> \/ explicit
                       \/ reply.grounding = "yes"
                       \/ reply.grounding = "unsaid" /\ connected,
         aperture  |-> IF request.shape = "any" THEN reply.aperture ELSE request.shape,
         deep      |-> reply.deep]

\* should_use_structured_synthesis, for a request that offers no tools.
Structured(p) ==
    /\ ~asked.tools
    /\ p.aperture = "report" \/ (p.aperture = "extended" /\ p.deep)

\* Where synthesis begins: run_structured_synthesis requires both harnesses first.
Synthesize(p) ==
    pc' = IF ~Structured(p) THEN "writing"
          ELSE IF {"synthesis-outline", "synthesis-section"} \subseteq Registered
               THEN "outlining" ELSE "failed"

\* ensure_focused_branch_close.
Closed(text) == IF text.body = "branched" THEN text ELSE [text EXCEPT !.close = TRUE]

\* What the gate is given of a reply.
Settled(reply) ==
    IF plan.aperture = "focused" /\ ~reply.tools
    THEN [reply EXCEPT !.text = Closed(@)] ELSE reply

\* retrieval.hits is not empty.
Grounded == hits + notes > 0

-----------------------------------------------------------------------------

\* The public harness, the latest user message and the spine.
Begin ==
    /\ pc = "idle"
    /\ pc' = IF "reference-chat" \in Registered THEN "resolving" ELSE "failed"
    /\ UNCHANGED <<asked, plan, work, synthesis, mode, gate, calls, tried>>

Resolve ==
    /\ pc = "resolving"
    /\ Called("subject-resolution")
    /\ pc' = "planning"
    /\ UNCHANGED <<asked, plan, work, synthesis, mode, gate>>

ComposePlan ==
    /\ pc = "planning"
    /\ Called("comprehension")
    /\ \E reply \in PlanReply, sources \in BOOLEAN :
          LET p == Composed(asked, reply, sources)
          IN  /\ plan' = p
              /\ IF p.connected THEN pc' = "searching" ELSE Synthesize(p)
    /\ UNCHANGED <<asked, work, synthesis, mode, gate>>

\* ConnectorRegistry.search: a source that fails is a note, never an error. Whether the
\* rendered hits exceed the threshold decides on condensing; the threshold is one chunk
\* or more (config.py:90), so there are at least two.
Search ==
    /\ pc = "searching"
    /\ \E n \in 0 .. HitLimit, c \in {0} \cup (2 .. MaxChunks) :
          /\ n = 0 => c = 0
          /\ hits' = n
          /\ chunk' = c
          /\ IF c > 0 THEN pc' = "condensing" ELSE Synthesize(plan)
    /\ UNCHANGED <<asked, plan, notes, planned, section, authored, synthesis, mode, gate, calls, tried>>

\* One chunk condensed; an empty summary leaves no note.
Condense ==
    /\ pc = "condensing"
    /\ Called("recursive-context")
    /\ chunk' = chunk - 1
    /\ notes' \in {notes, notes + 1}
    /\ IF chunk > 1 THEN pc' = pc ELSE Synthesize(plan)
    /\ UNCHANGED <<asked, plan, hits, planned, section, authored, synthesis, mode, gate>>

\* A read of the spine, a source's status or a call that raises, and no one catches
\* it: the turn ends without a commit.
UncaughtFailure ==
    /\ \/ pc \in {"idle", "planning", "searching"} /\ UNCHANGED <<calls, tried>>
       \/ pc = "resolving" /\ Fails("subject-resolution")
       \/ pc = "planning" /\ Fails("comprehension")
       \/ pc = "condensing" /\ Fails("recursive-context")
       \/ pc \in {"writing", "rewriting"} /\ Fails("reference-chat")
    /\ pc' = "failed"
    /\ UNCHANGED <<asked, plan, work, synthesis, mode, gate>>

-----------------------------------------------------------------------------

\* Mutant of FallBack: the mode stays as it was.
FallBackUnmarked == pc' = "writing" /\ UNCHANGED mode

\* The structured attempt gives up: the single call writes the answer.
FallBack == pc' = "writing" /\ mode' = "single_fallback"

\* The outline, valid (a thesis and enough sections) or not.
Outline ==
    /\ pc = "outlining"
    /\ Called("synthesis-outline")
    /\ \/ /\ planned' \in MinSections .. MaxSections
          /\ pc' = "sectioning"
          /\ UNCHANGED mode
       \/ FallBack /\ UNCHANGED planned
    /\ UNCHANGED <<asked, plan, hits, notes, chunk, section, authored, synthesis, gate>>

OutlineFails ==
    /\ pc = "outlining"
    /\ CallRaises("synthesis-outline")
    /\ FallBack
    /\ UNCHANGED <<asked, plan, work, synthesis, gate>>

\* After the last section the kept ones are folded under the thesis, if they are enough.
Fold(kept) ==
    IF section' < planned
    THEN pc' = pc /\ UNCHANGED <<synthesis, mode>>
    ELSE IF kept >= MinSections
         THEN /\ synthesis' \in {[text |-> [body |-> b, close |-> FALSE], tools |-> FALSE] :
                                   b \in {"plain", "branched"}}
              /\ mode' = "structured"
              /\ pc' = "judging"
         ELSE FallBack /\ UNCHANGED synthesis

\* A section answered: kept unless it is empty or an internal review.
Section ==
    /\ pc = "sectioning"
    /\ Called("synthesis-section")
    /\ section' = section + 1
    /\ authored' \in {authored, authored + 1}
    /\ Fold(authored')
    /\ UNCHANGED <<asked, plan, hits, notes, chunk, planned, gate>>

\* A section whose call raised is left out.
SectionFails ==
    /\ pc = "sectioning"
    /\ CallRaises("synthesis-section")
    /\ section' = section + 1
    /\ Fold(authored)
    /\ UNCHANGED <<asked, plan, hits, notes, chunk, planned, authored, gate>>

\* The replies of the synthesis model: a model may call tools nobody offered.
Replies == {r \in Reply : ~r.text.close}

Blank(reply) == reply.text.body = "empty" /\ ~reply.tools

\* The single synthesis; an empty answer is asked for once more.
Write ==
    /\ pc = "writing"
    /\ Called("reference-chat")
    /\ \E reply \in Replies :
          IF Blank(reply) THEN synthesis' = reply /\ pc' = "rewriting"
                          ELSE synthesis' = Settled(reply) /\ pc' = "judging"
    /\ UNCHANGED <<asked, plan, work, mode, gate>>

\* Mutant of Rewrite: an empty answer is asked for until it is not.
RewriteUntilFilled ==
    /\ pc = "rewriting"
    /\ Called("reference-chat")
    /\ \E reply \in Replies :
          IF Blank(reply) THEN synthesis' = reply /\ pc' = pc
                          ELSE synthesis' = Settled(reply) /\ pc' = "judging"
    /\ UNCHANGED <<asked, plan, work, mode, gate>>

Rewrite ==
    /\ pc = "rewriting"
    /\ Called("reference-chat")
    /\ \E reply \in Replies : synthesis' = Settled(reply)
    /\ pc' = "judging"
    /\ UNCHANGED <<asked, plan, work, mode, gate>>

-----------------------------------------------------------------------------

\* A tool call is passed on to the client without a judgment.
PassTools ==
    /\ pc = "judging"
    /\ synthesis.tools
    /\ verification' = "tool_call_requested"
    /\ content' = [kind |-> "answer", text |-> synthesis.text]
    /\ pc' = "committing"
    /\ UNCHANGED <<asked, plan, work, synthesis, mode, judged, verdict, calls, tried>>

\* The deterministic gate: grounding is required and there is no evidence.
Withhold ==
    /\ pc = "judging"
    /\ ~synthesis.tools
    /\ plan.grounding /\ ~Grounded
    /\ verification' = "abstained"
    /\ judged' = synthesis.text
    /\ pc' = "abstaining"
    /\ UNCHANGED <<asked, plan, work, synthesis, mode, content, verdict, calls, tried>>

\* Mutant of Emit: only a verdict that does not pass marks the answer.
EmitOpen(answer) ==
    /\ verdict' = answer
    /\ judged' = synthesis.text
    /\ verification' = IF answer = "not_passed" THEN "unverified" ELSE "verified"
    /\ content' = [kind |-> IF answer = "not_passed" THEN "labelled" ELSE "answer",
                   text |-> synthesis.text]
    /\ pc' = "committing"

\* The answer is emitted under the status the verifier's answer gives it.
Emit(answer) ==
    /\ verdict' = answer
    /\ judged' = synthesis.text
    /\ verification' = IF answer = "passed" THEN "verified" ELSE "unverified"
    /\ content' = [kind |-> IF answer = "passed" THEN "answer" ELSE "labelled",
                   text |-> synthesis.text]
    /\ pc' = "committing"

\* Mutants of Asks: the verifier is asked whatever the evidence; only with some.
AsksAlways == pc = "judging" /\ ~synthesis.tools
AsksOnEvidence == pc = "judging" /\ ~synthesis.tools /\ Grounded

\* The gate asks the verifier.
Asks == pc = "judging" /\ ~synthesis.tools /\ ~(plan.grounding /\ ~Grounded)

\* A verdict that passes (bool(raw["passed"]), true for any non-empty string too),
\* one that does not, and no object at all.
Judge ==
    /\ Asks
    /\ Called("verification")
    /\ \E answer \in {"passed", "not_passed", "untyped"} : Emit(answer)
    /\ UNCHANGED <<asked, plan, work, synthesis, mode>>

\* The verifier is unavailable, or its harness is not registered.
VerifierFails ==
    /\ Asks
    /\ Fails("verification")
    /\ Emit("unavailable")
    /\ UNCHANGED <<asked, plan, work, synthesis, mode>>

\* The verdict's issues cannot be iterated (null, a number): nothing catches the error.
VerdictUnreadable ==
    /\ Asks
    /\ Called("verification")
    /\ verdict' = "unreadable"
    /\ judged' = synthesis.text
    /\ pc' = "failed"
    /\ UNCHANGED <<asked, plan, work, synthesis, mode, verification, content>>

\* The abstention is written by a model, or is the code's own sentence.
Abstain ==
    /\ pc = "abstaining"
    /\ Called("abstention") \/ Fails("abstention")
    /\ content' = [kind |-> "abstention", text |-> NoText]
    /\ pc' = "committing"
    /\ UNCHANGED <<asked, plan, work, synthesis, mode, verification, judged, verdict>>

-----------------------------------------------------------------------------

\* commit_discourse, then write_turn: see module TurnStore.
Commit ==
    /\ pc = "committing"
    /\ pc' = "receipting"
    /\ UNCHANGED <<asked, plan, work, synthesis, mode, gate, calls, tried>>

Respond ==
    /\ pc = "receipting"
    /\ pc' = "done"
    /\ UNCHANGED <<asked, plan, work, synthesis, mode, gate, calls, tried>>

StoreFails ==
    /\ pc \in {"committing", "receipting"}
    /\ pc' = "failed"
    /\ UNCHANGED <<asked, plan, work, synthesis, mode, gate, calls, tried>>

Ended == pc \in {"done", "failed"}

\* The process stops.
Crash ==
    /\ ~Ended
    /\ pc' = "failed"
    /\ UNCHANGED <<asked, plan, work, synthesis, mode, gate, calls, tried>>

\* The response is out.
Quiet == Ended /\ UNCHANGED vars

\* The steps of the turn itself.
Step ==
    \/ Begin \/ Resolve \/ ComposePlan \/ Search \/ Condense \/ UncaughtFailure
    \/ Outline \/ OutlineFails \/ Section \/ SectionFails \/ Write \/ Rewrite
    \/ PassTools \/ Withhold \/ Judge \/ VerifierFails \/ VerdictUnreadable \/ Abstain
    \/ Commit \/ Respond \/ StoreFails

Next == Step \/ Crash \/ Quiet

Spec == Init /\ [][Next]_vars

\* Every await of the turn returns or raises: a model call has a timeout (provider.py:73).
FairSpec == Spec /\ WF_vars(Step)

-----------------------------------------------------------------------------

TypeOK ==
    /\ pc \in {"idle", "resolving", "planning", "searching", "condensing", "outlining",
               "sectioning", "writing", "rewriting", "judging", "abstaining", "committing",
               "receipting", "done", "failed"}
    /\ asked \in Request
    /\ plan \in Plan
    /\ hits \in 0 .. HitLimit /\ notes \in 0 .. MaxChunks /\ chunk \in 0 .. MaxChunks
    /\ planned \in 0 .. MaxSections /\ section \in 0 .. MaxSections /\ authored \in 0 .. MaxSections
    /\ synthesis \in Reply
    /\ mode \in {"single", "structured", "single_fallback"}
    /\ verification \in Statuses
    /\ content \in Shown
    /\ calls \in Seq(Harnesses)
    /\ tried \in Nat
    /\ judged \in Text
    /\ verdict \in {"none", "passed", "not_passed", "untyped", "unavailable", "unreadable"}

Emitted == pc \in {"committing", "receipting", "done"}

(***************************************************************************)
(* The emit gate: what a turn commits and shows is what was judged, under  *)
(* the status the judgment gave it. A verified answer is, to the letter,   *)
(* the text the verifier passed, the focused close included (loop.py:220   *)
(* runs before the gate); an answer that did not pass carries its label;   *)
(* an abstention never shows the draft; a tool call is the model's own.    *)
(***************************************************************************)
EmitGate ==
    Emitted =>
        \/ /\ verification = "verified" /\ verdict = "passed"
           /\ content = [kind |-> "answer", text |-> judged]
        \/ /\ verification = "unverified" /\ verdict \in {"not_passed", "untyped", "unavailable"}
           /\ content = [kind |-> "labelled", text |-> judged]
        \/ /\ verification = "abstained" /\ verdict = "none"
           /\ content = [kind |-> "abstention", text |-> NoText]
        \/ /\ verification = "tool_call_requested" /\ verdict = "none"
           /\ content = [kind |-> "answer", text |-> synthesis.text] /\ synthesis.tools

(***************************************************************************)
(* A request that needs grounding never gets an answer from no evidence:   *)
(* it abstains, or hands a tool call to its client. Condensing cannot      *)
(* stand in for evidence: every derived note has a hit behind it           *)
(* (recursive_context.py:44-49, verification.py:29).                       *)
(***************************************************************************)
NothingFromNothing ==
    /\ notes > 0 => hits > 0
    /\ Emitted /\ plan.grounding /\ hits = 0
         => verification \in {"abstained", "tool_call_requested"}
    /\ Emitted /\ verification = "abstained" => plan.grounding /\ hits = 0

\* How many of the recorded calls are by a harness.
Times(harness) == Cardinality({i \in DOMAIN calls : calls[i] = harness})

(***************************************************************************)
(* The receipt's synthesis mode explains its route: a structured answer    *)
(* has an outline, a call for every section it kept and no single          *)
(* synthesis; a single or fallback answer was written by the single        *)
(* synthesis; tools are only ever offered to that one; and an answer with  *)
(* nothing in it is shown only if that one was asked twice                 *)
(* (loop.py:177-219).                                                      *)
(***************************************************************************)
ModeExplainsRoute ==
    Emitted =>
        /\ \/ /\ mode = "structured" /\ ~asked.tools
              /\ Times("synthesis-outline") = 1
              /\ authored \in MinSections .. planned
              /\ authored <= Times("synthesis-section")
              /\ Times("reference-chat") = 0
           \/ /\ mode = "single"
              /\ Times("synthesis-outline") + Times("synthesis-section") = 0
              /\ Times("reference-chat") \in 1 .. 2
           \/ /\ mode = "single_fallback" /\ ~asked.tools
              /\ authored < MinSections
              /\ Times("reference-chat") \in 1 .. 2
        /\ content.kind # "abstention" /\ content.text.body = "empty" /\ ~synthesis.tools
              => Times("reference-chat") = 2

(***************************************************************************)
(* A turn is bounded: with everything that can be retried, condensed,      *)
(* planned and written again, it makes at most six calls and one more for  *)
(* every chunk and every section. The abstention and the verifier are      *)
(* never both asked, and an empty answer is asked for again only once.     *)
(***************************************************************************)
CallBudget == tried <= 6 + MaxChunks + MaxSections

(* A turn that has begun ends: answered or failed. *)
TurnEnds == pc = "resolving" ~> Ended

-----------------------------------------------------------------------------

(***************************************************************************)
(* docs/CONCEPTS.md:79: "Grounding-required requests with no evidence      *)
(* abstain deterministically."                                             *)
(***************************************************************************)
GroundlessAbstains == Emitted /\ plan.grounding /\ ~Grounded => verification = "abstained"
=============================================================================
