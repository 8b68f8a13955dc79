------------------------- MODULE TurnPipelineProofs -------------------------
(***************************************************************************)
(* Proofs about TurnPipeline, for any set of registered harnesses and any  *)
(* bounds. The emit gate and the grounding rule follow from what each stop *)
(* of the turn knows of the gate (GateInv) and of the evidence             *)
(* (EvidenceInv); the budget from a count of the calls made by each stop   *)
(* (CallsInv); the mode's account of the route from the calls recorded by  *)
(* each stop (RouteInv).                                                   *)
(***************************************************************************)
EXTENDS TurnPipeline, FiniteSetTheorems, TLAPS

\* Derived notes have a hit behind them, and there is one for every chunk at most.
EvidenceInv ==
    /\ notes + chunk <= MaxChunks
    /\ notes > 0 \/ chunk > 0 => hits > 0
    /\ pc \in {"idle", "resolving", "planning", "searching"} => notes = 0 /\ hits = 0 /\ chunk = 0
    /\ pc = "condensing" => chunk > 0

SectionInv ==
    /\ authored <= section /\ section <= planned
    /\ pc = "sectioning" => section < planned
    /\ pc \in {"idle", "resolving", "planning", "searching", "condensing", "outlining"}
          => section = 0 /\ planned = 0

\* The gate is closed until the turn passes it.
GateInv ==
    /\ pc \notin {"abstaining", "committing", "receipting", "done", "failed"}
          => verification = "none" /\ verdict = "none"
    /\ pc = "abstaining" => verification = "abstained" /\ verdict = "none"
    /\ pc = "abstaining" \/ (Emitted /\ verification = "abstained") => plan.grounding /\ ~Grounded
    /\ Emitted /\ plan.grounding /\ ~Grounded
          => verification \in {"abstained", "tool_call_requested"}

\* The calls a turn can have made where it is.
CallsInv ==
    LET base == 3 + MaxChunks + MaxSections
    IN  /\ pc \in {"idle", "resolving"} => tried = 0
        /\ pc = "planning" => tried <= 1
        /\ pc = "searching" => tried <= 2
        /\ pc = "condensing" => tried + chunk <= 2 + MaxChunks
        /\ pc = "outlining" => tried <= 2 + MaxChunks
        /\ pc = "sectioning" => tried <= 3 + MaxChunks + section
        /\ pc = "writing" => tried <= base
        /\ pc = "rewriting" => tried <= base + 1
        /\ pc \in {"judging", "abstaining"} => tried <= base + 2
        /\ tried <= base + 3

Inv == TypeOK /\ EvidenceInv /\ SectionInv /\ GateInv /\ EmitGate /\ CallsInv

LEMMA InitInv == Init => Inv
BY PipelineAssumption
   DEF Init, Inv, TypeOK, EvidenceInv, SectionInv, GateInv, EmitGate, CallsInv, Emitted, NoPlan,
       Plan, Apertures, NoText, Text, Reply, Shown, Statuses, Harnesses

(* What is sent to the gate is a reply. *)
LEMMA SettledTyped ==
  ASSUME NEW reply \in Reply
  PROVE  Settled(reply) \in Reply /\ Settled(reply).tools = reply.tools
BY DEF Settled, Closed, Reply, Text

(* A plan is a plan. *)
LEMMA ComposedTyped ==
  ASSUME NEW request \in Request, NEW reply \in PlanReply, NEW sources \in BOOLEAN
  PROVE  Composed(request, reply, sources) \in Plan
<1>1. /\ request.connected \in BOOLEAN /\ request.recap \in BOOLEAN
      /\ request.shape \in {"report", "focused", "any"}
      /\ reply.connected \in BOOLEAN /\ reply.aperture \in Apertures /\ reply.deep \in BOOLEAN
  BY DEF Request, PlanReply
<1>2. (IF request.shape = "any" THEN reply.aperture ELSE request.shape) \in Apertures
  BY <1>1 DEF Apertures
<1>3. QED
  BY <1>1, <1>2, Zenon DEF Composed, Plan

(* Where synthesis begins. *)
LEMMA SynthesizeGoesOn ==
  ASSUME NEW p, Synthesize(p)
  PROVE  pc' \in {"writing", "outlining", "failed"}
BY DEF Synthesize

(* Recorded or not, a call is one call. *)
LEMMA CallCounts ==
  ASSUME TypeOK, NEW h \in Harnesses, Called(h) \/ Fails(h)
  PROVE  /\ calls' \in Seq(Harnesses)
         /\ tried' \in {tried, tried + 1}
         /\ tried' \in Nat
<1>1. calls \in Seq(Harnesses) /\ tried \in Nat
  BY DEF TypeOK
<1>2. Append(calls, h) \in Seq(Harnesses)
  BY <1>1
<1>3. calls' \in {calls, Append(calls, h)} /\ tried' \in {tried, tried + 1}
  BY DEF Called, Fails, CallRaises, Unknown
<1>4. QED
  BY <1>1, <1>2, <1>3

LEMMA TypeStep == Inv /\ [Next]_vars => TypeOK'
<1> SUFFICES ASSUME Inv, [Next]_vars PROVE TypeOK'
  OBVIOUS
<1> USE PipelineAssumption
<1>1. TypeOK /\ EvidenceInv /\ SectionInv
  BY DEF Inv
<1>2. ASSUME Begin \/ Commit \/ Respond \/ StoreFails \/ Crash PROVE TypeOK'
  BY <1>1, <1>2 DEF Begin, Commit, Respond, StoreFails, Crash, TypeOK, work, gate
<1>3. ASSUME Resolve PROVE TypeOK'
  <2>1. calls' \in Seq(Harnesses) /\ tried' \in Nat
    BY <1>1, <1>3, CallCounts DEF Resolve, Harnesses
  <2>2. QED
    BY <1>1, <1>3, <2>1 DEF Resolve, TypeOK, work, gate
<1>4. ASSUME ComposePlan PROVE TypeOK'
  <2>1. calls' \in Seq(Harnesses) /\ tried' \in Nat
    BY <1>1, <1>4, CallCounts DEF ComposePlan, Harnesses
  <2>2. PICK reply \in PlanReply, sources \in BOOLEAN :
           /\ plan' = Composed(asked, reply, sources)
           /\ IF Composed(asked, reply, sources).connected
              THEN pc' = "searching" ELSE Synthesize(Composed(asked, reply, sources))
    BY <1>4, Zenon DEF ComposePlan
  <2>3. plan' \in Plan
    BY <1>1, <2>2, ComposedTyped DEF TypeOK
  <2>4. pc' \in {"searching", "writing", "outlining", "failed"}
    BY <2>2, SynthesizeGoesOn
  <2>5. QED
    BY <1>1, <1>4, <2>1, <2>3, <2>4 DEF ComposePlan, TypeOK, work, gate
<1>5. ASSUME Search PROVE TypeOK'
  <2>1. pc' \in {"condensing", "writing", "outlining", "failed"}
    BY <1>5, SynthesizeGoesOn DEF Search
  <2>2. QED
    BY <1>1, <1>5, <2>1 DEF Search, TypeOK, gate
<1>6. ASSUME Condense PROVE TypeOK'
  <2>1. calls' \in Seq(Harnesses) /\ tried' \in Nat
    BY <1>1, <1>6, CallCounts DEF Condense, Harnesses
  <2>2. pc' \in {"condensing", "writing", "outlining", "failed"}
    BY <1>6, SynthesizeGoesOn DEF Condense
  <2>3. chunk' \in 0 .. MaxChunks /\ notes' \in 0 .. MaxChunks
    BY <1>1, <1>6 DEF Condense, TypeOK, EvidenceInv
  <2>4. QED
    BY <1>1, <1>6, <2>1, <2>2, <2>3 DEF Condense, TypeOK, gate
<1>7. ASSUME UncaughtFailure PROVE TypeOK'
  <2>1. calls' \in Seq(Harnesses) /\ tried' \in Nat
    BY <1>1, <1>7, CallCounts DEF UncaughtFailure, Harnesses, TypeOK
  <2>2. QED
    BY <1>1, <1>7, <2>1 DEF UncaughtFailure, TypeOK, work, gate
<1>8. ASSUME Outline \/ OutlineFails PROVE TypeOK'
  <2>1. calls' \in Seq(Harnesses) /\ tried' \in Nat
    BY <1>1, <1>8, CallCounts DEF Outline, OutlineFails, Fails, Harnesses
  <2>2. planned' \in 0 .. MaxSections
    BY <1>1, <1>8 DEF Outline, OutlineFails, TypeOK, work
  <2>3. QED
    BY <1>1, <1>8, <2>1, <2>2 DEF Outline, OutlineFails, FallBack, TypeOK, work, gate
<1>9. ASSUME Section \/ SectionFails PROVE TypeOK'
  <2>1. calls' \in Seq(Harnesses) /\ tried' \in Nat
    BY <1>1, <1>9, CallCounts DEF Section, SectionFails, Fails, Harnesses
  <2>2. section' \in 0 .. MaxSections /\ authored' \in 0 .. MaxSections
    BY <1>1, <1>9 DEF Section, SectionFails, TypeOK, SectionInv
  <2>3. PICK kept : Fold(kept)
    BY <1>9 DEF Section, SectionFails
  <2>4. /\ pc' \in {pc, "judging", "writing"}
        /\ mode' \in {mode, "structured", "single_fallback"}
        /\ synthesis' = synthesis \/ \E b \in {"plain", "branched"} :
              synthesis' = [text |-> [body |-> b, close |-> FALSE], tools |-> FALSE]
    BY <2>3, Zenon DEF Fold, FallBack
  <2>5. \A b \in {"plain", "branched"} :
           [text |-> [body |-> b, close |-> FALSE], tools |-> FALSE] \in Reply
    BY DEF Reply, Text
  <2>6. synthesis' \in Reply
    BY <1>1, <2>4, <2>5 DEF TypeOK
  <2>7. QED
    BY <1>1, <1>9, <2>1, <2>2, <2>4, <2>6 DEF Section, SectionFails, TypeOK, gate
<1>10. ASSUME Write \/ Rewrite PROVE TypeOK'
  <2>1. calls' \in Seq(Harnesses) /\ tried' \in Nat
    BY <1>1, <1>10, CallCounts DEF Write, Rewrite, Harnesses
  <2>2. PICK reply \in Replies :
           /\ synthesis' \in {reply, Settled(reply)}
           /\ pc' \in {"rewriting", "judging"}
    BY <1>10 DEF Write, Rewrite
  <2>3. synthesis' \in Reply
    BY <2>2, SettledTyped DEF Replies
  <2>4. QED
    BY <1>1, <1>10, <2>1, <2>2, <2>3 DEF Write, Rewrite, TypeOK, work, gate
<1>11. ASSUME PassTools \/ Withhold PROVE TypeOK'
  <2>1. CASE PassTools
    BY <1>1, <2>1 DEF PassTools, TypeOK, work, Shown, Statuses, Reply
  <2>2. CASE Withhold
    BY <1>1, <2>2 DEF Withhold, TypeOK, work, Shown, Statuses, Reply
  <2>3. QED
    BY <1>11, <2>1, <2>2
<1>12. ASSUME Judge \/ VerifierFails \/ VerdictUnreadable PROVE TypeOK'
  <2>1. calls' \in Seq(Harnesses) /\ tried' \in Nat
    BY <1>1, <1>12, CallCounts DEF Judge, VerifierFails, VerdictUnreadable, Harnesses
  <2>2. CASE Judge
    BY <1>1, <2>1, <2>2 DEF Judge, Emit, TypeOK, work, Shown, Statuses, Reply
  <2>3. CASE VerifierFails
    BY <1>1, <2>1, <2>3 DEF VerifierFails, Emit, TypeOK, work, Shown, Statuses, Reply
  <2>4. CASE VerdictUnreadable
    BY <1>1, <2>1, <2>4 DEF VerdictUnreadable, Emit, TypeOK, work, Shown, Statuses, Reply
  <2>5. QED
    BY <1>12, <2>2, <2>3, <2>4
<1>13. ASSUME Abstain PROVE TypeOK'
  <2>1. calls' \in Seq(Harnesses) /\ tried' \in Nat
    BY <1>1, <1>13, CallCounts DEF Abstain, Harnesses
  <2>2. QED
    BY <1>1, <1>13, <2>1 DEF Abstain, TypeOK, work, Shown, Text, NoText
<1>14. ASSUME UNCHANGED vars PROVE TypeOK'
  BY <1>1, <1>14 DEF vars, TypeOK, work, gate
<1>15. QED
  BY <1>2, <1>3, <1>4, <1>5, <1>6, <1>7, <1>8, <1>9, <1>10, <1>11, <1>12, <1>13, <1>14
     DEF Next, Step, Quiet

(* Two bounds add up. *)
LEMMA SumBound ==
  ASSUME NEW a \in Nat, NEW b \in Nat, NEW m \in Nat, NEW n \in Nat, a <= m, b <= n
  PROVE  a + b <= m + n
OBVIOUS

(* Evidence only comes from a search, and notes only from chunks of hits. *)
LEMMA EvidenceStep == Inv /\ [Next]_vars => EvidenceInv'
<1> SUFFICES ASSUME Inv, [Next]_vars PROVE EvidenceInv'
  OBVIOUS
<1>1. /\ TypeOK /\ EvidenceInv
      /\ hits \in Nat /\ notes \in Nat /\ chunk \in Nat /\ MaxChunks \in Nat
  BY PipelineAssumption DEF Inv, TypeOK
<1>2. ASSUME UNCHANGED <<hits, notes, chunk>>,
             pc' \in {"idle", "resolving", "planning", "searching"} =>
                pc \in {"idle", "resolving", "planning", "searching"},
             pc' = "condensing" => pc = "condensing"
      PROVE  EvidenceInv'
  BY <1>1, <1>2 DEF EvidenceInv
<1>3. ASSUME Begin \/ Resolve \/ UncaughtFailure \/ Commit \/ Respond \/ StoreFails \/ Crash
      PROVE  EvidenceInv'
  BY <1>2, <1>3 DEF Begin, Resolve, UncaughtFailure, Commit, Respond, StoreFails, Crash, work
<1>4. ASSUME ComposePlan PROVE EvidenceInv'
  <2>1. pc' \in {"searching", "writing", "outlining", "failed"} /\ pc = "planning"
    BY <1>4, SynthesizeGoesOn DEF ComposePlan
  <2>2. QED
    BY <1>2, <1>4, <2>1 DEF ComposePlan, work
<1>5. ASSUME Search PROVE EvidenceInv'
  <2>1. PICK n \in 0 .. HitLimit, c \in {0} \cup (2 .. MaxChunks) :
           /\ n = 0 => c = 0
           /\ hits' = n /\ chunk' = c /\ notes' = notes
           /\ IF c > 0 THEN pc' = "condensing" ELSE Synthesize(plan)
    BY <1>5, Zenon DEF Search
  <2>2. notes = 0 /\ hits = 0 /\ n \in Nat /\ c \in 0 .. MaxChunks
    BY <1>1, <1>5, PipelineAssumption DEF Search, EvidenceInv
  <2>3. pc' \in {"condensing", "writing", "outlining", "failed"} /\ (pc' = "condensing" => c > 0)
    BY <2>1, SynthesizeGoesOn
  <2>4. notes' = 0 /\ hits' \in Nat /\ chunk' \in Nat /\ chunk' <= MaxChunks
        /\ (chunk' > 0 => hits' > 0)
    BY <1>1, <2>1, <2>2
  <2>5. pc' = "condensing" => chunk' > 0
    BY <2>1, <2>3
  <2>6. notes' + chunk' <= MaxChunks
    BY <2>4
  <2>7. notes' > 0 \/ chunk' > 0 => hits' > 0
    BY <2>4
  <2>8. pc' \notin {"idle", "resolving", "planning", "searching"}
    BY <2>3
  <2>9. QED
    BY <2>5, <2>6, <2>7, <2>8, Zenon DEF EvidenceInv
<1>6. ASSUME Condense PROVE EvidenceInv'
  <2>1. chunk > 0 /\ hits > 0 /\ notes + chunk <= MaxChunks
    BY <1>1, <1>6 DEF Condense, EvidenceInv
  <2>2. /\ chunk' = chunk - 1 /\ notes' \in {notes, notes + 1} /\ hits' = hits
        /\ IF chunk > 1 THEN pc' = "condensing" ELSE Synthesize(plan)
    BY <1>6 DEF Condense
  <2>3. pc' \in {"condensing", "writing", "outlining", "failed"} /\ (pc' = "condensing" => chunk > 1)
    BY <2>2, SynthesizeGoesOn
  <2>4. notes' + chunk' <= MaxChunks
    <3>1. notes + (chunk - 1) <= MaxChunks /\ (notes + 1) + (chunk - 1) <= MaxChunks
      BY <1>1, <2>1
    <3>2. QED
      BY <2>2, <3>1
  <2>5. hits' > 0
    BY <2>1, <2>2
  <2>6. pc' = "condensing" => chunk' > 0
    BY <1>1, <2>2, <2>3
  <2>7. pc' \notin {"idle", "resolving", "planning", "searching"}
    BY <2>3
  <2>8. QED
    BY <2>4, <2>5, <2>6, <2>7, Zenon DEF EvidenceInv
<1>7. ASSUME Outline \/ OutlineFails \/ Write \/ Rewrite PROVE EvidenceInv'
  BY <1>2, <1>7 DEF Outline, OutlineFails, FallBack, Write, Rewrite, work
<1>8. ASSUME Section \/ SectionFails PROVE EvidenceInv'
  <2>1. pc' \in {pc, "judging", "writing"}
    BY <1>8, Zenon DEF Section, SectionFails, Fold, FallBack
  <2>2. QED
    BY <1>2, <1>8, <2>1 DEF Section, SectionFails
<1>9. ASSUME PassTools \/ Withhold \/ Judge \/ VerifierFails \/ VerdictUnreadable \/ Abstain
      PROVE  EvidenceInv'
  BY <1>2, <1>9 DEF PassTools, Withhold, Judge, VerifierFails, VerdictUnreadable, Emit, Abstain, work
<1>10. ASSUME UNCHANGED vars PROVE EvidenceInv'
  BY <1>2, <1>10 DEF vars, work
<1>11. QED
  BY <1>3, <1>4, <1>5, <1>6, <1>7, <1>8, <1>9, <1>10 DEF Next, Step, Quiet

(* Sections are counted up to the ones the outline has. *)
LEMMA SectionStep == Inv /\ [Next]_vars => SectionInv'
<1> SUFFICES ASSUME Inv, [Next]_vars PROVE SectionInv'
  OBVIOUS
<1>1. /\ TypeOK /\ SectionInv
      /\ planned \in Nat /\ section \in Nat /\ authored \in Nat
  BY PipelineAssumption DEF Inv, TypeOK
<1> DEFINE Early == {"idle", "resolving", "planning", "searching", "condensing", "outlining"}
<1>2. ASSUME UNCHANGED <<planned, section, authored>>,
             pc' \in Early => pc \in Early, pc' = "sectioning" => pc = "sectioning"
      PROVE  SectionInv'
  BY <1>1, <1>2 DEF SectionInv
<1>3. ASSUME Begin \/ Resolve \/ UncaughtFailure \/ Commit \/ Respond \/ StoreFails \/ Crash
      PROVE  SectionInv'
  BY <1>2, <1>3 DEF Begin, Resolve, UncaughtFailure, Commit, Respond, StoreFails, Crash, work
<1>4. ASSUME ComposePlan \/ Search \/ Condense PROVE SectionInv'
  <2>1. pc' \in {"searching", "condensing", "writing", "outlining", "failed"} /\ pc \in Early
    BY <1>4, SynthesizeGoesOn DEF ComposePlan, Search, Condense
  <2>2. QED
    BY <1>2, <1>4, <2>1 DEF ComposePlan, Search, Condense, work
<1>5. ASSUME Outline PROVE SectionInv'
  BY <1>1, <1>5, PipelineAssumption DEF Outline, FallBack, SectionInv
<1>6. ASSUME OutlineFails \/ Write \/ Rewrite PROVE SectionInv'
  BY <1>2, <1>6 DEF OutlineFails, FallBack, Write, Rewrite, work
<1>7. ASSUME Section \/ SectionFails PROVE SectionInv'
  <2>1. /\ pc = "sectioning" /\ section' = section + 1 /\ planned' = planned
        /\ authored' \in {authored, authored + 1}
        /\ authored <= section /\ section < planned
    BY <1>1, <1>7 DEF Section, SectionFails, SectionInv
  <2>2. pc' \in {"sectioning", "judging", "writing"} /\ (pc' = "sectioning" => section' < planned)
    BY <1>7, <2>1, Zenon DEF Section, SectionFails, Fold, FallBack
  <2>3. QED
    BY <1>1, <2>1, <2>2 DEF SectionInv
<1>8. ASSUME PassTools \/ Withhold \/ Judge \/ VerifierFails \/ VerdictUnreadable \/ Abstain
      PROVE  SectionInv'
  BY <1>2, <1>8 DEF PassTools, Withhold, Judge, VerifierFails, VerdictUnreadable, Emit, Abstain, work
<1>9. ASSUME UNCHANGED vars PROVE SectionInv'
  BY <1>2, <1>9 DEF vars, work
<1>10. QED
  BY <1>3, <1>4, <1>5, <1>6, <1>7, <1>8, <1>9 DEF Next, Step, Quiet

(* The gate: before it nothing is decided, and past it nothing changes. *)
LEMMA GateStep == Inv /\ [Next]_vars => GateInv' /\ EmitGate'
<1> SUFFICES ASSUME Inv, [Next]_vars PROVE GateInv' /\ EmitGate'
  OBVIOUS
<1>1. /\ TypeOK /\ GateInv /\ EmitGate
      /\ hits \in Nat /\ notes \in Nat
  BY PipelineAssumption DEF Inv, TypeOK
<1> DEFINE Open == {"idle", "resolving", "planning", "searching", "condensing", "outlining",
                    "sectioning", "writing", "rewriting", "judging"}
<1>2. ASSUME pc \in Open, pc' \in Open \cup {"failed"}, UNCHANGED gate
      PROVE  GateInv' /\ EmitGate'
  BY <1>1, <1>2 DEF GateInv, EmitGate, Emitted, gate
<1>3. ASSUME Begin \/ Resolve \/ UncaughtFailure PROVE GateInv' /\ EmitGate'
  BY <1>2, <1>3 DEF Begin, Resolve, UncaughtFailure
<1>4. ASSUME ComposePlan \/ Search \/ Condense PROVE GateInv' /\ EmitGate'
  <2>1. pc' \in {"searching", "condensing", "writing", "outlining", "failed"} /\ pc \in Open
    BY <1>4, SynthesizeGoesOn DEF ComposePlan, Search, Condense
  <2>2. QED
    BY <1>2, <1>4, <2>1 DEF ComposePlan, Search, Condense
<1>5. ASSUME Outline \/ OutlineFails \/ Write \/ Rewrite PROVE GateInv' /\ EmitGate'
  <2>1. pc \in Open /\ pc' \in Open /\ UNCHANGED gate
    BY <1>5 DEF Outline, OutlineFails, FallBack, Write, Rewrite
  <2>2. QED
    BY <1>2, <2>1
<1>6. ASSUME Section \/ SectionFails PROVE GateInv' /\ EmitGate'
  <2>1. pc = "sectioning" /\ pc' \in {"sectioning", "judging", "writing"} /\ UNCHANGED gate
    BY <1>6, Zenon DEF Section, SectionFails, Fold, FallBack
  <2>2. QED
    BY <1>2, <2>1
<1>7. ASSUME PassTools PROVE GateInv' /\ EmitGate'
  BY <1>1, <1>7 DEF PassTools, GateInv, EmitGate, Emitted, Grounded, work
<1>8. ASSUME Withhold PROVE GateInv' /\ EmitGate'
  BY <1>1, <1>8 DEF Withhold, GateInv, EmitGate, Emitted, Grounded, work
<1>9. ASSUME Judge \/ VerifierFails PROVE GateInv' /\ EmitGate'
  BY <1>1, <1>9 DEF Judge, VerifierFails, Asks, Emit, GateInv, EmitGate, Emitted, Grounded, work
<1>10. ASSUME VerdictUnreadable PROVE GateInv' /\ EmitGate'
  BY <1>1, <1>10 DEF VerdictUnreadable, GateInv, EmitGate, Emitted
<1>11. ASSUME Abstain PROVE GateInv' /\ EmitGate'
  BY <1>1, <1>11 DEF Abstain, GateInv, EmitGate, Emitted, Grounded, work
<1>12. ASSUME Commit \/ Respond \/ StoreFails \/ Crash PROVE GateInv' /\ EmitGate'
  BY <1>1, <1>12 DEF Commit, Respond, StoreFails, Crash, GateInv, EmitGate, Emitted, Grounded,
                     work, gate
<1>13. ASSUME UNCHANGED vars PROVE GateInv' /\ EmitGate'
  BY <1>1, <1>13 DEF vars, GateInv, EmitGate, Emitted, Grounded, work, gate
<1>14. QED
  BY <1>3, <1>4, <1>5, <1>6, <1>7, <1>8, <1>9, <1>10, <1>11, <1>12, <1>13 DEF Next, Step, Quiet

(* Every step makes one call at most, and the stops follow each other. *)
LEMMA CallsStep == Inv /\ [Next]_vars => CallsInv'
<1> SUFFICES ASSUME Inv, [Next]_vars PROVE CallsInv'
  OBVIOUS
<1>1. /\ TypeOK /\ CallsInv /\ SectionInv /\ EvidenceInv
      /\ tried \in Nat /\ chunk \in Nat /\ section \in Nat
      /\ planned \in 0 .. MaxSections /\ chunk <= MaxChunks
      /\ MaxChunks \in Nat /\ MaxChunks >= 2 /\ MaxSections \in Nat
  BY PipelineAssumption DEF Inv, TypeOK
<1>2. ASSUME UNCHANGED <<tried, chunk, section>>,
             pc' \in {pc, "failed"} PROVE CallsInv'
  BY <1>1, <1>2 DEF CallsInv
<1>3. \A h \in Harnesses : Called(h) \/ Fails(h) => tried' \in {tried, tried + 1}
  BY <1>1, CallCounts
<1>4. ASSUME Begin \/ Commit \/ Respond \/ StoreFails \/ Crash PROVE CallsInv'
  BY <1>1, <1>4 DEF Begin, Commit, Respond, StoreFails, Crash, CallsInv, work
<1>5. ASSUME Resolve PROVE CallsInv'
  BY <1>1, <1>5 DEF Resolve, Called, CallsInv, work
<1>6. ASSUME ComposePlan PROVE CallsInv'
  <2>1. pc' \in {"searching", "writing", "outlining", "failed"} /\ tried <= 1 /\ tried' = tried + 1
    BY <1>1, <1>6, SynthesizeGoesOn DEF ComposePlan, Called, CallsInv
  <2>2. QED
    BY <1>1, <2>1 DEF CallsInv
<1>7. ASSUME Search PROVE CallsInv'
  <2>1. /\ pc' \in {"condensing", "writing", "outlining", "failed"} /\ tried <= 2 /\ tried' = tried
        /\ chunk' \in Nat /\ chunk' <= MaxChunks
    BY <1>1, <1>7, SynthesizeGoesOn DEF Search, CallsInv
  <2>2. tried' + chunk' <= 2 + MaxChunks
    BY <1>1, <2>1, SumBound
  <2>3. /\ tried' <= 2 + MaxChunks
        /\ tried' <= 3 + MaxChunks + MaxSections
        /\ tried' <= 3 + MaxChunks + MaxSections + 3
    BY <1>1, <2>1
  <2>4. pc' \notin {"idle", "resolving", "planning", "searching", "sectioning", "rewriting",
                    "judging", "abstaining"}
    BY <2>1
  <2>5. QED
    BY <2>2, <2>3, <2>4, Zenon DEF CallsInv
<1>8. ASSUME Condense PROVE CallsInv'
  <2>1. /\ pc' \in {"condensing", "writing", "outlining", "failed"}
        /\ tried + chunk <= 2 + MaxChunks /\ tried' = tried + 1 /\ chunk' = chunk - 1 /\ chunk > 0
    BY <1>1, <1>8, SynthesizeGoesOn DEF Condense, Called, CallsInv, EvidenceInv
  <2>2. QED
    BY <1>1, <2>1 DEF CallsInv
<1>9. ASSUME UncaughtFailure PROVE CallsInv'
  <2>1. /\ pc' = "failed" /\ tried' \in {tried, tried + 1}
        /\ pc \in {"idle", "resolving", "planning", "searching", "condensing", "writing", "rewriting"}
    BY <1>3, <1>9 DEF UncaughtFailure, Harnesses
  <2>2. pc = "condensing" => chunk > 0
    BY <1>1 DEF EvidenceInv
  <2>3. tried <= 4 + MaxChunks + MaxSections
    BY <1>1, <2>1, <2>2 DEF CallsInv
  <2>4. QED
    BY <1>1, <2>1, <2>3 DEF CallsInv
<1>10. ASSUME Outline \/ OutlineFails PROVE CallsInv'
  <2>1. /\ pc' \in {"sectioning", "writing"} /\ tried' \in {tried, tried + 1} /\ section' = section
        /\ tried <= 2 + MaxChunks /\ section = 0
    BY <1>1, <1>3, <1>10 DEF Outline, OutlineFails, FallBack, Fails, Harnesses, CallsInv,
                             SectionInv, work
  <2>2. QED
    BY <1>1, <2>1 DEF CallsInv
<1>11. ASSUME Section \/ SectionFails PROVE CallsInv'
  <2>1. /\ pc = "sectioning" /\ pc' \in {"sectioning", "judging", "writing"} /\ section' = section + 1
    BY <1>11, Zenon DEF Section, SectionFails, Fold, FallBack
  <2>2. /\ tried' \in {tried, tried + 1} /\ tried <= 3 + MaxChunks + section /\ section < planned
    BY <1>1, <1>3, <1>11, <2>1 DEF Section, SectionFails, Fails, Harnesses, CallsInv, SectionInv
  <2>3. QED
    BY <1>1, <2>1, <2>2 DEF CallsInv
<1>12. ASSUME Write \/ Rewrite PROVE CallsInv'
  <2>1. /\ tried' = tried + 1
        /\ \/ pc = "writing" /\ pc' \in {"rewriting", "judging"}
           \/ pc = "rewriting" /\ pc' = "judging"
    BY <1>12 DEF Write, Rewrite, Called
  <2>2. QED
    BY <1>1, <2>1 DEF CallsInv
<1>13. ASSUME PassTools \/ Withhold PROVE CallsInv'
  BY <1>1, <1>13 DEF PassTools, Withhold, CallsInv
<1>14. ASSUME Judge \/ VerifierFails \/ VerdictUnreadable \/ Abstain PROVE CallsInv'
  <2>1. /\ pc \in {"judging", "abstaining"} /\ pc' \in {"committing", "failed"}
        /\ tried' \in {tried, tried + 1}
    BY <1>3, <1>14 DEF Judge, VerifierFails, VerdictUnreadable, Abstain, Asks, Emit, Harnesses
  <2>2. QED
    BY <1>1, <2>1 DEF CallsInv
<1>15. ASSUME UNCHANGED vars PROVE CallsInv'
  BY <1>2, <1>15 DEF vars, work
<1>16. QED
  BY <1>4, <1>5, <1>6, <1>7, <1>8, <1>9, <1>10, <1>11, <1>12, <1>13, <1>14, <1>15
     DEF Next, Step, Quiet

(* The inductive invariant of a turn. *)
LEMMA TurnInvariant == Spec => []Inv
<1>1. Inv /\ [Next]_vars => Inv'
  BY TypeStep, EvidenceStep, SectionStep, GateStep, CallsStep DEF Inv
<1>2. QED
  BY InitInv, <1>1, PTL DEF Spec

-----------------------------------------------------------------------------

(* The state of a turn has its type wherever it is (loop.py:93-310). *)
THEOREM TurnTypeCorrect == Spec => []TypeOK
<1>1. Inv => TypeOK
  BY DEF Inv
<1>2. QED
  BY TurnInvariant, <1>1, PTL

(* Whatever the models answer and whichever calls fail, what a turn commits and *)
(* shows is what was judged, under the status the judgment gave it.             *)
THEOREM EmitGateHolds == Spec => []EmitGate
<1>1. Inv => EmitGate
  BY DEF Inv
<1>2. QED
  BY TurnInvariant, <1>1, PTL

(* No answer is ever emitted from no evidence when the plan requires some, and a *)
(* turn abstains for no other reason.                                            *)
THEOREM NothingFromNothingHolds == Spec => []NothingFromNothing
<1>1. Inv => NothingFromNothing
  <2> SUFFICES ASSUME Inv PROVE NothingFromNothing
    OBVIOUS
  <2>1. hits \in Nat /\ notes \in Nat /\ EvidenceInv /\ GateInv
    BY PipelineAssumption DEF Inv, TypeOK
  <2>2. Grounded <=> hits > 0
    BY <2>1 DEF Grounded, EvidenceInv
  <2>3. QED
    BY <2>1, <2>2 DEF NothingFromNothing, GateInv, EvidenceInv
<1>2. QED
  BY TurnInvariant, <1>1, PTL

(* A turn makes a bounded number of model calls, whatever fails and is written again. *)
THEOREM CallsAreBounded == Spec => []CallBudget
<1>1. Inv => CallBudget
  BY PipelineAssumption DEF Inv, TypeOK, CallsInv, CallBudget
<1>2. QED
  BY TurnInvariant, <1>1, PTL

-----------------------------------------------------------------------------

\* The calls behind an answer, by the mode it was written in.
RouteWritten ==
    \/ /\ mode = "structured" /\ ~asked.tools
       /\ Times("synthesis-outline") = 1
       /\ authored \in MinSections .. planned
       /\ authored <= Times("synthesis-section")
       /\ Times("reference-chat") = 0
    \/ /\ mode = "single"
       /\ Times("synthesis-outline") + Times("synthesis-section") = 0
       /\ Times("reference-chat") \in 1 .. 2
    \/ /\ mode = "single_fallback" /\ ~asked.tools
       /\ authored < MinSections
       /\ Times("reference-chat") \in 1 .. 2

\* The single synthesis begins: for a request that went there, or after an attempt.
RouteSingle ==
    \/ mode = "single" /\ Times("synthesis-outline") + Times("synthesis-section") = 0
    \/ mode = "single_fallback" /\ ~asked.tools /\ authored < MinSections

\* The calls a turn has recorded where it is.
RouteInv ==
    /\ pc \in {"idle", "resolving", "planning", "searching", "condensing", "outlining"}
          => /\ mode = "single" /\ Times("reference-chat") = 0
             /\ Times("synthesis-outline") = 0 /\ Times("synthesis-section") = 0
    /\ pc = "outlining" => ~asked.tools
    /\ pc = "sectioning"
          => /\ ~asked.tools /\ Times("reference-chat") = 0
             /\ Times("synthesis-outline") = 1 /\ authored <= Times("synthesis-section")
    /\ pc = "writing" => RouteSingle /\ Times("reference-chat") = 0
    /\ pc = "rewriting" => RouteSingle /\ Times("reference-chat") = 1
    /\ pc \in {"judging", "abstaining"} \/ Emitted
          => /\ RouteWritten
             /\ synthesis.text.body = "empty" /\ ~synthesis.tools => Times("reference-chat") = 2
    /\ Emitted /\ content.kind # "abstention" => content.text = synthesis.text

(* A recorded call counts for its harness and for no other. *)
LEMMA TimesCount ==
  ASSUME TypeOK, NEW h, NEW g
  PROVE  /\ Times(g) \in Nat
         /\ calls' = Append(calls, h) => Times(g)' = IF g = h THEN Times(g) + 1 ELSE Times(g)
         /\ calls' = calls => Times(g)' = Times(g)
<1> DEFINE before == {i \in DOMAIN calls : calls[i] = g}
           n == Len(calls)
<1>1. calls \in Seq(Harnesses) /\ n \in Nat /\ DOMAIN calls = 1 .. n
  BY DEF TypeOK
<1>2. IsFiniteSet(before) /\ Cardinality(before) \in Nat
  <2>1. IsFiniteSet(1 .. n)
    BY <1>1, FS_Interval
  <2>2. before \subseteq 1 .. n
    BY <1>1
  <2>3. QED
    BY <2>1, <2>2, FS_Subset, FS_CardinalityType
<1>3. ASSUME calls' = Append(calls, h)
      PROVE  Times(g)' = IF g = h THEN Times(g) + 1 ELSE Times(g)
  <2> DEFINE after == {i \in DOMAIN calls' : calls'[i] = g}
  <2>1. /\ DOMAIN calls' = 1 .. n + 1 /\ calls'[n + 1] = h
        /\ \A i \in 1 .. n : calls'[i] = calls[i]
    BY <1>1, <1>3
  <2>2. after = IF g = h THEN before \cup {n + 1} ELSE before
    BY <1>1, <2>1
  <2>3. n + 1 \notin before
    BY <1>1
  <2>4. Times(g) = Cardinality(before) /\ Times(g)' = Cardinality(after)
    BY DEF Times
  <2> HIDE DEF before, after
  <2>5. Cardinality(before \cup {n + 1}) = Cardinality(before) + 1
    BY <1>2, <2>3, FS_AddElement
  <2>6. QED
    BY <2>2, <2>4, <2>5
<1>4. calls' = calls => Times(g)' = Times(g)
  BY DEF Times
<1>5. QED
  BY <1>2, <1>3, <1>4 DEF Times

(* What a call by one harness leaves of the counts of the others. *)
LEMMA CallsOfOthers ==
  ASSUME TypeOK, NEW h, Called(h) \/ Fails(h)
  PROVE  /\ \A g : g # h => Times(g)' = Times(g)
         /\ Times(h)' \in {Times(h), Times(h) + 1}
         /\ Called(h) => Times(h)' = Times(h) + 1
<1>1. calls' \in {calls, Append(calls, h)} /\ (Called(h) => calls' = Append(calls, h))
  BY DEF Called, Fails, CallRaises, Unknown
<1>2. \A g : /\ calls' = Append(calls, h) => Times(g)' = IF g = h THEN Times(g) + 1 ELSE Times(g)
             /\ calls' = calls => Times(g)' = Times(g)
  BY TimesCount
<1>3. QED
  BY <1>1, <1>2

(* The close a focused answer gets does not fill it. *)
LEMMA SettledBody ==
  ASSUME NEW reply \in Reply
  PROVE  Settled(reply).text.body = reply.text.body /\ Settled(reply).tools = reply.tools
BY DEF Settled, Closed, Reply, Text

(* Synthesis begins with the single call, or with an outline for a request without tools. *)
LEMMA SynthesizeRoute ==
  ASSUME NEW p, Synthesize(p)
  PROVE  pc' \in {"writing", "outlining", "failed"} /\ (pc' = "outlining" => ~asked.tools)
BY DEF Synthesize, Structured

(* Where nothing of the route changes, the counts are those of before. *)
LEMMA RouteKept ==
  ASSUME TypeOK, calls' = calls, UNCHANGED <<asked, planned, authored, mode>>
  PROVE  /\ \A g : Times(g)' = Times(g)
         /\ RouteSingle' <=> RouteSingle
         /\ RouteWritten' <=> RouteWritten
<1>1. \A g : Times(g)' = Times(g)
  BY TimesCount
<1>2. QED
  BY <1>1 DEF RouteSingle, RouteWritten

(* So it is for a call by a harness the route does not depend on. *)
LEMMA RouteKeptByOthers ==
  ASSUME TypeOK, NEW h, Called(h) \/ Fails(h), UNCHANGED <<asked, planned, authored, mode>>,
         h \notin {"synthesis-outline", "synthesis-section", "reference-chat"}
  PROVE  /\ Times("synthesis-outline")' = Times("synthesis-outline")
         /\ Times("synthesis-section")' = Times("synthesis-section")
         /\ Times("reference-chat")' = Times("reference-chat")
         /\ RouteSingle' <=> RouteSingle
         /\ RouteWritten' <=> RouteWritten
<1>1. /\ Times("synthesis-outline")' = Times("synthesis-outline")
      /\ Times("synthesis-section")' = Times("synthesis-section")
      /\ Times("reference-chat")' = Times("reference-chat")
  BY CallsOfOthers
<1>2. QED
  BY <1>1 DEF RouteSingle, RouteWritten

(* Which calls a turn has recorded follows the stops it makes. *)
LEMMA RouteStep == Inv /\ RouteInv /\ [Next]_vars => RouteInv'
<1> SUFFICES ASSUME Inv, RouteInv, [Next]_vars PROVE RouteInv'
  OBVIOUS
<1> DEFINE Early == {"idle", "resolving", "planning", "searching", "condensing", "outlining"}
           Fresh == /\ mode = "single" /\ Times("reference-chat") = 0
                    /\ Times("synthesis-outline") = 0 /\ Times("synthesis-section") = 0
<1>1. /\ TypeOK /\ SectionInv
      /\ \A g : Times(g) \in Nat
      /\ planned \in Nat /\ section \in Nat /\ authored \in Nat
      /\ MinSections \in Nat \ {0}
  BY PipelineAssumption, TimesCount DEF Inv, TypeOK
\* A step of the turn before its synthesis.
<1>2. ASSUME pc \in Early \ {"outlining"},
             pc' \in {"resolving", "planning", "searching", "condensing", "outlining", "writing", "failed"},
             pc' = "outlining" => ~asked.tools,
             UNCHANGED <<asked, planned, authored, mode>>,
             Times("synthesis-outline")' = Times("synthesis-outline"),
             Times("synthesis-section")' = Times("synthesis-section"),
             Times("reference-chat")' = Times("reference-chat")
      PROVE  RouteInv'
  BY <1>1, <1>2 DEF RouteInv, RouteSingle, Emitted
<1>3. ASSUME pc' = "failed" PROVE RouteInv'
  BY <1>3 DEF RouteInv, Emitted
<1>4. ASSUME Begin PROVE RouteInv'
  <2>1. \A g : Times(g)' = Times(g)
    BY <1>1, <1>4, TimesCount DEF Begin
  <2>2. QED
    BY <1>2, <1>4, <2>1 DEF Begin, work
<1>5. ASSUME Resolve PROVE RouteInv'
  <2>1. /\ Times("synthesis-outline")' = Times("synthesis-outline")
        /\ Times("synthesis-section")' = Times("synthesis-section")
        /\ Times("reference-chat")' = Times("reference-chat")
    BY <1>1, <1>5, CallsOfOthers DEF Resolve
  <2>2. QED
    BY <1>2, <1>5, <2>1 DEF Resolve, work
<1>6. ASSUME ComposePlan PROVE RouteInv'
  <2>1. /\ Times("synthesis-outline")' = Times("synthesis-outline")
        /\ Times("synthesis-section")' = Times("synthesis-section")
        /\ Times("reference-chat")' = Times("reference-chat")
    BY <1>1, <1>6, CallsOfOthers DEF ComposePlan
  <2>2. pc' \in {"searching", "writing", "outlining", "failed"} /\ (pc' = "outlining" => ~asked.tools)
    BY <1>6, SynthesizeRoute DEF ComposePlan
  <2>3. QED
    BY <1>2, <1>6, <2>1, <2>2 DEF ComposePlan, work
<1>7. ASSUME Search PROVE RouteInv'
  <2>1. \A g : Times(g)' = Times(g)
    BY <1>1, <1>7, TimesCount DEF Search
  <2>2. pc' \in {"condensing", "writing", "outlining", "failed"} /\ (pc' = "outlining" => ~asked.tools)
    BY <1>7, SynthesizeRoute DEF Search
  <2>3. QED
    BY <1>2, <1>7, <2>1, <2>2 DEF Search
<1>8. ASSUME Condense PROVE RouteInv'
  <2>1. /\ Times("synthesis-outline")' = Times("synthesis-outline")
        /\ Times("synthesis-section")' = Times("synthesis-section")
        /\ Times("reference-chat")' = Times("reference-chat")
    BY <1>1, <1>8, CallsOfOthers DEF Condense
  <2>2. pc' \in {"condensing", "writing", "outlining", "failed"} /\ (pc' = "outlining" => ~asked.tools)
    BY <1>8, SynthesizeRoute DEF Condense
  <2>3. QED
    BY <1>2, <1>8, <2>1, <2>2 DEF Condense
<1>9. ASSUME Outline PROVE RouteInv'
  <2>1. /\ Times("synthesis-section")' = Times("synthesis-section")
        /\ Times("reference-chat")' = Times("reference-chat")
        /\ Times("synthesis-outline")' = Times("synthesis-outline") + 1
    BY <1>1, <1>9, CallsOfOthers DEF Outline
  <2>2. authored = 0 /\ authored' = 0 /\ ~asked.tools /\ asked' = asked
    BY <1>1, <1>9 DEF Outline, SectionInv, RouteInv
  <2>3. Fresh
    BY <1>9 DEF Outline, RouteInv
  <2>4. \/ pc' = "sectioning"
        \/ pc' = "writing" /\ mode' = "single_fallback"
    BY <1>9 DEF Outline, FallBack
  <2>5. QED
    BY <1>1, <2>1, <2>2, <2>3, <2>4 DEF RouteInv, RouteSingle, Emitted
<1>10. ASSUME OutlineFails PROVE RouteInv'
  <2>1. Times("reference-chat")' = Times("reference-chat")
    BY <1>1, <1>10, CallsOfOthers DEF OutlineFails, Fails
  <2>2. /\ authored = 0 /\ authored' = 0 /\ ~asked.tools /\ asked' = asked
        /\ Times("reference-chat") = 0
    BY <1>1, <1>10 DEF OutlineFails, SectionInv, RouteInv, work
  <2>3. pc' = "writing" /\ mode' = "single_fallback"
    BY <1>10 DEF OutlineFails, FallBack
  <2>4. QED
    BY <1>1, <2>1, <2>2, <2>3 DEF RouteInv, RouteSingle, Emitted
<1>11. ASSUME Section \/ SectionFails PROVE RouteInv'
  <2>1. /\ Times("synthesis-outline")' = Times("synthesis-outline")
        /\ Times("reference-chat")' = Times("reference-chat")
        /\ Times("synthesis-section")' \in {Times("synthesis-section"), Times("synthesis-section") + 1}
        /\ Section => Times("synthesis-section")' = Times("synthesis-section") + 1
    BY <1>1, <1>11, CallsOfOthers DEF Section, SectionFails, Fails
  <2>2. /\ ~asked.tools /\ asked' = asked /\ planned' = planned
        /\ Times("reference-chat") = 0 /\ Times("synthesis-outline") = 1
        /\ authored <= Times("synthesis-section")
    BY <1>11 DEF Section, SectionFails, RouteInv
  <2>3. /\ section' = section + 1 /\ authored <= section /\ section < planned /\ Fold(authored')
        /\ authored' \in {authored, authored + 1}
        /\ SectionFails => authored' = authored
    BY <1>1, <1>11 DEF Section, SectionFails, SectionInv, Fold
  <2>4. authored' <= Times("synthesis-section")' /\ authored' <= planned /\ authored' \in Nat
    BY <1>1, <1>11, <2>1, <2>2, <2>3
  <2>5. \/ pc' = "sectioning"
        \/ /\ pc' = "judging" /\ mode' = "structured" /\ authored' >= MinSections
           /\ synthesis'.text.body # "empty"
        \/ pc' = "writing" /\ mode' = "single_fallback" /\ authored' < MinSections
    <3>1. pc = "sectioning"
      BY <1>11 DEF Section, SectionFails
    <3>2. CASE section' < planned
      BY <2>3, <3>1, <3>2 DEF Fold
    <3>3. CASE ~(section' < planned) /\ authored' >= MinSections
      BY <2>3, <3>3 DEF Fold
    <3>4. CASE ~(section' < planned) /\ ~(authored' >= MinSections)
      BY <1>1, <2>3, <2>4, <3>4 DEF Fold, FallBack
    <3>5. QED
      BY <3>2, <3>3, <3>4
  <2>6. QED
    BY <1>1, <2>1, <2>2, <2>4, <2>5 DEF RouteInv, RouteSingle, RouteWritten, Emitted
<1>12. ASSUME Write \/ Rewrite PROVE RouteInv'
  <2>1. /\ Times("synthesis-outline")' = Times("synthesis-outline")
        /\ Times("synthesis-section")' = Times("synthesis-section")
        /\ Times("reference-chat")' = Times("reference-chat") + 1
    BY <1>1, <1>12, CallsOfOthers DEF Write, Rewrite
  <2>2. /\ RouteSingle /\ UNCHANGED <<asked, planned, authored, mode>>
        /\ Times("reference-chat") = IF pc = "writing" THEN 0 ELSE 1
        /\ pc \in {"writing", "rewriting"}
    BY <1>12 DEF Write, Rewrite, RouteInv, work
  <2>3. \/ pc = "writing" /\ pc' = "rewriting"
        \/ /\ pc' = "judging"
           /\ pc = "writing" => synthesis'.text.body # "empty" \/ synthesis'.tools
    <3>1. CASE Write
      <4>1. PICK reply \in Replies :
               IF Blank(reply) THEN synthesis' = reply /\ pc' = "rewriting"
                               ELSE synthesis' = Settled(reply) /\ pc' = "judging"
        BY <3>1, Zenon DEF Write
      <4>2. pc = "writing"
        BY <3>1 DEF Write
      <4>3. /\ Settled(reply).text.body = reply.text.body
            /\ Settled(reply).tools = reply.tools /\ reply.tools \in BOOLEAN
        BY SettledBody DEF Replies, Reply
      <4>4. QED
        BY <4>1, <4>2, <4>3 DEF Blank
    <3>2. CASE Rewrite
      BY <3>2 DEF Rewrite
    <3>3. QED
      BY <1>12, <3>1, <3>2
  <2>4. RouteSingle'
    BY <2>1, <2>2 DEF RouteSingle
  <2>5. QED
    BY <1>1, <2>1, <2>2, <2>3, <2>4 DEF RouteInv, RouteSingle, RouteWritten, Emitted
\* The gate and what follows leave the route as it is.
<1>13. ASSUME pc \in {"judging", "abstaining"} \/ Emitted,
              pc' \in {"judging", "abstaining", "committing", "receipting", "done", "failed"},
              UNCHANGED <<asked, planned, authored, mode, synthesis>>,
              Times("reference-chat")' = Times("reference-chat"),
              RouteWritten' <=> RouteWritten,
              Emitted' /\ content'.kind # "abstention" => content'.text = synthesis.text
       PROVE  RouteInv'
  BY <1>1, <1>13 DEF RouteInv, Emitted
<1>14. ASSUME PassTools \/ Withhold PROVE RouteInv'
  <2>1. (\A g : Times(g)' = Times(g)) /\ (RouteWritten' <=> RouteWritten)
    BY <1>1, <1>14, RouteKept DEF PassTools, Withhold, work
  <2>2. QED
    BY <1>13, <1>14, <2>1 DEF PassTools, Withhold, work, Emitted
<1>15. ASSUME Judge \/ VerifierFails \/ VerdictUnreadable PROVE RouteInv'
  <2>1. (Called("verification") \/ Fails("verification")) /\ UNCHANGED <<asked, planned, authored, mode>>
    BY <1>15 DEF Judge, VerifierFails, VerdictUnreadable, work
  <2>2. Times("reference-chat")' = Times("reference-chat") /\ (RouteWritten' <=> RouteWritten)
    BY <1>1, <2>1, RouteKeptByOthers
  <2>3. QED
    BY <1>13, <1>15, <2>2 DEF Judge, VerifierFails, VerdictUnreadable, Asks, Emit, work, Emitted
<1>16. ASSUME Abstain PROVE RouteInv'
  <2>1. (Called("abstention") \/ Fails("abstention")) /\ UNCHANGED <<asked, planned, authored, mode>>
    BY <1>16 DEF Abstain, work
  <2>2. Times("reference-chat")' = Times("reference-chat") /\ (RouteWritten' <=> RouteWritten)
    BY <1>1, <2>1, RouteKeptByOthers
  <2>3. QED
    BY <1>13, <1>16, <2>2 DEF Abstain, work
<1>17. ASSUME Commit \/ Respond PROVE RouteInv'
  <2>1. (\A g : Times(g)' = Times(g)) /\ (RouteWritten' <=> RouteWritten)
    BY <1>1, <1>17, RouteKept DEF Commit, Respond, work
  <2>2. QED
    BY <1>13, <1>17, <2>1 DEF Commit, Respond, work, gate, Emitted, RouteInv
<1>18. ASSUME UncaughtFailure \/ StoreFails \/ Crash PROVE RouteInv'
  BY <1>3, <1>18 DEF UncaughtFailure, StoreFails, Crash
<1>19. ASSUME UNCHANGED vars PROVE RouteInv'
  <2>1. (\A g : Times(g)' = Times(g)) /\ (RouteWritten' <=> RouteWritten) /\ (RouteSingle' <=> RouteSingle)
    BY <1>1, <1>19, RouteKept DEF vars, work
  <2>2. QED
    BY <1>19, <2>1 DEF RouteInv, vars, work, gate, Emitted
<1>20. QED
  BY <1>4, <1>5, <1>6, <1>7, <1>8, <1>9, <1>10, <1>11, <1>12, <1>14, <1>15, <1>16, <1>17, <1>18,
     <1>19 DEF Next, Step, Quiet

(* No call has been recorded when a turn begins. *)
LEMMA InitRoute == Init => RouteInv
<1> SUFFICES ASSUME Init PROVE RouteInv
  OBVIOUS
<1>1. \A g : Times(g) = 0
  <2>1. calls = << >>
    BY DEF Init
  <2>2. \A g : {i \in DOMAIN calls : calls[i] = g} = {}
    BY <2>1
  <2>3. QED
    BY <2>2, FS_EmptySet DEF Times
<1>2. QED
  BY <1>1 DEF Init, RouteInv, Emitted

(* The synthesis mode of a receipt explains the calls it lists, whatever failed on the *)
(* way: a structured answer has its outline and a call for every section kept, a       *)
(* fallback is told from a plain single answer, and an empty answer was asked for      *)
(* twice (loop.py:177-219, structured_synthesis.py).                                   *)
THEOREM ModeExplains == Spec => []ModeExplainsRoute
<1>1. Inv /\ RouteInv => ModeExplainsRoute
  BY DEF RouteInv, RouteWritten, ModeExplainsRoute, Emitted
<1>2. QED
  BY InitInv, InitRoute, TypeStep, EvidenceStep, SectionStep, GateStep, CallsStep, RouteStep,
     TurnInvariant, <1>1, PTL DEF Spec

=============================================================================
