---------------------------- MODULE Comprehension ----------------------------
(***************************************************************************)
(* ComprehensionPass.resolve: what the runtime keeps of the answer of the  *)
(* subject-resolution model, given the user's words and the menu of        *)
(* referents of the spine the turn read.                                   *)
(*                                                                         *)
(* A query is what the code's patterns see in it:                          *)
(*   returns   the name after "return to", or Blank                        *)
(*   recap     whether it asks for a recap of the conversation             *)
(*   explicit  the subject _explicit_subject reads off it, never blank     *)
(* A reply is the parsed answer of the model, after the code's defaults:   *)
(*   subject, topic (names or Blank), relation, entities (a set of names)  *)
(***************************************************************************)
EXTENDS Discourse

CONSTANT
    Conversation    \* the subject "conversation" of a recap, a name

ASSUME ConversationAssumption == Conversation \in Names

Relations == {"continue", "return", "shift", "meta"}

Query == [returns : Names \cup {Blank}, recap : BOOLEAN, explicit : Names]

Reply == [subject : Names \cup {Blank}, topic : Names \cup {Blank},
          relation : Relations, entities : SUBSET Names]

\* The menu's spellings of a name, compared without case.
Allowed(menu, name) == {m \in menu : CaseFold[m] = CaseFold[name]}

\* The subject the model selected: its subject, else its topic, else the sentinel.
Selected(reply) ==
    IF reply.subject # Blank THEN reply.subject
    ELSE IF reply.topic # Blank THEN reply.topic ELSE Unresolved

Returns(query, menu) == query.returns # Blank /\ Allowed(menu, query.returns) # {}

RelationOf(query, reply, menu) ==
    IF Returns(query, menu) THEN "return"
    ELSE IF query.recap THEN "meta" ELSE reply.relation

IsUnresolved(name) == CaseFold[name] = CaseFold[Unresolved]

\* The subjects a resolution may have (a menu with two spellings of one name may
\* offer either). The last override applies to every unresolved shift.
SubjectsOf(query, reply, menu) ==
    LET relation == RelationOf(query, reply, menu)
    IN  IF relation = "shift" /\ IsUnresolved(Selected(reply))
        THEN {IF reply.topic # Blank /\ ~IsUnresolved(reply.topic) THEN reply.topic
                                                                   ELSE query.explicit}
        ELSE IF Returns(query, menu) THEN Allowed(menu, query.returns)
        ELSE IF query.recap THEN {Conversation}
        ELSE IF relation \in {"shift", "meta"} THEN {query.explicit}
        ELSE {Selected(reply)}

\* Mutant of Referents: the model's entities are taken as they come.
ReferentsUnchecked(reply, menu) == reply.entities

\* The referents: the model's entities, each respelled as the menu has it, and
\* none that the menu does not have.
Referents(reply, menu) == UNION {Allowed(menu, e) : e \in reply.entities}

Resolutions(query, reply, menu) ==
    {[subject  |-> subject,
      topic    |-> IF reply.topic # Blank THEN reply.topic ELSE subject,
      entities |-> Referents(reply, menu)] : subject \in SubjectsOf(query, reply, menu)}
=============================================================================
