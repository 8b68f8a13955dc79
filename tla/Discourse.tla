------------------------------ MODULE Discourse ------------------------------
(***************************************************************************)
(* The conversation spine of a session: the state                          *)
(* cognitive_loop/discourse.py keeps, the reducer that folds one completed *)
(* turn into it, and the menu of referents it offers to the next turn.     *)
(*                                                                         *)
(* Queries, summaries, source lists and verification labels are carried    *)
(* through the reducer untouched and decide nothing, so they are left out. *)
(* Entities are a set: their order only fixes the order of a menu.         *)
(***************************************************************************)
EXTENDS Integers, Sequences

CONSTANTS
    Names,        \* the spellings a subject or an entity can have
    CaseFold,     \* [Names -> topic identifiers]: str.casefold
    Blank,        \* what strip() leaves of an empty subject, not a name
    Unresolved,   \* the menu's sentinel "unresolved", a name
    Default,      \* the reducer's last resort "current request", a name
    TopicLimit,   \* topics kept on the stack (12 in the code)
    RecentLimit   \* turns kept in the recent window (12 in the code)

ASSUME NamesAssumption ==
    /\ Unresolved \in Names
    /\ Default \in Names
    /\ Blank \notin Names
    /\ DOMAIN CaseFold = Names

ASSUME LimitsAssumption ==
    /\ TopicLimit \in Nat \ {0}
    /\ RecentLimit \in Nat \ {0}

TopicIds == {CaseFold[n] : n \in Names}

TopicFrame == [topic_id : TopicIds, name : Names, status : {"active", "background"},
               entities : SUBSET Names, first_turn : Nat, last_turn : Nat]

TurnFrame(T) == [turn_id : T, index : Nat, subject : Names]

\* The states of a session whose turns have their identifiers in T.
DiscourseState(T) ==
    [current_turn : Nat, active_subject : Names \cup {Blank},
     topic_stack : Seq(TopicFrame), recent_turns : Seq(TurnFrame(T))]

\* The state of a session that has no row yet.
EmptyState == [current_turn   |-> 0,
               active_subject |-> Blank,
               topic_stack    |-> << >>,
               recent_turns   |-> << >>]

-----------------------------------------------------------------------------

\* The subject a turn is filed under: its own, else the active one, else its topic.
SubjectOf(state, update) ==
    LET choices == <<update.subject, state.active_subject, update.topic, Default>>
    IN  choices[CHOOSE i \in 1 .. 4 : /\ choices[i] # Blank
                                      /\ \A j \in 1 .. (i - 1) : choices[j] = Blank]

InRecentWindow(state, turn) ==
    \E i \in 1 .. Len(state.recent_turns) : state.recent_turns[i].turn_id = turn

\* Mutant of LastOf: the wrong end of the sequence is kept.
LastOfKeepsHead(s, n) == IF Len(s) <= n THEN s ELSE SubSeq(s, 1, n)

\* The last n items of a sequence, Python's s[-n:].
LastOf(s, n) == IF Len(s) <= n THEN s ELSE SubSeq(s, Len(s) - n + 1, Len(s))

\* Mutant of FirstOf: the wrong end is kept.
FirstOfKeepsTail(s, n) == LastOf(s, n)

\* The first n items of a sequence, Python's s[:n].
FirstOf(s, n) == IF Len(s) <= n THEN s ELSE SubSeq(s, 1, n)

\* Where the frame of a topic is on the stack, or 0. A stack never holds a topic
\* twice (WellFormed), so the first frame the code finds is the only one.
Position(stack, id) ==
    IF \E i \in 1 .. Len(stack) : stack[i].topic_id = id
    THEN CHOOSE i \in 1 .. Len(stack) : stack[i].topic_id = id
    ELSE 0

\* The frames of the other topics, in order: at most one frame goes.
Others(stack, id) ==
    LET at == Position(stack, id)
    IN  IF at = 0 THEN stack
        ELSE [i \in 1 .. (Len(stack) - 1) |-> stack[IF i < at THEN i ELSE i + 1]]

Retained(stack, id) ==
    LET others == Others(stack, id)
    IN  [i \in 1 .. Len(others) |-> [others[i] EXCEPT !.status = "background"]]

\* Mutant of ActiveFrame: a known topic is looked up by its spelling.
ActiveFrameBySpelling(state, update, subject, index) ==
    LET known == {i \in DOMAIN state.topic_stack : state.topic_stack[i].name = subject}
    IN  [topic_id |-> CaseFold[subject], name |-> subject, status |-> "active",
         entities |-> update.entities \cup UNION {state.topic_stack[i].entities : i \in known},
         first_turn |-> IF known = {} THEN index
                        ELSE state.topic_stack[CHOOSE i \in known : TRUE].first_turn,
         last_turn |-> index]

\* The frame the turn puts at the head of the stack: a known topic keeps its
\* first turn and its entities, and takes the newest spelling.
ActiveFrame(state, update, subject, index) ==
    LET id == CaseFold[subject]
        at == Position(state.topic_stack, id)
    IN  [topic_id   |-> id,
         name       |-> subject,
         status     |-> "active",
         entities   |-> update.entities
                          \cup (IF at = 0 THEN {} ELSE state.topic_stack[at].entities),
         first_turn |-> IF at = 0 THEN index ELSE state.topic_stack[at].first_turn,
         last_turn  |-> index]

Folded(state, update) ==
    LET index   == state.current_turn + 1
        subject == SubjectOf(state, update)
    IN  [current_turn   |-> index,
         active_subject |-> subject,
         topic_stack    |-> FirstOf(<<ActiveFrame(state, update, subject, index)>>
                                       \o Retained(state.topic_stack, CaseFold[subject]),
                                    TopicLimit),
         recent_turns   |-> LastOf(Append(state.recent_turns,
                                          [turn_id |-> update.turn_id, index |-> index,
                                           subject |-> subject]),
                                   RecentLimit)]

\* reduce_state: one completed turn folded in, unless the recent window already has it.
Reduce(state, update) ==
    IF InRecentWindow(state, update.turn_id) THEN state ELSE Folded(state, update)

\* fold_updates: every update of a sequence, from the left.
FoldUpdates(state, updates) ==
    LET fold[n \in 0 .. Len(updates)] ==
            IF n = 0 THEN state ELSE Reduce(fold[n - 1], updates[n])
    IN  fold[Len(updates)]

\* subject_menu: what a later turn may refer to.
SubjectMenu(state) ==
    {Unresolved}
      \cup ({state.active_subject} \ {Blank})
      \cup UNION {{state.topic_stack[i].name} \cup state.topic_stack[i].entities :
                    i \in DOMAIN state.topic_stack}
-----------------------------------------------------------------------------

(***************************************************************************)
(* A spine is well formed: the stack is bounded, never holds a topic       *)
(* twice, holds exactly one active topic, at its head, the one the active  *)
(* subject names, and lists the others in the order they were last         *)
(* discussed (discourse.py:84-114).                                        *)
(***************************************************************************)
WellFormed(state) ==
    LET stack == state.topic_stack
    IN  /\ Len(stack) <= TopicLimit
        /\ \A i, j \in 1 .. Len(stack) : i < j => /\ stack[i].topic_id # stack[j].topic_id
                                                  /\ stack[i].last_turn > stack[j].last_turn
        /\ \A i \in 1 .. Len(stack) : /\ stack[i].status = "active" <=> i = 1
                                      /\ stack[i].topic_id = CaseFold[stack[i].name]
                                      /\ stack[i].first_turn <= stack[i].last_turn
        /\ Len(stack) > 0 => /\ stack[1].name = state.active_subject
                             /\ stack[1].last_turn = state.current_turn
        /\ Len(stack) = 0 <=> state.current_turn = 0
=============================================================================
