----------------------------- MODULE SpineReducer -----------------------------
(***************************************************************************)
(* fold_updates: one session's spine under any sequence of updates, each   *)
(* applied once or delivered again later. The history folded records the   *)
(* updates the reducer did take in, in order: folded[i] is turn i.         *)
(***************************************************************************)
EXTENDS Discourse, FiniteSets

CONSTANTS
    Requests,      \* what an update may carry: subject, topic and entities
    MaxUpdates     \* bound: how many distinct updates a behaviour has

ASSUME UpdatesAssumption ==
    /\ MaxUpdates \in Nat
    /\ Requests \subseteq [subject : Names \cup {Blank}, topic : Names \cup {Blank},
                           entities : SUBSET Names]

VARIABLES
    spine,         \* the DiscourseState
    sent,          \* the distinct updates delivered so far; sent[i].turn_id = i
    folded         \* history: the updates that changed the spine

reducerVars == <<spine, sent, folded>>

Updates(turn) == {[turn_id |-> turn, subject |-> r.subject, topic |-> r.topic,
                   entities |-> r.entities] : r \in Requests}

InitReducer ==
    /\ spine = EmptyState
    /\ sent = << >>
    /\ folded = << >>

Fold(update) ==
    /\ spine' = Reduce(spine, update)
    /\ folded' = IF InRecentWindow(spine, update.turn_id) THEN folded
                                                          ELSE Append(folded, update)

Deliver ==
    /\ Len(sent) < MaxUpdates
    /\ \E update \in Updates(Len(sent) + 1) :
          /\ Fold(update)
          /\ sent' = Append(sent, update)

\* The bound on folded keeps the duplicates of a behaviour finite.
Redeliver ==
    /\ Len(folded) < MaxUpdates + 1
    /\ \E i \in DOMAIN sent : Fold(sent[i])
    /\ UNCHANGED sent

NextReducer == Deliver \/ Redeliver

SpecReducer == InitReducer /\ [][NextReducer]_reducerVars

-----------------------------------------------------------------------------

Stack == spine.topic_stack

\* The turns up to i that named their subject.
Naming(i) == {j \in 1 .. i : folded[j].subject # Blank}

\* The subject turn i was filed under, told from the history: a blank subject is the
\* one named last, and when none was yet, the topic the conversation began with.
FiledSubject(i) ==
    IF Naming(i) # {}
    THEN folded[CHOOSE j \in Naming(i) : \A k \in Naming(i) : k <= j].subject
    ELSE IF folded[1].topic # Blank THEN folded[1].topic ELSE Default

FiledKey(i) == CaseFold[FiledSubject(i)]

(***************************************************************************)
(* The stack is a least-recently-used cache of the conversation: its i-th  *)
(* frame is the topic discussed i-th most recently, once whatever the case *)
(* of its names, with the turn that discussed it last, under the spelling  *)
(* that turn used, and only the first one is active (discourse.py:84-113). *)
(***************************************************************************)
LastTurnOf(key) ==
    CHOOSE i \in DOMAIN folded : /\ FiledKey(i) = key
                                 /\ \A j \in DOMAIN folded : FiledKey(j) = key => j <= i

MostRecentTopics ==
    LET keys == {FiledKey(i) : i \in DOMAIN folded}
        newer(key) == {k \in keys : LastTurnOf(k) > LastTurnOf(key)}
        recent == {k \in keys : Cardinality(newer(k)) < TopicLimit}
    IN  /\ Len(Stack) = Cardinality(recent)
        /\ \A k \in recent :
              LET f == Stack[Cardinality(newer(k)) + 1]
              IN  /\ f.topic_id = k
                  /\ f.last_turn = LastTurnOf(k)
                  /\ f.name = FiledSubject(f.last_turn)
                  /\ f.status = "active" <=> newer(k) = {}

\* The other topics discussed between turn i and turn j.
Between(i, j) == {FiledKey(k) : k \in (i + 1) .. (j - 1)} \ {FiledKey(j)}

\* Turn j put its topic on the stack: since each of the earlier turns of that topic, as
\* many others were discussed as the stack has room for.
CameUp(j) ==
    \A i \in 1 .. (j - 1) : FiledKey(i) = FiledKey(j) => Cardinality(Between(i, j)) >= TopicLimit

\* A frame's first turn is the last one that put its topic on the stack.
FirstTurns ==
    \A i \in DOMAIN Stack :
        LET f == Stack[i]
            arrivals == {j \in DOMAIN folded : FiledKey(j) = f.topic_id /\ CameUp(j)}
        IN  f.first_turn \in arrivals /\ \A j \in arrivals : j <= f.first_turn

\* Its entities are those of its topic's turns from there on.
EntitiesOfTurns ==
    \A i \in DOMAIN Stack :
        LET f == Stack[i]
            turns == {j \in f.first_turn .. f.last_turn : FiledKey(j) = f.topic_id}
        IN  /\ f.first_turn \in turns
            /\ f.entities = UNION {folded[j].entities : j \in turns}

(***************************************************************************)
(* A topic that is returned to keeps every entity learned since it came on *)
(* the stack, under whichever spelling, and one that was evicted in        *)
(* between starts afresh. When it came on the stack is told from the       *)
(* history of the session alone, not from its frame (discourse.py:84-97).  *)
(***************************************************************************)
EntitiesAccumulate == FirstTurns /\ EntitiesOfTurns

\* What the recent window keeps of the k-th turn folded.
Entry(k) == [turn_id |-> folded[k].turn_id, index |-> k, subject |-> FiledSubject(k)]

(***************************************************************************)
(* The recent window is the end of the conversation: its turns are the     *)
(* last ones folded, in order, each with the subject it was filed under.   *)
(***************************************************************************)
RecentIsTheEnd ==
    LET n == Len(spine.recent_turns)
    IN  /\ spine.current_turn = Len(folded)
        /\ n = IF Len(folded) < RecentLimit THEN Len(folded) ELSE RecentLimit
        /\ spine.recent_turns = [i \in 1 .. n |-> Entry(Len(folded) - n + i)]

(***************************************************************************)
(* The reducer is idempotent over the recent window: delivering one of its *)
(* turns again, at once or some turns later, changes nothing               *)
(* (discourse.py:79-80).                                                   *)
(***************************************************************************)
RecentDuplicatesIgnored ==
    \A i \in DOMAIN folded :
        i > Len(folded) - RecentLimit => Reduce(spine, folded[i]) = spine
=============================================================================
