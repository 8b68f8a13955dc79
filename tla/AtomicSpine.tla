----------------------------- MODULE AtomicSpine -----------------------------
(***************************************************************************)
(* What the store promises of the conversation spines: "one atomic state   *)
(* transition per session" (store.py:82). A completed turn is folded into  *)
(* the spine of its session in one step, on top of everything that was     *)
(* folded before, at most once, and nothing ever takes it out again.       *)
(***************************************************************************)
EXTENDS Discourse

CONSTANTS
    Sessions,     \* session identifiers
    Turns         \* turn identifiers

VARIABLES
    spine,        \* [Sessions -> DiscourseState]
    log           \* [Sessions -> Seq(Update)]: the updates folded, in order

Update == [turn_id : Turns, subject : Names, topic : Names, entities : SUBSET Names]

TurnsIn(history) == {history[i].turn_id : i \in DOMAIN history}

Init ==
    /\ spine = [s \in Sessions |-> EmptyState]
    /\ log = [s \in Sessions |-> << >>]

Commit(s, u) ==
    /\ log' = [log EXCEPT ![s] = Append(@, u)]
    /\ \A r \in Sessions : u.turn_id \notin TurnsIn(log[r])
    /\ spine' = [spine EXCEPT ![s] = Reduce(@, u)]

\* Whatever leaves the histories alone is no step.
Next == \E s \in Sessions : log'[s] # log[s] /\ \E u \in Update : Commit(s, u)

Spec == Init /\ [][Next]_<<spine, log>>
=============================================================================
