------------------------------ MODULE TurnStore ------------------------------
(***************************************************************************)
(* Concurrent turns over the runtime store (store.py, loop.py:112-302).    *)
(*                                                                         *)
(* A turn reads the committed spine of its session, works for as long as   *)
(* its model calls take on what it read, and then commits: it waits for    *)
(* the session's asyncio lock, reads the spine again, folds its update in, *)
(* writes the result, releases the lock, and writes its receipt in a       *)
(* transaction of its own. Every await is a point where other turns run.   *)
(* Each database operation is one step: the store's thread lock makes it   *)
(* one. The process may stop at any point; the database survives it, locks *)
(* and turns do not. What the turn does between its first read and its     *)
(* commit is module TurnPipeline.                                          *)
(***************************************************************************)
EXTENDS Comprehension, FiniteSets

CONSTANTS
    Sessions,        \* session identifiers
    Turns,           \* turn identifiers (uuid4, fresh for every request)
    SessionOf,       \* [Turns -> Sessions]: the session a request names
    Queries,         \* the queries users send
    Replies          \* the replies of the subject-resolution model

ASSUME TurnsAssumption ==
    /\ SessionOf \in [Turns -> Sessions]
    /\ Queries \subseteq Query
    /\ Replies \subseteq Reply

VARIABLES
    db,              \* table discourse_states: [Sessions -> DiscourseState]
    receipts,        \* table turns: a set of receipts
    queue,           \* [Sessions -> Seq(Turns)]: the session locks; the head holds it
    pc,              \* [Turns -> where the turn is]
    seen,            \* [Turns -> DiscourseState]: spine_before, read at the start
    update,          \* [Turns -> Update]: what the turn will commit
    before,          \* [Turns -> DiscourseState]: what it read under the lock
    committed,       \* [Turns -> Nat]: state_after.current_turn
    log              \* history: the updates written, per session, in order

durable == <<db, receipts, log>>
vars == <<db, receipts, log, queue, pc, seen, update, before, committed>>

Update == [turn_id : Turns, subject : Names, topic : Names, entities : SUBSET Names]

NoUpdate == [turn_id |-> Blank]

Receipt == [turn : Turns, session : Sessions, prior : Nat, committed : Nat]

PC == {"idle", "thinking", "queued", "writing", "written", "receipting", "done", "failed"}

Init ==
    /\ db = [s \in Sessions |-> EmptyState]
    /\ receipts = {}
    /\ log = [s \in Sessions |-> << >>]
    /\ queue = [s \in Sessions |-> << >>]
    /\ pc = [t \in Turns |-> "idle"]
    /\ seen = [t \in Turns |-> EmptyState]
    /\ update = [t \in Turns |-> NoUpdate]
    /\ before = [t \in Turns |-> EmptyState]
    /\ committed = [t \in Turns |-> 0]

Goto(t, label) == pc' = [pc EXCEPT ![t] = label]

\* The turn holds its session's lock: asyncio.Lock serves its waiters in order.
Holds(t) == queue[SessionOf[t]] # << >> /\ Head(queue[SessionOf[t]]) = t

Acquire(t) == queue' = [queue EXCEPT ![SessionOf[t]] = Append(@, t)]

Release(t) == queue' = [queue EXCEPT ![SessionOf[t]] = Tail(@)]

-----------------------------------------------------------------------------

\* A request arrives and the turn reads the spine, without the session's lock.
ReadSpine(t) ==
    /\ pc[t] = "idle"
    /\ seen' = [seen EXCEPT ![t] = db[SessionOf[t]]]
    /\ Goto(t, "thinking")
    /\ UNCHANGED <<durable, queue, update, before, committed>>

\* The turn resolves its subject against the menu of the spine it read and does
\* everything else up to the verification of its answer, then asks for the lock.
Think(t) ==
    /\ pc[t] = "thinking"
    /\ \E q \in Queries, r \in Replies :
          \E res \in Resolutions(q, r, SubjectMenu(seen[t])) :
             update' = [update EXCEPT ![t] = [turn_id |-> t, subject |-> res.subject,
                                              topic |-> res.topic, entities |-> res.entities]]
    /\ Acquire(t)
    /\ Goto(t, "queued")
    /\ UNCHANGED <<durable, seen, before, committed>>

\* A failed read or a failed model call ends the turn before it asks for the lock.
ThinkFails(t) ==
    /\ pc[t] = "thinking"
    /\ Goto(t, "failed")
    /\ UNCHANGED <<durable, queue, seen, update, before, committed>>

ReadUnderLock(t) ==
    /\ pc[t] = "queued"
    /\ Holds(t)
    /\ before' = [before EXCEPT ![t] = db[SessionOf[t]]]
    /\ Goto(t, "writing")
    /\ UNCHANGED <<durable, queue, seen, update, committed>>

\* Mutant of WriteSpine: the update is folded into the spine the turn began with.
WriteStaleSpine(t) ==
    LET s == SessionOf[t]
        after == Reduce(seen[t], update[t])
    IN  /\ pc[t] = "writing"
        /\ db' = [db EXCEPT ![s] = after]
        /\ log' = [log EXCEPT ![s] = Append(@, update[t])]
        /\ committed' = [committed EXCEPT ![t] = after.current_turn]
        /\ Goto(t, "written")
        /\ UNCHANGED <<receipts, queue, seen, update, before>>

\* reduce_state and the upsert of its result.
WriteSpine(t) ==
    LET s == SessionOf[t]
        after == Reduce(before[t], update[t])
    IN  /\ pc[t] = "writing"
        /\ db' = [db EXCEPT ![s] = after]
        /\ log' = [log EXCEPT ![s] = Append(@, update[t])]
        /\ committed' = [committed EXCEPT ![t] = after.current_turn]
        /\ Goto(t, "written")
        /\ UNCHANGED <<receipts, queue, seen, update, before>>

\* Mutant of CommitFails: the error leaves the lock held.
CommitFailsHolding(t) ==
    /\ pc[t] \in {"queued", "writing"}
    /\ Holds(t)
    /\ Goto(t, "failed")
    /\ UNCHANGED <<durable, queue, seen, update, before, committed>>

\* A database error under the lock: the transaction rolls back, the lock is freed.
CommitFails(t) ==
    /\ pc[t] \in {"queued", "writing"}
    /\ Holds(t)
    /\ Release(t)
    /\ Goto(t, "failed")
    /\ UNCHANGED <<durable, seen, update, before, committed>>

\* The writing thread has returned: the coroutine leaves the lock.
LeaveLock(t) ==
    /\ pc[t] = "written"
    /\ Release(t)
    /\ Goto(t, "receipting")
    /\ UNCHANGED <<durable, seen, update, before, committed>>

\* Mutant of WriteReceipt: the committed turn is guessed from the spine read first.
WriteReceiptGuessed(t) ==
    /\ pc[t] = "receipting"
    /\ receipts' = receipts \cup {[turn |-> t, session |-> SessionOf[t],
                                   prior |-> seen[t].current_turn,
                                   committed |-> seen[t].current_turn + 1]}
    /\ Goto(t, "done")
    /\ UNCHANGED <<db, log, queue, seen, update, before, committed>>

\* write_turn, then the response.
WriteReceipt(t) ==
    /\ pc[t] = "receipting"
    /\ receipts' = receipts \cup {[turn |-> t, session |-> SessionOf[t],
                                   prior |-> seen[t].current_turn,
                                   committed |-> committed[t]]}
    /\ Goto(t, "done")
    /\ UNCHANGED <<db, log, queue, seen, update, before, committed>>

\* Mutant of ReceiptFails: the error is swallowed and the client gets its answer.
ReceiptFailsQuietly(t) ==
    /\ pc[t] = "receipting"
    /\ Goto(t, "done")
    /\ UNCHANGED <<durable, queue, seen, update, before, committed>>

ReceiptFails(t) ==
    /\ pc[t] = "receipting"
    /\ Goto(t, "failed")
    /\ UNCHANGED <<durable, queue, seen, update, before, committed>>

Ended(t) == pc[t] \in {"done", "failed"}

Running(t) == pc[t] \notin {"idle", "done", "failed"}

\* The process stops and starts again: _session_locks is empty, every turn is gone.
Restart ==
    /\ \E t \in Turns : Running(t)
    /\ queue' = [s \in Sessions |-> << >>]
    /\ pc' = [t \in Turns |-> IF Running(t) THEN "failed" ELSE pc[t]]
    /\ UNCHANGED <<durable, seen, update, before, committed>>

\* Every request has been answered: the store waits.
Quiet ==
    /\ \A t \in Turns : Ended(t)
    /\ UNCHANGED vars

\* The steps a turn takes by itself once it has read its spine.
Advance(t) ==
    \/ Think(t)
    \/ ReadUnderLock(t)
    \/ WriteSpine(t)
    \/ LeaveLock(t)
    \/ WriteReceipt(t)

Fail(t) == ThinkFails(t) \/ CommitFails(t) \/ ReceiptFails(t)

Next ==
    \/ \E t \in Turns : ReadSpine(t) \/ Advance(t) \/ Fail(t)
    \/ Restart
    \/ Quiet

Spec == Init /\ [][Next]_vars

\* The event loop runs every ready coroutine and every database call returns; a
\* model call times out after 300 s (provider.py:73). Arrivals, failures and
\* restarts are not promised.
Fairness == \A t \in Turns : WF_vars(Advance(t))

FairSpec == Spec /\ Fairness

-----------------------------------------------------------------------------

TypeOK ==
    /\ db \in [Sessions -> DiscourseState(Turns)]
    /\ receipts \subseteq Receipt
    /\ queue \in [Sessions -> Seq(Turns)]
    /\ pc \in [Turns -> PC]
    /\ update \in [Turns -> Update \cup {NoUpdate}]
    /\ seen \in [Turns -> DiscourseState(Turns)]
    /\ before \in [Turns -> DiscourseState(Turns)]
    /\ committed \in [Turns -> Nat]
    /\ log \in [Sessions -> Seq(Update)]

(***************************************************************************)
(* Every spine stays well formed whatever turns fold into it (see          *)
(* WellFormed), so a turn finds at most one active topic and a topic once. *)
(***************************************************************************)
SpinesWellFormed == \A s \in Sessions : WellFormed(db[s])

(***************************************************************************)
(* What a turn read under the lock is still the row when it writes: the    *)
(* read and the write of commit_discourse are two database calls with an   *)
(* await in between (store.py:85-97).                                      *)
(***************************************************************************)
FreshUnderLock ==
    \A t \in Turns : pc[t] = "writing" => /\ Holds(t)
                                          /\ before[t] = db[SessionOf[t]]

(***************************************************************************)
(* A receipt names the commit it accounts for: the turn it says was folded *)
(* as committed_turn is the one the session's history has there, the turn  *)
(* answered from an earlier spine, and no two receipts share a turn or a   *)
(* commit (loop.py:299).                                                   *)
(***************************************************************************)
ReceiptsTruthful ==
    /\ \A r \in receipts :
          /\ r.prior < r.committed
          /\ r.committed \in DOMAIN log[r.session]
          /\ log[r.session][r.committed].turn_id = r.turn
    /\ \A q, r \in receipts :
          q.turn = r.turn \/ (q.session = r.session /\ q.committed = r.committed) => q = r

(***************************************************************************)
(* A referent a turn commits was in its own session's conversation before: *)
(* the subject of an earlier turn of that session, or the sentinel. The    *)
(* menu is of a stale spine, so "before" is not obvious: nothing from a    *)
(* turn still running, and nothing of another session, gets in             *)
(* (comprehension.py:64-108).                                              *)
(***************************************************************************)
ReferentsRemembered ==
    \A s \in Sessions : \A i \in DOMAIN log[s] :
        log[s][i].entities \subseteq {Unresolved} \cup {log[s][j].subject : j \in 1 .. (i - 1)}

(***************************************************************************)
(* An answered turn is durable: once the client has its answer, the turn   *)
(* is in the spine's history, once, and its receipt is in the database;    *)
(* no restart takes either away.                                           *)
(***************************************************************************)
CommitsOf(t) ==
    UNION {{<<s, i>> : i \in {j \in DOMAIN log[s] : log[s][j].turn_id = t}} : s \in Sessions}

AnsweredIsDurable ==
    \A t \in Turns :
        /\ Cardinality(CommitsOf(t)) <= 1
        /\ pc[t] = "done" => /\ CommitsOf(t) = {<<SessionOf[t], committed[t]>>}
                             /\ \E r \in receipts : r.turn = t

\* The store keeps the promise of AtomicSpine: see there.
Atomic == INSTANCE AtomicSpine WITH spine <- db

AtomicCommits == Atomic!Spec

(***************************************************************************)
(* A turn that has read its spine ends, answered or failed: it does not    *)
(* starve behind later turns of its session, and a failure under the lock  *)
(* leaves the lock free for the turns that wait for it.                    *)
(***************************************************************************)
StartedTurnsEnd == \A t \in Turns : pc[t] = "thinking" ~> Ended(t)
=============================================================================
