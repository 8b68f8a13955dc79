--------------------------- MODULE TurnStoreProofs ---------------------------
(***************************************************************************)
(* Proofs about TurnStore and, at the end, its clients (Conversations),    *)
(* for any sessions, turns, clients, queries, replies and limits. The      *)
(* argument: the queue of a session lists distinct turns that are at the   *)
(* lock, and only its head works on the spine (QueueInv); so what the head *)
(* read is still there when it writes (FreshUnderLock); so a write is the  *)
(* reducer applied to the spine (AtomicCommits), the spine counts the      *)
(* writes and every turn in its window was written (SpineInv).             *)
(***************************************************************************)
EXTENDS Conversations, DiscourseProofs, FiniteSetTheorems, TLAPS

AtTheLock == {"queued", "writing", "written"}

QueueInv ==
    /\ \A s \in Sessions : \A i \in 1 .. Len(queue[s]) :
          /\ SessionOf[queue[s][i]] = s
          /\ pc[queue[s][i]] \in AtTheLock
    /\ \A s \in Sessions : \A i, j \in 1 .. Len(queue[s]) :
          queue[s][i] = queue[s][j] => i = j
    /\ \A t \in Turns : pc[t] \in {"writing", "written"} => Holds(t)

Shape == /\ queue \in [Sessions -> Seq(Turns)]
         /\ pc \in [Turns -> PC]

(* The lock's steps keep the shape of the queue and the program counters. *)
LEMMA ShapeStep == Shape /\ QueueInv /\ [Next]_vars => Shape'
<1> SUFFICES ASSUME Shape, QueueInv, [Next]_vars PROVE Shape'
  OBVIOUS
<1> USE TurnsAssumption DEF Shape
<1>1. ASSUME NEW t \in Turns, ReadSpine(t) PROVE Shape'
  BY <1>1 DEF ReadSpine, Goto, PC
<1>2. ASSUME NEW t \in Turns, Think(t) PROVE Shape'
  BY <1>2 DEF Think, Goto, Acquire, PC
<1>3. ASSUME NEW t \in Turns, Fail(t) PROVE Shape'
  <2>1. CASE ThinkFails(t) BY <2>1 DEF ThinkFails, Goto, PC
  <2>2. CASE CommitFails(t) BY <2>2 DEF CommitFails, Goto, Release, Holds, PC
  <2>3. CASE ReceiptFails(t) BY <2>3 DEF ReceiptFails, Goto, PC
  <2>4. QED BY <1>3, <2>1, <2>2, <2>3 DEF Fail
<1>4. ASSUME NEW t \in Turns, ReadUnderLock(t) PROVE Shape'
  BY <1>4 DEF ReadUnderLock, Goto, PC
<1>5. ASSUME NEW t \in Turns, WriteSpine(t) PROVE Shape'
  BY <1>5 DEF WriteSpine, Goto, PC
<1>6. ASSUME NEW t \in Turns, LeaveLock(t) PROVE Shape'
  BY <1>6 DEF LeaveLock, Goto, Release, PC, QueueInv, Holds
<1>7. ASSUME NEW t \in Turns, WriteReceipt(t) PROVE Shape'
  BY <1>7 DEF WriteReceipt, Goto, PC
<1>8. CASE Restart
  BY <1>8 DEF Restart, PC
<1>9. CASE UNCHANGED vars
  BY <1>9 DEF vars
<1>10. QED
  BY <1>1, <1>2, <1>3, <1>4, <1>5, <1>6, <1>7, <1>8, <1>9 DEF Next, Advance, Quiet

(* A turn that leaves the lock, and is not at it any more, leaves a queue of the others. *)
LEMMA ReleaseStep ==
  ASSUME Shape, QueueInv, NEW t \in Turns, NEW l \in {"receipting", "failed"},
         Holds(t), Release(t), Goto(t, l)
  PROVE  QueueInv'
<1> USE TurnsAssumption DEF Shape
<1> DEFINE s == SessionOf[t]
<1>1. /\ s \in Sessions
      /\ queue[s] \in Seq(Turns) /\ queue[s] # << >> /\ queue[s][1] = t
      /\ 1 \in 1 .. Len(queue[s])
  BY DEF Holds
<1>2. /\ queue'[s] = Tail(queue[s])
      /\ Len(queue'[s]) = Len(queue[s]) - 1
      /\ \A i \in 1 .. Len(queue'[s]) : queue'[s][i] = queue[s][i + 1]
      /\ \A r \in Sessions \ {s} : queue'[r] = queue[r]
  BY <1>1 DEF Release
<1>3. pc'[t] = l /\ \A u \in Turns \ {t} : pc'[u] = pc[u]
  BY DEF Goto
<1>4. \A i \in 1 .. Len(queue'[s]) : i + 1 \in 1 .. Len(queue[s]) /\ i + 1 # 1
  BY <1>1, <1>2
<1>5. \A i \in 1 .. Len(queue'[s]) : queue[s][i + 1] \in Turns /\ queue[s][i + 1] # t
  BY <1>1, <1>4 DEF QueueInv
<1>6. ASSUME NEW r \in Sessions, NEW i \in 1 .. Len(queue'[r])
      PROVE  SessionOf[queue'[r][i]] = r /\ pc'[queue'[r][i]] \in AtTheLock
  <2>1. CASE r = s
    <3>1. queue'[r][i] = queue[s][i + 1] /\ i + 1 \in 1 .. Len(queue[s])
      BY <1>2, <1>4, <2>1
    <3>2. /\ queue[s][i + 1] \in Turns \ {t}
          /\ SessionOf[queue[s][i + 1]] = s /\ pc[queue[s][i + 1]] \in AtTheLock
      BY <1>1, <1>2, <1>5, <2>1, <3>1 DEF QueueInv
    <3>3. QED
      BY <1>3, <2>1, <3>1, <3>2
  <2>2. CASE r # s
    <3>1. queue'[r] = queue[r] /\ queue[r] \in Seq(Turns)
      BY <1>2, <2>2
    <3>2. queue[r][i] \in Turns /\ SessionOf[queue[r][i]] = r /\ pc[queue[r][i]] \in AtTheLock
      BY <3>1 DEF QueueInv
    <3>3. queue[r][i] # t
      BY <3>2, <2>2
    <3>4. QED
      BY <1>3, <3>1, <3>2, <3>3
  <2>3. QED
    BY <2>1, <2>2
<1>7. ASSUME NEW r \in Sessions, NEW i \in 1 .. Len(queue'[r]), NEW j \in 1 .. Len(queue'[r]),
             queue'[r][i] = queue'[r][j]
      PROVE  i = j
  <2>1. CASE r = s
    <3>1. queue[s][i + 1] = queue[s][j + 1] /\ i + 1 \in 1 .. Len(queue[s])
          /\ j + 1 \in 1 .. Len(queue[s])
      BY <1>2, <1>4, <1>7, <2>1
    <3>2. i + 1 = j + 1
      BY <1>1, <3>1 DEF QueueInv
    <3>3. QED
      BY <3>2, <1>2, <2>1, <1>1
  <2>2. CASE r # s
    BY <1>2, <1>7, <2>2 DEF QueueInv
  <2>3. QED
    BY <2>1, <2>2
<1>8. ASSUME NEW u \in Turns, pc'[u] \in {"writing", "written"}
      PROVE  Holds(u)'
  <2>1. u # t /\ Holds(u)
    BY <1>3, <1>8 DEF QueueInv
  <2>2. SessionOf[u] \in Sessions /\ SessionOf[u] # s
    BY <1>1, <2>1 DEF Holds
  <2>3. queue'[SessionOf[u]] = queue[SessionOf[u]]
    BY <1>2, <2>2
  <2>4. QED
    BY <2>1, <2>3 DEF Holds
<1>9. QED
  BY <1>6, <1>7, <1>8 DEF QueueInv

(* A turn that was not at the lock joins the queue at its end. *)
LEMMA AcquireStep ==
  ASSUME Shape, QueueInv, NEW t \in Turns, pc[t] = "thinking",
         Acquire(t), Goto(t, "queued")
  PROVE  QueueInv'
<1> USE TurnsAssumption DEF Shape
<1> DEFINE s == SessionOf[t]
<1>1. s \in Sessions /\ queue[s] \in Seq(Turns)
  OBVIOUS
<1>2. /\ queue'[s] = Append(queue[s], t)
      /\ Len(queue'[s]) = Len(queue[s]) + 1
      /\ queue'[s][Len(queue[s]) + 1] = t
      /\ \A i \in 1 .. Len(queue[s]) : queue'[s][i] = queue[s][i]
      /\ \A r \in Sessions \ {s} : queue'[r] = queue[r]
  BY <1>1 DEF Acquire
<1>3. pc'[t] = "queued" /\ \A u \in Turns \ {t} : pc'[u] = pc[u]
  BY DEF Goto
<1>4. \A r \in Sessions : \A i \in 1 .. Len(queue[r]) :
         queue[r][i] \in Turns /\ queue[r][i] # t
  BY DEF QueueInv, AtTheLock
<1>5. \A i \in 1 .. Len(queue'[s]) : i \in 1 .. Len(queue[s]) \/ i = Len(queue[s]) + 1
  BY <1>1, <1>2
<1>6. ASSUME NEW r \in Sessions, NEW i \in 1 .. Len(queue'[r])
      PROVE  SessionOf[queue'[r][i]] = r /\ pc'[queue'[r][i]] \in AtTheLock
  <2>1. CASE r = s /\ i = Len(queue[s]) + 1
    BY <1>2, <1>3, <2>1 DEF AtTheLock
  <2>2. CASE i \in 1 .. Len(queue[r]) /\ queue'[r][i] = queue[r][i]
    BY <1>3, <1>4, <2>2 DEF QueueInv
  <2>3. QED
    BY <1>2, <1>5, <2>1, <2>2
<1>7. ASSUME NEW r \in Sessions, NEW i \in 1 .. Len(queue'[r]), NEW j \in 1 .. Len(queue'[r]),
             queue'[r][i] = queue'[r][j]
      PROVE  i = j
  <2>1. CASE r # s
    BY <1>2, <1>7, <2>1 DEF QueueInv
  <2>2. CASE r = s
    <3>1. CASE i \in 1 .. Len(queue[s]) /\ j \in 1 .. Len(queue[s])
      <4>1. queue[s][i] = queue[s][j]
        BY <1>2, <1>7, <2>2, <3>1
      <4>2. QED
        BY <1>1, <3>1, <4>1 DEF QueueInv
    <3>2. CASE i = Len(queue[s]) + 1 /\ j \in 1 .. Len(queue[s])
      BY <1>1, <1>2, <1>4, <1>7, <2>2, <3>2
    <3>3. CASE i \in 1 .. Len(queue[s]) /\ j = Len(queue[s]) + 1
      BY <1>1, <1>2, <1>4, <1>7, <2>2, <3>3
    <3>4. QED
      BY <1>5, <2>2, <3>1, <3>2, <3>3
  <2>3. QED
    BY <2>1, <2>2
<1>8. ASSUME NEW u \in Turns, pc'[u] \in {"writing", "written"}
      PROVE  Holds(u)'
  <2>1. u # t /\ Holds(u) /\ SessionOf[u] \in Sessions
    BY <1>3, <1>8 DEF QueueInv
  <2>2. queue[SessionOf[u]] # << >> /\ queue[SessionOf[u]] \in Seq(Turns)
        /\ queue[SessionOf[u]][1] = u
    BY <2>1 DEF Holds
  <2>3. 1 \in 1 .. Len(queue[SessionOf[u]])
    BY <2>2
  <2>4. CASE SessionOf[u] = s
    <3>1. queue'[s][1] = u /\ Len(queue'[s]) > 0 /\ queue'[s] \in Seq(Turns)
      BY <1>1, <1>2, <2>2, <2>3, <2>4
    <3>2. QED
      BY <2>4, <3>1 DEF Holds
  <2>5. CASE SessionOf[u] # s
    <3>1. queue'[SessionOf[u]] = queue[SessionOf[u]]
      BY <1>2, <2>1, <2>5
    <3>2. QED
      BY <2>1, <3>1 DEF Holds
  <2>6. QED
    BY <2>4, <2>5
<1>9. QED
  BY <1>6, <1>7, <1>8 DEF QueueInv

LEMMA QueueStep == Shape /\ QueueInv /\ [Next]_vars => QueueInv'
<1> SUFFICES ASSUME Shape, QueueInv, [Next]_vars PROVE QueueInv'
  OBVIOUS
<1> USE TurnsAssumption DEF Shape
<1>1. ASSUME NEW t \in Turns, NEW l \in PC \ {"writing", "written"},
             pc[t] \notin AtTheLock, UNCHANGED queue, Goto(t, l)
      PROVE  QueueInv'
  <2>1. pc'[t] = l /\ \A u \in Turns \ {t} : pc'[u] = pc[u]
    BY <1>1 DEF Goto
  <2>2. \A r \in Sessions : \A i \in 1 .. Len(queue[r]) :
           queue[r][i] \in Turns /\ queue[r][i] # t
    BY <1>1 DEF QueueInv
  <2>3. QED
    BY <1>1, <2>1, <2>2 DEF QueueInv, Holds
<1>2. ASSUME NEW t \in Turns, NEW l \in {"writing", "written"},
             pc[t] \in AtTheLock, Holds(t), UNCHANGED queue, Goto(t, l)
      PROVE  QueueInv'
  <2>1. pc'[t] = l /\ \A u \in Turns \ {t} : pc'[u] = pc[u]
    BY <1>2 DEF Goto
  <2>2. \A r \in Sessions : \A i \in 1 .. Len(queue[r]) : queue[r][i] \in Turns
    OBVIOUS
  <2>3. ASSUME NEW r \in Sessions, NEW i \in 1 .. Len(queue'[r])
        PROVE  SessionOf[queue'[r][i]] = r /\ pc'[queue'[r][i]] \in AtTheLock
    <3>1. /\ queue' = queue /\ queue[r][i] \in Turns
          /\ SessionOf[queue[r][i]] = r /\ pc[queue[r][i]] \in AtTheLock
      BY <1>2, <2>2 DEF QueueInv
    <3>2. l \in AtTheLock
      BY DEF AtTheLock
    <3>3. QED
      BY <2>1, <3>1, <3>2
  <2>4. \A r \in Sessions : \A i, j \in 1 .. Len(queue'[r]) :
           queue'[r][i] = queue'[r][j] => i = j
    BY <1>2 DEF QueueInv
  <2>5. \A u \in Turns : pc'[u] \in {"writing", "written"} => Holds(u)'
    BY <1>2, <2>1 DEF QueueInv, Holds
  <2>6. QED
    BY <2>3, <2>4, <2>5 DEF QueueInv
<1>3. ASSUME NEW t \in Turns, ReadSpine(t) PROVE QueueInv'
  BY <1>1, <1>3 DEF ReadSpine, AtTheLock, PC
<1>4. ASSUME NEW t \in Turns, Think(t) PROVE QueueInv'
  BY <1>4, AcquireStep DEF Think
<1>5. ASSUME NEW t \in Turns, Fail(t) PROVE QueueInv'
  <2>1. CASE ThinkFails(t)
    BY <1>1, <2>1 DEF ThinkFails, AtTheLock, PC
  <2>2. CASE CommitFails(t)
    BY <2>2, ReleaseStep DEF CommitFails
  <2>3. CASE ReceiptFails(t)
    BY <1>1, <2>3 DEF ReceiptFails, AtTheLock, PC
  <2>4. QED
    BY <1>5, <2>1, <2>2, <2>3 DEF Fail
<1>6. ASSUME NEW t \in Turns, ReadUnderLock(t) PROVE QueueInv'
  BY <1>2, <1>6 DEF ReadUnderLock, AtTheLock
<1>7. ASSUME NEW t \in Turns, WriteSpine(t) PROVE QueueInv'
  <2>1. Holds(t)
    BY <1>7 DEF WriteSpine, QueueInv
  <2>2. QED
    BY <1>2, <1>7, <2>1 DEF WriteSpine, AtTheLock
<1>8. ASSUME NEW t \in Turns, LeaveLock(t) PROVE QueueInv'
  <2>1. Holds(t)
    BY <1>8 DEF LeaveLock, QueueInv
  <2>2. QED
    BY <1>8, <2>1, ReleaseStep DEF LeaveLock
<1>9. ASSUME NEW t \in Turns, WriteReceipt(t) PROVE QueueInv'
  BY <1>1, <1>9 DEF WriteReceipt, AtTheLock, PC
<1>10. CASE Restart
  BY <1>10 DEF Restart, QueueInv, Running
<1>11. CASE UNCHANGED vars
  BY <1>11 DEF vars, QueueInv, Holds
<1>12. QED
  BY <1>3, <1>4, <1>5, <1>6, <1>7, <1>8, <1>9, <1>10, <1>11 DEF Next, Advance, Quiet

(* The lock works: any sessions, any turns, any failures and restarts. *)
LEMMA LockWorks == Spec => [](Shape /\ QueueInv)
<1>1. Init => Shape /\ QueueInv
  BY DEF Init, Shape, QueueInv, PC
<1>2. Shape /\ QueueInv /\ [Next]_vars => (Shape /\ QueueInv)'
  BY ShapeStep, QueueStep
<1>3. QED
  BY <1>1, <1>2, PTL DEF Spec

(* At most one turn of a session works on its spine. *)
LEMMA OneWriter ==
  ASSUME QueueInv, NEW t \in Turns, NEW u \in Turns, SessionOf[t] = SessionOf[u],
         pc[t] \in {"writing", "written"}, Holds(u)
  PROVE  t = u
BY DEF QueueInv, Holds


-----------------------------------------------------------------------------
(***************************************************************************)
(* The data: what the spines, the history and the turns' own values say of *)
(* each other.                                                             *)
(***************************************************************************)

\* What a turn is about to commit is its own.
UpdateInv ==
    \A t \in Turns : pc[t] \in {"queued", "writing"} =>
        update[t] \in Update /\ update[t].turn_id = t

\* The history holds turns of its session that have written, each at the place
\* the turn remembers, and every turn past its write is there.
LogInv ==
    /\ \A s \in Sessions : \A i \in 1 .. Len(log[s]) :
          /\ SessionOf[log[s][i].turn_id] = s
          /\ pc[log[s][i].turn_id] \in {"written", "receipting", "done", "failed"}
          /\ committed[log[s][i].turn_id] = i
    /\ \A t \in Turns : pc[t] \in {"written", "receipting", "done"} =>
          /\ committed[t] \in 1 .. Len(log[SessionOf[t]])
          /\ log[SessionOf[t]][committed[t]].turn_id = t

\* A spine counts the updates written to it, and its window has only such turns.
SpineInv ==
    \A s \in Sessions :
        /\ db[s].current_turn = Len(log[s])
        /\ WellFormed(db[s])
        /\ \A i \in 1 .. Len(db[s].recent_turns) : \E j \in 1 .. Len(log[s]) :
              db[s].recent_turns[i].turn_id = log[s][j].turn_id

\* A turn reads its spine before its own commit.
SeenInv ==
    \A t \in Turns :
        /\ pc[t] \in {"thinking", "queued", "writing"} =>
              seen[t].current_turn <= Len(log[SessionOf[t]])
        /\ pc[t] \in {"written", "receipting"} => seen[t].current_turn < committed[t]

\* A receipt is that of an answered turn and repeats what the turn knew.
ReceiptInv ==
    \A r \in receipts :
        /\ pc[r.turn] = "done"
        /\ r.session = SessionOf[r.turn]
        /\ r.committed = committed[r.turn]
        /\ r.prior = seen[r.turn].current_turn
        /\ r.prior < r.committed

Inv ==
    /\ TypeOK /\ QueueInv /\ FreshUnderLock
    /\ UpdateInv /\ LogInv /\ SpineInv /\ SeenInv /\ ReceiptInv

(* Only names come out of a menu of names. *)
LEMMA MenuTyped ==
  ASSUME NEW state \in DiscourseState(Turns)
  PROVE  SubjectMenu(state) \subseteq Names
<1>1. /\ state.topic_stack \in Seq(TopicFrame)
      /\ state.active_subject \in Names \cup {Blank}
  BY DEF DiscourseState
<1>2. \A i \in DOMAIN state.topic_stack : state.topic_stack[i] \in TopicFrame
  BY <1>1
<1>3. \A i \in DOMAIN state.topic_stack :
         {state.topic_stack[i].name} \cup state.topic_stack[i].entities \subseteq Names
  BY <1>2 DEF TopicFrame
<1>4. QED
  BY <1>1, <1>3, NamesAssumption DEF SubjectMenu

(* A resolution names a subject and a topic, and refers to names. *)
LEMMA ResolutionTyped ==
  ASSUME NEW menu \in SUBSET Names, NEW q \in Query, NEW r \in Reply,
         NEW res \in Resolutions(q, r, menu)
  PROVE  res.subject \in Names /\ res.topic \in Names /\ res.entities \in SUBSET Names
<1>1. /\ q.explicit \in Names
      /\ r.subject \in Names \cup {Blank} /\ r.topic \in Names \cup {Blank}
      /\ r.entities \in SUBSET Names
  BY DEF Query, Reply
<1>2. Selected(r) \in Names
  BY <1>1, NamesAssumption DEF Selected
<1>3. \A n : Allowed(menu, n) \subseteq Names
  BY DEF Allowed
<1>4. SubjectsOf(q, r, menu) \subseteq Names
  BY <1>1, <1>2, <1>3, ConversationAssumption DEF SubjectsOf
<1>5. Referents(r, menu) \subseteq Names
  BY <1>3 DEF Referents
<1>6. PICK subject \in SubjectsOf(q, r, menu) :
         res = [subject  |-> subject,
                topic    |-> IF r.topic # Blank THEN r.topic ELSE subject,
                entities |-> Referents(r, menu)]
  BY DEF Resolutions
<1>7. QED
  BY <1>1, <1>4, <1>5, <1>6

(* What WriteSpine does, given the invariant: it folds a turn that is new to the *)
(* history into the spine that is there.                                         *)
LEMMA WriteFacts ==
  ASSUME Inv, NEW t \in Turns, WriteSpine(t)
  PROVE  LET s == SessionOf[t]
         IN  /\ s \in Sessions
             /\ update[t] \in Update /\ update[t].turn_id = t
             /\ \A r \in Sessions : t \notin {log[r][i].turn_id : i \in 1 .. Len(log[r])}
             /\ ~InRecentWindow(db[s], t)
             /\ before[t] = db[s]
             /\ db' = [db EXCEPT ![s] = Reduce(db[s], update[t])]
             /\ log' = [log EXCEPT ![s] = Append(log[s], update[t])]
             /\ Reduce(db[s], update[t]) \in DiscourseState(Turns)
             /\ WellFormed(Reduce(db[s], update[t]))
             /\ Reduce(db[s], update[t]).current_turn = Len(log[s]) + 1
             /\ committed' = [committed EXCEPT ![t] = Len(log[s]) + 1]
             /\ \A i \in 1 .. Len(Reduce(db[s], update[t]).recent_turns) :
                   \/ Reduce(db[s], update[t]).recent_turns[i].turn_id = t
                   \/ \E j \in 1 .. Len(log[s]) :
                         Reduce(db[s], update[t]).recent_turns[i].turn_id = log[s][j].turn_id
<1> DEFINE s == SessionOf[t]
           after == Reduce(db[s], update[t])
<1>1. s \in Sessions /\ db[s] \in DiscourseState(Turns)
  BY TurnsAssumption DEF Inv, TypeOK
<1>2. pc[t] = "writing"
  BY DEF WriteSpine
<1>3. update[t] \in Update /\ update[t].turn_id = t
  BY <1>2 DEF Inv, UpdateInv
<1>4. before[t] = db[s]
  BY <1>2 DEF Inv, FreshUnderLock
<1>5. \A r \in Sessions : t \notin {log[r][i].turn_id : i \in 1 .. Len(log[r])}
  BY <1>2 DEF Inv, LogInv
<1>6. ~InRecentWindow(db[s], t)
  <2>1. \A i \in 1 .. Len(db[s].recent_turns) : \E j \in 1 .. Len(log[s]) :
           db[s].recent_turns[i].turn_id = log[s][j].turn_id
    BY <1>1, Zenon DEF Inv, SpineInv
  <2>2. \A j \in 1 .. Len(log[s]) : log[s][j].turn_id # t
    BY <1>1, <1>5, Zenon
  <2>3. QED
    BY <2>1, <2>2, Zenon DEF InRecentWindow
<1>7. /\ db' = [db EXCEPT ![s] = after]
      /\ log' = [log EXCEPT ![s] = Append(log[s], update[t])]
      /\ committed' = [committed EXCEPT ![t] = after.current_turn]
  BY <1>4 DEF WriteSpine
<1>8. /\ update[t].subject \in Names /\ update[t].entities \in SUBSET Names
      /\ update[t].turn_id \in Turns
  BY <1>3 DEF Update
<1>9. WellFormed(db[s]) /\ db[s].current_turn = Len(log[s])
  BY <1>1 DEF Inv, SpineInv
<1>10. after \in DiscourseState(Turns) /\ WellFormed(after)
  BY <1>1, <1>8, <1>9, ReduceTyped, ReduceWellFormed
<1>11. db[s].current_turn \in Nat /\ db[s].recent_turns \in Seq(TurnFrame(Turns))
  BY <1>1 DEF DiscourseState
<1>12. /\ after.current_turn = db[s].current_turn + 1
       /\ \A i \in 1 .. Len(after.recent_turns) :
             \/ after.recent_turns[i].turn_id = t
             \/ \E j \in 1 .. Len(db[s].recent_turns) :
                   after.recent_turns[i] = db[s].recent_turns[j]
  BY <1>3, <1>6, <1>8, <1>11, ReduceNewTurn, SMTT(30)
<1>13. \A i \in 1 .. Len(db[s].recent_turns) : \E j \in 1 .. Len(log[s]) :
          db[s].recent_turns[i].turn_id = log[s][j].turn_id
  BY <1>1 DEF Inv, SpineInv
<1> HIDE DEF after
<1>14. \A i \in 1 .. Len(after.recent_turns) :
          \/ after.recent_turns[i].turn_id = t
          \/ \E j \in 1 .. Len(log[s]) : after.recent_turns[i].turn_id = log[s][j].turn_id
  BY <1>12, <1>13, SMTT(60)
<1>15. after.current_turn = Len(log[s]) + 1
  BY <1>9, <1>12
<1>16. committed' = [committed EXCEPT ![t] = Len(log[s]) + 1]
  BY <1>7, <1>15
<1>17. QED
  BY <1>1, <1>3, <1>4, <1>5, <1>6, <1>7, <1>10, <1>14, <1>15, <1>16 DEF after

LEMMA InvShape == Inv => Shape
BY DEF Inv, TypeOK, Shape

(* What a turn is about to commit is an update of its own. *)
LEMMA ThinkFacts ==
  ASSUME TypeOK, NEW t \in Turns, Think(t)
  PROVE  \E u \in Update : u.turn_id = t /\ update' = [update EXCEPT ![t] = u]
<1>1. seen[t] \in DiscourseState(Turns)
  BY DEF TypeOK
<1>2. PICK q \in Queries, r \in Replies :
         \E res \in Resolutions(q, r, SubjectMenu(seen[t])) :
            update' = [update EXCEPT ![t] = [turn_id |-> t, subject |-> res.subject,
                                             topic |-> res.topic, entities |-> res.entities]]
  BY DEF Think
<1>3. PICK res \in Resolutions(q, r, SubjectMenu(seen[t])) :
         update' = [update EXCEPT ![t] = [turn_id |-> t, subject |-> res.subject,
                                          topic |-> res.topic, entities |-> res.entities]]
  BY <1>2
<1>4. q \in Query /\ r \in Reply /\ SubjectMenu(seen[t]) \in SUBSET Names
  BY <1>1, TurnsAssumption, MenuTyped
<1>5. /\ res.subject \in Names /\ res.topic \in Names /\ res.entities \in SUBSET Names
  BY <1>4, ResolutionTyped
<1>6. [turn_id |-> t, subject |-> res.subject, topic |-> res.topic, entities |-> res.entities]
         \in Update
  BY <1>5 DEF Update
<1>7. QED
  BY <1>3, <1>6

LEMMA TypeStep == Inv /\ [Next]_vars => TypeOK'
<1> SUFFICES ASSUME Inv, [Next]_vars PROVE TypeOK'
  OBVIOUS
<1>1. TypeOK /\ Shape'
  BY ShapeStep, InvShape DEF Inv
<1> DEFINE Data == /\ db \in [Sessions -> DiscourseState(Turns)]
                   /\ receipts \subseteq Receipt
                   /\ update \in [Turns -> Update \cup {NoUpdate}]
                   /\ seen \in [Turns -> DiscourseState(Turns)]
                   /\ before \in [Turns -> DiscourseState(Turns)]
                   /\ committed \in [Turns -> Nat]
                   /\ log \in [Sessions -> Seq(Update)]
<1>2. Data
  BY <1>1 DEF TypeOK
<1> USE TurnsAssumption
<1>3. ASSUME NEW t \in Turns, ReadSpine(t) PROVE Data'
  BY <1>2, <1>3 DEF ReadSpine, durable
<1>4. ASSUME NEW t \in Turns, Think(t) PROVE Data'
  <2>1. PICK u \in Update : update' = [update EXCEPT ![t] = u]
    BY <1>1, <1>4, ThinkFacts
  <2>2. update' \in [Turns -> Update \cup {NoUpdate}]
    BY <1>2, <2>1
  <2>3. UNCHANGED <<db, receipts, log, seen, before, committed>>
    BY <1>4 DEF Think, durable
  <2>4. QED
    BY <1>2, <2>2, <2>3
<1>5. ASSUME NEW t \in Turns, Fail(t) PROVE Data'
  BY <1>2, <1>5 DEF Fail, ThinkFails, CommitFails, ReceiptFails, durable
<1>6. ASSUME NEW t \in Turns, ReadUnderLock(t) PROVE Data'
  BY <1>2, <1>6 DEF ReadUnderLock, durable
<1>7. ASSUME NEW t \in Turns, WriteSpine(t) PROVE Data'
  <2> DEFINE s == SessionOf[t]
             after == Reduce(db[s], update[t])
  <2>1. /\ s \in Sessions /\ update[t] \in Update
        /\ db' = [db EXCEPT ![s] = after] /\ after \in DiscourseState(Turns)
        /\ log' = [log EXCEPT ![s] = Append(log[s], update[t])]
        /\ committed' = [committed EXCEPT ![t] = Len(log[s]) + 1]
    BY <1>7, WriteFacts
  <2>2. UNCHANGED <<receipts, seen, update, before>>
    BY <1>7 DEF WriteSpine
  <2> HIDE DEF after
  <2>3. log[s] \in Seq(Update) /\ Len(log[s]) + 1 \in Nat /\ Append(log[s], update[t]) \in Seq(Update)
    BY <1>2, <2>1
  <2>4. QED
    BY <1>2, <2>1, <2>2, <2>3
<1>8. ASSUME NEW t \in Turns, LeaveLock(t) PROVE Data'
  BY <1>2, <1>8 DEF LeaveLock, durable
<1>9. ASSUME NEW t \in Turns, WriteReceipt(t) PROVE Data'
  <2>1. seen[t].current_turn \in Nat
    BY <1>2 DEF DiscourseState
  <2>2. QED
    BY <1>2, <1>9, <2>1 DEF WriteReceipt, Receipt
<1>10. ASSUME Restart PROVE Data'
  BY <1>2, <1>10 DEF Restart, durable
<1>11. ASSUME UNCHANGED vars PROVE Data'
  BY <1>2, <1>11 DEF vars
<1>12. Data'
  BY <1>3, <1>4, <1>5, <1>6, <1>7, <1>8, <1>9, <1>10, <1>11 DEF Next, Advance, Quiet
<1>13. QED
  BY <1>1, <1>12 DEF TypeOK, Shape

(* Only the turn at the head of a session's queue changes its spine, so what it *)
(* read there is still there.                                                   *)
LEMMA FreshStep == Inv /\ [Next]_vars => FreshUnderLock'
<1> SUFFICES ASSUME Inv, [Next]_vars PROVE FreshUnderLock'
  OBVIOUS
<1>a. \A t \in Turns : pc'[t] = "writing" => Holds(t)'
  <2>1. QueueInv'
    BY QueueStep, InvShape DEF Inv
  <2>2. QED
    BY <2>1 DEF QueueInv
<1> SUFFICES ASSUME NEW t \in Turns, pc'[t] = "writing"
             PROVE  before'[t] = db'[SessionOf[t]]
  BY <1>a DEF FreshUnderLock
<1>1. /\ pc \in [Turns -> PC] /\ db \in [Sessions -> DiscourseState(Turns)]
      /\ DOMAIN before = Turns /\ QueueInv /\ SessionOf[t] \in Sessions
      /\ pc[t] = "writing" => Holds(t) /\ before[t] = db[SessionOf[t]]
  BY TurnsAssumption DEF Inv, TypeOK, FreshUnderLock
<1>2. ASSUME NEW u \in Turns, UNCHANGED <<db, before>>,
             NEW l \in PC \ {"writing"}, Goto(u, l)
      PROVE  before'[t] = db'[SessionOf[t]]
  BY <1>1, <1>2 DEF Goto
<1>3. ASSUME NEW u \in Turns, ReadSpine(u) \/ Think(u) \/ Fail(u) \/ LeaveLock(u) \/ WriteReceipt(u)
      PROVE  before'[t] = db'[SessionOf[t]]
  BY <1>2, <1>3 DEF ReadSpine, Think, Fail, ThinkFails, CommitFails, ReceiptFails, LeaveLock,
                    WriteReceipt, durable, PC
<1>4. ASSUME NEW u \in Turns, ReadUnderLock(u) PROVE before'[t] = db'[SessionOf[t]]
  BY <1>1, <1>4 DEF ReadUnderLock, durable, Goto
<1>5. ASSUME NEW u \in Turns, WriteSpine(u) PROVE before'[t] = db'[SessionOf[t]]
  <2>1. u # t /\ pc[t] = "writing" /\ pc[u] = "writing"
    BY <1>1, <1>5 DEF WriteSpine, Goto
  <2>2. SessionOf[u] # SessionOf[t]
    BY <1>1, <2>1, OneWriter
  <2>3. db'[SessionOf[t]] = db[SessionOf[t]] /\ before' = before
    BY <1>1, <1>5, <2>2 DEF WriteSpine
  <2>4. QED
    BY <1>1, <2>1, <2>3
<1>6. CASE Restart
  BY <1>1, <1>6 DEF Restart, durable, Running
<1>7. CASE UNCHANGED vars
  BY <1>1, <1>7 DEF vars
<1>8. QED
  BY <1>3, <1>4, <1>5, <1>6, <1>7 DEF Next, Advance, Quiet

LEMMA UpdateStep == Inv /\ [Next]_vars => UpdateInv'
<1> SUFFICES ASSUME Inv, [Next]_vars, TypeOK',
                    NEW t \in Turns, pc'[t] \in {"queued", "writing"}
             PROVE  update'[t] \in Update /\ update'[t].turn_id = t
  BY TypeStep DEF UpdateInv
<1>1. /\ pc \in [Turns -> PC] /\ update \in [Turns -> Update \cup {NoUpdate}]
      /\ pc[t] \in {"queued", "writing"} => update[t] \in Update /\ update[t].turn_id = t
  BY DEF Inv, TypeOK, UpdateInv
<1>2. ASSUME NEW u \in Turns, Think(u)
      PROVE  update'[t] \in Update /\ update'[t].turn_id = t
  <2>1. PICK v \in Update : v.turn_id = u /\ update' = [update EXCEPT ![u] = v]
    BY <1>2, ThinkFacts DEF Inv
  <2>2. CASE u = t
    BY <1>1, <2>1, <2>2
  <2>3. CASE u # t
    BY <1>1, <1>2, <2>1, <2>3 DEF Think, Goto
  <2>4. QED
    BY <2>2, <2>3
<1>3. ASSUME NEW u \in Turns, Fail(u)
      PROVE  update'[t] \in Update /\ update'[t].turn_id = t
  BY <1>1, <1>3 DEF Fail, ThinkFails, CommitFails, ReceiptFails, Goto
<1>4. ASSUME NEW u \in Turns,
             ReadSpine(u) \/ ReadUnderLock(u) \/ WriteSpine(u) \/ LeaveLock(u) \/ WriteReceipt(u)
      PROVE  update'[t] \in Update /\ update'[t].turn_id = t
  BY <1>1, <1>4 DEF ReadSpine, ReadUnderLock, WriteSpine, LeaveLock, WriteReceipt, Goto
<1>5. CASE Restart
  BY <1>1, <1>5 DEF Restart, Running
<1>6. CASE UNCHANGED vars
  BY <1>1, <1>6 DEF vars
<1>7. QED
  BY <1>2, <1>3, <1>4, <1>5, <1>6 DEF Next, Advance, Quiet

\* Where a turn whose update is in the history may be, and must have been.
Logged == {"written", "receipting", "done", "failed"}
Past == {"written", "receipting", "done"}

(* The only step that writes a history is WriteSpine; the others take no turn that *)
(* is in it back before its write, and none past its write that is not in it.      *)
LEMMA LogStep == Inv /\ [Next]_vars => LogInv'
<1> SUFFICES ASSUME Inv, [Next]_vars PROVE LogInv'
  OBVIOUS
<1> USE TurnsAssumption
<1>1. /\ pc \in [Turns -> PC] /\ log \in [Sessions -> Seq(Update)]
      /\ committed \in [Turns -> Nat] /\ LogInv
  BY DEF Inv, TypeOK
<1>2. ASSUME NEW s \in Sessions, NEW i \in 1 .. Len(log[s]) PROVE log[s][i].turn_id \in Turns
  <2>1. log[s] \in Seq(Update)
    BY <1>1
  <2>2. log[s][i] \in Update
    BY <2>1
  <2>3. QED
    BY <2>2 DEF Update
<1>3. ASSUME NEW u \in Turns, NEW l \in PC, Goto(u, l), UNCHANGED <<log, committed>>,
             pc[u] \in Logged => l \in Logged, l \in Past => pc[u] \in Past
      PROVE  LogInv'
  BY <1>1, <1>2, <1>3 DEF LogInv, Goto, Logged, Past
<1>4. ASSUME NEW u \in Turns, ReadSpine(u) PROVE LogInv'
  BY <1>3, <1>4 DEF ReadSpine, durable, PC, Logged, Past
<1>5. ASSUME NEW u \in Turns, Think(u) PROVE LogInv'
  BY <1>3, <1>5 DEF Think, durable, PC, Logged, Past
<1>6. ASSUME NEW u \in Turns, Fail(u) PROVE LogInv'
  BY <1>3, <1>6 DEF Fail, ThinkFails, CommitFails, ReceiptFails, durable, PC, Logged, Past
<1>7. ASSUME NEW u \in Turns, ReadUnderLock(u) PROVE LogInv'
  BY <1>3, <1>7 DEF ReadUnderLock, durable, PC, Logged, Past
<1>8. ASSUME NEW u \in Turns, LeaveLock(u) PROVE LogInv'
  BY <1>3, <1>8 DEF LeaveLock, durable, PC, Logged, Past
<1>9. ASSUME NEW u \in Turns, WriteReceipt(u) PROVE LogInv'
  BY <1>3, <1>9 DEF WriteReceipt, PC, Logged, Past
<1>10. ASSUME NEW t \in Turns, WriteSpine(t) PROVE LogInv'
  <2> DEFINE s == SessionOf[t]
             n == Len(log[s])
  <2>1. /\ s \in Sessions /\ update[t] \in Update /\ update[t].turn_id = t
        /\ \A r \in Sessions : t \notin {log[r][i].turn_id : i \in 1 .. Len(log[r])}
        /\ log' = [log EXCEPT ![s] = Append(log[s], update[t])]
        /\ committed' = [committed EXCEPT ![t] = n + 1]
    BY <1>10, WriteFacts
  <2>2. pc'[t] = "written" /\ \A u \in Turns \ {t} : pc'[u] = pc[u]
    BY <1>1, <1>10 DEF WriteSpine, Goto
  <2>3. committed'[t] = n + 1 /\ \A u \in Turns \ {t} : committed'[u] = committed[u]
    BY <1>1, <2>1
  <2>4. /\ n \in Nat /\ Len(log'[s]) = n + 1 /\ log'[s][n + 1] = update[t]
        /\ \A i \in 1 .. n : log'[s][i] = log[s][i]
        /\ \A r \in Sessions \ {s} : log'[r] = log[r]
    <3>1. log[s] \in Seq(Update) /\ log'[s] = Append(log[s], update[t])
      BY <1>1, <2>1
    <3>2. \A r \in Sessions \ {s} : log'[r] = log[r]
      BY <1>1, <2>1
    <3>3. QED
      BY <3>1, <3>2
  <2>5. ASSUME NEW r \in Sessions, NEW i \in 1 .. Len(log[r])
        PROVE  /\ log[r][i].turn_id \in Turns \ {t}
               /\ SessionOf[log[r][i].turn_id] = r
               /\ pc'[log[r][i].turn_id] \in Logged
               /\ committed'[log[r][i].turn_id] = i
    <3>1. log[r][i].turn_id \in Turns \ {t}
      BY <1>2, <2>1
    <3>2. /\ SessionOf[log[r][i].turn_id] = r
          /\ pc[log[r][i].turn_id] \in Logged
          /\ committed[log[r][i].turn_id] = i
      BY <1>1 DEF LogInv, Logged
    <3>3. QED
      BY <2>2, <2>3, <3>1, <3>2
  <2>6. ASSUME NEW r \in Sessions, NEW i \in 1 .. Len(log'[r])
        PROVE  /\ SessionOf[log'[r][i].turn_id] = r
               /\ pc'[log'[r][i].turn_id] \in Logged
               /\ committed'[log'[r][i].turn_id] = i
    <3>1. CASE r = s /\ i = n + 1
      BY <2>1, <2>2, <2>3, <2>4, <3>1 DEF Logged
    <3>2. CASE i \in 1 .. Len(log[r]) /\ log'[r][i] = log[r][i]
      BY <2>5, <3>2
    <3>3. QED
      BY <2>4, <3>1, <3>2
  <2>7. ASSUME NEW u \in Turns, pc'[u] \in Past
        PROVE  /\ committed'[u] \in 1 .. Len(log'[SessionOf[u]])
               /\ log'[SessionOf[u]][committed'[u]].turn_id = u
    <3>1. CASE u = t
      BY <2>1, <2>3, <2>4, <3>1
    <3>2. CASE u # t
      <4>1. /\ committed[u] \in 1 .. Len(log[SessionOf[u]])
            /\ log[SessionOf[u]][committed[u]].turn_id = u
            /\ committed'[u] = committed[u] /\ SessionOf[u] \in Sessions
        BY <1>1, <2>2, <2>3, <2>7, <3>2 DEF LogInv, Past
      <4>2. CASE SessionOf[u] = s
        BY <2>4, <4>1, <4>2
      <4>3. CASE SessionOf[u] # s
        BY <2>4, <4>1, <4>3
      <4>4. QED
        BY <4>2, <4>3
    <3>3. QED
      BY <3>1, <3>2
  <2>8. QED
    BY <2>6, <2>7 DEF LogInv, Logged, Past
<1>11. CASE Restart
  BY <1>1, <1>2, <1>11 DEF Restart, durable, Running, LogInv, Logged, Past
<1>12. CASE UNCHANGED vars
  BY <1>1, <1>12 DEF vars, LogInv
<1>13. QED
  BY <1>4, <1>5, <1>6, <1>7, <1>8, <1>9, <1>10, <1>11, <1>12 DEF Next, Advance, Quiet

(* A spine and its history are written together. *)
LEMMA SpineStep == Inv /\ [Next]_vars => SpineInv'
<1> SUFFICES ASSUME Inv, [Next]_vars PROVE SpineInv'
  OBVIOUS
<1> USE TurnsAssumption
<1>1. /\ db \in [Sessions -> DiscourseState(Turns)]
      /\ log \in [Sessions -> Seq(Update)] /\ SpineInv
  BY DEF Inv, TypeOK
<1>2. ASSUME UNCHANGED <<db, log>> PROVE SpineInv'
  <2>1. db' = db /\ log' = log
    BY <1>2
  <2>2. \A s \in Sessions : WellFormed(db[s])' <=> WellFormed(db[s])
    BY <2>1 DEF WellFormed
  <2>3. QED
    BY <1>1, <2>1, <2>2 DEF SpineInv
<1>3. ASSUME NEW u \in Turns, ReadSpine(u) \/ Think(u) \/ Fail(u) \/ ReadUnderLock(u)
                              \/ LeaveLock(u) \/ WriteReceipt(u)
      PROVE  SpineInv'
  BY <1>2, <1>3 DEF ReadSpine, Think, Fail, ThinkFails, CommitFails, ReceiptFails, ReadUnderLock,
                    LeaveLock, WriteReceipt, durable
<1>4. ASSUME NEW t \in Turns, WriteSpine(t) PROVE SpineInv'
  <2> DEFINE s == SessionOf[t]
             n == Len(log[s])
             after == Reduce(db[s], update[t])
  <2>1. /\ s \in Sessions /\ update[t] \in Update /\ update[t].turn_id = t
        /\ db' = [db EXCEPT ![s] = after]
        /\ log' = [log EXCEPT ![s] = Append(log[s], update[t])]
        /\ WellFormed(after)
        /\ after.current_turn = n + 1
        /\ \A i \in 1 .. Len(after.recent_turns) :
              \/ after.recent_turns[i].turn_id = t
              \/ \E j \in 1 .. n : after.recent_turns[i].turn_id = log[s][j].turn_id
    BY <1>4, WriteFacts
  <2> HIDE DEF after
  <2>2. /\ n \in Nat /\ Len(log'[s]) = n + 1 /\ log'[s][n + 1].turn_id = t
        /\ \A i \in 1 .. n : log'[s][i] = log[s][i]
    <3>1. log[s] \in Seq(Update) /\ log'[s] = Append(log[s], update[t])
      BY <1>1, <2>1
    <3>2. QED
      BY <2>1, <3>1
  <2>3. /\ db'[s] = after
        /\ \A r \in Sessions \ {s} : db'[r] = db[r] /\ log'[r] = log[r]
    BY <1>1, <2>1
  <2>4. ASSUME NEW i \in 1 .. Len(after.recent_turns)
        PROVE  \E j \in 1 .. Len(log'[s]) : after.recent_turns[i].turn_id = log'[s][j].turn_id
    <3>1. CASE after.recent_turns[i].turn_id = t
      <4>1. n + 1 \in 1 .. Len(log'[s])
        BY <2>2
      <4>2. QED
        BY <2>2, <3>1, <4>1
    <3>2. CASE \E j \in 1 .. n : after.recent_turns[i].turn_id = log[s][j].turn_id
      <4>1. PICK j \in 1 .. n : after.recent_turns[i].turn_id = log[s][j].turn_id
        BY <3>2
      <4>2. j \in 1 .. Len(log'[s]) /\ log'[s][j] = log[s][j]
        BY <2>2
      <4>3. QED
        BY <4>1, <4>2
    <3>3. QED
      BY <2>1, <3>1, <3>2
  <2>5. ASSUME NEW r \in Sessions
        PROVE  /\ db'[r].current_turn = Len(log'[r])
               /\ WellFormed(db'[r])
               /\ \A i \in 1 .. Len(db'[r].recent_turns) : \E j \in 1 .. Len(log'[r]) :
                     db'[r].recent_turns[i].turn_id = log'[r][j].turn_id
    <3>1. CASE r = s
      <4>1. db'[r] = after
        BY <2>3, <3>1
      <4>2. WellFormed(db'[r])
        BY <2>1, <4>1, Zenon
      <4>3. db'[r].current_turn = Len(log'[r])
        BY <2>1, <2>2, <3>1, <4>1
      <4>4. \A i \in 1 .. Len(db'[r].recent_turns) : \E j \in 1 .. Len(log'[r]) :
               db'[r].recent_turns[i].turn_id = log'[r][j].turn_id
        BY <2>4, <3>1, <4>1
      <4>5. QED
        BY <4>2, <4>3, <4>4, Zenon
    <3>2. CASE r # s
      <4>1. db'[r] = db[r] /\ log'[r] = log[r]
        BY <2>3, <3>2
      <4>2. WellFormed(db[r])
        BY <1>1 DEF SpineInv
      <4>3. WellFormed(db'[r])
        BY <4>1, <4>2, Zenon
      <4>4. db'[r].current_turn = Len(log'[r])
        BY <1>1, <4>1 DEF SpineInv
      <4>5. \A i \in 1 .. Len(db'[r].recent_turns) : \E j \in 1 .. Len(log'[r]) :
               db'[r].recent_turns[i].turn_id = log'[r][j].turn_id
        BY <1>1, <4>1 DEF SpineInv
      <4>6. QED
        BY <4>3, <4>4, <4>5, Zenon
    <3>3. QED
      BY <3>1, <3>2
  <2>6. (\A r \in Sessions : WellFormed(db[r]))' = \A r \in Sessions : WellFormed(db'[r])
    BY DEF WellFormed
  <2>7. QED
    BY <2>5, <2>6 DEF SpineInv
<1>5. CASE Restart
  BY <1>2, <1>5 DEF Restart, durable
<1>6. CASE UNCHANGED vars
  BY <1>2, <1>6 DEF vars
<1>7. QED
  BY <1>3, <1>4, <1>5, <1>6 DEF Next, Advance, Quiet

(* A turn reads its spine once, and the history only grows until the turn writes. *)
LEMMA SeenStep == Inv /\ [Next]_vars => SeenInv'
<1> SUFFICES ASSUME Inv, [Next]_vars,
                    NEW t \in Turns
             PROVE  /\ pc'[t] \in {"thinking", "queued", "writing"} =>
                          seen'[t].current_turn <= Len(log'[SessionOf[t]])
                    /\ pc'[t] \in {"written", "receipting"} =>
                          seen'[t].current_turn < committed'[t]
  BY DEF SeenInv
<1> USE TurnsAssumption
<1>1. /\ pc \in [Turns -> PC] /\ log \in [Sessions -> Seq(Update)]
      /\ seen \in [Turns -> DiscourseState(Turns)] /\ committed \in [Turns -> Nat]
      /\ seen[t].current_turn \in Nat /\ SessionOf[t] \in Sessions
      /\ pc[t] \in {"thinking", "queued", "writing"} =>
            seen[t].current_turn <= Len(log[SessionOf[t]])
      /\ pc[t] \in {"written", "receipting"} => seen[t].current_turn < committed[t]
  BY DEF Inv, TypeOK, SeenInv, DiscourseState
<1> DEFINE Goal == /\ pc'[t] \in {"thinking", "queued", "writing"} =>
                         seen'[t].current_turn <= Len(log'[SessionOf[t]])
                   /\ pc'[t] \in {"written", "receipting"} =>
                         seen'[t].current_turn < committed'[t]
<1>2. ASSUME NEW u \in Turns, ReadSpine(u) PROVE Goal
  <2>1. CASE u = t
    <3>1. db[SessionOf[t]].current_turn = Len(log[SessionOf[t]])
      BY <1>1 DEF Inv, SpineInv
    <3>2. pc'[t] = "thinking" /\ seen'[t] = db[SessionOf[t]] /\ log' = log
      BY <1>1, <1>2, <2>1 DEF ReadSpine, Goto, durable
    <3>3. Len(log[SessionOf[t]]) \in Nat
      BY <1>1
    <3>4. QED
      BY <3>1, <3>2, <3>3
  <2>2. CASE u # t
    BY <1>1, <1>2, <2>2 DEF ReadSpine, Goto, durable
  <2>3. QED
    BY <2>1, <2>2
<1>3. ASSUME NEW u \in Turns, Think(u) PROVE Goal
  BY <1>1, <1>3 DEF Think, Goto, durable
<1>4. ASSUME NEW u \in Turns, Fail(u) \/ ReadUnderLock(u) PROVE Goal
  BY <1>1, <1>4 DEF Fail, ThinkFails, CommitFails, ReceiptFails, ReadUnderLock, Goto, durable
<1>5. ASSUME NEW u \in Turns, LeaveLock(u) \/ WriteReceipt(u) PROVE Goal
  BY <1>1, <1>5 DEF LeaveLock, WriteReceipt, Goto, durable
<1>6. ASSUME NEW u \in Turns, WriteSpine(u) PROVE Goal
  <2> DEFINE s == SessionOf[u]
             n == Len(log[s])
  <2>1. /\ s \in Sessions
        /\ log' = [log EXCEPT ![s] = Append(log[s], update[u])]
        /\ committed' = [committed EXCEPT ![u] = n + 1]
    BY <1>6, WriteFacts
  <2>2. seen' = seen /\ pc[u] = "writing" /\ pc' = [pc EXCEPT ![u] = "written"]
    BY <1>6 DEF WriteSpine, Goto
  <2>3. n \in Nat
    BY <1>1, <2>1
  <2>4. CASE u = t
    <3>1. pc'[t] = "written" /\ committed'[t] = n + 1 /\ seen'[t] = seen[t] /\ pc[t] = "writing"
      BY <1>1, <2>1, <2>2, <2>4
    <3>2. seen[t].current_turn <= n
      BY <1>1, <2>4, <3>1
    <3>3. QED
      BY <1>1, <2>3, <3>1, <3>2
  <2>5. CASE u # t
    <3>1. pc'[t] = pc[t] /\ committed'[t] = committed[t] /\ seen'[t] = seen[t]
      BY <1>1, <2>1, <2>2, <2>5
    <3>2. Len(log'[SessionOf[t]]) \in {Len(log[SessionOf[t]]), Len(log[SessionOf[t]]) + 1}
      <4>1. CASE SessionOf[t] = s
        <5>1. log[s] \in Seq(Update) /\ log'[s] = Append(log[s], update[u])
          BY <1>1, <2>1
        <5>2. QED
          BY <4>1, <5>1
      <4>2. CASE SessionOf[t] # s
        BY <1>1, <2>1, <4>2
      <4>3. QED
        BY <4>1, <4>2
    <3>3. Len(log[SessionOf[t]]) \in Nat
      BY <1>1
    <3>4. QED
      BY <1>1, <3>1, <3>2, <3>3
  <2>6. QED
    BY <2>4, <2>5
<1>7. ASSUME Restart PROVE Goal
  BY <1>1, <1>7 DEF Restart, durable, Running
<1>8. ASSUME UNCHANGED vars PROVE Goal
  BY <1>1, <1>8 DEF vars
<1>9. QED
  BY <1>2, <1>3, <1>4, <1>5, <1>6, <1>7, <1>8 DEF Next, Advance, Quiet

(* A receipt is written once, by the turn it accounts for, and that turn is over. *)
LEMMA ReceiptStep == Inv /\ [Next]_vars => ReceiptInv'
<1> SUFFICES ASSUME Inv, [Next]_vars PROVE ReceiptInv'
  OBVIOUS
<1>1. /\ pc \in [Turns -> PC] /\ receipts \subseteq Receipt
      /\ seen \in [Turns -> DiscourseState(Turns)] /\ committed \in [Turns -> Nat]
      /\ ReceiptInv
  BY DEF Inv, TypeOK
<1>2. \A r \in receipts : r.turn \in Turns /\ pc[r.turn] = "done"
  BY <1>1 DEF Receipt, ReceiptInv
<1>3. ASSUME UNCHANGED receipts,
             \A u \in Turns : pc[u] = "done" => /\ pc'[u] = "done"
                                                /\ committed'[u] = committed[u]
                                                /\ seen'[u] = seen[u]
      PROVE  ReceiptInv'
  BY <1>1, <1>2, <1>3 DEF ReceiptInv
<1>4. ASSUME NEW t \in Turns, ReadSpine(t) PROVE ReceiptInv'
  BY <1>1, <1>3, <1>4 DEF ReadSpine, Goto, durable
<1>5. ASSUME NEW t \in Turns, Think(t) \/ Fail(t) \/ ReadUnderLock(t) \/ LeaveLock(t)
      PROVE  ReceiptInv'
  BY <1>1, <1>3, <1>5 DEF Think, Fail, ThinkFails, CommitFails, ReceiptFails, ReadUnderLock,
                          LeaveLock, Goto, durable
<1>6. ASSUME NEW t \in Turns, WriteSpine(t) PROVE ReceiptInv'
  BY <1>1, <1>3, <1>6 DEF WriteSpine, Goto
<1>7. ASSUME NEW t \in Turns, WriteReceipt(t) PROVE ReceiptInv'
  <2> DEFINE new == [turn |-> t, session |-> SessionOf[t], prior |-> seen[t].current_turn,
                     committed |-> committed[t]]
  <2>1. /\ receipts' = receipts \cup {new} /\ pc' = [pc EXCEPT ![t] = "done"]
        /\ seen' = seen /\ committed' = committed /\ pc[t] = "receipting"
    BY <1>7 DEF WriteReceipt, Goto
  <2>2. seen[t].current_turn < committed[t]
    BY <2>1 DEF Inv, SeenInv
  <2>3. ASSUME NEW r \in receipts'
        PROVE  /\ pc'[r.turn] = "done" /\ r.session = SessionOf[r.turn]
               /\ r.committed = committed[r.turn]
               /\ r.prior = seen[r.turn].current_turn /\ r.prior < r.committed
    <3>1. CASE r = new
      BY <1>1, <2>1, <2>2, <3>1
    <3>2. CASE r \in receipts
      BY <1>1, <1>2, <2>1, <3>2 DEF ReceiptInv
    <3>3. QED
      BY <2>1, <3>1, <3>2
  <2>4. QED
    BY <2>1, <2>3 DEF ReceiptInv
<1>8. CASE Restart
  BY <1>1, <1>3, <1>8 DEF Restart, durable, Running
<1>9. CASE UNCHANGED vars
  BY <1>1, <1>3, <1>9 DEF vars
<1>10. QED
  BY <1>4, <1>5, <1>6, <1>7, <1>8, <1>9 DEF Next, Advance, Quiet

(* The session that has no row yet has a well-formed spine. *)
LEMMA EmptyFacts ==
  /\ EmptyState \in DiscourseState(Turns)
  /\ WellFormed(EmptyState)
  /\ EmptyState.current_turn = 0
  /\ EmptyState.recent_turns = << >>
BY LimitsAssumption DEF EmptyState, DiscourseState, WellFormed

LEMMA InitInv == Init => Inv
<1> SUFFICES ASSUME Init PROVE Inv
  OBVIOUS
<1> USE TurnsAssumption
<1>1. TypeOK
  BY EmptyFacts DEF Init, TypeOK, PC
<1>2. QueueInv
  BY DEF Init, QueueInv
<1>3. FreshUnderLock /\ UpdateInv
  BY DEF Init, FreshUnderLock, UpdateInv
<1>4. LogInv /\ ReceiptInv /\ SeenInv
  BY DEF Init, LogInv, ReceiptInv, SeenInv
<1>5. SpineInv
  <2>1. \A s \in Sessions : db[s] = EmptyState /\ log[s] = << >>
    BY DEF Init
  <2>2. \A s \in Sessions : WellFormed(db[s])
    BY <2>1, EmptyFacts, Zenon
  <2>3. \A s \in Sessions : db[s].current_turn = Len(log[s]) /\ Len(db[s].recent_turns) = 0
    BY <2>1, EmptyFacts
  <2>4. QED
    BY <2>2, <2>3 DEF SpineInv
<1>6. QED
  BY <1>1, <1>2, <1>3, <1>4, <1>5 DEF Inv

(* The inductive invariant of the store. *)
LEMMA StoreInvariant == Spec => []Inv
<1>1. Inv /\ [Next]_vars => Inv'
  BY TypeStep, QueueStep, InvShape, FreshStep, UpdateStep, LogStep, SpineStep, SeenStep,
     ReceiptStep DEF Inv
<1>2. QED
  BY InitInv, <1>1, PTL DEF Spec

-----------------------------------------------------------------------------

(* The state of the store has its type in every reachable state (store.py:33-124). *)
THEOREM TypeCorrect == Spec => []TypeOK
<1>1. Inv => TypeOK
  BY DEF Inv
<1>2. QED
  BY StoreInvariant, <1>1, PTL

(* A turn that writes a spine holds its session's lock and writes over exactly what *)
(* it read under it, however many sessions and turns there are (store.py:81-98).    *)
THEOREM WritesAreFresh == Spec => []FreshUnderLock
<1>1. Inv => FreshUnderLock
  BY DEF Inv
<1>2. QED
  BY StoreInvariant, <1>1, PTL

(* Every spine the store holds is well formed: concurrent turns, failures and *)
(* restarts never break what the reducer keeps (discourse.py:77-115).         *)
THEOREM SpinesStayWellFormed == Spec => []SpinesWellFormed
<1>1. Inv => SpinesWellFormed
  BY DEF Inv, SpineInv, SpinesWellFormed
<1>2. QED
  BY StoreInvariant, <1>1, PTL

(* Every receipt names the commit it accounts for, and no two share a turn or a *)
(* commit (loop.py:257-302).                                                    *)
THEOREM ReceiptsAreTruthful == Spec => []ReceiptsTruthful
<1>1. Inv => ReceiptsTruthful
  <2> SUFFICES ASSUME Inv PROVE ReceiptsTruthful
    OBVIOUS
  <2>1. /\ receipts \subseteq Receipt /\ LogInv /\ ReceiptInv
        /\ log \in [Sessions -> Seq(Update)]
    BY DEF Inv, TypeOK
  <2>2. ASSUME NEW r \in receipts
        PROVE  /\ r.turn \in Turns /\ r.session \in Sessions
               /\ r = [turn |-> r.turn, session |-> r.session, prior |-> r.prior,
                       committed |-> r.committed]
               /\ r.session = SessionOf[r.turn] /\ r.committed = committed[r.turn]
               /\ r.prior = seen[r.turn].current_turn /\ r.prior < r.committed
               /\ r.committed \in 1 .. Len(log[r.session])
               /\ log[r.session][r.committed].turn_id = r.turn
    BY <2>1, TurnsAssumption DEF Receipt, ReceiptInv, LogInv
  <2>3. ASSUME NEW r \in receipts PROVE r.committed \in DOMAIN log[r.session]
    BY <2>1, <2>2
  <2>4. ASSUME NEW q \in receipts, NEW r \in receipts,
               q.turn = r.turn \/ (q.session = r.session /\ q.committed = r.committed)
        PROVE  q = r
    <3>1. q.turn = r.turn
      BY <2>2, <2>4
    <3>2. /\ q.session = r.session /\ q.committed = r.committed /\ q.prior = r.prior
      BY <2>2, <3>1
    <3>3. QED
      BY <2>2, <3>1, <3>2
  <2>5. QED
    BY <2>2, <2>3, <2>4 DEF ReceiptsTruthful
<1>2. QED
  BY StoreInvariant, <1>1, PTL

(* The abstract store's reducer is the reducer. *)
LEMMA SameReducer ==
  /\ Atomic!EmptyState = EmptyState
  /\ Atomic!Update = Update
  /\ \A state, u : Atomic!Reduce(state, u) = Reduce(state, u)
<1>1. Atomic!EmptyState = EmptyState /\ Atomic!Update = Update
  BY DEF Atomic!EmptyState, EmptyState, Atomic!Update, Update
<1>2. \A q, n : Atomic!LastOf(q, n) = LastOf(q, n) /\ Atomic!FirstOf(q, n) = FirstOf(q, n)
  BY DEF Atomic!LastOf, LastOf, Atomic!FirstOf, FirstOf
<1>3. \A stack, id : Atomic!Position(stack, id) = Position(stack, id)
  BY DEF Atomic!Position, Position
<1>4. \A stack, id : Atomic!Others(stack, id) = Others(stack, id)
  BY <1>3, Zenon DEF Atomic!Others, Others
<1>5. \A stack, id : Atomic!Retained(stack, id) = Retained(stack, id)
  BY <1>4, Zenon DEF Atomic!Retained, Retained
<1>6. \A state, u : Atomic!SubjectOf(state, u) = SubjectOf(state, u)
  BY DEF Atomic!SubjectOf, SubjectOf
<1>7. \A state, u, subject, n :
         Atomic!ActiveFrame(state, u, subject, n) = ActiveFrame(state, u, subject, n)
  BY <1>3, ZenonT(60) DEF Atomic!ActiveFrame, ActiveFrame
<1>8. \A state, u : Atomic!Folded(state, u) = Folded(state, u)
  BY <1>2, <1>5, <1>6, <1>7, Zenon DEF Atomic!Folded, Folded
<1>9. \A state, id : Atomic!InRecentWindow(state, id) <=> InRecentWindow(state, id)
  BY DEF Atomic!InRecentWindow, InRecentWindow
<1>10. \A state, u : Atomic!Reduce(state, u) = Reduce(state, u)
  BY <1>8, <1>9, Zenon DEF Atomic!Reduce, Reduce
<1>11. QED
  BY <1>1, <1>10

(* The store implements AtomicSpine: for the clients of a session, the read, the      *)
(* fold and the write of a commit are one step, and it happens at most once per turn. *)
THEOREM ImplementsAtomicSpine == Spec => AtomicCommits
<1>1. Init => Atomic!Init
  BY SameReducer DEF Init, Atomic!Init
<1>2. Inv /\ [Next]_vars => [Atomic!Next]_<<db, log>>
  <2> SUFFICES ASSUME Inv, [Next]_vars PROVE Atomic!Next \/ UNCHANGED <<db, log>>
    OBVIOUS
  <2>1. ASSUME NEW t \in Turns, WriteSpine(t) PROVE Atomic!Next
    <3> DEFINE s == SessionOf[t]
    <3>1. /\ s \in Sessions /\ update[t] \in Update /\ update[t].turn_id = t
          /\ \A r \in Sessions : t \notin {log[r][i].turn_id : i \in 1 .. Len(log[r])}
          /\ db' = [db EXCEPT ![s] = Reduce(db[s], update[t])]
          /\ log' = [log EXCEPT ![s] = Append(log[s], update[t])]
      BY <2>1, WriteFacts
    <3>2. \A r \in Sessions : update[t].turn_id \notin Atomic!TurnsIn(log[r])
      <4>1. \A r \in Sessions : DOMAIN log[r] = 1 .. Len(log[r])
        BY DEF Inv, TypeOK
      <4>2. QED
        BY <3>1, <4>1 DEF Atomic!TurnsIn
    <3>3. db' = [db EXCEPT ![s] = Atomic!Reduce(@, update[t])]
      BY <3>1, SameReducer
    <3>4. Atomic!Commit(s, update[t])
      BY <3>1, <3>2, <3>3 DEF Atomic!Commit
    <3>5. log'[s] # log[s]
      <4>1. log[s] \in Seq(Update) /\ log'[s] = Append(log[s], update[t])
        BY <3>1 DEF Inv, TypeOK
      <4>2. Len(log'[s]) = Len(log[s]) + 1 /\ Len(log[s]) \in Nat
        BY <3>1, <4>1
      <4>3. QED
        BY <4>2
    <3>6. QED
      BY <3>1, <3>4, <3>5, SameReducer DEF Atomic!Next
  <2>2. ASSUME NEW t \in Turns,
               ReadSpine(t) \/ Think(t) \/ Fail(t) \/ ReadUnderLock(t) \/ LeaveLock(t) \/ WriteReceipt(t)
        PROVE  UNCHANGED <<db, log>>
    BY <2>2 DEF ReadSpine, Think, Fail, ThinkFails, CommitFails, ReceiptFails, ReadUnderLock,
                LeaveLock, WriteReceipt, durable
  <2>3. ASSUME Restart \/ UNCHANGED vars PROVE UNCHANGED <<db, log>>
    BY <2>3 DEF Restart, vars, durable
  <2>4. QED
    BY <2>1, <2>2, <2>3 DEF Next, Advance, Quiet
<1>3. QED
  BY <1>1, <1>2, StoreInvariant, PTL DEF Spec, AtomicCommits, Atomic!Spec

-----------------------------------------------------------------------------
(* Answered turns.                                                         *)

\* The client has its answer only after the receipt.
DoneInv == \A t \in Turns : pc[t] = "done" => \E r \in receipts : r.turn = t

LEMMA DoneStep == Inv /\ DoneInv /\ [Next]_vars => DoneInv'
<1> SUFFICES ASSUME Inv, DoneInv, [Next]_vars, NEW t \in Turns, pc'[t] = "done"
             PROVE  \E r \in receipts' : r.turn = t
  BY DEF DoneInv
<1>1. /\ pc \in [Turns -> PC]
      /\ pc[t] = "done" => \E r \in receipts : r.turn = t
  BY DEF Inv, TypeOK, DoneInv
<1>2. ASSUME NEW u \in Turns, WriteReceipt(u) PROVE \E r \in receipts' : r.turn = t
  <2>1. /\ [turn |-> u, session |-> SessionOf[u], prior |-> seen[u].current_turn,
            committed |-> committed[u]] \in receipts'
        /\ receipts \subseteq receipts' /\ pc' = [pc EXCEPT ![u] = "done"]
    BY <1>2 DEF WriteReceipt, Goto
  <2>2. CASE u = t
    BY <2>1, <2>2
  <2>3. CASE u # t
    BY <1>1, <2>1, <2>3
  <2>4. QED
    BY <2>2, <2>3
<1>3. ASSUME NEW u \in Turns,
             ReadSpine(u) \/ Think(u) \/ Fail(u) \/ ReadUnderLock(u) \/ WriteSpine(u) \/ LeaveLock(u)
      PROVE  \E r \in receipts' : r.turn = t
  BY <1>1, <1>3 DEF ReadSpine, Think, Fail, ThinkFails, CommitFails, ReceiptFails, ReadUnderLock,
                    WriteSpine, LeaveLock, Goto, durable
<1>4. CASE Restart
  BY <1>1, <1>4 DEF Restart, Running, durable
<1>5. CASE UNCHANGED vars
  BY <1>1, <1>5 DEF vars
<1>6. QED
  BY <1>2, <1>3, <1>4, <1>5 DEF Next, Advance, Quiet

(* An answered turn is in the history of its session, once, where it says, and has its *)
(* receipt, whatever failed or restarted since (store.py:81-110, loop.py:241-302).      *)
THEOREM AnswersAreDurable == Spec => []AnsweredIsDurable
<1>1. Init => DoneInv
  BY DEF Init, DoneInv
<1>2. Inv /\ DoneInv => AnsweredIsDurable
  <2> SUFFICES ASSUME Inv, DoneInv, NEW t \in Turns
               PROVE  /\ Cardinality(CommitsOf(t)) <= 1
                      /\ pc[t] = "done" => /\ CommitsOf(t) = {<<SessionOf[t], committed[t]>>}
                                           /\ \E r \in receipts : r.turn = t
    BY DEF AnsweredIsDurable
  <2> DEFINE place == <<SessionOf[t], committed[t]>>
  <2>1. /\ log \in [Sessions -> Seq(Update)] /\ LogInv /\ SessionOf[t] \in Sessions
    BY TurnsAssumption DEF Inv, TypeOK
  <2>2. \A s \in Sessions : DOMAIN log[s] = 1 .. Len(log[s])
    BY <2>1
  <2>3. CommitsOf(t) \subseteq {place}
    BY <2>1, <2>2 DEF CommitsOf, LogInv
  <2>4. Cardinality(CommitsOf(t)) <= 1
    <3>1. IsFiniteSet({place}) /\ Cardinality({place}) = 1
      BY FS_Singleton
    <3>2. QED
      BY <2>3, <3>1, FS_Subset
  <2>5. ASSUME pc[t] = "done" PROVE place \in CommitsOf(t)
    <3>1. /\ committed[t] \in DOMAIN log[SessionOf[t]]
          /\ log[SessionOf[t]][committed[t]].turn_id = t
      BY <2>1, <2>2, <2>5 DEF LogInv
    <3>2. QED
      BY <2>1, <3>1 DEF CommitsOf
  <2>6. QED
    BY <2>3, <2>4, <2>5 DEF DoneInv
<1>3. QED
  BY <1>1, <1>2, DoneStep, StoreInvariant, PTL DEF Spec

-----------------------------------------------------------------------------
(* Referents.                                                              *)

\* What the conversation of a session has named so far.
Spoken(s) == {Unresolved} \cup {log[s][j].subject : j \in 1 .. Len(log[s])}

\* A spine offers only what its session has named, and a turn keeps it that way.
MenuInv ==
    /\ \A s \in Sessions : SubjectMenu(db[s]) \subseteq Spoken(s)
    /\ \A t \in Turns :
          /\ pc[t] = "thinking" => SubjectMenu(seen[t]) \subseteq Spoken(SessionOf[t])
          /\ pc[t] \in {"queued", "writing"} => update[t].entities \subseteq Spoken(SessionOf[t])

(* A turn adds its subject and its entities to the menu, and nothing else. *)
LEMMA MenuOfReduce ==
  ASSUME NEW state \in DiscourseState(Turns), NEW u \in Update
  PROVE  SubjectMenu(Reduce(state, u)) \subseteq SubjectMenu(state) \cup {u.subject} \cup u.entities
<1>1. CASE InRecentWindow(state, u.turn_id)
  BY <1>1 DEF Reduce
<1>2. CASE ~InRecentWindow(state, u.turn_id)
  <2> DEFINE old == state.topic_stack
             id == CaseFold[u.subject]
             at == Position(old, id)
             frame == ActiveFrame(state, u, u.subject, state.current_turn + 1)
             rest == Retained(old, id)
             after == Reduce(state, u)
             stack == after.topic_stack
             wide == SubjectMenu(state) \cup {u.subject} \cup u.entities
             said(f) == {f.name} \cup f.entities
  <2>1. /\ u.turn_id \in Turns /\ u.subject \in Names /\ u.entities \in SUBSET Names
        /\ old \in Seq(TopicFrame) /\ u.subject # Blank
    BY NamesAssumption DEF Update, DiscourseState
  <2>2. after = Folded(state, u)
    BY <1>2 DEF Reduce
  <2>3. /\ stack \in Seq(TopicFrame) /\ stack[1] = frame
        /\ \A i \in 2 .. Len(stack) : i - 1 \in 1 .. Len(rest) /\ stack[i] = rest[i - 1]
    BY <2>1, <2>2, FoldedStack
  <2>4. \A i \in 1 .. Len(old) : said(old[i]) \subseteq SubjectMenu(state)
    BY <2>1 DEF SubjectMenu
  <2>5. said(frame) \subseteq wide
    <3>1. at \in 0 .. Len(old)
      BY <2>1, PositionFacts
    <3>2. /\ frame.name = u.subject
          /\ frame.entities = u.entities \cup (IF at = 0 THEN {} ELSE old[at].entities)
      BY DEF ActiveFrame
    <3>3. at # 0 => old[at].entities \subseteq SubjectMenu(state)
      BY <2>4, <3>1
    <3> QED
      BY <3>2, <3>3
  <2>6. \A i \in 1 .. Len(rest) : said(rest[i]) \subseteq wide
    <3>1. ASSUME NEW i \in 1 .. Len(rest)
          PROVE  \E k \in 1 .. Len(old) : rest[i] = [old[k] EXCEPT !.status = "background"]
      <4> DEFINE k == IF at = 0 \/ i < at THEN i ELSE i + 1
      <4>1. k \in 1 .. Len(old) /\ rest[i] = [old[k] EXCEPT !.status = "background"]
        BY <2>1, RetainedFacts, ZenonT(60)
      <4> QED
        BY <4>1
    <3>2. ASSUME NEW i \in 1 .. Len(rest) PROVE said(rest[i]) \subseteq wide
      <4>1. PICK k \in 1 .. Len(old) : rest[i] = [old[k] EXCEPT !.status = "background"]
        BY <3>1
      <4>2. old[k] \in TopicFrame
        BY <2>1
      <4>3. said(rest[i]) = said(old[k])
        BY <4>1, <4>2 DEF TopicFrame
      <4> QED
        BY <2>4, <4>3
    <3> QED
      BY <3>2
  <2>7. after.active_subject = u.subject
    BY <2>1, <2>2, NamedSubject DEF Folded
  <2> HIDE DEF stack, frame, rest, after
  <2>8. \A i \in DOMAIN stack : said(stack[i]) \subseteq wide
    <3>1. DOMAIN stack = 1 .. Len(stack) /\ Len(stack) \in Nat
      BY <2>3
    <3>2. ASSUME NEW i \in DOMAIN stack PROVE said(stack[i]) \subseteq wide
      <4>1. CASE i = 1
        BY <2>3, <2>5, <4>1
      <4>2. CASE i # 1
        <5>1. i \in 2 .. Len(stack)
          BY <3>1, <4>2
        <5> QED
          BY <2>3, <2>6, <5>1
      <4> QED
        BY <4>1, <4>2
    <3> QED
      BY <3>2
  <2>9. Unresolved \in SubjectMenu(state)
    BY DEF SubjectMenu
  <2>10. SubjectMenu(after) = {Unresolved} \cup ({after.active_subject} \ {Blank})
                                \cup UNION {said(stack[i]) : i \in DOMAIN stack}
    BY DEF SubjectMenu, stack
  <2> HIDE DEF said, wide
  <2>11. UNION {said(stack[i]) : i \in DOMAIN stack} \subseteq wide
    BY <2>8
  <2>12. {Unresolved} \subseteq wide /\ {after.active_subject} \subseteq wide
    BY <2>7, <2>9 DEF wide
  <2> QED
    BY <2>10, <2>11, <2>12 DEF after, wide
<1>3. QED
  BY <1>1, <1>2


(* What a write adds to the history of its session. *)
LEMMA SpokenAfterWrite ==
  ASSUME Inv, NEW t \in Turns, WriteSpine(t)
  PROVE  /\ Spoken(SessionOf[t])' = Spoken(SessionOf[t]) \cup {update[t].subject}
         /\ \A r \in Sessions \ {SessionOf[t]} : Spoken(r)' = Spoken(r)
         /\ log'[SessionOf[t]] = Append(log[SessionOf[t]], update[t])
<1> DEFINE s == SessionOf[t]
           n == Len(log[s])
<1>1. /\ s \in Sessions /\ log' = [log EXCEPT ![s] = Append(log[s], update[t])]
      /\ log \in [Sessions -> Seq(Update)] /\ update[t] \in Update
  BY WriteFacts DEF Inv, TypeOK
<1>2. log[s] \in Seq(Update) /\ log'[s] = Append(log[s], update[t])
  BY <1>1
<1>3. \A r \in Sessions \ {s} : log'[r] = log[r]
  BY <1>1
<1>4. /\ n \in Nat /\ Len(log'[s]) = n + 1 /\ log'[s][n + 1] = update[t]
      /\ \A j \in 1 .. n : log'[s][j] = log[s][j]
  BY <1>2
<1>5. {log'[s][j].subject : j \in 1 .. (n + 1)}
         = {log[s][j].subject : j \in 1 .. n} \cup {update[t].subject}
  <2>1. \A j : j \in 1 .. (n + 1) <=> j \in 1 .. n \/ j = n + 1
    BY <1>4
  <2>2. /\ log'[s][n + 1].subject = update[t].subject
        /\ \A j \in 1 .. n : log'[s][j].subject = log[s][j].subject
    BY <1>4
  <2> HIDE DEF n
  <2> QED
    BY <2>1, <2>2, Zenon
<1>6. Spoken(s)' = Spoken(s) \cup {update[t].subject}
  BY <1>4, <1>5 DEF Spoken
<1> QED
  BY <1>2, <1>3, <1>6, SMTT(30) DEF Spoken

(* A menu never offers what its session has not named: a spine because a write *)
(* names its subject and refers to what was named before, a turn because the   *)
(* history only grows behind the spine it has read.                            *)
LEMMA MenuStep == Inv /\ MenuInv /\ [Next]_vars => MenuInv'
<1> SUFFICES ASSUME Inv, MenuInv, [Next]_vars PROVE MenuInv'
  OBVIOUS
<1> USE TurnsAssumption
<1>1. /\ pc \in [Turns -> PC] /\ update \in [Turns -> Update \cup {NoUpdate}]
      /\ seen \in [Turns -> DiscourseState(Turns)] /\ db \in [Sessions -> DiscourseState(Turns)]
      /\ \A t \in Turns : SessionOf[t] \in Sessions
  BY DEF Inv, TypeOK
<1>2. ASSUME NEW u \in Turns, ReadSpine(u) PROVE MenuInv'
  <2>1. /\ db' = db /\ log' = log /\ update' = update
        /\ pc' = [pc EXCEPT ![u] = "thinking"] /\ seen' = [seen EXCEPT ![u] = db[SessionOf[u]]]
    BY <1>2 DEF ReadSpine, Goto, durable
  <2>2. \A r : Spoken(r)' = Spoken(r)
    BY <2>1 DEF Spoken
  <2> QED
    BY <1>1, <2>1, <2>2 DEF MenuInv
<1>3. ASSUME NEW u \in Turns, Think(u) PROVE MenuInv'
  <2>1. PICK e : /\ e \subseteq SubjectMenu(seen[u])
                 /\ update'[u].entities = e /\ \A v \in Turns \ {u} : update'[v] = update[v]
    <3>1. PICK q \in Queries, r \in Replies :
             \E res \in Resolutions(q, r, SubjectMenu(seen[u])) :
                update' = [update EXCEPT ![u] = [turn_id |-> u, subject |-> res.subject,
                                                 topic |-> res.topic, entities |-> res.entities]]
      BY <1>3 DEF Think
    <3>2. PICK res \in Resolutions(q, r, SubjectMenu(seen[u])) :
             update' = [update EXCEPT ![u] = [turn_id |-> u, subject |-> res.subject,
                                              topic |-> res.topic, entities |-> res.entities]]
      BY <3>1
    <3>3. res.entities = Referents(r, SubjectMenu(seen[u]))
      BY DEF Resolutions
    <3>4. res.entities \subseteq SubjectMenu(seen[u])
      BY <3>3 DEF Referents, Allowed
    <3> QED
      BY <1>1, <3>2, <3>4
  <2>2. /\ db' = db /\ log' = log /\ seen' = seen /\ pc[u] = "thinking"
        /\ pc' = [pc EXCEPT ![u] = "queued"]
    BY <1>3 DEF Think, Goto, durable
  <2>3. \A r : Spoken(r)' = Spoken(r)
    BY <2>2 DEF Spoken
  <2>4. update'[u].entities \subseteq Spoken(SessionOf[u])
    BY <2>1, <2>2 DEF MenuInv
  <2>5. ASSUME NEW v \in Turns
        PROVE  /\ pc'[v] = "thinking" => SubjectMenu(seen'[v]) \subseteq Spoken(SessionOf[v])
               /\ pc'[v] \in {"queued", "writing"} =>
                     update'[v].entities \subseteq Spoken(SessionOf[v])
    <3>1. CASE v = u
      BY <1>1, <2>2, <2>4, <3>1
    <3>2. CASE v # u
      BY <1>1, <2>1, <2>2, <3>2 DEF MenuInv
    <3> QED
      BY <3>1, <3>2
  <2> QED
    BY <2>2, <2>3, <2>5 DEF MenuInv
<1>4. ASSUME UNCHANGED <<db, log, seen, update>>,
             \A v \in Turns : pc'[v] \in {"thinking", "queued", "writing"} =>
                pc[v] = pc'[v] \/ (pc[v] = "queued" /\ pc'[v] = "writing")
      PROVE  MenuInv'
  <2>1. \A r : Spoken(r)' = Spoken(r)
    BY <1>4 DEF Spoken
  <2> QED
    BY <1>1, <1>4, <2>1 DEF MenuInv
<1>5. ASSUME NEW u \in Turns, Fail(u) \/ ReadUnderLock(u) \/ LeaveLock(u) \/ WriteReceipt(u)
      PROVE  MenuInv'
  BY <1>1, <1>4, <1>5 DEF Fail, ThinkFails, CommitFails, ReceiptFails, ReadUnderLock, LeaveLock,
                          WriteReceipt, Goto, durable
<1>6. ASSUME NEW t \in Turns, WriteSpine(t) PROVE MenuInv'
  <2> DEFINE s == SessionOf[t]
  <2>1. /\ s \in Sessions /\ update[t] \in Update
        /\ db' = [db EXCEPT ![s] = Reduce(db[s], update[t])]
    BY <1>6, WriteFacts
  <2>2. /\ Spoken(s)' = Spoken(s) \cup {update[t].subject}
        /\ \A r \in Sessions \ {s} : Spoken(r)' = Spoken(r)
    BY <1>6, SpokenAfterWrite
  <2>3. /\ seen' = seen /\ update' = update /\ pc[t] = "writing"
        /\ pc' = [pc EXCEPT ![t] = "written"]
    BY <1>6 DEF WriteSpine, Goto
  <2>4. \A r \in Sessions : Spoken(r) \subseteq Spoken(r)'
    BY <2>2
  <2>5. SubjectMenu(db'[s]) \subseteq Spoken(s)'
    <3>1. SubjectMenu(Reduce(db[s], update[t]))
             \subseteq SubjectMenu(db[s]) \cup {update[t].subject} \cup update[t].entities
      BY <1>1, <2>1, MenuOfReduce
    <3>2. SubjectMenu(db[s]) \subseteq Spoken(s) /\ update[t].entities \subseteq Spoken(s)
      BY <2>1, <2>3 DEF MenuInv
    <3>3. db'[s] = Reduce(db[s], update[t])
      BY <1>1, <2>1
    <3> QED
      BY <2>2, <3>1, <3>2, <3>3
  <2>6. \A r \in Sessions \ {s} : SubjectMenu(db'[r]) \subseteq Spoken(r)'
    <3>1. \A r \in Sessions \ {s} : db'[r] = db[r]
      BY <1>1, <2>1
    <3> QED
      BY <2>2, <3>1 DEF MenuInv
  <2>7. ASSUME NEW v \in Turns
        PROVE  /\ pc'[v] = "thinking" => SubjectMenu(seen'[v]) \subseteq Spoken(SessionOf[v])'
               /\ pc'[v] \in {"queued", "writing"} =>
                     update'[v].entities \subseteq Spoken(SessionOf[v])'
    <3>1. pc'[v] \in {"thinking", "queued", "writing"} => pc'[v] = pc[v]
      BY <1>1, <2>3
    <3>2. /\ pc[v] = "thinking" => SubjectMenu(seen[v]) \subseteq Spoken(SessionOf[v])
          /\ pc[v] \in {"queued", "writing"} => update[v].entities \subseteq Spoken(SessionOf[v])
      BY DEF MenuInv
    <3>3. Spoken(SessionOf[v]) \subseteq Spoken(SessionOf[v])'
      BY <1>1, <2>4
    <3> QED
      BY <2>3, <3>1, <3>2, <3>3
  <2> QED
    BY <2>5, <2>6, <2>7 DEF MenuInv
<1>7. CASE Restart
  BY <1>1, <1>4, <1>7 DEF Restart, Running, durable
<1>8. CASE UNCHANGED vars
  BY <1>1, <1>4, <1>8 DEF vars
<1> QED
  BY <1>2, <1>3, <1>5, <1>6, <1>7, <1>8 DEF Next, Advance, Quiet

LEMMA ReferentsStep == Inv /\ MenuInv /\ ReferentsRemembered /\ [Next]_vars => ReferentsRemembered'
<1> SUFFICES ASSUME Inv, MenuInv, ReferentsRemembered, [Next]_vars PROVE ReferentsRemembered'
  OBVIOUS
<1>1. ASSUME NEW t \in Turns, WriteSpine(t) PROVE ReferentsRemembered'
  <2> DEFINE s == SessionOf[t]
             n == Len(log[s])
  <2>1. /\ s \in Sessions /\ log \in [Sessions -> Seq(Update)]
        /\ log' = [log EXCEPT ![s] = Append(log[s], update[t])]
    BY <1>1, WriteFacts DEF Inv, TypeOK
  <2>2. /\ log[s] \in Seq(Update) /\ log'[s] = Append(log[s], update[t])
        /\ \A r \in Sessions \ {s} : log'[r] = log[r]
    BY <2>1
  <2>3. /\ n \in Nat /\ DOMAIN log'[s] = 1 .. (n + 1) /\ DOMAIN log[s] = 1 .. n
        /\ log'[s][n + 1] = update[t] /\ \A j \in 1 .. n : log'[s][j] = log[s][j]
    BY <2>2
  <2>4. update[t].entities \subseteq {Unresolved} \cup {log[s][j].subject : j \in 1 .. n}
    BY <1>1 DEF WriteSpine, MenuInv, Spoken
  <2>5. ASSUME NEW i \in DOMAIN log'[s]
        PROVE  log'[s][i].entities
                  \subseteq {Unresolved} \cup {log'[s][j].subject : j \in 1 .. (i - 1)}
    <3>1. CASE i = n + 1
      <4>1. {log'[s][j].subject : j \in 1 .. n} = {log[s][j].subject : j \in 1 .. n}
        BY <2>3
      <4>2. i - 1 = n
        BY <2>3, <3>1
      <4> QED
        BY <2>3, <2>4, <3>1, <4>1, <4>2
    <3>2. CASE i \in 1 .. n
      <4>1. \A j \in 1 .. (i - 1) : log'[s][j] = log[s][j]
        BY <2>3, <3>2
      <4>2. {log'[s][j].subject : j \in 1 .. (i - 1)} = {log[s][j].subject : j \in 1 .. (i - 1)}
        BY <4>1
      <4>3. log'[s][i] = log[s][i] /\ i \in DOMAIN log[s]
        BY <2>3, <3>2
      <4> QED
        BY <2>1, <4>2, <4>3 DEF ReferentsRemembered
    <3>3. i = n + 1 \/ i \in 1 .. n
      BY <2>3
    <3> QED
      BY <3>1, <3>2, <3>3
  <2>6. ASSUME NEW r \in Sessions \ {s}, NEW i \in DOMAIN log'[r]
        PROVE  log'[r][i].entities
                  \subseteq {Unresolved} \cup {log'[r][j].subject : j \in 1 .. (i - 1)}
    BY <2>2 DEF ReferentsRemembered
  <2> QED
    BY <2>5, <2>6 DEF ReferentsRemembered
<1>2. ASSUME UNCHANGED log PROVE ReferentsRemembered'
  BY <1>2 DEF ReferentsRemembered
<1>3. ASSUME NEW t \in Turns,
             ReadSpine(t) \/ Think(t) \/ Fail(t) \/ ReadUnderLock(t) \/ LeaveLock(t) \/ WriteReceipt(t)
      PROVE  ReferentsRemembered'
  BY <1>2, <1>3 DEF ReadSpine, Think, Fail, ThinkFails, CommitFails, ReceiptFails, ReadUnderLock,
                    LeaveLock, WriteReceipt, durable
<1>4. ASSUME Restart \/ UNCHANGED vars PROVE ReferentsRemembered'
  BY <1>2, <1>4 DEF Restart, vars, durable
<1> QED
  BY <1>1, <1>3, <1>4 DEF Next, Advance, Quiet

(* What a turn refers to was named in its own session before, however stale the *)
(* spine it chose from (comprehension.py:64-108, loop.py:112).                  *)
THEOREM ReferentsAreRemembered == Spec => []ReferentsRemembered
<1>1. Init => MenuInv
  <2> SUFFICES ASSUME Init PROVE MenuInv
    OBVIOUS
  <2>1. SubjectMenu(EmptyState) = {Unresolved}
    BY DEF SubjectMenu, EmptyState
  <2> QED
    BY <2>1 DEF Init, MenuInv, Spoken
<1>2. Init => ReferentsRemembered
  BY DEF Init, ReferentsRemembered
<1> QED
  BY <1>1, <1>2, MenuStep, ReferentsStep, StoreInvariant, PTL DEF Spec

-----------------------------------------------------------------------------
(***************************************************************************)
(* Clients over the store (Conversations), for any clients, questions and  *)
(* headers. What clients add leaves the store alone (UsesTheStore), so all *)
(* of the above holds under them. The rest says what each party knows: a   *)
(* transcript begins with a question and its answers are of answered       *)
(* turns; a turn that is waited for was asked the latest question; a turn  *)
(* of a client that never gave up is waited for until it ends; receipts    *)
(* are written in an order that answers respect.                           *)
(***************************************************************************)

LEMMA ConversationStep == [NextConversations]_allvars => [Next]_vars
<1>1. ASSUME NEW c \in Clients, NEW q \in Writes[c], Ask(c, q) PROVE UNCHANGED vars
  BY <1>1 DEF Ask
<1>2. ASSUME NEW c \in Clients, NEW t \in Turns, Post(c, t) PROVE Next
  BY <1>2 DEF Post, Next
<1>3. ASSUME NEW c \in Clients, Respond(c) \/ RespondError(c) \/ GiveUp(c) PROVE UNCHANGED vars
  BY <1>3 DEF Respond, RespondError, GiveUp
<1>4. CASE Serve
  BY <1>4 DEF Serve, Next
<1>5. CASE UNCHANGED allvars
  BY <1>5 DEF allvars
<1>6. QED
  BY <1>1, <1>2, <1>3, <1>4, <1>5 DEF NextConversations

(* The runtime under its clients is the store: whatever they ask, retry or leave, its *)
(* turns are turns of TurnStore, and what is proved of those holds (routes.py:47-110,  *)
(* loop.py:36-55).                                                                    *)
THEOREM ClientsUseTheStore == SpecConversations => Spec
<1>1. InitConversations => Init
  BY DEF InitConversations
<1>2. QED
  BY <1>1, ConversationStep, PTL DEF SpecConversations, Spec

Request == [client : Clients, query : Questions \cup Turns, number : Nat]

ClientsTyped ==
    /\ transcript \in [Clients -> Seq(Message)]
    /\ waiting \in [Clients -> Turns \cup {None}]
    /\ asked \in [Turns -> Request \cup {NotAsked}]
    /\ earlier \in [Turns -> SUBSET Turns]
    /\ written \in Seq(Turns)

\* A transcript begins with a question; its answers are turns that have ended well.
TranscriptInv ==
    \A c \in Clients :
        /\ transcript[c] # << >> => transcript[c][1].role = "user"
        /\ \A i \in 1 .. Len(transcript[c]) : transcript[c][i].role = "assistant" =>
              transcript[c][i].text \in Turns /\ pc[transcript[c][i].text] = "done"

\* A turn is asked when it begins.
AskedInv ==
    \A t \in Turns :
        /\ pc[t] = "idle" <=> asked[t] = NotAsked
        /\ asked[t] # NotAsked =>
              /\ asked[t].number \in User(transcript[asked[t].client])
              /\ SessionOf[t] = SessionFor(asked[t].client)

\* The turn a client waits for was asked the client's latest question.
WaitingInv ==
    /\ \A c \in Clients : waiting[c] # None =>
          asked[waiting[c]] = [client |-> c, query |-> latest_user(transcript[c]),
                               number |-> Latest(User(transcript[c]))]
    /\ \A t \in Turns :
          asked[t] # NotAsked /\ ~Ended(t) /\ asked[t].client \notin impatient
              => waiting[asked[t].client] = t

\* A turn begins after the turns that had been answered then, and so does its receipt.
EarlierInv ==
    /\ \A u \in Turns : \A t \in earlier[u] : pc[t] = "done"
    /\ ReadsWhatWasAnswered
    /\ \A t \in Turns : pc[t] = "done" <=> \E i \in 1 .. Len(written) : written[i] = t
    /\ \A i, j \in 1 .. Len(written) : written[j] \in earlier[written[i]] => j < i

(* A set of positions has a last one. *)
LEMMA LatestExists ==
  ASSUME NEW n \in Nat, NEW S \in SUBSET (1 .. n), S # {}
  PROVE  Latest(S) \in S /\ \A j \in S : j <= Latest(S)
BY GreatestExists DEF Latest

(* What an entry adds to a transcript. *)
LEMMA Appended ==
  ASSUME NEW m \in Seq(Message), NEW x \in Message
  PROVE  /\ Append(m, x) \in Seq(Message)
         /\ Len(Append(m, x)) = Len(m) + 1 /\ Len(m) \in Nat
         /\ \A i \in 1 .. Len(m) : Append(m, x)[i] = m[i]
         /\ Append(m, x)[Len(m) + 1] = x
         /\ User(m) \subseteq 1 .. Len(m)
         /\ x.role # "user" => User(Append(m, x)) = User(m)
         /\ x.role = "user" => User(Append(m, x)) = User(m) \cup {Len(m) + 1}
<1>1. /\ Append(m, x) \in Seq(Message)
      /\ Len(Append(m, x)) = Len(m) + 1 /\ Len(m) \in Nat
      /\ \A i \in 1 .. Len(m) : Append(m, x)[i] = m[i]
      /\ Append(m, x)[Len(m) + 1] = x
      /\ DOMAIN m = 1 .. Len(m) /\ DOMAIN Append(m, x) = 1 .. (Len(m) + 1)
  OBVIOUS
<1>2. User(m) \subseteq 1 .. Len(m)
  BY <1>1 DEF User
<1>3. \A i : i \in 1 .. (Len(m) + 1) <=> i \in 1 .. Len(m) \/ i = Len(m) + 1
  BY <1>1
<1>4. ~(Len(m) + 1 \in 1 .. Len(m))
  BY <1>1
<1>5. \A i : i \in User(Append(m, x)) <=>
         i \in User(m) \/ (i = Len(m) + 1 /\ x.role = "user")
  BY <1>1, <1>3, <1>4 DEF User
<1>6. QED
  BY <1>1, <1>2, <1>5

(* The turns that are served: where they are, what was written, what was receipted. *)
LEMMA ServeFacts ==
  ASSUME Inv, Serve
  PROVE  /\ UNCHANGED client /\ seen' = seen
         /\ \A t \in Turns : /\ pc'[t] = "idle" <=> pc[t] = "idle"
                             /\ Ended(t) => pc'[t] = pc[t]
                             /\ pc[t] # "writing" => committed'[t] = committed[t]
         /\ \/ written' = written /\ \A t \in Turns : pc'[t] = "done" => pc[t] = "done"
            \/ \E t \in Turns : /\ pc[t] = "receipting" /\ pc' = [pc EXCEPT ![t] = "done"]
                                /\ written' = Append(written, t)
<1>1. UNCHANGED client
  BY DEF Serve
<1>2. pc \in [Turns -> PC] /\ committed \in [Turns -> Nat] /\ ReceiptInv
  BY DEF Inv, TypeOK
<1>3. ASSUME NEW t \in Turns,
             \/ Think(t) \/ ReadUnderLock(t) \/ WriteSpine(t) \/ LeaveLock(t)
             \/ ThinkFails(t) \/ CommitFails(t) \/ ReceiptFails(t)
      PROVE  /\ seen' = seen /\ receipts' = receipts
             /\ \A u \in Turns : /\ pc'[u] = "idle" <=> pc[u] = "idle"
                                 /\ Ended(u) => pc'[u] = pc[u]
                                 /\ pc[u] # "writing" => committed'[u] = committed[u]
                                 /\ pc'[u] = "done" => pc[u] = "done"
  BY <1>2, <1>3 DEF Think, ReadUnderLock, WriteSpine, LeaveLock, ThinkFails, CommitFails,
                    ReceiptFails, Goto, durable, Ended
<1>4. ASSUME Restart
      PROVE  /\ seen' = seen /\ receipts' = receipts
             /\ \A u \in Turns : /\ pc'[u] = "idle" <=> pc[u] = "idle"
                                 /\ Ended(u) => pc'[u] = pc[u]
                                 /\ pc[u] # "writing" => committed'[u] = committed[u]
                                 /\ pc'[u] = "done" => pc[u] = "done"
  BY <1>2, <1>4 DEF Restart, Running, durable, Ended
<1>5. ASSUME NEW t \in Turns, WriteReceipt(t)
      PROVE  /\ seen' = seen /\ committed' = committed
             /\ pc[t] = "receipting" /\ pc' = [pc EXCEPT ![t] = "done"]
             /\ written' = Append(written, t)
  <2> DEFINE r == [turn |-> t, session |-> SessionOf[t], prior |-> seen[t].current_turn,
                   committed |-> committed[t]]
  <2>1. /\ seen' = seen /\ committed' = committed
        /\ pc[t] = "receipting" /\ pc' = [pc EXCEPT ![t] = "done"]
        /\ receipts' = receipts \cup {r}
    BY <1>5 DEF WriteReceipt, Goto
  <2>2. r \notin receipts /\ r.turn = t
    BY <1>2, <2>1 DEF ReceiptInv
  <2>3. receipts' # receipts /\ receipts' \ receipts = {r}
    BY <2>1, <2>2
  <2>4. (CHOOSE u \in Turns : \E x \in receipts' \ receipts : x.turn = u) = t
    BY <2>2, <2>3
  <2>5. QED
    BY <2>1, <2>3, <2>4 DEF Serve
<1>6. receipts' = receipts => written' = written
  BY DEF Serve
<1>7. CASE \E t \in Turns : WriteReceipt(t)
  <2>1. PICK t \in Turns : WriteReceipt(t)
    BY <1>7
  <2>2. \A u \in Turns : u # t => pc'[u] = pc[u]
    BY <1>2, <1>5, <2>1
  <2>3. pc'[t] = "done"
    BY <1>2, <1>5, <2>1
  <2>4. QED
    BY <1>1, <1>5, <2>1, <2>2, <2>3 DEF Ended
<1>8. CASE ~ \E t \in Turns : WriteReceipt(t)
  BY <1>1, <1>3, <1>4, <1>6, <1>8 DEF Serve, Advance, Fail
<1>9. QED
  BY <1>7, <1>8

ConversationInv ==
    Inv /\ ClientsTyped /\ TranscriptInv /\ AskedInv /\ WaitingInv /\ EarlierInv

(* What a question adds. *)
LEMMA AskFacts ==
  ASSUME ClientsTyped, NEW c \in Clients, NEW q \in Writes[c], Ask(c, q)
  PROVE  /\ waiting[c] = None
         /\ transcript' = [transcript EXCEPT ![c] =
                              Append(transcript[c], [role |-> "user", text |-> q])]
         /\ [role |-> "user", text |-> q] \in Message
         /\ UNCHANGED <<vars, waiting, asked, written, earlier, impatient>>
BY ClientsAssumption DEF Ask, Message

(* What a request begins: a turn that is asked the latest question. *)
LEMMA PostFacts ==
  ASSUME ConversationInv, NEW c \in Clients, NEW t \in Turns, Post(c, t)
  PROVE  LET m == transcript[c]
             number == Latest(User(m))
             request == [client |-> c, query |-> m[number].text, number |-> number]
         IN  /\ waiting[c] = None /\ pc[t] = "idle"
             /\ number \in User(m) /\ \A i \in User(m) : i <= number
             /\ request \in Request
             /\ asked' = [asked EXCEPT ![t] = request]
             /\ waiting' = [waiting EXCEPT ![c] = t]
             /\ earlier' = [earlier EXCEPT ![t] = Answered]
             /\ SessionOf[t] = SessionFor(c)
             /\ pc' = [pc EXCEPT ![t] = "thinking"]
             /\ seen' = [seen EXCEPT ![t] = db[SessionOf[t]]]
             /\ UNCHANGED <<transcript, written, impatient, committed, log>>
<1> DEFINE m == transcript[c]
           number == Latest(User(m))
<1>1. m \in Seq(Message) /\ TranscriptInv
  BY DEF ConversationInv, ClientsTyped
<1>2. m # << >>
  BY DEF Post, LastRole
<1>3. 1 \in User(m) /\ User(m) \in SUBSET (1 .. Len(m)) /\ Len(m) \in Nat
  BY <1>1, <1>2 DEF User, TranscriptInv
<1>4. number \in User(m) /\ \A i \in User(m) : i <= number
  BY <1>3, LatestExists
<1> HIDE DEF number
<1>5. number \in 1 .. Len(m) /\ m[number] \in Message /\ m[number].role = "user"
  BY <1>1, <1>3, <1>4 DEF User
<1>6. m[number].text \in Questions \cup Turns
  BY <1>5 DEF Message
<1>7. QED
  BY <1>3, <1>4, <1>5, <1>6 DEF number, Post, ReadSpine, Goto, durable, Request, latest_user

(* What an answer adds, and that it ends the wait. *)
LEMMA RespondFacts ==
  ASSUME ClientsTyped, NEW c \in Clients, Respond(c)
  PROVE  LET answer == [role |-> "assistant", text |-> waiting[c]]
             result == [role |-> "tool", text |-> waiting[c]]
             m == Append(transcript[c], answer)
         IN  /\ waiting[c] \in Turns /\ pc[waiting[c]] = "done"
             /\ answer \in Message /\ result \in Message
             /\ \/ transcript' = [transcript EXCEPT ![c] = m]
                \/ transcript' = [transcript EXCEPT ![c] = Append(m, result)]
             /\ waiting' = [waiting EXCEPT ![c] = None]
             /\ UNCHANGED <<vars, asked, written, earlier, impatient>>
<1> DEFINE answer == [role |-> "assistant", text |-> waiting[c]]
           result == [role |-> "tool", text |-> waiting[c]]
<1>1. waiting[c] \in Turns /\ transcript[c] \in Seq(Message)
  BY DEF Respond, ClientsTyped
<1>2. answer \in Message /\ result \in Message
  BY <1>1 DEF Message
<1>3. transcript[c] \o <<answer, result>> = Append(Append(transcript[c], answer), result)
  BY <1>1, <1>2, SMTT(30)
<1>4. QED
  BY <1>1, <1>2, <1>3 DEF Respond

(* The client's steps that only end a wait. *)
LEMMA LeaveFacts ==
  ASSUME ClientsTyped, NEW c \in Clients, RespondError(c) \/ GiveUp(c)
  PROVE  /\ waiting[c] \in Turns
         /\ waiting' = [waiting EXCEPT ![c] = None]
         /\ Ended(waiting[c]) \/ c \in impatient'
         /\ impatient \subseteq impatient'
         /\ UNCHANGED <<vars, transcript, asked, written, earlier>>
BY DEF RespondError, GiveUp, ClientsTyped, Ended

LEMMA ClientsTypedStep ==
  ConversationInv /\ [NextConversations]_allvars => ClientsTyped'
<1> SUFFICES ASSUME ConversationInv, [NextConversations]_allvars PROVE ClientsTyped'
  OBVIOUS
<1>1. ClientsTyped /\ AskedInv /\ TranscriptInv /\ Inv
  BY DEF ConversationInv
<1>2. ASSUME NEW c \in Clients, NEW q \in Writes[c], Ask(c, q) PROVE ClientsTyped'
  <2>1. transcript[c] \in Seq(Message)
    BY <1>1 DEF ClientsTyped
  <2> DEFINE m == Append(transcript[c], [role |-> "user", text |-> q])
  <2>2. m \in Seq(Message)
    BY <1>1, <1>2, <2>1, AskFacts, Appended
  <2>3. transcript' = [transcript EXCEPT ![c] = m]
    BY <1>2 DEF Ask
  <2> HIDE DEF m
  <2>6. transcript' \in [Clients -> Seq(Message)]
    BY <1>1, <2>2, <2>3 DEF ClientsTyped
  <2>4. UNCHANGED <<waiting, asked, written, earlier>>
    BY <1>1, <1>2, AskFacts
  <2>5. QED
    BY <1>1, <2>4, <2>6 DEF ClientsTyped
<1>3. ASSUME NEW c \in Clients, NEW t \in Turns, Post(c, t) PROVE ClientsTyped'
  <2>1. Answered \in SUBSET Turns
    <3>1. \A d \in Clients : DOMAIN transcript[d] = 1 .. Len(transcript[d])
      BY <1>1 DEF ClientsTyped
    <3>2. QED
      BY <1>1, <3>1 DEF Answered, TranscriptInv
  <2>2. earlier' \in [Turns -> SUBSET Turns]
    BY <1>1, <1>3, <2>1 DEF Post, ClientsTyped
  <2>3. /\ waiting' \in [Clients -> Turns \cup {None}]
        /\ transcript' = transcript /\ written' = written
    BY <1>1, <1>3 DEF Post, ClientsTyped
  <2>4. asked' \in [Turns -> Request \cup {NotAsked}]
    BY <1>1, <1>3, PostFacts DEF ClientsTyped
  <2>5. QED
    BY <1>1, <2>2, <2>3, <2>4 DEF ClientsTyped
<1>4. ASSUME NEW c \in Clients, Respond(c) PROVE ClientsTyped'
  <2>1. transcript[c] \in Seq(Message)
    BY <1>1 DEF ClientsTyped
  <2> DEFINE m == Append(transcript[c], [role |-> "assistant", text |-> waiting[c]])
             n == Append(m, [role |-> "tool", text |-> waiting[c]])
  <2>2. /\ [role |-> "assistant", text |-> waiting[c]] \in Message
        /\ [role |-> "tool", text |-> waiting[c]] \in Message
    BY <1>1, <1>4, RespondFacts
  <2>3. m \in Seq(Message)
    BY <2>1, <2>2, Appended
  <2>4. n \in Seq(Message)
    BY <2>2, <2>3, Appended
  <2> HIDE DEF m, n
  <2>5. \/ transcript' = [transcript EXCEPT ![c] = m]
        \/ transcript' = [transcript EXCEPT ![c] = n]
    BY <1>1, <1>4, RespondFacts DEF m, n
  <2>6. transcript' \in [Clients -> Seq(Message)]
    BY <1>1, <2>3, <2>4, <2>5 DEF ClientsTyped
  <2>7. QED
    BY <1>1, <1>4, <2>6 DEF Respond, ClientsTyped
<1>5. ASSUME NEW c \in Clients, RespondError(c) \/ GiveUp(c) PROVE ClientsTyped'
  BY <1>1, <1>5, LeaveFacts DEF ClientsTyped
<1>6. CASE Serve
  <2>1. written' \in Seq(Turns)
    <3>1. written \in Seq(Turns)
      BY <1>1 DEF ClientsTyped
    <3>2. written' = written \/ \E t \in Turns : written' = Append(written, t)
      BY <1>1, <1>6, ServeFacts
    <3>3. QED
      BY <3>1, <3>2
  <2>2. QED
    BY <1>1, <1>6, <2>1 DEF Serve, client, ClientsTyped
<1>7. CASE UNCHANGED allvars
  BY <1>1, <1>7 DEF allvars, client, ClientsTyped
<1>8. QED
  BY <1>2, <1>3, <1>4, <1>5, <1>6, <1>7 DEF NextConversations

(* A question is the transcript's last entry. *)
LEMMA AskGrows ==
  ASSUME ClientsTyped, NEW c \in Clients, NEW q \in Writes[c], Ask(c, q)
  PROVE  LET m == transcript[c]
             n == transcript'[c]
         IN  /\ waiting[c] = None
             /\ m \in Seq(Message) /\ n \in Seq(Message) /\ Len(n) = Len(m) + 1
             /\ \A i \in 1 .. Len(m) : n[i] = m[i]
             /\ n[Len(m) + 1].role = "user"
             /\ User(m) \subseteq 1 .. Len(m) /\ User(n) = User(m) \cup {Len(m) + 1}
             /\ \A d \in Clients : d # c => transcript'[d] = transcript[d]
             /\ UNCHANGED <<vars, waiting, asked, written, earlier, impatient>>
<1> DEFINE m == transcript[c]
           x == [role |-> "user", text |-> q]
           n == Append(m, x)
<1>1. m \in Seq(Message) /\ transcript \in [Clients -> Seq(Message)]
  BY DEF ClientsTyped
<1>2. x \in Message /\ x.role = "user"
  BY AskFacts
<1>3. transcript' = [transcript EXCEPT ![c] = n]
  BY DEF Ask
<1>4. /\ n \in Seq(Message) /\ Len(n) = Len(m) + 1
      /\ \A i \in 1 .. Len(m) : n[i] = m[i]
      /\ n[Len(m) + 1] = x
      /\ User(m) \subseteq 1 .. Len(m) /\ User(n) = User(m) \cup {Len(m) + 1}
  BY <1>1, <1>2, Appended
<1> HIDE DEF n, x
<1>5. transcript'[c] = n /\ \A d \in Clients : d # c => transcript'[d] = transcript[d]
  BY <1>1, <1>3
<1>6. QED
  BY <1>1, <1>2, <1>4, <1>5 DEF Ask

(* An answer follows the transcript, and tool results follow the answer. *)
LEMMA RespondGrows ==
  ASSUME ClientsTyped, NEW c \in Clients, Respond(c)
  PROVE  LET m == transcript[c]
             n == transcript'[c]
         IN  /\ m \in Seq(Message) /\ n \in Seq(Message)
             /\ Len(n) \in Nat /\ Len(n) > Len(m)
             /\ \A i \in 1 .. Len(m) : n[i] = m[i]
             /\ n[Len(m) + 1].role = "assistant" /\ n[Len(m) + 1].text = waiting[c]
             /\ \A i \in 1 .. Len(n) : i > Len(m) + 1 => n[i].role = "tool"
             /\ User(m) \subseteq 1 .. Len(m) /\ User(n) = User(m)
             /\ \A d \in Clients : d # c => transcript'[d] = transcript[d]
<1> DEFINE m == transcript[c]
           x == [role |-> "assistant", text |-> waiting[c]]
           y == [role |-> "tool", text |-> waiting[c]]
           a == Append(m, x)
           n == Append(a, y)
<1>1. m \in Seq(Message) /\ transcript \in [Clients -> Seq(Message)]
  BY DEF ClientsTyped
<1>2. /\ x \in Message /\ x.role = "assistant" /\ x.text = waiting[c]
      /\ y \in Message /\ y.role = "tool"
  BY RespondFacts
<1>3. /\ a \in Seq(Message) /\ Len(a) = Len(m) + 1 /\ Len(m) \in Nat
      /\ \A i \in 1 .. Len(m) : a[i] = m[i]
      /\ a[Len(m) + 1] = x
      /\ User(m) \subseteq 1 .. Len(m) /\ User(a) = User(m)
  BY <1>1, <1>2, Appended
<1>4. /\ n \in Seq(Message) /\ Len(n) = Len(a) + 1
      /\ \A i \in 1 .. Len(a) : n[i] = a[i]
      /\ n[Len(a) + 1] = y
      /\ User(n) = User(a)
  BY <1>2, <1>3, Appended
<1>5. \/ transcript' = [transcript EXCEPT ![c] = a]
      \/ transcript' = [transcript EXCEPT ![c] = n]
  BY RespondFacts
<1> HIDE DEF a, n, x, y
<1>6. /\ transcript'[c] = a \/ transcript'[c] = n
      /\ \A d \in Clients : d # c => transcript'[d] = transcript[d]
  BY <1>1, <1>5
<1>7. CASE transcript'[c] = a
  BY <1>1, <1>2, <1>3, <1>6, <1>7
<1>8. CASE transcript'[c] = n
  <2>1. \A i \in 1 .. Len(m) : n[i] = m[i]
    BY <1>3, <1>4
  <2>2. n[Len(m) + 1] = x
    BY <1>3, <1>4
  <2>3. \A i \in 1 .. Len(n) : i > Len(m) + 1 => n[i] = y
    BY <1>3, <1>4
  <2>4. QED
    BY <1>1, <1>2, <1>3, <1>4, <1>6, <1>8, <2>1, <2>2, <2>3
<1>9. QED
  BY <1>6, <1>7, <1>8

(* The turn a client waits for is its own. *)
LEMMA WaitedFor ==
  ASSUME ConversationInv, NEW c \in Clients, waiting[c] \in Turns
  PROVE  LET a == asked[waiting[c]]
         IN  /\ a # NotAsked /\ a.client = c /\ a.query = latest_user(transcript[c])
             /\ a.number = Latest(User(transcript[c])) /\ a.number \in User(transcript[c])
<1>1. asked[waiting[c]] = [client |-> c, query |-> latest_user(transcript[c]),
                           number |-> Latest(User(transcript[c]))]
  BY ClientsAssumption DEF ConversationInv, WaitingInv
<1>2. asked[waiting[c]].client = c /\ NotAsked.client # c
  BY <1>1, ClientsAssumption DEF NotAsked
<1>3. QED
  BY <1>1, <1>2 DEF ConversationInv, AskedInv

LEMMA TranscriptStep ==
  ConversationInv /\ [NextConversations]_allvars => TranscriptInv'
<1> SUFFICES ASSUME ConversationInv, [NextConversations]_allvars PROVE TranscriptInv'
  OBVIOUS
<1>1. /\ ClientsTyped /\ AskedInv /\ TranscriptInv /\ Inv
      /\ \A d \in Clients : transcript[d] \in Seq(Message)
      /\ pc \in [Turns -> PC]
  BY DEF ConversationInv, ClientsTyped, Inv, TypeOK
<1>2. ASSUME NEW c \in Clients, NEW q \in Writes[c], Ask(c, q) PROVE TranscriptInv'
  <2> DEFINE m == transcript[c]
             n == transcript'[c]
  <2>1. /\ m \in Seq(Message) /\ n \in Seq(Message) /\ Len(n) = Len(m) + 1
        /\ \A i \in 1 .. Len(m) : n[i] = m[i]
        /\ n[Len(m) + 1].role = "user"
        /\ \A d \in Clients : d # c => transcript'[d] = transcript[d]
        /\ pc' = pc
    BY <1>1, <1>2, AskGrows DEF vars
  <2>2. n[1].role = "user"
    <3>1. CASE m = << >>
      BY <2>1, <3>1
    <3>2. CASE m # << >>
      BY <1>1, <2>1, <3>2 DEF TranscriptInv
    <3>3. QED
      BY <3>1, <3>2
  <2>3. \A i \in 1 .. Len(n) : n[i].role = "assistant" =>
           n[i].text \in Turns /\ pc[n[i].text] = "done"
    <3>1. \A i \in 1 .. Len(n) : i \in 1 .. Len(m) \/ i = Len(m) + 1
      BY <2>1
    <3>2. QED
      BY <1>1, <2>1, <3>1, SMTT(30) DEF TranscriptInv
  <2>4. QED
    BY <1>1, <2>1, <2>2, <2>3 DEF TranscriptInv
<1>3. ASSUME NEW c \in Clients, NEW t \in Turns, Post(c, t) PROVE TranscriptInv'
  <2>1. transcript' = transcript /\ pc[t] = "idle" /\ pc' = [pc EXCEPT ![t] = "thinking"]
    BY <1>3, PostFacts
  <2>2. QED
    BY <1>1, <2>1 DEF TranscriptInv
<1>4. ASSUME NEW c \in Clients, Respond(c) PROVE TranscriptInv'
  <2> DEFINE m == transcript[c]
             n == transcript'[c]
  <2>1. /\ m \in Seq(Message) /\ n \in Seq(Message)
        /\ Len(n) \in Nat /\ Len(n) > Len(m)
        /\ \A i \in 1 .. Len(m) : n[i] = m[i]
        /\ n[Len(m) + 1].role = "assistant" /\ n[Len(m) + 1].text = waiting[c]
        /\ \A i \in 1 .. Len(n) : i > Len(m) + 1 => n[i].role = "tool"
        /\ \A d \in Clients : d # c => transcript'[d] = transcript[d]
    BY <1>1, <1>4, RespondGrows
  <2>2. /\ waiting[c] \in Turns /\ pc[waiting[c]] = "done" /\ pc' = pc
    BY <1>1, <1>4, RespondFacts DEF vars
  <2>3. m # << >>
    <3>1. asked[waiting[c]].number \in User(m)
      BY <2>2, WaitedFor
    <3>2. User(<< >>) = {}
      BY DEF User
    <3>3. QED
      BY <3>1, <3>2
  <2>4. n[1].role = "user"
    BY <1>1, <2>1, <2>3 DEF TranscriptInv
  <2>5. \A i \in 1 .. Len(n) : n[i].role = "assistant" =>
           n[i].text \in Turns /\ pc[n[i].text] = "done"
    <3>1. \A i \in 1 .. Len(n) : i \in 1 .. Len(m) \/ i = Len(m) + 1 \/ i > Len(m) + 1
      BY <2>1
    <3>2. QED
      BY <1>1, <2>1, <2>2, <3>1, SMTT(30) DEF TranscriptInv
  <2>6. QED
    BY <1>1, <2>1, <2>2, <2>4, <2>5 DEF TranscriptInv
<1>5. ASSUME NEW c \in Clients, RespondError(c) \/ GiveUp(c) PROVE TranscriptInv'
  <2>1. transcript' = transcript /\ pc' = pc
    BY <1>1, <1>5, LeaveFacts DEF vars
  <2>2. QED
    BY <1>1, <2>1 DEF TranscriptInv
<1>6. CASE Serve
  <2>1. transcript' = transcript /\ \A t \in Turns : pc[t] = "done" => pc'[t] = "done"
    BY <1>1, <1>6, ServeFacts DEF client, Ended
  <2>2. QED
    BY <1>1, <2>1 DEF TranscriptInv
<1>7. CASE UNCHANGED allvars
  BY <1>1, <1>7 DEF allvars, client, vars, TranscriptInv
<1>8. QED
  BY <1>2, <1>3, <1>4, <1>5, <1>6, <1>7 DEF NextConversations

(* The identity a request gets is settled by the transcript's first question. *)
LEMMA SessionSettled ==
  ASSUME NEW c \in Clients, transcript[c] \in Seq(Message), transcript'[c] \in Seq(Message),
         transcript[c] # << >>, transcript'[c] # << >>,
         transcript[c][1].role = "user", transcript'[c][1] = transcript[c][1]
  PROVE  SessionFor(c)' = SessionFor(c)
<1>1. ASSUME NEW m \in Seq(Message), m # << >>, m[1].role = "user" PROVE Earliest(User(m)) = 1
  <2>1. 1 \in User(m) /\ User(m) \subseteq Nat \ {0}
    BY <1>1 DEF User
  <2>2. \A j \in User(m) : 1 <= j
    BY <2>1
  <2>3. \A i \in User(m) : (\A j \in User(m) : i <= j) => i = 1
    BY <2>1
  <2>4. QED
    BY <2>1, <2>2, <2>3 DEF Earliest
<1>2. Earliest(User(transcript[c])) = 1 /\ Earliest(User(transcript'[c])) = 1
  BY <1>1
<1>3. QED
  BY <1>2 DEF SessionFor, stable_session_id

LEMMA AskedStep ==
  ConversationInv /\ [NextConversations]_allvars => AskedInv'
<1> SUFFICES ASSUME ConversationInv, [NextConversations]_allvars PROVE AskedInv'
  OBVIOUS
<1>1. /\ ClientsTyped /\ AskedInv /\ TranscriptInv /\ Inv
      /\ \A d \in Clients : transcript[d] \in Seq(Message)
      /\ pc \in [Turns -> PC]
      /\ \A t \in Turns : asked[t] # NotAsked => asked[t].client \in Clients
  BY DEF ConversationInv, ClientsTyped, Inv, TypeOK, Request
<1>2. ASSUME asked' = asked, pc' = pc, NEW c \in Clients,
             \A d \in Clients : d # c => transcript'[d] = transcript[d],
             transcript'[c] \in Seq(Message), User(transcript[c]) \subseteq User(transcript'[c]),
             Len(transcript'[c]) > Len(transcript[c]),
             \A i \in 1 .. Len(transcript[c]) : transcript'[c][i] = transcript[c][i]
      PROVE  AskedInv'
  <2> SUFFICES ASSUME NEW t \in Turns
               PROVE  /\ pc[t] = "idle" <=> asked[t] = NotAsked
                      /\ asked[t] # NotAsked =>
                            /\ asked[t].number \in User(transcript'[asked[t].client])
                            /\ SessionOf[t] = SessionFor(asked[t].client)'
    BY <1>2 DEF AskedInv
  <2>1. /\ pc[t] = "idle" <=> asked[t] = NotAsked
        /\ asked[t] # NotAsked =>
              /\ asked[t].number \in User(transcript[asked[t].client])
              /\ SessionOf[t] = SessionFor(asked[t].client)
    BY <1>1 DEF AskedInv
  <2>2. CASE asked[t] # NotAsked /\ asked[t].client = c
    <3>1. asked[t].number \in User(transcript[c])
      BY <2>1, <2>2
    <3>2. transcript[c] # << >>
      BY <3>1 DEF User
    <3>3. transcript[c][1].role = "user" /\ Len(transcript[c]) >= 1
      BY <1>1, <3>2 DEF TranscriptInv
    <3>4. transcript'[c] # << >> /\ transcript'[c][1] = transcript[c][1]
      BY <1>1, <1>2, <3>3
    <3>5. SessionFor(c)' = SessionFor(c)
      BY <1>1, <1>2, <3>2, <3>3, <3>4, SessionSettled
    <3>6. QED
      BY <1>2, <2>1, <2>2, <3>1, <3>5
  <2>3. CASE asked[t] # NotAsked /\ asked[t].client # c
    <3>1. transcript'[asked[t].client] = transcript[asked[t].client]
      BY <1>1, <1>2, <2>3
    <3>2. SessionFor(asked[t].client)' = SessionFor(asked[t].client)
      BY <1>2, <3>1 DEF SessionFor, stable_session_id
    <3>3. QED
      BY <2>1, <2>3, <3>1, <3>2
  <2>4. QED
    BY <2>1, <2>2, <2>3
<1>3. ASSUME transcript' = transcript, asked' = asked,
             \A t \in Turns : pc'[t] = "idle" <=> pc[t] = "idle"
      PROVE  AskedInv'
  BY <1>1, <1>3 DEF AskedInv, SessionFor, stable_session_id
<1>4. ASSUME NEW c \in Clients, NEW q \in Writes[c], Ask(c, q) PROVE AskedInv'
  <2>1. asked' = asked /\ pc' = pc
    BY <1>1, <1>4, AskFacts DEF vars
  <2>2. /\ \A d \in Clients : d # c => transcript'[d] = transcript[d]
        /\ transcript'[c] \in Seq(Message) /\ Len(transcript'[c]) = Len(transcript[c]) + 1
        /\ User(transcript[c]) \subseteq User(transcript'[c])
        /\ \A i \in 1 .. Len(transcript[c]) : transcript'[c][i] = transcript[c][i]
    BY <1>1, <1>4, AskGrows
  <2>3. Len(transcript'[c]) > Len(transcript[c])
    BY <1>1, <2>2
  <2>4. QED
    BY <1>2, <2>1, <2>2, <2>3
<1>5. ASSUME NEW c \in Clients, NEW t \in Turns, Post(c, t) PROVE AskedInv'
  <2> DEFINE number == Latest(User(transcript[c]))
             request == [client |-> c, query |-> transcript[c][number].text, number |-> number]
  <2>1. /\ number \in User(transcript[c])
        /\ asked' = [asked EXCEPT ![t] = request]
        /\ SessionOf[t] = SessionFor(c)
        /\ pc' = [pc EXCEPT ![t] = "thinking"]
        /\ transcript' = transcript
    BY <1>5, PostFacts
  <2>2. request.client = c /\ request.number = number
    OBVIOUS
  <2>3. request # NotAsked
    BY <2>2, ClientsAssumption DEF NotAsked
  <2> HIDE DEF request, number
  <2>4. /\ asked'[t] = request /\ pc'[t] = "thinking"
        /\ \A u \in Turns : u # t => asked'[u] = asked[u] /\ pc'[u] = pc[u]
    BY <1>1, <2>1 DEF ClientsTyped
  <2>5. \A d : SessionFor(d)' = SessionFor(d)
    BY <2>1 DEF SessionFor, stable_session_id
  <2>6. QED
    BY <1>1, <2>1, <2>2, <2>3, <2>4, <2>5 DEF AskedInv
<1>6. ASSUME NEW c \in Clients, Respond(c) PROVE AskedInv'
  <2>1. asked' = asked /\ pc' = pc
    BY <1>1, <1>6, RespondFacts DEF vars
  <2>2. /\ \A d \in Clients : d # c => transcript'[d] = transcript[d]
        /\ transcript'[c] \in Seq(Message) /\ Len(transcript'[c]) > Len(transcript[c])
        /\ User(transcript[c]) \subseteq User(transcript'[c])
        /\ \A i \in 1 .. Len(transcript[c]) : transcript'[c][i] = transcript[c][i]
    BY <1>1, <1>6, RespondGrows
  <2>3. QED
    BY <1>2, <2>1, <2>2
<1>7. ASSUME NEW c \in Clients, RespondError(c) \/ GiveUp(c) PROVE AskedInv'
  BY <1>1, <1>3, <1>7, LeaveFacts DEF vars
<1>8. CASE Serve
  BY <1>1, <1>3, <1>8, ServeFacts DEF client
<1>9. CASE UNCHANGED allvars
  BY <1>3, <1>9 DEF allvars, client, vars
<1>10. QED
  BY <1>4, <1>5, <1>6, <1>7, <1>8, <1>9 DEF NextConversations

LEMMA WaitingStep ==
  ConversationInv /\ [NextConversations]_allvars => WaitingInv'
<1> SUFFICES ASSUME ConversationInv, [NextConversations]_allvars PROVE WaitingInv'
  OBVIOUS
<1>1. /\ ClientsTyped /\ WaitingInv /\ AskedInv /\ Inv
      /\ pc \in [Turns -> PC] /\ waiting \in [Clients -> Turns \cup {None}]
      /\ asked \in [Turns -> Request \cup {NotAsked}]
      /\ None \notin Turns
      /\ \A t \in Turns : asked[t] # NotAsked => asked[t].client \in Clients
  BY ClientsAssumption DEF ConversationInv, ClientsTyped, Inv, TypeOK, Request
<1>2. ASSUME NEW c \in Clients, NEW q \in Writes[c], Ask(c, q) PROVE WaitingInv'
  <2>1. /\ waiting[c] = None /\ UNCHANGED <<vars, waiting, asked, impatient>>
        /\ \A d \in Clients : d # c => transcript'[d] = transcript[d]
    BY <1>1, <1>2, AskGrows
  <2>2. QED
    BY <1>1, <2>1 DEF WaitingInv, Ended, latest_user, vars
<1>3. ASSUME NEW c \in Clients, NEW t \in Turns, Post(c, t) PROVE WaitingInv'
  <2> DEFINE number == Latest(User(transcript[c]))
             request == [client |-> c, query |-> transcript[c][number].text, number |-> number]
  <2>1. /\ waiting[c] = None /\ pc[t] = "idle"
        /\ asked' = [asked EXCEPT ![t] = request]
        /\ waiting' = [waiting EXCEPT ![c] = t]
        /\ pc' = [pc EXCEPT ![t] = "thinking"]
        /\ transcript' = transcript /\ impatient' = impatient
    BY <1>3, PostFacts
  <2>2. /\ request = [client |-> c, query |-> latest_user(transcript[c]),
                      number |-> Latest(User(transcript[c]))]
        /\ request.client = c
    BY DEF latest_user
  <2> HIDE DEF request, number
  <2>3. /\ asked'[t] = request /\ waiting'[c] = t
        /\ \A u \in Turns : u # t => asked'[u] = asked[u] /\ pc'[u] = pc[u]
        /\ \A d \in Clients : d # c => waiting'[d] = waiting[d]
    BY <1>1, <2>1
  <2>4. ASSUME NEW d \in Clients, waiting'[d] # None
        PROVE  asked'[waiting'[d]] = [client |-> d, query |-> latest_user(transcript'[d]),
                                      number |-> Latest(User(transcript'[d]))]
    <3>1. CASE d = c
      BY <2>1, <2>2, <2>3, <3>1
    <3>2. CASE d # c
      <4>1. waiting'[d] = waiting[d] /\ waiting[d] \in Turns
        BY <1>1, <2>3, <2>4, <3>2
      <4>2. asked[waiting[d]] # NotAsked
        BY <4>1, WaitedFor
      <4>3. waiting[d] # t
        BY <1>1, <2>1, <4>2 DEF AskedInv
      <4>4. QED
        BY <1>1, <2>1, <2>3, <2>4, <4>1, <4>3 DEF WaitingInv
    <3>3. QED
      BY <3>1, <3>2
  <2>5. ASSUME NEW u \in Turns, asked'[u] # NotAsked, ~Ended(u)',
               asked'[u].client \notin impatient'
        PROVE  waiting'[asked'[u].client] = u
    <3>1. CASE u = t
      BY <2>2, <2>3, <3>1
    <3>2. CASE u # t
      <4>1. waiting[asked[u].client] = u /\ asked[u].client \in Clients /\ asked'[u] = asked[u]
        BY <1>1, <2>1, <2>3, <2>5, <3>2 DEF WaitingInv, Ended
      <4>2. asked[u].client # c
        BY <1>1, <2>1, <4>1
      <4>3. QED
        BY <2>3, <4>1, <4>2
    <3>3. QED
      BY <3>1, <3>2
  <2>6. QED
    BY <2>4, <2>5 DEF WaitingInv
<1>4. ASSUME NEW c \in Clients,
             waiting[c] \in Turns, Ended(waiting[c]) \/ c \in impatient',
             waiting' = [waiting EXCEPT ![c] = None],
             \A d \in Clients : d # c => transcript'[d] = transcript[d],
             impatient \subseteq impatient', asked' = asked, pc' = pc
      PROVE  WaitingInv'
  <2>1. waiting'[c] = None /\ \A d \in Clients : d # c => waiting'[d] = waiting[d]
    BY <1>1, <1>4
  <2>2. ASSUME NEW d \in Clients, waiting'[d] # None
        PROVE  asked'[waiting'[d]] = [client |-> d, query |-> latest_user(transcript'[d]),
                                      number |-> Latest(User(transcript'[d]))]
    BY <1>1, <1>4, <2>1, <2>2 DEF WaitingInv, latest_user
  <2>3. ASSUME NEW u \in Turns, asked'[u] # NotAsked, ~Ended(u)',
               asked'[u].client \notin impatient'
        PROVE  waiting'[asked'[u].client] = u
    BY <1>1, <1>4, <2>1, <2>3 DEF WaitingInv, Ended
  <2>4. QED
    BY <2>2, <2>3 DEF WaitingInv
<1>5. ASSUME NEW c \in Clients, Respond(c) PROVE WaitingInv'
  <2>1. /\ waiting[c] \in Turns /\ Ended(waiting[c])
        /\ waiting' = [waiting EXCEPT ![c] = None]
        /\ impatient' = impatient /\ asked' = asked /\ pc' = pc
    BY <1>1, <1>5, RespondFacts DEF Ended, vars
  <2>2. \A d \in Clients : d # c => transcript'[d] = transcript[d]
    BY <1>1, <1>5, RespondGrows
  <2>3. QED
    BY <1>4, <2>1, <2>2
<1>6. ASSUME NEW c \in Clients, RespondError(c) \/ GiveUp(c) PROVE WaitingInv'
  <2>1. /\ waiting[c] \in Turns /\ (Ended(waiting[c]) \/ c \in impatient')
        /\ waiting' = [waiting EXCEPT ![c] = None]
        /\ impatient \subseteq impatient' /\ transcript' = transcript
        /\ asked' = asked /\ pc' = pc
    BY <1>1, <1>6, LeaveFacts DEF vars
  <2>2. \A d \in Clients : d # c => transcript'[d] = transcript[d]
    BY <2>1
  <2>3. QED
    BY <1>4, <2>1, <2>2
<1>7. CASE Serve
  <2>1. UNCHANGED client /\ \A t \in Turns : Ended(t) => Ended(t)'
    BY <1>1, <1>7, ServeFacts DEF Ended
  <2>2. UNCHANGED <<transcript, waiting, asked, impatient>>
    BY <2>1 DEF client
  <2>3. QED
    BY <1>1, <2>1, <2>2 DEF WaitingInv, latest_user
<1>8. CASE UNCHANGED allvars
  BY <1>1, <1>8 DEF allvars, client, vars, WaitingInv, latest_user, Ended
<1>9. QED
  BY <1>2, <1>3, <1>5, <1>6, <1>7, <1>8 DEF NextConversations

LEMMA EarlierStep ==
  ConversationInv /\ [NextConversations]_allvars => EarlierInv'
<1> SUFFICES ASSUME ConversationInv, [NextConversations]_allvars PROVE EarlierInv'
  OBVIOUS
<1>1. /\ ClientsTyped /\ EarlierInv /\ TranscriptInv /\ Inv
      /\ pc \in [Turns -> PC] /\ earlier \in [Turns -> SUBSET Turns]
      /\ written \in Seq(Turns) /\ seen \in [Turns -> DiscourseState(Turns)]
      /\ \A d \in Clients : transcript[d] \in Seq(Message)
      /\ \A t \in Turns : SessionOf[t] \in Sessions
      /\ \A s \in Sessions : Len(log[s]) \in Nat
  BY TurnsAssumption DEF ConversationInv, ClientsTyped, Inv, TypeOK
<1>2. ASSUME UNCHANGED <<pc, seen, committed, earlier, written>> PROVE EarlierInv'
  BY <1>1, <1>2 DEF EarlierInv, ReadsWhatWasAnswered
<1>3. ASSUME NEW c \in Clients, NEW t \in Turns, Post(c, t) PROVE EarlierInv'
  <2>1. /\ pc[t] = "idle" /\ pc' = [pc EXCEPT ![t] = "thinking"]
        /\ earlier' = [earlier EXCEPT ![t] = Answered]
        /\ seen' = [seen EXCEPT ![t] = db[SessionOf[t]]]
        /\ written' = written /\ committed' = committed
    BY <1>3, PostFacts
  <2>2. Answered \subseteq Turns /\ \A u \in Answered : pc[u] = "done"
    <3>1. \A d \in Clients : DOMAIN transcript[d] = 1 .. Len(transcript[d])
      BY <1>1
    <3>2. QED
      BY <1>1, <3>1 DEF Answered, TranscriptInv
  <2>3. /\ earlier'[t] = Answered /\ seen'[t] = db[SessionOf[t]] /\ pc'[t] = "thinking"
        /\ \A u \in Turns : u # t =>
              earlier'[u] = earlier[u] /\ seen'[u] = seen[u] /\ pc'[u] = pc[u]
    BY <1>1, <2>1
  <2>4. \A u \in Turns : pc'[u] = "done" <=> pc[u] = "done"
    BY <2>1, <2>3
  <2>5. \A u \in Turns : \A v \in earlier'[u] : pc'[v] = "done"
    BY <1>1, <2>2, <2>3, <2>4 DEF EarlierInv
  <2>6. ASSUME NEW v \in Answered, SessionOf[v] = SessionOf[t]
        PROVE  committed[v] \in 1 .. db[SessionOf[t]].current_turn
    BY <1>1, <2>2, <2>6 DEF Inv, LogInv, SpineInv
  <2>7. ReadsWhatWasAnswered'
    <3> SUFFICES ASSUME NEW u \in Turns, NEW v \in earlier'[u], SessionOf[v] = SessionOf[u]
                 PROVE  committed'[v] \in 1 .. seen'[u].current_turn
      BY DEF ReadsWhatWasAnswered
    <3>1. CASE u = t
      BY <2>1, <2>3, <2>6, <3>1
    <3>2. CASE u # t
      BY <1>1, <2>1, <2>3, <3>2 DEF EarlierInv, ReadsWhatWasAnswered
    <3>3. QED
      BY <3>1, <3>2
  <2>8. \A u \in Turns : pc'[u] = "done" <=> \E i \in 1 .. Len(written') : written'[i] = u
    BY <1>1, <2>1, <2>4 DEF EarlierInv
  <2>9. \A i, j \in 1 .. Len(written') : written'[j] \in earlier'[written'[i]] => j < i
    <3> SUFFICES ASSUME NEW i \in 1 .. Len(written), NEW j \in 1 .. Len(written),
                        written[j] \in earlier'[written[i]]
                 PROVE  j < i
      BY <2>1
    <3>1. written[i] \in Turns /\ pc[written[i]] = "done"
      BY <1>1 DEF EarlierInv
    <3>2. written[i] # t
      BY <2>1, <3>1
    <3>3. QED
      BY <1>1, <2>3, <3>1, <3>2 DEF EarlierInv
  <2>10. QED
    BY <2>5, <2>7, <2>8, <2>9 DEF EarlierInv
<1>4. CASE Serve
  <2>1. /\ UNCHANGED client /\ seen' = seen
        /\ \A t \in Turns : Ended(t) => pc'[t] = pc[t]
        /\ \A t \in Turns : pc[t] # "writing" => committed'[t] = committed[t]
    BY <1>1, <1>4, ServeFacts
  <2>2. earlier' = earlier
    BY <2>1 DEF client
  <2>3. \A t \in Turns : pc[t] = "done" => pc'[t] = "done" /\ committed'[t] = committed[t]
    BY <2>1 DEF Ended
  <2>4. \A u \in Turns : \A v \in earlier'[u] : pc'[v] = "done"
    BY <1>1, <2>2, <2>3 DEF EarlierInv
  <2>5. ReadsWhatWasAnswered'
    BY <1>1, <2>1, <2>2, <2>3 DEF EarlierInv, ReadsWhatWasAnswered
  <2>6. ASSUME written' = written, \A t \in Turns : pc'[t] = "done" => pc[t] = "done"
        PROVE  EarlierInv'
    BY <1>1, <2>2, <2>3, <2>4, <2>5, <2>6 DEF EarlierInv
  <2>7. ASSUME NEW x \in Turns, pc[x] = "receipting", pc' = [pc EXCEPT ![x] = "done"],
               written' = Append(written, x)
        PROVE  EarlierInv'
    <3> DEFINE n == Len(written)
    <3>1. /\ n \in Nat /\ Len(written') = n + 1 /\ written'[n + 1] = x
          /\ \A i \in 1 .. n : written'[i] = written[i] /\ written[i] \in Turns
          /\ \A i \in 1 .. (n + 1) : i \in 1 .. n \/ i = n + 1
          /\ n + 1 \in 1 .. (n + 1) /\ \A i \in 1 .. n : i \in 1 .. (n + 1) /\ i < n + 1
      BY <1>1, <2>7
    <3> HIDE DEF n
    <3>2. pc'[x] = "done" /\ \A u \in Turns : u # x => pc'[u] = pc[u]
      BY <1>1, <2>7
    <3>3. /\ \A u \in Turns : pc[u] = "done" <=> \E i \in 1 .. n : written[i] = u
          /\ \A i, j \in 1 .. n : written[j] \in earlier[written[i]] => j < i
          /\ \A u \in Turns : x \notin earlier[u]
      BY <1>1, <2>7 DEF EarlierInv, n
    <3>4. \A u \in Turns : pc'[u] = "done" <=> \E i \in 1 .. Len(written') : written'[i] = u
      BY <2>7, <3>1, <3>2, <3>3
    <3>5. \A i, j \in 1 .. Len(written') : written'[j] \in earlier'[written'[i]] => j < i
      <4> SUFFICES ASSUME NEW i \in 1 .. (n + 1), NEW j \in 1 .. (n + 1),
                          written'[j] \in earlier[written'[i]]
                   PROVE  j < i
        BY <2>2, <3>1
      <4>1. written'[i] \in Turns
        BY <3>1
      <4>2. j # n + 1
        BY <3>1, <3>3, <4>1
      <4>3. j \in 1 .. n /\ j < n + 1
        BY <3>1, <4>2
      <4>4. CASE i = n + 1
        BY <4>3, <4>4
      <4>5. CASE i \in 1 .. n
        BY <3>1, <3>3, <4>3, <4>5
      <4>6. QED
        BY <3>1, <4>4, <4>5
    <3>6. QED
      BY <2>4, <2>5, <3>4, <3>5 DEF EarlierInv
  <2>8. QED
    BY <1>1, <1>4, <2>6, <2>7, ServeFacts
<1>5. ASSUME NEW c \in Clients, NEW q \in Writes[c], Ask(c, q)
      PROVE  UNCHANGED <<pc, seen, committed, earlier, written>>
  BY <1>1, <1>5, AskFacts DEF vars
<1>6. ASSUME NEW c \in Clients, Respond(c)
      PROVE  UNCHANGED <<pc, seen, committed, earlier, written>>
  BY <1>6 DEF Respond, vars
<1>7. ASSUME NEW c \in Clients, RespondError(c) \/ GiveUp(c)
      PROVE  UNCHANGED <<pc, seen, committed, earlier, written>>
  BY <1>7 DEF RespondError, GiveUp, vars
<1>8. CASE UNCHANGED allvars
  BY <1>2, <1>8 DEF allvars, client, vars
<1>9. QED
  BY <1>2, <1>3, <1>4, <1>5, <1>6, <1>7, <1>8 DEF NextConversations

(* The inductive invariant of the composition. *)
LEMMA ConversationInvariant == SpecConversations => []ConversationInv
<1>1. InitConversations => ConversationInv
  <2> SUFFICES ASSUME InitConversations PROVE ConversationInv
    OBVIOUS
  <2>1. Inv
    BY InitInv DEF InitConversations
  <2>2. /\ transcript = [c \in Clients |-> << >>] /\ waiting = [c \in Clients |-> None]
        /\ asked = [t \in Turns |-> NotAsked] /\ earlier = [t \in Turns |-> {}]
        /\ written = << >> /\ pc = [t \in Turns |-> "idle"]
    BY DEF InitConversations, Init
  <2>3. ClientsTyped /\ TranscriptInv
    BY <2>2 DEF ClientsTyped, TranscriptInv
  <2>4. AskedInv /\ WaitingInv
    BY <2>2 DEF AskedInv, WaitingInv
  <2>5. EarlierInv
    BY <2>2 DEF EarlierInv, ReadsWhatWasAnswered
  <2>6. QED
    BY <2>1, <2>3, <2>4, <2>5 DEF ConversationInv
<1>2. ConversationInv /\ [NextConversations]_allvars => Inv'
  BY ConversationStep, TypeStep, QueueStep, InvShape, FreshStep, UpdateStep, LogStep, SpineStep,
     SeenStep, ReceiptStep DEF ConversationInv, Inv
<1>3. ConversationInv /\ [NextConversations]_allvars => ConversationInv'
  BY <1>2, ClientsTypedStep, TranscriptStep, AskedStep, WaitingStep, EarlierStep
     DEF ConversationInv
<1>4. QED
  BY <1>1, <1>3, PTL DEF SpecConversations

(* A turn reads a spine that holds every turn of its session that had been answered, *)
(* to any client, when it began: though it reads without the lock (loop.py:112).      *)
THEOREM AnsweredTurnsAreRead == SpecConversations => []ReadsWhatWasAnswered
<1>1. ConversationInv => ReadsWhatWasAnswered
  BY DEF ConversationInv, EarlierInv
<1>2. QED
  BY ConversationInvariant, <1>1, PTL

(* last_turn never goes back behind an answer, though receipts are not written in the *)
(* order of the commits (store.py:112-124).                                            *)
THEOREM LastTurnIsCurrent == SpecConversations => []LastTurnRespectsAnswers
<1>1. ConversationInv => LastTurnRespectsAnswers
  <2> SUFFICES ASSUME ConversationInv, NEW u \in Turns, pc[u] = "done"
               PROVE  last_turn(SessionOf[u]) \notin earlier[u]
    BY DEF LastTurnRespectsAnswers
  <2> DEFINE s == SessionOf[u]
  <2>1. EarlierInv /\ written \in Seq(Turns)
    BY DEF ConversationInv, ClientsTyped
  <2>2. DOMAIN written = 1 .. Len(written) /\ Len(written) \in Nat
    BY <2>1
  <2>3. PICK i \in 1 .. Len(written) : written[i] = u
    BY <2>1 DEF EarlierInv
  <2>4. i \in Of(s) /\ Of(s) \in SUBSET (1 .. Len(written))
    BY <2>2, <2>3 DEF Of
  <2>5. /\ Latest(Of(s)) \in Of(s) /\ i <= Latest(Of(s))
        /\ last_turn(s) = written[Latest(Of(s))]
    BY <2>2, <2>4, LatestExists DEF last_turn
  <2>6. Latest(Of(s)) \in 1 .. Len(written)
    BY <2>4, <2>5
  <2>7. written[Latest(Of(s))] \in earlier[written[i]] => Latest(Of(s)) < i
    BY <2>1, <2>6 DEF EarlierInv
  <2>8. QED
    BY <2>3, <2>5, <2>6, <2>7
<1>2. QED
  BY ConversationInvariant, <1>1, PTL

LEMMA AnswersStep ==
  ConversationInv /\ AnswersFollowQuestions /\ [NextConversations]_allvars
      => AnswersFollowQuestions'
<1> SUFFICES ASSUME ConversationInv, AnswersFollowQuestions, [NextConversations]_allvars
             PROVE  AnswersFollowQuestions'
  OBVIOUS
<1> DEFINE Before(m, i) == {j \in User(m) : j < i}
           Right(m, i, a) == m[i].role = "assistant" =>
                                a[m[i].text].query = m[Latest(Before(m, i))].text
<1>1. /\ ClientsTyped /\ TranscriptInv /\ AskedInv /\ Inv
      /\ \A d \in Clients : transcript[d] \in Seq(Message)
      /\ \A d \in Clients : \A i \in 1 .. Len(transcript[d]) : Right(transcript[d], i, asked)
  <2>1. \A d \in Clients : transcript[d] \in Seq(Message)
    BY DEF ConversationInv, ClientsTyped
  <2>2. \A d \in Clients : DOMAIN transcript[d] = 1 .. Len(transcript[d])
    BY <2>1
  <2>3. QED
    BY <2>1, <2>2 DEF ConversationInv, AnswersFollowQuestions
<1>2. ASSUME \A d \in Clients : transcript'[d] \in Seq(Message),
             \A d \in Clients : \A i \in 1 .. Len(transcript'[d]) : Right(transcript'[d], i, asked')
      PROVE  AnswersFollowQuestions'
  <2>1. \A d \in Clients : DOMAIN transcript'[d] = 1 .. Len(transcript'[d])
    BY <1>2
  <2>2. QED
    BY <1>2, <2>1 DEF AnswersFollowQuestions
<1>3. ASSUME NEW m \in Seq(Message), NEW n \in Seq(Message), Len(n) >= Len(m),
             \A i \in 1 .. Len(m) : n[i] = m[i],
             User(m) \subseteq User(n), User(m) \subseteq 1 .. Len(m),
             \A j \in User(n) : j \in User(m) \/ j > Len(m),
             m # << >> => m[1].role = "user",
             \A i \in 1 .. Len(m) : Right(m, i, asked)
      PROVE  \A i \in 1 .. Len(m) : Right(n, i, asked)
  <2> SUFFICES ASSUME NEW i \in 1 .. Len(m), m[i].role = "assistant"
               PROVE  asked[m[i].text].query = n[Latest(Before(n, i))].text
    <3>1. ASSUME NEW i \in 1 .. Len(m),
                 m[i].role = "assistant" =>
                    asked[m[i].text].query = n[Latest(Before(n, i))].text
          PROVE  Right(n, i, asked)
      <4>1. n[i] = m[i]
        BY <1>3
      <4>2. QED
        BY <3>1, <4>1, Zenon
    <3>2. QED
      BY <3>1, Zenon
  <2>1. Before(n, i) = Before(m, i)
    <3>1. /\ DOMAIN n = 1 .. Len(n) /\ Len(n) \in Nat /\ Len(m) \in Nat
          /\ i \in Nat /\ i <= Len(m)
      OBVIOUS
    <3>2. User(n) \subseteq Nat
      BY <3>1 DEF User
    <3>3. \A j : j \in Before(n, i) <=> j \in Before(m, i)
      BY <1>3, <3>1, <3>2
    <3>4. QED
      BY <3>3
  <2>2. Len(m) \in Nat /\ 1 \in Before(m, i)
    <3>1. DOMAIN m = 1 .. Len(m) /\ Len(m) \in Nat /\ m # << >> /\ 1 \in 1 .. Len(m)
      BY <1>3
    <3>2. 1 \in User(m) /\ i # 1
      BY <1>3, <3>1 DEF User
    <3>3. QED
      BY <3>1, <3>2
  <2>3. Latest(Before(m, i)) \in 1 .. Len(m)
    <3>1. Before(m, i) \in SUBSET (1 .. Len(m))
      BY <1>3
    <3>2. Before(m, i) # {}
      BY <2>2
    <3>3. Latest(Before(m, i)) \in Before(m, i)
      BY <2>2, <3>1, <3>2, LatestExists
    <3>4. QED
      BY <3>1, <3>3
  <2>4. Right(m, i, asked)
    BY <1>3
  <2>5. QED
    BY <1>3, <2>1, <2>3, <2>4
<1> HIDE DEF Right
<1>4. ASSUME NEW c \in Clients, NEW q \in Writes[c], Ask(c, q) PROVE AnswersFollowQuestions'
  <2> DEFINE m == transcript[c]
             n == transcript'[c]
  <2>1. /\ m \in Seq(Message) /\ n \in Seq(Message) /\ Len(n) = Len(m) + 1
        /\ \A i \in 1 .. Len(m) : n[i] = m[i]
        /\ n[Len(m) + 1].role = "user"
        /\ User(m) \subseteq 1 .. Len(m) /\ User(n) = User(m) \cup {Len(m) + 1}
        /\ \A d \in Clients : d # c => transcript'[d] = transcript[d]
        /\ asked' = asked
    BY <1>1, <1>4, AskGrows
  <2>2. Len(m) \in Nat /\ Len(n) >= Len(m) /\ \A j \in User(n) : j \in User(m) \/ j > Len(m)
    BY <2>1
  <2>3. m # << >> => m[1].role = "user"
    BY <1>1 DEF TranscriptInv
  <2>4. \A i \in 1 .. Len(m) : Right(n, i, asked)
    BY <1>1, <1>3, <2>1, <2>2, <2>3
  <2>5. Right(n, Len(m) + 1, asked)
    BY <2>1 DEF Right
  <2>6. \A i \in 1 .. Len(n) : Right(n, i, asked)
    BY <2>1, <2>2, <2>4, <2>5
  <2>7. QED
    BY <1>1, <1>2, <2>1, <2>6
<1>5. ASSUME NEW c \in Clients, NEW t \in Turns, Post(c, t) PROVE AnswersFollowQuestions'
  <2>1. /\ transcript' = transcript /\ pc[t] = "idle"
        /\ \A u \in Turns : u # t => asked'[u] = asked[u]
    <3> DEFINE number == Latest(User(transcript[c]))
               request == [client |-> c, query |-> transcript[c][number].text, number |-> number]
    <3>1. transcript' = transcript /\ pc[t] = "idle" /\ asked' = [asked EXCEPT ![t] = request]
      BY <1>5, PostFacts
    <3> HIDE DEF request
    <3>2. QED
      BY <1>1, <3>1 DEF ClientsTyped
  <2>2. ASSUME NEW d \in Clients, NEW i \in 1 .. Len(transcript[d])
        PROVE  Right(transcript[d], i, asked')
    BY <1>1, <2>1 DEF Right, TranscriptInv
  <2>3. QED
    BY <1>1, <1>2, <2>1, <2>2
<1>6. ASSUME NEW c \in Clients, Respond(c) PROVE AnswersFollowQuestions'
  <2> DEFINE m == transcript[c]
             n == transcript'[c]
  <2>1. /\ m \in Seq(Message) /\ n \in Seq(Message)
        /\ Len(n) \in Nat /\ Len(n) > Len(m)
        /\ \A i \in 1 .. Len(m) : n[i] = m[i]
        /\ n[Len(m) + 1].role = "assistant" /\ n[Len(m) + 1].text = waiting[c]
        /\ \A i \in 1 .. Len(n) : i > Len(m) + 1 => n[i].role = "tool"
        /\ User(m) \subseteq 1 .. Len(m) /\ User(n) = User(m)
        /\ \A d \in Clients : d # c => transcript'[d] = transcript[d]
    BY <1>1, <1>6, RespondGrows
  <2>2. /\ waiting[c] \in Turns /\ asked' = asked
    BY <1>1, <1>6, RespondFacts
  <2>3. /\ asked[waiting[c]].query = m[Latest(User(m))].text
        /\ Latest(User(m)) \in User(m)
    BY <2>2, WaitedFor DEF latest_user
  <2>4. Len(m) \in Nat /\ Len(n) >= Len(m) /\ \A j \in User(n) : j \in User(m) \/ j > Len(m)
    BY <2>1
  <2>5. m # << >> => m[1].role = "user"
    BY <1>1 DEF TranscriptInv
  <2>6. \A i \in 1 .. Len(m) : Right(n, i, asked)
    BY <1>1, <1>3, <2>1, <2>4, <2>5
  <2>7. Right(n, Len(m) + 1, asked)
    <3>1. Before(n, Len(m) + 1) = User(m)
      BY <2>1, <2>4
    <3>2. n[Latest(User(m))] = m[Latest(User(m))]
      BY <2>1, <2>3
    <3>3. QED
      BY <2>1, <2>3, <3>1, <3>2 DEF Right
  <2>8. \A i \in 1 .. Len(n) : i > Len(m) + 1 => Right(n, i, asked)
    BY <2>1 DEF Right
  <2>9. \A i \in 1 .. Len(n) : Right(n, i, asked)
    BY <2>1, <2>4, <2>6, <2>7, <2>8
  <2>10. QED
    BY <1>1, <1>2, <2>1, <2>2, <2>9
<1>7. ASSUME UNCHANGED <<transcript, asked>> PROVE AnswersFollowQuestions'
  BY <1>1, <1>2, <1>7
<1>8. ASSUME NEW c \in Clients, RespondError(c) \/ GiveUp(c) PROVE UNCHANGED <<transcript, asked>>
  BY <1>1, <1>8, LeaveFacts
<1>9. ASSUME Serve \/ UNCHANGED allvars PROVE UNCHANGED <<transcript, asked>>
  BY <1>9 DEF Serve, allvars, client
<1>10. QED
  BY <1>4, <1>5, <1>6, <1>7, <1>8, <1>9 DEF NextConversations

(* The answer that follows a question is of a turn that was asked it, retries and tool *)
(* results included, for any clients (loop.py:46-53).                                   *)
THEOREM AnswersFollow == SpecConversations => []AnswersFollowQuestions
<1>1. InitConversations => AnswersFollowQuestions
  BY DEF InitConversations, AnswersFollowQuestions
<1>2. QED
  BY <1>1, AnswersStep, ConversationInvariant, PTL DEF SpecConversations

LEMMA OrderStep ==
  ConversationInv /\ PatientClientsInOrder /\ [NextConversations]_allvars
      => PatientClientsInOrder'
<1> SUFFICES ASSUME ConversationInv, PatientClientsInOrder, [NextConversations]_allvars
             PROVE  PatientClientsInOrder'
  OBVIOUS
<1> DEFINE In(s, i) == asked[log[s][i].turn_id]
<1>1. /\ ClientsTyped /\ TranscriptInv /\ AskedInv /\ WaitingInv /\ Inv
      /\ log \in [Sessions -> Seq(Update)] /\ pc \in [Turns -> PC]
      /\ \A s \in Sessions : DOMAIN log[s] = 1 .. Len(log[s]) /\ Len(log[s]) \in Nat
      /\ \A d \in Clients : transcript[d] \in Seq(Message)
      /\ \A t \in Turns : asked[t] # NotAsked => asked[t].client \in Clients
  BY DEF ConversationInv, ClientsTyped, Inv, TypeOK, Request
<1>2. \A s \in Sessions : \A i \in 1 .. Len(log[s]) :
         /\ log[s][i].turn_id \in Turns /\ pc[log[s][i].turn_id] # "idle"
         /\ In(s, i) # NotAsked
  <2>1. \A s \in Sessions : \A i \in 1 .. Len(log[s]) : log[s][i] \in Update
    BY <1>1
  <2>2. \A s \in Sessions : \A i \in 1 .. Len(log[s]) :
           log[s][i].turn_id \in Turns /\ pc[log[s][i].turn_id] # "idle"
    BY <1>1, <2>1 DEF Update, Inv, LogInv
  <2>3. QED
    BY <1>1, <2>2 DEF AskedInv
<1>3. \A s \in Sessions : \A i, j \in 1 .. Len(log[s]) :
         i < j /\ In(s, i).client = In(s, j).client /\ In(s, i).client \notin impatient
             => In(s, i).number <= In(s, j).number
  BY <1>1 DEF PatientClientsInOrder
<1>4. \A t, u \in Turns :
         asked'[t] # NotAsked /\ asked'[u] # NotAsked /\ asked'[t].client = asked'[u].client
             => SessionOf[t] = SessionOf[u]
  <2>1. AskedInv'
    BY AskedStep
  <2>2. QED
    BY <2>1 DEF AskedInv
<1>5. ASSUME log' = log, impatient \subseteq impatient',
             \A t \in Turns : pc[t] # "idle" => asked'[t] = asked[t]
      PROVE  PatientClientsInOrder'
  <2>1. \A s \in Sessions : \A i \in DOMAIN log'[s] :
           asked'[log'[s][i].turn_id] = In(s, i) /\ i \in 1 .. Len(log[s])
    BY <1>1, <1>2, <1>5
  <2> HIDE DEF In
  <2>2. \A s \in Sessions : \A i, j \in DOMAIN log'[s] :
           LET first == asked'[log'[s][i].turn_id]
               second == asked'[log'[s][j].turn_id]
           IN  i < j /\ first.client = second.client /\ first.client \notin impatient'
                   => first.number <= second.number
    BY <1>3, <1>5, <2>1
  <2>3. QED
    BY <1>4, <2>2 DEF PatientClientsInOrder
<1>6. ASSUME NEW t \in Turns, WriteSpine(t), UNCHANGED client PROVE PatientClientsInOrder'
  <2> DEFINE r == SessionOf[t]
             n == Len(log[r])
             cl == asked[t].client
  <2>1. /\ r \in Sessions /\ update[t] \in Update /\ update[t].turn_id = t
        /\ log' = [log EXCEPT ![r] = Append(log[r], update[t])]
    BY <1>1, <1>6, WriteFacts
  <2>2. /\ asked[t] # NotAsked /\ cl \in Clients /\ ~Ended(t)
        /\ asked' = asked /\ impatient' = impatient
    BY <1>1, <1>6 DEF WriteSpine, AskedInv, Ended, client
  <2>3. /\ n \in Nat /\ log[r] \in Seq(Update)
        /\ Len(log'[r]) = n + 1 /\ DOMAIN log'[r] = 1 .. (n + 1)
        /\ log'[r][n + 1] = update[t] /\ \A i \in 1 .. n : log'[r][i] = log[r][i]
        /\ \A s \in Sessions : s # r => log'[s] = log[s]
    BY <1>1, <2>1
  <2>4. ASSUME cl \notin impatient, NEW i \in 1 .. n, In(r, i).client = cl
        PROVE  In(r, i).number <= asked[t].number
    <3>1. waiting[cl] = t
      BY <1>1, <2>2, <2>4 DEF WaitingInv
    <3>2. asked[t].number = Latest(User(transcript[cl]))
      BY <2>2, <3>1, WaitedFor
    <3>3. In(r, i).number \in User(transcript[cl])
      BY <1>1, <1>2, <2>1, <2>4 DEF AskedInv
    <3>4. User(transcript[cl]) \in SUBSET (1 .. Len(transcript[cl])) /\ Len(transcript[cl]) \in Nat
      BY <1>1, <2>2 DEF User
    <3>5. QED
      BY <3>2, <3>3, <3>4, LatestExists
  <2> HIDE DEF n, r, cl
  <2>5. ASSUME NEW s \in Sessions, NEW i \in DOMAIN log'[s], NEW j \in DOMAIN log'[s], i < j,
               asked[log'[s][i].turn_id].client = asked[log'[s][j].turn_id].client,
               asked[log'[s][i].turn_id].client \notin impatient
        PROVE  asked[log'[s][i].turn_id].number <= asked[log'[s][j].turn_id].number
    <3>1. CASE s # r
      <4>1. log'[s] = log[s] /\ i \in 1 .. Len(log[s]) /\ j \in 1 .. Len(log[s])
        BY <1>1, <2>3, <3>1
      <4>2. QED
        BY <1>3, <2>5, <4>1
    <3>2. CASE s = r
      <4>1. i \in 1 .. n /\ (j \in 1 .. n \/ j = n + 1) /\ log'[r][i] = log[r][i]
        BY <2>3, <2>5, <3>2
      <4>2. CASE j \in 1 .. n
        <5>1. log'[r][j] = log[r][j]
          BY <2>3, <4>2
        <5>2. QED
          BY <1>3, <2>1, <2>5, <3>2, <4>1, <4>2, <5>1 DEF n
      <4>3. CASE j = n + 1
        <5>1. log'[r][j].turn_id = t
          BY <2>1, <2>3, <4>3
        <5>2. QED
          BY <2>4, <2>5, <3>2, <4>1, <5>1 DEF cl
      <4>4. QED
        BY <4>1, <4>2, <4>3
    <3>3. QED
      BY <3>1, <3>2
  <2>6. QED
    BY <1>4, <2>2, <2>5 DEF PatientClientsInOrder
<1>7. ASSUME NEW c \in Clients, NEW q \in Writes[c], Ask(c, q) PROVE PatientClientsInOrder'
  BY <1>1, <1>5, <1>7, AskFacts DEF vars
<1>8. ASSUME NEW c \in Clients, NEW t \in Turns, Post(c, t) PROVE PatientClientsInOrder'
  <2>1. log' = log /\ impatient' = impatient /\ pc[t] = "idle"
    BY <1>8, PostFacts
  <2>2. \A u \in Turns : pc[u] # "idle" => asked'[u] = asked[u]
    BY <1>1, <1>8, <2>1 DEF Post, ClientsTyped
  <2>3. QED
    BY <1>5, <2>1, <2>2
<1>9. ASSUME NEW c \in Clients, Respond(c) \/ RespondError(c) \/ GiveUp(c)
      PROVE  PatientClientsInOrder'
  <2>1. log' = log /\ asked' = asked /\ impatient \subseteq impatient'
    BY <1>9 DEF Respond, RespondError, GiveUp, vars
  <2>2. QED
    BY <1>5, <2>1
<1>10. CASE Serve
  <2>1. UNCHANGED client /\ asked' = asked /\ impatient' = impatient
    BY <1>10 DEF Serve, client
  <2>2. CASE \E t \in Turns : WriteSpine(t)
    BY <1>6, <2>1, <2>2
  <2>3. CASE ~ \E t \in Turns : WriteSpine(t)
    <3>1. log' = log
      BY <1>10, <2>3 DEF Serve, Advance, Fail, Think, ReadUnderLock, LeaveLock, WriteReceipt,
                         ThinkFails, CommitFails, ReceiptFails, Restart, durable
    <3>2. QED
      BY <1>5, <2>1, <3>1
  <2>4. QED
    BY <2>2, <2>3
<1>11. CASE UNCHANGED allvars
  <2>1. log' = log /\ asked' = asked /\ impatient' = impatient
    BY <1>11 DEF allvars, client, vars
  <2>2. QED
    BY <1>5, <2>1
<1>12. QED
  BY <1>7, <1>8, <1>9, <1>10, <1>11 DEF NextConversations

(* A client that waits for its answers is remembered in order and in one session, also *)
(* when its turns fail and are asked again (loop.py:36-43, routes.py:53-59).            *)
THEOREM ClientsAreRememberedInOrder == SpecConversations => []PatientClientsInOrder
<1>1. InitConversations => PatientClientsInOrder
  BY DEF InitConversations, Init, PatientClientsInOrder
<1>2. QED
  BY <1>1, OrderStep, ConversationInvariant, PTL DEF SpecConversations
=============================================================================
