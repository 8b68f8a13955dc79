--------------------------- MODULE DiscourseProofs ---------------------------
(***************************************************************************)
(* Proofs about the reducer. First one fold, for every state and update:   *)
(* what it does to the turn count, the active subject, the window and the  *)
(* stack, and that it keeps a spine well formed. Then SpineReducer, for    *)
(* any names, limits and updates: ReducerInv says where each part of the   *)
(* spine stands in the history of the session. FramesInv and MissingInv    *)
(* are what makes the stack a cache inductive: a frame is about the last   *)
(* turn of its topic, and a topic is missing only from a full stack whose  *)
(* frames are all later.                                                   *)
(***************************************************************************)
EXTENDS SpineReducer, FiniteSetTheorems, WellFoundedInduction, TLAPS

(* s[-n:] has at most n items, each of them an item of s, and ends as s does. *)
LEMMA LastOfFacts ==
  ASSUME NEW S, NEW s \in Seq(S), NEW n \in Nat
  PROVE  /\ LastOf(s, n) \in Seq(S)
         /\ Len(LastOf(s, n)) = IF Len(s) <= n THEN Len(s) ELSE n
         /\ \A i \in 1 .. Len(LastOf(s, n)) :
               LastOf(s, n)[i] = s[Len(s) - Len(LastOf(s, n)) + i]
<1>1. CASE Len(s) <= n
  BY <1>1 DEF LastOf
<1>2. CASE ~(Len(s) <= n)
  <2>1. /\ Len(s) - n + 1 \in 1 .. Len(s) + 1
        /\ LastOf(s, n) = SubSeq(s, Len(s) - n + 1, Len(s))
    BY <1>2 DEF LastOf
  <2>2. /\ SubSeq(s, Len(s) - n + 1, Len(s)) \in Seq(S)
        /\ Len(SubSeq(s, Len(s) - n + 1, Len(s))) = n
    BY <1>2, <2>1
  <2>3. \A i \in 1 .. n : SubSeq(s, Len(s) - n + 1, Len(s))[i] = s[Len(s) - n + i]
    BY <1>2, <2>1, <2>2
  <2>4. QED
    BY <1>2, <2>1, <2>2, <2>3
<1>3. QED
  BY <1>1, <1>2

(* A turn that names its subject is filed under it. *)
LEMMA NamedSubject ==
  ASSUME NEW state, NEW update, update.subject # Blank
  PROVE  SubjectOf(state, update) = update.subject
<1> DEFINE choices == <<update.subject, state.active_subject, update.topic, Default>>
           Picked(i) == /\ choices[i] # Blank
                        /\ \A j \in 1 .. (i - 1) : choices[j] = Blank
<1>1. choices[1] = update.subject
  OBVIOUS
<1>2. 1 \in 1 .. 4 /\ Picked(1)
  BY <1>1
<1>3. \A i \in 1 .. 4 : Picked(i) => i = 1
  <2>1. SUFFICES ASSUME NEW i \in 1 .. 4, Picked(i), i # 1 PROVE FALSE
    OBVIOUS
  <2>2. 1 \in 1 .. (i - 1)
    BY <2>1
  <2>3. choices[1] = Blank
    BY <2>1, <2>2
  <2>4. QED
    BY <1>1, <2>3
<1> HIDE DEF Picked
<1>4. (CHOOSE i \in 1 .. 4 : Picked(i)) = 1
  BY <1>2, <1>3
<1>5. SubjectOf(state, update) = choices[CHOOSE i \in 1 .. 4 : Picked(i)]
  BY DEF SubjectOf, Picked
<1>6. QED
  BY <1>1, <1>4, <1>5

(* A turn that is new to the window counts one up, becomes the active subject and *)
(* enters the window at its end; what else is in the window was there before.     *)
LEMMA ReduceNewTurn ==
  ASSUME NEW T, NEW state, NEW update,
         state.current_turn \in Nat,
         state.recent_turns \in Seq(TurnFrame(T)),
         update.turn_id \in T, update.subject \in Names,
         ~InRecentWindow(state, update.turn_id)
  PROVE  LET after == Reduce(state, update)
         IN  /\ after.current_turn = state.current_turn + 1
             /\ after.active_subject = update.subject
             /\ after.recent_turns \in Seq(TurnFrame(T))
             /\ Len(after.recent_turns) <= RecentLimit
             /\ \A i \in 1 .. Len(after.recent_turns) :
                   \/ after.recent_turns[i].turn_id = update.turn_id
                   \/ \E j \in 1 .. Len(state.recent_turns) :
                         after.recent_turns[i] = state.recent_turns[j]
<1> DEFINE turn == [turn_id |-> update.turn_id, index |-> state.current_turn + 1,
                    subject |-> update.subject]
           turns == Append(state.recent_turns, turn)
           after == Reduce(state, update)
<1>1. SubjectOf(state, update) = update.subject
  BY NamedSubject, NamesAssumption
<1>2. /\ after.current_turn = state.current_turn + 1
      /\ after.active_subject = update.subject
      /\ after.recent_turns = LastOf(turns, RecentLimit)
  BY <1>1 DEF Reduce, Folded
<1>3. turn \in TurnFrame(T)
  BY DEF TurnFrame
<1>4. /\ turns \in Seq(TurnFrame(T))
      /\ Len(turns) = Len(state.recent_turns) + 1
      /\ turns[Len(turns)] = turn
      /\ \A j \in 1 .. Len(state.recent_turns) : turns[j] = state.recent_turns[j]
  BY <1>3
<1> HIDE DEF turns, turn, after
<1>5. /\ LastOf(turns, RecentLimit) \in Seq(TurnFrame(T))
      /\ Len(LastOf(turns, RecentLimit)) <= RecentLimit
      /\ \A i \in 1 .. Len(LastOf(turns, RecentLimit)) :
            \E k \in 1 .. Len(turns) : LastOf(turns, RecentLimit)[i] = turns[k]
  <2>1. RecentLimit \in Nat
    BY LimitsAssumption
  <2>2. /\ LastOf(turns, RecentLimit) \in Seq(TurnFrame(T))
        /\ Len(LastOf(turns, RecentLimit))
             = IF Len(turns) <= RecentLimit THEN Len(turns) ELSE RecentLimit
        /\ \A i \in 1 .. Len(LastOf(turns, RecentLimit)) : LastOf(turns, RecentLimit)[i]
              = turns[Len(turns) - Len(LastOf(turns, RecentLimit)) + i]
    BY <1>4, <2>1, LastOfFacts, SMTT(30)
  <2>3. Len(turns) \in Nat
    BY <1>4
  <2> DEFINE last == LastOf(turns, RecentLimit)
  <2> HIDE DEF last
  <2>4. /\ last \in Seq(TurnFrame(T))
        /\ Len(last) = IF Len(turns) <= RecentLimit THEN Len(turns) ELSE RecentLimit
        /\ \A i \in 1 .. Len(last) : last[i] = turns[Len(turns) - Len(last) + i]
    BY <2>2 DEF last
  <2>5. Len(last) <= RecentLimit /\ Len(last) <= Len(turns)
    BY <2>1, <2>3, <2>4
  <2>6. ASSUME NEW i \in 1 .. Len(last)
        PROVE  \E k \in 1 .. Len(turns) : last[i] = turns[k]
    <3>1. Len(turns) - Len(last) + i \in 1 .. Len(turns)
      BY <2>1, <2>3, <2>4, <2>5
    <3>2. QED
      BY <2>4, <3>1
  <2>7. QED
    BY <2>4, <2>5, <2>6 DEF last
<1>6. \A k \in 1 .. Len(turns) :
         turns[k] = turn \/ \E j \in 1 .. Len(state.recent_turns) : turns[k] = state.recent_turns[j]
  BY <1>4
<1>7. turn.turn_id = update.turn_id
  BY DEF turn
<1>8. QED
  BY <1>2, <1>5, <1>6, <1>7 DEF after

(* Where a topic is, and where it is not. *)
LEMMA PositionFacts ==
  ASSUME NEW stack \in Seq(TopicFrame), NEW id
  PROVE  /\ Position(stack, id) \in 0 .. Len(stack)
         /\ Position(stack, id) # 0 => stack[Position(stack, id)].topic_id = id
         /\ Position(stack, id) = 0 => \A i \in 1 .. Len(stack) : stack[i].topic_id # id
<1>1. Len(stack) \in Nat
  OBVIOUS
<1>2. CASE \E i \in 1 .. Len(stack) : stack[i].topic_id = id
  <2>1. /\ Position(stack, id) \in 1 .. Len(stack)
        /\ stack[Position(stack, id)].topic_id = id
    BY <1>2 DEF Position
  <2>2. QED
    BY <1>1, <2>1
<1>3. CASE ~ \E i \in 1 .. Len(stack) : stack[i].topic_id = id
  BY <1>1, <1>3 DEF Position
<1>4. QED
  BY <1>2, <1>3

(* What is retained: frames of the stack, sent to the background, in their order, *)
(* none of them the topic's when the stack holds no topic twice.                  *)
LEMMA RetainedFacts ==
  ASSUME NEW stack \in Seq(TopicFrame), NEW id
  PROVE  LET rest == Retained(stack, id)
             from(i) == IF Position(stack, id) = 0 \/ i < Position(stack, id) THEN i ELSE i + 1
         IN  /\ rest \in Seq(TopicFrame)
             /\ Len(rest) = IF Position(stack, id) = 0 THEN Len(stack) ELSE Len(stack) - 1
             /\ \A i \in 1 .. Len(rest) :
                   /\ from(i) \in 1 .. Len(stack)
                   /\ from(i) # Position(stack, id)
                   /\ rest[i] = [stack[from(i)] EXCEPT !.status = "background"]
<1> DEFINE at == Position(stack, id)
           from(i) == IF at = 0 \/ i < at THEN i ELSE i + 1
           n == IF at = 0 THEN Len(stack) ELSE Len(stack) - 1
           others == Others(stack, id)
<1>1. Len(stack) \in Nat /\ at \in 0 .. Len(stack)
  BY PositionFacts
<1>2. n \in Nat
  BY <1>1
<1> HIDE DEF at
<1>3. \A i \in 1 .. n : from(i) \in 1 .. Len(stack) /\ from(i) # at
  BY <1>1
<1>4. /\ others \in Seq(TopicFrame)
      /\ Len(others) = n
      /\ \A i \in 1 .. n : others[i] = stack[from(i)]
  <2>1. CASE at = 0
    BY <2>1 DEF Others, at
  <2>2. CASE at # 0
    <3>1. others = [i \in 1 .. n |-> stack[IF i < at THEN i ELSE i + 1]]
      BY <2>2 DEF Others, at
    <3>2. \A i \in 1 .. n : stack[IF i < at THEN i ELSE i + 1] \in TopicFrame
      BY <1>3, <2>2
    <3>3. others \in [1 .. n -> TopicFrame]
      BY <3>1, <3>2
    <3>4. QED
      BY <1>2, <2>2, <3>1, <3>3
  <2>3. QED
    BY <2>1, <2>2
<1> HIDE DEF others, n
<1>5. Retained(stack, id) = [i \in 1 .. n |-> [others[i] EXCEPT !.status = "background"]]
  BY <1>4 DEF Retained, others
<1>6. \A i \in 1 .. n : others[i] \in TopicFrame
  BY <1>4
<1>7. \A f \in TopicFrame : [f EXCEPT !.status = "background"] \in TopicFrame
  BY DEF TopicFrame
<1>8. Retained(stack, id) \in [1 .. n -> TopicFrame]
  BY <1>5, <1>6, <1>7
<1>9. Retained(stack, id) \in Seq(TopicFrame) /\ Len(Retained(stack, id)) = n
  BY <1>2, <1>8
<1>10. QED
  BY <1>3, <1>4, <1>5, <1>9 DEF at, n

(* s[:n] has at most n items, the first ones of s. *)
LEMMA FirstOfFacts ==
  ASSUME NEW S, NEW s \in Seq(S), NEW n \in Nat
  PROVE  /\ FirstOf(s, n) \in Seq(S)
         /\ Len(FirstOf(s, n)) = IF Len(s) <= n THEN Len(s) ELSE n
         /\ \A i \in 1 .. Len(FirstOf(s, n)) : FirstOf(s, n)[i] = s[i]
<1>1. CASE Len(s) <= n
  BY <1>1 DEF FirstOf
<1>2. CASE ~(Len(s) <= n)
  BY <1>2 DEF FirstOf
<1>3. QED
  BY <1>1, <1>2

(* The stack after a turn that names its subject: its frame at the head, then the *)
(* other topics in their order, in the background, up to the limit.               *)
LEMMA FoldedStack ==
  ASSUME NEW T, NEW state \in DiscourseState(T), NEW update,
         update.subject \in Names, update.entities \in SUBSET Names
  PROVE  LET id == CaseFold[update.subject]
             at == Position(state.topic_stack, id)
             frame == ActiveFrame(state, update, update.subject, state.current_turn + 1)
             rest == Retained(state.topic_stack, id)
             stack == Folded(state, update).topic_stack
         IN  /\ frame \in TopicFrame
             /\ stack \in Seq(TopicFrame)
             /\ Len(stack) = IF Len(rest) + 1 <= TopicLimit THEN Len(rest) + 1 ELSE TopicLimit
             /\ stack[1] = frame
             /\ \A i \in 2 .. Len(stack) : i - 1 \in 1 .. Len(rest) /\ stack[i] = rest[i - 1]
<1> DEFINE id == CaseFold[update.subject]
           at == Position(state.topic_stack, id)
           frame == ActiveFrame(state, update, update.subject, state.current_turn + 1)
           rest == Retained(state.topic_stack, id)
<1>1. /\ state.topic_stack \in Seq(TopicFrame) /\ state.current_turn \in Nat
      /\ id \in TopicIds
  BY DEF DiscourseState, TopicIds
<1>2. at \in 0 .. Len(state.topic_stack)
  BY <1>1, PositionFacts
<1>3. at # 0 => state.topic_stack[at] \in TopicFrame
  BY <1>1, <1>2
<1>4. frame \in TopicFrame
  <2>1. CASE at = 0
    BY <1>1, <2>1 DEF ActiveFrame, TopicFrame
  <2>2. CASE at # 0
    BY <1>1, <1>3, <2>2 DEF ActiveFrame, TopicFrame
  <2>3. QED
    BY <2>1, <2>2
<1>5. rest \in Seq(TopicFrame)
  BY <1>1, RetainedFacts
<1>6. SubjectOf(state, update) = update.subject
  BY NamedSubject, NamesAssumption
<1>7. Folded(state, update).topic_stack = FirstOf(<<frame>> \o rest, TopicLimit)
  BY <1>6 DEF Folded
<1> DEFINE all == <<frame>> \o rest
<1> HIDE DEF frame, rest
<1>8. /\ all \in Seq(TopicFrame) /\ Len(all) = Len(rest) + 1 /\ Len(rest) \in Nat
      /\ all[1] = frame
      /\ \A i \in 2 .. Len(all) : i - 1 \in 1 .. Len(rest) /\ all[i] = rest[i - 1]
  BY <1>4, <1>5
<1> HIDE DEF all
<1>9. TopicLimit \in Nat \ {0}
  BY LimitsAssumption
<1>10. /\ FirstOf(all, TopicLimit) \in Seq(TopicFrame)
       /\ Len(FirstOf(all, TopicLimit))
             = IF Len(all) <= TopicLimit THEN Len(all) ELSE TopicLimit
       /\ \A i \in 1 .. Len(FirstOf(all, TopicLimit)) : FirstOf(all, TopicLimit)[i] = all[i]
  BY <1>8, <1>9, FirstOfFacts
<1> DEFINE cut == FirstOf(all, TopicLimit)
<1> HIDE DEF cut
<1>11. /\ cut \in Seq(TopicFrame)
       /\ Len(cut) = IF Len(all) <= TopicLimit THEN Len(all) ELSE TopicLimit
       /\ \A i \in 1 .. Len(cut) : cut[i] = all[i]
  BY <1>10 DEF cut
<1>12. 1 \in 1 .. Len(cut) /\ Len(cut) <= Len(all)
  BY <1>8, <1>9, <1>11
<1>13. cut[1] = frame
  BY <1>8, <1>11, <1>12
<1>14. \A i \in 2 .. Len(cut) : i - 1 \in 1 .. Len(rest) /\ cut[i] = rest[i - 1]
  BY <1>8, <1>11, <1>12
<1>15. Len(cut) = IF Len(rest) + 1 <= TopicLimit THEN Len(rest) + 1 ELSE TopicLimit
  BY <1>8, <1>11
<1>16. Folded(state, update).topic_stack = cut
  BY <1>7 DEF cut, all
<1>17. QED
  BY <1>4, <1>11, <1>13, <1>14, <1>15, <1>16 DEF frame, rest

(* The reducer maps states to states. *)
THEOREM ReduceTyped ==
  ASSUME NEW T, NEW state \in DiscourseState(T), NEW update,
         update.turn_id \in T, update.subject \in Names, update.entities \in SUBSET Names
  PROVE  Reduce(state, update) \in DiscourseState(T)
<1>1. CASE InRecentWindow(state, update.turn_id)
  BY <1>1 DEF Reduce
<1>2. CASE ~InRecentWindow(state, update.turn_id)
  <2>1. Reduce(state, update) = Folded(state, update)
    BY <1>2 DEF Reduce
  <2>2. Folded(state, update).topic_stack \in Seq(TopicFrame)
    BY FoldedStack
  <2>3. state.current_turn \in Nat /\ state.recent_turns \in Seq(TurnFrame(T))
    BY DEF DiscourseState
  <2>4. /\ Reduce(state, update).current_turn = state.current_turn + 1
        /\ Reduce(state, update).active_subject = update.subject
        /\ Reduce(state, update).recent_turns \in Seq(TurnFrame(T))
    BY <1>2, <2>3, ReduceNewTurn
  <2>5. Folded(state, update) =
          [current_turn   |-> Folded(state, update).current_turn,
           active_subject |-> Folded(state, update).active_subject,
           topic_stack    |-> Folded(state, update).topic_stack,
           recent_turns   |-> Folded(state, update).recent_turns]
    BY DEF Folded
  <2>6. QED
    BY <2>1, <2>2, <2>3, <2>4, <2>5 DEF DiscourseState
<1>3. QED
  BY <1>1, <1>2

(* The reducer keeps the stack in shape: a turn that names its subject leaves a    *)
(* bounded stack without repeated topics, itself active at the head, the others in *)
(* the order they were last discussed.                                             *)
THEOREM ReduceWellFormed ==
  ASSUME NEW T, NEW state \in DiscourseState(T), NEW update, WellFormed(state),
         update.turn_id \in T, update.subject \in Names, update.entities \in SUBSET Names
  PROVE  WellFormed(Reduce(state, update))
<1>1. CASE InRecentWindow(state, update.turn_id)
  BY <1>1 DEF Reduce
<1>2. CASE ~InRecentWindow(state, update.turn_id)
  <2> DEFINE old == state.topic_stack
             id == CaseFold[update.subject]
             at == Position(old, id)
             from(i) == IF at = 0 \/ i < at THEN i ELSE i + 1
             frame == ActiveFrame(state, update, update.subject, state.current_turn + 1)
             rest == Retained(old, id)
             after == Reduce(state, update)
             stack == after.topic_stack
  <2>1. after = Folded(state, update)
    BY <1>2 DEF Reduce
  <2>2. /\ after.current_turn = state.current_turn + 1
        /\ after.active_subject = update.subject
    <3>1. SubjectOf(state, update) = update.subject
      BY NamedSubject, NamesAssumption
    <3>2. QED
      BY <2>1, <3>1 DEF Folded
  <2>3. /\ old \in Seq(TopicFrame) /\ Len(old) \in Nat
        /\ state.current_turn \in Nat
        /\ \A i \in 1 .. Len(old) : /\ old[i].last_turn \in Nat
                                    /\ old[i].first_turn \in Nat
    <3>1. old \in Seq(TopicFrame) /\ state.current_turn \in Nat
      BY DEF DiscourseState
    <3>2. \A i \in 1 .. Len(old) : old[i] \in TopicFrame
      BY <3>1
    <3>3. QED
      BY <3>1, <3>2, SMTT(30) DEF TopicFrame
  <2>4. /\ at \in 0 .. Len(old)
        /\ at # 0 => old[at].topic_id = id
        /\ at = 0 => \A i \in 1 .. Len(old) : old[i].topic_id # id
    BY <2>3, PositionFacts
  <2>5. /\ frame.topic_id = id /\ frame.name = update.subject /\ frame.status = "active"
        /\ frame.last_turn = state.current_turn + 1
        /\ frame.first_turn = IF at = 0 THEN state.current_turn + 1 ELSE old[at].first_turn
    BY DEF ActiveFrame
  <2>6. /\ rest \in Seq(TopicFrame)
        /\ Len(rest) = IF at = 0 THEN Len(old) ELSE Len(old) - 1
        /\ \A i \in 1 .. Len(rest) :
              /\ from(i) \in 1 .. Len(old)
              /\ from(i) # at
              /\ rest[i] = [old[from(i)] EXCEPT !.status = "background"]
    BY <2>3, RetainedFacts
  <2>7. /\ stack \in Seq(TopicFrame)
        /\ Len(stack) = IF Len(rest) + 1 <= TopicLimit THEN Len(rest) + 1 ELSE TopicLimit
        /\ stack[1] = frame
        /\ \A i \in 2 .. Len(stack) : i - 1 \in 1 .. Len(rest) /\ stack[i] = rest[i - 1]
    BY <2>1, FoldedStack
  <2> HIDE DEF at, frame, rest, after
  <2>8. /\ \A i, j \in 1 .. Len(old) : i < j => /\ old[i].topic_id # old[j].topic_id
                                                /\ old[i].last_turn > old[j].last_turn
        /\ \A i \in 1 .. Len(old) : /\ old[i].topic_id = CaseFold[old[i].name]
                                    /\ old[i].first_turn <= old[i].last_turn
        /\ Len(old) > 0 => old[1].last_turn = state.current_turn
    <3>1. \A i, j \in 1 .. Len(old) : i < j => /\ old[i].topic_id # old[j].topic_id
                                               /\ old[i].last_turn > old[j].last_turn
      BY Zenon DEF WellFormed
    <3>2. \A i \in 1 .. Len(old) : /\ old[i].topic_id = CaseFold[old[i].name]
                                   /\ old[i].first_turn <= old[i].last_turn
      <4>1. \A i \in 1 .. Len(old) : /\ old[i].status = "active" <=> i = 1
                                     /\ old[i].topic_id = CaseFold[old[i].name]
                                     /\ old[i].first_turn <= old[i].last_turn
        BY DEF WellFormed
      <4>2. QED
        BY <4>1
    <3>3. Len(old) > 0 => old[1].last_turn = state.current_turn
      BY DEF WellFormed
    <3>4. QED
      BY <3>1, <3>2, <3>3
  <2>9. \A i \in 1 .. Len(old) : old[i].last_turn <= state.current_turn
    BY <2>3, <2>8, SMTT(30)
  <2>10. \A i \in 1 .. Len(old) : i # at => old[i].topic_id # id
    BY <2>3, <2>4, <2>8
  <2>11. \A i \in 1 .. Len(rest) :
            /\ rest[i].topic_id = old[from(i)].topic_id
            /\ rest[i].name = old[from(i)].name
            /\ rest[i].last_turn = old[from(i)].last_turn
            /\ rest[i].first_turn = old[from(i)].first_turn
            /\ rest[i].status = "background"
    <3>1. ASSUME NEW i \in 1 .. Len(rest)
          PROVE  /\ rest[i].topic_id = old[from(i)].topic_id
                 /\ rest[i].name = old[from(i)].name
                 /\ rest[i].last_turn = old[from(i)].last_turn
                 /\ rest[i].first_turn = old[from(i)].first_turn
                 /\ rest[i].status = "background"
      <4>1. old[from(i)] \in TopicFrame
        BY <2>3, <2>6
      <4>2. rest[i] = [old[from(i)] EXCEPT !.status = "background"]
        BY <2>6
      <4> HIDE DEF from
      <4>3. QED
        BY <4>1, <4>2 DEF TopicFrame
    <3>2. QED
      BY <3>1
  <2>12. ASSUME NEW i \in 1 .. Len(rest)
         PROVE  /\ rest[i].topic_id # id
                /\ rest[i].last_turn < state.current_turn + 1
                /\ rest[i].topic_id = CaseFold[rest[i].name]
                /\ rest[i].first_turn <= rest[i].last_turn
                /\ rest[i].status = "background"
    <3>1. from(i) \in 1 .. Len(old) /\ from(i) # at
      BY <2>6
    <3> HIDE DEF from
    <3>2. QED
      BY <2>3, <2>8, <2>9, <2>10, <2>11, <3>1, SMTT(30)
  <2>13. ASSUME NEW i \in 1 .. Len(rest), NEW j \in 1 .. Len(rest), i < j
         PROVE  /\ rest[i].topic_id # rest[j].topic_id
                /\ rest[i].last_turn > rest[j].last_turn
    <3>1. from(i) \in 1 .. Len(old) /\ from(j) \in 1 .. Len(old) /\ from(i) < from(j)
      BY <2>3, <2>4, <2>6, <2>13, SMTT(30)
    <3> HIDE DEF from
    <3>2. QED
      BY <2>8, <2>11, <3>1, SMTT(30)
  <2>14. Len(stack) \in Nat \ {0} /\ Len(stack) <= TopicLimit /\ Len(rest) \in Nat
    BY <2>6, <2>7, LimitsAssumption
  <2>15. ASSUME NEW i \in 1 .. Len(stack), NEW j \in 1 .. Len(stack), i < j
         PROVE  /\ stack[i].topic_id # stack[j].topic_id
                /\ stack[i].last_turn > stack[j].last_turn
    <3>1. j \in 2 .. Len(stack) /\ j - 1 \in 1 .. Len(rest) /\ stack[j] = rest[j - 1]
      BY <2>7, <2>14, <2>15
    <3>2. CASE i = 1
      BY <2>5, <2>7, <2>12, <3>1, <3>2, <2>3, <2>6, SMTT(30)
    <3>3. CASE i # 1
      <4>1. i - 1 \in 1 .. Len(rest) /\ stack[i] = rest[i - 1] /\ i - 1 < j - 1
        BY <2>7, <2>14, <2>15, <3>3
      <4>2. QED
        BY <2>13, <3>1, <4>1
    <3>4. QED
      BY <3>2, <3>3
  <2>16. ASSUME NEW i \in 1 .. Len(stack)
         PROVE  /\ stack[i].status = "active" <=> i = 1
                /\ stack[i].topic_id = CaseFold[stack[i].name]
                /\ stack[i].first_turn <= stack[i].last_turn
    <3>1. CASE i = 1
      <4>1. frame.first_turn <= frame.last_turn
        BY <2>3, <2>4, <2>5, <2>8, <2>9
      <4>2. QED
        BY <2>5, <2>7, <3>1, <4>1
    <3>2. CASE i # 1
      <4>1. i - 1 \in 1 .. Len(rest) /\ stack[i] = rest[i - 1]
        BY <2>7, <2>14, <3>2
      <4>2. QED
        BY <2>12, <3>2, <4>1
    <3>3. QED
      BY <3>1, <3>2
  <2>17. stack[1].name = after.active_subject /\ stack[1].last_turn = after.current_turn
    BY <2>2, <2>5, <2>7
  <2>18. Len(stack) # 0 /\ after.current_turn # 0
    BY <2>2, <2>3, <2>14
  <2>19. WellFormed(after)
    BY <2>14, <2>15, <2>16, <2>17, <2>18 DEF WellFormed
  <2>20. QED
    BY <2>19 DEF after
<1>3. QED
  BY <1>1, <1>2

(* Idempotence over the window: a turn the window has changes nothing. *)
LEMMA ReduceIdempotent ==
  ASSUME NEW state, NEW update, InRecentWindow(state, update.turn_id)
  PROVE  Reduce(state, update) = state
BY DEF Reduce

-----------------------------------------------------------------------------

\* What fold_updates is given: a turn with its number, its subject and its topic,
\* either of which may be blank.
TurnUpdate == [turn_id : Nat, subject : Names \cup {Blank}, topic : Names \cup {Blank},
               entities : SUBSET Names]

TypedReducer ==
    /\ spine \in DiscourseState(Nat)
    /\ sent \in Seq(TurnUpdate)
    /\ folded \in Seq(TurnUpdate)
    /\ \A i \in 1 .. Len(folded) : FiledSubject(i) \in Names

\* The active subject is the one the last turn was filed under.
SubjectInv ==
    spine.active_subject = IF folded = << >> THEN Blank ELSE FiledSubject(Len(folded))

\* A frame is about the last turn of its topic.
FramesInv ==
    \A i \in 1 .. Len(Stack) :
        /\ Stack[i].last_turn \in 1 .. Len(folded)
        /\ Stack[i].first_turn \in 1 .. Stack[i].last_turn
        /\ Stack[i].name = FiledSubject(Stack[i].last_turn)
        /\ \A k \in (Stack[i].last_turn + 1) .. Len(folded) : FiledKey(k) # Stack[i].topic_id

OnStack(key) == \E i \in 1 .. Len(Stack) : Stack[i].topic_id = key

\* A topic is missing only when as many topics as there is room for were discussed later.
MissingInv ==
    \A k \in 1 .. Len(folded) :
        ~OnStack(FiledKey(k)) => /\ Len(Stack) = TopicLimit
                                 /\ \A i \in 1 .. Len(Stack) : k < Stack[i].last_turn

\* What the history of the session says of its spine.
HistoryInv == SubjectInv /\ FramesInv /\ MissingInv /\ EntitiesOfTurns /\ FirstTurns
                /\ RecentIsTheEnd

ReducerInv == TypedReducer /\ WellFormed(spine) /\ HistoryInv

(* A sequence of length 0 is the empty one. *)
LEMMA Empty ==
  ASSUME NEW S, NEW s \in Seq(S), Len(s) = 0
  PROVE  s = << >>
OBVIOUS

(* A set of numbers up to n has a greatest. *)
LEMMA GreatestExists ==
  ASSUME NEW n \in Nat, NEW S \in SUBSET (1 .. n), S # {}
  PROVE  \E m \in S : \A k \in S : k <= m
<1> DEFINE T == {m \in Nat : m <= n /\ n - m \in S}
<1>1. T \subseteq Nat /\ T # {}
  <2>1. PICK k \in S : TRUE
    OBVIOUS
  <2>2. k \in Nat /\ k <= n /\ n - k \in Nat /\ n - k <= n /\ n - (n - k) = k
    BY <2>1
  <2>3. n - k \in T
    BY <2>1, <2>2
  <2>4. QED
    BY <2>3
<1> HIDE DEF T
<1>2. PICK x \in T : \A y \in T : <<y, x>> \notin OpToRel(<, Nat)
  BY <1>1, NatLessThanWellFounded, WFMin
<1>3. \A y \in T : ~(y < x)
  BY <1>1, <1>2 DEF OpToRel
<1>4. x \in Nat /\ x <= n /\ n - x \in S
  BY <1>2 DEF T
<1>5. ASSUME NEW j \in S PROVE j <= n - x
  <2>1. j \in Nat /\ j <= n /\ n - j \in Nat /\ n - j <= n /\ n - (n - j) = j
    OBVIOUS
  <2>2. n - j \in T
    BY <2>1 DEF T
  <2>3. QED
    BY <1>3, <1>4, <2>1, <2>2
<1>6. QED
  BY <1>4, <1>5

(* Whatever an update leaves blank, the turn is filed under a name: its own, else *)
(* the active one, else its topic, else the default.                              *)
LEMMA SubjectFacts ==
  ASSUME NEW state, NEW update,
         update.subject \in Names \cup {Blank},
         state.active_subject \in Names \cup {Blank},
         update.topic \in Names \cup {Blank}
  PROVE  /\ SubjectOf(state, update) \in Names
         /\ update.subject # Blank => SubjectOf(state, update) = update.subject
         /\ update.subject = Blank /\ state.active_subject # Blank
               => SubjectOf(state, update) = state.active_subject
         /\ update.subject = Blank /\ state.active_subject = Blank
               => SubjectOf(state, update) = IF update.topic # Blank THEN update.topic ELSE Default
<1> DEFINE choices == <<update.subject, state.active_subject, update.topic, Default>>
           Picked(i) == /\ choices[i] # Blank
                        /\ \A j \in 1 .. (i - 1) : choices[j] = Blank
           pick == CHOOSE i \in 1 .. 4 : Picked(i)
<1>1. /\ choices[1] = update.subject /\ choices[2] = state.active_subject
      /\ choices[3] = update.topic /\ choices[4] = Default
  OBVIOUS
<1>2. Default \in Names /\ Blank \notin Names
  BY NamesAssumption
<1>3. SubjectOf(state, update) = choices[pick]
  BY DEF SubjectOf
<1> HIDE DEF choices
<1>4. Picked(1) <=> update.subject # Blank
  BY <1>1
<1>5. Picked(2) <=> update.subject = Blank /\ state.active_subject # Blank
  <2>1. 1 .. (2 - 1) = {1}
    OBVIOUS
  <2>2. QED
    BY <1>1, <2>1
<1>6. Picked(3) <=> update.subject = Blank /\ state.active_subject = Blank /\ update.topic # Blank
  <2>1. 1 .. (3 - 1) = {1, 2}
    OBVIOUS
  <2>2. QED
    BY <1>1, <2>1
<1>7. Picked(4) <=> update.subject = Blank /\ state.active_subject = Blank /\ update.topic = Blank
  <2>1. 1 .. (4 - 1) = {1, 2, 3}
    OBVIOUS
  <2>2. QED
    BY <1>1, <1>2, <2>1
<1> HIDE DEF Picked
<1>8. 1 .. 4 = {1, 2, 3, 4}
  OBVIOUS
<1>9. pick \in {1, 2, 3, 4} /\ Picked(pick)
  <2>1. \E i \in 1 .. 4 : Picked(i)
    BY <1>4, <1>5, <1>6, <1>7, <1>8
  <2>2. QED
    BY <2>1, <1>8
<1> HIDE DEF pick
<1>10. QED
  BY <1>1, <1>2, <1>3, <1>4, <1>5, <1>6, <1>7, <1>9

(* A turn is folded as if it had named the subject it is filed under. *)
LEMMA FoldedByName ==
  ASSUME NEW state, NEW update \in TurnUpdate, SubjectOf(state, update) \in Names
  PROVE  LET named == [update EXCEPT !.subject = SubjectOf(state, update)]
         IN  /\ named \in TurnUpdate
             /\ named.subject = SubjectOf(state, update) /\ named.entities = update.entities
             /\ named.turn_id = update.turn_id
             /\ Reduce(state, update) = Reduce(state, named)
             /\ Folded(state, update) = Folded(state, named)
<1> DEFINE s == SubjectOf(state, update)
           named == [update EXCEPT !.subject = s]
<1>1. s \in Names
  OBVIOUS
<1> HIDE DEF s
<1>2. /\ named \in TurnUpdate
      /\ named.subject = s /\ named.entities = update.entities /\ named.turn_id = update.turn_id
  BY <1>1 DEF TurnUpdate
<1> HIDE DEF named
<1>3. SubjectOf(state, named) = s
  BY <1>1, <1>2, NamedSubject, NamesAssumption
<1>4. ActiveFrame(state, update, s, state.current_turn + 1)
        = ActiveFrame(state, named, s, state.current_turn + 1)
  BY <1>2 DEF ActiveFrame
<1>5. Folded(state, update) = Folded(state, named)
  <2>1. SubjectOf(state, update) = s
    BY DEF s
  <2>2. QED
    BY <1>2, <1>3, <1>4, <2>1, Zenon DEF Folded
<1>6. Reduce(state, update) = Reduce(state, named)
  BY <1>2, <1>5 DEF Reduce
<1>7. QED
  BY <1>2, <1>5, <1>6 DEF named, s

(* Folding one more turn leaves the history before it, and what was filed, alone. *)
LEMMA HistoryGrows ==
  ASSUME TypedReducer, NEW update \in TurnUpdate, folded' = Append(folded, update)
  PROVE  /\ Len(folded) \in Nat /\ Len(folded)' = Len(folded) + 1
         /\ folded' \in Seq(TurnUpdate)
         /\ folded'[Len(folded) + 1] = update
         /\ \A i \in 1 .. Len(folded) : /\ folded'[i] = folded[i]
                                        /\ FiledSubject(i)' = FiledSubject(i)
<1>1. folded \in Seq(TurnUpdate)
  BY DEF TypedReducer
<1>2. /\ Len(folded) \in Nat /\ Len(folded)' = Len(folded) + 1
      /\ folded' \in Seq(TurnUpdate)
      /\ folded'[Len(folded) + 1] = update
      /\ \A i \in 1 .. Len(folded) : folded'[i] = folded[i]
  BY <1>1
<1>3. ASSUME NEW i \in 1 .. Len(folded) PROVE FiledSubject(i)' = FiledSubject(i)
  <2>1. Naming(i)' = Naming(i)
    <3>1. \A j \in 1 .. i : folded'[j] = folded[j]
      BY <1>2
    <3>2. QED
      BY <3>1 DEF Naming
  <2> DEFINE Last(S) == CHOOSE j \in S : \A k \in S : k <= j
  <2>2. Naming(i) # {} => Last(Naming(i)) \in 1 .. Len(folded)
    <3>1. Naming(i) \in SUBSET (1 .. i) /\ i \in Nat
      BY DEF Naming
    <3>2. Naming(i) # {} => \E j \in Naming(i) : \A k \in Naming(i) : k <= j
      BY <3>1, GreatestExists
    <3>3. Naming(i) # {} => Last(Naming(i)) \in Naming(i)
      BY <3>2
    <3>4. QED
      BY <1>2, <3>1, <3>3
  <2>3. folded'[1] = folded[1]
    BY <1>2
  <2> HIDE DEF Last
  <2>4. FiledSubject(i) = IF Naming(i) # {} THEN folded[Last(Naming(i))].subject
                          ELSE IF folded[1].topic # Blank THEN folded[1].topic ELSE Default
    BY DEF FiledSubject, Last
  <2>5. FiledSubject(i)' = IF Naming(i)' # {} THEN folded'[Last(Naming(i)')].subject
                           ELSE IF folded'[1].topic # Blank THEN folded'[1].topic ELSE Default
    BY DEF FiledSubject, Last
  <2>6. QED
    BY <1>2, <2>1, <2>2, <2>3, <2>4, <2>5
<1>4. QED
  BY <1>2, <1>3

(* The subject the reducer files a turn under is the one the history tells. *)
LEMMA FiledNext ==
  ASSUME TypedReducer, SubjectInv, NEW update \in TurnUpdate, folded' = Append(folded, update),
         NEW n, n = Len(folded)
  PROVE  /\ SubjectOf(spine, update) \in Names
         /\ FiledSubject(n + 1)' = SubjectOf(spine, update)
<1>1. /\ n \in Nat /\ folded \in Seq(TurnUpdate)
      /\ spine.active_subject \in Names \cup {Blank}
  BY DEF TypedReducer, DiscourseState
<1>2. /\ folded'[n + 1] = update
      /\ \A i \in 1 .. n : folded'[i] = folded[i] /\ FiledSubject(i)' = FiledSubject(i)
  BY HistoryGrows
<1>3. /\ update.subject \in Names \cup {Blank} /\ update.topic \in Names \cup {Blank}
  BY DEF TurnUpdate
<1>4. /\ SubjectOf(spine, update) \in Names
      /\ update.subject # Blank => SubjectOf(spine, update) = update.subject
      /\ update.subject = Blank /\ spine.active_subject # Blank
            => SubjectOf(spine, update) = spine.active_subject
      /\ update.subject = Blank /\ spine.active_subject = Blank
            => SubjectOf(spine, update) = IF update.topic # Blank THEN update.topic ELSE Default
  BY <1>1, <1>3, SubjectFacts
<1> DEFINE Last(S) == CHOOSE j \in S : \A k \in S : k <= j
<1>5. ASSUME NEW i
      PROVE  FiledSubject(i)' = IF Naming(i)' # {} THEN folded'[Last(Naming(i)')].subject
                              ELSE IF folded'[1].topic # Blank THEN folded'[1].topic ELSE Default
  BY DEF FiledSubject
<1>6. CASE update.subject # Blank
  <2>1. n + 1 \in Naming(n + 1)' /\ \A k \in Naming(n + 1)' : k \in Nat /\ k <= n + 1
    BY <1>1, <1>2, <1>6 DEF Naming
  <2>2. Last(Naming(n + 1)') = n + 1
    BY <1>1, <2>1
  <2> HIDE DEF Last
  <2>3. FiledSubject(n + 1)' = folded'[n + 1].subject
    BY <1>5, <2>1, <2>2
  <2>4. QED
    BY <1>2, <1>4, <1>6, <2>3
<1>7. CASE update.subject = Blank /\ n = 0
  <2>1. Naming(n + 1)' = {}
    <3>1. 1 .. (n + 1) = {1} /\ folded'[1].subject = Blank
      BY <1>1, <1>2, <1>7
    <3>2. QED
      BY <3>1 DEF Naming
  <2> HIDE DEF Last
  <2>2. FiledSubject(n + 1)' = IF update.topic # Blank THEN update.topic ELSE Default
    <3>1. folded'[1] = update
      BY <1>2, <1>7
    <3>2. QED
      BY <1>5, <2>1, <3>1
  <2>3. spine.active_subject = Blank
    <3>1. folded = << >>
      BY <1>1, <1>7, Empty
    <3>2. QED
      BY <3>1 DEF SubjectInv
  <2>4. QED
    BY <1>4, <1>7, <2>2, <2>3
<1>8. CASE update.subject = Blank /\ n # 0
  <2>1. n \in 1 .. n
    BY <1>1, <1>8
  <2>2. spine.active_subject = FiledSubject(n) /\ FiledSubject(n) \in Names
    BY <1>8, <2>1 DEF SubjectInv, TypedReducer
  <2>3. spine.active_subject # Blank
    BY <2>2, NamesAssumption
  <2>4. Naming(n + 1)' = Naming(n)'
    <3>1. 1 .. (n + 1) = (1 .. n) \cup {n + 1} /\ folded'[n + 1].subject = Blank
      BY <1>1, <1>2, <1>8
    <3>2. QED
      BY <3>1 DEF Naming
  <2> HIDE DEF Last
  <2>5. FiledSubject(n + 1)' = FiledSubject(n)'
    BY <1>5, <2>4
  <2>6. QED
    BY <1>2, <1>4, <1>8, <2>1, <2>2, <2>3, <2>5
<1>9. QED
  BY <1>6, <1>7, <1>8

\* The step that folds in, as turn n + 1, an update the recent window does not have,
\* under subject, whose frame is at on the stack.
NewTurn(update, subject, at, n) ==
    /\ update \in TurnUpdate
    /\ ~InRecentWindow(spine, update.turn_id)
    /\ Fold(update)
    /\ subject = SubjectOf(spine, update)
    /\ at = Position(Stack, CaseFold[subject])
    /\ n = Len(folded)

(* What a new turn does to the history. *)
LEMMA NewHistory ==
  ASSUME ReducerInv, NEW update, NEW subject, NEW at, NEW n, NewTurn(update, subject, at, n)
  PROVE  /\ n \in Nat /\ n = Len(folded) /\ Len(folded)' = n + 1 /\ folded' \in Seq(TurnUpdate)
         /\ spine.current_turn = n
         /\ subject \in Names
         /\ folded'[n + 1] = update
         /\ FiledSubject(n + 1)' = subject /\ FiledKey(n + 1)' = CaseFold[subject]
         /\ \A i \in 1 .. n : /\ folded'[i] = folded[i]
                              /\ FiledSubject(i)' = FiledSubject(i)
                              /\ FiledKey(i)' = FiledKey(i)
<1>1. /\ TypedReducer /\ SubjectInv /\ spine.current_turn = Len(folded)
  BY DEF ReducerInv, HistoryInv, RecentIsTheEnd
<1>2. /\ update \in TurnUpdate /\ folded' = Append(folded, update) /\ n = Len(folded)
      /\ subject = SubjectOf(spine, update)
  BY DEF NewTurn, Fold
<1>3. subject \in Names /\ FiledSubject(n + 1)' = subject
  BY <1>1, <1>2, FiledNext
<1>4. /\ n \in Nat /\ Len(folded)' = n + 1 /\ folded' \in Seq(TurnUpdate)
      /\ folded'[n + 1] = update
      /\ \A i \in 1 .. n : folded'[i] = folded[i] /\ FiledSubject(i)' = FiledSubject(i)
  BY <1>1, <1>2, HistoryGrows
<1>5. ASSUME NEW i PROVE FiledKey(i)' = CaseFold[FiledSubject(i)'] /\ FiledKey(i) = CaseFold[FiledSubject(i)]
  BY DEF FiledKey
<1>6. QED
  BY <1>1, <1>2, <1>3, <1>4, <1>5

\* Where the i-th frame of the new stack was on the old one, for i > 1.
Was(at, i) == IF at = 0 \/ i <= at THEN i - 1 ELSE i

(* What it does to the spine, the stack aside: as if the turn had named its subject. *)
LEMMA NewSpine ==
  ASSUME ReducerInv, NEW update, NEW subject, NEW at, NEW n, NewTurn(update, subject, at, n)
  PROVE  LET named == [update EXCEPT !.subject = SubjectOf(spine, update)]
         IN  /\ spine \in DiscourseState(Nat) /\ Stack \in Seq(TopicFrame) /\ Len(Stack) \in Nat
             /\ named \in TurnUpdate /\ named.subject = subject
             /\ named.entities = update.entities /\ named.entities \in SUBSET Names
             /\ spine' \in DiscourseState(Nat) /\ WellFormed(spine')
             /\ spine' = Folded(spine, named)
             /\ spine'.current_turn = n + 1
             /\ spine'.active_subject = subject
             /\ spine'.recent_turns
                  = LastOf(Append(spine.recent_turns,
                                  [turn_id |-> update.turn_id, index |-> n + 1,
                                   subject |-> subject]), RecentLimit)
<1> DEFINE named == [update EXCEPT !.subject = SubjectOf(spine, update)]
<1>0. /\ TypedReducer /\ WellFormed(spine) /\ FramesInv
      /\ update \in TurnUpdate /\ ~InRecentWindow(spine, update.turn_id)
      /\ spine' = Reduce(spine, update)
      /\ subject = SubjectOf(spine, update) /\ at = Position(Stack, CaseFold[subject])
      /\ n = Len(folded) /\ subject \in Names /\ spine.current_turn = n
  BY NewHistory DEF ReducerInv, HistoryInv, NewTurn, Fold
<1>1. /\ spine \in DiscourseState(Nat) /\ Stack \in Seq(TopicFrame) /\ Len(Stack) \in Nat
      /\ spine.current_turn \in Nat
  BY <1>0 DEF TypedReducer, DiscourseState, Stack
<1>2. /\ named \in TurnUpdate /\ named.subject = subject /\ named.entities = update.entities
      /\ named.turn_id = update.turn_id /\ named.entities \in SUBSET Names
      /\ named.turn_id \in Nat
      /\ Reduce(spine, update) = Reduce(spine, named)
      /\ Folded(spine, update) = Folded(spine, named)
  <2>1. SubjectOf(spine, update) \in Names
    BY <1>0
  <2>2. /\ named \in TurnUpdate /\ named.subject = SubjectOf(spine, update)
        /\ named.entities = update.entities /\ named.turn_id = update.turn_id
        /\ Reduce(spine, update) = Reduce(spine, named)
        /\ Folded(spine, update) = Folded(spine, named)
    BY <1>0, <2>1, FoldedByName
  <2> HIDE DEF named
  <2>3. QED
    BY <1>0, <2>2 DEF TurnUpdate
<1>3. spine' \in DiscourseState(Nat) /\ WellFormed(spine')
  BY <1>0, <1>1, <1>2, ReduceTyped, ReduceWellFormed
<1>4. spine' = Folded(spine, update)
  BY <1>0 DEF Reduce
<1>5. /\ spine'.current_turn = n + 1
      /\ spine'.active_subject = subject
      /\ spine'.recent_turns
           = LastOf(Append(spine.recent_turns,
                           [turn_id |-> update.turn_id, index |-> n + 1,
                            subject |-> subject]), RecentLimit)
  BY <1>0, <1>4 DEF Folded
<1>6. spine' = Folded(spine, named)
  BY <1>2, <1>4
<1> HIDE DEF named
<1>7. QED
  BY <1>1, <1>2, <1>3, <1>5, <1>6 DEF named

(* What it does to the stack, field by field. *)
LEMMA NewFrames ==
  ASSUME ReducerInv, NEW update, NEW subject, NEW at, NEW n, NewTurn(update, subject, at, n)
  PROVE  /\ Len(Stack) \in Nat /\ Len(Stack) <= TopicLimit /\ TopicLimit \in Nat \ {0}
         /\ at \in 0 .. Len(Stack)
         /\ at # 0 => Stack[at].topic_id = CaseFold[subject]
         /\ at = 0 => ~OnStack(CaseFold[subject])
         /\ \A i \in 1 .. Len(Stack) : /\ Stack[i].last_turn \in 1 .. n
                                       /\ Stack[i].first_turn \in 1 .. Stack[i].last_turn
         /\ \A i, j \in 1 .. Len(Stack) : i < j => Stack[i].topic_id # Stack[j].topic_id
         /\ \A i, j \in 1 .. Len(Stack) : i < j => Stack[i].last_turn > Stack[j].last_turn
         /\ Len(Stack)' = IF at # 0 \/ Len(Stack) = TopicLimit THEN Len(Stack) ELSE Len(Stack) + 1
         /\ Stack'[1].topic_id = CaseFold[subject]
         /\ Stack'[1].name = subject
         /\ Stack'[1].last_turn = n + 1
         /\ Stack'[1].first_turn = IF at = 0 THEN n + 1 ELSE Stack[at].first_turn
         /\ Stack'[1].entities
              = update.entities \cup (IF at = 0 THEN {} ELSE Stack[at].entities)
         /\ \A i \in 2 .. Len(Stack)' :
               /\ Was(at, i) \in 1 .. Len(Stack) /\ Was(at, i) # at
               /\ Stack'[i].topic_id = Stack[Was(at, i)].topic_id
               /\ Stack'[i].name = Stack[Was(at, i)].name
               /\ Stack'[i].last_turn = Stack[Was(at, i)].last_turn
               /\ Stack'[i].first_turn = Stack[Was(at, i)].first_turn
               /\ Stack'[i].entities = Stack[Was(at, i)].entities
<1> DEFINE named == [update EXCEPT !.subject = SubjectOf(spine, update)]
           id == CaseFold[subject]
           rest == Retained(Stack, id)
           from(i) == IF at = 0 \/ i < at THEN i ELSE i + 1
           frame == ActiveFrame(spine, named, subject, spine.current_turn + 1)
<1>1. /\ WellFormed(spine) /\ FramesInv
      /\ subject \in Names /\ spine.current_turn = n /\ n \in Nat /\ n = Len(folded)
      /\ at = Position(Stack, id)
  BY NewHistory DEF ReducerInv, HistoryInv, NewTurn
<1>2. /\ spine \in DiscourseState(Nat) /\ Stack \in Seq(TopicFrame) /\ Len(Stack) \in Nat
      /\ named \in TurnUpdate /\ named.subject = subject
      /\ named.entities = update.entities /\ named.entities \in SUBSET Names
      /\ spine' = Folded(spine, named)
  BY NewSpine
<1>5. Stack' = Folded(spine, named).topic_stack
  BY <1>2 DEF Stack
<1> HIDE DEF named
<1>6. /\ frame \in TopicFrame
      /\ Stack' \in Seq(TopicFrame)
      /\ Len(Stack') = IF Len(rest) + 1 <= TopicLimit THEN Len(rest) + 1 ELSE TopicLimit
      /\ Stack'[1] = frame
      /\ \A i \in 2 .. Len(Stack') : i - 1 \in 1 .. Len(rest) /\ Stack'[i] = rest[i - 1]
  <2> DEFINE f == ActiveFrame(spine, named, named.subject, spine.current_turn + 1)
             r == Retained(spine.topic_stack, CaseFold[named.subject])
             stack == Folded(spine, named).topic_stack
  <2>1. /\ f \in TopicFrame
        /\ stack \in Seq(TopicFrame)
        /\ Len(stack) = IF Len(r) + 1 <= TopicLimit THEN Len(r) + 1 ELSE TopicLimit
        /\ stack[1] = f
        /\ \A i \in 2 .. Len(stack) : i - 1 \in 1 .. Len(r) /\ stack[i] = r[i - 1]
    <3>1. spine \in DiscourseState(Nat) /\ named.subject \in Names /\ named.entities \in SUBSET Names
      BY <1>1, <1>2
    <3>2. QED
      BY <3>1, FoldedStack
  <2>2. f = frame /\ r = rest /\ Stack' = stack
    BY <1>2, <1>5 DEF Stack
  <2> HIDE DEF f, r, stack, frame, rest
  <2>3. QED
    BY <2>1, <2>2
<1>7. /\ at \in 0 .. Len(Stack)
      /\ at # 0 => Stack[at].topic_id = id
      /\ at = 0 => \A i \in 1 .. Len(Stack) : Stack[i].topic_id # id
  BY <1>1, <1>2, PositionFacts
<1>8. /\ Len(rest) = IF at = 0 THEN Len(Stack) ELSE Len(Stack) - 1
      /\ \A i \in 1 .. Len(rest) :
            /\ from(i) \in 1 .. Len(Stack) /\ from(i) # at
            /\ rest[i] = [Stack[from(i)] EXCEPT !.status = "background"]
  <2> DEFINE pos == Position(Stack, id)
             was(i) == IF pos = 0 \/ i < pos THEN i ELSE i + 1
  <2>1. /\ Len(rest) = IF pos = 0 THEN Len(Stack) ELSE Len(Stack) - 1
        /\ \A i \in 1 .. Len(rest) :
              /\ was(i) \in 1 .. Len(Stack)
              /\ was(i) # pos
              /\ rest[i] = [Stack[was(i)] EXCEPT !.status = "background"]
    <3>1. Stack \in Seq(TopicFrame)
      BY <1>2
    <3>2. QED
      BY <3>1, RetainedFacts
  <2>2. pos = at
    BY <1>1
  <2> HIDE DEF rest, pos
  <2>3. \A i \in 1 .. Len(rest) : was(i) = from(i)
    BY <2>2
  <2> HIDE DEF was, from
  <2>4. QED
    BY <2>1, <2>2, <2>3
<1> HIDE DEF rest
<1>9. Len(Stack) <= TopicLimit /\ TopicLimit \in Nat \ {0}
  BY <1>1, LimitsAssumption DEF WellFormed, Stack
<1>10. Len(Stack)' = IF at # 0 \/ Len(Stack) = TopicLimit THEN Len(Stack) ELSE Len(Stack) + 1
  BY <1>2, <1>6, <1>7, <1>8, <1>9
<1>11. ASSUME NEW i \in 2 .. Len(Stack')
       PROVE  /\ Was(at, i) \in 1 .. Len(Stack) /\ Was(at, i) # at
              /\ Stack'[i] = [Stack[Was(at, i)] EXCEPT !.status = "background"]
  <2>1. i \in Nat /\ i - 1 \in 1 .. Len(rest) /\ Stack'[i] = rest[i - 1]
    BY <1>6
  <2>2. Was(at, i) = from(i - 1)
    BY <1>2, <1>7, <2>1 DEF Was
  <2>3. QED
    BY <1>8, <2>1, <2>2
<1>12. frame = ActiveFrame(spine, update, subject, spine.current_turn + 1)
  BY <1>2 DEF ActiveFrame
<1>14. at = 0 => ~OnStack(id)
  BY <1>7 DEF OnStack
<1>15. /\ Len(Stack') = Len(Stack)' /\ Stack'[1] = frame
  BY <1>6
<1>16. Stack'[1] = ActiveFrame(spine, update, subject, spine.current_turn + 1)
  BY <1>12, <1>15
<1>17. ASSUME NEW i \in 2 .. Len(Stack')
       PROVE  /\ Stack'[i].topic_id = Stack[Was(at, i)].topic_id
              /\ Stack'[i].name = Stack[Was(at, i)].name
              /\ Stack'[i].last_turn = Stack[Was(at, i)].last_turn
              /\ Stack'[i].first_turn = Stack[Was(at, i)].first_turn
              /\ Stack'[i].entities = Stack[Was(at, i)].entities
  <2>1. Stack[Was(at, i)] \in TopicFrame
    <3>1. Was(at, i) \in 1 .. Len(Stack)
      BY <1>11
    <3>2. QED
      BY <1>2, <3>1
  <2>2. Stack'[i] = [Stack[Was(at, i)] EXCEPT !.status = "background"]
    BY <1>11
  <2>3. QED
    BY <2>1, <2>2 DEF TopicFrame
<1> HIDE DEF frame
<1>18. /\ Stack'[1].topic_id = CaseFold[subject]
       /\ Stack'[1].name = subject
       /\ Stack'[1].last_turn = n + 1
       /\ Stack'[1].first_turn = IF at = 0 THEN n + 1 ELSE Stack[at].first_turn
       /\ Stack'[1].entities
            = update.entities \cup (IF at = 0 THEN {} ELSE Stack[at].entities)
  BY <1>1, <1>16 DEF ActiveFrame, Stack
<1>19. \A i \in 1 .. Len(Stack) : Stack[i].last_turn \in 1 .. n /\ Stack[i].first_turn \in 1 .. Stack[i].last_turn
  <2>1. \A i \in 1 .. Len(Stack) : Stack[i] \in TopicFrame
    BY <1>2
  <2>2. QED
    BY <1>1, <2>1 DEF FramesInv, TopicFrame
<1>20. \A i, j \in 1 .. Len(Stack) : i < j => /\ Stack[i].topic_id # Stack[j].topic_id
                                              /\ Stack[i].last_turn > Stack[j].last_turn
  BY <1>1, Zenon DEF WellFormed, Stack
<1>21. /\ \A i, j \in 1 .. Len(Stack) : i < j => Stack[i].topic_id # Stack[j].topic_id
       /\ \A i, j \in 1 .. Len(Stack) : i < j => Stack[i].last_turn > Stack[j].last_turn
  BY <1>20
<1>22. QED
  BY <1>2, <1>7, <1>9, <1>10, <1>11, <1>14, <1>15, <1>17, <1>18, <1>19, <1>21

(* The active subject is still the last one filed. *)
LEMMA SubjectKept ==
  ASSUME ReducerInv, NEW update, NEW subject, NEW at, NEW n, NewTurn(update, subject, at, n)
  PROVE  SubjectInv'
<1>1. /\ n \in Nat /\ Len(folded)' = n + 1 /\ folded' \in Seq(TurnUpdate)
      /\ FiledSubject(n + 1)' = subject
  BY NewHistory
<1>2. spine'.active_subject = subject
  BY NewSpine
<1>3. folded' # << >>
  BY <1>1
<1>4. FiledSubject(Len(folded))' = FiledSubject(n + 1)'
  BY <1>1
<1>5. QED
  BY <1>1, <1>2, <1>3, <1>4 DEF SubjectInv

(* The other frames on the stack are of other topics. *)
LEMMA OtherTopics ==
  ASSUME ReducerInv, NEW update, NEW subject, NEW at, NEW n, NewTurn(update, subject, at, n)
  PROVE  \A i \in 1 .. Len(Stack) : i # at => Stack[i].topic_id # CaseFold[subject]
<1>1. /\ at \in 0 .. Len(Stack) /\ Len(Stack) \in Nat
      /\ at # 0 => Stack[at].topic_id = CaseFold[subject]
      /\ at = 0 => ~OnStack(CaseFold[subject])
      /\ \A i, j \in 1 .. Len(Stack) : i < j => Stack[i].topic_id # Stack[j].topic_id
  <2>1. at \in 0 .. Len(Stack) /\ Len(Stack) \in Nat
    BY NewFrames, ZenonT(60)
  <2>2. /\ at # 0 => Stack[at].topic_id = CaseFold[subject]
        /\ at = 0 => ~OnStack(CaseFold[subject])
    BY NewFrames, ZenonT(60)
  <2>3. \A i, j \in 1 .. Len(Stack) : i < j => Stack[i].topic_id # Stack[j].topic_id
    BY NewFrames, ZenonT(60)
  <2>4. QED
    BY <2>1, <2>2, <2>3
<1>2. SUFFICES ASSUME NEW i \in 1 .. Len(Stack), i # at, Stack[i].topic_id = CaseFold[subject]
               PROVE  FALSE
  OBVIOUS
<1>3. CASE at = 0
  BY <1>1, <1>2, <1>3 DEF OnStack
<1>4. CASE at # 0
  <2>1. at \in 1 .. Len(Stack) /\ (i < at \/ at < i)
    BY <1>1, <1>2, <1>4
  <2>2. QED
    BY <1>1, <1>2, <1>4, <2>1
<1>5. QED
  BY <1>3, <1>4

(* Every frame is still about the last turn of its topic. *)
LEMMA FramesKept ==
  ASSUME ReducerInv, NEW update, NEW subject, NEW at, NEW n, NewTurn(update, subject, at, n)
  PROVE  FramesInv'
<1>1. /\ n \in Nat /\ n = Len(folded) /\ Len(folded)' = n + 1
      /\ FiledSubject(n + 1)' = subject /\ FiledKey(n + 1)' = CaseFold[subject]
      /\ \A k \in 1 .. n : FiledSubject(k)' = FiledSubject(k) /\ FiledKey(k)' = FiledKey(k)
  BY NewHistory
<1>2. FramesInv
  BY DEF ReducerInv, HistoryInv
<1>3. Len(Stack)' \in Nat
  BY NewFrames
<1>4. ASSUME NEW i \in 1 .. Len(Stack)'
      PROVE  /\ Stack'[i].last_turn \in 1 .. Len(folded)'
             /\ Stack'[i].first_turn \in 1 .. Stack'[i].last_turn
             /\ Stack'[i].name = FiledSubject(Stack[i].last_turn)'
             /\ \A k \in (Stack'[i].last_turn + 1) .. Len(folded)' :
                   FiledKey(k)' # Stack'[i].topic_id
  <2>1. CASE i = 1
    <3>1. /\ Stack'[1].name = subject /\ Stack'[1].last_turn = n + 1
          /\ Stack'[1].first_turn = IF at = 0 THEN n + 1 ELSE Stack[at].first_turn
          /\ at \in 0 .. Len(Stack) /\ Len(Stack) \in Nat
      BY NewFrames
    <3>2. FiledSubject(Stack[i].last_turn)' = FiledSubject(n + 1)'
      BY <2>1, <3>1
    <3>3. at # 0 => Stack[at].first_turn \in 1 .. n
      BY <1>1, <1>2, <3>1 DEF FramesInv
    <3>4. Stack'[1].first_turn \in 1 .. Stack'[1].last_turn
      BY <1>1, <3>1, <3>3
    <3>5. QED
      BY <1>1, <2>1, <3>1, <3>2, <3>4
  <2>2. CASE i # 1
    <3> DEFINE w == Was(at, i)
    <3>1. i \in 2 .. Len(Stack)'
      BY <1>3, <2>2
    <3>2. /\ w \in 1 .. Len(Stack) /\ w # at
          /\ Stack'[i].topic_id = Stack[w].topic_id
          /\ Stack'[i].name = Stack[w].name
          /\ Stack'[i].last_turn = Stack[w].last_turn
          /\ Stack'[i].first_turn = Stack[w].first_turn
      BY <3>1, NewFrames
    <3> HIDE DEF w
    <3>3. /\ Stack[w].last_turn \in 1 .. n
          /\ Stack[w].first_turn \in 1 .. Stack[w].last_turn
          /\ Stack[w].name = FiledSubject(Stack[w].last_turn)
          /\ \A k \in (Stack[w].last_turn + 1) .. n : FiledKey(k) # Stack[w].topic_id
      BY <1>1, <1>2, <3>2 DEF FramesInv
    <3>4. Stack[w].topic_id # CaseFold[subject]
      BY <3>2, OtherTopics
    <3>5. FiledSubject(Stack[i].last_turn)' = FiledSubject(Stack[w].last_turn)
      <4> DEFINE l == Stack[w].last_turn
      <4>1. PICK m \in 1 .. n : m = l
        BY <3>3
      <4>2. FiledSubject(Stack[i].last_turn)' = FiledSubject(m)'
        BY <3>2, <4>1
      <4>3. QED
        BY <1>1, <4>1, <4>2
    <3>6. ASSUME NEW k \in (Stack'[i].last_turn + 1) .. Len(folded)'
          PROVE  FiledKey(k)' # Stack'[i].topic_id
      <4>1. k \in (Stack[w].last_turn + 1) .. n \/ k = n + 1
        BY <1>1, <3>2, <3>3
      <4>2. k \in (Stack[w].last_turn + 1) .. n => k \in 1 .. n
        BY <1>1, <3>3
      <4>3. QED
        BY <1>1, <3>2, <3>3, <3>4, <4>1, <4>2
    <3>7. QED
      BY <1>1, <3>2, <3>3, <3>5, <3>6
  <2>3. QED
    BY <2>1, <2>2
<1>5. QED
  BY <1>4 DEF FramesInv

(* What fell off the stack, now or before, was discussed before all that is on it. *)
LEMMA MissingKept ==
  ASSUME ReducerInv, NEW update, NEW subject, NEW at, NEW n, NewTurn(update, subject, at, n)
  PROVE  MissingInv'
<1>1. /\ n \in Nat /\ n = Len(folded) /\ Len(folded)' = n + 1
      /\ FiledKey(n + 1)' = CaseFold[subject]
      /\ \A k \in 1 .. n : FiledKey(k)' = FiledKey(k)
  BY NewHistory
<1>2. MissingInv /\ FramesInv
  BY DEF ReducerInv, HistoryInv
<1>3. /\ Len(Stack) \in Nat /\ Len(Stack) <= TopicLimit /\ TopicLimit \in Nat \ {0}
      /\ at \in 0 .. Len(Stack)
      /\ \A i \in 1 .. Len(Stack) : Stack[i].last_turn \in 1 .. n
      /\ \A i, j \in 1 .. Len(Stack) : i < j => Stack[i].last_turn > Stack[j].last_turn
      /\ Len(Stack)' = IF at # 0 \/ Len(Stack) = TopicLimit THEN Len(Stack) ELSE Len(Stack) + 1
      /\ at # 0 => Stack[at].topic_id = CaseFold[subject]
      /\ Stack'[1].topic_id = CaseFold[subject]
      /\ Stack'[1].last_turn = n + 1
  BY NewFrames
<1>4. \A i \in 2 .. Len(Stack)' :
         /\ Was(at, i) \in 1 .. Len(Stack)
         /\ Stack'[i].topic_id = Stack[Was(at, i)].topic_id
         /\ Stack'[i].last_turn = Stack[Was(at, i)].last_turn
  BY NewFrames
<1>5. Len(Stack)' \in Nat \ {0}
  BY <1>3
<1>6. ASSUME NEW k \in 1 .. Len(folded)', ~OnStack(FiledKey(k))'
      PROVE  /\ Len(Stack)' = TopicLimit
             /\ \A i \in 1 .. Len(Stack)' : k < Stack'[i].last_turn
  <2>1. \A i \in 1 .. Len(Stack)' : Stack'[i].topic_id # FiledKey(k)'
    BY <1>6 DEF OnStack
  <2>2. k # n + 1
    BY <1>1, <1>3, <1>5, <2>1
  <2>3. k \in 1 .. n /\ FiledKey(k)' = FiledKey(k) /\ FiledKey(k) # CaseFold[subject]
    <3>1. k \in 1 .. n
      BY <1>1, <2>2
    <3>2. FiledKey(k)' # CaseFold[subject]
      BY <1>3, <1>5, <2>1
    <3>3. QED
      BY <1>1, <3>1, <3>2
  <2>4. CASE OnStack(FiledKey(k))
    <3>1. PICK p \in 1 .. Len(Stack) : Stack[p].topic_id = FiledKey(k)
      BY <2>4 DEF OnStack
    <3>2. p # at
      BY <1>3, <2>3, <3>1
    <3>3. k <= Stack[p].last_turn
      <4>1. /\ Stack[p].last_turn \in 1 .. n
            /\ \A j \in (Stack[p].last_turn + 1) .. n : FiledKey(j) # Stack[p].topic_id
        BY <1>1, <1>2 DEF FramesInv
      <4>2. QED
        BY <1>1, <2>3, <3>1, <4>1
    <3> DEFINE q == IF at = 0 \/ p < at THEN p + 1 ELSE p
    <3>4. q \in Nat /\ q >= 2 /\ Was(at, q) = p
      BY <1>3, <3>2 DEF Was
    <3>5. ~(q <= Len(Stack)')
      <4>1. SUFFICES ASSUME q <= Len(Stack)' PROVE FALSE
        OBVIOUS
      <4> HIDE DEF q
      <4>2. q \in 2 .. Len(Stack)' /\ q \in 1 .. Len(Stack)'
        BY <1>5, <3>4, <4>1
      <4>3. Stack'[q].topic_id = FiledKey(k)
        BY <1>4, <3>1, <3>4, <4>2
      <4>4. QED
        BY <2>1, <2>3, <4>2, <4>3
    <3>6. Len(Stack)' = TopicLimit
      BY <1>3, <3>2, <3>5
    <3>7. ASSUME NEW i \in 2 .. Len(Stack)' PROVE k < Stack'[i].last_turn
      <4>1. Was(at, i) < p
        BY <1>3, <3>2, <3>5 DEF Was
      <4>2. Was(at, i) \in 1 .. Len(Stack) /\ Stack'[i].last_turn = Stack[Was(at, i)].last_turn
        BY <1>4
      <4>3. Stack[Was(at, i)].last_turn > Stack[p].last_turn
        BY <1>3, <4>1, <4>2
      <4>4. /\ Stack[Was(at, i)].last_turn \in Nat /\ Stack[p].last_turn \in Nat
        <5>1. Stack[Was(at, i)].last_turn \in 1 .. n
          BY <1>3, <4>2
        <5>2. Stack[p].last_turn \in 1 .. n
          BY <1>3
        <5>3. QED
          BY <5>1, <5>2
      <4>5. QED
        BY <2>3, <3>3, <4>2, <4>3, <4>4, SMTT(30)
    <3>8. QED
      BY <1>1, <1>3, <1>5, <2>3, <3>6, <3>7
  <2>5. CASE ~OnStack(FiledKey(k))
    <3>1. /\ Len(Stack) = TopicLimit
          /\ \A i \in 1 .. Len(Stack) : k < Stack[i].last_turn
      BY <1>1, <1>2, <2>3, <2>5 DEF MissingInv
    <3>2. Len(Stack)' = TopicLimit
      BY <1>3, <3>1
    <3>3. ASSUME NEW i \in 2 .. Len(Stack)' PROVE k < Stack'[i].last_turn
      BY <1>4, <3>1
    <3>4. QED
      BY <1>1, <1>3, <1>5, <2>3, <3>2, <3>3
  <2>6. QED
    BY <2>4, <2>5
<1>7. QED
  BY <1>6 DEF MissingInv

\* The turns filed under a topic, from one turn to another.
FiledUnder(key, first, last) == {j \in first .. last : FiledKey(j) = key}

(* A frame still has the entities of its turns, whichever way it got where it is. *)
LEMMA EntitiesKept ==
  ASSUME ReducerInv, NEW update, NEW subject, NEW at, NEW n, NewTurn(update, subject, at, n)
  PROVE  EntitiesOfTurns'
<1> DEFINE id == CaseFold[subject]
           Of(T) == {folded[j].entities : j \in T}
           OfNow(T) == {folded'[j].entities : j \in T}
           Now(key, first, last) == {j \in first .. last : FiledKey(j)' = key}
<1>1. /\ n \in Nat /\ n = Len(folded) /\ folded'[n + 1] = update
      /\ FiledKey(n + 1)' = id
  BY NewHistory
<1>2. /\ Len(Stack) \in Nat /\ at \in 0 .. Len(Stack)
      /\ at # 0 => Stack[at].topic_id = id
      /\ \A i \in 1 .. Len(Stack) : /\ Stack[i].last_turn \in 1 .. n
                                    /\ Stack[i].first_turn \in 1 .. Stack[i].last_turn
      /\ Len(Stack)' \in Nat
      /\ Stack'[1].topic_id = id
      /\ Stack'[1].last_turn = n + 1
      /\ Stack'[1].first_turn = IF at = 0 THEN n + 1 ELSE Stack[at].first_turn
      /\ Stack'[1].entities = update.entities \cup (IF at = 0 THEN {} ELSE Stack[at].entities)
  BY NewFrames
<1>3. Stack \in Seq(TopicFrame) /\ spine' \in DiscourseState(Nat)
  BY NewSpine
<1>4. DOMAIN Stack = 1 .. Len(Stack) /\ DOMAIN Stack' = 1 .. Len(Stack)'
  <2>1. Stack' \in Seq(TopicFrame)
    BY <1>3 DEF DiscourseState, Stack
  <2>2. QED
    BY <1>3, <2>1
<1>5. \A i \in 1 .. Len(Stack) :
         LET T == FiledUnder(Stack[i].topic_id, Stack[i].first_turn, Stack[i].last_turn)
         IN  Stack[i].first_turn \in T /\ Stack[i].entities = UNION Of(T)
  BY <1>4 DEF ReducerInv, HistoryInv, EntitiesOfTurns, FiledUnder
\* A turn that is filed later changes nothing of what was filed before.
<1>6. ASSUME NEW key, NEW first \in Nat, NEW last \in Nat, 1 <= first, last <= n
      PROVE  /\ Now(key, first, last) = FiledUnder(key, first, last)
             /\ OfNow(FiledUnder(key, first, last)) = Of(FiledUnder(key, first, last))
  <2>1. \A j \in 1 .. n : folded'[j] = folded[j] /\ FiledKey(j)' = FiledKey(j)
    BY NewHistory
  <2>2. \A j \in first .. last : j \in 1 .. n
    BY <1>1, <1>6
  <2>3. \A j \in first .. last : FiledKey(j)' = FiledKey(j) /\ folded'[j] = folded[j]
    BY <2>1, <2>2
  <2>4. Now(key, first, last) = FiledUnder(key, first, last)
    BY <2>3, Zenon DEF FiledUnder
  <2>5. \A j \in FiledUnder(key, first, last) : folded'[j] = folded[j]
    BY <2>3 DEF FiledUnder
  <2>6. QED
    BY <2>4, <2>5
<1>7. ASSUME NEW i \in 1 .. Len(Stack)'
      PROVE  LET T == Now(Stack'[i].topic_id, Stack'[i].first_turn, Stack'[i].last_turn)
             IN  Stack'[i].first_turn \in T /\ Stack'[i].entities = UNION OfNow(T)
  <2>1. CASE i = 1 /\ at = 0
    <3>1. Now(id, n + 1, n + 1) = {n + 1}
      BY <1>1
    <3>2. OfNow({n + 1}) = {update.entities}
      BY <1>1
    <3>3. UNION {update.entities} = update.entities
      OBVIOUS
    <3> HIDE DEF OfNow, Now
    <3>4. QED
      BY <1>2, <2>1, <3>1, <3>2, <3>3
  <2>2. CASE i = 1 /\ at # 0
    <3>1. PICK first \in Nat, last \in Nat : first = Stack[at].first_turn /\ last = Stack[at].last_turn
      BY <1>2, <2>2
    <3>2. last \in 1 .. n /\ first \in 1 .. last
      BY <1>2, <2>2, <3>1
    <3> DEFINE T == FiledUnder(id, first, last)
    <3>3. first \in T /\ Stack[at].entities = UNION Of(T)
      BY <1>2, <1>5, <2>2, <3>1
    <3>4. Now(id, first, last) = T /\ OfNow(T) = Of(T)
      <4>1. 1 <= first /\ last <= n
        BY <1>1, <3>2
      <4> HIDE DEF Now, Of, OfNow
      <4>2. QED
        BY <1>6, <4>1
    <3>5. \A j \in (last + 1) .. n : FiledKey(j)' # id
      <4>1. \A j \in (last + 1) .. n : FiledKey(j) # id
        <5>1. at \in 1 .. Len(Stack) /\ Stack[at].topic_id = id
          BY <1>2, <2>2
        <5>2. FramesInv
          BY DEF ReducerInv, HistoryInv
        <5>3. \A k \in (Stack[at].last_turn + 1) .. Len(folded) : FiledKey(k) # Stack[at].topic_id
          BY <5>1, <5>2 DEF FramesInv
        <5>4. QED
          BY <1>1, <3>1, <5>1, <5>3
      <4>2. \A j \in 1 .. n : FiledKey(j)' = FiledKey(j)
        BY NewHistory
      <4>3. QED
        BY <3>2, <4>1, <4>2
    <3>6. Now(id, first, n + 1) = T \cup {n + 1}
      <4>1. \A j : j \in first .. (n + 1) <=> j \in first .. last \/ j \in (last + 1) .. n \/ j = n + 1
        BY <1>1, <3>2
      <4>2. \A j : j \in Now(id, first, n + 1) <=> j \in Now(id, first, last) \/ j = n + 1
        BY <1>1, <3>5, <4>1
      <4> HIDE DEF T, Now
      <4>3. QED
        BY <3>4, <4>2
    <3>7. UNION OfNow(T \cup {n + 1}) = update.entities \cup UNION Of(T)
      <4>1. OfNow(T \cup {n + 1}) = OfNow(T) \cup {update.entities}
        BY <1>1
      <4>2. \A S, e : UNION (S \cup {e}) = e \cup UNION S
        OBVIOUS
      <4> HIDE DEF T, OfNow, Of
      <4>3. QED
        BY <3>4, <4>1, <4>2
    <3> HIDE DEF T, OfNow, Of, Now
    <3>8. /\ Stack'[i].topic_id = id /\ Stack'[i].first_turn = first /\ Stack'[i].last_turn = n + 1
          /\ Stack'[i].entities = update.entities \cup UNION Of(T)
      BY <1>2, <2>2, <3>1, <3>3
    <3>9. QED
      BY <3>3, <3>6, <3>7, <3>8
  <2>3. CASE i # 1
    <3> DEFINE w == Was(at, i)
    <3>1. /\ w \in 1 .. Len(Stack)
          /\ Stack'[i].topic_id = Stack[w].topic_id
          /\ Stack'[i].last_turn = Stack[w].last_turn
          /\ Stack'[i].first_turn = Stack[w].first_turn
          /\ Stack'[i].entities = Stack[w].entities
      <4>1. i \in 2 .. Len(Stack)'
        BY <1>2, <2>3
      <4>2. QED
        BY <4>1, NewFrames
    <3> HIDE DEF w
    <3>2. PICK first \in Nat, last \in Nat, key \in {Stack[w].topic_id} :
             first = Stack[w].first_turn /\ last = Stack[w].last_turn
      BY <1>2, <3>1
    <3>3. 1 <= first /\ last <= n
      BY <1>1, <1>2, <3>1, <3>2
    <3> DEFINE T == FiledUnder(key, first, last)
    <3>4. first \in T /\ Stack[w].entities = UNION Of(T)
      BY <1>5, <3>1, <3>2
    <3>5. Now(key, first, last) = T /\ OfNow(T) = Of(T)
      <4> HIDE DEF Now, Of, OfNow
      <4>1. QED
        BY <1>6, <3>3
    <3> HIDE DEF T, OfNow, Of, Now
    <3>6. QED
      BY <3>1, <3>2, <3>4, <3>5
  <2>4. QED
    BY <2>1, <2>2, <2>3
<1>8. QED
  BY <1>4, <1>7, Zenon DEF EntitiesOfTurns

\* The topics of the conversation, those discussed since one of them was, and those
\* of the first m frames.
Keys == {FiledKey(i) : i \in DOMAIN folded}
Newer(key) == {k \in Keys : LastTurnOf(k) > LastTurnOf(key)}
TopTopics(m) == {Stack[j].topic_id : j \in 1 .. m}

(* The last turn of a topic is one of its turns, and none is later. *)
LEMMA LastTurnFacts ==
  ASSUME ReducerInv, NEW key \in Keys
  PROVE  /\ LastTurnOf(key) \in 1 .. Len(folded)
         /\ FiledKey(LastTurnOf(key)) = key
         /\ \A j \in 1 .. Len(folded) : FiledKey(j) = key => j <= LastTurnOf(key)
<1> DEFINE n == Len(folded)
           S == {i \in 1 .. n : FiledKey(i) = key}
<1>1. n \in Nat /\ DOMAIN folded = 1 .. n
  BY DEF ReducerInv, TypedReducer
<1>2. S \in SUBSET (1 .. n) /\ S # {}
  BY <1>1 DEF Keys
<1>3. \E m \in S : \A k \in S : k <= m
  BY <1>1, <1>2, GreatestExists
<1>4. \E i \in DOMAIN folded : FiledKey(i) = key /\ \A j \in DOMAIN folded : FiledKey(j) = key => j <= i
  BY <1>1, <1>3
<1> DEFINE l == CHOOSE i \in DOMAIN folded : /\ FiledKey(i) = key
                                            /\ \A j \in DOMAIN folded : FiledKey(j) = key => j <= i
<1>5. /\ l \in DOMAIN folded /\ FiledKey(l) = key
      /\ \A j \in DOMAIN folded : FiledKey(j) = key => j <= l
  BY <1>4, Zenon
<1>6. LastTurnOf(key) = l
  BY Zenon DEF LastTurnOf
<1> HIDE DEF l
<1>7. QED
  BY <1>1, <1>5, <1>6

(* A frame of the stack knows the last turn of its topic. *)
LEMMA FrameFacts ==
  ASSUME ReducerInv, NEW i \in 1 .. Len(Stack)
  PROVE  /\ Stack[i].topic_id \in Keys
         /\ Stack[i].last_turn = LastTurnOf(Stack[i].topic_id)
         /\ Stack[i].last_turn \in 1 .. Len(folded)
         /\ Stack[i].name = FiledSubject(Stack[i].last_turn)
<1> DEFINE n == Len(folded)
           key == Stack[i].topic_id
<1>1. n \in Nat /\ DOMAIN folded = 1 .. n
  BY DEF ReducerInv, TypedReducer
<1>2. /\ Stack[i].last_turn \in 1 .. n
      /\ Stack[i].name = FiledSubject(Stack[i].last_turn)
      /\ \A k \in (Stack[i].last_turn + 1) .. n : FiledKey(k) # key
  BY DEF ReducerInv, HistoryInv, FramesInv
<1>3. key = CaseFold[Stack[i].name]
  <2>1. \A j \in 1 .. Len(Stack) : /\ Stack[j].status = "active" <=> j = 1
                                   /\ Stack[j].topic_id = CaseFold[Stack[j].name]
                                   /\ Stack[j].first_turn <= Stack[j].last_turn
    BY DEF ReducerInv, WellFormed, Stack
  <2>2. QED
    BY <2>1
<1>4. FiledKey(Stack[i].last_turn) = key
  BY <1>2, <1>3 DEF FiledKey
<1>5. key \in Keys
  BY <1>1, <1>2, <1>4 DEF Keys
<1>6. /\ LastTurnOf(key) \in 1 .. n
      /\ FiledKey(LastTurnOf(key)) = key
      /\ Stack[i].last_turn <= LastTurnOf(key)
  BY <1>2, <1>4, <1>5, LastTurnFacts
<1>7. LastTurnOf(key) = Stack[i].last_turn
  BY <1>1, <1>2, <1>6
<1>8. QED
  BY <1>2, <1>5, <1>7

(* The topics of the first m frames are m topics. *)
LEMMA TopCount ==
  ASSUME ReducerInv, NEW m \in Nat, m <= Len(Stack)
  PROVE  IsFiniteSet(TopTopics(m)) /\ Cardinality(TopTopics(m)) = m
<1> DEFINE f == [j \in 1 .. m |-> Stack[j].topic_id]
<1>1. \A i, j \in 1 .. Len(Stack) : i < j => Stack[i].topic_id # Stack[j].topic_id
  <2>1. \A i, j \in 1 .. Len(Stack) : i < j => /\ Stack[i].topic_id # Stack[j].topic_id
                                               /\ Stack[i].last_turn > Stack[j].last_turn
    BY Zenon DEF ReducerInv, WellFormed, Stack
  <2>2. QED
    BY <2>1
<1>2. Len(Stack) \in Nat
  BY DEF ReducerInv, TypedReducer, DiscourseState, Stack
<1>3. f \in Surjection(1 .. m, TopTopics(m))
  BY DEF Surjection, TopTopics
<1>4. \A i, j \in 1 .. m : f[i] = f[j] => i = j
  <2>1. SUFFICES ASSUME NEW i \in 1 .. m, NEW j \in 1 .. m, f[i] = f[j], i # j PROVE FALSE
    OBVIOUS
  <2>2. /\ i \in 1 .. Len(Stack) /\ j \in 1 .. Len(Stack) /\ (i < j \/ j < i)
        /\ Stack[i].topic_id = Stack[j].topic_id
    BY <1>2, <2>1
  <2>3. QED
    BY <1>1, <2>2
<1> HIDE DEF f
<1>5. f \in Bijection(1 .. m, TopTopics(m))
  BY <1>3, <1>4 DEF Bijection, Injection, IsInjective, Surjection
<1>6. IsFiniteSet(1 .. m) /\ Cardinality(1 .. m) = m
  BY FS_Interval
<1>7. QED
  BY <1>5, <1>6, FS_Bijection DEF ExistsBijection

(* The topics discussed since the i-th one on the stack are those above it. *)
LEMMA NewerOnStack ==
  ASSUME ReducerInv, NEW i \in 1 .. Len(Stack)
  PROVE  Newer(Stack[i].topic_id) = TopTopics(i - 1)
<1>1. /\ Len(Stack) \in Nat /\ Len(folded) \in Nat /\ DOMAIN folded = 1 .. Len(folded)
  BY DEF ReducerInv, TypedReducer, DiscourseState, Stack
<1>2. \A a, b \in 1 .. Len(Stack) : a < b => Stack[a].last_turn > Stack[b].last_turn
  <2>1. \A a, b \in 1 .. Len(Stack) : a < b => /\ Stack[a].topic_id # Stack[b].topic_id
                                               /\ Stack[a].last_turn > Stack[b].last_turn
    BY Zenon DEF ReducerInv, WellFormed, Stack
  <2>2. QED
    BY <2>1
<1>3. \A j \in 1 .. Len(Stack) : /\ Stack[j].topic_id \in Keys
                                 /\ Stack[j].last_turn = LastTurnOf(Stack[j].topic_id)
                                 /\ Stack[j].last_turn \in 1 .. Len(folded)
  BY FrameFacts
<1>4. ASSUME NEW k \in Newer(Stack[i].topic_id) PROVE k \in TopTopics(i - 1)
  <2>1. k \in Keys /\ LastTurnOf(k) > Stack[i].last_turn
    BY <1>3 DEF Newer
  <2>2. LastTurnOf(k) \in 1 .. Len(folded) /\ FiledKey(LastTurnOf(k)) = k
    BY <2>1, LastTurnFacts
  <2>3. OnStack(k)
    <3>1. SUFFICES ASSUME ~OnStack(k) PROVE FALSE
      OBVIOUS
    <3>2. LastTurnOf(k) < Stack[i].last_turn
      BY <2>2, <3>1 DEF ReducerInv, HistoryInv, MissingInv
    <3>3. QED
      BY <1>3, <2>1, <2>2, <3>2
  <2>4. PICK j \in 1 .. Len(Stack) : Stack[j].topic_id = k
    BY <2>3 DEF OnStack
  <2>5. j < i
    BY <1>1, <1>2, <1>3, <2>1, <2>4
  <2>6. j \in 1 .. (i - 1)
    BY <1>1, <2>5
  <2>7. QED
    BY <2>4, <2>6 DEF TopTopics
<1>5. ASSUME NEW k \in TopTopics(i - 1) PROVE k \in Newer(Stack[i].topic_id)
  <2>1. PICK j \in 1 .. (i - 1) : k = Stack[j].topic_id
    BY <1>5 DEF TopTopics
  <2>2. j \in 1 .. Len(Stack) /\ j < i
    BY <1>1, <2>1
  <2>3. Stack[j].last_turn > Stack[i].last_turn
    BY <1>2, <2>2
  <2>4. QED
    BY <1>3, <2>1, <2>2, <2>3 DEF Newer
<1>6. QED
  BY <1>4, <1>5

(* A conversation of finitely many turns has finitely many topics. *)
LEMMA KeysFinite ==
  ASSUME ReducerInv
  PROVE  IsFiniteSet(Keys)
<1>1. Len(folded) \in Nat /\ DOMAIN folded = 1 .. Len(folded)
  BY DEF ReducerInv, TypedReducer
<1> DEFINE f == [i \in 1 .. Len(folded) |-> FiledKey(i)]
<1>2. f \in Surjection(1 .. Len(folded), Keys)
  BY <1>1 DEF Surjection, Keys
<1>3. IsFiniteSet(1 .. Len(folded))
  BY <1>1, FS_Interval
<1> HIDE DEF f
<1>4. QED
  BY <1>2, <1>3, FS_Surjection

(* A topic that is not on the stack was followed by as many as there is room for. *)
LEMMA NewerOffStack ==
  ASSUME ReducerInv, NEW key \in Keys, ~OnStack(key)
  PROVE  ~(Cardinality(Newer(key)) < TopicLimit)
<1>1. /\ Len(folded) \in Nat /\ DOMAIN folded = 1 .. Len(folded) /\ TopicLimit \in Nat
  BY LimitsAssumption DEF ReducerInv, TypedReducer
<1>2. LastTurnOf(key) \in 1 .. Len(folded) /\ FiledKey(LastTurnOf(key)) = key
  BY LastTurnFacts
<1>3. /\ Len(Stack) = TopicLimit
      /\ \A i \in 1 .. Len(Stack) : LastTurnOf(key) < Stack[i].last_turn
  BY <1>2 DEF ReducerInv, HistoryInv, MissingInv
<1>4. TopTopics(TopicLimit) \subseteq Newer(key)
  <2>1. \A j \in 1 .. Len(Stack) : /\ Stack[j].topic_id \in Keys
                                   /\ Stack[j].last_turn = LastTurnOf(Stack[j].topic_id)
                                   /\ Stack[j].last_turn \in 1 .. Len(folded)
    BY FrameFacts
  <2>2. \A j \in 1 .. Len(Stack) : Stack[j].topic_id \in Newer(key)
    BY <1>2, <1>3, <2>1 DEF Newer
  <2>3. QED
    BY <1>3, <2>2 DEF TopTopics
<1>5. IsFiniteSet(Newer(key))
  BY KeysFinite, FS_Subset DEF Newer
<1>6. Cardinality(TopTopics(TopicLimit)) = TopicLimit
  BY <1>1, <1>3, TopCount
<1>7. Cardinality(TopTopics(TopicLimit)) <= Cardinality(Newer(key)) /\ Cardinality(Newer(key)) \in Nat
  BY <1>4, <1>5, FS_Subset, FS_CardinalityType
<1>8. QED
  BY <1>1, <1>6, <1>7

(* A new turn changes nothing of when the earlier ones put their topics on the stack. *)
LEMMA CameUpKept ==
  ASSUME ReducerInv, NEW update, NEW subject, NEW at, NEW n, NewTurn(update, subject, at, n)
  PROVE  \A j \in 1 .. n : CameUp(j)' <=> CameUp(j)
<1>1. n \in Nat /\ \A i \in 1 .. n : FiledKey(i)' = FiledKey(i)
  BY NewHistory
<1>2. SUFFICES ASSUME NEW j \in 1 .. n PROVE CameUp(j)' <=> CameUp(j)
  OBVIOUS
<1>3. \A i \in 1 .. (j - 1) : i \in 1 .. n /\ \A k \in (i + 1) .. (j - 1) : k \in 1 .. n
  BY <1>1
<1>4. \A i \in 1 .. (j - 1) : Between(i, j)' = Between(i, j)
  <2>1. SUFFICES ASSUME NEW i \in 1 .. (j - 1) PROVE Between(i, j)' = Between(i, j)
    OBVIOUS
  <2>2. \A k \in (i + 1) .. (j - 1) : FiledKey(k)' = FiledKey(k)
    BY <1>1, <1>3
  <2>3. FiledKey(j)' = FiledKey(j)
    BY <1>1
  <2>4. QED
    BY <2>2, <2>3, Zenon DEF Between
<1>5. \A i \in 1 .. (j - 1) : FiledKey(i)' = FiledKey(i)
  BY <1>1, <1>3
<1>6. FiledKey(j)' = FiledKey(j)
  BY <1>1
<1>7. QED
  BY <1>4, <1>5, <1>6, Zenon DEF CameUp

(* A new turn puts its topic on the stack exactly when the reducer finds no frame of it. *)
LEMMA ComesUp ==
  ASSUME ReducerInv, NEW update, NEW subject, NEW at, NEW n, NewTurn(update, subject, at, n)
  PROVE  CameUp(n + 1)' <=> at = 0
<1> DEFINE id == CaseFold[subject]
           Later(i) == {FiledKey(k) : k \in (i + 1) .. n} \ {id}
<1>1. /\ n \in Nat /\ n = Len(folded) /\ DOMAIN folded = 1 .. n
      /\ FiledKey(n + 1)' = id
      /\ \A i \in 1 .. n : FiledKey(i)' = FiledKey(i)
  BY NewHistory DEF ReducerInv, TypedReducer
<1>2. /\ Len(Stack) \in Nat /\ Len(Stack) <= TopicLimit /\ TopicLimit \in Nat \ {0}
      /\ at \in 0 .. Len(Stack)
      /\ at # 0 => Stack[at].topic_id = id
      /\ at = 0 => ~OnStack(id)
  BY NewFrames
<1>3. \A i \in 1 .. n : Between(i, n + 1)' = Later(i)
  <2>1. SUFFICES ASSUME NEW i \in 1 .. n PROVE Between(i, n + 1)' = Later(i)
    OBVIOUS
  <2>2. (n + 1) - 1 = n /\ \A k \in (i + 1) .. n : k \in 1 .. n
    BY <1>1
  <2>3. \A k \in (i + 1) .. n : FiledKey(k)' = FiledKey(k)
    BY <1>1, <2>2
  <2>4. Between(i, n + 1)' = {FiledKey(k)' : k \in (i + 1) .. n} \ {id}
    BY <1>1, <2>2, Zenon DEF Between
  <2>5. QED
    BY <2>3, <2>4
<1>4. CameUp(n + 1)' <=> \A i \in 1 .. n : FiledKey(i) = id => Cardinality(Later(i)) >= TopicLimit
  <2>1. (n + 1) - 1 = n
    BY <1>1
  <2>2. CameUp(n + 1)' <=> \A i \in 1 .. n : FiledKey(i)' = FiledKey(n + 1)'
                                  => Cardinality(Between(i, n + 1)') >= TopicLimit
    BY <2>1, Zenon DEF CameUp
  <2> HIDE DEF Later
  <2>3. QED
    BY <1>1, <1>3, <2>2
<1>5. \A j \in 1 .. Len(Stack) : /\ Stack[j].topic_id \in Keys
                                 /\ Stack[j].last_turn = LastTurnOf(Stack[j].topic_id)
                                 /\ Stack[j].last_turn \in 1 .. n
                                 /\ FiledKey(Stack[j].last_turn) = Stack[j].topic_id
  BY <1>1, FrameFacts, LastTurnFacts
<1>6. \A i \in 1 .. n : Later(i) \subseteq Keys /\ IsFiniteSet(Later(i))
  <2>1. \A i \in 1 .. n : Later(i) \subseteq Keys
    BY <1>1 DEF Keys
  <2>2. QED
    BY <2>1, KeysFinite, FS_Subset
\* No frame: every frame of the full stack is of another topic, discussed since.
<1>7. CASE at = 0
  <2>1. SUFFICES ASSUME NEW i \in 1 .. n, FiledKey(i) = id
                 PROVE  Cardinality(Later(i)) >= TopicLimit
    BY <1>4, <1>7
  <2>2. /\ Len(Stack) = TopicLimit
        /\ \A j \in 1 .. Len(Stack) : i < Stack[j].last_turn
    BY <1>1, <1>2, <1>7, <2>1 DEF ReducerInv, HistoryInv, MissingInv
  <2>3. ASSUME NEW j \in 1 .. Len(Stack) PROVE Stack[j].topic_id \in Later(i)
    <3>1. Stack[j].topic_id # id
      BY <1>2, <1>7 DEF OnStack
    <3>2. Stack[j].last_turn \in (i + 1) .. n
      BY <1>1, <1>5, <2>2
    <3>3. QED
      BY <1>5, <3>1, <3>2
  <2>4. TopTopics(TopicLimit) \subseteq Later(i)
    BY <2>2, <2>3 DEF TopTopics
  <2>5. Cardinality(TopTopics(TopicLimit)) = TopicLimit
    BY <1>2, <2>2, TopCount
  <2> HIDE DEF Later
  <2>6. /\ Cardinality(TopTopics(TopicLimit)) <= Cardinality(Later(i))
        /\ Cardinality(Later(i)) \in Nat
    BY <1>6, <2>4, FS_Subset, FS_CardinalityType
  <2>7. QED
    BY <1>2, <2>5, <2>6
\* A frame: only the topics above it were discussed since its last turn.
<1>8. CASE at # 0
  <2> DEFINE i == Stack[at].last_turn
  <2>1. at \in 1 .. Len(Stack) /\ Stack[at].topic_id = id
    BY <1>2, <1>8
  <2>2. i \in 1 .. n /\ FiledKey(i) = id /\ i = LastTurnOf(id)
    BY <1>5, <2>1
  <2>3. Later(i) \subseteq Newer(id)
    <3>1. SUFFICES ASSUME NEW k \in (i + 1) .. n PROVE FiledKey(k) \in Newer(id)
      OBVIOUS
    <3>2. k \in 1 .. n /\ k > i
      BY <1>1, <2>2
    <3>3. FiledKey(k) \in Keys
      BY <1>1, <3>2 DEF Keys
    <3>4. LastTurnOf(FiledKey(k)) \in 1 .. n /\ k <= LastTurnOf(FiledKey(k))
      BY <1>1, <3>2, <3>3, LastTurnFacts
    <3>5. LastTurnOf(FiledKey(k)) > LastTurnOf(id)
      BY <1>1, <2>2, <3>2, <3>4
    <3>6. QED
      BY <3>3, <3>5 DEF Newer
  <2>4. Newer(id) = TopTopics(at - 1)
    BY <2>1, NewerOnStack
  <2>5. at - 1 \in Nat /\ at - 1 <= Len(Stack) /\ at - 1 < TopicLimit
    BY <1>2, <2>1
  <2>6. IsFiniteSet(Newer(id)) /\ Cardinality(Newer(id)) = at - 1
    BY <2>4, <2>5, TopCount
  <2> HIDE DEF i, Later
  <2>7. Cardinality(Later(i)) <= Cardinality(Newer(id)) /\ Cardinality(Later(i)) \in Nat
    BY <1>6, <2>2, <2>3, <2>6, FS_Subset, FS_CardinalityType
  <2>8. ~(Cardinality(Later(i)) >= TopicLimit)
    BY <1>2, <2>5, <2>6, <2>7
  <2>9. QED
    BY <1>4, <1>8, <2>2, <2>8
<1>9. QED
  BY <1>7, <1>8

\* The turns of a topic that put it on the stack.
Arrivals(key) == {j \in DOMAIN folded : FiledKey(j) = key /\ CameUp(j)}

(* A frame's first turn is still the last that put its topic on the stack. *)
LEMMA FirstTurnsKept ==
  ASSUME ReducerInv, NEW update, NEW subject, NEW at, NEW n, NewTurn(update, subject, at, n)
  PROVE  FirstTurns'
<1> DEFINE id == CaseFold[subject]
           Now(key) == {j \in DOMAIN folded' : FiledKey(j)' = key /\ CameUp(j)'}
           IsLast(j, S) == j \in S /\ \A k \in S : k <= j
<1>1. /\ n \in Nat /\ n = Len(folded) /\ DOMAIN folded = 1 .. n
      /\ FiledKey(n + 1)' = id
      /\ \A i \in 1 .. n : FiledKey(i)' = FiledKey(i)
  BY NewHistory DEF ReducerInv, TypedReducer
<1>2. DOMAIN folded' = 1 .. (n + 1) /\ \A j : j \in 1 .. (n + 1) <=> j \in 1 .. n \/ j = n + 1
  BY <1>1, NewHistory
<1>3. /\ Len(Stack) \in Nat /\ at \in 0 .. Len(Stack)
      /\ at # 0 => Stack[at].topic_id = id
      /\ Len(Stack)' \in Nat
      /\ Stack'[1].topic_id = id
      /\ Stack'[1].first_turn = IF at = 0 THEN n + 1 ELSE Stack[at].first_turn
  BY NewFrames
<1>4. DOMAIN Stack = 1 .. Len(Stack) /\ DOMAIN Stack' = 1 .. Len(Stack)'
  <2>1. Stack \in Seq(TopicFrame) /\ spine' \in DiscourseState(Nat)
    BY NewSpine
  <2>2. Stack' \in Seq(TopicFrame)
    BY <2>1 DEF DiscourseState, Stack
  <2>3. QED
    BY <2>1, <2>2
<1>5. \A i \in 1 .. Len(Stack) : IsLast(Stack[i].first_turn, Arrivals(Stack[i].topic_id))
  BY <1>4, Zenon DEF ReducerInv, HistoryInv, FirstTurns, Arrivals
\* The arrivals so far stay what they were, and this turn is one when there is no frame.
<1>6. ASSUME NEW key, key # id \/ at # 0 PROVE Now(key) = Arrivals(key)
  <2>1. \A j \in 1 .. n : (FiledKey(j)' = key /\ CameUp(j)') <=> (FiledKey(j) = key /\ CameUp(j))
    BY <1>1, CameUpKept
  <2>2. ~(FiledKey(n + 1)' = key /\ CameUp(n + 1)')
    BY <1>1, <1>6, ComesUp
  <2>3. \A j : j \in Now(key) <=> j \in Arrivals(key)
    BY <1>1, <1>2, <2>1, <2>2 DEF Arrivals
  <2> HIDE DEF Now
  <2>4. QED
    BY <2>3
<1>7. at = 0 => IsLast(n + 1, Now(id))
  <2>1. SUFFICES ASSUME at = 0 PROVE IsLast(n + 1, Now(id))
    OBVIOUS
  <2>2. n + 1 \in Now(id)
    BY <1>1, <1>2, <2>1, ComesUp
  <2>3. \A k \in Now(id) : k <= n + 1
    BY <1>1, <1>2
  <2> HIDE DEF Now
  <2>4. QED
    BY <2>2, <2>3
<1> HIDE DEF Now, IsLast
<1>8. ASSUME NEW i \in 1 .. Len(Stack)'
      PROVE  IsLast(Stack'[i].first_turn, Now(Stack'[i].topic_id))
  <2>1. CASE i = 1 /\ at = 0
    BY <1>3, <1>7, <2>1
  <2>2. CASE i = 1 /\ at # 0
    <3>1. /\ at \in 1 .. Len(Stack) /\ Stack'[i].first_turn = Stack[at].first_turn
          /\ Stack'[i].topic_id = id /\ Stack[at].topic_id = id
      BY <1>3, <2>2
    <3>2. IsLast(Stack[at].first_turn, Arrivals(id)) /\ Now(id) = Arrivals(id)
      BY <1>5, <1>6, <2>2, <3>1
    <3>3. QED
      BY <3>1, <3>2
  <2>3. CASE i # 1
    <3>1. i \in 2 .. Len(Stack)'
      BY <1>3, <2>3
    <3>2. PICK w \in 1 .. Len(Stack) : /\ w # at
                                       /\ Stack'[i].topic_id = Stack[w].topic_id
                                       /\ Stack'[i].first_turn = Stack[w].first_turn
      BY <3>1, NewFrames, SMTT(30)
    <3>3. Now(Stack[w].topic_id) = Arrivals(Stack[w].topic_id)
      BY <1>6, <3>2, OtherTopics
    <3>4. QED
      BY <1>5, <3>2, <3>3
  <2>4. QED
    BY <2>1, <2>2, <2>3
<1>9. QED
  BY <1>4, <1>8, Zenon DEF FirstTurns, Now, IsLast

(* The window is still the end of the conversation. *)
LEMMA RecentKept ==
  ASSUME ReducerInv, NEW update, NEW subject, NEW at, NEW n, NewTurn(update, subject, at, n)
  PROVE  RecentIsTheEnd'
<1> DEFINE old == spine.recent_turns
           turn == [turn_id |-> update.turn_id, index |-> n + 1, subject |-> subject]
           turns == Append(old, turn)
           new == LastOf(turns, RecentLimit)
<1>1. /\ n \in Nat /\ n = Len(folded) /\ Len(folded)' = n + 1 /\ subject \in Names
      /\ folded'[n + 1] = update /\ FiledSubject(n + 1)' = subject
      /\ \A k \in 1 .. n : folded'[k] = folded[k] /\ FiledSubject(k)' = FiledSubject(k)
  BY NewHistory
<1>2. /\ spine'.current_turn = n + 1 /\ spine'.recent_turns = new
      /\ spine \in DiscourseState(Nat) /\ spine' \in DiscourseState(Nat)
  BY NewSpine
<1>3. update \in TurnUpdate /\ RecentLimit \in Nat \ {0}
  BY LimitsAssumption DEF NewTurn
<1>4. /\ old \in Seq(TurnFrame(Nat)) /\ Len(old) \in Nat
      /\ Len(old) = IF n < RecentLimit THEN n ELSE RecentLimit
      /\ old = [i \in 1 .. Len(old) |-> Entry(n - Len(old) + i)]
  <2>1. old \in Seq(TurnFrame(Nat)) /\ Len(old) \in Nat
    BY <1>2 DEF DiscourseState
  <2>2. RecentIsTheEnd
    BY DEF ReducerInv, HistoryInv
  <2>3. QED
    BY <1>1, <2>1, <2>2, Zenon DEF RecentIsTheEnd
<1> HIDE DEF old
<1>5. PICK m \in Nat : m = Len(old)
  BY <1>4
<1>6. /\ m <= n
      /\ \A i \in 1 .. m : old[i] = Entry(n - m + i)'
  <2>1. m <= n /\ old = [i \in 1 .. m |-> Entry(n - m + i)]
    <3>1. m <= n
      BY <1>1, <1>3, <1>4, <1>5
    <3>2. QED
      BY <1>4, <1>5, <3>1, Zenon
  <2>2. \A k \in 1 .. n : Entry(k)' = Entry(k)
    BY <1>1 DEF Entry
  <2>3. \A i \in 1 .. m : n - m + i \in 1 .. n
    BY <1>1, <2>1
  <2>4. QED
    BY <2>1, <2>2, <2>3
<1>7. turn = Entry(n + 1)' /\ turn \in TurnFrame(Nat)
  BY <1>1, <1>3 DEF Entry, TurnFrame, TurnUpdate
<1> HIDE DEF turn
<1>8. /\ turns \in Seq(TurnFrame(Nat)) /\ Len(turns) = m + 1
      /\ \A i \in 1 .. (m + 1) : turns[i] = Entry(n - m + i)'
  <2>1. /\ turns \in Seq(TurnFrame(Nat)) /\ Len(turns) = m + 1
        /\ turns[m + 1] = turn
        /\ \A i \in 1 .. m : turns[i] = old[i]
    BY <1>4, <1>5, <1>7
  <2>2. n - m + (m + 1) = n + 1
    BY <1>1
  <2> HIDE DEF turns
  <2>3. turns[m + 1] = Entry(n - m + (m + 1))'
    BY <1>7, <2>1, <2>2
  <2>4. \A i \in 1 .. (m + 1) : i \in 1 .. m \/ i = m + 1
    OBVIOUS
  <2>5. QED
    BY <1>6, <2>1, <2>3, <2>4
<1> HIDE DEF turns
<1>9. PICK l \in Nat : /\ l = IF n + 1 < RecentLimit THEN n + 1 ELSE RecentLimit
                       /\ l <= m + 1
                       /\ new \in Seq(TurnFrame(Nat)) /\ Len(new) = l
                       /\ \A i \in 1 .. l : new[i] = turns[m + 1 - l + i]
  <2>1. /\ new \in Seq(TurnFrame(Nat))
        /\ Len(new) = IF Len(turns) <= RecentLimit THEN Len(turns) ELSE RecentLimit
        /\ \A i \in 1 .. Len(new) : new[i] = turns[Len(turns) - Len(new) + i]
    BY <1>3, <1>8, LastOfFacts, SMTT(30)
  <2> HIDE DEF new
  <2>2. PICK l \in Nat : l = Len(new)
    BY <2>1
  <2>3. l = (IF n + 1 < RecentLimit THEN n + 1 ELSE RecentLimit) /\ l <= m + 1
    BY <1>1, <1>3, <1>4, <1>5, <1>8, <2>1, <2>2
  <2>4. ASSUME NEW i \in 1 .. l PROVE new[i] = turns[m + 1 - l + i]
    <3>1. Len(turns) - Len(new) + i = m + 1 - l + i
      BY <1>8, <2>2
    <3>2. new[i] = turns[Len(turns) - Len(new) + i]
      BY <2>1, <2>2
    <3>3. QED
      BY <3>1, <3>2
  <2>5. QED
    BY <2>1, <2>2, <2>3, <2>4
<1> HIDE DEF new
<1>10. ASSUME NEW i \in 1 .. l PROVE new[i] = Entry(n + 1 - l + i)'
  <2>1. m + 1 - l + i \in 1 .. (m + 1) /\ n - m + (m + 1 - l + i) = n + 1 - l + i
    <3>1. n \in Nat /\ l <= m + 1 /\ i \in Nat /\ 1 <= i /\ i <= l
      BY <1>1, <1>9
    <3>2. QED
      BY <3>1
  <2>2. turns[m + 1 - l + i] = Entry(n - m + (m + 1 - l + i))'
    BY <1>8, <2>1
  <2>3. QED
    BY <1>9, <2>1, <2>2
<1>11. new = [i \in 1 .. l |-> Entry(n + 1 - l + i)']
  <2>1. new = [i \in 1 .. l |-> new[i]]
    BY <1>9
  <2>2. QED
    BY <1>10, <2>1, Zenon
<1>12. /\ Len(folded)' = n + 1 /\ Len(spine.recent_turns)' = l
       /\ spine'.current_turn = n + 1
       /\ spine'.recent_turns = [i \in 1 .. l |-> Entry(n + 1 - l + i)']
  BY <1>1, <1>2, <1>9, <1>11
<1>13. \A i \in 1 .. l : Entry(n + 1 - l + i)'
                            = Entry(Len(folded) - Len(spine.recent_turns) + i)'
  <2>1. ASSUME NEW i \in 1 .. l
        PROVE  Entry(n + 1 - l + i)' = Entry(Len(folded) - Len(spine.recent_turns) + i)'
    <3>1. Len(folded)' = n + 1 /\ Len(spine.recent_turns)' = l /\ n \in Nat
      BY <1>1, <1>12
    <3>2. (Len(folded) - Len(spine.recent_turns) + i)' = n + 1 - l + i
      BY <3>1
    <3>3. QED
      BY <3>2
  <2>2. QED
    BY <2>1
<1>14. spine'.recent_turns
         = [i \in 1 .. Len(spine.recent_turns)' |->
              Entry(Len(folded) - Len(spine.recent_turns) + i)']
  BY <1>12, <1>13
<1>15. QED
  BY <1>9, <1>12, <1>14, Zenon DEF RecentIsTheEnd

(* The history and the spine keep their types. *)
LEMMA TypedKept ==
  ASSUME ReducerInv, NEW update, NEW subject, NEW at, NEW n, NewTurn(update, subject, at, n)
  PROVE  /\ spine' \in DiscourseState(Nat) /\ WellFormed(spine')
         /\ folded' \in Seq(TurnUpdate)
         /\ \A i \in 1 .. Len(folded)' : FiledSubject(i)' \in Names
<1>1. /\ n \in Nat /\ n = Len(folded) /\ Len(folded)' = n + 1 /\ folded' \in Seq(TurnUpdate)
      /\ FiledSubject(n + 1)' \in Names
      /\ \A i \in 1 .. n : FiledSubject(i)' = FiledSubject(i)
  BY NewHistory
<1>2. \A i \in 1 .. n : FiledSubject(i) \in Names
  BY <1>1 DEF ReducerInv, TypedReducer
<1>3. \A i \in 1 .. (n + 1) : FiledSubject(i)' \in Names
  <2>1. \A i \in 1 .. (n + 1) : i \in 1 .. n \/ i = n + 1
    BY <1>1
  <2>2. QED
    BY <1>1, <1>2, <2>1
<1>4. spine' \in DiscourseState(Nat) /\ WellFormed(spine')
  BY NewSpine
<1>5. QED
  BY <1>1, <1>3, <1>4

(* What the history says of the spine changes only with one of them. *)
LEMMA HistoryStutters ==
  ASSUME HistoryInv, UNCHANGED <<spine, folded>>
  PROVE  HistoryInv'
<1>1. spine' = spine /\ folded' = folded /\ Stack' = Stack
  BY DEF Stack
<1>2. \A i : /\ FiledSubject(i)' = FiledSubject(i) /\ FiledKey(i)' = FiledKey(i)
             /\ Entry(i)' = Entry(i)
  BY <1>1 DEF FiledSubject, FiledKey, Naming, Entry
<1>3. SubjectInv'
  BY <1>1 DEF HistoryInv, SubjectInv, FiledSubject, Naming
<1>4. FramesInv'
  BY <1>1, <1>2 DEF HistoryInv, FramesInv
<1>5. MissingInv'
  BY <1>1 DEF HistoryInv, MissingInv, OnStack, FiledSubject, FiledKey, Naming, Stack
<1>6. EntitiesOfTurns'
  <2> DEFINE T(i) == {j \in Stack[i].first_turn .. Stack[i].last_turn : FiledKey(j) = Stack[i].topic_id}
  <2>1. \A i \in DOMAIN Stack : /\ Stack[i].first_turn \in T(i)
                                 /\ Stack[i].entities = UNION {folded[j].entities : j \in T(i)}
    BY Zenon DEF HistoryInv, EntitiesOfTurns
  <2>2. \A i : T(i)' = T(i)
    BY <1>1, <1>2
  <2> HIDE DEF T
  <2>3. \A i \in DOMAIN Stack' :
           /\ Stack'[i].first_turn \in T(i)'
           /\ Stack'[i].entities = UNION {folded'[j].entities : j \in T(i)'}
    BY <1>1, <2>1, <2>2
  <2>4. QED
    BY <2>3, Zenon DEF EntitiesOfTurns, T
<1>7. RecentIsTheEnd'
  <2> DEFINE At(i) == Entry(Len(folded) - Len(spine.recent_turns) + i)
  <2>1. /\ spine.current_turn = Len(folded)
        /\ Len(spine.recent_turns) = IF Len(folded) < RecentLimit THEN Len(folded) ELSE RecentLimit
        /\ spine.recent_turns = [i \in 1 .. Len(spine.recent_turns) |-> At(i)]
    BY Zenon DEF HistoryInv, RecentIsTheEnd
  <2>2. \A i : At(i)' = At(i)
    BY <1>1, <1>2
  <2> HIDE DEF At
  <2>3. spine'.recent_turns = [i \in 1 .. Len(spine.recent_turns)' |-> At(i)']
    BY <1>1, <2>1, <2>2
  <2>4. QED
    BY <1>1, <2>1, <2>3, Zenon DEF RecentIsTheEnd, At
<1>8. FirstTurns'
  <2> DEFINE At(i) == {j \in DOMAIN folded : FiledKey(j) = Stack[i].topic_id /\ CameUp(j)}
  <2>1. \A i, j : Between(i, j)' = Between(i, j)
    BY <1>2 DEF Between
  <2>2. \A j : CameUp(j)' <=> CameUp(j)
    BY <1>2, <2>1, Zenon DEF CameUp
  <2>3. \A i \in DOMAIN Stack : /\ Stack[i].first_turn \in At(i)
                                /\ \A j \in At(i) : j <= Stack[i].first_turn
    BY Zenon DEF HistoryInv, FirstTurns
  <2>4. \A i : At(i)' = At(i)
    BY <1>1, <1>2, <2>2
  <2> HIDE DEF At
  <2>5. \A i \in DOMAIN Stack' : /\ Stack'[i].first_turn \in At(i)'
                                 /\ \A j \in At(i)' : j <= Stack'[i].first_turn
    BY <1>1, <2>3, <2>4
  <2>6. QED
    BY <2>5, Zenon DEF FirstTurns, At
<1>9. QED
  BY <1>3, <1>4, <1>5, <1>6, <1>7, <1>8 DEF HistoryInv

(* A delivery keeps the invariant, whether the update is folded in or not. *)
LEMMA FoldKeeps ==
  ASSUME ReducerInv, NEW update \in TurnUpdate, Fold(update), sent' \in Seq(TurnUpdate)
  PROVE  ReducerInv'
<1>1. CASE InRecentWindow(spine, update.turn_id)
  <2>1. spine' = spine /\ folded' = folded
    BY <1>1 DEF Fold, Reduce
  <2>2. \A i : FiledSubject(i)' = FiledSubject(i)
    BY <2>1 DEF FiledSubject, Naming
  <2>3. TypedReducer' /\ WellFormed(spine)'
    BY <2>1, <2>2 DEF ReducerInv, TypedReducer
  <2>4. HistoryInv'
    BY <2>1, HistoryStutters DEF ReducerInv
  <2>5. QED
    BY <2>3, <2>4 DEF ReducerInv
<1>2. CASE ~InRecentWindow(spine, update.turn_id)
  <2>1. PICK subject, at, n : NewTurn(update, subject, at, n)
    BY <1>2 DEF NewTurn
  <2>2. TypedReducer' /\ WellFormed(spine)'
    BY <2>1, TypedKept DEF TypedReducer
  <2>3. HistoryInv'
    BY <2>1, SubjectKept, FramesKept, MissingKept, EntitiesKept, FirstTurnsKept, RecentKept
       DEF HistoryInv
  <2>4. QED
    BY <2>2, <2>3 DEF ReducerInv
<1>3. QED
  BY <1>1, <1>2

(* A session starts with an empty spine and an empty history. *)
LEMMA InitReducerInv == InitReducer => ReducerInv
<1> SUFFICES ASSUME InitReducer PROVE ReducerInv
  OBVIOUS
<1>1. spine = EmptyState /\ sent = << >> /\ folded = << >>
  BY DEF InitReducer
<1>2. Stack = << >> /\ Len(Stack) = 0 /\ Len(folded) = 0 /\ DOMAIN Stack = {} /\ 1 .. 0 = {}
  BY <1>1 DEF Stack, EmptyState
<1>3. TypedReducer
  <2>1. spine \in DiscourseState(Nat)
    BY <1>1 DEF EmptyState, DiscourseState
  <2>2. QED
    BY <1>1, <1>2, <2>1 DEF TypedReducer
<1>4. WellFormed(spine)
  BY <1>1, LimitsAssumption DEF WellFormed, EmptyState
<1>5. SubjectInv
  BY <1>1 DEF SubjectInv, EmptyState
<1>6. FramesInv /\ MissingInv /\ EntitiesOfTurns /\ FirstTurns
  BY <1>2 DEF FramesInv, MissingInv, EntitiesOfTurns, FirstTurns
<1>7. RecentIsTheEnd
  <2>1. spine.recent_turns = << >> /\ Len(spine.recent_turns) = 0 /\ spine.current_turn = 0
    BY <1>1 DEF EmptyState
  <2>2. << >> = [i \in 1 .. 0 |-> Entry(0 - 0 + i)]
    OBVIOUS
  <2>3. QED
    BY <1>2, <2>1, <2>2, LimitsAssumption DEF RecentIsTheEnd
<1>8. QED
  BY <1>3, <1>4, <1>5, <1>6, <1>7 DEF ReducerInv, HistoryInv

(* Every delivery keeps the invariant. *)
LEMMA ReducerStep == ReducerInv /\ [NextReducer]_reducerVars => ReducerInv'
<1> SUFFICES ASSUME ReducerInv, [NextReducer]_reducerVars PROVE ReducerInv'
  OBVIOUS
<1>1. sent \in Seq(TurnUpdate) /\ Len(sent) \in Nat
  BY DEF ReducerInv, TypedReducer
<1>2. CASE Deliver
  <2>1. PICK update \in Updates(Len(sent) + 1) : Fold(update) /\ sent' = Append(sent, update)
    BY <1>2 DEF Deliver
  <2>2. update \in TurnUpdate
    <3>1. PICK r \in Requests : update = [turn_id |-> Len(sent) + 1, subject |-> r.subject,
                                          topic |-> r.topic, entities |-> r.entities]
      BY <2>1 DEF Updates
    <3>2. QED
      BY <1>1, <3>1, UpdatesAssumption DEF TurnUpdate
  <2>3. QED
    BY <1>1, <2>1, <2>2, FoldKeeps
<1>3. CASE Redeliver
  <2>1. PICK i \in DOMAIN sent : Fold(sent[i])
    BY <1>3 DEF Redeliver
  <2>2. sent[i] \in TurnUpdate /\ sent' = sent
    BY <1>1, <1>3, <2>1 DEF Redeliver
  <2>3. QED
    BY <1>1, <2>1, <2>2, FoldKeeps
<1>4. CASE UNCHANGED reducerVars
  <2>1. spine' = spine /\ folded' = folded /\ sent' = sent
    BY <1>4 DEF reducerVars
  <2>2. \A i : FiledSubject(i)' = FiledSubject(i)
    BY <2>1 DEF FiledSubject, Naming
  <2>3. TypedReducer' /\ WellFormed(spine)'
    BY <2>1, <2>2 DEF ReducerInv, TypedReducer
  <2>4. HistoryInv'
    BY <2>1, HistoryStutters DEF ReducerInv
  <2>5. QED
    BY <2>3, <2>4 DEF ReducerInv
<1>5. QED
  BY <1>2, <1>3, <1>4 DEF NextReducer

(* The spine always stands in its history as ReducerInv says. *)
LEMMA ReducerInvariant == SpecReducer => []ReducerInv
BY InitReducerInv, ReducerStep, PTL DEF SpecReducer

(* Whatever subjects and topics its updates leave blank, the spine stays a state    *)
(* and well formed: a bounded stack, no topic twice, one of them active, in order   *)
(* (discourse.py:84-114).                                                           *)
THEOREM SpineKeepsShape == SpecReducer => [](TypedReducer /\ WellFormed(spine))
<1>1. ReducerInv => TypedReducer /\ WellFormed(spine)
  BY DEF ReducerInv
<1>2. QED
  BY <1>1, ReducerInvariant, PTL

(* The window holds the last turns folded, in order, each under the subject it was  *)
(* filed under, for any updates and any window (discourse.py:115).                  *)
THEOREM WindowIsTheEnd == SpecReducer => []RecentIsTheEnd
<1>1. ReducerInv => RecentIsTheEnd
  BY DEF ReducerInv, HistoryInv
<1>2. QED
  BY <1>1, ReducerInvariant, PTL

(* A topic keeps the entities of all its turns since the last one that put it on    *)
(* the stack, and its frame's first turn is that one, as the history of the session  *)
(* tells it: the first of the topic, or the first after as many others as there is   *)
(* room for (discourse.py:84-97).                                                    *)
THEOREM EntitiesAreKept == SpecReducer => []EntitiesAccumulate
<1>1. ReducerInv => EntitiesAccumulate
  BY DEF ReducerInv, HistoryInv, EntitiesAccumulate
<1>2. QED
  BY <1>1, ReducerInvariant, PTL

(* A turn of the window may be delivered again at any time (discourse.py:79-80). *)
THEOREM DuplicatesAreIgnored == SpecReducer => []RecentDuplicatesIgnored
<1>1. ReducerInv => RecentDuplicatesIgnored
  <2>1. SUFFICES ASSUME ReducerInv, NEW i \in DOMAIN folded, i > Len(folded) - RecentLimit
                 PROVE  Reduce(spine, folded[i]) = spine
    BY DEF RecentDuplicatesIgnored
  <2> DEFINE n == Len(spine.recent_turns)
             p == i - Len(folded) + n
  <2>2. /\ n = IF Len(folded) < RecentLimit THEN Len(folded) ELSE RecentLimit
        /\ spine.recent_turns = [j \in 1 .. n |-> Entry(Len(folded) - n + j)]
        /\ RecentLimit \in Nat /\ Len(folded) \in Nat /\ i \in 1 .. Len(folded)
    <3>1. RecentIsTheEnd /\ folded \in Seq(TurnUpdate)
      BY <2>1 DEF ReducerInv, HistoryInv, TypedReducer
    <3>2. /\ n = IF Len(folded) < RecentLimit THEN Len(folded) ELSE RecentLimit
          /\ spine.recent_turns = [j \in 1 .. n |-> Entry(Len(folded) - n + j)]
      BY <3>1, Zenon DEF RecentIsTheEnd
    <3>3. RecentLimit \in Nat /\ Len(folded) \in Nat /\ i \in 1 .. Len(folded)
      BY <2>1, <3>1, LimitsAssumption
    <3>4. QED
      BY <3>2, <3>3, Zenon
  <2> HIDE DEF n
  <2>3. p \in 1 .. n /\ Len(folded) - n + p = i
    BY <2>1, <2>2
  <2>4. spine.recent_turns[p] = Entry(i)
    BY <2>2, <2>3
  <2>5. InRecentWindow(spine, folded[i].turn_id)
    BY <2>3, <2>4 DEF InRecentWindow, Entry, n
  <2>6. QED
    BY <2>5, ReduceIdempotent
<1>2. QED
  BY <1>1, ReducerInvariant, PTL

(* The stack is the conversation's least-recently-used cache, for any names, any    *)
(* limit and any number of turns: its i-th frame is the topic discussed i-th most   *)
(* recently (discourse.py:84-113).                                                  *)
THEOREM StackIsRecency == SpecReducer => []MostRecentTopics
<1>1. ReducerInv => MostRecentTopics
  <2> SUFFICES ASSUME ReducerInv PROVE MostRecentTopics
    OBVIOUS
  <2> DEFINE recent == {k \in Keys : Cardinality(Newer(k)) < TopicLimit}
  <2>1. Len(Stack) \in Nat /\ Len(Stack) <= TopicLimit /\ TopicLimit \in Nat
    BY LimitsAssumption DEF ReducerInv, WellFormed, TypedReducer, DiscourseState, Stack
  <2>2. ASSUME NEW i \in 1 .. Len(Stack)
        PROVE  /\ Stack[i].topic_id \in recent
               /\ Cardinality(Newer(Stack[i].topic_id)) + 1 = i
               /\ Newer(Stack[i].topic_id) = {} <=> i = 1
    <3>1. i - 1 \in Nat /\ i - 1 <= Len(Stack)
      BY <2>1
    <3>2. Cardinality(Newer(Stack[i].topic_id)) = i - 1
      BY <3>1, NewerOnStack, TopCount
    <3>3. Stack[i].topic_id \in recent
      BY <2>1, <3>2, FrameFacts
    <3>4. Newer(Stack[i].topic_id) = {} <=> i = 1
      <4>1. Newer(Stack[i].topic_id) = TopTopics(i - 1)
        BY NewerOnStack
      <4>2. TopTopics(i - 1) = {} <=> i = 1
        <5>1. CASE i = 1
          BY <5>1 DEF TopTopics
        <5>2. CASE i # 1
          <6>1. 1 \in 1 .. (i - 1)
            BY <3>1, <5>2
          <6>2. Stack[1].topic_id \in TopTopics(i - 1)
            BY <6>1 DEF TopTopics
          <6>3. QED
            BY <5>2, <6>2
        <5>3. QED
          BY <5>1, <5>2
      <4>3. QED
        BY <4>1, <4>2
    <3>5. QED
      BY <3>1, <3>2, <3>3, <3>4
  <2>3. recent = TopTopics(Len(Stack))
    <3>1. ASSUME NEW k \in recent PROVE k \in TopTopics(Len(Stack))
      BY NewerOffStack DEF OnStack, TopTopics
    <3>2. TopTopics(Len(Stack)) \subseteq recent
      BY <2>2 DEF TopTopics
    <3>3. QED
      BY <3>1, <3>2
  <2>4. Len(Stack) = Cardinality(recent)
    BY <2>1, <2>3, TopCount
  <2>5. ASSUME NEW k \in recent
        PROVE  LET f == Stack[Cardinality(Newer(k)) + 1]
               IN  /\ f.topic_id = k
                   /\ f.last_turn = LastTurnOf(k)
                   /\ f.name = FiledSubject(f.last_turn)
                   /\ f.status = "active" <=> Newer(k) = {}
    <3>1. PICK i \in 1 .. Len(Stack) : k = Stack[i].topic_id
      BY <2>3 DEF TopTopics
    <3>2. Cardinality(Newer(k)) + 1 = i /\ (Newer(k) = {} <=> i = 1)
      BY <2>2, <3>1
    <3>3. Stack[i].last_turn = LastTurnOf(k) /\ Stack[i].name = FiledSubject(Stack[i].last_turn)
      BY <3>1, FrameFacts
    <3>4. Stack[i].status = "active" <=> i = 1
      BY DEF ReducerInv, WellFormed, Stack
    <3>5. QED
      BY <3>1, <3>2, <3>3, <3>4
  <2> HIDE DEF recent
  <2>6. QED
    BY <2>4, <2>5, Zenon DEF MostRecentTopics, recent, Newer, Keys
<1>2. QED
  BY <1>1, ReducerInvariant, PTL
=============================================================================
