--------------------------- MODULE Conversations ----------------------------
(***************************************************************************)
(* Clients over the runtime: the HTTP surface (routes.py), the identity of *)
(* a session and the query of a turn (loop.py:36-55), the client of the    *)
(* SDK, and what last_turn shows (store.py:112-124), composed with the     *)
(* turns of TurnStore.                                                     *)
(*                                                                         *)
(* A client sends its whole transcript with every request. It may give up  *)
(* waiting, while its turn goes on, and send the transcript again, which   *)
(* is another turn: the identifier of a turn is made by the server.        *)
(***************************************************************************)
EXTENDS TurnStore

CONSTANTS
    Clients,
    Questions,      \* what users write
    Writes,         \* [Clients -> SUBSET Questions]: what each of them writes
    Header,         \* [Clients -> Sessions \cup {None}]: X-GRND0-Session-ID, or metadata
    SessionKey,     \* [Questions -> Sessions]: the digest of a text
    MaxQuestions,   \* [Clients -> Nat]: the bound on the questions of a client
    None

ASSUME ClientsAssumption ==
    /\ Header \in [Clients -> Sessions \cup {None}]
    /\ SessionKey \in [Questions -> Sessions]
    /\ Writes \in [Clients -> SUBSET Questions]
    /\ None \notin Turns \cup Clients

VARIABLES
    transcript,     \* [Clients -> Seq(Message)]
    waiting,        \* [Clients -> the turn whose response the client awaits, or None]
    asked,          \* [Turns -> what the turn was asked]
    written,        \* table turns in the order of "created"
    earlier,        \* history: [Turns -> the turns that were answered when it began]
    impatient       \* history: the clients that have given up waiting

client == <<transcript, waiting, asked, earlier, impatient>>
allvars == <<vars, client, written>>

Message == [role : {"user", "assistant", "tool"}, text : Questions \cup Turns]

User(messages) == {i \in DOMAIN messages : messages[i].role = "user"}

Earliest(S) == CHOOSE i \in S : \A j \in S : i <= j
Latest(S) == CHOOSE i \in S : \A j \in S : j <= i

LastRole(messages) == IF messages = << >> THEN "none" ELSE messages[Len(messages)].role

stable_session_id(messages) == SessionKey[messages[Earliest(User(messages))].text]

\* Mutant of latest_user: the first question of the transcript is answered again.
first_user(messages) == messages[Earliest(User(messages))].text

latest_user(messages) == messages[Latest(User(messages))].text

SessionFor(c) == IF Header[c] # None THEN Header[c] ELSE stable_session_id(transcript[c])

Answered == UNION {{transcript[c][i].text : i \in {j \in DOMAIN transcript[c] :
                       transcript[c][j].role = "assistant"}} : c \in Clients}

NotAsked == [client |-> None]

InitConversations ==
    /\ Init
    /\ transcript = [c \in Clients |-> << >>]
    /\ waiting = [c \in Clients |-> None]
    /\ asked = [t \in Turns |-> NotAsked]
    /\ written = << >>
    /\ earlier = [t \in Turns |-> {}]
    /\ impatient = {}

-----------------------------------------------------------------------------

\* The user writes, and no request of a client's is left unsent.
Ask(c, q) ==
    /\ waiting[c] = None /\ Cardinality(User(transcript[c])) < MaxQuestions[c]
    /\ \/ LastRole(transcript[c]) \in {"none", "assistant"}
       \/ \E t \in Turns : asked[t] # NotAsked /\ asked[t].client = c
                            /\ asked[t].number = Len(transcript[c])
    /\ transcript' = [transcript EXCEPT ![c] = Append(@, [role |-> "user", text |-> q])]
    /\ UNCHANGED <<vars, waiting, asked, written, earlier, impatient>>

\* The transcript is sent, for the first time or again, and becomes a turn.
Post(c, t) ==
    /\ waiting[c] = None
    /\ LastRole(transcript[c]) \in {"user", "tool"}
    /\ SessionOf[t] = SessionFor(c)
    /\ ReadSpine(t)
    /\ waiting' = [waiting EXCEPT ![c] = t]
    /\ asked' = [asked EXCEPT ![t] = [client |-> c, query |-> latest_user(transcript[c]),
                                      number |-> Latest(User(transcript[c]))]]
    /\ earlier' = [earlier EXCEPT ![t] = Answered]
    /\ UNCHANGED <<transcript, written, impatient>>

\* The turns go on, whoever waits for them.
Serve ==
    /\ \/ \E t \in Turns : Advance(t) \/ Fail(t)
       \/ Restart
    /\ written' = IF receipts' = receipts THEN written
                  ELSE Append(written, CHOOSE t \in Turns : \E r \in receipts' \ receipts : r.turn = t)
    /\ UNCHANGED client

\* Mutant of Respond: the answer is streamed before it is judged and committed.
RespondEarly(c) ==
    /\ waiting[c] # None /\ pc[waiting[c]] \notin {"idle", "failed"}
    /\ \/ transcript' = [transcript EXCEPT ![c] =
                            Append(@, [role |-> "assistant", text |-> waiting[c]])]
       \/ transcript' = [transcript EXCEPT ![c] =
                            @ \o << [role |-> "assistant", text |-> waiting[c]],
                                    [role |-> "tool", text |-> waiting[c]] >>]
    /\ waiting' = [waiting EXCEPT ![c] = None]
    /\ UNCHANGED <<vars, asked, written, earlier, impatient>>

\* The response: an answer, or tool calls whose results the client adds.
Respond(c) ==
    /\ waiting[c] # None /\ pc[waiting[c]] = "done"
    /\ \/ transcript' = [transcript EXCEPT ![c] =
                            Append(@, [role |-> "assistant", text |-> waiting[c]])]
       \/ transcript' = [transcript EXCEPT ![c] =
                            @ \o << [role |-> "assistant", text |-> waiting[c]],
                                    [role |-> "tool", text |-> waiting[c]] >>]
    /\ waiting' = [waiting EXCEPT ![c] = None]
    /\ UNCHANGED <<vars, asked, written, earlier, impatient>>

\* An error response, or none.
RespondError(c) ==
    /\ waiting[c] # None /\ pc[waiting[c]] = "failed"
    /\ waiting' = [waiting EXCEPT ![c] = None]
    /\ UNCHANGED <<vars, transcript, asked, written, earlier, impatient>>

\* The client's own time-out; nobody tells the turn.
GiveUp(c) ==
    /\ waiting[c] # None
    /\ waiting' = [waiting EXCEPT ![c] = None]
    /\ impatient' = impatient \cup {c}
    /\ UNCHANGED <<vars, transcript, asked, written, earlier>>

NextConversations ==
    \/ \E c \in Clients :
          \/ \E q \in Writes[c] : Ask(c, q)
          \/ \E t \in Turns : Post(c, t)
          \/ Respond(c) \/ RespondError(c) \/ GiveUp(c)
    \/ Serve

SpecConversations == InitConversations /\ [][NextConversations]_allvars

-----------------------------------------------------------------------------
(* What the surface reads.                                                 *)

Of(s) == {i \in DOMAIN written : SessionOf[written[i]] = s}

\* Mutant of last_turn: the rows in the order they were written.
first_turn(s) == IF Of(s) = {} THEN None ELSE written[Earliest(Of(s))]

\* The newest receipt of a session: "created" is the clock under the database lock.
last_turn(s) == IF Of(s) = {} THEN None ELSE written[Latest(Of(s))]

-----------------------------------------------------------------------------
(* Properties.                                                             *)

(***************************************************************************)
(* The answer that follows a question in a transcript is of a turn that    *)
(* was asked that question, retries and tool results in between included   *)
(* (loop.py:46-53).                                                        *)
(***************************************************************************)
AnswersFollowQuestions ==
    \A c \in Clients : \A i \in DOMAIN transcript[c] :
        transcript[c][i].role = "assistant" =>
            asked[transcript[c][i].text].query
                = transcript[c][Latest({j \in User(transcript[c]) : j < i})].text

(***************************************************************************)
(* A client that waits for its answers is remembered in order, and in one  *)
(* place: with a header or without one, whatever it asks or is called back *)
(* for, its turns are of one session (loop.py:36-43, routes.py:53-59), and *)
(* the spine folds them in the order of its questions, also when turns     *)
(* fail and it sends them again. For one that gives up the order is false: *)
(* the turn it has left may commit after the next (loop.py:108, 241-302).  *)
(***************************************************************************)
PatientClientsInOrder ==
    /\ \A t, u \in Turns :
          asked[t] # NotAsked /\ asked[u] # NotAsked /\ asked[t].client = asked[u].client
              => SessionOf[t] = SessionOf[u]
    /\ \A s \in Sessions : \A i, j \in DOMAIN log[s] :
          LET first == asked[log[s][i].turn_id]
              second == asked[log[s][j].turn_id]
          IN  i < j /\ first.client = second.client /\ first.client \notin impatient
                  => first.number <= second.number

(***************************************************************************)
(* A turn reads a spine that holds every turn of its session that had been *)
(* answered, to whichever client, when it began: the spine is read without *)
(* the session's lock, and no answer goes out before its commit            *)
(* (loop.py:112; scripts/drive-showcase.py:114, 171 count on it).          *)
(***************************************************************************)
ReadsWhatWasAnswered ==
    \A u \in Turns : \A t \in earlier[u] :
        SessionOf[t] = SessionOf[u] => committed[t] \in 1 .. seen[u].current_turn

(***************************************************************************)
(* last_turn is never a turn that was answered before another of the       *)
(* session, answered since, had begun, though receipts are written apart   *)
(* from commits and in another order (store.py:112-124).                   *)
(***************************************************************************)
LastTurnRespectsAnswers ==
    \A u \in Turns : pc[u] = "done" => last_turn(SessionOf[u]) \notin earlier[u]
=============================================================================
