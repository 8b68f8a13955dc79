--------------------------- MODULE MCConversations --------------------------
(* Two clients, three turns in one session that one of them names in its     *)
(* header, and a session for a transcript that begins with the other question. *)
EXTENDS Conversations, TLC

CONSTANTS s1, s2, t1, t2, t3, t4, a, b, q1, q2

MCSessions == {s1, s2}
MCTurns == {t1, t2, t3, t4}
MCSessionOf == (t1 :> s1) @@ (t2 :> s1) @@ (t3 :> s1) @@ (t4 :> s2)
MCClients == {a, b}
MCQuestions == {q1, q2}
MCHeader == (a :> None) @@ (b :> s1)
MCSessionKey == (q1 :> s1) @@ (q2 :> s2)

MCWrites == (a :> {q1, q2}) @@ (b :> {q1})
MCMaxQuestions == (a :> 2) @@ (b :> 1)

MCNames == {"Apollo", "unresolved", "conversation"}
MCCaseFold == [n \in MCNames |-> n]
MCQueries == {[returns |-> "", recap |-> FALSE, explicit |-> "Apollo"]}
MCReplies == {[subject |-> "", topic |-> "", relation |-> "shift", entities |-> {}]}

(* Turns of one session are alike. *)
Symmetry == Permutations({t1, t2, t3})
=============================================================================
