----------------------------- MODULE MCTurnStore -----------------------------
(* Three turns of one session beside another; three topics, two spellings.   *)
EXTENDS TurnStore, TLC

CONSTANTS s1, s2, t1, t2, t3

MCSessions == {s1, s2}
MCTurns == {t1, t2, t3}
MCSessionOf == [t \in MCTurns |-> s1]

MCNames == {"Apollo", "apollo", "unresolved", "conversation"}
MCCaseFold == [n \in MCNames |-> IF n = "Apollo" THEN "apollo" ELSE n]

(* A subject; a return to it, which is a recap as long as the menu lacks it. *)
MCQueries ==
    {[returns |-> "", recap |-> FALSE, explicit |-> "Apollo"],
     [returns |-> "apollo", recap |-> TRUE, explicit |-> "apollo"]}

(* The model finds nothing; it finds a continuation of it knows not what, *)
(* with two names.                                                        *)
MCReplies ==
    {[subject |-> "", topic |-> "", relation |-> "shift", entities |-> {}],
     [subject |-> "", topic |-> "", relation |-> "continue",
      entities |-> {"apollo", "conversation"}]}
=============================================================================
