--------------------------- MODULE MCWebResearch ----------------------------
(* Two requests and three pages: one that is always public, of no text and   *)
(* endless; one of text whose look-ups differ, a private one when they are   *)
(* not public; and a malformed address.                                      *)
EXTENDS WebResearch

CONSTANTS r1, r2, p1, p2, m

MCRequests == {r1, r2}
MCPages == {p1, p2, m}
MCAlways == {p1}
MCSometimes == {p1, p2}
MCMalformed == {m}
MCTexts == {p2}
MCEndless == {p1}
MCOffers == [p \in MCPages |-> IF p = p1 THEN {p1, p2} ELSE {p1, p2, m}]
=============================================================================
