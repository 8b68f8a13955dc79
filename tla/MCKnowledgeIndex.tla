-------------------------- MODULE MCKnowledgeIndex --------------------------
(* Two ingestions of one source, a search and a probe, over two directories *)
(* and a cap of one document.                                               *)
EXTENDS KnowledgeIndex, TLC

CONSTANTS i1, i2, q1, b1, s1, s2

MCSourceOf == (i1 :> s1) @@ (i2 :> s1)
MCTree == <<<<"a">>, <<"b", "c">>>>

(* An edit makes the first directory reach the cap, or takes a listed file away. *)
MCDisks == {[p \in Paths |-> IF p = "a" THEN None ELSE "old"]}
=============================================================================
