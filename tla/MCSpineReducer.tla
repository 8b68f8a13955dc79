---------------------------- MODULE MCSpineReducer ----------------------------
(* Two spellings of one topic, two other topics and the sentinel, over a stack and a window of two. *)
EXTENDS SpineReducer

MCNames == {"Apollo", "apollo", "Hydra", "Gaia", "unresolved", "current request"}
MCCaseFold == [n \in MCNames |-> IF n = "Apollo" THEN "apollo" ELSE n]

(* A turn names its subject, or leaves it blank and offers a topic or nothing. *)
MCRequests ==
    [subject : {"Apollo", "apollo", "Hydra", "unresolved"}, topic : {""},
     entities : {{}, {"Gaia"}}]
      \cup [subject : {""}, topic : {"", "Hydra"}, entities : {{}}]
=============================================================================
