--------------------------- MODULE MCTurnPipeline ---------------------------
(* The section bounds of the code; one hit and three chunks stand for the others. *)
EXTENDS TurnPipeline

MCAll == Harnesses
=============================================================================
