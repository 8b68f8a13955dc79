--------------------------- MODULE MCContextWindow --------------------------
(* In units of 4000 characters, at the least threshold: up to five hits of  *)
(* at most 16000 characters, which is more than all the limits.             *)
EXTENDS ContextWindow, SequencesExt

MCBundles == BoundedSeq(1 .. 4, 5)
=============================================================================
