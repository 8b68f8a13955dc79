---------------------------- MODULE MCModelPull -----------------------------
(* Two overlapping pulls of a pack of two models, and files of an old release. *)
EXTENDS ModelPull, TLC

CONSTANTS r1, r2, good, stale

MCRuns == {r1, r2}
MCContents == {good, stale}
MCExpected == [m \in 1 .. N |-> good]
MCPullable == 1 .. 2
=============================================================================
