---------------------------- MODULE MCAnalysisQueue ----------------------------
(* Two owners: one with two uploads, so that a second request meets the first *)
(* run and its session, and one who competes for the global queue.            *)
EXTENDS UserWorkspaceRefinement, TLC

CONSTANTS r1, r2, r3, u1, u2

MCRuns  == {r1, r2, r3}
MCOwner == [r \in MCRuns |-> IF r = r3 THEN u2 ELSE u1]
================================================================================
