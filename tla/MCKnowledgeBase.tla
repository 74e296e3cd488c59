---------------------------- MODULE MCKnowledgeBase ----------------------------
(* One session of each program, and two backfills of one configuration.       *)
EXTENDS KnowledgeBase, TLC

CONSTANTS n1, n2, i1, e1, x1, b1, b2, c1, h1, h2

MCConfigs == [b \in Backfills |-> c1]

\* The notices are interchangeable.
MCSymmetry == Permutations({n1, n2})
================================================================================
