--------------------------- MODULE MCGlobalAdmission ---------------------------
(* Two connections and four jobs.                                              *)
EXTENDS GlobalAdmission, TLC

CONSTANTS b1, b2, j1, j2, j3, j4

\* Connections are interchangeable, and so are jobs.
MCSymmetry == Permutations({b1, b2}) \cup Permutations({j1, j2, j3, j4})
=================================================================================
