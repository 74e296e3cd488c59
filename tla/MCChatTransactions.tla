-------------------------- MODULE MCChatTransactions --------------------------
(* Two connections to the database on one turn.                               *)
EXTENDS ChatTransactions, TLC

CONSTANTS b1, b2

\* The connections are interchangeable.
MCSymmetry == Permutations({b1, b2})
===============================================================================
