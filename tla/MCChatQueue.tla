----------------------------- MODULE MCChatQueue -----------------------------
(* Two turns of one session, competing for a queue of two slots.              *)
EXTENDS ChatQueue, TLC

CONSTANTS m1, m2, s1

MCSession == [m \in {m1, m2} |-> s1]
==============================================================================
