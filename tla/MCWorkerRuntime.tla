---------------------------- MODULE MCWorkerRuntime ----------------------------
(* One or two worker processes on one job.                                     *)
EXTENDS WorkerRuntime, TLC

CONSTANTS w1, w2

\* The workers are interchangeable.
MCSymmetry == Permutations({w1, w2})
================================================================================
