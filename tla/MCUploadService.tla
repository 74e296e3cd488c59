---------------------------- MODULE MCUploadService ----------------------------
(* A request sent three times under one Idempotency-Key.                      *)
EXTENDS UploadService, TLC

CONSTANTS q1, q2, q3, k1

MCOneKey == [q \in Requests |-> k1]

\* The duplicates are interchangeable.
MCSymmetry == Permutations({q1, q2, q3})
================================================================================
