---------------------------- MODULE ReportDownload ----------------------------
(***************************************************************************)
(* What the service promises of the PDF report of one result, to the owner *)
(* who downloads it and to the worker that makes it.                       *)
(*                                                                         *)
(* ReportPdf implements it with workers, cleaners and two stores: queue    *)
(* rows and tombstones in PostgreSQL, objects in Storage.                  *)
(***************************************************************************)
EXTENDS Naturals

CONSTANT MaxTries  \* the attempts of a report

VARIABLES
  status,  \* what the owner is shown
  tries,   \* how many attempts were started
  record,  \* what is recorded of each of them
  leased,  \* the last attempt is under a lease
  kept,    \* the report is within its retention
  copy     \* the attempt whose PDF a download delivers; 0 if there is none

dvars == <<status, tries, record, leased, kept, copy>>

Attempts == 1..MaxTries

DInit ==
  /\ status = "absent" /\ tries = 0
  /\ record = [n \in Attempts |-> "none"]
  /\ ~leased /\ kept
  /\ copy = 0

\* The records when no attempt runs any more.
Stopped == [n \in Attempts |-> IF record[n] = "running" THEN "failed" ELSE record[n]]

Enqueue ==
  /\ status = "absent" /\ kept
  /\ status' = "generating"
  /\ UNCHANGED <<tries, record, leased, kept, copy>>

\* No attempt takes over from one that is under a lease.
Begin ==
  /\ status = "generating" /\ kept /\ ~leased
  /\ tries < MaxTries
  /\ tries' = tries + 1
  /\ record' = [Stopped EXCEPT ![tries + 1] = "running"]
  /\ leased' = TRUE
  /\ UNCHANGED <<status, kept, copy>>

\* The lease of a worker passes, or the attempt fails and another may begin.
Lapse ==
  /\ leased /\ ~leased'
  /\ UNCHANGED <<status, tries, record, kept, copy>>

Stop ==
  /\ status = "generating"
  /\ record' = Stopped
  /\ ~leased'
  /\ UNCHANGED <<status, tries, kept, copy>>

\* The PDF of the last attempt is the report from now on.
Publish ==
  /\ status = "generating" /\ kept /\ leased
  /\ record[tries] = "running"
  /\ record' = [record EXCEPT ![tries] = "succeeded"]
  /\ status' = "ready" /\ copy' = tries
  /\ ~leased'
  /\ UNCHANGED <<tries, kept>>

\* There will be no report: every attempt was used, or it is too late.
GiveUp ==
  /\ status = "generating"
  /\ tries = MaxTries \/ ~kept
  /\ status' = "failed"
  /\ record' = Stopped
  /\ ~leased'
  /\ UNCHANGED <<tries, kept, copy>>

\* Only the end of retention and of the case take a copy from its owner.
Expire ==
  /\ kept /\ ~kept'
  /\ copy' = 0
  /\ UNCHANGED <<status, tries, record, leased>>

Remove ==
  /\ status \notin {"absent", "removed"}
  /\ status' = "removed" /\ copy' = 0
  /\ ~leased'
  /\ UNCHANGED <<tries, record, kept>>

DNext == Enqueue \/ Begin \/ Lapse \/ Stop \/ Publish \/ GiveUp \/ Expire \/ Remove

DSpec == DInit /\ [][DNext]_dvars
===============================================================================
