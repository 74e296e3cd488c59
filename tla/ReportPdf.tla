------------------------------ MODULE ReportPdf ------------------------------
(***************************************************************************)
(* The PDF report of a published result: its row, its dispatch row, the    *)
(* attempts of the report workers, the private objects they write to       *)
(* Storage and the tombstones by which cleaners delete those objects.      *)
(*                                                                         *)
(* PostgreSQL and Storage share no transaction.  A function of the         *)
(* database is one step, a request to Storage is sent in one step and      *)
(* lands in another, possibly after its sender has given up or died.       *)
(* Deadlines and leases pass at any moment, in any order.                  *)
(***************************************************************************)
EXTENDS Naturals, FiniteSets

CONSTANTS
  Cases,      \* the analysis cases; each has at most one PDF report
  Cleaners,   \* the report workers, in their role of cleaners
  Nobody,     \* no cleaner
  Removable,  \* the cases an operator may delete
  LeaseTerm,  \* the lease a claim or a heartbeat grants, in ticks
  MaxAttempts \* the attempts of a report, 3 in the code

ASSUME RemovableAssumption == Removable \subseteq Cases
ASSUME LeaseAssumption == LeaseTerm \in Nat \ {0}
ASSUME AttemptsAssumption == MaxAttempts \in Nat \ {0}

Attempts    == 1..MaxAttempts
MaxDeletes  == 2

VARIABLES
  report,      \* report_artifact.status; "removed" when the case is deleted
  object,      \* storage_object_key, by number of the attempt; 0 is NULL
  retained,    \* retention_expires_at, and expires_at of the report, > now
  attempts,    \* dispatch.attempt_count
  fence,       \* dispatch.processing_run_pk, by number of the attempt; 0 is NULL
  lease,       \* ticks until dispatch.lease_expires_at; 0 is lapsed or NULL
  processing,  \* processing_run.status of each attempt
  tomb,        \* the tombstone of each attempt's object
  writer,      \* where the worker of each attempt is
  flying,      \* PDFs sent to Storage that have not landed
  stored,      \* PDFs that Storage holds
  sweep        \* the tombstone each cleaner works on, and whether it has deleted

dbVars      == <<report, object, retained, attempts, fence, lease, processing>>
workerVars  == <<writer, flying>>
cleanerVars == <<tomb, sweep>>
vars        == <<dbVars, workerVars, cleanerVars, stored>>

Objects == Cases \X Attempts
ASSUME NobodyAssumption == Nobody \notin Cleaners \cup Objects

Idle    == [of |-> Nobody, erased |-> FALSE]
NoTomb  == [is |-> FALSE, due |-> FALSE, by |-> Nobody, live |-> FALSE, deletes |-> 0]
NewTomb == [NoTomb EXCEPT !.is = TRUE, !.due = TRUE]

\* Every counter stays within the table's CHECK, and the columns that the CHECK
\* constraints tie together are set and cleared together.
TypeOK ==
  /\ report     \in [Cases -> {"absent", "generating", "ready", "failed", "removed"}]
  /\ object     \in [Cases -> 0..MaxAttempts]
  /\ retained   \in [Cases -> BOOLEAN]
  /\ attempts   \in [Cases -> 0..MaxAttempts]
  /\ fence      \in [Cases -> 0..MaxAttempts]
  /\ lease      \in [Cases -> 0..LeaseTerm]
  /\ processing \in [Cases -> [Attempts -> {"none", "running", "succeeded", "failed"}]]
  /\ tomb       \in [Objects -> [is: BOOLEAN, due: BOOLEAN, by: Cleaners \cup {Nobody},
                                 live: BOOLEAN, deletes: 0..MaxDeletes]]
  /\ writer     \in [Objects -> {"none", "working", "posting", "stored", "over"}]
  /\ flying     \subseteq Objects
  /\ stored     \subseteq Objects
  /\ sweep      \in [Cleaners -> [of: Objects \cup {Nobody}, erased: BOOLEAN]]
  /\ \A c \in Cases : fence[c] = 0 => lease[c] = 0
  /\ \A o \in Objects : tomb[o].live => tomb[o].by # Nobody

Init ==
  /\ report     = [c \in Cases |-> "absent"]
  /\ object     = [c \in Cases |-> 0]
  /\ retained   = [c \in Cases |-> TRUE]
  /\ attempts   = [c \in Cases |-> 0]
  /\ fence      = [c \in Cases |-> 0]
  /\ lease      = [c \in Cases |-> 0]
  /\ processing = [c \in Cases |-> [n \in Attempts |-> "none"]]
  /\ tomb       = [o \in Objects |-> NoTomb]
  /\ writer     = [o \in Objects |-> "none"]
  /\ flying     = {}
  /\ stored     = {}
  /\ sweep      = [k \in Cleaners |-> Idle]

-----------------------------------------------------------------------------
(***************************************************************************)
(* Slips that the properties below must catch; no part of Spec.            *)
(***************************************************************************)

\* Owned without regard to a worker that may be about to publish.
OwnedNever(o) == FALSE

\* Candidate with the attempt budget off by one.
CandidateOnceMore(c) ==
  /\ report[c] = "generating"
  /\ retained[c]
  /\ attempts[c] <= MaxAttempts
  /\ fence[c] = 0 \/ lease[c] = 0

\* Candidate that takes every free dispatch row for work.
CandidateAgain(c) ==
  /\ report[c] \in {"generating", "ready"}
  /\ retained[c]
  /\ attempts[c] < MaxAttempts
  /\ fence[c] = 0 \/ lease[c] = 0

\* Candidate that takes work away from a live worker.
CandidateLeased(c) == report[c] = "generating" /\ retained[c] /\ attempts[c] < MaxAttempts

\* Spent that waits for a lease the dispatch row may have lost.
SpentUnderLease(c) ==
  /\ report[c] = "generating" /\ attempts[c] >= MaxAttempts
  /\ fence[c] # 0 /\ lease[c] = 0

\* WithExpiredReports that never looks for them.
WithoutExpiredReports == tomb

\* Recheck that does not wait for the worker of the attempt to give up.
RecheckAtOnce(o) ==
  /\ tomb[o].is /\ tomb[o].deletes = 1 /\ ~tomb[o].due
  /\ tomb' = [tomb EXCEPT ![o].due = TRUE]
  /\ UNCHANGED <<dbVars, workerVars, stored, sweep>>

-----------------------------------------------------------------------------
(***************************************************************************)
(* Pieces shared by several functions.                                     *)
(***************************************************************************)

\* The token of attempt n may still end the report of case c.
Fenced(c, n) ==
  report[c] = "generating" /\ retained[c] /\ fence[c] = n /\ lease[c] > 0

\* The object is the report an owner may download now.
Current(o) == report[o[1]] = "ready" /\ object[o[1]] = o[2] /\ retained[o[1]]

\* The worker of the attempt may still publish the object.
Owned(o) == fence[o[1]] = o[2] /\ lease[o[1]] > 0

Forgotten(c) == report[c] = "generating" /\ ~retained[c]
Spent(c)     == report[c] = "generating" /\ attempts[c] >= MaxAttempts /\ lease[c] = 0

Candidate(c) ==
  /\ report[c] = "generating"
  /\ retained[c]
  /\ attempts[c] < MaxAttempts
  /\ fence[c] = 0 \/ lease[c] = 0

\* The dispatch rows of S give up their lease.
Release(S) ==
  /\ fence' = [c \in Cases |-> IF c \in S THEN 0 ELSE fence[c]]
  /\ lease' = [c \in Cases |-> IF c \in S THEN 0 ELSE lease[c]]

\* The attempts that hold the fence of a case in S, if live, become failed.
WithFailedAttempts(S) ==
  [c \in Cases |-> [n \in Attempts |->
     IF c \in S /\ fence[c] = n /\ processing[c][n] = "running"
     THEN "failed" ELSE processing[c][n]]]

\* Tombstones for the reports whose retention has passed, unless there is one.
WithExpiredReports ==
  [o \in Objects |->
     IF ~tomb[o].is /\ report[o[1]] = "ready" /\ object[o[1]] = o[2] /\ ~retained[o[1]]
     THEN NewTomb ELSE tomb[o]]

\* The token of cleaner k is still the one of its tombstone.
Holds(k) == tomb[sweep[k].of].by = k

\* The tombstones a cleaner may take.  Without a dispatch row nobody can be
\* about to publish the object.
Sweepable(t, o) ==
  /\ t[o].is /\ t[o].due
  /\ ~t[o].live
  /\ ~Current(o)
  /\ report[o[1]] = "removed" \/ ~Owned(o)

-----------------------------------------------------------------------------
(***************************************************************************)
(* The queue.                                                              *)
(***************************************************************************)

\* enqueue_pdf_report_for_ready_case, in the transaction that inserts the case.
Enqueue(c) ==
  /\ report[c] = "absent" /\ retained[c]
  /\ report' = [report EXCEPT ![c] = "generating"]
  /\ UNCHANGED <<object, retained, attempts, fence, lease, processing>>
  /\ UNCHANGED <<workerVars, cleanerVars, stored>>

\* claim_next_pdf_report_v1 settles every overdue report and then takes one
\* candidate that is not hidden by SKIP LOCKED, if any.  The tombstone is there
\* before the worker can write.
Claim(seen) ==
  LET settled == {c \in Cases : Forgotten(c) \/ Spent(c)}
      taken   == {c \in seen : Candidate(c)}
  IN  /\ report' = [c \in Cases |-> IF c \in settled THEN "failed" ELSE report[c]]
      /\ UNCHANGED <<object, retained, flying, sweep, stored>>
      /\ \/ /\ taken = {}
            /\ Release(settled)
            /\ processing' = WithFailedAttempts(settled)
            /\ UNCHANGED <<attempts, writer, tomb>>
         \/ \E c \in taken :
              LET n == attempts[c] + 1
              IN  /\ attempts' = [attempts EXCEPT ![c] = n]
                  /\ fence' = [d \in Cases |-> IF d = c THEN n
                                               ELSE IF d \in settled THEN 0 ELSE fence[d]]
                  /\ lease' = [d \in Cases |-> IF d = c THEN LeaseTerm
                                               ELSE IF d \in settled THEN 0 ELSE lease[d]]
                  /\ processing' =
                       [WithFailedAttempts(settled \cup {c}) EXCEPT ![c][n] = "running"]
                  /\ tomb'   = [tomb EXCEPT ![<<c, n>>] = NewTomb]
                  /\ writer' = [writer EXCEPT ![<<c, n>>] = "working"]

\* heartbeat_pdf_report_v1, sent while the handler runs.
Heartbeat(c, n) ==
  /\ writer[<<c, n>>] \in {"working", "posting"}
  /\ Fenced(c, n)
  /\ lease' = [lease EXCEPT ![c] = LeaseTerm]
  /\ UNCHANGED <<report, object, retained, attempts, fence, processing>>
  /\ UNCHANGED <<workerVars, cleanerVars, stored>>

\* complete_pdf_report_v1.  The worker goes on when it has the answer; when the
\* answer is lost it calls fail.
Complete(c, n) ==
  /\ writer[<<c, n>>] = "stored"
  /\ Fenced(c, n)
  /\ processing[c][n] = "running"
  /\ \E place \in {"over", "stored"} : writer' = [writer EXCEPT ![<<c, n>>] = place]
  /\ processing' = [processing EXCEPT ![c][n] = "succeeded"]
  /\ report' = [report EXCEPT ![c] = "ready"]
  /\ object' = [object EXCEPT ![c] = n]
  /\ Release({c})
  /\ tomb' = [tomb EXCEPT ![<<c, n>>] = NoTomb]
  /\ UNCHANGED <<retained, attempts, flying, stored, sweep>>

\* fail_pdf_report_v1: the third failure is final.
Fail(c, n) ==
  /\ writer[<<c, n>>] \in {"working", "posting", "stored"}
  /\ Fenced(c, n)
  /\ processing[c][n] = "running"
  /\ writer' = [writer EXCEPT ![<<c, n>>] = "over"]
  /\ processing' = [processing EXCEPT ![c][n] = "failed"]
  /\ report' = [report EXCEPT ![c] = IF attempts[c] >= MaxAttempts
                                     THEN "failed" ELSE "generating"]
  /\ Release({c})
  /\ UNCHANGED <<object, retained, attempts, flying, stored, cleanerVars>>

\* Either call with a token that is fenced out, or the death of the worker.
GiveUp(c, n) ==
  /\ writer[<<c, n>>] \in {"working", "posting", "stored"}
  /\ writer' = [writer EXCEPT ![<<c, n>>] = "over"]
  /\ UNCHANGED <<dbVars, flying, stored, cleanerVars>>

-----------------------------------------------------------------------------
(***************************************************************************)
(* Storage, as ReportJobHandler.handle and cleanup_once use it.  A key     *)
(* names one attempt, so put_if_absent never finds another object there.   *)
(***************************************************************************)

\* The rendered PDF is sent.  The handler does not look at the lease again.
Post(c, n) ==
  /\ writer[<<c, n>>] = "working"
  /\ writer' = [writer EXCEPT ![<<c, n>>] = "posting"]
  /\ flying' = flying \cup {<<c, n>>}
  /\ UNCHANGED <<dbVars, stored, cleanerVars>>

\* It lands; whoever still waits for it is told, unless the reply is lost.
Lands(c, n) ==
  /\ <<c, n>> \in flying
  /\ flying' = flying \ {<<c, n>>}
  /\ stored' = stored \cup {<<c, n>>}
  /\ \/ writer[<<c, n>>] = "posting" /\ writer' = [writer EXCEPT ![<<c, n>>] = "stored"]
     \/ UNCHANGED writer
  /\ UNCHANGED <<dbVars, cleanerVars>>

\* It never lands.
IsLost(c, n) ==
  /\ <<c, n>> \in flying
  /\ flying' = flying \ {<<c, n>>}
  /\ UNCHANGED <<dbVars, writer, stored, cleanerVars>>

\* claim_next_pdf_report_cleanup_v1 takes the tombstone of o.  A lapsed attempt
\* is fenced out before its object is touched.
ClaimCleanup(k, o) ==
  LET t == WithExpiredReports
      S == {c \in {o[1]} : report[c] # "removed" /\ fence[c] = o[2] /\ lease[c] = 0}
  IN  /\ sweep[k] = Idle
      /\ Sweepable(t, o)
      /\ tomb'  = [t EXCEPT ![o].by = k, ![o].live = TRUE]
      /\ sweep' = [sweep EXCEPT ![k] = [of |-> o, erased |-> FALSE]]
      /\ processing' = WithFailedAttempts(S)
      /\ Release(S)
      /\ UNCHANGED <<report, object, retained, attempts, workerVars, stored>>

\* The object is deleted and the deletion acknowledged.
Erase(k) ==
  /\ sweep[k] # Idle /\ ~sweep[k].erased
  /\ stored' = stored \ {sweep[k].of}
  /\ sweep'  = [sweep EXCEPT ![k].erased = TRUE]
  /\ UNCHANGED <<dbVars, workerVars, tomb>>

\* The cleaner stops at any point: the deletion failed, was not acknowledged,
\* or the process died.
AbandonCleanup(k) ==
  /\ sweep[k] # Idle
  /\ sweep' = [sweep EXCEPT ![k] = Idle]
  /\ \/ ~sweep[k].erased /\ stored' = stored \ {sweep[k].of}
     \/ UNCHANGED stored
  /\ UNCHANGED <<dbVars, workerVars, tomb>>

\* complete_pdf_report_cleanup_v1: the first deletion is checked again later,
\* the second is the last.
CompleteCleanup(k) ==
  LET o == sweep[k].of
  IN  /\ sweep[k].erased
      /\ sweep' = [sweep EXCEPT ![k] = Idle]
      /\ IF Holds(k)
         THEN tomb' = [tomb EXCEPT ![o].by = Nobody, ![o].live = FALSE, ![o].due = FALSE,
                                   ![o].deletes = @ + 1]
         ELSE UNCHANGED tomb
      /\ UNCHANGED <<dbVars, workerVars, stored>>

-----------------------------------------------------------------------------
(***************************************************************************)
(* Time, and the operator.                                                 *)
(***************************************************************************)

AgeLease(c) ==
  /\ lease[c] > 0
  /\ lease' = [lease EXCEPT ![c] = @ - 1]
  /\ UNCHANGED <<report, object, retained, attempts, fence, processing>>
  /\ UNCHANGED <<workerVars, cleanerVars, stored>>

EndRetention(c) ==
  /\ retained[c] /\ report[c] \notin {"absent", "removed"}
  /\ retained' = [retained EXCEPT ![c] = FALSE]
  /\ UNCHANGED <<report, object, attempts, fence, lease, processing>>
  /\ UNCHANGED <<workerVars, cleanerVars, stored>>

\* It also stands for two overlapping claims that read the same free tombstone.
LapseCleanup(o) ==
  /\ tomb[o].live
  /\ tomb' = [tomb EXCEPT ![o].live = FALSE]
  /\ UNCHANGED <<dbVars, workerVars, stored, sweep>>

\* Five minutes after its first deletion a tombstone is due again.  Five minutes
\* exceed the time limits of a render and of a request to Storage, so the worker
\* of that attempt has given up and what it sent has landed or is lost.
Recheck(o) ==
  /\ tomb[o].is /\ tomb[o].deletes = 1 /\ ~tomb[o].due
  /\ writer[o] \notin {"working", "posting"} /\ o \notin flying
  /\ tomb' = [tomb EXCEPT ![o].due = TRUE]
  /\ UNCHANGED <<dbVars, workerVars, stored, sweep>>

\* The case is deleted, and its report and dispatch row with it; tombstones stay.
RemoveCase(c) ==
  /\ c \in Removable /\ report[c] \notin {"absent", "removed"}
  /\ report' = [report EXCEPT ![c] = "removed"]
  /\ object' = [object EXCEPT ![c] = 0]
  /\ Release({c})
  /\ UNCHANGED <<retained, attempts, processing, workerVars, cleanerVars, stored>>

Next ==
  \/ \E seen \in SUBSET Cases : Claim(seen)
  \/ \E c \in Cases :
       \/ Enqueue(c) \/ AgeLease(c) \/ EndRetention(c) \/ RemoveCase(c)
       \/ \E n \in Attempts :
            \/ Heartbeat(c, n) \/ Complete(c, n) \/ Fail(c, n) \/ GiveUp(c, n)
            \/ Post(c, n) \/ Lands(c, n) \/ IsLost(c, n)
  \/ \E k \in Cleaners :
       \/ \E o \in Objects : ClaimCleanup(k, o)
       \/ Erase(k) \/ AbandonCleanup(k) \/ CompleteCleanup(k)
  \/ \E o \in Objects : LapseCleanup(o) \/ Recheck(o)

Spec == Init /\ [][Next]_vars

(***************************************************************************)
(* A worker polls, leases lapse, requests land or are lost and a handler   *)
(* comes to an end.  One cleaner polls, does not skip a tombstone for ever *)
(* and, however often its deletions fail, does not fail always.            *)
(***************************************************************************)
Fairness ==
  /\ WF_vars(Claim(Cases))
  /\ \A c \in Cases :
       /\ WF_vars(AgeLease(c))
       /\ \A n \in Attempts : WF_vars(Lands(c, n) \/ IsLost(c, n))
                            /\ WF_vars(GiveUp(c, n))
  /\ \A o \in Objects :
       /\ WF_vars(LapseCleanup(o)) /\ WF_vars(Recheck(o))
       /\ SF_vars(\E k \in Cleaners : ClaimCleanup(k, o))
       /\ SF_vars(\E k \in Cleaners : sweep[k].of = o /\ Erase(k))
       /\ SF_vars(\E k \in Cleaners : sweep[k].of = o /\ CompleteCleanup(k))

FairSpec == Spec /\ Fairness

-----------------------------------------------------------------------------
(***************************************************************************)
(* Properties.                                                             *)
(***************************************************************************)

\* A report that can be downloaded was published by its last attempt, once, and
\* no other attempt succeeded.
PublishedByLastAttempt ==
  \A c \in Cases :
    /\ report[c] = "ready" => object[c] = attempts[c]
    /\ \A n \in Attempts : processing[c][n] = "succeeded" /\ report[c] # "removed"
                             => report[c] = "ready" /\ object[c] = n

\* The object of a report that can be downloaded is in Storage and no cleaner
\* holds a claim on it, although every attempt starts with a tombstone.
ReadyIsSafe ==
  \A o \in Objects : Current(o) =>
    o \in stored /\ \A k \in Cleaners : sweep[k].of # o

\* A tombstone that nobody will take again leaves nothing behind: the delayed
\* second deletion catches a PDF that landed after the first.
SweptForGood ==
  \A o \in Objects : tomb[o].deletes = MaxDeletes => o \notin stored \cup flying

\* What the owner of a case gets who downloads its report now.
Copy(c) == LET o == <<c, object[c]>> IN IF Current(o) /\ o \in stored THEN object[c] ELSE 0

Download(c) == INSTANCE ReportDownload WITH
                 MaxTries <- MaxAttempts,
                 status <- report[c], tries <- attempts[c], record <- processing[c],
                 leased <- lease[c] > 0, kept <- retained[c], copy <- Copy(c)

\* Every report keeps what was promised of it: no worker is replaced while its
\* lease lives, a report fails only when its attempts are used up or its case is
\* past retention, and a published one is final and can be downloaded until then,
\* whatever workers and cleaners do to the objects in Storage.
ImplementsDownloads ==
  /\ \A c \in Cases : Download(c)!DInit
  /\ [][\A c \in Cases : [Download(c)!DNext]_(Download(c)!dvars)]_vars

\* A report that is being generated becomes ready or failed, or goes with its
\* case, even if every worker dies.
ReportsEnd ==
  \A c \in Cases : report[c] = "generating" ~> report[c] # "generating"

\* A PDF that nobody can download does not stay in Storage, unless its case was
\* deleted (RemovedCasesAreTracked).
StrayObjectsGo ==
  \A o \in Objects :
    o \in stored ~> (o \notin stored \/ Current(o) \/ report[o[1]] = "removed")

\* "this tombstone deliberately survives so its private object can still be
\* deleted": a case that is deleted leaves a tombstone for its report.
RemovedCasesAreTracked ==
  \A o \in Objects : report[o[1]] = "removed" /\ o \in stored => tomb[o].is
==============================================================================
