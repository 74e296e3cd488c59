---------------------------- MODULE AnalysisQueue ----------------------------
(***************************************************************************)
(* The life of an analysis run as the PostgreSQL functions of the service  *)
(* keep it: workspace.analysis_run and its dispatch row, the rows of       *)
(* ops.processing_run that record its attempts, and the result session     *)
(* that a published run opens for its owner.                               *)
(*                                                                         *)
(* Every function runs in one transaction and locks the rows it decides    *)
(* on, so a call is one step here.  Callers are not modelled: a worker may *)
(* present any fencing token that was ever issued, at any time, however    *)
(* often and in whatever order.  That covers crashed and resumed workers,  *)
(* lost and duplicated calls and replies that never arrive.                *)
(*                                                                         *)
(* A deadline is a Boolean, TRUE until the database clock passes it, and a *)
(* lease counts down.  The Expire and Age actions may let any of them pass *)
(* at any moment, whatever the configured lengths are, so every order of   *)
(* expiries is explored.                                                   *)
(***************************************************************************)
EXTENDS Naturals, FiniteSets

CONSTANTS
  Runs,        \* the (owner, Idempotency-Key) pairs: each names one run
  Users,       \* the owners
  Owner,       \* the owner of each run
  QueueLimit,  \* prereview.global_queue_max
  LeaseTerm    \* the lease a claim or a heartbeat grants, in ticks

ASSUME RunsAssumption  == IsFiniteSet(Runs)
ASSUME OwnerAssumption == Owner \in [Runs -> Users]
ASSUME LimitAssumption == QueueLimit \in Nat \ {0}
ASSUME LeaseAssumption == LeaseTerm \in Nat \ {0}

VARIABLES
  status,        \* analysis_run.status; "absent" before the row is inserted
  fresh,         \* analysis_run.expires_at > now
  attempts,      \* analysis_run_dispatch.attempt_count
  fence,         \* dispatch.processing_run_pk, by attempt number; 0 is NULL
  lease,         \* ticks until dispatch.lease_expires_at; 0 is lapsed or NULL
  processing,    \* processing_run.status of each attempt
  session,       \* analysis_session.status; "none" before the row exists
  sessionFresh,  \* analysis_session.expires_at > now
  chatLoad       \* generating assistant turns counted by the admission gate

runVars  == <<status, fresh>>
jobVars  == <<attempts, fence, lease, processing>>
sessVars == <<session, sessionFresh>>
vars     == <<runVars, jobVars, sessVars, chatLoad>>

MaxAttempts == 2
Attempts    == 1..MaxAttempts

ActiveStatus == {"uploading", "queued", "running"}
RunStatus    == {"absent", "cleanup_pending", "succeeded", "failed"}
                   \cup ActiveStatus

\* Counters stay within the attempt budget, leases within the granted term, and
\* statuses within the table's CHECK constraints.
TypeOK ==
  /\ status       \in [Runs -> RunStatus]
  /\ fresh        \in [Runs -> BOOLEAN]
  /\ attempts     \in [Runs -> 0..MaxAttempts]
  /\ fence        \in [Runs -> 0..MaxAttempts]
  /\ lease        \in [Runs -> 0..LeaseTerm]
  /\ processing   \in [Runs -> [Attempts -> {"none", "running", "succeeded", "failed"}]]
  /\ session      \in [Runs -> {"none", "active", "closed", "expired"}]
  /\ sessionFresh \in [Runs -> BOOLEAN]
  /\ chatLoad     \in 0..QueueLimit

Init ==
  /\ status       = [r \in Runs |-> "absent"]
  /\ fresh        = [r \in Runs |-> FALSE]
  /\ attempts     = [r \in Runs |-> 0]
  /\ fence        = [r \in Runs |-> 0]
  /\ lease        = [r \in Runs |-> 0]
  /\ processing   = [r \in Runs |-> [n \in Attempts |-> "none"]]
  /\ session      = [r \in Runs |-> "none"]
  /\ sessionFresh = [r \in Runs |-> FALSE]
  /\ chatLoad     = 0

OwnedBy(u) == {r \in Runs : Owner[r] = u}

-----------------------------------------------------------------------------
(***************************************************************************)
(* Slips that the properties below must catch.  They are no part of Spec:  *)
(* each is what the operator or action it is named after would be with one *)
(* condition or update forgotten.                                          *)
(***************************************************************************)

\* MayBegin without the look at the owner's session.
MayBeginDuringReview(u, st) == \A q \in OwnedBy(u) : st[q] \notin ActiveStatus

\* Exhausted without the case of a lapsed lease.
ExhaustedWhenReleased(r) ==
  status[r] = "running" /\ attempts[r] >= MaxAttempts /\ fence[r] = 0

\* Release that keeps the fence.
ReleaseLeaseOnly(S) ==
  /\ lease' = [r \in Runs |-> IF r \in S THEN 0 ELSE lease[r]]
  /\ UNCHANGED fence

\* WithFailedAttempts that leaves an abandoned attempt live.
WithAttemptsLeftLive(S) == processing

\* WithStaleSessionsExpired that leaves them active.
WithStaleSessionsKept(u) == session

\* ReserveReplay that renews a lapsed reservation without a slot.
ReserveReplayUnadmitted(r) ==
  /\ status[r] = "uploading"
  /\ fresh' = [fresh EXCEPT ![r] = TRUE]
  /\ UNCHANGED <<status, jobVars, sessVars, chatLoad>>

\* MarkCleanupPending that does not look at the status.
MarkCleanupPendingAnyRun(r) ==
  /\ status[r] # "absent"
  /\ fence[r] = 0
  /\ status' = [status EXCEPT ![r] = "cleanup_pending"]
  /\ UNCHANGED <<fresh, jobVars, sessVars, chatLoad>>

\* Claimable with the attempt budget off by one.
ClaimableOnceMore(r) ==
  /\ attempts[r] <= MaxAttempts
  /\ \/ status[r] = "queued" /\ fresh[r]
     \/ status[r] = "running" /\ (fence[r] = 0 \/ lease[r] = 0)

\* Exhausted that takes the last attempt for lost as soon as it has started.
ExhaustedWhileLeased(r) == status[r] = "running" /\ attempts[r] >= MaxAttempts

-----------------------------------------------------------------------------
(***************************************************************************)
(* Pieces shared by several functions.                                     *)
(***************************************************************************)

\* The runs that hold a slot of the global queue, given their statuses.
Occupying(st) ==
  {r \in Runs : \/ st[r] = "running"
                \/ st[r] \in {"uploading", "queued"} /\ fresh[r]}

\* admit_global_queue_work_v2 does not raise.
Admits(st) == Cardinality(Occupying(st)) + chatLoad < QueueLimit

\* The owner has no other work: no active run, given the statuses, and no
\* session still under review.
MayBegin(u, st) ==
  /\ \A q \in OwnedBy(u) : st[q] \notin ActiveStatus
  /\ \A q \in OwnedBy(u) : ~(session[q] = "active" /\ sessionFresh[q])

\* The token names the live attempt of a running run.
Fenced(r, n) == status[r] = "running" /\ fence[r] = n /\ lease[r] > 0

\* Runs whose attempt budget is spent and whose last lease has lapsed.
Exhausted(r) == /\ status[r] = "running"
                /\ attempts[r] >= MaxAttempts
                /\ fence[r] = 0 \/ lease[r] = 0

\* The dispatch rows of S give up their lease.
Release(S) ==
  /\ fence'  = [r \in Runs |-> IF r \in S THEN 0 ELSE fence[r]]
  /\ lease' = [r \in Runs |-> IF r \in S THEN 0 ELSE lease[r]]

\* The attempts that hold the fence of a run in S, if live, become failed.
WithFailedAttempts(S) ==
  [r \in Runs |-> [n \in Attempts |->
     IF r \in S /\ fence[r] = n /\ processing[r][n] = "running"
     THEN "failed" ELSE processing[r][n]]]

\* The sessions of a user that are past their deadline become expired.
WithStaleSessionsExpired(u) ==
  [r \in Runs |-> IF Owner[r] = u /\ session[r] = "active" /\ ~sessionFresh[r]
                  THEN "expired" ELSE session[r]]

\* What reconcile_stale_analysis_runs_for_user_core_v2 makes of each status.
Reconciled(u, collect) ==
  [r \in Runs |->
     IF Owner[r] # u THEN status[r]
     ELSE IF collect /\ status[r] = "uploading" /\ ~fresh[r] THEN "cleanup_pending"
     ELSE IF status[r] = "queued" /\ ~fresh[r] /\ fence[r] = 0 THEN "failed"
     ELSE IF Exhausted(r) THEN "failed"
     ELSE status[r]]

\* ... and of the attempts and leases of that user's exhausted runs.
ReconcileJobs(u) ==
  LET spent == {r \in OwnedBy(u) : Exhausted(r)}
  IN  /\ Release(spent)
      /\ processing' = WithFailedAttempts(spent)
      /\ UNCHANGED attempts

-----------------------------------------------------------------------------
(***************************************************************************)
(* The upload request: reserve, finalize, and the cleanup of a reservation *)
(* whose object must be deleted.  A call that raises changes nothing.      *)
(***************************************************************************)

\* reserve_analysis_upload_v2 for a key that has no row yet.
Reserve(r) ==
  LET u == Owner[r]
      st == Reconciled(u, TRUE)
  IN  /\ status[r] = "absent"
      /\ MayBegin(u, st)
      /\ Admits(st)
      /\ status'  = [st EXCEPT ![r] = "uploading"]
      /\ fresh'   = [fresh EXCEPT ![r] = TRUE]
      /\ session' = WithStaleSessionsExpired(u)
      /\ ReconcileJobs(u)
      /\ UNCHANGED <<sessionFresh, chatLoad>>

\* reserve_analysis_upload_v2 replayed for a row that is still uploading: a
\* lapsed reservation must be admitted again before it is renewed.  The replay
\* of a row in any other status writes nothing.
ReserveReplay(r) ==
  /\ status[r] = "uploading"
  /\ fresh[r] \/ Admits(status)
  /\ fresh' = [fresh EXCEPT ![r] = TRUE]
  /\ UNCHANGED <<status, jobVars, sessVars, chatLoad>>

\* finalize_analysis_upload_v2: the source is registered and the run queued;
\* a lapsed reservation that gets no slot is fenced into cleanup instead.
Finalize(r) ==
  /\ status[r] = "uploading"
  /\ IF fresh[r] \/ Admits(status)
     THEN /\ status' = [status EXCEPT ![r] = "queued"]
          /\ fresh'  = [fresh EXCEPT ![r] = TRUE]
     ELSE /\ status' = [status EXCEPT ![r] = "cleanup_pending"]
          /\ UNCHANGED fresh
  /\ UNCHANGED <<jobVars, sessVars, chatLoad>>

\* mark_upload_cleanup_pending, after a failed or rejected upload.
MarkCleanupPending(r) ==
  /\ status[r] = "uploading"
  /\ fence[r] = 0
  /\ status' = [status EXCEPT ![r] = "cleanup_pending"]
  /\ UNCHANGED <<fresh, jobVars, sessVars, chatLoad>>

\* complete_upload_cleanup, after the object was deleted.
CompleteCleanup(r) ==
  /\ status[r] = "cleanup_pending"
  /\ status' = [status EXCEPT ![r] = "failed"]
  /\ UNCHANGED <<fresh, jobVars, sessVars, chatLoad>>

-----------------------------------------------------------------------------
(***************************************************************************)
(* The worker's calls.                                                     *)
(***************************************************************************)

\* Candidates of the claim: never more than MaxAttempts attempts, and either
\* waiting within the queue deadline or abandoned by a lapsed lease.
Claimable(r) ==
  /\ attempts[r] < MaxAttempts
  /\ \/ status[r] = "queued" /\ fresh[r]
     \/ status[r] = "running" /\ (fence[r] = 0 \/ lease[r] = 0)

\* claim_next_analysis_run.  SKIP LOCKED hides the rows other transactions
\* hold, so the call sees some set of rows; it settles every overdue queued
\* run and every exhausted one among them and then takes a candidate, if any.
\* Since any older row may be the hidden one, created_at order is left out.
Claim(seen) ==
  LET overdue == {r \in seen : status[r] = "queued" /\ ~fresh[r]}
      spent   == {r \in seen : Exhausted(r)}
      settled == overdue \cup spent
      taken   == {r \in seen : Claimable(r)}
      st      == [r \in Runs |-> IF r \in settled THEN "failed" ELSE status[r]]
  IN  /\ UNCHANGED <<fresh, sessVars, chatLoad>>
      /\ \/ /\ taken = {}
            /\ status' = st
            /\ Release(settled)
            /\ processing' = WithFailedAttempts(settled)
            /\ UNCHANGED attempts
         \/ \E r \in taken :
              LET n == attempts[r] + 1
              IN  /\ status'   = [st EXCEPT ![r] = "running"]
                  /\ attempts' = [attempts EXCEPT ![r] = n]
                  /\ fence'    = [q \in Runs |-> IF q = r THEN n
                                                 ELSE IF q \in settled THEN 0 ELSE fence[q]]
                  /\ lease'    = [q \in Runs |-> IF q = r THEN LeaseTerm
                                                 ELSE IF q \in settled THEN 0 ELSE lease[q]]
                  /\ processing' =
                       [WithFailedAttempts(settled \cup {r}) EXCEPT ![r][n] = "running"]

\* heartbeat_analysis_run: only a lease that has not lapsed is extended.
Heartbeat(r, n) ==
  /\ Fenced(r, n)
  /\ lease' = [lease EXCEPT ![r] = LeaseTerm]
  /\ UNCHANGED <<runVars, attempts, fence, processing, sessVars, chatLoad>>

\* fail_analysis_run: the first failure requeues the run with the deadline it
\* was first queued under, the second is final.
Fail(r, n) ==
  /\ Fenced(r, n)
  /\ processing[r][n] = "running"
  /\ processing' = [processing EXCEPT ![r][n] = "failed"]
  /\ Release({r})
  /\ status' = [status EXCEPT ![r] = IF attempts[r] < MaxAttempts
                                     THEN "queued" ELSE "failed"]
  /\ UNCHANGED <<fresh, attempts, sessVars, chatLoad>>

\* persist_analysis_result_core_v2 with a token that is fenced out: the stale
\* sessions of the owner are expired before the fence is tested.
CompleteFencedOut(r, n) ==
  /\ status[r] # "absent"
  /\ ~Fenced(r, n)
  /\ session' = WithStaleSessionsExpired(Owner[r])
  /\ UNCHANGED <<runVars, jobVars, sessionFresh, chatLoad>>

\* persist_analysis_result_core_v2 with the live token.  The case is inserted
\* ready and its session opened; were there already a session of this case
\* that is closed or expired, it would be left as it is.
Complete(r, n) ==
  LET settled == WithStaleSessionsExpired(Owner[r])
      kept    == settled[r] \in {"closed", "expired"}
  IN  /\ Fenced(r, n)
      /\ processing[r][n] = "running"
      /\ session' = [settled EXCEPT ![r] = IF kept THEN @ ELSE "active"]
      /\ sessionFresh' = [sessionFresh EXCEPT ![r] = IF kept THEN @ ELSE TRUE]
      /\ processing' = [processing EXCEPT ![r][n] = "succeeded"]
      /\ Release({r})
      /\ status' = [status EXCEPT ![r] = "succeeded"]
      /\ UNCHANGED <<fresh, attempts, chatLoad>>

-----------------------------------------------------------------------------
(***************************************************************************)
(* The owner's calls, the chat's share of the queue, and time.             *)
(***************************************************************************)

\* rpc_get_analysis_current_v2: reconciles without collecting uploads.
GetCurrent(u) ==
  /\ status' = Reconciled(u, FALSE)
  /\ ReconcileJobs(u)
  /\ session' = WithStaleSessionsExpired(u)
  /\ UNCHANGED <<fresh, sessionFresh, chatLoad>>

\* rpc_close_analysis_session_v2.
CloseSession(r) ==
  /\ session[r] = "active"
  /\ session' = [session EXCEPT ![r] = IF sessionFresh[r] THEN "closed" ELSE "expired"]
  /\ UNCHANGED <<runVars, jobVars, sessionFresh, chatLoad>>

\* A chat turn passes the same admission gate ...
ChatAdmit ==
  /\ Admits(status)
  /\ chatLoad' = chatLoad + 1
  /\ UNCHANGED <<runVars, jobVars, sessVars>>

\* ... and gives its slot back when its answer is terminal.
ChatDone ==
  /\ chatLoad > 0
  /\ chatLoad' = chatLoad - 1
  /\ UNCHANGED <<runVars, jobVars, sessVars>>

ExpireRun(r) ==
  /\ status[r] \in {"uploading", "queued", "running"}
  /\ fresh[r]
  /\ fresh' = [fresh EXCEPT ![r] = FALSE]
  /\ UNCHANGED <<status, jobVars, sessVars, chatLoad>>

AgeLease(r) ==
  /\ lease[r] > 0
  /\ lease' = [lease EXCEPT ![r] = lease[r] - 1]
  /\ UNCHANGED <<runVars, attempts, fence, processing, sessVars, chatLoad>>

ExpireSession(r) ==
  /\ sessionFresh[r]
  /\ sessionFresh' = [sessionFresh EXCEPT ![r] = FALSE]
  /\ UNCHANGED <<runVars, jobVars, session, chatLoad>>

Next ==
  \/ \E r \in Runs :
       \/ Reserve(r) \/ ReserveReplay(r) \/ Finalize(r)
       \/ MarkCleanupPending(r) \/ CompleteCleanup(r)
       \/ CloseSession(r)
       \/ ExpireRun(r) \/ AgeLease(r) \/ ExpireSession(r)
       \/ \E n \in Attempts :
            Heartbeat(r, n) \/ Fail(r, n) \/ Complete(r, n) \/ CompleteFencedOut(r, n)
  \/ \E seen \in SUBSET Runs : Claim(seen)
  \/ \E u \in Users : GetCurrent(u)
  \/ ChatAdmit \/ ChatDone

Spec == Init /\ [][Next]_vars

(***************************************************************************)
(* Liveness assumes that some worker keeps polling, that the clock moves,  *)
(* and that the holder of a live token ends its attempt unless it loses    *)
(* the lease first: WorkerRuntime.run_once follows every handler, returned *)
(* or raised, by one call of complete or fail.  Owners owe nothing.        *)
(***************************************************************************)
Fairness ==
  /\ WF_vars(Claim(Runs))
  /\ \A r \in Runs :
       /\ WF_vars(AgeLease(r))
       /\ \A n \in Attempts : WF_vars(Fail(r, n) \/ Complete(r, n))

FairSpec == Spec /\ Fairness

-----------------------------------------------------------------------------
(***************************************************************************)
(* Safety.                                                                 *)
(***************************************************************************)

LiveAttempts(r) == {n \in Attempts : processing[r][n] = "running"}

\* A running run has exactly one live attempt, the one its dispatch row names
\* and the last one started; any other run has none and an empty lease.  This
\* is what assert_analysis_run_fence raises on, so no transaction of these
\* functions is ever rolled back by that deferred trigger.
FenceNamesTheLiveAttempt ==
  \A r \in Runs :
    IF status[r] = "running"
    THEN /\ LiveAttempts(r) = {fence[r]}
         /\ fence[r] = attempts[r]
    ELSE LiveAttempts(r) = {} /\ fence[r] = 0 /\ lease[r] = 0

\* The same, run by run and with the whole history of attempts: attempts are
\* started in order, all but the last one have failed, the last one is what the
\* status of the run says, and only a succeeded run has opened a session.  So a
\* result is published once and by the last attempt.  It implies
\* FenceNamesTheLiveAttempt and, unlike it, is preserved by every function
\* (AnalysisQueueProofs).
RunHistory(r) ==
  /\ IF status[r] = "running"
     THEN attempts[r] > 0 /\ fence[r] = attempts[r]
     ELSE fence[r] = 0 /\ lease[r] = 0
  /\ session[r] # "none" <=> status[r] = "succeeded"
  /\ \A n \in Attempts :
       /\ processing[r][n] = "none"      <=> n > attempts[r]
       /\ processing[r][n] = "running"   <=> status[r] = "running"   /\ n = attempts[r]
       /\ processing[r][n] = "succeeded" <=> status[r] = "succeeded" /\ n = attempts[r]

AttemptHistory == \A r \in Runs : RunHistory(r)

\* An owner who has a run in progress has no session under review: neither of
\* the partial unique indexes (one active run, one active session per owner)
\* is hit by a publication, which would roll a finished analysis back.
RunsAndSessionsExclude ==
  \A q, r \in Runs : Owner[q] = Owner[r] =>
    /\ status[q] \in ActiveStatus /\ status[r] \in ActiveStatus => q = r
    /\ session[q] = "active" /\ session[r] = "active" => q = r
    /\ ~(status[q] \in ActiveStatus /\ session[r] = "active" /\ sessionFresh[r])

\* However reservations, replays, finalizations, claims, failures and chat
\* turns interleave, the work that holds a slot never exceeds the limit.
AdmissionBound == Cardinality(Occupying(status)) + chatLoad <= QueueLimit

\* What a caller was told stays true: a terminal run never leaves its status,
\* a run sent to cleanup can only fail, and a finished attempt is never
\* rewritten, whichever stale tokens are still presented.
History ==
  [][\A r \in Runs :
       /\ status[r] \in {"succeeded", "failed"} => status'[r] = status[r]
       /\ status[r] = "cleanup_pending" => status'[r] \in {"cleanup_pending", "failed"}
       /\ attempts'[r] \in {attempts[r], attempts[r] + 1}
       /\ \A n \in Attempts : processing[r][n] \in {"succeeded", "failed"}
                               => processing'[r][n] = processing[r][n]]_vars

\* While a lease lasts, only the token that holds it ends the attempt: neither
\* the owner's polls and uploads, which reconcile his runs, nor the queue
\* deadline of the run, nor another worker's claim, which settles and takes
\* runs, touches an attempt whose worker may still publish.
LeaseHolderDecides ==
  [][\A r \in Runs : lease[r] > 0 =>
       \/ Fail(r, fence[r])
       \/ Complete(r, fence[r])
       \/ /\ status'[r] = status[r]
          /\ attempts'[r] = attempts[r]
          /\ fence'[r] = fence[r]
          /\ processing'[r] = processing[r]]_vars

\* Every registered run ends: published, or failed with a public reason.
QueuedRunsEnd ==
  \A r \in Runs : status[r] \in {"queued", "running"}
                     ~> status[r] \in {"succeeded", "failed"}
==============================================================================
