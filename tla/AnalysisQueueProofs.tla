------------------------- MODULE AnalysisQueueProofs -------------------------
(* Proofs, for every set of runs and owners and every queue limit and lease  *)
(* length, of the safety properties of AnalysisQueue, and that the queue     *)
(* implements the view its owners are promised (UserWorkspaceRefinement).    *)
EXTENDS UserWorkspaceRefinement, FiniteSetTheorems, TLAPS

-----------------------------------------------------------------------------
(***************************************************************************)
(* What the helpers return.                                                *)
(***************************************************************************)
ProcessingStatus == {"none", "running", "succeeded", "failed"}
SessionStatus    == {"none", "active", "closed", "expired"}

\* Releasing dispatch rows leaves fences and leases in their types.
LEMMA ReleaseType ==
  ASSUME TypeOK, NEW S, Release(S)
  PROVE  /\ fence' \in [Runs -> 0..MaxAttempts]
         /\ lease' \in [Runs -> 0..LeaseTerm]
BY LeaseAssumption DEF TypeOK, Release, MaxAttempts

\* Failing the live attempts of a set of runs yields attempt statuses.
LEMMA FailedAttemptsType ==
  ASSUME TypeOK, NEW S
  PROVE  WithFailedAttempts(S) \in [Runs -> [Attempts -> ProcessingStatus]]
BY DEF TypeOK, WithFailedAttempts, ProcessingStatus

\* Expiring the stale sessions of a user yields session statuses.
LEMMA StaleSessionsType ==
  ASSUME TypeOK, NEW u
  PROVE  WithStaleSessionsExpired(u) \in [Runs -> SessionStatus]
BY DEF TypeOK, WithStaleSessionsExpired, SessionStatus

\* Reconciling the runs of a user yields run statuses.
LEMMA ReconciledType ==
  ASSUME TypeOK, NEW u, NEW collect
  PROVE  Reconciled(u, collect) \in [Runs -> RunStatus]
BY DEF TypeOK, Reconciled, RunStatus

\* ... and leaves the dispatch rows and attempts in their types.
LEMMA ReconcileJobsType ==
  ASSUME TypeOK, NEW u, ReconcileJobs(u)
  PROVE  /\ fence' \in [Runs -> 0..MaxAttempts]
         /\ lease' \in [Runs -> 0..LeaseTerm]
         /\ attempts' \in [Runs -> 0..MaxAttempts]
         /\ processing' \in [Runs -> [Attempts -> ProcessingStatus]]
BY ReleaseType, FailedAttemptsType DEF ReconcileJobs, TypeOK

-----------------------------------------------------------------------------
\* Every step of the specification, including the stuttering one, keeps each
\* variable in its type.
LEMMA TypeStep == TypeOK /\ [Next]_vars => TypeOK'
<1> SUFFICES ASSUME TypeOK, [Next]_vars PROVE TypeOK'
  OBVIOUS
<1> USE LimitAssumption, LeaseAssumption DEF ProcessingStatus, SessionStatus
<1>1. ASSUME NEW r \in Runs, Reserve(r) PROVE TypeOK'
  <2>1. status' \in [Runs -> RunStatus]
    BY <1>1, ReconciledType DEF Reserve, RunStatus, ActiveStatus
  <2>2. session' \in [Runs -> SessionStatus]
    BY <1>1, StaleSessionsType DEF Reserve
  <2>3. ReconcileJobs(Owner[r])
    BY <1>1 DEF Reserve
  <2>4. QED
    BY <1>1, <2>1, <2>2, <2>3, ReconcileJobsType DEF Reserve, TypeOK
<1>2. ASSUME NEW r \in Runs, ReserveReplay(r) PROVE TypeOK'
  BY <1>2 DEF ReserveReplay, jobVars, sessVars, TypeOK
<1>3. ASSUME NEW r \in Runs, Finalize(r) PROVE TypeOK'
  BY <1>3 DEF Finalize, jobVars, sessVars, RunStatus, ActiveStatus, TypeOK
<1>4. ASSUME NEW r \in Runs, MarkCleanupPending(r) \/ CompleteCleanup(r) PROVE TypeOK'
  BY <1>4 DEF MarkCleanupPending, CompleteCleanup, jobVars, sessVars, RunStatus, TypeOK
<1>5. ASSUME NEW r \in Runs, CloseSession(r) PROVE TypeOK'
  BY <1>5 DEF CloseSession, runVars, jobVars, TypeOK
<1>6. ASSUME NEW r \in Runs, ExpireRun(r) \/ ExpireSession(r) PROVE TypeOK'
  BY <1>6 DEF ExpireRun, ExpireSession, runVars, jobVars, sessVars, TypeOK
<1>7. ASSUME NEW r \in Runs, AgeLease(r) PROVE TypeOK'
  <2>1. lease[r] - 1 \in 0..LeaseTerm
    BY <1>7 DEF AgeLease, TypeOK
  <2>2. QED
    BY <1>7, <2>1 DEF AgeLease, runVars, sessVars, TypeOK
<1>8. ASSUME NEW r \in Runs, NEW n \in Attempts, Heartbeat(r, n) PROVE TypeOK'
  <2>1. LeaseTerm \in 0..LeaseTerm
    OBVIOUS
  <2>2. QED
    BY <1>8, <2>1 DEF Heartbeat, runVars, sessVars, TypeOK
<1>9. ASSUME NEW r \in Runs, NEW n \in Attempts, Fail(r, n) PROVE TypeOK'
  <2>1. Release({r})
    BY <1>9 DEF Fail
  <2>2. status' \in [Runs -> RunStatus]
    BY <1>9 DEF Fail, RunStatus, ActiveStatus, TypeOK
  <2>3. processing' \in [Runs -> [Attempts -> ProcessingStatus]]
    BY <1>9 DEF Fail, TypeOK
  <2>4. QED
    BY <1>9, <2>1, <2>2, <2>3, ReleaseType DEF Fail, sessVars, TypeOK
<1>10. ASSUME NEW r \in Runs, NEW n \in Attempts, Complete(r, n) PROVE TypeOK'
  <2>1. Release({r})
    BY <1>10 DEF Complete
  <2>2. session' \in [Runs -> SessionStatus]
    BY <1>10, StaleSessionsType DEF Complete
  <2>3. processing' \in [Runs -> [Attempts -> ProcessingStatus]]
    BY <1>10 DEF Complete, TypeOK
  <2>4. sessionFresh' \in [Runs -> BOOLEAN]
    BY <1>10 DEF Complete, TypeOK
  <2>5. status' \in [Runs -> RunStatus]
    BY <1>10 DEF Complete, RunStatus, TypeOK
  <2>6. QED
    BY <1>10, <2>1, <2>2, <2>3, <2>4, <2>5, ReleaseType DEF Complete, TypeOK
<1>11. ASSUME NEW r \in Runs, NEW n \in Attempts, CompleteFencedOut(r, n) PROVE TypeOK'
  BY <1>11, StaleSessionsType DEF CompleteFencedOut, runVars, jobVars, TypeOK
<1>12. ASSUME NEW seen \in SUBSET Runs, Claim(seen) PROVE TypeOK'
  <2> DEFINE overdue == {r \in seen : status[r] = "queued" /\ ~fresh[r]}
             settled == overdue \cup {r \in seen : Exhausted(r)}
             st      == [r \in Runs |-> IF r \in settled THEN "failed" ELSE status[r]]
             failed(S) == WithFailedAttempts(S)
  <2>1. st \in [Runs -> RunStatus]
    BY DEF TypeOK, RunStatus
  <2>2. \A S : failed(S) \in [Runs -> [Attempts -> ProcessingStatus]]
    BY FailedAttemptsType
  <2> HIDE DEF st, settled, failed
  <2>3. UNCHANGED <<fresh, sessVars, chatLoad>>
    BY <1>12 DEF Claim
  <2>4. CASE /\ status' = st
             /\ Release(settled)
             /\ processing' = failed(settled)
             /\ UNCHANGED attempts
    BY <2>1, <2>2, <2>3, <2>4, ReleaseType DEF TypeOK, sessVars
  <2>5. ASSUME NEW r \in seen, Claimable(r),
               status' = [st EXCEPT ![r] = "running"],
               attempts' = [attempts EXCEPT ![r] = attempts[r] + 1],
               fence' = [q \in Runs |-> IF q = r THEN attempts[r] + 1
                                        ELSE IF q \in settled THEN 0 ELSE fence[q]],
               lease' = [q \in Runs |-> IF q = r THEN LeaseTerm
                                        ELSE IF q \in settled THEN 0 ELSE lease[q]],
               processing' = [failed(settled \cup {r})
                                EXCEPT ![r][attempts[r] + 1] = "running"]
        PROVE TypeOK'
    <3>1. attempts[r] + 1 \in Attempts /\ attempts[r] + 1 \in 0..MaxAttempts
      BY <2>5 DEF Claimable, TypeOK, Attempts, MaxAttempts
    <3>2. status' \in [Runs -> RunStatus]
      BY <2>1, <2>5 DEF RunStatus, ActiveStatus
    <3>3. processing' \in [Runs -> [Attempts -> ProcessingStatus]]
      BY <2>2, <2>5
    <3>4. /\ attempts' \in [Runs -> 0..MaxAttempts]
          /\ fence' \in [Runs -> 0..MaxAttempts]
          /\ lease' \in [Runs -> 0..LeaseTerm]
      BY <2>5, <3>1 DEF TypeOK, MaxAttempts
    <3>5. QED
      BY <2>3, <3>2, <3>3, <3>4 DEF TypeOK, sessVars
  <2>6. QED
    BY <1>12, <2>4, <2>5 DEF Claim, settled, st, failed
<1>13. ASSUME NEW u \in Users, GetCurrent(u) PROVE TypeOK'
  BY <1>13, ReconciledType, StaleSessionsType, ReconcileJobsType DEF GetCurrent, TypeOK
<1>14. CASE ChatAdmit
  <2>1. IsFiniteSet(Occupying(status))
    BY RunsAssumption, FS_Subset DEF Occupying
  <2>2. Cardinality(Occupying(status)) \in Nat
    BY <2>1, FS_CardinalityType
  <2>3. chatLoad + 1 \in 0..QueueLimit
    BY <1>14, <2>2 DEF ChatAdmit, Admits, TypeOK
  <2>4. QED
    BY <1>14, <2>3 DEF ChatAdmit, runVars, jobVars, sessVars, TypeOK
<1>15. CASE ChatDone
  BY <1>15 DEF ChatDone, runVars, jobVars, sessVars, TypeOK
<1>16. CASE UNCHANGED vars
  BY <1>16 DEF vars, runVars, jobVars, sessVars, TypeOK
<1>17. QED
  BY <1>1, <1>2, <1>3, <1>4, <1>5, <1>6, <1>7, <1>8, <1>9, <1>10, <1>11, <1>12,
     <1>13, <1>14, <1>15, <1>16 DEF Next

\* Every variable always has its type.
THEOREM TypeCorrect == Spec => []TypeOK
<1>1. Init => TypeOK
  BY LimitAssumption, LeaseAssumption DEF Init, TypeOK, RunStatus, Attempts, MaxAttempts
<1>2. QED
  BY <1>1, TypeStep, PTL DEF Spec

-----------------------------------------------------------------------------
(***************************************************************************)
(* The history of the attempts.                                            *)
(***************************************************************************)

\* Failing the live attempts and clearing the leases of runs that then stop
\* running keeps the history of every run, whatever else becomes of statuses
\* that are neither running nor succeeded.
LEMMA SettledHistory ==
  ASSUME TypeOK, AttemptHistory, TypeOK',
         NEW S \in SUBSET Runs,
         Release(S), UNCHANGED attempts,
         processing' = WithFailedAttempts(S),
         NEW r \in Runs,
         status[r] = "running" => status'[r] = IF r \in S THEN "failed" ELSE "running",
         status[r] # "running" => status'[r] # "running",
         status'[r] = "succeeded" <=> status[r] = "succeeded",
         session'[r] # "none" <=> session[r] # "none"
  PROVE  RunHistory(r)'
<1>1. RunHistory(r)
  BY DEF AttemptHistory
<1>2. /\ attempts[r] \in 0..2
      /\ fence'[r] = IF r \in S THEN 0 ELSE fence[r]
      /\ lease'[r] = IF r \in S THEN 0 ELSE lease[r]
  BY DEF Release, TypeOK, MaxAttempts
<1>3. ASSUME NEW n \in Attempts
      PROVE  processing'[r][n] = IF r \in S /\ fence[r] = n /\ processing[r][n] = "running"
                                 THEN "failed" ELSE processing[r][n]
  BY DEF WithFailedAttempts
<1>4. CASE status[r] = "running"
  BY <1>1, <1>2, <1>3, <1>4 DEF RunHistory, Attempts, MaxAttempts
<1>5. CASE status[r] # "running"
  BY <1>1, <1>2, <1>3, <1>5 DEF RunHistory, Attempts, MaxAttempts
<1>6. QED
  BY <1>4, <1>5

\* Expiring sessions neither opens nor removes one.
LEMMA StaleSessionsKeep ==
  ASSUME TypeOK, NEW u, NEW r \in Runs
  PROVE  WithStaleSessionsExpired(u)[r] # "none" <=> session[r] # "none"
BY DEF TypeOK, WithStaleSessionsExpired

\* Reconciling stops exactly the user's exhausted runs and publishes nothing.
LEMMA ReconciledStatus ==
  ASSUME TypeOK, NEW u, NEW collect \in BOOLEAN, NEW r \in Runs
  PROVE  LET new == Reconciled(u, collect)[r]
         IN  /\ status[r] = "running" =>
                  new = IF r \in {q \in OwnedBy(u) : Exhausted(q)} THEN "failed" ELSE "running"
             /\ status[r] # "running" => new # "running"
             /\ new = "succeeded" <=> status[r] = "succeeded"
BY DEF TypeOK, Reconciled, OwnedBy, Exhausted

\* Every step keeps the history of every run.
LEMMA HistoryStep ==
  TypeOK /\ TypeOK' /\ AttemptHistory /\ [Next]_vars => AttemptHistory'
<1> SUFFICES ASSUME TypeOK, TypeOK', AttemptHistory, [Next]_vars, NEW q \in Runs
             PROVE  RunHistory(q)'
  BY DEF AttemptHistory
<1> RunHistory(q)
  BY DEF AttemptHistory
<1> attempts[q] \in 0..2
  BY DEF TypeOK, MaxAttempts
<1> USE DEF Attempts, MaxAttempts
<1>1. ASSUME NEW r \in Runs, Reserve(r) PROVE RunHistory(q)'
  <2> DEFINE u == Owner[r]
             spent == {p \in OwnedBy(u) : Exhausted(p)}
  <2>1. /\ spent \in SUBSET Runs
        /\ Release(spent)
        /\ processing' = WithFailedAttempts(spent)
        /\ UNCHANGED attempts
    BY <1>1 DEF Reserve, ReconcileJobs, OwnedBy
  <2>2. status' = [Reconciled(u, TRUE) EXCEPT ![r] = "uploading"]
    BY <1>1 DEF Reserve
  <2>3. session'[q] # "none" <=> session[q] # "none"
    BY <1>1, StaleSessionsKeep DEF Reserve
  <2>4. status[r] = "absent"
    BY <1>1 DEF Reserve
  <2>5. /\ status[q] = "running" => status'[q] = IF q \in spent THEN "failed" ELSE "running"
        /\ status[q] # "running" => status'[q] # "running"
        /\ status'[q] = "succeeded" <=> status[q] = "succeeded"
    BY <2>2, <2>4, ReconciledStatus, ReconciledType
  <2> HIDE DEF spent
  <2>6. QED
    BY <2>1, <2>3, <2>5, SettledHistory
<1>2. ASSUME NEW r \in Runs, ReserveReplay(r) \/ ExpireRun(r) \/ ExpireSession(r)
      PROVE  RunHistory(q)'
  BY <1>2 DEF ReserveReplay, ExpireRun, ExpireSession, runVars, jobVars, sessVars, RunHistory
<1>3. ASSUME NEW r \in Runs, Finalize(r) \/ MarkCleanupPending(r) \/ CompleteCleanup(r)
      PROVE  RunHistory(q)'
  BY <1>3 DEF Finalize, MarkCleanupPending, CompleteCleanup, jobVars, sessVars,
              RunHistory, TypeOK
<1>4. ASSUME NEW r \in Runs, CloseSession(r) PROVE RunHistory(q)'
  BY <1>4 DEF CloseSession, runVars, jobVars, RunHistory, TypeOK
<1>5. ASSUME NEW r \in Runs, AgeLease(r) PROVE RunHistory(q)'
  BY <1>5 DEF AgeLease, runVars, sessVars, RunHistory, TypeOK
<1>6. ASSUME NEW r \in Runs, NEW n \in Attempts, Heartbeat(r, n) PROVE RunHistory(q)'
  BY <1>6 DEF Heartbeat, Fenced, runVars, sessVars, RunHistory, TypeOK
<1>7. ASSUME NEW r \in Runs, NEW n \in Attempts, Fail(r, n) PROVE RunHistory(q)'
  <2>1. CASE q = r
    BY <1>7, <2>1 DEF Fail, Fenced, Release, sessVars, RunHistory, TypeOK
  <2>2. CASE q # r
    BY <1>7, <2>2 DEF Fail, Release, sessVars, RunHistory, TypeOK
  <2>3. QED
    BY <2>1, <2>2
<1>8. ASSUME NEW r \in Runs, NEW n \in Attempts, Complete(r, n) PROVE RunHistory(q)'
  <2> DEFINE settled == WithStaleSessionsExpired(Owner[r])
  <2>1. /\ settled \in [Runs -> SessionStatus]
        /\ settled[q] # "none" <=> session[q] # "none"
    BY StaleSessionsType, StaleSessionsKeep
  <2>2. session' = [settled EXCEPT ![r] = IF settled[r] \in {"closed", "expired"}
                                          THEN @ ELSE "active"]
    BY <1>8 DEF Complete
  <2> HIDE DEF settled
  <2>3. CASE q = r
    <3>1. session'[q] # "none"
      BY <2>1, <2>2, <2>3
    <3>2. QED
      BY <1>8, <2>3, <3>1 DEF Complete, Fenced, Release, RunHistory, TypeOK
  <2>4. CASE q # r
    <3>1. session'[q] # "none" <=> session[q] # "none"
      BY <2>1, <2>2, <2>4
    <3>2. QED
      BY <1>8, <2>4, <3>1 DEF Complete, Release, RunHistory, TypeOK
  <2>5. QED
    BY <2>3, <2>4
<1>9. ASSUME NEW r \in Runs, NEW n \in Attempts, CompleteFencedOut(r, n)
      PROVE  RunHistory(q)'
  BY <1>9, StaleSessionsKeep DEF CompleteFencedOut, runVars, jobVars, RunHistory
<1>10. ASSUME NEW seen \in SUBSET Runs, Claim(seen) PROVE RunHistory(q)'
  <2> DEFINE overdue == {r \in seen : status[r] = "queued" /\ ~fresh[r]}
             settled == overdue \cup {r \in seen : Exhausted(r)}
             st      == [r \in Runs |-> IF r \in settled THEN "failed" ELSE status[r]]
             failed(S) == WithFailedAttempts(S)
  <2>1. /\ settled \in SUBSET Runs
        /\ q \in settled => status[q] \in {"queued", "running"}
    BY DEF Exhausted
  <2>2. UNCHANGED session
    BY <1>10 DEF Claim, sessVars
  <2>3. \A S : \A n \in Attempts :
          failed(S)[q][n] = IF q \in S /\ fence[q] = n /\ processing[q][n] = "running"
                            THEN "failed" ELSE processing[q][n]
    BY DEF WithFailedAttempts
  <2>4. \A S : failed(S) \in [Runs -> [Attempts -> ProcessingStatus]]
    BY FailedAttemptsType
  <2>5. st[q] = IF q \in settled THEN "failed" ELSE status[q]
    OBVIOUS
  <2>6. CASE /\ status' = st
             /\ Release(settled)
             /\ processing' = failed(settled)
             /\ UNCHANGED attempts
    <3> HIDE DEF settled, st
    <3>1. /\ status[q] = "running" => status'[q] = IF q \in settled THEN "failed" ELSE "running"
          /\ status[q] # "running" => status'[q] # "running"
          /\ status'[q] = "succeeded" <=> status[q] = "succeeded"
      BY <2>1, <2>5, <2>6
    <3>2. QED
      BY <2>1, <2>2, <2>6, <3>1, SettledHistory
  <2>7. ASSUME NEW r \in seen, Claimable(r),
               status' = [st EXCEPT ![r] = "running"],
               attempts' = [attempts EXCEPT ![r] = attempts[r] + 1],
               fence' = [p \in Runs |-> IF p = r THEN attempts[r] + 1
                                        ELSE IF p \in settled THEN 0 ELSE fence[p]],
               lease' = [p \in Runs |-> IF p = r THEN LeaseTerm
                                        ELSE IF p \in settled THEN 0 ELSE lease[p]],
               processing' = [failed(settled \cup {r})
                                EXCEPT ![r][attempts[r] + 1] = "running"]
        PROVE RunHistory(q)'
    <3>1. /\ r \in Runs
          /\ attempts[r] < 2
          /\ status[r] \in {"queued", "running"}
      BY <2>7 DEF Claimable
    <3>2. status \in [Runs -> RunStatus] /\ st \in [Runs -> RunStatus]
      BY DEF TypeOK, RunStatus
    <3> HIDE DEF settled, st, failed
    <3>3. CASE q = r
      <4>1. /\ status'[q] = "running"
            /\ attempts'[q] = attempts[q] + 1
            /\ fence'[q] = attempts[q] + 1
        BY <2>7, <3>1, <3>2, <3>3 DEF TypeOK
      <4>2. \A n \in Attempts :
              processing'[q][n] = IF n = attempts[q] + 1 THEN "running"
                                  ELSE failed(settled \cup {r})[q][n]
        BY <2>4, <2>7, <3>1, <3>3
      <4>3. QED
        BY <2>2, <2>3, <3>1, <3>3, <4>1, <4>2 DEF RunHistory
    <3>4. CASE q # r
      <4>1. /\ status'[q] = st[q]
            /\ attempts'[q] = attempts[q]
            /\ fence'[q] = IF q \in settled THEN 0 ELSE fence[q]
            /\ lease'[q] = IF q \in settled THEN 0 ELSE lease[q]
            /\ processing'[q] = failed(settled \cup {r})[q]
        BY <2>4, <2>7, <3>1, <3>2, <3>4 DEF TypeOK
      <4>2. q \in settled \cup {r} <=> q \in settled
        BY <3>4
      <4>3. QED
        BY <2>1, <2>2, <2>3, <2>5, <4>1, <4>2 DEF RunHistory
    <3>5. QED
      BY <3>3, <3>4
  <2>8. QED
    BY <1>10, <2>6, <2>7 DEF Claim, settled, st, failed
<1>11. ASSUME NEW u \in Users, GetCurrent(u) PROVE RunHistory(q)'
  <2> DEFINE spent == {p \in OwnedBy(u) : Exhausted(p)}
  <2>1. /\ spent \in SUBSET Runs
        /\ Release(spent)
        /\ processing' = WithFailedAttempts(spent)
        /\ UNCHANGED attempts
    BY <1>11 DEF GetCurrent, ReconcileJobs, OwnedBy
  <2>2. /\ status[q] = "running" => status'[q] = IF q \in spent THEN "failed" ELSE "running"
        /\ status[q] # "running" => status'[q] # "running"
        /\ status'[q] = "succeeded" <=> status[q] = "succeeded"
    BY <1>11, ReconciledStatus DEF GetCurrent
  <2>3. session'[q] # "none" <=> session[q] # "none"
    BY <1>11, StaleSessionsKeep DEF GetCurrent
  <2> HIDE DEF spent
  <2>4. QED
    BY <2>1, <2>2, <2>3, SettledHistory
<1>12. CASE ChatAdmit \/ ChatDone \/ UNCHANGED vars
  BY <1>12 DEF ChatAdmit, ChatDone, vars, runVars, jobVars, sessVars, RunHistory
<1>13. QED
  BY <1>1, <1>2, <1>3, <1>4, <1>5, <1>6, <1>7, <1>8, <1>9, <1>10, <1>11, <1>12
     DEF Next

\* Attempts run in order, one at a time, and the last one decides the run.
THEOREM AttemptHistoryCorrect == Spec => []AttemptHistory
<1>1. Init => AttemptHistory
  BY DEF Init, AttemptHistory, RunHistory, Attempts, MaxAttempts
<1>2. QED
  BY <1>1, TypeCorrect, HistoryStep, PTL DEF Spec

\* The fence always names the one live attempt, so assert_analysis_run_fence
\* never raises.
THEOREM FenceCorrect == Spec => []FenceNamesTheLiveAttempt
<1>1. TypeOK /\ AttemptHistory => FenceNamesTheLiveAttempt
  <2> SUFFICES ASSUME TypeOK, AttemptHistory, NEW r \in Runs
               PROVE  IF status[r] = "running"
                      THEN LiveAttempts(r) = {fence[r]} /\ fence[r] = attempts[r]
                      ELSE LiveAttempts(r) = {} /\ fence[r] = 0 /\ lease[r] = 0
    BY DEF FenceNamesTheLiveAttempt
  <2>1. RunHistory(r) /\ attempts[r] \in 0..2
    BY DEF AttemptHistory, TypeOK, MaxAttempts
  <2>2. QED
    BY <2>1 DEF RunHistory, LiveAttempts, Attempts, MaxAttempts
<1>2. QED
  BY <1>1, TypeCorrect, AttemptHistoryCorrect, PTL

-----------------------------------------------------------------------------
(***************************************************************************)
(* What callers were told stays true.                                      *)
(***************************************************************************)

RunKept(r) ==
  /\ status[r] \in {"succeeded", "failed"} => status'[r] = status[r]
  /\ status[r] = "cleanup_pending" => status'[r] \in {"cleanup_pending", "failed"}
  /\ attempts'[r] \in {attempts[r], attempts[r] + 1}
  /\ \A n \in Attempts : processing[r][n] \in {"succeeded", "failed"}
                          => processing'[r][n] = processing[r][n]

\* A step that rewrites attempts only by failing live ones keeps the past.
LEMMA FailedAttemptsKeep ==
  ASSUME TypeOK, NEW S, NEW r \in Runs, NEW n \in Attempts,
         processing[r][n] \in {"succeeded", "failed"}
  PROVE  WithFailedAttempts(S)[r][n] = processing[r][n]
BY DEF WithFailedAttempts

\* Reconciling leaves terminal runs and runs in cleanup alone.
LEMMA ReconciledKeeps ==
  ASSUME NEW u, NEW collect, NEW r \in Runs,
         status[r] \in {"absent", "succeeded", "failed", "cleanup_pending"}
  PROVE  Reconciled(u, collect)[r] = status[r]
BY DEF Reconciled, Exhausted

\* No step rewrites the past of any run.
LEMMA KeptStep ==
  ASSUME TypeOK, AttemptHistory, [Next]_vars, NEW q \in Runs PROVE RunKept(q)
<1> USE DEF Attempts, MaxAttempts
<1> attempts[q] \in 0..2
  BY DEF TypeOK
<1>1. ASSUME NEW r \in Runs, Reserve(r) PROVE RunKept(q)
  <2> DEFINE u == Owner[r]
  <2>1. status' = [Reconciled(u, TRUE) EXCEPT ![r] = "uploading"] /\ status[r] = "absent"
    BY <1>1 DEF Reserve
  <2>2. status[q] \in {"succeeded", "failed", "cleanup_pending"} => status'[q] = status[q]
    <3>1. ASSUME status[q] \in {"succeeded", "failed", "cleanup_pending"}
          PROVE  Reconciled(u, TRUE)[q] = status[q]
      BY <3>1, ReconciledKeeps
    <3>2. Reconciled(u, TRUE) \in [Runs -> RunStatus]
      BY ReconciledType
    <3>3. QED
      BY <2>1, <3>1, <3>2
  <2>3. \E S : processing' = WithFailedAttempts(S) /\ UNCHANGED attempts
    BY <1>1 DEF Reserve, ReconcileJobs
  <2>4. QED
    BY <2>2, <2>3, FailedAttemptsKeep DEF RunKept
<1>2. ASSUME NEW r \in Runs,
             \/ ReserveReplay(r) \/ CloseSession(r)
             \/ ExpireRun(r) \/ ExpireSession(r) \/ AgeLease(r)
      PROVE  RunKept(q)
  BY <1>2 DEF ReserveReplay, CloseSession, ExpireRun, ExpireSession, AgeLease,
              runVars, jobVars, sessVars, RunKept
<1>3. ASSUME NEW r \in Runs, Finalize(r) \/ MarkCleanupPending(r) \/ CompleteCleanup(r)
      PROVE  RunKept(q)
  BY <1>3 DEF Finalize, MarkCleanupPending, CompleteCleanup, jobVars, RunKept, TypeOK
<1>4. ASSUME NEW r \in Runs, NEW n \in Attempts, Heartbeat(r, n) \/ CompleteFencedOut(r, n)
      PROVE  RunKept(q)
  BY <1>4 DEF Heartbeat, CompleteFencedOut, runVars, jobVars, RunKept
<1>5. ASSUME NEW r \in Runs, NEW n \in Attempts, Fail(r, n) PROVE RunKept(q)
  BY <1>5 DEF Fail, Fenced, RunKept, TypeOK
<1>6. ASSUME NEW r \in Runs, NEW n \in Attempts, Complete(r, n) PROVE RunKept(q)
  BY <1>6 DEF Complete, Fenced, RunKept, TypeOK
<1>7. ASSUME NEW seen \in SUBSET Runs, Claim(seen) PROVE RunKept(q)
  <2> DEFINE settled == {r \in seen : status[r] = "queued" /\ ~fresh[r]}
                          \cup {r \in seen : Exhausted(r)}
             st      == [r \in Runs |-> IF r \in settled THEN "failed" ELSE status[r]]
             failed(S) == WithFailedAttempts(S)
  <2>1. /\ st \in [Runs -> RunStatus]
        /\ status[q] \in {"succeeded", "failed", "cleanup_pending"} => st[q] = status[q]
    BY DEF TypeOK, RunStatus, Exhausted
  <2>2. /\ \A S : failed(S) \in [Runs -> [Attempts -> ProcessingStatus]]
        /\ \A S : \A n \in Attempts : processing[q][n] \in {"succeeded", "failed"}
                                      => failed(S)[q][n] = processing[q][n]
    BY FailedAttemptsType, FailedAttemptsKeep
  <2> HIDE DEF st, settled, failed
  <2>3. CASE /\ status' = st
             /\ processing' = failed(settled)
             /\ UNCHANGED attempts
    BY <2>1, <2>2, <2>3 DEF RunKept
  <2>4. ASSUME NEW r \in seen, Claimable(r),
               status' = [st EXCEPT ![r] = "running"],
               attempts' = [attempts EXCEPT ![r] = attempts[r] + 1],
               processing' = [failed(settled \cup {r})
                                EXCEPT ![r][attempts[r] + 1] = "running"]
        PROVE RunKept(q)
    <3>1. /\ r \in Runs
          /\ attempts[r] < 2
          /\ status[r] \in {"queued", "running"}
      BY <2>4 DEF Claimable
    <3>2. RunHistory(r) /\ attempts[r] \in 0..2
      BY <3>1 DEF AttemptHistory, TypeOK
    <3>3. processing[r][attempts[r] + 1] = "none"
      BY <3>1, <3>2 DEF RunHistory
    <3>4. \A n \in Attempts :
            processing'[q][n] = IF q = r /\ n = attempts[r] + 1 THEN "running"
                                ELSE failed(settled \cup {r})[q][n]
      BY <2>2, <2>4, <3>1
    <3>5. status'[q] = IF q = r THEN "running" ELSE st[q]
      BY <2>1, <2>4, <3>1
    <3>6. attempts'[q] \in {attempts[q], attempts[q] + 1}
      BY <2>4, <3>1 DEF TypeOK
    <3>7. QED
      BY <2>1, <2>2, <3>1, <3>3, <3>4, <3>5, <3>6 DEF RunKept
  <2>5. QED
    BY <1>7, <2>3, <2>4 DEF Claim, st, settled, failed
<1>8. ASSUME NEW u \in Users, GetCurrent(u) PROVE RunKept(q)
  <2>1. /\ status' = Reconciled(u, FALSE)
        /\ \E S : processing' = WithFailedAttempts(S) /\ UNCHANGED attempts
    BY <1>8 DEF GetCurrent, ReconcileJobs
  <2>2. status[q] \in {"succeeded", "failed", "cleanup_pending"} => status'[q] = status[q]
    BY <2>1, ReconciledKeeps
  <2>3. QED
    BY <2>1, <2>2, FailedAttemptsKeep DEF RunKept
<1>9. CASE ChatAdmit \/ ChatDone \/ UNCHANGED vars
  BY <1>9 DEF ChatAdmit, ChatDone, vars, runVars, jobVars, RunKept
<1>10. QED
  BY <1>1, <1>2, <1>3, <1>4, <1>5, <1>6, <1>7, <1>8, <1>9 DEF Next

\* Terminal runs, condemned uploads and finished attempts are never rewritten.
THEOREM HistoryCorrect == Spec => History
<1>1. TypeOK /\ AttemptHistory /\ [Next]_vars =>
        [\A r \in Runs :
           /\ status[r] \in {"succeeded", "failed"} => status'[r] = status[r]
           /\ status[r] = "cleanup_pending" => status'[r] \in {"cleanup_pending", "failed"}
           /\ attempts'[r] \in {attempts[r], attempts[r] + 1}
           /\ \A n \in Attempts : processing[r][n] \in {"succeeded", "failed"}
                                   => processing'[r][n] = processing[r][n]]_vars
  BY KeptStep DEF RunKept
<1>2. QED
  BY <1>1, TypeCorrect, AttemptHistoryCorrect, PTL DEF Spec, History

-----------------------------------------------------------------------------
(***************************************************************************)
(* A lease that lasts protects the attempt that holds it: the run is       *)
(* neither settled nor taken, since the history says that its fence is set.*)
(***************************************************************************)

\* The step leaves the attempts of a run as they are.
AttemptKept(r) ==
  /\ status'[r] = status[r]
  /\ attempts'[r] = attempts[r]
  /\ fence'[r] = fence[r]
  /\ processing'[r] = processing[r]

HolderDecided(r) == Fail(r, fence[r]) \/ Complete(r, fence[r]) \/ AttemptKept(r)

\* A leased run is running under its fence, and no reconciliation, settling or
\* claim selects it.
LEMMA LeasedRun ==
  ASSUME TypeOK, AttemptHistory, NEW q \in Runs, lease[q] > 0
  PROVE  /\ status[q] = "running"
         /\ ~Exhausted(q)
         /\ ~Claimable(q)
<1>1. RunHistory(q) /\ lease[q] \in Nat /\ fence[q] \in Nat /\ attempts[q] \in Nat
  BY LeaseAssumption DEF AttemptHistory, TypeOK, MaxAttempts
<1>2. status[q] = "running" /\ fence[q] # 0 /\ lease[q] # 0
  BY <1>1 DEF RunHistory
<1>3. QED
  BY <1>2 DEF Exhausted, Claimable

\* Settling other runs leaves the attempts of a run as they are.
LEMMA OthersSettled ==
  ASSUME TypeOK, NEW q \in Runs, NEW S, q \notin S,
         Release(S), processing' = WithFailedAttempts(S)
  PROVE  fence'[q] = fence[q] /\ processing'[q] = processing[q]
<1>1. fence'[q] = fence[q]
  BY DEF Release
<1>2. processing'[q] = [n \in Attempts |-> processing[q][n]]
  BY DEF WithFailedAttempts
<1>3. processing[q] \in [Attempts -> ProcessingStatus]
  BY DEF TypeOK, ProcessingStatus
<1>4. QED
  BY <1>1, <1>2, <1>3

\* The reconciliation of any owner leaves the attempts of a leased run alone.
LEMMA LeasedReconciled ==
  ASSUME TypeOK, AttemptHistory, NEW q \in Runs, lease[q] > 0,
         NEW u, ReconcileJobs(u)
  PROVE  attempts'[q] = attempts[q] /\ fence'[q] = fence[q] /\ processing'[q] = processing[q]
<1> DEFINE spent == {p \in OwnedBy(u) : Exhausted(p)}
<1>1. ~Exhausted(q)
  BY LeasedRun
<1>2. /\ q \notin spent
      /\ Release(spent)
      /\ processing' = WithFailedAttempts(spent)
      /\ UNCHANGED attempts
  BY <1>1 DEF ReconcileJobs
<1> HIDE DEF spent
<1>3. QED
  BY <1>2, OthersSettled

\* While its lease lasts, no step ends the attempt of a run but its holder's.
LEMMA HolderStep ==
  ASSUME TypeOK, AttemptHistory, [Next]_vars, NEW q \in Runs, lease[q] > 0
  PROVE  HolderDecided(q)
<1> USE DEF HolderDecided
<1>1. ASSUME NEW r \in Runs, Reserve(r) PROVE AttemptKept(q)
  <2>1. /\ status[r] = "absent"
        /\ status' = [Reconciled(Owner[r], TRUE) EXCEPT ![r] = "uploading"]
        /\ ReconcileJobs(Owner[r])
    BY <1>1 DEF Reserve
  <2>2. q # r
    BY <2>1, LeasedRun
  <2>3. Reconciled(Owner[r], TRUE) \in [Runs -> RunStatus]
    BY ReconciledType
  <2>4. status'[q] = Reconciled(Owner[r], TRUE)[q]
    BY <2>1, <2>2, <2>3
  <2>5. attempts'[q] = attempts[q] /\ fence'[q] = fence[q] /\ processing'[q] = processing[q]
    BY <2>1, LeasedReconciled
  <2>6. Reconciled(Owner[r], TRUE)[q] = status[q]
    BY LeasedRun DEF Reconciled
  <2>7. QED
    BY <2>4, <2>5, <2>6 DEF AttemptKept
<1>2. ASSUME NEW r \in Runs,
             \/ ReserveReplay(r) \/ CloseSession(r)
             \/ ExpireRun(r) \/ ExpireSession(r) \/ AgeLease(r)
      PROVE  AttemptKept(q)
  BY <1>2 DEF ReserveReplay, CloseSession, ExpireRun, ExpireSession, AgeLease,
              runVars, jobVars, sessVars, AttemptKept
<1>3. ASSUME NEW r \in Runs, Finalize(r) \/ MarkCleanupPending(r) \/ CompleteCleanup(r)
      PROVE  AttemptKept(q)
  <2>1. q # r
    BY <1>3, LeasedRun DEF Finalize, MarkCleanupPending, CompleteCleanup
  <2>2. QED
    BY <1>3, <2>1 DEF Finalize, MarkCleanupPending, CompleteCleanup, jobVars,
                      AttemptKept, TypeOK
<1>4. ASSUME NEW r \in Runs, NEW n \in Attempts, Heartbeat(r, n) \/ CompleteFencedOut(r, n)
      PROVE  AttemptKept(q)
  BY <1>4 DEF Heartbeat, CompleteFencedOut, runVars, jobVars, AttemptKept
<1>5. ASSUME NEW r \in Runs, NEW n \in Attempts, Fail(r, n) PROVE HolderDecided(q)
  <2>1. CASE q = r
    BY <1>5, <2>1 DEF Fail, Fenced
  <2>2. CASE q # r
    BY <1>5, <2>2 DEF Fail, Release, AttemptKept, TypeOK
  <2>3. QED
    BY <2>1, <2>2
<1>6. ASSUME NEW r \in Runs, NEW n \in Attempts, Complete(r, n) PROVE HolderDecided(q)
  <2>1. CASE q = r
    BY <1>6, <2>1 DEF Complete, Fenced
  <2>2. CASE q # r
    BY <1>6, <2>2 DEF Complete, Release, AttemptKept, TypeOK
  <2>3. QED
    BY <2>1, <2>2
<1>7. ASSUME NEW seen \in SUBSET Runs, Claim(seen) PROVE AttemptKept(q)
  <2> DEFINE settled == {r \in seen : status[r] = "queued" /\ ~fresh[r]}
                          \cup {r \in seen : Exhausted(r)}
             st      == [r \in Runs |-> IF r \in settled THEN "failed" ELSE status[r]]
             failed(S) == WithFailedAttempts(S)
  <2>1. q \notin settled /\ ~Claimable(q)
    BY LeasedRun
  <2>2. st \in [Runs -> RunStatus] /\ st[q] = status[q]
    BY <2>1 DEF TypeOK, RunStatus
  <2> HIDE DEF settled
  <2>3. CASE /\ status' = st
             /\ Release(settled)
             /\ processing' = WithFailedAttempts(settled)
             /\ UNCHANGED attempts
    <3>1. fence'[q] = fence[q] /\ processing'[q] = processing[q]
      BY <2>1, <2>3, OthersSettled
    <3> HIDE DEF st
    <3>2. QED
      BY <2>2, <2>3, <3>1 DEF AttemptKept
  <2>4. ASSUME NEW r \in seen, Claimable(r),
               status' = [st EXCEPT ![r] = "running"],
               attempts' = [attempts EXCEPT ![r] = attempts[r] + 1],
               fence' = [p \in Runs |-> IF p = r THEN attempts[r] + 1
                                        ELSE IF p \in settled THEN 0 ELSE fence[p]],
               processing' = [failed(settled \cup {r})
                                EXCEPT ![r][attempts[r] + 1] = "running"]
        PROVE AttemptKept(q)
    <3>1. q # r /\ q \notin settled \cup {r}
      BY <2>1, <2>4
    <3>2. failed(settled \cup {r})[q] = [n \in Attempts |-> processing[q][n]]
      BY <3>1 DEF WithFailedAttempts
    <3>3. processing[q] \in [Attempts -> ProcessingStatus]
      BY DEF TypeOK, ProcessingStatus
    <3>4. failed(settled \cup {r}) \in [Runs -> [Attempts -> ProcessingStatus]]
      BY FailedAttemptsType
    <3> HIDE DEF st, failed
    <3>5. processing'[q] = processing[q]
      BY <2>4, <3>1, <3>2, <3>3, <3>4
    <3>6. QED
      BY <2>2, <2>4, <3>1, <3>5 DEF AttemptKept, TypeOK
  <2>5. QED
    BY <1>7, <2>3, <2>4 DEF Claim, settled
<1>8. ASSUME NEW u \in Users, GetCurrent(u) PROVE AttemptKept(q)
  <2>1. attempts'[q] = attempts[q] /\ fence'[q] = fence[q] /\ processing'[q] = processing[q]
    BY <1>8, LeasedReconciled DEF GetCurrent
  <2>2. status'[q] = status[q]
    BY <1>8, LeasedRun DEF GetCurrent, Reconciled
  <2>3. QED
    BY <2>1, <2>2 DEF AttemptKept
<1>9. CASE ChatAdmit \/ ChatDone \/ UNCHANGED vars
  BY <1>9 DEF ChatAdmit, ChatDone, vars, runVars, jobVars, AttemptKept
<1>10. QED
  BY <1>1, <1>2, <1>3, <1>4, <1>5, <1>6, <1>7, <1>8, <1>9 DEF Next

\* Until its lease lapses, an attempt is ended by its own worker only, however
\* owners poll and upload and other workers claim.
THEOREM LeaseHolderCorrect == Spec => LeaseHolderDecides
<1>1. TypeOK /\ AttemptHistory /\ [Next]_vars =>
        [\A r \in Runs : lease[r] > 0 =>
           \/ Fail(r, fence[r])
           \/ Complete(r, fence[r])
           \/ /\ status'[r] = status[r]
              /\ attempts'[r] = attempts[r]
              /\ fence'[r] = fence[r]
              /\ processing'[r] = processing[r]]_vars
  BY HolderStep DEF HolderDecided, AttemptKept
<1>2. QED
  BY <1>1, TypeCorrect, AttemptHistoryCorrect, PTL DEF Spec, LeaseHolderDecides

-----------------------------------------------------------------------------
(***************************************************************************)
(* Exclusion of runs and sessions, and the bound on admitted work.  Most   *)
(* actions can only take a run out of the queue and a session out of       *)
(* review; the others are considered one by one.                           *)
(***************************************************************************)

Quiet ==
  \/ \E r \in Runs :
       \/ MarkCleanupPending(r) \/ CompleteCleanup(r) \/ CloseSession(r)
       \/ ExpireRun(r) \/ AgeLease(r) \/ ExpireSession(r)
       \/ \E n \in Attempts : Heartbeat(r, n) \/ Fail(r, n) \/ CompleteFencedOut(r, n)
  \/ \E seen \in SUBSET Runs : Claim(seen)
  \/ \E u \in Users : GetCurrent(u)
  \/ UNCHANGED vars

\* Nothing of run q becomes active, occupying or under review.
Settles(q) ==
  /\ status'[q] \in ActiveStatus => status[q] \in ActiveStatus
  /\ q \in Occupying(status)' => q \in Occupying(status)
  /\ session'[q] = "active" => session[q] = "active"
  /\ sessionFresh'[q] => sessionFresh[q]

\* A quiet step brings no run into the queue and no session under review.
LEMMA QuietStep ==
  ASSUME TypeOK, TypeOK', Quiet, NEW q \in Runs
  PROVE  Settles(q)
<1> USE DEF ActiveStatus, Occupying
<1>1. ASSUME NEW r \in Runs, MarkCleanupPending(r) \/ CompleteCleanup(r) \/ CloseSession(r)
      PROVE  Settles(q)
  BY <1>1 DEF MarkCleanupPending, CompleteCleanup, CloseSession, runVars, jobVars, sessVars,
              Settles, TypeOK
<1>2. ASSUME NEW r \in Runs, ExpireRun(r) \/ AgeLease(r) \/ ExpireSession(r)
      PROVE  Settles(q)
  BY <1>2 DEF ExpireRun, AgeLease, ExpireSession, runVars, jobVars, sessVars, Settles, TypeOK
<1>3. ASSUME NEW r \in Runs, NEW n \in Attempts,
             Heartbeat(r, n) \/ CompleteFencedOut(r, n)
      PROVE  Settles(q)
  BY <1>3 DEF Heartbeat, CompleteFencedOut, WithStaleSessionsExpired, runVars, jobVars, sessVars,
              Settles, TypeOK
<1>4. ASSUME NEW r \in Runs, NEW n \in Attempts, Fail(r, n)
      PROVE  Settles(q)
  BY <1>4 DEF Fail, Fenced, sessVars, Settles, TypeOK
<1>5. ASSUME NEW seen \in SUBSET Runs, Claim(seen)
      PROVE  Settles(q)
  <2> DEFINE settled == {r \in seen : status[r] = "queued" /\ ~fresh[r]}
                          \cup {r \in seen : Exhausted(r)}
             st      == [r \in Runs |-> IF r \in settled THEN "failed" ELSE status[r]]
  <2>1. /\ st \in [Runs -> RunStatus]
        /\ st[q] \in {"failed", status[q]}
    BY DEF TypeOK, RunStatus
  <2>2. UNCHANGED <<fresh, sessVars, chatLoad>>
    BY <1>5 DEF Claim
  <2>3. \/ status' = st
        \/ \E r \in seen : Claimable(r) /\ status' = [st EXCEPT ![r] = "running"]
    BY <1>5 DEF Claim
  <2> HIDE DEF settled, st
  <2>4. CASE status' = st
    BY <2>1, <2>2, <2>4 DEF Settles, sessVars
  <2>5. ASSUME NEW r \in seen, Claimable(r), status' = [st EXCEPT ![r] = "running"]
        PROVE  Settles(q)
    BY <2>1, <2>2, <2>5 DEF Settles, sessVars, Claimable
  <2>6. QED
    BY <2>3, <2>4, <2>5
<1>6. ASSUME NEW u \in Users, GetCurrent(u)
      PROVE  Settles(q)
  <2>1. Reconciled(u, FALSE)[q] \in {status[q], "failed"}
    BY DEF Reconciled
  <2>2. QED
    BY <1>6, <2>1 DEF GetCurrent, WithStaleSessionsExpired, Settles
<1>7. CASE UNCHANGED vars
  BY <1>7 DEF vars, runVars, jobVars, sessVars, Settles
<1>8. QED
  BY <1>1, <1>2, <1>3, <1>4, <1>5, <1>6, <1>7 DEF Quiet

\* ... nor does the chat's load change.
LEMMA QuietLoad == Quiet => chatLoad' = chatLoad
BY DEF Quiet, MarkCleanupPending, CompleteCleanup, CloseSession, ExpireRun, AgeLease,
       ExpireSession, Heartbeat, Fail, CompleteFencedOut, Claim, GetCurrent, vars

\* Every step keeps an owner's runs and reviews exclusive.
LEMMA ExclusionStep ==
  TypeOK /\ TypeOK' /\ AttemptHistory /\ RunsAndSessionsExclude /\ [Next]_vars
    => RunsAndSessionsExclude'
<1> SUFFICES ASSUME TypeOK, TypeOK', AttemptHistory, RunsAndSessionsExclude, [Next]_vars,
                    NEW p \in Runs, NEW q \in Runs, Owner[p] = Owner[q]
             PROVE  /\ status'[p] \in ActiveStatus /\ status'[q] \in ActiveStatus => p = q
                    /\ session'[p] = "active" /\ session'[q] = "active" => p = q
                    /\ ~(status'[p] \in ActiveStatus /\ session'[q] = "active"
                                                   /\ sessionFresh'[q])
  BY DEF RunsAndSessionsExclude
<1> DEFINE Goal == /\ status'[p] \in ActiveStatus /\ status'[q] \in ActiveStatus => p = q
                   /\ session'[p] = "active" /\ session'[q] = "active" => p = q
                   /\ ~(status'[p] \in ActiveStatus /\ session'[q] = "active"
                                                  /\ sessionFresh'[q])
<1>1. CASE Quiet
  BY <1>1, QuietStep DEF RunsAndSessionsExclude, Settles
<1>2. ASSUME NEW r \in Runs, Reserve(r) PROVE Goal
  <2> DEFINE u  == Owner[r]
             st == Reconciled(u, TRUE)
  <2>1. /\ st \in [Runs -> RunStatus]
        /\ \A x \in Runs : Owner[x] # u => st[x] = status[x]
        /\ \A x \in Runs : Owner[x] = u => st[x] \notin ActiveStatus
    BY <1>2, ReconciledType DEF Reserve, MayBegin, Reconciled, OwnedBy
  <2>2. \A x \in Runs : session'[x] = "active" => session[x] = "active" /\ Owner[x] # u
    BY <1>2 DEF Reserve, MayBegin, WithStaleSessionsExpired, OwnedBy
  <2>3. /\ status' = [st EXCEPT ![r] = "uploading"]
        /\ sessionFresh' = sessionFresh
    BY <1>2 DEF Reserve
  <2> HIDE DEF st
  <2>4. QED
    BY <2>1, <2>2, <2>3 DEF RunsAndSessionsExclude
<1>3. ASSUME NEW r \in Runs, ReserveReplay(r) \/ Finalize(r) PROVE Goal
  BY <1>3 DEF ReserveReplay, Finalize, jobVars, sessVars, ActiveStatus,
              RunsAndSessionsExclude, TypeOK
<1>4. ASSUME NEW r \in Runs, NEW n \in Attempts, Complete(r, n) PROVE Goal
  <2> DEFINE settled == WithStaleSessionsExpired(Owner[r])
  <2>1. /\ settled \in [Runs -> SessionStatus]
        /\ \A x \in Runs : settled[x] = "active" => session[x] = "active"
        /\ \A x \in Runs : settled[x] = "active" /\ Owner[x] = Owner[r] => sessionFresh[x]
    BY StaleSessionsType DEF WithStaleSessionsExpired
  <2>2. /\ status[r] \in ActiveStatus
        /\ status' = [status EXCEPT ![r] = "succeeded"]
    BY <1>4 DEF Complete, Fenced, ActiveStatus
  <2>3. \A x \in Runs \ {r} : session'[x] = settled[x] /\ sessionFresh'[x] = sessionFresh[x]
    <3> HIDE DEF settled
    <3>1. QED
      BY <1>4, <2>1 DEF Complete, TypeOK, settled
  <2> HIDE DEF settled
  <2>4. \A x \in Runs \ {r} : session'[x] = "active" => Owner[x] # Owner[r]
    BY <2>1, <2>2, <2>3 DEF RunsAndSessionsExclude
  <2>5. \A x \in Runs : status'[x] \in ActiveStatus => status[x] \in ActiveStatus /\ x # r
    BY <2>2 DEF TypeOK, ActiveStatus
  <2>6. \A x \in Runs \ {r} : session'[x] = "active" => session[x] = "active"
    BY <2>1, <2>3
  <2>7. QED
    BY <2>2, <2>3, <2>4, <2>5, <2>6 DEF RunsAndSessionsExclude
<1>5. CASE ChatAdmit \/ ChatDone
  BY <1>5 DEF ChatAdmit, ChatDone, runVars, jobVars, sessVars, RunsAndSessionsExclude
<1>6. QED
  BY <1>1, <1>2, <1>3, <1>4, <1>5 DEF Next, Quiet

\* An owner's runs in progress and reviews exclude each other, so the partial
\* unique indexes never reject a publication.
THEOREM ExclusionCorrect == Spec => []RunsAndSessionsExclude
<1>1. Init => RunsAndSessionsExclude
  BY DEF Init, RunsAndSessionsExclude, ActiveStatus
<1>2. QED
  BY <1>1, TypeCorrect, AttemptHistoryCorrect, ExclusionStep, PTL DEF Spec

-----------------------------------------------------------------------------
\* Adding one run to a set of runs adds at most one to its size.
LEMMA OneMore ==
  ASSUME NEW S \in SUBSET Runs, NEW T \in SUBSET Runs, NEW r \in Runs, T \subseteq S \cup {r}
  PROVE  /\ Cardinality(S) \in Nat /\ Cardinality(T) \in Nat
         /\ Cardinality(T) <= Cardinality(S) + 1
<1>1. IsFiniteSet(S) /\ IsFiniteSet(T) /\ IsFiniteSet(S \cup {r})
  BY RunsAssumption, FS_Subset
<1>2. Cardinality(S \cup {r}) <= Cardinality(S) + 1
  BY <1>1, FS_CardinalityType, FS_AddElement
<1>3. Cardinality(T) <= Cardinality(S \cup {r})
  BY <1>1, FS_Subset
<1>4. QED
  BY <1>1, <1>2, <1>3, FS_CardinalityType

\* A subset of a set of runs is no larger.
LEMMA NoMore ==
  ASSUME NEW S \in SUBSET Runs, NEW T \in SUBSET S
  PROVE  /\ Cardinality(S) \in Nat /\ Cardinality(T) \in Nat
         /\ Cardinality(T) <= Cardinality(S)
BY RunsAssumption, FS_Subset, FS_CardinalityType

\* Every step keeps the work that holds a slot within the limit.
LEMMA AdmissionStep ==
  TypeOK /\ TypeOK' /\ AdmissionBound /\ [Next]_vars => AdmissionBound'
<1> SUFFICES ASSUME TypeOK, TypeOK', AdmissionBound, [Next]_vars PROVE AdmissionBound'
  OBVIOUS
<1> USE LimitAssumption
<1> DEFINE Held    == Occupying(status)
           HeldNow == Occupying(status)'
<1>1. /\ Held \in SUBSET Runs
      /\ HeldNow \in SUBSET Runs
      /\ chatLoad \in Nat
      /\ chatLoad' \in Nat
  BY DEF Occupying, TypeOK
<1>2. ASSUME HeldNow \subseteq Held, chatLoad' <= chatLoad PROVE AdmissionBound'
  <2> HIDE DEF Held, HeldNow
  <2>1. Cardinality(Held) + chatLoad <= QueueLimit
    BY DEF AdmissionBound, Held
  <2>2. Cardinality(HeldNow) + chatLoad' <= QueueLimit
    BY <1>1, <1>2, <2>1, NoMore
  <2>3. QED
    BY <2>2 DEF AdmissionBound, HeldNow
<1>3. ASSUME NEW st, Occupying(st) \in SUBSET Runs, Admits(st), NEW r \in Runs,
             HeldNow \subseteq Occupying(st) \cup {r}, chatLoad' = chatLoad
      PROVE  AdmissionBound'
  <2> DEFINE Admitted == Occupying(st)
  <2>1. Cardinality(Admitted) + chatLoad < QueueLimit
    BY <1>3 DEF Admits
  <2> HIDE DEF Admitted, HeldNow
  <2>2. Admitted \in SUBSET Runs /\ HeldNow \subseteq Admitted \cup {r}
    BY <1>3 DEF Admitted
  <2>3. Cardinality(HeldNow) + chatLoad' <= QueueLimit
    BY <1>1, <1>3, <2>1, <2>2, OneMore
  <2>4. QED
    BY <2>3 DEF AdmissionBound, HeldNow
<1>4. CASE Quiet
  <2>1. HeldNow \subseteq Held
    BY <1>1, <1>4, QuietStep DEF Settles
  <2>2. chatLoad' <= chatLoad
    BY <1>1, <1>4, QuietLoad
  <2>3. QED
    BY <1>2, <2>1, <2>2
<1>5. ASSUME NEW r \in Runs, Reserve(r) PROVE AdmissionBound'
  <2> DEFINE st == Reconciled(Owner[r], TRUE)
  <2>1. /\ Admits(st)
        /\ status' = [st EXCEPT ![r] = "uploading"]
        /\ fresh' = [fresh EXCEPT ![r] = TRUE]
        /\ chatLoad' = chatLoad
    BY <1>5 DEF Reserve
  <2>2. st \in [Runs -> RunStatus]
    BY ReconciledType
  <2> HIDE DEF st
  <2>3. Occupying(st) \in SUBSET Runs /\ HeldNow \subseteq Occupying(st) \cup {r}
    BY <2>1, <2>2 DEF Occupying, TypeOK
  <2>4. QED
    BY <1>3, <2>1, <2>3
<1>6. ASSUME NEW r \in Runs, ReserveReplay(r) \/ Finalize(r) PROVE AdmissionBound'
  <2>1. chatLoad' = chatLoad
    BY <1>6 DEF ReserveReplay, Finalize
  <2>2. CASE HeldNow \subseteq Held
    BY <1>1, <1>2, <2>1, <2>2
  <2>3. CASE Admits(status) /\ HeldNow \subseteq Held \cup {r}
    BY <1>1, <1>3, <2>1, <2>3
  <2>4. QED
    BY <1>6, <2>2, <2>3 DEF ReserveReplay, Finalize, Occupying, TypeOK
<1>7. ASSUME NEW r \in Runs, NEW n \in Attempts, Complete(r, n) PROVE AdmissionBound'
  <2>1. HeldNow \subseteq Held /\ chatLoad' = chatLoad
    BY <1>7 DEF Complete, Occupying, TypeOK
  <2>2. QED
    BY <1>1, <1>2, <2>1
<1>8. CASE ChatAdmit
  <2>1. HeldNow = Held /\ chatLoad' = chatLoad + 1 /\ Cardinality(Held) + chatLoad < QueueLimit
    BY <1>8 DEF ChatAdmit, Admits, Occupying, runVars
  <2> HIDE DEF Held
  <2>2. Cardinality(Held) \in Nat
    BY <1>1, NoMore
  <2>3. QED
    BY <1>1, <2>1, <2>2 DEF AdmissionBound
<1>9. CASE ChatDone
  <2>1. HeldNow \subseteq Held /\ chatLoad' <= chatLoad
    BY <1>1, <1>9 DEF ChatDone, Occupying, runVars
  <2>2. QED
    BY <1>2, <2>1
<1>10. QED
  BY <1>4, <1>5, <1>6, <1>7, <1>8, <1>9 DEF Next, Quiet

\* The admitted work never exceeds the configured limit.
THEOREM AdmissionCorrect == Spec => []AdmissionBound
<1>1. Init => AdmissionBound
  <2>1. ASSUME Init PROVE Occupying(status) = {}
    BY <2>1 DEF Init, Occupying
  <2>2. QED
    BY SMTT(30), <2>1, LimitAssumption, FS_EmptySet DEF Init, AdmissionBound
<1>2. QED
  BY <1>1, TypeCorrect, AdmissionStep, PTL DEF Spec

-----------------------------------------------------------------------------
(***************************************************************************)
(* What an owner is shown, without the CHOOSE of CurrentView: the mapping  *)
(* is proved to be about runs only once, here, and used through ViewFacts. *)
(***************************************************************************)
Shown(r)    == \/ status[r] = "running"
               \/ status[r] \in {"uploading", "queued"} /\ fresh[r]
Reviewed(r) == session[r] = "active" /\ sessionFresh[r]

ViewFacts ==
  \A u \in Users :
    /\ \A r \in OwnedBy(u) : Shown(r) => CurrentView[u] = Workspace!Processing(r)
    /\ \A r \in OwnedBy(u) : Reviewed(r) => CurrentView[u] = Workspace!Reviewing(r)
    /\ (\A r \in OwnedBy(u) : ~Shown(r) /\ ~Reviewed(r))
         => CurrentView[u] = Workspace!Idle

\* At most one run of an owner is in progress or under review, so the view is
\* that run.
LEMMA ViewIsTheRun == RunsAndSessionsExclude => ViewFacts
<1> SUFFICES ASSUME RunsAndSessionsExclude, NEW u \in Users
             PROVE  /\ \A r \in OwnedBy(u) : Shown(r) => CurrentView[u] = Workspace!Processing(r)
                    /\ \A r \in OwnedBy(u) : Reviewed(r) => CurrentView[u] = Workspace!Reviewing(r)
                    /\ (\A r \in OwnedBy(u) : ~Shown(r) /\ ~Reviewed(r))
                         => CurrentView[u] = Workspace!Idle
  BY DEF ViewFacts
<1>1. /\ InProgress(u)  = {r \in OwnedBy(u) : Shown(r)}
      /\ UnderReview(u) = {r \in OwnedBy(u) : Reviewed(r)}
  BY DEF InProgress, UnderReview, Shown, Reviewed
<1>2. CurrentView[u] = IF InProgress(u) # {}
                       THEN [state |-> "processing", run |-> CHOOSE r \in InProgress(u) : TRUE]
                       ELSE IF UnderReview(u) # {}
                       THEN [state |-> "ready", run |-> CHOOSE r \in UnderReview(u) : TRUE]
                       ELSE [state |-> "idle"]
  BY DEF CurrentView
<1>3. \A q, r \in OwnedBy(u) :
        /\ Shown(q) /\ Shown(r) => q = r
        /\ Reviewed(q) /\ Reviewed(r) => q = r
        /\ ~(Shown(q) /\ Reviewed(r))
  BY DEF RunsAndSessionsExclude, OwnedBy, Shown, Reviewed, ActiveStatus
<1>4. ASSUME NEW r \in OwnedBy(u), Shown(r)
      PROVE  CurrentView[u] = Workspace!Processing(r)
  <2>1. InProgress(u) = {r}
    BY <1>1, <1>3, <1>4
  <2>2. QED
    BY <1>2, <2>1 DEF Workspace!Processing
<1>5. ASSUME NEW r \in OwnedBy(u), Reviewed(r)
      PROVE  CurrentView[u] = Workspace!Reviewing(r)
  <2>1. InProgress(u) = {} /\ UnderReview(u) = {r}
    BY <1>1, <1>3, <1>5
  <2>2. QED
    BY <1>2, <2>1 DEF Workspace!Reviewing
<1>6. ASSUME \A r \in OwnedBy(u) : ~Shown(r) /\ ~Reviewed(r)
      PROVE  CurrentView[u] = Workspace!Idle
  <2>1. InProgress(u) = {} /\ UnderReview(u) = {}
    BY <1>1, <1>6
  <2>2. QED
    BY <1>2, <2>1 DEF Workspace!Idle
<1>7. QED
  BY <1>4, <1>5, <1>6

-----------------------------------------------------------------------------
(***************************************************************************)
(* The steps of the abstract specification, in terms of the runs shown and *)
(* reviewed before and after.                                              *)
(***************************************************************************)

\* A view tells what kind it is and of which run.
LEMMA ViewsDiffer ==
  \A q, r : /\ Workspace!Processing(q).state = "processing"
            /\ Workspace!Processing(q).run = q
            /\ Workspace!Reviewing(r).state = "ready"
            /\ Workspace!Reviewing(r).run = r
            /\ Workspace!Idle.state = "idle"
BY DEF Workspace!Processing, Workspace!Reviewing, Workspace!Idle

\* The view of an owner none of whose runs starts or stops being shown or
\* reviewed is unchanged.
LEMMA SameView ==
  ASSUME ViewFacts, ViewFacts', NEW u \in Users,
         \A r \in OwnedBy(u) : Shown(r)' <=> Shown(r),
         \A r \in OwnedBy(u) : Reviewed(r)' <=> Reviewed(r)
  PROVE  CurrentView'[u] = CurrentView[u]
<1>1. ASSUME NEW r \in OwnedBy(u), Shown(r) PROVE CurrentView'[u] = CurrentView[u]
  <2>1. Shown(r)'
    BY <1>1
  <2>2. CurrentView[u] = Workspace!Processing(r)
    BY <1>1 DEF ViewFacts
  <2>3. CurrentView'[u] = Workspace!Processing(r)
    BY <2>1 DEF ViewFacts, OwnedBy, Workspace!Processing
  <2>4. QED
    BY <2>2, <2>3
<1>2. ASSUME NEW r \in OwnedBy(u), Reviewed(r) PROVE CurrentView'[u] = CurrentView[u]
  <2>1. Reviewed(r)'
    BY <1>2
  <2>2. CurrentView[u] = Workspace!Reviewing(r)
    BY <1>2 DEF ViewFacts
  <2>3. CurrentView'[u] = Workspace!Reviewing(r)
    BY <2>1 DEF ViewFacts, OwnedBy, Workspace!Reviewing
  <2>4. QED
    BY <2>2, <2>3
<1>3. CASE \A r \in OwnedBy(u) : ~Shown(r) /\ ~Reviewed(r)
  BY <1>3 DEF ViewFacts, OwnedBy, Workspace!Idle
<1>4. QED
  BY <1>1, <1>2, <1>3

\* An owner whose review is shown is shown no run in progress.
LEMMA ShownNotReviewed ==
  ASSUME ViewFacts, NEW u \in Users, NEW q \in OwnedBy(u), NEW r \in OwnedBy(u),
         Shown(q)
  PROVE  ~Reviewed(r)
BY ViewsDiffer DEF ViewFacts

\* Runs that stop being shown, and runs that are given up unseen, make a Stop.
LEMMA StopStep ==
  ASSUME ViewFacts, ViewFacts',
         NEW stopped \in SUBSET Users, NEW done \in SUBSET Runs,
         \A r \in Runs : Reviewed(r)' <=> Reviewed(r),
         \A r \in Runs : Shown(r)' <=> (Shown(r) /\ Owner[r] \notin stopped),
         \A u \in stopped : \E r \in OwnedBy(u) : Shown(r),
         \A r \in done : Shown(r) => Owner[r] \in stopped,
         Over' = Over \cup done
  PROVE  Workspace!WNext
<1>1. ASSUME NEW u \in stopped
      PROVE  CurrentView[u].state = "processing" /\ CurrentView'[u] = Workspace!Idle
  <2>1. PICK r \in OwnedBy(u) : Shown(r)
    OBVIOUS
  <2>2. \A q \in OwnedBy(u) : ~Reviewed(q)
    BY <2>1, ShownNotReviewed
  <2>3. CurrentView[u] = Workspace!Processing(r)
    BY <2>1 DEF ViewFacts
  <2>4. \A q \in OwnedBy(u) : ~Shown(q)' /\ ~Reviewed(q)'
    BY <2>2 DEF OwnedBy
  <2>5. CurrentView'[u] = Workspace!Idle
    BY <2>4 DEF ViewFacts, OwnedBy, Workspace!Idle
  <2>6. QED
    BY <2>3, <2>5 DEF Workspace!Processing
<1>2. ASSUME NEW u \in Users \ stopped
      PROVE  CurrentView'[u] = CurrentView[u]
  BY SameView DEF OwnedBy
<1>3. ASSUME NEW u \in Users \ stopped, CurrentView[u].state = "processing"
      PROVE  CurrentView[u].run \notin done
  <2>1. PICK r \in OwnedBy(u) : Shown(r)
    BY <1>3, ViewsDiffer DEF ViewFacts
  <2>2. CurrentView[u].run = r
    BY <2>1, ViewsDiffer DEF ViewFacts
  <2>3. QED
    BY <2>1, <2>2 DEF OwnedBy
<1>4. CurrentView' = [u \in Users |-> IF u \in stopped THEN Workspace!Idle ELSE CurrentView[u]]
  <2>1. CurrentView' = [u \in Users |-> CurrentView'[u]]
    BY DEF CurrentView
  <2>2. QED
    BY <1>1, <1>2, <2>1
<1>5. Workspace!Stop(stopped, done)
  BY <1>1, <1>3, <1>4 DEF Workspace!Stop
<1>6. QED
  BY <1>5 DEF Workspace!WNext

\* A run that is not over becomes the one shown, where the owner had no review
\* and no run in progress that is not given up with it.
LEMMA BeginStep ==
  ASSUME ViewFacts, ViewFacts', NEW r \in Runs, NEW done \in SUBSET OwnedBy(Owner[r]),
         r \notin Over \cup done,
         \A q \in OwnedBy(Owner[r]) : ~Reviewed(q) /\ (Shown(q) => q \in done),
         Shown(r)',
         \A q \in Runs \ OwnedBy(Owner[r]) :
           (Shown(q)' <=> Shown(q)) /\ (Reviewed(q)' <=> Reviewed(q)),
         Over' = Over \cup done
  PROVE  Workspace!WNext
<1> DEFINE u == Owner[r]
<1>1. u \in Users /\ r \in OwnedBy(u)
  BY OwnerAssumption DEF OwnedBy
<1>2. CurrentView'[u] = Workspace!Processing(r)
  BY <1>1 DEF ViewFacts, OwnedBy, Workspace!Processing
<1>3. \/ CurrentView[u] = Workspace!Idle
      \/ CurrentView[u].state = "processing" /\ CurrentView[u].run \in done
  <2>1. CASE \E q \in OwnedBy(u) : Shown(q)
    BY <1>1, <2>1, ViewsDiffer DEF ViewFacts
  <2>2. CASE \A q \in OwnedBy(u) : ~Shown(q)
    BY <1>1, <2>2 DEF ViewFacts
  <2>3. QED
    BY <2>1, <2>2
<1>4. ASSUME NEW v \in Users, v # u PROVE CurrentView'[v] = CurrentView[v]
  <2>1. \A q \in OwnedBy(v) : q \in Runs \ OwnedBy(u)
    BY <1>4 DEF OwnedBy
  <2>2. QED
    BY <2>1, SameView
<1>5. CurrentView' = [CurrentView EXCEPT ![u] = Workspace!Processing(r)]
  <2>1. /\ CurrentView' = [v \in Users |-> CurrentView'[v]]
        /\ CurrentView  = [v \in Users |-> CurrentView[v]]
    BY DEF CurrentView
  <2>2. QED
    BY <1>1, <1>2, <1>4, <2>1
<1>6. Workspace!Begin(u, r, done)
  BY <1>1, <1>3, <1>5 DEF Workspace!Begin, OwnedBy
<1>7. done \in SUBSET Runs
  BY DEF OwnedBy
<1>8. QED
  BY <1>1, <1>6, <1>7 DEF Workspace!WNext

\* The shown run is published and reviewed.
LEMMA PublishStep ==
  ASSUME ViewFacts, ViewFacts', NEW r \in Runs,
         Shown(r), Reviewed(r)',
         \A q \in Runs \ OwnedBy(Owner[r]) :
           (Shown(q)' <=> Shown(q)) /\ (Reviewed(q)' <=> Reviewed(q)),
         Over' = Over \cup {r}
  PROVE  Workspace!WNext
<1> DEFINE u == Owner[r]
<1>1. u \in Users /\ r \in OwnedBy(u)
  BY OwnerAssumption DEF OwnedBy
<1>2. CurrentView[u] = Workspace!Processing(r)
  BY <1>1 DEF ViewFacts
<1>3. CurrentView'[u] = Workspace!Reviewing(r)
  BY <1>1 DEF ViewFacts, OwnedBy, Workspace!Reviewing
<1>4. ASSUME NEW v \in Users, v # u PROVE CurrentView'[v] = CurrentView[v]
  <2>1. \A q \in OwnedBy(v) : q \in Runs \ OwnedBy(u)
    BY <1>4 DEF OwnedBy
  <2>2. QED
    BY <2>1, SameView
<1>5. CurrentView' = [CurrentView EXCEPT ![u] = Workspace!Reviewing(r)]
  <2>1. /\ CurrentView' = [v \in Users |-> CurrentView'[v]]
        /\ CurrentView  = [v \in Users |-> CurrentView[v]]
    BY DEF CurrentView
  <2>2. QED
    BY <1>1, <1>3, <1>4, <2>1
<1>6. Workspace!Publish(u)
  BY <1>2, <1>5 DEF Workspace!Publish, Workspace!Processing
<1>7. QED
  BY <1>1, <1>6 DEF Workspace!WNext

\* A review ends, by the owner or by its deadline.
LEMMA LeaveStep ==
  ASSUME ViewFacts, ViewFacts', NEW r \in Runs,
         Reviewed(r), ~Reviewed(r)',
         \A q \in Runs : Shown(q)' <=> Shown(q),
         \A q \in Runs : q # r => (Reviewed(q)' <=> Reviewed(q)),
         UNCHANGED Over
  PROVE  Workspace!WNext
<1> DEFINE u == Owner[r]
<1>1. u \in Users /\ r \in OwnedBy(u)
  BY OwnerAssumption DEF OwnedBy
<1>2. CurrentView[u] = Workspace!Reviewing(r)
  BY <1>1 DEF ViewFacts
<1>3. \A q \in OwnedBy(u) : ~Shown(q)
  BY <1>1, ShownNotReviewed
<1>4. \A q \in OwnedBy(u) : q # r => ~Reviewed(q)
  BY <1>1, <1>2, ViewsDiffer DEF ViewFacts
<1>5. CurrentView'[u] = Workspace!Idle
  <2>1. \A q \in OwnedBy(u) : ~Shown(q)' /\ ~Reviewed(q)'
    BY <1>3, <1>4 DEF OwnedBy
  <2>2. QED
    BY <1>1, <2>1 DEF ViewFacts, OwnedBy, Workspace!Idle
<1>6. ASSUME NEW v \in Users, v # u PROVE CurrentView'[v] = CurrentView[v]
  <2>1. \A q \in OwnedBy(v) : q \in Runs /\ q # r
    BY <1>6 DEF OwnedBy
  <2>2. QED
    BY <2>1, SameView
<1>7. CurrentView' = [CurrentView EXCEPT ![u] = Workspace!Idle]
  <2>1. /\ CurrentView' = [v \in Users |-> CurrentView'[v]]
        /\ CurrentView  = [v \in Users |-> CurrentView[v]]
    BY DEF CurrentView
  <2>2. QED
    BY <1>1, <1>5, <1>6, <2>1
<1>8. Workspace!Leave(u)
  BY <1>2, <1>7 DEF Workspace!Leave, Workspace!Reviewing
<1>9. QED
  BY <1>1, <1>8 DEF Workspace!WNext

-----------------------------------------------------------------------------
(***************************************************************************)
(* Every step of the queue is a step of the view, or changes nothing of it.*)
(***************************************************************************)
WorkspaceInv == TypeOK /\ AttemptHistory /\ RunsAndSessionsExclude

\* A step that only fails running runs and overdue queued ones is a Stop.
LEMMA SettleStep ==
  ASSUME ViewFacts, ViewFacts', NEW S \in SUBSET Runs,
         \A r \in S : status'[r] = "failed",
         \A r \in Runs \ S : Shown(r)' <=> Shown(r),
         Over' = Over \cup S,
         \A r \in S : \/ status[r] = "running"
                      \/ status[r] = "queued" /\ ~Shown(r),
         \A r \in S : status[r] = "running" =>
           \A q \in Runs : Shown(q) /\ Owner[q] = Owner[r] => q = r,
         \A r \in Runs : Reviewed(r)' <=> Reviewed(r)
  PROVE  Workspace!WNext
<1> DEFINE stopped == {u \in Users : \E r \in S : Owner[r] = u /\ status[r] = "running"}
<1>1. \A r \in Runs : Shown(r)' <=> (Shown(r) /\ Owner[r] \notin stopped)
  <2> SUFFICES ASSUME NEW r \in Runs
               PROVE  Shown(r)' <=> (Shown(r) /\ Owner[r] \notin stopped)
    OBVIOUS
  <2>1. Owner[r] \in Users
    BY OwnerAssumption
  <2>2. CASE r \in S
    BY <2>1, <2>2 DEF Shown
  <2>3. CASE r \notin S
    BY <2>1, <2>3 DEF Shown
  <2>4. QED
    BY <2>2, <2>3
<1>2. \A u \in stopped : \E r \in OwnedBy(u) : Shown(r)
  BY DEF OwnedBy, Shown
<1>3. \A r \in S : Shown(r) => Owner[r] \in stopped
  BY OwnerAssumption DEF Shown
<1>4. stopped \in SUBSET Users
  OBVIOUS
<1> HIDE DEF stopped
<1>5. QED
  BY <1>1, <1>2, <1>3, <1>4, StopStep

\* A step that changes nothing shown, reviewed or over is a Stop of no one.
LEMMA QuietViewStep ==
  ASSUME ViewFacts, ViewFacts',
         \A r \in Runs : Reviewed(r)' <=> Reviewed(r),
         \A r \in Runs : Shown(r)' <=> Shown(r),
         UNCHANGED Over
  PROVE  Workspace!WNext
<1> DEFINE none == {}
<1>1. none \in SUBSET Users /\ none \in SUBSET Runs
  OBVIOUS
<1>2. /\ \A r \in Runs : Shown(r)' <=> (Shown(r) /\ Owner[r] \notin none)
      /\ \A u \in none : \E r \in OwnedBy(u) : Shown(r)
      /\ \A r \in none : Shown(r) => Owner[r] \in none
      /\ Over' = Over \cup none
  OBVIOUS
<1> HIDE DEF none
<1>3. QED
  BY <1>1, <1>2, StopStep

\* Sessions that are expired for being past their deadline were not shown.
LEMMA ExpiredUnreviewed ==
  ASSUME TypeOK, NEW u, session' = WithStaleSessionsExpired(u), UNCHANGED sessionFresh,
         NEW r \in Runs
  PROVE  Reviewed(r)' <=> Reviewed(r)
BY DEF TypeOK, WithStaleSessionsExpired, Reviewed

\* What a reconciliation makes of the statuses, in terms of what is shown: the
\* runs it gives up were running, or were not shown.
LEMMA CollectedView ==
  ASSUME TypeOK, NEW u, NEW r \in Runs, Reconciled(u, TRUE)[r] # status[r]
  PROVE  /\ Owner[r] = u
         /\ \/ status[r] = "running" /\ Reconciled(u, TRUE)[r] = "failed"
            \/ status[r] = "queued" /\ ~Shown(r) /\ Reconciled(u, TRUE)[r] = "failed"
            \/ status[r] = "uploading" /\ ~Shown(r)
               /\ Reconciled(u, TRUE)[r] = "cleanup_pending"
BY DEF TypeOK, Reconciled, Exhausted, Shown

LEMMA ReconciledView ==
  ASSUME TypeOK, NEW u, NEW r \in Runs, Reconciled(u, FALSE)[r] # status[r]
  PROVE  /\ Reconciled(u, FALSE)[r] = "failed"
         /\ \/ status[r] = "running"
            \/ status[r] = "queued" /\ ~Shown(r)
BY DEF TypeOK, Reconciled, Exhausted, Shown

\* A lapsed upload that is renewed or queued is the only one its owner has.
LEMMA ResumeStep ==
  ASSUME WorkspaceInv, ViewFacts, ViewFacts', NEW r \in Runs,
         status[r] = "uploading", ~fresh[r],
         status' \in {status, [status EXCEPT ![r] = "queued"]},
         fresh' = [fresh EXCEPT ![r] = TRUE],
         UNCHANGED sessVars
  PROVE  Workspace!WNext
<1> DEFINE none == {}
<1>1. \A q \in OwnedBy(Owner[r]) : ~Reviewed(q) /\ ~Shown(q)
  BY DEF WorkspaceInv, RunsAndSessionsExclude, OwnedBy, Reviewed, Shown, ActiveStatus
<1>2. Shown(r)'
  BY DEF WorkspaceInv, TypeOK, Shown
<1>3. \A q \in Runs : q # r => (Shown(q)' <=> Shown(q))
  BY DEF WorkspaceInv, TypeOK, Shown
<1>4. \A q \in Runs : Reviewed(q)' <=> Reviewed(q)
  BY DEF sessVars, Reviewed
<1>5. Over' = Over /\ r \notin Over
  BY DEF WorkspaceInv, TypeOK, Over
<1>6. /\ none \in SUBSET OwnedBy(Owner[r])
      /\ r \notin Over \cup none
      /\ Over' = Over \cup none
      /\ \A q \in Runs \ OwnedBy(Owner[r]) : q # r
  BY <1>5 DEF OwnedBy
<1> HIDE DEF none
<1>7. QED
  BY <1>1, <1>2, <1>3, <1>4, <1>6, BeginStep

\* An upload or a queued run that stops being shown, for good or for now.
LEMMA StopOneStep ==
  ASSUME TypeOK, ViewFacts, ViewFacts', NEW r \in Runs, NEW done \in {{}, {r}},
         ~Shown(r)',
         \A q \in Runs : q # r => (Shown(q)' <=> Shown(q)),
         Shown(r) => \A q \in Runs : Shown(q) /\ Owner[q] = Owner[r] => q = r,
         UNCHANGED sessVars,
         Over' = Over \cup done
  PROVE  Workspace!WNext
<1> DEFINE stopped == IF Shown(r) THEN {Owner[r]} ELSE {}
<1>1. stopped \in SUBSET Users /\ done \in SUBSET Runs
  BY OwnerAssumption
<1>2. \A q \in Runs : Shown(q)' <=> (Shown(q) /\ Owner[q] \notin stopped)
  OBVIOUS
<1>3. \A u \in stopped : \E q \in OwnedBy(u) : Shown(q)
  BY DEF OwnedBy
<1>4. \A q \in done : Shown(q) => Owner[q] \in stopped
  OBVIOUS
<1>5. \A q \in Runs : Reviewed(q)' <=> Reviewed(q)
  BY DEF sessVars, Reviewed
<1> HIDE DEF stopped
<1>6. QED
  BY <1>1, <1>2, <1>3, <1>4, <1>5, StopStep

\* Every step of the queue is a step of the view, or changes nothing of it.
LEMMA ViewStep ==
  ASSUME WorkspaceInv, ViewFacts, ViewFacts', [Next]_vars
  PROVE  [Workspace!WNext]_(Workspace!wvars)
<1> USE DEF WorkspaceInv
<1>1. ASSUME NEW r \in Runs, Reserve(r) PROVE Workspace!WNext
  <2> DEFINE u    == Owner[r]
             st   == Reconciled(u, TRUE)
             done == {q \in OwnedBy(u) : st[q] # status[q]}
  <2>1. /\ status[r] = "absent" /\ r \in OwnedBy(u)
        /\ MayBegin(u, st)
        /\ status' = [st EXCEPT ![r] = "uploading"]
        /\ fresh' = [fresh EXCEPT ![r] = TRUE]
        /\ session' = WithStaleSessionsExpired(u)
        /\ UNCHANGED sessionFresh
    BY <1>1 DEF Reserve, OwnedBy
  <2>2. st \in [Runs -> RunStatus]
    BY ReconciledType
  <2>3. \A q \in Runs : st[q] # status[q] =>
           /\ Owner[q] = u
           /\ \/ status[q] = "running" /\ st[q] = "failed"
              \/ status[q] = "queued" /\ ~Shown(q) /\ st[q] = "failed"
              \/ status[q] = "uploading" /\ ~Shown(q) /\ st[q] = "cleanup_pending"
    <3> SUFFICES ASSUME NEW q \in Runs
                 PROVE  st[q] # status[q] =>
                          /\ Owner[q] = u
                          /\ \/ status[q] = "running" /\ st[q] = "failed"
                             \/ status[q] = "queued" /\ ~Shown(q) /\ st[q] = "failed"
                             \/ status[q] = "uploading" /\ ~Shown(q) /\ st[q] = "cleanup_pending"
      OBVIOUS
    <3> HIDE DEF u
    <3>1. QED
      BY CollectedView
  <2> HIDE DEF st
  <2>4. r \notin Over \cup done
    BY <2>1, <2>3 DEF Over
  <2>5. \A q \in OwnedBy(u) : ~Reviewed(q) /\ (Shown(q) => q \in done)
    BY <2>1 DEF MayBegin, Reviewed, Shown, ActiveStatus
  <2>6. Shown(r)'
    BY <2>1, <2>2 DEF Shown, TypeOK
  <2>7. \A q \in Runs \ OwnedBy(u) :
          (Shown(q)' <=> Shown(q)) /\ (Reviewed(q)' <=> Reviewed(q))
    <3> SUFFICES ASSUME NEW q \in Runs, q \notin OwnedBy(u)
                 PROVE  (Shown(q)' <=> Shown(q)) /\ (Reviewed(q)' <=> Reviewed(q))
      OBVIOUS
    <3>1. q # r /\ st[q] = status[q]
      BY <2>1, <2>3 DEF OwnedBy
    <3>2. status'[q] = status[q] /\ fresh'[q] = fresh[q]
      BY <2>1, <2>2, <3>1 DEF TypeOK
    <3>3. QED
      BY <2>1, <3>2, ExpiredUnreviewed DEF Shown
  <2>8. Over' = Over \cup done
    BY <2>1, <2>2, <2>3 DEF Over, OwnedBy
  <2>9. done \in SUBSET OwnedBy(u)
    OBVIOUS
  <2> HIDE DEF done
  <2>10. QED
    BY <2>4, <2>5, <2>6, <2>7, <2>8, <2>9, BeginStep
<1>2. ASSUME NEW r \in Runs, ReserveReplay(r) \/ Finalize(r) PROVE Workspace!WNext
  <2>1. status[r] = "uploading" /\ UNCHANGED sessVars
    BY <1>2 DEF ReserveReplay, Finalize
  <2>2. CASE ~fresh[r] /\ fresh' = [fresh EXCEPT ![r] = TRUE]
    <3>1. status' \in {status, [status EXCEPT ![r] = "queued"]}
      BY <1>2, <2>2 DEF ReserveReplay, Finalize, TypeOK
    <3>2. QED
      BY <2>1, <2>2, <3>1, ResumeStep
  <2>3. CASE fresh[r]
    BY <1>2, <2>1, <2>3, QuietViewStep
       DEF ReserveReplay, Finalize, TypeOK, Shown, Reviewed, Over, sessVars
  <2>4. CASE ~fresh[r] /\ fresh' = fresh /\ status' = [status EXCEPT ![r] = "cleanup_pending"]
    <3>1. /\ ~Shown(r)' /\ ~Shown(r)
          /\ \A q \in Runs : q # r => (Shown(q)' <=> Shown(q))
      BY <2>1, <2>4 DEF TypeOK, Shown
    <3>2. Over' = Over \cup {r}
      BY <2>4 DEF TypeOK, Over
    <3>3. QED
      BY <2>1, <3>1, <3>2, StopOneStep
  <2>5. QED
    BY <1>2, <2>2, <2>3, <2>4 DEF ReserveReplay, Finalize
<1>3. ASSUME NEW r \in Runs, MarkCleanupPending(r) PROVE Workspace!WNext
  <2>1. /\ ~Shown(r)'
        /\ \A q \in Runs : q # r => (Shown(q)' <=> Shown(q))
    BY <1>3 DEF MarkCleanupPending, TypeOK, Shown
  <2>2. \A q \in Runs : Shown(q) /\ Owner[q] = Owner[r] => q = r
    BY <1>3 DEF MarkCleanupPending, RunsAndSessionsExclude, Shown, ActiveStatus
  <2>3. Over' = Over \cup {r} /\ UNCHANGED sessVars
    BY <1>3 DEF MarkCleanupPending, TypeOK, Over
  <2>4. QED
    BY <2>1, <2>2, <2>3, StopOneStep
<1>4. ASSUME NEW r \in Runs, CompleteCleanup(r) PROVE Workspace!WNext
  BY <1>4, QuietViewStep DEF CompleteCleanup, TypeOK, Shown, Reviewed, Over, sessVars
<1>5. ASSUME NEW r \in Runs, CloseSession(r) \/ ExpireSession(r) PROVE Workspace!WNext
  <2>1. \A q \in Runs : Shown(q)' <=> Shown(q)
    BY <1>5 DEF CloseSession, ExpireSession, runVars, Shown
  <2>2. UNCHANGED Over
    BY <1>5 DEF CloseSession, ExpireSession, runVars, Over
  <2>3. \A q \in Runs : q # r => (Reviewed(q)' <=> Reviewed(q))
    BY <1>5 DEF CloseSession, ExpireSession, TypeOK, Reviewed
  <2>4. ~Reviewed(r)'
    BY <1>5 DEF CloseSession, ExpireSession, TypeOK, Reviewed
  <2>5. CASE Reviewed(r)
    BY <2>1, <2>2, <2>3, <2>4, <2>5, LeaveStep
  <2>6. CASE ~Reviewed(r)
    BY <2>1, <2>2, <2>3, <2>4, <2>6, QuietViewStep
  <2>7. QED
    BY <2>5, <2>6
<1>6. ASSUME NEW r \in Runs, ExpireRun(r) PROVE Workspace!WNext
  <2>1. \A q \in Runs : q # r => (Shown(q)' <=> Shown(q))
    BY <1>6 DEF ExpireRun, TypeOK, Shown
  <2>2. UNCHANGED <<Over, sessVars>>
    BY <1>6 DEF ExpireRun, Over
  <2>3. CASE status[r] = "running"
    <3>1. \A q \in Runs : Shown(q)' <=> Shown(q)
      BY <1>6, <2>1, <2>3 DEF ExpireRun, Shown
    <3>2. \A q \in Runs : Reviewed(q)' <=> Reviewed(q)
      BY <2>2 DEF sessVars, Reviewed
    <3>3. QED
      BY <2>2, <3>1, <3>2, QuietViewStep
  <2>4. CASE status[r] # "running"
    <3>1. ~Shown(r)'
      BY <1>6, <2>4 DEF ExpireRun, TypeOK, Shown
    <3>2. \A q \in Runs : Shown(q) /\ Owner[q] = Owner[r] => q = r
      BY <1>6 DEF ExpireRun, RunsAndSessionsExclude, Shown, ActiveStatus
    <3> DEFINE done == {}
    <3>3. done \in {{}, {r}} /\ Over' = Over \cup done
      BY <2>2
    <3> HIDE DEF done
    <3>4. QED
      BY <2>1, <2>2, <3>1, <3>2, <3>3, StopOneStep
  <2>5. QED
    BY <2>3, <2>4
<1>7. ASSUME NEW r \in Runs, AgeLease(r) PROVE Workspace!WNext
  BY <1>7, QuietViewStep DEF AgeLease, runVars, sessVars, Shown, Reviewed, Over
<1>8. ASSUME NEW r \in Runs, NEW n \in Attempts, Heartbeat(r, n) PROVE Workspace!WNext
  BY <1>8, QuietViewStep DEF Heartbeat, runVars, sessVars, Shown, Reviewed, Over
<1>9. ASSUME NEW r \in Runs, NEW n \in Attempts, Fail(r, n) PROVE Workspace!WNext
  <2>1. /\ status[r] = "running" /\ UNCHANGED <<fresh, sessVars>>
        /\ status' = [status EXCEPT ![r] = IF attempts[r] < MaxAttempts
                                           THEN "queued" ELSE "failed"]
    BY <1>9 DEF Fail, Fenced
  <2>2. \A q \in Runs : q # r => (Shown(q)' <=> Shown(q))
    BY <2>1 DEF TypeOK, Shown
  <2>3. \A q \in Runs : Shown(q) /\ Owner[q] = Owner[r] => q = r
    BY <2>1 DEF RunsAndSessionsExclude, Shown, ActiveStatus
  <2>4. CASE attempts[r] < MaxAttempts /\ fresh[r]
    <3>1. \A q \in Runs : Shown(q)' <=> Shown(q)
      BY <2>1, <2>2, <2>4 DEF TypeOK, Shown
    <3>2. \A q \in Runs : Reviewed(q)' <=> Reviewed(q)
      BY <2>1 DEF sessVars, Reviewed
    <3>3. UNCHANGED Over
      BY <2>1, <2>4 DEF TypeOK, Over
    <3>4. QED
      BY <3>1, <3>2, <3>3, QuietViewStep
  <2>5. CASE attempts[r] < MaxAttempts /\ ~fresh[r]
    <3> DEFINE done == {}
    <3>1. ~Shown(r)'
      BY <2>1, <2>5 DEF TypeOK, Shown
    <3>2. done \in {{}, {r}} /\ Over' = Over \cup done
      BY <2>1, <2>5 DEF TypeOK, Over
    <3> HIDE DEF done
    <3>3. QED
      BY <2>1, <2>2, <2>3, <3>1, <3>2, StopOneStep
  <2>6. CASE ~(attempts[r] < MaxAttempts)
    <3>1. ~Shown(r)'
      BY <2>1, <2>6 DEF TypeOK, Shown
    <3>2. Over' = Over \cup {r}
      BY <2>1, <2>6 DEF TypeOK, Over
    <3>3. QED
      BY <2>1, <2>2, <2>3, <3>1, <3>2, StopOneStep
  <2>7. QED
    BY <2>4, <2>5, <2>6
<1>10. ASSUME NEW r \in Runs, NEW n \in Attempts, Complete(r, n) PROVE Workspace!WNext
  <2> DEFINE settled == WithStaleSessionsExpired(Owner[r])
  <2>1. /\ status[r] = "running" /\ UNCHANGED fresh
        /\ status' = [status EXCEPT ![r] = "succeeded"]
    BY <1>10 DEF Complete, Fenced
  <2>2. session[r] = "none"
    BY <2>1 DEF AttemptHistory, RunHistory, TypeOK
  <2>3. settled \in [Runs -> SessionStatus] /\ settled[r] = "none"
    <3>1. settled \in [Runs -> SessionStatus]
      BY StaleSessionsType
    <3>2. QED
      BY <2>2, <3>1, StaleSessionsKeep
  <2>4. /\ session' = [settled EXCEPT ![r] = "active"]
        /\ sessionFresh' = [sessionFresh EXCEPT ![r] = TRUE]
    BY <1>10, <2>3 DEF Complete
  <2>5. \A q \in Runs : Owner[q] # Owner[r] => settled[q] = session[q]
    BY DEF WithStaleSessionsExpired
  <2> HIDE DEF settled
  <2>6. Shown(r) /\ Reviewed(r)'
    BY <2>1, <2>3, <2>4 DEF TypeOK, Shown, Reviewed
  <2>7. \A q \in Runs \ OwnedBy(Owner[r]) :
          (Shown(q)' <=> Shown(q)) /\ (Reviewed(q)' <=> Reviewed(q))
    <3> SUFFICES ASSUME NEW q \in Runs, Owner[q] # Owner[r]
                 PROVE  (Shown(q)' <=> Shown(q)) /\ (Reviewed(q)' <=> Reviewed(q))
      BY DEF OwnedBy
    <3>1. /\ session'[q] = session[q] /\ sessionFresh'[q] = sessionFresh[q]
          /\ status'[q] = status[q] /\ fresh'[q] = fresh[q]
      BY <2>1, <2>3, <2>4, <2>5 DEF TypeOK
    <3>2. QED
      BY <3>1 DEF Shown, Reviewed
  <2>8. Over' = Over \cup {r}
    BY <2>1 DEF TypeOK, Over
  <2>9. QED
    BY <2>6, <2>7, <2>8, PublishStep
<1>11. ASSUME NEW r \in Runs, NEW n \in Attempts, CompleteFencedOut(r, n)
       PROVE  Workspace!WNext
  <2>1. \A q \in Runs : Reviewed(q)' <=> Reviewed(q)
    BY <1>11, ExpiredUnreviewed DEF CompleteFencedOut
  <2>2. UNCHANGED <<status, fresh>>
    BY <1>11 DEF CompleteFencedOut, runVars
  <2>3. QED
    BY <2>1, <2>2, QuietViewStep DEF Shown, Over
<1>12. ASSUME NEW seen \in SUBSET Runs, Claim(seen) PROVE Workspace!WNext
  <2> DEFINE overdue == {r \in seen : status[r] = "queued" /\ ~fresh[r]}
             settled == overdue \cup {r \in seen : Exhausted(r)}
             st      == [r \in Runs |-> IF r \in settled THEN "failed" ELSE status[r]]
  <2>1. UNCHANGED <<fresh, sessVars>>
    BY <1>12 DEF Claim
  <2>2. \/ status' = st
        \/ \E r \in seen : Claimable(r) /\ status' = [st EXCEPT ![r] = "running"]
    BY <1>12 DEF Claim
  <2>3. /\ settled \in SUBSET Runs
        /\ \A r \in settled : \/ status[r] = "running"
                              \/ status[r] = "queued" /\ ~Shown(r)
    BY DEF Exhausted, Shown
  <2>4. \A r \in seen : Claimable(r) => Shown(r) /\ r \notin settled
    BY DEF Claimable, Exhausted, Shown, TypeOK, MaxAttempts
  <2>5. st \in [Runs -> RunStatus]
    BY DEF TypeOK, RunStatus
  <2>6. \A r \in Runs : /\ r \in settled => st[r] = "failed"
                        /\ r \notin settled => st[r] = status[r]
    OBVIOUS
  <2> HIDE DEF settled, st
  <2>7. \A r \in settled : status'[r] = "failed"
    BY <2>2, <2>3, <2>4, <2>5, <2>6
  <2>8. \A r \in Runs \ settled : Shown(r)' <=> Shown(r)
    BY <2>1, <2>2, <2>4, <2>5, <2>6 DEF Shown
  <2>9. Over' = Over \cup settled
    <3>1. \A r \in Runs \ settled : r \in Over' <=> r \in Over
      BY <2>2, <2>4, <2>5, <2>6 DEF Over, Shown
    <3>2. QED
      BY <2>3, <2>7, <3>1 DEF Over
  <2>10. \A r \in settled : status[r] = "running" =>
           \A q \in Runs : Shown(q) /\ Owner[q] = Owner[r] => q = r
    BY <2>3 DEF RunsAndSessionsExclude, Shown, ActiveStatus
  <2>11. \A r \in Runs : Reviewed(r)' <=> Reviewed(r)
    BY <2>1 DEF sessVars, Reviewed
  <2>12. QED
    BY <2>3, <2>7, <2>8, <2>9, <2>10, <2>11, SettleStep
<1>13. ASSUME NEW u \in Users, GetCurrent(u) PROVE Workspace!WNext
  <2> DEFINE settled == {r \in Runs : status'[r] # status[r]}
  <2>1. /\ status' = Reconciled(u, FALSE)
        /\ session' = WithStaleSessionsExpired(u)
        /\ UNCHANGED <<fresh, sessionFresh>>
    BY <1>13 DEF GetCurrent
  <2>2. \A r \in settled : /\ status'[r] = "failed"
                           /\ \/ status[r] = "running"
                              \/ status[r] = "queued" /\ ~Shown(r)
    BY <2>1, ReconciledView
  <2>3. \A r \in Runs \ settled : Shown(r)' <=> Shown(r)
    BY <2>1 DEF Shown
  <2>4. Over' = Over \cup settled
    BY <2>2 DEF Over
  <2>5. \A r \in settled : status[r] = "running" =>
          \A q \in Runs : Shown(q) /\ Owner[q] = Owner[r] => q = r
    BY DEF RunsAndSessionsExclude, Shown, ActiveStatus
  <2>6. \A r \in Runs : Reviewed(r)' <=> Reviewed(r)
    BY <2>1, ExpiredUnreviewed
  <2>7. settled \in SUBSET Runs
    OBVIOUS
  <2> HIDE DEF settled
  <2>8. QED
    BY <2>2, <2>3, <2>4, <2>5, <2>6, <2>7, SettleStep
<1>14. CASE ChatAdmit \/ ChatDone
  BY <1>14, QuietViewStep DEF ChatAdmit, ChatDone, runVars, sessVars, Shown, Reviewed, Over
<1>15. CASE UNCHANGED vars
  BY <1>15 DEF vars, runVars, sessVars, Workspace!wvars, CurrentView, InProgress,
               UnderReview, OwnedBy, Over
<1>16. QED
  BY <1>1, <1>2, <1>3, <1>4, <1>5, <1>6, <1>7, <1>8, <1>9, <1>10, <1>11, <1>12,
     <1>13, <1>14, <1>15 DEF Next

\* Whatever uploads, workers, owners and deadlines do, each owner's view moves
\* only as UserWorkspace allows.
THEOREM WorkspaceImplemented == Spec => ImplementsWorkspace
<1>1. Init => Workspace!WInit
  BY DEF Init, Workspace!WInit, Workspace!Idle, CurrentView, InProgress, UnderReview,
         OwnedBy, Over
<1>2. Spec => []WorkspaceInv
  BY TypeCorrect, AttemptHistoryCorrect, ExclusionCorrect, PTL DEF WorkspaceInv
<1>3. WorkspaceInv => ViewFacts
  BY ViewIsTheRun DEF WorkspaceInv
<1>4. WorkspaceInv /\ ViewFacts /\ ViewFacts' /\ [Next]_vars
        => [Workspace!WNext]_(Workspace!wvars)
  BY ViewStep
<1>5. QED
  BY <1>1, <1>2, <1>3, <1>4, PTL DEF Spec, ImplementsWorkspace, Workspace!WSpec
==============================================================================
