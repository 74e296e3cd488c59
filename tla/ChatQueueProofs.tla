--------------------------- MODULE ChatQueueProofs ---------------------------
(* Proofs, for every set of turns and sessions and every queue limit and     *)
(* lease length, of the safety properties of ChatQueue.                      *)
EXTENDS ChatQueue, FiniteSetTheorems, TLAPS

-----------------------------------------------------------------------------
(***************************************************************************)
(* The inductive invariant, turn by turn.                                  *)
(***************************************************************************)
ProcessingStatus == {"none", "running", "succeeded", "failed"}

\* The attempts of turn m: live is the one that holds the fence, and it is the
\* last; only the last may have succeeded; those to come have left no trace.
Attempted(m) ==
  /\ \A n \in Attempts :
       /\ processing[m][n] = "running" <=> fence[m] = n
       /\ processing[m][n] = "succeeded" <=> status[m] = "completed" /\ n = started[m]
       /\ n > started[m] => processing[m][n] = "none"
  /\ fence[m] # 0 => fence[m] = started[m] /\ status[m] = "generating"
  /\ fence[m] = 0 => lease[m] = 0

\* The attempts it may still start.
Budgeted(m) ==
  /\ started[m] <= MaxAttempts * (1 + auto[m] + manual[m])
  /\ status[m] = "generating" =>
       started[m] <= MaxAttempts * (auto[m] + manual[m]) + attempts[m]
  /\ status[m] = "absent" => started[m] = 0

TurnInv == \A m \in Messages : Attempted(m) /\ Budgeted(m)

\* The properties of the model follow from it.
LEMMA TurnInvImplies == TurnInv => OneLiveAttempt /\ AnsweredByLastAttempt /\ WorkBudget
BY DEF TurnInv, Attempted, Budgeted, OneLiveAttempt, AnsweredByLastAttempt, WorkBudget

-----------------------------------------------------------------------------
(***************************************************************************)
(* What the helpers return.                                                *)
(***************************************************************************)

\* Releasing dispatch rows leaves fences and leases in their types.
LEMMA ReleaseType ==
  ASSUME TypeOK, NEW S, Release(S)
  PROVE  fence' \in [Messages -> Attempts \cup {0}] /\ lease' \in [Messages -> 0..LeaseTerm]
BY LeaseAssumption DEF TypeOK, Release

\* Failing the live attempts of a set of turns yields attempt statuses.
LEMMA FailedAttemptsType ==
  ASSUME TypeOK, NEW S
  PROVE  /\ WithFailedAttempts(S) \in [Messages -> [Attempts -> ProcessingStatus]]
         /\ \A m \in Messages : \A n \in Attempts :
              WithFailedAttempts(S)[m][n] =
                IF m \in S /\ fence[m] = n /\ processing[m][n] = "running"
                THEN "failed" ELSE processing[m][n]
BY DEF TypeOK, WithFailedAttempts, ProcessingStatus

\* A candidate has started at most seven attempts.
LEMMA CandidateBudget ==
  ASSUME TypeOK, NEW m \in Messages, Budgeted(m), Candidate(m)
  PROVE  /\ started[m] + 1 \in Attempts
         /\ attempts[m] + 1 \in 0..MaxAttempts
         /\ started[m] + 1 <= MaxAttempts * (auto[m] + manual[m]) + attempts[m] + 1
BY DEF TypeOK, Budgeted, Candidate, Attempts, MaxAttempts, AutoRetries, ManualRetries

-----------------------------------------------------------------------------
\* Every step keeps each variable in its type.
LEMMA TypeStep == TypeOK /\ TurnInv /\ [Next]_vars => TypeOK'
<1> SUFFICES ASSUME TypeOK, TurnInv, [Next]_vars PROVE TypeOK'
  OBVIOUS
<1> USE LeaseAssumption, LimitAssumption DEF ProcessingStatus
<1>1. ASSUME NEW m \in Messages, Prepare(m) PROVE TypeOK'
  BY <1>1 DEF Prepare, jobVars, caseVars, TypeOK
<1>2. ASSUME NEW m \in Messages, Retry(m) PROVE TypeOK'
  <2>1. /\ manual[m] + 1 \in 0..ManualRetries
        /\ 0 \in 0..MaxAttempts
    <3>1. manual[m] \in 0..ManualRetries /\ manual[m] < ManualRetries
      BY <1>2 DEF Retry, Retryable, TypeOK
    <3>2. QED
      BY <3>1 DEF ManualRetries, MaxAttempts
  <2>2. Release({m})
    BY <1>2 DEF Retry
  <2>3. QED
    BY <1>2, <2>1, <2>2, ReleaseType, FailedAttemptsType DEF Retry, caseVars, TypeOK
<1>3. ASSUME NEW m \in Messages, CoolDown(m) PROVE TypeOK'
  BY <1>3 DEF CoolDown, jobVars, caseVars, TypeOK
<1>4. ASSUME NEW m \in Messages, AgeLease(m) PROVE TypeOK'
  <2>1. lease[m] - 1 \in 0..LeaseTerm
    BY <1>4 DEF AgeLease, TypeOK
  <2>2. QED
    BY <1>4, <2>1 DEF AgeLease, turnVars, caseVars, TypeOK
<1>5. ASSUME NEW m \in Messages, NEW n \in Attempts, Heartbeat(m, n) PROVE TypeOK'
  <2>1. LeaseTerm \in 0..LeaseTerm
    OBVIOUS
  <2>2. QED
    BY <1>5, <2>1 DEF Heartbeat, turnVars, caseVars, TypeOK
<1>6. ASSUME NEW m \in Messages, NEW n \in Attempts, Complete(m, n) PROVE TypeOK'
  <2>1. Release({m})
    BY <1>6 DEF Complete
  <2>2. QED
    BY <1>6, <2>1, ReleaseType DEF Complete, caseVars, TypeOK
<1>7. ASSUME NEW m \in Messages, NEW n \in Attempts, Fail(m, n) PROVE TypeOK'
  <2>1. Release({m}) /\ 0 \in 0..MaxAttempts
    BY <1>7 DEF Fail, MaxAttempts
  <2>2. /\ status' \in [Messages -> {"absent", "generating", "completed", "failed"}]
        /\ auto' \in [Messages -> 0..AutoRetries]
        /\ UNCHANGED <<manual, cooling>>
    <3>1. CASE auto[m] < AutoRetries /\ RequeueAutomatically(m)
      <4>1. auto[m] + 1 \in 0..AutoRetries
        BY <3>1 DEF TypeOK, AutoRetries
      <4>2. QED
        BY <3>1, <4>1 DEF RequeueAutomatically, TypeOK
    <3>2. CASE status' = [status EXCEPT ![m] = "failed"] /\ UNCHANGED <<auto, manual, cooling>>
      BY <3>2 DEF TypeOK
    <3>3. QED
      BY <1>7, <3>1, <3>2 DEF Fail
  <2>3. QED
    BY <1>7, <2>1, <2>2, ReleaseType DEF Fail, caseVars, TypeOK
<1>8. ASSUME NEW seen \in SUBSET Messages, Claim(seen) PROVE TypeOK'
  <2> DEFINE settled == {m \in Messages : Forgotten(m) \/ Spent(m)}
             failed(S) == WithFailedAttempts(S)
  <2>1. /\ status' \in [Messages -> {"absent", "generating", "completed", "failed"}]
        /\ UNCHANGED <<auto, manual, cooling, live, retained, runLoad>>
    BY <1>8 DEF Claim, caseVars, TypeOK
  <2>2. \A S : failed(S) \in [Messages -> [Attempts -> ProcessingStatus]]
    BY FailedAttemptsType
  <2> HIDE DEF settled, failed
  <2>3. CASE Release(settled) /\ processing' = failed(settled) /\ UNCHANGED <<attempts, started>>
    BY <2>1, <2>2, <2>3, ReleaseType DEF TypeOK
  <2>4. ASSUME NEW m \in seen, Candidate(m),
               attempts' = [attempts EXCEPT ![m] = attempts[m] + 1],
               started'  = [started EXCEPT ![m] = started[m] + 1],
               fence' = [q \in Messages |-> IF q = m THEN started[m] + 1
                                            ELSE IF q \in settled THEN 0 ELSE fence[q]],
               lease' = [q \in Messages |-> IF q = m THEN LeaseTerm
                                            ELSE IF q \in settled THEN 0 ELSE lease[q]],
               processing' = [failed(settled \cup {m})
                                EXCEPT ![m][started[m] + 1] = "running"]
        PROVE  TypeOK'
    <3>1. started[m] + 1 \in Attempts /\ attempts[m] + 1 \in 0..MaxAttempts
      BY <2>4, CandidateBudget DEF TurnInv
    <3>2. processing' \in [Messages -> [Attempts -> ProcessingStatus]]
      BY <2>2, <2>4
    <3>3. /\ fence' \in [Messages -> Attempts \cup {0}]
          /\ lease' \in [Messages -> 0..LeaseTerm]
          /\ attempts' \in [Messages -> 0..MaxAttempts]
          /\ started' \in [Messages -> Attempts \cup {0}]
      BY <2>4, <3>1 DEF TypeOK
    <3>4. QED
      BY <2>1, <3>2, <3>3 DEF TypeOK
  <2>5. QED
    BY <1>8, <2>3, <2>4 DEF Claim, settled, failed
<1>9. ASSUME NEW s \in Sessions, EndSession(s) \/ EndRetention(s) PROVE TypeOK'
  BY <1>9 DEF EndSession, EndRetention, turnVars, jobVars, TypeOK
<1>10. CASE RunAdmit
  <2>1. IsFiniteSet(Occupying)
    BY MessagesAssumption, FS_Subset DEF Occupying
  <2>2. Cardinality(Occupying) \in Nat
    BY <2>1, FS_CardinalityType
  <2>3. runLoad + 1 \in 0..QueueLimit
    BY <1>10, <2>2 DEF RunAdmit, Admits, TypeOK
  <2>4. QED
    BY <1>10, <2>3 DEF RunAdmit, turnVars, jobVars, caseVars, TypeOK
<1>11. CASE RunDone
  BY <1>11 DEF RunDone, turnVars, jobVars, caseVars, TypeOK
<1>12. CASE UNCHANGED vars
  BY <1>12 DEF vars, turnVars, jobVars, caseVars, TypeOK
<1>13. QED
  BY <1>1, <1>2, <1>3, <1>4, <1>5, <1>6, <1>7, <1>8, <1>9, <1>10, <1>11, <1>12 DEF Next

-----------------------------------------------------------------------------
(***************************************************************************)
(* The invariant is inductive.                                             *)
(***************************************************************************)

\* Failing the live attempts of settled turns, and clearing their leases, keeps
\* the invariant of every turn, if those turns were being generated and fail.
LEMMA SettledInv ==
  ASSUME TypeOK, TurnInv, NEW S \in SUBSET Messages, NEW q \in Messages,
         \A m \in S : status[m] = "generating",
         status'[q] = IF q \in S THEN "failed" ELSE status[q],
         UNCHANGED <<auto, manual, attempts, started>>,
         Release(S), processing' = WithFailedAttempts(S)
  PROVE  Attempted(q)' /\ Budgeted(q)'
<1>1. Attempted(q) /\ Budgeted(q)
  BY DEF TurnInv
<1>2. /\ fence'[q] = IF q \in S THEN 0 ELSE fence[q]
      /\ lease'[q] = IF q \in S THEN 0 ELSE lease[q]
      /\ started[q] \in Nat
  BY DEF Release, TypeOK, Attempts
<1>3. \A n \in Attempts :
        processing'[q][n] = IF q \in S /\ fence[q] = n /\ processing[q][n] = "running"
                            THEN "failed" ELSE processing[q][n]
  BY FailedAttemptsType
<1>4. 0 \notin Attempts
  BY DEF Attempts
<1>5. Attempted(q)'
  <2>1. CASE q \in S
    <3>1. status[q] = "generating" /\ status'[q] = "failed"
      BY <2>1
    <3>2. QED
      BY <1>1, <1>2, <1>3, <1>4, <2>1, <3>1 DEF Attempted
  <2>2. CASE q \notin S
    BY <1>1, <1>2, <1>3, <2>2 DEF Attempted
  <2>3. QED
    BY <2>1, <2>2
<1>6. Budgeted(q)'
  BY <1>1 DEF Budgeted
<1>7. QED
  BY <1>5, <1>6

\* A step that leaves a turn and its attempts alone keeps its invariant, and so
\* does one that only changes its lease while the fence is held.
LEMMA UntouchedInv ==
  ASSUME NEW q \in Messages, Attempted(q), Budgeted(q),
         status'[q] = status[q], auto'[q] = auto[q], manual'[q] = manual[q],
         attempts'[q] = attempts[q], fence'[q] = fence[q], started'[q] = started[q],
         lease'[q] = lease[q] \/ (fence[q] = 0 => lease'[q] = 0),
         \A n \in Attempts : processing'[q][n] = processing[q][n]
  PROVE  Attempted(q)' /\ Budgeted(q)'
BY DEF Attempted, Budgeted

\* Every step keeps the invariant of every turn.
LEMMA TurnStep == TypeOK /\ TypeOK' /\ TurnInv /\ [Next]_vars => TurnInv'
<1> SUFFICES ASSUME TypeOK, TypeOK', TurnInv, [Next]_vars, NEW q \in Messages
             PROVE  Attempted(q)' /\ Budgeted(q)'
  BY DEF TurnInv
<1> Attempted(q) /\ Budgeted(q)
  BY DEF TurnInv
<1> started[q] \in Nat
  <2>1. started[q] \in Attempts \cup {0}
    BY DEF TypeOK
  <2>2. QED
    BY <2>1 DEF Attempts
<1> attempts[q] \in 0..MaxAttempts /\ auto[q] \in Nat /\ manual[q] \in Nat
  BY DEF TypeOK, AutoRetries, ManualRetries
<1>1. ASSUME NEW m \in Messages, Prepare(m) PROVE Attempted(q)' /\ Budgeted(q)'
  <2>1. CASE q = m
    <3>1. status[m] = "absent" /\ status'[m] = "generating" /\ UNCHANGED <<auto, manual, jobVars>>
      BY <1>1 DEF Prepare, TypeOK
    <3>2. started[m] = 0 /\ \A n \in Attempts : n # started[m]
      BY <2>1, <3>1 DEF Budgeted, Attempts
    <3>3. Attempted(q)'
      BY <2>1, <3>1, <3>2 DEF Attempted, jobVars
    <3>4. Budgeted(q)'
      BY <2>1, <3>1, <3>2 DEF Budgeted, jobVars, MaxAttempts
    <3>5. QED
      BY <3>3, <3>4
  <2>2. CASE q # m
    BY <1>1, <2>2, UntouchedInv DEF Prepare, jobVars, TypeOK
  <2>3. QED
    BY <2>1, <2>2
<1>2. ASSUME NEW m \in Messages, Retry(m) PROVE Attempted(q)' /\ Budgeted(q)'
  <2>1. /\ Release({m}) /\ processing' = WithFailedAttempts({m})
        /\ UNCHANGED <<auto, started>>
    BY <1>2 DEF Retry
  <2>2. CASE q = m
    <3>1. /\ status[q] = "failed" /\ status'[q] = "generating"
          /\ manual'[q] = manual[q] + 1 /\ attempts'[q] = 0
          /\ fence[q] = 0 /\ fence'[q] = 0 /\ lease'[q] = 0
      BY <1>2, <2>1, <2>2 DEF Retry, Retryable, Release, Attempted, TypeOK
    <3>2. \A n \in Attempts : processing'[q][n] = processing[q][n]
      BY <2>1, <3>1, FailedAttemptsType DEF Attempted, Attempts
    <3>3. Attempted(q)'
      BY <2>1, <3>1, <3>2 DEF Attempted
    <3>4. Budgeted(q)'
      BY <2>1, <3>1 DEF Budgeted, MaxAttempts
    <3>5. QED
      BY <3>3, <3>4
  <2>3. CASE q # m
    <3>1. \A n \in Attempts : processing'[q][n] = processing[q][n]
      BY <2>1, <2>3, FailedAttemptsType
    <3>2. fence'[q] = fence[q] /\ lease'[q] = lease[q]
      BY <2>1, <2>3 DEF Release
    <3>3. status'[q] = status[q] /\ manual'[q] = manual[q] /\ attempts'[q] = attempts[q]
      BY <1>2, <2>3 DEF Retry, TypeOK
    <3>4. QED
      BY <2>1, <3>1, <3>2, <3>3, UntouchedInv
  <2>4. QED
    BY <2>2, <2>3
<1>3. ASSUME NEW m \in Messages, CoolDown(m) PROVE Attempted(q)' /\ Budgeted(q)'
  BY <1>3, UntouchedInv DEF CoolDown, jobVars
<1>4. ASSUME NEW m \in Messages, AgeLease(m) PROVE Attempted(q)' /\ Budgeted(q)'
  <2>1. lease'[q] = lease[q] \/ (fence[q] = 0 => lease'[q] = 0)
    BY <1>4 DEF AgeLease, Attempted, TypeOK
  <2>2. QED
    BY <1>4, <2>1, UntouchedInv DEF AgeLease, turnVars
<1>5. ASSUME NEW m \in Messages, NEW n \in Attempts, Heartbeat(m, n)
      PROVE  Attempted(q)' /\ Budgeted(q)'
  <2>1. lease'[q] = lease[q] \/ (fence[q] = 0 => lease'[q] = 0)
    BY <1>5 DEF Heartbeat, Fenced, Attempts, TypeOK
  <2>2. QED
    BY <1>5, <2>1, UntouchedInv DEF Heartbeat, turnVars
<1>6. ASSUME NEW m \in Messages, NEW n \in Attempts, Complete(m, n)
      PROVE  Attempted(q)' /\ Budgeted(q)'
  <2>1. CASE q = m
    <3>1. /\ fence[q] = n /\ status[q] = "generating" /\ status'[q] = "completed"
          /\ fence'[q] = 0 /\ lease'[q] = 0
          /\ \A k \in Attempts : processing'[q][k] = IF k = n THEN "succeeded" ELSE processing[q][k]
      BY <1>6, <2>1 DEF Complete, Fenced, Release, TypeOK
    <3>2. n = started[q] /\ n # 0 /\ 0 \notin Attempts
      BY <3>1 DEF Attempted, Attempts
    <3>3. UNCHANGED <<auto, manual, attempts, started>>
      BY <1>6 DEF Complete
    <3>4. Attempted(q)'
      BY <3>1, <3>2, <3>3 DEF Attempted
    <3>5. QED
      BY <3>1, <3>3, <3>4 DEF Budgeted
  <2>2. CASE q # m
    BY <1>6, <2>2, UntouchedInv DEF Complete, Release, TypeOK
  <2>3. QED
    BY <2>1, <2>2
<1>7. ASSUME NEW m \in Messages, NEW n \in Attempts, Fail(m, n)
      PROVE  Attempted(q)' /\ Budgeted(q)'
  <2>1. CASE q = m
    <3>1. /\ fence[q] = n /\ status[q] = "generating"
          /\ fence'[q] = 0 /\ lease'[q] = 0
          /\ attempts'[q] = 0
          /\ \A k \in Attempts : processing'[q][k] = IF k = n THEN "failed" ELSE processing[q][k]
          /\ UNCHANGED <<manual, started>>
      BY <1>7, <2>1 DEF Fail, Fenced, Release, RequeueAutomatically, TypeOK
    <3>2. n = started[q] /\ 0 \notin Attempts
      BY <3>1 DEF Attempted, Attempts
    <3>3. \/ status'[q] = "generating" /\ auto'[q] = auto[q] + 1
          \/ status'[q] = "failed" /\ auto'[q] = auto[q]
      BY <1>7, <2>1, <3>1 DEF Fail, RequeueAutomatically, TypeOK
    <3>4. Attempted(q)'
      BY <3>1, <3>2, <3>3 DEF Attempted
    <3>5. Budgeted(q)'
      BY <3>1, <3>3 DEF Budgeted, MaxAttempts
    <3>6. QED
      BY <3>4, <3>5
  <2>2. CASE q # m
    BY <1>7, <2>2, UntouchedInv DEF Fail, Release, RequeueAutomatically, TypeOK
  <2>3. QED
    BY <2>1, <2>2
<1>8. ASSUME NEW seen \in SUBSET Messages, Claim(seen) PROVE Attempted(q)' /\ Budgeted(q)'
  <2> DEFINE settled == {m \in Messages : Forgotten(m) \/ Spent(m)}
             failed(S) == WithFailedAttempts(S)
  <2>1. /\ settled \in SUBSET Messages
        /\ \A m \in settled : status[m] = "generating" /\ ~Candidate(m)
    <3>1. ASSUME NEW m \in settled PROVE status[m] = "generating" /\ ~Candidate(m)
      <4>1. m \in Messages /\ attempts[m] \in 0..2
        BY DEF TypeOK, MaxAttempts
      <4>2. QED
        BY <4>1 DEF Forgotten, Spent, Candidate, MaxAttempts
    <3>2. QED
      BY <3>1
  <2>2. /\ status'[q] = IF q \in settled THEN "failed" ELSE status[q]
        /\ UNCHANGED <<auto, manual>>
    BY <1>8 DEF Claim
  <2>3. \A S : /\ failed(S) \in [Messages -> [Attempts -> ProcessingStatus]]
               /\ \A n \in Attempts :
                    failed(S)[q][n] =
                      IF q \in S /\ fence[q] = n /\ processing[q][n] = "running"
                      THEN "failed" ELSE processing[q][n]
    BY FailedAttemptsType
  <2>4. CASE Release(settled) /\ processing' = failed(settled) /\ UNCHANGED <<attempts, started>>
    BY <2>1, <2>2, <2>4, SettledInv
  <2> HIDE DEF settled, failed
  <2>5. ASSUME NEW m \in seen, Candidate(m),
               attempts' = [attempts EXCEPT ![m] = attempts[m] + 1],
               started'  = [started EXCEPT ![m] = started[m] + 1],
               fence' = [p \in Messages |-> IF p = m THEN started[m] + 1
                                            ELSE IF p \in settled THEN 0 ELSE fence[p]],
               lease' = [p \in Messages |-> IF p = m THEN LeaseTerm
                                            ELSE IF p \in settled THEN 0 ELSE lease[p]],
               processing' = [failed(settled \cup {m})
                                EXCEPT ![m][started[m] + 1] = "running"]
        PROVE  Attempted(q)' /\ Budgeted(q)'
    <3>1. m \notin settled /\ m \in Messages
      BY <2>1, <2>5
    <3>2. /\ started[m] + 1 \in Attempts
          /\ started[m] + 1 <= MaxAttempts * (auto[m] + manual[m]) + attempts[m] + 1
      BY <2>5, <3>1, CandidateBudget DEF TurnInv
    <3>3. CASE q = m
      <4>1. /\ status[q] = "generating" /\ status'[q] = "generating"
            /\ started'[q] = started[q] + 1 /\ fence'[q] = started[q] + 1
            /\ attempts'[q] = attempts[q] + 1
        BY <2>2, <2>5, <3>1, <3>3 DEF Candidate, TypeOK
      <4>2. \A n \in Attempts :
              processing'[q][n] = IF n = started[q] + 1 THEN "running"
                                  ELSE IF processing[q][n] = "running" THEN "failed"
                                  ELSE processing[q][n]
        BY <2>3, <2>5, <3>1, <3>2, <3>3 DEF Attempted
      <4>3. /\ \A n \in Attempts : n \in Nat
            /\ started[q] + 1 # 0
        BY DEF Attempts
      <4>4. Attempted(q)'
        <5>1. \A n \in Attempts : processing'[q][n] = "running" <=> fence'[q] = n
          BY <4>1, <4>2 DEF Attempted
        <5>2. \A n \in Attempts : processing'[q][n] # "succeeded"
          BY <4>1, <4>2 DEF Attempted
        <5>3. \A n \in Attempts : n > started[q] + 1 => processing'[q][n] = "none"
          BY <4>2, <4>3 DEF Attempted
        <5>4. QED
          BY <4>1, <4>3, <5>1, <5>2, <5>3 DEF Attempted
      <4>5. started'[q] <= MaxAttempts * (1 + auto[q] + manual[q])
        <5>1. attempts[q] < MaxAttempts
          BY <2>5, <3>3 DEF Candidate
        <5>2. QED
          BY <3>2, <3>3, <4>1, <5>1 DEF MaxAttempts
      <4>6. Budgeted(q)'
        BY <2>2, <3>2, <3>3, <4>1, <4>5 DEF Budgeted, MaxAttempts
      <4>7. QED
        BY <4>4, <4>6
    <3>4. CASE q # m /\ q \in settled
      <4>1. /\ status[q] = "generating" /\ status'[q] = "failed"
            /\ started'[q] = started[q] /\ attempts'[q] = attempts[q]
            /\ fence'[q] = 0 /\ lease'[q] = 0
        BY <2>1, <2>2, <2>5, <3>1, <3>4 DEF TypeOK
      <4>2. \A n \in Attempts :
              processing'[q][n] = IF processing[q][n] = "running" THEN "failed"
                                  ELSE processing[q][n]
        BY <2>3, <2>5, <3>1, <3>2, <3>4 DEF Attempted
      <4>3. 0 \notin Attempts
        BY DEF Attempts
      <4>4. Attempted(q)'
        BY <4>1, <4>2, <4>3 DEF Attempted
      <4>5. QED
        BY <2>2, <4>1, <4>4 DEF Budgeted
    <3>5. CASE q # m /\ q \notin settled
      <4>1. \A n \in Attempts : processing'[q][n] = processing[q][n]
        BY <2>3, <2>5, <3>1, <3>2, <3>5
      <4>2. QED
        BY <2>2, <2>5, <3>1, <3>5, <4>1, UntouchedInv DEF TypeOK
    <3>6. QED
      BY <3>3, <3>4, <3>5
  <2>6. QED
    BY <1>8, <2>4, <2>5 DEF Claim, settled, failed
<1>9. ASSUME NEW s \in Sessions, EndSession(s) \/ EndRetention(s)
      PROVE  Attempted(q)' /\ Budgeted(q)'
  BY <1>9, UntouchedInv DEF EndSession, EndRetention, turnVars, jobVars
<1>10. CASE RunAdmit \/ RunDone \/ UNCHANGED vars
  BY <1>10, UntouchedInv DEF RunAdmit, RunDone, vars, turnVars, jobVars
<1>11. QED
  BY <1>1, <1>2, <1>3, <1>4, <1>5, <1>6, <1>7, <1>8, <1>9, <1>10 DEF Next

-----------------------------------------------------------------------------
\* Types and invariant hold together: the bound on the attempts that are started
\* is what keeps their numbers within the type.
LEMMA Invariant == Spec => [](TypeOK /\ TurnInv)
<1>1. Init => TypeOK
  BY LimitAssumption, LeaseAssumption
  DEF Init, TypeOK, AutoRetries, ManualRetries, MaxAttempts
<1>2. Init => TurnInv
  <2> SUFFICES ASSUME Init, NEW m \in Messages PROVE Attempted(m) /\ Budgeted(m)
    BY DEF TurnInv
  <2>1. 0 \notin Attempts
    BY DEF Attempts
  <2>2. QED
    BY <2>1 DEF Init, Attempted, Budgeted, MaxAttempts
<1>3. QED
  BY <1>1, <1>2, TypeStep, TurnStep, PTL DEF Spec

\* Every variable always has its type.
THEOREM TypeCorrect == Spec => []TypeOK
BY Invariant, PTL

\* Every turn has at most one live attempt, the one its dispatch row names.
THEOREM LiveAttemptCorrect == Spec => []OneLiveAttempt
BY Invariant, TurnInvImplies, PTL

\* Every answer was stored by the last attempt of its turn.
THEOREM AnswerCorrect == Spec => []AnsweredByLastAttempt
BY Invariant, TurnInvImplies, PTL

\* The attempts of a turn never exceed what its retries paid for.
THEOREM BudgetCorrect == Spec => []WorkBudget
BY Invariant, TurnInvImplies, PTL

-----------------------------------------------------------------------------
(***************************************************************************)
(* What the owner was promised: every step is one of ConversationTurn for  *)
(* each turn, or leaves that turn alone.                                   *)
(***************************************************************************)
Promised(q) == [Turn(q)!TNext]_(Turn(q)!tvars)

\* A step that leaves a turn, its attempts and its case alone.
LEMMA Unaffected ==
  ASSUME NEW q \in Messages, UNCHANGED caseVars,
         status'[q] = status[q], started'[q] = started[q], processing'[q] = processing[q]
  PROVE  Promised(q)
BY DEF Promised, Turn!tvars, caseVars

\* The attempts of a turn that ConversationTurn sees running, and what it calls
\* the records of its attempts when those of S are stopped.
LEMMA RunningIsHeld ==
  ASSUME TurnInv, NEW q \in Messages
  PROVE  /\ Turn(q)!Running = {n \in Attempts : fence[q] = n}
         /\ \A n \in Attempts : n \in Turn(q)!Running <=> processing[q][n] = "running"
         /\ Turn(q)!Running \in Turn(q)!Cleared
BY DEF TurnInv, Attempted, Turn!Running, Turn!Cleared

\* Failing the live attempts of a set of turns stops those that run.
LEMMA FailedIsStopped ==
  ASSUME TypeOK, TurnInv, NEW S, NEW q \in Messages
  PROVE  WithFailedAttempts(S)[q] = IF q \in S THEN Turn(q)!Stopped(Turn(q)!Running) ELSE processing[q]
<1>1. /\ processing \in [Messages -> [Attempts -> ProcessingStatus]]
      /\ WithFailedAttempts(S) \in [Messages -> [Attempts -> ProcessingStatus]]
      /\ \A n \in Attempts :
           WithFailedAttempts(S)[q][n] =
             IF q \in S /\ fence[q] = n /\ processing[q][n] = "running"
             THEN "failed" ELSE processing[q][n]
  BY FailedAttemptsType DEF TypeOK, ProcessingStatus
<1> DEFINE view == WithFailedAttempts(S)[q]
<1>2. view \in [Attempts -> ProcessingStatus] /\ processing[q] \in [Attempts -> ProcessingStatus]
  BY <1>1
<1>3. CASE q \in S
  <2>1. \A n \in Attempts : view[n] = IF n \in Turn(q)!Running THEN "failed" ELSE processing[q][n]
    BY <1>1, <1>3, RunningIsHeld
  <2> HIDE DEF view
  <2>2. view = [n \in Attempts |-> IF n \in Turn(q)!Running THEN "failed" ELSE processing[q][n]]
    BY <1>2, <2>1
  <2>3. QED
    BY <1>3, <2>2 DEF Turn!Stopped, view
<1>4. CASE q \notin S
  <2>1. \A n \in Attempts : view[n] = processing[q][n]
    BY <1>1, <1>4
  <2> HIDE DEF view
  <2>2. view = processing[q]
    BY <1>2, <2>1
  <2>3. QED
    BY <1>4, <2>2 DEF view
<1>5. QED
  BY <1>3, <1>4

\* Every step is one the owner of turn q was promised.
LEMMA PromisedStep ==
  ASSUME TypeOK, TypeOK', TurnInv, [Next]_vars, NEW q \in Messages PROVE Promised(q)
<1> Attempted(q) /\ Budgeted(q)
  BY DEF TurnInv
<1> processing[q] \in [Attempts -> ProcessingStatus] /\ processing'[q] \in [Attempts -> ProcessingStatus]
  BY DEF TypeOK, ProcessingStatus
<1>1. ASSUME NEW m \in Messages, Prepare(m) PROVE Promised(q)
  <2>1. CASE q = m
    <3>1. /\ status[q] = "absent" /\ status'[q] = "generating"
          /\ live[Session[q]] /\ retained[Session[q]] /\ UNCHANGED <<started, processing, live, retained>>
      BY <1>1, <2>1 DEF Prepare, TypeOK, jobVars, caseVars
    <3>2. QED
      BY <3>1 DEF Promised, Turn!TNext, Turn!Ask
  <2>2. CASE q # m
    BY <1>1, <2>2, Unaffected DEF Prepare, jobVars, TypeOK
  <2>3. QED
    BY <2>1, <2>2
<1>2. ASSUME NEW m \in Messages, Retry(m) PROVE Promised(q)
  <2>1. /\ processing' = WithFailedAttempts({m}) /\ UNCHANGED <<started, live, retained>>
        /\ live[Session[m]] /\ retained[Session[m]]
        /\ status[m] = "failed" /\ status' = [status EXCEPT ![m] = "generating"]
    BY <1>2 DEF Retry, Retryable, caseVars
  <2>2. CASE q = m
    <3>1. processing'[q] = Turn(q)!Stopped(Turn(q)!Running)
      BY <2>1, <2>2, FailedIsStopped
    <3>2. status[q] = "failed" /\ status'[q] = "generating"
      BY <2>1, <2>2 DEF TypeOK
    <3>3. \E S \in Turn(q)!Cleared : processing'[q] = Turn(q)!Stopped(S)
      BY <3>1, RunningIsHeld
    <3>4. Turn(q)!Retry
      BY <2>1, <2>2, <3>2, <3>3 DEF Turn!Retry
    <3>5. QED
      BY <2>1, <3>4 DEF Promised, Turn!TNext
  <2>3. CASE q # m
    <3>1. processing'[q] = processing[q]
      BY <2>1, <2>3, FailedIsStopped
    <3>2. QED
      BY <2>1, <2>3, <3>1, Unaffected DEF TypeOK, caseVars
  <2>4. QED
    BY <2>2, <2>3
<1>3. ASSUME NEW m \in Messages,
             \/ CoolDown(m) \/ AgeLease(m)
             \/ \E n \in Attempts : Heartbeat(m, n)
      PROVE  Promised(q)
  BY <1>3, Unaffected DEF CoolDown, AgeLease, Heartbeat, turnVars, jobVars
<1>4. ASSUME NEW m \in Messages, NEW n \in Attempts, Complete(m, n) PROVE Promised(q)
  <2>1. /\ processing' = [processing EXCEPT ![m][n] = "succeeded"]
        /\ status' = [status EXCEPT ![m] = "completed"]
        /\ UNCHANGED <<started, live, retained>>
        /\ status[m] = "generating" /\ fence[m] = n
    BY <1>4 DEF Complete, Fenced, caseVars
  <2>2. CASE q = m
    <3>1. started[q] = n /\ n \in Turn(q)!Running
      BY <2>1, <2>2, RunningIsHeld DEF Attempted, Attempts
    <3>2. status[q] = "generating" /\ status'[q] = "completed"
      BY <2>1, <2>2 DEF TypeOK
    <3>3. processing'[q] = [processing[q] EXCEPT ![started[q]] = "succeeded"]
      BY <2>1, <2>2, <3>1 DEF TypeOK
    <3>4. Turn(q)!Answer
      BY <2>1, <3>1, <3>2, <3>3 DEF Turn!Answer
    <3>5. QED
      BY <2>1, <3>4 DEF Promised, Turn!TNext
  <2>3. CASE q # m
    BY <2>1, <2>3, Unaffected DEF TypeOK, caseVars
  <2>4. QED
    BY <2>2, <2>3
<1>5. ASSUME NEW m \in Messages, NEW n \in Attempts, Fail(m, n) PROVE Promised(q)
  <2>1. /\ processing' = [processing EXCEPT ![m][n] = "failed"]
        /\ \/ UNCHANGED status
           \/ status' = [status EXCEPT ![m] = "failed"]
        /\ UNCHANGED <<started, live, retained>>
        /\ status[m] = "generating" /\ fence[m] = n
    BY <1>5 DEF Fail, Fenced, RequeueAutomatically, caseVars
  <2>2. CASE q = m
    <3>1. \A k \in Attempts : k \in Turn(q)!Running <=> k = n
      BY <2>1, <2>2, RunningIsHeld
    <3>2. \A k \in Attempts :
            processing'[q][k] = IF k \in Turn(q)!Running THEN "failed" ELSE processing[q][k]
      BY <2>1, <2>2, <3>1 DEF TypeOK
    <3>3. processing'[q] = Turn(q)!Stopped(Turn(q)!Running)
      BY <3>2 DEF Turn!Stopped
    <3>4. status'[q] \in {status[q], "failed"} /\ status[q] = "generating"
      BY <2>1, <2>2 DEF TypeOK
    <3>5. \E S \in SUBSET Turn(q)!Running : processing'[q] = Turn(q)!Stopped(S)
      BY <3>3
    <3>6. Turn(q)!Stop \/ Turn(q)!GiveUp
      BY <2>1, <3>4, <3>5 DEF Turn!Stop, Turn!GiveUp
    <3>7. QED
      BY <2>1, <3>6 DEF Promised, Turn!TNext
  <2>3. CASE q # m
    BY <2>1, <2>3, Unaffected DEF TypeOK, caseVars
  <2>4. QED
    BY <2>2, <2>3
<1>6. ASSUME NEW seen \in SUBSET Messages, Claim(seen) PROVE Promised(q)
  <2> DEFINE settled == {m \in Messages : Forgotten(m) \/ Spent(m)}
             failed(S) == WithFailedAttempts(S)
  <2>1. status'[q] = (IF q \in settled THEN "failed" ELSE status[q]) /\ UNCHANGED <<live, retained>>
    BY <1>6 DEF Claim, caseVars
  <2>2. q \in settled => status[q] = "generating" /\ ~Candidate(q)
    <3>1. attempts[q] \in 0..2
      BY DEF TypeOK, MaxAttempts
    <3>2. QED
      BY <3>1 DEF Forgotten, Spent, Candidate, MaxAttempts
  <2>3. \A S : failed(S)[q] = IF q \in S THEN Turn(q)!Stopped(Turn(q)!Running) ELSE processing[q]
    BY FailedIsStopped
  <2>4. \/ processing' = failed(settled) /\ UNCHANGED started
        \/ \E m \in seen :
             /\ Candidate(m)
             /\ started' = [started EXCEPT ![m] = started[m] + 1]
             /\ processing' = [failed(settled \cup {m}) EXCEPT ![m][started[m] + 1] = "running"]
    BY <1>6 DEF Claim
  <2>5. failed(settled \cup {q}) \in [Messages -> [Attempts -> ProcessingStatus]]
    BY FailedAttemptsType
  <2> HIDE DEF settled, failed
  <2>6. ASSUME UNCHANGED <<started, live, retained>>, processing'[q] = failed(settled)[q]
        PROVE  Promised(q)
    <3>1. CASE q \in settled
      <4>1. \E S \in SUBSET Turn(q)!Running : processing'[q] = Turn(q)!Stopped(S)
        BY <2>3, <2>6, <3>1
      <4>2. Turn(q)!GiveUp
        BY <2>1, <2>2, <2>6, <3>1, <4>1 DEF Turn!GiveUp
      <4>3. QED
        BY <2>6, <4>2 DEF Promised, Turn!TNext
    <3>2. CASE q \notin settled
      BY <2>1, <2>3, <2>6, <3>2, Unaffected DEF caseVars
    <3>3. QED
      BY <3>1, <3>2
  <2>7. ASSUME NEW m \in seen, Candidate(m),
               started' = [started EXCEPT ![m] = started[m] + 1],
               processing' = [failed(settled \cup {m}) EXCEPT ![m][started[m] + 1] = "running"]
        PROVE  Promised(q)
    <3>1. CASE q = m
      <4>1. started[q] + 1 \in Attempts /\ started'[q] = started[q] + 1
        BY <2>7, <3>1, CandidateBudget DEF TypeOK
      <4>2. status[q] = "generating" /\ status'[q] = "generating"
        BY <2>1, <2>2, <2>7, <3>1 DEF Candidate
      <4>3. processing'[q] = [failed(settled \cup {q})[q] EXCEPT ![started[q] + 1] = "running"]
        BY <2>5, <2>7, <3>1
      <4>4. processing'[q] = [Turn(q)!Stopped(Turn(q)!Running) EXCEPT ![started[q] + 1] = "running"]
        BY <2>3, <4>3
      <4>5. \E S \in Turn(q)!Cleared :
              processing'[q] = [Turn(q)!Stopped(S) EXCEPT ![started[q] + 1] = "running"]
        BY <4>4, RunningIsHeld
      <4>6. Turn(q)!Begin
        BY <4>1, <4>2, <4>5 DEF Turn!Begin
      <4>7. QED
        BY <2>1, <4>6 DEF Promised, Turn!TNext
    <3>2. CASE q # m
      <4>1. failed(settled \cup {m})[q] = failed(settled)[q]
        BY <2>3, <3>2
      <4>2. processing'[q] = failed(settled)[q] /\ started'[q] = started[q]
        BY <2>7, <3>2, <4>1, FailedAttemptsType DEF failed, TypeOK
      <4>3. CASE q \in settled
        <5>1. \E S \in SUBSET Turn(q)!Running : processing'[q] = Turn(q)!Stopped(S)
          BY <2>3, <4>2, <4>3
        <5>2. Turn(q)!GiveUp
          BY <2>1, <2>2, <4>2, <4>3, <5>1 DEF Turn!GiveUp
        <5>3. QED
          BY <2>1, <5>2 DEF Promised, Turn!TNext
      <4>4. CASE q \notin settled
        BY <2>1, <2>3, <4>2, <4>4, Unaffected DEF caseVars
      <4>5. QED
        BY <4>3, <4>4
    <3>3. QED
      BY <3>1, <3>2
  <2>8. QED
    BY <2>1, <2>4, <2>6, <2>7
<1>7. ASSUME NEW s \in Sessions, EndSession(s) \/ EndRetention(s) PROVE Promised(q)
  <2>1. /\ UNCHANGED <<status, started, processing>>
        /\ live'[Session[q]] => live[Session[q]]
        /\ retained'[Session[q]] => retained[Session[q]]
    BY <1>7, SessionAssumption DEF EndSession, EndRetention, turnVars, jobVars, TypeOK
  <2>2. Turn(q)!Pass
    BY <2>1 DEF Turn!Pass
  <2>3. QED
    BY <2>2 DEF Promised, Turn!TNext
<1>8. CASE RunAdmit \/ RunDone \/ UNCHANGED vars
  BY <1>8, Unaffected DEF RunAdmit, RunDone, vars, turnVars, jobVars
<1>9. QED
  BY <1>1, <1>2, <1>3, <1>4, <1>5, <1>6, <1>7, <1>8 DEF Next

\* Every turn keeps what ConversationTurn promises its owner.
THEOREM TurnsImplemented == Spec => ImplementsTurns
<1>1. Init => \A m \in Messages : Turn(m)!TInit
  BY DEF Init, Turn!TInit
<1>2. TypeOK /\ TypeOK' /\ TurnInv /\ [Next]_vars =>
        [\A m \in Messages : [Turn(m)!TNext]_(Turn(m)!tvars)]_vars
  BY PromisedStep DEF Promised
<1>3. QED
  BY <1>1, <1>2, Invariant, PTL DEF Spec, ImplementsTurns

-----------------------------------------------------------------------------
(***************************************************************************)
(* The bound on admitted work: only a question, a retry and a run that is  *)
(* admitted take a slot, each behind the gate.                             *)
(***************************************************************************)

\* A set of turns that gains at most m gains at most one.
LEMMA OneMore ==
  ASSUME NEW S \in SUBSET Messages, NEW T \in SUBSET Messages, NEW m \in Messages,
         T \subseteq S \cup {m}
  PROVE  /\ Cardinality(S) \in Nat /\ Cardinality(T) \in Nat
         /\ Cardinality(T) <= Cardinality(S) + 1
<1>1. IsFiniteSet(S) /\ IsFiniteSet(T) /\ IsFiniteSet(S \cup {m})
  BY MessagesAssumption, FS_Subset
<1>2. Cardinality(S \cup {m}) <= Cardinality(S) + 1
  BY <1>1, FS_CardinalityType, FS_AddElement
<1>3. Cardinality(T) <= Cardinality(S \cup {m})
  BY <1>1, FS_Subset
<1>4. QED
  BY <1>1, <1>2, <1>3, FS_CardinalityType

\* The turns that a step brings into the queue.
LEMMA NewOccupying ==
  ASSUME TypeOK, TypeOK', [Next]_vars
  PROVE  \/ Occupying' \subseteq Occupying /\ runLoad' <= runLoad
         \/ Occupying' = Occupying /\ Admits /\ runLoad' = runLoad + 1
         \/ Admits /\ runLoad' = runLoad
              /\ \E m \in Messages : Occupying' \subseteq Occupying \cup {m}
<1> USE DEF Occupying
<1> runLoad \in Nat
  BY DEF TypeOK
<1>1. ASSUME NEW m \in Messages, Prepare(m) \/ Retry(m)
      PROVE  Admits /\ runLoad' = runLoad /\ Occupying' \subseteq Occupying \cup {m}
  BY <1>1 DEF Prepare, Retry, caseVars, TypeOK
<1>2. ASSUME NEW m \in Messages, CoolDown(m) \/ AgeLease(m)
      PROVE  Occupying' = Occupying /\ runLoad' = runLoad
  BY <1>2 DEF CoolDown, AgeLease, turnVars, caseVars
<1>3. ASSUME NEW m \in Messages, NEW n \in Attempts,
             Heartbeat(m, n) \/ Complete(m, n) \/ Fail(m, n)
      PROVE  Occupying' \subseteq Occupying /\ runLoad' = runLoad
  BY <1>3 DEF Heartbeat, Complete, Fail, RequeueAutomatically, turnVars, caseVars, TypeOK
<1>4. ASSUME NEW seen \in SUBSET Messages, Claim(seen)
      PROVE  Occupying' \subseteq Occupying /\ runLoad' = runLoad
  BY <1>4 DEF Claim, caseVars
<1>5. ASSUME NEW s \in Sessions, EndSession(s) \/ EndRetention(s)
      PROVE  Occupying' \subseteq Occupying /\ runLoad' = runLoad
  BY <1>5, SessionAssumption DEF EndSession, EndRetention, turnVars, TypeOK
<1>6. CASE RunAdmit
  BY <1>6 DEF RunAdmit, turnVars, caseVars
<1>7. CASE RunDone
  BY <1>7 DEF RunDone, turnVars, caseVars
<1>8. CASE UNCHANGED vars
  BY <1>8 DEF vars, turnVars, caseVars
<1>9. QED
  BY <1>1, <1>2, <1>3, <1>4, <1>5, <1>6, <1>7, <1>8 DEF Next

\* Every step keeps the work that holds a slot within the limit.
LEMMA AdmissionStep == TypeOK /\ TypeOK' /\ AdmissionBound /\ [Next]_vars => AdmissionBound'
<1> SUFFICES ASSUME TypeOK, TypeOK', AdmissionBound, [Next]_vars PROVE AdmissionBound'
  OBVIOUS
<1> DEFINE Held    == Occupying
           HeldNow == Occupying'
<1>1. /\ Held \in SUBSET Messages /\ HeldNow \in SUBSET Messages
      /\ runLoad \in Nat /\ runLoad' \in Nat /\ QueueLimit \in Nat
      /\ Cardinality(Held) + runLoad <= QueueLimit
  BY LimitAssumption DEF Occupying, TypeOK, AdmissionBound
<1>2. \/ HeldNow \subseteq Held /\ runLoad' <= runLoad
      \/ HeldNow = Held /\ Cardinality(Held) + runLoad < QueueLimit /\ runLoad' = runLoad + 1
      \/ Cardinality(Held) + runLoad < QueueLimit /\ runLoad' = runLoad
           /\ \E m \in Messages : HeldNow \subseteq Held \cup {m}
  BY NewOccupying DEF Admits
<1> HIDE DEF Held, HeldNow
<1>3. Cardinality(HeldNow) + runLoad' <= QueueLimit
  <2>1. CASE HeldNow \subseteq Held /\ runLoad' <= runLoad
    <3>1. /\ Cardinality(Held) \in Nat /\ Cardinality(HeldNow) \in Nat
          /\ Cardinality(HeldNow) <= Cardinality(Held)
      BY <1>1, <2>1, MessagesAssumption, FS_Subset, FS_CardinalityType
    <3>2. QED
      BY <1>1, <2>1, <3>1
  <2>2. CASE HeldNow = Held /\ Cardinality(Held) + runLoad < QueueLimit /\ runLoad' = runLoad + 1
    <3>1. Cardinality(Held) \in Nat
      BY <1>1, MessagesAssumption, FS_Subset, FS_CardinalityType
    <3>2. QED
      BY <1>1, <2>2, <3>1
  <2>3. ASSUME NEW m \in Messages, HeldNow \subseteq Held \cup {m},
               Cardinality(Held) + runLoad < QueueLimit, runLoad' = runLoad
        PROVE  Cardinality(HeldNow) + runLoad' <= QueueLimit
    <3>1. /\ Cardinality(Held) \in Nat /\ Cardinality(HeldNow) \in Nat
          /\ Cardinality(HeldNow) <= Cardinality(Held) + 1
      BY <1>1, <2>3, OneMore
    <3>2. QED
      BY <1>1, <2>3, <3>1
  <2>4. QED
    BY <1>2, <2>1, <2>2, <2>3
<1>4. QED
  BY <1>3 DEF AdmissionBound, HeldNow

\* Questions, retries and runs together never exceed the configured limit.
THEOREM AdmissionCorrect == Spec => []AdmissionBound
<1>1. Init => AdmissionBound
  <2>1. ASSUME Init PROVE Occupying = {}
    BY <2>1 DEF Init, Occupying
  <2>2. QED
    BY <2>1, LimitAssumption, FS_EmptySet DEF Init, AdmissionBound
<1>2. QED
  BY <1>1, TypeCorrect, AdmissionStep, PTL DEF Spec
==============================================================================
