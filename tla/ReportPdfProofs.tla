---------------------------- MODULE ReportPdfProofs ----------------------------
(* Proofs, for any cases, cleaners, attempts and lease, of the safety         *)
(* properties of ReportPdf.                                                   *)
EXTENDS ReportPdf, TLAPS

-----------------------------------------------------------------------------
(***************************************************************************)
(* The inductive invariant.                                                *)
(***************************************************************************)

\* The attempts of a report: the one that holds the fence is the last and the
\* only one that runs; the only one that succeeded made the report ready.
Attempted(c) ==
  /\ report[c] # "removed" =>
       \A n \in Attempts :
         /\ processing[c][n] = "running" <=> fence[c] = n
         /\ processing[c][n] = "succeeded" <=> report[c] = "ready" /\ object[c] = n
         /\ n > attempts[c] => processing[c][n] = "none"
  /\ report[c] = "ready" => object[c] = attempts[c]
  /\ fence[c] # 0 => report[c] = "generating" /\ fence[c] = attempts[c]

\* A claimed tombstone is due, a due one has one deletion at most behind it, and
\* an attempt that has not begun has neither tombstone nor worker.
Tombstone(o) ==
  /\ tomb[o].by # Nobody => tomb[o].is /\ tomb[o].due
  /\ tomb[o].due => tomb[o].deletes <= 1
  /\ tomb[o].deletes > 0 => tomb[o].is
  /\ tomb[o].is \/ writer[o] # "none" => o[2] <= attempts[o[1]]

\* A cleaner works on an attempt that can publish no more.
Swept(k) ==
  LET o == sweep[k].of
  IN  /\ sweep[k].erased => o \in Objects
      /\ o \in Objects => o[2] <= attempts[o[1]] /\ fence[o[1]] # o[2] /\ ~Current(o)

\* What may be published is in Storage.
Kept(o) ==
  /\ writer[o] = "stored" /\ fence[o[1]] = o[2] => o \in stored
  /\ Current(o) => o \in stored

\* When the last deletion comes, nothing is left that could land after it.
Last(o) ==
  \/ tomb[o].deletes = MaxDeletes
  \/ tomb[o].deletes = 1 /\ tomb[o].due
Final(o) ==
  Last(o) => /\ writer[o] \notin {"working", "posting"} /\ o \notin flying
             /\ tomb[o].deletes = MaxDeletes => o \notin stored
             /\ \A k \in Cleaners :
                  sweep[k].of = o /\ sweep[k].erased /\ tomb[o].by = k => o \notin stored

Inv ==
  /\ TypeOK
  /\ \A c \in Cases : Attempted(c)
  /\ \A o \in Objects : Tombstone(o) /\ Kept(o) /\ Final(o)
  /\ \A k \in Cleaners : Swept(k)

-----------------------------------------------------------------------------
(***************************************************************************)
(* Types.                                                                  *)
(***************************************************************************)

TombRec == [is : BOOLEAN, due : BOOLEAN, by : Cleaners \cup {Nobody},
            live : BOOLEAN, deletes : 0..MaxDeletes]
ProcessingType ==
  processing \in [Cases -> [Attempts -> {"none", "running", "succeeded", "failed"}]]

\* The rows of the queue.
RowType ==
  /\ report   \in [Cases -> {"absent", "generating", "ready", "failed", "removed"}]
  /\ object   \in [Cases -> 0..MaxAttempts]
  /\ retained \in [Cases -> BOOLEAN]
  /\ attempts \in [Cases -> 0..MaxAttempts]
  /\ fence    \in [Cases -> 0..MaxAttempts]
  /\ lease    \in [Cases -> 0..LeaseTerm]
  /\ ProcessingType
  /\ \A c \in Cases : fence[c] = 0 => lease[c] = 0

\* Tombstones and the cleaners' claims on them.
SweepType ==
  /\ tomb  \in [Objects -> TombRec]
  /\ sweep \in [Cleaners -> [of : Objects \cup {Nobody}, erased : BOOLEAN]]
  /\ \A o \in Objects : tomb[o].live => tomb[o].by # Nobody

\* Workers and Storage.
StorageType ==
  /\ writer \in [Objects -> {"none", "working", "posting", "stored", "over"}]
  /\ flying \subseteq Objects
  /\ stored \subseteq Objects

\* The type invariant, taken apart.
LEMMA Types == TypeOK <=> RowType /\ SweepType /\ StorageType
BY DEF TypeOK, RowType, SweepType, StorageType, TombRec, ProcessingType

\* The two tombstones that are written as a whole.
LEMMA NewTombs ==
  /\ NoTomb \in TombRec /\ NewTomb \in TombRec
  /\ NewTomb.is /\ NewTomb.due /\ NewTomb.by = Nobody /\ ~NewTomb.live /\ NewTomb.deletes = 0
  /\ ~NoTomb.is /\ ~NoTomb.due /\ NoTomb.by = Nobody /\ ~NoTomb.live /\ NoTomb.deletes = 0
<1>1. NoTomb \in TombRec
  BY DEF TombRec, NoTomb, MaxDeletes
<1>2. NewTomb \in TombRec
  BY <1>1 DEF TombRec, NewTomb
<1> QED
  BY <1>1, <1>2 DEF NewTomb, NoTomb

\* The rows after attempts were settled or released.
LEMMA ReleasedType ==
  ASSUME RowType, NEW S \in SUBSET Cases
  PROVE  /\ WithFailedAttempts(S) \in [Cases -> [Attempts -> {"none", "running", "succeeded", "failed"}]]
         /\ Release(S) => /\ fence' \in [Cases -> 0..MaxAttempts]
                          /\ lease' \in [Cases -> 0..LeaseTerm]
                          /\ \A c \in Cases : fence'[c] = 0 => lease'[c] = 0
<1>1. WithFailedAttempts(S) \in [Cases -> [Attempts -> {"none", "running", "succeeded", "failed"}]]
  BY DEF WithFailedAttempts, RowType, ProcessingType
<1>2. ASSUME Release(S)
      PROVE  /\ fence' \in [Cases -> 0..MaxAttempts]
             /\ lease' \in [Cases -> 0..LeaseTerm]
             /\ \A c \in Cases : fence'[c] = 0 => lease'[c] = 0
  BY <1>2, AttemptsAssumption, LeaseAssumption DEF Release, RowType
<1> QED
  BY <1>1, <1>2

\* The steps that leave the rows of the queue alone.
LEMMA RowsStay ==
  /\ \A c \in Cases, n \in Attempts :
       GiveUp(c, n) \/ Post(c, n) \/ Lands(c, n) \/ IsLost(c, n) => UNCHANGED dbVars
  /\ \A k \in Cleaners : Erase(k) \/ AbandonCleanup(k) \/ CompleteCleanup(k) => UNCHANGED dbVars
  /\ \A o \in Objects : LapseCleanup(o) \/ Recheck(o) => UNCHANGED dbVars
  /\ UNCHANGED vars => UNCHANGED dbVars
<1>1. ASSUME NEW c \in Cases, NEW n \in Attempts, GiveUp(c, n) \/ Post(c, n) \/ Lands(c, n) \/ IsLost(c, n)
      PROVE  UNCHANGED dbVars
  BY <1>1 DEF GiveUp, Post, Lands, IsLost
<1>2. ASSUME NEW k \in Cleaners, Erase(k) \/ AbandonCleanup(k) \/ CompleteCleanup(k)
      PROVE  UNCHANGED dbVars
  BY <1>2 DEF Erase, AbandonCleanup, CompleteCleanup
<1>3. ASSUME NEW o \in Objects, LapseCleanup(o) \/ Recheck(o) PROVE UNCHANGED dbVars
  BY <1>3 DEF LapseCleanup, Recheck
<1> QED
  BY <1>1, <1>2, <1>3 DEF vars

\* The steps that leave tombstones and the claims of cleaners alone.
LEMMA CleanersStay ==
  /\ \A c \in Cases : Enqueue(c) \/ AgeLease(c) \/ EndRetention(c) \/ RemoveCase(c) => UNCHANGED cleanerVars
  /\ \A c \in Cases, n \in Attempts :
       Heartbeat(c, n) \/ Fail(c, n) \/ GiveUp(c, n) \/ Post(c, n) \/ Lands(c, n) \/ IsLost(c, n)
         => UNCHANGED cleanerVars
  /\ UNCHANGED vars => UNCHANGED cleanerVars
<1>1. ASSUME NEW c \in Cases, Enqueue(c) \/ AgeLease(c) \/ EndRetention(c) \/ RemoveCase(c)
      PROVE  UNCHANGED cleanerVars
  BY <1>1 DEF Enqueue, AgeLease, EndRetention, RemoveCase
<1>2. ASSUME NEW c \in Cases, NEW n \in Attempts,
             Heartbeat(c, n) \/ Fail(c, n) \/ GiveUp(c, n) \/ Post(c, n) \/ Lands(c, n) \/ IsLost(c, n)
      PROVE  UNCHANGED cleanerVars
  BY <1>2 DEF Heartbeat, Fail, GiveUp, Post, Lands, IsLost
<1> QED
  BY <1>1, <1>2 DEF vars

\* Every step keeps the types of the rows.
LEMMA RowTypeStep == Inv /\ [Next]_vars => RowType'
<1> SUFFICES ASSUME Inv, [Next]_vars PROVE RowType'
  OBVIOUS
<1>0. RowType
  BY Types DEF Inv
<1> USE AttemptsAssumption, LeaseAssumption DEF Attempts
<1>1. CASE UNCHANGED dbVars
  BY <1>0, <1>1 DEF dbVars, RowType, ProcessingType
<1>2. ASSUME NEW seen \in SUBSET Cases, Claim(seen) PROVE RowType'
  <2> DEFINE settled == {c \in Cases : Forgotten(c) \/ Spent(c)}
  <2>1. /\ report' \in [Cases -> {"absent", "generating", "ready", "failed", "removed"}]
        /\ UNCHANGED <<object, retained>>
    BY <1>0, <1>2 DEF Claim, RowType
  <2>2. CASE Release(settled) /\ processing' = WithFailedAttempts(settled) /\ UNCHANGED attempts
    BY <1>0, <2>1, <2>2, ReleasedType DEF RowType, ProcessingType
  <2>3. ASSUME NEW c \in {d \in seen : Candidate(d)},
               attempts' = [attempts EXCEPT ![c] = attempts[c] + 1],
               fence' = [d \in Cases |-> IF d = c THEN attempts[c] + 1
                                         ELSE IF d \in settled THEN 0 ELSE fence[d]],
               lease' = [d \in Cases |-> IF d = c THEN LeaseTerm
                                         ELSE IF d \in settled THEN 0 ELSE lease[d]],
               processing' = [WithFailedAttempts(settled \cup {c}) EXCEPT ![c][attempts[c] + 1] = "running"]
        PROVE  RowType'
    <3>1. attempts[c] + 1 \in Attempts /\ c \in Cases
      BY <1>0, <2>3 DEF Candidate, RowType
    <3>2. ProcessingType'
      BY <1>0, <2>3, <3>1, ReleasedType DEF ProcessingType
    <3> QED
      BY <1>0, <2>1, <2>3, <3>1, <3>2 DEF RowType
  <2> QED
    BY <1>2, <2>2, <2>3 DEF Claim
<1>3. ASSUME NEW c \in Cases, Enqueue(c) \/ AgeLease(c) \/ EndRetention(c) PROVE RowType'
  <2>1. CASE Enqueue(c)
    BY <1>0, <2>1 DEF Enqueue, RowType, ProcessingType
  <2>2. CASE AgeLease(c)
    <3>1. lease' = [lease EXCEPT ![c] = lease[c] - 1] /\ lease[c] - 1 \in 0..LeaseTerm /\ lease[c] > 0
      BY <1>0, <2>2 DEF AgeLease, RowType
    <3>2. UNCHANGED <<report, object, retained, attempts, fence, processing>>
      BY <2>2 DEF AgeLease
    <3>3. lease' \in [Cases -> 0..LeaseTerm] /\ \A d \in Cases : fence'[d] = 0 => lease'[d] = 0
      BY <1>0, <3>1, <3>2 DEF RowType
    <3> QED
      BY <1>0, <3>2, <3>3 DEF RowType, ProcessingType
  <2>3. CASE EndRetention(c)
    BY <1>0, <2>3 DEF EndRetention, RowType, ProcessingType
  <2> QED
    BY <1>3, <2>1, <2>2, <2>3
<1>4. ASSUME NEW c \in Cases, RemoveCase(c) PROVE RowType'
  <2>1. /\ report' = [report EXCEPT ![c] = "removed"] /\ object' = [object EXCEPT ![c] = 0]
        /\ Release({c}) /\ UNCHANGED <<retained, attempts, processing>>
    BY <1>4 DEF RemoveCase
  <2>2. /\ report' \in [Cases -> {"absent", "generating", "ready", "failed", "removed"}]
        /\ object' \in [Cases -> 0..MaxAttempts]
    BY <1>0, <2>1 DEF RowType
  <2>3. /\ fence' \in [Cases -> 0..MaxAttempts] /\ lease' \in [Cases -> 0..LeaseTerm]
        /\ \A d \in Cases : fence'[d] = 0 => lease'[d] = 0
    BY <1>0, <2>1, ReleasedType
  <2> QED
    BY <1>0, <2>1, <2>2, <2>3 DEF RowType, ProcessingType
<1>5. ASSUME NEW c \in Cases, NEW n \in Attempts, Heartbeat(c, n) PROVE RowType'
  <2>1. /\ lease' = [lease EXCEPT ![c] = LeaseTerm] /\ fence[c] = n
        /\ UNCHANGED <<report, object, retained, attempts, fence, processing>>
    BY <1>5 DEF Heartbeat, Fenced
  <2>2. lease' \in [Cases -> 0..LeaseTerm] /\ \A d \in Cases : fence'[d] = 0 => lease'[d] = 0
    BY <1>0, <2>1 DEF RowType
  <2> QED
    BY <1>0, <2>1, <2>2 DEF RowType, ProcessingType
<1>6. ASSUME NEW c \in Cases, NEW n \in Attempts, Complete(c, n) PROVE RowType'
  <2>1. /\ Release({c}) /\ UNCHANGED <<retained, attempts>>
        /\ report' = [report EXCEPT ![c] = "ready"] /\ object' = [object EXCEPT ![c] = n]
        /\ processing' = [processing EXCEPT ![c][n] = "succeeded"]
    BY <1>6 DEF Complete
  <2>2. report' \in [Cases -> {"absent", "generating", "ready", "failed", "removed"}]
        /\ object' \in [Cases -> 0..MaxAttempts] /\ ProcessingType'
    BY <1>0, <2>1 DEF RowType, ProcessingType
  <2> QED
    BY SMTT(30), <1>0, <2>1, <2>2, ReleasedType DEF RowType
<1>7. ASSUME NEW c \in Cases, NEW n \in Attempts, Fail(c, n) PROVE RowType'
  BY <1>0, <1>7, ReleasedType DEF Fail, RowType, ProcessingType
<1>8. ASSUME NEW k \in Cleaners, NEW o \in Objects, ClaimCleanup(k, o) PROVE RowType'
  BY <1>0, <1>8, ReleasedType DEF ClaimCleanup, RowType, ProcessingType, Objects
<1> QED
  BY <1>1, <1>2, <1>3, <1>4, <1>5, <1>6, <1>7, <1>8, RowsStay DEF Next

\* Every step keeps the types of tombstones and of the cleaners' claims.
LEMMA SweepTypeStep == Inv /\ [Next]_vars => SweepType'
<1> SUFFICES ASSUME Inv, [Next]_vars PROVE SweepType'
  OBVIOUS
<1>0. SweepType /\ RowType
  BY Types DEF Inv
<1>1. CASE UNCHANGED cleanerVars
  BY <1>0, <1>1 DEF cleanerVars, SweepType
<1>2. ASSUME NEW seen \in SUBSET Cases, Claim(seen) PROVE SweepType'
  <2>1. UNCHANGED sweep /\ (UNCHANGED tomb \/ \E o \in Objects : tomb' = [tomb EXCEPT ![o] = NewTomb])
    <3>1. ASSUME NEW c \in seen, Candidate(c) PROVE <<c, attempts[c] + 1>> \in Objects
      BY <1>0, <3>1, AttemptsAssumption DEF Candidate, RowType, Objects, Attempts
    <3> QED
      BY <1>2, <3>1 DEF Claim
  <2> QED
    BY <1>0, <2>1, NewTombs DEF SweepType
<1>3. ASSUME NEW c \in Cases, NEW n \in Attempts, Complete(c, n) PROVE SweepType'
  <2>1. UNCHANGED sweep /\ <<c, n>> \in Objects /\ tomb' = [tomb EXCEPT ![<<c, n>>] = NoTomb]
    BY <1>3 DEF Complete, Objects
  <2> QED
    BY <1>0, <2>1, NewTombs DEF SweepType
<1>4. ASSUME NEW k \in Cleaners, NEW o \in Objects, ClaimCleanup(k, o) PROVE SweepType'
  <2>1. WithExpiredReports \in [Objects -> TombRec]
        /\ \A p \in Objects : WithExpiredReports[p].live => WithExpiredReports[p].by # Nobody
    BY <1>0, NewTombs DEF WithExpiredReports, SweepType
  <2>2. tomb' \in [Objects -> TombRec]
    BY <1>4, <2>1 DEF ClaimCleanup, TombRec
  <2>3. sweep' \in [Cleaners -> [of : Objects \cup {Nobody}, erased : BOOLEAN]]
    BY <1>0, <1>4 DEF ClaimCleanup, SweepType
  <2>4. \A p \in Objects : tomb'[p].live => tomb'[p].by # Nobody
    BY <1>4, <2>1, NobodyAssumption DEF ClaimCleanup, TombRec
  <2> QED
    BY <2>2, <2>3, <2>4 DEF SweepType
<1>5. ASSUME NEW k \in Cleaners, Erase(k) PROVE SweepType'
  BY <1>0, <1>5 DEF Erase, SweepType, cleanerVars
<1>6. ASSUME NEW k \in Cleaners, AbandonCleanup(k) PROVE SweepType'
  BY <1>0, <1>6 DEF AbandonCleanup, SweepType, Idle
<1>7. ASSUME NEW k \in Cleaners, CompleteCleanup(k) PROVE SweepType'
  <2> DEFINE o == sweep[k].of
  <2>1. sweep' \in [Cleaners -> [of : Objects \cup {Nobody}, erased : BOOLEAN]]
    BY <1>0, <1>7 DEF CompleteCleanup, SweepType, Idle
  <2>2. CASE ~Holds(k)
    BY <1>0, <1>7, <2>1, <2>2 DEF CompleteCleanup, SweepType
  <2>3. CASE Holds(k)
    <3>1. o \in Objects /\ tomb[o].by # Nobody /\ tomb \in [Objects -> TombRec]
      BY <1>0, <1>7, <2>3, NobodyAssumption DEF CompleteCleanup, Inv, Swept, Holds, SweepType
    <3>2. tomb[o].deletes \in 0..MaxDeletes /\ tomb[o].deletes <= 1
      BY <3>1 DEF Inv, Tombstone, TombRec
    <3>3. tomb[o].deletes + 1 \in 0..MaxDeletes
      BY <3>2 DEF MaxDeletes
    <3>4. tomb' \in [Objects -> TombRec]
      <4>1. tomb' = [tomb EXCEPT ![o].by = Nobody, ![o].live = FALSE, ![o].due = FALSE,
                                 ![o].deletes = tomb[o].deletes + 1]
        BY <1>7, <2>3 DEF CompleteCleanup
      <4> HIDE DEF o
      <4> QED
        BY <3>1, <3>3, <4>1 DEF TombRec
    <3>5. \A p \in Objects : tomb'[p].live => tomb'[p].by # Nobody
      BY <1>0, <1>7, <2>3, <3>1 DEF CompleteCleanup, TombRec, SweepType
    <3> QED
      BY <2>1, <3>4, <3>5 DEF SweepType
  <2> QED
    BY <2>2, <2>3
<1>8. ASSUME NEW o \in Objects, LapseCleanup(o) \/ Recheck(o) PROVE SweepType'
  <2>1. CASE LapseCleanup(o)
    BY <1>0, <2>1 DEF LapseCleanup, SweepType, TombRec
  <2>2. CASE Recheck(o)
    BY <1>0, <2>2 DEF Recheck, SweepType, TombRec
  <2> QED
    BY <1>8, <2>1, <2>2
<1> QED
  BY <1>1, <1>2, <1>3, <1>4, <1>5, <1>6, <1>7, <1>8, CleanersStay DEF Next

\* Every step keeps the types of workers and of what Storage holds.
LEMMA StorageTypeStep == Inv /\ [Next]_vars => StorageType'
<1> SUFFICES ASSUME Inv, [Next]_vars PROVE StorageType'
  OBVIOUS
<1>0. SweepType /\ RowType /\ StorageType
  BY Types DEF Inv
<1>1. CASE UNCHANGED <<workerVars, stored>>
  BY <1>0, <1>1 DEF workerVars, StorageType
<1>2. ASSUME NEW seen \in SUBSET Cases, Claim(seen) PROVE StorageType'
  BY <1>0, <1>2 DEF Claim, StorageType
<1>3. ASSUME NEW c \in Cases, NEW n \in Attempts, Complete(c, n) \/ Fail(c, n) \/ GiveUp(c, n) PROVE StorageType'
  BY <1>0, <1>3 DEF Complete, Fail, GiveUp, StorageType
<1>4. ASSUME NEW c \in Cases, NEW n \in Attempts, Post(c, n) \/ Lands(c, n) \/ IsLost(c, n) PROVE StorageType'
  <2>1. <<c, n>> \in Objects
    BY DEF Objects
  <2> QED
    BY <1>0, <1>4, <2>1 DEF Post, Lands, IsLost, StorageType
<1>5. ASSUME NEW k \in Cleaners, Erase(k) \/ AbandonCleanup(k) PROVE StorageType'
  BY <1>0, <1>5 DEF Erase, AbandonCleanup, workerVars, StorageType
<1> QED
  BY <1>1, <1>2, <1>3, <1>4, <1>5 DEF Next, vars, workerVars, Enqueue, AgeLease, EndRetention, RemoveCase,
     Heartbeat, ClaimCleanup, CompleteCleanup, LapseCleanup, Recheck

\* Every step keeps the types.
LEMMA TypeStep == Inv /\ [Next]_vars => TypeOK'
<1> SUFFICES ASSUME Inv, [Next]_vars PROVE TypeOK'
  OBVIOUS
<1>1. RowType' /\ SweepType' /\ StorageType'
  BY RowTypeStep, SweepTypeStep, StorageTypeStep
<1> QED
  BY <1>1 DEF TypeOK, RowType, SweepType, StorageType, TombRec, ProcessingType

-----------------------------------------------------------------------------
(***************************************************************************)
(* Attempts.                                                               *)
(***************************************************************************)

\* Settling or releasing reports fails the attempts that ran.
LEMMA ReleasedAttempts ==
  ASSUME RowType, NEW S \in SUBSET Cases, NEW c \in Cases, Attempted(c),
         Release(S), processing' = WithFailedAttempts(S), UNCHANGED <<attempts, object>>,
         report'[c] = report[c] \/ (report'[c] = "failed" /\ report[c] = "generating" /\ c \in S)
  PROVE  Attempted(c)'
<1>1. /\ \A n \in Attempts : processing'[c][n] = IF c \in S /\ fence[c] = n /\ processing[c][n] = "running"
                                                THEN "failed" ELSE processing[c][n]
      /\ fence'[c] = IF c \in S THEN 0 ELSE fence[c]
  BY DEF WithFailedAttempts, Release
<1>2. \A n \in Attempts : n # 0
  BY DEF Attempts
<1> QED
  BY <1>1, <1>2 DEF Attempted

\* Every step keeps the account of the attempts of every report.
LEMMA AttemptedStep ==
  ASSUME Inv, [Next]_vars, NEW d \in Cases PROVE Attempted(d)'
<1>0. RowType /\ Attempted(d) /\ \A n \in Attempts : n \in 1..MaxAttempts /\ n # 0
  BY Types DEF Inv, Attempts
<1> USE AttemptsAssumption
<1>1. CASE UNCHANGED <<report, object, attempts, fence, processing>>
  BY <1>0, <1>1 DEF Attempted
<1>2. ASSUME NEW seen \in SUBSET Cases, Claim(seen) PROVE Attempted(d)'
  <2> DEFINE settled == {c \in Cases : Forgotten(c) \/ Spent(c)}
  <2>1. /\ report' = [c \in Cases |-> IF c \in settled THEN "failed" ELSE report[c]]
        /\ UNCHANGED object
        /\ \A c \in settled : report[c] = "generating"
    BY <1>2 DEF Claim, Forgotten, Spent
  <2>2. CASE Release(settled) /\ processing' = WithFailedAttempts(settled) /\ UNCHANGED attempts
    <3>1. report'[d] = report[d] \/ (report'[d] = "failed" /\ report[d] = "generating" /\ d \in settled)
      <4> HIDE DEF settled
      <4> QED
        BY <1>0, <2>1 DEF RowType
    <3>2. UNCHANGED <<attempts, object>> /\ settled \in SUBSET Cases
      BY <2>1, <2>2
    <3> HIDE DEF settled
    <3> QED
      BY <1>0, <2>2, <3>1, <3>2, ReleasedAttempts DEF Attempted, Release
  <2>3. ASSUME NEW c \in {e \in seen : Candidate(e)},
               attempts' = [attempts EXCEPT ![c] = attempts[c] + 1],
               fence' = [e \in Cases |-> IF e = c THEN attempts[c] + 1
                                         ELSE IF e \in settled THEN 0 ELSE fence[e]],
               processing' = [WithFailedAttempts(settled \cup {c}) EXCEPT ![c][attempts[c] + 1] = "running"]
        PROVE  Attempted(d)'
    <3>1. /\ c \in Cases /\ c \notin settled /\ report[c] = "generating"
          /\ attempts[c] \in Nat /\ attempts[c] + 1 \in Attempts
      BY <1>0, <2>3 DEF Candidate, Forgotten, Spent, RowType, Attempts
    <3>2. \A e \in Cases, n \in Attempts :
            processing'[e][n] = IF e = c /\ n = attempts[c] + 1 THEN "running"
                                ELSE IF e \in settled \cup {c} /\ fence[e] = n /\ processing[e][n] = "running"
                                     THEN "failed" ELSE processing[e][n]
      BY <2>3, <3>1 DEF WithFailedAttempts
    <3>3. CASE d = c
      <4>1. /\ fence'[d] = attempts[d] + 1 /\ attempts'[d] = attempts[d] + 1
            /\ report'[d] = "generating" /\ report[d] = "generating" /\ object'[d] = object[d]
        BY <1>0, <2>1, <2>3, <3>1, <3>3 DEF RowType
      <4>2. ASSUME NEW n \in Attempts
            PROVE  /\ processing'[d][n] = "running" <=> fence'[d] = n
                   /\ processing'[d][n] # "succeeded"
                   /\ n > attempts'[d] => processing'[d][n] = "none"
        <5>1. n \in Nat
          BY DEF Attempts
        <5>2. CASE n = attempts[c] + 1
          BY <3>1, <3>2, <3>3, <4>1, <5>1, <5>2
        <5>3. CASE n # attempts[c] + 1
          <6>1. processing'[d][n] = IF fence[d] = n /\ processing[d][n] = "running" THEN "failed" ELSE processing[d][n]
            BY <3>2, <3>3, <5>3
          <6>2. /\ processing[d][n] = "running" <=> fence[d] = n
                /\ processing[d][n] # "succeeded"
                /\ n > attempts[d] => processing[d][n] = "none"
            BY <1>0, <4>1 DEF Attempted
          <6> QED
            BY <3>1, <3>3, <4>1, <5>1, <5>3, <6>1, <6>2
        <5> QED
          BY <5>2, <5>3
      <4> QED
        BY <4>1, <4>2 DEF Attempted
    <3>4. CASE d # c
      <4>1. /\ fence'[d] = IF d \in settled THEN 0 ELSE fence[d]
            /\ attempts'[d] = attempts[d] /\ object'[d] = object[d]
            /\ report'[d] = IF d \in settled THEN "failed" ELSE report[d]
            /\ \A n \in Attempts : processing'[d][n] = IF d \in settled /\ fence[d] = n /\ processing[d][n] = "running"
                                                      THEN "failed" ELSE processing[d][n]
        BY <1>0, <2>1, <2>3, <3>2, <3>4 DEF RowType
      <4> QED
        BY <1>0, <2>1, <4>1 DEF Attempted
    <3> QED
      BY <3>3, <3>4
  <2> QED
    BY <1>2, <2>2, <2>3 DEF Claim
<1>3. ASSUME NEW c \in Cases, Enqueue(c) PROVE Attempted(d)'
  BY <1>0, <1>3 DEF Enqueue, Attempted, RowType
<1>4. ASSUME NEW c \in Cases, RemoveCase(c) PROVE Attempted(d)'
  BY <1>0, <1>4 DEF RemoveCase, Release, Attempted, RowType
<1>5. ASSUME NEW c \in Cases, NEW n \in Attempts, Complete(c, n) PROVE Attempted(d)'
  <2>1. /\ report[c] = "generating" /\ fence[c] = n /\ UNCHANGED attempts
        /\ report'[d] = IF d = c THEN "ready" ELSE report[d]
        /\ object'[d] = IF d = c THEN n ELSE object[d]
        /\ fence'[d] = IF d = c THEN 0 ELSE fence[d]
        /\ \A m \in Attempts : processing'[d][m] = IF d = c /\ m = n THEN "succeeded" ELSE processing[d][m]
    BY <1>0, <1>5 DEF Complete, Fenced, Release, RowType, ProcessingType
  <2>2. \A m \in Attempts : m \in Nat
    BY DEF Attempts
  <2> QED
    BY <1>0, <2>1, <2>2 DEF Attempted
<1>6. ASSUME NEW c \in Cases, NEW n \in Attempts, Fail(c, n) PROVE Attempted(d)'
  <2>1. /\ report[c] = "generating" /\ fence[c] = n /\ UNCHANGED <<attempts, object>>
        /\ report'[d] = report[d] \/ (d = c /\ report'[d] = "failed")
        /\ fence'[d] = IF d = c THEN 0 ELSE fence[d]
        /\ \A m \in Attempts : processing'[d][m] = IF d = c /\ m = n THEN "failed" ELSE processing[d][m]
    <3>1. /\ Fenced(c, n) /\ Release({c}) /\ UNCHANGED <<attempts, object>>
          /\ \E r \in {"failed", "generating"} : report' = [report EXCEPT ![c] = r]
          /\ processing' = [processing EXCEPT ![c][n] = "failed"]
      BY <1>6 DEF Fail
    <3>2. fence'[d] = IF d = c THEN 0 ELSE fence[d]
      BY <3>1 DEF Release
    <3>3. \A m \in Attempts : processing'[d][m] = IF d = c /\ m = n THEN "failed" ELSE processing[d][m]
      BY <1>0, <3>1 DEF RowType, ProcessingType
    <3> QED
      <4>1. report[c] = "generating" /\ fence[c] = n
        BY <3>1 DEF Fenced
      <4>2. report'[d] = report[d] \/ (d = c /\ report'[d] = "failed")
        BY <1>0, <3>1, <4>1 DEF RowType
      <4> QED
        BY <3>1, <3>2, <3>3, <4>1, <4>2
  <2>2. \A m \in Attempts : m \in Nat
    BY DEF Attempts
  <2> QED
    BY <1>0, <2>1, <2>2 DEF Attempted, RowType
<1>7. ASSUME NEW k \in Cleaners, NEW o \in Objects, ClaimCleanup(k, o) PROVE Attempted(d)'
  <2>1. PICK S \in SUBSET Cases : Release(S) /\ processing' = WithFailedAttempts(S)
    BY <1>7 DEF ClaimCleanup, Objects
  <2>2. UNCHANGED <<attempts, object>> /\ report' = report
    BY <1>7 DEF ClaimCleanup
  <2> QED
    BY <1>0, <2>1, <2>2, ReleasedAttempts DEF Attempted, Release
<1>8. ASSUME NEW c \in Cases, AgeLease(c) \/ EndRetention(c) \/ \E n \in Attempts : Heartbeat(c, n)
      PROVE  UNCHANGED <<report, object, attempts, fence, processing>>
  BY <1>8 DEF AgeLease, EndRetention, Heartbeat
<1>9. UNCHANGED dbVars => UNCHANGED <<report, object, attempts, fence, processing>>
  BY DEF dbVars
<1> QED
  BY <1>1, <1>2, <1>3, <1>4, <1>5, <1>6, <1>7, <1>8, <1>9, RowsStay DEF Next

-----------------------------------------------------------------------------
(***************************************************************************)
(* Tombstones.                                                             *)
(***************************************************************************)

\* An attempt that begins is a new one, with a new tombstone and a new worker.
NewAttempt(o) ==
  /\ o \in Objects
  /\ attempts[o[1]] + 1 = o[2]
  /\ report[o[1]] = "generating"
  /\ attempts' = [attempts EXCEPT ![o[1]] = o[2]]
  /\ tomb' = [tomb EXCEPT ![o] = NewTomb]
  /\ writer' = [writer EXCEPT ![o] = "working"]

\* A claim either leaves every tombstone and every worker alone, or begins one
\* attempt.
LEMMA ClaimTakes ==
  ASSUME Inv, NEW seen \in SUBSET Cases, Claim(seen)
  PROVE  UNCHANGED <<attempts, tomb, writer>> \/ \E o \in Objects : NewAttempt(o)
<1>0. RowType
  BY Types DEF Inv
<1>1. ASSUME NEW c \in seen, Candidate(c),
             attempts' = [attempts EXCEPT ![c] = attempts[c] + 1],
             tomb' = [tomb EXCEPT ![<<c, attempts[c] + 1>>] = NewTomb],
             writer' = [writer EXCEPT ![<<c, attempts[c] + 1>>] = "working"]
      PROVE  \E o \in Objects : NewAttempt(o)
  <2>1. <<c, attempts[c] + 1>> \in Objects
    BY <1>0, <1>1, AttemptsAssumption DEF Candidate, RowType, Objects, Attempts
  <2>2. NewAttempt(<<c, attempts[c] + 1>>)
    BY <1>1, <2>1 DEF NewAttempt, Candidate
  <2> QED
    BY <2>1, <2>2
<1> QED
  BY <1>1 DEF Claim

\* The attempt counter of a report never falls.
LEMMA AttemptsGrow ==
  ASSUME Inv, [Next]_vars, NEW c \in Cases PROVE attempts[c] <= attempts'[c]
<1>0. attempts \in [Cases -> 0..MaxAttempts] /\ attempts[c] \in Nat
  BY AttemptsAssumption DEF Inv, TypeOK
<1>1. CASE UNCHANGED attempts
  BY <1>0, <1>1
<1>2. ASSUME NEW seen \in SUBSET Cases, Claim(seen) PROVE attempts[c] <= attempts'[c]
  <2>1. ASSUME NEW o \in Objects, NewAttempt(o) PROVE attempts[c] <= attempts'[c]
    <3>1. attempts'[c] = attempts[c] \/ attempts'[c] = attempts[c] + 1
      BY <1>0, <2>1 DEF NewAttempt
    <3> QED
      BY <1>0, <3>1
  <2> QED
    BY <1>1, <1>2, <2>1, ClaimTakes
<1>3. ASSUME NEW d \in Cases, Enqueue(d) \/ AgeLease(d) \/ EndRetention(d) \/ RemoveCase(d)
      PROVE  UNCHANGED attempts
  BY <1>3 DEF Enqueue, AgeLease, EndRetention, RemoveCase
<1>4. ASSUME NEW d \in Cases, NEW n \in Attempts, Heartbeat(d, n) \/ Complete(d, n) \/ Fail(d, n)
      PROVE  UNCHANGED attempts
  BY <1>4 DEF Heartbeat, Complete, Fail
<1>5. ASSUME NEW k \in Cleaners, NEW o \in Objects, ClaimCleanup(k, o) PROVE UNCHANGED attempts
  BY <1>5 DEF ClaimCleanup
<1>6. UNCHANGED dbVars => UNCHANGED attempts
  BY DEF dbVars
<1> QED
  BY <1>1, <1>2, <1>3, <1>4, <1>5, <1>6, RowsStay DEF Next

\* What a cleaner finds, and leaves, when it takes a tombstone.
LEMMA CleanupTakes ==
  ASSUME Inv, NEW k \in Cleaners, NEW o \in Objects, ClaimCleanup(k, o)
  PROVE  /\ tomb'[o].is /\ tomb'[o].due /\ tomb'[o].by = k
         /\ \/ tomb[o].is /\ tomb[o].due /\ tomb'[o].deletes = tomb[o].deletes
            \/ report[o[1]] = "ready" /\ object[o[1]] = o[2] /\ tomb'[o].deletes = 0
         /\ \A p \in Objects \ {o} :
              \/ tomb'[p] = tomb[p]
              \/ report[p[1]] = "ready" /\ object[p[1]] = p[2] /\ tomb'[p] = NewTomb
<1>0. SweepType
  BY Types DEF Inv
<1> DEFINE t == WithExpiredReports
<1>1. t \in [Objects -> TombRec]
  BY <1>0, NewTombs DEF WithExpiredReports, SweepType
<1>2. \A p \in Objects :
        \/ t[p] = tomb[p]
        \/ report[p[1]] = "ready" /\ object[p[1]] = p[2] /\ t[p] = NewTomb
  BY DEF WithExpiredReports
<1>3. t[o].is /\ t[o].due /\ tomb' = [t EXCEPT ![o].by = k, ![o].live = TRUE]
  BY DEF ClaimCleanup, Sweepable
<1> HIDE DEF t
<1>4. /\ tomb'[o].is = t[o].is /\ tomb'[o].due = t[o].due /\ tomb'[o].by = k /\ tomb'[o].deletes = t[o].deletes
      /\ \A p \in Objects \ {o} : tomb'[p] = t[p]
  BY <1>1, <1>3 DEF TombRec
<1>5. tomb'[o].is /\ tomb'[o].due /\ tomb'[o].by = k
  BY <1>3, <1>4
<1>6. \/ tomb[o].is /\ tomb[o].due /\ tomb'[o].deletes = tomb[o].deletes
      \/ report[o[1]] = "ready" /\ object[o[1]] = o[2] /\ tomb'[o].deletes = 0
  <2>1. CASE t[o] = tomb[o]
    BY <1>3, <1>4, <2>1
  <2>2. CASE report[o[1]] = "ready" /\ object[o[1]] = o[2] /\ t[o] = NewTomb
    BY <1>4, <2>2, NewTombs
  <2> QED
    BY <1>2, <2>1, <2>2
<1>7. ASSUME NEW p \in Objects \ {o}
      PROVE  \/ tomb'[p] = tomb[p]
             \/ report[p[1]] = "ready" /\ object[p[1]] = p[2] /\ tomb'[p] = NewTomb
  BY <1>2, <1>4
<1> QED
  BY <1>5, <1>6, <1>7

\* What the confirmed deletion of a cleaner that still holds its claim leaves.
LEMMA CleanupLeaves ==
  ASSUME Inv, NEW k \in Cleaners, CompleteCleanup(k), Holds(k)
  PROVE  LET o == sweep[k].of
         IN  /\ o \in Objects /\ tomb[o].is /\ tomb[o].due /\ tomb[o].by = k
             /\ tomb'[o].is /\ ~tomb'[o].due /\ tomb'[o].by = Nobody
             /\ tomb'[o].deletes = tomb[o].deletes + 1
             /\ \A p \in Objects \ {o} : tomb'[p] = tomb[p]
<1>0. SweepType
  BY Types DEF Inv
<1> DEFINE o == sweep[k].of
<1>1. o \in Objects /\ tomb[o].by = k /\ tomb \in [Objects -> TombRec]
  BY <1>0 DEF CompleteCleanup, Inv, Swept, Holds, SweepType
<1>2. tomb[o].is /\ tomb[o].due
  BY <1>1, NobodyAssumption DEF Inv, Tombstone
<1>3. /\ tomb'[o].by = Nobody /\ ~tomb'[o].due /\ tomb'[o].is = tomb[o].is
      /\ tomb'[o].deletes = tomb[o].deletes + 1
      /\ \A p \in Objects \ {o} : tomb'[p] = tomb[p]
  <2>1. /\ tomb' = [tomb EXCEPT ![o].by = Nobody, ![o].live = FALSE, ![o].due = FALSE,
                                 ![o].deletes = tomb[o].deletes + 1]
        /\ o \in Objects /\ tomb \in [Objects -> TombRec]
    BY <1>1 DEF CompleteCleanup
  <2> HIDE DEF o
  <2> QED
    BY <2>1 DEF TombRec
<1> QED
  BY <1>1, <1>2, <1>3

\* Every step keeps the account of every tombstone.
LEMMA TombstoneStep ==
  ASSUME Inv, [Next]_vars, NEW p \in Objects PROVE Tombstone(p)'
<1>0. /\ Tombstone(p) /\ tomb \in [Objects -> TombRec] /\ tomb[p] \in TombRec
      /\ writer \in [Objects -> {"none", "working", "posting", "stored", "over"}]
  BY Types DEF Inv, SweepType, StorageType
<1>1. /\ p[1] \in Cases /\ p[2] \in Nat
      /\ attempts[p[1]] \in Nat /\ attempts'[p[1]] \in Nat /\ attempts[p[1]] <= attempts'[p[1]]
  BY AttemptsGrow, RowTypeStep, Types, AttemptsAssumption DEF Objects, Attempts, Inv, RowType
<1>2. ASSUME tomb'[p] = tomb[p] \/ (~tomb'[p].is /\ ~tomb'[p].due /\ tomb'[p].by = Nobody /\ tomb'[p].deletes = 0),
             writer'[p] = writer[p] \/ writer[p] # "none"
      PROVE  Tombstone(p)'
  BY <1>0, <1>1, <1>2 DEF Tombstone
<1>3. ASSUME NEW seen \in SUBSET Cases, Claim(seen) PROVE Tombstone(p)'
  <2>1. ASSUME NEW o \in Objects, NewAttempt(o) PROVE Tombstone(p)'
    <3>1. CASE p = o
      <4>1. tomb'[p] = NewTomb /\ attempts'[p[1]] = p[2]
        BY <1>0, <1>1, <2>1, <3>1, Types DEF NewAttempt, Inv, RowType
      <4> QED
        BY <1>1, <4>1, NewTombs DEF Tombstone
    <3>2. CASE p # o
      BY <1>0, <1>2, <2>1, <3>2 DEF NewAttempt
    <3> QED
      BY <3>1, <3>2
  <2> QED
    BY <1>2, <1>3, <2>1, ClaimTakes
<1>4. ASSUME NEW c \in Cases, NEW n \in Attempts, Complete(c, n) PROVE Tombstone(p)'
  <2>1. <<c, n>> \in Objects
    BY DEF Objects
  <2> QED
    BY <1>0, <1>2, <1>4, <2>1, NewTombs DEF Complete
<1>5. ASSUME NEW c \in Cases, NEW n \in Attempts, Fail(c, n) \/ GiveUp(c, n) \/ Post(c, n) \/ Lands(c, n)
      PROVE  Tombstone(p)'
  <2>1. <<c, n>> \in Objects
    BY DEF Objects
  <2> QED
    BY <1>0, <1>2, <1>5, <2>1 DEF Fail, GiveUp, Post, Lands, cleanerVars
<1>6. ASSUME NEW k \in Cleaners, NEW o \in Objects, ClaimCleanup(k, o) PROVE Tombstone(p)'
  <2>1. UNCHANGED <<attempts, writer>>
    BY <1>6 DEF ClaimCleanup, workerVars
  <2>2. report[p[1]] = "ready" /\ object[p[1]] = p[2] => p[2] <= attempts[p[1]]
    BY <1>1 DEF Inv, Attempted
  <2>3. CASE p = o
    BY <1>0, <1>1, <1>6, <2>1, <2>2, <2>3, CleanupTakes, NobodyAssumption DEF Tombstone
  <2>4. CASE p # o
    <3>1. tomb'[p] = tomb[p] \/ (p[2] <= attempts[p[1]] /\ tomb'[p] = NewTomb)
      BY <1>6, <2>2, <2>4, CleanupTakes
    <3> QED
      BY <1>0, <1>1, <1>2, <2>1, <3>1, NewTombs DEF Tombstone
  <2> QED
    BY <2>3, <2>4
<1>7. ASSUME NEW k \in Cleaners, CompleteCleanup(k) PROVE Tombstone(p)'
  <2>1. UNCHANGED writer
    BY <1>7 DEF CompleteCleanup, workerVars
  <2>2. CASE Holds(k) /\ p = sweep[k].of
    <3>1. /\ tomb[p].due /\ tomb'[p].is /\ ~tomb'[p].due /\ tomb'[p].by = Nobody /\ tomb[p].is
      BY <1>7, <2>2, CleanupLeaves
    <3> QED
      BY <1>0, <1>1, <2>1, <3>1 DEF Tombstone
  <2>3. CASE ~(Holds(k) /\ p = sweep[k].of)
    BY <1>2, <1>7, <2>1, <2>3, CleanupLeaves DEF CompleteCleanup
  <2> QED
    BY <2>2, <2>3
<1>8. ASSUME NEW o \in Objects, LapseCleanup(o) \/ Recheck(o) PROVE Tombstone(p)'
  <2>1. UNCHANGED writer
    BY <1>8 DEF LapseCleanup, Recheck, workerVars
  <2>2. /\ tomb'[p].by = tomb[p].by /\ tomb'[p].is = tomb[p].is /\ tomb'[p].deletes = tomb[p].deletes
        /\ tomb'[p].due = tomb[p].due \/ (tomb'[p].due /\ tomb[p].deletes = 1)
    <3>1. CASE LapseCleanup(o)
      BY <1>0, <3>1 DEF LapseCleanup, TombRec
    <3>2. CASE Recheck(o)
      BY <1>0, <3>2 DEF Recheck, TombRec
    <3> QED
      BY <1>8, <3>1, <3>2
  <2> QED
    BY <1>0, <1>1, <2>1, <2>2 DEF Tombstone
<1> QED
  BY <1>2, <1>3, <1>4, <1>5, <1>6, <1>7, <1>8 DEF Next, vars, cleanerVars, workerVars, dbVars, Enqueue, AgeLease,
     EndRetention, RemoveCase, Heartbeat, IsLost, Erase, AbandonCleanup

-----------------------------------------------------------------------------
(***************************************************************************)
(* What is published, what is swept, and what lies in Storage.             *)
(***************************************************************************)

\* A dispatch row keeps its fence, gives it up, or names a new attempt.
LEMMA FenceMoves ==
  ASSUME Inv, [Next]_vars, NEW c \in Cases
  PROVE  \/ fence'[c] = fence[c]
         \/ fence'[c] = 0
         \/ /\ fence'[c] = attempts[c] + 1
            /\ <<c, fence'[c]>> \in Objects => writer'[<<c, fence'[c]>>] = "working"
<1>0. RowType /\ writer \in [Objects -> {"none", "working", "posting", "stored", "over"}]
  BY Types DEF Inv, StorageType
<1>1. ASSUME NEW S, Release(S) PROVE fence'[c] = fence[c] \/ fence'[c] = 0
  BY <1>1 DEF Release
<1>2. ASSUME NEW seen \in SUBSET Cases, Claim(seen),
             NEW d \in seen,
             fence' = [e \in Cases |-> IF e = d THEN attempts[d] + 1
                        ELSE IF e \in {x \in Cases : Forgotten(x) \/ Spent(x)} THEN 0 ELSE fence[e]],
             writer' = [writer EXCEPT ![<<d, attempts[d] + 1>>] = "working"]
      PROVE  \/ fence'[c] = fence[c]
             \/ fence'[c] = 0
             \/ /\ fence'[c] = attempts[c] + 1
                /\ <<c, fence'[c]>> \in Objects => writer'[<<c, fence'[c]>>] = "working"
  BY <1>0, <1>2
<1>3. ASSUME NEW seen \in SUBSET Cases, Claim(seen)
      PROVE  \/ fence'[c] = fence[c]
             \/ fence'[c] = 0
             \/ /\ fence'[c] = attempts[c] + 1
                /\ <<c, fence'[c]>> \in Objects => writer'[<<c, fence'[c]>>] = "working"
  BY <1>1, <1>2, <1>3 DEF Claim
<1>4. ASSUME NEW d \in Cases, \/ Enqueue(d) \/ AgeLease(d) \/ EndRetention(d)
                              \/ \E n \in Attempts : Heartbeat(d, n)
      PROVE  fence'[c] = fence[c]
  BY <1>4 DEF Enqueue, AgeLease, EndRetention, Heartbeat
<1>5. ASSUME NEW d \in Cases, RemoveCase(d) \/ \E n \in Attempts : Complete(d, n) \/ Fail(d, n)
      PROVE  fence'[c] = fence[c] \/ fence'[c] = 0
  BY <1>1, <1>5 DEF RemoveCase, Complete, Fail
<1>6. ASSUME NEW k \in Cleaners, NEW o \in Objects, ClaimCleanup(k, o)
      PROVE  fence'[c] = fence[c] \/ fence'[c] = 0
  BY <1>1, <1>6 DEF ClaimCleanup
<1>7. UNCHANGED dbVars => fence'[c] = fence[c]
  BY DEF dbVars
<1> QED
  BY <1>3, <1>4, <1>5, <1>6, <1>7, RowsStay DEF Next

\* Only complete publishes an object.
LEMMA OnlyCompletePublishes ==
  ASSUME Inv, [Next]_vars, NEW p \in Objects, Current(p)', ~Current(p)
  PROVE  Complete(p[1], p[2])
<1>0. RowType /\ p[1] \in Cases /\ p[2] \in Attempts
  BY Types DEF Inv, Objects
<1>1. ASSUME report'[p[1]] = report[p[1]] \/ report'[p[1]] # "ready",
             object'[p[1]] = object[p[1]], retained'[p[1]] = retained[p[1]] \/ ~retained'[p[1]]
      PROVE  FALSE
  BY <1>1 DEF Current
<1>2. ASSUME NEW seen \in SUBSET Cases, Claim(seen) PROVE FALSE
  BY <1>0, <1>1, <1>2 DEF Claim
<1>3. ASSUME NEW c \in Cases, Enqueue(c) \/ EndRetention(c) PROVE FALSE
  BY <1>0, <1>1, <1>3 DEF Enqueue, EndRetention, RowType
<1>4. ASSUME NEW c \in Cases, RemoveCase(c) PROVE FALSE
  <2>1. report' = [report EXCEPT ![c] = "removed"] /\ UNCHANGED retained /\ object' = [object EXCEPT ![c] = 0]
    BY <1>4 DEF RemoveCase
  <2>2. CASE p[1] = c
    BY <1>0, <2>1, <2>2 DEF Current, RowType
  <2>3. CASE p[1] # c
    BY <1>0, <1>1, <2>1, <2>3 DEF RowType
  <2> QED
    BY <2>2, <2>3
<1>5. ASSUME NEW c \in Cases, NEW n \in Attempts, Fail(c, n) PROVE FALSE
  <2>1. /\ UNCHANGED <<object, retained>>
        /\ \E r \in {"failed", "generating"} : report' = [report EXCEPT ![c] = r]
    BY <1>5 DEF Fail
  <2> QED
    BY <1>0, <1>1, <2>1 DEF RowType
<1>6. ASSUME NEW c \in Cases, NEW n \in Attempts, Complete(c, n) PROVE Complete(p[1], p[2])
  <2>1. /\ report' = [report EXCEPT ![c] = "ready"] /\ object' = [object EXCEPT ![c] = n] /\ UNCHANGED retained
    BY <1>6 DEF Complete
  <2>2. CASE p[1] = c
    <3>1. p[2] = n
      BY <1>0, <2>1, <2>2 DEF Current, RowType
    <3> QED
      BY <1>6, <2>2, <3>1
  <2>3. CASE p[1] # c
    BY <1>0, <1>1, <2>1, <2>3 DEF RowType
  <2> QED
    BY <2>2, <2>3
<1>7. CASE UNCHANGED <<report, object, retained>>
  BY <1>1, <1>7
<1> QED
  BY <1>2, <1>3, <1>4, <1>5, <1>6, <1>7 DEF Next, vars, dbVars, AgeLease, Heartbeat, GiveUp,
     Post, Lands, IsLost, ClaimCleanup, Erase, AbandonCleanup, CompleteCleanup, LapseCleanup, Recheck

\* How the object of one attempt, and its worker, can move.
LEMMA StorageMoves ==
  ASSUME Inv, [Next]_vars, NEW p \in Objects
  PROVE  /\ p \in stored' => p \in stored \/ p \in flying
         /\ p \in stored => p \in stored' \/ \E k \in Cleaners : sweep[k].of = p
         /\ p \in flying' => p \in flying \/ writer[p] = "working"
         /\ writer'[p] = "stored" => writer[p] = "stored" \/ p \in stored'
         /\ writer'[p] \in {"working", "posting"} => \/ writer[p] \in {"working", "posting"}
                                                   \/ NewAttempt(p)
<1>0. writer \in [Objects -> {"none", "working", "posting", "stored", "over"}]
  BY Types DEF Inv, StorageType
<1> DEFINE Moved ==
      /\ p \in stored' => p \in stored \/ p \in flying
      /\ p \in stored => p \in stored' \/ \E k \in Cleaners : sweep[k].of = p
      /\ p \in flying' => p \in flying \/ writer[p] = "working"
      /\ writer'[p] = "stored" => writer[p] = "stored" \/ p \in stored'
      /\ writer'[p] \in {"working", "posting"} => \/ writer[p] \in {"working", "posting"}
                                                \/ NewAttempt(p)
<1>1. CASE UNCHANGED <<writer, flying, stored>>
  BY <1>1
<1>2. ASSUME NEW seen \in SUBSET Cases, Claim(seen) PROVE Moved
  <2>1. UNCHANGED <<flying, stored>>
    BY <1>2 DEF Claim
  <2>2. ASSUME NEW o \in Objects, NewAttempt(o) PROVE Moved
    BY <1>0, <2>1, <2>2 DEF NewAttempt
  <2> QED
    BY <1>1, <1>2, <2>1, <2>2, ClaimTakes
<1>3. ASSUME NEW c \in Cases, NEW n \in Attempts,
             Complete(c, n) \/ Fail(c, n) \/ GiveUp(c, n) \/ Post(c, n) \/ Lands(c, n) \/ IsLost(c, n)
      PROVE  Moved
  <2>1. <<c, n>> \in Objects
    BY DEF Objects
  <2> QED
    BY <1>0, <1>3, <2>1 DEF Complete, Fail, GiveUp, Post, Lands, IsLost
<1>4. ASSUME NEW k \in Cleaners, Erase(k) \/ AbandonCleanup(k) PROVE Moved
  BY <1>4 DEF Erase, AbandonCleanup, workerVars
<1> QED
  BY <1>1, <1>2, <1>3, <1>4 DEF Next, vars, workerVars, Enqueue, AgeLease, EndRetention, RemoveCase,
     Heartbeat, ClaimCleanup, CompleteCleanup, LapseCleanup, Recheck

\* What may be published stays in Storage: no cleaner works on it.
LEMMA KeptStep ==
  ASSUME Inv, [Next]_vars, NEW p \in Objects PROVE Kept(p)'
<1>0. /\ Kept(p) /\ p[1] \in Cases /\ p[2] \in Nat \ {0} /\ p = <<p[1], p[2]>>
      /\ \A k \in Cleaners : Swept(k)
  BY DEF Inv, Objects, Attempts
<1>1. ASSUME writer'[p] = "stored", fence'[p[1]] = p[2] PROVE p \in stored'
  <2>1. fence[p[1]] = p[2]
    BY <1>0, <1>1, FenceMoves
  <2>2. \A k \in Cleaners : sweep[k].of # p
    BY <1>0, <2>1 DEF Swept
  <2> QED
    BY <1>0, <1>1, <2>1, <2>2, StorageMoves DEF Kept
<1>2. ASSUME Current(p)' PROVE p \in stored'
  <2>1. CASE Current(p)
    <3>1. \A k \in Cleaners : sweep[k].of # p
      BY <1>0, <2>1 DEF Swept
    <3> QED
      BY <1>0, <2>1, <3>1, StorageMoves DEF Kept
  <2>2. CASE ~Current(p)
    <3>1. Complete(p[1], p[2])
      BY <1>2, <2>2, OnlyCompletePublishes
    <3> QED
      BY <1>0, <3>1 DEF Complete, Fenced, Kept
  <2> QED
    BY <2>1, <2>2
<1> QED
  BY <1>1, <1>2 DEF Kept

\* A cleaner works only on what can be published no more.
LEMMA SweptStep ==
  ASSUME Inv, [Next]_vars, NEW j \in Cleaners PROVE Swept(j)'
<1>0. SweepType /\ RowType /\ Swept(j) /\ Nobody \notin Objects
  BY Types, NobodyAssumption DEF Inv
<1>1. ASSUME NEW o \in Objects, o[2] <= attempts[o[1]], fence[o[1]] # o[2], ~Current(o)
      PROVE  o[2] <= attempts'[o[1]] /\ fence'[o[1]] # o[2] /\ ~Current(o)'
  <2>1. o[1] \in Cases /\ o[2] \in Nat \ {0} /\ attempts[o[1]] \in Nat /\ attempts'[o[1]] \in Nat
    BY <1>0, RowTypeStep, AttemptsAssumption DEF Objects, Attempts, RowType
  <2>2. o[2] <= attempts'[o[1]]
    BY <1>1, <2>1, AttemptsGrow
  <2>3. fence'[o[1]] # o[2]
    <3>1. fence'[o[1]] = fence[o[1]] \/ fence'[o[1]] = 0 \/ fence'[o[1]] = attempts[o[1]] + 1
      BY <2>1, FenceMoves
    <3> QED
      BY <1>1, <2>1, <3>1
  <2>4. ~Current(o)'
    BY <1>1, OnlyCompletePublishes DEF Complete, Fenced
  <2> QED
    BY <2>2, <2>3, <2>4
<1>2. CASE sweep'[j] = sweep[j]
  BY <1>0, <1>1, <1>2 DEF Swept
<1>3. CASE sweep'[j] = Idle
  BY <1>0, <1>3 DEF Swept, Idle
<1>4. ASSUME Erase(j) PROVE Swept(j)'
  <2>1. sweep[j] # Idle /\ sweep' = [sweep EXCEPT ![j].erased = TRUE] /\ ~sweep[j].erased
    BY <1>4 DEF Erase
  <2>2. sweep[j].of \in Objects /\ sweep'[j].of = sweep[j].of
    BY <1>0, <2>1 DEF SweepType, Idle
  <2> QED
    BY <1>0, <1>1, <2>2 DEF Swept
<1>5. ASSUME NEW o \in Objects, ClaimCleanup(j, o) PROVE Swept(j)'
  <2>1. sweep'[j].of = o /\ ~sweep'[j].erased /\ UNCHANGED <<report, object, retained, attempts>>
    BY <1>0, <1>5 DEF ClaimCleanup, SweepType
  <2>2. o[1] \in Cases /\ o[2] \in Nat \ {0}
    BY DEF Objects, Attempts
  <2>3. o[2] <= attempts[o[1]]
    <3>1. tomb[o].is \/ (report[o[1]] = "ready" /\ object[o[1]] = o[2])
      BY <1>5, CleanupTakes
    <3>2. attempts[o[1]] \in Nat /\ Attempted(o[1]) /\ Tombstone(o)
      BY <1>0, <2>2, AttemptsAssumption DEF RowType, Inv
    <3> QED
      BY <2>2, <3>1, <3>2 DEF Attempted, Tombstone
  <2>4. fence'[o[1]] # o[2]
    <3>1. CASE report[o[1]] = "removed" \/ fence[o[1]] # o[2]
      <4>1. fence[o[1]] # o[2]
        BY <2>2, <3>1 DEF Inv, Attempted
      <4>2. fence'[o[1]] = fence[o[1]] \/ fence'[o[1]] = 0
        BY <1>5, <2>2 DEF ClaimCleanup, Release
      <4> QED
        BY <2>2, <4>1, <4>2
    <3>2. CASE report[o[1]] # "removed" /\ fence[o[1]] = o[2]
      <4>1. lease[o[1]] = 0
        BY <1>0, <1>5, <2>2, <3>2, LeaseAssumption DEF ClaimCleanup, Sweepable, Owned, RowType
      <4>2. fence'[o[1]] = 0
        BY <1>5, <2>2, <3>2, <4>1 DEF ClaimCleanup, Release
      <4> QED
        BY <2>2, <4>2
    <3> QED
      BY <3>1, <3>2
  <2>5. ~Current(o)'
    BY <1>5, <2>1 DEF ClaimCleanup, Sweepable, Current
  <2> QED
    BY <2>1, <2>3, <2>4, <2>5 DEF Swept
<1>6. ASSUME NEW k \in Cleaners, NEW o \in Objects, ClaimCleanup(k, o) PROVE Swept(j)'
  <2>1. k # j => sweep'[j] = sweep[j]
    BY <1>0, <1>6 DEF ClaimCleanup, SweepType
  <2> QED
    BY <1>2, <1>5, <1>6, <2>1
<1>7. ASSUME NEW k \in Cleaners, Erase(k) \/ AbandonCleanup(k) \/ CompleteCleanup(k) PROVE Swept(j)'
  <2>1. k # j => sweep'[j] = sweep[j]
    BY <1>0, <1>7 DEF Erase, AbandonCleanup, CompleteCleanup, SweepType
  <2>2. k = j => Erase(j) \/ sweep'[j] = Idle
    BY <1>0, <1>7 DEF AbandonCleanup, CompleteCleanup, SweepType
  <2> QED
    BY <1>2, <1>3, <1>4, <2>1, <2>2
<1>8. ASSUME \/ \E seen \in SUBSET Cases : Claim(seen)
             \/ \E c \in Cases, n \in Attempts : Complete(c, n)
             \/ \E o \in Objects : LapseCleanup(o) \/ Recheck(o)
      PROVE  UNCHANGED sweep
  BY <1>8 DEF Claim, Complete, LapseCleanup, Recheck
<1>9. UNCHANGED cleanerVars => UNCHANGED sweep
  BY DEF cleanerVars
<1> QED
  BY <1>2, <1>6, <1>7, <1>8, <1>9, CleanersStay DEF Next

\* The last deletion begins with the second look at a tombstone.
LEMMA LastBegins ==
  ASSUME Inv, [Next]_vars, NEW p \in Objects, Last(p)'
  PROVE  /\ tomb'[p] # NewTomb
         /\ \/ Last(p) /\ tomb'[p].by \in {tomb[p].by, Nobody} /\ tomb'[p].deletes = tomb[p].deletes
            \/ Last(p) /\ \E k \in Cleaners : ClaimCleanup(k, p) /\ tomb'[p].by = k /\ tomb'[p].deletes <= 1
            \/ /\ Last(p) /\ tomb'[p].by = Nobody
               /\ \E k \in Cleaners : CompleteCleanup(k) /\ sweep[k].of = p /\ tomb[p].by = k
            \/ Recheck(p) /\ tomb'[p].by = Nobody /\ tomb'[p].deletes = 1
<1>0. SweepType /\ Tombstone(p) /\ tomb[p] \in TombRec /\ MaxDeletes = 2
  BY Types DEF Inv, SweepType, MaxDeletes
<1> DEFINE Same == Last(p) /\ tomb'[p].by \in {tomb[p].by, Nobody} /\ tomb'[p].deletes = tomb[p].deletes
<1>1. tomb'[p] # NewTomb /\ tomb'[p] # NoTomb
  BY <1>0, NewTombs DEF Last
<1>2. CASE tomb'[p] = tomb[p]
  BY <1>1, <1>2 DEF Last
<1>3. ASSUME NEW seen \in SUBSET Cases, Claim(seen) PROVE Same
  <2>1. ASSUME NEW o \in Objects, NewAttempt(o) PROVE tomb'[p] = tomb[p]
    BY <1>0, <1>1, <2>1 DEF NewAttempt, SweepType
  <2>2. tomb'[p] = tomb[p]
    BY <1>3, <2>1, ClaimTakes
  <2> QED
    BY <2>2 DEF Last
<1>4. ASSUME NEW c \in Cases, NEW n \in Attempts, Complete(c, n) PROVE tomb'[p] = tomb[p]
  <2>1. <<c, n>> \in Objects
    BY DEF Objects
  <2> QED
    BY <1>0, <1>1, <1>4, <2>1 DEF Complete, SweepType
<1>5. ASSUME NEW k \in Cleaners, NEW o \in Objects, ClaimCleanup(k, o)
      PROVE  \/ tomb'[p] = tomb[p]
             \/ /\ Last(p) /\ ClaimCleanup(k, p)
                /\ tomb'[p].by = k /\ tomb'[p].deletes <= 1
  <2>1. CASE p # o
    BY <1>1, <1>5, <2>1, CleanupTakes
  <2>2. CASE p = o
    <3>1. /\ tomb'[p].by = k
          /\ tomb'[p].deletes # 0 => tomb[p].due /\ tomb'[p].deletes = tomb[p].deletes
      BY <1>5, <2>2, CleanupTakes
    <3>2. tomb'[p].deletes # 0
      BY <1>0 DEF Last
    <3>3. tomb[p].due /\ tomb'[p].deletes = tomb[p].deletes /\ tomb[p].deletes \in Nat
      BY <1>0, <3>1, <3>2 DEF TombRec
    <3>4. tomb[p].deletes <= 1
      BY <1>0, <3>3 DEF Tombstone
    <3>5. tomb[p].deletes = 1 /\ tomb'[p].deletes <= 1
      BY <3>2, <3>3, <3>4
    <3>6. Last(p)
      BY <3>3, <3>5 DEF Last
    <3> QED
      BY <1>5, <2>2, <3>1, <3>5, <3>6
  <2> QED
    BY <2>1, <2>2
<1>6. ASSUME NEW k \in Cleaners, CompleteCleanup(k)
      PROVE  \/ tomb'[p] = tomb[p]
             \/ Last(p) /\ tomb'[p].by = Nobody /\ sweep[k].of = p /\ tomb[p].by = k
  <2>1. CASE Holds(k) /\ p = sweep[k].of
    <3>1. /\ tomb[p].by = k /\ tomb[p].due /\ tomb'[p].by = Nobody /\ ~tomb'[p].due
          /\ tomb'[p].deletes = tomb[p].deletes + 1
      BY <1>6, <2>1, CleanupLeaves
    <3>2. tomb[p].deletes \in Nat
      BY <1>0 DEF TombRec
    <3> QED
      BY <1>0, <2>1, <3>1, <3>2 DEF Last
  <2>2. CASE ~(Holds(k) /\ p = sweep[k].of)
    BY <1>6, <2>2, CleanupLeaves DEF CompleteCleanup
  <2> QED
    BY <2>1, <2>2
<1>7. ASSUME NEW o \in Objects, LapseCleanup(o) PROVE Same
  <2>1. tomb'[p].by = tomb[p].by /\ tomb'[p].deletes = tomb[p].deletes /\ tomb'[p].due = tomb[p].due
    BY <1>0, <1>7 DEF LapseCleanup, SweepType, TombRec
  <2> QED
    BY <2>1 DEF Last
<1>8. ASSUME NEW o \in Objects, Recheck(o)
      PROVE  \/ tomb'[p] = tomb[p]
             \/ Recheck(p) /\ tomb'[p].by = Nobody /\ tomb'[p].deletes = 1
  <2>1. CASE o = p
    <3>1. tomb'[p].by = tomb[p].by /\ tomb'[p].deletes = tomb[p].deletes /\ ~tomb[p].due /\ tomb[p].deletes = 1
      BY <1>0, <1>8, <2>1 DEF Recheck, SweepType, TombRec
    <3>2. tomb[p].by = Nobody
      BY <1>0, <3>1 DEF Tombstone
    <3> QED
      BY <1>8, <2>1, <3>1, <3>2
  <2>2. CASE o # p
    BY <1>0, <1>8, <2>2 DEF Recheck, SweepType
  <2> QED
    BY <2>1, <2>2
<1>9. CASE UNCHANGED tomb
  BY <1>2, <1>9
<1> HIDE DEF Same
<1>10. Same => Last(p) /\ tomb'[p].by \in {tomb[p].by, Nobody} /\ tomb'[p].deletes = tomb[p].deletes
  BY DEF Same
<1>11. ASSUME NEW k \in Cleaners, Erase(k) \/ AbandonCleanup(k) PROVE UNCHANGED tomb
  BY <1>11 DEF Erase, AbandonCleanup
<1>12. UNCHANGED cleanerVars => UNCHANGED tomb
  BY DEF cleanerVars
<1> QED
  BY <1>1, <1>2, <1>3, <1>4, <1>5, <1>6, <1>7, <1>8, <1>9, <1>10, <1>11, <1>12, CleanersStay DEF Next

\* When the last deletion is confirmed nothing is left and nothing can land.
LEMMA FinalStep ==
  ASSUME Inv, [Next]_vars, NEW p \in Objects PROVE Final(p)'
<1> SUFFICES ASSUME Last(p)' PROVE Final(p)'
  BY DEF Final
<1>0. SweepType /\ Final(p) /\ tomb[p] \in TombRec /\ Nobody \notin Cleaners
  BY Types, NobodyAssumption DEF Inv, SweepType
<1>1. writer[p] \notin {"working", "posting"} /\ p \notin flying
  BY <1>0, LastBegins DEF Final, Recheck
<1>2. ~NewAttempt(p)
  BY <1>0, LastBegins DEF NewAttempt, SweepType
<1>3. /\ writer'[p] \notin {"working", "posting"} /\ p \notin flying'
      /\ p \in stored' => p \in stored
  BY <1>1, <1>2, StorageMoves
<1>4. ASSUME tomb'[p].deletes = MaxDeletes PROVE p \notin stored'
  <2>1. CASE Last(p) /\ tomb[p].deletes = MaxDeletes
    BY <1>0, <1>3, <2>1 DEF Final
  <2>2. ASSUME NEW k \in Cleaners, Last(p), CompleteCleanup(k), sweep[k].of = p, tomb[p].by = k
        PROVE  p \notin stored'
    BY <1>0, <1>3, <2>2 DEF Final, CompleteCleanup
  <2> QED
    BY <1>4, <2>1, <2>2, LastBegins DEF MaxDeletes
<1>5. ASSUME NEW k \in Cleaners, sweep'[k].of = p, sweep'[k].erased, tomb'[p].by = k PROVE p \notin stored'
  <2>1. ~ClaimCleanup(k, p)
    BY <1>0, <1>5 DEF ClaimCleanup, SweepType
  <2>2. Last(p) /\ tomb[p].by = k
    BY <1>0, <1>5, <2>1, LastBegins
  <2>3. CASE sweep'[k] = sweep[k]
    BY <1>0, <1>3, <1>5, <2>2, <2>3 DEF Final
  <2>4. CASE Erase(k)
    BY <1>0, <1>5, <2>4 DEF Erase, SweepType
  <2>5. ASSUME NEW j \in Cleaners, NEW o \in Objects, ClaimCleanup(j, o) PROVE sweep'[k] = sweep[k]
    BY <1>0, <1>5, <2>5 DEF ClaimCleanup, SweepType
  <2>6. ASSUME NEW j \in Cleaners, Erase(j) \/ AbandonCleanup(j) \/ CompleteCleanup(j)
        PROVE  sweep'[k] = sweep[k] \/ Erase(k)
    BY <1>0, <1>5, <2>6 DEF Erase, AbandonCleanup, CompleteCleanup, SweepType, Idle
  <2>7. ASSUME \/ \E seen \in SUBSET Cases : Claim(seen)
               \/ \E c \in Cases, n \in Attempts : Complete(c, n)
               \/ \E o \in Objects : LapseCleanup(o) \/ Recheck(o)
        PROVE  sweep'[k] = sweep[k]
    BY <2>7 DEF Claim, Complete, LapseCleanup, Recheck
  <2>8. UNCHANGED cleanerVars => sweep'[k] = sweep[k]
    BY DEF cleanerVars
  <2> QED
    BY <2>3, <2>4, <2>5, <2>6, <2>7, <2>8, CleanersStay DEF Next
<1> QED
  BY <1>3, <1>4, <1>5 DEF Final

-----------------------------------------------------------------------------
(***************************************************************************)
(* Theorems.                                                               *)
(***************************************************************************)

\* Nothing is enqueued, claimed or stored at first.
LEMMA Initially == Init => Inv
<1> SUFFICES ASSUME Init PROVE Inv
  OBVIOUS
<1> USE AttemptsAssumption, LeaseAssumption, NobodyAssumption
<1>1. RowType
  BY DEF Init, RowType, ProcessingType
<1>2. SweepType
  BY NewTombs DEF Init, SweepType, Idle
<1>3. StorageType
  BY DEF Init, StorageType
<1>4. ASSUME NEW c \in Cases PROVE Attempted(c)
  BY DEF Init, Attempted, Attempts
<1>5. ASSUME NEW o \in Objects PROVE Tombstone(o) /\ Kept(o) /\ Final(o)
  BY NewTombs DEF Init, Objects, Tombstone, Kept, Final, Last, Current, MaxDeletes
<1>6. ASSUME NEW k \in Cleaners PROVE Swept(k)
  BY DEF Init, Swept, Idle
<1> QED
  BY <1>1, <1>2, <1>3, <1>4, <1>5, <1>6, Types DEF Inv

\* The invariant is inductive.
LEMMA InvariantStep == Inv /\ [Next]_vars => Inv'
<1> SUFFICES ASSUME Inv, [Next]_vars PROVE Inv'
  OBVIOUS
<1>1. TypeOK'
  BY TypeStep
<1>2. \A c \in Cases : Attempted(c)'
  BY AttemptedStep
<1>3. \A o \in Objects : Tombstone(o)' /\ Kept(o)' /\ Final(o)'
  BY TombstoneStep, KeptStep, FinalStep
<1>4. \A k \in Cleaners : Swept(k)'
  BY SweptStep
<1> QED
  BY <1>1, <1>2, <1>3, <1>4 DEF Inv, Objects

\* No counter leaves the range its CHECK constraint allows, and a lease or a
\* claim of a cleaner never outlives the token it belongs to.
THEOREM TypeCorrect == Spec => []TypeOK
<1>1. Inv => TypeOK
  BY DEF Inv
<1> QED
  BY Initially, InvariantStep, <1>1, PTL DEF Spec

\* A report is published once, by its last attempt, however workers lapse, race
\* and are replaced.
THEOREM PublicationCorrect == Spec => []PublishedByLastAttempt
<1>1. Inv => PublishedByLastAttempt
  BY DEF Inv, Attempted, PublishedByLastAttempt
<1> QED
  BY Initially, InvariantStep, <1>1, PTL DEF Spec

\* What an owner can download is in Storage, and none of any number of cleaners
\* is on its way to delete it.
THEOREM ReadyCorrect == Spec => []ReadyIsSafe
<1>1. Inv => ReadyIsSafe
  BY DEF Inv, Kept, Swept, ReadyIsSafe
<1> QED
  BY Initially, InvariantStep, <1>1, PTL DEF Spec

\* A tombstone that is not looked at again leaves nothing in Storage and nothing
\* on its way there.
THEOREM SweepCorrect == Spec => []SweptForGood
<1>1. Inv => SweptForGood
  BY DEF Inv, Final, Last, SweptForGood
<1> QED
  BY Initially, InvariantStep, <1>1, PTL DEF Spec

-----------------------------------------------------------------------------
(***************************************************************************)
(* What the owner was promised: every step is one of ReportDownload for    *)
(* each report, or leaves it alone.                                        *)
(***************************************************************************)
Promised(c) == [Download(c)!DNext]_(Download(c)!dvars)

Downloadable ==
  \A c \in Cases : Copy(c) = IF report[c] = "ready" /\ retained[c] THEN object[c] ELSE 0

\* A published report that is retained can be downloaded, and no other can.
LEMMA CopyIs == Inv => Downloadable
<1> SUFFICES ASSUME Inv, NEW c \in Cases, report[c] = "ready", retained[c]
             PROVE  Copy(c) = object[c]
  BY DEF Downloadable, Copy, Current
<1>1. object[c] \in 0..MaxAttempts /\ stored \subseteq Objects
  BY DEF Inv, TypeOK
<1>2. CASE object[c] = 0
  BY <1>2 DEF Copy
<1>3. CASE object[c] # 0
  <2>1. <<c, object[c]>> \in Objects /\ Current(<<c, object[c]>>)
    BY <1>1, <1>3, AttemptsAssumption DEF Objects, Attempts, Current
  <2>2. <<c, object[c]>> \in stored
    BY <2>1 DEF Inv, Kept
  <2> QED
    BY <2>1, <2>2 DEF Copy
<1> QED
  BY <1>2, <1>3

\* The same of the state a step leads to.
LEMMA CopyBecomes == Inv' => Downloadable'
BY CopyIs, PTL

\* Failing the attempts of a set of reports stops whatever runs for them.
LEMMA FailedIsStopped ==
  ASSUME RowType, NEW S \in SUBSET Cases, NEW c \in Cases, Attempted(c), report[c] # "removed"
  PROVE  WithFailedAttempts(S)[c] = IF c \in S THEN Download(c)!Stopped ELSE processing[c]
<1> DEFINE after == WithFailedAttempts(S)[c]
           before == processing[c]
<1>1. /\ before \in [Attempts -> {"none", "running", "succeeded", "failed"}]
      /\ after \in [Attempts -> {"none", "running", "succeeded", "failed"}]
  BY ReleasedType DEF RowType, ProcessingType
<1>2. \A n \in Attempts : after[n] = IF c \in S /\ before[n] = "running" THEN "failed" ELSE before[n]
  BY DEF WithFailedAttempts, Attempted
<1>3. Download(c)!Stopped = [n \in Attempts |-> IF before[n] = "running" THEN "failed" ELSE before[n]]
  BY DEF Download!Stopped, Download!Attempts, Attempts
<1> HIDE DEF after, before
<1>4. CASE c \in S
  <2>1. after = [n \in Attempts |-> IF before[n] = "running" THEN "failed" ELSE before[n]]
    BY <1>1, <1>2, <1>4
  <2> QED
    BY <1>3, <1>4, <2>1 DEF after
<1>5. CASE c \notin S
  <2>1. after = before
    BY <1>1, <1>2, <1>5
  <2> QED
    BY <1>5, <2>1 DEF after, before
<1> QED
  BY <1>4, <1>5

\* An attempt that fails while it holds the fence is all that runs.
LEMMA FailedAlone ==
  ASSUME RowType, NEW c \in Cases, Attempted(c), NEW n \in Attempts,
         report[c] = "generating", fence[c] = n, processing' = [processing EXCEPT ![c][n] = "failed"]
  PROVE  processing'[c] = Download(c)!Stopped
<1>1. processing[c] \in [Attempts -> {"none", "running", "succeeded", "failed"}]
  BY DEF RowType, ProcessingType
<1>2. processing'[c] = [processing[c] EXCEPT ![n] = "failed"]
  BY DEF RowType, ProcessingType
<1>3. \A m \in Attempts : processing[c][m] = "running" <=> m = n
  BY DEF Attempted
<1>4. processing'[c] = [m \in Attempts |-> IF processing[c][m] = "running" THEN "failed" ELSE processing[c][m]]
  BY <1>1, <1>2, <1>3
<1> QED
  BY <1>4 DEF Download!Stopped, Download!Attempts, Attempts

\* A step that leaves the rows of a report alone, but for a lease that is
\* extended or only ages.
LEMMA Unaffected ==
  ASSUME Inv, Inv', NEW c \in Cases,
         report'[c] = report[c], object'[c] = object[c], retained'[c] = retained[c],
         attempts'[c] = attempts[c], processing'[c] = processing[c],
         (lease[c] > 0) = (lease'[c] > 0)
  PROVE  Promised(c)
<1>1. Copy(c)' = Copy(c)
  BY CopyIs, CopyBecomes DEF Downloadable
<1> QED
  BY <1>1 DEF Promised, Download!dvars

\* Every step keeps the promise of every report.
LEMMA PromisedStep ==
  ASSUME Inv, Inv', [Next]_vars, NEW q \in Cases PROVE Promised(q)
<1>0. RowType /\ Attempted(q)
  BY Types DEF Inv
<1> DEFINE shown == IF report[q] = "ready" /\ retained[q] THEN object[q] ELSE 0
<1>00. /\ Copy(q) = shown
       /\ Copy(q)' = IF report'[q] = "ready" /\ retained'[q] THEN object'[q] ELSE 0
  BY CopyIs, CopyBecomes DEF Downloadable
<1>1. ASSUME NEW c \in Cases, Enqueue(c) PROVE Promised(q)
  <2>1. /\ UNCHANGED <<object, retained, attempts, lease, processing>>
        /\ report[c] = "absent" /\ retained[c] /\ report' = [report EXCEPT ![c] = "generating"]
    BY <1>1 DEF Enqueue
  <2>2. CASE q = c
    <3>1. report'[q] = "generating" /\ Copy(q)' = Copy(q)
      BY <1>0, <1>00, <2>1, <2>2 DEF RowType
    <3>2. Download(q)!Enqueue
      BY <2>1, <2>2, <3>1 DEF Download!Enqueue
    <3> QED
      BY <3>2 DEF Promised, Download!DNext
  <2>3. CASE q # c
    BY <1>0, <2>1, <2>3, Unaffected DEF RowType
  <2> QED
    BY <2>2, <2>3
<1>2. ASSUME NEW seen \in SUBSET Cases, Claim(seen) PROVE Promised(q)
  <2> DEFINE settled == {c \in Cases : Forgotten(c) \/ Spent(c)}
  <2>1. /\ report' = [c \in Cases |-> IF c \in settled THEN "failed" ELSE report[c]]
        /\ UNCHANGED <<object, retained>>
    BY <1>2 DEF Claim
  <2>2. ASSUME q \in settled, NEW S \in SUBSET Cases, q \in S, processing'[q] = WithFailedAttempts(S)[q],
               attempts'[q] = attempts[q], lease'[q] = 0
        PROVE  Promised(q)
    <3>1. report[q] = "generating" /\ (attempts[q] = MaxAttempts \/ ~retained[q])
      BY <1>0, <2>2, AttemptsAssumption DEF Forgotten, Spent, RowType
    <3>2. processing'[q] = Download(q)!Stopped
      BY <1>0, <2>2, <3>1, FailedIsStopped
    <3>3. report'[q] = "failed" /\ Copy(q)' = Copy(q) /\ ~(lease'[q] > 0)
      BY <1>00, <2>1, <2>2, <3>1
    <3>4. Download(q)!GiveUp
      BY <2>1, <2>2, <3>1, <3>2, <3>3 DEF Download!GiveUp
    <3> QED
      BY <3>4 DEF Promised, Download!DNext
  <2>3. ASSUME q \notin settled, NEW S \in SUBSET Cases, q \notin S, processing'[q] = WithFailedAttempts(S)[q],
               attempts'[q] = attempts[q], lease'[q] = lease[q]
        PROVE  Promised(q)
    <3>1. processing'[q] = processing[q]
      BY <1>0, <2>3 DEF WithFailedAttempts, RowType, ProcessingType
    <3>2. report'[q] = report[q]
      BY <2>1, <2>3
    <3> QED
      BY <2>1, <2>3, <3>1, <3>2, Unaffected
  <2>4. CASE Release(settled) /\ processing' = WithFailedAttempts(settled) /\ UNCHANGED attempts
    <3>1. lease'[q] = IF q \in settled THEN 0 ELSE lease[q]
      BY <2>4 DEF Release
    <3>2. settled \in SUBSET Cases
      OBVIOUS
    <3> HIDE DEF settled
    <3> QED
      BY <2>2, <2>3, <2>4, <3>1, <3>2
  <2>5. ASSUME NEW c \in {d \in seen : Candidate(d)},
               attempts' = [attempts EXCEPT ![c] = attempts[c] + 1],
               lease' = [d \in Cases |-> IF d = c THEN LeaseTerm
                                         ELSE IF d \in settled THEN 0 ELSE lease[d]],
               processing' = [WithFailedAttempts(settled \cup {c}) EXCEPT ![c][attempts[c] + 1] = "running"]
        PROVE  Promised(q)
    <3>1. /\ c \in Cases /\ c \notin settled /\ settled \cup {c} \in SUBSET Cases
          /\ report[c] = "generating" /\ retained[c] /\ attempts[c] < MaxAttempts /\ ~(lease[c] > 0)
      BY <1>0, <2>5, AttemptsAssumption DEF Candidate, Forgotten, Spent, RowType
    <3> DEFINE S == settled \cup {c}
    <3>2. /\ processing'[c] = [WithFailedAttempts(S)[c] EXCEPT ![attempts[c] + 1] = "running"]
          /\ q # c => processing'[q] = WithFailedAttempts(S)[q]
      BY <2>5, <3>1 DEF WithFailedAttempts
    <3>3. CASE q = c
      <4>1. processing'[q] = [Download(q)!Stopped EXCEPT ![attempts[q] + 1] = "running"]
        BY <1>0, <3>1, <3>2, <3>3, FailedIsStopped
      <4>2. /\ report'[q] = report[q] /\ attempts'[q] = attempts[q] + 1 /\ lease'[q] > 0
            /\ Copy(q)' = Copy(q)
        BY <1>0, <1>00, <2>1, <2>5, <3>1, <3>3, LeaseAssumption DEF RowType
      <4>3. Download(q)!Begin
        BY <2>1, <3>1, <3>3, <4>1, <4>2 DEF Download!Begin
      <4> QED
        BY <4>3 DEF Promised, Download!DNext
    <3>4. CASE q # c
      <4>1. /\ attempts'[q] = attempts[q]
            /\ lease'[q] = IF q \in settled THEN 0 ELSE lease[q]
            /\ q \in S <=> q \in settled
        BY <1>0, <2>5, <3>1, <3>4 DEF RowType
      <4> HIDE DEF settled, S
      <4>2. S \in SUBSET Cases
        BY <3>1 DEF S
      <4> QED
        BY <2>2, <2>3, <3>2, <3>4, <4>1, <4>2
    <3> QED
      BY <3>3, <3>4
  <2> QED
    BY <1>2, <2>4, <2>5 DEF Claim
<1>3. ASSUME NEW c \in Cases, NEW n \in Attempts, Heartbeat(c, n) PROVE Promised(q)
  <2>1. /\ UNCHANGED <<report, object, retained, attempts, processing>>
        /\ lease[c] > 0 /\ lease' = [lease EXCEPT ![c] = LeaseTerm]
    BY <1>3 DEF Heartbeat, Fenced
  <2>2. (lease[q] > 0) = (lease'[q] > 0)
    BY <1>0, <2>1, LeaseAssumption DEF RowType
  <2> QED
    BY <2>1, <2>2, Unaffected
<1>4. ASSUME NEW c \in Cases, NEW n \in Attempts, Complete(c, n) PROVE Promised(q)
  <2>1. /\ report[c] = "generating" /\ retained[c] /\ fence[c] = n /\ lease[c] > 0
        /\ processing[c][n] = "running" /\ processing' = [processing EXCEPT ![c][n] = "succeeded"]
        /\ report' = [report EXCEPT ![c] = "ready"] /\ object' = [object EXCEPT ![c] = n]
        /\ Release({c}) /\ UNCHANGED <<retained, attempts>>
    BY <1>4 DEF Complete, Fenced
  <2>2. CASE q = c
    <3>1. n = attempts[q]
      BY <1>0, <2>1, <2>2 DEF Attempted, Attempts
    <3>2. processing'[q] = [processing[q] EXCEPT ![attempts[q]] = "succeeded"]
      BY <1>0, <2>1, <2>2, <3>1 DEF RowType, ProcessingType
    <3>3. report'[q] = "ready" /\ object'[q] = attempts[q] /\ lease'[q] = 0
      BY <1>0, <2>1, <2>2, <3>1 DEF Release, RowType
    <3>4. Copy(q)' = attempts[q]
      BY <1>00, <2>1, <2>2, <3>3
    <3>5. Download(q)!Publish
      BY <2>1, <2>2, <3>1, <3>2, <3>3, <3>4 DEF Download!Publish
    <3> QED
      BY <3>5 DEF Promised, Download!DNext
  <2>3. CASE q # c
    <3>1. /\ report'[q] = report[q] /\ object'[q] = object[q] /\ processing'[q] = processing[q]
          /\ lease'[q] = lease[q]
      BY <1>0, <2>1, <2>3 DEF Release, RowType, ProcessingType
    <3> QED
      BY <2>1, <3>1, Unaffected
  <2> QED
    BY <2>2, <2>3
<1>5. ASSUME NEW c \in Cases, NEW n \in Attempts, Fail(c, n) PROVE Promised(q)
  <2>1. /\ report[c] = "generating" /\ fence[c] = n
        /\ processing' = [processing EXCEPT ![c][n] = "failed"]
        /\ report' = [report EXCEPT ![c] = IF attempts[c] >= MaxAttempts THEN "failed" ELSE "generating"]
        /\ Release({c}) /\ UNCHANGED <<object, retained, attempts>>
    BY <1>5 DEF Fail, Fenced
  <2>2. CASE q = c
    <3>1. processing'[q] = Download(q)!Stopped
      BY <1>0, <2>1, <2>2, FailedAlone
    <3>2. lease'[q] = 0 /\ report'[q] = IF attempts[q] >= MaxAttempts THEN "failed" ELSE "generating"
      BY <1>0, <2>1, <2>2 DEF Release, RowType
    <3>3. Copy(q)' = Copy(q)
      BY <1>00, <2>1, <2>2, <3>2
    <3>4. CASE attempts[q] >= MaxAttempts
      <4>1. attempts[q] = MaxAttempts /\ report'[q] = "failed"
        BY <1>0, <3>2, <3>4, AttemptsAssumption DEF RowType
      <4>2. Download(q)!GiveUp
        BY <2>1, <2>2, <3>1, <3>2, <3>3, <4>1 DEF Download!GiveUp
      <4> QED
        BY <4>2 DEF Promised, Download!DNext
    <3>5. CASE ~(attempts[q] >= MaxAttempts)
      <4>1. Download(q)!Stop
        BY <2>1, <2>2, <3>1, <3>2, <3>3, <3>5 DEF Download!Stop
      <4> QED
        BY <4>1 DEF Promised, Download!DNext
    <3> QED
      BY <3>4, <3>5
  <2>3. CASE q # c
    <3>1. report'[q] = report[q] /\ processing'[q] = processing[q] /\ lease'[q] = lease[q]
      BY <1>0, <2>1, <2>3 DEF Release, RowType, ProcessingType
    <3> QED
      BY <2>1, <3>1, Unaffected
  <2> QED
    BY <2>2, <2>3
<1>6. ASSUME NEW k \in Cleaners, NEW o \in Objects, ClaimCleanup(k, o) PROVE Promised(q)
  <2> DEFINE S == {c \in {o[1]} : report[c] # "removed" /\ fence[c] = o[2] /\ lease[c] = 0}
  <2>1. /\ processing' = WithFailedAttempts(S) /\ Release(S) /\ S \in SUBSET Cases
        /\ UNCHANGED <<report, object, retained, attempts>>
    BY <1>6 DEF ClaimCleanup, Objects
  <2>2. CASE q \in S
    <3>1. report[q] = "generating"
      BY <1>0, <2>2 DEF Attempted, Objects, Attempts
    <3>2. processing'[q] = Download(q)!Stopped /\ lease'[q] = 0
      BY <1>0, <2>1, <2>2, <3>1, FailedIsStopped DEF Release
    <3>3. Copy(q)' = Copy(q)
      BY <1>00, <2>1
    <3>4. Download(q)!Stop
      BY <2>1, <3>1, <3>2, <3>3 DEF Download!Stop
    <3> QED
      BY <3>4 DEF Promised, Download!DNext
  <2>3. CASE q \notin S
    <3> HIDE DEF S
    <3>1. processing'[q] = processing[q] /\ lease'[q] = lease[q]
      BY <1>0, <2>1, <2>3 DEF WithFailedAttempts, Release, RowType, ProcessingType
    <3> QED
      BY <2>1, <3>1, Unaffected
  <2> QED
    BY <2>2, <2>3
<1>7. ASSUME NEW c \in Cases, AgeLease(c) PROVE Promised(q)
  <2>1. /\ UNCHANGED <<report, object, retained, attempts, processing>>
        /\ lease[c] > 0 /\ lease' = [lease EXCEPT ![c] = lease[c] - 1]
    BY <1>7 DEF AgeLease
  <2>2. CASE (lease[q] > 0) = (lease'[q] > 0)
    BY <2>1, <2>2, Unaffected
  <2>3. CASE ~((lease[q] > 0) = (lease'[q] > 0))
    <3>1. lease[q] > 0 /\ ~(lease'[q] > 0)
      BY <1>0, <2>1, <2>3 DEF RowType
    <3>2. Download(q)!Lapse
      BY <1>00, <2>1, <3>1 DEF Download!Lapse
    <3> QED
      BY <3>2 DEF Promised, Download!DNext
  <2> QED
    BY <2>2, <2>3
<1>8. ASSUME NEW c \in Cases, EndRetention(c) PROVE Promised(q)
  <2>1. /\ retained[c] /\ retained' = [retained EXCEPT ![c] = FALSE]
        /\ UNCHANGED <<report, object, attempts, lease, processing>>
    BY <1>8 DEF EndRetention
  <2>2. CASE q = c
    <3>1. retained[q] /\ ~retained'[q] /\ Copy(q)' = 0
      BY <1>0, <1>00, <2>1, <2>2 DEF RowType
    <3>2. Download(q)!Expire
      BY <2>1, <3>1 DEF Download!Expire
    <3> QED
      BY <3>2 DEF Promised, Download!DNext
  <2>3. CASE q # c
    BY <1>0, <2>1, <2>3, Unaffected DEF RowType
  <2> QED
    BY <2>2, <2>3
<1>9. ASSUME NEW c \in Cases, RemoveCase(c) PROVE Promised(q)
  <2>1. /\ report[c] \notin {"absent", "removed"} /\ report' = [report EXCEPT ![c] = "removed"]
        /\ object' = [object EXCEPT ![c] = 0] /\ Release({c})
        /\ UNCHANGED <<retained, attempts, processing>>
    BY <1>9 DEF RemoveCase
  <2>2. CASE q = c
    <3>1. report'[q] = "removed" /\ lease'[q] = 0
      BY <1>0, <2>1, <2>2 DEF Release, RowType
    <3>2. Copy(q)' = 0
      BY <1>00, <3>1
    <3>3. Download(q)!Remove
      BY <2>1, <2>2, <3>1, <3>2 DEF Download!Remove
    <3> QED
      BY <3>3 DEF Promised, Download!DNext
  <2>3. CASE q # c
    <3>1. report'[q] = report[q] /\ object'[q] = object[q] /\ lease'[q] = lease[q]
      BY <1>0, <2>1, <2>3 DEF Release, RowType
    <3> QED
      BY <2>1, <3>1, Unaffected
  <2> QED
    BY <2>2, <2>3
<1>10. CASE UNCHANGED dbVars
  BY <1>10, Unaffected DEF dbVars
<1> QED
  BY <1>1, <1>2, <1>3, <1>4, <1>5, <1>6, <1>7, <1>8, <1>9, <1>10, RowsStay DEF Next

\* Every report keeps what ReportDownload promises: it is published once, by a
\* worker that was not replaced while its lease lived, fails only when it may, and
\* can be downloaded until its retention ends, however many workers and cleaners
\* lapse, race and are replaced.
THEOREM DownloadsImplemented == Spec => ImplementsDownloads
<1>1. Init => \A c \in Cases : Download(c)!DInit
  <2> SUFFICES ASSUME Init, NEW c \in Cases PROVE Download(c)!DInit
    OBVIOUS
  <2>1. Copy(c) = 0
    BY DEF Init, Copy, Current
  <2> QED
    BY <2>1 DEF Init, Download!DInit, Download!Attempts, Attempts
<1>2. Inv /\ Inv' /\ [Next]_vars => [\A c \in Cases : [Download(c)!DNext]_(Download(c)!dvars)]_vars
  BY PromisedStep DEF Promised
<1> QED
  BY Initially, InvariantStep, <1>1, <1>2, PTL DEF Spec, ImplementsDownloads
=============================================================================
