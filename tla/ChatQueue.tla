------------------------------ MODULE ChatQueue ------------------------------
(***************************************************************************)
(* The life of an assistant turn of a result chat: the row of              *)
(* result.conversation_message that is shown to the owner, its dispatch    *)
(* row, and the rows of ops.processing_run that record its attempts.       *)
(*                                                                         *)
(* As in AnalysisQueue a function is one transaction and one step, any     *)
(* token ever issued may be presented at any time, and deadlines pass at   *)
(* any moment.  The replay of a message or of a retry under a known        *)
(* Idempotency-Key writes nothing and is left out.                         *)
(***************************************************************************)
EXTENDS Naturals, FiniteSets

CONSTANTS
  Messages,    \* the (session, Idempotency-Key) pairs: each names one turn
  Sessions,    \* the result sessions; each belongs to one analysis case
  Session,     \* the session of each turn
  QueueLimit,  \* prereview.global_queue_max
  LeaseTerm    \* the lease a claim or a heartbeat grants, in ticks

ASSUME MessagesAssumption == IsFiniteSet(Messages)
ASSUME SessionAssumption  == Session \in [Messages -> Sessions]
ASSUME LimitAssumption    == QueueLimit \in Nat \ {0}
ASSUME LeaseAssumption    == LeaseTerm \in Nat \ {0}

VARIABLES
  status,      \* conversation_message.status of the assistant's row
  auto,        \* auto_retry_count
  manual,      \* manual_retry_count
  cooling,     \* last_retry_at lies within the last five seconds
  attempts,    \* dispatch.attempt_count
  fence,       \* dispatch.processing_run_pk, by number of the attempt; 0 is NULL
  lease,       \* ticks until dispatch.lease_expires_at; 0 is lapsed or NULL
  started,     \* how many attempts were ever started
  processing,  \* processing_run.status of each attempt
  live,        \* the session is active and before its deadline
  retained,    \* analysis_case.retention_expires_at > now
  runLoad      \* analysis runs counted by the admission gate

turnVars == <<status, auto, manual, cooling>>
jobVars  == <<attempts, fence, lease, started, processing>>
caseVars == <<live, retained>>
vars     == <<turnVars, jobVars, caseVars, runLoad>>

MaxAttempts   == 2  \* attempts between two resets of attempt_count
AutoRetries   == 1
ManualRetries == 2
\* The attempts one turn can ever need; WorkBudget says why no more are started.
Attempts == 1..(MaxAttempts * (1 + AutoRetries + ManualRetries))

\* Retries stay within their budgets, and no turn starts more attempts than its
\* budgets allow together.
TypeOK ==
  /\ status     \in [Messages -> {"absent", "generating", "completed", "failed"}]
  /\ auto       \in [Messages -> 0..AutoRetries]
  /\ manual     \in [Messages -> 0..ManualRetries]
  /\ cooling    \in [Messages -> BOOLEAN]
  /\ attempts   \in [Messages -> 0..MaxAttempts]
  /\ fence      \in [Messages -> Attempts \cup {0}]
  /\ lease      \in [Messages -> 0..LeaseTerm]
  /\ started    \in [Messages -> Attempts \cup {0}]
  /\ processing \in [Messages -> [Attempts -> {"none", "running", "succeeded", "failed"}]]
  /\ live       \in [Sessions -> BOOLEAN]
  /\ retained   \in [Sessions -> BOOLEAN]
  /\ runLoad    \in 0..QueueLimit

Init ==
  /\ status     = [m \in Messages |-> "absent"]
  /\ auto       = [m \in Messages |-> 0]
  /\ manual     = [m \in Messages |-> 0]
  /\ cooling    = [m \in Messages |-> FALSE]
  /\ attempts   = [m \in Messages |-> 0]
  /\ fence      = [m \in Messages |-> 0]
  /\ lease      = [m \in Messages |-> 0]
  /\ started    = [m \in Messages |-> 0]
  /\ processing = [m \in Messages |-> [n \in Attempts |-> "none"]]
  /\ live       = [s \in Sessions |-> TRUE]
  /\ retained   = [s \in Sessions |-> TRUE]
  /\ runLoad    = 0

-----------------------------------------------------------------------------
(***************************************************************************)
(* Slips that the properties below must catch; no part of Spec.            *)
(***************************************************************************)

\* Spent that never gives up.
SpentNever(m) == FALSE

\* Retryable without the manual budget.
RetryableForever(m) == status[m] = "failed" /\ ~cooling[m]

\* Retryable for answered turns, too.
RetryableAnswer(m) ==
  status[m] \in {"failed", "completed"} /\ manual[m] < ManualRetries /\ ~cooling[m]

\* RequeueAutomatically that does not count.
RequeueUncounted(m) == UNCHANGED <<status, auto, manual, cooling>>

\* WithFailedAttempts that leaves an abandoned attempt live.
WithAttemptsLeftLive(S) == processing

-----------------------------------------------------------------------------
Turns(s) == {m \in Messages : Session[m] = s}

\* Turns that hold a slot of the global queue.
Occupying == {m \in Messages : status[m] = "generating" /\ retained[Session[m]]}

\* Admits off by one.
AdmitsOneMore == Cardinality(Occupying) + runLoad <= QueueLimit

\* admit_global_queue_work_v2 does not raise.
Admits == Cardinality(Occupying) + runLoad < QueueLimit

\* The token names the live attempt of a turn that is being generated.
Fenced(m, n) == status[m] = "generating" /\ fence[m] = n /\ lease[m] > 0

\* The second lease has lapsed.
Spent(m) == /\ status[m] = "generating"
            /\ attempts[m] >= MaxAttempts
            /\ fence[m] # 0 /\ lease[m] = 0

\* The case is past its retention; session state does not matter.
Forgotten(m) == status[m] = "generating" /\ ~retained[Session[m]]

Candidate(m) ==
  /\ status[m] = "generating"
  /\ attempts[m] < MaxAttempts
  /\ retained[Session[m]]
  /\ fence[m] = 0 \/ lease[m] = 0

\* The checks on the message itself before a manual retry is admitted; the
\* message must also not be held under a live lease.
Retryable(m) == status[m] = "failed" /\ manual[m] < ManualRetries /\ ~cooling[m]

\* The first failure of a turn is retried without the owner.
RequeueAutomatically(m) ==
  auto' = [auto EXCEPT ![m] = @ + 1] /\ UNCHANGED <<status, manual, cooling>>

\* The dispatch rows of S give up their lease.
Release(S) ==
  /\ fence' = [m \in Messages |-> IF m \in S THEN 0 ELSE fence[m]]
  /\ lease' = [m \in Messages |-> IF m \in S THEN 0 ELSE lease[m]]

\* The attempts that hold the fence of a turn in S, if live, become failed.
WithFailedAttempts(S) ==
  [m \in Messages |-> [n \in Attempts |->
     IF m \in S /\ fence[m] = n /\ processing[m][n] = "running"
     THEN "failed" ELSE processing[m][n]]]

-----------------------------------------------------------------------------
\* prepare_conversation_messages_v2 for a new key: a question is accepted while
\* the session is live and none of its turns is being generated.
Prepare(m) ==
  /\ status[m] = "absent"
  /\ live[Session[m]] /\ retained[Session[m]]
  /\ \A q \in Turns(Session[m]) : status[q] # "generating"
  /\ Admits
  /\ status' = [status EXCEPT ![m] = "generating"]
  /\ UNCHANGED <<auto, manual, cooling, jobVars, caseVars, runLoad>>

\* retry_conversation_message_v2 for a new key, with the legacy routine it ends
\* in: the owner asks for a failed answer again.
Retry(m) ==
  /\ live[Session[m]] /\ retained[Session[m]]
  /\ Retryable(m)
  /\ fence[m] = 0 \/ lease[m] = 0
  /\ Admits
  /\ status'  = [status EXCEPT ![m] = "generating"]
  /\ manual'  = [manual EXCEPT ![m] = @ + 1]
  /\ cooling' = [cooling EXCEPT ![m] = TRUE]
  /\ attempts' = [attempts EXCEPT ![m] = 0]
  /\ Release({m})
  /\ processing' = WithFailedAttempts({m})
  /\ UNCHANGED <<auto, started, caseVars, runLoad>>

\* claim_next_conversation_message_v2: every overdue turn is settled, then the
\* oldest candidate that is not hidden by SKIP LOCKED is taken, if any.
Claim(seen) ==
  LET settled == {m \in Messages : Forgotten(m) \/ Spent(m)}
      taken   == {m \in seen : Candidate(m)}
  IN  /\ status' = [m \in Messages |-> IF m \in settled THEN "failed" ELSE status[m]]
      /\ UNCHANGED <<auto, manual, cooling, caseVars, runLoad>>
      /\ \/ /\ taken = {}
            /\ Release(settled)
            /\ processing' = WithFailedAttempts(settled)
            /\ UNCHANGED <<attempts, started>>
         \/ \E m \in taken :
              LET n == started[m] + 1
              IN  /\ attempts' = [attempts EXCEPT ![m] = @ + 1]
                  /\ started'  = [started EXCEPT ![m] = n]
                  /\ fence' = [q \in Messages |-> IF q = m THEN n
                                                  ELSE IF q \in settled THEN 0 ELSE fence[q]]
                  /\ lease' = [q \in Messages |-> IF q = m THEN LeaseTerm
                                                  ELSE IF q \in settled THEN 0 ELSE lease[q]]
                  /\ processing' =
                       [WithFailedAttempts(settled \cup {m}) EXCEPT ![m][n] = "running"]

\* heartbeat_conversation_message_v2.
Heartbeat(m, n) ==
  /\ Fenced(m, n) /\ retained[Session[m]]
  /\ lease' = [lease EXCEPT ![m] = LeaseTerm]
  /\ UNCHANGED <<turnVars, attempts, fence, started, processing, caseVars, runLoad>>

\* complete_conversation_message_v2: the session need not be live any more.
Complete(m, n) ==
  /\ Fenced(m, n) /\ retained[Session[m]]
  /\ processing[m][n] = "running"
  /\ processing' = [processing EXCEPT ![m][n] = "succeeded"]
  /\ status' = [status EXCEPT ![m] = "completed"]
  /\ Release({m})
  /\ UNCHANGED <<auto, manual, cooling, attempts, started, caseVars, runLoad>>

\* fail_conversation_message_v2: retention is not looked at, and the attempt
\* count starts again whether the turn is requeued or has failed for good.
Fail(m, n) ==
  /\ Fenced(m, n)
  /\ processing[m][n] = "running"
  /\ processing' = [processing EXCEPT ![m][n] = "failed"]
  /\ \/ auto[m] < AutoRetries /\ RequeueAutomatically(m)
     \/ /\ auto[m] >= AutoRetries
        /\ status' = [status EXCEPT ![m] = "failed"]
        /\ UNCHANGED <<auto, manual, cooling>>
  /\ attempts' = [attempts EXCEPT ![m] = 0]
  /\ Release({m})
  /\ UNCHANGED <<started, caseVars, runLoad>>

-----------------------------------------------------------------------------
\* The session is closed or passes its deadline; it never becomes active again.
EndSession(s) ==
  /\ live[s]
  /\ live' = [live EXCEPT ![s] = FALSE]
  /\ UNCHANGED <<turnVars, jobVars, retained, runLoad>>

\* The case passes its retention.
EndRetention(s) ==
  /\ retained[s]
  /\ retained' = [retained EXCEPT ![s] = FALSE]
  /\ UNCHANGED <<turnVars, jobVars, live, runLoad>>

CoolDown(m) ==
  /\ cooling[m]
  /\ cooling' = [cooling EXCEPT ![m] = FALSE]
  /\ UNCHANGED <<status, auto, manual, jobVars, caseVars, runLoad>>

AgeLease(m) ==
  /\ lease[m] > 0
  /\ lease' = [lease EXCEPT ![m] = @ - 1]
  /\ UNCHANGED <<turnVars, attempts, fence, started, processing, caseVars, runLoad>>

\* An analysis run passes the same gate, or gives its slot back.
RunAdmit ==
  /\ Admits
  /\ runLoad' = runLoad + 1
  /\ UNCHANGED <<turnVars, jobVars, caseVars>>

RunDone ==
  /\ runLoad > 0
  /\ runLoad' = runLoad - 1
  /\ UNCHANGED <<turnVars, jobVars, caseVars>>

Next ==
  \/ \E m \in Messages :
       \/ Prepare(m) \/ Retry(m) \/ CoolDown(m) \/ AgeLease(m)
       \/ \E n \in Attempts : Heartbeat(m, n) \/ Complete(m, n) \/ Fail(m, n)
  \/ \E seen \in SUBSET Messages : Claim(seen)
  \/ \E s \in Sessions : EndSession(s) \/ EndRetention(s)
  \/ RunAdmit \/ RunDone

Spec == Init /\ [][Next]_vars

\* A worker keeps polling, the clock moves, and the holder of a live token ends
\* its attempt (WorkerRuntime.run_once).  Owners and analysis runs owe nothing.
Fairness ==
  /\ WF_vars(Claim(Messages))
  /\ \A m \in Messages :
       /\ WF_vars(AgeLease(m))
       /\ \A n \in Attempts : WF_vars(Fail(m, n) \/ Complete(m, n))

FairSpec == Spec /\ Fairness

-----------------------------------------------------------------------------
\* At most one attempt of a turn is live, the one its dispatch row names and
\* the last one started; a turn that is over has none and holds no lease.  Calls
\* are atomic here: ChatTransactions shows what their statements may leave.
OneLiveAttempt ==
  \A m \in Messages :
    /\ \A n \in Attempts : processing[m][n] = "running" <=> fence[m] = n
    /\ fence[m] # 0 => fence[m] = started[m] /\ status[m] = "generating"
    /\ fence[m] = 0 => lease[m] = 0

\* An answer is stored at most once, by the last attempt of its turn.
AnsweredByLastAttempt ==
  \A m \in Messages, n \in Attempts :
    processing[m][n] = "succeeded" <=> status[m] = "completed" /\ n = started[m]

\* However leases lapse and attempts fail, every retry buys at most two more
\* attempts: the calls to the language model for one turn are bounded.
WorkBudget ==
  \A m \in Messages :
    /\ started[m] <= MaxAttempts * (1 + auto[m] + manual[m])
    /\ status[m] = "generating" =>
         started[m] <= MaxAttempts * (auto[m] + manual[m]) + attempts[m]

\* Retries, requeues and expiries never exceed the shared limit of the queue.
AdmissionBound == Cardinality(Occupying) + runLoad <= QueueLimit

Turn(m) == INSTANCE ConversationTurn WITH
             status <- status[m], started <- started[m], processing <- processing[m],
             open <- live[Session[m]] /\ retained[Session[m]],
             expired <- ~retained[Session[m]]

\* Every turn keeps what its owner was promised: an answer is final, a turn begins
\* again only for an owner whose session is live, one attempt follows another and
\* a finished one is never rewritten.
ImplementsTurns ==
  /\ \A m \in Messages : Turn(m)!TInit
  /\ [][\A m \in Messages : [Turn(m)!TNext]_(Turn(m)!tvars)]_vars

\* Every turn that is being generated is answered or fails.
TurnsEnd ==
  \A m \in Messages : status[m] = "generating" ~> status[m] \in {"completed", "failed"}

\* Migration 36 states that a session has at most one generating turn.
OneTurnPerSession ==
  \A s \in Sessions : Cardinality({m \in Turns(s) : status[m] = "generating"}) <= 1
==============================================================================
