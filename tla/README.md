# A TLA+ model of the Pre-Review service

The repository is a service in which a planner uploads the draft of a support
programme, gets it compared with existing programmes by an asynchronous
analysis, reviews the result for half an hour, chats about it and downloads a
report. Paths below are relative to the repository; `NN_*.sql` is
`backend/supabase/migrations/NN_*.sql`, and 37:499 a line of it.

## 1. Inventory

```
 browser -- HTTP --> FastAPI (backend/app) -- SQL functions --> PostgreSQL
                       |                                           ^
                       +---- source object ---> Storage            | claim, heartbeat,
                                                  ^                | complete, fail
                       analysis / chat / PDF workers (backend/worker)

 importer, direct SQL, embedding and classification backfills --> knowledge base
```

PostgreSQL functions are the state machine of the system. FastAPI and the
workers call one function per transaction; nothing is pushed to a worker, each
polls. The later migrations redefine earlier functions, so the behaviour is that
of the last definition (33 to 41, with 21 to 27 as delegates).

| Component | State | Operations | What is hard | What makes it correct |
|---|---|---|---|---|
| Analysis run queue (21, 33, 34, 37, 39) | `analysis_run`, its dispatch row (attempt count, fencing token, lease), `processing_run` attempts | reserve, replay, finalize, cleanup, claim, heartbeat, fail, complete, reconcile | stale tokens, leases that lapse, deadlines that pass between two calls, a retry under an old deadline | one live attempt, one publication, terminal states final, every run ends |
| Result sessions (33, 34) | `analysis_session` | opened by complete, closed by the owner, expired by whoever looks | expiry is only noticed lazily, by several functions | one run in progress or one review, never both |
| Chat turn queue (27, 36, 37) | `conversation_message`, dispatch row, two retry counters | prepare, retry, claim, heartbeat, complete, fail | attempt count reset by every failure, session and retention ending under a running turn, statements of two calls mixing | one live attempt, one answer, bounded work, every turn ends |
| Global queue admission (37, 39) | none of its own: it counts both queues | called by reserve, replay, finalize, prepare, retry | work that lapses leaves the count and may come back; callers beside the lock; old clocks | never above the limit, but for a bounded excess |
| Upload service (`app/services/analysis_runs.py` and its adapters) | the request's local state | create: reserve, clean up, put, finalize, compensate | two stores without a common transaction, ambiguous outcomes in both, duplicates | no registered source is deleted, no answer is untrue, no delete is forgotten |
| Worker runtime (`worker/runtime.py`) | heartbeat thread, `lease_lost`, stop flag | run_once, run_forever | commits whose reply is lost, errors of the heartbeat thread, a stop in mid-job | outcomes reported are true, no renewal after run_once, a stopped worker exits |
| Report PDF queue (41, `worker/reporting`) | third dispatch table, cleanup tombstones, objects | enqueue, claim, heartbeat, complete, fail, cleanup | an object written after its cleanup, cleaners that lapse, a case deleted under way | a ready report keeps its object, nothing else stays in Storage |
| Knowledge base (30 to 32, `scripts/*existing*`) | notices, profile versions, classifications, embeddings, two activation flags | import, direct edits, two backfills, promotion, invalidating triggers | minutes between reading and promotion, two advisory locks beside row locks | what is marked active covers the whole current corpus; no circle of waits |
| Row and advisory locks (all of the above) | lock queues of PostgreSQL | every function | lock orders that differ between functions | no wrong outcome from a victim, no circle where nothing retries |

Not modelled, with the reason, in section 6. What can go wrong, line by line, is
`hazards` in `PROJECT.json`; the properties were written from that list.

## 2. Modules

| Module | What it is |
|---|---|
| `AnalysisQueue` | runs, attempts and sessions; one action per SQL function |
| `UserWorkspace` | abstract: what one owner is promised to see |
| `UserWorkspaceRefinement` | the refinement mapping from `AnalysisQueue` |
| `ChatQueue` | chat turns, their attempts and retry budgets; one action per function |
| `ChatTransactions` | the same functions on one turn, statement by statement |
| `ConversationTurn` | abstract: what the owner of one question is promised; both of them implement it |
| `GlobalAdmission` | the admission gate with its lock, count and commit as separate steps |
| `UploadService` | `AnalysisRunService.create` over the database and Storage |
| `ReportPdf` | the report queue, its objects and their cleanup |
| `ReportDownload` | abstract: what the owner of one report is promised; `ReportPdf` implements it |
| `WorkerRuntime` | the main and the heartbeat thread of workers on one job |
| `KnowledgeBase` | four programs, two activation locks and the triggers between them |
| `AnalysisQueueProofs`, `ChatQueueProofs`, `ChatTransactionsProofs`, `UploadServiceProofs`, `ReportPdfProofs`, `GlobalAdmissionProofs`, `WorkerRuntimeProofs`, `KnowledgeBaseProofs` | theorems and their proofs |
| `MC...` | constants and symmetry for TLC, one beside each module that is run |

Most modules have a section of *slips*: definitions that are not part of the
specification and say what a definition would be with one condition forgotten.
For every property of a passing run, replacing the definition by its slip makes
TLC report the property (`mutants` in `PROJECT.json`).

The modules divide the system by the question asked. The queue modules take a
database function as one step, which is right for what a transaction publishes,
and let any token that was ever issued be presented at any time, which covers
every crash, restart, duplicate and late reply of a worker. `ChatTransactions`
and `GlobalAdmission` open the transactions where the code relies on more than
row locks. `WorkerRuntime` and `UploadService` open the callers.

### AnalysisQueue

State is keyed by run, that is by (owner, Idempotency-Key); the unique index of
33:24 makes the two the same. `status`/`fresh` are `analysis_run.status` and
`expires_at > now`; `attempts`/`fence`/`lease` are the dispatch row;
`processing` the status of each attempt's `processing_run`; `session`,
`sessionFresh` the session a published run opens. The fencing token of the code
is the UUID of a `processing_run`; here it is the number of the attempt.

| Action | Code |
|---|---|
| `Reserve`, `ReserveReplay` | `reserve_analysis_upload_v2` (37), with `reconcile_...` (33) inlined |
| `Finalize` | `finalize_analysis_upload_v2` (39) |
| `MarkCleanupPending`, `CompleteCleanup` | the two statements of `postgres_analysis_runs.py` |
| `Claim` | `claim_next_analysis_run_v2` (33), settling and taking in one step |
| `Heartbeat`, `Fail` | 21 |
| `Complete`, `CompleteFencedOut` | `persist_analysis_result_core_v2` (34 with 26 and 23) |
| `GetCurrent`, `CloseSession` | `rpc_get_analysis_current_v2`, `rpc_close_analysis_session_v2` (33) |
| `ChatAdmit`, `ChatDone` | the chat's share of the admission count |
| `ExpireRun`, `AgeLease`, `ExpireSession` | the database clock |

Deadlines are Booleans and leases count down; since each may pass at any moment,
no order of expiries is excluded by the lengths configured in the code. `SKIP
LOCKED` is the `seen` parameter of `Claim`: any set of rows may be hidden by
other transactions. For the same reason the order by `created_at` is left out. A
case is kept for 90 days and its session for 30 minutes, so the retention test of
`rpc_get_analysis_current_v2` never decides and is left out. A call that raises
changes nothing and has no action. The completion of an already succeeded run is
fenced out (its token was cleared), so the branch of 34 that protects a closed
session is in `Complete` but never taken.

### UserWorkspace

The answer of `rpc_get_analysis_current_v2` as a specification: an owner is idle,
waits for one analysis, or reviews one result; a review begins only from the
analysis that was waited for; nothing that is over comes back. The mapping
(`CurrentView`) is that function's query. One abstract step may stop the runs of
several owners, because one claim settles all overdue rows.

### ChatQueue

As above, with the message row (`status`, `auto`, `manual`, `cooling`) and the
dispatch row. `attempts` is `attempt_count`, which fail and retry reset to 0, so
`started` numbers the attempts instead. `live` and `retained` are the two
deadlines of the conversation. `runLoad` is the other queue's share of the
admission count. A replay under a known key writes nothing and is left out.

| Action | Code |
|---|---|
| `Prepare`, `Retry` | `prepare_conversation_messages_v2`, `retry_conversation_message_v2` (37) |
| `Claim`, `Heartbeat`, `Complete` | 36 |
| `Fail` | `fail_conversation_message_v1` (27) |
| `RunAdmit`, `RunDone` | the analysis queue's share of the admission count |
| `CoolDown`, `AgeLease`, `EndSession`, `EndRetention` | the database clock and the owner |

### ChatTransactions

One turn, several connections, PostgreSQL's READ COMMITTED: a call reads the
clock on entry (`age`), each statement reads what is committed when it begins
(`ReadStatement`), waits for the rows it changes one by one and looks at a row it
has waited for again (`StillMatches`), and its changes (`mine`) are committed
together. `db` holds the committed dispatch, message, case and `processing_run`
rows. A circle of waits ends with a victim (`Victim`), and any connection may be
lost (`Lose`). The functions do wait for each other in circles: a claim locks
`processing_run` before the message, complete locks dispatch, message, case and
then `processing_run`, a replay of a question (`Replay`) locks the case before the
message, and so does the owner's retry (`Reask`), which locks the dispatch row
last. None of the victims leaves anything half done, which is what the run shows.
Workers present any token issued so far.

`Reask` is `retry_conversation_message_v2` (37) with the legacy routine it ends in
(27). That the session is still live, and the five seconds between retries, are
left to `ChatQueue`: here they could only make the call raise, as `Lose` does.

Time matters where a settling claim decides by what it read earlier. `CallTerm`
bounds how long a call takes, and `CallAssumption` says that a lease outlasts two
calls: `chat_main.py:50` and the functions themselves (36:450) refuse leases below
30 seconds, and a call is a few statements on one turn. The code sets no statement
timeout, so this is an assumption about the deployment. `AnsweredByLastAttempt`
does not need it; without it (a lease of two ticks, calls of one, three
connections) TLC finds `StrayRunsExpired` violated.

### ConversationTurn

What the owner sees of one question and what is recorded of its attempts. A
question is asked (`Ask`) and may be asked again after a failure (`Retry`), both
only under a live session; an attempt begins (`Begin`), and what ran before is
then recorded as failed; the answer is the last attempt's and final (`Answer`);
the turn may fail (`GiveUp`) and attempts may (`Stop`). Past its retention an
attempt may stay recorded as running when another takes over (`Cleared`), a
weakness the statements of a claim do have. `ChatQueue` maps to it turn by turn
(`ImplementsTurns`, written with one box over all turns, the form TLC takes);
`ChatTransactions` maps its committed rows (`ImplementsTurn`), with the session
always open.

### GlobalAdmission

Every caller of `admit_global_queue_work_v2` taken apart at the lock: it enters
with the rows it locks and the clock it reads, waits for the gate, counts, and
commits. Beside it run the callers that do not take the lock: the renewal of a
live reservation (37:192), claims, failures and endings. `late` is a history
variable, the jobs that a call outside the gate put back into the count after
their deadline had passed.

### UploadService

Each request walks through `create` by its `pc`; every call to PostgreSQL or
Storage is a step of its own. A call can be applied and answered, applied
without an answer, lost, or applied after the caller gave up (`finalizing`,
`write = "flying"` after the request went on, `erasing`). A request may die
between any two steps. The object key contains the digest of the content, so two
requests with one key write the same object and an object that is found is the
right one; therefore the branch that rejects different bytes is unreachable
and left out. Whether the gate admits a call is left open here (`AnalysisQueue`
decides it), so both outcomes are explored.

### ReportPdf

A report belongs to a case and each of its attempts to one object of Storage.
`report`, `object`, `retained` are `report_artifact` and the retention of its
case; `attempts`, `fence`, `lease`, `processing` as in the other queues; `tomb`
is `report_pdf_object_cleanup` (whether it is there, due, held by whom, under a
live claim, how often deleted); `writer` is the worker of an attempt, `flying`
the PDFs sent and not yet landed, `stored` the bucket, `sweep` the cleaners.

| Action | Code |
|---|---|
| `Enqueue` | the trigger `enqueue_pdf_report_for_ready_case` (41) |
| `Claim`, `Heartbeat`, `Complete`, `Fail` | the four functions of the worker (41) |
| `Post`, `GiveUp` | `ReportJobHandler.handle` |
| `Lands`, `IsLost` | a request to Storage, answered or not |
| `ClaimCleanup`, `CompleteCleanup` | `claim_next_...`, `complete_pdf_report_cleanup_v1` (41) |
| `Erase`, `AbandonCleanup` | `cleanup_once` |
| `RemoveCase` | deletion of a case, with the cascade of its rows |
| `AgeLease`, `EndRetention`, `LapseCleanup`, `Recheck` | the database clock |

`Recheck` waits until the worker of the attempt has given up and its request is
over: five minutes (41:860) exceed the limits of a render (60 s) and of a request
(30 s). This is the one assumption about lengths of time in the module, and
`SweptForGood` rests on it. A delete that is not acknowledged and takes effect
late is part of `AbandonCleanup`. Two cleanup claims that overlap may take the
same tombstone; `LapseCleanup` between them has the same effect. The branch of
the trigger that re-queues a case completed a second time is left out: no
function completes a case twice.

### ReportDownload

One report as its owner and its workers may rely on it: its status, the attempts
that were started and what is recorded of each, whether the last is under a lease,
whether the report is within its retention, and the PDF that a download delivers
(`copy`). An attempt begins (`Begin`) only when no lease lives and whatever ran
before it is recorded as failed; the last attempt publishes (`Publish`), and from
then on its PDF can be downloaded until the retention ends (`Expire`) or the case
is deleted (`Remove`); a report fails (`GiveUp`) only with its attempts used up or
its retention over. There is no Storage and no tombstone here. In `ReportPdf`,
`copy` is what `download_analysis_report` (`results.py:710`) finds: the object the
row names, if the row is one that may be downloaded *and Storage has the object*
(`Copy`). A cleaner that deletes a published object, and a publication of an object
that is not there, are therefore steps `ReportDownload` does not have. Lapsed
leases that a cleaner fences (`ClaimCleanup`) are its `Stop`; rendering, uploads and
tombstones are stutters.

### WorkerRuntime

Two threads per worker on one job. `main` is where `run_once`/`run_forever` are,
`beat` the heartbeat thread with its error budget, `stop` the flag of the signal
handlers, `outcome` what `run_once` returned. Each call to the repository is
three steps: it is made, takes effect or not, and returns or raises; after an
exception the caller does not know which. The queue is reduced to what a worker
can observe of it (`job`, `ended`); its own rules are those of `AnalysisQueue`.

### KnowledgeBase

A session of each program is a program counter (`at`) and what it remembers
(`job`). `version`, `input`, `class`, `embedded` are the corpus and its derived
rows, `active` and `v2` the two activation flags, `lock` the advisory locks C and
E and the rows under change. A backfill reads the corpus once, works on it for
minutes and compares under the lock before it promotes. The triggers of 30 and
32 run when their row is locked already and therefore only *try* the advisory
locks; if one is taken the transaction is rolled back. `Abort` is that rollback,
a lost connection or a crash.

Left out: rows of superseded versions, partial runs (`--limit`, one strategy),
which activate nothing, and direct changes of `profile_version` and
`source_version`. A transaction of direct writes has one statement.

## 3. Runs

| Run | Question | Bounds | Result |
|---|---|---|---|
| `analysis` | fencing, attempts, exclusion, admission, final states; may a live worker lose its attempt to another call; is `UserWorkspace` implemented; does every registered run end? | 3 runs of 2 owners, limit 2, lease 1 | holds, 128,720 states |
| `chat` | one live attempt, one answer, bounded work, admission; is `ConversationTurn` implemented; does every turn end? | 2 turns of one session, limit 2, lease 1 | holds, 388,836 states |
| `chat_interleavings` | the same functions with their statements mixed: is one answer stored, by the last attempt; is `ConversationTurn` implemented? | 2 connections, lease 3, calls of at most 1 tick, retention far or 2 ticks away, 2 retries | holds, 1,005,119 states |
| `gate` | does the gate hold while other calls commit beside it? | 2 connections, 4 jobs, limit 1, deadline 2, calls of at most 1 tick | holds, 918,097 states |
| `upload` | is a registered source ever deleted, an answer ever wrong, a delete ever forgotten? | 3 requests under one key | holds, 1,935,153 states |
| `report` | one publication, a ready report keeps its object, stray objects go, reports end; is `ReportDownload` implemented? | 1 case, 1 cleaner, 2 attempts (3 in the code), lease 1, the case may be deleted | holds, 65,762 states |
| `worker_fencing` | what do slow calls, lost replies and crashes make of one job; does a beating worker hold its lease? | 2 workers, heartbeat 1, lease 3, calls of at most 1 tick | holds, 670,184 states |
| `worker_liveness` | does every job end, a stopped worker exit? | 2 workers, one may be told to stop, prompt calls | holds, 169,191 states |
| `knowledge_base` | do active embeddings and classifications cover the current corpus; do transactions wait in a circle? | 2 notices, 2 inputs, 2 imports, one session of each program, 3 busy at once | holds, 2,660,596 states |
| `chat_turns` | at most one generating turn per session (36:119)? | 2 turns, limit 2 | violated |
| `report_deletion` | is the PDF of a deleted case always tracked (41:779)? | 1 case | violated |
| `knowledge_base_backfills` | is a complete active corpus immutable (31:206) under two backfills? | 2 backfills, 1 importer | violated |

Why these bounds are enough for the interesting cases. An owner with two runs
meets the one-run and one-session rules, and a second owner competes for a limit
that two of them fill; two attempts are the whole budget of a run, eight the most
a turn can start, and both are exhausted. Two turns of one session exceed the
one-turn rule. In `gate` one slot and two connections already let a call beside
the gate revive a job while the gate is passed; with four jobs the excess could
grow over time, and does not. Three duplicates suffice for one request to
condemn, one to delete and one to write or finalize late; requests under several
keys are covered by the theorems. A report with two attempts has one that lapses
and one that publishes, and a cleaner, which may die at any step and lapse, can
meet either. With a heartbeat of 1 and a lease of 3 a worker can miss a beat and
still hold its lease. A second notice lets one be changed after the other has been
read; two inputs tell a stale prediction from a present one. Symmetry is used
only in runs without liveness, over connections, jobs, duplicates, workers and
notices that are otherwise alike.

Bounds on the state: `MaxAttempts` and the retry budgets are the code's (except
in `report`), `CallTerm` limits how long a call takes (`ChatTransactions`,
`GlobalAdmission`, `WorkerRuntime`), `MaxImports` and `MaxBusy` limit imports and
sessions at once (`KnowledgeBase`). `CHECK_DEADLOCK FALSE` in `upload` only: a
history in which all requests have ended is complete.

### Fairness

*Queues.* `Claim` with all rows visible is weakly fair: `run_forever` polls until
it is stopped and a row is locked only for the length of a transaction.
`AgeLease` is weakly fair: clocks move. `Fail` or `Complete` of a live token is
weakly fair: `run_once` follows every handler, returned or raised, by one call of
complete or fail, and a worker that does not get there loses its lease, which
disables the obligation. Handlers are assumed to return. No fairness is assumed of
owners, deadlines, heartbeats or the other queue.

*Reports.* Likewise; besides, what is sent lands or is lost, a worker gives up in
the end, a cleaner's claim lapses and the time of the second look comes. Strong
fairness of `ClaimCleanup`, `Erase` and `CompleteCleanup` for each object: the
deletions of one object do not fail for ever and its tombstone is not skipped for
ever, however many cleaners die.

*Runtime.* Time, the threads, the effects of calls and their returns are weakly
fair. `Poll` and `ClaimEffect` are strongly fair: crashes, lost claims and
restarts may disable them again and again but not always prevent them.

`ChatTransactions`, `GlobalAdmission`, `KnowledgeBase` and `UploadService` state
safety only. Overlapping calls on one turn can make each other's rows busy for
ever, and a request may die anywhere; that every turn ends is shown where a call
is one step (`TurnsEnd`), and what an abandoned upload leaves is `ExpireUpload`'s
and the next request's to clean up.

### Findings

* `chat_turns`: 36:119 states that a session has at most one generating turn;
  `prepare_conversation_messages_v2` checks it, `retry_conversation_message_v2`
  (37:499) does not. After a failed turn, a new question and then a retry of the
  failed one leave two turns generating.
* `report_deletion`: 41:779 says that a tombstone survives a deleted case so that
  its private object can still be deleted. complete (41:642) deletes the
  tombstone of the attempt it publishes, and only the retention sweep, which
  reads the report's row, makes a new one; so a case deleted after its report
  became ready leaves the PDF without row or tombstone.
* `knowledge_base_backfills`: 31:206 calls a complete active corpus immutable.
  The trigger that guards it (31:220) reads the activation flag when the
  statement runs. A second backfill of the same configuration can write a row,
  uncommitted, while the first verifies and promotes, and commit afterwards.
  Nothing keeps two such backfills apart.

Met while modelling, without a run of their own:

* 21:14 says that a failed attempt requeues until the second one. `fail` requeues
  under the first registration's `expires_at` (21:454), and the claim of 33
  (33:363) fails overdue queued runs, so a run may end after one attempt.
* A heartbeat with an older clock may renew the lease between the statements of a
  claim that fail the attempt (36:495) and the message; the worker's complete or
  fail then raises `PROCESSING_RUN_NOT_LIVE` (36:707, 27:741) and the next claim
  settles the turn.
* The renewal of a live reservation (37:192) does not take the lock of the gate;
  renewed beside a count, it gives an excess of one job per other connection,
  which `ExcessBound` bounds.
* A heartbeat thread that has lost its lease does not interrupt the handler, and
  the failure is recorded only when the handler returns (`runtime.py:208`, `:295`);
  the call is fenced out, so this costs work and nothing else.
* The settling pass of a claim past the retention may leave the `processing_run`
  of a failed turn recorded as running for ever (`StrayRunsExpired` says that
  nothing else does).
* A settling claim whose UPDATE comes to the message row late looks at that row
  again and at no other (36:507-514). If another claim has settled the turn since
  its snapshot, the owner has retried it and a new attempt has begun, it fails the
  message of the new attempt, whose lease is live. `complete` of that attempt then
  returns FALSE (36:675), and the owner's next retry is `CHAT_MESSAGE_BUSY` until
  the lease lapses. `ConversationTurn` allows it (`GiveUp` may leave what runs):
  nothing is answered twice, but the owner loses a retry.
* A direct edit demotes v2 (30); running the embedding backfill again re-activates
  the same vectors (`embed_existing_profiles.py:376`): its inputs are the profile
  files, which an edit of the database does not change.

## 4. Proofs

Each theorem holds for every value of the constants that meets the named
assumptions of its module; TLC evaluates these on every run.

| Module | Theorem | Property |
|---|---|---|
| `AnalysisQueueProofs` | `TypeCorrect` | `TypeOK` |
| | `AttemptHistoryCorrect` | `AttemptHistory` |
| | `FenceCorrect` | `FenceNamesTheLiveAttempt` |
| | `HistoryCorrect` | `History` |
| | `LeaseHolderCorrect` | `LeaseHolderDecides` |
| | `ExclusionCorrect` | `RunsAndSessionsExclude` |
| | `AdmissionCorrect` | `AdmissionBound` |
| | `WorkspaceImplemented` | `ImplementsWorkspace` |
| `ChatQueueProofs` | `TypeCorrect` | `TypeOK` |
| | `LiveAttemptCorrect` | `OneLiveAttempt` |
| | `AnswerCorrect` | `AnsweredByLastAttempt` |
| | `BudgetCorrect` | `WorkBudget` |
| | `TurnsImplemented` | `ImplementsTurns` |
| | `AdmissionCorrect` | `AdmissionBound` |
| `ChatTransactionsProofs` | `AnswersCorrect` | `AnsweredByLastAttempt` |
| | `StraysCorrect` | `StrayRunsExpired` |
| | `TurnImplemented` | `ImplementsTurn` |
| `UploadServiceProofs` | `TypeCorrect` | `TypeOK` |
| | `SourceCorrect` | `SourceAvailable` |
| | `AnswersCorrect` | `AnswersAreTrue` |
| | `CleanupCorrect` | `CleanupAfterDelete` |
| `ReportPdfProofs` | `TypeCorrect` | `TypeOK` |
| | `PublicationCorrect` | `PublishedByLastAttempt` |
| | `ReadyCorrect` | `ReadyIsSafe` |
| | `SweepCorrect` | `SweptForGood` |
| | `DownloadsImplemented` | `ImplementsDownloads` |
| `GlobalAdmissionProofs` | `AdmissionCorrect` | `AdmissionBound` |
| | `ExcessCorrect` | `ExcessBound`, for finitely many connections |
| `WorkerRuntimeProofs` | `OutcomesCorrect` | `OutcomesAreTrue` |
| | `PublicationCorrect` | `PublishedOnce` |
| | `RenewalCorrect` | `RenewedByOwner` |
| | `BeatingCorrect` | `BeatingIsLeased` |
| `KnowledgeBaseProofs` | `EmbeddingsCorrect` | `EmbeddingsComplete` |
| | `ClassificationCorrect` | `ClassificationComplete`, if no two backfills have one configuration |
| | `WaitsCorrect` | `WaitsAcyclic`, the half of `NoWaitCycle` without ENABLED |

*Analysis queue.* `FenceNamesTheLiveAttempt` is not inductive: it does not say that
attempts beyond the count have not started, which `Claim` needs when it starts
one. `RunHistory` adds that and describes one run completely; `AttemptHistory`, its
conjunction over the runs, is inductive with `TypeOK`, and the fence follows from
it. `SettledHistory` says that settling or releasing runs keeps it, and is used by
every function that reconciles. `LeaseHolderDecides` follows step by step: by
`RunHistory` a leased run is running with its fence set, so it is neither
`Exhausted` nor `Claimable` (`LeasedRun`), and what reconciles or settles others
leaves its attempt alone (`OthersSettled`).
`RunsAndSessionsExclude` is inductive given the other two: most actions are
*quiet* (no run or session of the owner becomes active), the others are taken one
by one. For `AdmissionBound` a step either leaves the occupying runs within the
old set (`NoMore`) or adds one run behind the gate (`OneMore`); both use that the
set of runs is finite.

*Workspace.* The invariant is `TypeOK`, `AttemptHistory` and
`RunsAndSessionsExclude`: the last makes the run and the session that the view's
`CHOOSE` picks unique, and `ViewFacts` trades the `CHOOSE` for that. Then each
action is an abstract step or a stutter; what settles or expires several runs at
once is one `Stop`.

*Chat queue.* Types are not inductive by themselves, because the number of
attempts is bounded only through the retry counters. The invariant is `TypeOK`
with, for each turn, `Attempted` (which attempt is live, which succeeded, none
beyond the last) and `Budgeted` (attempts started, against the counters and the
present `attempt_count`).

*Chat turns.* With that invariant the attempts that run are the one the fence names
(`RunningIsHeld`), so failing it is what `ConversationTurn` calls stopping all that
run (`FailedIsStopped`); each action then is one step of every turn, or leaves it
alone (`PromisedStep`).

*Chat transactions.* Two layers. The first has no clock: the committed rows agree
with each other (`Consistent`): which attempt is the last, how many there can be,
and which one answered. What makes that inductive is an account of each call under
way: what it has changed compared with the committed rows (`Changes`), what it
knows when its next statement begins (`Knows`), and that no two calls have changed
one row (`Exclusive`). From these `SeenConsistent` follows: what a call sees, its
own changes over rows that others may have committed since it began, agrees as
well. So each commit is one of five changes of a consistent table of rows
(`Leasing`, `Starting`, `Completing`, `Failing`, `Reasking`), and a step that does
not commit only has to keep the account of its own call (`OwnStep`).
`AnsweredByLastAttempt` follows, whatever the lengths of leases and calls.

The second layer has the clocks (`TimedInv`): while the case is kept, every attempt
recorded as running is the one the fence names (`Orderly`). A claim commits what it
decided by rows it has read before, so the invariant says what it relies on
(`Careful`, `CarefulAt`): whoever fails the message knows that the attempt with the
fence no longer runs (`Silent`), or that the owner has asked again meanwhile and
the first attempt since has only just begun (`Fresh`); together `Condemned`.
Commits of other calls drop, reset, renew or take the turn (`Becomes`) and keep
that (`StaysCareful`), because a lease that is granted while a call goes on cannot
have lapsed for it (`StillSpent`, `StillFresh`; here `CallAssumption` is used).
With `Orderly` each commit is a step of `ConversationTurn`, `Tick` is its `Pass`,
and any other step leaves it alone.

*Upload service.* `SourceAvailable` is strengthened by what each place of a
request knows of its row: a request that may finalize has seen its source in
Storage (`FinalizesSource`), deletes still owed belong to condemned runs
(`DeletesAreOwed`), and what was read back was true (`ReadsAreTrue`).

*Reports.* `Inv` says of each report what `RunHistory` says of a run
(`Attempted`); of each tombstone, when it is held and due, and that a worker of
an attempt implies the attempt was counted (`Tombstone`); of each object that
may yet be published or is current, that no cleaner holds it and that it is stored
(`Kept`); of each cleaner, that what it works on can be published no more
(`Swept`); and of the second deletion of a tombstone, from the moment it is due,
that nothing can land any more (`Final`). `ReadyIsSafe` needs `Kept` and
`Swept` together: a cleaner that was outrun keeps its place without its token.
`SweptForGood` follows from `Final`, which begins with `Recheck` and its
assumption about time. With `Inv` in both states each step of a report is one of
`ReportDownload` (`PromisedStep`): by `Kept` the PDF a download delivers is decided
by the report's row alone (`CopyIs`, and `CopyBecomes` after the step), by
`Attempted` only the attempt at the fence runs, so failing it is `Stopped`
(`FailedIsStopped`), and an attempt begins only over a lease of zero. The steps that
touch no row, which are those of Storage and most of the cleaner's, are listed once
(`RowsStay`) and stutter.

*Admission.* `Inv` ties the slots to the calls under way: one call is at the gate
(`Exclusive`), a job is locked by one call, and a call that was admitted still has
room for its job when it commits (`SlotKept`), because the calls that do not take
the lock only ever free slots. The bound counts committed work without late
revivals; it follows since whatever else is committed was counted. `ExcessBound`
bounds them at any moment. `ExcessKept`
keeps an account of what each call under way may still add (`MayAdd`): one job, since
a connection has one call, which was admitted or whose clock is older than the
deadline of the job. Whatever jobs these calls choose to add, the bound must hold. A
step that adds a job spends the choice of its own call (`OneAdds`), a job that nobody
counts is added only behind the gate, and a fresh count there starts the account
anew: less than the limit, and one job for each connection (`JustCounted`).

*Runtime.* `JobInv` says which attempts have ended (all but the one that holds the
fence) and that only the last can have succeeded; with it, a worker works for an
attempt that was started (`TokenKnown`), what it was answered is what happened
(`AnswersTrue`), and its thread beats only within the call of `run_once` that
started it (`BeatWithin`). An ended attempt never ends otherwise (`JobStep`), so
an answer stays true after the attempt is over. These three use no assumption
about how long a call takes: they hold for workers of any slowness.
`BeatingIsLeased` does need one, the guard of `Tick` that a call ends within
`CallTerm`. Its invariant (`LeaseInv`) says that no two workers have one token,
and how much is left of a lease since the claim, the last answered heartbeat, or
the effect of a heartbeat whose answer is under way.

*Knowledge base.* `Inv`: types, which locks each place of a session implies
(`LocksAreHeld`), and that between verification and commit of v2 the corpus is
embedded because both locks are held (`EmbeddingsVerified`). For classifications
besides: what a backfill has read is current or past (`Snapshots`), a verified
result matches the present rows until it is promoted (`ResultsVerified`), and no
row of its configuration is written by another (`RowsStandAlone`). The proviso
`OneBackfillEach` is needed for that, as `knowledge_base_backfills` shows. For
`WaitsAcyclic` the invariant (`WaitInv`) says where a session can be while it holds
each lock (`HoldersAt`, `RowLockers`): locks are taken in the order C, E, row, and
the triggers, which would take them the other way round, never wait.

Only model-checked: liveness (`QueuedRunsEnd`, `TurnsEnd`, `ReportsEnd`,
`StrayObjectsGo`, `JobsEnd`, `StopEnds`), because fairness is out of the prover's
reach, and the half of `NoWaitCycle` that says a session that waits in the model is
one whose step is not ENABLED.

## 5. Limits of the models

* A function that is one step in `AnalysisQueue`, `ChatQueue` and `ReportPdf`
  holds its row locks until it commits; where that is not the whole story the
  statements are modelled in `ChatTransactions` (chat), `GlobalAdmission`
  (counts) and by the `seen`, `live` and `LapseCleanup` choices. The statements of
  the analysis and report functions are not mixed with each other. So the
  `AdmissionBound` of the two queues speaks of whole calls; a count taken while
  other calls commit (37:66) and a clock read before a wait (33:335) are the
  subject of `AdmissionBound` and `ExcessBound` of `GlobalAdmission` alone.
* `LeaseHolderDecides` judges a step by its effect. A call of somebody else that
  did to the last attempt of one run exactly what `Fail` does, and nothing more,
  would pass for it; the calls that settle runs also begin or take others, and are
  told apart by that.
* The worker's job in `WorkerRuntime` is a reduced queue; that the queues accept
  every call in every order is what `AnalysisQueue` and `ChatQueue` show.
* Hazards without a property, with the reason in `PROJECT.json`: a POST that lands
  after another request has deleted the object (`analysis_runs.py:215`), and a
  report worker suspended for more than five minutes (41:861).

## 6. Not modelled

* HTTP routes of chat, results and sessions: each calls one function modelled
  above, or only reads.
* Authentication, cookies, paging, request limits: stateless checks.
* Document extraction, language-model analysis, ML reference models, chat
  grounding: functions of their input that write only through complete; what they
  compute is arithmetic, prompts and wording, and nothing in it depends on what
  runs beside it.
* The user lock of reservations and the row locks inside the result functions.
* ML experiments and training, frontend, demos, samples, vendored code and
  end-to-end scripts: most of the repository's lines, without state that
  several actors share. They are why the modelled lines, which hold the
  service's whole state machine, are a small share of the repository.
