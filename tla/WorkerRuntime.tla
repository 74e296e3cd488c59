----------------------------- MODULE WorkerRuntime -----------------------------
(***************************************************************************)
(* The loop of a worker process and its heartbeat thread (runtime.py).     *)
(*                                                                         *)
(* The main thread claims the job, runs the handler and reports the        *)
(* result; while the handler runs, a second thread renews the lease.  A    *)
(* call to the repository takes time, takes effect once or not at all, and *)
(* returns or raises, an effect or none: after an exception the caller     *)
(* cannot tell.  A process may die anywhere and is started again.          *)
(*                                                                         *)
(* The queue is reduced to one job and what a worker can observe of it;    *)
(* AnalysisQueue and ChatQueue model the queues.                           *)
(***************************************************************************)
EXTENDS Integers

CONSTANTS
  Workers,
  Heartbeat,  \* heartbeat_seconds, in ticks
  Lease,      \* lease_seconds, in ticks
  CallTerm,   \* bound: the ticks a call may take
  Stoppable   \* the workers that may be told to stop

ASSUME TimesAssumption == /\ Heartbeat \in Nat \ {0} /\ Lease \in Nat /\ CallTerm \in Nat
                          /\ Heartbeat < Lease
ASSUME StoppableAssumption == Stoppable \subseteq Workers

VARIABLES
  job,      \* status, attempts, fence and lease of the job
  issued,   \* how many attempts were ever started
  ended,    \* how each attempt ended in the database
  main,     \* the main thread of each worker
  beat,     \* its heartbeat thread
  stop,     \* _stop_requested
  outcome   \* what run_once returned last, and for which attempt

vars == <<job, issued, ended, main, beat, stop, outcome>>

MaxAttempts == 2
Tokens == 1..MaxAttempts
None   == 0

\* A call that is out has no reply; after its effect it has one.
NoReply == {}

NewMain == [at |-> "poll", token |-> None, failed |-> FALSE, reply |-> NoReply, age |-> 0]
Asleep  == [NewMain EXCEPT !.at = "idle"]
NoBeat  == [at |-> "none", wait |-> 0, since |-> 0, reply |-> NoReply, age |-> 0,
            error |-> FALSE, lost |-> FALSE]

Init ==
  /\ job = [status |-> "queued", tries |-> 0, fence |-> None, lease |-> 0]
  /\ issued = 0
  /\ ended = [n \in Tokens |-> "no"]
  /\ main = [w \in Workers |-> NewMain]
  /\ beat = [w \in Workers |-> NoBeat]
  /\ stop = [w \in Workers |-> FALSE]
  /\ outcome = [w \in Workers |-> <<"none", None>>]

-----------------------------------------------------------------------------
(***************************************************************************)
(* The database, as the repository calls it.                               *)
(***************************************************************************)

Token(w) == main[w].token

\* A slip: any worker may act for the attempt that runs.
SomeoneIsLive(n) == n # None /\ job.status = "running"

Live(n) == n # None /\ job.fence = n /\ job.lease > 0

ClaimableIfQueued == job.status = "queued" /\ job.tries < MaxAttempts

Claimable == \/ job.status = "queued" /\ job.tries < MaxAttempts
             \/ job.status = "running" /\ job.lease = 0 /\ job.tries < MaxAttempts

Spent == job.status = "running" /\ job.lease = 0 /\ job.tries >= MaxAttempts

Freed(status) == [job EXCEPT !.status = status, !.fence = None, !.lease = 0]

\* An attempt that is replaced or given up counts as failed.
Abandoned == [n \in Tokens |-> IF n = job.fence THEN "failed" ELSE ended[n]]

Reply(w, r) == main' = [main EXCEPT ![w].reply = {r}]

\* claim: the token of a new attempt, or none.
ClaimEffect(w) ==
  /\ main[w].at = "claim" /\ main[w].reply = NoReply
  /\ \/ /\ Claimable
        /\ job' = [status |-> "running", tries |-> job.tries + 1, fence |-> issued + 1, lease |-> Lease]
        /\ issued' = issued + 1
        /\ ended' = Abandoned
        /\ Reply(w, issued + 1)
     \/ /\ ~Claimable
        /\ job' = IF Spent THEN Freed("failed") ELSE job
        /\ ended' = IF Spent THEN Abandoned ELSE ended
        /\ Reply(w, None)
        /\ UNCHANGED issued
  /\ UNCHANGED <<beat, stop, outcome>>

HeartbeatEffect(w) ==
  /\ beat[w].at = "call" /\ beat[w].reply = NoReply
  /\ job' = IF Live(Token(w)) THEN [job EXCEPT !.lease = Lease] ELSE job
  /\ beat' = [beat EXCEPT ![w].reply = {Live(Token(w))}]
  /\ UNCHANGED <<issued, ended, main, stop, outcome>>

CompleteEffect(w) ==
  /\ main[w].at = "complete" /\ main[w].reply = NoReply
  /\ job' = IF Live(Token(w)) THEN Freed("succeeded") ELSE job
  /\ ended' = IF Live(Token(w)) THEN [ended EXCEPT ![Token(w)] = "succeeded"] ELSE ended
  /\ Reply(w, Live(Token(w)))
  /\ UNCHANGED <<issued, beat, stop, outcome>>

FailEffect(w) ==
  /\ main[w].at = "fail" /\ main[w].reply = NoReply
  /\ job' = IF ~Live(Token(w)) THEN job
            ELSE Freed(IF job.tries < MaxAttempts THEN "queued" ELSE "failed")
  /\ ended' = IF Live(Token(w)) THEN [ended EXCEPT ![Token(w)] = "failed"] ELSE ended
  /\ Reply(w, Live(Token(w)))
  /\ UNCHANGED <<issued, beat, stop, outcome>>

-----------------------------------------------------------------------------
(***************************************************************************)
(* Slips: forms of the code that must break a property.                    *)
(***************************************************************************)

Budget == Lease - Heartbeat

\* The thread gives up only when the whole lease has passed.
WithinLease(w) == beat[w].since < Lease

\* The handler's thread is not joined.
JoinAtOnce(w) ==
  /\ main[w].at = "join"
  /\ main' = [main EXCEPT ![w].at = IF main[w].failed \/ beat[w].error THEN "fail" ELSE "complete",
                          ![w].reply = NoReply, ![w].age = 0]
  /\ UNCHANGED <<job, issued, ended, beat, stop, outcome>>

\* What the repository answered is not looked at.
AlwaysCompleted(w) == "completed"

\* The thread is joined and never told to end.
NeverDone(w) == FALSE

-----------------------------------------------------------------------------
(***************************************************************************)
(* The heartbeat thread.                                                   *)
(***************************************************************************)

\* A failed call is repeated one beat later while the budget lasts.
WithinBudget(w) == beat[w].since < Budget

\* _done is set when the handler has returned.
Done(w) == main[w].at # "handle"

BeatDue(w) ==
  /\ beat[w].at = "wait" /\ beat[w].wait = Heartbeat /\ ~Done(w)
  /\ beat' = [beat EXCEPT ![w].at = "call", ![w].reply = NoReply, ![w].age = 0]
  /\ UNCHANGED <<job, issued, ended, main, stop, outcome>>

BeatDone(w) ==
  /\ beat[w].at = "wait" /\ Done(w)
  /\ beat' = [beat EXCEPT ![w].at = "ended"]
  /\ UNCHANGED <<job, issued, ended, main, stop, outcome>>

\* The reply: the thread goes on, or has learnt that the lease is lost.
BeatReturns(w) ==
  /\ beat[w].at = "call" /\ beat[w].reply # NoReply
  /\ LET lost == beat[w].reply = {FALSE}
     IN  beat' = [beat EXCEPT ![w].at = IF lost THEN "ended" ELSE "wait",
                             ![w].lost = lost, ![w].wait = 0, ![w].since = 0]
  /\ UNCHANGED <<job, issued, ended, main, stop, outcome>>

BeatRaises(w) ==
  /\ beat[w].at = "call"
  /\ beat' = [beat EXCEPT ![w].at = IF WithinBudget(w) THEN "wait" ELSE "ended",
                          ![w].error = ~WithinBudget(w), ![w].wait = 0]
  /\ UNCHANGED <<job, issued, ended, main, stop, outcome>>

-----------------------------------------------------------------------------
(***************************************************************************)
(* The main thread.                                                        *)
(***************************************************************************)

Quits(w) == stop[w]

\* The sleep of an idle worker ends at once when it is told to stop.
Poll(w) ==
  /\ main[w].at = "poll" \/ (main[w].at = "idle" /\ stop[w])
  /\ main' = [main EXCEPT ![w] = [NewMain EXCEPT !.at = IF Quits(w) THEN "exit" ELSE "claim"]]
  /\ UNCHANGED <<job, issued, ended, beat, stop, outcome>>

\* run_once returns; run_forever sleeps for idle_poll_seconds if there was
\* nothing to do.
Returns(w, what) ==
  /\ main' = [main EXCEPT ![w] = IF what \in {"idle", "unavailable"} THEN Asleep ELSE NewMain]
  /\ beat' = [beat EXCEPT ![w] = IF beat[w].at = "ended" THEN NoBeat ELSE beat[w]]
  /\ outcome' = [outcome EXCEPT ![w] = <<what, Token(w)>>]

ClaimReturns(w) ==
  /\ main[w].at = "claim"
  /\ \E n \in main[w].reply :
       IF n = None THEN Returns(w, "idle")
       ELSE /\ main' = [main EXCEPT ![w] = [NewMain EXCEPT !.at = "handle", !.token = n]]
            /\ beat' = [beat EXCEPT ![w] = [NoBeat EXCEPT !.at = "wait"]]
            /\ UNCHANGED outcome
  /\ UNCHANGED <<job, issued, ended, stop>>

\* The handler returns a result or raises, and the thread is told to end.
Handle(w) ==
  /\ main[w].at = "handle"
  /\ \E failed \in BOOLEAN : main' = [main EXCEPT ![w].at = "join", ![w].failed = failed]
  /\ UNCHANGED <<job, issued, ended, beat, stop, outcome>>

\* close() has joined the thread: a failure, its own or the thread's, is
\* recorded, or else the result is published.
Join(w) ==
  /\ main[w].at = "join" /\ beat[w].at = "ended"
  /\ main' = [main EXCEPT ![w].at = IF main[w].failed \/ beat[w].error THEN "fail" ELSE "complete",
                          ![w].reply = NoReply, ![w].age = 0]
  /\ UNCHANGED <<job, issued, ended, beat, stop, outcome>>

CompleteOutcome(w) == IF main[w].reply = {TRUE} /\ ~beat[w].lost THEN "completed" ELSE "fenced"

CompleteReturns(w) ==
  /\ main[w].at = "complete" /\ main[w].reply # NoReply
  /\ Returns(w, CompleteOutcome(w))
  /\ UNCHANGED <<job, issued, ended, stop>>

FailReturns(w) ==
  /\ main[w].at = "fail" /\ main[w].reply # NoReply
  /\ Returns(w, IF main[w].reply = {TRUE} THEN "failed" ELSE "fenced")
  /\ UNCHANGED <<job, issued, ended, stop>>

\* An exception of the repository: a failed publication is recorded as a
\* failure; a failed claim or record is left to the lease.
MainRaises(w) ==
  /\ \/ /\ main[w].at = "complete"
        /\ main' = [main EXCEPT ![w].at = "fail", ![w].reply = NoReply, ![w].age = 0]
        /\ UNCHANGED <<beat, outcome>>
     \/ /\ main[w].at \in {"claim", "fail"}
        /\ Returns(w, "unavailable")
  /\ UNCHANGED <<job, issued, ended, stop>>

RequestStop(w) ==
  /\ w \in Stoppable /\ ~stop[w]
  /\ stop' = [stop EXCEPT ![w] = TRUE]
  /\ UNCHANGED <<job, issued, ended, main, beat, outcome>>

\* The process is killed and, if it was not to end, started again a while later.
Crash(w) ==
  /\ main[w].at # "exit"
  /\ main' = [main EXCEPT ![w] = IF stop[w] THEN [NewMain EXCEPT !.at = "exit"] ELSE Asleep]
  /\ beat' = [beat EXCEPT ![w] = NoBeat]
  /\ outcome' = [outcome EXCEPT ![w] = <<"none", None>>]
  /\ UNCHANGED <<job, issued, ended, stop>>

-----------------------------------------------------------------------------
\* Time passes while nobody is late: a beat that is due has been sent, calls keep
\* to their term and the main thread is at a place where it may stay.
OnTime(w) ==
  /\ \/ main[w].at \in {"idle", "handle", "exit"}
     \/ main[w].at = "join" /\ beat[w].at = "call"
     \/ main[w].at \in {"claim", "complete", "fail"} /\ main[w].age < CallTerm
  /\ beat[w].at = "wait" => beat[w].wait < Heartbeat
  /\ beat[w].at = "call" => beat[w].age < CallTerm

Older(x, bound) == IF x < bound THEN x + 1 ELSE x

Tick ==
  /\ \A w \in Workers : OnTime(w)
  /\ job' = [job EXCEPT !.lease = IF @ > 0 THEN @ - 1 ELSE 0]
  /\ main' = [w \in Workers |->
                IF main[w].at \in {"claim", "complete", "fail"} THEN [main[w] EXCEPT !.age = @ + 1]
                ELSE IF main[w].at = "idle" THEN NewMain ELSE main[w]]
  /\ beat' = [w \in Workers |->
                IF beat[w].at = "wait"
                THEN [beat[w] EXCEPT !.wait = @ + 1, !.since = Older(@, Lease)]
                ELSE IF beat[w].at = "call"
                THEN [beat[w] EXCEPT !.age = @ + 1, !.since = Older(@, Lease)]
                ELSE beat[w]]
  /\ UNCHANGED <<issued, ended, stop, outcome>>

Next ==
  \/ Tick
  \/ \E w \in Workers :
       \/ Poll(w) \/ ClaimEffect(w) \/ ClaimReturns(w) \/ Handle(w) \/ Join(w)
       \/ CompleteEffect(w) \/ CompleteReturns(w) \/ FailEffect(w) \/ FailReturns(w)
       \/ MainRaises(w) \/ RequestStop(w) \/ Crash(w)
       \/ BeatDue(w) \/ BeatDone(w) \/ HeartbeatEffect(w) \/ BeatReturns(w) \/ BeatRaises(w)

Spec == Init /\ [][Next]_vars

\* Time passes, threads run, handlers end, calls return or raise, and a worker
\* that is started again and again polls, and gets through to the database, now
\* and then.
Fairness ==
  /\ WF_vars(Tick)
  /\ \A w \in Workers :
       /\ SF_vars(Poll(w)) /\ WF_vars(Handle(w)) /\ WF_vars(Join(w))
       /\ WF_vars(BeatDue(w) \/ BeatDone(w))
       /\ WF_vars(HeartbeatEffect(w)) /\ WF_vars(BeatReturns(w))
       /\ SF_vars(ClaimEffect(w)) /\ WF_vars(ClaimReturns(w))
       /\ WF_vars(CompleteEffect(w)) /\ WF_vars(CompleteReturns(w))
       /\ WF_vars(FailEffect(w)) /\ WF_vars(FailReturns(w))

FairSpec == Spec /\ Fairness

-----------------------------------------------------------------------------
(***************************************************************************)
(* Properties.                                                             *)
(***************************************************************************)

\* run_once says completed or failed only of an attempt that ended like that in
\* the database, whatever was lost on the way.
OutcomesAreTrue ==
  \A w \in Workers :
    LET n == outcome[w][2]
    IN  /\ outcome[w][1] = "completed" => ended[n] = "succeeded"
        /\ outcome[w][1] = "failed" => ended[n] = "failed"

\* A result is published once, by the last attempt.
PublishedOnce ==
  \A n \in Tokens : ended[n] = "succeeded" => n = issued /\ job.status = "succeeded"

\* A lease is renewed only for a worker that is still occupied with the job: no
\* heartbeat outlives the call of run_once it belongs to.
RenewedByOwner ==
  [][job'.lease > job.lease /\ job'.fence = job.fence
       => \E w \in Workers : Token(w) = job.fence /\ main[w].at \in {"handle", "join"}]_vars

\* A thread that waits for its next beat was answered less than a lease ago,
\* however its heartbeats failed in between: the budget ends one beat early.
\* Until the time of a call before that, the worker holds the lease.
BeatingIsLeased ==
  \A w \in Workers :
    main[w].at = "handle" /\ beat[w].at \in {"wait", "call"} =>
      /\ beat[w].at = "wait" => beat[w].since < Lease
      /\ beat[w].since + CallTerm < Lease => Live(Token(w))

\* Every job ends, and a worker that was told to stop does.
JobsEnd == <>(job.status \in {"succeeded", "failed"})
StopEnds == \A w \in Workers : stop[w] ~> main[w].at = "exit"
================================================================================
