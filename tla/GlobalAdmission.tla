---------------------------- MODULE GlobalAdmission ----------------------------
(***************************************************************************)
(* The gate in front of the worker queues (migrations 37 and 39).          *)
(*                                                                         *)
(* Uploads and chat turns share one limit.  Whoever makes a new piece of   *)
(* work visible takes a transaction lock, counts the work that is there    *)
(* and keeps the lock until it commits.  An upload or a queued run past    *)
(* its deadline is not counted; a call decides by the clock it read, which *)
(* may be older than the rows it meets.  A call is taken apart where       *)
(* another one may commit in between.                                      *)
(*                                                                         *)
(* Deadlines are relative: a deadline d lies d ticks from now, in the past *)
(* if it is not positive.                                                  *)
(***************************************************************************)
EXTENDS Integers, FiniteSets

CONSTANTS
  NoJob,     \* no job
  Jobs,      \* uploads, runs and chat turns; a job that is over may come again
  Backends,  \* the connections to the database
  Limit,     \* prereview.global_queue_max
  Ttl,       \* the ticks a reservation or a registration lives
  CallTerm   \* bound: the ticks between a clock reading and its use

ASSUME JobsAssumption == IsFiniteSet(Jobs) /\ NoJob \notin Jobs
ASSUME BackendsAssumption == IsFiniteSet(Backends)
ASSUME LimitAssumption == Limit \in Nat \ {0}
ASSUME TermAssumption == Ttl \in Nat /\ CallTerm \in Nat /\ CallTerm <= Ttl

VARIABLES
  status,    \* the committed status of a job
  deadline,  \* its committed expires_at
  call,      \* the call of each backend
  late       \* history: jobs that a call outside the gate put back into the
             \* count after their deadline had passed

vars == <<status, deadline, call, late>>

Statuses == {"none", "uploading", "queued", "running", "generating"}
Kinds    == {"reserve", "ask", "replay", "finalize", "claim"}
Past     == -CallTerm

\* A call waits for the gate, has it and decides, has been admitted, renews a
\* live reservation beside the gate, or looks for a run.  Its age is the number
\* of ticks since it read v_now.
Idle     == [kind |-> "none", job |-> NoJob, at |-> "idle", age |-> 0]

Init ==
  /\ status = [j \in Jobs |-> "none"]
  /\ deadline = [j \in Jobs |-> Past]
  /\ call = [b \in Backends |-> Idle]
  /\ late = {}

-----------------------------------------------------------------------------
\* A clock that was read a ticks ago lies before the deadline of j.
Live(j, a) == deadline[j] + a > 0

\* What admit_global_queue_work_v2 counts by such a clock.
Counted(a) ==
  {j \in Jobs : \/ status[j] \in {"uploading", "queued"} /\ Live(j, a)
                \/ status[j] \in {"running", "generating"}}

HasSlot(a) == Cardinality(Counted(a)) < Limit

\* No call holds the row of j, or is about to insert it.
Unlocked(j) == \A b \in Backends : call[b].job # j

GateFree(b) == \A c \in Backends \ {b} : call[c].at \notin {"decide", "admitted"}

Return(b)  == call' = [call EXCEPT ![b] = Idle]
Goto(b, p) == call' = [call EXCEPT ![b].at = p]

\* v_now plus the time to live.
Renewed(b) == Ttl - call[b].age

-----------------------------------------------------------------------------
(***************************************************************************)
(* Slips: forms of the code that must break a property.                    *)
(***************************************************************************)

\* A replay renews what it finds.
ReplayRenews(b, j) ==
  /\ call[b] = Idle /\ Unlocked(j)
  /\ status[j] = "uploading"
  /\ call' = [call EXCEPT ![b] = [kind |-> "replay", job |-> j, at |-> "renew", age |-> 0]]
  /\ UNCHANGED <<status, deadline, late>>

\* Finalization reads the clock before it waits for the gate.
LockWithOldClock(b) ==
  /\ call[b].at = "wait" /\ call[b].kind = "finalize"
  /\ GateFree(b)
  /\ Goto(b, "decide")
  /\ UNCHANGED <<status, deadline, late>>

-----------------------------------------------------------------------------
(***************************************************************************)
(* Calls that ask for a slot.                                              *)
(***************************************************************************)

Enter(b, kind, j, p) ==
  /\ call[b] = Idle /\ Unlocked(j)
  /\ call' = [call EXCEPT ![b] = [kind |-> kind, job |-> j, at |-> p, age |-> 0]]
  /\ UNCHANGED <<status, deadline, late>>

\* A new reservation, a new turn, or a turn that is retried.
EnterReserve(b, j) == status[j] = "none" /\ Enter(b, "reserve", j, "wait")
EnterAsk(b, j)     == status[j] = "none" /\ Enter(b, "ask", j, "wait")

\* The replay of a reservation asks for a slot only if it has lapsed.
EnterReplay(b, j) ==
  /\ status[j] = "uploading"
  /\ Enter(b, "replay", j, IF Live(j, 0) THEN "renew" ELSE "wait")

EnterFinalize(b, j) ==
  /\ status[j] \in {"uploading", "queued"}
  /\ Enter(b, "finalize", j, "wait")

\* admit_global_queue_work_v2: the lock, then the count by the older clock.
Admit(b) ==
  /\ call[b].at = "wait" /\ call[b].kind # "finalize"
  /\ GateFree(b)
  /\ IF HasSlot(call[b].age) THEN Goto(b, "admitted") ELSE Return(b)
  /\ UNCHANGED <<status, deadline, late>>

\* Finalization reads its clock under the lock.
LockGate(b) ==
  /\ call[b].at = "wait" /\ call[b].kind = "finalize"
  /\ GateFree(b)
  /\ call' = [call EXCEPT ![b].at = "decide", ![b].age = 0]
  /\ UNCHANGED <<status, deadline, late>>

\* Registered already: a replay.  Live: it has its slot.  Lapsed: it needs one,
\* or its object is left to cleanup.
Decide(b) ==
  LET j == call[b].job
      alive == status[j] = "uploading" /\ Live(j, call[b].age)
      lapsed == status[j] = "uploading" /\ ~Live(j, call[b].age)
  IN  /\ call[b].at = "decide"
      /\ \/ status[j] = "queued" /\ Return(b) /\ UNCHANGED <<status, late>>
         \/ alive /\ Goto(b, "admitted") /\ UNCHANGED <<status, late>>
         \/ lapsed /\ HasSlot(call[b].age) /\ Goto(b, "admitted")
                   /\ late' = late \ {j} /\ UNCHANGED status
         \/ lapsed /\ ~HasSlot(call[b].age) /\ Return(b)
                   /\ status' = [status EXCEPT ![j] = "none"]
                   /\ late' = late \ {j}
      /\ UNCHANGED deadline

\* The caller's own changes, and the commit that gives back the gate.
Commit(b) ==
  LET j == call[b].job
      k == call[b].kind
  IN  /\ call[b].at = "admitted"
      /\ status' = [status EXCEPT ![j] = IF k = "ask" THEN "generating"
                                        ELSE IF k = "finalize" THEN "queued" ELSE "uploading"]
      /\ deadline' = [deadline EXCEPT ![j] = IF k = "ask" THEN @ ELSE Renewed(b)]
      /\ late' = IF k = "finalize" THEN late ELSE late \ {j}
      /\ Return(b)

-----------------------------------------------------------------------------
(***************************************************************************)
(* Calls beside the gate.                                                  *)
(***************************************************************************)

\* The lapse of j while a call held on to an older clock.
NowLate(j) == late' = IF Live(j, 0) THEN late ELSE late \cup {j}

\* The replay of a live reservation.
Renew(b) ==
  LET j == call[b].job
  IN  /\ call[b].at = "renew"
      /\ deadline' = [deadline EXCEPT ![j] = Renewed(b)]
      /\ NowLate(j)
      /\ Return(b)
      /\ UNCHANGED status

EnterClaim(b) ==
  /\ call[b] = Idle
  /\ call' = [call EXCEPT ![b] = [kind |-> "claim", job |-> NoJob, at |-> "take", age |-> 0]]
  /\ UNCHANGED <<status, deadline, late>>

\* A claim of a registered run, by the clock of its entry (SKIP LOCKED).
Take(b) ==
  /\ call[b].at = "take"
  /\ LET candidates == {j \in Jobs : status[j] = "queued" /\ Live(j, call[b].age) /\ Unlocked(j)}
     IN  \/ \E j \in candidates : status' = [status EXCEPT ![j] = "running"] /\ NowLate(j)
         \/ candidates = {} /\ UNCHANGED <<status, late>>
  /\ Return(b)
  /\ UNCHANGED deadline

\* A failed attempt puts its run back under the deadline of its registration.
Requeue(j) ==
  /\ status[j] = "running" /\ Unlocked(j)
  /\ status' = [status EXCEPT ![j] = "queued"]
  /\ UNCHANGED <<deadline, call, late>>

\* Work ends, an upload is given up, a lapsed run or upload is settled.
End(j) ==
  /\ Unlocked(j)
  /\ \/ status[j] \in {"running", "generating", "uploading"}
     \/ status[j] = "queued" /\ ~Live(j, 0)
  /\ status' = [status EXCEPT ![j] = "none"]
  /\ late' = late \ {j}
  /\ UNCHANGED <<deadline, call>>

\* The connection is lost before the commit.
Lose(b) ==
  /\ call[b] # Idle
  /\ Return(b)
  /\ UNCHANGED <<status, deadline, late>>

Tick ==
  /\ \A b \in Backends : call[b].age < CallTerm
  /\ deadline' = [j \in Jobs |-> IF deadline[j] > Past THEN deadline[j] - 1 ELSE Past]
  /\ call' = [b \in Backends |-> IF call[b] = Idle THEN Idle ELSE [call[b] EXCEPT !.age = @ + 1]]
  /\ UNCHANGED <<status, late>>

Next ==
  \/ Tick
  \/ \E j \in Jobs : Requeue(j) \/ End(j)
  \/ \E b \in Backends :
       \/ \E j \in Jobs : \/ EnterReserve(b, j) \/ EnterAsk(b, j)
                         \/ EnterReplay(b, j) \/ EnterFinalize(b, j)
       \/ Admit(b) \/ LockGate(b) \/ Decide(b) \/ Commit(b)
       \/ Renew(b) \/ EnterClaim(b) \/ Take(b) \/ Lose(b)

Spec == Init /\ [][Next]_vars

-----------------------------------------------------------------------------
(***************************************************************************)
(* Properties.                                                             *)
(***************************************************************************)

\* The work that the gate lets in stays within the limit, whatever happens
\* between a count and the commit that follows it: an excess consists of jobs
\* that a call beside the gate revived by an old clock.
AdmissionBound == Cardinality(Counted(0) \ late) <= Limit

\* Revived jobs do not add up: the excess is at most one job for every other
\* connection, however long the history.
ExcessBound == Cardinality(Counted(0)) <= Limit + Cardinality(Backends) - 1
=============================================================================
