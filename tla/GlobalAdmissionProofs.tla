------------------------- MODULE GlobalAdmissionProofs -------------------------
(* Proof, for any number of jobs and connections, any limit and any lengths of *)
(* calls and deadlines, that the gate lets in no more than the limit.          *)
EXTENDS GlobalAdmission, FiniteSetTheorems, TLAPS

-----------------------------------------------------------------------------
(***************************************************************************)
(* The invariant.                                                          *)
(***************************************************************************)
CallRec == [kind : Kinds \cup {"none"}, job : Jobs \cup {NoJob},
            at : {"idle", "wait", "decide", "admitted", "renew", "take"}, age : 0..CallTerm]

\* Deadlines are never further in the past than a clock reading can be old.
Types ==
  /\ status   \in [Jobs -> Statuses]
  /\ deadline \in [Jobs -> Int] /\ \A j \in Jobs : deadline[j] >= Past
  /\ call     \in [Backends -> CallRec]
  /\ late     \subseteq Jobs

\* A call that is to change a job has locked it; only finalization decides.
CallAt(b) ==
  /\ call[b].at \in {"wait", "decide", "admitted", "renew"} => call[b].job \in Jobs
  /\ call[b].at = "decide" => call[b].kind = "finalize"

\* The call has the gate.
AtGate(b) == call[b].at \in {"decide", "admitted"}

\* No two calls have the gate, or one job.
Exclusive ==
  \A b, c \in Backends : b # c =>
    /\ call[b].job = NoJob \/ call[b].job # call[c].job
    /\ ~(AtGate(b) /\ AtGate(c))

\* The slots in use, but for the jobs that came back late.
Held == Counted(0) \ late

\* Whoever has been admitted still has a slot when it commits.  A finalization
\* that finds its reservation live by its clock is admitted without a count: the
\* reservation has a slot, or is one of the late.
SlotKept(b) ==
  LET j == call[b].job
  IN  /\ call[b].at = "admitted" =>
           \/ call[b].kind = "finalize" /\ j \in late
           \/ Cardinality(Held \cup {j}) <= Limit
      /\ /\ call[b].at = "decide" /\ status[j] = "uploading"
         /\ Live(j, call[b].age) /\ j \notin late
         => Cardinality(Held \cup {j}) <= Limit

Inv ==
  /\ Types /\ Exclusive /\ AdmissionBound
  /\ \A b \in Backends : CallAt(b) /\ SlotKept(b)

-----------------------------------------------------------------------------
(***************************************************************************)
(* Sets of jobs.                                                           *)
(***************************************************************************)

\* A subset of a set of jobs is no larger, and one more job adds at most one.
LEMMA Sizes ==
  ASSUME NEW S \in SUBSET Jobs, NEW T \in SUBSET Jobs, NEW j \in Jobs
  PROVE  /\ Cardinality(S) \in Nat /\ Cardinality(T) \in Nat
         /\ T \subseteq S => Cardinality(T) <= Cardinality(S)
         /\ T \subseteq S \cup {j} => Cardinality(T) <= Cardinality(S) + 1
<1>1. IsFiniteSet(S) /\ IsFiniteSet(T) /\ IsFiniteSet(S \cup {j})
  BY JobsAssumption, FS_Subset
<1>2. Cardinality(S \cup {j}) <= Cardinality(S) + 1
  BY <1>1, FS_CardinalityType, FS_AddElement
<1>3. T \subseteq S \cup {j} => Cardinality(T) <= Cardinality(S \cup {j})
  BY <1>1, FS_Subset
<1>4. T \subseteq S => Cardinality(T) <= Cardinality(S)
  BY <1>1, FS_Subset
<1>5. Cardinality(S) \in Nat /\ Cardinality(T) \in Nat /\ Cardinality(S \cup {j}) \in Nat
  BY <1>1, FS_CardinalityType
<1> QED
  BY <1>2, <1>3, <1>4, <1>5

\* The count by an older clock includes the count by the present one.
LEMMA OlderCountsMore ==
  ASSUME Types, NEW a \in 0..CallTerm
  PROVE  Counted(0) \subseteq Counted(a)
BY TermAssumption DEF Types, Counted, Live, Past

-----------------------------------------------------------------------------
(***************************************************************************)
(* Types, and who has what.                                                *)
(***************************************************************************)

\* Every step keeps the types.
LEMMA TypesStep == Inv /\ [Next]_vars => Types'
<1> SUFFICES ASSUME Inv, [Next]_vars PROVE Types'
  OBVIOUS
<1>0. Types /\ \A b \in Backends : CallAt(b)
  BY DEF Inv
<1> USE TermAssumption, JobsAssumption
<1>1. CASE Tick
  <2>1. \A b \in Backends : call[b] # Idle => [call[b] EXCEPT !.age = @ + 1] \in CallRec
    <3>1. ASSUME NEW b \in Backends PROVE call[b] \in CallRec /\ call[b].age + 1 \in 0..CallTerm
      BY <1>0, <1>1, <3>1 DEF Tick, Types, CallRec
    <3>2. ASSUME NEW r \in CallRec, r.age + 1 \in 0..CallTerm
          PROVE  [r EXCEPT !.age = @ + 1] \in CallRec
      BY <3>2 DEF CallRec
    <3> QED
      BY <3>1, <3>2
  <2>2. call' \in [Backends -> CallRec]
    BY <1>0, <1>1, <2>1 DEF Tick, Types
  <2> QED
    BY <1>0, <1>1, <2>2 DEF Tick, Types, Past
<1>2. ASSUME NEW j \in Jobs, Requeue(j) \/ End(j) PROVE Types'
  BY <1>0, <1>2 DEF Requeue, End, Types, Statuses
<1>3. Idle \in CallRec
  BY DEF Idle, CallRec
<1>4. ASSUME NEW b \in Backends, NEW j \in Jobs,
             EnterReserve(b, j) \/ EnterAsk(b, j) \/ EnterReplay(b, j) \/ EnterFinalize(b, j)
      PROVE  Types'
  BY <1>0, <1>4 DEF EnterReserve, EnterAsk, EnterReplay, EnterFinalize, Enter, Types, CallRec, Kinds
<1>5. ASSUME NEW b \in Backends, Admit(b) \/ LockGate(b) \/ EnterClaim(b) \/ Lose(b) PROVE Types'
  BY <1>0, <1>3, <1>5 DEF Admit, LockGate, EnterClaim, Lose, Goto, Return, Types, CallRec, Kinds
<1>6. ASSUME NEW b \in Backends, Decide(b) PROVE Types'
  <2>1. call[b].job \in Jobs
    BY <1>0, <1>6 DEF Decide, CallAt
  <2> QED
    BY <1>0, <1>3, <1>6, <2>1 DEF Decide, Goto, Return, Types, CallRec, Statuses
<1>7. ASSUME NEW b \in Backends, Commit(b) \/ Renew(b) PROVE Types'
  <2>1. call[b].job \in Jobs /\ Renewed(b) \in Int /\ Renewed(b) >= Past
    BY <1>0, <1>7 DEF Commit, Renew, CallAt, Renewed, Types, CallRec, Past
  <2>2. call' \in [Backends -> CallRec]
    BY <1>0, <1>3, <1>7 DEF Commit, Renew, Return, Types
  <2>3. deadline' \in [Jobs -> Int] /\ \A i \in Jobs : deadline'[i] >= Past
    BY <1>0, <1>7, <2>1 DEF Commit, Renew, Types
  <2>4. status' \in [Jobs -> Statuses] /\ late' \subseteq Jobs
    BY <1>0, <1>7, <2>1 DEF Commit, Renew, NowLate, Types, Statuses
  <2> QED
    BY <2>2, <2>3, <2>4 DEF Types
<1>8. ASSUME NEW b \in Backends, Take(b) PROVE Types'
  BY <1>0, <1>3, <1>8 DEF Take, Return, NowLate, Types, Statuses
<1> QED
  BY <1>0, <1>1, <1>2, <1>4, <1>5, <1>6, <1>7, <1>8 DEF Next, vars, Types

\* How a call goes on.
LEMMA CallMoves ==
  ASSUME Inv, [Next]_vars
  PROVE  \/ \A b \in Backends : /\ call'[b].at = call[b].at /\ call'[b].kind = call[b].kind
                                /\ call'[b].job = call[b].job
         \/ \E b \in Backends :
              /\ \A c \in Backends \ {b} : call'[c] = call[c]
              /\ \/ call'[b] = Idle
                 \/ call[b] = Idle /\ call'[b].at = "take" /\ call'[b].job = NoJob
                 \/ /\ call[b] = Idle /\ call'[b].at \in {"wait", "renew"}
                    /\ call'[b].job \in Jobs /\ Unlocked(call'[b].job)
                 \/ /\ call'[b].kind = call[b].kind /\ call'[b].job = call[b].job
                    /\ \/ /\ call[b].at = "wait" /\ GateFree(b)
                          /\ call'[b].at = IF call[b].kind = "finalize"
                                           THEN "decide" ELSE "admitted"
                       \/ call[b].at = "decide" /\ call'[b].at = "admitted"
<1>0. call \in [Backends -> CallRec]
  BY DEF Inv, Types
<1>1. CASE Tick
  BY <1>0, <1>1 DEF Tick, CallRec
<1>2. ASSUME NEW b \in Backends, NEW j \in Jobs,
             EnterReserve(b, j) \/ EnterAsk(b, j) \/ EnterReplay(b, j) \/ EnterFinalize(b, j)
      PROVE  /\ \A c \in Backends \ {b} : call'[c] = call[c]
             /\ call[b] = Idle /\ call'[b].at \in {"wait", "renew"}
             /\ call'[b].job = j /\ Unlocked(j)
  BY <1>0, <1>2 DEF EnterReserve, EnterAsk, EnterReplay, EnterFinalize, Enter
<1>3. ASSUME NEW b \in Backends, Admit(b) \/ LockGate(b) \/ Decide(b)
      PROVE  /\ \A c \in Backends \ {b} : call'[c] = call[c]
             /\ \/ call'[b] = Idle
                \/ /\ call'[b].kind = call[b].kind /\ call'[b].job = call[b].job
                   /\ \/ /\ call[b].at = "wait" /\ GateFree(b)
                         /\ call'[b].at = IF call[b].kind = "finalize"
                                          THEN "decide" ELSE "admitted"
                      \/ call[b].at = "decide" /\ call'[b].at = "admitted"
  BY <1>0, <1>3 DEF Admit, LockGate, Decide, Goto, Return, CallRec
<1>4. ASSUME NEW b \in Backends, Commit(b) \/ Renew(b) \/ Take(b) \/ Lose(b)
      PROVE  call'[b] = Idle /\ \A c \in Backends \ {b} : call'[c] = call[c]
  BY <1>0, <1>4 DEF Commit, Renew, Take, Lose, Return
<1>5. ASSUME NEW b \in Backends, EnterClaim(b)
      PROVE  /\ \A c \in Backends \ {b} : call'[c] = call[c]
             /\ call[b] = Idle /\ call'[b].at = "take" /\ call'[b].job = NoJob
  BY <1>0, <1>5 DEF EnterClaim
<1>6. CASE UNCHANGED call
  BY <1>6
<1>7. ASSUME NEW j \in Jobs, Requeue(j) \/ End(j) PROVE UNCHANGED call
  BY <1>7 DEF Requeue, End
<1> QED
  BY <1>1, <1>2, <1>3, <1>4, <1>5, <1>6, <1>7 DEF Next, vars

\* Every step keeps what a call has locked, and the gate for one call.
LEMMA ExclusiveStep == Inv /\ [Next]_vars => Exclusive' /\ \A b \in Backends : CallAt(b)'
<1> SUFFICES ASSUME Inv, [Next]_vars PROVE Exclusive' /\ \A b \in Backends : CallAt(b)'
  OBVIOUS
<1>0. Exclusive /\ \A b \in Backends : CallAt(b)
  BY DEF Inv
<1>1. CASE \A b \in Backends : /\ call'[b].at = call[b].at /\ call'[b].kind = call[b].kind
                               /\ call'[b].job = call[b].job
  BY <1>0, <1>1 DEF Exclusive, CallAt, AtGate
<1>2. ASSUME NEW b \in Backends, \A c \in Backends \ {b} : call'[c] = call[c],
             call'[b].job = NoJob \/ call'[b].job = call[b].job
               \/ (call'[b].job \in Jobs /\ Unlocked(call'[b].job)),
             ~AtGate(b)' \/ AtGate(b) \/ GateFree(b),
             CallAt(b)'
      PROVE  Exclusive' /\ \A c \in Backends : CallAt(c)'
  <2>1. \A c \in Backends : CallAt(c)'
    BY <1>0, <1>2 DEF CallAt
  <2>2. ASSUME NEW c \in Backends \ {b}
        PROVE  /\ call'[b].job = NoJob \/ call'[b].job # call'[c].job
               /\ call'[c].job = NoJob \/ call'[c].job # call'[b].job
               /\ ~(AtGate(b)' /\ AtGate(c)')
    <3>1. /\ call[b].job = NoJob \/ call[b].job # call[c].job
          /\ call[c].job = NoJob \/ call[c].job # call[b].job
          /\ ~(AtGate(b) /\ AtGate(c))
      BY <1>0 DEF Exclusive
    <3>2. AtGate(c)' <=> AtGate(c)
      BY <1>2 DEF AtGate
    <3>3. GateFree(b) => ~AtGate(c)
      BY DEF GateFree, AtGate
    <3>4. Unlocked(call'[b].job) => call[c].job # call'[b].job
      BY DEF Unlocked
    <3> QED
      BY <1>2, <3>1, <3>2, <3>3, <3>4
  <2>3. ASSUME NEW c \in Backends, NEW d \in Backends, c # d
        PROVE  /\ call'[c].job = NoJob \/ call'[c].job # call'[d].job
               /\ ~(AtGate(c)' /\ AtGate(d)')
    <3>1. CASE c = b \/ d = b
      BY <2>2, <2>3, <3>1
    <3>2. CASE c # b /\ d # b
      BY <1>0, <1>2, <2>3, <3>2 DEF Exclusive, AtGate
    <3> QED
      BY <3>1, <3>2
  <2> QED
    BY <2>1, <2>3 DEF Exclusive, AtGate
<1>3. ASSUME NEW b \in Backends, \A c \in Backends \ {b} : call'[c] = call[c], call'[b] = Idle
      PROVE  Exclusive' /\ \A c \in Backends : CallAt(c)'
  BY <1>2, <1>3 DEF Idle, AtGate, CallAt
<1>4. ASSUME NEW b \in Backends, \A c \in Backends \ {b} : call'[c] = call[c],
             call'[b].at = "take", call'[b].job = NoJob
      PROVE  Exclusive' /\ \A c \in Backends : CallAt(c)'
  BY <1>2, <1>4 DEF AtGate, CallAt
<1>5. ASSUME NEW b \in Backends, \A c \in Backends \ {b} : call'[c] = call[c],
             call'[b].at \in {"wait", "renew"}, call'[b].job \in Jobs, Unlocked(call'[b].job)
      PROVE  Exclusive' /\ \A c \in Backends : CallAt(c)'
  BY <1>2, <1>5 DEF AtGate, CallAt
<1>6. ASSUME NEW b \in Backends, \A c \in Backends \ {b} : call'[c] = call[c],
             call'[b].kind = call[b].kind, call'[b].job = call[b].job,
             \/ /\ call[b].at = "wait" /\ GateFree(b)
                /\ call'[b].at = IF call[b].kind = "finalize" THEN "decide" ELSE "admitted"
             \/ call[b].at = "decide" /\ call'[b].at = "admitted"
      PROVE  Exclusive' /\ \A c \in Backends : CallAt(c)'
  <2>1. CallAt(b)'
    BY <1>0, <1>6 DEF CallAt
  <2>2. AtGate(b) \/ GateFree(b)
    BY <1>6 DEF AtGate
  <2> QED
    BY <1>2, <1>6, <2>1, <2>2
<1> QED
  BY <1>1, <1>3, <1>4, <1>5, <1>6, CallMoves

-----------------------------------------------------------------------------
(***************************************************************************)
(* Slots.                                                                  *)
(***************************************************************************)

\* What is counted are jobs.
LEMMA HeldJobs ==
  Held \in SUBSET Jobs /\ \A a \in 0..CallTerm : Counted(a) \in SUBSET Jobs
BY DEF Held, Counted

\* A call that goes on as before keeps its slot if no other job takes one.
LEMMA SlotStays ==
  ASSUME Types, Types', NEW c \in Backends, CallAt(c), SlotKept(c), Held' \subseteq Held,
         call'[c].at = call[c].at, call'[c].kind = call[c].kind, call'[c].job = call[c].job,
         AtGate(c) =>
           LET j == call[c].job
           IN  /\ j \in late <=> j \in late'
               /\ status'[j] = status[j]
               /\ Live(j, call[c].age)' => Live(j, call[c].age)
  PROVE  SlotKept(c)'
<1> DEFINE j == call[c].job
<1>1. CASE ~AtGate(c)
  BY <1>1 DEF SlotKept, AtGate
<1>2. CASE AtGate(c)
  <2>1. j \in Jobs
    BY <1>2 DEF AtGate, CallAt
  <2>2. Cardinality(Held \cup {j}) <= Limit => Cardinality(Held' \cup {j}) <= Limit
    <3>1. Held \cup {j} \in SUBSET Jobs /\ Held' \cup {j} \in SUBSET (Held \cup {j})
      BY <2>1, HeldJobs
    <3>2. /\ Cardinality(Held \cup {j}) \in Nat /\ Cardinality(Held' \cup {j}) \in Nat
          /\ Cardinality(Held' \cup {j}) <= Cardinality(Held \cup {j})
      BY <2>1, <3>1, Sizes
    <3> QED
      BY <3>2, LimitAssumption
  <2> QED
    BY <1>2, <2>2 DEF SlotKept
<1> QED
  BY <1>1, <1>2

\* The limit holds after a step that gives no slot away.
LEMMA BoundStays ==
  ASSUME Types, AdmissionBound, Held' \subseteq Held
  PROVE  AdmissionBound'
<1>1. Held \in SUBSET Jobs /\ Held' \in SUBSET Jobs
  BY HeldJobs
<1>2. Cardinality(Held) \in Nat /\ Cardinality(Held') \in Nat /\ Cardinality(Held') <= Cardinality(Held)
  BY <1>1, FS_Subset, FS_CardinalityType, JobsAssumption
<1>3. Cardinality(Held) <= Limit
  BY DEF AdmissionBound, Held
<1>4. Cardinality(Held') <= Limit
  BY <1>2, <1>3, LimitAssumption
<1> QED
  BY <1>4 DEF AdmissionBound, Held

\* The other calls keep their slots when one call ends or goes on.
LEMMA OthersKeep ==
  ASSUME Inv, Types', NEW b \in Backends, NEW c \in Backends \ {b}, call'[c] = call[c],
         Held' \subseteq Held \/ AtGate(b),
         \A i \in Jobs : i # call[b].job /\ ~Unlocked(i) =>
           /\ i \in late <=> i \in late'
           /\ status'[i] = status[i] /\ deadline'[i] = deadline[i]
  PROVE  SlotKept(c)'
<1>1. CASE ~AtGate(c)
  BY <1>1 DEF SlotKept, AtGate
<1>2. CASE AtGate(c)
  <2> DEFINE j == call[c].job
  <2>1. Types /\ CallAt(c) /\ SlotKept(c) /\ ~AtGate(b) /\ j \in Jobs
    BY <1>2 DEF Inv, Exclusive, CallAt, AtGate
  <2>2. ~Unlocked(j) /\ j # call[b].job
    BY <2>1, JobsAssumption DEF Inv, Exclusive, Unlocked
  <2>3. /\ j \in late <=> j \in late'
        /\ status'[j] = status[j] /\ deadline'[j] = deadline[j]
    BY <2>1, <2>2
  <2>4. Held' \subseteq Held
    BY <2>1
  <2> QED
    BY <2>1, <2>3, <2>4, SlotStays DEF Live
<1> QED
  BY <1>1, <1>2

\* Time takes slots away and gives none.
LEMMA TickStep == Inv /\ Types' /\ Tick => AdmissionBound' /\ \A c \in Backends : SlotKept(c)'
<1> SUFFICES ASSUME Inv, Types', Tick PROVE AdmissionBound' /\ \A c \in Backends : SlotKept(c)'
  OBVIOUS
<1>0. Types /\ AdmissionBound /\ \A c \in Backends : CallAt(c) /\ SlotKept(c)
  BY DEF Inv
<1> USE TermAssumption
<1>1. Held' \subseteq Held
  <2>1. \A j \in Jobs : deadline'[j] > 0 => deadline[j] > 0
    BY <1>0 DEF Tick, Types, Past
  <2> QED
    BY <1>0, <2>1 DEF Tick, Held, Counted, Live, Types
<1>2. ASSUME NEW c \in Backends PROVE SlotKept(c)'
  <2>1. /\ call'[c].at = call[c].at /\ call'[c].kind = call[c].kind /\ call'[c].job = call[c].job
        /\ AtGate(c) => call'[c].age = call[c].age + 1
    BY <1>0 DEF Tick, Types, CallRec, AtGate, Idle
  <2>2. ASSUME AtGate(c) PROVE Live(call[c].job, call[c].age)' => Live(call[c].job, call[c].age)
    <3>1. call[c].job \in Jobs /\ call[c].age \in 0..CallTerm /\ call[c].age < CallTerm
      BY <1>0, <2>2 DEF AtGate, CallAt, Types, CallRec, Tick
    <3>2. deadline[call[c].job] \in Int /\ deadline[call[c].job] >= Past
      BY <1>0, <3>1 DEF Types
    <3>3. deadline'[call[c].job] =
            IF deadline[call[c].job] > Past THEN deadline[call[c].job] - 1 ELSE Past
      BY <3>1 DEF Tick
    <3> QED
      BY <2>1, <2>2, <3>1, <3>2, <3>3 DEF Live, Past
  <2> QED
    BY <1>0, <1>1, <2>1, <2>2, SlotStays DEF Tick
<1> QED
  BY <1>0, <1>1, <1>2, BoundStays

\* Work that ends or fails beside the gate.
LEMMA EndingStep ==
  ASSUME Inv, Types', NEW i \in Jobs, Requeue(i) \/ End(i)
  PROVE  AdmissionBound' /\ \A c \in Backends : SlotKept(c)'
<1>0. Types /\ AdmissionBound /\ \A c \in Backends : CallAt(c) /\ SlotKept(c)
  BY DEF Inv
<1>1. Held' \subseteq Held
  BY <1>0 DEF Requeue, End, Held, Counted, Live, Types
<1>2. ASSUME NEW c \in Backends PROVE SlotKept(c)'
  <2>1. Unlocked(i) /\ call' = call /\ deadline' = deadline
    BY DEF Requeue, End
  <2>2. call[c].job # i
    BY <2>1 DEF Unlocked
  <2>3. ASSUME AtGate(c) PROVE /\ call[c].job \in late <=> call[c].job \in late'
                               /\ status'[call[c].job] = status[call[c].job]
    BY <1>0, <2>2, <2>3 DEF AtGate, CallAt, Requeue, End, Types
  <2> QED
    BY <1>0, <1>1, <2>1, <2>3, SlotStays DEF Live
<1> QED
  BY <1>0, <1>1, <1>2, BoundStays

\* Calls that give no slot away: they begin, end, or work beside the gate.
LEMMA BesideStep ==
  ASSUME Inv, Types', NEW b \in Backends,
         \/ \E j \in Jobs : \/ EnterReserve(b, j) \/ EnterAsk(b, j)
                            \/ EnterReplay(b, j) \/ EnterFinalize(b, j)
         \/ EnterClaim(b) \/ Lose(b) \/ Renew(b) \/ Take(b)
  PROVE  AdmissionBound' /\ \A c \in Backends : SlotKept(c)'
<1>0. Types /\ AdmissionBound /\ \A c \in Backends : CallAt(c) /\ SlotKept(c)
  BY DEF Inv
<1>1. /\ \A c \in Backends \ {b} : call'[c] = call[c]
      /\ ~AtGate(b)'
  BY <1>0 DEF EnterReserve, EnterAsk, EnterReplay, EnterFinalize, Enter, EnterClaim, Lose, Renew,
     Take, Return, Idle, AtGate, Types
<1>2. CASE Renew(b)
  <2>1. call[b].job \in Jobs
    BY <1>0, <1>2 DEF Renew, CallAt
  <2>2. Held' \subseteq Held
    BY <1>0, <1>2, <2>1 DEF Renew, NowLate, Held, Counted, Live, Types
  <2>3. \A i \in Jobs : i # call[b].job =>
          /\ i \in late <=> i \in late'
          /\ status'[i] = status[i] /\ deadline'[i] = deadline[i]
    BY <1>0, <1>2, <2>1 DEF Renew, NowLate, Types
  <2> QED
    BY <1>0, <1>1, <2>2, <2>3, BoundStays, OthersKeep DEF SlotKept, AtGate
<1>3. CASE Take(b)
  <2>1. Held' \subseteq Held
    BY <1>0, <1>3 DEF Take, NowLate, Held, Counted, Live, Types
  <2>2. \A i \in Jobs : ~Unlocked(i) =>
          /\ i \in late <=> i \in late'
          /\ status'[i] = status[i] /\ deadline'[i] = deadline[i]
    BY <1>0, <1>3 DEF Take, NowLate, Types
  <2> QED
    BY <1>0, <1>1, <2>1, <2>2, BoundStays, OthersKeep DEF SlotKept, AtGate
<1>4. CASE UNCHANGED <<status, deadline, late>>
  <2>1. Held' = Held
    BY <1>4 DEF Held, Counted, Live
  <2> QED
    BY <1>0, <1>1, <1>4, <2>1, BoundStays, OthersKeep DEF SlotKept, AtGate
<1> QED
  BY <1>2, <1>3, <1>4 DEF EnterReserve, EnterAsk, EnterReplay, EnterFinalize, Enter, EnterClaim, Lose

\* The gate: a count below the limit leaves room for one, until the commit.
LEMMA GateStep ==
  ASSUME Inv, Types', NEW b \in Backends, Admit(b) \/ LockGate(b)
  PROVE  AdmissionBound' /\ \A c \in Backends : SlotKept(c)'
<1>0. Types /\ AdmissionBound /\ \A c \in Backends : CallAt(c) /\ SlotKept(c)
  BY DEF Inv
<1> DEFINE j == call[b].job
<1>1. /\ UNCHANGED <<status, deadline, late>> /\ Held' = Held
      /\ \A c \in Backends \ {b} : call'[c] = call[c]
      /\ j \in Jobs /\ call[b].age \in 0..CallTerm
  BY <1>0 DEF Admit, LockGate, Held, Counted, Live, Goto, Return, Types, CallRec, CallAt
<1>2. SlotKept(b)'
  <2>1. CASE Admit(b) /\ HasSlot(call[b].age)
    <3>1. Cardinality(Held \cup {j}) <= Limit
      <4>1. Counted(call[b].age) \in SUBSET Jobs /\ Held \cup {j} \subseteq Counted(call[b].age) \cup {j}
        BY <1>0, <1>1, OlderCountsMore DEF Held, Counted
      <4>2. Cardinality(Counted(call[b].age)) < Limit
        BY <2>1 DEF HasSlot
      <4>3. Held \cup {j} \in SUBSET Jobs
        BY <1>0, <1>1, HeldJobs
      <4> QED
        BY <1>1, <4>1, <4>2, <4>3, Sizes, LimitAssumption
    <3>2. call'[b].at = "admitted" /\ call'[b].job = j
      BY <1>0, <2>1 DEF Admit, Goto, Types, CallRec
    <3> QED
      BY <1>1, <3>1, <3>2 DEF SlotKept
  <2>2. CASE Admit(b) /\ ~HasSlot(call[b].age)
    BY <1>0, <2>2 DEF Admit, Return, Idle, Types, SlotKept
  <2>3. CASE LockGate(b)
    <3>1. call'[b].at = "decide" /\ call'[b].job = j /\ call'[b].age = 0
      BY <1>0, <2>3 DEF LockGate, Types, CallRec
    <3>2. ASSUME status[j] = "uploading", Live(j, 0), j \notin late
          PROVE  Cardinality(Held \cup {j}) <= Limit
      <4>1. Held \cup {j} = Held
        BY <1>1, <3>2 DEF Held, Counted
      <4> QED
        BY <1>0, <4>1 DEF AdmissionBound, Held
    <3> QED
      BY <1>1, <3>1, <3>2 DEF SlotKept, Live
  <2> QED
    BY <2>1, <2>2, <2>3
<1> QED
  BY <1>0, <1>1, <1>2, BoundStays, OthersKeep

\* Finalization decides, and whoever was admitted commits.
LEMMA DecideStep ==
  ASSUME Inv, Types', NEW b \in Backends, Decide(b)
  PROVE  AdmissionBound' /\ \A c \in Backends : SlotKept(c)'
<1>0. Types /\ AdmissionBound /\ CallAt(b) /\ SlotKept(b)
  BY DEF Inv
<1> DEFINE j == call[b].job
<1>1. /\ AtGate(b) /\ call[b].kind = "finalize" /\ j \in Jobs /\ call[b].age \in 0..CallTerm
      /\ \A c \in Backends \ {b} : call'[c] = call[c]
      /\ deadline' = deadline
      /\ \A i \in Jobs : i # j => (i \in late <=> i \in late') /\ status'[i] = status[i]
  BY <1>0 DEF Decide, Goto, Return, AtGate, CallAt, Types, CallRec
<1>2. \A c \in Backends \ {b} : SlotKept(c)'
  BY <1>1, OthersKeep
<1>3. CASE status[j] = "uploading" /\ ~Live(j, call[b].age) /\ HasSlot(call[b].age)
           /\ Goto(b, "admitted") /\ late' = late \ {j} /\ UNCHANGED status
  <2>1. Counted(call[b].age) \in SUBSET Jobs /\ Held' \cup {j} \subseteq Counted(call[b].age) \cup {j}
    BY <1>0, <1>1, <1>3, OlderCountsMore DEF Held, Counted, Live
  <2>2. Cardinality(Counted(call[b].age)) < Limit
    BY <1>3 DEF HasSlot
  <2>3. Held' \cup {j} \in SUBSET Jobs /\ Held' \in SUBSET Jobs
    BY <1>1 DEF Held, Counted
  <2>4. Cardinality(Held' \cup {j}) <= Limit
    BY <1>1, <2>1, <2>2, <2>3, Sizes, LimitAssumption
  <2>5. Cardinality(Held') <= Limit
    BY <1>1, <2>1, <2>2, <2>3, Sizes, LimitAssumption
  <2>6. call'[b].at = "admitted" /\ call'[b].job = j
    BY <1>0, <1>3 DEF Goto, Types, CallRec
  <2>7. SlotKept(b)'
    BY <2>4, <2>6 DEF SlotKept
  <2> QED
    BY <1>2, <2>5, <2>7 DEF AdmissionBound, Held
<1>4. CASE status[j] = "uploading" /\ Live(j, call[b].age)
           /\ Goto(b, "admitted") /\ UNCHANGED <<status, late>>
  <2>1. Held' = Held
    BY <1>1, <1>4 DEF Held, Counted, Live
  <2>2. call'[b].at = "admitted" /\ call'[b].job = j /\ call'[b].kind = "finalize"
    BY <1>0, <1>1, <1>4 DEF Goto, Types, CallRec
  <2>3. SlotKept(b)'
    BY <1>0, <1>4, <2>1, <2>2 DEF SlotKept, Decide
  <2> QED
    BY <1>0, <1>2, <2>1, <2>3, BoundStays
<1>5. CASE Return(b) /\ (UNCHANGED <<status, late>>
                          \/ (status' = [status EXCEPT ![j] = "none"] /\ late' = late \ {j}))
  <2>1. Held' \subseteq Held
    BY <1>0, <1>1, <1>5 DEF Held, Counted, Live, Types
  <2>2. SlotKept(b)'
    BY <1>0, <1>5 DEF Return, Idle, Types, SlotKept
  <2> QED
    BY <1>0, <1>2, <2>1, <2>2, BoundStays
<1> QED
  BY <1>3, <1>4, <1>5 DEF Decide

\* The commit uses the slot that was kept.
LEMMA CommitStep ==
  ASSUME Inv, Types', NEW b \in Backends, Commit(b)
  PROVE  AdmissionBound' /\ \A c \in Backends : SlotKept(c)'
<1>0. Types /\ AdmissionBound /\ CallAt(b) /\ SlotKept(b)
  BY DEF Inv
<1> DEFINE j == call[b].job
<1>1. /\ AtGate(b) /\ j \in Jobs /\ call[b].at = "admitted"
      /\ \A c \in Backends \ {b} : call'[c] = call[c]
      /\ \A i \in Jobs : i # j => /\ i \in late <=> i \in late'
                                  /\ status'[i] = status[i] /\ deadline'[i] = deadline[i]
      /\ late' = late \/ (late' = late \ {j} /\ call[b].kind # "finalize")
  BY <1>0 DEF Commit, Return, AtGate, CallAt, Types
<1>2. \A c \in Backends \ {b} : SlotKept(c)'
  BY <1>1, OthersKeep
<1>3. SlotKept(b)'
  BY <1>0 DEF Commit, Return, Idle, Types, SlotKept
<1>4. Held' \subseteq Held \cup {j}
  BY <1>0, <1>1 DEF Held, Counted, Live, Types
<1>5. CASE call[b].kind = "finalize" /\ j \in late
  <2>1. Held' \subseteq Held
    BY <1>1, <1>4, <1>5 DEF Held
  <2> QED
    BY <1>0, <1>2, <1>3, <2>1, BoundStays
<1>6. CASE Cardinality(Held \cup {j}) <= Limit
  <2>1. Held \cup {j} \in SUBSET Jobs /\ Held' \in SUBSET Jobs
    BY <1>1 DEF Held, Counted
  <2>2. Cardinality(Held') <= Limit
    BY <1>1, <1>4, <1>6, <2>1, Sizes, LimitAssumption
  <2> QED
    BY <1>2, <1>3, <2>2 DEF AdmissionBound, Held
<1> QED
  BY <1>0, <1>1, <1>5, <1>6 DEF SlotKept

-----------------------------------------------------------------------------
(***************************************************************************)
(* The theorem.                                                            *)
(***************************************************************************)

\* Nothing is counted and nobody calls at first.
LEMMA Initially == Init => Inv
<1> SUFFICES ASSUME Init PROVE Inv
  OBVIOUS
<1>1. Types
  BY TermAssumption DEF Init, Types, CallRec, Idle, Statuses, Past
<1>2. Held = {}
  BY DEF Init, Held, Counted
<1>3. AdmissionBound
  BY <1>2, LimitAssumption, FS_EmptySet DEF AdmissionBound, Held
<1> QED
  BY <1>1, <1>3 DEF Init, Idle, Inv, Exclusive, AtGate, CallAt, SlotKept

\* The invariant is inductive.
LEMMA InvariantStep == Inv /\ [Next]_vars => Inv'
<1> SUFFICES ASSUME Inv, [Next]_vars PROVE Inv'
  OBVIOUS
<1>1. Types' /\ Exclusive' /\ \A b \in Backends : CallAt(b)'
  BY TypesStep, ExclusiveStep
<1>2. CASE UNCHANGED vars
  BY <1>2 DEF vars, Inv, Types, Exclusive, AtGate, CallAt, SlotKept, AdmissionBound, Held, Counted, Live
<1>3. CASE Next
  <2>1. AdmissionBound' /\ \A c \in Backends : SlotKept(c)'
    BY <1>1, <1>3, TickStep, EndingStep, BesideStep, GateStep, DecideStep, CommitStep DEF Next
  <2> QED
    BY <1>1, <2>1 DEF Inv
<1> QED
  BY <1>2, <1>3

\* However calls overlap, wait, lose their connections and decide by old clocks,
\* the work in the queues exceeds the limit only by what came back late.
THEOREM AdmissionCorrect == Spec => []AdmissionBound
<1>1. Inv => AdmissionBound
  BY DEF Inv
<1> QED
  BY Initially, InvariantStep, <1>1, PTL DEF Spec
-----------------------------------------------------------------------------
(***************************************************************************)
(* The excess.                                                             *)
(***************************************************************************)

\* The jobs a call may yet put into the count without asking the gate again.
MayAdd(b) ==
  LET j == call[b].job
  IN  {i \in Jobs : \/ call[b].at \in {"admitted", "renew"} /\ i = j
                    \/ call[b].at = "decide" /\ i = j /\ status[i] = "uploading" /\ Live(i, call[b].age)
                    \/ call[b].at = "take" /\ status[i] = "queued" /\ Live(i, call[b].age)}

\* One choice of what each call will add, and what it comes to.
Choices  == [Backends -> Jobs \cup {NoJob}]
Added(f) == {f[b] : b \in Backends} \ {NoJob}
May(f)   == \A b \in Backends : f[b] \in MayAdd(b) \cup {NoJob}

\* Whatever every call under way still adds, the excess is bounded.
ExcessKept ==
  \A f \in Choices :
    May(f) => Cardinality(Counted(0) \cup Added(f)) <= Limit + Cardinality(Backends) - 1

\* What a choice adds are jobs, at most one for each call.
LEMMA AddedJobs ==
  ASSUME NEW f \in Choices
  PROVE  /\ Added(f) \in SUBSET Jobs
         /\ \A b \in Backends, j \in Jobs :
              f[b] \in {j, NoJob} =>
                \E T \in SUBSET Jobs : /\ Added(f) \subseteq T \cup {j}
                                       /\ Cardinality(T) <= Cardinality(Backends) - 1
<1>1. Added(f) \in SUBSET Jobs
  BY DEF Added, Choices
<1>2. ASSUME NEW b \in Backends, NEW j \in Jobs, f[b] \in {j, NoJob}
      PROVE  \E T \in SUBSET Jobs : /\ Added(f) \subseteq T \cup {j}
                                    /\ Cardinality(T) <= Cardinality(Backends) - 1
  <2> DEFINE S == Backends \ {b}
             U == {f[c] : c \in S}
             T == U \ {NoJob}
             g == [c \in S |-> f[c]]
  <2>1. IsFiniteSet(S) /\ Cardinality(S) = Cardinality(Backends) - 1
    BY BackendsAssumption, FS_RemoveElement
  <2>2. g \in Surjection(S, U)
    BY DEF Surjection
  <2>3. IsFiniteSet(U) /\ Cardinality(U) <= Cardinality(S)
    BY <2>1, <2>2, FS_Surjection
  <2>4. Cardinality(T) <= Cardinality(U)
    BY <2>3, FS_Subset
  <2>5. Cardinality(T) \in Int /\ Cardinality(U) \in Int /\ Cardinality(S) \in Int
    BY <2>1, <2>3, FS_Subset, FS_CardinalityType
  <2>6. T \in SUBSET Jobs /\ Added(f) \subseteq T \cup {j}
    BY <1>2 DEF Added, Choices
  <2> HIDE DEF S, U, T
  <2> QED
    BY <2>1, <2>3, <2>4, <2>5, <2>6
<1> QED
  BY <1>1, <1>2

\* What is added afterwards, and counted, could have been added before.
LEMMA Dominated ==
  ASSUME ExcessKept,
         \A f \in Choices : May(f)' =>
           \E e \in Choices : May(e) /\ Counted(0)' \cup Added(f) \subseteq Counted(0) \cup Added(e)
  PROVE  ExcessKept'
<1> SUFFICES ASSUME NEW f \in Choices, May(f)'
             PROVE  Cardinality(Counted(0)' \cup Added(f)) <= Limit + Cardinality(Backends) - 1
  BY DEF ExcessKept, Choices, Added
<1>1. PICK e \in Choices : May(e) /\ Counted(0)' \cup Added(f) \subseteq Counted(0) \cup Added(e)
  OBVIOUS
<1>2. Cardinality(Counted(0) \cup Added(e)) <= Limit + Cardinality(Backends) - 1
  BY <1>1 DEF ExcessKept
<1>3. Counted(0) \cup Added(e) \in SUBSET Jobs /\ IsFiniteSet(Counted(0) \cup Added(e))
  BY AddedJobs, FS_Subset, JobsAssumption DEF Counted
<1>4. /\ Cardinality(Counted(0)' \cup Added(f)) <= Cardinality(Counted(0) \cup Added(e))
      /\ Cardinality(Counted(0)' \cup Added(f)) \in Int
      /\ Cardinality(Counted(0) \cup Added(e)) \in Int /\ Cardinality(Backends) \in Int
  BY <1>1, <1>3, FS_Subset, FS_CardinalityType, BackendsAssumption
<1> QED
  BY <1>2, <1>4, LimitAssumption

\* Nothing new is counted, and no call may add what was neither counted nor its
\* to add.
LEMMA NothingNew ==
  ASSUME ExcessKept, Counted(0)' \subseteq Counted(0),
         \A c \in Backends : MayAdd(c)' \subseteq MayAdd(c) \cup Counted(0)
  PROVE  ExcessKept'
<1>1. ASSUME NEW f \in Choices, May(f)'
      PROVE  \E e \in Choices : May(e) /\ Counted(0)' \cup Added(f) \subseteq Counted(0) \cup Added(e)
  <2> DEFINE e == [c \in Backends |-> IF f[c] \in MayAdd(c) THEN f[c] ELSE NoJob]
  <2>1. e \in Choices /\ May(e)
    BY DEF Choices, May, MayAdd
  <2>2. Added(f) \subseteq Counted(0) \cup Added(e)
    BY <1>1 DEF Added, May
  <2> QED
    BY <2>1, <2>2
<1> QED
  BY <1>1, Dominated

\* A call adds a job and is over; the others may at most add that job too.
LEMMA OneAdds ==
  ASSUME ExcessKept, NEW b \in Backends, NEW j \in MayAdd(b), MayAdd(b)' = {},
         Counted(0)' \subseteq Counted(0) \cup {j},
         \A c \in Backends \ {b} : MayAdd(c)' \subseteq MayAdd(c) \cup Counted(0) \cup {j}
  PROVE  ExcessKept'
<1>1. ASSUME NEW f \in Choices, May(f)'
      PROVE  \E e \in Choices : May(e) /\ Counted(0)' \cup Added(f) \subseteq Counted(0) \cup Added(e)
  <2> DEFINE e == [c \in Backends |-> IF c = b THEN j ELSE IF f[c] \in MayAdd(c) THEN f[c] ELSE NoJob]
  <2>0. j \in Jobs /\ j # NoJob
    BY JobsAssumption DEF MayAdd
  <2>1. e \in Choices /\ May(e)
    BY <2>0 DEF Choices, May, MayAdd
  <2>2. j \in Added(e)
    BY <2>0 DEF Added
  <2>3. ASSUME NEW c \in Backends PROVE f[c] \in {NoJob} \cup Counted(0) \cup Added(e)
    <3>1. f[c] \in MayAdd(c)' \cup {NoJob}
      BY <1>1 DEF May
    <3>2. CASE c = b
      BY <3>1, <3>2
    <3>3. CASE c # b /\ f[c] \in MayAdd(c)
      BY <3>3 DEF Added
    <3>4. CASE c # b /\ f[c] \notin MayAdd(c)
      BY <2>2, <3>1, <3>4
    <3> QED
      BY <3>2, <3>3, <3>4
  <2> HIDE DEF e
  <2>4. Added(f) \subseteq Counted(0) \cup Added(e)
    BY <2>3 DEF Added
  <2> QED
    BY <2>1, <2>2, <2>4
<1> QED
  BY <1>1, Dominated

\* A call that has just counted less than the limit resets the account.
LEMMA JustCounted ==
  ASSUME Types, NEW b \in Backends, NEW j \in Jobs, NEW a \in 0..CallTerm, HasSlot(a),
         Counted(0)' \subseteq Counted(0), MayAdd(b)' \subseteq {j}
  PROVE  ExcessKept'
<1> SUFFICES ASSUME NEW f \in Choices, May(f)'
             PROVE  Cardinality(Counted(0)' \cup Added(f)) <= Limit + Cardinality(Backends) - 1
  BY DEF ExcessKept, Choices, Added
<1>1. f[b] \in {j, NoJob}
  BY DEF May
<1>2. PICK T \in SUBSET Jobs : Added(f) \subseteq T \cup {j} /\ Cardinality(T) <= Cardinality(Backends) - 1
  BY <1>1, AddedJobs
<1> DEFINE S == Counted(a) \cup {j}
<1>3. S \in SUBSET Jobs /\ Cardinality(S) <= Limit /\ Cardinality(S) \in Int
  <2>1. Counted(a) \in SUBSET Jobs /\ Cardinality(Counted(a)) < Limit
    BY DEF Counted, HasSlot
  <2>2. S \in SUBSET Jobs /\ S \subseteq Counted(a) \cup {j}
    BY <2>1
  <2>3. Cardinality(S) <= Cardinality(Counted(a)) + 1 /\ Cardinality(S) \in Nat /\ Cardinality(Counted(a)) \in Nat
    BY <2>1, <2>2, Sizes
  <2> QED
    BY <2>1, <2>2, <2>3, LimitAssumption
<1>4. Counted(0)' \cup Added(f) \subseteq S \cup T
  BY <1>2, OlderCountsMore
<1> HIDE DEF S
<1>5. IsFiniteSet(S) /\ IsFiniteSet(T) /\ IsFiniteSet(S \cup T)
  BY <1>2, <1>3, FS_Subset, JobsAssumption
<1>6. Cardinality(S \cup T) <= Cardinality(S) + Cardinality(T)
  <2>1. Cardinality(S \cup T) = Cardinality(S) + Cardinality(T) - Cardinality(S \cap T)
    BY <1>5, FS_Union
  <2>2. Cardinality(S \cap T) \in Nat /\ Cardinality(S) \in Nat /\ Cardinality(T) \in Nat
    BY <1>5, FS_Subset, FS_CardinalityType
  <2> QED
    BY <2>1, <2>2
<1>7. Cardinality(Counted(0)' \cup Added(f)) <= Cardinality(S \cup T)
  BY <1>4, <1>5, FS_Subset
<1>8. /\ Cardinality(Counted(0)' \cup Added(f)) \in Int /\ Cardinality(S \cup T) \in Int
      /\ Cardinality(T) \in Int /\ Cardinality(Backends) \in Int
  BY <1>4, <1>5, FS_Subset, FS_CardinalityType, BackendsAssumption
<1> QED
  BY <1>2, <1>3, <1>6, <1>7, <1>8, LimitAssumption

\* Every step keeps the account of the excess.
LEMMA ExcessStep == Inv /\ Types' /\ ExcessKept /\ [Next]_vars => ExcessKept'
<1> SUFFICES ASSUME Inv, Types', ExcessKept, [Next]_vars PROVE ExcessKept'
  OBVIOUS
<1>0. Types /\ Exclusive /\ \A b \in Backends : CallAt(b)
  BY DEF Inv
<1> USE TermAssumption
<1>1. CASE Tick
  <2>1. Counted(0)' \subseteq Counted(0)
    <3>1. \A j \in Jobs : deadline'[j] > 0 => deadline[j] > 0
      BY <1>0, <1>1 DEF Tick, Types, Past
    <3> QED
      BY <1>0, <1>1, <3>1 DEF Tick, Counted, Live, Types
  <2>2. ASSUME NEW c \in Backends PROVE MayAdd(c)' \subseteq MayAdd(c)
    <3>1. /\ call'[c].at = call[c].at /\ call'[c].job = call[c].job
          /\ call[c].at # "idle" => call'[c].age = call[c].age + 1
      BY <1>0, <1>1 DEF Tick, Types, CallRec, Idle
    <3>2. call[c].age \in 0..CallTerm /\ call[c].age < CallTerm
      BY <1>0, <1>1 DEF Types, CallRec, Tick
    <3>3. ASSUME NEW j \in Jobs, call[c].at # "idle", deadline'[j] + call'[c].age > 0
          PROVE  deadline[j] + call[c].age > 0
      <4>1. deadline[j] \in Int /\ deadline[j] >= Past
        BY <1>0 DEF Types
      <4>2. deadline'[j] = IF deadline[j] > Past THEN deadline[j] - 1 ELSE Past
        BY <1>1 DEF Tick
      <4> QED
        BY <3>1, <3>2, <3>3, <4>1, <4>2 DEF Past
    <3>4. status' = status
      BY <1>1 DEF Tick
    <3> QED
      BY <3>1, <3>3, <3>4 DEF MayAdd, Live
  <2> QED
    BY <2>1, <2>2, NothingNew
<1>2. ASSUME NEW j \in Jobs, Requeue(j) \/ End(j) PROVE ExcessKept'
  <2>1. Counted(0)' \subseteq Counted(0)
    BY <1>0, <1>2 DEF Requeue, End, Counted, Live, Types
  <2>2. ASSUME NEW c \in Backends, NEW i \in MayAdd(c)' PROVE i \in MayAdd(c) \cup Counted(0)
    <3>1. Unlocked(j) /\ call' = call /\ deadline' = deadline
      BY <1>2 DEF Requeue, End
    <3>2. CASE i # j
      <4>1. status'[i] = status[i]
        BY <1>0, <1>2, <3>2 DEF Requeue, End, Types, MayAdd
      <4> QED
        BY <3>1, <4>1 DEF MayAdd, Live
    <3>3. CASE i = j
      <4>1. call[c].job # j
        BY <3>1 DEF Unlocked
      <4>2. status'[j] = "queued"
        BY <3>1, <3>3, <4>1 DEF MayAdd
      <4>3. status[j] = "running"
        BY <1>0, <1>2, <4>2 DEF Requeue, End, Types
      <4> QED
        BY <3>3, <4>3 DEF Counted
    <3> QED
      BY <3>2, <3>3
  <2> QED
    BY <2>1, <2>2, NothingNew
\* The calls that do not work on the database move only by themselves.
<1>3. ASSUME NEW b \in Backends, UNCHANGED <<status, deadline>>,
             \A c \in Backends \ {b} : call'[c] = call[c],
             MayAdd(b)' \subseteq MayAdd(b) \cup Counted(0)
      PROVE  ExcessKept'
  <2>1. Counted(0)' = Counted(0)
    BY <1>3 DEF Counted, Live
  <2>2. \A c \in Backends \ {b} : MayAdd(c)' = MayAdd(c)
    BY <1>3 DEF MayAdd, Live
  <2> QED
    BY <1>3, <2>1, <2>2, NothingNew
<1>4. ASSUME NEW b \in Backends, NEW j \in Jobs,
             EnterReserve(b, j) \/ EnterAsk(b, j) \/ EnterReplay(b, j) \/ EnterFinalize(b, j)
      PROVE  ExcessKept'
  <2>1. /\ UNCHANGED <<status, deadline>> /\ \A c \in Backends \ {b} : call'[c] = call[c]
        /\ call'[b].job = j
        /\ \/ call'[b].at = "wait"
           \/ call'[b].at = "renew" /\ status[j] = "uploading" /\ Live(j, 0)
    BY <1>0, <1>4 DEF EnterReserve, EnterAsk, EnterReplay, EnterFinalize, Enter, Types
  <2>2. MayAdd(b)' \subseteq Counted(0)
    BY <2>1 DEF MayAdd, Counted
  <2> QED
    BY <1>3, <2>1, <2>2
<1>5. ASSUME NEW b \in Backends, EnterClaim(b) \/ Lose(b) \/ LockGate(b) PROVE ExcessKept'
  <2>1. UNCHANGED <<status, deadline>> /\ \A c \in Backends \ {b} : call'[c] = call[c]
    BY <1>0, <1>5 DEF EnterClaim, Lose, LockGate, Return, Types
  <2>2. call'[b] = Idle \/ (call'[b].at \in {"take", "decide"} /\ call'[b].age = 0)
    BY <1>0, <1>5 DEF EnterClaim, Lose, LockGate, Return, Types, CallRec
  <2>3. MayAdd(b)' \subseteq Counted(0)
    BY <2>1, <2>2 DEF MayAdd, Counted, Live, Idle
  <2> QED
    BY <1>3, <2>1, <2>3
<1>6. ASSUME NEW b \in Backends, Admit(b) PROVE ExcessKept'
  <2>0. call[b].job \in Jobs /\ call[b].age \in 0..CallTerm
    BY <1>0, <1>6 DEF Admit, CallAt, Types, CallRec
  <2>1. UNCHANGED <<status, deadline>> /\ \A c \in Backends \ {b} : call'[c] = call[c]
    BY <1>0, <1>6 DEF Admit, Goto, Return, Types
  <2>2. CASE HasSlot(call[b].age)
    <3>1. call'[b].job = call[b].job /\ call'[b].at = "admitted"
      BY <1>0, <1>6, <2>2 DEF Admit, Goto, Types, CallRec
    <3>2. MayAdd(b)' \subseteq {call[b].job} /\ Counted(0)' = Counted(0)
      BY <2>1, <3>1 DEF MayAdd, Counted, Live
    <3> QED
      BY <1>0, <2>0, <2>2, <3>2, JustCounted
  <2>3. CASE ~HasSlot(call[b].age)
    <3>1. MayAdd(b)' = {}
      BY <1>0, <1>6, <2>3 DEF Admit, Return, Idle, Types, MayAdd
    <3> QED
      BY <1>3, <2>1, <3>1
  <2> QED
    BY <2>2, <2>3
<1>7. ASSUME NEW b \in Backends, Decide(b) PROVE ExcessKept'
  <2> DEFINE j == call[b].job
  <2>0. j \in Jobs /\ call[b].age \in 0..CallTerm /\ call[b].at = "decide"
    BY <1>0, <1>7 DEF Decide, CallAt, Types, CallRec
  <2>1. deadline' = deadline /\ \A c \in Backends \ {b} : call'[c] = call[c]
    BY <1>0, <1>7 DEF Decide, Goto, Return, Types
  <2>2. CASE Goto(b, "admitted") /\ HasSlot(call[b].age) /\ status' = status
    <3>1. call'[b].job = j /\ call'[b].at = "admitted"
      BY <1>0, <2>2 DEF Goto, Types, CallRec
    <3>2. MayAdd(b)' \subseteq {j} /\ Counted(0)' = Counted(0)
      BY <2>1, <2>2, <3>1 DEF MayAdd, Counted, Live
    <3> QED
      BY <1>0, <2>0, <2>2, <3>2, JustCounted
  <2>3. CASE Goto(b, "admitted") /\ status' = status /\ status[j] = "uploading" /\ Live(j, call[b].age)
    <3>1. call'[b].job = j /\ call'[b].at = "admitted"
      BY <1>0, <2>3 DEF Goto, Types, CallRec
    <3>2. MayAdd(b)' \subseteq MayAdd(b)
      BY <2>0, <2>3, <3>1 DEF MayAdd
    <3> QED
      BY <1>3, <2>1, <2>3, <3>2
  <2>4. CASE Return(b) /\ (status' = status \/ status' = [status EXCEPT ![j] = "none"])
    <3>1. MayAdd(b)' = {}
      BY <1>0, <2>4 DEF Return, Idle, Types, MayAdd
    <3>2. \A i \in Jobs : status'[i] = status[i] \/ status'[i] = "none"
      BY <1>0, <2>4 DEF Types
    <3>3. Counted(0)' \subseteq Counted(0)
      BY <2>1, <3>2 DEF Counted, Live
    <3>4. \A c \in Backends \ {b} : MayAdd(c)' \subseteq MayAdd(c)
      BY <2>1, <3>2 DEF MayAdd, Live
    <3> QED
      BY <3>1, <3>3, <3>4, NothingNew
  <2> QED
    BY <1>7, <2>2, <2>3, <2>4 DEF Decide
\* A call that adds its job, or one it finds.
<1>8. ASSUME NEW b \in Backends, NEW j \in MayAdd(b), call'[b] = Idle,
             \A c \in Backends \ {b} : call'[c] = call[c],
             \A i \in Jobs : i # j => status'[i] = status[i] /\ deadline'[i] = deadline[i]
      PROVE  ExcessKept'
  <2>1. MayAdd(b)' = {}
    BY <1>8 DEF MayAdd, Idle
  <2>2. Counted(0)' \subseteq Counted(0) \cup {j}
    BY <1>8 DEF Counted, Live
  <2>3. \A c \in Backends \ {b} : MayAdd(c)' \subseteq MayAdd(c) \cup {j}
    BY <1>8 DEF MayAdd, Live
  <2> QED
    BY <2>1, <2>2, <2>3, OneAdds
<1>9. ASSUME NEW b \in Backends, Commit(b) \/ Renew(b) PROVE ExcessKept'
  <2>1. call[b].job \in MayAdd(b)
    BY <1>0, <1>9 DEF Commit, Renew, CallAt, MayAdd
  <2>2. call'[b] = Idle /\ \A c \in Backends \ {b} : call'[c] = call[c]
    BY <1>0, <1>9 DEF Commit, Renew, Return, Types
  <2>3. \A i \in Jobs : i # call[b].job => status'[i] = status[i] /\ deadline'[i] = deadline[i]
    BY <1>0, <1>9 DEF Commit, Renew, Types
  <2> QED
    BY <1>8, <2>1, <2>2, <2>3
<1>10. ASSUME NEW b \in Backends, Take(b) PROVE ExcessKept'
  <2>1. call'[b] = Idle /\ \A c \in Backends \ {b} : call'[c] = call[c]
    BY <1>0, <1>10 DEF Take, Return, Types
  <2>2. ASSUME NEW j \in Jobs, status[j] = "queued", Live(j, call[b].age),
               status' = [status EXCEPT ![j] = "running"]
        PROVE  ExcessKept'
    <3>1. j \in MayAdd(b)
      BY <1>10, <2>2 DEF Take, MayAdd
    <3>2. \A i \in Jobs : i # j => status'[i] = status[i] /\ deadline'[i] = deadline[i]
      BY <1>0, <1>10, <2>2 DEF Take, Types
    <3> QED
      BY <1>8, <2>1, <3>1, <3>2
  <2>3. CASE UNCHANGED <<status, deadline>>
    <3>1. MayAdd(b)' = {}
      BY <2>1 DEF MayAdd, Idle
    <3> QED
      BY <1>3, <2>1, <2>3, <3>1
  <2> QED
    BY <1>10, <2>2, <2>3 DEF Take
<1>11. CASE UNCHANGED vars
  BY <1>11 DEF vars, ExcessKept, May, MayAdd, Counted, Live
<1> QED
  BY <1>1, <1>2, <1>4, <1>5, <1>6, <1>7, <1>9, <1>10, <1>11 DEF Next

\* Jobs revived by old clocks do not add up, however long the history: there is
\* never more work than the limit and one job for every other connection.
THEOREM ExcessCorrect == Spec => []ExcessBound
<1>1. Init => ExcessKept
  <2> SUFFICES ASSUME Init, NEW f \in Choices, May(f)
               PROVE  Cardinality(Counted(0) \cup Added(f)) <= Limit + Cardinality(Backends) - 1
    BY DEF ExcessKept
  <2>1. Counted(0) = {} /\ Added(f) = {}
    BY DEF Init, Counted, Added, May, MayAdd, Idle
  <2>2. Cardinality(Counted(0) \cup Added(f)) = 0 /\ Cardinality(Backends) \in Nat
    BY <2>1, FS_EmptySet, FS_CardinalityType, BackendsAssumption
  <2> QED
    BY <2>2, LimitAssumption
<1>2. ExcessKept => ExcessBound
  <2> DEFINE f == [b \in Backends |-> NoJob]
  <2>1. f \in Choices /\ May(f) /\ Added(f) = {}
    BY DEF Choices, May, Added
  <2>2. Counted(0) \cup Added(f) = Counted(0)
    BY <2>1
  <2> QED
    BY <2>1, <2>2 DEF ExcessKept, ExcessBound
<1>3. Inv /\ Inv' /\ ExcessKept /\ [Next]_vars => ExcessKept'
  BY ExcessStep DEF Inv
<1> QED
  BY Initially, InvariantStep, <1>1, <1>2, <1>3, PTL DEF Spec
=============================================================================
