------------------------- MODULE WorkerRuntimeProofs -------------------------
(* Proofs, for any number of workers and any lengths of leases, beats and     *)
(* calls, of what the loop of a worker makes of one job.                      *)
EXTENDS WorkerRuntime, TLAPS

-----------------------------------------------------------------------------
(***************************************************************************)
(* The invariant.                                                          *)
(***************************************************************************)
JobRec  == [status : {"queued", "running", "succeeded", "failed"}, tries : 0..MaxAttempts,
            fence : 0..MaxAttempts, lease : Nat]
MainRec == [at : {"poll", "idle", "claim", "handle", "join", "complete", "fail", "exit"},
            token : 0..MaxAttempts, failed : BOOLEAN,
            reply : SUBSET ((0..MaxAttempts) \cup {TRUE, FALSE}), age : Nat]
BeatRec == [at : {"none", "wait", "call", "ended"}, wait : Nat, since : Nat,
            reply : SUBSET {TRUE, FALSE}, age : Nat, error : BOOLEAN, lost : BOOLEAN]

Outcomes == {"none", "idle", "unavailable", "completed", "fenced", "failed"} \X (0..MaxAttempts)

\* An attempt has ended unless it holds the fence or was never started; one that
\* succeeded was the last.
JobInv ==
  /\ job \in JobRec
  /\ issued = job.tries
  /\ ended \in [Tokens -> {"no", "succeeded", "failed"}]
  /\ job.fence # None => job.fence = issued /\ job.status = "running"
  /\ job.fence = None => job.lease = 0 /\ job.status # "running"
  /\ \A n \in Tokens :
       /\ ended[n] = "no" <=> n = job.fence \/ n > issued
       /\ ended[n] = "succeeded" => n = issued /\ job.status = "succeeded"

\* A worker works for an attempt that was started.
TokenKnown(w) ==
  /\ main[w].at \in {"handle", "join", "complete", "fail"} => Token(w) \in Tokens /\ Token(w) <= issued
  /\ main[w].at = "claim" => \A n \in main[w].reply : n \in 0..MaxAttempts /\ n <= issued

\* What it was answered, and what it has reported, is what happened.
AnswersTrue(w) ==
  /\ main[w].at = "complete" /\ main[w].reply = {TRUE} => ended[Token(w)] = "succeeded"
  /\ main[w].at = "fail" /\ main[w].reply = {TRUE} => ended[Token(w)] = "failed"
  /\ outcome[w][1] \in {"completed", "failed"} => outcome[w][2] \in Tokens
  /\ outcome[w][1] = "completed" => ended[outcome[w][2]] = "succeeded"
  /\ outcome[w][1] = "failed" => ended[outcome[w][2]] = "failed"

\* The heartbeat thread lives within the call of run_once that started it.
BeatWithin(w) == beat[w].at \in {"wait", "call"} => main[w].at \in {"handle", "join"}

Types ==
  /\ main \in [Workers -> MainRec]
  /\ beat \in [Workers -> BeatRec]
  /\ outcome \in [Workers -> Outcomes]

Inv ==
  /\ JobInv /\ Types
  /\ \A w \in Workers : TokenKnown(w) /\ AnswersTrue(w) /\ BeatWithin(w)

-----------------------------------------------------------------------------
(***************************************************************************)
(* The job.                                                                *)
(***************************************************************************)

\* Steps that do not reach the database.
Outside == UNCHANGED <<job, issued, ended>>

\* The job without an attempt.
LEMMA FreedIs ==
  ASSUME job \in JobRec, NEW s \in {"queued", "succeeded", "failed"}
  PROVE  /\ Freed(s) \in JobRec /\ Freed(s).tries = job.tries /\ Freed(s).fence = None
         /\ Freed(s).lease = 0 /\ Freed(s).status = s
<1> DEFINE a == [job EXCEPT !.status = s]
           b == [a EXCEPT !.fence = None]
<1>1. a \in JobRec /\ a.status = s /\ a.tries = job.tries
  BY DEF JobRec
<1>2. Freed(s) = [b EXCEPT !.lease = 0]
  BY DEF Freed
<1> HIDE DEF a
<1>3. b \in JobRec /\ b.status = s /\ b.tries = job.tries /\ b.fence = None
  BY <1>1 DEF JobRec, None, MaxAttempts
<1> HIDE DEF b
<1> QED
  BY <1>2, <1>3 DEF JobRec

\* A claim that takes the job, or settles it.
LEMMA ClaimJob ==
  ASSUME JobInv, NEW w \in Workers, ClaimEffect(w)
  PROVE  /\ JobInv' /\ issued' >= issued
         /\ \A n \in Tokens : ended[n] # "no" => ended'[n] = ended[n]
<1>1. CASE Claimable /\ job' = [status |-> "running", tries |-> job.tries + 1,
                                fence |-> issued + 1, lease |-> Lease]
           /\ issued' = issued + 1 /\ ended' = Abandoned
  <2>1. issued \in Nat /\ issued + 1 <= MaxAttempts /\ job.status \in {"queued", "running"}
    BY <1>1 DEF Claimable, JobInv, JobRec, MaxAttempts
  <2>2. job' \in JobRec
    BY <1>1, <2>1, TimesAssumption DEF JobRec, JobInv, MaxAttempts
  <2>3. ended' \in [Tokens -> {"no", "succeeded", "failed"}]
    BY <1>1 DEF Abandoned, JobInv
  <2>4. ASSUME NEW n \in Tokens
        PROVE  /\ ended'[n] = "no" <=> n = issued + 1 \/ n > issued + 1
               /\ ended'[n] # "succeeded"
               /\ ended[n] # "no" => ended'[n] = ended[n]
    BY <1>1, <2>1 DEF Abandoned, JobInv, JobRec, Tokens, MaxAttempts, None
  <2> QED
    BY <1>1, <2>1, <2>2, <2>3, <2>4 DEF JobInv, None
<1>2. CASE Spent /\ job' = Freed("failed") /\ issued' = issued /\ ended' = Abandoned
  <2>1. job' \in JobRec /\ job'.tries = job.tries /\ job'.fence = 0 /\ job'.lease = 0
        /\ job'.status = "failed"
    BY <1>2, FreedIs DEF JobInv, None
  <2>2. ended' \in [Tokens -> {"no", "succeeded", "failed"}]
    BY <1>2 DEF Abandoned, JobInv
  <2>3. ASSUME NEW n \in Tokens
        PROVE  /\ ended'[n] = "no" <=> n > issued
               /\ ended'[n] # "succeeded"
               /\ ended[n] # "no" => ended'[n] = ended[n]
    BY <1>2 DEF Abandoned, Spent, JobInv, JobRec, Tokens, MaxAttempts, None
  <2> QED
    BY <1>2, <2>1, <2>2, <2>3 DEF JobInv, JobRec, None, Tokens, MaxAttempts
<1>3. CASE Outside
  BY <1>3 DEF Outside, JobInv, JobRec
<1> QED
  BY <1>1, <1>2, <1>3 DEF ClaimEffect, Outside

\* A job freed by its live attempt: published, queued again, or failed.
LEMMA FreedJob ==
  ASSUME JobInv, NEW n \in Tokens, Live(n), NEW s \in {"queued", "succeeded", "failed"},
         job' = Freed(s), issued' = issued, NEW e \in {"succeeded", "failed"},
         e = "succeeded" => s = "succeeded", ended' = [ended EXCEPT ![n] = e]
  PROVE  /\ JobInv'
         /\ \A m \in Tokens : ended[m] # "no" => ended'[m] = ended[m]
<1>1. job' \in JobRec /\ job'.tries = job.tries /\ job'.fence = 0 /\ job'.lease = 0 /\ job'.status = s
  BY FreedIs DEF JobInv, None
<1>2. n = job.fence /\ n = issued /\ ended[n] = "no" /\ job.status = "running"
  BY DEF Live, JobInv, None
<1>3. ended' \in [Tokens -> {"no", "succeeded", "failed"}]
  BY DEF JobInv
<1>4. ASSUME NEW m \in Tokens
      PROVE  /\ ended'[m] = "no" <=> m > issued
             /\ ended'[m] = "succeeded" => m = n /\ s = "succeeded"
             /\ ended[m] # "no" => ended'[m] = ended[m]
  BY <1>2 DEF JobInv, JobRec, Tokens, MaxAttempts
<1> QED
  BY <1>1, <1>2, <1>3, <1>4 DEF JobInv, None, Tokens, MaxAttempts

\* Every step keeps the account of the job, and no attempt that has ended ends
\* in another way.
LEMMA JobStep ==
  ASSUME Inv, [Next]_vars
  PROVE  /\ JobInv' /\ issued' >= issued
         /\ \A n \in Tokens : ended[n] # "no" => ended'[n] = ended[n]
<1>0. JobInv /\ Types /\ issued \in Nat /\ \A w \in Workers : TokenKnown(w)
  BY DEF Inv, JobInv, JobRec
<1>1. CASE Outside
  BY <1>0, <1>1 DEF Outside, JobInv, JobRec
<1>2. ASSUME NEW x \in Nat, job.fence = None => x = 0, job' = [job EXCEPT !.lease = x],
             UNCHANGED <<issued, ended>>
      PROVE  /\ JobInv' /\ issued' >= issued
             /\ \A n \in Tokens : ended[n] # "no" => ended'[n] = ended[n]
  <2>1. job' \in JobRec /\ job'.tries = job.tries /\ job'.fence = job.fence /\ job'.lease = x
        /\ job'.status = job.status
    BY <1>0, <1>2 DEF JobInv, JobRec
  <2> QED
    BY <1>0, <1>2, <2>1 DEF JobInv
<1>3. ASSUME NEW w \in Workers, ClaimEffect(w)
      PROVE  /\ JobInv' /\ issued' >= issued
             /\ \A n \in Tokens : ended[n] # "no" => ended'[n] = ended[n]
  BY <1>0, <1>3, ClaimJob
<1>4. ASSUME NEW w \in Workers, HeartbeatEffect(w)
      PROVE  /\ JobInv' /\ issued' >= issued
             /\ \A n \in Tokens : ended[n] # "no" => ended'[n] = ended[n]
  <2>1. Live(Token(w)) => job.fence # None
    BY DEF Live
  <2>2. Outside \/ (job' = [job EXCEPT !.lease = Lease] /\ UNCHANGED <<issued, ended>> /\ job.fence # None)
    BY <1>4, <2>1 DEF HeartbeatEffect, Outside
  <2> QED
    BY <1>1, <1>2, <2>2, TimesAssumption
<1>5. ASSUME NEW w \in Workers, CompleteEffect(w)
      PROVE  /\ JobInv' /\ issued' >= issued
             /\ \A n \in Tokens : ended[n] # "no" => ended'[n] = ended[n]
  <2>1. Token(w) \in Tokens
    BY <1>0, <1>5 DEF CompleteEffect, TokenKnown
  <2>2. CASE Live(Token(w))
    <3>1. job' = Freed("succeeded") /\ issued' = issued
          /\ ended' = [ended EXCEPT ![Token(w)] = "succeeded"]
      BY <1>5, <2>2 DEF CompleteEffect
    <3>2. JobInv' /\ \A m \in Tokens : ended[m] # "no" => ended'[m] = ended[m]
      BY <1>0, <2>1, <2>2, <3>1, FreedJob
    <3> QED
      BY <1>0, <3>1, <3>2
  <2>3. CASE ~Live(Token(w))
    BY <1>1, <1>5, <2>3 DEF CompleteEffect, Outside
  <2> QED
    BY <2>2, <2>3
<1>6. ASSUME NEW w \in Workers, FailEffect(w)
      PROVE  /\ JobInv' /\ issued' >= issued
             /\ \A n \in Tokens : ended[n] # "no" => ended'[n] = ended[n]
  <2>1. Token(w) \in Tokens
    BY <1>0, <1>6 DEF FailEffect, TokenKnown
  <2>2. CASE Live(Token(w))
    <3> DEFINE s == IF job.tries < MaxAttempts THEN "queued" ELSE "failed"
    <3>1. job' = Freed(s) /\ s \in {"queued", "failed"} /\ issued' = issued
          /\ ended' = [ended EXCEPT ![Token(w)] = "failed"]
      BY <1>6, <2>2 DEF FailEffect
    <3> HIDE DEF s
    <3>2. JobInv' /\ \A m \in Tokens : ended[m] # "no" => ended'[m] = ended[m]
      BY <1>0, <2>1, <2>2, <3>1, FreedJob
    <3> QED
      BY <1>0, <3>1, <3>2
  <2>3. CASE ~Live(Token(w))
    BY <1>1, <1>6, <2>3 DEF FailEffect, Outside
  <2> QED
    BY <2>2, <2>3
<1>7. CASE Tick
  <2> DEFINE x == IF job.lease > 0 THEN job.lease - 1 ELSE 0
  <2>1. x \in Nat /\ (job.fence = None => x = 0)
    BY <1>0 DEF JobInv, JobRec
  <2>2. job' = [job EXCEPT !.lease = x] /\ UNCHANGED <<issued, ended>>
    BY <1>7 DEF Tick
  <2> HIDE DEF x
  <2> QED
    BY <1>2, <2>1, <2>2
<1> QED
  BY <1>1, <1>3, <1>4, <1>5, <1>6, <1>7 DEF Next, vars, Outside, Poll, ClaimReturns, Handle, Join,
     CompleteReturns, FailReturns, MainRaises, RequestStop, Crash, BeatDue, BeatDone, BeatReturns,
     BeatRaises

-----------------------------------------------------------------------------
(***************************************************************************)
(* The threads.                                                            *)
(***************************************************************************)

\* The records the main thread starts from.
LEMMA Records ==
  /\ NewMain \in MainRec /\ Asleep \in MainRec /\ NoBeat \in BeatRec
  /\ NewMain.at = "poll" /\ Asleep.at = "idle" /\ NoBeat.at = "none"
<1>1. NewMain \in MainRec /\ NoBeat \in BeatRec
  BY DEF NewMain, MainRec, NoReply, None, MaxAttempts, NoBeat, BeatRec
<1>2. Asleep \in MainRec /\ Asleep.at = "idle"
  BY <1>1 DEF Asleep, MainRec
<1> QED
  BY <1>1, <1>2 DEF NewMain, NoBeat

\* One worker's threads, and nothing of another worker's.
Only(w) ==
  \A v \in Workers \ {w} : main'[v] = main[v] /\ beat'[v] = beat[v] /\ outcome'[v] = outcome[v]

\* The end of run_once.
LEMMA ReturnsTypes ==
  ASSUME Types, NEW w \in Workers,
         NEW what \in {"idle", "unavailable", "completed", "fenced", "failed"}, Returns(w, what)
  PROVE  /\ Types' /\ Only(w)
         /\ main'[w].at \in {"idle", "poll"} /\ outcome'[w] = <<what, Token(w)>>
         /\ beat'[w].at = IF beat[w].at = "ended" THEN "none" ELSE beat[w].at
BY Records DEF Returns, Types, Only, Outcomes, Token, MainRec

\* Every step keeps the types.
LEMMA TypesStep == Inv /\ [Next]_vars => Types'
<1> SUFFICES ASSUME Inv, [Next]_vars PROVE Types'
  OBVIOUS
<1>0. Types /\ JobInv /\ \A w \in Workers : TokenKnown(w)
  BY DEF Inv
<1>1. ASSUME NEW w \in Workers, Poll(w) PROVE Types'
  <2>1. [NewMain EXCEPT !.at = IF Quits(w) THEN "exit" ELSE "claim"] \in MainRec
    BY Records DEF MainRec
  <2> QED
    BY <1>0, <1>1, <2>1 DEF Poll, Types
<1>2. ASSUME NEW w \in Workers, ClaimEffect(w) PROVE Types'
  <2>1. PICK n \in 0..MaxAttempts : main' = [main EXCEPT ![w].reply = {n}] /\ UNCHANGED <<beat, outcome>>
    BY <1>0, <1>2 DEF ClaimEffect, Reply, Claimable, JobInv, JobRec, None, MaxAttempts
  <2>2. [main[w] EXCEPT !.reply = {n}] \in MainRec
    BY <1>0 DEF Types, MainRec
  <2> QED
    BY <1>0, <2>1, <2>2 DEF Types
<1>3. ASSUME NEW w \in Workers, CompleteEffect(w) \/ FailEffect(w) PROVE Types'
  <2>1. PICK x \in BOOLEAN : main' = [main EXCEPT ![w].reply = {x}] /\ UNCHANGED <<beat, outcome>>
    BY <1>3 DEF CompleteEffect, FailEffect, Reply, Live
  <2>2. [main[w] EXCEPT !.reply = {x}] \in MainRec
    BY <1>0 DEF Types, MainRec
  <2> QED
    BY <1>0, <2>1, <2>2 DEF Types
<1>4. ASSUME NEW w \in Workers, ClaimReturns(w) PROVE Types'
  <2>1. CASE Returns(w, "idle")
    BY <1>0, <2>1, ReturnsTypes
  <2>2. ASSUME NEW n \in main[w].reply, n # None,
               main' = [main EXCEPT ![w] = [NewMain EXCEPT !.at = "handle", !.token = n]],
               beat' = [beat EXCEPT ![w] = [NoBeat EXCEPT !.at = "wait"]], UNCHANGED outcome
        PROVE  Types'
    <3>1. n \in 0..MaxAttempts
      BY <1>0, <1>4, <2>2 DEF ClaimReturns, TokenKnown
    <3>2. [NewMain EXCEPT !.at = "handle", !.token = n] \in MainRec
      BY <3>1, Records DEF MainRec
    <3>3. [NoBeat EXCEPT !.at = "wait"] \in BeatRec
      BY Records DEF BeatRec
    <3> QED
      BY <1>0, <2>2, <3>2, <3>3 DEF Types
  <2> QED
    BY <1>4, <2>1, <2>2 DEF ClaimReturns
<1>5. ASSUME NEW w \in Workers, Handle(w) PROVE Types'
  <2>1. PICK failed \in BOOLEAN : main' = [main EXCEPT ![w] = [@ EXCEPT !.at = "join", !.failed = failed]]
    BY <1>5 DEF Handle
  <2>2. [main[w] EXCEPT !.at = "join", !.failed = failed] \in MainRec
    BY <1>0 DEF Types, MainRec
  <2> QED
    BY <1>0, <1>5, <2>1, <2>2 DEF Types, Handle
<1>6. ASSUME NEW w \in Workers, NEW p \in {"complete", "fail"},
             main' = [main EXCEPT ![w].at = p, ![w].reply = NoReply, ![w].age = 0],
             UNCHANGED <<beat, outcome>>
      PROVE  Types'
  <2>1. main' = [main EXCEPT ![w] = [@ EXCEPT !.at = p, !.reply = NoReply, !.age = 0]]
    BY <1>6
  <2>2. [main[w] EXCEPT !.at = p, !.reply = NoReply, !.age = 0] \in MainRec
    BY <1>0 DEF Types, MainRec, NoReply
  <2> QED
    BY <1>0, <1>6, <2>1, <2>2 DEF Types
<1>7. ASSUME NEW w \in Workers, Join(w) PROVE Types'
  BY <1>6, <1>7 DEF Join
<1>8. ASSUME NEW w \in Workers, CompleteReturns(w) \/ FailReturns(w) PROVE Types'
  BY <1>0, <1>8, ReturnsTypes DEF CompleteReturns, FailReturns, CompleteOutcome
<1>9. ASSUME NEW w \in Workers, MainRaises(w) PROVE Types'
  BY <1>0, <1>6, <1>9, ReturnsTypes DEF MainRaises
<1>10. ASSUME NEW w \in Workers, Crash(w) PROVE Types'
  <2>1. [NewMain EXCEPT !.at = "exit"] \in MainRec
    BY Records DEF MainRec
  <2> QED
    BY <1>0, <1>10, <2>1, Records DEF Crash, Types, Outcomes, None, MaxAttempts
<1>11. ASSUME NEW w \in Workers, NEW r \in BeatRec, beat' = [beat EXCEPT ![w] = r],
              UNCHANGED <<main, outcome>>
       PROVE  Types'
  BY <1>0, <1>11 DEF Types
<1>12. ASSUME NEW w \in Workers, BeatDue(w) PROVE Types'
  <2>1. [beat[w] EXCEPT !.at = "call", !.reply = NoReply, !.age = 0] \in BeatRec
    BY <1>0 DEF Types, BeatRec, NoReply
  <2>2. beat' = [beat EXCEPT ![w] = [beat[w] EXCEPT !.at = "call", !.reply = NoReply, !.age = 0]]
    BY <1>12 DEF BeatDue
  <2> QED
    BY <1>11, <1>12, <2>1, <2>2 DEF BeatDue
<1>13. ASSUME NEW w \in Workers, BeatDone(w) PROVE Types'
  <2>1. [beat[w] EXCEPT !.at = "ended"] \in BeatRec
    BY <1>0 DEF Types, BeatRec
  <2> QED
    BY <1>11, <1>13, <2>1 DEF BeatDone
<1>14. ASSUME NEW w \in Workers, HeartbeatEffect(w) PROVE Types'
  <2>1. PICK x \in BOOLEAN : beat' = [beat EXCEPT ![w].reply = {x}]
    BY <1>14 DEF HeartbeatEffect, Live
  <2>2. [beat[w] EXCEPT !.reply = {x}] \in BeatRec
    BY <1>0 DEF Types, BeatRec
  <2> QED
    BY <1>11, <1>14, <2>1, <2>2 DEF HeartbeatEffect
<1>15. ASSUME NEW w \in Workers, BeatReturns(w) PROVE Types'
  <2> DEFINE lost == beat[w].reply = {FALSE}
  <2>1. lost \in BOOLEAN
    OBVIOUS
  <2>2. beat' = [beat EXCEPT ![w] = [beat[w] EXCEPT !.at = IF lost THEN "ended" ELSE "wait",
                                                    !.lost = lost, !.wait = 0, !.since = 0]]
    BY <1>15 DEF BeatReturns
  <2> HIDE DEF lost
  <2>3. [beat[w] EXCEPT !.at = IF lost THEN "ended" ELSE "wait",
                        !.lost = lost, !.wait = 0, !.since = 0] \in BeatRec
    BY <1>0, <2>1 DEF Types, BeatRec
  <2> QED
    BY <1>11, <1>15, <2>2, <2>3 DEF BeatReturns
<1>16. ASSUME NEW w \in Workers, BeatRaises(w) PROVE Types'
  <2> DEFINE ok == WithinBudget(w)
  <2>1. beat' = [beat EXCEPT ![w] = [beat[w] EXCEPT !.at = IF ok THEN "wait" ELSE "ended",
                                                    !.error = ~ok, !.wait = 0]]
    BY <1>16 DEF BeatRaises
  <2>2. ok \in BOOLEAN
    BY DEF WithinBudget
  <2> HIDE DEF ok
  <2>3. [beat[w] EXCEPT !.at = IF ok THEN "wait" ELSE "ended", !.error = ~ok, !.wait = 0] \in BeatRec
    BY <1>0, <2>2 DEF Types, BeatRec
  <2> QED
    BY <1>11, <1>16, <2>1, <2>3 DEF BeatRaises
<1>17. CASE Tick
  <2>1. ASSUME NEW w \in Workers PROVE main'[w] \in MainRec
    <3>1. [main[w] EXCEPT !.age = @ + 1] \in MainRec
      <4>0. main[w].age \in Nat
        BY <1>0 DEF Types, MainRec
      <4>1. main[w].age + 1 \in Nat
        BY <4>0
      <4>2. \A n \in Nat : [main[w] EXCEPT !.age = n] \in MainRec
        BY <1>0 DEF Types, MainRec
      <4> QED
        BY <4>1, <4>2
    <3> QED
      BY <1>0, <1>17, <3>1, Records DEF Tick, Types
  <2>2. ASSUME NEW w \in Workers PROVE beat'[w] \in BeatRec
    <3> DEFINE x == Older(beat[w].since, Lease)
    <3>0. beat[w].wait \in Nat /\ beat[w].age \in Nat /\ beat[w].since \in Nat
      BY <1>0 DEF Types, BeatRec
    <3>1. x \in Nat
      BY <3>0, TimesAssumption DEF Older
    <3> HIDE DEF x
    <3>2. beat[w].wait + 1 \in Nat /\ beat[w].age + 1 \in Nat
      BY <3>0
    <3>3. \A n \in Nat : /\ [beat[w] EXCEPT !.wait = n, !.since = x] \in BeatRec
                         /\ [beat[w] EXCEPT !.age = n, !.since = x] \in BeatRec
      BY <1>0, <3>1 DEF Types, BeatRec
    <3>4. /\ [beat[w] EXCEPT !.wait = @ + 1, !.since = x] \in BeatRec
          /\ [beat[w] EXCEPT !.age = @ + 1, !.since = x] \in BeatRec
      BY <3>2, <3>3
    <3> QED
      BY <1>0, <1>17, <3>4 DEF Tick, Types, x
  <2> QED
    BY <1>0, <1>17, <2>1, <2>2 DEF Tick, Types
<1> QED
  BY <1>0, <1>1, <1>2, <1>3, <1>4, <1>5, <1>7, <1>8, <1>9, <1>10, <1>12, <1>13, <1>14, <1>15,
     <1>16, <1>17 DEF Next, vars, RequestStop, Types

\* Every step keeps what each worker knows of its attempt, and its thread within
\* the call of run_once.
LEMMA ThreadStep ==
  ASSUME Inv, [Next]_vars, Types', JobInv', issued' >= issued,
         \A n \in Tokens : ended[n] # "no" => ended'[n] = ended[n],
         NEW v \in Workers
  PROVE  TokenKnown(v)' /\ AnswersTrue(v)' /\ BeatWithin(v)'
<1>0. /\ Types /\ TokenKnown(v) /\ AnswersTrue(v) /\ BeatWithin(v)
      /\ issued \in Nat /\ issued' \in Nat /\ issued' <= MaxAttempts
  BY DEF Inv, JobInv, JobRec, MaxAttempts
<1>1. /\ main[v].at \in {"complete", "fail"} => Token(v) \in Tokens
      /\ Tokens \subseteq Nat
  BY <1>0 DEF TokenKnown, Tokens
\* What was answered or reported stays true.
<1>2. ASSUME NEW n \in Tokens
      PROVE  /\ ended[n] = "succeeded" => ended'[n] = "succeeded"
             /\ ended[n] = "failed" => ended'[n] = "failed"
  OBVIOUS
<1>3. /\ outcome[v][1] \in {"completed", "failed"} => outcome[v][2] \in Tokens
      /\ outcome[v][1] = "completed" => ended'[outcome[v][2]] = "succeeded"
      /\ outcome[v][1] = "failed" => ended'[outcome[v][2]] = "failed"
  BY <1>0, <1>2 DEF AnswersTrue
<1>4. ASSUME main'[v].at = main[v].at, main'[v].token = main[v].token,
             main'[v].reply = main[v].reply, outcome'[v] = outcome[v]
      PROVE  TokenKnown(v)' /\ AnswersTrue(v)'
  <2>0. ASSUME NEW n, n \in 0..MaxAttempts, n <= issued PROVE n <= issued'
    BY <1>0, <2>0 DEF MaxAttempts
  <2>1. TokenKnown(v)'
    <3>1. ASSUME main[v].at \in {"handle", "join", "complete", "fail"}
          PROVE  Token(v) \in Tokens /\ Token(v) <= issued'
      <4>1. Token(v) \in Tokens /\ Token(v) <= issued
        BY <1>0, <3>1 DEF TokenKnown
      <4>2. Token(v) \in 0..MaxAttempts
        BY <4>1 DEF Tokens, MaxAttempts
      <4> QED
        BY <2>0, <4>1, <4>2
    <3>2. ASSUME main[v].at = "claim", NEW n \in main[v].reply
          PROVE  n \in 0..MaxAttempts /\ n <= issued'
      <4>1. n \in 0..MaxAttempts /\ n <= issued
        BY <1>0, <3>2 DEF TokenKnown
      <4> QED
        BY <2>0, <4>1
    <3> QED
      BY <1>4, <3>1, <3>2 DEF TokenKnown, Token
  <2>2. AnswersTrue(v)'
    BY <1>0, <1>1, <1>2, <1>3, <1>4 DEF AnswersTrue, Token
  <2> QED
    BY <2>1, <2>2
\* Another worker moves, or this one's beat.
<1>5. ASSUME main'[v] = main[v], outcome'[v] = outcome[v],
             beat'[v].at \in {"wait", "call"} => beat[v].at \in {"wait", "call"}
      PROVE  TokenKnown(v)' /\ AnswersTrue(v)' /\ BeatWithin(v)'
  BY <1>0, <1>4, <1>5 DEF BeatWithin
<1>6. CASE Tick
  <2>0. main[v] \in MainRec /\ beat[v] \in BeatRec
    BY <1>0 DEF Types
  <2>1. /\ main'[v].token = main[v].token \/ main'[v].at = "poll"
        /\ main'[v].at = main[v].at \/ (main[v].at = "idle" /\ main'[v].at = "poll")
        /\ main'[v].reply = main[v].reply \/ main'[v].at = "poll"
        /\ outcome'[v] = outcome[v] /\ beat'[v].at = beat[v].at
    <3> DEFINE aged == [main[v] EXCEPT !.age = @ + 1]
               since == Older(beat[v].since, Lease)
               waits == [beat[v] EXCEPT !.wait = @ + 1, !.since = since]
               calls == [beat[v] EXCEPT !.age = @ + 1, !.since = since]
    <3>1. aged.at = main[v].at /\ aged.token = main[v].token /\ aged.reply = main[v].reply
      <4>1. \A n : LET m == [main[v] EXCEPT !.age = n]
                   IN  m.at = main[v].at /\ m.token = main[v].token /\ m.reply = main[v].reply
        BY <2>0 DEF MainRec
      <4> QED
        BY <4>1
    <3>2. waits.at = beat[v].at /\ calls.at = beat[v].at
      <4>1. \A m, n : /\ [beat[v] EXCEPT !.wait = m, !.since = n].at = beat[v].at
                      /\ [beat[v] EXCEPT !.age = m, !.since = n].at = beat[v].at
        BY <2>0 DEF BeatRec
      <4> QED
        BY <4>1
    <3>3. main'[v] = IF main[v].at \in {"claim", "complete", "fail"} THEN aged
                     ELSE IF main[v].at = "idle" THEN NewMain ELSE main[v]
      BY <1>6 DEF Tick
    <3>4. beat'[v] = IF beat[v].at = "wait" THEN waits
                     ELSE IF beat[v].at = "call" THEN calls ELSE beat[v]
      BY <1>6 DEF Tick
    <3> HIDE DEF aged, waits, calls
    <3>5. outcome'[v] = outcome[v]
      BY <1>6 DEF Tick
    <3> QED
      BY <3>1, <3>2, <3>3, <3>4, <3>5, Records
  <2>2. CASE main'[v].at = "poll"
    BY <1>0, <1>3, <2>1, <2>2 DEF TokenKnown, AnswersTrue, BeatWithin
  <2> QED
    BY <1>0, <1>4, <2>1, <2>2 DEF BeatWithin
<1>7. ASSUME NEW w \in Workers, Poll(w) PROVE TokenKnown(v)' /\ AnswersTrue(v)' /\ BeatWithin(v)'
  <2>1. CASE w = v
    <3>1. main'[v].at \in {"exit", "claim"} /\ main'[v].reply = {} /\ UNCHANGED <<beat, outcome>>
      BY <1>0, <1>7, <2>1, Records DEF Poll, Types, MainRec, NewMain, NoReply
    <3>2. beat[v].at \notin {"wait", "call"}
      BY <1>0, <1>7, <2>1 DEF Poll, BeatWithin
    <3> QED
      BY <1>3, <3>1, <3>2 DEF TokenKnown, AnswersTrue, BeatWithin
  <2>2. CASE w # v
    BY <1>0, <1>5, <1>7, <2>2 DEF Poll, Types
  <2> QED
    BY <2>1, <2>2
<1>8. ASSUME NEW w \in Workers, ClaimEffect(w)
      PROVE  TokenKnown(v)' /\ AnswersTrue(v)' /\ BeatWithin(v)'
  <2>1. UNCHANGED <<beat, outcome>>
    BY <1>8 DEF ClaimEffect
  <2>2. CASE w = v
    <3>1. PICK n \in {issued', None} : main' = [main EXCEPT ![v].reply = {n}]
      BY <1>8, <2>2 DEF ClaimEffect, Reply
    <3>2. main'[v].at = "claim" /\ main[v].at = "claim" /\ main'[v].reply = {n}
      BY <1>0, <1>8, <2>2, <3>1 DEF ClaimEffect, Types, MainRec
    <3>3. n \in 0..MaxAttempts /\ n <= issued'
      BY <1>0, <3>1 DEF None, MaxAttempts
    <3> QED
      BY <1>0, <1>3, <2>1, <3>2, <3>3 DEF TokenKnown, AnswersTrue, BeatWithin
  <2>3. CASE w # v
    BY <1>0, <1>5, <1>8, <2>1, <2>3 DEF ClaimEffect, Reply, Types
  <2> QED
    BY <2>2, <2>3
<1>9. ASSUME NEW w \in Workers, CompleteEffect(w) \/ FailEffect(w)
      PROVE  TokenKnown(v)' /\ AnswersTrue(v)' /\ BeatWithin(v)'
  <2>1. UNCHANGED <<beat, outcome, issued>> /\ main' = [main EXCEPT ![w].reply = {Live(Token(w))}]
    BY <1>9 DEF CompleteEffect, FailEffect, Reply
  <2>2. CASE w = v
    <3>1. /\ main'[v].at = main[v].at /\ main'[v].token = main[v].token
          /\ main'[v].reply = {Live(Token(v))} /\ Token(v) \in Tokens
      BY <1>0, <1>1, <1>9, <2>1, <2>2 DEF Types, MainRec, CompleteEffect, FailEffect
    <3>2. main'[v].reply = {TRUE} => Live(Token(v))
      BY <3>1
    <3>3. /\ CompleteEffect(v) /\ Live(Token(v)) => ended'[Token(v)] = "succeeded"
          /\ FailEffect(v) /\ Live(Token(v)) => ended'[Token(v)] = "failed"
      BY <3>1 DEF CompleteEffect, FailEffect, Inv, JobInv
    <3>4. /\ main[v].at = "complete" => CompleteEffect(v)
          /\ main[v].at = "fail" => FailEffect(v)
          /\ main[v].at \in {"complete", "fail"}
      BY <1>9, <2>2 DEF CompleteEffect, FailEffect
    <3>5. Token(v)' = Token(v)
      BY <3>1 DEF Token
    <3>6. TokenKnown(v)'
      BY <1>0, <2>1, <3>1, <3>4, <3>5 DEF TokenKnown
    <3>7. AnswersTrue(v)'
      BY <1>3, <2>1, <3>1, <3>2, <3>3, <3>4, <3>5 DEF AnswersTrue
    <3> QED
      BY <1>0, <2>1, <3>1, <3>6, <3>7 DEF BeatWithin
  <2>3. CASE w # v
    BY <1>0, <1>5, <2>1, <2>3 DEF Types
  <2> QED
    BY <2>2, <2>3
\* The end of run_once: no thread is left.
<1>10. ASSUME main'[v].at \in {"idle", "poll", "exit"}, outcome'[v] \in Outcomes,
              beat'[v].at \notin {"wait", "call"},
              outcome'[v][1] \in {"completed", "failed"} => outcome'[v][2] \in Tokens,
              outcome'[v][1] = "completed" => ended'[outcome'[v][2]] = "succeeded",
              outcome'[v][1] = "failed" => ended'[outcome'[v][2]] = "failed"
       PROVE  TokenKnown(v)' /\ AnswersTrue(v)' /\ BeatWithin(v)'
  BY <1>10 DEF TokenKnown, AnswersTrue, BeatWithin
<1>11. ASSUME NEW w \in Workers, CompleteReturns(w) \/ FailReturns(w)
       PROVE  TokenKnown(v)' /\ AnswersTrue(v)' /\ BeatWithin(v)'
  <2>1. PICK what \in {"completed", "fenced", "failed"} :
          /\ Returns(w, what)
          /\ what = "completed" => main[w].at = "complete" /\ main[w].reply = {TRUE}
          /\ what = "failed" => main[w].at = "fail" /\ main[w].reply = {TRUE}
    BY <1>11 DEF CompleteReturns, FailReturns, CompleteOutcome
  <2>2. /\ Only(w) /\ main'[w].at \in {"idle", "poll"} /\ outcome'[w] = <<what, Token(w)>>
        /\ beat'[w].at = IF beat[w].at = "ended" THEN "none" ELSE beat[w].at
    BY <1>0, <2>1, ReturnsTypes
  <2>3. CASE w = v
    <3>1. beat[v].at \notin {"wait", "call"}
      BY <1>0, <1>11, <2>3 DEF CompleteReturns, FailReturns, BeatWithin
    <3>2. Token(v) \in Tokens
      BY <1>1, <1>11, <2>3 DEF CompleteReturns, FailReturns
    <3>3. /\ what = "completed" => ended'[Token(v)] = "succeeded"
          /\ what = "failed" => ended'[Token(v)] = "failed"
      BY <1>0, <1>2, <2>1, <2>3, <3>2 DEF AnswersTrue
    <3>4. outcome'[v] \in Outcomes
      BY DEF Types
    <3> QED
      BY <1>10, <2>2, <2>3, <3>1, <3>2, <3>3, <3>4
  <2>4. CASE w # v
    BY <1>5, <2>2, <2>4 DEF Only
  <2> QED
    BY <2>3, <2>4
<1>12. ASSUME NEW w \in Workers, NEW what \in {"idle", "unavailable"}, Returns(w, what),
              main[w].at \in {"claim", "fail"}
       PROVE  TokenKnown(v)' /\ AnswersTrue(v)' /\ BeatWithin(v)'
  <2>1. /\ Only(w) /\ main'[w].at \in {"idle", "poll"} /\ outcome'[w] = <<what, Token(w)>>
        /\ beat'[w].at = IF beat[w].at = "ended" THEN "none" ELSE beat[w].at
    BY <1>0, <1>12, ReturnsTypes
  <2>2. CASE w = v
    <3>1. beat[v].at \notin {"wait", "call"} /\ outcome'[v] \in Outcomes
      BY <1>0, <1>12, <2>2 DEF BeatWithin, Types
    <3> QED
      BY <1>10, <1>12, <2>1, <2>2, <3>1
  <2>3. CASE w # v
    BY <1>5, <2>1, <2>3 DEF Only
  <2> QED
    BY <2>2, <2>3
<1>13. ASSUME NEW w \in Workers, ClaimReturns(w)
       PROVE  TokenKnown(v)' /\ AnswersTrue(v)' /\ BeatWithin(v)'
  <2>1. CASE Returns(w, "idle")
    BY <1>12, <1>13, <2>1 DEF ClaimReturns
  <2>2. ASSUME NEW n \in main[w].reply, n # None,
               main' = [main EXCEPT ![w] = [NewMain EXCEPT !.at = "handle", !.token = n]],
               beat' = [beat EXCEPT ![w] = [NoBeat EXCEPT !.at = "wait"]], UNCHANGED outcome
        PROVE  TokenKnown(v)' /\ AnswersTrue(v)' /\ BeatWithin(v)'
    <3>1. CASE w = v
      <4>1. main'[v].at = "handle" /\ main'[v].token = n
        BY <1>0, <2>2, <3>1, Records DEF Types, MainRec
      <4>2. n \in Tokens /\ n <= issued'
        BY <1>0, <1>13, <2>2, <3>1 DEF ClaimReturns, TokenKnown, Tokens, None, MaxAttempts
      <4> QED
        BY <1>3, <2>2, <4>1, <4>2 DEF TokenKnown, AnswersTrue, BeatWithin, Token
    <3>2. CASE w # v
      BY <1>0, <1>5, <2>2, <3>2 DEF Types
    <3> QED
      BY <3>1, <3>2
  <2> QED
    BY <1>13, <2>1, <2>2 DEF ClaimReturns
<1>14. ASSUME NEW w \in Workers, Handle(w) PROVE TokenKnown(v)' /\ AnswersTrue(v)' /\ BeatWithin(v)'
  <2>1. CASE w = v
    <3>1. /\ main'[v].at = "join" /\ main[v].at = "handle" /\ main'[v].token = main[v].token
          /\ UNCHANGED <<issued, outcome>>
      BY <1>0, <1>14, <2>1 DEF Handle, Types, MainRec
    <3> QED
      BY <1>0, <1>3, <3>1 DEF TokenKnown, AnswersTrue, BeatWithin, Token
  <2>2. CASE w # v
    BY <1>0, <1>5, <1>14, <2>2 DEF Handle, Types
  <2> QED
    BY <2>1, <2>2
<1>15. ASSUME NEW w \in Workers, NEW p \in {"complete", "fail"},
              main' = [main EXCEPT ![w].at = p, ![w].reply = NoReply, ![w].age = 0],
              UNCHANGED <<issued, beat, outcome>>, beat[w].at \notin {"wait", "call"},
              main[w].at \in {"join", "complete"}
       PROVE  TokenKnown(v)' /\ AnswersTrue(v)' /\ BeatWithin(v)'
  <2>1. CASE w = v
    <3>1. main'[v].at = p /\ main'[v].token = main[v].token /\ main'[v].reply = {}
      BY <1>0, <1>15, <2>1 DEF Types, MainRec, NoReply
    <3>2. main'[v].reply # {TRUE}
      BY <3>1
    <3> QED
      BY <1>0, <1>3, <1>15, <2>1, <3>1, <3>2 DEF TokenKnown, AnswersTrue, BeatWithin, Token
  <2>2. CASE w # v
    BY <1>0, <1>5, <1>15, <2>2 DEF Types
  <2> QED
    BY <2>1, <2>2
<1>16. ASSUME NEW w \in Workers, Join(w) PROVE TokenKnown(v)' /\ AnswersTrue(v)' /\ BeatWithin(v)'
  BY <1>15, <1>16 DEF Join
<1>17. ASSUME NEW w \in Workers, MainRaises(w)
       PROVE  TokenKnown(v)' /\ AnswersTrue(v)' /\ BeatWithin(v)'
  <2>1. BeatWithin(w)
    BY DEF Inv
  <2> QED
    BY <1>12, <1>15, <1>17, <2>1 DEF MainRaises, BeatWithin
<1>18. ASSUME NEW w \in Workers, Crash(w) PROVE TokenKnown(v)' /\ AnswersTrue(v)' /\ BeatWithin(v)'
  <2>1. CASE w = v
    <3>1. /\ main'[v].at \in {"idle", "exit"} /\ beat'[v].at = "none"
          /\ outcome'[v] = <<"none", None>> /\ outcome'[v] \in Outcomes
      BY <1>0, <1>18, <2>1, Records DEF Crash, Types, MainRec
    <3> QED
      BY <1>10, <3>1
  <2>2. CASE w # v
    BY <1>0, <1>5, <1>18, <2>2 DEF Crash, Types
  <2> QED
    BY <2>1, <2>2
<1>19. ASSUME NEW w \in Workers,
              BeatDue(w) \/ BeatDone(w) \/ HeartbeatEffect(w) \/ BeatReturns(w) \/ BeatRaises(w)
       PROVE  TokenKnown(v)' /\ AnswersTrue(v)' /\ BeatWithin(v)'
  <2>1. UNCHANGED <<main, outcome>>
    BY <1>19 DEF BeatDue, BeatDone, HeartbeatEffect, BeatReturns, BeatRaises
  <2>2. beat'[v] = beat[v] \/ beat[v].at \in {"wait", "call"}
    BY <1>0, <1>19 DEF BeatDue, BeatDone, HeartbeatEffect, BeatReturns, BeatRaises, Types
  <2> QED
    BY <1>5, <2>1, <2>2
<1> QED
  BY <1>5, <1>6, <1>7, <1>8, <1>9, <1>11, <1>13, <1>14, <1>16, <1>17, <1>18, <1>19
     DEF Next, vars, RequestStop

-----------------------------------------------------------------------------
(***************************************************************************)
(* The theorems.                                                           *)
(***************************************************************************)

\* The job waits and every worker is about to poll.
LEMMA Initially == Init => Inv
<1> SUFFICES ASSUME Init PROVE Inv
  OBVIOUS
<1>1. JobInv
  BY DEF Init, JobInv, JobRec, None, Tokens, MaxAttempts
<1>2. Types
  BY Records DEF Init, Types, Outcomes, None, MaxAttempts
<1> QED
  BY <1>1, <1>2, Records DEF Init, Inv, TokenKnown, AnswersTrue, BeatWithin

\* The invariant is inductive.
LEMMA InvariantStep == Inv /\ [Next]_vars => Inv'
BY JobStep, TypesStep, ThreadStep DEF Inv

\* run_once says completed or failed only of what ended like that, whatever
\* replies are lost and however slow the calls are.
THEOREM OutcomesCorrect == Spec => []OutcomesAreTrue
<1>1. Inv => OutcomesAreTrue
  BY DEF Inv, AnswersTrue, OutcomesAreTrue
<1> QED
  BY Initially, InvariantStep, <1>1, PTL DEF Spec

\* However many workers race, die and return, one attempt publishes, the last.
THEOREM PublicationCorrect == Spec => []PublishedOnce
<1>1. Inv => PublishedOnce
  BY DEF Inv, JobInv, PublishedOnce
<1> QED
  BY Initially, InvariantStep, <1>1, PTL DEF Spec

\* A heartbeat that is under way never renews a lease after its run_once.
LEMMA RenewalStep ==
  ASSUME Inv, [Next]_vars, job'.lease > job.lease, job'.fence = job.fence
  PROVE  \E w \in Workers : Token(w) = job.fence /\ main[w].at \in {"handle", "join"}
<1>0. /\ job \in JobRec /\ issued = job.tries
      /\ job.fence # None => job.fence = issued
      /\ \A w \in Workers : BeatWithin(w)
  BY DEF Inv, JobInv
<1>1. ASSUME NEW w \in Workers, HeartbeatEffect(w)
      PROVE  Token(w) = job.fence /\ main[w].at \in {"handle", "join"}
  <2>1. Live(Token(w))
    BY <1>0, <1>1 DEF HeartbeatEffect, JobRec
  <2> QED
    BY <1>0, <1>1, <2>1 DEF HeartbeatEffect, Live, BeatWithin
<1>2. ASSUME job'.lease = 0 \/ job' = job PROVE FALSE
  BY <1>0, <1>2 DEF JobRec
<1>3. ASSUME NEW w \in Workers, ClaimEffect(w) PROVE FALSE
  <2>1. CASE job' = [status |-> "running", tries |-> job.tries + 1, fence |-> issued + 1, lease |-> Lease]
    BY <1>0, <2>1 DEF JobRec, None, MaxAttempts
  <2>2. CASE job' = Freed("failed") \/ job' = job
    BY <1>0, <1>2, <2>2, FreedIs
  <2> QED
    BY <1>3, <2>1, <2>2 DEF ClaimEffect
<1>4. ASSUME NEW w \in Workers, CompleteEffect(w) \/ FailEffect(w) PROVE FALSE
  <2>1. job' = job \/ \E s \in {"queued", "succeeded", "failed"} : job' = Freed(s)
    BY <1>4 DEF CompleteEffect, FailEffect
  <2> QED
    BY <1>0, <1>2, <2>1, FreedIs
<1>5. ASSUME Tick PROVE FALSE
  <2> DEFINE x == IF job.lease > 0 THEN job.lease - 1 ELSE 0
  <2>1. x \in Nat /\ x <= job.lease /\ job.lease \in Nat
    BY <1>0 DEF JobRec
  <2>2. job' = [job EXCEPT !.lease = x]
    BY <1>5 DEF Tick
  <2> HIDE DEF x
  <2>3. job'.lease = x
    BY <1>0, <2>2 DEF JobRec
  <2> QED
    BY <2>1, <2>3
<1> QED
  BY <1>1, <1>2, <1>3, <1>4, <1>5 DEF Next, vars, Poll, ClaimReturns, Handle, Join,
     CompleteReturns, FailReturns, MainRaises, RequestStop, Crash, BeatDue, BeatDone, BeatReturns,
     BeatRaises

\* No heartbeat renews a lease after the call of run_once it belongs to, for any
\* number of workers and any time their calls take.
THEOREM RenewalCorrect == Spec => RenewedByOwner
<1>1. Inv /\ [Next]_vars =>
        [job'.lease > job.lease /\ job'.fence = job.fence
           => \E w \in Workers : Token(w) = job.fence /\ main[w].at \in {"handle", "join"}]_vars
  BY RenewalStep
<1> QED
  BY Initially, InvariantStep, <1>1, PTL DEF Spec, RenewedByOwner
-----------------------------------------------------------------------------
(***************************************************************************)
(* The lease.                                                              *)
(***************************************************************************)

\* The worker has been given attempt n, or is about to be told.
Has(w, n) ==
  \/ main[w].at \in {"handle", "join", "complete", "fail"} /\ Token(w) = n
  \/ main[w].at = "claim" /\ n \in main[w].reply

TokenAlone == \A n \in Tokens : \A v, w \in Workers : Has(v, n) /\ Has(w, n) => v = w

\* Attempt n of job j is safe for x more ticks.
Secured(j, n, x) == x > 0 => j.fence = n /\ j.lease >= x

\* Calls keep to their term, and beats to theirs.
InTime(w) ==
  /\ main[w].at = "claim" => main[w].age <= CallTerm
  /\ beat[w].at = "call" => beat[w].age <= CallTerm
  /\ beat[w].at = "wait" => beat[w].wait <= Heartbeat /\ beat[w].since - beat[w].wait < Budget

\* What is left of the lease, since the claim, since the last answer and since
\* the effect of a heartbeat whose answer is on its way.
Leased(w) ==
  /\ main[w].at = "claim" =>
       \A n \in main[w].reply : n # None => Secured(job, n, Lease - main[w].age)
  /\ main[w].at = "handle" /\ beat[w].at \in {"wait", "call"} =>
       Secured(job, Token(w), Lease - beat[w].since - CallTerm)
  /\ main[w].at = "handle" /\ beat[w].at = "call" /\ TRUE \in beat[w].reply =>
       Secured(job, Token(w), Lease - beat[w].age)

LeaseInv == TokenAlone /\ \A w \in Workers : InTime(w) /\ Leased(w)

\* How the main thread of a worker moves.
LEMMA MainMoves ==
  ASSUME Inv, [Next]_vars, NEW v \in Workers, NEW n \in Tokens, Has(v, n)'
  PROVE  Has(v, n) \/ (n = issued + 1 /\ issued' = issued + 1)
<1>0. Types /\ TokenKnown(v)
  BY DEF Inv
<1>1. CASE main'[v] = main[v]
  BY <1>1 DEF Has, Token
<1>2. CASE main'[v].at \in {"poll", "idle", "exit"}
  BY <1>2 DEF Has
<1>3. CASE Tick
  <2>1. CASE main'[v] = [main[v] EXCEPT !.age = @ + 1]
    <3>1. \A x : LET m == [main[v] EXCEPT !.age = x]
                 IN  m.at = main[v].at /\ m.token = main[v].token /\ m.reply = main[v].reply
      BY <1>0 DEF Types, MainRec
    <3>2. main'[v].at = main[v].at /\ main'[v].token = main[v].token /\ main'[v].reply = main[v].reply
      BY <2>1, <3>1
    <3> QED
      BY <3>2 DEF Has, Token
  <2>2. CASE main'[v] = NewMain
    BY <1>2, <2>2, Records
  <2> QED
    BY <1>1, <1>3, <2>1, <2>2 DEF Tick
<1>4. CASE Poll(v)
  <2>1. main'[v].at \in {"exit", "claim"} /\ main'[v].reply = {}
    BY <1>0, <1>4, Records DEF Poll, Types, MainRec, NewMain, NoReply
  <2> QED
    BY <2>1 DEF Has
<1>5. CASE ClaimEffect(v)
  <2>1. ASSUME NEW x, Reply(v, x) PROVE main'[v].reply = {x}
    BY <1>0, <2>1 DEF Reply, Types, MainRec
  <2>2. main'[v].at = main[v].at /\ main[v].at = "claim"
    <3>1. \E x : Reply(v, x)
      BY <1>5 DEF ClaimEffect
    <3> QED
      BY <1>0, <1>5, <3>1 DEF ClaimEffect, Reply, Types, MainRec
  <2>3. CASE issued' = issued + 1 /\ main'[v].reply = {issued + 1}
    BY <2>2, <2>3 DEF Has
  <2>4. CASE main'[v].reply = {None}
    BY <2>2, <2>4 DEF Has, Tokens, None
  <2> QED
    BY <1>5, <2>1, <2>3, <2>4 DEF ClaimEffect
<1>6. ASSUME NEW what \in {"idle", "unavailable", "completed", "fenced", "failed"}, Returns(v, what)
      PROVE  main'[v].at \in {"idle", "poll"}
  BY <1>0, <1>6, ReturnsTypes
<1>7. CASE ClaimReturns(v)
  <2>1. CASE main'[v].at \in {"idle", "poll"}
    BY <1>2, <2>1
  <2>2. ASSUME NEW m \in main[v].reply,
               main' = [main EXCEPT ![v] = [NewMain EXCEPT !.at = "handle", !.token = m]]
        PROVE  Has(v, n)
    <3>1. main'[v].at = "handle" /\ main'[v].token = m
      BY <1>0, <2>2, Records DEF Types, MainRec
    <3> QED
      BY <1>7, <2>2, <3>1 DEF Has, Token, ClaimReturns
  <2> QED
    BY <1>6, <1>7, <2>1, <2>2 DEF ClaimReturns
<1>8. CASE Handle(v) \/ Join(v) \/ CompleteEffect(v) \/ FailEffect(v)
  <2>1. main[v].at \in {"handle", "join", "complete", "fail"} /\ main'[v].token = main[v].token
        /\ main'[v].at \in {"handle", "join", "complete", "fail"}
    <3>1. CASE Handle(v)
      BY <1>0, <3>1 DEF Handle, Types, MainRec
    <3>2. CASE Join(v)
      BY <1>0, <3>2 DEF Join, Types, MainRec
    <3>3. CASE CompleteEffect(v) \/ FailEffect(v)
      <4>1. PICK x : Reply(v, x)
        BY <3>3 DEF CompleteEffect, FailEffect
      <4>2. main'[v].token = main[v].token /\ main'[v].at = main[v].at
        BY <1>0, <4>1 DEF Reply, Types, MainRec
      <4> QED
        BY <3>3, <4>2 DEF CompleteEffect, FailEffect
    <3> QED
      BY <1>8, <3>1, <3>2, <3>3
  <2> QED
    BY <2>1 DEF Has, Token
<1>9. CASE MainRaises(v)
  <2>1. CASE main[v].at = "complete" /\ main'[v].at = "fail" /\ main'[v].token = main[v].token
    BY <2>1 DEF Has, Token
  <2>2. CASE main'[v].at \in {"idle", "poll"}
    BY <1>2, <2>2
  <2>3. CASE main[v].at = "complete"
             /\ main' = [main EXCEPT ![v].at = "fail", ![v].reply = NoReply, ![v].age = 0]
    BY <1>0, <2>1, <2>3 DEF Types, MainRec
  <2> QED
    BY <1>6, <1>9, <2>2, <2>3 DEF MainRaises
<1>10. CASE CompleteReturns(v) \/ FailReturns(v)
  BY <1>2, <1>6, <1>10 DEF CompleteReturns, FailReturns, CompleteOutcome
<1>11. CASE Crash(v)
  <2>1. main'[v].at \in {"idle", "exit"}
    BY <1>0, <1>11, Records DEF Crash, Types, MainRec
  <2> QED
    BY <1>2, <2>1
<1>12. ASSUME NEW w \in Workers, w # v,
              \/ Poll(w) \/ ClaimEffect(w) \/ ClaimReturns(w) \/ Handle(w) \/ Join(w)
              \/ CompleteEffect(w) \/ CompleteReturns(w) \/ FailEffect(w) \/ FailReturns(w)
              \/ MainRaises(w) \/ Crash(w)
       PROVE  main'[v] = main[v]
  BY <1>0, <1>12 DEF Poll, ClaimEffect, Reply, ClaimReturns, Returns, Handle, Join, CompleteEffect,
     CompleteReturns, FailEffect, FailReturns, MainRaises, Crash, Types
<1>13. ASSUME NEW w \in Workers,
              RequestStop(w) \/ BeatDue(w) \/ BeatDone(w) \/ HeartbeatEffect(w)
                \/ BeatReturns(w) \/ BeatRaises(w)
       PROVE  main' = main
  BY <1>13 DEF RequestStop, BeatDue, BeatDone, HeartbeatEffect, BeatReturns, BeatRaises
<1>14. CASE UNCHANGED vars
  BY <1>1, <1>14 DEF vars
<1> QED
  BY <1>1, <1>3, <1>4, <1>5, <1>7, <1>8, <1>9, <1>10, <1>11, <1>12, <1>13, <1>14 DEF Next

\* An attempt is given to one worker.
LEMMA AloneStep ==
  ASSUME Inv, TokenAlone, [Next]_vars
  PROVE  TokenAlone'
<1> SUFFICES ASSUME NEW n \in Tokens, NEW v \in Workers, NEW w \in Workers,
                    Has(v, n)', Has(w, n)', v # w
             PROVE  FALSE
  BY DEF TokenAlone, Tokens, MaxAttempts
<1>0. \A u \in Workers : TokenKnown(u)
  BY DEF Inv
<1>1. \A u \in Workers : Has(u, n)' => Has(u, n) \/ (n = issued + 1 /\ issued' = issued + 1)
  BY MainMoves
<1>2. \A u \in Workers : Has(u, n) => n <= issued
  BY <1>0 DEF TokenKnown, Has
<1>3. issued \in Nat
  BY DEF Inv, JobInv, JobRec
<1>4. n = issued + 1 /\ issued' = issued + 1
  BY <1>1, <1>2, <1>3 DEF TokenAlone
<1>5. PICK c \in Workers : ClaimEffect(c)
  <2>1. issued' # issued
    BY <1>3, <1>4
  <2> QED
    BY <2>1 DEF Next, vars, Tick, Poll, ClaimReturns, Handle, Join, CompleteEffect,
       CompleteReturns, FailEffect, FailReturns, MainRaises, RequestStop, Crash, BeatDue, BeatDone,
       HeartbeatEffect, BeatReturns, BeatRaises
<1>6. \A u \in Workers \ {c} : main'[u] = main[u]
  BY <1>5 DEF ClaimEffect, Reply, Inv, Types
<1>7. \A u \in Workers \ {c} : ~Has(u, n)'
  <2>1. \A u \in Workers \ {c} : Has(u, n)' => Has(u, n)
    BY <1>6 DEF Has, Token
  <2> QED
    BY <1>2, <1>3, <1>4, <2>1
<1> QED
  BY <1>7

\* A lease that is secured for a worker at its handler, or about to begin, stays
\* secured by every step but the passing of time.
LEMMA SecuredStays ==
  ASSUME Inv, TokenAlone, [Next]_vars, ~Tick, NEW v \in Workers, NEW n \in Tokens, Has(v, n),
         main[v].at \in {"claim", "handle"}, NEW x \in Int, x <= Lease, Secured(job, n, x)
  PROVE  Secured(job', n, x)
<1> SUFFICES ASSUME x > 0 PROVE job'.fence = n /\ job'.lease >= x
  BY DEF Secured
<1>0. /\ job \in JobRec /\ job.fence = n /\ job.lease >= x /\ job.lease > 0
      /\ job.status = "running" /\ n # None
  BY DEF Inv, JobInv, JobRec, Secured, Tokens, None, MaxAttempts
<1>1. CASE job' = job
  BY <1>0, <1>1
<1>2. ASSUME NEW w \in Workers, ClaimEffect(w) PROVE job' = job
  BY <1>0, <1>2 DEF ClaimEffect, Claimable, Spent, JobRec
<1>3. ASSUME NEW w \in Workers, HeartbeatEffect(w) PROVE job'.fence = n /\ job'.lease >= x
  <2>1. CASE job' = [job EXCEPT !.lease = Lease]
    <3>1. job'.fence = n /\ job'.lease = Lease
      BY <1>0, <2>1 DEF JobRec
    <3> QED
      BY <3>1, TimesAssumption
  <2> QED
    BY <1>1, <1>3, <2>1 DEF HeartbeatEffect
<1>4. ASSUME NEW w \in Workers, CompleteEffect(w) \/ FailEffect(w) PROVE job' = job
  <2>1. main[w].at \in {"complete", "fail"}
    BY <1>4 DEF CompleteEffect, FailEffect
  <2>2. w # v
    BY <2>1
  <2>3. ~Live(Token(w))
    BY <1>0, <2>1, <2>2 DEF Live, TokenAlone, Has
  <2> QED
    BY <1>4, <2>3 DEF CompleteEffect, FailEffect
<1> QED
  BY <1>1, <1>2, <1>3, <1>4 DEF Next, vars, Poll, ClaimReturns, Handle, Join,
     CompleteReturns, FailReturns, MainRaises, RequestStop, Crash, BeatDue, BeatDone, BeatReturns,
     BeatRaises

\* The numbers a worker counts with.
LEMMA Numbers ==
  ASSUME Inv, NEW v \in Workers
  PROVE  /\ main[v] \in MainRec /\ beat[v] \in BeatRec
         /\ main[v].age \in Nat /\ beat[v].age \in Nat /\ beat[v].wait \in Nat /\ beat[v].since \in Nat
         /\ main[v].at \in {"handle", "join", "complete", "fail"} => Token(v) \in Tokens /\ Has(v, Token(v))
         /\ main[v].at = "claim" => \A n \in main[v].reply :
              n # None => n \in Tokens /\ Has(v, n)
<1>1. main[v] \in MainRec /\ beat[v] \in BeatRec /\ TokenKnown(v)
  BY DEF Inv, Types
<1>2. main[v].age \in Nat /\ beat[v].age \in Nat /\ beat[v].wait \in Nat /\ beat[v].since \in Nat
  BY <1>1 DEF MainRec, BeatRec
<1>3. main[v].at \in {"handle", "join", "complete", "fail"} => Token(v) \in Tokens /\ Has(v, Token(v))
  BY <1>1 DEF TokenKnown, Has
<1>4. ASSUME main[v].at = "claim", NEW n \in main[v].reply, n # None PROVE n \in Tokens /\ Has(v, n)
  <2>1. n \in 0..MaxAttempts
    BY <1>1, <1>4 DEF TokenKnown
  <2>2. n \in Tokens
    BY <1>4, <2>1 DEF Tokens, None, MaxAttempts
  <2> QED
    BY <1>4, <2>2 DEF Has
<1> QED
  BY <1>1, <1>2, <1>3, <1>4

\* Time: what is left shrinks by one tick, and so does what is claimed.
LEMMA TickLeased ==
  ASSUME Inv, Tick, NEW v \in Workers, InTime(v), Leased(v)
  PROVE  InTime(v)' /\ Leased(v)'
<1>0. /\ main[v] \in MainRec /\ beat[v] \in BeatRec
      /\ main[v].age \in Nat /\ beat[v].age \in Nat /\ beat[v].wait \in Nat /\ beat[v].since \in Nat
  BY Numbers
<1>1. OnTime(v)
  BY DEF Tick
<1>2. ASSUME NEW n, NEW x \in Int, NEW y \in Int, y = x - 1 \/ (x <= 0 /\ y <= 0), Secured(job, n, x)
      PROVE  Secured(job', n, y)
  <2> DEFINE z == IF job.lease > 0 THEN job.lease - 1 ELSE 0
  <2>1. job \in JobRec
    BY DEF Inv, JobInv
  <2>2. job.lease \in Nat /\ z \in Nat
    BY <2>1 DEF JobRec
  <2>3. job' = [job EXCEPT !.lease = z]
    BY DEF Tick
  <2>4. job'.fence = job.fence /\ job'.lease = z
    BY <2>1, <2>3 DEF JobRec
  <2>5. CASE y <= 0
    BY <2>5 DEF Secured
  <2>6. CASE y > 0
    <3>1. x > 0 /\ y = x - 1
      BY <1>2, <2>6
    <3>2. job.fence = n /\ job.lease >= x
      BY <1>2, <3>1 DEF Secured
    <3>3. z >= y
      BY <2>2, <2>6, <3>1, <3>2
    <3> QED
      BY <2>4, <3>2, <3>3 DEF Secured
  <2> QED
    BY <2>5, <2>6
\* The main thread.
<1>3. /\ main'[v].at = "claim" => /\ main[v].at = "claim" /\ main'[v].reply = main[v].reply
                                  /\ main'[v].age = main[v].age + 1 /\ main[v].age < CallTerm
      /\ main'[v].at = "handle" => main[v].at = "handle" /\ main'[v].token = main[v].token
  <2>1. \A x : LET m == [main[v] EXCEPT !.age = x]
               IN  m.at = main[v].at /\ m.reply = main[v].reply /\ m.age = x
    BY <1>0 DEF MainRec
  <2> DEFINE aged == [main[v] EXCEPT !.age = @ + 1]
  <2>2. aged.at = main[v].at /\ aged.reply = main[v].reply /\ aged.age = main[v].age + 1
    BY <2>1
  <2>3. main'[v] = IF main[v].at \in {"claim", "complete", "fail"} THEN aged
                   ELSE IF main[v].at = "idle" THEN NewMain ELSE main[v]
    BY DEF Tick
  <2> HIDE DEF aged
  <2> QED
    BY <1>1, <2>2, <2>3, Records DEF OnTime
\* The heartbeat thread.
<1>4. /\ beat'[v].at = beat[v].at
      /\ beat[v].at \in {"wait", "call"} => beat'[v].since = Older(beat[v].since, Lease)
      /\ beat[v].at = "wait" => beat'[v].wait = beat[v].wait + 1 /\ beat[v].wait < Heartbeat
      /\ beat[v].at = "call" => beat'[v].age = beat[v].age + 1 /\ beat[v].age < CallTerm
                                /\ beat'[v].reply = beat[v].reply
  <2> DEFINE since == Older(beat[v].since, Lease)
             waits == [beat[v] EXCEPT !.wait = @ + 1, !.since = since]
             calls == [beat[v] EXCEPT !.age = @ + 1, !.since = since]
  <2>1. \A x, y : LET a == [beat[v] EXCEPT !.wait = x, !.since = y]
                      b == [beat[v] EXCEPT !.age = x, !.since = y]
                  IN  /\ a.at = beat[v].at /\ a.wait = x /\ a.since = y
                      /\ b.at = beat[v].at /\ b.age = x /\ b.since = y /\ b.reply = beat[v].reply
    BY <1>0 DEF BeatRec
  <2>2. /\ waits.at = beat[v].at /\ waits.wait = beat[v].wait + 1 /\ waits.since = since
        /\ calls.at = beat[v].at /\ calls.age = beat[v].age + 1 /\ calls.since = since
        /\ calls.reply = beat[v].reply
    BY <2>1
  <2>3. beat'[v] = IF beat[v].at = "wait" THEN waits ELSE IF beat[v].at = "call" THEN calls ELSE beat[v]
    BY DEF Tick
  <2> HIDE DEF since, waits, calls
  <2>4. /\ beat'[v].at = beat[v].at
        /\ beat[v].at \in {"wait", "call"} => beat'[v].since = since
        /\ beat[v].at = "wait" => beat'[v].wait = beat[v].wait + 1
        /\ beat[v].at = "call" => beat'[v].age = beat[v].age + 1 /\ beat'[v].reply = beat[v].reply
    BY <2>2, <2>3
  <2> QED
    BY <1>1, <2>4 DEF OnTime, since
<1>5. InTime(v)'
  <2>1. main[v].age < CallTerm => main[v].age + 1 <= CallTerm
    BY <1>0, TimesAssumption
  <2>2. beat[v].age < CallTerm => beat[v].age + 1 <= CallTerm
    BY <1>0, TimesAssumption
  <2>3. beat[v].wait < Heartbeat /\ beat[v].since - beat[v].wait < Budget
          => /\ beat[v].wait + 1 <= Heartbeat
             /\ Older(beat[v].since, Lease) - (beat[v].wait + 1) < Budget
    BY <1>0, TimesAssumption DEF Older, Budget
  <2> QED
    BY <1>3, <1>4, <2>1, <2>2, <2>3 DEF InTime, Budget
<1>6. Leased(v)'
  <2>1. ASSUME main'[v].at = "claim", NEW n \in main'[v].reply, n # None
        PROVE  Secured(job', n, Lease - main'[v].age)
    <3>1. Secured(job, n, Lease - main[v].age)
      BY <1>3, <2>1 DEF Leased
    <3>2. /\ Lease - main[v].age \in Int /\ Lease - main'[v].age \in Int
          /\ Lease - main'[v].age = (Lease - main[v].age) - 1
      BY <1>0, <1>3, <2>1, TimesAssumption
    <3>3. \A y \in Int : y = (Lease - main[v].age) - 1 => Secured(job', n, y)
      BY <1>2, <3>1, <3>2
    <3> QED
      BY <3>2, <3>3
  <2>2. ASSUME main'[v].at = "handle", beat'[v].at \in {"wait", "call"}
        PROVE  Secured(job', main[v].token, Lease - beat'[v].since - CallTerm)
    <3> DEFINE x == Lease - beat[v].since - CallTerm
               y == Lease - beat'[v].since - CallTerm
    <3>1. Secured(job, main[v].token, x)
      BY <1>3, <1>4, <2>2 DEF Leased, Token
    <3>2. x \in Int /\ y \in Int /\ (y = x - 1 \/ (x <= 0 /\ y <= 0))
      BY <1>0, <1>4, <2>2, TimesAssumption DEF Older
    <3> HIDE DEF x, y
    <3>3. Secured(job', main[v].token, y)
      BY <1>2, <3>1, <3>2
    <3> QED
      BY <3>3 DEF y
  <2>3. ASSUME main'[v].at = "handle", beat'[v].at = "call", TRUE \in beat'[v].reply
        PROVE  Secured(job', main[v].token, Lease - beat'[v].age)
    <3> DEFINE x == Lease - beat[v].age
               y == Lease - beat'[v].age
    <3>1. Secured(job, main[v].token, x)
      BY <1>3, <1>4, <2>3 DEF Leased, Token
    <3>2. x \in Int /\ y \in Int /\ y = x - 1
      BY <1>0, <1>4, <2>3, TimesAssumption
    <3> HIDE DEF x, y
    <3>3. Secured(job', main[v].token, y)
      BY <1>2, <3>1, <3>2
    <3> QED
      BY <3>3 DEF y
  <2> QED
    BY <1>3, <2>1, <2>2, <2>3 DEF Leased, Token, Secured
<1> QED
  BY <1>5, <1>6

\* A worker's own step keeps what is left of its lease.
LEMMA OwnLeased ==
  ASSUME Inv, TokenAlone, [Next]_vars, ~Tick, NEW v \in Workers, InTime(v), Leased(v),
         \/ Poll(v) \/ ClaimEffect(v) \/ ClaimReturns(v) \/ Handle(v) \/ Join(v)
         \/ CompleteEffect(v) \/ CompleteReturns(v) \/ FailEffect(v) \/ FailReturns(v)
         \/ MainRaises(v) \/ Crash(v)
         \/ BeatDue(v) \/ BeatDone(v) \/ HeartbeatEffect(v) \/ BeatReturns(v) \/ BeatRaises(v)
  PROVE  InTime(v)' /\ Leased(v)'
<1>0. /\ Types /\ TokenKnown(v) /\ BeatWithin(v) /\ job \in JobRec /\ issued \in Nat
      /\ main[v] \in MainRec /\ beat[v] \in BeatRec
      /\ main[v].age \in Nat /\ beat[v].age \in Nat /\ beat[v].wait \in Nat /\ beat[v].since \in Nat
      /\ main[v].at \in {"handle", "join", "complete", "fail"} => Token(v) \in Tokens /\ Has(v, Token(v))
      /\ main[v].at = "claim" => \A n \in main[v].reply : n # None => n \in Tokens /\ Has(v, n)
  BY Numbers DEF Inv, JobInv, JobRec
\* Without a beat or a claim under way nothing is promised.
<1>1. ASSUME main'[v].at # "claim", beat'[v].at \notin {"wait", "call"}
      PROVE  InTime(v)' /\ Leased(v)'
  BY <1>1 DEF InTime, Leased
<1>2. ASSUME main'[v].at \notin {"claim", "handle"}, beat'[v] = beat[v]
      PROVE  InTime(v)' /\ Leased(v)'
  BY <1>2 DEF InTime, Leased, Budget
<1>3. CASE Poll(v)
  <2>1. /\ main'[v].at \in {"exit", "claim"} /\ main'[v].reply = {} /\ main'[v].age = 0
        /\ beat' = beat
    BY <1>0, <1>3, Records DEF Poll, Types, MainRec, NewMain, NoReply
  <2>2. beat[v].at \notin {"wait", "call"}
    BY <1>0, <1>3 DEF Poll, BeatWithin
  <2>3. 0 <= CallTerm
    BY TimesAssumption
  <2> QED
    BY <2>1, <2>2, <2>3 DEF InTime, Leased
<1>4. CASE ClaimEffect(v)
  <2>1. PICK x : Reply(v, x)
    BY <1>4 DEF ClaimEffect
  <2>2. main[v].at = "claim" /\ main'[v].at = "claim" /\ main'[v].age = main[v].age /\ main'[v].reply = {x}
        /\ beat' = beat
    BY <1>0, <1>4, <2>1 DEF ClaimEffect, Reply, Types, MainRec
  <2>3. beat[v].at \notin {"wait", "call"}
    BY <1>0, <2>2 DEF BeatWithin
  <2>4. ASSUME x # None PROVE job'.fence = x /\ job'.lease = Lease
    <3>1. ASSUME NEW y, Reply(v, y) PROVE y = x
      <4>1. main'[v].reply = {y}
        BY <1>0, <3>1 DEF Reply, Types, MainRec
      <4> QED
        BY <2>2, <4>1
    <3> QED
      BY <1>4, <2>4, <3>1 DEF ClaimEffect
  <2>5. ASSUME x # None PROVE Secured(job', x, Lease - main[v].age)
    BY <1>0, <2>4, <2>5, TimesAssumption DEF Secured
  <2> QED
    BY <2>2, <2>3, <2>5 DEF InTime, Leased
<1>5. ASSUME NEW what \in {"idle", "unavailable", "completed", "fenced", "failed"}, Returns(v, what),
             main[v].at \notin {"handle", "join"}
      PROVE  InTime(v)' /\ Leased(v)'
  <2>1. /\ main'[v].at \in {"idle", "poll"}
        /\ beat'[v].at = IF beat[v].at = "ended" THEN "none" ELSE beat[v].at
    BY <1>0, <1>5, ReturnsTypes
  <2>2. beat[v].at \notin {"wait", "call"}
    BY <1>0, <1>5 DEF BeatWithin
  <2> QED
    BY <1>1, <2>1, <2>2
<1>6. CASE ClaimReturns(v)
  <2>1. ASSUME NEW n \in main[v].reply, n # None,
               main' = [main EXCEPT ![v] = [NewMain EXCEPT !.at = "handle", !.token = n]],
               beat' = [beat EXCEPT ![v] = [NoBeat EXCEPT !.at = "wait"]]
        PROVE  InTime(v)' /\ Leased(v)'
    <3>1. main'[v].at = "handle" /\ main'[v].token = n
      BY <1>0, <2>1, Records DEF Types, MainRec
    <3>2. beat'[v].at = "wait" /\ beat'[v].wait = 0 /\ beat'[v].since = 0
      BY <1>0, <2>1 DEF Types, NoBeat
    <3>3. Secured(job, n, Lease - main[v].age) /\ main[v].age <= CallTerm /\ job' = job
      BY <1>6, <2>1 DEF ClaimReturns, InTime, Leased
    <3>4. Secured(job', n, Lease - 0 - CallTerm)
      <4>1. Lease - 0 - CallTerm > 0 =>
              Lease - main[v].age > 0 /\ Lease - main[v].age >= Lease - 0 - CallTerm
        BY <1>0, <3>3, TimesAssumption
      <4>2. job.lease \in Int /\ Lease - main[v].age \in Int /\ Lease - 0 - CallTerm \in Int
        BY <1>0, TimesAssumption DEF JobRec
      <4> QED
        BY <3>3, <4>1, <4>2 DEF Secured
    <3>5. 0 <= Heartbeat /\ 0 - 0 < Budget
      BY TimesAssumption DEF Budget
    <3> QED
      BY <3>1, <3>2, <3>4, <3>5 DEF InTime, Leased, Token, Budget
  <2> QED
    BY <1>5, <1>6, <2>1 DEF ClaimReturns
<1>7. CASE Handle(v)
  <2>1. main'[v].at = "join" /\ beat' = beat
    <3>1. PICK f \in BOOLEAN : main' = [main EXCEPT ![v].at = "join", ![v].failed = f]
      BY <1>7 DEF Handle
    <3>2. main'[v].at = "join"
      BY <1>0, <3>1 DEF Types, MainRec
    <3> QED
      BY <1>7, <3>2 DEF Handle
  <2> QED
    BY <1>2, <2>1
<1>8. CASE Join(v)
  <2>1. main'[v].at \in {"complete", "fail"} /\ beat' = beat
    BY <1>0, <1>8 DEF Join, Types, MainRec
  <2> QED
    BY <1>2, <2>1
<1>9. CASE CompleteEffect(v) \/ FailEffect(v)
  <2>1. PICK x : Reply(v, x)
    BY <1>9 DEF CompleteEffect, FailEffect
  <2>2. main'[v].at = main[v].at /\ main[v].at \in {"complete", "fail"} /\ beat' = beat
    BY <1>0, <1>9, <2>1 DEF CompleteEffect, FailEffect, Reply, Types, MainRec
  <2> QED
    BY <1>2, <2>2
<1>10. CASE CompleteReturns(v) \/ FailReturns(v)
  BY <1>5, <1>10 DEF CompleteReturns, FailReturns, CompleteOutcome
<1>11. CASE MainRaises(v)
  <2>1. CASE main[v].at = "complete"
             /\ main' = [main EXCEPT ![v].at = "fail", ![v].reply = NoReply, ![v].age = 0]
             /\ UNCHANGED beat
    <3>1. main'[v].at = "fail"
      BY <1>0, <2>1 DEF Types, MainRec
    <3> QED
      BY <1>2, <2>1, <3>1
  <2> QED
    BY <1>5, <1>11, <2>1 DEF MainRaises
<1>12. CASE Crash(v)
  <2>1. main'[v].at \in {"idle", "exit"} /\ beat'[v].at = "none"
    BY <1>0, <1>12, Records DEF Crash, Types, MainRec
  <2> QED
    BY <1>1, <2>1
\* The steps of the heartbeat thread.  What is secured by the last answer stays so.
<1>13. ASSUME main' = main, beat'[v].since = beat[v].since, main[v].at = "handle",
              beat[v].at \in {"wait", "call"}
       PROVE  Secured(job', Token(v), Lease - beat'[v].since - CallTerm)
  <2>1. Secured(job, Token(v), Lease - beat[v].since - CallTerm)
    BY <1>13 DEF Leased
  <2>2. Lease - beat[v].since - CallTerm \in Int /\ Lease - beat[v].since - CallTerm <= Lease
    BY <1>0, TimesAssumption
  <2> QED
    BY <1>0, <1>13, <2>1, <2>2, SecuredStays
<1>14. CASE BeatDue(v)
  <2>1. main' = main /\ beat'[v] = [beat[v] EXCEPT !.at = "call", !.reply = NoReply, !.age = 0]
    BY <1>0, <1>14 DEF BeatDue, Types
  <2>2. beat'[v].at = "call" /\ beat'[v].reply = {} /\ beat'[v].age = 0 /\ beat'[v].since = beat[v].since
    BY <1>0, <2>1 DEF BeatRec, NoReply
  <2>3. beat[v].at = "wait" /\ main[v].at = "handle"
    BY <1>14 DEF BeatDue, Done
  <2> QED
    <3>1. 0 <= CallTerm
      BY TimesAssumption
    <3>2. InTime(v)'
      BY <2>1, <2>2, <2>3, <3>1 DEF InTime
    <3>3. Leased(v)'
      BY <1>13, <2>1, <2>2, <2>3 DEF Leased, Token
    <3> QED
      BY <3>2, <3>3
<1>15. CASE BeatDone(v)
  <2>1. main' = main /\ beat'[v].at = "ended" /\ main[v].at # "claim"
    BY <1>0, <1>15 DEF BeatDone, Types, BeatRec, BeatWithin
  <2> QED
    BY <1>1, <2>1
<1>16. CASE HeartbeatEffect(v)
  <2>0. beat[v].at = "call" /\ main[v].at \in {"handle", "join"}
    BY <1>0, <1>16 DEF HeartbeatEffect, BeatWithin
  <2>1. main' = main /\ beat'[v] = [beat[v] EXCEPT !.reply = {Live(Token(v))}]
    BY <1>0, <1>16 DEF HeartbeatEffect, Types
  <2>2. beat'[v].at = "call" /\ beat'[v].reply = {Live(Token(v))} /\ beat'[v].age = beat[v].age
        /\ beat'[v].since = beat[v].since
    BY <1>0, <2>0, <2>1 DEF BeatRec
  <2>3. Live(Token(v)) => Secured(job', Token(v), Lease - beat[v].age)
    <3>1. SUFFICES ASSUME Live(Token(v)) PROVE job'.fence = Token(v) /\ job'.lease = Lease
      BY <1>0, TimesAssumption DEF Secured
    <3> QED
      BY <1>0, <1>16, <3>1 DEF HeartbeatEffect, Live, JobRec
  <2>4. TRUE \in {Live(Token(v))} => Live(Token(v))
    OBVIOUS
  <2>5. InTime(v)'
    BY <2>0, <2>1, <2>2 DEF InTime
  <2>6. Leased(v)'
    BY <1>13, <2>0, <2>1, <2>2, <2>3, <2>4 DEF Leased, Token
  <2> QED
    BY <2>5, <2>6
<1>17. CASE BeatReturns(v)
  <2> DEFINE lost == beat[v].reply = {FALSE}
  <2>0. beat[v].at = "call" /\ main[v].at \in {"handle", "join"} /\ job' = job /\ main' = main
    BY <1>0, <1>17 DEF BeatReturns, BeatWithin
  <2>1. beat'[v] = [beat[v] EXCEPT !.at = IF lost THEN "ended" ELSE "wait",
                                   !.lost = lost, !.wait = 0, !.since = 0]
    BY <1>0, <1>17 DEF BeatReturns, Types
  <2> HIDE DEF lost
  <2>2. beat'[v].at = (IF lost THEN "ended" ELSE "wait") /\ beat'[v].wait = 0 /\ beat'[v].since = 0
    BY <1>0, <2>1 DEF BeatRec
  <2>3. CASE lost
    BY <1>1, <2>0, <2>2, <2>3
  <2>4. CASE ~lost
    <3>1. TRUE \in beat[v].reply
      BY <1>0, <1>17, <2>4 DEF BeatReturns, NoReply, BeatRec, lost
    <3>2. main[v].at = "handle" => Secured(job, Token(v), Lease - beat[v].age) /\ beat[v].age <= CallTerm
      BY <2>0, <3>1 DEF Leased, InTime
    <3>3. main[v].at = "handle" => Secured(job', Token(v), Lease - 0 - CallTerm)
      <4>1. beat[v].age <= CallTerm /\ Lease - 0 - CallTerm > 0 =>
              Lease - beat[v].age > 0 /\ Lease - beat[v].age >= Lease - 0 - CallTerm
        BY <1>0, TimesAssumption
      <4>2. job.lease \in Int /\ Lease - beat[v].age \in Int /\ Lease - 0 - CallTerm \in Int
        BY <1>0, TimesAssumption DEF JobRec
      <4> QED
        BY <2>0, <3>2, <4>1, <4>2 DEF Secured
    <3>4. 0 <= Heartbeat /\ 0 - 0 < Budget
      BY TimesAssumption DEF Budget
    <3> QED
      BY <2>0, <2>2, <2>4, <3>3, <3>4 DEF InTime, Leased, Token, Budget
  <2> QED
    BY <2>3, <2>4
<1>18. CASE BeatRaises(v)
  <2> DEFINE ok == WithinBudget(v)
  <2>0. beat[v].at = "call" /\ main[v].at \in {"handle", "join"} /\ main' = main
    BY <1>0, <1>18 DEF BeatRaises, BeatWithin
  <2>1. beat'[v] = [beat[v] EXCEPT !.at = IF ok THEN "wait" ELSE "ended", !.error = ~ok, !.wait = 0]
    BY <1>0, <1>18 DEF BeatRaises, Types
  <2> HIDE DEF ok
  <2>2. /\ beat'[v].at = IF ok THEN "wait" ELSE "ended"
        /\ beat'[v].wait = 0 /\ beat'[v].since = beat[v].since
    BY <1>0, <2>1 DEF BeatRec
  <2>3. CASE ~ok
    BY <1>1, <2>0, <2>2, <2>3
  <2>4. CASE ok
    <3>1. 0 <= Heartbeat /\ beat[v].since - 0 < Budget
      BY <1>0, <2>4, TimesAssumption DEF Budget, ok, WithinBudget
    <3> QED
      BY <1>13, <2>0, <2>2, <2>4, <3>1 DEF InTime, Leased, Token, Budget
  <2> QED
    BY <2>3, <2>4
<1> QED
  BY <1>3, <1>4, <1>6, <1>7, <1>8, <1>9, <1>10, <1>11, <1>12, <1>14, <1>15, <1>16, <1>17, <1>18

\* Every step keeps what is left of each lease.
LEMMA LeasedStep ==
  ASSUME Inv, TokenAlone, [Next]_vars, NEW v \in Workers, InTime(v), Leased(v)
  PROVE  InTime(v)' /\ Leased(v)'
<1>0. Types
  BY DEF Inv
<1>2. CASE Tick
  BY <1>2, TickLeased
\* Another worker moves.
<1>3. ASSUME main'[v] = main[v], beat'[v] = beat[v], ~Tick PROVE InTime(v)' /\ Leased(v)'
  <2>0. /\ main[v].age \in Nat /\ beat[v].age \in Nat /\ beat[v].since \in Nat
        /\ main[v].at \in {"handle", "join", "complete", "fail"} => Token(v) \in Tokens /\ Has(v, Token(v))
        /\ main[v].at = "claim" => \A n \in main[v].reply : n # None => n \in Tokens /\ Has(v, n)
    BY Numbers
  <2>1. /\ Lease - main[v].age \in Int /\ Lease - main[v].age <= Lease
        /\ Lease - beat[v].since - CallTerm \in Int /\ Lease - beat[v].since - CallTerm <= Lease
        /\ Lease - beat[v].age \in Int /\ Lease - beat[v].age <= Lease
    BY <2>0, TimesAssumption
  <2>2. ASSUME main[v].at = "claim", NEW n \in main[v].reply, n # None
        PROVE  Secured(job', n, Lease - main[v].age)
    BY <1>0, <1>3, <2>0, <2>1, <2>2, SecuredStays DEF Leased
  <2>3. ASSUME main[v].at = "handle", beat[v].at \in {"wait", "call"}
        PROVE  Secured(job', Token(v), Lease - beat[v].since - CallTerm)
    BY <1>0, <1>3, <2>0, <2>1, <2>3, SecuredStays DEF Leased
  <2>4. ASSUME main[v].at = "handle", beat[v].at = "call", TRUE \in beat[v].reply
        PROVE  Secured(job', Token(v), Lease - beat[v].age)
    BY <1>0, <1>3, <2>0, <2>1, <2>4, SecuredStays DEF Leased
  <2>5. Leased(v)'
    BY <1>3, <2>2, <2>3, <2>4 DEF Leased, Token
  <2>6. InTime(v)'
    BY <1>0, <1>3 DEF InTime, Budget
  <2> QED
    BY <2>5, <2>6
<1>4. CASE ~Tick /\ main' = main /\ beat' = beat
  BY <1>3, <1>4
<1>5. ASSUME NEW w \in Workers, ~Tick,
             \/ Poll(w) \/ ClaimEffect(w) \/ ClaimReturns(w) \/ Handle(w) \/ Join(w)
             \/ CompleteEffect(w) \/ CompleteReturns(w) \/ FailEffect(w) \/ FailReturns(w)
             \/ MainRaises(w) \/ Crash(w)
             \/ BeatDue(w) \/ BeatDone(w) \/ HeartbeatEffect(w) \/ BeatReturns(w) \/ BeatRaises(w)
      PROVE  InTime(v)' /\ Leased(v)'
  <2>1. CASE w = v
    BY <1>0, <1>5, <2>1, OwnLeased
  <2>2. CASE w # v
    <3>1. main'[v] = main[v]
      BY <1>0, <1>5, <2>2 DEF Poll, ClaimEffect, Reply, ClaimReturns, Returns, Handle, Join,
         CompleteEffect, CompleteReturns, FailEffect, FailReturns, MainRaises, Crash, BeatDue,
         BeatDone, HeartbeatEffect, BeatReturns, BeatRaises, Types
    <3>2. beat'[v] = beat[v]
      BY <1>0, <1>5, <2>2 DEF Poll, ClaimEffect, ClaimReturns, Returns, Handle, Join,
         CompleteEffect, CompleteReturns, FailEffect, FailReturns, MainRaises, Crash, BeatDue,
         BeatDone, HeartbeatEffect, BeatReturns, BeatRaises, Types
    <3> QED
      BY <1>3, <1>5, <3>1, <3>2
  <2> QED
    BY <2>1, <2>2
<1> QED
  BY <1>2, <1>4, <1>5 DEF Next, vars, RequestStop

\* Every step keeps the account of the leases.
LEMMA LeaseStep == Inv /\ LeaseInv /\ [Next]_vars => LeaseInv'
BY AloneStep, LeasedStep DEF LeaseInv

\* For any number of workers and any lengths of leases, beats and calls: a thread
\* that still waits for a beat was answered within the lease, and until the time
\* of a call before its end the worker holds it.
THEOREM BeatingCorrect == Spec => []BeatingIsLeased
<1>1. Init => LeaseInv
  <2> SUFFICES ASSUME Init PROVE LeaseInv
    OBVIOUS
  <2>1. \A w \in Workers : main[w].at = "poll" /\ beat[w].at = "none"
    BY Records DEF Init
  <2> QED
    BY <2>1 DEF LeaseInv, TokenAlone, Has, InTime, Leased
<1>2. Inv /\ LeaseInv => BeatingIsLeased
  <2> SUFFICES ASSUME Inv, LeaseInv, NEW w \in Workers, main[w].at = "handle",
                      beat[w].at \in {"wait", "call"}
               PROVE  /\ beat[w].at = "wait" => beat[w].since < Lease
                      /\ beat[w].since + CallTerm < Lease => Live(Token(w))
    BY DEF BeatingIsLeased
  <2>1. beat[w].wait \in Nat /\ beat[w].since \in Nat /\ Token(w) \in Tokens /\ InTime(w) /\ Leased(w)
    BY Numbers DEF LeaseInv
  <2>2. job.lease \in Nat
    BY DEF Inv, JobInv, JobRec
  <2>3. beat[w].at = "wait" => beat[w].since < Lease
    BY <2>1, TimesAssumption DEF InTime, Budget
  <2>4. ASSUME beat[w].since + CallTerm < Lease PROVE Live(Token(w))
    <3>1. Secured(job, Token(w), Lease - beat[w].since - CallTerm)
      BY <2>1 DEF Leased
    <3>2. Lease - beat[w].since - CallTerm > 0 /\ Lease - beat[w].since - CallTerm \in Int
      BY <2>1, <2>4, TimesAssumption
    <3> QED
      BY <2>1, <2>2, <3>1, <3>2 DEF Secured, Live, Tokens, None, MaxAttempts
  <2> QED
    BY <2>3, <2>4
<1> QED
  BY Initially, InvariantStep, LeaseStep, <1>1, <1>2, PTL DEF Spec
=============================================================================
