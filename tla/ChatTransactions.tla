--------------------------- MODULE ChatTransactions ---------------------------
(***************************************************************************)
(* The functions of the chat queue, statement by statement, on one turn.   *)
(*                                                                         *)
(* ChatQueue takes each function as one step.  Here a call reads the clock *)
(* on entry, each of its statements reads the rows committed when the      *)
(* statement begins, a row that is changed stays locked until the call     *)
(* commits, and a statement that has waited for a row looks at that row,   *)
(* and only at that row, again (READ COMMITTED).  PostgreSQL rolls back    *)
(* one of the calls that wait for each other in a circle.                  *)
(*                                                                         *)
(* Deadlines are relative: a deadline d lies d ticks from now, in the past *)
(* if negative, and a call of age a entered a ticks ago.                   *)
(***************************************************************************)
EXTENDS Integers

CONSTANTS
  Backends,   \* the connections to the database
  LeaseTerm,  \* the lease a claim or a heartbeat grants, in ticks
  CallTerm,   \* bound: the ticks a call may last
  Retention,  \* ticks until retention_expires_at, when it is near at all
  ManualRetries  \* how often the owner may ask again; 2 in the code

ASSUME LeaseAssumption == LeaseTerm \in Nat /\ CallTerm \in Nat
\* A lease of 30 seconds or more outlasts two calls, which are a few statements each.
ASSUME CallAssumption == LeaseTerm > 2 * CallTerm
ASSUME RetentionAssumption == Retention \in Nat
ASSUME RetriesAssumption == ManualRetries \in Nat

VARIABLES
  db,      \* the committed rows
  kept,    \* ticks until the case passes its retention; Forever if far away
  issued,  \* how many attempts were ever started
  tx       \* the call of each backend

vars == <<db, kept, issued, tx>>

MaxAttempts == 2
AutoRetries == 1
Attempts == 1..(MaxAttempts * (1 + AutoRetries + ManualRetries))
Forever  == Retention + 1

Dispatch  == <<"dispatch", 0>>
Message   == <<"message", 0>>
Case      == <<"case", 0>>
Run(n)    == <<"processing_run", n>>
Rows      == {Dispatch, Message, Case} \cup {Run(n) : n \in Attempts}

\* What a settling pass of claim is about.
Causes == {"retention", "lease"}
Idle   == [call |-> "none", token |-> 0, age |-> 0, at |-> <<"idle">>, mine |-> <<>>]

Init ==
  /\ db = [r \in Rows |->
             IF r = Dispatch THEN [fence |-> 0, tries |-> 0, lease |-> -CallTerm]
             ELSE IF r = Message THEN [status |-> "generating", auto |-> 0, manual |-> 0]
             ELSE IF r = Case THEN "retained" ELSE "none"]
  /\ kept \in {Retention, Forever}
  /\ issued = 0
  /\ tx = [b \in Backends |-> Idle]

-----------------------------------------------------------------------------
(***************************************************************************)
(* Rows, locks and the clock of a call.                                    *)
(***************************************************************************)

Locked(b) == DOMAIN tx[b].mine
Free(b, r) == \A c \in Backends \ {b} : r \notin Locked(c)

\* What a statement of b sees: its own changes over the committed rows.
Sees(b, r) == IF r \in Locked(b) THEN tx[b].mine[r] ELSE db[r]

\* v_now of the call lies before the deadline.
Before(b, deadline) == deadline + tx[b].age > 0

Kept(b) == kept = Forever \/ Before(b, kept)

\* The lease granted by the call, counted from its own clock.
Granted(b) == LeaseTerm - tx[b].age

\* The call goes on at p; with a row r, it holds r with value v as well.
Goto(b, p) == tx' = [tx EXCEPT ![b].at = p]
Write(b, r, v, p) ==
  tx' = [tx EXCEPT ![b].at = p,
                   ![b].mine = [q \in Locked(b) \cup {r} |-> IF q = r THEN v ELSE Sees(b, q)]]

\* Everything the call wrote, and W, becomes visible; its locks are given back.
Commit(b, W) ==
  /\ db' = [r \in Rows |-> IF r \in DOMAIN W THEN W[r] ELSE Sees(b, r)]
  /\ tx' = [tx EXCEPT ![b] = Idle]

Released(b) == [Sees(b, Dispatch) EXCEPT !.fence = 0, !.lease = -CallTerm]

\* Begin a call.
Enter(b, call, token, p) ==
  /\ tx[b] = Idle
  /\ tx' = [tx EXCEPT ![b] = [Idle EXCEPT !.call = call, !.token = token, !.at = p]]
  /\ UNCHANGED <<db, kept, issued>>

At(b, p) == tx[b].at = p

\* A claim locks its candidate with its message and case, or ends without one.
TakeIf(b, candidate) ==
  /\ At(b, <<"take">>)
  /\ IF candidate
     THEN /\ tx' = [tx EXCEPT ![b].at = <<"start">>,
                              ![b].mine = [r \in Locked(b) \cup {Dispatch, Message, Case} |-> Sees(b, r)]]
          /\ UNCHANGED db
     ELSE Commit(b, <<>>)
  /\ UNCHANGED <<kept, issued>>

-----------------------------------------------------------------------------
(***************************************************************************)
(* Slips: forms of the code that must break a property.                    *)
(***************************************************************************)

\* The row of an abandoned attempt is left as it is.
StartOnly(b) ==
  LET n == issued + 1
  IN  /\ At(b, <<"start">>)
      /\ Commit(b, [r \in {Dispatch, Run(n)} |->
                      IF r = Run(n) THEN "running"
                      ELSE [fence |-> n, tries |-> Sees(b, r).tries + 1, lease |-> Granted(b)]])
      /\ issued' = n
      /\ UNCHANGED kept

\* The candidate is read without FOR UPDATE.
TakeUnlocked(b) ==
  TakeIf(b, /\ Sees(b, Message).status = "generating"
            /\ Sees(b, Dispatch).tries < MaxAttempts
            /\ Kept(b)
            /\ ~(Sees(b, Dispatch).fence # 0 /\ Before(b, Sees(b, Dispatch).lease)))

\* A settling statement trusts its snapshot after it has waited for the row.
TrustsSnapshot(b, r, cause) == TRUE

-----------------------------------------------------------------------------
(***************************************************************************)
(* claim_next_conversation_message_v2: three statements for every cause    *)
(* settle what is overdue, then one candidate is taken, if any.            *)
(***************************************************************************)

Read(stage, cause) == <<"read", stage, cause>>

\* The statement after the one that changes rows of the given table.
After(stage, cause) ==
  IF stage = "processing_run" THEN Read("message", cause)
  ELSE IF stage = "message" THEN Read("dispatch", cause)
  ELSE IF cause = "retention" THEN Read("processing_run", "lease")
  ELSE <<"take">>

Lapsed(b) == /\ Sees(b, Dispatch).fence # 0
             /\ ~Before(b, Sees(b, Dispatch).lease)

Spent(b) == Sees(b, Dispatch).tries >= MaxAttempts /\ Lapsed(b)

\* The row a statement matches in its snapshot, if any.  A message that fails
\* for its retention does so in the same call as its dispatch row.
Matched(b, stage, cause) ==
  LET overdue    == IF cause = "retention" THEN ~Kept(b) ELSE Spent(b)
      generating == Sees(b, Message).status = "generating"
      failed     == IF cause = "retention" THEN Message \in Locked(b)
                    ELSE Sees(b, Message).status = "failed"
      n          == Sees(b, Dispatch).fence
  IN  {r \in Rows :
         /\ r[1] = stage /\ overdue
         /\ \/ stage = "processing_run" /\ r[2] = n /\ generating
                                        /\ Sees(b, r) = "running"
            \/ stage = "message" /\ generating
            \/ stage = "dispatch" /\ failed}

\* The row still matches when its lock has been granted.
StillMatches(b, r, cause) ==
  \/ r[1] = "processing_run" /\ Sees(b, r) = "running"
  \/ r = Message /\ Sees(b, r).status = "generating"
  \/ r = Dispatch /\ (cause = "retention" \/ Spent(b))

Settled(b, r) ==
  IF r = Message THEN [Sees(b, r) EXCEPT !.status = "failed"]
  ELSE IF r = Dispatch THEN Released(b) ELSE "failed"

ReadStatement(b) ==
  \E stage \in {"processing_run", "message", "dispatch"}, cause \in Causes :
    /\ At(b, Read(stage, cause))
    /\ IF Matched(b, stage, cause) = {} THEN Goto(b, After(stage, cause))
       ELSE \E r \in Matched(b, stage, cause) : Goto(b, <<"write", r, cause>>)
    /\ UNCHANGED <<db, kept, issued>>

WriteStatement(b) ==
  \E r \in Rows, cause \in Causes :
    /\ At(b, <<"write", r, cause>>)
    /\ Free(b, r)
    /\ IF StillMatches(b, r, cause) THEN Write(b, r, Settled(b, r), After(r[1], cause))
       ELSE Goto(b, After(r[1], cause))
    /\ UNCHANGED <<db, kept, issued>>

\* The candidate is locked unless another call has a part of it (SKIP LOCKED).
Take(b) ==
  TakeIf(b, /\ Sees(b, Message).status = "generating"
            /\ Sees(b, Dispatch).tries < MaxAttempts
            /\ Kept(b)
            /\ Sees(b, Dispatch).fence = 0 \/ Lapsed(b)
            /\ \A r \in {Dispatch, Message, Case} : Free(b, r))

\* The row of the attempt that let the turn lapse, if any, and what becomes of it.
Abandoned(b)     == {Run(n) : n \in {Sees(b, Dispatch).fence} \ {0}}
Unfinished(b, r) == IF Sees(b, r) = "running" THEN "failed" ELSE Sees(b, r)

\* An abandoned attempt becomes failed and a new one begins.
Start(b) ==
  LET n == issued + 1
      W == [r \in {Dispatch, Run(n)} \cup Abandoned(b) |->
              IF r = Dispatch
              THEN [fence |-> n, tries |-> Sees(b, r).tries + 1, lease |-> Granted(b)]
              ELSE IF r = Run(n) THEN "running" ELSE Unfinished(b, r)]
  IN  /\ At(b, <<"start">>)
      /\ \A r \in Abandoned(b) : Free(b, r)
      /\ Commit(b, W)
      /\ issued' = n
      /\ UNCHANGED kept

-----------------------------------------------------------------------------
(***************************************************************************)
(* The calls of a worker.                                                  *)
(***************************************************************************)

\* The token of b holds the dispatch row, as far as the call can tell.
Holds(b) == /\ Sees(b, Dispatch).fence = tx[b].token
            /\ Before(b, Sees(b, Dispatch).lease)

Live(b) == /\ Holds(b)
           /\ Sees(b, Message).status = "generating"
           /\ tx[b].call = "fail" \/ Kept(b)

\* The first statement of heartbeat, complete and fail finds the row or returns.
Select(b) ==
  /\ At(b, <<"select">>)
  /\ IF ~Live(b) THEN tx' = [tx EXCEPT ![b] = Idle]
     ELSE Goto(b, IF tx[b].call = "heartbeat" THEN <<"beat">> ELSE <<"lock", Dispatch>>)
  /\ UNCHANGED <<db, kept, issued>>

\* heartbeat_conversation_message_v2, with its row lock.
Beat(b) ==
  /\ At(b, <<"beat">>)
  /\ Free(b, Dispatch)
  /\ IF Holds(b)
     THEN Commit(b, [r \in {Dispatch} |-> [Sees(b, r) EXCEPT !.lease = Granted(b)]])
     ELSE tx' = [tx EXCEPT ![b] = Idle] /\ UNCHANGED db
  /\ UNCHANGED <<kept, issued>>

\* A failed answer may be asked for again.
Retryable(b) == Sees(b, Message).status = "failed" /\ Sees(b, Message).manual < ManualRetries

\* The order in which a call locks the rows of a turn.
NextLock(b, r) ==
  IF tx[b].call \in {"ask", "retry"}
  THEN IF r = Case THEN <<"lock", Message>>
       ELSE IF r = Message /\ tx[b].call = "retry" /\ Retryable(b) THEN <<"lock", Dispatch>>
       ELSE <<"result">>
  ELSE IF r = Dispatch THEN <<"lock", Message>>
  ELSE IF r = Message /\ tx[b].call = "complete" THEN <<"lock", Case>>
  ELSE <<"result">>

Lock(b) ==
  \E r \in {Dispatch, Message, Case} :
    /\ At(b, <<"lock", r>>)
    /\ Free(b, r)
    /\ Write(b, r, Sees(b, r), NextLock(b, r))
    /\ UNCHANGED <<db, kept, issued>>

\* complete_conversation_message_v2 after its locks.  Without a live attempt it
\* raises, and its changes are rolled back.
Complete(b) ==
  LET n == tx[b].token
  IN  /\ At(b, <<"result">>) /\ tx[b].call = "complete"
      /\ Live(b) => Free(b, Run(n))
      /\ IF Live(b) /\ Sees(b, Run(n)) = "running"
         THEN Commit(b, [r \in {Dispatch, Message, Run(n)} |->
                           IF r = Message THEN [Sees(b, r) EXCEPT !.status = "completed"]
                           ELSE IF r = Dispatch THEN Released(b) ELSE "succeeded"])
         ELSE tx' = [tx EXCEPT ![b] = Idle] /\ UNCHANGED db
      /\ UNCHANGED <<kept, issued>>

OutOfRetries(m) == m.auto >= AutoRetries

\* fail_conversation_message_v2 after its locks.
Fail(b) ==
  LET n == tx[b].token
      m == Sees(b, Message)
  IN  /\ At(b, <<"result">>) /\ tx[b].call = "fail"
      /\ Live(b) => Free(b, Run(n))
      /\ IF Live(b) /\ Sees(b, Run(n)) = "running"
         THEN Commit(b, [r \in {Dispatch, Message, Run(n)} |->
                           IF r = Message
                           THEN IF OutOfRetries(m) THEN [m EXCEPT !.status = "failed"]
                                ELSE [m EXCEPT !.auto = @ + 1]
                           ELSE IF r = Dispatch THEN [Released(b) EXCEPT !.tries = 0]
                           ELSE "failed"])
         ELSE tx' = [tx EXCEPT ![b] = Idle] /\ UNCHANGED db
      /\ UNCHANGED <<kept, issued>>

\* The replay of a question by prepare_conversation_messages_v2 locks the case,
\* then the turn, and changes nothing.
Replay(b) ==
  /\ At(b, <<"result">>) /\ tx[b].call = "ask"
  /\ Commit(b, <<>>)
  /\ UNCHANGED <<kept, issued>>

\* retry_conversation_message_v2 under its locks, with the legacy routine it ends
\* in; it raises if an attempt still holds the turn.  The pause between retries
\* and the gate may make it raise as well, as Lose does.
Reask(b) ==
  LET granted == Retryable(b) /\ (Sees(b, Dispatch).fence = 0 \/ Lapsed(b))
      W == [r \in {Dispatch, Message} \cup Abandoned(b) |->
              IF r = Message THEN [Sees(b, r) EXCEPT !.status = "generating", !.manual = @ + 1]
              ELSE IF r = Dispatch THEN [Released(b) EXCEPT !.tries = 0]
              ELSE Unfinished(b, r)]
  IN  /\ At(b, <<"result">>) /\ tx[b].call = "retry"
      /\ granted => \A r \in Abandoned(b) : Free(b, r)
      /\ IF granted THEN Commit(b, W) ELSE tx' = [tx EXCEPT ![b] = Idle] /\ UNCHANGED db
      /\ UNCHANGED <<kept, issued>>

-----------------------------------------------------------------------------
\* A worker presents the token of its attempt, for as long as it lives.
EnterClaim(b) == Enter(b, "claim", 0, Read("processing_run", "retention"))

Begin(b) ==
  \/ EnterClaim(b)
  \/ Enter(b, "ask", 0, <<"lock", Case>>)
  \/ kept > 0 /\ Enter(b, "retry", 0, <<"lock", Case>>)
  \/ \E n \in 1..issued, call \in {"heartbeat", "complete", "fail"} :
       Enter(b, call, n, <<"select">>)

\* The row a call waits for.
Wants(b) ==
  IF tx[b].at[1] \in {"write", "lock"} THEN {tx[b].at[2]}
  ELSE IF At(b, <<"beat">>) THEN {Dispatch}
  ELSE IF At(b, <<"result">>) /\ tx[b].token # 0 /\ Live(b) THEN {Run(tx[b].token)}
  ELSE IF At(b, <<"start">>) \/ (At(b, <<"result">>) /\ tx[b].call = "retry") THEN Abandoned(b)
  ELSE {}

\* The calls of S wait for each other in a circle.
Deadlocked(S) ==
  \A b \in S : \E c \in S \ {b} : Wants(b) \cap Locked(c) # {}

Rollback(b) ==
  /\ tx' = [tx EXCEPT ![b] = Idle]
  /\ UNCHANGED <<db, kept, issued>>

\* PostgreSQL picks a victim; or a connection is lost in the middle of a call.
Victim(b) == (\E S \in SUBSET Backends : b \in S /\ Deadlocked(S)) /\ Rollback(b)
Lose(b)   == tx[b] # Idle /\ Rollback(b)

Sooner(deadline) == IF deadline > -CallTerm THEN deadline - 1 ELSE deadline
Older(dispatch)  == [dispatch EXCEPT !.lease = Sooner(@)]

Tick ==
  /\ \A b \in Backends : tx[b] # Idle => tx[b].age < CallTerm
  /\ db'   = [db EXCEPT ![Dispatch] = Older(@)]
  /\ kept' = IF kept = Forever THEN Forever ELSE Sooner(kept)
  /\ tx'   = [b \in Backends |->
                IF tx[b] = Idle THEN Idle
                ELSE [tx[b] EXCEPT !.age = @ + 1,
                        !.mine = [r \in DOMAIN @ |-> IF r = Dispatch THEN Older(@[r]) ELSE @[r]]]]
  /\ UNCHANGED issued

Step(b) ==
  \/ ReadStatement(b) \/ WriteStatement(b) \/ Take(b) \/ Start(b)
  \/ Select(b) \/ Beat(b) \/ Lock(b) \/ Complete(b) \/ Fail(b) \/ Replay(b) \/ Reask(b)

Next ==
  \/ Tick
  \/ \E b \in Backends : Begin(b) \/ Step(b) \/ Victim(b) \/ Lose(b)

Spec == Init /\ [][Next]_vars

-----------------------------------------------------------------------------
(***************************************************************************)
(* Properties.                                                             *)
(***************************************************************************)

\* An attempt is recorded as succeeded exactly if the question is answered and
\* it was the last attempt, however the statements of claims, heartbeats and
\* results mix.
AnsweredByLastAttempt ==
  \A n \in Attempts : db[Run(n)] = "succeeded" <=> db[Message].status = "completed" /\ n = issued

\* The case is past its retention, for every clock there is.
Expired == kept <= 0

\* A processing_run row that says running belongs to the attempt that holds the
\* turn.  Only the end of retention may leave one behind: the settling pass of a
\* claim reads the fence before a claim with an older clock starts the attempt,
\* and its two later statements fail the message and free the dispatch row.
StrayRunsExpired ==
  \A n \in Attempts : db[Run(n)] = "running" => db[Dispatch].fence = n \/ Expired

Turn == INSTANCE ConversationTurn WITH
          status <- db[Message].status, started <- issued,
          processing <- [n \in Attempts |-> db[Run(n)]], open <- TRUE, expired <- Expired

\* However the statements mix, every commit is a step the owner was promised.
ImplementsTurn == Turn!TSpec
===============================================================================
