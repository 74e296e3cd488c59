------------------------ MODULE ChatTransactionsProofs ------------------------
(* Proofs, for any number of connections, of manual retries, leases and calls  *)
(* of any length, that what the statements of the chat queue commit is what    *)
(* ConversationTurn promises.                                                  *)
EXTENDS ChatTransactions, TLAPS

-----------------------------------------------------------------------------
(***************************************************************************)
(* The inductive invariant, without clocks.                                *)
(***************************************************************************)

DispatchRows == [fence : Nat, tries : Nat, lease : Int]
MessageRows  == [status : {"generating", "completed", "failed"}, auto : Nat, manual : Nat]
RunStates    == {"none", "running", "failed", "succeeded"}

\* The rows v of a turn agree with each other after k attempts.
Typed(v, k) ==
  /\ k \in Nat
  /\ v[Dispatch] \in DispatchRows /\ v[Message] \in MessageRows
  /\ \A n \in Attempts : v[Run(n)] \in RunStates

Retries(m) == m.auto + m.manual

Counted(v, k) ==
  /\ v[Dispatch].tries <= MaxAttempts
  /\ v[Message].auto <= AutoRetries /\ v[Message].manual <= ManualRetries
  /\ k <= MaxAttempts * (1 + Retries(v[Message]))
  /\ v[Message].status = "generating" => k <= MaxAttempts * Retries(v[Message]) + v[Dispatch].tries
  /\ v[Dispatch].fence \in {0, k}
  /\ \A n \in Attempts : n > k => v[Run(n)] = "none"

Answered(v, k) ==
  \A n \in Attempts : v[Run(n)] = "succeeded" <=> v[Message].status = "completed" /\ n = k

Consistent(v, k) == Typed(v, k) /\ Counted(v, k) /\ Answered(v, k)

\* What a call has changed, compared with the committed rows: a claim has freed
\* the turn, failed the message or failed running attempts; others only lock.
Mine(b, r)  == tx[b].mine[r]
Freed(d)    == [d EXCEPT !.fence = 0, !.lease = -CallTerm]
Settling(m) == [m EXCEPT !.status = "failed"]

Changes(b) ==
  /\ Locked(b) \subseteq Rows
  /\ Dispatch \in Locked(b) => Mine(b, Dispatch) \in {db[Dispatch], Freed(db[Dispatch])}
  /\ Message \in Locked(b) =>
       \/ Mine(b, Message) = db[Message]
       \/ Mine(b, Message) = Settling(db[Message]) /\ db[Message].status = "generating"
  /\ \A n \in Attempts : Run(n) \in Locked(b) => Mine(b, Run(n)) = "failed" /\ db[Run(n)] = "running"
  /\ tx[b].call # "claim" =>
       /\ \A n \in Attempts : Run(n) \notin Locked(b)
       /\ \A r \in {Dispatch, Message} \cap Locked(b) : Mine(b, r) = db[r]

\* What a call knows when it comes to p.
KnowsAt(b, p) ==
  /\ p[1] \in {"read", "write", "take", "start"} => tx[b].call = "claim"
  /\ p[1] \in {"select", "beat"} => tx[b].call \in {"heartbeat", "complete", "fail"}
  /\ p[1] = "lock" => tx[b].call \in {"complete", "fail", "ask", "retry"}
  /\ p[1] = "start" =>
       /\ {Dispatch, Message} \subseteq Locked(b)
       /\ Mine(b, Message).status = "generating" /\ Mine(b, Dispatch).tries < MaxAttempts
  /\ tx[b].call \in {"complete", "fail"} =>
       /\ tx[b].token # 0
       /\ p = <<"lock", Message>> => Dispatch \in Locked(b)
       /\ p \in {<<"lock", Case>>, <<"result">>} => {Dispatch, Message} \subseteq Locked(b)
  /\ tx[b].call = "retry" =>
       /\ p = <<"lock", Dispatch>> => Message \in Locked(b)
       /\ p = <<"result">> => /\ Message \in Locked(b)
                              /\ Retryable(b) => Dispatch \in Locked(b)

Knows(b) == KnowsAt(b, tx[b].at)

Fields == {"call", "token", "age", "at", "mine"}
CallType(b) == DOMAIN tx[b] = Fields /\ tx[b].token \in 0..issued /\ tx[b].age \in 0..CallTerm

Exclusive == \A b, c \in Backends : b # c => Locked(b) \cap Locked(c) = {}

RowInv  == DOMAIN db = Rows /\ Consistent(db, issued)
CallInv == /\ DOMAIN tx = Backends /\ Exclusive
           /\ \A b \in Backends : CallType(b) /\ Changes(b) /\ Knows(b)
Inv == RowInv /\ CallInv

-----------------------------------------------------------------------------
(***************************************************************************)
(* Tables of rows: what each change of the rows of a turn keeps.           *)
(***************************************************************************)

\* The rows of a turn are different ones.
LEMMA Distinct ==
  /\ Dispatch # Message /\ Dispatch # Case /\ Message # Case
  /\ \A n : Run(n) \notin {Dispatch, Message, Case}
  /\ \A m, n : Run(m) = Run(n) => m = n
  /\ {Dispatch, Message, Case} \subseteq Rows
  /\ \A n \in Attempts : Run(n) \in Rows
  /\ \A r \in Rows : r \in {Dispatch, Message, Case} \/ \E n \in Attempts : r = Run(n)
BY DEF Dispatch, Message, Case, Run, Rows

\* The attempts are the numbers up to the limit.
LEMMA Limits ==
  /\ MaxAttempts = 2 /\ AutoRetries = 1
  /\ ManualRetries \in Nat /\ Attempts = 1..(2 * (2 + ManualRetries))
BY RetriesAssumption DEF MaxAttempts, AutoRetries, Attempts

\* Clocks: what is assumed of them.
LEMMA Terms == LeaseTerm \in Nat /\ CallTerm \in Nat
BY LeaseAssumption

\* A dispatch row that is freed keeps its count of attempts.
LEMMA FreedRow ==
  ASSUME NEW d \in DispatchRows
  PROVE  Freed(d) \in DispatchRows /\ Freed(d).tries = d.tries /\ Freed(d).fence = 0 /\ Freed(d).lease = -CallTerm
<1>1. -CallTerm \in Int
  BY Terms
<1> QED
  BY <1>1 DEF DispatchRows, Freed

\* A message that is failed keeps its counts of retries.
LEMMA SettlingRow ==
  ASSUME NEW m \in MessageRows
  PROVE  /\ Settling(m) \in MessageRows /\ Settling(m).status = "failed"
         /\ Settling(m).auto = m.auto /\ Settling(m).manual = m.manual
BY DEF MessageRows, Settling

\* The counts of a message.
LEMMA Counts ==
  ASSUME NEW m \in MessageRows
  PROVE  m.auto \in Nat /\ m.manual \in Nat /\ Retries(m) = m.auto + m.manual
BY DEF MessageRows, Retries

\* A dispatch row with the same counts, or a freed one, changes nothing else.
LEMMA Leasing ==
  ASSUME NEW v, NEW w, NEW k, Consistent(v, k),
         w[Dispatch] \in DispatchRows,
         w[Dispatch].fence \in {0, v[Dispatch].fence}, w[Dispatch].tries = v[Dispatch].tries,
         w[Message] = v[Message], \A n \in Attempts : w[Run(n)] = v[Run(n)]
  PROVE  Consistent(w, k)
BY DEF Consistent, Typed, Counted, Answered

\* One more attempt is within the limits.
LEMMA NextAttempt ==
  ASSUME NEW k \in Nat, NEW r \in Nat, NEW t \in Nat, k <= 2 * r + t, t < 2
  PROVE  k + 1 <= 2 * r + (t + 1) /\ k + 1 <= 2 * (1 + r) /\ t + 1 <= 2
OBVIOUS

\* One more retry leaves room for two attempts.
LEMMA NextRetry ==
  ASSUME NEW k \in Nat, NEW r \in Nat, k <= 2 * (1 + r)
  PROVE  k <= 2 * (r + 1) + 0 /\ k <= 2 * (1 + (r + 1))
OBVIOUS

\* The last attempt is one of those a turn may need.
LEMMA Held ==
  ASSUME NEW v, NEW k, Consistent(v, k)
  PROVE  k \in Nat /\ (k # 0 => k \in Attempts)
<1>1. /\ k \in Nat /\ v[Message] \in MessageRows
      /\ k <= MaxAttempts * (1 + Retries(v[Message]))
      /\ v[Message].auto <= AutoRetries /\ v[Message].manual <= ManualRetries
  BY DEF Consistent, Typed, Counted
<1> DEFINE r == Retries(v[Message])
<1>2. r \in Nat /\ r <= 1 + ManualRetries
  BY <1>1, Counts, Limits
<1>3. k <= 2 * (1 + r)
  BY <1>1, Limits
<1> HIDE DEF r
<1> QED
  BY <1>1, <1>2, <1>3, Limits

\* A turn that is generated has room for one more attempt.
LEMMA Room ==
  ASSUME NEW v, NEW k, Consistent(v, k),
         v[Message].status = "generating", v[Dispatch].tries < MaxAttempts
  PROVE  /\ k \in Nat /\ k + 1 \in Attempts
         /\ k + 1 <= MaxAttempts * Retries(v[Message]) + (v[Dispatch].tries + 1)
         /\ k + 1 <= MaxAttempts * (1 + Retries(v[Message]))
         /\ v[Dispatch].tries + 1 <= MaxAttempts
<1> USE Limits DEF MaxAttempts, AutoRetries
<1> DEFINE r == Retries(v[Message])
           t == v[Dispatch].tries
<1>1. k \in Nat /\ t \in Nat /\ r \in Nat /\ r <= 1 + ManualRetries
  <2>1. k \in Nat /\ t \in Nat /\ v[Message] \in MessageRows
    BY DEF Consistent, Typed, DispatchRows
  <2>2. v[Message].auto <= 1 /\ v[Message].manual <= ManualRetries
    BY DEF Consistent, Counted
  <2> QED
    BY <2>1, <2>2, Counts
<1>2. k <= 2 * r + t /\ t < 2
  BY DEF Consistent, Counted
<1>3. k + 1 <= 2 * r + (t + 1) /\ k + 1 <= 2 * (1 + r) /\ t + 1 <= 2
  BY <1>1, <1>2, NextAttempt
<1>4. k + 1 \in Attempts
  <2> HIDE DEF r, t
  <2> QED
    BY <1>1, <1>3
<1> QED
  BY <1>1, <1>3, <1>4

\* A new attempt takes the turn.
LEMMA Starting ==
  ASSUME NEW v, NEW w, NEW k, Consistent(v, k),
         v[Message].status = "generating", v[Dispatch].tries < MaxAttempts,
         w[Dispatch] \in DispatchRows,
         w[Dispatch].fence = k + 1, w[Dispatch].tries = v[Dispatch].tries + 1,
         w[Message] = v[Message], w[Run(k + 1)] = "running",
         \A n \in Attempts \ {k + 1} :
           w[Run(n)] = v[Run(n)] \/ (v[Run(n)] = "running" /\ w[Run(n)] = "failed")
  PROVE  Consistent(w, k + 1)
<1>1. /\ k \in Nat /\ k + 1 \in Attempts
      /\ k + 1 <= MaxAttempts * Retries(v[Message]) + (v[Dispatch].tries + 1)
      /\ k + 1 <= MaxAttempts * (1 + Retries(v[Message]))
      /\ v[Dispatch].tries + 1 <= MaxAttempts
  BY Room
<1>5. Typed(w, k + 1)
  BY <1>1 DEF Consistent, Typed, RunStates
<1>6. Counted(w, k + 1)
  <2>1. \A n \in Attempts : n > k + 1 => w[Run(n)] = "none"
    BY <1>1, Limits DEF Consistent, Counted
  <2>2. v[Message].auto <= AutoRetries /\ v[Message].manual <= ManualRetries
    BY DEF Consistent, Counted
  <2> QED
    BY <1>1, <2>1, <2>2 DEF Counted
<1>7. Answered(w, k + 1)
  BY DEF Consistent, Answered
<1> QED
  BY <1>5, <1>6, <1>7 DEF Consistent

\* The attempt that holds the turn answers the question.
LEMMA Completing ==
  ASSUME NEW v, NEW w, NEW k, NEW n \in Attempts, Consistent(v, k),
         v[Message].status = "generating", v[Dispatch].fence = n,
         w[Dispatch] \in DispatchRows,
         w[Dispatch].fence = 0, w[Dispatch].tries = v[Dispatch].tries,
         w[Message] \in MessageRows, w[Message].status = "completed",
         w[Message].auto = v[Message].auto, w[Message].manual = v[Message].manual,
         w[Run(n)] = "succeeded", \A m \in Attempts \ {n} : w[Run(m)] = v[Run(m)]
  PROVE  Consistent(w, k)
<1> USE Limits DEF MaxAttempts, AutoRetries
<1>1. k \in Nat /\ n = k
  BY DEF Consistent, Typed, Counted
<1>2. \A m \in Attempts \ {n} : w[Run(m)] # "succeeded"
  BY DEF Consistent, Answered
<1>3. Typed(w, k)
  BY DEF Consistent, Typed, RunStates
<1>4. Counted(w, k)
  BY <1>1 DEF Consistent, Counted, Retries
<1>5. Answered(w, k)
  BY <1>1, <1>2 DEF Answered
<1> QED
  BY <1>3, <1>4, <1>5 DEF Consistent

\* The attempt that holds the turn fails, and the question is retried or fails.
LEMMA Failing ==
  ASSUME NEW v, NEW w, NEW k, NEW n \in Attempts, Consistent(v, k),
         v[Message].status = "generating", v[Dispatch].fence = n,
         w[Dispatch] \in DispatchRows, w[Dispatch].fence = 0, w[Dispatch].tries = 0,
         w[Message] \in MessageRows, w[Message].manual = v[Message].manual,
         \/ w[Message].status = "failed" /\ w[Message].auto = v[Message].auto
         \/ /\ w[Message].status = "generating" /\ w[Message].auto = v[Message].auto + 1
            /\ v[Message].auto < AutoRetries,
         w[Run(n)] = "failed", \A m \in Attempts \ {n} : w[Run(m)] = v[Run(m)]
  PROVE  Consistent(w, k)
<1> USE Limits DEF MaxAttempts, AutoRetries
<1> DEFINE r == Retries(v[Message])
<1>1. k \in Nat /\ n = k /\ r \in Nat /\ k <= 2 * (1 + r)
  BY Counts DEF Consistent, Typed, Counted
<1>2. Typed(w, k)
  BY DEF Consistent, Typed, RunStates
<1>3. Counted(w, k)
  <2>1. \A m \in Attempts : m > k => w[Run(m)] = "none"
    BY <1>1 DEF Consistent, Counted
  <2>2. w[Message].auto <= AutoRetries /\ w[Message].manual <= ManualRetries
    BY Counts DEF Consistent, Typed, Counted
  <2>3. \/ w[Message].status = "failed" /\ Retries(w[Message]) = r
        \/ Retries(w[Message]) = r + 1
    BY Counts DEF Consistent, Typed, Retries
  <2>4. k <= 2 * (r + 1) + 0 /\ k <= 2 * (1 + (r + 1))
    BY <1>1, NextRetry
  <2> HIDE DEF r
  <2> QED
    BY <1>1, <2>1, <2>2, <2>3, <2>4 DEF Counted
<1>4. Answered(w, k)
  BY <1>1 DEF Consistent, Answered
<1> QED
  BY <1>2, <1>3, <1>4 DEF Consistent

\* The owner asks again for an answer that failed.
LEMMA Reasking ==
  ASSUME NEW v, NEW w, NEW k, Consistent(v, k),
         v[Message].status = "failed", v[Message].manual < ManualRetries,
         w[Dispatch] \in DispatchRows, w[Dispatch].fence = 0, w[Dispatch].tries = 0,
         w[Message] \in MessageRows, w[Message].status = "generating",
         w[Message].auto = v[Message].auto, w[Message].manual = v[Message].manual + 1,
         \A n \in Attempts :
           w[Run(n)] = v[Run(n)] \/ (v[Run(n)] = "running" /\ w[Run(n)] = "failed")
  PROVE  Consistent(w, k)
<1> USE Limits DEF MaxAttempts, AutoRetries
<1> DEFINE r == Retries(v[Message])
<1>1. k \in Nat /\ r \in Nat /\ k <= 2 * (1 + r)
  BY Counts DEF Consistent, Typed, Counted
<1>2. Typed(w, k)
  BY DEF Consistent, Typed, RunStates
<1>3. Counted(w, k)
  <2>1. \A m \in Attempts : m > k => w[Run(m)] = "none"
    BY DEF Consistent, Counted
  <2>2. w[Message].auto <= AutoRetries /\ w[Message].manual <= ManualRetries
    BY Counts DEF Consistent, Typed, Counted
  <2>3. Retries(w[Message]) = r + 1
    BY Counts DEF Consistent, Typed, Retries
  <2>4. k <= 2 * (r + 1) + 0 /\ k <= 2 * (1 + (r + 1))
    BY <1>1, NextRetry
  <2> HIDE DEF r
  <2> QED
    BY <1>1, <2>1, <2>2, <2>3, <2>4 DEF Counted
<1>4. Answered(w, k)
  BY DEF Consistent, Answered
<1> QED
  BY <1>2, <1>3, <1>4 DEF Consistent

\* What a call would commit now is as consistent as the committed rows.
View(b) == [r \in Rows |-> Sees(b, r)]

LEMMA SeenConsistent ==
  ASSUME RowInv, NEW b \in Backends, Changes(b)
  PROVE  /\ Consistent(View(b), issued)
         /\ View(b)[Dispatch] = Sees(b, Dispatch) /\ View(b)[Message] = Sees(b, Message)
         /\ \A n \in Attempts : View(b)[Run(n)] = Sees(b, Run(n))
         /\ Sees(b, Dispatch) \in {db[Dispatch], Freed(db[Dispatch])}
         /\ \/ Sees(b, Message) = db[Message]
            \/ Sees(b, Message) = Settling(db[Message]) /\ db[Message].status = "generating"
         /\ \A n \in Attempts : \/ Sees(b, Run(n)) = db[Run(n)]
                                \/ Sees(b, Run(n)) = "failed" /\ db[Run(n)] = "running"
<1> USE Distinct DEF RowInv
<1>0. View(b)[Dispatch] = Sees(b, Dispatch) /\ View(b)[Message] = Sees(b, Message)
      /\ \A n \in Attempts : View(b)[Run(n)] = Sees(b, Run(n))
  BY DEF View
<1>1. Sees(b, Dispatch) \in {db[Dispatch], Freed(db[Dispatch])}
  BY DEF Changes, Mine, Sees
<1>2. \/ Sees(b, Message) = db[Message]
      \/ Sees(b, Message) = Settling(db[Message]) /\ db[Message].status = "generating"
  BY DEF Changes, Mine, Sees
<1>3. \A n \in Attempts : \/ Sees(b, Run(n)) = db[Run(n)]
                          \/ Sees(b, Run(n)) = "failed" /\ db[Run(n)] = "running"
  BY DEF Changes, Mine, Sees
<1>4. /\ db[Dispatch] \in DispatchRows /\ db[Message] \in MessageRows
      /\ Sees(b, Dispatch) \in DispatchRows /\ Sees(b, Dispatch).tries = db[Dispatch].tries
      /\ Sees(b, Dispatch).fence \in {0, db[Dispatch].fence}
  BY <1>1, FreedRow DEF Consistent, Typed
<1>5. /\ Sees(b, Message) \in MessageRows
      /\ Sees(b, Message).auto = db[Message].auto /\ Sees(b, Message).manual = db[Message].manual
      /\ \/ Sees(b, Message).status = db[Message].status
         \/ Sees(b, Message).status = "failed" /\ db[Message].status = "generating"
  BY <1>2, <1>4, SettlingRow
<1>6. Typed(View(b), issued)
  BY <1>0, <1>3, <1>4, <1>5 DEF Consistent, Typed, RunStates
<1>7. Counted(View(b), issued)
  BY <1>0, <1>3, <1>4, <1>5 DEF Consistent, Counted, Retries
<1>8. Answered(View(b), issued)
  BY <1>0, <1>3, <1>5 DEF Consistent, Answered
<1> QED
  BY <1>0, <1>1, <1>2, <1>3, <1>6, <1>7, <1>8 DEF Consistent

-----------------------------------------------------------------------------
(***************************************************************************)
(* Moves of a call: it goes on, changes a row, commits or is rolled back.  *)
(***************************************************************************)

\* What a call knows depends on its own record and the rows it has locked.
LEMMA SameKnowledge ==
  ASSUME NEW b, NEW p, KnowsAt(b, p), Locked(b)' = Locked(b),
         tx'[b].call = tx[b].call, tx'[b].token = tx[b].token,
         Message \in Locked(b) => Mine(b, Message)' = Mine(b, Message),
         Dispatch \in Locked(b) => Mine(b, Dispatch)'.tries = Mine(b, Dispatch).tries
  PROVE  KnowsAt(b, p)'
<1>1. Message \in Locked(b) => Retryable(b)' = Retryable(b)
  BY DEF Retryable, Sees, Mine
<1> QED
  BY <1>1 DEF KnowsAt

\* The other calls notice nothing but the rows they have not locked.
LEMMA OtherCalls ==
  ASSUME Inv, NEW c \in Backends, tx'[c] = tx[c], issued' \in Nat, issued <= issued',
         \A r \in Locked(c) : db'[r] = db[r]
  PROVE  CallType(c)' /\ Changes(c)' /\ Knows(c)'
<1>1. CallType(c) /\ Changes(c) /\ Knows(c) /\ issued \in Nat
  BY DEF Inv, CallInv, RowInv, Consistent, Typed
<1>2. CallType(c)'
  BY <1>1 DEF CallType
<1>3. Locked(c)' = Locked(c) /\ \A r \in Locked(c) : Mine(c, r)' = Mine(c, r)
  BY DEF Locked, Mine
<1>4. Changes(c)'
  BY <1>1, <1>3 DEF Changes
<1>5. Knows(c)'
  BY <1>1, <1>3, SameKnowledge DEF Knows
<1> QED
  BY <1>2, <1>4, <1>5

\* A call between two calls holds and knows nothing.
LEMMA IdleCall ==
  ASSUME NEW b \in Backends, tx[b] = Idle, issued \in Nat
  PROVE  CallType(b) /\ Changes(b) /\ Knows(b) /\ Locked(b) = {}
<1>1. Locked(b) = {}
  BY DEF Locked, Idle
<1>2. 0 \in 0..CallTerm
  BY Terms
<1> QED
  BY <1>1, <1>2 DEF Idle, CallType, Fields, Changes, Knows, KnowsAt

\* A step of one call that commits nothing.
LEMMA OwnStep ==
  ASSUME Inv, NEW b \in Backends, DOMAIN tx' = Backends,
         \A c \in Backends \ {b} : tx'[c] = tx[c] /\ Locked(b)' \cap Locked(c) = {},
         UNCHANGED <<db, issued>>,
         CallType(b)', Changes(b)', Knows(b)'
  PROVE  Inv'
<1>1. issued \in Nat
  BY DEF Inv, RowInv, Consistent, Typed
<1>2. \A c \in Backends : CallType(c)' /\ Changes(c)' /\ Knows(c)'
  BY <1>1, OtherCalls
<1>3. Exclusive'
  <2>1. \A c \in Backends \ {b} : Locked(c)' = Locked(c)
    BY DEF Locked
  <2> QED
    BY <2>1 DEF Inv, CallInv, Exclusive
<1> QED
  BY <1>2, <1>3 DEF Inv, CallInv, RowInv

\* It goes on to p.
LEMMA Goes ==
  ASSUME NEW b \in Backends, NEW p, DOMAIN tx = Backends, CallType(b), Goto(b, p)
  PROVE  /\ DOMAIN tx' = Backends /\ \A c \in Backends \ {b} : tx'[c] = tx[c]
         /\ DOMAIN tx'[b] = Fields /\ tx'[b].at = p
         /\ tx'[b].call = tx[b].call /\ tx'[b].token = tx[b].token
         /\ tx'[b].age = tx[b].age /\ tx'[b].mine = tx[b].mine
<1>1. /\ DOMAIN tx' = Backends /\ \A c \in Backends \ {b} : tx'[c] = tx[c]
      /\ tx'[b] = [tx[b] EXCEPT !.at = p]
  BY DEF Goto
<1> QED
  BY <1>1 DEF CallType, Fields

\* It goes on, and keeps what it knows.
LEMMA Going ==
  ASSUME Inv, NEW b \in Backends, NEW p, Goto(b, p), KnowsAt(b, p), UNCHANGED <<db, issued>>
  PROVE  Inv'
<1>1. CallType(b) /\ Changes(b) /\ DOMAIN tx = Backends /\ Exclusive
  BY DEF Inv, CallInv
<1>2. /\ DOMAIN tx' = Backends /\ \A c \in Backends \ {b} : tx'[c] = tx[c]
      /\ DOMAIN tx'[b] = Fields /\ tx'[b].at = p
      /\ tx'[b].call = tx[b].call /\ tx'[b].token = tx[b].token
      /\ tx'[b].age = tx[b].age /\ tx'[b].mine = tx[b].mine
  BY <1>1, Goes
<1>3. /\ Locked(b)' = Locked(b) /\ CallType(b)' /\ \A r : Mine(b, r)' = Mine(b, r)
  BY <1>1, <1>2 DEF Locked, CallType, Mine
<1>4. Changes(b)'
  BY <1>1, <1>2, <1>3 DEF Changes
<1>5. Knows(b)'
  <2>1. KnowsAt(b, p)'
    BY <1>2, <1>3, SameKnowledge
  <2> QED
    BY <1>2, <2>1 DEF KnowsAt, Knows
<1>6. \A c \in Backends \ {b} : Locked(b)' \cap Locked(c) = {}
  BY <1>1, <1>3 DEF Exclusive
<1> QED
  BY <1>2, <1>3, <1>4, <1>5, <1>6, OwnStep

\* It gives up.
LEMMA Idling ==
  ASSUME Inv, NEW b \in Backends, tx' = [tx EXCEPT ![b] = Idle], UNCHANGED <<db, issued>>
  PROVE  Inv'
<1>1. DOMAIN tx = Backends /\ issued \in Nat /\ 0 \in 0..CallTerm
  BY Terms DEF Inv, CallInv, RowInv, Consistent, Typed
<1>2. DOMAIN tx' = Backends /\ tx'[b] = Idle /\ \A c \in Backends \ {b} : tx'[c] = tx[c]
  BY <1>1
<1>3. Locked(b)' = {} /\ CallType(b)' /\ Changes(b)' /\ Knows(b)'
  <2>1. Locked(b)' = {}
    BY <1>2 DEF Locked, Idle
  <2> QED
    BY <1>1, <1>2, <2>1 DEF Idle, CallType, Fields, Changes, Knows, KnowsAt
<1> QED
  BY <1>2, <1>3, OwnStep

\* It locks the rows R and sees them as V, and goes on to p.
LEMMA Locks ==
  ASSUME NEW b \in Backends, NEW V, NEW p, DOMAIN tx = Backends, CallType(b),
         tx' = [tx EXCEPT ![b].at = p, ![b].mine = V]
  PROVE  /\ DOMAIN tx' = Backends /\ \A c \in Backends \ {b} : tx'[c] = tx[c]
         /\ DOMAIN tx'[b] = Fields /\ tx'[b].at = p
         /\ tx'[b].call = tx[b].call /\ tx'[b].token = tx[b].token
         /\ tx'[b].age = tx[b].age /\ tx'[b].mine = V
<1>1. /\ DOMAIN tx' = Backends /\ \A c \in Backends \ {b} : tx'[c] = tx[c]
      /\ tx'[b] = [tx[b] EXCEPT !.at = p, !.mine = V]
  OBVIOUS
<1> QED
  BY <1>1 DEF CallType, Fields

\* It locks them, and keeps what it knows.
LEMMA Locking ==
  ASSUME Inv, NEW b \in Backends, NEW R \in SUBSET Rows, NEW V, NEW p,
         \A r \in R : Free(b, r),
         tx' = [tx EXCEPT ![b].at = p, ![b].mine = V],
         DOMAIN V = Locked(b) \cup R,
         UNCHANGED <<db, issued>>,
         Changes(b)', Knows(b)'
  PROVE  Inv'
<1>1. CallType(b) /\ DOMAIN tx = Backends /\ Exclusive
  BY DEF Inv, CallInv
<1>2. /\ DOMAIN tx' = Backends /\ \A c \in Backends \ {b} : tx'[c] = tx[c]
      /\ DOMAIN tx'[b] = Fields
      /\ tx'[b].token = tx[b].token /\ tx'[b].age = tx[b].age /\ tx'[b].mine = V
  BY <1>1, Locks
<1>3. CallType(b)' /\ Locked(b)' = Locked(b) \cup R
  BY <1>1, <1>2 DEF CallType, Locked
<1>4. \A c \in Backends \ {b} : Locked(b)' \cap Locked(c) = {}
  BY <1>1, <1>3 DEF Exclusive, Free
<1> QED
  BY <1>2, <1>3, <1>4, OwnStep

\* It commits what it has changed and W.
LEMMA Committing ==
  ASSUME Inv, NEW b \in Backends, NEW W, Commit(b, W),
         \A r \in DOMAIN W, c \in Backends \ {b} : r \notin Locked(c),
         issued' \in Nat, issued <= issued',
         Consistent(db', issued')
  PROVE  Inv'
<1>1. DOMAIN tx = Backends /\ Exclusive /\ Changes(b)
  BY DEF Inv, CallInv
<1>2. DOMAIN tx' = Backends /\ tx'[b] = Idle /\ \A c \in Backends \ {b} : tx'[c] = tx[c]
  BY <1>1 DEF Commit
<1>3. DOMAIN db' = Rows /\ \A r \in Rows : db'[r] = IF r \in DOMAIN W THEN W[r] ELSE Sees(b, r)
  BY DEF Commit
<1>4. CallType(b)' /\ Changes(b)' /\ Knows(b)' /\ Locked(b)' = {}
  <2>1. Locked(b)' = {} /\ 0 \in 0..CallTerm
    BY <1>2, Terms DEF Locked, Idle
  <2> QED
    BY <1>2, <2>1 DEF Idle, CallType, Fields, Changes, Knows, KnowsAt
<1>5. ASSUME NEW c \in Backends \ {b} PROVE CallType(c)' /\ Changes(c)' /\ Knows(c)'
  <2>1. Locked(c) \subseteq Rows /\ Locked(b) \cap Locked(c) = {}
    BY <1>1 DEF Inv, CallInv, Changes, Exclusive
  <2>2. \A r \in Locked(c) : db'[r] = db[r]
    BY <1>3, <2>1 DEF Sees
  <2> QED
    BY <1>2, <2>2, OtherCalls
<1>6. Exclusive'
  <2>1. \A c \in Backends \ {b} : Locked(c)' = Locked(c)
    BY <1>2 DEF Locked
  <2> QED
    BY <1>1, <1>4, <2>1 DEF Exclusive
<1> QED
  BY <1>2, <1>3, <1>4, <1>5, <1>6 DEF Inv, CallInv, RowInv

\* A commit of what a call has changed already.
LEMMA CommitStep ==
  ASSUME Inv, NEW b \in Backends, Commit(b, <<>>), UNCHANGED issued
  PROVE  Inv' /\ db' = View(b)
<1>1. Changes(b) /\ RowInv
  BY DEF Inv, CallInv
<1>2. db' = View(b)
  BY DEF Commit, View
<1>3. Consistent(db', issued')
  BY <1>1, <1>2, SeenConsistent
<1>4. issued \in Nat
  BY <1>1 DEF RowInv, Consistent, Typed
<1> QED
  BY <1>2, <1>3, <1>4, Committing

-----------------------------------------------------------------------------
(***************************************************************************)
(* The statements of a claim.                                              *)
(***************************************************************************)

\* The statement after one of the three is a read or the choice of a candidate.
LEMMA AfterSettling ==
  ASSUME NEW stage, NEW cause PROVE After(stage, cause)[1] \in {"read", "take"}
<1>1. \E s, c : After(stage, cause) \in {<<"read", s, c>>, <<"take">>}
  BY DEF After, Read
<1> QED
  BY <1>1

\* Where a claim settles it knows no more than that it is a claim.
LEMMA GoesOnSettling ==
  ASSUME NEW b, NEW p, tx[b].at[1] \in {"read", "write", "take"}, Knows(b),
         p[1] \in {"read", "write", "take"}
  PROVE  KnowsAt(b, p) /\ tx[b].call = "claim"
BY DEF KnowsAt, Knows

\* A statement reads and matches a row, or none.
LEMMA ReadStep == ASSUME Inv, NEW b \in Backends, ReadStatement(b) PROVE Inv'
<1>1. PICK stage \in {"processing_run", "message", "dispatch"}, cause \in Causes :
        /\ At(b, Read(stage, cause))
        /\ \/ Goto(b, After(stage, cause))
           \/ \E r \in Rows : Goto(b, <<"write", r, cause>>)
  BY DEF ReadStatement, Matched
<1>2. UNCHANGED <<db, issued>>
  BY DEF ReadStatement
<1>3. Knows(b) /\ tx[b].at[1] = "read"
  BY <1>1 DEF Inv, CallInv, At, Read
<1>4. CASE Goto(b, After(stage, cause))
  <2>1. KnowsAt(b, After(stage, cause))
    BY <1>3, GoesOnSettling, AfterSettling
  <2> QED
    BY <1>2, <1>4, <2>1, Going
<1>5. ASSUME NEW r \in Rows, Goto(b, <<"write", r, cause>>) PROVE Inv'
  <2>1. KnowsAt(b, <<"write", r, cause>>)
    BY <1>3, GoesOnSettling
  <2> QED
    BY <1>2, <1>5, <2>1, Going
<1> QED
  BY <1>1, <1>4, <1>5

\* Freeing a row that is free changes nothing.
LEMMA FreedTwice == ASSUME NEW d \in DispatchRows PROVE Freed(Freed(d)) = Freed(d)
<1>1. -CallTerm \in Int
  BY Terms
<1> QED
  BY <1>1 DEF Freed, DispatchRows

\* What a statement of a claim settles was running, generating or held.
LEMMA Settles ==
  ASSUME Inv, NEW b \in Backends, NEW r \in Rows, NEW cause, StillMatches(b, r, cause)
  PROVE  \/ r = Dispatch /\ Settled(b, r) = Freed(db[Dispatch])
         \/ /\ r = Message /\ Settled(b, r) = Settling(db[Message])
            /\ db[Message].status = "generating"
         \/ /\ r[1] = "processing_run" /\ Settled(b, r) = "failed" /\ db[r] = "running"
            /\ \E n \in Attempts : r = Run(n)
<1>1. RowInv /\ Changes(b) /\ db[Dispatch] \in DispatchRows /\ db[Message] \in MessageRows
  BY DEF Inv, RowInv, CallInv, Consistent, Typed
<1>2. CASE r = Dispatch
  <2>1. Settled(b, r) = Freed(Sees(b, Dispatch))
    BY <1>2, Distinct DEF Settled, Released, Freed
  <2> QED
    BY <1>1, <1>2, <2>1, SeenConsistent, FreedTwice
<1>3. CASE r = Message
  <2>1. Settled(b, r) = Settling(Sees(b, Message)) /\ Sees(b, Message).status = "generating"
    BY <1>3, Distinct DEF Settled, Settling, StillMatches, Message, Dispatch
  <2>2. Sees(b, Message) = db[Message]
    BY <1>1, <2>1, SeenConsistent, SettlingRow
  <2> QED
    BY <1>3, <2>1, <2>2
<1>4. ASSUME NEW n \in Attempts, r = Run(n) PROVE Settled(b, r) = "failed" /\ db[r] = "running"
  <2>1. Sees(b, r) = "running" /\ Settled(b, r) = "failed"
    BY <1>4, Distinct DEF StillMatches, Settled
  <2> QED
    BY <1>1, <1>4, <2>1, SeenConsistent
<1>5. r # Case
  BY DEF StillMatches, Case, Message, Dispatch
<1> QED
  BY <1>2, <1>3, <1>4, <1>5, Distinct DEF Run

\* A statement of a claim changes the row it has waited for, or not.
LEMMA Writes ==
  ASSUME NEW b \in Backends, WriteStatement(b)
  PROVE  \E r \in Rows, cause \in Causes :
           /\ At(b, <<"write", r, cause>>) /\ Free(b, r)
           /\ \/ Goto(b, After(r[1], cause)) /\ ~StillMatches(b, r, cause)
              \/ /\ StillMatches(b, r, cause)
                 /\ \E V : /\ tx' = [tx EXCEPT ![b].at = After(r[1], cause), ![b].mine = V]
                           /\ DOMAIN V = Locked(b) \cup {r} /\ V[r] = Settled(b, r)
                           /\ \A q \in Locked(b) \ {r} : V[q] = Sees(b, q)
<1>1. PICK r \in Rows, cause \in Causes :
        /\ At(b, <<"write", r, cause>>) /\ Free(b, r)
        /\ IF StillMatches(b, r, cause) THEN Write(b, r, Settled(b, r), After(r[1], cause))
           ELSE Goto(b, After(r[1], cause))
  BY DEF WriteStatement
<1>2. CASE StillMatches(b, r, cause)
  <2> DEFINE V == [q \in Locked(b) \cup {r} |-> IF q = r THEN Settled(b, r) ELSE Sees(b, q)]
  <2>1. tx' = [tx EXCEPT ![b].at = After(r[1], cause), ![b].mine = V]
    BY <1>1, <1>2 DEF Write
  <2>2. DOMAIN V = Locked(b) \cup {r} /\ V[r] = Settled(b, r) /\ \A q \in Locked(b) \ {r} : V[q] = Sees(b, q)
    OBVIOUS
  <2> HIDE DEF V
  <2> QED
    BY <1>1, <1>2, <2>1, <2>2
<1> QED
  BY <1>1, <1>2

\* What is settled stays within what a claim may have changed.
LEMMA WriteStep == ASSUME Inv, NEW b \in Backends, WriteStatement(b) PROVE Inv'
<1>1. PICK r \in Rows, cause \in Causes :
        /\ At(b, <<"write", r, cause>>) /\ Free(b, r)
        /\ \/ Goto(b, After(r[1], cause)) /\ ~StillMatches(b, r, cause)
           \/ /\ StillMatches(b, r, cause)
              /\ \E V : /\ tx' = [tx EXCEPT ![b].at = After(r[1], cause), ![b].mine = V]
                        /\ DOMAIN V = Locked(b) \cup {r} /\ V[r] = Settled(b, r)
                        /\ \A q \in Locked(b) \ {r} : V[q] = Sees(b, q)
  BY Writes
<1>2. UNCHANGED <<db, issued>>
  BY DEF WriteStatement
<1>3. /\ Knows(b) /\ Changes(b) /\ CallType(b) /\ DOMAIN tx = Backends
      /\ tx[b].at[1] = "write"
  BY <1>1 DEF Inv, CallInv, At
<1> DEFINE p == After(r[1], cause)
<1>4. p[1] \in {"read", "take"} /\ KnowsAt(b, p) /\ tx[b].call = "claim"
  BY <1>3, AfterSettling, GoesOnSettling
<1> HIDE DEF p
<1>5. CASE Goto(b, p)
  BY <1>2, <1>4, <1>5, Going
<1>6. ASSUME StillMatches(b, r, cause),
             NEW V, tx' = [tx EXCEPT ![b].at = p, ![b].mine = V],
             DOMAIN V = Locked(b) \cup {r}, V[r] = Settled(b, r),
             \A q \in Locked(b) \ {r} : V[q] = Sees(b, q)
      PROVE  Inv'
  <2>1. /\ tx'[b].at = p /\ tx'[b].call = "claim" /\ tx'[b].token = tx[b].token /\ tx'[b].mine = V
    <3>1. tx'[b] = [tx[b] EXCEPT !.at = p, !.mine = V]
      BY <1>3, <1>6
    <3>2. tx'[b].at = p /\ tx'[b].call = tx[b].call /\ tx'[b].token = tx[b].token /\ tx'[b].mine = V
      BY <1>3, <3>1 DEF CallType, Fields
    <3> QED
      BY <1>4, <3>2
  <2>2. /\ Locked(b)' = Locked(b) \cup {r}
        /\ Mine(b, r)' = Settled(b, r) /\ \A q \in Locked(b) \ {r} : Mine(b, q)' = Mine(b, q)
    BY <1>6, <2>1 DEF Locked, Mine, Sees
  <2>3. Knows(b)'
    BY <1>4, <2>1 DEF Knows, KnowsAt
  <2>4. Changes(b)'
    <3>1. Locked(b)' \subseteq Rows
      BY <1>3, <2>2 DEF Changes
    <3>2. Dispatch \in Locked(b)' => Mine(b, Dispatch)' \in {db[Dispatch], Freed(db[Dispatch])}
      BY <1>3, <1>6, <2>2, Settles, Distinct DEF Changes, Dispatch, Run
    <3>3. Message \in Locked(b)' =>
            \/ Mine(b, Message)' = db[Message]
            \/ Mine(b, Message)' = Settling(db[Message]) /\ db[Message].status = "generating"
      BY <1>3, <1>6, <2>2, Settles, Distinct DEF Changes, Message, Run
    <3>4. ASSUME NEW n \in Attempts, Run(n) \in Locked(b)'
          PROVE  Mine(b, Run(n))' = "failed" /\ db[Run(n)] = "running"
      BY <1>3, <1>6, <2>2, <3>4, Settles, Distinct DEF Changes
    <3> QED
      BY <1>2, <2>1, <3>1, <3>2, <3>3, <3>4 DEF Changes
  <2> DEFINE R == {r}
  <2>5. R \in SUBSET Rows /\ (\A q \in R : Free(b, q)) /\ DOMAIN V = Locked(b) \cup R
    BY <1>1, <1>6
  <2> HIDE DEF R
  <2> QED
    BY <1>2, <1>6, <2>3, <2>4, <2>5, Locking
<1> QED
  BY <1>1, <1>5, <1>6 DEF p

\* A candidate is locked as a whole, as it was committed.
LEMMA Takes ==
  ASSUME NEW b \in Backends, Take(b), ~Commit(b, <<>>)
  PROVE  /\ UNCHANGED db /\ \A r \in {Dispatch, Message, Case} : Free(b, r)
         /\ Sees(b, Message).status = "generating" /\ Sees(b, Dispatch).tries < MaxAttempts
         /\ Sees(b, Dispatch).fence = 0 \/ Lapsed(b)
         /\ \E V : /\ tx' = [tx EXCEPT ![b].at = <<"start">>, ![b].mine = V]
                   /\ DOMAIN V = Locked(b) \cup {Dispatch, Message, Case}
                   /\ \A r \in DOMAIN V : V[r] = Sees(b, r)
<1> DEFINE V == [r \in Locked(b) \cup {Dispatch, Message, Case} |-> Sees(b, r)]
<1>1. /\ tx' = [tx EXCEPT ![b].at = <<"start">>, ![b].mine = V]
      /\ UNCHANGED db
      /\ \A r \in {Dispatch, Message, Case} : Free(b, r)
      /\ Sees(b, Message).status = "generating" /\ Sees(b, Dispatch).tries < MaxAttempts
      /\ Sees(b, Dispatch).fence = 0 \/ Lapsed(b)
  BY DEF Take, TakeIf
<1>2. DOMAIN V = Locked(b) \cup {Dispatch, Message, Case} /\ \A r \in DOMAIN V : V[r] = Sees(b, r)
  OBVIOUS
<1> HIDE DEF V
<1> QED
  BY <1>1, <1>2

\* What a claim sees of its candidate is what it has locked.
LEMMA TakeStep == ASSUME Inv, NEW b \in Backends, Take(b) PROVE Inv'
<1>1. UNCHANGED issued
  BY DEF Take, TakeIf
<1>2. CASE Commit(b, <<>>)
  BY <1>1, <1>2, CommitStep
<1>3. CASE ~Commit(b, <<>>)
  <2> DEFINE R == {Dispatch, Message, Case}
  <2>1. PICK V : /\ tx' = [tx EXCEPT ![b].at = <<"start">>, ![b].mine = V]
                 /\ DOMAIN V = Locked(b) \cup R /\ \A r \in DOMAIN V : V[r] = Sees(b, r)
    BY <1>3, Takes
  <2>2. /\ UNCHANGED db /\ \A r \in R : Free(b, r)
        /\ Sees(b, Message).status = "generating" /\ Sees(b, Dispatch).tries < MaxAttempts
    BY <1>3, Takes
  <2>3. CallType(b) /\ Changes(b) /\ Knows(b) /\ DOMAIN tx = Backends /\ RowInv /\ tx[b].at[1] = "take"
    BY DEF Inv, CallInv, Take, TakeIf, At
  <2>4. tx[b].call = "claim"
    BY <2>3 DEF Knows, KnowsAt
  <2>5. /\ tx'[b].at = <<"start">> /\ tx'[b].call = "claim" /\ tx'[b].mine = V
    <3>1. tx'[b] = [tx[b] EXCEPT !.at = <<"start">>, !.mine = V]
      BY <2>1, <2>3
    <3>2. tx'[b].at = <<"start">> /\ tx'[b].call = tx[b].call /\ tx'[b].mine = V
      BY <2>3, <3>1 DEF CallType, Fields
    <3> QED
      BY <2>4, <3>2
  <2>6. Locked(b)' = Locked(b) \cup R /\ \A r \in Locked(b) \cup R : Mine(b, r)' = Sees(b, r)
    BY <2>1, <2>5 DEF Locked, Mine
  <2>7. \A n \in Attempts : Run(n) \in Locked(b)' => Run(n) \in Locked(b) /\ Mine(b, Run(n))' = Mine(b, Run(n))
    BY <2>6, Distinct DEF Sees, Mine
  <2>8. Changes(b)'
    <3>1. Locked(b)' \subseteq Rows
      BY <2>3, <2>6, Distinct DEF Changes
    <3>2. /\ Mine(b, Dispatch)' \in {db[Dispatch], Freed(db[Dispatch])}
          /\ \/ Mine(b, Message)' = db[Message]
             \/ Mine(b, Message)' = Settling(db[Message]) /\ db[Message].status = "generating"
      BY <2>3, <2>6, SeenConsistent
    <3> QED
      BY <2>2, <2>3, <2>5, <2>7, <3>1, <3>2 DEF Changes
  <2>9. Knows(b)'
    BY <2>2, <2>5, <2>6 DEF Knows, KnowsAt
  <2>10. R \in SUBSET Rows
    BY Distinct
  <2> HIDE DEF R
  <2> QED
    BY <1>1, <2>1, <2>2, <2>8, <2>9, <2>10, Locking
<1> QED
  BY <1>2, <1>3

\* The rows that other calls have locked stay as they are.
Untouched(b) ==
  \A c \in Backends \ {b} : tx'[c] = tx[c] /\ \A r \in Locked(c) : db'[r] = db[r]

\* Attempts that were running may have failed.
RunsStop(S) ==
  \A n \in S : db'[Run(n)] = db[Run(n)] \/ (db[Run(n)] = "running" /\ db'[Run(n)] = "failed")

\* A commit touches no row of another call.
LEMMA Commits ==
  ASSUME Inv, NEW b \in Backends, NEW W, Commit(b, W),
         \A r \in DOMAIN W, c \in Backends \ {b} : r \notin Locked(c)
  PROVE  Untouched(b) /\ tx'[b] = Idle
<1>1. DOMAIN tx = Backends /\ Exclusive /\ \A c \in Backends : Locked(c) \subseteq Rows
  BY DEF Inv, CallInv, Changes
<1>2. tx'[b] = Idle /\ \A c \in Backends \ {b} : tx'[c] = tx[c]
  BY <1>1 DEF Commit
<1>3. \A r \in Rows : db'[r] = IF r \in DOMAIN W THEN W[r] ELSE Sees(b, r)
  BY DEF Commit
<1>4. ASSUME NEW c \in Backends \ {b}, NEW r \in Locked(c) PROVE db'[r] = db[r]
  <2>1. r \in Rows /\ r \notin Locked(b) /\ r \notin DOMAIN W
    BY <1>1, <1>4 DEF Exclusive
  <2> QED
    BY <1>3, <2>1 DEF Sees
<1> QED
  BY <1>2, <1>4 DEF Untouched

\* The row of an attempt not yet started is nobody's.
LEMMA NewRunFree ==
  ASSUME Inv, issued + 1 \in Attempts
  PROVE  db[Run(issued + 1)] = "none" /\ \A c \in Backends : Run(issued + 1) \notin Locked(c)
<1>1. issued \in Nat /\ db[Run(issued + 1)] = "none"
  BY DEF Inv, RowInv, Consistent, Typed, Counted
<1> QED
  BY <1>1 DEF Inv, CallInv, Changes

\* The next attempt takes the turn from the one that let it lapse.
LEMMA StartStep ==
  ASSUME Inv, NEW b \in Backends, Start(b)
  PROVE  /\ Inv' /\ Untouched(b) /\ tx'[b] = Idle
         /\ issued' = issued + 1 /\ issued' \in Attempts /\ db[Run(issued')] = "none"
         /\ db'[Run(issued')] = "running" /\ RunsStop(Attempts \ {issued'})
         /\ Sees(b, Dispatch).fence # 0 => db'[Run(Sees(b, Dispatch).fence)] # "running"
         /\ db'[Message] = db[Message] /\ db[Message].status = "generating"
         /\ db[Dispatch].tries < MaxAttempts
         /\ db'[Dispatch] = [fence |-> issued', tries |-> db[Dispatch].tries + 1, lease |-> Granted(b)]
<1> DEFINE d == Sees(b, Dispatch)
           n == issued + 1
           Touched == {Dispatch, Run(n)} \cup Abandoned(b)
           W == [r \in Touched |->
                   IF r = Dispatch THEN [fence |-> n, tries |-> Sees(b, r).tries + 1, lease |-> Granted(b)]
                   ELSE IF r = Run(n) THEN "running" ELSE Unfinished(b, r)]
<1>1. /\ tx[b].at = <<"start">> /\ (\A r \in Abandoned(b) : Free(b, r))
      /\ Commit(b, W) /\ issued' = n
  BY DEF Start, At
<1>2. CallType(b) /\ Changes(b) /\ Knows(b) /\ RowInv /\ Exclusive
  BY DEF Inv, CallInv
<1>3. /\ Consistent(View(b), issued) /\ Consistent(db, issued)
      /\ View(b)[Dispatch] = d /\ View(b)[Message] = Sees(b, Message)
      /\ \A m \in Attempts : View(b)[Run(m)] = Sees(b, Run(m))
      /\ d \in {db[Dispatch], Freed(db[Dispatch])}
      /\ \/ Sees(b, Message) = db[Message]
         \/ Sees(b, Message) = Settling(db[Message]) /\ db[Message].status = "generating"
      /\ \A m \in Attempts : \/ Sees(b, Run(m)) = db[Run(m)]
                             \/ Sees(b, Run(m)) = "failed" /\ db[Run(m)] = "running"
  BY <1>2, SeenConsistent DEF RowInv
<1>4. /\ {Dispatch, Message} \subseteq Locked(b)
      /\ Sees(b, Message).status = "generating" /\ d.tries < MaxAttempts
  BY <1>1, <1>2 DEF Knows, KnowsAt, Sees, Mine
<1>5. /\ Sees(b, Message) = db[Message] /\ db[Message].status = "generating"
      /\ d.tries = db[Dispatch].tries
  BY <1>3, <1>4, SettlingRow, FreedRow DEF Consistent, Typed
<1>6. /\ issued \in Nat /\ d \in DispatchRows /\ d.fence \in {0, issued} /\ d.tries \in Nat
  BY <1>3 DEF Consistent, Typed, Counted, DispatchRows
<1>7. Granted(b) \in Int
  BY <1>2, Terms DEF Granted, CallType
<1>8. DOMAIN W = Touched /\ Message \notin Touched /\ Dispatch \in Touched /\ Run(n) \in Touched
  BY Distinct DEF Abandoned
<1>9. /\ W[Dispatch] = [fence |-> n, tries |-> d.tries + 1, lease |-> Granted(b)]
      /\ W[Run(n)] = "running"
      /\ \A m \in Attempts \ {n} :
           Run(m) \in Touched => m = d.fence /\ W[Run(m)] = Unfinished(b, Run(m))
  BY Distinct DEF Abandoned
<1>10. d.fence # 0 => Run(d.fence) \in Touched
  BY DEF Abandoned
<1>11. \A r \in Rows : db'[r] = IF r \in DOMAIN W THEN W[r] ELSE Sees(b, r)
  BY <1>1 DEF Commit
<1>12. \A r \in Touched \ {Run(n)}, c \in Backends \ {b} : r \notin Locked(c)
  BY <1>1, <1>2, <1>4 DEF Exclusive, Free
<1> HIDE DEF W, Touched
<1>13. db'[Dispatch] = [fence |-> n, tries |-> d.tries + 1, lease |-> Granted(b)]
       /\ db'[Message] = Sees(b, Message)
  BY <1>8, <1>9, <1>11, Distinct
<1>14. \A m \in Attempts \ {n} :
         /\ db'[Run(m)] = Sees(b, Run(m)) \/ (Sees(b, Run(m)) = "running" /\ db'[Run(m)] = "failed")
         /\ m = d.fence => db'[Run(m)] # "running"
  <2> TAKE m \in Attempts \ {n}
  <2>1. Run(m) \in Rows /\ m # 0
    BY Distinct, Limits
  <2>2. CASE Run(m) \in Touched
    BY <1>8, <1>9, <1>11, <2>1, <2>2 DEF Unfinished
  <2>3. CASE Run(m) \notin Touched
    BY <1>8, <1>10, <1>11, <2>1, <2>3
  <2> QED
    BY <2>2, <2>3
<1>15. \A m \in Attempts : m = n => db'[Run(m)] = "running"
  BY <1>8, <1>9, <1>11, Distinct
<1>16. n \in Attempts
  BY <1>3, <1>4, Room
<1>17. db'[Dispatch] \in DispatchRows /\ db'[Dispatch].fence = n /\ db'[Dispatch].tries = d.tries + 1
  BY <1>6, <1>7, <1>13 DEF DispatchRows
<1>18. Consistent(db', n)
  BY <1>3, <1>4, <1>13, <1>14, <1>15, <1>16, <1>17, Starting
<1>19. \A c \in Backends : Run(n) \notin Locked(c)
  BY <1>16, NewRunFree
<1>20. \A r \in DOMAIN W, c \in Backends \ {b} : r \notin Locked(c)
  BY <1>8, <1>12, <1>19
<1>21. Inv' /\ Untouched(b) /\ tx'[b] = Idle
  BY <1>1, <1>6, <1>18, <1>20, Committing, Commits
<1>22. RunsStop(Attempts \ {n}) /\ db[Run(n)] = "none"
  BY <1>3, <1>14, <1>16, NewRunFree DEF RunsStop
<1>23. d.fence # 0 => d.fence \in Attempts \ {n}
  BY <1>6, <1>16, Limits
<1> QED
  BY <1>1, <1>4, <1>5, <1>13, <1>14, <1>15, <1>16, <1>21, <1>22, <1>23

-----------------------------------------------------------------------------
(***************************************************************************)
(* The calls of a worker and of the owner.                                 *)
(***************************************************************************)

\* Every call but a claim sees the rows of the turn as they are.
LEMMA NonClaim ==
  ASSUME Inv, NEW b \in Backends, tx[b].call # "claim"
  PROVE  /\ Sees(b, Dispatch) = db[Dispatch] /\ Sees(b, Message) = db[Message]
         /\ \A n \in Attempts : Sees(b, Run(n)) = db[Run(n)]
BY DEF Inv, CallInv, Changes, Sees, Mine

\* Where a call stands tells what call it is.
LEMMA Calls ==
  ASSUME Inv, NEW b \in Backends
  PROVE  /\ tx[b].at[1] \in {"read", "write", "take", "start"} => tx[b].call = "claim"
         /\ tx[b].at[1] \in {"select", "beat"} => tx[b].call \in {"heartbeat", "complete", "fail"}
         /\ tx[b].at[1] = "lock" => tx[b].call \in {"complete", "fail", "ask", "retry"}
BY DEF Inv, CallInv, Knows, KnowsAt

\* The call ends and nothing has changed.
Withdrawn(b) == tx' = [tx EXCEPT ![b] = Idle] /\ UNCHANGED db

\* The first statement of a worker's call.
LEMMA SelectStep == ASSUME Inv, NEW b \in Backends, Select(b) PROVE Inv' /\ UNCHANGED db
<1>1. UNCHANGED <<db, issued>> /\ Knows(b) /\ tx[b].call \in {"heartbeat", "complete", "fail"}
  BY Calls DEF Select, At, Inv, CallInv
<1>2. CASE tx' = [tx EXCEPT ![b] = Idle]
  BY <1>1, <1>2, Idling
<1>3. ASSUME NEW p, Goto(b, p),
             p = IF tx[b].call = "heartbeat" THEN <<"beat">> ELSE <<"lock", Dispatch>>
      PROVE  Inv'
  <2>1. tx[b].call \in {"complete", "fail"} => tx[b].token # 0
    BY <1>1 DEF Knows, KnowsAt
  <2>2. KnowsAt(b, p)
    BY <1>1, <1>3, <2>1, Distinct DEF KnowsAt
  <2> QED
    BY <1>1, <1>3, <2>2, Going
<1> QED
  BY <1>1, <1>2, <1>3 DEF Select

\* A heartbeat renews the lease of a row nobody has locked.
LEMMA BeatStep ==
  ASSUME Inv, NEW b \in Backends, Beat(b)
  PROVE  /\ Inv'
         /\ \/ Withdrawn(b)
            \/ /\ Untouched(b) /\ tx'[b] = Idle
               /\ db'[Dispatch] = [db[Dispatch] EXCEPT !.lease = Granted(b)]
               /\ db'[Message] = db[Message] /\ \A n \in Attempts : db'[Run(n)] = db[Run(n)]
<1>1. UNCHANGED issued /\ Free(b, Dispatch) /\ tx[b].call # "claim"
  BY Calls DEF Beat, At
<1>2. CASE Withdrawn(b)
  BY <1>1, <1>2, Idling DEF Withdrawn
<1>3. CASE Commit(b, [r \in {Dispatch} |-> [Sees(b, r) EXCEPT !.lease = Granted(b)]])
  <2> DEFINE W == [r \in {Dispatch} |-> [Sees(b, r) EXCEPT !.lease = Granted(b)]]
  <2>1. CallType(b) /\ RowInv /\ Consistent(db, issued)
    BY DEF Inv, CallInv, RowInv
  <2>2. DOMAIN W = {Dispatch} /\ W[Dispatch] = [db[Dispatch] EXCEPT !.lease = Granted(b)]
    BY <1>1, NonClaim
  <2>3. Commit(b, W)
    BY <1>3
  <2> HIDE DEF W
  <2>4. \A r \in Rows : db'[r] = IF r = Dispatch THEN W[Dispatch] ELSE Sees(b, r)
    BY <2>2, <2>3 DEF Commit
  <2>5. /\ db'[Dispatch] = [db[Dispatch] EXCEPT !.lease = Granted(b)]
        /\ db'[Message] = db[Message] /\ \A n \in Attempts : db'[Run(n)] = db[Run(n)]
    BY <1>1, <2>2, <2>4, NonClaim, Distinct
  <2>6. Granted(b) \in Int /\ db[Dispatch] \in DispatchRows
    BY <2>1, Terms DEF Granted, CallType, Consistent, Typed
  <2>7. /\ db'[Dispatch] \in DispatchRows /\ db'[Dispatch].fence = db[Dispatch].fence
        /\ db'[Dispatch].tries = db[Dispatch].tries
    BY <2>5, <2>6 DEF DispatchRows
  <2>8. Consistent(db', issued')
    <3>1. db'[Dispatch].fence \in {0, db[Dispatch].fence} /\ issued' = issued
      BY <1>1, <2>7
    <3>2. db'[Message] = db[Message] /\ \A n \in Attempts : db'[Run(n)] = db[Run(n)]
      BY <2>5
    <3>3. Consistent(db', issued)
      BY <2>1, <2>7, <3>1, <3>2, Leasing
    <3> QED
      BY <3>1, <3>3
  <2>9. issued \in Nat
    BY <2>1 DEF Consistent, Typed
  <2>10. \A r \in DOMAIN W, c \in Backends \ {b} : r \notin Locked(c)
    BY <1>1, <2>2 DEF Free
  <2> QED
    BY <1>1, <2>3, <2>5, <2>8, <2>9, <2>10, Committing, Commits
<1> QED
  BY <1>2, <1>3 DEF Beat, Withdrawn

\* A row is locked as it is, in the order of the call.
LEMMA LockStep == ASSUME Inv, NEW b \in Backends, Lock(b) PROVE Inv' /\ UNCHANGED db
<1>1. PICK r \in {Dispatch, Message, Case} :
        At(b, <<"lock", r>>) /\ Free(b, r) /\ Write(b, r, Sees(b, r), NextLock(b, r))
  BY DEF Lock
<1>2. UNCHANGED <<db, issued>> /\ tx[b].call \in {"complete", "fail", "ask", "retry"}
  BY <1>1, Calls DEF Lock, At
<1> DEFINE p == NextLock(b, r)
           V == [q \in Locked(b) \cup {r} |-> IF q = r THEN Sees(b, r) ELSE Sees(b, q)]
           R == {r}
<1>3. tx' = [tx EXCEPT ![b].at = p, ![b].mine = V]
  BY <1>1 DEF Write
<1>4. DOMAIN V = Locked(b) \cup R /\ \A q \in Locked(b) \cup R : V[q] = Sees(b, q)
  OBVIOUS
<1>5. R \in SUBSET Rows /\ (\A q \in R : Free(b, q)) /\ r \in R /\ R \subseteq {Dispatch, Message, Case}
  BY <1>1, Distinct
<1>6. p \in {<<"lock", Message>>, <<"lock", Dispatch>>, <<"lock", Case>>, <<"result">>}
  BY DEF NextLock
<1>7. tx[b].call \in {"complete", "fail"} =>
        /\ p = <<"lock", Message>> => r = Dispatch
        /\ p \in {<<"lock", Case>>, <<"result">>} => r = Message \/ r = Case
  BY Distinct DEF NextLock
<1>8. tx[b].call = "retry" =>
        /\ p = <<"lock", Dispatch>> => r = Message
        /\ p = <<"result">> => r = Dispatch \/ (r = Message /\ ~Retryable(b))
  BY Distinct DEF NextLock
<1> HIDE DEF V, R, p
<1>9. CallType(b) /\ Changes(b) /\ Knows(b) /\ DOMAIN tx = Backends
  BY DEF Inv, CallInv
<1>10. /\ tx'[b].at = p /\ tx'[b].call = tx[b].call /\ tx'[b].token = tx[b].token /\ tx'[b].mine = V
  <2>1. tx'[b] = [tx[b] EXCEPT !.at = p, !.mine = V]
    BY <1>3, <1>9
  <2> QED
    BY <1>9, <2>1 DEF CallType, Fields
<1>11. Locked(b)' = Locked(b) \cup R /\ \A q \in Locked(b) \cup R : Mine(b, q)' = Sees(b, q)
  BY <1>4, <1>10 DEF Locked, Mine
<1>12. Changes(b)'
  <2>1. \A n \in Attempts : Run(n) \notin Locked(b)'
    BY <1>2, <1>5, <1>9, <1>11, Distinct DEF Changes
  <2>2. \A q \in {Dispatch, Message} \cap Locked(b)' : Mine(b, q)' = db[q]
    BY <1>2, <1>11, NonClaim
  <2> QED
    BY <1>2, <1>5, <1>9, <1>10, <1>11, <2>1, <2>2 DEF Changes
<1>13. Retryable(b)' = Retryable(b)
  <2>1. Sees(b, Message)' = db[Message]
    BY <1>2, <1>11, NonClaim DEF Sees, Mine
  <2> QED
    BY <1>2, <2>1, NonClaim DEF Retryable
<1>14. Knows(b)'
  <2>1. KnowsAt(b, <<"lock", r>>)
    BY <1>1, <1>9 DEF At, Knows
  <2>2. tx[b].call \in {"complete", "fail"} =>
          /\ tx[b].token # 0
          /\ r = Message => Dispatch \in Locked(b)
          /\ r = Case => {Dispatch, Message} \subseteq Locked(b)
    BY <2>1 DEF KnowsAt
  <2>3. tx[b].call = "retry" => (r = Dispatch => Message \in Locked(b))
    BY <2>1 DEF KnowsAt
  <2>4. r \in Locked(b)'
    BY <1>5, <1>11
  <2>5. p[1] \notin {"read", "write", "take", "start", "select", "beat"}
    BY <1>6
  <2> QED
    BY <1>2, <1>5, <1>6, <1>7, <1>8, <1>10, <1>11, <1>13, <2>2, <2>3, <2>4, <2>5, Distinct DEF Knows, KnowsAt
<1>15. Inv'
  BY <1>2, <1>3, <1>4, <1>5, <1>12, <1>14, Locking
<1> QED
  BY <1>2, <1>15

\* A live result is that of the attempt that holds the turn: the three rows it
\* writes are its own.
LEMMA LiveResult ==
  ASSUME Inv, NEW b \in Backends, tx[b].at = <<"result">>, tx[b].call \in {"complete", "fail"},
         Live(b), Free(b, Run(tx[b].token))
  PROVE  /\ tx[b].token \in Attempts /\ db[Dispatch].fence = tx[b].token
         /\ tx[b].token = issued /\ db[Message].status = "generating"
         /\ \A r \in {Dispatch, Message, Run(tx[b].token)}, c \in Backends \ {b} : r \notin Locked(c)
<1>1. CallType(b) /\ Knows(b) /\ Exclusive /\ RowInv
  BY DEF Inv, CallInv
<1>2. tx[b].token # 0 /\ {Dispatch, Message} \subseteq Locked(b)
  BY <1>1 DEF Knows, KnowsAt
<1>3. db[Dispatch].fence = tx[b].token /\ db[Message].status = "generating"
  BY NonClaim DEF Live, Holds
<1>4. tx[b].token = issued
  BY <1>1, <1>2, <1>3 DEF RowInv, Consistent, Counted
<1>5. tx[b].token \in Attempts
  BY <1>1, <1>2, <1>4, Held DEF RowInv
<1>6. \A r \in {Dispatch, Message, Run(tx[b].token)}, c \in Backends \ {b} : r \notin Locked(c)
  BY <1>1, <1>2 DEF Exclusive, Free
<1> QED
  BY <1>3, <1>4, <1>5, <1>6

\* An answer is committed for the attempt that holds the turn only.
LEMMA CompleteStep ==
  ASSUME Inv, NEW b \in Backends, Complete(b)
  PROVE  /\ Inv'
         /\ \/ Withdrawn(b)
            \/ /\ Untouched(b) /\ tx'[b] = Idle
               /\ issued \in Attempts /\ db[Dispatch].fence = issued
               /\ db[Message].status = "generating" /\ db'[Message].status = "completed"
               /\ db'[Dispatch] = Freed(db[Dispatch])
               /\ db[Run(issued)] = "running" /\ db'[Run(issued)] = "succeeded"
               /\ \A n \in Attempts \ {issued} : db'[Run(n)] = db[Run(n)]
<1> DEFINE n == tx[b].token
           W == [r \in {Dispatch, Message, Run(n)} |->
                   IF r = Message THEN [Sees(b, r) EXCEPT !.status = "completed"]
                   ELSE IF r = Dispatch THEN Released(b) ELSE "succeeded"]
<1>1. UNCHANGED issued
  BY DEF Complete
<1>2. CASE Withdrawn(b)
  BY <1>1, <1>2, Idling DEF Withdrawn
<1>3. CASE Live(b) /\ Sees(b, Run(n)) = "running" /\ Commit(b, W)
  <2>1. tx[b].at = <<"result">> /\ tx[b].call = "complete" /\ Free(b, Run(n))
    BY <1>3 DEF Complete, At
  <2>2. /\ n \in Attempts /\ db[Dispatch].fence = n /\ n = issued /\ db[Message].status = "generating"
        /\ \A r \in {Dispatch, Message, Run(n)}, c \in Backends \ {b} : r \notin Locked(c)
    BY <1>3, <2>1, LiveResult
  <2>3. /\ Consistent(db, issued) /\ issued \in Nat
        /\ db[Dispatch] \in DispatchRows /\ db[Message] \in MessageRows
    BY DEF Inv, RowInv, Consistent, Typed
  <2>4. /\ Sees(b, Dispatch) = db[Dispatch] /\ Sees(b, Message) = db[Message]
        /\ \A m \in Attempts : Sees(b, Run(m)) = db[Run(m)]
    BY <2>1, NonClaim
  <2>5. /\ DOMAIN W = {Dispatch, Message, Run(n)}
        /\ W[Dispatch] = Freed(db[Dispatch]) /\ W[Run(n)] = "succeeded"
        /\ W[Message] = [db[Message] EXCEPT !.status = "completed"]
    BY <2>4, Distinct DEF Released, Freed
  <2> HIDE DEF W
  <2>6. \A r \in Rows : db'[r] = IF r \in DOMAIN W THEN W[r] ELSE Sees(b, r)
    BY <1>3 DEF Commit
  <2>7. /\ db'[Dispatch] = Freed(db[Dispatch]) /\ db'[Run(n)] = "succeeded"
        /\ db'[Message] = [db[Message] EXCEPT !.status = "completed"]
        /\ \A m \in Attempts \ {n} : db'[Run(m)] = db[Run(m)]
    BY <2>2, <2>4, <2>5, <2>6, Distinct
  <2>8. /\ db'[Dispatch] \in DispatchRows /\ db'[Dispatch].fence = 0
        /\ db'[Dispatch].tries = db[Dispatch].tries
    BY <2>3, <2>7, FreedRow
  <2>9. /\ db'[Message] \in MessageRows /\ db'[Message].status = "completed"
        /\ db'[Message].auto = db[Message].auto /\ db'[Message].manual = db[Message].manual
    BY <2>3, <2>7 DEF MessageRows
  <2>10. Consistent(db', issued')
    <3> HIDE DEF n
    <3> QED
      BY <1>1, <2>2, <2>3, <2>7, <2>8, <2>9, Completing
  <2>11. db[Run(n)] = "running"
    BY <1>3, <2>2, <2>4
  <2> QED
    BY <1>1, <1>3, <2>2, <2>3, <2>5, <2>7, <2>9, <2>10, <2>11, Committing, Commits
<1> QED
  BY <1>2, <1>3 DEF Complete, Withdrawn

\* So is a failure, with the next automatic retry.
LEMMA FailStep ==
  ASSUME Inv, NEW b \in Backends, Fail(b)
  PROVE  /\ Inv'
         /\ \/ Withdrawn(b)
            \/ /\ Untouched(b) /\ tx'[b] = Idle
               /\ issued \in Attempts /\ db[Dispatch].fence = issued
               /\ db[Message].status = "generating" /\ db'[Message].status \in {"generating", "failed"}
               /\ db'[Dispatch].tries = 0 /\ db'[Dispatch].fence = 0
               /\ db[Run(issued)] = "running" /\ db'[Run(issued)] = "failed"
               /\ \A n \in Attempts \ {issued} : db'[Run(n)] = db[Run(n)]
<1> DEFINE n == tx[b].token
           m == Sees(b, Message)
           W == [r \in {Dispatch, Message, Run(n)} |->
                   IF r = Message
                   THEN IF OutOfRetries(m) THEN [m EXCEPT !.status = "failed"]
                        ELSE [m EXCEPT !.auto = @ + 1]
                   ELSE IF r = Dispatch THEN [Released(b) EXCEPT !.tries = 0]
                   ELSE "failed"]
<1>1. UNCHANGED issued
  BY DEF Fail
<1>2. CASE Withdrawn(b)
  BY <1>1, <1>2, Idling DEF Withdrawn
<1>3. CASE Live(b) /\ Sees(b, Run(n)) = "running" /\ Commit(b, W)
  <2>1. tx[b].at = <<"result">> /\ tx[b].call = "fail" /\ Free(b, Run(n))
    BY <1>3 DEF Fail, At
  <2>2. /\ n \in Attempts /\ db[Dispatch].fence = n /\ n = issued /\ db[Message].status = "generating"
        /\ \A r \in {Dispatch, Message, Run(n)}, c \in Backends \ {b} : r \notin Locked(c)
    BY <1>3, <2>1, LiveResult
  <2>3. /\ Consistent(db, issued) /\ issued \in Nat
        /\ db[Dispatch] \in DispatchRows /\ db[Message] \in MessageRows
    BY DEF Inv, RowInv, Consistent, Typed
  <2>4. /\ Sees(b, Dispatch) = db[Dispatch] /\ m = db[Message]
        /\ \A k \in Attempts : Sees(b, Run(k)) = db[Run(k)]
    BY <2>1, NonClaim
  <2>5. /\ DOMAIN W = {Dispatch, Message, Run(n)}
        /\ W[Dispatch] = [Freed(db[Dispatch]) EXCEPT !.tries = 0] /\ W[Run(n)] = "failed"
        /\ W[Message] = IF OutOfRetries(m) THEN [m EXCEPT !.status = "failed"]
                        ELSE [m EXCEPT !.auto = @ + 1]
    BY <2>4, Distinct DEF Released, Freed
  <2> HIDE DEF W
  <2>6. \A r \in Rows : db'[r] = IF r \in DOMAIN W THEN W[r] ELSE Sees(b, r)
    BY <1>3 DEF Commit
  <2>7. /\ db'[Dispatch] = [Freed(db[Dispatch]) EXCEPT !.tries = 0] /\ db'[Run(n)] = "failed"
        /\ db'[Message] = (IF OutOfRetries(m) THEN [m EXCEPT !.status = "failed"]
                           ELSE [m EXCEPT !.auto = @ + 1])
        /\ \A k \in Attempts \ {n} : db'[Run(k)] = db[Run(k)]
    BY <2>2, <2>4, <2>5, <2>6, Distinct
  <2>8. db'[Dispatch] \in DispatchRows /\ db'[Dispatch].fence = 0 /\ db'[Dispatch].tries = 0
    <3>1. Freed(db[Dispatch]) \in DispatchRows /\ Freed(db[Dispatch]).fence = 0
      BY <2>3, FreedRow
    <3> QED
      BY <2>7, <3>1 DEF DispatchRows
  <2>9. m \in MessageRows /\ m.auto \in Nat /\ m.status = "generating"
    BY <2>2, <2>3, <2>4, Counts
  <2>10. /\ db'[Message] \in MessageRows /\ db'[Message].manual = m.manual
         /\ \/ db'[Message].status = "failed" /\ db'[Message].auto = m.auto
            \/ /\ db'[Message].status = "generating" /\ db'[Message].auto = m.auto + 1
               /\ m.auto < AutoRetries
    <3>2. CASE OutOfRetries(m)
      BY <2>7, <2>9, <3>2 DEF MessageRows
    <3>3. CASE ~OutOfRetries(m)
      <4>1. m.auto < AutoRetries
        BY <2>9, <3>3, Limits DEF OutOfRetries
      <4>2. db'[Message] = [m EXCEPT !.auto = m.auto + 1] /\ m.auto + 1 \in Nat
        BY <2>7, <2>9, <3>3
      <4> QED
        BY <2>9, <4>1, <4>2 DEF MessageRows
    <3> QED
      BY <3>2, <3>3
  <2>11. Consistent(db', issued')
    <3> HIDE DEF n, m
    <3> QED
      BY <1>1, <2>2, <2>3, <2>4, <2>7, <2>8, <2>10, Failing
  <2>12. db[Run(n)] = "running"
    BY <1>3, <2>2, <2>4
  <2>13. Inv' /\ Untouched(b) /\ tx'[b] = Idle
    BY <1>1, <1>3, <2>2, <2>3, <2>5, <2>11, Committing, Commits
  <2> QED
    BY <2>2, <2>7, <2>8, <2>10, <2>12, <2>13
<1> QED
  BY <1>2, <1>3 DEF Fail, Withdrawn

\* The replay of a question commits nothing new.
LEMMA ReplayStep ==
  ASSUME Inv, NEW b \in Backends, Replay(b)
  PROVE  /\ Inv' /\ Untouched(b) /\ tx'[b] = Idle
         /\ db'[Dispatch] = db[Dispatch] /\ db'[Message] = db[Message]
         /\ \A n \in Attempts : db'[Run(n)] = db[Run(n)]
<1>1. Commit(b, <<>>) /\ tx[b].call # "claim" /\ UNCHANGED issued
  BY DEF Replay
<1>2. Inv' /\ db' = View(b)
  BY <1>1, CommitStep
<1>3. Untouched(b) /\ tx'[b] = Idle
  BY <1>1, Commits
<1> QED
  BY <1>1, <1>2, <1>3, NonClaim, Distinct DEF View

\* The owner asks again once nothing holds the turn.
LEMMA ReaskStep ==
  ASSUME Inv, NEW b \in Backends, Reask(b)
  PROVE  /\ Inv'
         /\ \/ Withdrawn(b)
            \/ /\ Untouched(b) /\ tx'[b] = Idle
               /\ db[Message].status = "failed" /\ db'[Message].status = "generating"
               /\ db'[Dispatch].tries = 0 /\ db'[Dispatch].fence = 0
               /\ RunsStop(Attempts)
               /\ db[Dispatch].fence # 0 => db'[Run(db[Dispatch].fence)] # "running"
<1> DEFINE d == db[Dispatch]
           m == db[Message]
           Touched == {Dispatch, Message} \cup Abandoned(b)
           W == [r \in Touched |->
                   IF r = Message THEN [Sees(b, r) EXCEPT !.status = "generating", !.manual = @ + 1]
                   ELSE IF r = Dispatch THEN [Released(b) EXCEPT !.tries = 0]
                   ELSE Unfinished(b, r)]
<1>1. tx[b].at = <<"result">> /\ tx[b].call = "retry" /\ UNCHANGED issued
  BY DEF Reask, At
<1>2. CASE Withdrawn(b)
  BY <1>1, <1>2, Idling DEF Withdrawn
<1>3. CASE Retryable(b) /\ (\A r \in Abandoned(b) : Free(b, r)) /\ Commit(b, W)
  <2>1. /\ Consistent(db, issued) /\ issued \in Nat /\ d \in DispatchRows /\ m \in MessageRows
        /\ Knows(b) /\ Exclusive /\ d.fence \in {0, issued}
    BY DEF Inv, RowInv, CallInv, Consistent, Typed, Counted
  <2>2. /\ Sees(b, Dispatch) = d /\ Sees(b, Message) = m
        /\ \A k \in Attempts : Sees(b, Run(k)) = db[Run(k)]
    BY <1>1, NonClaim
  <2>3. {Dispatch, Message} \subseteq Locked(b)
    BY <1>1, <1>3, <2>1 DEF Knows, KnowsAt
  <2>4. m.status = "failed" /\ m.manual < ManualRetries /\ m.manual \in Nat
    BY <1>3, <2>1, <2>2, Counts DEF Retryable
  <2>5. /\ DOMAIN W = Touched /\ {Dispatch, Message} \subseteq Touched
        /\ W[Dispatch] = [Freed(d) EXCEPT !.tries = 0]
        /\ W[Message] = [m EXCEPT !.status = "generating", !.manual = m.manual + 1]
    BY <2>2, Distinct DEF Released, Freed
  <2>6. \A k \in Attempts : Run(k) \in Touched => k = d.fence /\ W[Run(k)] = Unfinished(b, Run(k))
    BY <2>2, Distinct DEF Abandoned
  <2>7. d.fence # 0 => Run(d.fence) \in Touched
    BY <2>2 DEF Abandoned
  <2>8. \A r \in Touched, c \in Backends \ {b} : r \notin Locked(c)
    BY <1>3, <2>1, <2>3 DEF Exclusive, Free
  <2>9. \A r \in Rows : db'[r] = IF r \in DOMAIN W THEN W[r] ELSE Sees(b, r)
    BY <1>3 DEF Commit
  <2> HIDE DEF W, Touched
  <2>10. /\ db'[Dispatch] = [Freed(d) EXCEPT !.tries = 0]
         /\ db'[Message] = [m EXCEPT !.status = "generating", !.manual = m.manual + 1]
    BY <2>5, <2>9, Distinct
  <2>11. \A k \in Attempts :
           /\ db'[Run(k)] = db[Run(k)] \/ (db[Run(k)] = "running" /\ db'[Run(k)] = "failed")
           /\ k = d.fence => db'[Run(k)] # "running"
    <3> TAKE k \in Attempts
    <3>1. Run(k) \in Rows /\ k # 0
      BY Distinct, Limits
    <3>2. CASE Run(k) \in Touched
      BY <2>2, <2>5, <2>6, <2>9, <3>1, <3>2 DEF Unfinished
    <3>3. CASE Run(k) \notin Touched
      BY <2>2, <2>5, <2>7, <2>9, <3>1, <3>3
    <3> QED
      BY <3>2, <3>3
  <2>12. db'[Dispatch] \in DispatchRows /\ db'[Dispatch].fence = 0 /\ db'[Dispatch].tries = 0
    <3>1. Freed(d) \in DispatchRows /\ Freed(d).fence = 0
      BY <2>1, FreedRow
    <3> QED
      BY <2>10, <3>1 DEF DispatchRows
  <2>13. /\ db'[Message] \in MessageRows /\ db'[Message].status = "generating"
         /\ db'[Message].auto = m.auto /\ db'[Message].manual = m.manual + 1
    <3> DEFINE k == m.manual + 1
    <3>1. k \in Nat /\ m \in MessageRows
      BY <2>1, <2>4
    <3>2. db'[Message] = [m EXCEPT !.status = "generating", !.manual = k]
      BY <2>10
    <3> HIDE DEF k
    <3>3. /\ db'[Message] \in MessageRows /\ db'[Message].status = "generating"
          /\ db'[Message].auto = m.auto /\ db'[Message].manual = k
      BY <3>1, <3>2 DEF MessageRows
    <3> QED
      BY <3>3 DEF k
  <2>14. Consistent(db', issued')
    <3> HIDE DEF d, m
    <3>1. d = db[Dispatch] /\ m = db[Message]
      BY DEF d, m
    <3> QED
      BY <1>1, <2>1, <2>4, <2>11, <2>12, <2>13, <3>1, Reasking
  <2>15. Inv' /\ Untouched(b) /\ tx'[b] = Idle
    BY <1>1, <1>3, <2>1, <2>5, <2>8, <2>14, Committing, Commits
  <2>16. d.fence # 0 => d.fence \in Attempts
    <3>1. issued # 0 => issued \in Attempts
      BY <2>1, Held
    <3> QED
      BY <2>1, <3>1
  <2> QED
    BY <2>4, <2>11, <2>12, <2>13, <2>15, <2>16 DEF RunsStop
<1> QED
  BY <1>2, <1>3 DEF Reask, Withdrawn

-----------------------------------------------------------------------------
(***************************************************************************)
(* Calls begin, are lost and grow older.                                   *)
(***************************************************************************)

\* A worker presents the token of an attempt that was started.
LEMMA BeginStep == ASSUME Inv, NEW b \in Backends, Begin(b) PROVE Inv' /\ UNCHANGED db
<1>1. issued \in Nat /\ DOMAIN tx = Backends
  BY DEF Inv, RowInv, CallInv, Consistent, Typed
<1>2. ASSUME NEW call, NEW token \in 0..issued, NEW p, Enter(b, call, token, p),
             \/ call = "claim" /\ p[1] = "read"
             \/ call \in {"ask", "retry"} /\ p = <<"lock", Case>>
             \/ call \in {"heartbeat", "complete", "fail"} /\ p = <<"select">> /\ token # 0
      PROVE  Inv' /\ UNCHANGED db
  <2>1. /\ tx' = [tx EXCEPT ![b] = [Idle EXCEPT !.call = call, !.token = token, !.at = p]]
        /\ UNCHANGED <<db, issued>>
    BY <1>2 DEF Enter
  <2>2. /\ DOMAIN tx' = Backends /\ \A c \in Backends \ {b} : tx'[c] = tx[c]
        /\ tx'[b] = [Idle EXCEPT !.call = call, !.token = token, !.at = p]
    BY <1>1, <2>1
  <2>3. /\ DOMAIN tx'[b] = Fields /\ tx'[b].call = call /\ tx'[b].token = token
        /\ tx'[b].at = p /\ tx'[b].age = 0 /\ tx'[b].mine = <<>>
    BY <2>2 DEF Idle, Fields
  <2>4. Locked(b)' = {}
    BY <2>3 DEF Locked
  <2>5. CallType(b)'
    BY <1>1, <1>2, <2>1, <2>3, Terms DEF CallType
  <2>6. Changes(b)'
    BY <2>4 DEF Changes
  <2>7. Knows(b)'
    BY <1>2, <2>3, <2>4, Distinct DEF Knows, KnowsAt
  <2> QED
    BY <2>1, <2>2, <2>4, <2>5, <2>6, <2>7, OwnStep
<1>3. CASE EnterClaim(b)
  <2>1. Read("processing_run", "retention")[1] = "read" /\ 0 \in 0..issued
    BY <1>1 DEF Read
  <2> QED
    BY <1>2, <1>3, <2>1 DEF EnterClaim
<1>4. ASSUME NEW call \in {"ask", "retry"}, Enter(b, call, 0, <<"lock", Case>>)
      PROVE  Inv' /\ UNCHANGED db
  BY <1>1, <1>2, <1>4
<1>5. ASSUME NEW n \in 1..issued, NEW call \in {"heartbeat", "complete", "fail"},
             Enter(b, call, n, <<"select">>)
      PROVE  Inv' /\ UNCHANGED db
  BY <1>1, <1>2, <1>5
<1> QED
  BY <1>3, <1>4, <1>5 DEF Begin

\* A deadline comes nearer.
LEMMA OlderRow ==
  ASSUME NEW d \in DispatchRows
  PROVE  /\ Older(d) \in DispatchRows /\ Older(d).fence = d.fence /\ Older(d).tries = d.tries
         /\ Older(d).lease = Sooner(d.lease)
         /\ Older(Freed(d)) = Freed(Older(d))
<1>1. d.lease \in Int /\ Sooner(d.lease) \in Int /\ -CallTerm \in Int /\ Sooner(-CallTerm) = -CallTerm
  BY Terms DEF DispatchRows, Sooner
<1>2. Older(d) = [d EXCEPT !.lease = Sooner(d.lease)]
  BY DEF Older
<1>3. /\ Older(d) \in DispatchRows /\ Older(d).fence = d.fence /\ Older(d).tries = d.tries
      /\ Older(d).lease = Sooner(d.lease)
  BY <1>1, <1>2 DEF DispatchRows
<1>4. Older(Freed(d)) = Freed(Older(d))
  <2>1. Older(Freed(d)) = [Freed(d) EXCEPT !.lease = Sooner(Freed(d).lease)]
    BY DEF Older
  <2>2. Older(Freed(d)) = Freed(d)
    BY <1>1, <2>1, FreedRow DEF DispatchRows
  <2>3. Freed(Older(d)) = Freed(d)
    BY <1>2 DEF Freed, DispatchRows
  <2> QED
    BY <2>2, <2>3
<1> QED
  BY <1>3, <1>4

\* A tick changes the lease of a turn only.
LEMMA TickRows ==
  ASSUME RowInv, Tick
  PROVE  /\ DOMAIN db' = Rows /\ db'[Dispatch] = Older(db[Dispatch]) /\ db[Dispatch] \in DispatchRows
         /\ db'[Message] = db[Message] /\ \A n \in Attempts : db'[Run(n)] = db[Run(n)]
BY Distinct DEF Tick, RowInv, Consistent, Typed

\* A call that is not idle grows older, and so does the lease it may hold.
LEMMA TickCall ==
  ASSUME Inv, Tick, NEW b \in Backends, tx[b] # Idle
  PROVE  /\ DOMAIN tx'[b] = Fields /\ tx'[b].call = tx[b].call /\ tx'[b].token = tx[b].token
         /\ tx'[b].at = tx[b].at /\ tx'[b].age = tx[b].age + 1 /\ tx[b].age < CallTerm
         /\ Locked(b)' = Locked(b) /\ \A r \in Locked(b) \ {Dispatch} : Mine(b, r)' = Mine(b, r)
         /\ Dispatch \in Locked(b) => Mine(b, Dispatch)' = Older(Mine(b, Dispatch))
<1> DEFINE M == [r \in DOMAIN tx[b].mine |->
                   IF r = Dispatch THEN Older(tx[b].mine[r]) ELSE tx[b].mine[r]]
<1>1. tx'[b] = [tx[b] EXCEPT !.age = tx[b].age + 1, !.mine = M] /\ tx[b].age < CallTerm
  BY DEF Tick
<1>2. DOMAIN M = Locked(b) /\ (\A r \in Locked(b) \ {Dispatch} : M[r] = Mine(b, r))
      /\ (Dispatch \in Locked(b) => M[Dispatch] = Older(Mine(b, Dispatch)))
  BY DEF Locked, Mine
<1> HIDE DEF M
<1>3. CallType(b)
  BY DEF Inv, CallInv
<1>4. /\ DOMAIN tx'[b] = Fields /\ tx'[b].call = tx[b].call /\ tx'[b].token = tx[b].token
      /\ tx'[b].at = tx[b].at /\ tx'[b].age = tx[b].age + 1 /\ tx'[b].mine = M
  BY <1>1, <1>3 DEF CallType, Fields
<1>5. Locked(b)' = Locked(b) /\ \A r \in Locked(b) : Mine(b, r)' = M[r]
  BY <1>2, <1>4 DEF Locked, Mine
<1> QED
  BY <1>1, <1>2, <1>4, <1>5

\* A tick changes leases and ages.
LEMMA TickStep == ASSUME Inv, Tick PROVE Inv'
<1>1. /\ DOMAIN tx = Backends /\ Exclusive /\ RowInv
      /\ \A b \in Backends : CallType(b) /\ Changes(b) /\ Knows(b)
  BY DEF Inv, CallInv
<1>2. UNCHANGED issued /\ DOMAIN tx' = Backends
  BY DEF Tick
<1>3. /\ DOMAIN db' = Rows /\ db'[Dispatch] = Older(db[Dispatch]) /\ db[Dispatch] \in DispatchRows
      /\ db'[Message] = db[Message] /\ \A n \in Attempts : db'[Run(n)] = db[Run(n)]
  BY <1>1, TickRows
<1>4. RowInv'
  <2>1. Consistent(db', issued)
    BY <1>1, <1>3, OlderRow, Leasing DEF RowInv
  <2> QED
    BY <1>2, <1>3, <2>1 DEF RowInv
<1>5. ASSUME NEW b \in Backends
      PROVE  CallType(b)' /\ Changes(b)' /\ Knows(b)' /\ Locked(b)' = Locked(b)
  <2>1. CASE tx[b] = Idle
    <3>1. tx'[b] = Idle /\ issued' \in Nat
      BY <1>4, <2>1 DEF Tick, RowInv, Consistent, Typed
    <3>2. Locked(b)' = {} /\ Locked(b) = {}
      BY <2>1, <3>1 DEF Locked, Idle
    <3> QED
      BY <3>1, <3>2, Terms DEF Idle, CallType, Fields, Changes, Knows, KnowsAt
  <2>2. CASE tx[b] # Idle
    <3>1. /\ DOMAIN tx'[b] = Fields /\ tx'[b].call = tx[b].call /\ tx'[b].token = tx[b].token
          /\ tx'[b].at = tx[b].at /\ tx'[b].age = tx[b].age + 1 /\ tx[b].age < CallTerm
          /\ Locked(b)' = Locked(b) /\ \A r \in Locked(b) \ {Dispatch} : Mine(b, r)' = Mine(b, r)
          /\ Dispatch \in Locked(b) => Mine(b, Dispatch)' = Older(Mine(b, Dispatch))
      BY <2>2, TickCall
    <3>2. CallType(b)'
      BY <1>1, <1>2, <3>1, Terms DEF CallType
    <3>3. Dispatch \in Locked(b) =>
            /\ Mine(b, Dispatch) \in {db[Dispatch], Freed(db[Dispatch])}
            /\ Mine(b, Dispatch)' \in {db'[Dispatch], Freed(db'[Dispatch])}
            /\ Mine(b, Dispatch) = db[Dispatch] => Mine(b, Dispatch)' = db'[Dispatch]
            /\ Mine(b, Dispatch)'.tries = Mine(b, Dispatch).tries
      <4>1. Dispatch \in Locked(b) => Mine(b, Dispatch) \in {db[Dispatch], Freed(db[Dispatch])}
        BY <1>1 DEF Changes
      <4>2. /\ Older(db[Dispatch]).tries = db[Dispatch].tries
            /\ Older(Freed(db[Dispatch])) = Freed(db'[Dispatch])
            /\ Older(Freed(db[Dispatch])).tries = Freed(db[Dispatch]).tries
        BY <1>3, OlderRow, FreedRow
      <4> QED
        BY <1>3, <3>1, <4>1, <4>2
    <3>4. Changes(b)'
      BY <1>1, <1>3, <3>1, <3>3, Distinct DEF Changes
    <3>5. Message \in Locked(b) => Mine(b, Message)' = Mine(b, Message)
      BY <3>1, Distinct
    <3>6. Knows(b)'
      <4>1. Message \in Locked(b) => Retryable(b)' = Retryable(b)
        BY <3>1, <3>5 DEF Retryable, Sees, Mine
      <4> QED
        BY <1>1, <3>1, <3>3, <3>5, <4>1 DEF Knows, KnowsAt
    <3> QED
      BY <3>1, <3>2, <3>4, <3>6
  <2> QED
    BY <2>1, <2>2
<1>6. Exclusive'
  BY <1>1, <1>5 DEF Exclusive
<1> QED
  BY <1>2, <1>4, <1>5, <1>6 DEF Inv, CallInv

-----------------------------------------------------------------------------
(***************************************************************************)
(* The invariant, and the first theorem.                                   *)
(***************************************************************************)

\* A turn begins with its question asked and no attempt.
LEMMA Initially == Init => Inv
<1> SUFFICES ASSUME Init PROVE Inv
  OBVIOUS
<1>1. /\ db[Dispatch] = [fence |-> 0, tries |-> 0, lease |-> -CallTerm]
      /\ db[Message] = [status |-> "generating", auto |-> 0, manual |-> 0]
      /\ \A n \in Attempts : db[Run(n)] = "none"
      /\ DOMAIN db = Rows
  BY Distinct DEF Init
<1>2. issued = 0
  BY DEF Init
<1>3. Consistent(db, issued)
  <2>1. -CallTerm \in Int
    BY Terms
  <2>2. Typed(db, issued)
    BY <1>1, <1>2, <2>1 DEF Typed, DispatchRows, MessageRows, RunStates
  <2> QED
    BY <1>1, <1>2, <2>2, Limits DEF Consistent, Counted, Answered, Retries
<1>4. \A b \in Backends : tx[b] = Idle
  BY DEF Init
<1>5. DOMAIN tx = Backends
  BY DEF Init
<1>6. \A b \in Backends : CallType(b) /\ Changes(b) /\ Knows(b) /\ Locked(b) = {}
  BY <1>2, <1>4, IdleCall
<1> QED
  BY <1>1, <1>3, <1>5, <1>6 DEF Inv, RowInv, CallInv, Exclusive

\* A call that is lost, or chosen as a victim, changes nothing.
LEMMA LostStep ==
  ASSUME Inv, NEW b \in Backends, Victim(b) \/ Lose(b)
  PROVE  Inv' /\ tx' = [tx EXCEPT ![b] = Idle] /\ UNCHANGED <<db, kept, issued>>
BY Idling DEF Victim, Lose, Rollback

\* Every statement of every call keeps the rows consistent.
LEMMA InvariantStep == Inv /\ [Next]_vars => Inv'
<1> SUFFICES ASSUME Inv, [Next]_vars PROVE Inv'
  OBVIOUS
<1>1. CASE Tick
  BY <1>1, TickStep
<1>2. ASSUME NEW b \in Backends, Begin(b) PROVE Inv'
  BY <1>2, BeginStep
<1>3. ASSUME NEW b \in Backends, Step(b) PROVE Inv'
  <2>1. CASE ReadStatement(b) \/ WriteStatement(b)
    BY <2>1, ReadStep, WriteStep
  <2>2. CASE Take(b) \/ Start(b)
    BY <2>2, TakeStep, StartStep
  <2>3. CASE Select(b) \/ Beat(b) \/ Lock(b)
    BY <2>3, SelectStep, BeatStep, LockStep
  <2>4. CASE Complete(b) \/ Fail(b)
    BY <2>4, CompleteStep, FailStep
  <2>5. CASE Replay(b) \/ Reask(b)
    BY <2>5, ReplayStep, ReaskStep
  <2> QED
    BY <1>3, <2>1, <2>2, <2>3, <2>4, <2>5 DEF Step
<1>4. ASSUME NEW b \in Backends, Victim(b) \/ Lose(b) PROVE Inv'
  BY <1>4, LostStep
<1>5. CASE UNCHANGED vars
  BY <1>5 DEF vars, Inv, RowInv, CallInv, CallType, Changes, Knows, KnowsAt, Exclusive,
              Locked, Mine, Retryable, Sees
<1> QED
  BY <1>1, <1>2, <1>3, <1>4, <1>5 DEF Next

\* However the statements of claims, heartbeats, results, repeated questions and
\* retries mix, whichever calls are lost or chosen as victims, an attempt is
\* recorded as succeeded exactly if the question is answered and it was the last.
THEOREM AnswersCorrect == Spec => []AnsweredByLastAttempt
<1>1. Inv => AnsweredByLastAttempt
  BY DEF Inv, RowInv, Consistent, Answered, AnsweredByLastAttempt
<1> QED
  BY Initially, InvariantStep, <1>1, PTL DEF Spec

-----------------------------------------------------------------------------
(***************************************************************************)
(* The inductive invariant with clocks, while the case is kept.            *)
(***************************************************************************)

\* The attempt that holds the turn, as far as b can tell, no longer runs.
Silent(b) == Sees(b, Dispatch).fence # 0 => Sees(b, Run(Sees(b, Dispatch).fence)) # "running"

\* The lease was granted after b had begun.
Fresh(b) == Sees(b, Dispatch).lease + tx[b].age >= LeaseTerm - CallTerm

\* Claim b may fail the message: the last attempt was failed before, or the turn
\* was asked for again meanwhile and its first attempt has just begun.
Condemned(b) ==
  /\ Sees(b, Dispatch).tries >= MaxAttempts => Silent(b)
  /\ db[Message].status = "generating" /\ Sees(b, Dispatch).tries = 1 =>
       Sees(b, Dispatch).fence # 0 /\ Fresh(b)

\* What a claim that has freed the turn or failed the message may rely on.
Careful(b) ==
  /\ Sees(b, Dispatch).fence # db[Dispatch].fence =>
       /\ Sees(b, Dispatch).tries >= MaxAttempts
       /\ Sees(b, Run(db[Dispatch].fence)) # "running"
  /\ Sees(b, Message).status # db[Message].status => Condemned(b)

\* What it has found out when it comes to p.
Between == {Read("message", "lease"), Read("dispatch", "lease"), <<"write", Dispatch, "lease">>}

CarefulAt(b, p) ==
  /\ p = <<"write", Message, "lease">> => Condemned(b)
  /\ p \in Between /\ Spent(b) => Silent(b)
  /\ \A n \in Attempts : p = <<"write", Run(n), "lease">> /\ Spent(b) => Sees(b, Dispatch).fence = n
  /\ p = <<"start">> => Sees(b, Dispatch).fence = 0 \/ Lapsed(b)
  /\ \A r \in Rows : p # <<"write", r, "retention">>

NoStrays == \A n \in Attempts : db[Run(n)] = "running" => db[Dispatch].fence = n

FailedSilent ==
  db[Message].status = "failed" /\ db[Dispatch].tries >= MaxAttempts /\ db[Dispatch].fence # 0 =>
    db[Run(db[Dispatch].fence)] # "running"

Orderly ==
  /\ NoStrays /\ FailedSilent
  /\ \A b \in Backends : Careful(b) /\ CarefulAt(b, tx[b].at)

TimedInv == Inv /\ kept \in Int /\ (Expired \/ Orderly)

-----------------------------------------------------------------------------
(***************************************************************************)
(* What the commits of other calls do to the turn while a call goes on.    *)
(***************************************************************************)

\* The dispatch row d becomes e while the message becomes m: freed for good,
\* reset for a retry, renewed, or taken by the next attempt.
Dropped(d, e, m) == /\ e.fence = 0 /\ e.tries = d.tries
                    /\ d.fence = 0 \/ d.tries >= MaxAttempts \/ m.status # "generating"
Cleaned(e)       == e.fence = 0 /\ e.tries = 0
Recent(e)        == e.lease >= LeaseTerm - CallTerm
Renewed(d, e)    == e.fence = d.fence /\ e.tries = d.tries /\ Recent(e)
Taken(d, e, m)   == /\ d.tries < MaxAttempts /\ e.tries = d.tries + 1 /\ e.fence # 0 /\ Recent(e)
                    /\ d.fence = 0 \/ d.lease <= 0
                    /\ m.status = "generating"

Becomes(d, e, m) ==
  e = d \/ Dropped(d, e, m) \/ Cleaned(e) \/ Renewed(d, e) \/ Taken(d, e, m)

\* A commit, as far as calls that go on can tell.
Moved ==
  /\ Becomes(db[Dispatch], db'[Dispatch], db'[Message])
  /\ db'[Message].status = "generating" =>
       db[Message].status = "generating" \/ Cleaned(db'[Dispatch])
  /\ \A n \in Attempts : db'[Run(n)] = "running" => db[Run(n)] = "running" \/ n = issued + 1

\* A lease granted meanwhile has not lapsed for any call.
LEMMA StillSpent ==
  ASSUME NEW d \in DispatchRows, NEW e \in DispatchRows, NEW m, NEW age \in 0..CallTerm,
         Becomes(d, e, m), e.tries >= MaxAttempts, e.fence # 0, e.lease + age <= 0
  PROVE  e = d
<1>1. ~Recent(e)
  BY Terms, CallAssumption DEF Recent, DispatchRows
<1> QED
  BY <1>1, Limits DEF Becomes, Dropped, Cleaned, Renewed, Taken

\* Nor can a first attempt with such a lease be followed by a second one.
LEMMA StillFresh ==
  ASSUME NEW d \in DispatchRows, NEW e \in DispatchRows, NEW m, NEW age \in 0..CallTerm,
         Becomes(d, e, m),
         m.status = "generating" /\ d.tries = 1 => d.fence # 0 /\ d.lease + age >= LeaseTerm - CallTerm
  PROVE  /\ m.status = "generating" /\ e.tries = 1 => e.fence # 0 /\ e.lease + age >= LeaseTerm - CallTerm
         /\ e.tries >= MaxAttempts => d.tries >= MaxAttempts /\ e.fence \in {0, d.fence}
<1>1. /\ d.tries \in Nat /\ e.tries \in Nat /\ d.lease \in Int /\ e.lease \in Int /\ age \in Nat /\ age <= CallTerm
      /\ MaxAttempts = 2
  BY Terms, Limits DEF DispatchRows
<1>2. CASE e = d
  BY <1>2
<1>3. CASE Dropped(d, e, m)
  BY <1>1, <1>3 DEF Dropped
<1>4. CASE Cleaned(e)
  BY <1>1, <1>4 DEF Cleaned
<1>5. CASE Renewed(d, e)
  BY <1>1, <1>5, Terms DEF Renewed, Recent
<1>6. CASE Taken(d, e, m)
  <2>1. d.tries # 1
    BY <1>1, <1>6, Terms, CallAssumption DEF Taken
  <2> QED
    BY <1>1, <1>6, <2>1, Terms DEF Taken, Recent
<1> QED
  BY <1>2, <1>3, <1>4, <1>5, <1>6 DEF Becomes

\* The rows a call sees and the clock it reads are in their ranges.
SeenType(b) ==
  /\ Sees(b, Dispatch) \in DispatchRows /\ Sees(b, Dispatch).fence \in {0, db[Dispatch].fence}
  /\ Sees(b, Dispatch).tries = db[Dispatch].tries
  /\ db[Dispatch] \in DispatchRows /\ db[Dispatch].fence \in {0, issued}
  /\ db[Message] \in MessageRows
  /\ tx[b].age \in 0..CallTerm /\ issued \in Nat /\ (issued # 0 => issued \in Attempts)

SeenTypes == \A b \in Backends : SeenType(b)

\* So they are in every state of the invariant.
LEMMA Seen == Inv => SeenTypes
<1> SUFFICES ASSUME Inv, NEW b \in Backends PROVE SeenType(b)
  BY DEF SeenTypes
<1>1. RowInv /\ Changes(b) /\ CallType(b) /\ Consistent(db, issued)
  BY DEF Inv, CallInv, RowInv
<1>2. Sees(b, Dispatch) \in {db[Dispatch], Freed(db[Dispatch])} /\ db[Dispatch] \in DispatchRows
      /\ db[Message] \in MessageRows
  BY <1>1, SeenConsistent DEF Consistent, Typed
<1>3. db[Dispatch].fence \in {0, issued}
  BY <1>1 DEF Consistent, Counted
<1> QED
  BY <1>1, <1>2, <1>3, FreedRow, Held DEF CallType, SeenType

\* And in the next one.
LEMMA SeenNext == Inv' => SeenTypes'
BY Seen, PTL

\* What a call sees moves as the rows do that it has not locked.
LEMMA SeenMoves ==
  ASSUME Inv, Inv', NEW c \in Backends, tx'[c] = tx[c], \A r \in Locked(c) : db'[r] = db[r], Moved
  PROVE  /\ Becomes(Sees(c, Dispatch), Sees(c, Dispatch)', db'[Message])
         /\ db'[Message].status = "generating" =>
              db[Message].status = "generating" \/ Sees(c, Dispatch)'.tries = 0
         /\ \A n \in Attempts \ {issued + 1} :
              Sees(c, Run(n))' = "running" => Sees(c, Run(n)) = "running"
         /\ Sees(c, Dispatch).fence # db[Dispatch].fence \/ Sees(c, Dispatch)'.fence # db'[Dispatch].fence =>
              Sees(c, Dispatch)' = Sees(c, Dispatch) /\ db'[Dispatch] = db[Dispatch]
         /\ Sees(c, Message).status # db[Message].status \/ Sees(c, Message)'.status # db'[Message].status =>
              Sees(c, Message)' = Sees(c, Message) /\ db'[Message] = db[Message]
<1>1. Locked(c)' = Locked(c) /\ \A r \in Locked(c) : Sees(c, r)' = Sees(c, r)
  BY DEF Locked, Sees
<1>2. \A r : r \notin Locked(c) => Sees(c, r) = db[r] /\ Sees(c, r)' = db'[r]
  BY <1>1 DEF Sees
<1>3. Becomes(Sees(c, Dispatch), Sees(c, Dispatch)', db'[Message])
  BY <1>1, <1>2 DEF Moved, Becomes
<1>4. Sees(c, Dispatch)'.tries = db'[Dispatch].tries
  BY SeenNext DEF SeenTypes, SeenType
<1> QED
  BY <1>1, <1>2, <1>3, <1>4 DEF Moved, Cleaned

\* A call that goes on stays careful.
LEMMA StaysCareful ==
  ASSUME Inv, Inv', NEW c \in Backends, tx'[c] = tx[c], \A r \in Locked(c) : db'[r] = db[r], Moved,
         Careful(c), CarefulAt(c, tx[c].at)
  PROVE  Careful(c)' /\ CarefulAt(c, tx[c].at)'
<1> DEFINE d == Sees(c, Dispatch)
           e == Sees(c, Dispatch)'
           age == tx[c].age
<1>1. /\ d \in DispatchRows /\ d.fence \in {0, db[Dispatch].fence} /\ db[Dispatch].fence \in {0, issued}
      /\ age \in 0..CallTerm /\ issued \in Nat /\ (issued # 0 => issued \in Attempts \ {issued + 1})
  BY Seen DEF SeenTypes, SeenType
<1>2. e \in DispatchRows
  BY SeenNext DEF SeenTypes, SeenType
<1>3. /\ Becomes(d, e, db'[Message])
      /\ db'[Message].status = "generating" => db[Message].status = "generating" \/ e.tries = 0
      /\ \A n \in Attempts \ {issued + 1} :
           Sees(c, Run(n))' = "running" => Sees(c, Run(n)) = "running"
      /\ d.fence # db[Dispatch].fence \/ e.fence # db'[Dispatch].fence =>
           e = d /\ db'[Dispatch] = db[Dispatch]
      /\ Sees(c, Message).status # db[Message].status \/ Sees(c, Message)'.status # db'[Message].status =>
           Sees(c, Message)' = Sees(c, Message) /\ db'[Message] = db[Message]
  BY SeenMoves
<1>4. e.fence = d.fence /\ Silent(c) => Silent(c)'
  BY <1>1, <1>3 DEF Silent
<1>5. Spent(c)' => e = d /\ Spent(c)
  <2> SUFFICES ASSUME Spent(c)' PROVE e = d /\ Spent(c)
    OBVIOUS
  <2>1. e.tries >= MaxAttempts /\ e.fence # 0 /\ e.lease + age <= 0
    BY <1>1, <1>2 DEF Spent, Lapsed, Before, DispatchRows
  <2>2. e = d
    <3> HIDE DEF d, e, age
    <3> QED
      BY <1>1, <1>2, <1>3, <2>1, StillSpent
  <2>3. d.tries >= MaxAttempts /\ d.fence # 0 /\ d.lease + age <= 0
    BY <2>1, <2>2
  <2> QED
    BY <1>1, <2>2, <2>3 DEF Spent, Lapsed, Before, DispatchRows
<1>6. Condemned(c) => Condemned(c)'
  <2> SUFFICES ASSUME Condemned(c) PROVE Condemned(c)'
    OBVIOUS
  <2> DEFINE m == db'[Message]
  <2>1. d.tries >= MaxAttempts => Silent(c)
    BY DEF Condemned
  <2>2. db[Message].status = "generating" /\ d.tries = 1 => d.fence # 0 /\ d.lease + age >= LeaseTerm - CallTerm
    BY DEF Condemned, Fresh
  <2>3. CASE m.status = "generating" => db[Message].status = "generating"
    <3>1. /\ m.status = "generating" /\ e.tries = 1 => e.fence # 0 /\ e.lease + age >= LeaseTerm - CallTerm
          /\ e.tries >= MaxAttempts => d.tries >= MaxAttempts /\ e.fence \in {0, d.fence}
      <4>1. m.status = "generating" /\ d.tries = 1 => d.fence # 0 /\ d.lease + age >= LeaseTerm - CallTerm
        BY <2>2, <2>3
      <4>2. Becomes(d, e, m)
        BY <1>3
      <4> HIDE DEF d, e, age, m
      <4> QED
        BY <1>1, <1>2, <4>1, <4>2, StillFresh
    <3>2. e.tries >= MaxAttempts => Silent(c)'
      BY <1>4, <2>1, <3>1 DEF Silent
    <3> QED
      BY <3>1, <3>2 DEF Condemned, Fresh
  <2>4. CASE m.status = "generating" /\ db[Message].status # "generating"
    BY <1>3, <2>4, Limits DEF Condemned
  <2> QED
    BY <2>3, <2>4
<1>7. Careful(c)'
  <2>1. ASSUME e.fence # db'[Dispatch].fence
        PROVE  e.tries >= MaxAttempts /\ Sees(c, Run(db[Dispatch].fence))' # "running"
    <3>1. e = d /\ db'[Dispatch] = db[Dispatch]
      BY <1>3, <2>1
    <3>2. d.tries >= MaxAttempts /\ Sees(c, Run(db[Dispatch].fence)) # "running"
      BY <2>1, <3>1 DEF Careful
    <3>3. db[Dispatch].fence \in Attempts \ {issued + 1}
      BY <1>1, <2>1, <3>1
    <3> QED
      BY <1>3, <3>1, <3>2, <3>3
  <2>2. Sees(c, Message)'.status # db'[Message].status => Condemned(c)'
    BY <1>3, <1>6 DEF Careful
  <2> QED
    BY <2>1, <2>2 DEF Careful
<1>8. CarefulAt(c, tx[c].at)'
  <2> DEFINE p == tx[c].at
  <2>1. p = <<"write", Message, "lease">> => Condemned(c)'
    BY <1>6 DEF CarefulAt
  <2>2. p \in Between /\ Spent(c)' => Silent(c)'
    BY <1>4, <1>5 DEF CarefulAt
  <2>3. \A n \in Attempts : p = <<"write", Run(n), "lease">> /\ Spent(c)' => e.fence = n
    BY <1>5 DEF CarefulAt
  <2>4. p = <<"start">> => e.fence = 0 \/ Lapsed(c)'
    <3> SUFFICES ASSUME p = <<"start">> PROVE e.fence = 0 \/ Lapsed(c)'
      OBVIOUS
    <3>1. Dispatch \in Locked(c)
      BY DEF Inv, CallInv, Knows, KnowsAt
    <3>2. e = d
      BY <3>1 DEF Locked, Sees
    <3>3. d.fence = 0 \/ Lapsed(c)
      BY DEF CarefulAt
    <3> QED
      BY <3>2, <3>3 DEF Lapsed, Before
  <2>5. \A r \in Rows : p # <<"write", r, "retention">>
    BY DEF CarefulAt
  <2> QED
    BY <2>1, <2>2, <2>3, <2>4, <2>5 DEF CarefulAt
<1> QED
  BY <1>7, <1>8

-----------------------------------------------------------------------------
(***************************************************************************)
(* Steps of a call before its commit.                                      *)
(***************************************************************************)

\* A call with nothing locked has nothing to be careful about.
LEMMA IdleCareful ==
  ASSUME NEW b, NEW p, Locked(b) = {}, p[1] \notin {"read", "write", "start"}
  PROVE  Careful(b) /\ CarefulAt(b, p)
BY DEF Careful, CarefulAt, Sees, Between, Read

\* Nor has it when it comes to that.
LEMMA IdleCarefulNext ==
  ASSUME NEW b, tx'[b] = Idle
  PROVE  Careful(b)' /\ CarefulAt(b, tx[b].at)'
<1>1. Locked(b)' = {} /\ tx'[b].at = <<"idle">>
  BY DEF Locked, Idle
<1> QED
  BY <1>1 DEF Careful, CarefulAt, Sees, Between, Read

\* The other calls are not disturbed by a call that commits nothing.
LEMMA OnItsWay ==
  ASSUME Inv, Inv', Orderly, NEW b \in Backends, UNCHANGED <<db, issued>>,
         \A c \in Backends \ {b} : tx'[c] = tx[c],
         Careful(b)', CarefulAt(b, tx[b].at)'
  PROVE  Orderly'
<1>1. Moved
  BY DEF Moved, Becomes
<1>2. \A c \in Backends \ {b} : Careful(c)' /\ CarefulAt(c, tx[c].at)'
  BY <1>1, StaysCareful DEF Orderly
<1>3. NoStrays' /\ FailedSilent'
  BY DEF Orderly, NoStrays, FailedSilent
<1> QED
  BY <1>2, <1>3 DEF Orderly

\* Nor by one that commits a move of the turn.
LEMMA OnCommit ==
  ASSUME Inv, Inv', Orderly, NEW b \in Backends, Untouched(b), tx'[b] = Idle, Moved,
         NoStrays', FailedSilent'
  PROVE  Orderly'
<1>1. \A c \in Backends \ {b} : Careful(c)' /\ CarefulAt(c, tx[c].at)'
  BY StaysCareful DEF Orderly, Untouched
<1>2. Careful(b)' /\ CarefulAt(b, tx[b].at)'
  BY IdleCarefulNext
<1> QED
  BY <1>1, <1>2 DEF Orderly

\* A call that ends without a commit disturbs nobody.
LEMMA OnEnd ==
  ASSUME Inv, Inv', Orderly, NEW b \in Backends, tx' = [tx EXCEPT ![b] = Idle], UNCHANGED <<db, issued>>
  PROVE  Orderly'
<1>1. tx'[b] = Idle /\ \A c \in Backends \ {b} : tx'[c] = tx[c]
  BY DEF Inv, CallInv
<1>2. Careful(b)' /\ CarefulAt(b, tx[b].at)'
  BY <1>1, IdleCarefulNext
<1> QED
  BY <1>1, <1>2, OnItsWay

\* A call that sees the same rows as before knows the same of them.
LEMMA SameView ==
  ASSUME NEW b, UNCHANGED db, tx'[b].age = tx[b].age, \A r : Sees(b, r)' = Sees(b, r)
  PROVE  /\ Silent(b)' <=> Silent(b)
         /\ Condemned(b)' <=> Condemned(b)
         /\ Spent(b)' <=> Spent(b)
         /\ Lapsed(b)' <=> Lapsed(b)
         /\ Careful(b)' <=> Careful(b)
<1>1. Silent(b)' <=> Silent(b)
  BY DEF Silent
<1>2. (Condemned(b)' <=> Condemned(b)) /\ (Lapsed(b)' <=> Lapsed(b))
  BY <1>1 DEF Condemned, Fresh, Lapsed, Before
<1>3. (Spent(b)' <=> Spent(b)) /\ (Careful(b)' <=> Careful(b))
  BY <1>2 DEF Spent, Careful
<1> QED
  BY <1>1, <1>2, <1>3

\* It may go on to p if it knows enough for that.
LEMMA SameViewAt ==
  ASSUME NEW b, NEW p, CarefulAt(b, p), UNCHANGED db, tx'[b].age = tx[b].age, \A r : Sees(b, r)' = Sees(b, r)
  PROVE  CarefulAt(b, p)'
BY SameView DEF CarefulAt

\* The call goes on, with what it sees.
LEMMA GoesOn ==
  ASSUME Inv, Inv', Orderly, NEW b \in Backends, NEW p, Goto(b, p), UNCHANGED <<db, issued>>,
         CarefulAt(b, p)
  PROVE  Orderly'
<1>1. /\ DOMAIN tx' = Backends /\ \A c \in Backends \ {b} : tx'[c] = tx[c]
      /\ tx'[b].at = p /\ tx'[b].age = tx[b].age /\ tx'[b].mine = tx[b].mine
  BY Goes DEF Inv, CallInv
<1>2. \A r : Sees(b, r)' = Sees(b, r)
  BY <1>1 DEF Sees, Locked
<1>3. Careful(b)'
  BY <1>1, <1>2, SameView DEF Orderly
<1>4. CarefulAt(b, tx[b].at)'
  <2>1. CarefulAt(b, p)'
    BY <1>1, <1>2, SameViewAt
  <2> QED
    BY <1>1, <2>1 DEF CarefulAt
<1> QED
  BY <1>1, <1>3, <1>4, OnItsWay

\* It goes on with rows locked as it has seen them.
LEMMA GoesOnLocked ==
  ASSUME Inv, Inv', Orderly, NEW b \in Backends, NEW p, NEW V, UNCHANGED <<db, issued>>,
         tx' = [tx EXCEPT ![b].at = p, ![b].mine = V],
         Locked(b) \subseteq DOMAIN V, \A r \in DOMAIN V : V[r] = Sees(b, r),
         CarefulAt(b, p)
  PROVE  Orderly'
<1>1. CallType(b) /\ DOMAIN tx = Backends
  BY DEF Inv, CallInv
<1>2. /\ \A c \in Backends \ {b} : tx'[c] = tx[c]
      /\ tx'[b] = [tx[b] EXCEPT !.at = p, !.mine = V]
  BY <1>1
<1>3. tx'[b].at = p /\ tx'[b].age = tx[b].age /\ tx'[b].mine = V
  BY <1>1, <1>2 DEF CallType, Fields
<1>4. \A r : Sees(b, r)' = Sees(b, r)
  BY <1>3 DEF Sees, Locked
<1>5. Careful(b)'
  BY <1>3, <1>4, SameView DEF Orderly
<1>6. CarefulAt(b, tx[b].at)'
  <2>1. CarefulAt(b, p)'
    BY <1>3, <1>4, SameViewAt
  <2> QED
    BY <1>3, <2>1 DEF CarefulAt
<1> QED
  BY <1>2, <1>5, <1>6, OnItsWay

\* As long as the case is kept, it is for every call.
LEMMA StillKept ==
  ASSUME Inv, NEW b \in Backends, kept \in Int, ~Expired
  PROVE  Kept(b)
<1>1. tx[b].age \in 0..CallTerm
  BY DEF Inv, CallInv, CallType
<1> QED
  BY <1>1, Terms DEF Kept, Before, Expired

\* Where nothing is to be known, nothing need be.
LEMMA NothingToKnow ==
  ASSUME NEW b, NEW p, p[1] \notin {"write", "start"}, p \notin Between
  PROVE  CarefulAt(b, p)
BY DEF CarefulAt

\* A claim has lapsed turns settled: before the message is failed its last
\* attempt is, unless it has ended by itself.
LEMMA SpentSilent ==
  ASSUME Inv, Orderly, NEW b \in Backends, Spent(b), Sees(b, Message).status # "generating"
  PROVE  Silent(b)
<1> DEFINE d == Sees(b, Dispatch)
           n == d.fence
<1>1. /\ d \in DispatchRows /\ d.fence \in {0, db[Dispatch].fence} /\ db[Dispatch].fence \in {0, issued}
      /\ d.tries = db[Dispatch].tries /\ issued \in Nat /\ (issued # 0 => issued \in Attempts)
  BY Seen DEF SeenTypes, SeenType
<1>2. d.tries >= MaxAttempts
  BY DEF Spent
<1>3. CASE Sees(b, Message).status # db[Message].status
  BY <1>2, <1>3 DEF Orderly, Careful, Condemned
<1>4. CASE Sees(b, Message).status = db[Message].status
  <2> SUFFICES ASSUME n # 0 PROVE Sees(b, Run(n)) # "running"
    BY DEF Silent
  <2>1. n = db[Dispatch].fence /\ n = issued /\ n \in Attempts
    BY <1>1
  <2>2. db[Message].status = "failed" => db[Run(n)] # "running"
    BY <1>1, <1>2, <2>1 DEF Orderly, FailedSilent
  <2>3. RowInv /\ Changes(b) /\ Answered(db, issued) /\ db[Message] \in MessageRows
    BY DEF Inv, CallInv, RowInv, Consistent, Typed
  <2>4. db[Message].status = "completed" => db[Run(n)] = "succeeded"
    BY <2>1, <2>3 DEF Answered
  <2>5. db[Run(n)] # "running"
    BY <1>4, <2>2, <2>3, <2>4 DEF MessageRows
  <2>6. Sees(b, Run(n)) = db[Run(n)] \/ Sees(b, Run(n)) = "failed"
    BY <2>1, <2>3, SeenConsistent
  <2> HIDE DEF n
  <2> QED
    BY <2>5, <2>6
<1> QED
  BY <1>3, <1>4

\* What is read is known when it is written.
LEMMA ReadTidy ==
  ASSUME Inv, Inv', Orderly, NEW b \in Backends, kept \in Int, ~Expired, ReadStatement(b)
  PROVE  Orderly'
<1>1. PICK stage \in {"processing_run", "message", "dispatch"}, cause \in Causes :
        /\ At(b, Read(stage, cause))
        /\ \/ Matched(b, stage, cause) = {} /\ Goto(b, After(stage, cause))
           \/ \E r \in Matched(b, stage, cause) : Goto(b, <<"write", r, cause>>)
  BY DEF ReadStatement
<1>2. UNCHANGED <<db, issued>>
  BY DEF ReadStatement
<1>3. CarefulAt(b, Read(stage, cause))
  BY <1>1 DEF Orderly, At
<1>4. CASE cause = "retention"
  <2>1. Matched(b, stage, cause) = {}
    BY <1>4, StillKept DEF Matched
  <2>2. CarefulAt(b, After(stage, cause))
    <3>1. After(stage, cause) \in {Read("message", "retention"), Read("dispatch", "retention"),
                                   Read("processing_run", "lease")}
      BY <1>4 DEF After
    <3>2. \A s \in {"message", "dispatch"} : Read(s, "retention") \notin Between /\ Read(s, "retention")[1] = "read"
      BY DEF Between, Read
    <3>3. Read("processing_run", "lease") \notin Between /\ Read("processing_run", "lease")[1] = "read"
      BY DEF Between, Read
    <3> QED
      BY <3>1, <3>2, <3>3, NothingToKnow
  <2> QED
    BY <1>1, <1>2, <2>1, <2>2, GoesOn
<1>5. CASE cause = "lease" /\ stage = "processing_run"
  <2>1. CASE Matched(b, stage, cause) = {}
    <3>1. Spent(b) => Silent(b)
      <4> SUFFICES ASSUME Spent(b), Sees(b, Message).status = "generating" PROVE Silent(b)
        BY SpentSilent
      <4> DEFINE n == Sees(b, Dispatch).fence
      <4>1. n # 0 => n \in Attempts /\ Run(n) \in Rows
        <5>1. n \in {0, issued} /\ (issued # 0 => issued \in Attempts)
          BY Seen DEF SeenTypes, SeenType
        <5> HIDE DEF n
        <5> QED
          BY <5>1, Distinct
      <4>2. n # 0 => Run(n)[1] = "processing_run" /\ Run(n)[2] = n
        BY DEF Run
      <4>3. n # 0 => Sees(b, Run(n)) # "running"
        BY <1>5, <2>1, <4>1, <4>2 DEF Matched
      <4> QED
        BY <4>3 DEF Silent
    <3>2. CarefulAt(b, Read("message", "lease"))
      BY <3>1 DEF CarefulAt, Read
    <3> QED
      BY <1>1, <1>2, <1>5, <2>1, <3>2, GoesOn DEF After
  <2>2. ASSUME NEW r \in Matched(b, stage, cause), Goto(b, <<"write", r, cause>>) PROVE Orderly'
    <3>1. r \in Rows /\ r[1] = "processing_run" /\ r[2] = Sees(b, Dispatch).fence
      BY <1>5, <2>2 DEF Matched
    <3>2. PICK n \in Attempts : r = Run(n) /\ n = Sees(b, Dispatch).fence
      BY <3>1, Distinct DEF Run, Dispatch, Message, Case
    <3>3. CarefulAt(b, <<"write", Run(n), "lease">>)
      BY <3>2, Distinct DEF CarefulAt, Between, Read
    <3> QED
      BY <1>2, <1>5, <2>2, <3>2, <3>3, GoesOn
  <2> QED
    BY <1>1, <2>1, <2>2
<1>6. CASE cause = "lease" /\ stage = "message"
  <2>1. Spent(b) => Silent(b)
    BY <1>3, <1>6 DEF CarefulAt, Between
  <2>2. CASE Matched(b, stage, cause) = {}
    <3>1. CarefulAt(b, Read("dispatch", "lease"))
      BY <2>1 DEF CarefulAt, Read
    <3> QED
      BY <1>1, <1>2, <1>6, <2>2, <3>1, GoesOn DEF After
  <2>3. ASSUME NEW r \in Matched(b, stage, cause), Goto(b, <<"write", r, cause>>) PROVE Orderly'
    <3>1. r \in Rows /\ r[1] = "message" /\ Spent(b)
      BY <1>6, <2>3 DEF Matched
    <3>2. r = Message
      BY <3>1, Distinct DEF Run, Dispatch, Message, Case
    <3>3. Condemned(b)
      BY <2>1, <3>1, Limits DEF Condemned, Spent
    <3>4. CarefulAt(b, <<"write", Message, "lease">>)
      BY <3>3, Distinct DEF CarefulAt, Between, Read
    <3> QED
      BY <1>2, <1>6, <2>3, <3>2, <3>4, GoesOn
  <2> QED
    BY <1>1, <2>2, <2>3
<1>7. CASE cause = "lease" /\ stage = "dispatch"
  <2>1. Spent(b) => Silent(b)
    BY <1>3, <1>7 DEF CarefulAt, Between
  <2>2. CASE Matched(b, stage, cause) = {}
    <3>1. CarefulAt(b, <<"take">>)
      BY DEF CarefulAt, Between, Read
    <3> QED
      BY <1>1, <1>2, <1>7, <2>2, <3>1, GoesOn DEF After
  <2>3. ASSUME NEW r \in Matched(b, stage, cause), Goto(b, <<"write", r, cause>>) PROVE Orderly'
    <3>1. r \in Rows /\ r[1] = "dispatch"
      BY <1>7, <2>3 DEF Matched
    <3>2. r = Dispatch
      BY <3>1, Distinct DEF Run, Dispatch, Message, Case
    <3>3. CarefulAt(b, <<"write", Dispatch, "lease">>)
      BY <2>1, Distinct DEF CarefulAt, Between, Read
    <3> QED
      BY <1>2, <1>7, <2>3, <3>2, <3>3, GoesOn
  <2> QED
    BY <1>1, <2>2, <2>3
<1> QED
  BY <1>4, <1>5, <1>6, <1>7 DEF Causes

\* The attempts a claim has failed run for nobody.
LEMMA StaySilent ==
  ASSUME NEW b, UNCHANGED db, tx'[b].age = tx[b].age,
         Sees(b, Dispatch)' = Sees(b, Dispatch),
         \A n : Sees(b, Run(n))' = Sees(b, Run(n)) \/ Sees(b, Run(n))' # "running"
  PROVE  /\ Silent(b) => Silent(b)'
         /\ Condemned(b) => Condemned(b)'
         /\ Spent(b)' <=> Spent(b)
<1>1. Silent(b) => Silent(b)'
  BY DEF Silent
<1>2. Condemned(b) => Condemned(b)'
  BY <1>1 DEF Condemned, Fresh
<1>3. Spent(b)' <=> Spent(b)
  BY DEF Spent, Lapsed, Before
<1> QED
  BY <1>1, <1>2, <1>3

\* What is written is what was known.
LEMMA WriteTidy ==
  ASSUME Inv, Inv', Orderly, NEW b \in Backends, WriteStatement(b)
  PROVE  Orderly'
<1>1. PICK r \in Rows, cause \in Causes :
        /\ At(b, <<"write", r, cause>>) /\ Free(b, r)
        /\ \/ Goto(b, After(r[1], cause)) /\ ~StillMatches(b, r, cause)
           \/ /\ StillMatches(b, r, cause)
              /\ \E V : /\ tx' = [tx EXCEPT ![b].at = After(r[1], cause), ![b].mine = V]
                        /\ DOMAIN V = Locked(b) \cup {r} /\ V[r] = Settled(b, r)
                        /\ \A q \in Locked(b) \ {r} : V[q] = Sees(b, q)
  BY Writes
<1>2. UNCHANGED <<db, issued>>
  BY DEF WriteStatement
<1>3. Careful(b) /\ CarefulAt(b, <<"write", r, cause>>)
  BY <1>1 DEF Orderly, At
<1>4. cause = "lease"
  BY <1>3 DEF CarefulAt, Causes
<1>5. /\ tx[b].age \in 0..CallTerm /\ Sees(b, Dispatch).fence \in {0, db[Dispatch].fence}
      /\ db[Dispatch].fence \in {0, issued} /\ Sees(b, Dispatch) \in DispatchRows
      /\ db[Dispatch] \in DispatchRows /\ db[Message] \in MessageRows
      /\ Sees(b, Dispatch).tries = db[Dispatch].tries /\ (issued # 0 => issued \in Attempts)
  BY Seen DEF SeenTypes, SeenType
<1>6. CallType(b) /\ DOMAIN tx = Backends
  BY DEF Inv, CallInv
<1> DEFINE p == After(r[1], cause)
<1>7. /\ \A n \in Attempts : r = Run(n) => p = Read("message", "lease")
      /\ r = Message => p = Read("dispatch", "lease")
      /\ r \in {Dispatch, Case} => p = <<"take">>
  BY <1>4 DEF After, Run, Message, Dispatch, Case
<1>8. /\ r = Message => Condemned(b)
      /\ r = Dispatch => (Spent(b) => Silent(b))
      /\ \A n \in Attempts : r = Run(n) /\ Spent(b) => Sees(b, Dispatch).fence = n
  BY <1>3, <1>4 DEF CarefulAt, Between
<1> HIDE DEF p
<1>9. ASSUME Goto(b, p), ~StillMatches(b, r, cause) PROVE Orderly'
  <2>1. CASE r \in {Dispatch, Case}
    <3>1. CarefulAt(b, <<"take">>)
      BY DEF CarefulAt, Between, Read
    <3> QED
      BY <1>2, <1>7, <1>9, <2>1, <3>1, GoesOn
  <2>2. CASE r = Message
    <3>1. Spent(b) => Silent(b)
      BY <1>8, <2>2 DEF Condemned, Spent
    <3>2. CarefulAt(b, Read("dispatch", "lease"))
      BY <3>1 DEF CarefulAt, Read
    <3> QED
      BY <1>2, <1>7, <1>9, <2>2, <3>2, GoesOn
  <2>3. ASSUME NEW n \in Attempts, r = Run(n) PROVE Orderly'
    <3>1. Sees(b, Run(n)) # "running"
      BY <1>9, <2>3 DEF StillMatches, Run
    <3>2. Spent(b) => Silent(b)
      BY <1>8, <2>3, <3>1 DEF Silent
    <3>3. CarefulAt(b, Read("message", "lease"))
      BY <3>2 DEF CarefulAt, Read
    <3> QED
      BY <1>2, <1>7, <1>9, <2>3, <3>3, GoesOn
  <2> QED
    BY <2>1, <2>2, <2>3, Distinct
<1>10. ASSUME StillMatches(b, r, cause),
              NEW V, tx' = [tx EXCEPT ![b].at = p, ![b].mine = V],
              DOMAIN V = Locked(b) \cup {r}, V[r] = Settled(b, r),
              \A q \in Locked(b) \ {r} : V[q] = Sees(b, q)
       PROVE  Orderly'
  <2>1. /\ \A c \in Backends \ {b} : tx'[c] = tx[c]
        /\ tx'[b].at = p /\ tx'[b].age = tx[b].age /\ tx'[b].mine = V
    <3>1. tx'[b] = [tx[b] EXCEPT !.at = p, !.mine = V] /\ \A c \in Backends \ {b} : tx'[c] = tx[c]
      BY <1>6, <1>10
    <3> QED
      BY <1>6, <3>1 DEF CallType, Fields
  <2>2. Sees(b, r)' = Settled(b, r) /\ \A q : q # r => Sees(b, q)' = Sees(b, q)
    BY <1>2, <1>10, <2>1 DEF Sees, Locked
  <2>3. Careful(b)' /\ CarefulAt(b, tx[b].at)'
    <3>1. CASE r = Dispatch
      <4>1. Settled(b, r) = Freed(db[Dispatch])
        BY <1>10, <3>1, Settles, Distinct DEF Dispatch, Run
      <4>2. Sees(b, Dispatch)'.fence = 0 /\ Sees(b, Dispatch)'.tries = Sees(b, Dispatch).tries
        BY <1>5, <2>2, <3>1, <4>1, FreedRow
      <4>3. Spent(b)
        BY <1>4, <1>10, <3>1, Distinct DEF StillMatches, Dispatch
      <4>4. Sees(b, Dispatch).tries >= MaxAttempts /\ Sees(b, Dispatch).fence # 0 /\ Silent(b)
        BY <1>8, <3>1, <4>3 DEF Spent, Lapsed
      <4>5. db[Dispatch].fence \in Attempts /\ Sees(b, Run(db[Dispatch].fence)) # "running"
        BY <1>5, <4>4 DEF Silent
      <4>6. Sees(b, Run(db[Dispatch].fence))' # "running"
        BY <1>2, <2>2, <3>1, <4>5, Distinct
      <4>7. Condemned(b)'
        BY <4>2, <4>4, <1>5, Limits DEF Condemned, Silent, DispatchRows
      <4>8. Careful(b)'
        BY <4>2, <4>4, <4>6, <4>7, <1>2 DEF Careful
      <4>9. CarefulAt(b, tx[b].at)'
        BY <1>7, <2>1, <3>1 DEF CarefulAt, Between, Read
      <4> QED
        BY <4>8, <4>9
    <3>2. CASE r = Message
      <4>1. Settled(b, r) = Settling(db[Message])
        BY <1>10, <3>2, Settles, Distinct DEF Message, Run
      <4>2. \A n : Sees(b, Run(n))' = Sees(b, Run(n)) \/ Sees(b, Run(n))' # "running"
        BY <2>2, <3>2, Distinct
      <4>3. Sees(b, Dispatch)' = Sees(b, Dispatch)
        BY <2>2, <3>2, Distinct
      <4>4. Condemned(b)' /\ (Spent(b)' => Silent(b)')
        BY <1>2, <1>8, <2>1, <3>2, <4>2, <4>3, StaySilent DEF Condemned, Spent
      <4>5. Careful(b)'
        <5>1. ASSUME Sees(b, Dispatch)'.fence # db[Dispatch].fence
              PROVE  /\ Sees(b, Dispatch)'.tries >= MaxAttempts
                     /\ Sees(b, Run(db[Dispatch].fence))' # "running"
          <6>1. Sees(b, Dispatch).tries >= MaxAttempts /\ Sees(b, Run(db[Dispatch].fence)) # "running"
            BY <1>3, <4>3, <5>1 DEF Careful
          <6> QED
            BY <1>2, <4>2, <4>3, <6>1
        <5> QED
          BY <1>2, <4>4, <5>1 DEF Careful
      <4>6. CarefulAt(b, tx[b].at)'
        BY <1>7, <2>1, <3>2, <4>4 DEF CarefulAt, Between, Read
      <4> QED
        BY <4>5, <4>6
    <3>3. ASSUME NEW n \in Attempts, r = Run(n) PROVE Careful(b)' /\ CarefulAt(b, tx[b].at)'
      <4>1. Settled(b, r) = "failed"
        BY <1>10, <3>3, Settles, Distinct
      <4>2. \A k : Sees(b, Run(k))' = Sees(b, Run(k)) \/ Sees(b, Run(k))' # "running"
        BY <2>2, <4>1
      <4>3. Sees(b, Dispatch)' = Sees(b, Dispatch) /\ Sees(b, Message)' = Sees(b, Message)
        BY <2>2, <3>3, Distinct
      <4>4. (Condemned(b) => Condemned(b)') /\ (Spent(b)' <=> Spent(b))
        BY <1>2, <2>1, <4>2, <4>3, StaySilent
      <4>5. Spent(b)' => Silent(b)'
        BY <1>8, <2>2, <3>3, <4>1, <4>3, <4>4 DEF Silent
      <4>6. Careful(b)'
        <5>1. ASSUME Sees(b, Dispatch)'.fence # db[Dispatch].fence
              PROVE  /\ Sees(b, Dispatch)'.tries >= MaxAttempts
                     /\ Sees(b, Run(db[Dispatch].fence))' # "running"
          <6>1. Sees(b, Dispatch).tries >= MaxAttempts /\ Sees(b, Run(db[Dispatch].fence)) # "running"
            BY <1>3, <4>3, <5>1 DEF Careful
          <6> QED
            BY <1>2, <4>2, <4>3, <6>1
        <5> QED
          BY <1>2, <1>3, <4>3, <4>4, <5>1 DEF Careful
      <4>7. CarefulAt(b, tx[b].at)'
        BY <1>7, <2>1, <3>3, <4>5 DEF CarefulAt, Between, Read
      <4> QED
        BY <4>6, <4>7
    <3>4. r # Case
      BY <1>10 DEF StillMatches, Case, Message, Dispatch
    <3> QED
      BY <3>1, <3>2, <3>3, <3>4, Distinct
  <2> QED
    BY <1>2, <2>1, <2>3, OnItsWay
<1> QED
  BY <1>1, <1>9, <1>10 DEF p

\* A claim that commits without a candidate leaves no attempt behind.
LEMMA ClaimTidy ==
  ASSUME Inv, Inv', Orderly, NEW b \in Backends, Commit(b, <<>>), UNCHANGED issued, db' = View(b)
  PROVE  Orderly'
<1> DEFINE d == Sees(b, Dispatch)
           m == Sees(b, Message)
<1>1. /\ d \in DispatchRows /\ d.fence \in {0, db[Dispatch].fence} /\ d.tries = db[Dispatch].tries
      /\ db[Dispatch] \in DispatchRows /\ db[Dispatch].fence \in {0, issued}
      /\ db[Message] \in MessageRows /\ issued \in Nat /\ (issued # 0 => issued \in Attempts)
  BY Seen DEF SeenTypes, SeenType
<1>2. /\ d \in {db[Dispatch], Freed(db[Dispatch])}
      /\ m = db[Message] \/ (m = Settling(db[Message]) /\ db[Message].status = "generating")
      /\ \A n \in Attempts : Sees(b, Run(n)) = db[Run(n)] \/ Sees(b, Run(n)) = "failed"
  BY SeenConsistent DEF Inv, CallInv
<1>3. db'[Dispatch] = d /\ db'[Message] = m /\ \A n \in Attempts : db'[Run(n)] = Sees(b, Run(n))
  BY SeenConsistent DEF Inv, CallInv
<1>4. Careful(b) /\ NoStrays /\ FailedSilent
  BY DEF Orderly
<1>5. d.fence # db[Dispatch].fence => d.tries >= MaxAttempts /\ Sees(b, Run(db[Dispatch].fence)) # "running"
  BY <1>4 DEF Careful
<1>6. d = db[Dispatch] \/ (d.fence = 0 /\ (d.fence # db[Dispatch].fence \/ db[Dispatch].fence = 0))
  BY <1>1, <1>2, FreedRow
<1>7. Moved
  <2>1. Becomes(db[Dispatch], d, m)
    BY <1>1, <1>5, <1>6 DEF Becomes, Dropped
  <2>2. m.status = "generating" => db[Message].status = "generating"
    BY <1>1, <1>2, SettlingRow
  <2> QED
    BY <1>2, <1>3, <2>1, <2>2 DEF Moved
<1>8. NoStrays'
  <2>1. ASSUME NEW n \in Attempts, db'[Run(n)] = "running" PROVE d.fence = n
    <3>1. Sees(b, Run(n)) = "running" /\ db[Dispatch].fence = n
      BY <1>2, <1>3, <1>4, <2>1 DEF NoStrays
    <3> QED
      BY <1>5, <3>1
  <2> QED
    BY <1>3, <2>1 DEF NoStrays
<1>9. FailedSilent'
  <2> SUFFICES ASSUME m.status = "failed", d.tries >= MaxAttempts, d.fence # 0
               PROVE  Sees(b, Run(d.fence)) # "running"
    <3>1. d.fence # 0 => d.fence \in Attempts
      BY <1>1
    <3> QED
      BY <1>3, <3>1 DEF FailedSilent
  <2>1. CASE m = db[Message]
    BY <1>1, <1>2, <1>4, <2>1 DEF FailedSilent
  <2>2. CASE m # db[Message]
    <3>1. m.status # db[Message].status
      BY <1>2, <2>2
    <3> QED
      BY <1>4, <3>1 DEF Careful, Condemned, Silent
  <2> QED
    BY <2>1, <2>2
<1>10. Untouched(b) /\ tx'[b] = Idle
  BY Commits
<1> QED
  BY <1>7, <1>8, <1>9, <1>10, OnCommit

-----------------------------------------------------------------------------
(***************************************************************************)
(* The other commits, and the clock.                                       *)
(***************************************************************************)

\* The next attempt takes a turn that is free or lapsed, and nothing else runs.
LEMMA StartTidy ==
  ASSUME Inv, Inv', Orderly, NEW b \in Backends, Start(b)
  PROVE  Orderly'
<1> DEFINE d == Sees(b, Dispatch)
           e == db'[Dispatch]
<1>1. /\ Untouched(b) /\ tx'[b] = Idle
      /\ issued' = issued + 1 /\ issued' \in Attempts
      /\ db'[Run(issued')] = "running" /\ RunsStop(Attempts \ {issued'})
      /\ d.fence # 0 => db'[Run(d.fence)] # "running"
      /\ db'[Message] = db[Message] /\ db[Message].status = "generating"
      /\ db[Dispatch].tries < MaxAttempts
      /\ e = [fence |-> issued', tries |-> db[Dispatch].tries + 1, lease |-> Granted(b)]
  BY StartStep
<1>2. /\ d \in DispatchRows /\ d.fence \in {0, db[Dispatch].fence} /\ d.tries = db[Dispatch].tries
      /\ db[Dispatch] \in DispatchRows /\ tx[b].age \in 0..CallTerm /\ issued \in Nat
  BY Seen DEF SeenTypes, SeenType
<1>3. d \in {db[Dispatch], Freed(db[Dispatch])}
  BY SeenConsistent DEF Inv, CallInv
<1>4. Careful(b) /\ NoStrays /\ CarefulAt(b, <<"start">>)
  BY DEF Orderly, Start, At
<1>5. d.fence = db[Dispatch].fence
  BY <1>1, <1>2, <1>4, Limits DEF Careful, DispatchRows
<1>6. db[Dispatch].fence = 0 \/ db[Dispatch].lease <= 0
  <2>1. CASE d.fence = 0
    BY <1>5, <2>1
  <2>2. CASE d.fence # 0
    <3>1. d = db[Dispatch]
      BY <1>2, <1>3, <2>2, FreedRow
    <3>2. d.lease + tx[b].age <= 0
      BY <1>2, <1>4, <2>2 DEF CarefulAt, Lapsed, Before, DispatchRows
    <3> QED
      BY <1>2, <3>1, <3>2, Terms DEF DispatchRows
  <2> QED
    BY <2>1, <2>2
<1>7. Moved
  <2>1. e.fence = issued + 1 /\ e.fence # 0 /\ e.tries = db[Dispatch].tries + 1 /\ e.lease = Granted(b)
    BY <1>1, <1>2
  <2>2. Recent(e)
    BY <1>2, <2>1, Terms DEF Recent, Granted
  <2>3. Taken(db[Dispatch], e, db'[Message])
    BY <1>1, <1>6, <2>1, <2>2 DEF Taken
  <2> QED
    BY <1>1, <2>3 DEF Moved, Becomes, RunsStop
<1>8. NoStrays'
  <2>1. ASSUME NEW n \in Attempts, db'[Run(n)] = "running" PROVE e.fence = n
    <3>1. CASE n = issued'
      BY <1>1, <3>1
    <3>2. CASE n # issued'
      <4>1. db[Run(n)] = "running"
        BY <1>1, <2>1, <3>2 DEF RunsStop
      <4>2. d.fence = n /\ n # 0
        BY <1>4, <1>5, <4>1, Limits DEF NoStrays
      <4> QED
        BY <1>1, <2>1, <4>2
    <3> QED
      BY <3>1, <3>2
  <2> QED
    BY <2>1 DEF NoStrays
<1>9. FailedSilent'
  BY <1>1 DEF FailedSilent
<1> QED
  BY <1>1, <1>7, <1>8, <1>9, OnCommit

\* A heartbeat renews the lease.
LEMMA BeatTidy ==
  ASSUME Inv, Inv', Orderly, NEW b \in Backends, Beat(b)
  PROVE  Orderly'
<1>1. UNCHANGED issued
  BY DEF Beat
<1>2. CASE Withdrawn(b)
  BY <1>1, <1>2, OnEnd DEF Withdrawn
<1>3. CASE /\ Untouched(b) /\ tx'[b] = Idle
           /\ db'[Dispatch] = [db[Dispatch] EXCEPT !.lease = Granted(b)]
           /\ db'[Message] = db[Message] /\ \A n \in Attempts : db'[Run(n)] = db[Run(n)]
  <2>1. db[Dispatch] \in DispatchRows /\ tx[b].age \in 0..CallTerm
        /\ db[Dispatch].fence \in {0, issued} /\ (issued # 0 => issued \in Attempts)
    BY Seen DEF SeenTypes, SeenType
  <2>2. /\ db'[Dispatch].fence = db[Dispatch].fence /\ db'[Dispatch].tries = db[Dispatch].tries
        /\ db'[Dispatch].lease = Granted(b)
    BY <1>3, <2>1 DEF DispatchRows
  <2>3. Recent(db'[Dispatch])
    BY <2>1, <2>2, Terms DEF Recent, Granted
  <2>4. Moved
    BY <1>3, <2>2, <2>3 DEF Moved, Becomes, Renewed
  <2>5. NoStrays'
    BY <1>3, <2>2 DEF Orderly, NoStrays
  <2>6. FailedSilent'
    BY <1>3, <2>1, <2>2 DEF Orderly, FailedSilent
  <2> QED
    BY <1>3, <2>4, <2>5, <2>6, OnCommit
<1> QED
  BY <1>2, <1>3, BeatStep

\* An answer leaves nothing running.
LEMMA CompleteTidy ==
  ASSUME Inv, Inv', Orderly, NEW b \in Backends, Complete(b)
  PROVE  Orderly'
<1>1. UNCHANGED issued
  BY DEF Complete
<1>2. CASE Withdrawn(b)
  BY <1>1, <1>2, OnEnd DEF Withdrawn
<1>3. CASE /\ Untouched(b) /\ tx'[b] = Idle
           /\ issued \in Attempts /\ db[Dispatch].fence = issued
           /\ db[Message].status = "generating" /\ db'[Message].status = "completed"
           /\ db'[Dispatch] = Freed(db[Dispatch])
           /\ db[Run(issued)] = "running" /\ db'[Run(issued)] = "succeeded"
           /\ \A n \in Attempts \ {issued} : db'[Run(n)] = db[Run(n)]
  <2>1. db'[Dispatch].fence = 0 /\ db'[Dispatch].tries = db[Dispatch].tries
    BY <1>3, Seen, FreedRow DEF SeenTypes, SeenType
  <2>2. Moved
    BY <1>3, <2>1 DEF Moved, Becomes, Dropped
  <2>3. NoStrays'
    BY <1>3 DEF Orderly, NoStrays
  <2>4. FailedSilent'
    BY <1>3 DEF FailedSilent
  <2> QED
    BY <1>3, <2>2, <2>3, <2>4, OnCommit
<1> QED
  BY <1>2, <1>3, CompleteStep

\* So does a failure.
LEMMA FailTidy ==
  ASSUME Inv, Inv', Orderly, NEW b \in Backends, Fail(b)
  PROVE  Orderly'
<1>1. UNCHANGED issued
  BY DEF Fail
<1>2. CASE Withdrawn(b)
  BY <1>1, <1>2, OnEnd DEF Withdrawn
<1>3. CASE /\ Untouched(b) /\ tx'[b] = Idle
           /\ issued \in Attempts /\ db[Dispatch].fence = issued
           /\ db[Message].status = "generating" /\ db'[Message].status \in {"generating", "failed"}
           /\ db'[Dispatch].tries = 0 /\ db'[Dispatch].fence = 0
           /\ db[Run(issued)] = "running" /\ db'[Run(issued)] = "failed"
           /\ \A n \in Attempts \ {issued} : db'[Run(n)] = db[Run(n)]
  <2>1. Moved
    BY <1>3 DEF Moved, Becomes, Cleaned
  <2>2. NoStrays'
    BY <1>3 DEF Orderly, NoStrays
  <2>3. FailedSilent'
    BY <1>3 DEF FailedSilent
  <2> QED
    BY <1>3, <2>1, <2>2, <2>3, OnCommit
<1> QED
  BY <1>2, <1>3, FailStep

\* A replayed question changes nothing.
LEMMA ReplayTidy ==
  ASSUME Inv, Inv', Orderly, NEW b \in Backends, Replay(b)
  PROVE  Orderly'
<1>1. /\ Untouched(b) /\ tx'[b] = Idle
      /\ db'[Dispatch] = db[Dispatch] /\ db'[Message] = db[Message]
      /\ \A n \in Attempts : db'[Run(n)] = db[Run(n)]
  BY ReplayStep
<1>2. Moved /\ NoStrays'
  BY <1>1 DEF Moved, Becomes, Orderly, NoStrays
<1>3. FailedSilent'
  BY <1>1, Seen DEF Orderly, FailedSilent, SeenTypes, SeenType
<1> QED
  BY <1>1, <1>2, <1>3, OnCommit

\* A retry starts from a turn that nothing holds.
LEMMA ReaskTidy ==
  ASSUME Inv, Inv', Orderly, NEW b \in Backends, Reask(b)
  PROVE  Orderly'
<1>1. UNCHANGED issued
  BY DEF Reask
<1>2. CASE Withdrawn(b)
  BY <1>1, <1>2, OnEnd DEF Withdrawn
<1>3. CASE /\ Untouched(b) /\ tx'[b] = Idle
           /\ db[Message].status = "failed" /\ db'[Message].status = "generating"
           /\ db'[Dispatch].tries = 0 /\ db'[Dispatch].fence = 0
           /\ RunsStop(Attempts)
           /\ db[Dispatch].fence # 0 => db'[Run(db[Dispatch].fence)] # "running"
  <2>1. Moved
    BY <1>3 DEF Moved, Becomes, Cleaned, RunsStop
  <2>2. NoStrays'
    <3>1. \A n \in Attempts : db'[Run(n)] # "running"
      <4> SUFFICES ASSUME NEW n \in Attempts, db'[Run(n)] = "running" PROVE FALSE
        OBVIOUS
      <4>1. db[Dispatch].fence = n /\ n # 0
        BY <1>3, Limits DEF RunsStop, Orderly, NoStrays
      <4> QED
        BY <1>3, <4>1
    <3> QED
      BY <3>1 DEF NoStrays
  <2>3. FailedSilent'
    BY <1>3 DEF FailedSilent
  <2> QED
    BY <1>3, <2>1, <2>2, <2>3, OnCommit
<1> QED
  BY <1>2, <1>3, ReaskStep

\* A call begins.
LEMMA BeginTidy ==
  ASSUME Inv, Inv', Orderly, NEW b \in Backends, Begin(b)
  PROVE  Orderly'
<1>1. DOMAIN tx = Backends
  BY DEF Inv, CallInv
<1>2. PICK call, token, p :
        /\ Enter(b, call, token, p)
        /\ p \in {Read("processing_run", "retention"), <<"lock", Case>>, <<"select">>}
  BY DEF Begin, EnterClaim
<1>3. /\ UNCHANGED <<db, issued>> /\ \A c \in Backends \ {b} : tx'[c] = tx[c]
      /\ tx'[b] = [Idle EXCEPT !.call = call, !.token = token, !.at = p]
  BY <1>1, <1>2 DEF Enter
<1>4. tx'[b].at = p /\ Locked(b)' = {}
  BY <1>3 DEF Idle, Locked
<1>5. Careful(b)' /\ CarefulAt(b, tx[b].at)'
  BY <1>2, <1>4 DEF Careful, CarefulAt, Sees, Between, Read
<1> QED
  BY <1>3, <1>5, OnItsWay

\* A candidate is taken, and is free or lapsed.
LEMMA TakeTidy ==
  ASSUME Inv, Inv', Orderly, NEW b \in Backends, Take(b)
  PROVE  Orderly'
<1>1. UNCHANGED issued
  BY DEF Take, TakeIf
<1>2. CASE Commit(b, <<>>)
  BY <1>1, <1>2, CommitStep, ClaimTidy
<1>3. CASE ~Commit(b, <<>>)
  <2>1. /\ UNCHANGED db /\ (Sees(b, Dispatch).fence = 0 \/ Lapsed(b))
        /\ \E V : /\ tx' = [tx EXCEPT ![b].at = <<"start">>, ![b].mine = V]
                  /\ DOMAIN V = Locked(b) \cup {Dispatch, Message, Case}
                  /\ \A r \in DOMAIN V : V[r] = Sees(b, r)
    BY <1>3, Takes
  <2>2. PICK V : /\ tx' = [tx EXCEPT ![b].at = <<"start">>, ![b].mine = V]
                 /\ DOMAIN V = Locked(b) \cup {Dispatch, Message, Case}
                 /\ \A r \in DOMAIN V : V[r] = Sees(b, r)
    BY <2>1
  <2>3. CarefulAt(b, <<"start">>)
    BY <2>1 DEF CarefulAt, Between, Read
  <2>4. Locked(b) \subseteq DOMAIN V
    BY <2>2
  <2> QED
    BY <1>1, <2>1, <2>2, <2>3, <2>4, GoesOnLocked
<1> QED
  BY <1>2, <1>3

\* The steps of the other calls before their commit.
LEMMA SelectTidy ==
  ASSUME Inv, Inv', Orderly, NEW b \in Backends, Select(b)
  PROVE  Orderly'
<1>1. UNCHANGED <<db, issued>>
  BY DEF Select
<1>2. CASE tx' = [tx EXCEPT ![b] = Idle]
  BY <1>1, <1>2, OnEnd
<1>3. ASSUME NEW p \in {<<"beat">>, <<"lock", Dispatch>>}, Goto(b, p) PROVE Orderly'
  <2>1. CarefulAt(b, p)
    BY DEF CarefulAt, Between, Read
  <2> QED
    BY <1>1, <1>3, <2>1, GoesOn
<1> QED
  BY <1>2, <1>3 DEF Select

\* A row is locked as it is.
LEMMA LockTidy ==
  ASSUME Inv, Inv', Orderly, NEW b \in Backends, Lock(b)
  PROVE  Orderly'
<1>1. PICK r \in {Dispatch, Message, Case} : Write(b, r, Sees(b, r), NextLock(b, r))
  BY DEF Lock
<1>2. UNCHANGED <<db, issued>>
  BY DEF Lock
<1>3. PICK p : p = NextLock(b, r)
  OBVIOUS
<1> DEFINE V == [q \in Locked(b) \cup {r} |-> IF q = r THEN Sees(b, r) ELSE Sees(b, q)]
<1>4. tx' = [tx EXCEPT ![b].at = p, ![b].mine = V]
  BY <1>1, <1>3 DEF Write
<1>5. Locked(b) \subseteq DOMAIN V /\ \A q \in DOMAIN V : V[q] = Sees(b, q)
  OBVIOUS
<1> HIDE DEF V
<1>6. p[1] \in {"lock", "result"} /\ p \notin Between
  <2>1. p \in {<<"lock", Message>>, <<"lock", Dispatch>>, <<"lock", Case>>, <<"result">>}
    BY <1>3 DEF NextLock
  <2> QED
    BY <2>1 DEF Between, Read
<1>7. CarefulAt(b, p)
  BY <1>6, NothingToKnow
<1> QED
  BY <1>2, <1>4, <1>5, <1>7, GoesOnLocked

\* A lease that has lapsed for a call stays so, and one that has not does not.
LEMMA TickLease ==
  ASSUME NEW x \in Int, NEW age \in Nat, age < CallTerm
  PROVE  /\ Sooner(x) + (age + 1) <= 0 <=> x + age <= 0
         /\ x + age >= LeaseTerm - CallTerm => Sooner(x) + (age + 1) >= LeaseTerm - CallTerm
<1>1. CASE x > -CallTerm
  BY <1>1, Terms DEF Sooner
<1>2. CASE ~(x > -CallTerm)
  BY <1>2, Terms DEF Sooner
<1> QED
  BY <1>1, <1>2

\* Time passes for the rows and for the calls alike.
LEMMA TickTidy ==
  ASSUME Inv, Inv', Orderly, Tick
  PROVE  Orderly'
<1>1. /\ db'[Dispatch] = Older(db[Dispatch]) /\ db[Dispatch] \in DispatchRows
      /\ db'[Message] = db[Message] /\ \A n \in Attempts : db'[Run(n)] = db[Run(n)]
  BY TickRows DEF Inv
<1>2. /\ db'[Dispatch].fence = db[Dispatch].fence /\ db'[Dispatch].tries = db[Dispatch].tries
      /\ db[Dispatch].fence # 0 => db[Dispatch].fence \in Attempts
  <2>1. db[Dispatch].fence \in {0, issued} /\ (issued # 0 => issued \in Attempts)
    BY Held DEF Inv, RowInv, Consistent, Counted
  <2> QED
    BY <1>1, <2>1, OlderRow
<1>3. NoStrays' /\ FailedSilent'
  BY <1>1, <1>2 DEF Orderly, NoStrays, FailedSilent
<1>4. ASSUME NEW b \in Backends PROVE Careful(b)' /\ CarefulAt(b, tx[b].at)'
  <2>1. CASE tx[b] = Idle
    <3>1. tx'[b] = Idle
      BY <2>1 DEF Tick
    <3> QED
      BY <3>1, IdleCarefulNext
  <2>2. CASE tx[b] # Idle
    <3> DEFINE d == Sees(b, Dispatch)
               e == Sees(b, Dispatch)'
               p == tx[b].at
    <3>1. /\ tx'[b].at = p /\ tx'[b].age = tx[b].age + 1 /\ tx[b].age < CallTerm
          /\ Locked(b)' = Locked(b) /\ \A r \in Locked(b) \ {Dispatch} : Mine(b, r)' = Mine(b, r)
          /\ Dispatch \in Locked(b) => Mine(b, Dispatch)' = Older(Mine(b, Dispatch))
      BY <2>2, TickCall
    <3>2. d \in DispatchRows /\ d.fence \in {0, db[Dispatch].fence} /\ tx[b].age \in Nat
      BY Seen, Terms DEF SeenTypes, SeenType
    <3>3. e = Older(d)
      BY <1>1, <3>1 DEF Sees, Mine
    <3>4. /\ Sees(b, Message)' = Sees(b, Message)
          /\ \A n \in Attempts : Sees(b, Run(n))' = Sees(b, Run(n))
      BY <1>1, <3>1, Distinct DEF Sees, Mine
    <3>5. e.fence = d.fence /\ e.tries = d.tries /\ e.lease = Sooner(d.lease)
      BY <3>2, <3>3, OlderRow
    <3>6. d.lease \in Int
      BY <3>2 DEF DispatchRows
    <3>7. /\ Lapsed(b)' <=> Lapsed(b)
          /\ Fresh(b) => Fresh(b)'
      <4>1. /\ Sooner(d.lease) + (tx[b].age + 1) <= 0 <=> d.lease + tx[b].age <= 0
            /\ d.lease + tx[b].age >= LeaseTerm - CallTerm =>
                 Sooner(d.lease) + (tx[b].age + 1) >= LeaseTerm - CallTerm
        BY <3>1, <3>2, <3>6, TickLease
      <4>2. Sooner(d.lease) \in Int
        BY <3>6 DEF Sooner
      <4> HIDE DEF d, e
      <4>3. /\ Lapsed(b)' <=> e.fence # 0 /\ ~(e.lease + tx'[b].age > 0)
            /\ Lapsed(b) <=> d.fence # 0 /\ ~(d.lease + tx[b].age > 0)
            /\ Fresh(b)' <=> e.lease + tx'[b].age >= LeaseTerm - CallTerm
            /\ Fresh(b) <=> d.lease + tx[b].age >= LeaseTerm - CallTerm
        BY DEF Lapsed, Before, Fresh, d, e
      <4> QED
        BY <3>1, <3>2, <3>5, <3>6, <4>1, <4>2, <4>3
    <3>8. (Silent(b)' <=> Silent(b)) /\ (Spent(b)' <=> Spent(b))
      <4>1. d.fence # 0 => d.fence \in Attempts
        BY <1>2, <3>2
      <4>2. Silent(b)' <=> Silent(b)
        BY <3>4, <3>5, <4>1 DEF Silent
      <4>3. Spent(b)' <=> Spent(b)
        BY <3>5, <3>7 DEF Spent
      <4> QED
        BY <4>2, <4>3
    <3>9. Condemned(b) => Condemned(b)'
      BY <1>1, <3>5, <3>7, <3>8 DEF Condemned
    <3>10. Careful(b)'
      <4>1. ASSUME e.fence # db[Dispatch].fence
            PROVE  e.tries >= MaxAttempts /\ Sees(b, Run(db[Dispatch].fence))' # "running"
        <5>1. db[Dispatch].fence \in Attempts
          BY <1>2, <3>2, <3>5, <4>1
        <5>2. d.tries >= MaxAttempts /\ Sees(b, Run(db[Dispatch].fence)) # "running"
          BY <3>5, <4>1 DEF Orderly, Careful
        <5>3. PICK n \in Attempts : n = db[Dispatch].fence /\ n = db'[Dispatch].fence
          BY <1>2, <5>1
        <5>4. Sees(b, Run(n))' # "running"
          BY <3>4, <5>2, <5>3
        <5> QED
          BY <3>5, <5>2, <5>3, <5>4
      <4>2. Sees(b, Message)'.status # db'[Message].status => Condemned(b)'
        BY <1>1, <3>4, <3>9 DEF Orderly, Careful
      <4> QED
        BY <1>2, <4>1, <4>2 DEF Careful
    <3>11. CarefulAt(b, tx[b].at)'
      BY <3>1, <3>5, <3>7, <3>8, <3>9 DEF Orderly, CarefulAt
    <3> QED
      BY <3>10, <3>11
  <2> QED
    BY <2>1, <2>2
<1> QED
  BY <1>3, <1>4 DEF Orderly

-----------------------------------------------------------------------------
(***************************************************************************)
(* Stray rows, and the promise to the owner.                               *)
(***************************************************************************)

\* Nothing runs in the beginning.
LEMMA InitiallyTimed == Init => TimedInv
<1> SUFFICES ASSUME Init PROVE TimedInv
  OBVIOUS
<1>1. Inv
  BY Initially
<1>2. kept \in Int
  BY RetentionAssumption DEF Init, Forever
<1>3. /\ db[Message].status = "generating" /\ \A n \in Attempts : db[Run(n)] = "none"
      /\ \A b \in Backends : tx[b] = Idle
  BY Distinct DEF Init
<1>4. ASSUME NEW b \in Backends PROVE Careful(b) /\ CarefulAt(b, tx[b].at)
  <2>1. Locked(b) = {} /\ tx[b].at = <<"idle">>
    BY <1>3 DEF Locked, Idle
  <2> QED
    BY <2>1, IdleCareful
<1>5. NoStrays /\ FailedSilent
  BY <1>3 DEF NoStrays, FailedSilent
<1> QED
  BY <1>1, <1>2, <1>4, <1>5 DEF TimedInv, Orderly

\* The clock of the case.
LEMMA KeptStep ==
  ASSUME kept \in Int, [Next]_vars
  PROVE  kept' \in Int /\ (Expired => Expired')
<1>1. CASE Tick
  <2>1. Forever \in Int /\ Forever > 0 /\ Sooner(kept) \in Int /\ Sooner(kept) <= kept
    BY RetentionAssumption DEF Forever, Sooner
  <2>2. kept' = IF kept = Forever THEN Forever ELSE Sooner(kept)
    BY <1>1 DEF Tick
  <2> HIDE DEF Forever, Sooner
  <2> QED
    BY <2>1, <2>2 DEF Expired
<1>2. CASE UNCHANGED kept
  BY <1>2 DEF Expired
<1>3. ASSUME NEW b \in Backends, Begin(b) \/ Step(b) \/ Victim(b) \/ Lose(b) PROVE UNCHANGED kept
  <2>1. CASE Begin(b) \/ Victim(b) \/ Lose(b)
    BY <2>1 DEF Begin, EnterClaim, Enter, Victim, Lose, Rollback
  <2>2. CASE ReadStatement(b) \/ WriteStatement(b) \/ Take(b) \/ Start(b)
    BY <2>2 DEF ReadStatement, WriteStatement, Take, TakeIf, Start
  <2>3. CASE Select(b) \/ Beat(b) \/ Lock(b) \/ Complete(b) \/ Fail(b) \/ Replay(b) \/ Reask(b)
    BY <2>3 DEF Select, Beat, Lock, Complete, Fail, Replay, Reask
  <2> QED
    BY <1>3, <2>1, <2>2, <2>3 DEF Step
<1> QED
  BY <1>1, <1>2, <1>3 DEF Next, vars

\* Every step of a turn that is kept leaves it orderly.
LEMMA OrderlyStep ==
  ASSUME Inv, Inv', Orderly, kept \in Int, ~Expired, [Next]_vars
  PROVE  Orderly'
<1>1. CASE Tick
  BY <1>1, TickTidy
<1>2. ASSUME NEW b \in Backends, Begin(b) PROVE Orderly'
  BY <1>2, BeginTidy
<1>3. ASSUME NEW b \in Backends, Step(b) PROVE Orderly'
  <2>1. CASE ReadStatement(b) \/ WriteStatement(b)
    BY <2>1, ReadTidy, WriteTidy
  <2>2. CASE Take(b) \/ Start(b)
    BY <2>2, TakeTidy, StartTidy
  <2>3. CASE Select(b) \/ Beat(b) \/ Lock(b)
    BY <2>3, SelectTidy, BeatTidy, LockTidy
  <2>4. CASE Complete(b) \/ Fail(b)
    BY <2>4, CompleteTidy, FailTidy
  <2>5. CASE Replay(b) \/ Reask(b)
    BY <2>5, ReplayTidy, ReaskTidy
  <2> QED
    BY <1>3, <2>1, <2>2, <2>3, <2>4, <2>5 DEF Step
<1>4. ASSUME NEW b \in Backends, Victim(b) \/ Lose(b) PROVE Orderly'
  BY <1>4, LostStep, OnEnd
<1>5. CASE UNCHANGED vars
  <2>1. /\ UNCHANGED <<db, issued, tx>>
        /\ \A b \in Backends : Careful(b) /\ CarefulAt(b, tx[b].at)
    BY <1>5 DEF vars, Orderly
  <2>2. NoStrays' /\ FailedSilent'
    BY <2>1 DEF Orderly, NoStrays, FailedSilent
  <2>3. ASSUME NEW b \in Backends PROVE Careful(b)' /\ CarefulAt(b, tx[b].at)'
    <3>1. Moved
      BY <2>1 DEF Moved, Becomes
    <3> QED
      BY <2>1, <2>3, <3>1, StaysCareful
  <2> QED
    BY <2>2, <2>3 DEF Orderly
<1> QED
  BY <1>1, <1>2, <1>3, <1>4, <1>5 DEF Next

\* So the invariant with clocks is kept.
LEMMA TimedStep == TimedInv /\ [Next]_vars => TimedInv'
<1> SUFFICES ASSUME TimedInv, [Next]_vars PROVE TimedInv'
  OBVIOUS
<1>1. Inv /\ Inv' /\ kept \in Int
  BY InvariantStep DEF TimedInv
<1>2. kept' \in Int /\ (Expired => Expired')
  BY <1>1, KeptStep
<1>3. Expired' \/ Orderly'
  BY <1>1, <1>2, OrderlyStep DEF TimedInv
<1> QED
  BY <1>1, <1>2, <1>3 DEF TimedInv

\* A processing_run row that says running belongs to the attempt that holds the
\* turn, unless the case is past its retention.
THEOREM StraysCorrect == Spec => []StrayRunsExpired
<1>1. TimedInv => StrayRunsExpired
  BY DEF TimedInv, Orderly, NoStrays, StrayRunsExpired
<1> QED
  BY InitiallyTimed, TimedStep, <1>1, PTL DEF Spec

\* Attempts that fail, with or without the question, as the owner sees it.
LEMMA TurnStops ==
  ASSUME UNCHANGED <<issued, kept>>, RunsStop(Attempts),
         \/ db'[Message].status = db[Message].status
         \/ db[Message].status = "generating" /\ db'[Message].status = "failed"
  PROVE  Turn!TNext
<1> DEFINE S == {n \in Turn!Running : db'[Run(n)] = "failed"}
<1>1. S \in SUBSET Turn!Running
  OBVIOUS
<1>2. [n \in Attempts |-> db'[Run(n)]] = Turn!Stopped(S)
  BY DEF RunsStop, Turn!Stopped, Turn!Running
<1>3. Turn!GiveUp \/ Turn!Stop
  BY <1>1, <1>2 DEF Turn!GiveUp, Turn!Stop
<1>4. UNCHANGED Expired
  BY DEF Expired
<1> QED
  BY <1>3, <1>4 DEF Turn!TNext

\* A claim that commits.
LEMMA ClaimTurn ==
  ASSUME Inv, NEW b \in Backends, Commit(b, <<>>), UNCHANGED <<issued, kept>>
  PROVE  Turn!TNext
<1>1. db' = View(b)
  BY CommitStep
<1>2. /\ db'[Message] = db[Message] \/ (db'[Message] = Settling(db[Message]) /\ db[Message].status = "generating")
      /\ \A n \in Attempts : \/ db'[Run(n)] = db[Run(n)]
                             \/ db'[Run(n)] = "failed" /\ db[Run(n)] = "running"
  BY <1>1, SeenConsistent DEF Inv, CallInv
<1>3. db[Message] \in MessageRows
  BY DEF Inv, RowInv, Consistent, Typed
<1> QED
  BY <1>2, <1>3, SettlingRow, TurnStops DEF RunsStop

\* What runs when an attempt begins, or the question is asked for again, fails.
LEMMA Clears ==
  ASSUME TimedInv', UNCHANGED kept, NEW k, RunsStop(Attempts \ {k}), db'[Dispatch].fence \in {0, k}
  PROVE  \E S \in Turn!Cleared : \A n \in Attempts \ {k} : db'[Run(n)] = Turn!Stopped(S)[n]
<1>1. CASE Expired
  <2> DEFINE S == {n \in Turn!Running : db'[Run(n)] = "failed"}
  <2>1. S \in Turn!Cleared
    BY <1>1 DEF Turn!Cleared
  <2>2. \A n \in Attempts \ {k} : db'[Run(n)] = Turn!Stopped(S)[n]
    BY DEF RunsStop, Turn!Stopped, Turn!Running
  <2> QED
    BY <2>1, <2>2
<1>2. CASE ~Expired
  <2>1. NoStrays'
    BY <1>2 DEF TimedInv, Orderly, Expired
  <2>2. \A n \in Attempts \ {k} : db'[Run(n)] # "running"
    BY <2>1, Limits DEF NoStrays
  <2>3. \A n \in Attempts \ {k} : db'[Run(n)] = Turn!Stopped(Turn!Running)[n]
    BY <2>2 DEF RunsStop, Turn!Stopped, Turn!Running
  <2>4. Turn!Running \in Turn!Cleared
    BY <1>2 DEF Turn!Cleared
  <2> QED
    BY <2>3, <2>4
<1> QED
  BY <1>1, <1>2

\* An attempt begins.
LEMMA StartTurn ==
  ASSUME Inv, TimedInv', NEW b \in Backends, Start(b)
  PROVE  Turn!TNext
<1>0. /\ issued' = issued + 1 /\ issued' \in Attempts
      /\ db'[Run(issued')] = "running" /\ RunsStop(Attempts \ {issued'})
      /\ db'[Message] = db[Message] /\ db[Message].status = "generating"
      /\ db'[Dispatch] = [fence |-> issued', tries |-> db[Dispatch].tries + 1, lease |-> Granted(b)]
  BY StartStep
<1>1. /\ issued' = issued + 1 /\ issued' \in Attempts /\ UNCHANGED kept
      /\ db'[Run(issued')] = "running" /\ RunsStop(Attempts \ {issued'})
      /\ db'[Message] = db[Message] /\ db[Message].status = "generating"
      /\ db'[Dispatch].fence = issued'
  <2>1. UNCHANGED kept
    BY DEF Start
  <2> QED
    BY <1>0, <2>1
<1> DEFINE k == issued + 1
<1>2. RunsStop(Attempts \ {k}) /\ db'[Dispatch].fence \in {0, k} /\ k \in Attempts /\ db'[Run(k)] = "running"
  BY <1>1
<1>3. PICK S \in Turn!Cleared : \A n \in Attempts \ {k} : db'[Run(n)] = Turn!Stopped(S)[n]
  <2> HIDE DEF k
  <2> QED
    BY <1>1, <1>2, Clears
<1>4. [n \in Attempts |-> db'[Run(n)]] = [Turn!Stopped(S) EXCEPT ![k] = "running"]
  BY <1>2, <1>3 DEF Turn!Stopped
<1>5. Turn!Begin
  BY <1>1, <1>2, <1>3, <1>4 DEF Turn!Begin
<1>6. UNCHANGED Expired
  BY <1>1 DEF Expired
<1> QED
  BY <1>5, <1>6 DEF Turn!TNext

\* The question is asked for again.
LEMMA ReaskTurn ==
  ASSUME Inv, TimedInv', NEW b \in Backends, Reask(b)
  PROVE  [Turn!TNext]_(Turn!tvars)
<1>1. UNCHANGED <<issued, kept>>
  BY DEF Reask
<1>2. UNCHANGED Expired
  BY <1>1 DEF Expired
<1>3. CASE Withdrawn(b)
  BY <1>1, <1>2, <1>3 DEF Withdrawn, Turn!tvars
<1>4. CASE /\ db[Message].status = "failed" /\ db'[Message].status = "generating"
           /\ db'[Dispatch].fence = 0 /\ RunsStop(Attempts)
  <2>1. RunsStop(Attempts \ {0}) /\ 0 \notin Attempts
    BY <1>4, Limits DEF RunsStop
  <2>2. PICK S \in Turn!Cleared : \A n \in Attempts \ {0} : db'[Run(n)] = Turn!Stopped(S)[n]
    BY <1>1, <1>4, <2>1, Clears
  <2>3. [n \in Attempts |-> db'[Run(n)]] = Turn!Stopped(S)
    BY <2>1, <2>2 DEF Turn!Stopped
  <2>4. Turn!Retry
    BY <1>1, <1>4, <2>2, <2>3 DEF Turn!Retry
  <2> QED
    BY <1>2, <2>4 DEF Turn!TNext
<1> QED
  BY <1>3, <1>4, ReaskStep

\* The question is answered.
LEMMA CompleteTurn ==
  ASSUME Inv, NEW b \in Backends, Complete(b)
  PROVE  [Turn!TNext]_(Turn!tvars)
<1>1. UNCHANGED <<issued, kept>>
  BY DEF Complete
<1>2. UNCHANGED Expired
  BY <1>1 DEF Expired
<1>3. CASE Withdrawn(b)
  BY <1>1, <1>2, <1>3 DEF Withdrawn, Turn!tvars
<1>4. CASE /\ issued \in Attempts
           /\ db[Message].status = "generating" /\ db'[Message].status = "completed"
           /\ db[Run(issued)] = "running" /\ db'[Run(issued)] = "succeeded"
           /\ \A n \in Attempts \ {issued} : db'[Run(n)] = db[Run(n)]
  <2>1. [n \in Attempts |-> db'[Run(n)]] = [[n \in Attempts |-> db[Run(n)]] EXCEPT ![issued] = "succeeded"]
    BY <1>4
  <2>2. issued \in Turn!Running
    BY <1>4 DEF Turn!Running
  <2>3. Turn!Answer
    BY <1>1, <1>4, <2>1, <2>2 DEF Turn!Answer
  <2> QED
    BY <1>2, <2>3 DEF Turn!TNext
<1> QED
  BY <1>3, <1>4, CompleteStep

\* An attempt fails.
LEMMA FailTurn ==
  ASSUME Inv, NEW b \in Backends, Fail(b)
  PROVE  [Turn!TNext]_(Turn!tvars)
<1>1. UNCHANGED <<issued, kept>>
  BY DEF Fail
<1>2. UNCHANGED Expired
  BY <1>1 DEF Expired
<1>3. CASE Withdrawn(b)
  BY <1>1, <1>2, <1>3 DEF Withdrawn, Turn!tvars
<1>4. CASE /\ issued \in Attempts
           /\ db[Message].status = "generating" /\ db'[Message].status \in {"generating", "failed"}
           /\ db[Run(issued)] = "running" /\ db'[Run(issued)] = "failed"
           /\ \A n \in Attempts \ {issued} : db'[Run(n)] = db[Run(n)]
  <2>1. RunsStop(Attempts)
    BY <1>4 DEF RunsStop
  <2> QED
    BY <1>1, <1>4, <2>1, TurnStops
<1> QED
  BY <1>3, <1>4, FailStep

\* Where the rows stay as the owner sees them, the turn does.
LEMMA TurnStutters ==
  ASSUME UNCHANGED <<issued, kept>>, db'[Message].status = db[Message].status,
         \A n \in Attempts : db'[Run(n)] = db[Run(n)]
  PROVE  UNCHANGED Turn!tvars
BY DEF Expired, Turn!tvars

\* Every step of a call is one the owner was promised, or changes nothing for him.
LEMMA TurnStep == TimedInv /\ TimedInv' /\ [Next]_vars => [Turn!TNext]_(Turn!tvars)
<1> SUFFICES ASSUME TimedInv, TimedInv', [Next]_vars PROVE [Turn!TNext]_(Turn!tvars)
  OBVIOUS
<1>1. Inv /\ kept \in Int /\ (Expired => Expired')
  BY KeptStep DEF TimedInv
<1>2. CASE Tick
  <2>1. /\ db'[Message] = db[Message] /\ \A n \in Attempts : db'[Run(n)] = db[Run(n)]
        /\ UNCHANGED issued
    BY <1>1, <1>2, TickRows DEF Inv, Tick
  <2>2. [n \in Attempts |-> db'[Run(n)]] = [n \in Attempts |-> db[Run(n)]]
    BY <2>1
  <2> QED
    BY <1>1, <2>1, <2>2 DEF Turn!TNext, Turn!Pass
<1>3. ASSUME NEW b \in Backends, Step(b) PROVE [Turn!TNext]_(Turn!tvars)
  <2>1. CASE ReadStatement(b) \/ WriteStatement(b) \/ Select(b) \/ Lock(b)
    <3>1. UNCHANGED <<db, kept, issued>>
      BY <2>1 DEF ReadStatement, WriteStatement, Select, Lock
    <3> QED
      BY <3>1, TurnStutters
  <2>2. CASE Take(b)
    <3>1. UNCHANGED <<kept, issued>> /\ (UNCHANGED db \/ Commit(b, <<>>))
      BY <2>2 DEF Take, TakeIf
    <3> QED
      BY <1>1, <3>1, ClaimTurn, TurnStutters
  <2>3. CASE Start(b)
    BY <1>1, <2>3, StartTurn
  <2>4. CASE Beat(b)
    <3>1. UNCHANGED <<kept, issued>> /\ db'[Message] = db[Message]
          /\ \A n \in Attempts : db'[Run(n)] = db[Run(n)]
      BY <1>1, <2>4, BeatStep DEF Beat, Withdrawn
    <3> QED
      BY <3>1, TurnStutters
  <2>5. CASE Complete(b) \/ Fail(b)
    BY <1>1, <2>5, CompleteTurn, FailTurn
  <2>6. CASE Replay(b)
    <3>1. UNCHANGED <<kept, issued>>
      BY <2>6 DEF Replay
    <3> QED
      BY <1>1, <2>6, <3>1, ReplayStep, TurnStutters
  <2>7. CASE Reask(b)
    BY <1>1, <2>7, ReaskTurn
  <2> QED
    BY <1>3, <2>1, <2>2, <2>3, <2>4, <2>5, <2>6, <2>7 DEF Step
<1>4. ASSUME NEW b \in Backends, Begin(b) \/ Victim(b) \/ Lose(b) PROVE [Turn!TNext]_(Turn!tvars)
  <2>1. UNCHANGED <<db, kept, issued>>
    BY <1>4 DEF Begin, EnterClaim, Enter, Victim, Lose, Rollback
  <2> QED
    BY <2>1, TurnStutters
<1>5. CASE UNCHANGED vars
  BY <1>5, TurnStutters DEF vars
<1> QED
  BY <1>2, <1>3, <1>4, <1>5 DEF Next

\* However the statements mix, what they commit is what ConversationTurn
\* promises: attempts follow each other with nothing left running, only the last
\* one answers, an answer is final, and a failed question can be asked again.
THEOREM TurnImplemented == Spec => ImplementsTurn
<1>1. Init => Turn!TInit
  <2> SUFFICES ASSUME Init PROVE Turn!TInit
    OBVIOUS
  <2>1. /\ db[Message].status = "generating" /\ issued = 0
        /\ \A n \in Attempts : db[Run(n)] = "none"
    BY Distinct DEF Init
  <2>2. TRUE \in BOOLEAN /\ Expired \in BOOLEAN
    BY DEF Expired
  <2>3. [n \in Attempts |-> db[Run(n)]] = [n \in Attempts |-> "none"]
    BY <2>1
  <2> QED
    BY <2>1, <2>2, <2>3 DEF Turn!TInit
<1> QED
  BY <1>1, InitiallyTimed, TimedStep, TurnStep, PTL DEF Spec, ImplementsTurn, Turn!TSpec
=============================================================================
