--------------------------- MODULE ConversationTurn ---------------------------
(***************************************************************************)
(* What the result chat promises about one question, to the owner who      *)
(* waits for its answer and to whoever reads the records of its attempts.  *)
(*                                                                         *)
(* ChatQueue implements it with one step per function of the database,     *)
(* ChatTransactions with the statements of these functions mixed.          *)
(***************************************************************************)
EXTENDS Naturals

CONSTANT Attempts  \* the attempts a turn may need, numbered from 1

VARIABLES
  status,      \* what the owner is shown
  started,     \* how many attempts were started
  processing,  \* what is recorded of each of them
  open,        \* the owner's session accepts questions and retries
  expired      \* the case is past its retention

tvars == <<status, started, processing, open, expired>>

TInit ==
  /\ status \in {"absent", "generating"}
  /\ started = 0
  /\ processing = [n \in Attempts |-> "none"]
  /\ open \in BOOLEAN /\ expired \in BOOLEAN

Running    == {n \in Attempts : processing[n] = "running"}
Stopped(S) == [n \in Attempts |-> IF n \in S THEN "failed" ELSE processing[n]]

\* Where one attempt takes over from another, or none does, nothing is left
\* running; only when the case is past its retention a record may stay behind.
Cleared == IF expired THEN SUBSET Running ELSE {Running}

Ask ==
  /\ status = "absent" /\ open
  /\ status' = "generating"
  /\ UNCHANGED <<started, processing>>

\* The owner asks for a failed answer again.
Retry ==
  /\ status = "failed" /\ open
  /\ status' = "generating"
  /\ \E S \in Cleared : processing' = Stopped(S)
  /\ UNCHANGED started

Begin ==
  /\ status = "generating"
  /\ started + 1 \in Attempts
  /\ started' = started + 1
  /\ \E S \in Cleared : processing' = [Stopped(S) EXCEPT ![started + 1] = "running"]
  /\ UNCHANGED status

\* The answer of the last attempt is shown and is final.
Answer ==
  /\ status = "generating"
  /\ started \in Running
  /\ processing' = [processing EXCEPT ![started] = "succeeded"]
  /\ status' = "completed"
  /\ UNCHANGED started

\* What still runs can no longer answer.
GiveUp ==
  /\ status = "generating"
  /\ status' = "failed"
  /\ \E S \in SUBSET Running : processing' = Stopped(S)
  /\ UNCHANGED started

\* Attempts fail, and the turn goes on or had failed before.
Stop ==
  /\ \E S \in SUBSET Running : processing' = Stopped(S)
  /\ UNCHANGED <<status, started>>

\* The deadlines of the owner's session and of the case pass.
Pass ==
  /\ open' => open
  /\ expired => expired'
  /\ UNCHANGED <<status, started, processing>>

TNext ==
  \/ (Ask \/ Retry \/ Begin \/ Answer \/ GiveUp \/ Stop) /\ UNCHANGED <<open, expired>>
  \/ Pass

TSpec == TInit /\ [][TNext]_tvars
===============================================================================
