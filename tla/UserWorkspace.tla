---------------------------- MODULE UserWorkspace ----------------------------
(***************************************************************************)
(* What the service promises one owner, as rpc_get_analysis_current_v2     *)
(* shows it: at any moment the owner is idle, waits for one analysis, or   *)
(* reviews one result.  A result appears only from the analysis the owner  *)
(* was waiting for, a review ends before the next analysis begins, and a   *)
(* run that is over never comes back.                                      *)
(***************************************************************************)
CONSTANTS Runs, Users, Owner

VARIABLES
  view,   \* view[u]: what the owner is shown
  over    \* the runs that have been published, have failed or are condemned

wvars == <<view, over>>

Idle          == [state |-> "idle"]
Processing(r) == [state |-> "processing", run |-> r]
Reviewing(r)  == [state |-> "ready", run |-> r]

WInit ==
  /\ view = [u \in Users |-> Idle]
  /\ over = {}

\* An analysis begins (or a lapsed upload resumes) while nothing is under
\* review.  The owner's other runs that are given up for it are over for good,
\* among them the one that is still shown, if any.
Begin(u, r, done) ==
  /\ Owner[r] = u
  /\ r \notin over \cup done
  /\ \A q \in done : Owner[q] = u
  /\ \/ view[u] = Idle
     \/ view[u].state = "processing" /\ view[u].run \in done
  /\ view' = [view EXCEPT ![u] = Processing(r)]
  /\ over' = over \cup done

\* The analysis that is shown is published and its review opens.
Publish(u) ==
  /\ view[u].state = "processing"
  /\ view' = [view EXCEPT ![u] = Reviewing(view[u].run)]
  /\ over' = over \cup {view[u].run}

\* Analyses that are shown stop, for good or until the upload is resumed, and
\* runs that are not shown are given up.  One poll of a worker may settle the
\* runs of several owners.
Stop(stopped, done) ==
  /\ \A u \in stopped : view[u].state = "processing"
  /\ \A u \in Users \ stopped :
       view[u].state = "processing" => view[u].run \notin done
  /\ view' = [u \in Users |-> IF u \in stopped THEN Idle ELSE view[u]]
  /\ over' = over \cup done

\* The review is closed or its time is up.
Leave(u) ==
  /\ view[u].state = "ready"
  /\ view' = [view EXCEPT ![u] = Idle]
  /\ UNCHANGED over

WNext ==
  \/ \E u \in Users : Publish(u) \/ Leave(u)
  \/ \E done \in SUBSET Runs :
       \/ \E u \in Users, r \in Runs : Begin(u, r, done)
       \/ \E stopped \in SUBSET Users : Stop(stopped, done)

WSpec == WInit /\ [][WNext]_wvars
==============================================================================
