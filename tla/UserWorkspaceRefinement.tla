----------------------- MODULE UserWorkspaceRefinement -----------------------
(* The queue, the sessions and the deadlines implement the owner's view.     *)
EXTENDS AnalysisQueue

\* The run of u that rpc_get_analysis_current_v2 reports as processing.
InProgress(u) ==
  {r \in OwnedBy(u) : \/ status[r] = "running"
                      \/ status[r] \in {"uploading", "queued"} /\ fresh[r]}

\* The session of u it reports as ready.
UnderReview(u) == {r \in OwnedBy(u) : session[r] = "active" /\ sessionFresh[r]}

CurrentView ==
  [u \in Users |->
     IF InProgress(u) # {}
     THEN [state |-> "processing", run |-> CHOOSE r \in InProgress(u) : TRUE]
     ELSE IF UnderReview(u) # {}
     THEN [state |-> "ready", run |-> CHOOSE r \in UnderReview(u) : TRUE]
     ELSE [state |-> "idle"]]

Over == {r \in Runs : status[r] \in {"succeeded", "failed", "cleanup_pending"}}

Workspace == INSTANCE UserWorkspace WITH view <- CurrentView, over <- Over

\* Whatever the uploads, workers, owners and deadlines do, each owner's view
\* moves only as UserWorkspace allows: never from one result to another, never
\* to the result of a run that was not in progress, never back to a run that
\* is over.
ImplementsWorkspace == Workspace!WSpec
==============================================================================
