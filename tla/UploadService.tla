---------------------------- MODULE UploadService ----------------------------
(***************************************************************************)
(* AnalysisRunService.create, run by any number of HTTP requests of one    *)
(* owner at once, between two stores that share no transaction: the        *)
(* analysis run in PostgreSQL and the source object in private Storage.    *)
(*                                                                         *)
(* Every call may be lost, take effect without its reply arriving, or take *)
(* effect after the caller has given up, and a request may die between any *)
(* two calls.  Of the database only what the service touches is kept here: *)
(* AnalysisQueue has the whole life of a run.  Whether a call is admitted  *)
(* to the global queue is left open.                                       *)
(***************************************************************************)
EXTENDS FiniteSets

CONSTANTS
  Requests,  \* the POST /analysis-runs requests of one owner
  Keys,      \* the Idempotency-Keys; each names a run and its Storage object
  Key        \* the key each request carries

ASSUME KeyAssumption == Key \in [Requests -> Keys]

VARIABLES
  status,     \* analysis_run.status; "claimed" and "over" follow "queued"
  fresh,      \* analysis_run.expires_at > now
  byExpiry,   \* error_code is UPLOAD_RESERVATION_EXPIRED
  object,     \* the deterministic Storage key holds the source
  write,      \* what became of the POST of each request
  erasing,    \* keys with a delete that was not acknowledged and may still land
  deleted,    \* history: keys with an acknowledged delete
  finalizing, \* requests whose finalization may still commit unnoticed
  pc,         \* where each request is
  found,      \* status of the record the reservation returned; "new" if inserted
  todo,       \* reserved objects the request still has to clean up
  gone,       \* the object it has just deleted, until the row is completed
  told        \* what the client has been answered

dbVars      == <<status, fresh, byExpiry>>
storageVars == <<object, write, erasing, deleted>>
localVars   == <<pc, found, todo, gone, told>>
vars        == <<dbVars, storageVars, finalizing, localVars>>

RunStatus == {"absent", "uploading", "queued", "claimed", "over", "cleanup_pending", "failed"}
Places    == {"start", "confirm", "cleanup", "put", "putting", "verify",
              "finalize", "read_back", "mark", "done"}

\* Every run, object and request is in one of the states the code names, and a
\* run whose reservation expired never leaves the way to its cleanup.
TypeOK ==
  /\ status     \in [Keys -> RunStatus]
  /\ fresh      \in [Keys -> BOOLEAN]
  /\ byExpiry   \in [Keys -> BOOLEAN]
  /\ object     \in [Keys -> BOOLEAN]
  /\ write      \in [Requests -> {"none", "flying", "stored", "refused", "settled"}]
  /\ erasing    \subseteq Keys
  /\ deleted    \subseteq Keys
  /\ finalizing \subseteq Requests
  /\ pc         \in [Requests -> Places]
  /\ found      \in [Requests -> RunStatus \cup {"new"}]
  /\ todo       \in [Requests -> SUBSET Keys]
  /\ gone       \in [Requests -> SUBSET Keys]
  /\ told       \in [Requests -> {"nothing", "accepted", "condemned", "error"}]
  /\ \A k \in Keys : byExpiry[k] => status[k] \in {"cleanup_pending", "failed"}

Init ==
  /\ status     = [k \in Keys |-> "absent"]
  /\ fresh      = [k \in Keys |-> FALSE]
  /\ byExpiry   = [k \in Keys |-> FALSE]
  /\ object     = [k \in Keys |-> FALSE]
  /\ write      = [q \in Requests |-> "none"]
  /\ erasing    = {}
  /\ deleted    = {}
  /\ finalizing = {}
  /\ pc         = [q \in Requests |-> "start"]
  /\ found      = [q \in Requests |-> "absent"]
  /\ todo       = [q \in Requests |-> {}]
  /\ gone       = [q \in Requests |-> {}]
  /\ told       = [q \in Requests |-> "nothing"]

-----------------------------------------------------------------------------
Active(k) == status[k] \in {"uploading", "queued", "claimed"}

Go(q, place) == pc' = [pc EXCEPT ![q] = place]

\* The request ends and forgets what it had read.
Ends(q) ==
  /\ Go(q, "done")
  /\ found' = [found EXCEPT ![q] = "absent"]
  /\ todo'  = [todo EXCEPT ![q] = {}]
  /\ gone'  = [gone EXCEPT ![q] = {}]

\* It ends with an answer.
Answer(q, answer) == Ends(q) /\ told' = [told EXCEPT ![q] = answer]

\* It goes on without a change to what it has read.
GoesOn(q, place) == Go(q, place) /\ UNCHANGED <<found, todo, gone, told>>

\* It turns to the cleanup of its own object.
CleansUp(q) ==
  /\ todo' = [todo EXCEPT ![q] = {Key[q]}]
  /\ Go(q, "cleanup")
  /\ UNCHANGED <<found, gone, told>>

-----------------------------------------------------------------------------
(***************************************************************************)
(* Slips that the properties below must catch; no part of Spec.            *)
(***************************************************************************)

\* AfterDelete that completes the cleanup whatever Storage answered.
AfterDeleteAnyway(q, k, acknowledged) == gone' = [gone EXCEPT ![q] = {k}]

\* Commits whose expiry branch goes on to register the source after all.
CommitsAnyway(k) ==
  /\ status[k] = "uploading"
  /\ status'   = [status EXCEPT ![k] = "queued"]
  /\ byExpiry' = [byExpiry EXCEPT ![k] = ~fresh[k]]
  /\ UNCHANGED fresh

\* Proves that trusts a run which is still uploading to be finalized later.
ProvesUploading(k) == status[k] \in {"queued", "uploading"}

\* AfterMark that deletes the object though the fence was not acquired.
AfterMarkAnyway(q, acquired) == CleansUp(q)

-----------------------------------------------------------------------------
\* The place a request goes to once its reservation is read.
AfterReservation(q, record, stale) ==
  /\ found' = [found EXCEPT ![q] = record]
  /\ todo'  = [todo EXCEPT ![q] = stale]
  /\ Go(q, "cleanup")
  /\ UNCHANGED <<gone, told>>

\* The conditional update of mark_upload_cleanup_pending: only an uploading run
\* is condemned, so that no queued source is ever deleted.
Condemns(k) ==
  /\ status[k] = "uploading"
  /\ status' = [status EXCEPT ![k] = "cleanup_pending"]
  /\ UNCHANGED <<fresh, byExpiry>>

\* The transaction of finalize_analysis_upload_v2 commits for key k: the source
\* is registered, or a lapsed reservation without a slot is condemned.
Commits(k) ==
  \/ /\ status[k] = "queued"
     /\ UNCHANGED dbVars
  \/ /\ status[k] = "uploading"
     /\ status' = [status EXCEPT ![k] = "queued"]
     /\ UNCHANGED <<fresh, byExpiry>>
  \/ /\ status[k] = "uploading" /\ ~fresh[k]
     /\ status'   = [status EXCEPT ![k] = "cleanup_pending"]
     /\ byExpiry' = [byExpiry EXCEPT ![k] = TRUE]
     /\ UNCHANGED fresh

\* The read-back proves that finalization took place.
Proves(k) == status[k] = "queued"

-----------------------------------------------------------------------------
(***************************************************************************)
(* Reservation.                                                            *)
(***************************************************************************)

\* The transaction of reserve_analysis_upload_v2 inserts the run, having
\* condemned the owner's lapsed uploads; stale is what it returns to delete.
Inserts(k, stale) ==
  LET lapsed == {j \in Keys : status[j] = "uploading" /\ ~fresh[j]}
  IN  /\ status[k] = "absent"
      /\ \A j \in Keys \ lapsed : ~Active(j)
      /\ stale = lapsed \cup {j \in Keys : status[j] = "cleanup_pending"}
      /\ status' = [j \in Keys |-> IF j = k THEN "uploading"
                                   ELSE IF j \in lapsed THEN "cleanup_pending" ELSE status[j]]
      /\ fresh'    = [fresh EXCEPT ![k] = TRUE]
      /\ byExpiry' = [j \in Keys |-> byExpiry[j] \/ j \in lapsed]

\* ... or renews a reservation that is replayed, or just reports the run.
Replays(k, stale) ==
  /\ status[k] # "absent"
  /\ stale = {j \in {k} : status[j] = "cleanup_pending"}
  /\ fresh' = [fresh EXCEPT ![k] = @ \/ status[k] = "uploading"]
  /\ UNCHANGED <<status, byExpiry>>

\* The reservation commits and its reply arrives.
Reserve(q) ==
  /\ pc[q] = "start"
  /\ \E stale \in SUBSET Keys :
       \/ Inserts(Key[q], stale) /\ AfterReservation(q, "new", stale)
       \/ Replays(Key[q], stale) /\ AfterReservation(q, status[Key[q]], stale)
  /\ UNCHANGED <<storageVars, finalizing>>

\* The call is refused, or its outcome is not known to the request.
ReserveUnanswered(q) ==
  /\ pc[q] = "start"
  /\ \/ /\ \/ \E stale \in SUBSET Keys : Inserts(Key[q], stale) \/ Replays(Key[q], stale)
           \/ UNCHANGED dbVars
        /\ GoesOn(q, "confirm")
     \/ Answer(q, "error") /\ UNCHANGED dbVars
  /\ UNCHANGED <<storageVars, finalizing>>

\* It goes on with the row it reads back, without the objects it had to clean
\* up, or ends when it sees none.
ConfirmReservation(q) ==
  /\ pc[q] = "confirm"
  /\ \/ status[Key[q]] # "absent" /\ AfterReservation(q, status[Key[q]], {})
     \/ Answer(q, "error")
  /\ UNCHANGED <<dbVars, storageVars, finalizing>>

-----------------------------------------------------------------------------
(***************************************************************************)
(* Cleanup of reserved objects: a delete, then the row; and the answer of  *)
(* a request that has nothing left to clean up.                            *)
(***************************************************************************)

\* Only an acknowledged delete is followed by complete_upload_cleanup.
AfterDelete(q, k, acknowledged) ==
  gone' = [gone EXCEPT ![q] = IF acknowledged THEN {k} ELSE {}]

\* _cleanup_reserved_object: Storage deletes the object, or the request cannot
\* tell and leaves the row to a later one.
Delete(q, k) ==
  /\ pc[q] = "cleanup" /\ k \in todo[q] /\ gone[q] = {}
  /\ todo' = [todo EXCEPT ![q] = @ \ {k}]
  /\ \/ /\ object'  = [object EXCEPT ![k] = FALSE]
        /\ deleted' = deleted \cup {k}
        /\ AfterDelete(q, k, TRUE)
        /\ UNCHANGED erasing
     \/ /\ erasing' = erasing \cup {k}
        /\ AfterDelete(q, k, FALSE)
        /\ UNCHANGED <<object, deleted>>
  /\ UNCHANGED <<dbVars, write, finalizing, pc, found, told>>

\* complete_upload_cleanup of the deleted object; it may fail.
CompleteCleanup(q, k) ==
  /\ pc[q] = "cleanup" /\ k \in gone[q]
  /\ \/ /\ status[k] = "cleanup_pending"
        /\ status' = [status EXCEPT ![k] = "failed"]
     \/ UNCHANGED status
  /\ gone' = [gone EXCEPT ![q] = {}]
  /\ UNCHANGED <<fresh, byExpiry, storageVars, finalizing, pc, found, todo, told>>

\* The cleanup is over: a replayed record that is not uploading is returned,
\* refreshed if it was condemned; an own upload goes on; after a finalization
\* that failed the error is raised.
AfterCleanup(q) ==
  /\ pc[q] = "cleanup" /\ todo[q] = {} /\ gone[q] = {}
  /\ \/ found[q] \in {"new", "uploading"} /\ write[q] = "none" /\ GoesOn(q, "put")
     \/ found[q] \in {"new", "uploading"} /\ write[q] # "none" /\ Answer(q, "error")
     \/ found[q] \in {"queued", "claimed", "over"} /\ Answer(q, "accepted")
     \/ found[q] \in {"cleanup_pending", "failed"} /\ Answer(q, "condemned")
     \/ found[q] = "cleanup_pending" /\ Answer(q, "error")
  /\ UNCHANGED <<dbVars, storageVars, finalizing>>

-----------------------------------------------------------------------------
(***************************************************************************)
(* The upload.                                                             *)
(***************************************************************************)

\* SupabasePrivateObjectStorage.put sends its POST, with x-upsert false.
Put(q) ==
  /\ pc[q] = "put"
  /\ write' = [write EXCEPT ![q] = "flying"]
  /\ GoesOn(q, "putting")
  /\ UNCHANGED <<dbVars, object, erasing, deleted, finalizing>>

\* The POST takes effect, sooner or later, or never does.  Only a reply that is
\* still awaited tells stored and refused from the ambiguous outcomes.
WriteLands(q) ==
  /\ write[q] = "flying"
  /\ write'  = [write EXCEPT ![q] = IF pc[q] # "putting" \/ object[Key[q]]
                                    THEN "settled" ELSE "stored"]
  /\ object' = [object EXCEPT ![Key[q]] = TRUE]
  /\ UNCHANGED <<dbVars, erasing, deleted, finalizing, localVars>>

WriteFails(q) ==
  /\ write[q] = "flying"
  /\ \/ write' = [write EXCEPT ![q] = "settled"]
     \/ pc[q] = "putting" /\ write' = [write EXCEPT ![q] = "refused"]
  /\ UNCHANGED <<dbVars, object, erasing, deleted, finalizing, localVars>>

\* The reply to the POST: stored, refused, or ambiguous (a transport error, a
\* 5xx, a timeout or a duplicate), which calls for a read of the object.
PutReturns(q) ==
  /\ pc[q] = "putting"
  /\ \/ write[q] = "stored"  /\ GoesOn(q, "finalize")
     \/ write[q] = "refused" /\ GoesOn(q, "mark")
     \/ GoesOn(q, "verify")
  /\ UNCHANGED <<dbVars, storageVars, finalizing>>

\* _accept_exact_existing_after_ambiguous_write: the key names the digest, so an
\* object that is there is the right one; otherwise nothing is undone.
Verify(q) ==
  /\ pc[q] = "verify"
  /\ \/ object[Key[q]] /\ GoesOn(q, "finalize")
     \/ Answer(q, "error")
  /\ UNCHANGED <<dbVars, storageVars, finalizing>>

-----------------------------------------------------------------------------
(***************************************************************************)
(* Finalization.                                                           *)
(***************************************************************************)

\* finalize_analysis_upload_v2 commits and its reply arrives.
Finalize(q) ==
  LET k == Key[q]
  IN  /\ pc[q] = "finalize"
      /\ Commits(k)
      /\ \/ status'[k] = "queued" /\ Answer(q, "accepted")
         \/ status'[k] = "cleanup_pending" /\ CleansUp(q)
      /\ UNCHANGED <<storageVars, finalizing>>

\* It raises, is lost, commits without its reply, or is still running on the
\* server when the connection breaks.
FinalizeUnanswered(q) ==
  /\ pc[q] = "finalize"
  /\ \/ Commits(Key[q]) /\ UNCHANGED finalizing
     \/ UNCHANGED <<dbVars, finalizing>>
     \/ finalizing' = finalizing \cup {q} /\ UNCHANGED dbVars
  /\ GoesOn(q, "read_back")
  /\ UNCHANGED storageVars

LateFinalize(q) ==
  /\ q \in finalizing
  /\ finalizing' = finalizing \ {q}
  /\ Commits(Key[q]) \/ UNCHANGED dbVars
  /\ UNCHANGED <<storageVars, localVars>>

\* The read-back of finalize_queued: proven, proven not to have committed,
\* condemned by expiry, or uncertain.
ReadBack(q) ==
  LET k == Key[q]
  IN  /\ pc[q] = "read_back"
      /\ \/ Proves(k) /\ Answer(q, "accepted")
         \/ status[k] = "uploading" /\ GoesOn(q, "mark")
         \/ status[k] = "cleanup_pending" /\ byExpiry[k] /\ CleansUp(q)
         \/ Answer(q, "error")
      /\ UNCHANGED <<dbVars, storageVars, finalizing>>

\* Without the fence the object is left alone.
AfterMark(q, acquired) == IF acquired THEN CleansUp(q) ELSE Answer(q, "error")

\* mark_upload_cleanup_pending: the fence is acquired, or it is not (the run is
\* not uploading, or the call failed).
Mark(q) ==
  LET k == Key[q]
  IN  /\ pc[q] = "mark"
      /\ \/ Condemns(k) /\ AfterMark(q, TRUE)
         \/ (Condemns(k) \/ UNCHANGED dbVars) /\ AfterMark(q, FALSE)
      /\ UNCHANGED <<storageVars, finalizing>>

-----------------------------------------------------------------------------
\* The process that serves the request dies.
Crash(q) ==
  /\ pc[q] # "done"
  /\ Ends(q)
  /\ UNCHANGED <<dbVars, storageVars, finalizing, told>>

\* An unacknowledged delete lands.
EraseLands(k) ==
  /\ k \in erasing
  /\ object'  = [object EXCEPT ![k] = FALSE]
  /\ erasing' = erasing \ {k}
  /\ UNCHANGED <<dbVars, write, deleted, finalizing, localVars>>

\* The reservation passes its deadline.
ExpireUpload(k) ==
  /\ status[k] = "uploading" /\ fresh[k]
  /\ fresh' = [fresh EXCEPT ![k] = FALSE]
  /\ UNCHANGED <<status, byExpiry, storageVars, finalizing, localVars>>

\* A queued run is claimed, requeued, or ends.
RunMoves(k) ==
  /\ status[k] \in {"queued", "claimed"}
  /\ \E next \in {"queued", "claimed", "over"} \ {status[k]} :
       status' = [status EXCEPT ![k] = next]
  /\ UNCHANGED <<fresh, byExpiry, storageVars, finalizing, localVars>>

Next ==
  \/ \E q \in Requests :
       \/ Reserve(q) \/ ReserveUnanswered(q) \/ ConfirmReservation(q)
       \/ \E k \in Keys : Delete(q, k) \/ CompleteCleanup(q, k)
       \/ AfterCleanup(q)
       \/ Put(q) \/ WriteLands(q) \/ WriteFails(q) \/ PutReturns(q) \/ Verify(q)
       \/ Finalize(q) \/ FinalizeUnanswered(q) \/ LateFinalize(q) \/ ReadBack(q)
       \/ Mark(q) \/ Crash(q)
  \/ \E k \in Keys : EraseLands(k) \/ ExpireUpload(k) \/ RunMoves(k)

Spec == Init /\ [][Next]_vars

-----------------------------------------------------------------------------
\* A run that a worker may be reading has its source: no compensating delete,
\* however late, hits the object of a run whose finalization has committed.
SourceAvailable ==
  \A k \in Keys : status[k] \in {"queued", "claimed"} => object[k] /\ k \notin erasing

\* An answer is never contradicted by the database: a client that was told its
\* run is registered, or condemned, is right for ever.
AnswersAreTrue ==
  \A q \in Requests :
    /\ told[q] = "accepted"  => status[Key[q]] \in {"queued", "claimed", "over"}
    /\ told[q] = "condemned" => status[Key[q]] \in {"cleanup_pending", "failed"}

\* A run leaves cleanup only after Storage has acknowledged a delete of its
\* object, so a failed delete is never forgotten.
CleanupAfterDelete ==
  [][\A k \in Keys : status[k] = "cleanup_pending" /\ status'[k] # "cleanup_pending"
                       => status'[k] = "failed" /\ k \in deleted]_vars
==============================================================================
