------------------------- MODULE UploadServiceProofs -------------------------
(* Proofs, for every set of requests and keys, of the safety properties of   *)
(* UploadService.                                                            *)
EXTENDS UploadService, TLAPS

-----------------------------------------------------------------------------
(***************************************************************************)
(* The inductive invariant.  A run is open, then either registered or      *)
(* condemned for ever, and whoever deletes an object knows that its run is *)
(* condemned.                                                              *)
(***************************************************************************)
Registered(k) == status[k] \in {"queued", "claimed", "over"}
Condemned(k)  == status[k] \in {"cleanup_pending", "failed"}

\* Every delete, made, owed or still on its way, is of a condemned object.
DeletesAreOwed ==
  /\ \A k \in erasing : Condemned(k)
  /\ \A q \in Requests : /\ \A k \in todo[q] : Condemned(k)
                         /\ \A k \in gone[q] : Condemned(k) /\ k \in deleted

\* A request finalizes only after it knows the object to be in Storage.
Secured(q) == object[Key[q]] \/ Condemned(Key[q])
FinalizesSource ==
  \A q \in Requests :
    write[q] = "stored" \/ pc[q] = "finalize" \/ q \in finalizing => Secured(q)

\* What a request has read of its run is true for as long as it matters.
ReadsAreTrue ==
  \A q \in Requests :
    /\ found[q] \in {"queued", "claimed", "over"} => Registered(Key[q])
    /\ found[q] \in {"cleanup_pending", "failed"} => Condemned(Key[q])

Inv == /\ TypeOK /\ SourceAvailable /\ AnswersAreTrue
       /\ DeletesAreOwed /\ FinalizesSource /\ ReadsAreTrue

-----------------------------------------------------------------------------
(***************************************************************************)
(* How runs move.                                                          *)
(***************************************************************************)

\* The changes of a run's status.  Only a finalization registers it, and only
\* the completion of a delete ends its cleanup.
Moves(k) ==
  \/ status'[k] = status[k]
  \/ status[k] = "absent" /\ status'[k] = "uploading"
  \/ status[k] = "uploading" /\ status'[k] = "cleanup_pending"
  \/ /\ status[k] = "uploading" /\ status'[k] = "queued"
     /\ \E q \in Requests : Key[q] = k /\ (pc[q] = "finalize" \/ q \in finalizing)
  \/ /\ status[k] = "cleanup_pending" /\ status'[k] = "failed"
     /\ \E q \in Requests : k \in gone[q]
  \/ status[k] \in {"queued", "claimed"} /\ status'[k] \in {"queued", "claimed", "over"}

\* Every step moves a run in one of these ways.
LEMMA StatusMoves ==
  ASSUME TypeOK, [Next]_vars, NEW k \in Keys PROVE Moves(k)
<1> USE KeyAssumption DEF Moves
<1>1. ASSUME NEW q \in Requests,
             Reserve(q) \/ ReserveUnanswered(q) \/ ConfirmReservation(q)
      PROVE  Moves(k)
  <2>1. \/ UNCHANGED status
        \/ \E stale \in SUBSET Keys : Inserts(Key[q], stale)
    BY <1>1 DEF Reserve, ReserveUnanswered, ConfirmReservation, Replays, dbVars
  <2>2. QED
    BY <2>1 DEF Inserts, TypeOK
<1>2. ASSUME NEW q \in Requests, Mark(q) PROVE Moves(k)
  <2>1. Condemns(Key[q]) \/ UNCHANGED status
    BY <1>2 DEF Mark, dbVars
  <2>2. QED
    BY <2>1 DEF Condemns, TypeOK
<1>3. ASSUME NEW q \in Requests, Finalize(q) \/ FinalizeUnanswered(q) \/ LateFinalize(q)
      PROVE  Moves(k)
  <2>1. /\ Commits(Key[q]) \/ UNCHANGED status
        /\ pc[q] = "finalize" \/ q \in finalizing
    BY <1>3 DEF Finalize, FinalizeUnanswered, LateFinalize, dbVars
  <2>2. QED
    BY <2>1 DEF Commits, dbVars, TypeOK
<1>4. ASSUME NEW q \in Requests, NEW j \in Keys, CompleteCleanup(q, j) PROVE Moves(k)
  BY <1>4 DEF CompleteCleanup, TypeOK
<1>5. ASSUME NEW q \in Requests,
             \/ \E j \in Keys : Delete(q, j)
             \/ AfterCleanup(q) \/ Put(q) \/ WriteLands(q) \/ WriteFails(q)
             \/ PutReturns(q) \/ Verify(q) \/ ReadBack(q) \/ Crash(q)
      PROVE  Moves(k)
  BY <1>5 DEF Delete, AfterCleanup, Put, WriteLands, WriteFails, PutReturns, Verify, ReadBack,
              Crash, dbVars
<1>6. ASSUME NEW j \in Keys, EraseLands(j) \/ ExpireUpload(j) \/ RunMoves(j) PROVE Moves(k)
  BY <1>6 DEF EraseLands, ExpireUpload, RunMoves, dbVars, TypeOK
<1>7. CASE UNCHANGED vars
  BY <1>7 DEF vars, dbVars
<1>8. QED
  BY <1>1, <1>2, <1>3, <1>4, <1>5, <1>6, <1>7 DEF Next

\* A registered run stays registered, and a condemned one condemned.
LEMMA VerdictsStand ==
  ASSUME TypeOK, [Next]_vars, NEW k \in Keys
  PROVE  /\ Registered(k) => Registered(k)'
         /\ Condemned(k) => Condemned(k)'
BY StatusMoves DEF Moves, Registered, Condemned

\* An object that is there stays, unless its run is condemned.
LEMMA ObjectStays ==
  ASSUME TypeOK, DeletesAreOwed, [Next]_vars, NEW k \in Keys, object[k], ~object'[k]
  PROVE  Condemned(k)
<1>1. ASSUME NEW q \in Requests, NEW j \in Keys, Delete(q, j) PROVE Condemned(k)
  <2>1. object'[k] = object[k] \/ k \in todo[q]
    BY <1>1 DEF Delete, TypeOK
  <2>2. QED
    BY <2>1 DEF DeletesAreOwed
<1>2. ASSUME NEW j \in Keys, EraseLands(j) PROVE Condemned(k)
  <2>1. object'[k] = object[k] \/ k \in erasing
    BY <1>2 DEF EraseLands, TypeOK
  <2>2. QED
    BY <2>1 DEF DeletesAreOwed
<1>3. ASSUME NEW q \in Requests, WriteLands(q) PROVE Condemned(k)
  BY <1>3 DEF WriteLands, TypeOK
<1>4. ASSUME NEW q \in Requests,
             \/ Reserve(q) \/ ReserveUnanswered(q) \/ ConfirmReservation(q)
             \/ \E j \in Keys : CompleteCleanup(q, j)
             \/ AfterCleanup(q) \/ Put(q) \/ WriteFails(q) \/ PutReturns(q) \/ Verify(q)
             \/ Finalize(q) \/ FinalizeUnanswered(q) \/ LateFinalize(q) \/ ReadBack(q)
             \/ Mark(q) \/ Crash(q)
      PROVE  Condemned(k)
  BY <1>4 DEF Reserve, ReserveUnanswered, ConfirmReservation, CompleteCleanup, AfterCleanup,
              Put, WriteFails, PutReturns, Verify, Finalize, FinalizeUnanswered, LateFinalize,
              ReadBack, Mark, Crash, storageVars
<1>5. ASSUME NEW j \in Keys, ExpireUpload(j) \/ RunMoves(j) PROVE Condemned(k)
  BY <1>5 DEF ExpireUpload, RunMoves, storageVars
<1>6. CASE UNCHANGED vars
  BY <1>6 DEF vars, storageVars
<1>7. QED
  BY <1>1, <1>2, <1>3, <1>4, <1>5, <1>6 DEF Next

-----------------------------------------------------------------------------
(***************************************************************************)
(* Types.                                                                  *)
(***************************************************************************)
DbType    == /\ status   \in [Keys -> RunStatus]
             /\ fresh    \in [Keys -> BOOLEAN]
             /\ byExpiry \in [Keys -> BOOLEAN]
             /\ \A k \in Keys : byExpiry[k] => status[k] \in {"cleanup_pending", "failed"}
LocalType == /\ pc       \in [Requests -> Places]
             /\ found    \in [Requests -> RunStatus \cup {"new"}]
             /\ todo     \in [Requests -> SUBSET Keys]
             /\ gone     \in [Requests -> SUBSET Keys]
             /\ told     \in [Requests -> {"nothing", "accepted", "condemned", "error"}]

\* The ways a transaction changes the database.
LEMMA DbTyped ==
  ASSUME TypeOK, NEW k \in Keys,
         \/ \E stale \in SUBSET Keys : Inserts(k, stale) \/ Replays(k, stale)
         \/ Commits(k) \/ Condemns(k) \/ UNCHANGED dbVars
  PROVE  DbType'
<1> USE DEF TypeOK, DbType, RunStatus
<1>1. ASSUME NEW stale \in SUBSET Keys, Inserts(k, stale) PROVE DbType'
  BY <1>1 DEF Inserts
<1>2. ASSUME NEW stale \in SUBSET Keys, Replays(k, stale) PROVE DbType'
  BY <1>2 DEF Replays
<1>3. CASE Commits(k)
  <2>1. CASE UNCHANGED dbVars
    BY <2>1 DEF dbVars
  <2>2. CASE /\ status[k] = "uploading" /\ status' = [status EXCEPT ![k] = "queued"]
             /\ UNCHANGED <<fresh, byExpiry>>
    BY <2>2
  <2>3. CASE /\ status' = [status EXCEPT ![k] = "cleanup_pending"]
             /\ byExpiry' = [byExpiry EXCEPT ![k] = TRUE]
             /\ UNCHANGED fresh
    BY <2>3
  <2>4. QED
    BY <1>3, <2>1, <2>2, <2>3 DEF Commits
<1>4. CASE Condemns(k)
  BY <1>4 DEF Condemns
<1>5. CASE UNCHANGED dbVars
  BY <1>5 DEF dbVars
<1>6. QED
  BY <1>1, <1>2, <1>3, <1>4, <1>5

\* The ways a request goes on.
LEMMA LocalTyped ==
  ASSUME TypeOK, NEW q \in Requests, Key[q] \in Keys,
         \/ \E a \in {"accepted", "condemned", "error"} : Answer(q, a)
         \/ \E place \in Places : GoesOn(q, place)
         \/ \E record \in RunStatus \cup {"new"}, stale \in SUBSET Keys :
              AfterReservation(q, record, stale)
         \/ CleansUp(q) \/ UNCHANGED localVars
  PROVE  LocalType'
<1> USE DEF TypeOK, LocalType, Places, Go
<1>1. ASSUME NEW a \in {"accepted", "condemned", "error"}, Answer(q, a) PROVE LocalType'
  BY <1>1 DEF Answer, Ends, RunStatus
<1>2. ASSUME NEW place \in Places, GoesOn(q, place) PROVE LocalType'
  BY <1>2 DEF GoesOn
<1>3. ASSUME NEW record \in RunStatus \cup {"new"}, NEW stale \in SUBSET Keys,
             AfterReservation(q, record, stale)
      PROVE  LocalType'
  BY <1>3 DEF AfterReservation
<1>4. CASE CleansUp(q)
  BY <1>4 DEF CleansUp
<1>5. CASE UNCHANGED localVars
  BY <1>5 DEF localVars
<1>6. QED
  BY <1>1, <1>2, <1>3, <1>4, <1>5

\* Every step keeps each variable in its type.
LEMMA TypeStep == TypeOK /\ [Next]_vars => TypeOK'
<1> SUFFICES ASSUME TypeOK, [Next]_vars PROVE TypeOK'
  OBVIOUS
<1> USE KeyAssumption
<1>1. ASSUME DbType', LocalType', UNCHANGED storageVars,
             finalizing' \subseteq Requests
      PROVE  TypeOK'
  BY <1>1 DEF TypeOK, DbType, LocalType, storageVars
<1>2. ASSUME NEW q \in Requests, Reserve(q) PROVE TypeOK'
  <2>1. \E stale \in SUBSET Keys : Inserts(Key[q], stale) \/ Replays(Key[q], stale)
    BY <1>2 DEF Reserve
  <2>2. \E record \in RunStatus \cup {"new"}, stale \in SUBSET Keys :
          AfterReservation(q, record, stale)
    BY <1>2 DEF Reserve, TypeOK
  <2>3. QED
    BY <1>1, <1>2, <2>1, <2>2, DbTyped, LocalTyped DEF Reserve, TypeOK
<1>3. ASSUME NEW q \in Requests, ReserveUnanswered(q) PROVE TypeOK'
  BY <1>1, <1>3, DbTyped, LocalTyped DEF ReserveUnanswered, Places, TypeOK
<1>4. ASSUME NEW q \in Requests, ConfirmReservation(q) PROVE TypeOK'
  <2>1. \/ \E record \in RunStatus \cup {"new"}, stale \in SUBSET Keys :
             AfterReservation(q, record, stale)
        \/ Answer(q, "error")
    BY <1>4 DEF ConfirmReservation, TypeOK
  <2>2. QED
    BY <1>1, <1>4, <2>1, DbTyped, LocalTyped DEF ConfirmReservation, TypeOK
<1>5. ASSUME NEW q \in Requests, NEW k \in Keys, Delete(q, k) PROVE TypeOK'
  <2>1. /\ object' \in [Keys -> BOOLEAN]
        /\ deleted' \subseteq Keys /\ erasing' \subseteq Keys
    BY <1>5 DEF Delete, TypeOK
  <2>2. todo' \in [Requests -> SUBSET Keys] /\ gone' \in [Requests -> SUBSET Keys]
    BY <1>5 DEF Delete, AfterDelete, TypeOK
  <2>3. UNCHANGED <<dbVars, write, finalizing, pc, found, told>>
    BY <1>5 DEF Delete
  <2>4. QED
    BY <2>1, <2>2, <2>3 DEF dbVars, TypeOK
<1>6. ASSUME NEW q \in Requests, NEW k \in Keys, CompleteCleanup(q, k) PROVE TypeOK'
  BY <1>6 DEF CompleteCleanup, storageVars, RunStatus, TypeOK
<1>7. ASSUME NEW q \in Requests, AfterCleanup(q) PROVE TypeOK'
  BY <1>1, <1>7, DbTyped, LocalTyped DEF AfterCleanup, Places, TypeOK
<1>8. ASSUME NEW q \in Requests, Put(q) PROVE TypeOK'
  BY <1>8 DEF Put, GoesOn, Go, Places, dbVars, TypeOK
<1>9. ASSUME NEW q \in Requests, WriteLands(q) \/ WriteFails(q) PROVE TypeOK'
  BY <1>9 DEF WriteLands, WriteFails, dbVars, localVars, TypeOK
<1>10. ASSUME NEW q \in Requests, PutReturns(q) \/ Verify(q) PROVE TypeOK'
  BY <1>1, <1>10, DbTyped, LocalTyped DEF PutReturns, Verify, Places, TypeOK
<1>11. ASSUME NEW q \in Requests, Finalize(q) PROVE TypeOK'
  BY <1>1, <1>11, DbTyped, LocalTyped DEF Finalize, TypeOK
<1>12. ASSUME NEW q \in Requests, FinalizeUnanswered(q) \/ LateFinalize(q) PROVE TypeOK'
  <2>1. finalizing' \subseteq Requests
    BY <1>12 DEF FinalizeUnanswered, LateFinalize, TypeOK
  <2>2. GoesOn(q, "read_back") \/ UNCHANGED localVars
    BY <1>12 DEF FinalizeUnanswered, LateFinalize
  <2>3. LocalType'
    BY <2>2, LocalTyped DEF Places
  <2>4. DbType'
    BY <1>12, DbTyped DEF FinalizeUnanswered, LateFinalize, dbVars
  <2>5. QED
    BY <1>1, <1>12, <2>1, <2>3, <2>4 DEF FinalizeUnanswered, LateFinalize
<1>13. ASSUME NEW q \in Requests, ReadBack(q) PROVE TypeOK'
  BY <1>1, <1>13, DbTyped, LocalTyped DEF ReadBack, Places, TypeOK
<1>14. ASSUME NEW q \in Requests, Mark(q) PROVE TypeOK'
  BY <1>1, <1>14, DbTyped, LocalTyped DEF Mark, AfterMark, TypeOK
<1>15. ASSUME NEW q \in Requests, Crash(q) PROVE TypeOK'
  BY <1>15 DEF Crash, Ends, Go, Places, RunStatus, dbVars, storageVars, TypeOK
<1>16. ASSUME NEW k \in Keys, EraseLands(k) PROVE TypeOK'
  BY <1>16 DEF EraseLands, dbVars, localVars, TypeOK
<1>17. ASSUME NEW k \in Keys, ExpireUpload(k) PROVE TypeOK'
  BY <1>17 DEF ExpireUpload, storageVars, localVars, TypeOK
<1>18. ASSUME NEW k \in Keys, RunMoves(k) PROVE TypeOK'
  BY <1>18 DEF RunMoves, storageVars, localVars, RunStatus, TypeOK
<1>19. CASE UNCHANGED vars
  BY <1>19 DEF vars, dbVars, storageVars, localVars, TypeOK
<1>20. QED
  BY <1>2, <1>3, <1>4, <1>5, <1>6, <1>7, <1>8, <1>9, <1>10, <1>11, <1>12, <1>13, <1>14,
     <1>15, <1>16, <1>17, <1>18, <1>19 DEF Next

-----------------------------------------------------------------------------
(***************************************************************************)
(* The parts of the invariant.                                             *)
(***************************************************************************)

\* A reservation only hands out objects whose runs it leaves condemned.
LEMMA StaleIsCondemned ==
  ASSUME TypeOK, NEW k \in Keys, NEW stale \in SUBSET Keys,
         Inserts(k, stale) \/ Replays(k, stale)
  PROVE  \A j \in stale : Condemned(j)'
<1>1. CASE Inserts(k, stale)
  BY <1>1 DEF Inserts, Condemned, TypeOK
<1>2. CASE Replays(k, stale)
  BY <1>2 DEF Replays, Condemned, TypeOK
<1>3. QED
  BY <1>1, <1>2

\* What a request owes grows only by objects whose runs are condemned.
LEMMA OwesMore ==
  ASSUME TypeOK, TypeOK', [Next]_vars, NEW q \in Requests, NEW k \in todo'[q]
  PROVE  k \in todo[q] \/ Condemned(k)'
<1> USE KeyAssumption
<1>1. ASSUME NEW p \in Requests, Reserve(p) PROVE k \in todo[q] \/ Condemned(k)'
  <2>1. PICK stale \in SUBSET Keys : /\ Inserts(Key[p], stale) \/ Replays(Key[p], stale)
                                     /\ todo' = [todo EXCEPT ![p] = stale]
    BY <1>1 DEF Reserve, AfterReservation
  <2>2. k \in stale \/ k \in todo[q]
    BY <2>1 DEF TypeOK
  <2>3. QED
    BY <2>1, <2>2, StaleIsCondemned
<1>2. ASSUME NEW p \in Requests, Finalize(p) PROVE k \in todo[q] \/ Condemned(k)'
  BY <1>2 DEF Finalize, Answer, Ends, CleansUp, Condemned, TypeOK
<1>3. ASSUME NEW p \in Requests, ReadBack(p) PROVE k \in todo[q] \/ Condemned(k)'
  BY <1>3 DEF ReadBack, Answer, Ends, GoesOn, CleansUp, dbVars, Condemned, TypeOK
<1>4. ASSUME NEW p \in Requests, Mark(p) PROVE k \in todo[q] \/ Condemned(k)'
  BY <1>4 DEF Mark, AfterMark, Condemns, Answer, Ends, CleansUp, Condemned, TypeOK
<1>5. ASSUME NEW p \in Requests, ConfirmReservation(p)
      PROVE  k \in todo[q] \/ Condemned(k)'
  BY <1>5 DEF ConfirmReservation, AfterReservation, Answer, Ends, TypeOK
<1>6. ASSUME NEW p \in Requests,
             \/ ReserveUnanswered(p) \/ AfterCleanup(p) \/ PutReturns(p) \/ Verify(p) \/ Crash(p)
      PROVE  k \in todo[q] \/ Condemned(k)'
  BY SMTT(30), <1>6 DEF ReserveUnanswered, AfterCleanup, PutReturns, Verify, Crash, GoesOn, Answer, Ends,
              TypeOK
<1>7. ASSUME NEW p \in Requests,
             \/ \E j \in Keys : Delete(p, j) \/ CompleteCleanup(p, j)
             \/ Put(p) \/ WriteLands(p) \/ WriteFails(p)
             \/ FinalizeUnanswered(p) \/ LateFinalize(p)
      PROVE  k \in todo[q] \/ Condemned(k)'
  <2>1. ASSUME NEW j \in Keys, Delete(p, j) PROVE todo'[q] \subseteq todo[q]
    BY <2>1 DEF Delete, TypeOK
  <2>2. CASE UNCHANGED todo
    BY <2>2
  <2>3. QED
    BY <1>7, <2>1, <2>2 DEF CompleteCleanup, Put, WriteLands, WriteFails, FinalizeUnanswered,
                            LateFinalize, GoesOn, localVars
<1>8. ASSUME NEW j \in Keys, EraseLands(j) \/ ExpireUpload(j) \/ RunMoves(j)
      PROVE  k \in todo[q] \/ Condemned(k)'
  BY <1>8 DEF EraseLands, ExpireUpload, RunMoves, localVars
<1>9. CASE UNCHANGED vars
  BY <1>9 DEF vars, localVars
<1>10. QED
  BY <1>1, <1>2, <1>3, <1>4, <1>5, <1>6, <1>7, <1>8, <1>9 DEF Next

\* A delete is sent, or remembered as acknowledged, only by a request that owed it.
LEMMA SendsOwed ==
  ASSUME TypeOK, [Next]_vars, NEW k \in Keys
  PROVE  /\ k \in erasing' => k \in erasing \/ \E q \in Requests : k \in todo[q]
         /\ k \in deleted => k \in deleted'
         /\ \A q \in Requests : k \in gone'[q] =>
              k \in gone[q] \/ (k \in todo[q] /\ k \in deleted')
<1>1. ASSUME NEW p \in Requests, NEW j \in Keys, Delete(p, j)
      PROVE  /\ k \in erasing' => k \in erasing \/ \E q \in Requests : k \in todo[q]
             /\ k \in deleted => k \in deleted'
             /\ \A q \in Requests : k \in gone'[q] =>
                  k \in gone[q] \/ (k \in todo[q] /\ k \in deleted')
  BY <1>1 DEF Delete, AfterDelete, TypeOK
<1>2. ASSUME NEW p \in Requests,
             \/ \E j \in Keys : CompleteCleanup(p, j)
             \/ Reserve(p) \/ ReserveUnanswered(p) \/ ConfirmReservation(p)
             \/ AfterCleanup(p) \/ Put(p) \/ WriteLands(p) \/ WriteFails(p)
             \/ PutReturns(p) \/ Verify(p)
      PROVE  /\ UNCHANGED <<erasing, deleted>>
             /\ \A q \in Requests : gone'[q] \subseteq gone[q]
  BY <1>2 DEF CompleteCleanup, Reserve, ReserveUnanswered, ConfirmReservation, AfterCleanup, Put,
              WriteLands, WriteFails, PutReturns, Verify, AfterReservation, GoesOn, Answer, Ends,
              storageVars, localVars, TypeOK
<1>3. ASSUME NEW p \in Requests,
             \/ Finalize(p) \/ FinalizeUnanswered(p) \/ LateFinalize(p) \/ ReadBack(p)
             \/ Mark(p) \/ Crash(p)
      PROVE  /\ UNCHANGED <<erasing, deleted>>
             /\ \A q \in Requests : gone'[q] \subseteq gone[q]
  BY <1>3 DEF Finalize, FinalizeUnanswered, LateFinalize, ReadBack, Mark, AfterMark, Crash, GoesOn,
              Answer, CleansUp, Ends, storageVars, localVars, TypeOK
<1>4. ASSUME NEW j \in Keys, EraseLands(j) \/ ExpireUpload(j) \/ RunMoves(j)
      PROVE  erasing' \subseteq erasing /\ UNCHANGED <<deleted, gone>>
  BY <1>4 DEF EraseLands, ExpireUpload, RunMoves, storageVars, localVars
<1>5. CASE UNCHANGED vars
  BY <1>5 DEF vars, storageVars, localVars
<1>6. QED
  BY <1>1, <1>2, <1>3, <1>4, <1>5 DEF Next

\* Deletes remain owed: a condemned run is never registered again.
LEMMA DeletesStep ==
  ASSUME TypeOK, TypeOK', DeletesAreOwed, [Next]_vars PROVE DeletesAreOwed'
<1>1. ASSUME NEW k \in erasing' PROVE Condemned(k)'
  BY <1>1, SendsOwed, VerdictsStand DEF DeletesAreOwed, TypeOK
<1>2. ASSUME NEW q \in Requests, NEW k \in todo'[q] PROVE Condemned(k)'
  BY <1>2, OwesMore, VerdictsStand DEF DeletesAreOwed, TypeOK
<1>3. ASSUME NEW q \in Requests, NEW k \in gone'[q] PROVE Condemned(k)' /\ k \in deleted'
  <2>1. k \in Keys
    BY DEF TypeOK
  <2>2. k \in gone[q] \/ (k \in todo[q] /\ k \in deleted')
    BY <2>1, SendsOwed
  <2>3. k \in deleted => k \in deleted'
    BY <2>1, SendsOwed
  <2>4. QED
    BY <2>1, <2>2, <2>3, VerdictsStand DEF DeletesAreOwed
<1>4. QED
  BY <1>1, <1>2, <1>3 DEF DeletesAreOwed

\* What secures the source of a request goes on to do so.
LEMMA SecuredStays ==
  ASSUME TypeOK, DeletesAreOwed, [Next]_vars, NEW q \in Requests, Secured(q) PROVE Secured(q)'
BY KeyAssumption, ObjectStays, VerdictsStand DEF Secured

\* A request comes to finalize only with its source secured.
LEMMA FinalizesStep ==
  ASSUME TypeOK, DeletesAreOwed, FinalizesSource, [Next]_vars PROVE FinalizesSource'
<1> SUFFICES ASSUME NEW q \in Requests,
                    write'[q] = "stored" \/ pc'[q] = "finalize" \/ q \in finalizing'
             PROVE  Secured(q)'
  BY DEF FinalizesSource
<1> USE KeyAssumption
<1>1. ASSUME write[q] = "stored" \/ pc[q] = "finalize" \/ q \in finalizing PROVE Secured(q)'
  BY <1>1, SecuredStays DEF FinalizesSource
<1>2. ASSUME NEW p \in Requests, WriteLands(p) PROVE Secured(q)'
  <2>1. CASE p = q
    BY <1>2, <2>1 DEF WriteLands, Secured, TypeOK
  <2>2. CASE p # q
    BY <1>1, <1>2, <2>2 DEF WriteLands, localVars, TypeOK
  <2>3. QED
    BY <2>1, <2>2
<1>3. ASSUME NEW p \in Requests, Verify(p) PROVE Secured(q)'
  <2>1. CASE p = q /\ object[Key[p]]
    BY <1>3, <2>1, SecuredStays DEF Secured
  <2>2. CASE p # q \/ Answer(p, "error")
    BY <1>1, <1>3, <2>2 DEF Verify, GoesOn, Answer, Ends, Go, storageVars, TypeOK
  <2>3. QED
    BY <1>3, <2>1, <2>2 DEF Verify
<1>4. ASSUME NEW p \in Requests, PutReturns(p) \/ FinalizeUnanswered(p) \/ LateFinalize(p)
      PROVE  Secured(q)'
  BY <1>1, <1>4 DEF PutReturns, FinalizeUnanswered, LateFinalize, GoesOn, Go, storageVars,
                    localVars, TypeOK
<1>5. ASSUME NEW p \in Requests, Put(p) \/ WriteFails(p) PROVE Secured(q)'
  BY <1>1, <1>5 DEF Put, WriteFails, GoesOn, Go, localVars, TypeOK
<1>6. ASSUME NEW p \in Requests,
             \/ Reserve(p) \/ ReserveUnanswered(p) \/ ConfirmReservation(p)
             \/ AfterCleanup(p) \/ Crash(p)
      PROVE  Secured(q)'
  BY <1>1, <1>6 DEF Reserve, ReserveUnanswered, ConfirmReservation, AfterCleanup, Crash,
                    AfterReservation, GoesOn, Answer, Ends, Go, storageVars, TypeOK
<1>7. ASSUME NEW p \in Requests, Finalize(p) \/ ReadBack(p) \/ Mark(p) PROVE Secured(q)'
  BY <1>1, <1>7 DEF Finalize, ReadBack, Mark, AfterMark, CleansUp, GoesOn, Answer, Ends, Go,
                    storageVars, TypeOK
<1>8. ASSUME NEW p \in Requests, NEW k \in Keys, Delete(p, k) \/ CompleteCleanup(p, k)
      PROVE  Secured(q)'
  BY <1>1, <1>8 DEF Delete, CompleteCleanup, storageVars
<1>9. ASSUME NEW k \in Keys, EraseLands(k) \/ ExpireUpload(k) \/ RunMoves(k) PROVE Secured(q)'
  BY <1>1, <1>9 DEF EraseLands, ExpireUpload, RunMoves, storageVars, localVars
<1>10. CASE UNCHANGED vars
  BY <1>1, <1>10 DEF vars, storageVars, localVars
<1>11. QED
  BY <1>2, <1>3, <1>4, <1>5, <1>6, <1>7, <1>8, <1>9, <1>10 DEF Next

\* The status a request comes to read is the status of its run.
LEMMA ReadsStatus ==
  ASSUME TypeOK, [Next]_vars, NEW q \in Requests
  PROVE  \/ found'[q] \in {found[q], "absent", "new"}
         \/ found'[q] = status[Key[q]] /\ status' = status
<1> USE DEF TypeOK
<1>1. ASSUME NEW p \in Requests, Reserve(p) \/ ConfirmReservation(p)
      PROVE  \/ found'[q] \in {found[q], "absent", "new"}
             \/ found'[q] = status[Key[q]] /\ status' = status
  BY <1>1 DEF Reserve, ConfirmReservation, Replays, AfterReservation, Answer, Ends, dbVars
<1>2. ASSUME NEW p \in Requests,
             \/ ReserveUnanswered(p) \/ AfterCleanup(p) \/ PutReturns(p) \/ Verify(p)
             \/ Put(p) \/ FinalizeUnanswered(p) \/ Crash(p)
      PROVE  found'[q] \in {found[q], "absent", "new"}
  BY <1>2 DEF ReserveUnanswered, AfterCleanup, PutReturns, Verify, Put, FinalizeUnanswered, Crash,
              GoesOn, Answer, Ends
<1>3. ASSUME NEW p \in Requests, Finalize(p) \/ ReadBack(p) \/ Mark(p)
      PROVE  found'[q] \in {found[q], "absent", "new"}
  BY <1>3 DEF Finalize, ReadBack, Mark, AfterMark, CleansUp, GoesOn, Answer, Ends
<1>4. ASSUME NEW p \in Requests,
             \/ \E k \in Keys : Delete(p, k) \/ CompleteCleanup(p, k)
             \/ WriteLands(p) \/ WriteFails(p) \/ LateFinalize(p)
      PROVE  found' = found
  BY <1>4 DEF Delete, CompleteCleanup, WriteLands, WriteFails, LateFinalize, localVars
<1>5. ASSUME NEW k \in Keys, EraseLands(k) \/ ExpireUpload(k) \/ RunMoves(k) PROVE found' = found
  BY <1>5 DEF EraseLands, ExpireUpload, RunMoves, localVars
<1>6. CASE UNCHANGED vars
  BY <1>6 DEF vars, localVars
<1>7. QED
  BY <1>1, <1>2, <1>3, <1>4, <1>5, <1>6 DEF Next

LEMMA ReadsStep == ASSUME TypeOK, ReadsAreTrue, [Next]_vars PROVE ReadsAreTrue'
<1> SUFFICES ASSUME NEW q \in Requests
             PROVE  /\ found'[q] \in {"queued", "claimed", "over"} => Registered(Key[q])'
                    /\ found'[q] \in {"cleanup_pending", "failed"} => Condemned(Key[q])'
  BY DEF ReadsAreTrue
<1>1. CASE found'[q] = found[q]
  BY <1>1, KeyAssumption, VerdictsStand DEF ReadsAreTrue
<1>2. CASE found'[q] \in {"absent", "new"}
  BY <1>2
<1>3. CASE found'[q] = status[Key[q]] /\ status' = status
  BY <1>3 DEF Registered, Condemned
<1>4. QED
  BY <1>1, <1>2, <1>3, ReadsStatus

\* A client is told what is true when it is told.
LEMMA ToldTruth ==
  ASSUME TypeOK, ReadsAreTrue, [Next]_vars, NEW q \in Requests, told'[q] # told[q]
  PROVE  /\ told'[q] = "accepted" => Registered(Key[q])'
         /\ told'[q] = "condemned" => Condemned(Key[q])'
<1> USE KeyAssumption
<1> DEFINE True == /\ told'[q] = "accepted" => Registered(Key[q])'
                   /\ told'[q] = "condemned" => Condemned(Key[q])'
<1>1. ASSUME NEW p \in Requests, AfterCleanup(p) PROVE True
  <2>1. /\ Registered(Key[q]) => Registered(Key[q])'
        /\ Condemned(Key[q]) => Condemned(Key[q])'
    BY VerdictsStand
  <2>2. p = q
    BY <1>1 DEF AfterCleanup, GoesOn, Answer, Ends, TypeOK
  <2>3. QED
    BY <1>1, <2>1, <2>2 DEF AfterCleanup, GoesOn, Answer, Ends, ReadsAreTrue, TypeOK
<1>2. ASSUME NEW p \in Requests, Finalize(p) \/ ReadBack(p) PROVE True
  BY <1>2 DEF Finalize, ReadBack, Proves, GoesOn, CleansUp, Answer, Ends, Registered, Condemned,
              dbVars, TypeOK
<1>3. ASSUME NEW p \in Requests,
             \/ Reserve(p) \/ ReserveUnanswered(p) \/ ConfirmReservation(p)
             \/ PutReturns(p) \/ Verify(p) \/ Put(p) \/ FinalizeUnanswered(p) \/ Mark(p) \/ Crash(p)
      PROVE  True
  BY <1>3 DEF Reserve, ReserveUnanswered, ConfirmReservation, AfterReservation, PutReturns, Verify,
              Put, FinalizeUnanswered, Mark, AfterMark, CleansUp, Crash, GoesOn, Answer, Ends, TypeOK
<1>4. ASSUME NEW p \in Requests,
             \/ \E k \in Keys : Delete(p, k) \/ CompleteCleanup(p, k)
             \/ WriteLands(p) \/ WriteFails(p) \/ LateFinalize(p)
      PROVE  told' = told
  BY <1>4 DEF Delete, CompleteCleanup, WriteLands, WriteFails, LateFinalize, localVars
<1>5. ASSUME NEW k \in Keys, EraseLands(k) \/ ExpireUpload(k) \/ RunMoves(k) PROVE told' = told
  BY <1>5 DEF EraseLands, ExpireUpload, RunMoves, localVars
<1>6. CASE UNCHANGED vars
  BY <1>6 DEF vars, localVars
<1>7. QED
  BY <1>1, <1>2, <1>3, <1>4, <1>5, <1>6 DEF Next

LEMMA AnswersStep == ASSUME TypeOK, ReadsAreTrue, AnswersAreTrue, [Next]_vars PROVE AnswersAreTrue'
<1> SUFFICES ASSUME NEW q \in Requests
             PROVE  /\ told'[q] = "accepted" => Registered(Key[q])'
                    /\ told'[q] = "condemned" => Condemned(Key[q])'
  BY DEF AnswersAreTrue, Registered, Condemned
<1>1. CASE told'[q] = told[q]
  <2>1. /\ told[q] = "accepted" => Registered(Key[q])
        /\ told[q] = "condemned" => Condemned(Key[q])
    BY DEF AnswersAreTrue, Registered, Condemned
  <2>2. QED
    BY <1>1, <2>1, KeyAssumption, VerdictsStand
<1>2. CASE told'[q] # told[q]
  BY <1>2, ToldTruth
<1>3. QED
  BY <1>1, <1>2

\* A run that is queued or claimed keeps its source.
LEMMA SourceStep ==
  ASSUME TypeOK, TypeOK', SourceAvailable, DeletesAreOwed, DeletesAreOwed', FinalizesSource,
         [Next]_vars
  PROVE  SourceAvailable'
<1> SUFFICES ASSUME NEW k \in Keys, status'[k] \in {"queued", "claimed"}
             PROVE  object'[k] /\ k \notin erasing'
  BY DEF SourceAvailable
<1>1. k \notin erasing'
  BY DEF DeletesAreOwed, Condemned
<1>2. object[k] /\ ~Condemned(k)
  <2>1. CASE status[k] \in {"queued", "claimed"}
    BY <2>1 DEF SourceAvailable, Condemned
  <2>2. ASSUME NEW q \in Requests, Key[q] = k, pc[q] = "finalize" \/ q \in finalizing,
               status[k] = "uploading"
        PROVE  object[k] /\ ~Condemned(k)
    BY <2>2 DEF FinalizesSource, Secured, Condemned
  <2>3. QED
    BY <2>1, <2>2, StatusMoves DEF Moves
<1>3. object'[k]
  BY <1>2, ObjectStays DEF TypeOK
<1>4. QED
  BY <1>1, <1>3

-----------------------------------------------------------------------------
\* The invariant holds at first and is kept by every step.
LEMMA Invariant == Spec => []Inv
<1>1. Init => Inv
  BY KeyAssumption
  DEF Init, Inv, TypeOK, RunStatus, Places, SourceAvailable, AnswersAreTrue, DeletesAreOwed,
      FinalizesSource, ReadsAreTrue
<1>2. Inv /\ [Next]_vars => Inv'
  BY TypeStep, SourceStep, AnswersStep, DeletesStep, FinalizesStep, ReadsStep DEF Inv
<1>3. QED
  BY <1>1, <1>2, PTL DEF Spec

\* Runs, objects and requests are always in one of the states the code names.
THEOREM TypeCorrect == Spec => []TypeOK
BY Invariant, PTL DEF Inv

\* No delete, however late, takes the source of a run that a worker may read.
THEOREM SourceCorrect == Spec => []SourceAvailable
BY Invariant, PTL DEF Inv

\* No client's answer is ever contradicted by the database.
THEOREM AnswersCorrect == Spec => []AnswersAreTrue
BY Invariant, PTL DEF Inv

\* A run leaves its cleanup only after an acknowledged delete of its object.
THEOREM CleanupCorrect == Spec => CleanupAfterDelete
<1>1. Inv /\ [Next]_vars =>
        [\A k \in Keys : status[k] = "cleanup_pending" /\ status'[k] # "cleanup_pending"
                           => status'[k] = "failed" /\ k \in deleted]_vars
  <2> SUFFICES ASSUME Inv, [Next]_vars, NEW k \in Keys,
                      status[k] = "cleanup_pending", status'[k] # "cleanup_pending"
               PROVE  status'[k] = "failed" /\ k \in deleted
    OBVIOUS
  <2>1. status'[k] = "failed" /\ \E q \in Requests : k \in gone[q]
    BY StatusMoves DEF Inv, Moves
  <2>2. QED
    BY <2>1 DEF Inv, DeletesAreOwed
<1>2. QED
  BY <1>1, Invariant, PTL DEF Spec, CleanupAfterDelete
=============================================================================
