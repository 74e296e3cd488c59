-------------------------- MODULE KnowledgeBaseProofs --------------------------
(* Proofs, for every corpus and any number of sessions, that what is marked   *)
(* active in the knowledge base covers the whole current corpus: Inv for the  *)
(* embeddings, ClassInv on top of it for the classifications.                 *)
EXTENDS KnowledgeBase, TLAPS

-----------------------------------------------------------------------------
(***************************************************************************)
(* The inductive invariant.                                                *)
(***************************************************************************)

Locks    == {C, E} \cup Rows
Places   == {"idle", "C", "E", "row", "commit", "read", "verify",
             "next", "write", "written", "promote"}

CorpusType ==
  /\ version  \in [Notices -> Nat]
  /\ embedded \in [Notices -> BOOLEAN]

SessionType ==
  /\ lock \in [Locks -> Sessions \cup {Nobody}]
  /\ at   \in [Sessions -> Places]
  /\ DOMAIN job = Sessions
  /\ job = [s \in Sessions |-> job[s]]

\* What an importer and an editor remember; and who changes or verifies the
\* corpus holds the lock for it.
Held(s) ==
  /\ s \in Importers => /\ at[s] # "idle" => job[s] \in Notices
                        /\ at[s] \in {"E", "row", "commit"} => lock[C] = s
                        /\ at[s] \in {"row", "commit"} => lock[E] = s
  /\ s \in Editors => /\ at[s] # "idle" => job[s] \in Rows
                      /\ at[s] \in {"E", "commit"} /\ Kind(s) # "component" => lock[C] = s
                      /\ at[s] = "commit" /\ Kind(s) # "title" => lock[E] = s
  /\ s \in Embedders => (at[s] \in {"verify", "commit"} => lock[E] = s)
  /\ s \in Backfills => (at[s] \in {"verify", "promote"} => lock[C] = s)

LocksAreHeld == \A s \in Sessions : Held(s)

\* An embedding backfill that is about to activate v2 finds nothing missing.
EmbeddingsVerified == \A x \in Embedders : at[x] = "commit" => \A n \in Current : embedded[n]

Inv == CorpusType /\ SessionType /\ LocksAreHeld /\ EmbeddingsVerified /\ EmbeddingsComplete

-----------------------------------------------------------------------------

\* Nothing is active before anything is imported.
LEMMA Initially == Init => Inv
<1> SUFFICES ASSUME Init PROVE Inv
  OBVIOUS
<1>1. Current = {}
  BY DEF Init, Current
<1>2. CorpusType
  BY <1>1 DEF Init, CorpusType
<1>3. SessionType
  <2>1. /\ lock \in [Locks -> Sessions \cup {Nobody}]
        /\ at \in [Sessions -> Places]
    BY DEF Init, Locks, Places
  <2>2. DOMAIN job = Sessions /\ job = [s \in Sessions |-> job[s]]
    BY DEF Init
  <2>3. \A s \in Sessions : at[s] = "idle"
    BY DEF Init
  <2> QED
    BY <2>1, <2>2, <2>3 DEF SessionType, Sessions
<1> QED
  BY <1>2, <1>3, <1>1 DEF Inv, Init, LocksAreHeld, Held, EmbeddingsVerified, EmbeddingsComplete, Sessions

\* The steps that leave the corpus alone, and the six that do not.
CorpusSteps ==
  \/ \E i \in Importers : CommitImport(i)
  \/ \E e \in Editors : CommitEdit(e)
  \/ \E x \in Embedders : UpsertEmbeddings(x) \/ CommitV2(x)
  \/ \E b \in Backfills : CommitRow(b) \/ Promote(b)

\* Every other step leaves the corpus as it is.
LEMMA OtherSteps == [Next]_vars => CorpusSteps \/ UNCHANGED corpus
<1> SUFFICES ASSUME [Next]_vars, ~CorpusSteps PROVE UNCHANGED corpus
  OBVIOUS
<1>1. ASSUME NEW s \in Sessions, Abort(s) PROVE UNCHANGED corpus
  BY <1>1 DEF Abort
<1>2. ASSUME NEW i \in Importers, Import(i) PROVE UNCHANGED corpus
  BY <1>2 DEF CorpusSteps, Import, StartImport, Start, LockCurrentVersionActivation, PatchNotice, Take
<1>3. ASSUME NEW e \in Editors, Edit(e) PROVE UNCHANGED corpus
  BY <1>3 DEF CorpusSteps, Edit, StartEdit, Start, LockRow, TriggersFire, Try, Take
<1>4. ASSUME NEW x \in Embedders, Embed(x) PROVE UNCHANGED corpus
  BY <1>4 DEF CorpusSteps, Embed, StartEmbedding, Start, ReadProfile, LockEmbedding, VerifyEmbeddings, Take
<1>5. ASSUME NEW b \in Backfills, Classify(b) PROVE UNCHANGED corpus
  BY <1>5 DEF CorpusSteps, Classify, StartBackfill, Start, NextProfile, WriteRow, Finished,
              LockClassification, VerifyResults, Take
<1> QED
  BY <1>1, <1>2, <1>3, <1>4, <1>5 DEF Next, Step, vars, corpus

-----------------------------------------------------------------------------
(***************************************************************************)
(* A session changes its own place and memory, takes locks that are free   *)
(* and gives back its own.                                                 *)
(***************************************************************************)

Moves(s) ==
  \/ /\ \E p \in Places : Goto(s, p)
     /\ \E v : Remember(s, v)
     /\ UNCHANGED lock
  \/ End(s)
  \/ \E l \in Locks, p \in Places : Take(s, l, p)

\* Every step is such a move of one session.
LEMMA StepMoves ==
  ASSUME SessionType, LocksAreHeld, NEW s \in Sessions, Step(s) \/ Abort(s) PROVE Moves(s)
<1> USE DEF Moves
<1>1. CASE Abort(s)
  BY <1>1 DEF Abort
<1>0. job = [job EXCEPT ![s] = job[s]] /\ at = [at EXCEPT ![s] = at[s]] /\ at[s] \in Places
  BY DEF SessionType
<1>2. CASE s \in Importers /\ Import(s)
  <2>1. ASSUME NEW n \in Notices, Start(s, "C", n) PROVE Moves(s)
    BY <2>1 DEF Start, Places
  <2>2. CASE LockCurrentVersionActivation(s)
    BY <2>2 DEF LockCurrentVersionActivation, Locks, Places
  <2>3. CASE PatchNotice(s)
    BY <1>2, <2>3 DEF PatchNotice, LocksAreHeld, Held, Locks, Places, Rows, Kinds
  <2>4. CASE CommitImport(s)
    BY <2>4 DEF CommitImport
  <2> QED
    BY <1>2, <2>1, <2>2, <2>3, <2>4 DEF Import, StartImport
<1>3. CASE s \in Editors /\ Edit(s)
  <2>1. ASSUME NEW v, Start(s, "row", v) PROVE Moves(s)
    BY <2>1 DEF Start, Places
  <2>2. CASE LockRow(s)
    <3>1. job[s] \in Locks
      BY <1>3, <2>2 DEF LockRow, LocksAreHeld, Held, Locks
    <3> QED
      BY <2>2, <3>1 DEF LockRow, Places
  <2>3. CASE TriggersFire(s)
    BY <2>3 DEF TriggersFire, Try, Locks, Places
  <2>4. CASE CommitEdit(s)
    BY <2>4 DEF CommitEdit
  <2> QED
    BY <1>3, <2>1, <2>2, <2>3, <2>4 DEF Edit, StartEdit
<1>4. CASE s \in Embedders /\ Embed(s)
  <2>1. ASSUME NEW v, Start(s, "read", v) PROVE Moves(s)
    BY <2>1 DEF Start, Places
  <2>2. CASE ReadProfile(s)
    BY <1>0, <2>2 DEF ReadProfile, Goto
  <2>3. CASE UpsertEmbeddings(s)
    BY <1>0, <2>3 DEF UpsertEmbeddings, Remember, Places
  <2>4. CASE LockEmbedding(s)
    BY <2>4 DEF LockEmbedding, Locks, Places
  <2>5. CASE VerifyEmbeddings(s)
    BY <1>0, <2>5 DEF VerifyEmbeddings, Remember, Places
  <2>6. CASE CommitV2(s)
    BY <2>6 DEF CommitV2
  <2> QED
    BY <1>4, <2>1, <2>2, <2>3, <2>4, <2>5, <2>6 DEF Embed, StartEmbedding
<1>5. CASE s \in Backfills /\ Classify(s)
  <2>1. ASSUME NEW v, Start(s, "next", v) PROVE Moves(s)
    BY <2>1 DEF Start, Places
  <2>2. CASE NextProfile(s)
    BY <2>2 DEF NextProfile, Places
  <2>3. CASE WriteRow(s)
    BY <2>3 DEF WriteRow, Places
  <2>4. CASE CommitRow(s)
    BY <2>4 DEF CommitRow, Places
  <2>5. CASE Finished(s)
    BY <1>0, <2>5 DEF Finished, Remember, Places
  <2>6. CASE LockClassification(s)
    BY <2>6 DEF LockClassification, Locks, Places
  <2>7. CASE VerifyResults(s)
    BY <1>0, <2>7 DEF VerifyResults, Remember, Places
  <2>8. CASE Promote(s)
    BY <2>8 DEF Promote
  <2> QED
    BY <1>5, <2>1, <2>2, <2>3, <2>4, <2>5, <2>6, <2>7, <2>8 DEF Classify, StartBackfill
<1> QED
  BY <1>1, <1>2, <1>3, <1>4, <1>5 DEF Step

\* The other sessions stay where they are and keep their locks.
LEMMA OthersStay ==
  ASSUME SessionType, NEW s \in Sessions, Moves(s)
  PROVE  /\ lock' \in [Locks -> Sessions \cup {Nobody}]
         /\ at' \in [Sessions -> Places]
         /\ DOMAIN job' = Sessions /\ job' = [r \in Sessions |-> job'[r]]
         /\ \A r \in Sessions \ {s} :
              at'[r] = at[r] /\ job'[r] = job[r] /\ \A l \in Locks : lock[l] = r => lock'[l] = r
<1>1. CASE End(s)
  BY <1>1 DEF End, Released, Goto, Remember, SessionType, Places
<1>2. CASE \E p \in Places : Goto(s, p) /\ (\E v : Remember(s, v)) /\ UNCHANGED lock
  BY <1>2 DEF Goto, Remember, SessionType
<1>3. CASE \E l \in Locks, p \in Places : Take(s, l, p)
  BY <1>3, SessionAssumption DEF Take, Goto, SessionType, Sessions
<1> QED
  BY <1>1, <1>2, <1>3 DEF Moves

\* So the locks stay with who needs them.
LEMMA LocksStayHeld ==
  ASSUME SessionType, LocksAreHeld, NEW s \in Sessions, Step(s) \/ Abort(s)
  PROVE  SessionType' /\ LocksAreHeld'
<1>1. Moves(s)
  BY StepMoves
<1>2. SessionType'
  BY <1>1, OthersStay DEF SessionType
<1>3. ASSUME NEW r \in Sessions \ {s} PROVE Held(r)'
  <2>1. at'[r] = at[r] /\ job'[r] = job[r] /\ \A l \in Locks : lock[l] = r => lock'[l] = r
    BY <1>1, OthersStay
  <2>2. Held(r) /\ C \in Locks /\ E \in Locks
    BY DEF LocksAreHeld, Locks
  <2> QED
    BY <2>1, <2>2 DEF Held, Kind
<1>4. Held(s)
  BY DEF LocksAreHeld
<1>5. /\ s \in Importers => s \notin Editors \cup Embedders \cup Backfills
      /\ s \in Editors => s \notin Embedders \cup Backfills
      /\ s \in Embedders => s \notin Backfills
  BY SessionAssumption
<1>6. at \in [Sessions -> Places] /\ lock \in [Locks -> Sessions \cup {Nobody}] /\ C \in Locks /\ E \in Locks /\ C # E
  BY DEF SessionType, Locks, C, E
<1>7. job = [r \in Sessions |-> job[r]]
  BY DEF SessionType
<1>8. Held(s)'
  <2>1. CASE End(s)
    <3>1. at'[s] = "idle"
      BY <1>6, <2>1 DEF End, Goto
    <3> QED
      BY <3>1 DEF Held
  <2>2. CASE s \in Importers /\ Import(s)
    <3>1. ASSUME NEW n \in Notices, Start(s, "C", n) PROVE Held(s)'
      BY <1>5, <1>6, <1>7, <2>2, <3>1 DEF Held, Start, Goto, Remember
    <3>2. CASE LockCurrentVersionActivation(s)
      BY <1>4, <1>5, <1>6, <2>2, <3>2 DEF Held, LockCurrentVersionActivation, Take, Goto
    <3>3. CASE PatchNotice(s)
      BY <1>4, <1>5, <1>6, <2>2, <3>3 DEF Held, PatchNotice, Take, Goto, C, E, Rows
    <3> QED
      BY <2>1, <2>2, <3>1, <3>2, <3>3 DEF Import, StartImport, CommitImport
  <2>3. CASE s \in Editors /\ Edit(s)
    <3>1. ASSUME NEW v \in Rows, Start(s, "row", v) PROVE Held(s)'
      BY <1>5, <1>6, <1>7, <2>3, <3>1 DEF Held, Start, Goto, Remember
    <3>2. CASE LockRow(s)
      BY <1>4, <1>5, <1>6, <2>3, <3>2 DEF Held, LockRow, Take, Goto, Kind
    <3>3. CASE TriggersFire(s)
      BY <1>4, <1>5, <1>6, <2>1, <2>3, <3>3 DEF Held, TriggersFire, Try, Take, Goto, Kind
    <3> QED
      BY <2>1, <2>3, <3>1, <3>2, <3>3 DEF Edit, StartEdit, CommitEdit, Rows, Current
  <2>4. CASE s \in Embedders /\ Embed(s)
    <3>1. ASSUME NEW v, Start(s, "read", v) PROVE Held(s)'
      BY <1>5, <1>6, <2>4, <3>1 DEF Held, Start, Goto
    <3>2. CASE ReadProfile(s)
      BY <1>4, <1>5, <1>6, <2>4, <3>2 DEF Held, ReadProfile
    <3>3. CASE UpsertEmbeddings(s)
      BY <1>5, <1>6, <2>1, <2>4, <3>3 DEF Held, UpsertEmbeddings, Goto
    <3>4. CASE LockEmbedding(s)
      BY <1>5, <1>6, <2>4, <3>4 DEF Held, LockEmbedding, Take, Goto
    <3>5. CASE VerifyEmbeddings(s)
      BY <1>4, <1>5, <1>6, <2>4, <3>5 DEF Held, VerifyEmbeddings, Goto
    <3> QED
      BY <2>1, <2>4, <3>1, <3>2, <3>3, <3>4, <3>5 DEF Embed, StartEmbedding, CommitV2
  <2>5. CASE s \in Backfills /\ Classify(s)
    <3>1. ASSUME NEW v, Start(s, "next", v) PROVE Held(s)'
      BY <1>5, <1>6, <2>5, <3>1 DEF Held, Start, Goto
    <3>2. CASE NextProfile(s) \/ WriteRow(s) \/ CommitRow(s) \/ Finished(s)
      BY <1>5, <1>6, <2>1, <2>5, <3>2 DEF Held, NextProfile, WriteRow, CommitRow, Finished, Goto
    <3>3. CASE LockClassification(s)
      BY <1>5, <1>6, <2>5, <3>3 DEF Held, LockClassification, Take, Goto
    <3>4. CASE VerifyResults(s)
      BY <1>4, <1>5, <1>6, <2>5, <3>4 DEF Held, VerifyResults, Goto
    <3> QED
      BY <2>1, <2>5, <3>1, <3>2, <3>3, <3>4 DEF Classify, StartBackfill, Promote
  <2> QED
    BY <2>1, <2>2, <2>3, <2>4, <2>5 DEF Step, Abort
<1> QED
  BY <1>2, <1>3, <1>8 DEF LocksAreHeld

-----------------------------------------------------------------------------
(***************************************************************************)
(* Embeddings.                                                             *)
(***************************************************************************)

\* Versions stay numbers and the embedded mark a Boolean.
LEMMA CorpusTypeStep ==
  ASSUME CorpusType, [Next]_vars PROVE CorpusType'
<1>1. CASE UNCHANGED corpus
  BY <1>1 DEF corpus, CorpusType
<1>2. ASSUME NEW i \in Importers, CommitImport(i) PROVE CorpusType'
  <2>1. CASE Ingested(job[i])
    <3>1. version' = [version EXCEPT ![job[i]] = @ + 1] /\ embedded' = [embedded EXCEPT ![job[i]] = FALSE]
      BY <2>1 DEF Ingested
    <3>2. version' \in [Notices -> Nat]
      <4>1. ASSUME NEW f \in [Notices -> Nat], NEW n PROVE [f EXCEPT ![n] = @ + 1] \in [Notices -> Nat]
        <5>1. \A m \in Notices : f[m] \in Nat /\ f[m] + 1 \in Nat
          OBVIOUS
        <5> QED
          BY <5>1, Zenon
      <4> QED
        BY <3>1, <4>1 DEF CorpusType
    <3>3. embedded' \in [Notices -> BOOLEAN]
      BY <3>1, Zenon DEF CorpusType
    <3> QED
      BY <3>2, <3>3 DEF CorpusType
  <2>2. CASE Retitled(job[i])
    BY <2>2 DEF Retitled, CorpusType
  <2> QED
    BY <1>1, <1>2, <2>1, <2>2 DEF CommitImport
<1>3. ASSUME NEW e \in Editors, CommitEdit(e) PROVE CorpusType'
  BY <1>3 DEF CommitEdit, CorpusType
<1>4. ASSUME NEW x \in Embedders, UpsertEmbeddings(x) \/ CommitV2(x) PROVE CorpusType'
  BY <1>4 DEF UpsertEmbeddings, CommitV2, CorpusType
<1>5. ASSUME NEW b \in Backfills, CommitRow(b) \/ Promote(b) PROVE CorpusType'
  BY <1>5 DEF CommitRow, Promote, CorpusType
<1> QED
  BY <1>1, <1>2, <1>3, <1>4, <1>5, OtherSteps DEF CorpusSteps

\* Only a verification brings an embedding backfill to its commit.
LEMMA ReachesCommit ==
  ASSUME SessionType, LocksAreHeld, NEW s \in Sessions, Step(s) \/ Abort(s),
         NEW x \in Embedders, at'[x] = "commit"
  PROVE  at[x] = "commit" \/ VerifyEmbeddings(x)
<1>1. CASE x # s
  BY <1>1, StepMoves, OthersStay DEF Sessions
<1>2. CASE x = s
  <2>1. at \in [Sessions -> Places]
    BY DEF SessionType
  <2>2. Embed(s) \/ Abort(s)
    BY <1>2, SessionAssumption DEF Step
  <2> QED
    BY <1>2, <2>1, <2>2 DEF Embed, StartEmbedding, Start, ReadProfile, UpsertEmbeddings,
       LockEmbedding, Take, CommitV2, Abort, End, Goto
<1> QED
  BY <1>1, <1>2

\* Neither an import nor an edit can fall between a verification of the
\* embeddings and its commit, and each of them takes v2 back.
LEMMA EmbeddingsStep ==
  ASSUME Inv, NEW s \in Sessions, Step(s) \/ Abort(s)
  PROVE  EmbeddingsVerified' /\ EmbeddingsComplete'
<1> USE DEF Inv
<1>1. [Next]_vars
  BY DEF Next
<1>2. ASSUME NEW x \in Embedders, at'[x] = "commit"
      PROVE  (\A n \in Current : embedded[n]) /\ ~ \E i \in Importers : CommitImport(i)
  <2>1. at[x] = "commit" \/ VerifyEmbeddings(x)
    BY <1>2, ReachesCommit
  <2>2. \A n \in Current : embedded[n]
    BY <2>1 DEF EmbeddingsVerified, VerifyEmbeddings
  <2>3. lock[E] = x
    BY <2>1 DEF LocksAreHeld, Held, VerifyEmbeddings, Sessions
  <2>4. \A i \in Importers : at[i] # "commit"
    BY <2>3, SessionAssumption DEF LocksAreHeld, Held, Sessions
  <2> QED
    BY <2>2, <2>4 DEF CommitImport
<1>3. CASE UNCHANGED corpus
  BY <1>2, <1>3 DEF corpus, EmbeddingsVerified, EmbeddingsComplete, Current
<1>4. ASSUME NEW i \in Importers, CommitImport(i) PROVE EmbeddingsVerified' /\ EmbeddingsComplete'
  <2>1. EmbeddingsVerified'
    BY <1>2, <1>4 DEF EmbeddingsVerified
  <2>2. EmbeddingsComplete'
    BY <1>4 DEF CommitImport, Ingested, Retitled, Demoted, corpus, EmbeddingsComplete, Current
  <2> QED
    BY <2>1, <2>2
<1>5. ASSUME NEW e \in Editors, CommitEdit(e) PROVE EmbeddingsVerified' /\ EmbeddingsComplete'
  BY <1>2, <1>5 DEF CommitEdit, Demoted, EmbeddingsVerified, EmbeddingsComplete, Current
<1>6. ASSUME NEW x \in Embedders, UpsertEmbeddings(x) PROVE EmbeddingsVerified' /\ EmbeddingsComplete'
  BY <1>2, <1>6 DEF UpsertEmbeddings, EmbeddingsVerified, EmbeddingsComplete, Current, CorpusType
<1>7. ASSUME NEW x \in Embedders, CommitV2(x) PROVE EmbeddingsVerified' /\ EmbeddingsComplete'
  BY <1>2, <1>7 DEF CommitV2, EmbeddingsVerified, EmbeddingsComplete, Current
<1>8. ASSUME NEW b \in Backfills, CommitRow(b) \/ Promote(b) PROVE EmbeddingsVerified' /\ EmbeddingsComplete'
  BY <1>2, <1>8 DEF CommitRow, Promote, EmbeddingsVerified, EmbeddingsComplete, Current
<1> QED
  BY <1>1, <1>3, <1>4, <1>5, <1>6, <1>7, <1>8, OtherSteps DEF CorpusSteps

\* The invariant is inductive.
LEMMA InvariantStep == Inv /\ [Next]_vars => Inv'
<1> SUFFICES ASSUME Inv, [Next]_vars PROVE Inv'
  OBVIOUS
<1>1. CorpusType'
  BY CorpusTypeStep DEF Inv
<1>2. ASSUME NEW s \in Sessions, Step(s) \/ Abort(s) PROVE Inv'
  BY <1>1, <1>2, LocksStayHeld, EmbeddingsStep DEF Inv
<1>3. CASE UNCHANGED vars
  BY <1>3 DEF vars, Inv, CorpusType, SessionType, LocksAreHeld, Held, Kind, EmbeddingsVerified,
              EmbeddingsComplete, Current
<1> QED
  BY <1>2, <1>3 DEF Next

\* While v2 is active every current profile has its embeddings, whatever is
\* imported or edited while backfills run.
THEOREM EmbeddingsCorrect == Spec => []EmbeddingsComplete
<1>1. Inv => EmbeddingsComplete
  BY DEF Inv
<1> QED
  BY Initially, InvariantStep, <1>1, PTL DEF Spec

-----------------------------------------------------------------------------
(***************************************************************************)
(* Classification.  It needs one backfill for each configuration at most:  *)
(* the rows a second one writes may fall into the verification of the      *)
(* first.                                                                  *)
(***************************************************************************)

OneBackfillEach == \A b, d \in Backfills : ConfigOf[b] = ConfigOf[d] => b = d

InputsKnown ==
  /\ DOMAIN input = Notices
  /\ DOMAIN class = Configs
  /\ \A n \in Current : input[n] \in Inputs

\* The versions a backfill has read are current or past.
Snapshots == \A b \in Backfills : at[b] # "idle" =>
  /\ {"version", "item"} \subseteq DOMAIN job[b]
  /\ \A n \in DOMAIN job[b].version :
       /\ n \in Notices
       /\ job[b].version[n] \in Nat \ {0}
       /\ job[b].version[n] <= version[n]

\* What was compared under the lock still holds when it is promoted.
ResultsVerified == \A b \in Backfills :
  at[b] = "promote" => \A n \in Current : Row(b, n) = input[n]

\* A row about to be committed is not one of the active configuration's for
\* the current corpus.
RowsStandAlone == \A b \in Backfills :
  at[b] = "written" => active # ConfigOf[b] \/ ~Reads(b, job[b].item)

ClassInv ==
  Inv /\ InputsKnown /\ Snapshots /\ ResultsVerified /\ RowsStandAlone /\ ClassificationComplete

\* Nothing is classified before anything is imported.
LEMMA ClassInitially == Init => ClassInv
<1> SUFFICES ASSUME Init PROVE ClassInv
  OBVIOUS
<1>1. Current = {} /\ \A s \in Sessions : at[s] = "idle"
  BY DEF Init, Current
<1> QED
  BY <1>1, Initially DEF Init, ClassInv, InputsKnown, Snapshots, ResultsVerified, RowsStandAlone,
     ClassificationComplete, Sessions

\* What a backfill is to remember is what it finds.
LEMMA Remembered ==
  ASSUME SessionType, NEW b \in Backfills, NEW v, Remember(b, v) PROVE job'[b] = v
<1>1. b \in Sessions /\ DOMAIN job = Sessions /\ job' = [job EXCEPT ![b] = v]
  BY DEF SessionType, Sessions, Remember
<1> QED
  BY <1>1

\* What a backfill remembers from its start to its end, and how it comes to
\* write a row and to promote.
LEMMA BackfillMemory ==
  ASSUME SessionType, LocksAreHeld, Snapshots, NEW s \in Sessions, Step(s) \/ Abort(s),
         NEW b \in Backfills, at'[b] # "idle"
  PROVE  \/ StartBackfill(b)
         \/ /\ at[b] # "idle"
            /\ {"version", "item"} \subseteq DOMAIN job'[b]
            /\ job'[b].version = job[b].version
            /\ at'[b] = "written" => /\ job'[b].item = job[b].item
                                     /\ at[b] = "written" \/ WriteRow(b)
            /\ at'[b] = "promote" => at[b] = "promote" \/ VerifyResults(b)
<1>1. CASE b # s
  BY <1>1, StepMoves, OthersStay DEF Sessions, Snapshots
<1>2. CASE b = s
  <2>1. at \in [Sessions -> Places] /\ job = [r \in Sessions |-> job[r]]
    BY DEF SessionType
  <2>2. Classify(s)
    BY <1>2, <2>1, SessionAssumption DEF Step, Abort, End, Goto
  <2>3. at[b] # "idle" => {"version", "item"} \subseteq DOMAIN job[b]
    BY DEF Snapshots
  <2>4. CASE NextProfile(b)
    <3>1. at[b] = "next" /\ \E t, i : Remember(b, [job[b] EXCEPT !.todo = t, !.item = i])
      BY <2>4 DEF NextProfile
    <3>2. at'[b] \in {"next", "write"}
      BY <2>1, <2>4 DEF NextProfile, Goto, Sessions
    <3>3. PICK t, i : Remember(b, [job[b] EXCEPT !.todo = t, !.item = i])
      BY <3>1
    <3>4. job'[b] = [job[b] EXCEPT !.todo = t, !.item = i]
      BY <3>3, Remembered
    <3> QED
      BY <2>3, <3>1, <3>2, <3>4
  <2>5. CASE WriteRow(b)
    <3>1. at[b] = "write" /\ \E r, i : Remember(b, [job[b] EXCEPT !.row = r, !.inserts = i])
      BY <2>5 DEF WriteRow
    <3>2. at'[b] = "written"
      BY <2>1, <2>5 DEF WriteRow, Goto, Sessions
    <3>3. PICK r, i : Remember(b, [job[b] EXCEPT !.row = r, !.inserts = i])
      BY <3>1
    <3>4. job'[b] = [job[b] EXCEPT !.row = r, !.inserts = i]
      BY <3>3, Remembered
    <3> QED
      BY <2>3, <2>5, <3>1, <3>2, <3>4
  <2>6. CASE CommitRow(b)
    <3>1. /\ at[b] = "written" /\ at'[b] = "next"
          /\ Remember(b, [job[b] EXCEPT !.item = None, !.row = "none", !.inserts = FALSE])
      BY <2>1, <2>6 DEF CommitRow, End, Goto, Sessions
    <3>2. job'[b] = [job[b] EXCEPT !.item = None, !.row = "none", !.inserts = FALSE]
      BY <3>1, Remembered
    <3> QED
      BY <2>3, <3>1, <3>2
  <2>7. CASE Finished(b) \/ LockClassification(b) \/ VerifyResults(b) \/ Promote(b)
    BY <1>2, <2>1, <2>3, <2>7 DEF Finished, LockClassification, Take, VerifyResults, Promote, Goto, End
  <2> QED
    BY <1>2, <2>2, <2>4, <2>5, <2>6, <2>7 DEF Classify
<1> QED
  BY <1>1, <1>2

\* A version is never taken back.
LEMMA VersionsGrow ==
  ASSUME CorpusType, [Next]_vars, NEW n \in Notices PROVE version[n] <= version'[n]
<1>1. version[n] \in Nat
  BY DEF CorpusType
<1>2. CASE UNCHANGED version
  BY <1>1, <1>2
<1>3. ASSUME NEW i \in Importers, CommitImport(i) PROVE version[n] <= version'[n]
  <2>1. CASE Ingested(job[i])
    <3>1. version' = [version EXCEPT ![job[i]] = @ + 1]
      BY <2>1 DEF Ingested
    <3>2. version'[n] = version[n] \/ version'[n] = version[n] + 1
      BY <3>1 DEF CorpusType
    <3> QED
      BY <1>1, <3>2
  <2> QED
    BY <1>2, <1>3, <2>1 DEF CommitImport, Retitled, corpus
<1> QED
  BY <1>2, <1>3, OtherSteps DEF CorpusSteps, corpus, CommitEdit, UpsertEmbeddings, CommitV2, CommitRow, Promote

\* What a backfill has not read, or read too early, it will not match later.
LEMMA StaleStays ==
  ASSUME CorpusType, Snapshots, [Next]_vars, NEW b \in Backfills, at[b] # "idle",
         job'[b].version = job[b].version, NEW n, Reads(b, n)'
  PROVE  Reads(b, n) /\ n \in Current
<1>1. /\ n \in DOMAIN job[b].version /\ job[b].version[n] = version'[n]
      /\ n \in Notices /\ job[b].version[n] \in Nat \ {0} /\ job[b].version[n] <= version[n]
  BY DEF Reads, Snapshots
<1>2. version[n] <= version'[n] /\ version[n] \in Nat
  BY <1>1, VersionsGrow DEF CorpusType
<1> QED
  BY <1>1, <1>2 DEF Reads, Current

\* What a backfill has read stays current or past.
LEMMA SnapshotsStep ==
  ASSUME ClassInv, NEW s \in Sessions, Step(s) \/ Abort(s) PROVE Snapshots'
<1> USE DEF ClassInv, Inv
<1>1. [Next]_vars
  BY DEF Next
<1> SUFFICES ASSUME NEW b \in Backfills, at'[b] # "idle"
             PROVE  /\ {"version", "item"} \subseteq DOMAIN job'[b]
                    /\ \A n \in DOMAIN job'[b].version :
                         /\ n \in Notices
                         /\ job'[b].version[n] \in Nat \ {0}
                         /\ job'[b].version[n] <= version'[n]
  BY DEF Snapshots
<1>2. CASE StartBackfill(b)
  <2>1. /\ {"version", "item"} \subseteq DOMAIN job'[b]
        /\ job'[b].version = [n \in Current |-> version[n]]
        /\ version' = version
    BY <1>2 DEF StartBackfill, Start, Remember, SessionType, Sessions, corpus
  <2> QED
    BY <2>1 DEF Current, CorpusType
<1>3. CASE ~StartBackfill(b)
  <2>1. at[b] # "idle" /\ {"version", "item"} \subseteq DOMAIN job'[b] /\ job'[b].version = job[b].version
    BY <1>3, BackfillMemory
  <2>2. ASSUME NEW n \in DOMAIN job[b].version
        PROVE  n \in Notices /\ job[b].version[n] \in Nat \ {0} /\ job[b].version[n] <= version'[n]
    <3>1. n \in Notices /\ job[b].version[n] \in Nat \ {0} /\ job[b].version[n] <= version[n]
      BY <2>1 DEF Snapshots
    <3>2. version[n] <= version'[n] /\ version[n] \in Nat /\ version'[n] \in Nat
      BY <1>1, <3>1, VersionsGrow, CorpusTypeStep DEF CorpusType
    <3> QED
      BY <3>1, <3>2
  <2> QED
    BY <2>1, <2>2
<1> QED
  BY <1>2, <1>3

\* Every current profile has an input.
LEMMA InputsKnownStep ==
  ASSUME ClassInv, [Next]_vars PROVE InputsKnown'
<1> USE DEF ClassInv, Inv
<1>1. CASE UNCHANGED corpus
  BY <1>1 DEF corpus, InputsKnown, Current
<1>2. ASSUME NEW i \in Importers, CommitImport(i) PROVE InputsKnown'
  <2>1. job[i] \in Notices
    BY <1>2 DEF CommitImport, LocksAreHeld, Held, Sessions
  <2>2. CASE Ingested(job[i])
    <3>1. PICK v \in Inputs : input' = [input EXCEPT ![job[i]] = v]
      BY <2>2 DEF Ingested
    <3>2. DOMAIN class' = Configs /\ \A n \in Notices \ {job[i]} : version'[n] = version[n]
      BY <2>1, <2>2 DEF Ingested, CorpusType
    <3> QED
      BY <2>1, <3>1, <3>2 DEF InputsKnown, Current
  <2>3. CASE Retitled(job[i])
    BY <2>1, <2>3 DEF Retitled, InputsKnown, Current
  <2> QED
    BY <1>1, <1>2, <2>2, <2>3 DEF CommitImport
<1>3. ASSUME NEW e \in Editors, CommitEdit(e) PROVE InputsKnown'
  <2>1. UNCHANGED input \/ \E v \in Inputs : input' = [input EXCEPT ![job[e][1]] = v]
    BY <1>3 DEF CommitEdit
  <2>2. UNCHANGED <<version, class>>
    BY <1>3 DEF CommitEdit
  <2> QED
    BY <2>1, <2>2 DEF InputsKnown, Current
<1>4. ASSUME NEW x \in Embedders, UpsertEmbeddings(x) \/ CommitV2(x) PROVE InputsKnown'
  BY <1>4 DEF UpsertEmbeddings, CommitV2, InputsKnown, Current
<1>5. ASSUME NEW b \in Backfills, CommitRow(b) \/ Promote(b) PROVE InputsKnown'
  BY <1>5 DEF CommitRow, Promote, InputsKnown, Current
<1> QED
  BY <1>1, <1>2, <1>3, <1>4, <1>5, OtherSteps DEF CorpusSteps

\* While a backfill that has verified its rows waits to promote them, nobody
\* changes an input, and nobody else writes a row of its configuration.
LEMMA NothingBetween ==
  ASSUME ClassInv, OneBackfillEach, [Next]_vars, NEW b \in Backfills, at[b] = "promote"
  PROVE  UNCHANGED <<version, input, class[ConfigOf[b]]>>
<1> USE DEF ClassInv, Inv
<1>1. lock[C] = b /\ b \in Sessions
  BY DEF LocksAreHeld, Held, Sessions
<1>2. \A i \in Importers : ~CommitImport(i)
  BY <1>1, SessionAssumption DEF CommitImport, LocksAreHeld, Held, Sessions
<1>3. ASSUME NEW e \in Editors, CommitEdit(e) PROVE UNCHANGED <<version, input, class>>
  <2>1. Kind(e) = "component"
    BY <1>1, <1>3, SessionAssumption DEF CommitEdit, LocksAreHeld, Held, Sessions
  <2> QED
    BY <1>3, <2>1 DEF CommitEdit
<1>4. ASSUME NEW d \in Backfills, CommitRow(d) PROVE UNCHANGED <<version, input, class[ConfigOf[b]]>>
  <2>1. ConfigOf[d] # ConfigOf[b]
    BY <1>4 DEF CommitRow, OneBackfillEach
  <2>2. ConfigOf[b] \in DOMAIN class
    BY ConfigAssumption DEF InputsKnown
  <2>3. class' = class \/ class' = [class EXCEPT ![ConfigOf[d]][job[d].item] = job[d].row]
    BY <1>4 DEF CommitRow
  <2>4. class'[ConfigOf[b]] = class[ConfigOf[b]]
    BY <2>1, <2>2, <2>3
  <2> QED
    BY <1>4, <2>4 DEF CommitRow
<1> QED
  BY <1>2, <1>3, <1>4, OtherSteps DEF CorpusSteps, corpus, UpsertEmbeddings, CommitV2, Promote

\* The rows verified under the lock stay as they were until they are promoted.
LEMMA ResultsVerifiedStep ==
  ASSUME ClassInv, OneBackfillEach, NEW s \in Sessions, Step(s) \/ Abort(s) PROVE ResultsVerified'
<1> USE DEF ClassInv, Inv
<1> SUFFICES ASSUME NEW b \in Backfills, at'[b] = "promote", NEW n \in Current'
             PROVE  class'[ConfigOf[b]][n] = input'[n]
  BY DEF ResultsVerified, Row
<1>1. at[b] = "promote" \/ VerifyResults(b)
  <2>1. ~StartBackfill(b)
    BY DEF StartBackfill, Start, Goto, SessionType, Sessions
  <2> QED
    BY <2>1, BackfillMemory
<1>2. CASE at[b] = "promote"
  <2>1. UNCHANGED <<version, input, class[ConfigOf[b]]>>
    BY <1>2, NothingBetween DEF Next
  <2> QED
    BY <1>2, <2>1 DEF ResultsVerified, Row, Current
<1>3. CASE VerifyResults(b)
  BY <1>3 DEF VerifyResults, RowsMatch, Row, Current, corpus
<1> QED
  BY <1>1, <1>2, <1>3

\* A backfill writes no row of the active configuration for a current profile:
\* it has one, and an active row is not written again.
LEMMA RowsStandAloneStep ==
  ASSUME ClassInv, OneBackfillEach, NEW s \in Sessions, Step(s) \/ Abort(s) PROVE RowsStandAlone'
<1> USE DEF ClassInv, Inv
<1> SUFFICES ASSUME NEW b \in Backfills, at'[b] = "written", active' = ConfigOf[b], Reads(b, job[b].item)'
             PROVE  FALSE
  BY DEF RowsStandAlone
<1>1. [Next]_vars /\ ConfigOf[b] \in Configs /\ ConfigOf[b] # None
  BY ConfigAssumption DEF Next
<1>2. /\ at[b] # "idle" /\ job'[b].version = job[b].version /\ job'[b].item = job[b].item
      /\ at[b] = "written" \/ WriteRow(b)
  <2>1. ~StartBackfill(b)
    BY DEF StartBackfill, Start, Goto, SessionType, Sessions
  <2> QED
    BY <2>1, BackfillMemory
<1>3. Reads(b, job[b].item) /\ job[b].item \in Current
  BY <1>1, <1>2, StaleStays DEF Reads
<1>4. active = ConfigOf[b]
  <2>1. ASSUME NEW d \in Backfills, Promote(d) PROVE FALSE
    <3>1. ConfigOf[d] = ConfigOf[b] /\ at[d] = "promote" /\ at'[d] = "idle"
      BY <2>1 DEF Promote, End, Goto, SessionType, Sessions
    <3> QED
      BY <3>1 DEF OneBackfillEach
  <2>2. \A k : Invalidated(k) \in {active, None}
    BY DEF Invalidated
  <2> QED
    BY <1>1, <2>1, <2>2, OtherSteps DEF CorpusSteps, corpus, CommitImport, Ingested, Retitled, CommitEdit,
       UpsertEmbeddings, CommitV2, CommitRow
<1>5. CASE at[b] = "written"
  BY <1>3, <1>4, <1>5 DEF RowsStandAlone
<1>6. CASE WriteRow(b)
  <2>1. Row(b, job[b].item) = "none"
    BY <1>3, <1>4, <1>6 DEF WriteRow
  <2>2. Row(b, job[b].item) = input[job[b].item] /\ input[job[b].item] \in Inputs
    BY <1>1, <1>3, <1>4 DEF ClassificationComplete, Row, InputsKnown
  <2> QED
    BY <2>1, <2>2, InputAssumption
<1> QED
  BY <1>2, <1>5, <1>6

\* So no step leaves an active configuration with a row that is missing or
\* made from another input.
LEMMA ClassificationStep ==
  ASSUME ClassInv, OneBackfillEach, NEW s \in Sessions, Step(s) \/ Abort(s)
  PROVE  ClassificationComplete'
<1> USE DEF ClassInv, Inv
<1>1. CASE UNCHANGED <<version, input, class, active>>
  BY <1>1 DEF ClassificationComplete, Current
<1>2. CASE active' = None
  BY <1>2 DEF ClassificationComplete
<1>3. ASSUME NEW e \in Editors, CommitEdit(e) PROVE ClassificationComplete'
  <2>1. CASE Kind(e) = "component"
    BY <1>1, <1>3, <2>1 DEF CommitEdit, Invalidated
  <2>2. CASE Kind(e) # "component"
    BY <1>2, <1>3, <2>2 DEF CommitEdit, Invalidated
  <2> QED
    BY <2>1, <2>2
<1>4. ASSUME NEW b \in Backfills, CommitRow(b) PROVE ClassificationComplete'
  <2>1. CASE Reads(b, job[b].item) /\ active # None
    <3>1. active # ConfigOf[b]
      BY <1>4, <2>1 DEF CommitRow, RowsStandAlone
    <3>2. class' = [class EXCEPT ![ConfigOf[b]][job[b].item] = job[b].row]
      BY <1>4, <2>1 DEF CommitRow
    <3>3. UNCHANGED <<version, input, active>>
      BY <1>4 DEF CommitRow
    <3>4. class'[active] = class[active]
      BY <3>1, <3>2
    <3> QED
      BY <3>3, <3>4 DEF ClassificationComplete, Current
  <2> QED
    BY <1>1, <1>2, <1>4, <2>1 DEF CommitRow
<1>5. ASSUME NEW b \in Backfills, Promote(b) PROVE ClassificationComplete'
  BY <1>5 DEF Promote, ResultsVerified, Row, ClassificationComplete, Current
<1>6. ASSUME NEW i \in Importers, CommitImport(i) PROVE ClassificationComplete'
  BY <1>1, <1>2, <1>6 DEF CommitImport, Ingested, Retitled, Invalidated, corpus
<1> QED
  BY <1>1, <1>3, <1>4, <1>5, <1>6, OtherSteps DEF CorpusSteps, corpus, UpsertEmbeddings, CommitV2, Next

\* With one backfill for each configuration the invariant is inductive.
LEMMA ClassInvariantStep == OneBackfillEach /\ ClassInv /\ [Next]_vars => ClassInv'
<1> SUFFICES ASSUME OneBackfillEach, ClassInv, [Next]_vars PROVE ClassInv'
  OBVIOUS
<1>1. Inv' /\ InputsKnown'
  BY InvariantStep, InputsKnownStep DEF ClassInv
<1>2. ASSUME NEW s \in Sessions, Step(s) \/ Abort(s) PROVE ClassInv'
  BY <1>1, <1>2, SnapshotsStep, ResultsVerifiedStep, RowsStandAloneStep, ClassificationStep DEF ClassInv
<1>3. CASE UNCHANGED vars
  BY <1>1, <1>3 DEF vars, ClassInv, Snapshots, ResultsVerified, Row, RowsStandAlone, Reads,
              ClassificationComplete, Current
<1> QED
  BY <1>2, <1>3 DEF Next

\* While a configuration is active every current profile has a prediction made
\* from its present title and facts, whatever is imported or edited while
\* backfills run, as long as no two of them run for the same configuration.
THEOREM ClassificationCorrect ==
  ASSUME OneBackfillEach PROVE Spec => []ClassificationComplete
<1>1. ClassInv /\ [Next]_vars => ClassInv'
  BY ClassInvariantStep
<1>2. ClassInv => ClassificationComplete
  BY DEF ClassInv
<1> QED
  BY ClassInitially, <1>1, <1>2, PTL DEF Spec

-----------------------------------------------------------------------------
(***************************************************************************)
(* Waiting.  Every program takes C, E and a row in this order, a trigger   *)
(* that meets the order from the other side does not wait, and who writes  *)
(* a result waits only for sessions that wait for nobody.                  *)
(***************************************************************************)

\* Where a session is while it holds a lock.
HoldsAt(s, l) ==
  \/ s \in Importers /\ at[s] \in (IF l = C THEN {"E", "row", "commit"}
                                   ELSE IF l = E THEN {"row", "commit"} ELSE {"commit"})
  \/ s \in Editors   /\ at[s] \in (IF l = C THEN {"E", "commit"}
                                   ELSE IF l = E THEN {"commit"} ELSE {"C", "E", "commit"})
  \/ s \in Embedders /\ l = E /\ at[s] \in {"verify", "commit"}
  \/ s \in Backfills /\ l = C /\ at[s] \in {"verify", "promote"}

HoldersAt == \A l \in Locks : lock[l] # Nobody => HoldsAt(lock[l], l)

\* Only importers and editors lock rows.
RowLockers == \A s \in Sessions : at[s] = "row" => s \in Importers \cup Editors

WaitInv == SessionType /\ LocksAreHeld /\ HoldersAt /\ RowLockers

\* A session that goes on keeps its locks where it may hold them.
LEMMA HoldersStep ==
  ASSUME WaitInv, NEW s \in Sessions, Step(s) \/ Abort(s) PROVE HoldersAt'
<1> USE DEF WaitInv
<1>1. Moves(s)
  BY StepMoves
<1>2. at \in [Sessions -> Places] /\ lock \in [Locks -> Sessions \cup {Nobody}] /\ C # E
      /\ C \in Locks /\ E \in Locks /\ C \notin Rows /\ E \notin Rows /\ s # Nobody
  BY SessionAssumption DEF SessionType, Locks, C, E, Rows, Kinds, Sessions
<1>3. lock' \in [Locks -> Sessions \cup {Nobody}]
  BY <1>1, OthersStay
<1> SUFFICES ASSUME NEW l \in Locks, lock'[l] # Nobody PROVE HoldsAt(lock[l], l)'
  BY DEF HoldersAt
<1>4. CASE lock'[l] # s
  <2>1. lock'[l] = lock[l] /\ lock[l] \in Sessions \ {s}
    <3>1. CASE End(s)
      BY <1>2, <1>4, <3>1 DEF End, Released
    <3>2. CASE UNCHANGED lock
      BY <1>2, <1>4, <3>2
    <3>3. CASE \E k \in Locks, p \in Places : Take(s, k, p)
      BY <1>2, <1>4, <3>3 DEF Take
    <3> QED
      BY <1>1, <3>1, <3>2, <3>3 DEF Moves
  <2>2. at'[lock[l]] = at[lock[l]]
    BY <1>1, <2>1, OthersStay
  <2>3. HoldsAt(lock[l], l)
    BY <2>1, SessionAssumption DEF HoldersAt, Sessions
  <2> QED
    BY <2>1, <2>2, <2>3 DEF HoldsAt
<1>5. CASE lock'[l] = s
  <2>0. ~End(s)
    BY <1>2, <1>5 DEF End, Released
  <2>1. lock[l] = s => HoldsAt(s, l)
    BY <1>2 DEF HoldersAt
  <2>9. /\ s \in Importers => s \notin Editors \cup Embedders \cup Backfills
        /\ s \in Editors => s \notin Embedders \cup Backfills
        /\ s \in Embedders => s \notin Backfills
    BY SessionAssumption
  <2> HIDE DEF WaitInv
  <2>8. SessionType /\ LocksAreHeld
    BY DEF WaitInv
  <2>2. CASE s \in Importers /\ Import(s)
    <3>1. CASE StartImport(s)
      BY <1>2, <1>5, <2>1, <2>2, <2>9, <3>1 DEF StartImport, Start, Goto, HoldsAt
    <3>2. CASE LockCurrentVersionActivation(s)
      BY <1>2, <1>5, <2>1, <2>2, <2>9, <3>2 DEF LockCurrentVersionActivation, Take, Goto, HoldsAt
    <3>3. CASE PatchNotice(s)
      BY <1>2, <1>5, <2>1, <2>2, <2>9, <3>3 DEF PatchNotice, Take, Goto, HoldsAt
    <3> QED
      BY <2>0, <2>2, <3>1, <3>2, <3>3 DEF Import, CommitImport
  <2>3. CASE s \in Editors /\ Edit(s)
    <3>1. CASE StartEdit(s)
      BY <1>2, <1>5, <2>1, <2>3, <2>9, <3>1 DEF StartEdit, Start, Goto, HoldsAt
    <3>2. CASE LockRow(s)
      <4>1. at[s] = "row" /\ lock' = [lock EXCEPT ![job[s]] = s] /\ at'[s] \in {"C", "E"}
        BY <1>2, <3>2 DEF LockRow, Take, Goto
      <4>2. job[s] \in Rows
        BY <2>3, <2>8, <4>1 DEF LocksAreHeld, Held
      <4>3. l = job[s]
        BY <1>2, <1>5, <2>1, <2>3, <2>9, <4>1, <4>2 DEF HoldsAt
      <4> QED
        BY <1>2, <1>5, <2>3, <4>1, <4>2, <4>3 DEF HoldsAt
    <3>3. CASE TriggersFire(s)
      <4>1. CASE at[s] = "C" /\ Take(s, C, IF Kind(s) = "title" THEN "commit" ELSE "E")
        <5>1. at'[s] \in {"commit", "E"} /\ (l = C \/ lock[l] = s)
          BY <1>2, <1>5, <4>1 DEF Take, Goto
        <5>2. l = C \/ (l # E /\ l # C)
          BY <1>2, <2>1, <2>3, <2>9, <4>1, <5>1 DEF HoldsAt
        <5> QED
          BY <1>2, <1>5, <2>3, <5>1, <5>2 DEF HoldsAt
      <4>2. CASE at[s] = "E" /\ Take(s, E, "commit")
        BY <1>2, <1>5, <2>1, <2>3, <2>9, <4>2 DEF Take, Goto, HoldsAt
      <4> QED
        BY <2>0, <3>3, <4>1, <4>2 DEF TriggersFire, Try
    <3> QED
      BY <2>0, <2>3, <3>1, <3>2, <3>3 DEF Edit, CommitEdit
  <2>4. CASE s \in Embedders /\ Embed(s)
    <3>1. CASE StartEmbedding(s) \/ ReadProfile(s)
      BY <1>2, <1>5, <2>1, <2>4, <2>9, <3>1 DEF StartEmbedding, Start, ReadProfile, Goto, HoldsAt
    <3>2. CASE UpsertEmbeddings(s)
      BY <1>2, <1>5, <2>0, <2>1, <2>4, <2>9, <3>2 DEF UpsertEmbeddings, Goto, HoldsAt
    <3>3. CASE LockEmbedding(s)
      BY <1>2, <1>5, <2>1, <2>4, <2>9, <3>3 DEF LockEmbedding, Take, Goto, HoldsAt
    <3>4. CASE VerifyEmbeddings(s)
      BY <1>2, <1>5, <2>1, <2>4, <2>9, <3>4 DEF VerifyEmbeddings, Goto, HoldsAt
    <3> QED
      BY <2>0, <2>4, <3>1, <3>2, <3>3, <3>4 DEF Embed, CommitV2
  <2>5. CASE s \in Backfills /\ Classify(s)
    <3>1. CASE StartBackfill(s) \/ NextProfile(s) \/ WriteRow(s) \/ Finished(s)
      BY <1>2, <1>5, <2>1, <2>5, <2>9, <3>1 DEF StartBackfill, Start, NextProfile, WriteRow, Finished, Goto, HoldsAt
    <3>2. CASE CommitRow(s)
      BY <1>2, <1>5, <2>0, <2>1, <2>5, <2>9, <3>2 DEF CommitRow, Goto, HoldsAt
    <3>3. CASE LockClassification(s)
      BY <1>2, <1>5, <2>1, <2>5, <2>9, <3>3 DEF LockClassification, Take, Goto, HoldsAt
    <3>4. CASE VerifyResults(s)
      BY <1>2, <1>5, <2>1, <2>5, <2>9, <3>4 DEF VerifyResults, Goto, HoldsAt
    <3> QED
      BY <2>0, <2>5, <3>1, <3>2, <3>3, <3>4 DEF Classify, Promote
  <2> QED
    BY <1>5, <2>0, <2>2, <2>3, <2>4, <2>5 DEF Step, Abort
<1> QED
  BY <1>4, <1>5

\* An embedding or a classification backfill never comes to lock a row.
LEMMA RowLockersStep ==
  ASSUME WaitInv, NEW s \in Sessions, Step(s) \/ Abort(s) PROVE RowLockers'
<1> USE DEF WaitInv
<1>1. ASSUME NEW r \in Sessions \ {s} PROVE at'[r] = at[r]
  BY StepMoves, OthersStay
<1>2. at \in [Sessions -> Places]
  BY DEF SessionType
<1>3. ASSUME at'[s] = "row", s \notin Importers \cup Editors PROVE at[s] = "row"
  <2>1. CASE s \in Embedders /\ Embed(s)
    BY <1>2, <1>3, <2>1 DEF Embed, StartEmbedding, Start, ReadProfile, UpsertEmbeddings, LockEmbedding, Take,
       VerifyEmbeddings, CommitV2, End, Goto
  <2>2. CASE s \in Backfills /\ Classify(s)
    BY <1>2, <1>3, <2>2 DEF Classify, StartBackfill, Start, NextProfile, WriteRow, CommitRow, Finished,
       LockClassification, Take, VerifyResults, Promote, End, Goto
  <2>3. CASE Abort(s)
    BY <1>2, <1>3, <2>3 DEF Abort, End, Goto
  <2> QED
    BY <1>3, <2>1, <2>2, <2>3 DEF Step
<1> QED
  BY <1>1, <1>3 DEF RowLockers

\* A blocked session waits at C, at E, for a row, or for a session that itself
\* is not blocked.
LEMMA BlockedAt ==
  ASSUME WaitInv, NEW s \in Blocked, NEW r \in Needs(s) \cap Blocked
  PROVE  \/ at[s] = "C" /\ at[r] # "C"
         \/ at[s] = "E" /\ at[r] = "row"
<1> USE DEF WaitInv
<1>0. /\ s \in Sessions /\ r \in Sessions
      /\ Needs(s) # {} /\ Needs(r) # {}
      /\ ~(s \in Editors /\ at[s] \in {"C", "E"}) /\ ~(r \in Editors /\ at[r] \in {"C", "E"})
  BY DEF Blocked
<1>1. at[r] \in {"C", "E", "row", "write"} \/ (at[r] = "verify" /\ r \in Backfills)
  BY <1>0 DEF Needs
<1>2. /\ r \in Importers => r \notin Editors \cup Embedders \cup Backfills
      /\ r \in Editors => r \notin Embedders \cup Backfills
      /\ r \in Embedders => r \notin Backfills
      /\ s \in Importers => s \notin Editors
      /\ C # E /\ C \notin Rows /\ E \notin Rows
  BY SessionAssumption DEF C, E, Rows, Kinds
<1>3. ASSUME NEW l \in Locks, r \in Holder(l) PROVE HoldsAt(r, l)
  BY <1>3 DEF Holder, HoldersAt
<1>4. CASE at[s] = "C"
  <2>1. HoldsAt(r, C)
    BY <1>3, <1>4 DEF Needs, Locks
  <2> QED
    BY <1>2, <1>4, <2>1 DEF HoldsAt
<1>5. CASE at[s] = "E"
  <2>1. HoldsAt(r, E)
    BY <1>3, <1>5 DEF Needs, Locks
  <2> QED
    BY <1>1, <1>2, <1>5, <2>1 DEF HoldsAt
<1>6. CASE at[s] = "row"
  <2>1. PICK l : r \in Holder(l) /\ l = (IF s \in Importers THEN <<job[s], "title">> ELSE job[s])
    BY <1>6 DEF Needs
  <2>2. lock[l] = r
    BY <2>1 DEF Holder
  <2>3. l \in Rows
    <3>1. s \in Importers => job[s] \in Notices
      BY <1>0, <1>6 DEF LocksAreHeld, Held
    <3>2. s \in Editors => job[s] \in Rows
      BY <1>0, <1>6 DEF LocksAreHeld, Held
    <3>3. s \in Importers \cup Editors
      BY <1>0, <1>6 DEF RowLockers
    <3> QED
      BY <2>1, <3>1, <3>2, <3>3 DEF Rows, Kinds
  <2>4. HoldsAt(r, l)
    BY <1>3, <2>1, <2>3 DEF Locks
  <2> QED
    BY <1>0, <1>1, <1>2, <2>3, <2>4 DEF HoldsAt
<1>7. CASE at[s] = "write" \/ at[s] = "verify"
  <2>1. r \in Backfills /\ at[r] \in {"written", "promote"}
    BY <1>0, <1>7 DEF Needs
  <2> QED
    BY <1>1, <2>1
<1> QED
  BY <1>0, <1>4, <1>5, <1>6, <1>7 DEF Needs

\* So no set of blocked sessions is closed under needing.
LEMMA NoCircle == WaitInv => WaitsAcyclic
<1> SUFFICES ASSUME WaitInv, NEW S \in (SUBSET Blocked) \ {{}} PROVE \E s \in S : Needs(s) \cap S = {}
  BY DEF WaitsAcyclic
<1>1. ASSUME NEW s \in S, at[s] \notin {"C", "E"} PROVE \E t \in S : Needs(t) \cap S = {}
  BY <1>1, BlockedAt
<1>2. ASSUME NEW s \in S, at[s] = "E", \A t \in S : at[t] \in {"C", "E"} PROVE Needs(s) \cap S = {}
  BY <1>2, BlockedAt
<1>3. ASSUME NEW s \in S, \A t \in S : at[t] = "C" PROVE Needs(s) \cap S = {}
  BY <1>3, BlockedAt
<1> QED
  BY <1>1, <1>2, <1>3

\* No circle of blocked sessions can form, whatever the number of sessions of
\* each program: every one that waits is let go on by one that does not.
THEOREM WaitsCorrect == Spec => []WaitsAcyclic
<1>1. Init => WaitInv
  <2>1. Init => HoldersAt /\ RowLockers
    BY DEF Init, HoldersAt, RowLockers, Locks
  <2> QED
    BY <2>1, Initially DEF WaitInv, Inv
<1>2. WaitInv /\ [Next]_vars => WaitInv'
  <2> SUFFICES ASSUME WaitInv, [Next]_vars PROVE WaitInv'
    OBVIOUS
  <2>1. ASSUME NEW s \in Sessions, Step(s) \/ Abort(s) PROVE WaitInv'
    BY <2>1, HoldersStep, RowLockersStep, LocksStayHeld DEF WaitInv
  <2>2. CASE UNCHANGED vars
    BY <2>2 DEF vars, WaitInv, SessionType, LocksAreHeld, Held, Kind, HoldersAt, HoldsAt, RowLockers
  <2> QED
    BY <2>1, <2>2 DEF Next
<1> QED
  BY <1>1, <1>2, NoCircle, PTL DEF Spec
=============================================================================
