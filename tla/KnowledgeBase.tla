----------------------------- MODULE KnowledgeBase -----------------------------
(***************************************************************************)
(* The Existing-profile knowledge base and the two things derived from it: *)
(* the v2 embeddings and the Model 1 classifications.  Each is live only   *)
(* while an activation flag is set, and a flag may be set only while the   *)
(* derived rows cover the whole current corpus.                            *)
(*                                                                         *)
(* Four programs share the tables: the importer, SQL writers that edit     *)
(* rows directly, the embedding backfill and the classification backfill.  *)
(* Two advisory locks, C (classification) and E (embedding), and the       *)
(* triggers of the tables keep them apart.  A statement sees what is       *)
(* committed when it runs; a lock is kept until the transaction ends.      *)
(***************************************************************************)
EXTENDS Integers, FiniteSetsExt

CONSTANTS
  Notices,      \* the notices of the corpus
  Inputs,       \* what a title and the approved facts can assemble to
  MaxImports,   \* bound: how many profile versions are imported
  MaxBusy,      \* bound: the sessions under way at once
  Importers, Editors, Embedders, Backfills,  \* the sessions of each program
  Configs,      \* the classification configurations
  ConfigOf,     \* the configuration a classification backfill runs for
  Nobody, None

ASSUME ConfigAssumption == ConfigOf \in [Backfills -> Configs] /\ None \notin Configs
ASSUME InputAssumption  == Inputs \cap {"none", "failed", None} = {}
ASSUME SessionAssumption ==
  /\ Nobody \notin Importers \cup Editors \cup Embedders \cup Backfills
  /\ Importers \cap (Editors \cup Embedders \cup Backfills) = {}
  /\ Editors \cap (Embedders \cup Backfills) = {}
  /\ Embedders \cap Backfills = {}

VARIABLES
  version,   \* the current profile version of a notice; 0 before its import
  input,     \* the Model 1 input of the current version; None before its import
  class,     \* its row under each configuration: "none", "failed" or the
             \* input whose prediction it holds
  active,    \* the active classification configuration
  embedded,  \* the current version has its v2 embeddings of all four scopes
  v2,        \* v2 is the active embedding configuration, not v1
  lock,      \* the session that holds a lock
  at,        \* what a session does next
  job        \* what it remembers

corpus == <<version, input, class, active, embedded, v2>>
vars   == <<version, input, class, active, embedded, v2, lock, at, job>>

C == <<"lock", "classification">>
E == <<"lock", "embedding">>
Kinds    == {"title", "fact", "component"}
Rows     == Notices \X Kinds   \* the rows an importer or an editor changes
Sessions == Importers \cup Editors \cup Embedders \cup Backfills

Init ==
  /\ version = [n \in Notices |-> 0]
  /\ input = [n \in Notices |-> None]
  /\ class = [c \in Configs |-> [n \in Notices |-> "none"]]
  /\ active = None
  /\ embedded = [n \in Notices |-> FALSE]
  /\ v2 = FALSE
  /\ lock = [l \in {C, E} \cup Rows |-> Nobody]
  /\ at = [s \in Sessions |-> "idle"]
  /\ job = [s \in Sessions |-> <<>>]

-----------------------------------------------------------------------------
(***************************************************************************)
(* Transactions and the locks they hold.                                   *)
(***************************************************************************)

Current == {n \in Notices : version[n] > 0}

Goto(s, p)       == at' = [at EXCEPT ![s] = p]
Remember(s, v)   == job' = [job EXCEPT ![s] = v]
Released(s)      == [l \in DOMAIN lock |-> IF lock[l] = s THEN Nobody ELSE lock[l]]

\* The session ends, by commit or by rollback.
End(s) ==
  /\ lock' = Released(s)
  /\ Goto(s, "idle")
  /\ Remember(s, <<>>)

\* The bounds.
MayStart  == Cardinality({r \in Sessions : at[r] # "idle"}) < MaxBusy
MayImport == MapThenSumSet(LAMBDA n : version[n], Notices) < MaxImports

\* A session that is not under way begins with p and remembers v.
Start(s, p, v) ==
  /\ at[s] = "idle"
  /\ MayStart
  /\ Goto(s, p)
  /\ Remember(s, v)
  /\ UNCHANGED <<corpus, lock>>

\* Wait for a lock.
Take(s, l, p) ==
  /\ lock[l] = Nobody
  /\ lock' = [lock EXCEPT ![l] = s]
  /\ Goto(s, p)
  /\ UNCHANGED <<corpus, job>>

\* A slip, to be found by NoWaitCycle: the trigger waits for the lock.
TryWaiting(s, l, p) == Take(s, l, p)

\* A trigger does not wait: without the lock the writer is rolled back.
Try(s, l, p) ==
  \/ Take(s, l, p)
  \/ lock[l] \notin {Nobody, s} /\ End(s) /\ UNCHANGED corpus

\* Any session may fail or lose its connection while it is under way.
Abort(s) == at[s] # "idle" /\ End(s) /\ UNCHANGED corpus

-----------------------------------------------------------------------------
(***************************************************************************)
(* Slips: forms of the code that must break a property.                    *)
(***************************************************************************)

\* The rows are not compared with the inputs read again under the lock.
RowsMatchNothing(b) == TRUE

\* A changed corpus leaves the embeddings active.
DemotedNever(kind) == v2

-----------------------------------------------------------------------------
(***************************************************************************)
(* What a change of the corpus does to the two activation flags.           *)
(***************************************************************************)

\* invalidate_active_classification_on_kb_change
Invalidated(kind) == IF kind = "component" THEN active ELSE None

\* serialise_current_version_embedding_activation
Demoted(kind) == IF kind = "title" THEN v2 ELSE FALSE

-----------------------------------------------------------------------------
(***************************************************************************)
(* ingest_existing_profile.py: C, then E, then the rows of one notice.     *)
(***************************************************************************)

StartImport(i) == \E n \in Notices : Start(i, "C", n)

LockCurrentVersionActivation(i) ==
  \/ at[i] = "C" /\ Take(i, C, "E")
  \/ at[i] = "E" /\ Take(i, E, "row")

PatchNotice(i) == at[i] = "row" /\ Take(i, <<job[i], "title">>, "commit")

\* A profile that is not stored yet becomes the current version.
Ingested(n) ==
  /\ MayImport
  /\ version'  = [version EXCEPT ![n] = @ + 1]
  /\ \E i \in Inputs : input' = [input EXCEPT ![n] = i]
  /\ class'    = [c \in Configs |-> [class[c] EXCEPT ![n] = "none"]]
  /\ embedded' = [embedded EXCEPT ![n] = FALSE]
  /\ active'   = Invalidated("fact")
  /\ v2'       = Demoted("fact")

\* A title change reaches the triggers of the notice only.
Retitled(n) ==
  /\ n \in Current
  /\ \E i \in Inputs \ {input[n]} : input' = [input EXCEPT ![n] = i]
  /\ active' = Invalidated("title")
  /\ v2' = Demoted("title")
  /\ UNCHANGED <<version, class, embedded>>

\* The record is new, or known already, with the same title or another one.
CommitImport(i) ==
  /\ at[i] = "commit"
  /\ \/ Ingested(job[i])
     \/ Retitled(job[i])
     \/ job[i] \in Current /\ UNCHANGED corpus
  /\ End(i)

-----------------------------------------------------------------------------
(***************************************************************************)
(* A direct SQL write to a row of the current corpus: the row is locked    *)
(* when its triggers run, C before the change and E after it.              *)
(***************************************************************************)

StartEdit(e) == \E n \in Current, kind \in Kinds : Start(e, "row", <<n, kind>>)

Kind(e) == job[e][2]

LockRow(e) == at[e] = "row" /\ Take(e, job[e], IF Kind(e) = "component" THEN "E" ELSE "C")

TriggersFire(e) ==
  \/ at[e] = "C" /\ Try(e, C, IF Kind(e) = "title" THEN "commit" ELSE "E")
  \/ at[e] = "E" /\ Try(e, E, "commit")

CommitEdit(e) ==
  /\ at[e] = "commit"
  /\ IF Kind(e) = "component" THEN UNCHANGED input
     ELSE \E i \in Inputs :
            /\ Kind(e) = "title" => i # input[job[e][1]]
            /\ input' = [input EXCEPT ![job[e][1]] = i]
  /\ active' = Invalidated(Kind(e))
  /\ v2' = Demoted(Kind(e))
  /\ UNCHANGED <<version, class, embedded>>
  /\ End(e)

-----------------------------------------------------------------------------
(***************************************************************************)
(* embed_existing_profiles.py: each profile of the local pack is matched   *)
(* with the current version, all embeddings are committed at once, and v2  *)
(* takes over under E if the pack is exactly the current corpus.           *)
(***************************************************************************)

StartEmbedding(x) ==
  \E pack \in SUBSET Notices \ {{}} : Start(x, "read", [n \in pack |-> 0])

\* _profile_version: one query for each profile.
ReadProfile(x) ==
  /\ at[x] = "read"
  /\ \E n \in DOMAIN job[x] :
       /\ job[x][n] = 0 /\ n \in Current
       /\ Remember(x, [job[x] EXCEPT ![n] = version[n]])
  /\ UNCHANGED <<corpus, lock, at>>

PackIsCurrent(x) == job[x] = [n \in Current |-> version[n]]

\* The ids are compared right after the commit, and again under the lock.
UpsertEmbeddings(x) ==
  /\ at[x] = "read"
  /\ \A n \in DOMAIN job[x] : job[x][n] # 0
  /\ embedded' = [n \in Notices |->
                    embedded[n] \/ (n \in DOMAIN job[x] /\ job[x][n] = version[n])]
  /\ IF PackIsCurrent(x) THEN Goto(x, "E") /\ UNCHANGED <<lock, job>> ELSE End(x)
  /\ UNCHANGED <<version, input, class, active, v2>>

LockEmbedding(x) == at[x] = "E" /\ Take(x, E, "verify")

\* A mismatch rolls the transaction back, as Abort does.
VerifyEmbeddings(x) ==
  /\ at[x] = "verify"
  /\ PackIsCurrent(x)
  /\ \A n \in Current : embedded[n]
  /\ Goto(x, "commit")
  /\ UNCHANGED <<corpus, lock, job>>

CommitV2(x) ==
  /\ at[x] = "commit"
  /\ v2' = TRUE
  /\ UNCHANGED <<version, input, class, active, embedded>>
  /\ End(x)

-----------------------------------------------------------------------------
(***************************************************************************)
(* existing_model1.py and classify_existing_model1.py: the inputs of the   *)
(* current corpus are read once; each profile without a result is          *)
(* predicted and its row committed; the configuration is promoted under C. *)
(***************************************************************************)

Row(b, n)     == class[ConfigOf[b]][n]
SameRow(b, d) == ConfigOf[b] = ConfigOf[d] /\ job[b].item = job[d].item

\* The version the backfill has read is the current one still.
Reads(b, n) == n \in DOMAIN job[b].version /\ job[b].version[n] = version[n]

StartBackfill(b) ==
  /\ Current # {}
  /\ Start(b, "next", [version |-> [n \in Current |-> version[n]],
                       input   |-> [n \in Current |-> input[n]],
                       todo |-> Current, item |-> None, row |-> "none", inserts |-> FALSE])

\* has_result: a prediction of the same input is not made again.
NextProfile(b) ==
  /\ at[b] = "next"
  /\ \E n \in job[b].todo :
       LET known == Reads(b, n) /\ Row(b, n) = job[b].input[n]
       IN  /\ Remember(b, [job[b] EXCEPT !.todo = @ \ {n}, !.item = IF known THEN None ELSE n])
           /\ Goto(b, IF known THEN "next" ELSE "write")
  /\ UNCHANGED <<corpus, lock>>

\* Another backfill holds the row this one would write, or the configuration.
RowBusy(b)    == \E d \in Backfills \ {b} : at[d] = "written" /\ SameRow(b, d)
ConfigBusy(b) == \E d \in Backfills \ {b} : at[d] = "promote" /\ ConfigOf[b] = ConfigOf[d]
Inserted(b)   == \E d \in Backfills \ {b} :
                   at[d] = "written" /\ job[d].inserts /\ ConfigOf[b] = ConfigOf[d]

\* write_result or write_failure.  The row of an active configuration is not
\* changed; a new row refers to its configuration and waits for who holds it.
WriteRow(b) ==
  LET n      == job[b].item
      exists == Reads(b, n) /\ Row(b, n) # "none"
  IN  /\ at[b] = "write"
      /\ ~RowBusy(b)
      /\ IF exists THEN active # ConfigOf[b] ELSE ~ConfigBusy(b)
      /\ \E outcome \in {"failed", job[b].input[n]} :
           Remember(b, [job[b] EXCEPT !.row = outcome, !.inserts = ~exists])
      /\ Goto(b, "written")
      /\ UNCHANGED <<corpus, lock>>

\* A failed prediction ends the backfill.
CommitRow(b) ==
  /\ at[b] = "written"
  /\ class' = IF Reads(b, job[b].item)
              THEN [class EXCEPT ![ConfigOf[b]][job[b].item] = job[b].row] ELSE class
  /\ IF job[b].row = "failed" THEN End(b)
     ELSE /\ Goto(b, "next")
          /\ Remember(b, [job[b] EXCEPT !.item = None, !.row = "none", !.inserts = FALSE])
          /\ UNCHANGED lock
  /\ UNCHANGED <<version, input, active, embedded, v2>>

Finished(b) == at[b] = "next" /\ job[b].todo = {} /\ Goto(b, "C") /\ UNCHANGED <<corpus, lock, job>>

LockClassification(b) == at[b] = "C" /\ Take(b, C, "verify")

RowsMatch(b) ==
  /\ job[b].version = [n \in Current |-> version[n]]
  /\ \A n \in Current : job[b].input[n] = input[n] /\ Row(b, n) = input[n]

\* verify_and_promote: the configuration is locked, inputs and rows compared.
VerifyResults(b) ==
  /\ at[b] = "verify"
  /\ ~Inserted(b)
  /\ RowsMatch(b)
  /\ Goto(b, "promote")
  /\ UNCHANGED <<corpus, lock, job>>

\* promote_classification_configuration counts the predictions once more and
\* commits.
Promote(b) ==
  /\ at[b] = "promote"
  /\ \A n \in Current : Row(b, n) \in Inputs
  /\ active' = ConfigOf[b]
  /\ UNCHANGED <<version, input, class, embedded, v2>>
  /\ End(b)

-----------------------------------------------------------------------------

Import(i)   == StartImport(i) \/ LockCurrentVersionActivation(i) \/ PatchNotice(i) \/ CommitImport(i)
Edit(e)     == StartEdit(e) \/ LockRow(e) \/ TriggersFire(e) \/ CommitEdit(e)
Embed(x)    == \/ StartEmbedding(x) \/ ReadProfile(x) \/ UpsertEmbeddings(x)
               \/ LockEmbedding(x) \/ VerifyEmbeddings(x) \/ CommitV2(x)
Classify(b) == \/ StartBackfill(b) \/ NextProfile(b) \/ WriteRow(b) \/ CommitRow(b) \/ Finished(b)
               \/ LockClassification(b) \/ VerifyResults(b) \/ Promote(b)

Step(s) ==
  \/ s \in Importers /\ Import(s)
  \/ s \in Editors   /\ Edit(s)
  \/ s \in Embedders /\ Embed(s)
  \/ s \in Backfills /\ Classify(s)

Next == \E s \in Sessions : Step(s) \/ Abort(s)

Spec == Init /\ [][Next]_vars

-----------------------------------------------------------------------------
(***************************************************************************)
(* Properties.                                                             *)
(***************************************************************************)

\* While a classification configuration is active, every current profile has
\* a prediction under it that was made from its present title and facts.
ClassificationComplete ==
  active # None => \A n \in Current : class[active][n] = input[n]

\* While v2 is active, every current profile can be found by its embeddings.
EmbeddingsComplete == v2 => \A n \in Current : embedded[n]

\* The sessions that have what a session needs next.
Holder(l) == {lock[l]} \ {Nobody}
Needs(s) ==
  CASE at[s] = "C" -> Holder(C)
    [] at[s] = "E" -> Holder(E)
    [] at[s] = "row" -> Holder(IF s \in Importers THEN <<job[s], "title">> ELSE job[s])
    [] at[s] = "write" -> {d \in Backfills : at[d] \in {"written", "promote"} /\ ConfigOf[s] = ConfigOf[d]}
    [] at[s] = "verify" /\ s \in Backfills ->
         {d \in Backfills : at[d] = "written" /\ job[d].inserts /\ ConfigOf[s] = ConfigOf[d]}
    [] OTHER -> {}

\* A writer whose trigger finds a lock taken does not wait: it is rolled back.
Blocked == {s \in Sessions : Needs(s) # {} /\ ~(s \in Editors /\ at[s] \in {"C", "E"})}

\* A session waits if it needs another one and can do nothing else.
Waiting == {s \in Sessions : Needs(s) # {} /\ ~ENABLED Step(s)}

\* Among sessions that need one another some need only sessions outside.
WaitsAcyclic ==
  LET blocked == Blocked
  IN  \A S \in (SUBSET blocked) \ {{}} : \E s \in S : Needs(s) \cap S = {}

\* No sessions wait for each other in a circle: the database never has to
\* kill an import or a promotion to let the others go on.
NoWaitCycle == Waiting \subseteq Blocked /\ WaitsAcyclic
=============================================================================
