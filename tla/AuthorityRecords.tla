--------------------------- MODULE AuthorityRecords ---------------------------
(***************************************************************************)
(* Durable authority records (metadata_store.py, r6_repository.py,         *)
(* r7_repository.py, evidence/claim_admissibility.py): a record is a JSON  *)
(* artifact, its reference in artifact_references and a row, written in    *)
(* that order by three transactions, over ArtifactStore.                   *)
(*                                                                         *)
(* Three protocols share the order.  A candidate (a ClaimCandidate, and in *)
(* the same way an AnalysisRequest or a DataSufficiencyResult) is looked   *)
(* up first and inserted with a plain INSERT.  An indexed record (the R6   *)
(* and R7 repositories) is looked up first and inserted with INSERT OR     *)
(* IGNORE and a comparison.  A ClaimDecision has an id of its own for      *)
(* every evaluation and a fingerprint over its candidate's.                *)
(***************************************************************************)
EXTENDS ArtifactStore

CONSTANTS
  Candidates,  \* ids of claim candidates
  Decisions,   \* ids an evaluation may generate
  Indexed      \* ids of R6 and R7 artifacts

\* What a decision says, and whether its fingerprint covers a candidate's.
Outcomes == {"admissible", "inadmissible", "unbound"}

Payloads == Versions \ Outcomes

ASSUME RecordsAssumption ==
  /\ Paths = Candidates \cup Decisions \cup Indexed
  /\ Candidates \cap Decisions = {} /\ Indexed \cap (Candidates \cup Decisions) = {}
  /\ Outcomes \subseteq Versions

VARIABLES
  row,    \* the row of each record: the payload it caches, or None
  about,  \* the candidate a decision names, or None
  subject \* the decision each evaluation in progress is about to write

recordVars == <<storeVars, row, about, subject>>

Init ==
  /\ StoreInit
  /\ row = [r \in Paths |-> None]
  /\ about = [d \in Decisions |-> None]
  /\ subject = [w \in Writers |-> None]

-----------------------------------------------------------------------------
(* Candidates and indexed records.                                         *)

BeginInsert(w) ==
  /\ pc[w] = "idle"
  /\ \E r \in Candidates \cup Indexed, v \in Payloads :
       want' = [want EXCEPT ![w] =
                  [path |-> r, content |-> [id |-> r, version |-> v]]]
  /\ Goto(w, "check")
  /\ UNCHANGED <<json, index, ref, row, about, subject>>

\* _stable_record_needs_insert, or the existing branch of _persist_model,
\* which reads an equal record back.
CheckRow(w) ==
  /\ pc[w] = "check"
  /\ LET r == want[w].path
     IN  Goto(w, IF row[r] = None THEN "find"
                 ELSE IF row[r] # want[w].content THEN "raised"
                 ELSE IF r \in Indexed THEN "load" ELSE "done")
  /\ UNCHANGED <<json, index, want, ref, row, about, subject>>

-----------------------------------------------------------------------------
(* Claim decisions.                                                        *)

\* evaluate_claim_admissibility: without a persisted candidate the outcome
\* is inadmissible, and names the candidate all the same.
Evaluate(w) ==
  /\ pc[w] = "idle"
  /\ \E d \in Decisions, c \in Candidates :
       /\ about[d] = None
       /\ about' = [about EXCEPT ![d] = c]
       /\ \E o \in IF row[c] = None THEN {"unbound"} ELSE {"admissible", "inadmissible"} :
            subject' = [subject EXCEPT ![w] = [id |-> d, version |-> o]]
  /\ Goto(w, "derive")
  /\ UNCHANGED <<json, index, want, ref, row>>

\* Mutant: an absent candidate is good enough for an admissible decision.
BindsUnread(o, candidate) == IF o = "unbound" THEN "admissible" ELSE o

\* The outcome once the candidate's fingerprint is, or is not, part of it.
\* (An admissible one without a candidate is refused; rows are never removed.)
Binds(o, candidate) ==
  IF candidate = None THEN "unbound"
  ELSE IF o = "unbound" THEN "inadmissible" ELSE o

\* _insert_evaluated_claim_decision looks the candidate up again.
DeriveFingerprint(w) ==
  /\ pc[w] = "derive"
  /\ LET d == subject[w].id
         o == Binds(subject[w].version, row[about[d]])
     IN  want' = [want EXCEPT ![w] =
                    [path |-> d, content |-> [id |-> d, version |-> o]]]
  /\ subject' = [subject EXCEPT ![w] = None]
  /\ Goto(w, "find")
  /\ UNCHANGED <<json, index, ref, row, about>>

-----------------------------------------------------------------------------
(* The row, and reading it back.                                           *)

\* Mutant: the row is committed when the artifact has been found missing.
InsertRowFirst(w) ==
  /\ pc[w] = "link" /\ row[want[w].path] = None
  /\ row' = [row EXCEPT ![want[w].path] = want[w].content]
  /\ UNCHANGED <<storeVars, about, subject>>

\* Mutant: the row caches the reference instead of the payload.
InsertReference(w) ==
  /\ pc[w] = "insert" /\ row[want[w].path] = None
  /\ row' = [row EXCEPT ![want[w].path] = ref[w]]
  /\ Goto(w, "load")
  /\ UNCHANGED <<json, index, want, ref, about, subject>>

InsertRow(w) ==
  /\ pc[w] = "insert"
  /\ LET r == want[w].path
     IN  IF row[r] = None
         THEN row' = [row EXCEPT ![r] = ref[w].content] /\ Goto(w, "load")
         ELSE /\ row' = row
              /\ Goto(w, IF r \in Indexed /\ row[r] = ref[w].content
                         THEN "load" ELSE "raised")
  /\ UNCHANGED <<json, index, want, ref, about, subject>>

\* What every verified read asks of a row: its reference, the bytes at its
\* path and, for a decision, the fingerprint computed again from what the
\* candidate's row holds now.
Verifies(r) ==
  /\ row[r] # None
  /\ index[row[r]] = r /\ json[r] = row[r]
  /\ r \in Decisions => (row[r].version = "unbound" <=> row[about[r]] = None)

LoadRow(w) ==
  /\ pc[w] = "load"
  /\ Goto(w, IF Verifies(want[w].path) THEN "done" ELSE "raised")
  /\ UNCHANGED <<json, index, want, ref, row, about, subject>>

-----------------------------------------------------------------------------

\* The call returns, raises, or its process dies; a retry starts over.
Leave(w) ==
  /\ pc[w] # "idle"
  /\ Goto(w, "idle")
  /\ want' = [want EXCEPT ![w] = None] /\ ref' = [ref EXCEPT ![w] = None]
  /\ subject' = [subject EXCEPT ![w] = None]
  /\ UNCHANGED <<json, index, row, about>>

Persist(w) ==
  \/ WriteArtifact(w) /\ UNCHANGED <<row, about, subject>>
  \/ CheckRow(w) \/ DeriveFingerprint(w) \/ InsertRow(w) \/ LoadRow(w)

Next == \E w \in Writers : BeginInsert(w) \/ Evaluate(w) \/ Persist(w) \/ Leave(w)

Spec == Init /\ [][Next]_recordVars

-----------------------------------------------------------------------------
(* Properties.                                                             *)

Labels == {"idle", "check", "derive", "find", "link", "hash", "register",
           "insert", "load", "done", "raised"}

TypeOK ==
  /\ StoreTypeOK
  /\ pc \in [Writers -> Labels]
  /\ row \in [Paths -> Contents \cup {None}]
  /\ about \in [Decisions -> Candidates \cup {None}]
  /\ subject \in [Writers -> [id : Decisions, version : Outcomes] \cup {None}]

(* Whatever two writers and any number of deaths interleave, the row of a   *)
(* record always passes the verified read the repositories make of it: a   *)
(* reader never meets a row before its reference and its bytes, and no      *)
(* later call disturbs them.  Decisions are covered when their fingerprint  *)
(* covers a candidate, so an admissible one always is.                      *)
RowsVerify ==
  \A r \in Paths :
    row[r] # None /\ row[r].version # "unbound" => Verifies(r)

(* An admissible decision is never persisted for a candidate whose row is   *)
(* missing, although the candidate is read before the decision is written.  *)
AdmissibleHasCandidate ==
  \A d \in Decisions :
    row[d] # None /\ row[d].version = "admissible" => row[about[d]] # None

(* Artifacts left behind by a writer that died, or by one that lost a race, *)
(* never make a record impossible to persist: a call that raises found      *)
(* other bytes under its id, or the record it wanted is already there.      *)
RefusesOnlyConflicts ==
  \A w \in Writers : pc[w] = "raised" =>
    \/ json[want[w].path] # want[w].content
    \/ row[want[w].path] = want[w].content

(* Contradicted: test_claim_decision_persists_immutable_verifiable_artifact *)
(* names every persisted decision verifiable; one that was refused because  *)
(* its candidate was not persisted stops verifying when the candidate is.   *)
DecisionsStayVerifiable ==
  \A d \in Decisions : row[d] # None => Verifies(d)

Once == INSTANCE WriteOnce WITH
  Records <- Paths, Payloads <- Contents, published <- json, committed <- row

(* Artifacts and rows implement the write-once promise.                     *)
ImplementsWriteOnce == Once!Spec

-----------------------------------------------------------------------------
(* The inductive invariant.                                                *)

StoresAgree ==
  /\ \A p \in Paths : json[p] # None => json[p].id = p
  /\ \A c \in Contents : index[c] # None => index[c] = c.id /\ json[c.id] = c
  /\ \A p \in Paths : row[p] # None => json[p] = row[p] /\ index[row[p]] = p

WritersFit ==
  \A w \in Writers :
    /\ pc[w] \in {"check", "find", "link", "hash", "register", "insert", "load"} =>
         want[w] # None /\ want[w].content.id = want[w].path
    /\ pc[w] \in {"hash", "register", "insert", "load"} =>
         json[want[w].path] = want[w].content
    /\ pc[w] \in {"register", "insert"} => ref[w] = want[w]
    /\ pc[w] = "insert" => index[want[w].content] = want[w].path
    /\ pc[w] = "load" => row[want[w].path] = want[w].content
    /\ pc[w] = "raised" =>
         /\ want[w] # None
         /\ \/ json[want[w].path] \notin {None, want[w].content}
            \/ row[want[w].path] = want[w].content

DecisionsFit ==
  /\ \A d \in Decisions :
       /\ row[d] # None \/ json[d] # None => about[d] # None
       /\ json[d] # None /\ json[d].version # "unbound" => row[about[d]] # None
  /\ \A w \in Writers :
       /\ pc[w] = "derive" => subject[w] # None /\ about[subject[w].id] # None
       /\ want[w] # None /\ want[w].path \in Decisions =>
            /\ about[want[w].path] # None
            /\ want[w].content.version # "unbound" => row[about[want[w].path]] # None

IInv == StoresAgree /\ WritersFit /\ DecisionsFit
=============================================================================
