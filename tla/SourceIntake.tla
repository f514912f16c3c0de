---------------------------- MODULE SourceIntake ----------------------------
(***************************************************************************)
(* From a source file to a computed result, over one artifact root and its *)
(* metadata store: snapshot_source, register_source, canonicalize_dataset, *)
(* the provenance inserts of run_analysis and the reads of execute_plan.   *)
(* The file belongs to the user, who may save it at any moment; several    *)
(* processes may analyse it into the same stores.                          *)
(*                                                                         *)
(* A version of the file stands for its bytes and, hashes being collision  *)
(* free, for their fingerprint.  The canonicalization request is fixed, so *)
(* a canonical dataset is named by the source it claims and its rows.      *)
(***************************************************************************)
CONSTANTS
  None,       \* no file or row
  Torn,       \* a Parquet file whose writing has begun and not ended
  Processes,  \* analyses that share the stores
  Versions,   \* the bytes the source file may hold
  Rewritten   \* versions with the same rows: other line endings, say

\* The canonical rows of some bytes, named by a version that has them.
RowsOf(v) == IF v \in Rewritten THEN CHOOSE u \in Rewritten : TRUE ELSE v

Rows == {RowsOf(v) : v \in Versions}

\* _material_config and the rows make the semantic fingerprint and the path.
Canonicals == [source : Versions, rows : Rows]

Parquets == Rows \cup {Torn}

ASSUME IntakeAssumption ==
  /\ Rewritten \subseteq Versions
  /\ None \notin Versions \cup {Torn} \cup Canonicals /\ Torn \notin Versions

VARIABLES
  source,      \* the user's file
  snapshots,   \* the file at the path of each fingerprint
  datasets,    \* dataset_registrations, by content fingerprint
  parquet,     \* the file at the path of each canonical dataset
  references,  \* artifact_references: the path of each Parquet content
  canonicals,  \* canonical_dataset_registrations: content each row records
  records,     \* canonicalization_records
  results,     \* what metrics were computed from, and for which source
  pc,          \* what each process does next
  expected,    \* the fingerprint it took of the source
  copied,      \* its temporary copy of the source
  target,      \* the canonical dataset it has derived
  content      \* the content hash of the Parquet file it has written

files == <<snapshots, parquet>>
metadata == <<datasets, references, canonicals, records>>
work == <<pc, expected, copied, target, content>>
vars == <<source, files, metadata, results, work>>

Init ==
  /\ source \in Versions
  /\ snapshots = [v \in Versions |-> None]
  /\ parquet = [c \in Canonicals |-> None]
  /\ references = [b \in Parquets |-> None]
  /\ canonicals = [c \in Canonicals |-> None]
  /\ datasets = {} /\ records = {} /\ results = {}
  /\ pc = [p \in Processes |-> "idle"]
  /\ expected = [p \in Processes |-> None]
  /\ copied = [p \in Processes |-> None]
  /\ target = [p \in Processes |-> None]
  /\ content = [p \in Processes |-> None]

Goto(p, label) == pc' = [pc EXCEPT ![p] = label]

At(p, label) == pc[p] = label

-----------------------------------------------------------------------------
(* snapshot_source and register_source.                                    *)

\* The user saves another version.
Edit ==
  /\ source' \in Versions \ {source}
  /\ UNCHANGED <<files, metadata, results, work>>

Fingerprint(p) ==
  /\ At(p, "idle")
  /\ expected' = [expected EXCEPT ![p] = source]
  /\ Goto(p, "lookup")
  /\ UNCHANGED <<source, files, metadata, results, copied, target, content>>

LookUp(p) ==
  /\ At(p, "lookup")
  /\ LET found == snapshots[expected[p]]
     IN  Goto(p, IF found = None THEN "copy"
                 ELSE IF found = expected[p] THEN "rehash" ELSE "raised")
  /\ UNCHANGED <<source, files, metadata, results, expected, copied, target, content>>

\* The copy reads the source a second time.
CopySource(p) ==
  /\ At(p, "copy")
  /\ copied' = [copied EXCEPT ![p] = source]
  /\ Goto(p, "publish")
  /\ UNCHANGED <<source, files, metadata, results, expected, target, content>>

\* Mutant: a rename that reports success is not checked again.
PublishUnchecked(p) ==
  /\ At(p, "publish")
  /\ snapshots' = [snapshots EXCEPT ![expected[p]] = copied[p]]
  /\ Goto(p, "register")
  /\ UNCHANGED <<source, parquet, metadata, results, expected, copied, target, content>>

\* os.replace overwrites whatever is at the destination by now.
PublishSnapshot(p) ==
  /\ At(p, "publish")
  /\ snapshots' = [snapshots EXCEPT ![expected[p]] = copied[p]]
  /\ Goto(p, "rehash")
  /\ UNCHANGED <<source, parquet, metadata, results, expected, copied, target, content>>

\* A snapshot that differs from the fingerprint is refused, and stays.
RehashSnapshot(p) ==
  /\ At(p, "rehash")
  /\ Goto(p, IF snapshots[expected[p]] = expected[p] THEN "register" ELSE "raised")
  /\ UNCHANGED <<source, files, metadata, results, expected, copied, target, content>>

RegisterDataset(p) ==
  /\ At(p, "register")
  /\ datasets' = datasets \cup {expected[p]}
  /\ Goto(p, "verify")
  /\ UNCHANGED <<source, files, references, canonicals, records, results,
                 expected, copied, target, content>>

-----------------------------------------------------------------------------
(* canonicalize_dataset.                                                   *)

\* _dataset_source_path.
VerifySnapshot(p) ==
  /\ At(p, "verify")
  /\ Goto(p, IF snapshots[expected[p]] = expected[p] THEN "read" ELSE "raised")
  /\ UNCHANGED <<source, files, metadata, results, expected, copied, target, content>>

\* Mutant: the rows are read from the user's file instead of the snapshot.
ReadLiveRows(p) ==
  /\ At(p, "read")
  /\ target' = [target EXCEPT ![p] = [source |-> expected[p], rows |-> RowsOf(source)]]
  /\ Goto(p, "write")
  /\ UNCHANGED <<source, files, metadata, results, expected, copied, content>>

\* The snapshot's path is opened again for its rows; a blocking quality
\* check ends the canonicalization without a dataset.
ReadRows(p) ==
  /\ At(p, "read")
  /\ \/ /\ target' = [target EXCEPT ![p] = [source |-> expected[p],
                                            rows |-> RowsOf(snapshots[expected[p]])]]
        /\ Goto(p, "write")
     \/ Goto(p, "done") /\ target' = target
  /\ UNCHANGED <<source, files, metadata, results, expected, copied, content>>

\* _write_parquet opens the final path and fills it in place.
BeginParquet(p) ==
  /\ At(p, "write")
  /\ parquet' = [parquet EXCEPT ![target[p]] = Torn]
  /\ Goto(p, "fill")
  /\ UNCHANGED <<source, snapshots, metadata, results, expected, copied, target, content>>

FillParquet(p) ==
  /\ At(p, "fill")
  /\ parquet' = [parquet EXCEPT ![target[p]] = target[p].rows]
  /\ Goto(p, "hash")
  /\ UNCHANGED <<source, snapshots, metadata, results, expected, copied, target, content>>

HashParquet(p) ==
  /\ At(p, "hash")
  /\ content' = [content EXCEPT ![p] = parquet[target[p]]]
  /\ Goto(p, "reference")
  /\ UNCHANGED <<source, files, metadata, results, expected, copied, target>>

-----------------------------------------------------------------------------
(* The inserts of run_analysis, each a transaction, and execute_plan.      *)

\* Mutant: INSERT OR REPLACE repoints an artifact that exists elsewhere.
RepointReference(p) ==
  /\ At(p, "reference")
  /\ references' = [references EXCEPT ![content[p]] = target[p]]
  /\ Goto(p, "canonical")
  /\ UNCHANGED <<source, files, datasets, canonicals, records, results,
                 expected, copied, target, content>>

\* artifact_id is the content's alone: the same rows under another path are
\* a provenance conflict.
InsertReference(p) ==
  /\ At(p, "reference")
  /\ IF references[content[p]] \in {None, target[p]}
     THEN /\ references' = [references EXCEPT ![content[p]] = target[p]]
          /\ Goto(p, "canonical")
     ELSE Goto(p, "raised") /\ UNCHANGED references
  /\ UNCHANGED <<source, files, datasets, canonicals, records, results,
                 expected, copied, target, content>>

\* Mutant: a plain INSERT, that refuses the row of an earlier analysis.
InsertCanonicalOnce(p) ==
  /\ At(p, "canonical")
  /\ IF canonicals[target[p]] = None
     THEN /\ canonicals' = [canonicals EXCEPT ![target[p]] = content[p]]
          /\ Goto(p, "record")
     ELSE Goto(p, "raised") /\ UNCHANGED canonicals
  /\ UNCHANGED <<source, files, datasets, references, records, results,
                 expected, copied, target, content>>

\* _stable_record_needs_insert: an equal row is enough, another one conflicts.
InsertCanonical(p) ==
  /\ At(p, "canonical")
  /\ IF canonicals[target[p]] \in {None, content[p]}
     THEN /\ canonicals' = [canonicals EXCEPT ![target[p]] = content[p]]
          /\ Goto(p, "record")
     ELSE Goto(p, "raised") /\ UNCHANGED canonicals
  /\ UNCHANGED <<source, files, datasets, references, records, results,
                 expected, copied, target, content>>

InsertRecord(p) ==
  /\ At(p, "record")
  /\ records' = records \cup {target[p]}
  /\ Goto(p, "check")
  /\ UNCHANGED <<source, files, datasets, references, canonicals, results,
                 expected, copied, target, content>>

\* _verified_canonical_artifact_path.
CheckParquet(p) ==
  /\ At(p, "check")
  /\ Goto(p, IF parquet[target[p]] = content[p] THEN "compute" ELSE "raised")
  /\ UNCHANGED <<source, files, metadata, results, expected, copied, target, content>>

\* Every metric opens the path again; a torn file fails its execution.
Compute(p) ==
  /\ At(p, "compute")
  /\ IF parquet[target[p]] = Torn THEN results' = results
     ELSE results' = results \cup {[source |-> expected[p], rows |-> parquet[target[p]]]}
  /\ Goto(p, "done")
  /\ UNCHANGED <<source, files, metadata, expected, copied, target, content>>

\* The analysis returns, raises, or its process dies.
Leave(p) ==
  /\ ~At(p, "idle")
  /\ Goto(p, "idle")
  /\ expected' = [expected EXCEPT ![p] = None] /\ copied' = [copied EXCEPT ![p] = None]
  /\ target' = [target EXCEPT ![p] = None] /\ content' = [content EXCEPT ![p] = None]
  /\ UNCHANGED <<source, files, metadata, results>>

Register(p) ==
  \/ Fingerprint(p) \/ LookUp(p) \/ CopySource(p) \/ PublishSnapshot(p)
  \/ RehashSnapshot(p) \/ RegisterDataset(p)

Canonicalize(p) ==
  \/ VerifySnapshot(p) \/ ReadRows(p)
  \/ BeginParquet(p) \/ FillParquet(p) \/ HashParquet(p)

Record(p) == InsertReference(p) \/ InsertCanonical(p) \/ InsertRecord(p)

Execute(p) == CheckParquet(p) \/ Compute(p)

Next ==
  \/ Edit
  \/ \E p \in Processes : Register(p) \/ Canonicalize(p) \/ Record(p) \/ Execute(p) \/ Leave(p)

Spec == Init /\ [][Next]_vars

-----------------------------------------------------------------------------
(* Properties.                                                             *)

Labels == {"idle", "lookup", "copy", "publish", "rehash", "register", "verify",
           "read", "write", "fill", "hash", "reference", "canonical", "record",
           "check", "compute", "done", "raised"}

TypeOK ==
  /\ source \in Versions
  /\ snapshots \in [Versions -> Versions \cup {None}]
  /\ datasets \subseteq Versions
  /\ parquet \in [Canonicals -> Parquets \cup {None}]
  /\ references \in [Parquets -> Canonicals \cup {None}]
  /\ canonicals \in [Canonicals -> Parquets \cup {None}]
  /\ records \subseteq Canonicals
  /\ results \subseteq Canonicals
  /\ pc \in [Processes -> Labels]
  /\ expected \in [Processes -> Versions \cup {None}]
  /\ copied \in [Processes -> Versions \cup {None}]
  /\ target \in [Processes -> Canonicals \cup {None}]
  /\ content \in [Processes -> Parquets \cup {None}]

(* A registered dataset's snapshot holds the registered bytes, whatever the *)
(* user saves while it is copied and wherever an analysis dies.             *)
RegisteredSnapshotsIntact == \A v \in datasets : snapshots[v] = v

(* A result is computed from the rows of the very bytes whose fingerprint   *)
(* it carries, although each stage opens a path again after checking it.    *)
ResultsComeFromTheirSource == \A r \in results : r.rows = RowsOf(r.source)

(* A canonicalization record always leads to its source: a canonical row, a *)
(* reference to its own path, and a registered dataset with those rows.     *)
LineageComplete ==
  \A c \in records :
    /\ canonicals[c] = c.rows /\ references[c.rows] = c
    /\ c.source \in datasets /\ c.rows = RowsOf(c.source)

(* An analysis that raises has met a snapshot spoilt by an earlier save, or *)
(* rows that another source already has; never the debris of its own death. *)
RefusalsExplained ==
  \A p \in Processes : At(p, "raised") =>
    \/ snapshots[expected[p]] # expected[p]
    \/ target[p] # None /\ references[target[p].rows] \notin {None, target[p]}

(* Contradicted when two processes share the stores: a snapshot, once it    *)
(* holds the bytes of its fingerprint, never holds others.                  *)
SnapshotsAreImmutable ==
  [][\A v \in Versions : snapshots[v] = v => snapshots'[v] = v]_vars
=============================================================================
