--------------------------- MODULE RetentionStore ---------------------------
(***************************************************************************)
(* RetainedRun composed with the operator commands that other processes    *)
(* run on the same directory: verify_run and delete_run                    *)
(* (persistence/retention.py, reached by --verify-run and --delete-run).   *)
(* Nothing locks a run: a command may start while the session is writing,  *)
(* and shutil.rmtree removes a run entry by entry.                         *)
(***************************************************************************)
EXTENDS RetainedRun

CONSTANT MaxDeletes  \* bound on the delete_run commands of one behaviour

ASSUME DeletesAssumption == MaxDeletes \in Nat

VARIABLES
  vstep,    \* the operator's verify_run: "idle", "files" or "records"
  verdict,  \* what verify_run reported last: None, "valid" or "invalid"
  del,      \* the latest delete_run
  entries,  \* directory entries rmtree has listed and not removed yet
  deletes,  \* delete_run commands that may still start
  damaged,  \* rmtree has removed an artifact or its registration
  suspect,  \* verify_run in progress started on a damaged run
  raced     \* who was at work on the run during the latest delete_run

operator == <<vstep, verdict, suspect>>
deletion == <<del, entries, deletes, damaged>>
storeVars == <<vars, operator, deletion, raced>>

StoreInit ==
  /\ Init
  /\ vstep = "idle" /\ verdict = None /\ suspect = FALSE
  /\ del = "none" /\ entries = {} /\ deletes = MaxDeletes /\ damaged = FALSE
  /\ raced = {}

-----------------------------------------------------------------------------
(* verify_run in a process of its own.                                     *)

VerifyLoads ==
  /\ vstep = "idle" /\ manifest # None
  /\ BeginVerify(Operator)
  /\ vstep' = "files" /\ verdict' = None /\ suspect' = damaged
  /\ raced' = raced \cup (IF del = "removing" THEN {Operator} ELSE {})
  /\ UNCHANGED <<disk, meta, control, work, faults, reader, deletion>>

VerifyChecksFiles ==
  /\ vstep = "files"
  /\ CheckFiles(Operator)
  /\ vstep' = "records"
  /\ UNCHANGED <<disk, meta, control, work, faults, checking, reader, verdict,
                 suspect, deletion, raced>>

\* Mutant: what the files said is the verdict.
VerifyIgnoresRecords ==
  /\ vstep = "records"
  /\ CheckRecords(Operator)
  /\ verdict' = IF passed[Operator] THEN "valid" ELSE "invalid"
  /\ vstep' = "idle" /\ suspect' = FALSE
  /\ UNCHANGED <<manifest, marker, files, row, indexed, failedExec, control,
                 work, faults, reader, deletion, raced>>

VerifyChecksRecords ==
  /\ vstep = "records"
  /\ CheckRecords(Operator)
  /\ verdict' = IF passed[Operator] /\ RecordsVerify(checking[Operator])
                THEN "valid" ELSE "invalid"
  /\ vstep' = "idle" /\ suspect' = FALSE
  /\ UNCHANGED <<manifest, marker, files, row, indexed, failedExec, control,
                 work, faults, reader, deletion, raced>>

-----------------------------------------------------------------------------
(* delete_run: shutil.rmtree over the run directory.                       *)

TopEntries ==
  {"artifacts"} \cup (IF manifest = None THEN {} ELSE {"manifest"})
                \cup (IF marker = None THEN {} ELSE {"marker"})
                \cup (IF db = "absent" THEN {} ELSE {"metadata"})

BeginDelete ==
  /\ del # "removing" /\ deletes > 0 /\ dir
  /\ del' = "removing" /\ entries' = TopEntries /\ deletes' = deletes - 1
  /\ raced' = (IF op \notin Ended THEN {Session} ELSE {})
              \cup (IF vstep # "idle" THEN {Operator} ELSE {})
  /\ UNCHANGED <<vars, operator, damaged>>

\* rmtree lists a subdirectory when it enters it.
EnterArtifacts ==
  /\ del = "removing" /\ "artifacts" \in entries
  /\ entries' = (entries \ {"artifacts"}) \cup files
  /\ UNCHANGED <<vars, operator, del, deletes, damaged, raced>>

RemoveArtifact ==
  /\ del = "removing"
  /\ \E a \in entries \cap files : files' = files \ {a} /\ entries' = entries \ {a}
  /\ damaged' = TRUE
  /\ UNCHANGED <<dir, manifest, marker, meta, control, work, faults, verify,
                 reader, operator, del, deletes, raced>>

RemoveManifest ==
  /\ del = "removing" /\ "manifest" \in entries /\ manifest # None
  /\ manifest' = None /\ entries' = entries \ {"manifest"}
  /\ UNCHANGED <<dir, marker, files, meta, control, work, faults, verify,
                 reader, operator, del, deletes, damaged, raced>>

RemoveMarker ==
  /\ del = "removing" /\ "marker" \in entries /\ marker # None
  /\ marker' = None /\ entries' = entries \ {"marker"}
  /\ UNCHANGED <<dir, manifest, files, meta, control, work, faults, verify,
                 reader, operator, del, deletes, damaged, raced>>

RemoveMetadata ==
  /\ del = "removing" /\ "metadata" \in entries
  /\ db' = "absent" /\ row' = None /\ indexed' = {} /\ failedExec' = FALSE
  /\ entries' = entries \ {"metadata"}
  /\ damaged' = (damaged \/ indexed # {})
  /\ UNCHANGED <<disk, control, work, faults, verify, reader, operator, del,
                 deletes, raced>>

Emptied == manifest = None /\ marker = None /\ files = {} /\ db = "absent"

\* Mutant: deletion is reported before the entries are gone.
RemoveRunRootEarly ==
  /\ del = "removing" /\ del' = "deleted" /\ entries' = {}
  /\ UNCHANGED <<vars, operator, deletes, damaged, raced>>

\* The final rmdir fails when something was created behind the listing.
RemoveRunRoot ==
  /\ del = "removing" /\ entries = {}
  /\ IF Emptied THEN dir' = FALSE /\ del' = "deleted"
                ELSE dir' = dir /\ del' = "failed"
  /\ UNCHANGED <<manifest, marker, files, meta, control, work, faults, verify,
                 reader, operator, entries, deletes, damaged, raced>>

\* rmtree raises when a listed entry is gone before it reaches it.
EntryVanished ==
  /\ del = "removing" /\ "marker" \in entries /\ marker = None
  /\ del' = "failed" /\ entries' = {}
  /\ UNCHANGED <<vars, operator, deletes, damaged, raced>>

\* The deleting process is killed half-way.
DeleteKilled ==
  /\ del = "removing"
  /\ del' = "killed" /\ entries' = {}
  /\ UNCHANGED <<vars, operator, deletes, damaged, raced>>

DeleteStep ==
  \/ EnterArtifacts \/ RemoveArtifact \/ RemoveManifest \/ RemoveMarker
  \/ RemoveMetadata \/ RemoveRunRoot \/ EntryVanished

\* Readers change no store; EffectiveStatus stands for them here.
RunStep ==
  /\ SessionStep \/ Fault \/ CheckRaises \/ Crash
  /\ UNCHANGED <<operator, deletion, raced>>

StoreNext ==
  \/ RunStep
  \/ VerifyLoads \/ VerifyChecksFiles \/ VerifyChecksRecords
  \/ BeginDelete \/ DeleteStep \/ DeleteKilled

StoreSpec == StoreInit /\ [][StoreNext]_storeVars

-----------------------------------------------------------------------------
(* Properties.                                                             *)

StoreTypeOK ==
  /\ TypeOK
  /\ vstep \in {"idle", "files", "records"}
  /\ verdict \in {None, "valid", "invalid"}
  /\ del \in {"none", "removing", "deleted", "failed", "killed"}
  /\ entries \subseteq Artifacts \cup {"artifacts", "manifest", "marker", "metadata"}
  /\ deletes \in 0..MaxDeletes
  /\ damaged \in BOOLEAN /\ suspect \in BOOLEAN /\ raced \subseteq Verifiers

(* A verify_run that starts after a delete_run has taken an artifact or its *)
(* registration away never calls the run valid, whatever the session or a   *)
(* verifier that re-created the metadata store put back in the meantime.    *)
DamagedNeverValid ==
  [][suspect /\ vstep' = "idle" => verdict' = "invalid"]_storeVars

(* A run deleted after its session had ended never has its old status       *)
(* reported again, although a late verify_run can bring an empty directory  *)
(* with a fresh metadata store back.                                        *)
DeletedStaysDeleted ==
  del = "deleted" /\ Session \notin raced =>
    EffectiveStatus \in {"missing", "legacy_incomplete"}

=============================================================================
