----------------------------- MODULE RetainedRun -----------------------------
(***************************************************************************)
(* One retained run (persistence/retention.py): the RetainedRunSession     *)
(* that writes it, under the runner that drives the session, and a reader  *)
(* in another process (list_runs and inspect_run).                         *)
(*                                                                         *)
(* A run lives in two stores that no transaction spans: files (artifacts,  *)
(* manifest.json, complete.marker) and metadata.sqlite.  Every step below  *)
(* is one durable effect of the code, so that a crash, an I/O failure or   *)
(* another process can come between any two of them.                       *)
(*                                                                         *)
(* A manifest is a record of the fields a property tells apart.  Its       *)
(* fingerprint is collision free, so complete.marker and the registry row  *)
(* hold, in place of a digest, the fingerprinted manifest itself.          *)
(***************************************************************************)
EXTENDS Naturals

CONSTANTS
  None,         \* no such file, row or value
  Context,      \* artifacts of capture_context
  Declaration,  \* the coverage declaration artifact
  Evidence,     \* artifacts the analysis persists
  Result,       \* final/analysis_result.json
  Response,     \* final/public_response.json
  MaxFaults     \* bound on the operations that raise in one behaviour

Artifacts == Context \cup Evidence \cup {Declaration, Result, Response}

Lifecycles == {"initializing", "writing", "verifying", "complete", "failed"}
Retentions == {"retained_incomplete", "retained_complete", "retention_failed"}

Manifests ==
  [life : Lifecycles, ret : Retentions, request : BOOLEAN,
   listed : SUBSET Artifacts, errors : Nat, signed : BOOLEAN]

Rows == [life : Lifecycles, ret : Retentions, request : BOOLEAN,
         fp : Manifests \cup {None}]

ASSUME NoneIsNothing ==
  /\ None \notin Artifacts
  /\ None \notin Manifests
  /\ None \notin Rows

ASSUME DistinctArtifacts ==
  /\ Context \cap (Evidence \cup {Declaration, Result, Response}) = {}
  /\ Evidence \cap {Declaration, Result, Response} = {}
  /\ Declaration # Result /\ Declaration # Response /\ Result # Response

ASSUME FaultsAssumption == MaxFaults \in Nat

VARIABLES
  dir,        \* the run directory exists
  manifest,   \* manifest.json, or None
  marker,     \* what complete.marker holds, or None
  files,      \* artifact files on disk
  db,         \* metadata.sqlite: "absent", "empty" (no tables) or "ready"
  row,        \* the run's row of retained_runs, or None
  indexed,    \* artifact references registered in metadata.sqlite
  failedExec, \* an execution record without a result is registered
  op, step,   \* the session's operation, and the step within it
  draft,      \* the manifest the operation is about to persist
  todo, hand, \* artifacts still to write, and the one written but not indexed
  outcome,    \* what the analysis returned
  faults,     \* operations that may still raise
  checking,   \* manifest held by a verify_run in progress, per verifier
  passed,     \* whether that verify_run has found no error so far
  held,       \* manifest read by a list_runs or inspect_run in progress
  report      \* the status it reported last

disk    == <<dir, manifest, marker, files>>
meta    == <<db, row, indexed, failedExec>>
control == <<op, step>>
work    == <<draft, todo, hand, outcome>>
verify  == <<checking, passed>>
reader  == <<held, report>>

vars == <<disk, meta, control, work, faults, verify, reader>>

Session == "session"
Operator == "operator"
Verifiers == {Session, Operator}

-----------------------------------------------------------------------------
(* Control of the session and of the runner around it.                     *)

Ended == {"succeeded", "surfaced_failure", "crashed"}

\* set_lifecycle, update_manifest_metadata and fail start from the manifest
\* on disk; build_manifest does as well.
LoadingOps == {"set_writing", "set_context", "set_declaration",
               "set_verifying", "candidate", "fail", "fail_again"}
StoringOps == {"context", "declaration", "analysis", "final"}
PersistOps == {"candidate", "rejected", "completed", "fail", "fail_again"}
DraftOps == LoadingOps \cup PersistOps \cup {"begin"}

Operations == DraftOps \cup StoringOps
              \cup {"verify", "publish", "deliver"} \cup Ended

Steps == {"mkdir", "initdb", "load", "write", "unlink", "row",
          "store", "index", "files", "records", "go"}

Goto(o, s) == op' = o /\ step' = s

\* Mutant: the runner reports the error and never fails the session.
HandlerGivesUp(o) == "surfaced_failure"

\* Mutant: finalize is tried again when its _fail raises.
HandlerRetries(o) == IF o = "fail" THEN "set_verifying" ELSE "fail"

\* Where an exception raised by operation o lands: begin is outside the
\* runner's session; finalize turns what it catches into a _fail of its own;
\* the runner then fails the session again and gives up if that raises too.
Handler(o) ==
  CASE o \in {"begin", "fail_again"} -> "surfaced_failure"
    [] o \in {"final", "candidate", "rejected", "completed", "publish"} -> "fail"
    [] OTHER -> "fail_again"

Raise ==
  Goto(Handler(op), IF Handler(op) \in Ended THEN "go" ELSE "load")

-----------------------------------------------------------------------------
(* The manifests the session writes.                                       *)

InitialManifest ==
  [life |-> "initializing", ret |-> "retained_incomplete", request |-> FALSE,
   listed |-> {}, errors |-> 0, signed |-> FALSE]

\* Mutant: a failure sets the lifecycle and forgets the retention status.
FailedQuietly(m) == [m EXCEPT !.life = "failed", !.errors = @ + 1]

Failed(m) ==
  [m EXCEPT !.life = "failed", !.ret = "retention_failed",
            !.errors = @ + 1, !.signed = TRUE]

\* What a loading operation makes of the current manifest m.
Revise(o, m) ==
  CASE o = "set_writing"     -> [m EXCEPT !.life = "writing", !.signed = TRUE]
    [] o = "set_verifying"   -> [m EXCEPT !.life = "verifying", !.signed = TRUE]
    [] o = "set_context"     -> [m EXCEPT !.request = TRUE, !.signed = TRUE,
                                          !.listed = @ \cup Context]
    [] o = "set_declaration" -> [m EXCEPT !.listed = @ \cup {Declaration},
                                          !.signed = TRUE]
    [] o = "candidate"       -> [m EXCEPT !.life = "verifying",
                                          !.ret = "retained_incomplete",
                                          !.request = TRUE, !.errors = 0,
                                          !.listed = @ \cup indexed,
                                          !.signed = TRUE]
    [] OTHER                 -> Failed(m)

Completed(m) ==
  [m EXCEPT !.life = "complete", !.ret = "retained_complete"]

FullRow(m) ==
  [life |-> m.life, ret |-> m.ret, request |-> m.request,
   fp |-> IF m.signed THEN m ELSE None]

\* set_lifecycle and update_manifest_metadata copy one field each into the
\* row, and leave its fingerprint behind the manifest's.
RowAfter(o, m) ==
  CASE o \in {"set_writing", "set_verifying"} ->
         IF row = None THEN None ELSE [row EXCEPT !.life = m.life]
    [] o \in {"set_context", "set_declaration"} ->
         IF row = None THEN None ELSE [row EXCEPT !.request = m.request]
    [] OTHER -> FullRow(m)

-----------------------------------------------------------------------------
(* What a reader and a verifier conclude from the stores.                  *)

\* RetentionStore._effective_status, given the manifest it holds.
StatusOf(m) ==
  IF m.ret # "retained_complete" THEN m.ret
  ELSE IF marker = m /\ m.signed THEN "retained_complete"
  ELSE "retained_incomplete"

\* What a reader that could read both files at once would report.
EffectiveStatus ==
  IF manifest = None
  THEN IF dir THEN "legacy_incomplete" ELSE "missing"
  ELSE StatusOf(manifest)

\* The checks of verify_manifest on files: hashes, metadata.sqlite, marker.
FilesVerify(m) ==
  /\ m.signed
  /\ m.listed \subseteq files
  /\ db # "absent"
  /\ m.ret = "retained_complete" => marker = m

\* The checks of verify_manifest on records: index, registry row, linkages
\* (which read the analysis and final artifacts a second time).
RecordsVerify(m) ==
  /\ m.listed \subseteq indexed
  /\ m.listed \ Context \subseteq files
  /\ {Result, Response} \subseteq m.listed
  /\ m.request
  /\ row # None
  /\ row.request = m.request /\ row.fp = m /\ row.ret = m.ret
  /\ ~failedExec

Verifies(m) == FilesVerify(m) /\ db = "ready" /\ RecordsVerify(m)

-----------------------------------------------------------------------------
(* RetainedRunSession.__init__ and the two-store writes it shares with     *)
(* every later operation.                                                  *)

Init ==
  /\ dir = FALSE /\ manifest = None /\ marker = None /\ files = {}
  /\ db = "absent" /\ row = None /\ indexed = {} /\ failedExec = FALSE
  /\ op = "begin" /\ step = "mkdir"
  /\ draft = InitialManifest /\ todo = {} /\ hand = None /\ outcome = None
  /\ faults = MaxFaults
  /\ checking = [v \in Verifiers |-> None]
  /\ passed = [v \in Verifiers |-> TRUE]
  /\ held = None /\ report = None

MakeRunRoot ==
  /\ op = "begin" /\ step = "mkdir"
  /\ dir' = TRUE
  /\ Goto("begin", "initdb")
  /\ UNCHANGED <<manifest, marker, files, meta, work, faults, verify, reader>>

\* MetadataStore.initialize creates missing parents and missing tables.  The
\* public workflow calls it before capture_context, run_analysis once more.
InitializeMetadata ==
  /\ op \in {"begin", "set_writing", "analysis"} /\ step = "initdb"
  /\ dir' = TRUE /\ db' = "ready"
  /\ Goto(op, CASE op = "begin" -> "write" [] op = "set_writing" -> "load"
                [] OTHER -> "store")
  /\ UNCHANGED <<manifest, marker, files, row, indexed, failedExec, work,
                 faults, verify, reader>>

LoadManifest ==
  /\ op \in LoadingOps /\ step = "load"
  /\ IF manifest = None
     THEN Raise /\ UNCHANGED draft
     ELSE draft' = Revise(op, manifest) /\ Goto(op, "write")
  /\ UNCHANGED <<disk, meta, todo, hand, outcome, faults, verify, reader>>

\* _write_manifest replaces manifest.json atomically inside the run root.
WriteManifest ==
  /\ op \in DraftOps /\ step = "write"
  /\ IF ~dir
     THEN Raise /\ UNCHANGED manifest
     ELSE /\ manifest' = draft
          /\ Goto(op, IF op \in PersistOps THEN "unlink" ELSE "row")
  /\ UNCHANGED <<dir, marker, files, meta, work, faults, verify, reader>>

\* Mutant: the marker of a complete manifest is written ahead of its row.
UnlinkMarkerPublishes ==
  /\ op \in PersistOps /\ step = "unlink"
  /\ marker' = IF draft.ret = "retained_complete" THEN draft ELSE None
  /\ Goto(op, "row")
  /\ UNCHANGED <<dir, manifest, files, meta, work, faults, verify, reader>>

\* A manifest that is not complete takes a stale marker away.
UnlinkMarker ==
  /\ op \in PersistOps /\ step = "unlink"
  /\ marker' = IF draft.ret = "retained_complete" THEN marker ELSE None
  /\ Goto(op, "row")
  /\ UNCHANGED <<dir, manifest, files, meta, work, faults, verify, reader>>

\* sqlite3.connect leaves an empty database where there was none.
TouchedDb == IF dir /\ db = "absent" THEN "empty" ELSE db

\* Where each operation continues once its row is written.  The todo set
\* of a storing operation is what it will write and index.
AfterRow ==
  \/ op = "begin" /\ Goto("set_writing", "initdb") /\ UNCHANGED todo
  \/ op = "set_writing" /\ Goto("context", "store") /\ todo' = Context
  \/ op = "set_context" /\ Goto("declaration", "store")
                        /\ todo' = {Declaration}
  \/ op \in {"set_context", "set_declaration"}
     /\ Goto("analysis", "initdb") /\ todo' = Evidence
  \/ op = "set_verifying" /\ outcome = "result"
     /\ Goto("final", "store") /\ todo' = {Result, Response}
  \/ op = "set_verifying" /\ outcome # "result"
     /\ Goto("fail", "load") /\ UNCHANGED todo
  \/ op = "candidate" /\ Goto("verify", "load") /\ UNCHANGED todo
  \/ op = "rejected" /\ Goto("fail_again", "load") /\ UNCHANGED todo
  \/ op = "completed" /\ Goto("publish", "go") /\ UNCHANGED todo
  \/ op = "fail" /\ Goto("fail_again", "load") /\ UNCHANGED todo
  \/ op = "fail_again" /\ Goto("surfaced_failure", "go") /\ UNCHANGED todo

WriteRow ==
  /\ op \in DraftOps /\ step = "row"
  /\ IF db = "ready"
     THEN row' = RowAfter(op, draft) /\ db' = db /\ AfterRow
     ELSE Raise /\ db' = TouchedDb /\ UNCHANGED <<row, todo>>
  /\ UNCHANGED <<disk, indexed, failedExec, draft, hand, outcome, faults,
                 verify, reader>>

-----------------------------------------------------------------------------
(* Artifacts: the file is published first, its reference indexed second.   *)

\* write_json_artifact recreates the layout it needs before it writes.
StoreArtifact ==
  /\ op \in StoringOps /\ step = "store"
  /\ \E a \in todo :
       /\ op = "final" /\ a = Response => Result \notin todo
       /\ files' = files \cup {a} /\ hand' = a /\ todo' = todo \ {a}
  /\ dir' = TRUE
  /\ Goto(op, "index")
  /\ UNCHANGED <<manifest, marker, meta, draft, outcome, faults, verify, reader>>

IndexArtifact ==
  /\ op \in StoringOps /\ step = "index"
  /\ IF db = "ready"
     THEN /\ indexed' = indexed \cup {hand} /\ db' = db
          /\ Goto(op, "store")
     ELSE Raise /\ db' = TouchedDb /\ UNCHANGED indexed
  /\ hand' = None
  /\ UNCHANGED <<disk, row, failedExec, draft, todo, outcome, faults, verify,
                 reader>>

\* The loop over a storing operation's artifacts is over.
StoringDone ==
  /\ op \in StoringOps \ {"analysis"} /\ step = "store" /\ todo = {}
  /\ CASE op = "context" -> Goto("set_context", "load")
       [] op = "declaration" -> Goto("set_declaration", "load")
       [] OTHER -> Goto("candidate", "load")
  /\ UNCHANGED <<disk, meta, work, faults, verify, reader>>

\* run_public_analysis returns a clarification or a rejected declaration,
\* before any analysis, without an AnalysisResult.
ReturnClarification ==
  /\ \/ op = "set_writing" /\ step = "initdb"
     \/ op = "declaration" /\ step = "store" /\ todo # {}
  /\ outcome' = "clarification"
  /\ Goto("set_verifying", "load")
  /\ UNCHANGED <<disk, meta, draft, todo, hand, faults, verify, reader>>

\* A metric that failed to execute leaves a record without a result, and the
\* analysis still returns.
ReturnAnalysis ==
  /\ op = "analysis" /\ step = "store" /\ todo = {}
  /\ outcome' = "result"
  /\ failedExec' \in BOOLEAN
  /\ Goto("set_verifying", "load")
  /\ UNCHANGED <<disk, db, row, indexed, draft, todo, hand, faults, verify, reader>>

-----------------------------------------------------------------------------
(* verify_run, the disk-backed verifier finalize consults, step by step.   *)

BeginVerify(v) ==
  /\ checking' = [checking EXCEPT ![v] = manifest]
  /\ passed' = [passed EXCEPT ![v] = TRUE]

CheckFiles(v) ==
  passed' = [passed EXCEPT ![v] = @ /\ FilesVerify(checking[v])]

\* The record checks first open, and so create, the metadata store.
CheckRecords(v) ==
  /\ dir' = TRUE /\ db' = "ready"
  /\ checking' = [checking EXCEPT ![v] = None]
  /\ passed' = [passed EXCEPT ![v] = TRUE]

SessionBeginsVerify ==
  /\ op = "verify" /\ step = "load"
  /\ IF manifest = None
     THEN Raise /\ UNCHANGED verify
     ELSE BeginVerify(Session) /\ Goto("verify", "files")
  /\ UNCHANGED <<disk, meta, work, faults, reader>>

SessionChecksFiles ==
  /\ op = "verify" /\ step = "files"
  /\ CheckFiles(Session)
  /\ Goto("verify", "records")
  /\ UNCHANGED <<disk, meta, work, faults, checking, reader>>

\* The verified manifest is upgraded, or failed with the errors found.
SessionChecksRecords ==
  /\ op = "verify" /\ step = "records"
  /\ CheckRecords(Session)
  /\ IF passed[Session] /\ RecordsVerify(checking[Session])
     THEN draft' = Completed(draft) /\ Goto("completed", "write")
     ELSE draft' = Failed(draft) /\ Goto("rejected", "write")
  /\ UNCHANGED <<manifest, marker, files, row, indexed, failedExec, todo, hand,
                 outcome, faults, reader>>

-----------------------------------------------------------------------------
(* Publication, delivery, and what can go wrong.                           *)

\* _write_complete_marker, the last durable transition of finalize.
PublishMarker ==
  /\ op = "publish"
  /\ IF ~dir
     THEN Raise /\ UNCHANGED marker
     ELSE marker' = draft /\ Goto("deliver", "go")
  /\ UNCHANGED <<dir, manifest, files, meta, work, faults, verify, reader>>

\* The runner prints the payload and exits 0.
Deliver ==
  /\ op = "deliver"
  /\ Goto("succeeded", "go")
  /\ UNCHANGED <<disk, meta, work, faults, verify, reader>>

\* Any operation may raise (a full disk, a locked database, a closed
\* standard output, a bug in the analysis) before its next durable effect.
Fault ==
  /\ op \notin Ended \cup {"verify"} /\ faults > 0
  /\ faults' = faults - 1
  /\ Raise
  /\ UNCHANGED <<disk, meta, work, verify, reader>>

\* verify_manifest turns what its checks raise into errors.
CheckRaises ==
  /\ op = "verify" /\ step \in {"files", "records"} /\ faults > 0
  /\ faults' = faults - 1
  /\ passed' = [passed EXCEPT ![Session] = FALSE]
  /\ UNCHANGED <<disk, meta, control, work, checking, reader>>

\* The session's process is killed.
Crash ==
  /\ op \notin Ended
  /\ Goto("crashed", "go")
  /\ UNCHANGED <<disk, meta, work, faults, verify, reader>>

-----------------------------------------------------------------------------
(* list_runs and inspect_run: manifest.json first, complete.marker next.   *)

ReadManifest ==
  /\ held = None
  /\ IF manifest # None /\ manifest.ret = "retained_complete"
     THEN held' = manifest /\ report' = report
     ELSE held' = None /\ report' = EffectiveStatus
  /\ UNCHANGED <<disk, meta, control, work, faults, verify>>

ReadMarker ==
  /\ held # None
  /\ report' = StatusOf(held) /\ held' = None
  /\ UNCHANGED <<disk, meta, control, work, faults, verify>>

SessionStep ==
  \/ MakeRunRoot \/ InitializeMetadata
  \/ LoadManifest \/ WriteManifest \/ UnlinkMarker \/ WriteRow
  \/ StoreArtifact \/ IndexArtifact \/ StoringDone
  \/ ReturnClarification \/ ReturnAnalysis
  \/ SessionBeginsVerify \/ SessionChecksFiles \/ SessionChecksRecords
  \/ PublishMarker \/ Deliver

Next == SessionStep \/ Fault \/ CheckRaises \/ Crash \/ ReadManifest \/ ReadMarker

Spec == Init /\ [][Next]_vars

\* The session is one thread that runs until it ends or is killed; nothing
\* makes a fault, a crash or a reader happen.
FairSpec == Spec /\ WF_vars(SessionStep)

-----------------------------------------------------------------------------
(* Properties.                                                             *)

TypeOK ==
  /\ dir \in BOOLEAN
  /\ manifest \in Manifests \cup {None}
  /\ marker \in Manifests \cup {None}
  /\ files \subseteq Artifacts
  /\ db \in {"absent", "empty", "ready"}
  /\ row \in Rows \cup {None}
  /\ indexed \subseteq Artifacts
  /\ failedExec \in BOOLEAN
  /\ op \in Operations /\ step \in Steps
  /\ draft \in Manifests
  /\ todo \subseteq Artifacts /\ hand \in Artifacts \cup {None}
  /\ step = "index" => hand # None
  /\ outcome \in {None, "clarification", "result"}
  /\ faults \in 0..MaxFaults
  /\ checking \in [Verifiers -> Manifests \cup {None}]
  /\ passed \in [Verifiers -> BOOLEAN]
  /\ held \in Manifests \cup {None}
  /\ report \in Retentions \cup {None, "legacy_incomplete", "missing"}

(* A run a reader would report complete has everything verify_run asks      *)
(* for: the manifest verified while it was still "verifying" is not the     *)
(* one that gets published, so this is not what the code checked, but what  *)
(* must follow from it (finalize, retention.py:141-172).                    *)
CompleteMeansVerifiable ==
  EffectiveStatus = "retained_complete" => Verifies(manifest)

(* A reader between its two reads, while the session goes on, never reports *)
(* complete on the strength of a marker that does not belong to the         *)
(* manifest it holds: if StatusOf will say complete, that manifest was      *)
(* published with its evidence, and is current or has been failed since.    *)
ReaderNeverFooled ==
  held # None /\ StatusOf(held) = "retained_complete" =>
    /\ held.listed \subseteq files \cap indexed
    /\ manifest = held \/ manifest.ret = "retention_failed"

(* Exit code 0 of the runner stands for a run readers report complete, and  *)
(* a surfaced failure hides a complete run only if failing the run raised   *)
(* as well (both exits of run_public_analysis.py main).                     *)
ExitAgreesWithStores ==
  /\ op = "succeeded" => EffectiveStatus = "retained_complete"
  /\ op = "surfaced_failure" /\ EffectiveStatus = "retained_complete"
       => faults + 2 <= MaxFaults

(* One raised operation is never lost: when a session that got as far as    *)
(* its first manifest and registry row ends with a failure, the run is      *)
(* durably "retention_failed", not merely incomplete.                       *)
SingleFaultIsRecorded ==
  op = "surfaced_failure" /\ faults + 1 >= MaxFaults /\ row # None
    => EffectiveStatus = "retention_failed"

(* "A failed or incomplete package is never upgraded": once readers can see *)
(* a run failed it stays failed, and nothing that ends undecided is later   *)
(* published.                                                               *)
NeverUpgraded ==
  [][/\ EffectiveStatus = "retention_failed" =>
          EffectiveStatus' = "retention_failed"
     /\ op \in Ended => EffectiveStatus' = EffectiveStatus]_vars

(* A session that is not killed, and in which at most one operation raises, *)
(* ends with a run that readers see decided for good.                       *)
EventuallyDecided ==
  <>[](\/ op = "crashed" \/ row = None \/ faults + 1 < MaxFaults
       \/ EffectiveStatus \in {"retained_complete", "retention_failed"})

Publication == INSTANCE RunPublication WITH
  status <- CASE EffectiveStatus = "retained_complete" -> "complete"
              [] EffectiveStatus = "retention_failed" -> "failed"
              [] OTHER -> "open",
  sealed <- manifest # None /\ RecordsVerify(manifest)
                            /\ manifest.listed \subseteq files

(* Seen through the status a reader would report, the session implements    *)
(* the abstract publication of a run.                                       *)
ImplementsPublication == Publication!Spec

-----------------------------------------------------------------------------
(* The inductive invariant behind the safety properties.                   *)

\* Everything m lists is stored and indexed, and the analysis succeeded.
Backed(m) ==
  /\ m.signed /\ m.request
  /\ {Result, Response} \subseteq m.listed
  /\ m.listed \subseteq files /\ m.listed \subseteq indexed
  /\ ~failedExec

\* Operations of a session that has not decided its run yet.
Undecided ==
  \/ op \in {"begin", "set_writing", "context", "set_context", "declaration",
              "set_declaration", "analysis", "set_verifying", "final",
              "candidate", "verify"}
  \/ op = "completed" /\ step = "write"

StoresReady ==
  /\ manifest # None => dir
  /\ row # None => manifest # None /\ db = "ready"
  /\ op = "begin" =>
       /\ step \in {"mkdir", "initdb", "write", "row"}
       /\ step \in {"write", "row"} => dir /\ db = "ready"
       /\ row = None /\ draft.ret = "retained_incomplete"
       /\ step = "row" => manifest # None
  /\ op \notin Ended \cup {"begin"} =>
       dir /\ db = "ready" /\ manifest # None /\ row # None

UndecidedIsOpen ==
  Undecided =>
    /\ marker = None /\ held = None
    /\ manifest # None => manifest.ret = "retained_incomplete"
    /\ step \in {"write", "row", "unlink"} /\ op # "completed"
         => draft.ret = "retained_incomplete"

DraftsFit ==
  /\ op \in DraftOps /\ step \in {"unlink", "row"} => manifest = draft
  /\ op \in {"fail", "fail_again"} /\ step # "load"
       => draft.ret = "retention_failed" /\ step \in {"write", "unlink", "row"}
  /\ op = "rejected"
       => draft.ret = "retention_failed" /\ step \in {"write", "unlink", "row"}
  /\ op = "candidate" /\ step # "load"
       => draft.signed /\ step \in {"write", "unlink", "row"}
  /\ op = "verify" =>
       /\ manifest = draft /\ row = FullRow(draft) /\ draft.signed
       /\ step \in {"load", "files", "records"}
       /\ step # "load" => checking[Session] = draft
       /\ step = "records" /\ passed[Session] => draft.listed \subseteq files
  /\ op \in {"completed", "publish", "deliver", "succeeded"} =>
       draft.ret = "retained_complete" /\ Backed(draft)
  /\ op = "completed" => step \in {"write", "unlink", "row"}
  /\ op \in {"completed", "publish"} => marker = None
  /\ op \in {"publish", "deliver", "succeeded"} =>
       manifest = draft /\ row = FullRow(draft)
  /\ op \in {"deliver", "succeeded"} => marker = draft

CompleteIsBacked ==
  /\ manifest # None /\ manifest.ret = "retained_complete" =>
       /\ Backed(manifest)
       /\ marker # None => marker = manifest /\ row = FullRow(manifest)
  /\ marker # None => manifest # None /\ marker.ret = "retained_complete"
                       /\ (manifest = marker \/ manifest.ret = "retention_failed")
  /\ held # None =>
       /\ Backed(held) /\ held.ret = "retained_complete" /\ manifest # None
       /\ manifest = held \/ manifest.ret = "retention_failed"

\* A run left undecided or published by a session that gave up costs faults.
FaultsCounted ==
  /\ op = "fail_again" =>
       manifest.ret = "retention_failed" \/ faults + 1 <= MaxFaults
  /\ op = "surfaced_failure" /\ row # None =>
       manifest.ret = "retention_failed" \/ faults + 2 <= MaxFaults

IInv ==
  StoresReady /\ UndecidedIsOpen /\ DraftsFit /\ CompleteIsBacked /\ FaultsCounted
=============================================================================
