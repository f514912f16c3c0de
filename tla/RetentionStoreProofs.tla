-------------------------- MODULE RetentionStoreProofs --------------------------
(***************************************************************************)
(* Proofs about a retained run and the commands beside it, for every set   *)
(* of artifacts and any number of faults and deletions.  First RetainedRun *)
(* alone: types, the inductive invariant, the safety invariants it implies *)
(* and the refinement of RunPublication.  Then RetentionStore: types, that *)
(* a deleted run stays deleted, and that verify_run calls no damaged run   *)
(* valid.  The last one has to follow an artifact from the removal to the  *)
(* manifest that will list it.                                             *)
(***************************************************************************)
EXTENDS RetentionStore, TLAPS

USE NoneIsNothing, DistinctArtifacts, FaultsAssumption

-----------------------------------------------------------------------------
(* The manifests and rows the session writes are manifests and rows.        *)

LEMMA FailedType ==
  ASSUME NEW m \in Manifests
  PROVE  Failed(m) \in Manifests /\ Failed(m).ret = "retention_failed" /\ Failed(m).signed
<1>1. Failed(m).ret = "retention_failed" /\ Failed(m).signed
  BY DEF Failed, Manifests
<1>2. ASSUME NEW e \in Nat
      PROVE  [m EXCEPT !.life = "failed", !.ret = "retention_failed",
                       !.errors = e, !.signed = TRUE] \in Manifests
  BY DEF Manifests, Lifecycles, Retentions
<1>3. m.errors + 1 \in Nat
  BY DEF Manifests
<1> QED BY <1>1, <1>2, <1>3 DEF Failed

LEMMA CompletedType ==
  ASSUME NEW m \in Manifests
  PROVE  /\ Completed(m) \in Manifests
         /\ Completed(m).ret = "retained_complete"
         /\ Completed(m).signed = m.signed /\ Completed(m).request = m.request
         /\ Completed(m).listed = m.listed
BY DEF Completed, Manifests, Lifecycles, Retentions

LEMMA ReviseType ==
  ASSUME NEW m \in Manifests, NEW o, indexed \subseteq Artifacts
  PROVE  Revise(o, m) \in Manifests
<1>1. CASE o = "set_writing"
  BY <1>1 DEF Revise, Manifests, Lifecycles
<1>2. CASE o = "set_verifying"
  BY <1>2 DEF Revise, Manifests, Lifecycles
<1>3. CASE o = "set_context"
  BY <1>3 DEF Revise, Manifests, Artifacts
<1>4. CASE o = "set_declaration"
  BY <1>4 DEF Revise, Manifests, Artifacts
<1>5. CASE o = "candidate"
  BY <1>5 DEF Revise, Manifests, Lifecycles, Retentions
<1>6. CASE o \notin {"set_writing", "set_verifying", "set_context",
                     "set_declaration", "candidate"}
  BY <1>6, FailedType DEF Revise
<1> QED BY <1>1, <1>2, <1>3, <1>4, <1>5, <1>6

\* What a loading operation makes of the retention status.
LEMMA ReviseStatus ==
  ASSUME NEW m \in Manifests, NEW o \in LoadingOps
  PROVE  /\ o \in {"fail", "fail_again"} => Revise(o, m).ret = "retention_failed"
         /\ o \notin {"fail", "fail_again"} /\ m.ret = "retained_incomplete"
              => Revise(o, m).ret = "retained_incomplete"
         /\ o = "candidate" => Revise(o, m).signed
BY FailedType DEF Revise, Manifests, LoadingOps

LEMMA FullRowType ==
  ASSUME NEW m \in Manifests
  PROVE  FullRow(m) \in Rows
BY DEF FullRow, Rows, Manifests

LEMMA RowAfterType ==
  ASSUME NEW m \in Manifests, NEW o, row \in Rows \cup {None}
  PROVE  /\ RowAfter(o, m) \in Rows \cup {None}
         /\ row # None \/ o = "begin" => RowAfter(o, m) \in Rows
<1>1. CASE o \in {"set_writing", "set_verifying"}
  BY <1>1 DEF RowAfter, Rows, Manifests
<1>2. CASE o \in {"set_context", "set_declaration"}
  BY <1>2 DEF RowAfter, Rows, Manifests
<1>3. CASE o \notin {"set_writing", "set_verifying", "set_context",
                     "set_declaration"}
  BY <1>3, FullRowType DEF RowAfter
<1> QED BY <1>1, <1>2, <1>3

LEMMA RaiseType ==
  ASSUME op \in Operations, Raise
  PROVE  /\ op' \in Operations /\ step' \in Steps
         /\ op' \in {"surfaced_failure", "fail", "fail_again"}
         /\ step' = (IF op' = "surfaced_failure" THEN "go" ELSE "load")
BY DEF Raise, Goto, Handler, Operations, DraftOps, LoadingOps, PersistOps,
       StoringOps, Ended, Steps

LEMMA StatusType ==
  ASSUME TypeOK
  PROVE  /\ EffectiveStatus \in Retentions \cup {"legacy_incomplete", "missing"}
         /\ \A m \in Manifests : StatusOf(m) \in Retentions
BY DEF TypeOK, EffectiveStatus, StatusOf, Manifests, Retentions

-----------------------------------------------------------------------------
(* Type correctness of every reachable state of a retained run.             *)
LEMMA InitType == Init => TypeOK
<1>1. InitialManifest \in Manifests
  BY DEF InitialManifest, Manifests, Lifecycles, Retentions
<1>2. "begin" \in Operations /\ "mkdir" \in Steps
  BY DEF Operations, DraftOps, Steps
<1>3. ASSUME Init
      PROVE  /\ checking \in [Verifiers -> Manifests \cup {None}]
             /\ passed \in [Verifiers -> BOOLEAN]
  BY <1>3 DEF Init
<1>4. ASSUME Init
      PROVE  faults \in 0..MaxFaults
  BY <1>4 DEF Init
<1> QED BY <1>1, <1>2, <1>3, <1>4 DEF Init, TypeOK

LEMMA StepType ==
  ASSUME TypeOK, [Next]_vars
  PROVE  TypeOK'
<1> USE DEF disk, meta, control, work, verify, reader
<1>1. CASE MakeRunRoot
  BY <1>1 DEF MakeRunRoot, TypeOK, Goto, Operations, DraftOps, Steps
<1>2. CASE InitializeMetadata
  BY <1>2 DEF InitializeMetadata, TypeOK, Goto, Operations, DraftOps, Steps
<1>3. CASE LoadManifest
  BY <1>3, RaiseType, ReviseType DEF LoadManifest, TypeOK, Goto, Steps
<1>4. CASE WriteManifest
  BY <1>4, RaiseType DEF WriteManifest, TypeOK, Goto, Steps
<1>5. CASE UnlinkMarker
  BY <1>5 DEF UnlinkMarker, TypeOK, Goto, Steps
<1>6. CASE WriteRow
  <2>1. CASE db = "ready"
    <3>1. op' \in Operations /\ step' \in Steps \ {"index"}
          /\ todo' \subseteq Artifacts
      BY <1>6, <2>1 DEF WriteRow, AfterRow, TypeOK, Goto, Operations,
           DraftOps, LoadingOps, StoringOps, PersistOps, Ended, Steps, Artifacts
    <3>2. row' \in Rows \cup {None}
      BY <1>6, <2>1, RowAfterType DEF WriteRow, TypeOK
    <3> QED BY <1>6, <2>1, <3>1, <3>2 DEF WriteRow, TypeOK
  <2>2. CASE db # "ready"
    BY <1>6, <2>2, RaiseType DEF WriteRow, TypeOK, TouchedDb
  <2> QED BY <2>1, <2>2
<1>7. CASE StoreArtifact
  BY <1>7 DEF StoreArtifact, TypeOK, Goto, Steps
<1>8. CASE IndexArtifact
  BY <1>8, RaiseType DEF IndexArtifact, TypeOK, Goto, Steps, TouchedDb
<1>9. CASE StoringDone
  BY <1>9 DEF StoringDone, TypeOK, Goto, Operations, DraftOps, LoadingOps, Steps
<1>10. CASE ReturnClarification
  BY <1>10 DEF ReturnClarification, TypeOK, Goto, Operations, DraftOps,
       LoadingOps, Steps
<1>11. CASE ReturnAnalysis
  BY <1>11 DEF ReturnAnalysis, TypeOK, Goto, Operations, DraftOps,
       LoadingOps, Steps
<1>12. CASE SessionBeginsVerify
  <2>1. checking' \in [Verifiers -> Manifests \cup {None}]
        /\ passed' \in [Verifiers -> BOOLEAN]
    BY <1>12 DEF SessionBeginsVerify, BeginVerify, TypeOK
  <2>2. op' \in Operations /\ step' \in Steps \ {"index"}
    BY <1>12, RaiseType DEF SessionBeginsVerify, TypeOK, Goto, Steps
  <2> QED BY <1>12, <2>1, <2>2 DEF SessionBeginsVerify, TypeOK
<1>13. CASE SessionChecksFiles
  <2>1. FilesVerify(checking[Session]) \in BOOLEAN
    BY DEF FilesVerify
  <2> QED BY <1>13, <2>1 DEF SessionChecksFiles, CheckFiles, TypeOK, Goto,
            Steps, Verifiers
<1>14. CASE SessionChecksRecords
  BY <1>14, CompletedType, FailedType DEF SessionChecksRecords, CheckRecords,
       TypeOK, Goto, Operations, DraftOps, PersistOps, Steps, Verifiers, Session,
       Operator
<1>15. CASE PublishMarker
  BY <1>15, RaiseType DEF PublishMarker, TypeOK, Goto, Operations, Steps
<1>16. CASE Deliver
  BY <1>16 DEF Deliver, TypeOK, Goto, Operations, Ended, Steps
<1>17. CASE Fault
  BY <1>17, RaiseType DEF Fault, TypeOK
<1>18. CASE CheckRaises
  BY <1>18 DEF CheckRaises, TypeOK, Verifiers, Session, Operator
<1>19. CASE Crash
  BY <1>19 DEF Crash, TypeOK, Goto, Operations, Ended, Steps
<1>20. CASE ReadManifest
  BY <1>20, StatusType DEF ReadManifest, TypeOK, Manifests
<1>21. CASE ReadMarker
  BY <1>21, StatusType DEF ReadMarker, TypeOK
<1>22. CASE UNCHANGED vars
  BY <1>22 DEF vars, TypeOK
<1> QED
  BY <1>1, <1>2, <1>3, <1>4, <1>5, <1>6, <1>7, <1>8, <1>9, <1>10, <1>11,
     <1>12, <1>13, <1>14, <1>15, <1>16, <1>17, <1>18, <1>19, <1>20, <1>21,
     <1>22 DEF Next, SessionStep

\* Every variable of the session, its stores and its reader keeps its type.
THEOREM TypeCorrect == Spec => []TypeOK
<1>1. TypeOK /\ [Next]_vars => TypeOK'
  BY StepType
<1> QED BY <1>1, InitType, PTL DEF Spec

-----------------------------------------------------------------------------
(* The inductive invariant.                                                 *)
LEMMA IInvInit == Init => IInv
BY DEF Init, IInv, StoresReady, UndecidedIsOpen, DraftsFit, CompleteIsBacked,
       FaultsCounted, Undecided, InitialManifest, DraftOps, LoadingOps, PersistOps, Ended

LEMMA IInvStep ==
  ASSUME TypeOK, IInv, [Next]_vars
  PROVE  IInv'
<1> USE DEF disk, meta, control, work, verify, reader, IInv, StoresReady,
            UndecidedIsOpen, DraftsFit, CompleteIsBacked, FaultsCounted, Undecided,
            Backed, Goto, Raise, Handler, DraftOps, LoadingOps, PersistOps, StoringOps,
            Ended
<1>1. CASE MakeRunRoot
  BY <1>1 DEF MakeRunRoot, TypeOK
<1>2. CASE InitializeMetadata
  BY <1>2 DEF InitializeMetadata, TypeOK
<1>3. CASE LoadManifest
  <2>1. /\ op \in LoadingOps /\ op' = op /\ step = "load" /\ step' = "write"
        /\ manifest \in Manifests /\ draft' = Revise(op, manifest)
    BY <1>3 DEF LoadManifest, TypeOK
  <2>2. op \in {"fail", "fail_again"} => draft'.ret = "retention_failed"
    BY <2>1, ReviseStatus
  <2>3. op \notin {"fail", "fail_again"} => draft'.ret = "retained_incomplete"
    BY <2>1, ReviseStatus
  <2>4. op = "candidate" => draft'.signed
    BY <2>1, ReviseStatus
  <2>5. UNCHANGED <<disk, meta, checking, passed, held>>
    BY <1>3 DEF LoadManifest
  <2>6. StoresReady' /\ UndecidedIsOpen' /\ CompleteIsBacked'
    BY <2>1, <2>3, <2>5
  <2>7. DraftsFit'
    BY <2>1, <2>2, <2>4, <2>5
  <2>8. FaultsCounted'
    BY <1>3, <2>1 DEF LoadManifest
  <2> QED BY <2>6, <2>7, <2>8
<1>4. CASE WriteManifest
  BY <1>4 DEF WriteManifest, TypeOK
<1>5. CASE UnlinkMarker
  BY <1>5 DEF UnlinkMarker, TypeOK
<1>6. CASE WriteRow
  <2>1. db = "ready" /\ AfterRow /\ row' = RowAfter(op, draft) /\ db' = db
    BY <1>6 DEF WriteRow
  <2>2. /\ op \in DraftOps /\ step = "row"
        /\ manifest = draft /\ draft \in Manifests
        /\ UNCHANGED <<disk, indexed, failedExec, draft, checking, passed, held>>
    BY <1>6 DEF WriteRow, TypeOK
  <2>3. row' # None /\ (op \in PersistOps => row' = FullRow(draft))
    <3>1. op # "begin" => row # None
      BY <2>2
    <3>2. row' \in Rows
      BY <2>1, <2>2, <3>1, RowAfterType DEF TypeOK
    <3> QED BY <2>1, <3>2 DEF RowAfter
  <2>4. StoresReady'
    BY <2>1, <2>2, <2>3 DEF AfterRow
  <2>5. UndecidedIsOpen'
    BY <2>1, <2>2 DEF AfterRow
  <2>6. DraftsFit'
    BY <2>1, <2>2, <2>3 DEF AfterRow
  <2>7. CompleteIsBacked'
    BY <1>6 DEF WriteRow, TypeOK
  <2>8. FaultsCounted'
    BY <1>6, <2>1, <2>2 DEF WriteRow, AfterRow
  <2> QED BY <2>4, <2>5, <2>6, <2>7, <2>8
<1>7. CASE StoreArtifact
  BY <1>7 DEF StoreArtifact, TypeOK
<1>8. CASE IndexArtifact
  BY <1>8 DEF IndexArtifact, TypeOK
<1>9. CASE StoringDone
  BY <1>9 DEF StoringDone, TypeOK
<1>10. CASE ReturnClarification
  BY <1>10 DEF ReturnClarification, TypeOK
<1>11. CASE ReturnAnalysis
  BY <1>11 DEF ReturnAnalysis, TypeOK
<1>12. CASE SessionBeginsVerify
  <2>1. /\ op = "verify" /\ op' = "verify" /\ step' = "files" /\ manifest # None
        /\ checking' = [checking EXCEPT ![Session] = manifest]
        /\ UNCHANGED <<disk, meta, work, held>>
    BY <1>12 DEF SessionBeginsVerify, BeginVerify
  <2>2. checking'[Session] = draft
    BY <2>1 DEF TypeOK, Verifiers
  <2> QED BY <2>1, <2>2
<1>13. CASE SessionChecksFiles
  <2>1. /\ op = "verify" /\ op' = "verify" /\ step = "files" /\ step' = "records"
        /\ checking[Session] = draft
        /\ UNCHANGED <<disk, meta, work, checking, held>>
    BY <1>13 DEF SessionChecksFiles
  <2>2. passed'[Session] => draft.listed \subseteq files
    BY <1>13, <2>1 DEF SessionChecksFiles, CheckFiles, FilesVerify, TypeOK, Verifiers
  <2> QED BY <2>1, <2>2
<1>14. CASE SessionChecksRecords
  <2>1. /\ op = "verify" /\ step = "records" /\ checking[Session] = draft
        /\ manifest = draft /\ draft \in Manifests /\ draft.signed
        /\ passed[Session] => draft.listed \subseteq files
        /\ marker = None /\ held = None /\ manifest.ret = "retained_incomplete"
    BY <1>14 DEF SessionChecksRecords, TypeOK
  <2>2. /\ dir' = TRUE /\ db' = "ready" /\ step' = "write"
        /\ UNCHANGED <<manifest, marker, files, row, indexed, failedExec, held>>
    BY <1>14 DEF SessionChecksRecords, CheckRecords
  <2>3. \/ op' = "rejected" /\ draft'.ret = "retention_failed"
        \/ op' = "completed" /\ draft'.ret = "retained_complete" /\ Backed(draft)'
    <3>1. CASE passed[Session] /\ RecordsVerify(checking[Session])
      BY <1>14, <2>1, <2>2, <3>1, CompletedType
         DEF SessionChecksRecords, RecordsVerify
    <3>2. CASE ~(passed[Session] /\ RecordsVerify(checking[Session]))
      BY <1>14, <2>1, <3>2, FailedType DEF SessionChecksRecords
    <3> QED BY <3>1, <3>2
  <2>4. StoresReady'
    BY <2>1, <2>2, <2>3
  <2>5. UndecidedIsOpen'
    BY <2>1, <2>2, <2>3
  <2>6. DraftsFit'
    BY <2>1, <2>2, <2>3
  <2>7. CompleteIsBacked'
    BY <2>1, <2>2
  <2>8. FaultsCounted'
    BY <2>3
  <2> QED BY <2>4, <2>5, <2>6, <2>7, <2>8
<1>15. CASE PublishMarker
  BY <1>15 DEF PublishMarker, TypeOK
<1>16. CASE Deliver
  BY <1>16 DEF Deliver, TypeOK
<1>17. CASE Fault
  BY <1>17 DEF Fault, TypeOK
<1>18. CASE CheckRaises
  BY <1>18 DEF CheckRaises, TypeOK
<1>19. CASE Crash
  BY <1>19 DEF Crash, TypeOK
<1>20. CASE ReadManifest
  BY <1>20 DEF ReadManifest, TypeOK
<1>21. CASE ReadMarker
  BY <1>21 DEF ReadMarker, TypeOK
<1>22. CASE UNCHANGED vars
  BY <1>22 DEF vars, FullRow
<1> QED
  BY <1>1, <1>2, <1>3, <1>4, <1>5, <1>6, <1>7, <1>8, <1>9, <1>10, <1>11, <1>12, <1>13,
     <1>14, <1>15, <1>16, <1>17, <1>18, <1>19, <1>20, <1>21, <1>22 DEF Next, SessionStep

(* Every reachable state satisfies the inductive invariant.                 *)
THEOREM InvariantHolds == Spec => []IInv
<1>1. TypeOK /\ IInv /\ [Next]_vars => IInv'
  BY IInvStep
<1> QED BY IInvInit, TypeCorrect, <1>1, PTL DEF Spec

-----------------------------------------------------------------------------
(* The safety invariants.                                                   *)

(* A run that readers report complete passes every check of verify_run.     *)
THEOREM CompleteIsVerifiable == Spec => []CompleteMeansVerifiable
<1>1. ASSUME TypeOK, IInv, EffectiveStatus = "retained_complete"
      PROVE  Verifies(manifest)
  <2>1. /\ manifest # None /\ manifest.ret = "retained_complete"
        /\ marker = manifest /\ manifest \in Manifests
    BY <1>1 DEF EffectiveStatus, StatusOf, TypeOK
  <2>2. Backed(manifest) /\ row = FullRow(manifest)
    BY <1>1, <2>1 DEF IInv, CompleteIsBacked
  <2>3. row # None /\ db = "ready"
    BY <1>1, <2>1, <2>2, FullRowType DEF IInv, StoresReady
  <2> QED BY <2>1, <2>2, <2>3 DEF Verifies, FilesVerify, RecordsVerify, Backed, FullRow
<1>2. TypeOK /\ IInv => CompleteMeansVerifiable
  BY <1>1 DEF CompleteMeansVerifiable
<1> QED BY TypeCorrect, InvariantHolds, <1>2, PTL

(* A reader between its two reads is about to say "complete" only of a      *)
(* manifest that was published with all its evidence.                       *)
THEOREM ReaderIsNeverFooled == Spec => []ReaderNeverFooled
<1>1. IInv => ReaderNeverFooled
  BY DEF IInv, CompleteIsBacked, Backed, ReaderNeverFooled
<1> QED BY InvariantHolds, <1>1, PTL

(* The runner's exit code agrees with what readers of the stores see.       *)
THEOREM ExitCodeIsHonest == Spec => []ExitAgreesWithStores
<1>1. ASSUME TypeOK, IInv, op = "succeeded"
      PROVE  EffectiveStatus = "retained_complete"
  BY <1>1 DEF IInv, DraftsFit, Backed, EffectiveStatus, StatusOf, TypeOK
<1>2. ASSUME TypeOK, IInv, op = "surfaced_failure", EffectiveStatus = "retained_complete"
      PROVE  faults + 2 <= MaxFaults
  <2>1. manifest # None /\ manifest.ret = "retained_complete" /\ marker # None
    BY <1>2 DEF EffectiveStatus, StatusOf
  <2>2. row # None
    BY <1>2, <2>1, FullRowType DEF IInv, CompleteIsBacked, TypeOK
  <2> QED BY <1>2, <2>1, <2>2 DEF IInv, FaultsCounted
<1>3. TypeOK /\ IInv => ExitAgreesWithStores
  BY <1>1, <1>2 DEF ExitAgreesWithStores
<1> QED BY TypeCorrect, InvariantHolds, <1>3, PTL

(* A single raised operation ends in a durably failed run.                  *)
THEOREM SingleFaultRecorded == Spec => []SingleFaultIsRecorded
<1>1. TypeOK /\ IInv => SingleFaultIsRecorded
  BY DEF IInv, StoresReady, FaultsCounted, SingleFaultIsRecorded, TypeOK,
     EffectiveStatus, StatusOf
<1> QED BY TypeCorrect, InvariantHolds, <1>1, PTL

-----------------------------------------------------------------------------
(* How a step moves the status that readers report.                         *)

Sealed == /\ manifest # None /\ RecordsVerify(manifest)
          /\ manifest.listed \subseteq files

LEMMA StatusMoves ==
  ASSUME TypeOK, IInv, [Next]_vars
  PROVE  \/ EffectiveStatus' = EffectiveStatus
         \/ /\ op \notin Ended
            /\ \/ EffectiveStatus' = "retention_failed"
               \/ /\ EffectiveStatus \notin {"retained_complete", "retention_failed"}
                  /\ EffectiveStatus' = "retained_complete" => Sealed /\ Sealed'
<1> USE DEF disk, meta, control, work, verify, reader, EffectiveStatus, StatusOf
<1>1. CASE MakeRunRoot \/ InitializeMetadata \/ StoreArtifact \/ SessionChecksRecords
  <2>1. op \notin Ended /\ UNCHANGED <<manifest, marker>>
    BY <1>1 DEF MakeRunRoot, InitializeMetadata, StoreArtifact,
         SessionChecksRecords, StoringOps, Ended
  <2>2. CASE manifest = None
    BY <2>1, <2>2
  <2>3. CASE manifest # None
    BY <2>1, <2>3
  <2> QED BY <2>2, <2>3
<1>2. CASE WriteManifest
  BY <1>2 DEF WriteManifest, IInv, StoresReady, UndecidedIsOpen, DraftsFit,
       Undecided, DraftOps, LoadingOps, PersistOps, Ended, TypeOK
<1>3. CASE UnlinkMarker
  <2>1. /\ op \in PersistOps /\ op \notin Ended /\ step = "unlink"
        /\ marker' = (IF draft.ret = "retained_complete" THEN marker ELSE None)
        /\ UNCHANGED <<dir, manifest>>
    BY <1>3 DEF UnlinkMarker, PersistOps, Ended
  <2>2. manifest = draft /\ manifest # None
    BY <2>1 DEF IInv, StoresReady, DraftsFit, DraftOps, PersistOps, Ended
  <2>3. CASE draft.ret = "retained_complete"
    BY <2>1, <2>3
  <2>4. CASE draft.ret # "retained_complete"
    BY <2>1, <2>2, <2>4
  <2> QED BY <2>3, <2>4
<1>4. CASE PublishMarker
  <2>1. op = "publish" /\ op \notin Ended
    BY <1>4 DEF PublishMarker, Ended
  <2>2. /\ manifest = draft /\ row = FullRow(draft) /\ marker = None
        /\ draft.ret = "retained_complete" /\ Backed(draft)
        /\ manifest # None /\ manifest \in Manifests
    BY <2>1 DEF IInv, StoresReady, DraftsFit, Ended, TypeOK
  <2>3. row # None
    BY <2>2, FullRowType
  <2>4. Sealed
    BY <2>2, <2>3 DEF Sealed, RecordsVerify, Backed, FullRow
  <2>5. UNCHANGED <<manifest, files, meta>>
    BY <1>4 DEF PublishMarker
  <2>6. Sealed'
    BY <2>4, <2>5 DEF Sealed, RecordsVerify
  <2>7. EffectiveStatus = "retained_incomplete"
    BY <2>2
  <2> QED BY <2>1, <2>4, <2>6, <2>7
<1>5. CASE UNCHANGED <<dir, manifest, marker>>
  BY <1>5
<1>6. CASE ~(\/ MakeRunRoot \/ InitializeMetadata \/ StoreArtifact
            \/ SessionChecksRecords \/ WriteManifest \/ UnlinkMarker \/ PublishMarker)
  <2>1. UNCHANGED <<dir, manifest, marker>>
    BY <1>6 DEF Next, SessionStep, vars, LoadManifest, WriteRow, IndexArtifact,
         StoringDone, ReturnClarification, ReturnAnalysis, SessionBeginsVerify,
         SessionChecksFiles, Deliver, Fault, CheckRaises, Crash, ReadManifest,
         ReadMarker
  <2> QED BY <1>5, <2>1
<1> QED BY <1>1, <1>2, <1>3, <1>4, <1>6

(* A failed run is never upgraded, and an ended session's status is final.  *)
THEOREM StatusNeverUpgraded == Spec => NeverUpgraded
<1>1. TypeOK /\ IInv /\ [Next]_vars =>
        [/\ EffectiveStatus = "retention_failed" =>
              EffectiveStatus' = "retention_failed"
         /\ op \in Ended => EffectiveStatus' = EffectiveStatus]_vars
  BY StatusMoves
<1> QED BY TypeCorrect, InvariantHolds, <1>1, PTL DEF Spec, NeverUpgraded

(* The session, through the status readers see, implements RunPublication.  *)
THEOREM RefinesPublication == Spec => ImplementsPublication
<1>1. Init => Publication!Init
  BY DEF Init, Publication!Init, EffectiveStatus
<1>2. TypeOK /\ IInv /\ CompleteMeansVerifiable /\ CompleteMeansVerifiable'
        /\ [Next]_vars => [Publication!Next]_Publication!vars
  <2> SUFFICES ASSUME TypeOK, IInv, CompleteMeansVerifiable,
                      CompleteMeansVerifiable', [Next]_vars
               PROVE  [Publication!Next]_Publication!vars
    OBVIOUS
  <2> USE DEF Publication!Next, Publication!Prepare, Publication!Publish,
              Publication!Fail, Publication!Decay, Publication!vars
  <2>1. ASSUME EffectiveStatus = "retained_complete" PROVE Sealed
    BY <2>1 DEF CompleteMeansVerifiable, Verifies, FilesVerify, Sealed, EffectiveStatus
  <2>2. ASSUME EffectiveStatus' = "retained_complete" PROVE Sealed'
    BY <2>2 DEF CompleteMeansVerifiable, Verifies, FilesVerify, Sealed, EffectiveStatus
  <2>3. Sealed \in BOOLEAN /\ Sealed' \in BOOLEAN
    BY DEF Sealed
  <2>4. CASE EffectiveStatus' = EffectiveStatus
    BY <2>1, <2>2, <2>3, <2>4 DEF Sealed
  <2>5. CASE EffectiveStatus' # EffectiveStatus
    BY <2>3, <2>5, StatusMoves DEF Sealed
  <2> QED BY <2>4, <2>5
<1> QED BY TypeCorrect, InvariantHolds, CompleteIsVerifiable, <1>1, <1>2, PTL
        DEF Spec, ImplementsPublication, Publication!Spec

-----------------------------------------------------------------------------
(* The run and the commands beside it: RetentionStore.                      *)

Final == {Result, Response}

\* The session has not yet listed what it has collected in a candidate.
Collecting ==
  \/ op \in {"begin", "set_writing", "context", "set_context", "declaration", "set_declaration",
             "analysis", "set_verifying", "final"}
  \/ op = "candidate" /\ step = "load"

\* It is collecting and past its context.
PastContext ==
  \/ op \in {"set_context", "declaration", "set_declaration", "analysis", "final"}
  \/ op = "set_verifying" /\ outcome = "result"
  \/ op = "candidate" /\ step = "load"

\* The artifacts it may still store.
Future ==
  CASE op \in {"begin", "set_writing"} -> Artifacts
    [] op = "context" -> todo \cup (Artifacts \ Context)
    [] op = "set_context" -> Artifacts \ Context
    [] op = "declaration" -> todo \cup Evidence \cup Final
    [] op = "set_declaration" -> Evidence \cup Final
    [] op = "analysis" -> todo \cup Final
    [] op = "set_verifying" -> Final
    [] op = "final" -> todo
    [] OTHER -> {}

\* The artifact it has stored and not indexed yet.
Handed == IF step = "index" THEN {hand} ELSE {}

\* What is gone for good: a file that is not there, a reference that is not.
NeverStored(a) == a \notin files \cup Future
NeverIndexed(a) == a \notin indexed \cup Future \cup Handed
ContextLost == \E c \in Context : NeverIndexed(c)

Finished(m) == Final \subseteq m.listed

\* A finished manifest that lists something gone for good.
Hopeless(m) == Finished(m) => \E a \in m.listed : NeverStored(a) \/ NeverIndexed(a)

TodoFits ==
  /\ op = "context" => todo \cup Handed \subseteq Context
  /\ op = "declaration" => todo \subseteq {Declaration}
  /\ op = "analysis" => todo \subseteq Evidence
  /\ op = "final" => todo \subseteq Final

\* Everything is stored once and indexed once.
Once ==
  /\ files \cap Future = {} /\ indexed \cap (Future \cup Handed) = {} /\ Handed \cap Future = {}

\* The context is indexed before anything else, or lost.
ContextFirst ==
  /\ op = "context" => ContextLost \/ Context \subseteq todo \cup Handed \cup indexed
  /\ PastContext => ContextLost \/ Context \subseteq indexed
  /\ indexed # {} => ContextLost \/ indexed \cap Context # {}

\* The manifest lists the context before anything else.
ContextListed ==
  /\ PastContext /\ manifest # None /\ ~(op = "set_context" /\ step \in {"load", "write"})
       => Context \subseteq manifest.listed
  /\ PastContext /\ op \in {"set_context", "set_declaration", "set_verifying"} /\ step \in {"write", "row"}
       => Context \subseteq draft.listed

\* What is stored is indexed at once.
FilesKnown == Collecting => ContextLost \/ files \subseteq indexed \cup Handed

\* A finished manifest lists all there is, and all there was.
ManifestFits(m) ==
  /\ Result \in m.listed => ~Collecting
  /\ Finished(m) => Context \subseteq m.listed /\ (ContextLost \/ files \subseteq m.listed)
  /\ damaged => Hopeless(m)

ManifestsFit == ManifestFits(draft) /\ (manifest # None => ManifestFits(manifest))

\* Damage done while the session is collecting will show in its candidate.
DamageShows ==
  damaged /\ Collecting => ContextLost \/ \E a \in Artifacts : NeverStored(a) /\ a \in indexed \cup Handed

\* The verify_run that started on a damaged run has its error before it or behind it.
SuspectFails ==
  /\ suspect => vstep # "idle" /\ checking[Operator] # None
  /\ suspect /\ vstep = "files" => Hopeless(checking[Operator])
  /\ suspect /\ vstep = "records" /\ passed[Operator] /\ Finished(checking[Operator]) =>
       \E a \in checking[Operator].listed : NeverIndexed(a)

DamageInv ==
  /\ StoreTypeOK /\ TodoFits /\ Once /\ ContextFirst /\ ContextListed /\ FilesKnown
  /\ ManifestsFit /\ DamageShows /\ SuspectFails

\* A run is only deleted behind the session's back when nobody looks.
DeletionFits ==
  Session \notin raced =>
    /\ del \in {"removing", "deleted"} => op \in Ended
    /\ del = "deleted" => manifest = None

USE NoneIsNothing, DistinctArtifacts, FaultsAssumption, DeletesAssumption
USE DEF disk, meta, control, work, verify, reader, operator, deletion

-----------------------------------------------------------------------------
(* Types *)

LEMMA StoreInitType == StoreInit => StoreTypeOK
<1> SUFFICES ASSUME StoreInit PROVE StoreTypeOK
  OBVIOUS
<1>1. TypeOK
  BY InitType DEF StoreInit
<1>2. deletes \in 0..MaxDeletes
  BY DEF StoreInit
<1> QED BY <1>1, <1>2 DEF StoreInit, StoreTypeOK

LEMMA StoreStepType ==
  ASSUME StoreTypeOK, [StoreNext]_storeVars
  PROVE  StoreTypeOK'
<1> USE DEF StoreTypeOK
<1>1. CASE RunStep
  <2>1. [Next]_vars
    BY <1>1 DEF RunStep, Next
  <2>2. TypeOK'
    BY <2>1, StepType
  <2> QED BY <1>1, <2>2 DEF RunStep
<1>2. CASE VerifyLoads
  <2>1. checking' \in [Verifiers -> Manifests \cup {None}] /\ passed' \in [Verifiers -> BOOLEAN]
    BY <1>2 DEF VerifyLoads, BeginVerify, TypeOK
  <2> QED BY <1>2, <2>1 DEF VerifyLoads, TypeOK, Verifiers
<1>3. CASE VerifyChecksFiles
  <2>1. FilesVerify(checking[Operator]) \in BOOLEAN
    BY DEF FilesVerify
  <2> QED BY <1>3, <2>1 DEF VerifyChecksFiles, CheckFiles, TypeOK, Verifiers
<1>4. CASE VerifyChecksRecords
  <2>1. checking' \in [Verifiers -> Manifests \cup {None}] /\ passed' \in [Verifiers -> BOOLEAN]
    BY <1>4 DEF VerifyChecksRecords, CheckRecords, TypeOK
  <2>2. TypeOK'
    BY <1>4, <2>1 DEF VerifyChecksRecords, CheckRecords, TypeOK
  <2> QED BY <1>4, <2>2 DEF VerifyChecksRecords
<1>5. CASE BeginDelete
  BY <1>5 DEF BeginDelete, vars, TypeOK, TopEntries, Verifiers
<1>6. CASE EnterArtifacts
  BY <1>6 DEF EnterArtifacts, vars, TypeOK
<1>7. CASE RemoveArtifact
  BY <1>7 DEF RemoveArtifact, TypeOK
<1>8. CASE RemoveManifest
  BY <1>8 DEF RemoveManifest, TypeOK
<1>9. CASE RemoveMarker
  BY <1>9 DEF RemoveMarker, TypeOK
<1>10. CASE RemoveMetadata
  <2>1. TypeOK'
    BY <1>10 DEF RemoveMetadata, TypeOK
  <2> QED BY <1>10, <2>1 DEF RemoveMetadata
<1>11. CASE RemoveRunRoot
  <2>1. /\ UNCHANGED <<manifest, marker, files, meta, control, work, faults, verify,
                        reader, operator, entries, deletes, damaged, raced>>
        /\ del' \in {"deleted", "failed"}
    BY <1>11 DEF RemoveRunRoot
  <2>2. dir' = FALSE \/ dir' = dir
    BY <1>11 DEF RemoveRunRoot
  <2>3. dir' \in BOOLEAN
    BY <2>2 DEF TypeOK
  <2>4. TypeOK'
    BY <2>1, <2>3 DEF TypeOK
  <2> QED BY <2>1, <2>4
<1>12. CASE EntryVanished \/ DeleteKilled \/ UNCHANGED storeVars
  BY <1>12 DEF EntryVanished, DeleteKilled, storeVars, vars, TypeOK
<1> QED BY <1>1, <1>2, <1>3, <1>4, <1>5, <1>6, <1>7, <1>8, <1>9, <1>10, <1>11, <1>12
        DEF StoreNext, DeleteStep

-----------------------------------------------------------------------------
(* A deleted run *)

\* A session that has ended takes no step.
LEMMA EndedRests ==
  ASSUME op \in Ended
  PROVE  ~RunStep
<1> SUFFICES ASSUME RunStep PROVE FALSE
  OBVIOUS
<1> USE DEF Ended, LoadingOps, StoringOps, PersistOps, DraftOps
<1>1. ~SessionStep
  <2>1. ~(MakeRunRoot \/ InitializeMetadata \/ LoadManifest \/ WriteManifest)
    BY DEF MakeRunRoot, InitializeMetadata, LoadManifest, WriteManifest
  <2>2. ~(UnlinkMarker \/ WriteRow \/ StoreArtifact \/ IndexArtifact \/ StoringDone)
    BY DEF UnlinkMarker, WriteRow, StoreArtifact, IndexArtifact, StoringDone
  <2>3. ~(ReturnClarification \/ ReturnAnalysis \/ PublishMarker \/ Deliver)
    BY DEF ReturnClarification, ReturnAnalysis, PublishMarker, Deliver
  <2>4. ~(SessionBeginsVerify \/ SessionChecksFiles \/ SessionChecksRecords)
    BY DEF SessionBeginsVerify, SessionChecksFiles, SessionChecksRecords
  <2> QED BY <2>1, <2>2, <2>3, <2>4 DEF SessionStep
<1> QED BY <1>1 DEF RunStep, Fault, CheckRaises, Crash

LEMMA DeletionStep ==
  ASSUME DeletionFits, [StoreNext]_storeVars
  PROVE  DeletionFits'
<1> USE DEF DeletionFits
<1>1. CASE RunStep
  BY <1>1, EndedRests DEF RunStep
<1>2. CASE VerifyLoads \/ VerifyChecksFiles \/ VerifyChecksRecords
  BY <1>2 DEF VerifyLoads, VerifyChecksFiles, VerifyChecksRecords
<1>3. CASE BeginDelete
  BY <1>3 DEF BeginDelete, vars
<1>4. CASE EnterArtifacts \/ RemoveArtifact \/ RemoveManifest \/ RemoveMarker \/ RemoveMetadata
  BY <1>4 DEF EnterArtifacts, RemoveArtifact, RemoveManifest, RemoveMarker, RemoveMetadata, vars
<1>5. CASE RemoveRunRoot
  BY <1>5 DEF RemoveRunRoot, Emptied
<1>6. CASE EntryVanished \/ DeleteKilled \/ UNCHANGED storeVars
  BY <1>6 DEF EntryVanished, DeleteKilled, storeVars, vars
<1> QED BY <1>1, <1>2, <1>3, <1>4, <1>5, <1>6 DEF StoreNext, DeleteStep

-----------------------------------------------------------------------------
(* What is gone stays gone *)

\* The session only goes forward.
Progress ==
  /\ Future' \subseteq Future /\ Handed' \subseteq Handed \cup Future
  /\ files' \subseteq files \cup Future /\ indexed' \subseteq indexed \cup Handed

LEMMA LossStays ==
  ASSUME Progress
  PROVE  /\ \A a : NeverStored(a) => NeverStored(a)'
         /\ \A a : NeverIndexed(a) => NeverIndexed(a)'
         /\ ContextLost => ContextLost'
         /\ \A m : Hopeless(m) => Hopeless(m)'
<1>1. ASSUME NEW a, NeverStored(a) PROVE NeverStored(a)'
  BY <1>1 DEF Progress, NeverStored
<1>2. ASSUME NEW a, NeverIndexed(a) PROVE NeverIndexed(a)'
  BY <1>2 DEF Progress, NeverIndexed
<1>3. ContextLost => ContextLost'
  BY <1>2 DEF ContextLost
<1>4. ASSUME NEW m, Hopeless(m) PROVE Hopeless(m)'
  BY <1>1, <1>2, <1>4 DEF Hopeless, Finished
<1> QED BY <1>1, <1>2, <1>3, <1>4

\* A step after which the session collects no more, and neither stores nor indexes.
LEMMA NotCollecting ==
  ASSUME ~Collecting
  PROVE  Future = {} /\ ~PastContext /\ TodoFits
BY DEF Collecting, Future, PastContext, TodoFits

\* What a manifest lists is all that counts.
LEMMA SameList ==
  ASSUME NEW m, NEW n, n.listed = m.listed, ManifestFits(m)
  PROVE  ManifestFits(n)
BY DEF ManifestFits, Finished, Hopeless

\* A finished manifest stays a fitting one when the stores shrink or stay and damage
\* is not new.
LEMMA ManifestKept ==
  ASSUME NEW m, ManifestFits(m), Progress, files' \subseteq files, damaged' = damaged,
         Result \in m.listed => ~Collecting'
  PROVE  ManifestFits(m)'
BY LossStays DEF ManifestFits, Finished

\* What a damaged run's verification knows survives every step that leaves it alone.
LEMMA SuspectKept ==
  ASSUME SuspectFails, Progress, suspect' = suspect, vstep' = vstep,
         checking'[Operator] = checking[Operator], passed'[Operator] = passed[Operator]
  PROVE  SuspectFails'
<1>1. suspect' => vstep' # "idle" /\ checking'[Operator] # None
  BY DEF SuspectFails
<1>2. ASSUME suspect', vstep' = "files" PROVE Hopeless(checking[Operator])'
  <2>1. Hopeless(checking[Operator])
    BY <1>2 DEF SuspectFails
  <2> QED BY <2>1, LossStays DEF Hopeless, Finished
<1>3. ASSUME suspect', vstep' = "records", passed'[Operator], Finished(checking[Operator])
      PROVE  \E a \in checking[Operator].listed : NeverIndexed(a)'
  <2>1. PICK a \in checking[Operator].listed : NeverIndexed(a)
    BY <1>3 DEF SuspectFails
  <2> QED BY <2>1, LossStays
<1> QED BY <1>1, <1>2, <1>3 DEF SuspectFails, Hopeless, Finished

\* Listed and lost: the session has collected, whatever becomes of it now.
LEMMA LeavesCollecting ==
  ASSUME DamageInv, StoreTypeOK', ~Collecting', step' # "index",
         UNCHANGED <<files, indexed, damaged, suspect, vstep>>,
         checking'[Operator] = checking[Operator], passed'[Operator] = passed[Operator],
         \/ draft'.listed = draft.listed
         \/ manifest # None /\ draft'.listed = manifest.listed,
         \/ manifest' = manifest
         \/ manifest' = draft
  PROVE  DamageInv'
<1>1. Future' = {} /\ ~PastContext' /\ TodoFits' /\ Handed' = {}
  BY NotCollecting DEF Collecting, Future, PastContext, TodoFits, Handed
<1>2. Progress
  BY <1>1 DEF Progress
<1>3. Once'
  BY <1>1 DEF Once, DamageInv
<1>4. ContextFirst' /\ ContextListed' /\ FilesKnown' /\ DamageShows'
  <2>1. op' # "context"
    BY DEF Collecting
  <2>2. indexed' # {} => ContextLost' \/ indexed' \cap Context # {}
    BY <1>2, LossStays DEF DamageInv, ContextFirst
  <2> QED BY <1>1, <2>1, <2>2 DEF ContextFirst, ContextListed, FilesKnown, DamageShows
<1>5. SuspectFails'
  BY <1>2, SuspectKept DEF DamageInv
<1>6. ManifestsFit'
  <2>1. ManifestFits(draft)' 
    <3>1. PICK m : m.listed = draft'.listed /\ ManifestFits(m)
      BY DEF DamageInv, ManifestsFit
    <3>2. ManifestFits(m)'
      BY <1>2, <3>1, ManifestKept
    <3> QED BY <3>1, <3>2 DEF ManifestFits, Finished, Hopeless
  <2>2. ASSUME manifest' # None PROVE ManifestFits(manifest)'
    <3>1. PICK m : m = manifest' /\ ManifestFits(m)
      BY <2>2 DEF DamageInv, ManifestsFit
    <3>2. ManifestFits(m)'
      BY <1>2, <3>1, ManifestKept
    <3> QED BY <3>1, <3>2 DEF ManifestFits, Finished, Hopeless
  <2> QED BY <2>1, <2>2 DEF ManifestsFit
<1> QED BY <1>1, <1>3, <1>4, <1>5, <1>6 DEF DamageInv

\* While the session collects, no manifest is finished, and what is lost stays lost.
LEMMA StaysCollecting ==
  ASSUME DamageInv, StoreTypeOK', Collecting, Progress,
         TodoFits', Once', ContextFirst', ContextListed', FilesKnown',
         UNCHANGED <<damaged, suspect, vstep>>,
         checking'[Operator] = checking[Operator], passed'[Operator] = passed[Operator],
         Result \notin draft'.listed, manifest' # None => Result \notin manifest'.listed,
         indexed \cup Handed \subseteq indexed' \cup Handed'
  PROVE  DamageInv'
<1>1. SuspectFails'
  BY SuspectKept DEF DamageInv
<1>2. ManifestsFit'
  BY DEF ManifestsFit, ManifestFits, Finished, Hopeless, Final
<1>3. DamageShows'
  <2> SUFFICES ASSUME damaged, ~ContextLost'
               PROVE  \E a \in Artifacts : NeverStored(a)' /\ a \in indexed' \cup Handed'
    BY DEF DamageShows
  <2>1. PICK a \in Artifacts : NeverStored(a) /\ a \in indexed \cup Handed
    BY LossStays DEF DamageInv, DamageShows
  <2> QED BY <2>1, LossStays
<1> QED BY <1>1, <1>2, <1>3 DEF DamageInv

-----------------------------------------------------------------------------
(* Steps of the session *)

\* An operation that raises lands in a handler, and the session collects no more.
LEMMA RaiseLeaves ==
  ASSUME DamageInv, StoreTypeOK', Raise, UNCHANGED <<manifest, files, indexed, draft, damaged>>,
         UNCHANGED <<suspect, vstep>>,
         checking'[Operator] = checking[Operator], passed'[Operator] = passed[Operator]
  PROVE  DamageInv'
<1>1. op' \in {"surfaced_failure", "fail", "fail_again"} /\ step' # "index"
  BY RaiseType DEF DamageInv, StoreTypeOK, TypeOK
<1>2. ~Collecting'
  BY <1>1 DEF Collecting
<1> QED BY <1>1, <1>2, LeavesCollecting

\* Faults, crashes and what the session does once it has a candidate.
LEMMA LaterStepSafe ==
  ASSUME DamageInv, StoreTypeOK', UNCHANGED <<operator, deletion>>,
         \/ Fault \/ CheckRaises \/ Crash \/ SessionBeginsVerify \/ SessionChecksFiles
         \/ SessionChecksRecords \/ PublishMarker \/ Deliver
  PROVE  DamageInv'
<1>1. TypeOK /\ Session # Operator /\ Session \in Verifiers /\ Operator \in Verifiers
  BY DEF DamageInv, StoreTypeOK, Session, Operator, Verifiers
<1>2. CASE Fault
  BY <1>2, RaiseLeaves DEF Fault
<1>3. CASE CheckRaises
  <2>1. passed'[Operator] = passed[Operator]
    BY <1>1, <1>3 DEF CheckRaises, TypeOK
  <2>2. ~Collecting' /\ step' # "index"
    BY <1>3 DEF CheckRaises, Collecting
  <2> QED BY <1>3, <2>1, <2>2, LeavesCollecting DEF CheckRaises
<1>4. CASE Crash
  <2>1. ~Collecting' /\ step' # "index"
    BY <1>4 DEF Crash, Collecting, Goto
  <2> QED BY <1>4, <2>1, LeavesCollecting DEF Crash
<1>5. CASE SessionBeginsVerify
  <2>1. CASE manifest = None
    BY <1>5, <2>1, RaiseLeaves DEF SessionBeginsVerify
  <2>2. CASE manifest # None
    <3>1. checking'[Operator] = checking[Operator] /\ passed'[Operator] = passed[Operator]
      BY <1>1, <1>5, <2>2 DEF SessionBeginsVerify, BeginVerify, TypeOK
    <3>2. ~Collecting' /\ step' # "index"
      BY <1>5, <2>2 DEF SessionBeginsVerify, Collecting, Goto
    <3> QED BY <1>5, <2>2, <3>1, <3>2, LeavesCollecting DEF SessionBeginsVerify
  <2> QED BY <2>1, <2>2
<1>6. CASE SessionChecksFiles
  <2>1. passed'[Operator] = passed[Operator]
    BY <1>1, <1>6 DEF SessionChecksFiles, CheckFiles, TypeOK
  <2>2. ~Collecting' /\ step' # "index"
    BY <1>6 DEF SessionChecksFiles, Collecting, Goto
  <2> QED BY <1>6, <2>1, <2>2, LeavesCollecting DEF SessionChecksFiles
<1>7. CASE SessionChecksRecords
  <2>1. checking'[Operator] = checking[Operator] /\ passed'[Operator] = passed[Operator]
    BY <1>1, <1>7 DEF SessionChecksRecords, CheckRecords, TypeOK
  <2>2. ~Collecting' /\ step' # "index"
    BY <1>7 DEF SessionChecksRecords, Collecting, Goto
  <2>3. draft'.listed = draft.listed
    <3>1. draft \in Manifests
      BY <1>1 DEF TypeOK
    <3>2. Completed(draft).listed = draft.listed /\ Failed(draft).listed = draft.listed
      BY <3>1 DEF Completed, Failed, Manifests
    <3> QED BY <1>7, <3>2 DEF SessionChecksRecords
  <2> QED BY <1>7, <2>1, <2>2, <2>3, LeavesCollecting DEF SessionChecksRecords
<1>8. CASE PublishMarker
  <2>1. CASE ~dir
    BY <1>8, <2>1, RaiseLeaves DEF PublishMarker
  <2>2. CASE dir
    <3>1. ~Collecting' /\ step' # "index"
      BY <1>8, <2>2 DEF PublishMarker, Collecting, Goto
    <3> QED BY <1>8, <2>2, <3>1, LeavesCollecting DEF PublishMarker
  <2> QED BY <2>1, <2>2
<1>9. CASE Deliver
  <2>1. ~Collecting' /\ step' # "index"
    BY <1>9 DEF Deliver, Collecting, Goto
  <2> QED BY <1>9, <2>1, LeavesCollecting DEF Deliver
<1> QED BY <1>2, <1>3, <1>4, <1>5, <1>6, <1>7, <1>8, <1>9

\* The candidate lists what the manifest has and what is indexed: the context, if it is
\* not lost, and every file, if it is.
LEMMA CandidateSafe ==
  ASSUME DamageInv, StoreTypeOK', UNCHANGED <<operator, deletion>>, LoadManifest, op = "candidate"
  PROVE  DamageInv'
<1>1. CASE manifest = None
  BY <1>1, RaiseLeaves DEF LoadManifest
<1>2. CASE manifest # None
  <2>1. /\ step = "load" /\ op' = "candidate" /\ step' = "write"
        /\ draft' = Revise("candidate", manifest)
        /\ UNCHANGED <<disk, meta, todo, hand, outcome, verify>>
    BY <1>2 DEF LoadManifest, Goto
  <2>2. manifest \in Manifests
    BY <1>2 DEF DamageInv, StoreTypeOK, TypeOK
  <2>3. draft'.listed = manifest.listed \cup indexed
    BY <2>1, <2>2 DEF Revise, Manifests
  <2>4. Collecting /\ PastContext /\ Handed = {} /\ ~Collecting' /\ ~PastContext'
    BY <2>1 DEF Collecting, PastContext, Handed
  <2>5. Future = {} /\ Future' = {} /\ Handed' = {} /\ TodoFits'
    BY <2>1 DEF Future, Handed, TodoFits
  <2>6. Progress
    BY <2>1, <2>5 DEF Progress
  <2>7. Context \subseteq draft'.listed
    BY <1>2, <2>1, <2>3, <2>4 DEF DamageInv, ContextListed
  <2>8. ContextLost \/ files \subseteq draft'.listed
    BY <2>3, <2>4 DEF DamageInv, FilesKnown
  <2>9. damaged => \E a \in draft'.listed : NeverStored(a) \/ NeverIndexed(a)
    <3>1. damaged => ContextLost \/ \E a \in indexed : NeverStored(a)
      BY <2>4 DEF DamageInv, DamageShows
    <3> QED BY <2>3, <2>7, <3>1 DEF ContextLost
  <2>10. ManifestFits(draft)'
    <3>1. damaged' = damaged /\ files' = files
      BY <2>1
    <3>2. ContextLost' \/ files' \subseteq draft'.listed
      BY <2>6, <2>8, <3>1, LossStays
    <3>3. damaged' => Hopeless(draft)'
      BY <2>6, <2>9, <3>1, LossStays DEF Hopeless
    <3> QED BY <2>4, <2>7, <3>2, <3>3 DEF ManifestFits
  <2>11. ManifestFits(manifest)'
    <3>1. PICK m : m = manifest /\ m = manifest' /\ ManifestFits(m)
      BY <1>2, <2>1 DEF DamageInv, ManifestsFit
    <3>2. ManifestFits(m)'
      BY <2>1, <2>4, <2>6, <3>1, ManifestKept
    <3> QED BY <3>1, <3>2 DEF ManifestFits, Finished, Hopeless
  <2>12. Once' /\ SuspectFails'
    BY <2>1, <2>5, <2>6, SuspectKept DEF DamageInv, Once
  <2>13. ContextFirst' /\ ContextListed' /\ FilesKnown' /\ DamageShows'
    BY <2>1, <2>4, <2>6, LossStays DEF DamageInv, ContextFirst, ContextListed, FilesKnown, DamageShows
  <2> QED BY <2>5, <2>10, <2>11, <2>12, <2>13 DEF DamageInv, ManifestsFit
<1> QED BY <1>1, <1>2

\* A later operation loads, writes or registers its manifest.
LEMMA LaterManifestSafe ==
  ASSUME DamageInv, StoreTypeOK', UNCHANGED <<operator, deletion>>,
         LoadManifest \/ WriteManifest \/ UnlinkMarker \/ WriteRow,
         op \notin {"begin", "set_writing", "set_context", "set_declaration", "set_verifying"},
         ~(op = "candidate" /\ step = "load")
  PROVE  DamageInv'
<1>1. TypeOK
  BY DEF DamageInv, StoreTypeOK
<1>2. CASE LoadManifest
  <2>1. CASE manifest = None
    BY <1>2, <2>1, RaiseLeaves DEF LoadManifest
  <2>2. CASE manifest # None
    <3>1. op \in {"fail", "fail_again"} /\ op' = op /\ step' = "write" /\ draft' = Revise(op, manifest)
      BY <1>2, <2>2 DEF LoadManifest, Goto, LoadingOps
    <3>2. draft'.listed = manifest.listed
      <4>1. manifest \in Manifests
        BY <1>1, <2>2 DEF TypeOK
      <4> QED BY <3>1, <4>1 DEF Revise, Failed, Manifests
    <3>3. ~Collecting' /\ step' # "index"
      BY <3>1 DEF Collecting
    <3> QED BY <1>2, <2>2, <3>2, <3>3, LeavesCollecting DEF LoadManifest
  <2> QED BY <2>1, <2>2
<1>3. CASE WriteManifest
  <2>1. CASE ~dir
    BY <1>3, <2>1, RaiseLeaves DEF WriteManifest
  <2>2. CASE dir
    <3>1. ~Collecting' /\ step' # "index"
      BY <1>3, <2>2 DEF WriteManifest, Goto, DraftOps, LoadingOps, PersistOps, Collecting
    <3> QED BY <1>3, <2>2, <3>1, LeavesCollecting DEF WriteManifest
  <2> QED BY <2>1, <2>2
<1>4. CASE UnlinkMarker
  <2>1. ~Collecting' /\ step' # "index"
    BY <1>4 DEF UnlinkMarker, Goto, PersistOps, Collecting
  <2> QED BY <1>4, <2>1, LeavesCollecting DEF UnlinkMarker
<1>5. CASE WriteRow
  <2>1. CASE db = "ready"
    <3>1. ~Collecting' /\ step' # "index"
      BY <1>5, <2>1 DEF WriteRow, AfterRow, Goto, DraftOps, LoadingOps, PersistOps, Collecting
    <3> QED BY <1>5, <2>1, <3>1, LeavesCollecting DEF WriteRow
  <2>2. CASE db # "ready"
    BY <1>5, <2>2, RaiseLeaves DEF WriteRow
  <2> QED BY <2>1, <2>2
<1> QED BY <1>2, <1>3, <1>4, <1>5

\* An operation of the collecting session loads, writes or registers its manifest.
LEMMA EarlyManifestSafe ==
  ASSUME DamageInv, StoreTypeOK', UNCHANGED <<operator, deletion>>,
         LoadManifest \/ WriteManifest \/ UnlinkMarker \/ WriteRow,
         op \in {"begin", "set_writing", "set_context", "set_declaration", "set_verifying"}
  PROVE  DamageInv'
<1>1. TypeOK /\ Collecting /\ Result \notin draft.listed /\ (manifest # None => Result \notin manifest.listed)
  BY DEF DamageInv, StoreTypeOK, Collecting, ManifestsFit, ManifestFits
<1>2. CASE LoadManifest
  <2>1. CASE manifest = None
    BY <1>2, <2>1, RaiseLeaves DEF LoadManifest
  <2>2. CASE manifest # None
    <3>1. /\ step = "load" /\ step' = "write" /\ op' = op /\ draft' = Revise(op, manifest)
          /\ op # "begin"
          /\ UNCHANGED <<disk, meta, todo, hand, outcome, faults, verify>>
      BY <1>2, <2>2 DEF LoadManifest, Goto, LoadingOps
    <3>2. /\ op \in {"set_writing", "set_verifying"} => draft'.listed = manifest.listed
          /\ op = "set_context" => draft'.listed = manifest.listed \cup Context
          /\ op = "set_declaration" => draft'.listed = manifest.listed \cup {Declaration}
      <4>1. manifest \in Manifests
        BY <1>1, <2>2 DEF TypeOK
      <4> QED BY <3>1, <4>1 DEF Revise, Manifests
    <3>3. Result \notin draft'.listed
      BY <1>1, <2>2, <3>1, <3>2
    <3>4. Future' = Future /\ Handed = {} /\ Handed' = {} /\ (PastContext' <=> PastContext)
      BY <3>1 DEF Future, Handed, PastContext
    <3>5. Progress
      BY <3>1, <3>4 DEF Progress
    <3>6. TodoFits' /\ Once'
      BY <3>1, <3>4 DEF DamageInv, TodoFits, Once
    <3>7. ContextFirst' /\ FilesKnown'
      BY <1>1, <3>1, <3>4, <3>5, LossStays DEF DamageInv, ContextFirst, FilesKnown
    <3>8. ContextListed'
      BY <2>2, <3>1, <3>2, <3>4 DEF DamageInv, ContextListed
    <3> QED BY <1>1, <3>1, <3>3, <3>4, <3>5, <3>6, <3>7, <3>8, StaysCollecting
  <2> QED BY <2>1, <2>2
<1>3. CASE WriteManifest
  <2>1. CASE ~dir
    BY <1>3, <2>1, RaiseLeaves DEF WriteManifest
  <2>2. CASE dir
    <3>1. /\ step = "write" /\ step' = "row" /\ op' = op /\ manifest' = draft
          /\ UNCHANGED <<files, meta, work, verify>>
      BY <1>3, <2>2 DEF WriteManifest, Goto, PersistOps
    <3>2. Future' = Future /\ Handed = {} /\ Handed' = {} /\ (PastContext' <=> PastContext)
      BY <3>1 DEF Future, Handed, PastContext
    <3>3. Progress
      BY <3>1, <3>2 DEF Progress
    <3>4. TodoFits' /\ Once'
      BY <3>1, <3>2 DEF DamageInv, TodoFits, Once
    <3>5. ContextFirst' /\ FilesKnown'
      BY <1>1, <3>1, <3>2, <3>3, LossStays DEF DamageInv, ContextFirst, FilesKnown
    <3>6. ContextListed'
      BY <3>1, <3>2 DEF DamageInv, ContextListed, PastContext
    <3> QED BY <1>1, <3>1, <3>2, <3>3, <3>4, <3>5, <3>6, StaysCollecting
  <2> QED BY <2>1, <2>2
<1>4. ~UnlinkMarker
  BY DEF UnlinkMarker, PersistOps
<1>5. CASE WriteRow
  <2>1. CASE db # "ready"
    BY <1>5, <2>1, RaiseLeaves DEF WriteRow
  <2>2. CASE op = "set_verifying" /\ outcome # "result" /\ db = "ready"
    <3>1. ~Collecting' /\ step' # "index"
      BY <1>5, <2>2 DEF WriteRow, AfterRow, Goto, Collecting
    <3> QED BY <1>5, <2>2, <3>1, LeavesCollecting DEF WriteRow
  <2>3. CASE db = "ready" /\ ~(op = "set_verifying" /\ outcome # "result")
    <3>1. /\ step = "row" /\ step' \in {"initdb", "store"}
          /\ UNCHANGED <<disk, indexed, draft, hand, outcome, verify>>
          /\ AfterRow
      BY <1>5, <2>3 DEF WriteRow, AfterRow, Goto
    <3>2. \/ op = "begin" /\ op' = "set_writing"
          \/ op = "set_writing" /\ op' = "context" /\ todo' = Context
          \/ op = "set_context" /\ op' = "declaration" /\ todo' = {Declaration}
          \/ op \in {"set_context", "set_declaration"} /\ op' = "analysis" /\ todo' = Evidence
          \/ op = "set_verifying" /\ outcome = "result" /\ op' = "final" /\ todo' = Final
      BY <2>3, <3>1 DEF AfterRow, Goto, Final
    <3>3. Handed = {} /\ Handed' = {} /\ TodoFits'
      BY <3>1, <3>2 DEF Handed, TodoFits
    <3>4. Future' \subseteq Future
      BY <3>2 DEF Future, Final, Artifacts
    <3>5. Progress /\ Once'
      BY <3>1, <3>3, <3>4 DEF Progress, DamageInv, Once
    <3>6. PastContext' => PastContext
      BY <3>2 DEF PastContext
    <3>7. ContextFirst' /\ FilesKnown'
      <4>1. ContextFirst /\ FilesKnown
        BY DEF DamageInv
      <4>2. op' = "context" => todo' = Context
        BY <3>2
      <4> QED BY <1>1, <3>1, <3>3, <3>5, <3>6, <4>1, <4>2, LossStays DEF ContextFirst, FilesKnown
    <3>8. ContextListed'
      BY <3>1, <3>2, <3>6 DEF DamageInv, ContextListed
    <3> QED BY <1>1, <3>1, <3>3, <3>5, <3>7, <3>8, StaysCollecting
  <2> QED BY <2>1, <2>2, <2>3
<1> QED BY <1>2, <1>3, <1>4, <1>5

\* The session makes its directory and its database, or goes from one operation to the next.
LEMMA MoveSafe ==
  ASSUME DamageInv, StoreTypeOK', UNCHANGED <<operator, deletion>>,
         MakeRunRoot \/ InitializeMetadata \/ StoringDone \/ ReturnClarification \/ ReturnAnalysis
  PROVE  DamageInv'
<1>1. TypeOK /\ Collecting /\ Result \notin draft.listed /\ (manifest # None => Result \notin manifest.listed)
  BY DEF DamageInv, StoreTypeOK, Collecting, ManifestsFit, ManifestFits, MakeRunRoot, InitializeMetadata,
         StoringDone, ReturnClarification, ReturnAnalysis, StoringOps
<1>2. /\ UNCHANGED <<manifest, files, indexed, draft, todo, hand, verify>>
      /\ step # "index" /\ step' \in {"initdb", "load", "write", "store"}
  BY DEF MakeRunRoot, InitializeMetadata, StoringDone, ReturnClarification, ReturnAnalysis, Goto
<1>3. \/ op' = op /\ outcome' = outcome /\ op \in {"begin", "set_writing", "analysis"}
      \/ op = "context" /\ op' = "set_context" /\ todo = {} /\ step' = "load"
      \/ op = "declaration" /\ op' = "set_declaration" /\ todo = {} /\ step' = "load"
      \/ op = "final" /\ op' = "candidate" /\ todo = {} /\ step' = "load"
      \/ op \in {"set_writing", "declaration"} /\ op' = "set_verifying" /\ outcome' = "clarification"
         /\ step' = "load"
      \/ op = "analysis" /\ op' = "set_verifying" /\ todo = {} /\ step' = "load"
  BY DEF MakeRunRoot, InitializeMetadata, StoringDone, ReturnClarification, ReturnAnalysis, Goto, StoringOps
<1>4. Handed = {} /\ Handed' = {} /\ TodoFits'
  BY <1>2, <1>3 DEF Handed, DamageInv, TodoFits
<1>5. Future' \subseteq Future
  BY <1>2, <1>3 DEF Future, Final, Artifacts
<1>6. Progress /\ Once'
  BY <1>2, <1>4, <1>5 DEF Progress, DamageInv, Once
<1>7. /\ op' # "context"
      /\ PastContext' => PastContext \/ (op = "context" /\ todo = {})
  BY <1>3 DEF PastContext
<1>8. ContextFirst' /\ FilesKnown'
  <2>1. ContextFirst /\ FilesKnown
    BY DEF DamageInv
  <2> QED BY <1>1, <1>2, <1>4, <1>6, <1>7, <2>1, LossStays DEF ContextFirst, FilesKnown
<1>9. ContextListed'
  BY <1>2, <1>3, <1>7 DEF DamageInv, ContextListed, PastContext
<1> QED BY <1>1, <1>2, <1>4, <1>6, <1>8, <1>9, StaysCollecting

LEMMA StoreSafe ==
  ASSUME DamageInv, StoreTypeOK', UNCHANGED <<operator, deletion>>, StoreArtifact
  PROVE  DamageInv'
<1>1. PICK a \in todo : files' = files \cup {a} /\ hand' = a /\ todo' = todo \ {a}
  BY DEF StoreArtifact
<1>2. /\ op \in StoringOps /\ op' = op /\ step = "store" /\ step' = "index"
      /\ UNCHANGED <<manifest, indexed, draft, outcome, verify>>
  BY DEF StoreArtifact, Goto
<1>3. TypeOK /\ Collecting /\ Result \notin draft.listed /\ (manifest # None => Result \notin manifest.listed)
  BY <1>2 DEF DamageInv, StoreTypeOK, Collecting, ManifestsFit, ManifestFits, StoringOps
<1>4. Handed = {} /\ Handed' = {a}
  BY <1>1, <1>2 DEF Handed
<1>5. a \in Future /\ Future' = Future \ {a}
  BY <1>1, <1>2 DEF Future, StoringOps, DamageInv, TodoFits, Final
<1>6. Progress
  BY <1>1, <1>2, <1>4, <1>5 DEF Progress
<1>7. TodoFits' /\ Once'
  BY <1>1, <1>2, <1>4, <1>5 DEF DamageInv, TodoFits, Once
<1>8. ContextFirst' /\ FilesKnown'
  <2>1. ContextFirst /\ FilesKnown /\ (PastContext' => PastContext)
    BY <1>2 DEF DamageInv, PastContext
  <2> QED BY <1>1, <1>2, <1>3, <1>4, <1>6, <2>1, LossStays DEF ContextFirst, FilesKnown
<1>9. ContextListed'
  BY <1>2 DEF DamageInv, ContextListed, PastContext
<1> QED BY <1>2, <1>3, <1>4, <1>6, <1>7, <1>8, <1>9, StaysCollecting

LEMMA IndexSafe ==
  ASSUME Context # {}, DamageInv, StoreTypeOK', UNCHANGED <<operator, deletion>>, IndexArtifact
  PROVE  DamageInv'
<1>1. CASE db # "ready"
  BY <1>1, RaiseLeaves DEF IndexArtifact
<1>2. CASE db = "ready"
  <2>1. /\ op \in StoringOps /\ op' = op /\ step = "index" /\ step' = "store"
        /\ indexed' = indexed \cup {hand}
        /\ UNCHANGED <<disk, draft, todo, outcome, verify>>
    BY <1>2 DEF IndexArtifact, Goto
  <2>2. TypeOK /\ Collecting /\ Result \notin draft.listed /\ (manifest # None => Result \notin manifest.listed)
    BY <2>1 DEF DamageInv, StoreTypeOK, Collecting, ManifestsFit, ManifestFits, StoringOps
  <2>3. Handed = {hand} /\ Handed' = {} /\ Future' = Future
    BY <2>1 DEF Handed, Future
  <2>4. Progress /\ TodoFits' /\ Once'
    BY <2>1, <2>3 DEF Progress, DamageInv, TodoFits, Once
  <2>5. (PastContext' <=> PastContext) /\ (op = "context" \/ PastContext)
    BY <2>1 DEF PastContext, StoringOps
  <2>6. ContextFirst'
    <3>1. ContextFirst
      BY DEF DamageInv
    <3>2. op' = "context" => ContextLost' \/ Context \subseteq todo' \cup Handed' \cup indexed'
      BY <2>1, <2>3, <2>4, <3>1, LossStays DEF ContextFirst
    <3>3. PastContext' => ContextLost' \/ Context \subseteq indexed'
      BY <2>1, <2>4, <2>5, <3>1, LossStays DEF ContextFirst
    <3>4. ContextLost' \/ indexed' \cap Context # {}
      <4>1. CASE op = "context"
        <5>1. hand \in Context
          BY <2>3, <4>1 DEF DamageInv, TodoFits
        <5> QED BY <2>1, <5>1
      <4>2. CASE PastContext
        BY <2>5, <3>3, <4>2
      <4> QED BY <2>5, <4>1, <4>2
    <3> QED BY <3>2, <3>3, <3>4 DEF ContextFirst
  <2>7. FilesKnown'
    BY <2>1, <2>2, <2>3, <2>4, LossStays DEF DamageInv, FilesKnown
  <2>8. ContextListed'
    BY <2>1, <2>5 DEF DamageInv, ContextListed
  <2> QED BY <2>1, <2>2, <2>3, <2>4, <2>6, <2>7, <2>8, StaysCollecting
<1> QED BY <1>1, <1>2

LEMMA RunStepSafe ==
  ASSUME Context # {}, DamageInv, RunStep
  PROVE  DamageInv'
<1>1. StoreTypeOK'
  BY StoreStepType DEF DamageInv, StoreNext
<1>2. UNCHANGED <<operator, deletion>>
  BY DEF RunStep
<1>3. CASE Fault \/ CheckRaises \/ Crash \/ SessionBeginsVerify \/ SessionChecksFiles
           \/ SessionChecksRecords \/ PublishMarker \/ Deliver
  BY <1>1, <1>2, <1>3, LaterStepSafe
<1>4. CASE LoadManifest \/ WriteManifest \/ UnlinkMarker \/ WriteRow
  <2>1. CASE op \in {"begin", "set_writing", "set_context", "set_declaration", "set_verifying"}
    BY <1>1, <1>2, <1>4, <2>1, EarlyManifestSafe
  <2>2. CASE op = "candidate" /\ step = "load"
    <3>1. LoadManifest
      BY <1>4, <2>2 DEF WriteManifest, UnlinkMarker, WriteRow
    <3> QED BY <1>1, <1>2, <2>2, <3>1, CandidateSafe
  <2> QED BY <1>1, <1>2, <1>4, <2>1, <2>2, LaterManifestSafe
<1>5. CASE MakeRunRoot \/ InitializeMetadata \/ StoringDone \/ ReturnClarification \/ ReturnAnalysis
  BY <1>1, <1>2, <1>5, MoveSafe
<1>6. CASE StoreArtifact
  BY <1>1, <1>2, <1>6, StoreSafe
<1>7. CASE IndexArtifact
  BY <1>1, <1>2, <1>7, IndexSafe
<1> QED BY <1>3, <1>4, <1>5, <1>6, <1>7 DEF RunStep, SessionStep

-----------------------------------------------------------------------------
(* Steps of the operator *)

\* The session and its artifacts are left alone.
LEMMA LeftAlone ==
  ASSUME DamageInv, StoreTypeOK', UNCHANGED <<manifest, files, indexed, control, work, damaged>>
  PROVE  /\ Progress
         /\ SuspectFails' => DamageInv'
<1>1. Future' = Future /\ Handed' = Handed /\ (Collecting' <=> Collecting) /\ (PastContext' <=> PastContext)
  BY DEF Future, Handed, Collecting, PastContext
<1>2. Progress
  BY <1>1 DEF Progress
<1>3. TodoFits' /\ Once'
  BY <1>1 DEF DamageInv, TodoFits, Once
<1>4. ContextFirst' /\ FilesKnown' /\ ContextListed'
  BY <1>1, <1>2, LossStays DEF DamageInv, ContextFirst, FilesKnown, ContextListed
<1>5. DamageShows'
  BY <1>1, <1>2, LossStays DEF DamageInv, DamageShows
<1>6. ManifestsFit'
  BY <1>1, <1>2, LossStays DEF DamageInv, ManifestsFit, ManifestFits, Finished, Hopeless
<1> QED BY <1>2, <1>3, <1>4, <1>5, <1>6 DEF DamageInv

LEMMA VerifySafe ==
  ASSUME DamageInv, VerifyLoads \/ VerifyChecksFiles \/ VerifyChecksRecords
  PROVE  DamageInv'
<1>1. StoreTypeOK' /\ TypeOK /\ Operator \in Verifiers
  BY StoreStepType DEF DamageInv, StoreNext, StoreTypeOK, Verifiers
<1>2. UNCHANGED <<manifest, files, indexed, control, work, damaged>>
  BY DEF VerifyLoads, VerifyChecksFiles, VerifyChecksRecords
<1>3. Progress
  BY <1>1, <1>2, LeftAlone
<1>4. CASE VerifyLoads
  <2>1. /\ manifest # None /\ checking'[Operator] = manifest /\ suspect' = damaged /\ vstep' = "files"
    BY <1>1, <1>4 DEF VerifyLoads, BeginVerify, TypeOK
  <2>2. ASSUME damaged PROVE Hopeless(manifest)'
    BY <1>2, <1>3, <2>1, <2>2, LossStays DEF DamageInv, ManifestsFit, ManifestFits, Hopeless, Finished
  <2>3. SuspectFails'
    BY <1>2, <2>1, <2>2 DEF SuspectFails, Hopeless, Finished
  <2> QED BY <1>1, <1>2, <2>3, LeftAlone
<1>5. CASE VerifyChecksFiles
  <2>1. /\ vstep = "files" /\ vstep' = "records" /\ suspect' = suspect /\ checking' = checking
        /\ passed'[Operator] => FilesVerify(checking[Operator])
    BY <1>1, <1>5 DEF VerifyChecksFiles, CheckFiles, TypeOK
  <2>2. ASSUME suspect, passed'[Operator], Finished(checking[Operator])
        PROVE  \E a \in checking[Operator].listed : NeverIndexed(a)'
    <3>1. PICK a \in checking[Operator].listed : NeverStored(a) \/ NeverIndexed(a)
      BY <2>1, <2>2 DEF DamageInv, SuspectFails, Hopeless
    <3>2. a \in files
      BY <2>1, <2>2 DEF FilesVerify
    <3> QED BY <1>3, <3>1, <3>2, LossStays DEF NeverStored
  <2>3. SuspectFails'
    BY <2>1, <2>2 DEF DamageInv, SuspectFails, Finished
  <2> QED BY <1>1, <1>2, <2>3, LeftAlone
<1>6. CASE VerifyChecksRecords
  <2>1. SuspectFails'
    BY <1>6 DEF VerifyChecksRecords, SuspectFails
  <2> QED BY <1>1, <1>2, <2>1, LeftAlone
<1> QED BY <1>4, <1>5, <1>6

LEMMA RemoveArtifactSafe ==
  ASSUME DamageInv, RemoveArtifact
  PROVE  DamageInv'
<1>1. PICK a \in entries \cap files : files' = files \ {a}
  BY DEF RemoveArtifact
<1>2. /\ damaged' = TRUE
      /\ UNCHANGED <<dir, manifest, marker, meta, control, work, faults, verify, reader, operator>>
  BY DEF RemoveArtifact
<1>3. StoreTypeOK' /\ a \in Artifacts
  BY <1>1, StoreStepType DEF DamageInv, StoreNext, DeleteStep, StoreTypeOK, TypeOK
<1>4. Future' = Future /\ Handed' = Handed /\ (Collecting' <=> Collecting) /\ (PastContext' <=> PastContext)
  BY <1>2 DEF Future, Handed, Collecting, PastContext
<1>5. Progress
  BY <1>1, <1>2, <1>4 DEF Progress
<1>6. NeverStored(a)'
  BY <1>1, <1>4 DEF NeverStored, DamageInv, Once
<1>7. TodoFits' /\ Once'
  BY <1>1, <1>2, <1>4 DEF DamageInv, TodoFits, Once
<1>8. ContextFirst' /\ FilesKnown' /\ ContextListed'
  BY <1>1, <1>2, <1>4, <1>5, LossStays DEF DamageInv, ContextFirst, FilesKnown, ContextListed
<1>9. DamageShows'
  <2>1. Collecting => ContextLost' \/ a \in indexed \cup Handed
    BY <1>1, <1>5, LossStays DEF DamageInv, FilesKnown
  <2> QED BY <1>2, <1>3, <1>4, <1>6, <2>1 DEF DamageShows
<1>10. ManifestsFit'
  <2>1. ASSUME NEW m, ManifestFits(m) PROVE ManifestFits(m)'
    <3>1. ASSUME Finished(m)
          PROVE  /\ ContextLost' \/ files' \subseteq m.listed
                 /\ \E b \in m.listed : NeverStored(b)' \/ NeverIndexed(b)'
      <4>1. Context \subseteq m.listed /\ (ContextLost \/ files \subseteq m.listed)
        BY <2>1, <3>1 DEF ManifestFits
      <4>2. CASE ContextLost
        BY <1>5, <4>1, <4>2, LossStays DEF ContextLost
      <4>3. CASE files \subseteq m.listed
        BY <1>1, <1>6, <4>3
      <4> QED BY <4>1, <4>2, <4>3
    <3> QED BY <1>4, <2>1, <3>1 DEF ManifestFits, Hopeless, Finished
  <2> QED BY <1>2, <2>1 DEF DamageInv, ManifestsFit, ManifestFits, Hopeless, Finished
<1>11. SuspectFails'
  BY <1>2, <1>5, SuspectKept DEF DamageInv
<1> QED BY <1>3, <1>7, <1>8, <1>9, <1>10, <1>11 DEF DamageInv

LEMMA RemoveMetadataSafe ==
  ASSUME DamageInv, RemoveMetadata
  PROVE  DamageInv'
<1>1. /\ indexed' = {} /\ damaged' = (damaged \/ indexed # {})
      /\ UNCHANGED <<disk, control, work, faults, verify, reader, operator>>
  BY DEF RemoveMetadata
<1>2. StoreTypeOK'
  BY StoreStepType DEF DamageInv, StoreNext, DeleteStep
<1>3. CASE indexed = {}
  <2>1. damaged' = damaged
    BY <1>1, <1>3 DEF DamageInv, StoreTypeOK
  <2>2. Progress /\ (SuspectFails' => DamageInv')
    BY <1>1, <1>2, <1>3, <2>1, LeftAlone
  <2>3. SuspectFails'
    BY <1>1, <2>2, SuspectKept DEF DamageInv
  <2> QED BY <2>2, <2>3
<1>4. CASE indexed # {}
  <2>1. Future' = Future /\ Handed' = Handed /\ (Collecting' <=> Collecting) /\ (PastContext' <=> PastContext)
    BY <1>1 DEF Future, Handed, Collecting, PastContext
  <2>2. Progress
    BY <1>1, <2>1 DEF Progress
  <2>3. ContextLost'
    <3>1. CASE ContextLost
      BY <2>2, <3>1, LossStays
    <3>2. ASSUME NEW c \in indexed \cap Context PROVE NeverIndexed(c)'
      BY <1>1, <2>1 DEF NeverIndexed, DamageInv, Once
    <3> QED BY <1>4, <3>1, <3>2 DEF ContextLost, DamageInv, ContextFirst
  <2>4. TodoFits' /\ Once'
    BY <1>1, <2>1 DEF DamageInv, TodoFits, Once
  <2>5. ContextFirst' /\ FilesKnown' /\ DamageShows'
    BY <2>3 DEF ContextFirst, FilesKnown, DamageShows
  <2>6. ContextListed'
    BY <1>1, <2>1 DEF DamageInv, ContextListed
  <2>7. ManifestsFit'
    <3>1. ASSUME NEW m, ManifestFits(m) PROVE ManifestFits(m)'
      <4>1. ASSUME Finished(m) PROVE \E b \in m.listed : NeverStored(b)' \/ NeverIndexed(b)'
        BY <2>3, <3>1, <4>1 DEF ManifestFits, ContextLost
      <4> QED BY <2>1, <2>3, <3>1, <4>1 DEF ManifestFits, Hopeless, Finished
    <3> QED BY <1>1, <3>1 DEF DamageInv, ManifestsFit, ManifestFits, Hopeless, Finished
  <2>8. SuspectFails'
    BY <1>1, <2>2, SuspectKept DEF DamageInv
  <2> QED BY <1>2, <2>4, <2>5, <2>6, <2>7, <2>8 DEF DamageInv
<1> QED BY <1>3, <1>4

LEMMA DeleteSafe ==
  ASSUME DamageInv,
         \/ BeginDelete \/ EnterArtifacts \/ RemoveManifest \/ RemoveMarker \/ RemoveRunRoot
         \/ EntryVanished \/ DeleteKilled \/ UNCHANGED storeVars
  PROVE  DamageInv'
<1>1. StoreTypeOK'
  BY StoreStepType DEF DamageInv, StoreNext, DeleteStep
<1>2. /\ UNCHANGED <<files, indexed, control, work, damaged, verify, operator>>
      /\ manifest' = manifest \/ manifest' = None
  BY DEF BeginDelete, EnterArtifacts, RemoveManifest, RemoveMarker, RemoveRunRoot, EntryVanished,
         DeleteKilled, storeVars, vars
<1>3. Future' = Future /\ Handed' = Handed /\ (Collecting' <=> Collecting) /\ (PastContext' <=> PastContext)
  BY <1>2 DEF Future, Handed, Collecting, PastContext
<1>4. Progress
  BY <1>2, <1>3 DEF Progress
<1>5. TodoFits' /\ Once'
  BY <1>2, <1>3 DEF DamageInv, TodoFits, Once
<1>6. ContextFirst' /\ FilesKnown' /\ ContextListed'
  BY <1>2, <1>3, <1>4, LossStays DEF DamageInv, ContextFirst, FilesKnown, ContextListed
<1>7. DamageShows'
  BY <1>2, <1>3, <1>4, LossStays DEF DamageInv, DamageShows
<1>8. ManifestsFit'
  BY <1>2, <1>3, <1>4, LossStays DEF DamageInv, ManifestsFit, ManifestFits, Finished, Hopeless
<1>9. SuspectFails'
  BY <1>2, <1>4, SuspectKept DEF DamageInv
<1> QED BY <1>1, <1>5, <1>6, <1>7, <1>8, <1>9 DEF DamageInv

-----------------------------------------------------------------------------
(* Theorems *)

LEMMA DamageInit == Context # {} /\ StoreInit => DamageInv
<1> SUFFICES ASSUME StoreInit PROVE DamageInv
  OBVIOUS
<1>1. StoreTypeOK
  BY StoreInitType
<1>2. InitialManifest.listed = {}
  BY DEF InitialManifest
<1>3. TodoFits /\ Once /\ ContextFirst /\ ContextListed /\ FilesKnown /\ DamageShows /\ SuspectFails
  BY DEF StoreInit, Init, TodoFits, Once, ContextFirst, ContextListed, FilesKnown, DamageShows,
         SuspectFails, Handed, PastContext
<1>4. ManifestsFit
  BY <1>2 DEF StoreInit, Init, ManifestsFit, ManifestFits, Finished, Final
<1> QED BY <1>1, <1>3, <1>4 DEF DamageInv

LEMMA DamageStep ==
  ASSUME Context # {}, DamageInv, [StoreNext]_storeVars
  PROVE  DamageInv'
BY RunStepSafe, VerifySafe, RemoveArtifactSafe, RemoveMetadataSafe, DeleteSafe DEF StoreNext, DeleteStep

\* Every variable of the run and of the commands beside it keeps its type.
THEOREM StoreTypeCorrect == StoreSpec => []StoreTypeOK
<1>1. StoreTypeOK /\ [StoreNext]_storeVars => StoreTypeOK'
  BY StoreStepType
<1> QED BY <1>1, StoreInitType, PTL DEF StoreSpec

\* A run that delete_run removed after its session had ended is reported missing from
\* then on, or as an empty directory if a late verify_run made one.
THEOREM DeletedForGood == StoreSpec => []DeletedStaysDeleted
<1>1. StoreInit => DeletionFits
  BY DEF StoreInit, DeletionFits
<1>2. DeletionFits /\ [StoreNext]_storeVars => DeletionFits'
  BY DeletionStep
<1>3. DeletionFits => DeletedStaysDeleted
  BY DEF DeletionFits, DeletedStaysDeleted, EffectiveStatus
<1> QED BY <1>1, <1>2, <1>3, PTL DEF StoreSpec

\* capture_context writes at least one artifact, before all others.  Then verify_run
\* never calls a run valid that delete_run had damaged before it began, whatever the
\* session writes in the meantime.
THEOREM DamageIsNoticed ==
  ASSUME Context # {}
  PROVE  StoreSpec => DamagedNeverValid
<1>1. StoreInit => DamageInv
  BY DamageInit
<1>2. DamageInv /\ [StoreNext]_storeVars => DamageInv'
  BY DamageStep
<1>3. DamageInv /\ [StoreNext]_storeVars
        => [suspect /\ vstep' = "idle" => verdict' = "invalid"]_storeVars
  <2> SUFFICES ASSUME DamageInv, StoreNext, suspect, vstep' = "idle" PROVE verdict' = "invalid"
    OBVIOUS
  <2>1. vstep # "idle"
    BY DEF DamageInv, SuspectFails
  <2>2. VerifyChecksRecords
    BY <2>1 DEF StoreNext, RunStep, VerifyLoads, VerifyChecksFiles, BeginDelete, DeleteStep, EnterArtifacts,
       RemoveArtifact, RemoveManifest, RemoveMarker, RemoveMetadata, RemoveRunRoot, EntryVanished,
       DeleteKilled
  <2>3. ~(passed[Operator] /\ RecordsVerify(checking[Operator]))
    <3> SUFFICES ASSUME passed[Operator], RecordsVerify(checking[Operator]) PROVE FALSE
      OBVIOUS
    <3>1. PICK a \in checking[Operator].listed : NeverIndexed(a)
      BY <2>2 DEF VerifyChecksRecords, DamageInv, SuspectFails, RecordsVerify, Finished, Final
    <3> QED BY <3>1 DEF RecordsVerify, NeverIndexed
  <2> QED BY <2>2, <2>3 DEF VerifyChecksRecords
<1> QED BY <1>1, <1>2, <1>3, PTL DEF StoreSpec, DamagedNeverValid
=============================================================================
