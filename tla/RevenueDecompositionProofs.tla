---------------------- MODULE RevenueDecompositionProofs ----------------------
(***************************************************************************)
(* Proofs about RevenueDecomposition, for any contents of the Parquet      *)
(* file, any alterations of it and any damage to the records: the          *)
(* invariant that says what each position of the service has established,  *)
(* and the three safety invariants it implies.                             *)
(***************************************************************************)
EXTENDS RevenueDecomposition, TLAPS

(* Where the service is when it has persisted a record. *)
AfterValidation == {"validated", "done"}
AfterExecution ==
  AfterValidation \cup {"load", "validate", "recompute baseline", "recompute comparison", "checks"}
AfterResult == AfterExecution \cup {"record"}
AfterTrace == AfterResult \cup {"result"}
AfterRequest == Stages \ {"request", "raised"}

OnDisk(f) == file[f] # "absent"

\* A request refused at one of the first gates has come nowhere.
FirstGatesRefuse ==
  /\ ToSet(GatesBefore) \cap broken # {} => pc \in {"request", "raised"}
  /\ pc = "request" \/ ToSet(GatesBefore) \cap broken # {} => \A f \in Records : ~OnDisk(f)

\* What must be on disk by now is.
RecordsFollow ==
  /\ pc \in AfterRequest => OnDisk("request")
  /\ pc \in AfterTrace => OnDisk("trace")
  /\ pc \in AfterResult => OnDisk("result")
  /\ pc \in AfterExecution => OnDisk("execution")
  /\ pc \in AfterValidation => OnDisk("validation") /\ passed
  /\ OnDisk("validated") => passed /\ \A f \in Records : OnDisk(f)

IsReading(t) == t = [p \in Periods |-> t[p]] /\ \A p \in Periods : t[p] \in [DOMAIN t[p] -> Int]

AreReadings == IsReading(seen) /\ IsReading(trace)

\* Each of the two readings is of the registered dataset or known not to be.
ReadingsKnown ==
  /\ pc = "query comparison" /\ "execution" \notin misread => seen["baseline"] = registered["baseline"]
  /\ pc = "trace" /\ "execution" \notin misread => seen = registered
  /\ OnDisk("trace") /\ "execution" \notin misread => trace = registered
  /\ pc = "recompute comparison" /\ "validation" \notin misread => seen["baseline"] = registered["baseline"]
  /\ (pc = "checks" \/ passed) /\ "validation" \notin misread => seen = registered

\* What passed the checks still would.
ChecksStand == passed => Checks /\ pc \in {"validated", "done", "raised"}

Inv == TypeOK /\ FirstGatesRefuse /\ RecordsFollow /\ AreReadings /\ ReadingsKnown /\ ChecksStand

USE DecompositionAssumption

-----------------------------------------------------------------------------
(* Readings *)

LEMMA ContentIsReading ==
  ASSUME NEW c \in Contents
  PROVE  IsReading(c)
BY DEF IsReading

LEMMA NothingIsReading == IsReading(Nothing)
<1>1. \A p \in Periods : Nothing[p] = <<>>
  BY DEF Nothing
<1>2. <<>> \in [DOMAIN <<>> -> Int]
  OBVIOUS
<1> QED BY <1>1, <1>2 DEF IsReading, Nothing

\* Readings that agree product by product are equal.
LEMMA AgreementIsEquality ==
  ASSUME IsReading(trace), IsReading(seen), ReadingsAgree
  PROVE  trace = seen
<1>1. ASSUME NEW p \in Periods PROVE DOMAIN trace[p] = DOMAIN seen[p]
  <2>1. \A x \in Universe(seen) : x \in DOMAIN trace[p] <=> x \in DOMAIN seen[p]
    BY DEF ReadingsAgree, Universe, Class, Periods
  <2> QED BY <2>1 DEF ReadingsAgree, Universe, Periods
<1>2. ASSUME NEW p \in Periods PROVE trace[p] = seen[p]
  <2>1. \A x \in DOMAIN seen[p] : trace[p][x] = seen[p][x]
    BY <1>1 DEF ReadingsAgree, RevenueOf, Universe, Periods
  <2> QED BY <2>1, <1>1 DEF IsReading
<1> QED BY <1>2 DEF IsReading

-----------------------------------------------------------------------------
(* The invariant is inductive *)

LEMMA InitInv == Init => Inv
<1> SUFFICES ASSUME Init PROVE Inv
  OBVIOUS
<1>1. TypeOK
  <2>1. file \in [Upstream \cup Records -> {"absent", "intact", "damaged"}]
    BY DEF Init
  <2>2. altered \in 0..MaxAlterations /\ damaged \in 0..MaxDamage
    BY DEF Init
  <2> QED BY <2>1, <2>2 DEF Init, TypeOK, Stages
<1>2. FirstGatesRefuse /\ RecordsFollow /\ ChecksStand
  BY DEF Init, FirstGatesRefuse, RecordsFollow, ChecksStand, OnDisk, Upstream, Records, AfterRequest,
         AfterTrace, AfterResult, AfterExecution, AfterValidation
<1>3. AreReadings /\ ReadingsKnown
  BY NothingIsReading DEF Init, AreReadings, ReadingsKnown, OnDisk, Upstream, Records
<1> QED BY <1>1, <1>2, <1>3 DEF Inv

LEMMA ChecksKept ==
  ASSUME UNCHANGED <<registered, trace, seen>>
  PROVE  Checks' = Checks
BY DEF Checks, SumsAgree, ReadingsAgree, ComponentsReconcile, Reconciliation, RevenueChange,
       Revenue, ComponentSum, Component, Contribution, Class, RevenueOf, Universe

LEMMA ReadingsKept ==
  ASSUME AreReadings, UNCHANGED <<seen, trace>>
  PROVE  AreReadings'
<1>1. seen' = seen /\ trace' = trace
  OBVIOUS
<1> QED BY <1>1 DEF AreReadings, IsReading

\* A step that writes nothing and reads nothing, and goes no further than it may.
LEMMA MoveSafe ==
  ASSUME Inv,
         UNCHANGED <<world, dataset, seen, trace, passed, file, altered, damaged, misread>>,
         pc' \in Stages,
         ToSet(GatesBefore) \cap broken # {} => pc' = "raised",
         pc' = "raised"
           \/ /\ pc = "authorities" /\ pc' = "execute"
           \/ /\ pc = "load" /\ pc' = "validate"
  PROVE  Inv'
<1>1. TypeOK'
  BY DEF Inv, TypeOK, world
<1>2. FirstGatesRefuse' /\ RecordsFollow'
  BY DEF Inv, FirstGatesRefuse, RecordsFollow, OnDisk, AfterRequest, AfterTrace, AfterResult,
         AfterExecution, AfterValidation, world, Stages
<1>3. AreReadings' /\ ReadingsKnown'
  BY ReadingsKept DEF Inv, ReadingsKnown, OnDisk, world
<1>4. ChecksStand'
  BY ChecksKept DEF Inv, ChecksStand, RecordsFollow, world
<1> QED BY <1>1, <1>2, <1>3, <1>4 DEF Inv

\* The persists before validation: one more record, the next position.
LEMMA PersistSafe ==
  ASSUME Inv, PersistRequest \/ PersistTrace \/ PersistResult \/ PersistExecutionRecord
  PROVE  Inv'
<1> USE DEF PersistRequest, PersistTrace, PersistResult, PersistExecutionRecord, Write, world
<1>1. TypeOK'
  BY DEF Inv, TypeOK, Stages, Upstream, Records
<1>2. FirstGatesRefuse'
  BY DEF Inv, FirstGatesRefuse
<1>3. RecordsFollow'
  BY DEF Inv, TypeOK, FirstGatesRefuse, RecordsFollow, OnDisk, AfterRequest, AfterTrace, AfterResult,
         AfterExecution, AfterValidation, Stages, Upstream, Records, ChecksStand
<1>4. AreReadings'
  BY DEF Inv, AreReadings, IsReading
<1>5. ReadingsKnown'
  <2>1. UNCHANGED <<registered, seen, passed, misread>> /\ ~passed
    BY DEF Inv, ChecksStand
  <2>2. CASE PersistTrace
    <3>1. pc = "trace" /\ pc' = "result" /\ trace' = seen
      BY <2>2
    <3> HIDE DEF PersistTrace
    <3> QED BY <2>1, <3>1 DEF Inv, ReadingsKnown
  <2>3. CASE PersistRequest \/ PersistResult \/ PersistExecutionRecord
    <3>1. pc' \in {"authorities", "record", "load"} /\ trace' = trace
      BY <2>3
    <3>2. OnDisk("trace")' <=> OnDisk("trace")
      BY <2>3 DEF Inv, TypeOK, OnDisk, Records
    <3> HIDE DEF PersistRequest, PersistResult, PersistExecutionRecord
    <3> QED BY <2>1, <3>1, <3>2 DEF Inv, ReadingsKnown
  <2> QED BY <2>2, <2>3
<1>6. ChecksStand'
  BY DEF Inv, ChecksStand
<1> QED BY <1>1, <1>2, <1>3, <1>4, <1>5, <1>6 DEF Inv

\* The hash holds or the service raises; what was read before is forgotten.
LEMMA CheckSafe ==
  ASSUME Inv, CheckExecutionDataset \/ CheckValidationDataset
  PROVE  Inv'
<1> USE DEF CheckExecutionDataset, CheckValidationDataset, CheckDataset, world
<1>1. TypeOK'
  BY DEF Inv, TypeOK, Stages
<1>2. FirstGatesRefuse' /\ RecordsFollow'
  BY DEF Inv, FirstGatesRefuse, RecordsFollow, OnDisk, AfterRequest, AfterTrace, AfterResult,
         AfterExecution, AfterValidation, Stages, ChecksStand
<1>3. AreReadings'
  <2>1. seen' = Nothing /\ trace' = trace
    OBVIOUS
  <2> QED BY <2>1, NothingIsReading DEF Inv, AreReadings, IsReading
<1>4. ReadingsKnown'
  <2>1. UNCHANGED <<registered, trace, passed, misread>> /\ ~passed
    BY DEF Inv, ChecksStand
  <2>2. pc' \in {"query baseline", "recompute baseline", "raised"}
    OBVIOUS
  <2>3. OnDisk("trace")' <=> OnDisk("trace")
    BY DEF OnDisk
  <2> HIDE DEF CheckExecutionDataset, CheckValidationDataset
  <2> QED BY <2>1, <2>2, <2>3 DEF Inv, ReadingsKnown
<1>5. ChecksStand'
  BY DEF Inv, ChecksStand
<1> QED BY <1>1, <1>2, <1>3, <1>4, <1>5 DEF Inv

\* Whichever of the four queries: what it returns is registered, or it is noted.
LEMMA QuerySafe ==
  ASSUME Inv, QueryBaseline \/ QueryComparison \/ RecomputeBaseline \/ RecomputeComparison
  PROVE  Inv'
<1> USE DEF QueryBaseline, QueryComparison, RecomputeBaseline, RecomputeComparison, Query, world
<1>1. TypeOK'
  BY DEF Inv, TypeOK, Stages
<1>2. FirstGatesRefuse' /\ RecordsFollow'
  BY DEF Inv, FirstGatesRefuse, RecordsFollow, OnDisk, AfterRequest, AfterTrace, AfterResult,
         AfterExecution, AfterValidation, Stages, ChecksStand
<1>3. IsReading(dataset) /\ IsReading(registered)
  BY ContentIsReading DEF Inv, TypeOK
<1>4. AreReadings'
  BY <1>3 DEF Inv, AreReadings, IsReading, Periods
<1>5. ReadingsKnown'
  <2>1. UNCHANGED <<registered, trace, passed>> /\ ~passed /\ misread \subseteq misread'
    BY DEF Inv, ChecksStand
  <2>2. OnDisk("trace")' <=> OnDisk("trace")
    BY DEF OnDisk
  <2>3. CASE QueryBaseline \/ RecomputeBaseline
    <3>1. ASSUME NEW stage, stage \notin misread',
                 \/ QueryBaseline /\ stage = "execution"
                 \/ RecomputeBaseline /\ stage = "validation"
          PROVE  seen'["baseline"] = registered["baseline"]
      BY <3>1 DEF Inv, AreReadings, IsReading, Periods
    <3>2. \/ QueryBaseline /\ pc' = "query comparison"
          \/ RecomputeBaseline /\ pc' = "recompute comparison"
      BY <2>3
    <3> HIDE DEF QueryBaseline, RecomputeBaseline
    <3> QED BY <2>1, <2>2, <3>1, <3>2 DEF Inv, ReadingsKnown
  <2>4. CASE QueryComparison \/ RecomputeComparison
    <3>1. ASSUME NEW stage, stage \notin misread',
                 \/ QueryComparison /\ stage = "execution"
                 \/ RecomputeComparison /\ stage = "validation"
          PROVE  seen' = registered
      <4>1. seen["baseline"] = registered["baseline"]
        BY <2>1, <3>1 DEF Inv, ReadingsKnown
      <4>2. seen' = [seen EXCEPT !["comparison"] = registered["comparison"]]
        BY <3>1
      <4> QED BY <1>3, <4>1, <4>2 DEF Inv, AreReadings, IsReading, Periods
    <3>2. \/ QueryComparison /\ pc' = "trace"
          \/ RecomputeComparison /\ pc' = "checks"
      BY <2>4
    <3> HIDE DEF QueryComparison, RecomputeComparison
    <3> QED BY <2>1, <2>2, <3>1, <3>2 DEF Inv, ReadingsKnown
  <2> QED BY <2>3, <2>4
<1>6. ChecksStand'
  BY DEF Inv, ChecksStand
<1> QED BY <1>1, <1>2, <1>4, <1>5, <1>6 DEF Inv

LEMMA ValidationSafe ==
  ASSUME Inv, PersistValidationRecord
  PROVE  Inv'
<1> USE DEF PersistValidationRecord, Write, world
<1>0. Checks' = Checks
  BY ChecksKept
<1>1. TypeOK'
  <2>1. passed' \in BOOLEAN
    BY DEF Checks, SumsAgree, ReadingsAgree, ComponentsReconcile
  <2> QED BY <2>1 DEF Inv, TypeOK, Stages, Upstream, Records
<1>2. FirstGatesRefuse'
  BY DEF Inv, FirstGatesRefuse
<1>3. RecordsFollow'
  BY DEF Inv, TypeOK, FirstGatesRefuse, RecordsFollow, OnDisk, AfterRequest, AfterTrace, AfterResult,
         AfterExecution, AfterValidation, Stages, Upstream, Records, ChecksStand
<1>4. AreReadings' /\ ReadingsKnown'
  BY ReadingsKept DEF Inv, TypeOK, ReadingsKnown, OnDisk, Upstream, Records, ChecksStand
<1>5. ChecksStand'
  BY <1>0 DEF Inv, ChecksStand
<1> QED BY <1>1, <1>2, <1>3, <1>4, <1>5 DEF Inv

LEMMA ValidatedSafe ==
  ASSUME Inv, PersistValidatedResult
  PROVE  Inv'
<1> USE DEF PersistValidatedResult, Write, world
<1>1. TypeOK'
  BY DEF Inv, TypeOK, Stages, Upstream, Records
<1>2. FirstGatesRefuse'
  BY DEF Inv, FirstGatesRefuse
<1>3. RecordsFollow'
  BY DEF Inv, TypeOK, RecordsFollow, OnDisk, AfterRequest, AfterTrace, AfterResult,
         AfterExecution, AfterValidation, Stages, Upstream, Records
<1>4. AreReadings' /\ ReadingsKnown'
  BY ReadingsKept DEF Inv, TypeOK, ReadingsKnown, OnDisk, Upstream, Records
<1>5. ChecksStand'
  BY ChecksKept DEF Inv, ChecksStand
<1> QED BY <1>1, <1>2, <1>3, <1>4, <1>5 DEF Inv

\* What others do to the files: no record appears or disappears.
LEMMA SurroundingsSafe ==
  ASSUME Inv, Alter \/ Damage
  PROVE  Inv'
<1> USE DEF Alter, Damage, Intact, world
<1>0. ASSUME NEW f \in DOMAIN file PROVE OnDisk(f)' <=> OnDisk(f)
  BY DEF Inv, TypeOK, OnDisk
<1>1. TypeOK'
  BY DEF Inv, TypeOK
<1>2. FirstGatesRefuse' /\ RecordsFollow'
  BY <1>0 DEF Inv, TypeOK, FirstGatesRefuse, RecordsFollow, Upstream, Records
<1>3. AreReadings' /\ ReadingsKnown'
  <2>1. OnDisk("trace")' <=> OnDisk("trace")
    BY <1>0 DEF Inv, TypeOK, Records
  <2>2. UNCHANGED <<registered, pc, seen, trace, passed, misread>>
    OBVIOUS
  <2> HIDE DEF Alter, Damage
  <2> QED BY <2>1, <2>2, ReadingsKept DEF Inv, ReadingsKnown
<1>4. ChecksStand'
  BY ChecksKept DEF Inv, ChecksStand
<1> QED BY <1>1, <1>2, <1>3, <1>4 DEF Inv

LEMMA NextInv == Inv /\ [Next]_vars => Inv'
<1> SUFFICES ASSUME Inv, [Next]_vars PROVE Inv'
  OBVIOUS
<1>1. CASE RefuseRequest \/ RefuseAuthorities \/ Stop
  BY <1>1, MoveSafe DEF RefuseRequest, RefuseAuthorities, Stop, Raise, Stages
<1>2. CASE BindAuthorities
  BY <1>2, MoveSafe DEF BindAuthorities, Stages, Inv, FirstGatesRefuse
<1>3. CASE LoadExecuted
  BY <1>3, MoveSafe DEF LoadExecuted, Stages, Inv, FirstGatesRefuse
<1>4. CASE PersistRequest \/ PersistTrace \/ PersistResult \/ PersistExecutionRecord
  BY <1>4, PersistSafe
<1>5. CASE CheckExecutionDataset \/ CheckValidationDataset
  BY <1>5, CheckSafe
<1>6. CASE QueryBaseline \/ QueryComparison \/ RecomputeBaseline \/ RecomputeComparison
  BY <1>6, QuerySafe
<1>7. CASE PersistValidationRecord
  BY <1>7, ValidationSafe
<1>8. CASE PersistValidatedResult
  BY <1>8, ValidatedSafe
<1>9. CASE Alter \/ Damage
  BY <1>9, SurroundingsSafe
<1>10. CASE UNCHANGED vars
  <2>1. TypeOK' /\ FirstGatesRefuse' /\ RecordsFollow'
    BY <1>10 DEF vars, world, Inv, TypeOK, FirstGatesRefuse, RecordsFollow, OnDisk
  <2>2. AreReadings' /\ ReadingsKnown'
    BY <1>10, ReadingsKept DEF vars, world, Inv, ReadingsKnown, OnDisk
  <2>3. ChecksStand'
    BY <1>10, ChecksKept DEF vars, world, Inv, ChecksStand
  <2> QED BY <2>1, <2>2, <2>3 DEF Inv
<1> QED BY <1>1, <1>2, <1>3, <1>4, <1>5, <1>6, <1>7, <1>8, <1>9, <1>10 DEF Next

-----------------------------------------------------------------------------
(* Theorems *)

\* The inductive invariant: what each position of run_r4_decomposition has established
\* about the records on disk and about the two readings of the dataset.
THEOREM InvariantHolds == Spec => []Inv
<1> QED BY InitInv, NextInv, PTL DEF Spec

\* Every variable keeps its type.
THEOREM TypeCorrect == Spec => []TypeOK
<1>1. Inv => TypeOK
  BY DEF Inv
<1> QED BY <1>1, InvariantHolds, PTL

\* A decomposition that loads adds up to the validated Revenue Change and has the two
\* Revenues, however the Parquet file changes while it is computed and validated.
THEOREM LoadedReconciles == Spec => []LoadedDecompositionReconciles
<1>1. Inv => LoadedDecompositionReconciles
  <2> SUFFICES ASSUME Inv, Loadable PROVE
        /\ ComponentSum(trace) = RevenueChange
        /\ \A p \in Periods : Total(trace[p]) = Revenue(p)
        /\ \A x \in Universe(trace) :
             Class(trace, x) = "continuing" <=> \A p \in Periods : x \in DOMAIN trace[p]
    BY DEF LoadedDecompositionReconciles
  <2>1. SumsAgree /\ ReadingsAgree /\ ComponentsReconcile
    BY DEF Loadable, Inv, ChecksStand, Checks
  <2>2. trace = seen
    BY <2>1, AgreementIsEquality DEF Inv, AreReadings
  <2>3. \A p \in Periods : Total(trace[p]) = Revenue(p)
    BY <2>1, <2>2 DEF SumsAgree
  <2>4. \A x \in Universe(trace) :
             Class(trace, x) = "continuing" <=> \A p \in Periods : x \in DOMAIN trace[p]
    BY DEF Class, Periods
  <2> QED BY <2>1, <2>3, <2>4 DEF ComponentsReconcile
<1> QED BY <1>1, InvariantHolds, PTL

\* A decomposition that loads is that of the registered dataset, unless execution and
\* validation both read another file.
THEOREM LoadedIsTheDatasets == Spec => []LoadedDecompositionIsTheDatasets
<1>1. Inv => LoadedDecompositionIsTheDatasets
  <2> SUFFICES ASSUME Inv, Loadable, trace # registered
               PROVE  misread = {"execution", "validation"}
    BY DEF LoadedDecompositionIsTheDatasets
  <2>1. "execution" \in misread
    BY DEF Loadable, Intact, Inv, ReadingsKnown, OnDisk
  <2>2. trace = seen
    BY AgreementIsEquality DEF Loadable, Inv, AreReadings, ChecksStand, Checks
  <2>3. "validation" \in misread
    BY <2>2 DEF Loadable, Inv, ReadingsKnown
  <2> QED BY <2>1, <2>3 DEF Inv, TypeOK
<1> QED BY <1>1, InvariantHolds, PTL

\* A validated result is only on disk behind all it refers to, and a request refused at
\* the first gates leaves nothing.
THEOREM ValidatedHasChain == Spec => []ValidatedHasItsChain
<1>1. Inv => ValidatedHasItsChain
  BY DEF Inv, RecordsFollow, FirstGatesRefuse, OnDisk, ValidatedHasItsChain
<1> QED BY <1>1, InvariantHolds, PTL
=============================================================================
