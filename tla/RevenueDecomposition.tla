------------------------ MODULE RevenueDecomposition ------------------------
(***************************************************************************)
(* run_r4_decomposition: the difference between two periods' Revenue split *)
(* over the products that entered, left and stayed.  The service passes a  *)
(* row of gates, executes over the canonical dataset, persists a trace, a  *)
(* result and a record, and has an independent validator read the dataset  *)
(* once more before it persists a validated result.                        *)
(*                                                                         *)
(* The dataset is hashed before the queries of each of the two, not during *)
(* them: a file that changes in between is read as it is by then.  Revenue *)
(* is a number per product that has an eligible line in a period; a        *)
(* product whose lines cancel out is present with 0.                       *)
(*                                                                         *)
(* A persist is one step: how a JSON artifact and its reference are        *)
(* written is the subject of ArtifactStore.  The process may be killed or  *)
(* raise at any step; nothing resumes it.                                  *)
(***************************************************************************)
EXTENDS Integers, Sequences, FiniteSets, Functions, SequencesExt

CONSTANTS
  Contents,        \* what the Parquet file may hold: revenue per product, by period
  Broken,          \* which gates a request may fail
  MaxAlterations,  \* how often the Parquet file changes
  MaxDamage        \* how many other files are damaged

Periods == {"baseline", "comparison"}

\* In the order in which run_r4_decomposition asks; the request is persisted after
\* the first three.
GatesBefore == <<"context", "method", "product identity">>
GatesAfter ==
  <<"request", "sufficiency", "change eligible", "change requested", "plan", "canonical",
    "populations", "periods", "scalars", "evidence">>
Gates == ToSet(GatesBefore) \cup ToSet(GatesAfter)

ASSUME DecompositionAssumption ==
  /\ \A c \in Contents :
       /\ c = [p \in Periods |-> c[p]]
       /\ \A p \in Periods : IsFiniteSet(DOMAIN c[p]) /\ c[p] \in [DOMAIN c[p] -> Int]
  /\ Broken \subseteq SUBSET Gates
  /\ MaxAlterations \in Nat /\ MaxDamage \in Nat

Upstream == {"scalars", "evidence"}
Records == {"request", "trace", "result", "execution", "validation", "validated"}

Nothing == [p \in Periods |-> <<>>]

VARIABLES
  registered,  \* the content whose fingerprint the canonical dataset has
  dataset,     \* what the Parquet file holds
  broken,      \* the gates this request fails
  pc,          \* what the service does next
  seen,        \* what the queries of the present stage have returned
  trace,       \* the product revenues of the persisted trace
  passed,      \* whether every check of the validation record passed
  file,        \* each artifact: absent, intact or damaged
  altered,     \* how often the Parquet file has changed
  damaged,     \* how many files were damaged
  misread      \* history: the stages in which a query read other content

world == <<registered, broken>>
vars == <<world, dataset, pc, seen, trace, passed, file, altered, damaged, misread>>

Total(f) == FoldFunction(+, 0, f)
TotalOver(f, S) == FoldFunctionOnSet(+, 0, f, S)

Revenue(p) == Total(registered[p])
RevenueChange == Revenue("comparison") - Revenue("baseline")
-----------------------------------------------------------------------------
(* The decomposition of two functions from products to revenue *)

Universe(t) == DOMAIN t["baseline"] \cup DOMAIN t["comparison"]

RevenueOf(t, p, x) == IF x \in DOMAIN t[p] THEN t[p][x] ELSE 0

Contribution(t) ==
  [x \in Universe(t) |-> RevenueOf(t, "comparison", x) - RevenueOf(t, "baseline", x)]

\* Mutant: a product is continuing if it has revenue in both periods.
ClassByRevenue(t, x) ==
  IF RevenueOf(t, "baseline", x) # 0 /\ RevenueOf(t, "comparison", x) # 0 THEN "continuing"
  ELSE IF x \in DOMAIN t["comparison"] THEN "entry" ELSE "exit"

\* A line is enough to be present, whatever its revenue.
Class(t, x) ==
  IF x \in DOMAIN t["baseline"] \cap DOMAIN t["comparison"] THEN "continuing"
  ELSE IF x \in DOMAIN t["comparison"] THEN "entry" ELSE "exit"

Component(t, class) == TotalOver(Contribution(t), {x \in Universe(t) : Class(t, x) = class})

ComponentSum(t) == Component(t, "entry") + Component(t, "exit") + Component(t, "continuing")

Reconciliation(t) == RevenueChange - ComponentSum(t)
-----------------------------------------------------------------------------
Init ==
  /\ registered \in Contents /\ dataset = registered
  /\ broken \in Broken
  /\ pc = "request"
  /\ seen = Nothing /\ trace = Nothing
  /\ passed = FALSE
  /\ file = [f \in Upstream \cup Records |-> IF f \in Upstream THEN "intact" ELSE "absent"]
  /\ altered = 0 /\ damaged = 0 /\ misread = {}

Intact(f) == file[f] = "intact"
Write(f) == file' = [file EXCEPT ![f] = "intact"]

\* An exception out of the service; R4ExecutionError and R4EligibilityError alike.
Raise == pc' = "raised" /\ UNCHANGED <<world, dataset, seen, trace, passed, file, altered, damaged, misread>>

RefuseRequest ==
  /\ pc = "request" /\ \E g \in ToSet(GatesBefore) : g \in broken
  /\ Raise

PersistRequest ==
  /\ pc = "request" /\ ToSet(GatesBefore) \cap broken = {}
  /\ Write("request")
  /\ pc' = "authorities"
  /\ UNCHANGED <<world, dataset, seen, trace, passed, altered, damaged, misread>>

Holds(gate) == gate \notin broken

\* The analysis asked for Revenue Change and the data was sufficient for it.
ChangeIsGoverned ==
  \A g \in {"request", "sufficiency", "change eligible", "change requested"} : Holds(g)

\* The plan is the one that request and sufficiency lead to, and the one of the R4 request.
PlanHolds == Holds("plan")
CanonicalHolds == Holds("canonical")

\* One population per period, of the same scope, with the fingerprints the request names.
PopulationsHold == Holds("populations")

\* Baseline before comparison, of equal length and of one date convention.
PeriodsHold == Holds("periods")

\* The three scalar results are read back with their hashes and are of this plan,
\* dataset, populations and one currency.
ScalarsHold == Holds("scalars") /\ Intact("scalars")

\* So is the Evidence admitted for each.
EvidenceHolds == Holds("evidence") /\ Intact("evidence")

AuthoritiesHold ==
  /\ ChangeIsGoverned /\ PlanHolds /\ CanonicalHolds
  /\ PopulationsHold /\ PeriodsHold
  /\ ScalarsHold /\ EvidenceHolds

RefuseAuthorities == pc = "authorities" /\ ~AuthoritiesHold /\ Raise

BindAuthorities ==
  /\ pc = "authorities" /\ AuthoritiesHold
  /\ pc' = "execute"
  /\ UNCHANGED <<world, dataset, seen, trace, passed, file, altered, damaged, misread>>

\* _verified_canonical_path, once in execution and once in validation.
HashHolds == dataset = registered

CheckDataset(stage, next) ==
  /\ pc = stage
  /\ IF HashHolds THEN pc' = next ELSE pc' = "raised"
  /\ seen' = Nothing
  /\ UNCHANGED <<world, dataset, trace, passed, file, altered, damaged, misread>>

\* Each period is a query of its own.
Query(at, p, stage, next) ==
  /\ pc = at
  /\ seen' = [seen EXCEPT ![p] = dataset[p]]
  /\ misread' = IF dataset[p] = registered[p] THEN misread ELSE misread \cup {stage}
  /\ pc' = next
  /\ UNCHANGED <<world, dataset, trace, passed, file, altered, damaged>>
-----------------------------------------------------------------------------
(* Execution *)

CheckExecutionDataset == CheckDataset("execute", "query baseline")
QueryBaseline == Query("query baseline", "baseline", "execution", "query comparison")
QueryComparison == Query("query comparison", "comparison", "execution", "trace")

\* The trace is persisted before anything is added up.
PersistTrace ==
  /\ pc = "trace"
  /\ trace' = seen
  /\ Write("trace")
  /\ pc' = "result"
  /\ UNCHANGED <<world, dataset, seen, passed, altered, damaged, misread>>

\* A result that does not reconcile is persisted all the same.
PersistResult ==
  /\ pc = "result"
  /\ Write("result")
  /\ pc' = "record"
  /\ UNCHANGED <<world, dataset, seen, trace, passed, altered, damaged, misread>>

PersistExecutionRecord ==
  /\ pc = "record"
  /\ Write("execution")
  /\ pc' = "load"
  /\ UNCHANGED <<world, dataset, seen, trace, passed, altered, damaged, misread>>
-----------------------------------------------------------------------------
(* Validation: the result and its trace are read back, the dataset once more *)

LoadExecuted ==
  /\ pc = "load"
  /\ IF Intact("result") /\ Intact("trace") THEN pc' = "validate" ELSE pc' = "raised"
  /\ UNCHANGED <<world, dataset, seen, trace, passed, file, altered, damaged, misread>>

CheckValidationDataset == CheckDataset("validate", "recompute baseline")
RecomputeBaseline == Query("recompute baseline", "baseline", "validation", "recompute comparison")
RecomputeComparison == Query("recompute comparison", "comparison", "validation", "checks")

\* The sums of the second reading are the Revenue authorities'.
SumsAgree == \A p \in Periods : Total(seen[p]) = Revenue(p)

\* The two readings agree product by product.
ReadingsAgree ==
  /\ Universe(trace) = Universe(seen)
  /\ \A x \in Universe(seen) :
       /\ Class(trace, x) = Class(seen, x)
       /\ \A p \in Periods : RevenueOf(trace, p, x) = RevenueOf(seen, p, x)

\* The components add up to the Revenue Change authority, without a difference.
ComponentsReconcile == ComponentSum(trace) = RevenueChange /\ Reconciliation(trace) = 0

\* Mutant: only the total is compared, not product by product.
ChecksOfTotals == ComponentsReconcile

\* What the validator compares; that identifiers and versions agree with the record
\* is among its checks and cannot fail here.
Checks == SumsAgree /\ ReadingsAgree /\ ComponentsReconcile

\* Mutant: the validated result is persisted whatever the checks say.
ValidateAnyway ==
  /\ pc = "checks"
  /\ Write("validation")
  /\ passed' = Checks
  /\ pc' = "validated"
  /\ UNCHANGED <<world, dataset, seen, trace, altered, damaged, misread>>

\* The validation record is persisted either way.
PersistValidationRecord ==
  /\ pc = "checks"
  /\ Write("validation")
  /\ passed' = Checks
  /\ pc' = IF passed' THEN "validated" ELSE "raised"
  /\ UNCHANGED <<world, dataset, seen, trace, altered, damaged, misread>>

PersistValidatedResult ==
  /\ pc = "validated"
  /\ Write("validated")
  /\ pc' = "done"
  /\ UNCHANGED <<world, dataset, seen, trace, passed, altered, damaged, misread>>
-----------------------------------------------------------------------------
Ended == pc \in {"done", "raised"}

\* A query that finds another currency or no product identity, an artifact that does
\* not read back, the death of the process: the service just stops where it is.
Stop ==
  /\ pc \notin {"request", "authorities"} /\ ~Ended
  /\ Raise

\* Somebody rewrites the Parquet file, or puts it back.
Alter ==
  /\ ~Ended /\ altered < MaxAlterations
  /\ dataset' \in Contents \ {dataset}
  /\ altered' = altered + 1
  /\ UNCHANGED <<world, pc, seen, trace, passed, file, damaged, misread>>

Damage ==
  /\ damaged < MaxDamage
  /\ \E f \in DOMAIN file : Intact(f) /\ file' = [file EXCEPT ![f] = "damaged"]
  /\ damaged' = damaged + 1
  /\ UNCHANGED <<world, dataset, pc, seen, trace, passed, altered, misread>>

Next ==
  \/ RefuseRequest \/ PersistRequest \/ RefuseAuthorities \/ BindAuthorities
  \/ CheckExecutionDataset \/ QueryBaseline \/ QueryComparison
  \/ PersistTrace \/ PersistResult \/ PersistExecutionRecord
  \/ LoadExecuted \/ CheckValidationDataset \/ RecomputeBaseline \/ RecomputeComparison
  \/ PersistValidationRecord \/ PersistValidatedResult
  \/ Stop \/ Alter \/ Damage

Spec == Init /\ [][Next]_vars
-----------------------------------------------------------------------------
(* Properties *)

\* load_validated_r4_result, as R6 calls it: the whole graph is read with its hashes,
\* and the validation record must be one of passed checks.
Loadable ==
  /\ \A f \in {"validated", "result", "trace", "execution", "validation"} : Intact(f)
  /\ passed

Stages ==
  {"request", "authorities", "execute", "query baseline", "query comparison", "trace", "result",
   "record", "load", "validate", "recompute baseline", "recompute comparison", "checks",
   "validated", "done", "raised"}

TypeOK ==
  /\ registered \in Contents /\ dataset \in Contents
  /\ broken \in Broken
  /\ pc \in Stages
  /\ passed \in BOOLEAN
  /\ file \in [Upstream \cup Records -> {"absent", "intact", "damaged"}]
  /\ altered \in 0..MaxAlterations /\ damaged \in 0..MaxDamage
  /\ misread \subseteq {"execution", "validation"}

\* However the Parquet file changes under the two stages, a decomposition that loads
\* adds up: every product is in one class, the classes' contributions sum to the
\* authenticated Revenue Change and the products' revenues to the two Revenues.
LoadedDecompositionReconciles ==
  Loadable =>
    /\ ComponentSum(trace) = RevenueChange
    /\ \A p \in Periods : Total(trace[p]) = Revenue(p)
    /\ \A x \in Universe(trace) :
         Class(trace, x) = "continuing" <=> \A p \in Periods : x \in DOMAIN trace[p]

\* A decomposition that loads is that of the registered dataset, unless the file was
\* caught in another state by the queries of the execution and of the validation both.
LoadedDecompositionIsTheDatasets ==
  Loadable => trace = registered \/ misread = {"execution", "validation"}

\* A validated result is only ever on disk behind everything it refers to, and a
\* request refused at a gate before it is persisted leaves nothing.
ValidatedHasItsChain ==
  /\ file["validated"] # "absent" => passed /\ \A f \in Records : file[f] # "absent"
  /\ ToSet(GatesBefore) \cap broken # {} => \A f \in Records : file[f] = "absent"
=============================================================================
