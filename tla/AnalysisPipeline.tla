-------------------------- MODULE AnalysisPipeline --------------------------
(***************************************************************************)
(* run_analysis after canonicalization: Data Sufficiency, the execution    *)
(* plan, and the three loops over it that execute, validate and admit, in  *)
(* order, the result of each plan node; then the state reported for each   *)
(* metric and the status of the run.                                       *)
(*                                                                         *)
(* A metric that compares two periods has one node, any other one for each *)
(* period.  A value is left out: what matters is whether it was computed   *)
(* from an intact canonical dataset and whether AOV is undefined.  Metrics *)
(* are computed in total, so GroupingDimension.NONE is the only grouping.  *)
(*                                                                         *)
(* Files are damaged from outside, at any moment; the hashes the code      *)
(* compares before use are there to notice.  Damaged stands for a file     *)
(* that is missing or holds other bytes.  A run that is killed simply      *)
(* stops: nothing resumes it, and the invariants hold of every state.      *)
(***************************************************************************)
EXTENDS Naturals, Sequences, SequencesExt

CONSTANTS
  Inputs,    \* the requests and evidence the service may be given
  MaxFaults  \* how many files are damaged during a run

Metrics == {"revenue", "orders", "aov", "revenue_change"}
Periods == {"baseline", "comparison"}
Nodes == ({"revenue", "orders", "aov"} \X Periods) \cup {<<"revenue_change", "both">>}

MetricOf(n) == n[1]

(***************************************************************************)
(* An input is a request with its evidence.  problems are the sufficiency  *)
(* failures: each concerns one metric or all of them, and either waits for *)
(* a clarification or does not.  required are the metrics to which some    *)
(* Required Evidence applies, empty the periods without eligible orders;   *)
(* currency says whether the rows in scope agree on one.                   *)
(***************************************************************************)
Problems == [scope : Metrics \cup {"all"}, clarification : BOOLEAN]

\* A longer request repeats a metric and is refused like a short one that does.
Requests == SeqOf(Metrics, 4) \ {<<>>}

ASSUME PipelineAssumption ==
  /\ Inputs \subseteq
       [metrics : Requests, canonical : BOOLEAN,
        problems : SUBSET Problems, required : SUBSET Metrics, empty : SUBSET Periods,
        currency : BOOLEAN]
  /\ MaxFaults \in Nat

Canonical == <<"canonical", "dataset">>
Files == ({"result", "validated", "evidence"} \X Nodes) \cup {Canonical}

VARIABLES
  input,      \* what the service was given
  pc,         \* what run_analysis does next
  plan,       \* ordered_metrics of the ExecutionPlan
  pos,        \* the metric or node the current loop has reached
  execution,  \* execution_records: the status recorded for each node
  passed,     \* validation_records: how many rules of a node are recorded passed
  failed,     \* validation_records: nodes with a failed one
  evidence,   \* evidence_admissibility_records: the status of each node
  file,       \* the artifacts: absent, intact or damaged
  faults,     \* how many were damaged
  tainted     \* history: nodes computed from a damaged canonical dataset

rows == <<execution, passed, failed, evidence>>
vars == <<input, pc, plan, pos, rows, file, faults, tainted>>

-----------------------------------------------------------------------------
(* Data Sufficiency and the plan *)

Requested == ToSet(input.metrics)

\* Failures of linkage, canonicalization and scope concern every metric, and no
\* clarification would mend them.
GlobalFailure == [scope |-> "all", clarification |-> FALSE]

\* Without a canonical dataset every chain is insufficient.
Failures == input.problems \cup (IF input.canonical THEN {} ELSE {GlobalFailure})

Eligible(m) == \A p \in Failures : p.scope \notin {"all", m}

ClarificationRequired ==
  /\ \A m \in Requested : ~Eligible(m)
  /\ Failures # {} /\ \A p \in Failures : p.clarification
  /\ \E p \in Failures : p.scope \in Requested \cup {"all"}

Roots(m) ==
  IF m = "revenue_change" THEN <<<<m, "both">>>> ELSE <<<<m, "baseline">>, <<m, "comparison">>>>

Dependencies(n) ==
  CASE MetricOf(n) = "aov" -> <<<<"revenue", n[2]>>, <<"orders", n[2]>>>>
    [] MetricOf(n) = "revenue_change" -> <<<<"revenue", "baseline">>, <<"revenue", "comparison">>>>
    [] OTHER -> <<>>

Deps(n) == ToSet(Dependencies(n))

\* Mutant: a node is added again for each metric that needs it.
AddNodeAgain(nodes, n) == nodes \o Append(Dependencies(n), n)

Add(nodes, n) == IF n \in ToSet(nodes) THEN nodes ELSE Append(nodes, n)

\* add_node: a node comes after its dependencies, and once.
AddNode(nodes, n) ==
  LET d == Dependencies(n)
  IN  Add(IF d = <<>> THEN nodes ELSE Add(Add(nodes, d[1]), d[2]), n)

AddRoots(nodes, m) ==
  LET r == Roots(m)
  IN  IF Len(r) = 1 THEN AddNode(nodes, r[1]) ELSE AddNode(AddNode(nodes, r[1]), r[2])

Closure(m) == UNION {{n} \cup Deps(n) : n \in ToSet(Roots(m))}

\* Mutant: every requested chain authorizes its nodes.
AuthorizedByAnyRequest(n) == {m \in Requested : n \in Closure(m)}

\* authorized_requested_metric_refs; a node without any is blocked.
Authorized(n) == {m \in Requested : Eligible(m) /\ n \in Closure(m)}
-----------------------------------------------------------------------------
(* Moving on *)

At(n) == pos <= Len(plan) /\ plan[pos] = n

\* The loop in this phase goes to its next node, or the run to the next loop.
Advance(phase, next) ==
  IF pos < Len(plan) THEN pc' = phase /\ pos' = pos + 1 ELSE pc' = next /\ pos' = 1

AdvanceExecution == Advance("execute", "validate")
AdvanceValidation == Advance("validate", "admit")
AdvanceAdmission == Advance("admit", "done")

Go(next) == pc' = next /\ pos' = pos

Intact(f) == file[f] = "intact"
WriteFile(f) == file' = [file EXCEPT ![f] = "intact"]

Init ==
  /\ input \in Inputs
  /\ pc = "plan" /\ plan = <<>> /\ pos = 1
  /\ execution = [n \in Nodes |-> "none"]
  /\ passed = [n \in Nodes |-> 0]
  /\ failed = {}
  /\ evidence = [n \in Nodes |-> "none"]
  /\ file = [f \in Files |-> IF f = Canonical /\ input.canonical THEN "intact" ELSE "absent"]
  /\ faults = 0 /\ tainted = {}

\* Nothing is planned without a canonical dataset.
ReportOnly ==
  /\ pc = "plan" /\ ~input.canonical
  /\ Go("done")
  /\ UNCHANGED <<input, plan, rows, file, faults, tainted>>

\* Two MetricEligibility items for one metric are a PlanningError.
RefuseDuplicates ==
  /\ pc = "plan" /\ input.canonical /\ ~IsInjective(input.metrics)
  /\ Go("aborted")
  /\ UNCHANGED <<input, plan, rows, file, faults, tainted>>

BuildPlan ==
  /\ pc = "plan" /\ input.canonical /\ IsInjective(input.metrics)
  /\ Go("build")
  /\ UNCHANGED <<input, plan, rows, file, faults, tainted>>

\* The nodes of one requested metric after the other.
PlanMetric ==
  /\ pc = "build"
  /\ plan' = AddRoots(plan, input.metrics[pos])
  /\ IF pos < Len(input.metrics) THEN pc' = "build" /\ pos' = pos + 1
     ELSE pc' = "start" /\ pos' = 1
  /\ UNCHANGED <<input, rows, file, faults, tainted>>

\* execute_plan compares the hash of the canonical dataset before the loop.
StartExecution ==
  /\ pc = "start"
  /\ IF Intact(Canonical) THEN Go("execute") ELSE Go("aborted")
  /\ UNCHANGED <<input, plan, rows, file, faults, tainted>>
-----------------------------------------------------------------------------
(* Execution, one node after the other *)

SkipBlocked(n) ==
  /\ pc = "execute" /\ At(n) /\ Authorized(n) = {}
  /\ AdvanceExecution
  /\ UNCHANGED <<input, plan, rows, file, faults, tainted>>

\* Mutant: a failed dependency is not noticed.
AnyDependencies(n) == TRUE

\* AOV takes the results it needs from memory.
AovDependencyResults(n) == \A d \in Deps(n) : execution[d] = "completed"

\* Revenue Change looks up the record of each and hashes its file.
DependencyRecordHolds(d) == execution[d] = "completed" /\ Intact(<<"result", d>>)

RevenueChangeDependencyResults(n) == \A d \in Deps(n) : DependencyRecordHolds(d)

\* _resolve_governed_currency, of whatever is to be in money.
CurrencyResolved == input.currency

\* Whatever goes wrong in a node, a missing dependency or a query that raises,
\* is recorded for it and the loop goes on.
ExecutionFails(n) ==
  /\ pc = "execute" /\ At(n) /\ Authorized(n) # {}
  /\ execution' = [execution EXCEPT ![n] = "failed"]
  /\ AdvanceExecution
  /\ UNCHANGED <<input, plan, passed, failed, evidence, file, faults, tainted>>

\* A result comes from the dataset as it is now: the hash is not taken again,
\* and a damaged one may still yield a value.
Complete(n) ==
  /\ WriteFile(<<"result", n>>)
  /\ tainted' = IF Intact(Canonical) THEN tainted ELSE tainted \cup {n}
  /\ Go("record_execution")
  /\ UNCHANGED <<input, plan, rows, faults>>

\* Revenue and Orders are aggregates of one period.
ExecuteTotal(n) ==
  /\ \/ MetricOf(n) = "revenue" /\ CurrencyResolved
     \/ MetricOf(n) = "orders"
  /\ Complete(n)

\* AOV divides two results but counts rows and resolves the currency anew.
ExecuteAov(n) ==
  /\ MetricOf(n) = "aov" /\ CurrencyResolved /\ AovDependencyResults(n)
  /\ Complete(n)

\* Revenue Change subtracts two results, and resolves both periods' currency.
ExecuteRevenueChange(n) ==
  /\ MetricOf(n) = "revenue_change" /\ CurrencyResolved /\ RevenueChangeDependencyResults(n)
  /\ Complete(n)

ExecutionSucceeds(n) ==
  /\ pc = "execute" /\ At(n) /\ Authorized(n) # {}
  /\ ExecuteTotal(n) \/ ExecuteAov(n) \/ ExecuteRevenueChange(n)

\* The file is read back outside the handler: a damaged one ends the run.
RecordExecution(n) ==
  /\ pc = "record_execution" /\ At(n)
  /\ IF Intact(<<"result", n>>)
     THEN execution' = [execution EXCEPT ![n] = "completed"] /\ AdvanceExecution
     ELSE execution' = execution /\ Go("aborted")
  /\ UNCHANGED <<input, plan, passed, failed, evidence, file, faults, tainted>>
-----------------------------------------------------------------------------
(* Validation of what was executed *)

RuleCount(m) == IF m \in {"revenue", "revenue_change"} THEN 3 ELSE 2

Validated(n) == passed[n] = RuleCount(MetricOf(n))

SkipUnexecuted(n) ==
  /\ pc = "validate" /\ At(n) /\ execution[n] # "completed"
  /\ AdvanceValidation
  /\ UNCHANGED <<input, plan, rows, file, faults, tainted>>

\* Mutant: the canonical dataset is not hashed again.
ResultHolds(n) == Intact(<<"result", n>>)

\* _load_and_validate_context hashes the result and the canonical dataset.
ContextHolds(n) == Intact(<<"result", n>>) /\ Intact(Canonical)

\* A MetricValidationError becomes a failed ValidationRecord.
RecordFailure(n) ==
  /\ failed' = failed \cup {n}
  /\ AdvanceValidation
  /\ UNCHANGED <<input, plan, execution, passed, evidence, file, faults, tainted>>

CheckContext(n) ==
  /\ pc = "validate" /\ At(n) /\ execution[n] = "completed"
  /\ \/ /\ ContextHolds(n)
        /\ Go("evaluate")
        /\ UNCHANGED <<input, plan, rows, file, faults, tainted>>
     \/ ~ContextHolds(n) /\ RecordFailure(n)

\* A dependency's bundle: its rules recorded passed, its file as it was written.
BundleHolds(d) == Validated(d) /\ Intact(<<"validated", d>>)

AovDependencies(n) == \A d \in Deps(n) : BundleHolds(d)

\* The executed result a dependency was validated from, read again.
ExecutedHolds(d) == execution[d] = "completed" /\ Intact(<<"result", d>>)

RevenueChangeDependencies(n) == \A d \in Deps(n) : BundleHolds(d) /\ ExecutedHolds(d)

\* The rules of Revenue and Orders compute the value once more from the dataset,
\* and differ only if it was damaged since its hash was taken.
ValueDiffers(n) == MetricOf(n) \in {"revenue", "orders"} /\ ~Intact(Canonical)

\* So does the currency AOV's rule resolves; Revenue Change takes its own from the
\* dependencies.
CurrencyDiffers == ~Intact(Canonical)

AovRuleFails(n) == MetricOf(n) = "aov" /\ (~AovDependencies(n) \/ CurrencyDiffers)

RevenueChangeRulesFail(n) == MetricOf(n) = "revenue_change" /\ ~RevenueChangeDependencies(n)

RulesFail(n) ==
  /\ pc = "evaluate" /\ At(n)
  /\ ValueDiffers(n) \/ AovRuleFails(n) \/ RevenueChangeRulesFail(n)
  /\ RecordFailure(n)

\* DuckDB's own errors are no MetricValidationError: they end the run.
RulesRaise(n) ==
  /\ pc = "evaluate" /\ At(n) /\ MetricOf(n) # "revenue_change"
  /\ Go("aborted")
  /\ UNCHANGED <<input, plan, rows, file, faults, tainted>>

RulesPass(n) ==
  /\ pc = "evaluate" /\ At(n)
  /\ MetricOf(n) = "aov" => AovDependencies(n)
  /\ ~RevenueChangeRulesFail(n)
  /\ WriteFile(<<"validated", n>>)
  /\ Go("register_validated")
  /\ UNCHANGED <<input, plan, rows, faults, tainted>>

\* Read back, a damaged file is a failed validation if it still parses and an
\* unhandled exception otherwise.
RegisterValidated(n) ==
  /\ pc = "register_validated" /\ At(n)
  /\ \/ /\ Intact(<<"validated", n>>)
        /\ Go("record_rules")
        /\ UNCHANGED <<input, plan, rows, file, faults, tainted>>
     \/ ~Intact(<<"validated", n>>) /\ RecordFailure(n)
     \/ /\ ~Intact(<<"validated", n>>)
        /\ Go("aborted")
        /\ UNCHANGED <<input, plan, rows, file, faults, tainted>>

\* One transaction for each rule.
RecordRule(n) ==
  /\ pc = "record_rules" /\ At(n)
  /\ passed' = [passed EXCEPT ![n] = @ + 1]
  /\ IF passed'[n] < RuleCount(MetricOf(n)) THEN Go("record_rules") ELSE AdvanceValidation
  /\ UNCHANGED <<input, plan, execution, failed, evidence, file, faults, tainted>>
-----------------------------------------------------------------------------
(* Admission of what was validated and requested *)

Candidate(n) == Validated(n) /\ MetricOf(n) \in Requested

SkipUnrequested(n) ==
  /\ pc = "admit" /\ At(n) /\ ~Candidate(n)
  /\ AdvanceAdmission
  /\ UNCHANGED <<input, plan, rows, file, faults, tainted>>

\* Mutant: a validated result is admissible if its metric was requested.
AdmissibleIfRequested(n) == Intact(<<"validated", n>>) /\ Intact(<<"result", n>>)

\* The request must name the metric, and some of its Required Evidence apply.
RequestCovers(n) == MetricOf(n) \in Requested \cap input.required

\* The sufficiency result is read again: it must have found the metric eligible.
SufficiencyHolds(n) == Eligible(MetricOf(n))

ValidatedHolds(n) == Validated(n) /\ Intact(<<"validated", n>>)

\* Files and records are verified; the dataset is not hashed a third time.
Admissible(n) ==
  /\ RequestCovers(n) /\ SufficiencyHolds(n)
  /\ ValidatedHolds(n) /\ ExecutedHolds(n)

RecordEvidence(n, status) ==
  /\ evidence' = [evidence EXCEPT ![n] = status]
  /\ AdvanceAdmission
  /\ UNCHANGED <<input, plan, execution, passed, failed, file, faults, tainted>>

RefuseEvidence(n) ==
  /\ pc = "admit" /\ At(n) /\ Candidate(n) /\ ~Admissible(n)
  /\ RecordEvidence(n, "failed")

WriteEvidence(n) ==
  /\ pc = "admit" /\ At(n) /\ Candidate(n) /\ Admissible(n)
  /\ WriteFile(<<"evidence", n>>)
  /\ Go("record_evidence")
  /\ UNCHANGED <<input, plan, rows, faults, tainted>>

\* verify_admissible_evidence_artifact hashes what was written.
VerifyEvidence(n) ==
  /\ pc = "record_evidence" /\ At(n)
  /\ RecordEvidence(n, IF Intact(<<"evidence", n>>) THEN "passed" ELSE "failed")
-----------------------------------------------------------------------------
Ended == pc \in {"done", "aborted"}

\* Somebody changes or removes a file.
Damage ==
  /\ ~Ended /\ faults < MaxFaults
  /\ \E f \in Files : Intact(f) /\ file' = [file EXCEPT ![f] = "damaged"]
  /\ faults' = faults + 1
  /\ UNCHANGED <<input, pc, plan, pos, rows, tainted>>

\* run_analysis has returned or raised.
Finished == Ended /\ UNCHANGED vars

NodeStep(n) ==
  \/ SkipBlocked(n) \/ ExecutionFails(n) \/ ExecutionSucceeds(n) \/ RecordExecution(n)
  \/ SkipUnexecuted(n) \/ CheckContext(n) \/ RulesFail(n) \/ RulesRaise(n) \/ RulesPass(n)
  \/ RegisterValidated(n) \/ RecordRule(n)
  \/ SkipUnrequested(n) \/ RefuseEvidence(n) \/ WriteEvidence(n) \/ VerifyEvidence(n)

Next ==
  \/ ReportOnly \/ RefuseDuplicates \/ BuildPlan \/ PlanMetric \/ StartExecution
  \/ \E n \in Nodes : NodeStep(n)
  \/ Damage \/ Finished

Spec == Init /\ [][Next]_vars
-----------------------------------------------------------------------------
(* What is reported *)

\* Mutant: a failure anywhere counts for every metric.
BelongsToAll(n, m) == TRUE

\* Records and results of a node count for the metrics whose chain it is in.
BelongsTo(n, m) == MetricOf(n) = m \/ m \in Authorized(n)

Own(m) == {n \in Nodes : MetricOf(n) = m /\ Validated(n)}

Undefined(n) == MetricOf(n) = "aov" /\ n[2] \in input.empty

\* Mutant: failed ValidationRecords are not looked at.
StateFromResults(m) ==
  IF ~Eligible(m) \/ Own(m) = {} THEN "inadmissible"
  ELSE IF \E n \in Own(m) : Undefined(n) THEN "undefined" ELSE "valid"

\* A metric without a validated result of its own is inadmissible whichever of
\* the conditions before the last return is met.
MetricState(m) ==
  IF ~Eligible(m) \/ Own(m) = {} \/ \E n \in failed : BelongsTo(n, m) THEN "inadmissible"
  ELSE IF \E n \in Own(m) : Undefined(n) THEN "undefined" ELSE "valid"

HasFailureDetails(m) ==
  \/ ~Eligible(m)
  \/ \E n \in Nodes : BelongsTo(n, m) /\ (execution[n] = "failed" \/ n \in failed)
  \/ \E n \in Nodes : MetricOf(n) = m /\ evidence[n] = "failed"

SomeResult ==
  \E m \in Requested, n \in Nodes : BelongsTo(n, m) /\ execution[n] = "completed"

\* Mutant: whether something failed is not asked of a run with a valid metric.
StatusOfStates ==
  LET states == {MetricState(m) : m \in Requested}
  IN  IF ClarificationRequired THEN "clarification_required"
      ELSE IF ~SomeResult THEN "blocked"
      ELSE IF states = {"valid"} THEN "completed" ELSE "partially_completed"

RunStatus ==
  LET states == {MetricState(m) : m \in Requested}
      failedRecords == failed # {} \/ \E n \in Nodes : execution[n] = "failed"
  IN  IF ClarificationRequired THEN "clarification_required"
      ELSE IF ~SomeResult THEN "blocked"
      ELSE IF "valid" \in states /\ (states # {"valid"} \/ failedRecords)
           THEN "partially_completed"
      ELSE IF failed # {} THEN "validation_failed"
      ELSE IF failedRecords THEN "execution_failed"
      ELSE IF "valid" \notin states /\ \E m \in Requested : HasFailureDetails(m) THEN "blocked"
      ELSE "completed"
-----------------------------------------------------------------------------
(* Properties *)

\* Every variable keeps its type.
TypeOK ==
  /\ input \in Inputs
  /\ pc \in {"plan", "build", "start", "execute", "record_execution", "validate", "evaluate",
             "register_validated", "record_rules", "admit", "record_evidence",
             "done", "aborted"}
  /\ plan \in Seq(Nodes) /\ pos \in Nat \ {0}
  /\ execution \in [Nodes -> {"none", "completed", "failed"}]
  /\ passed \in [Nodes -> 0..3]
  /\ failed \subseteq Nodes
  /\ evidence \in [Nodes -> {"none", "passed", "failed"}]
  /\ file \in [Files -> {"absent", "intact", "damaged"}]
  /\ faults \in 0..MaxFaults
  /\ tainted \subseteq Nodes

Chains == UNION {Closure(m) : m \in {r \in Requested : Eligible(r)}}

\* _apply_chain_authorization: what is executed is never more than the chains of
\* the eligible metrics and, when the analysis returns, never less; a chain is
\* executed on behalf of a metric that is not eligible only if another needs it.
ExactlyTheEligibleChains ==
  LET attempted == {n \in Nodes : execution[n] # "none"}
  IN  attempted \subseteq Chains /\ (pc = "done" /\ input.canonical => attempted = Chains)

\* The lineage checks of the three stages, in every state a killed run may
\* leave: evidence is admitted only for an eligible requested metric and a
\* complete bundle of passed rules; rules are recorded passed only for an
\* executed result, never beside a failure, after those of its dependencies.
ChainComplete ==
  \A n \in Nodes :
    /\ evidence[n] = "passed" =>
         /\ Validated(n) /\ MetricOf(n) \in Requested
         /\ Eligible(MetricOf(n)) /\ MetricOf(n) \in input.required
    /\ passed[n] > 0 =>
         /\ execution[n] = "completed" /\ n \notin failed
         /\ \A d \in Deps(n) : Validated(d)
    /\ execution[n] = "completed" => \A d \in Deps(n) : execution[d] = "completed"

\* No value computed from a damaged canonical dataset is validated: execution
\* hashes the dataset once, before its loop, validation before each result.
NothingFromDamagedData == \A n \in tainted : passed[n] = 0

\* validate and admit never refuse what nobody damaged: whatever was executed
\* is validated, and admitted if an eligible metric with evidence asked for it.
NothingLostWithoutDamage ==
  pc = "done" /\ faults = 0 =>
    /\ failed = {}
    /\ \A n \in Nodes : execution[n] = "completed" =>
         /\ Validated(n)
         /\ MetricOf(n) \in {m \in Requested \cap input.required : Eligible(m)} =>
              evidence[n] = "passed"

\* A failure stays in its chain: a metric whose whole chain was validated is
\* reported available, whatever happened to the others.
FailureStaysInItsChain ==
  pc = "done" =>
    \A m \in Requested :
      Eligible(m) /\ (\A n \in Closure(m) : Validated(n)) => MetricState(m) # "inadmissible"

\* A metric is reported available only with a validated result of its own, and
\* if no result of its chain failed validation.
NoFalseAvailability ==
  pc = "done" =>
    \A m \in Requested : MetricState(m) # "inadmissible" =>
      /\ Eligible(m)
      /\ \E n \in ToSet(Roots(m)) : Validated(n) /\ \A d \in Deps(n) : Validated(d)
      /\ \A n \in Closure(m) : execution[n] = "completed" => Validated(n)

\* The status agrees with the metrics and records it summarizes: a completed run
\* has no inadmissible metric and no failed record, a failed or blocked one no
\* valid metric, a partial one has one, and nothing ran before a clarification.
StatusMatchesOutcomes ==
  pc = "done" =>
    LET states == {MetricState(m) : m \in Requested}
    IN  /\ RunStatus = "completed" =>
             /\ "inadmissible" \notin states /\ failed = {}
             /\ \A n \in Nodes : execution[n] # "failed"
        /\ RunStatus \in {"blocked", "execution_failed", "validation_failed"} =>
             "valid" \notin states
        /\ RunStatus = "partially_completed" => "valid" \in states
        /\ RunStatus = "clarification_required" => \A n \in Nodes : execution[n] = "none"

-----------------------------------------------------------------------------
(* The pipeline implements ChainOfAuthority. *)

StageOf(n) ==
  IF evidence[n] = "passed" THEN 3
  ELSE IF Validated(n) THEN 2
  ELSE IF execution[n] = "completed" THEN 1 ELSE 0

Authority == INSTANCE ChainOfAuthority WITH
  Basis <- [n \in Nodes |-> Deps(n)],
  stage <- [n \in Nodes |-> StageOf(n)],
  rejected <- failed \cup {n \in Nodes : "failed" \in {execution[n], evidence[n]}},
  permitted <- Chains,
  requested <- {n \in Chains : MetricOf(n) \in Requested /\ Eligible(MetricOf(n))}

\* Results climb through execution, validation and admission one stage at a time,
\* never ahead of what they are computed from, and stop when they fail.
ImplementsAuthority == Authority!Spec
=============================================================================
