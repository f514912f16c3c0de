# CommerceLens in TLA+

CommerceLens turns a merchant's order file into governed answers about revenue:
a source is registered and canonicalized, metrics are planned, executed,
validated and admitted as evidence, and a claim about them is allowed or
refused. Every step leaves records in a local SQLite store and immutable files
beside it, and a run may be retained for later inspection. The project beside
this file models the parts where those records can go wrong: TLA+ modules,
TLC configurations, and proofs for TLAPS. Paths below are relative to the
repository; `commerce_lens/` stands for `src/commerce_lens/`.

## 1. Inventory

### 1.1 Components

| Component | State it keeps | Operations | What makes it correct |
|---|---|---|---|
| Retained-run session (`persistence/retention.py`, `manifests.py`) and the runner script `run_public_analysis.py` | run directory: artifacts, `manifest.json`, `complete.marker`; row of `retained_runs` | begin, `capture_context`, `capture_declaration`, `finalize`, `fail` | a run reported complete verifies; a failure is recorded and never upgraded; the exit code agrees |
| Retention store commands (`RetentionStore`) | none of its own | `list_runs`, `inspect_run`, `verify_run`, `delete_run` | a reader between two reads is not fooled; a damaged or deleted run is never called valid |
| Artifact store (`persistence/artifact_store.py`) | files below the artifact root | `snapshot_source`, `write_json_artifact` | what is published is never replaced; names agree with contents |
| Metadata store (`persistence/metadata_store.py`) | 18 tables, schema version | `initialize` and its migrations, insert/get/list per record | a row is found only after its artifact; reads detect any disagreement |
| R4, R6 and R7 repositories (`persistence/r*_repository.py`) | artifacts with an index row | `persist_*`, `load_*` | immutable identities, complete lineage |
| Intake (`intake/`) | dataset registrations, snapshots | `register_source`, inspection per file type | the registered fingerprint is that of the snapshot |
| Canonicalization (`canonical/`) | Parquet file per canonical dataset | `canonicalize_dataset` | rows come from the registered bytes; blocking checks yield no dataset |
| Analysis service (`application/analysis_service.py`) | none of its own | `run_analysis` | lineage of a result is complete; the reported status matches the records |
| Sufficiency, planning and execution (`engine/`, `metrics/`, `sufficiency/`) | execution records, executed results | `evaluate_data_sufficiency`, `build_execution_plan`, `execute_plan` | a failed node blocks its dependants and nothing else |
| Validation and admissibility (`validation/`, `evidence/`) | validation, evidence and claim records | `validate_*`, `admit_*`, `evaluate_claim_admissibility` | only validated results become evidence, only evidence carries a claim |
| R4 comparison (`application/r4_service.py`, `engine/r4_execution.py`, `validation/r4_validator.py`) | trace, result and records of a decomposition | `run_r4_decomposition` | contributions add up to the validated change; what loads was validated against the dataset |
| R6 hypotheses (`application/r6_service.py`, `diagnostic/`) | raw batch, six records per hypothesis, handoff | `run_r6`, `govern_pretest` | a hypothesis has its lineage; only governed evidence makes a test eligible; the outcome says what was done |
| R7 diagnostic tests (`application/r7_service.py`, `engine/r7_execution.py`, `validation/r7_validator.py`) | requests, records, results, evaluations | `run_r7_diagnostic` | one outcome per request with its records; the answer is what the dataset says |
| Public workflow (`skill/`) | coverage declarations | `prepare_`, `confirm_public_coverage`, `run_public_analysis` | one coverage per dataset; what is analysed is what was confirmed; answers name what they rest on |
| Contracts (`contracts/`) | none | immutable data types | guards of the others |
| Fixture runner (`fixture_runner/`) | none | drives the above over stored fixtures | test harness |

### 1.2 How they interact

Everything is a Python call inside one process; there is no server and no lock.
What processes share is the file system and SQLite. In retained mode each run
has a directory and a store of its own, shared with the operator's commands. In
the paired low-level mode (`--artifact-store`, `--metadata-store`) any number of
analyses share one artifact root and one database. SQLite serializes single
transactions, but nearly every operation spans several of them and some files,
so another process, an exception or a death can come between any two.

### 1.3 What is hard

* Two stores and no transaction over both: manifest and row, artifact and row.
* Exceptions raised while an exception is handled: `finalize` fails the run,
  and the runner fails it again.
* Checks that go stale: the source is hashed and read again, a destination is
  found absent and written later, a row is looked up in one transaction and
  inserted in another.
* Deaths between two steps, after which a retry must build on what is there.
* Records that are verified by being derived again from other, later records.
* Loops that go on after a failed node, over a plan whose nodes are shared by
  several requested metrics, and files that change between the three loops.
* `delete_run`, an entry-by-entry `rmtree` next to sessions and verifiers.
* Calls that are made again over what an earlier one left: records named after
  their content, which may or may not cover the time or event they also hold.
* A host that takes its time between proposal, confirmation and analysis while
  the user saves other versions of the file.
* A method written down twice, in the execution and in the validator, each of which
  reads the file for itself, with ties, partial weeks and periods without data.

`PROJECT.json` lists each of these hazards at its line with the properties that
cover it.

## 2. Modules

```
RetainedRun ------- implements --> RunPublication
   ^
   +- RetentionStore
         ^------- RetentionStoreProofs   (about both)

ArtifactStore
   ^
   +- AuthorityRecords -- implements --> WriteOnce
         ^------- AuthorityRecordsProofs

AnalysisPipeline -- implements --> ChainOfAuthority
   ^   ^--------- AnalysisPipelineProofs
   +- MCAnalysisPipeline

SourceIntake
   ^------------- SourceIntakeProofs

RevenueDecomposition <-- MCRevenueDecomposition
   ^------------- RevenueDecompositionProofs

PretestGovernance
   ^
   +- HypothesisRun <-- MCHypothesisRun
         ^------- HypothesisRunProofs

WeeklyAssociation
   ^
   +- DiagnosticTest <-- MCDiagnosticTest
         ^------- DiagnosticTestProofs

PublicWorkflow <-- MCPublicWorkflow
   ^------- PublicWorkflowProofs
```

An arrow leads from a module to the one it extends. The modules meet where the
code hands records over: `PublicWorkflow` takes the analysis as one step, whose
interior is `SourceIntake` followed by `AnalysisPipeline`; the decomposition, the
hypotheses and the test each start from authorities that the step before has
persisted, which their gates read back. None of them extends the next: a product
of all would have too many states, and what one knows of another is what the
verified read of its records tells.

**RetainedRun** is one session under the runner, plus one reader. The files are
`dir`, `manifest`, `marker` and `files`; the database is `db`, `row`, `indexed`
and `failedExec`. `op` and `step` are the session's position: `op` is the method
in progress (`set_lifecycle`, `_build_manifest`, `_fail`, ...), `step` the durable
effect that comes next. Each action is one such effect (`WriteManifest`,
`UnlinkMarker`, `WriteRow`, `StoreArtifact`, `IndexArtifact`, `PublishMarker`,
...); `Fault` is an exception before the next effect, `Handler` says which
`except` clause it lands in, `Crash` kills the process. `ReadManifest` and
`ReadMarker` are the two reads of `list_runs` and `inspect_run`. A manifest is a
record of the fields that checks tell apart; a fingerprint stands for the
manifest it was computed from (`signed` says that one was computed).

**RetentionStore** extends it with `verify_run` in another process, in the three
stages in which it reads, and with `delete_run`: list the entries, remove them
one by one in any order, remove the directory, fail if something appeared behind
the listing or a listed entry vanished, or be killed.

**ArtifactStore** is `write_json_artifact` and `insert_artifact_reference` for
several writers: look for the destination, publish by hard link (the loser
compares bytes), hash what is there, register the reference. Bytes are
`[id, version]`: every persisted record carries its own identity.

**AuthorityRecords** adds the rows. Claim candidates (in the same way analysis
requests and sufficiency results) check their row, write, and use a plain
`INSERT`; R6 and R7 artifacts use `INSERT OR IGNORE` and compare; claim decisions
have a fresh identity, read their candidate to decide and read it again to
derive their fingerprint. The last two are "admissible", "inadmissible" and
"unbound" versions: an unbound decision is fingerprinted without its candidate.
`Verifies` is the read of `_verified_authority_payload`, `_load_model` and
`get_claim_decision_record`. `Leave` is a return, an exception or a death.

**SourceIntake** follows a source file from its fingerprint to a computed
result: `snapshot_source`, registration, canonicalization, the Parquet file
written in place, the three provenance inserts, and the two openings by
`execute_plan`. The user may save another version at any step (`Edit`). Bytes
and fingerprints are members of `Versions`; `Rewritten` versions have the same
rows, as a CSV saved with other line endings does, and so the same Parquet bytes.

**AnalysisPipeline** is what `run_analysis` does after canonicalization.
`Eligible` and `ClarificationRequired` are Data Sufficiency; `PlanMetric` adds the
nodes of one requested metric after the other by `AddNode`, the `add_node` of the
planner, and `Authorized` is the closure of `_apply_chain_authorization`. `pc` names the loop `run_analysis` is in and `pos` the
plan node it has reached; each loop does to a node what the code does: execute
it by the function of its metric (`ExecuteTotal`, `ExecuteAov`,
`ExecuteRevenueChange`, each with the dependency results and the currency it
asks for), validate it (`CheckContext`, the rules of the metric, the persisted
result, one transaction per rule) and admit it. `execution`, `passed`, `failed` and `evidence` are the records in
the store, `file` the artifacts. Any node may fail to execute, and `Damage` may
change a file between any two steps; the hashes compared in the code, and only
those, notice. `MetricState` and `RunStatus` translate the functions of those
names, of which the report consists. The four metrics are those the engine
executes, in total; a value is abstracted to whether it was computed and from
what data. **MCAnalysisPipeline** holds the requests the runs explore.

**RevenueDecomposition** is `run_r4_decomposition`. `broken` is the set of gates
the request fails; `pc` walks through gates, execution and validation. The two
stages hash the Parquet file and then query it once per period, and `Alter` may
change it between any two of these. Revenue per product is a function from the
products that have a line, so that a product whose lines cancel out is present
with 0; `Class`, `Contribution`, `Component` and `Reconciliation` are operators on a
pair of such functions. `Stop` is every exception and death.

**PretestGovernance** holds the pure part of R6: `govern_pretest` as an operator
from the family, the assessments of the required evidence, the claim, a conflict
and the method to an evaluation (judgments, coverage, first blocker, readiness,
eligibility), the authentication of its arguments, the production's own arguments,
and what the handoff contract accepts. **HypothesisRun** is `run_r6` over it:
propositions are generated, checked and governed in the order of their
identifiers, and each persists the six records of `Chain` and a handoff. A record's
name and body are the material its fingerprint covers and what it contains, so
that a later or repeated call finds, shares or conflicts with what is there.
`GovernDirectly` calls `govern_pretest` with evidence no production code supplies
yet.

**WeeklyAssociation** is the one diagnostic method: full weeks, products and revenue
of a week, Jaccard distance, median, ranks, Spearman's coefficient and the
criterion, all in exact arithmetic; what the execution computes (`ExecutedResult`)
and what the validator does (`ExpectedResult`). The validator's code is a copy of the
execution's method, its ranks (`ValidatorRanks`) included, so the two share their
operators here, and what can make them disagree is what each has read.
`CountedRanks` is no code: it defines an average rank without the sorting, and the
properties and proofs measure the loop by it.
**DiagnosticTest** is `run_r7_diagnostic` around it: the gates, the records, two
readings of a file that may change, a validation that disagrees, failures that are
recorded and exceptions that are not; a call may be killed anywhere and repeated.

**PublicWorkflow** is several calls over the same stores and one file the user
keeps saving. Each has its `pc`; `shown` is the proposal on display, `submitted` the
declarations handed over, `store` and `refs` those on disk. `Inspect` and `Propose` are
the two readings of the file in `prepare_public_coverage`, of its columns and for
its registration, between which it may be saved like anywhere else. `Confirm` and
`Supply` are the host's steps, the others those of `run_public_analysis` in its
order. `Refusal` gives the reason for which a declaration is refused in the order
in which the code asks. `history` is written by the steps and read by properties
alone: whether two calls raced, which declarations were ever admitted, who
stored one, and the claims an answer was made with.

**RunPublication**, **WriteOnce** and **ChainOfAuthority** are the abstract
specifications: a run is decided once and published only while its evidence is
sealed; a record is published once, committed once, after its artifact and to
the same payload; a result climbs from executed to validated to admitted, one
step at a time, never ahead of what it is computed from, never without an
eligible request, and no further once it is rejected.

Definitions whose comment begins with "Mutant:" are plausible bugs. No
specification uses them; substituting one for the definition after it shows that
a property notices.

## 3. What TLC checks

| Run | What it shows |
|---|---|
| `retained_run` | with a crash or up to two raised operations anywhere, `CompleteMeansVerifiable`, `ReaderNeverFooled`, `ExitAgreesWithStores`, `SingleFaultIsRecorded`, `NeverUpgraded`, the refinement of `RunPublication` and `EventuallyDecided` |
| `retention_store` | beside a `verify_run` and a `delete_run`: `DamagedNeverValid`, `DeletedStaysDeleted` |
| `authority_records` | two processes and any number of deaths: `RowsVerify`, `AdmissibleHasCandidate`, `RefusesOnlyConflicts` and the refinement of `WriteOnce` |
| `source_intake` | one analysis at a time, in any number: `RegisteredSnapshotsIntact`, `ResultsComeFromTheirSource`, `LineageComplete`, `RefusalsExplained` |
| `analysis_pipeline` | eleven requests with failures at every node and two damaged files: `ExactlyTheEligibleChains`, `ChainComplete`, `NothingFromDamagedData`, `NothingLostWithoutDamage`, `FailureStaysInItsChain`, `NoFalseAvailability`, `StatusMatchesOutcomes` and the refinement of `ChainOfAuthority` |
| `decomposition` | over a Parquet file that changes between any two queries: `LoadedDecompositionReconciles`, `LoadedDecompositionIsTheDatasets`, `ValidatedHasItsChain` |
| `hypothesis_run` | two calls, one fault or damaged record: `LineageBeforeHypothesis`, `OutcomeIsHonest`, `OnlyFaultsBreakPersistence`; and over every assessment of the required evidence `EligibleOnlyOnGovernedEvidence` |
| `diagnostic_test` | two calls, repeated or killed, over a file that changes: `OutcomeHasItsLineage`, `OneOutcomePerRequest`, `DisagreementMeansMisreading`, `AnswerIsTheDatasets` |
| `public_workflow` | two calls over shared stores: `OneCoverageUnlessRaced`, `AnalysedAsConfirmed`, `RetriesAreAdmitted`, `AnswersNameTheirCoverage` |
| `authority_decisions` | violates `DecisionsStayVerifiable` |
| `source_intake_shared` | violates `SnapshotsAreImmutable` |
| `diagnostic_weeks` | violates `TooFewWeeksAreInconclusive` |

The violating runs are disagreements between the code and its documents or tests:

1. *A refused decision stops verifying.* Evaluated before its candidate is
   persisted, a decision is fingerprinted without it; each later read finds the
   candidate and computes another fingerprint. `list_claim_decision_records`
   then raises for the whole store (`metadata_store.py:1337`).
2. *A snapshot is replaced.* `snapshot_source` finds the destination absent and
   publishes with `os.replace` later (`artifact_store.py:64`). A process that is
   late overwrites what another has registered, with whatever the source holds
   by then, and checks the hash only afterwards.
3. *Too few weeks fail the test.* Without a full Baseline week there is no
   reference to measure deviations from, and the first observation raises an
   `IndexError` (`r7_execution.py:123`). The test is recorded as one whose
   execution failed; R7-001 wants fewer weeks than the method needs to be
   inconclusive.

Others were met while modelling. The models contain them, and no run is spent
on them:

* *A complete run is failed again.* The runner prints inside the `try` that fails
  the session (`run_public_analysis.py:193`): a closed standard output turns a
  finalized run into a failed one. `ARCHITECTURE_SPECIFICATION.md:420` calls it
  append-only.
* *A half-deleted run is listed complete.* `rmtree` meets manifest and marker
  before or after the artifacts (`retention.py:925`). `list_runs` trusts the two
  files; `verify_run` does not.
* *Verification writes.* `verify_manifest` initializes the metadata store and so
  creates it where it is missing (`retention.py:501`, `USAGE.md:149`).
* *A metric with a failed execution is valid* if its other period was validated:
  `_metric_state` (`analysis_service.py:508`) does not ask for failed executions,
  although `:692` calls such a metric inadmissible. `NoFalseAvailability` says
  what does hold.
* *A failed run is blocked* when all executions fail, as `_run_status` (`:543`) tests
  for results first; `ARCHITECTURE_SPECIFICATION.md:823-825` keeps the two apart.
* *A repeated diagnostic test is refused.* A result is named without the event that
  produced it and holds that event (`contracts/r7.py:411`), so a request that got as
  far as a result is never answered again. `OneOutcomePerRequest` is the good
  side of it.
* *A hypothesis without source references, or with a misbound variable,* leaves
  `run_r6` by an exception that nobody catches (`Construct`, `LoseProposition`).

`SnapshotsAreImmutable` needs two processes to fail; one process, whatever the
user saves, keeps `RegisteredSnapshotsIntact`. Retained runs, which do not share
their artifact root, are on the safe side of it. Even one process leaves a
spoilt snapshot behind when the source is saved between its two reads; that
fingerprint can then never be registered again. `RefusalsExplained` says this,
and the conflict of two sources with equal rows, are the only refusals.

Some properties say less than their names may suggest. `DeletedStaysDeleted` is about
runs deleted after their session ended; while it is at work the session may write
the manifest anew, which is how the code behaves, and what holds then is
`DamagedNeverValid`: no verification passes over what is gone. `AdmissibleHasCandidate`
follows the first of the two readings of a candidate; what comes of the second,
which fingerprints the decision, is `RowsVerify` for decisions that saw the candidate
and the violated `DecisionsStayVerifiable` for those that did not.
`DisagreementMeansMisreading` is about what the execution and the validator have read;
their method is the same, so a fault in both copies of it would escape them, and it
is `AnswerIsTheDatasets` that measures the answer by the definition of a rank and by
the decision's criterion.

The type invariants and the inductive invariants `IInv` are not among the runs'
properties: they are proved, for every specification but the abstract ones, and a
`TypeOK` by itself says little about the code.

### 3.1 Bounds

* `MaxFaults = 2` in `retained_run`: handlers nest two deep (`finalize`'s own
  `_fail`, then the runner's), so a second fault is what it takes to defeat them,
  and `ExitAgreesWithStores` says so. The theorems hold for any number.
* Two context and two evidence artifacts, so that they are stored in either order
  and one may be missing. `retention_store` drops them and keeps three artifacts,
  one fault and one `delete_run`, as it multiplies the states by the subsets
  `rmtree` may have removed; what could interleave there is removal against
  writing, for which one artifact of each stage is enough.
* Two writers in `authority_records`: every race in it is between one writer's
  check and another's write to the same name, and dead writers' debris is left by
  the same two, who may call again any number of times. One candidate, two
  decisions about it and one indexed artifact give each protocol a conflict with
  itself and with the other; two payloads make a content conflict.
* Three versions of the source, two of them with equal rows, and an unbounded
  number of analyses and edits. Two versions and two processes in the shared run.
* Eleven requests in `analysis_pipeline`: each metric alone or with one that shares
  its dependencies, in both orders; dependencies that are ineligible themselves;
  problems of one metric and of all, with and without clarification; periods
  without orders or without one currency; a repeated metric and a request without
  canonical data. A
  request of more than four metrics repeats one of the four. Two damaged files,
  so that the canonical dataset and an artifact can both change.
* Five contents of the Parquet file in `decomposition`, with products that stay,
  enter, leave or cancel out, equal revenues on other products and an empty
  period. Four alterations: the file can leave and regain its registered state
  around each of the two stages; one damaged record.
* Two calls of `run_r6`: what one leaves can hinder the next, and calls of more
  different inputs add no other kind of leftover. One fault, as
  `OnlyFaultsBreakPersistence` has none to excuse it in the other behaviours.
  `govern_pretest` alone is evaluated for every combination of availability,
  admission, fitness and origin of two requirements.
* Weeks of two days in the diagnostic runs, with a partial week at both ends and
  thresholds of 4, 2 and 2 weeks instead of 8, 4 and 4: 110 datasets with ties,
  weeks without lines, constant vectors, a missing Baseline week and coefficients
  exactly at the criterion's boundary. Two calls and one rewriting of the file.
* Two calls in `public_workflow`, one whose host may prepare a proposal and one
  that supplies JSON; three versions of the file (canonical columns, other
  columns, no table), one question that must be diagnosed and one that is refused
  or trusted; three instants, so that a declaration can be early, due and late. Of
  the declarations that can meet in the store, some share an identifier and one has
  its own and covers more, so that a reused identifier and a conflict both occur, to a
  call that was admitted before as well.

No state constraint is used; nothing but calls, faults, alterations, deletions and
time is counted.

### 3.2 Fairness

Only `EventuallyDecided` uses fairness: `WF_vars(SessionStep)`. The session is
one thread of straight-line code without waiting, so it continues until it ends,
raises or is killed; nothing makes a fault, a crash or a reader happen. The
property leaves out killed sessions, sessions without a row, and those in which
two operations raised. The other specifications state no fairness, and the
properties checked of them are safety properties.
`CHECK_DEADLOCK FALSE` appears where a session, or the last of the counted calls,
has ended and nobody is left to act.
In the pipeline deadlock is checked: `Finished` steps only after `run_analysis` has
returned or raised, so no node can leave its loop stuck.

## 4. What is proved

TLAPS checks every theorem below for all values of the constants. The
assumptions are those the modules name: "nothing" is not an artifact, manifest,
row, path or content (`NoneIsNothing`, `NoneIsNoValue`); the artifacts of different
stages are different files (`DistinctArtifacts`); the bounds are natural numbers;
the kinds of record have disjoint identities (`RecordsAssumption`); a content of
the Parquet file gives each product of a period an integer revenue
(`DecompositionAssumption`); a call has some question to ask, about a period on
the time scale, and what is supplied as JSON are declarations
(`WorkflowAssumption`); a request of the pipeline has the shape the contracts give
it (`PipelineAssumption`); the rows of a source are one of its versions and "none"
is neither rows nor a dataset (`IntakeAssumption`); calls of `run_r6` and
`govern_pretest` have arguments their contracts accept, whatever they are
(`RunAssumption`), and no dimension of the evidence is also a dependency
(`GovernanceAssumption`); the diagnostic method needs at least one week and a week
has a day (`MethodAssumption`); a dataset is a finite set of lines, each with an
integer day and revenue (in the smallest unit of the currency), and there is a request (`TestAssumption`). Fingerprints are collision free by the way they are modelled.

**RetentionStoreProofs**, first about `RetainedRun`: `TypeCorrect`, `InvariantHolds`, `CompleteIsVerifiable`,
`ReaderIsNeverFooled`, `ExitCodeIsHonest`, `SingleFaultRecorded`,
`StatusNeverUpgraded`, `RefinesPublication`. `CompleteMeansVerifiable` alone is not
inductive: the manifest that was verified says "verifying", the one that gets
published is a later one, and its marker comes later still. `IInv` carries the
evidence along the way: while the run is undecided no marker exists and no draft
says complete (`UndecidedIsOpen`); from the verdict to the marker the draft, the
manifest and the row are the same and `Backed` (`DraftsFit`); a complete manifest,
a marker and a manifest in a reader's hands remain backed (`CompleteIsBacked`);
and every way to end without a recorded failure has used up faults
(`FaultsCounted`).

Then about `RetentionStore`: `StoreTypeCorrect`, `DeletedForGood`, `DamageIsNoticed`,
for any number of artifacts, faults and deletions. `DamagedNeverValid` needs that
no session can put back what `delete_run` took from under it, and that what is
missing will be listed. `Future` is what the session may still store; a file or
reference that is gone and not in `Future` is gone for good (`NeverStored`,
`NeverIndexed`, stable under `Progress`). `FilesKnown` and `ContextFirst` say that
a stored artifact is indexed at once and the context before all others, so that
the candidate lists whatever was removed, or lists a context whose references
went with the database (`DamageShows`, `ManifestsFit`); `SuspectFails` carries this
through the two stages of the check. The theorem assumes `Context # {}`:
`capture_context` always writes two artifacts. Without any, a run could lose its
evidence and its database and index only its final artifacts, which is why the
run of TLC, with neither context nor evidence, is no instance of the theorem but
another case of the same property.

**AuthorityRecordsProofs**: `TypeCorrect`, `InvariantHolds`, `RowsAlwaysVerify`,
`AdmissibleAlwaysBacked`, `OnlyConflictsRefused`, `RefinesWriteOnce`, for any
number of writers and records. `RowsVerify` is not inductive because it says
nothing of a writer on its way to the row. `WritersFit` says what each position
has established (a writer past the link finds its bytes at its path, one past
the registration its reference, and a refused one a conflict that can not go
away); `StoresAgree` that files, references and rows only ever agree, which is
what makes those facts stable under the other writers' steps; `DecisionsFit` that
an outcome that covers a candidate has one, in the hands of a writer as in the
stores. One lemma per action shows that the action keeps the invariant.

**RevenueDecompositionProofs**: `TypeCorrect`, `InvariantHolds`,
`LoadedReconciles`, `LoadedIsTheDatasets`, `ValidatedHasChain`, for any contents of
the dataset, any alterations of it and any damage. The properties speak of what
loads at the end; what makes them true happened two readings earlier.
`ReadingsKnown` says at each position which of the two readings is the registered
dataset unless it was misread; `RecordsFollow` which records a position has behind
it; `FirstGatesRefuse` that a broken gate stops the request before it leaves
anything; `ChecksStand` that what passed the checks still would. The lemma
`AgreementIsEquality` carries the argument: two readings that agree on every
product, as the validator compares them, are the same reading, so one correct
reading is enough.

**PublicWorkflowProofs**: `TypeCorrect`, `InvariantHolds`, `OneCoverage`,
`RetriesAdmitted`, `AnswersNameCoverage`, `ConfirmedIsAnalysed`, for any number of
calls, questions, versions of the file and declarations. `OneCoverageUnlessRaced`
is about the store alone and says nothing of the calls about to write to it;
`WritersAgree` adds that one past its check agrees with the store and is the only
such call for its dataset. `AcceptedBound` ties an accepted declaration to the
call's dataset and question from the check on, `ProposalsCover` ties what was
submitted to what was displayed, and the two together give
`AnalysedAsConfirmed`. `AcceptedStored` and `AnswersFit` follow the declaration
from the disk to the answer, with the claims it was made with, and `CausesEnd` keeps
a refused call as it was. `RetriesAreAdmitted` needs a second invariant over the first,
`RetryInv`: what admission found of a call's declarations stays true of them
(`AdmittedHold`; the clock only goes forwards), and what is stored is what some call
was handed (`StoredAsSubmitted`). A call that sees nothing but its own copies on disk
therefore compares what it compared before (`OwnDeclarationsPass`). One lemma per
action; the assumption that time is a number is needed only
where `Tick` must not unbind a declaration.

**AnalysisPipelineProofs**: `TypeCorrect`, `InvariantHolds`,
`ExecutesExactlyTheEligibleChains`, `RecordsAreCompleteChains`,
`DamagedDataIsNeverValidated`, `UndamagedRunsLoseNothing`,
`FailuresStayInTheirChain`, `AvailabilityIsNeverFalse`, `StatusSummarizesOutcomes`
and the refinement `PipelineImplementsAuthority`, for any requests, any evidence
and any number of damaged files. The properties speak of records at the end of
three loops; `IInv` says at every position what is behind it and what is not yet
there. `PlanFits`: the plan names a node once, after what it is computed from, and
holds the closures of the metrics planned so far, whatever their order.
`ExecutionFits`, `ValidationFits` and `EvidenceFits`: which records the nodes before,
at and after `pos` have, so that a loop never meets a record of its own;
`passed` grows only for a node that is executed and not failed, whose dependencies
are validated, which is where a dependency that changes on disk is noticed or
has done its harm. `TaintFits`: a damaged canonical dataset never becomes intact
again, and a value computed from it never gets past the check of its context.
`UndamagedFits`: as long as nothing is damaged all that was written is intact, so
no check can fail.

**SourceIntakeProofs**: `InvariantHolds`, `RegisteredSnapshotsStayIntact`,
`ResultsNameTheirSource`, `RecordedLineageIsComplete`, `RefusalsAreExplained`, for
any versions of the source, saved at any moment, and any number of analyses that
die anywhere. Each theorem assumes `OneProcess`, that no other process shares the
stores: that is the configuration of retained runs, and with two processes the
run `source_intake_shared` refutes the first of them. `StoreFits` says that a
canonical row names the rows of its dataset; `ProcessFits` what an analysis has
made certain by the step it has reached, as it opens each path again after
checking it: a snapshot it found absent is still absent when it publishes, the
Parquet file it filled is the one it hashes, and a reason for a refusal stays a
reason.

**HypothesisRunProofs**: `TypeCorrect`, `InvariantHolds`,
`LineageIsPersistedFirst`, `ReportedOutcomesAreTrue`, `OnlyFaultsFailACall`,
`OnlyGovernedEvidenceIsEligible`, for any calls one after the other, any number of
failed writes and damaged records, and any dimensions and dependencies.
`LineageBeforeHypothesis` is about the store, and a later call meets what earlier
ones left there; `RecordsFit` adds that a record is named after its body, so that
without a fault no record of any call conflicts with one that is there, and
`StoreFits` which records of its own chain the call has persisted by `step`.
`LoopFits` is the loop's invariant: every accepted proposition has a chain, was
refused or is still in `todo`, until persistence breaks; `OutcomeFits` carries it
into the status. The last theorem says nothing of the store: `GovernFacts` follows
`govern_pretest` from the authentication of its arguments (`PretestFits`) through
the judgments to the evaluation. TLC looks at every assessment of two
requirements, the theorem holds for any set of them. One lemma per action.

**DiagnosticTestProofs**: `RanksAgree`, `SumIsANumber`, `MethodIsAsDefined` about
`WeeklyAssociation`, and `TypeCorrect`, `InvariantHolds`, `OutcomesHaveTheirLineage`,
`RequestsHaveOneOutcome`, `DisagreementsAreMisreadings`, `AnswersAreTheDatasets`
about the calls, for any calendar, dataset, periods and requests and any number of
calls, rewritings of the file and damaged records.

*The method.* Execution and validator sort the values and give tied ones the average
of their places; by definition a rank counts the smaller and the equal values. That
the loop finds what is defined (`RanksAgree`) is shown without induction over the
values: in a strict order
of a finite set every place holds one element (`EverythingHasAPlace`), the values
below one and those not above it each fill the first places (`FirstPlaces`), and as
many places as there are such values (`AsManyElementsAsPlaces`), so the ties fill
the places between two counts. The existence of an element at each place and of a
sum over a set are the two facts that do need induction over data. The library's
induction theorems cannot be instantiated, so both are proved by hand from
`WFMin`: the smallest number, or subset, for which the claim fails has one below it
for which it holds (`AllPlaces`, `SumsExist`). `MethodIsAsDefined` says so of both results
and follows, once distances, deviations and medians are known to be fractions.

*The calls.* An outcome speaks of records written several steps earlier, while
the file may be rewritten and a call killed in between. `RecordsFit` says which records
a call has left behind at each position, and `NamesAreTaken` that no two records of
a kind share a name, so that a write that finds another content under its name is
refused. `ReadingsFit` says what the two readings made of the registered lines where
they did not misread them; that they then agree follows from `MethodIsAsDefined`. `EvaluationsAreSound`
gives every stored outcome its lineage, with the method's result over the
registered lines unless its call misread twice, and every failed validation a
misreading; `CallIsCounted` makes a new call's event differ from all earlier ones, and
`AnswerFits` says the same of the answer in the caller's hands. A result is named
without the event that produced it and holds that event: two outcomes of the same
content would be two contents of one name, which is what `RequestsHaveOneOutcome`
rests on. The answers need two more facts of the method: ranks that are not all
equal have a positive sum of squares (`CentredRanksVary`, `SumOfSquares`), and a result
without reasons has enough whole weeks.

Only model-checked: liveness (`EventuallyDecided`), and the three violations. Every
safety property of a passing run and every refinement is proved.

## 5. What is not modelled

* Power failures. A death is that of the process; the kernel completes its
  renames in order. (`_atomic_write_bytes` does not sync the directory.)
* Tampering with the database from outside, tampering with files except in
  `AnalysisPipeline`, and disk errors during a read.
* In the pipeline: groupings (product, category, the other registered metrics,
  which nothing executes), evidence that an earlier run of the same request
  admitted, and exceptions other than those of DuckDB and of a file that does not
  read back. A run that is killed is a prefix of a behaviour; nothing resumes it.
* The rounding of binary64 in Spearman's coefficient: near the boundary the code's
  rho may differ from the exact one, by the same amount in both computations.
* How values are parsed and quality rules are applied to rows, and the claim
  policy: a row is data, and a claim has the outcome the policy gives its kind.
  The wording of proposals, responses and hypotheses.
* The fixture runner, a test harness without state of its own.
* The directory sync, `finalize` after `fail` on one session, and `size_bytes`
  taken from the live file (`registry.py:45`), for the reasons noted at their
  hazards.
* A disk error in SQLite during the diagnostic step, which is neither a value nor
  a runtime error and so leaves `run_public_analysis` (`integration.py:433`);
  `Raises` covers it, but not its text.
* Torn reads of a source while the user's editor writes it: a save is atomic.
* Retry, timeout and locking inside SQLite: a transaction happens or raises.
* The components marked `not_modelled` or `partly` in `PROJECT.json`; the plan
  follows.

## 6. Plan

Done: the retained run with its store commands, artifact-first records, source
intake, the analysis pipeline, the decomposition, hypotheses, the diagnostic
test and the public workflow; proofs about all of them.

1. `MetadataSchema`: table creation and the migrations under SQLite's
   autocommitted DDL, with a death between any two statements and two processes
   that initialize together.
2. The claim policy as an operator, and the transitions of a claim's records.
3. Abstract specifications of the decomposition and of the diagnostic test, as
   there are of the run, the records and the pipeline, and their refinement.
