---------------------------- MODULE DiagnosticTest ----------------------------
(***************************************************************************)
(* run_r7_diagnostic: a request for the one diagnostic test passes a row   *)
(* of gates, the method is executed over the canonical dataset, and an     *)
(* independent validator reads the dataset once more; the request, what    *)
(* the two found and the evaluation of it are persisted on the way.        *)
(*                                                                         *)
(* The dataset is hashed before each of the two readings, not during them. *)
(* A call may be killed and the same request made again: a record is named *)
(* by an event or after what it says, and one with a name that is taken    *)
(* must have the same content.  One persist is one step (AuthorityRecords) *)
(* and may fail like any other call.                                       *)
(***************************************************************************)
EXTENDS WeeklyAssociation

CONSTANTS
  Periods,         \* the baseline and comparison periods of the request
  Datasets,        \* the eligible lines of the canonical dataset as registered
  Rewrites,        \* what the Parquet file may be overwritten with
  Requests,        \* the requests that may be made
  MaxCalls,        \* how many calls are made one after the other
  MaxAlterations,  \* how often the Parquet file changes
  MaxDamage        \* how many records are damaged

\* What may be wrong with a request and its evidence before the first record is written.
EvidenceFlaws ==
  {"judgment", "assessment", "requirement", "role", "not admitted", "not fit", "admission authority",
   "upstream authority", "artifact", "source class", "other proposition", "context"}

Flaws ==
  {"handoff", "proposition", "lineage", "evidence set", "method", "bundle", "parameters",
   "judgment bundle", "unknown judgment"} \cup EvidenceFlaws

\* What may differ between the arguments of the call and the request.
Arguments == {"dataset", "populations", "scope", "periods"}

Period == [start : Int, end : Int]

\* created: when the request was made, of which its fingerprint knows nothing.
ASSUME TestAssumption ==
  /\ Requests \subseteq [flaws : SUBSET Flaws, differs : SUBSET Arguments, created : Nat]
  /\ Requests # {}
  /\ Periods \in [baseline : Period, comparison : Period]
  /\ \A d \in Datasets : IsFiniteSet(d) /\ \A l \in d : l.day \in Int /\ l.revenue \in Int
  /\ MaxCalls \in Nat /\ MaxAlterations \in Nat /\ MaxDamage \in Nat

VARIABLES
  registered,  \* the lines whose fingerprint the canonical dataset has
  dataset,     \* the lines in the Parquet file
  handoff,     \* whether the handoff's graph still loads
  request,     \* the request of the present call
  pc,          \* what the call does next
  lines,       \* the lines last read
  executed,    \* the result of the present call
  verdict,     \* whether its validation passed
  answer,      \* what the caller got: nothing yet, an exception or a state
  records,     \* the records in the store
  spoilt,      \* those whose bytes no longer verify
  misread,     \* history: calls and stages that read other lines than registered
  calls, alterations, damages

reading == <<lines, executed, verdict>>
environment == <<registered, dataset, handoff, misread, alterations, damages>>
vars == <<environment, request, pc, reading, answer, records, spoilt, calls>>

None == [none |-> TRUE]
-----------------------------------------------------------------------------
Init ==
  /\ registered \in Datasets /\ dataset = registered
  /\ handoff = TRUE
  /\ request = CHOOSE r \in Requests : TRUE  \* there is none before a call
  /\ pc = "idle"
  /\ lines = {} /\ executed = None /\ verdict = FALSE
  /\ answer = "nothing"
  /\ records = {} /\ spoilt = {} /\ misread = {}
  /\ calls = 0 /\ alterations = 0 /\ damages = 0

Call ==
  /\ pc = "idle" /\ calls < MaxCalls
  /\ request' \in Requests
  /\ pc' = "gates" /\ calls' = calls + 1
  /\ answer' = "nothing"
  /\ UNCHANGED <<environment, reading, records, spoilt>>

GoTo(next) == pc' = next
Keep == UNCHANGED <<environment, request, reading, answer, records, spoilt, calls>>

\* The call ends, and with it what it has in memory.
Return(a) ==
  /\ pc' = "idle" /\ answer' = a
  /\ lines' = {} /\ executed' = None /\ verdict' = FALSE
  /\ UNCHANGED <<environment, request, records, spoilt, calls>>

(* The gates, in the order of run_r7_diagnostic. *)

\* The handoff loads, is the one named and waits to be executed.
HandoffIsEligible == handoff /\ "handoff" \notin request.flaws
SamePropositions == "proposition" \notin request.flaws
SameLineage == "lineage" \notin request.flaws
SameEvidenceSet == "evidence set" \notin request.flaws

\* The one registered method for the family of the handoff ...
MethodIsCurrent == "method" \notin request.flaws

\* ... with its own criterion, validation profile and implementation, and as it is.
BundleIsCurrent == "bundle" \notin request.flaws
NoOverride == "parameters" \notin request.flaws

\* The judgments are loaded through the handoff's evaluation and profile.
SameJudgments == handoff /\ "judgment bundle" \notin request.flaws
JudgmentsAreKnown == "unknown judgment" \notin request.flaws

\* Every binding of evidence is to a judgment, an assessment admitted and fit for
\* diagnosis, registered authority and the proposition's own context.
EvidenceAuthenticates == request.flaws \cap EvidenceFlaws = {}

GatesHold ==
  /\ HandoffIsEligible /\ SamePropositions /\ SameLineage /\ SameEvidenceSet
  /\ MethodIsCurrent /\ BundleIsCurrent /\ NoOverride
  /\ SameJudgments /\ JudgmentsAreKnown /\ EvidenceAuthenticates

PassGates == pc = "gates" /\ GatesHold /\ GoTo("evidence") /\ Keep

RefuseAtGates == pc = "gates" /\ ~GatesHold /\ Return("exception")

\* The request run_public_r7_flow builds from a handoff it has loaded.
PublicRequest(at) == [flaws |-> {}, differs |-> {}, created |-> at]
-----------------------------------------------------------------------------
(* Records *)

Record(kind, name, body) == [kind |-> kind, name |-> name, body |-> body]

EvidenceSet == Record("evidence", "set", <<>>)
RequestRecord == Record("request", "request", request.created)

\* Event identifiers are random: the number of the call stands for them.
CompletedExecution == Record("execution", calls, executed)
FailedExecution == Record("execution", calls, None)

Found == [result |-> executed, event |-> calls]

\* Mutant: the fingerprint of a result covers the event that produced it.
FingerprintOfEvent == Found

\* executed_result_fingerprint leaves the event out, and what is made of it with it.
ResultFingerprint == executed

\* Both are named after the fingerprint and hold the event.
ResultRecord == Record("result", ResultFingerprint, Found)
ValidatedRecord == Record("validated", ResultFingerprint, Found)

ValidationRecord == Record("validation", calls, [result |-> executed, passed |-> verdict])

Evaluation(state) == Record("evaluation", calls, state)

Conflict(record) ==
  \/ record \in spoilt
  \/ \E r \in records : r.kind = record.kind /\ r.name = record.name /\ r # record

\* R7Repository.persist: a record that is there must hold the same bytes.
Persist(record, next) ==
  IF Conflict(record) THEN Return("exception")
  ELSE /\ records' = records \cup {record}
       /\ pc' = next
       /\ UNCHANGED <<environment, request, reading, answer, spoilt, calls>>

PersistEvidence == pc = "evidence" /\ Persist(EvidenceSet, "request")
PersistRequest == pc = "request" /\ Persist(RequestRecord, "binding")
-----------------------------------------------------------------------------
(* Execution *)

ArgumentsAreRequested == request.differs = {}

\* The bytes of the file have the fingerprint of the reference.
Verified == dataset = registered

ExecutionAuthentic == ArgumentsAreRequested /\ Verified

BeginExecution == pc = "binding" /\ ExecutionAuthentic /\ GoTo("read") /\ Keep

Read(stage, next) ==
  /\ lines' = dataset
  /\ misread' = IF dataset = registered THEN misread ELSE misread \cup {<<calls, stage>>}
  /\ pc' = next
  /\ UNCHANGED <<registered, dataset, handoff, alterations, damages, request, executed, verdict,
                 answer, records, spoilt, calls>>

ReadLines == pc = "read" /\ Read("execution", "calculate")

Calculate ==
  /\ pc = "calculate" /\ Computable(Periods, lines)
  /\ executed' = ExecutedResult(Periods, lines)
  /\ pc' = "execution record"
  /\ UNCHANGED <<environment, request, lines, verdict, answer, records, spoilt, calls>>

\* Whatever goes wrong in the execution is an R7ExecutionError, which is recorded.
ExecutionFails ==
  /\ \/ pc = "binding" /\ ~ExecutionAuthentic
     \/ pc = "read" /\ dataset # registered  \* it may be no Parquet file at all
     \/ pc = "calculate" /\ ~Computable(Periods, lines)
  /\ GoTo("failed execution") /\ Keep

PersistFailedExecution ==
  pc = "failed execution" /\ Persist(FailedExecution, "failed evaluation")

PersistFailedEvaluation ==
  pc = "failed evaluation" /\ Persist(Evaluation("execution failed"), "return failure")

ReturnFailure == pc = "return failure" /\ Return("execution failed")

PersistExecution == pc = "execution record" /\ Persist(CompletedExecution, "result")
PersistResult == pc = "result" /\ Persist(ResultRecord, "check")
-----------------------------------------------------------------------------
(* Validation *)

\* A file that is not the registered one is a ValueError that nobody catches.
CheckDataset ==
  /\ pc = "check"
  /\ IF Verified THEN GoTo("reread") /\ Keep ELSE Return("exception")

RereadLines == pc = "reread" /\ Read("validation", "compare")

\* Every check compares a part of the result with the same part of the expected one; an
\* expected result that cannot be computed is an exception.
Compare ==
  /\ pc = "compare" /\ Computable(Periods, lines)
  /\ verdict' = (executed = ExpectedResult(Periods, lines))
  /\ pc' = "validation record"
  /\ UNCHANGED <<environment, request, lines, executed, answer, records, spoilt, calls>>

CompareRaises == pc = "compare" /\ ~Computable(Periods, lines) /\ Return("exception")

\* Mutant: the validated result is left for later.
ValidatedLeftOut == pc = "validation record" /\ Persist(ValidationRecord, "evaluation")

PersistValidation ==
  pc = "validation record" /\ Persist(ValidationRecord, IF verdict THEN "validated" ELSE "evaluation")

PersistValidated == pc = "validated" /\ Persist(ValidatedRecord, "evaluation")
-----------------------------------------------------------------------------
(* Evaluation *)

State ==
  IF ~verdict THEN "validation failed"
  ELSE IF executed.reasons # {} THEN "inconclusive" ELSE Outcome(executed)

PersistEvaluation == pc = "evaluation" /\ Persist(Evaluation(State), "complete")

\* load_complete_posttest_evaluation: a validated result is required, and the graph from
\* the evaluation down to the handoff must load, authenticate as in the gates and agree.
Complete ==
  /\ verdict /\ GatesHold
  /\ {Evaluation(State), ValidatedRecord, ValidationRecord, ResultRecord, CompletedExecution,
      RequestRecord, EvidenceSet} \subseteq records \ spoilt

LoadComplete ==
  pc = "complete" /\ (IF Complete THEN Return(State) ELSE Return("exception"))
-----------------------------------------------------------------------------
(* The surroundings *)

\* The process dies, or the file system or SQLite fails: the call just stops.
Kill == pc # "idle" /\ Return("exception")

Alter ==
  /\ pc # "idle" /\ alterations < MaxAlterations
  /\ dataset' \in (Rewrites \cup {registered}) \ {dataset}
  /\ alterations' = alterations + 1
  /\ UNCHANGED <<registered, handoff, misread, damages, request, pc, reading, answer, records,
                 spoilt, calls>>

Damage ==
  /\ damages < MaxDamage /\ damages' = damages + 1
  /\ \/ handoff' = FALSE /\ UNCHANGED spoilt
     \/ \E r \in records \ spoilt : spoilt' = spoilt \cup {r} /\ UNCHANGED handoff
  /\ UNCHANGED <<registered, dataset, misread, alterations, request, pc, reading, answer,
                 records, calls>>

Next ==
  \/ Call \/ PassGates \/ RefuseAtGates \/ PersistEvidence \/ PersistRequest
  \/ BeginExecution \/ ReadLines \/ Calculate \/ ExecutionFails
  \/ PersistFailedExecution \/ PersistFailedEvaluation \/ ReturnFailure
  \/ PersistExecution \/ PersistResult
  \/ CheckDataset \/ RereadLines \/ Compare \/ CompareRaises
  \/ PersistValidation \/ PersistValidated \/ PersistEvaluation \/ LoadComplete
  \/ Kill \/ Alter \/ Damage

Spec == Init /\ [][Next]_vars
-----------------------------------------------------------------------------
(* Properties *)

Of(kind) == {r \in records : r.kind = kind}

\* An evaluation that rests on a validation that passed.
Terminal == {e \in Of("evaluation") : e.body \notin {"execution failed", "validation failed"}}

TypeOK ==
  /\ registered \in Datasets /\ dataset \in Rewrites \cup {registered}
  /\ request \in Requests
  /\ spoilt \subseteq records
  /\ verdict \in BOOLEAN /\ handoff \in BOOLEAN
  /\ calls \in 0..MaxCalls
  /\ misread \subseteq (1..MaxCalls) \X {"execution", "validation"}

\* Whichever calls were killed and made again, an evaluation with an outcome has one
\* execution, result, validation and validated result behind it that name each other,
\* and its state is the one that result has.
OutcomeHasItsLineage ==
  \A e \in Terminal : \E x \in Of("execution") :
    /\ x.name = e.name
    /\ \A kind \in {"result", "validated"} :
         [result |-> x.body, event |-> e.name] \in {r.body : r \in Of(kind)}
    /\ Record("validation", e.name, [result |-> x.body, passed |-> TRUE]) \in records
    /\ Of("request") # {} /\ Of("evidence") # {}
    /\ e.body = IF x.body.reasons # {} THEN "inconclusive" ELSE Outcome(x.body)

\* A request has one evaluation with an outcome, however often it is made, unless a call
\* caught the file in another state both times it read it.
OneOutcomePerRequest ==
  (\A c \in 1..calls : ~({<<c, "execution">>, <<c, "validation">>} \subseteq misread)) =>
    Cardinality(Terminal) <= 1

\* The execution and the validator read the file each for itself and have each a copy of
\* the method: they part only over a file that changed, and a failed validation is never
\* the method's own doing.
DisagreementMeansMisreading ==
  \A e \in Of("evaluation") :
    e.body = "validation failed" => \E stage \in {"execution", "validation"} : <<e.name, stage>> \in misread

\* What a caller is told is what the registered dataset says, by the decision's own
\* definition of the criterion, unless both readings were of another file.
AnswerIsTheDatasets ==
  LET o == Observations(Periods, registered)
      x == Centred(CountedRanks(o.distance))
      y == Centred(CountedRanks(o.deviation))
      weeks == o.baseline \cup o.comparison
      square(f) == SumOver(Products(f, f), weeks)
      xy == SumOver(Products(x, y), weeks)
      strong == 2 * xy * 2 * xy >= square(x) * square(y)
  IN (answer \in {"met", "not met", "contradicted"}
      /\ ~({<<calls, "execution">>, <<calls, "validation">>} \subseteq misread)) =>
       /\ Cardinality(o.baseline) >= MinBaseline /\ Cardinality(o.comparison) >= MinComparison
       /\ Cardinality(weeks) >= MinWeeks
       /\ \A w \in weeks : \A d \in w..(w + WeekDays - 1) :
            \E p \in DOMAIN Periods : d \in Periods[p].start..Periods[p].end
       /\ (answer = "not met") = ~strong
       /\ answer = "met" => xy < 0
       /\ answer = "contradicted" => xy > 0

\* R7-001: fewer weeks than the method asks for are an inconclusive test, not a failed
\* execution.
TooFewWeeksAreInconclusive ==
  (answer = "execution failed" /\ request.differs = {}) => alterations > 0
=============================================================================
