-------------------------- MODULE PretestGovernance --------------------------
(***************************************************************************)
(* govern_pretest: what may be said of a diagnostic proposition before any *)
(* test of it.  Every requirement of the proposition's family is judged by *)
(* the one assessment supplied for it, and the judgments are folded into a *)
(* readiness, an eligibility and the first blocker.                        *)
(*                                                                         *)
(* A requirement is a dimension of the evidence or one of the family's own *)
(* dependencies; Dimensions and Dependencies say how many of each.  The    *)
(* two conditional dimensions apply whenever the proposition has a Metric, *)
(* and a proposition always has one.                                       *)
(***************************************************************************)
EXTENDS Naturals, FiniteSets

CONSTANTS Dimensions, Dependencies

ASSUME GovernanceAssumption == Dimensions \cap Dependencies = {}

Families == {"product", "discounting", "external"}
Requirements == Dimensions \cup Dependencies

\* The classification of a family's dependencies holds for its dimensions too.
ClassOf(family) == IF family = "external" THEN "external" ELSE "internal"

(***************************************************************************)
(* What RequirementEvidenceAssessment accepts: evidence that is not present *)
(* carries no admission decision.                                          *)
(***************************************************************************)
Origins ==
  {"governed internal", "governed external", "descriptive", "R4 mechanical", "model knowledge"}

Assessments ==
  {a \in [availability : {"present", "missing", "unresolved"},
          admission : {"admitted", "descriptive only", "inadmissible", "unresolved"},
          fitness : {"passed", "failed", "unresolved"},
          origin : Origins] :
     a.availability # "present" => a.admission = "unresolved"}

\* _authenticate_assessments refuses an origin that does not suit the requirement.
OriginsFor(class) ==
  IF class = "external" THEN {"governed external", "descriptive", "model knowledge"}
  ELSE {"governed internal", "descriptive", "R4 mechanical"}

Authentic(family, evidence) ==
  \A r \in DOMAIN evidence : evidence[r].origin \in OriginsFor(ClassOf(family))
-----------------------------------------------------------------------------
(***************************************************************************)
(* What govern_pretest authenticates before it judges anything.  flaw is   *)
(* the part of its input that is not what it claims to be: altered, stale, *)
(* unregistered or made for another proposition.                           *)
(***************************************************************************)
Flaws ==
  {"none", "registry", "other registry", "unregistered", "proposition", "context", "template",
   "candidate", "method", "execution authority", "assessment", "other assessment", "conflict"}

RegistryIntact(flaw) == flaw # "registry"
RegistryCurrent(flaw) == flaw # "other registry"
Registered(flaw) == flaw # "unregistered"
PropositionHolds(flaw) == flaw # "proposition"
ContextOfPropositionHolds(flaw) == flaw # "context" /\ Registered(flaw)
TemplateHolds(flaw) == flaw # "template"
CandidateHolds(flaw) == flaw # "candidate"
MethodsHold(flaw) == flaw # "method"
ExecutionAuthorityHolds(flaw) == flaw # "execution authority"
AssessmentIntact(flaw) == flaw # "assessment"
AssessmentOfProposition(flaw) == flaw # "other assessment"
ConflictHolds(flaw) == flaw # "conflict"

\* Of a claim that is not diagnostic neither the candidate nor evidence is looked at.
Authenticates(flaw, family, evidence, diagnostic) ==
  /\ RegistryIntact(flaw) /\ RegistryCurrent(flaw)
  /\ PropositionHolds(flaw) /\ TemplateHolds(flaw) /\ ContextOfPropositionHolds(flaw)
  /\ diagnostic =>
       /\ CandidateHolds(flaw) /\ MethodsHold(flaw) /\ ExecutionAuthorityHolds(flaw)
       /\ AssessmentIntact(flaw) /\ AssessmentOfProposition(flaw)
       /\ Authentic(family, evidence)
       /\ ConflictHolds(flaw)
-----------------------------------------------------------------------------
(* Judgments *)

Missing(class) == IF class = "external" THEN "external unmet" ELSE "missing"

\* Mutant: a descriptive admission is as good as a diagnostic one.
OutcomeOfAnyAdmission(a, class) ==
  CASE a.fitness = "failed" -> "failed"
    [] a.availability = "missing" -> Missing(class)
    [] a.availability = "unresolved" -> "unresolved"
    [] a.admission = "inadmissible" -> "inadmissible"
    [] a.admission = "unresolved" \/ a.fitness = "unresolved" -> "unresolved"
    [] OTHER -> "satisfied"

\* _assessment_outcome: failed fitness comes first, then what is there, where it
\* comes from, and what was admitted.
Outcome(a, class) ==
  IF a.fitness = "failed" THEN "failed"
  ELSE IF a.availability = "missing" THEN Missing(class)
  ELSE IF a.availability = "unresolved" THEN "unresolved"
  ELSE IF a.origin \in {"R4 mechanical", "model knowledge", "descriptive"} THEN "inadmissible"
  ELSE IF a.admission \in {"descriptive only", "inadmissible"} THEN "inadmissible"
  ELSE IF a.admission = "unresolved" \/ a.fitness = "unresolved" THEN "unresolved"
  ELSE "satisfied"

\* No evidence satisfies a dependency of the family for which R3 knows none.
Dropped(family, r, a) ==
  family = "discounting" /\ r \in Dependencies /\ Outcome(a, ClassOf(family)) = "satisfied"

Judgment(family, evidence, r) ==
  IF r \notin DOMAIN evidence \/ Dropped(family, r, evidence[r]) THEN Missing(ClassOf(family))
  ELSE Outcome(evidence[r], ClassOf(family))

Judgments(family, evidence) == [r \in Requirements |-> Judgment(family, evidence, r)]
-----------------------------------------------------------------------------
(* The evaluation *)

Blocking == {"failed", "missing", "unresolved", "inadmissible"}

\* The order in which internal defects are reported.
Severity == [failed |-> 0, missing |-> 1, unresolved |-> 2, inadmissible |-> 3]

MissingInternal(family, judged) ==
  {r \in Requirements : ClassOf(family) = "internal" /\ judged[r] \in Blocking}

UnmetExternal(family, judged) ==
  {r \in Requirements :
     ClassOf(family) = "external" /\ judged[r] \in Blocking \cup {"external unmet"}}

Evaluation(readiness, eligible, blocker) ==
  [readiness |-> readiness, eligible |-> eligible, blocker |-> blocker]

Defects(judged) == {judged[r] : r \in Requirements} \cap Blocking

FirstDefect(judged) ==
  CHOOSE d \in Defects(judged) : \A e \in Defects(judged) : Severity[d] <= Severity[e]

(***************************************************************************)
(* _derive_first_blocker.  method is what is supplied for the execution of *)
(* a test: nothing, method references, or the full execution authority.    *)
(***************************************************************************)
Methods == {"none", "references", "execution authority"}

FirstBlocker(family, judged, diagnostic, conflict, method) ==
  IF ~diagnostic THEN Evaluation("unresolved", FALSE, "claim class restricted")
  ELSE IF UnmetExternal(family, judged) # {} THEN
    Evaluation("external evidence required", FALSE, "external unmet")
  ELSE IF Defects(judged) # {} THEN
    Evaluation("missing internal evidence", FALSE, FirstDefect(judged))
  ELSE IF conflict THEN Evaluation("unresolved", FALSE, "conflict")
  ELSE IF method = "execution authority" THEN Evaluation("ready", TRUE, "none")
  ELSE Evaluation("ready", FALSE, IF method = "none" THEN "no method" ELSE "no execution authority")

\* A claim that is not diagnostic is judged without evidence, conflict or method.
Govern(family, evidence, diagnostic, conflict, method) ==
  LET judged == Judgments(family, IF diagnostic THEN evidence ELSE <<>>)
  IN [evaluation |-> FirstBlocker(family, judged, diagnostic, conflict, method),
      missing |-> MissingInternal(family, judged),
      unmet |-> UnmetExternal(family, judged)]
\* R6ToR7Handoff refuses anything else.
HandoffIsValid(governed) ==
  LET e == governed.evaluation
  IN IF e.eligible
     THEN e.readiness = "ready" /\ e.blocker = "none" /\ governed.missing = {} /\ governed.unmet = {}
     ELSE e.blocker # "none"
-----------------------------------------------------------------------------
(* resolve_production_pretest_authority *)

\* Every requirement of the product family is met by the canonical dataset and the
\* validated Revenue Change; no other family is resolved.
ProductionEvidence(family, methods) ==
  IF family # "product" \/ ~methods THEN <<>>
  ELSE [r \in Requirements |->
          [availability |-> "present", admission |-> "admitted",
           fitness |-> "passed", origin |-> "governed internal"]]

ProductionMethod(family, methods) ==
  IF family = "product" /\ methods THEN "execution authority" ELSE "none"

\* The evaluation of a proposition as run_r6 has it governed.
ProductionGovern(family, methods) ==
  Govern(family, ProductionEvidence(family, methods), TRUE, FALSE, ProductionMethod(family, methods))
=============================================================================
