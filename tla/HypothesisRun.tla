--------------------------- MODULE HypothesisRun ---------------------------
(***************************************************************************)
(* run_r6: a producer proposes hypotheses about a change in Revenue; each  *)
(* proposal that holds up becomes a proposition, is governed, and is kept  *)
(* as a chain of six records with, if asked for, a handoff to R7.          *)
(*                                                                         *)
(* Records are named after their content, so that a second call with the   *)
(* same input and times finds those of the first, and one with later times *)
(* shares the records that hold no time.  A call may be killed anywhere or *)
(* fail to write, and a record may be damaged; the next call starts over   *)
(* on what is there.  One persist is one step (see AuthorityRecords).      *)
(*                                                                         *)
(* A proposition is one of five: the context leaves no choice but that of  *)
(* the family and of naming the R4 result.  "misbound" is a product        *)
(* proposition one of whose variables was given as a tuple.                *)
(***************************************************************************)
EXTENDS PretestGovernance, Sequences, SequencesExt

CONSTANTS
  Inputs,     \* the calls that may be made
  Directly,   \* the arguments govern_pretest may be given by another caller
  MaxCalls,   \* how many calls are made one after the other
  MaxFaults   \* how many writes fail or records are damaged

Propositions == {"product", "product with R4", "misbound", "discounting", "external"}

FamilyOf(p) == IF p \in {"discounting", "external"} THEN p ELSE "product"

\* What _normalize_and_validate_candidate refuses a proposal for.
ProposalDefects == {"other family", "wrong slots", "other context", "invented", "other sources"}

\* "sourceless" has no source references: it passes every check and cannot be
\* constructed.
Proposals == Propositions \cup ProposalDefects \cup {"sourceless"}

\* What may be wrong with the authorities the call names.
Upstream ==
  {"authentic", "other request", "unknown family", "sufficiency", "plan", "populations",
   "canonical", "revenue change"}

Times == {"earlier", "later"}

\* r4: a decomposition is named, and loads or does not.  batch: what the producer
\* returns; the empty one stands for an exception and a malformed batch too.
ASSUME RunAssumption ==
  /\ Inputs # {}
  /\ Inputs \subseteq
       [upstream : Upstream, r4 : {"none", "loads", "fails"}, activated : BOOLEAN,
        requested : SUBSET Families, batch : SUBSET Proposals, methods : BOOLEAN,
        handoff : BOOLEAN, time : Times]
  /\ \A d \in Directly :
       /\ d.family \in Families /\ d.method \in Methods
       /\ d.diagnostic \in BOOLEAN /\ d.conflict \in BOOLEAN
       /\ d.flaw \in Flaws
       /\ DOMAIN d.evidence \subseteq Requirements
       /\ \A r \in DOMAIN d.evidence : d.evidence[r] \in Assessments
  /\ MaxCalls \in Nat /\ MaxFaults \in Nat

VARIABLES
  input,    \* the arguments of the present call
  pc,       \* what it does next
  todo,     \* accepted propositions still to be governed
  step,     \* how many records of the present chain are persisted
  chains,   \* chains of the outcome: proposition and whether it has a handoff
  refused,  \* propositions govern_pretest refused
  broken,   \* persistence_failed
  status,   \* completion_status, once the call has returned
  held,     \* the records in the store
  spoilt,   \* those that no longer verify
  pretest,  \* the arguments of the last govern_pretest
  calls, faults

outcome == <<chains, refused, broken, status>>
store == <<held, spoilt>>
vars == <<input, pc, todo, step, outcome, store, pretest, calls, faults>>
-----------------------------------------------------------------------------
(* The names of records *)

(* What the semantic fingerprint of each record covers. *)

RawMaterial == <<input.batch>>
PropositionMaterial(p) == <<p>>
ProfileMaterial(p) == <<p, input.methods>>
BundleMaterial(p) == <<p, input.methods>>
EvaluationMaterial(p) == <<p, input.methods, input.time>>
ProvenanceMaterial == <<input.batch, input.time>>
HypothesisMaterial(p) == <<p, input.methods, input.batch, input.time>>
HandoffMaterial(p) == <<p, input.methods, input.batch, input.time>>

Material(kind, p) ==
  CASE kind = "raw" -> RawMaterial
    [] kind = "proposition" -> PropositionMaterial(p)
    [] kind = "profile" -> ProfileMaterial(p)
    [] kind = "bundle" -> BundleMaterial(p)
    [] kind = "evaluation" -> EvaluationMaterial(p)
    [] kind = "provenance" -> ProvenanceMaterial
    [] kind = "hypothesis" -> HypothesisMaterial(p)
    [] kind = "handoff" -> HandoffMaterial(p)

Body(kind, p) == <<kind>> \o Material(kind, p)

\* Mutant: the evaluation is named without the time it was finalized.
NameWithoutTime(kind, p) ==
  IF kind = "evaluation" THEN <<kind, p, input.methods>> ELSE Body(kind, p)

\* The semantic fingerprint of a record, and with it its identity and path, covers
\* all that differs in its body.
Name(kind, p) == Body(kind, p)

Record(kind, p) == [name |-> Name(kind, p), body |-> Body(kind, p)]

RawRecord == Record("raw", "none")

Holds(record) == record \in held \ spoilt

\* Mutant: the hypothesis is persisted before the evaluation it refers to.
ChainHypothesisEarly ==
  <<"proposition", "profile", "bundle", "hypothesis", "provenance", "evaluation">>

Chain == <<"proposition", "profile", "bundle", "evaluation", "provenance", "hypothesis">>

(* The verified reads of R6Repository: each one reads what the record rests on. *)

PropositionLoads(p) == Holds(Record("proposition", p))
ProfileLoads(p) == Holds(Record("profile", p)) /\ PropositionLoads(p)
BundleLoads(p) == Holds(Record("bundle", p))

EvaluationLoads(p) ==
  Holds(Record("evaluation", p)) /\ PropositionLoads(p) /\ ProfileLoads(p) /\ BundleLoads(p)

ProvenanceLoads(p) == Holds(Record("provenance", p)) /\ Holds(RawRecord)

HypothesisLoads(p) ==
  Holds(Record("hypothesis", p)) /\ EvaluationLoads(p) /\ ProvenanceLoads(p)

HandoffLoads(p) == Holds(Record("handoff", p)) /\ HypothesisLoads(p)
-----------------------------------------------------------------------------
Idle ==
  /\ pc = "idle" /\ todo = <<>> /\ step = 0
  /\ chains = {} /\ refused = {} /\ broken = FALSE /\ status = "none"

Init ==
  /\ Idle
  /\ input = CHOOSE i \in Inputs : TRUE  \* there is none before a call
  /\ held = {} /\ spoilt = {}
  /\ pretest = [family |-> "product", evidence |-> <<>>, diagnostic |-> TRUE,
                conflict |-> FALSE, method |-> "none", flaw |-> "none"]
  /\ calls = 0 /\ faults = 0

Call ==
  /\ pc \in {"idle", "returned"} /\ calls < MaxCalls
  /\ input' \in Inputs
  /\ pc' = "context" /\ todo' = <<>> /\ step' = 0
  /\ chains' = {} /\ refused' = {} /\ broken' = FALSE /\ status' = "none"
  /\ calls' = calls + 1
  /\ UNCHANGED <<store, pretest, faults>>

\* The caller gets an outcome.
Return(s) ==
  /\ status' = s /\ pc' = "returned"
  /\ UNCHANGED <<input, todo, step, chains, refused, store, pretest, calls, faults>>

RequestHolds == input.upstream # "other request"
FamiliesAreKnown == input.upstream # "unknown family"
SufficiencyHolds == input.upstream # "sufficiency"
PlanHolds == input.upstream # "plan"
PopulationsHold == input.upstream # "populations"
CanonicalHolds == input.upstream # "canonical"
RevenueChangeHolds == input.upstream # "revenue change"
DecompositionHolds == input.r4 # "fails"

\* An external family must be asked for to be activated.
ActivationHolds == input.activated => "external" \in input.requested

ContextHolds ==
  /\ RequestHolds /\ FamiliesAreKnown /\ SufficiencyHolds /\ PlanHolds /\ PopulationsHold
  /\ CanonicalHolds /\ RevenueChangeHolds /\ DecompositionHolds /\ ActivationHolds

RefuseContext == pc = "context" /\ ~ContextHolds /\ Return("generation failure") /\ UNCHANGED broken

Produce ==
  /\ pc = "context" /\ ContextHolds
  /\ \/ /\ input.batch # {} /\ pc' = "raw"
        /\ UNCHANGED <<input, todo, step, outcome, store, pretest, calls, faults>>
     \/ input.batch = {} /\ Return("generation failure") /\ UNCHANGED broken

\* The file must hold the bytes it is to hold, or not be there.
PersistRaw ==
  /\ pc = "raw" /\ RawRecord \notin spoilt
  /\ held' = held \cup {RawRecord}
  /\ pc' = "construct"
  /\ UNCHANGED <<input, todo, step, outcome, spoilt, pretest, calls, faults>>

RawFails(fault) ==
  /\ pc = "raw" /\ (RawRecord \in spoilt \/ fault)
  /\ status' = "persistence failure" /\ pc' = "returned"
  /\ faults' = IF fault THEN faults + 1 ELSE faults
  /\ UNCHANGED <<input, todo, step, chains, refused, broken, store, pretest, calls>>
-----------------------------------------------------------------------------
(* Propositions *)

FamilyIsPermitted(p) ==
  p # "other family" /\ (FamilyOf(p) = "external" => input.activated)

SlotsHold(p) == p # "wrong slots"
MatchesContext(p) == p # "other context"

\* The context offers a slot for the R4 result only if there is one.
ReferencesAreOffered(p) ==
  p # "invented" /\ (p = "product with R4" => input.r4 = "loads")

SourcesHold(p) == p # "other sources"

Permitted(p) ==
  /\ FamilyIsPermitted(p) /\ SlotsHold(p) /\ MatchesContext(p)
  /\ ReferencesAreOffered(p) /\ SourcesHold(p)

Accepted == {p \in input.batch \ {"sourceless"} : Permitted(p)}

Omitted == input.requested \ {FamilyOf(p) : p \in Accepted}

\* What DiagnosticProposition raises while a candidate is constructed is no
\* GenerationBoundaryError: it leaves the call without an outcome.
Construct ==
  /\ pc = "construct"
  /\ \/ /\ "sourceless" \in input.batch
        /\ pc' = "idle"
        /\ UNCHANGED <<input, todo, step, outcome, store, pretest, calls, faults>>
     \/ /\ "sourceless" \notin input.batch /\ Accepted = {}
        /\ Return("generation failure") /\ UNCHANGED broken
     \/ /\ "sourceless" \notin input.batch /\ Accepted # {}
        /\ todo' \in SetToSeqs(Accepted)  \* sorted by id, a hash
        /\ pc' = "govern"
        /\ UNCHANGED <<input, step, outcome, store, pretest, calls, faults>>

Current == Head(todo)

GovernedAsProduced ==
  [family |-> FamilyOf(Current),
   evidence |-> ProductionEvidence(FamilyOf(Current), input.methods),
   diagnostic |-> TRUE, conflict |-> FALSE,
   method |-> ProductionMethod(FamilyOf(Current), input.methods), flaw |-> "none"]

GovernProposition ==
  /\ pc = "govern" /\ todo # <<>> /\ Current # "misbound"
  /\ pretest' = GovernedAsProduced
  /\ pc' = "persist" /\ step' = 0
  /\ UNCHANGED <<input, todo, outcome, store, calls, faults>>

\* The method's variables are not the proposition's: this one is left out.
RefuseProposition ==
  /\ pc = "govern" /\ todo # <<>> /\ Current = "misbound" /\ input.methods
  /\ refused' = refused \cup {Current}
  /\ todo' = Tail(todo)
  /\ UNCHANGED <<input, pc, step, chains, broken, status, store, pretest, calls, faults>>

\* Without methods the unknown variable is a KeyError that nobody catches.
LoseProposition ==
  /\ pc = "govern" /\ todo # <<>> /\ Current = "misbound" /\ ~input.methods
  /\ pc' = "idle"
  /\ UNCHANGED <<input, todo, step, outcome, store, pretest, calls, faults>>
-----------------------------------------------------------------------------
(* The chain of a proposition *)

Conflict(record) ==
  \/ record \in spoilt
  \/ \E r \in held : r.name = record.name /\ r.body # record.body

Keep(record) == held' = held \cup {record}

\* A record that is there must hold the same bytes and verify.
PersistNext ==
  /\ pc = "persist" /\ step < Len(Chain)
  /\ ~Conflict(Record(Chain[step + 1], Current))
  /\ Keep(Record(Chain[step + 1], Current))
  /\ step' = step + 1
  /\ UNCHANGED <<input, pc, todo, outcome, spoilt, pretest, calls, faults>>

\* R6ArtifactIntegrityError: the chain is not reported and the loop is left.
BreakChain ==
  /\ broken' = TRUE
  /\ pc' = "report"
  /\ UNCHANGED <<input, todo, step, chains, refused, status, store, pretest, calls>>

PersistFails(fault) ==
  /\ pc = "persist" /\ step < Len(Chain)
  /\ Conflict(Record(Chain[step + 1], Current)) \/ fault
  /\ faults' = IF fault THEN faults + 1 ELSE faults
  /\ BreakChain

AppendChain(handoff) ==
  /\ chains' = chains \cup {[proposition |-> Current, handoff |-> handoff]}
  /\ todo' = Tail(todo)
  /\ UNCHANGED <<input, step, refused, status, spoilt, pretest, calls>>

LoadHypothesis ==
  /\ pc = "persist" /\ step = Len(Chain)
  /\ \/ /\ HypothesisLoads(Current) /\ input.handoff
        /\ pc' = "handoff"
        /\ UNCHANGED <<input, todo, step, outcome, store, pretest, calls, faults>>
     \/ /\ HypothesisLoads(Current) /\ ~input.handoff
        /\ AppendChain(FALSE)
        /\ pc' = "govern" /\ UNCHANGED <<broken, held, faults>>
     \/ ~HypothesisLoads(Current) /\ BreakChain /\ UNCHANGED faults

PersistHandoff ==
  /\ pc = "handoff" /\ ~Conflict(Record("handoff", Current))
  /\ HandoffIsValid(ProductionGovern(FamilyOf(Current), input.methods))
  /\ Keep(Record("handoff", Current))
  /\ pc' = "load handoff"
  /\ UNCHANGED <<input, todo, step, outcome, spoilt, pretest, calls, faults>>

LoadHandoff ==
  /\ pc = "load handoff"
  /\ HandoffLoads(Current)
  /\ AppendChain(TRUE)
  /\ pc' = "govern" /\ UNCHANGED <<broken, held, faults>>

\* A failure here keeps the chain and leaves the loop.
HandoffFails(fault) ==
  /\ \/ pc = "handoff" /\ (Conflict(Record("handoff", Current)) \/ fault)
     \/ pc = "load handoff" /\ ~fault /\ ~HandoffLoads(Current)
  /\ AppendChain(FALSE)
  /\ broken' = TRUE /\ pc' = "report"
  /\ faults' = IF fault THEN faults + 1 ELSE faults
  /\ UNCHANGED held
-----------------------------------------------------------------------------
EndOfLoop ==
  /\ pc = "govern" /\ todo = <<>>
  /\ pc' = "report"
  /\ UNCHANGED <<input, todo, step, outcome, store, pretest, calls, faults>>

\* Mutant: a family without a proposition does not count.
FailureWithoutOmissions == refused # {} \/ broken

HasFailure == Omitted # {} \/ refused # {} \/ broken

Status ==
  IF chains # {} THEN (IF HasFailure THEN "partial failure" ELSE "complete")
  ELSE IF broken THEN "persistence failure"
  ELSE IF refused # {} THEN "governance failure"
  ELSE "generation failure"

Report == pc = "report" /\ Return(Status) /\ UNCHANGED broken

Fault == faults < MaxFaults

\* The process dies, or an exception of SQLite's leaves the call.
Kill ==
  /\ pc \notin {"idle", "returned", "governed"}
  /\ pc' = "idle"
  /\ UNCHANGED <<input, todo, step, outcome, store, pretest, calls, faults>>

Damage ==
  /\ Fault /\ faults' = faults + 1
  /\ \E r \in held \ spoilt : spoilt' = spoilt \cup {r}
  /\ UNCHANGED <<input, pc, todo, step, outcome, held, pretest, calls>>

\* govern_pretest on its own: it keeps nothing.
GovernDirectly ==
  /\ pc = "idle" /\ calls = 0
  /\ pretest' \in {d \in Directly : Authenticates(d.flaw, d.family, d.evidence, d.diagnostic)}
  /\ pc' = "governed"
  /\ UNCHANGED <<input, todo, step, outcome, store, calls, faults>>

Next ==
  \/ Call \/ RefuseContext \/ Produce \/ PersistRaw \/ Construct
  \/ GovernProposition \/ RefuseProposition \/ LoseProposition
  \/ PersistNext \/ LoadHypothesis \/ PersistHandoff \/ LoadHandoff
  \/ EndOfLoop \/ Report
  \/ \E fault \in {FALSE, Fault} : RawFails(fault) \/ PersistFails(fault) \/ HandoffFails(fault)
  \/ Kill \/ Damage \/ GovernDirectly

Spec == Init /\ [][Next]_vars
-----------------------------------------------------------------------------
(* Properties *)

Kind(r) == r.body[1]

Bodies(records) == {r.body : r \in records}

\* The records a hypothesis or a handoff refers to, directly or not.
Lineage(r) ==
  LET p == r.body[2]  m == r.body[3]  b == r.body[4]  t == r.body[5]
  IN {<<"proposition", p>>, <<"profile", p, m>>, <<"bundle", p, m>>, <<"evaluation", p, m, t>>,
      <<"provenance", b, t>>, <<"raw", b>>}
     \cup IF Kind(r) = "handoff" THEN {<<"hypothesis", p, m, b, t>>} ELSE {}

TypeOK ==
  /\ input \in Inputs
  /\ todo \in Seq(Propositions) /\ step \in 0..Len(Chain)
  /\ chains \subseteq [proposition : Propositions, handoff : BOOLEAN]
  /\ refused \subseteq Propositions /\ broken \in BOOLEAN
  /\ spoilt \subseteq held
  /\ calls \in 0..MaxCalls /\ faults \in 0..MaxFaults

\* Wherever calls are killed and whatever earlier ones left, a hypothesis or handoff
\* in the store has everything it rests on in the store too.
LineageBeforeHypothesis ==
  \A r \in held : Kind(r) \in {"hypothesis", "handoff"} => Lineage(r) \subseteq Bodies(held)

\* The outcome a call returns says what it did: a chain it names is in the store with
\* its handoff, "complete" means that every requested family and every accepted
\* proposition has one, and only a broken persistence leaves a proposition unmentioned.
OutcomeIsHonest ==
  LET named == {c.proposition : c \in chains}
  IN status # "none" =>
       /\ \A c \in chains :
            /\ Body("hypothesis", c.proposition) \in Bodies(held)
            /\ c.handoff => Body("handoff", c.proposition) \in Bodies(held)
       /\ status = "complete" =>
            /\ named = Accepted /\ input.requested \subseteq {FamilyOf(p) : p \in named}
            /\ \A c \in chains : c.handoff = input.handoff
       /\ (pc = "returned" /\ "raw" \in {Kind(r) : r \in held} /\ chains # {}) =>
            (Accepted \subseteq named \cup refused \/ broken)

\* Nothing that earlier calls left, finished or not, stands in the way of a call: it
\* reports a failed persistence only after a failed write or a damaged record.
OnlyFaultsBreakPersistence == broken \/ status = "persistence failure" => faults > 0

\* A test is eligible only if every requirement of a diagnostic claim is met by
\* governed evidence of its own class that is present, admitted and fit, nothing is in
\* conflict, the execution authority is there, nothing supplied is altered or made for
\* something else, and internal evidence of the family is not known to be missing.
\* Whatever the evaluation, the handoff made of it is one R7's contract accepts.
EligibleOnlyOnGovernedEvidence ==
  LET g == Govern(pretest.family, pretest.evidence, pretest.diagnostic, pretest.conflict,
                  pretest.method)
      own == IF pretest.family = "external" THEN "governed external" ELSE "governed internal"
  IN /\ HandoffIsValid(g)
     /\ g.evaluation.eligible =>
       /\ pretest.diagnostic /\ ~pretest.conflict /\ pretest.method = "execution authority"
       /\ pretest.flaw = "none"
       /\ Dependencies # {} => pretest.family # "discounting"
       /\ \A r \in Requirements :
            /\ r \in DOMAIN pretest.evidence
            /\ pretest.evidence[r] =
                 [availability |-> "present", admission |-> "admitted", fitness |-> "passed",
                  origin |-> own]
=============================================================================
