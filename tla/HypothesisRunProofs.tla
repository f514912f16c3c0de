------------------------ MODULE HypothesisRunProofs ------------------------
(***************************************************************************)
(* Proofs about HypothesisRun, for any calls one after the other, killed   *)
(* anywhere, any number of failed writes and damaged records and any       *)
(* dimensions and dependencies: what is in the store at each step, that    *)
(* the loop loses no proposition, and what govern_pretest makes of any     *)
(* evidence it authenticates.                                              *)
(***************************************************************************)
EXTENDS HypothesisRun, FiniteSetTheorems, SequenceTheorems, TLAPS

Begin == {"context", "raw", "construct"}
Working == {"persist", "handoff", "load handoff"}
InLoop == {"govern"} \cup Working

Named == {c.proposition : c \in chains}

\* A record is named after its body, and damage is counted.
RecordsFit ==
  /\ \A r \in held : r.name = r.body
  /\ LineageBeforeHypothesis
  /\ spoilt # {} => faults > 0

\* What the present call has persisted.
StoreFits ==
  /\ pc \in {"construct", "report"} \cup InLoop => RawRecord \in held
  /\ pc \in Working => todo # <<>> /\ \A i \in 1..step : Record(Chain[i], Current) \in held
  /\ pc \in {"handoff", "load handoff"} => step = Len(Chain)
  /\ pc = "load handoff" => Record("handoff", Current) \in held

\* Every accepted proposition has a chain, was refused or is still to come.
LoopFits ==
  /\ pc \in Begin => chains = {} /\ refused = {} /\ ~broken
  /\ pc \in InLoop => ~broken /\ Accepted = Named \cup refused \cup ToSet(todo)
  /\ pc = "report" => broken \/ Accepted = Named \cup refused
  /\ pc \in {"handoff", "load handoff"} => input.handoff

OutcomeFits ==
  /\ \A c \in chains :
       /\ Record("hypothesis", c.proposition) \in held
       /\ c.handoff => Record("handoff", c.proposition) \in held
  /\ ~broken => \A c \in chains : c.handoff = input.handoff
  /\ broken \/ status = "persistence failure" => faults > 0
  /\ status # "none" => pc = "returned" /\ (chains = {} \/ broken \/ Accepted = Named \cup refused)
  /\ status = "complete" => chains # {} /\ ~HasFailure

\* What govern_pretest was given, it has authenticated.
PretestFits ==
  /\ pretest.family \in Families /\ pretest.diagnostic \in BOOLEAN /\ pretest.flaw \in Flaws
  /\ \A r \in DOMAIN pretest.evidence : pretest.evidence[r] \in Assessments
  /\ Authenticates(pretest.flaw, pretest.family, pretest.evidence, pretest.diagnostic)

IInv == TypeOK /\ RecordsFit /\ StoreFits /\ LoopFits /\ OutcomeFits /\ PretestFits

-----------------------------------------------------------------------------
(* Records *)

\* A tuple is put together from its head and the rest.
LEMMA ConsTuple ==
  ASSUME NEW S, NEW a \in S, NEW s \in Seq(S), NEW t \in Seq(S), Len(t) = Len(s) + 1, t[1] = a,
         \A i \in 1..Len(s) : t[i + 1] = s[i]
  PROVE  <<a>> \o s = t
<1> DEFINE u == <<a>> \o s
<1>1. <<a>> \in Seq(S) /\ Len(<<a>>) = 1 /\ <<a>>[1] = a
  OBVIOUS
<1>2. u \in Seq(S) /\ Len(u) = Len(s) + 1
  BY <1>1, ConcatProperties
<1>3. ASSUME NEW i \in 1..Len(u) PROVE u[i] = t[i]
  <2>1. CASE i = 1
    BY <1>1, <1>2, <2>1, ConcatProperties
  <2>2. CASE i # 1
    <3>1. u[i] = s[i - 1]
      BY <1>1, <1>2, <2>2, ConcatProperties
    <3>2. t[(i - 1) + 1] = s[i - 1]
      BY <1>2, <2>2
    <3> QED BY <3>1, <3>2
  <2> QED BY <2>1, <2>2
<1> HIDE DEF u
<1> QED BY <1>2, <1>3, SeqEqual DEF u

LEMMA TupleConcat ==
  /\ \A a, b : <<a>> \o <<b>> = <<a, b>>
  /\ \A a, b, c : <<a>> \o <<b, c>> = <<a, b, c>>
  /\ \A a, b, c, d : <<a>> \o <<b, c, d>> = <<a, b, c, d>>
  /\ \A a, b, c, d, e : <<a>> \o <<b, c, d, e>> = <<a, b, c, d, e>>
<1>1. ASSUME NEW a, NEW b PROVE <<a>> \o <<b>> = <<a, b>>
  <2> DEFINE S == {a, b}
  <2>1. <<b>> \in Seq(S) /\ <<a, b>> \in Seq(S) /\ a \in S
    OBVIOUS
  <2>2. Len(<<a, b>>) = Len(<<b>>) + 1 /\ <<a, b>>[1] = a /\ \A i \in 1..Len(<<b>>) : <<a, b>>[i + 1] = <<b>>[i]
    OBVIOUS
  <2> HIDE DEF S
  <2> QED BY <2>1, <2>2, ConsTuple
<1>2. ASSUME NEW a, NEW b, NEW c PROVE <<a>> \o <<b, c>> = <<a, b, c>>
  <2> DEFINE S == {a, b, c}
  <2>1. <<b, c>> \in Seq(S) /\ <<a, b, c>> \in Seq(S) /\ a \in S
    OBVIOUS
  <2>2. Len(<<a, b, c>>) = Len(<<b, c>>) + 1 /\ <<a, b, c>>[1] = a /\ \A i \in 1..Len(<<b, c>>) : <<a, b, c>>[i + 1] = <<b, c>>[i]
    OBVIOUS
  <2> HIDE DEF S
  <2> QED BY <2>1, <2>2, ConsTuple
<1>3. ASSUME NEW a, NEW b, NEW c, NEW d PROVE <<a>> \o <<b, c, d>> = <<a, b, c, d>>
  <2> DEFINE S == {a, b, c, d}
  <2>1. <<b, c, d>> \in Seq(S) /\ <<a, b, c, d>> \in Seq(S) /\ a \in S
    OBVIOUS
  <2>2. Len(<<a, b, c, d>>) = Len(<<b, c, d>>) + 1 /\ <<a, b, c, d>>[1] = a /\ \A i \in 1..Len(<<b, c, d>>) : <<a, b, c, d>>[i + 1] = <<b, c, d>>[i]
    OBVIOUS
  <2> HIDE DEF S
  <2> QED BY <2>1, <2>2, ConsTuple
<1>4. ASSUME NEW a, NEW b, NEW c, NEW d, NEW e PROVE <<a>> \o <<b, c, d, e>> = <<a, b, c, d, e>>
  <2> DEFINE S == {a, b, c, d, e}
  <2>1. <<b, c, d, e>> \in Seq(S) /\ <<a, b, c, d, e>> \in Seq(S) /\ a \in S
    OBVIOUS
  <2>2. Len(<<a, b, c, d, e>>) = Len(<<b, c, d, e>>) + 1 /\ <<a, b, c, d, e>>[1] = a /\ \A i \in 1..Len(<<b, c, d, e>>) : <<a, b, c, d, e>>[i + 1] = <<b, c, d, e>>[i]
    OBVIOUS
  <2> HIDE DEF S
  <2> QED BY <2>1, <2>2, ConsTuple
<1> QED BY <1>1, <1>2, <1>3, <1>4

LEMMA MaterialFacts ==
  ASSUME NEW p
  PROVE  /\ Material("raw", p) = <<input.batch>>
         /\ Material("proposition", p) = <<p>>
         /\ Material("profile", p) = <<p, input.methods>>
         /\ Material("bundle", p) = <<p, input.methods>>
         /\ Material("evaluation", p) = <<p, input.methods, input.time>>
         /\ Material("provenance", p) = <<input.batch, input.time>>
         /\ Material("hypothesis", p) = <<p, input.methods, input.batch, input.time>>
         /\ Material("handoff", p) = <<p, input.methods, input.batch, input.time>>
BY DEF Material, RawMaterial, PropositionMaterial, ProfileMaterial, BundleMaterial, EvaluationMaterial,
       ProvenanceMaterial, HypothesisMaterial, HandoffMaterial

LEMMA BodyFacts ==
  ASSUME NEW p
  PROVE  /\ Body("raw", p) = <<"raw", input.batch>>
         /\ Body("proposition", p) = <<"proposition", p>>
         /\ Body("profile", p) = <<"profile", p, input.methods>>
         /\ Body("bundle", p) = <<"bundle", p, input.methods>>
         /\ Body("evaluation", p) = <<"evaluation", p, input.methods, input.time>>
         /\ Body("provenance", p) = <<"provenance", input.batch, input.time>>
         /\ Body("hypothesis", p) = <<"hypothesis", p, input.methods, input.batch, input.time>>
         /\ Body("handoff", p) = <<"handoff", p, input.methods, input.batch, input.time>>
<1>1. Body("raw", p) = <<"raw", input.batch>>
  <2>1. Body("raw", p) = <<"raw">> \o <<input.batch>>
    BY MaterialFacts DEF Body
  <2> QED BY <2>1, TupleConcat
<1>2. Body("proposition", p) = <<"proposition", p>>
  <2>1. Body("proposition", p) = <<"proposition">> \o <<p>>
    BY MaterialFacts DEF Body
  <2> QED BY <2>1, TupleConcat
<1>3. Body("profile", p) = <<"profile", p, input.methods>>
  <2>1. Body("profile", p) = <<"profile">> \o <<p, input.methods>>
    BY MaterialFacts DEF Body
  <2> QED BY <2>1, TupleConcat
<1>4. Body("bundle", p) = <<"bundle", p, input.methods>>
  <2>1. Body("bundle", p) = <<"bundle">> \o <<p, input.methods>>
    BY MaterialFacts DEF Body
  <2> QED BY <2>1, TupleConcat
<1>5. Body("evaluation", p) = <<"evaluation", p, input.methods, input.time>>
  <2>1. Body("evaluation", p) = <<"evaluation">> \o <<p, input.methods, input.time>>
    BY MaterialFacts DEF Body
  <2> QED BY <2>1, TupleConcat
<1>6. Body("provenance", p) = <<"provenance", input.batch, input.time>>
  <2>1. Body("provenance", p) = <<"provenance">> \o <<input.batch, input.time>>
    BY MaterialFacts DEF Body
  <2> QED BY <2>1, TupleConcat
<1>7. Body("hypothesis", p) = <<"hypothesis", p, input.methods, input.batch, input.time>>
  <2>1. Body("hypothesis", p) = <<"hypothesis">> \o <<p, input.methods, input.batch, input.time>>
    BY MaterialFacts DEF Body
  <2> QED BY <2>1, TupleConcat
<1>8. Body("handoff", p) = <<"handoff", p, input.methods, input.batch, input.time>>
  <2>1. Body("handoff", p) = <<"handoff">> \o <<p, input.methods, input.batch, input.time>>
    BY MaterialFacts DEF Body
  <2> QED BY <2>1, TupleConcat
<1> QED BY <1>1, <1>2, <1>3, <1>4, <1>5, <1>6, <1>7, <1>8

LEMMA ChainFacts ==
  /\ Len(Chain) = 6 /\ DOMAIN Chain = 1..6
  /\ Chain[1] = "proposition" /\ Chain[2] = "profile" /\ Chain[3] = "bundle"
  /\ Chain[4] = "evaluation" /\ Chain[5] = "provenance" /\ Chain[6] = "hypothesis"
BY DEF Chain

\* The kinds of the records of a chain and its handoff.
LEMMA KindFacts ==
  ASSUME NEW p, NEW kind \in {Chain[i] : i \in 1..6} \cup {"raw", "handoff"}
  PROVE  Kind(Record(kind, p)) = kind /\ Record(kind, p).name = Record(kind, p).body
         /\ Record(kind, p).body = Body(kind, p)
BY BodyFacts, ChainFacts DEF Kind, Record, Name

\* Without a fault no record conflicts: a name is a body.
LEMMA NoConflict ==
  ASSUME IInv, NEW kind, NEW p, Conflict(Record(kind, p))
  PROVE  faults > 0
BY DEF Conflict, IInv, RecordsFit, Record, Name

\* A store that has gained records that need nothing, or have what they need.
LEMMA RecordKept ==
  ASSUME IInv, NEW p, NEW kind \in {Chain[i] : i \in 1..6} \cup {"raw", "handoff"},
         held' = held \cup {Record(kind, p)}, spoilt' = spoilt, faults' = faults,
         kind \in {"hypothesis", "handoff"} => Lineage(Record(kind, p)) \subseteq Bodies(held)
  PROVE  RecordsFit'
<1>1. \A r \in held' : r.name = r.body
  BY KindFacts DEF IInv, RecordsFit
<1>2. Bodies(held) \subseteq Bodies(held')
  BY DEF Bodies
<1>3. \A r \in held' : Kind(r) \in {"hypothesis", "handoff"} => Lineage(r) \subseteq Bodies(held')
  BY <1>2, KindFacts DEF IInv, RecordsFit, LineageBeforeHypothesis
<1>4. spoilt' # {} => faults' > 0
  BY DEF IInv, RecordsFit
<1> QED BY <1>1, <1>3, <1>4 DEF RecordsFit, LineageBeforeHypothesis, Bodies, Kind, Lineage

\* A call that has persisted its chain finds what the hypothesis rests on.
LEMMA LineageHeld ==
  ASSUME NEW p, RawRecord \in held, \A i \in 1..5 : Record(Chain[i], p) \in held
  PROVE  /\ Lineage(Record("hypothesis", p)) \subseteq Bodies(held)
         /\ Record("hypothesis", p) \in held => Lineage(Record("handoff", p)) \subseteq Bodies(held)
<1> DEFINE m == input.methods  b == input.batch  t == input.time
<1>1. \A r \in held : r.body \in Bodies(held)
  BY DEF Bodies
<1>2. <<"raw", b>> \in Bodies(held)
  BY <1>1, BodyFacts DEF RawRecord, Record
<1>3. \A i \in 1..5 : Body(Chain[i], p) \in Bodies(held)
  BY <1>1 DEF Record
<1>4. {<<"proposition", p>>, <<"profile", p, m>>, <<"bundle", p, m>>, <<"evaluation", p, m, t>>,
       <<"provenance", b, t>>, <<"raw", b>>} \subseteq Bodies(held)
  BY <1>2, <1>3, BodyFacts, ChainFacts
<1>5. Record("hypothesis", p) \in held => <<"hypothesis", p, m, b, t>> \in Bodies(held)
  BY <1>1, BodyFacts DEF Record
<1>6. Record("hypothesis", p).body = <<"hypothesis", p, m, b, t>> /\ Record("handoff", p).body = <<"handoff", p, m, b, t>>
  BY BodyFacts DEF Record
<1> QED BY <1>4, <1>5, <1>6 DEF Lineage, Kind

-----------------------------------------------------------------------------
(* Propositions *)

LEMMA AcceptedFacts ==
  ASSUME input \in Inputs
  PROVE  Accepted \subseteq Propositions /\ IsFiniteSet(Accepted)
<1>1. input.batch \subseteq Proposals
  BY RunAssumption
<1>2. Accepted \subseteq Propositions
  BY <1>1 DEF Accepted, Permitted, FamilyIsPermitted, SlotsHold, MatchesContext, ReferencesAreOffered, SourcesHold,
              Proposals, ProposalDefects
<1>3. IsFiniteSet(Propositions)
  <2>1. IsFiniteSet({} \cup {"product"} \cup {"product with R4"})
    BY FS_EmptySet, FS_AddElement
  <2>2. IsFiniteSet({} \cup {"product"} \cup {"product with R4"} \cup {"misbound"} \cup {"discounting"})
    BY <2>1, FS_AddElement
  <2>3. IsFiniteSet({} \cup {"product"} \cup {"product with R4"} \cup {"misbound"} \cup {"discounting"} \cup {"external"})
    BY <2>2, FS_AddElement
  <2>4. Propositions =
          {} \cup {"product"} \cup {"product with R4"} \cup {"misbound"} \cup {"discounting"} \cup {"external"}
    BY DEF Propositions
  <2> QED BY <2>3, <2>4
<1> QED BY <1>2, <1>3, FS_Subset

\* An arrangement of a set in a sequence leaves nothing out.
LEMMA ArrangementFacts ==
  ASSUME NEW S, IsFiniteSet(S), NEW s \in SetToSeqs(S)
  PROVE  s \in Seq(S) /\ ToSet(s) = S
<1> DEFINE D == 1..Cardinality(S)
<1>1. s \in [D -> S] /\ \A i, j \in D : i # j => s[i] # s[j]
  BY DEF SetToSeqs
<1>2. Cardinality(S) \in Nat /\ Cardinality(D) = Cardinality(S)
  <2>1. Cardinality(S) \in Nat
    BY FS_CardinalityType
  <2>2. Cardinality(D) = IF 1 > Cardinality(S) THEN 0 ELSE Cardinality(S) - 1 + 1
    BY <2>1, FS_Interval
  <2> QED BY <2>1, <2>2
<1>3. s \in Seq(S)
  BY <1>1, <1>2, SeqDef
<1>4. s \in Injection(D, S)
  BY <1>1 DEF Injection, IsInjective
<1>5. s \in Surjection(D, S)
  BY <1>2, <1>4, FS_Injection
<1>6. \A x \in S : \E i \in D : s[i] = x
  BY <1>5 DEF Surjection
<1> QED BY <1>1, <1>3, <1>6 DEF ToSet

LEMMA TodoFacts ==
  ASSUME todo \in Seq(Propositions), todo # <<>>
  PROVE  /\ Current \in Propositions /\ Tail(todo) \in Seq(Propositions)
         /\ ToSet(todo) = {Current} \cup ToSet(Tail(todo))
<1>1. Current = todo[1] /\ 1 \in DOMAIN todo /\ todo[1] \in Propositions
  BY DEF Current
<1>2. /\ Tail(todo) \in Seq(Propositions) /\ Len(Tail(todo)) = Len(todo) - 1 /\ Len(todo) \in Nat
      /\ \A i \in 1..Len(Tail(todo)) : Tail(todo)[i] = todo[i + 1]
  BY HeadTailProperties
<1>3. ToSet(todo) = {todo[i] : i \in 1..Len(todo)} /\ ToSet(Tail(todo)) = {Tail(todo)[i] : i \in 1..Len(Tail(todo))}
  <2>1. \A s \in Seq(Propositions) : DOMAIN s = 1..Len(s)
    OBVIOUS
  <2>2. DOMAIN todo = 1..Len(todo) /\ DOMAIN Tail(todo) = 1..Len(Tail(todo))
    BY <1>2, <2>1
  <2> QED BY <2>2 DEF ToSet
<1>4. \A i \in 1..Len(todo) : i # 1 => i - 1 \in 1..Len(Tail(todo)) /\ todo[i] = Tail(todo)[i - 1]
  BY <1>2
<1>5. \A i \in 1..Len(Tail(todo)) : i + 1 \in 1..Len(todo)
  BY <1>2
<1>6. ASSUME NEW x \in ToSet(todo) PROVE x \in {Current} \cup ToSet(Tail(todo))
  BY <1>1, <1>3, <1>4
<1>7. \A x \in ToSet(Tail(todo)) : x \in ToSet(todo)
  BY <1>2, <1>3, <1>5
<1>8. Current \in ToSet(todo)
  BY <1>1, <1>2, <1>3
<1> QED BY <1>1, <1>2, <1>6, <1>7, <1>8

\* What follows from the arguments of a call alone.
LEMMA CallKept ==
  ASSUME input' = input
  PROVE  /\ Accepted' = Accepted /\ Omitted' = Omitted /\ RawRecord' = RawRecord
         /\ \A kind, p : Record(kind, p)' = Record(kind, p)
BY DEF Accepted, Omitted, Permitted, FamilyIsPermitted, SlotsHold, MatchesContext, ReferencesAreOffered, SourcesHold,
       RawRecord, Record, Name, Body, Material, RawMaterial, PropositionMaterial, ProfileMaterial, BundleMaterial,
       EvaluationMaterial, ProvenanceMaterial, HypothesisMaterial, HandoffMaterial

-----------------------------------------------------------------------------
(* govern_pretest *)

\* The judgment of an assessment the contract accepts.
LEMMA OutcomeFacts ==
  ASSUME NEW a \in Assessments, NEW class \in {"internal", "external"}
  PROVE  /\ Outcome(a, class) \in Blocking \cup {"satisfied", "external unmet"}
         /\ class = "internal" => Outcome(a, class) # "external unmet"
         /\ Outcome(a, class) = "satisfied" =>
              a \in [availability : {"present"}, admission : {"admitted"}, fitness : {"passed"},
                     origin : {"governed internal", "governed external"}]
BY DEF Assessments, Origins, Outcome, Missing, Blocking

LEMMA ClassFacts ==
  ASSUME NEW family
  PROVE  ClassOf(family) \in {"internal", "external"} /\ (ClassOf(family) = "external" <=> family = "external")
BY DEF ClassOf

\* What no evidence can meet.
Unknowable(family, r) == family = "discounting" /\ r \in Dependencies

\* What is not a defect satisfies its requirement.
LEMMA JudgedFacts ==
  ASSUME NEW family, NEW evidence, \A r \in DOMAIN evidence : evidence[r] \in Assessments, NEW r \in Requirements
  PROVE  /\ Judgments(family, evidence)[r] \in Blocking \cup {"satisfied", "external unmet"}
         /\ Judgments(family, evidence)[r] = "external unmet" => ClassOf(family) = "external"
         /\ Judgments(family, evidence)[r] = "satisfied" =>
              /\ r \in DOMAIN evidence
              /\ evidence[r] \in [availability : {"present"}, admission : {"admitted"}, fitness : {"passed"},
                                  origin : {"governed internal", "governed external"}]
              /\ ~Unknowable(family, r)
<1> DEFINE class == ClassOf(family)
<1>1. Judgments(family, evidence)[r] = Judgment(family, evidence, r)
  BY DEF Judgments
<1>2. class \in {"internal", "external"} /\ (class = "external" <=> family = "external")
  BY ClassFacts
<1>3. Missing(class) \in {"missing", "external unmet"} /\ (Missing(class) = "external unmet" => class = "external")
  BY <1>2 DEF Missing
<1>4. CASE r \notin DOMAIN evidence \/ Dropped(family, r, evidence[r])
  <2>1. Judgments(family, evidence)[r] = Missing(class)
    BY <1>1, <1>4 DEF Judgment
  <2> HIDE DEF class
  <2> QED BY <1>3, <2>1 DEF Blocking, class
<1>5. CASE r \in DOMAIN evidence /\ ~Dropped(family, r, evidence[r])
  <2>1. Judgments(family, evidence)[r] = Outcome(evidence[r], class) /\ evidence[r] \in Assessments
    BY <1>1, <1>5 DEF Judgment
  <2>2. Outcome(evidence[r], class) = "satisfied" => ~Unknowable(family, r)
    BY <1>5 DEF Dropped, Unknowable
  <2> QED BY <1>2, <1>5, <2>1, <2>2, OutcomeFacts
<1> QED BY <1>4, <1>5

\* There is a most severe defect if there is any.
LEMMA DefectFacts ==
  ASSUME NEW judged, Defects(judged) # {}
  PROVE  FirstDefect(judged) \in Blocking
<1> DEFINE D == Defects(judged)
<1>1. /\ Severity["failed"] = 0 /\ Severity["missing"] = 1
      /\ Severity["unresolved"] = 2 /\ Severity["inadmissible"] = 3
  BY DEF Severity
<1>2. D \subseteq {"failed", "missing", "unresolved", "inadmissible"}
  BY DEF Defects, Blocking
<1>3. \E d \in D : \A e \in D : Severity[d] <= Severity[e]
  <2>1. CASE "failed" \in D
    BY <1>1, <1>2, <2>1
  <2>2. CASE "failed" \notin D /\ "missing" \in D
    BY <1>1, <1>2, <2>2
  <2>3. CASE "failed" \notin D /\ "missing" \notin D /\ "unresolved" \in D
    BY <1>1, <1>2, <2>3
  <2>4. CASE D = {"inadmissible"}
    BY <1>1, <2>4
  <2> QED BY <1>2, <2>1, <2>2, <2>3, <2>4
<1>4. FirstDefect(judged) \in D
  BY <1>3 DEF FirstDefect
<1> QED BY <1>4 DEF Defects

\* Evidence that leaves no defect satisfies every requirement.
LEMMA NoDefectFacts ==
  ASSUME NEW family, NEW evidence, \A r \in DOMAIN evidence : evidence[r] \in Assessments,
         UnmetExternal(family, Judgments(family, evidence)) = {}, Defects(Judgments(family, evidence)) = {}
  PROVE  /\ \A r \in Requirements : Judgments(family, evidence)[r] = "satisfied"
         /\ MissingInternal(family, Judgments(family, evidence)) = {}
<1>1. \A r \in Requirements : Judgments(family, evidence)[r] \notin Blocking
  BY DEF Defects
<1>2. \A r \in Requirements : Judgments(family, evidence)[r] # "external unmet"
  <2>1. \A r \in Requirements : Judgments(family, evidence)[r] = "external unmet" => ClassOf(family) = "external"
    BY JudgedFacts
  <2>2. \A r \in Requirements : ClassOf(family) # "external" \/ Judgments(family, evidence)[r] # "external unmet"
    BY DEF UnmetExternal
  <2> QED BY <2>1, <2>2, ClassFacts
<1>3. \A r \in Requirements : Judgments(family, evidence)[r] = "satisfied"
  <2>1. \A r \in Requirements : Judgments(family, evidence)[r] \in Blocking \cup {"satisfied", "external unmet"}
    BY JudgedFacts
  <2> QED BY <1>1, <1>2, <2>1
<1> QED BY <1>1, <1>3 DEF MissingInternal

LEMMA ReadyFacts ==
  ASSUME NEW e, e = Evaluation("ready", TRUE, "none")
  PROVE  e.eligible /\ e.readiness = "ready" /\ e.blocker = "none"
BY DEF Evaluation

\* An evaluation with a blocker is not eligible and makes a valid handoff.
LEMMA BlockedFacts ==
  ASSUME NEW g, NEW readiness, NEW blocker, blocker # "none",
         g.evaluation = Evaluation(readiness, FALSE, blocker)
  PROVE  HandoffIsValid(g) /\ ~g.evaluation.eligible
BY DEF Evaluation, HandoffIsValid

\* What is authenticated and judged so well is evidence of the family's own class.
LEMMA GovernFacts ==
  ASSUME PretestFits
  PROVE  EligibleOnlyOnGovernedEvidence
<1> DEFINE family == pretest.family
           supplied == IF pretest.diagnostic THEN pretest.evidence ELSE <<>>
           judged == Judgments(family, supplied)
           g == Govern(family, pretest.evidence, pretest.diagnostic, pretest.conflict, pretest.method)
           own == IF family = "external" THEN "governed external" ELSE "governed internal"
<1>1. \A r \in DOMAIN supplied : supplied[r] \in Assessments
  <2>1. DOMAIN <<>> = {}
    OBVIOUS
  <2> QED BY <2>1 DEF PretestFits
<1>2. /\ g.evaluation = FirstBlocker(family, judged, pretest.diagnostic, pretest.conflict, pretest.method)
      /\ g.missing = MissingInternal(family, judged) /\ g.unmet = UnmetExternal(family, judged)
  BY DEF Govern
<1> HIDE DEF g, judged, supplied
<1>3. CASE ~pretest.diagnostic
  <2>1. g.evaluation = Evaluation("unresolved", FALSE, "claim class restricted")
    BY <1>2, <1>3 DEF FirstBlocker
  <2>2. HandoffIsValid(g) /\ ~g.evaluation.eligible
    BY <2>1, BlockedFacts
  <2> QED BY <2>2 DEF EligibleOnlyOnGovernedEvidence, g
<1>4. CASE pretest.diagnostic /\ UnmetExternal(family, judged) # {}
  <2>1. g.evaluation = Evaluation("external evidence required", FALSE, "external unmet")
    BY <1>2, <1>4 DEF FirstBlocker, PretestFits
  <2>2. HandoffIsValid(g) /\ ~g.evaluation.eligible
    BY <2>1, BlockedFacts
  <2> QED BY <2>2 DEF EligibleOnlyOnGovernedEvidence, g
<1>5. CASE pretest.diagnostic /\ UnmetExternal(family, judged) = {} /\ Defects(judged) # {}
  <2>1. g.evaluation = Evaluation("missing internal evidence", FALSE, FirstDefect(judged))
    BY <1>2, <1>5 DEF FirstBlocker, PretestFits
  <2>2. FirstDefect(judged) # "none"
    BY <1>5, DefectFacts DEF Blocking
  <2>3. HandoffIsValid(g) /\ ~g.evaluation.eligible
    BY <2>1, <2>2, BlockedFacts
  <2> QED BY <2>3 DEF EligibleOnlyOnGovernedEvidence, g
<1>6. CASE pretest.diagnostic /\ UnmetExternal(family, judged) = {} /\ Defects(judged) = {}
  <2>1. /\ \A r \in Requirements : judged[r] = "satisfied"
        /\ g.missing = {} /\ g.unmet = {} /\ supplied = pretest.evidence
    BY <1>1, <1>2, <1>6, NoDefectFacts DEF judged, supplied
  <2>2. \/ /\ ~pretest.conflict /\ pretest.method = "execution authority"
           /\ g.evaluation = Evaluation("ready", TRUE, "none")
        \/ \E readiness \in {"unresolved", "ready"}, b \in {"conflict", "no method", "no execution authority"} :
              g.evaluation = Evaluation(readiness, FALSE, b)
    BY <1>2, <1>6 DEF FirstBlocker, PretestFits
  <2>3. /\ HandoffIsValid(g)
        /\ g.evaluation.eligible => ~pretest.conflict /\ pretest.method = "execution authority"
    <3>1. CASE /\ ~pretest.conflict /\ pretest.method = "execution authority"
               /\ g.evaluation = Evaluation("ready", TRUE, "none")
      <4>1. g.evaluation.eligible /\ g.evaluation.readiness = "ready" /\ g.evaluation.blocker = "none"
        BY <3>1, ReadyFacts
      <4> QED BY <2>1, <3>1, <4>1 DEF HandoffIsValid
    <3>2. ASSUME NEW readiness \in {"unresolved", "ready"},
                 NEW b \in {"conflict", "no method", "no execution authority"},
                 g.evaluation = Evaluation(readiness, FALSE, b)
          PROVE  HandoffIsValid(g) /\ ~g.evaluation.eligible
      BY <3>2, BlockedFacts
    <3> QED BY <2>2, <3>1, <3>2
  <2>4. ASSUME g.evaluation.eligible
        PROVE  /\ pretest.diagnostic /\ ~pretest.conflict /\ pretest.method = "execution authority"
               /\ pretest.flaw = "none"
               /\ Dependencies # {} => family # "discounting"
               /\ \A r \in Requirements :
                    /\ r \in DOMAIN pretest.evidence
                    /\ pretest.evidence[r] = [availability |-> "present", admission |-> "admitted",
                                              fitness |-> "passed", origin |-> own]
    <3>1. ~pretest.conflict /\ pretest.method = "execution authority"
      BY <2>3, <2>4
    <3>2. pretest.flaw = "none" /\ Authentic(family, pretest.evidence)
      BY <1>6 DEF PretestFits, Authenticates, Flaws, RegistryIntact, RegistryCurrent, Registered, PropositionHolds,
         ContextOfPropositionHolds, TemplateHolds, CandidateHolds, MethodsHold, ExecutionAuthorityHolds,
         AssessmentIntact, AssessmentOfProposition, ConflictHolds
    <3>3. ASSUME NEW r \in Requirements
          PROVE  /\ r \in DOMAIN pretest.evidence /\ ~Unknowable(family, r)
                 /\ pretest.evidence[r] \in [availability : {"present"}, admission : {"admitted"}, fitness : {"passed"},
                                             origin : {"governed internal", "governed external"}]
      <4>1. \A q \in Requirements :
              Judgments(family, supplied)[q] = "satisfied" =>
                 /\ q \in DOMAIN supplied
                 /\ supplied[q] \in [availability : {"present"}, admission : {"admitted"}, fitness : {"passed"},
                                     origin : {"governed internal", "governed external"}]
                 /\ ~Unknowable(family, q)
        BY <1>1, JudgedFacts
      <4> QED BY <2>1, <4>1 DEF judged
    <3>4. ASSUME NEW r \in Requirements PROVE pretest.evidence[r].origin = own
      BY <3>2, <3>3, ClassFacts DEF Authentic, OriginsFor
    <3>5. Dependencies # {} => family # "discounting"
      BY <3>3 DEF Requirements, Unknowable
    <3>6. \A r \in Requirements :
            pretest.evidence[r] = [availability |-> "present", admission |-> "admitted", fitness |-> "passed", origin |-> own]
      BY <3>3, <3>4
    <3> QED BY <1>6, <3>1, <3>2, <3>3, <3>5, <3>6
  <2> QED BY <2>3, <2>4 DEF EligibleOnlyOnGovernedEvidence, g
<1> QED BY <1>3, <1>4, <1>5, <1>6 DEF PretestFits

-----------------------------------------------------------------------------
(* The invariant *)

LEMMA InitInv == Init => IInv
<1> SUFFICES ASSUME Init PROVE IInv
  OBVIOUS
<1> USE DEF Init, Idle
<1>1. TypeOK
  <2>1. input \in Inputs
    BY RunAssumption
  <2>2. 0 \in 0..Len(Chain) /\ 0 \in 0..MaxCalls /\ 0 \in 0..MaxFaults
    BY RunAssumption, ChainFacts
  <2>3. todo \in Seq(Propositions)
    OBVIOUS
  <2>6. broken \in BOOLEAN
    OBVIOUS
  <2>4. step \in 0..Len(Chain) /\ calls \in 0..MaxCalls /\ faults \in 0..MaxFaults
    BY <2>2
  <2>5. chains \subseteq [proposition : Propositions, handoff : BOOLEAN] /\ refused \subseteq Propositions
        /\ spoilt \subseteq held
    OBVIOUS
  <2> QED BY <2>1, <2>3, <2>4, <2>5, <2>6 DEF TypeOK
<1>2. RecordsFit
  BY DEF RecordsFit, LineageBeforeHypothesis
<1>3. StoreFits /\ LoopFits /\ OutcomeFits
  BY DEF StoreFits, LoopFits, OutcomeFits, InLoop, Working, Begin
<1>4. PretestFits
  <2>1. DOMAIN <<>> = {}
    OBVIOUS
  <2> QED BY <2>1 DEF PretestFits, Families, Flaws, Authenticates, Authentic, RegistryIntact, RegistryCurrent, Registered,
       PropositionHolds, ContextOfPropositionHolds, TemplateHolds, CandidateHolds, MethodsHold, ExecutionAuthorityHolds,
       AssessmentIntact, AssessmentOfProposition, ConflictHolds
<1> QED BY <1>1, <1>2, <1>3, <1>4 DEF IInv

\* A step that leaves the store alone.
LEMMA StoreKept ==
  ASSUME IInv, held' = held, spoilt' = spoilt, faults > 0 => faults' > 0
  PROVE  RecordsFit'
BY DEF IInv, RecordsFit, LineageBeforeHypothesis, Lineage, Bodies, Kind

\* A step within a call that leaves its outcome alone.
LEMMA OutcomeKept ==
  ASSUME IInv, UNCHANGED <<input, outcome>>, held \subseteq held', faults > 0 => faults' > 0,
         pc # "returned" \/ pc' = pc
  PROVE  OutcomeFits'
<1>1. /\ input' = input /\ chains' = chains /\ refused' = refused /\ broken' = broken /\ status' = status
  BY DEF outcome
<1>2. status # "none" => pc' = "returned"
  BY DEF IInv, OutcomeFits
<1>3. Named' = Named /\ HasFailure' = HasFailure /\ Accepted' = Accepted
  BY <1>1, CallKept DEF Named, HasFailure
<1>4. \A c \in chains' : /\ Record("hypothesis", c.proposition)' \in held'
                         /\ c.handoff => Record("handoff", c.proposition)' \in held'
  BY <1>1, CallKept DEF IInv, OutcomeFits
<1> QED BY <1>1, <1>2, <1>3, <1>4 DEF IInv, OutcomeFits

LEMMA PretestKept ==
  ASSUME IInv, pretest' = pretest
  PROVE  PretestFits'
BY DEF IInv, PretestFits

\* Outside of the loop nothing is owed.
LEMMA NothingOwed ==
  ASSUME pc' \in {"idle", "returned", "governed"}
  PROVE  StoreFits' /\ LoopFits'
BY DEF StoreFits, LoopFits, Begin, InLoop, Working

LEMMA FaultFacts ==
  ASSUME IInv, NEW fault \in {FALSE, Fault}, faults' = IF fault THEN faults + 1 ELSE faults
  PROVE  faults' \in 0..MaxFaults /\ (fault \/ faults > 0 => faults' > 0)
<1>1. faults \in 0..MaxFaults /\ MaxFaults \in Nat
  BY RunAssumption DEF IInv, TypeOK
<1>2. CASE fault
  <2>1. faults < MaxFaults /\ faults' = faults + 1
    BY <1>2 DEF Fault
  <2> QED BY <1>1, <2>1
<1>3. CASE ~fault
  BY <1>1, <1>3
<1> QED BY <1>2, <1>3

\* A chain whose records are all there loads unless one was damaged.
LEMMA LoadFacts ==
  ASSUME IInv, pc \in Working, step = Len(Chain)
  PROVE  /\ Record("hypothesis", Current) \in held
         /\ HypothesisLoads(Current) \/ faults > 0
<1>1. /\ RawRecord \in held /\ \A i \in 1..6 : Record(Chain[i], Current) \in held
  BY ChainFacts DEF IInv, StoreFits, InLoop
<1>2. /\ Record("proposition", Current) \in held /\ Record("profile", Current) \in held
      /\ Record("bundle", Current) \in held /\ Record("evaluation", Current) \in held
      /\ Record("provenance", Current) \in held /\ Record("hypothesis", Current) \in held
  BY <1>1, ChainFacts
<1>3. spoilt = {} => HypothesisLoads(Current)
  BY <1>1, <1>2 DEF HypothesisLoads, EvaluationLoads, ProvenanceLoads, BundleLoads, ProfileLoads, PropositionLoads, Holds
<1> QED BY <1>2, <1>3 DEF IInv, RecordsFit

(* What comes before the loop *)

LEMMA CallInv == IInv /\ Call => IInv'
<1> SUFFICES ASSUME IInv, Call PROVE IInv'
  OBVIOUS
<1> USE DEF Call
<1>1. held' = held /\ spoilt' = spoilt /\ faults' = faults
  BY DEF store
<1>2. TypeOK'
  <2>1. calls' \in 0..MaxCalls /\ step' \in 0..Len(Chain)
    BY RunAssumption, ChainFacts DEF IInv, TypeOK
  <2>2. todo' \in Seq(Propositions)
    OBVIOUS
  <2>4. broken' \in BOOLEAN
    OBVIOUS
  <2>3. chains' \subseteq [proposition : Propositions, handoff : BOOLEAN] /\ refused' \subseteq Propositions
    OBVIOUS
  <2> QED BY <1>1, <2>1, <2>2, <2>3, <2>4 DEF IInv, TypeOK
<1>3. RecordsFit'
  BY <1>1, StoreKept
<1>4. StoreFits' /\ LoopFits' /\ OutcomeFits'
  BY DEF StoreFits, LoopFits, OutcomeFits, InLoop, Working, Begin
<1> QED BY <1>2, <1>3, <1>4, PretestKept DEF IInv

\* A call that is refused before it has named anything.
LEMMA RefusedInv ==
  ASSUME IInv, pc \in Begin, Return("generation failure"), broken' = broken
  PROVE  IInv'
<1> USE DEF Return
<1>1. held' = held /\ spoilt' = spoilt /\ faults' = faults
  BY DEF store
<1>2. TypeOK'
  BY <1>1 DEF IInv, TypeOK
<1>3. RecordsFit'
  BY <1>1, StoreKept
<1>4. chains' = {} /\ ~broken'
  BY DEF IInv, LoopFits
<1>5. OutcomeFits'
  BY <1>4 DEF OutcomeFits
<1> QED BY <1>2, <1>3, <1>5, NothingOwed, PretestKept DEF IInv

LEMMA RefuseContextInv == IInv /\ RefuseContext => IInv'
BY RefusedInv DEF RefuseContext, Begin

\* A step that changes only where the call stands.
LEMMA Moved ==
  ASSUME IInv, UNCHANGED <<input, todo, step, outcome, store, pretest, calls, faults>>, pc # "returned",
         StoreFits', LoopFits'
  PROVE  IInv'
<1>1. /\ held' = held /\ spoilt' = spoilt /\ faults' = faults
      /\ chains' = chains /\ refused' = refused /\ broken' = broken
  BY DEF store, outcome
<1>2. TypeOK'
  BY <1>1 DEF IInv, TypeOK
<1>3. RecordsFit'
  BY <1>1, StoreKept
<1>4. OutcomeFits'
  BY <1>1, OutcomeKept
<1> QED BY <1>2, <1>3, <1>4, PretestKept DEF IInv

LEMMA ProduceInv == IInv /\ Produce => IInv'
<1> SUFFICES ASSUME IInv, Produce PROVE IInv'
  OBVIOUS
<1>1. pc = "context"
  BY DEF Produce
<1>2. CASE /\ pc' = "raw" /\ UNCHANGED <<input, todo, step, outcome, store, pretest, calls, faults>>
  <2>1. chains' = chains /\ refused' = refused /\ broken' = broken
    BY <1>2 DEF outcome
  <2>2. StoreFits' /\ LoopFits'
    BY <1>1, <1>2, <2>1 DEF IInv, StoreFits, LoopFits, InLoop, Working, Begin
  <2> QED BY <1>1, <1>2, <2>2, Moved
<1>3. CASE Return("generation failure") /\ broken' = broken
  BY <1>1, <1>3, RefusedInv DEF Begin
<1> QED BY <1>2, <1>3 DEF Produce

LEMMA PersistRawInv == IInv /\ PersistRaw => IInv'
<1> SUFFICES ASSUME IInv, PersistRaw PROVE IInv'
  OBVIOUS
<1> USE DEF PersistRaw
<1>1. /\ input' = input /\ todo' = todo /\ step' = step /\ pretest' = pretest /\ calls' = calls /\ faults' = faults
      /\ chains' = chains /\ refused' = refused /\ broken' = broken /\ spoilt' = spoilt /\ pc = "raw" /\ pc' = "construct"
  BY DEF outcome
<1>2. TypeOK'
  BY <1>1 DEF IInv, TypeOK
<1>3. RecordsFit'
  BY <1>1, RecordKept DEF RawRecord
<1>4. StoreFits'
  BY <1>1, CallKept DEF StoreFits, InLoop, Working
<1>5. LoopFits'
  BY <1>1 DEF IInv, LoopFits, InLoop, Working, Begin
<1>6. OutcomeFits'
  BY <1>1, OutcomeKept
<1> QED BY <1>1, <1>2, <1>3, <1>4, <1>5, <1>6, PretestKept DEF IInv

LEMMA RawFailsInv == ASSUME IInv, NEW fault \in {FALSE, Fault}, RawFails(fault) PROVE IInv'
<1> USE DEF RawFails
<1>1. /\ input' = input /\ todo' = todo /\ step' = step /\ pretest' = pretest /\ calls' = calls
      /\ chains' = chains /\ refused' = refused /\ broken' = broken /\ held' = held /\ spoilt' = spoilt
      /\ pc = "raw" /\ pc' = "returned" /\ status' = "persistence failure"
  BY DEF store
<1>2. faults' \in 0..MaxFaults /\ (fault \/ faults > 0 => faults' > 0)
  BY FaultFacts
<1>3. TypeOK'
  BY <1>1, <1>2 DEF IInv, TypeOK
<1>4. RecordsFit'
  BY <1>1, <1>2, StoreKept
<1>5. faults' > 0
  <2>1. RawRecord \in spoilt \/ fault
    OBVIOUS
  <2>2. RawRecord \in spoilt => faults > 0
    BY DEF IInv, RecordsFit
  <2> QED BY <1>2, <2>1, <2>2
<1>6. chains' = {} /\ ~broken'
  <2>1. pc \in Begin
    BY <1>1 DEF Begin
  <2>2. chains = {} /\ ~broken
    BY <2>1 DEF IInv, LoopFits
  <2>3. chains' = {}
    BY <1>1, <2>2
  <2>4. ~broken'
    <3>1. broken' = broken
      BY <1>1
    <3> HIDE DEF RawFails
    <3> QED BY <2>2, <3>1
  <2> QED BY <2>3, <2>4
<1>7. OutcomeFits'
  BY <1>1, <1>5, <1>6 DEF OutcomeFits
<1> QED BY <1>1, <1>3, <1>4, <1>7, NothingOwed, PretestKept DEF IInv

LEMMA ConstructInv == IInv /\ Construct => IInv'
<1> SUFFICES ASSUME IInv, Construct PROVE IInv'
  OBVIOUS
<1>1. pc = "construct"
  BY DEF Construct
<1>2. CASE /\ pc' = "idle" /\ UNCHANGED <<input, todo, step, outcome, store, pretest, calls, faults>>
  BY <1>1, <1>2, Moved, NothingOwed
<1>3. CASE Return("generation failure") /\ broken' = broken
  BY <1>1, <1>3, RefusedInv DEF Begin
<1>4. CASE /\ todo' \in SetToSeqs(Accepted) /\ pc' = "govern"
           /\ UNCHANGED <<input, step, outcome, store, pretest, calls, faults>>
  <2>1. /\ input' = input /\ step' = step /\ pretest' = pretest /\ calls' = calls /\ faults' = faults
        /\ chains' = chains /\ refused' = refused /\ broken' = broken /\ held' = held /\ spoilt' = spoilt
    BY <1>4 DEF outcome, store
  <2>2. input \in Inputs
    BY DEF IInv, TypeOK
  <2>3. todo' \in Seq(Accepted) /\ ToSet(todo') = Accepted /\ Accepted \subseteq Propositions
    BY <1>4, <2>2, AcceptedFacts, ArrangementFacts
  <2>4. todo' \in Seq(Propositions)
    BY <2>3, SeqDef
  <2>5. TypeOK'
    BY <2>1, <2>4 DEF IInv, TypeOK
  <2>6. RecordsFit'
    BY <2>1, StoreKept
  <2>7. StoreFits'
    BY <1>1, <1>4, <2>1, CallKept DEF IInv, StoreFits, Working
  <2>8. LoopFits'
    <3>1. chains' = {} /\ refused' = {} /\ ~broken'
      BY <1>1, <2>1 DEF IInv, LoopFits, Begin
    <3>2. Accepted' = Accepted /\ Named' = {}
      BY <2>1, <3>1, CallKept DEF Named
    <3> QED BY <1>4, <2>3, <3>1, <3>2 DEF LoopFits, Begin, Working
  <2>9. OutcomeFits'
    BY <1>1, <1>4, <2>1, OutcomeKept
  <2> QED BY <2>1, <2>5, <2>6, <2>7, <2>8, <2>9, PretestKept DEF IInv
<1> QED BY <1>2, <1>3, <1>4 DEF Construct

LEMMA OriginOf ==
  ASSUME NEW a, a = [availability |-> "present", admission |-> "admitted", fitness |-> "passed",
                     origin |-> "governed internal"]
  PROVE  a.origin = "governed internal"
OBVIOUS

(* The loop over the accepted propositions *)

LEMMA GovernPropositionInv == IInv /\ GovernProposition => IInv'
<1> SUFFICES ASSUME IInv, GovernProposition PROVE IInv'
  OBVIOUS
<1> USE DEF GovernProposition
<1>1. /\ input' = input /\ todo' = todo /\ calls' = calls /\ faults' = faults
      /\ chains' = chains /\ refused' = refused /\ broken' = broken /\ held' = held /\ spoilt' = spoilt
      /\ pc = "govern" /\ pc' = "persist" /\ step' = 0 /\ todo # <<>>
  BY DEF outcome, store
<1>2. TypeOK'
  BY <1>1, ChainFacts DEF IInv, TypeOK
<1>3. RecordsFit'
  BY <1>1, StoreKept
<1>4. StoreFits'
  <2>1. RawRecord' \in held'
    BY <1>1, CallKept DEF IInv, StoreFits, InLoop
  <2> QED BY <1>1, <2>1 DEF StoreFits
<1>5. LoopFits'
  <2>1. ~broken /\ Accepted = Named \cup refused \cup ToSet(todo)
    BY <1>1 DEF IInv, LoopFits, InLoop
  <2>2. Accepted' = Accepted /\ Named' = Named /\ ToSet(todo)' = ToSet(todo)
    BY <1>1, CallKept DEF Named
  <2> QED BY <1>1, <2>1, <2>2 DEF LoopFits, Begin
<1>6. OutcomeFits'
  BY <1>1, OutcomeKept
<1>7. PretestFits'
  <2> DEFINE f == FamilyOf(Current)
             e == ProductionEvidence(f, input.methods)
  <2>1. f \in Families
    BY <1>1, TodoFacts DEF IInv, TypeOK, FamilyOf, Families
  <2>2. DOMAIN <<>> = {}
    OBVIOUS
  <2>3. ASSUME NEW r \in DOMAIN e
        PROVE  /\ e[r] = [availability |-> "present", admission |-> "admitted", fitness |-> "passed",
                          origin |-> "governed internal"]
               /\ f = "product"
    BY <2>2 DEF ProductionEvidence
  <2>4. pretest'.family = f /\ pretest'.evidence = e /\ pretest'.diagnostic = TRUE /\ pretest'.flaw = "none"
    BY DEF GovernedAsProduced
  <2> HIDE DEF f, e
  <2>5. \A r \in DOMAIN e : e[r] \in Assessments
    <3>1. [availability |-> "present", admission |-> "admitted", fitness |-> "passed",
           origin |-> "governed internal"] \in Assessments
      BY DEF Assessments, Origins
    <3> QED BY <2>3, <3>1
  <2>6. Authentic(f, e)
    <3>1. OriginsFor(ClassOf("product")) = {"governed internal", "descriptive", "R4 mechanical"}
      BY DEF OriginsFor, ClassOf
    <3>2. ASSUME NEW r \in DOMAIN e PROVE e[r].origin = "governed internal"
      <4>1. e[r] = [availability |-> "present", admission |-> "admitted", fitness |-> "passed",
                    origin |-> "governed internal"]
        BY <2>3
      <4> QED BY <4>1, OriginOf
    <3>3. DOMAIN e # {} => f = "product"
      BY <2>3
    <3> QED BY <3>1, <3>2, <3>3 DEF Authentic
  <2>7. Authenticates("none", f, e, TRUE)
    BY <2>6 DEF Authenticates, RegistryIntact, RegistryCurrent, Registered,
       PropositionHolds, ContextOfPropositionHolds, TemplateHolds, CandidateHolds, MethodsHold, ExecutionAuthorityHolds,
       AssessmentIntact, AssessmentOfProposition, ConflictHolds
  <2> QED BY <2>1, <2>4, <2>5, <2>7 DEF PretestFits, Flaws
<1> QED BY <1>2, <1>3, <1>4, <1>5, <1>6, <1>7 DEF IInv

LEMMA RefusePropositionInv == IInv /\ RefuseProposition => IInv'
<1> SUFFICES ASSUME IInv, RefuseProposition PROVE IInv'
  OBVIOUS
<1> USE DEF RefuseProposition
<1>1. /\ input' = input /\ step' = step /\ pretest' = pretest /\ calls' = calls /\ faults' = faults
      /\ chains' = chains /\ broken' = broken /\ held' = held /\ spoilt' = spoilt /\ status' = status
      /\ pc = "govern" /\ pc' = "govern" /\ todo # <<>> /\ todo' = Tail(todo) /\ refused' = refused \cup {Current}
  BY DEF store
<1>2. /\ Current \in Propositions /\ todo' \in Seq(Propositions) /\ ToSet(todo) = {Current} \cup ToSet(todo')
  BY <1>1, TodoFacts DEF IInv, TypeOK
<1>3. TypeOK'
  BY <1>1, <1>2 DEF IInv, TypeOK
<1>4. RecordsFit'
  BY <1>1, StoreKept
<1>5. StoreFits'
  BY <1>1, CallKept DEF IInv, StoreFits, InLoop, Working
<1>6. LoopFits'
  <2>1. ~broken /\ Accepted = Named \cup refused \cup ToSet(todo)
    BY <1>1 DEF IInv, LoopFits, InLoop
  <2>2. Accepted' = Accepted /\ Named' = Named
    BY <1>1, CallKept DEF Named
  <2> QED BY <1>1, <1>2, <2>1, <2>2 DEF LoopFits, Begin
<1>7. OutcomeFits'
  <2>1. status' = "none"
    BY <1>1 DEF IInv, OutcomeFits
  <2> QED BY <1>1, <2>1, CallKept DEF IInv, OutcomeFits
<1> QED BY <1>1, <1>3, <1>4, <1>5, <1>6, <1>7, PretestKept DEF IInv

LEMMA LosePropositionInv == IInv /\ LoseProposition => IInv'
BY Moved, NothingOwed DEF LoseProposition

LEMMA PersistNextInv == IInv /\ PersistNext => IInv'
<1> SUFFICES ASSUME IInv, PersistNext PROVE IInv'
  OBVIOUS
<1> USE DEF PersistNext, Keep
<1>1. /\ input' = input /\ todo' = todo /\ pretest' = pretest /\ calls' = calls /\ faults' = faults
      /\ chains' = chains /\ refused' = refused /\ broken' = broken /\ spoilt' = spoilt
      /\ pc = "persist" /\ pc' = "persist" /\ step' = step + 1 /\ step < Len(Chain)
      /\ held' = held \cup {Record(Chain[step + 1], Current)}
  BY DEF outcome
<1>2. step \in 0..5
  BY <1>1, ChainFacts DEF IInv, TypeOK
<1>3. RawRecord \in held /\ todo # <<>> /\ \A i \in 1..step : Record(Chain[i], Current) \in held
  BY <1>1 DEF IInv, StoreFits, InLoop, Working
<1>4. TypeOK'
  BY <1>1, <1>2, ChainFacts DEF IInv, TypeOK
<1>5. RecordsFit'
  <2>1. Chain[step + 1] \in {Chain[i] : i \in 1..6}
    BY <1>2
  <2>2. CASE step = 5
    <3>1. Chain[step + 1] = "hypothesis"
      BY <2>2, ChainFacts
    <3>2. Lineage(Record(Chain[step + 1], Current)) \subseteq Bodies(held)
      BY <1>3, <2>2, <3>1, LineageHeld
    <3> QED BY <1>1, <2>1, <3>2, RecordKept
  <2>3. CASE step # 5
    <3>1. Chain[step + 1] \notin {"hypothesis", "handoff"}
      BY <1>2, <2>3, ChainFacts
    <3> QED BY <1>1, <2>1, <3>1, RecordKept
  <2> QED BY <2>2, <2>3
<1>6. StoreFits'
  <2>1. Current' = Current
    BY <1>1 DEF Current
  <2>2. \A i \in 1..step' : Record(Chain[i], Current) \in held'
    BY <1>1, <1>2, <1>3
  <2>3. \A i \in 1..step' : Record(Chain[i], Current)' \in held'
    BY <1>1, <2>1, <2>2 DEF Record, Name, Body, Material, RawMaterial, PropositionMaterial, ProfileMaterial, BundleMaterial,
       EvaluationMaterial, ProvenanceMaterial, HypothesisMaterial, HandoffMaterial
  <2>4. RawRecord' \in held'
    BY <1>1, <1>3, CallKept
  <2> QED BY <1>1, <1>3, <2>3, <2>4 DEF StoreFits
<1>7. LoopFits'
  <2>1. ~broken /\ Accepted = Named \cup refused \cup ToSet(todo)
    BY <1>1 DEF IInv, LoopFits, InLoop, Working
  <2>2. Accepted' = Accepted /\ Named' = Named /\ ToSet(todo)' = ToSet(todo)
    BY <1>1, CallKept DEF Named
  <2> QED BY <1>1, <2>1, <2>2 DEF LoopFits, Begin
<1>8. OutcomeFits'
  BY <1>1, OutcomeKept
<1> QED BY <1>1, <1>4, <1>5, <1>6, <1>7, <1>8, PretestKept DEF IInv

LEMMA PersistFailsInv == ASSUME IInv, NEW fault \in {FALSE, Fault}, PersistFails(fault) PROVE IInv'
<1>1. /\ input' = input /\ todo' = todo /\ step' = step /\ pretest' = pretest /\ calls' = calls
      /\ chains' = chains /\ refused' = refused /\ held' = held /\ spoilt' = spoilt /\ status' = status
      /\ pc = "persist" /\ pc' = "report" /\ faults' = IF fault THEN faults + 1 ELSE faults
  BY DEF PersistFails, BreakChain, store
<1>2. broken' = TRUE /\ (Conflict(Record(Chain[step + 1], Current)) \/ fault)
  BY DEF PersistFails, BreakChain
<1>3. faults' \in 0..MaxFaults /\ (fault \/ faults > 0 => faults' > 0)
  BY <1>1, FaultFacts
<1>4. faults' > 0
  BY <1>2, <1>3, NoConflict
<1>5. TypeOK'
  BY <1>1, <1>2, <1>3 DEF IInv, TypeOK
<1>6. RecordsFit'
  BY <1>1, <1>3, StoreKept
<1>7. StoreFits'
  BY <1>1, CallKept DEF IInv, StoreFits, InLoop, Working
<1>8. LoopFits'
  BY <1>1, <1>2 DEF LoopFits, Begin, InLoop, Working
<1>9. OutcomeFits'
  BY <1>1, <1>2, <1>4, CallKept DEF IInv, OutcomeFits
<1> QED BY <1>1, <1>5, <1>6, <1>7, <1>8, <1>9, PretestKept DEF IInv

LEMMA ChainRecord ==
  ASSUME NEW p, NEW h \in BOOLEAN, NEW c, c = [proposition |-> p, handoff |-> h]
  PROVE  c.proposition = p /\ c.handoff = h
OBVIOUS

\* A chain is kept with or without its handoff, and the loop goes on or is left.
LEMMA AppendInv ==
  ASSUME IInv, pc \in Working, NEW handoff \in BOOLEAN, AppendChain(handoff), held' = held,
         faults' \in 0..MaxFaults, faults > 0 => faults' > 0, step = Len(Chain),
         handoff => Record("handoff", Current) \in held,
         \/ pc' = "govern" /\ broken' = broken /\ handoff = input.handoff
         \/ pc' = "report" /\ broken' = TRUE /\ faults' > 0
  PROVE  IInv'
<1> USE DEF AppendChain
<1>1. /\ input' = input /\ step' = step /\ pretest' = pretest /\ calls' = calls
      /\ refused' = refused /\ spoilt' = spoilt /\ status' = status
      /\ todo' = Tail(todo) /\ chains' = chains \cup {[proposition |-> Current, handoff |-> handoff]}
  OBVIOUS
<1>2. \A c : c = [proposition |-> Current, handoff |-> handoff] => c.proposition = Current /\ c.handoff = handoff
  BY ChainRecord
<1>3. RawRecord \in held /\ todo # <<>> /\ Record("hypothesis", Current) \in held
  BY LoadFacts DEF IInv, StoreFits, InLoop
<1>4. /\ Current \in Propositions /\ todo' \in Seq(Propositions) /\ ToSet(todo) = {Current} \cup ToSet(todo')
  BY <1>1, <1>3, TodoFacts DEF IInv, TypeOK
<1>5. ~broken /\ Accepted = Named \cup refused \cup ToSet(todo)
  BY DEF IInv, LoopFits, InLoop
<1>6. TypeOK'
  <2>1. broken' \in BOOLEAN
    BY DEF IInv, TypeOK
  <2>2. chains' \subseteq [proposition : Propositions, handoff : BOOLEAN]
    BY <1>1, <1>4 DEF IInv, TypeOK
  <2> QED BY <1>1, <1>4, <2>1, <2>2 DEF IInv, TypeOK
<1>7. RecordsFit'
  BY <1>1, StoreKept
<1>8. StoreFits'
  BY <1>1, <1>3, CallKept DEF StoreFits, Working
<1>9. LoopFits'
  <2>1. Accepted' = Accepted
    BY <1>1, CallKept
  <2>2. Named' = Named \cup {Current}
    BY <1>2, <1>1 DEF Named
  <2>3. CASE pc' = "govern" /\ broken' = broken
    BY <1>1, <1>4, <1>5, <2>1, <2>2, <2>3 DEF LoopFits, Begin, Working
  <2>4. CASE pc' = "report" /\ broken' = TRUE
    BY <2>4 DEF LoopFits, Begin, InLoop, Working
  <2> QED BY <2>3, <2>4
<1>10. OutcomeFits'
  <2>1. status' = "none"
    BY <1>1 DEF IInv, OutcomeFits, Working
  <2>2. ASSUME NEW c \in chains'
        PROVE  /\ Record("hypothesis", c.proposition) \in held
               /\ c.handoff => Record("handoff", c.proposition) \in held
               /\ ~broken' => c.handoff = input.handoff
    <3>1. CASE c \in chains
      BY <1>5, <3>1 DEF IInv, OutcomeFits
    <3>2. CASE c = [proposition |-> Current, handoff |-> handoff]
      BY <1>2, <1>3, <3>2
    <3> QED BY <1>1, <3>1, <3>2
  <2>3. \A c \in chains' : /\ Record("hypothesis", c.proposition)' \in held'
                           /\ c.handoff => Record("handoff", c.proposition)' \in held'
    BY <1>1, <2>2, CallKept
  <2>4. ~broken' => \A c \in chains' : c.handoff = input'.handoff
    BY <1>1, <2>2
  <2>5. broken' => faults' > 0
    BY <1>5
  <2> QED BY <2>1, <2>3, <2>4, <2>5 DEF OutcomeFits
<1> QED BY <1>1, <1>6, <1>7, <1>8, <1>9, <1>10, PretestKept DEF IInv

LEMMA LoadHypothesisInv == IInv /\ LoadHypothesis => IInv'
<1> SUFFICES ASSUME IInv, LoadHypothesis PROVE IInv'
  OBVIOUS
<1>1. pc = "persist" /\ step = Len(Chain) /\ pc \in Working
  BY DEF LoadHypothesis, Working
<1>2. /\ RawRecord \in held /\ todo # <<>> /\ \A i \in 1..step : Record(Chain[i], Current) \in held
      /\ ~broken /\ Accepted = Named \cup refused \cup ToSet(todo)
  BY <1>1 DEF IInv, StoreFits, LoopFits, InLoop
<1>3. CASE /\ input.handoff /\ pc' = "handoff"
           /\ UNCHANGED <<input, todo, step, outcome, store, pretest, calls, faults>>
  <2>1. /\ input' = input /\ todo' = todo /\ step' = step /\ held' = held
        /\ chains' = chains /\ refused' = refused /\ broken' = broken
    BY <1>3 DEF outcome, store
  <2>2. StoreFits'
    <3>1. Current' = Current
      BY <2>1 DEF Current
    <3>2. \A i \in 1..step' : Record(Chain[i], Current)' \in held'
      BY <1>2, <2>1, <3>1, CallKept
    <3>3. RawRecord' \in held'
      BY <1>2, <2>1, CallKept
    <3> QED BY <1>1, <1>2, <1>3, <2>1, <3>2, <3>3 DEF StoreFits
  <2>3. LoopFits'
    <3>1. Accepted' = Accepted /\ Named' = Named /\ ToSet(todo)' = ToSet(todo)
      BY <2>1, CallKept DEF Named
    <3> QED BY <1>2, <1>3, <2>1, <3>1 DEF LoopFits, Begin
  <2> QED BY <1>1, <1>3, <2>2, <2>3, Moved
<1>4. CASE ~input.handoff /\ AppendChain(FALSE) /\ pc' = "govern" /\ UNCHANGED <<broken, held, faults>>
  <2>1. input.handoff = FALSE /\ faults \in 0..MaxFaults
    BY <1>4, RunAssumption DEF IInv, TypeOK
  <2> QED BY <1>1, <1>4, <2>1, AppendInv
<1>5. CASE ~HypothesisLoads(Current) /\ BreakChain /\ UNCHANGED faults
  <2>1. /\ input' = input /\ todo' = todo /\ step' = step /\ pretest' = pretest /\ calls' = calls
        /\ chains' = chains /\ refused' = refused /\ held' = held /\ spoilt' = spoilt /\ status' = status
        /\ faults' = faults /\ pc' = "report"
    BY <1>5 DEF BreakChain, store
  <2>2. broken' = TRUE
    BY <1>5 DEF BreakChain
  <2>3. faults' > 0
    BY <1>1, <1>5, <2>1, LoadFacts
  <2>4. TypeOK'
    BY <2>1, <2>2 DEF IInv, TypeOK
  <2>5. RecordsFit'
    BY <2>1, StoreKept
  <2>6. StoreFits'
    BY <1>2, <2>1, CallKept DEF StoreFits, Working
  <2>7. LoopFits'
    BY <2>1, <2>2 DEF LoopFits, Begin, InLoop, Working
  <2>8. OutcomeFits'
    BY <1>1, <2>1, <2>2, <2>3, CallKept DEF IInv, OutcomeFits
  <2> QED BY <2>1, <2>4, <2>5, <2>6, <2>7, <2>8, PretestKept DEF IInv
<1> QED BY <1>3, <1>4, <1>5 DEF LoadHypothesis

LEMMA PersistHandoffInv == IInv /\ PersistHandoff => IInv'
<1> SUFFICES ASSUME IInv, PersistHandoff PROVE IInv'
  OBVIOUS
<1>1. /\ input' = input /\ todo' = todo /\ step' = step /\ pretest' = pretest /\ calls' = calls /\ faults' = faults
      /\ chains' = chains /\ refused' = refused /\ broken' = broken /\ spoilt' = spoilt
      /\ pc = "handoff" /\ pc' = "load handoff" /\ held' = held \cup {Record("handoff", Current)}
  BY DEF PersistHandoff, Keep, outcome
<1>2. /\ RawRecord \in held /\ todo # <<>> /\ step = 6 /\ \A i \in 1..step : Record(Chain[i], Current) \in held
      /\ ~broken /\ Accepted = Named \cup refused \cup ToSet(todo) /\ input.handoff
  BY <1>1, ChainFacts DEF IInv, StoreFits, LoopFits, InLoop, Working
<1>3. TypeOK'
  BY <1>1 DEF IInv, TypeOK
<1>4. RecordsFit'
  <2>1. \A i \in 1..5 : Record(Chain[i], Current) \in held
    BY <1>2
  <2>2. Record("hypothesis", Current) \in held
    BY <1>2, ChainFacts
  <2>3. Lineage(Record("handoff", Current)) \subseteq Bodies(held)
    BY <1>2, <2>1, <2>2, LineageHeld
  <2> QED BY <1>1, <2>3, RecordKept
<1>5. StoreFits'
  <2>1. Current' = Current
    BY <1>1 DEF Current
  <2>2. Record("handoff", Current)' \in held' /\ \A i \in 1..step' : Record(Chain[i], Current)' \in held'
    BY <1>1, <1>2, <2>1, CallKept
  <2>3. RawRecord' \in held'
    BY <1>1, <1>2, CallKept
  <2> QED BY <1>1, <1>2, <2>2, <2>3, ChainFacts DEF StoreFits
<1>6. LoopFits'
  <2>1. Accepted' = Accepted /\ Named' = Named /\ ToSet(todo)' = ToSet(todo)
    BY <1>1, CallKept DEF Named
  <2> QED BY <1>1, <1>2, <2>1 DEF LoopFits, Begin
<1>7. OutcomeFits'
  <2>1. UNCHANGED <<input, outcome>> /\ held \subseteq held'
    BY <1>1 DEF PersistHandoff, outcome
  <2> QED BY <1>1, <2>1, OutcomeKept
<1> QED BY <1>1, <1>3, <1>4, <1>5, <1>6, <1>7, PretestKept DEF IInv

LEMMA LoadHandoffInv == IInv /\ LoadHandoff => IInv'
<1> SUFFICES ASSUME IInv, LoadHandoff PROVE IInv'
  OBVIOUS
<1>1. /\ pc = "load handoff" /\ AppendChain(TRUE) /\ pc' = "govern" /\ held' = held /\ faults' = faults
  BY DEF LoadHandoff
<1>2. broken' = broken
  BY DEF LoadHandoff
<1>3. pc \in Working /\ step = Len(Chain) /\ Record("handoff", Current) \in held
  BY <1>1 DEF IInv, StoreFits, Working
<1>4. input.handoff = TRUE /\ faults \in 0..MaxFaults
  BY <1>1, RunAssumption DEF IInv, TypeOK, LoopFits
<1> QED BY <1>1, <1>2, <1>3, <1>4, AppendInv

LEMMA HandoffFailsInv == ASSUME IInv, NEW fault \in {FALSE, Fault}, HandoffFails(fault) PROVE IInv'
<1>1. AppendChain(FALSE) /\ pc' = "report" /\ held' = held /\ faults' = IF fault THEN faults + 1 ELSE faults
  BY DEF HandoffFails
<1>2. broken' = TRUE
  BY DEF HandoffFails
<1>3. pc \in Working /\ step = Len(Chain)
  BY DEF HandoffFails, IInv, StoreFits, Working
<1>4. faults' \in 0..MaxFaults /\ (fault \/ faults > 0 => faults' > 0)
  BY <1>1, FaultFacts
<1>5. faults' > 0
  <2>1. CASE Conflict(Record("handoff", Current)) \/ fault
    BY <1>4, <2>1, NoConflict
  <2>2. CASE pc = "load handoff" /\ ~HandoffLoads(Current)
    <3>1. Record("handoff", Current) \in held
      BY <2>2 DEF IInv, StoreFits
    <3>2. HypothesisLoads(Current) => spoilt # {}
      BY <2>2, <3>1 DEF HandoffLoads, Holds
    <3> QED BY <1>3, <1>4, <3>2, LoadFacts DEF IInv, RecordsFit
  <2> QED BY <2>1, <2>2 DEF HandoffFails
<1> QED BY <1>1, <1>2, <1>3, <1>4, <1>5, AppendInv

(* The end of a call *)

LEMMA EndOfLoopInv == IInv /\ EndOfLoop => IInv'
<1> SUFFICES ASSUME IInv, EndOfLoop PROVE IInv'
  OBVIOUS
<1>1. /\ input' = input /\ chains' = chains /\ refused' = refused /\ broken' = broken /\ held' = held
      /\ pc = "govern" /\ pc' = "report" /\ todo = <<>>
  BY DEF EndOfLoop, outcome, store
<1>2. RawRecord \in held /\ Accepted = Named \cup refused \cup ToSet(todo)
  BY <1>1 DEF IInv, StoreFits, LoopFits, InLoop
<1>3. ToSet(todo) = {}
  BY <1>1 DEF ToSet
<1>4. StoreFits'
  BY <1>1, <1>2, CallKept DEF StoreFits, Working
<1>5. LoopFits'
  <2>1. Accepted' = Accepted /\ Named' = Named
    BY <1>1, CallKept DEF Named
  <2> QED BY <1>1, <1>2, <1>3, <2>1 DEF LoopFits, Begin, InLoop, Working
<1> QED BY <1>1, <1>4, <1>5, Moved DEF EndOfLoop

LEMMA ReportInv == IInv /\ Report => IInv'
<1> SUFFICES ASSUME IInv, Report PROVE IInv'
  OBVIOUS
<1>1. /\ input' = input /\ todo' = todo /\ step' = step /\ pretest' = pretest /\ calls' = calls /\ faults' = faults
      /\ chains' = chains /\ refused' = refused /\ broken' = broken /\ held' = held /\ spoilt' = spoilt
      /\ pc = "report" /\ pc' = "returned" /\ status' = Status
  BY DEF Report, Return, store
<1>2. broken \/ Accepted = Named \cup refused
  BY <1>1 DEF IInv, LoopFits
<1>3. TypeOK'
  BY <1>1 DEF IInv, TypeOK
<1>4. RecordsFit'
  BY <1>1, StoreKept
<1>5. OutcomeFits'
  <2>1. Accepted' = Accepted /\ Named' = Named /\ HasFailure' = HasFailure
    BY <1>1, CallKept DEF Named, HasFailure
  <2>2. status' = "complete" => chains # {} /\ ~HasFailure
    BY <1>1 DEF Status
  <2>3. status' = "persistence failure" => broken
    BY <1>1 DEF Status
  <2>4. \A c \in chains' : /\ Record("hypothesis", c.proposition)' \in held'
                           /\ c.handoff => Record("handoff", c.proposition)' \in held'
    BY <1>1, CallKept DEF IInv, OutcomeFits
  <2>5. ~broken' => \A c \in chains' : c.handoff = input'.handoff
    BY <1>1 DEF IInv, OutcomeFits
  <2>6. broken' \/ status' = "persistence failure" => faults' > 0
    BY <1>1, <2>3 DEF IInv, OutcomeFits
  <2> QED BY <1>1, <1>2, <2>1, <2>2, <2>4, <2>5, <2>6 DEF OutcomeFits
<1> QED BY <1>1, <1>3, <1>4, <1>5, NothingOwed, PretestKept DEF IInv

LEMMA KillInv == IInv /\ Kill => IInv'
BY Moved, NothingOwed DEF Kill

LEMMA DamageInv == IInv /\ Damage => IInv'
<1> SUFFICES ASSUME IInv, Damage PROVE IInv'
  OBVIOUS
<1>1. /\ input' = input /\ pc' = pc /\ todo' = todo /\ step' = step /\ held' = held /\ pretest' = pretest
      /\ calls' = calls /\ faults' = faults + 1 /\ UNCHANGED outcome /\ faults < MaxFaults
  BY DEF Damage, Fault
<1>2. chains' = chains /\ refused' = refused /\ broken' = broken /\ status' = status
  BY <1>1 DEF outcome
<1>3. faults' \in 0..MaxFaults /\ faults' > 0
  BY <1>1, RunAssumption DEF IInv, TypeOK
<1>4. spoilt' \subseteq held'
  BY <1>1 DEF Damage, IInv, TypeOK
<1>5. TypeOK'
  BY <1>1, <1>2, <1>3, <1>4 DEF IInv, TypeOK
<1>6. RecordsFit'
  BY <1>1, <1>3 DEF IInv, RecordsFit, LineageBeforeHypothesis, Lineage, Bodies, Kind
<1>7. Current' = Current /\ Accepted' = Accepted /\ Named' = Named /\ ToSet(todo)' = ToSet(todo)
  BY <1>1, <1>2, CallKept DEF Current, Named
<1>8. StoreFits'
  <2>1. RawRecord' = RawRecord /\ Record("handoff", Current)' = Record("handoff", Current)
        /\ \A i \in 1..step : Record(Chain[i], Current)' = Record(Chain[i], Current)
    BY <1>1, <1>7, CallKept
  <2> QED BY <1>1, <2>1 DEF IInv, StoreFits
<1>9. LoopFits'
  BY <1>1, <1>2, <1>7 DEF IInv, LoopFits
<1>10. OutcomeFits'
  BY <1>1, <1>3, OutcomeKept
<1> QED BY <1>1, <1>5, <1>6, <1>8, <1>9, <1>10, PretestKept DEF IInv

LEMMA GovernDirectlyInv == IInv /\ GovernDirectly => IInv'
<1> SUFFICES ASSUME IInv, GovernDirectly PROVE IInv'
  OBVIOUS
<1>1. /\ input' = input /\ todo' = todo /\ step' = step /\ calls' = calls /\ faults' = faults
      /\ chains' = chains /\ refused' = refused /\ broken' = broken /\ held' = held /\ spoilt' = spoilt
      /\ pc = "idle" /\ pc' = "governed"
  BY DEF GovernDirectly, outcome, store
<1>2. TypeOK'
  BY <1>1 DEF IInv, TypeOK
<1>3. RecordsFit'
  BY <1>1, StoreKept
<1>4. OutcomeFits'
  <2>1. UNCHANGED <<input, outcome>>
    BY DEF GovernDirectly
  <2> QED BY <1>1, <2>1, OutcomeKept
<1>5. PretestFits'
  <2>1. pretest' \in Directly /\ Authenticates(pretest'.flaw, pretest'.family, pretest'.evidence, pretest'.diagnostic)
    BY DEF GovernDirectly
  <2>2. /\ pretest'.family \in Families /\ pretest'.diagnostic \in BOOLEAN /\ pretest'.flaw \in Flaws
        /\ \A r \in DOMAIN pretest'.evidence : pretest'.evidence[r] \in Assessments
    BY <2>1, RunAssumption
  <2> QED BY <2>1, <2>2 DEF PretestFits
<1> QED BY <1>1, <1>2, <1>3, <1>4, <1>5, NothingOwed DEF IInv

LEMMA StutterInv == IInv /\ UNCHANGED vars => IInv'
<1> SUFFICES ASSUME IInv, UNCHANGED vars PROVE IInv'
  OBVIOUS
<1>1. /\ input' = input /\ pc' = pc /\ todo' = todo /\ step' = step /\ held' = held /\ spoilt' = spoilt
      /\ pretest' = pretest /\ calls' = calls /\ faults' = faults /\ UNCHANGED outcome
  BY DEF vars, store
<1>2. chains' = chains /\ refused' = refused /\ broken' = broken /\ status' = status
  BY <1>1 DEF outcome
<1>3. TypeOK'
  BY <1>1, <1>2 DEF IInv, TypeOK
<1>4. RecordsFit'
  BY <1>1, StoreKept
<1>5. Current' = Current /\ Accepted' = Accepted /\ Named' = Named /\ ToSet(todo)' = ToSet(todo)
  BY <1>1, <1>2, CallKept DEF Current, Named
<1>6. StoreFits'
  <2>1. RawRecord' = RawRecord /\ Record("handoff", Current)' = Record("handoff", Current)
        /\ \A i \in 1..step : Record(Chain[i], Current)' = Record(Chain[i], Current)
    BY <1>1, <1>5, CallKept
  <2> QED BY <1>1, <2>1 DEF IInv, StoreFits
<1>7. LoopFits'
  BY <1>1, <1>2, <1>5 DEF IInv, LoopFits
<1>8. OutcomeFits'
  BY <1>1, OutcomeKept
<1> QED BY <1>1, <1>3, <1>4, <1>6, <1>7, <1>8, PretestKept DEF IInv

LEMMA StepInv == IInv /\ [Next]_vars => IInv'
BY CallInv, RefuseContextInv, ProduceInv, PersistRawInv, RawFailsInv, ConstructInv, GovernPropositionInv,
   RefusePropositionInv, LosePropositionInv, PersistNextInv, PersistFailsInv, LoadHypothesisInv, PersistHandoffInv,
   LoadHandoffInv, HandoffFailsInv, EndOfLoopInv, ReportInv, KillInv, DamageInv, GovernDirectlyInv, StutterInv
   DEF Next

-----------------------------------------------------------------------------
(* What holds of every run *)

\* The records persisted so far, the propositions still owed and the outcome fit
\* together wherever calls of run_r6 are killed, fail to write or find records damaged.
THEOREM InvariantHolds == Spec => []IInv
BY InitInv, StepInv, PTL DEF Spec

\* Every variable keeps its type, and no more records are damaged than there are.
THEOREM TypeCorrect == Spec => []TypeOK
<1>1. IInv => TypeOK
  BY DEF IInv
<1> QED BY <1>1, InvariantHolds, PTL

\* run_r6 persists a hypothesis after all it rests on and a handoff after its
\* hypothesis, and no call ever finds the one without the other.
THEOREM LineageIsPersistedFirst == Spec => []LineageBeforeHypothesis
<1>1. IInv => LineageBeforeHypothesis
  BY DEF IInv, RecordsFit
<1> QED BY <1>1, InvariantHolds, PTL

\* What the outcome of run_r6 says was generated is in the store, and what it does not
\* mention was lost to a persistence failure it reports.
THEOREM ReportedOutcomesAreTrue == Spec => []OutcomeIsHonest
<1>1. IInv => OutcomeIsHonest
  <2> SUFFICES ASSUME IInv, status # "none" PROVE OutcomeIsHonest
    BY DEF OutcomeIsHonest
  <2>1. \A c \in chains : /\ Body("hypothesis", c.proposition) \in Bodies(held)
                          /\ c.handoff => Body("handoff", c.proposition) \in Bodies(held)
    <3>1. \A r \in held : r.body \in Bodies(held)
      BY DEF Bodies
    <3>2. \A kind, p : Record(kind, p).body = Body(kind, p)
      BY DEF Record
    <3> QED BY <3>1, <3>2 DEF IInv, OutcomeFits
  <2>2. chains = {} \/ broken \/ Accepted = Named \cup refused
    BY DEF IInv, OutcomeFits
  <2>3. ASSUME status = "complete"
        PROVE  /\ Named = Accepted /\ input.requested \subseteq {FamilyOf(p) : p \in Named}
               /\ \A c \in chains : c.handoff = input.handoff
    <3>1. chains # {} /\ Omitted = {} /\ refused = {} /\ ~broken
      BY <2>3 DEF IInv, OutcomeFits, HasFailure
    <3>2. Named = Accepted /\ \A c \in chains : c.handoff = input.handoff
      BY <2>2, <3>1 DEF IInv, OutcomeFits
    <3> QED BY <3>1, <3>2 DEF Omitted
  <2>4. chains # {} => Accepted \subseteq Named \cup refused \/ broken
    BY <2>2
  <2> QED BY <2>1, <2>3, <2>4 DEF OutcomeIsHonest, Named
<1> QED BY <1>1, InvariantHolds, PTL

\* run_r6 can be called again whatever an earlier call left behind: without a failed
\* write or a damaged record it reports no persistence failure.
THEOREM OnlyFaultsFailACall == Spec => []OnlyFaultsBreakPersistence
<1>1. IInv => OnlyFaultsBreakPersistence
  BY DEF IInv, OutcomeFits, OnlyFaultsBreakPersistence
<1> QED BY <1>1, InvariantHolds, PTL

\* govern_pretest makes a test eligible only on governed evidence of the family's own
\* class for every requirement, for any dimensions and dependencies, and whatever it
\* says makes a handoff that R7 accepts.
THEOREM OnlyGovernedEvidenceIsEligible == Spec => []EligibleOnlyOnGovernedEvidence
<1>1. IInv => EligibleOnlyOnGovernedEvidence
  BY GovernFacts DEF IInv
<1> QED BY <1>1, InvariantHolds, PTL
=============================================================================
