----------------------- MODULE AnalysisPipelineProofs -----------------------
(***************************************************************************)
(* Proofs about AnalysisPipeline, for any requests and evidence and any    *)
(* number of damaged files: the invariant that says what each loop has     *)
(* established about the nodes behind it, at it and before it, the seven   *)
(* safety invariants it implies, and the refinement of ChainOfAuthority.   *)
(***************************************************************************)
EXTENDS AnalysisPipeline, SequenceTheorems, TLAPS

Planning == {"plan", "build", "start"}
Executing == {"execute", "record_execution"}
Validating == {"validate", "evaluate", "register_validated", "record_rules"}
Admitting == {"admit", "record_evidence"}
Looping == Executing \cup Validating \cup Admitting

\* The node the present loop is at.
Current == plan[pos]

\* The nodes of the first k requested metrics.
Wanted(k) == UNION {Closure(input.metrics[i]) : i \in 1..k}

\* A plan names a node once, after what it is computed from.
Ordered(p) ==
  /\ p \in Seq(Nodes)
  /\ \A i, j \in DOMAIN p : p[i] = p[j] => i = j
  /\ \A i \in DOMAIN p : \A d \in Deps(p[i]) : \E j \in DOMAIN p : j < i /\ p[j] = d

PlanFits ==
  /\ Ordered(plan)
  /\ pc \in {"plan", "start"} => pos = 1
  /\ pc = "plan" => plan = <<>>
  /\ ~input.canonical => pc \in {"plan", "done"} /\ plan = <<>>
  /\ pc = "build" => pos <= Len(input.metrics) /\ ToSet(plan) = Wanted(pos - 1)
  /\ pc \in Looping \cup {"start", "done"} /\ input.canonical =>
       ToSet(plan) = Wanted(Len(input.metrics))
  /\ pc \in Looping => pos \in DOMAIN plan

\* Execution attempts exactly the authorized nodes it has passed.
ExecutionFits ==
  /\ \A n \in Nodes : execution[n] # "none" => Authorized(n) # {} /\ n \in ToSet(plan)
  /\ \A n \in Nodes : execution[n] = "completed" =>
       \A d \in Deps(n) : execution[d] = "completed"
  /\ pc \in Planning => \A n \in Nodes : execution[n] = "none"
  /\ pc \in Executing => \A i \in DOMAIN plan :
       /\ i >= pos => execution[plan[i]] = "none"
       /\ i < pos => Authorized(plan[i]) = {} \/ execution[plan[i]] # "none"
  /\ pc = "record_execution" =>
       /\ Authorized(Current) # {}
       /\ \A d \in Deps(Current) : execution[d] = "completed"
  /\ pc \in Validating \cup Admitting \cup {"done"} => \A i \in DOMAIN plan :
       Authorized(plan[i]) = {} \/ execution[plan[i]] # "none"

\* Validation is through with a node: all of its rules are recorded passed, or none.
Settled(n) ==
  /\ passed[n] = 0 \/ Validated(n)
  /\ execution[n] = "completed" => Validated(n) \/ n \in failed

ValidationFits ==
  /\ \A n \in failed : execution[n] = "completed"
  /\ \A n \in Nodes : passed[n] <= RuleCount(MetricOf(n))
  /\ \A n \in Nodes : passed[n] > 0 =>
       execution[n] = "completed" /\ n \notin failed /\ \A d \in Deps(n) : Validated(d)
  /\ pc \in Planning \cup Executing => failed = {} /\ \A n \in Nodes : passed[n] = 0
  /\ pc \in Validating => \A i \in DOMAIN plan :
       /\ i > pos => passed[plan[i]] = 0 /\ plan[i] \notin failed
       /\ i < pos => Settled(plan[i])
  /\ pc \in Validating => Current \notin failed /\ (pc # "record_rules" => passed[Current] = 0)
  /\ pc = "record_rules" => ~Validated(Current)
  /\ pc \in {"evaluate", "register_validated", "record_rules"} => execution[Current] = "completed"
  /\ pc \in {"register_validated", "record_rules"} => \A d \in Deps(Current) : Validated(d)
  /\ pc \in Admitting \cup {"done"} => \A i \in DOMAIN plan : Settled(plan[i])

\* A value computed from a damaged dataset never gets past the check of its context.
TaintFits ==
  /\ tainted # {} => ~Intact(Canonical)
  /\ \A n \in tainted : passed[n] = 0
  /\ pc \in {"evaluate", "register_validated", "record_rules"} => Current \notin tainted

EvidenceFits ==
  /\ \A n \in Nodes : evidence[n] # "none" => Candidate(n)
  /\ \A n \in Nodes : evidence[n] = "passed" => RequestCovers(n) /\ SufficiencyHolds(n)
  /\ pc \in Planning \cup Executing \cup Validating => \A n \in Nodes : evidence[n] = "none"
  /\ pc \in Admitting => \A i \in DOMAIN plan : i >= pos => evidence[plan[i]] = "none"
  /\ pc = "record_evidence" =>
       Candidate(Current) /\ RequestCovers(Current) /\ SufficiencyHolds(Current)

\* Evidence an eligible metric with Required Evidence asked for.
Owed(n) == execution[n] = "completed" /\ RequestCovers(n) /\ SufficiencyHolds(n)

\* As long as nobody damages a file, all that was written is intact and nothing fails.
UndamagedFits == faults = 0 =>
  /\ failed = {}
  /\ input.canonical => Intact(Canonical)
  /\ \A n \in Nodes : execution[n] = "completed" => Intact(<<"result", n>>)
  /\ pc = "record_execution" => Intact(<<"result", Current>>)
  /\ \A n \in Nodes : passed[n] > 0 => Intact(<<"validated", n>>)
  /\ pc \in {"register_validated", "record_rules"} => Intact(<<"validated", Current>>)
  /\ pc = "record_evidence" => Intact(<<"evidence", Current>>)
  /\ pc \in Admitting => \A i \in DOMAIN plan : i < pos /\ Owed(plan[i]) => evidence[plan[i]] = "passed"
  /\ pc = "done" => \A i \in DOMAIN plan : Owed(plan[i]) => evidence[plan[i]] = "passed"

IInv ==
  TypeOK /\ PlanFits /\ ExecutionFits /\ ValidationFits /\ TaintFits /\ EvidenceFits /\ UndamagedFits

-----------------------------------------------------------------------------
(* Nodes and requests *)

LEMMA PairSet ==
  ASSUME NEW a, NEW b
  PROVE  ToSet(<<a>>) = {a} /\ ToSet(<<a, b>>) = {a, b} /\ ToSet(<<>>) = {}
BY DEF ToSet

LEMMA DependencyFacts ==
  ASSUME NEW n
  PROVE  /\ MetricOf(n) \notin {"aov", "revenue_change"} => Deps(n) = {}
         /\ MetricOf(n) = "aov" => Deps(n) = {<<"revenue", n[2]>>, <<"orders", n[2]>>}
         /\ MetricOf(n) = "revenue_change" =>
              Deps(n) = {<<"revenue", "baseline">>, <<"revenue", "comparison">>}
<1>1. MetricOf(n) \notin {"aov", "revenue_change"} => Dependencies(n) = <<>>
  BY DEF Dependencies
<1>2. MetricOf(n) = "aov" => Dependencies(n) = <<<<"revenue", n[2]>>, <<"orders", n[2]>>>>
  BY DEF Dependencies
<1>3. MetricOf(n) = "revenue_change" =>
        Dependencies(n) = <<<<"revenue", "baseline">>, <<"revenue", "comparison">>>>
  BY DEF Dependencies
<1> QED BY <1>1, <1>2, <1>3, PairSet DEF Deps

LEMMA NodeFacts ==
  ASSUME NEW n \in Nodes
  PROVE  /\ MetricOf(n) \in Metrics
         /\ RuleCount(MetricOf(n)) \in {2, 3}
         /\ Deps(n) \subseteq Nodes
         /\ \A d \in Deps(n) : Deps(d) = {} /\ d # n
         /\ Deps(n) # {} <=> MetricOf(n) \in {"aov", "revenue_change"}
<1>1. MetricOf(n) \in Metrics /\ RuleCount(MetricOf(n)) \in {2, 3}
  BY DEF Nodes, MetricOf, Metrics, RuleCount
<1>2. ASSUME MetricOf(n) = "aov" PROVE n[2] \in Periods
  BY <1>2 DEF Nodes, MetricOf
<1>3. Deps(n) \subseteq Nodes /\ \A d \in Deps(n) : MetricOf(d) \in {"revenue", "orders"}
  BY <1>1, <1>2, DependencyFacts DEF Nodes, MetricOf, Metrics, Periods
<1>4. \A d \in Deps(n) : Deps(d) = {}
  BY <1>3, DependencyFacts
<1>5. Deps(n) # {} <=> MetricOf(n) \in {"aov", "revenue_change"}
  BY DependencyFacts
<1>6. \A d \in Deps(n) : d # n
  BY <1>3, <1>5
<1> QED BY <1>1, <1>3, <1>4, <1>5, <1>6

LEMMA MetricFacts ==
  ASSUME NEW m \in Metrics
  PROVE  /\ ToSet(Roots(m)) = {n \in Nodes : MetricOf(n) = m}
         /\ ToSet(Roots(m)) # {}
         /\ ToSet(Roots(m)) \subseteq Closure(m)
         /\ Closure(m) \subseteq Nodes
<1>1. ToSet(Roots(m)) = {n \in Nodes : MetricOf(n) = m} /\ ToSet(Roots(m)) # {}
  <2>1. CASE m = "revenue_change"
    <3>1. ToSet(Roots(m)) = {<<m, "both">>}
      BY <2>1, PairSet DEF Roots
    <3>2. \A n \in Nodes : MetricOf(n) = m <=> n = <<m, "both">>
      BY <2>1 DEF Nodes, MetricOf
    <3>3. <<m, "both">> \in Nodes
      BY <2>1 DEF Nodes
    <3> QED BY <3>1, <3>2, <3>3
  <2>2. CASE m # "revenue_change"
    <3>1. ToSet(Roots(m)) = {<<m, "baseline">>, <<m, "comparison">>}
      BY <2>2, PairSet DEF Roots
    <3> QED BY <2>2, <3>1 DEF Nodes, MetricOf, Metrics, Periods
  <2> QED BY <2>1, <2>2
<1>2. \A n \in ToSet(Roots(m)) : Deps(n) \subseteq Nodes
  BY <1>1, NodeFacts
<1> QED BY <1>1, <1>2 DEF Closure

LEMMA InputFacts ==
  ASSUME TypeOK
  PROVE  /\ input.metrics \in Seq(Metrics)
         /\ Len(input.metrics) \in Nat /\ 1 <= Len(input.metrics)
         /\ Requested \subseteq Metrics
         /\ Requested = {input.metrics[i] : i \in 1..Len(input.metrics)}
         /\ input.canonical \in BOOLEAN
         /\ input.required \subseteq Metrics
         /\ input.problems \subseteq Problems
<1>1. input.metrics \in Requests /\ input.canonical \in BOOLEAN /\ input.required \subseteq Metrics
      /\ input.problems \subseteq Problems
  BY PipelineAssumption DEF TypeOK
<1>2. input.metrics \in Seq(Metrics) /\ Len(input.metrics) \in Nat /\ 1 <= Len(input.metrics)
  <2>1. PICK k \in 0..4 : input.metrics \in [1..k -> Metrics]
    BY <1>1 DEF Requests, SeqOf
  <2>2. k # 0
    <3>1. SUFFICES ASSUME k = 0 PROVE input.metrics = <<>>
      BY <1>1 DEF Requests
    <3>2. input.metrics \in Seq(Metrics) /\ Len(input.metrics) = 0
      BY <2>1, <3>1
    <3>3. \A t \in Seq(Metrics) : Len(t) = 0 => t = <<>>
      BY EmptySeq
    <3> QED BY <3>2, <3>3
  <2>3. input.metrics \in Seq(Metrics)
    BY <2>1, SeqDef
  <2>4. Len(input.metrics) = k
    BY <2>1, <2>3, LenProperties
  <2> QED BY <2>2, <2>3, <2>4
<1> QED BY <1>1, <1>2 DEF Requested, ToSet

LEMMA AuthorizedFacts ==
  ASSUME TypeOK, NEW n \in Nodes
  PROVE  /\ Authorized(n) \subseteq Requested
         /\ Authorized(n) # {} <=> n \in Chains
         /\ Chains \subseteq Nodes
         /\ ~input.canonical => Authorized(n) = {}
<1>1. \A m \in Requested : Closure(m) \subseteq Nodes
  BY InputFacts, MetricFacts
<1>2. ~input.canonical => \A m : ~Eligible(m)
  <2>1. ~input.canonical => GlobalFailure \in Failures
    BY DEF Failures
  <2>2. GlobalFailure.scope = "all"
    BY DEF GlobalFailure
  <2> QED BY <2>1, <2>2 DEF Eligible
<1> QED BY <1>1, <1>2 DEF Authorized, Chains

(* The request does not change, nor does what follows from it alone. *)
LEMMA RequestKept ==
  ASSUME input' = input
  PROVE  /\ Requested' = Requested
         /\ \A m : Eligible(m)' = Eligible(m)
         /\ \A n : Authorized(n)' = Authorized(n)
         /\ Chains' = Chains
         /\ \A n : RequestCovers(n)' = RequestCovers(n)
         /\ \A n : SufficiencyHolds(n)' = SufficiencyHolds(n)
         /\ \A k : Wanted(k)' = Wanted(k)
BY DEF Requested, Eligible, Failures, GlobalFailure, Authorized, Chains, RequestCovers, SufficiencyHolds, Wanted

-----------------------------------------------------------------------------
(* The plan *)

LEMMA SetOfSeq ==
  ASSUME NEW S, NEW p \in Seq(S)
  PROVE  ToSet(p) = {p[i] : i \in 1..Len(p)} /\ DOMAIN p = 1..Len(p)
BY DEF ToSet

\* A node is added once, behind what it is computed from.
LEMMA AddKeepsOrder ==
  ASSUME NEW p, Ordered(p), NEW n \in Nodes, Deps(n) \subseteq ToSet(p)
  PROVE  Ordered(Add(p, n)) /\ ToSet(Add(p, n)) = ToSet(p) \cup {n}
<1> DEFINE q == Append(p, n)
<1>1. p \in Seq(Nodes)
  BY DEF Ordered
<1>2. q \in Seq(Nodes) /\ Len(q) = Len(p) + 1 /\ q[Len(p) + 1] = n
      /\ \A i \in 1..Len(p) : q[i] = p[i]
  BY <1>1
<1>3. ToSet(q) = ToSet(p) \cup {n}
  <2>1. ToSet(q) = {q[i] : i \in 1..Len(q)} /\ ToSet(p) = {p[i] : i \in 1..Len(p)}
    BY <1>1, <1>2, SetOfSeq
  <2>2. \A x \in ToSet(q) : x \in ToSet(p) \cup {n}
    BY <1>1, <1>2, <2>1
  <2>3. \A i \in 1..Len(p) : i \in 1..Len(q) /\ p[i] = q[i]
    BY <1>1, <1>2
  <2>4. Len(p) + 1 \in 1..Len(q)
    BY <1>1, <1>2
  <2> QED BY <1>2, <2>1, <2>2, <2>3, <2>4
<1>4. n \notin ToSet(p) => Ordered(q)
  <2> SUFFICES ASSUME n \notin ToSet(p) PROVE Ordered(q)
    OBVIOUS
  <2>1. \A i \in 1..Len(p) : p[i] # n
    BY <1>1, SetOfSeq
  <2>2. \A i, j \in DOMAIN q : q[i] = q[j] => i = j
    BY <1>1, <1>2, <2>1 DEF Ordered
  <2>3. ASSUME NEW i \in DOMAIN q, NEW d \in Deps(q[i])
        PROVE  \E j \in DOMAIN q : j < i /\ q[j] = d
    <3>1. CASE i \in 1..Len(p)
      BY <1>1, <1>2, <2>3, <3>1 DEF Ordered
    <3>2. CASE i = Len(p) + 1
      <4>1. PICK j \in 1..Len(p) : p[j] = d
        BY <1>1, <1>2, <2>3, <3>2, SetOfSeq
      <4> QED BY <1>1, <1>2, <3>2, <4>1
    <3> QED BY <1>1, <1>2, <3>1, <3>2
  <2> QED BY <1>2, <2>2, <2>3 DEF Ordered
<1> QED BY <1>3, <1>4 DEF Add

LEMMA AddNodeKeepsOrder ==
  ASSUME NEW p, Ordered(p), NEW n \in Nodes
  PROVE  Ordered(AddNode(p, n)) /\ ToSet(AddNode(p, n)) = ToSet(p) \cup {n} \cup Deps(n)
<1> DEFINE d == Dependencies(n)
<1>1. CASE d = <<>>
  <2>1. Deps(n) = {}
    BY <1>1, PairSet DEF Deps
  <2> QED BY <1>1, <2>1, AddKeepsOrder DEF AddNode
<1>2. CASE d # <<>>
  <2>1. Deps(n) = {d[1], d[2]}
    BY <1>2, PairSet DEF Deps, Dependencies
  <2>2. d[1] \in Nodes /\ d[2] \in Nodes /\ Deps(d[1]) = {} /\ Deps(d[2]) = {}
    BY <2>1, NodeFacts
  <2>3. Ordered(Add(p, d[1])) /\ ToSet(Add(p, d[1])) = ToSet(p) \cup {d[1]}
    BY <2>2, AddKeepsOrder
  <2>4. /\ Ordered(Add(Add(p, d[1]), d[2]))
        /\ ToSet(Add(Add(p, d[1]), d[2])) = ToSet(p) \cup {d[1], d[2]}
    BY <2>2, <2>3, AddKeepsOrder
  <2>5. AddNode(p, n) = Add(Add(Add(p, d[1]), d[2]), n)
    BY <1>2 DEF AddNode
  <2> QED BY <2>1, <2>4, <2>5, AddKeepsOrder
<1> QED BY <1>1, <1>2

LEMMA AddRootsKeepsOrder ==
  ASSUME NEW p, Ordered(p), NEW m \in Metrics
  PROVE  Ordered(AddRoots(p, m)) /\ ToSet(AddRoots(p, m)) = ToSet(p) \cup Closure(m)
<1> DEFINE r == Roots(m)
<1>1. CASE m = "revenue_change"
  <2>1. ToSet(r) = {r[1]} /\ Len(r) = 1
    BY <1>1, PairSet DEF Roots
  <2>2. r[1] \in Nodes
    BY <2>1, MetricFacts
  <2>3. Closure(m) = {r[1]} \cup Deps(r[1])
    BY <2>1 DEF Closure
  <2> QED BY <2>1, <2>2, <2>3, AddNodeKeepsOrder DEF AddRoots
<1>2. CASE m # "revenue_change"
  <2>1. ToSet(r) = {r[1], r[2]} /\ Len(r) = 2
    BY <1>2, PairSet DEF Roots
  <2>2. r[1] \in Nodes /\ r[2] \in Nodes
    BY <2>1, MetricFacts
  <2>3. Closure(m) = {r[1], r[2]} \cup Deps(r[1]) \cup Deps(r[2])
    BY <2>1 DEF Closure
  <2>4. Ordered(AddNode(p, r[1])) /\ ToSet(AddNode(p, r[1])) = ToSet(p) \cup {r[1]} \cup Deps(r[1])
    BY <2>2, AddNodeKeepsOrder
  <2>5. AddRoots(p, m) = AddNode(AddNode(p, r[1]), r[2])
    BY <2>1 DEF AddRoots
  <2> QED BY <2>2, <2>3, <2>4, <2>5, AddNodeKeepsOrder
<1> QED BY <1>1, <1>2

-----------------------------------------------------------------------------
(* Initial states *)

LEMMA InitInv == Init => IInv
<1> SUFFICES ASSUME Init PROVE IInv
  OBVIOUS
<1>1. TypeOK
  <2>1. input \in Inputs /\ pc = "plan" /\ plan \in Seq(Nodes) /\ pos \in Nat \ {0} /\ tainted \subseteq Nodes
        /\ failed \subseteq Nodes
    BY DEF Init
  <2>2. execution \in [Nodes -> {"none", "completed", "failed"}]
        /\ evidence \in [Nodes -> {"none", "passed", "failed"}] /\ passed \in [Nodes -> 0..3]
    BY DEF Init
  <2>3. file \in [Files -> {"absent", "intact", "damaged"}]
    BY DEF Init
  <2>4. faults \in 0..MaxFaults
    BY PipelineAssumption DEF Init
  <2> QED BY <2>1, <2>2, <2>3, <2>4 DEF TypeOK
<1>2. PlanFits
  <2>1. plan = <<>> /\ pc = "plan" /\ pos = 1
    BY DEF Init
  <2>2. Ordered(plan)
    BY <2>1 DEF Ordered
  <2> QED BY <2>1, <2>2 DEF PlanFits, Looping, Executing, Validating, Admitting
<1>3. ExecutionFits /\ ValidationFits /\ TaintFits /\ EvidenceFits
  BY NodeFacts DEF Init, ExecutionFits, ValidationFits, TaintFits, EvidenceFits, Planning, Executing, Validating, Admitting
<1>4. UndamagedFits
  <2>1. input.canonical => Intact(Canonical)
    BY DEF Init, Intact, Files
  <2> QED BY <2>1 DEF Init, UndamagedFits, Admitting
<1> QED BY <1>1, <1>2, <1>3, <1>4 DEF IInv

-----------------------------------------------------------------------------
(* Positions *)

LEMMA PlanFacts ==
  ASSUME IInv
  PROVE  /\ plan \in Seq(Nodes) /\ Len(plan) \in Nat /\ DOMAIN plan = 1..Len(plan)
         /\ \A i \in DOMAIN plan : plan[i] \in Nodes
         /\ \A i, j \in DOMAIN plan : plan[i] = plan[j] => i = j
         /\ \A i \in DOMAIN plan : plan[i] \in ToSet(plan)
         /\ \A n \in ToSet(plan) : \E i \in DOMAIN plan : n = plan[i]
<1>1. plan \in Seq(Nodes)
  BY DEF IInv, TypeOK
<1> QED BY <1>1, SetOfSeq DEF IInv, PlanFits, Ordered

LEMMA LoopFacts ==
  ASSUME IInv, pc \in Looping
  PROVE  /\ pos \in DOMAIN plan /\ Current \in Nodes /\ Current \in ToSet(plan)
         /\ \A i \in DOMAIN plan : plan[i] = Current <=> i = pos
         /\ input.canonical
<1>1. pos \in DOMAIN plan /\ input.canonical
  BY DEF IInv, PlanFits, Looping, Executing, Validating, Admitting
<1> QED BY <1>1, PlanFacts DEF Current

\* A step of the loops is about the node they are at and leaves the request and plan.
LEMMA NodeStepFacts ==
  ASSUME IInv, NEW n \in Nodes, NodeStep(n)
  PROVE  /\ pc \in Looping /\ n = Current
         /\ input' = input /\ plan' = plan
         /\ pc' \in Looping \cup {"done", "aborted"}
         /\ pos' \in DOMAIN plan
<1>1. pc \in Looping /\ n = Current /\ input' = input /\ plan' = plan
  BY DEF NodeStep, SkipBlocked, ExecutionFails, ExecutionSucceeds, ExecuteTotal, ExecuteAov,
         ExecuteRevenueChange, Complete, RecordExecution, SkipUnexecuted, CheckContext, RulesFail, RulesRaise,
         RulesPass, RegisterValidated, RecordRule, RecordFailure, SkipUnrequested, RefuseEvidence,
         WriteEvidence, VerifyEvidence, RecordEvidence, At, Current, Looping, Executing, Validating, Admitting
<1>2. /\ \A next : Go(next) => pc' = next /\ pos' = pos
      /\ \A phase, next : Advance(phase, next) => pc' \in {phase, next} /\ pos' \in {pos + 1, 1} /\ (pos' = 1 \/ pos < Len(plan))
  BY DEF Go, Advance
<1>3. pc' \in Looping \cup {"done", "aborted"}
  BY <1>2 DEF NodeStep, SkipBlocked, ExecutionFails, ExecutionSucceeds, ExecuteTotal, ExecuteAov,
         ExecuteRevenueChange, Complete, RecordExecution, SkipUnexecuted, CheckContext, RulesFail, RulesRaise,
         RulesPass, RegisterValidated, RecordRule, RecordFailure, SkipUnrequested, RefuseEvidence,
         WriteEvidence, VerifyEvidence, RecordEvidence, AdvanceExecution, AdvanceValidation, AdvanceAdmission,
         Looping, Executing, Validating, Admitting
<1>4. pos' = pos \/ pos' = 1 \/ (pos' = pos + 1 /\ pos < Len(plan))
  BY <1>2 DEF NodeStep, SkipBlocked, ExecutionFails, ExecutionSucceeds, ExecuteTotal, ExecuteAov,
         ExecuteRevenueChange, Complete, RecordExecution, SkipUnexecuted, CheckContext, RulesFail, RulesRaise,
         RulesPass, RegisterValidated, RecordRule, RecordFailure, SkipUnrequested, RefuseEvidence,
         WriteEvidence, VerifyEvidence, RecordEvidence, AdvanceExecution, AdvanceValidation, AdvanceAdmission
<1> QED BY <1>1, <1>3, <1>4, LoopFacts, PlanFacts

-----------------------------------------------------------------------------
(* Every step keeps the types and the plan. *)

LEMMA FileWritten ==
  ASSUME file \in [Files -> {"absent", "intact", "damaged"}], NEW f \in Files, WriteFile(f)
  PROVE  /\ file' \in [Files -> {"absent", "intact", "damaged"}]
         /\ Intact(f)'
         /\ \A g \in Files : g # f => file'[g] = file[g]
BY DEF WriteFile, Intact

LEMMA NodeFiles ==
  ASSUME NEW n \in Nodes
  PROVE  /\ <<"result", n>> \in Files /\ <<"validated", n>> \in Files /\ <<"evidence", n>> \in Files
         /\ <<"result", n>> # Canonical /\ <<"validated", n>> # Canonical /\ <<"evidence", n>> # Canonical
         /\ Canonical \in Files
BY DEF Files, Canonical

LEMMA NodeStepType ==
  ASSUME IInv, NEW n \in Nodes, NodeStep(n)
  PROVE  TypeOK'
<1>1. TypeOK /\ faults' = faults
  BY DEF IInv, NodeStep, SkipBlocked, ExecutionFails, ExecutionSucceeds, ExecuteTotal, ExecuteAov,
         ExecuteRevenueChange, Complete, RecordExecution, SkipUnexecuted, CheckContext, RulesFail, RulesRaise,
         RulesPass, RegisterValidated, RecordRule, RecordFailure, SkipUnrequested, RefuseEvidence,
         WriteEvidence, VerifyEvidence, RecordEvidence
<1>2. /\ input' \in Inputs /\ plan' \in Seq(Nodes) /\ pos' \in Nat \ {0} /\ faults' \in 0..MaxFaults
      /\ pc' \in Looping \cup {"done", "aborted"}
  BY <1>1, NodeStepFacts, PlanFacts DEF TypeOK
<1>3. execution' \in [Nodes -> {"none", "completed", "failed"}] /\ failed' \subseteq Nodes /\ tainted' \subseteq Nodes
  BY <1>1 DEF TypeOK, NodeStep, SkipBlocked, ExecutionFails, ExecutionSucceeds, ExecuteTotal, ExecuteAov,
         ExecuteRevenueChange, Complete, RecordExecution, SkipUnexecuted, CheckContext, RulesFail, RulesRaise,
         RulesPass, RegisterValidated, RecordRule, RecordFailure, SkipUnrequested, RefuseEvidence,
         WriteEvidence, VerifyEvidence, RecordEvidence, rows
<1>4. evidence' \in [Nodes -> {"none", "passed", "failed"}]
  BY <1>1 DEF TypeOK, NodeStep, SkipBlocked, ExecutionFails, ExecutionSucceeds, ExecuteTotal, ExecuteAov,
         ExecuteRevenueChange, Complete, RecordExecution, SkipUnexecuted, CheckContext, RulesFail, RulesRaise,
         RulesPass, RegisterValidated, RecordRule, RecordFailure, SkipUnrequested, RefuseEvidence,
         WriteEvidence, VerifyEvidence, RecordEvidence, rows
<1>5. passed' \in [Nodes -> 0..3]
  <2>1. CASE RecordRule(n)
    <3>1. passed[n] <= RuleCount(MetricOf(n)) /\ passed[n] # RuleCount(MetricOf(n))
      BY <2>1, NodeStepFacts DEF RecordRule, IInv, ValidationFits, Validated
    <3>2. passed[n] + 1 \in 0..3
      BY <1>1, <3>1, NodeFacts DEF TypeOK
    <3> QED BY <1>1, <2>1, <3>2 DEF RecordRule, TypeOK
  <2>2. CASE ~RecordRule(n)
    <3>1. passed' = passed
      BY <2>2 DEF NodeStep, SkipBlocked, ExecutionFails, ExecutionSucceeds, ExecuteTotal, ExecuteAov,
             ExecuteRevenueChange, Complete, RecordExecution, SkipUnexecuted, CheckContext, RulesFail, RulesRaise,
             RulesPass, RegisterValidated, RecordFailure, SkipUnrequested, RefuseEvidence,
             WriteEvidence, VerifyEvidence, RecordEvidence, rows
    <3> QED BY <1>1, <3>1 DEF TypeOK
  <2> QED BY <2>1, <2>2
<1>6. file' \in [Files -> {"absent", "intact", "damaged"}]
  <2>1. file' = file \/ WriteFile(<<"result", n>>) \/ WriteFile(<<"validated", n>>) \/ WriteFile(<<"evidence", n>>)
    BY DEF NodeStep, SkipBlocked, ExecutionFails, ExecutionSucceeds, ExecuteTotal, ExecuteAov,
           ExecuteRevenueChange, Complete, RecordExecution, SkipUnexecuted, CheckContext, RulesFail, RulesRaise,
           RulesPass, RegisterValidated, RecordRule, RecordFailure, SkipUnrequested, RefuseEvidence,
           WriteEvidence, VerifyEvidence, RecordEvidence
  <2> QED BY <1>1, <2>1, FileWritten, NodeFiles DEF TypeOK
<1> QED BY <1>2, <1>3, <1>4, <1>5, <1>6 DEF TypeOK, Looping, Executing, Validating, Admitting

LEMMA NodeStepPlan ==
  ASSUME IInv, NEW n \in Nodes, NodeStep(n)
  PROVE  PlanFits'
<1>1. /\ input' = input /\ plan' = plan /\ pos' \in DOMAIN plan /\ input.canonical /\ pc \in Looping
      /\ pc' \in Looping \cup {"done", "aborted"}
  BY NodeStepFacts, LoopFacts
<1>2. Ordered(plan) /\ ToSet(plan) = Wanted(Len(input.metrics))
  BY <1>1 DEF IInv, PlanFits
<1>3. Ordered(plan)' /\ (ToSet(plan) = Wanted(Len(input.metrics)))'
  BY <1>1, <1>2 DEF Ordered, Wanted
<1> QED BY <1>1, <1>3 DEF PlanFits, Looping, Executing, Validating, Admitting

\* What leads to the loops leaves all records and files as they are.
LEMMA PlanningStep ==
  ASSUME IInv, ReportOnly \/ RefuseDuplicates \/ BuildPlan \/ PlanMetric \/ StartExecution
  PROVE  TypeOK' /\ PlanFits'
<1>1. TypeOK /\ PlanFits /\ input' = input
  BY DEF IInv, ReportOnly, RefuseDuplicates, BuildPlan, PlanMetric, StartExecution
<1>2. CASE ReportOnly \/ RefuseDuplicates \/ BuildPlan
  <2>1. /\ pc = "plan" /\ plan' = plan /\ pos' = pos
        /\ \/ pc' = "done" /\ ~input.canonical
           \/ pc' \in {"aborted", "build"} /\ input.canonical
    BY <1>2 DEF ReportOnly, RefuseDuplicates, BuildPlan, Go
  <2>2. TypeOK'
    BY <1>1, <1>2, <2>1 DEF TypeOK, ReportOnly, RefuseDuplicates, BuildPlan, rows
  <2>3. Wanted(0) = {} /\ ToSet(<<>>) = {}
    <3>1. 1..0 = {}
      OBVIOUS
    <3> QED BY <3>1, PairSet DEF Wanted
  <2>4. plan = <<>> /\ pos = 1
    BY <1>1, <2>1 DEF PlanFits
  <2>5. pc' = "build" => pos' <= Len(input'.metrics) /\ ToSet(plan') = (Wanted(pos - 1))'
    <3>1. Len(input.metrics) \in Nat /\ 1 <= Len(input.metrics)
      BY <1>1, InputFacts
    <3>2. (Wanted(pos - 1))' = Wanted(0)
      BY <1>1, <2>1, <2>4 DEF Wanted
    <3>3. pos' = 1 /\ input' = input /\ plan' = <<>>
      BY <1>1, <2>1, <2>4
    <3>4. pos' <= Len(input'.metrics)
      BY <3>1, <3>3
    <3> QED BY <2>3, <3>2, <3>3, <3>4
  <2>6. Ordered(plan)'
    BY <1>1, <2>1 DEF PlanFits, Ordered
  <2>7. ~input'.canonical => pc' = "done" /\ plan' = <<>>
    BY <1>1, <2>1, <2>4
  <2> QED BY <1>1, <2>1, <2>2, <2>5, <2>6, <2>7 DEF PlanFits, Looping, Executing, Validating, Admitting
<1>3. CASE PlanMetric
  <2> DEFINE m == input.metrics[pos]
  <2>1. pc = "build" /\ pos <= Len(input.metrics) /\ ToSet(plan) = Wanted(pos - 1) /\ Ordered(plan) /\ input.canonical
    BY <1>1, <1>3 DEF PlanMetric, PlanFits
  <2>2. m \in Metrics /\ pos \in 1..Len(input.metrics) /\ Len(input.metrics) \in Nat
    BY <1>1, <2>1, InputFacts DEF TypeOK
  <2>3. Ordered(plan') /\ ToSet(plan') = ToSet(plan) \cup Closure(m)
    BY <1>3, <2>1, <2>2, AddRootsKeepsOrder DEF PlanMetric
  <2>4. Wanted(pos) = Wanted(pos - 1) \cup Closure(m)
    <3>1. 1..pos = (1..(pos - 1)) \cup {pos}
      BY <2>2
    <3> QED BY <3>1 DEF Wanted
  <2>5. ToSet(plan') = Wanted(pos)
    BY <2>1, <2>3, <2>4
  <2>6. \/ pc' = "build" /\ pos' = pos + 1 /\ pos < Len(input.metrics)
        \/ pc' = "start" /\ pos' = 1 /\ pos = Len(input.metrics)
    BY <1>3, <2>2 DEF PlanMetric
  <2>7. TypeOK'
    BY <1>1, <1>3, <2>2, <2>3, <2>6 DEF TypeOK, PlanMetric, rows, Ordered
  <2>8. Ordered(plan)'
    BY <2>3 DEF Ordered
  <2>9. pc' = "build" => pos' <= Len(input'.metrics) /\ ToSet(plan') = (Wanted(pos - 1))'
    <3>1. pc' = "build" => (Wanted(pos - 1))' = Wanted(pos)
      BY <1>1, <2>2, <2>6 DEF Wanted
    <3> QED BY <1>1, <2>2, <2>5, <2>6, <3>1
  <2>10. pc' = "start" => ToSet(plan') = (Wanted(Len(input.metrics)))'
    BY <1>1, <2>2, <2>5, <2>6 DEF Wanted
  <2> QED BY <1>1, <2>1, <2>6, <2>7, <2>8, <2>9, <2>10 DEF PlanFits, Looping, Executing, Validating, Admitting
<1>4. CASE StartExecution
  <2>1. pc = "start" /\ plan' = plan /\ pos' = pos /\ pos = 1 /\ input.canonical /\ pc' \in {"execute", "aborted"}
    BY <1>1, <1>4 DEF StartExecution, Go, PlanFits
  <2>2. TypeOK'
    BY <1>1, <1>4, <2>1 DEF TypeOK, StartExecution, rows
  <2>3. ToSet(plan) = Wanted(Len(input.metrics)) /\ Ordered(plan)
    BY <1>1, <2>1 DEF PlanFits
  <2>4. 1 \in DOMAIN plan
    <3>1. 1 \in 1..Len(input.metrics) /\ input.metrics[1] \in Metrics
      <4>1. input.metrics \in Seq(Metrics) /\ Len(input.metrics) \in Nat /\ 1 <= Len(input.metrics)
        BY <1>1, InputFacts
      <4> QED BY <4>1
    <3>2. Closure(input.metrics[1]) # {}
      BY <3>1, MetricFacts
    <3>3. ToSet(plan) # {}
      BY <2>3, <3>1, <3>2 DEF Wanted
    <3> QED BY <3>3, PlanFacts
  <2>5. Ordered(plan)' /\ (ToSet(plan) = Wanted(Len(input.metrics)))'
    BY <1>1, <2>1, <2>3, RequestKept DEF Ordered
  <2> QED BY <1>1, <2>1, <2>2, <2>4, <2>5 DEF PlanFits, Looping, Executing, Validating, Admitting
<1> QED BY <1>2, <1>3, <1>4

-----------------------------------------------------------------------------
(* The execution loop *)

\* Validation and admission leave the executions alone and do not go back.
LEMMA AfterExecution ==
  ASSUME IInv, NEW n \in Nodes, NodeStep(n), pc \notin Executing
  PROVE  /\ execution' = execution /\ tainted' = tainted
         /\ pc \in Validating \cup Admitting
         /\ pc' \in Validating \cup Admitting \cup {"done", "aborted"}
<1>1. execution' = execution /\ tainted' = tainted /\ pc \in Validating \cup Admitting
  BY NodeStepFacts
     DEF NodeStep, SkipBlocked, ExecutionFails, ExecutionSucceeds, RecordExecution, SkipUnexecuted,
         CheckContext, RulesFail, RulesRaise, RulesPass, RegisterValidated, RecordRule, RecordFailure,
         SkipUnrequested, RefuseEvidence, WriteEvidence, VerifyEvidence, RecordEvidence, rows,
         Looping, Executing, Validating, Admitting
<1>2. pc' \in Validating \cup Admitting \cup {"done", "aborted"}
  BY DEF NodeStep, SkipBlocked, ExecutionFails, ExecutionSucceeds, RecordExecution, SkipUnexecuted,
         CheckContext, RulesFail, RulesRaise, RulesPass, RegisterValidated, RecordRule, RecordFailure,
         SkipUnrequested, RefuseEvidence, WriteEvidence, VerifyEvidence, RecordEvidence, Go, Advance,
         AdvanceValidation, AdvanceAdmission, Executing, Validating, Admitting
<1> QED BY <1>1, <1>2

LEMMA NodeStepExecution ==
  ASSUME IInv, NEW n \in Nodes, NodeStep(n)
  PROVE  ExecutionFits'
<1> USE DEF Planning, Executing, Validating, Admitting, Looping
<1>1. /\ TypeOK /\ ExecutionFits /\ pc \in Looping /\ n = Current /\ n = plan[pos] /\ pos \in DOMAIN plan
      /\ input' = input /\ plan' = plan /\ n \in ToSet(plan)
  BY NodeStepFacts, LoopFacts DEF IInv, Current
<1>2. /\ DOMAIN plan = 1..Len(plan) /\ Len(plan) \in Nat /\ \A i \in DOMAIN plan : plan[i] \in Nodes
      /\ \A i \in DOMAIN plan : plan[i] = n <=> i = pos
  BY <1>1, PlanFacts, LoopFacts
<1>3. \A x : Authorized(x)' = Authorized(x)
  BY <1>1, RequestKept
<1>4. execution \in [Nodes -> {"none", "completed", "failed"}]
  BY <1>1 DEF TypeOK
<1>5. CASE pc \notin Executing
  <2>1. /\ execution' = execution /\ pc \in Validating \cup Admitting
        /\ pc' \in Validating \cup Admitting \cup {"done", "aborted"}
    BY <1>5, AfterExecution
  <2> QED BY <1>1, <1>3, <2>1 DEF ExecutionFits
<1>6. CASE SkipBlocked(n)
  <2>1. execution' = execution /\ Authorized(n) = {} /\ pc = "execute"
        /\ \/ pos < Len(plan) /\ pc' = "execute" /\ pos' = pos + 1
           \/ pos = Len(plan) /\ pc' = "validate" /\ pos' = 1
    BY <1>1, <1>2, <1>6 DEF SkipBlocked, rows, AdvanceExecution, Advance
  <2> QED BY <1>1, <1>2, <1>3, <2>1 DEF ExecutionFits
<1>7. CASE ExecutionFails(n)
  <2>1. execution' = [execution EXCEPT ![n] = "failed"] /\ Authorized(n) # {} /\ pc = "execute"
        /\ \/ pos < Len(plan) /\ pc' = "execute" /\ pos' = pos + 1
           \/ pos = Len(plan) /\ pc' = "validate" /\ pos' = 1
    BY <1>1, <1>2, <1>7 DEF ExecutionFails, AdvanceExecution, Advance
  <2>2. execution[n] = "none"
    BY <1>1, <1>2, <2>1 DEF ExecutionFits
  <2>3. \A x \in Nodes : x # n => execution'[x] = execution[x]
    BY <1>4, <2>1
  <2>4. execution'[n] = "failed"
    BY <1>4, <2>1
  <2> QED BY <1>1, <1>2, <1>3, <2>1, <2>2, <2>3, <2>4, NodeFacts DEF ExecutionFits
<1>8. CASE ExecutionSucceeds(n)
  <2>1. execution' = execution /\ Authorized(n) # {} /\ pc = "execute" /\ pc' = "record_execution" /\ pos' = pos
    BY <1>8 DEF ExecutionSucceeds, ExecuteTotal, ExecuteAov, ExecuteRevenueChange, Complete, rows, Go
  <2>2. \A d \in Deps(n) : execution[d] = "completed"
    BY <1>8, NodeFacts DEF ExecutionSucceeds, ExecuteTotal, ExecuteAov, ExecuteRevenueChange,
       AovDependencyResults, RevenueChangeDependencyResults, DependencyRecordHolds
  <2>3. Current' = n
    BY <1>1, <2>1 DEF Current
  <2> QED BY <1>1, <1>2, <1>3, <2>1, <2>2, <2>3 DEF ExecutionFits
<1>9. CASE RecordExecution(n) /\ Intact(<<"result", n>>)
  <2>1. execution' = [execution EXCEPT ![n] = "completed"] /\ pc = "record_execution"
        /\ \/ pos < Len(plan) /\ pc' = "execute" /\ pos' = pos + 1
           \/ pos = Len(plan) /\ pc' = "validate" /\ pos' = 1
    BY <1>1, <1>2, <1>9 DEF RecordExecution, AdvanceExecution, Advance
  <2>2. execution[n] = "none" /\ Authorized(n) # {} /\ \A d \in Deps(n) : execution[d] = "completed"
    BY <1>1, <1>2, <2>1 DEF ExecutionFits
  <2>3. \A x \in Nodes : x # n => execution'[x] = execution[x]
    BY <1>4, <2>1
  <2>4. execution'[n] = "completed"
    BY <1>4, <2>1
  <2> QED BY <1>1, <1>2, <1>3, <2>1, <2>2, <2>3, <2>4, NodeFacts DEF ExecutionFits
<1>10. CASE RecordExecution(n) /\ ~Intact(<<"result", n>>)
  <2>1. execution' = execution /\ pc' = "aborted"
    BY <1>10 DEF RecordExecution, Go
  <2> QED BY <1>1, <1>3, <2>1 DEF ExecutionFits
<1> QED BY <1>5, <1>6, <1>7, <1>8, <1>9, <1>10
     DEF NodeStep, SkipUnexecuted, CheckContext, RulesFail, RulesRaise, RulesPass, RegisterValidated,
         RecordRule, SkipUnrequested, RefuseEvidence, WriteEvidence, VerifyEvidence

-----------------------------------------------------------------------------
(* The validation loop *)

\* Execution records nothing about validation and ends, if at all, at its beginning.
LEMMA BeforeValidation ==
  ASSUME IInv, NEW n \in Nodes, NodeStep(n), pc \in Executing
  PROVE  /\ passed' = passed /\ failed' = failed /\ evidence' = evidence
         /\ pc' \in Executing \cup {"validate", "aborted"}
         /\ pc' = "validate" => pos' = 1
BY DEF NodeStep, SkipBlocked, ExecutionFails, ExecutionSucceeds, ExecuteTotal, ExecuteAov,
       ExecuteRevenueChange, Complete, RecordExecution, SkipUnexecuted,
       CheckContext, RulesFail, RulesRaise, RulesPass, RegisterValidated, RecordRule,
       SkipUnrequested, RefuseEvidence, WriteEvidence, VerifyEvidence, rows, Executing,
       AdvanceExecution, Advance, Go

LEMMA AfterValidation ==
  ASSUME IInv, NEW n \in Nodes, NodeStep(n), pc \in Admitting
  PROVE  /\ execution' = execution /\ passed' = passed /\ failed' = failed /\ tainted' = tainted
         /\ pc' \in Admitting \cup {"done"}
BY DEF NodeStep, SkipBlocked, ExecutionFails, ExecutionSucceeds, RecordExecution, SkipUnexecuted,
       CheckContext, RulesFail, RulesRaise, RulesPass, RegisterValidated, RecordRule,
       SkipUnrequested, RefuseEvidence, WriteEvidence, VerifyEvidence, RecordEvidence, rows, Admitting,
       AdvanceAdmission, Advance, Go

LEMMA ValidatedSame ==
  ASSUME passed' = passed
  PROVE  \A x : Validated(x)' = Validated(x)
BY DEF Validated

LEMMA SettledSame ==
  ASSUME UNCHANGED <<execution, passed, failed>>
  PROVE  \A x : Settled(x)' = Settled(x)
BY DEF Settled, Validated

\* A rule passes only over validated dependencies.
LEMMA RulesPassOverValidated ==
  ASSUME NEW n \in Nodes, RulesPass(n)
  PROVE  \A d \in Deps(n) : Validated(d)
<1>1. CASE MetricOf(n) = "aov"
  BY <1>1 DEF RulesPass, AovDependencies, BundleHolds
<1>2. CASE MetricOf(n) = "revenue_change"
  BY <1>2 DEF RulesPass, RevenueChangeRulesFail, RevenueChangeDependencies, BundleHolds
<1>3. CASE MetricOf(n) \notin {"aov", "revenue_change"}
  BY <1>3, NodeFacts
<1> QED BY <1>1, <1>2, <1>3

LEMMA NodeStepValidation ==
  ASSUME IInv, NEW n \in Nodes, NodeStep(n)
  PROVE  ValidationFits'
<1> USE DEF Planning, Executing, Validating, Admitting
<1>1. /\ TypeOK /\ ValidationFits /\ n = plan[pos] /\ pos \in DOMAIN plan /\ plan' = plan
      /\ pc \in Executing \cup Validating \cup Admitting /\ pos' \in DOMAIN plan
  BY NodeStepFacts, LoopFacts DEF IInv, Current, Looping
<1>2. /\ DOMAIN plan = 1..Len(plan) /\ Len(plan) \in Nat /\ \A i \in DOMAIN plan : plan[i] \in Nodes
      /\ \A i \in DOMAIN plan : plan[i] = n <=> i = pos
  BY PlanFacts, LoopFacts, NodeStepFacts
<1>3. passed \in [Nodes -> 0..3] /\ failed \subseteq Nodes
  BY <1>1 DEF TypeOK
<1>4. CASE pc \in Executing
  <2>1. passed' = passed /\ failed' = failed /\ failed = {} /\ \A x \in Nodes : passed[x] = 0
    BY <1>1, <1>4, BeforeValidation DEF ValidationFits
  <2>2. pc' \in Executing \cup {"validate", "aborted"} /\ (pc' = "validate" => pos' = 1)
    BY <1>4, BeforeValidation
  <2>3. Current' \in Nodes
    BY <1>1, <1>2 DEF Current
  <2> QED BY <1>1, <1>2, <2>1, <2>2, <2>3, NodeFacts DEF ValidationFits
<1>5. CASE pc \in Admitting
  <2>1. /\ UNCHANGED <<execution, passed, failed>>
        /\ pc' \in Admitting \cup {"done"}
    BY <1>5, AfterValidation
  <2> QED BY <1>1, <1>5, <2>1, ValidatedSame, SettledSame DEF ValidationFits
<1>6. CASE SkipUnexecuted(n)
  <2>1. UNCHANGED <<execution, passed, failed>> /\ pc = "validate" /\ execution[n] # "completed"
        /\ \/ pos < Len(plan) /\ pc' = "validate" /\ pos' = pos + 1
           \/ pos = Len(plan) /\ pc' = "admit" /\ pos' = 1
    BY <1>1, <1>2, <1>6 DEF SkipUnexecuted, rows, AdvanceValidation, Advance
  <2>2. Settled(n)
    BY <1>1, <2>1 DEF ValidationFits, Settled, Current
  <2> QED BY <1>1, <1>2, <2>1, <2>2, ValidatedSame, SettledSame DEF ValidationFits, Current
<1>7. CASE pc \in Validating /\ RecordFailure(n) /\ pc # "record_rules" /\ execution[n] = "completed"
  <2>1. UNCHANGED <<execution, passed>> /\ failed' = failed \cup {n}
        /\ \/ pos < Len(plan) /\ pc' = "validate" /\ pos' = pos + 1
           \/ pos = Len(plan) /\ pc' = "admit" /\ pos' = 1
    BY <1>1, <1>2, <1>7 DEF RecordFailure, AdvanceValidation, Advance
  <2>2. passed[n] = 0
    BY <1>1, <1>7 DEF ValidationFits, Current
  <2>3. Settled(n)'
    BY <2>1, <2>2 DEF Settled
  <2>4. \A x : Settled(x) => Settled(x)'
    BY <2>1 DEF Settled, Validated
  <2>5. \A i \in DOMAIN plan : i > pos => passed[plan[i]] = 0 /\ plan[i] \notin failed'
    BY <1>1, <1>2, <1>7, <2>1 DEF ValidationFits
  <2>6. \A i \in DOMAIN plan : i <= pos => Settled(plan[i])'
    BY <1>1, <1>2, <1>7, <2>3, <2>4 DEF ValidationFits
  <2> QED BY <1>1, <1>2, <1>7, <2>1, <2>2, <2>5, <2>6, ValidatedSame DEF ValidationFits, Current
<1>8. CASE CheckContext(n) /\ ContextHolds(n)
  <2>1. UNCHANGED <<execution, passed, failed>> /\ pc = "validate" /\ execution[n] = "completed"
        /\ pos' = pos /\ pc' = "evaluate"
    BY <1>8 DEF CheckContext, rows, Go
  <2> QED BY <1>1, <2>1, ValidatedSame, SettledSame DEF ValidationFits, Current
<1>9. CASE RulesPass(n)
  <2>1. UNCHANGED <<execution, passed, failed>> /\ pc = "evaluate" /\ pos' = pos /\ pc' = "register_validated"
    BY <1>9 DEF RulesPass, rows, Go
  <2>2. \A d \in Deps(n) : Validated(d)
    BY <1>9, RulesPassOverValidated
  <2> QED BY <1>1, <2>1, <2>2, ValidatedSame, SettledSame DEF ValidationFits, Current
<1>10. CASE pc = "register_validated" /\ pc' = "record_rules" /\ pos' = pos /\ UNCHANGED <<execution, passed, failed>>
  <2>1. passed[n] = 0
    BY <1>1, <1>10 DEF ValidationFits, Current
  <2>2. ~Validated(n)
    BY <2>1, NodeFacts DEF Validated
  <2> QED BY <1>1, <1>10, <2>2, ValidatedSame, SettledSame DEF ValidationFits, Current
<1>11. CASE pc \in Validating /\ pc' = "aborted" /\ UNCHANGED <<execution, passed, failed>>
  BY <1>1, <1>11, ValidatedSame DEF ValidationFits
<1>12. CASE RecordRule(n)
  <2>1. /\ UNCHANGED <<execution, failed>> /\ passed' = [passed EXCEPT ![n] = passed[n] + 1] /\ pc = "record_rules"
        /\ \/ passed'[n] < RuleCount(MetricOf(n)) /\ pc' = "record_rules" /\ pos' = pos
           \/ passed'[n] >= RuleCount(MetricOf(n)) /\ pos < Len(plan) /\ pc' = "validate" /\ pos' = pos + 1
           \/ passed'[n] >= RuleCount(MetricOf(n)) /\ pos = Len(plan) /\ pc' = "admit" /\ pos' = 1
    <3>1. passed'[n] \in Int /\ RuleCount(MetricOf(n)) \in Int
      BY <1>3, <1>12, NodeFacts DEF RecordRule
    <3> QED BY <1>1, <1>2, <1>12, <3>1 DEF RecordRule, Go, AdvanceValidation, Advance
  <2>2. /\ ~Validated(n) /\ passed[n] <= RuleCount(MetricOf(n)) /\ execution[n] = "completed" /\ n \notin failed
        /\ \A d \in Deps(n) : Validated(d)
    BY <1>1, <2>1 DEF ValidationFits, Current
  <2>3. /\ passed'[n] = passed[n] + 1 /\ \A x \in Nodes : x # n => passed'[x] = passed[x]
        /\ passed'[n] <= RuleCount(MetricOf(n)) /\ passed'[n] > 0
    BY <1>3, <2>1, <2>2, NodeFacts DEF Validated
  <2>4. \A x \in Nodes : Validated(x) => Validated(x)'
    BY <2>2, <2>3 DEF Validated
  <2>5. \A x \in Nodes : Settled(x) /\ x # n => Settled(x)'
    BY <2>1, <2>3, <2>4 DEF Settled
  <2>6. passed'[n] >= RuleCount(MetricOf(n)) => Settled(n)' /\ Validated(n)'
    BY <1>3, <2>1, <2>3, NodeFacts DEF Settled, Validated
  <2>7. passed'[n] < RuleCount(MetricOf(n)) => ~Validated(n)'
    BY <1>3, <2>3, NodeFacts DEF Validated
  <2>8. \A x \in Nodes : passed'[x] > 0 =>
          execution'[x] = "completed" /\ x \notin failed' /\ \A d \in Deps(x) : Validated(d)'
    BY <1>1, <2>1, <2>2, <2>3, <2>4, NodeFacts DEF ValidationFits
  <2>9. \A i \in DOMAIN plan :
          /\ i > pos => passed'[plan[i]] = 0 /\ plan[i] \notin failed'
          /\ i < pos => Settled(plan[i])'
    BY <1>1, <1>2, <2>1, <2>3, <2>5 DEF ValidationFits
  <2>10. \A d \in Deps(n) : Validated(d)'
    BY <2>2, <2>4, NodeFacts
  <2>11. Current' = plan[pos']
    BY <1>1 DEF Current
  <2>12. \A x \in failed' : execution'[x] = "completed"
    BY <1>1, <2>1 DEF ValidationFits
  <2>13. \A x \in Nodes : passed'[x] <= RuleCount(MetricOf(x))
    BY <1>1, <2>3 DEF ValidationFits
  <2>14. CASE pc' = "record_rules" /\ pos' = pos /\ passed'[n] < RuleCount(MetricOf(n))
    BY <1>1, <1>2, <2>1, <2>2, <2>7, <2>8, <2>9, <2>10, <2>11, <2>12, <2>13, <2>14 DEF ValidationFits
  <2>15. CASE pc' = "validate" /\ pos' = pos + 1 /\ pos < Len(plan) /\ passed'[n] >= RuleCount(MetricOf(n))
    <3>1. \A i \in DOMAIN plan : i < pos' => Settled(plan[i])'
      BY <1>1, <1>2, <2>6, <2>9, <2>15
    <3>2. passed'[plan[pos']] = 0 /\ plan[pos'] \notin failed'
      BY <1>1, <1>2, <2>9, <2>15
    <3> QED BY <1>1, <1>2, <2>8, <2>9, <2>11, <2>12, <2>13, <2>15, <3>1, <3>2 DEF ValidationFits
  <2>16. CASE pc' = "admit" /\ pos = Len(plan) /\ passed'[n] >= RuleCount(MetricOf(n))
    <3>1. \A i \in DOMAIN plan : Settled(plan[i])'
      BY <1>1, <1>2, <2>6, <2>9, <2>16
    <3> QED BY <1>1, <2>8, <2>12, <2>13, <2>16, <3>1 DEF ValidationFits
  <2> QED BY <2>1, <2>14, <2>15, <2>16
<1>13. pc = "evaluate" \/ pc = "register_validated" => execution[n] = "completed"
  BY <1>1 DEF ValidationFits, Current
<1>14. CheckContext(n) => ContextHolds(n) \/ (pc = "validate" /\ RecordFailure(n) /\ execution[n] = "completed")
  BY DEF CheckContext
<1>15. RulesFail(n) => pc = "evaluate" /\ RecordFailure(n)
  BY DEF RulesFail
<1>16. RulesRaise(n) => pc = "evaluate" /\ pc' = "aborted" /\ UNCHANGED <<execution, passed, failed>>
  BY DEF RulesRaise, Go, rows
<1>17. RegisterValidated(n) => /\ pc = "register_validated"
         /\ \/ RecordFailure(n)
            \/ pc' \in {"record_rules", "aborted"} /\ pos' = pos /\ UNCHANGED <<execution, passed, failed>>
  BY DEF RegisterValidated, Go, rows
<1>18. pc \in Validating => SkipUnexecuted(n) \/ CheckContext(n) \/ RulesFail(n) \/ RulesRaise(n)
         \/ RulesPass(n) \/ RegisterValidated(n) \/ RecordRule(n)
  BY DEF NodeStep, SkipBlocked, ExecutionFails, ExecutionSucceeds, RecordExecution, SkipUnrequested, RefuseEvidence,
         WriteEvidence, VerifyEvidence
<1> QED BY <1>1, <1>4, <1>5, <1>6, <1>7, <1>8, <1>9, <1>10, <1>11, <1>12, <1>13, <1>14, <1>15, <1>16, <1>17, <1>18

-----------------------------------------------------------------------------
(* Damage to the canonical dataset *)

\* The pipeline writes each file for one node and never the canonical dataset.
LEMMA NodeStepFiles ==
  ASSUME IInv, NEW n \in Nodes, NodeStep(n)
  PROVE  /\ \A f \in Files \ {<<"result", n>>, <<"validated", n>>, <<"evidence", n>>} : file'[f] = file[f]
         /\ \A f \in Files : Intact(f) => Intact(f)'
         /\ Intact(Canonical)' = Intact(Canonical)
         /\ faults' = faults
<1>1. /\ faults' = faults
      /\ file' = file \/ WriteFile(<<"result", n>>) \/ WriteFile(<<"validated", n>>) \/ WriteFile(<<"evidence", n>>)
  BY DEF NodeStep, SkipBlocked, ExecutionFails, ExecutionSucceeds, ExecuteTotal, ExecuteAov,
         ExecuteRevenueChange, Complete, RecordExecution, SkipUnexecuted, CheckContext, RulesFail, RulesRaise,
         RulesPass, RegisterValidated, RecordRule, RecordFailure, SkipUnrequested, RefuseEvidence,
         WriteEvidence, VerifyEvidence, RecordEvidence
<1>2. file \in [Files -> {"absent", "intact", "damaged"}]
  BY DEF IInv, TypeOK
<1>3. \A f \in Files \ {<<"result", n>>, <<"validated", n>>, <<"evidence", n>>} : file'[f] = file[f]
  BY <1>1, <1>2, FileWritten, NodeFiles
<1>4. \A f \in Files : Intact(f) => Intact(f)'
  BY <1>1, <1>2, FileWritten, NodeFiles DEF Intact
<1>5. file'[Canonical] = file[Canonical]
  BY <1>3, NodeFiles
<1> QED BY <1>1, <1>3, <1>4, <1>5 DEF Intact

LEMMA NodeStepTaint ==
  ASSUME IInv, NEW n \in Nodes, NodeStep(n)
  PROVE  TaintFits'
<1> USE DEF Planning, Executing, Validating, Admitting
<1>1. /\ TypeOK /\ TaintFits /\ ValidationFits /\ n = plan[pos] /\ plan' = plan /\ n = Current
      /\ Intact(Canonical)' = Intact(Canonical) /\ pc \in Executing \cup Validating \cup Admitting
  BY NodeStepFacts, NodeStepFiles DEF IInv, Current, Looping
<1>2. passed \in [Nodes -> 0..3] /\ tainted \subseteq Nodes
  BY <1>1 DEF TypeOK
<1>3. CASE pc \in Executing
  <2>1. passed' = passed /\ (pc' \in Executing \cup {"validate", "aborted"}) /\ \A x \in Nodes : passed[x] = 0
    BY <1>1, <1>3, BeforeValidation DEF ValidationFits
  <2>2. tainted' = tainted \/ (~Intact(Canonical) /\ tainted' = tainted \cup {n})
    BY <1>3 DEF NodeStep, SkipBlocked, ExecutionFails, ExecutionSucceeds, ExecuteTotal, ExecuteAov,
         ExecuteRevenueChange, Complete, RecordExecution, SkipUnexecuted, CheckContext, RulesFail, RulesRaise,
         RulesPass, RegisterValidated, RecordRule, SkipUnrequested, RefuseEvidence, WriteEvidence, VerifyEvidence
  <2> QED BY <1>1, <1>2, <2>1, <2>2 DEF TaintFits
<1>4. CASE pc \in Admitting
  BY <1>1, <1>4, AfterValidation DEF TaintFits
<1>5. CASE pc \in Validating
  <2>1. tainted' = tainted
    BY <1>5, AfterExecution
  <2>2. CASE RecordRule(n)
    <3>1. n \notin tainted /\ passed' = [passed EXCEPT ![n] = passed[n] + 1]
      BY <1>1, <2>2 DEF RecordRule, TaintFits
    <3>2. (pc' = "record_rules" /\ pos' = pos) \/ pc' \in {"validate", "admit"}
      BY <2>2 DEF RecordRule, Go, AdvanceValidation, Advance
    <3>3. pc' = "record_rules" => Current' = n
      BY <1>1, <3>2 DEF Current
    <3> QED BY <1>1, <1>2, <2>1, <3>1, <3>2, <3>3 DEF TaintFits
  <2>3. CASE CheckContext(n) /\ ContextHolds(n)
    <3>1. tainted = {} /\ passed' = passed
      BY <1>1, <2>3 DEF CheckContext, ContextHolds, RecordFailure, TaintFits, rows
    <3> QED BY <1>1, <2>1, <3>1 DEF TaintFits
  <2>4. CASE ~RecordRule(n) /\ ~(CheckContext(n) /\ ContextHolds(n))
    <3>1. passed' = passed
      BY <1>5, <2>4 DEF NodeStep, SkipBlocked, ExecutionFails, ExecutionSucceeds, RecordExecution, SkipUnexecuted,
           CheckContext, RulesFail, RulesRaise, RulesPass, RegisterValidated, RecordFailure, SkipUnrequested,
           RefuseEvidence, WriteEvidence, VerifyEvidence, rows
    <3>2. pc' \in {"evaluate", "register_validated", "record_rules"} =>
            pos' = pos /\ pc \in {"evaluate", "register_validated"}
      BY <1>5, <2>4 DEF NodeStep, SkipBlocked, ExecutionFails, ExecutionSucceeds, RecordExecution, SkipUnexecuted,
           CheckContext, RulesFail, RulesRaise, RulesPass, RegisterValidated, RecordFailure, SkipUnrequested,
           RefuseEvidence, WriteEvidence, VerifyEvidence, Go, AdvanceValidation, Advance
    <3> QED BY <1>1, <2>1, <3>1, <3>2 DEF TaintFits, Current
  <2> QED BY <2>2, <2>3, <2>4
<1> QED BY <1>1, <1>3, <1>4, <1>5

-----------------------------------------------------------------------------
(* The admission loop *)

LEMMA NodeStepEvidence ==
  ASSUME IInv, NEW n \in Nodes, NodeStep(n)
  PROVE  EvidenceFits'
<1> USE DEF Planning, Executing, Validating, Admitting
<1>1. /\ TypeOK /\ EvidenceFits /\ n = plan[pos] /\ plan' = plan /\ pos \in DOMAIN plan /\ input' = input
      /\ pc \in Executing \cup Validating \cup Admitting /\ pc' \in Executing \cup Validating \cup Admitting \cup {"done", "aborted"}
  BY NodeStepFacts, LoopFacts DEF IInv, Current, Looping
<1>2. /\ DOMAIN plan = 1..Len(plan) /\ Len(plan) \in Nat /\ \A i \in DOMAIN plan : plan[i] \in Nodes
      /\ \A i \in DOMAIN plan : plan[i] = n <=> i = pos
  BY PlanFacts, LoopFacts, NodeStepFacts
<1>3. evidence \in [Nodes -> {"none", "passed", "failed"}]
  BY <1>1 DEF TypeOK
<1>4. /\ \A x : RequestCovers(x)' = RequestCovers(x) /\ SufficiencyHolds(x)' = SufficiencyHolds(x)
      /\ Requested' = Requested
  BY <1>1, RequestKept
<1>5. CASE pc \notin Admitting
  <2>1. evidence' = evidence /\ pc' # "record_evidence" /\ \A x \in Nodes : evidence[x] = "none"
    BY <1>1, <1>5 DEF EvidenceFits, NodeStep, SkipBlocked, ExecutionFails, ExecutionSucceeds, ExecuteTotal, ExecuteAov,
         ExecuteRevenueChange, Complete, RecordExecution, SkipUnexecuted, CheckContext, RulesFail, RulesRaise,
         RulesPass, RegisterValidated, RecordRule, RecordFailure, SkipUnrequested, RefuseEvidence,
         WriteEvidence, VerifyEvidence, rows, Go, AdvanceExecution, AdvanceValidation, Advance
  <2> QED BY <1>1, <1>2, <2>1 DEF EvidenceFits
<1>6. CASE pc \in Admitting
  <2>1. passed' = passed /\ pc' \in Admitting \cup {"done"}
    BY <1>6, AfterValidation
  <2>2. \A x : Candidate(x)' = Candidate(x)
    BY <1>4, <2>1, ValidatedSame DEF Candidate
  <2>3. evidence[n] = "none"
    BY <1>1, <1>2, <1>6 DEF EvidenceFits
  <2>4. CASE SkipUnrequested(n)
    <3>1. evidence' = evidence /\ pc = "admit"
          /\ \/ pos < Len(plan) /\ pc' = "admit" /\ pos' = pos + 1
             \/ pos = Len(plan) /\ pc' = "done" /\ pos' = 1
      BY <1>1, <1>2, <2>4 DEF SkipUnrequested, rows, AdvanceAdmission, Advance
    <3> QED BY <1>1, <1>2, <1>4, <2>2, <3>1 DEF EvidenceFits
  <2>5. CASE WriteEvidence(n)
    <3>1. evidence' = evidence /\ pc = "admit" /\ pc' = "record_evidence" /\ pos' = pos
          /\ Candidate(n) /\ RequestCovers(n) /\ SufficiencyHolds(n)
      BY <2>5 DEF WriteEvidence, rows, Go, Admissible
    <3>2. Current' = n
      BY <1>1, <3>1 DEF Current
    <3> QED BY <1>1, <1>2, <1>4, <2>2, <3>1, <3>2 DEF EvidenceFits
  <2>6. CASE RefuseEvidence(n) \/ VerifyEvidence(n)
    <3>1. PICK status \in {"passed", "failed"} : evidence' = [evidence EXCEPT ![n] = status]
            /\ (status = "passed" => RequestCovers(n) /\ SufficiencyHolds(n))
      BY <1>1, <2>6 DEF RefuseEvidence, VerifyEvidence, RecordEvidence, EvidenceFits, Current
    <3>2. Candidate(n)
      BY <1>1, <2>6 DEF RefuseEvidence, VerifyEvidence, EvidenceFits, Current
    <3>3. \/ pos < Len(plan) /\ pc' = "admit" /\ pos' = pos + 1
          \/ pos = Len(plan) /\ pc' = "done" /\ pos' = 1
      BY <1>1, <1>2, <2>6 DEF RefuseEvidence, VerifyEvidence, RecordEvidence, AdvanceAdmission, Advance
    <3>4. evidence'[n] = status /\ \A x \in Nodes : x # n => evidence'[x] = evidence[x]
      BY <1>3, <3>1
    <3> QED BY <1>1, <1>2, <1>4, <1>6, <2>2, <3>1, <3>2, <3>3, <3>4 DEF EvidenceFits
  <2> QED BY <1>6, <2>4, <2>5, <2>6
       DEF NodeStep, SkipBlocked, ExecutionFails, ExecutionSucceeds, RecordExecution, SkipUnexecuted,
           CheckContext, RulesFail, RulesRaise, RulesPass, RegisterValidated, RecordRule
<1> QED BY <1>5, <1>6

-----------------------------------------------------------------------------
(* Nothing is lost that nobody damaged. *)

\* What the node at hand is computed from has been validated before it.
LEMMA DependenciesValidated ==
  ASSUME IInv, pc \in Validating, failed = {}, execution[Current] = "completed"
  PROVE  \A d \in Deps(Current) : execution[d] = "completed" /\ Validated(d) /\ passed[d] > 0
<1>1. /\ Ordered(plan) /\ ExecutionFits /\ ValidationFits /\ pos \in DOMAIN plan /\ Current \in Nodes
      /\ DOMAIN plan = 1..Len(plan) /\ Current = plan[pos]
  BY LoopFacts, PlanFacts DEF IInv, PlanFits, Looping, Current
<1> TAKE d \in Deps(Current)
<1>2. PICK j \in DOMAIN plan : j < pos /\ plan[j] = d
  BY <1>1 DEF Ordered
<1>3. execution[d] = "completed"
  BY <1>1 DEF ExecutionFits
<1>4. Settled(d) /\ d \in Nodes
  BY <1>1, <1>2, NodeFacts DEF ValidationFits
<1>5. Validated(d)
  BY <1>3, <1>4 DEF Settled
<1> QED BY <1>3, <1>4, <1>5, NodeFacts DEF Validated

LEMMA NothingRefused ==
  ASSUME IInv, faults = 0, NEW n \in Nodes, NodeStep(n)
  PROVE  ~RecordFailure(n) \/ pc \notin Validating
<1> SUFFICES ASSUME pc \in Validating PROVE ~RecordFailure(n) \/ FALSE
  OBVIOUS
<1>1. /\ UndamagedFits /\ ValidationFits /\ n = Current /\ input.canonical
      /\ Intact(Canonical) /\ failed = {}
  BY NodeStepFacts, LoopFacts DEF IInv, UndamagedFits
<1>2. CASE CheckContext(n)
  <2>1. ContextHolds(n)
    BY <1>1, <1>2 DEF CheckContext, ContextHolds, UndamagedFits
  <2>2. failed' = failed
    BY <1>2, <2>1 DEF CheckContext, rows
  <2> QED BY <1>1, <2>2 DEF RecordFailure
<1>3. CASE RulesFail(n)
  <2>1. execution[n] = "completed" /\ pc = "evaluate"
    BY <1>1, <1>3 DEF RulesFail, ValidationFits
  <2>2. \A d \in Deps(n) : execution[d] = "completed" /\ Validated(d) /\ passed[d] > 0
    BY <1>1, <2>1, DependenciesValidated
  <2>3. \A d \in Deps(n) : BundleHolds(d) /\ ExecutedHolds(d)
    BY <1>1, <2>2, NodeFacts DEF UndamagedFits, BundleHolds, ExecutedHolds
  <2> QED BY <1>1, <1>3, <2>3
       DEF RulesFail, ValueDiffers, AovRuleFails, RevenueChangeRulesFail, AovDependencies,
           RevenueChangeDependencies, CurrencyDiffers
<1>4. CASE RegisterValidated(n)
  <2>1. Intact(<<"validated", n>>) /\ failed' = failed
    BY <1>1, <1>4 DEF RegisterValidated, UndamagedFits, rows
  <2> QED BY <1>1, <2>1 DEF RecordFailure
<1>5. CASE failed' = failed
  BY <1>1, <1>5 DEF RecordFailure
<1> QED BY <1>2, <1>3, <1>4, <1>5
     DEF NodeStep, SkipBlocked, ExecutionFails, ExecutionSucceeds, ExecuteTotal, ExecuteAov,
         ExecuteRevenueChange, Complete, RecordExecution, SkipUnexecuted, RulesRaise,
         RulesPass, RecordRule, SkipUnrequested, RefuseEvidence,
         WriteEvidence, VerifyEvidence, RecordEvidence, rows

LEMMA ExecutionUndamaged ==
  ASSUME IInv, faults = 0, NEW n \in Nodes, NodeStep(n), pc \in Executing
  PROVE  UndamagedFits'
<1> USE DEF Planning, Executing, Validating, Admitting
<1>1. /\ TypeOK /\ UndamagedFits /\ ValidationFits /\ n = plan[pos] /\ plan' = plan /\ input' = input /\ n = Current
      /\ Intact(Canonical)' = Intact(Canonical) /\ \A f \in Files : Intact(f) => Intact(f)'
  BY NodeStepFacts, NodeStepFiles DEF IInv, Current
<1>2. passed' = passed /\ failed' = failed /\ pc' \in Executing \cup {"validate", "aborted"}
      /\ failed = {} /\ \A x \in Nodes : passed[x] = 0
  BY <1>1, BeforeValidation DEF ValidationFits
<1>3. \A x \in Nodes : execution'[x] = "completed" => Intact(<<"result", x>>)
  <2>1. CASE RecordExecution(n)
    <3>1. Intact(<<"result", n>>)
      BY <1>1, <2>1 DEF RecordExecution, UndamagedFits
    <3> QED BY <1>1, <2>1, <3>1 DEF RecordExecution, UndamagedFits, TypeOK
  <2>2. CASE ExecutionFails(n)
    BY <1>1, <2>2 DEF ExecutionFails, UndamagedFits, TypeOK
  <2>3. CASE execution' = execution
    BY <1>1, <2>3 DEF UndamagedFits
  <2> QED BY <2>1, <2>2, <2>3 DEF NodeStep, SkipBlocked, ExecutionSucceeds, ExecuteTotal, ExecuteAov,
         ExecuteRevenueChange, Complete, SkipUnexecuted, CheckContext, RulesFail, RulesRaise,
         RulesPass, RegisterValidated, RecordRule, SkipUnrequested, RefuseEvidence, WriteEvidence, VerifyEvidence, rows
<1>4. \A x \in Nodes : execution'[x] = "completed" => Intact(<<"result", x>>)'
  BY <1>1, <1>3, NodeFiles
<1>5. pc' = "record_execution" => Intact(<<"result", Current>>)'
  <2> SUFFICES ASSUME pc' = "record_execution" PROVE Intact(<<"result", Current>>)'
    OBVIOUS
  <2>1. WriteFile(<<"result", n>>) /\ pos' = pos
    BY DEF NodeStep, SkipBlocked, ExecutionFails, ExecutionSucceeds, ExecuteTotal, ExecuteAov,
         ExecuteRevenueChange, Complete, RecordExecution, SkipUnexecuted, CheckContext, RulesFail, RulesRaise,
         RulesPass, RegisterValidated, RecordRule, RecordFailure, SkipUnrequested, RefuseEvidence,
         WriteEvidence, VerifyEvidence, RecordEvidence, Go, AdvanceExecution, AdvanceValidation, AdvanceAdmission, Advance
  <2>2. file'[<<"result", n>>] = "intact" /\ Current' = n
    BY <1>1, <2>1, NodeFiles DEF WriteFile, TypeOK, Current
  <2> QED BY <2>2 DEF Intact
<1>6. input'.canonical => Intact(Canonical)'
  BY <1>1 DEF UndamagedFits
<1> QED BY <1>2, <1>4, <1>5, <1>6 DEF UndamagedFits

LEMMA ValidationUndamaged ==
  ASSUME IInv, faults = 0, NEW n \in Nodes, NodeStep(n), pc \in Validating
  PROVE  UndamagedFits'
<1> USE DEF Planning, Executing, Validating, Admitting
<1>1. /\ TypeOK /\ UndamagedFits /\ ValidationFits /\ n = plan[pos] /\ plan' = plan /\ input' = input /\ n = Current
      /\ Intact(Canonical)' = Intact(Canonical) /\ \A f \in Files : Intact(f) => Intact(f)'
  BY NodeStepFacts, NodeStepFiles DEF IInv, Current
<1>2. execution' = execution /\ pc' \in Validating \cup Admitting \cup {"done", "aborted"}
  BY AfterExecution
<1>3. failed' = failed /\ failed = {}
  BY <1>1, NothingRefused DEF UndamagedFits, NodeStep, SkipBlocked, ExecutionFails, ExecutionSucceeds, RecordExecution,
       SkipUnexecuted, CheckContext, RulesFail, RulesRaise, RulesPass, RegisterValidated, RecordRule,
       SkipUnrequested, RefuseEvidence, WriteEvidence, VerifyEvidence, rows
<1>4. pc' \in Validating \cup {"admit", "aborted"} /\ (pc' = "admit" => pos' = 1)
  BY DEF NodeStep, SkipBlocked, ExecutionFails, ExecutionSucceeds, RecordExecution,
       SkipUnexecuted, CheckContext, RulesFail, RulesRaise, RulesPass, RegisterValidated, RecordRule, RecordFailure,
       SkipUnrequested, RefuseEvidence, WriteEvidence, VerifyEvidence, Go, AdvanceValidation, Advance
<1>5. \A x \in Nodes : passed'[x] > 0 => Intact(<<"validated", x>>)
  <2>1. CASE RecordRule(n)
    BY <1>1, <2>1 DEF RecordRule, UndamagedFits, TypeOK
  <2>2. CASE ~RecordRule(n)
    <3>1. passed' = passed
      BY <2>2 DEF NodeStep, SkipBlocked, ExecutionFails, ExecutionSucceeds, RecordExecution, SkipUnexecuted,
           CheckContext, RulesFail, RulesRaise, RulesPass, RegisterValidated, RecordFailure, SkipUnrequested,
           RefuseEvidence, WriteEvidence, VerifyEvidence, rows
    <3> QED BY <1>1, <3>1 DEF UndamagedFits
  <2> QED BY <2>1, <2>2
<1>6. pc' \in {"register_validated", "record_rules"} => Intact(<<"validated", Current>>)'
  <2> SUFFICES ASSUME pc' \in {"register_validated", "record_rules"} PROVE Intact(<<"validated", Current>>)'
    OBVIOUS
  <2>1. pos' = pos /\ (WriteFile(<<"validated", n>>) \/ pc \in {"register_validated", "record_rules"})
    BY DEF NodeStep, SkipBlocked, ExecutionFails, ExecutionSucceeds, RecordExecution,
         SkipUnexecuted, CheckContext, RulesFail, RulesRaise, RulesPass, RegisterValidated, RecordRule, RecordFailure,
         SkipUnrequested, RefuseEvidence, WriteEvidence, VerifyEvidence, Go, AdvanceValidation, Advance
  <2>2. Current' = n
    BY <1>1, <2>1 DEF Current
  <2>3. Intact(<<"validated", n>>)'
    <3>1. CASE WriteFile(<<"validated", n>>)
      BY <1>1, <3>1, NodeFiles DEF WriteFile, TypeOK, Intact
    <3>2. CASE pc \in {"register_validated", "record_rules"}
      BY <1>1, <3>2, NodeFiles DEF UndamagedFits
    <3> QED BY <2>1, <3>1, <3>2
  <2> QED BY <2>2, <2>3 DEF Intact
<1>7. \A x \in Nodes : passed'[x] > 0 => Intact(<<"validated", x>>)'
  BY <1>1, <1>5, NodeFiles
<1>8. \A x \in Nodes : execution'[x] = "completed" => Intact(<<"result", x>>)'
  BY <1>1, <1>2, NodeFiles DEF UndamagedFits
<1>9. pc' \in Admitting => \A i \in DOMAIN plan' : i < pos' /\ Owed(plan[i])' => evidence'[plan'[i]] = "passed"
  <2>1. DOMAIN plan = 1..Len(plan)
    BY PlanFacts
  <2> QED BY <1>1, <1>4, <2>1
<1>10. input'.canonical => Intact(Canonical)'
  BY <1>1 DEF UndamagedFits
<1> QED BY <1>3, <1>4, <1>6, <1>7, <1>8, <1>9, <1>10 DEF UndamagedFits

\* What is owed is a candidate, and admissible.
LEMMA OwedIsAdmissible ==
  ASSUME IInv, faults = 0, pc \in Admitting, NEW i \in DOMAIN plan, Owed(plan[i])
  PROVE  Candidate(plan[i]) /\ Admissible(plan[i])
<1>1. /\ UndamagedFits /\ Settled(plan[i]) /\ plan[i] \in Nodes /\ failed = {}
      /\ execution[plan[i]] = "completed" /\ RequestCovers(plan[i]) /\ SufficiencyHolds(plan[i])
  BY PlanFacts DEF IInv, ValidationFits, UndamagedFits, Owed
<1>2. Validated(plan[i]) /\ passed[plan[i]] > 0
  <2>1. Validated(plan[i])
    BY <1>1 DEF Settled
  <2> QED BY <1>1, <2>1, NodeFacts DEF Validated
<1>3. Intact(<<"validated", plan[i]>>) /\ Intact(<<"result", plan[i]>>)
  BY <1>1, <1>2 DEF UndamagedFits
<1> QED BY <1>1, <1>2, <1>3 DEF Candidate, Admissible, RequestCovers, ValidatedHolds, ExecutedHolds

LEMMA AdmissionUndamaged ==
  ASSUME IInv, faults = 0, NEW n \in Nodes, NodeStep(n), pc \in Admitting
  PROVE  UndamagedFits'
<1> USE DEF Admitting
<1>1. /\ TypeOK /\ UndamagedFits /\ EvidenceFits /\ n = plan[pos] /\ plan' = plan /\ input' = input /\ n = Current
      /\ pos \in DOMAIN plan /\ Intact(Canonical)' = Intact(Canonical) /\ \A f \in Files : Intact(f) => Intact(f)'
  BY NodeStepFacts, NodeStepFiles, LoopFacts DEF IInv, Current, Looping
<1>2. execution' = execution /\ passed' = passed /\ failed' = failed /\ failed = {} /\ pc' \in Admitting \cup {"done"}
  BY <1>1, AfterValidation DEF UndamagedFits
<1>3. /\ DOMAIN plan = 1..Len(plan) /\ Len(plan) \in Nat /\ \A i \in DOMAIN plan : plan[i] \in Nodes
      /\ \A i \in DOMAIN plan : plan[i] = n <=> i = pos
  BY <1>1, PlanFacts, LoopFacts, NodeStepFacts
<1>4. \A x : Owed(x)' = Owed(x)
  BY <1>1, <1>2, RequestKept DEF Owed
<1>5. \A i \in DOMAIN plan : i < pos /\ Owed(plan[i]) => evidence[plan[i]] = "passed"
  BY <1>1 DEF UndamagedFits
<1>6. Owed(n) => Candidate(n) /\ Admissible(n)
  BY <1>1, OwedIsAdmissible
<1>7. evidence \in [Nodes -> {"none", "passed", "failed"}]
  BY <1>1 DEF TypeOK
<1>8. CASE pc' = "record_evidence"
  <2>1. WriteFile(<<"evidence", n>>) /\ pos' = pos /\ evidence' = evidence
    BY <1>8 DEF NodeStep, SkipBlocked, ExecutionFails, ExecutionSucceeds, ExecuteTotal, ExecuteAov,
         ExecuteRevenueChange, Complete, RecordExecution, SkipUnexecuted, CheckContext, RulesFail, RulesRaise,
         RulesPass, RegisterValidated, RecordRule, RecordFailure, SkipUnrequested, RefuseEvidence,
         WriteEvidence, VerifyEvidence, RecordEvidence, Go, AdvanceExecution, AdvanceValidation, AdvanceAdmission,
         Advance, rows
  <2>2. file'[<<"evidence", n>>] = "intact" /\ Current' = n
    BY <1>1, <2>1, NodeFiles DEF WriteFile, TypeOK, Current
  <2>3. Intact(<<"evidence", Current>>)'
    BY <2>2 DEF Intact
  <2>4. \A i \in DOMAIN plan' : i < pos' /\ Owed(plan[i])' => evidence'[plan'[i]] = "passed"
    BY <1>1, <1>4, <1>5, <2>1
  <2> QED BY <1>1, <1>2, <1>8, <2>3, <2>4, NodeFiles DEF UndamagedFits
<1>9. CASE pc' # "record_evidence"
  <2>1. /\ \/ pos < Len(plan) /\ pc' = "admit" /\ pos' = pos + 1
           \/ pos = Len(plan) /\ pc' = "done" /\ pos' = 1
        /\ (SkipUnrequested(n) \/ RefuseEvidence(n) \/ VerifyEvidence(n))
    <3>1. SkipUnrequested(n) \/ RefuseEvidence(n) \/ VerifyEvidence(n)
      BY <1>9 DEF NodeStep, SkipBlocked, ExecutionFails, ExecutionSucceeds, RecordExecution, SkipUnexecuted,
           CheckContext, RulesFail, RulesRaise, RulesPass, RegisterValidated, RecordRule, WriteEvidence, Go
    <3> QED BY <1>1, <1>3, <3>1 DEF SkipUnrequested, RefuseEvidence, VerifyEvidence, RecordEvidence, AdvanceAdmission, Advance
  <2>2. Owed(n) => evidence'[n] = "passed"
    BY <1>1, <1>6, <1>7, <2>1 DEF SkipUnrequested, RefuseEvidence, VerifyEvidence, RecordEvidence, UndamagedFits
  <2>3. \A x \in Nodes : x # n => evidence'[x] = evidence[x]
    BY <1>7, <2>1 DEF SkipUnrequested, RefuseEvidence, VerifyEvidence, RecordEvidence, rows
  <2>4. \A i \in DOMAIN plan : i <= pos /\ Owed(plan[i])' => evidence'[plan[i]] = "passed"
    BY <1>1, <1>3, <1>4, <1>5, <2>2, <2>3
  <2>5. pc' \in Admitting => \A i \in DOMAIN plan' : i < pos' /\ Owed(plan[i])' => evidence'[plan'[i]] = "passed"
    BY <1>1, <1>3, <2>1, <2>4
  <2>6. pc' = "done" => \A i \in DOMAIN plan' : Owed(plan[i])' => evidence'[plan'[i]] = "passed"
    BY <1>1, <1>3, <2>1, <2>4
  <2> QED BY <1>1, <1>2, <1>9, <2>1, <2>5, <2>6, NodeFiles DEF UndamagedFits
<1> QED BY <1>8, <1>9

LEMMA NodeStepInv ==
  ASSUME IInv, NEW n \in Nodes, NodeStep(n)
  PROVE  IInv'
<1>1. UndamagedFits'
  <2>1. CASE faults = 0
    BY <2>1, NodeStepFacts, ExecutionUndamaged, ValidationUndamaged, AdmissionUndamaged DEF Looping
  <2>2. CASE faults # 0
    BY <2>2, NodeStepFiles DEF UndamagedFits
  <2> QED BY <2>1, <2>2
<1> QED BY <1>1, NodeStepType, NodeStepPlan, NodeStepExecution, NodeStepValidation, NodeStepTaint, NodeStepEvidence DEF IInv

-----------------------------------------------------------------------------
(* The steps before the loops, and damage *)

LEMMA PlanningInv ==
  ASSUME IInv, ReportOnly \/ RefuseDuplicates \/ BuildPlan \/ PlanMetric \/ StartExecution
  PROVE  IInv'
<1> USE DEF Planning, Executing, Validating, Admitting
<1>1. /\ pc \in Planning /\ input' = input /\ file' = file /\ faults' = faults /\ tainted' = tainted
      /\ UNCHANGED <<execution, passed, failed, evidence>>
      /\ pc' \in Planning \cup {"execute", "done", "aborted"}
      /\ pc' \in {"execute", "done"} => plan' = plan
  BY DEF ReportOnly, RefuseDuplicates, BuildPlan, PlanMetric, StartExecution, rows, Go
<1>2. /\ TypeOK /\ PlanFits /\ ExecutionFits /\ ValidationFits /\ TaintFits /\ EvidenceFits /\ UndamagedFits
      /\ TypeOK' /\ PlanFits' /\ \A x : Authorized(x)' = Authorized(x)
  BY <1>1, PlanningStep, RequestKept DEF IInv
<1>3. /\ \A x \in Nodes : execution[x] = "none" /\ passed[x] = 0 /\ evidence[x] = "none"
      /\ failed = {}
  BY <1>1, <1>2 DEF ExecutionFits, ValidationFits, EvidenceFits
<1>4. pc' = "done" => DOMAIN plan' = {}
  <2>1. pc' = "done" => ReportOnly
    BY DEF ReportOnly, RefuseDuplicates, BuildPlan, PlanMetric, StartExecution, Go
  <2>2. pc' = "done" => plan' = <<>>
    BY <1>1, <1>2, <2>1 DEF ReportOnly, PlanFits
  <2> QED BY <2>2
<1>5. plan' \in Seq(Nodes) /\ \A i \in DOMAIN plan' : plan'[i] \in Nodes
  BY <1>2 DEF TypeOK
<1>6. ExecutionFits'
  <2>1. \A x \in Nodes : execution'[x] = "none"
    BY <1>1, <1>3
  <2>2. pc' = "execute" => StartExecution /\ plan' = plan /\ pos' = 1 /\ DOMAIN plan = 1..Len(plan)
    BY <1>1, <1>2, PlanFacts
       DEF ReportOnly, RefuseDuplicates, BuildPlan, PlanMetric, StartExecution, Go, PlanFits
  <2>3. pc' \in Executing => \A i \in DOMAIN plan' : execution'[plan'[i]] = "none" /\ ~(i < pos')
    BY <1>1, <1>5, <2>1, <2>2
  <2> QED BY <1>1, <1>4, <2>1, <2>3 DEF ExecutionFits
<1>7. ValidationFits'
  BY <1>1, <1>2, <1>3, <1>4, <1>5, NodeFacts DEF ValidationFits
<1>8. TaintFits'
  BY <1>1, <1>2, <1>3 DEF TaintFits, Intact
<1>9. EvidenceFits'
  BY <1>1, <1>3 DEF EvidenceFits
<1>10. UndamagedFits'
  BY <1>1, <1>2, <1>3, <1>4 DEF UndamagedFits, Intact
<1> QED BY <1>2, <1>6, <1>7, <1>8, <1>9, <1>10 DEF IInv

LEMMA DamageInv ==
  ASSUME IInv, Damage
  PROVE  IInv'
<1> USE DEF Planning, Executing, Validating, Admitting, Looping
<1>1. /\ TypeOK /\ PlanFits /\ ExecutionFits /\ ValidationFits /\ TaintFits /\ EvidenceFits
      /\ input' = input /\ pc' = pc /\ plan' = plan /\ pos' = pos /\ tainted' = tainted
      /\ UNCHANGED <<execution, passed, failed, evidence>>
      /\ faults < MaxFaults /\ faults' = faults + 1
  BY DEF IInv, Damage, rows
<1>2. PICK f \in Files : Intact(f) /\ file' = [file EXCEPT ![f] = "damaged"]
  BY DEF Damage
<1>3. TypeOK'
  BY <1>1, <1>2, PipelineAssumption DEF TypeOK
<1>4. Intact(Canonical)' => Intact(Canonical)
  BY <1>1, <1>2, NodeFiles DEF TypeOK, Intact
<1>5. Current' = Current /\ Requested' = Requested /\ (\A x : Authorized(x)' = Authorized(x))
      /\ (\A x : RequestCovers(x)' = RequestCovers(x) /\ SufficiencyHolds(x)' = SufficiencyHolds(x))
      /\ (\A x : Validated(x)' = Validated(x) /\ Settled(x)' = Settled(x))
      /\ (\A k : Wanted(k)' = Wanted(k))
  BY <1>1, RequestKept, ValidatedSame, SettledSame DEF Current
<1>6. PlanFits'
  <2>1. Ordered(plan)' = Ordered(plan) /\ (pos - 1)' = pos - 1 /\ Len(input.metrics)' = Len(input.metrics)
    BY <1>1 DEF Ordered
  <2>2. (Wanted(pos - 1))' = Wanted(pos - 1) /\ (Wanted(Len(input.metrics)))' = Wanted(Len(input.metrics))
    BY <1>1 DEF Wanted
  <2> QED BY <1>1, <2>1, <2>2 DEF PlanFits
<1>7. ExecutionFits'
  BY <1>1, <1>5 DEF ExecutionFits
<1>8. ValidationFits'
  BY <1>1, <1>5 DEF ValidationFits
<1>9. TaintFits'
  BY <1>1, <1>4, <1>5 DEF TaintFits
<1>10. EvidenceFits'
  <2>1. \A x : Candidate(x)' = Candidate(x)
    BY <1>5 DEF Candidate
  <2> QED BY <1>1, <1>5, <2>1 DEF EvidenceFits
<1>11. UndamagedFits'
  <2>1. faults \in Nat
    BY <1>1, PipelineAssumption DEF TypeOK
  <2> QED BY <1>1, <2>1 DEF UndamagedFits
<1> QED BY <1>3, <1>6, <1>7, <1>8, <1>9, <1>10, <1>11 DEF IInv

LEMMA UnchangedInv ==
  ASSUME IInv, UNCHANGED vars
  PROVE  IInv'
<1>1. /\ input' = input /\ pc' = pc /\ plan' = plan /\ pos' = pos /\ tainted' = tainted /\ file' = file
      /\ faults' = faults /\ UNCHANGED <<execution, passed, failed, evidence>>
  BY DEF vars, rows
<1> QED BY <1>1 DEF IInv, TypeOK, PlanFits, Ordered, Wanted, ExecutionFits, Authorized, Requested, Eligible, Failures,
      Current, ValidationFits, Validated, Settled, TaintFits, Intact, EvidenceFits, Candidate, RequestCovers,
      SufficiencyHolds, UndamagedFits, Owed

\* Every step keeps the invariant.
LEMMA StepInv == IInv /\ [Next]_vars => IInv'
BY NodeStepInv, PlanningInv, DamageInv, UnchangedInv DEF Next, Finished

\* What the loops establish, in every state the analysis can reach.
THEOREM InvariantHolds == Spec => []IInv
BY InitInv, StepInv, PTL DEF Spec

\* Every variable keeps its type, in particular no rule is recorded twice.
THEOREM TypeCorrect == Spec => []TypeOK
<1>1. IInv => TypeOK
  BY DEF IInv
<1> QED BY <1>1, InvariantHolds, PTL

-----------------------------------------------------------------------------
(* What the invariant implies *)

\* The plan contains every chain of an eligible metric.
LEMMA PlanCoversChains ==
  ASSUME IInv, pc \in Looping \cup {"start", "done"}, input.canonical
  PROVE  Chains \subseteq ToSet(plan)
<1>1. ToSet(plan) = Wanted(Len(input.metrics)) /\ TypeOK
  BY DEF IInv, PlanFits
<1>2. Requested = {input.metrics[i] : i \in 1..Len(input.metrics)}
  BY <1>1, InputFacts
<1> QED BY <1>1, <1>2 DEF Chains, Wanted

\* At the end every node of the eligible chains, and no other, was attempted and is settled.
LEMMA DoneFacts ==
  ASSUME IInv, pc = "done"
  PROVE  /\ \A n \in Nodes : execution[n] # "none" <=> n \in Chains
         /\ \A n \in Nodes : Settled(n)
<1>1. /\ TypeOK /\ ExecutionFits /\ ValidationFits
      /\ \A n \in Nodes : Authorized(n) # {} <=> n \in Chains
      /\ ~input.canonical => \A n \in Nodes : Authorized(n) = {}
  BY AuthorizedFacts DEF IInv
<1>2. \A n \in Nodes : n \in ToSet(plan) => Settled(n) /\ (Authorized(n) = {} \/ execution[n] # "none")
  BY <1>1, PlanFacts DEF ExecutionFits, ValidationFits
<1>3. ASSUME NEW n \in Nodes PROVE execution[n] # "none" <=> n \in Chains
  <2>1. CASE input.canonical
    BY <1>1, <1>2, <2>1, PlanCoversChains DEF ExecutionFits
  <2>2. CASE ~input.canonical
    BY <1>1, <2>2 DEF ExecutionFits
  <2> QED BY <2>1, <2>2
<1>4. ASSUME NEW n \in Nodes, n \notin ToSet(plan) PROVE Settled(n)
  <2>1. execution[n] = "none"
    BY <1>1, <1>4 DEF ExecutionFits
  <2>2. ~(passed[n] > 0) /\ passed[n] \in 0..3
    BY <1>1, <2>1 DEF ValidationFits, TypeOK
  <2> QED BY <2>1, <2>2 DEF Settled
<1> QED BY <1>2, <1>3, <1>4

\* The records of a validated node: its rules passed, nothing of it failed.
LEMMA ValidatedFacts ==
  ASSUME IInv, NEW n \in Nodes, Validated(n)
  PROVE  /\ execution[n] = "completed" /\ n \notin failed
         /\ \A d \in Deps(n) : Validated(d)
<1>1. passed[n] > 0
  BY NodeFacts DEF Validated
<1> QED BY <1>1 DEF IInv, ValidationFits

\* execute_plan attempts the nodes of the eligible metrics' chains: no other one,
\* and, when the analysis returns, all of them.
THEOREM ExecutesExactlyTheEligibleChains == Spec => []ExactlyTheEligibleChains
<1>1. ASSUME IInv PROVE ExactlyTheEligibleChains
  <2>1. \A n \in Nodes : execution[n] # "none" => n \in Chains
    BY <1>1, AuthorizedFacts DEF IInv, ExecutionFits
  <2>2. Chains \subseteq Nodes
    <3>1. <<"orders", "baseline">> \in Nodes
      BY DEF Nodes, Periods
    <3> QED BY <1>1, <3>1, AuthorizedFacts DEF IInv
  <2>3. pc = "done" => Chains = {n \in Nodes : execution[n] # "none"}
    BY <1>1, <2>2, DoneFacts
  <2> QED BY <2>1, <2>3 DEF ExactlyTheEligibleChains
<1> QED BY <1>1, InvariantHolds, PTL

\* The records of a killed or finished run are complete chains: evidence rests on
\* validated results, those on validated dependencies and completed executions.
THEOREM RecordsAreCompleteChains == Spec => []ChainComplete
<1>1. ASSUME IInv PROVE ChainComplete
  <2>1. ASSUME NEW n \in Nodes, evidence[n] = "passed"
        PROVE  Validated(n) /\ MetricOf(n) \in Requested /\ Eligible(MetricOf(n)) /\ MetricOf(n) \in input.required
    BY <1>1, <2>1 DEF IInv, EvidenceFits, Candidate, RequestCovers, SufficiencyHolds
  <2>2. \A n \in Nodes : passed[n] > 0 =>
          execution[n] = "completed" /\ n \notin failed /\ \A d \in Deps(n) : Validated(d)
    BY <1>1 DEF IInv, ValidationFits
  <2>3. \A n \in Nodes : execution[n] = "completed" => \A d \in Deps(n) : execution[d] = "completed"
    BY <1>1 DEF IInv, ExecutionFits
  <2> QED BY <2>1, <2>2, <2>3 DEF ChainComplete
<1> QED BY <1>1, InvariantHolds, PTL

\* However a canonical dataset is damaged while the run executes, no value
\* computed from it afterwards has a rule recorded as passed.
THEOREM DamagedDataIsNeverValidated == Spec => []NothingFromDamagedData
<1>1. IInv => NothingFromDamagedData
  BY DEF IInv, TaintFits, NothingFromDamagedData
<1> QED BY <1>1, InvariantHolds, PTL

\* In a run whose files nobody damages, validation and admission refuse nothing
\* that was executed and owed.
THEOREM UndamagedRunsLoseNothing == Spec => []NothingLostWithoutDamage
<1>1. ASSUME IInv, pc = "done", faults = 0, NEW n \in Nodes, execution[n] = "completed"
      PROVE  /\ Validated(n)
             /\ MetricOf(n) \in {m \in Requested \cap input.required : Eligible(m)} => evidence[n] = "passed"
  <2>1. Validated(n)
    BY <1>1, DoneFacts DEF Settled, IInv, UndamagedFits
  <2>2. PICK i \in DOMAIN plan : plan[i] = n
    BY <1>1, PlanFacts DEF IInv, ExecutionFits
  <2>3. MetricOf(n) \in {m \in Requested \cap input.required : Eligible(m)} => Owed(plan[i])
    BY <1>1, <2>2 DEF Owed, RequestCovers, SufficiencyHolds
  <2> QED BY <1>1, <2>1, <2>2, <2>3 DEF IInv, UndamagedFits
<1>2. IInv => NothingLostWithoutDamage
  BY <1>1 DEF NothingLostWithoutDamage, IInv, UndamagedFits
<1> QED BY <1>2, InvariantHolds, PTL

\* A metric whose own chain was validated throughout is reported available,
\* whatever failed in the chains of the other metrics.
THEOREM FailuresStayInTheirChain == Spec => []FailureStaysInItsChain
<1>1. ASSUME IInv, NEW m \in Requested, Eligible(m), \A n \in Closure(m) : Validated(n)
      PROVE  MetricState(m) # "inadmissible"
  <2>1. m \in Metrics
    BY <1>1, InputFacts DEF IInv
  <2>2. Own(m) # {}
    BY <1>1, <2>1, MetricFacts DEF Own
  <2>3. ASSUME NEW n \in failed PROVE ~BelongsTo(n, m)
    <3>1. n \in Nodes
      BY <1>1 DEF IInv, TypeOK
    <3>2. n \notin Closure(m)
      BY <1>1, <3>1, ValidatedFacts
    <3>3. MetricOf(n) # m
      BY <2>1, <3>1, <3>2, MetricFacts
    <3> QED BY <3>2, <3>3 DEF BelongsTo, Authorized
  <2> QED BY <1>1, <2>2, <2>3 DEF MetricState
<1>2. IInv => FailureStaysInItsChain
  BY <1>1 DEF FailureStaysInItsChain
<1> QED BY <1>2, InvariantHolds, PTL

\* A metric reported available has a validated result over validated
\* dependencies, and nothing executed of its chain is left unvalidated.
THEOREM AvailabilityIsNeverFalse == Spec => []NoFalseAvailability
<1>1. ASSUME IInv, pc = "done", NEW m \in Requested, MetricState(m) # "inadmissible"
      PROVE  /\ Eligible(m)
             /\ \E n \in ToSet(Roots(m)) : Validated(n) /\ \A d \in Deps(n) : Validated(d)
             /\ \A n \in Closure(m) : execution[n] = "completed" => Validated(n)
  <2>1. m \in Metrics
    BY <1>1, InputFacts DEF IInv
  <2>2. Eligible(m) /\ Own(m) # {} /\ \A n \in failed : ~BelongsTo(n, m)
    BY <1>1 DEF MetricState
  <2>3. \E n \in ToSet(Roots(m)) : Validated(n) /\ \A d \in Deps(n) : Validated(d)
    BY <1>1, <2>1, <2>2, MetricFacts, ValidatedFacts DEF Own
  <2>4. ASSUME NEW n \in Closure(m), execution[n] = "completed" PROVE Validated(n)
    <3>1. n \in Nodes /\ m \in Authorized(n)
      BY <2>1, <2>2, <2>4, MetricFacts DEF Authorized
    <3>2. n \notin failed
      BY <2>2, <3>1 DEF BelongsTo
    <3> QED BY <1>1, <2>4, <3>1, <3>2, DoneFacts DEF Settled
  <2> QED BY <2>2, <2>3, <2>4
<1>2. IInv => NoFalseAvailability
  BY <1>1 DEF NoFalseAvailability
<1> QED BY <1>2, InvariantHolds, PTL

\* The run status summarizes the metrics and records truthfully.
THEOREM StatusSummarizesOutcomes == Spec => []StatusMatchesOutcomes
<1>1. ASSUME IInv, pc = "done" PROVE StatusMatchesOutcomes
  <2> DEFINE states == {MetricState(m) : m \in Requested}
             failedRecords == failed # {} \/ \E n \in Nodes : execution[n] = "failed"
  <2>1. /\ TypeOK /\ Requested \subseteq Metrics
        /\ (\A n \in Nodes : execution[n] # "none" <=> n \in Chains) /\ \A n \in Nodes : Settled(n)
        /\ execution \in [Nodes -> {"none", "completed", "failed"}]
    BY <1>1, InputFacts, DoneFacts DEF IInv, TypeOK
  <2>2. ASSUME NEW m \in Requested, Eligible(m), ~failedRecords
        PROVE  MetricState(m) # "inadmissible"
    <3>1. PICK n \in ToSet(Roots(m)) : n \in Nodes /\ MetricOf(n) = m /\ n \in Closure(m)
      BY <2>1, MetricFacts
    <3>2. execution[n] = "completed"
      BY <2>1, <2>2, <3>1 DEF Chains
    <3>3. Validated(n)
      BY <2>1, <2>2, <3>1, <3>2 DEF Settled
    <3> QED BY <2>2, <3>1, <3>3 DEF MetricState, Own
  <2>3. ASSUME "valid" \in states PROVE SomeResult
    <3>1. PICK m \in Requested : MetricState(m) = "valid"
      BY <2>3
    <3>2. PICK n \in Nodes : MetricOf(n) = m /\ Validated(n)
      BY <3>1 DEF MetricState, Own
    <3> QED BY <1>1, <3>2, ValidatedFacts DEF SomeResult, BelongsTo
  <2>4. ASSUME ClarificationRequired PROVE \A n \in Nodes : execution[n] = "none"
    BY <2>1, <2>4 DEF ClarificationRequired, Chains
  <2>5. ASSUME RunStatus = "completed"
        PROVE  "inadmissible" \notin states /\ failed = {} /\ \A n \in Nodes : execution[n] # "failed"
    <3>1. ~failedRecords /\ ("valid" \in states => states = {"valid"})
          /\ ("valid" \notin states => \A m \in Requested : ~HasFailureDetails(m))
      BY <2>5 DEF RunStatus
    <3>2. "valid" \notin states => \A m \in Requested : Eligible(m)
      BY <3>1 DEF HasFailureDetails
    <3> QED BY <2>2, <3>1, <3>2
  <2>6. RunStatus \in {"blocked", "execution_failed", "validation_failed"} => "valid" \notin states
    BY <2>3 DEF RunStatus
  <2>7. RunStatus = "partially_completed" => "valid" \in states
    BY DEF RunStatus
  <2>8. RunStatus = "clarification_required" => ClarificationRequired
    BY DEF RunStatus
  <2> QED BY <2>4, <2>5, <2>6, <2>7, <2>8 DEF StatusMatchesOutcomes
<1>2. IInv => StatusMatchesOutcomes
  BY <1>1 DEF StatusMatchesOutcomes
<1> QED BY <1>2, InvariantHolds, PTL

-----------------------------------------------------------------------------
(* The refinement of ChainOfAuthority *)

\* The results that failed a stage.
Rejected == failed \cup {n \in Nodes : "failed" \in {execution[n], evidence[n]}}

Askable(n) == n \in Chains /\ MetricOf(n) \in Requested /\ Eligible(MetricOf(n))

LEMMA StageFacts ==
  ASSUME NEW n \in Nodes
  PROVE  /\ StageOf(n) \in 0..3
         /\ execution[n] = "completed" => StageOf(n) >= 1
         /\ Validated(n) => StageOf(n) >= 2
BY DEF StageOf

LEMMA ClimbIntro ==
  ASSUME NEW n \in Chains \ Rejected, n \in Nodes, NEW next \in 1..3, StageOf(n) = next - 1,
         next = 3 => Askable(n),
         \A d \in Deps(n) : d \in Nodes /\ StageOf(d) >= (IF next = 3 THEN 2 ELSE next),
         StageOf(n)' = next, \A x \in Nodes : x # n => StageOf(x)' = StageOf(x),
         Rejected' = Rejected, input' = input
  PROVE  Authority!Climb(n)
<1> DEFINE stage == [x \in Nodes |-> StageOf(x)]
<1>1. [x \in Nodes |-> StageOf(x)'] = [stage EXCEPT ![n] = next]
  OBVIOUS
<1>2. Chains' = Chains /\ \A x : Askable(x)' = Askable(x)
  BY RequestKept DEF Askable
<1>3. /\ failed' \cup {x \in Nodes : "failed" \in {execution'[x], evidence'[x]}} =
         failed \cup {x \in Nodes : "failed" \in {execution[x], evidence[x]}}
      /\ {x \in Chains' : MetricOf(x) \in Requested' /\ Eligible(MetricOf(x))'} =
         {x \in Chains : MetricOf(x) \in Requested /\ Eligible(MetricOf(x))}
  BY <1>2 DEF Rejected, Askable
<1>4. n \in Chains \ (failed \cup {x \in Nodes : "failed" \in {execution[x], evidence[x]}})
  BY DEF Rejected
<1>5. next \in Authority!Executed..Authority!Admitted /\ next = stage[n] + 1
  BY DEF Authority!Executed, Authority!Admitted
<1>6. next = Authority!Admitted => n \in {x \in Chains : MetricOf(x) \in Requested /\ Eligible(MetricOf(x))}
  BY DEF Authority!Admitted, Askable
<1>7. \A d \in [x \in Nodes |-> Deps(x)][n] : stage[d] >= Authority!Needed(next)
  BY DEF Authority!Needed, Authority!Admitted, Authority!Validated
<1> QED BY <1>1, <1>2, <1>3, <1>4, <1>5, <1>6, <1>7 DEF Authority!Climb

LEMMA RejectIntro ==
  ASSUME NEW n \in Chains \ Rejected, Rejected' = Rejected \cup {n},
         \A x \in Nodes : StageOf(x)' = StageOf(x), input' = input
  PROVE  Authority!Reject(n)
<1>1. [x \in Nodes |-> StageOf(x)'] = [x \in Nodes |-> StageOf(x)]
  OBVIOUS
<1>2. Chains' = Chains /\ \A x : Askable(x)' = Askable(x)
  BY RequestKept DEF Askable
<1>3. {x \in Chains' : MetricOf(x) \in Requested' /\ Eligible(MetricOf(x))'} =
         {x \in Chains : MetricOf(x) \in Requested /\ Eligible(MetricOf(x))}
  BY <1>2 DEF Askable
<1> QED BY <1>1, <1>2, <1>3 DEF Authority!Reject, Rejected

LEMMA SameAuthority ==
  ASSUME UNCHANGED <<input, execution, passed, failed, evidence>>
  PROVE  UNCHANGED Authority!vars
BY RequestKept DEF Authority!vars, StageOf, Validated

\* A step of the loops is a climb or a rejection of its node, or changes no record.
LEMMA NodeStepAuthority ==
  ASSUME IInv, NEW n \in Nodes, NodeStep(n)
  PROVE  [Authority!Next]_(Authority!vars)
<1> USE DEF Executing, Validating, Admitting
<1>1. /\ TypeOK /\ ExecutionFits /\ ValidationFits /\ EvidenceFits /\ n = plan[pos] /\ n = Current
      /\ pos \in DOMAIN plan /\ input' = input /\ Deps(n) \subseteq Nodes /\ pos >= pos
  <2>1. /\ n = Current /\ pos \in DOMAIN plan /\ input' = input /\ DOMAIN plan = 1..Len(plan)
    BY NodeStepFacts, LoopFacts, PlanFacts
  <2> QED BY <2>1, NodeFacts DEF IInv, Current
<1>2. /\ execution \in [Nodes -> {"none", "completed", "failed"}] /\ passed \in [Nodes -> 0..3]
      /\ failed \subseteq Nodes /\ evidence \in [Nodes -> {"none", "passed", "failed"}]
  BY <1>1 DEF TypeOK
<1>3. \A x \in Nodes : execution[x] # "none" => x \in Chains
  BY <1>1, AuthorizedFacts DEF ExecutionFits
<1>4. ASSUME Authority!Climb(n) \/ Authority!Reject(n) PROVE [Authority!Next]_(Authority!vars)
  BY <1>4 DEF Authority!Next
<1>5. CASE ExecutionFails(n)
  <2>1. execution' = [execution EXCEPT ![n] = "failed"] /\ UNCHANGED <<passed, failed, evidence>>
        /\ pc = "execute" /\ Authorized(n) # {}
    BY <1>5 DEF ExecutionFails
  <2>2. execution[n] = "none" /\ evidence[n] = "none" /\ n \notin failed /\ ~Validated(n) /\ n \in Chains
    <3>1. execution[n] = "none" /\ Authorized(n) # {} /\ passed[n] = 0 /\ evidence[n] = "none" /\ n \notin failed
      BY <1>1, <2>1 DEF ExecutionFits, EvidenceFits, ValidationFits
    <3>2. n \in Chains /\ ~Validated(n)
      BY <1>1, <3>1, NodeFacts, AuthorizedFacts DEF Validated
    <3> QED BY <3>1, <3>2
  <2>3. \A x \in Nodes : StageOf(x)' = StageOf(x)
    BY <1>2, <2>1, <2>2 DEF StageOf, Validated
  <2>4. n \notin Rejected /\ Rejected' = Rejected \cup {n}
    BY <1>2, <2>1, <2>2 DEF Rejected
  <2> QED BY <1>1, <1>4, <2>2, <2>3, <2>4, RejectIntro
<1>6. CASE RecordExecution(n) /\ Intact(<<"result", n>>)
  <2>1. execution' = [execution EXCEPT ![n] = "completed"] /\ UNCHANGED <<passed, failed, evidence>>
        /\ pc = "record_execution"
    BY <1>6 DEF RecordExecution
  <2>2. execution[n] = "none" /\ evidence[n] = "none" /\ n \notin failed /\ ~Validated(n) /\ n \in Chains
        /\ \A d \in Deps(n) : execution[d] = "completed"
    <3>1. execution[n] = "none" /\ Authorized(n) # {} /\ passed[n] = 0 /\ evidence[n] = "none" /\ n \notin failed
          /\ \A d \in Deps(n) : execution[d] = "completed"
      BY <1>1, <2>1 DEF ExecutionFits, EvidenceFits, ValidationFits
    <3>2. n \in Chains /\ ~Validated(n)
      BY <1>1, <3>1, NodeFacts, AuthorizedFacts DEF Validated
    <3> QED BY <3>1, <3>2
  <2>3. StageOf(n) = 0 /\ StageOf(n)' = 1 /\ \A x \in Nodes : x # n => StageOf(x)' = StageOf(x)
    BY <1>2, <2>1, <2>2 DEF StageOf, Validated
  <2>4. n \notin Rejected /\ Rejected' = Rejected
    BY <1>2, <2>1, <2>2 DEF Rejected
  <2>5. \A d \in Deps(n) : d \in Nodes /\ StageOf(d) >= 1
    BY <1>1, <2>2, StageFacts
  <2> QED BY <1>1, <1>4, <2>2, <2>3, <2>4, <2>5, ClimbIntro
<1>7. CASE RecordFailure(n) /\ pc \in Validating /\ execution[n] = "completed"
  <2>1. failed' = failed \cup {n} /\ UNCHANGED <<execution, passed, evidence>>
    BY <1>7 DEF RecordFailure
  <2>2. n \notin failed /\ evidence[n] = "none" /\ n \in Chains
    BY <1>1, <1>3, <1>7 DEF ValidationFits, EvidenceFits
  <2>3. \A x \in Nodes : StageOf(x)' = StageOf(x)
    BY <2>1 DEF StageOf, Validated
  <2>4. n \notin Rejected /\ Rejected' = Rejected \cup {n}
    BY <1>7, <2>1, <2>2 DEF Rejected
  <2> QED BY <1>1, <1>4, <2>2, <2>3, <2>4, RejectIntro
<1>8. CASE RecordRule(n)
  <2>1. passed' = [passed EXCEPT ![n] = passed[n] + 1] /\ UNCHANGED <<execution, failed, evidence>>
        /\ pc = "record_rules"
    BY <1>8 DEF RecordRule
  <2>2. /\ n \notin failed /\ evidence[n] = "none" /\ execution[n] = "completed" /\ ~Validated(n) /\ n \in Chains
        /\ \A d \in Deps(n) : Validated(d)
    BY <1>1, <1>3, <2>1 DEF ValidationFits, EvidenceFits
  <2>3. StageOf(n) = 1 /\ \A x \in Nodes : x # n => StageOf(x)' = StageOf(x)
    BY <1>2, <2>1, <2>2 DEF StageOf, Validated
  <2>4. n \notin Rejected /\ Rejected' = Rejected
    BY <2>1, <2>2 DEF Rejected
  <2>5. CASE Validated(n)'
    <3>1. StageOf(n)' = 2
      BY <2>1, <2>2, <2>5 DEF StageOf
    <3>2. \A d \in Deps(n) : d \in Nodes /\ StageOf(d) >= 2
      BY <1>1, <2>2, StageFacts
    <3> QED BY <1>1, <1>4, <2>2, <2>3, <2>4, <3>1, <3>2, ClimbIntro
  <2>6. CASE ~Validated(n)'
    <3>1. \A x \in Nodes : StageOf(x)' = StageOf(x)
      BY <2>1, <2>2, <2>3, <2>6 DEF StageOf
    <3> QED BY <1>1, <2>1, <3>1, RequestKept DEF Authority!vars
  <2> QED BY <2>5, <2>6
<1>9. CASE RefuseEvidence(n) \/ VerifyEvidence(n)
  <2>1. PICK status \in {"passed", "failed"} : evidence' = [evidence EXCEPT ![n] = status]
          /\ (status = "passed" => RequestCovers(n) /\ SufficiencyHolds(n))
    BY <1>1, <1>9 DEF RefuseEvidence, VerifyEvidence, RecordEvidence, EvidenceFits
  <2>2. UNCHANGED <<execution, passed, failed>> /\ pc \in Admitting /\ Candidate(n)
    BY <1>1, <1>9 DEF RefuseEvidence, VerifyEvidence, RecordEvidence, EvidenceFits
  <2>3. Validated(n) /\ execution[n] = "completed" /\ n \notin failed /\ \A d \in Deps(n) : Validated(d)
    BY <2>2, ValidatedFacts DEF Candidate
  <2>4. evidence[n] = "none" /\ n \in Chains
    BY <1>1, <1>3, <2>2, <2>3 DEF EvidenceFits
  <2>5. StageOf(n) = 2 /\ n \notin Rejected /\ \A x \in Nodes : x # n => StageOf(x)' = StageOf(x)
    BY <1>2, <2>1, <2>2, <2>3, <2>4 DEF StageOf, Validated, Rejected
  <2>6. CASE status = "passed"
    <3>1. StageOf(n)' = 3 /\ Rejected' = Rejected
      BY <1>2, <2>1, <2>2, <2>4, <2>6 DEF StageOf, Rejected
    <3>2. Askable(n)
      BY <2>1, <2>4, <2>6 DEF Askable, RequestCovers, SufficiencyHolds
    <3>3. \A d \in Deps(n) : d \in Nodes /\ StageOf(d) >= 2
      BY <1>1, <2>3, StageFacts
    <3> QED BY <1>1, <1>4, <2>4, <2>5, <3>1, <3>2, <3>3, ClimbIntro
  <2>7. CASE status = "failed"
    <3>1. StageOf(n)' = 2
      BY <1>2, <2>1, <2>2, <2>3, <2>7 DEF StageOf, Validated
    <3>2. Rejected' = Rejected \cup {n}
      BY <1>2, <2>1, <2>2, <2>7 DEF Rejected
    <3> QED BY <1>1, <1>4, <2>4, <2>5, <3>1, <3>2, RejectIntro
  <2> QED BY <2>6, <2>7
<1>10. CASE UNCHANGED <<execution, passed, failed, evidence>>
  BY <1>1, <1>10, SameAuthority
<1>11. pc \in {"evaluate", "register_validated"} => execution[n] = "completed"
  BY <1>1 DEF ValidationFits
<1> QED BY <1>5, <1>6, <1>7, <1>8, <1>9, <1>10, <1>11
     DEF NodeStep, SkipBlocked, ExecutionSucceeds, ExecuteTotal, ExecuteAov, ExecuteRevenueChange, Complete,
         RecordExecution, SkipUnexecuted, CheckContext, RulesFail, RulesRaise, RulesPass, RegisterValidated,
         SkipUnrequested, WriteEvidence, rows

\* The pipeline implements ChainOfAuthority: every result climbs one stage at a
\* time, over results that have climbed before it, and never past a rejection.
THEOREM PipelineImplementsAuthority == Spec => ImplementsAuthority
<1>1. Init => Authority!Init
  <2> SUFFICES ASSUME Init PROVE Authority!Init
    OBVIOUS
  <2>1. /\ execution = [n \in Nodes |-> "none"] /\ passed = [n \in Nodes |-> 0] /\ failed = {}
        /\ evidence = [n \in Nodes |-> "none"] /\ TypeOK
    BY InitInv DEF Init, IInv
  <2>2. \A n \in Nodes : StageOf(n) = 0
    BY <2>1, NodeFacts DEF StageOf, Validated
  <2>3. failed \cup {n \in Nodes : "failed" \in {execution[n], evidence[n]}} = {}
    BY <2>1
  <2>4. Chains \subseteq Nodes
    BY <2>1, InputFacts, MetricFacts DEF Chains
  <2> QED BY <2>2, <2>3, <2>4 DEF Authority!Init, Authority!Nothing
<1>2. IInv /\ [Next]_vars => [Authority!Next]_(Authority!vars)
  <2> SUFFICES ASSUME IInv, [Next]_vars PROVE [Authority!Next]_(Authority!vars)
    OBVIOUS
  <2>1. CASE \E n \in Nodes : NodeStep(n)
    BY <2>1, NodeStepAuthority
  <2>2. CASE UNCHANGED <<input, execution, passed, failed, evidence>>
    BY <2>2, SameAuthority
  <2> QED BY <2>1, <2>2
       DEF Next, ReportOnly, RefuseDuplicates, BuildPlan, PlanMetric, StartExecution, Damage, Finished, vars, rows
<1> QED BY <1>1, <1>2, InvariantHolds, PTL DEF Spec, ImplementsAuthority, Authority!Spec
=============================================================================
