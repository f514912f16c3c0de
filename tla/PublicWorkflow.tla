---------------------------- MODULE PublicWorkflow ----------------------------
(***************************************************************************)
(* The public workflow over stores that several calls share: a coverage    *)
(* proposal is prepared from the user's file and confirmed, or a           *)
(* declaration is supplied as JSON; run_public_analysis registers what the *)
(* file holds by then, checks the declaration against it and against those *)
(* stored before, stores it, analyses, evaluates claims and, when asked,   *)
(* runs the diagnostic test.                                               *)
(*                                                                         *)
(* The host takes as long as it likes between the steps: the user saves    *)
(* other versions of the file, asks another question, another call runs.   *)
(* Days and instants share one scale: the period of a coverage that ends   *)
(* with day d is closed at instant d.  What the analysis itself computes   *)
(* is AnalysisPipeline, the test DiagnosticTest.                           *)
(***************************************************************************)
EXTENDS Integers

CONSTANTS
  Calls,      \* calls of the workflow, each with the host that makes it
  Preparing,  \* those whose host may prepare a proposal, instead of supplying JSON
  Contents,   \* versions of the user's file
  Headers,    \* version -> canonical field -> how its column can be recognized
  Unreadable, \* versions that are no file the adapters can inspect
  Intents,    \* call -> the questions its host may ask
  Manifests,  \* sets of declarations a user may supply as JSON
  Ids,        \* declaration identifiers
  NewIds,     \* those a host gives to what is confirmed here
  Cutoffs,    \* the data-availability cutoffs a host may state
  MaxTime

Fields == {"order_id", "product_id", "line_revenue"}  \* three of the canonical fields
Columns == {"canonical", "alias", "aliases", "none"}
Times == 0..MaxTime

Declarations ==
  [id : Ids, content : Contents, context : {"identity", "confirmed"}, cover : Times, cutoff : Times, recorded : Times]

ASSUME WorkflowAssumption ==
  /\ Preparing \subseteq Calls /\ DOMAIN Intents = Calls
  /\ \A k \in Calls : Intents[k] # {} /\ \A i \in Intents[k] : i.period \in Times
  /\ Manifests \subseteq SUBSET Declarations
  /\ Headers \in [Contents -> [Fields -> Columns]] /\ Unreadable \subseteq Contents
  /\ MaxTime \in Nat /\ Cutoffs \subseteq Times /\ NewIds \subseteq Ids

VARIABLES
  file,       \* the version the user has saved
  clock,
  pc,         \* what each call does next
  intent,     \* the question of each call
  shown,      \* the complete proposal the host has displayed, or None
  submitted,  \* the declarations it hands over
  confirmed,  \* history: the proposal that was on display when they were confirmed, or None
  headers,    \* the version of which it read the columns, as long as it needs them, or None
  dataset,    \* the version it registered
  accepted,   \* the declaration it accepted, or None
  cause,      \* why its declarations were refused
  response,
  store,      \* the coverage declarations on disk
  refs,       \* those with an artifact reference
  raced,      \* history: a declaration was accepted while another was about to be stored
  admitted,   \* history: the calls, questions and versions whose declarations were accepted
  wrote,      \* history: the calls that stored a declaration, and of which version
  projected   \* history: the claims the answer of each call was made with

host == <<intent, shown, submitted, confirmed>>
call == <<headers, dataset, accepted, cause>>
history == <<raced, admitted, wrote, projected>>
stores == <<store, refs, history>>
vars == <<file, clock, pc, host, call, response, stores>>

None == [none |-> TRUE]
Unregistered == CHOOSE c \in Contents : TRUE  \* read by no step before Register
NoResponse ==
  [claims |-> {}, blocked |-> FALSE, clarify |-> FALSE, proposals |-> {}, coverage |-> {}, diagnostic |-> FALSE]
-----------------------------------------------------------------------------
(* The question and the columns                                            *)

SinglePeriodMetrics == {"revenue", "orders", "aov"}
Metrics == SinglePeriodMetrics \cup {"revenue_change"}
QuestionClasses == {"single_period_metric", "revenue_change", "diagnostic_revenue_drop"}
Family == "product_composition_association"

\* The question is a drop of revenue and its diagnostic claims belong to the test.
Diagnoses(i) == i.class = "diagnostic_revenue_drop" /\ i.family = Family

\* Claims the ordinary path has to answer.
OrdinaryClaims(i) == IF Diagnoses(i) THEN i.claims \ {"diagnostic"} ELSE i.claims

\* What the host's reading of the question is refused for, before anything is read.
Failures(i) ==
  {f \in {"class", "metric", "change needs comparison", "single needs single", "grouping", "source",
          "table", "mapping", "mapping unconfirmed", "periods", "role", "change role", "no claim",
          "family", "claim type"} :
     \/ f = "class" /\ i.class \notin QuestionClasses
     \/ f = "metric" /\ i.metric \notin Metrics
     \/ f = "change needs comparison" /\ i.metric = "revenue_change" /\ i.class = "single_period_metric"
     \/ f = "single needs single" /\ i.metric \in SinglePeriodMetrics /\ i.class # "single_period_metric"
     \/ f = "grouping" /\ i.grouped
     \/ f = "source" /\ i.source \notin {"csv", "xlsx"}
     \/ f = "table" /\ i.table
     \/ f = "mapping" /\ i.mapping = "none"
     \/ f = "mapping unconfirmed" /\ i.mapping = "proposed"
     \/ f = "periods" /\ i.period = 0
     \/ f = "role" /\ i.metric \in SinglePeriodMetrics /\ i.role \notin {"baseline", "comparison"}
     \/ f = "change role" /\ i.metric = "revenue_change" /\ i.role \notin {"none", "comparison"}
     \/ f = "no claim" /\ i.claims = {}
     \/ f = "family" /\ i.class = "diagnostic_revenue_drop" /\ i.family \notin {"none", Family}
     \/ f = "claim type" /\ OrdinaryClaims(i) \cap {"predictive", "causal", "prescriptive"} # {}}

Readable(c) == c \notin Unreadable

\* Every required field is a column of its own name.
IdentityMapping(c) == \A f \in Fields : Headers[c][f] = "canonical"

\* What is proposed to the user when it is not: by its name or the one alias there is.
MappingProposals(c) == {f \in Fields : Headers[c][f] \in {"canonical", "alias"}}

\* What canonicalization will be asked to do: part of what a declaration is bound to.
Context(i) == i.mapping

\* The mapping is one the user confirmed and the columns are there, or the file needs none.
MappingEvidence(i, c) ==
  \/ i.mapping = "confirmed" /\ \A f \in Fields : Headers[c][f] # "none"
  \/ i.mapping = "identity" /\ IdentityMapping(c)
-----------------------------------------------------------------------------
Init ==
  /\ file \in Contents
  /\ clock = 0
  /\ pc = [k \in Calls |-> "idle"]
  /\ intent = [k \in Calls |-> CHOOSE i \in Intents[k] : TRUE]  \* there is none before Ask
  /\ shown = [k \in Calls |-> None]
  /\ submitted = [k \in Calls |-> {}]
  /\ confirmed = [k \in Calls |-> None]
  /\ headers = [k \in Calls |-> None]
  /\ dataset = [k \in Calls |-> Unregistered]
  /\ accepted = [k \in Calls |-> None]
  /\ cause = [k \in Calls |-> "none"]
  /\ response = [k \in Calls |-> NoResponse]
  /\ store = {} /\ refs = {}
  /\ raced = FALSE /\ admitted = {} /\ wrote = {} /\ projected = [k \in Calls |-> {}]

\* The user saves another version of the file.
Save == /\ file' \in Contents \ {file}
        /\ UNCHANGED <<clock, pc, host, call, response, stores>>

Tick == /\ clock < MaxTime /\ clock' = clock + 1
        /\ UNCHANGED <<file, pc, host, call, response, stores>>
-----------------------------------------------------------------------------
(* Before the analysis                                                     *)

\* The user asks, or asks something else while a proposal is on display.
Ask(k) ==
  /\ pc[k] \in {"idle", "asked"}
  /\ \E i \in Intents[k] : intent' = [intent EXCEPT ![k] = i]
  /\ pc' = [pc EXCEPT ![k] = "asked"]
  /\ UNCHANGED <<file, clock, shown, submitted, confirmed, call, response, stores>>

\* The template for the file as it is now: it covers the requested period and no more.
Template(k) ==
  [content |-> file, context |-> Context(intent[k]), cover |-> intent[k].period]

\* The template with the facts the host stated.
Proposal(k, cutoff) ==
  LET t == Template(k)
  IN [content |-> t.content, context |-> t.context, cover |-> t.cover, cutoff |-> cutoff,
      period |-> intent[k].period]

\* The host has stated every fact; the cutoff stands for them.
FactsComplete(cutoff) == cutoff \in Cutoffs

ForgetHeaders(k) == headers' = [headers EXCEPT ![k] = None]

\* prepare_public_coverage reads the columns; with a question or a file that will not do
\* it raises and leaves nothing behind.
Inspect(k) ==
  /\ pc[k] = "asked" /\ k \in Preparing
  /\ Failures(intent[k]) = {} /\ Readable(file)
  /\ headers' = [headers EXCEPT ![k] = file]
  /\ pc' = [pc EXCEPT ![k] = "prepare"]
  /\ shown' = [shown EXCEPT ![k] = None]  \* what comes takes the place of what is displayed
  /\ UNCHANGED <<file, clock, intent, submitted, confirmed, dataset, accepted, cause, response, stores>>

\* It registers the file, which may have been saved since, and proposes a declaration about
\* that.  Without all facts the host is told which are missing, with a mapping that will
\* not do it raises.
Propose(k) ==
  /\ pc[k] = "prepare"
  /\ \E cutoff \in Cutoffs \cup {MaxTime + 1} :
       shown' = [shown EXCEPT ![k] =
                   IF FactsComplete(cutoff) /\ MappingEvidence(intent[k], headers[k])
                   THEN Proposal(k, cutoff) ELSE None]
  /\ pc' = [pc EXCEPT ![k] = "asked"] /\ ForgetHeaders(k)
  /\ UNCHANGED <<file, clock, intent, submitted, confirmed, dataset, accepted, cause, response, stores>>

\* What is declared by a user who confirms: the proposal, an identifier and a time.
Declaration(p, id, at) ==
  [id |-> id, content |-> p.content, context |-> p.context, cover |-> p.cover, cutoff |-> p.cutoff,
   recorded |-> at]

\* The fingerprint of the proposal covers the periods that were asked for.
IsOnDisplay(k) == shown[k] # None /\ shown[k].period = intent[k].period

\* confirm_public_coverage.  The host hands in the question and the time, for which its
\* clock may be ahead.
Confirm(k) ==
  /\ pc[k] = "asked" /\ IsOnDisplay(k) /\ submitted[k] = {}
  /\ \E id \in NewIds, at \in {clock, clock + 1} \cap Times :
       submitted' = [submitted EXCEPT ![k] = {Declaration(shown[k], id, at)}]
  /\ confirmed' = [confirmed EXCEPT ![k] = shown[k]]
  /\ shown' = [shown EXCEPT ![k] = None]  \* the host has no further use for it
  /\ UNCHANGED <<file, clock, pc, intent, call, response, stores>>

\* Declarations from a JSON file nobody has checked.
Supply(k) ==
  /\ pc[k] = "asked" /\ submitted[k] = {}
  /\ \E ds \in Manifests : submitted' = [submitted EXCEPT ![k] = ds]
  /\ UNCHANGED <<file, clock, pc, intent, shown, confirmed, call, response, stores>>
-----------------------------------------------------------------------------
(* Admitting the declaration                                               *)

\* The call returns r and is over.
Answer(k, r) ==
  /\ response' = [response EXCEPT ![k] = r]
  /\ pc' = [pc EXCEPT ![k] = "returned"]

\* A question that is not understood, or a file that cannot be read, costs nothing but
\* an answer.
Clarify(k) ==
  /\ pc[k] = "asked"
  /\ Failures(intent[k]) # {} \/ ~Readable(file)
  /\ Answer(k, [NoResponse EXCEPT !.clarify = TRUE])
  /\ UNCHANGED <<file, clock, host, call, stores>>

\* The columns are read from the user's file ...
ReadHeaders(k) ==
  /\ pc[k] = "asked" /\ Failures(intent[k]) = {} /\ Readable(file)
  /\ headers' = [headers EXCEPT ![k] = file]
  /\ pc' = [pc EXCEPT ![k] = "register"]
  /\ shown' = [shown EXCEPT ![k] = None]  \* what was not confirmed is not pursued
  /\ UNCHANGED <<file, clock, intent, submitted, confirmed, dataset, accepted, cause, response, stores>>

NeedsMapping(k) == intent[k].mapping = "identity" /\ ~IdentityMapping(headers[k])

ProposeMapping(k) ==
  /\ pc[k] = "register" /\ NeedsMapping(k)
  /\ Answer(k, [NoResponse EXCEPT !.clarify = TRUE, !.blocked = TRUE,
                                  !.proposals = MappingProposals(headers[k])])
  /\ ForgetHeaders(k)
  /\ UNCHANGED <<file, clock, host, dataset, accepted, cause, stores>>

\* ... and then it is registered: from here on the analysis is of this version.
Register(k) ==
  /\ pc[k] = "register" /\ ~NeedsMapping(k)
  /\ dataset' = [dataset EXCEPT ![k] = file]
  /\ IF submitted[k] = {}
     THEN pc' = [pc EXCEPT ![k] = "analyse"] /\ ForgetHeaders(k)
     ELSE pc' = [pc EXCEPT ![k] = "check"] /\ UNCHANGED headers
  /\ UNCHANGED <<file, clock, host, accepted, cause, response, stores>>

\* Mutant: the host's clock is believed.
BoundByHostClock(k, d) ==
  /\ d.content = dataset[k] /\ d.context = Context(intent[k])
  /\ d.cover <= d.cutoff /\ d.cutoff <= d.recorded
  /\ intent[k].period <= d.cover

\* A declaration is about this dataset, mapping and period, and the period was over
\* before the cutoff, the confirmation and now.
Bound(k, d) ==
  /\ d.content = dataset[k] /\ d.context = Context(intent[k])
  /\ d.cover <= d.cutoff /\ d.cutoff <= d.recorded /\ d.recorded <= clock
  /\ intent[k].period <= d.cover

\* What a declaration says, whoever recorded it and when.
Binding(d) == [content |-> d.content, context |-> d.context, cover |-> d.cover, cutoff |-> d.cutoff]

\* Mutant: only what is handed over is compared.
KnownSubmitted(k) == submitted[k]

\* The declarations the call can see: its own and those stored for the dataset.
Known(k) == submitted[k] \cup {d \in store : d.content = dataset[k]}

Reused(ds) == \E d, e \in ds : d.id = e.id /\ d # e
Conflicting(ds) == \E d, e \in ds : Binding(d) # Binding(e)

\* Why validate_declarations refuses, in the order it looks.
Refusal(k) ==
  IF intent[k].trusted THEN "mixed"
  ELSE IF \E d \in submitted[k] : ~Bound(k, d) THEN "unbound"
  ELSE IF Reused(Known(k)) THEN "reused"
  ELSE IF Conflicting(Known(k)) THEN "conflict"
  ELSE IF ~MappingEvidence(intent[k], headers[k]) THEN "mapping"
  ELSE "none"

\* A refused declaration blocks the call and leaves nothing behind.
RefuseDeclaration(k) ==
  /\ pc[k] = "check" /\ Refusal(k) # "none"
  /\ cause' = [cause EXCEPT ![k] = Refusal(k)]
  /\ Answer(k, [NoResponse EXCEPT !.clarify = TRUE, !.blocked = TRUE])
  /\ ForgetHeaders(k)
  /\ UNCHANGED <<file, clock, host, dataset, accepted, stores>>

\* The one accepted is that with the first identifier.
AcceptDeclaration(k) ==
  /\ pc[k] = "check" /\ Refusal(k) = "none"
  /\ \E d \in submitted[k] :
       /\ \A e \in submitted[k] : d.id <= e.id
       /\ accepted' = [accepted EXCEPT ![k] = d]
  /\ raced' = (raced \/ \E j \in Calls \ {k} : pc[j] = "write" /\ accepted[j].content = dataset[k])
  /\ admitted' = admitted \cup {[call |-> k, question |-> intent[k], content |-> dataset[k]]}
  /\ pc' = [pc EXCEPT ![k] = "write"] /\ ForgetHeaders(k)
  /\ UNCHANGED <<file, clock, host, dataset, cause, response, store, refs, wrote, projected>>

Wrote(k) == wrote' = wrote \cup {[call |-> k, content |-> accepted[k].content]}

\* Mutant: what is stored says when it was stored.
WriteDeclarationStamped(k) ==
  /\ pc[k] = "write"
  /\ store' = store \cup {[accepted[k] EXCEPT !.recorded = clock]}
  /\ Wrote(k)
  /\ pc' = [pc EXCEPT ![k] = "refer"]
  /\ UNCHANGED <<file, clock, host, call, response, refs, raced, admitted, projected>>

\* It is written under the fingerprint of what it says, the identifier and time included.
WriteDeclaration(k) ==
  /\ pc[k] = "write"
  /\ store' = store \cup {accepted[k]}
  /\ Wrote(k)
  /\ pc' = [pc EXCEPT ![k] = "refer"]
  /\ UNCHANGED <<file, clock, host, call, response, refs, raced, admitted, projected>>

InsertReference(k) ==
  /\ pc[k] = "refer"
  /\ refs' = refs \cup {accepted[k]}
  /\ pc' = [pc EXCEPT ![k] = "analyse"]
  /\ UNCHANGED <<file, clock, host, call, response, store, history>>
-----------------------------------------------------------------------------
(* The analysis and the answer                                             *)

\* There is source evidence: a declaration, or what trusted Python code hands over.
Covered(k) == accepted[k] # None \/ intent[k].trusted

\* Canonicalization looks for the mapped columns in the registered bytes.
ColumnsHold(k) == Readable(dataset[k]) /\ MappingEvidence(intent[k], dataset[k])

\* run_analysis: without coverage the sufficiency gate blocks, without the columns
\* canonicalization does; with both the metric is available, or for reasons of the data
\* it is not.  Without a declaration the file is registered once more, and must be the
\* same.
Analyse(k) ==
  /\ pc[k] = "analyse"
  /\ accepted[k] # None \/ file = dataset[k]
  /\ \E available \in {TRUE, FALSE} :
       /\ available => Covered(k) /\ ColumnsHold(k)
       /\ pc' = [pc EXCEPT ![k] = IF available THEN "claims" ELSE "unavailable"]
  /\ UNCHANGED <<file, clock, host, call, response, stores>>

\* The claims that can be bound: to the one validated result of the metric, its one
\* evidence and its execution.
BoundClaims(k, exact) == IF exact THEN OrdinaryClaims(intent[k]) ELSE {}

\* The claims a decision admits: a descriptive one at most.
Supported(claims) == claims \cap {"descriptive"}

\* The declaration is named with every answer that depends on it.
Disclosure(k) == IF accepted[k] = None THEN {} ELSE {accepted[k]}

\* Claims are bound, evaluated and projected; one that cannot be bound is left out.
Project(k) ==
  /\ pc[k] \in {"claims", "unavailable"}
  /\ \E exact \in IF pc[k] = "claims" THEN BOOLEAN ELSE {FALSE} :
       LET claims == Supported(BoundClaims(k, exact)) IN
       /\ response' = [response EXCEPT ![k] = [NoResponse EXCEPT
                         !.claims = claims, !.blocked = pc[k] = "unavailable" /\ claims = {},
                         !.coverage = Disclosure(k)]]
       /\ projected' = [projected EXCEPT ![k] = claims]
  /\ pc' = [pc EXCEPT ![k] = IF ~Diagnoses(intent[k]) THEN "returned"
                             ELSE IF pc[k] = "claims" THEN "diagnose" ELSE "block"]
  /\ UNCHANGED <<file, clock, host, call, store, refs, raced, admitted, wrote>>

\* Mutant: the answer is made anew.
WithDiagnosticAnew(r, lineage) ==
  [NoResponse EXCEPT !.claims = r.claims, !.diagnostic = lineage, !.blocked = ~lineage]

\* The test's outcome, or what blocks it, is added to the answer.
WithDiagnostic(r, lineage) ==
  IF lineage THEN [r EXCEPT !.diagnostic = TRUE] ELSE [r EXCEPT !.blocked = TRUE]

\* No governed product column, or no validated change of revenue: no test is run.
BlockDiagnostic(k) ==
  /\ pc[k] = "block"
  /\ Answer(k, WithDiagnostic(response[k], FALSE))
  /\ UNCHANGED <<file, clock, host, call, stores>>

\* run_public_r7_flow: the one approved family is proposed, its chain must end in an
\* eligible handoff, and the request built from that is tested.  Every refusal on the way
\* is a blocker, and so is what is raised, as long as it is a value or runtime error.
Diagnose(k) ==
  /\ pc[k] = "diagnose"
  /\ \E lineage \in BOOLEAN : Answer(k, WithDiagnostic(response[k], lineage))
  /\ UNCHANGED <<file, clock, host, call, stores>>

\* A store that fails, in any step that uses one, takes the call with it: what the host
\* has left is its question and its declarations.
Raises(k) ==
  /\ pc[k] \in {"register", "check", "write", "refer", "analyse", "claims", "diagnose"}
  /\ pc' = [pc EXCEPT ![k] = "failed"]
  /\ ForgetHeaders(k)
  /\ dataset' = [dataset EXCEPT ![k] = Unregistered]
  /\ accepted' = [accepted EXCEPT ![k] = None]
  /\ response' = [response EXCEPT ![k] = NoResponse]
  /\ projected' = [projected EXCEPT ![k] = {}]
  /\ UNCHANGED <<file, clock, host, cause, store, refs, raced, admitted, wrote>>

\* The host runs it with the same declarations once more.
Retry(k) ==
  /\ pc[k] = "failed"
  /\ pc' = [pc EXCEPT ![k] = "asked"]
  /\ UNCHANGED <<file, clock, host, call, response, stores>>

Step(k) ==
  \/ Ask(k) \/ Inspect(k) \/ Propose(k) \/ Confirm(k) \/ Supply(k)
  \/ Clarify(k) \/ ReadHeaders(k) \/ ProposeMapping(k) \/ Register(k) \/ RefuseDeclaration(k) \/ AcceptDeclaration(k)
  \/ WriteDeclaration(k) \/ InsertReference(k)
  \/ Analyse(k) \/ Project(k) \/ BlockDiagnostic(k) \/ Diagnose(k)
  \/ Raises(k) \/ Retry(k)

Next == Save \/ Tick \/ \E k \in Calls : Step(k)

Spec == Init /\ [][Next]_vars
-----------------------------------------------------------------------------
(* Properties                                                              *)

Proposals == [content : Contents, context : {"identity", "confirmed"}, cover : Times, cutoff : Times, period : Times]

\* Every variable keeps its type.
TypeOK ==
  /\ file \in Contents /\ clock \in Times
  /\ pc \in [Calls -> {"idle", "asked", "prepare", "register", "check", "write", "refer", "analyse", "claims",
                       "unavailable", "diagnose", "block", "returned", "failed"}]
  /\ intent = [k \in Calls |-> intent[k]] /\ \A k \in Calls : intent[k] \in Intents[k]
  /\ shown \in [Calls -> Proposals \cup {None}] /\ confirmed \in [Calls -> Proposals \cup {None}]
  /\ submitted \in [Calls -> SUBSET Declarations]
  /\ headers \in [Calls -> Contents \cup {None}] /\ dataset \in [Calls -> Contents]
  /\ accepted \in [Calls -> Declarations \cup {None}]
  /\ cause \in [Calls -> {"none", "mixed", "unbound", "reused", "conflict", "mapping"}]
  /\ response \in [Calls -> [claims : SUBSET {"descriptive"}, blocked : BOOLEAN, clarify : BOOLEAN,
                             proposals : SUBSET Fields, coverage : SUBSET Declarations, diagnostic : BOOLEAN]]
  /\ store \subseteq Declarations /\ refs \subseteq store /\ raced \in BOOLEAN
  /\ admitted \subseteq [call : Calls, question : UNION {Intents[k] : k \in Calls}, content : Contents]
  /\ wrote \subseteq [call : Calls, content : Contents]
  /\ projected \in [Calls -> SUBSET {"descriptive"}]

\* The same facts about the same data.
SameFacts(d, e) == d.context = e.context /\ d.cover = e.cover /\ d.cutoff = e.cutoff

\* However calls fail, are retried and follow one another, a dataset keeps one coverage:
\* the stores hold two different ones only if a call checked its declaration while
\* another had checked its own and not yet written it (validate_declarations reads the
\* stored declarations, run_public_analysis writes its own later).
OneCoverageUnlessRaced ==
  ~raced => \A d, e \in store : d.content = e.content => SameFacts(d, e)

\* An analysis with a declaration is of the bytes, mapping and period that were on display
\* when it was confirmed, although the user could save the file and ask something else in
\* between, and of a period that is over, whatever time the host says it is.
AnalysedAsConfirmed ==
  \A k \in Calls : accepted[k] # None =>
    /\ intent[k].period <= clock
    /\ confirmed[k] # None =>
         /\ dataset[k] = confirmed[k].content
         /\ Context(intent[k]) = confirmed[k].context
         /\ intent[k].period <= confirmed[k].period

\* A call whose declarations were accepted, and which failed before or after it stored
\* them, can be made again with the same question about the same bytes, however late: what
\* it left behind does not speak against it.  Its declarations are refused only if
\* another call has stored one for the dataset (validate_declarations compares the
\* identifiers, the stored copies and the clock anew).
RetriesAreAdmitted ==
  \A k \in Calls :
    /\ cause[k] \in {"mixed", "unbound", "reused", "conflict"}
    /\ [call |-> k, question |-> intent[k], content |-> dataset[k]] \in admitted
    => \E j \in Calls \ {k} : [call |-> j, content |-> dataset[k]] \in wrote

\* An answer that rests on a declaration names it, and what it names is on disk and
\* referenced; the test's outcome or a blocker is added to an answer and takes nothing
\* from it, neither the declaration nor a claim.
AnswersNameTheirCoverage ==
  \A k \in Calls : pc[k] = "returned" =>
    /\ response[k].claims = projected[k]
    /\ (response[k].claims # {} \/ response[k].diagnostic) /\ ~intent[k].trusted =>
         response[k].coverage # {} /\ response[k].coverage \subseteq refs
=============================================================================
