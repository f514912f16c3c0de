-------------------------- MODULE MCHypothesisRun --------------------------
(* Calls of run_r6 and of govern_pretest for model checking.               *)
EXTENDS HypothesisRun

In(requested, batch, methods, handoff) ==
  [upstream |-> "authentic", r4 |-> "none", activated |-> FALSE, requested |-> requested,
   batch |-> batch, methods |-> methods, handoff |-> handoff, time |-> "earlier"]

Later(in) == [in EXCEPT !.time = "later"]

Public == In({"product"}, {"product"}, TRUE, TRUE)
Both == In({"product", "discounting"}, {"product", "discounting", "invented"}, TRUE, FALSE)

\* The call the public flow makes, twice and later again; a family that is left out or
\* not permitted, a proposition that is refused or lost, calls that end early.
MCInputs ==
  {Public, Later(Public), Both, Later(Both),
   [Both EXCEPT !.methods = FALSE, !.handoff = TRUE],
   [Public EXCEPT !.r4 = "loads", !.batch = {"product", "product with R4"}],
   [Public EXCEPT !.r4 = "fails"],
   [Public EXCEPT !.batch = {"product", "misbound"}],
   [Public EXCEPT !.batch = {"misbound"}],
   [Public EXCEPT !.batch = {"product", "misbound"}, !.methods = FALSE],
   [Public EXCEPT !.batch = {"product", "sourceless"}],
   [Public EXCEPT !.requested = {"external"}, !.batch = {"product", "external"}],
   [Public EXCEPT !.requested = {"external"}, !.batch = {"external"}, !.activated = TRUE],
   [Public EXCEPT !.activated = TRUE],
   [Public EXCEPT !.batch = {}],
   [Public EXCEPT !.batch = ProposalDefects]}
  \cup {[Public EXCEPT !.upstream = u] : u \in Upstream \ {"authentic"}}

Evidence == UNION {[S -> Assessments] : S \in SUBSET Requirements}

\* What would be eligible, or a mere restricted claim, were nothing wrong with it.
Flawless ==
  {[family |-> "product",
    evidence |-> [r \in Requirements |->
                    [availability |-> "present", admission |-> "admitted", fitness |-> "passed",
                     origin |-> "governed internal"]],
    diagnostic |-> d, conflict |-> FALSE, method |-> "execution authority", flaw |-> "none"] :
     d \in BOOLEAN}

MCDirectly ==
  [family : Families, evidence : Evidence, diagnostic : {TRUE}, conflict : BOOLEAN,
   method : {"none", "execution authority"}, flaw : {"none"}]
  \cup
  [family : Families, evidence : {<<>>}, diagnostic : BOOLEAN, conflict : BOOLEAN,
   method : Methods, flaw : {"none"}]
  \cup {[d EXCEPT !.flaw = f] : d \in Flawless, f \in Flaws}
=============================================================================
