------------------------- MODULE PublicWorkflowProofs -------------------------
(***************************************************************************)
(* Proofs about PublicWorkflow, for any calls, questions, declarations and *)
(* versions of the file: what the positions of a call have established     *)
(* about its declaration, the answers and the shared store, what stays     *)
(* true of a declaration once it was admitted, and the four safety         *)
(* invariants that follow.                                                 *)
(***************************************************************************)
EXTENDS PublicWorkflow, TLAPS

\* Where a call has a declaration to go on with, if it has one at all.
Onward == {"analyse", "claims", "unavailable", "diagnose", "block"}

\* What was displayed covers what was asked; what is submitted is what was displayed.
ProposalsCover ==
  \A k \in Calls :
    /\ shown[k] # None => shown[k] \in Proposals /\ shown[k].cover = shown[k].period
    /\ confirmed[k] # None =>
         /\ confirmed[k] \in Proposals /\ confirmed[k].cover = confirmed[k].period
         /\ submitted[k] # {}
         /\ \A d \in submitted[k] :
              /\ d.content = confirmed[k].content /\ d.context = confirmed[k].context
              /\ d.cover = confirmed[k].cover

\* An accepted declaration was submitted and is bound to this very call.
AcceptedBound ==
  \A k \in Calls :
    /\ pc[k] \in {"idle", "asked", "prepare", "register", "check", "failed"} => accepted[k] = None
    /\ accepted[k] # None => accepted[k] \in submitted[k] /\ Bound(k, accepted[k])
    /\ pc[k] \in {"write", "refer"} => accepted[k] # None

\* A call that is about to write agrees with the store and is alone, unless it raced.
WritersAgree ==
  ~raced => \A k \in Calls : pc[k] = "write" =>
    /\ \A d \in store : d.content = dataset[k] => SameFacts(d, accepted[k])
    /\ \A j \in Calls \ {k} : pc[j] = "write" => dataset[j] # dataset[k]

\* What a call goes on with is stored and then referenced.
AcceptedStored ==
  \A k \in Calls :
    /\ pc[k] = "refer" => accepted[k] \in store
    /\ pc[k] \in Onward /\ accepted[k] # None => accepted[k] \in refs

\* The answer of a call, as far as it has got.
AnswerFits(k) ==
  /\ pc[k] \in {"claims", "diagnose"} => Covered(k)
  /\ pc[k] \in {"diagnose", "block"} =>
       response[k].coverage = Disclosure(k) /\ response[k].claims = projected[k]
  /\ pc[k] \notin {"diagnose", "block", "returned"} => projected[k] = {}
  /\ pc[k] = "block" => response[k].claims = {} /\ response[k].diagnostic = FALSE

AnswersFit == \A k \in Calls : AnswerFits(k)

\* A call with a cause has returned.
CausesEnd == \A k \in Calls : cause[k] # "none" => pc[k] = "returned"

Inv ==
  /\ TypeOK /\ ProposalsCover /\ AcceptedBound /\ WritersAgree /\ AcceptedStored /\ AnswersFit
  /\ CausesEnd
  /\ OneCoverageUnlessRaced /\ AnswersNameTheirCoverage

USE WorkflowAssumption
-----------------------------------------------------------------------------
LEMMA InitInv == Init => Inv
<1> SUFFICES ASSUME Init PROVE Inv
  OBVIOUS
<1>1. TypeOK
  <2>1. response \in [Calls -> [claims : SUBSET {"descriptive"}, blocked : BOOLEAN, clarify : BOOLEAN,
                               proposals : SUBSET Fields, coverage : SUBSET Declarations,
                               diagnostic : BOOLEAN]]
    BY DEF Init, NoResponse
  <2>2. intent = [k \in Calls |-> intent[k]] /\ \A k \in Calls : intent[k] \in Intents[k]
    BY DEF Init
  <2>3. clock \in Times
    BY DEF Init, Times
  <2>4. Unregistered \in Contents
    BY DEF Init, Unregistered
  <2>5. admitted = {} /\ wrote = {} /\ projected \in [Calls -> SUBSET {"descriptive"}]
    BY DEF Init
  <2> QED BY <2>1, <2>2, <2>3, <2>4, <2>5 DEF Init, TypeOK
<1>2. ProposalsCover /\ AcceptedBound /\ WritersAgree /\ AcceptedStored /\ AnswersFit /\ CausesEnd
  BY DEF Init, ProposalsCover, AcceptedBound, WritersAgree, AcceptedStored, AnswersFit, CausesEnd, AnswerFits, Onward
<1>3. OneCoverageUnlessRaced /\ AnswersNameTheirCoverage
  BY DEF Init, OneCoverageUnlessRaced, AnswersNameTheirCoverage
<1> QED BY <1>1, <1>2, <1>3 DEF Inv

-----------------------------------------------------------------------------
(* Steps that leave declarations alone *)

\* What has been answered stays right in a call that does not move.
LEMMA AnswerKept ==
  ASSUME Inv, NEW k \in Calls, pc'[k] = pc[k], response'[k] = response[k],
         accepted'[k] = accepted[k], intent'[k] = intent[k], projected'[k] = projected[k]
  PROVE  AnswerFits(k)'
BY DEF Inv, AnswersFit, AnswerFits, Covered, Disclosure

USE DEF host, call, stores, history

LEMMA SaveSafe ==
  ASSUME Inv, Save
  PROVE  Inv'
<1>1. UNCHANGED <<clock, pc, host, call, response, stores>> /\ file' \in Contents
  BY DEF Save
<1>2. TypeOK'
  BY <1>1 DEF Inv, TypeOK
<1>3. ProposalsCover' /\ AcceptedBound' /\ WritersAgree' /\ AcceptedStored'
  BY <1>1 DEF Inv, ProposalsCover, AcceptedBound, WritersAgree, AcceptedStored, Bound, Context
<1>4. AnswersFit' /\ CausesEnd'
  BY <1>1 DEF Inv, AnswersFit, CausesEnd, AnswerFits, Covered, Disclosure
<1>5. OneCoverageUnlessRaced' /\ AnswersNameTheirCoverage'
  BY <1>1 DEF Inv, OneCoverageUnlessRaced, AnswersNameTheirCoverage
<1> QED BY <1>2, <1>3, <1>4, <1>5 DEF Inv

LEMMA TickSafe ==
  ASSUME Inv, Tick
  PROVE  Inv'
<1>1. UNCHANGED <<file, pc, host, call, response, stores>> /\ clock' = clock + 1 /\ clock < MaxTime
  BY DEF Tick
<1>2. TypeOK'
  <2>1. clock' \in Times
    BY <1>1 DEF Inv, TypeOK, Times
  <2> QED BY <1>1, <2>1 DEF Inv, TypeOK
<1>3. AcceptedBound'
  <2>1. ASSUME NEW k \in Calls, accepted[k] # None PROVE Bound(k, accepted[k])'
    <3>1. accepted[k] \in Declarations /\ clock \in Times /\ Bound(k, accepted[k])
      BY <2>1 DEF Inv, TypeOK, AcceptedBound
    <3> QED BY <1>1, <3>1 DEF Bound, Declarations, Times, Context
  <2> QED BY <1>1, <2>1 DEF Inv, AcceptedBound
<1>4. ProposalsCover' /\ WritersAgree' /\ AcceptedStored'
  BY <1>1 DEF Inv, ProposalsCover, WritersAgree, AcceptedStored
<1>5. AnswersFit' /\ CausesEnd'
  BY <1>1 DEF Inv, AnswersFit, CausesEnd, AnswerFits, Covered, Disclosure
<1>6. OneCoverageUnlessRaced' /\ AnswersNameTheirCoverage'
  BY <1>1 DEF Inv, OneCoverageUnlessRaced, AnswersNameTheirCoverage
<1> QED BY <1>2, <1>3, <1>4, <1>5, <1>6 DEF Inv

LEMMA AskSafe ==
  ASSUME Inv, NEW c \in Calls, Ask(c)
  PROVE  Inv'
<1>1. PICK i \in Intents[c] : intent' = [intent EXCEPT ![c] = i]
  BY DEF Ask
<1>2. /\ pc[c] \in {"idle", "asked"} /\ pc' = [pc EXCEPT ![c] = "asked"]
      /\ UNCHANGED <<file, clock, shown, submitted, confirmed, call, response, stores>>
  BY DEF Ask
<1>3. TypeOK'
  BY <1>1, <1>2 DEF Inv, TypeOK
<1>4. ProposalsCover' /\ WritersAgree' /\ AcceptedStored'
  BY <1>1, <1>2 DEF Inv, TypeOK, ProposalsCover, WritersAgree, AcceptedStored, Onward
<1>5. AcceptedBound'
  BY <1>1, <1>2 DEF Inv, TypeOK, AcceptedBound, Bound, Context
<1>6. AnswersFit' /\ CausesEnd'
  BY <1>1, <1>2 DEF Inv, TypeOK, AnswersFit, CausesEnd, AnswerFits, Covered, Disclosure
<1>7. OneCoverageUnlessRaced' /\ AnswersNameTheirCoverage'
  BY <1>1, <1>2 DEF Inv, TypeOK, OneCoverageUnlessRaced, AnswersNameTheirCoverage
<1> QED BY <1>3, <1>4, <1>5, <1>6, <1>7 DEF Inv

LEMMA InspectSafe ==
  ASSUME Inv, NEW c \in Calls, Inspect(c)
  PROVE  Inv'
<1>1. /\ pc[c] = "asked"
      /\ headers' = [headers EXCEPT ![c] = file] /\ pc' = [pc EXCEPT ![c] = "prepare"]
      /\ shown' = [shown EXCEPT ![c] = None]
      /\ UNCHANGED <<file, clock, intent, submitted, confirmed, dataset, accepted, cause, response, stores>>
  BY DEF Inspect
<1>2. TypeOK'
  BY <1>1 DEF Inv, TypeOK
<1>3. ProposalsCover' /\ AcceptedBound'
  BY <1>1 DEF Inv, TypeOK, ProposalsCover, AcceptedBound, Bound, Context
<1>4. WritersAgree' /\ AcceptedStored'
  BY <1>1 DEF Inv, TypeOK, WritersAgree, AcceptedStored, Onward
<1>5. AnswersFit' /\ CausesEnd'
  BY <1>1 DEF Inv, TypeOK, AnswersFit, CausesEnd, AnswerFits, Covered, Disclosure
<1>6. OneCoverageUnlessRaced' /\ AnswersNameTheirCoverage'
  BY <1>1 DEF Inv, TypeOK, OneCoverageUnlessRaced, AnswersNameTheirCoverage
<1> QED BY <1>2, <1>3, <1>4, <1>5, <1>6 DEF Inv

LEMMA ProposeSafe ==
  ASSUME Inv, NEW c \in Calls, Propose(c)
  PROVE  Inv'
<1>1. PICK cutoff \in Cutoffs \cup {MaxTime + 1} :
        shown' = [shown EXCEPT ![c] =
                    IF FactsComplete(cutoff) /\ MappingEvidence(intent[c], headers[c])
                    THEN Proposal(c, cutoff) ELSE None]
  BY DEF Propose
<1>2. /\ pc[c] = "prepare" /\ pc' = [pc EXCEPT ![c] = "asked"] /\ headers' = [headers EXCEPT ![c] = None]
      /\ UNCHANGED <<file, clock, intent, submitted, confirmed, dataset, accepted, cause, response, stores>>
  BY DEF Propose, ForgetHeaders
<1>3. \/ shown'[c] = None
      \/ shown'[c] \in Proposals /\ shown'[c].cover = shown'[c].period
  BY <1>1 DEF Inv, TypeOK, FactsComplete, MappingEvidence, Proposal, Template, Context, Proposals
<1>4. \A k \in Calls \ {c} : shown'[k] = shown[k]
  BY <1>1 DEF Inv, TypeOK
<1>5. TypeOK'
  <2>1. shown' \in [Calls -> Proposals \cup {None}]
    <3> DEFINE p == IF FactsComplete(cutoff) /\ MappingEvidence(intent[c], headers[c])
                    THEN Proposal(c, cutoff) ELSE None
    <3>1. shown' = [shown EXCEPT ![c] = p] /\ shown'[c] = p
      BY <1>1 DEF Inv, TypeOK
    <3> HIDE DEF p
    <3> QED BY <3>1, <1>3 DEF Inv, TypeOK
  <2> QED BY <1>2, <2>1 DEF Inv, TypeOK
<1>6. ProposalsCover'
  BY <1>2, <1>3, <1>4 DEF Inv, ProposalsCover
<1>7. AcceptedBound' /\ WritersAgree' /\ AcceptedStored'
  BY <1>2 DEF Inv, TypeOK, AcceptedBound, WritersAgree, AcceptedStored, Bound, Context, Onward
<1>8. AnswersFit' /\ CausesEnd'
  BY <1>2 DEF Inv, TypeOK, AnswersFit, CausesEnd, AnswerFits, Covered, Disclosure
<1>9. OneCoverageUnlessRaced' /\ AnswersNameTheirCoverage'
  BY <1>2 DEF Inv, TypeOK, OneCoverageUnlessRaced, AnswersNameTheirCoverage
<1> QED BY <1>5, <1>6, <1>7, <1>8, <1>9 DEF Inv

LEMMA ConfirmSafe ==
  ASSUME Inv, NEW c \in Calls, Confirm(c)
  PROVE  Inv'
<1>1. PICK id \in NewIds, at \in {clock, clock + 1} \cap Times :
        submitted' = [submitted EXCEPT ![c] = {Declaration(shown[c], id, at)}]
  BY DEF Confirm
<1>2. /\ pc[c] = "asked" /\ shown[c] # None /\ submitted[c] = {}
      /\ confirmed' = [confirmed EXCEPT ![c] = shown[c]] /\ shown' = [shown EXCEPT ![c] = None]
      /\ UNCHANGED <<file, clock, pc, intent, call, response, stores>>
  BY DEF Confirm, IsOnDisplay
<1>3. shown[c] \in Proposals /\ shown[c].cover = shown[c].period
  BY <1>2 DEF Inv, ProposalsCover
<1>4. Declaration(shown[c], id, at) \in Declarations
  BY <1>3 DEF Declaration, Declarations, Proposals
<1>5. TypeOK'
  BY <1>1, <1>2, <1>3, <1>4 DEF Inv, TypeOK
<1>6. ProposalsCover'
  <2>1. ASSUME NEW k \in Calls, k # c
        PROVE  shown'[k] = shown[k] /\ confirmed'[k] = confirmed[k] /\ submitted'[k] = submitted[k]
    BY <1>1, <1>2, <2>1 DEF Inv, TypeOK
  <2>2. /\ shown'[c] = None /\ confirmed'[c] = shown[c]
        /\ submitted'[c] = {Declaration(shown[c], id, at)}
    BY <1>1, <1>2 DEF Inv, TypeOK
  <2>3. ASSUME NEW d \in submitted'[c]
        PROVE  /\ d.content = shown[c].content /\ d.context = shown[c].context
               /\ d.cover = shown[c].cover
    BY <2>2 DEF Declaration
  <2>4. submitted'[c] # {}
    BY <2>2
  <2> SUFFICES ASSUME NEW k \in Calls
               PROVE  /\ shown'[k] # None => shown'[k] \in Proposals /\ shown'[k].cover = shown'[k].period
                      /\ confirmed'[k] # None =>
                           /\ confirmed'[k] \in Proposals /\ confirmed'[k].cover = confirmed'[k].period
                           /\ submitted'[k] # {}
                           /\ \A d \in submitted'[k] :
                                /\ d.content = confirmed'[k].content /\ d.context = confirmed'[k].context
                                /\ d.cover = confirmed'[k].cover
    BY DEF ProposalsCover, Proposals
  <2>5. CASE k = c
    BY <2>2, <2>3, <2>4, <2>5, <1>3
  <2>6. CASE k # c
    BY <2>1, <2>6 DEF Inv, ProposalsCover
  <2> QED BY <2>5, <2>6
<1>7. accepted[c] = None /\ cause[c] = "none"
  BY <1>2 DEF Inv, AcceptedBound, CausesEnd, TypeOK
<1>8. AcceptedBound' /\ WritersAgree' /\ AcceptedStored'
  BY <1>1, <1>2, <1>7 DEF Inv, TypeOK, AcceptedBound, WritersAgree, AcceptedStored, Bound, Context
<1>9. AnswersFit' /\ CausesEnd'
  BY <1>2 DEF Inv, AnswersFit, CausesEnd, AnswerFits, Covered, Disclosure
<1>10. OneCoverageUnlessRaced' /\ AnswersNameTheirCoverage'
  BY <1>2 DEF Inv, OneCoverageUnlessRaced, AnswersNameTheirCoverage
<1> QED BY <1>5, <1>6, <1>8, <1>9, <1>10 DEF Inv

LEMMA SupplySafe ==
  ASSUME Inv, NEW c \in Calls, Supply(c)
  PROVE  Inv'
<1>1. PICK ds \in Manifests : submitted' = [submitted EXCEPT ![c] = ds]
  BY DEF Supply
<1>2. /\ pc[c] = "asked" /\ submitted[c] = {}
      /\ UNCHANGED <<file, clock, pc, intent, shown, confirmed, call, response, stores>>
  BY DEF Supply
<1>3. TypeOK'
  BY <1>1, <1>2 DEF Inv, TypeOK
<1>4. accepted[c] = None /\ cause[c] = "none" /\ confirmed[c] = None
  BY <1>2 DEF Inv, AcceptedBound, CausesEnd, TypeOK, ProposalsCover
<1>5. ProposalsCover' /\ AcceptedBound' /\ WritersAgree' /\ AcceptedStored'
  BY <1>1, <1>2, <1>4 DEF Inv, TypeOK, ProposalsCover, AcceptedBound, WritersAgree, AcceptedStored, Bound,
     Context
<1>6. AnswersFit' /\ CausesEnd'
  BY <1>2 DEF Inv, AnswersFit, CausesEnd, AnswerFits, Covered, Disclosure
<1>7. OneCoverageUnlessRaced' /\ AnswersNameTheirCoverage'
  BY <1>2 DEF Inv, OneCoverageUnlessRaced, AnswersNameTheirCoverage
<1> QED BY <1>3, <1>5, <1>6, <1>7 DEF Inv

-----------------------------------------------------------------------------
(* Steps that only move a call, or end it *)

LEMMA ClarifySafe ==
  ASSUME Inv, NEW c \in Calls, Clarify(c)
  PROVE  Inv'
<1>1. /\ pc[c] = "asked"
      /\ response' = [response EXCEPT ![c] = [NoResponse EXCEPT !.clarify = TRUE]]
      /\ pc' = [pc EXCEPT ![c] = "returned"]
      /\ UNCHANGED <<file, clock, host, call, stores>>
  BY DEF Clarify, Answer
<1>2. TypeOK'
  BY <1>1 DEF Inv, TypeOK, NoResponse
<1>3. ProposalsCover' /\ AcceptedBound'
  BY <1>1 DEF Inv, TypeOK, ProposalsCover, AcceptedBound, Bound, Context
<1>4. WritersAgree' /\ AcceptedStored'
  BY <1>1 DEF Inv, TypeOK, WritersAgree, AcceptedStored, Onward
<1>5. AnswersFit' /\ CausesEnd'
  BY <1>1 DEF Inv, TypeOK, AnswersFit, CausesEnd, AnswerFits, Covered, Disclosure
<1>6. OneCoverageUnlessRaced'
  BY <1>1 DEF Inv, TypeOK, OneCoverageUnlessRaced
<1>7. AnswersNameTheirCoverage'
  BY <1>1 DEF Inv, TypeOK, AnswersNameTheirCoverage, NoResponse, AnswersFit, AnswerFits
<1> QED BY <1>2, <1>3, <1>4, <1>5, <1>6, <1>7 DEF Inv

LEMMA ReadHeadersSafe ==
  ASSUME Inv, NEW c \in Calls, ReadHeaders(c)
  PROVE  Inv'
<1>1. /\ pc[c] = "asked"
      /\ headers' = [headers EXCEPT ![c] = file] /\ pc' = [pc EXCEPT ![c] = "register"]
      /\ shown' = [shown EXCEPT ![c] = None]
      /\ UNCHANGED <<file, clock, intent, submitted, confirmed, dataset, accepted, cause, response, stores>>
  BY DEF ReadHeaders
<1>2. TypeOK'
  BY <1>1 DEF Inv, TypeOK
<1>3. ProposalsCover' /\ AcceptedBound'
  BY <1>1 DEF Inv, TypeOK, ProposalsCover, AcceptedBound, Bound, Context
<1>4. WritersAgree' /\ AcceptedStored'
  BY <1>1 DEF Inv, TypeOK, WritersAgree, AcceptedStored, Onward
<1>5. AnswersFit' /\ CausesEnd'
  BY <1>1 DEF Inv, TypeOK, AnswersFit, CausesEnd, AnswerFits, Covered, Disclosure
<1>6. OneCoverageUnlessRaced'
  BY <1>1 DEF Inv, TypeOK, OneCoverageUnlessRaced
<1>7. AnswersNameTheirCoverage'
  BY <1>1 DEF Inv, TypeOK, AnswersNameTheirCoverage
<1> QED BY <1>2, <1>3, <1>4, <1>5, <1>6, <1>7 DEF Inv

LEMMA ProposeMappingSafe ==
  ASSUME Inv, NEW c \in Calls, ProposeMapping(c)
  PROVE  Inv'
<1>1. /\ pc[c] = "register"
      /\ response' = [response EXCEPT ![c] = [NoResponse EXCEPT !.clarify = TRUE, !.blocked = TRUE,
                                                !.proposals = MappingProposals(headers[c])]]
      /\ pc' = [pc EXCEPT ![c] = "returned"] /\ headers' = [headers EXCEPT ![c] = None]
      /\ UNCHANGED <<file, clock, host, dataset, accepted, cause, stores>>
  BY DEF ProposeMapping, Answer, ForgetHeaders
<1>2. TypeOK'
  BY <1>1 DEF Inv, TypeOK, NoResponse, MappingProposals
<1>3. ProposalsCover' /\ AcceptedBound'
  BY <1>1 DEF Inv, TypeOK, ProposalsCover, AcceptedBound, Bound, Context
<1>4. WritersAgree' /\ AcceptedStored'
  BY <1>1 DEF Inv, TypeOK, WritersAgree, AcceptedStored, Onward
<1>5. AnswersFit' /\ CausesEnd'
  BY <1>1 DEF Inv, TypeOK, AnswersFit, CausesEnd, AnswerFits, Covered, Disclosure
<1>6. OneCoverageUnlessRaced'
  BY <1>1 DEF Inv, TypeOK, OneCoverageUnlessRaced
<1>7. AnswersNameTheirCoverage'
  BY <1>1 DEF Inv, TypeOK, AnswersNameTheirCoverage, NoResponse, AnswersFit, AnswerFits
<1> QED BY <1>2, <1>3, <1>4, <1>5, <1>6, <1>7 DEF Inv

LEMMA RegisterSafe ==
  ASSUME Inv, NEW c \in Calls, Register(c)
  PROVE  Inv'
<1>1. /\ pc[c] = "register" /\ dataset' = [dataset EXCEPT ![c] = file]
      /\ \/ pc' = [pc EXCEPT ![c] = "analyse"] /\ headers' = [headers EXCEPT ![c] = None]
         \/ pc' = [pc EXCEPT ![c] = "check"] /\ UNCHANGED headers
      /\ UNCHANGED <<file, clock, host, accepted, cause, response, stores>>
  BY DEF Register, ForgetHeaders
<1>2. TypeOK'
  BY <1>1 DEF Inv, TypeOK
<1>3. accepted[c] = None /\ cause[c] = "none"
  BY <1>1 DEF Inv, AcceptedBound, CausesEnd, TypeOK
<1>4. pc'[c] \in {"analyse", "check"}
  BY <1>1 DEF Inv, TypeOK
<1>5. ASSUME NEW k \in Calls, k # c PROVE pc'[k] = pc[k] /\ dataset'[k] = dataset[k]
  BY <1>1, <1>5 DEF Inv, TypeOK
<1>6. ProposalsCover' /\ AcceptedBound'
  <2>1. ProposalsCover'
    BY <1>1 DEF Inv, ProposalsCover
  <2>2. ASSUME NEW k \in Calls, k # c, accepted[k] # None PROVE Bound(k, accepted[k])'
    BY <1>1, <1>5, <2>2 DEF Inv, AcceptedBound, Bound, Context
  <2> QED BY <1>1, <1>3, <1>4, <1>5, <2>1, <2>2 DEF Inv, AcceptedBound
<1>7. WritersAgree' /\ AcceptedStored'
  BY <1>1, <1>3, <1>4, <1>5 DEF Inv, WritersAgree, AcceptedStored
<1>8. AnswersFit' /\ CausesEnd'
  <2>1. AnswerFits(c)'
    BY <1>1, <1>4 DEF Inv, AnswersFit, AnswerFits
  <2>2. ASSUME NEW k \in Calls \ {c} PROVE AnswerFits(k)'
    BY <1>1, <1>5, AnswerKept
  <2>3. CausesEnd'
    BY <1>1, <1>3, <1>5 DEF Inv, CausesEnd
  <2> QED BY <2>1, <2>2, <2>3 DEF AnswersFit
<1>9. OneCoverageUnlessRaced' /\ AnswersNameTheirCoverage'
  BY <1>1, <1>4, <1>5 DEF Inv, OneCoverageUnlessRaced, AnswersNameTheirCoverage
<1> QED BY <1>2, <1>6, <1>7, <1>8, <1>9 DEF Inv

LEMMA RaisesSafe ==
  ASSUME Inv, NEW c \in Calls, Raises(c)
  PROVE  Inv'
<1>1. /\ pc[c] \in {"register", "check", "write", "refer", "analyse", "claims", "diagnose"}
      /\ pc' = [pc EXCEPT ![c] = "failed"] /\ headers' = [headers EXCEPT ![c] = None]
      /\ dataset' = [dataset EXCEPT ![c] = Unregistered] /\ accepted' = [accepted EXCEPT ![c] = None]
      /\ response' = [response EXCEPT ![c] = NoResponse] /\ projected' = [projected EXCEPT ![c] = {}]
      /\ UNCHANGED <<file, clock, host, cause, store, refs, raced, admitted, wrote>>
  BY DEF Raises, ForgetHeaders
<1>2. TypeOK'
  <2>1. Unregistered \in Contents
    BY DEF Inv, TypeOK, Unregistered
  <2> QED BY <1>1, <2>1 DEF Inv, TypeOK, NoResponse
<1>3. ProposalsCover' /\ AcceptedBound'
  BY <1>1 DEF Inv, TypeOK, ProposalsCover, AcceptedBound, Bound, Context
<1>4. WritersAgree' /\ AcceptedStored'
  BY <1>1 DEF Inv, TypeOK, WritersAgree, AcceptedStored, Onward
<1>5. AnswersFit' /\ CausesEnd'
  BY <1>1 DEF Inv, TypeOK, AnswersFit, CausesEnd, AnswerFits, Covered, Disclosure
<1>6. OneCoverageUnlessRaced'
  BY <1>1 DEF Inv, TypeOK, OneCoverageUnlessRaced
<1>7. AnswersNameTheirCoverage'
  BY <1>1 DEF Inv, TypeOK, AnswersNameTheirCoverage
<1> QED BY <1>2, <1>3, <1>4, <1>5, <1>6, <1>7 DEF Inv

LEMMA RetrySafe ==
  ASSUME Inv, NEW c \in Calls, Retry(c)
  PROVE  Inv'
<1>1. /\ pc[c] = "failed" /\ pc' = [pc EXCEPT ![c] = "asked"]
      /\ UNCHANGED <<file, clock, host, call, response, stores>>
  BY DEF Retry
<1>2. TypeOK'
  BY <1>1 DEF Inv, TypeOK
<1>3. ProposalsCover' /\ AcceptedBound'
  BY <1>1 DEF Inv, TypeOK, ProposalsCover, AcceptedBound, Bound, Context
<1>4. WritersAgree' /\ AcceptedStored'
  BY <1>1 DEF Inv, TypeOK, WritersAgree, AcceptedStored, Onward
<1>5. AnswersFit' /\ CausesEnd'
  BY <1>1 DEF Inv, TypeOK, AnswersFit, CausesEnd, AnswerFits, Covered, Disclosure
<1>6. OneCoverageUnlessRaced'
  BY <1>1 DEF Inv, TypeOK, OneCoverageUnlessRaced
<1>7. AnswersNameTheirCoverage'
  BY <1>1 DEF Inv, TypeOK, AnswersNameTheirCoverage
<1> QED BY <1>2, <1>3, <1>4, <1>5, <1>6, <1>7 DEF Inv

-----------------------------------------------------------------------------
(* A declaration is refused, accepted, stored and referenced *)

\* Declarations that do not conflict state the same facts.
LEMMA SameBinding ==
  ASSUME NEW d, NEW e, Binding(d) = Binding(e)
  PROVE  SameFacts(d, e)
BY DEF Binding, SameFacts

LEMMA RefuseSafe ==
  ASSUME Inv, NEW c \in Calls, RefuseDeclaration(c)
  PROVE  Inv'
<1>1. /\ pc[c] = "check" /\ cause' = [cause EXCEPT ![c] = Refusal(c)]
      /\ response' = [response EXCEPT ![c] = [NoResponse EXCEPT !.clarify = TRUE, !.blocked = TRUE]]
      /\ pc' = [pc EXCEPT ![c] = "returned"] /\ headers' = [headers EXCEPT ![c] = None]
      /\ UNCHANGED <<file, clock, host, dataset, accepted, stores>>
  BY DEF RefuseDeclaration, Answer, ForgetHeaders
<1>2. TypeOK'
  <2>1. Refusal(c) \in {"none", "mixed", "unbound", "reused", "conflict", "mapping"}
    BY DEF Refusal
  <2>2. cause' \in [Calls -> {"none", "mixed", "unbound", "reused", "conflict", "mapping"}]
    BY <1>1, <2>1 DEF Inv, TypeOK
  <2> QED BY <1>1, <2>2 DEF Inv, TypeOK, NoResponse
<1>3. ProposalsCover' /\ AcceptedBound'
  BY <1>1 DEF Inv, TypeOK, ProposalsCover, AcceptedBound, Bound, Context
<1>4. WritersAgree' /\ AcceptedStored'
  BY <1>1 DEF Inv, TypeOK, WritersAgree, AcceptedStored, Onward
<1>5. AnswersFit' /\ CausesEnd'
  BY <1>1 DEF Inv, TypeOK, AnswersFit, CausesEnd, AnswerFits, Covered, Disclosure
<1>6. OneCoverageUnlessRaced' /\ AnswersNameTheirCoverage'
  BY <1>1 DEF Inv, TypeOK, OneCoverageUnlessRaced, AnswersNameTheirCoverage, NoResponse, AnswersFit, AnswerFits
<1> QED BY <1>2, <1>3, <1>4, <1>5, <1>6 DEF Inv

LEMMA AcceptSafe ==
  ASSUME Inv, NEW c \in Calls, AcceptDeclaration(c)
  PROVE  Inv'
<1>1. PICK d \in submitted[c] : accepted' = [accepted EXCEPT ![c] = d]
  BY DEF AcceptDeclaration
<1>2. /\ pc[c] = "check" /\ Refusal(c) = "none"
      /\ raced' = (raced \/ \E j \in Calls \ {c} : pc[j] = "write" /\ accepted[j].content = dataset[c])
      /\ pc' = [pc EXCEPT ![c] = "write"] /\ headers' = [headers EXCEPT ![c] = None]
      /\ UNCHANGED <<file, clock, host, dataset, cause, response, store, refs, wrote, projected>>
      /\ admitted' = admitted \cup {[call |-> c, question |-> intent[c], content |-> dataset[c]]}
  BY DEF AcceptDeclaration, ForgetHeaders
<1>3. /\ d \in Declarations /\ Bound(c, d) /\ d.content = dataset[c]
      /\ \A e \in store : e.content = dataset[c] => SameFacts(e, d)
  <2>1. ~Conflicting(Known(c)) /\ \A e \in submitted[c] : Bound(c, e)
    BY <1>2 DEF Refusal
  <2>2. ASSUME NEW e \in store, e.content = dataset[c] PROVE SameFacts(e, d)
    BY <2>1, <2>2, SameBinding DEF Conflicting, Known
  <2> QED BY <2>1, <2>2 DEF Inv, TypeOK, Bound
<1>4. /\ pc'[c] = "write" /\ accepted'[c] = d
      /\ \A k \in Calls \ {c} : pc'[k] = pc[k] /\ accepted'[k] = accepted[k]
  BY <1>1, <1>2 DEF Inv, TypeOK
<1>5. TypeOK'
  BY <1>1, <1>2, <1>3 DEF Inv, TypeOK
<1>6. ProposalsCover'
  BY <1>2 DEF Inv, ProposalsCover
<1>7. AcceptedBound'
  <2>1. ASSUME NEW k \in Calls, NEW e, Bound(k, e) PROVE Bound(k, e)'
    BY <1>2, <2>1 DEF Bound, Context
  <2>2. accepted'[c] \in submitted[c] /\ Bound(c, accepted'[c])
    BY <1>3, <1>4
  <2>3. None \notin Declarations
    BY DEF None, Declarations
  <2>4. accepted'[c] # None
    BY <1>3, <1>4, <2>3
  <2> QED BY <1>2, <1>4, <2>2, <2>4 DEF Inv, AcceptedBound, Bound, Context
<1>8. WritersAgree'
  <2> SUFFICES ASSUME ~raced', NEW k \in Calls, pc'[k] = "write"
               PROVE  /\ \A e \in store' : e.content = dataset'[k] => SameFacts(e, accepted'[k])
                      /\ \A j \in Calls \ {k} : pc'[j] = "write" => dataset'[j] # dataset'[k]
    BY DEF WritersAgree, SameFacts
  <2>1. ~raced /\ \A j \in Calls \ {c} : pc[j] = "write" => accepted[j].content # dataset[c]
    BY <1>2
  <2>2. ASSUME NEW j \in Calls \ {c}, pc[j] = "write" PROVE dataset[j] # dataset[c]
    BY <2>1, <2>2 DEF Inv, AcceptedBound, Bound
  <2>3. CASE k = c
    BY <1>2, <1>3, <1>4, <2>2, <2>3
  <2>4. CASE k # c
    BY <1>2, <1>4, <2>1, <2>2, <2>4 DEF Inv, WritersAgree
  <2> QED BY <2>3, <2>4
<1>9. AcceptedStored'
  BY <1>2, <1>4 DEF Inv, AcceptedStored, Onward
<1>10. AnswersFit' /\ CausesEnd'
  <2>1. AnswerFits(c)'
    BY <1>2, <1>4 DEF Inv, AnswersFit, AnswerFits
  <2>2. ASSUME NEW k \in Calls \ {c} PROVE AnswerFits(k)'
    BY <1>2, <1>4, AnswerKept
  <2>3. CausesEnd'
    BY <1>2, <1>4 DEF Inv, CausesEnd
  <2> QED BY <2>1, <2>2, <2>3 DEF AnswersFit
<1>11. OneCoverageUnlessRaced' /\ AnswersNameTheirCoverage'
  BY <1>2, <1>4 DEF Inv, OneCoverageUnlessRaced, AnswersNameTheirCoverage, SameFacts
<1> QED BY <1>5, <1>6, <1>7, <1>8, <1>9, <1>10, <1>11 DEF Inv

LEMMA WriteSafe ==
  ASSUME Inv, NEW c \in Calls, WriteDeclaration(c)
  PROVE  Inv'
<1>1. /\ pc[c] = "write" /\ store' = store \cup {accepted[c]} /\ pc' = [pc EXCEPT ![c] = "refer"]
      /\ wrote' = wrote \cup {[call |-> c, content |-> accepted[c].content]}
      /\ UNCHANGED <<file, clock, host, call, response, refs, raced, admitted, projected>>
  BY DEF WriteDeclaration, Wrote
<1>2. accepted[c] \in Declarations /\ accepted[c].content = dataset[c]
  BY <1>1 DEF Inv, TypeOK, AcceptedBound, Bound
<1>3. pc'[c] = "refer" /\ \A k \in Calls \ {c} : pc'[k] = pc[k]
  BY <1>1 DEF Inv, TypeOK
<1>4. TypeOK'
  BY <1>1, <1>2 DEF Inv, TypeOK
<1>5. ProposalsCover' /\ AcceptedBound'
  BY <1>1, <1>3 DEF Inv, ProposalsCover, AcceptedBound, Bound, Context
<1>6. WritersAgree'
  <2> SUFFICES ASSUME ~raced, NEW k \in Calls, pc'[k] = "write"
               PROVE  /\ \A d \in store' : d.content = dataset[k] => SameFacts(d, accepted[k])
                      /\ \A j \in Calls \ {k} : pc'[j] = "write" => dataset[j] # dataset[k]
    BY <1>1 DEF WritersAgree, SameFacts
  <2>1. k # c /\ pc[k] = "write" /\ dataset[k] # dataset[c]
    BY <1>1, <1>3 DEF Inv, WritersAgree
  <2> QED BY <1>1, <1>2, <1>3, <2>1 DEF Inv, WritersAgree
<1>7. AcceptedStored'
  BY <1>1, <1>3 DEF Inv, AcceptedStored, Onward
<1>8. AnswersFit' /\ CausesEnd'
  <2>1. AnswerFits(c)'
    BY <1>1, <1>3 DEF Inv, AnswersFit, AnswerFits
  <2>2. ASSUME NEW k \in Calls \ {c} PROVE AnswerFits(k)'
    BY <1>1, <1>3, AnswerKept
  <2>3. CausesEnd'
    BY <1>1, <1>3 DEF Inv, CausesEnd
  <2> QED BY <2>1, <2>2, <2>3 DEF AnswersFit
<1>9. OneCoverageUnlessRaced'
  <2> SUFFICES ASSUME ~raced, NEW d \in store', NEW e \in store', d.content = e.content
               PROVE  SameFacts(d, e)
    BY <1>1 DEF OneCoverageUnlessRaced, SameFacts
  <2>1. ASSUME NEW f \in store, f.content = dataset[c] PROVE SameFacts(f, accepted[c])
    BY <1>1, <2>1 DEF Inv, WritersAgree
  <2>2. ASSUME NEW f \in store, NEW g \in store, f.content = g.content PROVE SameFacts(f, g)
    BY <2>2 DEF Inv, OneCoverageUnlessRaced
  <2> QED BY <1>1, <1>2, <2>1, <2>2 DEF SameFacts
<1>10. AnswersNameTheirCoverage'
  BY <1>1, <1>3 DEF Inv, AnswersNameTheirCoverage
<1> QED BY <1>4, <1>5, <1>6, <1>7, <1>8, <1>9, <1>10 DEF Inv

LEMMA ReferenceSafe ==
  ASSUME Inv, NEW c \in Calls, InsertReference(c)
  PROVE  Inv'
<1>1. /\ pc[c] = "refer" /\ refs' = refs \cup {accepted[c]} /\ pc' = [pc EXCEPT ![c] = "analyse"]
      /\ UNCHANGED <<file, clock, host, call, response, store, history>>
  BY DEF InsertReference
<1>2. accepted[c] \in store
  BY <1>1 DEF Inv, AcceptedStored
<1>3. pc'[c] = "analyse" /\ \A k \in Calls \ {c} : pc'[k] = pc[k]
  BY <1>1 DEF Inv, TypeOK
<1>4. TypeOK'
  BY <1>1, <1>2 DEF Inv, TypeOK
<1>5. ProposalsCover' /\ AcceptedBound'
  BY <1>1, <1>3 DEF Inv, ProposalsCover, AcceptedBound, Bound, Context
<1>6. WritersAgree' /\ AcceptedStored'
  BY <1>1, <1>3 DEF Inv, WritersAgree, AcceptedStored, Onward, SameFacts
<1>7. AnswersFit' /\ CausesEnd'
  <2>1. AnswerFits(c)'
    BY <1>1, <1>3 DEF Inv, AnswersFit, AnswerFits
  <2>2. ASSUME NEW k \in Calls \ {c} PROVE AnswerFits(k)'
    BY <1>1, <1>3, AnswerKept
  <2>3. CausesEnd'
    BY <1>1, <1>3 DEF Inv, CausesEnd
  <2> QED BY <2>1, <2>2, <2>3 DEF AnswersFit
<1>8. OneCoverageUnlessRaced' /\ AnswersNameTheirCoverage'
  BY <1>1, <1>3 DEF Inv, OneCoverageUnlessRaced, AnswersNameTheirCoverage, SameFacts
<1> QED BY <1>4, <1>5, <1>6, <1>7, <1>8 DEF Inv

-----------------------------------------------------------------------------
(* The analysis and the answer *)

LEMMA AnalyseSafe ==
  ASSUME Inv, NEW c \in Calls, Analyse(c)
  PROVE  Inv'
<1>1. PICK available \in {TRUE, FALSE} :
        /\ available => Covered(c)
        /\ pc' = [pc EXCEPT ![c] = IF available THEN "claims" ELSE "unavailable"]
  BY DEF Analyse
<1>2. pc[c] = "analyse" /\ UNCHANGED <<file, clock, host, call, response, stores>>
  BY DEF Analyse
<1>3. /\ (pc'[c] = "claims" /\ Covered(c)) \/ pc'[c] = "unavailable"
      /\ \A k \in Calls \ {c} : pc'[k] = pc[k]
  BY <1>1 DEF Inv, TypeOK
<1>4. TypeOK'
  BY <1>1, <1>2 DEF Inv, TypeOK
<1>5. ProposalsCover' /\ AcceptedBound'
  BY <1>2, <1>3 DEF Inv, ProposalsCover, AcceptedBound, Bound, Context
<1>6. WritersAgree' /\ AcceptedStored'
  BY <1>2, <1>3 DEF Inv, WritersAgree, AcceptedStored, Onward, SameFacts
<1>7. AnswersFit' /\ CausesEnd'
  <2>1. AnswerFits(c)'
    BY <1>2, <1>3 DEF Inv, AnswersFit, AnswerFits, Covered
  <2>2. ASSUME NEW k \in Calls \ {c} PROVE AnswerFits(k)'
    BY <1>2, <1>3, AnswerKept
  <2>3. CausesEnd'
    BY <1>2, <1>3 DEF Inv, CausesEnd
  <2> QED BY <2>1, <2>2, <2>3 DEF AnswersFit
<1>8. OneCoverageUnlessRaced' /\ AnswersNameTheirCoverage'
  BY <1>2, <1>3 DEF Inv, OneCoverageUnlessRaced, AnswersNameTheirCoverage, SameFacts
<1> QED BY <1>4, <1>5, <1>6, <1>7, <1>8 DEF Inv

LEMMA ProjectSafe ==
  ASSUME Inv, NEW c \in Calls, Project(c)
  PROVE  Inv'
<1>1. PICK exact \in IF pc[c] = "claims" THEN BOOLEAN ELSE {FALSE} :
        /\ response' = [response EXCEPT ![c] = [NoResponse EXCEPT
                       !.claims = Supported(BoundClaims(c, exact)),
                       !.blocked = pc[c] = "unavailable" /\ Supported(BoundClaims(c, exact)) = {},
                       !.coverage = Disclosure(c)]]
        /\ projected' = [projected EXCEPT ![c] = Supported(BoundClaims(c, exact))]
  BY DEF Project
<1>2. /\ pc[c] \in {"claims", "unavailable"}
      /\ pc' = [pc EXCEPT ![c] = IF ~Diagnoses(intent[c]) THEN "returned"
                                 ELSE IF pc[c] = "claims" THEN "diagnose" ELSE "block"]
      /\ UNCHANGED <<file, clock, host, call, store, refs, raced, admitted, wrote>>
  BY DEF Project
<1>3. /\ response'[c].coverage = Disclosure(c) /\ response'[c].diagnostic = FALSE
      /\ response'[c].claims = projected'[c] /\ \A k \in Calls \ {c} : projected'[k] = projected[k]
      /\ pc[c] = "unavailable" => response'[c].claims = {}
      /\ \A k \in Calls \ {c} : response'[k] = response[k]
  BY <1>1 DEF Inv, TypeOK, NoResponse, BoundClaims, Supported
<1>4. /\ \/ pc'[c] = "returned"
         \/ pc'[c] = "diagnose" /\ pc[c] = "claims"
         \/ pc'[c] = "block" /\ pc[c] = "unavailable"
      /\ \A k \in Calls \ {c} : pc'[k] = pc[k]
  BY <1>2 DEF Inv, TypeOK
<1>5. TypeOK'
  <2>1. Supported(BoundClaims(c, exact)) \in SUBSET {"descriptive"}
    BY DEF Supported
  <2>2. Disclosure(c) \in SUBSET Declarations
    BY DEF Inv, TypeOK, Disclosure
  <2>3. (pc[c] = "unavailable" /\ Supported(BoundClaims(c, exact)) = {}) \in BOOLEAN
    OBVIOUS
  <2>4. response' \in [Calls -> [claims : SUBSET {"descriptive"}, blocked : BOOLEAN, clarify : BOOLEAN,
                                 proposals : SUBSET Fields, coverage : SUBSET Declarations,
                                 diagnostic : BOOLEAN]]
    BY <1>1, <2>1, <2>2, <2>3 DEF Inv, TypeOK, NoResponse
  <2>5. projected' \in [Calls -> SUBSET {"descriptive"}]
    BY <1>1, <2>1 DEF Inv, TypeOK
  <2> QED BY <1>2, <2>4, <2>5 DEF Inv, TypeOK
<1>6. ProposalsCover' /\ AcceptedBound'
  BY <1>2, <1>4 DEF Inv, ProposalsCover, AcceptedBound, Bound, Context
<1>7. WritersAgree' /\ AcceptedStored'
  BY <1>2, <1>4 DEF Inv, WritersAgree, AcceptedStored, Onward, SameFacts
<1>8. AnswersFit' /\ CausesEnd'
  <2>1. AnswerFits(c)'
    BY <1>2, <1>3, <1>4 DEF Inv, AnswersFit, AnswerFits, Covered, Disclosure
  <2>2. ASSUME NEW k \in Calls \ {c} PROVE AnswerFits(k)'
    BY <1>2, <1>3, <1>4, AnswerKept
  <2>3. CausesEnd'
    BY <1>2, <1>4 DEF Inv, CausesEnd
  <2> QED BY <2>1, <2>2, <2>3 DEF AnswersFit
<1>9. AnswersNameTheirCoverage'
  <2>1. ASSUME response'[c].claims # {}, ~intent[c].trusted
        PROVE  response'[c].coverage # {} /\ response'[c].coverage \subseteq refs
    <3>1. pc[c] = "claims"
      BY <1>2, <1>3, <2>1
    <3>2. accepted[c] # None
      BY <2>1, <3>1 DEF Inv, AnswersFit, AnswerFits, Covered
    <3>3. accepted[c] \in refs
      BY <3>1, <3>2 DEF Inv, AcceptedStored, Onward
    <3> QED BY <1>3, <3>2, <3>3 DEF Disclosure
  <2> QED BY <1>2, <1>3, <1>4, <2>1 DEF Inv, AnswersNameTheirCoverage
<1>10. OneCoverageUnlessRaced'
  BY <1>2 DEF Inv, OneCoverageUnlessRaced, SameFacts
<1> QED BY <1>5, <1>6, <1>7, <1>8, <1>9, <1>10 DEF Inv

LEMMA DiagnoseSafe ==
  ASSUME Inv, NEW c \in Calls, Diagnose(c) \/ BlockDiagnostic(c)
  PROVE  Inv'
<1>1. PICK lineage \in BOOLEAN :
        /\ response' = [response EXCEPT ![c] = WithDiagnostic(response[c], lineage)]
        /\ lineage => pc[c] = "diagnose"
  BY DEF Diagnose, BlockDiagnostic, Answer
<1>2. /\ pc[c] \in {"diagnose", "block"} /\ pc' = [pc EXCEPT ![c] = "returned"]
      /\ UNCHANGED <<file, clock, host, call, stores>>
  BY DEF Diagnose, BlockDiagnostic, Answer
<1>3. pc'[c] = "returned" /\ \A k \in Calls \ {c} : pc'[k] = pc[k]
  BY <1>2 DEF Inv, TypeOK
<1>4. response'[c] = WithDiagnostic(response[c], lineage) /\ \A k \in Calls \ {c} : response'[k] = response[k]
  BY <1>1 DEF Inv, TypeOK
<1>5. TypeOK'
  <2> DEFINE Responses == [claims : SUBSET {"descriptive"}, blocked : BOOLEAN, clarify : BOOLEAN,
                           proposals : SUBSET Fields, coverage : SUBSET Declarations,
                           diagnostic : BOOLEAN]
  <2>1. response \in [Calls -> Responses]
    BY DEF Inv, TypeOK
  <2>2. response[c] \in Responses
    BY <2>1
  <2>3. WithDiagnostic(response[c], lineage) \in Responses
    BY <2>2 DEF WithDiagnostic
  <2>4. response' \in [Calls -> Responses]
    BY <1>1, <2>1, <2>3
  <2> QED BY <1>2, <2>4 DEF Inv, TypeOK
<1>6. ProposalsCover' /\ AcceptedBound'
  BY <1>2, <1>3 DEF Inv, ProposalsCover, AcceptedBound, Bound, Context
<1>7. WritersAgree' /\ AcceptedStored'
  BY <1>2, <1>3 DEF Inv, WritersAgree, AcceptedStored, Onward, SameFacts
<1>8. AnswersFit' /\ CausesEnd'
  <2>1. AnswerFits(c)'
    BY <1>3 DEF AnswerFits
  <2>2. ASSUME NEW k \in Calls \ {c} PROVE AnswerFits(k)'
    BY <1>2, <1>3, <1>4, AnswerKept
  <2>3. CausesEnd'
    BY <1>2, <1>3 DEF Inv, CausesEnd
  <2> QED BY <2>1, <2>2, <2>3 DEF AnswersFit
<1>9. AnswersNameTheirCoverage'
  <2>1. /\ response'[c].coverage = response[c].coverage
        /\ response'[c].claims = response[c].claims
        /\ lineage \/ response'[c].diagnostic = response[c].diagnostic
    <3>1. response[c] \in [claims : SUBSET {"descriptive"}, blocked : BOOLEAN, clarify : BOOLEAN,
                           proposals : SUBSET Fields, coverage : SUBSET Declarations,
                           diagnostic : BOOLEAN]
      BY DEF Inv, TypeOK
    <3> QED BY <1>4, <3>1 DEF WithDiagnostic
  <2>2. response'[c].claims = projected'[c]
    BY <1>2, <2>1 DEF Inv, AnswersFit, AnswerFits
  <2>3. ASSUME response'[c].claims # {} \/ response'[c].diagnostic, ~intent[c].trusted
        PROVE  response'[c].coverage # {} /\ response'[c].coverage \subseteq refs
    <3>1. pc[c] = "diagnose"
      BY <1>1, <1>2, <2>1, <2>3 DEF Inv, AnswersFit, AnswerFits
    <3>2. accepted[c] # None /\ response[c].coverage = Disclosure(c)
      BY <2>3, <3>1 DEF Inv, AnswersFit, AnswerFits, Covered
    <3>3. accepted[c] \in refs
      BY <3>1, <3>2 DEF Inv, AcceptedStored, Onward
    <3> QED BY <2>1, <3>2, <3>3 DEF Disclosure
  <2> QED BY <1>2, <1>3, <1>4, <2>2, <2>3 DEF Inv, AnswersNameTheirCoverage
<1>10. OneCoverageUnlessRaced'
  BY <1>2 DEF Inv, OneCoverageUnlessRaced, SameFacts
<1> QED BY <1>5, <1>6, <1>7, <1>8, <1>9, <1>10 DEF Inv
-----------------------------------------------------------------------------
LEMMA NextInv == Inv /\ [Next]_vars => Inv'
<1> SUFFICES ASSUME Inv, [Next]_vars PROVE Inv'
  OBVIOUS
<1>1. CASE Save
  BY <1>1, SaveSafe
<1>2. CASE Tick
  BY <1>2, TickSafe
<1>3. ASSUME NEW c \in Calls, Step(c) PROVE Inv'
  <2>1. CASE Ask(c) \/ Inspect(c) \/ Propose(c) \/ Confirm(c) \/ Supply(c)
    BY <2>1, AskSafe, InspectSafe, ProposeSafe, ConfirmSafe, SupplySafe
  <2>2. CASE Clarify(c) \/ ReadHeaders(c) \/ ProposeMapping(c) \/ Register(c)
    BY <2>2, ClarifySafe, ReadHeadersSafe, ProposeMappingSafe, RegisterSafe
  <2>3. CASE RefuseDeclaration(c) \/ AcceptDeclaration(c) \/ WriteDeclaration(c) \/ InsertReference(c)
    BY <2>3, RefuseSafe, AcceptSafe, WriteSafe, ReferenceSafe
  <2>4. CASE Analyse(c) \/ Project(c) \/ BlockDiagnostic(c) \/ Diagnose(c)
    BY <2>4, AnalyseSafe, ProjectSafe, DiagnoseSafe
  <2>5. CASE Raises(c) \/ Retry(c)
    BY <2>5, RaisesSafe, RetrySafe
  <2> QED BY <1>3, <2>1, <2>2, <2>3, <2>4, <2>5 DEF Step
<1>4. CASE UNCHANGED vars
  <2>1. UNCHANGED <<file, clock, pc, host, call, response, stores>>
    BY <1>4 DEF vars
  <2>2. TypeOK'
    BY <2>1 DEF Inv, TypeOK
  <2>3. ProposalsCover' /\ AcceptedBound' /\ WritersAgree' /\ AcceptedStored'
    BY <2>1 DEF Inv, ProposalsCover, AcceptedBound, WritersAgree, AcceptedStored, Bound, Context
  <2>4. AnswersFit' /\ CausesEnd'
    BY <2>1 DEF Inv, AnswersFit, CausesEnd, AnswerFits, Covered, Disclosure
  <2>5. OneCoverageUnlessRaced' /\ AnswersNameTheirCoverage'
    BY <2>1 DEF Inv, OneCoverageUnlessRaced, AnswersNameTheirCoverage
  <2> QED BY <2>2, <2>3, <2>4, <2>5 DEF Inv
<1> QED BY <1>1, <1>2, <1>3, <1>4 DEF Next

-----------------------------------------------------------------------------
(* Calls that are made again *)

\* What admission found of one declaration, which nothing but the clock can change since.
StillBound(r, d, now) ==
  /\ d.content = r.content /\ d.context = Context(r.question)
  /\ d.cover <= d.cutoff /\ d.cutoff <= d.recorded /\ d.recorded <= now
  /\ r.question.period <= d.cover

\* Once admitted, a call's own declarations pass for that question and version for good.
AdmittedHold ==
  \A r \in admitted :
    /\ ~r.question.trusted
    /\ submitted[r.call] # {}
    /\ \A d \in submitted[r.call] : StillBound(r, d, clock)
    /\ ~Reused(submitted[r.call]) /\ ~Conflicting(submitted[r.call])

\* Whatever is on disk was stored by a call that was handed it, as it was handed it.
StoredAsSubmitted ==
  \A d \in store : \E j \in Calls :
    d \in submitted[j] /\ [call |-> j, content |-> d.content] \in wrote

RetryInv == AdmittedHold /\ StoredAsSubmitted /\ RetriesAreAdmitted

\* Declarations that were handed over, and all that concerns a refused call, stay.
LEMMA HandedOverStays ==
  ASSUME Inv, [Next]_vars
  PROVE  /\ \A k \in Calls : submitted[k] # {} => submitted'[k] = submitted[k]
         /\ \A k \in Calls : cause[k] # "none" =>
              cause'[k] = cause[k] /\ intent'[k] = intent[k] /\ dataset'[k] = dataset[k]
         /\ clock \in Nat /\ clock' \in Nat /\ clock <= clock'
<1>1. \A k \in Calls : cause[k] # "none" => pc[k] = "returned"
  BY DEF Inv, CausesEnd
<1>2. clock \in Nat /\ MaxTime \in Nat
  BY DEF Inv, TypeOK, Times
<1>3. CASE Save \/ Tick \/ UNCHANGED vars
  BY <1>2, <1>3 DEF Save, Tick, vars
<1>4. ASSUME NEW c \in Calls, Step(c)
      PROVE  /\ \A k \in Calls : submitted[k] # {} => submitted'[k] = submitted[k]
             /\ \A k \in Calls : cause[k] # "none" =>
                  cause'[k] = cause[k] /\ intent'[k] = intent[k] /\ dataset'[k] = dataset[k]
             /\ clock' = clock
  <2>1. CASE Ask(c) \/ Inspect(c) \/ Propose(c) \/ Confirm(c) \/ Supply(c)
    BY <1>1, <2>1 DEF Inv, TypeOK, Ask, Inspect, Propose, Confirm, Supply
  <2>2. CASE Clarify(c) \/ ReadHeaders(c) \/ ProposeMapping(c) \/ Register(c) \/ RefuseDeclaration(c)
    BY <1>1, <2>2 DEF Inv, TypeOK, Clarify, ReadHeaders, ProposeMapping, Register, RefuseDeclaration
  <2>3. CASE AcceptDeclaration(c) \/ WriteDeclaration(c) \/ InsertReference(c) \/ Analyse(c)
    BY <1>1, <2>3 DEF AcceptDeclaration, WriteDeclaration, InsertReference, Analyse
  <2>4. CASE Project(c) \/ BlockDiagnostic(c) \/ Diagnose(c) \/ Raises(c) \/ Retry(c)
    BY <1>1, <2>4 DEF Inv, TypeOK, Project, BlockDiagnostic, Diagnose, Raises, Retry
  <2> QED BY <1>4, <2>1, <2>2, <2>3, <2>4 DEF Step
<1> QED BY <1>2, <1>3, <1>4 DEF Next

\* What was admitted holds in a step that adds nothing to it: the clock goes forwards.
LEMMA AdmittedStay ==
  ASSUME Inv, AdmittedHold, [Next]_vars
  PROVE  \A r \in admitted :
           /\ ~r.question.trusted /\ submitted'[r.call] = submitted[r.call] /\ submitted[r.call] # {}
           /\ \A d \in submitted[r.call] : StillBound(r, d, clock')
           /\ ~Reused(submitted[r.call]) /\ ~Conflicting(submitted[r.call])
<1> SUFFICES ASSUME NEW r \in admitted
             PROVE  /\ ~r.question.trusted /\ submitted'[r.call] = submitted[r.call] /\ submitted[r.call] # {}
                    /\ \A d \in submitted[r.call] : StillBound(r, d, clock')
                    /\ ~Reused(submitted[r.call]) /\ ~Conflicting(submitted[r.call])
  OBVIOUS
<1>1. r.call \in Calls /\ submitted[r.call] \subseteq Declarations
  BY DEF Inv, TypeOK
<1>2. /\ ~r.question.trusted /\ submitted[r.call] # {}
      /\ \A d \in submitted[r.call] : StillBound(r, d, clock)
      /\ ~Reused(submitted[r.call]) /\ ~Conflicting(submitted[r.call])
  BY DEF AdmittedHold
<1>3. submitted'[r.call] = submitted[r.call] /\ clock \in Nat /\ clock' \in Nat /\ clock <= clock'
  BY <1>1, <1>2, HandedOverStays
<1>4. ASSUME NEW d \in submitted[r.call] PROVE StillBound(r, d, clock')
  <2>1. d.recorded \in Int
    BY <1>1 DEF Declarations, Times
  <2> QED BY <1>2, <1>3, <2>1 DEF StillBound
<1> QED BY <1>2, <1>3, <1>4

\* A call that was admitted before and sees no declaration but its own is not refused.
LEMMA OwnDeclarationsPass ==
  ASSUME Inv, RetryInv, NEW c \in Calls,
         Refusal(c) \in {"mixed", "unbound", "reused", "conflict"},
         [call |-> c, question |-> intent[c], content |-> dataset[c]] \in admitted
  PROVE  \E j \in Calls \ {c} : [call |-> j, content |-> dataset[c]] \in wrote
<1> SUFFICES ASSUME \A j \in Calls \ {c} : [call |-> j, content |-> dataset[c]] \notin wrote
             PROVE  FALSE
  OBVIOUS
<1> DEFINE r == [call |-> c, question |-> intent[c], content |-> dataset[c]]
<1>1. r.call = c /\ r.question = intent[c] /\ r.content = dataset[c]
  OBVIOUS
<1>2. /\ ~r.question.trusted
      /\ \A d \in submitted[r.call] : StillBound(r, d, clock)
      /\ ~Reused(submitted[r.call]) /\ ~Conflicting(submitted[r.call])
  BY DEF RetryInv, AdmittedHold
<1> HIDE DEF r
<1>3. ~intent[c].trusted /\ ~Reused(submitted[c]) /\ ~Conflicting(submitted[c])
  BY <1>1, <1>2
<1>4. \A d \in submitted[c] : Bound(c, d)
  BY <1>1, <1>2 DEF StillBound, Bound
<1>5. ASSUME NEW d \in store, d.content = dataset[c] PROVE d \in submitted[c]
  <2>1. PICK j \in Calls : d \in submitted[j] /\ [call |-> j, content |-> d.content] \in wrote
    BY DEF RetryInv, StoredAsSubmitted
  <2>2. j = c
    BY <1>5, <2>1
  <2> QED BY <2>1, <2>2
<1>6. Known(c) = submitted[c]
  BY <1>5 DEF Known
<1> QED BY <1>3, <1>4, <1>6 DEF Refusal

\* An accepted declaration, and all that were handed over with it, are bound and agree.
LEMMA AcceptedIsHeld ==
  ASSUME Inv, NEW c \in Calls, AcceptDeclaration(c)
  PROVE  /\ ~intent[c].trusted /\ submitted[c] # {}
         /\ \A d \in submitted[c] : Bound(c, d)
         /\ ~Reused(submitted[c]) /\ ~Conflicting(submitted[c])
<1>1. Refusal(c) = "none" /\ submitted[c] # {}
  BY DEF AcceptDeclaration
<1>2. ~intent[c].trusted /\ (\A d \in submitted[c] : Bound(c, d)) /\ ~Reused(Known(c)) /\ ~Conflicting(Known(c))
  BY <1>1 DEF Refusal
<1>3. submitted[c] \subseteq Known(c)
  BY DEF Known
<1> QED BY <1>1, <1>2, <1>3 DEF Reused, Conflicting

LEMMA AdmittedHoldNext ==
  ASSUME Inv, AdmittedHold, [Next]_vars
  PROVE  AdmittedHold'
<1>1. ASSUME NEW c \in Calls, AcceptDeclaration(c)
      PROVE  AdmittedHold'
  <2> DEFINE new == [call |-> c, question |-> intent[c], content |-> dataset[c]]
  <2>1. admitted' = admitted \cup {new} /\ submitted' = submitted /\ clock' = clock
    BY <1>1 DEF AcceptDeclaration
  <2>2. new.call = c /\ new.question = intent[c] /\ new.content = dataset[c]
    OBVIOUS
  <2> HIDE DEF new
  <2>3. /\ ~intent[c].trusted /\ submitted[c] # {}
        /\ \A d \in submitted[c] : Bound(c, d)
        /\ ~Reused(submitted[c]) /\ ~Conflicting(submitted[c])
    BY <1>1, AcceptedIsHeld
  <2>4. \A d \in submitted[c] : StillBound(new, d, clock)
    BY <2>1, <2>2, <2>3 DEF StillBound, Bound
  <2> QED BY <2>1, <2>2, <2>3, <2>4, AdmittedStay DEF AdmittedHold, Reused, Conflicting
<1>2. CASE admitted' = admitted
  BY <1>2, AdmittedStay DEF AdmittedHold, Reused, Conflicting
<1>3. ASSUME NEW c \in Calls, Step(c), ~AcceptDeclaration(c) PROVE admitted' = admitted
  BY <1>3 DEF Step, Ask, Inspect, Propose, Confirm, Supply, Clarify, ReadHeaders, ProposeMapping, Register,
     RefuseDeclaration, WriteDeclaration, InsertReference, Analyse, Project, BlockDiagnostic, Diagnose,
     Raises, Retry
<1>4. ASSUME Save \/ Tick \/ UNCHANGED vars PROVE admitted' = admitted
  BY <1>4 DEF Save, Tick, vars
<1> QED BY <1>1, <1>2, <1>3, <1>4 DEF Next

LEMMA StoredAsSubmittedNext ==
  ASSUME Inv, StoredAsSubmitted, [Next]_vars
  PROVE  StoredAsSubmitted'
<1>1. ASSUME NEW d \in store, wrote \subseteq wrote'
      PROVE  \E j \in Calls : d \in submitted'[j] /\ [call |-> j, content |-> d.content] \in wrote'
  <2>1. PICK j \in Calls : d \in submitted[j] /\ [call |-> j, content |-> d.content] \in wrote
    BY DEF StoredAsSubmitted
  <2>2. submitted'[j] = submitted[j]
    BY <2>1, HandedOverStays
  <2> QED BY <1>1, <2>1, <2>2
<1>2. ASSUME NEW c \in Calls, WriteDeclaration(c)
      PROVE  StoredAsSubmitted'
  <2>1. /\ pc[c] = "write" /\ store' = store \cup {accepted[c]} /\ submitted' = submitted
        /\ wrote' = wrote \cup {[call |-> c, content |-> accepted[c].content]}
    BY <1>2 DEF WriteDeclaration, Wrote
  <2>2. accepted[c] \in submitted[c]
    BY <2>1 DEF Inv, AcceptedBound
  <2> QED BY <1>1, <2>1, <2>2 DEF StoredAsSubmitted
<1>3. CASE store' = store /\ wrote' = wrote
  BY <1>1, <1>3 DEF StoredAsSubmitted
<1>4. ASSUME NEW c \in Calls, Step(c), ~WriteDeclaration(c) PROVE store' = store /\ wrote' = wrote
  BY <1>4 DEF Step, Ask, Inspect, Propose, Confirm, Supply, Clarify, ReadHeaders, ProposeMapping, Register,
     RefuseDeclaration, AcceptDeclaration, InsertReference, Analyse, Project, BlockDiagnostic, Diagnose,
     Raises, Retry
<1>5. ASSUME Save \/ Tick \/ UNCHANGED vars PROVE store' = store /\ wrote' = wrote
  BY <1>5 DEF Save, Tick, vars
<1> QED BY <1>2, <1>3, <1>4, <1>5 DEF Next

\* The refusal is where it is decided; afterwards the call stays as it is.
LEMMA RetriesAreAdmittedNext ==
  ASSUME Inv, RetryInv, [Next]_vars
  PROVE  RetriesAreAdmitted'
<1> SUFFICES ASSUME NEW k \in Calls,
                    cause'[k] \in {"mixed", "unbound", "reused", "conflict"},
                    [call |-> k, question |-> intent'[k], content |-> dataset'[k]] \in admitted'
             PROVE  \E j \in Calls \ {k} : [call |-> j, content |-> dataset'[k]] \in wrote'
  BY DEF RetriesAreAdmitted
<1>1. wrote \subseteq wrote'
  <2>1. ASSUME NEW c \in Calls, Step(c) PROVE wrote \subseteq wrote'
    BY <2>1 DEF Step, Ask, Inspect, Propose, Confirm, Supply, Clarify, ReadHeaders, ProposeMapping,
       Register, RefuseDeclaration, AcceptDeclaration, WriteDeclaration, Wrote, InsertReference, Analyse,
       Project, BlockDiagnostic, Diagnose, Raises, Retry
  <2>2. CASE Save \/ Tick \/ UNCHANGED vars
    BY <2>2 DEF Save, Tick, vars
  <2> QED BY <2>1, <2>2 DEF Next
<1>2. CASE cause[k] # "none"
  <2>1. cause'[k] = cause[k] /\ intent'[k] = intent[k] /\ dataset'[k] = dataset[k]
    BY <1>2, HandedOverStays
  <2>2. [call |-> k, question |-> intent[k], content |-> dataset[k]] \in admitted
    <3>1. pc[k] = "returned"
      BY <1>2 DEF Inv, CausesEnd
    <3>2. ASSUME NEW c \in Calls, AcceptDeclaration(c)
          PROVE  [call |-> k, question |-> intent[k], content |-> dataset[k]] \in admitted
      BY <2>1, <3>1, <3>2 DEF AcceptDeclaration
    <3>3. ASSUME NEW c \in Calls, Step(c), ~AcceptDeclaration(c) PROVE admitted' = admitted
      BY <3>3 DEF Step, Ask, Inspect, Propose, Confirm, Supply, Clarify, ReadHeaders, ProposeMapping,
         Register, RefuseDeclaration, WriteDeclaration, InsertReference, Analyse, Project,
         BlockDiagnostic, Diagnose, Raises, Retry
    <3>4. ASSUME Save \/ Tick \/ UNCHANGED vars PROVE admitted' = admitted
      BY <3>4 DEF Save, Tick, vars
    <3> QED BY <2>1, <3>2, <3>3, <3>4 DEF Next
  <2> QED BY <1>1, <2>1, <2>2 DEF RetryInv, RetriesAreAdmitted
<1>3. CASE cause[k] = "none"
  <2>1. ASSUME NEW c \in Calls, Step(c), ~RefuseDeclaration(c) PROVE cause' = cause
    BY <2>1 DEF Step, Ask, Inspect, Propose, Confirm, Supply, Clarify, ReadHeaders, ProposeMapping,
       Register, AcceptDeclaration, WriteDeclaration, InsertReference, Analyse, Project,
       BlockDiagnostic, Diagnose, Raises, Retry
  <2>2. ASSUME Save \/ Tick \/ UNCHANGED vars PROVE cause' = cause
    BY <2>2 DEF Save, Tick, vars
  <2>3. PICK c \in Calls : RefuseDeclaration(c)
    BY <1>3, <2>1, <2>2 DEF Next
  <2>4. /\ cause' = [cause EXCEPT ![c] = Refusal(c)]
        /\ intent' = intent /\ dataset' = dataset /\ admitted' = admitted /\ wrote' = wrote
    BY <2>3 DEF RefuseDeclaration
  <2>5. k = c /\ Refusal(k) = cause'[k]
    BY <1>3, <2>4 DEF Inv, TypeOK
  <2> QED BY <2>4, <2>5, OwnDeclarationsPass
<1> QED BY <1>2, <1>3

\* A call that accepted what was confirmed analyses that very version, mapping and period.
LEMMA InvAnalysedAsConfirmed == Inv => AnalysedAsConfirmed
<1> SUFFICES ASSUME Inv, NEW k \in Calls, accepted[k] # None
             PROVE  /\ intent[k].period <= clock
                    /\ confirmed[k] # None =>
                         /\ dataset[k] = confirmed[k].content
                         /\ Context(intent[k]) = confirmed[k].context
                         /\ intent[k].period <= confirmed[k].period
  BY DEF AnalysedAsConfirmed
<1>1. /\ accepted[k] \in Declarations /\ accepted[k] \in submitted[k] /\ Bound(k, accepted[k])
      /\ clock \in Times /\ intent[k].period \in Times
  BY DEF Inv, TypeOK, AcceptedBound
<1>2. intent[k].period <= clock
  BY <1>1 DEF Bound, Declarations, Times
<1>3. ASSUME confirmed[k] # None
      PROVE  /\ dataset[k] = confirmed[k].content
             /\ Context(intent[k]) = confirmed[k].context
             /\ intent[k].period <= confirmed[k].period
  <2>1. /\ accepted[k].content = confirmed[k].content /\ accepted[k].context = confirmed[k].context
        /\ accepted[k].cover = confirmed[k].cover /\ confirmed[k].cover = confirmed[k].period
    BY <1>1, <1>3 DEF Inv, ProposalsCover
  <2> QED BY <1>1, <2>1 DEF Bound
<1> QED BY <1>2, <1>3

\* The conjunction of the parts above is an invariant of any number of calls.
THEOREM InvariantHolds == Spec => []Inv
<1>1. Init => Inv
  BY InitInv
<1>2. Inv /\ [Next]_vars => Inv'
  BY NextInv
<1> QED BY <1>1, <1>2, PTL DEF Spec

\* Every variable of the workflow keeps its type.
THEOREM TypeCorrect == Spec => []TypeOK
<1>1. Inv => TypeOK
  BY DEF Inv
<1> QED BY <1>1, InvariantHolds, PTL

\* Unless two calls raced, the declarations stored for a dataset state one coverage:
\* validate_declarations compares with what run_public_analysis stored before.
THEOREM OneCoverage == Spec => []OneCoverageUnlessRaced
<1>1. Inv => OneCoverageUnlessRaced
  BY DEF Inv
<1> QED BY <1>1, InvariantHolds, PTL

LEMMA RetryInvHolds == Spec => []RetryInv
<1>1. Init => RetryInv
  BY DEF Init, RetryInv, AdmittedHold, StoredAsSubmitted, RetriesAreAdmitted
<1>2. Inv /\ RetryInv /\ [Next]_vars => RetryInv'
  BY AdmittedHoldNext, StoredAsSubmittedNext, RetriesAreAdmittedNext DEF RetryInv
<1> QED BY <1>1, <1>2, InvariantHolds, PTL DEF Spec

\* A call that was admitted once and failed is, made again with the same question about
\* the same bytes, refused only over a declaration another call has stored: its own copy
\* on disk is what it hands in again, and no period it covers becomes open once more.
THEOREM RetriesAdmitted == Spec => []RetriesAreAdmitted
<1>1. RetryInv => RetriesAreAdmitted
  BY DEF RetryInv
<1> QED BY <1>1, RetryInvHolds, PTL

\* An answer that rests on a declaration names it, and it is on disk with its reference,
\* whatever failed and was retried before; and it has the claims it was made with.
THEOREM AnswersNameCoverage == Spec => []AnswersNameTheirCoverage
<1>1. Inv => AnswersNameTheirCoverage
  BY DEF Inv
<1> QED BY <1>1, InvariantHolds, PTL

\* What is analysed under a confirmed declaration is what was on display when it was
\* confirmed, although the file, the question and the clock move on in between.
THEOREM ConfirmedIsAnalysed == Spec => []AnalysedAsConfirmed
<1>1. Inv => AnalysedAsConfirmed
  BY InvAnalysedAsConfirmed
<1> QED BY <1>1, InvariantHolds, PTL
=============================================================================
