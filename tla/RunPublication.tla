--------------------------- MODULE RunPublication ---------------------------
(***************************************************************************)
(* What retention promises a reader about one run, and nothing of how.     *)
(*                                                                         *)
(* A run is "open" until it is decided.  It may be published only while    *)
(* its evidence is sealed (every reference on disk, indexed, and agreed    *)
(* by manifest and registry), the evidence stays sealed for as long as     *)
(* the run is reported complete, and a failed run is never upgraded.       *)
(***************************************************************************)
VARIABLES status, sealed

vars == <<status, sealed>>

TypeOK == status \in {"open", "complete", "failed"} /\ sealed \in BOOLEAN

Init == status = "open" /\ sealed = FALSE

\* Evidence is gathered, indexed and sealed in whatever order.
Prepare == status = "open" /\ status' = status /\ sealed' \in BOOLEAN

\* The one durable transition that makes the run a retained bundle.
Publish == status = "open" /\ sealed /\ status' = "complete" /\ sealed' = sealed

\* A run is declared failed, before or after publication, once and for all.
Fail == status \in {"open", "complete"} /\ status' = "failed" /\ sealed' \in BOOLEAN

\* The remains of a failed run carry no promise.
Decay == status = "failed" /\ status' = status /\ sealed' \in BOOLEAN

Next == Prepare \/ Publish \/ Fail \/ Decay

Spec == Init /\ [][Next]_vars
=============================================================================
