-------------------------- MODULE ChainOfAuthority --------------------------
(***************************************************************************)
(* What an analysis promises about the numbers it shows, and nothing of    *)
(* how: a result climbs from executed to validated to admitted one step at *)
(* a time, never ahead of the results it is computed from, never without a *)
(* requested and permitted chain, and once rejected it climbs no further.  *)
(***************************************************************************)
EXTENDS Naturals

CONSTANTS
  Nodes,  \* the results an analysis may compute
  Basis    \* what each is computed from

VARIABLES
  stage,      \* how far each result has climbed
  rejected,   \* the results that failed a stage
  permitted,  \* the results an eligible request needs
  requested   \* the results an eligible request asks for itself

vars == <<stage, rejected, permitted, requested>>

Nothing == 0
Executed == 1
Validated == 2
Admitted == 3

Init ==
  /\ stage = [n \in Nodes |-> Nothing]
  /\ rejected = {}
  /\ permitted \subseteq Nodes
  /\ requested \subseteq permitted

\* Results are admitted for themselves: what they rest on need only be valid.
Needed(next) == IF next = Admitted THEN Validated ELSE next

Climb(n) ==
  /\ n \in permitted \ rejected
  /\ \E next \in Executed..Admitted :
       /\ next = stage[n] + 1
       /\ next = Admitted => n \in requested
       /\ \A d \in Basis[n] : stage[d] >= Needed(next)
       /\ stage' = [stage EXCEPT ![n] = next]
  /\ UNCHANGED <<rejected, permitted, requested>>

Reject(n) ==
  /\ n \in permitted \ rejected
  /\ rejected' = rejected \cup {n}
  /\ UNCHANGED <<stage, permitted, requested>>

Next == \E n \in Nodes : Climb(n) \/ Reject(n)

Spec == Init /\ [][Next]_vars
=============================================================================
