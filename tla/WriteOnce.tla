------------------------------ MODULE WriteOnce ------------------------------
(***************************************************************************)
(* What the authority stores promise about a record, and nothing of how:   *)
(* its artifact is published once, its row is committed once, only after   *)
(* its artifact and to the same payload, and neither changes afterwards.   *)
(***************************************************************************)
CONSTANTS Records, Payloads, None

VARIABLES published, committed

vars == <<published, committed>>

Init ==
  /\ published = [r \in Records |-> None]
  /\ committed = [r \in Records |-> None]

Publish(r) ==
  /\ published[r] = None
  /\ \E p \in Payloads : published' = [published EXCEPT ![r] = p]
  /\ committed' = committed

Commit(r) ==
  /\ published[r] # None /\ committed[r] = None
  /\ committed' = [committed EXCEPT ![r] = published[r]]
  /\ published' = published

Next == \E r \in Records : Publish(r) \/ Commit(r)

Spec == Init /\ [][Next]_vars
=============================================================================
