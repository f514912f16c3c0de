-------------------------- MODULE MCDiagnosticTest --------------------------
(* A small calendar and some datasets for model checking DiagnosticTest:   *)
(* weeks of two days, two full ones in each period and a day over.         *)
EXTENDS DiagnosticTest

MCPeriods ==
  [baseline |-> [start |-> 1, end |-> 5], comparison |-> [start |-> 6, end |-> 10]]

L(day, product, revenue) == [day |-> day, product |-> product, revenue |-> revenue]

\* What a week may hold: nothing, one product or both, more or less revenue.
Weeks(d) ==
  {{}, {L(d, "p", 1)}, {L(d + 1, "q", 3)}, {L(d, "p", 1), L(d + 1, "q", 1)}}

\* The first day is in the Baseline period but in none of its full weeks; the last one
\* is in the Comparison period.
MCGrid ==
  {a \cup b \cup c \cup d \cup {L(1, "p", 1), L(10, "q", 9)} :
     a \in Weeks(2) \ {{L(3, "q", 3)}}, b \in Weeks(4), c \in Weeks(6) \ {{L(6, "p", 1)}}, d \in Weeks(8) \ {{}}}

\* Two in which rho is exactly 1/2 and -1/2.
MCBoundary ==
  {{L(2, "p", q), L(2, "q", 1), L(4, "p", 3), L(7, "q", 6 - q - 1), L(8, "r", 3)} : q \in {0, 4}}

MCDatasets == MCGrid \cup MCBoundary

\* No dataset of the above.
MCRewrites ==
  {{L(2, "p", 2), L(4, "q", 1), L(6, "p", 4), L(8, "p", 3), L(8, "q", 3)}, {L(6, "p", 1)}}

MCRequests ==
  {PublicRequest(1), PublicRequest(2), [PublicRequest(1) EXCEPT !.differs = {"scope"}]}
  \cup {[PublicRequest(1) EXCEPT !.flaws = {f}] : f \in {"handoff", "context"}}
=============================================================================
