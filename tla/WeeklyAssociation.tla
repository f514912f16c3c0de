-------------------------- MODULE WeeklyAssociation --------------------------
(***************************************************************************)
(* The one diagnostic method of R7: over the full weeks of two periods,    *)
(* the rank correlation of how far a week's products are from those of     *)
(* the Baseline period with how far its Revenue is from the median.        *)
(*                                                                         *)
(* A day is a number and a week starts at every multiple of WeekDays.  All *)
(* arithmetic is exact: ranks and medians are kept doubled, distances and  *)
(* deviations are fractions, and rho is kept as its three sums.  The code  *)
(* computes rho in binary64, whose rounding is left out.                   *)
(***************************************************************************)
EXTENDS Integers, FiniteSets, FiniteSetsExt

CONSTANTS
  WeekDays,       \* 7
  MinWeeks,       \* 8
  MinBaseline,    \* 4
  MinComparison   \* 4

ASSUME MethodAssumption ==
  WeekDays \in Nat \ {0} /\ MinWeeks \in Nat \ {0} /\ MinBaseline \in Nat /\ MinComparison \in Nat

\* The sum of f[x] over x in S.
SumOver(f, S) == MapThenSumSet(LAMBDA x : f[x], S)
-----------------------------------------------------------------------------
(* Weeks.  A line is a record of day, product and revenue; a period is a   *)
(* record of its first and last day.                                       *)

\* Mutant: a week that starts in the period is taken, whole or not.
WeeksThatStart(period) == {d \in period.start..period.end : d % WeekDays = 0}

\* The first days of the weeks that lie in a period with all their days.
FullWeeks(period) ==
  {d \in period.start..period.end : d % WeekDays = 0 /\ d + WeekDays - 1 <= period.end}

Between(lines, first, last) == {l \in lines : first <= l.day /\ l.day <= last}

LinesOf(lines, week) == Between(lines, week, week + WeekDays - 1)

ProductsOf(lines) == {l.product : l \in lines}

\* Every product of the Baseline period, those of its partial weeks too.
BaselineProducts(periods, lines) ==
  ProductsOf(Between(lines, periods.baseline.start, periods.baseline.end))

RevenueOfWeek(lines, week) ==
  SumOver([l \in LinesOf(lines, week) |-> l.revenue], LinesOf(lines, week))

\* 1 - |common| / |union|, which is not empty for a week with a line.
JaccardDistance(products, baseline) ==
  LET union == Cardinality(products \cup baseline)
  IN [num |-> union - Cardinality(products \cap baseline), den |-> union]

\* Values to be ranked are fractions.
Below(d, e) == d.num * e.den < e.num * d.den
Tied(d, e) == ~Below(d, e) /\ ~Below(e, d)

\* The weeks of a period with and without a line.
ValidWeeks(period, lines) == {w \in FullWeeks(period) : LinesOf(lines, w) # {}}
ExcludedWeeks(period, lines) == FullWeeks(period) \ ValidWeeks(period, lines)

\* The elements of a set in a strict order, a set of pairs: as many are before the one in
\* a place as there are places before it.
InOrder(S, before) ==
  [i \in 1..Cardinality(S) |->
     CHOOSE w \in S : Cardinality({x \in S : <<x, w>> \in before}) = i - 1]

\* The arguments of a function in the order of their values, equal ones in their own.
Ascending(f) ==
  {p \in (DOMAIN f) \X (DOMAIN f) : f[p[1]] < f[p[2]] \/ (f[p[1]] = f[p[2]] /\ p[1] < p[2])}

\* Twice the median of a function's values.
Median2(f) ==
  LET n == Cardinality(DOMAIN f)
      order == InOrder(DOMAIN f, Ascending(f))
  IN IF n % 2 = 1 THEN 2 * f[order[(n + 1) \div 2]] ELSE f[order[n \div 2]] + f[order[n \div 2 + 1]]
-----------------------------------------------------------------------------
(* Ranks *)

AscendingFractions(f) ==
  {p \in (DOMAIN f) \X (DOMAIN f) :
     Below(f[p[1]], f[p[2]]) \/ (Tied(f[p[1]], f[p[2]]) /\ p[1] < p[2])}

Order(f) == InOrder(DOMAIN f, AscendingFractions(f))

\* Mutant (of the ranks): ties are broken by the order of the weeks.
OrdinalRanks(f) ==
  LET order == Order(f)
  IN [w \in DOMAIN f |-> 2 * (CHOOSE i \in DOMAIN order : order[i] = w)]

\* Twice the average of the first and the last place of the values equal to it in the
\* sorted order.
AverageRanks(f) ==
  LET order == Order(f)
      places(w) == {i \in DOMAIN order : Tied(f[order[i]], f[w])}
  IN [w \in DOMAIN f |-> Min(places(w)) + Max(places(w))]

\* The validator has a copy of the same loop.
ValidatorRanks(f) == AverageRanks(f)

Centred(ranks) == [w \in DOMAIN ranks |-> ranks[w] - (Cardinality(DOMAIN ranks) + 1)]

Products(f, g) == [w \in DOMAIN f |-> f[w] * g[w]]

\* numerator and the two sums of squares of rho, each four times what it is
Spearman(x, y) ==
  LET a == Centred(x)
      b == Centred(y)
      W == DOMAIN x
  IN [xy |-> SumOver(Products(a, b), W), xx |-> SumOver(Products(a, a), W),
      yy |-> SumOver(Products(b, b), W)]

\* |rho| >= 1/2
Strong(rho) == 4 * rho.xy * rho.xy >= rho.xx * rho.yy
-----------------------------------------------------------------------------
(* The result *)

\* The valid and excluded weeks, and the two values of each valid one.
Observations(periods, lines) ==
  LET baseline == ValidWeeks(periods.baseline, lines)
      comparison == ValidWeeks(periods.comparison, lines)
      weeks == baseline \cup comparison
      known == BaselineProducts(periods, lines)
      revenue == [w \in weeks |-> RevenueOfWeek(lines, w)]
      reference2 == Median2([w \in baseline |-> revenue[w]])
  IN [baseline |-> baseline, comparison |-> comparison,
      excluded |-> ExcludedWeeks(periods.baseline, lines) \cup ExcludedWeeks(periods.comparison, lines),
      products |-> known,
      distance |-> [w \in weeks |-> JaccardDistance(ProductsOf(LinesOf(lines, w)), known)],
      deviation |-> [w \in weeks |-> [num |-> 2 * revenue[w] - reference2, den |-> 2]]]

Constant(f) == \A v, w \in DOMAIN f : Tied(f[v], f[w])

\* Why a result is inconclusive.  A denominator is only undefined for a constant vector.
Reasons(o) ==
  LET weeks == o.baseline \cup o.comparison
      because(holds, reason) == IF holds THEN {reason} ELSE {}
  IN because(Cardinality(weeks) < MinWeeks, "total weeks")
     \cup because(Cardinality(o.baseline) < MinBaseline, "baseline weeks")
     \cup because(Cardinality(o.comparison) < MinComparison, "comparison weeks")
     \cup because(weeks # {} /\ Constant(o.distance), "constant distance")
     \cup because(weeks # {} /\ Constant(o.deviation), "constant deviation")

NoRho == [xy |-> 0, xx |-> 0, yy |-> 0]

ResultOf(o, x, y) ==
  [observations |-> o, x |-> x, y |-> y, reasons |-> Reasons(o),
   rho |-> IF Reasons(o) = {} THEN Spearman(x, y) ELSE NoRho]

\* Mutant: ties are broken by the order of the weeks.
ExecutedResultOrdinal(periods, lines) ==
  LET o == Observations(periods, lines)
  IN ResultOf(o, OrdinalRanks(o.distance), OrdinalRanks(o.deviation))

\* calculate_r7_result
ExecutedResult(periods, lines) ==
  LET o == Observations(periods, lines)
  IN ResultOf(o, AverageRanks(o.distance), AverageRanks(o.deviation))

\* What the validator expects: the execution's method, written down a second time.
ExpectedResult(periods, lines) ==
  LET o == Observations(periods, lines)
  IN ResultOf(o, ValidatorRanks(o.distance), ValidatorRanks(o.deviation))

\* With a week in the Comparison period and none in the Baseline period there is no
\* reference, hence no deviation, and the first observation raises IndexError.
Computable(periods, lines) ==
  ValidWeeks(periods.baseline, lines) # {} \/ ValidWeeks(periods.comparison, lines) = {}

\* Mutant: the boundaries do not count.
OutcomeInside(result) ==
  IF result.reasons # {} THEN "not evaluated"
  ELSE IF 4 * result.rho.xy * result.rho.xy <= result.rho.xx * result.rho.yy THEN "not met"
  ELSE IF result.rho.xy < 0 THEN "met" ELSE "contradicted"

\* map_r7_outcome: rho <= -1/2 meets the criterion, rho >= 1/2 contradicts it.
Outcome(result) ==
  IF result.reasons # {} THEN "not evaluated"
  ELSE IF ~Strong(result.rho) THEN "not met"
  ELSE IF result.rho.xy < 0 THEN "met" ELSE "contradicted"
-----------------------------------------------------------------------------
(* Reference: what an average rank is, without the sorting.  No code ranks *)
(* in this way; properties and proofs measure the loop by it.              *)

\* Twice the middle of the places that the values smaller than it leave to those equal to it.
CountedRanks(f) ==
  [w \in DOMAIN f |->
     2 * Cardinality({x \in DOMAIN f : Below(f[x], f[w])})
       + Cardinality({x \in DOMAIN f : Tied(f[x], f[w])}) + 1]

DefinedResult(periods, lines) ==
  LET o == Observations(periods, lines)
  IN ResultOf(o, CountedRanks(o.distance), CountedRanks(o.deviation))
=============================================================================
