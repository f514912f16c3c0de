------------------------- MODULE MCAnalysisPipeline -------------------------
(* Requests and evidence for model checking the pipeline.                  *)
EXTENDS AnalysisPipeline

For(m) == [scope |-> m, clarification |-> FALSE]
Ask(m) == [scope |-> m, clarification |-> TRUE]

Input(metrics, problems, required, empty) ==
  [metrics |-> metrics, canonical |-> TRUE, problems |-> problems,
   required |-> required, empty |-> empty, currency |-> TRUE]

\* One derived metric, with and without the metrics it is computed from, which
\* may be ineligible themselves; a shared dependency; requests that end early.
MCInputs ==
  {Input(<<"revenue">>, {}, Metrics, {}),
   Input(<<"aov">>, {}, {}, {"baseline"}),
   Input(<<"aov">>, {Ask("all")}, Metrics, {}),
   Input(<<"aov", "revenue">>, {For("revenue")}, Metrics, {}),
   Input(<<"aov", "revenue">>, {For("revenue")}, Metrics, Periods),
   Input(<<"orders", "aov">>, {Ask("aov")}, {"aov"}, {}),
   Input(<<"revenue_change", "orders">>, {}, {"revenue_change"}, {}),
   Input(<<"revenue_change", "aov">>, {For("revenue")}, Metrics, {"comparison"}),
   Input(<<"revenue", "revenue">>, {}, Metrics, {}),
   [Input(<<"orders", "revenue">>, {For("revenue")}, {}, {}) EXCEPT !.canonical = FALSE],
   [Input(<<"orders", "aov">>, {}, Metrics, {}) EXCEPT !.currency = FALSE]}
=============================================================================
