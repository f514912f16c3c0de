-------------------------- MODULE MCPublicWorkflow --------------------------
(* Three versions of a file, some questions and JSON files for model         *)
(* checking PublicWorkflow.                                                *)
EXTENDS PublicWorkflow, TLC

CONSTANTS a, b, v1, v2, v3

\* The first version has canonical columns, the second has others, the third is
\* no table.
MCHeaders ==
  v1 :> [f \in Fields |-> "canonical"] @@
  v2 :> ("order_id" :> "alias" @@ "product_id" :> "canonical" @@ "line_revenue" :> "aliases") @@
  v3 :> [f \in Fields |-> "none"]

Question ==
  [class |-> "revenue_change", metric |-> "revenue_change", role |-> "none", mapping |-> "identity",
   period |-> 1, claims |-> {"descriptive"}, family |-> "none", grouped |-> FALSE, source |-> "csv",
   table |-> FALSE, trusted |-> FALSE]

Diagnostic ==
  [Question EXCEPT !.class = "diagnostic_revenue_drop", !.family = Family,
                   !.claims = {"descriptive", "diagnostic"}, !.mapping = "confirmed"]

MCIntents ==
  a :> {Diagnostic, [Question EXCEPT !.claims = {"causal"}]} @@
  b :> {Diagnostic, [Question EXCEPT !.trusted = TRUE]}

D(id, content, cover, recorded) ==
  [id |-> id, content |-> content, context |-> "confirmed", cover |-> cover, cutoff |-> cover, recorded |-> recorded]

\* One that covers more than is asked, and two that say the same.
MCManifests == {{D(3, v1, 2, 2)}, {D(1, v1, 1, 1), D(2, v1, 1, 2)}}
=============================================================================
