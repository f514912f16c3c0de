----------------------- MODULE MCRevenueDecomposition -----------------------
(* Contents of the Parquet file for model checking the decomposition.      *)
EXTENDS RevenueDecomposition

Content(b, c) == [p \in Periods |-> IF p = "baseline" THEN b ELSE c]

\* A product that stays, one that enters with revenue 0, one that leaves; the same
\* revenue on other products, the same products with other revenue, no lines at all.
MCContents ==
  {Content([x |-> 1, y |-> 2], [x |-> 2, z |-> 0]),
   Content([x |-> 2, y |-> 1], [x |-> 0, z |-> 2]),
   Content([x |-> 1, y |-> 2], [y |-> 2]),
   Content([y |-> 3], [x |-> 2, y |-> 0]),
   Content(<<>>, [x |-> -1])}

MCBroken == {{}} \cup {{g} : g \in Gates} \cup {{"context", "plan"}}
=============================================================================
