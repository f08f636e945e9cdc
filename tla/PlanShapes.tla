----------------------------- MODULE PlanShapes -----------------------------
(***************************************************************************)
(* Plans for the model checker: spines that start with a scan of x and go  *)
(* on with operators of an alphabet, over two variables, every operator    *)
(* reading what is bound below it, and second inputs for them.             *)
(***************************************************************************)
EXTENDS Plans

Scan(v)        == Node("Scan", {}, {v})
Filter(vs)     == Node("Filter", vs, {})
Expand(s, d)   == Node("Expand", {s}, {d})

(* Operators that hold every filter: rows selected, rows written for.      *)
Blockers ==
  {Node("Limit", {}, {}), Node("Skip", {}, {}), Node("Distinct", {}, {}),
   Node("Unwind", {}, {"y"}), Node("Create", {}, {"y"})}

Passable ==
  {Expand("x", "y"), Expand("y", "x"), Node("Sort", {"x"}, {}),
   Node("PropertyMapFilter", {"y"}, {}), Node("LoadCsv", {}, {"y"}),
   Node("NamedPath", {}, {"y"})}

(* WITH x / WITH y AS x / WITH *, x AS y / WITH x, x AS y                  *)
Projections ==
  {Projection(FALSE, <<Column("x")>>, {}, FALSE),
   Projection(FALSE, <<Part({"x"}, {"y"})>>, {"x"}, FALSE),
   Projection(TRUE, <<Part({"y"}, {"x"})>>, {"y"}, FALSE),
   Projection(FALSE, <<Column("x"), Part({"y"}, {"x"})>>, {"y"}, FALSE)}

(* WITH count( * ) AS y / WITH x, count( * ) ... / WITH *, count( * ) ...   *)
Aggregations ==
  {Projection(FALSE, <<Part({"y"}, {})>>, {"y"}, TRUE),
   Projection(FALSE, <<Column("x"), Part({"y"}, {})>>, {"y"}, TRUE),
   Projection(TRUE, <<Part({"y"}, {})>>, {"y"}, TRUE)}

Filters == {Filter({}), Filter({"x"}), Filter({"y"}), Filter({"x", "y"})}

(* Second inputs: a pattern over y, one over both variables, one that      *)
(* holds filters, one with its own filter.                                 *)
SideSpines ==
  {<<Scan("y")>>,
   <<Scan("y"), Expand("y", "x")>>,
   <<Scan("y"), Node("Limit", {}, {})>>,
   <<Scan("y"), Filter({"y"}), Node("Sort", {"y"}, {})>>}

(* A Union is only ever the root of a planned query, above every filter.   *)
Joins(r) ==
  {Branching(k, r, vs) : k \in {"Cartesian", "Optional"},
                         vs \in {BoundVars(side) : side \in SideSpines}}
    \cup {Branching("Foreach", r, {})}

UsesSide(q, n) == \E i \in 1..n : q[i].right = 1

(* The spines of Q with one more operator of ops: the operator's variables *)
(* are bound and there is at most one second input.                        *)
Grow(Q, ops) ==
  {t \in {Append(q, op) : q \in Q, op \in ops} :
     LET n == Len(t) IN /\ t[n].used \subseteq Bound(t, n - 1)
                        /\ t[n].right = 0 \/ ~UsesSide(t, n - 1)}

SpinesOver(ops, length) ==
  LET G[n \in 0..length] ==
        IF n = 0 THEN {<<Scan("x")>>} ELSE Grow(G[n - 1], ops)
  IN  G[length]
=============================================================================
