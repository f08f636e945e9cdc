---------------------------- MODULE MCOptimizer -----------------------------
(***************************************************************************)
(* Plans for the optimizer: the shapes of PlanShapes with a filter on top. *)
(***************************************************************************)
EXTENDS OptimizerSemantics, SmallGraph, PlanShapes, Cost

CONSTANT MaxOps   \* operators between the scan and the highest filter

(* Nothing a pass does depends on what is above the highest filter: the    *)
(* root is a filter.                                                       *)
PlansOver(ops, length) ==
  {pl \in {<<side, <<>>, q>> : side \in SideSpines,
              q \in Grow(SpinesOver(ops \cup Joins(1), length), Filters)} :
     RightScopesExact(pl)}

FlatPlans == PlansOver(Blockers \cup Passable \cup Projections \cup Filters, MaxOps)

(* Longer spines of fewer operators: filters stacked on filters, and what  *)
(* a product, a projection or a limit between them does.                   *)
StackedPlans ==
  PlansOver(Filters \cup {Expand("x", "y"), Node("Limit", {}, {}),
                         Projection(FALSE, <<Column("x")>>, {}, FALSE)}, MaxOps + 1)

(* Products inside a second input: filters sink twice.                     *)
NestedPlans ==
  LET inner == {<<Scan("y")>>, <<Scan("y"), Expand("y", "x")>>}
      outer(i) == {<<Scan("z"), Branching("Cartesian", 1, BoundVars(i))>>,
                   <<Scan("z"), Branching("Cartesian", 1, BoundVars(i)),
                     Filter({"y", "z"}), Node("Sort", {"z"}, {})>>}
      root(o)  == {<<Scan("x"), Branching(k, 2, BoundVars(o))>> :
                      k \in {"Cartesian", "Optional"}}
      tops     == {<<Filter(f), Filter(g)>> :
                      f \in SUBSET {"x", "y", "z"}, g \in SUBSET {"x", "y", "z"}}
  IN  UNION {UNION {UNION {{<<i, o, r \o t>> : t \in tops} : r \in root(o)}
                      : o \in outer(i)} : i \in inner}

AggregatePlans == PlansOver(Aggregations \cup Filters \cup {Expand("x", "y")}, MaxOps)

(* Plans of the form the planner gives them, but those in which a filter   *)
(* that reads nothing may go below an aggregation.                         *)
PlainPlans == FlatPlans \cup StackedPlans \cup NestedPlans
                \cup {pl \in AggregatePlans : FiltersInside(pl)}

ASSUME PlainAssumption == \A pl \in PlainPlans : IsTree(pl) /\ FiltersInside(pl)

(* What the operators of these plans do on the graph is of the right type. *)
ASSUME GraphAssumption ==
  \A op \in UNION {UNION {Range(pl[s]) : s \in Spines} : pl \in PlainPlans} :
     GivesValues(op, {<<>>} \cup {<<row>> : row \in Row})

-----------------------------------------------------------------------------
(* Statistics a user of the cost model may have: nodes with neighbours,    *)
(* tables of more rows than the filters of a plan can take away, a LIMIT   *)
(* below and a SKIP above what is left; filters that keep half, or all.    *)
Statistics(fanout, range, keep, limit, skip) ==
  [scan |-> 16 * Unit, fanout |-> fanout, range |-> range, keep |-> keep,
   unwind |-> 2 * Unit, csv |-> 4 * Unit, start |-> Unit,
   limit |-> limit, skip |-> skip, all |-> FALSE]

Models ==
  {Statistics(2 * Unit, <<>>, Unit \div 2, 10 * Unit, Unit),
   Statistics(Unit, <<1, 1>>, Unit, NoBound, NoBound),
   Statistics(Unit, <<0, 2>>, Unit \div 2, 3 * Unit, 2 * Unit)}

(* cost.rs: "The point is to give the optimizer something to score         *)
(* against", and the test pushdown_makes_plan_cheaper: no move of a filter *)
(* makes the plan dearer, although the charges of the operators it passes  *)
(* and of all those above are computed from other row counts.              *)
NeverDearer ==
  [][plan' # plan =>
       \A m \in Models : Estimate(m, plan').cost <= Estimate(m, plan).cost]_vars

(* What the caller is told of the size of the result does not depend on    *)
(* how far the rewriting has come: the estimates of the operators commute  *)
(* wherever a filter may pass.                                             *)
EstimateKept ==
  [][plan' # plan =>
       \A m \in Models : Estimate(m, plan').rows = Estimate(m, plan).rows]_vars
=============================================================================
